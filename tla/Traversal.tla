------------------------------ MODULE Traversal -------------------------------
(***************************************************************************)
(* Walks over a tree: an iterator of tree/iterator/ that is moved to and    *)
(* fro, and rank_is of tree_base.                                           *)
(***************************************************************************)
EXTENDS TreeOrders

CONSTANT InitialTrees   \* headers with a root

ASSUME TraversalAssumption ==
  \A t \in InitialTrees : Ordered(t) /\ Children(t, <<>>) = {Root}

VARIABLES
  tree,
  mode,        \* "none", "preorder" or "postorder" iteration, "rank" or "ranked"
  it,          \* m_cursor of the iterator, or what rank_is returned
  steps,       \* the number of steps the iterator is from its begin, or the rank asked for
  queue, remaining   \* rank_is_impl

vars == <<tree, mode, it, steps, queue, remaining>>

Init ==
  /\ tree \in InitialTrees
  /\ mode = "none" /\ it = Root /\ steps = 0 /\ queue = <<>> /\ remaining = 0

-----------------------------------------------------------------------------
(* The iterators                                                            *)

Orders == {"preorder", "postorder"}

BeginIteration ==
  /\ mode # "rank"
  /\ \E order \in Orders : mode' = order /\ it' = Begin(order, tree)
  /\ steps' = 0
  /\ UNCHANGED <<tree, queue, remaining>>

Iterating == mode \in Orders

Increment ==
  /\ Iterating /\ it # Shoot
  /\ it' = Successor(mode, tree, it) /\ steps' = steps + 1
  /\ UNCHANGED <<tree, mode, queue, remaining>>

Decrement ==
  /\ Iterating /\ steps > 0
  /\ it' = Predecessor(mode, tree, it) /\ steps' = steps - 1
  /\ UNCHANGED <<tree, mode, queue, remaining>>

-----------------------------------------------------------------------------
(* rank_is                                                                  *)

RankIs(n) ==
  /\ mode # "rank"
  /\ steps' = n
  /\ IF n >= Cardinality(Nodes(tree))
     THEN mode' = "ranked" /\ it' = Shoot /\ UNCHANGED <<queue, remaining>>
     ELSE mode' = "rank" /\ queue' = <<Root>> /\ remaining' = n /\ UNCHANGED it
  /\ UNCHANGED tree

ChildrenOf(c) == [i \in 1 .. Size(tree, c) |-> Append(c, i)]

\* Mutant: a stack.
RankStepDepthFirst ==
  /\ mode = "rank" /\ remaining # 0
  /\ queue' = ChildrenOf(Head(queue)) \o Tail(queue)
  /\ remaining' = remaining - 1
  /\ UNCHANGED <<tree, mode, it, steps>>

RankStep ==
  /\ mode = "rank" /\ remaining # 0
  /\ queue' = Tail(queue) \o ChildrenOf(Head(queue))
  /\ remaining' = remaining - 1
  /\ UNCHANGED <<tree, mode, it, steps>>

RankReturn ==
  /\ mode = "rank" /\ remaining = 0
  /\ it' = Head(queue) /\ mode' = "ranked" /\ queue' = <<>>
  /\ UNCHANGED <<tree, steps, remaining>>

Next ==
  \/ BeginIteration \/ Increment \/ Decrement
  \/ \E n \in 0 .. Cardinality(Nodes(tree)) : RankIs(n)
  \/ RankStep \/ RankReturn

Spec == Init /\ [][Next]_vars

-----------------------------------------------------------------------------
\* After any mixture of ++ and -- an iterator of either order designates the node that
\* is as many places from the first as it was moved: no node is left out or met twice.
IteratorsInPlace == Iterating => InPlace(mode, tree, it, steps)

\* rank_is numbers the nodes of the tree level by level, each once, and the
\* assertion that the queue holds one in the end is true.  The strategies that draw
\* a node by a uniform number rely on it.
RankIsLevelOrder ==
  /\ mode = "rank" => queue # <<>>
  /\ mode = "ranked" => InPlace("level", tree, it, steps)

\* The last node of the subtree at c in the order of the iteration.
LastBelow(c) == IF mode = "preorder" THEN Deepest(tree, c) ELSE c

\* end_preorder( c ) and end_postorder( c ) are the place beside c.  Leaving the
\* subtree of a cursor that is not the root, ++ comes to it only where c has a right
\* sibling, which in postorder must be a leaf; otherwise the range has no end.
SubtreeRangesEnd ==
  Iterating =>
    \A c \in Nodes(tree) :
      it = LastBelow(c) =>
        (Successor(mode, tree, it) = Beside(c, 1)
         <=> \/ c = Root
             \/ /\ Len(c) \in Unfinished(tree, c)
                /\ mode = "postorder" => Empty(tree, Beside(c, 1)))
=============================================================================
