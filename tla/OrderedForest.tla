---------------------------- MODULE OrderedForest ----------------------------
(***************************************************************************)
(* What the tree classes promise, without nodes, pointers or counters: every *)
(* tree object holds an ordered tree or nothing, and each operation rewrites *)
(* these trees.  An ordered tree is a record of a value and the sequence of  *)
(* its subtrees; the content of a tree object is written the same way, as    *)
(* the children of a header without a value.  A place is a path: the         *)
(* positions to follow from the header, <<>> being the header itself.        *)
(***************************************************************************)
EXTENDS OrderedTerms, Integers

CONSTANTS Tree, Value, Null

VARIABLE forest

Hole == Leaf(Null)

RECURSIVE DropHoles(_)

DropHoles(x) ==
  LET kept == SelectSeq(x.sub, LAMBDA y : y # Hole)
  IN Term(x.v, [i \in DOMAIN kept |-> DropHoles(kept[i])])

NodePaths(t) == Paths(forest[t]) \ {<<>>}

\* The children of the node at h, with y inserted in front of the k-th.
InsertedIn(x, h, k, y) == Put(x, h, [At(x, h) EXCEPT !.sub = InsertAt(@, k, y)])

Prefix(p, q) == Len(p) <= Len(q) /\ SubSeq(q, 1, Len(p)) = p

Becomes(t, x) == forest' = [forest EXCEPT ![t] = x]

-----------------------------------------------------------------------------
Init == forest = [t \in Tree |-> Hole]

\* A new leaf, or a copy of any subtree, becomes the k-th child of a node; the
\* header takes only a root.
InsertTerm(t, h, k, y) ==
  /\ k \in 1 .. Len(At(forest[t], h).sub) + 1
  /\ h = <<>> => forest[t].sub = <<>>
  /\ Becomes(t, InsertedIn(forest[t], h, k, y))

\* Inserting a copy of the j-th child in front of the k-th, k <= j, through a
\* cursor: the value is copied before the children shift, the subtrees after.
InsertShifted(t, h, k, j) ==
  LET s == At(forest[t], h).sub
      sub == IF j = k THEN <<>> ELSE s[j - 1].sub
  IN /\ k <= j
     /\ Becomes(t, InsertedIn(forest[t], h, k, Term(s[j].v, sub)))

InsertAbove(t, p, v) == Becomes(t, Put(forest[t], p, Term(v, <<At(forest[t], p)>>)))

AssignAt(t, p, y) == Becomes(t, Put(forest[t], p, y))

Erase(t, p) == Becomes(t, DropHoles(Put(forest[t], p, Hole)))

Clear(t) == Becomes(t, Hole)

Copy(t, u) == Becomes(t, forest[u])

AssignTree(t, y) == Becomes(t, Term(Null, <<y>>))

Move(t, u) == t # u /\ forest' = [forest EXCEPT ![t] = forest[u], ![u] = Hole]

Swap(t, u) == forest' = [forest EXCEPT ![t] = forest[u], ![u] = forest[t]]

\* Two subtrees, none below the other, change places.
SwapSubtrees(t, p, u, q) ==
  LET x == At(forest[t], p)
      y == At(forest[u], q) IN
  /\ t = u => ~Prefix(p, q) /\ ~Prefix(q, p)
  /\ forest' = [forest EXCEPT ![t] = Put(@, p, y), ![u] = Put(@, q, x)]

\* The subtree at q becomes the last child of h.
SwapIntoPlace(t, h, u, q) ==
  LET end == Len(At(forest[t], h).sub) + 1
      grown == [forest EXCEPT ![t] = InsertedIn(forest[t], h, end, At(forest[u], q))] IN
  /\ t = u => ~Prefix(q, h)
  /\ h = <<>> => forest[t].sub = <<>>
  /\ forest' = [grown EXCEPT ![u] = DropHoles(Put(grown[u], q, Hole))]

\* The subtree at c replaces the one at p, or moves in front of it.
MoveSubtree(t, p, c) ==
  /\ ~Prefix(c, p)
  /\ Becomes(t, DropHoles(Put(Put(forest[t], c, Hole), p, At(forest[t], c))))

MoveAndInsertSubtree(t, p, c) ==
  /\ ~Prefix(c, p)
  /\ Len(p) > 1 /\ Len(c) > 1
  /\ Becomes(t, DropHoles(
       InsertedIn(Put(forest[t], c, Hole), Front(p), Last(p), At(forest[t], c))))

-----------------------------------------------------------------------------
\* What an insertion can bring in.
Subterms == UNION {{At(forest[u], c) : c \in NodePaths(u)} : u \in Tree}

Next ==
  \E t \in Tree :
    \/ \E h \in Paths(forest[t]) :
         \E k \in 1 .. Len(At(forest[t], h).sub) + 1 :
           \E y \in {Leaf(v) : v \in Value} \cup Subterms : InsertTerm(t, h, k, y)
    \/ \E h \in NodePaths(t) :
         \E j, k \in DOMAIN At(forest[t], h).sub : InsertShifted(t, h, k, j)
    \/ \E p \in NodePaths(t), v \in Value : InsertAbove(t, p, v)
    \/ \E p \in NodePaths(t), y \in Subterms : AssignAt(t, p, y)
    \/ \E p \in NodePaths(t) : AssignAt(t, p, Leaf(At(forest[t], p).v))
    \/ \E p \in NodePaths(t) : Erase(t, p)
    \/ Clear(t)
    \/ \E y \in Subterms : AssignTree(t, y)
    \/ \E u \in Tree : Copy(t, u) \/ Move(t, u) \/ Swap(t, u)
    \/ \E u \in Tree : \E p \in NodePaths(t), q \in NodePaths(u) : SwapSubtrees(t, p, u, q)
    \/ \E u \in Tree : \E h \in Paths(forest[t]), q \in NodePaths(u) : SwapIntoPlace(t, h, u, q)
    \/ \E p, c \in NodePaths(t) : MoveSubtree(t, p, c) \/ MoveAndInsertSubtree(t, p, c)

Spec == Init /\ [][Next]_forest
=============================================================================
