------------------------------ MODULE TreeOrders -------------------------------
(***************************************************************************)
(* The orders in which tree/iterator/ goes through a tree, preorder_policy  *)
(* and postorder_policy.  A cursor is the path that leads to it from the    *)
(* header: the root is <<1>>, the place behind it <<2>>, and the position   *)
(* behind the last child of a node is a cursor too.                         *)
(***************************************************************************)
EXTENDS PathTree

Root == <<1>>
Shoot == <<2>>

Nodes(t) == DOMAIN t \ {<<>>}

Empty(t, c) == Size(t, c) = 0

Beside(c, d) == Append(Front(c), Last(c) + d)

\* The levels, below that of the root, at which c is behind the first child.
Behind(c) == {i \in 2 .. Len(c) : c[i] > 1}

\* Along the first children, or along the last, from c down to a leaf.
First(t, c) ==
  CHOOSE p \in Below(t, c) : Empty(t, p) /\ \A i \in Len(c) + 1 .. Len(p) : p[i] = 1

Deepest(t, c) ==
  CHOOSE p \in Below(t, c) :
    Empty(t, p) /\ \A i \in Len(c) + 1 .. Len(p) : p[i] = Size(t, SubSeq(p, 1, i - 1))

\* Mutant: climbs one level only.
PreorderSuccessorOnce(t, c) ==
  IF ~ Empty(t, c) THEN Append(c, 1)
  ELSE IF Len(c) \in Unfinished(t, c) THEN Beside(c, 1)
  ELSE IF Len(c) - 1 \in Unfinished(t, c) THEN Beside(Front(c), 1)
  ELSE Shoot

PreorderSuccessor(t, c) ==
  IF ~ Empty(t, c) THEN Append(c, 1)
  ELSE IF Unfinished(t, c) = {} THEN Shoot
  ELSE Beside(SubSeq(c, 1, Max(Unfinished(t, c))), 1)

PreorderPredecessor(t, c) ==
  IF c # Shoot /\ Last(c) = 1 THEN Front(c) ELSE Deepest(t, Beside(c, -1))

PostorderSuccessor(t, c) ==
  IF c = Root THEN Shoot
  ELSE IF Len(c) \in Unfinished(t, c) THEN First(t, Beside(c, 1))
  ELSE Front(c)

\* Mutant: the first children are not climbed over.
PostorderPredecessorNear(t, c) ==
  IF c = Shoot THEN Root
  ELSE IF ~ Empty(t, c) THEN Append(c, Size(t, c))
  ELSE IF Last(c) = 1 THEN Front(c) ELSE Beside(c, -1)

PostorderPredecessor(t, c) ==
  IF c = Shoot THEN Root
  ELSE IF ~ Empty(t, c) THEN Append(c, Size(t, c))
  ELSE Beside(SubSeq(c, 1, Max(Behind(c))), -1)

Successor(order, t, c) ==
  IF order = "preorder" THEN PreorderSuccessor(t, c) ELSE PostorderSuccessor(t, c)

Predecessor(order, t, c) ==
  IF order = "preorder" THEN PreorderPredecessor(t, c) ELSE PostorderPredecessor(t, c)

\* begin() of the iteration.
Begin(order, t) == IF order = "preorder" THEN Root ELSE First(t, Root)

-----------------------------------------------------------------------------
\* Which of two nodes comes first, by what the orders mean.
Precedes(order, p, q) ==
  CASE order = "preorder" -> IsStrictPrefix(p, q) \/ LeftOf(p, q)
    [] order = "postorder" -> IsStrictPrefix(q, p) \/ LeftOf(p, q)
    [] order = "level" -> Len(p) < Len(q) \/ (Len(p) = Len(q) /\ LeftOf(p, q))

\* c is the node with n nodes before it, or the end if there are n nodes.
InPlace(order, t, c, n) ==
  IF n = Cardinality(Nodes(t)) THEN c = Shoot
  ELSE c \in Nodes(t) /\ Cardinality({p \in Nodes(t) : Precedes(order, p, c)}) = n
=============================================================================
