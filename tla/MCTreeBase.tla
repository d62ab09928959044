----------------------------- MODULE MCTreeBase -----------------------------
(***************************************************************************)
(* Model checking of TreeBase, and its refinement mapping to OrderedForest: *)
(* the ordered tree that the children pointers spell out.                   *)
(***************************************************************************)
EXTENDS TreeBase

RECURSIVE TermOf(_), PathOf(_)

TermOf(h) ==
  [v |-> IF h \in Tree THEN Null ELSE value[h],
   sub |-> [i \in DOMAIN children[h] |-> TermOf(children[h][i])]]

\* The path from the header to a holder, and to the node a cursor designates.
PathOf(h) ==
  IF h \in Tree THEN <<>>
  ELSE Append(PathOf(parent[h]), ChildIndex(children[parent[h]], h))

Path(c) == Append(PathOf(c.m_node), c.m_pos + 1)

Terms == [t \in Tree |-> TermOf(t)]

Abstract == INSTANCE OrderedForest WITH forest <- Terms

\* Every operation on linked nodes rewrites the ordered trees as specified and
\* touches no other tree; an insert that throws changes none.
ImplementsForest == Abstract!Spec

SubtreeAt(u, c) == Abstract!At(Terms[u], Path(c))

InsertsAsSpecified(t, p, y) ==
  Abstract!InsertTerm(t, PathOf(p.m_node), p.m_pos + 1, y)

AppendsAsSpecified(t, p, y) ==
  LET h == Target(p)
  IN Abstract!InsertTerm(t, PathOf(h), Len(children[h]) + 1, y)

\* Beyond that, each call that returns changes the ordered trees at the places
\* its cursors designated when it was called, whatever moves on the way: the
\* new child is in front of the node meant, the moved subtree too, an erased
\* place is closed, the rest keeps its order.
CallsAsSpecified ==
  [][outcome' = "ok" =>
       \A t \in Tree :
         /\ \A p \in NodeCursors(t) \cup EmptyPlaces(t), v \in Value :
              /\ InsertBelow(t, p, v) => AppendsAsSpecified(t, p, Abstract!Leaf(v))
              /\ Insert(t, p, v) => InsertsAsSpecified(t, p, Abstract!Leaf(v))
              /\ InsertAbove(t, p, v) =>
                   IF Valid(p) THEN Abstract!InsertAbove(t, Path(p), v)
                   ELSE InsertsAsSpecified(t, p, Abstract!Leaf(v))
         /\ \A p \in NodeCursors(t) : Erase(t, p) => Abstract!Erase(t, Path(p))
         /\ \A p, c \in NodeCursors(t) :
              /\ MoveSubtree(t, p, c) => Abstract!MoveSubtree(t, Path(p), Path(c))
              /\ MoveAndInsertSubtree(t, p, c) =>
                   Abstract!MoveAndInsertSubtree(t, Path(p), Path(c))
         /\ \A u \in Tree :
              /\ MoveAssign(t, u) => Abstract!Move(t, u)
              /\ CopyAssign(t, u) => Abstract!Copy(t, u)
              /\ \A p \in NodeCursors(t), c \in NodeCursors(u) :
                   /\ InsertBelowSubtree(t, p, c) =>
                        AppendsAsSpecified(t, p, SubtreeAt(u, c))
                   /\ AssignAt(t, p, c) =>
                        Abstract!AssignAt(t, Path(p),
                          IF p = c THEN Abstract!Leaf(SubtreeAt(u, c).v) ELSE SubtreeAt(u, c))
                   /\ SwapSubtrees(t, p, u, c) =>
                        p = c \/ Abstract!SwapSubtrees(t, Path(p), u, Path(c))]_vars

NodeSymmetry == Permutations(Node)
=============================================================================
