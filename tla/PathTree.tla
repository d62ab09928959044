------------------------------- MODULE PathTree -------------------------------
(***************************************************************************)
(* Ordered trees as functions from their nodes to values.  A node is the    *)
(* path of child numbers that leads to it from the root, so level() is its  *)
(* length, and a cursor is such a path.                                    *)
(***************************************************************************)
EXTENDS Integers, FiniteSets, FiniteSetsExt, SequencesExt

Path == Seq(Nat)

\* The nodes below p.
Below(t, p) == {q \in DOMAIN t : IsPrefix(p, q)}

From(p, q) == SubSeq(q, Len(p) + 1, Len(q))

Subtree(t, p) == [r \in {From(p, q) : q \in Below(t, p)} |-> t[p \o r]]

\* height() and size() of a cursor.
Height(t) == Max({0} \cup {Len(p) + 1 : p \in DOMAIN t})

HeightAt(t, p) == Height(Subtree(t, p))

Children(t, p) == {q \in Below(t, p) : Len(q) = Len(p) + 1}

\* size() of a node is the number of its children.
Size(t, p) == Cardinality(Children(t, p))

\* Mutant: one child too many.
UnfinishedLate(t, c) == {k \in DOMAIN c : c[k] <= Size(t, SubSeq(c, 1, k - 1))}

\* The levels at which the cursor c is before the last child.
Unfinished(t, c) == {k \in DOMAIN c : c[k] < Size(t, SubSeq(c, 1, k - 1))}

\* p branches off to the left of q.
LeftOf(p, q) ==
  \E k \in 1 .. Len(p) : k <= Len(q) /\ (\A i \in 1 .. k - 1 : p[i] = q[i]) /\ p[k] < q[k]

\* t with s in the place of what is below p.
Put(t, p, s) ==
  [q \in (DOMAIN t \ Below(t, p)) \cup {p \o r : r \in DOMAIN s} |->
     IF IsPrefix(p, q) THEN s[From(p, q)] ELSE t[q]]

\* The value of the root and what is below each of its children, in their order.
Top(t) == t[<<>>]

Operands(t) == [i \in {p[1] : p \in DOMAIN t \ {<<>>}} |-> Subtree(t, <<i>>)]

\* The tree of these.
Term(v, operands) ==
  LET paths == {<<>>} \cup
        UNION {{<<i>> \o p : p \in DOMAIN operands[i]} : i \in DOMAIN operands} IN
  [p \in paths |-> IF p = <<>> THEN v ELSE operands[Head(p)][Tail(p)]]

Leaf(v) == Term(v, <<>>)

\* The children of a node are numbered from 1, and none hangs in the air.
Ordered(t) ==
  /\ IsFiniteSet(DOMAIN t) /\ DOMAIN t \subseteq Path /\ <<>> \in DOMAIN t
  /\ \A p \in DOMAIN t : p # <<>> => Front(p) \in DOMAIN t
  /\ \A p \in DOMAIN t :
       Children(t, p) = {Append(p, k) : k \in 1 .. Cardinality(Children(t, p))}
=============================================================================
