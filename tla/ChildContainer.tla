--------------------------- MODULE ChildContainer ---------------------------
(***************************************************************************)
(* The children of one node as the vector node keeps them: a sequence of    *)
(* child pointers (descending_vector_node, node_base.hpp).  It is also what *)
(* the rest of the tree expects of any node type, hence the abstract        *)
(* specification that ArrayNode implements.                                 *)
(***************************************************************************)
EXTENDS Integers, Sequences

CONSTANTS
  Child,      \* the child pointers, nullptr excluded
  Capacity    \* max_size() of the node

VARIABLE children

\* The 1-based place of a child found by std::find, Len + 1 for "not found".
Found(s, c) ==
  CHOOSE i \in 1 .. Len(s) + 1 :
    /\ i <= Len(s) => s[i] = c
    /\ \A j \in 1 .. i - 1 : s[j] # c

\* vector::insert in front of the 0-based place i, and vector::erase of the
\* 1-based place k.
Inserted(s, i, c) ==
  [k \in 1 .. Len(s) + 1 |->
     IF k <= i THEN s[k] ELSE IF k = i + 1 THEN c ELSE s[k - 1]]

Erased(s, k) == [j \in 1 .. Len(s) - 1 |-> IF j < k THEN s[j] ELSE s[j + 1]]

Init == children = <<>>

AttachChild(c) ==
  /\ Len(children) < Capacity
  /\ children' = Append(children, c)

InsertChild(i, c) ==
  /\ Len(children) < Capacity
  /\ i <= Len(children)
  /\ children' = Inserted(children, i, c)

RemoveChild(c) ==
  /\ Found(children, c) <= Len(children)
  /\ children' = Erased(children, Found(children, c))

\* set_child_node is only called on a place that holds a child.
SetChild(i, c) ==
  /\ i < Len(children)
  /\ children' = [children EXCEPT ![i + 1] = c]

Next ==
  \/ \E c \in Child : AttachChild(c) \/ RemoveChild(c)
  \/ \E c \in Child, i \in 0 .. Capacity : InsertChild(i, c) \/ SetChild(i, c)

Spec == Init /\ [][Next]_children
=============================================================================
