------------------------------ MODULE ArrayNode ------------------------------
(***************************************************************************)
(* descending_array_node (node_base.hpp): the children live in a std::array *)
(* of MaxArity pointers, nullptr marks a free slot and size() is the index  *)
(* of the first nullptr.  Slots are numbered from 0 as in the code.         *)
(***************************************************************************)
EXTENDS Integers

CONSTANTS
  Child,       \* the child pointers, nullptr excluded
  MaxChildren, \* MaxArity, the template parameter of the node
  NoChild      \* nullptr

ASSUME ArrayNodeAssumption ==
  /\ MaxChildren \in Nat \ {0}
  /\ NoChild \notin Child

VARIABLE m_children

Slot == 0 .. MaxChildren - 1

\* std::find from begin(): the first slot that holds x, MaxChildren (end()) when
\* there is none.
Find(x) ==
  CHOOSE i \in 0 .. MaxChildren :
    /\ i < MaxChildren => m_children[i] = x
    /\ \A j \in 0 .. i - 1 : m_children[j] # x

Size == Find(NoChild)

\* std::rotate(begin + i, end - 1, end): the element at end - 1 comes to i and
\* the ones from i on move up by one.
Rotated(i, end) ==
  [k \in Slot |-> IF k = i /\ i < end THEN m_children[end - 1]
                  ELSE IF i < k /\ k < end THEN m_children[k - 1]
                  ELSE m_children[k]]

\* std::copy(first, last, first - 1): the slots from first on move down by one.
CopiedDown(first, last) ==
  [k \in Slot |-> IF first - 1 <= k /\ k < last - 1 THEN m_children[k + 1]
                  ELSE m_children[k]]

ArrayInit == m_children = [k \in Slot |-> NoChild]

AttachChild(c) ==
  /\ Find(NoChild) # MaxChildren
  /\ m_children' = [m_children EXCEPT ![Find(NoChild)] = c]

InsertChild(i, c) ==
  /\ Size < MaxChildren
  /\ i <= Size
  /\ m_children' = [Rotated(i, Size + 1) EXCEPT ![i] = c]

\* Mutant: the last child fills the gap.
RemoveChildUnordered(c) ==
  /\ Find(c) # MaxChildren
  /\ m_children' = [m_children EXCEPT ![Find(c)] = m_children[Size - 1],
                                      ![Size - 1] = NoChild]

RemoveChild(c) ==
  /\ Find(c) # MaxChildren
  /\ m_children' = [CopiedDown(Find(c) + 1, Size) EXCEPT ![Size - 1] = NoChild]

SetChild(i, c) ==
  /\ i < Size
  /\ m_children' = [m_children EXCEPT ![i] = c]

ArrayNext ==
  \/ \E c \in Child : AttachChild(c) \/ RemoveChild(c)
  \/ \E c \in Child, i \in 0 .. MaxChildren : InsertChild(i, c) \/ SetChild(i, c)

ArraySpec == ArrayInit /\ [][ArrayNext]_m_children
-----------------------------------------------------------------------------
ArrayTypeOK == m_children \in [Slot -> Child \cup {NoChild}]

\* The free slots are a suffix: no operation leaves a nullptr in front of a
\* child.  size(), the iteration over [0, size()) and remove_child all rely on
\* it, and none of them checks it.
Packed ==
  \A i, j \in Slot : i < j /\ m_children[i] = NoChild => m_children[j] = NoChild

ArrayInv == ArrayTypeOK /\ Packed

\* The array node implements the sequence of children of the vector node.
Contents == [k \in 1 .. Size |-> m_children[k - 1]]

Container == INSTANCE ChildContainer WITH
  children <- Contents, Capacity <- MaxChildren

ImplementsContainer == Container!Spec
=============================================================================
