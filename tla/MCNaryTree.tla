----------------------------- MODULE MCNaryTree -----------------------------
(***************************************************************************)
(* The two halves of basic_nary_tree in one run: the trees of nodes with    *)
(* few places, while the array is empty, and the array of a node, beside    *)
(* empty trees.                                                             *)
(***************************************************************************)
EXTENDS MCTreeBase, ArrayNode

NaryInit == Init /\ ArrayInit

NaryNext ==
  \/ ArrayInit /\ Next /\ UNCHANGED m_children
  \/ Init /\ ArrayNext /\ UNCHANGED vars

NarySpec == NaryInit /\ [][NaryNext]_<<vars, m_children>>
=============================================================================
