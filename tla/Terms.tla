-------------------------------- MODULE Terms --------------------------------
(***************************************************************************)
(* Ordered trees as terms: a record of a value and the sequence of the      *)
(* subtrees.                                                                *)
(***************************************************************************)
Term(v, s) == [v |-> v, sub |-> s]
Leaf(v) == Term(v, <<>>)
=============================================================================
