------------------------------ MODULE PolishWord ------------------------------
(***************************************************************************)
(* What writing a tree root first, children from left to right, amounts to: *)
(* the arities of its nodes in that order form a word in which open, the    *)
(* number of subtrees still owed, starts at one, falls by one and rises by  *)
(* the arity with every node, and reaches zero with the last one.           *)
(***************************************************************************)
EXTENDS Integers, Sequences

CONSTANT NonTerminals   \* the arities of inner nodes

VARIABLES word, open

vars == <<word, open>>

Init == word = <<>> /\ open = 1

Write(a) ==
  /\ open > 0
  /\ word' = Append(word, a)
  /\ open' = open - 1 + a

Next == \E a \in NonTerminals \cup {0} : Write(a)

Spec == Init /\ [][Next]_vars
=============================================================================
