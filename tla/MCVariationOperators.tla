------------------------- MODULE MCVariationOperators -------------------------
(***************************************************************************)
(* VariationOperators for TLC: a terminal, two unary and a binary symbol.   *)
(***************************************************************************)
EXTENDS VariationOperators

CONSTANTS X, Sin, Neg, Plus

MCArity == (X :> 0) @@ (Sin :> 1) @@ (Neg :> 1) @@ (Plus :> 2)

Single == Leaf(X)
Unary == Term(Sin, <<Leaf(X)>>)
Binary == Term(Plus, <<Leaf(X), Leaf(X)>>)
Tall == Term(Neg, <<Unary>>)

\* One of the trees is higher than max_height allows; one component is empty.
MCInitial ==
  {<<<<a>>, <<b>>>> : a, b \in {Single, Binary, Tall}}
  \cup {<<<<Binary, Single>>, <<Empty, Single>>>>}

\* None of them is.
MCLimited == {pair \in MCInitial : \A i \in 1 .. 2 : \A t \in Range(pair[i]) : Height(t) <= MaxHeight}

MCGenerated == {Unary, Binary}
=============================================================================
