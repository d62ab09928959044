--------------------------- MODULE MCTransformTree ----------------------------
(***************************************************************************)
(* TransformTree for TLC: the formulas to begin with.                       *)
(***************************************************************************)
EXTENDS TransformTree

MCRules == <<"sort_commutative", "left_lift", "remove_double_inverse_functions",
             "remove_inverse_operations", "summarize_constants">>

X == Leaf(Variable(1))
Y == Leaf(Variable(2))
Number(k) == Leaf(Constant(k))

Unary == {Negative, Reciprocal}
Binary == {Plus, Minus, Times, Divides}

Applied(terms) ==
  terms \cup {Term(f, <<t>>) : f \in Unary, t \in terms}
        \cup {Term(f, <<t, u>>) : f \in Binary, t \in terms, u \in terms}

\* All formulas of at most two levels of operations over a variable and a number,
\* and the trees of test/canonic: y + ( 2 + ( x * ( 4 * 8 ) ) ) and its like.
Small == Applied(Applied({X, Number(2)}))

Nested ==
  {Term(Plus, <<Y, Term(Plus, <<Number(2), Term(Times, <<X, Term(Times, <<Number(4), Number(3)>>)>>)>>)>>),
   Term(Plus, <<Y, X, Term(Times, <<Number(2), Term(Times, <<X, Number(3)>>)>>)>>),
   Term(Minus, <<Y, Term(Negative, <<Term(Minus, <<X, Term(Square, <<Number(2)>>)>>)>>)>>)}

MCInitialTrees == Small \cup Nested
=============================================================================
