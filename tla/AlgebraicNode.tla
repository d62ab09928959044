---------------------------- MODULE AlgebraicNode -----------------------------
(***************************************************************************)
(* The nodes that formulas are made of (canonic/algebraic_node.hpp,         *)
(* tree/intrusive_functions.hpp) and what an algebras object knows of them  *)
(* (canonic/algebras.hpp, canonic/group.hpp), set up as                     *)
(* examples/simplification does: two abelian groups.                        *)
(*                                                                         *)
(* A node is a pair of m_precedence and a number that stands for m_name in  *)
(* its order.  Numbers are those modulo a prime, where the laws of both     *)
(* groups hold exactly.                                                     *)
(***************************************************************************)
EXTENDS PathTree

CONSTANT Modulus

ASSUME ModulusAssumption == Modulus \in Nat \ {0, 1}

\* make_binary_operation, make_identity_operation, make_unary_operation,
\* make_variable_terminal, make_constant_terminal.
Times == <<20, 1>>
Plus == <<20, 2>>
Minus == <<20, 3>>
Divides == <<20, 4>>
Reciprocal == <<11, 1>>
Negative == <<11, 2>>
Square == <<10, 1>>
Variable(i) == <<1, i>>
Constant(k) == <<0, k>>

IsConstant(n) == n[1] = 0

\* operator< of algebraic_node: the higher precedence first, then the name.
Before(m, n) == m[1] > n[1] \/ (m[1] = n[1] /\ m[2] < n[2])

Groups ==
  {[operation |-> Plus, inverse_operation |-> Minus, inverse_function |-> Negative],
   [operation |-> Times, inverse_operation |-> Divides, inverse_function |-> Reciprocal]}

\* add_abelian_group makes an operation associative and commutative.
IsAssociative(n) == \E g \in Groups : g.operation = n

IsCommutative(n) == \E g \in Groups : g.operation = n

\* get_group_from_inverse_operation and -_function: one group or none.
GroupFromInverseOperation(n) == {g \in Groups : g.inverse_operation = n}

GroupFromInverseFunction(n) == {g \in Groups : g.inverse_function = n}

-----------------------------------------------------------------------------
\* 1 / v; for v = 0, which has no inverse, 0.
InverseOf(v) ==
  IF v = 0 THEN 0 ELSE CHOOSE w \in 1 .. Modulus - 1 : (v * w) % Modulus = 1

Sum(s) == FoldSeq(LAMBDA a, b : (a + b) % Modulus, 0, s)

Product(s) == FoldSeq(LAMBDA a, b : (a * b) % Modulus, 1, s)

\* eval( context ): plus_func and multiplies_func take all children, the others the
\* first, or the first two.
Eval(t, context) ==
  LET value[p \in DOMAIN t] ==
        LET a == [i \in 1 .. Cardinality(Children(t, p)) |-> value[Append(p, i)]] IN
        CASE t[p] = Plus -> Sum(a)
          [] t[p] = Times -> Product(a)
          [] t[p] = Minus -> (a[1] - a[2]) % Modulus
          [] t[p] = Divides -> (a[1] * InverseOf(a[2])) % Modulus
          [] t[p] = Negative -> (- a[1]) % Modulus
          [] t[p] = Reciprocal -> InverseOf(a[1])
          [] t[p] = Square -> (a[1] * a[1]) % Modulus
          [] t[p][1] = 1 -> context[t[p][2]]
          [] IsConstant(t[p]) -> t[p][2]
  IN value[<<>>]

Contexts == [1 .. 2 -> 0 .. Modulus - 1]

\* A context_type {}, for terms without variables.
NoContext == [i \in 1 .. 2 |-> 0]
=============================================================================
