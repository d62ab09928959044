------------------------- MODULE TransformTree_proofs --------------------------
(***************************************************************************)
(* Theorems about TransformTree: the cursor stays in the tree, and when the *)
(* transformation returns no rule applies anywhere.                         *)
(***************************************************************************)
EXTENDS TransformTree, PathTree_proofs

-----------------------------------------------------------------------------
(* What a rule sees                                                         *)

\* Two nodes that look the same to a rule that has nothing to do: their values, the
\* numbers of their children and the values of these.
SameView(x, y) ==
  /\ Top(y) = Top(x)
  /\ \E n \in Nat :
       /\ DOMAIN Operands(x) = 1 .. n /\ Len(Operands(x)) = n
       /\ DOMAIN Operands(y) = 1 .. n /\ Len(Operands(y)) = n
       /\ \A i \in 1 .. n : Top(Operands(y)[i]) = Top(Operands(x)[i])

\* An answer that changes the tree is none of descent.
LEMMA OtherAnswers ==
  ASSUME NEW R, \A a \in R : a.result # "descent", NEW x
  PROVE  R # Descent(x)
<1> DEFINE d == [result |-> "descent", term |-> x]
<1>1. d \in Descent(x) /\ d.result = "descent"
  BY DEF Descent, Answer
<1> HIDE DEF d
<1>2. QED
  BY <1>1

\* The one answer of descent.
LEMMA DescentIs ==
  ASSUME NEW x, NEW a \in Descent(x)
  PROVE  a.result = "descent" /\ a.term = x
  BY DEF Descent, Answer

\* The one answer of another kind.
LEMMA AnswerIs ==
  ASSUME NEW result, NEW y, NEW a \in Answer(result, y)
  PROVE  a.result = result /\ a.term = y
  BY DEF Answer

\* A rule that has nothing to do at a node has nothing to do at one of the same view.
LEMMA SortByView ==
  ASSUME NEW x, NEW y, SameView(x, y), SortCommutative(x) = Descent(x)
  PROVE  SortCommutative(y) = Descent(y)
<1>1. ~ (IsCommutative(Top(x)) /\ ~ SortedBy(Operands(x)))
  <2> DEFINE R == UNION {Answer("repeat", Term(Top(x), z)) : z \in Sorted(Operands(x))}
  <2>1. \A a \in R : a.result # "descent"
    <3>1. SUFFICES ASSUME NEW a \in R PROVE a.result # "descent"
      OBVIOUS
    <3>2. PICK z \in Sorted(Operands(x)) : a \in Answer("repeat", Term(Top(x), z))
      OBVIOUS
    <3>3. QED
      BY <3>2, AnswerIs
  <2> HIDE DEF R
  <2>2. R # Descent(x)
    BY <2>1, OtherAnswers
  <2>3. QED
    BY <2>2 DEF R, SortCommutative
<1>2. SortedBy(Operands(y)) <=> SortedBy(Operands(x))
  BY DEF SameView, SortedBy
<1>3. QED
  BY <1>1, <1>2 DEF SameView, SortCommutative

LEMMA LeftLiftByView ==
  ASSUME NEW x, NEW y, SameView(x, y), LeftLift(x) = Descent(x)
  PROVE  LeftLift(y) = Descent(y)
<1> DEFINE s == Operands(x)
           z == Operands(y)
<1>1. /\ Top(y) = Top(x) /\ Len(z) = Len(s) /\ Len(s) \in Nat
      /\ Len(s) >= 1 => Top(z[1]) = Top(s[1])
  BY DEF SameView
<1>2. \A term : Answer("throw", term) # Descent(x) /\ Answer("repeat", term) # Descent(x)
  BY AnswerIs, OtherAnswers
<1> HIDE DEF s, z
<1>3. ~ IsAssociative(Top(x)) \/ (Len(s) >= 2 /\ Top(s[1]) # Top(x))
  BY <1>1, <1>2 DEF LeftLift, s
<1>4. ~ IsAssociative(Top(y)) \/ (Len(z) >= 2 /\ Top(z[1]) # Top(y))
  BY <1>1, <1>3
<1>5. QED
  BY <1>1, <1>4 DEF LeftLift, z

LEMMA RemoveDoubleByView ==
  ASSUME NEW x, NEW y, SameView(x, y), RemoveDoubleInverseFunctions(x) = Descent(x)
  PROVE  RemoveDoubleInverseFunctions(y) = Descent(y)
<1> DEFINE s == Operands(x)
           z == Operands(y)
<1>1. /\ Top(y) = Top(x) /\ Len(z) = Len(s) /\ Len(s) \in Nat
      /\ Len(s) >= 1 => Top(z[1]) = Top(s[1])
  BY DEF SameView
<1>2. \A term : Answer("throw", term) # Descent(x) /\ Answer("ascent", term) # Descent(x)
  BY AnswerIs, OtherAnswers
<1> HIDE DEF s, z
<1>3. GroupFromInverseFunction(Top(x)) = {} \/ (Len(s) = 1 /\ Top(s[1]) # Top(x))
  BY <1>2 DEF RemoveDoubleInverseFunctions, s
<1>4. GroupFromInverseFunction(Top(y)) = {} \/ (Len(z) = 1 /\ Top(z[1]) # Top(y))
  BY <1>1, <1>3
<1>5. QED
  BY <1>4 DEF RemoveDoubleInverseFunctions, z

LEMMA RemoveInverseByView ==
  ASSUME NEW x, NEW y, SameView(x, y), RemoveInverseOperations(x) = Descent(x)
  PROVE  RemoveInverseOperations(y) = Descent(y)
<1> DEFINE s == Operands(x)
           T(g) == Term(g.operation, <<s[1], Term(g.inverse_function, <<s[2]>>)>>)
           R == UNION {Answer("ascent", T(g)) : g \in GroupFromInverseOperation(Top(x))}
<1>1. Answer("throw", x) # Descent(x)
  BY AnswerIs, OtherAnswers
<1>2. R # Descent(x)
  <2>1. ASSUME NEW a \in R PROVE a.result # "descent"
    <3>1. PICK g \in GroupFromInverseOperation(Top(x)) : a \in Answer("ascent", T(g))
      OBVIOUS
    <3>2. QED
      BY <3>1, AnswerIs
  <2> HIDE DEF R
  <2>2. QED
    BY <2>1, OtherAnswers
<1>3. GroupFromInverseOperation(Top(x)) = {}
  BY <1>1, <1>2 DEF RemoveInverseOperations
<1>4. QED
  BY <1>3 DEF SameView, RemoveInverseOperations

\* The constants at the end begin in the same place.
LEMMA SummarizeByView ==
  ASSUME NEW x, NEW y, SameView(x, y), SummarizeConstants(x) = Descent(x)
  PROVE  SummarizeConstants(y) = Descent(y)
<1> DEFINE s == Operands(x)
           z == Operands(y)
           NoConstants(u) == {0} \cup {i \in DOMAIN u : ~ IsConstant(Top(u[i]))}
           start == Max(NoConstants(s))
<1>1. PICK n \in Nat :
        /\ DOMAIN s = 1 .. n /\ Len(s) = n /\ DOMAIN z = 1 .. n /\ Len(z) = n
        /\ \A i \in 1 .. n : Top(z[i]) = Top(s[i])
  BY DEF SameView
<1>2. NoConstants(z) = NoConstants(s)
  BY <1>1
<1>3. start \in 0 .. n
  <2>1. NoConstants(s) \subseteq Nat /\ NoConstants(s) # {} /\ \A i \in NoConstants(s) : i <= n
    BY <1>1
  <2>2. Max(NoConstants(s)) \in NoConstants(s)
    BY <2>1, LargestNumber
  <2>3. QED
    BY <1>1, <2>2
<1>4. ASSUME NEW u, DOMAIN u = 1 .. n, Len(u) = n
      PROVE  /\ SubSeq(u, start + 1, Len(u)) = <<>> <=> start = n
             /\ Len(SubSeq(u, start + 1, Len(u))) = n - start
  <2> HIDE DEF start
  <2>1. \A i \in start + 1 .. n : u[i] \in {u[j] : j \in 1 .. n}
    BY <1>3
  <2>2. /\ SubSeq(u, start + 1, n) \in Seq({u[j] : j \in 1 .. n})
        /\ Len(SubSeq(u, start + 1, n)) =
             IF start + 1 <= n THEN n - (start + 1) + 1 ELSE 0
    BY <1>3, <2>1, SubSeqProperties
  <2>3. Len(SubSeq(u, start + 1, n)) = n - start
    BY <1>3, <2>2
  <2>4. SubSeq(u, start + 1, n) = <<>> <=> Len(SubSeq(u, start + 1, n)) = 0
    BY <2>2, EmptySeq
  <2>5. QED
    BY <1>3, <1>4, <2>3, <2>4
<1>5. \A term : Answer("ascent", term) # Descent(x)
  BY AnswerIs, OtherAnswers
<1>6. start = n \/ (start # 0 /\ n - start = 1)
  <2>1. /\ SubSeq(s, start + 1, Len(s)) = <<>> <=> start = n
        /\ Len(SubSeq(s, start + 1, Len(s))) = n - start
    BY <1>1, <1>4
  <2>2. QED
    BY <1>5, <2>1 DEF SummarizeConstants
<1>7. /\ SubSeq(z, start + 1, Len(z)) = <<>> <=> start = n
      /\ Len(SubSeq(z, start + 1, Len(z))) = n - start
  BY <1>1, <1>4
<1>8. start = Max(NoConstants(z))
  BY <1>2
<1> HIDE DEF start
<1>9. QED
  BY <1>6, <1>7, <1>8 DEF SummarizeConstants

LEMMA QuietByView ==
  ASSUME NEW x, NEW y, SameView(x, y), NEW r \in RuleNames, Answers(r, x) = Descent(x)
  PROVE  Answers(r, y) = Descent(y)
<1>1. CASE r = "sort_commutative"
  BY <1>1, SortByView DEF Answers
<1>2. CASE r = "left_lift"
  BY <1>2, LeftLiftByView DEF Answers
<1>3. CASE r = "remove_double_inverse_functions"
  BY <1>3, RemoveDoubleByView DEF Answers
<1>4. CASE r = "remove_inverse_operations"
  BY <1>4, RemoveInverseByView DEF Answers
<1>5. CASE r = "summarize_constants"
  BY <1>5, SummarizeByView DEF Answers
<1>6. QED
  BY <1>1, <1>2, <1>3, <1>4, <1>5 DEF RuleNames

-----------------------------------------------------------------------------
(* What a rule answers                                                      *)

\* An answer is an ordered tree; one that repeats keeps the value of the node, and one
\* that descends is the only one and leaves the node as it is.
Proper(R, x) ==
  \A a \in R :
    /\ Numbered(a.term)
    /\ a.result \in {"descent", "repeat", "ascent", "throw"}
    /\ a.result = "repeat" => Top(a.term) = Top(x)
    /\ a.result = "descent" => a.term = x /\ R = Descent(x)

LEMMA DescentProper ==
  ASSUME NEW x, Numbered(x)
  PROVE  Proper(Descent(x), x)
  BY DescentIs DEF Proper

\* An answer that is none of descent.
LEMMA AnswerProper ==
  ASSUME NEW x, NEW result \in {"repeat", "ascent", "throw"}, NEW y, Numbered(y),
         result = "repeat" => Top(y) = Top(x)
  PROVE  Proper(Answer(result, y), x)
  BY AnswerIs DEF Proper

\* The operands of an ordered tree are ordered trees.
LEMMA OperandsOrdered ==
  ASSUME NEW x, Numbered(x)
  PROVE  /\ Operands(x) \in Seq(Subtrees(x)) /\ \A t \in Subtrees(x) : Numbered(t)
         /\ Len(Operands(x)) \in Nat /\ DOMAIN Operands(x) = 1 .. Len(Operands(x))
         /\ \A i \in 1 .. Len(Operands(x)) : Numbered(Operands(x)[i])
<1>1. PICK n \in Nat : Branches(x, <<>>, n)
  BY DEF Numbered, Rooted
<1>2. Operands(x) \in Seq(Subtrees(x))
  BY <1>1, OperandsOfTree
<1>3. \A t \in Subtrees(x) : Numbered(t)
  BY SubtreeNumbered DEF Subtrees
<1>4. QED
  BY <1>2, <1>3, LenProperties, ElementOfSeq

\* A tree of given ordered trees.
LEMMA TermOf ==
  ASSUME NEW v, NEW n \in Nat, NEW s, s \in [1 .. n -> {s[i] : i \in 1 .. n}],
         \A i \in 1 .. n : Numbered(s[i])
  PROVE  Numbered(Term(v, s)) /\ Top(Term(v, s)) = v
<1> DEFINE S == {s[i] : i \in 1 .. n}
<1>1. s \in Seq(S)
  BY SeqDef
<1>2. \A x \in S : Numbered(x)
  OBVIOUS
<1>3. QED
  BY <1>1, <1>2, TermNumbered

\* No child, one and two.
LEMMA LeafNumbered ==
  ASSUME NEW v
  PROVE  Numbered(Leaf(v))
<1> DEFINE S == {}
<1>1. <<>> \in Seq(S) /\ \A x \in S : Numbered(x)
  BY EmptySeq
<1> HIDE DEF S
<1>2. QED
  BY <1>1, TermNumbered DEF Leaf

LEMMA UnaryNumbered ==
  ASSUME NEW v, NEW t, Numbered(t)
  PROVE  Numbered(Term(v, <<t>>))
<1> DEFINE S == {t}
<1>1. <<t>> \in Seq(S) /\ \A x \in S : Numbered(x)
  OBVIOUS
<1> HIDE DEF S
<1>2. QED
  BY <1>1, TermNumbered

LEMMA BinaryNumbered ==
  ASSUME NEW v, NEW t, NEW u, Numbered(t), Numbered(u)
  PROVE  Numbered(Term(v, <<t, u>>))
<1> DEFINE S == {t, u}
<1>1. <<t, u>> \in Seq(S) /\ \A x \in S : Numbered(x)
  OBVIOUS
<1> HIDE DEF S
<1>2. QED
  BY <1>1, TermNumbered

LEMMA SortProper ==
  ASSUME NEW x, Numbered(x)
  PROVE  Proper(SortCommutative(x), x)
<1> DEFINE s == Operands(x)
           R == UNION {Answer("repeat", Term(Top(x), z)) : z \in Sorted(s)}
<1>1. /\ Len(s) \in Nat /\ DOMAIN s = 1 .. Len(s)
      /\ \A i \in 1 .. Len(s) : Numbered(s[i])
  BY OperandsOrdered
<1>2. ASSUME NEW a \in R
      PROVE  a.result = "repeat" /\ Numbered(a.term) /\ Top(a.term) = Top(x)
  <2>1. PICK z \in Sorted(s) : a \in Answer("repeat", Term(Top(x), z))
    OBVIOUS
  <2>2. PICK f \in Bijection(DOMAIN s, DOMAIN s) : z = [i \in DOMAIN s |-> s[f[i]]]
    BY DEF Sorted
  <2>3. f \in [1 .. Len(s) -> 1 .. Len(s)]
    BY <1>1, <2>2 DEF Bijection, Injection
  <2> HIDE DEF s
  <2>4. /\ z \in [1 .. Len(s) -> {z[i] : i \in 1 .. Len(s)}]
        /\ \A i \in 1 .. Len(s) : Numbered(z[i])
    BY <1>1, <2>2, <2>3
  <2>5. Numbered(Term(Top(x), z)) /\ Top(Term(Top(x), z)) = Top(x)
    BY <1>1, <2>4, TermOf
  <2>6. QED
    BY <2>1, <2>5, AnswerIs
<1>3. Proper(R, x)
  BY <1>2 DEF Proper
<1> HIDE DEF R
<1>4. QED
  BY <1>3, DescentProper DEF SortCommutative, R

LEMMA LeftLiftProper ==
  ASSUME NEW x, Numbered(x)
  PROVE  Proper(LeftLift(x), x)
<1> DEFINE s == Operands(x)
           u == Operands(s[1])
           S == Subtrees(x) \cup Subtrees(s[1])
<1>1. /\ s \in Seq(Subtrees(x)) /\ \A t \in Subtrees(x) : Numbered(t)
      /\ Len(s) \in Nat /\ \A i \in 1 .. Len(s) : Numbered(s[i])
  BY OperandsOrdered
<1>2. ASSUME Len(s) >= 2
      PROVE  Numbered(Term(Top(x), u \o Tail(s))) /\ Top(Term(Top(x), u \o Tail(s))) = Top(x)
  <2>1. Numbered(s[1])
    BY <1>1, <1>2
  <2>2. u \in Seq(Subtrees(s[1])) /\ \A t \in Subtrees(s[1]) : Numbered(t)
    BY <2>1, OperandsOrdered
  <2>3. u \in Seq(S)
    BY <2>2, SeqMonotonic
  <2>4. Tail(s) \in Seq(S)
    <3>1. s # <<>>
      BY <1>2, EmptySeq
    <3>2. s \in Seq(S)
      BY <1>1, SeqMonotonic
    <3>3. QED
      BY <3>1, <3>2, HeadTailProperties
  <2>5. \A t \in S : Numbered(t)
    BY <1>1, <2>2
  <2> HIDE DEF S, s, u
  <2>6. u \o Tail(s) \in Seq(S)
    BY <2>3, <2>4, ConcatProperties
  <2>7. QED
    BY <2>5, <2>6, TermNumbered
<1>3. Len(s) >= 2 => Proper(Answer("repeat", Term(Top(x), u \o Tail(s))), x)
  BY <1>2, AnswerProper
<1>4. Proper(Answer("throw", x), x) /\ Proper(Descent(x), x)
  BY AnswerProper, DescentProper
<1>5. ~ (Len(s) < 2) => Len(s) >= 2
  BY <1>1
<1> HIDE DEF s, u
<1>6. QED
  BY <1>3, <1>4, <1>5 DEF LeftLift, s, u

LEMMA RemoveDoubleProper ==
  ASSUME NEW x, Numbered(x)
  PROVE  Proper(RemoveDoubleInverseFunctions(x), x)
<1> DEFINE s == Operands(x)
           u == Operands(s[1])
<1>1. /\ Len(s) \in Nat /\ \A i \in 1 .. Len(s) : Numbered(s[i])
  BY OperandsOrdered
<1>2. Len(s) = 1 /\ Len(u) = 1 => Numbered(u[1])
  <2>1. SUFFICES ASSUME Len(s) = 1, Len(u) = 1 PROVE Numbered(u[1])
    OBVIOUS
  <2>2. Numbered(s[1])
    BY <1>1, <2>1
  <2>3. \A i \in 1 .. Len(u) : Numbered(u[i])
    BY <2>2, OperandsOrdered
  <2>4. QED
    BY <2>1, <2>3
<1>3. Len(s) = 1 /\ Len(u) = 1 => Proper(Answer("ascent", u[1]), x)
  BY <1>2, AnswerProper
<1>4. Proper(Answer("throw", x), x) /\ Proper(Descent(x), x)
  BY AnswerProper, DescentProper
<1> HIDE DEF s, u
<1>5. QED
  BY <1>3, <1>4 DEF RemoveDoubleInverseFunctions, s, u

LEMMA RemoveInverseProper ==
  ASSUME NEW x, Numbered(x)
  PROVE  Proper(RemoveInverseOperations(x), x)
<1> DEFINE s == Operands(x)
           I(g) == Term(g.inverse_function, <<s[2]>>)
           T(g) == Term(g.operation, <<s[1], I(g)>>)
           R == UNION {Answer("ascent", T(g)) : g \in GroupFromInverseOperation(Top(x))}
<1>1. /\ Len(s) \in Nat /\ \A i \in 1 .. Len(s) : Numbered(s[i])
  BY OperandsOrdered
<1>2. ASSUME Len(s) = 2, NEW g PROVE Numbered(T(g))
  <2>1. Numbered(s[1]) /\ Numbered(s[2])
    BY <1>1, <1>2
  <2>2. Numbered(I(g))
    BY <2>1, UnaryNumbered
  <2> HIDE DEF I
  <2>3. QED
    BY <2>1, <2>2, BinaryNumbered
<1>3. ASSUME Len(s) = 2 PROVE Proper(R, x)
  <2>1. ASSUME NEW a \in R PROVE a.result = "ascent" /\ Numbered(a.term)
    <3>1. PICK g \in GroupFromInverseOperation(Top(x)) : a \in Answer("ascent", T(g))
      OBVIOUS
    <3>2. Numbered(T(g))
      BY <1>2, <1>3
    <3>3. QED
      BY <3>1, <3>2, AnswerIs
  <2>2. QED
    BY <2>1 DEF Proper
<1>4. Proper(Answer("throw", x), x) /\ Proper(Descent(x), x)
  BY AnswerProper, DescentProper
<1> HIDE DEF R
<1>5. QED
  BY <1>3, <1>4 DEF RemoveInverseOperations, R

LEMMA SummarizeProper ==
  ASSUME NEW x, Numbered(x)
  PROVE  Proper(SummarizeConstants(x), x)
<1> DEFINE s == Operands(x)
           start == Max({0} \cup {i \in DOMAIN s : ~ IsConstant(Top(s[i]))})
           constants == SubSeq(s, start + 1, Len(s))
           y == Generated(Term(Top(x), constants))
           S == Subtrees(x) \cup {y}
<1>1. /\ s \in Seq(Subtrees(x)) /\ \A t \in Subtrees(x) : Numbered(t)
      /\ Len(s) \in Nat /\ DOMAIN s = 1 .. Len(s)
  BY OperandsOrdered
<1>2. start \in 0 .. Len(s)
  <2> DEFINE N == {0} \cup {i \in DOMAIN s : ~ IsConstant(Top(s[i]))}
  <2>1. N \subseteq Nat /\ N # {} /\ \A i \in N : i <= Len(s)
    BY <1>1
  <2>2. Max(N) \in N
    BY <1>1, <2>1, LargestNumber
  <2>3. QED
    BY <1>1, <2>2
<1>3. Numbered(y) /\ Numbered(Generated(x))
  BY LeafNumbered DEF Generated
<1> HIDE DEF s, start, constants, y
<1>4. Append(SubSeq(s, 1, start), y) \in Seq(S)
  <2>1. \A i \in 1 .. start : s[i] \in S
    BY <1>1, <1>2, ElementOfSeq
  <2>2. SubSeq(s, 1, start) \in Seq(S) /\ y \in S
    BY <1>2, <2>1, SubSeqProperties
  <2>3. QED
    BY <2>2, AppendProperties
<1>5. \A t \in S : Numbered(t)
  BY <1>1, <1>3
<1>6. Numbered(Term(Top(x), Append(SubSeq(s, 1, start), y)))
  BY <1>4, <1>5, TermNumbered
<1>7. /\ Proper(Answer("ascent", Term(Top(x), Append(SubSeq(s, 1, start), y))), x)
      /\ Proper(Answer("ascent", Generated(x)), x) /\ Proper(Descent(x), x)
  BY <1>3, <1>6, AnswerProper, DescentProper
<1>8. QED
  BY <1>7 DEF SummarizeConstants, s, start, constants, y

LEMMA AnswersProper ==
  ASSUME NEW x, Numbered(x), NEW r \in RuleNames
  PROVE  Proper(Answers(r, x), x)
<1>1. CASE r = "sort_commutative"
  BY <1>1, SortProper DEF Answers
<1>2. CASE r = "left_lift"
  BY <1>2, LeftLiftProper DEF Answers
<1>3. CASE r = "remove_double_inverse_functions"
  BY <1>3, RemoveDoubleProper DEF Answers
<1>4. CASE r = "remove_inverse_operations"
  BY <1>4, RemoveInverseProper DEF Answers
<1>5. CASE r = "summarize_constants"
  BY <1>5, SummarizeProper DEF Answers
<1>6. QED
  BY <1>1, <1>2, <1>3, <1>4, <1>5 DEF RuleNames

-----------------------------------------------------------------------------
(* Nodes of which nothing changes that a rule looks at                      *)

\* The rule r has nothing to do at the node p of t.
Quiet(t, p, r) == Answers(r, Subtree(t, p)) = Descent(Subtree(t, p))

SeenAlike(t, u, q) ==
  /\ q \in DOMAIN u /\ u[q] = t[q]
  /\ \A k \in Nat : /\ Append(q, k) \in DOMAIN u <=> Append(q, k) \in DOMAIN t
                    /\ Append(q, k) \in DOMAIN t => u[Append(q, k)] = t[Append(q, k)]

LEMMA QuietKept ==
  ASSUME NEW t, NEW u, Numbered(t), Numbered(u), NEW q \in DOMAIN t, SeenAlike(t, u, q),
         NEW r \in RuleNames, Quiet(t, q, r)
  PROVE  Quiet(u, q, r)
<1> DEFINE x == Subtree(t, q)
           y == Subtree(u, q)
<1>1. PICK n \in Nat : Branches(t, q, n)
  BY DEF Numbered
<1>2. q \in DOMAIN u /\ Branches(u, q, n)
  BY <1>1 DEF SeenAlike, Branches
<1>3. /\ DOMAIN Operands(x) = 1 .. n /\ Len(Operands(x)) = n
      /\ \A i \in 1 .. n : Append(q, i) \in DOMAIN t /\ Top(Operands(x)[i]) = t[Append(q, i)]
  BY <1>1, OperandsBelow
<1>4. /\ DOMAIN Operands(y) = 1 .. n /\ Len(Operands(y)) = n
      /\ \A i \in 1 .. n : Append(q, i) \in DOMAIN u /\ Top(Operands(y)[i]) = u[Append(q, i)]
  BY <1>2, OperandsBelow
<1>5. Top(x) = t[q] /\ Top(y) = u[q]
  BY <1>2, TopOfSubtree DEF Numbered
<1> HIDE DEF x, y
<1>6. \A i \in 1 .. n : Top(Operands(y)[i]) = Top(Operands(x)[i])
  BY <1>3, <1>4 DEF SeenAlike
<1>7. SameView(x, y)
  BY <1>3, <1>4, <1>5, <1>6 DEF SameView, SeenAlike
<1>8. QED
  BY <1>7, QuietByView DEF Quiet, x, y

\* A tree in the place of p that keeps its value is not seen from above or beside.
LEMMA PutAlike ==
  ASSUME NEW t, Numbered(t), NEW p \in DOMAIN t, NEW s, Numbered(s), Top(s) = t[p],
         NEW q \in DOMAIN t, ~ IsPrefix(p, q)
  PROVE  SeenAlike(t, Put(t, p, s), q)
<1> DEFINE u == Put(t, p, s)
<1>1. DOMAIN t \subseteq Path /\ DOMAIN s \subseteq Path /\ p \in Path /\ q \in Path
  BY DEF Numbered, Rooted
<1>2. /\ \A a \in Path : ~ IsPrefix(p, a) =>
           /\ a \in DOMAIN u <=> a \in DOMAIN t
           /\ a \in DOMAIN t => u[a] = t[a]
      /\ \A r \in Path : /\ p \o r \in DOMAIN u <=> r \in DOMAIN s
                         /\ r \in DOMAIN s => u[p \o r] = s[r]
  BY <1>1, PutNodes
<1> HIDE DEF u
<1>3. p \in DOMAIN u /\ u[p] = t[p]
  <2>1. <<>> \in Path /\ p \o <<>> = p /\ <<>> \in DOMAIN s
    BY <1>1, OneStep DEF Numbered, Rooted
  <2>2. p \o <<>> \in DOMAIN u /\ u[p \o <<>>] = s[<<>>]
    BY <1>2, <2>1
  <2>3. QED
    BY <2>1, <2>2 DEF Top
<1>4. ASSUME NEW k \in Nat
      PROVE  /\ Append(q, k) \in DOMAIN u <=> Append(q, k) \in DOMAIN t
             /\ Append(q, k) \in DOMAIN t => u[Append(q, k)] = t[Append(q, k)]
  <2>1. Append(q, k) \in Path
    BY <1>1, FrontOfPath
  <2>2. Append(q, k) = p \/ ~ IsPrefix(p, Append(q, k))
    BY <1>1, PrefixOfAppend
  <2>3. CASE Append(q, k) = p
    BY <1>3, <2>3
  <2>4. CASE ~ IsPrefix(p, Append(q, k))
    BY <1>2, <2>1, <2>4
  <2>5. QED
    BY <2>2, <2>3, <2>4
<1>5. q \in DOMAIN u /\ u[q] = t[q]
  BY <1>1, <1>2
<1>6. QED
  BY <1>4, <1>5 DEF SeenAlike, u

\* What is below p in its own place changes nothing.
LEMMA PutBack ==
  ASSUME NEW t, Numbered(t), NEW p \in DOMAIN t
  PROVE  /\ DOMAIN Put(t, p, Subtree(t, p)) = DOMAIN t
         /\ \A q \in DOMAIN t : SeenAlike(t, Put(t, p, Subtree(t, p)), q)
<1> DEFINE s == Subtree(t, p)
           u == Put(t, p, s)
<1>1. DOMAIN t \subseteq Path /\ p \in Path
  BY DEF Numbered, Rooted
<1>2. /\ DOMAIN s \subseteq Path
      /\ \A r \in Path : r \in DOMAIN s <=> p \o r \in DOMAIN t
      /\ \A r \in DOMAIN s : s[r] = t[p \o r]
  BY <1>1, SubtreeNodes
<1> HIDE DEF s
<1>3. /\ DOMAIN u \subseteq Path
      /\ \A q \in Path : ~ IsPrefix(p, q) =>
           /\ q \in DOMAIN u <=> q \in DOMAIN t
           /\ q \in DOMAIN t => u[q] = t[q]
      /\ \A r \in Path : /\ p \o r \in DOMAIN u <=> r \in DOMAIN s
                         /\ r \in DOMAIN s => u[p \o r] = s[r]
  BY <1>1, <1>2, PutNodes
<1> HIDE DEF u
<1>4. ASSUME NEW q \in Path
      PROVE  (q \in DOMAIN u <=> q \in DOMAIN t) /\ (q \in DOMAIN t => u[q] = t[q])
  <2>1. CASE ~ IsPrefix(p, q)
    BY <1>3, <2>1
  <2>2. CASE IsPrefix(p, q)
    <3>1. PICK r \in Path : q = p \o r
      BY <1>1, <2>2, PrefixAndRest
    <3>2. (p \o r \in DOMAIN u <=> r \in DOMAIN s) /\ (r \in DOMAIN s => u[p \o r] = s[r])
      BY <1>3
    <3>3. QED
      BY <1>2, <3>1, <3>2
  <2>3. QED
    BY <2>1, <2>2
<1>5. DOMAIN u = DOMAIN t
  BY <1>1, <1>3, <1>4
<1>6. ASSUME NEW q \in DOMAIN t PROVE SeenAlike(t, u, q)
  <2>1. \A k \in Nat : Append(q, k) \in Path
    BY <1>1, FrontOfPath
  <2>2. QED
    BY <1>1, <1>4, <1>5, <2>1 DEF SeenAlike
<1>7. QED
  BY <1>5, <1>6 DEF s, u

-----------------------------------------------------------------------------
(* The invariant                                                            *)

\* No rule has anything to do at the node q.
Settled(t, q) == \A r \in Range(Rules) : Quiet(t, q, r)

\* What the walk has passed is settled, and of the rules at the cursor those tried.
WalkedInv ==
  status = "running" =>
    /\ \A q \in DOMAIN tree : Passed(q, c) => Settled(tree, q)
    /\ \A k \in 1 .. rule - 1 : Quiet(tree, c, Rules[k])

TypeInv ==
  /\ Numbered(tree) /\ c \in DOMAIN tree
  /\ rule \in 1 .. Len(Rules) + 1
  /\ status \in {"running", "done", "thrown"}

DoneInv == status = "done" => \A q \in DOMAIN tree : Settled(tree, q)

IInv == TypeInv /\ WalkedInv /\ DoneInv

\* The rules are names of rules.
LEMMA RulesAre ==
  /\ Len(Rules) \in Nat /\ DOMAIN Rules = 1 .. Len(Rules)
  /\ \A k \in 1 .. Len(Rules) : Rules[k] \in RuleNames /\ Rules[k] \in Range(Rules)
  /\ \A r \in Range(Rules) : r \in RuleNames /\ \E k \in 1 .. Len(Rules) : r = Rules[k]
<1>1. Len(Rules) \in Nat /\ DOMAIN Rules = 1 .. Len(Rules)
  BY TransformAssumption, LenProperties
<1>2. \A k \in 1 .. Len(Rules) : Rules[k] \in RuleNames
  BY <1>1, TransformAssumption, ElementOfSeq
<1>3. QED
  BY <1>1, <1>2 DEF Range

\* Where the walk begins nothing has been passed and no rule been tried.
LEMMA AtRoot ==
  ASSUME NEW t, Numbered(t)
  PROVE  <<>> \in DOMAIN t /\ \A q \in DOMAIN t : ~ Passed(q, <<>>)
<1>1. DOMAIN t \subseteq Path /\ <<>> \in DOMAIN t
  BY DEF Numbered, Rooted
<1>2. QED
  BY <1>1, NothingPassedAtRoot

LEMMA InitIInv == Init => IInv
<1> SUFFICES ASSUME Init PROVE IInv
  OBVIOUS
<1>1. Numbered(tree)
  BY OrderedNumbered, TransformAssumption DEF Init
<1>2. Len(Rules) \in Nat
  BY RulesAre
<1>3. c = <<>> /\ rule = 1 /\ status = "running"
  BY DEF Init
<1>4. <<>> \in DOMAIN tree /\ \A q \in DOMAIN tree : ~ Passed(q, <<>>)
  BY <1>1, AtRoot
<1>5. TypeInv
  BY <1>1, <1>2, <1>3, <1>4 DEF TypeInv
<1>6. WalkedInv
  BY <1>3, <1>4 DEF WalkedInv
<1>7. QED
  BY <1>3, <1>5, <1>6 DEF IInv, DoneInv

\* When all rules have been tried the node is settled.
LEMMA ThroughSettled ==
  ASSUME IInv, Through
  PROVE  Settled(tree, c) /\ \A q \in DOMAIN tree : q = c \/ Passed(q, c) => Settled(tree, q)
<1>1. Len(Rules) \in Nat /\ \A r \in Range(Rules) : \E k \in 1 .. Len(Rules) : r = Rules[k]
  BY RulesAre
<1>2. rule - 1 = Len(Rules)
  BY <1>1 DEF IInv, TypeInv, Through
<1>3. \A k \in 1 .. Len(Rules) : Quiet(tree, c, Rules[k])
  BY <1>2 DEF IInv, WalkedInv, Through
<1>4. Settled(tree, c)
  BY <1>1, <1>3 DEF Settled
<1>5. QED
  BY <1>4 DEF IInv, WalkedInv, Through

\* A node is entered when all that is then passed is settled.
LEMMA EnterKeeps ==
  ASSUME IInv, status = "running", UNCHANGED tree, NEW p \in DOMAIN tree, Enter(p),
         \A q \in DOMAIN tree : Passed(q, p) => Settled(tree, q)
  PROVE  IInv'
<1>1. tree' = tree /\ c' = p /\ rule' = 1 /\ status' = "running"
  BY DEF Enter
<1>2. Len(Rules) \in Nat
  BY RulesAre
<1>3. TypeInv'
  BY <1>1, <1>2 DEF IInv, TypeInv
<1>4. WalkedInv'
  BY <1>1 DEF WalkedInv
<1>5. QED
  BY <1>1, <1>3, <1>4 DEF IInv, DoneInv

LEMMA DescendKeeps ==
  ASSUME IInv, Descend
  PROVE  IInv'
<1>1. Numbered(tree) /\ c \in DOMAIN tree /\ c \in Path
  BY DEF IInv, TypeInv, Numbered, Rooted
<1>2. Size(tree, c) \in Nat /\ Branches(tree, c, Size(tree, c)) /\ Size(tree, c) > 0
  BY <1>1, SizeIs DEF Descend
<1>3. Append(c, 1) \in DOMAIN tree
  BY <1>2 DEF Branches
<1>4. ASSUME NEW q \in DOMAIN tree, Passed(q, Append(c, 1)) PROVE Settled(tree, q)
  BY <1>1, <1>4, PassedByDescent, ThroughSettled DEF Descend
<1>5. QED
  BY <1>3, <1>4, EnterKeeps DEF Descend, Through

LEMMA ReturnKeeps ==
  ASSUME IInv, Return
  PROVE  IInv'
<1>1. Numbered(tree) /\ c \in DOMAIN tree /\ Size(tree, c) = 0 /\ Through /\ tree' = tree
  BY DEF IInv, TypeInv, Return
<1>2. CASE Unfinished(tree, c) = {}
  <2>1. EndRound(FALSE)
    BY <1>2 DEF Return
  <2>2. \A q \in DOMAIN tree : Settled(tree, q)
    BY <1>1, <1>2, AllPassed, ThroughSettled
  <2>3. c' = c /\ rule' = rule /\ status' \in {"done", "thrown"}
    BY <2>1 DEF EndRound
  <2>4. TypeInv'
    BY <1>1, <2>3 DEF IInv, TypeInv
  <2>5. QED
    BY <1>1, <2>2, <2>3, <2>4 DEF IInv, WalkedInv, DoneInv
<1>3. CASE Unfinished(tree, c) # {}
  <2> DEFINE k == Max(Unfinished(tree, c))
             a == SubSeq(c, 1, k - 1)
             p == Append(a, c[k] + 1)
  <2>1. k \in 1 .. Len(c) /\ k \in Unfinished(tree, c)
    BY <1>1, <1>3, LastUnfinished
  <2>2. a \in DOMAIN tree /\ c[k] \in Nat
    BY <1>1, <2>1, OnTheWay
  <2>3. c[k] < Size(tree, a)
    BY <1>1, <2>1, UnfinishedLevels
  <2>4. Enter(p)
    BY <1>3 DEF Return
  <2>5. \A q \in DOMAIN tree : Passed(q, p) => q = c \/ Passed(q, c)
    BY <1>1, <1>3, PassedByReturn
  <2> HIDE DEF k, a
  <2>6. Size(tree, a) \in Nat /\ Branches(tree, a, Size(tree, a))
    BY <1>1, <2>2, SizeIs
  <2>7. p \in DOMAIN tree
    BY <2>2, <2>3, <2>6 DEF Branches
  <2> HIDE DEF p
  <2>8. \A q \in DOMAIN tree : Passed(q, p) => Settled(tree, q)
    BY <1>1, <2>5, ThroughSettled
  <2>9. QED
    BY <1>1, <2>4, <2>7, <2>8, EnterKeeps DEF Through
<1>4. QED
  BY <1>2, <1>3


\* What is seen alike stays settled.
LEMMA SettledKept ==
  ASSUME NEW t, NEW u, Numbered(t), Numbered(u), NEW q \in DOMAIN t, SeenAlike(t, u, q),
         Settled(t, q)
  PROVE  Settled(u, q)
  BY QuietKept, RulesAre DEF Settled

\* An answer put in the place of the node at the cursor leaves the cursor on a node.
LEMMA PutType ==
  ASSUME Numbered(tree), c \in DOMAIN tree, NEW s, Numbered(s)
  PROVE  Numbered(Put(tree, c, s)) /\ c \in DOMAIN Put(tree, c, s)
<1>1. DOMAIN tree \subseteq Path /\ DOMAIN s \subseteq Path /\ <<>> \in DOMAIN s /\ c \in Path
  BY DEF Numbered, Rooted
<1>2. <<>> \in Path /\ c \o <<>> = c
  BY <1>1, OneStep
<1>3. \A r \in Path : c \o r \in DOMAIN Put(tree, c, s) <=> r \in DOMAIN s
  BY <1>1, PutNodes
<1>4. c \in DOMAIN Put(tree, c, s)
  BY <1>1, <1>2, <1>3
<1>5. QED
  BY <1>4, PutNumbered

\* What has been passed stays settled when the value of the node at the cursor does.
LEMMA PassedKept ==
  ASSUME Numbered(tree), c \in DOMAIN tree, NEW s, Numbered(s), Top(s) = tree[c],
         \A q \in DOMAIN tree : Passed(q, c) => Settled(tree, q),
         NEW q \in DOMAIN Put(tree, c, s), Passed(q, c)
  PROVE  Settled(Put(tree, c, s), q)
<1> DEFINE u == Put(tree, c, s)
<1>1. Numbered(u)
  BY PutType
<1>2. DOMAIN tree \subseteq Path /\ DOMAIN s \subseteq Path /\ c \in Path /\ q \in Path
  BY <1>1 DEF Numbered, Rooted
<1>3. ~ IsPrefix(c, q)
  BY <1>2, PassedNotBelow
<1>4. q \in DOMAIN tree
  BY <1>2, <1>3, PutNodes
<1>5. SeenAlike(tree, u, q)
  BY <1>3, <1>4, PutAlike
<1>6. Settled(tree, q)
  BY <1>4
<1>7. QED
  BY <1>1, <1>4, <1>5, <1>6, SettledKept

LEMMA ApplyRuleKeeps ==
  ASSUME IInv, ApplyRule
  PROVE  IInv'
<1> DEFINE x == Subtree(tree, c)
           r == Rules[rule]
<1>1. /\ Numbered(tree) /\ c \in DOMAIN tree /\ status = "running"
      /\ rule \in 1 .. Len(Rules) /\ rule \in Nat
      /\ Len(Rules) \in Nat /\ r \in RuleNames
  <2>1. Len(Rules) \in Nat
    BY RulesAre
  <2>2. rule \in 1 .. Len(Rules)
    BY <2>1 DEF IInv, TypeInv, ApplyRule
  <2>3. QED
    BY <2>1, <2>2, RulesAre DEF IInv, TypeInv, ApplyRule
<1>2. /\ \A q \in DOMAIN tree : Passed(q, c) => Settled(tree, q)
      /\ \A k \in 1 .. rule - 1 : Quiet(tree, c, Rules[k])
  BY <1>1 DEF IInv, WalkedInv
<1>3. Numbered(x) /\ Top(x) = tree[c]
  BY <1>1, SubtreeNumbered, TopOfSubtree DEF Numbered
<1>4. PICK a \in Answers(r, x) :
        /\ tree' = Put(tree, c, a.term)
        /\ \/ a.result = "throw" /\ Throw
           \/ a.result = "descent" /\ rule' = rule + 1 /\ UNCHANGED <<c, count, rounds, status>>
           \/ (a.result = "repeat" \/ (a.result = "ascent" /\ c = <<>>)) /\ Redo
           \/ a.result = "ascent" /\ c # <<>> /\ EndRound(TRUE)
  BY DEF ApplyRule
<1>5. /\ Numbered(a.term)
      /\ a.result = "repeat" => Top(a.term) = Top(x)
      /\ a.result = "descent" => a.term = x /\ Answers(r, x) = Descent(x)
  BY <1>1, <1>3, AnswersProper DEF Proper
<1>6. Numbered(tree') /\ c \in DOMAIN tree'
  BY <1>1, <1>4, <1>5, PutType
<1> HIDE DEF x, r
<1>7. CASE status' = "thrown" /\ c' = c /\ rule' = rule
  BY <1>1, <1>6, <1>7 DEF IInv, TypeInv, WalkedInv, DoneInv
<1>8. CASE a.result = "descent"
  <2>1. a.term = x /\ Quiet(tree, c, r)
    BY <1>5, <1>8 DEF Quiet, x
  <2>2. c' = c /\ rule' = rule + 1 /\ status' = "running"
    BY <1>1, <1>4, <1>8
  <2>3. DOMAIN tree' = DOMAIN tree /\ \A q \in DOMAIN tree : SeenAlike(tree, tree', q)
    BY <1>1, <1>4, <2>1, PutBack DEF x
  <2>4. ASSUME NEW q \in DOMAIN tree', Passed(q, c) PROVE Settled(tree', q)
    BY <1>1, <1>2, <1>6, <2>3, <2>4, SettledKept
  <2>5. ASSUME NEW k \in 1 .. rule PROVE Quiet(tree', c, Rules[k])
    <3>1. Quiet(tree, c, Rules[k])
      <4>1. k \in 1 .. rule - 1 \/ k = rule
        BY <1>1
      <4>2. QED
        BY <1>2, <2>1, <4>1 DEF r
    <3>2. Rules[k] \in RuleNames
      <4>1. k \in 1 .. Len(Rules)
        BY <1>1
      <4>2. QED
        BY <4>1, RulesAre
    <3>3. QED
      BY <1>1, <1>6, <2>3, <3>1, <3>2, QuietKept
  <2>6. WalkedInv'
    <3>1. rule' - 1 = rule
      BY <1>1, <2>2
    <3>2. QED
      BY <2>2, <2>4, <2>5, <3>1 DEF WalkedInv
  <2>7. TypeInv'
    BY <1>1, <1>6, <2>2 DEF TypeInv
  <2>8. QED
    BY <2>2, <2>6, <2>7 DEF IInv, DoneInv
<1>9. CASE (a.result = "repeat" \/ (a.result = "ascent" /\ c = <<>>)) /\ rule' = 1
           /\ c' = c /\ status' = status
  <2>1. ASSUME NEW q \in DOMAIN tree', Passed(q, c) PROVE Settled(tree', q)
    <3>1. CASE a.result = "repeat"
      BY <1>1, <1>2, <1>3, <1>4, <1>5, <2>1, <3>1, PassedKept
    <3>2. CASE c = <<>>
      BY <1>6, <2>1, <3>2, AtRoot
    <3>3. QED
      BY <1>9, <3>1, <3>2
  <2>2. WalkedInv'
    BY <1>9, <2>1 DEF WalkedInv
  <2>3. TypeInv'
    BY <1>1, <1>6, <1>9 DEF TypeInv
  <2>4. QED
    BY <1>1, <1>9, <2>2, <2>3 DEF IInv, DoneInv
<1>10. CASE c' = <<>> /\ rule' = 1 /\ status' = status
  <2>1. <<>> \in DOMAIN tree' /\ \A q \in DOMAIN tree' : ~ Passed(q, <<>>)
    BY <1>6, AtRoot
  <2>2. WalkedInv'
    BY <1>10, <2>1 DEF WalkedInv
  <2>3. TypeInv'
    BY <1>1, <1>6, <1>10, <2>1 DEF TypeInv
  <2>4. QED
    BY <1>1, <1>10, <2>2, <2>3 DEF IInv, DoneInv
<1>11. QED
  BY <1>4, <1>7, <1>8, <1>9, <1>10 DEF Throw, Redo, EndRound

\* Every step keeps the invariant.
LEMMA StepKeeps == IInv /\ [Next]_vars => IInv'
<1> SUFFICES ASSUME IInv, [Next]_vars PROVE IInv'
  OBVIOUS
<1>1. CASE ApplyRule
  BY <1>1, ApplyRuleKeeps
<1>2. CASE Descend
  BY <1>2, DescendKeeps
<1>3. CASE Return
  BY <1>3, ReturnKeeps
<1>4. CASE UNCHANGED vars
  BY <1>4 DEF vars, IInv, TypeInv, WalkedInv, DoneInv
<1>5. QED
  BY <1>1, <1>2, <1>3, <1>4 DEF Next

-----------------------------------------------------------------------------
\* The tree is ordered and the cursor on one of its nodes; what the walk has passed is
\* settled: no rule has anything to do there.
THEOREM WalkedStaysSettled == Spec => []IInv
  BY InitIInv, StepKeeps, PTL DEF Spec

\* However rules move, insert and erase nodes at the cursor, it stays on a node of the tree.
THEOREM CursorStays == Spec => []CursorValid
<1>1. IInv => CursorValid
  BY DEF IInv, TypeInv, CursorValid
<1>2. QED
  BY <1>1, WalkedStaysSettled, PTL

\* For every list of rules, every formula and all trial limits: transform_tree returns
\* only when no rule applies anywhere in the tree.
THEOREM NothingIsLeft == Spec => []NothingLeft
<1>1. IInv => NothingLeft
  BY DEF IInv, DoneInv, NothingLeft, Settled, Quiet
<1>2. QED
  BY <1>1, WalkedStaysSettled, PTL
=============================================================================
