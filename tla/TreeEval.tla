------------------------------- MODULE TreeEval --------------------------------
(***************************************************************************)
(* Formulas from the text to the number: the infix parser of               *)
(* performance/eval_basic/parser.hpp and the evaluators that its programs   *)
(* compare, among them static_eval and static_eval_erc of eval/.  x1, rlog  *)
(* and % are written as the symbols x, l and / they stand for.  Numbers are *)
(* those modulo a prime, with one value for what lies behind a division by  *)
(* zero; the cut of large results is left out.                              *)
(***************************************************************************)
EXTENDS TreeText

CONSTANTS
  Modulus,
  Data      \* the data points, as functions of the names of the terminals

DataAssumption ==
  Modulus \in Nat \ {0, 1} /\ Data \in Seq([{"x", "y", "z"} -> 0 .. Modulus - 1])

VARIABLES
  line,       \* of the input file, or the mark of a tree from elsewhere
  formula,    \* the set of the tree made of it; empty when there is none
  evaluator,
  y           \* the results of the data points so far

evalVars == <<line, formula, evaluator, y>>

Terminals == {"x", "y", "z"}
Unaries == {"s", "c", "e", "l"}
Sums == {"+", "-"}
Products == {"*", "/"}
Binaries == Sums \cup Products

-----------------------------------------------------------------------------
(* The grammar.  A rule gives the set of its one result, a tree and what    *)
(* follows in the text, or no result if it fails.                           *)

RECURSIVE Expression(_), TermRule(_), Factor(_), Chain(_, _, _)

Parse(ast, after) == [ast |-> ast, rest |-> after]

StartsWith(text, marks) == text # <<>> /\ Head(text) \in marks

Parenthesised(text) ==
  IF ~ StartsWith(text, {Opening}) THEN {}
  ELSE {Parse(e.ast, Tail(e.rest)) : e \in {e \in Expression(Tail(text)) : StartsWith(e.rest, {Closing})}}

Factor(text) ==
  IF StartsWith(text, Terminals) THEN {Parse(Leaf(<<Head(text)>>), Tail(text))}
  ELSE IF StartsWith(text, Unaries)
  THEN {Parse(Term(<<Head(text)>>, <<e.ast>>), e.rest) : e \in Parenthesised(Tail(text))}
  ELSE Parenthesised(text)

Operand(operators, text) == IF operators = Sums THEN TermRule(text) ELSE Factor(text)

\* Mutant: a - b - c is read from the right.
ChainRight(operators, left, text) ==
  LET right == IF StartsWith(text, operators) THEN Operand(operators, Tail(text)) ELSE {} IN
  IF right = {} THEN {Parse(left, text)}
  ELSE UNION {{Parse(Term(<<Head(text)>>, <<left, c.ast>>), c.rest) : c \in Chain(operators, r.ast, r.rest)}
                : r \in right}

\* *( operator >> operand ), with _val += _1 and its kind.
Chain(operators, left, text) ==
  LET right == IF StartsWith(text, operators) THEN Operand(operators, Tail(text)) ELSE {} IN
  IF right = {} THEN {Parse(left, text)}
  ELSE UNION {Chain(operators, Term(<<Head(text)>>, <<left, r.ast>>), r.rest) : r \in right}

TermRule(text) == UNION {Chain(Products, f.ast, f.rest) : f \in Factor(text)}

Expression(text) == UNION {Chain(Sums, t.ast, t.rest) : t \in TermRule(text)}

\* The whole text must be used up.
ParseTree(text) == {e.ast : e \in {e \in Expression(text) : e.rest = <<>>}}

RECURSIVE Transform(_, _, _)

\* tree_transformator: a node of the ast is inserted below c and its operands below it.
Transform(t, c, ast) ==
  FoldLeft(LAMBDA u, operand : Transform(u, Inserted(t, c), operand), InsertBelow(t, c, ast.v), ast.sub)

-----------------------------------------------------------------------------
(* The evaluators.                                                          *)

\* Behind a division by zero, an exception, no value at all.
Beyond == -1
Thrown == -2
Undefined == -3

\* std::log( 1.0e-20 ), which gpcxx_log gives for zero.
LogOfTiny == 2

Log(v, ofZero) == IF v = 0 THEN ofZero ELSE (2 * v) % Modulus

\* The functions of the standard library on numbers, and the logarithms.
Apply(f, a, logOfZero) ==
  IF Thrown \in ToSet(a) THEN Thrown
  ELSE IF Undefined \in ToSet(a) THEN Undefined
  ELSE IF Beyond \in ToSet(a) \/ (f = "/" /\ a[2] = 0) THEN Beyond
  ELSE CASE f = "+" -> (a[1] + a[2]) % Modulus
         [] f = "-" -> (a[1] - a[2]) % Modulus
         [] f = "*" -> (a[1] * a[2]) % Modulus
         [] f = "/" -> CHOOSE q \in 0 .. Modulus - 1 : (q * a[2]) % Modulus = a[1]
         [] f = "s" -> (3 * a[1] + 1) % Modulus
         [] f = "c" -> (a[1] * a[1] + 1) % Modulus
         [] f = "e" -> (4 * a[1] + 2) % Modulus
         [] f = "l" -> Log(a[1], logOfZero)

\* What a leaf that is a constant holds.
Constant(v) == 2

HasRule(t) ==
  CASE Len(t.sub) = 0 -> Head(t.v) \in Terminals
    [] Len(t.sub) = 1 -> Head(t.v) \in Unaries
    [] Len(t.sub) = 2 -> Head(t.v) \in Binaries
    [] OTHER -> FALSE

RECURSIVE EvalCursor1(_, _), EvalCursor2(_, _), EvalCursor3(_, _),
          StaticEval(_, _), StaticEvalErc(_, _), IntrusiveEval(_, _), VirtualEval(_, _)

\* By the symbol alone; my_div is 1 for a divisor of zero, and a symbol that is not
\* known is 0.
EvalCursor1(t, c) ==
  LET a == [i \in DOMAIN t.sub |-> EvalCursor1(t.sub[i], c)]
      name == Head(t.v)
  IN IF name \in Terminals THEN c[name]
     ELSE IF name = "/" /\ a[2] = 0 THEN 1
     ELSE IF name \in Unaries \cup Binaries THEN Apply(name, a, 0)
     ELSE 0

\* By the number of children, then by the symbol; else there is no return.
EvalCursor2(t, c) ==
  LET a == [i \in DOMAIN t.sub |-> EvalCursor2(t.sub[i], c)] IN
  IF ~ HasRule(t) THEN Undefined
  ELSE IF a = <<>> THEN c[Head(t.v)] ELSE Apply(Head(t.v), a, 0)

\* By a table of functions, in which eval_y and eval_z return context[0] too; the entry
\* of another symbol is a null pointer.
EvalCursor3(t, c) ==
  LET a == [i \in DOMAIN t.sub |-> EvalCursor3(t.sub[i], c)]
      name == Head(t.v)
  IN IF name \in Terminals THEN c["x"]
     ELSE IF name \in Unaries \cup Binaries THEN Apply(name, a, 0)
     ELSE Undefined

\* The table of the arity is searched for the symbol.
StaticEval(t, c) ==
  LET a == [i \in DOMAIN t.sub |-> StaticEval(t.sub[i], c)] IN
  IF ~ HasRule(t) THEN Thrown
  ELSE IF a = <<>> THEN c[Head(t.v)] ELSE Apply(Head(t.v), a, 0)

\* The same, with leaves that hold a constant instead of a symbol.
StaticEvalErc(t, c) ==
  LET a == [i \in DOMAIN t.sub |-> StaticEvalErc(t.sub[i], c)] IN
  IF a = <<>> /\ Head(t.v) \in Numbers THEN Constant(t.v)
  ELSE IF ~ HasRule(t) THEN Thrown
  ELSE IF a = <<>> THEN c[Head(t.v)] ELSE Apply(Head(t.v), a, 0)

\* tree_transformator2 gives a node the function of its symbol; log_func is gpcxx_log.
IntrusiveEval(t, c) ==
  IF t.sub = <<>> THEN c[Head(t.v)]
  ELSE Apply(Head(t.v), [i \in DOMAIN t.sub |-> IntrusiveEval(t.sub[i], c)], LogOfTiny)

\* tree_creator makes a closure of those of the children.
VirtualEval(t, c) ==
  IF t.sub = <<>> THEN c[Head(t.v)]
  ELSE Apply(Head(t.v), [i \in DOMAIN t.sub |-> VirtualEval(t.sub[i], c)], 0)

Evaluate(e, t, c) ==
  CASE e = "eval1" -> EvalCursor1(t, c)
    [] e = "eval2" -> EvalCursor2(t, c)
    [] e = "eval3" -> EvalCursor3(t, c)
    [] e = "static" -> StaticEval(t, c)
    [] e = "static_erc" -> StaticEvalErc(t, c)
    [] e = "intrusive" -> IntrusiveEval(t, c)
    [] e = "virtual" -> VirtualEval(t, c)

-----------------------------------------------------------------------------
(* The programs: a formula from a line of a file, or a tree that a static   *)
(* evaluator is given by another program, and its values at the data points. *)

NoLine == <<"no line">>

InitEval == line = <<>> /\ formula = {} /\ evaluator = "none" /\ y = <<>>

\* A line that cannot be parsed leaves no formula: the exception ends the program.
ReadLine(text) ==
  /\ line' = text
  /\ formula' = {Transform(Leaf("header"), <<>>, ast).sub[1] : ast \in ParseTree(text)}
  /\ UNCHANGED <<evaluator, y>>

TakeTree ==
  /\ line = <<>>
  /\ line' = NoLine /\ formula' = {tree.sub[1]}
  /\ UNCHANGED <<evaluator, y>>

Evaluators ==
  IF line = NoLine THEN {"static", "static_erc"}
  ELSE {"eval1", "eval2", "eval3", "static", "intrusive", "virtual"}

RunTest(e) ==
  /\ formula # {} /\ Len(y) < Len(Data)
  /\ evaluator \in {"none", e}
  /\ evaluator' = e
  /\ \E t \in formula : y' = Append(y, Evaluate(e, t, Data[Len(y) + 1]))
  /\ UNCHANGED <<line, formula>>

EndOfProgram ==
  /\ line # <<>> /\ (formula = {} \/ Len(y) = Len(Data))
  /\ line' = <<>> /\ formula' = {} /\ evaluator' = "none" /\ y' = <<>>

\* What the simple notation writes, also cut off, and all of it without brackets.
Lines ==
  LET text == Simple(tree.sub[1], TRUE) IN
  {SubSeq(text, 1, n) : n \in 1 .. Len(text)}
  \cup {SelectSeq(text, LAMBDA s : s \notin Brackets)}

EvalStep ==
  \/ line = <<>> /\ \E text \in Lines : ReadLine(text)
  \/ TakeTree
  \/ \E e \in Evaluators : RunTest(e)
  \/ EndOfProgram

EvalNext ==
  \/ line = <<>> /\ TextNext /\ UNCHANGED evalVars
  \/ reader = "none" /\ EvalStep /\ UNCHANGED textVars

EvalInit == InitText /\ InitEval

EvalSpec == EvalInit /\ [][EvalNext]_<<textVars, evalVars>>

-----------------------------------------------------------------------------
NamesOf(text) == SelectSeq(text, LAMBDA s : s \notin Brackets)

InGrammar(t) == \A p \in Paths(t) : HasRule(At(t, p))

\* Of a parsed formula no product has an operand that was not bracketed and binds less,
\* and no operator one of its own kind on the right.
LeftAssociative(t) ==
  \A p \in Paths(t) :
    LET n == At(t, p)
        Head2(i) == Head(n.sub[i].v)
    IN /\ Head(n.v) \in Products => Head2(1) \notin Sums /\ Head2(2) \notin Binaries
       /\ Head(n.v) \in Sums => Head2(2) \notin Sums

\* What the simple writer writes is read by the parser of the benchmark as the same tree
\* if the grammar has its names, and as nothing if it has not.  Of a text cut off or
\* without brackets, all names are in the formula and in their order, and operators
\* associate to the left.
ParsedAsWritten ==
  line \notin {<<>>, NoLine} =>
    /\ line = Simple(tree.sub[1], TRUE) =>
         formula = IF InGrammar(tree.sub[1]) THEN {tree.sub[1]} ELSE {}
    /\ \A t \in formula :
         /\ NamesOf(Simple(t, TRUE)) = NamesOf(line)
         /\ NamesOf(line) = line => LeftAssociative(t)

\* The value of a polish text on a stack, from its last field to the first.
OnStack(fields, c, logOfZero, byZero) ==
  LET Step(name, stack) ==
        IF name \in Numbers THEN <<Constant(<<name>>)>> \o stack
        ELSE LET n == Arity[name]
                 a == SubSeq(stack, 1, n)
                 value == IF n = 0 THEN c[name]
                          ELSE IF name = "/" /\ a[2] = 0 THEN byZero
                          ELSE Apply(name, a, logOfZero)
             IN <<value>> \o SubSeq(stack, n + 1, Len(stack))
  IN Head(FoldRight(Step, fields, <<>>))

\* The evaluators compute what the polish text means.  They differ in a division by
\* zero, which is 1 for the first, and in the logarithm of zero, which is that of 1e-20
\* for intrusive nodes; the table of eval_cursor3 takes y and z for x.  The static
\* evaluators throw exactly if some node has no rule, be it a constant or of arity three.
EvaluatorsAgree ==
  \A t \in formula : \A i \in DOMAIN y :
    LET HasValue(n) == HasRule(n) \/ (evaluator = "static_erc" /\ n.sub = <<>> /\ Head(n.v) \in Numbers)
        c == IF evaluator = "eval3" THEN [n \in Terminals |-> Data[i]["x"]] ELSE Data[i]
    IN IF \E p \in Paths(t) : ~ HasValue(At(t, p)) THEN y[i] = Thrown
       ELSE y[i] = OnStack([j \in DOMAIN Fields(Polish(t, FALSE)) |-> Fields(Polish(t, FALSE))[j][1]], c,
                           IF evaluator = "intrusive" THEN LogOfTiny ELSE 0,
                           IF evaluator = "eval1" THEN 1 ELSE Beyond)

\* From the text of a formula to its values.
FormulaEvaluated == ParsedAsWritten /\ EvaluatorsAgree
=============================================================================
