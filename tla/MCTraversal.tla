----------------------------- MODULE MCTraversal ------------------------------
(***************************************************************************)
(* Traversal and TreeEval for TLC: a tree of any shape up to a number of    *)
(* nodes is walked over, or it is written and read, parsed and evaluated.   *)
(***************************************************************************)
EXTENDS Traversal

CONSTANTS MaxNodes, Labellings, Arity, Numbers, Modulus, Data

VARIABLES
  reader, given, rest, built, at, due, outcome,   \* of TreeText
  line, formula, evaluator, y                     \* of TreeEval

textVars == <<reader, given, rest, built, at, due, outcome, line, formula, evaluator, y>>

RECURSIVE TermAt(_, _)

\* What is below p as a term.
TermAt(t, p) == [v |-> t[p], sub |-> [i \in 1 .. Size(t, p) |-> TermAt(t, Append(p, i))]]

TermOf == [t \in InitialTrees |-> TermAt(t, <<>>)]

InitialTerms == {TermOf[t] : t \in InitialTrees}

Text == INSTANCE TreeEval WITH tree <- TermOf[tree], InitialTrees <- InitialTerms

ASSUME Text!NamesAreKnownOnce /\ Text!DataAssumption

Walk == Next /\ reader = "none" /\ line = <<>> /\ UNCHANGED textVars

ReadAndEvaluate == mode = "none" /\ UNCHANGED vars /\ Text!EvalNext

MCInit == Init /\ Text!EvalInit

MCSpec == MCInit /\ [][Walk \/ ReadAndEvaluate]_<<vars, textVars>>

-----------------------------------------------------------------------------
\* The texts that are written for the tree, and what the readers make of them; asked
\* only where nothing else goes on, since nothing else changes them.
TextsTellTrees == mode = "none" /\ line = <<>> => Text!TextsTellTrees

\* The formula that is parsed of a text, and what each evaluator makes of it.
FormulaEvaluated == Text!FormulaEvaluated

-----------------------------------------------------------------------------
\* The names of the nodes by the number of their children.
Names == <<<<"x", "2", "y", "z">>, <<"s", "l", "c", "e">>, <<"+", "-", "*", "/">>, <<"if">>, <<"p4">>, <<"p5">>>>

MCArity ==
  [n \in UNION {ToSet(Names[i]) : i \in DOMAIN Names} \ {"2"} |->
    (CHOOSE i \in DOMAIN Names : n \in ToSet(Names[i])) - 1]

MCData == <<[x |-> 0, y |-> 3, z |-> 1], [x |-> 4, y |-> 0, z |-> 2]>>

\* The name of a node with the children s, which changes with the number of nodes
\* that follow.
Node(s, n) == Term(<<Names[Len(s) + 1][(n % Len(Names[Len(s) + 1])) + 1]>>, s)

RECURSIVE Forests(_, _)

\* The sequences of trees that have n nodes together.
Forests(n, shift) ==
  IF n = 0 THEN {<<>>}
  ELSE UNION {{<<Node(s, n + shift)>> \o f : s \in Forests(i, shift), f \in Forests(n - 1 - i, shift)}
                : i \in 0 .. n - 1}

MCInitialTrees ==
  UNION {{Term("header", <<Node(s, n + shift)>>) : s \in Forests(n, shift)}
           : n \in 0 .. MaxNodes - 1, shift \in Labellings}
=============================================================================
