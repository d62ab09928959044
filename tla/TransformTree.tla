---------------------------- MODULE TransformTree -----------------------------
(***************************************************************************)
(* transform_tree (tree/transform_tree.hpp) with the rules of canonic/:     *)
(* rules are tried at every node from the root down, and what a rule        *)
(* answers decides where the walk goes on.                                  *)
(*                                                                         *)
(* The recursion of apply_rules_to_cursor keeps a cursor and a loop counter *)
(* per level; both are the path of the node it is at.  A step is one rule   *)
(* at one node, or a move of the walk.                                      *)
(***************************************************************************)
EXTENDS AlgebraicNode

CONSTANTS
  Rules,          \* the rules in their order
  MaxTrials,      \* max_trials of transform_tree
  RuleTrials,     \* max_trials of apply_rules_to_cursor, always its default
  InitialTrees

RuleNames ==
  {"sort_commutative", "left_lift", "remove_double_inverse_functions",
   "remove_inverse_operations", "summarize_constants"}

ASSUME TransformAssumption ==
  /\ MaxTrials \in Nat /\ RuleTrials \in Nat \ {0, 1}
  /\ Rules \in Seq(RuleNames)
  /\ \A t \in InitialTrees : Ordered(t)

VARIABLES
  tree,
  c,        \* the path of the cursor
  rule,     \* the rule to try next, behind the last one if all are through
  count,    \* trials at this cursor
  rounds,   \* walks from the root, count of transform_tree
  status    \* "running", "done" or "thrown"

vars == <<tree, c, rule, count, rounds, status>>

-----------------------------------------------------------------------------
(* The rules.  Each gives the answers it may give for the node x, with what *)
(* the subtree of x is then.                                                *)

Answer(result, y) == {[result |-> result, term |-> y]}

Descent(x) == Answer("descent", x)

SortedBy(s) == \A i, j \in DOMAIN s : i < j => ~ Before(Top(s[j]), Top(s[i]))

\* std::sort leaves the order of equivalent nodes open.
Sorted(s) ==
  {z \in {[i \in DOMAIN s |-> s[f[i]]] : f \in Bijection(DOMAIN s, DOMAIN s)} : SortedBy(z)}

SortCommutative(x) ==
  IF IsCommutative(Top(x)) /\ ~ SortedBy(Operands(x))
  THEN UNION {Answer("repeat", Term(Top(x), z)) : z \in Sorted(Operands(x))}
  ELSE Descent(x)

\* Mutant: the lifted node is not erased.
LeftLiftNoErase(x) ==
  LET s == Operands(x) IN
  IF IsAssociative(Top(x)) /\ Len(s) > 1 /\ Top(s[1]) = Top(x)
  THEN Answer("repeat", Term(Top(x), Operands(s[1]) \o <<Leaf(Top(x))>> \o Tail(s)))
  ELSE Descent(x)

LeftLift(x) ==
  LET s == Operands(x) IN
  IF ~ IsAssociative(Top(x)) THEN Descent(x)
  ELSE IF Len(s) < 2 THEN Answer("throw", x)
  ELSE IF Top(s[1]) = Top(x)
    THEN Answer("repeat", Term(Top(x), Operands(s[1]) \o Tail(s)))
    ELSE Descent(x)

\* Both ways to do it, by swaps at the root and by a copy below, leave the
\* grandchild in the place of the node.
RemoveDoubleInverseFunctions(x) ==
  LET s == Operands(x) IN
  IF GroupFromInverseFunction(Top(x)) = {} THEN Descent(x)
  ELSE IF Len(s) # 1 THEN Answer("throw", x)
  ELSE IF Top(s[1]) # Top(x) THEN Descent(x)
  ELSE IF Len(Operands(s[1])) # 1 THEN Answer("throw", x)
  ELSE Answer("ascent", Operands(s[1])[1])

\* Mutant: the inverse of the wrong operand.
RemoveInverseOperationsLeft(x) ==
  LET s == Operands(x) IN
  IF GroupFromInverseOperation(Top(x)) = {} THEN Descent(x)
  ELSE UNION {Answer("ascent", Term(g.operation, <<Term(g.inverse_function, <<s[1]>>), s[2]>>)) :
                g \in GroupFromInverseOperation(Top(x))}

RemoveInverseOperations(x) ==
  LET s == Operands(x) IN
  IF GroupFromInverseOperation(Top(x)) = {} THEN Descent(x)
  ELSE IF Len(s) # 2 THEN Answer("throw", x)
  ELSE UNION {Answer("ascent", Term(g.operation, <<s[1], Term(g.inverse_function, <<s[2]>>)>>)) :
                g \in GroupFromInverseOperation(Top(x))}

Generated(x) == Leaf(Constant(Eval(x, NoContext)))

\* The constants behind the last child that is none are put together.
SummarizeConstants(x) ==
  LET s == Operands(x)
      start == Max({0} \cup {i \in DOMAIN s : ~ IsConstant(Top(s[i]))})
      constants == SubSeq(s, start + 1, Len(s)) IN
  IF constants = <<>> THEN Descent(x)
  ELSE IF start = 0 THEN Answer("ascent", Generated(x))
  ELSE IF Len(constants) = 1 THEN Descent(x)
  ELSE Answer("ascent",
         Term(Top(x), Append(SubSeq(s, 1, start), Generated(Term(Top(x), constants)))))

Answers(r, x) ==
  CASE r = "sort_commutative" -> SortCommutative(x)
    [] r = "left_lift" -> LeftLift(x)
    [] r = "remove_double_inverse_functions" -> RemoveDoubleInverseFunctions(x)
    [] r = "remove_inverse_operations" -> RemoveInverseOperations(x)
    [] r = "summarize_constants" -> SummarizeConstants(x)

-----------------------------------------------------------------------------
(* The walk.                                                                *)

Init ==
  /\ tree \in InitialTrees
  /\ c = <<>> /\ rule = 1 /\ count = 1 /\ rounds = 0
  /\ status = "running"

\* apply_rules_to_cursor begins at the node p.
Enter(p) == c' = p /\ rule' = 1 /\ count' = 1 /\ UNCHANGED <<rounds, status>>

Throw == status' = "thrown" /\ UNCHANGED <<c, rule, count, rounds>>

\* while( redo )
Redo ==
  IF count + 1 = RuleTrials THEN Throw
  ELSE rule' = 1 /\ count' = count + 1 /\ UNCHANGED <<c, rounds, status>>

\* The call at the root has returned: transform_tree counts the round, and throws
\* at the last one even if nothing is left to do.
EndRound(again) ==
  /\ rounds' = rounds + 1
  /\ IF rounds + 1 = MaxTrials THEN status' = "thrown" /\ UNCHANGED <<c, rule, count>>
     ELSE IF again THEN c' = <<>> /\ rule' = 1 /\ count' = 1 /\ UNCHANGED status
     ELSE status' = "done" /\ UNCHANGED <<c, rule, count>>

ApplyRule ==
  /\ status = "running" /\ rule <= Len(Rules)
  /\ \E a \in Answers(Rules[rule], Subtree(tree, c)) :
       /\ tree' = Put(tree, c, a.term)
       /\ \/ a.result = "throw" /\ Throw
          \/ a.result = "descent" /\ rule' = rule + 1 /\ UNCHANGED <<c, count, rounds, status>>
          \/ (a.result = "repeat" \/ (a.result = "ascent" /\ c = <<>>)) /\ Redo
          \/ a.result = "ascent" /\ c # <<>> /\ EndRound(TRUE)

Through == status = "running" /\ rule > Len(Rules)

Descend ==
  /\ Through
  /\ Size(tree, c) > 0
  /\ Enter(Append(c, 1))
  /\ UNCHANGED tree

\* Mutant: only the innermost loop goes on.
ReturnInner ==
  /\ Through
  /\ Size(tree, c) = 0
  /\ IF Len(c) \notin Unfinished(tree, c) THEN EndRound(FALSE)
     ELSE Enter(Append(Front(c), Last(c) + 1))
  /\ UNCHANGED tree

\* Calls return until one has a child left to go to.
Return ==
  /\ Through
  /\ Size(tree, c) = 0
  /\ IF Unfinished(tree, c) = {} THEN EndRound(FALSE)
     ELSE LET k == Max(Unfinished(tree, c))
          IN Enter(Append(SubSeq(c, 1, k - 1), c[k] + 1))
  /\ UNCHANGED tree

Next == ApplyRule \/ Descend \/ Return

Spec == Init /\ [][Next]_vars /\ WF_vars(Next)

-----------------------------------------------------------------------------
\* The cursor designates a node of the tree at every step, although rules move,
\* insert and erase nodes around it.
CursorValid == c \in DOMAIN tree

\* A rewritten formula has the value of the old one, whatever its variables are.
SameValue == tree' # tree => \A x \in Contexts : Eval(tree', x) = Eval(tree, x)

ValueKept == [][SameValue]_vars

\* When transform_tree returns no rule applies anywhere: what later rules did has
\* not brought work to nodes the walk had left.
NothingLeft ==
  status = "done" =>
    \A p \in DOMAIN tree, r \in Range(Rules) :
      Answers(r, Subtree(tree, p)) = Descent(Subtree(tree, p))

\* No rule meets a node it refuses, and the trial limits are not what ends the
\* transformation: with limits beyond the reach of these formulas it completes.
Completes == <>(status = "done")
=============================================================================
