------------------------------- MODULE TreeText --------------------------------
(***************************************************************************)
(* Trees as texts: the writers of io/ and the readers of the polish and of  *)
(* the bracket notation.  A text is a sequence of names and marks, the      *)
(* value of a node the sequence of the names it is written with; blanks,    *)
(* indentation and the words around a json value are left out.              *)
(***************************************************************************)
EXTENDS OrderedTerms, Integers, FiniteSets

CONSTANTS
  InitialTrees,   \* headers with a root
  Arity,     \* the names the mapper of a polish text knows, with their arities
  Numbers    \* the names that std::stod takes for the beginning of a number

NamesAreKnownOnce == DOMAIN Arity \cap Numbers = {}

VARIABLES
  tree,      \* what is written
  reader,    \* "none" or the notation that is being read
  given,     \* the text
  rest,      \* what is left of it: fields of a polish text, else names and marks
  built,     \* the header of the tree that is read
  at,        \* polish: the nodes below which a subtree is to be inserted, in order;
             \* bracket: the nodes whose closing bracket is awaited, and the header
  due,       \* bracket: a node is to be inserted below the first of them
  outcome    \* "", "returned" or "thrown"

textVars == <<tree, reader, given, rest, built, at, due, outcome>>

Orders == INSTANCE TreeOrders

\* The tree as a function on the paths of its nodes.
Shape(t) == [p \in Paths(t) |-> At(t, p).v]

Sep == "|"
Opening == "("
Closing == ")"

Notations == {"polish", "marked polish", "bracket"}

IsPolish == reader \in {"polish", "marked polish"}

-----------------------------------------------------------------------------
(* Writers                                                                  *)

Mark(condition, mark) == IF condition THEN <<mark>> ELSE <<>>

RECURSIVE Polish(_, _), Bracket(_), Simple(_, _), Json(_), Graphviz(_, _)

Polish(t, marked) ==
  LET inner == marked /\ t.sub # <<>> IN
  Mark(inner, Opening) \o t.v
  \o FlattenSeq([i \in DOMAIN t.sub |-> <<Sep>> \o Polish(t.sub[i], marked)])
  \o Mark(inner, Closing)

Bracket(t) ==
  <<Opening>> \o t.v \o FlattenSeq([i \in DOMAIN t.sub |-> Bracket(t.sub[i])]) \o <<Closing>>

Simple(t, infix) ==
  LET Operand(s) ==
        LET binary == Len(s.sub) = 2 IN
        Mark(binary, Opening) \o Simple(s, infix) \o Mark(binary, Closing)
      Argument(i) == Mark(i > 1, ",") \o Simple(t.sub[i], infix)
  IN IF infix /\ Len(t.sub) = 2 THEN Operand(t.sub[1]) \o t.v \o Operand(t.sub[2])
     ELSE t.v \o Mark(t.sub # <<>>, Opening)
              \o FlattenSeq([i \in DOMAIN t.sub |-> Argument(i)]) \o Mark(t.sub # <<>>, Closing)

\* An object is the pair of its value and its list of children.
Json(t) ==
  <<"{">> \o t.v \o <<"[">>
  \o FlattenSeq([i \in DOMAIN t.sub |-> Json(t.sub[i]) \o Mark(i < Len(t.sub), ",")])
  \o <<"]", "}">>

\* count is handed on from child to child.
Graphviz(t, count) ==
  LET Child(text, s) ==
        LET below == Graphviz(s, text.count + 1) IN
        [labels |-> text.labels \o below.labels,
         edges |-> Append(text.edges, <<count, text.count + 1>>) \o below.edges,
         count |-> below.count]
  IN FoldLeft(Child, [labels |-> <<<<count, t.v>>>>, edges |-> <<>>, count |-> count], t.sub)

\* The two other writers of performance/iterator/preorder_iterator.cpp.
RECURSIVE IteratorText(_), StackText(_)

IteratorText(c) ==
  IF c = Orders!Shoot THEN <<>>
  ELSE Mark(c # Orders!Root, Sep) \o At(tree, c).v
       \o IteratorText(Orders!PreorderSuccessor(Shape(tree), c))

StackText(s) ==
  IF s = <<>> THEN <<>>
  ELSE <<Sep>> \o Head(s).v \o StackText(Head(s).sub \o Tail(s))

\* Nothing for an empty tree, whose header has no child.
Written(notation, header) ==
  IF header.sub = <<>> THEN <<>>
  ELSE IF notation = "bracket" THEN Bracket(header.sub[1])
  ELSE Polish(header.sub[1], notation = "marked polish")

-----------------------------------------------------------------------------
(* Readers                                                                  *)

InitText ==
  /\ tree \in InitialTrees
  /\ reader = "none" /\ given = <<>> /\ rest = <<>> /\ built = Leaf("header")
  /\ at = <<>> /\ due = FALSE /\ outcome = ""

\* erase_all, then split_iterator: an empty text has one empty field.
Fields(text) ==
  LET Add(fields, name) ==
        IF name = Sep THEN Append(fields, <<>>)
        ELSE [fields EXCEPT ![Len(fields)] = Append(@, name)]
  IN FoldLeft(Add, <<<<>>>>, SelectSeq(text, LAMBDA s : s \notin {Opening, Closing}))

\* find_first: the place of the mark, or the one behind the text.
Find(mark, text) == Min({n \in 1 .. Len(text) : text[n] = mark} \cup {Len(text) + 1})

After(n, text) == SubSeq(text, n + 1, Len(text))

\* insert_below( cursor , value ), and the cursor it returns.
InsertBelow(t, c, v) == Put(t, c, Term(At(t, c).v, Append(At(t, c).sub, Leaf(v))))

Inserted(t, c) == Append(c, Len(At(t, c).sub) + 1)

ReadPolish(notation, text) ==
  /\ reader' = notation /\ given' = text /\ rest' = Fields(text)
  /\ built' = Leaf("header") /\ at' = <<<<>>>>
  /\ UNCHANGED <<due, outcome>>

\* What the map holds, or else a constant.
Known(field) == Len(field) = 1 /\ field[1] \in DOMAIN Arity

Understood(field) == Known(field) \/ (field # <<>> /\ Head(field) \in Numbers)

Children(field) == IF Known(field) THEN Arity[field[1]] ELSE 0

\* Mutant: the subtrees are read level by level.
PolishFieldByLevel ==
  /\ IsPolish /\ outcome = "" /\ at # <<>> /\ rest # <<>> /\ Understood(Head(rest))
  /\ built' = InsertBelow(built, Head(at), Head(rest))
  /\ at' = Tail(at) \o [i \in 1 .. Children(Head(rest)) |-> Inserted(built, Head(at))]
  /\ rest' = Tail(rest)
  /\ UNCHANGED <<reader, given, due, outcome>>

PolishField ==
  /\ IsPolish /\ outcome = "" /\ at # <<>> /\ rest # <<>> /\ Understood(Head(rest))
  /\ built' = InsertBelow(built, Head(at), Head(rest))
  /\ at' = [i \in 1 .. Children(Head(rest)) |-> Inserted(built, Head(at))] \o Tail(at)
  /\ rest' = Tail(rest)
  /\ UNCHANGED <<reader, given, due, outcome>>

\* The end of the text: the call returns without a subtree.
PolishEnd ==
  /\ IsPolish /\ outcome = "" /\ at # <<>> /\ rest = <<>>
  /\ at' = Tail(at)
  /\ UNCHANGED <<reader, given, rest, built, due, outcome>>

PolishThrow ==
  /\ IsPolish /\ outcome = "" /\ at # <<>> /\ rest # <<>> /\ ~ Understood(Head(rest))
  /\ outcome' = "thrown"
  /\ UNCHANGED <<reader, given, rest, built, at, due>>

PolishReturn ==
  /\ IsPolish /\ outcome = "" /\ at = <<>>
  /\ outcome' = "returned"
  /\ UNCHANGED <<reader, given, rest, built, at, due>>

ReadBracket(text) ==
  /\ reader' = "bracket" /\ given' = text
  /\ rest' = After(Find(Opening, text), text)
  /\ built' = Leaf("header") /\ at' = <<<<>>>> /\ due' = TRUE
  /\ outcome' = IF text = <<>> THEN "returned" ELSE IF Opening \notin ToSet(text) THEN "thrown" ELSE ""

\* find_first finds no closing bracket, on entry or after a child.
BracketThrow ==
  /\ reader = "bracket" /\ outcome = "" /\ Closing \notin ToSet(rest)
  /\ outcome' = "thrown"
  /\ UNCHANGED <<reader, given, rest, built, at, due>>

BracketEnter ==
  /\ reader = "bracket" /\ outcome = "" /\ Closing \in ToSet(rest) /\ due
  /\ LET end == Min({Find(Opening, rest), Find(Closing, rest)}) IN
     built' = InsertBelow(built, Head(at), SubSeq(rest, 1, end - 1))
  /\ at' = <<Inserted(built, Head(at))>> \o at
  /\ due' = FALSE
  /\ UNCHANGED <<reader, given, rest, outcome>>

\* Another turn of the loop.
BracketChild ==
  /\ reader = "bracket" /\ outcome = "" /\ Closing \in ToSet(rest) /\ ~ due
  /\ Find(Opening, rest) < Find(Closing, rest)
  /\ rest' = After(Find(Opening, rest), rest)
  /\ due' = TRUE
  /\ UNCHANGED <<reader, given, built, at, outcome>>

BracketClose ==
  /\ reader = "bracket" /\ outcome = "" /\ Closing \in ToSet(rest) /\ ~ due
  /\ Find(Closing, rest) < Find(Opening, rest)
  /\ rest' = After(Find(Closing, rest), rest)
  /\ at' = Tail(at)
  /\ outcome' = IF Len(at) = 2 THEN "returned" ELSE ""
  /\ UNCHANGED <<reader, given, built, due>>

\* The tree is dropped.
Drop ==
  /\ outcome # ""
  /\ reader' = "none" /\ given' = <<>> /\ rest' = <<>> /\ built' = Leaf("header")
  /\ at' = <<>> /\ due' = FALSE /\ outcome' = ""

\* A text that was written, also cut off, with a name or a mark lost, or followed by
\* something else.
Texts(notation) ==
  LET text == Written(notation, tree) IN
  {SubSeq(text, 1, n) : n \in 0 .. Len(text)}
  \cup {RemoveAt(text, n) : n \in 1 .. Len(text)}
  \cup {text \o <<Sep>> \o text}

Read ==
  \/ /\ reader = "none"
     /\ \E notation \in Notations : \E text \in Texts(notation) :
          IF notation = "bracket" THEN ReadBracket(text) ELSE ReadPolish(notation, text)
  \/ PolishField \/ PolishEnd \/ PolishThrow \/ PolishReturn
  \/ BracketThrow \/ BracketEnter \/ BracketChild \/ BracketClose
  \/ Drop

TextNext == Read /\ UNCHANGED tree

TextSpec == InitText /\ [][TextNext]_textVars

-----------------------------------------------------------------------------
Nodes == Paths(tree) \ {<<>>}

Rank(p) == Cardinality({q \in Nodes : Orders!Precedes("preorder", q, p)})

SimpleTexts(infix) == {Simple(t.sub[1], infix) : t \in InitialTrees}

SimpleTellsApart ==
  \A infix \in BOOLEAN : Cardinality(SimpleTexts(infix)) = Cardinality(InitialTrees)

JsonTellsApart == Cardinality({Json(t.sub[1]) : t \in InitialTrees}) = Cardinality(InitialTrees)

\* The three polish writers that the iterator benchmark compares write the same text,
\* the simple notation, infix or not, and the json text tell trees apart, and the numbers
\* of the graphviz output, which are handed on by reference, are those of the preorder.
WritersAgree ==
  reader = "none" =>
    LET root == tree.sub[1]
        drawn == Graphviz(root, 0)
    IN /\ Polish(root, FALSE) = IteratorText(Orders!Root)
       /\ Polish(root, FALSE) = Tail(StackText(<<root>>))
       /\ SimpleTellsApart /\ JsonTellsApart
       /\ ToSet(drawn.labels) = {<<Rank(p), At(tree, p).v>> : p \in Nodes}
       /\ ToSet(drawn.edges) = {<<Rank(Front(p)), Rank(p)>> : p \in Nodes \ {Orders!Root}}

\* A text that begins with one that was written is read back as the tree, whatever follows.
WholeTextRead ==
  outcome # "" /\ Len(Written(reader, tree)) <= Len(given) /\ IsPrefix(Written(reader, tree), given) =>
    outcome = "returned" /\ built = tree

\* At any time, and after a throw, the tree of the polish reader consists of the fields
\* read so far, in the order of the text; a tree in which a node lacks children is
\* returned, without a word, only when the text ran out.
FieldsInOrder ==
  IsPolish =>
    LET fields == Fields(given) IN
    /\ built.sub # <<>> =>
         Fields(Written("polish", built)) = SubSeq(fields, 1, Len(fields) - Len(rest))
    /\ outcome = "returned" /\ rest # <<>> =>
         \A p \in Paths(built) \ {<<>>} : Len(At(built, p).sub) = Children(At(built, p).v)

Brackets == {Opening, Closing}

Count(mark, text) == Len(SelectSeq(text, LAMBDA s : s = mark))

\* The text without the names behind a closing bracket.
Kept(text) ==
  LET Keep(kept, s) ==
        IF s \notin Brackets /\ kept # <<>> /\ Last(kept) = Closing THEN kept ELSE Append(kept, s)
  IN FoldLeft(Keep, <<>>, text)

\* The bracket reader returns the first balanced piece of the text, names outside of
\* a node's own place are skipped, and throws if no piece is balanced.
BalancedPieceRead ==
  reader = "bracket" /\ outcome # "" /\ given # <<>> =>
    LET text == After(Find(Opening, given) - 1, given)
        ends == {n \in 2 .. Len(text) :
                  LET piece == SubSeq(text, 1, n) IN Count(Opening, piece) = Count(Closing, piece)}
    IN IF ends = {} THEN outcome = "thrown"
       ELSE outcome = "returned" /\ Bracket(built.sub[1]) = Kept(SubSeq(text, 1, Min(ends)))

\* Of the texts that are written for a tree, and of what the readers make of such a text,
\* also if it was cut off, lost a piece or goes on.
TextsTellTrees == WritersAgree /\ WholeTextRead /\ FieldsInOrder /\ BalancedPieceRead
=============================================================================
