----------------------------- MODULE GenerateTree -----------------------------
(***************************************************************************)
(* basic_generate_strategy (basic_generate_strategy.hpp) as ramp (ramp.hpp) *)
(* and its direct users call it: one run of operator() on an empty tree.    *)
(* The loop keeps a stack of the nodes whose children are not complete and, *)
(* beside it, a counter height that decides which symbols may come next.    *)
(*                                                                         *)
(* tree lists the nodes in the order in which insert_below appends them; of *)
(* a symbol only the arity matters.  A minimal height of 0 is left to the   *)
(* caller: the full method of ramp would compute size_t( 0 ) - 1.           *)
(***************************************************************************)
EXTENDS Integers, FiniteSets, SequencesExt

CONSTANTS
  MinHeight, MaxHeight,   \* the limits given to ramp
  NonTerminals            \* the arities of the non-terminal generators

ASSUME GenerateAssumption ==
  /\ MinHeight \in Nat \ {0} /\ MaxHeight \in Nat /\ MinHeight <= MaxHeight
  /\ NonTerminals \subseteq Nat \ {0} /\ NonTerminals # {}

VARIABLES
  tree,         \* the nodes: the index of the parent (0 for the root), level(), arity
  gen_stack,    \* the cursors of incomplete nodes, with the children they want
  height,
  min_height,   \* m_min_height, m_max_height of the strategy object
  max_height

generateVars == <<tree, gen_stack, height, min_height, max_height>>

-----------------------------------------------------------------------------
Top == Last(gen_stack)

\* current.size()
Size(c) == Cardinality({i \in DOMAIN tree : tree[i].up = c})

Entry(c, a) == [cursor |-> c, wanted |-> a]

\* tree.insert_below( current , node ) appends a child.
Child(c, a) ==
  [up |-> c, level |-> IF c = 0 THEN 0 ELSE tree[c].level + 1, arity |-> a]

InsertBelow(c, a) == tree' = Append(tree, Child(c, a))

\* Mutant: the last level may still branch.
SymbolsLate(h) ==
  {a \in NonTerminals : h <= max_height} \cup {a \in {0} : h >= min_height}

\* insert_node: the arities the node generator may answer for a node at height h.
Symbols(h) ==
  {a \in NonTerminals : h < min_height \/ h < max_height}
    \cup {a \in {0} : h >= min_height}

GenerateInit ==
  /\ tree = <<>> /\ gen_stack = <<>> /\ height = 0
  /\ min_height = 0 /\ max_height = 0

\* The root, whatever the limits are, is a non-terminal.
Start(min, max) ==
  /\ tree = <<>>
  /\ min_height' = min /\ max_height' = max
  /\ \E a \in NonTerminals : InsertBelow(0, a) /\ gen_stack' = <<Entry(1, a)>>
  /\ height' = 1

\* The two methods of ramp, and a strategy used by itself.
Grow(h) == Start(1, h)
Full(h) == Start(h - 1, h)
Direct(min, max) == Start(min, max)

\* Mutant: the entry stays on the stack.
PopNothing ==
  /\ gen_stack # <<>>
  /\ Size(Top.cursor) = Top.wanted
  /\ UNCHANGED generateVars

Pop ==
  /\ gen_stack # <<>>
  /\ Size(Top.cursor) = Top.wanted
  /\ gen_stack' = Front(gen_stack)
  /\ height' = height - 1
  /\ UNCHANGED <<tree, min_height, max_height>>

\* Mutant: the counter is not set back behind a terminal.
DescendAlways(a) ==
  /\ gen_stack' = IF a > 0 THEN Append(gen_stack, Entry(Len(tree) + 1, a)) ELSE gen_stack
  /\ height' = height + 1

\* Mutant: a node with one child is left without it.
DescendBinary(a) ==
  /\ gen_stack' = IF a > 1 THEN Append(gen_stack, Entry(Len(tree) + 1, a)) ELSE gen_stack
  /\ height' = IF a > 1 THEN height + 1 ELSE height

\* if( n.second > 0 ) gen_stack.push( n ); else height--;
Descend(a) ==
  /\ gen_stack' = IF a > 0 THEN Append(gen_stack, Entry(Len(tree) + 1, a)) ELSE gen_stack
  /\ height' = IF a > 0 THEN height + 1 ELSE height

Insert ==
  /\ gen_stack # <<>>
  /\ Size(Top.cursor) # Top.wanted
  /\ \E a \in Symbols(height + 1) : InsertBelow(Top.cursor, a) /\ Descend(a)
  /\ UNCHANGED <<min_height, max_height>>

GenerateNext ==
  \/ \E h \in MinHeight .. MaxHeight : Grow(h) \/ Full(h)
  \/ \E min, max \in MinHeight .. MaxHeight : min <= max /\ Direct(min, max)
  \/ Pop
  \/ Insert

\* One thread runs the loop until it ends.
GenerateSpec == GenerateInit /\ [][GenerateNext]_generateVars /\ WF_generateVars(GenerateNext)

-----------------------------------------------------------------------------
Generated == tree # <<>> /\ gen_stack = <<>>

\* The nodes are numbered in order, and no counter falls below zero.
GenerateTypeOK ==
  /\ tree \in Seq([up : Nat, level : Nat, arity : NonTerminals \cup {0}])
  /\ \A i \in DOMAIN tree : tree[i].up \in 0 .. i - 1
  /\ gen_stack \in Seq([cursor : DOMAIN tree, wanted : NonTerminals])
  /\ height \in Nat /\ min_height \in Nat /\ max_height \in Nat

\* When insert_node is asked for a symbol, height is the height of the node it is
\* for: the stack is the path from the root to the node under construction.
HeightIsDepth ==
  /\ height = Len(gen_stack)
  /\ \A i \in DOMAIN gen_stack :
       /\ tree[gen_stack[i].cursor].level = i - 1
       /\ tree[gen_stack[i].cursor].up = IF i = 1 THEN 0 ELSE gen_stack[i - 1].cursor

\* No leaf is nearer to the root than min_height, none further than max_height;
\* since the root is never a terminal, a limit below two counts as two.
AtLeastTwo(h) == IF h < 2 THEN 2 ELSE h

HeightsInLimits ==
  \A i \in DOMAIN tree :
    /\ tree[i].level + 1 <= AtLeastTwo(max_height)
    /\ tree[i].arity = 0 => tree[i].level + 1 >= AtLeastTwo(min_height)

\* No node gets more children than its symbol takes, and the only ones that have
\* fewer are those on the stack: the finished tree can be evaluated.
AritiesFilled ==
  \A i \in DOMAIN tree :
    /\ Size(i) <= tree[i].arity
    /\ Size(i) < tree[i].arity => \E k \in DOMAIN gen_stack : gen_stack[k].cursor = i

\* The sums of the first numbers of a sequence.
Sums(s) ==
  LET sum[k \in 0 .. Len(s)] == IF k = 0 THEN 0 ELSE sum[k - 1] + s[k] IN sum

\* The children that are missing in the tree, for each entry of the stack.
Missing == [k \in DOMAIN gen_stack |-> gen_stack[k].wanted - Size(gen_stack[k].cursor)]

Owed == Sums(Missing)[Len(gen_stack)]

\* The nodes are created in the order of a polish word of the tree: with each one
\* the number of subtrees that are still owed changes by its arity less one.
Word == INSTANCE PolishWord WITH
  word <- [i \in DOMAIN tree |-> tree[i].arity],
  open <- IF tree = <<>> THEN 1 ELSE Owed

ImplementsPolishWord == Word!Spec

\* The loop ends once it is entered: max_height bounds the depth, the arities the
\* breadth.
Terminates == tree # <<>> ~> Generated
=============================================================================
