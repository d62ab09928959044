------------------------- MODULE GenerateTree_proofs -------------------------
(***************************************************************************)
(* The four invariants of GenerateTree and what it implements, for all      *)
(* limits and all arities.                                                  *)
(***************************************************************************)
EXTENDS GenerateTree, FiniteSetTheorems, SequenceTheorems, WellFoundedInduction, TLAPS

\* Size(c) for the node list t.
SizeIn(t, c) == Cardinality({i \in DOMAIN t : t[i].up = c})

NodeRec == [up : Nat, level : Nat, arity : NonTerminals \cup {0}]

\* What the invariants rest on: a stack entry wants what its symbol takes, the
\* root is the only node of level 0, and below it a node branches only above the
\* last level.
Chained ==
  /\ min_height <= max_height
  /\ \A k \in DOMAIN gen_stack : gen_stack[k].wanted = tree[gen_stack[k].cursor].arity
  /\ \A i \in DOMAIN tree : tree[i].arity > 0 =>
       tree[i].level = 0 \/ tree[i].level + 1 < max_height

IInv == GenerateTypeOK /\ HeightIsDepth /\ HeightsInLimits /\ AritiesFilled /\ Chained

-----------------------------------------------------------------------------
\* Arities are numbers, and the one of a non-terminal is positive.
LEMMA Arities == NonTerminals \cup {0} \subseteq Nat /\ (\A a \in NonTerminals : a > 0)
BY GenerateAssumption

\* GenerateTypeOK in the words the steps below use.
LEMMA Types ==
  ASSUME GenerateTypeOK
  PROVE  /\ tree \in Seq(NodeRec) /\ Len(tree) \in Nat /\ DOMAIN tree = 1 .. Len(tree)
         /\ \A i \in DOMAIN tree : tree[i] \in NodeRec /\ tree[i].up \in 0 .. i - 1
         /\ gen_stack \in Seq([cursor : DOMAIN tree, wanted : NonTerminals])
         /\ Len(gen_stack) \in Nat /\ DOMAIN gen_stack = 1 .. Len(gen_stack)
         /\ \A k \in DOMAIN gen_stack : /\ gen_stack[k].cursor \in DOMAIN tree
                                        /\ gen_stack[k].wanted \in NonTerminals
<1>1. tree \in Seq(NodeRec) /\ (\A i \in DOMAIN tree : tree[i].up \in 0 .. i - 1)
  BY DEF GenerateTypeOK, NodeRec
<1>2. Len(tree) \in Nat /\ DOMAIN tree = 1 .. Len(tree)
      /\ (\A i \in DOMAIN tree : tree[i] \in NodeRec)
  BY <1>1
<1> DEFINE E == [cursor : DOMAIN tree, wanted : NonTerminals]
<1>3. gen_stack \in Seq(E)
  BY DEF GenerateTypeOK
<1>4. /\ Len(gen_stack) \in Nat /\ DOMAIN gen_stack = 1 .. Len(gen_stack)
      /\ \A k \in DOMAIN gen_stack : gen_stack[k] \in E
  <2> HIDE DEF E
  <2>1. QED
    BY <1>3
<1>5. \A k \in DOMAIN gen_stack : /\ gen_stack[k].cursor \in DOMAIN tree
                                   /\ gen_stack[k].wanted \in NonTerminals
  BY <1>4
<1>6. QED
  BY <1>1, <1>2, <1>3, <1>4, <1>5

\* The children of a node are finitely many.
LEMMA SizeType ==
  ASSUME GenerateTypeOK, NEW c \in Nat
  PROVE  /\ IsFiniteSet({i \in DOMAIN tree : tree[i].up = c})
         /\ Size(c) \in Nat
<1>1. IsFiniteSet(1 .. Len(tree))
  BY Types, FS_Interval
<1>2. IsFiniteSet({i \in DOMAIN tree : tree[i].up = c})
  BY <1>1, Types, FS_Subset
<1>3. QED
  BY <1>2, FS_CardinalityType DEF Size

\* insert_below adds one to the children of one node, and the new node has none.
LEMMA Inserted ==
  ASSUME GenerateTypeOK, NEW c \in 0 .. Len(tree), NEW a \in NonTerminals \cup {0}, InsertBelow(c, a)
  PROVE  /\ tree' \in Seq(NodeRec) /\ Len(tree') = Len(tree) + 1
         /\ DOMAIN tree' = 1 .. Len(tree) + 1
         /\ \A i \in DOMAIN tree : tree'[i] = tree[i]
         /\ tree'[Len(tree) + 1] = Child(c, a)
         /\ \A i \in DOMAIN tree' : tree'[i].up \in 0 .. i - 1
         /\ \A i \in DOMAIN tree : SizeIn(tree', i) = IF i = c THEN Size(i) + 1 ELSE Size(i)
         /\ SizeIn(tree', Len(tree) + 1) = 0
<1> DEFINE n == Len(tree) + 1
<1>1. n \in Nat /\ Child(c, a) \in NodeRec
  BY Types, Arities DEF Child, NodeRec
<1>2. tree \in Seq(NodeRec) /\ tree' = Append(tree, Child(c, a))
  BY Types DEF InsertBelow
<1>3. /\ tree' \in Seq(NodeRec) /\ Len(tree') = n /\ DOMAIN tree' = 1 .. n
      /\ \A i \in DOMAIN tree : tree'[i] = tree[i]
      /\ tree'[n] = Child(c, a)
  BY <1>1, <1>2, Types
<1>4. \A i \in DOMAIN tree' : tree'[i].up \in 0 .. i - 1
  <2>1. tree'[n].up = c
    BY <1>3 DEF Child
  <2>2. ASSUME NEW i \in DOMAIN tree PROVE tree'[i].up \in 0 .. i - 1
    BY <1>3, Types
  <2>3. c \in 0 .. n - 1 /\ DOMAIN tree' = DOMAIN tree \cup {n}
    BY <1>3, Types
  <2>4. QED
    BY <2>1, <2>2, <2>3
<1>5. ASSUME NEW i \in DOMAIN tree
      PROVE  SizeIn(tree', i) = IF i = c THEN Size(i) + 1 ELSE Size(i)
  <2> DEFINE S == {j \in DOMAIN tree : tree[j].up = i}
  <2>1. {j \in DOMAIN tree' : tree'[j].up = i} = IF i = c THEN S \cup {n} ELSE S
    <3>1. tree'[n].up = c
      BY <1>3 DEF Child
    <3>2. DOMAIN tree' = DOMAIN tree \cup {n}
      BY <1>3, Types
    <3>3. QED
      BY <1>3, <3>1, <3>2
  <2>2. i \in Nat /\ n \notin S
    BY Types
  <2>3. IsFiniteSet(S) /\ Cardinality(S) \in Nat
    BY <2>2, SizeType, FS_CardinalityType
  <2>4. Cardinality(S \cup {n}) = Cardinality(S) + 1
    BY <2>2, <2>3, FS_AddElement
  <2>5. QED
    BY <2>1, <2>4 DEF Size, SizeIn
<1>6. SizeIn(tree', n) = 0
  <2>1. {j \in DOMAIN tree' : tree'[j].up = n} = {}
    BY <1>1, <1>3, <1>4
  <2>2. QED
    <3>1. Cardinality({}) = 0
      BY FS_EmptySet
    <3>2. QED
      BY <2>1, <3>1 DEF SizeIn
<1>7. QED
  BY <1>3, <1>4, <1>5, <1>6

-----------------------------------------------------------------------------
\* Nothing is built and nothing is on the stack.
LEMMA InvInit == GenerateInit => IInv
<1> SUFFICES ASSUME GenerateInit PROVE IInv
  OBVIOUS
<1>1. DOMAIN tree = {} /\ DOMAIN gen_stack = {} /\ Len(gen_stack) = 0
  BY DEF GenerateInit
<1>2. GenerateTypeOK
  BY <1>1 DEF GenerateInit, GenerateTypeOK
<1>3. HeightIsDepth
  BY <1>1 DEF GenerateInit, HeightIsDepth
<1>4. HeightsInLimits /\ AritiesFilled
  BY <1>1 DEF HeightsInLimits, AritiesFilled
<1>5. Chained
  BY <1>1 DEF GenerateInit, Chained
<1>6. QED
  BY <1>2, <1>3, <1>4, <1>5 DEF IInv

\* The root goes onto an empty stack with a counter of one.
LEMMA StartKeeps ==
  ASSUME IInv, NEW min \in Nat, NEW max \in Nat, min <= max, Start(min, max)
  PROVE  IInv'
<1>1. tree = <<>> /\ GenerateTypeOK /\ Len(tree) = 0 /\ DOMAIN tree = {}
  BY DEF Start, IInv
<1>2. PICK a \in NonTerminals : InsertBelow(0, a) /\ gen_stack' = <<Entry(1, a)>>
  BY DEF Start
<1>3. a > 0 /\ a \in Nat
  BY Arities
<1>4. /\ tree' \in Seq(NodeRec) /\ Len(tree') = 1 /\ DOMAIN tree' = {1}
      /\ tree'[1] = [up |-> 0, level |-> 0, arity |-> a]
      /\ \A i \in DOMAIN tree' : tree'[i].up \in 0 .. i - 1
      /\ SizeIn(tree', 1) = 0
  <2>1. 0 \in 0 .. Len(tree) /\ a \in NonTerminals \cup {0}
    BY <1>1
  <2>2. /\ tree' \in Seq(NodeRec) /\ Len(tree') = 0 + 1 /\ DOMAIN tree' = 1 .. 0 + 1
        /\ tree'[0 + 1] = Child(0, a)
        /\ \A i \in DOMAIN tree' : tree'[i].up \in 0 .. i - 1
        /\ SizeIn(tree', 0 + 1) = 0
    BY <1>1, <1>2, <2>1, Inserted
  <2>3. QED
    BY <2>2 DEF Child
<1>5. /\ gen_stack' \in Seq([cursor : {1}, wanted : NonTerminals])
      /\ Len(gen_stack') = 1 /\ DOMAIN gen_stack' = {1}
      /\ gen_stack'[1].cursor = 1 /\ gen_stack'[1].wanted = a
  BY <1>2 DEF Entry
<1>6. height' = 1 /\ min_height' = min /\ max_height' = max
  BY DEF Start
<1>7. GenerateTypeOK'
  BY <1>4, <1>5, <1>6 DEF GenerateTypeOK, NodeRec
<1>8. HeightIsDepth'
  BY <1>4, <1>5, <1>6 DEF HeightIsDepth
<1>9. HeightsInLimits'
  BY <1>3, <1>4, <1>6 DEF HeightsInLimits, AtLeastTwo
<1>10. AritiesFilled'
  BY <1>3, <1>4, <1>5 DEF AritiesFilled, Size, SizeIn
<1>11. Chained'
  BY <1>4, <1>5, <1>6 DEF Chained
<1>12. QED
  BY <1>7, <1>8, <1>9, <1>10, <1>11 DEF IInv

\* A complete node leaves the stack, the counter falls with it.
LEMMA PopKeeps == ASSUME IInv, Pop PROVE IInv'
<1> DEFINE n == Len(gen_stack)
<1>1. /\ GenerateTypeOK /\ tree' = tree /\ min_height' = min_height /\ max_height' = max_height
      /\ height' = height - 1
  BY DEF IInv, Pop
<1>2. n \in Nat \ {0} /\ Top = gen_stack[n] /\ n \in DOMAIN gen_stack
  BY <1>1, Types DEF Pop, Top, Last
<1>3. /\ gen_stack' = [k \in 1 .. n - 1 |-> gen_stack[k]]
      /\ Len(gen_stack') = n - 1 /\ DOMAIN gen_stack' = 1 .. n - 1
      /\ \A k \in 1 .. n - 1 : gen_stack'[k] = gen_stack[k]
      /\ gen_stack' \in Seq([cursor : DOMAIN tree, wanted : NonTerminals])
  <2>1. gen_stack' = SubSeq(gen_stack, 1, n - 1)
    BY DEF Pop, Front
  <2> DEFINE E == [cursor : DOMAIN tree, wanted : NonTerminals]
  <2>2. gen_stack \in Seq(E)
    BY <1>1, Types
  <2> HIDE DEF E
  <2>3. /\ gen_stack' = [k \in 1 .. n - 1 |-> gen_stack[k]]
        /\ Len(gen_stack') = n - 1 /\ DOMAIN gen_stack' = 1 .. n - 1
        /\ \A k \in 1 .. n - 1 : gen_stack'[k] = gen_stack[k]
        /\ gen_stack' \in Seq(E)
    <3>1. gen_stack' = [k \in 1 .. n - 1 |-> gen_stack[k]]
      <4>1. n - 1 >= 0 /\ \A k \in 1 .. n - 1 : k + 1 - 1 = k
        BY <1>2
      <4>2. QED
        BY <1>2, <2>1, <2>2, <4>1
    <3>2. \A k \in 1 .. n - 1 : gen_stack[k] \in E
      BY <1>2, <2>2
    <3>3. n - 1 \in Nat
      BY <1>2
    <3>4. QED
      BY <3>1, <3>2, <3>3
  <2>4. QED
    BY <2>3 DEF E
<1>4. GenerateTypeOK'
  BY <1>1, <1>2, <1>3 DEF GenerateTypeOK, IInv, HeightIsDepth
<1>5. HeightIsDepth'
  BY <1>1, <1>2, <1>3 DEF IInv, HeightIsDepth
<1>6. HeightsInLimits'
  BY <1>1 DEF IInv, HeightsInLimits
<1>7. AritiesFilled'
  <2> SUFFICES ASSUME NEW i \in DOMAIN tree, Size(i) < tree[i].arity
               PROVE  \E k \in DOMAIN gen_stack' : gen_stack'[k].cursor = i
    BY <1>1 DEF IInv, AritiesFilled, Size
  <2>1. PICK k \in DOMAIN gen_stack : gen_stack[k].cursor = i
    BY DEF IInv, AritiesFilled
  <2>2. k # n
    <3>1. SUFFICES ASSUME k = n PROVE FALSE
      OBVIOUS
    <3>2. Size(i) = tree[i].arity
      BY <1>2, <2>1, <3>1 DEF IInv, Chained, Pop
    <3>3. tree[i].arity \in Nat
      BY <1>1, Types, Arities DEF NodeRec
    <3>4. QED
      BY <3>2, <3>3
  <2>3. QED
    BY <1>1, <1>2, <1>3, <2>1, <2>2, Types
<1>8. Chained'
  BY <1>1, <1>2, <1>3, Types DEF IInv, Chained
<1>9. QED
  BY <1>4, <1>5, <1>6, <1>7, <1>8 DEF IInv

\* The new node is one level below the top of the stack, so the counter that was
\* raised for it is its height; it joins the stack exactly if it wants children.
LEMMA InsertKeeps == ASSUME IInv, Insert PROVE IInv'
<1> DEFINE n == Len(gen_stack)
           c == Top.cursor
           m == Len(tree) + 1
<1>1. GenerateTypeOK /\ min_height' = min_height /\ max_height' = max_height /\ height = n
  BY DEF IInv, Insert, HeightIsDepth
<1>2. n \in Nat \ {0} /\ Top = gen_stack[n] /\ n \in DOMAIN gen_stack /\ c \in DOMAIN tree
  BY <1>1, Types DEF Insert, Top, Last
<1>3. PICK a \in Symbols(n + 1) : InsertBelow(c, a) /\ Descend(a)
  BY <1>1 DEF Insert
<1>4. /\ a \in NonTerminals \cup {0} /\ a \in Nat
      /\ a > 0 => (n + 1 < min_height \/ n + 1 < max_height)
      /\ a = 0 => n + 1 >= min_height
      /\ a > 0 => a \in NonTerminals
  BY <1>3, Arities DEF Symbols
<1>5. c \in 0 .. Len(tree) /\ c # 0 /\ m \in Nat
  BY <1>1, <1>2, Types
<1>6. /\ tree' \in Seq(NodeRec) /\ Len(tree') = m
      /\ DOMAIN tree' = 1 .. m /\ DOMAIN tree' = DOMAIN tree \cup {m} /\ m \notin DOMAIN tree
      /\ \A i \in DOMAIN tree : tree'[i] = tree[i]
      /\ tree'[m] = [up |-> c, level |-> tree[c].level + 1, arity |-> a]
      /\ \A i \in DOMAIN tree' : tree'[i].up \in 0 .. i - 1
      /\ \A i \in DOMAIN tree : SizeIn(tree', i) = IF i = c THEN Size(i) + 1 ELSE Size(i)
      /\ SizeIn(tree', m) = 0
  <2>1. /\ tree' \in Seq(NodeRec) /\ Len(tree') = m /\ DOMAIN tree' = 1 .. m
        /\ \A i \in DOMAIN tree : tree'[i] = tree[i]
        /\ tree'[m] = Child(c, a)
        /\ \A i \in DOMAIN tree' : tree'[i].up \in 0 .. i - 1
        /\ \A i \in DOMAIN tree : SizeIn(tree', i) = IF i = c THEN Size(i) + 1 ELSE Size(i)
        /\ SizeIn(tree', m) = 0
    BY <1>1, <1>3, <1>4, <1>5, Inserted
  <2>2. DOMAIN tree' = DOMAIN tree \cup {m} /\ m \notin DOMAIN tree
    BY <1>1, <2>1, Types
  <2>3. QED
    BY <1>5, <2>1, <2>2 DEF Child
<1>7. tree[c].level = n - 1 /\ tree[c].arity = Top.wanted
  BY <1>2 DEF IInv, HeightIsDepth, Chained
<1>8. tree'[m].level = n /\ tree'[m].up = c /\ tree'[m].arity = a
  BY <1>2, <1>6, <1>7
<1>9. /\ IF a > 0 THEN gen_stack' = Append(gen_stack, Entry(m, a)) ELSE gen_stack' = gen_stack
      /\ height' = IF a > 0 THEN n + 1 ELSE n
  BY <1>1, <1>3 DEF Descend
<1>10. /\ gen_stack' \in Seq([cursor : DOMAIN tree', wanted : NonTerminals])
       /\ Len(gen_stack') = height' /\ DOMAIN gen_stack' = 1 .. height'
       /\ \A k \in 1 .. n : gen_stack'[k] = gen_stack[k]
       /\ a > 0 => gen_stack'[n + 1] = Entry(m, a)
  <2>1. gen_stack \in Seq([cursor : DOMAIN tree', wanted : NonTerminals])
    <3> DEFINE E == [cursor : DOMAIN tree, wanted : NonTerminals]
               F == [cursor : DOMAIN tree', wanted : NonTerminals]
    <3>1. E \subseteq F
      BY <1>6
    <3>2. gen_stack \in Seq(E)
      BY <1>1, Types
    <3> HIDE DEF E, F
    <3>3. gen_stack \in Seq(F)
      BY <3>1, <3>2
    <3>4. QED
      BY <3>3 DEF F
  <2>2. CASE a > 0
    <3>1. Entry(m, a) \in [cursor : DOMAIN tree', wanted : NonTerminals]
      BY <1>4, <1>6, <2>2 DEF Entry
    <3>2. QED
      BY <1>2, <1>9, <2>1, <2>2, <3>1
  <2>3. CASE ~ (a > 0)
    BY <1>2, <1>9, <2>1, <2>3
  <2>4. QED
    BY <2>2, <2>3
<1>11. DOMAIN gen_stack = 1 .. n
  BY <1>1, Types
<1>12. GenerateTypeOK'
  BY <1>1, <1>2, <1>6, <1>9, <1>10 DEF GenerateTypeOK, NodeRec
<1>13. HeightIsDepth'
  <2> SUFFICES ASSUME NEW k \in DOMAIN gen_stack'
      PROVE  /\ tree'[gen_stack'[k].cursor].level = k - 1
             /\ tree'[gen_stack'[k].cursor].up = IF k = 1 THEN 0 ELSE gen_stack'[k - 1].cursor
    BY <1>10 DEF HeightIsDepth
  <2>1. CASE k \in 1 .. n
    <3>1. gen_stack'[k] = gen_stack[k] /\ gen_stack[k].cursor \in DOMAIN tree
      BY <1>1, <1>10, <1>11, <2>1, Types
    <3>2. k # 1 => gen_stack'[k - 1] = gen_stack[k - 1]
      BY <1>10, <2>1
    <3>3. QED
      BY <1>6, <1>11, <2>1, <3>1, <3>2 DEF IInv, HeightIsDepth
  <2>2. CASE k \notin 1 .. n
    <3>1. k = n + 1 /\ a > 0
      BY <1>2, <1>9, <1>10, <2>2
    <3>2. gen_stack'[k].cursor = m /\ gen_stack'[k - 1].cursor = c /\ k # 1
      BY <1>2, <1>10, <3>1 DEF Entry
    <3>3. QED
      BY <1>2, <1>8, <3>1, <3>2
  <2>3. QED
    BY <2>1, <2>2
<1>14. min_height \in Nat /\ max_height \in Nat /\ min_height <= max_height
  BY <1>1 DEF GenerateTypeOK, IInv, Chained
<1>15. HeightsInLimits'
  <2> SUFFICES ASSUME NEW i \in DOMAIN tree'
      PROVE  /\ tree'[i].level + 1 <= AtLeastTwo(max_height)
             /\ tree'[i].arity = 0 => tree'[i].level + 1 >= AtLeastTwo(min_height)
    BY <1>1 DEF HeightsInLimits, AtLeastTwo
  <2>1. CASE i \in DOMAIN tree
    BY <1>6, <2>1 DEF IInv, HeightsInLimits
  <2>2. CASE i = m
    <3>1. n + 1 <= AtLeastTwo(max_height)
      <4>1. Top.wanted > 0
        BY <1>1, <1>2, Types, Arities
      <4>2. tree[c].level = 0 \/ tree[c].level + 1 < max_height
        BY <1>2, <1>7, <4>1 DEF IInv, Chained
      <4>3. QED
        BY <1>2, <1>7, <1>14, <4>2 DEF AtLeastTwo
    <3>2. a = 0 => n + 1 >= AtLeastTwo(min_height)
      BY <1>2, <1>4, <1>14 DEF AtLeastTwo
    <3>3. QED
      BY <1>8, <2>2, <3>1, <3>2
  <2>3. QED
    BY <1>6, <2>1, <2>2
<1>16. AritiesFilled'
  <2> SUFFICES ASSUME NEW i \in DOMAIN tree'
      PROVE  /\ SizeIn(tree', i) <= tree'[i].arity
             /\ SizeIn(tree', i) < tree'[i].arity => \E k \in DOMAIN gen_stack' : gen_stack'[k].cursor = i
    BY DEF AritiesFilled, Size, SizeIn
  <2>1. ASSUME i \in DOMAIN tree
        PROVE  /\ tree'[i] = tree[i] /\ Size(i) \in Nat /\ tree[i].arity \in Nat
               /\ Size(i) <= tree[i].arity
               /\ SizeIn(tree', i) = IF i = c THEN Size(i) + 1 ELSE Size(i)
    <3>1. i \in Nat /\ tree[i] \in NodeRec
      BY <1>1, <2>1, Types
    <3>2. Size(i) \in Nat
      BY <1>1, <3>1, SizeType
    <3>3. tree[i].arity \in Nat
      BY <3>1, Arities DEF NodeRec
    <3>4. QED
      BY <1>6, <2>1, <3>2, <3>3 DEF IInv, AritiesFilled
  <2>2. CASE i \in DOMAIN tree /\ i # c
    <3>1. SUFFICES ASSUME Size(i) < tree[i].arity
                   PROVE  \E k \in DOMAIN gen_stack' : gen_stack'[k].cursor = i
      BY <2>1, <2>2
    <3>2. PICK k \in DOMAIN gen_stack : gen_stack[k].cursor = i
      BY <2>2, <3>1 DEF IInv, AritiesFilled
    <3>3. k \in DOMAIN gen_stack' /\ gen_stack'[k] = gen_stack[k]
      BY <1>2, <1>9, <1>10, <1>11
    <3>4. QED
      BY <3>2, <3>3
  <2>3. CASE i = c
    <3>1. Size(c) # tree[c].arity
      BY <1>7 DEF Insert
    <3>2. n \in DOMAIN gen_stack' /\ gen_stack'[n].cursor = c
      BY <1>2, <1>9, <1>10
    <3>3. QED
      BY <1>2, <2>1, <2>3, <3>1, <3>2
  <2>4. CASE i = m
    <3>1. SizeIn(tree', i) = 0 /\ tree'[i].arity = a
      BY <1>6, <1>8, <2>4
    <3>2. SUFFICES ASSUME a > 0 PROVE \E k \in DOMAIN gen_stack' : gen_stack'[k].cursor = i
      BY <1>4, <3>1
    <3>3. n + 1 \in DOMAIN gen_stack' /\ gen_stack'[n + 1].cursor = m
      BY <1>2, <1>9, <1>10, <3>2 DEF Entry
    <3>4. QED
      BY <2>4, <3>3
  <2>5. QED
    BY <1>6, <2>2, <2>3, <2>4
<1>17. Chained'
  <2>1. ASSUME NEW k \in DOMAIN gen_stack'
        PROVE  gen_stack'[k].wanted = tree'[gen_stack'[k].cursor].arity
    <3>1. CASE k \in 1 .. n
      <4>1. gen_stack'[k] = gen_stack[k] /\ gen_stack[k].cursor \in DOMAIN tree
        BY <1>1, <1>10, <1>11, <3>1, Types
      <4>2. QED
        BY <1>6, <1>11, <3>1, <4>1 DEF IInv, Chained
    <3>2. CASE k \notin 1 .. n
      <4>1. k = n + 1 /\ a > 0
        BY <1>2, <1>9, <1>10, <3>2
      <4>2. QED
        BY <1>8, <1>10, <4>1 DEF Entry
    <3>3. QED
      BY <3>1, <3>2
  <2>2. ASSUME NEW i \in DOMAIN tree', tree'[i].arity > 0
        PROVE  tree'[i].level = 0 \/ tree'[i].level + 1 < max_height
    <3>1. CASE i \in DOMAIN tree
      BY <1>6, <2>2, <3>1 DEF IInv, Chained
    <3>2. CASE i = m
      BY <1>2, <1>4, <1>8, <1>14, <2>2, <3>2
    <3>3. QED
      BY <1>6, <3>1, <3>2
  <2>3. QED
    BY <1>1, <1>14, <2>1, <2>2 DEF Chained
<1>18. QED
  BY <1>12, <1>13, <1>15, <1>16, <1>17 DEF IInv

\* One step of the generator, called with limits ramp or a direct user gives it.
LEMMA InvNext == IInv /\ [GenerateNext]_generateVars => IInv'
<1> SUFFICES ASSUME IInv, [GenerateNext]_generateVars PROVE IInv'
  OBVIOUS
<1>1. ASSUME NEW h \in MinHeight .. MaxHeight, Grow(h) \/ Full(h) PROVE IInv'
  <2>1. h \in Nat \ {0} /\ 1 <= h /\ h - 1 <= h /\ h - 1 \in Nat
    BY GenerateAssumption
  <2>2. Start(1, h) \/ Start(h - 1, h)
    BY <1>1 DEF Grow, Full
  <2>3. QED
    BY <2>1, <2>2, StartKeeps
<1>2. ASSUME NEW min \in MinHeight .. MaxHeight, NEW max \in MinHeight .. MaxHeight,
             min <= max, Direct(min, max)
      PROVE  IInv'
  <2>1. min \in Nat /\ max \in Nat
    BY GenerateAssumption
  <2>2. QED
    BY <1>2, <2>1, StartKeeps DEF Direct
<1>3. ASSUME UNCHANGED generateVars PROVE IInv'
  BY <1>3 DEF generateVars, IInv, GenerateTypeOK, HeightIsDepth, HeightsInLimits, AritiesFilled, Chained, Size,
              AtLeastTwo
<1>4. QED
  BY <1>1, <1>2, <1>3, PopKeeps, InsertKeeps DEF GenerateNext

-----------------------------------------------------------------------------
(* Sums                                                                     *)

\* A set of numbers that is not empty has a least one.
LEMMA LeastNumber ==
  ASSUME NEW T, T \subseteq Nat, T # {}
  PROVE  \E m \in T : \A k \in T : m <= k
<1>1. PICK m \in T : \A y \in T : <<y, m>> \notin OpToRel(<, Nat)
  BY NatLessThanWellFounded, WFMin
<1>2. \A k \in T : ~ (k < m)
  BY <1>1 DEF OpToRel
<1>3. QED
  BY <1>2

\* A set of numbers up to n that is not empty has a least one, and none below it.
LEMMA NoneBelow ==
  ASSUME NEW n \in Nat, NEW T, T \subseteq 0 .. n, T # {}
  PROVE  \E m \in T : m = 0 \/ (m \in 1 .. n /\ m - 1 \in 0 .. n /\ m - 1 \notin T)
<1>1. T \subseteq Nat
  OBVIOUS
<1>2. PICK m \in T : \A k \in T : m <= k
  BY <1>1, LeastNumber
<1>3. m \in 0 .. n /\ ~ (m <= m - 1)
  OBVIOUS
<1>4. QED
  BY <1>2, <1>3

\* g holds the sums of the first numbers of s, up to m of them.
Summed(g, s, m) == g = [k \in 0 .. m |-> IF k = 0 THEN 0 ELSE g[k - 1] + s[k]]

\* There are such sums.
LEMMA SumsExist ==
  ASSUME NEW s, NEW n \in Nat
  PROVE  \E g : Summed(g, s, n)
<1> DEFINE T == {m \in 0 .. n : ~ \E g : Summed(g, s, m)}
<1>1. ASSUME T # {} PROVE FALSE
  <2>1. T \subseteq 0 .. n
    OBVIOUS
  <2>2. PICK m \in T : m = 0 \/ (m \in 1 .. n /\ m - 1 \in 0 .. n /\ m - 1 \notin T)
    <3> HIDE DEF T
    <3>1. QED
      BY <1>1, <2>1, NoneBelow
  <2>3. ~ \E g : Summed(g, s, m)
    OBVIOUS
  <2>4. CASE m = 0
    <3> DEFINE g == [k \in 0 .. 0 |-> 0]
    <3>1. Summed(g, s, 0)
      BY DEF Summed
    <3>2. QED
      BY <2>3, <2>4, <3>1
  <2>5. CASE m \in 1 .. n /\ m - 1 \in 0 .. n /\ m - 1 \notin T
    <3>1. PICK g : Summed(g, s, m - 1)
      BY <2>5
    <3> DEFINE h == [k \in 0 .. m |-> IF k = m THEN g[m - 1] + s[m] ELSE g[k]]
    <3>2. /\ \A k \in 0 .. m - 1 : g[k] = IF k = 0 THEN 0 ELSE g[k - 1] + s[k]
      BY <3>1 DEF Summed
    <3>3. \A k \in 0 .. m : h[k] = IF k = 0 THEN 0 ELSE h[k - 1] + s[k]
      <4>1. ASSUME NEW k \in 0 .. m - 1 PROVE h[k] = IF k = 0 THEN 0 ELSE h[k - 1] + s[k]
        <5>1. h[k] = g[k] /\ (k # 0 => h[k - 1] = g[k - 1])
          BY <2>5
        <5>2. QED
          BY <3>2, <5>1
      <4>2. h[m] = h[m - 1] + s[m] /\ m # 0
        BY <2>5
      <4>3. \A k \in 0 .. m : k \in 0 .. m - 1 \/ k = m
        BY <2>5
      <4> HIDE DEF h
      <4>4. QED
        BY <4>1, <4>2, <4>3
    <3>4. h = [k \in 0 .. m |-> h[k]]
      OBVIOUS
    <3> HIDE DEF h
    <3>5. Summed(h, s, m)
      BY <3>3, <3>4 DEF Summed
    <3>6. QED
      BY <2>3, <3>5
  <2>6. QED
    BY <2>2, <2>4, <2>5
<1>2. n \in 0 .. n /\ n \notin T
  BY <1>1
<1>3. QED
  BY <1>2

\* The recursive function is what it says.
LEMMA SumsAre ==
  ASSUME NEW s, Len(s) \in Nat
  PROVE  \A k \in 0 .. Len(s) : Sums(s)[k] = IF k = 0 THEN 0 ELSE Sums(s)[k - 1] + s[k]
<1>1. \E g : Summed(g, s, Len(s))
  BY SumsExist
<1>2. Summed(Sums(s), s, Len(s))
  BY <1>1 DEF Sums, Summed
<1> DEFINE f == Sums(s)
<1>3. f = [k \in 0 .. Len(s) |-> IF k = 0 THEN 0 ELSE f[k - 1] + s[k]]
  BY <1>2 DEF Summed
<1> HIDE DEF f
<1>4. \A k \in 0 .. Len(s) : f[k] = IF k = 0 THEN 0 ELSE f[k - 1] + s[k]
  BY <1>3
<1>5. QED
  BY <1>4 DEF f

\* Sums of numbers are numbers.
LEMMA SumsType ==
  ASSUME NEW s, Len(s) \in Nat, \A k \in 1 .. Len(s) : s[k] \in Nat
  PROVE  \A k \in 0 .. Len(s) : Sums(s)[k] \in Nat
<1> DEFINE n == Len(s)
           f == Sums(s)
           T == {m \in 0 .. n : f[m] \notin Nat}
<1>1. \A k \in 0 .. n : f[k] = IF k = 0 THEN 0 ELSE f[k - 1] + s[k]
  BY SumsAre
<1>2. n \in Nat /\ \A k \in 1 .. n : s[k] \in Nat
  OBVIOUS
<1> HIDE DEF n, f
<1>3. ASSUME T # {} PROVE FALSE
  <2>1. PICK m \in T : m = 0 \/ (m \in 1 .. n /\ m - 1 \in 0 .. n /\ m - 1 \notin T)
    <3>1. T \subseteq 0 .. n
      OBVIOUS
    <3> HIDE DEF T
    <3>2. QED
      BY <1>2, <1>3, <3>1, NoneBelow
  <2>2. QED
    BY <1>1, <1>2, <2>1
<1>4. QED
  BY <1>3 DEF n, f

\* Sequences that begin alike have the same sums so far.
LEMMA SumsAgree ==
  ASSUME NEW s, Len(s) \in Nat, NEW r, Len(r) \in Nat, NEW n \in Nat,
         n <= Len(s), n <= Len(r), \A k \in 1 .. n : s[k] = r[k]
  PROVE  Sums(s)[n] = Sums(r)[n]
<1> DEFINE f == Sums(s)
           g == Sums(r)
           T == {m \in 0 .. n : f[m] # g[m]}
<1>1. /\ \A k \in 0 .. n : f[k] = IF k = 0 THEN 0 ELSE f[k - 1] + s[k]
      /\ \A k \in 0 .. n : g[k] = IF k = 0 THEN 0 ELSE g[k - 1] + r[k]
  <2>1. \A k \in 0 .. n : k \in 0 .. Len(s) /\ k \in 0 .. Len(r)
    OBVIOUS
  <2>2. QED
    BY <2>1, SumsAre
<1> HIDE DEF f, g
<1>2. ASSUME T # {} PROVE FALSE
  <2>1. PICK m \in T : m = 0 \/ (m \in 1 .. n /\ m - 1 \in 0 .. n /\ m - 1 \notin T)
    <3>1. T \subseteq 0 .. n
      OBVIOUS
    <3> HIDE DEF T
    <3>2. QED
      BY <1>2, <3>1, NoneBelow
  <2>2. QED
    BY <1>1, <2>1
<1>3. f[n] = g[n]
  BY <1>2
<1>4. QED
  BY <1>3 DEF f, g

-----------------------------------------------------------------------------
(* The polish word                                                          *)

\* No entry of the stack has more children than it wants.
NoneExceeded ==
  /\ Len(Missing) = Len(gen_stack) /\ Len(gen_stack) \in Nat
  /\ DOMAIN gen_stack = 1 .. Len(gen_stack)
  /\ \A k \in 1 .. Len(gen_stack) :
       /\ Missing[k] = gen_stack[k].wanted - SizeIn(tree, gen_stack[k].cursor)
       /\ Missing[k] \in Nat

LEMMA MissingType == IInv => NoneExceeded
<1> SUFFICES ASSUME IInv PROVE NoneExceeded
  OBVIOUS
<1>1. /\ Len(gen_stack) \in Nat /\ DOMAIN gen_stack = 1 .. Len(gen_stack)
      /\ \A k \in DOMAIN gen_stack : gen_stack[k].cursor \in DOMAIN tree
      /\ DOMAIN tree = 1 .. Len(tree)
      /\ \A i \in DOMAIN tree : tree[i] \in NodeRec
  BY Types DEF IInv
<1>2. ASSUME NEW k \in 1 .. Len(gen_stack)
      PROVE  gen_stack[k].wanted - Size(gen_stack[k].cursor) \in Nat
  <2> DEFINE i == gen_stack[k].cursor
  <2>1. i \in DOMAIN tree /\ i \in Nat /\ gen_stack[k].wanted = tree[i].arity
    BY <1>1 DEF IInv, Chained
  <2>2. tree[i].arity \in Nat
    BY <1>1, <2>1, Arities DEF NodeRec
  <2>3. Size(i) \in Nat /\ Size(i) <= tree[i].arity
    BY <2>1, SizeType DEF IInv, AritiesFilled
  <2>4. QED
    BY <2>1, <2>2, <2>3
<1>3. QED
  BY <1>1, <1>2 DEF Missing, NoneExceeded, Size, SizeIn

\* The same after a step.
LEMMA MissingTypeNext == IInv' => NoneExceeded'
  BY MissingType, PTL

\* The nodes on the stack are those of a path, so no two are the same.
LEMMA StackDistinct ==
  ASSUME IInv, NEW j \in DOMAIN gen_stack, NEW k \in DOMAIN gen_stack,
         gen_stack[j].cursor = gen_stack[k].cursor
  PROVE  j = k
<1>1. tree[gen_stack[j].cursor].level = j - 1 /\ tree[gen_stack[k].cursor].level = k - 1
  BY DEF IInv, HeightIsDepth
<1>2. j \in Nat /\ k \in Nat
  BY Types DEF IInv
<1>3. QED
  BY <1>1, <1>2

\* The root with its arity is the first letter.
LEMMA StartWrites ==
  ASSUME IInv, IInv', NEW min \in Nat, NEW max \in Nat, Start(min, max)
  PROVE  Word!Next
<1>1. tree = <<>> /\ Len(tree) = 0 /\ GenerateTypeOK
  BY DEF Start, IInv
<1>2. PICK a \in NonTerminals : InsertBelow(0, a) /\ gen_stack' = <<Entry(1, a)>>
  BY DEF Start
<1>3. a \in Nat
  BY Arities
<1>4. DOMAIN tree' = {1} /\ tree'[1].arity = a /\ SizeIn(tree', 1) = 0
  <2>1. 0 \in 0 .. Len(tree) /\ a \in NonTerminals \cup {0}
    BY <1>1
  <2>2. /\ DOMAIN tree' = 1 .. 0 + 1 /\ tree'[0 + 1] = Child(0, a)
        /\ SizeIn(tree', 0 + 1) = 0
    BY <1>1, <1>2, <2>1, Inserted
  <2>3. QED
    BY <2>2 DEF Child
<1>5. Len(gen_stack') = 1 /\ gen_stack'[1].wanted = a /\ gen_stack'[1].cursor = 1
  BY <1>2 DEF Entry
<1>6. Owed' = a
  <2>1. /\ Len(Missing') = 1
        /\ Missing'[1] = gen_stack'[1].wanted - SizeIn(tree', gen_stack'[1].cursor)
    BY <1>5, MissingTypeNext DEF NoneExceeded
  <2>2. SizeIn(tree', gen_stack'[1].cursor) = 0
    BY <1>4, <1>5
  <2> DEFINE m == Missing'
  <2>3. Len(m) = 1 /\ m[1] = a
    BY <1>3, <1>5, <2>1, <2>2
  <2> HIDE DEF m
  <2>4. Sums(m)[0] = 0 /\ Sums(m)[1] = Sums(m)[0] + m[1]
    BY <2>3, SumsAre
  <2>5. QED
    BY <1>3, <1>5, <2>3, <2>4 DEF Owed, m
<1>7. tree' # <<>>
  BY <1>4
<1> DEFINE word == [i \in DOMAIN tree |-> tree[i].arity]
<1>8. word = <<>> /\ word' = Append(word, a)
  <2>1. word = <<>>
    BY <1>1
  <2>2. word' = [i \in {1} |-> a]
    BY <1>4
  <2>3. [i \in {1} |-> a] = <<a>>
    OBVIOUS
  <2>4. Append(<<>>, a) = <<a>>
    OBVIOUS
  <2>5. QED
    BY <2>1, <2>2, <2>3, <2>4
<1>9. Word!Write(a)
  BY <1>1, <1>3, <1>6, <1>7, <1>8 DEF Word!Write
<1>10. QED
  BY <1>9 DEF Word!Next

\* A complete node owes nothing, so the word and what is owed stay.
LEMMA PopWritesNothing ==
  ASSUME IInv, IInv', Pop
  PROVE  UNCHANGED Word!vars
<1> DEFINE n == Len(gen_stack)
           s == Missing
           r == Missing'
<1>1. /\ n \in Nat /\ DOMAIN gen_stack = 1 .. n /\ Len(s) = n
      /\ \A k \in 1 .. n : s[k] = gen_stack[k].wanted - Size(gen_stack[k].cursor) /\ s[k] \in Nat
  BY MissingType DEF NoneExceeded, Size, SizeIn
<1>2. n # 0 /\ Top = gen_stack[n] /\ tree' = tree /\ gen_stack' = Front(gen_stack)
  <2>1. gen_stack # <<>>
    BY DEF Pop
  <2>2. gen_stack \in Seq([cursor : DOMAIN tree, wanted : NonTerminals])
    BY Types DEF IInv
  <2>3. n # 0
    BY <2>1, <2>2, EmptySeq
  <2>4. QED
    BY <2>3 DEF Pop, Top, Last
<1>3. Len(gen_stack') = n - 1 /\ \A k \in 1 .. n - 1 : gen_stack'[k] = gen_stack[k]
  <2> DEFINE E == [cursor : DOMAIN tree, wanted : NonTerminals]
  <2>1. gen_stack \in Seq(E) /\ gen_stack' = SubSeq(gen_stack, 1, n - 1)
    BY <1>2, Types DEF IInv, Front
  <2> HIDE DEF E
  <2>2. \A k \in 1 .. n - 1 : gen_stack[k] \in E
    BY <1>1, <2>1, ElementOfSeq
  <2>3. /\ Len(gen_stack') = (n - 1) - 1 + 1
        /\ \A k \in 1 .. (n - 1) - 1 + 1 : gen_stack'[k] = gen_stack[1 + k - 1]
    BY <1>1, <1>2, <2>1, <2>2, SubSeqProperties
  <2>4. (n - 1) - 1 + 1 = n - 1 /\ \A k \in 1 .. n - 1 : 1 + k - 1 = k
    BY <1>1
  <2>5. QED
    BY <2>3, <2>4
<1>4. /\ Len(r) = n - 1
      /\ \A k \in 1 .. n - 1 : r[k] = gen_stack'[k].wanted - SizeIn(tree', gen_stack'[k].cursor)
  BY <1>3, MissingTypeNext DEF NoneExceeded
<1>5. ASSUME NEW k \in 1 .. n - 1 PROVE r[k] = s[k]
  <2>1. k \in 1 .. n
    BY <1>1
  <2>2. s[k] = gen_stack[k].wanted - SizeIn(tree, gen_stack[k].cursor)
    BY <1>1, <2>1 DEF Size, SizeIn
  <2>3. r[k] = gen_stack[k].wanted - SizeIn(tree, gen_stack[k].cursor)
    BY <1>2, <1>3, <1>4
  <2>4. QED
    BY <2>2, <2>3
<1>6. s[n] = 0
  <2>1. Size(gen_stack[n].cursor) = gen_stack[n].wanted
    BY <1>2 DEF Pop
  <2>2. gen_stack[n].wanted \in Nat
    BY <1>1, <1>2, Types, Arities DEF IInv
  <2>3. QED
    BY <1>1, <1>2, <2>1, <2>2
<1> HIDE DEF s, r, n
<1>7. Sums(s)[n] = Sums(s)[n - 1] + s[n]
  BY <1>1, <1>2, SumsAre
<1>8. Sums(s)[n - 1] \in Nat
  BY <1>1, <1>2, SumsType
<1>9. Sums(s)[n - 1] = Sums(r)[n - 1]
  <2>1. n - 1 \in Nat /\ n - 1 <= Len(s) /\ n - 1 <= Len(r)
    BY <1>1, <1>2, <1>4
  <2>2. Len(s) \in Nat /\ Len(r) \in Nat
    BY <1>1, <1>4, <2>1
  <2>3. QED
    BY <1>5, <2>1, <2>2, SumsAgree
<1>10. Owed' = Owed
  BY <1>3, <1>6, <1>7, <1>8, <1>9 DEF Owed, n, s, r
<1>11. QED
  BY <1>2, <1>10 DEF Word!vars

\* A node that is inserted pays one child of the top and owes its own.
LEMMA InsertWrites ==
  ASSUME IInv, IInv', Insert
  PROVE  Word!Next
<1> DEFINE n == Len(gen_stack)
           m == Len(tree) + 1
           c == Top.cursor
           s == Missing
           r == Missing'
<1>1. /\ n \in Nat /\ DOMAIN gen_stack = 1 .. n /\ Len(s) = n
      /\ \A k \in 1 .. n : s[k] = gen_stack[k].wanted - Size(gen_stack[k].cursor) /\ s[k] \in Nat
  BY MissingType DEF NoneExceeded, Size, SizeIn
<1>2. n # 0 /\ Top = gen_stack[n] /\ n \in DOMAIN gen_stack
  <2>1. gen_stack # <<>>
    BY DEF Insert
  <2>2. gen_stack \in Seq([cursor : DOMAIN tree, wanted : NonTerminals])
    BY Types DEF IInv
  <2>3. n # 0
    BY <2>1, <2>2, EmptySeq
  <2>4. QED
    BY <1>1, <2>3 DEF Top, Last
<1>3. PICK a \in Symbols(height + 1) : InsertBelow(c, a) /\ Descend(a)
  BY DEF Insert
<1>4. a \in NonTerminals \cup {0} /\ a \in Nat
  BY <1>3, Arities DEF Symbols
<1>5. /\ tree \in Seq(NodeRec) /\ Len(tree) \in Nat /\ DOMAIN tree = 1 .. Len(tree)
      /\ \A k \in DOMAIN gen_stack : gen_stack[k].cursor \in DOMAIN tree
      /\ c \in DOMAIN tree /\ c \in 0 .. Len(tree) /\ Size(c) \in Nat
  <2>1. /\ tree \in Seq(NodeRec) /\ Len(tree) \in Nat /\ DOMAIN tree = 1 .. Len(tree)
        /\ \A k \in DOMAIN gen_stack : gen_stack[k].cursor \in DOMAIN tree
    BY Types DEF IInv
  <2>2. c \in DOMAIN tree /\ c \in 0 .. Len(tree) /\ c \in Nat
    BY <1>2, <2>1
  <2>3. QED
    BY <2>1, <2>2, SizeType DEF IInv
<1>6. /\ DOMAIN tree' = 1 .. m
      /\ \A i \in DOMAIN tree : tree'[i] = tree[i]
      /\ tree'[m].arity = a
      /\ \A i \in DOMAIN tree : SizeIn(tree', i) = IF i = c THEN Size(i) + 1 ELSE Size(i)
      /\ SizeIn(tree', m) = 0
  <2>1. /\ DOMAIN tree' = 1 .. m
        /\ \A i \in DOMAIN tree : tree'[i] = tree[i]
        /\ tree'[m] = Child(c, a)
        /\ \A i \in DOMAIN tree : SizeIn(tree', i) = IF i = c THEN Size(i) + 1 ELSE Size(i)
        /\ SizeIn(tree', m) = 0
    BY <1>3, <1>4, <1>5, Inserted DEF IInv
  <2>2. QED
    BY <2>1 DEF Child
<1>7. /\ \A k \in 1 .. n : gen_stack'[k] = gen_stack[k]
      /\ Len(gen_stack') = IF a > 0 THEN n + 1 ELSE n
      /\ a > 0 => gen_stack'[n + 1].cursor = m /\ gen_stack'[n + 1].wanted = a
  <2>1. gen_stack \in Seq([cursor : DOMAIN tree, wanted : NonTerminals])
    BY Types DEF IInv
  <2>2. gen_stack' = IF a > 0 THEN Append(gen_stack, Entry(m, a)) ELSE gen_stack
    BY <1>3 DEF Descend
  <2> DEFINE e == Entry(m, a)
  <2>3. e.cursor = m /\ e.wanted = a
    BY DEF Entry
  <2> HIDE DEF e, m
  <2>4. QED
    BY <2>1, <2>2, <2>3, <1>1 DEF e
<1>8. /\ Len(r) = Len(gen_stack')
      /\ \A k \in 1 .. Len(gen_stack') :
           r[k] = gen_stack'[k].wanted - SizeIn(tree', gen_stack'[k].cursor)
  BY MissingTypeNext DEF NoneExceeded
<1>9. \A k \in 1 .. n - 1 : r[k] = s[k]
  <2> SUFFICES ASSUME NEW k \in 1 .. n - 1 PROVE r[k] = s[k]
    OBVIOUS
  <2>1. k \in 1 .. n /\ k \in DOMAIN gen_stack /\ k \in 1 .. Len(gen_stack') /\ k # n
    BY <1>1, <1>7
  <2>2. gen_stack[k].cursor # c
    BY <1>2, <2>1, StackDistinct
  <2>3. SizeIn(tree', gen_stack[k].cursor) = Size(gen_stack[k].cursor)
    BY <1>5, <1>6, <2>1, <2>2
  <2>4. gen_stack'[k] = gen_stack[k]
    BY <1>7, <2>1
  <2>5. QED
    BY <1>1, <1>8, <2>1, <2>3, <2>4
<1>10. r[n] = s[n] - 1 /\ s[n] > 0
  <2>1. n \in 1 .. n /\ n \in 1 .. Len(gen_stack') /\ gen_stack'[n] = gen_stack[n]
    BY <1>1, <1>2, <1>7
  <2>2. SizeIn(tree', c) = Size(c) + 1
    BY <1>5, <1>6
  <2>3. r[n] = gen_stack[n].wanted - (Size(c) + 1) /\ s[n] = gen_stack[n].wanted - Size(c)
    BY <1>1, <1>2, <1>8, <2>1, <2>2
  <2>4. gen_stack[n].wanted \in Nat
    BY <1>2, Types, Arities DEF IInv
  <2>5. gen_stack[n].wanted # Size(c)
    BY <1>2 DEF Insert
  <2>6. s[n] \in Nat
    BY <1>1, <2>1
  <2>7. QED
    BY <1>5, <2>3, <2>4, <2>5, <2>6
<1>11. a > 0 => r[n + 1] = a
  <2> SUFFICES ASSUME a > 0 PROVE r[n + 1] = a
    OBVIOUS
  <2>1. n + 1 \in 1 .. Len(gen_stack')
    BY <1>1, <1>7
  <2>2. r[n + 1] = a - 0
    BY <1>6, <1>7, <1>8, <2>1
  <2>3. QED
    BY <1>4, <2>2
<1> HIDE DEF s, r, n, m, c
<1>12. Sums(s)[n] = Sums(s)[n - 1] + s[n] /\ Sums(s)[n - 1] \in Nat /\ s[n] \in Nat
  BY <1>1, <1>2, SumsAre, SumsType
<1>13. /\ Len(r) = IF a > 0 THEN n + 1 ELSE n
       /\ Len(r) \in Nat
  BY <1>1, <1>4, <1>7, <1>8
<1>14. Sums(r)[n - 1] = Sums(s)[n - 1]
  <2>1. n - 1 \in Nat /\ n - 1 <= Len(s) /\ n - 1 <= Len(r)
    BY <1>1, <1>2, <1>13
  <2>2. QED
    BY <1>1, <1>9, <1>13, <2>1, SumsAgree
<1>15. Sums(r)[n] = Sums(s)[n] - 1
  <2>1. n \in 0 .. Len(r)
    BY <1>1, <1>13
  <2>2. Sums(r)[n] = Sums(r)[n - 1] + r[n]
    BY <1>2, <1>13, <2>1, SumsAre
  <2>3. QED
    BY <1>10, <1>12, <1>14, <2>2
<1>16. Sums(r)[Len(r)] = Sums(s)[n] - 1 + a
  <2>1. CASE a = 0
    BY <1>12, <1>13, <1>15, <2>1
  <2>2. CASE a > 0
    <3>1. Len(r) = n + 1 /\ n + 1 \in 0 .. Len(r) /\ n + 1 # 0
      BY <1>1, <1>13, <2>2
    <3>2. Sums(r)[n + 1] = Sums(r)[(n + 1) - 1] + r[n + 1]
      BY <1>13, <3>1, SumsAre
    <3>3. (n + 1) - 1 = n
      BY <1>1
    <3>4. QED
      BY <1>4, <1>11, <1>12, <1>15, <2>2, <3>1, <3>2, <3>3
  <2>3. QED
    BY <1>4, <2>1, <2>2
<1>17. Owed > 0 /\ Owed' = Owed - 1 + a
  <2>1. Owed = Sums(s)[n]
    BY DEF Owed, s, n
  <2>2. Owed' = Sums(r)[Len(r)]
    BY <1>8 DEF Owed, r
  <2>3. QED
    BY <1>10, <1>12, <1>16, <2>1, <2>2
<1>18. tree # <<>> /\ tree' # <<>>
  BY <1>5, <1>6 DEF m
<1> DEFINE word == [i \in DOMAIN tree |-> tree[i].arity]
<1>19. word' = Append(word, a)
  <2>1. word \in Seq(Nat) /\ Len(word) = Len(tree)
    <3>1. \A i \in DOMAIN tree : tree[i].arity \in Nat
      BY <1>5, Types, Arities DEF IInv, NodeRec
    <3>2. QED
      BY <1>5, <3>1
  <2>2. DOMAIN word' = 1 .. m /\ word'[m] = a /\ \A i \in DOMAIN tree : word'[i] = word[i]
    BY <1>5, <1>6 DEF m
  <2>3. word' = [i \in 1 .. m |-> word'[i]]
    BY <2>2
  <2>4. m = Len(tree) + 1
    BY DEF m
  <2> DEFINE w == word
             v == word'
  <2>5. /\ w \in Seq(Nat) /\ Len(w) = Len(tree) /\ Len(tree) \in Nat
        /\ v = [i \in 1 .. Len(w) + 1 |-> v[i]] /\ v[Len(w) + 1] = a
        /\ \A i \in 1 .. Len(w) : v[i] = w[i]
    BY <1>5, <2>1, <2>2, <2>3, <2>4
  <2> HIDE DEF w, v
  <2>6. v \in Seq(Nat) /\ Len(v) = Len(w) + 1
    <3>1. \A i \in 1 .. Len(w) : w[i] \in Nat
      BY <2>5, ElementOfSeq
    <3>2. \A i \in 1 .. Len(w) + 1 : i \in 1 .. Len(w) \/ i = Len(w) + 1
      BY <2>5
    <3>3. \A i \in 1 .. Len(w) + 1 : v[i] \in Nat
      BY <1>4, <2>5, <3>1, <3>2
    <3>4. QED
      BY <2>5, <3>3
  <2>7. /\ Append(w, a) \in Seq(Nat) /\ Len(Append(w, a)) = Len(w) + 1
        /\ \A i \in 1 .. Len(w) : Append(w, a)[i] = w[i]
        /\ Append(w, a)[Len(w) + 1] = a
    BY <1>4, <2>5, AppendProperties
  <2>8. v = Append(w, a)
    <3>1. \A i \in 1 .. Len(v) : i \in 1 .. Len(w) \/ i = Len(w) + 1
      BY <2>5, <2>6
    <3>2. \A i \in 1 .. Len(v) : v[i] = Append(w, a)[i]
      BY <2>5, <2>7, <3>1
    <3>3. QED
      BY <2>6, <2>7, <3>2, SeqEqual
  <2>9. QED
    BY <2>8 DEF w, v
<1>20. Word!Write(a)
  BY <1>17, <1>18, <1>19 DEF Word!Write
<1>21. QED
  BY <1>4, <1>20 DEF Word!Next

\* Every step writes a letter or nothing.
LEMMA StepWrites == IInv /\ IInv' /\ [GenerateNext]_generateVars => [Word!Next]_(Word!vars)
<1> SUFFICES ASSUME IInv, IInv', [GenerateNext]_generateVars PROVE Word!Next \/ UNCHANGED Word!vars
  OBVIOUS
<1>1. ASSUME NEW h \in MinHeight .. MaxHeight, Grow(h) \/ Full(h) PROVE Word!Next
  <2>1. h \in Nat /\ 1 \in Nat /\ h - 1 \in Nat
    BY GenerateAssumption
  <2>2. QED
    BY <1>1, <2>1, StartWrites DEF Grow, Full
<1>2. ASSUME NEW min \in MinHeight .. MaxHeight, NEW max \in MinHeight .. MaxHeight,
             Direct(min, max)
      PROVE  Word!Next
  <2>1. min \in Nat /\ max \in Nat
    BY GenerateAssumption
  <2>2. QED
    BY <1>2, <2>1, StartWrites DEF Direct
<1>3. ASSUME UNCHANGED generateVars PROVE UNCHANGED Word!vars
  BY <1>3 DEF generateVars, Word!vars, Owed, Missing, Size
<1>4. QED
  BY <1>1, <1>2, <1>3, PopWritesNothing, InsertWrites DEF GenerateNext

-----------------------------------------------------------------------------
(* Theorems                                                                 *)

\* The loop never takes the height counter below zero and never puts a terminal
\* on the stack.
THEOREM TypeCorrect == GenerateSpec => []GenerateTypeOK
<1>1. IInv => GenerateTypeOK
  BY DEF IInv
<1>2. QED
  BY InvInit, InvNext, <1>1, PTL DEF GenerateSpec

\* The counter kept beside the stack is the height of the node under construction.
THEOREM HeightCounted == GenerateSpec => []HeightIsDepth
<1>1. IInv => HeightIsDepth
  BY DEF IInv
<1>2. QED
  BY InvInit, InvNext, <1>1, PTL DEF GenerateSpec

\* The limits of the strategy hold for every node, at least two levels counted.
THEOREM LimitsKept == GenerateSpec => []HeightsInLimits
<1>1. IInv => HeightsInLimits
  BY DEF IInv
<1>2. QED
  BY InvInit, InvNext, <1>1, PTL DEF GenerateSpec

\* When the stack is empty every node has the children its symbol takes.
THEOREM ArityFilled == GenerateSpec => []AritiesFilled
<1>1. IInv => AritiesFilled
  BY DEF IInv
<1>2. QED
  BY InvInit, InvNext, <1>1, PTL DEF GenerateSpec
\* basic_generate_strategy writes a polish word: the nodes come in the order of one, and the
\* stack owes as many subtrees as the word has open.
THEOREM Refinement == GenerateSpec => ImplementsPolishWord
<1>1. GenerateInit => Word!Init
  BY DEF GenerateInit, Word!Init
<1>2. QED
  BY <1>1, InvInit, InvNext, StepWrites, PTL DEF GenerateSpec, ImplementsPolishWord, Word!Spec
=============================================================================
