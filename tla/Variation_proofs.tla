--------------------------- MODULE Variation_proofs ---------------------------
(***************************************************************************)
(* Theorems about VariationOperators: the trees stay trees, none grows      *)
(* beyond the limit of the height, and a crossover keeps all nodes.         *)
(***************************************************************************)
EXTENDS VariationOperators, PathTree_proofs

-----------------------------------------------------------------------------
(* Trees                                                                    *)

\* IsTree in the terms the proofs use: the children one by one.
ChildrenMatch(t) == \A p \in DOMAIN t : Branches(t, p, Arity[t[p]])

Grown(t) ==
  /\ Rooted(t) /\ IsFiniteSet(DOMAIN t)
  /\ \A p \in DOMAIN t : t[p] \in Symbol
  /\ ChildrenMatch(t)

\* Each symbol takes a number of children.
LEMMA ArityNat == \A s \in Symbol : Arity[s] \in Nat
  BY VariationAssumption

\* The two descriptions of a tree agree.
LEMMA TreesGrown ==
  ASSUME NEW t, IsTree(t)
  PROVE  Grown(t)
<1>1. DOMAIN t \subseteq Path /\ \A p \in DOMAIN t : t[p] \in Symbol /\ Arity[t[p]] \in Nat
  BY ArityNat DEF IsTree, Path
<1>2. IsFiniteSet(DOMAIN t)
  BY DEF IsTree
<1>3. ChildrenMatch(t)
  BY <1>1, ChildrenOneByOne DEF IsTree, WellFormed, ChildrenMatch
<1>4. PrefixClosed(t)
  BY <1>1, FrontOfPath DEF IsTree, WellFormed, PrefixClosed
<1>5. QED
  BY <1>1, <1>2, <1>3, <1>4 DEF IsTree, WellFormed, Grown, Rooted

\* And back.
LEMMA GrownWellFormed ==
  ASSUME NEW t, Grown(t)
  PROVE  WellFormed(t)
<1>1. DOMAIN t \subseteq Path /\ \A p \in DOMAIN t : t[p] \in Symbol /\ Arity[t[p]] \in Nat
  BY ArityNat DEF Grown, Rooted
<1>2. \A p \in DOMAIN t : Children(t, p) = {Append(p, k) : k \in 1 .. Arity[t[p]]}
  BY <1>1, ChildrenOneByOne DEF Grown, ChildrenMatch
<1>3. ASSUME NEW p \in DOMAIN t, p # <<>> PROVE Front(p) \in DOMAIN t
  <2>1. PICK k \in Nat : Front(p) \in Path /\ p = Append(Front(p), k)
    BY <1>1, <1>3, PathEmptyOrAppend
  <2>2. QED
    BY <1>3, <2>1 DEF Grown, Rooted, PrefixClosed
<1>4. QED
  BY <1>2, <1>3 DEF Grown, Rooted, WellFormed

-----------------------------------------------------------------------------
(* Cutting and grafting                                                     *)

\* What is below a node of a tree is a tree.
LEMMA SubtreeGrown ==
  ASSUME NEW t, Grown(t), NEW p \in DOMAIN t
  PROVE  Grown(Subtree(t, p))
<1> DEFINE s == Subtree(t, p)
<1>1. DOMAIN t \subseteq Path /\ p \in Path
  BY DEF Grown, Rooted
<1>2. /\ \A r \in Path : r \in DOMAIN s <=> p \o r \in DOMAIN t
      /\ \A r \in DOMAIN s : s[r] = t[p \o r]
  BY <1>1, SubtreeNodes
<1>3. /\ Rooted(s)
      /\ \A r \in Path, n \in Nat : Branches(s, r, n) <=> Branches(t, p \o r, n)
  BY SubtreeRooted DEF Grown
<1>4. DOMAIN s = {From(p, q) : q \in Below(t, p)}
  BY DEF Subtree
<1> HIDE DEF s
<1>5. IsFiniteSet(DOMAIN s)
  <2> DEFINE f == [q \in Below(t, p) |-> From(p, q)]
  <2>1. IsFiniteSet(Below(t, p))
    BY FS_Subset DEF Grown, Below
  <2>2. DOMAIN f = Below(t, p) /\ DOMAIN s = {f[q] : q \in DOMAIN f}
    BY <1>4
  <2> HIDE DEF f
  <2>3. QED
    BY <2>1, <2>2, FiniteImage
<1>6. ASSUME NEW r \in DOMAIN s PROVE s[r] \in Symbol /\ Branches(s, r, Arity[s[r]])
  <2>1. r \in Path /\ p \o r \in DOMAIN t /\ s[r] = t[p \o r]
    BY <1>2, <1>3 DEF Rooted
  <2>2. s[r] \in Symbol /\ Branches(t, p \o r, Arity[s[r]])
    BY <2>1 DEF Grown, ChildrenMatch
  <2>3. Arity[s[r]] \in Nat
    BY <2>2, ArityNat
  <2>4. QED
    BY <1>3, <2>1, <2>2, <2>3
<1>7. Grown(s)
  BY <1>3, <1>5, <1>6 DEF Grown, ChildrenMatch
<1>8. QED
  BY <1>7 DEF s

\* A tree with a tree in the place of what is below a node is a tree.
LEMMA PutGrown ==
  ASSUME NEW t, Grown(t), NEW p \in DOMAIN t, NEW s, Grown(s)
  PROVE  Grown(Put(t, p, s))
<1> DEFINE u == Put(t, p, s)
<1>1. DOMAIN t \subseteq Path /\ p \in Path /\ DOMAIN s \subseteq Path
  BY DEF Grown, Rooted
<1>2. /\ \A q \in Path : ~ IsPrefix(p, q) => (q \in DOMAIN u <=> q \in DOMAIN t)
      /\ \A q \in Path : ~ IsPrefix(p, q) /\ q \in DOMAIN t => u[q] = t[q]
      /\ \A r \in Path : p \o r \in DOMAIN u <=> r \in DOMAIN s
      /\ \A r \in DOMAIN s : u[p \o r] = s[r]
  BY <1>1, PutNodes
<1>3. /\ Rooted(u)
      /\ \A q \in Path, n \in Nat :
           ~ IsPrefix(p, q) => (Branches(u, q, n) <=> Branches(t, q, n))
      /\ \A r \in Path, n \in Nat : Branches(u, p \o r, n) <=> Branches(s, r, n)
  BY PutRooted DEF Grown
<1>4. DOMAIN u = (DOMAIN t \ Below(t, p)) \cup {p \o r : r \in DOMAIN s}
  BY DEF Put
<1> HIDE DEF u
<1>5. IsFiniteSet(DOMAIN u)
  <2> DEFINE f == [r \in DOMAIN s |-> p \o r]
             A == DOMAIN t \ Below(t, p)
             B == {f[r] : r \in DOMAIN f}
  <2>1. IsFiniteSet(DOMAIN t) /\ IsFiniteSet(DOMAIN s) /\ DOMAIN f = DOMAIN s
    BY DEF Grown
  <2>2. DOMAIN u = A \cup B
    BY <1>4
  <2> HIDE DEF f
  <2>3. IsFiniteSet(A)
    BY <2>1, FS_Subset
  <2>4. IsFiniteSet(B)
    BY <2>1, FiniteImage
  <2> HIDE DEF A, B
  <2>5. QED
    BY <2>2, <2>3, <2>4, FS_Union
<1>6. ASSUME NEW q \in DOMAIN u PROVE u[q] \in Symbol /\ Branches(u, q, Arity[u[q]])
  <2>1. q \in Path
    BY <1>3 DEF Rooted
  <2>2. CASE ~ IsPrefix(p, q)
    <3>1. q \in DOMAIN t /\ u[q] = t[q]
      BY <1>2, <2>1, <2>2
    <3>2. u[q] \in Symbol /\ Branches(t, q, Arity[u[q]])
      BY <3>1 DEF Grown, ChildrenMatch
    <3>3. QED
      BY <1>3, <2>1, <2>2, <3>2, ArityNat
  <2>3. CASE IsPrefix(p, q)
    <3>1. PICK r \in Path : q = p \o r
      BY <1>1, <2>1, <2>3, PrefixAndRest
    <3>2. r \in DOMAIN s /\ u[q] = s[r]
      BY <1>2, <3>1
    <3>3. u[q] \in Symbol /\ Branches(s, r, Arity[u[q]])
      BY <3>2 DEF Grown, ChildrenMatch
    <3>4. QED
      BY <1>3, <3>1, <3>3, ArityNat
  <2>4. QED
    BY <2>2, <2>3
<1>7. Grown(u)
  BY <1>3, <1>5, <1>6 DEF Grown, ChildrenMatch
<1>8. QED
  BY <1>7 DEF u

\* A symbol of as many children in the place of another one keeps a tree.
LEMMA SymbolGrown ==
  ASSUME NEW t, Grown(t), NEW p \in DOMAIN t, NEW x \in Symbol, Arity[x] = Arity[t[p]]
  PROVE  Grown([t EXCEPT ![p] = x])
<1> DEFINE u == [t EXCEPT ![p] = x]
<1>1. DOMAIN u = DOMAIN t /\ u[p] = x /\ \A q \in DOMAIN t : q # p => u[q] = t[q]
  OBVIOUS
<1> HIDE DEF u
<1>2. \A q \in DOMAIN t : u[q] \in Symbol /\ Arity[u[q]] = Arity[t[q]]
  BY <1>1 DEF Grown
<1>3. ChildrenMatch(u) /\ Rooted(u) /\ IsFiniteSet(DOMAIN u)
  BY <1>1, <1>2 DEF Grown, ChildrenMatch, Rooted, Branches, PrefixClosed
<1>4. Grown(u)
  BY <1>1, <1>2, <1>3 DEF Grown
<1>5. QED
  BY <1>4 DEF u

\* A node of a tree has as many children as its symbol takes.
LEMMA CountOfChildren ==
  ASSUME NEW t, Grown(t), NEW p \in DOMAIN t
  PROVE  Cardinality(Children(t, p)) = Arity[t[p]]
<1>1. t[p] \in Symbol /\ Arity[t[p]] \in Nat /\ p \in Path
  BY ArityNat DEF Grown, Rooted
<1> DEFINE a == Arity[t[p]]
           B == {Append(p, k) : k \in 1 .. a}
           f == [k \in 1 .. a |-> Append(p, k)]
<1>2. Children(t, p) = B
  BY GrownWellFormed DEF WellFormed
<1> HIDE DEF a
<1>3. f \in Bijection(1 .. a, B)
  <2>1. \A j, k \in 1 .. a : Append(p, j) = Append(p, k) => j = k
    BY <1>1, AppendInjective DEF Path
  <2>2. f \in [1 .. a -> B] /\ \A j, k \in 1 .. a : f[j] = f[k] => j = k
    BY <2>1
  <2>3. \A q \in B : \E k \in 1 .. a : f[k] = q
    OBVIOUS
  <2>4. DOMAIN f = 1 .. a
    OBVIOUS
  <2> HIDE DEF f, B
  <2>5. QED
    BY <2>2, <2>3, <2>4 DEF Bijection, Injection, Surjection, IsInjective
<1>4. ExistsBijection(1 .. a, B)
  BY <1>3 DEF ExistsBijection
<1>5. a \in Nat /\ IsFiniteSet(1 .. a) /\ Cardinality(1 .. a) = a
  <2>1. a \in Nat
    BY <1>1 DEF a
  <2>2. 1 \in Int /\ a \in Int
    BY <2>1
  <2>3. QED
    BY <2>1, <2>2, FS_Interval
<1>6. Cardinality(B) = a
  BY <1>4, <1>5, FS_Bijection
<1>7. QED
  BY <1>2, <1>6 DEF a

-----------------------------------------------------------------------------
(* Heights                                                                  *)

\* The same for a tree.
LEMMA GrownHeight ==
  ASSUME NEW t, Grown(t)
  PROVE  /\ Height(t) \in Nat
         /\ \A p \in DOMAIN t : Len(p) \in Nat /\ Len(p) + 1 <= Height(t)
         /\ \A h \in Nat : (\A p \in DOMAIN t : Len(p) + 1 <= h) => Height(t) <= h
  BY HeightBounds DEF Grown, Rooted

\* The empty tree has no node, and a height.
LEMMA EmptyHeight == DOMAIN Empty = {} /\ Height(Empty) \in Nat
<1>1. DOMAIN Empty = {}
  BY DEF Empty
<1>2. IsFiniteSet(DOMAIN Empty) /\ DOMAIN Empty \subseteq Path
  BY <1>1, FS_EmptySet
<1>3. QED
  BY <1>1, <1>2, HeightBounds

\* A tree with s below p is as high as the rest of it, or as s on the level of p.
LEMMA PutHeight ==
  ASSUME NEW t, Grown(t), NEW p \in DOMAIN t, NEW s, Grown(s), NEW h \in Nat,
         Height(t) <= h, Len(p) + Height(s) <= h
  PROVE  Height(Put(t, p, s)) <= h
<1> DEFINE u == Put(t, p, s)
<1>1. DOMAIN t \subseteq Path /\ p \in Path /\ DOMAIN s \subseteq Path
  BY DEF Grown, Rooted
<1>2. /\ DOMAIN u \subseteq Path
      /\ \A q \in Path : ~ IsPrefix(p, q) => (q \in DOMAIN u <=> q \in DOMAIN t)
      /\ \A r \in Path : p \o r \in DOMAIN u <=> r \in DOMAIN s
  BY <1>1, PutNodes
<1>3. Grown(u)
  BY PutGrown
<1> HIDE DEF u
<1>4. ASSUME NEW q \in DOMAIN u PROVE Len(q) + 1 <= h
  <2>1. CASE ~ IsPrefix(p, q)
    <3>1. q \in DOMAIN t
      BY <1>2, <2>1
    <3>2. Len(q) \in Nat /\ Len(q) + 1 <= Height(t) /\ Height(t) \in Nat
      BY <3>1, GrownHeight
    <3>3. QED
      BY <3>2
  <2>2. CASE IsPrefix(p, q)
    <3>1. PICK r \in Path : q = p \o r
      BY <1>1, <1>2, <2>2, PrefixAndRest
    <3>2. r \in DOMAIN s
      BY <1>2, <3>1
    <3>3. Len(p \o r) = Len(p) + Len(r) /\ Len(p) \in Nat /\ Len(r) \in Nat
      BY <1>1, ConcatOfPaths
    <3>4. Len(r) + 1 <= Height(s) /\ Height(s) \in Nat
      BY <3>2, GrownHeight
    <3>5. Len(p) + Len(r) + 1 <= h
      BY <3>3, <3>4
    <3>6. QED
      BY <3>1, <3>3, <3>5
  <2>3. QED
    BY <2>1, <2>2
<1>5. QED
  BY <1>3, <1>4, GrownHeight DEF u

-----------------------------------------------------------------------------
(* The invariant                                                            *)

Shaped ==
  /\ DOMAIN nodes = Both /\ DOMAIN nodes[2] = DOMAIN nodes[1]
  /\ IsFiniteSet(DOMAIN nodes[1]) /\ 1 \in DOMAIN nodes[1]

AllGrown == \A i \in Both : \A k \in Components : nodes[i][k] = Empty \/ Grown(nodes[i][k])

DrawnInPlace == \A i \in Both : drawn[i] \in Components

\* The nodes of pip are chosen once for all its draws, and remain those of the trees.
CandidatesInPlace ==
  call = <<"pip">> => \A i \in Both : candidates[i] \subseteq DOMAIN Tree(i)

IInv == Shaped /\ AllGrown /\ DrawnInPlace /\ CandidatesInPlace

\* The trees of a state where one has been put into each, and the heights it needs.
LEMMA SwapPuts ==
  ASSUME IInv, NEW p1 \in DOMAIN Tree(1), NEW p2 \in DOMAIN Tree(2), SwapSubtrees(p1, p2)
  PROVE  /\ Shaped' /\ Components' = Components
         /\ \A i \in Both : \A k \in Components : k # drawn[i] => nodes'[i][k] = nodes[i][k]
         /\ nodes'[1][drawn[1]] = Put(Tree(1), p1, Subtree(Tree(2), p2))
         /\ nodes'[2][drawn[2]] = Put(Tree(2), p2, Subtree(Tree(1), p1))
<1> DEFINE a == Put(Tree(1), p1, Subtree(Tree(2), p2))
           b == Put(Tree(2), p2, Subtree(Tree(1), p1))
<1>1. nodes' = [nodes EXCEPT ![1][drawn[1]] = a, ![2][drawn[2]] = b]
  BY DEF SwapSubtrees, Tree
<1> HIDE DEF a, b
<1>2. /\ DOMAIN nodes = Both /\ DOMAIN nodes[2] = DOMAIN nodes[1] /\ 1 \in DOMAIN nodes[1]
      /\ IsFiniteSet(DOMAIN nodes[1])
      /\ drawn[1] \in DOMAIN nodes[1] /\ drawn[2] \in DOMAIN nodes[1] /\ 1 \in Both /\ 2 \in Both
  BY DEF IInv, Shaped, DrawnInPlace, Components, Both
<1>3. /\ DOMAIN nodes' = Both
      /\ nodes'[1] = [nodes[1] EXCEPT ![drawn[1]] = a]
      /\ nodes'[2] = [nodes[2] EXCEPT ![drawn[2]] = b]
  BY <1>1, <1>2
<1>4. DOMAIN nodes'[1] = DOMAIN nodes[1] /\ DOMAIN nodes'[2] = DOMAIN nodes[2]
  BY <1>3
<1>5. Shaped' /\ Components' = Components
  BY <1>2, <1>3, <1>4 DEF Shaped, Components
<1>6. nodes'[1][drawn[1]] = a /\ nodes'[2][drawn[2]] = b
  BY <1>2, <1>3
<1>7. ASSUME NEW i \in Both, NEW k \in Components, k # drawn[i]
      PROVE  nodes'[i][k] = nodes[i][k]
  <2>1. CASE i = 1
    BY <1>2, <1>3, <1>7, <2>1 DEF Components
  <2>2. CASE i = 2
    BY <1>2, <1>3, <1>7, <2>2 DEF Components
  <2>3. QED
    BY <2>1, <2>2 DEF Both
<1>8. QED
  BY <1>5, <1>6, <1>7 DEF a, b

\* A tree with a node is not the empty one.
LEMMA NodeOfGrown ==
  ASSUME IInv, NEW i \in Both, NEW p \in DOMAIN Tree(i)
  PROVE  Grown(Tree(i)) /\ Grown(Subtree(Tree(i), p))
<1>1. Tree(i) = Empty \/ Grown(Tree(i))
  BY DEF IInv, AllGrown, DrawnInPlace, Tree
<1>2. Grown(Tree(i))
  BY <1>1, EmptyHeight
<1>3. QED
  BY <1>2, SubtreeGrown

\* An exchange of subtrees leaves trees.
LEMMA SwapKeepsGrown ==
  ASSUME IInv, NEW p1 \in DOMAIN Tree(1), NEW p2 \in DOMAIN Tree(2), SwapSubtrees(p1, p2)
  PROVE  Shaped' /\ AllGrown'
<1>1. 1 \in Both /\ 2 \in Both
  BY DEF Both
<1>2. /\ Grown(Tree(1)) /\ Grown(Subtree(Tree(1), p1))
      /\ Grown(Tree(2)) /\ Grown(Subtree(Tree(2), p2))
  BY <1>1, NodeOfGrown
<1>3. /\ Shaped' /\ Components' = Components
      /\ \A i \in Both : \A k \in Components : k # drawn[i] => nodes'[i][k] = nodes[i][k]
      /\ nodes'[1][drawn[1]] = Put(Tree(1), p1, Subtree(Tree(2), p2))
      /\ nodes'[2][drawn[2]] = Put(Tree(2), p2, Subtree(Tree(1), p1))
  BY SwapPuts
<1>4. Grown(nodes'[1][drawn[1]]) /\ Grown(nodes'[2][drawn[2]])
  BY <1>2, <1>3, PutGrown
<1>5. ASSUME NEW i \in Both, NEW k \in Components
      PROVE  nodes'[i][k] = Empty \/ Grown(nodes'[i][k])
  <2>1. CASE k # drawn[i]
    BY <1>3, <2>1 DEF IInv, AllGrown
  <2>2. CASE k = drawn[i]
    BY <1>4, <2>2 DEF Both
  <2>3. QED
    BY <2>1, <2>2
<1>6. AllGrown'
  BY <1>3, <1>5 DEF AllGrown
<1>7. QED
  BY <1>3, <1>6

\* Every tree of a state has a height.
LEMMA TreeHeight ==
  ASSUME IInv, NEW i \in Both, NEW k \in Components
  PROVE  Height(nodes[i][k]) \in Nat
  BY GrownHeight, EmptyHeight DEF IInv, AllGrown

\* A tree that is put into another one and stays below the limit does not heighten it.
LEMMA PutNotHeightened ==
  ASSUME IInv, NEW i \in Both, NEW p \in DOMAIN Tree(i), NEW s, Grown(s),
         nodes'[i][drawn[i]] = Put(Tree(i), p, s), Len(p) + Height(s) <= MaxHeight
  PROVE  ~ Heightened(i, drawn[i])
<1>1. Grown(Tree(i)) /\ drawn[i] \in Components /\ Tree(i) = nodes[i][drawn[i]]
  BY NodeOfGrown DEF IInv, DrawnInPlace, Tree
<1> DEFINE h == Max({Height(nodes[i][drawn[i]]), MaxHeight})
<1>2. /\ Height(nodes[i][drawn[i]]) \in Nat /\ MaxHeight \in Nat
      /\ Height(s) \in Nat /\ Len(p) \in Nat
  BY <1>1, GrownHeight, VariationAssumption
<1>3. h \in Nat /\ Height(nodes[i][drawn[i]]) <= h /\ MaxHeight <= h
  BY <1>2, LargerOfTwo
<1> HIDE DEF h
<1>4. Len(p) + Height(s) <= h
  BY <1>2, <1>3
<1>5. Height(Put(Tree(i), p, s)) <= h
  BY <1>1, <1>3, <1>4, PutHeight
<1>6. Height(Put(Tree(i), p, s)) \in Nat
  BY <1>1, PutGrown, GrownHeight
<1>7. ~ (Height(nodes'[i][drawn[i]]) > h)
  BY <1>3, <1>5, <1>6
<1>8. QED
  BY <1>7 DEF h, Heightened

\* A tree that stays is not heightened.
LEMMA SameNotHeightened ==
  ASSUME IInv, NEW i \in Both, NEW k \in Components, Height(nodes'[i][k]) = Height(nodes[i][k])
  PROVE  ~ Heightened(i, k)
<1>1. Height(nodes[i][k]) \in Nat /\ MaxHeight \in Nat
  BY TreeHeight, VariationAssumption
<1>2. Max({Height(nodes[i][k]), MaxHeight}) \in Nat
      /\ Height(nodes[i][k]) <= Max({Height(nodes[i][k]), MaxHeight})
  BY <1>1, LargerOfTwo
<1>3. QED
  BY <1>1, <1>2 DEF Heightened

\* An exchange that stays below the limit heightens no tree.
LEMMA SwapNotHeightened ==
  ASSUME IInv, NEW p1 \in DOMAIN Tree(1), NEW p2 \in DOMAIN Tree(2), SwapSubtrees(p1, p2),
         Len(p1) + HeightAt(Tree(2), p2) <= MaxHeight, Len(p2) + HeightAt(Tree(1), p1) <= MaxHeight
  PROVE  NoneHeightened
<1>1. 1 \in Both /\ 2 \in Both
  BY DEF Both
<1>2. Grown(Subtree(Tree(1), p1)) /\ Grown(Subtree(Tree(2), p2))
  BY <1>1, NodeOfGrown
<1>3. /\ \A i \in Both : \A k \in Components : k # drawn[i] => nodes'[i][k] = nodes[i][k]
      /\ nodes'[1][drawn[1]] = Put(Tree(1), p1, Subtree(Tree(2), p2))
      /\ nodes'[2][drawn[2]] = Put(Tree(2), p2, Subtree(Tree(1), p1))
  BY SwapPuts
<1>4. ~ Heightened(1, drawn[1])
  BY <1>1, <1>2, <1>3, PutNotHeightened DEF HeightAt
<1>5. ~ Heightened(2, drawn[2])
  BY <1>1, <1>2, <1>3, PutNotHeightened DEF HeightAt
<1>6. ASSUME NEW i \in Both, NEW k \in Components PROVE ~ Heightened(i, k)
  <2>1. CASE k # drawn[i]
    BY <1>3, <2>1, SameNotHeightened
  <2>2. CASE k = drawn[i]
    BY <1>4, <1>5, <2>2 DEF Both
  <2>3. QED
    BY <2>1, <2>2
<1>7. QED
  BY <1>6 DEF NoneHeightened

\* What a step has to show: the trees, and the tree drawn with its candidates.
LEMMA SameNodesKeep ==
  ASSUME IInv, UNCHANGED nodes
  PROVE  Shaped' /\ AllGrown' /\ Components' = Components /\ NoneHeightened
<1>1. Shaped' /\ AllGrown' /\ Components' = Components
  BY DEF IInv, Shaped, AllGrown, Components
<1>2. ASSUME NEW i \in Both, NEW k \in Components PROVE ~ Heightened(i, k)
  BY <1>2, SameNotHeightened
<1>3. QED
  BY <1>1, <1>2 DEF NoneHeightened

\* A call that returns has drawn nothing.
LEMMA ReturnKeeps ==
  ASSUME Shaped', Return
  PROVE  DrawnInPlace' /\ CandidatesInPlace'
<1>1. drawn'[1] = 1 /\ drawn'[2] = 1
  BY DEF Return
<1>2. DrawnInPlace'
  BY <1>1 DEF DrawnInPlace, Shaped, Components, Both
<1>3. call' # <<"pip">>
  BY DEF Return
<1>4. QED
  BY <1>2, <1>3 DEF CandidatesInPlace

\* A draw without a result leaves what was drawn before.
LEMMA SameCallKeeps ==
  ASSUME IInv, UNCHANGED <<nodes, drawn, call, candidates>>
  PROVE  IInv' /\ NoneHeightened
<1>1. Shaped' /\ AllGrown' /\ NoneHeightened
  BY SameNodesKeep
<1>2. DrawnInPlace' /\ CandidatesInPlace'
  BY DEF IInv, DrawnInPlace, CandidatesInPlace, Components, Tree
<1>3. QED
  BY <1>1, <1>2 DEF IInv

-----------------------------------------------------------------------------
(* The steps                                                                *)

\* The pairs to begin with are of trees, and nothing is drawn.
LEMMA InitIInv == Init => IInv
<1> SUFFICES ASSUME Init PROVE IInv
  OBVIOUS
<1>1. Shaped
  BY VariationAssumption DEF Init, Shaped, Both
<1>2. AllGrown
  <2>1. ASSUME NEW i \in Both, NEW k \in Components
        PROVE  nodes[i][k] = Empty \/ Grown(nodes[i][k])
    <3>1. DOMAIN nodes[i] = DOMAIN nodes[1]
      BY <1>1 DEF Shaped, Both
    <3>2. nodes[i][k] = Empty \/ IsTree(nodes[i][k])
      BY <3>1, TreesAssumption DEF Init, Components
    <3>3. QED
      BY <3>2, TreesGrown
  <2>2. QED
    BY <2>1 DEF AllGrown
<1>3. drawn[1] = 1 /\ drawn[2] = 1 /\ call # <<"pip">>
  BY DEF Init
<1>4. DrawnInPlace /\ CandidatesInPlace
  BY <1>1, <1>3 DEF DrawnInPlace, CandidatesInPlace, Shaped, Components, Both
<1>5. QED
  BY <1>1, <1>2, <1>4 DEF IInv

\* The draw of components: each is one of the individual.
LEMMA OnePointKeeps == IInv /\ OnePoint => IInv' /\ NoneHeightened
<1> SUFFICES ASSUME IInv, OnePoint PROVE IInv' /\ NoneHeightened
  OBVIOUS
<1>1. Shaped' /\ AllGrown' /\ Components' = Components /\ NoneHeightened
  BY SameNodesKeep DEF OnePoint
<1>2. DrawnInPlace'
  BY <1>1 DEF OnePoint, DrawComponents, DrawnInPlace
<1>3. call' # <<"pip">>
  BY DEF OnePoint
<1>4. QED
  BY <1>1, <1>2, <1>3 DEF IInv, CandidatesInPlace

\* The nodes that may be drawn are nodes of the trees drawn.
LEMMA PipKeeps == IInv /\ Pip => IInv' /\ NoneHeightened
<1> SUFFICES ASSUME IInv, Pip PROVE IInv' /\ NoneHeightened
  OBVIOUS
<1>1. Shaped' /\ AllGrown' /\ Components' = Components /\ NoneHeightened
  BY SameNodesKeep DEF Pip
<1>2. DrawnInPlace'
  BY <1>1 DEF Pip, DrawComponents, DrawnInPlace
<1>3. \A t : InternalNodes(t) \subseteq DOMAIN t /\ TerminalNodes(t) \subseteq DOMAIN t
  BY DEF InternalNodes, TerminalNodes, Reached
<1>4. \A i \in Both : candidates'[i] \subseteq DOMAIN nodes[i][drawn'[i]]
  BY <1>3 DEF Pip
<1>5. CandidatesInPlace'
  BY <1>4 DEF CandidatesInPlace, Tree, Pip
<1>6. QED
  BY <1>1, <1>2, <1>5 DEF IInv

\* Point mutation draws a component of one individual.
LEMMA PointMutationKeeps == IInv /\ PointMutation => IInv' /\ NoneHeightened
<1> SUFFICES ASSUME IInv, PointMutation PROVE IInv' /\ NoneHeightened
  OBVIOUS
<1>1. Shaped' /\ AllGrown' /\ Components' = Components /\ NoneHeightened
  BY SameNodesKeep DEF PointMutation
<1>2. PICK i \in Both : DrawComponent(i) /\ call' = <<"point", i>>
  BY DEF PointMutation
<1>3. PICK k \in Components : drawn' = [<<1, 1>> EXCEPT ![i] = k]
  BY <1>2 DEF DrawComponent
<1>4. 1 \in Components
  BY DEF IInv, Shaped, Components
<1>5. \A j \in Both : drawn'[j] \in Components
  <2>1. CASE i = 1
    <3>1. drawn'[1] = k /\ drawn'[2] = 1
      BY <1>3, <2>1
    <3>2. QED
      BY <1>4, <3>1 DEF Both
  <2>2. CASE i = 2
    <3>1. drawn'[1] = 1 /\ drawn'[2] = k
      BY <1>3, <2>2
    <3>2. QED
      BY <1>4, <3>1 DEF Both
  <2>3. QED
    BY <2>1, <2>2 DEF Both
<1>6. call' # <<"pip">>
  BY <1>2
<1>7. QED
  BY <1>1, <1>5, <1>6 DEF IInv, DrawnInPlace, CandidatesInPlace

\* One point crossover exchanges subtrees that fit, or leaves the trees.
LEMMA OnePointDrawKeeps == IInv /\ OnePointDraw => IInv' /\ NoneHeightened
<1> SUFFICES ASSUME IInv, OnePointDraw PROVE IInv' /\ NoneHeightened
  OBVIOUS
<1>1. PICK p1 \in DOMAIN Tree(1), p2 \in DOMAIN Tree(2) :
        \/ Exchangeable(p1, p2) /\ SwapSubtrees(p1, p2) /\ Return
        \/ OnePointMiss(p1, p2)
  BY DEF OnePointDraw
<1>2. CASE Exchangeable(p1, p2) /\ SwapSubtrees(p1, p2) /\ Return
  <2>1. Shaped' /\ AllGrown'
    BY <1>2, SwapKeepsGrown
  <2>2. DrawnInPlace' /\ CandidatesInPlace'
    BY <1>2, <2>1, ReturnKeeps
  <2>3. /\ Len(p1) + HeightAt(Tree(2), p2) <= MaxHeight
        /\ Len(p2) + HeightAt(Tree(1), p1) <= MaxHeight
    BY <1>2 DEF Exchangeable, Fits
  <2>4. NoneHeightened
    BY <1>2, <2>3, SwapNotHeightened
  <2>5. QED
    BY <2>1, <2>2, <2>4 DEF IInv
<1>3. CASE OnePointMiss(p1, p2)
  BY <1>3, SameCallKeeps DEF OnePointMiss
<1>4. QED
  BY <1>1, <1>2, <1>3

\* A crossover that gives up leaves the trees.
LEMMA OnePointFailsKeeps == IInv /\ OnePointFails => IInv' /\ NoneHeightened
  BY SameNodesKeep, ReturnKeeps DEF OnePointFails, IInv

\* The pip strategy exchanges subtrees of trees, however high they become.
LEMMA PipDrawKeeps == IInv /\ PipDraw => IInv'
<1> SUFFICES ASSUME IInv, PipDraw PROVE IInv'
  OBVIOUS
<1>1. call = <<"pip">>
  BY DEF PipDraw
<1> DEFINE Good(p1, p2) ==
             FitsPip(p1, HeightAt(Tree(2), p2)) /\ FitsPip(p2, HeightAt(Tree(1), p1))
<1>2. PICK p1 \in candidates[1], p2 \in candidates[2] :
        \/ Good(p1, p2) /\ SwapSubtrees(p1, p2) /\ Return
        \/ UNCHANGED <<nodes, drawn, call, candidates>>
        \/ Return /\ UNCHANGED nodes
  BY DEF PipDraw
<1>3. p1 \in DOMAIN Tree(1) /\ p2 \in DOMAIN Tree(2)
  BY <1>1, <1>2 DEF IInv, CandidatesInPlace, Both
<1>4. CASE Good(p1, p2) /\ SwapSubtrees(p1, p2) /\ Return
  <2>1. Shaped' /\ AllGrown'
    BY <1>3, <1>4, SwapKeepsGrown
  <2>2. DrawnInPlace' /\ CandidatesInPlace'
    BY <1>4, <2>1, ReturnKeeps
  <2>3. QED
    BY <2>1, <2>2 DEF IInv
<1>5. CASE UNCHANGED <<nodes, drawn, call, candidates>>
  BY <1>5, SameCallKeeps
<1>6. CASE Return /\ UNCHANGED nodes
  BY <1>6, SameNodesKeep, ReturnKeeps DEF IInv
<1>7. QED
  BY <1>2, <1>4, <1>5, <1>6

\* Point mutation puts a generated tree where it fits, or leaves the tree.
LEMMA PointDrawKeeps ==
  ASSUME IInv, NEW i \in Both, PointDraw(i)
  PROVE  IInv' /\ NoneHeightened
<1>1. PICK p \in DOMAIN Tree(i), s \in Generated :
        \/ /\ Fits(p, Height(s))
           /\ nodes' = [nodes EXCEPT ![i][drawn[i]] = Put(@, p, s)]
           /\ Return
        \/ UNCHANGED <<nodes, drawn, call, candidates>>
        \/ UNCHANGED nodes /\ Return
  BY DEF PointDraw
<1>2. CASE /\ Fits(p, Height(s))
           /\ nodes' = [nodes EXCEPT ![i][drawn[i]] = Put(@, p, s)]
           /\ Return
  <2>1. Grown(s) /\ Grown(Tree(i))
    BY TreesAssumption, TreesGrown, NodeOfGrown
  <2> DEFINE a == Put(Tree(i), p, s)
  <2>2. nodes' = [nodes EXCEPT ![i][drawn[i]] = a] /\ Grown(a)
    BY <1>2, <2>1, PutGrown DEF Tree
  <2> HIDE DEF a
  <2>3. /\ DOMAIN nodes = Both /\ DOMAIN nodes[2] = DOMAIN nodes[1] /\ 1 \in DOMAIN nodes[1]
        /\ IsFiniteSet(DOMAIN nodes[1])
        /\ drawn[i] \in DOMAIN nodes[1] /\ 1 \in Both /\ 2 \in Both
        /\ \A j \in Both : DOMAIN nodes[j] = DOMAIN nodes[1]
    BY DEF IInv, Shaped, DrawnInPlace, Components, Both
  <2>4. /\ DOMAIN nodes' = Both
        /\ nodes'[i] = [nodes[i] EXCEPT ![drawn[i]] = a]
        /\ \A j \in Both : j # i => nodes'[j] = nodes[j]
    BY <2>2, <2>3
  <2>5. \A j \in Both : DOMAIN nodes'[j] = DOMAIN nodes[1]
    BY <2>3, <2>4
  <2>6. Shaped' /\ Components' = Components
    BY <2>3, <2>4, <2>5 DEF Shaped, Components
  <2>7. nodes'[i][drawn[i]] = a
    BY <2>3, <2>4
  <2>8. \A j \in Both : \A k \in Components :
          ~ (j = i /\ k = drawn[i]) => nodes'[j][k] = nodes[j][k]
    BY <2>3, <2>4 DEF Components
  <2>9. ASSUME NEW j \in Both, NEW k \in Components
        PROVE  (nodes'[j][k] = Empty \/ Grown(nodes'[j][k])) /\ ~ Heightened(j, k)
    <3>1. CASE ~ (j = i /\ k = drawn[i])
      BY <2>8, <3>1, SameNotHeightened DEF IInv, AllGrown
    <3>2. CASE j = i /\ k = drawn[i]
      <4>1. Len(p) + Height(s) <= MaxHeight
        BY <1>2 DEF Fits
      <4>2. ~ Heightened(i, drawn[i])
        BY <2>1, <2>7, <4>1, PutNotHeightened DEF a
      <4>3. QED
        BY <2>2, <2>7, <3>2, <4>2
    <3>3. QED
      BY <3>1, <3>2
  <2>10. AllGrown' /\ NoneHeightened
    BY <2>6, <2>9 DEF AllGrown, NoneHeightened
  <2>11. QED
    BY <1>2, <2>6, <2>10, ReturnKeeps DEF IInv
<1>3. CASE UNCHANGED <<nodes, drawn, call, candidates>>
  BY <1>3, SameCallKeeps
<1>4. CASE UNCHANGED nodes /\ Return
  BY <1>4, SameNodesKeep, ReturnKeeps DEF IInv
<1>5. QED
  BY <1>1, <1>2, <1>3, <1>4

\* Simple mutation draws a symbol for as many children as the node has.
LEMMA SimpleMutationKeeps ==
  ASSUME IInv, NEW i \in Both, SimpleMutation(i)
  PROVE  IInv' /\ NoneHeightened
<1>1. PICK c \in Components : \E p \in DOMAIN nodes[i][c], x \in Symbol :
        /\ Arity[x] = Cardinality(Children(nodes[i][c], p))
        /\ nodes' = [nodes EXCEPT ![i][c][p] = x]
  BY DEF SimpleMutation
<1>2. PICK p \in DOMAIN nodes[i][c], x \in Symbol :
        /\ Arity[x] = Cardinality(Children(nodes[i][c], p))
        /\ nodes' = [nodes EXCEPT ![i][c][p] = x]
  BY <1>1
<1> DEFINE t == nodes[i][c]
           a == [t EXCEPT ![p] = x]
<1>3. Grown(t)
  <2>1. t = Empty \/ Grown(t)
    BY DEF IInv, AllGrown
  <2>2. QED
    BY <2>1, EmptyHeight
<1>4. Grown(a) /\ Height(a) = Height(t)
  <2>1. Arity[x] = Arity[t[p]]
    BY <1>2, <1>3, CountOfChildren
  <2>2. Grown(a)
    BY <1>3, <2>1, SymbolGrown
  <2>3. DOMAIN a = DOMAIN t
    OBVIOUS
  <2>4. QED
    BY <2>2, <2>3 DEF Height
<1>5. nodes' = [nodes EXCEPT ![i][c] = a]
  BY <1>2
<1> HIDE DEF a
<1>6. /\ DOMAIN nodes = Both /\ DOMAIN nodes[2] = DOMAIN nodes[1] /\ 1 \in DOMAIN nodes[1]
      /\ IsFiniteSet(DOMAIN nodes[1])
      /\ c \in DOMAIN nodes[1] /\ 1 \in Both /\ 2 \in Both
      /\ \A j \in Both : DOMAIN nodes[j] = DOMAIN nodes[1]
  BY DEF IInv, Shaped, Components, Both
<1>7. /\ DOMAIN nodes' = Both
      /\ nodes'[i] = [nodes[i] EXCEPT ![c] = a]
      /\ \A j \in Both : j # i => nodes'[j] = nodes[j]
  BY <1>5, <1>6
<1>8. \A j \in Both : DOMAIN nodes'[j] = DOMAIN nodes[j]
  BY <1>7
<1>9. Shaped' /\ Components' = Components
  BY <1>6, <1>7, <1>8 DEF Shaped, Components
<1>10. ASSUME NEW j \in Both, NEW k \in Components
       PROVE  (nodes'[j][k] = Empty \/ Grown(nodes'[j][k])) /\ ~ Heightened(j, k)
  <2>1. CASE ~ (j = i /\ k = c)
    <3>1. nodes'[j][k] = nodes[j][k]
      BY <1>6, <1>7, <2>1 DEF Components
    <3>2. QED
      BY <3>1, SameNotHeightened DEF IInv, AllGrown
  <2>2. CASE j = i /\ k = c
    <3>1. nodes'[j][k] = a
      BY <1>6, <1>7, <2>2
    <3>2. QED
      BY <1>4, <2>2, <3>1, SameNotHeightened
  <2>3. QED
    BY <2>1, <2>2
<1>11. AllGrown' /\ NoneHeightened
  BY <1>9, <1>10 DEF AllGrown, NoneHeightened
<1>12. drawn' = drawn /\ call' # <<"pip">>
  BY DEF SimpleMutation, Idle
<1>13. DrawnInPlace' /\ CandidatesInPlace'
  BY <1>9, <1>12 DEF IInv, DrawnInPlace, CandidatesInPlace
<1>14. QED
  BY <1>9, <1>11, <1>13 DEF IInv

\* What a step may do to the heights: anything goes in a call of the pip strategy.
HeightsKept == call # <<"pip">> => NoneHeightened

\* Every step of every strategy, taken together.
LEMMA NextKeeps == IInv /\ [Next]_vars => IInv' /\ [HeightsKept]_vars
<1> SUFFICES ASSUME IInv, [Next]_vars PROVE IInv' /\ HeightsKept
  OBVIOUS
<1>1. CASE OnePoint
  BY <1>1, OnePointKeeps DEF HeightsKept
<1>2. CASE Pip
  BY <1>2, PipKeeps DEF HeightsKept
<1>3. CASE PointMutation
  BY <1>3, PointMutationKeeps DEF HeightsKept
<1>4. CASE \E i \in Both : SimpleMutation(i)
  BY <1>4, SimpleMutationKeeps DEF HeightsKept
<1>5. CASE OnePointDraw
  BY <1>5, OnePointDrawKeeps DEF HeightsKept
<1>6. CASE OnePointFails
  BY <1>6, OnePointFailsKeeps DEF HeightsKept
<1>7. CASE PipDraw
  BY <1>7, PipDrawKeeps DEF PipDraw, HeightsKept
<1>8. CASE \E i \in Both : PointDraw(i)
  BY <1>8, PointDrawKeeps DEF HeightsKept
<1>9. CASE UNCHANGED vars
  <2>1. UNCHANGED <<nodes, drawn, call, candidates>>
    BY <1>9 DEF vars
  <2>2. QED
    BY <1>9, <2>1, SameCallKeeps DEF HeightsKept
<1>10. QED
  BY <1>1, <1>2, <1>3, <1>4, <1>5, <1>6, <1>7, <1>8, <1>9 DEF Next, Draw

-----------------------------------------------------------------------------
(* Nodes kept by an exchange                                                *)

\* Of two individuals, the one that is not i.
Other(i) == 3 - i

\* The places there are: an individual, one of its trees and a path.
Triple == Both \X Components \X Path

\* x is the place of a node of n with the symbol s.
HasAt(n, x, s) == x[3] \in DOMAIN n[x[1]][x[2]] /\ n[x[1]][x[2]][x[3]] = s

\* What an exchange of what is below cut[1] and cut[2] does to each path.
Exchanged(cut) ==
  /\ \A i \in Both : cut[i] \in Path
  /\ \A i \in Both : \A k \in Components : k # drawn[i] => nodes'[i][k] = nodes[i][k]
  /\ \A i \in Both : \A q \in Path : ~ IsPrefix(cut[i], q) =>
       /\ q \in DOMAIN nodes'[i][drawn[i]] <=> q \in DOMAIN nodes[i][drawn[i]]
       /\ q \in DOMAIN nodes[i][drawn[i]] =>
            nodes'[i][drawn[i]][q] = nodes[i][drawn[i]][q]
  /\ \A i, j \in Both : i # j => \A r \in Path :
       /\ cut[i] \o r \in DOMAIN nodes'[i][drawn[i]]
            <=> cut[j] \o r \in DOMAIN nodes[j][drawn[j]]
       /\ cut[j] \o r \in DOMAIN nodes[j][drawn[j]] =>
            nodes'[i][drawn[i]][cut[i] \o r] = nodes[j][drawn[j]][cut[j] \o r]

\* One tree with a subtree of another one in it.
LEMMA GraftedNodes ==
  ASSUME NEW t, Grown(t), NEW p \in DOMAIN t, NEW u, Grown(u), NEW c \in DOMAIN u,
         NEW w, w = Put(t, p, Subtree(u, c))
  PROVE  /\ \A q \in Path : ~ IsPrefix(p, q) =>
              /\ q \in DOMAIN w <=> q \in DOMAIN t
              /\ q \in DOMAIN t => w[q] = t[q]
         /\ \A r \in Path :
              /\ p \o r \in DOMAIN w <=> c \o r \in DOMAIN u
              /\ c \o r \in DOMAIN u => w[p \o r] = u[c \o r]
<1> DEFINE s == Subtree(u, c)
<1>1. DOMAIN t \subseteq Path /\ DOMAIN u \subseteq Path
  BY DEF Grown, Rooted
<1>2. /\ DOMAIN s \subseteq Path
      /\ \A r \in Path : r \in DOMAIN s <=> c \o r \in DOMAIN u
      /\ \A r \in DOMAIN s : s[r] = u[c \o r]
  BY <1>1, SubtreeNodes
<1>3. w = Put(t, p, s)
  OBVIOUS
<1> HIDE DEF s
<1>4. /\ \A q \in Path : ~ IsPrefix(p, q) =>
           /\ q \in DOMAIN w <=> q \in DOMAIN t
           /\ q \in DOMAIN t => w[q] = t[q]
      /\ \A r \in Path :
           /\ p \o r \in DOMAIN w <=> r \in DOMAIN s
           /\ r \in DOMAIN s => w[p \o r] = s[r]
  BY <1>1, <1>2, <1>3, PutNodes
<1>5. ASSUME NEW r \in Path
      PROVE  /\ p \o r \in DOMAIN w <=> c \o r \in DOMAIN u
             /\ c \o r \in DOMAIN u => w[p \o r] = u[c \o r]
  BY <1>2, <1>4
<1>6. QED
  BY <1>4, <1>5

\* swap_subtrees is such an exchange.
LEMMA SwapExchanges ==
  ASSUME IInv, NEW p1 \in DOMAIN Tree(1), NEW p2 \in DOMAIN Tree(2), SwapSubtrees(p1, p2)
  PROVE  Exchanged(<<p1, p2>>)
<1> DEFINE t1 == nodes[1][drawn[1]]
           t2 == nodes[2][drawn[2]]
           w1 == nodes'[1][drawn[1]]
           w2 == nodes'[2][drawn[2]]
           cut == <<p1, p2>>
<1>1. /\ Grown(t1) /\ Grown(t2) /\ p1 \in DOMAIN t1 /\ p2 \in DOMAIN t2
      /\ p1 \in Path /\ p2 \in Path
  <2>1. 1 \in Both /\ 2 \in Both
    BY DEF Both
  <2>2. Grown(t1) /\ Grown(t2)
    BY <2>1, NodeOfGrown DEF Tree
  <2>3. p1 \in DOMAIN t1 /\ p2 \in DOMAIN t2
    BY DEF Tree
  <2>4. QED
    BY <2>2, <2>3 DEF Grown, Rooted
<1>2. /\ \A i \in Both : \A k \in Components : k # drawn[i] => nodes'[i][k] = nodes[i][k]
      /\ w1 = Put(t1, p1, Subtree(t2, p2)) /\ w2 = Put(t2, p2, Subtree(t1, p1))
  BY SwapPuts DEF Tree
<1> HIDE DEF t1, t2, w1, w2
<1>3. /\ \A q \in Path : ~ IsPrefix(p1, q) =>
           /\ q \in DOMAIN w1 <=> q \in DOMAIN t1
           /\ q \in DOMAIN t1 => w1[q] = t1[q]
      /\ \A r \in Path :
           /\ p1 \o r \in DOMAIN w1 <=> p2 \o r \in DOMAIN t2
           /\ p2 \o r \in DOMAIN t2 => w1[p1 \o r] = t2[p2 \o r]
  BY <1>1, <1>2, GraftedNodes
<1>4. /\ \A q \in Path : ~ IsPrefix(p2, q) =>
           /\ q \in DOMAIN w2 <=> q \in DOMAIN t2
           /\ q \in DOMAIN t2 => w2[q] = t2[q]
      /\ \A r \in Path :
           /\ p2 \o r \in DOMAIN w2 <=> p1 \o r \in DOMAIN t1
           /\ p1 \o r \in DOMAIN t1 => w2[p2 \o r] = t1[p1 \o r]
  BY <1>1, <1>2, GraftedNodes
<1>5. cut[1] = p1 /\ cut[2] = p2
  OBVIOUS
<1> HIDE DEF cut
<1>6. ASSUME NEW i \in Both
      PROVE  /\ cut[i] \in Path
             /\ \A q \in Path : ~ IsPrefix(cut[i], q) =>
                  /\ q \in DOMAIN nodes'[i][drawn[i]] <=> q \in DOMAIN nodes[i][drawn[i]]
                  /\ q \in DOMAIN nodes[i][drawn[i]] =>
                       nodes'[i][drawn[i]][q] = nodes[i][drawn[i]][q]
  <2>1. CASE i = 1
    BY <1>1, <1>3, <1>5, <2>1 DEF t1, w1
  <2>2. CASE i = 2
    BY <1>1, <1>4, <1>5, <2>2 DEF t2, w2
  <2>3. QED
    BY <2>1, <2>2 DEF Both
<1>7. ASSUME NEW i \in Both, NEW j \in Both, i # j, NEW r \in Path
      PROVE  /\ cut[i] \o r \in DOMAIN nodes'[i][drawn[i]]
                  <=> cut[j] \o r \in DOMAIN nodes[j][drawn[j]]
             /\ cut[j] \o r \in DOMAIN nodes[j][drawn[j]] =>
                  nodes'[i][drawn[i]][cut[i] \o r] = nodes[j][drawn[j]][cut[j] \o r]
  <2>1. CASE i = 1 /\ j = 2
    BY <1>3, <1>5, <2>1 DEF t1, t2, w1, w2
  <2>2. CASE i = 2 /\ j = 1
    BY <1>4, <1>5, <2>2 DEF t1, t2, w1, w2
  <2>3. QED
    BY <1>7, <2>1, <2>2 DEF Both
<1>8. Exchanged(cut)
  BY <1>2, <1>6, <1>7 DEF Exchanged
<1>9. QED
  BY <1>8 DEF cut

\* Where an exchange takes a node: to the other tree, if it is below the cut.
InCut(cut, x) == x[2] = drawn[x[1]] /\ IsPrefix(cut[x[1]], x[3])

Across(cut, x) ==
  <<Other(x[1]), drawn[Other(x[1])], cut[Other(x[1])] \o From(cut[x[1]], x[3])>>

Crossed(cut, x) == IF InCut(cut, x) THEN Across(cut, x) ELSE x

\* A place is an individual, one of its trees and a path.
LEMMA TripleParts ==
  ASSUME NEW x \in Triple
  PROVE  x[1] \in Both /\ x[2] \in Components /\ x[3] \in Path /\ x = <<x[1], x[2], x[3]>>
  BY DEF Triple

\* There are two individuals, and each is the other one of the other.
LEMMA OtherOne ==
  ASSUME NEW i \in Both
  PROVE  Other(i) \in Both /\ Other(i) # i /\ Other(Other(i)) = i
  BY DEF Other, Both

\* An exchange takes every place to a place, and a second one takes it back.
LEMMA CrossedBack ==
  ASSUME NEW cut, \A i \in Both : cut[i] \in Path, DrawnInPlace, NEW x \in Triple
  PROVE  Crossed(cut, x) \in Triple /\ Crossed(cut, Crossed(cut, x)) = x
<1> DEFINE i == x[1]
           j == Other(x[1])
           r == From(cut[i], x[3])
<1>1. /\ i \in Both /\ x[2] \in Components /\ x[3] \in Path /\ x = <<i, x[2], x[3]>>
      /\ j \in Both /\ Other(j) = i
      /\ cut[i] \in Path /\ cut[j] \in Path /\ drawn[j] \in Components
  BY TripleParts, OtherOne DEF DrawnInPlace
<1>2. CASE ~ InCut(cut, x)
  BY <1>2 DEF Crossed
<1>3. CASE InCut(cut, x)
  <2>1. x[2] = drawn[i] /\ IsPrefix(cut[i], x[3])
    BY <1>3 DEF InCut
  <2>2. r \in Path /\ x[3] = cut[i] \o r
    BY <1>1, <2>1, PrefixAndRest
  <2> DEFINE y == <<j, drawn[j], cut[j] \o r>>
  <2>3. Crossed(cut, x) = y
    BY <1>3 DEF Crossed, Across
  <2> HIDE DEF r, i, j
  <2>4. /\ cut[j] \o r \in Path /\ IsPrefix(cut[j], cut[j] \o r)
        /\ From(cut[j], cut[j] \o r) = r
    BY <1>1, <2>2, ConcatOfPaths
  <2>5. y \in Triple
    BY <1>1, <2>4 DEF Triple
  <2>6. y[1] = j /\ y[2] = drawn[j] /\ y[3] = cut[j] \o r
    OBVIOUS
  <2> HIDE DEF y
  <2>7. InCut(cut, y)
    BY <2>4, <2>6 DEF InCut
  <2>8. Across(cut, y) = <<i, drawn[i], cut[i] \o r>>
    BY <1>1, <2>4, <2>6 DEF Across
  <2>9. Crossed(cut, y) = x
    BY <1>1, <2>1, <2>2, <2>7, <2>8 DEF Crossed
  <2>10. QED
    BY <2>3, <2>5, <2>9
<1>4. QED
  BY <1>2, <1>3

\* The node of a place is found after the exchange where the exchange takes it.
LEMMA CrossedHas ==
  ASSUME NEW cut, Exchanged(cut), NEW x \in Triple, NEW s
  PROVE  HasAt(nodes, x, s) <=> HasAt(nodes', Crossed(cut, x), s)
<1> DEFINE i == x[1]
           j == Other(x[1])
           r == From(cut[i], x[3])
<1>1. /\ i \in Both /\ x[2] \in Components /\ x[3] \in Path /\ x = <<i, x[2], x[3]>>
      /\ j \in Both /\ j # i /\ cut[i] \in Path /\ cut[j] \in Path
  BY TripleParts, OtherOne DEF Exchanged
<1>2. CASE x[2] # drawn[i]
  <2>1. nodes'[i][x[2]] = nodes[i][x[2]]
    BY <1>1, <1>2 DEF Exchanged
  <2>2. Crossed(cut, x) = x
    BY <1>2 DEF Crossed, InCut
  <2>3. QED
    BY <2>1, <2>2 DEF HasAt
<1>3. CASE x[2] = drawn[i] /\ ~ IsPrefix(cut[i], x[3])
  <2>1. /\ x[3] \in DOMAIN nodes'[i][drawn[i]] <=> x[3] \in DOMAIN nodes[i][drawn[i]]
        /\ x[3] \in DOMAIN nodes[i][drawn[i]] =>
             nodes'[i][drawn[i]][x[3]] = nodes[i][drawn[i]][x[3]]
    BY <1>1, <1>3 DEF Exchanged
  <2>2. Crossed(cut, x) = x
    BY <1>3 DEF Crossed, InCut
  <2>3. QED
    BY <1>3, <2>1, <2>2 DEF HasAt
<1>4. CASE x[2] = drawn[i] /\ IsPrefix(cut[i], x[3])
  <2>1. r \in Path /\ x[3] = cut[i] \o r
    BY <1>1, <1>4, PrefixAndRest
  <2> DEFINE y == <<j, drawn[j], cut[j] \o r>>
  <2>2. Crossed(cut, x) = y
    BY <1>4 DEF Crossed, InCut, Across
  <2> HIDE DEF r, j
  <2>3. /\ cut[j] \o r \in DOMAIN nodes'[j][drawn[j]]
             <=> cut[i] \o r \in DOMAIN nodes[i][drawn[i]]
        /\ cut[i] \o r \in DOMAIN nodes[i][drawn[i]] =>
             nodes'[j][drawn[j]][cut[j] \o r] = nodes[i][drawn[i]][cut[i] \o r]
    BY <1>1, <2>1 DEF Exchanged
  <2>4. y[1] = j /\ y[2] = drawn[j] /\ y[3] = cut[j] \o r
    OBVIOUS
  <2> HIDE DEF y
  <2>5. QED
    BY <1>4, <2>1, <2>2, <2>3, <2>4 DEF HasAt
<1>5. QED
  BY <1>2, <1>3, <1>4

\* All trees of n, the individuals of a state, have nodes at paths and finitely many.
Placed(n) ==
  \A i \in Both : \A k \in Components :
    DOMAIN n[i][k] \subseteq Path /\ IsFiniteSet(DOMAIN n[i][k])

LEMMA GrownPlaced ==
  ASSUME NEW n, \A i \in Both : \A k \in Components : n[i][k] = Empty \/ Grown(n[i][k])
  PROVE  Placed(n)
<1>1. DOMAIN Empty = {} /\ IsFiniteSet({})
  BY EmptyHeight, FS_EmptySet
<1>2. ASSUME NEW i \in Both, NEW k \in Components
      PROVE  DOMAIN n[i][k] \subseteq Path /\ IsFiniteSet(DOMAIN n[i][k])
  BY <1>1 DEF Grown, Rooted
<1>3. QED
  BY <1>2 DEF Placed

\* The occurrences of a symbol are places that have it.
LEMMA OccurrencesAre ==
  ASSUME NEW n, Placed(n), NEW s
  PROVE  {x \in Places(n) : n[x[1]][x[2]][x[3]] = s} = {x \in Triple : HasAt(n, x, s)}
<1>1. ASSUME NEW x \in Places(n), n[x[1]][x[2]][x[3]] = s
      PROVE  x \in Triple /\ HasAt(n, x, s)
  <2>1. PICK c \in Both \X Components : x \in {<<c[1], c[2], p>> : p \in DOMAIN n[c[1]][c[2]]}
    BY DEF Places
  <2>2. PICK p \in DOMAIN n[c[1]][c[2]] : x = <<c[1], c[2], p>>
    BY <2>1
  <2>3. c[1] \in Both /\ c[2] \in Components
    OBVIOUS
  <2>4. p \in Path
    BY <2>2, <2>3 DEF Placed
  <2>5. x[1] = c[1] /\ x[2] = c[2] /\ x[3] = p
    BY <2>2
  <2>6. QED
    BY <1>1, <2>2, <2>3, <2>4, <2>5 DEF Triple, HasAt
<1>2. ASSUME NEW x \in Triple, HasAt(n, x, s)
      PROVE  x \in Places(n) /\ n[x[1]][x[2]][x[3]] = s
  <2>1. x[1] \in Both /\ x[2] \in Components /\ x = <<x[1], x[2], x[3]>>
    BY TripleParts
  <2>2. x[3] \in DOMAIN n[x[1]][x[2]] /\ n[x[1]][x[2]][x[3]] = s
    BY <1>2 DEF HasAt
  <2> DEFINE c == <<x[1], x[2]>>
  <2>3. c \in Both \X Components /\ c[1] = x[1] /\ c[2] = x[2]
    BY <2>1
  <2> HIDE DEF c
  <2>4. x \in {<<c[1], c[2], p>> : p \in DOMAIN n[c[1]][c[2]]}
    BY <2>1, <2>2, <2>3
  <2>5. x \in Places(n)
    BY <2>3, <2>4 DEF Places
  <2>6. QED
    BY <2>2, <2>5
<1>3. QED
  BY <1>1, <1>2

\* There are finitely many of them.
LEMMA FinitelyPlaced ==
  ASSUME NEW n, Placed(n), IsFiniteSet(Components)
  PROVE  IsFiniteSet(Places(n))
<1> DEFINE C == Both \X Components
           At(c) == {<<c[1], c[2], p>> : p \in DOMAIN n[c[1]][c[2]]}
           f == [c \in C |-> At(c)]
<1>1. IsFiniteSet(C)
  <2>1. IsFiniteSet(Both)
    <3>1. 1 \in Int /\ 2 \in Int
      OBVIOUS
    <3>2. IsFiniteSet(1 .. 2)
      BY <3>1, FS_Interval
    <3>3. QED
      BY <3>2 DEF Both
  <2>2. QED
    BY <2>1, FS_Product
<1>2. ASSUME NEW c \in C PROVE IsFiniteSet(At(c))
  <2> DEFINE D == DOMAIN n[c[1]][c[2]]
             g == [p \in D |-> <<c[1], c[2], p>>]
  <2>1. c[1] \in Both /\ c[2] \in Components
    OBVIOUS
  <2>2. IsFiniteSet(D)
    BY <2>1 DEF Placed
  <2>3. DOMAIN g = D /\ At(c) = {g[p] : p \in D}
    OBVIOUS
  <2> HIDE DEF D, g, At
  <2>4. IsFiniteSet({g[p] : p \in DOMAIN g})
    BY <2>2, <2>3, FiniteImage
  <2>5. QED
    BY <2>3, <2>4
<1>3. DOMAIN f = C /\ Places(n) = UNION {f[c] : c \in C} /\ \A c \in C : f[c] = At(c)
  BY DEF Places
<1> HIDE DEF f, C, At
<1>4. IsFiniteSet({f[c] : c \in DOMAIN f})
  BY <1>1, <1>3, FiniteImage
<1>5. \A T \in {f[c] : c \in C} : IsFiniteSet(T)
  BY <1>2, <1>3
<1>6. IsFiniteSet(UNION {f[c] : c \in C})
  BY <1>3, <1>4, <1>5, FS_UNION
<1>7. QED
  BY <1>3, <1>6

\* Sets that a function pairs have as many elements.
LEMMA PairedSets ==
  ASSUME NEW S, NEW T, IsFiniteSet(S), NEW f \in [S -> T],
         \A x, y \in S : f[x] = f[y] => x = y, \A y \in T : \E x \in S : f[x] = y
  PROVE  Cardinality(T) = Cardinality(S)
<1>1. f \in Injection(S, T) /\ f \in Surjection(S, T)
  BY DEF Injection, IsInjective, Surjection
<1>2. ExistsBijection(S, T)
  BY <1>1 DEF ExistsBijection, Bijection
<1>3. QED
  BY <1>2, FS_Bijection

\* An exchange pairs the nodes before with those after, so none is made and none lost.
LEMMA SwapConserves ==
  ASSUME IInv, NEW p1 \in DOMAIN Tree(1), NEW p2 \in DOMAIN Tree(2), SwapSubtrees(p1, p2)
  PROVE  \A s \in Symbol : Conserved(s)
<1> SUFFICES ASSUME NEW s \in Symbol PROVE Conserved(s)
  OBVIOUS
<1> DEFINE cut == <<p1, p2>>
           S == {x \in Triple : HasAt(nodes, x, s)}
           T == {x \in Triple : HasAt(nodes', x, s)}
           f == [x \in S |-> Crossed(cut, x)]
<1>1. Exchanged(cut)
  BY SwapExchanges
<1> HIDE DEF cut
<1>2. (\A i \in Both : cut[i] \in Path) /\ DrawnInPlace
  BY <1>1 DEF Exchanged, IInv
<1>3. \A x \in Triple : Crossed(cut, x) \in Triple /\ Crossed(cut, Crossed(cut, x)) = x
  BY <1>2, CrossedBack
<1>4. \A x \in Triple : HasAt(nodes, x, s) <=> HasAt(nodes', Crossed(cut, x), s)
  BY <1>1, CrossedHas
<1>5. Placed(nodes) /\ Placed(nodes') /\ IsFiniteSet(Components)
  <2>1. AllGrown' /\ Components' = Components
    BY SwapKeepsGrown, SwapPuts
  <2>2. Placed(nodes')
    BY <2>1, GrownPlaced DEF AllGrown
  <2>3. Placed(nodes)
    BY GrownPlaced DEF IInv, AllGrown
  <2>4. QED
    BY <2>2, <2>3 DEF IInv, Shaped, Components
<1>6. /\ {x \in Places(nodes) : nodes[x[1]][x[2]][x[3]] = s} = S
      /\ {x \in Places(nodes') : nodes'[x[1]][x[2]][x[3]] = s} = T
  BY <1>5, OccurrencesAre
<1>7. IsFiniteSet(S)
  <2>1. IsFiniteSet(Places(nodes))
    BY <1>5, FinitelyPlaced
  <2>2. S \in SUBSET Places(nodes)
    BY <1>6
  <2>3. QED
    BY <2>1, <2>2, FS_Subset
<1>8. f \in [S -> T]
  BY <1>3, <1>4
<1>9. \A x, y \in S : f[x] = f[y] => x = y
  BY <1>3
<1>10. \A y \in T : \E x \in S : f[x] = y
  <2>1. ASSUME NEW y \in T PROVE Crossed(cut, y) \in S /\ f[Crossed(cut, y)] = y
    <3>1. Crossed(cut, y) \in Triple /\ Crossed(cut, Crossed(cut, y)) = y
      BY <1>3
    <3>2. HasAt(nodes, Crossed(cut, y), s)
      BY <1>4, <3>1
    <3>3. QED
      BY <3>1, <3>2
  <2>2. QED
    BY <2>1
<1> HIDE DEF S, T, f
<1>11. Cardinality(T) = Cardinality(S)
  BY <1>7, <1>8, <1>9, <1>10, PairedSets
<1>12. Occurrences(nodes, s) = Cardinality(S)
  BY <1>6 DEF Occurrences
<1>13. Occurrences(nodes', s) = Cardinality(T)
  BY <1>6 DEF Occurrences
<1>14. QED
  BY <1>11, <1>12, <1>13 DEF Conserved

\* Trees that stay keep their nodes, and where they are looked for.
LEMMA SameNodesConserved ==
  ASSUME UNCHANGED nodes
  PROVE  CrossoverConserves
<1>1. \A s \in Symbol : Occurrences(nodes', s) = Occurrences(nodes, s)
  OBVIOUS
<1>2. QED
  BY <1>1 DEF CrossoverConserves, Conserved

\* Only the two crossovers are asked, and they exchange subtrees or change nothing.
LEMMA StepsConserve == IInv /\ [Next]_vars => [CrossoverConserves]_vars
<1> SUFFICES ASSUME IInv, [Next]_vars PROVE CrossoverConserves
  OBVIOUS
<1>1. CASE UNCHANGED nodes
  BY <1>1, SameNodesConserved
<1>2. CASE OnePointDraw
  <2>1. PICK p1 \in DOMAIN Tree(1), p2 \in DOMAIN Tree(2) :
          SwapSubtrees(p1, p2) \/ UNCHANGED nodes
    BY <1>2 DEF OnePointDraw, OnePointMiss
  <2>2. QED
    BY <1>1, <2>1, SwapConserves DEF CrossoverConserves
<1>3. CASE PipDraw
  <2>1. PICK p1 \in candidates[1], p2 \in candidates[2] :
          SwapSubtrees(p1, p2) \/ UNCHANGED nodes
    BY <1>3 DEF PipDraw
  <2>2. p1 \in DOMAIN Tree(1) /\ p2 \in DOMAIN Tree(2)
    BY <1>3, <2>1 DEF PipDraw, IInv, CandidatesInPlace, Both
  <2>3. QED
    BY <1>1, <2>1, <2>2, SwapConserves DEF CrossoverConserves
<1>4. CASE \E i \in Both : SimpleMutation(i)
  BY <1>4 DEF SimpleMutation, Idle, CrossoverConserves
<1>5. CASE \E i \in Both : PointDraw(i)
  <2>1. PICK i \in Both : call = <<"point", i>>
    BY <1>5 DEF PointDraw, Mutating
  <2>2. QED
    BY <2>1 DEF CrossoverConserves
<1>6. QED
  BY <1>1, <1>2, <1>3, <1>4, <1>5
     DEF Next, Draw, OnePoint, Pip, PointMutation, OnePointFails, vars

-----------------------------------------------------------------------------
(* Theorems                                                                 *)

\* In every state of one_point_crossover_strategy, one_point_crossover_pip_strategy,
\* point_mutation and simple_mutation_strategy the trees are trees, what is drawn is a
\* component of the individuals, and the nodes of pip are nodes of the trees drawn.
THEOREM VariationInvariant == Spec => []IInv
  BY InitIInv, NextKeeps, PTL DEF Spec

\* After any sequence of swap_subtrees, of insertions of generated trees and of symbols
\* drawn by arity, each node has exactly the children its symbol takes.
THEOREM VariedTreesAreTrees == Spec => []AritiesMatch
<1>1. IInv => AritiesMatch
  BY GrownWellFormed DEF IInv, AllGrown, AritiesMatch
<1>2. QED
  BY <1>1, VariationInvariant, PTL

\* What one_point_crossover_strategy and point_mutation test before an exchange, the level
\* of the place and the height of what is put there, bounds the height of the whole tree:
\* they lift none above max_height, however often they and the pip strategy are called.
THEOREM NoTreeOutgrowsLimit == Spec => HeightsLimited
<1>1. IInv /\ [Next]_vars => [HeightsKept]_vars
  BY NextKeeps
<1>2. QED
  BY <1>1, VariationInvariant, PTL DEF Spec, HeightsLimited, HeightsKept

\* one_point_crossover_strategy and one_point_crossover_pip_strategy move nodes between the
\* trees: swap_subtrees makes and loses none, wherever it cuts.
THEOREM NodesOnlyMove == Spec => NodesConserved
  BY VariationInvariant, StepsConserve, PTL DEF Spec, NodesConserved
=============================================================================
