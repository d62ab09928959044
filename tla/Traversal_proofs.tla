--------------------------- MODULE Traversal_proofs ---------------------------
(***************************************************************************)
(* Proofs about Traversal for every set of ordered trees: an iterator is    *)
(* where its steps have brought it, a range of a subtree ends exactly where *)
(* a leaf is beside it, and rank_is numbers the nodes level by level.       *)
(***************************************************************************)
EXTENDS Traversal, PathTree_proofs

-----------------------------------------------------------------------------
(* Trees below a header                                                     *)

\* A header with one child, the root.
Headed(t) == Numbered(t) /\ IsFiniteSet(DOMAIN t) /\ Branches(t, <<>>, 1)

\* The trees that are walked over have a header.
LEMMA TreesAreHeaded ==
  ASSUME NEW t \in InitialTrees
  PROVE  Headed(t)
<1>1. Ordered(t) /\ Children(t, <<>>) = {Root}
  BY TraversalAssumption
<1>2. Numbered(t) /\ DOMAIN t \subseteq Path /\ <<>> \in DOMAIN t /\ IsFiniteSet(DOMAIN t)
  BY <1>1, OrderedNumbered DEF Ordered
<1>3. {Append(<<>>, k) : k \in 1 .. 1} = {Root}
  <2>1. Append(<<>>, 1) = Root
    BY OneStep DEF Root
  <2>2. 1 .. 1 = {1}
    OBVIOUS
  <2>3. QED
    BY <2>1, <2>2
<1>4. Branches(t, <<>>, 1)
  BY <1>1, <1>2, <1>3, ChildrenOneByOne
<1>5. QED
  BY <1>2, <1>4 DEF Headed

\* Every node is below the root, and no step to it has the number 0.
LEMMA NodeIs ==
  ASSUME NEW t, Headed(t), NEW q \in Nodes(t)
  PROVE  /\ Numbered(t) /\ Rooted(t) /\ q \in DOMAIN t /\ q \in Path /\ q # <<>>
         /\ Len(q) \in Nat /\ Len(q) >= 1 /\ q[1] = 1
         /\ \A i \in 1 .. Len(q) : q[i] \in Nat /\ q[i] >= 1
<1>1. Numbered(t) /\ Rooted(t) /\ q \in DOMAIN t /\ q \in Path /\ q # <<>>
  BY DEF Headed, Nodes, Numbered, Rooted
<1>2. Len(q) \in Nat /\ Len(q) # 0
  BY <1>1, EmptySeq, LenProperties DEF Path
<1>3. ASSUME NEW i \in 1 .. Len(q) PROVE q[i] \in Nat /\ q[i] >= 1
  <2>1. SubSeq(q, 1, i - 1) \in DOMAIN t /\ q[i] \in 1 .. Size(t, SubSeq(q, 1, i - 1))
    BY <1>1, OnTheWay
  <2>2. QED
    BY <2>1
<1>4. q[1] = 1
  <2>1. /\ SubSeq(q, 1, 1 - 1) \in Path /\ Len(SubSeq(q, 1, 1 - 1)) = 1 - 1
        /\ IsPrefix(Append(SubSeq(q, 1, 1 - 1), q[1]), q)
    BY <1>1, <1>2, FirstSteps
  <2>2. SubSeq(q, 1, 1 - 1) = <<>>
    BY <2>1, EmptySeq DEF Path
  <2>3. IsPrefix(Append(<<>>, q[1]), q)
    BY <2>1, <2>2
  <2>4. 1 \in 1 .. Len(q) /\ q[1] \in Nat
    BY <1>2, <1>3
  <2>5. Append(<<>>, q[1]) \in DOMAIN t
    BY <1>1, <2>3, <2>4, OneStep, PrefixesAreNodes
  <2>6. q[1] \in 1 .. 1
    BY <2>4, <2>5 DEF Headed, Branches
  <2>7. QED
    BY <2>6
<1>5. QED
  BY <1>1, <1>2, <1>3, <1>4

\* The root.
LEMMA RootIs ==
  ASSUME NEW t, Headed(t)
  PROVE  /\ Root \in Nodes(t) /\ Root \in Path /\ Len(Root) = 1 /\ Root[1] = 1
         /\ Size(t, <<>>) = 1 /\ <<>> \in DOMAIN t
         /\ \A q \in Nodes(t) : IsPrefix(Root, q) /\ (Len(q) = 1 => q = Root)
         /\ Shoot \notin Nodes(t) /\ Shoot \in Path
<1>1. Root \in Path /\ Append(<<>>, 1) = Root /\ Len(Root) = 1 /\ Root[1] = 1 /\ Root # <<>>
  BY OneStep DEF Root
<1>2. Root \in DOMAIN t
  BY <1>1 DEF Headed, Branches
<1>3. <<>> \in DOMAIN t
  BY DEF Headed, Numbered, Rooted
<1>4. Size(t, <<>>) = 1
  <2>1. Size(t, <<>>) \in Nat /\ Branches(t, <<>>, Size(t, <<>>)) /\ Branches(t, <<>>, 1)
    BY <1>3, SizeIs DEF Headed
  <2>2. \A k \in Nat : k \in 1 .. Size(t, <<>>) <=> k \in 1 .. 1
    BY <2>1 DEF Branches
  <2>3. QED
    BY <2>1, <2>2
<1>5. ASSUME NEW q \in Nodes(t) PROVE IsPrefix(Root, q) /\ (Len(q) = 1 => q = Root)
  <2>1. q \in Path /\ Len(q) \in Nat /\ Len(q) >= 1 /\ q[1] = 1
    BY NodeIs
  <2>2. \A i \in 1 .. 1 : Root[i] = q[i]
    BY <1>1, <2>1
  <2>3. QED
    BY <1>1, <2>1, <2>2, PrefixPointwise, PathsEqual
<1>6. Shoot \in Path /\ Shoot[1] = 2
  BY OneStep DEF Shoot
<1>7. Shoot \notin Nodes(t)
  BY <1>6, NodeIs
<1>8. QED
  BY <1>1, <1>2, <1>3, <1>4, <1>5, <1>6, <1>7 DEF Nodes

\* The place some steps beside another.
LEMMA BesideIs ==
  ASSUME NEW p \in Path, p # <<>>, NEW d \in Int, p[Len(p)] + d \in Nat
  PROVE  /\ Beside(p, d) \in Path /\ Len(Beside(p, d)) = Len(p) /\ Len(p) \in Nat \ {0}
         /\ \A i \in 1 .. Len(p) - 1 : Beside(p, d)[i] = p[i]
         /\ Beside(p, d)[Len(p)] = p[Len(p)] + d
         /\ Beside(p, d) = Append(SubSeq(p, 1, Len(p) - 1), p[Len(p)] + d)
         /\ Front(Beside(p, d)) = Front(p) /\ Front(p) = SubSeq(p, 1, Len(p) - 1)
         /\ Front(p) \in Path
<1> DEFINE f == SubSeq(p, 1, Len(p) - 1)
           x == p[Len(p)] + d
<1>1. Len(p) \in Nat /\ Len(p) # 0
  BY EmptySeq, LenProperties DEF Path
<1>2. f \in Path /\ Len(f) = Len(p) - 1 /\ \A i \in 1 .. Len(p) - 1 : f[i] = p[i]
  <2>1. Len(p) \in 1 .. Len(p)
    BY <1>1
  <2>2. QED
    BY <2>1, FirstSteps
<1>3. Front(p) = f /\ Beside(p, d) = Append(f, x)
  BY DEF Front, Last, Beside
<1> HIDE DEF f
<1>4. x \in Nat
  OBVIOUS
<1> HIDE DEF x
<1>5. /\ Append(f, x) \in Path /\ Len(Append(f, x)) = Len(f) + 1 /\ Front(Append(f, x)) = f
      /\ \A i \in 1 .. Len(f) : Append(f, x)[i] = f[i]
      /\ Append(f, x)[Len(f) + 1] = x
  BY <1>2, <1>4, FrontOfPath, AppendProperties DEF Path
<1>6. /\ Beside(p, d) \in Path /\ Len(Beside(p, d)) = Len(p)
      /\ \A i \in 1 .. Len(p) - 1 : Beside(p, d)[i] = p[i]
      /\ Beside(p, d)[Len(p)] = x
  BY <1>1, <1>2, <1>3, <1>5
<1>7. QED
  BY <1>1, <1>2, <1>3, <1>5, <1>6 DEF f, x

\* The first k steps, where the last of them may differ.
LEMMA BesideAt ==
  ASSUME NEW c \in Path, NEW k \in 1 .. Len(c), NEW d \in Int, c[k] + d \in Nat
  PROVE  /\ Beside(SubSeq(c, 1, k), d) = Append(SubSeq(c, 1, k - 1), c[k] + d)
         /\ Beside(SubSeq(c, 1, k), d) \in Path /\ Len(Beside(SubSeq(c, 1, k), d)) = k
         /\ \A i \in 1 .. k - 1 : Beside(SubSeq(c, 1, k), d)[i] = c[i]
         /\ Beside(SubSeq(c, 1, k), d)[k] = c[k] + d
<1> DEFINE s == SubSeq(c, 1, k)
           a == SubSeq(c, 1, k - 1)
<1>1. a \in Path /\ Len(a) = k - 1 /\ c[k] \in Nat /\ \A i \in 1 .. k - 1 : a[i] = c[i]
  BY FirstSteps
<1>2. s = Append(a, c[k])
  BY OneStepMore
<1> HIDE DEF s, a
<1>3. s \in Path /\ s # <<>> /\ Len(s) = k /\ Front(s) = a /\ s[k] = c[k]
      /\ \A i \in 1 .. k - 1 : s[i] = a[i]
  <2>1. Append(a, c[k]) \in Path /\ Append(a, c[k]) # <<>> /\ Len(Append(a, c[k])) = Len(a) + 1
        /\ Front(Append(a, c[k])) = a
    BY <1>1, FrontOfPath
  <2>2. Append(a, c[k])[Len(a) + 1] = c[k] /\ \A i \in 1 .. Len(a) : Append(a, c[k])[i] = a[i]
    BY <1>1, AppendProperties DEF Path
  <2>3. QED
    BY <1>1, <1>2, <2>1, <2>2
<1>4. s[Len(s)] + d \in Nat
  BY <1>3
<1>5. /\ Beside(s, d) \in Path /\ Len(Beside(s, d)) = Len(s)
      /\ \A i \in 1 .. Len(s) - 1 : Beside(s, d)[i] = s[i]
      /\ Beside(s, d)[Len(s)] = s[Len(s)] + d
  BY <1>3, <1>4, BesideIs
<1>6. Beside(s, d) = Append(a, c[k] + d)
  BY <1>3 DEF Beside, Last
<1>7. QED
  BY <1>1, <1>3, <1>5, <1>6 DEF s, a

-----------------------------------------------------------------------------
(* To the left, above and below                                             *)

\* A path is only one of these to another: to its left, to its right, above it, below it.
LEMMA LeftExcludes ==
  ASSUME NEW p \in Path, NEW q \in Path, LeftOf(p, q)
  PROVE  ~ IsPrefix(p, q) /\ ~ IsPrefix(q, p) /\ ~ LeftOf(q, p) /\ p # q
<1>1. ~ IsPrefix(q, p)
  BY PassedNotBelow DEF Passed
<1>2. ~ Passed(q, p)
  BY RightNotPassed
<1>3. ~ IsPrefix(p, q)
  <2>1. /\ Len(p) \in Nat /\ Len(q) \in Nat
        /\ IsPrefix(p, q) <=> Len(p) <= Len(q) /\ \A i \in 1 .. Len(p) : p[i] = q[i]
    BY PrefixPointwise
  <2>2. \A i \in 1 .. Len(p) : p[i] \in Nat
    BY ElementOfSeq DEF Path
  <2>3. QED
    BY <2>1, <2>2 DEF LeftOf
<1>4. QED
  BY <1>1, <1>2, <1>3 DEF Passed, LeftOf

\* What is below a path to the left is to the left, also of what is below the other.
LEMMA LeftBelow ==
  ASSUME NEW p \in Path, NEW q \in Path, NEW r \in Path, LeftOf(p, q)
  PROVE  (IsPrefix(q, r) => LeftOf(p, r)) /\ (IsPrefix(p, r) => LeftOf(r, q))
<1>1. /\ Len(p) \in Nat /\ Len(q) \in Nat /\ Len(r) \in Nat
      /\ IsPrefix(q, r) <=> Len(q) <= Len(r) /\ \A i \in 1 .. Len(q) : q[i] = r[i]
      /\ IsPrefix(p, r) <=> Len(p) <= Len(r) /\ \A i \in 1 .. Len(p) : p[i] = r[i]
  BY PrefixPointwise
<1>2. PICK k \in 1 .. Len(p) : k <= Len(q) /\ (\A i \in 1 .. k - 1 : p[i] = q[i]) /\ p[k] < q[k]
  BY DEF LeftOf
<1>3. ASSUME IsPrefix(q, r) PROVE LeftOf(p, r)
  <2>1. k <= Len(r) /\ (\A i \in 1 .. k - 1 : p[i] = r[i]) /\ p[k] < r[k]
    BY <1>1, <1>2, <1>3
  <2>2. QED
    BY <2>1 DEF LeftOf
<1>4. ASSUME IsPrefix(p, r) PROVE LeftOf(r, q)
  <2>1. k \in 1 .. Len(r) /\ (\A i \in 1 .. k - 1 : r[i] = q[i]) /\ r[k] < q[k]
    BY <1>1, <1>2, <1>4
  <2>2. QED
    BY <1>2, <2>1 DEF LeftOf
<1>5. QED
  BY <1>3, <1>4

\* One step more: the values of the path it makes.
LEMMA AppendPointwise ==
  ASSUME NEW q \in Path, NEW k \in Nat
  PROVE  /\ Append(q, k) \in Path /\ Len(Append(q, k)) = Len(q) + 1 /\ Len(q) \in Nat
         /\ Append(q, k)[Len(q) + 1] = k /\ \A i \in 1 .. Len(q) : Append(q, k)[i] = q[i]
  BY FrontOfPath, AppendProperties DEF Path

\* What is below the k-th child of q.
LEMMA BelowChild ==
  ASSUME NEW p \in Path, NEW q \in Path, NEW k \in Nat
  PROVE  IsPrefix(Append(q, k), p) <=> IsPrefix(q, p) /\ Len(q) < Len(p) /\ p[Len(q) + 1] = k
<1> DEFINE a == Append(q, k)
<1>1. /\ a \in Path /\ Len(a) = Len(q) + 1 /\ Len(q) \in Nat
      /\ a[Len(q) + 1] = k /\ \A i \in 1 .. Len(q) : a[i] = q[i]
  BY AppendPointwise
<1> HIDE DEF a
<1>2. /\ Len(p) \in Nat
      /\ IsPrefix(a, p) <=> Len(a) <= Len(p) /\ \A i \in 1 .. Len(a) : a[i] = p[i]
      /\ IsPrefix(q, p) <=> Len(q) <= Len(p) /\ \A i \in 1 .. Len(q) : q[i] = p[i]
  BY <1>1, PrefixPointwise
<1>3. ASSUME IsPrefix(a, p) PROVE IsPrefix(q, p) /\ Len(q) < Len(p) /\ p[Len(q) + 1] = k
  <2>1. Len(q) + 1 <= Len(p) /\ \A i \in 1 .. Len(q) + 1 : a[i] = p[i]
    BY <1>1, <1>2, <1>3
  <2>2. QED
    BY <1>1, <1>2, <2>1
<1>4. ASSUME IsPrefix(q, p), Len(q) < Len(p), p[Len(q) + 1] = k PROVE IsPrefix(a, p)
  <2>1. ASSUME NEW i \in 1 .. Len(q) + 1 PROVE a[i] = p[i]
    BY <1>1, <1>2, <1>4
  <2>2. QED
    BY <1>1, <1>2, <1>4, <2>1
<1>5. QED
  BY <1>3, <1>4 DEF a

\* What is to the left of the k-th child of q.
LEMMA LeftOfChild ==
  ASSUME NEW p \in Path, NEW q \in Path, NEW k \in Nat
  PROVE  LeftOf(p, Append(q, k))
           <=> LeftOf(p, q) \/ (IsPrefix(q, p) /\ Len(q) < Len(p) /\ p[Len(q) + 1] < k)
<1> DEFINE a == Append(q, k)
<1>1. /\ a \in Path /\ Len(a) = Len(q) + 1 /\ Len(q) \in Nat
      /\ a[Len(q) + 1] = k /\ \A i \in 1 .. Len(q) : a[i] = q[i]
  BY AppendPointwise
<1> HIDE DEF a
<1>2. /\ Len(p) \in Nat
      /\ IsPrefix(q, p) <=> Len(q) <= Len(p) /\ \A i \in 1 .. Len(q) : q[i] = p[i]
  BY PrefixPointwise
<1>3. ASSUME LeftOf(p, a) PROVE LeftOf(p, q) \/ (IsPrefix(q, p) /\ Len(q) < Len(p) /\ p[Len(q) + 1] < k)
  <2>1. PICK m \in 1 .. Len(p) : m <= Len(a) /\ (\A i \in 1 .. m - 1 : p[i] = a[i]) /\ p[m] < a[m]
    BY <1>3 DEF LeftOf
  <2>2. CASE m <= Len(q)
    <3>1. (\A i \in 1 .. m - 1 : p[i] = q[i]) /\ p[m] < q[m]
      BY <1>1, <1>2, <2>1, <2>2
    <3>2. QED
      BY <2>2, <3>1 DEF LeftOf
  <2>3. CASE ~ (m <= Len(q))
    <3>1. m = Len(q) + 1
      BY <1>1, <1>2, <2>1, <2>3
    <3>2. QED
      BY <1>1, <1>2, <2>1, <3>1
  <2>4. QED
    BY <2>2, <2>3
<1>4. ASSUME LeftOf(p, q) PROVE LeftOf(p, a)
  <2>1. IsPrefix(q, a)
    BY <1>1, PrefixPointwise
  <2>2. QED
    BY <1>1, <1>4, <2>1, LeftBelow
<1>5. ASSUME IsPrefix(q, p), Len(q) < Len(p), p[Len(q) + 1] < k PROVE LeftOf(p, a)
  <2>1. Len(q) + 1 \in 1 .. Len(p) /\ Len(q) + 1 <= Len(a) /\ p[Len(q) + 1] < a[Len(q) + 1]
    BY <1>1, <1>2, <1>5
  <2>2. \A i \in 1 .. (Len(q) + 1) - 1 : p[i] = a[i]
    BY <1>1, <1>2, <1>5
  <2>3. QED
    BY <2>1, <2>2 DEF LeftOf
<1>6. QED
  BY <1>3, <1>4, <1>5 DEF a

-----------------------------------------------------------------------------
(* Down to a leaf                                                           *)

\* q is below c, and from c on each step to it is the one that g chooses.
Along(t, c, g, q) ==
  q \in Below(t, c) /\ \A i \in Len(c) + 1 .. Len(q) : q[i] = g[SubSeq(q, 1, i - 1)]

\* A choice of a child for every node that has one.
Choice(t, g) == \A p \in DOMAIN t : Size(t, p) # 0 => g[p] \in 1 .. Size(t, p)

\* Whatever the choice, the way leads on to a longer one, unless it is at a leaf.
LEMMA AlongOn ==
  ASSUME NEW t, Numbered(t), NEW c \in DOMAIN t, NEW g, Choice(t, g),
         NEW q, Along(t, c, g, q), Size(t, q) # 0
  PROVE  Along(t, c, g, Append(q, g[q])) /\ Len(Append(q, g[q])) = Len(q) + 1
<1>1. q \in DOMAIN t /\ q \in Path /\ c \in Path /\ IsPrefix(c, q)
  BY DEF Along, Below, Numbered, Rooted
<1>2. g[q] \in 1 .. Size(t, q) /\ Size(t, q) \in Nat /\ Branches(t, q, Size(t, q))
  BY <1>1, SizeIs DEF Choice
<1> DEFINE k == g[q]
           a == Append(q, k)
<1>3. k \in Nat
  BY <1>2
<1>4. a \in DOMAIN t
  BY <1>2, <1>3 DEF Branches
<1>5. /\ a \in Path /\ Len(a) = Len(q) + 1 /\ Len(q) \in Nat
      /\ a[Len(q) + 1] = k /\ \A i \in 1 .. Len(q) : a[i] = q[i]
  BY <1>1, <1>3, AppendPointwise
<1>6. IsPrefix(c, a)
  BY <1>1, <1>3, PrefixOfAppend
<1>7. Len(c) \in Nat
  BY <1>1, LenProperties DEF Path
<1> HIDE DEF a, k
<1>8. ASSUME NEW i \in Len(c) + 1 .. Len(a) PROVE a[i] = g[SubSeq(a, 1, i - 1)]
  <2>1. i \in 1 .. Len(a) /\ i - 1 \in Nat /\ i - 1 <= Len(q)
    BY <1>5, <1>7
  <2>2. /\ SubSeq(a, 1, i - 1) \in Path /\ Len(SubSeq(a, 1, i - 1)) = i - 1
        /\ \A j \in 1 .. i - 1 : SubSeq(a, 1, i - 1)[j] = a[j]
    BY <1>5, <2>1, FirstSteps
  <2>3. CASE i = Len(q) + 1
    <3> DEFINE b == SubSeq(a, 1, i - 1)
    <3>1. b \in Path /\ Len(b) = Len(q) /\ \A j \in 1 .. Len(b) : b[j] = q[j]
      BY <1>5, <2>2, <2>3
    <3> HIDE DEF b
    <3>2. b = q
      BY <1>1, <3>1, PathsEqual
    <3>3. QED
      BY <1>5, <2>3, <3>2 DEF b, k
  <2>4. CASE i # Len(q) + 1
    <3>1. i \in 1 .. Len(q) /\ i \in Len(c) + 1 .. Len(q)
      BY <1>5, <1>7, <2>1, <2>4
    <3>2. /\ SubSeq(q, 1, i - 1) \in Path /\ Len(SubSeq(q, 1, i - 1)) = i - 1
          /\ \A j \in 1 .. i - 1 : SubSeq(q, 1, i - 1)[j] = q[j]
      BY <1>1, <3>1, FirstSteps
    <3>3. \A j \in 1 .. i - 1 : a[j] = q[j]
      BY <1>5, <3>1
    <3>4. SubSeq(a, 1, i - 1) = SubSeq(q, 1, i - 1)
      BY <2>2, <3>2, <3>3, PathsEqual
    <3>5. q[i] = g[SubSeq(q, 1, i - 1)]
      BY <3>1 DEF Along
    <3>6. QED
      BY <1>5, <3>1, <3>4, <3>5
  <2>5. QED
    BY <2>3, <2>4
<1>9. QED
  BY <1>4, <1>5, <1>6, <1>8 DEF Along, Below, a, k

\* There is one leaf that a choice leads to, and no more.
LEMMA OneLeafAlong ==
  ASSUME NEW t, Numbered(t), IsFiniteSet(DOMAIN t), NEW c \in DOMAIN t, NEW g, Choice(t, g)
  PROVE  /\ \E q : Along(t, c, g, q) /\ Size(t, q) = 0
         /\ \A p, q : /\ Along(t, c, g, p) /\ Size(t, p) = 0
                      /\ Along(t, c, g, q) /\ Size(t, q) = 0
                      => p = q
<1>1. DOMAIN t \subseteq Path /\ c \in Path
  BY DEF Numbered, Rooted
<1>2. \A q : Along(t, c, g, q) => q \in DOMAIN t /\ q \in Path /\ IsPrefix(c, q)
  BY <1>1 DEF Along, Below
<1> DEFINE S == {Len(q) : q \in {q \in DOMAIN t : Along(t, c, g, q)}}
<1>3. \E q : Along(t, c, g, q) /\ Size(t, q) = 0
  <2>1. PICK b \in Nat : \A p \in DOMAIN t : Len(p) <= b
    BY <1>1, FinitelyLong
  <2>2. Along(t, c, g, c)
    <3>1. Len(c) \in Nat /\ IsPrefix(c, c)
      BY <1>1, PrefixPointwise
    <3>2. \A i \in Len(c) + 1 .. Len(c) : FALSE
      BY <3>1
    <3>3. QED
      BY <3>1, <3>2 DEF Along, Below
  <2>3. S \subseteq Nat /\ S # {} /\ \A x \in S : x <= b
    <3>1. \A q \in DOMAIN t : Len(q) \in Nat
      BY <1>1, LenProperties DEF Path
    <3>2. QED
      BY <2>1, <2>2, <3>1
  <2> HIDE DEF S
  <2>4. Max(S) \in S /\ \A x \in S : x <= Max(S)
    BY <2>3, LargestNumber
  <2>5. PICK q \in DOMAIN t : Along(t, c, g, q) /\ Len(q) = Max(S)
    BY <2>4 DEF S
  <2>6. ASSUME Size(t, q) # 0 PROVE FALSE
    <3>1. Along(t, c, g, Append(q, g[q])) /\ Len(Append(q, g[q])) = Len(q) + 1
      BY <2>5, <2>6, AlongOn
    <3>2. Len(q) + 1 \in S
      BY <1>2, <3>1 DEF S
    <3>3. Len(q) \in Nat
      BY <1>1, LenProperties DEF Path
    <3>4. QED
      BY <2>4, <2>5, <3>2, <3>3
  <2>7. QED
    BY <2>5, <2>6
<1>4. ASSUME NEW p, NEW q, Along(t, c, g, p), Along(t, c, g, q), LeftOf(p, q) PROVE FALSE
  <2>1. p \in Path /\ q \in Path /\ IsPrefix(c, p) /\ IsPrefix(c, q)
    BY <1>2, <1>4
  <2>2. PICK m \in 1 .. Len(p) : m <= Len(q) /\ (\A i \in 1 .. m - 1 : p[i] = q[i]) /\ p[m] < q[m]
    BY <1>4 DEF LeftOf
  <2>3. /\ Len(c) \in Nat /\ Len(p) \in Nat /\ Len(q) \in Nat
        /\ \A i \in 1 .. Len(c) : c[i] = p[i]
        /\ \A i \in 1 .. Len(c) : c[i] = q[i]
    BY <1>1, <2>1, PrefixPointwise
  <2>4. p[m] \in Nat /\ q[m] \in Nat
    BY <2>1, <2>2, <2>3, ElementOfSeq DEF Path
  <2>5. m > Len(c)
    BY <2>2, <2>3, <2>4
  <2>6. p[m] = g[SubSeq(p, 1, m - 1)] /\ q[m] = g[SubSeq(q, 1, m - 1)]
    BY <1>4, <2>2, <2>3, <2>5 DEF Along
  <2>7. SubSeq(p, 1, m - 1) = SubSeq(q, 1, m - 1)
    <3>1. m \in 1 .. Len(p) /\ m \in 1 .. Len(q)
      BY <2>2, <2>3
    <3>2. /\ SubSeq(p, 1, m - 1) \in Path /\ Len(SubSeq(p, 1, m - 1)) = m - 1
          /\ \A j \in 1 .. m - 1 : SubSeq(p, 1, m - 1)[j] = p[j]
          /\ SubSeq(q, 1, m - 1) \in Path /\ Len(SubSeq(q, 1, m - 1)) = m - 1
          /\ \A j \in 1 .. m - 1 : SubSeq(q, 1, m - 1)[j] = q[j]
      BY <2>1, <3>1, FirstSteps
    <3>3. QED
      BY <2>2, <3>2, PathsEqual
  <2>8. p[m] = q[m]
    BY <2>6, <2>7
  <2>9. QED
    BY <2>2, <2>4, <2>8
<1>5. ASSUME NEW p, NEW q, Along(t, c, g, p), Size(t, p) = 0, Along(t, c, g, q), Size(t, q) = 0
      PROVE  p = q
  <2>1. p \in DOMAIN t /\ q \in DOMAIN t /\ p \in Path /\ q \in Path
    BY <1>2, <1>5
  <2>2. ~ LeftOf(p, q) /\ ~ LeftOf(q, p)
    BY <1>4, <1>5
  <2>3. IsPrefix(p, q) \/ IsPrefix(q, p)
    BY <2>1, <2>2, PathsCompare
  <2>4. QED
    BY <1>5, <2>1, <2>3, BelowLeaf
<1>6. QED
  BY <1>3, <1>5

\* The first leaf below c.
LEMMA FirstIs ==
  ASSUME NEW t, Numbered(t), IsFiniteSet(DOMAIN t), NEW c \in DOMAIN t
  PROVE  /\ First(t, c) \in DOMAIN t /\ First(t, c) \in Path /\ IsPrefix(c, First(t, c))
         /\ Empty(t, First(t, c)) /\ \A i \in Len(c) + 1 .. Len(First(t, c)) : First(t, c)[i] = 1
         /\ \A q \in DOMAIN t :
              IsPrefix(c, q) /\ Empty(t, q) /\ (\A i \in Len(c) + 1 .. Len(q) : q[i] = 1)
              => q = First(t, c)
<1> DEFINE g == [p \in DOMAIN t |-> 1]
           IsIt(q) == Empty(t, q) /\ \A i \in Len(c) + 1 .. Len(q) : q[i] = 1
<1>1. Choice(t, g)
  <2>1. \A p \in DOMAIN t : Size(t, p) \in Nat
    BY SizeIs
  <2>2. QED
    BY <2>1 DEF Choice
<1>2. DOMAIN t \subseteq Path /\ c \in Path /\ Rooted(t) /\ Len(c) \in Nat
  BY LenProperties DEF Numbered, Rooted, Path
<1>3. ASSUME NEW q \in DOMAIN t, NEW i \in Len(c) + 1 .. Len(q) PROVE g[SubSeq(q, 1, i - 1)] = 1
  <2>1. i \in 1 .. Len(q)
    BY <1>2
  <2>2. QED
    BY <2>1, OnTheWay
<1> HIDE DEF g
<1>4. \A q : Along(t, c, g, q) /\ Size(t, q) = 0 <=> q \in Below(t, c) /\ IsIt(q)
  <2>1. \A q \in Below(t, c) : q \in DOMAIN t
    BY DEF Below
  <2>2. QED
    BY <1>3, <2>1 DEF Along, Empty
<1> HIDE DEF IsIt
<1>5. /\ \E q : q \in Below(t, c) /\ IsIt(q)
      /\ \A p, q : p \in Below(t, c) /\ IsIt(p) /\ q \in Below(t, c) /\ IsIt(q) => p = q
  BY <1>1, <1>4, OneLeafAlong
<1>6. First(t, c) = CHOOSE p \in Below(t, c) : IsIt(p)
  BY DEF First, IsIt
<1>7. First(t, c) \in Below(t, c) /\ IsIt(First(t, c))
  BY <1>5, <1>6
<1>8. QED
  BY <1>2, <1>5, <1>7 DEF IsIt, Below

\* The last leaf below c.
LEMMA DeepestIs ==
  ASSUME NEW t, Numbered(t), IsFiniteSet(DOMAIN t), NEW c \in DOMAIN t
  PROVE  /\ Deepest(t, c) \in DOMAIN t /\ Deepest(t, c) \in Path /\ IsPrefix(c, Deepest(t, c))
         /\ Empty(t, Deepest(t, c))
         /\ \A i \in Len(c) + 1 .. Len(Deepest(t, c)) :
              Deepest(t, c)[i] = Size(t, SubSeq(Deepest(t, c), 1, i - 1))
<1> DEFINE g == [p \in DOMAIN t |-> Size(t, p)]
           IsIt(q) == Empty(t, q) /\ \A i \in Len(c) + 1 .. Len(q) : q[i] = Size(t, SubSeq(q, 1, i - 1))
<1>1. Choice(t, g)
  <2>1. \A p \in DOMAIN t : Size(t, p) \in Nat
    BY SizeIs
  <2>2. QED
    BY <2>1 DEF Choice
<1>2. DOMAIN t \subseteq Path /\ c \in Path /\ Rooted(t) /\ Len(c) \in Nat
  BY LenProperties DEF Numbered, Rooted, Path
<1>3. ASSUME NEW q \in DOMAIN t, NEW i \in Len(c) + 1 .. Len(q)
      PROVE  g[SubSeq(q, 1, i - 1)] = Size(t, SubSeq(q, 1, i - 1))
  <2>1. i \in 1 .. Len(q)
    BY <1>2
  <2>2. QED
    BY <2>1, OnTheWay
<1> HIDE DEF g
<1>4. \A q : Along(t, c, g, q) /\ Size(t, q) = 0 <=> q \in Below(t, c) /\ IsIt(q)
  <2>1. \A q \in Below(t, c) : q \in DOMAIN t
    BY DEF Below
  <2>2. QED
    BY <1>3, <2>1 DEF Along, Empty
<1> HIDE DEF IsIt
<1>5. \E q : q \in Below(t, c) /\ IsIt(q)
  BY <1>1, <1>4, OneLeafAlong
<1>6. Deepest(t, c) = CHOOSE p \in Below(t, c) : IsIt(p)
  BY DEF Deepest, IsIt
<1>7. Deepest(t, c) \in Below(t, c) /\ IsIt(Deepest(t, c))
  BY <1>5, <1>6
<1>8. QED
  BY <1>2, <1>7 DEF IsIt, Below

-----------------------------------------------------------------------------
(* The orders                                                               *)

\* d comes next after c: what is before it is c and what is before c.
Follows(order, t, c, d) ==
  IF d = Shoot THEN \A q \in Nodes(t) : q = c \/ Precedes(order, q, c)
  ELSE d \in Nodes(t) /\ \A q \in Nodes(t) : Precedes(order, q, d) <=> q = c \/ Precedes(order, q, c)

LEMMA PrecedesIs ==
  ASSUME NEW p, NEW q
  PROVE  /\ Precedes("preorder", p, q) <=> Passed(p, q)
         /\ Precedes("postorder", p, q) <=> (IsPrefix(q, p) /\ p # q) \/ LeftOf(p, q)
         /\ Precedes("level", p, q) <=> Len(p) < Len(q) \/ (Len(p) = Len(q) /\ LeftOf(p, q))
  BY DEF Precedes, Passed, IsStrictPrefix

\* Nothing comes before itself.
LEMMA NotBeforeItself ==
  ASSUME NEW p \in Path, NEW order \in {"preorder", "postorder", "level"}
  PROVE  ~ Precedes(order, p, p)
<1>1. ~ LeftOf(p, p)
  BY LeftExcludes
<1>2. Len(p) \in Nat
  BY LenProperties DEF Path
<1>3. QED
  BY <1>1, <1>2, PrecedesIs DEF Passed

\* A node other than the root is a child of another node.
LEMMA ParentIs ==
  ASSUME NEW t, Headed(t), NEW c \in Nodes(t), c # Root
  PROVE  /\ Front(c) \in Nodes(t) /\ Front(c) \in Path /\ Front(c) = SubSeq(c, 1, Len(c) - 1)
         /\ Len(Front(c)) = Len(c) - 1 /\ Len(c) \in Nat /\ Len(c) >= 2
         /\ c[Len(c)] \in 1 .. Size(t, Front(c)) /\ c = Append(Front(c), c[Len(c)])
         /\ Size(t, Front(c)) \in Nat /\ Branches(t, Front(c), Size(t, Front(c)))
         /\ Len(c) \in Unfinished(t, c) <=> c[Len(c)] < Size(t, Front(c))
<1>1. /\ Numbered(t) /\ c \in DOMAIN t /\ c \in Path /\ Len(c) \in Nat /\ Len(c) >= 1
      /\ (Len(c) = 1 => c = Root)
  BY NodeIs, RootIs
<1>2. Len(c) >= 2 /\ Len(c) \in 1 .. Len(c)
  <2>1. Len(c) # 1
    BY <1>1
  <2> DEFINE n == Len(c)
  <2>2. n \in Nat /\ n >= 1 /\ n # 1
    BY <1>1, <2>1
  <2> HIDE DEF n
  <2>3. n >= 2 /\ n \in 1 .. n
    BY <2>2
  <2>4. QED
    BY <2>3 DEF n
<1>3. Front(c) = SubSeq(c, 1, Len(c) - 1)
  BY DEF Front
<1>4. /\ Front(c) \in Path /\ Len(Front(c)) = Len(c) - 1
  BY <1>1, <1>2, <1>3, FirstSteps
<1>5. Front(c) \in DOMAIN t /\ c[Len(c)] \in 1 .. Size(t, Front(c))
  BY <1>1, <1>2, <1>3, OnTheWay
<1>6. Front(c) # <<>>
  BY <1>2, <1>4
<1>7. c = Append(Front(c), c[Len(c)])
  <2>1. SubSeq(c, 1, Len(c)) = c
    BY <1>1, SubSeqFull DEF Path
  <2>2. SubSeq(c, 1, Len(c)) = Append(SubSeq(c, 1, Len(c) - 1), c[Len(c)])
    BY <1>1, <1>2, OneStepMore
  <2>3. QED
    BY <1>3, <2>1, <2>2
<1>8. Size(t, Front(c)) \in Nat /\ Branches(t, Front(c), Size(t, Front(c)))
  BY <1>1, <1>5, SizeIs
<1>9. Len(c) \in Unfinished(t, c) <=> c[Len(c)] < Size(t, Front(c))
  BY <1>1, <1>2, <1>3, UnfinishedLevels
<1>10. QED
  BY <1>1, <1>2, <1>3, <1>4, <1>5, <1>6, <1>7, <1>8, <1>9 DEF Nodes

\* At the root no level is unfinished.
LEMMA RootFinished ==
  ASSUME NEW t, Headed(t)
  PROVE  Unfinished(t, Root) = {}
<1>1. Root \in Nodes(t) /\ Root \in Path /\ Len(Root) = 1 /\ Root[1] = 1 /\ Size(t, <<>>) = 1
  BY RootIs
<1>2. Numbered(t) /\ Root \in DOMAIN t
  BY <1>1, NodeIs
<1>3. SubSeq(Root, 1, 1 - 1) = <<>>
  <2>1. SubSeq(Root, 1, 1 - 1) \in Path /\ Len(SubSeq(Root, 1, 1 - 1)) = 1 - 1
    BY <1>1, FirstSteps
  <2>2. QED
    BY <2>1, EmptySeq DEF Path
<1>4. 1 \notin Unfinished(t, Root)
  <2>1. \A i \in 1 .. Len(Root) :
          i \in Unfinished(t, Root) <=> Root[i] < Size(t, SubSeq(Root, 1, i - 1))
    BY <1>2, UnfinishedLevels
  <2>2. 1 \in 1 .. Len(Root)
    BY <1>1
  <2>3. 1 \in Unfinished(t, Root) <=> Root[1] < Size(t, SubSeq(Root, 1, 1 - 1))
    BY <2>1, <2>2
  <2>4. ~ (Root[1] < Size(t, SubSeq(Root, 1, 1 - 1)))
    <3>1. Size(t, SubSeq(Root, 1, 1 - 1)) = Size(t, <<>>)
      BY <1>3, Zenon
    <3> DEFINE m == Size(t, SubSeq(Root, 1, 1 - 1))
    <3>2. m = 1
      BY <1>1, <3>1, Zenon
    <3> HIDE DEF m
    <3>3. ~ (Root[1] < m)
      BY <1>1, <3>2
    <3>4. QED
      BY <3>3 DEF m
  <2>5. QED
    BY <2>3, <2>4
<1>5. Unfinished(t, Root) \subseteq 1 .. 1
  BY <1>1, <1>2, UnfinishedLevels
<1>6. QED
  BY <1>4, <1>5

\* ++ of preorder_policy.
LEMMA PreorderFollows ==
  ASSUME NEW t, Headed(t), NEW c \in Nodes(t)
  PROVE  Follows("preorder", t, c, PreorderSuccessor(t, c))
<1> DEFINE d == PreorderSuccessor(t, c)
<1>1. /\ Numbered(t) /\ c \in DOMAIN t /\ c \in Path /\ Len(c) \in Nat
      /\ Size(t, c) \in Nat /\ Branches(t, c, Size(t, c))
  BY NodeIs, SizeIs
<1>2. \A q \in Nodes(t) : q \in DOMAIN t /\ q \in Path /\ Len(q) \in Nat
  BY NodeIs
<1>3. Shoot \notin Nodes(t)
  BY RootIs
<1>4. CASE ~ Empty(t, c)
  <2>1. d = Append(c, 1)
    BY <1>4 DEF PreorderSuccessor
  <2>2. d \in DOMAIN t /\ d \in Path /\ d # <<>> /\ Len(d) = Len(c) + 1
    <3>1. 1 \in 1 .. Size(t, c)
      BY <1>1, <1>4 DEF Empty
    <3>2. Append(c, 1) \in DOMAIN t
      BY <1>1, <3>1 DEF Branches
    <3>3. Append(c, 1) \in Path /\ Append(c, 1) # <<>> /\ Len(Append(c, 1)) = Len(c) + 1
      BY <1>1, FrontOfPath
    <3> HIDE DEF d
    <3>4. QED
      BY <2>1, <3>2, <3>3
  <2>3. ASSUME NEW q \in Nodes(t) PROVE Passed(q, d) <=> q = c \/ Passed(q, c)
    <3>1. Passed(q, d) => q = c \/ Passed(q, c)
      BY <1>1, <1>2, <2>1, PassedByDescent
    <3>2. IsPrefix(q, c) => IsPrefix(q, d) /\ q # d
      <4>1. IsPrefix(q, c) => IsPrefix(q, d)
        BY <1>1, <1>2, <2>1, PrefixOfAppend
      <4>2. IsPrefix(q, c) => Len(q) <= Len(c)
        BY <1>1, <1>2, PrefixPointwise
      <4>3. QED
        BY <1>1, <2>2, <4>1, <4>2
    <3>3. LeftOf(q, c) => LeftOf(q, d)
      BY <1>1, <1>2, <2>1, LeftOfChild
    <3>4. IsPrefix(c, c)
      BY <1>1, PrefixPointwise
    <3>5. QED
      BY <3>1, <3>2, <3>3, <3>4 DEF Passed
  <2> HIDE DEF d
  <2>4. d \in Nodes(t) /\ d # Shoot
    BY <1>3, <2>2 DEF Nodes
  <2>5. QED
    BY <2>3, <2>4, PrecedesIs DEF Follows, d
<1>5. CASE Empty(t, c) /\ Unfinished(t, c) = {}
  <2>1. d = Shoot
    BY <1>5 DEF PreorderSuccessor
  <2>2. \A q \in Nodes(t) : q = c \/ Passed(q, c)
    BY <1>1, <1>2, <1>5, AllPassed DEF Empty
  <2>3. QED
    BY <2>1, <2>2, PrecedesIs DEF Follows
<1>6. CASE Empty(t, c) /\ Unfinished(t, c) # {}
  <2> DEFINE k == Max(Unfinished(t, c))
             a == SubSeq(c, 1, k - 1)
  <2>1. k \in 1 .. Len(c) /\ k \in Unfinished(t, c)
    BY <1>1, <1>6, LastUnfinished
  <2>2. a \in DOMAIN t /\ c[k] \in 1 .. Size(t, a) /\ c[k] < Size(t, a) /\ c[k] \in Nat
    BY <1>1, <2>1, OnTheWay, UnfinishedLevels
  <2>3. /\ a \in Path /\ Len(a) = k - 1 /\ \A i \in 1 .. k - 1 : a[i] = c[i]
    BY <1>1, <2>1, FirstSteps
  <2>4. d = Append(a, c[k] + 1)
    <3>1. d = Beside(SubSeq(c, 1, k), 1)
      BY <1>6 DEF PreorderSuccessor
    <3>2. c[k] + 1 \in Nat
      BY <2>2
    <3>3. QED
      BY <1>1, <2>1, <3>1, <3>2, BesideAt
  <2>5. ASSUME NEW q \in Nodes(t), Passed(q, d) PROVE q = c \/ Passed(q, c)
    BY <1>1, <1>2, <1>6, <2>4, <2>5, PassedByReturn DEF Empty
  <2> HIDE DEF d, a, k
  <2>6. Size(t, a) \in Nat /\ Branches(t, a, Size(t, a))
    BY <1>1, <2>2, SizeIs
  <2>7. d \in DOMAIN t /\ d \in Path /\ d # <<>> /\ Len(d) = k
    <3>1. c[k] + 1 \in 1 .. Size(t, a) /\ c[k] + 1 \in Nat
      BY <2>2, <2>6
    <3>2. d \in DOMAIN t
      BY <2>4, <2>6, <3>1 DEF Branches
    <3>3. d \in Path /\ d # <<>> /\ Len(d) = Len(a) + 1
      BY <2>3, <2>4, <3>1, FrontOfPath
    <3>4. QED
      BY <2>1, <2>3, <3>2, <3>3
  <2>8. ASSUME NEW q \in Nodes(t), q = c \/ Passed(q, c) PROVE Passed(q, d)
    <3>1. q \in Path /\ Len(q) \in Nat /\ \A i \in 1 .. Len(q) : q[i] \in Nat
      BY <1>2, ElementOfSeq DEF Path
    <3>2. LeftOf(q, d) <=> LeftOf(q, a) \/ (IsPrefix(a, q) /\ Len(a) < Len(q) /\ q[Len(a) + 1] < c[k] + 1)
      <4>1. c[k] + 1 \in Nat
        BY <2>2
      <4>2. QED
        BY <2>3, <2>4, <3>1, <4>1, LeftOfChild
    <3>3. Len(a) + 1 = k
      BY <2>1, <2>3
    <3>4. IsPrefix(a, q) <=> Len(a) <= Len(q) /\ \A i \in 1 .. Len(a) : a[i] = q[i]
      BY <2>3, <3>1, PrefixPointwise
    <3>5. CASE IsPrefix(q, c)
      <4>1. Len(q) <= Len(c) /\ \A i \in 1 .. Len(q) : q[i] = c[i]
        BY <1>1, <3>1, <3>5, PrefixPointwise
      <4>2. CASE Len(q) < k
        <5>1. Len(q) <= Len(a) /\ \A i \in 1 .. Len(q) : q[i] = a[i]
          BY <2>1, <2>3, <3>1, <4>1, <4>2
        <5>2. IsPrefix(q, a)
          BY <2>3, <3>1, <5>1, PrefixPointwise
        <5>3. c[k] + 1 \in Nat
          BY <2>2
        <5>4. IsPrefix(q, d) /\ q # d
          BY <2>3, <2>4, <2>7, <3>1, <4>2, <5>2, <5>3, PrefixOfAppend
        <5>5. QED
          BY <5>4 DEF Passed
      <4>3. CASE ~ (Len(q) < k)
        <5>0. k \in Nat /\ k >= 1 /\ k <= Len(q)
          BY <2>1, <3>1, <4>3
        <5>1. k <= Len(q) /\ Len(a) < Len(q) /\ q[k] = c[k] /\ \A i \in 1 .. Len(a) : a[i] = q[i]
          BY <2>3, <3>1, <3>3, <4>1, <5>0
        <5>2. QED
          BY <2>2, <3>2, <3>3, <3>4, <5>1 DEF Passed
      <4>4. QED
        BY <4>2, <4>3
    <3>6. CASE LeftOf(q, c)
      <4>1. PICK m \in 1 .. Len(q) : m <= Len(c) /\ (\A i \in 1 .. m - 1 : q[i] = c[i]) /\ q[m] < c[m]
        BY <3>6 DEF LeftOf
      <4>2. CASE m < k
        <5>1. m <= Len(a) /\ (\A i \in 1 .. m - 1 : q[i] = a[i]) /\ q[m] < a[m]
          BY <2>1, <2>3, <4>1, <4>2
        <5>2. LeftOf(q, a)
          BY <5>1 DEF LeftOf
        <5>3. QED
          BY <3>2, <5>2 DEF Passed
      <4>3. CASE ~ (m < k)
        <5>1. Len(a) < Len(q) /\ \A i \in 1 .. Len(a) : a[i] = q[i]
          BY <2>1, <2>3, <3>1, <4>1, <4>3
        <5>2. q[k] <= c[k]
          BY <2>1, <2>2, <3>1, <4>1, <4>3
        <5>3. k \in 1 .. Len(q)
          BY <2>1, <3>1, <4>1, <4>3
        <5>4. q[k] < c[k] + 1
          BY <2>2, <3>1, <5>2, <5>3
        <5>5. QED
          BY <3>2, <3>3, <3>4, <5>1, <5>4 DEF Passed
      <4>4. QED
        BY <4>2, <4>3
    <3>7. IsPrefix(c, c)
      BY <1>1, PrefixPointwise
    <3>8. QED
      BY <2>8, <3>5, <3>6, <3>7 DEF Passed
  <2>9. d \in Nodes(t) /\ d # Shoot
    BY <1>3, <2>7 DEF Nodes
  <2>10. QED
    BY <2>5, <2>8, <2>9, PrecedesIs DEF Follows, d
<1>7. QED
  BY <1>4, <1>5, <1>6

\* In postorder, a child and what is before it: what is left of its parent, or below the
\* parent and not to the right of the child.
LEMMA UpToChild ==
  ASSUME NEW f \in Path, NEW m \in Nat, NEW c, c = Append(f, m), NEW q \in Path
  PROVE  q = c \/ Precedes("postorder", q, c)
           <=> LeftOf(q, f) \/ (IsPrefix(f, q) /\ Len(f) < Len(q) /\ q[Len(f) + 1] <= m)
<1>1. c \in Path /\ Len(f) \in Nat /\ Len(q) \in Nat
  BY FrontOfPath, LenProperties DEF Path
<1>2. IsPrefix(c, c)
  BY <1>1, PrefixPointwise
<1>3. q = c \/ Precedes("postorder", q, c) <=> IsPrefix(c, q) \/ LeftOf(q, c)
  BY <1>2, PrecedesIs
<1>4. IsPrefix(c, q) <=> IsPrefix(f, q) /\ Len(f) < Len(q) /\ q[Len(f) + 1] = m
  BY BelowChild
<1>5. LeftOf(q, c) <=> LeftOf(q, f) \/ (IsPrefix(f, q) /\ Len(f) < Len(q) /\ q[Len(f) + 1] < m)
  BY LeftOfChild
<1>6. Len(f) < Len(q) => q[Len(f) + 1] \in Nat
  <2>1. Len(f) < Len(q) => Len(f) + 1 \in 1 .. Len(q)
    BY <1>1
  <2>2. QED
    BY <2>1, ElementOfSeq DEF Path
<1>7. QED
  BY <1>3, <1>4, <1>5, <1>6

\* What is left of the first leaf below a node is left of the node.
LEMMA LeftOfFirst ==
  ASSUME NEW t, Headed(t), NEW c \in Nodes(t), NEW q \in Nodes(t)
  PROVE  /\ First(t, c) \in Nodes(t)
         /\ Precedes("postorder", q, First(t, c)) <=> LeftOf(q, c)
<1> DEFINE d == First(t, c)
<1>1. /\ Numbered(t) /\ IsFiniteSet(DOMAIN t) /\ c \in DOMAIN t /\ c \in Path /\ c # <<>>
      /\ Len(c) \in Nat /\ Len(c) >= 1
  BY NodeIs DEF Headed
<1>2. /\ q \in DOMAIN t /\ q \in Path /\ Len(q) \in Nat
      /\ \A i \in 1 .. Len(q) : q[i] \in Nat /\ q[i] >= 1
  BY NodeIs
<1>3. /\ d \in DOMAIN t /\ d \in Path /\ IsPrefix(c, d) /\ Empty(t, d)
      /\ \A i \in Len(c) + 1 .. Len(d) : d[i] = 1
  BY <1>1, FirstIs
<1> HIDE DEF d
<1>4. Len(d) \in Nat /\ Len(c) <= Len(d) /\ \A i \in 1 .. Len(c) : c[i] = d[i]
  BY <1>1, <1>3, PrefixPointwise
<1>5. d \in Nodes(t)
  <2>1. Len(d) # 0
    BY <1>1, <1>4
  <2>2. d # <<>>
    BY <2>1
  <2>3. QED
    BY <1>3, <2>2 DEF Nodes
<1>6. IsPrefix(d, q) => q = d
  BY <1>1, <1>2, <1>3, BelowLeaf DEF Empty
<1>7. LeftOf(q, c) => LeftOf(q, d)
  BY <1>1, <1>2, <1>3, LeftBelow
<1>8. ASSUME LeftOf(q, d) PROVE LeftOf(q, c)
  <2>1. PICK m \in 1 .. Len(q) : m <= Len(d) /\ (\A i \in 1 .. m - 1 : q[i] = d[i]) /\ q[m] < d[m]
    BY <1>8 DEF LeftOf
  <2>2. m <= Len(c)
    <3>1. SUFFICES ASSUME ~ (m <= Len(c)) PROVE FALSE
      OBVIOUS
    <3>2. m \in Len(c) + 1 .. Len(d)
      BY <1>1, <1>2, <1>4, <2>1, <3>1
    <3>3. d[m] = 1 /\ q[m] \in Nat /\ q[m] >= 1
      BY <1>2, <1>3, <2>1, <3>2
    <3>4. QED
      BY <2>1, <3>3
  <2>3. (\A i \in 1 .. m - 1 : q[i] = c[i]) /\ q[m] < c[m]
    BY <1>1, <1>2, <1>4, <2>1, <2>2
  <2>4. QED
    BY <2>2, <2>3 DEF LeftOf
<1>9. QED
  BY <1>5, <1>6, <1>7, <1>8, PrecedesIs DEF d

\* What is below a node, and is not the node, is below a child of it.
LEMMA BelowAChild ==
  ASSUME NEW t, Numbered(t), NEW f \in DOMAIN t, NEW q \in DOMAIN t, IsPrefix(f, q), q # f
  PROVE  /\ Len(f) < Len(q) /\ q[Len(f) + 1] \in 1 .. Size(t, f)
         /\ IsPrefix(Append(f, q[Len(f) + 1]), q)
<1> DEFINE n == Len(f) + 1
<1>1. f \in Path /\ q \in Path
  BY DEF Numbered, Rooted
<1>2. Len(f) \in Nat /\ Len(q) \in Nat /\ Len(f) <= Len(q) /\ \A i \in 1 .. Len(f) : f[i] = q[i]
  BY <1>1, PrefixPointwise
<1>3. Len(f) # Len(q)
  BY <1>1, <1>2, PathsEqual
<1>4. n \in 1 .. Len(q) /\ n - 1 = Len(f)
  BY <1>2, <1>3
<1>5. SubSeq(q, 1, n - 1) = f
  <2>1. /\ SubSeq(q, 1, n - 1) \in Path /\ Len(SubSeq(q, 1, n - 1)) = n - 1
        /\ \A i \in 1 .. n - 1 : SubSeq(q, 1, n - 1)[i] = q[i]
    BY <1>1, <1>4, FirstSteps
  <2> DEFINE b == SubSeq(q, 1, n - 1)
  <2>2. b \in Path /\ Len(b) = Len(f) /\ \A i \in 1 .. Len(b) : b[i] = f[i]
    BY <1>2, <1>4, <2>1
  <2> HIDE DEF b
  <2>3. b = f
    BY <1>1, <2>2, PathsEqual
  <2>4. QED
    BY <2>3 DEF b
<1>6. q[n] \in 1 .. Size(t, SubSeq(q, 1, n - 1))
  BY <1>4, OnTheWay
<1>7. IsPrefix(Append(SubSeq(q, 1, n - 1), q[n]), q)
  BY <1>1, <1>4, FirstSteps
<1> HIDE DEF n
<1>8. q[n] \in 1 .. Size(t, f) /\ IsPrefix(Append(f, q[n]), q)
  BY <1>5, <1>6, <1>7
<1>9. QED
  BY <1>2, <1>3, <1>8 DEF n

\* ++ of postorder_policy.
LEMMA PostorderFollows ==
  ASSUME NEW t, Headed(t), NEW c \in Nodes(t)
  PROVE  Follows("postorder", t, c, PostorderSuccessor(t, c))
<1> DEFINE d == PostorderSuccessor(t, c)
<1>1. \A q \in Nodes(t) : q \in DOMAIN t /\ q \in Path /\ Len(q) \in Nat
  BY NodeIs
<1>2. Shoot \notin Nodes(t)
  BY RootIs
<1>3. CASE c = Root
  <2>1. d = Shoot
    BY <1>3 DEF PostorderSuccessor
  <2>2. \A q \in Nodes(t) : IsPrefix(c, q)
    BY <1>3, RootIs
  <2>3. QED
    BY <2>1, <2>2, PrecedesIs DEF Follows
<1>4. CASE c # Root
  <2> DEFINE f == Front(c)
             m == c[Len(c)]
  <2>1. /\ f \in Nodes(t) /\ f \in Path /\ Len(f) = Len(c) - 1 /\ Len(c) \in Nat
        /\ m \in 1 .. Size(t, f) /\ c = Append(f, m)
        /\ Size(t, f) \in Nat /\ Branches(t, f, Size(t, f))
        /\ Len(c) \in Unfinished(t, c) <=> m < Size(t, f)
    BY <1>4, ParentIs
  <2>2. m \in Nat
    BY <2>1
  <2>3. CASE m < Size(t, f)
    <3> DEFINE e == Beside(c, 1)
    <3>1. d = First(t, e)
      BY <1>4, <2>1, <2>3 DEF PostorderSuccessor
    <3>2. e = Append(f, m + 1)
      BY DEF Beside, Last
    <3> HIDE DEF d, e, f, m
    <3>3. e \in Nodes(t) /\ m + 1 \in Nat
      <4>1. m + 1 \in 1 .. Size(t, f) /\ m + 1 \in Nat
        BY <2>1, <2>2, <2>3
      <4>2. Append(f, m + 1) \in DOMAIN t
        BY <2>1, <4>1 DEF Branches
      <4>3. Append(f, m + 1) # <<>>
        BY <2>1, <4>1, FrontOfPath
      <4>4. QED
        BY <3>2, <4>1, <4>2, <4>3 DEF Nodes
    <3>4. d \in Nodes(t)
      BY <3>1, <3>3, LeftOfFirst
    <3>5. ASSUME NEW q \in Nodes(t)
          PROVE  Precedes("postorder", q, d) <=> q = c \/ Precedes("postorder", q, c)
      <4>1. Precedes("postorder", q, d) <=> LeftOf(q, e)
        BY <3>1, <3>3, LeftOfFirst
      <4>2. LeftOf(q, e)
              <=> LeftOf(q, f) \/ (IsPrefix(f, q) /\ Len(f) < Len(q) /\ q[Len(f) + 1] < m + 1)
        BY <1>1, <2>1, <3>2, <3>3, LeftOfChild
      <4>3. q = c \/ Precedes("postorder", q, c)
              <=> LeftOf(q, f) \/ (IsPrefix(f, q) /\ Len(f) < Len(q) /\ q[Len(f) + 1] <= m)
        BY <1>1, <2>1, <2>2, UpToChild
      <4>4. Len(f) < Len(q) => q[Len(f) + 1] \in Nat
        <5>1. q \in Path /\ Len(q) \in Nat /\ Len(f) \in Nat
          BY <1>1, <2>1, LenProperties DEF Path
        <5>2. Len(f) < Len(q) => Len(f) + 1 \in 1 .. Len(q)
          BY <5>1
        <5>3. QED
          BY <5>1, <5>2, ElementOfSeq DEF Path
      <4>5. Len(f) < Len(q) => (q[Len(f) + 1] < m + 1 <=> q[Len(f) + 1] <= m)
        BY <2>2, <4>4
      <4>6. QED
        BY <4>1, <4>2, <4>3, <4>5
    <3>6. QED
      BY <1>2, <3>4, <3>5 DEF Follows, d
  <2>4. CASE ~ (m < Size(t, f))
    <3>1. d = f
      BY <1>4, <2>1, <2>4 DEF PostorderSuccessor
    <3>2. m = Size(t, f)
      BY <2>1, <2>4
    <3> HIDE DEF d, f, m
    <3>3. ASSUME NEW q \in Nodes(t)
          PROVE  Precedes("postorder", q, f) <=> q = c \/ Precedes("postorder", q, c)
      <4>1. q \in Path /\ Len(q) \in Nat /\ Len(f) \in Nat /\ q \in DOMAIN t /\ f \in DOMAIN t
        BY <1>1, <2>1, LenProperties DEF Path
      <4>2. q = c \/ Precedes("postorder", q, c)
              <=> LeftOf(q, f) \/ (IsPrefix(f, q) /\ Len(f) < Len(q) /\ q[Len(f) + 1] <= m)
        BY <2>1, <2>2, <4>1, UpToChild
      <4>3. IsPrefix(f, q) => (q # f <=> Len(f) < Len(q))
        <5>1. IsPrefix(f, q) => Len(f) <= Len(q) /\ \A i \in 1 .. Len(f) : f[i] = q[i]
          BY <2>1, <4>1, PrefixPointwise
        <5>2. IsPrefix(f, q) /\ Len(f) = Len(q) => f = q
          BY <2>1, <4>1, <5>1, PathsEqual
        <5>3. QED
          BY <4>1, <5>1, <5>2
      <4>4. ASSUME IsPrefix(f, q), Len(f) < Len(q) PROVE q[Len(f) + 1] <= m
        <5>1. q[Len(f) + 1] \in 1 .. Size(t, f)
          BY <4>1, <4>3, <4>4, BelowAChild DEF Headed
        <5>2. QED
          BY <2>2, <3>2, <5>1
      <4>5. QED
        BY <4>2, <4>3, <4>4, PrecedesIs
    <3>4. QED
      BY <1>2, <2>1, <3>1, <3>3 DEF Follows, d
  <2>5. QED
    BY <2>3, <2>4
<1>5. QED
  BY <1>3, <1>4

\* Nothing comes before the begin.
LEMMA BeginsFirst ==
  ASSUME NEW t, Headed(t), NEW order \in Orders
  PROVE  Begin(order, t) \in Nodes(t) /\ \A q \in Nodes(t) : ~ Precedes(order, q, Begin(order, t))
<1>1. Root \in Nodes(t) /\ Root \in Path /\ Len(Root) = 1 /\ Root[1] = 1
  BY RootIs
<1>2. ASSUME NEW q \in Nodes(t) PROVE ~ LeftOf(q, Root) /\ (IsPrefix(q, Root) => q = Root)
  <2>1. q \in Path /\ Len(q) \in Nat /\ Len(q) >= 1 /\ q[1] = 1
    BY NodeIs
  <2>2. ~ LeftOf(q, Root)
    <3>1. SUFFICES ASSUME NEW m \in 1 .. Len(q), m <= Len(Root), q[m] < Root[m] PROVE FALSE
      BY DEF LeftOf
    <3>2. m = 1
      BY <1>1, <2>1, <3>1
    <3>3. QED
      BY <1>1, <2>1, <3>1, <3>2
  <2>3. IsPrefix(q, Root) => q = Root
    <3>1. IsPrefix(q, Root) => Len(q) = 1
      BY <1>1, <2>1, PrefixPointwise
    <3>2. QED
      BY <3>1, RootIs
  <2>4. QED
    BY <2>2, <2>3
<1>3. CASE order = "preorder"
  BY <1>1, <1>2, <1>3, PrecedesIs DEF Begin, Passed
<1>4. CASE order = "postorder"
  BY <1>1, <1>2, <1>4, LeftOfFirst DEF Begin
<1>5. QED
  BY <1>3, <1>4 DEF Orders

\* The last leaf below a node has the unfinished levels of the node.
LEMMA UnfinishedDeepest ==
  ASSUME NEW t, Headed(t), NEW e \in Nodes(t)
  PROVE  /\ Deepest(t, e) \in Nodes(t) /\ Empty(t, Deepest(t, e))
         /\ Unfinished(t, Deepest(t, e)) = Unfinished(t, e)
         /\ Unfinished(t, e) \subseteq 1 .. Len(e)
         /\ \A k \in 1 .. Len(e) : SubSeq(Deepest(t, e), 1, k) = SubSeq(e, 1, k)
<1> DEFINE d == Deepest(t, e)
<1>1. /\ Numbered(t) /\ IsFiniteSet(DOMAIN t) /\ e \in DOMAIN t /\ e \in Path
      /\ Len(e) \in Nat /\ Len(e) >= 1
  BY NodeIs DEF Headed
<1>2. /\ d \in DOMAIN t /\ d \in Path /\ IsPrefix(e, d) /\ Empty(t, d)
      /\ \A i \in Len(e) + 1 .. Len(d) : d[i] = Size(t, SubSeq(d, 1, i - 1))
  BY <1>1, DeepestIs
<1> HIDE DEF d
<1>3. Len(d) \in Nat /\ Len(e) <= Len(d) /\ \A i \in 1 .. Len(e) : e[i] = d[i]
  BY <1>1, <1>2, PrefixPointwise
<1>4. d \in Nodes(t)
  <2>1. Len(d) # 0
    BY <1>1, <1>3
  <2>2. d # <<>>
    BY <2>1
  <2>3. QED
    BY <1>2, <2>2 DEF Nodes
<1>5. ASSUME NEW k \in 1 .. Len(e) PROVE SubSeq(d, 1, k - 1) = SubSeq(e, 1, k - 1)
  <2> DEFINE a == SubSeq(d, 1, k - 1)
             b == SubSeq(e, 1, k - 1)
  <2>1. k \in 1 .. Len(d)
    BY <1>3
  <2>2. /\ a \in Path /\ Len(a) = k - 1 /\ \A i \in 1 .. k - 1 : a[i] = d[i]
        /\ b \in Path /\ Len(b) = k - 1 /\ \A i \in 1 .. k - 1 : b[i] = e[i]
    BY <1>1, <1>2, <2>1, FirstSteps
  <2> HIDE DEF a, b
  <2>3. \A i \in 1 .. Len(a) : a[i] = b[i]
    BY <1>1, <1>3, <2>2
  <2>4. a = b
    BY <2>2, <2>3, PathsEqual
  <2>5. QED
    BY <2>4 DEF a, b
<1>6. ASSUME NEW k \in 1 .. Len(e) PROVE SubSeq(d, 1, k) = SubSeq(e, 1, k)
  <2>1. k \in 1 .. Len(d) /\ d[k] = e[k]
    BY <1>3
  <2>2. SubSeq(d, 1, k) = Append(SubSeq(d, 1, k - 1), d[k])
    BY <1>2, <2>1, OneStepMore
  <2>3. SubSeq(e, 1, k) = Append(SubSeq(e, 1, k - 1), e[k])
    BY <1>1, OneStepMore
  <2>4. QED
    BY <1>5, <2>1, <2>2, <2>3
<1>7. /\ Unfinished(t, d) \subseteq 1 .. Len(d) /\ Unfinished(t, e) \subseteq 1 .. Len(e)
      /\ \A k \in 1 .. Len(d) : k \in Unfinished(t, d) <=> d[k] < Size(t, SubSeq(d, 1, k - 1))
      /\ \A k \in 1 .. Len(e) : k \in Unfinished(t, e) <=> e[k] < Size(t, SubSeq(e, 1, k - 1))
  BY <1>1, <1>2, UnfinishedLevels
<1>8. ASSUME NEW k \in 1 .. Len(d) PROVE k \in Unfinished(t, d) <=> k \in Unfinished(t, e)
  <2>1. CASE k <= Len(e)
    <3>1. k \in 1 .. Len(e) /\ d[k] = e[k]
      BY <1>3, <2>1
    <3>2. QED
      BY <1>5, <1>7, <3>1
  <2>2. CASE ~ (k <= Len(e))
    <3>1. k \in Len(e) + 1 .. Len(d)
      BY <1>1, <1>3, <2>2
    <3>2. d[k] = Size(t, SubSeq(d, 1, k - 1))
      BY <1>2, <3>1
    <3>3. SubSeq(d, 1, k - 1) \in DOMAIN t
      BY <1>1, <1>2, OnTheWay
    <3>4. Size(t, SubSeq(d, 1, k - 1)) \in Nat
      BY <1>1, <3>3, SizeIs
    <3> DEFINE n == Size(t, SubSeq(d, 1, k - 1))
    <3> HIDE DEF n
    <3>5. n \in Nat /\ d[k] = n
      BY <3>2, <3>4 DEF n
    <3>6. ~ (d[k] < n)
      BY <3>5
    <3>7. k \notin Unfinished(t, d)
      BY <1>7, <3>6 DEF n
    <3>8. k \notin Unfinished(t, e)
      BY <1>7, <2>2
    <3>9. QED
      BY <3>7, <3>8
  <2>3. QED
    BY <2>1, <2>2
<1>9. Unfinished(t, d) = Unfinished(t, e)
  <2>1. \A k \in 1 .. Len(e) : k \in 1 .. Len(d)
    BY <1>1, <1>3
  <2>2. QED
    BY <1>7, <1>8, <2>1
<1>10. QED
  BY <1>2, <1>4, <1>6, <1>7, <1>9 DEF d

\* What preorder goes to from the last leaf below a node.
LEMMA SuccessorOfDeepest ==
  ASSUME NEW t, Headed(t), NEW e \in Nodes(t)
  PROVE  PreorderSuccessor(t, Deepest(t, e)) =
           IF Unfinished(t, e) = {} THEN Shoot
           ELSE Beside(SubSeq(e, 1, Max(Unfinished(t, e))), 1)
<1>1. Numbered(t) /\ e \in DOMAIN t
  BY NodeIs
<1>2. /\ Empty(t, Deepest(t, e)) /\ Unfinished(t, Deepest(t, e)) = Unfinished(t, e)
      /\ \A k \in 1 .. Len(e) : SubSeq(Deepest(t, e), 1, k) = SubSeq(e, 1, k)
  BY UnfinishedDeepest
<1>3. Unfinished(t, e) # {} => Max(Unfinished(t, e)) \in 1 .. Len(e)
  BY <1>1, LastUnfinished
<1>4. QED
  BY <1>2, <1>3 DEF PreorderSuccessor

\* If a node has a right sibling, preorder goes there.
LEMMA NextSibling ==
  ASSUME NEW t, Headed(t), NEW e \in Nodes(t), Len(e) \in Unfinished(t, e)
  PROVE  Max(Unfinished(t, e)) = Len(e) /\ SubSeq(e, 1, Max(Unfinished(t, e))) = e
<1>1. Numbered(t) /\ e \in DOMAIN t /\ e \in Path /\ Len(e) \in Nat
  BY NodeIs
<1>2. /\ Max(Unfinished(t, e)) \in 1 .. Len(e)
      /\ \A m \in Unfinished(t, e) : m <= Max(Unfinished(t, e))
  BY <1>1, LastUnfinished
<1>3. Max(Unfinished(t, e)) = Len(e)
  BY <1>1, <1>2
<1>4. SubSeq(e, 1, Len(e)) = e
  BY <1>1, SubSeqFull DEF Path
<1>5. QED
  BY <1>3, <1>4

\* -- of preorder_policy comes to a node from which ++ goes back.
LEMMA PreorderBack ==
  ASSUME NEW t, Headed(t), NEW c, c = Shoot \/ (c \in Nodes(t) /\ c # Root)
  PROVE  /\ PreorderPredecessor(t, c) \in Nodes(t)
         /\ PreorderSuccessor(t, PreorderPredecessor(t, c)) = c
<1> DEFINE d == PreorderPredecessor(t, c)
<1>1. Shoot \notin Nodes(t) /\ Root \in Nodes(t) /\ Shoot # Root
  BY RootIs
<1>2. CASE c = Shoot
  <2>1. Beside(Shoot, -1) = Root
    <3>1. Shoot = Append(<<>>, 2) /\ Append(<<>>, 2) \in Path
      BY OneStep, FrontOfPath DEF Shoot
    <3>2. /\ Front(Append(<<>>, 2)) = <<>> /\ Len(Append(<<>>, 2)) = Len(<<>>) + 1
          /\ Append(<<>>, 2)[Len(<<>>) + 1] = 2
      <4>1. <<>> \in Path /\ 2 \in Nat
        BY OneStep
      <4>2. QED
        BY <4>1, FrontOfPath, AppendPointwise
    <3>3. Front(Shoot) = <<>> /\ Last(Shoot) = 2
      BY <3>1, <3>2 DEF Last
    <3>4. Append(<<>>, 1) = Root
      BY OneStep DEF Root
    <3>5. 2 + (-1) = 1
      OBVIOUS
    <3>6. QED
      BY <3>3, <3>4, <3>5 DEF Beside
  <2>2. d = Deepest(t, Root)
    BY <1>2, <2>1 DEF PreorderPredecessor
  <2>3. d \in Nodes(t) /\ PreorderSuccessor(t, d) = Shoot
    BY <1>1, <2>2, UnfinishedDeepest, SuccessorOfDeepest, RootFinished
  <2>4. QED
    BY <1>2, <2>3
<1>3. CASE c # Shoot
  <2> DEFINE f == Front(c)
             m == c[Len(c)]
  <2>1. /\ c \in Nodes(t) /\ f \in Nodes(t) /\ f \in Path /\ Len(f) = Len(c) - 1
        /\ Len(c) \in Nat /\ Len(c) >= 2
        /\ m \in 1 .. Size(t, f) /\ c = Append(f, m)
        /\ Size(t, f) \in Nat /\ Branches(t, f, Size(t, f))
    BY <1>3, ParentIs
  <2>2. Last(c) = m
    BY DEF Last
  <2>3. CASE m = 1
    <3>1. d = f
      BY <1>3, <2>2, <2>3 DEF PreorderPredecessor
    <3>2. ~ Empty(t, f)
      BY <2>1 DEF Empty
    <3>3. PreorderSuccessor(t, f) = c
      BY <2>1, <2>3, <3>2 DEF PreorderSuccessor
    <3>4. QED
      BY <2>1, <3>1, <3>3
  <2>4. CASE m # 1
    <3> DEFINE e == Beside(c, -1)
    <3>1. d = Deepest(t, e)
      BY <2>2, <2>4 DEF PreorderPredecessor
    <3>2. m - 1 \in 1 .. Size(t, f) /\ m - 1 \in Nat /\ m - 1 < Size(t, f) /\ m + (-1) = m - 1
          /\ (m - 1) + 1 = m /\ m \in Nat
      BY <2>1, <2>4
    <3>3. e = Append(f, m - 1)
      BY <2>2, <3>2 DEF Beside
    <3> HIDE DEF d, e, f, m
    <3>4. /\ e \in Path /\ e # <<>> /\ Len(e) = Len(c) /\ Front(e) = f /\ e[Len(e)] = m - 1
      <4>1. /\ Append(f, m - 1) \in Path /\ Append(f, m - 1) # <<>>
            /\ Len(Append(f, m - 1)) = Len(f) + 1 /\ Front(Append(f, m - 1)) = f
            /\ Append(f, m - 1)[Len(f) + 1] = m - 1
        BY <2>1, <3>2, FrontOfPath, AppendPointwise
      <4>2. Len(f) + 1 = Len(c)
        BY <2>1
      <4>3. QED
        BY <3>3, <4>1, <4>2
    <3>5. e \in Nodes(t)
      <4>1. Append(f, m - 1) \in DOMAIN t
        BY <2>1, <3>2 DEF Branches
      <4>2. QED
        BY <3>3, <3>4, <4>1 DEF Nodes
    <3>6. e # Root
      BY <2>1, <3>4, RootIs
    <3>7. Len(e) \in Unfinished(t, e)
      BY <3>2, <3>4, <3>5, <3>6, ParentIs
    <3>8. PreorderSuccessor(t, d) = Beside(e, 1)
      BY <3>1, <3>5, <3>7, SuccessorOfDeepest, NextSibling
    <3>9. Beside(e, 1) = c
      <4>1. Beside(e, 1) = Append(f, (m - 1) + 1)
        BY <3>4 DEF Beside, Last
      <4>2. QED
        BY <2>1, <3>2, <4>1
    <3>10. d \in Nodes(t)
      BY <3>1, <3>5, UnfinishedDeepest
    <3>11. QED
      BY <3>8, <3>9, <3>10 DEF d
  <2>5. QED
    BY <2>3, <2>4
<1>4. QED
  BY <1>2, <1>3

\* -- of postorder_policy comes to a node from which ++ goes back.
LEMMA PostorderBack ==
  ASSUME NEW t, Headed(t),
         NEW c, c = Shoot \/ (c \in Nodes(t) /\ \E q \in Nodes(t) : Precedes("postorder", q, c))
  PROVE  /\ PostorderPredecessor(t, c) \in Nodes(t)
         /\ PostorderSuccessor(t, PostorderPredecessor(t, c)) = c
<1> DEFINE d == PostorderPredecessor(t, c)
<1>1. Shoot \notin Nodes(t) /\ Root \in Nodes(t) /\ Shoot # Root /\ Len(Root) = 1
  BY RootIs
<1>2. CASE c = Shoot
  BY <1>1, <1>2 DEF PostorderPredecessor, PostorderSuccessor
<1>3. CASE c # Shoot /\ ~ Empty(t, c)
  <2> DEFINE n == Size(t, c)
  <2>1. c \in Nodes(t)
    BY <1>3
  <2>2. /\ Numbered(t) /\ c \in DOMAIN t /\ c \in Path /\ Len(c) \in Nat /\ Len(c) >= 1
        /\ n \in Nat /\ Branches(t, c, n)
    BY <2>1, NodeIs, SizeIs
  <2>3. d = Append(c, n)
    BY <1>3 DEF PostorderPredecessor
  <2>4. n \in 1 .. n
    BY <1>3, <2>2 DEF Empty
  <2> HIDE DEF d, n
  <2>5. Append(c, n) \in DOMAIN t
    BY <2>2, <2>4 DEF Branches
  <2>6. /\ d # <<>> /\ Front(d) = c /\ Len(d) = Len(c) + 1 /\ d[Len(d)] = n
    <3>1. /\ Append(c, n) # <<>> /\ Front(Append(c, n)) = c /\ Len(Append(c, n)) = Len(c) + 1
          /\ Append(c, n)[Len(c) + 1] = n
      BY <2>2, FrontOfPath, AppendPointwise
    <3>2. QED
      BY <2>3, <3>1
  <2>7. d \in Nodes(t) /\ d # Root
    <3>1. d # Root
      <4>1. Len(d) # 1
        BY <2>2, <2>6
      <4>2. QED
        BY <1>1, <4>1, Zenon
    <3>2. QED
      BY <2>3, <2>5, <2>6, <3>1 DEF Nodes
  <2>8. Len(d) \notin Unfinished(t, d)
    <3>1. Len(d) \in Unfinished(t, d) <=> d[Len(d)] < Size(t, Front(d))
      BY <2>7, ParentIs
    <3>2. ~ (n < n)
      BY <2>2
    <3>3. QED
      BY <2>6, <3>1, <3>2 DEF n
  <2>9. PostorderSuccessor(t, d) = c
    BY <2>6, <2>7, <2>8 DEF PostorderSuccessor
  <2>10. QED
    BY <2>7, <2>9 DEF d
<1>4. CASE c # Shoot /\ Empty(t, c)
  <2>1. c \in Nodes(t) /\ \E q \in Nodes(t) : Precedes("postorder", q, c)
    BY <1>4
  <2>2. /\ Numbered(t) /\ IsFiniteSet(DOMAIN t) /\ c \in DOMAIN t /\ c \in Path
        /\ Len(c) \in Nat /\ Len(c) >= 1 /\ c[1] = 1
        /\ \A i \in 1 .. Len(c) : c[i] \in Nat /\ c[i] >= 1
    BY <2>1, NodeIs DEF Headed
  <2>3. Behind(c) # {}
    <3>1. PICK q \in Nodes(t) : Precedes("postorder", q, c)
      BY <2>1
    <3>2. /\ q \in DOMAIN t /\ q \in Path /\ Len(q) \in Nat /\ q[1] = 1
          /\ \A i \in 1 .. Len(q) : q[i] \in Nat /\ q[i] >= 1
      BY NodeIs
    <3>3. IsPrefix(c, q) => q = c
      BY <1>4, <2>2, <3>2, BelowLeaf DEF Empty
    <3>4. LeftOf(q, c)
      BY <3>1, <3>3, PrecedesIs
    <3>5. PICK m \in 1 .. Len(q) : m <= Len(c) /\ (\A i \in 1 .. m - 1 : q[i] = c[i]) /\ q[m] < c[m]
      BY <3>4 DEF LeftOf
    <3>6. m \in 1 .. Len(c)
      BY <2>2, <3>2, <3>5
    <3>7. m # 1
      BY <2>2, <3>2, <3>5
    <3>8. m \in 2 .. Len(c) /\ c[m] > 1
      BY <2>2, <3>2, <3>5, <3>6, <3>7
    <3>9. QED
      BY <3>8 DEF Behind
  <2> DEFINE k == Max(Behind(c))
             a == SubSeq(c, 1, k - 1)
  <2>4. k \in Behind(c) /\ \A i \in Behind(c) : i <= k
    <3>1. Behind(c) \subseteq Nat /\ \A i \in Behind(c) : i <= Len(c)
      BY <2>2 DEF Behind
    <3>2. QED
      BY <2>2, <2>3, <3>1, LargestNumber
  <2>5. k \in 2 .. Len(c) /\ c[k] > 1 /\ k \in 1 .. Len(c)
    BY <2>4 DEF Behind
  <2>6. d = Beside(SubSeq(c, 1, k), -1)
    BY <1>4 DEF PostorderPredecessor
  <2>7. a \in DOMAIN t /\ c[k] \in 1 .. Size(t, a) /\ c[k] \in Nat
    BY <2>2, <2>5, OnTheWay
  <2>8. a \in Path /\ Len(a) = k - 1 /\ IsPrefix(Append(a, c[k]), c)
    BY <2>2, <2>5, FirstSteps
  <2> HIDE DEF k, a, d
  <2>9. c[k] - 1 \in 1 .. Size(t, a) /\ c[k] - 1 \in Nat /\ c[k] + (-1) = c[k] - 1 /\ -1 \in Int
        /\ (c[k] - 1) + 1 = c[k] /\ c[k] - 1 < Size(t, a)
    <3>1. Size(t, a) \in Nat
      BY <2>2, <2>7, SizeIs
    <3>2. QED
      BY <2>5, <2>7, <3>1
  <2>10. d = Append(a, c[k] - 1)
    <3>1. d = Append(a, c[k] + (-1))
      BY <2>2, <2>5, <2>6, <2>9, BesideAt DEF a
    <3>2. QED
      BY <2>9, <3>1
  <2>11. Branches(t, a, Size(t, a))
    BY <2>2, <2>7, SizeIs
  <2>12. /\ d \in Path /\ d # <<>> /\ Len(d) = k /\ Front(d) = a /\ d[Len(d)] = c[k] - 1
    <3>1. /\ Append(a, c[k] - 1) \in Path /\ Append(a, c[k] - 1) # <<>>
          /\ Len(Append(a, c[k] - 1)) = Len(a) + 1 /\ Front(Append(a, c[k] - 1)) = a
          /\ Append(a, c[k] - 1)[Len(a) + 1] = c[k] - 1
      BY <2>8, <2>9, FrontOfPath, AppendPointwise
    <3>2. Len(a) + 1 = k
      BY <2>5, <2>8
    <3>3. QED
      BY <2>10, <3>1, <3>2
  <2>13. d \in Nodes(t) /\ d # Root
    <3>1. Append(a, c[k] - 1) \in DOMAIN t
      BY <2>9, <2>11 DEF Branches
    <3>2. d # Root
      <4>1. Len(d) # 1
        BY <2>5, <2>12
      <4>2. QED
        BY <1>1, <4>1, Zenon
    <3>3. QED
      BY <2>10, <2>12, <3>1, <3>2 DEF Nodes
  <2>14. Len(d) \in Unfinished(t, d)
    BY <2>9, <2>12, <2>13, ParentIs
  <2> DEFINE e == Beside(d, 1)
  <2>15. PostorderSuccessor(t, d) = First(t, e)
    BY <2>13, <2>14 DEF PostorderSuccessor
  <2>16. e = Append(a, c[k])
    <3>1. e = Append(a, (c[k] - 1) + 1)
      BY <2>12 DEF Beside, Last
    <3>2. QED
      BY <2>9, <3>1
  <2> HIDE DEF e
  <2>17. e \in DOMAIN t /\ Len(e) = k
    <3>1. Append(a, c[k]) \in DOMAIN t
      BY <2>7, <2>11 DEF Branches
    <3>2. Len(Append(a, c[k])) = Len(a) + 1
      BY <2>7, <2>8, FrontOfPath
    <3>3. Len(a) + 1 = k
      BY <2>5, <2>8
    <3>4. QED
      BY <2>16, <3>1, <3>2, <3>3
  <2>18. ASSUME NEW i \in Len(e) + 1 .. Len(c) PROVE c[i] = 1
    <3>1. i \in 2 .. Len(c) /\ i \in 1 .. Len(c) /\ ~ (i <= k)
      BY <2>2, <2>5, <2>17
    <3>2. i \notin Behind(c)
      BY <2>4, <3>1
    <3>3. ~ (c[i] > 1)
      BY <3>1, <3>2 DEF Behind
    <3>4. QED
      BY <2>2, <3>1, <3>3
  <2>19. c = First(t, e)
    BY <1>4, <2>2, <2>8, <2>16, <2>17, <2>18, FirstIs
  <2>20. QED
    BY <2>13, <2>15, <2>19 DEF d
<1>5. QED
  BY <1>2, <1>3, <1>4

-----------------------------------------------------------------------------
(* Places                                                                   *)

Before(order, t, c) == {p \in Nodes(t) : Precedes(order, p, c)}

AllOrders == {"preorder", "postorder", "level"}

\* The place of a node is the number of nodes before it, and that of the end the number
\* of all nodes.
LEMMA PlaceIs ==
  ASSUME NEW t, Headed(t), NEW order \in AllOrders
  PROVE  /\ IsFiniteSet(Nodes(t)) /\ Cardinality(Nodes(t)) \in Nat
         /\ \A c \in Nodes(t) :
              /\ IsFiniteSet(Before(order, t, c)) /\ Cardinality(Before(order, t, c)) \in Nat
              /\ Cardinality(Before(order, t, c)) < Cardinality(Nodes(t))
              /\ \A n : InPlace(order, t, c, n) <=> n = Cardinality(Before(order, t, c))
         /\ \A n : InPlace(order, t, Shoot, n) <=> n = Cardinality(Nodes(t))
<1> DEFINE N == Nodes(t)
<1>1. IsFiniteSet(N) /\ Cardinality(N) \in Nat
  <2>1. IsFiniteSet(DOMAIN t) /\ N \in SUBSET DOMAIN t
    BY DEF Headed, Nodes
  <2> HIDE DEF N
  <2>2. QED
    BY <2>1, FS_Subset, FS_CardinalityType
<1>2. Shoot \notin N
  BY RootIs
<1>3. ASSUME NEW c \in N
      PROVE  /\ IsFiniteSet(Before(order, t, c)) /\ Cardinality(Before(order, t, c)) \in Nat
             /\ Cardinality(Before(order, t, c)) < Cardinality(N)
  <2> DEFINE B == Before(order, t, c)
  <2>1. B \in SUBSET N
    BY DEF Before
  <2>2. c \notin B
    <3>1. c \in Path
      BY NodeIs
    <3>2. ~ Precedes(order, c, c)
      BY <3>1, NotBeforeItself DEF AllOrders
    <3>3. QED
      BY <3>2 DEF Before
  <2> HIDE DEF N, B
  <2>3. /\ IsFiniteSet(B) /\ Cardinality(B) <= Cardinality(N)
        /\ Cardinality(N) = Cardinality(B) => N = B
    BY <1>1, <2>1, FS_Subset
  <2>4. Cardinality(B) \in Nat
    BY <2>3, FS_CardinalityType
  <2>5. N # B
    BY <2>2
  <2>6. QED
    BY <1>1, <2>3, <2>4, <2>5 DEF B
<1>4. ASSUME NEW c \in N, NEW n
      PROVE  InPlace(order, t, c, n) <=> n = Cardinality(Before(order, t, c))
  <2>1. c # Shoot
    BY <1>2
  <2>2. InPlace(order, t, c, n)
          <=> n # Cardinality(N) /\ Cardinality(Before(order, t, c)) = n
    BY <2>1 DEF InPlace, Before
  <2>3. Cardinality(Before(order, t, c)) # Cardinality(N)
    BY <1>1, <1>3
  <2>4. QED
    BY <2>2, <2>3
<1>5. \A n : InPlace(order, t, Shoot, n) <=> n = Cardinality(N)
  BY <1>2 DEF InPlace
<1>6. QED
  BY <1>1, <1>3, <1>4, <1>5

\* One place on is one node more before it.
LEMMA OnePlaceOn ==
  ASSUME NEW t, Headed(t), NEW order \in AllOrders, NEW c \in Nodes(t), NEW d,
         Follows(order, t, c, d), NEW n \in Nat
  PROVE  InPlace(order, t, c, n) <=> InPlace(order, t, d, n + 1)
<1> DEFINE N == Nodes(t)
           B == Before(order, t, c)
<1>1. /\ IsFiniteSet(B) /\ Cardinality(B) \in Nat
      /\ InPlace(order, t, c, n) <=> n = Cardinality(B)
  BY PlaceIs
<1>2. c \notin B
  <2>1. c \in Path
    BY NodeIs
  <2>2. ~ Precedes(order, c, c)
    BY <2>1, NotBeforeItself DEF AllOrders
  <2>3. QED
    BY <2>2 DEF Before
<1>3. Cardinality(B \cup {c}) = Cardinality(B) + 1
  <2> HIDE DEF B
  <2>1. QED
    BY <1>1, <1>2, FS_AddElement
<1>4. CASE d = Shoot
  <2>1. N = B \cup {c}
    BY <1>4 DEF Follows, Before
  <2>2. InPlace(order, t, d, n + 1) <=> n + 1 = Cardinality(N)
    BY <1>4, PlaceIs
  <2> HIDE DEF B, N
  <2>3. Cardinality(N) = Cardinality(B) + 1
    BY <1>3, <2>1
  <2>4. QED
    BY <1>1, <2>2, <2>3
<1>5. CASE d # Shoot
  <2>1. d \in N /\ Before(order, t, d) = B \cup {c}
    BY <1>5 DEF Follows, Before
  <2>2. InPlace(order, t, d, n + 1) <=> n + 1 = Cardinality(Before(order, t, d))
    BY <2>1, PlaceIs
  <2> HIDE DEF B, N
  <2>3. Cardinality(Before(order, t, d)) = Cardinality(B) + 1
    BY <1>3, <2>1
  <2>4. QED
    BY <1>1, <2>2, <2>3
<1>6. QED
  BY <1>4, <1>5

-----------------------------------------------------------------------------
(* The iterators                                                            *)

\* ++ and -- keep the place in step with the count.
LEMMA IncrementPlace ==
  ASSUME NEW t, Headed(t), NEW order \in Orders, NEW c, c # Shoot, NEW n \in Nat,
         InPlace(order, t, c, n)
  PROVE  InPlace(order, t, Successor(order, t, c), n + 1)
<1>1. c \in Nodes(t)
  BY DEF InPlace
<1>2. Follows(order, t, c, Successor(order, t, c))
  BY <1>1, PreorderFollows, PostorderFollows DEF Orders, Successor
<1>3. QED
  BY <1>1, <1>2, OnePlaceOn DEF Orders, AllOrders

LEMMA DecrementPlace ==
  ASSUME NEW t, Headed(t), NEW order \in Orders, NEW c, NEW n \in Nat \ {0},
         InPlace(order, t, c, n)
  PROVE  InPlace(order, t, Predecessor(order, t, c), n - 1)
<1> DEFINE d == Predecessor(order, t, c)
<1>1. order \in AllOrders
  BY DEF Orders, AllOrders
<1>2. c = Shoot \/ (c \in Nodes(t) /\ \E q \in Nodes(t) : Precedes(order, q, c))
  <2>1. SUFFICES ASSUME c # Shoot PROVE c \in Nodes(t) /\ \E q \in Nodes(t) : Precedes(order, q, c)
    OBVIOUS
  <2>2. c \in Nodes(t)
    BY <2>1 DEF InPlace
  <2>3. n = Cardinality(Before(order, t, c))
    BY <1>1, <2>2, PlaceIs
  <2>4. Before(order, t, c) # {}
    BY <2>3, FS_EmptySet
  <2>5. QED
    BY <2>2, <2>4 DEF Before
<1>3. d \in Nodes(t) /\ Successor(order, t, d) = c
  <2>1. CASE order = "preorder"
    <3>1. c # Root
      <4>1. \A q \in Nodes(t) : ~ Precedes("preorder", q, Root)
        BY BeginsFirst DEF Begin, Orders
      <4>2. Shoot # Root
        BY RootIs
      <4>3. QED
        BY <1>2, <2>1, <4>1, <4>2
    <3>2. QED
      BY <1>2, <2>1, <3>1, PreorderBack DEF Predecessor, Successor
  <2>2. CASE order = "postorder"
    BY <1>2, <2>2, PostorderBack DEF Predecessor, Successor
  <2>3. QED
    BY <2>1, <2>2 DEF Orders
<1> HIDE DEF d
<1>4. Follows(order, t, d, c)
  BY <1>3, PreorderFollows, PostorderFollows DEF Orders, Successor
<1>5. n - 1 \in Nat /\ (n - 1) + 1 = n
  OBVIOUS
<1>6. InPlace(order, t, d, n - 1)
  BY <1>1, <1>3, <1>4, <1>5, OnePlaceOn
<1>7. QED
  BY <1>6 DEF d

\* An iteration begins at the place 0.
LEMMA BeginPlace ==
  ASSUME NEW t, Headed(t), NEW order \in Orders
  PROVE  InPlace(order, t, Begin(order, t), 0)
<1>1. Begin(order, t) \in Nodes(t) /\ Before(order, t, Begin(order, t)) = {}
  BY BeginsFirst DEF Before
<1>2. Cardinality(Before(order, t, Begin(order, t))) = 0
  BY <1>1, FS_EmptySet
<1>3. QED
  BY <1>1, <1>2, PlaceIs DEF Orders, AllOrders


-----------------------------------------------------------------------------
(* rank_is                                                                  *)

\* The nodes that are not at or below a node of the queue s.
Visited(t, s) == {p \in Nodes(t) : \A i \in 1 .. Len(s) : ~ IsPrefix(s[i], p)}

\* n nodes are visited, and the queue goes on from there in the order of the levels:
\* it holds nodes of at most two levels, of which none is below another.
Levels(t, s, n) ==
  /\ s \in Seq(Nodes(t))
  /\ \A i, j \in 1 .. Len(s) : i < j => Precedes("level", s[i], s[j]) /\ ~ IsPrefix(s[i], s[j])
  /\ \A i, j \in 1 .. Len(s) : Len(s[i]) <= Len(s[j]) + 1
  /\ \A p \in Visited(t, s) : \A i \in 1 .. Len(s) : Precedes("level", p, s[i])
  /\ Cardinality(Visited(t, s)) = n

\* What is queued, and that nothing queued is below anything else in the queue.
LEMMA Queued ==
  ASSUME NEW t, Headed(t), NEW s, NEW n, Levels(t, s, n)
  PROVE  /\ Len(s) \in Nat
         /\ \A i \in 1 .. Len(s) : s[i] \in Nodes(t) /\ s[i] \in Path /\ Len(s[i]) \in Nat
         /\ \A i, j \in 1 .. Len(s) : IsPrefix(s[i], s[j]) => i = j
         /\ \A i \in 1 .. Len(s) : Len(s[1]) <= Len(s[i])
<1>1. Len(s) \in Nat /\ s \in Seq(Nodes(t))
  BY LenProperties DEF Levels
<1>2. ASSUME NEW i \in 1 .. Len(s) PROVE s[i] \in Nodes(t) /\ s[i] \in Path /\ Len(s[i]) \in Nat
  <2>1. s[i] \in Nodes(t)
    BY <1>1, ElementOfSeq
  <2>2. QED
    BY <2>1, NodeIs
<1>3. ASSUME NEW i \in 1 .. Len(s), NEW j \in 1 .. Len(s), IsPrefix(s[i], s[j]), i # j
      PROVE  FALSE
  <2>1. CASE i < j
    BY <1>3, <2>1 DEF Levels
  <2>2. CASE j < i
    <3>1. Len(s[j]) < Len(s[i]) \/ (Len(s[j]) = Len(s[i]) /\ LeftOf(s[j], s[i]))
      BY <2>2, PrecedesIs DEF Levels
    <3>2. Len(s[i]) <= Len(s[j])
      BY <1>2, <1>3, PrefixPointwise
    <3>3. LeftOf(s[j], s[i])
      BY <1>2, <3>1, <3>2
    <3>4. QED
      BY <1>2, <1>3, <3>3, LeftExcludes
  <2>3. QED
    BY <1>1, <1>3, <2>1, <2>2
<1>4. ASSUME NEW i \in 1 .. Len(s) PROVE Len(s[1]) <= Len(s[i])
  <2>1. CASE i = 1
    BY <1>2, <2>1
  <2>2. CASE i # 1
    <3>1. 1 \in 1 .. Len(s) /\ 1 < i
      BY <1>1, <2>2
    <3>2. Len(s[1]) < Len(s[i]) \/ Len(s[1]) = Len(s[i])
      BY <3>1, PrecedesIs DEF Levels
    <3>3. QED
      BY <1>2, <3>1, <3>2
  <2>3. QED
    BY <2>1, <2>2
<1>5. QED
  BY <1>1, <1>2, <1>3, <1>4

\* The root alone is queued in the beginning.
LEMMA LevelsBegin ==
  ASSUME NEW t, Headed(t)
  PROVE  Levels(t, <<Root>>, 0)
<1> DEFINE s == <<Root>>
<1>1. s \in Seq(Nodes(t)) /\ Len(s) = 1 /\ s[1] = Root
  BY RootIs
<1>2. Visited(t, s) = {}
  <2>1. \A p \in Nodes(t) : IsPrefix(s[1], p)
    BY <1>1, RootIs
  <2>2. QED
    BY <1>1, <2>1 DEF Visited
<1>3. Cardinality(Visited(t, s)) = 0
  BY <1>2, FS_EmptySet
<1>4. \A i \in 1 .. Len(s) : i = 1
  BY <1>1
<1>5. Len(Root) = 1
  BY RootIs
<1> HIDE DEF s
<1>6. /\ \A i, j \in 1 .. Len(s) : ~ (i < j)
      /\ \A i, j \in 1 .. Len(s) : Len(s[i]) <= Len(s[j]) + 1
  BY <1>1, <1>4, <1>5
<1>7. QED
  BY <1>1, <1>2, <1>3, <1>6 DEF Levels, s

\* As long as not all nodes are visited there is one in the queue.
LEMMA QueueNotEmpty ==
  ASSUME NEW t, NEW s, NEW n, Levels(t, s, n), n # Cardinality(Nodes(t))
  PROVE  s # <<>> /\ 1 \in 1 .. Len(s) /\ Head(s) = s[1]
<1>1. s \in Seq(Nodes(t)) /\ Cardinality(Visited(t, s)) = n
  BY DEF Levels
<1>2. s # <<>>
  <2>1. SUFFICES ASSUME s = <<>> PROVE FALSE
    OBVIOUS
  <2>2. Len(s) = 0
    BY <2>1
  <2>3. Visited(t, s) = Nodes(t)
    BY <2>2 DEF Visited
  <2>4. QED
    BY <1>1, <2>3
<1>3. Len(s) \in Nat \ {0}
  BY <1>1, <1>2, EmptySeq
<1>4. QED
  BY <1>1, <1>2, <1>3

\* The nodes before the first of the queue are those that are visited.
LEMMA LevelsEnd ==
  ASSUME NEW t, Headed(t), NEW s, NEW n, Levels(t, s, n), n # Cardinality(Nodes(t))
  PROVE  InPlace("level", t, Head(s), n)
<1>1. 1 \in 1 .. Len(s) /\ Head(s) = s[1]
  BY QueueNotEmpty
<1> DEFINE h == s[1]
<1>2. h \in Nodes(t) /\ h \in Path /\ Len(h) \in Nat
  BY <1>1, Queued
<1>3. ASSUME NEW p \in Nodes(t), Precedes("level", p, h), NEW j \in 1 .. Len(s), IsPrefix(s[j], p)
      PROVE  FALSE
  <2>1. s[j] \in Path /\ Len(s[j]) \in Nat /\ Len(h) <= Len(s[j])
    BY Queued
  <2>2. p \in Path /\ Len(p) \in Nat
    BY NodeIs
  <2>3. Len(s[j]) <= Len(p) /\ \A i \in 1 .. Len(s[j]) : s[j][i] = p[i]
    BY <1>3, <2>1, <2>2, PrefixPointwise
  <2>4. Len(p) < Len(h) \/ (Len(p) = Len(h) /\ LeftOf(p, h))
    BY <1>3, PrecedesIs
  <2>5. Len(p) = Len(h) /\ LeftOf(p, h) /\ Len(s[j]) = Len(p)
    BY <1>2, <2>1, <2>2, <2>3, <2>4
  <2>6. s[j] = p
    BY <2>1, <2>2, <2>3, <2>5, PathsEqual
  <2>7. j # 1
    BY <1>2, <2>2, <2>5, <2>6, LeftExcludes
  <2>8. Precedes("level", h, s[j])
    BY <1>1, <2>7 DEF Levels
  <2>9. Len(h) < Len(p) \/ LeftOf(h, p)
    BY <2>6, <2>8, PrecedesIs
  <2>10. LeftOf(h, p)
    BY <1>2, <2>5, <2>9
  <2>11. QED
    BY <1>2, <2>2, <2>5, <2>10, LeftExcludes
<1>4. Before("level", t, h) = Visited(t, s)
  <2>1. ASSUME NEW p \in Nodes(t)
        PROVE  Precedes("level", p, h) <=> \A j \in 1 .. Len(s) : ~ IsPrefix(s[j], p)
    <3>1. ASSUME \A j \in 1 .. Len(s) : ~ IsPrefix(s[j], p) PROVE Precedes("level", p, h)
      <4>1. p \in Visited(t, s)
        BY <3>1 DEF Visited
      <4>2. QED
        BY <1>1, <4>1 DEF Levels
    <3>2. QED
      BY <1>3, <3>1
  <2>2. QED
    BY <2>1 DEF Before, Visited
<1>5. n = Cardinality(Before("level", t, h))
  BY <1>4 DEF Levels
<1>6. QED
  BY <1>1, <1>2, <1>5, PlaceIs DEF AllOrders


ChildrenAt(t, c) == [i \in 1 .. Size(t, c) |-> Append(c, i)]

\* The queue after a step: what follows its first node, and then that node's children.
LEMMA QueueIs ==
  ASSUME NEW t, Headed(t), NEW s \in Seq(Nodes(t)), s # <<>>
  PROVE  /\ Tail(s) \o ChildrenAt(t, Head(s)) \in Seq(Nodes(t))
         /\ \A i \in 1 .. Len(s) - 1 : (Tail(s) \o ChildrenAt(t, Head(s)))[i] = s[i + 1]
         /\ \A i \in Len(s) .. Len(s) + Size(t, s[1]) - 1 :
              (Tail(s) \o ChildrenAt(t, Head(s)))[i] = Append(s[1], i - Len(s) + 1)
         /\ Len(Tail(s) \o ChildrenAt(t, Head(s))) = Len(s) + Size(t, s[1]) - 1
         /\ Size(t, s[1]) \in Nat /\ Len(s) \in Nat \ {0} /\ s[1] \in Nodes(t)
<1> DEFINE h == s[1]
           a == Tail(s)
           b == ChildrenAt(t, h)
           m == Size(t, h)
<1>1. Len(s) \in Nat \ {0} /\ Head(s) = h /\ h \in Nodes(t)
  <2>1. Len(s) \in Nat \ {0}
    BY EmptySeq
  <2>2. 1 \in 1 .. Len(s)
    BY <2>1
  <2>3. QED
    BY <2>1, <2>2, ElementOfSeq
<1>2. a \in Seq(Nodes(t)) /\ Len(a) = Len(s) - 1 /\ \A i \in 1 .. Len(s) - 1 : a[i] = s[i + 1]
  BY HeadTailProperties
<1>3. Numbered(t) /\ h \in DOMAIN t /\ h \in Path /\ m \in Nat /\ Branches(t, h, m)
  BY <1>1, NodeIs, SizeIs
<1>4. b = [i \in 1 .. m |-> Append(h, i)]
  BY DEF ChildrenAt
<1> HIDE DEF a, b, h, m
<1>5. ASSUME NEW i \in 1 .. m PROVE Append(h, i) \in Nodes(t)
  <2>1. i \in Nat
    BY <1>3
  <2>2. QED
    BY <1>3, <2>1, FrontOfPath DEF Branches, Nodes
<1>6. b \in Seq(Nodes(t)) /\ Len(b) = m /\ \A i \in 1 .. m : b[i] = Append(h, i)
  BY <1>3, <1>4, <1>5
<1>7. /\ a \o b \in Seq(Nodes(t)) /\ Len(a \o b) = Len(a) + Len(b)
      /\ \A i \in 1 .. Len(a) + Len(b) : (a \o b)[i] = IF i <= Len(a) THEN a[i] ELSE b[i - Len(a)]
  BY <1>2, <1>6, ConcatProperties
<1>8. Len(a \o b) = Len(s) + m - 1
  BY <1>1, <1>2, <1>3, <1>6, <1>7
<1>9. \A i \in 1 .. Len(s) - 1 : (a \o b)[i] = s[i + 1]
  BY <1>1, <1>2, <1>3, <1>6, <1>7
<1>10. ASSUME NEW i \in Len(s) .. Len(s) + m - 1 PROVE (a \o b)[i] = Append(h, i - Len(s) + 1)
  <2>1. (a \o b)[i] = b[i - Len(a)]
    BY <1>1, <1>2, <1>3, <1>6, <1>7
  <2>2. i - Len(a) = i - Len(s) + 1 /\ i - Len(a) \in 1 .. m
    BY <1>1, <1>2, <1>3
  <2>3. QED
    BY <1>6, <2>1, <2>2
<1>11. QED
  BY <1>1, <1>3, <1>7, <1>8, <1>9, <1>10 DEF a, b, h, m


\* The queue r holds what the queue s holds behind its first node, and then that node's
\* children.
MovedOn(t, s, r) ==
  /\ \A i \in 1 .. Len(r) :
       \/ i + 1 \in 2 .. Len(s) /\ i < Len(s) /\ r[i] = s[i + 1]
       \/ \E m \in 1 .. Size(t, s[1]) : i >= Len(s) /\ m = i - Len(s) + 1 /\ r[i] = Append(s[1], m)
  /\ \A i \in 2 .. Len(s) : i - 1 \in 1 .. Len(r) /\ r[i - 1] = s[i]
  /\ \A m \in 1 .. Size(t, s[1]) : \E i \in 1 .. Len(r) : r[i] = Append(s[1], m)

LEMMA QueueAfterStep ==
  ASSUME NEW t, Headed(t), NEW s \in Seq(Nodes(t)), s # <<>>
  PROVE  MovedOn(t, s, Tail(s) \o ChildrenAt(t, Head(s)))
<1> DEFINE r == Tail(s) \o ChildrenAt(t, Head(s))
<1>1. /\ Len(r) = Len(s) + Size(t, s[1]) - 1
      /\ Size(t, s[1]) \in Nat /\ Len(s) \in Nat \ {0}
      /\ \A i \in 1 .. Len(s) - 1 : r[i] = s[i + 1]
      /\ \A i \in Len(s) .. Len(s) + Size(t, s[1]) - 1 : r[i] = Append(s[1], i - Len(s) + 1)
  BY QueueIs
<1> HIDE DEF r
<1> DEFINE z == Size(t, s[1])
<1>2. ASSUME NEW i \in 1 .. Len(r)
      PROVE  \/ i + 1 \in 2 .. Len(s) /\ i < Len(s) /\ r[i] = s[i + 1]
             \/ \E m \in 1 .. z : i >= Len(s) /\ m = i - Len(s) + 1 /\ r[i] = Append(s[1], m)
  <2> HIDE DEF z
  <2>1. CASE i < Len(s)
    BY <1>1, <2>1
  <2>2. CASE ~ (i < Len(s))
    <3>1. i - Len(s) + 1 \in 1 .. z /\ i \in Len(s) .. Len(s) + z - 1 /\ i >= Len(s)
      BY <1>1, <2>2 DEF z
    <3>2. r[i] = Append(s[1], i - Len(s) + 1)
      BY <1>1, <3>1 DEF z
    <3>3. QED
      BY <3>1, <3>2
  <2>3. QED
    BY <2>1, <2>2
<1>3. ASSUME NEW i \in 2 .. Len(s) PROVE i - 1 \in 1 .. Len(r) /\ r[i - 1] = s[i]
  <2>1. i - 1 \in 1 .. Len(s) - 1 /\ i - 1 \in 1 .. Len(r) /\ (i - 1) + 1 = i
    BY <1>1
  <2>2. QED
    BY <1>1, <2>1
<1>4. ASSUME NEW m \in 1 .. z PROVE \E i \in 1 .. Len(r) : r[i] = Append(s[1], m)
  <2>1. /\ Len(s) + m - 1 \in Len(s) .. Len(s) + z - 1 /\ Len(s) + m - 1 \in 1 .. Len(r)
        /\ (Len(s) + m - 1) - Len(s) + 1 = m
    BY <1>1
  <2>2. QED
    BY <1>1, <2>1
<1>5. QED
  BY <1>2, <1>3, <1>4 DEF MovedOn, r

\* A step visits the first node of the queue.
LEMMA StepVisits ==
  ASSUME NEW t, Headed(t), NEW s, NEW n \in Nat, Levels(t, s, n), s # <<>>,
         NEW r, r = Tail(s) \o ChildrenAt(t, Head(s))
  PROVE  /\ Visited(t, r) = Visited(t, s) \cup {s[1]}
         /\ Cardinality(Visited(t, r)) = n + 1
<1> DEFINE h == s[1]
<1>1. s \in Seq(Nodes(t)) /\ Len(s) \in Nat /\ 1 \in 1 .. Len(s) /\ Cardinality(Visited(t, s)) = n
  <2>1. s \in Seq(Nodes(t)) /\ Cardinality(Visited(t, s)) = n
    BY DEF Levels
  <2>2. Len(s) \in Nat \ {0}
    BY <2>1, EmptySeq
  <2>3. QED
    BY <2>1, <2>2
<1>2. /\ h \in Nodes(t) /\ h \in Path /\ Len(h) \in Nat /\ h \in DOMAIN t /\ Numbered(t)
      /\ \A i \in 1 .. Len(s) : s[i] \in Path
      /\ \A i, j \in 1 .. Len(s) : IsPrefix(s[i], s[j]) => i = j
  BY <1>1, Queued, NodeIs
<1>3. Size(t, h) \in Nat
  BY <1>2, SizeIs
<1>4. IsPrefix(h, h)
  BY <1>2, PrefixPointwise
<1>5. \A m \in 1 .. Size(t, h) : \A p \in Path : IsPrefix(Append(h, m), p) => IsPrefix(h, p) /\ p # h
  <2>1. ASSUME NEW m \in 1 .. Size(t, h), NEW p \in Path, IsPrefix(Append(h, m), p)
        PROVE  IsPrefix(h, p) /\ p # h
    <3>1. m \in Nat
      BY <1>3
    <3>2. IsPrefix(h, p) /\ Len(h) < Len(p)
      BY <1>2, <2>1, <3>1, BelowChild
    <3>3. QED
      BY <1>2, <3>2
  <2>2. QED
    BY <2>1
<1>6. MovedOn(t, s, r)
  BY <1>1, QueueAfterStep
<1>7. /\ \A i \in 1 .. Len(r) :
           \/ i + 1 \in 2 .. Len(s) /\ i < Len(s) /\ r[i] = s[i + 1]
           \/ \E m \in 1 .. Size(t, h) : i >= Len(s) /\ m = i - Len(s) + 1 /\ r[i] = Append(h, m)
      /\ \A i \in 2 .. Len(s) : i - 1 \in 1 .. Len(r) /\ r[i - 1] = s[i]
      /\ \A m \in 1 .. Size(t, h) : \E i \in 1 .. Len(r) : r[i] = Append(h, m)
  BY <1>6 DEF MovedOn
<1> HIDE DEF h
<1>8. ASSUME NEW p \in Nodes(t), p \in Visited(t, s) \/ p = h, NEW i \in 1 .. Len(r), IsPrefix(r[i], p)
      PROVE  FALSE
  <2>1. p \in Path
    BY NodeIs
  <2>2. CASE i + 1 \in 2 .. Len(s) /\ i < Len(s) /\ r[i] = s[i + 1]
    <3>1. i + 1 \in 1 .. Len(s) /\ i + 1 # 1
      BY <1>1, <2>2
    <3>2. QED
      BY <1>1, <1>2, <1>8, <2>2, <3>1 DEF Visited, h
  <2>3. CASE \E m \in 1 .. Size(t, h) :
               i >= Len(s) /\ m = i - Len(s) + 1 /\ r[i] = Append(h, m)
    <3>1. IsPrefix(h, p) /\ p # h
      BY <1>5, <1>8, <2>1, <2>3
    <3>2. QED
      BY <1>1, <1>8, <3>1 DEF Visited, h
  <2>4. QED
    BY <1>7, <2>2, <2>3
<1>9. ASSUME NEW p \in Visited(t, r), p # h PROVE p \in Visited(t, s)
  <2>1. p \in Nodes(t) /\ p \in DOMAIN t /\ \A i \in 1 .. Len(r) : ~ IsPrefix(r[i], p)
    BY DEF Visited, Nodes
  <2>2. ASSUME NEW i \in 1 .. Len(s), IsPrefix(s[i], p) PROVE FALSE
    <3>1. CASE i = 1
      <4>1. IsPrefix(h, p)
        BY <2>2, <3>1 DEF h
      <4>2. /\ p[Len(h) + 1] \in 1 .. Size(t, h)
            /\ IsPrefix(Append(h, p[Len(h) + 1]), p)
        BY <1>2, <1>9, <2>1, <4>1, BelowAChild
      <4>3. \E j \in 1 .. Len(r) : r[j] = Append(h, p[Len(h) + 1])
        BY <1>7, <4>2
      <4>4. QED
        BY <2>1, <4>2, <4>3
    <3>2. CASE i # 1
      <4>1. i \in 2 .. Len(s)
        BY <1>1, <3>2
      <4>2. QED
        BY <1>7, <2>1, <2>2, <4>1
    <3>3. QED
      BY <3>1, <3>2
  <2>3. QED
    BY <2>1, <2>2 DEF Visited
<1>10. Visited(t, r) = Visited(t, s) \cup {h}
  <2>1. \A p \in Visited(t, s) : p \in Nodes(t)
    BY DEF Visited
  <2>2. \A p \in Visited(t, s) : p \in Visited(t, r)
    BY <1>8, <2>1 DEF Visited
  <2>3. h \in Visited(t, r)
    BY <1>2, <1>8 DEF Visited
  <2>4. QED
    BY <1>9, <2>2, <2>3
<1>11. h \notin Visited(t, s)
  BY <1>1, <1>4 DEF Visited, h
<1>12. IsFiniteSet(Visited(t, s))
  <2>1. IsFiniteSet(Nodes(t)) /\ Visited(t, s) \in SUBSET Nodes(t)
    BY PlaceIs DEF AllOrders, Visited
  <2>2. QED
    BY <2>1, FS_Subset
<1>13. QED
  BY <1>1, <1>10, <1>11, <1>12, FS_AddElement DEF h


\* A child of the first node of the queue comes after all that is queued.
LEMMA QueuedBeforeChild ==
  ASSUME NEW t, Headed(t), NEW s, NEW n, Levels(t, s, n), NEW i \in 2 .. Len(s),
         NEW m \in 1 .. Size(t, s[1])
  PROVE  /\ Precedes("level", s[i], Append(s[1], m)) /\ ~ IsPrefix(s[i], Append(s[1], m))
         /\ Len(s[i]) <= Len(Append(s[1], m)) + 1 /\ Len(Append(s[1], m)) <= Len(s[i]) + 1
<1> DEFINE h == s[1]
           x == s[i]
           y == Append(h, m)
<1>1. i \in 1 .. Len(s) /\ 1 \in 1 .. Len(s) /\ i # 1 /\ 1 < i
  BY Queued
<1>2. /\ h \in Nodes(t) /\ h \in Path /\ Len(h) \in Nat /\ x \in Nodes(t) /\ x \in Path
      /\ Len(x) \in Nat /\ Len(h) <= Len(x)
      /\ \A j \in 1 .. Len(s) : s[j] \in Path /\ Len(s[j]) \in Nat /\ (IsPrefix(s[j], x) => j = i)
  BY <1>1, Queued
<1>3. Len(x) <= Len(h) + 1 /\ Precedes("level", h, x) /\ ~ IsPrefix(x, h)
  BY <1>1, Queued DEF Levels
<1>4. h \in DOMAIN t /\ Numbered(t) /\ Len(h) >= 1
  BY <1>2, NodeIs
<1>5. m \in Nat
  BY <1>4, SizeIs
<1>6. /\ y \in Path /\ Len(y) = Len(h) + 1 /\ y[Len(h) + 1] = m
      /\ IsPrefix(x, y) <=> IsPrefix(x, h) \/ x = y
      /\ IsPrefix(h, y)
  <2>1. IsPrefix(h, h)
    BY <1>2, PrefixPointwise
  <2>2. QED
    BY <1>2, <1>5, <2>1, AppendPointwise, PrefixOfAppend
<1> HIDE DEF h, x, y
<1>7. CASE Len(x) # Len(h) + 1
  <2>1. Len(x) < Len(y) /\ x # y /\ Len(x) <= Len(y) + 1 /\ Len(y) <= Len(x) + 1
    BY <1>2, <1>3, <1>6, <1>7
  <2>2. Precedes("level", x, y)
    BY <2>1, PrecedesIs
  <2>3. ~ IsPrefix(x, y)
    BY <1>3, <1>6, <2>1
  <2>4. QED
    BY <2>1, <2>2, <2>3 DEF h, x, y
<1>8. CASE Len(x) = Len(h) + 1
  <2>1. x # Root
    <3>1. Len(x) # 1
      BY <1>2, <1>4, <1>8
    <3>2. Len(Root) = 1
      BY RootIs
    <3>3. QED
      BY <3>1, <3>2, Zenon
  <2>2. /\ Front(x) \in Nodes(t) /\ Front(x) \in Path /\ Len(Front(x)) = Len(x) - 1
        /\ x = Append(Front(x), x[Len(x)]) /\ x[Len(x)] \in Nat
    <3>1. /\ Front(x) \in Nodes(t) /\ Front(x) \in Path /\ Len(Front(x)) = Len(x) - 1
          /\ x = Append(Front(x), x[Len(x)]) /\ Len(x) \in 1 .. Len(x)
      BY <1>2, <2>1, ParentIs
    <3>2. QED
      BY <1>2, <3>1, NodeIs
  <2>3. IsPrefix(Front(x), x)
    <3>1. IsPrefix(Front(x), Front(x))
      BY <2>2, PrefixPointwise
    <3>2. IsPrefix(Front(x), Append(Front(x), x[Len(x)]))
      BY <2>2, <3>1, PrefixOfAppend
    <3>3. QED
      BY <2>2, <3>2
  <2>4. ASSUME NEW j \in 1 .. Len(s), IsPrefix(s[j], Front(x)) PROVE FALSE
    <3>1. IsPrefix(s[j], x)
      BY <1>2, <2>2, <2>3, <2>4, PrefixTransitive
    <3>2. s[j] = x
      BY <1>2, <3>1 DEF x
    <3>3. Len(x) <= Len(Front(x))
      BY <1>2, <2>2, <2>4, <3>2, PrefixPointwise
    <3>4. QED
      BY <1>2, <2>2, <3>3
  <2>5. Precedes("level", Front(x), h)
    <3>1. Front(x) \in Visited(t, s)
      BY <2>2, <2>4 DEF Visited
    <3>2. QED
      BY <1>1, <3>1 DEF Levels, h
  <2>6. Len(Front(x)) = Len(h)
    BY <1>2, <1>8, <2>2
  <2>7. LeftOf(Front(x), h)
    <3>1. ~ (Len(Front(x)) < Len(h))
      BY <1>2, <2>6
    <3>2. QED
      BY <2>5, <3>1, PrecedesIs
  <2>8. LeftOf(x, h)
    BY <1>2, <2>2, <2>3, <2>7, LeftBelow
  <2>9. LeftOf(x, y)
    BY <1>2, <1>6, <2>8, LeftBelow
  <2>10. ~ IsPrefix(x, y)
    BY <1>2, <1>6, <2>9, LeftExcludes
  <2>11. Precedes("level", x, y)
    BY <1>6, <1>8, <2>9, PrecedesIs
  <2>12. Len(x) <= Len(y) + 1 /\ Len(y) <= Len(x) + 1
    BY <1>2, <1>6, <1>8
  <2>13. QED
    BY <2>10, <2>11, <2>12 DEF h, x, y
<1>9. QED
  BY <1>7, <1>8

\* Of two children of a node the first comes first.
LEMMA ChildrenInOrder ==
  ASSUME NEW h \in Path, NEW a \in Nat, NEW b \in Nat
  PROVE  /\ Len(Append(h, a)) = Len(Append(h, b)) /\ Len(Append(h, a)) = Len(h) + 1
         /\ a < b => /\ Precedes("level", Append(h, a), Append(h, b))
                     /\ ~ IsPrefix(Append(h, a), Append(h, b))
<1>1. /\ Append(h, a) \in Path /\ Len(Append(h, a)) = Len(h) + 1 /\ Append(h, a)[Len(h) + 1] = a
      /\ Append(h, b) \in Path /\ Len(Append(h, b)) = Len(h) + 1 /\ Len(h) \in Nat
  BY AppendPointwise
<1>2. IsPrefix(h, Append(h, a))
  <2>1. IsPrefix(h, h)
    BY PrefixPointwise
  <2>2. QED
    BY <2>1, PrefixOfAppend
<1>3. ASSUME a < b PROVE LeftOf(Append(h, a), Append(h, b))
  <2>1. Len(h) < Len(Append(h, a)) /\ Append(h, a)[Len(h) + 1] < b
    BY <1>1, <1>3
  <2>2. QED
    BY <1>1, <1>2, <2>1, LeftOfChild
<1>4. QED
  BY <1>1, <1>3, LeftExcludes, PrecedesIs

\* A step of rank_is visits one node more.
LEMMA LevelsStep ==
  ASSUME NEW t, Headed(t), NEW s, NEW n \in Nat, Levels(t, s, n), n # Cardinality(Nodes(t))
  PROVE  Levels(t, Tail(s) \o ChildrenAt(t, Head(s)), n + 1)
<1> DEFINE r == Tail(s) \o ChildrenAt(t, Head(s))
           h == s[1]
<1>1. s \in Seq(Nodes(t)) /\ s # <<>> /\ 1 \in 1 .. Len(s)
  BY QueueNotEmpty DEF Levels
<1>2. r \in Seq(Nodes(t)) /\ Visited(t, r) = Visited(t, s) \cup {h} /\ Cardinality(Visited(t, r)) = n + 1
  BY <1>1, QueueIs, StepVisits
<1>3. MovedOn(t, s, r)
  BY <1>1, QueueAfterStep
<1> HIDE DEF r
<1>4. /\ h \in Nodes(t) /\ h \in Path /\ Len(h) \in Nat /\ Len(s) \in Nat
      /\ \A i \in 1 .. Len(s) : Len(s[i]) \in Nat /\ Len(h) <= Len(s[i])
  BY <1>1, Queued
<1>5. Size(t, h) \in Nat
  BY <1>4, NodeIs, SizeIs
<1>6. \A i \in 1 .. Len(r) :
        \/ i + 1 \in 2 .. Len(s) /\ i < Len(s) /\ r[i] = s[i + 1]
        \/ \E m \in 1 .. Size(t, h) : i >= Len(s) /\ m = i - Len(s) + 1 /\ r[i] = Append(h, m)
  BY <1>3 DEF MovedOn
<1>7. \A m \in 1 .. Size(t, h) : m \in Nat /\ Len(Append(h, m)) = Len(h) + 1
  BY <1>4, <1>5, ChildrenInOrder
<1>8. \A i \in 2 .. Len(s), m \in 1 .. Size(t, h) :
        /\ Precedes("level", s[i], Append(h, m)) /\ ~ IsPrefix(s[i], Append(h, m))
        /\ Len(s[i]) <= Len(Append(h, m)) + 1 /\ Len(Append(h, m)) <= Len(s[i]) + 1
  BY QueuedBeforeChild
<1> HIDE DEF h
<1>9. ASSUME NEW i \in 1 .. Len(r), NEW j \in 1 .. Len(r), i < j
      PROVE  Precedes("level", r[i], r[j]) /\ ~ IsPrefix(r[i], r[j])
  <2>1. CASE i + 1 \in 2 .. Len(s) /\ i < Len(s) /\ r[i] = s[i + 1]
    <3>1. CASE j + 1 \in 2 .. Len(s) /\ j < Len(s) /\ r[j] = s[j + 1]
      <4>1. i + 1 \in 1 .. Len(s) /\ j + 1 \in 1 .. Len(s) /\ i + 1 < j + 1
        BY <1>4, <1>9, <2>1, <3>1
      <4>2. QED
        BY <2>1, <3>1, <4>1 DEF Levels
    <3>2. CASE \E m \in 1 .. Size(t, h) :
                 j >= Len(s) /\ m = j - Len(s) + 1 /\ r[j] = Append(h, m)
      BY <1>8, <2>1, <3>2
    <3>3. QED
      BY <1>6, <3>1, <3>2
  <2>2. CASE \E m \in 1 .. Size(t, h) :
               i >= Len(s) /\ m = i - Len(s) + 1 /\ r[i] = Append(h, m)
    <3>1. PICK a \in 1 .. Size(t, h) : i >= Len(s) /\ a = i - Len(s) + 1 /\ r[i] = Append(h, a)
      BY <2>2
    <3>2. ~ (j < Len(s))
      BY <1>4, <1>9, <3>1
    <3>3. PICK b \in 1 .. Size(t, h) : j >= Len(s) /\ b = j - Len(s) + 1 /\ r[j] = Append(h, b)
      BY <1>6, <3>2
    <3>4. a \in Nat /\ b \in Nat /\ a < b
      BY <1>4, <1>5, <1>9, <3>1, <3>3
    <3>5. QED
      BY <1>4, <3>1, <3>3, <3>4, ChildrenInOrder
  <2>3. QED
    BY <1>6, <2>1, <2>2
<1>10. ASSUME NEW i \in 1 .. Len(r), NEW j \in 1 .. Len(r)
       PROVE  Len(r[i]) <= Len(r[j]) + 1
  <2>1. CASE /\ i + 1 \in 2 .. Len(s) /\ r[i] = s[i + 1]
             /\ j + 1 \in 2 .. Len(s) /\ r[j] = s[j + 1]
    <3>1. i + 1 \in 1 .. Len(s) /\ j + 1 \in 1 .. Len(s)
      BY <2>1
    <3>2. QED
      BY <2>1, <3>1 DEF Levels
  <2>2. CASE i + 1 \in 2 .. Len(s) /\ r[i] = s[i + 1] /\ \E m \in 1 .. Size(t, h) : r[j] = Append(h, m)
    BY <1>8, <2>2
  <2>3. CASE j + 1 \in 2 .. Len(s) /\ r[j] = s[j + 1] /\ \E m \in 1 .. Size(t, h) : r[i] = Append(h, m)
    BY <1>8, <2>3
  <2>4. CASE /\ \E m \in 1 .. Size(t, h) : r[i] = Append(h, m)
             /\ \E m \in 1 .. Size(t, h) : r[j] = Append(h, m)
    <3>1. Len(r[i]) = Len(h) + 1 /\ Len(r[j]) = Len(h) + 1
      BY <1>7, <2>4
    <3>2. QED
      BY <1>4, <3>1
  <2>5. /\ (i + 1 \in 2 .. Len(s) /\ r[i] = s[i + 1]) \/ \E m \in 1 .. Size(t, h) : r[i] = Append(h, m)
        /\ (j + 1 \in 2 .. Len(s) /\ r[j] = s[j + 1]) \/ \E m \in 1 .. Size(t, h) : r[j] = Append(h, m)
    BY <1>6
  <2>6. QED
    BY <2>1, <2>2, <2>3, <2>4, <2>5
<1>11. ASSUME NEW p \in Visited(t, r), NEW i \in 1 .. Len(r) PROVE Precedes("level", p, r[i])
  <2>1. p \in Visited(t, s) \/ p = h
    BY <1>2
  <2>2. p \in Path /\ Len(p) \in Nat /\ Len(p) <= Len(h)
    <3>1. CASE p = h
      BY <1>4, <3>1
    <3>2. CASE p \in Visited(t, s)
      <4>1. Len(p) < Len(h) \/ Len(p) = Len(h)
        BY <1>1, <3>2, PrecedesIs DEF Levels, h
      <4>2. p \in Path /\ Len(p) \in Nat
        BY <3>2, NodeIs DEF Visited
      <4>3. QED
        BY <1>4, <4>1, <4>2
    <3>3. QED
      BY <2>1, <3>1, <3>2
  <2>3. CASE i + 1 \in 2 .. Len(s) /\ r[i] = s[i + 1]
    <3>1. i + 1 \in 1 .. Len(s) /\ 1 < i + 1
      BY <2>3
    <3>2. QED
      BY <1>1, <2>1, <2>3, <3>1 DEF Levels, h
  <2>4. CASE \E m \in 1 .. Size(t, h) : r[i] = Append(h, m)
    <3>1. Len(r[i]) = Len(h) + 1
      BY <1>7, <2>4
    <3>2. Len(p) < Len(r[i])
      BY <1>4, <2>2, <3>1
    <3>3. QED
      BY <3>2, PrecedesIs
  <2>5. QED
    BY <1>6, <2>3, <2>4
<1>12. QED
  BY <1>2, <1>9, <1>10, <1>11 DEF Levels, r


-----------------------------------------------------------------------------
(* The ranges of subtrees                                                   *)

\* The place beside the root is the end of the iteration.
LEMMA BesideRoot ==
  Beside(Root, 1) = Shoot
<1>1. <<>> \in Path /\ 1 \in Nat /\ Append(<<>>, 1) = Root /\ Append(<<>>, 2) = Shoot
  BY OneStep DEF Root, Shoot
<1>2. Front(Append(<<>>, 1)) = <<>> /\ Len(Append(<<>>, 1)) = Len(<<>>) + 1
  BY <1>1, FrontOfPath
<1>3. Append(<<>>, 1)[Len(<<>>) + 1] = 1
  BY <1>1, AppendPointwise
<1>4. Front(Root) = <<>> /\ Last(Root) = 1
  BY <1>1, <1>2, <1>3 DEF Last
<1>5. 1 + 1 = 2
  OBVIOUS
<1>6. QED
  BY <1>1, <1>4, <1>5 DEF Beside

\* The place beside another node is on the same level, and it is a node where the node
\* has a sibling to its right.
LEMMA BesideNode ==
  ASSUME NEW t, Headed(t), NEW c \in Nodes(t), c # Root
  PROVE  /\ Beside(c, 1) \in Path /\ Len(Beside(c, 1)) = Len(c) /\ Len(c) \in Nat /\ Len(c) >= 2
         /\ Len(c) \in Unfinished(t, c) => Beside(c, 1) \in DOMAIN t
         /\ Beside(c, 1) # Shoot
<1> DEFINE f == Front(c)
           m == c[Len(c)]
           b == Beside(c, 1)
<1>1. /\ f \in Path /\ Len(f) = Len(c) - 1 /\ Len(c) \in Nat /\ Len(c) >= 2
      /\ m \in 1 .. Size(t, f) /\ Size(t, f) \in Nat /\ Branches(t, f, Size(t, f))
      /\ Len(c) \in Unfinished(t, c) <=> m < Size(t, f)
  BY ParentIs
<1>2. b = Append(f, m + 1)
  BY DEF Beside, Last
<1> HIDE DEF f, m, b
<1>3. m + 1 \in Nat
  BY <1>1
<1>4. b \in Path /\ Len(b) = Len(c)
  <2>1. Append(f, m + 1) \in Path /\ Len(Append(f, m + 1)) = Len(f) + 1
    BY <1>1, <1>3, AppendPointwise
  <2>2. QED
    BY <1>1, <1>2, <2>1
<1>5. ASSUME Len(c) \in Unfinished(t, c) PROVE b \in DOMAIN t
  <2>1. m + 1 \in 1 .. Size(t, f)
    BY <1>1, <1>5
  <2>2. QED
    BY <1>1, <1>2, <1>3, <2>1 DEF Branches
<1>6. b # Shoot
  <2>1. Len(b) # 1
    BY <1>1, <1>4
  <2>2. Len(Shoot) = 1
    <3>1. <<>> \in Path /\ 2 \in Nat /\ Append(<<>>, 2) = Shoot /\ Len(<<>>) = 0
      BY OneStep DEF Shoot
    <3>2. Len(Append(<<>>, 2)) = Len(<<>>) + 1
      BY <3>1, FrontOfPath
    <3>3. QED
      BY <3>1, <3>2
  <2>3. QED
    BY <2>1, <2>2, Zenon
<1>7. QED
  BY <1>1, <1>4, <1>5, <1>6 DEF b

\* In preorder what follows the last node below c is beside c only if c is the root or
\* has a sibling to its right.
LEMMA PreorderRangeEnds ==
  ASSUME NEW t, Headed(t), NEW c \in Nodes(t)
  PROVE  PreorderSuccessor(t, Deepest(t, c)) = Beside(c, 1)
           <=> c = Root \/ Len(c) \in Unfinished(t, c)
<1> DEFINE U == Unfinished(t, c)
           d == PreorderSuccessor(t, Deepest(t, c))
<1>1. d = IF U = {} THEN Shoot ELSE Beside(SubSeq(c, 1, Max(U)), 1)
  BY SuccessorOfDeepest
<1>2. CASE c = Root
  BY <1>1, <1>2, RootFinished, BesideRoot
<1>3. CASE c # Root /\ Len(c) \in U
  BY <1>1, <1>3, NextSibling
<1>4. CASE c # Root /\ Len(c) \notin U /\ U = {}
  <2>1. d = Shoot
    BY <1>1, <1>4
  <2>2. Beside(c, 1) # Shoot
    BY <1>4, BesideNode
  <2>3. QED
    BY <1>4, <2>1, <2>2
<1>5. CASE c # Root /\ Len(c) \notin U /\ U # {}
  <2>1. d = Beside(SubSeq(c, 1, Max(U)), 1)
    BY <1>1, <1>5
  <2>2. c \in DOMAIN t /\ c \in Path /\ Numbered(t) /\ Len(c) \in Nat
    BY NodeIs
  <2>3. Max(U) \in 1 .. Len(c) /\ Max(U) \in U
    BY <1>5, <2>2, LastUnfinished
  <2>4. c[Max(U)] + 1 \in Nat /\ 1 \in Int
    <3>1. c[Max(U)] \in Nat
      BY <2>2, <2>3, ElementOfSeq DEF Path
    <3>2. QED
      BY <3>1
  <2>5. Len(Beside(SubSeq(c, 1, Max(U)), 1)) = Max(U)
    BY <2>2, <2>3, <2>4, BesideAt
  <2>6. Max(U) # Len(c)
    BY <1>5, <2>3
  <2>7. Len(Beside(c, 1)) = Len(c)
    BY <1>5, BesideNode
  <2> HIDE DEF d, U
  <2>8. Len(d) # Len(Beside(c, 1))
    BY <2>1, <2>5, <2>6, <2>7
  <2>9. d # Beside(c, 1)
    BY <2>8, Zenon
  <2>10. QED
    BY <1>5, <2>9 DEF d, U
<1>6. QED
  BY <1>2, <1>3, <1>4, <1>5

\* In postorder that sibling must be a leaf.
LEMMA PostorderRangeEnds ==
  ASSUME NEW t, Headed(t), NEW c \in Nodes(t)
  PROVE  PostorderSuccessor(t, c) = Beside(c, 1)
           <=> c = Root \/ (Len(c) \in Unfinished(t, c) /\ Empty(t, Beside(c, 1)))
<1> DEFINE b == Beside(c, 1)
<1>1. CASE c = Root
  BY <1>1, BesideRoot DEF PostorderSuccessor
<1>2. CASE c # Root /\ Len(c) \in Unfinished(t, c)
  <2>1. PostorderSuccessor(t, c) = First(t, b)
    BY <1>2 DEF PostorderSuccessor
  <2>2. b \in DOMAIN t /\ b \in Path /\ Len(b) \in Nat
    BY <1>2, BesideNode
  <2>3. Numbered(t) /\ IsFiniteSet(DOMAIN t)
    BY DEF Headed
  <2>4. IsPrefix(b, b) /\ ~ (\E i \in Len(b) + 1 .. Len(b) : TRUE)
    BY <2>2, PrefixPointwise
  <2>5. Empty(t, First(t, b)) /\ (Empty(t, b) => b = First(t, b))
    BY <2>2, <2>3, <2>4, FirstIs
  <2>6. QED
    BY <1>2, <2>1, <2>5
<1>3. CASE c # Root /\ Len(c) \notin Unfinished(t, c)
  <2>1. PostorderSuccessor(t, c) = Front(c)
    BY <1>3 DEF PostorderSuccessor
  <2>2. Len(Front(c)) = Len(c) - 1 /\ Len(c) \in Nat /\ Len(b) = Len(c)
    BY <1>3, ParentIs, BesideNode
  <2> HIDE DEF b
  <2>3. Len(Front(c)) # Len(b)
    BY <2>2
  <2>4. Front(c) # b
    BY <2>3, Zenon
  <2>5. QED
    BY <1>3, <2>1, <2>4 DEF b
<1>4. QED
  BY <1>1, <1>2, <1>3

-----------------------------------------------------------------------------
(* The invariant                                                            *)

TypeInv ==
  /\ tree \in InitialTrees /\ steps \in Nat
  /\ mode \in Orders \cup {"none", "rank", "ranked"}

\* The queue of rank_is has come as far as the count says.
RankInLevels ==
  mode = "rank" =>
    /\ remaining \in 0 .. steps /\ steps < Cardinality(Nodes(tree))
    /\ Levels(tree, queue, steps - remaining)

Ranked == mode = "ranked" => InPlace("level", tree, it, steps)

IInv == TypeInv /\ IteratorsInPlace /\ RankInLevels /\ Ranked

\* Before the first walk.
LEMMA InvInit ==
  Init => IInv
<1>1. SUFFICES ASSUME Init PROVE IInv
  OBVIOUS
<1>2. TypeInv
  BY <1>1 DEF Init, TypeInv
<1>3. mode = "none"
  BY <1>1 DEF Init
<1>4. QED
  BY <1>2, <1>3 DEF IInv, IteratorsInPlace, Iterating, Orders, RankInLevels, Ranked

\* begin(), ++ and -- of the iterators.
LEMMA IteratorSteps ==
  ASSUME IInv, BeginIteration \/ Increment \/ Decrement
  PROVE  IInv'
<1>1. tree \in InitialTrees /\ steps \in Nat /\ Headed(tree) /\ IteratorsInPlace
  BY TreesAreHeaded DEF IInv, TypeInv
<1>2. CASE BeginIteration
  <2>1. PICK order \in Orders : mode' = order /\ it' = Begin(order, tree)
    BY <1>2 DEF BeginIteration
  <2>2. steps' = 0 /\ tree' = tree
    BY <1>2 DEF BeginIteration
  <2>3. InPlace(mode', tree', it', steps')
    BY <1>1, <2>1, <2>2, BeginPlace
  <2>4. QED
    BY <1>1, <2>1, <2>2, <2>3
    DEF IInv, TypeInv, IteratorsInPlace, Iterating, Orders, RankInLevels, Ranked
<1>3. CASE Increment
  <2>1. mode \in Orders /\ it # Shoot /\ mode' = mode /\ tree' = tree /\ steps' = steps + 1
        /\ it' = Successor(mode, tree, it) /\ InPlace(mode, tree, it, steps)
    BY <1>1, <1>3 DEF Increment, Iterating, IteratorsInPlace
  <2>2. InPlace(mode, tree, Successor(mode, tree, it), steps + 1)
    BY <1>1, <2>1, IncrementPlace
  <2>3. InPlace(mode', tree', it', steps')
    BY <2>1, <2>2
  <2>4. QED
    BY <1>1, <2>1, <2>3
    DEF IInv, TypeInv, IteratorsInPlace, Iterating, Orders, RankInLevels, Ranked
<1>4. CASE Decrement
  <2>1. mode \in Orders /\ steps > 0 /\ mode' = mode /\ tree' = tree /\ steps' = steps - 1
        /\ it' = Predecessor(mode, tree, it) /\ InPlace(mode, tree, it, steps)
    BY <1>1, <1>4 DEF Decrement, Iterating, IteratorsInPlace
  <2>2. steps \in Nat \ {0} /\ steps - 1 \in Nat
    BY <1>1, <2>1
  <2>3. InPlace(mode, tree, Predecessor(mode, tree, it), steps - 1)
    BY <1>1, <2>1, <2>2, DecrementPlace
  <2>4. InPlace(mode', tree', it', steps')
    BY <2>1, <2>3
  <2>5. QED
    BY <1>1, <2>1, <2>2, <2>4
    DEF IInv, TypeInv, IteratorsInPlace, Iterating, Orders, RankInLevels, Ranked
<1>5. QED
  BY <1>2, <1>3, <1>4

\* rank_is, from the call over the steps of rank_is_impl to the return.
LEMMA RankSteps ==
  ASSUME IInv,
         (\E n \in 0 .. Cardinality(Nodes(tree)) : RankIs(n)) \/ RankStep \/ RankReturn
  PROVE  IInv'
<1>1. /\ tree \in InitialTrees /\ steps \in Nat /\ Headed(tree)
      /\ Cardinality(Nodes(tree)) \in Nat
      /\ InPlace("level", tree, Shoot, Cardinality(Nodes(tree)))
  BY TreesAreHeaded, PlaceIs DEF IInv, TypeInv, AllOrders
<1>2. CASE \E n \in 0 .. Cardinality(Nodes(tree)) : RankIs(n)
  <2>1. PICK n \in 0 .. Cardinality(Nodes(tree)) : RankIs(n)
    BY <1>2
  <2>2. steps' = n /\ tree' = tree /\ n \in Nat
    BY <1>1, <2>1 DEF RankIs
  <2>3. CASE n >= Cardinality(Nodes(tree))
    <3>1. mode' = "ranked" /\ it' = Shoot /\ n = Cardinality(Nodes(tree))
      BY <1>1, <2>1, <2>3 DEF RankIs
    <3>2. InPlace("level", tree', it', steps')
      BY <1>1, <2>2, <3>1
    <3>3. QED
      BY <1>1, <2>2, <3>1, <3>2
      DEF IInv, TypeInv, IteratorsInPlace, Iterating, Orders, RankInLevels, Ranked
  <2>4. CASE ~ (n >= Cardinality(Nodes(tree)))
    <3>1. mode' = "rank" /\ queue' = <<Root>> /\ remaining' = n
      BY <2>1, <2>4 DEF RankIs
    <3>2. Levels(tree, <<Root>>, 0)
      BY <1>1, LevelsBegin
    <3>3. remaining' \in 0 .. steps' /\ steps' < Cardinality(Nodes(tree')) /\ steps' - remaining' = 0
      BY <1>1, <2>2, <2>4, <3>1
    <3>4. Levels(tree', queue', steps' - remaining')
      BY <2>2, <3>1, <3>2, <3>3
    <3>5. QED
      BY <1>1, <2>2, <3>1, <3>3, <3>4
      DEF IInv, TypeInv, IteratorsInPlace, Iterating, Orders, RankInLevels, Ranked
  <2>5. QED
    BY <2>3, <2>4
<1>3. ASSUME mode = "rank"
      PROVE  /\ remaining \in 0 .. steps /\ steps < Cardinality(Nodes(tree))
             /\ Levels(tree, queue, steps - remaining)
             /\ steps - remaining \in Nat /\ steps - remaining # Cardinality(Nodes(tree))
  <2>1. /\ remaining \in 0 .. steps /\ steps < Cardinality(Nodes(tree))
        /\ Levels(tree, queue, steps - remaining)
    BY <1>3 DEF IInv, RankInLevels
  <2>2. QED
    BY <1>1, <2>1
<1>4. CASE RankStep
  <2>1. /\ mode = "rank" /\ remaining # 0 /\ mode' = mode /\ tree' = tree /\ steps' = steps
        /\ remaining' = remaining - 1
        /\ queue' = Tail(queue) \o ChildrenAt(tree, Head(queue))
    BY <1>4 DEF RankStep, ChildrenOf, ChildrenAt
  <2>2. Levels(tree, Tail(queue) \o ChildrenAt(tree, Head(queue)), steps - remaining + 1)
    BY <1>1, <1>3, <2>1, LevelsStep
  <2>3. remaining' \in 0 .. steps' /\ steps' - remaining' = steps - remaining + 1
    BY <1>1, <1>3, <2>1
  <2>4. Levels(tree', queue', steps' - remaining')
    BY <2>1, <2>2, <2>3
  <2>5. QED
    BY <1>1, <1>3, <2>1, <2>3, <2>4
    DEF IInv, TypeInv, IteratorsInPlace, Iterating, Orders, RankInLevels, Ranked
<1>5. CASE RankReturn
  <2>1. /\ mode = "rank" /\ remaining = 0 /\ mode' = "ranked" /\ tree' = tree /\ steps' = steps
        /\ it' = Head(queue)
    BY <1>5 DEF RankReturn
  <2>2. InPlace("level", tree, Head(queue), steps - remaining) /\ steps - remaining = steps
    BY <1>1, <1>3, <2>1, LevelsEnd
  <2>3. InPlace("level", tree', it', steps')
    BY <2>1, <2>2
  <2>4. QED
    BY <1>1, <2>1, <2>3
    DEF IInv, TypeInv, IteratorsInPlace, Iterating, Orders, RankInLevels, Ranked
<1>6. QED
  BY <1>2, <1>4, <1>5

\* No step of a walk disturbs it.
LEMMA InvNext ==
  IInv /\ [Next]_vars => IInv'
<1>1. SUFFICES ASSUME IInv, [Next]_vars PROVE IInv'
  OBVIOUS
<1>2. CASE UNCHANGED vars
  BY <1>1, <1>2
  DEF vars, IInv, TypeInv, IteratorsInPlace, Iterating, RankInLevels, Ranked
<1>3. CASE BeginIteration \/ Increment \/ Decrement
  BY <1>1, <1>3, IteratorSteps
<1>4. CASE (\E n \in 0 .. Cardinality(Nodes(tree)) : RankIs(n)) \/ RankStep \/ RankReturn
  BY <1>1, <1>4, RankSteps
<1>5. QED
  BY <1>1, <1>2, <1>3, <1>4 DEF Next

\* The invariant holds of every walk over every set of ordered trees.
THEOREM WalkInvariant ==
  Spec => []IInv
<1>1. QED
  BY InvInit, InvNext, PTL DEF Spec

\* Whatever ++ and -- an iterator of either order was moved by, it designates the node
\* that is as many places from the first.
THEOREM IteratorsStayInPlace ==
  Spec => []IteratorsInPlace
<1>1. IInv => IteratorsInPlace
  BY DEF IInv
<1>2. QED
  BY <1>1, WalkInvariant, PTL

\* rank_is finds the queue filled as long as it counts, and returns the node that is
\* as many places from the root in the order of the levels.
THEOREM RankNumbersLevels ==
  Spec => []RankIsLevelOrder
<1>1. IInv => RankIsLevelOrder
  <2>1. SUFFICES ASSUME IInv PROVE RankIsLevelOrder
    OBVIOUS
  <2>2. ASSUME mode = "rank" PROVE queue # <<>>
    <3>1. /\ remaining \in 0 .. steps /\ steps < Cardinality(Nodes(tree)) /\ steps \in Nat
          /\ Levels(tree, queue, steps - remaining) /\ Headed(tree)
      BY <2>1, <2>2, TreesAreHeaded DEF IInv, TypeInv, RankInLevels
    <3>2. Cardinality(Nodes(tree)) \in Nat
      BY <3>1, PlaceIs DEF AllOrders
    <3>3. steps - remaining # Cardinality(Nodes(tree))
      BY <3>1, <3>2
    <3>4. QED
      BY <3>1, <3>3, QueueNotEmpty
  <2>3. QED
    BY <2>1, <2>2 DEF RankIsLevelOrder, IInv, Ranked
<1>2. QED
  BY <1>1, WalkInvariant, PTL

\* ++ that leaves the subtree of a cursor comes to the end of its range only from the
\* root or beside a right sibling, which must be a leaf in postorder.
THEOREM RangesEndBesideLeaves ==
  Spec => []SubtreeRangesEnd
<1>1. IInv => SubtreeRangesEnd
  <2>1. SUFFICES ASSUME IInv, Iterating, NEW c \in Nodes(tree), it = LastBelow(c)
                 PROVE  Successor(mode, tree, it) = Beside(c, 1)
                        <=> \/ c = Root
                            \/ /\ Len(c) \in Unfinished(tree, c)
                               /\ mode = "postorder" => Empty(tree, Beside(c, 1))
    BY DEF SubtreeRangesEnd
  <2>2. Headed(tree)
    BY <2>1, TreesAreHeaded DEF IInv, TypeInv
  <2>3. CASE mode = "preorder"
    BY <2>1, <2>2, <2>3, PreorderRangeEnds DEF Successor, LastBelow
  <2>4. CASE mode = "postorder"
    BY <2>1, <2>2, <2>4, PostorderRangeEnds DEF Successor, LastBelow
  <2>5. QED
    BY <2>1, <2>3, <2>4 DEF Iterating, Orders
<1>2. QED
  BY <1>1, WalkInvariant, PTL
=============================================================================
