--------------------------- MODULE PathTree_proofs ----------------------------
(***************************************************************************)
(* Lemmas about PathTree: paths and their prefixes, the nodes of subtrees   *)
(* and of trees with another one in the place of a subtree, what is below   *)
(* the root, heights.                                                       *)
(***************************************************************************)
EXTENDS PathTree, SequenceTheorems, FiniteSetTheorems, WellFoundedInduction, TLAPS

-----------------------------------------------------------------------------
(* Numbers and finite sets                                                  *)

\* A set of numbers that is not empty has a least one.
LEMMA LeastNumber ==
  ASSUME NEW T, T \subseteq Nat, T # {}
  PROVE  \E m \in T : \A k \in T : m <= k
<1>1. PICK m \in T : \A y \in T : <<y, m>> \notin OpToRel(<, Nat)
  BY NatLessThanWellFounded, WFMin
<1>2. \A k \in T : ~ (k < m)
  BY <1>1 DEF OpToRel
<1>3. QED
  BY <1>2

\* A set of numbers with a bound has a largest one.
LEMMA LargestNumber ==
  ASSUME NEW S, S \subseteq Nat, S # {}, NEW b \in Nat, \A x \in S : x <= b
  PROVE  Max(S) \in S /\ \A x \in S : x <= Max(S)
<1> DEFINE T == {b - x : x \in S}
<1>1. T \subseteq Nat /\ T # {}
  <2>1. \A x \in S : b - x \in Nat
    OBVIOUS
  <2>2. PICK x \in S : TRUE
    OBVIOUS
  <2>3. b - x \in T
    OBVIOUS
  <2>4. QED
    BY <2>1, <2>3
<1> HIDE DEF T
<1>2. PICK m \in T : \A k \in T : m <= k
  BY <1>1, LeastNumber
<1>3. PICK y \in S : m = b - y
  BY <1>2 DEF T
<1>4. \A x \in S : y >= x
  <2>1. SUFFICES ASSUME NEW x \in S PROVE y >= x
    OBVIOUS
  <2>2. b - x \in T
    BY DEF T
  <2>3. b - y <= b - x /\ x \in Nat /\ y \in Nat
    BY <1>2, <1>3, <2>2
  <2>4. QED
    BY <2>3
<1>5. Max(S) \in S /\ \A x \in S : Max(S) >= x
  BY <1>4 DEF Max
<1>6. QED
  <2>1. \A x \in S : x \in Nat
    OBVIOUS
  <2>2. QED
    BY <1>5, <2>1

\* The larger of two numbers.
LEMMA LargerOfTwo ==
  ASSUME NEW a \in Nat, NEW b \in Nat
  PROVE  Max({a, b}) \in Nat /\ a <= Max({a, b}) /\ b <= Max({a, b})
<1>1. {a, b} \subseteq Nat /\ {a, b} # {} /\ a + b \in Nat /\ \A x \in {a, b} : x <= a + b
  OBVIOUS
<1>2. Max({a, b}) \in {a, b} /\ \A x \in {a, b} : x <= Max({a, b})
  BY <1>1, LargestNumber
<1>3. QED
  BY <1>2

\* What a function makes of finitely many arguments is finite.
LEMMA FiniteImage ==
  ASSUME NEW f, IsFiniteSet(DOMAIN f)
  PROVE  IsFiniteSet({f[x] : x \in DOMAIN f})
<1> DEFINE S == DOMAIN f
           T == {f[x] : x \in S}
           g == [x \in S |-> f[x]]
<1>1. g \in [S -> T] /\ \A y \in T : \E x \in S : g[x] = y
  OBVIOUS
<1> HIDE DEF T, g
<1>2. g \in Surjection(S, T)
  BY <1>1 DEF Surjection
<1>3. IsFiniteSet(T)
  BY <1>2, FS_Surjection
<1>4. QED
  BY <1>3 DEF T

-----------------------------------------------------------------------------
(* Paths                                                                    *)

\* What is put below p has p as its prefix, and nothing else.
LEMMA ConcatOfPaths ==
  ASSUME NEW p \in Path, NEW r \in Path
  PROVE  /\ p \o r \in Path /\ IsPrefix(p, p \o r) /\ From(p, p \o r) = r
         /\ Len(p \o r) = Len(p) + Len(r) /\ Len(p) \in Nat /\ Len(r) \in Nat
<1> DEFINE q == p \o r
<1>1. /\ q \in Path /\ Len(q) = Len(p) + Len(r) /\ Len(p) \in Nat /\ Len(r) \in Nat
      /\ \A i \in 1 .. Len(p) + Len(r) : q[i] = IF i <= Len(p) THEN p[i] ELSE r[i - Len(p)]
  BY ConcatProperties, LenProperties DEF Path
<1> HIDE DEF q
<1>2. /\ \A i \in 1 .. Len(q) : q[i] \in Nat
      /\ \A i \in 1 .. Len(p) : p[i] \in Nat
      /\ \A i \in 1 .. Len(r) : r[i] \in Nat
  BY <1>1, ElementOfSeq DEF Path
<1> DEFINE a == SubSeq(p, 1, Len(p))
           b == SubSeq(q, 1, Len(p))
           c == SubSeq(q, Len(p) + 1, Len(q))
<1>3. /\ a \in Path /\ Len(a) = Len(p) /\ \A i \in 1 .. Len(p) : a[i] = p[i]
      /\ b \in Path /\ Len(b) = Len(p) /\ \A i \in 1 .. Len(p) : b[i] = q[i]
      /\ c \in Path /\ Len(c) = Len(r) /\ \A i \in 1 .. Len(r) : c[i] = q[Len(p) + i]
  <2>1. \A i \in 1 .. Len(p) : q[i] \in Nat
    BY <1>1, <1>2
  <2>2. \A i \in Len(p) + 1 .. Len(q) : q[i] \in Nat
    BY <1>1, <1>2
  <2>3. a \in Path /\ Len(a) = Len(p) /\ \A i \in 1 .. Len(p) : a[i] = p[i]
    BY <1>1, <1>2, SubSeqProperties DEF Path
  <2>4. b \in Path /\ Len(b) = Len(p) /\ \A i \in 1 .. Len(p) : b[i] = q[i]
    BY <1>1, <2>1, SubSeqProperties DEF Path
  <2>5. /\ c \in Path /\ Len(c) = Len(r)
        /\ \A i \in 1 .. Len(q) - (Len(p) + 1) + 1 : c[i] = q[(Len(p) + 1) + i - 1]
    BY <1>1, <2>2, SubSeqProperties DEF Path
  <2> HIDE DEF a, b, c
  <2>6. QED
    BY <1>1, <2>3, <2>4, <2>5
<1> HIDE DEF a, b, c
<1>4. a = b
  BY <1>1, <1>3, SeqEqual DEF Path
<1>5. c = r
  <2>1. ASSUME NEW i \in 1 .. Len(r) PROVE c[i] = r[i]
    <3>1. /\ Len(p) + i \in 1 .. Len(p) + Len(r) /\ ~ (Len(p) + i <= Len(p))
          /\ (Len(p) + i) - Len(p) = i
      BY <1>1
    <3>2. q[Len(p) + i] = r[(Len(p) + i) - Len(p)]
      BY <1>1, <3>1
    <3>3. QED
      BY <1>3, <3>1, <3>2
  <2>2. QED
    BY <1>3, <2>1, SeqEqual DEF Path
<1>6. QED
  BY <1>1, <1>4, <1>5 DEF q, a, b, c, IsPrefix, From

\* A path with the prefix p is p and the rest of it.
LEMMA PrefixAndRest ==
  ASSUME NEW p \in Path, NEW q \in Path, IsPrefix(p, q)
  PROVE  From(p, q) \in Path /\ q = p \o From(p, q)
<1>1. Len(p) \in Nat /\ Len(q) \in Nat /\ Len(p) <= Len(q)
  BY LenProperties DEF Path, IsPrefix
<1>2. SubSeq(q, 1, Len(p)) = p
  BY SubSeqFull DEF Path, IsPrefix
<1>3. From(p, q) \in Path
  <2>1. \A i \in Len(p) + 1 .. Len(q) : q[i] \in Nat
    BY <1>1, ElementOfSeq DEF Path
  <2>2. QED
    BY <1>1, <2>1, SubSeqProperties DEF From, Path
<1>4. SubSeq(q, 1, Len(p)) \o SubSeq(q, Len(p) + 1, Len(q)) = SubSeq(q, 1, Len(q))
  <2>1. /\ 1 \in 1 .. Len(q) + 1 /\ Len(p) \in 1 - 1 .. Len(q)
        /\ Len(q) \in Len(p) .. Len(q)
    BY <1>1
  <2>2. QED
    BY <2>1, ConcatAdjacentSubSeq DEF Path
<1>5. QED
  BY <1>2, <1>3, <1>4, SubSeqFull DEF From, Path

\* The last step of a path can be taken away and put back.
LEMMA FrontOfPath ==
  ASSUME NEW p \in Path, NEW k \in Nat
  PROVE  /\ Append(p, k) \in Path /\ Append(p, k) # <<>> /\ Front(Append(p, k)) = p
         /\ Len(Append(p, k)) = Len(p) + 1 /\ Len(p) \in Nat
<1> DEFINE q == Append(p, k)
<1>1. /\ q \in Path /\ q # <<>> /\ Len(q) = Len(p) + 1 /\ Len(p) \in Nat
      /\ \A i \in 1 .. Len(p) : q[i] = p[i]
  BY AppendProperties, LenProperties DEF Path
<1> HIDE DEF q
<1>2. \A i \in 1 .. Len(q) - 1 : q[i] \in Nat
  BY <1>1, ElementOfSeq DEF Path
<1> DEFINE f == SubSeq(q, 1, Len(q) - 1)
<1>3. f \in Path /\ Len(f) = Len(p) /\ \A i \in 1 .. Len(p) : f[i] = q[i]
  BY <1>1, <1>2, SubSeqProperties DEF Path
<1> HIDE DEF f
<1>4. f = p
  BY <1>1, <1>3, SeqEqual DEF Path
<1>5. QED
  BY <1>1, <1>4 DEF q, f, Front

\* A path that is not empty is one appended to.
LEMMA PathEmptyOrAppend ==
  ASSUME NEW p \in Path, p # <<>>
  PROVE  \E k \in Nat : Front(p) \in Path /\ p = Append(Front(p), k) /\ Len(p) = Len(Front(p)) + 1
<1>1. PICK f \in Path, k \in Nat : p = Append(f, k)
  BY SequenceEmptyOrAppend DEF Path
<1>2. QED
  BY <1>1, FrontOfPath

\* A step after a path put below another one.
LEMMA AppendBelow ==
  ASSUME NEW p \in Path, NEW r \in Path, NEW k \in Nat
  PROVE  Append(p \o r, k) = p \o Append(r, k)
<1>1. p \o r \in Path /\ <<k>> \in Path
  BY ConcatProperties DEF Path
<1>2. Append(p \o r, k) = (p \o r) \o <<k>> /\ Append(r, k) = r \o <<k>>
  BY <1>1, AppendIsConcat DEF Path
<1>3. QED
  BY <1>1, <1>2, ConcatAssociative DEF Path

\* The prefixes of a path with one more step are those of the path, and itself.
LEMMA PrefixOfAppend ==
  ASSUME NEW p \in Path, NEW q \in Path, NEW k \in Nat
  PROVE  IsPrefix(p, Append(q, k)) <=> IsPrefix(p, q) \/ p = Append(q, k)
<1>1. ASSUME IsPrefix(p, q) PROVE IsPrefix(p, Append(q, k))
  <2> DEFINE r == From(p, q)
  <2>1. r \in Path /\ q = p \o r
    BY <1>1, PrefixAndRest
  <2> HIDE DEF r
  <2>2. Append(q, k) = p \o Append(r, k) /\ Append(r, k) \in Path
    BY <2>1, AppendBelow, FrontOfPath
  <2>3. QED
    BY <2>2, ConcatOfPaths
<1>2. ASSUME p = Append(q, k) PROVE IsPrefix(p, Append(q, k))
  <2>1. Len(p) \in Nat
    BY LenProperties DEF Path
  <2>2. QED
    BY <1>2, <2>1 DEF IsPrefix
<1>3. ASSUME IsPrefix(p, Append(q, k)), p # Append(q, k) PROVE IsPrefix(p, q)
  <2> DEFINE a == Append(q, k)
             r == From(p, a)
  <2>1. a \in Path
    BY FrontOfPath
  <2>2. r \in Path /\ a = p \o r
    BY <1>3, <2>1, PrefixAndRest
  <2>3. r # <<>>
    BY <1>3, <2>2, ConcatEmptySeq DEF Path
  <2> HIDE DEF r
  <2>4. PICK f \in Path, j \in Nat : r = Append(f, j)
    BY <2>2, <2>3, PathEmptyOrAppend
  <2>5. a = Append(p \o f, j) /\ p \o f \in Path
    BY <2>2, <2>4, AppendBelow, ConcatOfPaths
  <2> DEFINE g == p \o f
  <2> HIDE DEF g
  <2>6. Append(q, k) = Append(g, j) /\ g \in Path
    BY <2>5 DEF g
  <2>7. q = g
    BY <2>4, <2>6, AppendInjective DEF Path
  <2>8. QED
    BY <2>4, <2>7, ConcatOfPaths DEF g
<1>4. QED
  BY <1>1, <1>2, <1>3

\* The children of a place are the places one step below it.
LEMMA OneStepBelow ==
  ASSUME NEW p \in Path, NEW q \in Path
  PROVE  IsPrefix(p, q) /\ Len(q) = Len(p) + 1 <=> \E k \in Nat : q = Append(p, k)
<1>1. ASSUME IsPrefix(p, q), Len(q) = Len(p) + 1 PROVE \E k \in Nat : q = Append(p, k)
  <2> DEFINE r == From(p, q)
  <2>1. r \in Path /\ q = p \o r
    BY <1>1, PrefixAndRest
  <2> HIDE DEF r
  <2>2. Len(r) = 1
    <3>1. Len(p \o r) = Len(p) + Len(r) /\ Len(p) \in Nat /\ Len(r) \in Nat
      BY <2>1, ConcatOfPaths
    <3>2. Len(p \o r) = Len(p) + 1
      BY <1>1, <2>1
    <3> DEFINE a == Len(p \o r)
               b == Len(p)
               c == Len(r)
    <3>3. a = b + c /\ b \in Nat /\ c \in Nat /\ a = b + 1
      BY <3>1, <3>2
    <3> HIDE DEF a, b, c
    <3>4. c = 1
      BY <3>3
    <3>5. QED
      BY <3>4 DEF c
  <2>3. r # <<>>
    BY <2>2
  <2>4. PICK f \in Path, k \in Nat : r = Append(f, k)
    BY <2>1, <2>3, PathEmptyOrAppend
  <2>5. Len(f) = 0
    BY <2>2, <2>4, FrontOfPath
  <2>6. f = <<>>
    BY <2>5, EmptySeq DEF Path
  <2>7. q = Append(p \o <<>>, k)
    BY <2>1, <2>4, <2>6, AppendBelow
  <2>8. QED
    BY <2>7, ConcatEmptySeq DEF Path
<1>2. ASSUME NEW k \in Nat, q = Append(p, k) PROVE IsPrefix(p, q) /\ Len(q) = Len(p) + 1
  <2>1. IsPrefix(p, p)
    <3>1. Len(p) \in Nat
      BY LenProperties DEF Path
    <3>2. QED
      BY <3>1 DEF IsPrefix
  <2>2. QED
    BY <1>2, <2>1, PrefixOfAppend, FrontOfPath
<1>3. QED
  BY <1>1, <1>2

\* A prefix agrees with a path as far as it goes.
LEMMA PrefixPointwise ==
  ASSUME NEW p \in Path, NEW q \in Path
  PROVE  /\ Len(p) \in Nat /\ Len(q) \in Nat
         /\ IsPrefix(p, q) <=> Len(p) <= Len(q) /\ \A i \in 1 .. Len(p) : p[i] = q[i]
<1>1. Len(p) \in Nat /\ Len(q) \in Nat
  BY LenProperties DEF Path
<1>2. SubSeq(p, 1, Len(p)) = p
  BY SubSeqFull DEF Path
<1>3. ASSUME Len(p) <= Len(q)
      PROVE  p = SubSeq(q, 1, Len(p)) <=> \A i \in 1 .. Len(p) : p[i] = q[i]
  <2> DEFINE r == SubSeq(q, 1, Len(p))
  <2>1. \A i \in 1 .. Len(p) : q[i] \in Nat
    BY <1>1, <1>3, ElementOfSeq DEF Path
  <2>2. r \in Path /\ Len(r) = Len(p) /\ \A i \in 1 .. Len(p) : r[i] = q[i]
    BY <1>1, <2>1, SubSeqProperties DEF Path
  <2> HIDE DEF r
  <2>3. (\A i \in 1 .. Len(p) : p[i] = q[i]) => p = r
    BY <2>2, SeqEqual DEF Path
  <2>4. QED
    BY <2>2, <2>3 DEF r
<1>4. QED
  BY <1>1, <1>2, <1>3 DEF IsPrefix

\* Paths of one length that agree are one.
LEMMA PathsEqual ==
  ASSUME NEW p \in Path, NEW q \in Path, Len(p) = Len(q), \A i \in 1 .. Len(p) : p[i] = q[i]
  PROVE  p = q
  BY SeqEqual DEF Path

\* A prefix of a prefix is one.
LEMMA PrefixTransitive ==
  ASSUME NEW p \in Path, NEW q \in Path, NEW r \in Path, IsPrefix(p, q), IsPrefix(q, r)
  PROVE  IsPrefix(p, r)
<1>1. /\ Len(p) \in Nat /\ Len(q) \in Nat /\ Len(r) \in Nat
      /\ Len(p) <= Len(q) /\ \A i \in 1 .. Len(p) : p[i] = q[i]
      /\ Len(q) <= Len(r) /\ \A i \in 1 .. Len(q) : q[i] = r[i]
  BY PrefixPointwise
<1>2. Len(p) <= Len(r) /\ \A i \in 1 .. Len(p) : p[i] = r[i]
  BY <1>1
<1>3. QED
  BY <1>2, PrefixPointwise

\* The first steps of a path, and one step more.
LEMMA FirstSteps ==
  ASSUME NEW q \in Path, NEW k \in 1 .. Len(q)
  PROVE  /\ SubSeq(q, 1, k - 1) \in Path /\ Len(SubSeq(q, 1, k - 1)) = k - 1
         /\ \A i \in 1 .. k - 1 : SubSeq(q, 1, k - 1)[i] = q[i]
         /\ q[k] \in Nat /\ Len(q) \in Nat
         /\ IsPrefix(SubSeq(q, 1, k - 1), q)
         /\ IsPrefix(Append(SubSeq(q, 1, k - 1), q[k]), q)
<1> DEFINE a == SubSeq(q, 1, k - 1)
<1>1. Len(q) \in Nat /\ k \in Nat /\ k - 1 \in Nat /\ k <= Len(q)
  BY LenProperties DEF Path
<1>2. \A i \in 1 .. Len(q) : q[i] \in Nat
  BY ElementOfSeq DEF Path
<1>3. a \in Path /\ Len(a) = k - 1 /\ \A i \in 1 .. k - 1 : a[i] = q[i]
  <2>1. \A i \in 1 .. k - 1 : q[i] \in Nat
    BY <1>1, <1>2
  <2>2. QED
    BY <1>1, <2>1, SubSeqProperties DEF Path
<1> HIDE DEF a
<1>4. IsPrefix(a, q)
  BY <1>1, <1>3, PrefixPointwise
<1> DEFINE b == Append(a, q[k])
<1>5. /\ b \in Path /\ Len(b) = (k - 1) + 1 /\ b[(k - 1) + 1] = q[k]
      /\ \A i \in 1 .. k - 1 : b[i] = a[i]
  <2>1. q[k] \in Nat
    BY <1>2
  <2>2. QED
    BY <1>3, <2>1, AppendProperties DEF Path
<1> HIDE DEF b
<1>6. Len(b) = k /\ b[k] = q[k]
  <2>1. (k - 1) + 1 = k
    BY <1>1
  <2>2. QED
    BY <1>5, <2>1
<1>7. \A i \in 1 .. k : b[i] = q[i]
  <2>1. SUFFICES ASSUME NEW i \in 1 .. k PROVE b[i] = q[i]
    OBVIOUS
  <2>2. CASE i = k
    BY <1>6, <2>2
  <2>3. CASE i # k
    <3>1. i \in 1 .. k - 1
      BY <1>1, <2>3
    <3>2. QED
      BY <1>3, <1>5, <3>1
  <2>4. QED
    BY <2>2, <2>3
<1>8. IsPrefix(b, q)
  BY <1>1, <1>5, <1>6, <1>7, PrefixPointwise
<1>9. QED
  BY <1>1, <1>2, <1>3, <1>4, <1>8 DEF a, b

\* Two paths go on from each other, or one branches off to the left of the other.
LEMMA PathsCompare ==
  ASSUME NEW p \in Path, NEW q \in Path
  PROVE  IsPrefix(p, q) \/ IsPrefix(q, p) \/ LeftOf(p, q) \/ LeftOf(q, p)
<1> DEFINE T == {k \in Nat : k \in 1 .. Len(p) /\ k <= Len(q) /\ p[k] # q[k]}
<1>1. Len(p) \in Nat /\ Len(q) \in Nat
  BY PrefixPointwise
<1>2. (\A i \in 1 .. Len(p) : p[i] \in Nat) /\ \A i \in 1 .. Len(q) : q[i] \in Nat
  BY ElementOfSeq DEF Path
<1>3. CASE T = {}
  <2>1. \A k \in 1 .. Len(p) : k <= Len(q) => p[k] = q[k]
    BY <1>1, <1>3
  <2>2. CASE Len(p) <= Len(q)
    BY <1>1, <2>1, <2>2, PrefixPointwise
  <2>3. CASE ~ (Len(p) <= Len(q))
    <3>1. Len(q) <= Len(p) /\ \A i \in 1 .. Len(q) : q[i] = p[i]
      BY <1>1, <2>1, <2>3
    <3>2. QED
      BY <3>1, PrefixPointwise
  <2>4. QED
    BY <2>2, <2>3
<1>4. CASE T # {}
  <2> HIDE DEF T
  <2>1. T \subseteq Nat
    BY DEF T
  <2>2. PICK m \in T : \A k \in T : m <= k
    BY <1>4, <2>1, LeastNumber
  <2> USE DEF T
  <2>3. /\ m \in 1 .. Len(p) /\ m \in 1 .. Len(q) /\ p[m] # q[m]
        /\ p[m] \in Nat /\ q[m] \in Nat
    BY <1>1, <1>2, <2>2
  <2>4. \A i \in 1 .. m - 1 : p[i] = q[i]
    <3>1. SUFFICES ASSUME NEW i \in 1 .. m - 1, p[i] # q[i] PROVE FALSE
      OBVIOUS
    <3>2. i \in T
      BY <1>1, <2>3, <3>1
    <3>3. QED
      BY <2>2, <2>3, <3>2
  <2> HIDE DEF T
  <2>5. CASE p[m] < q[m]
    BY <1>1, <2>3, <2>4, <2>5 DEF LeftOf
  <2>6. CASE q[m] < p[m]
    BY <1>1, <2>3, <2>4, <2>6 DEF LeftOf
  <2>7. QED
    BY <2>3, <2>5, <2>6
<1>5. QED
  BY <1>3, <1>4

\* The first k steps are the first k - 1 steps and the k-th.
LEMMA OneStepMore ==
  ASSUME NEW q \in Path, NEW k \in 1 .. Len(q)
  PROVE  SubSeq(q, 1, k) = Append(SubSeq(q, 1, k - 1), q[k])
<1>1. Len(q) \in Nat /\ k \in Nat /\ 1 \in 1 .. Len(q) /\ k \in 1 .. Len(q)
  BY PrefixPointwise
<1>2. SubSeq(q, 1, k) = SubSeq(q, 1, k - 1) \o <<q[k]>>
  BY <1>1, SubSeqRecursiveSecond DEF Path
<1>3. SubSeq(q, 1, k - 1) \in Path /\ q[k] \in Nat
  BY FirstSteps
<1>4. QED
  BY <1>2, <1>3, AppendIsConcat DEF Path

\* The first m of the paths listed by f are not longer than some number.
Cover(f, m) == \E b \in Nat : \A i \in 1 .. m : Len(f[i]) <= b

\* A bound for all paths but the last of a list gives one for all.
LEMMA CoverOneMore ==
  ASSUME NEW f, NEW m \in Nat \ {0}, \A i \in 1 .. m : Len(f[i]) \in Nat, Cover(f, m - 1)
  PROVE  Cover(f, m)
<1>1. PICK b \in Nat : \A i \in 1 .. m - 1 : Len(f[i]) <= b
  BY DEF Cover
<1>2. Len(f[m]) \in Nat
  OBVIOUS
<1>3. ASSUME NEW i \in 1 .. m PROVE Len(f[i]) <= b + Len(f[m])
  <2>1. Len(f[i]) \in Nat
    OBVIOUS
  <2>2. ASSUME i # m PROVE Len(f[i]) <= b
    BY <1>1, <2>2
  <2>3. QED
    BY <1>2, <2>1, <2>2
<1>4. b + Len(f[m]) \in Nat
  BY <1>2
<1>5. QED
  BY <1>3, <1>4 DEF Cover

\* A finite set of paths has a longest one.
LEMMA FinitelyLong ==
  ASSUME NEW S, S \subseteq Path, IsFiniteSet(S)
  PROVE  \E b \in Nat : \A p \in S : Len(p) <= b
<1>1. PICK n \in Nat : ExistsSurjection(1 .. n, S)
  BY FS_NatSurjection
<1>2. PICK f : f \in Surjection(1 .. n, S)
  BY <1>1 DEF ExistsSurjection
<1>3. /\ \A i \in 1 .. n : f[i] \in S
      /\ \A p \in S : \E i \in 1 .. n : f[i] = p
  BY <1>2 DEF Surjection
<1>4. \A i \in 1 .. n : Len(f[i]) \in Nat
  BY <1>3, LenProperties DEF Path
<1> DEFINE T == {m \in 0 .. n : ~ Cover(f, m)}
<1>5. ASSUME T # {} PROVE FALSE
  <2> HIDE DEF T
  <2>0. T \subseteq Nat
    BY DEF T
  <2>1. PICK m \in T : \A k \in T : m <= k
    BY <1>5, <2>0, LeastNumber
  <2> USE DEF T
  <2>2. m \in 0 .. n /\ ~ Cover(f, m)
    BY <2>1
  <2>3. Cover(f, 0)
    <3>1. \A i \in 1 .. 0 : Len(f[i]) <= 0
      OBVIOUS
    <3>2. QED
      BY <3>1 DEF Cover
  <2>4. m \in Nat \ {0} /\ m - 1 \in 0 .. n
    BY <2>2, <2>3
  <2>5. Cover(f, m - 1)
    <3>1. m - 1 \notin T
      BY <2>1, <2>4
    <3>2. QED
      BY <2>4, <3>1
  <2>6. \A i \in 1 .. m : Len(f[i]) \in Nat
    BY <1>4, <2>2
  <2>7. QED
    BY <2>2, <2>4, <2>5, <2>6, CoverOneMore
<1>6. Cover(f, n)
  BY <1>5
<1>7. QED
  BY <1>3, <1>6 DEF Cover

-----------------------------------------------------------------------------
(* Nodes                                                                    *)

PrefixClosed(t) == \A p \in Path : \A k \in Nat : Append(p, k) \in DOMAIN t => p \in DOMAIN t

Rooted(t) == DOMAIN t \subseteq Path /\ <<>> \in DOMAIN t /\ PrefixClosed(t)

\* The children of p are numbered from 1 to n.
Branches(t, p, n) == \A k \in Nat : Append(p, k) \in DOMAIN t <=> k \in 1 .. n

\* The children of a node: said with their set, and one by one.
LEMMA ChildrenOneByOne ==
  ASSUME NEW t, DOMAIN t \subseteq Path, NEW p \in DOMAIN t, NEW a \in Nat
  PROVE  (Children(t, p) = {Append(p, k) : k \in 1 .. a})
           <=> Branches(t, p, a)
<1> USE DEF Branches
<1>1. \A q \in DOMAIN t : q \in Children(t, p) <=> \E k \in Nat : q = Append(p, k)
  BY OneStepBelow DEF Children, Below
<1>2. Children(t, p) \subseteq DOMAIN t
  BY DEF Children, Below
<1>3. \A j, k \in Nat : Append(p, j) = Append(p, k) => j = k
  BY AppendInjective DEF Path
<1>4. ASSUME Children(t, p) = {Append(p, k) : k \in 1 .. a}, NEW k \in Nat
      PROVE  Append(p, k) \in DOMAIN t <=> k \in 1 .. a
  <2>1. ASSUME Append(p, k) \in DOMAIN t PROVE k \in 1 .. a
    <3>1. Append(p, k) \in {Append(p, j) : j \in 1 .. a}
      BY <1>1, <1>4, <2>1
    <3>2. PICK j \in 1 .. a : Append(p, k) = Append(p, j)
      BY <3>1
    <3>3. QED
      BY <1>3, <3>2
  <2>2. ASSUME k \in 1 .. a PROVE Append(p, k) \in DOMAIN t
    BY <1>2, <1>4, <2>2
  <2>3. QED
    BY <2>1, <2>2
<1>5. ASSUME \A k \in Nat : Append(p, k) \in DOMAIN t <=> k \in 1 .. a
      PROVE  Children(t, p) = {Append(p, k) : k \in 1 .. a}
  <2>1. ASSUME NEW q \in Children(t, p) PROVE q \in {Append(p, k) : k \in 1 .. a}
    BY <1>1, <1>2, <1>5
  <2>2. ASSUME NEW k \in 1 .. a PROVE Append(p, k) \in Children(t, p)
    <3>1. k \in Nat /\ Append(p, k) \in DOMAIN t
      BY <1>5
    <3>2. QED
      BY <1>1, <3>1
  <2>3. QED
    BY <2>1, <2>2
<1>6. QED
  BY <1>4, <1>5

\* Where a node is, all on the way to it are.
LEMMA PrefixesAreNodes ==
  ASSUME NEW t, Rooted(t), NEW q \in DOMAIN t, NEW p \in Path, IsPrefix(p, q)
  PROVE  p \in DOMAIN t
<1> DEFINE T == {n \in Nat : Len(p) <= n /\ n <= Len(q) /\ SubSeq(q, 1, n) \in DOMAIN t}
<1>1. q \in Path /\ Len(p) \in Nat /\ Len(q) \in Nat /\ Len(p) <= Len(q)
  <2>1. q \in Path
    BY DEF Rooted
  <2>2. QED
    BY <2>1, PrefixPointwise
<1>2. Len(q) \in T
  <2>1. SubSeq(q, 1, Len(q)) = q
    BY <1>1, SubSeqFull DEF Path
  <2>2. SubSeq(q, 1, Len(q)) \in DOMAIN t
    BY <2>1, Zenon
  <2>3. QED
    BY <1>1, <2>2
<1> HIDE DEF T
<1>3. PICK m \in T : \A n \in T : m <= n
  <2>1. T \subseteq Nat /\ T # {}
    BY <1>2 DEF T
  <2>2. QED
    BY <2>1, LeastNumber
<1>4. m \in Nat /\ Len(p) <= m /\ m <= Len(q) /\ SubSeq(q, 1, m) \in DOMAIN t
  BY DEF T
<1>5. CASE m = Len(p)
  <2>1. p = SubSeq(q, 1, m)
    <3>1. SubSeq(p, 1, Len(p)) = p
      BY SubSeqFull DEF Path
    <3>2. QED
      BY <1>5, <3>1 DEF IsPrefix
  <2>2. QED
    BY <1>4, <2>1
<1>6. CASE m # Len(p)
  <2>1. m \in 1 .. Len(q) /\ m - 1 \in Nat /\ Len(p) <= m - 1 /\ m - 1 <= Len(q)
    BY <1>1, <1>4, <1>6
  <2>2. SubSeq(q, 1, m - 1) \in Path /\ q[m] \in Nat
    BY <1>1, <2>1, FirstSteps
  <2>3. Append(SubSeq(q, 1, m - 1), q[m]) \in DOMAIN t
    BY <1>1, <1>4, <2>1, OneStepMore
  <2>4. SubSeq(q, 1, m - 1) \in DOMAIN t
    BY <2>2, <2>3 DEF Rooted, PrefixClosed
  <2>5. m - 1 \in T
    BY <2>1, <2>4 DEF T
  <2>6. QED
    BY <1>3, <1>4, <2>1, <2>5
<1>7. QED
  BY <1>5, <1>6

\* The nodes of a subtree are the rests of the nodes below its root.
LEMMA SubtreeNodes ==
  ASSUME NEW t, DOMAIN t \subseteq Path, NEW p \in DOMAIN t
  PROVE  /\ DOMAIN Subtree(t, p) \subseteq Path
         /\ \A r \in Path : r \in DOMAIN Subtree(t, p) <=> p \o r \in DOMAIN t
         /\ \A r \in DOMAIN Subtree(t, p) : Subtree(t, p)[r] = t[p \o r]
<1>1. DOMAIN Subtree(t, p) = {From(p, q) : q \in Below(t, p)}
  BY DEF Subtree
<1>2. \A r \in DOMAIN Subtree(t, p) : Subtree(t, p)[r] = t[p \o r]
  BY DEF Subtree
<1>3. \A q \in Below(t, p) : q \in DOMAIN t /\ q \in Path /\ IsPrefix(p, q)
  BY DEF Below
<1>4. DOMAIN Subtree(t, p) \subseteq Path
  BY <1>1, <1>3, PrefixAndRest
<1>5. ASSUME NEW r \in Path, r \in DOMAIN Subtree(t, p) PROVE p \o r \in DOMAIN t
  <2>1. PICK q \in Below(t, p) : r = From(p, q)
    BY <1>1, <1>5
  <2>2. q = p \o r
    BY <1>3, <2>1, PrefixAndRest
  <2>3. QED
    BY <1>3, <2>1, <2>2
<1>6. ASSUME NEW r \in Path, p \o r \in DOMAIN t PROVE r \in DOMAIN Subtree(t, p)
  <2>1. IsPrefix(p, p \o r) /\ From(p, p \o r) = r
    BY ConcatOfPaths
  <2>2. p \o r \in Below(t, p)
    BY <1>6, <2>1 DEF Below
  <2>3. QED
    BY <1>1, <2>1, <2>2
<1>7. QED
  BY <1>2, <1>4, <1>5, <1>6

\* What is below a node of a tree is a tree, with the same branches.
LEMMA SubtreeRooted ==
  ASSUME NEW t, Rooted(t), NEW p \in DOMAIN t
  PROVE  /\ Rooted(Subtree(t, p))
         /\ \A r \in Path, n \in Nat : Branches(Subtree(t, p), r, n) <=> Branches(t, p \o r, n)
<1> DEFINE s == Subtree(t, p)
<1>1. DOMAIN t \subseteq Path /\ p \in Path
  BY DEF Rooted
<1>2. DOMAIN s \subseteq Path /\ \A r \in Path : r \in DOMAIN s <=> p \o r \in DOMAIN t
  BY <1>1, SubtreeNodes
<1> HIDE DEF s
<1>3. <<>> \in DOMAIN s
  <2>1. <<>> \in Path /\ p \o <<>> = p
    BY <1>1, EmptySeq, ConcatEmptySeq DEF Path
  <2>2. QED
    BY <1>2, <2>1
<1>4. \A r \in Path, k \in Nat :
        Append(r, k) \in Path /\ Append(p \o r, k) = p \o Append(r, k) /\ p \o r \in Path
  BY <1>1, AppendBelow, FrontOfPath, ConcatOfPaths
<1>5. \A r \in Path, k \in Nat : Append(r, k) \in DOMAIN s <=> Append(p \o r, k) \in DOMAIN t
  BY <1>2, <1>4
<1>6. PrefixClosed(s)
  BY <1>2, <1>4, <1>5 DEF Rooted, PrefixClosed
<1>7. \A r \in Path, n \in Nat : Branches(s, r, n) <=> Branches(t, p \o r, n)
  BY <1>5 DEF Branches
<1>8. QED
  BY <1>2, <1>3, <1>6, <1>7 DEF Rooted, s

\* The nodes of t with s in the place of what is below p.
LEMMA PutNodes ==
  ASSUME NEW t, DOMAIN t \subseteq Path, NEW p \in DOMAIN t, NEW s, DOMAIN s \subseteq Path
  PROVE  /\ DOMAIN Put(t, p, s) \subseteq Path
         /\ \A q \in Path : ~ IsPrefix(p, q) =>
              /\ q \in DOMAIN Put(t, p, s) <=> q \in DOMAIN t
              /\ q \in DOMAIN t => Put(t, p, s)[q] = t[q]
         /\ \A r \in Path :
              /\ p \o r \in DOMAIN Put(t, p, s) <=> r \in DOMAIN s
              /\ r \in DOMAIN s => Put(t, p, s)[p \o r] = s[r]
<1> DEFINE u == Put(t, p, s)
<1>1. /\ DOMAIN u = (DOMAIN t \ Below(t, p)) \cup {p \o r : r \in DOMAIN s}
      /\ \A q \in DOMAIN u : u[q] = IF IsPrefix(p, q) THEN s[From(p, q)] ELSE t[q]
  BY DEF Put
<1> HIDE DEF u
<1>2. \A r \in Path : p \o r \in Path /\ IsPrefix(p, p \o r) /\ From(p, p \o r) = r
  BY ConcatOfPaths
<1>3. DOMAIN u \subseteq Path
  BY <1>1, <1>2
<1>4. ASSUME NEW q \in Path, ~ IsPrefix(p, q)
      PROVE  /\ q \in DOMAIN u <=> q \in DOMAIN t
             /\ q \in DOMAIN t => u[q] = t[q]
  <2>1. q \notin {p \o r : r \in DOMAIN s}
    BY <1>2, <1>4
  <2>2. q \in DOMAIN u <=> q \in DOMAIN t
    BY <1>1, <1>4, <2>1 DEF Below
  <2>3. QED
    BY <1>1, <1>4, <2>2
<1>5. ASSUME NEW r \in Path
      PROVE  /\ p \o r \in DOMAIN u <=> r \in DOMAIN s
             /\ r \in DOMAIN s => u[p \o r] = s[r]
  <2>1. p \o r \notin DOMAIN t \ Below(t, p)
    BY <1>2 DEF Below
  <2>2. ASSUME p \o r \in DOMAIN u PROVE r \in DOMAIN s
    <3>1. PICK x \in DOMAIN s : p \o r = p \o x
      BY <1>1, <2>1, <2>2
    <3>2. x = r
      BY <1>2, <3>1
    <3>3. QED
      BY <3>2
  <2>3. ASSUME r \in DOMAIN s PROVE p \o r \in DOMAIN u
    BY <1>1, <2>3
  <2>4. ASSUME r \in DOMAIN s PROVE u[p \o r] = s[r]
    BY <1>1, <1>2, <2>3, <2>4
  <2>5. QED
    BY <2>2, <2>3, <2>4
<1>6. QED
  BY <1>3, <1>4, <1>5 DEF u

\* A tree in the place of what is below a node gives a tree, with the branches of both.
LEMMA PutRooted ==
  ASSUME NEW t, Rooted(t), NEW p \in DOMAIN t, NEW s, Rooted(s)
  PROVE  /\ Rooted(Put(t, p, s)) /\ p \in DOMAIN Put(t, p, s)
         /\ \A q \in Path, n \in Nat :
              ~ IsPrefix(p, q) => (Branches(Put(t, p, s), q, n) <=> Branches(t, q, n))
         /\ \A r \in Path, n \in Nat : Branches(Put(t, p, s), p \o r, n) <=> Branches(s, r, n)
<1> DEFINE u == Put(t, p, s)
<1>1. DOMAIN t \subseteq Path /\ p \in Path /\ DOMAIN s \subseteq Path /\ <<>> \in Path
  BY EmptySeq DEF Rooted, Path
<1>2. /\ DOMAIN u \subseteq Path
      /\ \A q \in Path : ~ IsPrefix(p, q) => (q \in DOMAIN u <=> q \in DOMAIN t)
      /\ \A r \in Path : p \o r \in DOMAIN u <=> r \in DOMAIN s
  BY <1>1, PutNodes
<1> HIDE DEF u
\* A node of u is one of t that is not below p, or a node of s put below p.
<1>3. \A q \in Path : IsPrefix(p, q) => \E r \in Path : q = p \o r
  BY <1>1, PrefixAndRest
<1>4. \A r \in Path, k \in Nat : Append(r, k) \in Path /\ Append(p \o r, k) = p \o Append(r, k)
  BY <1>1, AppendBelow, FrontOfPath
<1>5. p \in DOMAIN u
  <2>1. p \o <<>> = p
    BY <1>1, ConcatEmptySeq DEF Path
  <2>2. p \o <<>> \in DOMAIN u
    BY <1>1, <1>2 DEF Rooted
  <2>3. QED
    BY <2>1, <2>2
<1>6. <<>> \in DOMAIN u
  <2>1. CASE ~ IsPrefix(p, <<>>)
    BY <1>1, <1>2, <2>1 DEF Rooted
  <2>2. CASE IsPrefix(p, <<>>)
    <3>1. PICK r \in Path : <<>> = p \o r
      BY <1>1, <1>3, <2>2
    <3>2. p = <<>>
      <4>1. p \o r = <<>> => p = <<>>
        BY <1>1, ConcatEqualIffEmpty DEF Path
      <4>2. p \o r = <<>>
        BY <3>1
      <4>3. QED
        BY <4>1, <4>2
    <3>3. QED
      BY <1>5, <3>2
  <2>3. QED
    BY <2>1, <2>2
\* One step more leaves the part a node is in only at p.
<1>7. ASSUME NEW q \in Path, NEW k \in Nat, ~ IsPrefix(p, q)
      PROVE  Append(q, k) \in DOMAIN u <=> Append(q, k) \in DOMAIN t
  <2>1. Append(q, k) = p \/ ~ IsPrefix(p, Append(q, k))
    BY <1>1, <1>7, PrefixOfAppend
  <2>2. CASE Append(q, k) = p
    BY <1>5, <2>2
  <2>3. CASE ~ IsPrefix(p, Append(q, k))
    BY <1>2, <1>4, <2>3
  <2>4. QED
    BY <2>1, <2>2, <2>3
<1>8. \A r \in Path, k \in Nat : Append(p \o r, k) \in DOMAIN u <=> Append(r, k) \in DOMAIN s
  BY <1>2, <1>4
<1>9. ASSUME NEW q \in Path, NEW k \in Nat, Append(q, k) \in DOMAIN u PROVE q \in DOMAIN u
  <2>1. CASE ~ IsPrefix(p, q)
    <3>1. q \in DOMAIN t
      BY <1>7, <1>9, <2>1 DEF Rooted, PrefixClosed
    <3>2. QED
      BY <1>2, <2>1, <3>1
  <2>2. CASE IsPrefix(p, q)
    <3>1. PICK r \in Path : q = p \o r
      BY <1>3, <2>2
    <3>2. r \in DOMAIN s
      BY <1>8, <1>9, <3>1 DEF Rooted, PrefixClosed
    <3>3. QED
      BY <1>2, <3>1, <3>2
  <2>3. QED
    BY <2>1, <2>2
<1>10. Rooted(u)
  BY <1>2, <1>6, <1>9 DEF Rooted, PrefixClosed
<1>11. \A q \in Path, n \in Nat : ~ IsPrefix(p, q) => (Branches(u, q, n) <=> Branches(t, q, n))
  BY <1>7 DEF Branches
<1>12. \A r \in Path, n \in Nat : Branches(u, p \o r, n) <=> Branches(s, r, n)
  BY <1>8 DEF Branches
<1>13. QED
  BY <1>5, <1>10, <1>11, <1>12 DEF u

\* The height of a tree is the least number above the levels of all nodes.
LEMMA HeightBounds ==
  ASSUME NEW t, DOMAIN t \subseteq Path, IsFiniteSet(DOMAIN t)
  PROVE  /\ Height(t) \in Nat
         /\ \A p \in DOMAIN t : Len(p) \in Nat /\ Len(p) + 1 <= Height(t)
         /\ \A h \in Nat : (\A p \in DOMAIN t : Len(p) + 1 <= h) => Height(t) <= h
<1> DEFINE S == {0} \cup {Len(p) + 1 : p \in DOMAIN t}
<1>1. \A p \in DOMAIN t : Len(p) \in Nat
  BY LenProperties DEF Path
<1>2. PICK b \in Nat : \A p \in DOMAIN t : Len(p) <= b
  BY FinitelyLong
<1>3. S \subseteq Nat /\ S # {} /\ b + 1 \in Nat /\ \A x \in S : x <= b + 1
  BY <1>1, <1>2
<1>4. Height(t) = Max(S)
  BY DEF Height
<1> HIDE DEF S
<1>5. Max(S) \in S /\ \A x \in S : x <= Max(S)
  BY <1>3, LargestNumber
<1>6. ASSUME NEW p \in DOMAIN t PROVE Len(p) + 1 <= Height(t)
  <2>1. Len(p) + 1 \in S
    BY DEF S
  <2>2. QED
    BY <1>4, <1>5, <2>1
<1>7. ASSUME NEW h \in Nat, \A p \in DOMAIN t : Len(p) + 1 <= h PROVE Height(t) <= h
  <2>1. \A x \in S : x <= h
    BY <1>7 DEF S
  <2>2. QED
    BY <1>4, <1>5, <2>1
<1>8. Height(t) \in Nat
  BY <1>3, <1>4, <1>5
<1>9. QED
  BY <1>1, <1>6, <1>7, <1>8

-----------------------------------------------------------------------------
(* Ordered trees                                                            *)

\* Ordered in the terms the proofs use: the children one by one.
Numbered(t) == Rooted(t) /\ \A p \in DOMAIN t : \E n \in Nat : Branches(t, p, n)

LEMMA OrderedNumbered ==
  ASSUME NEW t, Ordered(t)
  PROVE  Numbered(t)
<1>1. DOMAIN t \subseteq Path /\ <<>> \in DOMAIN t /\ IsFiniteSet(DOMAIN t)
  BY DEF Ordered
<1>2. PrefixClosed(t)
  BY <1>1, FrontOfPath DEF Ordered, PrefixClosed
<1>3. ASSUME NEW p \in DOMAIN t PROVE \E n \in Nat : Branches(t, p, n)
  <2>1. Cardinality(Children(t, p)) \in Nat
    <3>1. Children(t, p) \subseteq DOMAIN t
      BY DEF Children, Below
    <3>2. IsFiniteSet(Children(t, p))
      BY <1>1, <3>1, FS_Subset
    <3>3. QED
      BY <3>2, FS_CardinalityType
  <2>2. Branches(t, p, Cardinality(Children(t, p)))
    BY <1>1, <2>1, ChildrenOneByOne DEF Ordered
  <2>3. QED
    BY <2>1, <2>2
<1>4. QED
  BY <1>1, <1>2, <1>3 DEF Numbered, Rooted

\* What is below a node of an ordered tree is one.
LEMMA SubtreeNumbered ==
  ASSUME NEW t, Numbered(t), NEW p \in DOMAIN t
  PROVE  Numbered(Subtree(t, p))
<1> DEFINE s == Subtree(t, p)
<1>1. DOMAIN t \subseteq Path
  BY DEF Numbered, Rooted
<1>2. /\ Rooted(s)
      /\ \A r \in Path, n \in Nat : Branches(s, r, n) <=> Branches(t, p \o r, n)
      /\ \A r \in Path : r \in DOMAIN s <=> p \o r \in DOMAIN t
  BY <1>1, SubtreeRooted, SubtreeNodes DEF Numbered
<1> HIDE DEF s
<1>3. \A r \in DOMAIN s : \E n \in Nat : Branches(s, r, n)
  BY <1>2 DEF Numbered, Rooted
<1>4. QED
  BY <1>2, <1>3 DEF Numbered, s

\* An ordered tree in the place of what is below a node of one gives one.
LEMMA PutNumbered ==
  ASSUME NEW t, Numbered(t), NEW p \in DOMAIN t, NEW s, Numbered(s)
  PROVE  Numbered(Put(t, p, s))
<1> DEFINE u == Put(t, p, s)
<1>1. DOMAIN t \subseteq Path /\ DOMAIN s \subseteq Path /\ p \in Path
  BY DEF Numbered, Rooted
<1>2. /\ Rooted(u)
      /\ \A q \in Path, n \in Nat :
           ~ IsPrefix(p, q) => (Branches(u, q, n) <=> Branches(t, q, n))
      /\ \A r \in Path, n \in Nat : Branches(u, p \o r, n) <=> Branches(s, r, n)
      /\ \A q \in Path : ~ IsPrefix(p, q) => (q \in DOMAIN u <=> q \in DOMAIN t)
      /\ \A r \in Path : p \o r \in DOMAIN u <=> r \in DOMAIN s
  BY <1>1, PutRooted, PutNodes DEF Numbered
<1> HIDE DEF u
<1>3. ASSUME NEW q \in DOMAIN u PROVE \E n \in Nat : Branches(u, q, n)
  <2>1. q \in Path
    BY <1>2 DEF Rooted
  <2>2. CASE ~ IsPrefix(p, q)
    <3>1. PICK n \in Nat : Branches(t, q, n)
      BY <1>2, <2>1, <2>2 DEF Numbered
    <3>2. QED
      BY <1>2, <2>1, <2>2, <3>1
  <2>3. CASE IsPrefix(p, q)
    <3>1. PICK r \in Path : q = p \o r
      BY <1>1, <2>1, <2>3, PrefixAndRest
    <3>2. PICK n \in Nat : Branches(s, r, n)
      BY <1>2, <3>1 DEF Numbered
    <3>3. QED
      BY <1>2, <3>1, <3>2
  <2>4. QED
    BY <2>2, <2>3
<1>4. QED
  BY <1>2, <1>3 DEF Numbered, u

\* The path of one step.
LEMMA OneStep ==
  ASSUME NEW k \in Nat
  PROVE  /\ <<k>> \in Path /\ <<>> \in Path /\ Append(<<>>, k) = <<k>>
         /\ \A p \in Path : p \o <<>> = p /\ p \o <<k>> = Append(p, k)
<1>1. <<k>> \in Path /\ <<>> \in Path /\ Append(<<>>, k) = <<k>>
  BY DEF Path
<1>2. \A p \in Path : p \o <<>> = p /\ p \o <<k>> = Append(p, k)
  BY ConcatEmptySeq, AppendIsConcat DEF Path
<1>3. QED
  BY <1>1, <1>2

\* The value of a node is that on top of what is below it.
LEMMA TopOfSubtree ==
  ASSUME NEW t, Rooted(t), NEW p \in DOMAIN t
  PROVE  Top(Subtree(t, p)) = t[p]
<1>1. DOMAIN t \subseteq Path /\ p \in Path /\ <<>> \in Path /\ p \o <<>> = p
  BY OneStep DEF Rooted
<1>2. <<>> \in DOMAIN Subtree(t, p)
  BY SubtreeRooted DEF Rooted
<1>3. Subtree(t, p)[<<>>] = t[p \o <<>>]
  BY <1>1, <1>2, SubtreeNodes
<1>4. QED
  BY <1>1, <1>3 DEF Top

Subtrees(t) == {Subtree(t, p) : p \in DOMAIN t}

\* The operands are what is below the children, one after the other.
LEMMA OperandsOfTree ==
  ASSUME NEW t, Numbered(t), NEW n \in Nat, Branches(t, <<>>, n)
  PROVE  /\ DOMAIN Operands(t) = 1 .. n /\ Len(Operands(t)) = n
         /\ Operands(t) \in Seq(Subtrees(t))
         /\ \A i \in 1 .. n : /\ <<i>> \in DOMAIN t
                              /\ Operands(t)[i] = Subtree(t, <<i>>)
                              /\ Numbered(Operands(t)[i])
<1> DEFINE D == {p[1] : p \in DOMAIN t \ {<<>>}}
           s == Operands(t)
<1>1. DOMAIN t \subseteq Path /\ Rooted(t)
  BY DEF Numbered, Rooted
<1>2. ASSUME NEW i \in 1 .. n PROVE <<i>> \in DOMAIN t /\ i \in D
  <2>1. Append(<<>>, i) = <<i>>
    BY OneStep
  <2>2. Append(<<>>, i) \in DOMAIN t
    BY DEF Branches
  <2>3. <<i>> \in DOMAIN t \ {<<>>} /\ <<i>>[1] = i
    BY <2>1, <2>2
  <2>4. QED
    BY <2>3
<1>3. ASSUME NEW p \in DOMAIN t, p # <<>> PROVE p[1] \in 1 .. n
  <2>1. p \in Path /\ 1 \in 1 .. Len(p)
    <3>1. p \in Path
      BY <1>1
    <3>2. Len(p) \in Nat \ {0}
      BY <1>3, <3>1, EmptySeq DEF Path
    <3>3. QED
      BY <3>1, <3>2
  <2>2. p[1] \in Nat /\ IsPrefix(Append(SubSeq(p, 1, 1 - 1), p[1]), p)
    BY <2>1, FirstSteps
  <2>3. SubSeq(p, 1, 1 - 1) = <<>>
    BY SubSeqEmpty
  <2>4. IsPrefix(Append(<<>>, p[1]), p) /\ Append(<<>>, p[1]) \in Path
    BY <2>2, <2>3, OneStep
  <2>5. Append(<<>>, p[1]) \in DOMAIN t
    BY <1>1, <2>4, PrefixesAreNodes
  <2>6. QED
    BY <2>2, <2>5 DEF Branches
<1>4. D = 1 .. n
  BY <1>2, <1>3
<1>5. s = [i \in D |-> Subtree(t, <<i>>)]
  BY DEF Operands
<1> HIDE DEF D, s
<1>6. DOMAIN s = 1 .. n /\ \A i \in 1 .. n : s[i] = Subtree(t, <<i>>)
  BY <1>4, <1>5
<1>7. s \in [1 .. n -> Subtrees(t)]
  <2>1. \A i \in 1 .. n : s[i] \in Subtrees(t)
    BY <1>2, <1>6 DEF Subtrees
  <2>2. s = [i \in 1 .. n |-> Subtree(t, <<i>>)]
    BY <1>4, <1>5
  <2>3. QED
    BY <1>6, <2>1, <2>2
<1>8. s \in Seq(Subtrees(t))
  BY <1>7, SeqDef
<1>9. Len(s) = n
  <2>1. Len(s) \in Nat /\ DOMAIN s = 1 .. Len(s)
    BY <1>8, LenProperties
  <2>2. QED
    BY <1>6, <2>1
<1>10. \A i \in 1 .. n : Numbered(s[i])
  BY <1>2, <1>6, SubtreeNumbered
<1>11. QED
  BY <1>2, <1>6, <1>8, <1>9, <1>10 DEF s

\* The operands of a node, seen in the tree.
LEMMA OperandsBelow ==
  ASSUME NEW t, Numbered(t), NEW p \in DOMAIN t, NEW n \in Nat, Branches(t, p, n)
  PROVE  /\ DOMAIN Operands(Subtree(t, p)) = 1 .. n /\ Len(Operands(Subtree(t, p))) = n
         /\ \A i \in 1 .. n : /\ Append(p, i) \in DOMAIN t
                              /\ Top(Operands(Subtree(t, p))[i]) = t[Append(p, i)]
<1> DEFINE s == Subtree(t, p)
<1>1. DOMAIN t \subseteq Path /\ p \in Path /\ <<>> \in Path /\ p \o <<>> = p /\ Rooted(t)
  BY OneStep DEF Numbered, Rooted
<1>2. Numbered(s) /\ Branches(s, <<>>, n)
  BY <1>1, SubtreeNumbered, SubtreeRooted
<1>3. \A r \in DOMAIN s : s[r] = t[p \o r]
  BY <1>1, SubtreeNodes
<1> HIDE DEF s
<1>4. /\ DOMAIN Operands(s) = 1 .. n /\ Len(Operands(s)) = n
      /\ \A i \in 1 .. n : <<i>> \in DOMAIN s /\ Operands(s)[i] = Subtree(s, <<i>>)
  BY <1>2, OperandsOfTree
<1>5. ASSUME NEW i \in 1 .. n
      PROVE  Append(p, i) \in DOMAIN t /\ Top(Operands(s)[i]) = t[Append(p, i)]
  <2>1. Append(p, i) \in DOMAIN t
    BY DEF Branches
  <2>2. Top(Subtree(s, <<i>>)) = s[<<i>>]
    BY <1>2, <1>4, TopOfSubtree DEF Numbered
  <2>3. p \o <<i>> = Append(p, i)
    BY <1>1, OneStep
  <2>4. QED
    BY <1>3, <1>4, <2>1, <2>2, <2>3
<1>6. QED
  BY <1>4, <1>5 DEF s

\* The place p below the i-th child.
Under(i, p) == <<i>> \o p

\* A place below a child tells the child and the place.
LEMMA StepAndRest ==
  ASSUME NEW i \in Nat, NEW p \in Path
  PROVE  /\ Under(i, p) \in Path /\ Under(i, p) # <<>> /\ Under(i, <<>>) = Append(<<>>, i)
         /\ \A k \in Nat : Append(Under(i, p), k) = Under(i, Append(p, k))
         /\ \A j \in Nat, q \in Path : Under(i, p) = Under(j, q) => i = j /\ p = q
<1> USE DEF Under
<1>1. <<i>> \in Path /\ <<i>> \o <<>> = Append(<<>>, i)
  BY OneStep
<1>2. /\ Under(i, p) \in Path /\ Len(Under(i, p)) = Len(<<i>>) + Len(p) /\ Len(p) \in Nat
      /\ From(<<i>>, Under(i, p)) = p
  BY <1>1, ConcatOfPaths
<1>3. Under(i, p) # <<>>
  <2>1. <<i>> # <<>>
    OBVIOUS
  <2>2. QED
    BY <1>1, <2>1, ConcatEqualIffEmpty DEF Path
<1>4. \A k \in Nat : Append(Under(i, p), k) = Under(i, Append(p, k))
  BY <1>1, AppendBelow
<1>5. ASSUME NEW j \in Nat, NEW q \in Path, Under(i, p) = Under(j, q) PROVE i = j /\ p = q
  <2>1. <<j>> \in Path
    BY OneStep
  <2>2. Under(i, p)[1] = i /\ Under(j, q)[1] = j
    <3>1. Len(<<i>>) = 1 /\ Len(<<j>>) = 1 /\ <<i>>[1] = i /\ <<j>>[1] = j
      OBVIOUS
    <3>2. /\ \A k \in 1 .. 1 + Len(p) : Under(i, p)[k] = IF k <= 1 THEN <<i>>[k] ELSE p[k - 1]
          /\ \A k \in 1 .. 1 + Len(q) : Under(j, q)[k] = IF k <= 1 THEN <<j>>[k] ELSE q[k - 1]
      BY <1>1, <2>1, <3>1, ConcatProperties DEF Path
    <3>3. 1 \in 1 .. 1 + Len(p) /\ 1 \in 1 .. 1 + Len(q)
      BY PrefixPointwise
    <3>4. QED
      BY <3>1, <3>2, <3>3
  <2>3. i = j
    BY <1>5, <2>2
  <2>4. From(<<j>>, Under(j, q)) = q
    BY <2>1, ConcatOfPaths
  <2>5. QED
    BY <1>2, <1>5, <2>3, <2>4
<1>6. QED
  BY <1>1, <1>2, <1>3, <1>4, <1>5

\* A value on top of ordered trees is an ordered tree.
LEMMA TermNumbered ==
  ASSUME NEW S, NEW s \in Seq(S), \A x \in S : Numbered(x), NEW v
  PROVE  Numbered(Term(v, s)) /\ Top(Term(v, s)) = v
<1> DEFINE u == Term(v, s)
<1>1. Len(s) \in Nat /\ DOMAIN s = 1 .. Len(s) /\ \A i \in 1 .. Len(s) : Numbered(s[i])
  BY LenProperties, ElementOfSeq
<1>2. DOMAIN u = {<<>>} \cup UNION {{Under(i, p) : p \in DOMAIN s[i]} : i \in DOMAIN s}
  BY DEF Term, Under
<1>3. u[<<>>] = v
  BY DEF Term
<1> HIDE DEF u
<1>4. \A i \in 1 .. Len(s) : i \in Nat /\ Rooted(s[i]) /\ DOMAIN s[i] \subseteq Path
  BY <1>1 DEF Numbered, Rooted
<1>5. \A q : q \in DOMAIN u <=>
         q = <<>> \/ \E i \in 1 .. Len(s) : \E p \in DOMAIN s[i] : q = Under(i, p)
  BY <1>1, <1>2
<1>6. DOMAIN u \subseteq Path /\ <<>> \in DOMAIN u
  <2>1. <<>> \in Path
    BY EmptySeq DEF Path
  <2>2. ASSUME NEW i \in 1 .. Len(s), NEW p \in DOMAIN s[i] PROVE Under(i, p) \in Path
    <3>1. i \in Nat /\ p \in Path
      BY <1>4
    <3>2. QED
      BY <3>1, StepAndRest
  <2>3. QED
    BY <1>5, <2>1, <2>2
<1>7. ASSUME NEW i \in 1 .. Len(s), NEW p \in Path
      PROVE  Under(i, p) \in DOMAIN u <=> p \in DOMAIN s[i]
  <2>1. i \in Nat
    BY <1>4
  <2>2. ASSUME Under(i, p) \in DOMAIN u PROVE p \in DOMAIN s[i]
    <3>1. Under(i, p) # <<>>
      BY <2>1, StepAndRest
    <3>2. PICK j \in 1 .. Len(s) : \E q \in DOMAIN s[j] : Under(i, p) = Under(j, q)
      BY <1>5, <2>2, <3>1
    <3>3. PICK q \in DOMAIN s[j] : Under(i, p) = Under(j, q)
      BY <3>2
    <3>4. j \in Nat /\ q \in Path
      BY <1>4
    <3>5. i = j /\ p = q
      BY <2>1, <3>3, <3>4, StepAndRest
    <3>6. QED
      BY <3>5
  <2>3. QED
    BY <1>5, <2>2
<1>8. Branches(u, <<>>, Len(s))
  <2>1. <<>> \in Path /\ \A k \in Nat : Under(k, <<>>) = Append(<<>>, k) /\ Under(k, <<>>) # <<>>
    BY OneStep, StepAndRest
  <2>2. ASSUME NEW k \in Nat, Under(k, <<>>) \in DOMAIN u PROVE k \in 1 .. Len(s)
    <3>1. PICK j \in 1 .. Len(s) : \E q \in DOMAIN s[j] : Under(k, <<>>) = Under(j, q)
      BY <1>5, <2>1, <2>2
    <3>2. PICK q \in DOMAIN s[j] : Under(k, <<>>) = Under(j, q)
      BY <3>1
    <3>3. j \in Nat /\ q \in Path
      BY <1>4
    <3>4. k = j
      BY <2>1, <3>2, <3>3, StepAndRest
    <3>5. QED
      BY <3>4
  <2>3. ASSUME NEW k \in 1 .. Len(s) PROVE Under(k, <<>>) \in DOMAIN u
    <3>1. <<>> \in DOMAIN s[k]
      BY <1>4 DEF Rooted
    <3>2. QED
      BY <1>7, <2>1, <3>1
  <2>4. QED
    BY <1>4, <2>1, <2>2, <2>3 DEF Branches
<1>9. ASSUME NEW i \in 1 .. Len(s), NEW p \in Path, NEW k \in Nat
      PROVE  Append(Under(i, p), k) \in DOMAIN u <=> Append(p, k) \in DOMAIN s[i]
  <2>1. Append(Under(i, p), k) = Under(i, Append(p, k))
    <3>1. i \in Nat
      BY <1>4
    <3>2. QED
      BY <3>1, StepAndRest
  <2>2. Append(p, k) \in Path
    BY FrontOfPath
  <2>3. QED
    BY <1>7, <2>1, <2>2
<1>10. ASSUME NEW q \in Path, NEW k \in Nat, Append(q, k) \in DOMAIN u PROVE q \in DOMAIN u
  <2>1. Append(q, k) # <<>>
    BY FrontOfPath
  <2>2. PICK i \in 1 .. Len(s) : \E p \in DOMAIN s[i] : Append(q, k) = Under(i, p)
    BY <1>5, <1>10, <2>1
  <2>3. PICK p \in DOMAIN s[i] : Append(q, k) = Under(i, p)
    BY <2>2
  <2>4. p \in Path /\ i \in Nat /\ <<>> \in Path
    BY <1>4, OneStep
  <2>5. CASE p = <<>>
    <3>1. Append(q, k) = Append(<<>>, i)
      BY <2>3, <2>4, <2>5, StepAndRest
    <3>2. \A e \in Path : Append(q, k) = Append(e, i) => q = e
      BY <2>4, AppendInjective DEF Path
    <3>3. q = <<>>
      BY <2>4, <3>1, <3>2
    <3>4. QED
      BY <1>6, <3>3
  <2>6. CASE p # <<>>
    <3>1. PICK f \in Path, j \in Nat : p = Append(f, j)
      BY <2>4, <2>6, SequenceEmptyOrAppend DEF Path
    <3>2. Append(Under(i, f), j) = Under(i, Append(f, j)) /\ Under(i, f) \in Path
      <4>1. i \in Nat
        BY <2>4
      <4>2. /\ Under(i, f) \in Path
            /\ \A m \in Nat : Append(Under(i, f), m) = Under(i, Append(f, m))
        BY <4>1, StepAndRest
      <4>3. QED
        BY <4>2
    <3>3. Append(q, k) = Append(Under(i, f), j)
      BY <2>3, <3>1, <3>2
    <3>4. q = Under(i, f)
      BY <3>2, <3>3, AppendInjective DEF Path
    <3>5. f \in DOMAIN s[i]
      BY <1>4, <3>1 DEF Rooted, PrefixClosed
    <3>6. QED
      BY <1>7, <3>4, <3>5
  <2>7. QED
    BY <2>5, <2>6
<1>11. ASSUME NEW q \in DOMAIN u PROVE \E n \in Nat : Branches(u, q, n)
  <2>1. CASE q = <<>>
    BY <1>1, <1>8, <2>1
  <2>2. CASE q # <<>>
    <3>1. PICK i \in 1 .. Len(s) : \E p \in DOMAIN s[i] : q = Under(i, p)
      BY <1>5, <2>2
    <3>2. PICK p \in DOMAIN s[i] : q = Under(i, p)
      BY <3>1
    <3>3. PICK n \in Nat : Branches(s[i], p, n)
      BY <1>1 DEF Numbered
    <3>4. p \in Path
      BY <1>4
    <3>5. Branches(u, q, n)
      BY <1>9, <3>2, <3>3, <3>4 DEF Branches
    <3>6. QED
      BY <3>5
  <2>3. QED
    BY <2>1, <2>2
<1>12. Numbered(u)
  BY <1>6, <1>10, <1>11 DEF Numbered, Rooted, PrefixClosed
<1>13. QED
  BY <1>3, <1>12 DEF u, Top

-----------------------------------------------------------------------------
(* Walks from the root down                                                 *)

\* The walk has been at q before it is at p: q is above p, or to its left.
Passed(q, p) == (IsPrefix(q, p) /\ q # p) \/ LeftOf(q, p)

\* Before the root there is nothing.
LEMMA NothingPassedAtRoot ==
  ASSUME NEW q \in Path
  PROVE  ~ Passed(q, <<>>)
<1>1. <<>> \in Path /\ Len(<<>>) = 0
  BY EmptySeq DEF Path
<1>2. Len(q) \in Nat /\ (Len(q) = 0 => q = <<>>)
  BY EmptySeq, LenProperties DEF Path
<1>3. ~ LeftOf(q, <<>>)
  BY <1>1, <1>2 DEF LeftOf
<1>4. IsPrefix(q, <<>>) => q = <<>>
  BY <1>1, <1>2, PrefixPointwise
<1>5. QED
  BY <1>3, <1>4 DEF Passed

\* What is passed is not below.
LEMMA PassedNotBelow ==
  ASSUME NEW q \in Path, NEW p \in Path, Passed(q, p)
  PROVE  ~ IsPrefix(p, q)
<1>1. /\ Len(p) \in Nat /\ Len(q) \in Nat
      /\ IsPrefix(p, q) <=> Len(p) <= Len(q) /\ \A i \in 1 .. Len(p) : p[i] = q[i]
      /\ IsPrefix(q, p) <=> Len(q) <= Len(p) /\ \A i \in 1 .. Len(q) : q[i] = p[i]
  BY PrefixPointwise
<1>2. \A i \in 1 .. Len(q) : q[i] \in Nat
  BY ElementOfSeq DEF Path
<1>3. CASE IsPrefix(q, p) /\ q # p
  BY <1>1, <1>3, PathsEqual
<1>4. CASE LeftOf(q, p)
  BY <1>1, <1>2, <1>4 DEF LeftOf
<1>5. QED
  BY <1>3, <1>4 DEF Passed

\* From a node to its first child.
LEMMA PassedByDescent ==
  ASSUME NEW t, Numbered(t), NEW q \in DOMAIN t, NEW p \in Path, Passed(q, Append(p, 1))
  PROVE  q = p \/ Passed(q, p)
<1> DEFINE a == Append(p, 1)
<1>1. DOMAIN t \subseteq Path /\ q \in Path
  BY DEF Numbered, Rooted
<1>2. a \in Path /\ Len(a) = Len(p) + 1 /\ Len(p) \in Nat
  BY FrontOfPath
<1>3. CASE IsPrefix(q, a) /\ q # a
  BY <1>1, <1>3, PrefixOfAppend DEF Passed
<1>4. CASE LeftOf(q, a)
  <2>1. PICK k \in 1 .. Len(q) : k <= Len(a) /\ (\A i \in 1 .. k - 1 : q[i] = a[i]) /\ q[k] < a[k]
    BY <1>4 DEF LeftOf
  <2>2. /\ \A i \in 1 .. Len(p) : a[i] = p[i]
        /\ a[Len(p) + 1] = 1
    BY AppendProperties DEF Path
  <2>3. q[k] # 0
    <3>1. /\ SubSeq(q, 1, k - 1) \in Path /\ q[k] \in Nat
          /\ IsPrefix(SubSeq(q, 1, k - 1), q) /\ IsPrefix(Append(SubSeq(q, 1, k - 1), q[k]), q)
      BY <1>1, FirstSteps
    <3> DEFINE b == SubSeq(q, 1, k - 1)
    <3> HIDE DEF b
    <3>2. b \in DOMAIN t /\ Append(b, q[k]) \in DOMAIN t
      <4>1. Append(b, q[k]) \in Path
        BY <3>1, FrontOfPath DEF b
      <4>2. QED
        BY <3>1, <4>1, PrefixesAreNodes DEF b, Numbered
    <3>3. PICK n \in Nat : Branches(t, b, n)
      BY <3>2 DEF Numbered
    <3>4. q[k] \in 1 .. n
      BY <3>1, <3>2, <3>3 DEF Branches
    <3>5. QED
      BY <3>4
  <2>4. q[k] \in Nat /\ Len(q) \in Nat
    BY <1>1, ElementOfSeq, LenProperties DEF Path
  <2> HIDE DEF a
  <2>5. k # Len(p) + 1
    BY <2>1, <2>2, <2>3, <2>4
  <2>6. k \in 1 .. Len(p)
    BY <1>2, <2>1, <2>4, <2>5
  <2>7. LeftOf(q, p)
    BY <1>2, <2>1, <2>2, <2>4, <2>6 DEF LeftOf
  <2>8. QED
    BY <2>7 DEF Passed
<1>5. QED
  BY <1>3, <1>4 DEF Passed


\* What is to the right is not passed.
LEMMA RightNotPassed ==
  ASSUME NEW q \in Path, NEW p \in Path, LeftOf(p, q)
  PROVE  ~ Passed(q, p)
<1>1. /\ Len(p) \in Nat /\ Len(q) \in Nat
      /\ IsPrefix(q, p) <=> Len(q) <= Len(p) /\ \A i \in 1 .. Len(q) : q[i] = p[i]
  BY PrefixPointwise
<1>2. (\A i \in 1 .. Len(q) : q[i] \in Nat) /\ (\A i \in 1 .. Len(p) : p[i] \in Nat)
  BY ElementOfSeq DEF Path
<1>3. PICK m \in 1 .. Len(p) : m <= Len(q) /\ (\A i \in 1 .. m - 1 : p[i] = q[i]) /\ p[m] < q[m]
  BY DEF LeftOf
<1>4. ~ IsPrefix(q, p)
  BY <1>1, <1>2, <1>3
<1>5. ~ LeftOf(q, p)
  <2>1. SUFFICES ASSUME NEW j \in 1 .. Len(q), j <= Len(p),
                        \A i \in 1 .. j - 1 : q[i] = p[i], q[j] < p[j]
                 PROVE  FALSE
    BY DEF LeftOf
  <2>2. CASE j < m
    BY <1>1, <1>2, <1>3, <2>1, <2>2
  <2>3. CASE j = m
    BY <1>1, <1>2, <1>3, <2>1, <2>3
  <2>4. CASE j > m
    BY <1>1, <1>2, <1>3, <2>1, <2>4
  <2>5. QED
    BY <1>1, <1>3, <2>2, <2>3, <2>4
<1>6. QED
  BY <1>4, <1>5 DEF Passed

\* size() counts the children.
LEMMA SizeIs ==
  ASSUME NEW t, Numbered(t), NEW p \in DOMAIN t
  PROVE  Size(t, p) \in Nat /\ Branches(t, p, Size(t, p))
<1>1. DOMAIN t \subseteq Path /\ p \in Path
  BY DEF Numbered, Rooted
<1>2. PICK n \in Nat : Branches(t, p, n)
  BY DEF Numbered
<1> DEFINE C == {Append(p, k) : k \in 1 .. n}
           f == [k \in 1 .. n |-> Append(p, k)]
<1>3. Children(t, p) = C
  BY <1>1, <1>2, ChildrenOneByOne
<1>4. \A j, k \in Nat : Append(p, j) = Append(p, k) => j = k
  BY <1>1, AppendInjective DEF Path
<1>5. f \in Bijection(1 .. n, C)
  <2>1. f \in [1 .. n -> C] /\ \A x \in C : \E k \in 1 .. n : f[k] = x
    OBVIOUS
  <2>2. \A j, k \in 1 .. n : f[j] = f[k] => j = k
    BY <1>4
  <2> HIDE DEF f, C
  <2>3. QED
    BY <2>1, <2>2 DEF Bijection, Injection, Surjection, IsInjective
<1>6. IsFiniteSet(1 .. n) /\ Cardinality(1 .. n) = n
  BY FS_Interval
<1> HIDE DEF f, C
<1>7. Cardinality(C) = n
  BY <1>5, <1>6, FS_Bijection DEF ExistsBijection
<1>8. QED
  BY <1>2, <1>3, <1>7 DEF Size

\* The cursor is at the child c[k] of the node it has come through at level k.
LEMMA OnTheWay ==
  ASSUME NEW t, Numbered(t), NEW q \in DOMAIN t, NEW k \in 1 .. Len(q)
  PROVE  /\ SubSeq(q, 1, k - 1) \in DOMAIN t /\ q[k] \in Nat
         /\ q[k] \in 1 .. Size(t, SubSeq(q, 1, k - 1))
<1>1. q \in Path /\ Rooted(t)
  BY DEF Numbered, Rooted
<1>2. /\ SubSeq(q, 1, k - 1) \in Path /\ q[k] \in Nat
      /\ IsPrefix(SubSeq(q, 1, k - 1), q) /\ IsPrefix(Append(SubSeq(q, 1, k - 1), q[k]), q)
  BY <1>1, FirstSteps
<1> DEFINE b == SubSeq(q, 1, k - 1)
<1> HIDE DEF b
<1>3. Append(b, q[k]) \in Path
  BY <1>2, FrontOfPath DEF b
<1>4. b \in DOMAIN t /\ Append(b, q[k]) \in DOMAIN t
  BY <1>1, <1>2, <1>3, PrefixesAreNodes DEF b
<1>5. Branches(t, b, Size(t, b))
  BY <1>4, SizeIs
<1>6. q[k] \in 1 .. Size(t, b)
  BY <1>2, <1>4, <1>5 DEF Branches
<1>7. QED
  BY <1>2, <1>4, <1>6 DEF b

\* The levels with children left are some of those of the cursor.
LEMMA UnfinishedLevels ==
  ASSUME NEW t, Numbered(t), NEW c \in DOMAIN t
  PROVE  /\ Len(c) \in Nat /\ Unfinished(t, c) \subseteq 1 .. Len(c) /\ Unfinished(t, c) \subseteq Nat
         /\ \A k \in 1 .. Len(c) : k \in Unfinished(t, c) <=> c[k] < Size(t, SubSeq(c, 1, k - 1))
<1>1. c \in Path
  BY DEF Numbered, Rooted
<1>2. Len(c) \in Nat /\ DOMAIN c = 1 .. Len(c)
  BY <1>1, LenProperties DEF Path
<1>3. QED
  BY <1>2 DEF Unfinished

\* The level at which a return goes on.
LEMMA LastUnfinished ==
  ASSUME NEW t, Numbered(t), NEW c \in DOMAIN t, Unfinished(t, c) # {}
  PROVE  /\ Max(Unfinished(t, c)) \in 1 .. Len(c) /\ Max(Unfinished(t, c)) \in Unfinished(t, c)
         /\ \A m \in Unfinished(t, c) : m <= Max(Unfinished(t, c))
<1>1. Len(c) \in Nat /\ Unfinished(t, c) \subseteq 1 .. Len(c) /\ Unfinished(t, c) \subseteq Nat
  BY UnfinishedLevels
<1>2. \A x \in Unfinished(t, c) : x <= Len(c)
  BY <1>1
<1>3. QED
  BY <1>1, <1>2, LargestNumber

\* A node to the right of the cursor is below a child that is left to go to.
LEMMA RightIsLeft ==
  ASSUME NEW t, Numbered(t), NEW c \in DOMAIN t, NEW q \in DOMAIN t, NEW m \in 1 .. Len(c),
         m <= Len(q), \A i \in 1 .. m - 1 : c[i] = q[i], c[m] < q[m]
  PROVE  m \in Unfinished(t, c)
<1>1. c \in Path /\ q \in Path
  BY DEF Numbered, Rooted
<1>2. Len(c) \in Nat /\ Len(q) \in Nat /\ m \in 1 .. Len(q)
  BY <1>1, PrefixPointwise
<1> DEFINE a == SubSeq(c, 1, m - 1)
           b == SubSeq(q, 1, m - 1)
<1>3. /\ a \in Path /\ Len(a) = m - 1 /\ \A i \in 1 .. m - 1 : a[i] = c[i]
      /\ b \in Path /\ Len(b) = m - 1 /\ \A i \in 1 .. m - 1 : b[i] = q[i]
  BY <1>1, <1>2, FirstSteps
<1>4. b \in DOMAIN t /\ q[m] \in Nat /\ q[m] \in 1 .. Size(t, b) /\ c[m] \in Nat
  BY <1>2, OnTheWay
<1>5. Size(t, b) \in Nat
  BY <1>4, SizeIs
<1> HIDE DEF a, b
<1>6. a = b
  BY <1>3, PathsEqual
<1>7. c[m] < Size(t, a)
  BY <1>4, <1>5, <1>6
<1>8. QED
  BY <1>7, UnfinishedLevels DEF a

\* Below a node without children there is only the node.
LEMMA BelowLeaf ==
  ASSUME NEW t, Numbered(t), NEW c \in DOMAIN t, Size(t, c) = 0, NEW q \in DOMAIN t, IsPrefix(c, q)
  PROVE  q = c
<1>1. c \in Path /\ q \in Path
  BY DEF Numbered, Rooted
<1>2. /\ Len(c) \in Nat /\ Len(q) \in Nat /\ Len(c) <= Len(q)
      /\ \A i \in 1 .. Len(c) : c[i] = q[i]
  BY <1>1, PrefixPointwise
<1>3. Len(q) = Len(c)
  <2>1. SUFFICES ASSUME Len(q) > Len(c) PROVE FALSE
    BY <1>2
  <2> DEFINE k == Len(c) + 1
             b == SubSeq(q, 1, k - 1)
  <2>2. k \in 1 .. Len(q) /\ k - 1 = Len(c)
    BY <1>2, <2>1
  <2>3. b \in Path /\ Len(b) = k - 1 /\ \A i \in 1 .. k - 1 : b[i] = q[i]
    BY <1>1, <2>2, FirstSteps
  <2>4. q[k] \in 1 .. Size(t, b)
    BY <2>2, OnTheWay
  <2> HIDE DEF b
  <2>5. b = c
    BY <1>1, <1>2, <2>2, <2>3, PathsEqual
  <2>6. QED
    BY <2>4, <2>5
<1>4. QED
  BY <1>1, <1>2, <1>3, PathsEqual


\* From a node without children to the next child of the innermost node that has one.
LEMMA PassedByReturn ==
  ASSUME NEW t, Numbered(t), NEW c \in DOMAIN t, Size(t, c) = 0, NEW k, k = Max(Unfinished(t, c)),
         Unfinished(t, c) # {}, NEW q \in DOMAIN t,
         Passed(q, Append(SubSeq(c, 1, k - 1), c[k] + 1))
  PROVE  q = c \/ Passed(q, c)
<1> DEFINE a == SubSeq(c, 1, k - 1)
           p == Append(a, c[k] + 1)
<1>1. c \in Path /\ q \in Path
  BY DEF Numbered, Rooted
<1>2. k \in 1 .. Len(c) /\ \A m \in Unfinished(t, c) : m <= k
  BY LastUnfinished
<1>3. a \in Path /\ Len(a) = k - 1 /\ (\A i \in 1 .. k - 1 : a[i] = c[i]) /\ c[k] \in Nat
  BY <1>1, <1>2, FirstSteps
<1>4. Len(c) \in Nat /\ Len(q) \in Nat
  BY <1>1, PrefixPointwise
<1>5. (\A i \in 1 .. Len(c) : c[i] \in Nat) /\ (\A i \in 1 .. Len(q) : q[i] \in Nat)
  BY <1>1, ElementOfSeq DEF Path
<1> HIDE DEF a
<1>6. c[k] + 1 \in Nat
  BY <1>3
<1>7. p \in Path /\ Len(p) = k
  <2> DEFINE i == c[k] + 1
  <2> HIDE DEF i
  <2>1. Append(a, i) \in Path /\ Len(Append(a, i)) = Len(a) + 1
    BY <1>3, <1>6, FrontOfPath DEF i
  <2>2. Len(a) + 1 = k
    BY <1>2, <1>3
  <2>3. QED
    BY <2>1, <2>2 DEF i
<1>8. p[k] = c[k] + 1 /\ \A i \in 1 .. k - 1 : p[i] = c[i]
  <2>1. p[Len(a) + 1] = c[k] + 1 /\ \A i \in 1 .. Len(a) : p[i] = a[i]
    BY <1>3, <1>6, AppendProperties DEF Path
  <2>2. QED
    BY <1>2, <1>3, <2>1
<1> HIDE DEF p
<1>9. Passed(q, p)
  BY DEF p, a
<1>10. CASE IsPrefix(q, c)
  BY <1>10 DEF Passed
<1>11. CASE IsPrefix(c, q)
  BY <1>11, BelowLeaf
<1>12. CASE LeftOf(q, c)
  BY <1>12 DEF Passed
<1>13. CASE LeftOf(c, q)
  <2>1. PICK m \in 1 .. Len(c) : m <= Len(q) /\ (\A i \in 1 .. m - 1 : c[i] = q[i]) /\ c[m] < q[m]
    BY <1>13 DEF LeftOf
  <2>2. m <= k
    BY <1>2, <2>1, RightIsLeft
  <2>3. IsPrefix(p, q) \/ LeftOf(p, q)
    <3>1. m \in Nat /\ k \in Nat /\ m \in 1 .. Len(p) /\ c[m] \in Nat /\ q[m] \in Nat
      BY <1>2, <1>4, <1>5, <1>7, <2>1, <2>2
    <3>2. CASE p[m] < q[m]
      <4>1. \A i \in 1 .. m - 1 : p[i] = q[i]
        BY <1>8, <2>1, <2>2, <3>1
      <4>2. QED
        BY <2>1, <3>1, <3>2, <4>1 DEF LeftOf
    <3>3. CASE ~ (p[m] < q[m])
      <4>1. m = k /\ p[k] = q[k]
        BY <1>2, <1>8, <2>1, <2>2, <3>1, <3>3
      <4>2. Len(p) <= Len(q) /\ \A i \in 1 .. Len(p) : p[i] = q[i]
        BY <1>7, <1>8, <2>1, <3>1, <4>1
      <4>3. QED
        BY <1>1, <1>7, <4>2, PrefixPointwise
    <3>4. QED
      BY <3>2, <3>3
  <2>4. ~ Passed(q, p)
    BY <1>1, <1>7, <2>3, PassedNotBelow, RightNotPassed
  <2>5. QED
    BY <1>9, <2>4
<1>14. QED
  BY <1>1, <1>10, <1>11, <1>12, <1>13, PathsCompare

\* When no child is left anywhere, every node has been passed.
LEMMA AllPassed ==
  ASSUME NEW t, Numbered(t), NEW c \in DOMAIN t, Size(t, c) = 0, Unfinished(t, c) = {}, NEW q \in DOMAIN t
  PROVE  q = c \/ Passed(q, c)
<1>1. c \in Path /\ q \in Path
  BY DEF Numbered, Rooted
<1>2. CASE IsPrefix(q, c)
  BY <1>2 DEF Passed
<1>3. CASE IsPrefix(c, q)
  BY <1>3, BelowLeaf
<1>4. CASE LeftOf(q, c)
  BY <1>4 DEF Passed
<1>5. CASE LeftOf(c, q)
  <2>1. PICK m \in 1 .. Len(c) : m <= Len(q) /\ (\A i \in 1 .. m - 1 : c[i] = q[i]) /\ c[m] < q[m]
    BY <1>5 DEF LeftOf
  <2>2. m \in Unfinished(t, c)
    BY <2>1, RightIsLeft
  <2>3. QED
    BY <2>2
<1>6. QED
  BY <1>1, <1>2, <1>3, <1>4, <1>5, PathsCompare
=============================================================================
