---------------------------- MODULE TreeBase_proofs ----------------------------
(***************************************************************************)
(* Theorems about TreeBase and ArrayNode, for any set of nodes, trees,      *)
(* values and any arity.  From the bottom up:                              *)
(*   - the sequences of children: which elements an insertion, a removal or *)
(*     a replacement leaves, and that none is twice;                        *)
(*   - the links.  Links(ch, par, U) says that the children ch and the      *)
(*     parents par describe a forest in which the nodes of U are the cut    *)
(*     off subtrees.  Every operation of tree_base is composed of four      *)
(*     edits that keep it: cutting a subtree off, hanging one in, freeing a *)
(*     subtree, and replicating the children of one node below another;     *)
(*   - the inductive invariant IInv, what it says of the cursors an         *)
(*     operation is called with, and what the operations have in common;    *)
(*   - one lemma per operation, then the theorems about the links;          *)
(*   - the node counter m_size counts the nodes of its tree, and no call    *)
(*     that returns loses a node.  Both follow from what an operation does  *)
(*     to the sets of nodes below the headers, and that is read off the     *)
(*     parents alone: Below(ch, t) is the only set N of nodes with          *)
(*        n \in N  <=>  par[n] \in N \cup {t}   for every node n;            *)
(*   - the slots of an array node, for any arity: the free ones stay a      *)
(*     suffix, and the array implements the sequence of children of which   *)
(*     the rest of the module speaks.                                       *)
(***************************************************************************)
EXTENDS TreeBase, ArrayNode, SequenceTheorems, FiniteSetTheorems, WellFoundedInduction, TLAPS

\* The elements of a sequence, and its injectivity, position by position.
LEMMA SeqBasics ==
  ASSUME NEW s \in Seq(Node)
  PROVE  /\ Len(s) \in Nat /\ DOMAIN s = 1 .. Len(s)
         /\ \A i \in 1 .. Len(s) : s[i] \in Node /\ s[i] \in ToSet(s)
         /\ \A x : x \in ToSet(s) <=> \E i \in 1 .. Len(s) : s[i] = x
         /\ IsInjective(s) <=> \A i, j \in 1 .. Len(s) : s[i] = s[j] => i = j
  BY ElementOfSeq, LenProperties DEF ToSet, IsInjective

\* r is s with n put in front of its k-th element.
IsInserted(s, k, n, r) ==
  /\ s \in Seq(Node) /\ r \in Seq(Node) /\ n \in Node
  /\ k \in 1 .. Len(s) + 1 /\ Len(r) = Len(s) + 1
  /\ \A i \in 1 .. Len(s) + 1 :
       r[i] = IF i < k THEN s[i] ELSE IF i = k THEN n ELSE s[i - 1]

\* An insertion adds one element and keeps a sequence without repetitions so.
LEMMA InsertedSet ==
  ASSUME NEW s, NEW k, NEW n, NEW r, IsInserted(s, k, n, r), IsInjective(s), n \notin ToSet(s)
  PROVE  IsInjective(r) /\ ToSet(r) = ToSet(s) \cup {n}
<1> DEFINE Place(i) == IF i < k THEN i ELSE i - 1
<1>1. /\ Len(s) \in Nat
      /\ \A i \in 1 .. Len(s) : s[i] \in ToSet(s) /\ s[i] # n
      /\ \A x : x \in ToSet(s) <=> \E i \in 1 .. Len(s) : s[i] = x
      /\ \A i, j \in 1 .. Len(s) : s[i] = s[j] => i = j
  BY SeqBasics DEF IsInserted
<1>2. /\ IsInjective(r) <=> \A i, j \in 1 .. Len(s) + 1 : r[i] = r[j] => i = j
      /\ \A x : x \in ToSet(r) <=> \E i \in 1 .. Len(s) + 1 : r[i] = x
  <2>1. r \in Seq(Node) /\ Len(r) = Len(s) + 1
    BY DEF IsInserted
  <2>2. /\ IsInjective(r) <=> \A i, j \in 1 .. Len(r) : r[i] = r[j] => i = j
        /\ \A x : x \in ToSet(r) <=> \E i \in 1 .. Len(r) : r[i] = x
    BY <2>1, SeqBasics
  <2>3. QED
    BY <2>1, <2>2
<1>3. /\ k \in 1 .. Len(s) + 1 /\ r[k] = n
      /\ \A i \in 1 .. Len(s) + 1 : i # k =>
           Place(i) \in 1 .. Len(s) /\ r[i] = s[Place(i)]
  BY <1>1 DEF IsInserted
<1>4. ASSUME NEW i \in 1 .. Len(s) + 1, NEW j \in 1 .. Len(s) + 1, r[i] = r[j]
      PROVE  i = j
  <2>1. CASE i = k \/ j = k
    BY <1>1, <1>3, <1>4, <2>1
  <2>2. CASE i # k /\ j # k
    <3>1. Place(i) = Place(j)
      BY <1>1, <1>3, <1>4, <2>2
    <3>2. QED
      BY <1>1, <1>3, <2>2, <3>1
  <2>3. QED
    BY <2>1, <2>2
<1>5. ASSUME NEW x \in ToSet(s) PROVE x \in ToSet(r)
  <2>1. PICK i \in 1 .. Len(s) : s[i] = x
    BY <1>1, <1>5
  <2>2. CASE i < k
    <3>1. i \in 1 .. Len(s) + 1 /\ Place(i) = i
      BY <1>1, <2>2
    <3>2. QED
      BY <1>2, <1>3, <2>1, <2>2, <3>1
  <2>3. CASE i >= k
    <3>1. i + 1 \in 1 .. Len(s) + 1 /\ i + 1 # k /\ Place(i + 1) = i
      BY <1>1, <1>3, <2>3
    <3>2. QED
      BY <1>2, <1>3, <2>1, <3>1
  <2>4. QED
    BY <1>1, <1>3, <2>2, <2>3
<1>6. n \in ToSet(r)
  BY <1>2, <1>3
<1>7. ASSUME NEW x \in ToSet(r) PROVE x \in ToSet(s) \cup {n}
  <2>1. PICK i \in 1 .. Len(s) + 1 : r[i] = x
    BY <1>2, <1>7
  <2>2. QED
    BY <1>1, <1>3, <2>1
<1>8. QED
  BY <1>2, <1>4, <1>5, <1>6, <1>7

\* push_back of a node that is not there yet.
LEMMA AppendSet ==
  ASSUME NEW s \in Seq(Node), IsInjective(s), NEW n \in Node, n \notin ToSet(s)
  PROVE  /\ Append(s, n) \in Seq(Node) /\ IsInjective(Append(s, n))
         /\ ToSet(Append(s, n)) = ToSet(s) \cup {n}
         /\ Len(Append(s, n)) = Len(s) + 1
<1>1. /\ Append(s, n) \in Seq(Node)
      /\ Len(Append(s, n)) = Len(s) + 1 /\ Len(s) \in Nat
      /\ \A i \in 1 .. Len(s) : Append(s, n)[i] = s[i]
      /\ Append(s, n)[Len(s) + 1] = n
  BY AppendProperties, LenProperties
<1>2. IsInserted(s, Len(s) + 1, n, Append(s, n))
  BY <1>1 DEF IsInserted
<1>3. QED
  BY <1>1, <1>2, InsertedSet

\* insert in front of any place, of a node that is not there yet.
LEMMA InsertAtSet ==
  ASSUME NEW s \in Seq(Node), IsInjective(s), NEW n \in Node, n \notin ToSet(s),
         NEW k \in 1 .. Len(s) + 1
  PROVE  /\ InsertAt(s, k, n) \in Seq(Node) /\ IsInjective(InsertAt(s, k, n))
         /\ ToSet(InsertAt(s, k, n)) = ToSet(s) \cup {n}
         /\ Len(InsertAt(s, k, n)) = Len(s) + 1
<1> DEFINE a == SubSeq(s, 1, k - 1)
           b == SubSeq(s, k, Len(s))
           c == a \o <<n>>
           r == c \o b
<1>1. Len(s) \in Nat /\ k \in Int /\ k - 1 \in Int /\ 1 \in Int
  BY LenProperties
<1>2. /\ \A i \in 1 .. k - 1 : s[i] \in Node
      /\ \A i \in k .. Len(s) : s[i] \in Node
  BY <1>1, SeqBasics
<1>3. /\ a \in Seq(Node) /\ Len(a) = k - 1
      /\ \A i \in 1 .. k - 1 : a[i] = s[i]
  BY <1>1, <1>2, SubSeqProperties
<1>4. /\ b \in Seq(Node) /\ Len(b) = Len(s) - k + 1
      /\ \A i \in 1 .. Len(s) - k + 1 : b[i] = s[k + i - 1]
  BY <1>1, <1>2, SubSeqProperties
<1>5. <<n>> \in Seq(Node) /\ Len(<<n>>) = 1 /\ <<n>>[1] = n
  OBVIOUS
<1> HIDE DEF a, b
<1>6. /\ c \in Seq(Node) /\ Len(c) = k
      /\ \A i \in 1 .. k : c[i] = IF i < k THEN s[i] ELSE n
  BY <1>1, <1>3, <1>5, ConcatProperties
<1> HIDE DEF c
<1>7. /\ r \in Seq(Node) /\ Len(r) = Len(s) + 1
      /\ \A i \in 1 .. Len(s) + 1 : r[i] = IF i <= k THEN c[i] ELSE b[i - k]
  <2>1. /\ r \in Seq(Node) /\ Len(r) = Len(c) + Len(b)
        /\ \A i \in 1 .. Len(c) + Len(b) :
             r[i] = IF i <= Len(c) THEN c[i] ELSE b[i - Len(c)]
    BY <1>4, <1>6, ConcatProperties
  <2>2. Len(c) = k /\ Len(c) + Len(b) = Len(s) + 1
    BY <1>1, <1>4, <1>6
  <2>3. QED
    BY <2>1, <2>2
<1> HIDE DEF r
<1>8. \A i \in 1 .. Len(s) + 1 :
        r[i] = IF i < k THEN s[i] ELSE IF i = k THEN n ELSE s[i - 1]
  <2> TAKE i \in 1 .. Len(s) + 1
  <2>1. CASE i <= k
    BY <1>1, <1>6, <1>7, <2>1
  <2>2. CASE i > k
    <3>1. i - k \in 1 .. Len(s) - k + 1 /\ k + (i - k) - 1 = i - 1
      BY <1>1, <2>2
    <3>2. QED
      BY <1>1, <1>4, <1>7, <2>2, <3>1
  <2>3. QED
    BY <1>1, <2>1, <2>2
<1>9. IsInserted(s, k, n, r)
  BY <1>1, <1>7, <1>8 DEF IsInserted
<1>10. r = InsertAt(s, k, n)
  BY DEF InsertAt, a, b, c, r
<1>11. QED
  BY <1>7, <1>9, <1>10, InsertedSet

\* r is s without its k-th element.
IsRemoved(s, k, r) ==
  /\ s \in Seq(Node) /\ r \in Seq(Node)
  /\ k \in 1 .. Len(s) /\ Len(r) = Len(s) - 1
  /\ \A i \in 1 .. Len(s) - 1 : r[i] = IF i < k THEN s[i] ELSE s[i + 1]

\* A removal takes away one element and leaves no repetition.
LEMMA RemovedSet ==
  ASSUME NEW s, NEW k, NEW r, IsRemoved(s, k, r), IsInjective(s)
  PROVE  IsInjective(r) /\ ToSet(r) = ToSet(s) \ {s[k]}
<1> DEFINE Place(i) == IF i < k THEN i ELSE i + 1
<1>1. /\ Len(s) \in Nat /\ k \in 1 .. Len(s)
      /\ \A i \in 1 .. Len(s) : s[i] \in ToSet(s)
      /\ \A x : x \in ToSet(s) <=> \E i \in 1 .. Len(s) : s[i] = x
      /\ \A i, j \in 1 .. Len(s) : s[i] = s[j] => i = j
  BY SeqBasics DEF IsRemoved
<1>2. /\ IsInjective(r) <=> \A i, j \in 1 .. Len(s) - 1 : r[i] = r[j] => i = j
      /\ \A x : x \in ToSet(r) <=> \E i \in 1 .. Len(s) - 1 : r[i] = x
  <2>1. r \in Seq(Node) /\ Len(r) = Len(s) - 1
    BY DEF IsRemoved
  <2>2. /\ IsInjective(r) <=> \A i, j \in 1 .. Len(r) : r[i] = r[j] => i = j
        /\ \A x : x \in ToSet(r) <=> \E i \in 1 .. Len(r) : r[i] = x
    BY <2>1, SeqBasics
  <2>3. QED
    BY <2>1, <2>2
<1>3. \A i \in 1 .. Len(s) - 1 :
        Place(i) \in 1 .. Len(s) /\ Place(i) # k /\ r[i] = s[Place(i)]
  BY <1>1 DEF IsRemoved
<1>4. ASSUME NEW i \in 1 .. Len(s) - 1, NEW j \in 1 .. Len(s) - 1, r[i] = r[j]
      PROVE  i = j
  <2>1. Place(i) = Place(j)
    BY <1>1, <1>3, <1>4
  <2>2. QED
    BY <1>1, <2>1
<1>5. ASSUME NEW x \in ToSet(s), x # s[k] PROVE x \in ToSet(r)
  <2>1. PICK i \in 1 .. Len(s) : s[i] = x
    BY <1>1, <1>5
  <2>2. CASE i < k
    <3>1. i \in 1 .. Len(s) - 1 /\ Place(i) = i
      BY <1>1, <2>2
    <3>2. QED
      BY <1>2, <1>3, <2>1, <3>1
  <2>3. CASE i > k
    <3>1. i - 1 \in 1 .. Len(s) - 1 /\ Place(i - 1) = i
      BY <1>1, <2>3
    <3>2. QED
      BY <1>2, <1>3, <2>1, <3>1
  <2>4. QED
    BY <1>1, <1>5, <2>1, <2>2, <2>3
<1>6. ASSUME NEW x \in ToSet(r) PROVE x \in ToSet(s) \ {s[k]}
  <2>1. PICK i \in 1 .. Len(s) - 1 : r[i] = x
    BY <1>2, <1>6
  <2>2. QED
    BY <1>1, <1>3, <2>1
<1>7. QED
  BY <1>2, <1>4, <1>5, <1>6

\* child_index finds the only place of a child.
LEMMA ChildIndexIs ==
  ASSUME NEW s \in Seq(Node), IsInjective(s), NEW n \in ToSet(s)
  PROVE  ChildIndex(s, n) \in 1 .. Len(s) /\ s[ChildIndex(s, n)] = n
<1>1. /\ Len(s) \in Nat
      /\ \A i, j \in 1 .. Len(s) : s[i] = s[j] => i = j
  BY SeqBasics
<1>2. PICK k \in 1 .. Len(s) : s[k] = n
  BY SeqBasics
<1> DEFINE P(i) == /\ i <= Len(s) => s[i] = n
                   /\ \A j \in 1 .. i - 1 : s[j] # n
<1>3. k \in 1 .. Len(s) + 1 /\ P(k)
  <2>1. \A j \in 1 .. k - 1 : j \in 1 .. Len(s) /\ j # k
    BY <1>1
  <2>2. QED
    BY <1>1, <1>2, <2>1
<1>4. \A i \in 1 .. Len(s) + 1 : P(i) => i = k
  <2> TAKE i \in 1 .. Len(s) + 1
  <2> HAVE P(i)
  <2>1. CASE i <= Len(s)
    BY <1>1, <1>2, <2>1
  <2>2. CASE i > Len(s)
    <3>1. k \in 1 .. i - 1
      BY <1>1, <2>2
    <3>2. QED
      BY <1>2, <3>1
  <2>3. QED
    BY <1>1, <2>1, <2>2
<1>5. ChildIndex(s, n) = k
  BY <1>3, <1>4 DEF ChildIndex
<1>6. QED
  BY <1>2, <1>5

\* RemoveAt, for any place.
LEMMA RemoveAtIs ==
  ASSUME NEW s \in Seq(Node), NEW k \in 1 .. Len(s)
  PROVE  IsRemoved(s, k, RemoveAt(s, k))
<1> DEFINE a == SubSeq(s, 1, k - 1)
           b == SubSeq(s, k + 1, Len(s))
           r == a \o b
<1>1. Len(s) \in Nat /\ k \in Int /\ k - 1 \in Int /\ k + 1 \in Int /\ 1 \in Int
  BY LenProperties
<1>2. /\ \A i \in 1 .. k - 1 : s[i] \in Node
      /\ \A i \in k + 1 .. Len(s) : s[i] \in Node
  BY <1>1, SeqBasics
<1>3. /\ a \in Seq(Node) /\ Len(a) = k - 1
      /\ \A i \in 1 .. k - 1 : a[i] = s[i]
  BY <1>1, <1>2, SubSeqProperties
<1>4. /\ b \in Seq(Node) /\ Len(b) = Len(s) - k
      /\ \A i \in 1 .. Len(s) - k : b[i] = s[k + i]
  <2>1. /\ b \in Seq(Node)
        /\ Len(b) = IF k + 1 <= Len(s) THEN Len(s) - (k + 1) + 1 ELSE 0
        /\ \A i \in 1 .. Len(s) - (k + 1) + 1 : b[i] = s[(k + 1) + i - 1]
    BY <1>1, <1>2, SubSeqProperties
  <2>2. /\ Len(s) - (k + 1) + 1 = Len(s) - k
        /\ \A i \in 1 .. Len(s) - k : (k + 1) + i - 1 = k + i
    BY <1>1
  <2> HIDE DEF b
  <2>3. Len(b) = Len(s) - k
    <3>1. CASE k + 1 <= Len(s)
      BY <2>1, <2>2, <3>1
    <3>2. CASE ~ (k + 1 <= Len(s))
      <4>1. Len(s) - k = 0
        BY <1>1, <3>2
      <4>2. QED
        BY <2>1, <3>2, <4>1
    <3>3. QED
      BY <3>1, <3>2
  <2>4. ASSUME NEW i \in 1 .. Len(s) - k PROVE b[i] = s[k + i]
    BY <2>1, <2>2
  <2>5. QED
    BY <2>1, <2>3, <2>4
<1> HIDE DEF a, b
<1>5. /\ r \in Seq(Node) /\ Len(r) = Len(s) - 1
      /\ \A i \in 1 .. Len(s) - 1 : r[i] = IF i <= k - 1 THEN a[i] ELSE b[i - (k - 1)]
  <2>1. /\ r \in Seq(Node) /\ Len(r) = Len(a) + Len(b)
        /\ \A i \in 1 .. Len(a) + Len(b) :
             r[i] = IF i <= Len(a) THEN a[i] ELSE b[i - Len(a)]
    BY <1>3, <1>4, ConcatProperties
  <2>2. Len(a) = k - 1 /\ Len(a) + Len(b) = Len(s) - 1
    BY <1>1, <1>3, <1>4
  <2> HIDE DEF r
  <2>3. ASSUME NEW i \in 1 .. Len(s) - 1
        PROVE  r[i] = IF i <= k - 1 THEN a[i] ELSE b[i - (k - 1)]
    <3>1. i \in 1 .. Len(a) + Len(b)
      BY <2>2
    <3>2. r[i] = IF i <= Len(a) THEN a[i] ELSE b[i - Len(a)]
      BY <2>1, <3>1
    <3>3. QED
      BY <2>2, <3>2
  <2>4. r \in Seq(Node) /\ Len(r) = Len(s) - 1
    BY <2>1, <2>2
  <2>5. QED
    BY <2>3, <2>4
<1> HIDE DEF r
<1>6. \A i \in 1 .. Len(s) - 1 : r[i] = IF i < k THEN s[i] ELSE s[i + 1]
  <2> TAKE i \in 1 .. Len(s) - 1
  <2>1. CASE i < k
    <3>1. i \in 1 .. k - 1 /\ i <= k - 1
      BY <1>1, <2>1
    <3>2. QED
      BY <1>3, <1>5, <2>1, <3>1
  <2>2. CASE i >= k
    <3>1. i - (k - 1) \in 1 .. Len(s) - k /\ k + (i - (k - 1)) = i + 1 /\ ~ (i <= k - 1)
      BY <1>1, <2>2
    <3>2. QED
      BY <1>1, <1>4, <1>5, <2>2, <3>1
  <2>3. QED
    BY <1>1, <2>1, <2>2
<1>7. r = RemoveAt(s, k)
  BY DEF RemoveAt, a, b, r
<1>8. QED
  BY <1>5, <1>6, <1>7 DEF IsRemoved

\* remove_child takes away the child it is given, and no other.
LEMMA RemoveChildSet ==
  ASSUME NEW s \in Seq(Node), IsInjective(s), NEW n \in ToSet(s)
  PROVE  /\ ChildRemoved(s, n) \in Seq(Node) /\ IsInjective(ChildRemoved(s, n))
         /\ ToSet(ChildRemoved(s, n)) = ToSet(s) \ {n}
         /\ Len(ChildRemoved(s, n)) = Len(s) - 1
<1>1. ChildIndex(s, n) \in 1 .. Len(s) /\ s[ChildIndex(s, n)] = n
  BY ChildIndexIs
<1>2. IsRemoved(s, ChildIndex(s, n), ChildRemoved(s, n))
  BY <1>1, RemoveAtIs DEF ChildRemoved
<1>3. QED
  BY <1>1, <1>2, RemovedSet DEF IsRemoved

\* s with another node at its k-th place.
LEMMA ReplaceAtSet ==
  ASSUME NEW s \in Seq(Node), IsInjective(s), NEW n \in Node, n \notin ToSet(s),
         NEW k \in 1 .. Len(s)
  PROVE  /\ ReplaceAt(s, k, n) \in Seq(Node) /\ IsInjective(ReplaceAt(s, k, n))
         /\ ToSet(ReplaceAt(s, k, n)) = (ToSet(s) \ {s[k]}) \cup {n}
         /\ Len(ReplaceAt(s, k, n)) = Len(s)
<1> DEFINE r == ReplaceAt(s, k, n)
<1>1. /\ r \in Seq(Node) /\ Len(r) = Len(s)
      /\ \A i \in 1 .. Len(s) : r[i] = IF i = k THEN n ELSE s[i]
  BY ExceptSeq DEF ReplaceAt
<1>2. /\ \A i \in 1 .. Len(s) : s[i] \in ToSet(s) /\ s[i] # n
      /\ \A x : x \in ToSet(s) <=> \E i \in 1 .. Len(s) : s[i] = x
      /\ \A i, j \in 1 .. Len(s) : s[i] = s[j] => i = j
  BY SeqBasics
<1> HIDE DEF r
<1>3. /\ IsInjective(r) <=> \A i, j \in 1 .. Len(s) : r[i] = r[j] => i = j
      /\ \A x : x \in ToSet(r) <=> \E i \in 1 .. Len(s) : r[i] = x
  <2>1. /\ IsInjective(r) <=> \A i, j \in 1 .. Len(r) : r[i] = r[j] => i = j
        /\ \A x : x \in ToSet(r) <=> \E i \in 1 .. Len(r) : r[i] = x
    BY <1>1, SeqBasics
  <2>2. QED
    BY <1>1, <2>1
<1>4. IsInjective(r)
  BY <1>1, <1>2, <1>3
<1>5. ToSet(r) = (ToSet(s) \ {s[k]}) \cup {n}
  BY <1>1, <1>2, <1>3
<1>6. QED
  BY <1>1, <1>4, <1>5 DEF r

\* swap_impl1 on one node: the child attached again is removed at its old place.
LEMMA AppendRemove ==
  ASSUME NEW s \in Seq(Node), IsInjective(s), NEW n \in ToSet(s)
  PROVE  ChildRemoved(Append(s, n), n) = Append(ChildRemoved(s, n), n)
<1> DEFINE a == Append(s, n)
           k == ChildIndex(s, n)
<1>1. /\ Len(s) \in Nat /\ n \in Node
      /\ k \in 1 .. Len(s) /\ s[k] = n
      /\ \A i, j \in 1 .. Len(s) : s[i] = s[j] => i = j
  BY SeqBasics, ChildIndexIs
<1>2. /\ a \in Seq(Node) /\ Len(a) = Len(s) + 1
      /\ \A i \in 1 .. Len(s) : a[i] = s[i]
      /\ a[Len(s) + 1] = n
  BY <1>1, AppendProperties
<1> HIDE DEF a, k
<1>3. ChildIndex(a, n) = k
  <2> DEFINE P(i) == /\ i <= Len(a) => a[i] = n
                     /\ \A j \in 1 .. i - 1 : a[j] # n
  <2>1. k \in 1 .. Len(a) + 1 /\ P(k)
    <3>1. \A j \in 1 .. k - 1 : j \in 1 .. Len(s) /\ j # k
      BY <1>1
    <3>2. QED
      BY <1>1, <1>2, <3>1
  <2>2. \A i \in 1 .. Len(a) + 1 : P(i) => i = k
    <3> TAKE i \in 1 .. Len(a) + 1
    <3> HAVE P(i)
    <3>1. CASE i < k
      <4>1. i \in 1 .. Len(s) /\ i <= Len(a)
        BY <1>1, <1>2, <3>1
      <4>2. QED
        BY <1>1, <1>2, <3>1, <4>1
    <3>2. CASE i > k
      <4>1. k \in 1 .. i - 1
        BY <1>1, <1>2, <3>2
      <4>2. QED
        BY <1>1, <1>2, <4>1
    <3>3. QED
      BY <1>1, <1>2, <3>1, <3>2
  <2>3. QED
    BY <2>1, <2>2 DEF ChildIndex
<1>4. IsRemoved(a, k, ChildRemoved(a, n))
  BY <1>1, <1>2, <1>3, RemoveAtIs DEF ChildRemoved
<1>5. IsRemoved(s, k, ChildRemoved(s, n))
  BY <1>1, RemoveAtIs DEF ChildRemoved, k
<1> DEFINE p == ChildRemoved(a, n)
           q == ChildRemoved(s, n)
<1>6. /\ p \in Seq(Node) /\ Len(p) = Len(s)
      /\ \A i \in 1 .. Len(s) : p[i] = IF i < k THEN a[i] ELSE a[i + 1]
  <2>1. /\ p \in Seq(Node) /\ Len(p) = Len(a) - 1
        /\ \A i \in 1 .. Len(a) - 1 : p[i] = IF i < k THEN a[i] ELSE a[i + 1]
    BY <1>4 DEF IsRemoved
  <2> HIDE DEF p
  <2>2. Len(a) - 1 = Len(s)
    BY <1>1, <1>2
  <2>3. QED
    BY <2>1, <2>2
<1>7. /\ q \in Seq(Node) /\ Len(q) = Len(s) - 1
      /\ \A i \in 1 .. Len(s) - 1 : q[i] = IF i < k THEN s[i] ELSE s[i + 1]
  BY <1>5 DEF IsRemoved
<1> HIDE DEF p, q
<1>8. /\ Append(q, n) \in Seq(Node) /\ Len(Append(q, n)) = Len(s)
      /\ \A i \in 1 .. Len(s) - 1 : Append(q, n)[i] = q[i]
      /\ Append(q, n)[Len(s)] = n
  <2>1. /\ Append(q, n) \in Seq(Node) /\ Len(Append(q, n)) = Len(q) + 1
        /\ \A i \in 1 .. Len(q) : Append(q, n)[i] = q[i]
        /\ Append(q, n)[Len(q) + 1] = n
    BY <1>1, <1>7, AppendProperties
  <2>2. Len(q) + 1 = Len(s)
    BY <1>1, <1>7
  <2>3. QED
    BY <1>7, <2>1, <2>2
<1>9. \A i \in 1 .. Len(s) : p[i] = Append(q, n)[i]
  <2> TAKE i \in 1 .. Len(s)
  <2>1. CASE i = Len(s)
    BY <1>1, <1>2, <1>6, <1>8, <2>1
  <2>2. CASE i < k
    <3>1. i \in 1 .. Len(s) - 1
      BY <1>1, <2>2
    <3>2. p[i] = a[i] /\ a[i] = s[i]
      BY <1>2, <1>6, <2>2
    <3>3. Append(q, n)[i] = q[i] /\ q[i] = s[i]
      BY <1>7, <1>8, <2>2, <3>1
    <3>4. QED
      BY <3>2, <3>3
  <2>3. CASE i >= k /\ i < Len(s)
    <3>1. i \in 1 .. Len(s) - 1 /\ i + 1 \in 1 .. Len(s) /\ ~ (i < k)
      BY <1>1, <2>3
    <3>2. QED
      BY <1>2, <1>6, <1>7, <1>8, <3>1
  <2>4. i = Len(s) \/ i < k \/ (i >= k /\ i < Len(s))
    BY <1>1
  <2>5. QED
    BY <2>1, <2>2, <2>3, <2>4
<1>10. p = Append(q, n)
  BY <1>6, <1>8, <1>9, SeqEqual
<1>11. QED
  BY <1>10 DEF a, p, q

\* Two elements change places (swap_impl2 on one node).
LEMMA ExchangeSet ==
  ASSUME NEW s \in Seq(Node), IsInjective(s), NEW i \in 1 .. Len(s), NEW j \in 1 .. Len(s)
  PROVE  LET r == ReplaceAt(ReplaceAt(s, i, s[j]), j, s[i])
         IN r \in Seq(Node) /\ IsInjective(r) /\ ToSet(r) = ToSet(s) /\ Len(r) = Len(s)
<1> DEFINE r == ReplaceAt(ReplaceAt(s, i, s[j]), j, s[i])
           Place(k) == IF k = j THEN i ELSE IF k = i THEN j ELSE k
<1>1. /\ Len(s) \in Nat
      /\ \A k \in 1 .. Len(s) : s[k] \in Node
      /\ \A x : x \in ToSet(s) <=> \E k \in 1 .. Len(s) : s[k] = x
      /\ \A k, l \in 1 .. Len(s) : s[k] = s[l] => k = l
  BY SeqBasics
<1>2. /\ r \in Seq(Node) /\ Len(r) = Len(s)
      /\ \A k \in 1 .. Len(s) : r[k] = s[Place(k)]
  <2>1. PICK q \in Seq(Node) : q = ReplaceAt(s, i, s[j])
    BY <1>1, ExceptSeq DEF ReplaceAt
  <2>2. Len(q) = Len(s) /\ \A k \in 1 .. Len(s) : q[k] = IF k = i THEN s[j] ELSE s[k]
    BY <1>1, <2>1, ExceptSeq DEF ReplaceAt
  <2>3. /\ ReplaceAt(q, j, s[i]) \in Seq(Node) /\ Len(ReplaceAt(q, j, s[i])) = Len(s)
        /\ \A k \in 1 .. Len(s) : ReplaceAt(q, j, s[i])[k] = IF k = j THEN s[i] ELSE q[k]
    BY <1>1, <2>2, ExceptSeq DEF ReplaceAt
  <2>4. QED
    BY <2>1, <2>2, <2>3
<1> HIDE DEF r
<1>3. /\ IsInjective(r) <=> \A k, l \in 1 .. Len(s) : r[k] = r[l] => k = l
      /\ \A x : x \in ToSet(r) <=> \E k \in 1 .. Len(s) : r[k] = x
  <2>1. /\ IsInjective(r) <=> \A k, l \in 1 .. Len(r) : r[k] = r[l] => k = l
        /\ \A x : x \in ToSet(r) <=> \E k \in 1 .. Len(r) : r[k] = x
    BY <1>2, SeqBasics
  <2>2. QED
    BY <1>2, <2>1
<1>4. \A k \in 1 .. Len(s) : Place(k) \in 1 .. Len(s) /\ Place(Place(k)) = k
  OBVIOUS
<1>5. ASSUME NEW k \in 1 .. Len(s), NEW l \in 1 .. Len(s), r[k] = r[l]
      PROVE  k = l
  <2>1. Place(k) = Place(l)
    BY <1>1, <1>2, <1>4, <1>5
  <2>2. QED
    BY <1>4, <2>1
<1>6. ASSUME NEW x \in ToSet(s) PROVE x \in ToSet(r)
  <2>1. PICK k \in 1 .. Len(s) : s[k] = x
    BY <1>1, <1>6
  <2>2. r[Place(k)] = x /\ Place(k) \in 1 .. Len(s)
    BY <1>2, <1>4, <2>1
  <2> HIDE DEF Place
  <2>3. QED
    BY <1>3, <2>2
<1>7. ASSUME NEW x \in ToSet(r) PROVE x \in ToSet(s)
  <2>1. PICK k \in 1 .. Len(s) : r[k] = x
    BY <1>3, <1>7
  <2>2. s[Place(k)] = x /\ Place(k) \in 1 .. Len(s)
    BY <1>2, <1>4, <2>1
  <2> HIDE DEF Place
  <2>3. QED
    BY <1>1, <2>2
<1>8. QED
  BY <1>2, <1>3, <1>5, <1>6, <1>7 DEF r

\* The children of a copy.
LEMMA MappedSet ==
  ASSUME NEW s \in Seq(Node), IsInjective(s), NEW D, NEW f \in [D -> Node], IsInjective(f),
         ToSet(s) \subseteq D
  PROVE  LET r == [i \in DOMAIN s |-> f[s[i]]]
         IN r \in Seq(Node) /\ IsInjective(r) /\ ToSet(r) = {f[m] : m \in ToSet(s)}
            /\ Len(r) = Len(s)
<1> DEFINE r == [i \in DOMAIN s |-> f[s[i]]]
<1>1. /\ Len(s) \in Nat /\ DOMAIN s = 1 .. Len(s)
      /\ \A k \in 1 .. Len(s) : s[k] \in ToSet(s) /\ s[k] \in D
      /\ \A x : x \in ToSet(s) <=> \E k \in 1 .. Len(s) : s[k] = x
      /\ \A k, l \in 1 .. Len(s) : s[k] = s[l] => k = l
  BY SeqBasics
<1>2. /\ r \in [1 .. Len(s) -> Node]
      /\ \A k \in 1 .. Len(s) : r[k] = f[s[k]]
  BY <1>1
<1> HIDE DEF r
<1>3. r \in Seq(Node) /\ Len(r) = Len(s)
  BY <1>1, <1>2
<1>4. /\ IsInjective(r) <=> \A k, l \in 1 .. Len(s) : r[k] = r[l] => k = l
      /\ \A x : x \in ToSet(r) <=> \E k \in 1 .. Len(s) : r[k] = x
  <2>1. /\ IsInjective(r) <=> \A k, l \in 1 .. Len(r) : r[k] = r[l] => k = l
        /\ \A x : x \in ToSet(r) <=> \E k \in 1 .. Len(r) : r[k] = x
    BY <1>3, SeqBasics
  <2>2. QED
    BY <1>3, <2>1
<1>5. \A k, l \in D : f[k] = f[l] => k = l
  BY DEF IsInjective
<1>6. IsInjective(r)
  BY <1>1, <1>2, <1>4, <1>5
<1>7. ToSet(r) = {f[m] : m \in ToSet(s)}
  BY <1>1, <1>2, <1>4
<1>8. QED
  BY <1>3, <1>6, <1>7 DEF r

-----------------------------------------------------------------------------
(* The links.                                                                *)

Dual(ch, par) ==
  /\ \A h \in Holder : IsInjective(ch[h])
  /\ \A n \in Node, h \in Holder : n \in ToSet(ch[h]) <=> par[n] = h

Ends(par) == \A S \in SUBSET Node : (\A n \in S : par[n] \in S) => S = {}

Links(ch, par, U) ==
  /\ ch \in [Holder -> Seq(Node)]
  /\ par \in [Node -> Holder \cup {Null}]
  /\ Dual(ch, par)
  /\ \A n \in Node \ U : par[n] = Null => ch[n] = <<>>
  /\ Ends(par)
  /\ \A h \in Holder : Len(ch[h]) <= Capacity(h)

\* The nodes of B with all that is below them.
DownClosed(ch, B) == B \subseteq Node /\ \A m \in B : ToSet(ch[m]) \subseteq B

-----------------------------------------------------------------------------
\* A header is no node, and nullptr neither.
LEMMA HolderFacts ==
  /\ Node \subseteq Holder /\ Tree \subseteq Holder
  /\ Null \notin Node /\ Null \notin Tree /\ Null \notin Holder /\ Null \notin Value
  /\ \A h \in Holder : h \in Tree \/ h \in Node
  /\ \A t \in Tree : t \notin Node
  /\ MaxArity \in Nat \ {0}
BY TreeBaseAssumption DEF Holder

\* The elements of a sequence of nodes are nodes.
LEMMA ElementsAreNodes ==
  ASSUME NEW s \in Seq(Node)
  PROVE  ToSet(s) \subseteq Node
BY SeqBasics

\* The empty sequence is the only one without elements.
LEMMA NoElements ==
  ASSUME NEW s \in Seq(Node)
  PROVE  ToSet(s) = {} <=> s = <<>>
<1>1. /\ Len(s) \in Nat
      /\ \A i \in 1 .. Len(s) : s[i] \in ToSet(s)
      /\ \A x : x \in ToSet(s) <=> \E i \in 1 .. Len(s) : s[i] = x
  BY SeqBasics
<1>2. s = <<>> <=> Len(s) = 0
  BY EmptySeq
<1>3. CASE Len(s) = 0
  BY <1>1, <1>2, <1>3
<1>4. CASE Len(s) # 0
  <2>1. 1 \in 1 .. Len(s)
    BY <1>1, <1>4
  <2>2. QED
    BY <1>1, <1>2, <1>4, <2>1
<1>5. QED
  BY <1>3, <1>4

\* A childless holder.
LEMMA EmptyChildren ==
  <<>> \in Seq(Node) /\ ToSet(<<>>) = {} /\ IsInjective(<<>>) /\ Len(<<>>) = 0
<1>1. PICK s \in Seq(Node) : s = <<>> /\ Len(s) = 0
  BY EmptySeq
<1>2. ToSet(s) = {}
  BY <1>1, NoElements
<1>3. \A i \in 1 .. Len(s) : FALSE
  BY <1>1
<1>4. IsInjective(s)
  BY <1>3, SeqBasics
<1>5. QED
  BY <1>1, <1>2, <1>4

\* The subtree under n is the least set that holds n and is closed downwards.
LEMMA DescFacts ==
  ASSUME NEW ch \in [Holder -> Seq(Node)], NEW n \in Node
  PROVE  /\ n \in Desc(ch, n)
         /\ DownClosed(ch, Desc(ch, n))
         /\ \A S : DownClosed(ch, S) /\ n \in S => Desc(ch, n) \subseteq S
<1>1. \A m \in Node : m \in Desc(ch, n) <=> \A S \in Closed(ch, n) : m \in S
  BY DEF Desc
<1>2. \A S : S \in Closed(ch, n) <=> DownClosed(ch, S) /\ n \in S
  BY DEF Closed, DownClosed
<1>3. Desc(ch, n) \subseteq Node
  BY DEF Desc
<1>4. n \in Desc(ch, n)
  BY <1>1, <1>2
<1>5. ASSUME NEW m \in Desc(ch, n), NEW x \in ToSet(ch[m])
      PROVE  x \in Desc(ch, n)
  <2>1. m \in Node /\ m \in Holder
    BY <1>3, HolderFacts
  <2>2. x \in Node
    BY <2>1, SeqBasics
  <2>3. ASSUME NEW S \in Closed(ch, n) PROVE x \in S
    BY <1>1, <1>2, <2>1 DEF DownClosed
  <2>4. QED
    BY <1>1, <2>2, <2>3
<1>6. DownClosed(ch, Desc(ch, n))
  BY <1>3, <1>5 DEF DownClosed
<1>7. ASSUME NEW S, DownClosed(ch, S), n \in S PROVE Desc(ch, n) \subseteq S
  BY <1>1, <1>2, <1>3, <1>7
<1>8. QED
  BY <1>4, <1>6, <1>7

\* A node below n other than n itself has its parent there.
LEMMA DescParent ==
  ASSUME NEW ch, NEW par, NEW U, Links(ch, par, U), NEW n \in Node,
         NEW m \in Desc(ch, n), m # n
  PROVE  par[m] \in Desc(ch, n)
<1> DEFINE S == {x \in Desc(ch, n) : x = n \/ par[x] \in Desc(ch, n)}
<1>1. /\ ch \in [Holder -> Seq(Node)]
      /\ \A x \in Node, h \in Holder : x \in ToSet(ch[h]) => par[x] = h
  BY DEF Links, Dual
<1>2. n \in S
  BY <1>1, DescFacts
<1>3. DownClosed(ch, Desc(ch, n))
  BY <1>1, DescFacts
<1>4. DownClosed(ch, S)
  <2>1. ASSUME NEW x \in S, NEW y \in ToSet(ch[x]) PROVE y \in S
    <3>1. x \in Desc(ch, n) /\ y \in Desc(ch, n) /\ x \in Holder /\ y \in Node
      BY <1>3, HolderFacts DEF DownClosed
    <3>2. QED
      BY <1>1, <3>1
  <2>2. S \subseteq Node
    BY <1>3 DEF DownClosed
  <2>3. QED
    BY <2>1, <2>2 DEF DownClosed
<1>5. Desc(ch, n) \subseteq S
  BY <1>1, <1>2, <1>4, DescFacts
<1>6. QED
  BY <1>5

\* Ends and the duality forbid a node to be below itself.
LEMMA ParentOutside ==
  ASSUME NEW ch, NEW par, NEW U, Links(ch, par, U), NEW n \in Node
  PROVE  par[n] \notin Desc(ch, n)
<1> SUFFICES ASSUME par[n] \in Desc(ch, n) PROVE FALSE
  OBVIOUS
<1>1. ch \in [Holder -> Seq(Node)] /\ Ends(par)
  BY DEF Links
<1>2. n \in Desc(ch, n) /\ Desc(ch, n) \in SUBSET Node
  BY <1>1, DescFacts DEF DownClosed
<1>3. \A m \in Desc(ch, n) : par[m] \in Desc(ch, n)
  BY DescParent
<1>4. QED
  BY <1>1, <1>2, <1>3 DEF Ends

\* Nodes may be hung elsewhere, together or one after the other, as long as no
\* new parent is below a moved node.
LEMMA Regraft ==
  ASSUME NEW ch, NEW par, NEW U, Links(ch, par, U),
         NEW B, DownClosed(ch, B), NEW M \in SUBSET B, NEW par2,
         \A m \in Node \ M : par2[m] = par[m],
         \A m \in M : par2[m] \notin B
  PROVE  Ends(par2)
<1> SUFFICES ASSUME NEW S \in SUBSET Node, \A n \in S : par2[n] \in S
             PROVE  S = {}
  BY DEF Ends
<1>1. /\ Ends(par) /\ B \subseteq Node
      /\ \A n \in Node, h \in Node : par[n] = h => n \in ToSet(ch[h])
  BY HolderFacts DEF Links, Dual, DownClosed
<1>2. ASSUME NEW m \in S \ B PROVE par[m] \in S \ B
  <2>1. par[m] \in S
    BY <1>1
  <2>2. CASE par[m] \in B
    BY <1>1, <1>2, <2>2 DEF DownClosed
  <2>3. QED
    BY <2>1, <2>2
<1>3. S \ B = {}
  BY <1>1, <1>2 DEF Ends
<1>4. S \cap M = {}
  BY <1>3
<1>5. \A m \in S : par[m] \in S
  BY <1>4
<1>6. QED
  BY <1>1, <1>5 DEF Ends

-----------------------------------------------------------------------------
\* Hanging n, a new node or a cut off subtree, below h.
LEMMA LinkKeeps ==
  ASSUME NEW ch, NEW par, NEW U, Links(ch, par, U),
         NEW n \in Node, par[n] = Null,
         NEW h \in Holder, h \in Tree \/ par[h] # Null \/ h \in U,
         NEW B, DownClosed(ch, B), n \in B, h \notin B,
         NEW s \in Seq(Node), IsInjective(s), ToSet(s) = ToSet(ch[h]) \cup {n},
         Len(s) <= Capacity(h)
  PROVE  Links([ch EXCEPT ![h] = s], [par EXCEPT ![n] = h], U \ {n})
<1> DEFINE ch2 == [ch EXCEPT ![h] = s]
           par2 == [par EXCEPT ![n] = h]
<1>1. /\ ch \in [Holder -> Seq(Node)]
      /\ par \in [Node -> Holder \cup {Null}]
      /\ \A m \in Holder : IsInjective(ch[m]) /\ Len(ch[m]) <= Capacity(m)
      /\ \A m \in Node, g \in Holder : m \in ToSet(ch[g]) <=> par[m] = g
      /\ \A m \in Node \ U : par[m] = Null => ch[m] = <<>>
  BY DEF Links, Dual
<1>2. /\ ch2 \in [Holder -> Seq(Node)] /\ par2 \in [Node -> Holder \cup {Null}]
      /\ ch2[h] = s /\ par2[n] = h
      /\ \A g \in Holder : g # h => ch2[g] = ch[g]
      /\ \A m \in Node : m # n => par2[m] = par[m]
  BY <1>1
<1> HIDE DEF ch2, par2
<1>3. Dual(ch2, par2)
  <2>1. \A g \in Holder : IsInjective(ch2[g])
    BY <1>1, <1>2
  <2>2. ASSUME NEW m \in Node, NEW g \in Holder
        PROVE  m \in ToSet(ch2[g]) <=> par2[m] = g
    <3>1. CASE g = h
      BY <1>1, <1>2, <3>1
    <3>2. CASE g # h
      BY <1>1, <1>2, <3>2, HolderFacts
    <3>3. QED
      BY <3>1, <3>2
  <2>3. QED
    BY <2>1, <2>2 DEF Dual
<1>4. \A m \in Node \ (U \ {n}) : par2[m] = Null => ch2[m] = <<>>
  BY <1>1, <1>2, HolderFacts
<1>5. Ends(par2)
  <2>1. \A m \in Node \ {n} : par2[m] = par[m]
    BY <1>2
  <2>2. {n} \in SUBSET B /\ \A m \in {n} : par2[m] \notin B
    BY <1>2
  <2>3. QED
    BY <2>1, <2>2, Regraft
<1>6. \A g \in Holder : Len(ch2[g]) <= Capacity(g)
  BY <1>1, <1>2
<1>7. QED
  BY <1>2, <1>3, <1>4, <1>5, <1>6 DEF Links, ch2, par2

\* Cutting off n with all that is below it.
LEMMA UnlinkKeeps ==
  ASSUME NEW ch, NEW par, NEW U, Links(ch, par, U),
         NEW n \in Node, NEW g \in Holder, par[n] = g
  PROVE  /\ Links([ch EXCEPT ![g] = ChildRemoved(@, n)], [par EXCEPT ![n] = Null], U \cup {n})
         /\ ChildRemoved(ch[g], n) \in Seq(Node)
         /\ IsInjective(ChildRemoved(ch[g], n))
         /\ ToSet(ChildRemoved(ch[g], n)) = ToSet(ch[g]) \ {n}
         /\ Len(ChildRemoved(ch[g], n)) = Len(ch[g]) - 1
<1> DEFINE s == ChildRemoved(ch[g], n)
           ch2 == [ch EXCEPT ![g] = ChildRemoved(@, n)]
           par2 == [par EXCEPT ![n] = Null]
<1>1. /\ ch \in [Holder -> Seq(Node)]
      /\ par \in [Node -> Holder \cup {Null}]
      /\ \A m \in Holder : IsInjective(ch[m]) /\ Len(ch[m]) <= Capacity(m)
      /\ \A m \in Node, k \in Holder : m \in ToSet(ch[k]) <=> par[m] = k
      /\ \A m \in Node \ U : par[m] = Null => ch[m] = <<>>
  BY DEF Links, Dual
<1>2. /\ s \in Seq(Node) /\ IsInjective(s)
      /\ ToSet(s) = ToSet(ch[g]) \ {n} /\ Len(s) = Len(ch[g]) - 1
  BY <1>1, RemoveChildSet
<1> HIDE DEF s
<1>3. /\ ch2 \in [Holder -> Seq(Node)] /\ par2 \in [Node -> Holder \cup {Null}]
      /\ ch2[g] = s /\ par2[n] = Null
      /\ \A k \in Holder : k # g => ch2[k] = ch[k]
      /\ \A m \in Node : m # n => par2[m] = par[m]
  BY <1>1, <1>2 DEF s
<1> HIDE DEF ch2, par2
<1>4. Dual(ch2, par2)
  <2>1. \A k \in Holder : IsInjective(ch2[k])
    BY <1>1, <1>2, <1>3
  <2>2. ASSUME NEW m \in Node, NEW k \in Holder
        PROVE  m \in ToSet(ch2[k]) <=> par2[m] = k
    <3>1. CASE k = g
      BY <1>1, <1>2, <1>3, <3>1, HolderFacts
    <3>2. CASE k # g
      BY <1>1, <1>2, <1>3, <3>2, HolderFacts
    <3>3. QED
      BY <3>1, <3>2
  <2>3. QED
    BY <2>1, <2>2 DEF Dual
<1>5. ASSUME NEW m \in Node \ (U \cup {n}), par2[m] = Null
      PROVE  ch2[m] = <<>>
  <2>1. par[m] = Null /\ ch[m] = <<>> /\ m \in Holder
    BY <1>1, <1>3, <1>5, HolderFacts
  <2>2. m # g
    <3>1. n \in ToSet(ch[g])
      BY <1>1
    <3>2. ToSet(<<>>) = {}
      BY NoElements, EmptySeq
    <3>3. QED
      BY <2>1, <3>1, <3>2
  <2>3. QED
    BY <1>3, <2>1, <2>2
<1>6. Ends(par2)
  <2>1. DownClosed(ch, Node) /\ {n} \in SUBSET Node
    BY <1>1, HolderFacts, ElementsAreNodes DEF DownClosed
  <2>2. (\A m \in Node \ {n} : par2[m] = par[m]) /\ \A m \in {n} : par2[m] \notin Node
    BY <1>3, HolderFacts
  <2>3. QED
    BY <2>1, <2>2, Regraft
<1>7. ASSUME NEW k \in Holder PROVE Len(ch2[k]) <= Capacity(k)
  <2>1. Capacity(k) \in Nat
    BY HolderFacts DEF Capacity
  <2>2. Len(ch[k]) \in Nat /\ Len(s) \in Nat
    BY <1>1, <1>2, LenProperties
  <2>3. QED
    BY <1>1, <1>2, <1>3, <2>1, <2>2
<1>8. Links(ch2, par2, U \cup {n})
  BY <1>3, <1>4, <1>5, <1>6, <1>7 DEF Links
<1>9. QED
  BY <1>2, <1>8 DEF ch2, par2, s

\* Another order of the children of h.
LEMMA ReorderKeeps ==
  ASSUME NEW ch, NEW par, NEW U, Links(ch, par, U), NEW h \in Holder,
         NEW s \in Seq(Node), IsInjective(s), ToSet(s) = ToSet(ch[h]),
         Len(s) <= Capacity(h)
  PROVE  Links([ch EXCEPT ![h] = s], par, U)
<1> DEFINE ch2 == [ch EXCEPT ![h] = s]
<1>1. /\ ch \in [Holder -> Seq(Node)]
      /\ par \in [Node -> Holder \cup {Null}]
      /\ \A m \in Holder : IsInjective(ch[m]) /\ Len(ch[m]) <= Capacity(m)
      /\ \A m \in Node, k \in Holder : m \in ToSet(ch[k]) <=> par[m] = k
      /\ \A m \in Node \ U : par[m] = Null => ch[m] = <<>>
      /\ Ends(par)
  BY DEF Links, Dual
<1>2. /\ ch2 \in [Holder -> Seq(Node)] /\ ch2[h] = s
      /\ \A k \in Holder : k # h => ch2[k] = ch[k]
  BY <1>1
<1> HIDE DEF ch2
<1>3. Dual(ch2, par)
  <2>1. \A k \in Holder : ToSet(ch2[k]) = ToSet(ch[k]) /\ IsInjective(ch2[k])
    BY <1>1, <1>2
  <2>2. QED
    BY <1>1, <2>1 DEF Dual
<1>4. ASSUME NEW m \in Node \ U, par[m] = Null PROVE ch2[m] = <<>>
  <2>1. ch[m] = <<>> /\ m \in Holder
    BY <1>1, <1>4, HolderFacts
  <2>2. m = h => s = <<>>
    BY <2>1, NoElements, EmptySeq
  <2>3. QED
    BY <1>2, <2>1, <2>2
<1>5. \A k \in Holder : Len(ch2[k]) <= Capacity(k)
  BY <1>1, <1>2
<1>6. QED
  BY <1>1, <1>2, <1>3, <1>4, <1>5 DEF Links, ch2

\* The set D of all nodes below h, or below one child of h, hangs on h alone.
Cut(ch, par, D, h) ==
  /\ DownClosed(ch, D) /\ h \in Holder \ D
  /\ \A m \in D : par[m] \in D \cup {h}

\* Freeing D; s are the children that h keeps.
LEMMA FreeKeeps ==
  ASSUME NEW ch, NEW par, NEW U, Links(ch, par, U),
         NEW D, NEW h, Cut(ch, par, D, h),
         NEW s \in Seq(Node), IsInjective(s), ToSet(s) = ToSet(ch[h]) \ D,
         Len(s) <= Capacity(h)
  PROVE  Links(Freed([ch EXCEPT ![h] = s], D), Cleared(par, D), U \ D)
<1> DEFINE ch2 == Freed([ch EXCEPT ![h] = s], D)
           par2 == Cleared(par, D)
<1>1. /\ ch \in [Holder -> Seq(Node)]
      /\ par \in [Node -> Holder \cup {Null}]
      /\ \A m \in Holder : IsInjective(ch[m]) /\ Len(ch[m]) <= Capacity(m)
      /\ \A m \in Node, k \in Holder : m \in ToSet(ch[k]) <=> par[m] = k
      /\ \A m \in Node \ U : par[m] = Null => ch[m] = <<>>
  BY DEF Links, Dual
<1>2. /\ D \subseteq Node /\ h \in Holder /\ h \notin D
      /\ \A m \in D : ToSet(ch[m]) \subseteq D
      /\ \A m \in D : par[m] \in D \cup {h}
  BY DEF Cut, DownClosed
<1>3. <<>> \in Seq(Node) /\ ToSet(<<>>) = {} /\ IsInjective(<<>>) /\ Len(<<>>) = 0
  BY EmptyChildren
<1>4. /\ ch2 \in [Holder -> Seq(Node)] /\ par2 \in [Node -> Holder \cup {Null}]
      /\ ch2[h] = s
      /\ \A k \in D : ch2[k] = <<>>
      /\ \A k \in Holder \ D : k # h => ch2[k] = ch[k]
      /\ \A m \in D : par2[m] = Null
      /\ \A m \in Node \ D : par2[m] = par[m]
  BY <1>1, <1>2, <1>3, HolderFacts DEF Freed, Cleared
<1> HIDE DEF ch2, par2
<1>5. Dual(ch2, par2)
  <2>1. ASSUME NEW k \in Holder PROVE IsInjective(ch2[k])
    BY <1>1, <1>2, <1>3, <1>4
  <2>2. ASSUME NEW m \in Node, NEW k \in Holder
        PROVE  m \in ToSet(ch2[k]) <=> par2[m] = k
    <3>1. CASE k = h
      BY <1>1, <1>2, <1>4, <3>1, HolderFacts
    <3>2. CASE k \in D
      BY <1>1, <1>2, <1>3, <1>4, <3>2, HolderFacts
    <3>3. CASE k # h /\ k \notin D
      BY <1>1, <1>2, <1>4, <3>3, HolderFacts
    <3>4. QED
      BY <3>1, <3>2, <3>3
  <2>3. QED
    BY <2>1, <2>2 DEF Dual
<1>6. ASSUME NEW m \in Node \ (U \ D), par2[m] = Null PROVE ch2[m] = <<>>
  <2>1. CASE m \in D
    BY <1>4, <2>1
  <2>2. CASE m \notin D
    <3>1. ch[m] = <<>> /\ m \in Holder
      BY <1>1, <1>4, <1>6, <2>2, HolderFacts
    <3>2. m = h => s = <<>>
      BY <1>3, <3>1, NoElements
    <3>3. QED
      BY <1>4, <2>2, <3>1, <3>2
  <2>3. QED
    BY <2>1, <2>2
<1>7. Ends(par2)
  <2>1. DownClosed(ch, D) /\ D \in SUBSET D
    BY DEF Cut
  <2>2. (\A m \in Node \ D : par2[m] = par[m]) /\ \A m \in D : par2[m] \notin D
    BY <1>2, <1>4, HolderFacts
  <2>3. QED
    BY <2>1, <2>2, Regraft
<1>8. ASSUME NEW k \in Holder PROVE Len(ch2[k]) <= Capacity(k)
  <2>1. Capacity(k) \in Nat
    BY HolderFacts DEF Capacity
  <2>2. QED
    BY <1>1, <1>3, <1>4, <2>1
<1>9. QED
  BY <1>4, <1>5, <1>6, <1>7, <1>8 DEF Links, ch2, par2

\* What erase frees: the subtree of a child.
LEMMA DescIsCut ==
  ASSUME NEW ch, NEW par, NEW U, Links(ch, par, U), NEW n \in Node, par[n] # Null
  PROVE  /\ Cut(ch, par, Desc(ch, n), par[n])
         /\ ToSet(ch[par[n]]) \ Desc(ch, n) = ToSet(ch[par[n]]) \ {n}
<1>1. /\ ch \in [Holder -> Seq(Node)]
      /\ par \in [Node -> Holder \cup {Null}]
      /\ \A m \in Node, k \in Holder : m \in ToSet(ch[k]) <=> par[m] = k
  BY DEF Links, Dual
<1>2. /\ n \in Desc(ch, n) /\ DownClosed(ch, Desc(ch, n))
      /\ par[n] \in Holder /\ par[n] \notin Desc(ch, n)
      /\ \A m \in Desc(ch, n) : m # n => par[m] \in Desc(ch, n)
  BY <1>1, DescFacts, ParentOutside, DescParent
<1>3. Cut(ch, par, Desc(ch, n), par[n])
  BY <1>2 DEF Cut
<1>4. \A m \in ToSet(ch[par[n]]) : m \in Desc(ch, n) => m = n
  <2>1. ToSet(ch[par[n]]) \subseteq Node
    BY <1>1, <1>2, ElementsAreNodes
  <2>2. QED
    BY <1>1, <1>2, <2>1
<1>5. QED
  BY <1>2, <1>3, <1>4

\* What clear and assign free: all that is below a holder.
LEMMA BelowIsCut ==
  ASSUME NEW ch, NEW par, NEW U, Links(ch, par, U), NEW h \in Holder
  PROVE  /\ Cut(ch, par, Below(ch, h), h)
         /\ ToSet(ch[h]) \subseteq Below(ch, h)
<1>1. /\ ch \in [Holder -> Seq(Node)]
      /\ par \in [Node -> Holder \cup {Null}]
      /\ \A m \in Node, k \in Holder : m \in ToSet(ch[k]) <=> par[m] = k
      /\ ToSet(ch[h]) \subseteq Node
  BY ElementsAreNodes DEF Links, Dual
<1>2. \A m : m \in Below(ch, h) <=> \E n \in ToSet(ch[h]) : m \in Desc(ch, n)
  BY DEF Below
<1>3. \A n \in ToSet(ch[h]) : n \in Desc(ch, n) /\ DownClosed(ch, Desc(ch, n)) /\ par[n] = h
  BY <1>1, DescFacts
<1>4. DownClosed(ch, Below(ch, h))
  BY <1>2, <1>3 DEF DownClosed
<1>5. ASSUME NEW m \in Below(ch, h) PROVE par[m] \in Below(ch, h) \cup {h}
  <2>1. PICK n \in ToSet(ch[h]) : m \in Desc(ch, n)
    BY <1>2, <1>5
  <2>2. n \in Node /\ par[n] = h
    BY <1>1, <1>3, <2>1
  <2>3. CASE m = n
    BY <2>2, <2>3
  <2>4. CASE m # n
    BY <1>2, <2>1, <2>2, <2>4, DescParent
  <2>5. QED
    BY <2>3, <2>4
<1>6. h \notin Below(ch, h)
  <2> SUFFICES ASSUME h \in Below(ch, h) PROVE FALSE
    OBVIOUS
  <2>1. PICK n \in ToSet(ch[h]) : h \in Desc(ch, n)
    BY <1>2
  <2>2. n \in Node /\ par[n] = h
    BY <1>1, <1>3, <2>1
  <2>3. QED
    BY <2>1, <2>2, ParentOutside
<1>7. QED
  BY <1>2, <1>3, <1>4, <1>5, <1>6 DEF Cut

-----------------------------------------------------------------------------
\* What f hangs below f[s]: the copies of the nodes of D other than s.
Copies(f, D, s) == {f[m] : m \in D \ {s}}

\* f maps the subtree D under s to childless nodes, f[s] being in place and the
\* others not yet linked.
CopyMap(ch, par, U, D, s, f) ==
  /\ DownClosed(ch, D) /\ s \in D /\ par[s] \notin D
  /\ \A m \in D \ {s} : par[m] \in D
  /\ f \in [D -> Node] /\ IsInjective(f)
  /\ ch[f[s]] = <<>> /\ par[f[s]] # Null
  /\ \A m \in D \ {s} : par[f[m]] = Null /\ f[m] \notin U

\* Copying the nodes below s to below f[s].
LEMMA ReplicateKeeps ==
  ASSUME NEW ch, NEW par, NEW U, Links(ch, par, U),
         NEW D, NEW s, NEW f, CopyMap(ch, par, U, D, s, f)
  PROVE  Links(CopiedChildren(ch, f), CopiedParents(par, f, Copies(f, D, s)), U)
<1> DEFINE G == Copies(f, D, s)
           ch2 == CopiedChildren(ch, f)
           par2 == CopiedParents(par, f, G)
<1>1. /\ ch \in [Holder -> Seq(Node)]
      /\ par \in [Node -> Holder \cup {Null}]
      /\ \A m \in Holder : IsInjective(ch[m]) /\ Len(ch[m]) <= Capacity(m)
      /\ \A m \in Node, k \in Holder : m \in ToSet(ch[k]) <=> par[m] = k
      /\ \A m \in Node \ U : par[m] = Null => ch[m] = <<>>
      /\ Ends(par)
  BY DEF Links, Dual
<1>2. /\ D \subseteq Node /\ s \in D /\ par[s] \notin D
      /\ \A m \in D : ToSet(ch[m]) \subseteq D
      /\ \A m \in D \ {s} : par[m] \in D
      /\ f \in [D -> Node]
      /\ ch[f[s]] = <<>> /\ par[f[s]] # Null
      /\ \A m \in D \ {s} : par[f[m]] = Null /\ f[m] \notin U
  BY DEF CopyMap, DownClosed
<1>3. \A k, l \in D : f[k] = f[l] => k = l
  BY <1>2 DEF CopyMap, IsInjective
<1>4. /\ DOMAIN f = D /\ Range(f) = {f[m] : m \in D}
      /\ Range(f) = G \cup {f[s]} /\ f[s] \notin G
      /\ G \subseteq Node /\ f[s] \in Node
  BY <1>2, <1>3 DEF Range, Copies
<1>5. \A m \in D : Original(f, f[m]) = m
  BY <1>3, <1>4 DEF Original
<1>6. \A m \in D : ch[f[m]] = <<>> /\ f[m] \in Node /\ f[m] \in Holder
  BY <1>1, <1>2, HolderFacts
<1>7. ASSUME NEW m \in D
      PROVE  /\ ch2[f[m]] \in Seq(Node) /\ IsInjective(ch2[f[m]])
             /\ ToSet(ch2[f[m]]) = {f[k] : k \in ToSet(ch[m])}
             /\ Len(ch2[f[m]]) = Len(ch[m])
  <2>1. m \in Holder /\ ch[m] \in Seq(Node) /\ IsInjective(ch[m]) /\ ToSet(ch[m]) \subseteq D
    BY <1>1, <1>2, HolderFacts
  <2>2. ch2[f[m]] = [i \in DOMAIN ch[m] |-> f[ch[m][i]]]
    BY <1>4, <1>5, <1>6 DEF CopiedChildren
  <2>3. IsInjective(f)
    BY DEF CopyMap
  <2> DEFINE q == ch[m]
             r == [i \in DOMAIN q |-> f[q[i]]]
  <2>4. q \in Seq(Node) /\ IsInjective(q) /\ ToSet(q) \subseteq D
    BY <2>1
  <2> HIDE DEF q
  <2>5. r \in Seq(Node) /\ IsInjective(r) /\ ToSet(r) = {f[k] : k \in ToSet(q)} /\ Len(r) = Len(q)
    BY <1>2, <2>3, <2>4, MappedSet
  <2>6. ch2[f[m]] = r
    BY <2>2 DEF q
  <2> HIDE DEF ch2, r
  <2>7. QED
    BY <2>5, <2>6 DEF q
<1>8. \A k \in Holder \ Range(f) : ch2[k] = ch[k]
  BY DEF CopiedChildren
<1>9. ch2 \in [Holder -> Seq(Node)]
  <2>1. ch2 = [k \in Holder |-> ch2[k]]
    BY DEF CopiedChildren
  <2> HIDE DEF ch2
  <2>2. \A k \in Holder : ch2[k] \in Seq(Node)
    BY <1>1, <1>4, <1>7, <1>8
  <2>3. QED
    BY <2>1, <2>2
<1>10. \A m \in D \ {s} : par2[f[m]] = f[par[m]] /\ f[m] \in G
  BY <1>2, <1>4, <1>5 DEF CopiedParents, Copies
<1>11. \A m \in Node \ G : par2[m] = par[m]
  BY DEF CopiedParents
<1>12. \A n \in G : \E m \in D \ {s} : n = f[m]
  BY DEF Copies
<1>13. par2 \in [Node -> Holder \cup {Null}]
  <2>1. par2 = [m \in Node |-> par2[m]]
    BY DEF CopiedParents
  <2> HIDE DEF par2, G
  <2>2. \A m \in Node : par2[m] \in Holder \cup {Null}
    BY <1>1, <1>2, <1>6, <1>10, <1>11, <1>12
  <2>3. QED
    BY <2>1, <2>2
<1> HIDE DEF ch2, par2, G
<1>14. Dual(ch2, par2)
  <2>1. \A k \in Holder : IsInjective(ch2[k])
    BY <1>1, <1>4, <1>7, <1>8
  <2>2. ASSUME NEW m \in D, NEW n \in ToSet(ch2[f[m]]) PROVE par2[n] = f[m]
    <3>1. PICK y \in ToSet(ch[m]) : n = f[y]
      BY <1>7
    <3>2. y \in D /\ y \in Node /\ m \in Holder /\ par[y] = m
      BY <1>1, <1>2, <3>1, HolderFacts
    <3>3. y # s
      BY <1>2, <3>2
    <3>4. QED
      BY <1>10, <3>1, <3>2, <3>3
  <2>3. ASSUME NEW m \in D, NEW n \in Node, par2[n] = f[m]
        PROVE  n \in ToSet(ch2[f[m]])
    <3>1. CASE n \in G
      <4>1. PICK y \in D \ {s} : n = f[y]
        BY <1>12, <3>1
      <4>2. par[y] = m
        BY <1>2, <1>3, <1>10, <2>3, <4>1
      <4>3. y \in ToSet(ch[m])
        BY <1>1, <1>2, <4>1, <4>2, HolderFacts
      <4>4. QED
        BY <1>7, <4>1, <4>3
    <3>2. CASE n \notin G
      <4>1. n \in ToSet(ch[f[m]])
        BY <1>1, <1>6, <1>11, <2>3, <3>2
      <4>2. QED
        BY <1>6, <4>1, EmptyChildren
    <3>3. QED
      BY <3>1, <3>2
  <2>4. ASSUME NEW n \in Node, NEW k \in Holder \ Range(f)
        PROVE  n \in ToSet(ch2[k]) <=> par2[n] = k
    <3>1. CASE n \in G
      <4>1. PICK m \in D \ {s} : n = f[m]
        BY <1>12, <3>1
      <4>2. par2[n] \in Range(f) /\ par[n] = Null
        BY <1>2, <1>4, <1>10, <4>1
      <4>3. n \notin ToSet(ch[k])
        BY <1>1, <4>2, HolderFacts
      <4>4. QED
        BY <1>8, <4>2, <4>3
    <3>2. CASE n \notin G
      BY <1>1, <1>8, <1>11, <3>2
    <3>3. QED
      BY <3>1, <3>2
  <2>5. ASSUME NEW n \in Node, NEW k \in Holder
        PROVE  n \in ToSet(ch2[k]) <=> par2[n] = k
    BY <1>4, <2>2, <2>3, <2>4
  <2>6. QED
    BY <2>1, <2>5 DEF Dual
<1>15. ASSUME NEW n \in Node \ U, par2[n] = Null PROVE ch2[n] = <<>>
  <2>1. n \notin G
    BY <1>2, <1>6, <1>10, <1>12, <1>15, HolderFacts
  <2>2. par[n] = Null /\ ch[n] = <<>>
    BY <1>1, <1>11, <1>15, <2>1
  <2>3. n \notin Range(f)
    BY <1>2, <1>4, <2>1, <2>2
  <2>4. QED
    BY <1>8, <2>2, <2>3, HolderFacts
<1>16. Ends(par2)
  <2> SUFFICES ASSUME NEW S \in SUBSET Node, \A n \in S : par2[n] \in S
               PROVE  S = {}
    BY DEF Ends
  <2>1. ASSUME NEW m \in S \ G PROVE par[m] \in S \ G
    <3>1. par[m] \in S
      BY <1>11, <2>1
    <3>2. ASSUME par[m] \in G PROVE FALSE
      <4>1. PICK k \in D \ {s} : par[m] = f[k]
        BY <1>12, <3>2
      <4>2. m \in ToSet(ch[f[k]])
        BY <1>1, <1>6, <4>1
      <4>3. QED
        BY <1>6, <4>2, EmptyChildren
    <3>3. QED
      BY <3>1, <3>2
  <2>2. S \subseteq G
    <3>1. (S \ G) \in SUBSET Node
      OBVIOUS
    <3>2. S \ G = {}
      BY <1>1, <2>1, <3>1 DEF Ends
    <3>3. QED
      BY <3>2
  <2> DEFINE T == {m \in D \ {s} : f[m] \in S}
  <2>3. ASSUME NEW m \in T PROVE par[m] \in T
    <3>1. f[par[m]] \in S /\ f[par[m]] \in G /\ par[m] \in D
      BY <1>2, <1>10, <2>2
    <3>2. par[m] # s
      BY <1>4, <3>1
    <3>3. QED
      BY <3>1, <3>2
  <2>4. T = {}
    <3>1. T \in SUBSET Node
      BY <1>2
    <3> HIDE DEF T
    <3>2. QED
      BY <1>1, <2>3, <3>1 DEF Ends
  <2>5. QED
    BY <1>12, <2>2, <2>4
<1>17. ASSUME NEW k \in Holder PROVE Len(ch2[k]) <= Capacity(k)
  <2>1. CASE k \in Range(f)
    <3>1. PICK m \in D : k = f[m]
      BY <1>4, <2>1
    <3>2. m \in Node /\ k \in Node /\ Capacity(k) = Capacity(m)
      BY <1>2, <1>6, <3>1, HolderFacts DEF Capacity
    <3>3. QED
      BY <1>1, <1>7, <3>1, <3>2, HolderFacts
  <2>2. CASE k \notin Range(f)
    BY <1>1, <1>8, <2>2
  <2>3. QED
    BY <2>1, <2>2
<1>18. QED
  BY <1>9, <1>13, <1>14, <1>15, <1>16, <1>17 DEF Links, ch2, par2, G

-----------------------------------------------------------------------------
(* The inductive invariant, composed edits, and the memory.                  *)

\* The inductive invariant: in terms of the model's own invariants it is
\* TypeOK, LinksConsistent and ParentsEnd together, and the limits of arity.
Unlinked(par, alloc) == \A n \in Node \ alloc : par[n] = Null

IInv ==
  /\ TypeOK
  /\ Links(children, parent, {})
  /\ Unlinked(parent, allocated)

\* h is a header or hangs in a tree.
Hung(par, h) == h \in Tree \/ (h \in Node /\ par[h] # Null)

-----------------------------------------------------------------------------
(* Composed edits.                                                          *)

\* The children of a node with one child.
LEMMA OneChild ==
  ASSUME NEW n \in Node
  PROVE  <<n>> \in Seq(Node) /\ ToSet(<<n>>) = {n} /\ IsInjective(<<n>>) /\ Len(<<n>>) = 1
<1>1. /\ Append(<<>>, n) \in Seq(Node) /\ IsInjective(Append(<<>>, n))
      /\ ToSet(Append(<<>>, n)) = {} \cup {n} /\ Len(Append(<<>>, n)) = 0 + 1
  BY EmptyChildren, AppendSet
<1>2. Append(<<>>, n) = <<n>>
  OBVIOUS
<1>3. QED
  BY <1>1, <1>2

\* A new node is hung in as a leaf.
LEMMA LinkLeaf ==
  ASSUME NEW ch, NEW par, NEW U, Links(ch, par, U),
         NEW n \in Node \ U, par[n] = Null,
         NEW h, Hung(par, h),
         NEW s \in Seq(Node), IsInjective(s), ToSet(s) = ToSet(ch[h]) \cup {n},
         Len(s) <= Capacity(h)
  PROVE  Links([ch EXCEPT ![h] = s], [par EXCEPT ![n] = h], U)
<1>1. h \in Holder /\ h # n /\ (h \in Tree \/ par[h] # Null)
  BY HolderFacts DEF Hung
<1>2. ch[n] = <<>>
  BY DEF Links
<1>3. DownClosed(ch, {n})
  BY <1>2, EmptyChildren DEF DownClosed
<1>4. U \ {n} = U
  OBVIOUS
<1>5. Links([ch EXCEPT ![h] = s], [par EXCEPT ![n] = h], U \ {n})
  BY <1>1, <1>3, LinkKeeps
<1>6. QED
  BY <1>4, <1>5

\* The subtree under n moves from g to h.
LEMMA MoveKeeps ==
  ASSUME NEW ch, NEW par, Links(ch, par, {}),
         NEW n \in Node, NEW g \in Holder, par[n] = g,
         NEW h, Hung(par, h), h \notin Desc(ch, n),
         NEW rem, rem = [ch EXCEPT ![g] = ChildRemoved(@, n)],
         NEW s \in Seq(Node), IsInjective(s), ToSet(s) = ToSet(rem[h]) \cup {n},
         Len(s) <= Capacity(h)
  PROVE  Links([rem EXCEPT ![h] = s], [par EXCEPT ![n] = h], {})
<1> DEFINE par1 == [par EXCEPT ![n] = Null]
           B == Desc(ch, n)
<1>1. Links(rem, par1, {} \cup {n})
  BY UnlinkKeeps
<1>2. /\ ch \in [Holder -> Seq(Node)] /\ par \in [Node -> Holder \cup {Null}]
      /\ n \in B /\ DownClosed(ch, B) /\ g \notin B /\ h \notin B
  BY DescFacts, ParentOutside DEF Links
<1>3. \A m \in Holder : m # g => rem[m] = ch[m]
  BY <1>2
<1>4. DownClosed(rem, B)
  BY <1>2, <1>3, HolderFacts DEF DownClosed
<1>5. h \in Holder /\ (h \in Tree \/ par1[h] # Null) /\ par1[n] = Null
  BY <1>2, HolderFacts DEF Hung
<1>6. Links([rem EXCEPT ![h] = s], [par1 EXCEPT ![n] = h], ({} \cup {n}) \ {n})
  <2> HIDE DEF par1, B
  <2>1. QED
    BY <1>1, <1>2, <1>4, <1>5, LinkKeeps
<1>7. [par1 EXCEPT ![n] = h] = [par EXCEPT ![n] = h]
  BY <1>2
<1>8. ({} \cup {n}) \ {n} = {}
  OBVIOUS
<1>9. QED
  BY <1>6, <1>7, <1>8

\* Clearing h.
LEMMA FreeBelowKeeps ==
  ASSUME NEW ch, NEW par, Links(ch, par, {}), NEW h \in Holder
  PROVE  /\ Links(Freed([ch EXCEPT ![h] = <<>>], Below(ch, h)), Cleared(par, Below(ch, h)), {})
         /\ Below(ch, h) \subseteq Node /\ h \notin Below(ch, h)
         /\ \A m \in Below(ch, h) : par[m] \in Below(ch, h) \cup {h}
<1> DEFINE D == Below(ch, h)
<1>1. Cut(ch, par, D, h) /\ ToSet(ch[h]) \subseteq D
  BY BelowIsCut
<1>2. ToSet(<<>>) = ToSet(ch[h]) \ D /\ Len(<<>>) <= Capacity(h)
  BY <1>1, EmptyChildren, HolderFacts DEF Capacity
<1>3. {} \ D = {}
  OBVIOUS
<1> HIDE DEF D
<1>4. Links(Freed([ch EXCEPT ![h] = <<>>], D), Cleared(par, D), {} \ D)
  BY <1>1, <1>2, EmptyChildren, FreeKeeps
<1>5. QED
  BY <1>1, <1>3, <1>4 DEF D, Cut, DownClosed

-----------------------------------------------------------------------------
(* Copies.                                                                  *)

\* x, in place and childless, gets copies of what is below s.
LEMMA CopyIntoKeeps ==
  ASSUME NEW ch, NEW par, Links(ch, par, {}),
         NEW taken, Unlinked(par, taken),
         NEW x \in Node, par[x] # Null, ch[x] = <<>>, NEW s \in Node,
         NEW g \in Injection(Desc(ch, s) \ {s}, Node \ taken),
         NEW f, f = [m \in Desc(ch, s) |-> IF m = s THEN x ELSE g[m]]
  PROVE  /\ Links(CopiedChildren(ch, f), CopiedParents(par, f, Range(g)), {})
         /\ Unlinked(CopiedParents(par, f, Range(g)), taken \cup Range(g))
<1> DEFINE D == Desc(ch, s)
<1>1. /\ ch \in [Holder -> Seq(Node)] /\ s \in D /\ DownClosed(ch, D) /\ D \subseteq Node
      /\ par[s] \notin D
      /\ \A m \in D \ {s} : par[m] \in D
  BY DescFacts, DescParent, ParentOutside DEF Links, DownClosed
<1> HIDE DEF D
<1>2. /\ g \in [D \ {s} -> Node \ taken]
      /\ \A k, l \in D \ {s} : g[k] = g[l] => k = l
  BY DEF Injection, D, IsInjective
<1>3. /\ DOMAIN f = D /\ f[s] = x
      /\ \A m \in D \ {s} : f[m] = g[m]
      /\ f \in [D -> Node]
  BY <1>1, <1>2 DEF D
<1>4. \A m \in D \ {s} : par[f[m]] = Null
  BY <1>2, <1>3 DEF Unlinked
<1>5. \A k, l \in D : f[k] = f[l] => k = l
  BY <1>2, <1>3, <1>4
<1>6. IsInjective(f)
  BY <1>3, <1>5 DEF IsInjective
<1>7. CopyMap(ch, par, {}, D, s, f)
  BY <1>1, <1>3, <1>4, <1>6 DEF CopyMap
<1>8. Copies(f, D, s) = Range(g)
  BY <1>2, <1>3 DEF Copies, Range
<1>9. Links(CopiedChildren(ch, f), CopiedParents(par, f, Range(g)), {})
  BY <1>7, <1>8, ReplicateKeeps
<1>10. Unlinked(CopiedParents(par, f, Range(g)), taken \cup Range(g))
  BY DEF Unlinked, CopiedParents
<1>11. QED
  BY <1>9, <1>10

\* A copy of the subtree under s becomes the last child of h.
LEMMA CopyBelowKeeps ==
  ASSUME NEW ch, NEW par, Links(ch, par, {}),
         NEW taken, Unlinked(par, taken),
         NEW h, Hung(par, h), Len(ch[h]) < Capacity(h),
         NEW s \in Node, par[s] # Null, h \notin Desc(ch, s),
         NEW f \in Injection(Desc(ch, s), Node \ taken)
  PROVE  LET ch3 == [CopiedChildren(ch, f) EXCEPT ![h] = Append(ch[h], f[s])]
             par3 == [CopiedParents(par, f, Range(f) \ {f[s]}) EXCEPT ![f[s]] = h]
         IN Links(ch3, par3, {}) /\ Unlinked(par3, taken \cup Range(f))
<1> DEFINE D == Desc(ch, s)
           n == f[s]
           q == Append(ch[h], n)
           ch1 == [ch EXCEPT ![h] = q]
           par1 == [par EXCEPT ![n] = h]
           G == Range(f) \ {n}
           ch3 == [CopiedChildren(ch, f) EXCEPT ![h] = q]
           par3 == [CopiedParents(par, f, G) EXCEPT ![n] = h]
<1>1. /\ ch \in [Holder -> Seq(Node)] /\ par \in [Node -> Holder \cup {Null}]
      /\ s \in D /\ DownClosed(ch, D) /\ D \subseteq Node
      /\ par[s] \notin D
      /\ \A m \in D \ {s} : par[m] \in D
      /\ \A m \in Node, k \in Holder : m \in ToSet(ch[k]) <=> par[m] = k
      /\ \A m \in Node : par[m] = Null => ch[m] = <<>>
      /\ \A k \in Holder : IsInjective(ch[k])
      /\ h \in Holder /\ h \notin D
  BY DescFacts, DescParent, ParentOutside, HolderFacts DEF Links, Dual, DownClosed, Hung
<1>2. /\ f \in [D -> Node \ taken] /\ DOMAIN f = D
      /\ \A k, l \in D : f[k] = f[l] => k = l
      /\ n \in Node /\ Range(f) = {f[m] : m \in D}
  BY <1>1 DEF Injection, IsInjective, Range
<1> HIDE DEF D, n
<1>3. \A m \in D : f[m] \in Node /\ par[f[m]] = Null /\ ch[f[m]] = <<>>
  BY <1>1, <1>2 DEF Unlinked
<1>4. n = f[s]
  BY DEF n
<1>5. par[n] = Null /\ n # h /\ n # s /\ n \notin D
  BY <1>1, <1>3, <1>4, HolderFacts DEF Hung
<1>6. n \notin ToSet(ch[h])
  BY <1>1, <1>2, <1>5, HolderFacts
<1>7. /\ q \in Seq(Node) /\ IsInjective(q) /\ ToSet(q) = ToSet(ch[h]) \cup {n}
      /\ Len(q) <= Capacity(h)
  <2>1. /\ q \in Seq(Node) /\ IsInjective(q) /\ ToSet(q) = ToSet(ch[h]) \cup {n}
        /\ Len(q) = Len(ch[h]) + 1
    BY <1>1, <1>2, <1>6, AppendSet
  <2>2. Len(ch[h]) \in Nat /\ Capacity(h) \in Nat
    BY <1>1, LenProperties, HolderFacts DEF Capacity
  <2> HIDE DEF q
  <2>3. QED
    BY <2>1, <2>2
<1> HIDE DEF q
<1>8. Links(ch1, par1, {})
  BY <1>2, <1>5, <1>7, LinkLeaf
<1>9. /\ \A m \in Holder : m # h => ch1[m] = ch[m]
      /\ \A m \in Node : m # n => par1[m] = par[m]
      /\ ch1[h] = q /\ par1[n] = h
  BY <1>1, <1>2
<1> HIDE DEF ch1, par1
<1>10. CopyMap(ch1, par1, {}, D, s, f)
  <2>1. DownClosed(ch1, D) /\ s \in D /\ par1[s] \notin D /\ \A m \in D \ {s} : par1[m] \in D
    BY <1>1, <1>5, <1>9, HolderFacts DEF DownClosed
  <2>2. f \in [D -> Node] /\ IsInjective(f)
    BY <1>2 DEF IsInjective
  <2>3. ch1[f[s]] = <<>> /\ par1[f[s]] # Null
    BY <1>1, <1>3, <1>4, <1>5, <1>9, HolderFacts
  <2>4. \A m \in D \ {s} : par1[f[m]] = Null
    BY <1>1, <1>2, <1>3, <1>4, <1>9
  <2>5. QED
    BY <2>1, <2>2, <2>3, <2>4 DEF CopyMap
<1>11. Copies(f, D, s) = G
  BY <1>1, <1>2, <1>4 DEF Copies
<1>12. Links(CopiedChildren(ch1, f), CopiedParents(par1, f, G), {})
  BY <1>8, <1>10, <1>11, ReplicateKeeps
<1>13. \A m \in D : Original(f, f[m]) = m
  BY <1>2 DEF Original
<1>14. CopiedChildren(ch1, f) = ch3
  <2>1. ASSUME NEW k \in Holder PROVE CopiedChildren(ch1, f)[k] = ch3[k]
    <3>1. CASE k \in Range(f)
      <4>1. PICK m \in D : k = f[m]
        BY <1>2, <3>1
      <4>2. ch1[m] = ch[m] /\ k # h /\ Original(f, k) = m
        BY <1>1, <1>3, <1>9, <1>13, <4>1, HolderFacts DEF Hung
      <4>3. QED
        BY <3>1, <4>2 DEF CopiedChildren
    <3>2. CASE k \notin Range(f)
      BY <1>1, <1>9, <3>2 DEF CopiedChildren
    <3>3. QED
      BY <3>1, <3>2
  <2>2. CopiedChildren(ch1, f) = [k \in Holder |-> CopiedChildren(ch1, f)[k]]
    BY DEF CopiedChildren
  <2>3. ch3 = [k \in Holder |-> ch3[k]]
    BY DEF CopiedChildren
  <2> HIDE DEF ch3
  <2>4. QED
    BY <2>1, <2>2, <2>3
<1>15. CopiedParents(par1, f, G) = par3
  <2>1. ASSUME NEW k \in Node PROVE CopiedParents(par1, f, G)[k] = par3[k]
    <3>1. CASE k \in G
      <4>1. PICK m \in D : k = f[m]
        BY <1>2, <3>1
      <4>2. par1[m] = par[m] /\ Original(f, k) = m
        BY <1>1, <1>5, <1>9, <1>13, <4>1
      <4>3. QED
        BY <3>1, <4>2 DEF CopiedParents
    <3>2. CASE k \notin G
      BY <1>9, <3>2 DEF CopiedParents
    <3>3. QED
      BY <3>1, <3>2
  <2>2. CopiedParents(par1, f, G) = [k \in Node |-> CopiedParents(par1, f, G)[k]]
    BY DEF CopiedParents
  <2>3. par3 = [k \in Node |-> par3[k]]
    BY DEF CopiedParents
  <2> HIDE DEF par3
  <2>4. QED
    BY <2>1, <2>2, <2>3
<1>16. Unlinked(par3, taken \cup Range(f))
  BY <1>1, <1>2, <1>4 DEF Unlinked, CopiedParents
<1>17. QED
  BY <1>12, <1>14, <1>15, <1>16 DEF n, q

-----------------------------------------------------------------------------
(* What the invariant says of the arguments of an operation.                *)

LinkFacts ==
  /\ children \in [Holder -> Seq(Node)] /\ parent \in [Node -> Holder \cup {Null}]
  /\ \A n \in Node, h \in Holder : n \in ToSet(children[h]) <=> parent[n] = h
  /\ \A n \in Node : parent[n] = Null => children[n] = <<>>
  /\ \A h \in Holder : /\ IsInjective(children[h]) /\ Len(children[h]) \in Nat
                       /\ Len(children[h]) <= Capacity(h)
  /\ \A n \in Node : parent[n] # Null => n \in allocated /\ value[n] \in Value
  /\ \A n \in Node \ allocated : parent[n] = Null /\ value[n] = Null

\* The invariant, spelled out.
LEMMA InvFacts == IInv => LinkFacts
<1> SUFFICES ASSUME IInv PROVE LinkFacts
  OBVIOUS
<1>1. /\ children \in [Holder -> Seq(Node)] /\ parent \in [Node -> Holder \cup {Null}]
      /\ \A n \in Node, h \in Holder : n \in ToSet(children[h]) <=> parent[n] = h
      /\ \A n \in Node : parent[n] = Null => children[n] = <<>>
      /\ \A h \in Holder : IsInjective(children[h]) /\ Len(children[h]) <= Capacity(h)
  BY DEF IInv, Links, Dual
<1>2. \A h \in Holder : Len(children[h]) \in Nat
  BY <1>1, LenProperties
<1>3. \A n \in Node \ allocated : parent[n] = Null /\ value[n] = Null
  BY DEF IInv, Unlinked, TypeOK
<1>4. \A n \in Node : parent[n] # Null => n \in allocated /\ value[n] \in Value
  BY <1>3 DEF IInv, TypeOK
<1>5. QED
  BY <1>1, <1>2, <1>3, <1>4 DEF LinkFacts

\* p designates a node.
IsNodeAt(p) ==
  /\ p.m_node \in Holder /\ Hung(parent, p.m_node)
  /\ p.m_pos \in Nat /\ p.m_pos + 1 \in 1 .. Len(children[p.m_node]) /\ Valid(p)
  /\ NodeAt(children, p) \in Node /\ parent[NodeAt(children, p)] = p.m_node
  /\ NodeAt(children, p) \in ToSet(children[p.m_node])
  /\ value[NodeAt(children, p)] \in Value
  /\ p.m_node \notin Desc(children, NodeAt(children, p))
  /\ p.m_node \in Tree => IsRoot(p) /\ Len(children[p.m_node]) = 1

\* p is the place behind the last child of a holder that is not full.
IsEnd(p) ==
  /\ p.m_node \in Holder /\ Hung(parent, p.m_node) /\ ~Valid(p)
  /\ Len(children[p.m_node]) < Capacity(p.m_node)

\* What is reached from a header hangs in it.
LEMMA InTreeHung ==
  ASSUME IInv, NEW t \in Tree, NEW h \in NodesOf(t) \cup {t}
  PROVE  h \in Holder /\ Hung(parent, h)
<1>1. Links(children, parent, {})
  BY DEF IInv
<1>2. \A m \in NodesOf(t) : m \in Node /\ parent[m] \in NodesOf(t) \cup {t}
  BY <1>1, BelowIsCut, HolderFacts DEF NodesOf, Cut, DownClosed
<1>3. CASE h = t
  BY <1>3, HolderFacts DEF Hung
<1>4. CASE h \in NodesOf(t)
  <2>1. NodesOf(t) \subseteq Node
    BY <1>2
  <2>2. parent[h] # Null
    BY <1>2, <1>4, <2>1, HolderFacts
  <2>3. QED
    BY <1>4, <2>1, <2>2, HolderFacts DEF Hung
<1>5. QED
  BY <1>3, <1>4

\* A cursor at the i-th child of a hung holder designates a node.
LEMMA ChildCursor ==
  ASSUME IInv, NEW h, Hung(parent, h), NEW i \in 1 .. Len(children[h]),
         NEW p, p = Cursor(h, i - 1)
  PROVE  IsNodeAt(p)
<1>1. LinkFacts /\ h \in Holder /\ Links(children, parent, {})
  BY InvFacts, HolderFacts DEF Hung, IInv
<1>2. p.m_node = h /\ p.m_pos = i - 1
  BY DEF Cursor
<1>3. p.m_pos \in Nat /\ p.m_pos + 1 = i /\ Valid(p) /\ NodeAt(children, p) = children[h][i]
  BY <1>1, <1>2 DEF LinkFacts, Valid, NodeAt
<1>4. children[h][i] \in Node /\ children[h][i] \in ToSet(children[h])
  BY <1>1, SeqBasics DEF LinkFacts
<1>5. parent[children[h][i]] = h /\ value[children[h][i]] \in Value
  BY <1>1, <1>4, HolderFacts DEF LinkFacts
<1>6. h \notin Desc(children, children[h][i])
  BY <1>1, <1>4, <1>5, ParentOutside
<1>7. ASSUME h \in Tree PROVE i = 1 /\ Len(children[h]) = 1
  <2>1. Len(children[h]) \in Nat /\ Len(children[h]) <= 1
    BY <1>1, <1>7 DEF LinkFacts, Capacity
  <2>2. \A k \in Nat : k <= 1 /\ i \in 1 .. k => i = 1 /\ k = 1
    OBVIOUS
  <2>3. QED
    BY <2>1, <2>2
<1>8. h \in Tree => IsRoot(p) /\ Len(children[h]) = 1
  BY <1>2, <1>3, <1>7 DEF IsRoot
<1> HIDE DEF IsRoot, Valid, NodeAt, Hung
<1>9. QED
  BY <1>1, <1>2, <1>3, <1>4, <1>5, <1>6, <1>8 DEF IsNodeAt

\* The cursors of Next.
LEMMA CursorFacts ==
  ASSUME IInv, NEW t \in Tree
  PROVE  /\ \A p \in NodeCursors(t) : IsNodeAt(p)
         /\ \A p \in EmptyPlaces(t) : IsEnd(p)
         /\ \A p \in EndPlaces(t) : PastArray(p) \/ IsEnd(p)
<1>1. LinkFacts /\ \A h \in NodesOf(t) \cup {t} : h \in Holder /\ Hung(parent, h)
  BY InvFacts, InTreeHung
<1>2. ASSUME NEW p \in NodeCursors(t) PROVE IsNodeAt(p)
  <2>0. PICK h \in NodesOf(t) \cup {t} : p \in {Cursor(h, i - 1) : i \in DOMAIN children[h]}
    BY <1>2 DEF NodeCursors
  <2>1. PICK i \in DOMAIN children[h] : p = Cursor(h, i - 1)
    BY <2>0
  <2>2. Hung(parent, h) /\ i \in 1 .. Len(children[h])
    BY <1>1, <2>1, SeqBasics DEF LinkFacts
  <2>3. QED
    BY <2>1, <2>2, ChildCursor
<1>3. ASSUME NEW p \in EmptyPlaces(t) PROVE IsEnd(p)
  <2>1. PICK h \in NodesOf(t) \cup {t} : p = Cursor(h, 0) /\ children[h] = <<>>
    BY <1>3 DEF EmptyPlaces
  <2>2. p.m_node = h /\ p.m_pos = 0 /\ Len(children[h]) = 0
    BY <2>1, EmptyChildren DEF Cursor
  <2>3. ~Valid(p) /\ 0 < Capacity(h)
    BY <2>2, HolderFacts DEF Valid, Capacity
  <2>4. QED
    BY <1>1, <2>1, <2>2, <2>3 DEF IsEnd
<1>4. ASSUME NEW p \in EndPlaces(t), ~PastArray(p) PROVE IsEnd(p)
  <2>1. PICK h \in NodesOf(t) \cup {t} :
          p = Cursor(h, Len(children[h])) /\ (h = t => children[h] = <<>>)
    BY <1>4 DEF EndPlaces
  <2>2. /\ p.m_node = h /\ p.m_pos = Len(children[h]) /\ Len(children[h]) \in Nat
        /\ Len(children[h]) < MaxArity
    BY <1>1, <1>4, <2>1, HolderFacts DEF Cursor, LinkFacts, PastArray
  <2>3. ~Valid(p)
    BY <2>2 DEF Valid
  <2>4. Len(children[h]) < Capacity(h)
    <3>1. CASE h = t
      BY <2>1, <3>1, EmptyChildren DEF Capacity
    <3>2. CASE h \in NodesOf(t) /\ h # t
      <4>1. h \in Node
        BY <3>2, DescFacts, <1>1, SeqBasics DEF NodesOf, Below, Desc
      <4>2. QED
        BY <2>2, <4>1, HolderFacts DEF Capacity
    <3>3. QED
      BY <2>1, <3>1, <3>2
  <2>5. QED
    BY <1>1, <2>2, <2>3, <2>4 DEF IsEnd
<1>5. QED
  BY <1>2, <1>3, <1>4

-----------------------------------------------------------------------------
(* What the operations do to the memory.                                    *)

\* The size of a set of nodes is a number.
LEMMA NodeSets == \A S \in SUBSET Node : Cardinality(S) \in Nat
  BY FS_Subset, FS_CardinalityType, TreeBaseAssumption

\* A call that changes nothing but links and counters.
LEMMA RelinkKeeps ==
  ASSUME IInv, Links(children', parent', {}), Unlinked(parent', allocated),
         allocated' = allocated, value' = value, m_size' \in [Tree -> Int],
         thrown' \in [Tree -> Nat], outcome' \in {"ok", "max_size_error", "undefined"}
  PROVE  IInv'
<1>1. children' \in [Holder -> Seq(Node)] /\ parent' \in [Node -> Holder \cup {Null}]
  BY DEF Links
<1>2. TypeOK'
  BY <1>1 DEF IInv, TypeOK
<1>3. Links(children, parent, {})' /\ Unlinked(parent, allocated)'
  BY DEF Links, Dual, Ends, Unlinked
<1>4. QED
  BY <1>2, <1>3 DEF IInv

\* The dereference of a null pointer changes nothing.
LEMMA UndefinedKeeps == IInv /\ Undefined => IInv'
<1> SUFFICES ASSUME IInv, Undefined PROVE IInv'
  OBVIOUS
<1>1. Links(children', parent', {}) /\ Unlinked(parent', allocated)
  BY DEF IInv, Undefined
<1>2. QED
  BY <1>1, RelinkKeeps DEF IInv, TypeOK, Undefined

\* A call without effect.
LEMMA NothingKeeps ==
  IInv /\ Returns /\ UNCHANGED <<allocated, children, parent, value, m_size, thrown>> => IInv'
<1> SUFFICES ASSUME IInv, Returns, UNCHANGED <<allocated, children, parent, value, m_size, thrown>>
             PROVE IInv'
  OBVIOUS
<1>1. Links(children', parent', {}) /\ Unlinked(parent', allocated)
  BY DEF IInv
<1>2. QED
  BY <1>1, RelinkKeeps DEF IInv, TypeOK, Returns

\* A call that also allocates or frees: a holds what is allocated then.
LEMMA MemoryKeeps ==
  ASSUME IInv, Links(children', parent', {}), Unlinked(parent', allocated'),
         allocated' \subseteq Node, value' \in [Node -> Value \cup {Null}],
         \A n \in Node : n \in allocated' <=> value'[n] # Null,
         m_size' \in [Tree -> Int],
         thrown' \in [Tree -> Nat], outcome' \in {"ok", "max_size_error", "undefined"}
  PROVE  IInv'
<1>1. children' \in [Holder -> Seq(Node)] /\ parent' \in [Node -> Holder \cup {Null}]
  BY DEF Links
<1>2. TypeOK'
  BY <1>1 DEF TypeOK
<1>3. Links(children, parent, {})' /\ Unlinked(parent, allocated)'
  BY DEF Links, Dual, Ends, Unlinked
<1>4. QED
  BY <1>2, <1>3 DEF IInv

\* A node in no tree is left behind by an exception.
LEMMA ThrowsKeeps ==
  ASSUME IInv, NEW t \in Tree, NEW v \in Value, Throws(t, v)
  PROVE  IInv'
<1>1. PICK n \in Node \ allocated :
        allocated' = allocated \cup {n} /\ value' = [value EXCEPT ![n] = v]
  BY DEF Throws
<1>2. v # Null
  BY HolderFacts
<1>3. /\ value' \in [Node -> Value \cup {Null}] /\ allocated' \subseteq Node
      /\ \A m \in Node : m \in allocated' <=> value'[m] # Null
  BY <1>1, <1>2 DEF IInv, TypeOK
<1>4. /\ m_size' \in [Tree -> Int] /\ thrown' \in [Tree -> Nat]
      /\ outcome' \in {"ok", "max_size_error", "undefined"}
  BY DEF IInv, TypeOK, Throws
<1>5. Links(children', parent', {}) /\ Unlinked(parent', allocated')
  BY <1>1 DEF IInv, Throws, Unlinked
<1>6. QED
  BY <1>3, <1>4, <1>5, MemoryKeeps

\* One new node.
LEMMA CreatesKeeps ==
  ASSUME IInv, NEW t \in Tree, NEW v \in Value, NEW n \in Node \ allocated,
         NEW ch, NEW par, Creates(t, n, v, ch, par),
         Links(ch, par, {}), Unlinked(par, allocated \cup {n})
  PROVE  IInv'
<1>1. v # Null
  BY HolderFacts
<1>2. /\ value' \in [Node -> Value \cup {Null}] /\ allocated' \subseteq Node
      /\ \A m \in Node : m \in allocated' <=> value'[m] # Null
  BY <1>1 DEF IInv, TypeOK, Creates
<1>3. /\ m_size' \in [Tree -> Int] /\ thrown' \in [Tree -> Nat]
      /\ outcome' \in {"ok", "max_size_error", "undefined"}
  BY DEF IInv, TypeOK, Creates, Returns
<1>4. Links(children', parent', {}) /\ Unlinked(parent', allocated')
  BY DEF Creates
<1>5. QED
  BY <1>2, <1>3, <1>4, MemoryKeeps

\* What is freed is no longer linked.
LEMMA DeallocateKeeps ==
  ASSUME IInv, NEW t \in Tree, NEW D \in SUBSET Node, NEW ch, NEW par,
         Deallocate(t, D, ch, par), Returns, thrown' \in [Tree -> Nat],
         Links(Freed(ch, D), Cleared(par, D), {}), Unlinked(par, allocated)
  PROVE  IInv'
<1>1. Cardinality(D) \in Nat
  BY NodeSets
<1>2. /\ value' \in [Node -> Value \cup {Null}] /\ allocated' \subseteq Node
      /\ \A m \in Node : m \in allocated' <=> value'[m] # Null
  BY DEF IInv, TypeOK, Deallocate, Cleared
<1>3. m_size' \in [Tree -> Int] /\ outcome' \in {"ok", "max_size_error", "undefined"}
  BY <1>1 DEF IInv, TypeOK, Deallocate, Returns
<1>4. Links(children', parent', {}) /\ Unlinked(parent', allocated')
  BY DEF Deallocate, Unlinked, Cleared
<1>5. QED
  BY <1>2, <1>3, <1>4, MemoryKeeps

-----------------------------------------------------------------------------
(* The operations on the links.                                              *)

\* A new node among the children of h.
LEMMA NewChildKeeps ==
  ASSUME IInv, NEW t \in Tree, NEW v \in Value, NEW n \in Node \ allocated,
         NEW h, Hung(parent, h),
         NEW s \in Seq(Node), IsInjective(s), ToSet(s) = ToSet(children[h]) \cup {n},
         Len(s) <= Capacity(h),
         Creates(t, n, v, [children EXCEPT ![h] = s], [parent EXCEPT ![n] = h])
  PROVE  IInv'
<1>1. Links(children, parent, {}) /\ parent[n] = Null
  BY DEF IInv, Unlinked
<1>2. Links([children EXCEPT ![h] = s], [parent EXCEPT ![n] = h], {})
  BY <1>1, LinkLeaf
<1>3. Unlinked([parent EXCEPT ![n] = h], allocated \cup {n})
  BY DEF IInv, Unlinked, TypeOK
<1>4. QED
  BY <1>2, <1>3, CreatesKeeps

\* The holder that gets a new last child.
LEMMA TargetFacts ==
  ASSUME IInv, NEW p, IsNodeAt(p) \/ IsEnd(p)
  PROVE  /\ Target(p) \in Holder /\ Hung(parent, Target(p))
         /\ Len(children[Target(p)]) < MaxArity => Len(children[Target(p)]) < Capacity(Target(p))
<1>1. CASE IsNodeAt(p)
  <2>1. Target(p) = NodeAt(children, p) /\ Target(p) \in Node /\ parent[Target(p)] = p.m_node
    BY <1>1 DEF IsNodeAt, Target
  <2>2. p.m_node # Null
    BY <1>1, HolderFacts DEF IsNodeAt
  <2>3. QED
    BY <2>1, <2>2, HolderFacts DEF Hung, Capacity
<1>2. CASE IsEnd(p)
  BY <1>2 DEF IsEnd, Target
<1>3. QED
  BY <1>1, <1>2

\* A child more than there are, in a holder that is not full.
LEMMA Fits ==
  ASSUME IInv, NEW h \in Holder, Len(children[h]) < Capacity(h),
         NEW s, Len(s) = Len(children[h]) + 1
  PROVE  Len(s) <= Capacity(h)
<1>1. Len(children[h]) \in Nat /\ Capacity(h) \in Nat
  BY InvFacts, HolderFacts DEF LinkFacts, Capacity
<1>2. \A a, b \in Nat : a < b => a + 1 <= b
  OBVIOUS
<1>3. QED
  BY <1>1, <1>2

\* insert_below and emplace_below.
LEMMA InsertBelowKeeps ==
  ASSUME IInv, NEW t \in Tree, NEW v \in Value, NEW p, IsNodeAt(p) \/ IsEnd(p),
         InsertBelow(t, p, v)
  PROVE  IInv'
<1> DEFINE h == Target(p)
<1>1. h \in Holder /\ Hung(parent, h) /\ LinkFacts
  BY TargetFacts, InvFacts
<1>2. CASE Throws(t, v)
  BY <1>2, ThrowsKeeps
<1>3. ASSUME NEW n \in Node \ allocated, Len(children[h]) < MaxArity,
             Creates(t, n, v, [children EXCEPT ![h] = Append(@, n)], [parent EXCEPT ![n] = h])
      PROVE  IInv'
  <2> DEFINE s == Append(children[h], n)
  <2>1. n \notin ToSet(children[h])
    BY <1>1, HolderFacts DEF LinkFacts
  <2>2. /\ s \in Seq(Node) /\ IsInjective(s) /\ ToSet(s) = ToSet(children[h]) \cup {n}
        /\ Len(s) = Len(children[h]) + 1
    BY <1>1, <2>1, AppendSet DEF LinkFacts
  <2>3. Len(s) <= Capacity(h)
    BY <1>1, <1>3, <2>2, TargetFacts, Fits
  <2>4. Creates(t, n, v, [children EXCEPT ![h] = s], [parent EXCEPT ![n] = h])
    BY <1>3
  <2> HIDE DEF s, h
  <2>5. QED
    BY <1>1, <2>2, <2>3, <2>4, NewChildKeeps
<1>4. QED
  BY <1>2, <1>3 DEF InsertBelow

\* Links, where a new child is to be inserted in front of p.
LEMMA InsertedInFront ==
  ASSUME IInv, NEW p, IsNodeAt(p), ~IsRoot(p), Len(children[p.m_node]) < MaxArity,
         NEW n \in Node \ allocated
  PROVE  LET s == InsertAt(children[p.m_node], p.m_pos + 1, n)
         IN /\ s \in Seq(Node) /\ IsInjective(s) /\ ToSet(s) = ToSet(children[p.m_node]) \cup {n}
            /\ Len(s) = Len(children[p.m_node]) + 1 /\ Len(s) <= Capacity(p.m_node)
<1> DEFINE q == children[p.m_node]
           s == InsertAt(q, p.m_pos + 1, n)
<1>1. LinkFacts /\ p.m_node \in Holder /\ p.m_node \in Node /\ p.m_pos + 1 \in 1 .. Len(q)
  BY InvFacts, HolderFacts DEF IsNodeAt
<1>2. q \in Seq(Node) /\ IsInjective(q) /\ n \notin ToSet(q) /\ Len(q) \in Nat
  BY <1>1, HolderFacts DEF LinkFacts
<1>3. p.m_pos + 1 \in 1 .. Len(q) + 1
  BY <1>1, <1>2
<1>4. Len(q) < Capacity(p.m_node)
  BY <1>1, HolderFacts DEF Capacity
<1>5. /\ s \in Seq(Node) /\ IsInjective(s) /\ ToSet(s) = ToSet(q) \cup {n}
      /\ Len(s) = Len(q) + 1
  <2> HIDE DEF q
  <2>1. QED
    BY <1>2, <1>3, InsertAtSet
<1>6. Len(s) <= Capacity(p.m_node)
  BY <1>1, <1>4, <1>5, Fits
<1>7. QED
  BY <1>5, <1>6

\* insert and emplace.
LEMMA InsertKeeps ==
  ASSUME IInv, NEW t \in Tree, NEW v \in Value, NEW p, IsNodeAt(p) \/ IsEnd(p),
         Insert(t, p, v)
  PROVE  IInv'
<1>1. CASE InsertBelow(t, p, v)
  BY <1>1, InsertBelowKeeps
<1>2. CASE Undefined
  BY <1>2, UndefinedKeeps
<1>3. CASE Throws(t, v)
  BY <1>3, ThrowsKeeps
<1>4. ASSUME Valid(p), ~IsRoot(p), Len(children[p.m_node]) < MaxArity,
             NEW n \in Node \ allocated,
             Creates(t, n, v, [children EXCEPT ![p.m_node] = InsertAt(@, p.m_pos + 1, n)],
                              [parent EXCEPT ![n] = p.m_node])
      PROVE  IInv'
  <2> DEFINE s == InsertAt(children[p.m_node], p.m_pos + 1, n)
  <2>1. IsNodeAt(p) /\ Hung(parent, p.m_node)
    BY <1>4 DEF IsEnd, IsNodeAt
  <2>2. /\ s \in Seq(Node) /\ IsInjective(s) /\ ToSet(s) = ToSet(children[p.m_node]) \cup {n}
        /\ Len(s) <= Capacity(p.m_node)
    BY <1>4, <2>1, InsertedInFront
  <2>3. Creates(t, n, v, [children EXCEPT ![p.m_node] = s], [parent EXCEPT ![n] = p.m_node])
    BY <1>4
  <2> HIDE DEF s
  <2>4. QED
    BY <2>1, <2>2, <2>3, NewChildKeeps
<1>5. QED
  BY <1>1, <1>2, <1>3, <1>4 DEF Insert

\* insert_above and emplace_above: x is cut off, n hung in at its place, and x
\* hung below n.
LEMMA InsertAboveKeeps ==
  ASSUME IInv, NEW t \in Tree, NEW v \in Value, NEW p, IsNodeAt(p) \/ IsEnd(p),
         InsertAbove(t, p, v)
  PROVE  IInv'
<1>1. CASE InsertBelow(t, p, v)
  BY <1>1, InsertBelowKeeps
<1> DEFINE x == NodeAt(children, p)
           h == p.m_node
           k == p.m_pos + 1
           s == ReplaceAt(children[h], k, x)
<1>2. ASSUME Valid(p), NEW n \in Node \ allocated,
             Creates(t, n, v,
               [children EXCEPT ![h] = ReplaceAt(@, k, n), ![n] = <<x>>],
               [parent EXCEPT ![x] = n, ![n] = h])
      PROVE  IInv'
  <2> DEFINE q == ReplaceAt(children[h], k, n)
             ch1 == [children EXCEPT ![h] = ChildRemoved(@, x)]
             par1 == [parent EXCEPT ![x] = Null]
             ch2 == [ch1 EXCEPT ![h] = q]
             par2 == [par1 EXCEPT ![n] = h]
             ch3 == [ch2 EXCEPT ![n] = <<x>>]
             par3 == [par2 EXCEPT ![x] = n]
             B == Desc(children, x)
  <2>1. /\ IsNodeAt(p) /\ LinkFacts /\ Links(children, parent, {})
        /\ h \in Holder /\ Hung(parent, h) /\ x \in Node /\ parent[x] = h /\ h \notin B
        /\ k \in 1 .. Len(children[h]) /\ children[h][k] = x /\ x \in ToSet(children[h])
    BY <1>2, InvFacts DEF IInv, IsEnd, IsNodeAt, NodeAt
  <2>2. /\ n \in Node /\ parent[n] = Null /\ children[n] = <<>> /\ n # x /\ n # h /\ h # x
        /\ n \notin ToSet(children[h])
    <3>1. parent[n] = Null /\ children[n] = <<>> /\ n \in Node /\ x \in B
      BY <2>1, DescFacts DEF LinkFacts
    <3> HIDE DEF x, h, B
    <3>2. QED
      BY <2>1, <3>1, HolderFacts DEF LinkFacts, Hung
  <2>3. /\ Links(ch1, par1, {x})
        /\ ToSet(ChildRemoved(children[h], x)) = ToSet(children[h]) \ {x}
    <3> HIDE DEF x, h
    <3>1. Links(ch1, par1, {} \cup {x})
      BY <2>1, UnlinkKeeps
    <3>2. {} \cup {x} = {x}
      OBVIOUS
    <3>3. ToSet(ChildRemoved(children[h], x)) = ToSet(children[h]) \ {x}
      BY <2>1, RemoveChildSet DEF LinkFacts
    <3> HIDE DEF ch1, par1
    <3>4. QED
      BY <3>1, <3>2, <3>3
  <2>4. /\ q \in Seq(Node) /\ IsInjective(q) /\ Len(q) = Len(children[h])
        /\ ToSet(q) = (ToSet(children[h]) \ {x}) \cup {n}
    <3> HIDE DEF x, h, k
    <3>1. QED
      BY <2>1, <2>2, ReplaceAtSet DEF LinkFacts
  <2>5. /\ ch1[h] = ChildRemoved(children[h], x)
        /\ \A m \in Holder : m # h => ch1[m] = children[m]
        /\ \A m \in Node : m # x => par1[m] = parent[m]
        /\ par1[x] = Null
    BY <2>1, <2>2 DEF LinkFacts
  <2> HIDE DEF x, h, k, q
  <2>6. Links(ch2, par2, {x})
    <3>1. par1[n] = Null /\ Hung(par1, h)
      BY <2>1, <2>2, <2>5 DEF Hung
    <3>2. ToSet(q) = ToSet(ch1[h]) \cup {n} /\ Len(q) <= Capacity(h)
      BY <2>1, <2>3, <2>4, <2>5 DEF LinkFacts
    <3> HIDE DEF ch1, par1
    <3>3. QED
      BY <2>2, <2>3, <2>4, <3>1, <3>2, LinkLeaf
  <2>7. /\ \A m \in Holder : m # h => ch2[m] = children[m]
        /\ par2[n] = h /\ par2[x] = Null
    BY <2>1, <2>2, <2>5 DEF LinkFacts
  <2>8. DownClosed(ch2, B) /\ x \in B /\ n \notin B
    <3>1. /\ DownClosed(children, B) /\ x \in B
          /\ \A m \in B : m # x => parent[m] \in B
      BY <2>1, DescFacts, DescParent DEF LinkFacts
    <3>2. n \notin B
      BY <2>2, <3>1, HolderFacts DEF DownClosed
    <3>3. DownClosed(ch2, B)
      BY <2>1, <2>7, <3>1, HolderFacts DEF DownClosed
    <3>4. QED
      BY <3>1, <3>2, <3>3
  <2>9. /\ <<x>> \in Seq(Node) /\ IsInjective(<<x>>) /\ ToSet(<<x>>) = ToSet(ch2[n]) \cup {x}
        /\ Len(<<x>>) <= Capacity(n)
    <3>1. ch2[n] = <<>>
      BY <2>2, <2>7, HolderFacts
    <3>2. Capacity(n) = MaxArity /\ 1 <= MaxArity
      BY <2>2, HolderFacts DEF Capacity
    <3> HIDE DEF ch2
    <3>3. QED
      BY <2>1, <3>1, <3>2, OneChild, EmptyChildren
  <2>10. Links(ch3, par3, {})
    <3> HIDE DEF ch2, par2, B
    <3>1. n \in Holder /\ par2[n] # Null /\ par2[x] = Null
      BY <2>1, <2>2, <2>7, HolderFacts
    <3>2. Links(ch3, par3, {x} \ {x})
      BY <2>1, <2>6, <2>8, <2>9, <3>1, LinkKeeps
    <3>3. {x} \ {x} = {}
      OBVIOUS
    <3>4. QED
      BY <3>2, <3>3
  <2>11. ch3 = [children EXCEPT ![h] = ReplaceAt(@, k, n), ![n] = <<x>>]
    BY <2>1, <2>2 DEF LinkFacts, q
  <2>12. par3 = [parent EXCEPT ![x] = n, ![n] = h]
    BY <2>1, <2>2 DEF LinkFacts
  <2>13. Unlinked(par3, allocated \cup {n})
    BY <2>1, <2>2, <2>12, HolderFacts DEF LinkFacts, Unlinked
  <2> HIDE DEF ch3, par3
  <2>14. QED
    BY <1>2, <2>10, <2>11, <2>12, <2>13, CreatesKeeps
<1>3. QED
  BY <1>1, <1>2 DEF InsertAbove

-----------------------------------------------------------------------------
\* erase: the subtree hangs on one holder, which loses the child.
LEMMA EraseKeeps ==
  ASSUME IInv, NEW t \in Tree, NEW p, Valid(p) => IsNodeAt(p), Erase(t, p)
  PROVE  IInv'
<1>1. CASE ~Valid(p)
  BY <1>1, NothingKeeps DEF Erase
<1>2. CASE Valid(p)
  <2> DEFINE x == NodeAt(children, p)
             h == p.m_node
             D == Desc(children, x)
             s == ChildRemoved(children[h], x)
  <2>1. /\ LinkFacts /\ Links(children, parent, {})
        /\ h \in Holder /\ x \in Node /\ parent[x] = h /\ parent[x] # Null
    BY <1>2, InvFacts, HolderFacts DEF IInv, IsNodeAt
  <2>0. Returns /\ Deallocate(t, D, [children EXCEPT ![h] = s], parent) /\ UNCHANGED thrown
    BY <1>2 DEF Erase
  <2> HIDE DEF x, h
  <2>2. /\ s \in Seq(Node) /\ IsInjective(s)
        /\ ToSet(s) = ToSet(children[h]) \ {x} /\ Len(s) = Len(children[h]) - 1
    <3>1. children[h] \in Seq(Node) /\ IsInjective(children[h]) /\ x \in ToSet(children[h])
      BY <2>1 DEF LinkFacts
    <3>2. QED
      BY <3>1, RemoveChildSet
  <2>3. Cut(children, parent, D, h) /\ ToSet(s) = ToSet(children[h]) \ D
    BY <2>1, <2>2, DescIsCut
  <2>4. Len(s) <= Capacity(h)
    <3>1. \A a, b \in Nat : a <= b => a - 1 <= b
      OBVIOUS
    <3>2. Len(children[h]) \in Nat /\ Capacity(h) \in Nat /\ Len(children[h]) <= Capacity(h)
      BY <2>1, HolderFacts DEF LinkFacts, Capacity
    <3>3. QED
      BY <2>2, <3>1, <3>2
  <2> HIDE DEF D, s
  <2>6. Links(Freed([children EXCEPT ![h] = s], D), Cleared(parent, D), {})
    <3>1. {} \ D = {}
      OBVIOUS
    <3>2. Links(Freed([children EXCEPT ![h] = s], D), Cleared(parent, D), {} \ D)
      BY <2>1, <2>2, <2>3, <2>4, FreeKeeps
    <3>3. QED
      BY <3>1, <3>2
  <2>7. D \in SUBSET Node /\ thrown' \in [Tree -> Nat] /\ Unlinked(parent, allocated)
    BY <2>0, <2>3 DEF Cut, DownClosed, IInv, TypeOK
  <2>8. QED
    BY <2>0, <2>6, <2>7, DeallocateKeeps
<1>3. QED
  BY <1>1, <1>2

\* clear
LEMMA ClearKeeps ==
  ASSUME IInv, NEW t \in Tree, Clear(t)
  PROVE  IInv'
<1> DEFINE p == Cursor(t, 0)
<1>1. p.m_node = t /\ p.m_pos = 0
  BY DEF Cursor
<1>2. ASSUME Valid(p) PROVE IsNodeAt(p)
  <2>1. Hung(parent, t) /\ Len(children[t]) \in Nat /\ 0 < Len(children[t])
    BY <1>1, <1>2, InvFacts, HolderFacts DEF Hung, Valid, LinkFacts
  <2>2. 1 \in 1 .. Len(children[t]) /\ p = Cursor(t, 1 - 1)
    BY <2>1
  <2> HIDE DEF p
  <2>3. QED
    BY <2>1, <2>2, ChildCursor
<1>3. Erase(t, p)
  BY DEF Clear
<1> HIDE DEF p
<1>4. QED
  BY <1>2, <1>3, EraseKeeps

-----------------------------------------------------------------------------
\* The copies carry the values of linked nodes, and nothing else changes.
LEMMA CopiedValuesFacts ==
  ASSUME NEW val \in [Node -> Value \cup {Null}], NEW M \in SUBSET Node, NEW F \in SUBSET Node,
         NEW f \in Injection(M, F), \A m \in M : val[m] # Null
  PROVE  /\ CopiedValues(val, f) \in [Node -> Value \cup {Null}]
         /\ Range(f) \subseteq F
         /\ \A n \in Range(f) : CopiedValues(val, f)[n] # Null
         /\ \A n \in Node \ Range(f) : CopiedValues(val, f)[n] = val[n]
<1>1. /\ f \in [M -> F] /\ DOMAIN f = M /\ Range(f) = {f[m] : m \in M}
      /\ \A k, l \in M : f[k] = f[l] => k = l
  BY DEF Injection, IsInjective, Range
<1>2. \A m \in M : Original(f, f[m]) = m
  BY <1>1 DEF Original
<1>3. \A n \in Range(f) : Original(f, n) \in M
  BY <1>1, <1>2
<1>4. QED
  BY <1>1, <1>3 DEF CopiedValues

\* Nodes below s hang in a tree when s does.
LEMMA DescHung ==
  ASSUME NEW ch, NEW par, NEW U, Links(ch, par, U), NEW s \in Node, NEW m \in Desc(ch, s),
         m # s \/ par[s] # Null
  PROVE  m \in Node /\ par[m] # Null
<1>1. Desc(ch, s) \subseteq Node
  BY DEF Desc
<1>2. m # s => par[m] \in Desc(ch, s)
  BY DescParent
<1>3. QED
  BY <1>1, <1>2, HolderFacts

\* A copied subtree below h.
LEMMA CopiesBelowKeeps ==
  ASSUME IInv, NEW t \in Tree, NEW ch, NEW par, Links(ch, par, {}),
         NEW freed \in SUBSET Node, Unlinked(par, allocated \ freed),
         NEW h, Hung(par, h), Len(ch[h]) < Capacity(h),
         NEW s \in Node, par[s] # Null, h \notin Desc(ch, s),
         NEW val \in [Node -> Value \cup {Null}],
         \A n \in Node : n \in allocated \ freed <=> val[n] # Null,
         CopiesBelow(t, h, s, ch, par, val, freed)
  PROVE  IInv'
<1> DEFINE taken == allocated \ freed
<1>1. PICK f \in Injection(Desc(ch, s), Node \ taken) :
        /\ Returns /\ UNCHANGED thrown
        /\ allocated' = taken \cup Range(f)
        /\ children' = [CopiedChildren(ch, f) EXCEPT ![h] = Append(ch[h], f[s])]
        /\ parent' = [CopiedParents(par, f, Range(f) \ {f[s]}) EXCEPT ![f[s]] = h]
        /\ value' = CopiedValues(val, f)
        /\ m_size' = [m_size EXCEPT ![t] = @ - Cardinality(freed) + Cardinality(Range(f))]
  BY DEF CopiesBelow
<1>2. taken \subseteq Node /\ Unlinked(par, taken) /\ \A n \in Node : n \in taken <=> val[n] # Null
  BY DEF IInv, TypeOK
<1> HIDE DEF taken
<1>3. Links(children', parent', {}) /\ Unlinked(parent', allocated')
  BY <1>1, <1>2, CopyBelowKeeps
<1>4. \A m \in Desc(ch, s) : m \in Node /\ val[m] # Null
  BY <1>2, DescHung DEF Unlinked
<1>5. /\ value' \in [Node -> Value \cup {Null}] /\ Range(f) \subseteq Node \ taken
      /\ \A n \in Range(f) : value'[n] # Null
      /\ \A n \in Node \ Range(f) : value'[n] = val[n]
  <2> DEFINE M == Desc(ch, s)
             F == Node \ taken
  <2>1. /\ M \in SUBSET Node /\ F \in SUBSET Node /\ f \in Injection(M, F)
        /\ \A m \in M : val[m] # Null
    BY <1>1, <1>4
  <2> HIDE DEF M, F
  <2>2. /\ CopiedValues(val, f) \in [Node -> Value \cup {Null}] /\ Range(f) \subseteq F
        /\ \A n \in Range(f) : CopiedValues(val, f)[n] # Null
        /\ \A n \in Node \ Range(f) : CopiedValues(val, f)[n] = val[n]
    BY <2>1, CopiedValuesFacts
  <2>3. QED
    BY <1>1, <2>2 DEF F
<1>6. allocated' \subseteq Node /\ \A n \in Node : n \in allocated' <=> value'[n] # Null
  BY <1>1, <1>2, <1>5
<1>7. Cardinality(freed) \in Nat /\ Cardinality(Range(f)) \in Nat
  BY <1>5, NodeSets
<1>8. m_size' \in [Tree -> Int]
  BY <1>1, <1>7 DEF IInv, TypeOK
<1>9. thrown' \in [Tree -> Nat] /\ outcome' \in {"ok", "max_size_error", "undefined"}
  BY <1>1 DEF IInv, TypeOK, Returns
<1>10. QED
  BY <1>3, <1>5, <1>6, <1>8, <1>9, MemoryKeeps

\* Copies of the nodes below s, below x.
LEMMA CopiesIntoKeeps ==
  ASSUME IInv, NEW t \in Tree, NEW ch, NEW par, Links(ch, par, {}),
         NEW taken \in SUBSET Node, Unlinked(par, taken),
         NEW x \in taken, par[x] # Null, ch[x] = <<>>,
         NEW s \in Node, x \notin Desc(ch, s) \ {s}, NEW v \in Value,
         NEW val \in [Node -> Value \cup {Null}],
         \A n \in Node \ {x} : n \in taken <=> val[n] # Null,
         NEW size \in Int, CopiesInto(t, x, v, s, ch, par, val, taken, size)
  PROVE  IInv'
<1> DEFINE M == Desc(ch, s) \ {s}
           F(g) == [m \in Desc(ch, s) |-> IF m = s THEN x ELSE g[m]]
<1>1. PICK g \in Injection(M, Node \ taken) :
        /\ Returns /\ UNCHANGED thrown
        /\ allocated' = taken \cup Range(g)
        /\ children' = CopiedChildren(ch, F(g))
        /\ parent' = CopiedParents(par, F(g), Range(g))
        /\ value' = [CopiedValues(val, g) EXCEPT ![x] = v]
        /\ m_size' = [m_size EXCEPT ![t] = size + Cardinality(Range(g))]
  BY DEF CopiesInto
<1>2. Links(children', parent', {}) /\ Unlinked(parent', allocated')
  <2>1. x \in Node
    OBVIOUS
  <2>2. QED
    BY <1>1, <2>1, CopyIntoKeeps
<1>3. \A m \in M : m \in Node /\ val[m] # Null
  BY DescHung DEF Unlinked
<1>4. /\ CopiedValues(val, g) \in [Node -> Value \cup {Null}] /\ Range(g) \subseteq Node \ taken
      /\ \A n \in Range(g) : CopiedValues(val, g)[n] # Null
      /\ \A n \in Node \ Range(g) : CopiedValues(val, g)[n] = val[n]
  <2> DEFINE H == Node \ taken
  <2>1. /\ M \in SUBSET Node /\ H \in SUBSET Node /\ g \in Injection(M, H)
        /\ \A m \in M : val[m] # Null
    BY <1>1, <1>3
  <2> HIDE DEF M, H
  <2>2. /\ CopiedValues(val, g) \in [Node -> Value \cup {Null}] /\ Range(g) \subseteq H
        /\ \A n \in Range(g) : CopiedValues(val, g)[n] # Null
        /\ \A n \in Node \ Range(g) : CopiedValues(val, g)[n] = val[n]
    BY <2>1, CopiedValuesFacts
  <2>3. QED
    BY <2>2 DEF H
<1>5. v # Null
  BY HolderFacts
<1>6. /\ value' \in [Node -> Value \cup {Null}] /\ allocated' \subseteq Node
      /\ \A n \in Node : n \in allocated' <=> value'[n] # Null
  BY <1>1, <1>4, <1>5
<1>7. Cardinality(Range(g)) \in Nat
  BY <1>4, NodeSets
<1>8. m_size' \in [Tree -> Int]
  BY <1>1, <1>7 DEF IInv, TypeOK
<1>9. thrown' \in [Tree -> Nat] /\ outcome' \in {"ok", "max_size_error", "undefined"}
  BY <1>1 DEF IInv, TypeOK, Returns
<1>10. QED
  BY <1>2, <1>6, <1>8, <1>9, MemoryKeeps

\* insert_below( position , subtree )
LEMMA InsertBelowSubtreeKeeps ==
  ASSUME IInv, NEW t \in Tree, NEW p, IsNodeAt(p) \/ IsEnd(p), NEW c, IsNodeAt(c),
         InsertBelowSubtree(t, p, c)
  PROVE  IInv'
<1> DEFINE h == Target(p)
           s == NodeAt(children, c)
<1>1. /\ s \in Node /\ parent[s] # Null /\ value[s] \in Value
      /\ h \in Holder /\ Hung(parent, h) /\ h \notin Desc(children, s)
      /\ Len(children[h]) < MaxArity => Len(children[h]) < Capacity(h)
  BY TargetFacts, HolderFacts DEF InsertBelowSubtree, IsNodeAt
<1>2. CASE Throws(t, value[s])
  BY <1>1, <1>2, ThrowsKeeps
<1>3. CASE Len(children[h]) < MaxArity /\ CopiesBelow(t, h, s, children, parent, value, {})
  <2>1. /\ Links(children, parent, {}) /\ Unlinked(parent, allocated \ {})
        /\ value \in [Node -> Value \cup {Null}]
        /\ \A n \in Node : n \in allocated \ {} <=> value[n] # Null
    BY DEF IInv, TypeOK, Unlinked
  <2> HIDE DEF h, s
  <2>2. QED
    BY <1>1, <1>3, <2>1, CopiesBelowKeeps
<1>4. QED
  BY <1>2, <1>3 DEF InsertBelowSubtree

\* assign( subtree ) and the copy of a tree: t is cleared first.
LEMMA AssignTreeKeeps ==
  ASSUME IInv, NEW t \in Tree, NEW c, IsNodeAt(c), AssignTree(t, c)
  PROVE  IInv'
<1> DEFINE D == Below(children, t)
           s == NodeAt(children, c)
           ch == Freed([children EXCEPT ![t] = <<>>], D)
           par == Cleared(parent, D)
           val == Cleared(value, D)
<1>1. /\ s \notin D /\ CopiesBelow(t, t, s, ch, par, val, D)
      /\ s \in Node /\ parent[s] # Null /\ t \in Holder /\ LinkFacts
  BY InvFacts, HolderFacts DEF AssignTree, ClearedLinks, NodesOf, IsNodeAt
<1>2. Links(ch, par, {}) /\ D \in SUBSET Node /\ t \notin D
  BY <1>1, FreeBelowKeeps DEF IInv
<1>3. Hung(par, t) /\ ch[t] = <<>> /\ par[s] # Null
  BY <1>1, <1>2 DEF Hung, Freed, Cleared, LinkFacts
<1>4. /\ Unlinked(par, allocated \ D) /\ val \in [Node -> Value \cup {Null}]
      /\ \A n \in Node : n \in allocated \ D <=> val[n] # Null
  BY <1>2 DEF IInv, TypeOK, Unlinked, Cleared
<1> HIDE DEF ch, par, val, D, s
<1>5. Len(ch[t]) < Capacity(t)
  BY <1>3, EmptyChildren DEF Capacity
<1>6. t \notin Desc(ch, s)
  BY HolderFacts DEF Desc
<1>7. QED
  BY <1>1, <1>2, <1>3, <1>4, <1>5, <1>6, CopiesBelowKeeps

\* The links once n is put in front of p.
PutInFront(p, n, ch, par) ==
  /\ ~IsRoot(p) /\ Len(children[p.m_node]) < MaxArity
  /\ n \in Node \ allocated
  /\ ch = [children EXCEPT ![p.m_node] = InsertAt(@, p.m_pos + 1, n)]
  /\ par = [parent EXCEPT ![n] = p.m_node]

\* insert( position , subtree ): a new node n in front of p, and the node that is
\* copied into it then, which may be another one than c designated.
LEMMA InsertedFirst ==
  ASSUME IInv, NEW p, IsNodeAt(p), NEW c, IsNodeAt(c),
         NEW n, NEW ch, NEW par, PutInFront(p, n, ch, par)
  PROVE  /\ Links(ch, par, {}) /\ \A m \in Node \ allocated : m # n => par[m] = Null
         /\ NodeAt(ch, c) \in Node /\ par[NodeAt(ch, c)] = c.m_node
         /\ \A m \in Holder : m # p.m_node => ch[m] = children[m]
         /\ par[n] = p.m_node /\ ch[n] = <<>>
<1> USE DEF PutInFront
<1> DEFINE h == p.m_node
           q == InsertAt(children[h], p.m_pos + 1, n)
           g == c.m_node
           s == NodeAt(ch, c)
<1>1. /\ Hung(parent, h) /\ h \in Holder /\ LinkFacts
      /\ Links(children, parent, {}) /\ Unlinked(parent, allocated)
      /\ g \in Holder /\ c.m_pos \in Nat /\ c.m_pos + 1 \in 1 .. Len(children[g])
  BY InvFacts DEF IInv, IsNodeAt
<1>2. /\ q \in Seq(Node) /\ IsInjective(q) /\ ToSet(q) = ToSet(children[h]) \cup {n}
      /\ Len(q) = Len(children[h]) + 1 /\ Len(q) <= Capacity(h)
  BY InsertedInFront
<1> HIDE DEF q
<1>3. parent[n] = Null /\ children[n] = <<>> /\ n # h /\ n \in Holder
  BY <1>1, HolderFacts DEF LinkFacts, Hung
<1>4. /\ ch[h] = q /\ \A m \in Holder : m # h => ch[m] = children[m]
      /\ par[n] = h /\ \A m \in Node : m # n => par[m] = parent[m]
      /\ ch \in [Holder -> Seq(Node)] /\ ch = [children EXCEPT ![h] = q]
  BY <1>1, <1>2 DEF LinkFacts, q
<1>5. Links(ch, par, {}) /\ \A m \in Node \ allocated : m # n => par[m] = Null
  <2>1. Links([children EXCEPT ![h] = q], [parent EXCEPT ![n] = h], {})
    BY <1>1, <1>2, <1>3, LinkLeaf
  <2>2. Links(ch, par, {})
    BY <1>4, <2>1
  <2>3. QED
    BY <1>1, <1>4, <2>2 DEF Unlinked
<1> HIDE DEF h, g
<1>6. s \in Node /\ s \in ToSet(ch[g])
  <2>1. ch[g] \in Seq(Node) /\ c.m_pos + 1 \in 1 .. Len(ch[g])
    <3>1. Len(children[g]) \in Nat /\ (Len(ch[g]) = Len(children[g]) \/ Len(ch[g]) = Len(children[g]) + 1)
      BY <1>1, <1>2, <1>4 DEF LinkFacts
    <3>2. \A a, b \in Nat : c.m_pos + 1 \in 1 .. a /\ (b = a \/ b = a + 1) => c.m_pos + 1 \in 1 .. b
      BY <1>1
    <3>3. ch[g] \in Seq(Node) /\ Len(ch[g]) \in Nat
      BY <1>1, <1>4, LenProperties
    <3>4. QED
      BY <1>1, <3>1, <3>2, <3>3
  <2>2. QED
    BY <2>1, SeqBasics DEF NodeAt, g
<1>7. par[s] = g
  BY <1>1, <1>5, <1>6 DEF Links, Dual
<1>8. QED
  BY <1>3, <1>4, <1>5, <1>6, <1>7 DEF h, g

\* insert( position , subtree ): what is copied never is above the new node.
LEMMA InsertSubtreeKeeps ==
  ASSUME IInv, NEW t \in Tree, NEW p, IsNodeAt(p) \/ IsEnd(p), NEW c, IsNodeAt(c),
         InsertSubtree(t, p, c)
  PROVE  IInv'
<1> DEFINE h == p.m_node
           v == value[NodeAt(children, c)]
<1>1. CASE InsertBelowSubtree(t, p, c)
  BY <1>1, InsertBelowSubtreeKeeps
<1>2. CASE Undefined
  BY <1>2, UndefinedKeeps
<1>3. CASE Throws(t, v)
  BY <1>3, ThrowsKeeps DEF IsNodeAt
<1>4. ASSUME Valid(p), ~IsRoot(p), Len(children[h]) < MaxArity,
             h \notin Desc(children, NodeAt(children, c)),
             NEW n \in Node \ allocated,
             LET ch == [children EXCEPT ![h] = InsertAt(@, p.m_pos + 1, n)]
             IN CopiesInto(t, n, v, NodeAt(ch, c), ch, [parent EXCEPT ![n] = h],
                           value, allocated \cup {n}, m_size[t] + 1)
      PROVE  IInv'
  <2> DEFINE ch == [children EXCEPT ![h] = InsertAt(@, p.m_pos + 1, n)]
             par == [parent EXCEPT ![n] = h]
             g == c.m_node
             s0 == NodeAt(children, c)
             s == NodeAt(ch, c)
             taken == allocated \cup {n}
  <2>1. /\ IsNodeAt(p) /\ h \in Holder /\ LinkFacts /\ n \in Node
        /\ g \in Holder /\ s0 \in Node /\ v \in Value
    BY <1>4, InvFacts DEF IsEnd, IsNodeAt
  <2>2. CopiesInto(t, n, v, s, ch, par, value, taken, m_size[t] + 1)
    BY <1>4
  <2>3. /\ Links(ch, par, {}) /\ Unlinked(par, taken)
        /\ s \in Node /\ par[s] = g
        /\ \A m \in Holder : m # h => ch[m] = children[m]
        /\ par[n] = h /\ ch[n] = <<>>
    <3>1. PutInFront(p, n, ch, par)
      BY <1>4 DEF PutInFront
    <3> HIDE DEF ch, par
    <3>2. QED
      BY <2>1, <3>1, InsertedFirst DEF Unlinked
  <2> HIDE DEF h, g, v, s0
  <2>4. h \notin Desc(ch, s)
    <3>1. CASE g = h
      BY <2>3, <3>1, ParentOutside
    <3>2. CASE g # h
      <4>1. s = s0
        BY <2>1, <2>3, <3>2 DEF NodeAt, g, s0
      <4>2. h \notin Desc(children, s0)
        BY <1>4 DEF s0, h
      <4>3. DownClosed(children, Desc(children, s0)) /\ s0 \in Desc(children, s0)
        BY <2>1, DescFacts DEF LinkFacts
      <4> HIDE DEF ch, s
      <4>4. DownClosed(ch, Desc(children, s0)) /\ ch \in [Holder -> Seq(Node)]
        BY <2>3, <4>2, <4>3, HolderFacts DEF DownClosed, Links
      <4>5. Desc(ch, s) \subseteq Desc(children, s0)
        BY <2>3, <4>1, <4>3, <4>4, DescFacts
      <4>6. QED
        BY <4>2, <4>5
    <3>3. QED
      BY <3>1, <3>2
  <2>5. n \notin Desc(ch, s) \ {s}
    <3> SUFFICES ASSUME n \in Desc(ch, s), n # s PROVE FALSE
      OBVIOUS
    <3> HIDE DEF ch, par, s
    <3>1. par[n] \in Desc(ch, s)
      BY <2>3, DescParent
    <3>2. QED
      BY <2>3, <2>4, <3>1
  <2>6. /\ taken \in SUBSET Node /\ n \in taken /\ m_size[t] + 1 \in Int
        /\ value \in [Node -> Value \cup {Null}]
        /\ \A m \in Node \ {n} : m \in taken <=> value[m] # Null
    BY DEF IInv, TypeOK
  <2>7. par[n] # Null
    BY <2>1, <2>3, HolderFacts
  <2> HIDE DEF ch, par, s, taken
  <2>8. QED
    BY <2>1, <2>2, <2>3, <2>5, <2>6, <2>7, CopiesIntoKeeps
<1>5. QED
  BY <1>1, <1>2, <1>3, <1>4 DEF InsertSubtree

\* assign( position , subtree )
LEMMA AssignAtKeeps ==
  ASSUME IInv, NEW t \in Tree, NEW p, IsNodeAt(p), NEW c, IsNodeAt(c), AssignAt(t, p, c)
  PROVE  IInv'
<1> DEFINE x == NodeAt(children, p)
           s == NodeAt(children, c)
           D == Below(children, x)
           ch == Freed([children EXCEPT ![x] = <<>>], D)
           par == Cleared(parent, D)
           val == Cleared(value, D)
           taken == allocated \ D
           size == m_size[t] - Cardinality(D)
<1>1. /\ s \notin D /\ (s = x \/ x \notin Desc(children, s))
      /\ CopiesInto(t, x, value[s], s, ch, par, val, taken, size)
      /\ s \in Node /\ x \in Node /\ x \in Holder /\ value[s] \in Value
      /\ parent[x] # Null /\ LinkFacts /\ Links(children, parent, {})
  BY InvFacts, HolderFacts DEF AssignAt, IsNodeAt, IInv
<1> HIDE DEF x, s
<1>2. Links(ch, par, {}) /\ D \in SUBSET Node /\ x \notin D
  BY <1>1, FreeBelowKeeps
<1>3. ch[x] = <<>> /\ par[x] # Null /\ x \in taken
  BY <1>1, <1>2 DEF Freed, Cleared, LinkFacts
<1>4. x \notin Desc(ch, s) \ {s}
  <2>1. CASE s = x
    BY <2>1
  <2>2. CASE x \notin Desc(children, s)
    <3>1. DownClosed(children, Desc(children, s)) /\ s \in Desc(children, s)
      BY <1>1, DescFacts DEF LinkFacts
    <3>2. ASSUME NEW m \in Holder PROVE ToSet(ch[m]) \subseteq ToSet(children[m])
      BY <1>1, <1>2, EmptyChildren DEF Freed, LinkFacts
    <3>3. DownClosed(ch, Desc(children, s))
      BY <3>1, <3>2, HolderFacts DEF DownClosed
    <3>4. ch \in [Holder -> Seq(Node)]
      BY <1>2 DEF Links
    <3> HIDE DEF ch
    <3>5. Desc(ch, s) \subseteq Desc(children, s)
      BY <1>1, <3>1, <3>3, <3>4, DescFacts
    <3>6. QED
      BY <2>2, <3>5
  <2>3. QED
    BY <1>1, <2>1, <2>2
<1>5. /\ taken \in SUBSET Node /\ Unlinked(par, taken) /\ val \in [Node -> Value \cup {Null}]
      /\ \A n \in Node \ {x} : n \in taken <=> val[n] # Null
  BY <1>2 DEF IInv, TypeOK, Unlinked, Cleared
<1>6. size \in Int
  <2>1. Cardinality(D) \in Nat /\ m_size[t] \in Int
    BY <1>2, NodeSets DEF IInv, TypeOK
  <2>2. QED
    BY <2>1
<1> HIDE DEF ch, par, val, taken, size
<1>7. QED
  BY <1>1, <1>2, <1>3, <1>4, <1>5, <1>6, CopiesIntoKeeps

\* The first child of a header that has one.
LEMMA RootCursor ==
  ASSUME IInv, NEW u \in Tree, children[u] # <<>>
  PROVE  IsNodeAt(Cursor(u, 0)) /\ NodeAt(children, Cursor(u, 0)) = children[u][1]
<1>1. Hung(parent, u) /\ Len(children[u]) \in Nat /\ children[u] \in Seq(Node)
  BY InvFacts, HolderFacts DEF Hung, LinkFacts
<1>2. Len(children[u]) # 0
  BY <1>1, EmptySeq
<1>3. 1 \in 1 .. Len(children[u]) /\ Cursor(u, 0) = Cursor(u, 1 - 1)
  BY <1>1, <1>2
<1>4. IsNodeAt(Cursor(u, 0))
  BY <1>1, <1>3, ChildCursor
<1>5. QED
  BY <1>4 DEF NodeAt, Cursor

\* The copy assignment.
LEMMA CopyAssignKeeps ==
  ASSUME IInv, NEW t \in Tree, NEW u \in Tree, CopyAssign(t, u)
  PROVE  IInv'
<1>1. CASE /\ Returns /\ Deallocate(t, NodesOf(t), [children EXCEPT ![t] = <<>>], parent)
           /\ UNCHANGED thrown
  <2> DEFINE D == Below(children, t)
  <2>1. Links(Freed([children EXCEPT ![t] = <<>>], D), Cleared(parent, D), {}) /\ D \in SUBSET Node
    BY FreeBelowKeeps, HolderFacts DEF IInv
  <2>2. thrown' \in [Tree -> Nat] /\ Unlinked(parent, allocated)
    BY <1>1 DEF IInv, TypeOK
  <2>3. Deallocate(t, D, [children EXCEPT ![t] = <<>>], parent)
    BY <1>1 DEF NodesOf
  <2> HIDE DEF D
  <2>4. QED
    BY <1>1, <2>1, <2>2, <2>3, DeallocateKeeps
<1>2. CASE Undefined
  BY <1>2, UndefinedKeeps
<1>3. CASE children[u] # <<>> /\ AssignTree(t, Cursor(u, 0))
  BY <1>3, RootCursor, AssignTreeKeeps
<1>4. QED
  BY <1>1, <1>2, <1>3 DEF CopyAssign

-----------------------------------------------------------------------------
\* The move assignment: t is cleared, then the root of u moves into t.
LEMMA MoveAssignKeeps ==
  ASSUME IInv, NEW t \in Tree, NEW u \in Tree, MoveAssign(t, u)
  PROVE  IInv'
<1> DEFINE D == Below(children, t)
           n == children[u][1]
           ch == Freed([children EXCEPT ![t] = <<>>], D)
           par == Cleared(parent, D)
           rem == [ch EXCEPT ![u] = ChildRemoved(@, n)]
<1>1. CASE Undefined
  BY <1>1, UndefinedKeeps
<1>2. Links(ch, par, {}) /\ D \in SUBSET Node /\ t \notin D /\ t # u
      /\ \A m \in D : parent[m] \in D \cup {t}
  BY FreeBelowKeeps, HolderFacts DEF IInv, MoveAssign
<1>3. CASE /\ Returns /\ Deallocate(t, NodesOf(t), [children EXCEPT ![t] = <<>>], parent)
           /\ UNCHANGED thrown
  <2>1. thrown' \in [Tree -> Nat] /\ Unlinked(parent, allocated)
    BY <1>3 DEF IInv, TypeOK
  <2>2. Deallocate(t, D, [children EXCEPT ![t] = <<>>], parent)
    BY <1>3 DEF NodesOf
  <2> HIDE DEF D
  <2>3. QED
    BY <1>2, <1>3, <2>1, <2>2, DeallocateKeeps
<1>4. CASE /\ children[u] # <<>> /\ Returns
           /\ allocated' = allocated \ D
           /\ children' = Freed([children EXCEPT ![t] = <<n>>, ![u] = ChildRemoved(@, n)], D)
           /\ parent' = [par EXCEPT ![n] = t]
           /\ value' = Cleared(value, D)
           /\ m_size' = [m_size EXCEPT ![t] = m_size[u], ![u] = 0]
           /\ thrown' = [thrown EXCEPT ![t] = thrown[u], ![u] = 0]
  <2>1. /\ n \in Node /\ parent[n] = u /\ LinkFacts /\ u \in Holder /\ t \in Holder
        /\ n \notin D
    <3>1. IsNodeAt(Cursor(u, 0)) /\ NodeAt(children, Cursor(u, 0)) = n
      BY <1>4, RootCursor
    <3>2. Cursor(u, 0).m_node = u
      BY DEF Cursor
    <3>3. n \in Node /\ parent[n] = u
      BY <3>1, <3>2 DEF IsNodeAt
    <3> HIDE DEF n
    <3>4. n \notin D
      BY <1>2, <3>3, HolderFacts
    <3>5. QED
      BY <3>3, <3>4, HolderFacts, InvFacts
  <2> HIDE DEF n
  <2>2. /\ par[n] = u /\ ch[u] = children[u] /\ ch[t] = <<>> /\ u \notin D
    BY <1>2, <2>1, HolderFacts DEF Freed, Cleared, LinkFacts
  <2> HIDE DEF D
  <2>3. ch \in [Holder -> Seq(Node)] /\ par \in [Node -> Holder \cup {Null}]
    BY <1>2 DEF Links
  <2>4. rem[t] = <<>>
    <3> HIDE DEF ch
    <3>1. QED
      BY <1>2, <2>1, <2>2, <2>3
  <2>5. /\ <<n>> \in Seq(Node) /\ IsInjective(<<n>>) /\ ToSet(<<n>>) = ToSet(rem[t]) \cup {n}
        /\ Len(<<n>>) <= Capacity(t)
    <3> HIDE DEF rem
    <3>1. QED
      BY <2>1, <2>4, OneChild, EmptyChildren DEF Capacity
  <2>6. Links([rem EXCEPT ![t] = <<n>>], [par EXCEPT ![n] = t], {})
    <3>1. Hung(par, t) /\ t \notin Desc(ch, n)
      BY HolderFacts DEF Hung, Desc
    <3> HIDE DEF ch, par
    <3>2. QED
      BY <1>2, <2>1, <2>2, <2>5, <3>1, MoveKeeps
  <2>7. [rem EXCEPT ![t] = <<n>>] = children'
    BY <1>2, <1>4, <2>1, <2>2 DEF Freed, LinkFacts
  <2>8. Links(children', parent', {})
    BY <1>4, <2>6, <2>7
  <2>9. Unlinked(parent', allocated')
    BY <1>2, <1>4, <2>1, HolderFacts DEF IInv, TypeOK, Unlinked, Cleared, LinkFacts
  <2>10. /\ value' \in [Node -> Value \cup {Null}] /\ allocated' \subseteq Node
         /\ \A m \in Node : m \in allocated' <=> value'[m] # Null
    BY <1>4 DEF IInv, TypeOK, Cleared
  <2>11. /\ m_size' \in [Tree -> Int] /\ thrown' \in [Tree -> Nat]
         /\ outcome' \in {"ok", "max_size_error", "undefined"}
    BY <1>4 DEF IInv, TypeOK, Returns
  <2>12. QED
    BY <2>8, <2>9, <2>10, <2>11, MemoryKeeps
<1>5. QED
  BY <1>1, <1>3, <1>4 DEF MoveAssign, NodesOf

\* swap exchanges the roots of two trees.
LEMMA SwapKeeps ==
  ASSUME IInv, NEW t \in Tree, NEW u \in Tree, Swap(t, u)
  PROVE  IInv'
<1>1. CASE Undefined
  BY <1>1, UndefinedKeeps
<1>2. CASE /\ t # u /\ Returns
           /\ children' = [children EXCEPT ![t] = children[u], ![u] = children[t]]
           /\ parent' = [n \in Node |-> IF n \in ToSet(children[t]) THEN u
                                        ELSE IF n \in ToSet(children[u]) THEN t
                                        ELSE parent[n]]
           /\ m_size' = [m_size EXCEPT ![t] = m_size[u], ![u] = m_size[t]]
           /\ thrown' = [thrown EXCEPT ![t] = thrown[u], ![u] = thrown[t]]
           /\ UNCHANGED <<allocated, value>>
  <2> DEFINE M == ToSet(children[t]) \cup ToSet(children[u])
             ch2 == children'
             par2 == parent'
  <2>1. /\ LinkFacts /\ Links(children, parent, {}) /\ t \in Holder /\ u \in Holder
        /\ M \subseteq Node
    BY InvFacts, HolderFacts, ElementsAreNodes DEF IInv, LinkFacts
  <2>2. /\ ch2 \in [Holder -> Seq(Node)] /\ par2 \in [Node -> Holder \cup {Null}]
        /\ ch2[t] = children[u] /\ ch2[u] = children[t]
        /\ \A h \in Holder : h # t /\ h # u => ch2[h] = children[h]
        /\ \A n \in ToSet(children[t]) : par2[n] = u
        /\ \A n \in ToSet(children[u]) : par2[n] = t
        /\ \A n \in Node \ M : par2[n] = parent[n]
    BY <1>2, <2>1, HolderFacts DEF LinkFacts
  <2> HIDE DEF M, ch2, par2
  <2>3. Dual(ch2, par2)
    <3>1. \A h \in Holder : IsInjective(ch2[h])
      BY <2>1, <2>2 DEF LinkFacts
    <3>2. ASSUME NEW n \in Node, NEW h \in Holder
          PROVE  n \in ToSet(ch2[h]) <=> par2[n] = h
      <4>1. /\ n \in ToSet(children[h]) <=> parent[n] = h
            /\ n \in ToSet(children[t]) <=> parent[n] = t
            /\ n \in ToSet(children[u]) <=> parent[n] = u
        BY <2>1 DEF LinkFacts
      <4>2. /\ n \in ToSet(children[t]) => par2[n] = u
            /\ n \in ToSet(children[u]) => par2[n] = t
            /\ n \notin ToSet(children[t]) /\ n \notin ToSet(children[u]) => par2[n] = parent[n]
        BY <2>2 DEF M
      <4>3. CASE h = t
        BY <1>2, <2>2, <4>1, <4>2, <4>3
      <4>4. CASE h = u
        BY <1>2, <2>2, <4>1, <4>2, <4>4
      <4>5. CASE h # t /\ h # u
        BY <1>2, <2>2, <4>1, <4>2, <4>5
      <4>6. QED
        BY <4>3, <4>4, <4>5
    <3>3. QED
      BY <3>1, <3>2 DEF Dual
  <2>4. ASSUME NEW n \in Node, par2[n] = Null PROVE ch2[n] = <<>>
    <3>1. n \notin ToSet(children[t]) /\ n \notin ToSet(children[u])
      BY <2>2, <2>4, HolderFacts
    <3>2. parent[n] = Null /\ n \in Holder /\ n # t /\ n # u
      BY <2>2, <2>4, <3>1, HolderFacts DEF M
    <3>3. QED
      BY <2>1, <2>2, <3>2 DEF LinkFacts
  <2>5. Ends(par2)
    <3>1. DownClosed(children, Node) /\ M \in SUBSET Node
      BY <2>1, HolderFacts, ElementsAreNodes DEF DownClosed, LinkFacts
    <3>2. (\A m \in Node \ M : par2[m] = parent[m]) /\ \A m \in M : par2[m] \notin Node
      BY <2>2, HolderFacts DEF M
    <3>3. QED
      BY <2>1, <3>1, <3>2, Regraft
  <2>6. \A h \in Holder : Len(ch2[h]) <= Capacity(h)
    BY <2>1, <2>2 DEF LinkFacts, Capacity
  <2>7. Links(ch2, par2, {})
    BY <2>2, <2>3, <2>4, <2>5, <2>6 DEF Links
  <2>8. Unlinked(par2, allocated)
    BY <2>1, <2>2, HolderFacts DEF Unlinked, LinkFacts, M
  <2>9. /\ m_size' \in [Tree -> Int] /\ thrown' \in [Tree -> Nat]
        /\ outcome' \in {"ok", "max_size_error", "undefined"}
    BY <1>2 DEF IInv, TypeOK, Returns
  <2>10. QED
    BY <1>2, <2>7, <2>8, <2>9, RelinkKeeps DEF ch2, par2
<1>3. QED
  BY <1>1, <1>2 DEF Swap

\* operator== changes nothing.
LEMMA CompareKeeps ==
  ASSUME IInv, NEW t \in Tree, NEW u \in Tree, Compare(t, u)
  PROVE  IInv'
BY UndefinedKeeps, NothingKeeps DEF Compare

\* The counters stay integers.
LEMMA CountExchangeKeeps ==
  ASSUME IInv, NEW t \in Tree, NEW u \in Tree, NEW k1 \in Nat, NEW k2 \in Nat,
         CountExchange(t, k1, u, k2)
  PROVE  m_size' \in [Tree -> Int]
<1> DEFINE counted == [m_size EXCEPT ![t] = @ - k1 + k2]
<1>1. m_size \in [Tree -> Int]
  BY DEF IInv, TypeOK
<1>2. counted \in [Tree -> Int]
  BY <1>1
<1>3. m_size' = [counted EXCEPT ![u] = @ - k2 + k1]
  BY DEF CountExchange
<1> HIDE DEF counted
<1>4. QED
  BY <1>2, <1>3

\* swap_impl1, also between places below the same holder.
LEMMA SwapIntoPlaceKeeps ==
  ASSUME IInv, NEW t \in Tree, NEW u \in Tree,
         NEW h, Hung(parent, h), Len(children[h]) < Capacity(h), NEW c, IsNodeAt(c),
         SwapIntoPlace(t, h, u, c), Returns, UNCHANGED <<allocated, value, thrown>>
  PROVE  IInv'
<1> DEFINE n == NodeAt(children, c)
           g == c.m_node
           rem == [children EXCEPT ![g] = ChildRemoved(@, n)]
           s == IF h = g THEN Append(ChildRemoved(children[h], n), n) ELSE Append(children[h], n)
           att == [children EXCEPT ![h] = Append(@, n)]
<1>1. /\ LinkFacts /\ Links(children, parent, {}) /\ n \in Node /\ g \in Holder /\ parent[n] = g
      /\ n \in ToSet(children[g]) /\ h \in Holder /\ h \notin Desc(children, n)
  BY InvFacts, HolderFacts DEF IInv, IsNodeAt, SwapIntoPlace, Hung
<1>2. /\ children' = [att EXCEPT ![g] = ChildRemoved(@, n)]
      /\ parent' = [parent EXCEPT ![n] = h]
      /\ CountExchange(t, 0, u, Cardinality(Desc(children, n)))
  BY DEF SwapIntoPlace
<1> HIDE DEF n, g
<1>3. /\ ChildRemoved(children[g], n) \in Seq(Node) /\ IsInjective(ChildRemoved(children[g], n))
      /\ ToSet(ChildRemoved(children[g], n)) = ToSet(children[g]) \ {n}
      /\ Len(ChildRemoved(children[g], n)) = Len(children[g]) - 1
  BY <1>1, RemoveChildSet DEF LinkFacts
<1>4. rem[g] = ChildRemoved(children[g], n) /\ \A m \in Holder : m # g => rem[m] = children[m]
  BY <1>1 DEF LinkFacts
<1>5. /\ s \in Seq(Node) /\ IsInjective(s) /\ ToSet(s) = ToSet(rem[h]) \cup {n}
      /\ Len(s) <= Capacity(h)
  <2>0. \A a, b \in Nat : a < b => a + 1 <= b /\ a - 1 + 1 <= b
    OBVIOUS
  <2>1. Len(children[h]) \in Nat /\ Capacity(h) \in Nat
    BY <1>1, HolderFacts DEF LinkFacts, Capacity
  <2>2. CASE h = g
    <3> DEFINE r == ChildRemoved(children[g], n)
    <3>1. r \in Seq(Node) /\ IsInjective(r) /\ n \notin ToSet(r) /\ rem[h] = r
          /\ s = Append(r, n) /\ Len(r) = Len(children[h]) - 1
      BY <1>3, <1>4, <2>2
    <3> HIDE DEF r, s, rem
    <3>2. /\ s \in Seq(Node) /\ IsInjective(s) /\ ToSet(s) = ToSet(rem[h]) \cup {n}
          /\ Len(s) = Len(r) + 1
      BY <1>1, <3>1, AppendSet
    <3>3. Len(s) <= Capacity(h)
      BY <2>0, <2>1, <3>1, <3>2
    <3>4. QED
      BY <3>2, <3>3
  <2>3. CASE h # g
    <3>1. n \notin ToSet(children[h]) /\ rem[h] = children[h] /\ s = Append(children[h], n)
      BY <1>1, <1>4, <2>3 DEF LinkFacts
    <3>2. children[h] \in Seq(Node) /\ IsInjective(children[h])
      BY <1>1 DEF LinkFacts
    <3> HIDE DEF s, rem
    <3>3. /\ s \in Seq(Node) /\ IsInjective(s) /\ ToSet(s) = ToSet(rem[h]) \cup {n}
          /\ Len(s) = Len(children[h]) + 1
      BY <1>1, <3>1, <3>2, AppendSet
    <3>4. Len(s) <= Capacity(h)
      BY <2>0, <2>1, <3>3
    <3>5. QED
      BY <3>3, <3>4
  <2>4. QED
    BY <2>2, <2>3
<1>6. Links([rem EXCEPT ![h] = s], [parent EXCEPT ![n] = h], {})
  <2> HIDE DEF s
  <2>1. QED
    BY <1>1, <1>5, MoveKeeps
<1>7. [rem EXCEPT ![h] = s] = children'
  <2>1. CASE h = g
    <3>1. ChildRemoved(Append(children[g], n), n) = Append(ChildRemoved(children[g], n), n)
      BY <1>1, AppendRemove DEF LinkFacts
    <3>2. QED
      BY <1>1, <1>2, <2>1, <3>1 DEF LinkFacts
  <2>2. CASE h # g
    BY <1>1, <1>2, <2>2 DEF LinkFacts
  <2>3. QED
    BY <2>1, <2>2
<1>8. Links(children', parent', {})
  BY <1>2, <1>6, <1>7
<1>9. Unlinked(parent', allocated)
  BY <1>1, <1>2, HolderFacts DEF Unlinked, LinkFacts
<1>10. m_size' \in [Tree -> Int]
  <2>1. Desc(children, n) \in SUBSET Node
    BY DEF Desc
  <2>2. QED
    BY <1>2, <2>1, NodeSets, CountExchangeKeeps
<1>11. thrown' \in [Tree -> Nat] /\ outcome' \in {"ok", "max_size_error", "undefined"}
  BY DEF IInv, TypeOK, Returns
<1>12. QED
  BY <1>8, <1>9, <1>10, <1>11, RelinkKeeps

\* swap_impl2: two nodes change places, below two holders or below one.
LEMMA SwapNodesKeeps ==
  ASSUME IInv, NEW t \in Tree, NEW u \in Tree, NEW c1, IsNodeAt(c1), NEW c2, IsNodeAt(c2),
         SwapNodes(t, c1, u, c2), Returns, UNCHANGED <<allocated, value, thrown>>
  PROVE  IInv'
<1> DEFINE n1 == NodeAt(children, c1)
           n2 == NodeAt(children, c2)
           h1 == c1.m_node
           h2 == c2.m_node
           i1 == ChildIndex(children[h1], n1)
           i2 == ChildIndex(children[h2], n2)
           set1 == [children EXCEPT ![h1] = ReplaceAt(@, i1, n2)]
           B1 == Desc(children, n1)
           B2 == Desc(children, n2)
<1>1. /\ LinkFacts /\ Links(children, parent, {})
      /\ n1 \in Node /\ h1 \in Holder /\ parent[n1] = h1 /\ Hung(parent, h1) /\ h1 \notin B1
      /\ n2 \in Node /\ h2 \in Holder /\ parent[n2] = h2 /\ Hung(parent, h2) /\ h2 \notin B2
      /\ n1 \in ToSet(children[h1]) /\ n2 \in ToSet(children[h2])
  BY InvFacts DEF IInv, IsNodeAt
<1>2. /\ n1 # n2 => n1 \notin B2 /\ n2 \notin B1
      /\ children' = [set1 EXCEPT ![h2] = ReplaceAt(@, i2, n1)]
      /\ parent' = [parent EXCEPT ![n1] = h2, ![n2] = h1]
      /\ CountExchange(t, Cardinality(B1), u, Cardinality(B2))
  BY DEF SwapNodes
<1> HIDE DEF n1, n2, h1, h2
<1>3. /\ i1 \in 1 .. Len(children[h1]) /\ children[h1][i1] = n1
      /\ i2 \in 1 .. Len(children[h2]) /\ children[h2][i2] = n2
  BY <1>1, ChildIndexIs DEF LinkFacts
<1> HIDE DEF i1, i2
<1>4. ASSUME h1 = h2 PROVE Links(children', parent', {})
  <2> DEFINE q == children[h1]
             r == ReplaceAt(ReplaceAt(q, i1, q[i2]), i2, q[i1])
  <2>1. q \in Seq(Node) /\ IsInjective(q) /\ i1 \in 1 .. Len(q) /\ i2 \in 1 .. Len(q)
        /\ q[i1] = n1 /\ q[i2] = n2 /\ Len(q) <= Capacity(h1)
    BY <1>1, <1>3, <1>4 DEF LinkFacts
  <2>2. children' = [children EXCEPT ![h1] = r] /\ parent' = parent
    BY <1>1, <1>2, <1>4, <2>1 DEF LinkFacts
  <2>3. r \in Seq(Node) /\ IsInjective(r) /\ ToSet(r) = ToSet(q) /\ Len(r) = Len(q)
    <3> HIDE DEF q
    <3>1. QED
      BY <2>1, ExchangeSet
  <2> HIDE DEF r
  <2>4. Links([children EXCEPT ![h1] = r], parent, {})
    BY <1>1, <2>1, <2>3, ReorderKeeps
  <2>5. QED
    BY <2>2, <2>4
<1>5. ASSUME h1 # h2 PROVE Links(children', parent', {})
  <2> DEFINE q1 == ReplaceAt(children[h1], i1, n2)
             q2 == ReplaceAt(children[h2], i2, n1)
             ch1 == [children EXCEPT ![h1] = ChildRemoved(@, n1)]
             par1 == [parent EXCEPT ![n1] = Null]
             ch2 == [ch1 EXCEPT ![h2] = ChildRemoved(@, n2)]
             par2 == [par1 EXCEPT ![n2] = Null]
             ch3 == [ch2 EXCEPT ![h1] = q1]
             par3 == [par2 EXCEPT ![n2] = h1]
             ch4 == [ch3 EXCEPT ![h2] = q2]
             par4 == [par3 EXCEPT ![n1] = h2]
  <2>1. /\ n1 # n2 /\ n1 \notin B2 /\ n2 \notin B1
        /\ n1 \in B1 /\ n2 \in B2 /\ DownClosed(children, B1) /\ DownClosed(children, B2)
    <3>1. n1 \in B1 /\ n2 \in B2 /\ DownClosed(children, B1) /\ DownClosed(children, B2)
      BY <1>1, DescFacts DEF LinkFacts
    <3>2. n1 # n2
      BY <1>1, <1>5
    <3>3. QED
      BY <1>2, <3>1, <3>2
  <2> HIDE DEF B1, B2
  <2>2. /\ h1 \notin B1 /\ h1 \notin B2 /\ h2 \notin B1 /\ h2 \notin B2
        /\ h1 # n1 /\ h1 # n2 /\ h2 # n1 /\ h2 # n2
    BY <1>1, <2>1 DEF DownClosed
  <2>3. /\ q1 \in Seq(Node) /\ IsInjective(q1) /\ Len(q1) = Len(children[h1])
        /\ ToSet(q1) = (ToSet(children[h1]) \ {n1}) \cup {n2}
    <3>1. n2 \notin ToSet(children[h1])
      BY <1>1, <1>5 DEF LinkFacts
    <3>2. QED
      BY <1>1, <1>3, <3>1, ReplaceAtSet DEF LinkFacts
  <2>4. /\ q2 \in Seq(Node) /\ IsInjective(q2) /\ Len(q2) = Len(children[h2])
        /\ ToSet(q2) = (ToSet(children[h2]) \ {n2}) \cup {n1}
    <3>1. n1 \notin ToSet(children[h2])
      BY <1>1, <1>5 DEF LinkFacts
    <3>2. QED
      BY <1>1, <1>3, <3>1, ReplaceAtSet DEF LinkFacts
  <2> HIDE DEF q1, q2
  <2>5. /\ Links(ch1, par1, {} \cup {n1}) /\ par1[n2] = h2
        /\ ToSet(ch1[h1]) = ToSet(children[h1]) \ {n1}
        /\ \A m \in Holder : m # h1 => ch1[m] = children[m]
        /\ \A m \in Node : m # n1 => par1[m] = parent[m]
        /\ par1[n1] = Null
    <3>1. Links(ch1, par1, {} \cup {n1})
      BY <1>1, UnlinkKeeps
    <3>2. ToSet(ChildRemoved(children[h1], n1)) = ToSet(children[h1]) \ {n1}
      BY <1>1, RemoveChildSet DEF LinkFacts
    <3>3. QED
      BY <1>1, <2>1, <3>1, <3>2 DEF LinkFacts
  <2>6. /\ Links(ch2, par2, ({} \cup {n1}) \cup {n2})
        /\ ToSet(ch2[h2]) = ToSet(children[h2]) \ {n2}
        /\ ToSet(ch2[h1]) = ToSet(children[h1]) \ {n1}
        /\ \A m \in Holder : m # h1 /\ m # h2 => ch2[m] = children[m]
        /\ \A m \in Node : m # n1 /\ m # n2 => par2[m] = parent[m]
        /\ par2[n1] = Null /\ par2[n2] = Null
    <3> HIDE DEF ch1, par1
    <3>1. Links(ch2, par2, ({} \cup {n1}) \cup {n2})
      BY <1>1, <2>5, UnlinkKeeps
    <3>2. ToSet(ChildRemoved(children[h2], n2)) = ToSet(children[h2]) \ {n2}
      BY <1>1, RemoveChildSet DEF LinkFacts
    <3>3. ch1 \in [Holder -> Seq(Node)] /\ par1 \in [Node -> Holder \cup {Null}]
      BY <2>5 DEF Links
    <3>4. QED
      BY <1>1, <1>5, <2>1, <2>5, <3>1, <3>2, <3>3
  <2>7. (({} \cup {n1}) \cup {n2}) \ {n2} = {n1} /\ {n1} \ {n1} = {}
    BY <2>1
  <2> HIDE DEF ch2, par2
  <2>8. ch2 \in [Holder -> Seq(Node)] /\ par2 \in [Node -> Holder \cup {Null}]
    BY <2>6 DEF Links
  <2>9. Links(ch3, par3, {n1})
    <3>1. h1 \in Tree \/ par2[h1] # Null
      <4>1. h1 \in Node => par2[h1] = parent[h1]
        BY <2>2, <2>6
      <4>2. QED
        BY <1>1, <4>1 DEF Hung
    <3>2. DownClosed(ch2, B2)
      BY <2>1, <2>2, <2>6, HolderFacts DEF DownClosed
    <3>3. ToSet(q1) = ToSet(ch2[h1]) \cup {n2} /\ Len(q1) <= Capacity(h1)
      BY <1>1, <2>3, <2>6 DEF LinkFacts
    <3>4. Links(ch3, par3, (({} \cup {n1}) \cup {n2}) \ {n2})
      <4>1. n2 \in Node /\ h1 \in Holder /\ par2[n2] = Null /\ n2 \in B2 /\ h1 \notin B2
        BY <1>1, <2>1, <2>2, <2>6
      <4>2. QED
        BY <2>3, <2>6, <3>1, <3>2, <3>3, <4>1, LinkKeeps
    <3>5. QED
      BY <2>7, <3>4
  <2>10. /\ ToSet(ch3[h2]) = ToSet(children[h2]) \ {n2}
         /\ \A m \in Holder : m # h1 /\ m # h2 => ch3[m] = children[m]
         /\ \A m \in Node : m # n1 /\ m # n2 => par3[m] = parent[m]
         /\ par3[n1] = Null
    <3>1. ch3[h2] = ch2[h2] /\ \A m \in Holder : m # h1 => ch3[m] = ch2[m]
      BY <1>1, <1>5, <2>8
    <3>2. \A m \in Node : m # n2 => par3[m] = par2[m]
      BY <2>8
    <3> HIDE DEF ch3, par3
    <3>3. QED
      BY <1>1, <2>1, <2>6, <3>1, <3>2
  <2> HIDE DEF ch3, par3
  <2>11. Links(ch4, par4, {})
    <3>1. h2 \in Tree \/ par3[h2] # Null
      <4>1. h2 \in Node => par3[h2] = parent[h2]
        BY <2>2, <2>10
      <4>2. QED
        BY <1>1, <4>1 DEF Hung
    <3>2. DownClosed(ch3, B1)
      BY <2>1, <2>2, <2>10, HolderFacts DEF DownClosed
    <3>3. ToSet(q2) = ToSet(ch3[h2]) \cup {n1} /\ Len(q2) <= Capacity(h2)
      BY <1>1, <2>4, <2>10 DEF LinkFacts
    <3>4. Links(ch4, par4, {n1} \ {n1})
      BY <1>1, <2>1, <2>2, <2>4, <2>9, <2>10, <3>1, <3>2, <3>3, LinkKeeps
    <3>5. QED
      BY <2>7, <3>4
  <2>12. ch4 = children'
    BY <1>1, <1>2, <1>5 DEF LinkFacts, ch3, ch2, q1, q2
  <2>13. par4 = parent'
    BY <1>1, <1>2, <2>1 DEF LinkFacts, par3, par2
  <2>14. QED
    BY <2>11, <2>12, <2>13
<1>6. Links(children', parent', {})
  BY <1>4, <1>5
<1>7. Unlinked(parent', allocated)
  BY <1>1, <1>2, HolderFacts DEF Unlinked, LinkFacts
<1>8. m_size' \in [Tree -> Int]
  <2>1. B1 \in SUBSET Node /\ B2 \in SUBSET Node
    BY DEF Desc
  <2> HIDE DEF B1, B2
  <2>2. QED
    BY <1>2, <2>1, NodeSets, CountExchangeKeeps
<1>9. thrown' \in [Tree -> Nat] /\ outcome' \in {"ok", "max_size_error", "undefined"}
  BY DEF IInv, TypeOK, Returns
<1>10. QED
  BY <1>6, <1>7, <1>8, <1>9, RelinkKeeps

\* move_subtree: node1 is cut off, what is left below node2 freed, and node1
\* hung in at its place.
LEMMA MoveSubtreeKeeps ==
  ASSUME IInv, NEW t \in Tree, NEW p, IsNodeAt(p), NEW c, IsNodeAt(c), MoveSubtree(t, p, c)
  PROVE  IInv'
<1> DEFINE node1 == NodeAt(children, c)
           node2 == NodeAt(children, p)
           g == c.m_node
           h == parent[node2]
           rem == [children EXCEPT ![g] = ChildRemoved(@, node1)]
           k == ChildIndex(rem[h], node2)
           D == Desc(rem, node2)
           q == ReplaceAt(rem[h], k, node1)
           B == Desc(children, node1)
           par1 == [parent EXCEPT ![node1] = Null]
<1>1. /\ LinkFacts /\ Links(children, parent, {})
      /\ node1 \in Node /\ g \in Holder /\ parent[node1] = g /\ g \notin B
      /\ node2 \in Node /\ h \in Holder /\ Hung(parent, h)
      /\ node1 \in ToSet(children[g])
  BY InvFacts DEF IInv, IsNodeAt
<1>2. /\ node2 \notin B /\ Returns /\ UNCHANGED thrown
      /\ Deallocate(t, D, [rem EXCEPT ![h] = q], [parent EXCEPT ![node1] = h])
  BY DEF MoveSubtree
<1> HIDE DEF node1, g
<1>3. node1 \in B /\ DownClosed(children, B) /\ node2 # node1
  BY <1>1, <1>2, DescFacts DEF LinkFacts
<1>4. node2 \in ToSet(children[h])
  BY <1>1 DEF LinkFacts
<1> HIDE DEF node2, h
<1>5. h \notin B /\ h # node1
  BY <1>2, <1>3, <1>4 DEF DownClosed
<1> HIDE DEF B
<1>6. /\ Links(rem, par1, {node1})
      /\ \A m \in Holder : m # g => rem[m] = children[m]
      /\ \A m \in Node : m # node1 => par1[m] = parent[m]
      /\ par1[node1] = Null /\ rem[g] = ChildRemoved(children[g], node1)
      /\ rem \in [Holder -> Seq(Node)]
      /\ par1 \in [Node -> Holder \cup {Null}]
  <2>1. Links(rem, par1, {} \cup {node1})
    BY <1>1, UnlinkKeeps
  <2>2. {} \cup {node1} = {node1}
    OBVIOUS
  <2>3. rem \in [Holder -> Seq(Node)] /\ par1 \in [Node -> Holder \cup {Null}]
    BY <2>1 DEF Links
  <2>4. QED
    BY <1>1, <2>1, <2>2, <2>3 DEF LinkFacts
<1> HIDE DEF par1, rem
<1>7. /\ par1[node2] = h /\ node2 \in ToSet(rem[h]) /\ node1 \notin ToSet(rem[h])
      /\ IsInjective(rem[h]) /\ rem[h] \in Seq(Node) /\ Len(rem[h]) <= Capacity(h)
  <2>1. /\ \A n \in Node, m \in Holder : n \in ToSet(rem[m]) <=> par1[n] = m
        /\ IsInjective(rem[h]) /\ Len(rem[h]) <= Capacity(h)
    BY <1>1, <1>6 DEF Links, Dual
  <2>2. par1[node2] = h
    BY <1>1, <1>3, <1>6 DEF h
  <2>3. QED
    BY <1>1, <1>6, <2>1, <2>2, HolderFacts
<1>8. k \in 1 .. Len(rem[h]) /\ rem[h][k] = node2
  BY <1>7, ChildIndexIs
<1> HIDE DEF k
<1>9. /\ q \in Seq(Node) /\ IsInjective(q) /\ Len(q) = Len(rem[h])
      /\ ToSet(q) = (ToSet(rem[h]) \ {node2}) \cup {node1}
  BY <1>1, <1>7, <1>8, ReplaceAtSet
<1> HIDE DEF q
<1> DEFINE s == ChildRemoved(rem[h], node2)
           ch2 == Freed([rem EXCEPT ![h] = s], D)
           par2 == Cleared(par1, D)
<1>10. /\ s \in Seq(Node) /\ IsInjective(s) /\ ToSet(s) = ToSet(rem[h]) \ {node2}
       /\ Len(s) = Len(rem[h]) - 1
  BY <1>7, RemoveChildSet
<1> HIDE DEF s
<1>11. /\ Cut(rem, par1, D, h) /\ ToSet(rem[h]) \ D = ToSet(rem[h]) \ {node2}
       /\ node2 \in D
  <2>1. par1[node2] # Null
    BY <1>1, <1>7, HolderFacts
  <2>2. Cut(rem, par1, D, par1[node2]) /\ ToSet(rem[par1[node2]]) \ D = ToSet(rem[par1[node2]]) \ {node2}
    BY <1>1, <1>6, <2>1, DescIsCut
  <2>3. QED
    BY <1>1, <1>6, <1>7, <2>2, DescFacts
<1> HIDE DEF D
<1>12. Len(s) <= Capacity(h)
  <2>1. Len(rem[h]) \in Nat /\ Capacity(h) \in Nat
    BY <1>1, <1>7, LenProperties, HolderFacts DEF Capacity
  <2>2. \A a, b \in Nat : a <= b => a - 1 <= b
    OBVIOUS
  <2>3. QED
    BY <1>7, <1>10, <2>1, <2>2
<1>13. Links(ch2, par2, {node1} \ D)
  <2>1. ToSet(s) = ToSet(rem[h]) \ D
    BY <1>10, <1>11
  <2>2. QED
    BY <1>6, <1>10, <1>11, <1>12, <2>1, FreeKeeps
<1>14. D \subseteq Node /\ h \notin D /\ node1 \notin D
  BY <1>1, <1>6, <1>11, HolderFacts DEF Cut, DownClosed
<1>15. /\ ch2[h] = s /\ \A m \in D : ch2[m] = <<>>
       /\ \A m \in Holder \ D : m # h => ch2[m] = rem[m]
       /\ par2[node1] = Null /\ \A m \in Node \ D : par2[m] = par1[m]
       /\ ch2 \in [Holder -> Seq(Node)]
  <2>1. ch2 \in [Holder -> Seq(Node)]
    BY <1>13 DEF Links
  <2>2. QED
    BY <1>1, <1>6, <1>14, <2>1, HolderFacts DEF Freed, Cleared
<1> HIDE DEF ch2, par2
<1>16. Links([ch2 EXCEPT ![h] = q], [par2 EXCEPT ![node1] = h], {})
  <2>1. DownClosed(ch2, B)
    <3>1. ASSUME NEW m \in B PROVE ToSet(ch2[m]) \subseteq B
      <4>1. m \in Holder /\ m # h /\ m # g /\ ToSet(children[m]) \subseteq B
        BY <1>1, <1>3, <1>5, HolderFacts DEF DownClosed
      <4>2. CASE m \in D
        BY <1>15, <4>2, EmptyChildren
      <4>3. CASE m \notin D
        BY <1>6, <1>15, <4>1, <4>3
      <4>4. QED
        BY <4>2, <4>3
    <3>2. QED
      BY <1>3, <3>1 DEF DownClosed
  <2>2. h \in Tree \/ par2[h] # Null
    <3>1. h \in Node => par2[h] = parent[h]
      BY <1>5, <1>6, <1>14, <1>15
    <3>2. QED
      BY <1>1, <3>1 DEF Hung
  <2>3. ToSet(q) = ToSet(ch2[h]) \cup {node1} /\ Len(q) <= Capacity(h)
    BY <1>7, <1>9, <1>10, <1>15
  <2>4. Links([ch2 EXCEPT ![h] = q], [par2 EXCEPT ![node1] = h], ({node1} \ D) \ {node1})
    BY <1>1, <1>3, <1>5, <1>9, <1>13, <1>15, <2>1, <2>2, <2>3, LinkKeeps
  <2>5. ({node1} \ D) \ {node1} = {}
    OBVIOUS
  <2>6. QED
    BY <2>4, <2>5
<1>17. [ch2 EXCEPT ![h] = q] = Freed([rem EXCEPT ![h] = q], D)
  BY <1>1, <1>6, <1>14 DEF Freed, ch2
<1>18. [par2 EXCEPT ![node1] = h] = Cleared([parent EXCEPT ![node1] = h], D)
  BY <1>1, <1>6, <1>14 DEF Cleared, par2, par1, LinkFacts
<1>19. thrown' \in [Tree -> Nat] /\ Unlinked([parent EXCEPT ![node1] = h], allocated)
  BY <1>1, <1>2, HolderFacts DEF IInv, TypeOK, Unlinked, LinkFacts
<1>20. QED
  BY <1>2, <1>14, <1>16, <1>17, <1>18, <1>19, DeallocateKeeps

\* move_and_insert_subtree
LEMMA MoveAndInsertSubtreeKeeps ==
  ASSUME IInv, NEW t \in Tree, NEW p, IsNodeAt(p), NEW c, IsNodeAt(c),
         MoveAndInsertSubtree(t, p, c)
  PROVE  IInv'
<1> DEFINE node1 == NodeAt(children, c)
           node2 == NodeAt(children, p)
           g == parent[node1]
           h == parent[node2]
           rem == [children EXCEPT ![g] = ChildRemoved(@, node1)]
           k == ChildIndex(rem[h], node2)
           q == InsertAt(rem[h], k, node1)
           B == Desc(children, node1)
<1>1. /\ LinkFacts /\ Links(children, parent, {})
      /\ node1 \in Node /\ g \in Holder
      /\ node2 \in Node /\ h \in Holder /\ Hung(parent, h)
      /\ node1 \in ToSet(children[g])
      /\ h \in Tree => IsRoot(p)
  BY InvFacts DEF IInv, IsNodeAt
<1>u. CASE Undefined
  BY <1>u, UndefinedKeeps
<1> SUFFICES ASSUME ~Undefined PROVE IInv'
  BY <1>u
<1>2. /\ ~IsRoot(p) /\ node2 \notin B /\ Returns
      /\ Len(rem[h]) < MaxArity
      /\ children' = [rem EXCEPT ![h] = q]
      /\ parent' = [parent EXCEPT ![node1] = h]
      /\ UNCHANGED <<allocated, value, m_size, thrown>>
  BY DEF MoveAndInsertSubtree
<1> HIDE DEF node1
<1>3. node1 \in B /\ DownClosed(children, B) /\ node2 # node1
  BY <1>1, <1>2, DescFacts DEF LinkFacts
<1>4. node2 \in ToSet(children[h])
  BY <1>1 DEF LinkFacts
<1> HIDE DEF node2
<1>5. h \notin B /\ Capacity(h) = MaxArity
  BY <1>1, <1>2, <1>3, <1>4 DEF DownClosed, Capacity
<1>6. /\ ChildRemoved(children[g], node1) \in Seq(Node)
      /\ IsInjective(ChildRemoved(children[g], node1))
      /\ ToSet(ChildRemoved(children[g], node1)) = ToSet(children[g]) \ {node1}
  BY <1>1, RemoveChildSet DEF LinkFacts
<1>7. rem[g] = ChildRemoved(children[g], node1) /\ \A m \in Holder : m # g => rem[m] = children[m]
  BY <1>1 DEF LinkFacts
<1> HIDE DEF rem
<1>8. /\ rem[h] \in Seq(Node) /\ IsInjective(rem[h])
      /\ node1 \notin ToSet(rem[h]) /\ node2 \in ToSet(rem[h])
  <2>1. CASE h = g
    BY <1>3, <1>4, <1>6, <1>7, <2>1
  <2>2. CASE h # g
    <3>1. rem[h] = children[h]
      BY <1>1, <1>7, <2>2
    <3>2. node1 \notin ToSet(children[h])
      BY <1>1, <2>2 DEF LinkFacts
    <3>3. QED
      BY <1>1, <1>4, <3>1, <3>2 DEF LinkFacts
  <2>3. QED
    BY <2>1, <2>2
<1> HIDE DEF g, h
<1>9. k \in 1 .. Len(rem[h]) + 1
  <2>1. k \in 1 .. Len(rem[h]) /\ Len(rem[h]) \in Nat
    BY <1>8, ChildIndexIs, LenProperties
  <2>2. QED
    BY <2>1
<1> HIDE DEF k
<1>10. /\ q \in Seq(Node) /\ IsInjective(q) /\ ToSet(q) = ToSet(rem[h]) \cup {node1}
       /\ Len(q) = Len(rem[h]) + 1
  BY <1>1, <1>8, <1>9, InsertAtSet
<1> HIDE DEF q
<1>11. Len(q) <= Capacity(h)
  <2>1. Len(rem[h]) \in Nat /\ MaxArity \in Nat
    BY <1>8, LenProperties, HolderFacts
  <2>2. \A a, b \in Nat : a < b => a + 1 <= b
    OBVIOUS
  <2>3. QED
    BY <1>2, <1>5, <1>10, <2>1, <2>2
<1>12. Links([rem EXCEPT ![h] = q], [parent EXCEPT ![node1] = h], {})
  <2>1. rem = [children EXCEPT ![g] = ChildRemoved(@, node1)] /\ parent[node1] = g
    BY DEF rem, g
  <2>2. QED
    BY <1>1, <1>5, <1>10, <1>11, <2>1, MoveKeeps
<1>13. Links(children', parent', {})
  BY <1>2, <1>12
<1>14. Unlinked(parent', allocated)
  BY <1>1, <1>2, HolderFacts DEF Unlinked, LinkFacts, g
<1>15. /\ m_size' \in [Tree -> Int] /\ thrown' \in [Tree -> Nat]
       /\ outcome' \in {"ok", "max_size_error", "undefined"}
  BY <1>2 DEF IInv, TypeOK, Returns
<1>16. QED
  BY <1>2, <1>13, <1>14, <1>15, RelinkKeeps

\* swap_subtrees, whichever of the two cursors designate a node.
LEMMA SwapSubtreesKeeps ==
  ASSUME IInv, NEW t \in Tree, NEW u \in Tree,
         NEW c1, ~PastArray(c1) => IsNodeAt(c1) \/ IsEnd(c1),
         NEW c2, ~PastArray(c2) => IsNodeAt(c2) \/ IsEnd(c2),
         SwapSubtrees(t, c1, u, c2)
  PROVE  IInv'
<1>u. CASE Undefined
  BY <1>u, UndefinedKeeps
<1> SUFFICES ASSUME ~Undefined PROVE IInv'
  BY <1>u
<1>0. ~PastArray(c1) /\ ~PastArray(c2)
  BY DEF SwapSubtrees
<1>1. Returns /\ UNCHANGED <<allocated, value, thrown>>
  BY DEF SwapSubtrees
<1>2. /\ Valid(c1) => IsNodeAt(c1)
      /\ ~Valid(c1) => Hung(parent, c1.m_node) /\ Len(children[c1.m_node]) < Capacity(c1.m_node)
      /\ Valid(c2) => IsNodeAt(c2)
      /\ ~Valid(c2) => Hung(parent, c2.m_node) /\ Len(children[c2.m_node]) < Capacity(c2.m_node)
  BY <1>0 DEF IsNodeAt, IsEnd
<1>3. CASE Valid(c1) /\ Valid(c2) /\ SwapNodes(t, c1, u, c2)
  BY <1>1, <1>2, <1>3, SwapNodesKeeps
<1>4. CASE ~Valid(c1) /\ Valid(c2) /\ SwapIntoPlace(t, c1.m_node, u, c2)
  BY <1>1, <1>2, <1>4, SwapIntoPlaceKeeps
<1>5. CASE Valid(c1) /\ ~Valid(c2) /\ SwapIntoPlace(u, c2.m_node, t, c1)
  BY <1>1, <1>2, <1>5, SwapIntoPlaceKeeps
<1>6. CASE UNCHANGED <<children, parent, m_size>>
  BY <1>1, <1>6, NothingKeeps
<1>7. QED
  BY <1>3, <1>4, <1>5, <1>6 DEF SwapSubtrees

-----------------------------------------------------------------------------
\* Nothing is allocated at first.
LEMMA InvInit == Init => IInv
<1> SUFFICES ASSUME Init PROVE IInv
  OBVIOUS
<1>1. TypeOK
  BY EmptyChildren DEF Init, TypeOK
<1>2. Dual(children, parent)
  BY EmptyChildren, HolderFacts DEF Init, Dual
<1>3. Ends(parent)
  BY HolderFacts DEF Init, Ends
<1>4. \A h \in Holder : Len(children[h]) <= Capacity(h)
  BY EmptyChildren, HolderFacts DEF Init, Capacity
<1>5. \A n \in Node : children[n] = <<>>
  BY HolderFacts DEF Init
<1>6. Links(children, parent, {})
  BY <1>1, <1>2, <1>3, <1>4, <1>5 DEF Links, TypeOK
<1>7. Unlinked(parent, allocated)
  BY DEF Init, Unlinked
<1>8. QED
  BY <1>1, <1>6, <1>7 DEF IInv

\* Every call leaves the links as it should.
LEMMA InvNext == IInv /\ [Next]_vars => IInv'
<1> SUFFICES ASSUME IInv, [Next]_vars PROVE IInv'
  OBVIOUS
<1>1. CASE UNCHANGED vars
  <2>1. Links(children', parent', {}) /\ Unlinked(parent', allocated)
    BY <1>1 DEF vars, IInv
  <2>2. QED
    BY <1>1, <2>1, RelinkKeeps DEF vars, IInv, TypeOK
<1>2. ASSUME NEW t \in Tree, NEW p \in NodeCursors(t) \cup EmptyPlaces(t), NEW v \in Value,
             InsertBelow(t, p, v) \/ Insert(t, p, v) \/ InsertAbove(t, p, v)
      PROVE  IInv'
  BY <1>2, CursorFacts, InsertBelowKeeps, InsertKeeps, InsertAboveKeeps
<1>3. ASSUME NEW t \in Tree, NEW p \in NodeCursors(t) \cup EmptyPlaces(t), Erase(t, p)
      PROVE  IInv'
  <2>1. Valid(p) => IsNodeAt(p)
    BY CursorFacts DEF IsEnd
  <2>2. QED
    BY <1>3, <2>1, EraseKeeps
<1>4. ASSUME NEW t \in Tree, NEW p \in NodeCursors(t) \cup EmptyPlaces(t),
             NEW u \in Tree, NEW c \in NodeCursors(u),
             InsertBelowSubtree(t, p, c) \/ InsertSubtree(t, p, c)
      PROVE  IInv'
  BY <1>4, CursorFacts, InsertBelowSubtreeKeeps, InsertSubtreeKeeps
<1>5. ASSUME NEW t \in Tree, NEW u \in Tree, NEW p \in NodeCursors(t), NEW c \in NodeCursors(u),
             AssignAt(t, p, c)
      PROVE  IInv'
  BY <1>5, CursorFacts, AssignAtKeeps
<1>6. ASSUME NEW t \in Tree, NEW u \in Tree \ {t}, NEW c \in NodeCursors(u), AssignTree(t, c)
      PROVE  IInv'
  BY <1>6, CursorFacts, AssignTreeKeeps
<1>7. ASSUME NEW t \in Tree, NEW u \in Tree,
             CopyAssign(t, u) \/ MoveAssign(t, u) \/ Swap(t, u) \/ Compare(t, u)
      PROVE  IInv'
  BY <1>7, CopyAssignKeeps, MoveAssignKeeps, SwapKeeps, CompareKeeps
<1>8. ASSUME NEW t \in Tree, Clear(t) PROVE IInv'
  BY <1>8, ClearKeeps
<1>9. ASSUME NEW t \in Tree, NEW u \in Tree, NEW c1 \in NodeCursors(t) \cup EndPlaces(t),
             NEW c2 \in NodeCursors(u) \cup EndPlaces(u), SwapSubtrees(t, c1, u, c2)
      PROVE  IInv'
  BY <1>9, CursorFacts, SwapSubtreesKeeps
<1>10. ASSUME NEW t \in Tree, NEW p \in NodeCursors(t), NEW c \in NodeCursors(t),
              MoveSubtree(t, p, c) \/ MoveAndInsertSubtree(t, p, c)
       PROVE  IInv'
  BY <1>10, CursorFacts, MoveSubtreeKeeps, MoveAndInsertSubtreeKeeps
<1>11. QED
  BY <1>1, <1>2, <1>3, <1>4, <1>5, <1>6, <1>7, <1>8, <1>9, <1>10 DEF Next

\* The invariant in the model's own terms.
LEMMA InvImplies == IInv => TypeOK /\ LinksConsistent /\ ParentsEnd
<1> SUFFICES ASSUME IInv PROVE TypeOK /\ LinksConsistent /\ ParentsEnd
  OBVIOUS
<1>1. LinksConsistent
  BY DEF IInv, Links, Dual, Unlinked, LinksConsistent
<1>2. ParentsEnd
  BY DEF IInv, Links, Ends, ParentsEnd
<1>3. QED
  BY <1>1, <1>2 DEF IInv

\* Nodes are allocated exactly while they carry a value, whatever is called.
THEOREM TypeCorrect == Spec => []TypeOK
<1>1. IInv => TypeOK
  BY InvImplies
<1>2. QED
  BY InvInit, InvNext, <1>1, PTL DEF Spec

\* Children and m_parent agree after every call: inserts, copies, swaps, moves
\* and removals leave every node exactly once in the children of its parent.
THEOREM LinksStayConsistent == Spec => []LinksConsistent
<1>1. IInv => LinksConsistent
  BY InvImplies
<1>2. QED
  BY InvInit, InvNext, <1>1, PTL DEF Spec

\* No call closes a cycle of parents, so every ascent ends at a header.
THEOREM AscentEnds == Spec => []ParentsEnd
<1>1. IInv => ParentsEnd
  BY InvImplies
<1>2. QED
  BY InvInit, InvNext, <1>1, PTL DEF Spec

-----------------------------------------------------------------------------
\* The links alone make a forest: a set of linked nodes that no header reaches
\* would hold all their parents, and so would the nodes of two trees.
LEMMA LinksMakeForest == IInv => Forest
<1> SUFFICES ASSUME IInv PROVE Forest
  OBVIOUS
<1>1. LinkFacts /\ Links(children, parent, {}) /\ Ends(parent)
  BY InvFacts DEF IInv, Links
<1>2. \A h \in Holder : /\ h \notin Below(children, h)
                        /\ DownClosed(children, Below(children, h))
                        /\ ToSet(children[h]) \subseteq Below(children, h)
                        /\ \A m \in Below(children, h) : parent[m] \in Below(children, h) \cup {h}
  BY <1>1, BelowIsCut DEF Cut
<1>3. \A n \in Node : n \notin Below(children, n)
  BY <1>2, HolderFacts
<1>4. ASSUME NEW n \in Node, parent[n] # Null PROVE \E t \in Tree : n \in NodesOf(t)
  <2> DEFINE S == {m \in Node : parent[m] # Null /\ \A t \in Tree : m \notin NodesOf(t)}
  <2>1. ASSUME NEW m \in S PROVE parent[m] \in S
    <3> DEFINE h == parent[m]
    <3>1. h \in Holder /\ m \in ToSet(children[h])
      BY <1>1 DEF LinkFacts
    <3>2. h \notin Tree
      BY <1>2, <3>1 DEF NodesOf
    <3>3. h \in Node /\ children[h] # <<>>
      BY <3>1, <3>2, HolderFacts, EmptyChildren
    <3>4. parent[h] # Null
      BY <1>1, <3>3 DEF LinkFacts
    <3>5. ASSUME NEW t \in Tree, h \in NodesOf(t) PROVE FALSE
      <4>1. m \in NodesOf(t)
        BY <1>2, <3>1, <3>5, HolderFacts DEF NodesOf, DownClosed
      <4>2. QED
        BY <4>1
    <3>6. QED
      BY <3>3, <3>4, <3>5
  <2>2. S = {}
    <3>1. S \in SUBSET Node
      OBVIOUS
    <3> HIDE DEF S
    <3>2. QED
      BY <1>1, <2>1, <3>1 DEF Ends
  <2>3. QED
    BY <1>4, <2>2
<1>5. ASSUME NEW t \in Tree, NEW u \in Tree, t # u PROVE NodesOf(t) \cap NodesOf(u) = {}
  <2> DEFINE S == NodesOf(t) \cap NodesOf(u)
  <2>1. S \in SUBSET Node /\ t \notin NodesOf(u) /\ u \notin NodesOf(t)
    BY <1>2, HolderFacts DEF NodesOf, DownClosed
  <2>2. \A m \in S : parent[m] \in S
    BY <1>2, <1>5, <2>1, HolderFacts DEF NodesOf
  <2> HIDE DEF S
  <2>3. S = {}
    BY <1>1, <2>1, <2>2 DEF Ends
  <2>4. QED
    BY <2>3 DEF S
<1>6. QED
  BY <1>3, <1>4, <1>5 DEF Forest

\* Every linked node is reached from exactly one header and never below itself.
THEOREM ForestKept == Spec => []Forest
BY InvInit, InvNext, LinksMakeForest, PTL DEF Spec

-----------------------------------------------------------------------------
(* The nodes of the trees, from the parents.                                 *)

\* The nodes below a holder are those whose parent is, or is the holder.
LEMMA BelowParents ==
  ASSUME NEW ch, NEW par, Links(ch, par, {}), NEW h \in Holder
  PROVE  /\ Below(ch, h) \subseteq Node /\ h \notin Below(ch, h)
         /\ \A n \in Node : n \in Below(ch, h) <=> par[n] \in Below(ch, h) \cup {h}
<1> DEFINE B == Below(ch, h)
<1>1. /\ DownClosed(ch, B) /\ h \notin B /\ ToSet(ch[h]) \subseteq B
      /\ \A m \in B : par[m] \in B \cup {h}
  BY BelowIsCut DEF Cut
<1>2. \A n \in Node, k \in Holder : n \in ToSet(ch[k]) <=> par[n] = k
  BY DEF Links, Dual
<1> HIDE DEF B
<1>3. B \subseteq Node
  BY <1>1 DEF DownClosed
<1>4. ASSUME NEW n \in Node, par[n] \in B \cup {h} PROVE n \in B
  BY <1>1, <1>2, <1>3, <1>4, HolderFacts DEF DownClosed
<1>5. QED
  BY <1>1, <1>3, <1>4 DEF B

\* ... and no other set of nodes has that property.
LEMMA BelowIsUnique ==
  ASSUME NEW ch, NEW par, Links(ch, par, {}), NEW h \in Holder, NEW N \in SUBSET Node,
         \A n \in Node : n \in N <=> par[n] \in N \cup {h}, h \notin N
  PROVE  Below(ch, h) = N
<1> DEFINE B == Below(ch, h)
<1>1. /\ B \subseteq Node /\ h \notin B
      /\ \A n \in Node : n \in B <=> par[n] \in B \cup {h}
  BY BelowParents
<1> HIDE DEF B
<1>2. Ends(par)
  BY DEF Links
<1>3. N \ B = {}
  <2>1. N \ B \in SUBSET Node /\ \A n \in N \ B : par[n] \in N \ B
    BY <1>1
  <2>2. QED
    BY <1>2, <2>1 DEF Ends
<1>4. B \ N = {}
  <2>1. B \ N \in SUBSET Node /\ \A n \in B \ N : par[n] \in B \ N
    BY <1>1
  <2>2. QED
    BY <1>2, <2>1 DEF Ends
<1>5. QED
  BY <1>3, <1>4 DEF B

\* Two trees share no node.
LEMMA TreesApart ==
  ASSUME NEW ch, NEW par, Links(ch, par, {}), NEW t \in Tree, NEW u \in Tree, t # u
  PROVE  Below(ch, t) \cap Below(ch, u) = {}
<1> DEFINE T == Below(ch, t)
           U == Below(ch, u)
<1>1. /\ T \subseteq Node /\ U \subseteq Node
      /\ \A n \in Node : n \in T <=> par[n] \in T \cup {t}
      /\ \A n \in Node : n \in U <=> par[n] \in U \cup {u}
  BY BelowParents, HolderFacts
<1> HIDE DEF T, U
<1>2. T \cap U \in SUBSET Node /\ \A n \in T \cap U : par[n] \in T \cap U
  BY <1>1, HolderFacts
<1>3. T \cap U = {}
  BY <1>2 DEF Links, Ends
<1>4. QED
  BY <1>3 DEF T, U

\* An unlinked node is in no tree and no node's parent.
LEMMA UnlinkedOutside ==
  ASSUME NEW ch, NEW par, Links(ch, par, {}), NEW n \in Node, par[n] = Null
  PROVE  /\ \A w \in Tree : n \notin Below(ch, w)
         /\ \A m \in Node : par[m] # n
<1>1. \A w \in Tree : n \notin Below(ch, w)
  BY BelowParents, HolderFacts
<1>2. ASSUME NEW m \in Node, par[m] = n PROVE FALSE
  <2>1. m \in ToSet(ch[n]) /\ ch[n] = <<>>
    BY <1>2, HolderFacts DEF Links, Dual
  <2>2. QED
    BY <2>1, EmptyChildren
<1>3. QED
  BY <1>1, <1>2

\* One tree t changes: it loses the nodes of D, gets the unlinked ones of F, and
\* may be rearranged; the nodes outside keep their parents.
OneTree(ch, par, ch2, par2, t, D, F, N) ==
  /\ Links(ch, par, {}) /\ Links(ch2, par2, {})
  /\ F \subseteq Node /\ \A n \in F : par[n] = Null
  /\ N = (Below(ch, t) \ D) \cup F
  /\ \A n \in N : par2[n] \in N \cup {t}
  /\ \A n \in Below(ch, t) \ N : par2[n] = Null
  /\ \A n \in Node \ (Below(ch, t) \cup F) : par2[n] = par[n]

\* Where the links of one tree change, what is below the others stays.
LEMMA OneTreeChanges ==
  ASSUME NEW t \in Tree, NEW ch, NEW par, NEW ch2, NEW par2, NEW D, NEW F, NEW N,
         OneTree(ch, par, ch2, par2, t, D, F, N)
  PROVE  /\ Below(ch2, t) = N
         /\ \A w \in Tree \ {t} : Below(ch2, w) = Below(ch, w)
<1> USE DEF OneTree
<1> DEFINE B == Below(ch, t)
<1>1. /\ B \subseteq Node /\ t \notin B /\ t \notin Node /\ Null \notin Node /\ Null # t
      /\ \A n \in Node : n \in B <=> par[n] \in B \cup {t}
      /\ \A n \in F : n \notin B /\ \A m \in Node : par[m] # n
  BY BelowParents, UnlinkedOutside, HolderFacts
<1> HIDE DEF B
<1>2. N \in SUBSET Node /\ N = (B \ D) \cup F
  BY <1>1 DEF B
<1>3. \A n \in Node : n \in N <=> par2[n] \in N \cup {t}
  <2>1. ASSUME NEW n \in Node, n \notin N PROVE par2[n] \notin N \cup {t}
    BY <1>1, <1>2, <2>1 DEF B
  <2>2. QED
    BY <2>1
<1>4. Below(ch2, t) = N
  <2>1. t \in Holder /\ t \notin N
    BY <1>1, <1>2, HolderFacts
  <2>2. QED
    BY <1>2, <1>3, <2>1, BelowIsUnique
<1>5. ASSUME NEW w \in Tree \ {t} PROVE Below(ch2, w) = Below(ch, w)
  <2> DEFINE W == Below(ch, w)
  <2>1. /\ W \subseteq Node /\ w \notin W /\ w \notin Node /\ Null # w /\ w \in Holder
        /\ \A n \in Node : n \in W <=> par[n] \in W \cup {w}
        /\ \A n \in F : n \notin W
        /\ B \cap W = {}
    BY BelowParents, UnlinkedOutside, TreesApart, HolderFacts DEF B
  <2> HIDE DEF W
  <2>2. ASSUME NEW n \in Node PROVE n \in W <=> par2[n] \in W \cup {w}
    <3>1. CASE n \in N
      BY <1>1, <1>2, <2>1, <3>1
    <3>2. CASE n \in B \ N
      BY <1>1, <2>1, <3>2 DEF B
    <3>3. CASE n \notin B \cup F
      BY <2>1, <3>3 DEF B
    <3>4. QED
      BY <1>2, <3>1, <3>2, <3>3
  <2>3. W \in SUBSET Node
    BY <2>1
  <2>4. Below(ch2, w) = W
    BY <2>1, <2>2, <2>3, BelowIsUnique
  <2>5. QED
    BY <2>4 DEF W
<1>6. QED
  BY <1>4, <1>5

\* Two trees change: t gives the nodes of D to u and gets those of F from it.
TwoTrees(ch, par, ch2, par2, t, D, N, u, F, M) ==
  /\ Links(ch, par, {}) /\ Links(ch2, par2, {})
  /\ t # u /\ D \subseteq Below(ch, t) /\ F \subseteq Below(ch, u)
  /\ N = (Below(ch, t) \ D) \cup F
  /\ M = (Below(ch, u) \ F) \cup D
  /\ \A n \in N : par2[n] \in N \cup {t}
  /\ \A n \in M : par2[n] \in M \cup {u}
  /\ \A n \in Node \ (N \cup M) : par2[n] = par[n]

\* Where the links of two trees change, what is below the others stays.
LEMMA TwoTreesChange ==
  ASSUME NEW t \in Tree, NEW u \in Tree, NEW ch, NEW par, NEW ch2, NEW par2,
         NEW D, NEW N, NEW F, NEW M, TwoTrees(ch, par, ch2, par2, t, D, N, u, F, M)
  PROVE  /\ Below(ch2, t) = N /\ Below(ch2, u) = M
         /\ \A w \in Tree \ {t, u} : Below(ch2, w) = Below(ch, w)
<1> USE DEF TwoTrees
<1> DEFINE B == Below(ch, t)
           C == Below(ch, u)
<1>1. /\ B \subseteq Node /\ C \subseteq Node /\ B \cap C = {} /\ t \notin Node /\ u \notin Node
      /\ \A n \in Node : n \in B <=> par[n] \in B \cup {t}
      /\ \A n \in Node : n \in C <=> par[n] \in C \cup {u}
  BY BelowParents, TreesApart, HolderFacts
<1>2. D \subseteq B /\ F \subseteq C /\ N = (B \ D) \cup F /\ M = (C \ F) \cup D
  OBVIOUS
<1> HIDE DEF B, C
<1>3. N \in SUBSET Node /\ M \in SUBSET Node /\ N \cap M = {} /\ N \cup M = B \cup C
  BY <1>1, <1>2
<1>4. t \in Holder /\ t \notin N /\ u \in Holder /\ u \notin M /\ u \notin N /\ t \notin M
  BY <1>1, <1>3, HolderFacts
<1>5. \A n \in Node \ (N \cup M) : par2[n] \notin N \cup M \cup {t, u}
  BY <1>1, <1>3
<1>6. Below(ch2, t) = N
  <2>1. \A n \in Node : n \in N <=> par2[n] \in N \cup {t}
    BY <1>3, <1>4, <1>5
  <2>2. QED
    BY <1>3, <1>4, <2>1, BelowIsUnique
<1>7. Below(ch2, u) = M
  <2>1. \A n \in Node : n \in M <=> par2[n] \in M \cup {u}
    BY <1>3, <1>4, <1>5
  <2>2. QED
    BY <1>3, <1>4, <2>1, BelowIsUnique
<1>8. ASSUME NEW w \in Tree \ {t, u} PROVE Below(ch2, w) = Below(ch, w)
  <2> DEFINE W == Below(ch, w)
  <2>1. /\ W \subseteq Node /\ w \notin W /\ w \notin Node /\ w \in Holder
        /\ \A n \in Node : n \in W <=> par[n] \in W \cup {w}
        /\ B \cap W = {} /\ C \cap W = {}
    BY BelowParents, TreesApart, HolderFacts DEF B, C
  <2> HIDE DEF W
  <2>2. ASSUME NEW n \in Node PROVE n \in W <=> par2[n] \in W \cup {w}
    <3>1. CASE n \in N \cup M
      <4>1. n \notin W /\ par2[n] \in N \cup M \cup {t, u}
        BY <1>3, <2>1, <3>1
      <4>2. par2[n] \notin W \cup {w}
        BY <1>1, <1>3, <1>8, <2>1, <4>1
      <4>3. QED
        BY <4>1, <4>2
    <3>2. CASE n \notin N \cup M
      BY <2>1, <3>2
    <3>3. QED
      BY <3>1, <3>2
  <2>3. W \in SUBSET Node
    BY <2>1
  <2>4. Below(ch2, w) = W
    BY <2>1, <2>2, <2>3, BelowIsUnique
  <2>5. QED
    BY <2>4 DEF W
<1>9. QED
  BY <1>6, <1>7, <1>8
-----------------------------------------------------------------------------
(* What a call does to the nodes of the trees and to the counters.           *)

\* Nothing happens to the trees.
Untouched == UNCHANGED <<allocated, children, m_size, thrown>>

\* t loses the nodes of D, which are freed, and gets those of F, which are new.
Reshaped(t, D, F) ==
  /\ D \subseteq NodesOf(t) /\ F \subseteq Node /\ F \cap (allocated \ D) = {}
  /\ allocated' = (allocated \ D) \cup F
  /\ Below(children', t) = (NodesOf(t) \ D) \cup F
  /\ \A w \in Tree \ {t} : Below(children', w) = NodesOf(w)
  /\ m_size' = [m_size EXCEPT ![t] = @ - Cardinality(D) + Cardinality(F)]
  /\ thrown' = thrown

\* t and u exchange the nodes of D and F.
Exchanged(t, D, u, F) ==
  /\ t # u /\ D \subseteq NodesOf(t) /\ F \subseteq NodesOf(u)
  /\ Below(children', t) = (NodesOf(t) \ D) \cup F
  /\ Below(children', u) = (NodesOf(u) \ F) \cup D
  /\ \A w \in Tree \ {t, u} : Below(children', w) = NodesOf(w)
  /\ CountExchange(t, Cardinality(D), u, Cardinality(F))
  /\ UNCHANGED <<allocated, thrown>>

\* t and u exchange all nodes and both counters.
Swapped(t, u) ==
  /\ t # u
  /\ Below(children', t) = NodesOf(u) /\ Below(children', u) = NodesOf(t)
  /\ \A w \in Tree \ {t, u} : Below(children', w) = NodesOf(w)
  /\ m_size' = [m_size EXCEPT ![t] = m_size[u], ![u] = m_size[t]]
  /\ thrown' = [thrown EXCEPT ![t] = thrown[u], ![u] = thrown[t]]
  /\ UNCHANGED allocated

\* The nodes of t are freed, and those of u become the nodes of t.
TakenOver(t, u) ==
  /\ t # u
  /\ allocated' = allocated \ NodesOf(t)
  /\ Below(children', t) = NodesOf(u) /\ Below(children', u) = {}
  /\ \A w \in Tree \ {t, u} : Below(children', w) = NodesOf(w)
  /\ m_size' = [m_size EXCEPT ![t] = m_size[u], ![u] = 0]
  /\ thrown' = [thrown EXCEPT ![t] = thrown[u], ![u] = 0]

\* Every call does one of these.
Accounted ==
  \/ Untouched
  \/ \E t \in Tree, v \in Value : Throws(t, v)
  \/ \E t \in Tree : \E D, F \in SUBSET Node : Reshaped(t, D, F)
  \/ \E t, u \in Tree : \E D, F \in SUBSET Node : Exchanged(t, D, u, F)
  \/ \E t, u \in Tree : Swapped(t, u) \/ TakenOver(t, u)

\* The size of a set that loses a part and gets something else.
LEMMA CountChanges ==
  ASSUME NEW S \in SUBSET Node, NEW D \in SUBSET S, NEW F \in SUBSET Node, F \cap (S \ D) = {}
  PROVE  Cardinality((S \ D) \cup F) = Cardinality(S) - Cardinality(D) + Cardinality(F)
<1>1. IsFiniteSet(S) /\ IsFiniteSet(F) /\ IsFiniteSet(S \ D)
  BY FS_Subset, TreeBaseAssumption
<1>2. S \cap D = D /\ (S \ D) \cap F = {}
  OBVIOUS
<1>3. Cardinality(S \ D) = Cardinality(S) - Cardinality(D)
  BY <1>1, <1>2, FS_Difference
<1>4. Cardinality((S \ D) \cup F) = Cardinality(S \ D) + Cardinality(F) - 0
  BY <1>1, <1>2, FS_Union, FS_EmptySet
<1>5. /\ Cardinality(S) \in Nat /\ Cardinality(D) \in Nat /\ Cardinality(F) \in Nat
      /\ Cardinality(S \ D) \in Nat
  BY NodeSets
<1>6. QED
  BY <1>3, <1>4, <1>5

\* The nodes of a tree are allocated.
LEMMA NodesOfFacts ==
  ASSUME IInv
  PROVE  /\ \A t \in Tree : NodesOf(t) \subseteq Node /\ NodesOf(t) \subseteq allocated
         /\ \A t, u \in Tree : t # u => NodesOf(t) \cap NodesOf(u) = {}
<1>1. Links(children, parent, {}) /\ Unlinked(parent, allocated)
  BY DEF IInv
<1>2. ASSUME NEW t \in Tree PROVE NodesOf(t) \subseteq Node /\ NodesOf(t) \subseteq allocated
  BY <1>1, BelowParents, HolderFacts DEF NodesOf, Unlinked
<1>3. QED
  BY <1>1, <1>2, TreesApart DEF NodesOf

\* What the calls do keeps the account of the counters ...
LEMMA AccountKept ==
  ASSUME IInv, SizeAccount, Accounted
  PROVE  SizeAccount'
<1>1. /\ m_size \in [Tree -> Int] /\ thrown \in [Tree -> Nat]
      /\ \A w \in Tree : /\ NodesOf(w) \in SUBSET Node /\ Cardinality(NodesOf(w)) \in Nat
                         /\ m_size[w] = Cardinality(NodesOf(w)) + thrown[w]
  BY NodesOfFacts, NodeSets DEF IInv, TypeOK, SizeAccount
<1> SUFFICES ASSUME NEW w \in Tree
             PROVE  m_size'[w] = Cardinality(Below(children', w)) + thrown'[w]
  BY DEF SizeAccount, NodesOf
<1>2. CASE Untouched
  BY <1>1, <1>2 DEF Untouched, NodesOf
<1>3. ASSUME NEW t \in Tree, NEW v \in Value, Throws(t, v)
      PROVE  m_size'[w] = Cardinality(Below(children', w)) + thrown'[w]
  <2>1. Below(children', w) = NodesOf(w)
    BY <1>3 DEF Throws, NodesOf
  <2>2. m_size'[w] = m_size[w] + (IF w = t THEN 1 ELSE 0) /\ thrown'[w] = thrown[w] + (IF w = t THEN 1 ELSE 0)
    BY <1>1, <1>3 DEF Throws
  <2>3. QED
    BY <1>1, <2>1, <2>2
<1>4. ASSUME NEW t \in Tree, NEW D \in SUBSET Node, NEW F \in SUBSET Node, Reshaped(t, D, F)
      PROVE  m_size'[w] = Cardinality(Below(children', w)) + thrown'[w]
  <2>1. Cardinality(D) \in Nat /\ Cardinality(F) \in Nat
    BY NodeSets
  <2>2. CASE w = t
    <3>1. F \cap (NodesOf(t) \ D) = {} /\ NodesOf(t) \in SUBSET Node /\ D \in SUBSET NodesOf(t)
      BY <1>1, <1>4, NodesOfFacts DEF Reshaped
    <3>2. Cardinality(Below(children', t)) = Cardinality(NodesOf(t)) - Cardinality(D) + Cardinality(F)
      BY <1>4, <3>1, CountChanges DEF Reshaped
    <3>3. m_size'[t] = m_size[t] - Cardinality(D) + Cardinality(F) /\ thrown'[t] = thrown[t]
      BY <1>1, <1>4 DEF Reshaped
    <3>4. QED
      BY <1>1, <2>1, <2>2, <3>2, <3>3
  <2>3. CASE w # t
    BY <1>1, <1>4, <2>3 DEF Reshaped
  <2>4. QED
    BY <2>2, <2>3
<1>5. ASSUME NEW t \in Tree, NEW u \in Tree, NEW D \in SUBSET Node, NEW F \in SUBSET Node,
             Exchanged(t, D, u, F)
      PROVE  m_size'[w] = Cardinality(Below(children', w)) + thrown'[w]
  <2>1. /\ Cardinality(D) \in Nat /\ Cardinality(F) \in Nat /\ t # u /\ thrown' = thrown
        /\ D \in SUBSET NodesOf(t) /\ F \in SUBSET NodesOf(u)
    BY <1>5, NodeSets DEF Exchanged
  <2>2. NodesOf(t) \cap NodesOf(u) = {}
    BY <2>1, NodesOfFacts
  <2>3. CASE w = t
    <3>1. Cardinality(Below(children', t)) = Cardinality(NodesOf(t)) - Cardinality(D) + Cardinality(F)
      BY <1>1, <1>5, <2>1, <2>2, CountChanges DEF Exchanged
    <3>2. m_size'[t] = m_size[t] - Cardinality(D) + Cardinality(F)
      BY <1>1, <1>5, <2>1 DEF Exchanged, CountExchange
    <3>3. QED
      BY <1>1, <2>1, <2>3, <3>1, <3>2
  <2>4. CASE w = u
    <3>1. Cardinality(Below(children', u)) = Cardinality(NodesOf(u)) - Cardinality(F) + Cardinality(D)
      BY <1>1, <1>5, <2>1, <2>2, CountChanges DEF Exchanged
    <3>2. m_size'[u] = m_size[u] - Cardinality(F) + Cardinality(D)
      BY <1>1, <1>5, <2>1 DEF Exchanged, CountExchange
    <3>3. QED
      BY <1>1, <2>1, <2>4, <3>1, <3>2
  <2>5. CASE w \notin {t, u}
    <3>1. Below(children', w) = NodesOf(w) /\ m_size'[w] = m_size[w]
      BY <1>1, <1>5, <2>5 DEF Exchanged, CountExchange
    <3>2. QED
      BY <1>1, <2>1, <3>1
  <2>6. QED
    BY <2>3, <2>4, <2>5
<1>6. ASSUME NEW t \in Tree, NEW u \in Tree, Swapped(t, u)
      PROVE  m_size'[w] = Cardinality(Below(children', w)) + thrown'[w]
  BY <1>1, <1>6 DEF Swapped
<1>7. ASSUME NEW t \in Tree, NEW u \in Tree, TakenOver(t, u)
      PROVE  m_size'[w] = Cardinality(Below(children', w)) + thrown'[w]
  <2>1. t # u /\ Cardinality({}) = 0
    BY <1>7, FS_EmptySet DEF TakenOver
  <2>2. CASE w = t
    BY <1>1, <1>7, <2>1, <2>2 DEF TakenOver
  <2>3. CASE w = u
    <3>1. Below(children', u) = {} /\ m_size'[u] = 0 /\ thrown'[u] = 0
      BY <1>1, <1>7 DEF TakenOver
    <3>2. QED
      BY <2>1, <2>3, <3>1
  <2>4. CASE w \notin {t, u}
    BY <1>1, <1>7, <2>4 DEF TakenOver
  <2>5. QED
    BY <2>2, <2>3, <2>4
<1>8. QED
  BY <1>2, <1>3, <1>4, <1>5, <1>6, <1>7 DEF Accounted

\* ... and loses no node unless it throws.
LEMMA LostKept ==
  ASSUME IInv, Accounted, outcome' = "ok"
  PROVE  LostNodes' = LostNodes
<1> DEFINE N2(w) == Below(children', w)
           lost2 == allocated' \ UNION {N2(w) : w \in Tree}
<1>1. LostNodes' = lost2
  BY DEF LostNodes, NodesOf
<1>2. CASE Untouched
  BY <1>2 DEF Untouched, LostNodes, NodesOf
<1>3. ASSUME NEW t \in Tree, NEW v \in Value, Throws(t, v) PROVE FALSE
  BY <1>3 DEF Throws
<1>4. ASSUME NEW t \in Tree, NEW D \in SUBSET Node, NEW F \in SUBSET Node, Reshaped(t, D, F)
      PROVE  lost2 = LostNodes
  BY <1>4, NodesOfFacts DEF Reshaped, LostNodes
<1>5. ASSUME NEW t \in Tree, NEW u \in Tree, NEW D \in SUBSET Node, NEW F \in SUBSET Node,
             Exchanged(t, D, u, F)
      PROVE  lost2 = LostNodes
  BY <1>5, NodesOfFacts DEF Exchanged, LostNodes
<1>6. ASSUME NEW t \in Tree, NEW u \in Tree, Swapped(t, u) PROVE lost2 = LostNodes
  BY <1>6 DEF Swapped, LostNodes
<1>7. ASSUME NEW t \in Tree, NEW u \in Tree, TakenOver(t, u) PROVE lost2 = LostNodes
  BY <1>7, NodesOfFacts DEF TakenOver, LostNodes
<1>8. QED
  BY <1>1, <1>2, <1>3, <1>4, <1>5, <1>6, <1>7 DEF Accounted

-----------------------------------------------------------------------------
(* What the building blocks of the operations do to the nodes of the trees.  *)

\* p is a place in tree t.
InTree(t, p) ==
  /\ p.m_node \in NodesOf(t) \cup {t}
  /\ IsNodeAt(p) \/ IsEnd(p)
  /\ IsNodeAt(p) => /\ NodeAt(children, p) \in NodesOf(t)
                    /\ Desc(children, NodeAt(children, p)) \subseteq NodesOf(t)

\* The nodes of a tree and their parents.
LEMMA TreeParents ==
  ASSUME IInv, NEW t \in Tree
  PROVE  /\ NodesOf(t) \in SUBSET Node /\ DownClosed(children, NodesOf(t))
         /\ ToSet(children[t]) \subseteq NodesOf(t)
         /\ \A n \in Node : n \in NodesOf(t) <=> parent[n] \in NodesOf(t) \cup {t}
         /\ \A n \in Node \ allocated : parent[n] = Null /\ n \notin NodesOf(t)
<1>1. Links(children, parent, {}) /\ Unlinked(parent, allocated)
  BY DEF IInv
<1>2. QED
  BY <1>1, BelowParents, BelowIsCut, NodesOfFacts, HolderFacts DEF NodesOf, Cut, Unlinked

\* Every cursor of Next is a place in its tree.
LEMMA CursorInTree ==
  ASSUME IInv, NEW t \in Tree, NEW p,
         p \in NodeCursors(t) \cup EmptyPlaces(t) \/ (p \in EndPlaces(t) /\ ~PastArray(p))
  PROVE  InTree(t, p)
<1>1. IsNodeAt(p) \/ IsEnd(p)
  BY CursorFacts
<1>2. p.m_node \in NodesOf(t) \cup {t}
  <2>1. \A h, i : Cursor(h, i).m_node = h
    BY DEF Cursor
  <2>2. CASE p \in NodeCursors(t)
    <3>1. PICK h \in NodesOf(t) \cup {t} : p \in {Cursor(h, i - 1) : i \in DOMAIN children[h]}
      BY <2>2 DEF NodeCursors
    <3>2. QED
      BY <2>1, <3>1
  <2>3. CASE p \in EmptyPlaces(t) \cup EndPlaces(t)
    BY <2>1, <2>3 DEF EmptyPlaces, EndPlaces
  <2>4. QED
    BY <2>2, <2>3
<1>3. ASSUME IsNodeAt(p)
      PROVE  /\ NodeAt(children, p) \in NodesOf(t)
             /\ Desc(children, NodeAt(children, p)) \subseteq NodesOf(t)
  <2>1. /\ NodeAt(children, p) \in Node
        /\ parent[NodeAt(children, p)] = p.m_node
        /\ children \in [Holder -> Seq(Node)]
    BY <1>3, InvFacts DEF IsNodeAt, LinkFacts
  <2>2. NodeAt(children, p) \in NodesOf(t) /\ DownClosed(children, NodesOf(t))
    BY <1>2, <2>1, TreeParents
  <2>3. QED
    BY <2>1, <2>2, DescFacts
<1>4. QED
  BY <1>1, <1>2, <1>3 DEF InTree

\* A new node, and nodes of the tree that move below it or elsewhere in the tree.
LEMMA NewNodeAccounted ==
  ASSUME IInv, IInv', NEW t \in Tree, NEW v, NEW n \in Node \ allocated, NEW ch, NEW par,
         Creates(t, n, v, ch, par),
         NEW C \in SUBSET NodesOf(t),
         \A m \in C \cup {n} : par[m] \in NodesOf(t) \cup {n, t},
         \A m \in Node \ (C \cup {n}) : par[m] = parent[m]
  PROVE  Accounted
<1> DEFINE N == (NodesOf(t) \ {}) \cup {n}
<1>1. /\ Links(children, parent, {}) /\ Links(children', parent', {})
      /\ children' = ch /\ parent' = par /\ thrown' = thrown
      /\ allocated' = allocated \cup {n} /\ m_size' = [m_size EXCEPT ![t] = m_size[t] + 1]
      /\ Links(ch, par, {})
  BY DEF IInv, Creates
<1>2. /\ NodesOf(t) \in SUBSET Node /\ parent[n] = Null
      /\ \A m \in Node : m \in NodesOf(t) <=> parent[m] \in NodesOf(t) \cup {t}
  BY TreeParents
<1>3. /\ \A m \in N : par[m] \in N \cup {t}
      /\ \A m \in NodesOf(t) \ N : par[m] = Null
      /\ \A m \in Node \ (NodesOf(t) \cup {n}) : par[m] = parent[m]
  BY <1>2
<1>4. Below(ch, t) = N /\ \A w \in Tree \ {t} : Below(ch, w) = NodesOf(w)
  <2>1. OneTree(children, parent, ch, par, t, {}, {n}, N)
    BY <1>1, <1>2, <1>3 DEF OneTree, NodesOf
  <2> HIDE DEF N
  <2>2. QED
    BY <2>1, OneTreeChanges DEF NodesOf
<1>5. Cardinality({}) = 0 /\ Cardinality({n}) = 1 /\ m_size \in [Tree -> Int]
  BY FS_EmptySet, FS_Singleton DEF IInv, TypeOK
<1>6. m_size' = [m_size EXCEPT ![t] = @ - Cardinality({}) + Cardinality({n})]
  <2>1. m_size[t] - Cardinality({}) + Cardinality({n}) = m_size[t] + 1
    BY <1>5
  <2>2. QED
    BY <1>1, <2>1
<1>7. Reshaped(t, {}, {n})
  BY <1>1, <1>4, <1>6 DEF Reshaped
<1>8. QED
  BY <1>7 DEF Accounted

\* Nodes of t are freed, the others may move within the tree.
LEMMA DeallocateAccounted ==
  ASSUME IInv, IInv', NEW t \in Tree, NEW D, D \subseteq NodesOf(t), NEW ch, NEW par,
         Deallocate(t, D, ch, par), UNCHANGED thrown,
         \A n \in NodesOf(t) \ D : par[n] \in (NodesOf(t) \ D) \cup {t},
         \A n \in Node \ NodesOf(t) : par[n] = parent[n]
  PROVE  Accounted
<1> DEFINE N == (NodesOf(t) \ D) \cup {}
<1>1. /\ Links(children, parent, {}) /\ Links(children', parent', {})
      /\ parent' = Cleared(par, D) /\ allocated' = allocated \ D
      /\ m_size' = [m_size EXCEPT ![t] = m_size[t] - Cardinality(D)]
  BY DEF IInv, Deallocate
<1>2. NodesOf(t) \in SUBSET Node
  BY TreeParents
<1>3. /\ \A n \in N : parent'[n] \in N \cup {t}
      /\ \A n \in NodesOf(t) \ N : parent'[n] = Null
      /\ \A n \in Node \ (NodesOf(t) \cup {}) : parent'[n] = parent[n]
  BY <1>1, <1>2 DEF Cleared
<1>4. Below(children', t) = N /\ \A w \in Tree \ {t} : Below(children', w) = NodesOf(w)
  <2>1. OneTree(children, parent, children', parent', t, D, {}, N)
    BY <1>1, <1>3 DEF OneTree, NodesOf
  <2> HIDE DEF N
  <2>2. QED
    BY <2>1, OneTreeChanges DEF NodesOf
<1>5. Cardinality({}) = 0 /\ m_size \in [Tree -> Int] /\ Cardinality(D) \in Nat /\ D \in SUBSET Node
  BY <1>2, FS_EmptySet, NodeSets DEF IInv, TypeOK
<1>6. m_size' = [m_size EXCEPT ![t] = @ - Cardinality(D) + Cardinality({})]
  <2>1. m_size[t] - Cardinality(D) + Cardinality({}) = m_size[t] - Cardinality(D)
    BY <1>5
  <2>2. QED
    BY <1>1, <2>1
<1>7. Reshaped(t, D, {})
  BY <1>1, <1>4, <1>6 DEF Reshaped
<1>8. QED
  BY <1>5, <1>7 DEF Accounted

\* Nodes of t change their places, and nothing else.
LEMMA RearrangedAccounted ==
  ASSUME IInv, IInv', NEW t \in Tree, UNCHANGED <<allocated, m_size, thrown>>,
         \A n \in NodesOf(t) : parent'[n] \in NodesOf(t) \cup {t},
         \A n \in Node \ NodesOf(t) : parent'[n] = parent[n]
  PROVE  Accounted
<1> DEFINE N == (NodesOf(t) \ {}) \cup {}
<1>1. Links(children, parent, {}) /\ Links(children', parent', {})
  BY DEF IInv
<1>2. Below(children', t) = N /\ \A w \in Tree \ {t} : Below(children', w) = NodesOf(w)
  <2>1. OneTree(children, parent, children', parent', t, {}, {}, N)
    BY <1>1 DEF OneTree, NodesOf
  <2> HIDE DEF N
  <2>2. QED
    BY <2>1, OneTreeChanges DEF NodesOf
<1>3. m_size' = [m_size EXCEPT ![t] = @ - Cardinality({}) + Cardinality({})]
  BY FS_EmptySet DEF IInv, TypeOK
<1>4. Reshaped(t, {}, {})
  BY <1>2, <1>3 DEF Reshaped
<1>5. QED
  BY <1>4 DEF Accounted

\* The parts D of t and F of u change sides.
LEMMA ExchangeAccounted ==
  ASSUME IInv, IInv', NEW t \in Tree, NEW u \in Tree, t # u,
         NEW D, D \subseteq NodesOf(t), NEW F, F \subseteq NodesOf(u),
         \A n \in (NodesOf(t) \ D) \cup F : parent'[n] \in (NodesOf(t) \ D) \cup F \cup {t},
         \A n \in (NodesOf(u) \ F) \cup D : parent'[n] \in (NodesOf(u) \ F) \cup D \cup {u},
         \A n \in Node \ (NodesOf(t) \cup NodesOf(u)) : parent'[n] = parent[n],
         CountExchange(t, Cardinality(D), u, Cardinality(F)), UNCHANGED <<allocated, thrown>>
  PROVE  Accounted
<1> DEFINE N == (Below(children, t) \ D) \cup F
           M == (Below(children, u) \ F) \cup D
<1>1. Links(children, parent, {}) /\ Links(children', parent', {})
  BY DEF IInv
<1>2. /\ \A n \in N : parent'[n] \in N \cup {t}
      /\ \A n \in M : parent'[n] \in M \cup {u}
      /\ \A n \in Node \ (N \cup M) : parent'[n] = parent[n]
      /\ D \subseteq Below(children, t) /\ F \subseteq Below(children, u)
  BY DEF NodesOf
<1>3. /\ Below(children', t) = N /\ Below(children', u) = M
      /\ \A w \in Tree \ {t, u} : Below(children', w) = Below(children, w)
  <2>1. TwoTrees(children, parent, children', parent', t, D, N, u, F, M)
    BY <1>1, <1>2 DEF TwoTrees
  <2> HIDE DEF N, M
  <2>2. QED
    BY <2>1, TwoTreesChange
<1>4. Exchanged(t, D, u, F)
  BY <1>3 DEF Exchanged, NodesOf
<1>5. D \in SUBSET Node /\ F \in SUBSET Node
  BY TreeParents
<1>6. QED
  BY <1>4, <1>5 DEF Accounted

\* A subtree is a part of its tree: the rest does not hang in it.
LEMMA SubtreePart ==
  ASSUME IInv, NEW t \in Tree, NEW x \in NodesOf(t)
  PROVE  /\ Desc(children, x) \subseteq NodesOf(t) /\ x \in Desc(children, x)
         /\ parent[x] \in (NodesOf(t) \ Desc(children, x)) \cup {t}
         /\ \A n \in Node \ {x} : n \in Desc(children, x) <=> parent[n] \in Desc(children, x)
<1> DEFINE B == Desc(children, x)
<1>1. /\ Links(children, parent, {}) /\ children \in [Holder -> Seq(Node)] /\ x \in Node
      /\ NodesOf(t) \subseteq Node /\ DownClosed(children, NodesOf(t))
      /\ \A n \in Node : n \in NodesOf(t) <=> parent[n] \in NodesOf(t) \cup {t}
      /\ \A n \in Node, h \in Holder : n \in ToSet(children[h]) <=> parent[n] = h
  BY TreeParents, InvFacts DEF IInv, LinkFacts
<1>2. x \in B /\ DownClosed(children, B) /\ B \subseteq NodesOf(t)
  BY <1>1, DescFacts
<1>3. parent[x] \notin B /\ \A n \in B : n # x => parent[n] \in B
  BY <1>1, ParentOutside, DescParent
<1> HIDE DEF B
<1>4. ASSUME NEW n \in Node, parent[n] \in B PROVE n \in B
  BY <1>1, <1>2, <1>4, HolderFacts DEF DownClosed
<1>5. QED
  BY <1>1, <1>2, <1>3, <1>4 DEF B

\* What an injective map returns, and where the nodes of its range come from.
LEMMA OriginalFacts ==
  ASSUME NEW M, NEW F, NEW f \in Injection(M, F)
  PROVE  /\ Range(f) \subseteq F /\ \A m \in M : f[m] \in Range(f)
         /\ \A n \in Range(f) : Original(f, n) \in M /\ f[Original(f, n)] = n
<1>1. /\ f \in [M -> F] /\ DOMAIN f = M /\ Range(f) = {f[m] : m \in M}
      /\ \A k, l \in M : f[k] = f[l] => k = l
  BY DEF Injection, IsInjective, Range
<1>2. ASSUME NEW n \in Range(f) PROVE Original(f, n) \in M /\ f[Original(f, n)] = n
  <2>1. \E m \in M : f[m] = n
    BY <1>1
  <2>2. QED
    BY <1>1, <2>1 DEF Original
<1>3. QED
  BY <1>1, <1>2

\* A copy below h: the copies become nodes of the tree h is in.
LEMMA CopiesBelowAccounted ==
  ASSUME IInv, IInv', NEW t \in Tree, NEW ch, NEW par, Links(ch, par, {}),
         NEW freed, freed \subseteq NodesOf(t),
         Below(ch, t) = NodesOf(t) \ freed, \A w \in Tree \ {t} : Below(ch, w) = NodesOf(w),
         Unlinked(par, allocated \ freed),
         NEW h, h \in Below(ch, t) \cup {t}, NEW s \in Node, NEW val,
         CopiesBelow(t, h, s, ch, par, val, freed)
  PROVE  Accounted
<1>1. PICK f \in Injection(Desc(ch, s), Node \ (allocated \ freed)) :
        /\ UNCHANGED thrown
        /\ allocated' = (allocated \ freed) \cup Range(f)
        /\ parent' = [CopiedParents(par, f, Range(f) \ {f[s]}) EXCEPT ![f[s]] = h]
        /\ m_size' = [m_size EXCEPT ![t] = @ - Cardinality(freed) + Cardinality(Range(f))]
  BY DEF CopiesBelow
<1> DEFINE F == Range(f)
           N == (Below(ch, t) \ {}) \cup F
<1>2. /\ F \subseteq Node \ (allocated \ freed) /\ \A m \in Desc(ch, s) : f[m] \in F
      /\ \A n \in F : Original(f, n) \in Desc(ch, s) /\ f[Original(f, n)] = n
      /\ s \in Desc(ch, s) /\ Desc(ch, s) \subseteq Node
  BY OriginalFacts, DescFacts DEF Links, DownClosed
<1>3. \A m \in Desc(ch, s) : m # s => par[m] \in Desc(ch, s)
  BY DescParent
<1> HIDE DEF F
<1>4. /\ parent'[f[s]] = h
      /\ \A n \in F \ {f[s]} : parent'[n] = f[par[Original(f, n)]]
      /\ \A n \in Node \ F : parent'[n] = par[n]
  BY <1>1, <1>2 DEF CopiedParents, F
<1>5. \A n \in F : parent'[n] \in F \cup {h}
  BY <1>2, <1>3, <1>4
<1>6. F \subseteq Node /\ \A n \in F : par[n] = Null
  BY <1>2 DEF Unlinked
<1>7. Below(ch, t) \in SUBSET Node /\ \A n \in Below(ch, t) : par[n] \in Below(ch, t) \cup {t}
  BY BelowParents, HolderFacts
<1>8. OneTree(ch, par, children', parent', t, {}, F, N)
  <2>1. \A n \in N : parent'[n] \in N \cup {t}
    BY <1>4, <1>5, <1>7
  <2>2. QED
    BY <1>4, <1>6, <2>1 DEF OneTree, IInv
<1>9. Below(children', t) = N /\ \A w \in Tree \ {t} : Below(children', w) = NodesOf(w)
  BY <1>8, OneTreeChanges
<1>10. Reshaped(t, freed, F)
  BY <1>1, <1>2, <1>6, <1>9 DEF Reshaped, F
<1>11. freed \in SUBSET Node /\ F \in SUBSET Node
  BY <1>6, TreeParents
<1>12. QED
  BY <1>10, <1>11 DEF Accounted

\* A copy into x: the copies F become nodes of the tree x is in.
CopiedInto(t, ch, taken, size) ==
  \E F \in SUBSET (Node \ taken) :
    /\ allocated' = taken \cup F /\ thrown' = thrown
    /\ m_size' = [m_size EXCEPT ![t] = size + Cardinality(F)]
    /\ Below(children', t) = Below(ch, t) \cup F
    /\ \A w \in Tree \ {t} : Below(children', w) = Below(ch, w)

\* A copy below a node of a tree adds exactly the nodes it has made to that tree.
LEMMA CopiesIntoTree ==
  ASSUME IInv', NEW t \in Tree, NEW ch, NEW par, Links(ch, par, {}),
         NEW taken, Unlinked(par, taken),
         NEW x \in Below(ch, t), NEW v, NEW s \in Node, NEW val, NEW size,
         CopiesInto(t, x, v, s, ch, par, val, taken, size)
  PROVE  CopiedInto(t, ch, taken, size)
<1> DEFINE M == Desc(ch, s) \ {s}
           FF(g) == [m \in Desc(ch, s) |-> IF m = s THEN x ELSE g[m]]
<1>1. PICK g \in Injection(M, Node \ taken) :
        /\ UNCHANGED thrown
        /\ allocated' = taken \cup Range(g)
        /\ parent' = CopiedParents(par, FF(g), Range(g))
        /\ m_size' = [m_size EXCEPT ![t] = size + Cardinality(Range(g))]
  BY DEF CopiesInto
<1> DEFINE F == Range(g)
           f == FF(g)
           N == (Below(ch, t) \ {}) \cup F
<1>2. /\ F \subseteq Node \ taken /\ \A m \in M : g[m] \in F
      /\ \A n \in F : Original(g, n) \in M /\ g[Original(g, n)] = n
      /\ s \in Desc(ch, s) /\ Desc(ch, s) \subseteq Node
  BY OriginalFacts, DescFacts DEF Links, DownClosed
<1>3. \A m \in M : par[m] \in Desc(ch, s)
  BY DescParent
<1> HIDE DEF F
<1>4. Below(ch, t) \in SUBSET Node /\ \A n \in Below(ch, t) : par[n] \in Below(ch, t) \cup {t}
  BY BelowParents, HolderFacts
<1>5. F \subseteq Node /\ (\A n \in F : par[n] = Null) /\ \A w \in Tree : F \cap Below(ch, w) = {}
  BY <1>2, UnlinkedOutside DEF Unlinked
<1>6. /\ DOMAIN f = Desc(ch, s) /\ f[s] = x /\ \A m \in M : f[m] = g[m]
      /\ \A m \in Desc(ch, s) : f[m] \in F \cup {x}
  BY <1>2
<1> HIDE DEF f
<1>7. ASSUME NEW n \in F PROVE Original(f, n) \in M
  <2>1. n # x /\ \E m \in Desc(ch, s) : f[m] = n
    BY <1>2, <1>5, <1>6, <1>7
  <2>2. Original(f, n) \in Desc(ch, s) /\ f[Original(f, n)] = n
    BY <1>6, <2>1 DEF Original
  <2>3. QED
    BY <1>6, <2>1, <2>2
<1>8. /\ \A n \in F : parent'[n] \in F \cup {x}
      /\ \A n \in Node \ F : parent'[n] = par[n]
  <2>1. parent' = CopiedParents(par, f, F)
    BY <1>1 DEF f, F
  <2>2. \A n \in F : parent'[n] = f[par[Original(f, n)]]
    BY <1>5, <2>1 DEF CopiedParents
  <2>3. \A n \in Node \ F : parent'[n] = par[n]
    BY <2>1 DEF CopiedParents
  <2> HIDE DEF M
  <2>4. QED
    BY <1>3, <1>6, <1>7, <2>2, <2>3
<1>9. OneTree(ch, par, children', parent', t, {}, F, N)
  <2>1. \A n \in N : parent'[n] \in N \cup {t}
    BY <1>4, <1>8
  <2>2. QED
    BY <1>5, <1>8, <2>1 DEF OneTree, IInv
<1>10. Below(children', t) = N /\ \A w \in Tree \ {t} : Below(children', w) = Below(ch, w)
  BY <1>9, OneTreeChanges
<1>11. QED
  BY <1>1, <1>2, <1>10 DEF F, CopiedInto

\* The links once a part of a tree is cleared away: the others keep theirs.
ClearedAt(h, D, ch, par) ==
  /\ D = Below(children, h)
  /\ ch = Freed([children EXCEPT ![h] = <<>>], D)
  /\ par = Cleared(parent, D)

\* What is cleared below a node is gone from its tree and from no other.
LEMMA ClearedBelow ==
  ASSUME IInv, NEW t \in Tree, NEW h \in NodesOf(t) \cup {t},
         NEW D, NEW ch, NEW par, ClearedAt(h, D, ch, par)
  PROVE  /\ Links(ch, par, {}) /\ D \subseteq NodesOf(t) /\ h \notin D
         /\ \A n \in Node \ allocated : par[n] = Null
         /\ \A n \in D : par[n] = Null
         /\ Below(ch, t) = NodesOf(t) \ D
         /\ \A w \in Tree \ {t} : Below(ch, w) = NodesOf(w)
<1> USE DEF ClearedAt
<1> DEFINE N == (Below(children, t) \ D) \cup {}
<1>1. /\ Links(children, parent, {}) /\ Unlinked(parent, allocated) /\ h \in Holder
      /\ children \in [Holder -> Seq(Node)]
  BY InTreeHung, InvFacts DEF IInv, LinkFacts
<1>2. Links(ch, par, {}) /\ D \subseteq Node /\ h \notin D
  BY <1>1, FreeBelowKeeps
<1>3. \A n \in Node : n \in D <=> parent[n] \in D \cup {h}
  BY <1>1, BelowParents
<1>4. /\ NodesOf(t) \in SUBSET Node
      /\ \A n \in Node : n \in NodesOf(t) <=> parent[n] \in NodesOf(t) \cup {t}
  BY TreeParents
<1>5. D \subseteq NodesOf(t)
  <2>1. D \ NodesOf(t) \in SUBSET Node /\ \A n \in D \ NodesOf(t) : parent[n] \in D \ NodesOf(t)
    BY <1>2, <1>3, <1>4
  <2>2. QED
    BY <1>1, <2>1 DEF Links, Ends
<1>6. OneTree(children, parent, ch, par, t, D, {}, N)
  <2>1. \A n \in Node : par[n] = IF n \in D THEN Null ELSE parent[n]
    BY DEF Cleared
  <2>2. \A n \in N : par[n] \in N \cup {t}
    BY <1>3, <1>4, <2>1 DEF NodesOf
  <2>3. (\A n \in Below(children, t) \ N : par[n] = Null) /\ \A n \in Node \ Below(children, t) : par[n] = parent[n]
    BY <1>4, <1>5, <2>1 DEF NodesOf
  <2>4. QED
    BY <1>1, <1>2, <2>2, <2>3 DEF OneTree
<1>7. (\A n \in Node \ allocated : par[n] = Null) /\ \A n \in D : par[n] = Null
  BY <1>1, <1>2 DEF Unlinked, Cleared
<1> HIDE DEF N, ClearedAt
<1>8. Below(ch, t) = N /\ \A w \in Tree \ {t} : Below(ch, w) = NodesOf(w)
  BY <1>6, OneTreeChanges DEF NodesOf
<1>9. QED
  BY <1>2, <1>5, <1>7, <1>8 DEF N, NodesOf

-----------------------------------------------------------------------------
(* The operations, one by one.                                               *)

\* A call that changes nothing, or follows a null pointer.
LEMMA UntouchedAccounted ==
  Undefined \/ UNCHANGED <<allocated, children, parent, value, m_size, thrown>> => Accounted
BY DEF Undefined, Untouched, Accounted

\* insert_below and emplace_below.
LEMMA InsertBelowAccounted ==
  ASSUME IInv, IInv', NEW t \in Tree, NEW v \in Value, NEW p, InTree(t, p), InsertBelow(t, p, v)
  PROVE  Accounted
<1> DEFINE h == Target(p)
           ch(n) == [children EXCEPT ![h] = Append(@, n)]
<1>1. h \in NodesOf(t) \cup {t}
  BY DEF InTree, Target, IsEnd
<1>2. CASE Throws(t, v)
  BY <1>2 DEF Accounted
<1>3. ASSUME NEW n \in Node \ allocated,
             Creates(t, n, v, ch(n), [parent EXCEPT ![n] = h])
      PROVE  Accounted
  <2> DEFINE par == [parent EXCEPT ![n] = h]
  <2>1. /\ {} \in SUBSET NodesOf(t)
        /\ \A m \in {} \cup {n} : par[m] \in NodesOf(t) \cup {n, t}
        /\ \A m \in Node \ ({} \cup {n}) : par[m] = parent[m]
    BY <1>1, InvFacts DEF LinkFacts
  <2> HIDE DEF par
  <2>2. Creates(t, n, v, ch(n), par)
    BY <1>3 DEF par
  <2> HIDE DEF ch
  <2>3. QED
    BY <2>1, <2>2, NewNodeAccounted
<1>4. QED
  BY <1>2, <1>3 DEF InsertBelow

\* insert and emplace.
LEMMA InsertAccounted ==
  ASSUME IInv, IInv', NEW t \in Tree, NEW v \in Value, NEW p, InTree(t, p), Insert(t, p, v)
  PROVE  Accounted
<1> DEFINE h == p.m_node
           ch(n) == [children EXCEPT ![h] = InsertAt(@, p.m_pos + 1, n)]
<1>1. CASE InsertBelow(t, p, v)
  BY <1>1, InsertBelowAccounted
<1>2. CASE Undefined \/ Throws(t, v)
  BY <1>2, UntouchedAccounted DEF Accounted
<1>3. ASSUME NEW n \in Node \ allocated, Creates(t, n, v, ch(n), [parent EXCEPT ![n] = h])
      PROVE  Accounted
  <2> DEFINE par == [parent EXCEPT ![n] = h]
  <2>1. /\ {} \in SUBSET NodesOf(t)
        /\ \A m \in {} \cup {n} : par[m] \in NodesOf(t) \cup {n, t}
        /\ \A m \in Node \ ({} \cup {n}) : par[m] = parent[m]
    BY InvFacts DEF LinkFacts, InTree
  <2> HIDE DEF par
  <2>2. Creates(t, n, v, ch(n), par)
    BY <1>3 DEF par
  <2> HIDE DEF ch
  <2>3. QED
    BY <2>1, <2>2, NewNodeAccounted
<1>4. QED
  BY <1>1, <1>2, <1>3 DEF Insert

\* insert_above: the node at the cursor moves below the new one.
LEMMA InsertAboveAccounted ==
  ASSUME IInv, IInv', NEW t \in Tree, NEW v \in Value, NEW p, InTree(t, p), InsertAbove(t, p, v)
  PROVE  Accounted
<1> DEFINE h == p.m_node
           x == NodeAt(children, p)
           ch(n) == [children EXCEPT ![h] = ReplaceAt(@, p.m_pos + 1, n), ![n] = <<x>>]
<1>1. CASE InsertBelow(t, p, v)
  BY <1>1, InsertBelowAccounted
<1>2. ASSUME Valid(p), NEW n \in Node \ allocated,
             Creates(t, n, v, ch(n), [parent EXCEPT ![x] = n, ![n] = h])
      PROVE  Accounted
  <2> DEFINE par == [parent EXCEPT ![x] = n, ![n] = h]
  <2>1. x \in NodesOf(t) /\ h \in NodesOf(t) \cup {t}
    BY <1>2 DEF InTree, IsEnd
  <2> HIDE DEF x
  <2>2. parent \in [Node -> Holder \cup {Null}] /\ x \in Node
    BY <2>1, InvFacts, TreeParents DEF LinkFacts
  <2>3. /\ {x} \in SUBSET NodesOf(t)
        /\ \A m \in {x} \cup {n} : par[m] \in NodesOf(t) \cup {n, t}
        /\ \A m \in Node \ ({x} \cup {n}) : par[m] = parent[m]
    BY <2>1, <2>2
  <2> HIDE DEF par
  <2>4. Creates(t, n, v, ch(n), par)
    BY <1>2 DEF par
  <2> HIDE DEF ch
  <2>5. QED
    BY <2>3, <2>4, NewNodeAccounted
<1>3. QED
  BY <1>1, <1>2 DEF InsertAbove

\* erase
LEMMA EraseAccounted ==
  ASSUME IInv, IInv', NEW t \in Tree, NEW p, Valid(p) => InTree(t, p), Erase(t, p)
  PROVE  Accounted
<1>1. CASE UNCHANGED <<allocated, children, parent, value, m_size, thrown>>
  BY <1>1, UntouchedAccounted
<1>2. CASE /\ Valid(p) /\ UNCHANGED thrown
           /\ LET x == NodeAt(children, p)
              IN Deallocate(t, Desc(children, x),
                   [children EXCEPT ![p.m_node] = ChildRemoved(@, x)], parent)
  <2> DEFINE x == NodeAt(children, p)
             D == Desc(children, x)
             ch == [children EXCEPT ![p.m_node] = ChildRemoved(@, x)]
  <2>1. x \in NodesOf(t) /\ Deallocate(t, D, ch, parent)
    BY <1>2 DEF InTree, IsEnd
  <2> HIDE DEF x, ch
  <2>2. /\ D \subseteq NodesOf(t) /\ x \in D
        /\ \A n \in Node \ {x} : n \in D <=> parent[n] \in D
        /\ NodesOf(t) \subseteq Node
        /\ \A n \in NodesOf(t) : parent[n] \in NodesOf(t) \cup {t}
    BY <2>1, SubtreePart, TreeParents
  <2> HIDE DEF D
  <2>3. \A n \in NodesOf(t) \ D : parent[n] \in (NodesOf(t) \ D) \cup {t}
    BY <2>2
  <2>4. QED
    BY <1>2, <2>1, <2>2, <2>3, DeallocateAccounted
<1>3. QED
  BY <1>1, <1>2 DEF Erase

\* clear
LEMMA ClearAccounted ==
  ASSUME IInv, IInv', NEW t \in Tree, Clear(t)
  PROVE  Accounted
<1> DEFINE p == Cursor(t, 0)
<1>1. p.m_node = t /\ p.m_pos = 0 /\ p = Cursor(t, 1 - 1)
  BY DEF Cursor
<1>2. ASSUME Valid(p) PROVE InTree(t, p)
  <2>1. Len(children[t]) \in Nat /\ 0 < Len(children[t]) /\ DOMAIN children[t] = 1 .. Len(children[t])
    BY <1>1, <1>2, InvFacts, HolderFacts, SeqBasics DEF Valid, LinkFacts
  <2>2. 1 \in DOMAIN children[t]
    BY <2>1
  <2>3. p \in NodeCursors(t)
    BY <1>1, <2>2 DEF NodeCursors
  <2>4. QED
    BY <2>3, CursorInTree
<1>3. Erase(t, p)
  BY DEF Clear
<1> HIDE DEF p
<1>4. QED
  BY <1>2, <1>3, EraseAccounted

\* All nodes of t are freed.
LEMMA AllFreedAccounted ==
  ASSUME IInv, IInv', NEW t \in Tree, NEW ch, Deallocate(t, NodesOf(t), ch, parent),
         UNCHANGED thrown
  PROVE  Accounted
<1> DEFINE D == NodesOf(t)
<1>1. /\ D \subseteq NodesOf(t) /\ \A n \in NodesOf(t) \ D : parent[n] \in (NodesOf(t) \ D) \cup {t}
      /\ \A n \in Node \ NodesOf(t) : parent[n] = parent[n] /\ Deallocate(t, D, ch, parent)
  OBVIOUS
<1> HIDE DEF D
<1>2. Deallocate(t, D, ch, parent)
  BY DEF D
<1>3. QED
  BY <1>1, <1>2, DeallocateAccounted

\* insert_below( position , subtree )
LEMMA InsertBelowSubtreeAccounted ==
  ASSUME IInv, IInv', NEW t \in Tree, NEW p, InTree(t, p), NEW c, IsNodeAt(c),
         InsertBelowSubtree(t, p, c)
  PROVE  Accounted
<1> DEFINE h == Target(p)
           s == NodeAt(children, c)
<1>1. h \in NodesOf(t) \cup {t} /\ s \in Node /\ value[s] \in Value
  BY DEF InTree, Target, IsEnd, IsNodeAt
<1>2. CASE Throws(t, value[s])
  BY <1>1, <1>2 DEF Accounted
<1>3. CASE CopiesBelow(t, h, s, children, parent, value, {})
  <2> HIDE DEF h, s
  <2> DEFINE freed == {}
  <2>1. /\ freed \subseteq NodesOf(t) /\ Below(children, t) = NodesOf(t) \ freed
        /\ \A w \in Tree \ {t} : Below(children, w) = NodesOf(w)
        /\ Links(children, parent, {}) /\ h \in Below(children, t) \cup {t}
    BY <1>1 DEF NodesOf, IInv
  <2>2. Unlinked(parent, allocated \ freed)
    BY DEF IInv, Unlinked
  <2>3. CopiesBelow(t, h, s, children, parent, value, freed)
    BY <1>3
  <2> HIDE DEF freed
  <2>4. QED
    BY <1>1, <2>1, <2>2, <2>3, CopiesBelowAccounted
<1>4. QED
  BY <1>2, <1>3 DEF InsertBelowSubtree

\* assign( subtree ) and the copy of a tree.
LEMMA AssignTreeAccounted ==
  ASSUME IInv, IInv', NEW t \in Tree, NEW c, IsNodeAt(c), AssignTree(t, c)
  PROVE  Accounted
<1> DEFINE D == Below(children, t)
           s == NodeAt(children, c)
           ch == Freed([children EXCEPT ![t] = <<>>], D)
           par == Cleared(parent, D)
           val == Cleared(value, D)
<1>1. CopiesBelow(t, t, s, ch, par, val, D) /\ s \in Node
  BY DEF AssignTree, ClearedLinks, NodesOf, IsNodeAt
<1>2. ClearedAt(t, D, ch, par)
  BY DEF ClearedAt
<1> HIDE DEF ch, par, val, D, s
<1>3. /\ Links(ch, par, {}) /\ D \subseteq NodesOf(t)
      /\ Unlinked(par, allocated \ D)
      /\ Below(ch, t) = NodesOf(t) \ D
      /\ \A w \in Tree \ {t} : Below(ch, w) = NodesOf(w)
  BY <1>2, ClearedBelow DEF Unlinked
<1>4. t \in Below(ch, t) \cup {t}
  OBVIOUS
<1>5. QED
  BY <1>1, <1>3, <1>4, CopiesBelowAccounted

\* insert( position , subtree ): the first copy, then what is below it.
LEMMA InsertSubtreeAccounted ==
  ASSUME IInv, IInv', NEW t \in Tree, NEW p, InTree(t, p), NEW c, IsNodeAt(c),
         InsertSubtree(t, p, c)
  PROVE  Accounted
<1> DEFINE h == p.m_node
           v == value[NodeAt(children, c)]
<1>1. CASE InsertBelowSubtree(t, p, c)
  BY <1>1, InsertBelowSubtreeAccounted
<1>2. CASE Undefined
  BY <1>2, UntouchedAccounted
<1>3. CASE Throws(t, v)
  BY <1>3 DEF IsNodeAt, Accounted
<1>4. ASSUME Valid(p), ~IsRoot(p), Len(children[h]) < MaxArity,
             NEW n \in Node \ allocated,
             LET ch == [children EXCEPT ![h] = InsertAt(@, p.m_pos + 1, n)]
             IN CopiesInto(t, n, v, NodeAt(ch, c), ch, [parent EXCEPT ![n] = h],
                           value, allocated \cup {n}, m_size[t] + 1)
      PROVE  Accounted
  <2> DEFINE ch == [children EXCEPT ![h] = InsertAt(@, p.m_pos + 1, n)]
             par == [parent EXCEPT ![n] = h]
             s == NodeAt(ch, c)
             taken == allocated \cup {n}
             size == m_size[t] + 1
             N == (Below(children, t) \ {}) \cup {n}
  <2>1. IsNodeAt(p) /\ h \in NodesOf(t) \cup {t}
    BY <1>4 DEF InTree, IsEnd
  <2>2. CopiesInto(t, n, v, s, ch, par, value, taken, size) /\ PutInFront(p, n, ch, par)
    BY <1>4 DEF PutInFront
  <2>3. /\ par[n] = h /\ \A m \in Node : m # n => par[m] = parent[m]
        /\ parent[n] = Null /\ NodesOf(t) \subseteq Node
        /\ \A m \in NodesOf(t) : m # n /\ parent[m] \in NodesOf(t) \cup {t}
    BY InvFacts, TreeParents DEF LinkFacts
  <2> HIDE DEF ch, par, h
  <2>4. /\ Links(ch, par, {}) /\ s \in Node
        /\ \A m \in Node \ allocated : m # n => par[m] = Null
    BY <2>1, <2>2, InsertedFirst
  <2>5. OneTree(children, parent, ch, par, t, {}, {n}, N)
    <3>1. \A m \in N : par[m] \in N \cup {t}
      BY <2>1, <2>3 DEF NodesOf
    <3>2. QED
      BY <2>3, <2>4, <3>1 DEF OneTree, NodesOf, IInv
  <2>6. Unlinked(par, taken)
    BY <2>4 DEF Unlinked
  <2> HIDE DEF N, s, taken, size
  <2>7. Below(ch, t) = N /\ \A w \in Tree \ {t} : Below(ch, w) = NodesOf(w)
    BY <2>5, OneTreeChanges DEF NodesOf
  <2>8. n \in Below(ch, t)
    BY <2>7 DEF N
  <2>0. CopiedInto(t, ch, taken, size)
    BY <2>2, <2>4, <2>6, <2>8, CopiesIntoTree
  <2>9. PICK F \in SUBSET (Node \ taken) :
          /\ allocated' = taken \cup F /\ thrown' = thrown
          /\ m_size' = [m_size EXCEPT ![t] = size + Cardinality(F)]
          /\ Below(children', t) = Below(ch, t) \cup F
          /\ \A w \in Tree \ {t} : Below(children', w) = Below(ch, w)
    BY <2>0 DEF CopiedInto
  <2> DEFINE G == F \cup {n}
  <2>10. /\ n \notin F /\ G \subseteq Node \ allocated
         /\ allocated' = (allocated \ {}) \cup G
         /\ Below(children', t) = (NodesOf(t) \ {}) \cup G
         /\ \A w \in Tree \ {t} : Below(children', w) = NodesOf(w)
    BY <2>7, <2>9 DEF taken, N, NodesOf
  <2>11. Cardinality(G) = Cardinality(F) + 1 /\ Cardinality(F) \in Nat /\ Cardinality({}) = 0
    <3>1. F \in SUBSET Node
      OBVIOUS
    <3>2. IsFiniteSet(F)
      BY <3>1, FS_Subset, TreeBaseAssumption
    <3>3. QED
      BY <2>10, <3>1, <3>2, FS_AddElement, FS_EmptySet, NodeSets
  <2> HIDE DEF G
  <2>12. m_size' = [m_size EXCEPT ![t] = @ - Cardinality({}) + Cardinality(G)]
    <3>1. m_size[t] - Cardinality({}) + Cardinality(G) = size + Cardinality(F)
      BY <2>11 DEF size, IInv, TypeOK
    <3>2. QED
      BY <2>9, <3>1
  <2>13. Reshaped(t, {}, G)
    BY <2>9, <2>10, <2>12 DEF Reshaped
  <2>14. QED
    BY <2>10, <2>13 DEF Accounted
<1>5. QED
  BY <1>1, <1>2, <1>3, <1>4 DEF InsertSubtree

\* assign( position , subtree ): what is below the position is freed first.
LEMMA AssignAtAccounted ==
  ASSUME IInv, IInv', NEW t \in Tree, NEW p, IsNodeAt(p), InTree(t, p), NEW c, IsNodeAt(c),
         AssignAt(t, p, c)
  PROVE  Accounted
<1> DEFINE x == NodeAt(children, p)
           s == NodeAt(children, c)
           D == Below(children, x)
           ch == Freed([children EXCEPT ![x] = <<>>], D)
           par == Cleared(parent, D)
           val == Cleared(value, D)
           taken == allocated \ D
           size == m_size[t] - Cardinality(D)
<1>1. /\ CopiesInto(t, x, value[s], s, ch, par, val, taken, size)
      /\ s \in Node /\ x \in NodesOf(t) /\ ClearedAt(x, D, ch, par)
  BY DEF AssignAt, IsNodeAt, InTree, ClearedAt
<1> HIDE DEF x, s, ch, par, val, D
<1>2. /\ Links(ch, par, {}) /\ D \subseteq NodesOf(t) /\ x \notin D
      /\ Below(ch, t) = NodesOf(t) \ D
      /\ \A w \in Tree \ {t} : Below(ch, w) = NodesOf(w)
      /\ Unlinked(par, taken)
  BY <1>1, ClearedBelow DEF Unlinked
<1>3. x \in Below(ch, t)
  BY <1>1, <1>2
<1> DEFINE v == value[s]
<1>4. CopiesInto(t, x, v, s, ch, par, val, taken, size)
  BY <1>1
<1> HIDE DEF taken, size, v
<1>0. CopiedInto(t, ch, taken, size)
  BY <1>1, <1>2, <1>3, <1>4, CopiesIntoTree
<1>5. PICK F \in SUBSET (Node \ taken) :
        /\ allocated' = taken \cup F /\ thrown' = thrown
        /\ m_size' = [m_size EXCEPT ![t] = size + Cardinality(F)]
        /\ Below(children', t) = Below(ch, t) \cup F
        /\ \A w \in Tree \ {t} : Below(children', w) = Below(ch, w)
  BY <1>0 DEF CopiedInto
<1>6. Reshaped(t, D, F)
  BY <1>2, <1>5 DEF Reshaped, taken, size
<1>7. D \in SUBSET Node
  BY <1>2, TreeParents
<1>8. QED
  BY <1>6, <1>7 DEF Accounted

\* The copy assignment.
LEMMA CopyAssignAccounted ==
  ASSUME IInv, IInv', NEW t \in Tree, NEW u \in Tree, CopyAssign(t, u)
  PROVE  Accounted
<1>1. CASE Deallocate(t, NodesOf(t), [children EXCEPT ![t] = <<>>], parent) /\ UNCHANGED thrown
  <2> DEFINE ch == [children EXCEPT ![t] = <<>>]
  <2>1. Deallocate(t, NodesOf(t), ch, parent)
    BY <1>1
  <2> HIDE DEF ch
  <2>2. QED
    BY <1>1, <2>1, AllFreedAccounted
<1>2. CASE Undefined
  BY <1>2, UntouchedAccounted
<1>3. CASE children[u] # <<>> /\ AssignTree(t, Cursor(u, 0))
  BY <1>3, RootCursor, AssignTreeAccounted
<1>4. QED
  BY <1>1, <1>2, <1>3 DEF CopyAssign

\* The root of a tree and the nodes below the header.
LEMMA RootOnly ==
  ASSUME IInv, NEW u \in Tree, children[u] # <<>>
  PROVE  /\ children[u][1] \in NodesOf(u)
         /\ \A n \in Node : parent[n] = u <=> n = children[u][1]
<1>1. /\ IsNodeAt(Cursor(u, 0)) /\ NodeAt(children, Cursor(u, 0)) = children[u][1]
      /\ Cursor(u, 0).m_node = u /\ u \in Holder
  BY RootCursor, HolderFacts DEF Cursor
<1>2. /\ children[u][1] \in Node /\ parent[children[u][1]] = u /\ Len(children[u]) = 1
      /\ children[u] \in Seq(Node)
  BY <1>1, InvFacts DEF IsNodeAt, LinkFacts
<1>3. \A n \in Node : parent[n] = u => \E i \in 1 .. 1 : children[u][i] = n
  BY <1>1, <1>2, InvFacts, SeqBasics DEF LinkFacts
<1>4. \A n \in Node : parent[n] = u => n = children[u][1]
  BY <1>3
<1>5. QED
  BY <1>2, <1>4, TreeParents

\* The move assignment.
LEMMA MoveAssignAccounted ==
  ASSUME IInv, IInv', NEW t \in Tree, NEW u \in Tree, MoveAssign(t, u)
  PROVE  Accounted
<1> DEFINE D == NodesOf(t)
           n == children[u][1]
           ch == Freed([children EXCEPT ![t] = <<>>], D)
           par == Cleared(parent, D)
<1>1. CASE Undefined
  BY <1>1, UntouchedAccounted
<1>2. CASE Deallocate(t, D, [children EXCEPT ![t] = <<>>], parent) /\ UNCHANGED thrown
  <2> DEFINE ch1 == [children EXCEPT ![t] = <<>>]
  <2>1. Deallocate(t, NodesOf(t), ch1, parent)
    BY <1>2
  <2> HIDE DEF ch1
  <2>2. QED
    BY <1>2, <2>1, AllFreedAccounted
<1>3. CASE /\ children[u] # <<>>
           /\ allocated' = allocated \ D
           /\ parent' = [par EXCEPT ![n] = t]
           /\ m_size' = [m_size EXCEPT ![t] = m_size[u], ![u] = 0]
           /\ thrown' = [thrown EXCEPT ![t] = thrown[u], ![u] = 0]
  <2>1. t # u /\ n \in NodesOf(u) /\ \A m \in Node : parent[m] = u <=> m = n
    BY <1>3, RootOnly DEF MoveAssign
  <2>2. ClearedAt(t, D, ch, par)
    BY DEF ClearedAt, NodesOf
  <2>3. /\ D \cap NodesOf(u) = {} /\ D \subseteq Node /\ NodesOf(u) \subseteq Node
        /\ \A m \in NodesOf(u) : parent[m] \in NodesOf(u) \cup {u}
    BY <2>1, NodesOfFacts, TreeParents
  <2>4. /\ n \notin D /\ parent'[n] = t
        /\ \A m \in Node : m # n => parent'[m] = par[m]
        /\ \A m \in Node \ D : par[m] = parent[m]
    BY <1>3, <2>1, <2>3 DEF Cleared
  <2> HIDE DEF D, ch, par, n
  <2>5. /\ Links(ch, par, {}) /\ Below(ch, t) = {} /\ Below(ch, u) = NodesOf(u)
        /\ \A w \in Tree \ {t} : Below(ch, w) = NodesOf(w)
    BY <2>1, <2>2, ClearedBelow DEF D
  <2> DEFINE N == (Below(ch, t) \ {}) \cup NodesOf(u)
             M == (Below(ch, u) \ NodesOf(u)) \cup {}
             F == NodesOf(u)
  <2>6. TwoTrees(ch, par, children', parent', t, {}, N, u, F, M)
    <3>1. \A m \in N : parent'[m] \in N \cup {t}
      BY <2>1, <2>3, <2>4, <2>5
    <3>2. M = {} /\ \A m \in Node \ (N \cup M) : parent'[m] = par[m]
      BY <2>1, <2>4, <2>5
    <3>3. QED
      BY <2>1, <2>5, <3>1, <3>2 DEF TwoTrees, IInv
  <2>7. N = NodesOf(u) /\ M = {}
    BY <2>5
  <2> HIDE DEF N, M, F
  <2>8. Below(children', t) = N /\ Below(children', u) = M
        /\ \A w \in Tree \ {t, u} : Below(children', w) = Below(ch, w)
    BY <2>6, TwoTreesChange
  <2>9. TakenOver(t, u)
    BY <1>3, <2>1, <2>5, <2>7, <2>8 DEF TakenOver, D
  <2>10. QED
    BY <2>9 DEF Accounted
<1>4. QED
  BY <1>1, <1>2, <1>3 DEF MoveAssign

\* swap
LEMMA SwapAccounted ==
  ASSUME IInv, IInv', NEW t \in Tree, NEW u \in Tree, Swap(t, u)
  PROVE  Accounted
<1>1. CASE Undefined
  BY <1>1, UntouchedAccounted
<1>2. CASE /\ t # u
           /\ parent' = [n \in Node |-> IF n \in ToSet(children[t]) THEN u
                                        ELSE IF n \in ToSet(children[u]) THEN t
                                        ELSE parent[n]]
           /\ m_size' = [m_size EXCEPT ![t] = m_size[u], ![u] = m_size[t]]
           /\ thrown' = [thrown EXCEPT ![t] = thrown[u], ![u] = thrown[t]]
           /\ UNCHANGED allocated
  <2> DEFINE D == NodesOf(t)
             F == NodesOf(u)
             N == (Below(children, t) \ D) \cup F
             M == (Below(children, u) \ F) \cup D
  <2>1. /\ D \subseteq Node /\ F \subseteq Node /\ D \cap F = {}
        /\ \A n \in Node : n \in D <=> parent[n] \in D \cup {t}
        /\ \A n \in Node : n \in F <=> parent[n] \in F \cup {u}
        /\ t \notin Node /\ u \notin Node
    BY <1>2, TreeParents, NodesOfFacts, HolderFacts
  <2>2. \A n \in Node : parent'[n] = IF parent[n] = t THEN u
                                     ELSE IF parent[n] = u THEN t ELSE parent[n]
    <3>1. \A n \in Node : /\ n \in ToSet(children[t]) <=> parent[n] = t
                          /\ n \in ToSet(children[u]) <=> parent[n] = u
      BY InvFacts, HolderFacts DEF LinkFacts
    <3>2. QED
      BY <1>2, <3>1
  <2>3. N = F /\ M = D /\ D = Below(children, t) /\ F = Below(children, u)
    BY DEF NodesOf
  <2> HIDE DEF D, F
  <2>4. TwoTrees(children, parent, children', parent', t, D, N, u, F, M)
    <3>1. /\ \A n \in F : parent'[n] \in F \cup {t}
          /\ \A n \in D : parent'[n] \in D \cup {u}
          /\ \A n \in Node \ (F \cup D) : parent'[n] = parent[n]
      BY <2>1, <2>2
    <3>2. QED
      BY <1>2, <2>3, <3>1 DEF TwoTrees, IInv
  <2> HIDE DEF N, M
  <2>5. /\ Below(children', t) = N /\ Below(children', u) = M
        /\ \A w \in Tree \ {t, u} : Below(children', w) = Below(children, w)
    BY <2>4, TwoTreesChange
  <2>6. Swapped(t, u)
    BY <1>2, <2>3, <2>5 DEF Swapped, NodesOf
  <2>7. QED
    BY <2>6 DEF Accounted
<1>3. QED
  BY <1>1, <1>2 DEF Swap

\* operator==
LEMMA CompareAccounted ==
  ASSUME NEW t \in Tree, NEW u \in Tree, Compare(t, u)
  PROVE  Accounted
BY UntouchedAccounted DEF Compare

\* Exchanging nodes between a tree and itself leaves the counter.
LEMMA OwnExchange ==
  ASSUME IInv, NEW t \in Tree, NEW k1 \in Nat, NEW k2 \in Nat, CountExchange(t, k1, t, k2)
  PROVE  m_size' = m_size
<1> DEFINE counted == [m_size EXCEPT ![t] = @ - k1 + k2]
<1>1. m_size \in [Tree -> Int]
  BY DEF IInv, TypeOK
<1>2. counted \in [Tree -> Int] /\ counted[t] = m_size[t] - k1 + k2
      /\ \A w \in Tree : w # t => counted[w] = m_size[w]
  BY <1>1
<1>3. m_size' = [counted EXCEPT ![t] = @ - k2 + k1]
  BY DEF CountExchange
<1> HIDE DEF counted
<1>4. m_size' \in [Tree -> Int] /\ \A w \in Tree : m_size'[w] = m_size[w]
  BY <1>1, <1>2, <1>3
<1>5. QED
  BY <1>1, <1>4

\* swap_impl1: a subtree changes to the other tree, or its place in its own.
LEMMA SwapIntoPlaceAccounted ==
  ASSUME IInv, IInv', NEW t \in Tree, NEW u \in Tree, NEW h \in NodesOf(t) \cup {t},
         NEW c, InTree(u, c), IsNodeAt(c), SwapIntoPlace(t, h, u, c),
         UNCHANGED <<allocated, thrown>>
  PROVE  Accounted
<1> DEFINE n == NodeAt(children, c)
           D == {}
           F == Desc(children, n)
<1>1. /\ n \in NodesOf(u) /\ n \in Node /\ h \notin F
      /\ parent' = [parent EXCEPT ![n] = h]
      /\ CountExchange(t, 0, u, Cardinality(F))
  BY DEF SwapIntoPlace, InTree, IsNodeAt
<1> HIDE DEF n
<1>2. /\ F \subseteq NodesOf(u) /\ n \in F
      /\ parent[n] \in (NodesOf(u) \ F) \cup {u}
      /\ \A m \in Node \ {n} : m \in F <=> parent[m] \in F
  BY <1>1, SubtreePart
<1>3. /\ NodesOf(t) \in SUBSET Node /\ NodesOf(u) \in SUBSET Node
      /\ \A m \in Node : m \in NodesOf(t) <=> parent[m] \in NodesOf(t) \cup {t}
      /\ \A m \in Node : m \in NodesOf(u) <=> parent[m] \in NodesOf(u) \cup {u}
      /\ t # u => NodesOf(t) \cap NodesOf(u) = {}
      /\ parent \in [Node -> Holder \cup {Null}]
  BY TreeParents, NodesOfFacts, InvFacts DEF LinkFacts
<1>4. parent'[n] = h /\ \A m \in Node : m # n => parent'[m] = parent[m]
  BY <1>1, <1>3
<1>5. Cardinality(D) = 0 /\ Cardinality(F) \in Nat /\ D \subseteq NodesOf(t)
  <2>1. F \in SUBSET Node
    BY <1>2, <1>3
  <2> HIDE DEF F
  <2>2. QED
    BY <2>1, NodeSets, FS_EmptySet
<1> HIDE DEF F
<1>6. CASE t = u
  <2>1. m_size' = m_size
    BY <1>1, <1>5, <1>6, OwnExchange
  <2>2. \A m \in NodesOf(t) : parent'[m] \in NodesOf(t) \cup {t}
    BY <1>3, <1>4
  <2>3. \A m \in Node \ NodesOf(t) : parent'[m] = parent[m]
    BY <1>1, <1>4, <1>6
  <2>4. QED
    BY <2>1, <2>2, <2>3, RearrangedAccounted
<1>7. CASE t # u
  <2>1. \A m \in (NodesOf(t) \ D) \cup F : parent'[m] \in (NodesOf(t) \ D) \cup F \cup {t}
    BY <1>1, <1>2, <1>3, <1>4, <1>7
  <2>2. \A m \in (NodesOf(u) \ F) \cup D : parent'[m] \in (NodesOf(u) \ F) \cup D \cup {u}
    BY <1>1, <1>2, <1>3, <1>4
  <2>3. \A m \in Node \ (NodesOf(t) \cup NodesOf(u)) : parent'[m] = parent[m]
    BY <1>1, <1>4
  <2>4. CountExchange(t, Cardinality(D), u, Cardinality(F))
    BY <1>1, <1>5
  <2> HIDE DEF D
  <2>5. QED
    BY <1>2, <1>5, <1>7, <2>1, <2>2, <2>3, <2>4, ExchangeAccounted
<1>8. QED
  BY <1>6, <1>7

\* swap_impl2: two subtrees change places, in two trees or in one.
LEMMA SwapNodesAccounted ==
  ASSUME IInv, IInv', NEW t \in Tree, NEW u \in Tree,
         NEW c1, InTree(t, c1), IsNodeAt(c1), NEW c2, InTree(u, c2), IsNodeAt(c2),
         SwapNodes(t, c1, u, c2), UNCHANGED <<allocated, thrown>>
  PROVE  Accounted
<1> DEFINE n1 == NodeAt(children, c1)
           n2 == NodeAt(children, c2)
           h1 == c1.m_node
           h2 == c2.m_node
           D == Desc(children, n1)
           F == Desc(children, n2)
<1>1. /\ n1 \in NodesOf(t) /\ n1 \in Node /\ h1 \in NodesOf(t) \cup {t} /\ h1 = parent[n1]
      /\ n2 \in NodesOf(u) /\ n2 \in Node /\ h2 \in NodesOf(u) \cup {u} /\ h2 = parent[n2]
      /\ parent' = [parent EXCEPT ![n1] = h2, ![n2] = h1]
      /\ CountExchange(t, Cardinality(D), u, Cardinality(F))
  BY DEF SwapNodes, InTree, IsNodeAt
<1> HIDE DEF n1, n2, h1, h2
<1>2. /\ D \subseteq NodesOf(t) /\ n1 \in D
      /\ parent[n1] \in (NodesOf(t) \ D) \cup {t}
      /\ \A m \in Node \ {n1} : m \in D <=> parent[m] \in D
  BY <1>1, SubtreePart
<1>3. /\ F \subseteq NodesOf(u) /\ n2 \in F
      /\ parent[n2] \in (NodesOf(u) \ F) \cup {u}
      /\ \A m \in Node \ {n2} : m \in F <=> parent[m] \in F
  BY <1>1, SubtreePart
<1>4. /\ NodesOf(t) \in SUBSET Node /\ NodesOf(u) \in SUBSET Node
      /\ \A m \in Node : m \in NodesOf(t) <=> parent[m] \in NodesOf(t) \cup {t}
      /\ \A m \in Node : m \in NodesOf(u) <=> parent[m] \in NodesOf(u) \cup {u}
      /\ t # u => NodesOf(t) \cap NodesOf(u) = {}
      /\ parent \in [Node -> Holder \cup {Null}]
  BY TreeParents, NodesOfFacts, InvFacts DEF LinkFacts
<1>5. /\ n1 # n2 => parent'[n1] = h2
      /\ parent'[n2] = h1
      /\ \A m \in Node : m # n1 /\ m # n2 => parent'[m] = parent[m]
  BY <1>1, <1>4
<1>6. Cardinality(D) \in Nat /\ Cardinality(F) \in Nat
  <2>1. D \in SUBSET Node /\ F \in SUBSET Node
    BY <1>2, <1>3, <1>4
  <2> HIDE DEF D, F
  <2>2. QED
    BY <2>1, NodeSets
<1> HIDE DEF D, F
<1>7. CASE t = u
  <2>1. m_size' = m_size
    BY <1>1, <1>6, <1>7, OwnExchange
  <2>2. \A m \in NodesOf(t) : parent'[m] \in NodesOf(t) \cup {t}
    BY <1>1, <1>4, <1>5, <1>7
  <2>3. \A m \in Node \ NodesOf(t) : parent'[m] = parent[m]
    BY <1>1, <1>5, <1>7
  <2>4. QED
    BY <2>1, <2>2, <2>3, RearrangedAccounted
<1>8. CASE t # u
  <2>1. \A m \in (NodesOf(t) \ D) \cup F : parent'[m] \in (NodesOf(t) \ D) \cup F \cup {t}
    BY <1>1, <1>2, <1>3, <1>4, <1>5, <1>8
  <2>2. \A m \in (NodesOf(u) \ F) \cup D : parent'[m] \in (NodesOf(u) \ F) \cup D \cup {u}
    BY <1>1, <1>2, <1>3, <1>4, <1>5, <1>8
  <2>3. \A m \in Node \ (NodesOf(t) \cup NodesOf(u)) : parent'[m] = parent[m]
    BY <1>1, <1>5
  <2>4. QED
    BY <1>1, <1>2, <1>3, <1>8, <2>1, <2>2, <2>3, ExchangeAccounted
<1>9. QED
  BY <1>7, <1>8

\* swap_subtrees
LEMMA SwapSubtreesAccounted ==
  ASSUME IInv, IInv', NEW t \in Tree, NEW u \in Tree,
         NEW c1, ~PastArray(c1) => InTree(t, c1), NEW c2, ~PastArray(c2) => InTree(u, c2),
         SwapSubtrees(t, c1, u, c2)
  PROVE  Accounted
<1>u. CASE Undefined
  BY <1>u, UntouchedAccounted
<1> SUFFICES ASSUME ~Undefined PROVE Accounted
  BY <1>u
<1>0. ~PastArray(c1) /\ ~PastArray(c2)
  BY DEF SwapSubtrees
<1>1. UNCHANGED <<allocated, thrown>>
  BY DEF SwapSubtrees
<1>2. /\ Valid(c1) => IsNodeAt(c1)
      /\ Valid(c2) => IsNodeAt(c2)
      /\ c1.m_node \in NodesOf(t) \cup {t} /\ c2.m_node \in NodesOf(u) \cup {u}
  BY <1>0 DEF IsEnd, InTree
<1>3. CASE Valid(c1) /\ Valid(c2) /\ SwapNodes(t, c1, u, c2)
  BY <1>0, <1>1, <1>2, <1>3, SwapNodesAccounted
<1>4. CASE ~Valid(c1) /\ Valid(c2) /\ SwapIntoPlace(t, c1.m_node, u, c2)
  BY <1>0, <1>1, <1>2, <1>4, SwapIntoPlaceAccounted
<1>5. CASE Valid(c1) /\ ~Valid(c2) /\ SwapIntoPlace(u, c2.m_node, t, c1)
  BY <1>0, <1>1, <1>2, <1>5, SwapIntoPlaceAccounted
<1>6. CASE UNCHANGED <<children, parent, m_size>>
  BY <1>1, <1>6 DEF Untouched, Accounted
<1>7. QED
  BY <1>3, <1>4, <1>5, <1>6 DEF SwapSubtrees

\* move_subtree: what is left below the place of the moved node is freed.
LEMMA MoveSubtreeAccounted ==
  ASSUME IInv, IInv', NEW t \in Tree, NEW p, InTree(t, p), IsNodeAt(p),
         NEW c, InTree(t, c), IsNodeAt(c), MoveSubtree(t, p, c)
  PROVE  Accounted
<1> DEFINE node1 == NodeAt(children, c)
           node2 == NodeAt(children, p)
           g == c.m_node
           h == parent[node2]
           rem == [children EXCEPT ![g] = ChildRemoved(@, node1)]
           D == Desc(rem, node2)
           par1 == [parent EXCEPT ![node1] = Null]
           par == [parent EXCEPT ![node1] = h]
           ch == [rem EXCEPT ![h] = ReplaceAt(@, ChildIndex(rem[h], node2), node1)]
<1>1. /\ Deallocate(t, D, ch, par) /\ UNCHANGED thrown
      /\ node1 \in NodesOf(t) /\ node1 \in Node /\ parent[node1] = g /\ g \in Holder
      /\ node2 \in NodesOf(t) /\ node2 \in Node /\ h \in NodesOf(t) \cup {t}
      /\ node2 \notin Desc(children, node1)
  BY DEF MoveSubtree, InTree, IsNodeAt
<1>2. node1 # node2
  BY <1>1, SubtreePart
<1> HIDE DEF node1, node2, g
<1>3. /\ NodesOf(t) \in SUBSET Node /\ DownClosed(children, NodesOf(t))
      /\ \A n \in Node : n \in NodesOf(t) <=> parent[n] \in NodesOf(t) \cup {t}
      /\ parent \in [Node -> Holder \cup {Null}] /\ Links(children, parent, {})
  BY TreeParents, InvFacts DEF LinkFacts, IInv
<1>4. /\ Links(rem, par1, {} \cup {node1})
      /\ ToSet(rem[g]) = ToSet(children[g]) \ {node1}
      /\ \A m \in Holder : m # g => rem[m] = children[m]
  <2>0. Links(rem, par1, {} \cup {node1})
    BY <1>1, <1>3, UnlinkKeeps
  <2>1. ToSet(ChildRemoved(children[g], node1)) = ToSet(children[g]) \ {node1}
    BY <1>1, InvFacts, RemoveChildSet DEF LinkFacts
  <2>2. children \in [Holder -> Seq(Node)]
    BY <1>3 DEF Links
  <2>3. QED
    BY <1>1, <2>0, <2>1, <2>2
<1>5. par1[node2] = h /\ \A m \in Node : m # node1 => par1[m] = parent[m] /\ par[m] = parent[m]
  BY <1>1, <1>2, <1>3
<1>6. par[node1] = h
  BY <1>1, <1>3
<1> HIDE DEF rem, par1, h, ch, par
<1>7. /\ rem \in [Holder -> Seq(Node)]
      /\ \A n \in Node, k \in Holder : n \in ToSet(rem[k]) <=> par1[n] = k
  BY <1>4 DEF Links, Dual
<1>8. node2 \in D /\ DownClosed(rem, D) /\ h \notin D
  BY <1>1, <1>4, <1>5, <1>7, DescFacts, ParentOutside
<1>9. D \subseteq NodesOf(t)
  <2>1. \A m \in NodesOf(t) : ToSet(rem[m]) \subseteq NodesOf(t)
    BY <1>3, <1>4, HolderFacts DEF DownClosed
  <2>2. DownClosed(rem, NodesOf(t))
    BY <1>3, <2>1 DEF DownClosed
  <2>3. QED
    BY <1>1, <1>7, <2>2, DescFacts
<1> HIDE DEF D
<1>10. ASSUME NEW n \in NodesOf(t) \ D PROVE par[n] \in (NodesOf(t) \ D) \cup {t}
  <2>1. CASE n = node1
    BY <1>1, <1>6, <1>8, <2>1
  <2>2. CASE n # node1
    <3>1. n \in Node /\ par[n] = parent[n] /\ par1[n] = parent[n] /\ parent[n] \in NodesOf(t) \cup {t}
      BY <1>3, <1>5, <2>2
    <3>2. ASSUME parent[n] \in D PROVE FALSE
      <4>1. n \in ToSet(rem[parent[n]])
        BY <1>7, <3>1, <1>3, HolderFacts
      <4>2. QED
        BY <1>8, <1>10, <3>2, <4>1 DEF DownClosed
    <3>3. QED
      BY <3>1, <3>2
  <2>3. QED
    BY <2>1, <2>2
<1>11. \A n \in Node \ NodesOf(t) : par[n] = parent[n]
  BY <1>1, <1>5
<1>12. QED
  BY <1>1, <1>9, <1>10, <1>11, DeallocateAccounted

\* move_and_insert_subtree
LEMMA MoveAndInsertSubtreeAccounted ==
  ASSUME IInv, IInv', NEW t \in Tree, NEW p, InTree(t, p), IsNodeAt(p),
         NEW c, InTree(t, c), IsNodeAt(c), MoveAndInsertSubtree(t, p, c)
  PROVE  Accounted
<1>u. CASE Undefined
  BY <1>u, UntouchedAccounted
<1> SUFFICES ASSUME ~Undefined PROVE Accounted
  BY <1>u
<1> DEFINE node1 == NodeAt(children, c)
           h == parent[NodeAt(children, p)]
<1>1. /\ parent' = [parent EXCEPT ![node1] = h] /\ UNCHANGED <<allocated, m_size, thrown>>
      /\ node1 \in NodesOf(t) /\ h \in NodesOf(t) \cup {t}
  BY DEF MoveAndInsertSubtree, InTree, IsNodeAt
<1> HIDE DEF node1, h
<1>2. /\ NodesOf(t) \in SUBSET Node /\ parent \in [Node -> Holder \cup {Null}]
      /\ \A n \in Node : n \in NodesOf(t) <=> parent[n] \in NodesOf(t) \cup {t}
  BY TreeParents, InvFacts DEF LinkFacts
<1>3. /\ \A n \in NodesOf(t) : parent'[n] \in NodesOf(t) \cup {t}
      /\ \A n \in Node \ NodesOf(t) : parent'[n] = parent[n]
  BY <1>1, <1>2
<1>4. QED
  BY <1>1, <1>3, RearrangedAccounted

-----------------------------------------------------------------------------
(* All calls.                                                                *)

\* Every call does to the nodes of the trees and to the counters what
\* Accounted allows.
LEMMA NextAccounted == IInv /\ IInv' /\ [Next]_vars => Accounted
<1> SUFFICES ASSUME IInv, IInv', [Next]_vars PROVE Accounted
  OBVIOUS
<1>0. ASSUME NEW t \in Tree
      PROVE  /\ \A p \in NodeCursors(t) : InTree(t, p) /\ IsNodeAt(p)
             /\ \A p \in EmptyPlaces(t) : InTree(t, p)
             /\ \A p \in EndPlaces(t) : ~PastArray(p) => InTree(t, p)
  BY CursorInTree, CursorFacts
<1>1. CASE UNCHANGED vars
  BY <1>1, UntouchedAccounted DEF vars
<1>2. ASSUME NEW t \in Tree, NEW p \in NodeCursors(t) \cup EmptyPlaces(t), NEW v \in Value,
             InsertBelow(t, p, v) \/ Insert(t, p, v) \/ InsertAbove(t, p, v)
      PROVE  Accounted
  <2>1. InTree(t, p)
    BY <1>0
  <2>2. QED
    BY <1>2, <2>1, InsertBelowAccounted, InsertAccounted, InsertAboveAccounted
<1>3. ASSUME NEW t \in Tree, NEW p \in NodeCursors(t) \cup EmptyPlaces(t), Erase(t, p)
      PROVE  Accounted
  BY <1>0, <1>3, EraseAccounted
<1>4. ASSUME NEW t \in Tree, NEW p \in NodeCursors(t) \cup EmptyPlaces(t),
             NEW u \in Tree, NEW c \in NodeCursors(u),
             InsertBelowSubtree(t, p, c) \/ InsertSubtree(t, p, c)
      PROVE  Accounted
  BY <1>0, <1>4, InsertBelowSubtreeAccounted, InsertSubtreeAccounted
<1>5. ASSUME NEW t \in Tree, NEW u \in Tree, NEW p \in NodeCursors(t), NEW c \in NodeCursors(u),
             AssignAt(t, p, c)
      PROVE  Accounted
  BY <1>0, <1>5, AssignAtAccounted
<1>6. ASSUME NEW t \in Tree, NEW u \in Tree \ {t}, NEW c \in NodeCursors(u), AssignTree(t, c)
      PROVE  Accounted
  BY <1>0, <1>6, AssignTreeAccounted
<1>7. ASSUME NEW t \in Tree, NEW u \in Tree,
             CopyAssign(t, u) \/ MoveAssign(t, u) \/ Swap(t, u) \/ Compare(t, u)
      PROVE  Accounted
  BY <1>7, CopyAssignAccounted, MoveAssignAccounted, SwapAccounted, CompareAccounted
<1>8. ASSUME NEW t \in Tree, Clear(t) PROVE Accounted
  BY <1>8, ClearAccounted
<1>9. ASSUME NEW t \in Tree, NEW u \in Tree, NEW c1 \in NodeCursors(t) \cup EndPlaces(t),
             NEW c2 \in NodeCursors(u) \cup EndPlaces(u), SwapSubtrees(t, c1, u, c2)
      PROVE  Accounted
  <2>1. /\ ~PastArray(c1) => InTree(t, c1)
        /\ ~PastArray(c2) => InTree(u, c2)
    BY <1>0
  <2>2. QED
    BY <1>9, <2>1, SwapSubtreesAccounted
<1>10. ASSUME NEW t \in Tree, NEW p \in NodeCursors(t), NEW c \in NodeCursors(t),
              MoveSubtree(t, p, c) \/ MoveAndInsertSubtree(t, p, c)
       PROVE  Accounted
  BY <1>0, <1>10, MoveSubtreeAccounted, MoveAndInsertSubtreeAccounted
<1>11. QED
  BY <1>1, <1>2, <1>3, <1>4, <1>5, <1>6, <1>7, <1>8, <1>9, <1>10 DEF Next

\* At first the trees are empty and the counters zero.
LEMMA AccountInit == Init => SizeAccount
<1> SUFFICES ASSUME Init, NEW t \in Tree
             PROVE  m_size[t] = Cardinality(NodesOf(t)) + thrown[t]
  BY DEF SizeAccount
<1>1. IInv /\ t \in Holder
  BY InvInit, HolderFacts
<1>2. \A n \in Node : parent[n] = Null
  BY DEF Init
<1>3. NodesOf(t) = {}
  BY <1>1, <1>2, TreeParents, HolderFacts
<1>4. m_size[t] = 0 /\ thrown[t] = 0 /\ Cardinality({}) = 0
  BY FS_EmptySet DEF Init
<1>5. QED
  BY <1>3, <1>4

\* The node counter of every tree counts its nodes, beyond them only the inserts
\* that threw: no copy, move, swap or erase ever miscounts.
THEOREM SizeAccounted == Spec => []SizeAccount
<1>1. Init => IInv /\ SizeAccount
  BY InvInit, AccountInit
<1>2. IInv /\ SizeAccount /\ [Next]_vars => (IInv /\ SizeAccount)'
  BY InvNext, NextAccounted, AccountKept
<1>3. QED
  BY <1>1, <1>2, PTL DEF Spec

\* A tree in which no insert has thrown tells its number of nodes with size().
NoThrowCounted == \A t \in Tree : thrown[t] = 0 => m_size[t] = Cardinality(NodesOf(t))

\* size() of a tree, which tree_base counts beside the links, is the number of its nodes as long as
\* no insert that built its content has thrown.
THEOREM SizeIsNodeCountUnlessThrown == Spec => []NoThrowCounted
<1>1. TypeOK /\ SizeAccount => NoThrowCounted
  <2> SUFFICES ASSUME TypeOK, SizeAccount, NEW t \in Tree, thrown[t] = 0
               PROVE  m_size[t] = Cardinality(NodesOf(t))
    BY DEF NoThrowCounted
  <2>1. NodesOf(t) \in SUBSET Node
    BY DEF NodesOf, Below, Desc
  <2>2. Cardinality(NodesOf(t)) \in Nat
    BY <2>1, NodeSets
  <2>3. QED
    BY <2>2 DEF SizeAccount
<1>2. QED
  BY <1>1, TypeCorrect, SizeAccounted, PTL

\* No call that returns loses a node or gives one of no tree back: what leaves
\* a tree is freed, what is allocated is put into one.
THEOREM NodesLostOnlyByThrow == Spec => LeaksOnlyByThrow
<1>1. IInv /\ IInv' /\ [Next]_vars => [outcome' = "ok" => LostNodes' = LostNodes]_vars
  BY NextAccounted, LostKept
<1>2. QED
  BY <1>1, InvInit, InvNext, PTL DEF Spec, LeaksOnlyByThrow

-----------------------------------------------------------------------------
(* The array of children of one node                                       *)

\* A set of naturals has a least element; std::find stops there.
LEMMA LeastNatural ==
  ASSUME NEW T, T \subseteq Nat, T # {}
  PROVE  \E m \in T : \A k \in T : m <= k
<1>1. PICK m \in T : \A y \in T : <<y, m>> \notin OpToRel(<, Nat)
  BY NatLessThanWellFounded, WFMin
<1>2. \A k \in T : ~ (k < m)
  BY <1>1 DEF OpToRel
<1>3. QED
  BY <1>2

\* std::find returns the first slot that holds x, or end().
LEMMA FindProperties ==
  ASSUME NEW x
  PROVE  /\ Find(x) \in 0 .. MaxChildren
         /\ Find(x) < MaxChildren => m_children[Find(x)] = x
         /\ \A j \in 0 .. Find(x) - 1 : m_children[j] # x
<1> DEFINE T == {i \in 0 .. MaxChildren : i < MaxChildren => m_children[i] = x}
<1>1. MaxChildren \in T /\ T \subseteq Nat
  BY ArrayNodeAssumption
<1>2. PICK m \in T : \A k \in T : m <= k
  BY <1>1, LeastNatural
<1>3. /\ m \in 0 .. MaxChildren
      /\ m < MaxChildren => m_children[m] = x
      /\ \A j \in 0 .. m - 1 : m_children[j] # x
  BY <1>2, ArrayNodeAssumption
<1>4. QED
  BY <1>3 DEF Find

\* size() is the first free slot: everything in front of it is a child and,
\* when the array is packed, nothing behind it is.
LEMMA SizeProperties ==
  ASSUME ArrayTypeOK
  PROVE  /\ Size \in 0 .. MaxChildren
         /\ \A k \in 0 .. Size - 1 : k \in Slot /\ m_children[k] \in Child
         /\ Size < MaxChildren => m_children[Size] = NoChild
         /\ Packed => \A k \in Slot : k >= Size => m_children[k] = NoChild
<1>1. /\ Size \in 0 .. MaxChildren
      /\ Size < MaxChildren => m_children[Size] = NoChild
      /\ \A k \in 0 .. Size - 1 : m_children[k] # NoChild
  BY FindProperties DEF Size
<1>2. \A k \in 0 .. Size - 1 : k \in Slot /\ m_children[k] \in Child
  BY <1>1, ArrayNodeAssumption DEF ArrayTypeOK, Slot
<1>3. Packed => \A k \in Slot : k >= Size => m_children[k] = NoChild
  BY <1>1, ArrayNodeAssumption DEF Packed, Slot
<1>4. QED
  BY <1>1, <1>2, <1>3

\* In a packed array a child is found in front of the free slots.
LEMMA FoundInFront ==
  ASSUME ArrayInv, NEW c \in Child, Find(c) # MaxChildren
  PROVE  /\ Find(c) \in 0 .. Size - 1
         /\ m_children[Find(c)] = c
<1>1. /\ Find(c) \in Slot
      /\ m_children[Find(c)] = c
  BY FindProperties, ArrayNodeAssumption DEF Slot
<1>2. Find(c) < Size
  BY <1>1, SizeProperties, ArrayNodeAssumption DEF ArrayInv, Slot
<1>3. QED
  BY <1>1, <1>2, SizeProperties DEF ArrayInv, Slot

-----------------------------------------------------------------------------
\* What each operation leaves in every slot.
LEMMA AttachChildSlots ==
  ASSUME ArrayInv, NEW c \in Child, AttachChild(c)
  PROVE  /\ Size < MaxChildren
         /\ DOMAIN m_children' = Slot
         /\ \A k \in Slot : m_children'[k] = IF k = Size THEN c ELSE m_children[k]
<1>1. Size \in Slot
  BY SizeProperties, ArrayNodeAssumption DEF AttachChild, ArrayInv, Size, Slot
<1>2. m_children' = [m_children EXCEPT ![Size] = c]
  BY DEF AttachChild, Size
<1>3. QED
  BY <1>1, <1>2, ArrayNodeAssumption DEF ArrayInv, ArrayTypeOK, Slot

\* insert_child slot by slot: all from i on moved up by one place.
LEMMA InsertChildSlots ==
  ASSUME ArrayInv, NEW c \in Child, NEW i \in 0 .. MaxChildren, InsertChild(i, c)
  PROVE  /\ Size < MaxChildren /\ i <= Size
         /\ DOMAIN m_children' = Slot
         /\ \A k \in Slot : m_children'[k] = IF k < i THEN m_children[k]
                                             ELSE IF k = i THEN c
                                             ELSE IF k <= Size THEN m_children[k - 1]
                                             ELSE m_children[k]
<1>1. Size \in 0 .. MaxChildren /\ Size < MaxChildren /\ i <= Size
  BY SizeProperties DEF InsertChild, ArrayInv
<1>2. m_children' = [Rotated(i, Size + 1) EXCEPT ![i] = c]
  BY DEF InsertChild
<1>3. /\ DOMAIN m_children' = Slot
      /\ \A k \in Slot : m_children'[k] = IF k = i THEN c ELSE Rotated(i, Size + 1)[k]
  BY <1>1, <1>2, ArrayNodeAssumption DEF Rotated, Slot
<1>4. \A k \in Slot : k # i =>
        Rotated(i, Size + 1)[k] = IF k < i THEN m_children[k]
                                  ELSE IF k <= Size THEN m_children[k - 1]
                                  ELSE m_children[k]
  BY <1>1, ArrayNodeAssumption DEF Rotated, Slot
<1>5. QED
  BY <1>1, <1>3, <1>4, ArrayNodeAssumption DEF Slot

\* remove_child slot by slot: all behind c moved down, the last one emptied.
LEMMA RemoveChildSlots ==
  ASSUME ArrayInv, NEW c \in Child, RemoveChild(c)
  PROVE  /\ Find(c) \in 0 .. Size - 1
         /\ DOMAIN m_children' = Slot
         /\ \A k \in Slot : m_children'[k] = IF k < Find(c) THEN m_children[k]
                                             ELSE IF k < Size - 1 THEN m_children[k + 1]
                                             ELSE IF k = Size - 1 THEN NoChild
                                             ELSE m_children[k]
<1>1. Find(c) \in 0 .. Size - 1 /\ Size \in 0 .. MaxChildren
  BY FoundInFront, SizeProperties DEF RemoveChild, ArrayInv
<1>2. m_children' = [CopiedDown(Find(c) + 1, Size) EXCEPT ![Size - 1] = NoChild]
  BY DEF RemoveChild
<1>3. /\ DOMAIN m_children' = Slot
      /\ \A k \in Slot : m_children'[k] = IF k = Size - 1 THEN NoChild
                                          ELSE CopiedDown(Find(c) + 1, Size)[k]
  BY <1>1, <1>2, ArrayNodeAssumption DEF CopiedDown, Slot
<1>4. \A k \in Slot : k # Size - 1 =>
        CopiedDown(Find(c) + 1, Size)[k] =
          IF Find(c) <= k /\ k < Size - 1 THEN m_children[k + 1] ELSE m_children[k]
  BY <1>1, ArrayNodeAssumption DEF CopiedDown, Slot
<1>5. QED
  BY <1>1, <1>3, <1>4, ArrayNodeAssumption DEF Slot

\* A child is replaced in its slot.
LEMMA SetChildSlots ==
  ASSUME ArrayInv, NEW c \in Child, NEW i \in 0 .. MaxChildren, SetChild(i, c)
  PROVE  /\ i < Size
         /\ DOMAIN m_children' = Slot
         /\ \A k \in Slot : m_children'[k] = IF k = i THEN c ELSE m_children[k]
  BY SizeProperties, ArrayNodeAssumption DEF SetChild, ArrayInv, ArrayTypeOK, Slot

-----------------------------------------------------------------------------
\* An array whose children fill the slots below n and no others is packed and
\* has size n.
Filled(n) ==
  /\ n \in 0 .. MaxChildren
  /\ m_children \in [Slot -> Child \cup {NoChild}]
  /\ \A k \in Slot : m_children[k] # NoChild <=> k < n

\* size() then returns the number of filled slots.
LEMMA FilledIsPacked == \A n : Filled(n) => ArrayInv /\ Size = n
<1> SUFFICES ASSUME NEW n, Filled(n)
             PROVE  ArrayInv /\ Size = n
  OBVIOUS
<1>1. ArrayTypeOK /\ Packed
  BY ArrayNodeAssumption DEF Filled, ArrayTypeOK, Packed, Slot
<1>2. /\ Size \in 0 .. MaxChildren
      /\ Size < MaxChildren => m_children[Size] = NoChild
      /\ \A k \in 0 .. Size - 1 : m_children[k] # NoChild
  BY FindProperties DEF Size
<1>3. ~ (Size < n) /\ ~ (n < Size)
  BY <1>2, ArrayNodeAssumption DEF Filled, Slot
<1>4. QED
  BY <1>1, <1>2, <1>3, ArrayNodeAssumption DEF ArrayInv, Filled

\* A packed array is filled up to its size().
LEMMA PackedIsFilled == ArrayInv => Filled(Size)
  BY SizeProperties, ArrayNodeAssumption DEF ArrayInv, ArrayTypeOK, Filled, Slot

\* Every operation leaves the array filled up to its new size.
LEMMA FilledNext ==
  ASSUME ArrayInv, NEW c \in Child, NEW n, n = Size
  PROVE  /\ AttachChild(c) => Filled(n + 1)'
         /\ \A i \in 0 .. MaxChildren : InsertChild(i, c) => Filled(n + 1)'
         /\ RemoveChild(c) => Filled(n - 1)'
         /\ \A i \in 0 .. MaxChildren : SetChild(i, c) => Filled(n)'
<1>1. /\ n \in 0 .. MaxChildren
      /\ m_children \in [Slot -> Child \cup {NoChild}]
      /\ \A k \in Slot : m_children[k] # NoChild <=> k < n
  BY PackedIsFilled DEF Filled
<1>2. c # NoChild /\ MaxChildren \in Nat \ {0}
  BY ArrayNodeAssumption
<1>3. ASSUME AttachChild(c)  PROVE Filled(n + 1)'
  <2>1. /\ n < MaxChildren /\ DOMAIN m_children' = Slot
        /\ \A k \in Slot : m_children'[k] = IF k = n THEN c ELSE m_children[k]
    BY <1>3, AttachChildSlots
  <2>2. m_children' = [k \in Slot |-> m_children'[k]]
    BY AttachChildSlots, <1>3 DEF AttachChild, ArrayInv, ArrayTypeOK
  <2>3. QED
    BY <1>1, <1>2, <2>1, <2>2 DEF Filled, Slot
<1>4. ASSUME NEW i \in 0 .. MaxChildren, InsertChild(i, c)  PROVE Filled(n + 1)'
  <2>1. /\ n < MaxChildren /\ i <= n
        /\ \A k \in Slot : m_children'[k] = IF k < i THEN m_children[k]
                                            ELSE IF k = i THEN c
                                            ELSE IF k <= n THEN m_children[k - 1]
                                            ELSE m_children[k]
    BY <1>4, InsertChildSlots
  <2>2. m_children' = [k \in Slot |-> m_children'[k]]
    BY <1>4 DEF InsertChild, Rotated
  <2>3. QED
    BY <1>1, <1>2, <2>1, <2>2 DEF Filled, Slot
<1>5. ASSUME RemoveChild(c)  PROVE Filled(n - 1)'
  <2>1. /\ Find(c) \in 0 .. n - 1
        /\ \A k \in Slot : m_children'[k] = IF k < Find(c) THEN m_children[k]
                                            ELSE IF k < n - 1 THEN m_children[k + 1]
                                            ELSE IF k = n - 1 THEN NoChild
                                            ELSE m_children[k]
    BY <1>5, RemoveChildSlots
  <2>2. m_children' = [k \in Slot |-> m_children'[k]]
    BY <1>5 DEF RemoveChild, CopiedDown
  <2>3. QED
    BY <1>1, <1>2, <2>1, <2>2 DEF Filled, Slot
<1>6. ASSUME NEW i \in 0 .. MaxChildren, SetChild(i, c)  PROVE Filled(n)'
  <2>1. /\ i < n
        /\ \A k \in Slot : m_children'[k] = IF k = i THEN c ELSE m_children[k]
    BY <1>6, SetChildSlots
  <2>2. m_children' = [k \in Slot |-> m_children'[k]]
    BY <1>6 DEF SetChild, ArrayInv, ArrayTypeOK
  <2>3. QED
    BY <1>1, <1>2, <2>1, <2>2 DEF Filled, Slot
<1>7. QED
  BY <1>3, <1>4, <1>5, <1>6

\* A constructed node is empty.
LEMMA ArrayInvInit == ArrayInit => ArrayInv
  BY ArrayNodeAssumption DEF ArrayInit, ArrayInv, ArrayTypeOK, Packed, Slot

\* Every operation leaves the filled slots a prefix again.
LEMMA ArrayInvNext == ArrayInv /\ [ArrayNext]_m_children => ArrayInv'
<1> SUFFICES ASSUME ArrayInv, [ArrayNext]_m_children
             PROVE  ArrayInv'
  OBVIOUS
<1>0. (\A n : Filled(n) => ArrayInv /\ Size = n)'
  BY FilledIsPacked, PTL
<1>1. ASSUME NEW c \in Child, AttachChild(c)  PROVE ArrayInv'
  BY <1>1, <1>0, FilledNext
<1>2. ASSUME NEW c \in Child, RemoveChild(c)  PROVE ArrayInv'
  BY <1>2, <1>0, FilledNext
<1>3. ASSUME NEW c \in Child, NEW i \in 0 .. MaxChildren, InsertChild(i, c)  PROVE ArrayInv'
  BY <1>3, <1>0, FilledNext
<1>4. ASSUME NEW c \in Child, NEW i \in 0 .. MaxChildren, SetChild(i, c)  PROVE ArrayInv'
  BY <1>4, <1>0, FilledNext
<1>5. CASE UNCHANGED m_children
  BY <1>5 DEF ArrayInv, ArrayTypeOK, Packed
<1>6. QED
  BY <1>1, <1>2, <1>3, <1>4, <1>5 DEF ArrayNext

\* Every reachable array holds children and nullptr only.
THEOREM ArrayTypeCorrect == ArraySpec => []ArrayTypeOK
<1>1. ArrayInv => ArrayTypeOK
  BY DEF ArrayInv
<1>2. QED
  BY ArrayInvInit, ArrayInvNext, <1>1, PTL DEF ArraySpec

\* No operation leaves a nullptr in front of a child, for every arity.
THEOREM AlwaysPacked == ArraySpec => []Packed
<1>1. ArrayInv => Packed
  BY DEF ArrayInv
<1>2. QED
  BY ArrayInvInit, ArrayInvNext, <1>1, PTL DEF ArraySpec

-----------------------------------------------------------------------------
(* The array implements the sequence of children.                            *)

\* The sequence an array stands for has its filled slots in their order.
LEMMA ContentsProperties ==
  ArrayInv => /\ Contents \in Seq(Child)
          /\ Len(Contents) = Size
          /\ \A k \in 1 .. Size : Contents[k] = m_children[k - 1]
<1> SUFFICES ASSUME ArrayInv
             PROVE  /\ Contents \in Seq(Child)
                    /\ Len(Contents) = Size
                    /\ \A k \in 1 .. Size : Contents[k] = m_children[k - 1]
  OBVIOUS
<1>1. Size \in Nat /\ \A k \in 1 .. Size : m_children[k - 1] \in Child
  BY SizeProperties DEF ArrayInv
<1>2. Contents \in [1 .. Size -> Child]
  BY <1>1 DEF Contents
<1>3. QED
  BY <1>1, <1>2 DEF Contents

\* Two sequences agree when they have the same length and elements.
LEMMA NewContents ==
  ASSUME ArrayInv, ArrayInv', NEW s \in Seq(Child), Len(s) = Size',
         \A k \in 1 .. Size' : s[k] = m_children'[k - 1]
  PROVE  Contents' = s
<1>1. (ArrayInv => /\ Contents \in Seq(Child)
               /\ Len(Contents) = Size
               /\ \A k \in 1 .. Size : Contents[k] = m_children[k - 1])'
  BY ContentsProperties, PTL
<1>2. /\ Contents' \in Seq(Child)
      /\ Len(Contents') = Size'
      /\ \A k \in 1 .. Size' : Contents'[k] = m_children'[k - 1]
  BY <1>1
<1>3. QED
  BY <1>2, SeqEqual

\* The place std::find returns is the same in the array and in the sequence.
LEMMA FoundIsFind ==
  ASSUME ArrayInv, NEW c \in Child, Find(c) # MaxChildren
  PROVE  Container!Found(Contents, c) = Find(c) + 1
<1>1. /\ Len(Contents) = Size /\ Size \in 0 .. MaxChildren
      /\ \A k \in 1 .. Size : Contents[k] = m_children[k - 1]
  BY ContentsProperties, SizeProperties DEF ArrayInv
<1>2. /\ Find(c) \in 0 .. Size - 1 /\ m_children[Find(c)] = c
      /\ \A j \in 0 .. Find(c) - 1 : m_children[j] # c
  BY FoundInFront, FindProperties
<1> DEFINE P(i) == /\ i <= Len(Contents) => Contents[i] = c
                   /\ \A j \in 1 .. i - 1 : Contents[j] # c
<1>3. Find(c) + 1 \in 1 .. Size /\ Contents[Find(c) + 1] = c
  BY <1>1, <1>2
<1>4. \A j \in 1 .. Find(c) : Contents[j] # c
  <2> TAKE j \in 1 .. Find(c)
  <2>1. j \in 1 .. Size /\ j - 1 \in 0 .. Find(c) - 1
    BY <1>1, <1>2
  <2>2. QED
    BY <1>1, <1>2, <2>1
<1>5. Find(c) + 1 \in 1 .. Len(Contents) + 1 /\ P(Find(c) + 1)
  <2>1. (Find(c) + 1) - 1 = Find(c)
    BY <1>2
  <2>2. QED
    BY <1>1, <1>3, <1>4, <2>1
<1>6. \A i \in 1 .. Len(Contents) + 1 : P(i) => i = Find(c) + 1
  <2> TAKE i \in 1 .. Len(Contents) + 1
  <2> HAVE P(i)
  <2>1. CASE i < Find(c) + 1
    <3>1. i \in 1 .. Find(c) /\ i <= Len(Contents)
      BY <1>1, <1>2, <2>1
    <3>2. QED
      BY <1>4, <3>1
  <2>2. CASE i > Find(c) + 1
    BY <1>1, <1>3, <2>2
  <2>3. QED
    BY <1>1, <1>3, <2>1, <2>2
<1>7. QED
  BY <1>5, <1>6 DEF Container!Found

\* An empty array stands for the empty sequence.
LEMMA ArrayRefinementInit == ArrayInit => Container!Init
<1> SUFFICES ASSUME ArrayInit PROVE Contents = <<>>
  BY DEF Container!Init
<1>1. Len(Contents) = 0 /\ Contents \in Seq(Child)
  BY ArrayInvInit, ContentsProperties, FindProperties, ArrayNodeAssumption DEF ArrayInit, Size, Slot
<1>2. QED
  BY <1>1, EmptySeq

\* Each operation on the array is the operation on the sequence of children.
LEMMA ArrayRefinementNext == ArrayInv /\ [ArrayNext]_m_children => [Container!Next]_Contents
<1> SUFFICES ASSUME ArrayInv, [ArrayNext]_m_children
             PROVE  [Container!Next]_Contents
  OBVIOUS
<1>0. /\ Contents \in Seq(Child) /\ Len(Contents) = Size
      /\ Size \in 0 .. MaxChildren /\ MaxChildren \in Nat \ {0}
      /\ \A k \in 1 .. Size : Contents[k] = m_children[k - 1]
  BY ContentsProperties, SizeProperties, ArrayNodeAssumption DEF ArrayInv
<1>1. ArrayInv' /\ (\A n : Filled(n) => ArrayInv /\ Size = n)'
  BY ArrayInvNext, FilledIsPacked, PTL
<1>2. ASSUME NEW c \in Child, AttachChild(c)
      PROVE  Container!AttachChild(c)
  <2>1. /\ Size < MaxChildren /\ Size' = Size + 1
        /\ \A k \in Slot : m_children'[k] = IF k = Size THEN c ELSE m_children[k]
    BY <1>0, <1>1, <1>2, AttachChildSlots, FilledNext
  <2>2. /\ Append(Contents, c) \in Seq(Child)
        /\ Len(Append(Contents, c)) = Size + 1
        /\ \A k \in 1 .. Size : Append(Contents, c)[k] = m_children[k - 1]
        /\ Append(Contents, c)[Size + 1] = c
    BY <1>0, AppendProperties
  <2>3. \A k \in 1 .. Size' : Append(Contents, c)[k] = m_children'[k - 1]
    BY <1>0, <2>1, <2>2 DEF Slot
  <2>4. Contents' = Append(Contents, c)
    BY <1>1, <2>1, <2>2, <2>3, NewContents
  <2>5. QED
    BY <1>0, <2>1, <2>4 DEF Container!AttachChild
<1>3. ASSUME NEW c \in Child, NEW i \in 0 .. MaxChildren, InsertChild(i, c)
      PROVE  Container!InsertChild(i, c)
  <2> DEFINE s == Container!Inserted(Contents, i, c)
  <2>1. /\ Size < MaxChildren /\ i <= Size /\ Size' = Size + 1
        /\ \A k \in Slot : m_children'[k] = IF k < i THEN m_children[k]
                                            ELSE IF k = i THEN c
                                            ELSE IF k <= Size THEN m_children[k - 1]
                                            ELSE m_children[k]
    BY <1>0, <1>1, <1>3, InsertChildSlots, FilledNext
  <2>2. s = [k \in 1 .. Size + 1 |->
               IF k <= i THEN Contents[k] ELSE IF k = i + 1 THEN c ELSE Contents[k - 1]]
    BY <1>0 DEF Container!Inserted
  <2>3. \A k \in 1 .. Size + 1 : s[k] \in Child /\ s[k] = m_children'[k - 1]
    <3>1. \A k \in 1 .. Size : Contents[k] \in Child
      BY <1>0, ElementOfSeq
    <3> TAKE k \in 1 .. Size + 1
    <3>2. k - 1 \in Slot /\ k \in Int /\ i \in Int /\ Size \in Int
      BY <1>0, <2>1 DEF Slot
    <3>3. s[k] = IF k <= i THEN Contents[k] ELSE IF k = i + 1 THEN c ELSE Contents[k - 1]
      BY <2>2
    <3> HIDE DEF s
    <3>4. CASE k <= i
      <4>1. k \in 1 .. Size /\ k - 1 < i
        BY <2>1, <3>2, <3>4
      <4>2. QED
        BY <1>0, <2>1, <3>1, <3>2, <3>3, <3>4, <4>1
    <3>5. CASE k = i + 1
      BY <2>1, <3>2, <3>3, <3>5
    <3>6. CASE k > i + 1
      <4>1. k - 1 \in 1 .. Size /\ ~ (k - 1 < i) /\ k - 1 # i /\ k - 1 <= Size
        BY <2>1, <3>2, <3>6
      <4>2. QED
        BY <1>0, <2>1, <3>1, <3>2, <3>3, <3>6, <4>1
    <3>7. QED
      BY <3>2, <3>4, <3>5, <3>6
  <2>4. s \in Seq(Child) /\ Len(s) = Size + 1
    <3>1. DOMAIN s = 1 .. Size + 1 /\ Size + 1 \in Nat
      BY <1>0, <2>2
    <3>2. s = [k \in 1 .. Size + 1 |-> s[k]]
      BY <2>2, <3>1
    <3> HIDE DEF s
    <3>3. s \in [1 .. Size + 1 -> Child]
      BY <2>3, <3>2
    <3>4. QED
      BY <3>1, <3>3
  <2>5. Contents' = s
    BY <1>1, <2>1, <2>3, <2>4, NewContents
  <2>6. QED
    BY <1>0, <2>1, <2>5 DEF Container!InsertChild
<1>4. ASSUME NEW c \in Child, RemoveChild(c)
      PROVE  Container!RemoveChild(c)
  <2> DEFINE s == Container!Erased(Contents, Find(c) + 1)
  <2>1. /\ Find(c) \in 0 .. Size - 1 /\ Find(c) # MaxChildren /\ Size' = Size - 1
        /\ \A k \in Slot : m_children'[k] = IF k < Find(c) THEN m_children[k]
                                            ELSE IF k < Size - 1 THEN m_children[k + 1]
                                            ELSE IF k = Size - 1 THEN NoChild
                                            ELSE m_children[k]
    BY <1>0, <1>1, <1>4, RemoveChildSlots, FilledNext
  <2>2. s = [j \in 1 .. Size - 1 |->
               IF j < Find(c) + 1 THEN Contents[j] ELSE Contents[j + 1]]
    BY <1>0 DEF Container!Erased
  <2>3. \A k \in 1 .. Size - 1 : s[k] \in Child /\ s[k] = m_children'[k - 1]
    <3>1. \A k \in 1 .. Size : Contents[k] \in Child
      BY <1>0, ElementOfSeq
    <3> TAKE k \in 1 .. Size - 1
    <3>2. /\ k - 1 \in Slot /\ k \in 1 .. Size /\ k + 1 \in 1 .. Size
          /\ k - 1 < Find(c) <=> k < Find(c) + 1
          /\ k - 1 < Size - 1 /\ (k - 1) + 1 = k /\ (k + 1) - 1 = k
      BY <1>0, <2>1 DEF Slot
    <3>3. s[k] = IF k < Find(c) + 1 THEN Contents[k] ELSE Contents[k + 1]
      BY <2>2
    <3>4. m_children'[k - 1] = IF k < Find(c) + 1 THEN m_children[k - 1] ELSE m_children[k]
      BY <2>1, <3>2
    <3>5. QED
      BY <1>0, <3>1, <3>2, <3>3, <3>4
  <2>4. s \in Seq(Child) /\ Len(s) = Size - 1
    <3>1. Size - 1 \in Nat
      BY <1>0, <2>1
    <3>2. s \in [1 .. Size - 1 -> Child]
      BY <2>2, <2>3
    <3>3. QED
      BY <3>1, <3>2
  <2>5. Contents' = s
    BY <1>1, <2>1, <2>3, <2>4, NewContents
  <2>6. QED
    BY <1>0, <2>1, <2>5, FoundIsFind DEF Container!RemoveChild
<1>5. ASSUME NEW c \in Child, NEW i \in 0 .. MaxChildren, SetChild(i, c)
      PROVE  Container!SetChild(i, c)
  <2> DEFINE s == [Contents EXCEPT ![i + 1] = c]
  <2>1. /\ i < Size /\ Size' = Size
        /\ \A k \in Slot : m_children'[k] = IF k = i THEN c ELSE m_children[k]
    BY <1>0, <1>1, <1>5, SetChildSlots, FilledNext
  <2>2. /\ s \in Seq(Child) /\ Len(s) = Size
        /\ \A k \in 1 .. Size : s[k] = IF k = i + 1 THEN c ELSE Contents[k]
    BY <1>0, <2>1, ExceptSeq
  <2>3. \A k \in 1 .. Size : s[k] = m_children'[k - 1]
    <3> TAKE k \in 1 .. Size
    <3>1. k - 1 \in Slot /\ (k - 1 = i <=> k = i + 1)
      BY <1>0 DEF Slot
    <3>2. m_children'[k - 1] = IF k = i + 1 THEN c ELSE m_children[k - 1]
      BY <2>1, <3>1
    <3>3. QED
      BY <1>0, <2>2, <3>2
  <2>4. Contents' = s
    BY <1>1, <2>1, <2>2, <2>3, NewContents
  <2>5. QED
    BY <1>0, <2>1, <2>4 DEF Container!SetChild
<1>6. CASE UNCHANGED m_children
  BY <1>6 DEF Contents, Size, Find
<1>7. QED
  BY <1>2, <1>3, <1>4, <1>5, <1>6 DEF ArrayNext, Container!Next

\* The array node implements the vector node of the same capacity.
THEOREM ArrayRefinement == ArraySpec => ImplementsContainer
  BY ArrayInvInit, ArrayInvNext, ArrayRefinementInit, ArrayRefinementNext, PTL
  DEF ArraySpec, ImplementsContainer, Container!Spec
=============================================================================
