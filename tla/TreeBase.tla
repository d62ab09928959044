------------------------------ MODULE TreeBase ------------------------------
(***************************************************************************)
(* detail::tree_base (tree_base.hpp), the class behind basic_tree,          *)
(* basic_nary_tree and intrusive_tree: several trees over one heap of       *)
(* nodes.  A tree is identified with its m_header, a node_base that holds   *)
(* at most the root; a node holds the sequence of its children and a        *)
(* pointer to its parent, both of which every operation has to keep in      *)
(* step, together with the node counter m_size of the tree.                 *)
(*                                                                         *)
(* A cursor is the pair (m_node, m_pos) of tree_base_cursor.hpp: the parent *)
(* and a place among its children, not a pointer to the node itself.        *)
(*                                                                         *)
(* That the cursors handed over are of the kind a call asks for, and that a *)
(* subtree is never copied, moved or swapped into itself, are the caller's  *)
(* obligations and appear as guards.  A throw, a dereferenced null pointer  *)
(* and an index past an array are outcomes.                                 *)
(***************************************************************************)
EXTENDS Integers, FiniteSets, SequencesExt

CONSTANTS
  Node,       \* the addresses the allocator hands out
  Tree,       \* the tree objects, each standing for its m_header
  Value,      \* the values of nodes
  MaxArity,   \* max_size() of a node
  Null

Holder == Node \cup Tree

ASSUME TreeBaseAssumption ==
  /\ MaxArity \in Nat \ {0}
  /\ Node \cap Tree = {}
  /\ Null \notin Holder \cup Value
  /\ IsFiniteSet(Node) /\ IsFiniteSet(Tree)

VARIABLES
  allocated,  \* the nodes between allocate and deallocate
  children,   \* children[h]: the child nodes of a node or header
  parent,     \* parent[n]: m_parent of a node; a header's is always nullptr
  value,
  m_size,     \* m_size[t]: the node counter of a tree
  thrown,     \* auxiliary: the inserts into t that threw since its content
              \* was last moved in; each leaves m_size[t] one too large
  outcome     \* how the last call ended

vars == <<allocated, children, parent, value, m_size, thrown, outcome>>

-----------------------------------------------------------------------------
(* Structure.  The ch of an operator is a value of the variable children.    *)

\* The nodes of the subtree under n: the least set that holds n and the
\* children of its members.
Closed(ch, n) == {S \in SUBSET Node : n \in S /\ \A m \in S : ToSet(ch[m]) \subseteq S}

Desc(ch, n) == LET C == Closed(ch, n) IN {m \in Node : \A S \in C : m \in S}

Below(ch, h) == UNION {Desc(ch, n) : n \in ToSet(ch[h])}

NodesOf(t) == Below(children, t)

\* tree_base_cursor
Cursor(h, i) == [m_node |-> h, m_pos |-> i]

IsCursor(c) == c.m_node \in Holder /\ c.m_pos \in Nat

Valid(c) == c.m_pos < Len(children[c.m_node])

NodeAt(ch, c) == ch[c.m_node][c.m_pos + 1]

IsRoot(c) == c.m_node \in Tree /\ c.m_pos = 0

\* The cursors into tree t that designate a node, and the invalid ones at the
\* only place of a childless holder (the root of an empty tree, the begin of a
\* leaf), where an insertion creates the first child.
NodeCursors(t) ==
  UNION {{Cursor(h, i - 1) : i \in DOMAIN children[h]} : h \in NodesOf(t) \cup {t}}

EmptyPlaces(t) ==
  {Cursor(h, 0) : h \in {g \in NodesOf(t) \cup {t} : children[g] = <<>>}}

\* child_index, 1-based; Len(s) + 1 when n is not there.
ChildIndex(s, n) ==
  CHOOSE i \in 1 .. Len(s) + 1 :
    /\ i <= Len(s) => s[i] = n
    /\ \A j \in 1 .. i - 1 : s[j] # n

\* Mutant: the child behind the one that was found is removed.
RemoveChildBehind(s, n) == RemoveAt(s, ChildIndex(s, n) + 1)

ChildRemoved(s, n) == RemoveAt(s, ChildIndex(s, n))

\* The changes an operation makes when it frees the nodes of D.
Freed(ch, D) == [h \in Holder |-> IF h \in D THEN <<>> ELSE ch[h]]
Cleared(f, D) == [n \in Node |-> IF n \in D THEN Null ELSE f[n]]

\* A copy of nodes: f maps originals to their copies.  Children and values of
\* the copies are taken over from the originals, everything else from ch, val.
Original(f, n) == CHOOSE m \in DOMAIN f : f[m] = n

CopiedChildren(ch, f) ==
  [h \in Holder |->
     IF h \in Range(f)
     THEN LET m == Original(f, h) IN [i \in DOMAIN ch[m] |-> f[ch[m][i]]]
     ELSE ch[h]]

CopiedParents(par, f, F) ==
  [n \in Node |-> IF n \in F THEN f[par[Original(f, n)]] ELSE par[n]]

CopiedValues(val, f) ==
  [n \in Node |-> IF n \in Range(f) THEN val[Original(f, n)] ELSE val[n]]

\* Mutant: only the top node of what is erased is counted.
DeallocateCountOne(t, D, ch, par) ==
  /\ allocated' = allocated \ D
  /\ children' = Freed(ch, D)
  /\ parent' = Cleared(par, D)
  /\ value' = Cleared(value, D)
  /\ m_size' = [m_size EXCEPT ![t] = IF D = {} THEN @ ELSE @ - 1]

\* erase, erase_impl and erase_without_removing_child free the nodes of D and
\* count each of them down; ch, par are the links left by the caller.
Deallocate(t, D, ch, par) ==
  /\ allocated' = allocated \ D
  /\ children' = Freed(ch, D)
  /\ parent' = Cleared(par, D)
  /\ value' = Cleared(value, D)
  /\ m_size' = [m_size EXCEPT ![t] = @ - Cardinality(D)]

\* Calls that return, and those that dereference a null pointer or go past an array.
Returns == outcome # "undefined" /\ outcome' = "ok"

Undefined ==
  /\ outcome # "undefined" /\ outcome' = "undefined"
  /\ UNCHANGED <<allocated, children, parent, value, m_size, thrown>>

-----------------------------------------------------------------------------
Init ==
  /\ allocated = {}
  /\ children = [h \in Holder |-> <<>>]
  /\ parent = [n \in Node |-> Null]
  /\ value = [n \in Node |-> Null]
  /\ m_size = [t \in Tree |-> 0]
  /\ thrown = [t \in Tree |-> 0]
  /\ outcome = "ok"

\* ++m_size comes first; the exception leaves the count and the new node behind.
Throws(t, v) ==
  /\ outcome # "undefined" /\ outcome' = "max_size_error"
  /\ \E n \in Node \ allocated :
       /\ allocated' = allocated \cup {n}
       /\ value' = [value EXCEPT ![n] = v]
  /\ m_size' = [m_size EXCEPT ![t] = @ + 1]
  /\ thrown' = [thrown EXCEPT ![t] = @ + 1]
  /\ UNCHANGED <<children, parent>>

\* One new node n with value v and links ch, par.
Creates(t, n, v, ch, par) ==
  /\ Returns
  /\ allocated' = allocated \cup {n}
  /\ value' = [value EXCEPT ![n] = v]
  /\ m_size' = [m_size EXCEPT ![t] = @ + 1]
  /\ children' = ch
  /\ parent' = par
  /\ UNCHANGED thrown

\* The holder that gets the new last child.
Target(p) == IF Valid(p) THEN NodeAt(children, p) ELSE p.m_node

\* Mutant: the test for a full node is off by one.
InsertBelowLate(t, p, v) ==
  LET h == Target(p) IN
  \/ /\ Len(children[h]) > MaxArity
     /\ Throws(t, v)
  \/ /\ Len(children[h]) <= MaxArity
     /\ \E n \in Node \ allocated :
          Creates(t, n, v, [children EXCEPT ![h] = Append(@, n)],
                           [parent EXCEPT ![n] = h])

\* insert_below and emplace_below of one value.
InsertBelow(t, p, v) ==
  LET h == Target(p) IN
  \/ /\ Len(children[h]) >= MaxArity
     /\ Throws(t, v)
  \/ /\ Len(children[h]) < MaxArity
     /\ \E n \in Node \ allocated :
          Creates(t, n, v, [children EXCEPT ![h] = Append(@, n)],
                           [parent EXCEPT ![n] = h])

\* insert and emplace of one value in front of p.  position.parent() comes
\* before the test for the root and follows the header's null parent.
Insert(t, p, v) ==
  \/ ~Valid(p) /\ InsertBelow(t, p, v)
  \/ Valid(p) /\ IsRoot(p) /\ Undefined
  \/ /\ Valid(p) /\ ~IsRoot(p)
     /\ Len(children[p.m_node]) >= MaxArity
     /\ Throws(t, v)
  \/ /\ Valid(p) /\ ~IsRoot(p)
     /\ Len(children[p.m_node]) < MaxArity
     /\ \E n \in Node \ allocated :
          Creates(t, n, v,
            [children EXCEPT ![p.m_node] = InsertAt(@, p.m_pos + 1, n)],
            [parent EXCEPT ![n] = p.m_node])

\* Mutant: the old parent is read after the node has got its new one.
InsertAboveReread(t, p, v) ==
  \/ ~Valid(p) /\ InsertBelow(t, p, v)
  \/ /\ Valid(p)
     /\ LET x == NodeAt(children, p)
        IN \E n \in Node \ allocated :
             Creates(t, n, v,
               [children EXCEPT ![p.m_node] = ReplaceAt(@, p.m_pos + 1, n),
                                ![n] = <<x>>],
               [parent EXCEPT ![x] = n, ![n] = n])

InsertAbove(t, p, v) ==
  \/ ~Valid(p) /\ InsertBelow(t, p, v)
  \/ /\ Valid(p)
     /\ LET x == NodeAt(children, p)
        IN \E n \in Node \ allocated :
             Creates(t, n, v,
               [children EXCEPT ![p.m_node] = ReplaceAt(@, p.m_pos + 1, n),
                                ![n] = <<x>>],
               [parent EXCEPT ![x] = n, ![n] = p.m_node])

-----------------------------------------------------------------------------
(* Copies of subtrees.                                                       *)

\* The recursion of insert_below( position , subtree ) on links ch, par, val,
\* from which the nodes in freed are already gone: a copy of the subtree under
\* s becomes the last child of h.
CopiesBelow(t, h, s, ch, par, val, freed) ==
  \E f \in Injection(Desc(ch, s), Node \ (allocated \ freed)) :
    /\ Returns
    /\ allocated' = (allocated \ freed) \cup Range(f)
    /\ children' = [CopiedChildren(ch, f) EXCEPT ![h] = Append(ch[h], f[s])]
    /\ parent' = [CopiedParents(par, f, Range(f) \ {f[s]}) EXCEPT ![f[s]] = h]
    /\ value' = CopiedValues(val, f)
    /\ m_size' = [m_size EXCEPT ![t] = @ - Cardinality(freed) + Cardinality(Range(f))]
    /\ UNCHANGED thrown

InsertBelowSubtree(t, p, c) ==
  LET h == Target(p)
      s == NodeAt(children, c) IN
  /\ h \notin Desc(children, s)
  /\ \/ Len(children[h]) >= MaxArity /\ Throws(t, value[s])
     \/ /\ Len(children[h]) < MaxArity
        /\ CopiesBelow(t, h, s, children, parent, value, {})

\* Copies the nodes below s to below x, where x is already in place.  The
\* value of x is v; alloc are the nodes that are allocated by now, x included.
CopiesInto(t, x, v, s, ch, par, val, alloc, size) ==
  \E g \in Injection(Desc(ch, s) \ {s}, Node \ alloc) :
    LET f == [m \in Desc(ch, s) |-> IF m = s THEN x ELSE g[m]] IN
    /\ Returns
    /\ allocated' = alloc \cup Range(g)
    /\ children' = CopiedChildren(ch, f)
    /\ parent' = CopiedParents(par, f, Range(g))
    /\ value' = [CopiedValues(val, g) EXCEPT ![x] = v]
    /\ m_size' = [m_size EXCEPT ![t] = size + Cardinality(Range(g))]
    /\ UNCHANGED thrown

\* insert( position , subtree ) inserts a copy of the subtree's root first and
\* reads the children through the same cursor afterwards.  A cursor into the
\* node that grew, at or behind the new place, then designates another node:
\* the new one itself or the left neighbour of the one meant.
InsertSubtree(t, p, c) ==
  LET h == p.m_node
      v == value[NodeAt(children, c)] IN
  \/ ~Valid(p) /\ InsertBelowSubtree(t, p, c)
  \/ Valid(p) /\ IsRoot(p) /\ Undefined
  \/ /\ Valid(p) /\ ~IsRoot(p)
     /\ Len(children[h]) >= MaxArity
     /\ Throws(t, v)
  \/ /\ Valid(p) /\ ~IsRoot(p)
     /\ Len(children[h]) < MaxArity
     /\ h \notin Desc(children, NodeAt(children, c))
     /\ \E n \in Node \ allocated :
          LET ch == [children EXCEPT ![h] = InsertAt(@, p.m_pos + 1, n)]
          IN CopiesInto(t, n, v, NodeAt(ch, c), ch, [parent EXCEPT ![n] = h],
                        value, allocated \cup {n}, m_size[t] + 1)

\* assign( position , subtree ).  A subtree below the position would be read
\* after it is freed, one above it would be copied into itself.  The position
\* itself is allowed: its children are gone when they are to be copied.
AssignAt(t, p, c) ==
  LET x == NodeAt(children, p)
      s == NodeAt(children, c)
      D == Below(children, x)
      ch == Freed([children EXCEPT ![x] = <<>>], D) IN
  /\ s \notin D
  /\ s = x \/ x \notin Desc(children, s)
  /\ CopiesInto(t, x, value[s], s, ch, Cleared(parent, D), Cleared(value, D),
                allocated \ D, m_size[t] - Cardinality(D))

\* clear(), as the first half of the assignments.
ClearedLinks(t) == Freed([children EXCEPT ![t] = <<>>], NodesOf(t))

\* assign( subtree ) with a subtree of another tree.
AssignTree(t, c) ==
  LET D == NodesOf(t)
      s == NodeAt(children, c) IN
  /\ s \notin D
  /\ CopiesBelow(t, t, s, ClearedLinks(t), Cleared(parent, D), Cleared(value, D), D)

\* The copy assignment; with an empty t it is also the copy constructor.
CopyAssign(t, u) ==
  /\ t # u
  /\ \/ m_size[u] = 0 /\ Returns
        /\ Deallocate(t, NodesOf(t), [children EXCEPT ![t] = <<>>], parent)
        /\ UNCHANGED thrown
     \/ m_size[u] # 0 /\ children[u] = <<>> /\ Undefined
     \/ m_size[u] # 0 /\ children[u] # <<>> /\ AssignTree(t, Cursor(u, 0))

-----------------------------------------------------------------------------
(* Removal and moves.                                                        *)

\* Mutant: erase does not descend.
EraseFlat(t, p) ==
  \/ ~Valid(p) /\ Returns
     /\ UNCHANGED <<allocated, children, parent, value, m_size, thrown>>
  \/ /\ Valid(p)
     /\ LET x == NodeAt(children, p)
        IN /\ Returns
           /\ Deallocate(t, {x}, [children EXCEPT ![p.m_node] = ChildRemoved(@, x)], parent)
           /\ UNCHANGED thrown

Erase(t, p) ==
  \/ ~Valid(p) /\ Returns
     /\ UNCHANGED <<allocated, children, parent, value, m_size, thrown>>
  \/ /\ Valid(p)
     /\ LET x == NodeAt(children, p)
        IN /\ Returns
           /\ Deallocate(t, Desc(children, x),
                [children EXCEPT ![p.m_node] = ChildRemoved(@, x)], parent)
           /\ UNCHANGED thrown

Clear(t) == Erase(t, Cursor(t, 0))

\* The move assignment and constructor: clear() and move_impl.
MoveAssign(t, u) ==
  /\ t # u
  /\ LET D == NodesOf(t) IN
     \/ m_size[u] = 0 /\ Returns
        /\ Deallocate(t, D, [children EXCEPT ![t] = <<>>], parent)
        /\ UNCHANGED thrown
     \/ m_size[u] # 0 /\ children[u] = <<>> /\ Undefined
     \/ /\ m_size[u] # 0 /\ children[u] # <<>> /\ Returns
        /\ LET n == children[u][1]
           IN /\ allocated' = allocated \ D
              /\ children' = Freed([children EXCEPT ![t] = <<n>>,
                                                    ![u] = ChildRemoved(@, n)], D)
              /\ parent' = [Cleared(parent, D) EXCEPT ![n] = t]
              /\ value' = Cleared(value, D)
              /\ m_size' = [m_size EXCEPT ![t] = m_size[u], ![u] = 0]
              /\ thrown' = [thrown EXCEPT ![t] = thrown[u], ![u] = 0]

\* swap: three moves through a temporary tree.
Swap(t, u) ==
  /\ t # u
  /\ \/ /\ \E w \in {t, u} : m_size[w] # 0 /\ children[w] = <<>>
        /\ Undefined
     \/ /\ \A w \in {t, u} : m_size[w] # 0 => children[w] # <<>>
        /\ Returns
        /\ children' = [children EXCEPT ![t] = children[u], ![u] = children[t]]
        /\ parent' = [n \in Node |-> IF n \in ToSet(children[t]) THEN u
                                     ELSE IF n \in ToSet(children[u]) THEN t
                                     ELSE parent[n]]
        /\ m_size' = [m_size EXCEPT ![t] = m_size[u], ![u] = m_size[t]]
        /\ thrown' = [thrown EXCEPT ![t] = thrown[u], ![u] = thrown[t]]
        /\ UNCHANGED <<allocated, value>>

\* k1 nodes of t and k2 nodes of u change sides; t and u may be one tree.
CountExchange(t, k1, u, k2) ==
  LET counted == [m_size EXCEPT ![t] = @ - k1 + k2]
  IN m_size' = [counted EXCEPT ![u] = @ - k2 + k1]

\* Mutant: the moved node keeps its m_parent.
PlacedWithoutParent(t, h, u, c2) ==
  LET n2 == NodeAt(children, c2)
      attached == [children EXCEPT ![h] = Append(@, n2)] IN
  /\ h \notin Desc(children, n2)
  /\ children' = [attached EXCEPT ![c2.m_node] = ChildRemoved(@, n2)]
  /\ UNCHANGED parent
  /\ CountExchange(t, 0, u, Cardinality(Desc(children, n2)))

\* Mutant: the moved node is not removed from its old place.
PlacedTwice(t, h, u, c2) ==
  LET n2 == NodeAt(children, c2) IN
  /\ h \notin Desc(children, n2)
  /\ children' = [children EXCEPT ![h] = Append(@, n2)]
  /\ parent' = [parent EXCEPT ![n2] = h]
  /\ CountExchange(t, 0, u, Cardinality(Desc(children, n2)))

\* swap_impl1: n2 below h in t, which had no node at the cursor.  It is
\* attached before it is removed, so for a while it may be there twice.
SwapIntoPlace(t, h, u, c2) ==
  LET n2 == NodeAt(children, c2)
      attached == [children EXCEPT ![h] = Append(@, n2)] IN
  /\ h \notin Desc(children, n2)
  /\ children' = [attached EXCEPT ![c2.m_node] = ChildRemoved(@, n2)]
  /\ parent' = [parent EXCEPT ![n2] = h]
  /\ CountExchange(t, 0, u, Cardinality(Desc(children, n2)))

\* swap_impl2
SwapNodes(t, c1, u, c2) ==
  LET n1 == NodeAt(children, c1)
      n2 == NodeAt(children, c2)
      i1 == ChildIndex(children[c1.m_node], n1)
      i2 == ChildIndex(children[c2.m_node], n2)
      set1 == [children EXCEPT ![c1.m_node] = ReplaceAt(@, i1, n2)] IN
  /\ n1 # n2 => n1 \notin Desc(children, n2) /\ n2 \notin Desc(children, n1)
  /\ children' = [set1 EXCEPT ![c2.m_node] = ReplaceAt(@, i2, n1)]
  /\ parent' = [parent EXCEPT ![n1] = c2.m_node, ![n2] = c1.m_node]
  /\ CountExchange(t, Cardinality(Desc(children, n1)), u, Cardinality(Desc(children, n2)))

\* The end of a full array node: whether a child is there is an assertion on the
\* index that fails, and without assertions a read past the array.
PastArray(c) == c.m_pos >= MaxArity

SwapSubtrees(t, c1, u, c2) ==
  \/ (PastArray(c1) \/ PastArray(c2)) /\ Undefined
  \/ /\ ~PastArray(c1) /\ ~PastArray(c2)
     /\ Returns
     /\ \/ Valid(c1) /\ Valid(c2) /\ SwapNodes(t, c1, u, c2)
        \/ ~Valid(c1) /\ Valid(c2) /\ SwapIntoPlace(t, c1.m_node, u, c2)
        \/ Valid(c1) /\ ~Valid(c2) /\ SwapIntoPlace(u, c2.m_node, t, c1)
        \/ ~Valid(c1) /\ ~Valid(c2) /\ UNCHANGED <<children, parent, m_size>>
     /\ UNCHANGED <<allocated, value, thrown>>

\* move_subtree: node1 takes the place of node2, which is freed with what is
\* left below it; node1 may have been below node2.
MoveSubtree(t, p, c) ==
  LET node2 == NodeAt(children, p)
      node1 == NodeAt(children, c)
      parent2 == parent[node2]
      removed == [children EXCEPT ![c.m_node] = ChildRemoved(@, node1)]
      pos2 == ChildIndex(removed[parent2], node2) IN
  /\ node2 \notin Desc(children, node1)
  /\ Returns
  /\ Deallocate(t, Desc(removed, node2),
       [removed EXCEPT ![parent2] = ReplaceAt(@, pos2, node1)],
       [parent EXCEPT ![node1] = parent2])
  /\ UNCHANGED thrown

\* Mutant: the place of node2 is looked up before node1 is removed.
MoveInFrontStale(t, p, c) ==
  LET node1 == NodeAt(children, c)
      node2 == NodeAt(children, p)
      parent2 == parent[node2]
      removed == [children EXCEPT ![parent[node1]] = ChildRemoved(@, node1)]
      pos2 == ChildIndex(children[parent2], node2) IN
  /\ ~IsRoot(p) /\ ~IsRoot(c)
  /\ node2 \notin Desc(children, node1)
  /\ Len(removed[parent2]) < MaxArity /\ pos2 <= Len(removed[parent2]) + 1
  /\ Returns
  /\ children' = [removed EXCEPT ![parent2] = InsertAt(@, pos2, node1)]
  /\ parent' = [parent EXCEPT ![node1] = parent2]
  /\ UNCHANGED <<allocated, value, m_size, thrown>>

\* move_and_insert_subtree: node1 moves in front of node2.  insert_child asserts that
\* there is room for it, and without assertions writes past the array.
MoveAndInsertSubtree(t, p, c) ==
  LET node1 == NodeAt(children, c)
      node2 == NodeAt(children, p)
      parent2 == parent[node2]
      removed == [children EXCEPT ![parent[node1]] = ChildRemoved(@, node1)]
      pos2 == ChildIndex(removed[parent2], node2) IN
  /\ ~IsRoot(p) /\ ~IsRoot(c)
  /\ node2 \notin Desc(children, node1)
  /\ \/ Len(removed[parent2]) >= MaxArity /\ Undefined
     \/ /\ Len(removed[parent2]) < MaxArity
        /\ Returns
        /\ children' = [removed EXCEPT ![parent2] = InsertAt(@, pos2, node1)]
        /\ parent' = [parent EXCEPT ![node1] = parent2]
        /\ UNCHANGED <<allocated, value, m_size, thrown>>

\* operator== reads the root of both trees once their sizes agree.
Compare(t, u) ==
  \/ /\ m_size[t] = m_size[u]
     /\ children[t] = <<>> \/ children[u] = <<>>
     /\ Undefined
  \/ /\ m_size[t] = m_size[u] => children[t] # <<>> /\ children[u] # <<>>
     /\ Returns
     /\ UNCHANGED <<allocated, children, parent, value, m_size, thrown>>

-----------------------------------------------------------------------------
\* The places where a swap may attach: the end of a node, full or not, and in a
\* header only the place of the missing root: shoot() is excluded by an assertion.
EndPlaces(t) ==
  {Cursor(h, Len(children[h])) :
     h \in {g \in NodesOf(t) \cup {t} : g = t => children[g] = <<>>}}

Next ==
  \E t \in Tree :
    \/ \E p \in NodeCursors(t) \cup EmptyPlaces(t) :
         \/ \E v \in Value : InsertBelow(t, p, v) \/ Insert(t, p, v)
                             \/ InsertAbove(t, p, v)
         \/ Erase(t, p)
         \/ \E u \in Tree : \E c \in NodeCursors(u) :
              InsertBelowSubtree(t, p, c) \/ InsertSubtree(t, p, c)
    \/ \E u \in Tree : \E p \in NodeCursors(t), c \in NodeCursors(u) : AssignAt(t, p, c)
    \/ \E u \in Tree \ {t} : \E c \in NodeCursors(u) : AssignTree(t, c)
    \/ \E u \in Tree : CopyAssign(t, u) \/ MoveAssign(t, u) \/ Swap(t, u) \/ Compare(t, u)
    \/ Clear(t)
    \/ \E u \in Tree : \E c1 \in NodeCursors(t) \cup EndPlaces(t),
                          c2 \in NodeCursors(u) \cup EndPlaces(u) :
         SwapSubtrees(t, c1, u, c2)
    \/ \E p \in NodeCursors(t), c \in NodeCursors(t) :
         MoveSubtree(t, p, c) \/ MoveAndInsertSubtree(t, p, c)

Spec == Init /\ [][Next]_vars

-----------------------------------------------------------------------------
\* Types, and that a node holds a value exactly while it is allocated.
TypeOK ==
  /\ allocated \subseteq Node
  /\ children \in [Holder -> Seq(Node)]
  /\ parent \in [Node -> Holder \cup {Null}]
  /\ value \in [Node -> Value \cup {Null}]
  /\ m_size \in [Tree -> Int]
  /\ thrown \in [Tree -> Nat]
  /\ outcome \in {"ok", "max_size_error", "undefined"}
  /\ \A n \in Node : n \in allocated <=> value[n] # Null

\* The two directions of every link agree, through all relinking in insert,
\* swap and move: a node is stored once, in the children of its m_parent, and
\* a node without a parent is free or lost and has no children.
LinksConsistent ==
  /\ \A h \in Holder : IsInjective(children[h])
  /\ \A n \in Node, h \in Holder : n \in ToSet(children[h]) <=> parent[n] = h
  /\ \A n \in Node : parent[n] = Null => children[n] = <<>>
  /\ \A n \in Node \ allocated : parent[n] = Null

\* Following m_parent from any linked node ends at a header: no set of nodes
\* holds the parents of all its members.  level() and the ascent of the
\* iterators end, and no subtree is cut off in a cycle.
ParentsEnd ==
  \A S \in SUBSET Node : (\A n \in S : parent[n] \in S) => S = {}

\* No call that returns or throws leaves a node with more children than it has slots,
\* or a header with a second root.  The inserts test the limit and throw; a copy or an
\* exchange stays below it; where a node would be overfilled the call is undefined.
Capacity(h) == IF h \in Tree THEN 1 ELSE MaxArity

ArityRespected == \A h \in Holder : Len(children[h]) <= Capacity(h)

\* Every linked node is reached from exactly one header and is not below
\* itself: the recursions over subtrees (erase, count_nodes, height, copies)
\* end and free or count each node once.
Forest ==
  \A n \in Node :
    /\ parent[n] # Null =>
         \E t \in Tree : /\ n \in NodesOf(t)
                         /\ \A u \in Tree \ {t} : n \notin NodesOf(u)
    /\ n \notin Below(children, n)

\* m_size counts the nodes of the tree and, beyond them, exactly the inserts
\* that threw: the subtractions in erase and the swaps match the additions.
SizeAccount ==
  \A t \in Tree : m_size[t] = Cardinality(NodesOf(t)) + thrown[t]

\* size() is the number of nodes of the tree, as it is documented.
SizeReturnsNodeCount == \A t \in Tree : m_size[t] = Cardinality(NodesOf(t))

\* No call that returns loses a node, and none frees or reuses one that is in
\* no tree: what erase, assign and move take out of a tree they deallocate.
LostNodes == allocated \ UNION {NodesOf(t) : t \in Tree}

LeaksOnlyByThrow == [][outcome' = "ok" => LostNodes' = LostNodes]_vars

\* An insertion in front of an existing root is refused with an exception.
InsertAtRootThrows ==
  [][\A t \in Tree, v \in Value :
       children[t] # <<>> /\ Insert(t, Cursor(t, 0), v) => outcome' = "root_error"]_vars
=============================================================================
