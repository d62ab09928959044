-------------------------- MODULE VariationOperators --------------------------
(***************************************************************************)
(* The strategies that vary trees: one_point_crossover_strategy,            *)
(* one_point_crossover_pip_strategy, point_mutation and                     *)
(* simple_mutation_strategy (operator/), called by crossover, mutation,     *)
(* multi_crossover and multi_mutation one after the other on two            *)
(* individuals.  An individual is a vector of trees, of which an operation  *)
(* draws one; crossover and mutation are those of individuals with one      *)
(* tree.  A strategy draws nodes until a height condition holds or its      *)
(* patience ends; a step is one draw.                                       *)
(*                                                                         *)
(* A tree is a function from its nodes, which are paths, to symbols.        *)
(* swap_subtrees exchanges what is below two paths, as TreeBase does with   *)
(* links.                                                                  *)
(***************************************************************************)
EXTENDS PathTree

CONSTANTS
  Symbol, Arity,   \* the node values and the number of children each takes
  MaxHeight,       \* max_height of all strategies
  MaxTries,        \* max_iterations, max_trials
  Initial,         \* the pairs of individuals to begin with
  Generated        \* what the tree generator of point_mutation produces

ASSUME VariationAssumption ==
  /\ Arity \in [Symbol -> Nat]
  /\ MaxHeight \in Nat /\ MaxTries \in Nat
  /\ \A pair \in Initial : \A i \in 1 .. 2 :
       /\ DOMAIN pair = 1 .. 2 /\ DOMAIN pair[i] = DOMAIN pair[1]
       /\ IsFiniteSet(DOMAIN pair[1]) /\ 1 \in DOMAIN pair[1]

VARIABLES
  nodes,       \* the two individuals
  drawn,       \* the component of each that is varied
  call,        \* the strategy that is running, <<>> between calls
  tries,       \* its fruitless draws
  candidates   \* pip: the nodes of each tree that may be drawn

vars == <<nodes, drawn, call, tries, candidates>>

Both == 1 .. 2

Components == DOMAIN nodes[1]

Tree(i) == nodes[i][drawn[i]]

Empty == <<>>

\* Draws of the pip strategy, which the code does not count, are counted up to
\* this bound.
TryCap == MaxTries + 1

-----------------------------------------------------------------------------
\* t is prefix-closed, and each node has exactly the children its symbol takes.
WellFormed(t) ==
  /\ <<>> \in DOMAIN t
  /\ \A p \in DOMAIN t : Children(t, p) = {Append(p, k) : k \in 1 .. Arity[t[p]]}
  /\ \A p \in DOMAIN t : p # <<>> => Front(p) \in DOMAIN t

IsTree(t) ==
  /\ IsFiniteSet(DOMAIN t) /\ DOMAIN t \subseteq Path /\ t \in [DOMAIN t -> Symbol]
  /\ WellFormed(t)

\* Trees are made by the generators, which complete each of them.
ASSUME TreesAssumption ==
  /\ \A pair \in Initial : \A i \in Both : \A k \in DOMAIN pair[i] :
       pair[i][k] = Empty \/ IsTree(pair[i][k])
  /\ \A t \in Generated : IsTree(t)

\* Mutant: the second tree gets nothing back.
SwapOneWay(p1, p2) ==
  nodes' = [nodes EXCEPT ![1][drawn[1]] = Put(@, p1, Subtree(Tree(2), p2))]

\* swap_subtrees( t1 , n1 , t2 , n2 )
SwapSubtrees(p1, p2) ==
  nodes' = [nodes EXCEPT ![1][drawn[1]] = Put(@, p1, Subtree(Tree(2), p2)),
                         ![2][drawn[2]] = Put(@, p2, Subtree(Tree(1), p1))]

\* Mutant: the height of the cut is forgotten.
FitsLoosely(p, h) == Len(p) + h - 1 <= MaxHeight

\* level() of the place and height() of what is put there.
Fits(p, h) == Len(p) + h <= MaxHeight

\* The pip strategy subtracts one.
FitsPip(p, h) == Len(p) + h - 1 <= MaxHeight

Idle == call = <<>>

Return == call' = <<>> /\ drawn' = <<1, 1>> /\ tries' = 0 /\ candidates' = <<>>

Init ==
  /\ nodes \in Initial
  /\ drawn = <<1, 1>> /\ call = <<>> /\ tries = 0 /\ candidates = <<>>

-----------------------------------------------------------------------------
(* operation of crossover, multi_crossover, mutation and multi_mutation       *)

\* A tree of each parent, drawn apart; the strategy is not called if one is empty.
DrawComponents ==
  /\ drawn' \in [Both -> Components]
  /\ \A i \in Both : nodes[i][drawn'[i]] # Empty

DrawComponent(i) ==
  /\ drawn' \in {[<<1, 1>> EXCEPT ![i] = k] : k \in Components}
  /\ nodes[i][drawn'[i]] # Empty

-----------------------------------------------------------------------------
(* one_point_crossover_strategy                                             *)

OnePoint ==
  /\ Idle
  /\ DrawComponents
  /\ call' = <<"one_point">>
  /\ UNCHANGED <<nodes, tries, candidates>>

Exchangeable(p1, p2) ==
  /\ Subtree(Tree(1), p1) # Subtree(Tree(2), p2)      \* cursor_equal
  /\ Fits(p1, HeightAt(Tree(2), p2))
  /\ Fits(p2, HeightAt(Tree(1), p1))

\* Mutant: equal subtrees do not count as a draw.
OnePointMissUncounted(p1, p2) ==
  /\ ~ Exchangeable(p1, p2)
  /\ tries' = IF Subtree(Tree(1), p1) = Subtree(Tree(2), p2) THEN tries ELSE tries + 1
  /\ UNCHANGED <<nodes, drawn, call, candidates>>

OnePointMiss(p1, p2) ==
  /\ ~ Exchangeable(p1, p2)
  /\ tries' = tries + 1
  /\ UNCHANGED <<nodes, drawn, call, candidates>>

OnePointDraw ==
  /\ call = <<"one_point">> /\ tries < MaxTries
  /\ \E p1 \in DOMAIN Tree(1), p2 \in DOMAIN Tree(2) :
       \/ Exchangeable(p1, p2) /\ SwapSubtrees(p1, p2) /\ Return
       \/ OnePointMiss(p1, p2)

OnePointFails ==
  /\ call = <<"one_point">> /\ tries >= MaxTries
  /\ Return
  /\ UNCHANGED nodes

-----------------------------------------------------------------------------
(* one_point_crossover_pip_strategy                                         *)

\* seperate_nodes: the walk descends through nodes with more than one child only,
\* the others count as terminals.
Reached(t) ==
  {p \in DOMAIN t : \A q \in DOMAIN t :
     IsPrefix(q, p) /\ q # p => Cardinality(Children(t, q)) > 1}

InternalNodes(t) == {p \in Reached(t) : Cardinality(Children(t, p)) > 1}

TerminalNodes(t) == Reached(t) \ InternalNodes(t)

\* Internal nodes where they are favoured and there are any.
Pip ==
  /\ Idle
  /\ DrawComponents
  /\ \E favour \in [Both -> BOOLEAN] :
       candidates' = [i \in Both |->
         LET t == nodes[i][drawn'[i]] IN
         IF favour[i] /\ InternalNodes(t) # {} THEN InternalNodes(t) ELSE TerminalNodes(t)]
  /\ call' = <<"pip">>
  /\ UNCHANGED <<nodes, tries>>

\* A draw that does not fit is repeated, unless max_iterations is 0: iteration stays 0.
\* tries counts for it.
PipDraw ==
  /\ call = <<"pip">>
  /\ \E p1 \in candidates[1], p2 \in candidates[2] :
       IF FitsPip(p1, HeightAt(Tree(2), p2)) /\ FitsPip(p2, HeightAt(Tree(1), p1))
       THEN SwapSubtrees(p1, p2) /\ Return
       ELSE IF MaxTries > 0
       THEN tries' = Min({tries + 1, TryCap}) /\ UNCHANGED <<nodes, drawn, call, candidates>>
       ELSE Return /\ UNCHANGED nodes

-----------------------------------------------------------------------------
(* point_mutation                                                           *)

PointMutation ==
  /\ Idle
  /\ \E i \in Both : DrawComponent(i) /\ call' = <<"point", i>>
  /\ UNCHANGED <<nodes, tries, candidates>>

Mutating(i) == call = <<"point", i>>

PointDraw(i) ==
  /\ Mutating(i)
  /\ \E p \in DOMAIN Tree(i), s \in Generated :
       \/ /\ Fits(p, Height(s))
          /\ nodes' = [nodes EXCEPT ![i][drawn[i]] = Put(@, p, s)]
          /\ Return
       \/ /\ ~ Fits(p, Height(s))
          /\ UNCHANGED nodes
          /\ IF tries + 1 < MaxTries
             THEN tries' = tries + 1 /\ UNCHANGED <<drawn, call, candidates>>
             ELSE Return

-----------------------------------------------------------------------------
(* simple_mutation_strategy                                                 *)

\* Mutant: the new symbol need not take as many children.
SimpleMutationAny(i) ==
  /\ Idle
  /\ \E k \in Components :
       /\ Height(nodes[i][k]) >= 2
       /\ \E p \in DOMAIN nodes[i][k], s \in Symbol : nodes' = [nodes EXCEPT ![i][k][p] = s]
  /\ UNCHANGED <<drawn, call, tries, candidates>>

\* get_node2 is asked for a symbol of the arity of the node.
SimpleMutation(i) ==
  /\ Idle
  /\ \E k \in Components :
       /\ Height(nodes[i][k]) >= 2
       /\ \E p \in DOMAIN nodes[i][k], s \in Symbol :
            /\ Arity[s] = Cardinality(Children(nodes[i][k], p))
            /\ nodes' = [nodes EXCEPT ![i][k][p] = s]
  /\ UNCHANGED <<drawn, call, tries, candidates>>

-----------------------------------------------------------------------------
Draw == OnePointDraw \/ OnePointFails \/ PipDraw \/ \E i \in Both : PointDraw(i)

Next ==
  \/ OnePoint \/ Pip \/ PointMutation
  \/ \E i \in Both : SimpleMutation(i)
  \/ Draw

\* A call runs until it returns.
Spec == Init /\ [][Next]_vars /\ WF_vars(Draw)

-----------------------------------------------------------------------------
\* After any sequence of strategies a tree is one, which can be evaluated.
AritiesMatch ==
  \A i \in Both : \A k \in Components : nodes[i][k] = Empty \/ WellFormed(nodes[i][k])

Heightened(i, k) == Height(nodes'[i][k]) > Max({Height(nodes[i][k]), MaxHeight})

NoneHeightened == \A i \in Both : \A k \in Components : ~ Heightened(i, k)

\* one_point_crossover_strategy and the mutations never lift a tree over max_height,
\* whatever was exchanged before; a tree that is higher already does not grow.
HeightsLimited == [][call # <<"pip">> => NoneHeightened]_vars

\* doc/tutorial_artificial_ant.qbk:156 says of max_tree_height, which artificial_ant
\* hands to the pip strategy, "how deep can the tree be".  The pip strategy lifts trees
\* above it: the level of a root is 0, and FitsPip takes off one more.
PipHeightsLimited == [][call = <<"pip">> => NoneHeightened]_vars

\* A crossover moves nodes between the trees and neither makes nor loses one.
Places(n) ==
  UNION {{<<c[1], c[2], p>> : p \in DOMAIN n[c[1]][c[2]]} : c \in Both \X Components}

Occurrences(n, s) == Cardinality({x \in Places(n) : n[x[1]][x[2]][x[3]] = s})

Conserved(s) == Occurrences(nodes', s) = Occurrences(nodes, s)

CrossoverConserves == call \in {<<"one_point">>, <<"pip">>} => \A s \in Symbol : Conserved(s)

NodesConserved == [][CrossoverConserves]_vars

\* operator() of one point crossover and of point mutation returns, if need be
\* without a result.
CallsReturn == (call \notin {<<>>, <<"pip">>}) ~> (call = <<>>)

\* What one_point_crossover_pip_strategy.hpp:89 says, while( not good and
\* ( iteration < m_max_iterations ) ): no more draws than max_iterations.  It fails:
\* nothing counts the iterations.
PipRetriesBounded == call = <<"pip">> => tries <= MaxTries
=============================================================================
