------------------------------- MODULE Pipeline -------------------------------
(***************************************************************************)
(* dynamic_pipeline and static_pipeline (evolve/): next_generation builds a *)
(* new population beside the old one, first the elite, then what the        *)
(* genetic operators make of selected individuals, until it is full.        *)
(* Between generations the user evaluates the fitness, or does not.         *)
(*                                                                         *)
(* Mutation, crossover and reproduction are the operators of operator/      *)
(* over a tournament_selector; what the strategies do to a tree is left     *)
(* open.  The random engine is nondeterminism; see Spec for what it owes.   *)
(* A fitness is a number or Broken, which stands for NaN.                   *)
(***************************************************************************)
EXTENDS Integers, FiniteSets, SequencesExt

CONSTANTS
  Genome, Fit, Broken,
  PopSize, NumberElite,
  TournamentSize,
  Transform       \* final_transform of dynamic_pipeline

ASSUME PipelineAssumption ==
  /\ Genome # {}
  /\ Broken \notin Int /\ Fit \in [Genome -> Int \cup {Broken}] /\ Transform \in [Genome -> Genome]
  /\ PopSize \in Nat /\ PopSize > 2
  /\ NumberElite \in 0 .. PopSize
  /\ TournamentSize \in Nat \ {0}

VARIABLES
  class,      \* "dynamic" or "static"
  pop,
  fitness,
  phase,      \* where next_generation stands; "idle" between two calls
  indices,    \* the sorted indices, as long as the elite is copied
  new_pop,
  selection,  \* the individuals the crossover has selected so far
  observed    \* the last call of m_observer, positions counted from one

vars == <<class, pop, fitness, phase, indices, new_pop, selection, observed>>

-----------------------------------------------------------------------------
\* operator< of double: not true of NaN.
Less(f, g) == f # Broken /\ g # Broken /\ f < g

\* The order of sort_indices: a finite value stands before one that is not.
Fitter(f, g) == Less(f, g) \/ (f # Broken /\ g = Broken)

\* sort_indices: the permutations that put fitter individuals first; the order among
\* equals is open.
Sorted(f) ==
  {idx \in [DOMAIN f -> DOMAIN f] :
     /\ \A i, j \in DOMAIN f : i # j => idx[i] # idx[j]
     /\ \A k \in DOMAIN f : \E i \in DOMAIN f : idx[i] = k
     /\ \A i, j \in DOMAIN f : i < j => ~ Fitter(f[idx[j]], f[idx[i]])}

\* tournament_selector: of the drawn individuals the first that none of the others
\* beats; what was drawn first is only replaced by something less, so a NaN stays.
Wins(draw, k) ==
  LET F(i) == fitness[draw[i]] IN
  /\ k = 1 \/ Less(F(k), F(1))
  /\ \A j \in 1 .. k - 1 : F(j) = Broken \/ Less(F(k), F(j))
  /\ \A j \in DOMAIN draw : ~ Less(F(j), F(k))

Selected ==
  {i \in DOMAIN pop : \E draw \in [1 .. TournamentSize -> DOMAIN pop] :
                        \E k \in DOMAIN draw : draw[k] = i /\ Wins(draw, k)}

\* What an operator may return for the selected individuals.
Offspring(choice, sel) ==
  CASE choice = "mutation"     -> {<<g>> : g \in Genome}
    [] choice = "crossover"    -> {<<g, h>> : g, h \in Genome}
    [] choice = "reproduction" -> {<<pop[sel[1]]>>}

Init ==
  /\ class \in {"dynamic", "static"}
  /\ pop \in [1 .. PopSize -> Genome]
  /\ fitness = [i \in 1 .. PopSize |-> Fit[pop[i]]]
  /\ phase = "idle"
  /\ indices = <<>> /\ new_pop = <<>> /\ selection = <<>>
  /\ observed = <<>>

\* The user computes the fitness of the current population.
Evaluate ==
  /\ phase = "idle"
  /\ fitness' = [i \in DOMAIN pop |-> Fit[pop[i]]]
  /\ UNCHANGED <<class, pop, phase, indices, new_pop, selection, observed>>

Begin ==
  /\ phase = "idle"
  /\ indices' \in Sorted(fitness)
  /\ phase' = "elite"
  /\ UNCHANGED <<class, pop, fitness, new_pop, selection, observed>>

\* Only dynamic_pipeline reports what it does.
Observe(choice, in, out) ==
  observed' = IF class = "dynamic" THEN <<choice, in, out>> ELSE observed

\* Mutant: the elite is taken from the front of the population.
CloneUnsorted ==
  /\ phase = "elite"
  /\ Len(new_pop) < NumberElite
  /\ LET index == Len(new_pop) + 1 IN
       /\ new_pop' = Append(new_pop, pop[index])
       /\ Observe("elite", <<index>>, <<Len(new_pop) + 1>>)
  /\ UNCHANGED <<class, pop, fitness, phase, indices, selection>>

Clone ==
  /\ phase = "elite"
  /\ Len(new_pop) < NumberElite
  /\ LET index == indices[Len(new_pop) + 1] IN
       /\ new_pop' = Append(new_pop, pop[index])
       /\ Observe("elite", <<index>>, <<Len(new_pop) + 1>>)
  /\ UNCHANGED <<class, pop, fitness, phase, indices, selection>>

\* Mutant: the last one of the elite is left out.
EndEliteEarly ==
  /\ phase = "elite"
  /\ Len(new_pop) + 1 >= NumberElite
  /\ phase' = "breed" /\ indices' = <<>>
  /\ UNCHANGED <<class, pop, fitness, new_pop, selection, observed>>

EndElite ==
  /\ phase = "elite"
  /\ Len(new_pop) = NumberElite
  /\ phase' = "breed" /\ indices' = <<>>
  /\ UNCHANGED <<class, pop, fitness, new_pop, selection, observed>>

Room == PopSize - Len(new_pop)

\* Mutant: static_pipeline always takes both children of a crossover.
TakeBoth(trees) ==
  IF class = "static" \/ Len(trees) <= Room THEN trees ELSE SubSeq(trees, 1, Room)

\* Mutant: dynamic_pipeline stops one short.
TakeShort(trees) ==
  IF class = "static"
  THEN IF Room = 1 THEN <<trees[1]>> ELSE trees
  ELSE IF Len(trees) < Room THEN trees ELSE SubSeq(trees, 1, Room - 1)

\* What of the children still goes into the new population.
Take(trees) ==
  IF class = "static"
  THEN IF Room = 1 THEN <<trees[1]>> ELSE trees
  ELSE IF Len(trees) <= Room THEN trees ELSE SubSeq(trees, 1, Room)

Finished(g) == IF class = "dynamic" THEN Transform[g] ELSE g

\* Mutant: the observer is told one position per child, taken or not.
OperateReportingAll(choice, sel) ==
  \E trees \in Offspring(choice, sel) :
    LET taken == Take(trees) IN
    /\ new_pop' = new_pop \o [i \in DOMAIN taken |-> Finished(taken[i])]
    /\ Observe(choice, sel, [i \in DOMAIN trees |-> Len(new_pop) + i])

\* op.operation( selection ), the loop over the children, and the observer.
Operate(choice, sel) ==
  \E trees \in Offspring(choice, sel) :
    LET taken == Take(trees) IN
    /\ new_pop' = new_pop \o [i \in DOMAIN taken |-> Finished(taken[i])]
    /\ Observe(choice, sel, [i \in DOMAIN taken |-> Len(new_pop) + i])

\* The discrete distribution chooses mutation or reproduction: one individual.
Breed(choice) ==
  /\ phase = "breed" /\ Len(new_pop) < PopSize
  /\ \E i \in Selected : Operate(choice, <<i>>)
  /\ UNCHANGED <<class, pop, fitness, phase, indices, selection>>

\* It chooses crossover: the second individual is drawn until it is another one.
SelectFirst ==
  /\ phase = "breed" /\ Len(new_pop) < PopSize
  /\ \E i \in Selected : selection' = <<i, i>>
  /\ phase' = "crossover"
  /\ UNCHANGED <<class, pop, fitness, indices, new_pop, observed>>

SelectSecond ==
  /\ phase = "crossover" /\ selection[1] = selection[2]
  /\ \E i \in Selected : selection' = <<selection[1], i>>
  /\ UNCHANGED <<class, pop, fitness, phase, indices, new_pop, observed>>

Cross ==
  /\ phase = "crossover" /\ selection[1] # selection[2]
  /\ Operate("crossover", selection)
  /\ phase' = "breed" /\ selection' = <<>>
  /\ UNCHANGED <<class, pop, fitness, indices>>

\* pop = std::move( new_pop ); the fitness is not touched.
Replace ==
  /\ phase = "breed" /\ Len(new_pop) >= PopSize
  /\ pop' = new_pop /\ new_pop' = <<>>
  /\ phase' = "idle"
  /\ UNCHANGED <<class, fitness, indices, selection, observed>>

InGeneration ==
  \/ Clone \/ EndElite
  \/ Breed("mutation") \/ Breed("reproduction")
  \/ SelectFirst \/ SelectSecond \/ Cross
  \/ Replace

Next == Evaluate \/ Begin \/ InGeneration

\* One thread runs a generation to its end, and a draw that stays possible for
\* ever is made: the second parent of a crossover is not the first for ever.
Spec ==
  /\ Init /\ [][Next]_vars
  /\ WF_vars(InGeneration)
  /\ SF_vars(SelectSecond /\ selection'[1] # selection'[2])

-----------------------------------------------------------------------------
\* Local data of next_generation exists only where it is in use.
TypeOK ==
  /\ class \in {"dynamic", "static"}
  /\ phase \in {"idle", "elite", "breed", "crossover"}
  /\ pop \in Seq(Genome) /\ new_pop \in Seq(Genome)
  /\ fitness \in [DOMAIN pop -> Int \cup {Broken}]
  /\ IF phase = "elite" THEN indices \in Sorted(fitness) ELSE indices = <<>>
  /\ IF phase = "crossover" THEN selection \in [1 .. 2 -> DOMAIN pop] ELSE selection = <<>>
  /\ phase = "idle" => new_pop = <<>>

\* The population keeps its size although a crossover returns two individuals
\* where there may be room for one.
PopulationSizeKept ==
  /\ Len(pop) = PopSize
  /\ Len(new_pop) <= PopSize
  /\ phase = "elite" => Len(new_pop) <= NumberElite
  /\ phase = "crossover" => Len(new_pop) < PopSize

\* The observer of dynamic_pipeline is told of every individual exactly once, with
\* its final position and the positions of its parents, and of nothing else.
ObserverAccounts ==
  [][class = "dynamic" /\ new_pop' # <<>> /\ new_pop' # new_pop =>
       LET in == observed'[2]
           out == observed'[3]
       IN  /\ out = [i \in 1 .. Len(new_pop') - Len(new_pop) |-> Len(new_pop) + i]
           /\ ToSet(in) \subseteq DOMAIN pop
           /\ Len(in) = Cardinality(ToSet(in))
           /\ observed'[1] = "elite" => new_pop'[out[1]] = pop[in[1]]
           /\ observed'[1] = "reproduction" => new_pop'[out[1]] = Transform[pop[in[1]]]]_vars

\* With an elite, and fitness evaluated before the generation, the best fitness in
\* the population never gets worse.
Current == fitness = [i \in DOMAIN pop |-> Fit[pop[i]]]

BestNeverLost ==
  [][phase = "breed" /\ phase' = "idle" /\ NumberElite > 0 /\ Current =>
       \A i \in DOMAIN pop : \E j \in DOMAIN pop' : ~ Fitter(Fit[pop[i]], Fit[pop'[j]])]_vars

\* The pipelines keep what Evolution promises: the local data is hidden.
Promise == INSTANCE Evolution
ImplementsEvolution == Promise!Spec

\* Every call of next_generation returns.
GenerationEnds == phase # "idle" ~> phase = "idle"
=============================================================================
