--------------------------- MODULE Pipeline_proofs ---------------------------
(***************************************************************************)
(* The safety properties of Pipeline, and that the pipelines keep what      *)
(* Evolution promises, for all populations, elites, fitness functions and   *)
(* tournament sizes.                                                        *)
(***************************************************************************)
EXTENDS Pipeline, FiniteSetTheorems, TLAPS

\* While the elite is copied, new_pop follows the sorted indices; from then on it
\* starts with an elite.
EliteCopied ==
  /\ phase = "elite" => \A i \in 1 .. Len(new_pop) : new_pop[i] = pop[indices[i]]
  /\ phase \in {"breed", "crossover"} =>
       Len(new_pop) >= NumberElite /\ Promise!Elite(new_pop)

IInv == TypeOK /\ PopulationSizeKept /\ EliteCopied

-----------------------------------------------------------------------------
\* The population is numbered from one to PopSize, and the fitness with it.
LEMMA Types ==
  ASSUME TypeOK, PopulationSizeKept
  PROVE  /\ DOMAIN pop = 1 .. PopSize /\ Len(new_pop) \in 0 .. PopSize
         /\ DOMAIN new_pop = 1 .. Len(new_pop)
         /\ DOMAIN fitness = 1 .. PopSize
         /\ PopSize \in Nat /\ NumberElite \in 0 .. PopSize
         /\ \A i \in DOMAIN pop : pop[i] \in Genome
         /\ \A i \in DOMAIN new_pop : new_pop[i] \in Genome
BY PipelineAssumption DEF TypeOK, PopulationSizeKept

\* A tournament is won by an individual of the population.
LEMMA SelectedInPop == Selected \subseteq DOMAIN pop
BY DEF Selected

\* Of one or two children, the first r.
LEMMA FirstOfTwo ==
  ASSUME NEW S, NEW t \in Seq(S), Len(t) \in {1, 2}, NEW r \in Nat, r >= 1
  PROVE  (IF Len(t) <= r THEN t ELSE SubSeq(t, 1, r)) = (IF r = 1 THEN <<t[1]>> ELSE t)
<1>1. CASE Len(t) = 1
  <2>1. t = <<t[1]>>
    BY <1>1
  <2>2. QED
    BY <1>1, <2>1
<1>2. CASE Len(t) = 2 /\ r = 1
  <2>1. \A s \in Seq(S) : Len(s) = 1 => s = <<s[1]>>
    OBVIOUS
  <2>2. SubSeq(t, 1, 1) \in Seq(S) /\ Len(SubSeq(t, 1, 1)) = 1 /\ SubSeq(t, 1, 1)[1] = t[1]
    BY <1>2
  <2>3. SubSeq(t, 1, 1) = <<t[1]>>
    <3> DEFINE s == SubSeq(t, 1, 1)
    <3>1. s \in Seq(S) /\ Len(s) = 1 /\ s[1] = t[1]
      BY <2>2
    <3> HIDE DEF s
    <3>2. s = <<t[1]>>
      BY <2>1, <3>1
    <3>3. QED
      BY <3>2 DEF s
  <2>4. (IF Len(t) <= r THEN t ELSE SubSeq(t, 1, r)) = SubSeq(t, 1, 1)
    BY <1>2
  <2>5. QED
    BY <1>2, <2>3, <2>4
<1>3. CASE Len(t) = 2 /\ r > 1
  BY <1>3
<1>4. QED
  BY <1>1, <1>2, <1>3

\* An operator returns one or two individuals, and what is taken of them fits.
LEMMA Taken ==
  ASSUME IInv, Len(new_pop) < PopSize,
         NEW choice \in {"mutation", "crossover", "reproduction"},
         NEW sel, sel[1] \in DOMAIN pop,
         NEW trees \in Offspring(choice, sel)
  PROVE  /\ Take(trees) \in Seq(Genome) /\ Len(Take(trees)) \in 1 .. Room
         /\ \A i \in DOMAIN Take(trees) : Take(trees)[i] = trees[i]
<1>1. trees \in Seq(Genome) /\ Len(trees) \in {1, 2}
  <2>1. CASE choice = "mutation"
    <3>1. Offspring(choice, sel) = {<<g>> : g \in Genome}
      BY <2>1 DEF Offspring
    <3>2. PICK g \in Genome : trees = <<g>>
      BY <3>1
    <3>3. QED
      BY <3>2
  <2>2. CASE choice = "crossover"
    <3>1. Offspring(choice, sel) = {<<g, h>> : g, h \in Genome}
      BY <2>2 DEF Offspring
    <3>2. PICK g \in Genome, h \in Genome : trees = <<g, h>>
      BY <3>1
    <3>3. QED
      BY <3>2
  <2>3. CASE choice = "reproduction"
    <3>1. Offspring(choice, sel) = {<<pop[sel[1]]>>}
      BY <2>3 DEF Offspring
    <3>2. pop[sel[1]] \in Genome
      BY Types DEF IInv
    <3>3. PICK g \in Genome : trees = <<g>>
      BY <3>1, <3>2
    <3>4. QED
      BY <3>3
  <2>4. QED
    BY <2>1, <2>2, <2>3
<1>2. Room \in Nat /\ Room >= 1
  BY Types DEF IInv, Room
<1>3. Take(trees) = IF Room = 1 THEN <<trees[1]>> ELSE trees
  BY <1>1, <1>2, FirstOfTwo DEF Take
<1>4. CASE Room = 1
  <2>1. <<trees[1]>> \in Seq(Genome) /\ Len(<<trees[1]>>) = 1
    BY <1>1
  <2>2. QED
    BY <1>3, <1>4, <2>1
<1>5. CASE Room # 1
  <2>1. \A k \in {1, 2} : \A r \in Nat : r >= 1 /\ r # 1 => k \in 1 .. r
    OBVIOUS
  <2>2. Len(trees) \in 1 .. Room
    BY <1>1, <1>2, <1>5, <2>1
  <2>3. QED
    BY <1>1, <1>3, <1>5, <2>2
<1>6. QED
  BY <1>4, <1>5

\* What an operation does to the new population.
LEMMA Operated ==
  ASSUME IInv, Len(new_pop) < PopSize,
         NEW choice \in {"mutation", "crossover", "reproduction"},
         NEW sel, sel[1] \in DOMAIN pop, Operate(choice, sel)
  PROVE  /\ new_pop' \in Seq(Genome) /\ Len(new_pop') \in Len(new_pop) + 1 .. PopSize
         /\ \A i \in 1 .. Len(new_pop) : new_pop'[i] = new_pop[i]
         /\ class = "dynamic" => observed' =
              <<choice, sel, [i \in 1 .. Len(new_pop') - Len(new_pop) |-> Len(new_pop) + i]>>
         /\ class = "dynamic" /\ choice = "reproduction" =>
              new_pop'[Len(new_pop) + 1] = Transform[pop[sel[1]]]
<1> DEFINE n == Len(new_pop)
<1>1. PICK trees \in Offspring(choice, sel) :
        /\ new_pop' = new_pop \o [i \in DOMAIN Take(trees) |-> Finished(Take(trees)[i])]
        /\ Observe(choice, sel, [i \in DOMAIN Take(trees) |-> n + i])
  BY DEF Operate
<1> DEFINE taken == Take(trees)
           added == [i \in DOMAIN taken |-> Finished(taken[i])]
<1>2. /\ taken \in Seq(Genome) /\ Len(taken) \in 1 .. Room
      /\ \A i \in DOMAIN taken : taken[i] = trees[i]
  BY Taken
<1>3. n \in Nat /\ n < PopSize /\ PopSize \in Nat /\ new_pop \in Seq(Genome) /\ Room = PopSize - n
  BY Types DEF IInv, TypeOK, Room
<1> HIDE DEF taken
<1>4. DOMAIN taken = 1 .. Len(taken) /\ Len(taken) \in Nat
      /\ \A i \in DOMAIN taken : taken[i] \in Genome
  BY <1>2
<1>5. added \in Seq(Genome) /\ Len(added) = Len(taken)
  BY <1>4, PipelineAssumption DEF Finished
<1>6. new_pop' = new_pop \o added
  BY <1>1 DEF taken
<1>7. /\ new_pop' \in Seq(Genome) /\ Len(new_pop') = n + Len(taken)
      /\ \A i \in 1 .. n : new_pop'[i] = new_pop[i]
      /\ new_pop'[n + 1] = Finished(taken[1])
  <2> HIDE DEF added
  <2>1. /\ new_pop \o added \in Seq(Genome) /\ Len(new_pop \o added) = n + Len(taken)
        /\ \A i \in 1 .. n : (new_pop \o added)[i] = new_pop[i]
        /\ (new_pop \o added)[n + 1] = added[1]
    BY <1>2, <1>3, <1>5
  <2>2. added[1] = Finished(taken[1])
    BY <1>2, <1>4 DEF added
  <2>3. QED
    BY <1>6, <2>1, <2>2
<1>8. class = "dynamic" => observed' = <<choice, sel, [i \in 1 .. Len(taken) |-> n + i]>>
  BY <1>1, <1>4 DEF Observe, taken
<1>9. Len(new_pop') - n = Len(taken) /\ Len(new_pop') \in n + 1 .. PopSize
  BY <1>2, <1>3, <1>7
<1>10. class = "dynamic" /\ choice = "reproduction" => new_pop'[n + 1] = Transform[pop[sel[1]]]
  <2>1. choice = "reproduction" => trees = <<pop[sel[1]]>>
    BY DEF Offspring
  <2>2. taken[1] = trees[1]
    BY <1>2, <1>4
  <2>3. QED
    BY <1>7, <2>1, <2>2 DEF Finished
<1>11. QED
  BY <1>7, <1>8, <1>9, <1>10

-----------------------------------------------------------------------------
\* A first population, and no generation under way.
LEMMA InvInit == Init => IInv
<1> SUFFICES ASSUME Init PROVE IInv
  OBVIOUS
<1>1. PopSize \in Nat /\ pop \in Seq(Genome) /\ Len(pop) = PopSize /\ DOMAIN pop = 1 .. PopSize
      /\ \A i \in 1 .. PopSize : pop[i] \in Genome
  BY PipelineAssumption DEF Init
<1>2. fitness \in [DOMAIN pop -> Int \cup {Broken}]
  BY <1>1, PipelineAssumption DEF Init
<1>3. <<>> \in Seq(Genome) /\ Len(<<>>) = 0
  OBVIOUS
<1>4. TypeOK
  BY <1>1, <1>2, <1>3 DEF Init, TypeOK
<1>5. PopulationSizeKept /\ EliteCopied
  BY <1>1, <1>3 DEF Init, PopulationSizeKept, EliteCopied
<1>6. QED
  BY <1>4, <1>5 DEF IInv

\* The steps that neither touch the population nor add to the new one.
LEMMA EvaluateKeeps == ASSUME IInv, Evaluate PROVE IInv'
<1>1. fitness' \in [DOMAIN pop -> Int \cup {Broken}]
  BY Types, PipelineAssumption DEF Evaluate, IInv
<1>2. TypeOK'
  BY <1>1 DEF Evaluate, IInv, TypeOK
<1>3. PopulationSizeKept' /\ EliteCopied'
  BY DEF Evaluate, IInv, PopulationSizeKept, EliteCopied
<1>4. QED
  BY <1>2, <1>3 DEF IInv

\* The indices are sorted, the elite still empty.
LEMMA BeginKeeps == ASSUME IInv, Begin PROVE IInv'
<1>1. new_pop = <<>> /\ Len(new_pop) = 0 /\ phase = "idle" /\ selection = <<>>
  BY DEF Begin, IInv, TypeOK
<1>2. TypeOK'
  BY <1>1 DEF Begin, IInv, TypeOK
<1>3. PopulationSizeKept' /\ EliteCopied'
  BY <1>1, PipelineAssumption DEF Begin, IInv, PopulationSizeKept, EliteCopied
<1>4. QED
  BY <1>2, <1>3 DEF IInv

\* One more individual is copied from the place the indices name.
LEMMA CloneKeeps == ASSUME IInv, Clone PROVE IInv'
<1> DEFINE n == Len(new_pop)
           g == pop[indices[n + 1]]
<1>1. /\ n \in Nat /\ n < NumberElite /\ NumberElite \in 0 .. PopSize /\ PopSize \in Nat
      /\ new_pop \in Seq(Genome) /\ DOMAIN pop = 1 .. PopSize
      /\ new_pop' = Append(new_pop, g)
  BY Types DEF Clone, IInv, TypeOK
<1>2. indices[n + 1] \in DOMAIN pop /\ g \in Genome
  <2>1. indices \in [1 .. PopSize -> 1 .. PopSize]
    BY Types DEF Clone, IInv, TypeOK, Sorted
  <2>2. QED
    BY <1>1, <2>1, Types DEF IInv
<1>3. /\ new_pop' \in Seq(Genome) /\ Len(new_pop') = n + 1
      /\ \A i \in 1 .. n : new_pop'[i] = new_pop[i]
      /\ new_pop'[n + 1] = g
  BY <1>1, <1>2
<1>4. UNCHANGED <<class, pop, fitness, phase, indices, selection>> /\ phase = "elite"
  BY DEF Clone
<1>5. TypeOK'
  BY <1>3, <1>4 DEF IInv, TypeOK
<1>6. PopulationSizeKept'
  BY <1>1, <1>3, <1>4 DEF IInv, PopulationSizeKept
<1>7. EliteCopied'
  <2>1. ASSUME NEW i \in 1 .. n + 1 PROVE new_pop'[i] = pop[indices[i]]
    BY <1>1, <1>3, <1>4 DEF IInv, EliteCopied
  <2>2. QED
    BY <1>3, <1>4, <2>1 DEF EliteCopied
<1>8. QED
  BY <1>5, <1>6, <1>7 DEF IInv

\* The first NumberElite of the sorted indices name an elite.
LEMMA EndEliteKeeps == ASSUME IInv, EndElite PROVE IInv'
<1> DEFINE chosen == [i \in 1 .. NumberElite |-> indices[i]]
<1>1. /\ phase = "elite" /\ phase' = "breed" /\ indices' = <<>> /\ Len(new_pop) = NumberElite
      /\ UNCHANGED <<class, pop, fitness, new_pop, selection, observed>>
  BY DEF EndElite
<1>2. /\ DOMAIN pop = 1 .. PopSize /\ DOMAIN fitness = 1 .. PopSize
      /\ PopSize \in Nat /\ NumberElite \in 0 .. PopSize
  BY Types DEF IInv
<1>3. /\ indices \in [1 .. PopSize -> 1 .. PopSize]
      /\ \A i, j \in 1 .. PopSize : i # j => indices[i] # indices[j]
      /\ \A k \in 1 .. PopSize : \E i \in 1 .. PopSize : indices[i] = k
      /\ \A i, j \in 1 .. PopSize : i < j => ~ Fitter(fitness[indices[j]], fitness[indices[i]])
  BY <1>1, <1>2 DEF IInv, TypeOK, Sorted
<1>4. chosen \in [1 .. NumberElite -> DOMAIN pop]
  BY <1>2, <1>3
<1>5. \A i, j \in 1 .. NumberElite : i # j => chosen[i] # chosen[j]
  BY <1>2, <1>3
<1>6. \A i \in 1 .. NumberElite : new_pop[i] = pop[chosen[i]]
  BY <1>1 DEF IInv, EliteCopied
<1>7. ASSUME NEW k \in DOMAIN pop, \A i \in 1 .. NumberElite : chosen[i] # k,
             NEW i \in 1 .. NumberElite
      PROVE  ~ Promise!Better(fitness[k], fitness[chosen[i]])
  <2>1. PICK j \in 1 .. PopSize : indices[j] = k
    BY <1>2, <1>3
  <2>2. i < j /\ i \in 1 .. PopSize
    BY <1>2, <1>7, <2>1
  <2>3. ~ Fitter(fitness[k], fitness[chosen[i]])
    BY <1>3, <2>1, <2>2
  <2>4. QED
    BY <2>3 DEF Fitter, Less, Promise!Better
<1>8. Promise!Elite(new_pop)
  <2> HIDE DEF chosen
  <2> QED
    BY <1>4, <1>5, <1>6, <1>7 DEF Promise!Elite
<1>9. TypeOK'
  BY <1>1 DEF IInv, TypeOK
<1>10. PopulationSizeKept'
  BY <1>1 DEF IInv, PopulationSizeKept
<1>11. EliteCopied'
  <2>1. Promise!Elite(new_pop)'
    BY <1>1, <1>8 DEF Promise!Elite
  <2>2. QED
    BY <1>1, <1>2, <2>1 DEF EliteCopied
<1>12. QED
  BY <1>9, <1>10, <1>11 DEF IInv

\* An elite stays one when individuals are appended.
LEMMA EliteExtended ==
  ASSUME NEW old, NEW new, Promise!Elite(old), NEW n, n >= NumberElite, n \in Nat,
         \A i \in 1 .. n : new[i] = old[i]
  PROVE  Promise!Elite(new)
<1>1. \A i \in 1 .. NumberElite : new[i] = old[i]
  BY PipelineAssumption
<1>2. PICK chosen \in [1 .. NumberElite -> DOMAIN pop] :
        /\ \A i, j \in 1 .. NumberElite : i # j => chosen[i] # chosen[j]
        /\ \A i \in 1 .. NumberElite : old[i] = pop[chosen[i]]
        /\ \A k \in DOMAIN pop : (\A i \in 1 .. NumberElite : chosen[i] # k) =>
             \A i \in 1 .. NumberElite : ~ Promise!Better(fitness[k], fitness[chosen[i]])
  BY DEF Promise!Elite
<1>3. \A i \in 1 .. NumberElite : new[i] = pop[chosen[i]]
  BY <1>1, <1>2
<1>4. QED
  BY <1>2, <1>3 DEF Promise!Elite

\* The effect of an operation on the invariant, whichever step performs it.
LEMMA OperateKeeps ==
  ASSUME IInv, phase \in {"breed", "crossover"}, Len(new_pop) < PopSize,
         NEW choice \in {"mutation", "crossover", "reproduction"},
         NEW sel, sel[1] \in DOMAIN pop, Operate(choice, sel),
         phase' = "breed", selection' = <<>>,
         UNCHANGED <<class, pop, fitness, indices>>
  PROVE  IInv'
<1>1. /\ new_pop' \in Seq(Genome) /\ Len(new_pop') \in Len(new_pop) + 1 .. PopSize
      /\ \A i \in 1 .. Len(new_pop) : new_pop'[i] = new_pop[i]
  BY Operated
<1>2. Len(new_pop) \in Nat /\ PopSize \in Nat /\ NumberElite \in Nat
  BY Types DEF IInv
<1>3. TypeOK'
  BY <1>1 DEF IInv, TypeOK
<1>4. PopulationSizeKept'
  BY <1>1, <1>2 DEF IInv, PopulationSizeKept
<1>5. EliteCopied'
  <2>1. Promise!Elite(new_pop) /\ Len(new_pop) >= NumberElite
    BY DEF IInv, EliteCopied
  <2>2. Promise!Elite(new_pop')
    BY <1>1, <1>2, <2>1, EliteExtended
  <2>3. Promise!Elite(new_pop)'
    BY <2>2 DEF Promise!Elite
  <2>4. QED
    BY <1>1, <1>2, <2>1, <2>3 DEF EliteCopied
<1>6. QED
  BY <1>3, <1>4, <1>5 DEF IInv

\* Mutation and reproduction select one individual.
LEMMA BreedKeeps ==
  ASSUME IInv, NEW choice \in {"mutation", "reproduction"}, Breed(choice)
  PROVE  IInv'
<1>1. PICK i \in Selected : Operate(choice, <<i>>)
  BY DEF Breed
<1>2. <<i>>[1] \in DOMAIN pop
  BY <1>1, SelectedInPop
<1>3. /\ phase = "breed" /\ Len(new_pop) < PopSize /\ selection = <<>>
      /\ UNCHANGED <<class, pop, fitness, phase, indices, selection>>
  BY DEF Breed, IInv, TypeOK
<1>4. QED
  BY <1>1, <1>2, <1>3, OperateKeeps

\* A crossover works on the two individuals it has selected.
LEMMA CrossKeeps == ASSUME IInv, Cross PROVE IInv'
<1>1. /\ phase = "crossover" /\ phase' = "breed" /\ selection' = <<>>
      /\ Operate("crossover", selection) /\ UNCHANGED <<class, pop, fitness, indices>>
  BY DEF Cross
<1>2. selection[1] \in DOMAIN pop /\ Len(new_pop) < PopSize
  BY <1>1 DEF IInv, TypeOK, PopulationSizeKept
<1>3. QED
  BY <1>1, <1>2, OperateKeeps

\* The crossover selects.
LEMMA SelectKeeps == ASSUME IInv, SelectFirst \/ SelectSecond PROVE IInv'
<1>1. /\ phase \in {"breed", "crossover"} /\ phase' = "crossover" /\ Len(new_pop) < PopSize
      /\ UNCHANGED <<class, pop, fitness, indices, new_pop, observed>>
  BY DEF SelectFirst, SelectSecond, IInv, PopulationSizeKept
<1>2. selection' \in [1 .. 2 -> DOMAIN pop]
  <2>1. ASSUME NEW i \in DOMAIN pop, NEW j \in DOMAIN pop PROVE <<i, j>> \in [1 .. 2 -> DOMAIN pop]
    OBVIOUS
  <2>2. CASE SelectFirst
    BY <2>1, <2>2, SelectedInPop DEF SelectFirst
  <2>3. CASE SelectSecond
    <3>1. selection[1] \in DOMAIN pop
      BY <2>3 DEF SelectSecond, IInv, TypeOK
    <3>2. QED
      BY <2>1, <2>3, <3>1, SelectedInPop DEF SelectSecond
  <2>4. QED
    BY <2>2, <2>3
<1>3. TypeOK'
  BY <1>1, <1>2 DEF IInv, TypeOK
<1>4. PopulationSizeKept'
  BY <1>1 DEF IInv, PopulationSizeKept
<1>5. EliteCopied'
  BY <1>1 DEF IInv, EliteCopied, Promise!Elite
<1>6. QED
  BY <1>3, <1>4, <1>5 DEF IInv

\* The new population takes the place of the old one.
LEMMA ReplaceKeeps == ASSUME IInv, Replace PROVE IInv'
<1>1. /\ phase = "breed" /\ phase' = "idle" /\ pop' = new_pop /\ new_pop' = <<>>
      /\ UNCHANGED <<class, fitness, indices, selection>>
      /\ Len(new_pop) = PopSize /\ PopSize \in Nat
  BY Types DEF Replace, IInv
<1>2. DOMAIN pop' = DOMAIN pop /\ <<>> \in Seq(Genome) /\ Len(<<>>) = 0
  BY <1>1, Types DEF IInv
<1>3. TypeOK'
  BY <1>1, <1>2 DEF IInv, TypeOK
<1>4. PopulationSizeKept' /\ EliteCopied'
  BY <1>1, <1>2 DEF PopulationSizeKept, EliteCopied
<1>5. QED
  BY <1>3, <1>4 DEF IInv

\* One step of the user or of a generation.
LEMMA InvNext == IInv /\ [Next]_vars => IInv'
<1>1. ASSUME IInv, UNCHANGED vars PROVE IInv'
  BY <1>1 DEF vars, IInv, TypeOK, PopulationSizeKept, EliteCopied, Promise!Elite
<1>2. QED
  BY <1>1, EvaluateKeeps, BeginKeeps, CloneKeeps, EndEliteKeeps, BreedKeeps, SelectKeeps,
     CrossKeeps, ReplaceKeeps DEF Next, InGeneration

\* The local data of next_generation is consistent and names individuals of the
\* population only.
THEOREM TypeCorrect == Spec => []TypeOK
<1>1. IInv => TypeOK
  BY DEF IInv
<1>2. QED
  BY InvInit, InvNext, <1>1, PTL DEF Spec

\* Neither pipeline ever has more individuals than it started with, and a finished
\* generation has as many.
THEOREM SizeKept == Spec => []PopulationSizeKept
<1>1. IInv => PopulationSizeKept
  BY DEF IInv
<1>2. QED
  BY InvInit, InvNext, <1>1, PTL DEF Spec

-----------------------------------------------------------------------------
\* What a report has to say about a step that adds to the new population.
Reports(in, out, choice) ==
  /\ out = [i \in 1 .. Len(new_pop') - Len(new_pop) |-> Len(new_pop) + i]
  /\ ToSet(in) \subseteq DOMAIN pop
  /\ Len(in) = Cardinality(ToSet(in))
  /\ choice = "elite" => new_pop'[out[1]] = pop[in[1]]
  /\ choice = "reproduction" => new_pop'[out[1]] = Transform[pop[in[1]]]

\* The positions of one individual.
LEMMA OneParent ==
  ASSUME NEW S, NEW i \in S
  PROVE  ToSet(<<i>>) \subseteq S /\ Len(<<i>>) = Cardinality(ToSet(<<i>>))
<1>1. ToSet(<<i>>) = {i}
  BY DEF ToSet
<1>2. Cardinality({i}) = 1
  BY FS_Singleton
<1>3. QED
  BY <1>1, <1>2

\* The same for a pair.
LEMMA TwoParents ==
  ASSUME NEW S, NEW s \in [1 .. 2 -> S], s[1] # s[2]
  PROVE  ToSet(s) \subseteq S /\ Len(s) = Cardinality(ToSet(s))
<1>1. ToSet(s) = {s[1]} \cup {s[2]} /\ s[1] \in S /\ s[2] \in S /\ Len(s) = 2
  BY DEF ToSet
<1>2. IsFiniteSet({s[1]}) /\ Cardinality({s[1]}) = 1
  BY FS_Singleton
<1>3. Cardinality({s[1]} \cup {s[2]}) = 1 + 1
  BY <1>2, FS_AddElement
<1>4. QED
  BY <1>1, <1>3

\* The report on a copied individual.
LEMMA CloneReports ==
  ASSUME IInv, Clone, class = "dynamic"
  PROVE  Reports(observed'[2], observed'[3], observed'[1])
<1> DEFINE n == Len(new_pop)
           index == indices[n + 1]
<1>1. /\ n \in Nat /\ n < PopSize /\ PopSize \in Nat /\ n + 1 \in 1 .. PopSize
      /\ new_pop \in Seq(Genome) /\ DOMAIN pop = 1 .. PopSize
  BY Types DEF Clone, IInv, TypeOK
<1>2. /\ new_pop' = Append(new_pop, pop[index])
      /\ observed' = <<"elite", <<index>>, <<n + 1>>>>
  BY DEF Clone, Observe
<1>3. index \in DOMAIN pop
  BY <1>1, Types DEF Clone, IInv, TypeOK, Sorted
<1>4. Len(new_pop') = n + 1 /\ new_pop'[n + 1] = pop[index]
  BY <1>1, <1>2
<1>5. <<n + 1>> = [i \in 1 .. 1 |-> n + i]
  BY <1>1
<1> HIDE DEF index
<1>6. ToSet(<<index>>) \subseteq DOMAIN pop /\ Len(<<index>>) = Cardinality(ToSet(<<index>>))
  BY <1>3, OneParent
<1>7. Len(new_pop') - n = 1
  BY <1>1, <1>4
<1>8. QED
  BY <1>2, <1>4, <1>5, <1>6, <1>7 DEF Reports

\* The report on an operation.
LEMMA OperateReports ==
  ASSUME IInv, class = "dynamic", Len(new_pop) < PopSize,
         NEW choice \in {"mutation", "crossover", "reproduction"},
         NEW sel, sel[1] \in DOMAIN pop, Operate(choice, sel),
         ToSet(sel) \subseteq DOMAIN pop, Len(sel) = Cardinality(ToSet(sel))
  PROVE  Reports(observed'[2], observed'[3], observed'[1])
<1> DEFINE n == Len(new_pop)
           out == [i \in 1 .. Len(new_pop') - n |-> n + i]
<1>1. /\ Len(new_pop') \in n + 1 .. PopSize
      /\ observed' = <<choice, sel, out>>
      /\ choice = "reproduction" => new_pop'[n + 1] = Transform[pop[sel[1]]]
  BY Operated
<1>2. n \in Nat /\ PopSize \in Nat
  BY Types DEF IInv
<1>3. out[1] = n + 1
  BY <1>1, <1>2
<1> HIDE DEF out
<1>4. observed'[1] = choice /\ observed'[2] = sel /\ observed'[3] = out
  BY <1>1
<1>5. QED
  BY <1>1, <1>3, <1>4 DEF Reports, out

\* Whoever adds to the new population reports it.
LEMMA ObserverStep ==
  ASSUME IInv, [Next]_vars, class = "dynamic", new_pop' # <<>>, new_pop' # new_pop
  PROVE  Reports(observed'[2], observed'[3], observed'[1])
<1>1. CASE Clone
  BY <1>1, CloneReports
<1>2. ASSUME NEW choice \in {"mutation", "reproduction"}, Breed(choice)
      PROVE  Reports(observed'[2], observed'[3], observed'[1])
  <2>1. PICK i \in Selected : Operate(choice, <<i>>)
    BY <1>2 DEF Breed
  <2>2. Len(new_pop) < PopSize /\ i \in DOMAIN pop /\ <<i>>[1] = i
    BY <1>2, <2>1, SelectedInPop DEF Breed
  <2>3. ToSet(<<i>>) \subseteq DOMAIN pop /\ Len(<<i>>) = Cardinality(ToSet(<<i>>))
    BY <2>2, OneParent
  <2>4. QED
    BY <2>1, <2>2, <2>3, OperateReports
<1>3. CASE Cross
  <2>1. /\ selection \in [1 .. 2 -> DOMAIN pop] /\ selection[1] # selection[2]
        /\ Len(new_pop) < PopSize /\ Operate("crossover", selection)
    BY <1>3 DEF Cross, IInv, TypeOK, PopulationSizeKept
  <2>2. ToSet(selection) \subseteq DOMAIN pop /\ Len(selection) = Cardinality(ToSet(selection))
    BY <2>1, TwoParents
  <2>3. selection[1] \in DOMAIN pop
    BY <2>1
  <2>4. QED
    BY <2>1, <2>2, <2>3, OperateReports
<1>4. CASE Evaluate \/ Begin \/ EndElite \/ SelectFirst \/ SelectSecond \/ Replace \/ UNCHANGED vars
  BY <1>4 DEF Evaluate, Begin, EndElite, SelectFirst, SelectSecond, Replace, vars
<1>5. QED
  BY <1>1, <1>2, <1>3, <1>4 DEF Next, InGeneration

\* The observer of dynamic_pipeline is told of each individual once, with its final
\* position and its parents.
THEOREM ObserverTold == Spec => ObserverAccounts
<1>1. IInv /\ [Next]_vars =>
        [class = "dynamic" /\ new_pop' # <<>> /\ new_pop' # new_pop =>
           LET in == observed'[2]
               out == observed'[3]
           IN  /\ out = [i \in 1 .. Len(new_pop') - Len(new_pop) |-> Len(new_pop) + i]
               /\ ToSet(in) \subseteq DOMAIN pop
               /\ Len(in) = Cardinality(ToSet(in))
               /\ observed'[1] = "elite" => new_pop'[out[1]] = pop[in[1]]
               /\ observed'[1] = "reproduction" =>
                    new_pop'[out[1]] = Transform[pop[in[1]]]]_vars
  BY ObserverStep DEF Reports
<1>2. QED
  BY InvInit, InvNext, <1>1, PTL DEF Spec, ObserverAccounts

-----------------------------------------------------------------------------
\* The steps of a generation, seen without its local data.
LEMMA Evolves == ASSUME IInv, [Next]_vars PROVE [Promise!Next]_(Promise!vars)
<1>1. CASE Evaluate
  BY <1>1 DEF Evaluate, Promise!Next, Promise!Evaluate
<1>2. CASE Replace
  <2>1. Promise!Elite(new_pop) /\ pop' = new_pop /\ UNCHANGED fitness
        /\ new_pop \in Seq(Genome) /\ Len(new_pop) = PopSize /\ Len(pop) = PopSize
    BY <1>2, Types DEF Replace, IInv, EliteCopied, TypeOK, PopulationSizeKept
  <2>2. Promise!Generation
    BY <2>1 DEF Promise!Generation
  <2>3. QED
    BY <2>2 DEF Promise!Next
<1>3. CASE ~ Evaluate /\ ~ Replace
  BY <1>3 DEF Next, InGeneration, Begin, Clone, EndElite, Breed, SelectFirst, SelectSecond,
              Cross, vars, Promise!vars
<1>4. QED
  BY <1>1, <1>2, <1>3

\* Both pipelines keep what the tutorial promises: same size, and the elite on top.
THEOREM Refinement == Spec => ImplementsEvolution
<1>1. Init => Promise!Init
  <2> SUFFICES ASSUME Init PROVE Promise!Init
    OBVIOUS
  <2>1. pop \in Seq(Genome) /\ DOMAIN pop = 1 .. PopSize
    BY PipelineAssumption DEF Init
  <2>2. QED
    BY <2>1 DEF Init, Promise!Init
<1>2. IInv /\ [Next]_vars => [Promise!Next]_(Promise!vars)
  BY Evolves
<1>3. QED
  BY InvInit, InvNext, <1>1, <1>2, PTL DEF Spec, ImplementsEvolution, Promise!Spec

\* With an elite of evaluated individuals the best fitness never gets worse.
LEMMA BestStep ==
  ASSUME IInv, [Next]_vars, phase = "breed", phase' = "idle", NumberElite > 0, Current,
         NEW i \in DOMAIN pop
  PROVE  \E j \in DOMAIN pop' : ~ Fitter(Fit[pop[i]], Fit[pop'[j]])
<1>1. Replace
  BY DEF Next, InGeneration, Evaluate, Begin, Clone, EndElite, Breed, SelectFirst, SelectSecond,
         Cross, vars
<1>2. /\ Promise!Elite(new_pop) /\ pop' = new_pop /\ DOMAIN pop' = 1 .. PopSize
      /\ DOMAIN pop = 1 .. PopSize /\ PopSize \in Nat /\ NumberElite \in 1 .. PopSize
      /\ \A k \in DOMAIN pop : fitness[k] = Fit[pop[k]]
      /\ \A k \in DOMAIN pop : Fit[pop[k]] \in Int \cup {Broken}
  <2>1. Len(new_pop) = PopSize /\ pop' = new_pop /\ Promise!Elite(new_pop)
    BY <1>1, Types DEF Replace, IInv, EliteCopied
  <2>2. \A k \in DOMAIN pop : fitness[k] = Fit[pop[k]]
    BY DEF Current
  <2>3. QED
    BY <2>1, <2>2, Types, PipelineAssumption DEF IInv
<1>3. PICK chosen \in [1 .. NumberElite -> DOMAIN pop] :
        /\ \A k \in 1 .. NumberElite : new_pop[k] = pop[chosen[k]]
        /\ \A k \in DOMAIN pop : (\A m \in 1 .. NumberElite : chosen[m] # k) =>
             \A m \in 1 .. NumberElite : ~ Promise!Better(fitness[k], fitness[chosen[m]])
  BY <1>2 DEF Promise!Elite
<1>4. CASE \E m \in 1 .. NumberElite : chosen[m] = i
  <2>1. PICK m \in 1 .. NumberElite : chosen[m] = i
    BY <1>4
  <2>2. m \in DOMAIN pop' /\ pop'[m] = pop[i]
    BY <1>2, <1>3, <2>1
  <2>3. ~ Fitter(Fit[pop[i]], Fit[pop[i]])
    BY <1>2, PipelineAssumption DEF Fitter, Less
  <2>4. QED
    BY <2>2, <2>3
<1>5. CASE \A m \in 1 .. NumberElite : chosen[m] # i
  <2>1. 1 \in 1 .. NumberElite /\ 1 \in DOMAIN pop' /\ chosen[1] \in DOMAIN pop
    BY <1>2, <1>3
  <2>2. ~ Promise!Better(Fit[pop[i]], Fit[pop[chosen[1]]])
    BY <1>2, <1>3, <1>5, <2>1
  <2>3. pop'[1] = pop[chosen[1]]
    BY <1>2, <1>3, <2>1
  <2>4. QED
    BY <2>1, <2>2, <2>3 DEF Promise!Better, Fitter, Less
<1>6. QED
  BY <1>4, <1>5

\* The same as a property of the behaviours: evolution with an elite is monotonic.
THEOREM BestKept == Spec => BestNeverLost
<1>1. IInv /\ [Next]_vars =>
        [phase = "breed" /\ phase' = "idle" /\ NumberElite > 0 /\ Current =>
           \A i \in DOMAIN pop : \E j \in DOMAIN pop' : ~ Fitter(Fit[pop[i]], Fit[pop'[j]])]_vars
  BY BestStep
<1>2. QED
  BY InvInit, InvNext, <1>1, PTL DEF Spec, BestNeverLost
=============================================================================
