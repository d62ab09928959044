--------------------------- MODULE EvolutionProgram ---------------------------
(***************************************************************************)
(* The programs of examples/ and performance/ that evolve a population: a   *)
(* population of random individuals, then generations of a pipeline and     *)
(* evaluations of the fitness in turn, until a limit or a fitness is        *)
(* reached, and a winner.  A generation is a step that keeps what Evolution *)
(* promises; the fitness of an ant is that of a run of AntSimulation.       *)
(*                                                                         *)
(* What tells the programs apart is in their records.  Numbers of           *)
(* generations, of the elite, of tries and of runs are cut off at bounds.   *)
(***************************************************************************)
EXTENDS AntSimulation, SequencesExt

CONSTANTS
  Formula, Chi2,      \* formulas, and get_chi2 of each of them
  Broken,             \* chi2 is not a number
  Worst,              \* the fitness 1.0 of such a formula
  Ants, AntWorld,     \* the trees and the simulation of the ants' programs
  Arguments,          \* what a user may call artificial_ant_plots with
  PopSize,
  MaxGenerations, MaxElite, MaxTries, MaxRounds   \* bounds

ASSUME ProgramAssumption ==
  /\ Chi2 \in [Formula -> Nat \cup {Broken}] /\ Broken \notin Nat /\ Worst \in Nat
  /\ PopSize \in Nat /\ MaxElite \in 1 .. PopSize
  /\ \A m \in {PopSize, MaxGenerations, MaxTries, MaxRounds} : m \in Nat \ {0}

\* The ants of a program all begin in the same new simulation.
ASSUME WorldAssumption == NewSimulation(AntWorld)

VARIABLES
  program,
  phase,        \* what its main function does next
  pop, fitness,
  at,           \* how many individuals are created, or evaluated
  tries,        \* draws made for a population of different individuals
  generation,
  results,      \* one per run of the algorithm
  ranges, rows, \* the arguments of artificial_ant_plots and the rows it has written
  seen          \* every fitness of the run, for the properties only

vars == <<program, phase, pop, fitness, at, tries, generation, results, ranges, rows, seen, antVars>>

Least(m, n) == IF m < n THEN m ELSE n

-----------------------------------------------------------------------------
(* The programs                                                             *)

symb_reg ==
  [fitness |-> "regression", elite |-> 1, generations |-> 50, loop |-> "for", distinct |-> "no",
   stop |-> "never", winner |-> "sort_indices", rounds |-> 1]

symb_reg_basic_tree == [symb_reg EXCEPT !.generations = 10]

symb_reg_basic_tree_erc == [symb_reg EXCEPT !.generations = 100]

symb_reg_erc == symb_reg

symb_reg_simplify == symb_reg

symbolic_regression == symb_reg

pagie2 == [symb_reg EXCEPT !.generations = 20]

pagie2_intrusive == [symb_reg EXCEPT !.generations = 20]

lorenz == [symb_reg EXCEPT !.fitness = "chi2", !.generations = 2000]

lorenz_multi == [lorenz EXCEPT !.stop = "small"]

lorenz_single == [lorenz_multi EXCEPT !.fitness = "regression", !.rounds = 3]

artificial_ant ==
  [fitness |-> "ant", elite |-> 4, generations |-> 5000, loop |-> "do", distinct |-> "set",
   stop |-> "small", winner |-> "min_element", rounds |-> 1]

artificial_ant_stat ==
  [artificial_ant EXCEPT !.elite = 0, !.generations = 51, !.distinct = "scan", !.rounds = 10000]

\* The arguments replace the elite and the generations row by row.
artificial_ant_plots ==
  [artificial_ant EXCEPT !.elite = 0, !.generations = 500, !.distinct = "no", !.rounds = 2]

artificial_ant_tests == [artificial_ant EXCEPT !.loop = "tests"]

Programs ==
  {symb_reg, symb_reg_basic_tree, symb_reg_basic_tree_erc, symb_reg_erc, symb_reg_simplify,
   symbolic_regression, pagie2, pagie2_intrusive, lorenz, lorenz_multi, lorenz_single,
   artificial_ant, artificial_ant_stat, artificial_ant_plots, artificial_ant_tests}

Rounds == Least(program.rounds, MaxRounds)

-----------------------------------------------------------------------------
(* frange of artificial_ant_plots, and the arguments that matter here       *)

\* Numbers are counted in a unit that makes them whole, tenths for 0.1, 0.2 and so on.
\* The quotient of the doubles may lie below that of the numbers they stand for:
\* (0.3 - 0.1) / 0.1 is 1.9999999999999998.
frange(start, end, step, below) ==
  [start |-> start, end |-> end, step |-> step, below |-> below, iteration |-> 0]

ValueOf(r) == r.start + r.step * r.iteration

\* From start to end in the direction of the steps, and the length of a step.
Span(r) == IF r.step > 0 THEN r.end - r.start ELSE r.start - r.end

Stride(r) == IF r.step > 0 THEN r.step ELSE - r.step

\* A quotient that is not whole is cut off, and so is all of the last step of one that
\* should be whole and lies below.
IterationMax(r) ==
  LET steps == Span(r) \div Stride(r)
  IN  IF r.below /\ steps * Stride(r) = Span(r) THEN steps - 1 ELSE steps

HasNext(r) == r.iteration < IterationMax(r)

MakeStep(r) == IF HasNext(r) THEN [r EXCEPT !.iteration = @ + 1] ELSE r

Defaults ==
  [generation_max |-> frange(500, 500, 1, FALSE), number_elite |-> frange(0, 0, 1, FALSE)]

\* What the user does not give has its default; ranges of any other name only make rows.
AllArguments(given) ==
  [a \in DOMAIN given \cup DOMAIN Defaults |-> IF a \in DOMAIN given THEN given[a] ELSE Defaults[a]]

\* A user gives a range by its ends and a step; a step of 0 is divided by.
ASSUME ArgumentsAssumption ==
  \A given \in Arguments : \A a \in DOMAIN given :
    /\ {given[a].start, given[a].end} \subseteq Int
    /\ given[a].step \in Int \ {0} /\ given[a].below \in BOOLEAN
    /\ given[a] = frange(given[a].start, given[a].end, given[a].step, given[a].below)

Plots == program = artificial_ant_plots

Generations ==
  Least(IF Plots THEN ValueOf(ranges.generation_max) ELSE program.generations, MaxGenerations)

NumberElite == Least(IF Plots THEN ValueOf(ranges.number_elite) ELSE program.elite, MaxElite)

-----------------------------------------------------------------------------
(* Fitness                                                                  *)

\* operator< of the fitness: not true of NaN.
Less(f, g) == f # Broken /\ g # Broken /\ f < g

\* The order of sort_indices.
Fitter(f, g) == Less(f, g) \/ (f # Broken /\ g = Broken)

\* regression_fitness::operator(), and get_chi2 itself.
FormulaFitness(g) == IF program.fitness = "regression" /\ Chi2[g] = Broken THEN Worst ELSE Chi2[g]

Individuals == IF program.fitness = "ant" THEN Ants ELSE Formula

\* std::min_element: the first is only replaced by something less, which nothing is
\* than NaN, and a later NaN never takes its place.
MinElement(f) ==
  IF f[1] = Broken THEN 1
  ELSE CHOOSE k \in DOMAIN f :
         /\ f[k] # Broken
         /\ \A i \in DOMAIN f : ~ Less(f[i], f[k])
         /\ \A i \in 1 .. k - 1 : f[i] = Broken \/ Less(f[k], f[i])

\* Mutant: sorted with < alone.
FirstSortedPlain(f) == {k \in DOMAIN f : \A i \in DOMAIN f : ~ Less(f[i], f[k])}

\* idx[0] of sort_indices, open among equals.
FirstSorted(f) == {k \in DOMAIN f : \A i \in DOMAIN f : ~ Fitter(f[i], f[k])}

Winners == IF program.winner = "min_element" THEN {MinElement(fitness)} ELSE FirstSorted(fitness)

-----------------------------------------------------------------------------
(* artificial_ant_tests: the same program as a tree and as code             *)

TestTree ==
  LET Prog2(a, b) == Term("p2", <<a, b>>)
      Turn(t) == Term("if", <<Leaf("m"), Leaf(t)>>)
  IN  Term("if", <<Leaf("m"), Term("p3", <<Leaf("l"),
        Prog2(Turn("r"), Prog2(Leaf("r"), Prog2(Leaf("l"), Leaf("r")))),
        Prog2(Turn("l"), Leaf("m"))>>)>>)

PaperTree ==
  LET Turn(t) == Term("if", <<Leaf("m"), Leaf(t)>>)
  IN  Term("if", <<Leaf("m"), Term("p3", <<Leaf("r"), Turn("l"), Term("p3", <<Leaf("l"), Turn("r"), Leaf("m")>>)>>)>>)

\* The body of the loop that is written out by hand.
Manual(s0) ==
  IF FoodInFront(s0) THEN Moved(s0)
  ELSE LET s1 == TurnedLeft(s0)
           s2 == IF FoodInFront(s1) THEN Moved(s1) ELSE TurnedRight(s1)
           s3 == TurnedRight(TurnedLeft(TurnedRight(s2)))
           s4 == IF FoodInFront(s3) THEN Moved(s3) ELSE TurnedLeft(s3)
       IN  Moved(s4)

ManualRound ==
  /\ phase = "manual" /\ ~ IsFinish(sim)
  /\ sim' = Manual(sim)
  /\ UNCHANGED <<program, phase, pop, fitness, at, tries, generation, results, ranges, rows, seen, todo>>

Testing == program.loop = "tests"

\* The three simulations of the test, each in a world of its own.
EndTest ==
  /\ Testing /\ phase \in {"simulate", "manual"} /\ Finished
  /\ results' = Append(results, Score(sim))
  /\ sim' = SantaFe
  /\ phase' = <<"manual", "simulate", "done">>[Len(results) + 1]
  /\ UNCHANGED <<program, pop, fitness, at, tries, generation, ranges, rows, seen, todo>>

-----------------------------------------------------------------------------
Init ==
  /\ program \in Programs
  /\ phase = IF Testing THEN "simulate" ELSE "create"
  /\ sim = IF Testing THEN SantaFe ELSE AntWorld
  /\ todo = <<>>
  /\ pop = <<>> /\ fitness = <<>> /\ at = 0 /\ tries = 0 /\ generation = 0
  /\ results = <<>> /\ rows = 0 /\ seen = {}
  /\ IF Plots THEN \E given \in Arguments : ranges = AllArguments(given) ELSE ranges = <<>>

\* Mutant: the first population is taken as it comes.
IsAnything(f) == f = f

IsNumber(f) == f # Broken

\* The individual at the next position is generated and, in the loops of the
\* regressions, evaluated; the programs lorenz and lorenz_multi stay at the position
\* until the fitness is a number.
Draw(g) ==
  /\ phase = "create" /\ at < PopSize /\ program.distinct = "no"
  /\ pop' = Append(SubSeq(pop, 1, at), g)
  /\ IF program.loop = "for"
     THEN LET f == FormulaFitness(g)
              kept == program.fitness = "chi2" => IsNumber(f)
          IN  /\ fitness' = Append(SubSeq(fitness, 1, at), f)
              /\ at' = IF kept THEN at + 1 ELSE at
              /\ seen' = IF kept THEN seen \cup {f} ELSE seen
     ELSE at' = at + 1 /\ UNCHANGED <<fitness, seen>>
  /\ UNCHANGED <<program, phase, tries, generation, results, ranges, rows, antVars>>

\* artificial_ant collects different individuals in a set and limits the draws it
\* makes for all of them, artificial_ant_stat compares with those it has and limits
\* the draws for each.
TryLimit == IF program.distinct = "set" THEN 3 * PopSize ELSE Least(999, MaxTries)

\* Mutant: counts the draws and does not compare.
DrawAnything(g) ==
  /\ phase = "create" /\ at < PopSize /\ program.distinct # "no"
  /\ tries < TryLimit
  /\ pop' = Append(pop, g) /\ at' = at + 1 /\ tries' = tries + 1
  /\ UNCHANGED <<program, phase, fitness, generation, results, ranges, rows, seen, antVars>>

DrawDistinct(g) ==
  /\ phase = "create" /\ at < PopSize /\ program.distinct # "no"
  /\ tries < TryLimit
  /\ IF g \in ToSet(pop)
     THEN tries' = tries + 1 /\ UNCHANGED <<pop, at>>
     ELSE /\ pop' = Append(pop, g) /\ at' = at + 1
          /\ tries' = IF program.distinct = "set" THEN tries + 1 ELSE 0
  /\ UNCHANGED <<program, phase, fitness, generation, results, ranges, rows, seen, antVars>>

\* Mutant: the limit is asked for one draw after the last.
GiveUpLate ==
  /\ phase = "create" /\ at < PopSize /\ program.distinct # "no"
  /\ tries > TryLimit
  /\ phase' = "thrown"
  /\ UNCHANGED <<program, pop, fitness, at, tries, generation, results, ranges, rows, seen, antVars>>

GiveUp ==
  /\ phase = "create" /\ at < PopSize /\ program.distinct # "no"
  /\ tries = TryLimit
  /\ phase' = "thrown"
  /\ UNCHANGED <<program, pop, fitness, at, tries, generation, results, ranges, rows, seen, antVars>>

\* The set hands its elements over in an order of its own.
Created ==
  /\ phase = "create" /\ at = PopSize
  /\ at' = 0
  /\ IF program.loop = "for"
     THEN phase' = "evolve" /\ UNCHANGED <<pop, fitness>>
     ELSE /\ phase' = "evaluate" /\ fitness' = [i \in 1 .. PopSize |-> 0]
          /\ IF program.distinct = "set" THEN pop' \in SetToSeqs(ToSet(pop)) ELSE UNCHANGED pop
  /\ UNCHANGED <<program, tries, generation, results, ranges, rows, seen, antVars>>

-----------------------------------------------------------------------------
Rate(f) ==
  /\ fitness' = [fitness EXCEPT ![at + 1] = f]
  /\ at' = at + 1 /\ seen' = seen \cup {f}
  /\ UNCHANGED <<program, pop, tries, generation, results, ranges, rows, todo>>

EvaluateFormula ==
  /\ phase = "evaluate" /\ at < PopSize /\ program.fitness # "ant"
  /\ Rate(FormulaFitness(pop[at + 1]))
  /\ UNCHANGED <<phase, sim>>

StartAnt ==
  /\ phase = "evaluate" /\ at < PopSize /\ program.fitness = "ant"
  /\ phase' = "simulate"
  /\ UNCHANGED <<program, pop, fitness, at, tries, generation, results, ranges, rows, seen, antVars>>

Tree == IF Testing THEN <<TestTree, TestTree, PaperTree>>[Len(results) + 1] ELSE pop[at + 1]

AntStep ==
  /\ phase = "simulate"
  /\ Evaluate(Tree) \/ Step
  /\ UNCHANGED <<program, phase, pop, fitness, at, tries, generation, results, ranges, rows, seen>>

\* Mutant: the evaluator is handed the simulation itself.
EndAntByReference ==
  /\ phase = "simulate" /\ ~ Testing /\ Finished
  /\ Rate(Score(sim))
  /\ phase' = "evaluate" /\ UNCHANGED sim

\* The evaluator worked on a copy of the simulation.
EndAnt ==
  /\ phase = "simulate" /\ ~ Testing /\ Finished
  /\ Rate(Score(sim))
  /\ phase' = "evaluate" /\ sim' = AntWorld

-----------------------------------------------------------------------------
\* artificial_ant stops at fitness 0, lorenz_multi and lorenz_single below 1.0e-7.
IsSmall(f) == f = 0

Check ==
  /\ phase = "evaluate" /\ at = PopSize
  /\ generation' = generation + 1 /\ at' = 0
  /\ phase' = IF \/ generation + 1 >= Generations
                 \/ program.stop = "small" /\ IsSmall(fitness[MinElement(fitness)])
              THEN "finish" ELSE "evolve"
  /\ UNCHANGED <<program, pop, fitness, tries, results, ranges, rows, seen, antVars>>

Promise(n) == INSTANCE Evolution WITH Genome <- Formula \cup Ants, Fit <- Chi2, NumberElite <- n

NextGeneration ==
  /\ phase = "evolve"
  /\ \E new \in [1 .. PopSize -> Individuals], n \in 0 .. MaxElite :
       n = NumberElite /\ Promise(n)!Elite(new) /\ pop' = new
  /\ phase' = "evaluate" /\ at' = 0
  /\ UNCHANGED <<program, fitness, tries, generation, results, ranges, rows, seen, antVars>>

\* A new run of the algorithm begins with a new population.
Again ==
  /\ phase' = "create"
  /\ pop' = <<>> /\ fitness' = <<>> /\ tries' = 0 /\ generation' = 0 /\ seen' = {}

Finish ==
  /\ phase = "finish"
  /\ \E k \in Winners : results' = Append(results, [generation |-> generation, best |-> fitness[k]])
  /\ IF Len(results) + 1 < Rounds THEN Again
     ELSE /\ phase' = IF Plots THEN "row" ELSE "done"
          /\ UNCHANGED <<pop, fitness, tries, generation, seen>>
  /\ UNCHANGED <<program, at, ranges, rows, antVars>>

\* Mutant: asks whether there is more to come when all ranges have been moved.
WriteRowShort ==
  /\ phase = "row"
  /\ rows' = rows + 1 /\ results' = <<>>
  /\ ranges' = [a \in DOMAIN ranges |-> MakeStep(ranges[a])]
  /\ IF \E a \in DOMAIN ranges : HasNext(ranges'[a]) THEN Again
     ELSE phase' = "done" /\ UNCHANGED <<pop, fitness, tries, generation, seen>>
  /\ UNCHANGED <<program, at, antVars>>

\* A row is written for the runs with the same arguments, and every range that has a
\* next value takes it.
WriteRow ==
  /\ phase = "row"
  /\ rows' = rows + 1 /\ results' = <<>>
  /\ ranges' = [a \in DOMAIN ranges |-> MakeStep(ranges[a])]
  /\ IF \E a \in DOMAIN ranges : HasNext(ranges[a]) THEN Again
     ELSE phase' = "done" /\ UNCHANGED <<pop, fitness, tries, generation, seen>>
  /\ UNCHANGED <<program, at, antVars>>

Next ==
  \/ \E g \in Individuals : Draw(g) \/ DrawDistinct(g)
  \/ GiveUp \/ Created
  \/ EvaluateFormula \/ StartAnt \/ AntStep \/ EndAnt
  \/ Check \/ NextGeneration \/ Finish \/ WriteRow
  \/ ManualRound \/ EndTest

\* One thread goes on, and a generator that can draw a usable individual does not
\* fail to for ever.
Spec ==
  /\ Init /\ [][Next]_vars
  /\ WF_vars(Next)
  /\ SF_vars((\E g \in Individuals : Draw(g)) /\ at' # at)

-----------------------------------------------------------------------------
\* The programs that stop early have not missed an individual that is good enough.
\* std::min_element would with a fitness at the front that is not a number; that
\* there is none takes the test of the first population and the elite of the others.
StopNotMissed ==
  phase = "evolve" /\ generation > 0 /\ program.stop = "small" =>
    \A i \in DOMAIN fitness : ~ IsSmall(fitness[i])

\* With an elite the result of a run is as good as every individual the run has ever
\* kept, its first population included.
WinnerIsBest ==
  phase = "finish" /\ NumberElite > 0 =>
    \A k \in Winners : \A f \in seen : ~ Fitter(f, fitness[k])

\* No run is left out of the histogram of artificial_ant_stat, which has a place for
\* 0 .. generation_max, and a run ends before its last generation only with a result.
\* artificial_ant and artificial_ant_stat begin with individuals that are all different.
RunsAccounted ==
  /\ ~ Testing => \A i \in DOMAIN results :
       /\ results[i].generation \in 1 .. MaxGenerations
       /\ results[i].generation < Generations => program.stop = "small" /\ results[i].best = 0
  /\ program.distinct # "no" /\ phase = "evaluate" /\ generation = 0 => Cardinality(ToSet(pop)) = PopSize

\* The value i steps from the start is one a range comes to: it is not past the end,
\* and at the end itself the quotient is not below what it should be.
Takes(r, i) ==
  LET value == r.start + i * r.step
  IN  /\ IF r.step > 0 THEN value <= r.end ELSE value >= r.end
      /\ value = r.end => ~ r.below

\* artificial_ant_plots writes rows as long as one of its ranges has a value for them,
\* the first row whatever the ranges are; a range moves with the rows and stays at its
\* last value.  That is the end, or the last before it, or, where doubles divide to
\* less than a whole number of steps, the one before the end.
RowsFollowRanges ==
  Plots =>
    /\ \A a \in DOMAIN ranges :
         LET r == ranges[a]
         IN  /\ r.iteration > 0 => Takes(r, r.iteration)
             /\ r.iteration = rows \/ (r.iteration < rows /\ ~ Takes(r, r.iteration + 1))
    /\ phase = "done" =>
         /\ \A a \in DOMAIN ranges : ~ Takes(ranges[a], rows)
         /\ rows = 1 \/ \E a \in DOMAIN ranges : Takes(ranges[a], rows - 1)

\* doc/tutorial_artificial_ant.qbk: "The ant can only make a max number of actions",
\* and its food counts "in max allowed steps".  The limit is asked for between the
\* evaluations of a tree, and the ant makes all the actions of the one it is in.
StepsLimited == phase = "simulate" => sim.steps <= sim.max_steps

\* The score of a simulation is the food that is left on the trail, and the board
\* shows each piece of it, unless the ant has not left a start with food on it.
FoodAccounted ==
  phase \in {"simulate", "manual"} =>
    LET left == {p \in DOMAIN sim.trail : sim.trail[p]}
        shown == {p \in DOMAIN BoardText(sim) : BoardText(sim)[p] = "0"}
    IN  Score(sim) = Cardinality(left) /\ shown = left \ {sim.pos}

\* i and j are neighbours on a circle of so many.
Beside(i, j, size) == (i + 1) % size = j \/ (j + 1) % size = i

\* A terminal m takes the ant to a field beside the one it was on, across the border
\* too, and nothing else moves it.
MovesOnly ==
  LET p == PosTo2d(sim, sim.pos)
      q == PosTo2d(sim', sim'.pos)
  IN  phase = "simulate" /\ phase' = phase =>
        IF todo # <<>> /\ Head(todo).v = "m"
        THEN \/ p.x = q.x /\ Beside(p.y, q.y, sim.size_y)
             \/ p.y = q.y /\ Beside(p.x, q.x, sim.size_x)
        ELSE p = q

MovesOneField == [][MovesOnly]_vars

\* Every program comes to its end; only those that want different individuals may
\* give up, before they evaluate the first one.
ProgramEnds == <>(phase = "done" \/ (phase = "thrown" /\ program.distinct # "no"))
=============================================================================
