---------------------------- MODULE AntMeaning ----------------------------
(***************************************************************************)
(* What the trees of the ants mean, by recursion over a tree, and the       *)
(* property that compares the steps of EvolutionProgram with that meaning.  *)
(***************************************************************************)
EXTENDS EvolutionProgram

\* What a tree does to a simulation, told by the meaning of its nodes.
RECURSIVE Evaluated(_, _), Scored(_, _)

Evaluated(t, s) ==
  CASE t.v = "m" -> Moved(s)
    [] t.v = "l" -> TurnedLeft(s)
    [] t.v = "r" -> TurnedRight(s)
    [] t.v = "if" -> Evaluated(t.sub[IF FoodInFront(s) THEN 1 ELSE 2], s)
    [] t.v \in {"p2", "p3"} -> FoldLeft(LAMBDA r, c : Evaluated(c, r), s, t.sub)

Scored(t, s) == IF IsFinish(s) THEN Score(s) ELSE Scored(t, Evaluated(t, s))

-----------------------------------------------------------------------------
\* What an evaluation of an individual on its own gives.
FitnessOf(g) == IF program.fitness = "ant" THEN Scored(g, AntWorld) ELSE FormulaFitness(g)

\* Whenever a pipeline is called, and whenever a result is taken, the fitness is that
\* of the individuals in the population now; ants have been simulated step by step,
\* one after another.  The elite, the test for the end and the winner depend on it.
\* The tree of the test eats the same food as the code beside it that does by hand
\* what the tree says.
FitnessFresh ==
  /\ phase \in {"evolve", "finish"} =>
       /\ Len(pop) = PopSize /\ Len(fitness) = PopSize
       /\ \A i \in 1 .. PopSize : fitness[i] = FitnessOf(pop[i])
  /\ Testing /\ Len(results) >= 2 => results[1] = results[2]
=============================================================================
