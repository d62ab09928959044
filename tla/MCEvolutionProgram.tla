-------------------------- MODULE MCEvolutionProgram --------------------------
(***************************************************************************)
(* EvolutionProgram for TLC: an exact formula, a poor one and one whose     *)
(* chi2 is not a number; three ants on a board of six fields.               *)
(***************************************************************************)
EXTENDS AntMeaning

CONSTANTS Exact, Poor, Odd, NaN

MCFormula == {Exact, Poor, Odd}
MCChi2 == (Exact :> 0) @@ (Poor :> 1) @@ (Odd :> NaN)

MCAnts ==
  {Leaf("m"), Term("p2", <<Leaf("l"), Leaf("m")>>), Term("if", <<Leaf("m"), Leaf("r")>>)}

MCAntWorld == Simulation(3, 2, {1, 4}, <<0, 0>>, East, 3)

\* The longest range may be either, have no step at all, or miss its end; in tenths,
\* 0.1 to 0.3 loses its end up and down, where 0.0 to 0.2 does not.
MCArguments ==
  {<<>>,
   [generation_max |-> frange(1, 2, 1, FALSE)],
   [generation_max |-> frange(1, 2, 2, FALSE), number_elite |-> frange(0, 2, 1, FALSE)],
   [mutation_rate |-> frange(1, 3, 1, TRUE)],
   [mutation_rate |-> frange(0, 2, 1, FALSE), crossover_rate |-> frange(3, 1, -1, TRUE)]}
=============================================================================
