------------------------------- MODULE Evolution -------------------------------
(***************************************************************************)
(* What a pipeline promises: a generation replaces the population by one of *)
(* the same size whose first NumberElite individuals are unchanged copies   *)
(* of individuals no other one was fitter than, by the fitness it was given *)
(* (doc/tutorial_artificial_ant.qbk: "how many of the top individual should *)
(* directly cloned to the next generation, without changing").              *)
(***************************************************************************)
EXTENDS Integers, Sequences

CONSTANTS
  Genome,       \* what an individual is
  Fit,          \* the fitness of a genome, smaller is fitter
  Broken,       \* the fitness that is not finite
  NumberElite

VARIABLES pop, fitness

vars == <<pop, fitness>>

\* Any finite fitness is better than one that is not.
Better(f, g) == f # Broken /\ (g = Broken \/ f < g)

\* Copies of NumberElite individuals such that none left out is fitter.
Elite(new) ==
  \E chosen \in [1 .. NumberElite -> DOMAIN pop] :
    /\ \A i, j \in 1 .. NumberElite : i # j => chosen[i] # chosen[j]
    /\ \A i \in 1 .. NumberElite : new[i] = pop[chosen[i]]
    /\ \A k \in DOMAIN pop : (\A i \in 1 .. NumberElite : chosen[i] # k) =>
         \A i \in 1 .. NumberElite : ~ Better(fitness[k], fitness[chosen[i]])

Init ==
  /\ pop \in Seq(Genome)
  /\ fitness = [i \in DOMAIN pop |-> Fit[pop[i]]]

Evaluate ==
  /\ fitness' = [i \in DOMAIN pop |-> Fit[pop[i]]]
  /\ UNCHANGED pop

Generation ==
  /\ pop' \in Seq(Genome) /\ Len(pop') = Len(pop)
  /\ Elite(pop')
  /\ UNCHANGED fitness

Next == Evaluate \/ Generation

Spec == Init /\ [][Next]_vars
=============================================================================
