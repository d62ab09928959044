------------------------------ MODULE MCPipeline ------------------------------
(***************************************************************************)
(* For TLC, the two that make individuals, one in each behaviour: Pipeline, *)
(* with a better and a worse individual and one whose fitness is not a      *)
(* number, which final_transform mends; and the generator of GenerateTree,  *)
(* beside one population that stays as it is.                               *)
(***************************************************************************)
EXTENDS Pipeline, GenerateTree

CONSTANTS Good, Bad, Odd, NaN

MCGenome == {Good, Bad, Odd}
MCFit == (Good :> 1) @@ (Bad :> 2) @@ (Odd :> NaN)
MCTransform == (Good :> Good) @@ (Bad :> Bad) @@ (Odd :> Bad)

VARIABLE subject   \* which of the two is at work

MCInit ==
  /\ Init /\ GenerateInit /\ subject \in {"pipeline", "generator"}
  /\ subject = "generator" => class = "static" /\ \A i \in DOMAIN pop : pop[i] = Good

Generator == subject = "generator" /\ GenerateNext

MCNext ==
  \/ Generator /\ UNCHANGED <<vars, subject>>
  \/ subject = "pipeline" /\ Next /\ UNCHANGED <<generateVars, subject>>

\* The fairness of GenerateSpec and of Spec.
MCSpec ==
  /\ MCInit /\ [][MCNext]_<<vars, generateVars, subject>>
  /\ WF_generateVars(Generator)
  /\ WF_vars(InGeneration)
  /\ SF_vars(SelectSecond /\ selection'[1] # selection'[2])
=============================================================================
