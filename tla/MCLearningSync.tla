--------------------------- MODULE MCLearningSync ---------------------------
(* Small instances for TLC of the engine's timer and cycles, which write   *)
(* the commitments, and of the hook and the replay that bring them on      *)
(* chain; each is checked while the other rests.                           *)
EXTENDS LearningSync, ArenaEngine

VARIABLE part

BothInit == part \in {"sync", "engine"} /\ Init /\ EngineInit

BothNext ==
  /\ UNCHANGED part
  /\ \/ part = "sync" /\ Next /\ UNCHANGED engineVars
     \/ part = "engine" /\ EngineNext /\ UNCHANGED vars

\* The part at rest is asked for nothing: no fair action of the engine is enabled before
\* it is booted, and the operator runs the sync only beside it.
BothSpec ==
  /\ BothInit /\ [][BothNext]_<<part, vars, engineVars>>
  /\ (part = "sync" => Fairness) /\ EngineFairness
=============================================================================
