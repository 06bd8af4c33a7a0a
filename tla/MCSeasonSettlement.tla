------------------------- MODULE MCSeasonSettlement -------------------------
(* Small instances for TLC of a season's way to the chain: the engine that  *)
(* runs and settles it (ArenaEngine), the submitter of the settlement with  *)
(* its alerts (SettlementSubmit) and the contracts that record and pay it   *)
(* (SeasonSettlement).  Each is checked while the others rest; what one     *)
(* hands to the next, the next takes from all it may be handed.             *)
EXTENDS SeasonSettlement, SettlementSubmit, ArenaEngine, TLC

VARIABLE part

\* Ids of the engine's agents are only compared with each other.
PlayerSymmetry == Permutations(Players)

\* Any environment will do for the submitter that rests; what is routed where matters to the
\* alerts and not to the submission, so it varies in one of its modes.
AllInit ==
  /\ SettlementInit /\ SubmitInit /\ EngineInit
  /\ part \in {"engine", "submitter", "contracts"}
  /\ part # "submitter" => config.mode = "logging"
  /\ part # "submitter" \/ config.mode # "logging" => config.routes = {"fallback"}

AllNext ==
  /\ UNCHANGED part
  /\ \/ part = "engine" /\ EngineNext /\ UNCHANGED <<submitVars, allVars>>
     \/ part = "submitter" /\ SubmitNext /\ UNCHANGED <<engineVars, allVars>>
     \/ part = "contracts" /\ SettlementNext /\ UNCHANGED <<engineVars, submitVars>>

AllSpec == AllInit /\ [][AllNext]_<<part, engineVars, submitVars, allVars>>
=============================================================================
