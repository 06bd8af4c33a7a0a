----------------------------- MODULE MCContracts -----------------------------
(* Small instances of the two contracts that hold other people's tokens,    *)
(* each checked while the other rests: they share no state.                 *)
EXTENDS TaskEscrow, ArenaVault

VARIABLE part

ContractsInit ==
  /\ part \in {"escrow", "vault"} /\ Init /\ VaultInit
  /\ part = "vault" => /\ feeRateBps = 0 /\ releaseDelaySecs = 0
                       /\ treasury = CHOOSE u \in Users : TRUE

ContractsNext ==
  /\ UNCHANGED part
  /\ \/ part = "escrow" /\ Next /\ UNCHANGED vaultVars
     \/ part = "vault" /\ VaultNext /\ UNCHANGED vars

ContractsSpec ==
  /\ ContractsInit /\ [][ContractsNext]_<<part, vars, vaultVars>>
  /\ SelfInterest
==============================================================================
