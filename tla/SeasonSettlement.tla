-------------------------- MODULE SeasonSettlement --------------------------
(***************************************************************************)
(* contracts/src/SeasonSettler.sol composed with the vault it settles      *)
(* (ArenaVault) and the reputation counters of AgentNFA.sol.  One call of  *)
(* submitSeasonResult writes the settler's own record, the vault's weights *)
(* and every agent's reputation, or nothing: any inner require reverts it. *)
(***************************************************************************)
EXTENDS ArenaVault

CONSTANTS
  SettlerContract,  \* address of this SeasonSettler
  Vaults,           \* vault addresses setVault may be given
  ThisVault         \* the vault whose state ArenaVault models

ASSUME SettlementConstants ==
  SettlerContract \in Settlers /\ ThisVault \in Vaults

VARIABLES
  resultExists,      \* resultsBySeason[s].exists
  vault,             \* the vault submitSeasonResult calls
  vaultLocked,
  settlerPaused,
  nfaSet,            \* address(agentNFA) # 0
  nfaAuthorized,     \* authorizedSettlers[SettlerContract] in the NFA
  minted,            \* agents with tokenByAgentKey # 0
  seasonCount,       \* seasonCount of the agent's token
  due                \* history: agents a recorded season had to score

nfaVars     == <<nfaSet, nfaAuthorized, minted, seasonCount, due>>
settlerVars == <<resultExists, vault, vaultLocked, settlerPaused, nfaVars>>
allVars     == <<vaultVars, settlerVars>>

SettlementInit ==
  /\ VaultInit
  /\ resultExists = [s \in Seasons |-> FALSE]
  /\ vault = ThisVault
  /\ vaultLocked = FALSE /\ settlerPaused = FALSE
  /\ nfaSet = FALSE /\ nfaAuthorized = FALSE
  /\ minted = {}
  /\ seasonCount = [a \in Agents |-> 0]
  /\ due = [s \in Seasons |-> {}]

(* Leaderboard entries come from a map keyed by agent id: no id repeats.   *)
Leaderboards ==
  {e \in Settlements : \A i, j \in 1..Len(e) : i # j => e[i].agent # e[j].agent}

(* The agents of the call whose reputation it touches.                     *)
Scored(entries, deltas) ==
  IF nfaSet /\ deltas THEN Named(entries) \cap minted ELSE {}

MaySubmitMutant(s) == ~settlerPaused
MaySubmit(s) == ~settlerPaused /\ ~resultExists[s]

(* The NFA loop: one unauthorized update reverts the whole submission.     *)
Reputation(entries, deltas) ==
  /\ Scored(entries, deltas) # {} => nfaAuthorized
  /\ seasonCount' = [a \in Agents |-> seasonCount[a]
                      + (IF a \in Scored(entries, deltas) THEN 1 ELSE 0)]

(* vault.setSeasonWeights: the modelled vault, or another one that accepts.*)
PushWeightsMutant(s, entries) ==
  IF vault = ThisVault /\ MaySetWeights(SettlerContract, s, entries)
                       /\ HasRoom(s, Named(entries))
  THEN SetSeasonWeights(SettlerContract, s, entries)
  ELSE UNCHANGED vaultVars

PushWeights(s, entries) ==
  IF vault = ThisVault THEN SetSeasonWeights(SettlerContract, s, entries)
                       ELSE UNCHANGED vaultVars

SubmitSeasonResult(s, entries, deltas) ==
  /\ MaySubmit(s)
  /\ resultExists' = [resultExists EXCEPT ![s] = TRUE]
  /\ PushWeights(s, entries)
  /\ Reputation(entries, deltas)
  /\ due' = [due EXCEPT ![s] = Scored(entries, deltas)]
  /\ UNCHANGED <<vault, vaultLocked, settlerPaused, nfaSet, nfaAuthorized,
                 minted>>

-----------------------------------------------------------------------------
SetVault(v) ==
  /\ ~vaultLocked
  /\ vault' = v
  /\ UNCHANGED <<vaultVars, resultExists, vaultLocked, settlerPaused, nfaVars>>

LockVault ==
  /\ vaultLocked' = TRUE
  /\ UNCHANGED <<vaultVars, resultExists, vault, settlerPaused, nfaVars>>

SetSettlerPaused(p) ==
  /\ settlerPaused' = p
  /\ UNCHANGED <<vaultVars, resultExists, vault, vaultLocked, nfaVars>>

SetAgentNFA(present) ==
  /\ nfaSet' = present
  /\ UNCHANGED <<vaultVars, resultExists, vault, vaultLocked, settlerPaused,
                 nfaAuthorized, minted, seasonCount, due>>

(* AgentNFA.setAuthorizedSettler for this settler.                         *)
SetAuthorizedSettler(authorized) ==
  /\ nfaAuthorized' = authorized
  /\ UNCHANGED <<vaultVars, resultExists, vault, vaultLocked, settlerPaused,
                 nfaSet, minted, seasonCount, due>>

(* AgentNFA.mintAgent: an agent key is minted once.                        *)
MintAgent(a) ==
  /\ a \notin minted
  /\ minted' = minted \cup {a}
  /\ UNCHANGED <<vaultVars, resultExists, vault, vaultLocked, settlerPaused,
                 nfaSet, nfaAuthorized, seasonCount, due>>

(* The vault's own functions; any settler but this contract may also call  *)
(* setSeasonWeights directly while it is the vault's settler.              *)
VaultStep ==
  /\ \/ UserStep
     \/ OwnerStep
     \/ \E caller \in Settlers \ {SettlerContract}, s \in Seasons,
          entries \in Leaderboards : SetSeasonWeights(caller, s, entries)
  /\ UNCHANGED settlerVars

SettlementNext ==
  \/ VaultStep
  \/ \E s \in Seasons, entries \in Leaderboards, deltas \in BOOLEAN :
       SubmitSeasonResult(s, entries, deltas)
  \/ \E v \in Vaults : SetVault(v)
  \/ LockVault
  \/ \E b \in BOOLEAN : SetSettlerPaused(b) \/ SetAgentNFA(b)
                          \/ SetAuthorizedSettler(b)
  \/ \E a \in Agents : MintAgent(a)

SettlementSpec == SettlementInit /\ [][SettlementNext]_allVars

-----------------------------------------------------------------------------
(* Type invariant of the settler's side.                                   *)
SettlementTypeOK ==
  /\ VaultTypeOK
  /\ resultExists \in [Seasons -> BOOLEAN]
  /\ vault \in Vaults /\ vaultLocked \in BOOLEAN /\ settlerPaused \in BOOLEAN
  /\ nfaSet \in BOOLEAN /\ nfaAuthorized \in BOOLEAN
  /\ minted \subseteq Agents
  /\ seasonCount \in [Agents -> Nat]
  /\ due \in [Seasons -> SUBSET Agents]

Wired == vault = ThisVault /\ settler = SettlerContract
Sealed == Wired /\ vaultLocked /\ settlerLocked

(* With both locks on, the settler's record and the vault's settlement are *)
(* one event: neither contract ever shows a season the other does not      *)
(* (l.149-157), whatever fails inside the call.                            *)
RecordedWithWeights ==
  [][Sealed => Sealed' /\ \A s \in Seasons :
                 (resultExists'[s] # resultExists[s])
                   <=> (seasonSettled'[s] # seasonSettled[s])]_allVars

(* An agent's reputation counts exactly the recorded seasons that scored   *)
(* it: an NFA that refuses the settler takes the whole submission down     *)
(* (l.160-168), and no season counts twice, even across a change of vault. *)
ReputationExact ==
  \A a \in Agents :
    seasonCount[a] = Cardinality({s \in Seasons : resultExists[s] /\ a \in due[s]})

(* A settled season moves exactly its reputation, and the one balance      *)
(* covers every season (l.133-171, ArenaVault.sol l.123-185).              *)
SettlementSound == SettlementTypeOK /\ ReputationExact /\ VaultCovers

=============================================================================
