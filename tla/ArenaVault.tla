----------------------------- MODULE ArenaVault -----------------------------
(***************************************************************************)
(* contracts/src/ArenaVault.sol: users stake on agents of a season, the    *)
(* settler sets the season's weights once, and users claim their parts of  *)
(* the season's pool in three ways.  All seasons share one token balance.  *)
(*                                                                         *)
(* Users, agents and seasons are numbered so that sums over them can be    *)
(* proved about (NatSums).  A transaction is atomic and the token calls    *)
(* nothing back, so nonReentrant has nothing to do in the model.           *)
(***************************************************************************)
EXTENDS Naturals, Sequences, FiniteSets, NatSums

CONSTANTS
  NumUsers, NumAgents, NumSeasons,  \* bounds: who stakes, on what, when
  WAD,                   \* 1e18: the whole of a season's weight
  MaxAgentsPerSeason,    \* MAX_AGENTS_PER_SEASON
  StakeAmounts,          \* amounts a user tries to stake
  InitialWallet,         \* bound: tokens each user starts with
  MaxEntries,            \* bound: agent ids per settlement or claim call
  Settlers,              \* addresses the owner may make settler
  ZeroAddress                   \* address(0)

Stakers == 1..NumUsers
Agents  == 1..NumAgents
Seasons == 1..NumSeasons

ASSUME VaultConstants ==
  /\ NumUsers \in Nat /\ NumAgents \in Nat /\ NumSeasons \in Nat
  /\ WAD \in Nat \ {0} /\ MaxAgentsPerSeason \in Nat
  /\ StakeAmounts \subseteq Nat /\ InitialWallet \in Nat
  /\ MaxEntries \in Nat /\ ZeroAddress \notin Settlers

VARIABLES
  vaultBal,          \* token balance of the vault
  wallet,            \* token balance of each user
  userStake,         \* userStakeBySeasonAgent
  totalStake,        \* totalStakeBySeasonAgent
  seasonAgents,      \* seasonAgents and seasonAgentExists, as a set
  totalSeasonPool,
  seasonSettled,
  seasonWeight,      \* seasonWeightWad
  userClaimed,       \* [season][user]
  agentClaimed,      \* userClaimedBySeasonAgent
  vaultPaused,
  settler,
  settlerLocked,
  received           \* history: what a user was paid for a season

stakeVars == <<userStake, totalStake, seasonAgents, totalSeasonPool>>
roleVars  == <<vaultPaused, settler, settlerLocked>>
vaultVars == <<vaultBal, wallet, stakeVars, seasonSettled, seasonWeight,
          userClaimed, agentClaimed, roleVars, received>>

(* One line of setSeasonWeights' two parallel arrays.                      *)
Entry == [agent: Agents, weight: 0..WAD]

(* Everything the settler may pass, repeated agent ids included.           *)
Settlements == UNION {[1..n -> Entry] : n \in 0..MaxEntries}

VaultInit ==
  /\ vaultBal = 0
  /\ wallet = [u \in Stakers |-> InitialWallet]
  /\ userStake = [s \in Seasons |-> [a \in Agents |-> [u \in Stakers |-> 0]]]
  /\ totalStake = [s \in Seasons |-> [a \in Agents |-> 0]]
  /\ seasonAgents = [s \in Seasons |-> {}]
  /\ totalSeasonPool = [s \in Seasons |-> 0]
  /\ seasonSettled = [s \in Seasons |-> FALSE]
  /\ seasonWeight = [s \in Seasons |-> [a \in Agents |-> 0]]
  /\ userClaimed = [s \in Seasons |-> [u \in Stakers |-> FALSE]]
  /\ agentClaimed = [s \in Seasons |-> [a \in Agents |-> [u \in Stakers |-> FALSE]]]
  /\ vaultPaused = FALSE
  /\ settler = ZeroAddress
  /\ settlerLocked = FALSE
  /\ received = [s \in Seasons |-> [u \in Stakers |-> 0]]

(* The list of a season's agents after some were seen for the first time;  *)
(* no push succeeds on a full list.                                        *)
Registered(s, seen) == seasonAgents[s] \cup seen
HasRoomMutant(s, seen) == TRUE
HasRoom(s, seen)    == seen \subseteq seasonAgents[s]
                         \/ Cardinality(Registered(s, seen)) <= MaxAgentsPerSeason

-----------------------------------------------------------------------------
(* The token's transferFrom takes the stake or reverts.                    *)
TakesStakeMutant(u, amount) == TRUE
TakesStake(u, amount) == wallet[u] >= amount

AddedMutant(total, s, a, amount) == [total EXCEPT ![s][a] = amount]
Added(total, s, a, amount) == [total EXCEPT ![s][a] = @ + amount]

MayStakeMutant(s, amount) == ~vaultPaused /\ amount > 0
MayStake(s, amount) == ~vaultPaused /\ amount > 0 /\ ~seasonSettled[s]

Stake(u, s, a, amount) ==
  /\ MayStake(s, amount)
  /\ TakesStake(u, amount)
  /\ HasRoom(s, {a})
  /\ wallet' = [wallet EXCEPT ![u] = @ - amount]
  /\ vaultBal' = vaultBal + amount
  /\ seasonAgents' = [seasonAgents EXCEPT ![s] = Registered(s, {a})]
  /\ totalStake' = Added(totalStake, s, a, amount)
  /\ userStake' = [userStake EXCEPT ![s][a][u] = @ + amount]
  /\ totalSeasonPool' = [totalSeasonPool EXCEPT ![s] = @ + amount]
  /\ UNCHANGED <<seasonSettled, seasonWeight, userClaimed, agentClaimed,
                 roleVars, received>>

(* The loop overwrites an agent's weight but adds every entry to the total *)
(* it checks, so a repeated id counts in full and keeps its last weight.   *)
EntriesTotal(entries) ==
  SumTo([i \in 1..Len(entries) |-> entries[i].weight], Len(entries))

Named(entries) == {entries[i].agent : i \in 1..Len(entries)}

LastWeight(entries, a) ==
  LET last == CHOOSE i \in 1..Len(entries) :
                /\ entries[i].agent = a
                /\ \A j \in (i + 1)..Len(entries) : entries[j].agent # a
  IN  entries[last].weight

MaySetWeightsMutant(caller, s, entries) ==
  caller = settler /\ ~vaultPaused /\ ~seasonSettled[s]

MaySetWeights(caller, s, entries) ==
  /\ caller = settler /\ ~vaultPaused
  /\ ~seasonSettled[s]
  /\ EntriesTotal(entries) = WAD

SetSeasonWeights(caller, s, entries) ==
  /\ MaySetWeights(caller, s, entries)
  /\ HasRoom(s, Named(entries))
  /\ seasonAgents' = [seasonAgents EXCEPT ![s] = Registered(s, Named(entries))]
  /\ seasonWeight' = [seasonWeight EXCEPT ![s] =
       [a \in Agents |-> IF a \in Named(entries) THEN LastWeight(entries, a)
                                                 ELSE @[a]]]
  /\ seasonSettled' = [seasonSettled EXCEPT ![s] = TRUE]
  /\ UNCHANGED <<vaultBal, wallet, userStake, totalStake, totalSeasonPool,
                 userClaimed, agentClaimed, roleVars, received>>

(* _payoutForAgent, with its integer division.                             *)
Payout(s, a, u) ==
  IF userStake[s][a][u] = 0 \/ totalStake[s][a] = 0 \/ seasonWeight[s][a] = 0
  THEN 0
  ELSE (totalSeasonPool[s] * seasonWeight[s][a] * userStake[s][a][u])
         \div (WAD * totalStake[s][a])

(* The agents of A a claim pays for, and what it pays.                     *)
PayableMutant(s, u, A) == {a \in A : Payout(s, a, u) > 0}

Payable(s, u, A) ==
  {a \in A : ~agentClaimed[s][a][u] /\ Payout(s, a, u) > 0}

ClaimAmount(s, u, A) ==
  SumTo([a \in Agents |-> IF a \in Payable(s, u, A) THEN Payout(s, a, u)
                                                    ELSE 0], NumAgents)

MayClaim(s, u) == ~vaultPaused /\ seasonSettled[s] /\ ~userClaimed[s][u]

(* What the three claim functions share: mark, then transfer.              *)
PayFor(s, u, A) ==
  LET payout == ClaimAmount(s, u, A)
  IN  /\ payout > 0
      /\ vaultBal >= payout
      /\ agentClaimed' = [agentClaimed EXCEPT ![s] =
           [a \in Agents |-> IF a \in Payable(s, u, A)
                             THEN [@[a] EXCEPT ![u] = TRUE] ELSE @[a]]]
      /\ vaultBal' = vaultBal - payout
      /\ wallet' = [wallet EXCEPT ![u] = @ + payout]
      /\ received' = [received EXCEPT ![s][u] = @ + payout]
      /\ UNCHANGED <<stakeVars, seasonSettled, seasonWeight, roleVars>>

Claim(u, s) ==
  /\ MayClaim(s, u)
  /\ PayFor(s, u, seasonAgents[s])
  /\ userClaimed' = [userClaimed EXCEPT ![s][u] = TRUE]

ClaimAgentMutant(u, s, a) ==
  /\ MayClaim(s, u) /\ ~agentClaimed[s][a][u]
  /\ PayFor(s, u, {a})
  /\ userClaimed' = [userClaimed EXCEPT ![s][u] = TRUE]

ClaimAgent(u, s, a) ==
  /\ MayClaim(s, u)
  /\ ~agentClaimed[s][a][u]
  /\ PayFor(s, u, {a})
  /\ UNCHANGED userClaimed

(* A repeated id in the list is skipped the second time: a set is enough.  *)
ClaimAgents(u, s, A) ==
  /\ MayClaim(s, u)
  /\ A # {}
  /\ PayFor(s, u, A)
  /\ UNCHANGED userClaimed

-----------------------------------------------------------------------------
(* The owner's functions.                                                  *)
SetSettler(account) ==
  /\ ~settlerLocked /\ account # ZeroAddress
  /\ settler' = account
  /\ UNCHANGED <<vaultBal, wallet, stakeVars, seasonSettled, seasonWeight,
                 userClaimed, agentClaimed, vaultPaused, settlerLocked, received>>

LockSettler ==
  /\ settlerLocked' = TRUE
  /\ UNCHANGED <<vaultBal, wallet, stakeVars, seasonSettled, seasonWeight,
                 userClaimed, agentClaimed, vaultPaused, settler, received>>

SetVaultPaused(p) ==
  /\ vaultPaused' = p
  /\ UNCHANGED <<vaultBal, wallet, stakeVars, seasonSettled, seasonWeight,
                 userClaimed, agentClaimed, settler, settlerLocked, received>>

UserStep ==
  \E u \in Stakers, s \in Seasons :
    \/ \E a \in Agents, amount \in StakeAmounts : Stake(u, s, a, amount)
    \/ Claim(u, s)
    \/ \E a \in Agents : ClaimAgent(u, s, a)
    \/ \E A \in SUBSET Agents : ClaimAgents(u, s, A)

OwnerStep ==
  \/ \E account \in Settlers : SetSettler(account)
  \/ LockSettler
  \/ \E p \in BOOLEAN : SetVaultPaused(p)

SettlerStep ==
  \E caller \in Settlers, s \in Seasons, entries \in Settlements :
    SetSeasonWeights(caller, s, entries)

VaultNext == UserStep \/ OwnerStep \/ SettlerStep

VaultSpec == VaultInit /\ [][VaultNext]_vaultVars

-----------------------------------------------------------------------------
(* Type invariant.                                                         *)
VaultTypeOK ==
  /\ vaultBal \in Nat /\ wallet \in [Stakers -> Nat]
  /\ userStake \in [Seasons -> [Agents -> [Stakers -> Nat]]]
  /\ totalStake \in [Seasons -> [Agents -> Nat]]
  /\ seasonAgents \in [Seasons -> SUBSET Agents]
  /\ totalSeasonPool \in [Seasons -> Nat]
  /\ seasonSettled \in [Seasons -> BOOLEAN]
  /\ seasonWeight \in [Seasons -> [Agents -> Nat]]
  /\ userClaimed \in [Seasons -> [Stakers -> BOOLEAN]]
  /\ agentClaimed \in [Seasons -> [Agents -> [Stakers -> BOOLEAN]]]
  /\ vaultPaused \in BOOLEAN /\ settlerLocked \in BOOLEAN
  /\ settler \in Settlers \cup {ZeroAddress}
  /\ received \in [Seasons -> [Stakers -> Nat]]

(* A season's sums of stakes agree at all three levels (l.90-92).          *)
BooksAgree ==
  \A s \in Seasons :
    /\ totalSeasonPool[s] = SumTo(totalStake[s], NumAgents)
    /\ \A a \in Agents : totalStake[s][a] = SumTo(userStake[s][a], NumUsers)

(* What is still to be paid for a season: all of its pool before it is     *)
(* settled, the unclaimed parts after.                                     *)
Unclaimed(s) ==
  SumTo([u \in Stakers |-> IF userClaimed[s][u] THEN 0
                         ELSE ClaimAmount(s, u, Agents)], NumUsers)

Owed == [s \in Seasons |->
           IF seasonSettled[s] THEN Unclaimed(s) ELSE totalSeasonPool[s]]

(* The one balance covers every season at once: rounding, repeated ids in  *)
(* the weights and the order of claims never let a season or a claim path  *)
(* eat another's money.                                                    *)
VaultCovers == vaultBal >= SumTo(Owed, NumSeasons)

(* Whatever mix of claim, claimAgent and claimAgents a user sends, it has  *)
(* received exactly the parts of the agents marked as claimed.             *)
PaidExactlyClaimed ==
  \A s \in Seasons, u \in Stakers :
    received[s][u] =
      SumTo([a \in Agents |-> IF agentClaimed[s][a][u] THEN Payout(s, a, u)
                                                       ELSE 0], NumAgents)

(* claim closes every other path for the user (l.141), so it must have     *)
(* paid every part: it loops over seasonAgents only (l.129-137).           *)
ClaimLeavesNothing ==
  \A s \in Seasons, u \in Stakers :
    userClaimed[s][u] => \A a \in Agents :
                           Payout(s, a, u) > 0 => agentClaimed[s][a][u]

(* Once settled, a season's stakes and weights are what payouts are        *)
(* computed from for good, and a locked settler stays.                     *)
SettledFreezes ==
  /\ \A s \in Seasons : seasonSettled[s] =>
       /\ seasonSettled'[s]
       /\ userStake'[s] = userStake[s] /\ totalStake'[s] = totalStake[s]
       /\ totalSeasonPool'[s] = totalSeasonPool[s]
       /\ seasonWeight'[s] = seasonWeight[s]
  /\ settlerLocked => settlerLocked' /\ settler' = settler
SettledIsFrozen == [][SettledFreezes]_vaultVars

(* The loop in claim stays short enough to be paid for in gas: no list of  *)
(* agents outgrows MAX_AGENTS_PER_SEASON through stake or through the      *)
(* settler (l.85, l.110).                                                  *)
AgentListBounded ==
  \A s \in Seasons : Cardinality(seasonAgents[s]) <= MaxAgentsPerSeason

(* The books of the vault, over every mix of stakes, settlements and the   *)
(* three kinds of claim.                                                   *)
VaultSound ==
  /\ BooksAgree /\ VaultCovers /\ PaidExactlyClaimed
  /\ ClaimLeavesNothing /\ AgentListBounded

(* arena-engine.ts l.293: agents whose weight stays 0 "get full refund -   *)
(* handled by smart contract".                                             *)
ZeroWeightRefunded ==
  \A s \in Seasons, a \in Agents, u \in Stakers :
    seasonSettled[s] /\ seasonWeight[s][a] = 0 /\ userStake[s][a][u] > 0
      => Payout(s, a, u) = userStake[s][a][u]

=============================================================================
