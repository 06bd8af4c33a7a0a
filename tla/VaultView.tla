----------------------------- MODULE VaultView -----------------------------
(***************************************************************************)
(* packages/api-server/src/routes/vault.ts: what the API shows of the      *)
(* vault.  A page is put together from eth_calls made in two rounds, with  *)
(* blocks in between; a call that fails reads as 0 or false.  The calls    *)
(* name functions by the four bytes written out in the source.             *)
(***************************************************************************)
EXTENDS ArenaVault

\* SEL: the bytes the API sends for each getter.
SEL == [totalSeasonPool          |-> "02fb0c5e", seasonSettled   |-> "ce3f4590",
        totalStakeBySeasonAgent  |-> "93423a64", seasonWeightWad |-> "8e35e6d0",
        userStakeBySeasonAgent   |-> "c6aa4ef1", userClaimed     |-> "4e71e0c8",
        userClaimedBySeasonAgent |-> "3f1c5c76"]

\* The bytes a contract with these public mappings answers to: the first four of
\* the hash of each getter's signature.
Answered == [totalSeasonPool          |-> "0a3c53f6", seasonSettled   |-> "b5a0acdf",
             totalStakeBySeasonAgent  |-> "585f9ca1", seasonWeightWad |-> "09b94dd9",
             userStakeBySeasonAgent   |-> "2ec8b6a5", userClaimed     |-> "c4071cf1",
             userClaimedBySeasonAgent |-> "fab8af99"]

\* ethCall and decodeUint256 / decodeBool.
Read(getter, value, zero) == IF SEL[getter] = Answered[getter] THEN value ELSE zero

VARIABLE page       \* the user page: which season and user, how far, what it shows

NoPage == [pc |-> "none", season |-> 1, user |-> 1, settled |-> FALSE, claimed |-> FALSE,
           pool |-> 0, claimable |-> 0, wasSettled |-> FALSE]

viewVars == <<vaultVars, page>>

ViewInit == VaultInit /\ page = NoPage

\* GET /season/:seasonKey/user/:address, first round: claimed, settled, pool.
FirstRound(s, u) ==
  /\ page.pc = "none"
  /\ page' = [NoPage EXCEPT !.pc = "agents", !.season = s, !.user = u,
                !.wasSettled = seasonSettled[s],   \* history
                !.settled = Read("seasonSettled", seasonSettled[s], FALSE),
                !.claimed = Read("userClaimed", userClaimed[s][u], FALSE),
                !.pool = Read("totalSeasonPool", totalSeasonPool[s], 0)]
  /\ UNCHANGED vaultVars

ClaimableWei(s, u, a, pool, settled) ==
  LET stake == Read("userStakeBySeasonAgent", userStake[s][a][u], 0)
      total == Read("totalStakeBySeasonAgent", totalStake[s][a], 0)
      weight == Read("seasonWeightWad", seasonWeight[s][a], 0)
      claimed == Read("userClaimedBySeasonAgent", agentClaimed[s][a][u], FALSE)
  IN IF settled /\ ~claimed /\ stake > 0 /\ total > 0 /\ weight > 0
     THEN (pool * weight * stake) \div (WAD * total) ELSE 0

\* Second round: four calls for each agent asked for, and the sum.
SecondRound ==
  /\ page.pc = "agents"
  /\ page' = [page EXCEPT !.pc = "shown",
       !.claimable = SumTo([a \in Agents |->
          ClaimableWei(page.season, page.user, a, page.pool, page.settled)], NumAgents)]
  /\ UNCHANGED vaultVars

ViewNext == \/ VaultNext /\ page.pc # "shown" /\ UNCHANGED page
            \/ \E s \in Seasons, u \in Stakers : FirstRound(s, u)
            \/ SecondRound

ViewSpec == ViewInit /\ [][ViewNext]_viewVars

\* "This router only reads on-chain state and surfaces it as JSON" (l.87): a page
\* begun after the settlement shows it, and shows a user who was paid nothing yet
\* what claim would pay.
ViewShowsChain ==
  page.pc = "shown" /\ page.wasSettled /\ received[page.season][page.user] = 0
  => page.settled /\ page.claimable = ClaimAmount(page.season, page.user, Agents)
=============================================================================
