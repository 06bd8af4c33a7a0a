----------------------------- MODULE MCArenaApi -----------------------------
(* Small instances of the process that serves the arena: the API's files   *)
(* and sessions (ArenaApi), its paged logs (LogPages), the leaderboards    *)
(* and their viewers (Standings), and the commands that start it (Startup),*)
(* each checked while the others rest.                                     *)
EXTENDS ArenaApi, LogPages, Standings, Startup, TLC

VARIABLE part

MCStatic == [bot |-> "internal"]
MCReturns == {0, 1}

\* Environments with one thing missing or wrong, under every choice of modes and signers.
Modes == {"onchain", "registration"}
SignerFlags == {"unlocked", "from", "keystore", "keystoreFile", "key", "allow"}
OtherFlags == Flags \ (Modes \cup SignerFlags \cup {"siwe"})
Complete == [flags |-> OtherFlags, addr |-> [a \in Contracts \cup {"mintTo"} |-> "hex"]]
Settings ==
  {Complete} \cup {[Complete EXCEPT !.flags = @ \ {f}] : f \in OtherFlags}
  \cup {[Complete EXCEPT !.addr[a] = x] : a \in Contracts \cup {"mintTo"}, x \in {"none", "bad"}}
  \cup {[Complete EXCEPT !.flags = (@ \ {"verifier", f}) \cup {"siwe"}] : f \in {"siwe", "cast"}}
AgentOf(yaml, hex) == [yaml |-> yaml, hex |-> hex]
OneAgent == <<AgentOf(TRUE, FALSE)>>
MCEnvironments ==
  {[flags |-> s.flags \cup m, addr |-> s.addr, agents |-> as] :
     s \in Settings, m \in SUBSET (Modes \cup SignerFlags),
     as \in {OneAgent, <<AgentOf(TRUE, TRUE), AgentOf(FALSE, TRUE)>>}}

\* Wallets and keys are only compared with each other, and so are entrants.
Symmetric == Permutations(Wallets) \cup Permutations(Keys) \cup Permutations(Entrants)

\* A process reads its environment once; a part at rest needs no more than one.
AtRest == cmd = "sync" /\ env = [flags |-> OtherFlags, addr |-> Complete.addr, agents |-> OneAgent]
PartsInit ==
  /\ Init /\ PagesInit /\ StandingsInit /\ StartupInit
  /\ part \in {"files", "logs", "standings", "startup"}
  /\ (part # "files" => ~strict) /\ (part # "startup" => AtRest)
PartsNext ==
  /\ UNCHANGED part
  /\ \/ part = "files" /\ Next /\ UNCHANGED <<pageVars, standingVars, startupVars>>
     \/ part = "logs" /\ PagesNext /\ UNCHANGED <<vars, standingVars, startupVars>>
     \/ part = "standings" /\ StandingsNext /\ UNCHANGED <<vars, pageVars, startupVars>>
     \/ part = "startup" /\ StartupNext /\ UNCHANGED <<vars, pageVars, standingVars>>
PartsSpec == PartsInit /\ [][PartsNext]_<<part, vars, pageVars, standingVars, startupVars>>
=============================================================================
