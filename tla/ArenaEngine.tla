---------------------------- MODULE ArenaEngine ----------------------------
(***************************************************************************)
(* The season engine: ArenaEngine (arena-engine.ts) over SeasonManager     *)
(* (season-manager.ts), run by `arena start`.                              *)
(*                                                                         *)
(* One Node process holds the agents and the season; a timer starts a      *)
(* cycle, which awaits the market snapshot, then awaits every agent's      *)
(* decision, then commits.  Cycles overlap freely: setInterval does not    *)
(* wait for the previous one.  Everything between two awaits is one step,  *)
(* unless the process dies between two file writes (the Torn* and Died*    *)
(* actions).  Every change of the season in memory is saved in the same    *)
(* step, so `season` is at once SeasonManager.season and what              *)
(* season_current.json holds; the process that boots next reads it back.   *)
(***************************************************************************)
EXTENDS Naturals, FiniteSets, Sequences

CONSTANTS
    Players,         \* agent ids
    MinAgents,      \* config.minAgentsToStart
    MaxSeasons,     \* bound: seasons started over all processes
    MaxCycles,      \* bound: snapshots that became a cycle
    MaxPolls,       \* bound: runCycle calls awaiting a snapshot at once
    MaxRegs,        \* bound: registerAgent calls of one process
    MaxBoots        \* bound: processes started

VARIABLES
    proc,       \* "down", "booted" (start not called yet), "running", "stopped"
    boots,      \* processes started so far
    season,     \* the current season: id 0 when season_current.json is absent or unreadable
    expired,    \* its end_time has passed
    lastSeason, \* ids handed out; a season id is a fresh uuid
    archive,    \* seasons/<id>.json: {cycle_count as archived}, {} while there is no file
    board,      \* leaderboard.json: "none", "live" (per cycle), "final" (with merkle_root)
    agents,     \* the Map of AgentState: which object (0: none) and its signals, by cycle
    regs,       \* AgentState objects created by this process
    polls,      \* runCycle calls awaiting getSnapshot
    lastCycle,  \* cycle ids handed out; a cycle id is a fresh uuid
    flight,     \* cycles of this process: whose decision is awaited, and what was said
    commitments,       \* the rows of cycle_commitments.jsonl
    ended,      \* the payloads given to onSeasonEnd, in order
    began,      \* history: the season that was active when a cycle began
    torn        \* history: processes that died between two writes of one step

engineVars == <<proc, boots, season, expired, lastSeason, archive, board, agents, regs,
          polls, lastCycle, flight, commitments, ended, began, torn>>

disk == <<season, expired, lastSeason, archive, board, commitments>>
memory == <<agents, regs, polls, flight>>

SeasonIds == 1..MaxSeasons
Cycles == 1..MaxCycles
NoSeason == [id |-> 0, status |-> "none", cycles |-> 0]

Unregistered == [obj |-> 0, signals |-> {}]
RegisteredAgents == {a \in Players : agents[a].obj # 0}

\* A cycle not of this process, or not begun.
NoCycle == [pc |-> "idle", waits |-> {}, held |-> [a \in Players |-> 0], said |-> {}]

EngineInit ==
    /\ proc = "down" /\ boots = 0
    /\ season = NoSeason /\ expired = FALSE /\ lastSeason = 0
    /\ archive = [s \in SeasonIds |-> {}]
    /\ board = "none"
    /\ agents = [a \in Players |-> Unregistered] /\ regs = 0
    /\ polls = 0 /\ lastCycle = 0
    /\ flight = [c \in Cycles |-> NoCycle]
    /\ commitments = {} /\ ended = <<>>
    /\ began = [c \in Cycles |-> 0] /\ torn = 0

Alive == proc # "down"
IsActive == season.status = "active"
-----------------------------------------------------------------------------
(* The process and the agents.                                             *)

\* new ArenaEngine: SeasonManager.load reads season_current.json back.
Boot ==
    /\ proc = "down" /\ boots < MaxBoots
    /\ proc' = "booted" /\ boots' = boots + 1
    /\ UNCHANGED <<disk, memory, lastCycle, ended, began, torn>>

\* The process ends at an await: killed, or SIGINT/SIGTERM and process.exit.
\* What it held in memory is gone.
Dies ==
    /\ proc' = "down"
    /\ agents' = [a \in Players |-> Unregistered] /\ regs' = 0
    /\ polls' = 0
    /\ flight' = [c \in Cycles |-> NoCycle]
    /\ UNCHANGED <<boots, lastCycle, began, ended>>

Exit == Alive /\ Dies /\ UNCHANGED <<disk, torn>>

\* registerAgent always installs a new AgentState, also over an existing one
\* (the webhook routes update an agent that way).
RegisterAgent(a) ==
    /\ Alive /\ regs < MaxRegs
    /\ regs' = regs + 1
    /\ agents' = [agents EXCEPT ![a] = [obj |-> regs + 1, signals |-> {}]]
    /\ UNCHANGED <<proc, boots, disk, polls, flight, lastCycle, ended, began, torn>>

UnregisterAgent(a) ==
    /\ Alive /\ a \in RegisteredAgents
    /\ agents' = [agents EXCEPT ![a] = Unregistered]
    /\ UNCHANGED <<proc, boots, disk, regs, polls, flight, lastCycle, ended, began, torn>>

\* A plausible slip: start() again after stop(), in the same process.
MayStartMutant == proc \in {"booted", "stopped"}

\* `arena start` calls start() once per process.
MayStart == proc = "booted"

\* A plausible slip: a new season also over one loaded from disk.
NeedsNewSeasonMutant == TRUE

NeedsNewSeason == ~IsActive

StartRefused ==
    /\ MayStart /\ NeedsNewSeason
    /\ Cardinality(RegisteredAgents) < MinAgents
    /\ proc' = "stopped"
    /\ UNCHANGED <<boots, disk, memory, lastCycle, ended, began, torn>>

StartNewSeason ==
    /\ lastSeason < MaxSeasons
    /\ lastSeason' = lastSeason + 1
    /\ season' = [id |-> lastSeason + 1, status |-> "active", cycles |-> 0]
    /\ expired' = FALSE

\* The timer is armed and a first cycle started at once.
Start ==
    /\ MayStart /\ polls < MaxPolls
    /\ IF NeedsNewSeason
         THEN Cardinality(RegisteredAgents) >= MinAgents /\ StartNewSeason
         ELSE UNCHANGED <<season, expired, lastSeason>>
    /\ proc' = "running"
    /\ polls' = polls + 1
    /\ UNCHANGED <<boots, archive, board, commitments, agents, regs, flight, lastCycle,
                   ended, began, torn>>

\* Clears the timer; what is in flight continues until the process exits.
Stop ==
    /\ proc = "running"
    /\ proc' = "stopped"
    /\ UNCHANGED <<boots, disk, memory, lastCycle, ended, began, torn>>

EndTimePasses ==
    /\ IsActive /\ ~expired
    /\ expired' = TRUE
    /\ UNCHANGED <<proc, boots, season, lastSeason, archive, board, commitments, memory,
                   lastCycle, ended, began, torn>>
-----------------------------------------------------------------------------
(* A cycle.                                                                *)

\* A plausible slip: the timer is cleared at the season's end time.
TimerArmedMutant == proc = "running" /\ ~expired

TimerArmed == proc = "running"

TimerFires ==
    /\ TimerArmed /\ polls < MaxPolls
    /\ polls' = polls + 1
    /\ UNCHANGED <<proc, boots, disk, agents, regs, flight, lastCycle, ended, began, torn>>

\* getSnapshot rejects (the error is logged), or resolves when there is no
\* active season left.
PollEndsInNothing ==
    /\ polls > 0
    /\ polls' = polls - 1
    /\ UNCHANGED <<proc, boots, disk, agents, regs, flight, lastCycle, ended, began, torn>>

\* runCycleWithSnapshot up to the await of all the agents.
BeginCycle ==
    /\ polls > 0 /\ IsActive /\ ~expired
    /\ lastCycle < MaxCycles
    /\ polls' = polls - 1
    /\ lastCycle' = lastCycle + 1
    /\ flight' = [flight EXCEPT ![lastCycle + 1] =
                    [pc |-> "deciding", waits |-> RegisteredAgents,
                     held |-> [a \in Players |-> agents[a].obj], said |-> {}]]
    /\ began' = [began EXCEPT ![lastCycle + 1] = season.id]
    /\ UNCHANGED <<proc, boots, disk, agents, regs, ended, torn>>

\* A plausible slip: answers that come in after the end time are not kept.
PushedMutant(c, a) ==
    IF agents[a].obj = flight[c].held[a] /\ ~expired
      THEN [agents EXCEPT ![a].signals = @ \cup {c}]
      ELSE agents

\* The signal goes to the AgentState the cycle picked up when it began, which
\* need not be the one registered by now.
Pushed(c, a) ==
    IF agents[a].obj = flight[c].held[a]
      THEN [agents EXCEPT ![a].signals = @ \cup {c}]
      ELSE agents

\* runAgentCycle: decide resolves with a signal, or with none (a decision that
\* fails, or times out, is counted and yields none).
AgentAnswers(c, a) ==
    /\ flight[c].pc = "deciding" /\ a \in flight[c].waits
    /\ \/ /\ flight' = [flight EXCEPT ![c].waits = @ \ {a}, ![c].said = @ \cup {a}]
          /\ agents' = Pushed(c, a)
       \/ /\ flight' = [flight EXCEPT ![c].waits = @ \ {a}]
          /\ UNCHANGED agents
    /\ UNCHANGED <<proc, boots, disk, regs, polls, lastCycle, ended, began, torn>>

\* A plausible slip: the cycle waits for every agent registered by now.
DecidedMutant(c) ==
    flight[c].pc = "deciding" /\ flight[c].waits = {}
      /\ \A a \in RegisteredAgents : flight[c].held[a] = agents[a].obj

Decided(c) == flight[c].pc = "deciding" /\ flight[c].waits = {}

\* saveCycleCommitment: the season's id is read now, after the await.
CycleRow(c) == [season |-> season.id, cycle |-> c, signals |-> flight[c].said]

\* A plausible slip: the season written back was read before the await.
IncrementedMutant == [season EXCEPT !.cycles = @ + 1, !.status = "active"]

\* incrementCycle does not look at the season's status.
Incremented == [season EXCEPT !.cycles = @ + 1]

\* A plausible slip: the season is saved before the commitment is appended.
WroteCycleMutant(c, k) ==
    /\ season' = IF k >= 1 THEN Incremented ELSE season
    /\ commitments' = IF k >= 2 THEN commitments \cup {CycleRow(c)} ELSE commitments
    /\ board' = IF k >= 3 THEN "live" ELSE board

\* The files after the first k writes of a cycle's end: the commitment, the
\* leaderboard, the season.
WroteCycle(c, k) ==
    /\ commitments' = IF k >= 1 THEN commitments \cup {CycleRow(c)} ELSE commitments
    /\ board' = IF k >= 2 THEN "live" ELSE board
    /\ season' = IF k >= 3 THEN Incremented ELSE season

CompleteCycle(c) ==
    /\ Decided(c)
    /\ WroteCycle(c, 3)
    /\ flight' = [flight EXCEPT ![c].pc = "done"]
    /\ UNCHANGED <<proc, boots, expired, lastSeason, archive, agents, regs, polls,
                   lastCycle, ended, began, torn>>

DiedInCycle(c) ==
    /\ Decided(c)
    /\ \E k \in 1..2 : WroteCycle(c, k)
    /\ Dies /\ torn' = torn + 1
    /\ UNCHANGED <<expired, lastSeason, archive>>
-----------------------------------------------------------------------------
(* Settlement: the first snapshot that finds the active season expired.    *)

\* A plausible slip: isExpired() forgets the status.
MaySettleMutant == season.id # 0 /\ expired

MaySettle == IsActive /\ expired

\* A plausible slip: the root is built from the commitments file.
AllSignalsMutant == UNION {{<<r.cycle, a>> : a \in r.signals} : r \in commitments}

AllSignals == UNION {{<<c, a>> : c \in agents[a].signals} : a \in RegisteredAgents}

\* The files after the first k writes of settle(): season_current.json as
\* 'settling', again as 'settled', the archive, the leaderboard.
WroteSettlement(k) ==
    /\ season' = [season EXCEPT !.status = IF k >= 2 THEN "settled" ELSE "settling"]
    /\ archive' = IF k >= 3 THEN [archive EXCEPT ![season.id] = {season.cycles}] ELSE archive
    /\ board' = IF k >= 4 THEN "final" ELSE board

Settle ==
    /\ polls > 0 /\ MaySettle
    /\ polls' = polls - 1
    /\ WroteSettlement(4)
    /\ ended' = Append(ended, [season |-> season.id, root |-> AllSignals])
    /\ UNCHANGED <<proc, boots, expired, lastSeason, commitments, agents, regs, flight,
                   lastCycle, began, torn>>

DiedInSettle ==
    /\ polls > 0 /\ MaySettle
    /\ \E k \in 1..4 : WroteSettlement(k)
    /\ Dies /\ torn' = torn + 1
    /\ UNCHANGED <<expired, lastSeason, commitments>>

\* The process dies inside writeFileSync of season_current.json: load() finds
\* no JSON in it and takes it for absent.
TornSeasonFile ==
    /\ \/ \E c \in Cycles : Decided(c) /\ commitments' = commitments \cup {CycleRow(c)} /\ board' = "live"
       \/ polls > 0 /\ MaySettle /\ UNCHANGED <<commitments, board>>
    /\ season' = NoSeason
    /\ Dies /\ torn' = torn + 1
    /\ UNCHANGED <<expired, lastSeason, archive>>

EngineNext ==
    \/ Boot \/ Exit \/ StartRefused \/ Start \/ Stop \/ EndTimePasses
    \/ \E a \in Players : RegisterAgent(a) \/ UnregisterAgent(a)
    \/ TimerFires \/ PollEndsInNothing \/ BeginCycle
    \/ \E c \in Cycles, a \in Players : AgentAnswers(c, a)
    \/ \E c \in Cycles : CompleteCycle(c) \/ DiedInCycle(c)
    \/ Settle \/ DiedInSettle \/ TornSeasonFile

EngineSpec == EngineInit /\ [][EngineNext]_engineVars

\* The event loop runs what is ready; the interval timer keeps firing; every
\* agent kind answers or times out; and the market can be polled again and
\* again, if not every time.
EngineFairness ==
    /\ WF_engineVars(TimerFires)
    /\ SF_engineVars(BeginCycle) /\ SF_engineVars(Settle)
    /\ \A c \in Cycles : WF_engineVars(CompleteCycle(c))
    /\ \A c \in Cycles, a \in Players : WF_engineVars(AgentAnswers(c, a))

EngineFairSpec == EngineSpec /\ EngineFairness
-----------------------------------------------------------------------------
(* Properties.                                                             *)

RowSet == [season : 0..MaxSeasons, cycle : Cycles, signals : SUBSET Players]

\* Types of the variables; a cycle in flight belongs to this process and only
\* waits for agents it picked up.
EngineTypeOK ==
    /\ proc \in {"down", "booted", "running", "stopped"}
    /\ boots \in 0..MaxBoots /\ torn \in 0..boots
    /\ season \in [id : 0..lastSeason, cycles : 0..MaxCycles,
                   status : {"none", "active", "settling", "settled"}]
    /\ expired \in BOOLEAN
    /\ lastSeason \in 0..MaxSeasons
    /\ archive \in [SeasonIds -> {{}} \cup {{n} : n \in 0..MaxCycles}]
    /\ board \in {"none", "live", "final"}
    /\ agents \in [Players -> [obj : 0..MaxRegs, signals : SUBSET Cycles]]
    /\ regs \in 0..MaxRegs /\ polls \in 0..MaxPolls /\ lastCycle \in 0..MaxCycles
    /\ flight \in [Cycles -> [pc : {"idle", "deciding", "done"}, waits : SUBSET Players,
                              held : [Players -> 0..MaxRegs], said : SUBSET Players]]
    /\ commitments \subseteq RowSet
    /\ ended \in Seq([season : SeasonIds, root : SUBSET (Cycles \X Players)])
    /\ began \in [Cycles -> 0..MaxSeasons]
    /\ \A c \in Cycles : flight[c].pc # "idle" => Alive /\ c <= lastCycle
    /\ \A c \in Cycles : flight[c].waits \cup flight[c].said
                          \subseteq {a \in Players : flight[c].held[a] # 0}

\* However many snapshots arrive after the end time, in whatever order with
\* the cycles still in flight and across restarts, a season is settled, and its
\* weights handed to the submitter, at most once.
SettledOnce ==
    \A i, j \in 1..Len(ended) : ended[i].season = ended[j].season => i = j

\* The season's id is read only after every agent answered; the commitment
\* nevertheless names the season in which the cycle began, because a process
\* never has a second season.
RowNamesItsSeason ==
    \A r \in commitments : r.season = began[r.cycle]

\* AgentState objects are never cleared between seasons; still no signal of
\* another season is hashed into a season's root.
RootHasOnlyItsSeason ==
    \A i \in 1..Len(ended) : \A x \in ended[i].root : began[x[1]] = ended[i].season

\* Wherever a process dies between the writes, the cycle_count on file never
\* exceeds the commitments written for the season, and falls short of them by
\* at most one for each such death; the archived count is never ahead either.
CountBackedByRows ==
    LET written(s) == Cardinality({r \in commitments : r.season = s})
    IN  /\ season.id # 0 => /\ season.cycles <= written(season.id)
                            /\ written(season.id) <= season.cycles + torn
        /\ \A s \in SeasonIds : \A n \in archive[s] : n <= written(s)

\* A restart resumes an active season: only a death between two writes can
\* make the engine give up a season it never handed to the submitter.
SeasonsAccounted ==
    LET gone == {s \in 1..lastSeason : s # season.id}
        handed == {ended[i].season : i \in 1..Len(ended)}
    IN  Cardinality(gone \ handed) <= torn

\* An archive file, once written, is never written again or removed, and no
\* archived season is ever active again.
ArchiveIsFinal ==
    [][\A s \in SeasonIds : archive[s] # {} =>
          archive'[s] = archive[s] /\ ~(season'.id = s /\ season'.status = "active")]_engineVars

\* What settle() hashes covers every signal that this process committed for the
\* season, of every agent whose registration has not been replaced meanwhile.
SettleCoversCommitted ==
    [][ended' # ended =>
          \A r \in commitments : \A a \in r.signals :
             flight[r.cycle].pc = "done" /\ flight[r.cycle].held[a] = agents[a].obj
               => <<r.cycle, a>> \in ended'[Len(ended')].root]_engineVars

\* While the engine keeps running, an active season whose end time has passed
\* is settled.
ExpiredSeasonSettles ==
    (proc = "running" /\ MaySettle) ~> (season.status = "settled" \/ proc # "running")

\* Slow and failing agents do not block a cycle: every cycle that began is
\* committed unless the process ends.
BegunCycleCommits ==
    \A c \in Cycles : (flight[c].pc = "deciding") ~> (flight[c].pc # "deciding")

\* A running engine settles an expired season and commits every cycle it began
\* (arena-engine.ts:118-121, 154-189).
EngineGetsOn == ExpiredSeasonSettles /\ BegunCycleCommits

\* A season's rows and its root are its own, though the season is looked up only after
\* the awaits and agents' signals are never cleared (arena-engine.ts:171, 306-310).
SeasonsApart == EngineTypeOK /\ RowNamesItsSeason /\ RootHasOnlyItsSeason

\* Deaths between the writes of a cycle or of a settlement lose no more than the write
\* they hit (arena-engine.ts:171-189, 267-320).
BooksSurvive == CountBackedByRows /\ SeasonsAccounted /\ SettledOnce


\* The claim "Build Merkle root from all signals": the root handed over for a
\* season covers every signal the season's cycle commitments record.
RootCoversSeason ==
    \A i \in 1..Len(ended) : \A r \in commitments : \A a \in r.signals :
        r.season = ended[i].season => <<r.cycle, a>> \in ended[i].root
=============================================================================
