----------------------------- MODULE Standings -----------------------------
(***************************************************************************)
(* How the agents of a season stand, and who is told: the live leaderboard *)
(* and the final one of the engine, the file both are written to           *)
(* (leaderboard.ts, arena-engine.ts), and the viewers on the WebSocket     *)
(* (server.ts, broadcaster.ts).  A step is what Node runs between two      *)
(* awaits; a broadcast is part of the step of the engine that makes it.    *)
(* How cycles and processes come and go is in ArenaEngine; the shares that *)
(* softmax gives are counted in small units.                               *)
(***************************************************************************)
EXTENDS Integers, Sequences, FiniteSets, Functions

CONSTANTS
  Entrants,             \* ids of agents
  MinSignalsToQualify, MinTradesToQualify,  \* of arena.yaml
  MinAgentsToStart,
  Viewers,              \* WebSocket connections
  Returns, Share,       \* levels of return, 0 at the start; parts of a weight
  Batches,              \* how many signals an answer may hold
  Slots, MaxMoves, MaxSignals  \* bounds: cycles at once; registrations and removals; signals of one agent

ASSUME StandingsConstants ==
  /\ MinSignalsToQualify \in Nat /\ MinTradesToQualify \in Nat /\ MinAgentsToStart \in Nat
  /\ IsFiniteSet(Entrants) /\ Returns \subseteq Int /\ 0 \in Returns
  /\ Share \in Nat /\ Batches \subseteq Nat /\ MaxMoves \in Nat /\ MaxSignals \in Nat

VARIABLES
  roster,               \* what the engine knows of the agents registered with it
  stage, running,       \* the season: none yet, active, settled; the engine's flag
  asked,                \* the agents that each cycle under way still waits for
  boardFile,            \* leaderboard.json
  viewers, moves

standingVars == <<roster, stage, running, asked, boardFile, viewers, moves>>

\* The settlement's own thresholds (leaderboard.ts), whatever arena.yaml says.
MinSignals == 3
MinTrades == 1

Fresh == [signals |-> 0, trades |-> 0, roi |-> 0, out |-> FALSE]
NoBoard == [kind |-> "none", rows |-> <<>>]
NoViewer == [conn |-> "none", seen |-> NoBoard]
Listed == DOMAIN roster

StandingsInit ==
  /\ roster = <<>> /\ stage = "none" /\ running = FALSE /\ asked = <<>>
  /\ boardFile = NoBoard /\ viewers = [v \in Viewers |-> NoViewer] /\ moves = 0

-----------------------------------------------------------------------------
(* The two leaderboards.  Entries are sorted by return; how equal ones are *)
(* ordered says nothing here.                                              *)

\* The order of registration is kept, for a mutant.
RankingsMutant == {q \in [1..Cardinality(Listed) -> Listed] : IsInjective(q)}
Rankings ==
  {q \in [1..Cardinality(Listed) -> Listed] :
     IsInjective(q) /\ \A i, j \in DOMAIN q : i < j => roster[q[i]].roi >= roster[q[j]].roi}

\* getLeaderboard: by the thresholds of the configuration, and without weights.
ShownValid(a) ==
  /\ roster[a].signals >= MinSignalsToQualify /\ roster[a].trades >= MinTradesToQualify
  /\ ~roster[a].out

LiveBoard(q) ==
  [kind |-> "live",
   rows |-> [k \in DOMAIN q |->
     [agent |-> q[k], of |-> roster[q[k]], valid |-> ShownValid(q[k]), weight |-> 0]]]

\* isValidAgent.  What settle finds of the configuration's thresholds goes into a status
\* that only disqualification is read from.
IsValidAgent(a) ==
  roster[a].signals >= MinSignals /\ roster[a].trades >= MinTrades /\ ~roster[a].out

\* What the settlement algorithm may give: nothing but to valid agents, a better one no less
\* than a worse one, and all to a single one.
Weighings ==
  {w \in [Listed -> 0..Share] :
     LET valid == {a \in Listed : IsValidAgent(a)}
     IN /\ \A a \in Listed \ valid : w[a] = 0
        /\ \A a, b \in valid : roster[a].roi >= roster[b].roi => w[a] >= w[b]
        /\ \A a \in valid : valid = {a} => w[a] = Share}

FinalBoard(q, w) ==
  [kind |-> "final",
   rows |-> [k \in DOMAIN q |->
     [agent |-> q[k], of |-> roster[q[k]], valid |-> IsValidAgent(q[k]), weight |-> w[q[k]]]]]

\* To every client whose connection is open: one turned away is still in the list while its
\* connection closes.
ToldMutant(b) == [v \in Viewers |->
  IF viewers[v].conn # "none" THEN [viewers[v] EXCEPT !.seen = b] ELSE viewers[v]]
Told(b) == [v \in Viewers |->
  IF viewers[v].conn = "open" THEN [viewers[v] EXCEPT !.seen = b] ELSE viewers[v]]

\* The hooks of the server, fired in the step in which the file is written.
Hooks(b) == viewers' = Told(b)
SaveLeaderboard(b) == boardFile' = b

-----------------------------------------------------------------------------
(* The engine *)

Move == moves < MaxMoves /\ moves' = moves + 1

\* What an agent does for a cycle that picked it up before it was replaced or removed is
\* seen by no leaderboard.
Without(a) == [c \in DOMAIN asked |-> asked[c] \ {a}]

\* A registration under an id in use replaces what the engine knew.
RegisterEntrant(a) ==
  /\ Move
  /\ roster' = [b \in Listed \cup {a} |-> IF b = a THEN Fresh ELSE roster[b]]
  /\ asked' = Without(a)
  /\ UNCHANGED <<stage, running, boardFile, viewers>>

UnregisterEntrant(a) ==
  /\ Move /\ a \in Listed
  /\ roster' = [b \in Listed \ {a} |-> roster[b]]
  /\ asked' = Without(a)
  /\ UNCHANGED <<stage, running, boardFile, viewers>>

\* Nobody is connected when a season starts, in the step in which the server begins to listen.
StartSeason ==
  /\ ~running
  /\ stage = "active" \/ Cardinality(Listed) >= MinAgentsToStart
  /\ stage' = "active" /\ running' = TRUE
  /\ UNCHANGED <<roster, asked, boardFile, viewers, moves>>

CycleOpens(c) ==
  /\ running /\ stage = "active" /\ c \notin DOMAIN asked
  /\ asked' = [d \in DOMAIN asked \cup {c} |-> IF d = c THEN Listed ELSE asked[d]]
  /\ UNCHANGED <<roster, stage, running, boardFile, viewers, moves>>

\* An agent answers in a cycle: signals, trades made of them, and the return at the cycle's
\* prices.  Without a trade the return stays; failures strike out, and a success lets in.
EntrantAnswers(c, a) ==
  /\ c \in DOMAIN asked /\ a \in asked[c]
  /\ asked' = [asked EXCEPT ![c] = @ \ {a}]
  /\ \E s \in Batches, t \in Batches, roi \in Returns, out \in BOOLEAN :
       /\ roster[a].signals + s <= MaxSignals /\ t <= s /\ (roster[a].trades + t = 0 => roi = 0)
       /\ roster' = [roster EXCEPT ![a] = [signals |-> @.signals + s, trades |-> @.trades + t,
                                           roi |-> roi, out |-> out]]
  /\ UNCHANGED <<stage, running, boardFile, viewers, moves>>

\* saveLeaderboard, and the hooks: also for a cycle that ends after its season was settled.
CycleCloses(c) ==
  /\ c \in DOMAIN asked /\ asked[c] = {}
  /\ asked' = [d \in DOMAIN asked \ {c} |-> asked[d]]
  /\ \E q \in Rankings : SaveLeaderboard(LiveBoard(q)) /\ Hooks(LiveBoard(q))
  /\ UNCHANGED <<roster, stage, running, moves>>

SeasonSettles ==
  /\ running /\ stage = "active" /\ stage' = "settled"
  /\ \E q \in Rankings, w \in Weighings :
       SaveLeaderboard(FinalBoard(q, w)) /\ Hooks(FinalBoard(q, w))
  /\ UNCHANGED <<roster, running, asked, moves>>

\* The process ends, and the next begins; season and leaderboard are on disk.
ProcessRestarts ==
  /\ running /\ running' = FALSE
  /\ roster' = <<>> /\ asked' = <<>>
  /\ viewers' = [v \in Viewers |-> NoViewer]
  /\ UNCHANGED <<stage, boardFile, moves>>

-----------------------------------------------------------------------------
(* Viewers.  A connection without the token, if one is set, is closed.     *)

Connect(v, authorized) ==
  /\ running /\ viewers[v].conn = "none"
  /\ viewers' = [viewers EXCEPT ![v].conn = IF authorized THEN "open" ELSE "closing"]
  /\ UNCHANGED <<roster, stage, running, asked, boardFile, moves>>

Disconnect(v) ==
  /\ viewers[v].conn # "none"
  /\ viewers' = [viewers EXCEPT ![v] = NoViewer]
  /\ UNCHANGED <<roster, stage, running, asked, boardFile, moves>>

StandingsNext ==
  \/ \E a \in Entrants : RegisterEntrant(a) \/ UnregisterEntrant(a)
  \/ \E c \in Slots : CycleOpens(c) \/ CycleCloses(c) \/ \E a \in Entrants : EntrantAnswers(c, a)
  \/ StartSeason \/ SeasonSettles \/ ProcessRestarts
  \/ \E v \in Viewers : Disconnect(v) \/ \E authorized \in BOOLEAN : Connect(v, authorized)

StandingsSpec == StandingsInit /\ [][StandingsNext]_standingVars

-----------------------------------------------------------------------------
\* What is shown is what is so: a viewer who was told anything was last told what the file
\* says, over overlapping cycles, settlements and late cycles (the file is written and the hooks
\* are fired in one step); one turned away was told nothing; and down a final leaderboard the
\* weights of those paid never rise, though ranks and weights are computed apart.
TellsTheFile(v) == viewers[v].seen # NoBoard => viewers[v].conn = "open" /\ viewers[v].seen = boardFile
PaidInOrder(entries) ==
  \A i, j \in DOMAIN entries :
    /\ i < j /\ entries[i].valid /\ entries[j].valid => entries[i].weight >= entries[j].weight
    /\ entries[i].agent = entries[j].agent => i = j
    /\ entries[i].weight > 0 => entries[i].valid
StandingsSound ==
  /\ \A v \in Viewers : TellsTheFile(v)
  /\ boardFile.kind = "final" => PaidInOrder(boardFile.rows)
=============================================================================
