---------------------------- MODULE ArenaEngineProofs ----------------------------
(* What is proved of the engine that runs the seasons, of the learning roots that   *)
(* its settlement starts, and of the submitter and the alerts that leave it.        *)
EXTENDS ArenaEngine, LearningSync, SettlementSubmit, NatSumTheorems, FiniteSetTheorems, TLAPS


-----------------------------------------------------------------------------
(* The seasons of the engine *)

EngineConstants ==
    MaxSeasons \in Nat /\ MaxCycles \in Nat /\ MaxPolls \in Nat /\ MaxRegs \in Nat /\ MaxBoots \in Nat

Statuses == {"none", "active", "settling", "settled"}
FlightRecord == [pc : {"idle", "deciding", "done"}, waits : SUBSET Players,
                 held : [Players -> 0..MaxRegs], said : SUBSET Players]
AgentRecord == [obj : 0..MaxRegs, signals : SUBSET Cycles]
EndRecord == [season : SeasonIds, root : SUBSET (Cycles \X Players)]

\* The types, but for the bound on the season's counter, which is a fact about the
\* rows.  At most one death in the middle of a step comes with each process.
ScalarInv ==
    /\ proc \in {"down", "booted", "running", "stopped"}
    /\ boots \in 0..MaxBoots /\ torn \in Nat
    /\ torn <= boots /\ (Alive => torn < boots)
    /\ lastSeason \in 0..MaxSeasons
    /\ season \in [id : Nat, status : Statuses, cycles : Nat] /\ season.id <= lastSeason
    /\ season.id = 0 <=> season.status = "none"
    /\ season.id = 0 => season.cycles = 0
    /\ regs \in 0..MaxRegs /\ polls \in 0..MaxPolls /\ lastCycle \in 0..MaxCycles

DataInv ==
    /\ archive \in [SeasonIds -> {{}} \cup {{n} : n \in Nat}]
    /\ board \in {"none", "live", "final"}
    /\ agents \in [Players -> AgentRecord]
    /\ flight \in [Cycles -> FlightRecord]
    /\ commitments \subseteq RowSet
    /\ ended \in Seq(EndRecord)
    /\ began \in [Cycles -> 0..MaxSeasons]

TypeInv == ScalarInv /\ DataInv

\* A process that has not started a season holds nothing of another one; what it holds
\* later is of its one season.
FlightInv ==
    /\ proc \in {"down", "booted"} =>
          /\ polls = 0 /\ \A c \in Cycles : flight[c].pc = "idle"
          /\ \A a \in Players : agents[a].signals = {}
    /\ \A c \in Cycles : flight[c].pc # "idle" =>
          c <= lastCycle /\ began[c] = season.id /\ season.id # 0
    /\ \A c \in Cycles : \A a \in flight[c].waits \cup flight[c].said : flight[c].held[a] # 0
    /\ \A a \in Players : \A c \in agents[a].signals : flight[c].pc # "idle"

\* A cycle writes one row, when it is decided.
RowsInv ==
    /\ \A r \in commitments : /\ r.cycle <= lastCycle /\ r.season <= lastSeason
                       /\ r.season = began[r.cycle] /\ flight[r.cycle].pc # "deciding"
    /\ \A r, q \in commitments : r.cycle = q.cycle => r = q

\* A season that was handed over or archived is no longer active.
EndedInv ==
    /\ SettledOnce
    /\ \A i \in 1..Len(ended) :
          /\ ended[i].season <= lastSeason
          /\ ended[i].season = season.id => season.status # "active"
          /\ \A x \in ended[i].root : x[1] <= lastCycle /\ began[x[1]] = ended[i].season
    /\ \A s \in SeasonIds : archive[s] # {} =>
          s <= lastSeason /\ (s = season.id => season.status # "active")

EngineInv == TypeInv /\ FlightInv /\ RowsInv /\ EndedInv

\* The inductive invariant holds of a process that was never started.
THEOREM EngineInvInit == EngineConstants /\ EngineInit => EngineInv
<1> SUFFICES ASSUME EngineConstants, EngineInit PROVE EngineInv
  OBVIOUS
<1>1. ScalarInv
  BY DEF EngineConstants, EngineInit, ScalarInv, NoSeason, Statuses, Alive
<1>4. DataInv
  <2>1. NoCycle \in FlightRecord /\ Unregistered \in AgentRecord
    BY DEF EngineConstants, NoCycle, Unregistered, FlightRecord, AgentRecord
  <2>2. archive \in [SeasonIds -> {{}} \cup {{n} : n \in Nat}]
    BY DEF EngineInit
  <2> QED
    BY <2>1, <2>2 DEF EngineConstants, EngineInit, DataInv
<1>2. FlightInv
  BY DEF EngineConstants, EngineInit, FlightInv, NoCycle, Unregistered
<1>3. RowsInv /\ EndedInv
  BY DEF EngineConstants, EngineInit, RowsInv, EndedInv, SettledOnce
<1> QED
  BY <1>1, <1>2, <1>3, <1>4 DEF EngineInv, TypeInv

\* A process that dies leaves nothing in memory; the files are what they are.
LEMMA DiesInv ==
    ASSUME EngineInv, EngineConstants, Alive, Dies
    PROVE  /\ proc' = "down" /\ boots' = boots /\ polls' = 0 /\ regs' = 0
           /\ lastCycle' = lastCycle /\ began' = began /\ ended' = ended
           /\ flight' \in [Cycles -> FlightRecord] /\ agents' \in [Players -> AgentRecord]
           /\ FlightInv' /\ ~Alive' /\ \A c \in Cycles : flight'[c].pc = "idle"
<1>1. NoCycle \in FlightRecord /\ Unregistered \in AgentRecord
  BY DEF EngineConstants, NoCycle, Unregistered, FlightRecord, AgentRecord
<1> QED
  BY <1>1 DEF Dies, FlightInv, NoCycle, Unregistered, Alive

\* Steps that leave seasons, rows and hand-overs alone.
LEMMA QuietInv ==
    ASSUME EngineInv, EngineConstants,
           UNCHANGED <<season, lastSeason, archive, board, commitments, ended, began, lastCycle>>,
           TypeInv', FlightInv',
           \A c \in Cycles : flight'[c].pc = "deciding" => flight[c].pc = "deciding"
    PROVE  EngineInv'
<1>1. RowsInv'
  BY DEF EngineInv, TypeInv, DataInv, RowsInv, RowSet
<1>2. EndedInv'
  BY DEF EngineInv, EndedInv, SettledOnce
<1> QED
  BY <1>1, <1>2 DEF EngineInv

\* Steps that leave seasons, archive, rows and cycles alone.
LEMMA ProcessSteps ==
    ASSUME EngineInv, EngineConstants,
           Boot \/ Exit \/ StartRefused \/ Stop \/ EndTimePasses \/ TimerFires \/ PollEndsInNothing
    PROVE  EngineInv'
<1> USE DEF EngineInv, EngineConstants, TypeInv, ScalarInv
<1>1. UNCHANGED <<season, lastSeason, archive, board, commitments, ended, began, lastCycle, torn>>
  BY DEF Boot, Exit, StartRefused, Stop, EndTimePasses, TimerFires, PollEndsInNothing, disk, Dies
<1>2. CASE Boot
  <2>1. TypeInv'
    BY <1>1, <1>2 DEF Boot, Alive, memory, disk, DataInv
  <2>2. FlightInv' /\ flight' = flight
    BY <1>1, <1>2 DEF Boot, FlightInv, memory
  <2> QED
    BY <1>1, <2>1, <2>2, QuietInv
<1>3. CASE Exit
  <2>1. Alive /\ Dies /\ expired' = expired
    BY <1>3 DEF Exit, disk
  <2>2. /\ proc' = "down" /\ boots' = boots /\ regs' = 0 /\ polls' = 0
        /\ lastCycle' = lastCycle /\ began' = began /\ ended' = ended
        /\ flight' \in [Cycles -> FlightRecord] /\ agents' \in [Players -> AgentRecord]
    BY <2>1, DiesInv
  <2>3. DataInv'
    BY <1>1, <2>2 DEF DataInv
  <2>4. ScalarInv'
    BY <1>1, <2>2, DiesInv, <2>1
  <2> QED
    BY <1>1, <2>1, <2>3, <2>4, DiesInv, QuietInv
<1>4. CASE StartRefused \/ Stop
  <2>1. TypeInv'
    BY <1>1, <1>4 DEF StartRefused, Stop, Alive, memory, disk, MayStart, DataInv
  <2>2. FlightInv' /\ flight' = flight
    BY <1>1, <1>4 DEF StartRefused, Stop, FlightInv, memory
  <2> QED
    BY <1>1, <2>1, <2>2, QuietInv
<1>5. CASE EndTimePasses
  <2>1. TypeInv'
    BY <1>1, <1>5 DEF EndTimePasses, Alive, memory, DataInv
  <2>2. FlightInv' /\ flight' = flight
    BY <1>1, <1>5 DEF EndTimePasses, FlightInv, memory
  <2> QED
    BY <1>1, <2>1, <2>2, QuietInv
<1>6. CASE TimerFires \/ PollEndsInNothing
  <2>1. TypeInv'
    <3>1. polls' \in 0..MaxPolls
      BY <1>6 DEF TimerFires, PollEndsInNothing
    <3>2. UNCHANGED <<proc, boots, regs, agents, flight>>
      BY <1>6 DEF TimerFires, PollEndsInNothing
    <3> QED
      BY <1>1, <3>1, <3>2 DEF Alive, DataInv
  <2>2. FlightInv' /\ flight' = flight
    BY <1>1, <1>6 DEF TimerFires, TimerArmed, PollEndsInNothing, FlightInv
  <2> QED
    BY <1>1, <2>1, <2>2, QuietInv
<1> QED
  BY <1>2, <1>3, <1>4, <1>5, <1>6

\* Agents come, go and are replaced; a new object holds no signals.
LEMMA AgentSteps ==
    ASSUME EngineInv, EngineConstants, NEW a \in Players, RegisterAgent(a) \/ UnregisterAgent(a)
    PROVE  EngineInv'
<1> USE DEF EngineInv, EngineConstants, TypeInv
<1>1. UNCHANGED <<season, lastSeason, archive, board, commitments, ended, began, lastCycle, torn,
                  proc, boots, polls, flight>>
  BY DEF RegisterAgent, UnregisterAgent, disk
<1>2. /\ regs' \in 0..MaxRegs
      /\ \E o \in 0..MaxRegs : agents' = [agents EXCEPT ![a] = [obj |-> o, signals |-> {}]]
  BY DEF RegisterAgent, UnregisterAgent, ScalarInv, Unregistered
<1>3. PICK o \in 0..MaxRegs : agents' = [agents EXCEPT ![a] = [obj |-> o, signals |-> {}]]
  BY <1>2
<1>4. [obj |-> o, signals |-> {}] \in AgentRecord
  BY DEF AgentRecord
<1>5. agents' \in [Players -> AgentRecord] /\ \A b \in Players : agents'[b].signals \subseteq agents[b].signals
  BY <1>3, <1>4 DEF DataInv
<1>6. ScalarInv'
  BY <1>1, <1>2 DEF ScalarInv, Alive
<1>7. DataInv'
  BY <1>1, <1>5 DEF DataInv
<1>8. FlightInv'
  BY <1>1, <1>5 DEF FlightInv
<1> QED
  BY <1>1, <1>6, <1>7, <1>8, QuietInv

\* What was handed over.
LEMMA Handed ==
    ASSUME DataInv
    PROVE  /\ Len(ended) \in Nat
           /\ \A i \in 1..Len(ended) : /\ ended[i].season \in SeasonIds /\ ended[i].season \in Nat
                                       /\ ended[i].root \subseteq Cycles \X Players
<1>1. Len(ended) \in Nat /\ \A i \in 1..Len(ended) : ended[i] \in EndRecord
  BY DEF DataInv
<1> QED
  BY <1>1 DEF EndRecord, SeasonIds

\* What a season that is active may not be: handed over, archived, or none.
LEMMA ActiveSeason ==
    ASSUME EngineInv, EngineConstants, IsActive
    PROVE  /\ season.id \in SeasonIds /\ season.id <= lastSeason
           /\ archive[season.id] = {} /\ \A i \in 1..Len(ended) : ended[i].season # season.id
  BY DEF EngineInv, EngineConstants, TypeInv, ScalarInv, DataInv, EndedInv, IsActive, SeasonIds

\* A process starts at most one season, before it does anything else.
LEMMA StartInv == ASSUME EngineInv, EngineConstants, Start PROVE EngineInv'
<1> USE DEF EngineInv, EngineConstants, TypeInv
<1>1. /\ proc = "booted" /\ proc' = "running" /\ polls' = polls + 1 /\ polls < MaxPolls
      /\ UNCHANGED <<boots, archive, board, commitments, agents, regs, flight, lastCycle, ended, began, torn>>
  BY DEF Start, MayStart
<1>2. \/ UNCHANGED <<season, lastSeason>>
      \/ StartNewSeason
  BY DEF Start
<1>3. CASE UNCHANGED <<season, lastSeason>>
  <2>1. ScalarInv'
    BY <1>1, <1>3 DEF ScalarInv, Alive
  <2>2. DataInv' /\ FlightInv'
    BY <1>1, <1>3 DEF DataInv, FlightInv
  <2> QED
    BY <1>1, <1>3, <2>1, <2>2, QuietInv
<1>4. CASE StartNewSeason
  <2>1. /\ lastSeason \in Nat /\ lastSeason' = lastSeason + 1 /\ lastSeason' \in 0..MaxSeasons
        /\ season' = [id |-> lastSeason + 1, status |-> "active", cycles |-> 0]
        /\ season'.id = lastSeason + 1 /\ season'.status = "active"
    BY <1>4 DEF StartNewSeason, ScalarInv
  <2>2. ScalarInv'
    BY <1>1, <2>1 DEF ScalarInv, Alive, Statuses
  <2>3. DataInv'
    BY <1>1 DEF DataInv
  <2>4. \A c \in Cycles : flight[c].pc = "idle"
    BY <1>1 DEF FlightInv
  <2>5. FlightInv'
    BY <1>1, <2>4 DEF FlightInv
  <2>6. RowsInv'
    <3>1. \A r \in commitments : r.season \in Nat
      BY DEF DataInv, RowSet
    <3> QED
      BY <1>1, <2>1, <3>1 DEF RowsInv
  <2>7. EndedInv'
    <3>1. \A i \in 1..Len(ended) : ended[i].season \in Nat
      BY Handed
    <3>2. \A s \in SeasonIds : s \in Nat
      BY DEF SeasonIds
    <3> QED
      BY <1>1, <2>1, <3>1, <3>2 DEF EndedInv, SettledOnce
  <2> QED
    BY <2>2, <2>3, <2>5, <2>6, <2>7
<1> QED
  BY <1>2, <1>3, <1>4

\* A cycle takes a new number, and the season of the moment.
LEMMA BeginCycleInv == ASSUME EngineInv, EngineConstants, BeginCycle PROVE EngineInv'
<1> USE DEF EngineInv, EngineConstants, TypeInv
<1> DEFINE n == lastCycle + 1
           new == [pc |-> "deciding", waits |-> RegisteredAgents,
                   held |-> [a \in Players |-> agents[a].obj], said |-> {}]
<1>1. /\ polls > 0 /\ season.status = "active" /\ lastCycle < MaxCycles
      /\ polls' = polls - 1 /\ lastCycle' = n
      /\ flight' = [flight EXCEPT ![n] = new] /\ began' = [began EXCEPT ![n] = season.id]
      /\ UNCHANGED <<proc, boots, season, expired, lastSeason, archive, board, commitments, agents, regs, ended, torn>>
  BY DEF BeginCycle, IsActive, disk
<1>2. lastCycle \in Nat /\ n \in Cycles /\ n <= MaxCycles /\ \A c \in Cycles : c \in Nat
  BY <1>1 DEF ScalarInv, Cycles
<1>3. new \in FlightRecord
  <2>1. \A a \in Players : agents[a].obj \in 0..MaxRegs
    BY DEF DataInv, AgentRecord
  <2> QED
    BY <2>1 DEF FlightRecord, RegisteredAgents
<1>4. season.id \in 0..MaxSeasons /\ season.id # 0
  BY <1>1 DEF ScalarInv
<1>5. /\ flight' \in [Cycles -> FlightRecord]
      /\ \A c \in Cycles : flight'[c] = IF c = n THEN new ELSE flight[c]
  BY <1>1, <1>2, <1>3 DEF DataInv
<1>6. /\ began' \in [Cycles -> 0..MaxSeasons]
      /\ \A c \in Cycles : began'[c] = IF c = n THEN season.id ELSE began[c]
  BY <1>1, <1>2, <1>4 DEF DataInv
<1>7. ScalarInv'
  BY <1>1, <1>2 DEF ScalarInv, Alive
<1>8. DataInv'
  BY <1>1, <1>5, <1>6 DEF DataInv
<1>9. FlightInv'
  <2>1. proc \notin {"down", "booted"}
    BY <1>1 DEF FlightInv
  <2>2. \A c \in Cycles : flight'[c].pc # "idle" => c <= n /\ began'[c] = season.id /\ season.id # 0
    BY <1>2, <1>4, <1>5, <1>6 DEF FlightInv
  <2>3. \A c \in Cycles : \A a \in flight'[c].waits \cup flight'[c].said : flight'[c].held[a] # 0
    <3>1. \A a \in new.waits \cup new.said : new.held[a] # 0
      BY DEF RegisteredAgents
    <3> HIDE DEF new
    <3> QED
      BY <3>1, <1>5 DEF FlightInv
  <2>4. \A a \in Players : \A c \in agents[a].signals : c \in Cycles /\ flight'[c].pc # "idle"
    <3>1. \A a \in Players : agents[a].signals \subseteq Cycles
      BY DEF DataInv, AgentRecord
    <3> QED
      BY <3>1, <1>5 DEF FlightInv
  <2> QED
    BY <1>1, <2>1, <2>2, <2>3, <2>4 DEF FlightInv
<1>10. RowsInv'
  <2>1. \A r \in commitments : r.cycle \in Cycles /\ r.cycle # n /\ r.cycle <= n
    BY <1>2 DEF DataInv, RowsInv, RowSet
  <2> HIDE DEF n
  <2> QED
    BY <1>1, <1>5, <1>6, <2>1 DEF RowsInv
<1>11. EndedInv'
  <2>1. \A i \in 1..Len(ended) : \A x \in ended[i].root : x[1] \in Cycles /\ x[1] # n /\ x[1] <= n
    BY <1>2, Handed DEF EndedInv
  <2> HIDE DEF n
  <2> QED
    BY <1>1, <1>6, <2>1 DEF EndedInv, SettledOnce
<1> QED
  BY <1>7, <1>8, <1>9, <1>10, <1>11

\* An answer is kept by the object the cycle began with, if that is still the agent's.
LEMMA AgentAnswersInv ==
    ASSUME EngineInv, EngineConstants, NEW c \in Cycles, NEW a \in Players, AgentAnswers(c, a)
    PROVE  EngineInv'
<1> USE DEF EngineInv, EngineConstants, TypeInv
<1>1. /\ flight[c].pc = "deciding" /\ a \in flight[c].waits
      /\ UNCHANGED <<proc, boots, season, expired, lastSeason, archive, board, commitments, regs, polls,
                     lastCycle, ended, began, torn>>
  BY DEF AgentAnswers, disk
<1>2. PICK f \in FlightRecord :
          /\ flight' = [flight EXCEPT ![c] = f]
          /\ f.pc = "deciding" /\ f.held = flight[c].held
          /\ f.waits \subseteq flight[c].waits /\ f.said \subseteq flight[c].said \cup {a}
  <2>1. flight[c] \in FlightRecord
    BY DEF DataInv
  <2>2. CASE flight' = [flight EXCEPT ![c].waits = @ \ {a}, ![c].said = @ \cup {a}]
    <3> DEFINE f == [flight[c] EXCEPT !.waits = flight[c].waits \ {a},
                                      !.said = flight[c].said \cup {a}]
    <3>1. flight' = [flight EXCEPT ![c] = f]
      BY <2>1, <2>2 DEF DataInv
    <3>2. /\ f \in FlightRecord /\ f.pc = "deciding" /\ f.held = flight[c].held
          /\ f.waits \subseteq flight[c].waits /\ f.said \subseteq flight[c].said \cup {a}
      BY <1>1, <2>1 DEF FlightRecord
    <3> QED
      BY <3>1, <3>2
  <2>3. CASE flight' = [flight EXCEPT ![c].waits = @ \ {a}]
    <3> DEFINE f == [flight[c] EXCEPT !.waits = flight[c].waits \ {a}]
    <3>1. flight' = [flight EXCEPT ![c] = f]
      BY <2>1, <2>3 DEF DataInv
    <3>2. /\ f \in FlightRecord /\ f.pc = "deciding" /\ f.held = flight[c].held
          /\ f.waits \subseteq flight[c].waits /\ f.said \subseteq flight[c].said \cup {a}
      BY <1>1, <2>1 DEF FlightRecord
    <3> QED
      BY <3>1, <3>2
  <2> QED
    BY <2>2, <2>3 DEF AgentAnswers
<1>3. /\ flight' \in [Cycles -> FlightRecord]
      /\ \A d \in Cycles : flight'[d] = IF d = c THEN f ELSE flight[d]
  BY <1>2 DEF DataInv
<1>4. /\ agents' \in [Players -> AgentRecord]
      /\ \A b \in Players : agents'[b].signals \subseteq agents[b].signals \cup {c}
  <2>1. \A b \in Players : agents[b] \in AgentRecord /\ agents[b].signals \subseteq Cycles
    BY DEF DataInv, AgentRecord
  <2>2. CASE agents' = agents
    BY <2>1, <2>2 DEF DataInv
  <2>3. CASE agents' = [agents EXCEPT ![a].signals = @ \cup {c}]
    <3> DEFINE g == [agents[a] EXCEPT !.signals = agents[a].signals \cup {c}]
    <3>1. agents' = [agents EXCEPT ![a] = g]
      BY <2>1, <2>3 DEF DataInv
    <3>2. g \in AgentRecord /\ g.signals = agents[a].signals \cup {c}
      BY <2>1 DEF AgentRecord
    <3> QED
      BY <3>1, <3>2 DEF DataInv
  <2> QED
    BY <2>2, <2>3 DEF AgentAnswers, Pushed
<1>5. ScalarInv'
  BY <1>1 DEF ScalarInv, Alive
<1>6. DataInv'
  BY <1>1, <1>3, <1>4 DEF DataInv
<1>7. FlightInv'
  <2>1. proc \notin {"down", "booted"}
    BY <1>1 DEF FlightInv
  <2>2. \A d \in Cycles : flight'[d].pc # "idle" =>
            d <= lastCycle /\ began[d] = season.id /\ season.id # 0
    BY <1>1, <1>2, <1>3 DEF FlightInv
  <2>3. \A d \in Cycles : \A b \in flight'[d].waits \cup flight'[d].said : flight'[d].held[b] # 0
    BY <1>1, <1>2, <1>3 DEF FlightInv
  <2>4. \A b \in Players : \A d \in agents'[b].signals : flight'[d].pc # "idle"
    <3>1. \A b \in Players : agents'[b].signals \subseteq Cycles
      BY <1>4 DEF AgentRecord
    <3> QED
      BY <1>1, <1>2, <1>3, <1>4, <3>1 DEF FlightInv
  <2> QED
    BY <1>1, <2>1, <2>2, <2>3, <2>4 DEF FlightInv
<1> QED
  BY <1>1, <1>2, <1>3, <1>5, <1>6, <1>7, QuietInv

\* The row of a cycle that every agent has answered.
LEMMA RowTyped ==
    ASSUME EngineInv, EngineConstants, NEW c \in Cycles, Decided(c)
    PROVE  /\ CycleRow(c) \in RowSet /\ CycleRow(c).cycle = c /\ CycleRow(c).season = season.id
           /\ began[c] = season.id /\ c <= lastCycle /\ season.id # 0
           /\ \A r \in commitments : r.cycle # c
           /\ Alive /\ proc \notin {"down", "booted"}
<1> USE DEF EngineInv, EngineConstants, TypeInv
<1>1. flight[c] \in FlightRecord /\ flight[c].pc = "deciding"
  BY DEF Decided, DataInv
<1>2. season.id \in 0..MaxSeasons
  BY DEF ScalarInv
<1>3. CycleRow(c) \in RowSet /\ CycleRow(c).cycle = c /\ CycleRow(c).season = season.id
  BY <1>1, <1>2 DEF CycleRow, RowSet, FlightRecord
<1>4. \A r \in commitments : r.cycle # c
  BY <1>1 DEF RowsInv
<1>5. Alive /\ proc \notin {"down", "booted"}
  BY <1>1 DEF FlightInv, Alive
<1> QED
  BY <1>1, <1>3, <1>4, <1>5 DEF FlightInv

\* The rows after a cycle's end, wherever it stops, are as sound as before, once the
\* cycle is over.
LEMMA RowAdded ==
    ASSUME EngineInv, EngineConstants, NEW c \in Cycles, Decided(c), commitments' \in {commitments, commitments \cup {CycleRow(c)}},
           lastSeason' = lastSeason, lastCycle' = lastCycle, began' = began,
           flight'[c].pc # "deciding",
           \A d \in Cycles : flight'[d].pc = "deciding" => flight[d].pc = "deciding"
    PROVE  RowsInv' /\ commitments' \subseteq RowSet
<1> USE DEF EngineInv, EngineConstants, TypeInv
<1>1. /\ CycleRow(c) \in RowSet /\ CycleRow(c).cycle = c /\ CycleRow(c).season = began[c] /\ c <= lastCycle
      /\ \A r \in commitments : r.cycle # c
  BY RowTyped
<1>2. CycleRow(c).season <= lastSeason
  BY RowTyped DEF ScalarInv
<1>3. \A r \in commitments : r.cycle \in Cycles
  BY DEF DataInv, RowSet
<1>4. commitments' \subseteq RowSet
  BY <1>1 DEF DataInv
<1> HIDE DEF EngineInv
<1>5. RowsInv
  BY DEF EngineInv
<1>6. \A r \in commitments' : r \in commitments \/ r = CycleRow(c)
  OBVIOUS
<1>7. \A r \in commitments' : /\ r.cycle <= lastCycle /\ r.season <= lastSeason
                       /\ r.season = began[r.cycle] /\ flight'[r.cycle].pc # "deciding"
  BY <1>1, <1>2, <1>3, <1>5, <1>6 DEF RowsInv
<1>8. \A r, q \in commitments' : r.cycle = q.cycle => r = q
  BY <1>1, <1>5, <1>6 DEF RowsInv
<1> QED
  BY <1>4, <1>7, <1>8 DEF RowsInv

\* The counter of a season may grow, and its status end, under hand-overs that stay.
LEMMA EndedStays ==
    ASSUME EngineInv, UNCHANGED <<ended, began, lastCycle, lastSeason, archive>>,
           season'.id \in {0, season.id},
           season'.status = "active" => season'.id = season.id /\ season.status = "active"
    PROVE  EndedInv'
<1> USE DEF EngineInv, TypeInv
<1>1. EndedInv /\ season' \in {season'}
  OBVIOUS
<1>2. \A i \in 1..Len(ended) : ended[i].season = season'.id => season'.status # "active"
  BY <1>1 DEF EndedInv
<1>3. \A s \in SeasonIds : archive[s] # {} => s <= lastSeason /\ (s = season'.id => season'.status # "active")
  BY <1>1 DEF EndedInv
<1> QED
  BY <1>1, <1>2, <1>3 DEF EndedInv, SettledOnce

\* The end of a cycle: its row goes out under the season it began in.
LEMMA CompleteCycleInv ==
    ASSUME EngineInv, EngineConstants, NEW c \in Cycles, CompleteCycle(c)
    PROVE  EngineInv'
<1> USE DEF EngineInv, EngineConstants, TypeInv
<1> DEFINE f == [flight[c] EXCEPT !.pc = "done"]
<1>1. /\ Decided(c) /\ commitments' = commitments \cup {CycleRow(c)} /\ board' = "live"
      /\ season' = [season EXCEPT !.cycles = season.cycles + 1]
      /\ flight' = [flight EXCEPT ![c].pc = "done"]
      /\ UNCHANGED <<proc, boots, expired, lastSeason, archive, agents, regs, polls,
                     lastCycle, ended, began, torn>>
  BY DEF CompleteCycle, WroteCycle, Incremented
<1>2. season.id # 0 /\ Alive /\ proc \notin {"down", "booted"} /\ flight[c].pc = "deciding"
  BY <1>1, RowTyped DEF Decided
<1>3. flight[c] \in FlightRecord
  BY DEF DataInv
<1>4. flight' = [flight EXCEPT ![c] = f]
  BY <1>1, <1>3 DEF DataInv
<1>5. /\ f \in FlightRecord /\ f.pc = "done" /\ f.held = flight[c].held
      /\ f.waits = flight[c].waits /\ f.said = flight[c].said
  BY <1>3 DEF FlightRecord
<1> HIDE DEF f
<1>6. /\ flight' \in [Cycles -> FlightRecord]
      /\ \A d \in Cycles : flight'[d] = IF d = c THEN f ELSE flight[d]
  BY <1>4, <1>5 DEF DataInv
<1>7. RowsInv' /\ commitments' \subseteq RowSet
  BY <1>1, <1>5, <1>6, RowAdded
<1>8. season'.id = season.id /\ season'.status = season.status
  BY <1>1 DEF ScalarInv
<1>9. EndedInv'
  BY <1>1, <1>8, EndedStays
<1>10. ScalarInv'
  BY <1>1, <1>2 DEF ScalarInv, Alive
<1>11. DataInv'
  BY <1>1, <1>6, <1>7 DEF DataInv
<1>12. FlightInv'
  <2>1. \A d \in Cycles : flight'[d].pc # "idle" =>
            d <= lastCycle /\ began[d] = season.id /\ season.id # 0
    BY <1>2, <1>6 DEF FlightInv
  <2>2. \A d \in Cycles : \A b \in flight'[d].waits \cup flight'[d].said : flight'[d].held[b] # 0
    BY <1>5, <1>6 DEF FlightInv
  <2>3. \A b \in Players : \A d \in agents[b].signals : flight'[d].pc # "idle"
    <3>1. \A b \in Players : agents[b].signals \subseteq Cycles
      BY DEF DataInv, AgentRecord
    <3> QED
      BY <1>5, <1>6, <3>1 DEF FlightInv
  <2> QED
    BY <1>1, <1>2, <1>8, <2>1, <2>2, <2>3 DEF FlightInv
<1> QED
  BY <1>7, <1>9, <1>10, <1>11, <1>12

\* Deaths between two writes of one step: what is on disk is what some of the writes left.
LEMMA DiedInv ==
    ASSUME EngineInv, EngineConstants, Alive, Dies, torn' = torn + 1,
           lastSeason' = lastSeason,
           season' \in [id : Nat, status : Statuses, cycles : Nat],
           season'.id \in {0, season.id}, season'.id = 0 <=> season'.status = "none",
           season'.id = 0 => season'.cycles = 0,
           board' \in {"none", "live", "final"}, commitments' \subseteq RowSet, RowsInv', EndedInv',
           archive' \in [SeasonIds -> {{}} \cup {{n} : n \in Nat}]
    PROVE  EngineInv'
<1> USE DEF EngineInv, EngineConstants, TypeInv
<1>1. /\ proc' = "down" /\ boots' = boots /\ polls' = 0 /\ regs' = 0
      /\ lastCycle' = lastCycle /\ began' = began /\ ended' = ended
      /\ flight' \in [Cycles -> FlightRecord] /\ agents' \in [Players -> AgentRecord]
      /\ FlightInv' /\ ~Alive'
  BY DiesInv
<1>2. ScalarInv'
  BY <1>1 DEF ScalarInv
<1>3. DataInv'
  BY <1>1 DEF DataInv
<1> QED
  BY <1>1, <1>2, <1>3

\* A death between the rows of a cycle and the season file.
LEMMA DiedInCycleInv ==
    ASSUME EngineInv, EngineConstants, NEW c \in Cycles, DiedInCycle(c)
    PROVE  EngineInv'
<1> USE DEF EngineInv, EngineConstants, TypeInv
<1>1. /\ Decided(c) /\ Dies /\ torn' = torn + 1
      /\ UNCHANGED <<expired, lastSeason, archive, season>>
      /\ commitments' = commitments \cup {CycleRow(c)} /\ board' \in {board, "live"}
  BY DEF DiedInCycle, WroteCycle
<1>2. Alive
  BY <1>1, RowTyped
<1>3. /\ lastCycle' = lastCycle /\ began' = began /\ ended' = ended
      /\ \A d \in Cycles : flight'[d].pc = "idle"
  BY <1>1, <1>2, DiesInv
<1>4. RowsInv' /\ commitments' \subseteq RowSet
  BY <1>1, <1>3, RowAdded
<1>5. EndedInv'
  BY <1>1, <1>3, EndedStays
<1>6. /\ season' \in [id : Nat, status : Statuses, cycles : Nat]
      /\ season'.id = 0 <=> season'.status = "none"
      /\ season'.id = 0 => season'.cycles = 0
      /\ season'.id = season.id
  BY <1>1 DEF ScalarInv
<1>7. board' \in {"none", "live", "final"} /\ archive' \in [SeasonIds -> {{}} \cup {{n} : n \in Nat}]
  BY <1>1 DEF DataInv
<1> QED
  BY <1>1, <1>2, <1>4, <1>5, <1>6, <1>7, DiedInv

\* The rows and hand-overs of before, when nothing is in flight any more.
LEMMA RowsStay ==
    ASSUME EngineInv, UNCHANGED <<commitments, lastSeason, lastCycle, began>>,
           \A d \in Cycles : flight'[d].pc = "deciding" => flight[d].pc = "deciding"
    PROVE  RowsInv' /\ commitments' \subseteq RowSet
  BY DEF EngineInv, TypeInv, DataInv, RowsInv, RowSet

\* What settle() writes, up to its last write.
LEMMA SettlementWrites ==
    ASSUME EngineInv, EngineConstants, MaySettle, NEW k \in 1..4, WroteSettlement(k)
    PROVE  /\ season' \in [id : Nat, status : Statuses, cycles : Nat]
           /\ season'.id = season.id /\ season.id \in SeasonIds /\ season'.cycles = season.cycles
           /\ season'.status \in {"settling", "settled"}
           /\ board' \in {"none", "live", "final"}
           /\ archive' \in [SeasonIds -> {{}} \cup {{n} : n \in Nat}]
           /\ \A s \in SeasonIds : s # season.id => archive'[s] = archive[s]
           /\ archive'[season.id] \in {{}, {season.cycles}}
<1> USE DEF EngineInv, EngineConstants, TypeInv
<1>1. season.id \in SeasonIds /\ archive[season.id] = {}
  BY ActiveSeason DEF MaySettle
<1>2. /\ season' \in [id : Nat, status : Statuses, cycles : Nat]
      /\ season'.id = season.id /\ season'.cycles = season.cycles
      /\ season'.status \in {"settling", "settled"}
  <2>1. season' = [season EXCEPT !.status = IF k >= 2 THEN "settled" ELSE "settling"]
    BY DEF WroteSettlement
  <2> QED
    BY <2>1 DEF ScalarInv, Statuses
<1>3. board' \in {"none", "live", "final"}
  BY DEF WroteSettlement, DataInv
<1>4. /\ archive' \in [SeasonIds -> {{}} \cup {{n} : n \in Nat}]
      /\ \A s \in SeasonIds : s # season.id => archive'[s] = archive[s]
      /\ archive'[season.id] \in {{}, {season.cycles}}
  <2>1. season.cycles \in Nat /\ archive \in [SeasonIds -> {{}} \cup {{n} : n \in Nat}]
    BY DEF ScalarInv, DataInv
  <2>2. archive' = archive \/ archive' = [archive EXCEPT ![season.id] = {season.cycles}]
    BY DEF WroteSettlement
  <2> QED
    BY <1>1, <2>1, <2>2
<1> QED
  BY <1>1, <1>2, <1>3, <1>4

\* A death between the archive, the season file and the submission.
LEMMA DiedInSettleInv == ASSUME EngineInv, EngineConstants, DiedInSettle PROVE EngineInv'
<1> USE DEF EngineInv, EngineConstants, TypeInv
<1>1. /\ polls > 0 /\ MaySettle /\ Dies /\ torn' = torn + 1
      /\ UNCHANGED <<expired, lastSeason, commitments>>
  BY DEF DiedInSettle
<1>2. PICK k \in 1..4 : WroteSettlement(k)
  BY DEF DiedInSettle
<1>3. Alive
  BY <1>1 DEF FlightInv, ScalarInv, Alive
<1>4. /\ lastCycle' = lastCycle /\ began' = began /\ ended' = ended
      /\ \A d \in Cycles : flight'[d].pc = "idle"
  BY <1>1, <1>3, DiesInv
<1>5. RowsInv' /\ commitments' \subseteq RowSet
  BY <1>1, <1>4, RowsStay
<1>6. /\ season' \in [id : Nat, status : Statuses, cycles : Nat]
      /\ season'.id = season.id /\ season.id \in SeasonIds
      /\ season'.status \in {"settling", "settled"}
      /\ board' \in {"none", "live", "final"}
      /\ archive' \in [SeasonIds -> {{}} \cup {{n} : n \in Nat}]
      /\ \A s \in SeasonIds : s # season.id => archive'[s] = archive[s]
  BY <1>1, <1>2, SettlementWrites
<1>7. EndedInv'
  <2>1. \A s \in SeasonIds : archive'[s] # {} => s <= lastSeason
    BY <1>1, <1>6, ActiveSeason DEF EndedInv, MaySettle
  <2> QED
    BY <1>1, <1>4, <1>6, <2>1 DEF EndedInv, SettledOnce
<1>8. season'.id # 0 /\ season'.status # "none"
  BY <1>6 DEF SeasonIds
<1> QED
  BY <1>1, <1>3, <1>5, <1>6, <1>7, <1>8, DiedInv

\* A death that leaves half a season file: the next start sees none.
LEMMA TornSeasonFileInv == ASSUME EngineInv, EngineConstants, TornSeasonFile PROVE EngineInv'
<1> USE DEF EngineInv, EngineConstants, TypeInv
<1>1. /\ season' = NoSeason /\ Dies /\ torn' = torn + 1
      /\ UNCHANGED <<expired, lastSeason, archive>>
  BY DEF TornSeasonFile
<1>2. \/ \E c \in Cycles : Decided(c) /\ commitments' = commitments \cup {CycleRow(c)} /\ board' = "live"
      \/ polls > 0 /\ UNCHANGED <<commitments, board>>
  BY DEF TornSeasonFile
<1>3. Alive
  BY <1>2, RowTyped DEF FlightInv, ScalarInv, Alive
<1>4. /\ lastCycle' = lastCycle /\ began' = began /\ ended' = ended
      /\ \A d \in Cycles : flight'[d].pc = "idle"
  BY <1>1, <1>3, DiesInv
<1>5. RowsInv' /\ commitments' \subseteq RowSet
  BY <1>1, <1>2, <1>4, RowsStay, RowAdded
<1>6. season' \in [id : Nat, status : Statuses, cycles : Nat] /\ season'.id = 0
      /\ season'.status = "none" /\ season'.cycles = 0
  BY <1>1 DEF NoSeason, Statuses
<1>7. EndedInv'
  BY <1>1, <1>4, <1>6, EndedStays
<1>8. board' \in {"none", "live", "final"} /\ archive' \in [SeasonIds -> {{}} \cup {{n} : n \in Nat}]
  BY <1>1, <1>2 DEF DataInv
<1> QED
  BY <1>1, <1>3, <1>5, <1>6, <1>7, <1>8, DiedInv

\* Settlement hands over an active season, with signals of cycles that began in it.
LEMMA SettleInv == ASSUME EngineInv, EngineConstants, Settle PROVE EngineInv'
<1> USE DEF EngineInv, EngineConstants, TypeInv
<1> DEFINE handed == [season |-> season.id, root |-> AllSignals]
<1>1. /\ polls > 0 /\ MaySettle /\ polls' = polls - 1 /\ WroteSettlement(4)
      /\ ended' = Append(ended, handed)
      /\ UNCHANGED <<proc, boots, expired, lastSeason, commitments, agents, regs, flight, lastCycle, began, torn>>
  BY DEF Settle
<1>2. /\ season' \in [id : Nat, status : Statuses, cycles : Nat]
      /\ season'.id = season.id /\ season.id \in SeasonIds
      /\ season'.status \in {"settling", "settled"}
      /\ board' \in {"none", "live", "final"}
      /\ archive' \in [SeasonIds -> {{}} \cup {{n} : n \in Nat}]
      /\ \A s \in SeasonIds : s # season.id => archive'[s] = archive[s]
  BY <1>1, SettlementWrites
<1>3. /\ season.id <= lastSeason /\ season.id # 0
      /\ \A i \in 1..Len(ended) : ended[i].season # season.id
  BY <1>1, <1>2, ActiveSeason DEF MaySettle, SeasonIds
<1>4. /\ AllSignals \subseteq Cycles \X Players
      /\ \A x \in AllSignals : x[1] <= lastCycle /\ began[x[1]] = season.id
  <2>1. ASSUME NEW x \in AllSignals
        PROVE  x \in Cycles \X Players /\ x[1] <= lastCycle /\ began[x[1]] = season.id
    <3>1. PICK a \in Players : \E c \in agents[a].signals : x = <<c, a>>
      BY DEF AllSignals, RegisteredAgents
    <3>2. PICK c \in agents[a].signals : x = <<c, a>>
      BY <3>1
    <3>3. c \in Cycles /\ flight[c].pc # "idle"
      BY DEF DataInv, AgentRecord, FlightInv
    <3> QED
      BY <3>2, <3>3 DEF FlightInv
  <2> QED
    BY <2>1
<1>5. handed \in EndRecord
  BY <1>2, <1>4 DEF EndRecord
<1>6. /\ ended' \in Seq(EndRecord) /\ Len(ended') = Len(ended) + 1 /\ Len(ended) \in Nat
      /\ ended'[Len(ended) + 1] = handed
      /\ \A i \in 1..Len(ended) : ended'[i] = ended[i]
  BY <1>1, <1>5 DEF DataInv
<1>7. \A i \in 1..Len(ended') : i \in 1..Len(ended) \/ i = Len(ended) + 1
  BY <1>6
<1> HIDE DEF handed
<1>8. handed.season = season.id /\ handed.root = AllSignals
  BY DEF handed
<1>9. ScalarInv'
  BY <1>1, <1>2, <1>3 DEF ScalarInv, Alive
<1>10. DataInv'
  BY <1>1, <1>2, <1>6 DEF DataInv
<1>11. FlightInv'
  <2>1. proc \notin {"down", "booted"}
    BY <1>1 DEF FlightInv, ScalarInv
  <2> QED
    BY <1>1, <1>2, <2>1 DEF FlightInv
<1>12. RowsInv'
  BY <1>1, RowsStay
<1>13. EndedInv'
  <2>1. SettledOnce'
    BY <1>3, <1>6, <1>7, <1>8 DEF EndedInv, SettledOnce
  <2>2. \A i \in 1..Len(ended') :
          /\ ended'[i].season <= lastSeason
          /\ \A x \in ended'[i].root : x[1] <= lastCycle /\ began[x[1]] = ended'[i].season
    BY <1>3, <1>4, <1>6, <1>7, <1>8 DEF EndedInv
  <2>3. \A s \in SeasonIds : archive'[s] # {} => s <= lastSeason
    BY <1>2, <1>3 DEF EndedInv
  <2> QED
    BY <1>1, <1>2, <2>1, <2>2, <2>3 DEF EndedInv
<1> QED
  BY <1>9, <1>10, <1>11, <1>12, <1>13

\* Every step, deaths included, keeps the inductive invariant.
THEOREM EngineInvNext == EngineConstants /\ EngineInv /\ [EngineNext]_engineVars => EngineInv'
<1> SUFFICES ASSUME EngineConstants, EngineInv, [EngineNext]_engineVars PROVE EngineInv'
  OBVIOUS
<1>1. CASE UNCHANGED engineVars
  BY <1>1 DEF engineVars, EngineInv, TypeInv, ScalarInv, DataInv, FlightInv, RowsInv, EndedInv,
              SettledOnce, Alive
<1> QED
  BY <1>1, ProcessSteps, AgentSteps, StartInv, BeginCycleInv, AgentAnswersInv, CompleteCycleInv,
     DiedInCycleInv, SettleInv, DiedInSettleInv, TornSeasonFileInv DEF EngineNext
-----------------------------------------------------------------------------
(* Counting: what deaths between writes can lose.                          *)

Written(s) == {r \in commitments : r.season = s}

HandedOver == {ended[i].season : i \in 1..Len(ended)}

\* Seasons that are over, or abandoned, and were not handed to the submitter.
GivenUp == {s \in 1..lastSeason : s # season.id \/ season.status # "active"} \ HandedOver

RowsCounted ==
    /\ \A s \in SeasonIds : s = season.id =>
          /\ season.cycles <= Cardinality(Written(s))
          /\ Cardinality(Written(s)) <= season.cycles + torn
    /\ \A s \in SeasonIds : \A n \in archive[s] : n <= Cardinality(Written(s))

SeasonsCounted == Cardinality(GivenUp) <= torn

\* A cycle has one row, so that there are no more rows than cycles.
LEMMA WrittenBounded ==
    ASSUME EngineInv, EngineConstants
    PROVE  \A s : /\ IsFiniteSet(Written(s)) /\ Cardinality(Written(s)) \in Nat
                  /\ Cardinality(Written(s)) <= MaxCycles
<1> SUFFICES ASSUME NEW s
             PROVE  /\ IsFiniteSet(Written(s)) /\ Cardinality(Written(s)) \in Nat
                    /\ Cardinality(Written(s)) <= MaxCycles
  OBVIOUS
<1> DEFINE cycleOf == [r \in Written(s) |-> r.cycle]
<1>1. cycleOf \in Injection(Written(s), Cycles)
  <2>1. \A r \in Written(s) : r \in commitments /\ r.cycle \in Cycles
    BY DEF EngineInv, TypeInv, DataInv, RowSet, Written
  <2>2. \A r, q \in Written(s) : r.cycle = q.cycle => r = q
    BY DEF EngineInv, RowsInv, Written
  <2> HIDE DEF EngineInv
  <2> QED
    BY <2>1, <2>2 DEF Injection, IsInjective
<1>2. IsFiniteSet(Cycles) /\ Cardinality(Cycles) = MaxCycles
  BY FS_Interval DEF Cycles, EngineConstants
<1> HIDE DEF cycleOf
<1>3. IsFiniteSet(Written(s)) /\ Cardinality(Written(s)) <= Cardinality(Cycles)
  BY <1>1, <1>2, FS_Injection
<1> QED
  BY <1>2, <1>3, FS_CardinalityType

\* Only finitely many seasons can have been given up: ids count up.
LEMMA GivenUpFinite ==
    ASSUME EngineInv, EngineConstants
    PROVE  IsFiniteSet(GivenUp) /\ Cardinality(GivenUp) \in Nat
<1>1. IsFiniteSet(1..lastSeason)
  BY FS_Interval DEF EngineInv, TypeInv, ScalarInv
<1>2. GivenUp \in SUBSET (1..lastSeason)
  BY DEF GivenUp
<1> QED
  BY <1>1, <1>2, FS_Subset, FS_CardinalityType

\* The row of a cycle adds one to its season, and to no other.
LEMMA RowCounted ==
    ASSUME EngineInv, EngineConstants, NEW c \in Cycles, Decided(c), commitments' = commitments \cup {CycleRow(c)}
    PROVE  \A s : Cardinality(Written(s)') =
                    Cardinality(Written(s)) + (IF s = season.id THEN 1 ELSE 0)
<1> SUFFICES ASSUME NEW s
             PROVE  Cardinality(Written(s)') =
                      Cardinality(Written(s)) + (IF s = season.id THEN 1 ELSE 0)
  OBVIOUS
<1>1. CycleRow(c).season = season.id /\ CycleRow(c) \notin commitments
  BY RowTyped
<1>2. IsFiniteSet(Written(s)) /\ Cardinality(Written(s)) \in Nat
  BY WrittenBounded
<1>3. CASE s = season.id
  <2>1. Written(s)' = Written(s) \cup {CycleRow(c)} /\ CycleRow(c) \notin Written(s)
    BY <1>1, <1>3 DEF Written
  <2> QED
    BY <1>2, <1>3, <2>1, FS_AddElement
<1>4. CASE s # season.id
  <2>1. Written(s)' = Written(s)
    BY <1>1, <1>4 DEF Written
  <2> QED
    BY <1>2, <1>4, <2>1
<1> QED
  BY <1>3, <1>4

\* What a step may do to the counts: nothing, a new season without rows, a row, or no row.
LEMMA RowsCountedNext ==
    EngineConstants /\ EngineInv /\ RowsCounted /\ [EngineNext]_engineVars => RowsCounted'
<1> SUFFICES ASSUME EngineConstants, EngineInv, RowsCounted, [EngineNext]_engineVars PROVE RowsCounted'
  OBVIOUS
<1>1. \A s : Cardinality(Written(s)) \in Nat
  BY WrittenBounded
<1>2. season.cycles \in Nat /\ torn \in Nat /\ season.id \in Nat
  BY DEF EngineInv, TypeInv, ScalarInv
<1>3. commitments' = commitments => \A s : Written(s)' = Written(s)
  BY DEF Written
<1>4. CASE UNCHANGED <<season, archive, commitments, torn>>
  BY <1>3, <1>4 DEF RowsCounted
<1>5. ASSUME StartNewSeason, UNCHANGED <<archive, commitments, torn>> PROVE RowsCounted'
  <2>1. season'.id = lastSeason + 1 /\ season'.cycles = 0
    BY <1>5 DEF StartNewSeason
  <2>2. Written(lastSeason + 1) = {}
    <3>1. \A r \in commitments : r.season <= lastSeason /\ r.season \in Nat /\ lastSeason \in Nat
      BY DEF EngineInv, TypeInv, ScalarInv, DataInv, RowsInv, RowSet
    <3>2. \A r \in commitments : r.season # lastSeason + 1
      BY <3>1
    <3> QED
      BY <3>2 DEF Written
  <2>3. \A s : Written(s)' = Written(s)
    BY <1>3, <1>5
  <2>4. Cardinality(Written(lastSeason + 1)) = 0
    BY <2>2, FS_EmptySet
  <2>5. \A s \in SeasonIds : s = season'.id =>
          /\ season'.cycles <= Cardinality(Written(s)')
          /\ Cardinality(Written(s)') <= season'.cycles + torn'
    BY <1>2, <1>5, <2>1, <2>3, <2>4
  <2> QED
    BY <1>5, <2>3, <2>5 DEF RowsCounted
<1>6. ASSUME NEW c \in Cycles, Decided(c), commitments' = commitments \cup {CycleRow(c)}, archive' = archive,
             \/ season'.id = season.id /\ season'.cycles = season.cycles + 1 /\ torn' = torn
             \/ season'.id = season.id /\ season'.cycles = season.cycles /\ torn' = torn + 1
             \/ season'.id = 0
      PROVE  RowsCounted'
  <2>1. \A s : Cardinality(Written(s)') =
                 Cardinality(Written(s)) + (IF s = season.id THEN 1 ELSE 0)
    BY <1>6, RowCounted
  <2>2. \A s \in SeasonIds : s # 0 /\ \A n \in archive[s] : n \in Nat
    BY DEF EngineInv, TypeInv, DataInv, SeasonIds
  <2>3. \A s \in SeasonIds : s = season'.id =>
          /\ season'.cycles <= Cardinality(Written(s)')
          /\ Cardinality(Written(s)') <= season'.cycles + torn'
    BY <1>1, <1>2, <1>6, <2>1, <2>2 DEF RowsCounted
  <2>4. \A s \in SeasonIds : \A n \in archive'[s] : n <= Cardinality(Written(s)')
    <3> SUFFICES ASSUME NEW s \in SeasonIds, NEW n \in archive[s]
                 PROVE  n <= Cardinality(Written(s)')
      BY <1>6
    <3>1. n \in Nat /\ n <= Cardinality(Written(s)) /\ Cardinality(Written(s)) \in Nat
      BY <1>1, <2>2 DEF RowsCounted
    <3>2. Cardinality(Written(s)') = Cardinality(Written(s))
          \/ Cardinality(Written(s)') = Cardinality(Written(s)) + 1
      BY <1>1, <2>1
    <3> QED
      BY <3>1, <3>2
  <2> QED
    BY <2>3, <2>4 DEF RowsCounted
<1>7. ASSUME commitments' = commitments, torn' \in {torn, torn + 1},
             \/ season'.id = 0 /\ archive' = archive
             \/ MaySettle /\ \E k \in 1..4 : WroteSettlement(k)
      PROVE  RowsCounted'
  <2>1. \A s : Written(s)' = Written(s)
    BY <1>3, <1>7
  <2>2. CASE season'.id = 0 /\ archive' = archive
    BY <2>1, <2>2 DEF RowsCounted, SeasonIds
  <2>3. ASSUME MaySettle, NEW k \in 1..4, WroteSettlement(k) PROVE RowsCounted'
    <3>1. /\ season'.id = season.id /\ season.id \in SeasonIds /\ season'.cycles = season.cycles
          /\ \A s \in SeasonIds : s # season.id => archive'[s] = archive[s]
          /\ archive'[season.id] \in {{}, {season.cycles}}
      BY <2>3, SettlementWrites
    <3>2. season.cycles <= Cardinality(Written(season.id))
      BY <3>1 DEF RowsCounted
    <3>3. \A s \in SeasonIds : \A n \in archive'[s] : n <= Cardinality(Written(s))
      BY <3>1, <3>2 DEF RowsCounted
    <3>4. \A s \in SeasonIds : s = season'.id =>
          /\ season'.cycles <= Cardinality(Written(s))
          /\ Cardinality(Written(s)) <= season'.cycles + torn'
      BY <1>1, <1>2, <1>7, <3>1 DEF RowsCounted
    <3> QED
      BY <2>1, <3>3, <3>4 DEF RowsCounted
  <2> QED
    BY <1>7, <2>2, <2>3
<1>8. CASE Start
  BY <1>4, <1>5, <1>8 DEF Start
<1>9. ASSUME NEW c \in Cycles, CompleteCycle(c) \/ DiedInCycle(c) PROVE RowsCounted'
  <2>1. season \in [id : Nat, status : Statuses, cycles : Nat]
    BY DEF EngineInv, TypeInv, ScalarInv
  <2>2. Incremented.id = season.id /\ Incremented.cycles = season.cycles + 1
    BY <2>1 DEF Incremented
  <2>3. CASE CompleteCycle(c)
    BY <1>6, <2>2, <2>3 DEF CompleteCycle, WroteCycle
  <2>4. CASE DiedInCycle(c)
    BY <1>6, <2>4 DEF DiedInCycle, WroteCycle
  <2> QED
    BY <1>9, <2>3, <2>4
<1>10. CASE Settle \/ DiedInSettle
  BY <1>7, <1>10 DEF Settle, DiedInSettle
<1>11. CASE TornSeasonFile
  BY <1>6, <1>7, <1>11 DEF TornSeasonFile, NoSeason
<1>12. CASE UNCHANGED engineVars
  BY <1>4, <1>12 DEF engineVars
<1>13. CASE Boot \/ Exit \/ StartRefused \/ Stop \/ EndTimePasses \/ TimerFires \/ PollEndsInNothing
  BY <1>4, <1>13 DEF Boot, Exit, StartRefused, Stop, EndTimePasses, TimerFires, PollEndsInNothing, disk
<1>14. ASSUME NEW a \in Players, RegisterAgent(a) \/ UnregisterAgent(a) PROVE RowsCounted'
  BY <1>4, <1>14 DEF RegisterAgent, UnregisterAgent, disk
<1>15. CASE BeginCycle \/ \E c \in Cycles, a \in Players : AgentAnswers(c, a)
  BY <1>4, <1>15 DEF BeginCycle, AgentAnswers, disk
<1> QED
  BY <1>8, <1>9, <1>10, <1>11, <1>12, <1>13, <1>14, <1>15 DEF EngineNext

\* Only a death in a settlement, or one that takes the season's file, gives up a season.
LEMMA SeasonsCountedNext ==
    EngineConstants /\ EngineInv /\ SeasonsCounted /\ [EngineNext]_engineVars => SeasonsCounted'
<1> SUFFICES ASSUME EngineConstants, EngineInv, SeasonsCounted, [EngineNext]_engineVars PROVE SeasonsCounted'
  OBVIOUS
<1>1. IsFiniteSet(GivenUp) /\ Cardinality(GivenUp) \in Nat /\ torn \in Nat
  BY GivenUpFinite DEF EngineInv, TypeInv, ScalarInv
<1>2. ASSUME GivenUp' \subseteq GivenUp, torn' \in {torn, torn + 1} PROVE SeasonsCounted'
  <2>1. IsFiniteSet(GivenUp') /\ Cardinality(GivenUp') <= Cardinality(GivenUp)
    BY <1>1, <1>2, FS_Subset
  <2>2. Cardinality(GivenUp') \in Nat
    BY <2>1, FS_CardinalityType
  <2> QED
    BY <1>1, <1>2, <2>1, <2>2 DEF SeasonsCounted
<1>3. ASSUME GivenUp' \subseteq GivenUp \cup {season.id}, torn' = torn + 1 PROVE SeasonsCounted'
  <2>1. /\ IsFiniteSet(GivenUp \cup {season.id})
        /\ Cardinality(GivenUp \cup {season.id}) <= Cardinality(GivenUp) + 1
    BY <1>1, FS_AddElement
  <2>2. IsFiniteSet(GivenUp') /\ Cardinality(GivenUp') <= Cardinality(GivenUp \cup {season.id})
    BY <1>3, <2>1, FS_Subset
  <2>3. Cardinality(GivenUp') \in Nat /\ Cardinality(GivenUp \cup {season.id}) \in Nat
    BY <2>1, <2>2, FS_CardinalityType
  <2> QED
    BY <1>1, <1>3, <2>1, <2>2, <2>3 DEF SeasonsCounted
<1>4. ASSUME season'.id = season.id, season'.status = season.status, torn' \in {torn, torn + 1},
             UNCHANGED <<lastSeason, ended>>
      PROVE  SeasonsCounted'
  BY <1>2, <1>4 DEF GivenUp, HandedOver
<1>5. CASE Start
  <2>1. torn' = torn /\ ended' = ended
    BY <1>5 DEF Start
  <2>2. CASE StartNewSeason /\ ~IsActive
    <3>1. lastSeason' = lastSeason + 1 /\ season'.id = lastSeason + 1 /\ season'.status = "active"
      BY <2>2 DEF StartNewSeason
    <3>2. lastSeason \in Nat
      BY DEF EngineInv, TypeInv, ScalarInv
    <3>3. HandedOver' = HandedOver
      BY <2>1 DEF HandedOver
    <3>4. GivenUp' \subseteq GivenUp
      BY <2>2, <3>1, <3>2, <3>3 DEF GivenUp, IsActive
    <3> QED
      BY <1>2, <2>1, <3>4
  <2> QED
    BY <1>4, <1>5, <2>1, <2>2 DEF Start, NeedsNewSeason
<1>6. ASSUME NEW c \in Cycles, CompleteCycle(c) \/ DiedInCycle(c) PROVE SeasonsCounted'
  <2>1. Incremented.id = season.id /\ Incremented.status = season.status
    BY DEF Incremented, EngineInv, TypeInv, ScalarInv
  <2>2. CASE CompleteCycle(c)
    BY <1>4, <2>1, <2>2 DEF CompleteCycle, WroteCycle
  <2>3. CASE DiedInCycle(c)
    BY <1>4, <2>1, <2>3 DEF DiedInCycle, WroteCycle, Dies
  <2> QED
    BY <1>6, <2>2, <2>3
<1>7. CASE Settle
  <2>1. /\ lastSeason' = lastSeason /\ torn' = torn /\ MaySettle /\ season'.id = season.id
    BY <1>7, SettlementWrites DEF Settle
  <2>2. HandedOver' = HandedOver \cup {season.id}
    <3> DEFINE handed == [season |-> season.id, root |-> AllSignals]
    <3>1. ended' = Append(ended, handed) /\ handed.season = season.id
      BY <1>7 DEF Settle
    <3> HIDE DEF handed
    <3>2. ended \in Seq(EndRecord) /\ Len(ended) \in Nat
      BY DEF EngineInv, TypeInv, DataInv
    <3>3. /\ Len(ended') = Len(ended) + 1 /\ ended'[Len(ended) + 1] = handed
          /\ \A i \in 1..Len(ended) : ended'[i] = ended[i]
      BY <3>1, <3>2
    <3>4. \A i \in 1..Len(ended') : i \in 1..Len(ended) \/ i = Len(ended) + 1
      BY <3>2, <3>3
    <3>5. \A i \in 1..Len(ended) : i \in 1..Len(ended')
      BY <3>2, <3>3
    <3>6. Len(ended) + 1 \in 1..Len(ended')
      BY <3>2, <3>3
    <3> QED
      BY <3>1, <3>3, <3>4, <3>5, <3>6 DEF HandedOver
  <2>3. GivenUp' \subseteq GivenUp
    BY <2>1, <2>2 DEF GivenUp
  <2> QED
    BY <1>2, <2>1, <2>3
<1>8. CASE DiedInSettle
  <2>1. lastSeason' = lastSeason /\ torn' = torn + 1 /\ ended' = ended /\ season'.id = season.id
    BY <1>8, SettlementWrites DEF DiedInSettle, Dies
  <2>2. GivenUp' \subseteq GivenUp \cup {season.id}
    BY <2>1 DEF GivenUp, HandedOver
  <2> QED
    BY <1>3, <2>1, <2>2
<1>9. CASE TornSeasonFile
  <2>1. lastSeason' = lastSeason /\ torn' = torn + 1 /\ ended' = ended
    BY <1>9 DEF TornSeasonFile, Dies
  <2>2. GivenUp' \subseteq GivenUp \cup {season.id}
    BY <2>1 DEF GivenUp, HandedOver
  <2> QED
    BY <1>3, <2>1, <2>2
<1>10. CASE UNCHANGED engineVars
  BY <1>4, <1>10 DEF engineVars
<1>11. CASE Boot \/ Exit \/ StartRefused \/ Stop \/ EndTimePasses \/ TimerFires \/ PollEndsInNothing
  BY <1>4, <1>11 DEF Boot, Exit, StartRefused, Stop, EndTimePasses, TimerFires,
                     PollEndsInNothing, disk, Dies
<1>12. ASSUME NEW a \in Players, RegisterAgent(a) \/ UnregisterAgent(a) PROVE SeasonsCounted'
  BY <1>4, <1>12 DEF RegisterAgent, UnregisterAgent, disk
<1>13. CASE BeginCycle \/ \E c \in Cycles, a \in Players : AgentAnswers(c, a)
  BY <1>4, <1>13 DEF BeginCycle, AgentAnswers, disk
<1> QED
  BY <1>5, <1>6, <1>7, <1>8, <1>9, <1>10, <1>11, <1>12, <1>13 DEF EngineNext

\* At the start there is nothing to count.
LEMMA CountsInit == EngineConstants /\ EngineInit => RowsCounted /\ SeasonsCounted
<1> SUFFICES ASSUME EngineConstants, EngineInit PROVE RowsCounted /\ SeasonsCounted
  OBVIOUS
<1>1. RowsCounted
  BY DEF EngineInit, RowsCounted, NoSeason, SeasonIds
<1>2. GivenUp = {}
  BY DEF EngineInit, GivenUp
<1>3. Cardinality(GivenUp) = 0
  BY <1>2, FS_EmptySet
<1> QED
  BY <1>1, <1>3 DEF SeasonsCounted, EngineInit
-----------------------------------------------------------------------------
(* What the runs check.                                                    *)

ExpiredTyped == expired \in BOOLEAN

\* The timer's flag stays a flag.
LEMMA ExpiredTypedNext == ExpiredTyped /\ [EngineNext]_engineVars => ExpiredTyped'
<1> SUFFICES ASSUME ExpiredTyped, [EngineNext]_engineVars PROVE ExpiredTyped'
  OBVIOUS
<1>1. expired' = expired \/ expired' = TRUE \/ expired' = FALSE
  BY DEF EngineNext, engineVars, Boot, Exit, StartRefused, Start, StartNewSeason, Stop, EndTimePasses,
     RegisterAgent, UnregisterAgent, TimerFires, PollEndsInNothing, BeginCycle, AgentAnswers,
     CompleteCycle, DiedInCycle, Settle, DiedInSettle, TornSeasonFile, disk
<1> QED
  BY <1>1 DEF ExpiredTyped

\* The inductive invariant contains the types.
LEMMA EngineTyped ==
    EngineConstants /\ EngineInv /\ RowsCounted /\ ExpiredTyped => EngineTypeOK
<1> SUFFICES ASSUME EngineConstants, EngineInv, RowsCounted, ExpiredTyped PROVE EngineTypeOK
  OBVIOUS
<1> USE DEF EngineInv, EngineConstants, TypeInv
<1>1. \A s : Cardinality(Written(s)) \in Nat /\ Cardinality(Written(s)) <= MaxCycles
  BY WrittenBounded
<1>2. season \in [id : 0..lastSeason, cycles : 0..MaxCycles,
                  status : {"none", "active", "settling", "settled"}]
  <2>1. season \in [id : Nat, status : Statuses, cycles : Nat] /\ season.id \in 0..lastSeason
    BY DEF ScalarInv
  <2>2. season.cycles \in 0..MaxCycles
    <3>1. CASE season.id = 0
      BY <3>1 DEF ScalarInv
    <3>2. CASE season.id # 0
      <4>1. season.id \in SeasonIds /\ season.cycles \in Nat
        BY <3>2 DEF ScalarInv, SeasonIds
      <4> QED
        BY <1>1, <4>1 DEF RowsCounted
    <3> QED
      BY <3>1, <3>2
  <2> QED
    BY <2>1, <2>2 DEF Statuses
<1>3. archive \in [SeasonIds -> {{}} \cup {{n} : n \in 0..MaxCycles}]
  <2>1. \A s \in SeasonIds : archive[s] \in {{}} \cup {{n} : n \in 0..MaxCycles}
    <3> SUFFICES ASSUME NEW s \in SeasonIds, NEW n \in Nat, archive[s] = {n} PROVE n \in 0..MaxCycles
      BY DEF DataInv
    <3> QED
      BY <1>1 DEF RowsCounted
  <2> QED
    BY <2>1 DEF DataInv
<1>4. \A c \in Cycles : flight[c] \in FlightRecord
  BY DEF DataInv
<1>5. /\ \A c \in Cycles : flight[c].pc # "idle" => Alive /\ c <= lastCycle
      /\ \A c \in Cycles : flight[c].waits \cup flight[c].said \subseteq {a \in Players : flight[c].held[a] # 0}
  BY <1>4 DEF FlightInv, FlightRecord, Alive
<1>6. /\ proc \in {"down", "booted", "running", "stopped"}
      /\ boots \in 0..MaxBoots /\ torn \in 0..boots /\ lastSeason \in 0..MaxSeasons
      /\ regs \in 0..MaxRegs /\ polls \in 0..MaxPolls /\ lastCycle \in 0..MaxCycles
  BY DEF ScalarInv
<1>7. /\ board \in {"none", "live", "final"}
      /\ agents \in [Players -> [obj : 0..MaxRegs, signals : SUBSET Cycles]]
      /\ flight \in [Cycles -> [pc : {"idle", "deciding", "done"}, waits : SUBSET Players,
                              held : [Players -> 0..MaxRegs], said : SUBSET Players]]
      /\ commitments \subseteq RowSet
      /\ ended \in Seq([season : SeasonIds, root : SUBSET (Cycles \X Players)])
      /\ began \in [Cycles -> 0..MaxSeasons]
  BY DEF DataInv, AgentRecord, FlightRecord, EndRecord
<1> QED
  BY <1>2, <1>3, <1>5, <1>6, <1>7, Zenon DEF EngineTypeOK, ExpiredTyped

\* The invariants that the theorems below share hold of every behaviour.
LEMMA EngineAlways ==
    ASSUME EngineConstants
    PROVE  EngineSpec => [](EngineInv /\ RowsCounted /\ SeasonsCounted /\ ExpiredTyped)
<1>1. EngineInit => EngineInv /\ RowsCounted /\ SeasonsCounted /\ ExpiredTyped
  <2>1. EngineInit => ExpiredTyped
    BY DEF EngineInit, ExpiredTyped
  <2> QED
    BY <2>1, EngineInvInit, CountsInit
<1>2. EngineInv /\ RowsCounted /\ SeasonsCounted /\ ExpiredTyped /\ [EngineNext]_engineVars
        => (EngineInv /\ RowsCounted /\ SeasonsCounted /\ ExpiredTyped)'
  BY EngineInvNext, RowsCountedNext, SeasonsCountedNext, ExpiredTypedNext
<1> QED
  BY <1>1, <1>2, PTL DEF EngineSpec

\* However many cycles overlap, agents are replaced, and processes die and are started,
\* every row names the season its cycle began in, and every root hashes signals of its own
\* season only.
THEOREM SeasonsAlwaysApart == EngineConstants => (EngineSpec => []SeasonsApart)
<1> SUFFICES ASSUME EngineConstants PROVE EngineSpec => []SeasonsApart
  OBVIOUS
<1>1. EngineInv /\ RowsCounted /\ SeasonsCounted /\ ExpiredTyped => SeasonsApart
  <2> SUFFICES ASSUME EngineInv, RowsCounted, ExpiredTyped PROVE SeasonsApart
    OBVIOUS
  <2>1. EngineTypeOK
    BY EngineTyped
  <2>2. RowNamesItsSeason
    BY DEF EngineInv, RowsInv, RowNamesItsSeason
  <2>3. RootHasOnlyItsSeason
    BY DEF EngineInv, EndedInv, RootHasOnlyItsSeason
  <2> QED
    BY <2>1, <2>2, <2>3 DEF SeasonsApart
<1> QED
  BY <1>1, EngineAlways, PTL

\* A season is handed over at most once; counters are behind the rows by no more than the
\* deaths in the middle of a step, and no more seasons than that are lost.
THEOREM BooksAlwaysSurvive == EngineConstants => (EngineSpec => []BooksSurvive)
<1> SUFFICES ASSUME EngineConstants PROVE EngineSpec => []BooksSurvive
  OBVIOUS
<1>1. EngineInv /\ RowsCounted /\ SeasonsCounted /\ ExpiredTyped => BooksSurvive
  <2> SUFFICES ASSUME EngineInv, RowsCounted, SeasonsCounted PROVE BooksSurvive
    OBVIOUS
  <2>1. SettledOnce
    BY DEF EngineInv, EndedInv
  <2>2. CountBackedByRows
    <3>1. season.id # 0 => season.id \in SeasonIds
      BY DEF EngineConstants, EngineInv, TypeInv, ScalarInv, SeasonIds
    <3> QED
      BY <3>1 DEF CountBackedByRows, RowsCounted, Written
  <2>3. SeasonsAccounted
    <3> DEFINE gone == {s \in 1..lastSeason : s # season.id}
               handed == {ended[i].season : i \in 1..Len(ended)}
    <3>1. gone \ handed \in SUBSET GivenUp
      BY DEF GivenUp, HandedOver
    <3>2. IsFiniteSet(GivenUp) /\ Cardinality(GivenUp) \in Nat
      BY GivenUpFinite
    <3> HIDE DEF gone, handed
    <3>3. Cardinality(gone \ handed) <= Cardinality(GivenUp) /\ Cardinality(gone \ handed) \in Nat
      BY <3>1, <3>2, FS_Subset, FS_CardinalityType
    <3>4. Cardinality(gone \ handed) <= torn
      BY <3>2, <3>3 DEF SeasonsCounted, EngineInv, TypeInv, ScalarInv
    <3> QED
      BY <3>4 DEF SeasonsAccounted, gone, handed
  <2> QED
    BY <2>1, <2>2, <2>3 DEF BooksSurvive
<1> QED
  BY <1>1, EngineAlways, PTL

\* An archived season stays as it was archived, and is never resumed.
THEOREM ArchivesStay == EngineConstants => (EngineSpec => ArchiveIsFinal)
<1> SUFFICES ASSUME EngineConstants PROVE EngineSpec => ArchiveIsFinal
  OBVIOUS
<1> DEFINE Kept == \A s \in SeasonIds : archive[s] # {} =>
                     archive'[s] = archive[s] /\ ~(season'.id = s /\ season'.status = "active")
<1>1. EngineInv /\ EngineInv' /\ [EngineNext]_engineVars => [Kept]_engineVars
  <2> SUFFICES ASSUME EngineInv, EngineInv', [EngineNext]_engineVars, NEW s \in SeasonIds, archive[s] # {}
               PROVE  archive'[s] = archive[s] /\ ~(season'.id = s /\ season'.status = "active")
    OBVIOUS
  <2>1. archive'[s] = archive[s]
    <3>1. CASE archive' = archive
      BY <3>1
    <3>2. ASSUME MaySettle, NEW k \in 1..4, WroteSettlement(k) PROVE archive'[s] = archive[s]
      <4>1. s # season.id
        BY <3>2, ActiveSeason DEF MaySettle
      <4> QED
        BY <3>2, <4>1, SettlementWrites
    <3>3. CASE Settle \/ DiedInSettle
      BY <3>2, <3>3 DEF Settle, DiedInSettle
    <3>4. CASE ~(Settle \/ DiedInSettle)
      BY <3>1, <3>4 DEF EngineNext, engineVars, Boot, Exit, StartRefused, Start, Stop, EndTimePasses,
         RegisterAgent, UnregisterAgent, TimerFires, PollEndsInNothing, BeginCycle,
         AgentAnswers, CompleteCycle, DiedInCycle, TornSeasonFile, disk
    <3> QED
      BY <3>3, <3>4
  <2>2. ~(season'.id = s /\ season'.status = "active")
    BY <2>1 DEF EngineInv, EndedInv
  <2> QED
    BY <2>1, <2>2
<1> QED
  BY <1>1, EngineAlways, PTL DEF EngineSpec, ArchiveIsFinal
-----------------------------------------------------------------------------
(* What a settlement covers.                                               *)

\* An object that is still an agent's has every signal of the cycles that hold it, since
\* objects are numbered anew; and a row written by this process has the signals said.
CoverInv ==
    /\ \A a \in Players : agents[a].obj <= regs
    /\ \A c \in Cycles : flight[c].pc # "idle" =>
          /\ \A a \in Players : flight[c].held[a] <= regs
          /\ \A a \in flight[c].said : flight[c].held[a] = agents[a].obj => c \in agents[a].signals
    /\ \A r \in commitments : flight[r.cycle].pc = "done" => r.signals = flight[r.cycle].said

\* At the start nothing is in flight.
LEMMA CoverInit == EngineConstants /\ EngineInit => CoverInv
  BY DEF EngineConstants, EngineInit, CoverInv, NoCycle, Unregistered

\* Whatever a process leaves out of memory, nothing in flight holds it.
LEMMA CoverDies ==
    ASSUME EngineInv, EngineInv', EngineConstants, Alive, Dies
    PROVE  CoverInv'
<1>1. \A c \in Cycles : flight'[c].pc = "idle"
  BY DiesInv
<1>2. \A r \in commitments' : r.cycle \in Cycles
  BY DEF EngineInv, TypeInv, DataInv, RowSet
<1>3. \A a \in Players : agents'[a].obj = 0 /\ regs' = 0
  BY DEF Dies, Unregistered
<1> QED
  BY <1>1, <1>2, <1>3 DEF CoverInv

\* Every step keeps it.
LEMMA CoverNext ==
    EngineConstants /\ EngineInv /\ EngineInv' /\ CoverInv /\ [EngineNext]_engineVars => CoverInv'
<1> SUFFICES ASSUME EngineConstants, EngineInv, EngineInv', CoverInv, [EngineNext]_engineVars PROVE CoverInv'
  OBVIOUS
<1>0. /\ \A c \in Cycles : flight[c] \in FlightRecord
      /\ \A a \in Players : agents[a] \in AgentRecord /\ agents[a].obj \in Nat
      /\ \A r \in commitments : r.cycle \in Cycles
      /\ regs \in Nat /\ lastCycle \in Nat
      /\ flight \in [Cycles -> FlightRecord] /\ agents \in [Players -> AgentRecord]
  BY DEF EngineConstants, EngineInv, TypeInv, ScalarInv, DataInv, AgentRecord, RowSet
<1>1. CASE UNCHANGED <<agents, flight, commitments, regs>>
  BY <1>1 DEF CoverInv
<1>2. CASE Exit \/ DiedInSettle \/ TornSeasonFile \/ \E c \in Cycles : DiedInCycle(c)
  <2>1. Dies
    BY <1>2 DEF Exit, DiedInSettle, TornSeasonFile, DiedInCycle
  <2>2. CASE Alive
    BY <2>1, <2>2, CoverDies
  <2>3. CASE ~Alive
    <3>1. \A c \in Cycles : ~Decided(c)
      BY <2>3, RowTyped
    <3>2. ~(polls > 0)
      BY <2>3 DEF EngineInv, FlightInv, Alive
    <3> QED
      BY <1>2, <2>3, <3>1, <3>2 DEF Exit, DiedInSettle, TornSeasonFile, DiedInCycle
  <2> QED
    BY <2>2, <2>3
<1>3. ASSUME NEW a \in Players, RegisterAgent(a) \/ UnregisterAgent(a) PROVE CoverInv'
  <2>1. PICK o \in {0, regs + 1} :
            /\ agents' = [agents EXCEPT ![a] = [obj |-> o, signals |-> {}]]
            /\ UNCHANGED <<flight, commitments>> /\ regs' \in {regs, regs + 1}
            /\ o = regs + 1 => regs' = regs + 1
    BY <1>0, <1>3 DEF RegisterAgent, UnregisterAgent, Unregistered, disk
  <2>2. \A b \in Players : agents'[b] = IF b = a THEN [obj |-> o, signals |-> {}] ELSE agents[b]
    BY <1>0, <2>1
  <2>3. \A c \in Cycles : \A b \in flight[c].said : b \in Players /\ flight[c].held[b] # 0 /\ flight[c].held[b] \in Nat
    BY <1>0 DEF EngineInv, FlightInv, FlightRecord
  <2>4. \A c \in Cycles : flight[c].pc # "idle" => \A b \in Players :
            flight[c].held[b] <= regs' /\ flight[c].held[b] # regs + 1
    <3>1. \A c \in Cycles : \A b \in Players : flight[c].held[b] \in Nat
      BY <1>0 DEF FlightRecord
    <3> QED
      BY <1>0, <2>1, <3>1 DEF CoverInv
  <2>5. \A b \in Players : agents'[b].obj <= regs'
    BY <1>0, <2>1, <2>2 DEF CoverInv
  <2>6. \A c \in Cycles : flight[c].pc # "idle" =>
            \A b \in flight[c].said : flight[c].held[b] = agents'[b].obj => c \in agents'[b].signals
    BY <2>1, <2>2, <2>3, <2>4 DEF CoverInv
  <2> QED
    BY <2>1, <2>4, <2>5, <2>6 DEF CoverInv
<1>4. CASE BeginCycle
  <2> DEFINE n == lastCycle + 1
             new == [pc |-> "deciding", waits |-> RegisteredAgents,
                     held |-> [a \in Players |-> agents[a].obj], said |-> {}]
  <2>1. /\ flight' = [flight EXCEPT ![n] = new] /\ UNCHANGED <<agents, commitments, regs>>
    BY <1>4 DEF BeginCycle, disk
  <2>2. /\ new.pc = "deciding" /\ new.said = {} /\ \A a \in Players : new.held[a] = agents[a].obj
    OBVIOUS
  <2>3. \A r \in commitments : r.cycle # n
    BY <1>0 DEF EngineInv, TypeInv, DataInv, RowSet, Cycles, RowsInv
  <2> HIDE DEF n, new
  <2>4. \A c \in Cycles : flight'[c] = IF c = n THEN new ELSE flight[c]
    BY <1>0, <2>1
  <2> QED
    BY <1>0, <2>1, <2>2, <2>3, <2>4 DEF CoverInv
<1>5. ASSUME NEW c \in Cycles, NEW a \in Players, AgentAnswers(c, a) PROVE CoverInv'
  <2>1. /\ flight[c].pc = "deciding" /\ UNCHANGED <<commitments, regs>>
    BY <1>5 DEF AgentAnswers, disk
  <2>2. CASE /\ flight' = [flight EXCEPT ![c].waits = @ \ {a}]
             /\ UNCHANGED agents
    <3>1. \A d \in Cycles : /\ flight'[d].pc = flight[d].pc /\ flight'[d].said = flight[d].said
                            /\ flight'[d].held = flight[d].held
      BY <1>0, <2>2 DEF FlightRecord
    <3> QED
      BY <1>0, <2>1, <2>2, <3>1 DEF CoverInv
  <2>3. CASE /\ flight' = [flight EXCEPT ![c].waits = @ \ {a}, ![c].said = @ \cup {a}]
             /\ agents' = Pushed(c, a)
    <3> DEFINE f == [flight[c] EXCEPT !.waits = flight[c].waits \ {a}, !.said = flight[c].said \cup {a}]
    <3>1. flight' = [flight EXCEPT ![c] = f]
      BY <1>0, <2>3
    <3>2. f.pc = flight[c].pc /\ f.held = flight[c].held /\ f.said = flight[c].said \cup {a}
      BY <1>0 DEF FlightRecord
    <3> HIDE DEF f
    <3>3. \A d \in Cycles : /\ flight'[d].pc = flight[d].pc /\ flight'[d].held = flight[d].held
                            /\ flight'[d].said = IF d = c THEN flight[c].said \cup {a} ELSE flight[d].said
      BY <1>0, <3>1, <3>2
    <3>4. /\ \A b \in Players : agents'[b].obj = agents[b].obj /\ agents[b].signals \subseteq agents'[b].signals
          /\ agents[a].obj = flight[c].held[a] => c \in agents'[a].signals
      <4>1. CASE agents[a].obj # flight[c].held[a]
        BY <2>3, <4>1 DEF Pushed
      <4>2. CASE agents[a].obj = flight[c].held[a]
        <5> DEFINE g == [agents[a] EXCEPT !.signals = agents[a].signals \cup {c}]
        <5>1. agents' = [agents EXCEPT ![a] = g]
          BY <1>0, <2>3, <4>2 DEF Pushed
        <5>2. g.obj = agents[a].obj /\ g.signals = agents[a].signals \cup {c}
          BY <1>0 DEF AgentRecord
        <5> HIDE DEF g
        <5> QED
          BY <1>0, <5>1, <5>2
      <4> QED
        BY <4>1, <4>2
    <3>5. \A d \in Cycles : \A b \in flight[d].said : b \in Players
      BY <1>0 DEF FlightRecord
    <3>6. \A d \in Cycles : flight'[d].pc # "idle" =>
              \A b \in flight'[d].said : flight'[d].held[b] = agents'[b].obj => d \in agents'[b].signals
      BY <3>3, <3>4, <3>5 DEF CoverInv
    <3>7. \A r \in commitments : flight'[r.cycle].pc = "done" => r.signals = flight'[r.cycle].said
      BY <1>0, <2>1, <3>3 DEF CoverInv
    <3> QED
      BY <2>1, <3>3, <3>4, <3>6, <3>7 DEF CoverInv
  <2> QED
    BY <1>5, <2>2, <2>3 DEF AgentAnswers
<1>6. ASSUME NEW c \in Cycles, CompleteCycle(c) PROVE CoverInv'
  <2> DEFINE f == [flight[c] EXCEPT !.pc = "done"]
  <2>1. /\ Decided(c) /\ commitments' = commitments \cup {CycleRow(c)} /\ UNCHANGED <<agents, regs>>
        /\ flight' = [flight EXCEPT ![c] = f]
    BY <1>0, <1>6 DEF CompleteCycle, WroteCycle
  <2>2. f.held = flight[c].held /\ f.said = flight[c].said
    BY <1>0 DEF FlightRecord
  <2> HIDE DEF f
  <2>3. \A d \in Cycles : /\ flight'[d].held = flight[d].held /\ flight'[d].said = flight[d].said
                          /\ flight'[d].pc # "idle" => flight[d].pc # "idle"
                          /\ d # c => flight'[d] = flight[d]
    BY <1>0, <2>1, <2>2 DEF Decided
  <2>4. CycleRow(c).cycle = c /\ CycleRow(c).signals = flight[c].said /\ \A r \in commitments : r.cycle # c
    BY <2>1, RowTyped DEF CycleRow
  <2>5. \A r \in commitments' : flight'[r.cycle].pc = "done" => r.signals = flight'[r.cycle].said
    BY <1>0, <2>1, <2>3, <2>4 DEF CoverInv
  <2> QED
    BY <2>1, <2>3, <2>5 DEF CoverInv
<1>7. CASE Settle \/ Start
  BY <1>1, <1>7 DEF Settle, Start
<1>8. CASE UNCHANGED engineVars
  BY <1>1, <1>8 DEF engineVars
<1>9. CASE Boot \/ StartRefused \/ Stop \/ EndTimePasses \/ TimerFires \/ PollEndsInNothing
  BY <1>1, <1>9 DEF Boot, StartRefused, Stop, EndTimePasses, TimerFires, PollEndsInNothing,
                    disk, memory
<1> QED
  BY <1>2, <1>3, <1>4, <1>5, <1>6, <1>7, <1>8, <1>9 DEF EngineNext

\* What settle() hands over covers every signal the process committed, of every agent that
\* is still the object the cycle began with.
THEOREM SettlementsCover == EngineConstants => (EngineSpec => SettleCoversCommitted)
<1> SUFFICES ASSUME EngineConstants PROVE EngineSpec => SettleCoversCommitted
  OBVIOUS
<1> DEFINE Covered == ended' # ended =>
          \A r \in commitments : \A a \in r.signals :
             flight[r.cycle].pc = "done" /\ flight[r.cycle].held[a] = agents[a].obj
               => <<r.cycle, a>> \in ended'[Len(ended')].root
<1>1. EngineInv /\ CoverInv /\ [EngineNext]_engineVars => [Covered]_engineVars
  <2> SUFFICES ASSUME EngineInv, CoverInv, [EngineNext]_engineVars, ended' # ended,
                      NEW r \in commitments, NEW a \in r.signals,
                      flight[r.cycle].pc = "done", flight[r.cycle].held[a] = agents[a].obj
               PROVE  <<r.cycle, a>> \in ended'[Len(ended')].root
    OBVIOUS
  <2>1. Settle
    BY DEF EngineNext, engineVars, Boot, Exit, StartRefused, Start, Stop, EndTimePasses, RegisterAgent,
       UnregisterAgent, TimerFires, PollEndsInNothing, BeginCycle, AgentAnswers, CompleteCycle,
       DiedInCycle, DiedInSettle, TornSeasonFile, Dies
  <2>2. ended'[Len(ended')].root = AllSignals
    <3> DEFINE handed == [season |-> season.id, root |-> AllSignals]
    <3>1. ended' = Append(ended, handed) /\ handed.root = AllSignals
      BY <2>1 DEF Settle
    <3> HIDE DEF handed
    <3> QED
      BY <3>1 DEF EngineInv, TypeInv, DataInv
  <2>3. r.cycle \in Cycles /\ flight[r.cycle] \in FlightRecord
    BY DEF EngineInv, TypeInv, DataInv, RowSet
  <2>4. a \in flight[r.cycle].said /\ a \in Players
    BY <2>3 DEF CoverInv, FlightRecord
  <2>5. r.cycle \in agents[a].signals /\ agents[a].obj # 0
    BY <2>3, <2>4 DEF CoverInv, EngineInv, FlightInv
  <2> QED
    BY <2>2, <2>4, <2>5 DEF AllSignals, RegisteredAgents
<1>2. EngineSpec => []CoverInv
  BY EngineAlways, CoverInit, CoverNext, PTL DEF EngineSpec
<1> QED
  BY <1>1, <1>2, EngineAlways, PTL DEF EngineSpec, SettleCoversCommitted

-----------------------------------------------------------------------------
(* The hook, the sync and the oracle of learning roots *)

\* Everything in the first c lines is on chain, or had not been written when a
\* sync passed it.  Both the saved cursor and the running scan stay behind such
\* a point; the saved one gets its value from the scan's.
Behind(c) == \A r \in 1..c : r \in roots \cup overrun

Inv == /\ TypeOK
       /\ CountedOnce
       /\ ScannedOnChain
       /\ ReportsAreTrue
       /\ Behind(cursorFile) /\ Behind(sync.cursor)

\* The invariant holds before the first row is logged.
LEMMA InitInv == Init => Inv
<1> SUFFICES ASSUME Init PROVE Inv
  OBVIOUS
<1> USE SyncAssumption DEF Init, Idle
<1>1. TypeOK
  <2>1. sync \in [pc : {"idle", "next", "check", "send", "end"}, lines : 0..rows + 1,
                  from : 0..rows + 1, cursor : 0..rows + 1, left : 0..Limit]
    OBVIOUS
  <2>2. hook \in [Rows -> {"none", "check", "send", "submitted", "skipped", "failed", "lost"}]
    OBVIOUS
  <2>3. /\ rows \in 0..MaxRows /\ cycleCount \in 0..MaxRows
        /\ cursorFile \in 0..rows + 1
        /\ roots \subseteq 1..rows /\ overrun \subseteq 1..rows + 1
    OBVIOUS
  <2>4. /\ \A r \in Rows : hook[r] = "none"
        /\ sync.pc = "idle" /\ sync.from = 0 /\ sync.cursor = 0 /\ sync.lines = 0
    OBVIOUS
  <2>5. paused \in BOOLEAN
    BY Zenon
  <2> HIDE DEF Init, Idle
  <2> QED
    BY <2>1, <2>2, <2>3, <2>4, <2>5 DEF TypeOK
<1>2. CountedOnce
  BY FS_EmptySet DEF CountedOnce
<1>3. ScannedOnChain /\ ReportsAreTrue /\ Behind(cursorFile) /\ Behind(sync.cursor)
  BY DEF ScannedOnChain, ReportsAreTrue, Behind, Rows
<1> QED
  BY <1>1, <1>2, <1>3 DEF Inv

SyncType == [pc : {"idle", "next", "check", "send", "end"}, lines : 0..rows + 1,
             from : 0..rows + 1, cursor : 0..rows + 1, left : 0..Limit]

\* Moving on by one line stays inside the lines read.
LEMMA ConsumedType ==
  ASSUME TypeOK, sync.cursor < sync.lines, sync.left > 0
  PROVE  /\ Consumed \in SyncType
         /\ Consumed.pc = "next" /\ Consumed.cursor = sync.cursor + 1
         /\ Consumed.from = sync.from /\ Consumed.lines = sync.lines
<1>1. sync \in SyncType /\ rows \in Nat /\ Limit \in Nat
  BY SyncAssumption DEF TypeOK, SyncType
<1>2. sync.cursor + 1 \in 0..rows + 1 /\ sync.left - 1 \in 0..Limit
  BY <1>1 DEF SyncType
<1> QED
  BY <1>1, <1>2 DEF Consumed, SyncType

\* An accepted root is counted, and none is ever withdrawn.
LEMMA RootsGrow ==
  ASSUME TypeOK, CountedOnce, NEW r \in 1..rows, SubmitCycleRoot(r)
  PROVE  /\ roots' = roots \cup {r} /\ roots' \subseteq 1..rows
         /\ cycleCount' = Cardinality(roots') /\ cycleCount' \in 0..MaxRows
<1>1. IsFiniteSet(1..rows) /\ Cardinality(1..rows) = rows
  BY FS_Interval DEF TypeOK
<1>2. roots' \subseteq 1..rows /\ roots' = roots \cup {r} /\ r \notin roots
  BY DEF TypeOK, SubmitCycleRoot, MaySubmit
<1>3. IsFiniteSet(roots) /\ IsFiniteSet(roots') /\ Cardinality(roots') <= rows
  <2>1. roots \subseteq 1..rows
    BY DEF TypeOK
  <2> QED
    BY <1>1, <1>2, <2>1, FS_Subset
<1>4. Cardinality(roots') = Cardinality(roots) + 1
  BY <1>2, <1>3, FS_AddElement
<1>5. cycleCount' = Cardinality(roots')
  BY <1>4 DEF SubmitCycleRoot, CountedOnce
<1> QED
  BY <1>2, <1>3, <1>5, FS_CardinalityType, SyncAssumption DEF TypeOK

\* Every step of hook, replay, chain and log keeps the invariant.
LEMMA StepInv == Inv /\ [Next]_vars => Inv'
<1> SUFFICES ASSUME Inv, [Next]_vars PROVE Inv'
  OBVIOUS
<1> USE SyncAssumption DEF Inv
<1>1. CASE AppendRow
  <2>1. TypeOK'
    BY <1>1 DEF AppendRow, TypeOK, Rows, Row
  <2>2. CountedOnce' /\ Behind(cursorFile)' /\ Behind(sync.cursor)' /\ ScannedOnChain'
    BY <1>1 DEF AppendRow, CountedOnce, Behind, ScannedOnChain
  <2>3. ReportsAreTrue'
    BY <1>1 DEF AppendRow, ReportsAreTrue, TypeOK, Rows
  <2> QED
    BY <2>1, <2>2, <2>3
<1>2. CASE EngineDies
  BY <1>2 DEF EngineDies, TypeOK, CountedOnce, ScannedOnChain, ReportsAreTrue, Behind, Rows, Row
<1>3. CASE Pause
  BY <1>3 DEF Pause, TypeOK, CountedOnce, ScannedOnChain, ReportsAreTrue, Behind, Row
<1>4. ASSUME NEW r \in Rows, HookAsks(r) PROVE Inv'
  BY <1>4 DEF HookAsks, HookMoves, Asked, TypeOK, CountedOnce, ScannedOnChain,
              ReportsAreTrue, Behind, Row
<1>5. ASSUME NEW r \in Rows, HookSends(r) PROVE Inv'
  <2>1. r \in 1..rows /\ SubmitCycleRoot(r)
    BY <1>5 DEF HookSends, HookMoves, TypeOK, Rows
  <2>2. /\ roots' = roots \cup {r} /\ roots' \subseteq 1..rows
        /\ cycleCount' = Cardinality(roots') /\ cycleCount' \in 0..MaxRows
    BY <2>1, RootsGrow
  <2>3. TypeOK'
    BY <1>5, <2>2 DEF HookSends, HookMoves, TypeOK, Row
  <2>4. ReportsAreTrue'
    BY <1>5, <2>2 DEF HookSends, HookMoves, ReportsAreTrue, TypeOK
  <2> QED
    BY <1>5, <2>2, <2>3, <2>4 DEF HookSends, CountedOnce, ScannedOnChain, Behind
<1>6. ASSUME NEW r \in Rows, HookFails(r) PROVE Inv'
  BY <1>6 DEF HookFails, HookMoves, TypeOK, CountedOnce, ScannedOnChain,
              ReportsAreTrue, Behind, Row
<1>7. ASSUME NEW reset \in BOOLEAN, SyncStart(reset) PROVE Inv'
  BY <1>7 DEF SyncStart, TypeOK, CountedOnce, ScannedOnChain, ReportsAreTrue, Behind, Row
<1>8. CASE SyncSkipsEmptyLine
  <2>1. TypeOK'
    <3>1. sync.cursor < sync.lines /\ sync.left > 0 /\ sync' = Consumed
      BY <1>8 DEF SyncSkipsEmptyLine, More
    <3>2. Row \in 1..rows + 1
      BY <3>1 DEF TypeOK, Row
    <3> QED
      BY <1>8, <3>1, <3>2, ConsumedType DEF SyncSkipsEmptyLine, TypeOK, SyncType
  <2>2. Behind(sync.cursor)'
    BY <1>8 DEF SyncSkipsEmptyLine, Consumed, Behind, TypeOK, Row
  <2>3. ScannedOnChain'
    BY <1>8 DEF SyncSkipsEmptyLine, OnEmptyLine, Consumed, ScannedOnChain, TypeOK
  <2> QED
    BY <1>8, <2>1, <2>2, <2>3 DEF SyncSkipsEmptyLine, CountedOnce, ReportsAreTrue, Behind
<1>9. CASE SyncTakesRow
  BY <1>9 DEF SyncTakesRow, More, OnEmptyLine, TypeOK, CountedOnce, ScannedOnChain,
              ReportsAreTrue, Behind, Row
<1>10. CASE SyncAsks
  <2>1. CASE Row \in roots
    <3>1. sync' = Consumed /\ sync.cursor < sync.lines /\ sync.left > 0
      BY <1>10, <2>1 DEF SyncAsks, Asked, TypeOK, Row
    <3>2. TypeOK'
      BY <1>10, <3>1, ConsumedType DEF SyncAsks, TypeOK, SyncType
    <3>3. Behind(sync.cursor)' /\ ScannedOnChain'
      BY <1>10, <2>1, <3>1, ConsumedType DEF SyncAsks, Behind, ScannedOnChain, TypeOK, Row
    <3> QED
      BY <1>10, <3>2, <3>3 DEF SyncAsks, CountedOnce, ReportsAreTrue, Behind
  <2>2. CASE Row \notin roots
    BY <1>10, <2>2 DEF SyncAsks, Asked, TypeOK, CountedOnce, ScannedOnChain,
                       ReportsAreTrue, Behind, Row
  <2> QED
    BY <2>1, <2>2
<1>11. CASE SyncFails
  BY <1>11 DEF SyncFails, AfterFailure, TypeOK, CountedOnce, ScannedOnChain,
               ReportsAreTrue, Behind, Row
<1>12. ASSUME NEW seen \in BOOLEAN, SyncSends(seen) PROVE Inv'
  <2>1. Row \in 1..rows /\ SubmitCycleRoot(Row)
    BY <1>12 DEF SyncSends, TypeOK, Row
  <2>2. /\ roots' = roots \cup {Row} /\ roots' \subseteq 1..rows
        /\ cycleCount' = Cardinality(roots') /\ cycleCount' \in 0..MaxRows
    BY <2>1, RootsGrow
  <2>3. TypeOK'
    <3>1. sync.cursor < sync.lines /\ sync.left > 0
      BY <1>12 DEF SyncSends, TypeOK, Row
    <3>2. CASE seen
      BY <1>12, <2>2, <3>1, <3>2, ConsumedType DEF SyncSends, TypeOK, SyncType
    <3>3. CASE ~seen
      BY <1>12, <2>2, <3>1, <3>3 DEF SyncSends, TypeOK
    <3> QED
      BY <3>2, <3>3
  <2>4. Behind(sync.cursor)' /\ ScannedOnChain'
    BY <1>12, <2>2 DEF SyncSends, Consumed, Behind, ScannedOnChain, TypeOK, Row
  <2> QED
    BY <1>12, <2>2, <2>3, <2>4 DEF SyncSends, CountedOnce, ReportsAreTrue, Behind
<1>13. CASE SyncEnds
  BY <1>13 DEF SyncEnds, Saved, Idle, TypeOK, CountedOnce, ScannedOnChain,
               ReportsAreTrue, Behind, Row
<1>14. CASE SyncDies
  BY <1>14 DEF SyncDies, Idle, TypeOK, CountedOnce, ScannedOnChain, ReportsAreTrue, Behind, Row
<1>15. CASE UNCHANGED vars
  BY <1>15 DEF vars, TypeOK, CountedOnce, ScannedOnChain, ReportsAreTrue, Behind, Row
<1> QED
  BY <1>1, <1>2, <1>3, <1>4, <1>5, <1>6, <1>7, <1>8, <1>9, <1>10, <1>11, <1>12, <1>13,
     <1>14, <1>15 DEF Next

\* So it holds of every behaviour.
LEMMA InvAlways == Spec => []Inv
  BY InitInv, StepInv, PTL DEF Spec

\* The variables keep their types, and the scan never leaves what it read.
THEOREM TypeCorrect == Spec => []TypeOK
  BY InvAlways, PTL DEF Inv

\* The oracle's count is the number of roots, whoever sent them and however
\* often.
THEOREM OracleCountsOnce == Spec => []CountedOnce
  BY InvAlways, PTL DEF Inv

\* The cursor of a running scan has only passed rows that are on chain.
THEOREM ScanIsSafe == Spec => []ScannedOnChain
  BY InvAlways, PTL DEF Inv

\* A hook never claims a root that is not on chain.
THEOREM HookReportsTruth == Spec => []ReportsAreTrue
  BY InvAlways, PTL DEF Inv

\* Passing the empty last line is the only way a row falls behind the cursor
\* without being on chain.
THEOREM OnlyOverrunMisses == Spec => []MissedOnlyByOverrun
<1>1. Inv => MissedOnlyByOverrun
  BY DEF Inv, TypeOK, MissedOnlyByOverrun, Behind
<1> QED
  BY <1>1, InvAlways, PTL

\* The count, the scan and the cursor together, for any number of rows and any limit of
\* the replay.
THEOREM ScanAlwaysSound == Spec => []ScanSound
<1>1. CountedOnce /\ ScannedOnChain /\ MissedOnlyByOverrun => ScanSound
  BY DEF ScanSound
<1> QED
  BY <1>1, OracleCountsOnce, ScanIsSafe, OnlyOverrunMisses, PTL

-----------------------------------------------------------------------------
(* The alerts: what the two guards let through *)

TriedPcs == {"sending", "over", "unrouted"}
Alert == [key : Keys, at : Nat, boot : Nat, pc : TriedPcs \cup {"noop", "repeated", "limited"}, n : Nat]

\* The alerts of a category that one process tried in a span of time.
Span(al, c, b, lo, hi) ==
  {i \in 1..Len(al) : /\ al[i].pc \in TriedPcs /\ al[i].boot = b /\ Category(al[i].key) = c
                      /\ lo <= al[i].at /\ al[i].at <= hi}

\* The alerts lie in the past and belong to this process or one before.
AlertsPast(al, b, nw) ==
  /\ al \in Seq(Alert)
  /\ \A i \in 1..Len(al) : al[i].at <= nw /\ al[i].boot <= b

\* The window of a category counts what was tried since it started, and before it started
\* another window ran.
WindowCounts(al, b, nw, w, c) ==
  /\ w.start \in Nat /\ w.count \in 0..RateMax /\ w.start <= nw
  /\ w.count = 0 => w.start = 0
  /\ Cardinality(Span(al, c, b, w.start, nw)) = w.count
  /\ \A i \in Span(al, c, b, w.start, nw) : al[i].at < w.start + RateWindow
  /\ Cardinality(Span(al, c, b, (w.start - RateWindow) + 1, w.start - 1)) <= RateMax

SpansBounded(al) ==
  \A t, b \in Nat, c \in Categories : Cardinality(Span(al, c, b, t, (t + RateWindow) - 1)) <= 2 * RateMax

\* What swallowed an alert: one of its category, tried not long before.
Follows(al, i, span) ==
  \E j \in 1..(i - 1) : /\ Category(al[j].key) = Category(al[i].key) /\ al[j].pc \in TriedPcs
                        /\ al[i].at - al[j].at < span

Silenced(al) ==
  \A i \in 1..Len(al) : /\ al[i].pc = "limited" => Follows(al, i, RateWindow)
                        /\ al[i].pc = "repeated" => Follows(al, i, DedupWindow + RateWindow)

\* A key is kept away because of an alert of that key that came through to the limit.
Noted(al, nw, until, k) ==
  until > nw => \E m \in 1..Len(al) : /\ al[m].key = k /\ al[m].at + DedupWindow = until
                                      /\ al[m].pc \in TriedPcs \cup {"limited"}

AlertsInv ==
  /\ now \in Nat /\ boot \in Nat
  /\ rateWindow \in [Categories -> [start : Nat, count : Nat]]
  /\ dedupUntil \in [Keys -> Nat]
  /\ AlertsPast(alerts, boot, now)
  /\ \A c \in Categories : WindowCounts(alerts, boot, now, rateWindow[c], c)
  /\ SpansBounded(alerts) /\ Silenced(alerts)
  /\ \A k \in Keys : Noted(alerts, now, dedupUntil[k], k)

\* A span is a finite set of positions.
LEMMA SpanFinite ==
  ASSUME NEW al \in Seq(Alert), NEW c, NEW b, NEW lo, NEW hi
  PROVE  /\ IsFiniteSet(Span(al, c, b, lo, hi)) /\ Cardinality(Span(al, c, b, lo, hi)) \in Nat
         /\ Span(al, c, b, lo, hi) \subseteq 1..Len(al)
<1>1. Len(al) \in Nat
  OBVIOUS
<1>2. IsFiniteSet(1..Len(al))
  BY <1>1, FS_Interval
<1>3. Span(al, c, b, lo, hi) \subseteq 1..Len(al)
  BY DEF Span
<1>4. IsFiniteSet(Span(al, c, b, lo, hi))
  BY <1>2, <1>3, FS_Subset
<1> QED BY <1>3, <1>4, FS_CardinalityType

\* A narrower span holds no more.
LEMMA SmallerSpan ==
  ASSUME NEW S, NEW T, IsFiniteSet(T), S \subseteq T
  PROVE  Cardinality(S) \in Nat /\ Cardinality(S) <= Cardinality(T)
BY FS_Subset, FS_CardinalityType

\* Two windows' worth.
LEMMA TwoWindows ==
  ASSUME NEW A, NEW B, NEW S, IsFiniteSet(A), IsFiniteSet(B), S \subseteq A \cup B,
         Cardinality(A) <= RateMax, Cardinality(B) <= RateMax
  PROVE  Cardinality(S) <= 2 * RateMax
<1>1. /\ Cardinality(A) \in Nat /\ Cardinality(B) \in Nat /\ Cardinality(A \cap B) \in Nat
      /\ IsFiniteSet(A \cup B)
      /\ Cardinality(A \cup B) = (Cardinality(A) + Cardinality(B)) - Cardinality(A \cap B)
  <2>1. IsFiniteSet(A \cap B)
    BY FS_Subset
  <2>2. /\ IsFiniteSet(A \cup B)
        /\ Cardinality(A \cup B) = Cardinality(A) + Cardinality(B) - Cardinality(A \cap B)
    BY FS_Union
  <2> QED BY <2>1, <2>2, FS_CardinalityType
<1>2. Cardinality(S) \in Nat /\ Cardinality(S) <= Cardinality(A \cup B)
  BY <1>1, SmallerSpan
<1> QED BY <1>1, <1>2, SubmitConstants

\* What the fields of an alert are.
LEMMA AlertFields ==
  ASSUME NEW al \in Seq(Alert), NEW i \in 1..Len(al)
  PROVE  al[i].key \in Keys /\ al[i].at \in Nat /\ al[i].boot \in Nat
<1>1. al[i] \in Alert
  <2>1. PICK S : S = Alert
    OBVIOUS
  <2>2. al \in Seq(S)
    BY <2>1
  <2>3. al[i] \in S
    BY <2>2
  <2> QED BY <2>1, <2>3
<1> QED BY <1>1 DEF Alert

\* As long as alerts stay where they are, what was tried stays tried and the rest stays too.
SameAlerts(al, am) ==
  /\ Len(am) = Len(al)
  /\ \A i \in 1..Len(al) :
       /\ am[i].key = al[i].key /\ am[i].at = al[i].at /\ am[i].boot = al[i].boot
       /\ am[i].pc = al[i].pc \/ (am[i].pc \in TriedPcs /\ al[i].pc \in TriedPcs)

\* Alerts that changed only in how far their delivery got have the same spans,
LEMMA SameSpans ==
  ASSUME NEW al, NEW am, SameAlerts(al, am), NEW c, NEW b, NEW lo, NEW hi
  PROVE  Span(am, c, b, lo, hi) = Span(al, c, b, lo, hi)
BY DEF SameAlerts, Span

\* the same silences,
LEMMA SameSilence ==
  ASSUME NEW al \in Seq(Alert), NEW am, SameAlerts(al, am), Silenced(al)
  PROVE  Silenced(am)
<1>1. \A i \in 1..Len(al) : i \in Nat /\ \A j \in 1..(i - 1) : j \in 1..Len(al)
  OBVIOUS
<1>2. ASSUME NEW i \in 1..Len(al), NEW span, Follows(al, i, span) PROVE Follows(am, i, span)
  BY <1>1, <1>2 DEF Follows, SameAlerts
<1>3. \A i \in 1..Len(al) : /\ am[i].pc = "limited" => al[i].pc = "limited"
                            /\ am[i].pc = "repeated" => al[i].pc = "repeated"
  BY DEF SameAlerts, TriedPcs
<1> QED BY <1>2, <1>3 DEF Silenced, SameAlerts

\* and the same notes.
LEMMA SameNotes ==
  ASSUME NEW al, NEW am, SameAlerts(al, am), NEW nw, NEW until, NEW k, Noted(al, nw, until, k)
  PROVE  Noted(am, nw, until, k)
BY DEF Noted, SameAlerts, TriedPcs

\* A step that only passes the time, or carries a delivery on.
LEMMA AlertsCarryOn ==
  ASSUME AlertsInv, boot' = boot, rateWindow' = rateWindow, dedupUntil' = dedupUntil,
         now' = now \/ now' = now + 1, alerts' \in Seq(Alert), SameAlerts(alerts, alerts')
  PROVE  AlertsInv'
<1>0. now \in Nat /\ now' \in Nat /\ now <= now' /\ boot \in Nat /\ alerts \in Seq(Alert)
  BY DEF AlertsInv, AlertsPast
<1>1. AlertsPast(alerts', boot', now')
  <2>1. \A i \in 1..Len(alerts) : alerts[i].at <= now /\ alerts[i].boot <= boot /\ alerts[i].at \in Nat
    BY <1>0, AlertFields DEF AlertsInv, AlertsPast
  <2> QED BY <1>0, <2>1 DEF AlertsPast, SameAlerts
<1>2. ASSUME NEW c \in Categories PROVE WindowCounts(alerts', boot', now', rateWindow'[c], c)
  <2>1. PICK w : w = rateWindow[c]
    OBVIOUS
  <2>2. WindowCounts(alerts, boot, now, w, c)
    BY <2>1 DEF AlertsInv
  <2>3. Span(alerts, c, boot, w.start, now') = Span(alerts, c, boot, w.start, now)
    <3>1. \A i \in 1..Len(alerts) : alerts[i].at <= now /\ alerts[i].at \in Nat
      BY <1>0, AlertFields DEF AlertsInv, AlertsPast
    <3> QED BY <1>0, <3>1 DEF Span
  <2>4. /\ Span(alerts', c, boot, w.start, now') = Span(alerts, c, boot, w.start, now)
        /\ Span(alerts', c, boot, (w.start - RateWindow) + 1, w.start - 1)
             = Span(alerts, c, boot, (w.start - RateWindow) + 1, w.start - 1)
    BY <2>3, SameSpans
  <2>5. \A i \in Span(alerts, c, boot, w.start, now) : alerts'[i].at = alerts[i].at
    BY DEF Span, SameAlerts
  <2>6. WindowCounts(alerts', boot, now', w, c)
    BY <1>0, <2>2, <2>4, <2>5 DEF WindowCounts
  <2> QED BY <2>1, <2>6
<1>3. SpansBounded(alerts')
  BY SameSpans DEF AlertsInv, SpansBounded
<1>4. Silenced(alerts')
  BY <1>0, SameSilence DEF AlertsInv
<1>5. ASSUME NEW k \in Keys PROVE Noted(alerts', now', dedupUntil'[k], k)
  <2>1. PICK until \in Nat : until = dedupUntil[k]
    BY DEF AlertsInv
  <2>2. Noted(alerts, now, until, k)
    BY <2>1 DEF AlertsInv
  <2>3. Noted(alerts', now, until, k)
    BY <2>2, SameNotes
  <2>4. Noted(alerts', now', until, k)
    BY <1>0, <2>3 DEF Noted
  <2> QED BY <2>1, <2>4
<1>6. /\ rateWindow' \in [Categories -> [start : Nat, count : Nat]]
      /\ dedupUntil' \in [Keys -> Nat] /\ boot' \in Nat
  BY DEF AlertsInv
<1> QED BY <1>0, <1>1, <1>2, <1>3, <1>4, <1>5, <1>6 DEF AlertsInv

-----------------------------------------------------------------------------
(* One more alert. *)

\* One alert more at the end.
OneMore(al, a, am) ==
  /\ am \in Seq(Alert) /\ Len(am) = Len(al) + 1 /\ Len(al) \in Nat /\ am[Len(al) + 1] = a
  /\ \A i \in 1..Len(al) : am[i] = al[i]

\* One more alert leaves those before it.
LEMMA AppendedAlert ==
  ASSUME NEW al \in Seq(Alert), NEW a \in Alert, NEW am, am = Append(al, a)
  PROVE  OneMore(al, a, am)
<1>1. PICK S : S = Alert
  OBVIOUS
<1>2. al \in Seq(S) /\ a \in S
  BY <1>1
<1>3. am \in Seq(S) /\ Len(am) = Len(al) + 1 /\ Len(al) \in Nat /\ am[Len(al) + 1] = a
      /\ \A i \in 1..Len(al) : am[i] = al[i]
  BY <1>2
<1> QED BY <1>1, <1>3 DEF OneMore

Fits(a, c, b, lo, hi) ==
  a.pc \in TriedPcs /\ a.boot = b /\ Category(a.key) = c /\ lo <= a.at /\ a.at <= hi

\* A span grows by the new alert or not at all.
LEMMA AppendedSpan ==
  ASSUME NEW al \in Seq(Alert), NEW a \in Alert, NEW am, OneMore(al, a, am)
  PROVE  \A c, b, lo, hi :
           /\ ~Fits(a, c, b, lo, hi) => Span(am, c, b, lo, hi) = Span(al, c, b, lo, hi)
           /\ Fits(a, c, b, lo, hi) => /\ Span(am, c, b, lo, hi) = Span(al, c, b, lo, hi) \cup {Len(al) + 1}
                                       /\ Len(al) + 1 \notin Span(al, c, b, lo, hi)
<1> SUFFICES ASSUME NEW c, NEW b, NEW lo, NEW hi
             PROVE  /\ ~Fits(a, c, b, lo, hi) => Span(am, c, b, lo, hi) = Span(al, c, b, lo, hi)
                    /\ Fits(a, c, b, lo, hi) => /\ Span(am, c, b, lo, hi)
                                                     = Span(al, c, b, lo, hi) \cup {Len(al) + 1}
                                               /\ Len(al) + 1 \notin Span(al, c, b, lo, hi)
  OBVIOUS
<1>1. PICK n \in Nat : n = Len(al) /\ Len(am) = n + 1 /\ am[n + 1] = a /\ \A i \in 1..n : am[i] = al[i]
  BY DEF OneMore
<1>2. 1..(n + 1) = (1..n) \cup {n + 1} /\ n + 1 \notin 1..n
  BY <1>1
<1>3. Span(al, c, b, lo, hi) = {i \in 1..n : Fits(am[i], c, b, lo, hi)}
  BY <1>1 DEF Span, Fits
<1>4. Span(am, c, b, lo, hi) = {i \in (1..n) \cup {n + 1} : Fits(am[i], c, b, lo, hi)}
  BY <1>1, <1>2 DEF Span, Fits
<1> QED BY <1>1, <1>2, <1>3, <1>4

\* The new alert is heard or follows one that was.
LEMMA AppendedSilence ==
  ASSUME NEW al \in Seq(Alert), NEW a \in Alert, NEW am, OneMore(al, a, am), Silenced(al),
         a.pc = "limited" => \E j \in 1..Len(al) : /\ Category(al[j].key) = Category(a.key)
                                                   /\ al[j].pc \in TriedPcs /\ a.at - al[j].at < RateWindow,
         a.pc = "repeated" => \E j \in 1..Len(al) : /\ Category(al[j].key) = Category(a.key)
                                                    /\ al[j].pc \in TriedPcs
                                                    /\ a.at - al[j].at < DedupWindow + RateWindow
  PROVE  Silenced(am)
<1>1. PICK n \in Nat : n = Len(al) /\ Len(am) = n + 1 /\ am[n + 1] = a /\ \A i \in 1..n : am[i] = al[i]
  BY DEF OneMore
<1>2. ASSUME NEW i \in 1..n, NEW span, Follows(al, i, span) PROVE Follows(am, i, span)
  <2>1. \A j \in 1..(i - 1) : j \in 1..n
    BY <1>1
  <2> QED BY <1>1, <1>2, <2>1 DEF Follows
<1>3. \A i \in 1..n : /\ am[i].pc = "limited" => Follows(am, i, RateWindow)
                      /\ am[i].pc = "repeated" => Follows(am, i, DedupWindow + RateWindow)
  BY <1>1, <1>2 DEF Silenced
<1>4. /\ a.pc = "limited" => Follows(am, n + 1, RateWindow)
      /\ a.pc = "repeated" => Follows(am, n + 1, DedupWindow + RateWindow)
  <2>1. (n + 1) - 1 = n
    BY <1>1
  <2> QED BY <1>1, <2>1 DEF Follows
<1>5. ASSUME NEW i \in 1..(n + 1)
      PROVE  /\ am[i].pc = "limited" => Follows(am, i, RateWindow)
             /\ am[i].pc = "repeated" => Follows(am, i, DedupWindow + RateWindow)
  <2>1. CASE i = n + 1
    <3>1. am[i] = a
      BY <1>1, <2>1
    <3>2. /\ am[i].pc = "limited" => Follows(am, n + 1, RateWindow)
          /\ am[i].pc = "repeated" => Follows(am, n + 1, DedupWindow + RateWindow)
      BY <1>4, <3>1
    <3> QED BY <2>1, <3>2, Zenon
  <2>2. CASE i # n + 1
    <3>1. i \in 1..n
      BY <1>1, <1>5, <2>2
    <3> QED BY <1>3, <3>1
  <2> QED BY <2>1, <2>2
<1> QED BY <1>1, <1>5 DEF Silenced

\* A note is of the last alert of its key that was not repeated.
LEMMA AppendedNotes ==
  ASSUME NEW al \in Seq(Alert), NEW a \in Alert, NEW am, OneMore(al, a, am),
         NEW nw, NEW until, NEW k, Noted(al, nw, until, k)
  PROVE  Noted(am, nw, until, k)
<1>1. PICK n \in Nat : n = Len(al) /\ Len(am) = n + 1 /\ \A i \in 1..n : am[i] = al[i] /\ i \in 1..(n + 1)
  BY DEF OneMore
<1> QED BY <1>1 DEF Noted

\* A window goes on while others start alerts, or this one's are swallowed.
LEMMA WindowStays ==
  ASSUME NEW al \in Seq(Alert), NEW a \in Alert, NEW am, OneMore(al, a, am), NEW b, NEW nw, NEW w,
         NEW c, WindowCounts(al, b, nw, w, c), a.pc \notin TriedPcs \/ Category(a.key) # c
  PROVE  WindowCounts(am, b, nw, w, c)
<1>1. /\ Span(am, c, b, w.start, nw) = Span(al, c, b, w.start, nw)
      /\ Span(am, c, b, (w.start - RateWindow) + 1, w.start - 1)
           = Span(al, c, b, (w.start - RateWindow) + 1, w.start - 1)
  <2>1. \A lo, hi : ~Fits(a, c, b, lo, hi)
    BY DEF Fits
  <2> QED BY <2>1, AppendedSpan
<1>2. \A i \in Span(al, c, b, w.start, nw) : am[i] = al[i]
  BY DEF OneMore, Span
<1>3. \A i \in Span(am, c, b, w.start, nw) : am[i].at < w.start + RateWindow
  BY <1>1, <1>2 DEF WindowCounts
<1> QED BY <1>1, <1>3 DEF WindowCounts

\* One more in the window.
LEMMA WindowTakes ==
  ASSUME NEW al \in Seq(Alert), NEW a \in Alert, NEW am, OneMore(al, a, am), NEW b, NEW nw \in Nat, NEW w,
         NEW c, WindowCounts(al, b, nw, w, c),
         a.pc \in TriedPcs, Category(a.key) = c, a.boot = b, a.at = nw,
         w.count < RateMax, nw - w.start < RateWindow, w.count # 0,
         NEW v, v = [start |-> w.start, count |-> w.count + 1]
  PROVE  WindowCounts(am, b, nw, v, c)
<1>0. w.start \in Nat /\ w.count \in Nat /\ w.start <= nw /\ RateMax \in Nat /\ RateWindow \in Nat \ {0}
  BY SubmitConstants DEF WindowCounts
<1>1. /\ Span(am, c, b, w.start, nw) = Span(al, c, b, w.start, nw) \cup {Len(al) + 1}
      /\ Len(al) + 1 \notin Span(al, c, b, w.start, nw)
  <2>1. Fits(a, c, b, w.start, nw)
    BY <1>0 DEF Fits
  <2> QED BY <2>1, AppendedSpan
<1>2. Span(am, c, b, (w.start - RateWindow) + 1, w.start - 1)
        = Span(al, c, b, (w.start - RateWindow) + 1, w.start - 1)
  <2>1. ~Fits(a, c, b, (w.start - RateWindow) + 1, w.start - 1)
    BY <1>0 DEF Fits
  <2> QED BY <2>1, AppendedSpan
<1>3. Cardinality(Span(am, c, b, w.start, nw)) = w.count + 1
  <2>1. PICK A : A = Span(al, c, b, w.start, nw)
    OBVIOUS
  <2>2. IsFiniteSet(A) /\ Cardinality(A) = w.count
    BY <2>1, SpanFinite DEF WindowCounts
  <2>3. Cardinality(A \cup {Len(al) + 1}) = IF Len(al) + 1 \in A THEN Cardinality(A) ELSE Cardinality(A) + 1
    BY <2>2, FS_AddElement
  <2> QED BY <1>1, <2>1, <2>2, <2>3
<1>4. \A i \in Span(am, c, b, w.start, nw) : am[i].at < w.start + RateWindow
  <2>1. \A i \in Span(al, c, b, w.start, nw) : am[i] = al[i] /\ al[i].at < w.start + RateWindow
    BY DEF OneMore, Span, WindowCounts
  <2>2. am[Len(al) + 1] = a /\ a.at < w.start + RateWindow
    BY <1>0, AppendedAlert DEF OneMore
  <2> QED BY <1>1, <2>1, <2>2
<1>5. v.start = w.start /\ v.count = w.count + 1 /\ v.count \in 0..RateMax /\ v.count # 0
  BY <1>0
<1>6. Cardinality(Span(am, c, b, (w.start - RateWindow) + 1, w.start - 1)) <= RateMax
  BY <1>2 DEF WindowCounts
<1> QED BY <1>0, <1>3, <1>4, <1>5, <1>6 DEF WindowCounts

\* A new window: what was tried before it started lies in the one before.
LEMMA WindowOpens ==
  ASSUME NEW al \in Seq(Alert), NEW a \in Alert, NEW am, OneMore(al, a, am), NEW b, NEW nw \in Nat, NEW w,
         NEW c, WindowCounts(al, b, nw, w, c), AlertsPast(al, b, nw),
         a.pc \in TriedPcs, Category(a.key) = c, a.boot = b, a.at = nw,
         w.count = 0 \/ nw - w.start >= RateWindow,
         NEW v, v = [start |-> nw, count |-> 1]
  PROVE  WindowCounts(am, b, nw, v, c)
<1>0. /\ w.start \in Nat /\ w.count \in 0..RateMax /\ w.start <= nw
      /\ RateMax \in Nat \ {0} /\ RateWindow \in Nat \ {0}
  BY SubmitConstants DEF WindowCounts
<1>1. PICK A : A = Span(al, c, b, w.start, nw)
  OBVIOUS
<1>2. IsFiniteSet(A) /\ Cardinality(A) = w.count /\ \A i \in A : al[i].at < w.start + RateWindow
  BY <1>1, SpanFinite DEF WindowCounts
<1>3. w.count = 0 => A = {} /\ w.start = 0
  BY <1>2, FS_EmptySet DEF WindowCounts
<1>4. \A i \in 1..Len(al) : al[i].at \in Nat /\ al[i].at <= nw
  BY AlertFields DEF AlertsPast
<1>5. Span(al, c, b, nw, nw) = {}
  <2>1. ASSUME NEW i \in Span(al, c, b, nw, nw) PROVE FALSE
    <3>1. i \in A /\ al[i].at = nw
      BY <1>0, <1>1, <1>4, <2>1 DEF Span
    <3> QED BY <1>0, <1>2, <1>3, <3>1
  <2> QED BY <2>1
<1>6. /\ Span(am, c, b, nw, nw) = {Len(al) + 1} /\ Cardinality({Len(al) + 1}) = 1
  <2>1. Fits(a, c, b, nw, nw)
    BY DEF Fits
  <2>2. Span(am, c, b, nw, nw) = Span(al, c, b, nw, nw) \cup {Len(al) + 1}
    BY <2>1, AppendedSpan
  <2> QED BY <1>5, <2>2, FS_Singleton
<1>7. am[Len(al) + 1].at = nw
  BY DEF OneMore
<1>8. Span(am, c, b, (nw - RateWindow) + 1, nw - 1) \subseteq A
  <2>1. Span(am, c, b, (nw - RateWindow) + 1, nw - 1) = Span(al, c, b, (nw - RateWindow) + 1, nw - 1)
    <3>1. ~Fits(a, c, b, (nw - RateWindow) + 1, nw - 1)
      BY DEF Fits
    <3> QED BY <3>1, AppendedSpan
  <2>2. ASSUME NEW i \in 1..Len(al), (nw - RateWindow) + 1 <= al[i].at PROVE w.start <= al[i].at
    BY <1>0, <1>3, <1>4, <2>2
  <2> QED BY <1>1, <1>4, <2>1, <2>2 DEF Span
<1>9. Cardinality(Span(am, c, b, (nw - RateWindow) + 1, nw - 1)) <= RateMax
  <2>1. /\ Cardinality(Span(am, c, b, (nw - RateWindow) + 1, nw - 1)) \in Nat
        /\ Cardinality(Span(am, c, b, (nw - RateWindow) + 1, nw - 1)) <= Cardinality(A)
    BY <1>2, <1>8, SmallerSpan
  <2> QED BY <1>0, <1>2, <2>1
<1>10. v.start = nw /\ v.count = 1 /\ 1 \in 0..RateMax /\ nw < nw + RateWindow
  BY <1>0
<1>11. \A i \in Span(am, c, b, nw, nw) : am[i].at < nw + RateWindow
  BY <1>6, <1>7, <1>10
<1>12. Cardinality(Span(am, c, b, v.start, nw)) = v.count
  BY <1>6, <1>10
<1>13. /\ \A i \in Span(am, c, b, v.start, nw) : am[i].at < v.start + RateWindow
       /\ Cardinality(Span(am, c, b, (v.start - RateWindow) + 1, v.start - 1)) <= RateMax
  BY <1>9, <1>10, <1>11
<1>14. v.start \in Nat /\ v.count \in 0..RateMax /\ v.start <= nw /\ (v.count = 0 => v.start = 0)
  BY <1>10
<1> QED BY <1>12, <1>13, <1>14 DEF WindowCounts

\* Whichever window the last alert of a category is in, no span holds more than two of them.
LEMMA SpansStay ==
  ASSUME NEW al \in Seq(Alert), NEW a \in Alert, NEW am, OneMore(al, a, am), NEW b \in Nat, NEW nw \in Nat,
         SpansBounded(al), AlertsPast(am, b, nw), a.boot = b, a.at = nw,
         a.pc \in TriedPcs => \E v : /\ WindowCounts(am, b, nw, v, Category(a.key))
                                     /\ nw - v.start < RateWindow
  PROVE  SpansBounded(am)
<1>0. RateMax \in Nat \ {0} /\ RateWindow \in Nat \ {0}
  BY SubmitConstants
<1>1. SUFFICES ASSUME NEW t \in Nat, NEW d \in Nat, NEW c \in Categories
               PROVE  Cardinality(Span(am, c, d, t, (t + RateWindow) - 1)) <= 2 * RateMax
  BY DEF SpansBounded
<1>2. CASE ~Fits(a, c, d, t, (t + RateWindow) - 1)
  <2>1. Span(am, c, d, t, (t + RateWindow) - 1) = Span(al, c, d, t, (t + RateWindow) - 1)
    BY <1>2, AppendedSpan
  <2> QED BY <2>1 DEF SpansBounded
<1>3. CASE Fits(a, c, d, t, (t + RateWindow) - 1)
  <2>0. d = b /\ t <= nw /\ nw <= (t + RateWindow) - 1
    BY <1>3 DEF Fits
  <2>1. PICK v : WindowCounts(am, b, nw, v, c) /\ nw - v.start < RateWindow
    BY <1>3 DEF Fits
  <2>2. PICK A : A = Span(am, c, b, v.start, nw)
    OBVIOUS
  <2>3. PICK B : B = Span(am, c, b, (v.start - RateWindow) + 1, v.start - 1)
    OBVIOUS
  <2>4. v.start \in Nat /\ v.start <= nw /\ Cardinality(A) <= RateMax /\ Cardinality(B) <= RateMax
    BY <1>0, <2>1, <2>2, <2>3 DEF WindowCounts
  <2>5. am \in Seq(Alert) /\ IsFiniteSet(A) /\ IsFiniteSet(B)
    BY <2>2, <2>3, SpanFinite DEF OneMore
  <2>6. Span(am, c, d, t, (t + RateWindow) - 1) \subseteq A \cup B
    <3>1. \A i \in 1..Len(am) : am[i].at \in Nat /\ am[i].at <= nw
      BY <2>5, AlertFields DEF AlertsPast
    <3>2. ASSUME NEW i \in 1..Len(am), t <= am[i].at
          PROVE  v.start <= am[i].at \/ ((v.start - RateWindow) + 1 <= am[i].at /\ am[i].at <= v.start - 1)
      BY <1>0, <2>0, <2>1, <2>4, <3>1, <3>2
    <3> QED BY <2>0, <2>2, <2>3, <3>1, <3>2 DEF Span
  <2> QED BY <2>4, <2>5, <2>6, TwoWindows
<1> QED BY <1>2, <1>3

-----------------------------------------------------------------------------
(* A call of notify. *)

\* Every call of notify keeps the invariant of the alerts.
LEMMA NotifyKeeps ==
  ASSUME AlertsInv, NEW k \in Keys, Notify(k), boot' = boot, now' = now
  PROVE  AlertsInv' /\ \E a \in Alert : a.key = k /\ OneMore(alerts, a, alerts')
<1>0. /\ now \in Nat /\ boot \in Nat /\ alerts \in Seq(Alert)
      /\ RateMax \in Nat \ {0} /\ RateWindow \in Nat \ {0} /\ DedupWindow \in Nat \ {0}
  BY SubmitConstants DEF AlertsInv, AlertsPast
<1>1. PICK c \in Categories : c = Category(k)
  BY DEF Category, Categories
<1>2. PICK fate : fate = Fate(k)
  OBVIOUS
<1>3. fate \in TriedPcs \cup {"noop", "repeated", "limited"}
  BY <1>2 DEF Fate, TriedPcs
<1>4. PICK a : a = [key |-> k, at |-> now, boot |-> boot, pc |-> fate, n |-> 1]
  OBVIOUS
<1>5. a \in Alert /\ a.key = k /\ a.at = now /\ a.boot = boot /\ a.pc = fate
  BY <1>0, <1>3, <1>4 DEF Alert
<1>6. OneMore(alerts, a, alerts')
  <2>1. PICK am : am = Append(alerts, a)
    OBVIOUS
  <2>2. alerts' = am
    BY <1>2, <1>4, <2>1 DEF Notify
  <2>3. OneMore(alerts, a, am)
    BY <1>0, <1>5, <2>1, AppendedAlert
  <2> QED BY <2>2, <2>3
<1>7. AlertsPast(alerts', boot', now')
  <2>1. PICK n \in Nat : n = Len(alerts) /\ Len(alerts') = n + 1 /\ alerts'[n + 1] = a
                         /\ \A i \in 1..n : alerts'[i] = alerts[i]
    BY <1>6 DEF OneMore
  <2>2. ASSUME NEW i \in 1..(n + 1) PROVE alerts'[i].at <= now /\ alerts'[i].boot <= boot
    <3>1. CASE i = n + 1
      BY <1>0, <1>5, <2>1, <3>1
    <3>2. CASE i # n + 1
      <4>1. i \in 1..n
        BY <2>1, <2>2, <3>2
      <4> QED BY <2>1, <4>1 DEF AlertsInv, AlertsPast
    <3> QED BY <3>1, <3>2
  <2>3. alerts' \in Seq(Alert)
    BY <1>6 DEF OneMore
  <2> QED BY <2>1, <2>2, <2>3 DEF AlertsPast
<1>8. PICK w : w = rateWindow[c]
  OBVIOUS
<1>9. WindowCounts(alerts, boot, now, w, c) /\ w.start \in Nat /\ w.count \in Nat
  BY <1>1, <1>8 DEF AlertsInv, WindowCounts
<1>10. WindowOver(c) <=> w.count = 0 \/ now - w.start >= RateWindow
  BY <1>8 DEF WindowOver
<1>11. ASSUME fate \in {"noop", "repeated", "limited"}
      PROVE  /\ rateWindow' \in [Categories -> [start : Nat, count : Nat]]
             /\ \A d \in Categories : WindowCounts(alerts', boot', now', rateWindow'[d], d)
             /\ SpansBounded(alerts')
  <2>1. rateWindow' = rateWindow /\ a.pc \notin TriedPcs
    BY <1>1, <1>2, <1>5, <1>11 DEF Notify, TriedPcs
  <2>2. \A d \in Categories : WindowCounts(alerts', boot', now', rateWindow'[d], d)
    <3>1. ASSUME NEW d \in Categories PROVE WindowCounts(alerts', boot, now, rateWindow[d], d)
      <4>1. WindowCounts(alerts, boot, now, rateWindow[d], d)
        BY DEF AlertsInv
      <4> QED BY <1>0, <1>5, <1>6, <2>1, <4>1, WindowStays
    <3> QED BY <2>1, <3>1
  <2>3. SpansBounded(alerts')
    BY <1>0, <1>5, <1>6, <1>7, <2>1, SpansStay DEF AlertsInv
  <2> QED BY <2>1, <2>2, <2>3 DEF AlertsInv
\* The alert goes out, or finds no endpoint.
<1>12. ASSUME fate \in TriedPcs
      PROVE  /\ rateWindow' \in [Categories -> [start : Nat, count : Nat]]
             /\ \A d \in Categories : WindowCounts(alerts', boot', now', rateWindow'[d], d)
             /\ SpansBounded(alerts')
  <2>1. /\ rateWindow' = [rateWindow EXCEPT ![c] = IF WindowOver(c) THEN [start |-> now, count |-> 1]
                                  ELSE [start |-> w.start, count |-> w.count + 1]]
        /\ ~OverRate(c)
    <3>1. fate \notin {"noop", "repeated", "limited"}
      BY <1>12 DEF TriedPcs
    <3>2. ~OverRate(c)
      BY <1>1, <1>2, <3>1 DEF Fate
    <3> QED BY <1>1, <1>2, <1>8, <3>1, <3>2 DEF Notify
  <2>2. PICK v : v = IF WindowOver(c) THEN [start |-> now, count |-> 1]
                     ELSE [start |-> w.start, count |-> w.count + 1]
    OBVIOUS
  <2>3. rateWindow' = [rateWindow EXCEPT ![c] = v]
    BY <2>1, <2>2
  <2>4. WindowCounts(alerts', boot, now, v, c) /\ now - v.start < RateWindow
    <3>1. CASE WindowOver(c)
      <4>1. v = [start |-> now, count |-> 1]
        BY <2>2, <3>1
      <4>2. AlertsPast(alerts, boot, now)
        BY DEF AlertsInv
      <4>3. WindowCounts(alerts', boot, now, v, c)
        BY <1>0, <1>1, <1>5, <1>6, <1>9, <1>10, <1>12, <3>1, <4>1, <4>2, WindowOpens
      <4>4. v.start = now /\ now - now < RateWindow
        BY <1>0, <4>1
      <4> QED BY <4>3, <4>4
    <3>2. CASE ~WindowOver(c)
      <4>1. v = [start |-> w.start, count |-> w.count + 1]
        BY <2>2, <3>2
      <4>2. w.count # 0 /\ now - w.start < RateWindow /\ w.count < RateMax
        <5>1. w.count # 0 /\ ~(now - w.start >= RateWindow)
          BY <1>10, <3>2
        <5>2. ~(w.count >= RateMax)
          BY <1>8, <2>1, <3>2 DEF OverRate
        <5> QED BY <1>0, <1>9, <5>1, <5>2
      <4>3. WindowCounts(alerts', boot, now, v, c)
        <5>1. a.pc \in TriedPcs /\ Category(a.key) = c /\ a.boot = boot /\ a.at = now /\ a \in Alert
          BY <1>1, <1>5, <1>12
        <5> QED BY <1>0, <1>6, <1>9, <4>1, <4>2, <5>1, WindowTakes
      <4> QED BY <4>1, <4>2, <4>3
    <3> QED BY <3>1, <3>2
  <2>5. \A d \in Categories : WindowCounts(alerts', boot', now', rateWindow'[d], d)
    <3>1. ASSUME NEW d \in Categories, d # c PROVE WindowCounts(alerts', boot, now, rateWindow[d], d)
      <4>1. WindowCounts(alerts, boot, now, rateWindow[d], d)
        BY DEF AlertsInv
      <4>2. Category(a.key) # d
        BY <1>1, <1>5, <3>1
      <4> QED BY <1>0, <1>5, <1>6, <4>1, <4>2, WindowStays
    <3>2. rateWindow'[c] = v /\ \A d \in Categories : d # c => rateWindow'[d] = rateWindow[d]
      BY <1>1, <2>3 DEF AlertsInv
    <3> QED BY <2>4, <3>1, <3>2
  <2>6. SpansBounded(alerts')
    <3>1. AlertsPast(alerts', boot, now) /\ SpansBounded(alerts)
      BY <1>7 DEF AlertsInv
    <3>2. \E u : WindowCounts(alerts', boot, now, u, Category(a.key)) /\ now - u.start < RateWindow
      BY <1>1, <1>5, <2>4
    <3> QED BY <1>0, <1>5, <1>6, <3>1, <3>2, SpansStay
  <2>7. v \in [start : Nat, count : Nat]
    BY <1>0, <1>9, <2>2
  <2>8. rateWindow' \in [Categories -> [start : Nat, count : Nat]]
    BY <2>3, <2>7 DEF AlertsInv
  <2> QED BY <2>5, <2>6, <2>8
<1>13. /\ rateWindow' \in [Categories -> [start : Nat, count : Nat]]
       /\ \A d \in Categories : WindowCounts(alerts', boot', now', rateWindow'[d], d)
       /\ SpansBounded(alerts')
  BY <1>3, <1>11, <1>12
\* What was noted of the key, when the alert is swallowed as a repetition.
<1>14. PICK until \in Nat : until = dedupUntil[k] /\ Noted(alerts, now, until, k)
  BY DEF AlertsInv
<1>15. a.pc = "limited" => \E j \in 1..Len(alerts) : /\ Category(alerts[j].key) = Category(a.key)
                                                     /\ alerts[j].pc \in TriedPcs /\ a.at - alerts[j].at < RateWindow
  <2> SUFFICES ASSUME fate = "limited"
               PROVE  \E j \in 1..Len(alerts) : /\ Category(alerts[j].key) = c
                                                /\ alerts[j].pc \in TriedPcs /\ now - alerts[j].at < RateWindow
    BY <1>1, <1>5
  <2>1. OverRate(c)
    BY <1>1, <1>2 DEF Fate
  <2>2. w.count # 0 /\ now - w.start < RateWindow
    <3>1. ~(w.count = 0 \/ now - w.start >= RateWindow)
      BY <1>10, <2>1 DEF OverRate
    <3> QED BY <1>0, <1>9, <3>1
  <2>3. Span(alerts, c, boot, w.start, now) # {}
    BY <1>9, <2>2, FS_EmptySet DEF WindowCounts
  <2>4. PICK j \in 1..Len(alerts) : /\ alerts[j].pc \in TriedPcs /\ Category(alerts[j].key) = c
                                    /\ w.start <= alerts[j].at
    BY <2>3 DEF Span
  <2>5. alerts[j].at \in Nat
    BY <1>0, AlertFields
  <2>6. now - alerts[j].at < RateWindow
    BY <1>0, <1>9, <2>2, <2>4, <2>5
  <2> QED BY <2>4, <2>6
<1>16. a.pc = "repeated" => \E j \in 1..Len(alerts) : /\ Category(alerts[j].key) = Category(a.key)
                                                      /\ alerts[j].pc \in TriedPcs
                                                      /\ a.at - alerts[j].at < DedupWindow + RateWindow
  <2> SUFFICES ASSUME fate = "repeated"
               PROVE  \E j \in 1..Len(alerts) : /\ Category(alerts[j].key) = c /\ alerts[j].pc \in TriedPcs
                                                /\ now - alerts[j].at < DedupWindow + RateWindow
    BY <1>1, <1>5
  <2>1. Repeated(k)
    BY <1>2 DEF Fate
  <2>2. until > now
    BY <1>14, <2>1 DEF Repeated
  <2>3. PICK m \in 1..Len(alerts) : /\ alerts[m].key = k /\ alerts[m].at + DedupWindow = until
                                    /\ alerts[m].pc \in TriedPcs \cup {"limited"}
    BY <1>14, <2>2 DEF Noted
  <2>4. alerts[m].at \in Nat /\ Category(alerts[m].key) = c
    BY <1>0, <1>1, <2>3, AlertFields
  <2>5. CASE alerts[m].pc \in TriedPcs
    <3>1. now - alerts[m].at < DedupWindow + RateWindow
      BY <1>0, <2>2, <2>3, <2>4
    <3> QED BY <2>4, <2>5, <3>1
  <2>6. CASE alerts[m].pc = "limited"
    <3>1. Follows(alerts, m, RateWindow)
      BY <2>6 DEF AlertsInv, Silenced
    <3>2. PICK j \in 1..(m - 1) : /\ Category(alerts[j].key) = c /\ alerts[j].pc \in TriedPcs
                                  /\ alerts[m].at - alerts[j].at < RateWindow
      BY <2>4, <3>1 DEF Follows
    <3>3. j \in 1..Len(alerts)
      <4>1. Len(alerts) \in Nat
        BY <1>0
      <4> QED BY <4>1
    <3>4. alerts[j].at \in Nat
      BY <1>0, <3>3, AlertFields
    <3>5. now - alerts[j].at < DedupWindow + RateWindow
      BY <1>0, <2>2, <2>3, <2>4, <3>2, <3>4
    <3> QED BY <3>2, <3>3, <3>5
  <2> QED BY <2>3, <2>5, <2>6
<1>17. Silenced(alerts')
  BY <1>0, <1>5, <1>6, <1>15, <1>16, AppendedSilence DEF AlertsInv
<1>18. \A l \in Keys : Noted(alerts', now, dedupUntil[l], l)
  <2>1. ASSUME NEW l \in Keys PROVE Noted(alerts', now, dedupUntil[l], l)
    <3>1. Noted(alerts, now, dedupUntil[l], l)
      BY DEF AlertsInv
    <3> QED BY <1>0, <1>5, <1>6, <3>1, AppendedNotes
  <2> QED BY <2>1
<1>19. /\ dedupUntil' \in [Keys -> Nat]
       /\ \A l \in Keys : Noted(alerts', now', dedupUntil'[l], l)
  <2>1. CASE fate \in {"noop", "repeated"}
    <3>1. dedupUntil' = dedupUntil
      BY <1>2, <2>1 DEF Notify
    <3> QED BY <1>18, <3>1 DEF AlertsInv
  <2>2. CASE fate \notin {"noop", "repeated"}
    <3>1. dedupUntil' = [dedupUntil EXCEPT ![k] = now + DedupWindow]
      BY <1>2, <2>2 DEF Notify
    <3>2. /\ dedupUntil' \in [Keys -> Nat] /\ dedupUntil'[k] = now + DedupWindow
          /\ \A l \in Keys : l # k => dedupUntil'[l] = dedupUntil[l]
      BY <1>0, <3>1 DEF AlertsInv
    <3>3. Noted(alerts', now, now + DedupWindow, k)
      <4>1. a.pc \in TriedPcs \cup {"limited"}
        BY <1>3, <1>5, <2>2
      <4>2. Len(alerts) + 1 \in 1..Len(alerts') /\ alerts'[Len(alerts) + 1] = a
        BY <1>6 DEF OneMore
      <4> QED BY <1>5, <4>1, <4>2 DEF Noted
    <3> QED BY <1>18, <3>2, <3>3
  <2> QED BY <2>1, <2>2
<1>20. now' \in Nat /\ boot' \in Nat
  BY <1>0
<1> QED BY <1>5, <1>6, <1>7, <1>13, <1>17, <1>19, <1>20 DEF AlertsInv

-----------------------------------------------------------------------------
(* The conversion of weights to wad *)

\* Division, as the conversion uses it.
LEMMA Quotient ==
  ASSUME NEW a \in Nat, NEW d \in Nat \ {0}
  PROVE  a \div d \in Nat /\ d * (a \div d) <= a /\ a < d * (a \div d) + d
OBVIOUS

\* Division by the same number keeps the order.
LEMMA QuotientGrows ==
  ASSUME NEW a \in Nat, NEW b \in Nat, NEW d \in Nat \ {0}, a <= b
  PROVE  a \div d <= b \div d
<1>1. PICK p \in Nat, q \in Nat : p = a \div d /\ q = b \div d
  BY Quotient
<1>2. d * p <= a /\ b < d * q + d
  BY <1>1, Quotient
<1>3. ASSUME ~(p <= q) PROVE FALSE
  <2>1. p - (q + 1) \in Nat
    BY <1>1, <1>3
  <2>2. PICK r \in Nat : r = p - (q + 1)
    BY <2>1
  <2>3. p = (q + 1) + r
    BY <1>1, <2>2
  <2>4. d * p = (d * q + d) + d * r /\ d * r \in Nat /\ d * q \in Nat
    BY <1>1, <2>2, <2>3
  <2> QED BY <1>2, <1>1, <2>4
<1> QED BY <1>1, <1>3

\* The remainder has one place to go: the first of the largest.
LEMMA FirstLargest ==
  ASSUME NEW w \in [1..Ranked -> 0..Scale]
  PROVE  /\ MaxIndex(w) \in 1..Ranked
         /\ \A j \in 1..Ranked : w[j] < w[MaxIndex(w)] \/ (w[j] = w[MaxIndex(w)] /\ MaxIndex(w) <= j)
<1>0. Scale \in Nat /\ 1 \in 1..Ranked /\ DOMAIN w = 1..Ranked /\ Ranked \in Nat
  BY SubmitConstants
<1>1. PICK T : T = {Scale - w[i] : i \in 1..Ranked}
  OBVIOUS
<1>2. T \subseteq Nat /\ T # {}
  BY <1>0, <1>1
<1>3. PICK m \in T : \A k \in T : m <= k
  BY <1>2, LeastElement
<1>4. PICK i0 \in 1..Ranked : m = Scale - w[i0]
  BY <1>1, <1>3
<1>5. ASSUME NEW j \in 1..Ranked PROVE w[j] <= w[i0]
  <2>1. Scale - w[i0] <= Scale - w[j]
    BY <1>1, <1>3, <1>4
  <2>2. w[i0] \in Nat /\ w[j] \in Nat
    BY <1>0
  <2> QED BY <1>0, <2>1, <2>2
<1>6. PICK I : I = {i \in 1..Ranked : w[i] = w[i0]}
  OBVIOUS
<1>7. I \subseteq Nat /\ I # {}
  BY <1>4, <1>6
<1>8. PICK i1 \in I : \A k \in I : i1 <= k
  BY <1>7, LeastElement
<1>9. i1 \in 1..Ranked /\ \A j \in 1..Ranked : w[j] < w[i1] \/ (w[j] = w[i1] /\ i1 <= j)
  BY <1>0, <1>5, <1>6, <1>8
<1> QED BY <1>0, <1>9 DEF MaxIndex

\* The parts, rounded down: together no more than the whole they are parts of.
LEMMA PartsRoundDown ==
  ASSUME NEW w \in [1..Ranked -> 0..Scale],
         NEW ints, ints = [i \in 1..Ranked |-> (w[i] * Wad) \div Scale]
  PROVE  /\ ints \in [1..Ranked -> Nat] /\ Total(w) \in Nat /\ Total(ints) \in Nat
         /\ Scale * Total(ints) <= Wad * Total(w)
<1>0. Scale \in Nat \ {0} /\ Wad \in Nat /\ Ranked \in Nat
  BY SubmitConstants
<1>1. ASSUME NEW i \in 1..Ranked
      PROVE  (w[i] * Wad) \div Scale \in Nat /\ Scale * ((w[i] * Wad) \div Scale) <= Wad * w[i]
  <2>1. PICK p \in Nat : p = w[i] * Wad
    BY <1>0
  <2>2. p \div Scale \in Nat /\ Scale * (p \div Scale) <= p
    BY <1>0, <2>1, Quotient
  <2>3. p = Wad * w[i]
    BY <1>0, <2>1
  <2> QED BY <2>1, <2>2, <2>3
<1>2. ints \in [1..Ranked -> Nat] /\ w \in [1..Ranked -> Nat]
  BY <1>0, <1>1
<1>3. PICK a : a = [i \in 1..Ranked |-> Scale * ints[i]]
  OBVIOUS
<1>4. PICK b : b = [i \in 1..Ranked |-> Wad * w[i]]
  OBVIOUS
<1>5. a \in [1..Ranked -> Nat] /\ \A i \in 1..Ranked : a[i] = Scale * ints[i]
  BY <1>0, <1>2, <1>3
<1>6. b \in [1..Ranked -> Nat] /\ \A i \in 1..Ranked : b[i] = Wad * w[i]
  BY <1>0, <1>2, <1>4
<1>7. \A i \in 1..Ranked : a[i] <= b[i]
  BY <1>1, <1>5, <1>6
<1>8. SumTo(a, Ranked) <= SumTo(b, Ranked)
  BY <1>0, <1>5, <1>6, <1>7, SumLeq
<1>9. SumTo(a, Ranked) = Scale * SumTo(ints, Ranked)
  BY <1>0, <1>2, <1>5, SumScaled
<1>10. SumTo(b, Ranked) = Wad * SumTo(w, Ranked)
  BY <1>0, <1>2, <1>6, SumScaled
<1>11. SumTo(w, Ranked) \in Nat /\ SumTo(ints, Ranked) \in Nat
  BY <1>0, <1>2, SumIsNat
<1> QED BY <1>2, <1>8, <1>9, <1>10, <1>11 DEF Total

\* What rounding took can be taken back from the largest part, when there is too much of it.
LEMMA RemainderFits ==
  ASSUME NEW w \in [1..Ranked -> 0..Scale], Total(w) <= Scale + 1, Total(w) # 0,
         NEW ints, ints = [i \in 1..Ranked |-> (w[i] * Wad) \div Scale]
  PROVE  w[MaxIndex(w)] >= 1 /\ Total(ints) <= ints[MaxIndex(w)] + Wad
<1>0. Scale \in Nat \ {0} /\ Wad \in Nat /\ Ranked \in Nat
  BY SubmitConstants
<1>1. PICK m \in 1..Ranked : m = MaxIndex(w) /\ \A j \in 1..Ranked : w[j] <= w[m]
  <2>1. MaxIndex(w) \in 1..Ranked
    BY FirstLargest
  <2>2. \A j \in 1..Ranked : w[j] \in Nat
    BY <1>0
  <2>3. PICK m \in 1..Ranked : m = MaxIndex(w)
    BY <2>1
  <2>4. \A j \in 1..Ranked : w[j] < w[m] \/ w[j] = w[m]
    BY <2>3, FirstLargest
  <2>5. \A j \in 1..Ranked : w[j] <= w[m]
    BY <2>2, <2>4
  <2> QED BY <2>3, <2>5
<1>2. w[m] >= 1
  <2>1. CASE \A j \in 1..Ranked : w[j] = 0
    <3>1. \A k \in Nat : Summand(w, k) = 0
      BY <2>1 DEF Summand
    <3> QED BY <1>0, <3>1, SumOfZeros DEF Total
  <2>2. CASE \E j \in 1..Ranked : w[j] # 0
    BY <1>0, <1>1, <2>2
  <2> QED BY <2>1, <2>2
<1>3. PICK ti \in Nat, tw \in Nat : ti = Total(ints) /\ tw = Total(w) /\ Scale * ti <= Wad * tw
  BY PartsRoundDown
<1>4. PICK q \in Nat : q = Wad \div Scale /\ Wad < Scale * q + Scale
  BY <1>0, Quotient
<1>5. ints[m] \in Nat /\ q <= ints[m]
  <2>1. PICK p \in Nat : p = w[m] * Wad
    BY <1>0
  <2>2. Wad <= p
    <3>1. PICK v \in Nat : w[m] = v + 1
      <4>1. PICK wm \in Nat : wm = w[m]
        BY <1>0
      <4>2. wm - 1 \in Nat /\ wm = (wm - 1) + 1
        BY <1>2, <4>1
      <4> QED BY <4>1, <4>2
    <3>2. p = v * Wad + Wad /\ v * Wad \in Nat
      BY <1>0, <2>1, <3>1
    <3> QED BY <1>0, <3>2
  <2>3. Wad \div Scale <= p \div Scale /\ p \div Scale \in Nat
    BY <1>0, <2>1, <2>2, Quotient, QuotientGrows
  <2> QED BY <1>1, <1>4, <2>1, <2>3
<1>6. Wad * tw <= Wad * Scale + Wad
  <2>1. PICK r \in Nat : tw + r = Scale + 1
    <3>1. (Scale + 1) - tw \in Nat
      BY <1>0, <1>3
    <3> QED BY <1>0, <1>3, <3>1
  <2>2. Wad * tw + Wad * r = Wad * Scale + Wad
    BY <1>0, <2>1
  <2>3. Wad * r \in Nat /\ Wad * tw \in Nat /\ Wad * Scale \in Nat
    BY <1>0, <2>1
  <2> QED BY <1>0, <2>2, <2>3
<1>7. Scale * ti < Scale * ((Wad + q) + 1)
  <2>1. Scale * ((Wad + q) + 1) = (Wad * Scale + Scale * q) + Scale
    BY <1>0, <1>4
  <2>2. Scale * ti \in Nat /\ Wad * tw \in Nat /\ Wad * Scale \in Nat /\ Scale * q \in Nat
    BY <1>0, <1>3, <1>4
  <2> QED BY <1>0, <1>3, <1>4, <1>6, <2>1, <2>2
<1>8. ti <= Wad + q
  <2>1. CASE ti >= (Wad + q) + 1
    <3>0. (Wad + q) + 1 \in Nat
      BY <1>0, <1>4
    <3>2. PICK u \in Nat : u = (Wad + q) + 1
      BY <3>0
    <3>1. PICK r \in Nat : ti = u + r
      <4>1. ti - u \in Nat /\ ti = u + (ti - u)
        BY <1>3, <2>1, <3>2
      <4> QED BY <4>1
    <3>3. Scale * ti = Scale * u + Scale * r /\ Scale * r \in Nat /\ Scale * u \in Nat
      BY <1>0, <3>1, <3>2
    <3> QED BY <1>7, <3>2, <3>3
  <2> QED BY <1>0, <1>3, <1>4, <2>1
<1> QED BY <1>0, <1>1, <1>2, <1>3, <1>5, <1>8

\* The conversion of what softmax gives.
LEMMA ConversionSound ==
  ASSUME NEW w \in [1..Ranked -> 0..Scale], NEW valid \in SUBSET (1..Ranked),
         NEW roi, Softmax(w, valid, roi), w # <<>>
  PROVE  /\ Normalizes(w) /\ AcceptedByVault(ToWeightsWad(w))
         /\ \A i \in DOMAIN w \ valid : ToWeightsWad(w)[i] > 0 => i = 1 /\ valid = {}
<1>0. Scale \in Nat \ {0, 1} /\ Wad \in Nat /\ Ranked \in Nat /\ DOMAIN w = 1..Ranked /\ 1 \in 1..Ranked
  BY SubmitConstants
<1>1. PICK ints : ints = [i \in 1..Ranked |-> (w[i] * Wad) \div Scale]
  OBVIOUS
<1>2. ints \in [1..Ranked -> Nat] /\ Total(w) \in Nat /\ Total(ints) \in Nat
  BY <1>1, PartsRoundDown
<1>3. PICK m \in 1..Ranked : m = MaxIndex(w)
  BY FirstLargest
<1>4. PICK g : g = [ints EXCEPT ![m] = (@ + Wad) - Total(ints)]
  OBVIOUS
<1>5. ToWeightsWad(w) = g
  BY <1>0, <1>1, <1>3, <1>4 DEF ToWeightsWad
<1>6. Total(ints) <= ints[m] + Wad
  <2>1. CASE Total(w) # 0
    <3>1. Total(w) <= Scale + 1
      BY <1>0, <1>2 DEF Softmax
    <3> QED BY <1>1, <1>3, <2>1, <3>1, RemainderFits
  <2>2. CASE Total(w) = 0
    <3>1. Scale * Total(ints) <= Wad * 0
      BY <1>1, <2>2, PartsRoundDown
    <3>2. Scale * Total(ints) = 0
      BY <1>0, <1>2, <3>1
    <3>3. Total(ints) = 0
      BY <1>0, <1>2, <3>2
    <3> QED BY <1>0, <1>2, <3>3
  <2> QED BY <2>1, <2>2
<1>7. g \in [1..Ranked -> Nat] /\ g[m] = (ints[m] + Wad) - Total(ints)
      /\ \A i \in 1..Ranked : i # m => g[i] = ints[i]
  <2>1. (ints[m] + Wad) - Total(ints) \in Nat
    BY <1>0, <1>2, <1>6
  <2> QED BY <1>2, <1>4, <2>1
<1>8. Normalizes(w)
  BY <1>0, <1>5, <1>7 DEF Normalizes
<1>9. AcceptedByVault(ToWeightsWad(w))
  <2>1. SumTo(g, Ranked) + ints[m] = SumTo(ints, Ranked) + g[m]
    BY <1>0, <1>2, <1>7, SumChange
  <2>2. SumTo(g, Ranked) \in Nat /\ SumTo(ints, Ranked) \in Nat
    BY <1>0, <1>2, <1>7, SumIsNat
  <2>3. SumTo(g, Ranked) = Wad
    BY <1>0, <1>2, <1>7, <2>1, <2>2 DEF Total
  <2> QED BY <1>5, <2>3 DEF AcceptedByVault, Total
<1>10. ASSUME NEW i \in 1..Ranked, i \notin valid, g[i] > 0 PROVE i = 1 /\ valid = {}
  <2>1. w[i] = 0
    BY <1>0, <1>10 DEF Softmax
  <2>2. ints[i] = 0
    <3>1. 0 * Wad = 0 /\ 0 \div Scale = 0
      BY <1>0
    <3> QED BY <1>1, <2>1, <3>1
  <2>3. i = m
    BY <1>7, <1>10, <2>2
  <2>4. valid = {}
    <3>1. CASE valid # {}
      <4>1. Total(w) # 0 /\ Total(w) <= Scale + 1
        <5>1. Total(w) \in (Scale - 1)..(Scale + 1)
          BY <3>1 DEF Softmax
        <5> QED BY <1>0, <1>2, <5>1
      <4>2. w[m] >= 1
        BY <1>1, <1>3, <4>1, RemainderFits
      <4> QED BY <2>1, <2>3, <4>2
    <3> QED BY <3>1
  <2>5. w[1] = w[m]
    BY <1>0, <2>1, <2>3, <2>4 DEF Softmax
  <2>6. m <= 1
    <3>1. \A j \in 1..Ranked : w[j] < w[m] \/ (w[j] = w[m] /\ m <= j)
      BY <1>3, FirstLargest
    <3>2. w[1] \in Nat /\ w[m] \in Nat
      BY <1>0
    <3> QED BY <1>0, <2>5, <3>1, <3>2
  <2> QED BY <2>3, <2>4, <2>6
<1> QED BY <1>0, <1>5, <1>8, <1>9, <1>10

-----------------------------------------------------------------------------
(* The other steps of the alerts. *)

\* A process that starts again has empty maps, and its alerts are the ones of no process before it.
LEMMA RestartKeepsAlerts ==
  ASSUME AlertsInv, Restart
  PROVE  AlertsInv' /\ SameAlerts(alerts, alerts')
<1>0. now \in Nat /\ now' = now /\ boot = 0 /\ boot' = 1 /\ alerts \in Seq(Alert)
  BY DEF AlertsInv, AlertsPast, Restart
<1>1. PICK n \in Nat : n = Len(alerts) /\ DOMAIN alerts = 1..n /\ \A i \in 1..n : alerts[i] \in Alert
  <2>1. PICK S : S = Alert
    OBVIOUS
  <2>2. alerts \in Seq(S)
    BY <1>0, <2>1
  <2>3. Len(alerts) \in Nat /\ DOMAIN alerts = 1..Len(alerts) /\ \A i \in 1..Len(alerts) : alerts[i] \in S
    BY <2>2
  <2> QED BY <2>1, <2>3
<1>2. PICK am : am = [i \in 1..n |-> IF alerts[i].pc = "sending" THEN [alerts[i] EXCEPT !.pc = "over"] ELSE alerts[i]]
  OBVIOUS
<1>3. alerts' = am
  BY <1>1, <1>2 DEF Restart
<1>4. ASSUME NEW i \in 1..n
      PROVE  /\ am[i] \in Alert /\ am[i].key = alerts[i].key /\ am[i].at = alerts[i].at
             /\ am[i].boot = alerts[i].boot
             /\ am[i].pc = alerts[i].pc \/ (am[i].pc \in TriedPcs /\ alerts[i].pc \in TriedPcs)
  <2>1. CASE alerts[i].pc = "sending"
    <3>1. am[i] = [alerts[i] EXCEPT !.pc = "over"]
      BY <1>2, <2>1
    <3> QED BY <1>1, <2>1, <3>1 DEF Alert, TriedPcs
  <2>2. CASE alerts[i].pc # "sending"
    BY <1>1, <1>2, <2>2
  <2> QED BY <2>1, <2>2
<1>5. am \in Seq(Alert) /\ Len(am) = n
  <2>1. PICK S : S = Alert
    OBVIOUS
  <2>2. am \in [1..n -> S]
    BY <1>2, <1>4, <2>1
  <2>3. am \in Seq(S) /\ Len(am) = n
    BY <1>1, <2>2
  <2> QED BY <2>1, <2>3
<1>6. SameAlerts(alerts, am)
  BY <1>1, <1>4, <1>5 DEF SameAlerts
<1>7. \A i \in 1..n : alerts[i].boot <= 0 /\ alerts[i].at \in Nat /\ alerts[i].boot \in Nat /\ alerts[i].at <= now
  BY <1>0, <1>1, AlertFields DEF AlertsInv, AlertsPast
<1>8. AlertsPast(am, 1, now)
  BY <1>1, <1>4, <1>5, <1>7 DEF AlertsPast
<1>9. \A c, lo, hi : Span(am, c, 1, lo, hi) = {}
  <2>1. \A c, lo, hi : Span(alerts, c, 1, lo, hi) = {}
    BY <1>1, <1>7 DEF Span
  <2> QED BY <1>6, <2>1, SameSpans
<1>10. ASSUME NEW c \in Categories PROVE WindowCounts(am, 1, now, [start |-> 0, count |-> 0], c)
  <2>1. PICK w : w = [start |-> 0, count |-> 0]
    OBVIOUS
  <2>2. w.start = 0 /\ w.count = 0 /\ RateMax \in Nat /\ RateWindow \in Nat
    BY <2>1, SubmitConstants
  <2>3. \A lo, hi : Span(am, c, 1, lo, hi) = {} /\ Cardinality(Span(am, c, 1, lo, hi)) = 0
    BY <1>9, FS_EmptySet
  <2>4. WindowCounts(am, 1, now, w, c)
    BY <1>0, <1>9, <2>2, <2>3 DEF WindowCounts
  <2> QED BY <2>1, <2>4
<1>11. SpansBounded(am)
  BY <1>6, SameSpans DEF AlertsInv, SpansBounded
<1>12. Silenced(am)
  BY <1>0, <1>6, SameSilence DEF AlertsInv
<1>13. \A k \in Keys : dedupUntil'[k] = 0 /\ Noted(am, now, 0, k)
  BY <1>0 DEF Restart, Noted
<1>14. \A c \in Categories : rateWindow'[c] = [start |-> 0, count |-> 0]
  BY DEF Restart
<1>15. rateWindow' \in [Categories -> [start : Nat, count : Nat]] /\ dedupUntil' \in [Keys -> Nat]
  BY DEF Restart
<1>16. \A c \in Categories : WindowCounts(am, 1, now, rateWindow'[c], c)
  BY <1>10, <1>14
<1>17. \A k \in Keys : Noted(am, now, dedupUntil'[k], k)
  BY <1>13
<1> QED BY <1>0, <1>3, <1>6, <1>8, <1>11, <1>12, <1>15, <1>16, <1>17 DEF AlertsInv

\* An attempt to deliver moves one alert on.
LEMMA AttemptKeepsAlerts ==
  ASSUME AlertsInv, NEW i \in DOMAIN alerts, AlertAttempt(i)
  PROVE  AlertsInv' /\ SameAlerts(alerts, alerts')
<1>0. boot' = boot /\ now' = now /\ rateWindow' = rateWindow /\ dedupUntil' = dedupUntil /\ alerts \in Seq(Alert)
  BY DEF AlertsInv, AlertsPast, AlertAttempt
<1>1. PICK n \in Nat : n = Len(alerts) /\ DOMAIN alerts = 1..n /\ \A j \in 1..n : alerts[j] \in Alert
  <2>1. PICK S : S = Alert
    OBVIOUS
  <2>2. alerts \in Seq(S)
    BY <1>0, <2>1
  <2>3. Len(alerts) \in Nat /\ DOMAIN alerts = 1..Len(alerts) /\ \A j \in 1..Len(alerts) : alerts[j] \in S
    BY <2>2
  <2> QED BY <2>1, <2>3
<1>2. PICK x : x \in {[alerts[i] EXCEPT !.pc = "over"], Retried(alerts[i])} /\ alerts' = [alerts EXCEPT ![i] = x]
  BY DEF AlertAttempt
<1>3. alerts[i] \in Alert /\ alerts[i].pc = "sending"
  BY <1>1 DEF AlertAttempt
<1>4. /\ x \in Alert /\ x.key = alerts[i].key /\ x.at = alerts[i].at /\ x.boot = alerts[i].boot
      /\ x.pc \in TriedPcs
  <2>1. PICK a \in Alert : a = alerts[i]
    BY <1>3
  <2>2. CASE x = [a EXCEPT !.pc = "over"]
    BY <2>1, <2>2 DEF Alert, TriedPcs
  <2>3. CASE x = [a EXCEPT !.n = @ + 1]
    BY <1>3, <2>1, <2>3 DEF Alert, TriedPcs
  <2> QED BY <1>2, <2>1, <2>2, <2>3 DEF Retried
<1>5. PICK am : am = [alerts EXCEPT ![i] = x]
  OBVIOUS
<1>6. \A j \in 1..n : am[j] = IF j = i THEN x ELSE alerts[j]
  BY <1>1, <1>5
<1>7. am \in Seq(Alert) /\ Len(am) = n
  <2>1. PICK S : S = Alert
    OBVIOUS
  <2>2. alerts \in Seq(S) /\ x \in S
    BY <1>0, <1>4, <2>1
  <2>3. am \in Seq(S) /\ Len(am) = n
    BY <1>1, <1>5, <2>2
  <2> QED BY <2>1, <2>3
<1>8. SameAlerts(alerts, am)
  <2>1. alerts[i].pc \in TriedPcs
    BY <1>3 DEF TriedPcs
  <2> QED BY <1>1, <1>4, <1>6, <1>7, <2>1 DEF SameAlerts
<1>9. alerts' = am
  BY <1>2, <1>5
<1>10. AlertsInv'
  BY <1>0, <1>7, <1>8, <1>9, AlertsCarryOn
<1> QED BY <1>8, <1>9, <1>10

\* Alerts left alone.
LEMMA SameIsSame == \A al : SameAlerts(al, al)
BY DEF SameAlerts

-----------------------------------------------------------------------------
(* The submissions. *)

Alerted(s) == \E i \in DOMAIN alerts : alerts[i].key = s

\* What is known of a season's submission: a request for every attempt but the one under way
\* may have arrived; what it carries is what softmax gave.
PostSound(s) ==
  /\ arrived[s] \in Nat /\ arrived[s] <= MaxAttempts
  /\ post[s].pc = "none" => arrived[s] = 0
  /\ post[s].pc = "sending" => post[s].n \in 1..MaxAttempts /\ arrived[s] < post[s].n
  /\ post[s].pc = "done" => arrived[s] > 0 \/ s \in onChain
  /\ post[s].pc = "failed" => (config.mode = "http" /\ config.dlq => s \in deadLetters) /\ Alerted(s)
  /\ s \in deadLetters => post[s].pc = "failed"
  /\ s \in receipts => s \in onChain
  /\ post[s].weights # <<>> => \E p \in Payloads : p.weights = post[s].weights /\ p.valid = post[s].valid

PostsInv ==
  /\ DOMAIN post = Submissions /\ arrived \in [Submissions -> Nat]
  /\ \A s \in Submissions : PostSound(s)

\* Once alerted, always alerted.
LEMMA AlertedStays ==
  ASSUME AlertsInv, NEW s,
         (SameAlerts(alerts, alerts') /\ alerts' \in Seq(Alert)) \/ \E a \in Alert : OneMore(alerts, a, alerts')
  PROVE  Alerted(s) => Alerted(s)'
<1>1. alerts \in Seq(Alert)
  BY DEF AlertsInv, AlertsPast
<1>2. alerts' \in Seq(Alert)
  BY DEF OneMore
<1>3. \A q \in Seq(Alert) : DOMAIN q = 1..Len(q) /\ Len(q) \in Nat
  <2>1. PICK S : S = Alert
    OBVIOUS
  <2>2. \A q \in Seq(S) : DOMAIN q = 1..Len(q) /\ Len(q) \in Nat
    OBVIOUS
  <2> QED BY <2>1, <2>2
<1>4. ASSUME NEW i \in 1..Len(alerts) PROVE i \in 1..Len(alerts') /\ alerts'[i].key = alerts[i].key
  <2>1. CASE SameAlerts(alerts, alerts')
    BY <2>1 DEF SameAlerts
  <2>2. CASE \E a \in Alert : OneMore(alerts, a, alerts')
    BY <1>1, <1>3, <2>2 DEF OneMore
  <2> QED BY <2>1, <2>2
<1> QED BY <1>1, <1>2, <1>3, <1>4 DEF Alerted

\* The alert of a call of notify.
LEMMA NewlyAlerted ==
  ASSUME NEW a \in Alert, OneMore(alerts, a, alerts')
  PROVE  Alerted(a.key)'
<1>1. alerts' \in Seq(Alert) /\ alerts'[Len(alerts) + 1] = a /\ Len(alerts') = Len(alerts) + 1 /\ Len(alerts) \in Nat
  BY DEF OneMore
<1>2. DOMAIN alerts' = 1..Len(alerts')
  <2>1. PICK S : S = Alert
    OBVIOUS
  <2>2. alerts' \in Seq(S)
    BY <1>1, <2>1
  <2> QED BY <2>2
<1>3. Len(alerts) + 1 \in DOMAIN alerts'
  BY <1>1, <1>2
<1> QED BY <1>1, <1>3 DEF Alerted

SubmitInv == AlertsInv /\ PostsInv

\* A step that touches no submission.
LEMMA PostsRest ==
  ASSUME SubmitInv,
         UNCHANGED <<config, post, onChain, arrived, deadLetters, receipts>>,
         \A s : Alerted(s) => Alerted(s)'
  PROVE  PostsInv'
BY DEF SubmitInv, PostsInv, PostSound

\* A step that touches one submission.
LEMMA PostsOther ==
  ASSUME SubmitInv, NEW s \in Submissions, NEW p, NEW k \in Nat,
         config' = config, post' = [post EXCEPT ![s] = p],
         arrived' = [arrived EXCEPT ![s] = k],
         \A r : r # s => /\ (r \in onChain <=> r \in onChain')
                         /\ (r \in deadLetters <=> r \in deadLetters')
                         /\ (r \in receipts <=> r \in receipts'),
         \A r : Alerted(r) => Alerted(r)'
  PROVE  /\ DOMAIN post' = Submissions /\ arrived' \in [Submissions -> Nat]
         /\ post'[s] = p /\ arrived'[s] = k
         /\ \A r \in Submissions : r # s => PostSound(r)'
<1>1. /\ DOMAIN post' = Submissions /\ arrived' \in [Submissions -> Nat]
      /\ post'[s] = p /\ arrived'[s] = k
      /\ \A r \in Submissions : r # s => post'[r] = post[r] /\ arrived'[r] = arrived[r]
  BY DEF SubmitInv, PostsInv
<1>2. ASSUME NEW r \in Submissions, r # s PROVE PostSound(r)'
  <2>1. PostSound(r)
    BY DEF SubmitInv, PostsInv
  <2>2. post'[r] = post[r] /\ arrived'[r] = arrived[r]
    BY <1>1, <1>2
  <2>3. /\ (r \in onChain <=> r \in onChain')
        /\ (r \in deadLetters <=> r \in deadLetters')
        /\ (r \in receipts <=> r \in receipts')
        /\ Alerted(r) => Alerted(r)'
    BY <1>2
  <2> QED BY <2>1, <2>2, <2>3 DEF PostSound
<1> QED BY <1>1, <1>2

\* A season is settled.
LEMMA SettleKeeps ==
  ASSUME SubmitInv, NEW s \in Submissions, NEW p \in Payloads, SettleSeason(s, p)
  PROVE  SubmitInv'
<1>1. AlertsInv'
  <2>1. alerts \in Seq(Alert)
    BY DEF SubmitInv, AlertsInv, AlertsPast
  <2> QED BY <2>1, AlertsCarryOn, SameIsSame DEF SubmitInv, SettleSeason
<1>2. \A r : Alerted(r) => Alerted(r)'
  BY DEF SettleSeason, Alerted
<1>3. PICK x : /\ x = IF config.mode = "logging" THEN Ended("logged")
                      ELSE [pc |-> "sending", n |-> 1, weights |-> p.weights, valid |-> p.valid]
               /\ post' = [post EXCEPT ![s] = x]
  BY DEF SettleSeason
<1>4. arrived' = [arrived EXCEPT ![s] = arrived[s]]
  BY DEF SettleSeason, SubmitInv, PostsInv
<1>5. /\ DOMAIN post' = Submissions /\ arrived' \in [Submissions -> Nat]
      /\ post'[s] = x /\ arrived'[s] = arrived[s]
      /\ \A r \in Submissions : r # s => PostSound(r)'
  <2>1. config' = config /\ arrived[s] \in Nat /\ \A r : r # s => /\ (r \in onChain <=> r \in onChain')
                         /\ (r \in deadLetters <=> r \in deadLetters')
                         /\ (r \in receipts <=> r \in receipts')
    BY DEF SettleSeason, SubmitInv, PostsInv
  <2> QED BY <1>2, <1>3, <1>4, <2>1, PostsOther
<1>6. post[s].pc = "none" /\ arrived[s] = 0 /\ s \notin deadLetters /\ PostSound(s)
  <2>1. post[s].pc = "none"
    BY DEF SettleSeason, NoPost, Ended
  <2> QED BY <2>1 DEF SubmitInv, PostsInv, PostSound
<1>7. PostSound(s)'
  <2>1. \/ x.pc = "logged" /\ x.weights = <<>>
        \/ x.pc = "sending" /\ x.n = 1 /\ x.weights = p.weights /\ x.valid = p.valid
    BY <1>3 DEF Ended
  <2>2. 1 \in 1..MaxAttempts
    BY SubmitConstants
  <2>3. UNCHANGED <<config, onChain, deadLetters, receipts>>
    BY DEF SettleSeason
  <2> QED BY <1>5, <1>6, <2>1, <2>2, <2>3 DEF PostSound
<1> QED BY <1>1, <1>5, <1>7 DEF SubmitInv, PostsInv

\* The alert of a submission that was given up.
LEMMA GivesUpAlerts ==
  ASSUME SubmitInv, NEW s \in Submissions, GivesUp(s), boot' = boot, now' = now
  PROVE  AlertsInv' /\ Alerted(s)' /\ \A r : Alerted(r) => Alerted(r)'
<1>1. s \in Keys /\ Notify(s)
  BY DEF GivesUp, Keys
<1>2. AlertsInv' /\ \E a \in Alert : a.key = s /\ OneMore(alerts, a, alerts')
  BY <1>1, NotifyKeeps DEF SubmitInv
<1>3. PICK a \in Alert : a.key = s /\ OneMore(alerts, a, alerts')
  BY <1>2
<1>4. Alerted(s)'
  <2>1. Alerted(a.key)'
    BY <1>3, NewlyAlerted
  <2> QED BY <1>3, <2>1 DEF Alerted
<1>5. ASSUME NEW r PROVE Alerted(r) => Alerted(r)'
  BY <1>3, AlertedStays DEF SubmitInv
<1> QED BY <1>2, <1>4, <1>5

\* An attempt over HTTP.
LEMMA HttpKeeps ==
  ASSUME SubmitInv, NEW s \in Submissions, NEW reaches \in BOOLEAN, NEW ok \in BOOLEAN,
         HttpAttempt(s, reaches, ok)
  PROVE  SubmitInv'
<1>0. /\ config.mode = "http" /\ post[s].pc = "sending" /\ config' = config /\ now' = now /\ boot' = boot
      /\ onChain' = onChain /\ receipts' = receipts /\ (ok => reaches)
  BY DEF HttpAttempt
<1>1. PostSound(s) /\ arrived[s] \in Nat /\ post[s].n \in 1..MaxAttempts /\ arrived[s] < post[s].n
  BY <1>0 DEF SubmitInv, PostsInv, PostSound
<1>2. PICK k : k = (IF reaches THEN arrived[s] + 1 ELSE arrived[s]) /\ arrived' = [arrived EXCEPT ![s] = k]
  BY DEF HttpAttempt, SubmitInv, PostsInv
<1>3. k \in Nat /\ k <= post[s].n /\ k <= MaxAttempts /\ (ok => k > 0)
  BY <1>0, <1>1, <1>2, SubmitConstants
<1>4. alerts \in Seq(Alert)
  BY DEF SubmitInv, AlertsInv, AlertsPast
<1>5. CASE /\ ok /\ post' = [post EXCEPT ![s] = Ended("done")]
           /\ UNCHANGED <<deadLetters, dedupUntil, rateWindow, alerts>>
  <2>1. AlertsInv'
    BY <1>0, <1>4, <1>5, AlertsCarryOn, SameIsSame DEF SubmitInv
  <2>2. \A r : Alerted(r) => Alerted(r)'
    BY <1>5 DEF Alerted
  <2>3. /\ DOMAIN post' = Submissions /\ arrived' \in [Submissions -> Nat]
        /\ post'[s] = Ended("done") /\ arrived'[s] = k
        /\ \A r \in Submissions : r # s => PostSound(r)'
    BY <1>0, <1>2, <1>3, <1>5, <2>2, PostsOther
  <2>4. PostSound(s)'
    BY <1>0, <1>1, <1>3, <1>5, <2>3 DEF PostSound, Ended
  <2> QED BY <2>1, <2>3, <2>4 DEF SubmitInv, PostsInv
<1>6. CASE /\ ~ok /\ Retried(post[s]).pc = "sending" /\ post' = [post EXCEPT ![s] = Retried(post[s])]
           /\ UNCHANGED <<deadLetters, dedupUntil, rateWindow, alerts>>
  <2>1. AlertsInv'
    BY <1>0, <1>4, <1>6, AlertsCarryOn, SameIsSame DEF SubmitInv
  <2>2. \A r : Alerted(r) => Alerted(r)'
    BY <1>6 DEF Alerted
  <2>3. PICK x : x = Retried(post[s])
    OBVIOUS
  <2>4. /\ DOMAIN post' = Submissions /\ arrived' \in [Submissions -> Nat]
        /\ post'[s] = x /\ arrived'[s] = k
        /\ \A r \in Submissions : r # s => PostSound(r)'
    BY <1>0, <1>2, <1>3, <1>6, <2>2, <2>3, PostsOther
  <2>5. PICK q : q = post[s]
    OBVIOUS
  <2>6. x.pc = "sending" /\ x.n = q.n + 1 /\ q.n + 1 \in 1..MaxAttempts /\ x.weights = q.weights /\ x.valid = q.valid
    <3>1. q.n < MaxAttempts
      <4>1. CASE ~(q.n < MaxAttempts)
        <5>1. x = [q EXCEPT !.pc = "over"]
          BY <2>3, <2>5, <4>1 DEF Retried
        <5>2. x.pc # "sending"
          BY <5>1
        <5> QED BY <1>6, <2>3, <5>2
      <4> QED BY <4>1
    <3>2. x = [q EXCEPT !.n = @ + 1]
      BY <2>3, <2>5, <3>1 DEF Retried
    <3>3. q.pc = "sending" /\ q.n \in 1..MaxAttempts
      BY <1>0, <1>1, <2>5
    <3> QED BY <1>6, <2>3, <3>1, <3>2, <3>3, SubmitConstants
  <2>7. PostSound(s)'
    BY <1>0, <1>1, <1>3, <1>6, <2>4, <2>5, <2>6, SubmitConstants DEF PostSound
  <2> QED BY <2>1, <2>4, <2>7 DEF SubmitInv, PostsInv
<1>7. CASE ~ok /\ deadLetters' = DeadLettersAfter(s) /\ GivesUp(s)
  <2>1. AlertsInv' /\ Alerted(s)' /\ \A r : Alerted(r) => Alerted(r)'
    BY <1>0, <1>7, GivesUpAlerts
  <2>2. post' = [post EXCEPT ![s] = Ended("failed")]
    BY <1>7 DEF GivesUp
  <2>3. /\ config.dlq => s \in deadLetters'
        /\ \A r : r # s => (r \in deadLetters <=> r \in deadLetters')
    BY <1>7 DEF DeadLettersAfter
  <2>4. /\ DOMAIN post' = Submissions /\ arrived' \in [Submissions -> Nat]
        /\ post'[s] = Ended("failed") /\ arrived'[s] = k
        /\ \A r \in Submissions : r # s => PostSound(r)'
    BY <1>0, <1>2, <1>3, <2>1, <2>2, <2>3, PostsOther
  <2>5. PostSound(s)'
    BY <1>0, <1>1, <1>3, <2>1, <2>3, <2>4 DEF PostSound, Ended
  <2> QED BY <2>1, <2>4, <2>5 DEF SubmitInv, PostsInv
<1> QED BY <1>5, <1>6, <1>7 DEF HttpAttempt

\* The transaction.
LEMMA ChainKeeps ==
  ASSUME SubmitInv, NEW s \in Submissions, NEW lands \in BOOLEAN, NEW ok \in BOOLEAN,
         ChainSend(s, lands, ok)
  PROVE  SubmitInv'
<1>0. /\ config.mode = "onchain" /\ post[s].pc = "sending" /\ config' = config /\ now' = now /\ boot' = boot
      /\ deadLetters' = deadLetters /\ (ok => lands) /\ onChain' = IF lands THEN onChain \cup {s} ELSE onChain
  BY DEF ChainSend
<1>1. PostSound(s) /\ arrived[s] \in Nat /\ s \notin deadLetters
  BY <1>0 DEF SubmitInv, PostsInv, PostSound
<1>2. arrived' = [arrived EXCEPT ![s] = arrived[s]]
  BY DEF ChainSend, SubmitInv, PostsInv
<1>3. alerts \in Seq(Alert)
  BY DEF SubmitInv, AlertsInv, AlertsPast
<1>4. onChain \subseteq onChain' /\ (ok => s \in onChain') /\ \A r : r # s => (r \in onChain <=> r \in onChain')
  BY <1>0
<1>5. CASE /\ ok /\ receipts' = receipts \cup {s} /\ post' = [post EXCEPT ![s] = Ended("done")]
           /\ UNCHANGED <<dedupUntil, rateWindow, alerts>>
  <2>1. AlertsInv'
    BY <1>0, <1>3, <1>5, AlertsCarryOn, SameIsSame DEF SubmitInv
  <2>2. \A r : Alerted(r) => Alerted(r)'
    BY <1>5 DEF Alerted
  <2>3. /\ DOMAIN post' = Submissions /\ arrived' \in [Submissions -> Nat]
        /\ post'[s] = Ended("done") /\ arrived'[s] = arrived[s]
        /\ \A r \in Submissions : r # s => PostSound(r)'
    BY <1>0, <1>1, <1>2, <1>4, <1>5, <2>2, PostsOther
  <2>4. PostSound(s)'
    BY <1>0, <1>1, <1>4, <1>5, <2>3 DEF PostSound, Ended
  <2> QED BY <2>1, <2>3, <2>4 DEF SubmitInv, PostsInv
<1>6. CASE ~ok /\ GivesUp(s) /\ UNCHANGED receipts
  <2>1. AlertsInv' /\ Alerted(s)' /\ \A r : Alerted(r) => Alerted(r)'
    BY <1>0, <1>6, GivesUpAlerts
  <2>2. post' = [post EXCEPT ![s] = Ended("failed")]
    BY <1>6 DEF GivesUp
  <2>3. /\ DOMAIN post' = Submissions /\ arrived' \in [Submissions -> Nat]
        /\ post'[s] = Ended("failed") /\ arrived'[s] = arrived[s]
        /\ \A r \in Submissions : r # s => PostSound(r)'
    BY <1>0, <1>1, <1>2, <1>4, <1>6, <2>1, <2>2, PostsOther
  <2>4. PostSound(s)'
    BY <1>0, <1>1, <1>4, <1>6, <2>1, <2>3 DEF PostSound, Ended
  <2> QED BY <2>1, <2>3, <2>4 DEF SubmitInv, PostsInv
<1> QED BY <1>5, <1>6 DEF ChainSend

\* A restart loses what was on its way.
LEMMA RestartKeeps ==
  ASSUME SubmitInv, Restart PROVE SubmitInv'
<1>1. AlertsInv' /\ SameAlerts(alerts, alerts')
  BY RestartKeepsAlerts DEF SubmitInv
<1>2. ASSUME NEW r PROVE Alerted(r) => Alerted(r)'
  <2>1. alerts' \in Seq(Alert)
    BY <1>1 DEF AlertsInv, AlertsPast
  <2> QED BY <1>1, <2>1, AlertedStays DEF SubmitInv
<1>3. DOMAIN post' = Submissions /\ arrived' \in [Submissions -> Nat]
  BY DEF Restart, SubmitInv, PostsInv
<1>4. ASSUME NEW s \in Submissions PROVE PostSound(s)'
  <2>1. PostSound(s) /\ UNCHANGED <<config, onChain, arrived, deadLetters, receipts>>
    BY DEF Restart, SubmitInv, PostsInv
  <2>2. CASE post[s].pc = "sending"
    <3>1. post'[s] = Ended("lost")
      BY <2>2 DEF Restart
    <3> QED BY <2>1, <2>2, <3>1 DEF PostSound, Ended
  <2>3. CASE post[s].pc # "sending"
    <3>1. post'[s] = post[s]
      BY <2>3 DEF Restart
    <3> QED BY <1>2, <2>1, <3>1 DEF PostSound
  <2> QED BY <2>2, <2>3
<1> QED BY <1>1, <1>3, <1>4 DEF SubmitInv, PostsInv

\* At the first start nothing was submitted.
LEMMA SubmitStart == SubmitInit => SubmitInv
<1> SUFFICES ASSUME SubmitInit PROVE SubmitInv
  OBVIOUS
<1>1. alerts \in Seq(Alert) /\ Len(alerts) = 0
  <2>1. \A S : <<>> \in Seq(S)
    OBVIOUS
  <2> QED BY <2>1 DEF SubmitInit
<1>2. \A c, b, lo, hi : Span(alerts, c, b, lo, hi) = {}
  BY <1>1 DEF Span
<1>3. ASSUME NEW c \in Categories PROVE WindowCounts(alerts, boot, now, rateWindow[c], c)
  <2>1. PICK w : w = [start |-> 0, count |-> 0]
    OBVIOUS
  <2>2. w.start = 0 /\ w.count = 0 /\ Cardinality({}) = 0 /\ w = rateWindow[c]
    BY <2>1, FS_EmptySet DEF SubmitInit
  <2>3. RateMax \in Nat /\ 0 \in 0..RateMax /\ now = 0
    BY SubmitConstants DEF SubmitInit
  <2>4. WindowCounts(alerts, boot, now, w, c)
    BY <1>2, <2>2, <2>3 DEF WindowCounts
  <2> QED BY <2>2, <2>4
<1>4. SpansBounded(alerts)
  BY <1>2, FS_EmptySet, SubmitConstants DEF SpansBounded
<1>5. AlertsPast(alerts, boot, now) /\ Silenced(alerts)
  BY <1>1 DEF AlertsPast, Silenced
<1>6. /\ now \in Nat /\ boot \in Nat /\ rateWindow \in [Categories -> [start : Nat, count : Nat]]
      /\ dedupUntil \in [Keys -> Nat] /\ \A k \in Keys : Noted(alerts, now, dedupUntil[k], k)
  BY DEF SubmitInit, Noted
<1>7. AlertsInv
  BY <1>3, <1>4, <1>5, <1>6 DEF AlertsInv
<1>8. PostsInv
  BY SubmitConstants DEF SubmitInit, PostsInv, PostSound, NoPost, Ended
<1> QED BY <1>7, <1>8 DEF SubmitInv

\* Every step keeps the invariant.
LEMMA SubmitStep ==
  ASSUME SubmitInv, [SubmitNext]_submitVars PROVE SubmitInv'
<1>0. alerts \in Seq(Alert)
  BY DEF SubmitInv, AlertsInv, AlertsPast
<1>1. CASE Tick
  <2>1. AlertsInv'
    BY <1>0, <1>1, AlertsCarryOn, SameIsSame DEF SubmitInv, Tick
  <2>2. PostsInv'
    BY <1>1, PostsRest DEF Tick, Alerted
  <2> QED BY <2>1, <2>2 DEF SubmitInv
<1>2. CASE Restart
  BY <1>2, RestartKeeps
<1>3. ASSUME NEW k \in AgentErrors, AgentFails(k) PROVE SubmitInv'
  <2>1. k \in Keys /\ Notify(k) /\ boot' = boot /\ now' = now
    BY <1>3 DEF AgentFails, Keys
  <2>2. AlertsInv' /\ \E a \in Alert : a.key = k /\ OneMore(alerts, a, alerts')
    BY <2>1, NotifyKeeps DEF SubmitInv
  <2>3. ASSUME NEW r PROVE Alerted(r) => Alerted(r)'
    BY <2>2, AlertedStays DEF SubmitInv
  <2>4. PostsInv'
    BY <1>3, <2>3, PostsRest DEF AgentFails
  <2> QED BY <2>2, <2>4 DEF SubmitInv
<1>4. ASSUME NEW i \in DOMAIN alerts, AlertAttempt(i) PROVE SubmitInv'
  <2>1. AlertsInv' /\ SameAlerts(alerts, alerts')
    BY <1>4, AttemptKeepsAlerts DEF SubmitInv
  <2>2. ASSUME NEW r PROVE Alerted(r) => Alerted(r)'
    <3>1. alerts' \in Seq(Alert)
      BY <2>1 DEF AlertsInv, AlertsPast
    <3> QED BY <2>1, <3>1, AlertedStays DEF SubmitInv
  <2>3. PostsInv'
    BY <1>4, <2>2, PostsRest DEF AlertAttempt
  <2> QED BY <2>1, <2>3 DEF SubmitInv
<1>5. ASSUME NEW s \in Submissions, HttpStep(s) PROVE SubmitInv'
  BY <1>5, HttpKeeps DEF HttpStep
<1>6. ASSUME NEW s \in Submissions, ChainStep(s) PROVE SubmitInv'
  BY <1>6, ChainKeeps DEF ChainStep
<1>7. ASSUME NEW s \in Submissions, SettleStep(s) PROVE SubmitInv'
  BY <1>7, SettleKeeps DEF SettleStep
<1>8. CASE UNCHANGED submitVars
  <2>1. AlertsInv'
    BY <1>0, <1>8, AlertsCarryOn, SameIsSame DEF SubmitInv, submitVars
  <2>2. PostsInv'
    BY <1>8, PostsRest DEF submitVars, Alerted
  <2> QED BY <2>1, <2>2 DEF SubmitInv
<1> QED BY <1>1, <1>2, <1>3, <1>4, <1>5, <1>6, <1>7, <1>8 DEF SubmitNext

\* It holds in every behaviour.
LEMMA SubmitAlways == SubmitSpec => []SubmitInv
BY SubmitStart, SubmitStep, PTL DEF SubmitSpec

\* Whatever softmax gave and whoever lost a request or an answer: no submission is lost without
\* a trace, and the weights that go out are ones the vault takes.
THEOREM SubmissionsAlwaysSound == SubmitSpec => []SubmissionSound
<1>1. ASSUME SubmitInv PROVE SubmissionAccounted
  BY <1>1 DEF SubmitInv, PostsInv, PostSound, SubmissionAccounted, Alerted
<1>2. ASSUME SubmitInv PROVE WeightsAccepted
  <2> SUFFICES ASSUME NEW s \in Submissions, NEW w, w = post[s].weights, w # <<>>
               PROVE  /\ Normalizes(w) /\ AcceptedByVault(ToWeightsWad(w))
                      /\ \A i \in DOMAIN w \ post[s].valid :
                            ToWeightsWad(w)[i] > 0 => i = 1 /\ post[s].valid = {}
    BY DEF WeightsAccepted
  <2>1. PICK p \in Payloads : p.weights = w /\ p.valid = post[s].valid
    BY <1>2 DEF SubmitInv, PostsInv, PostSound
  <2>2. PICK roi : /\ w \in [1..Ranked -> 0..Scale] /\ p.valid \in SUBSET (1..Ranked)
                   /\ Softmax(w, p.valid, roi)
    BY <2>1 DEF Payloads
  <2>3. /\ Normalizes(w) /\ AcceptedByVault(ToWeightsWad(w))
        /\ \A i \in DOMAIN w \ p.valid : ToWeightsWad(w)[i] > 0 => i = 1 /\ p.valid = {}
    BY <2>2, ConversionSound
  <2> QED BY <2>1, <2>3
<1> QED BY <1>1, <1>2, SubmitAlways, PTL DEF SubmissionSound

\* For any windows and limits, no category goes silent for longer than both windows, and no
\* span of a window sees more than twice the limit.
THEOREM AlertsAlwaysSound == SubmitSpec => []AlertsSound
<1>1. ASSUME SubmitInv PROVE SilenceIsShort
  <2>1. alerts \in Seq(Alert) /\ Silenced(alerts)
    BY <1>1 DEF SubmitInv, AlertsInv, AlertsPast
  <2>2. DOMAIN alerts = 1..Len(alerts) /\ Len(alerts) \in Nat
    <3>1. PICK S : S = Alert
      OBVIOUS
    <3>2. alerts \in Seq(S)
      BY <2>1, <3>1
    <3> QED BY <3>2
  <2> SUFFICES ASSUME NEW i \in DOMAIN alerts, alerts[i].pc \in {"repeated", "limited"}
               PROVE  \E j \in 1..i - 1 :
                        /\ Category(alerts[j].key) = Category(alerts[i].key)
                        /\ alerts[j].pc \in {"sending", "over", "unrouted"}
                        /\ alerts[i].at - alerts[j].at < DedupWindow + RateWindow
    BY DEF SilenceIsShort
  <2>3. PICK j \in 1..(i - 1) : /\ Category(alerts[j].key) = Category(alerts[i].key) /\ alerts[j].pc \in TriedPcs
                                /\ \/ alerts[i].at - alerts[j].at < RateWindow
                                   \/ alerts[i].at - alerts[j].at < DedupWindow + RateWindow
    BY <2>1, <2>2 DEF Silenced, Follows
  <2>4. alerts[i].at \in Nat /\ alerts[j].at \in Nat
    <3>1. j \in 1..Len(alerts)
      BY <2>2
    <3> QED BY <2>1, <2>2, <3>1, AlertFields
  <2>5. alerts[i].at - alerts[j].at < DedupWindow + RateWindow
    BY <2>3, <2>4, SubmitConstants
  <2> QED BY <2>3, <2>5 DEF TriedPcs
<1>2. ASSUME SubmitInv PROVE RateBounded
  <2>1. alerts \in Seq(Alert) /\ SpansBounded(alerts) /\ now \in Nat /\ boot \in Nat
    BY <1>2 DEF SubmitInv, AlertsInv, AlertsPast
  <2>2. DOMAIN alerts = 1..Len(alerts) /\ \A i \in 1..Len(alerts) : alerts[i].at \in Nat
    <3>1. PICK S : S = Alert
      OBVIOUS
    <3>2. alerts \in Seq(S)
      BY <2>1, <3>1
    <3> QED BY <2>1, <3>2, AlertFields
  <2> SUFFICES ASSUME NEW t \in 0..now, NEW b \in 0..boot, NEW c \in Categories
               PROVE  Cardinality({i \in DOMAIN alerts :
                        /\ alerts[i].pc \in {"sending", "over", "unrouted"} /\ alerts[i].boot = b
                        /\ Category(alerts[i].key) = c
                        /\ alerts[i].at \in t..(t + RateWindow - 1)}) <= 2 * RateMax
    BY DEF RateBounded
  <2>3. t \in Nat /\ b \in Nat /\ RateWindow \in Nat
    BY <2>1, SubmitConstants
  <2>4. {i \in DOMAIN alerts :
           /\ alerts[i].pc \in {"sending", "over", "unrouted"} /\ alerts[i].boot = b
           /\ Category(alerts[i].key) = c
           /\ alerts[i].at \in t..(t + RateWindow - 1)} = Span(alerts, c, b, t, (t + RateWindow) - 1)
    BY <2>2, <2>3 DEF Span, TriedPcs
  <2> QED BY <2>1, <2>3, <2>4 DEF SpansBounded
<1> QED BY <1>1, <1>2, SubmitAlways, PTL DEF AlertsSound

==================================================================================
