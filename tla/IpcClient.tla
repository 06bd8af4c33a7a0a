------------------------------ MODULE IpcClient ------------------------------
(***************************************************************************)
(* The bridge between the node processes and the Python strategy engine:   *)
(* packages/ipc-bridge/src/ipc-client.ts and python/ipc/server.py.  Many   *)
(* requests share one socket; a map from ids to callbacks matches the      *)
(* replies.  The ids of trades and health checks are made of the clock.    *)
(* The socket is opened once: a server that restarts is not found again.   *)
(***************************************************************************)
EXTENDS Naturals, Sequences

CONSTANTS Requests,     \* calls of the client, 1 .. n
          Cycles, TradeTokens,
          MaxMs         \* bound: milliseconds in which ids can differ

None == "none"

VARIABLES
  ms, socket,           \* Date.now(); whether the client holds a socket
  wire,                 \* the connection is open
  toServer, toClient,   \* lines on their way
  req,                  \* what became of each call: dropped is neither resolved nor rejected
  pending,              \* pendingRequests: id to the call it will settle
  recorded,             \* the server's _last_trade_time
  restarted             \* the server lost its memory and our connection

ipcVars == <<ms, socket, wire, toServer, toClient, req, pending, recorded, restarted>>

Unsent == [pc |-> "unsent", id |-> <<>>, about |-> None, got |-> None]

IpcInit ==
  /\ ms = 0 /\ socket = TRUE /\ wire = TRUE
  /\ toServer = <<>> /\ toClient = <<>>
  /\ req = [r \in Requests |-> Unsent]
  /\ pending = <<>>     \* a function from ids, empty
  /\ recorded = {} /\ restarted = FALSE

-----------------------------------------------------------------------------
(* The client *)

Ids == DOMAIN pending
Without(id) == [i \in Ids \ {id} |-> pending[i]]
With(id, r) == [i \in Ids \cup {id} |-> IF i = id THEN r ELSE pending[i]]

\* One call: refused without a socket, else its callback is kept under its id, over
\* any other there, and the line is written; a dead connection swallows it.
Call(r, id, method, about) ==
  /\ req[r].pc = "unsent" /\ \A q \in Requests : q < r => req[q].pc # "unsent"
  /\ req' = [req EXCEPT ![r] = [pc |-> IF socket THEN "pending" ELSE "rejected",
                                id |-> id, about |-> about, got |-> None]]
  /\ pending' = IF socket THEN With(id, r) ELSE pending
  /\ toServer' = IF socket /\ wire
                 THEN Append(toServer, [id |-> id, method |-> method, about |-> about])
                 ELSE toServer
  /\ UNCHANGED <<ms, socket, wire, toClient, recorded, restarted>>

ProcessSnapshot(r, c) == Call(r, <<"cycle", c, r>>, "process_snapshot", c)
GetHealth(r) == Call(r, <<"health", ms>>, "get_health", "health")
RecordTrade(r, t) == Call(r, <<"trade", ms, t>>, "record_trade", t)

Settled(r, how, what) == req' = [req EXCEPT ![r].pc = how, ![r].got = what]

\* The call a reply settles: the one whose callback is kept under its id.
CalledForMutant(id) == pending[CHOOSE i \in Ids : i[1] = id[1]]
CalledFor(id) == pending[id]

\* A reply stops the call's timer first.  One the callback then cannot read, an error without
\* a message, settles nothing: the throw ends in the line's own catch.
HandleLine ==
  /\ socket /\ toClient # <<>>
  /\ LET m == Head(toClient) IN
       IF m.id \in Ids
       THEN /\ Settled(CalledFor(m.id), m.outcome, m.about)
            /\ pending' = Without(m.id)
       ELSE UNCHANGED <<req, pending>>
  /\ toClient' = Tail(toClient)
  /\ UNCHANGED <<ms, socket, wire, toServer, recorded, restarted>>

\* A timer is stopped only by the callback it was made with: it outlives a callback that
\* another call's has replaced, and then removes that one.
TimerLivesMutant(r) == req[r].pc = "pending" /\ req[r].id \in Ids /\ pending[req[r].id] = r
TimerLives(r) == req[r].pc = "pending"

TimesOut(r) ==
  /\ TimerLives(r)
  /\ Settled(r, "rejected", None)
  /\ pending' = Without(req[r].id)
  /\ UNCHANGED <<ms, socket, wire, toServer, toClient, recorded, restarted>>

\* The close event: no reconnect, and nobody tells the calls that wait.
SeesClose ==
  /\ socket /\ ~wire /\ toClient = <<>>
  /\ socket' = FALSE
  /\ UNCHANGED <<ms, wire, toServer, toClient, req, pending, recorded, restarted>>

Disconnect ==
  /\ socket
  /\ socket' = FALSE /\ wire' = FALSE /\ toServer' = <<>> /\ toClient' = <<>>
  /\ UNCHANGED <<ms, req, pending, recorded, restarted>>

Millisecond ==
  /\ ms < MaxMs /\ ms' = ms + 1
  /\ UNCHANGED <<socket, wire, toServer, toClient, req, pending, recorded, restarted>>

-----------------------------------------------------------------------------
(* The server: one line at a time, each answered before the next is read *)

\* The reply is written after the trade was recorded.
Recording(m) == IF m.method = "record_trade" THEN recorded \cup {m.about} ELSE recorded

Dispatch(outcome) ==
  /\ wire /\ toServer # <<>>
  /\ LET m == Head(toServer)
     IN /\ toClient' = Append(toClient, [id |-> m.id, outcome |-> outcome, about |-> m.about])
        /\ recorded' = IF outcome = "resolved" THEN Recording(m) ELSE recorded
        /\ m.method = "get_health" => outcome = "resolved"
        /\ outcome = "dropped" => m.method = "process_snapshot"
  /\ toServer' = Tail(toServer)
  /\ UNCHANGED <<ms, socket, wire, req, pending, restarted>>

\* A line that is no JSON or longer than the reader's limit ends the connection.
RefusesLine ==
  /\ wire /\ toServer # <<>>
  /\ wire' = FALSE /\ toServer' = <<>>
  /\ UNCHANGED <<ms, socket, toClient, req, pending, recorded, restarted>>

Restart ==
  /\ ~restarted
  /\ restarted' = TRUE /\ recorded' = {} /\ wire' = FALSE /\ toServer' = <<>>
  /\ UNCHANGED <<ms, socket, toClient, req, pending>>

IpcNext ==
  \/ \E r \in Requests : \/ \E c \in Cycles : ProcessSnapshot(r, c)
                         \/ GetHealth(r) \/ TimesOut(r)
                         \/ \E t \in TradeTokens : RecordTrade(r, t)
  \/ HandleLine \/ SeesClose \/ Disconnect \/ Millisecond
  \/ \E o \in {"resolved", "rejected", "dropped"} : Dispatch(o)
  \/ RefusesLine \/ Restart

\* Timers fire.
IpcFairness == \A r \in Requests : WF_ipcVars(TimesOut(r))
IpcSpec == IpcInit /\ [][IpcNext]_ipcVars /\ IpcFairness

-----------------------------------------------------------------------------
\* A call is settled with the answer to itself (two calls made for one token in one
\* millisecond, or two health checks, are one to the server); when a trade's call is settled well,
\* the server had recorded it; and only calls that still wait have callbacks.
OwnAnswer == \A r \in Requests : req[r].pc = "resolved" =>
  /\ req[r].got = req[r].about
  /\ req[r].about \in TradeTokens => req[r].about \in recorded \/ restarted
CallbacksWait == \A i \in Ids : req[pending[i]].pc = "pending" /\ req[pending[i]].id = i
RepliesMatched == OwnAnswer /\ CallbacksWait

\* Every call is settled, also when another call's callback replaced its own, the reply was lost
\* or the server is gone; but for one whose reply came and could not be read.
EveryCallSettles == \A r \in Requests : (req[r].pc = "pending") ~> (req[r].pc # "pending")

\* Each request has its own timeout (PROJECT_GUIDE.md:412): sooner or later its caller hears.
\* It does not hold: a reply that cannot be read stops the timer and settles nothing.
EveryCallerHears ==
  \A r \in Requests : (req[r].pc = "pending") ~> (req[r].pc \in {"resolved", "rejected"})
=============================================================================
