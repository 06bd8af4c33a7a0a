---------------------------- MODULE MCAgentCalls ----------------------------
(* Small instances of an agent's calls (AgentCalls) and of the bridge the   *)
(* internal agents use (IpcClient), each checked while the other rests.     *)
(* Two tokens, one of which an agent of the older kinds cannot name, and    *)
(* prices that halve or double; a sale that leaves dust, and amounts of     *)
(* zero and less.                                                           *)
EXTENDS AgentCalls, IpcClient

VARIABLE part

Sig(a, t, n) == [action |-> a, token |-> t, amount |-> n]
MCMarkets == <<[A |-> 1, B |-> 2], [A |-> 2, B |-> 0], [A |-> 1, B |-> 4]>>
MCAnswers == {<<Sig("BUY", "A", 32), Sig("BUY", "B", 8)>>,
              <<Sig("JUMP", "A", 1), Sig("SELL", "A", 8), Sig("BUY", "B", 8)>>,
              <<Sig("SELL", "A", 62), Sig("HOLD", "B", 0)>>,
              <<Sig("BUY", "A", 0 - 8), Sig("SELL", "A", 0)>>}
MCLimits == [webhook |-> 2, prompt |-> 2]

BothInit == /\ Init /\ IpcInit /\ part \in {"agent", "bridge"}
            /\ part = "bridge" => kind = "internal" /\ ready
BothNext == /\ UNCHANGED part
            /\ \/ part = "agent" /\ Next /\ UNCHANGED ipcVars
               \/ part = "bridge" /\ IpcNext /\ UNCHANGED vars
BothSpec == BothInit /\ [][BothNext]_<<part, vars, ipcVars>> /\ Fairness /\ IpcFairness

\* No decision that was asked for and no call over the bridge stays open, but for one whose reply
\* could not be read: a cycle of the engine waits for all of them (arena-engine.ts:154-158,
\* ipc-client.ts:102-111).
CallsEnd == EveryCallEnds /\ EveryCallSettles
=============================================================================
