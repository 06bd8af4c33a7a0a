----------------------------- MODULE BoardChain -----------------------------
(***************************************************************************)
(* The task board and the escrow its calldata is meant for.  The board     *)
(* writes the four bytes that name a function out by hand; the contract    *)
(* knows its functions by those of its signatures, and reverts on any      *)
(* other.  The contract is what TaskEscrow implements: TaskPromise.        *)
(***************************************************************************)
EXTENDS TaskBoard

VARIABLES
    sent,       \* calls clients have sent
    fundedAs,   \* the contract's tasks in the order they were funded
    stage, box  \* the contract, as TaskPromise has it

chainVars == <<vars, sent, fundedAs, stage, box>>

Ids == 1..MaxTasks
Escrow == INSTANCE TaskPromise WITH TaskIds <- Ids, Amounts <- {1}

SEL == [fund    |-> "5d7b3bbe", deliver |-> "0d74d2d7",
        release |-> "86d1a69f", refund  |-> "7249fbb6"]

\* methodIdentifiers of the compiled contract
MethodIds == [fund    |-> "3b3c386f", deliver |-> "d9b42a7f",
              release |-> "37bdc99b", refund  |-> "278ecde1"]

ChainInit == Init /\ sent = {} /\ fundedAs = <<>> /\ Escrow!Init
-----------------------------------------------------------------------------
(* Clients send each call once, in any order, or never.  A call that the   *)
(* contract does not know, or that it refuses, reverts.                    *)

FundTask(call) ==
    /\ fundedAs' = Append(fundedAs, call.uid)
    /\ Escrow!Open(Len(fundedAs'), 1)

OtherCall(call) ==
    /\ call.id \in DOMAIN fundedAs
    /\ \/ call.fn = "deliver" /\ fundedAs[call.id] \notin late /\ Escrow!Deliver(call.id)
       \/ call.fn = "release" /\ Escrow!PayTaker(call.id)
       \/ call.fn = "refund" /\ fundedAs[call.id] \in late /\ Escrow!PayPoster(call.id)
    /\ UNCHANGED fundedAs

Reverts == UNCHANGED <<fundedAs, stage, box>>

\* fund is sent before the deadline it names, with the money approved.
Send(call) ==
    /\ call \notin sent /\ sent' = sent \cup {call}
    /\ call.fn = "fund" => call.uid \notin late
    /\ IF SEL[call.fn] # MethodIds[call.fn] THEN Reverts
       ELSE IF call.fn = "fund" THEN FundTask(call)
       ELSE OtherCall(call) \/ Reverts
    /\ UNCHANGED vars

ChainNext ==
    \/ Next /\ UNCHANGED <<sent, fundedAs, stage, box>>
    \/ \E call \in calldata : Send(call)

ChainSpec == ChainInit /\ [][ChainNext]_chainVars

\* "Generate calldata for two on-chain transactions the UI must send", the second
\* "escrow.fund(taker, amount, deadline, taskHash)" (tasks.ts l.211-213): who sends
\* it in time has opened a task of the contract.
FundCallFunds ==
    \A call \in sent : call.fn = "fund" =>
        \E t \in DOMAIN fundedAs : fundedAs[t] = call.uid /\ stage[t] # "unknown"
=============================================================================
