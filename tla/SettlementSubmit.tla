-------------------------- MODULE SettlementSubmit --------------------------
(***************************************************************************)
(* What leaves the engine when a season is settled or something goes       *)
(* wrong: the season submitter (cli/src/arena/season-submitter.ts), by     *)
(* HTTP with retries and a dead letter file or by one transaction, and the *)
(* alert notifier (cli/src/ops/alert-notifier.ts), which removes repeated  *)
(* alerts, limits their rate, routes and delivers them with retries.  The  *)
(* hooks of `arena start` join the two.                                    *)
(*                                                                         *)
(* Both HTTP loops are the same loop; a post is one run of it.  An alert   *)
(* is a record of what became of one call of notify; its key stands for    *)
(* the hash of the event, its category for "level:category".               *)
(***************************************************************************)
EXTENDS Integers, Sequences, FiniteSets, NatSums

CONSTANTS
    Submissions,        \* seasons that may settle
    AgentErrors,    \* keys of the errors of agents
    Wad, Scale,     \* 1e18, and the number of equal parts weights are counted in
    Ranked,      \* agents of a season
    Routes,         \* sets of endpoints configured: "fallback", "error", "warn"
    MaxAttempts, DedupWindow, RateWindow, RateMax,
    MaxAlerts,      \* bound: calls of notify
    Horizon         \* bound: the clock

\* parsePositiveInt and the defaults make every number of the configuration positive.
ASSUME SubmitConstants ==
    /\ Submissions \cap AgentErrors = {}
    /\ MaxAttempts \in Nat \ {0} /\ RateMax \in Nat \ {0}
    /\ DedupWindow \in Nat \ {0} /\ RateWindow \in Nat \ {0}
    /\ Ranked \in Nat \ {0} /\ Wad \in Nat /\ Scale \in Nat \ {0, 1}

VARIABLES
    config,     \* mode, dead letter files, endpoints: the environment at start
    now,
    boot,       \* how often the process was started
    post,       \* each season's submission
    onChain,    \* seasons the settler has
    arrived,    \* copies of each season's settlement at the endpoint
    deadLetters,\* seasons in the dead letter file
    receipts,   \* seasons in the receipts file
    dedupUntil, rateWindow,     \* the guard's two maps
    alerts      \* calls of notify

submitVars == <<config, now, boot, post, onChain, arrived, deadLetters, receipts,
          dedupUntil, rateWindow, alerts>>

Keys == Submissions \cup AgentErrors
Categories == {"error", "warn"}     \* one category of each level is in use here
Category(k) == IF k \in Submissions THEN "error" ELSE "warn"
Ended(pc) == [pc |-> pc, n |-> 0, weights |-> <<>>, valid |-> {}]
NoPost == Ended("none")

SubmitInit ==
    /\ config \in [mode : {"http", "onchain", "logging"}, dlq : BOOLEAN,
                   routes : Routes]
    /\ config.dlq => config.mode = "http"
    /\ now = 0 /\ boot = 0
    /\ post = [s \in Submissions |-> NoPost]
    /\ onChain = {} /\ arrived = [s \in Submissions |-> 0]
    /\ deadLetters = {} /\ receipts = {}
    /\ dedupUntil = [k \in Keys |-> 0]
    /\ rateWindow = [c \in Categories |-> [start |-> 0, count |-> 0]]
    /\ alerts = <<>>
-----------------------------------------------------------------------------
(* toWeightsWad: fractions, in parts of Scale, to integers that sum to WAD. *)

Total(f) == SumTo(f, Ranked)

\* The first of the largest weights takes what rounding left over.
MaxIndex(w) ==
    CHOOSE i \in DOMAIN w : \A j \in DOMAIN w : w[j] < w[i] \/ (w[j] = w[i] /\ i <= j)

\* A plausible slip: the remainder is dropped.
ToWeightsWadMutant(w) == [i \in DOMAIN w |-> (w[i] * Wad) \div Scale]

ToWeightsWad(w) ==
    LET ints == [i \in DOMAIN w |-> (w[i] * Wad) \div Scale]
    IN  IF w = <<>> THEN <<>> ELSE [ints EXCEPT ![MaxIndex(w)] = (@ + Wad) - Total(ints)]

Normalizes(w) == w = <<>> \/ \A i \in DOMAIN w : ToWeightsWad(w)[i] >= 0

\* What softmax may give, counting only those with valid results: the rest has
\* nothing, a better one no less than a worse one, and the sum is one but for
\* rounding.  With no valid agent all are zero.
Softmax(w, valid, roi) ==
    /\ \A i \in DOMAIN w \ valid : w[i] = 0
    /\ \A i, j \in valid : roi[i] >= roi[j] => w[i] >= w[j]
    /\ Total(w) \in IF valid = {} THEN {0} ELSE Scale - 1..Scale + 1

\* An engine without agents settles without weights.
Payloads ==
    {[weights |-> <<>>, valid |-> {}]} \cup
    {p \in [weights : [1..Ranked -> 0..Scale], valid : SUBSET (1..Ranked)] :
        \E roi \in [1..Ranked -> 0..1] : Softmax(p.weights, p.valid, roi)}

\* setSeasonWeights
AcceptedByVault(wad) == Total(wad) = Wad
-----------------------------------------------------------------------------
(* notify: the guard, the router, and the start of a delivery.             *)

Target(c) == IF c \in config.routes THEN c ELSE IF "fallback" \in config.routes THEN "fallback" ELSE "none"

\* A plausible slip: an alert keeps its repetitions away for ever.
RepeatedMutant(k) == dedupUntil[k] > 0

Repeated(k) == dedupUntil[k] > now

\* A plausible slip: every call starts a window.
WindowOverMutant(c) == TRUE

WindowOver(c) == rateWindow[c].count = 0 \/ now - rateWindow[c].start >= RateWindow
OverRate(c) == ~WindowOver(c) /\ rateWindow[c].count >= RateMax

Fate(k) ==
    CASE config.routes = {} -> "noop"
      [] config.routes # {} /\ Repeated(k) -> "repeated"
      [] config.routes # {} /\ ~Repeated(k) /\ OverRate(Category(k)) -> "limited"
      [] OTHER -> IF Target(Category(k)) = "none" THEN "unrouted" ELSE "sending"

\* A repetition touches no map; the limit comes after the repetition is noted.
Notify(k) ==
    LET c == Category(k) fate == Fate(k)
    IN  /\ alerts' = Append(alerts, [key |-> k, at |-> now, boot |-> boot, pc |-> fate, n |-> 1])
        /\ dedupUntil' = IF fate \in {"noop", "repeated"} THEN dedupUntil
                         ELSE [dedupUntil EXCEPT ![k] = now + DedupWindow]
        /\ rateWindow' = CASE fate \in {"noop", "repeated", "limited"} -> rateWindow
                           [] OTHER -> [rateWindow EXCEPT ![c] =
                                  IF WindowOver(c) THEN [start |-> now, count |-> 1]
                                  ELSE [start |-> rateWindow[c].start, count |-> rateWindow[c].count + 1]]

Room == Len(alerts) < MaxAlerts

\* onAgentError
AgentFails(k) ==
    /\ Room /\ Notify(k)
    /\ UNCHANGED <<config, now, boot, post, onChain, arrived, deadLetters, receipts>>

\* The next attempt after a failed one, or the end.
Retried(p) == IF p.n < MaxAttempts THEN [p EXCEPT !.n = @ + 1] ELSE [p EXCEPT !.pc = "over"]

AlertAttempt(i) ==
    /\ alerts[i].pc = "sending"
    /\ \E ok \in BOOLEAN :
          alerts' = [alerts EXCEPT ![i] = IF ok THEN [alerts[i] EXCEPT !.pc = "over"]
                                          ELSE Retried(alerts[i])]
    /\ UNCHANGED <<config, now, boot, post, onChain, arrived, deadLetters, receipts,
                   dedupUntil, rateWindow>>
-----------------------------------------------------------------------------
(* The submission of a settlement.                                         *)

\* onSeasonEnd, once per season: the posts of HTTP and the transaction start,
\* the logging submitter is done.
SettleSeason(s, p) ==
    /\ post[s] = NoPost
    /\ post' = [post EXCEPT ![s] = IF config.mode = "logging" THEN Ended("logged")
                                    ELSE [pc |-> "sending", n |-> 1, weights |-> p.weights, valid |-> p.valid]]
    /\ config.mode = "onchain" \/ p.weights = <<>>     \* no other mode looks into them
    /\ UNCHANGED <<config, now, boot, onChain, arrived, deadLetters, receipts,
                   dedupUntil, rateWindow, alerts>>

\* A plausible slip: the last failure leaves no dead letter.
DeadLettersAfterMutant(s) == deadLetters

DeadLettersAfter(s) == IF config.dlq THEN deadLetters \cup {s} ELSE deadLetters

\* The loop has ended or thrown: dead letter, throw, and the hook's alert, at once.
GivesUp(s) ==
    /\ post' = [post EXCEPT ![s] = Ended("failed")]
    /\ Room /\ Notify(s)

\* A request may reach the endpoint whether or not its answer is seen in time.
HttpAttempt(s, reaches, ok) ==
    /\ config.mode = "http" /\ post[s].pc = "sending"
    /\ ok => reaches
    /\ arrived' = IF reaches THEN [arrived EXCEPT ![s] = @ + 1] ELSE arrived
    /\ \/ /\ ok /\ post' = [post EXCEPT ![s] = Ended("done")]
          /\ UNCHANGED <<deadLetters, dedupUntil, rateWindow, alerts>>
       \/ /\ ~ok /\ Retried(post[s]).pc = "sending" /\ post' = [post EXCEPT ![s] = Retried(post[s])]
          /\ UNCHANGED <<deadLetters, dedupUntil, rateWindow, alerts>>
       \/ /\ ~ok /\ Retried(post[s]).pc = "over" /\ deadLetters' = DeadLettersAfter(s) /\ GivesUp(s)
    /\ UNCHANGED <<config, now, boot, onChain, receipts>>

\* One transaction: refused when its gas is estimated, or mined.  cast may fail
\* although it was mined; there is no second try and no dead letter.  Nobody
\* else settles or pauses between the estimate and the block, where cast would
\* hand out the receipt of a transaction that reverted.
ChainSend(s, lands, ok) ==
    /\ config.mode = "onchain" /\ post[s].pc = "sending"
    /\ ok => lands
    /\ lands => /\ Normalizes(post[s].weights) /\ AcceptedByVault(ToWeightsWad(post[s].weights))
                /\ s \notin onChain
    /\ onChain' = IF lands THEN onChain \cup {s} ELSE onChain
    /\ \/ /\ ok /\ receipts' = receipts \cup {s} /\ post' = [post EXCEPT ![s] = Ended("done")]
          /\ UNCHANGED <<dedupUntil, rateWindow, alerts>>
       \/ ~ok /\ GivesUp(s) /\ UNCHANGED receipts
    /\ UNCHANGED <<config, now, boot, arrived, deadLetters>>

Tick ==
    /\ now < Horizon /\ now' = now + 1
    /\ UNCHANGED <<config, boot, post, onChain, arrived, deadLetters, receipts,
                   dedupUntil, rateWindow, alerts>>

\* The process dies and is started again: its maps are empty, its posts gone.
Restart ==
    /\ boot = 0 /\ boot' = 1
    /\ post' = [s \in Submissions |-> IF post[s].pc = "sending" THEN Ended("lost") ELSE post[s]]
    /\ dedupUntil' = [k \in Keys |-> 0]
    /\ rateWindow' = [c \in Categories |-> [start |-> 0, count |-> 0]]
    /\ alerts' = [i \in DOMAIN alerts |->
                     IF alerts[i].pc = "sending" THEN [alerts[i] EXCEPT !.pc = "over"] ELSE alerts[i]]
    /\ UNCHANGED <<config, now, onChain, arrived, deadLetters, receipts>>

HttpStep(s) == \E reaches, ok \in BOOLEAN : HttpAttempt(s, reaches, ok)
ChainStep(s) == \E lands, ok \in BOOLEAN : ChainSend(s, lands, ok)

SettleStep(s) == post[s] = NoPost /\ \E p \in Payloads : SettleSeason(s, p)

SubmitNext ==
    \/ Tick \/ Restart
    \/ \E k \in AgentErrors : AgentFails(k)
    \/ \E i \in DOMAIN alerts : AlertAttempt(i)
    \/ \E s \in Submissions : HttpStep(s) \/ ChainStep(s) \/ SettleStep(s)

SubmitSpec == SubmitInit /\ [][SubmitNext]_submitVars
-----------------------------------------------------------------------------
(* Properties.                                                             *)

\* However requests and answers are lost, a settlement that was reported as
\* submitted is at its destination, one whose submission failed is in the dead
\* letter file (HTTP, when one is configured) and was notified about, and the
\* endpoint sees no more copies than attempts.  A receipt is never false.
SubmissionAccounted ==
    \A s \in Submissions :
        /\ post[s].pc = "done" => arrived[s] > 0 \/ s \in onChain
        /\ post[s].pc = "failed" => /\ config.mode = "http" /\ config.dlq => s \in deadLetters
                                    /\ \E i \in DOMAIN alerts : alerts[i].key = s
        /\ s \in deadLetters => post[s].pc = "failed"
        /\ s \in receipts => s \in onChain
        /\ arrived[s] <= MaxAttempts

\* Whatever the results and the rounding of softmax, the conversion to wad does
\* not throw, the vault takes the weights unless there is no agent, and no agent
\* that is not valid gets any, except the first when none is.
WeightsAccepted ==
    \A s \in Submissions : LET w == post[s].weights IN
        w # <<>> =>
            /\ Normalizes(w) /\ AcceptedByVault(ToWeightsWad(w))
            /\ \A i \in DOMAIN w \ post[s].valid :
                  ToWeightsWad(w)[i] > 0 => i = 1 /\ post[s].valid = {}

\* The guard notes a repetition before anything is delivered, so a failed
\* delivery silences its repetitions.  Still no category with an endpoint goes
\* silent: an alert swallowed by either guard follows one of its category that
\* was tried, less than both windows ago.
SilenceIsShort ==
    \A i \in DOMAIN alerts : alerts[i].pc \in {"repeated", "limited"} =>
        \E j \in 1..i - 1 :
            /\ Category(alerts[j].key) = Category(alerts[i].key)
            /\ alerts[j].pc \in {"sending", "over", "unrouted"}
            /\ alerts[i].at - alerts[j].at < DedupWindow + RateWindow

\* One process tries at most twice the limit in any span of a rate window, the
\* windows being fixed.
RateBounded ==
    \A t \in 0..now, b \in 0..boot, c \in Categories :
        Cardinality({i \in DOMAIN alerts :
            /\ alerts[i].pc \in {"sending", "over", "unrouted"} /\ alerts[i].boot = b
            /\ Category(alerts[i].key) = c /\ alerts[i].at \in t..(t + RateWindow - 1)}) <= 2 * RateMax

\* No settlement is lost without a trace, and the weights sent are ones the vault accepts
\* (season-submitter.ts:44-99, 232-253).
SubmissionSound == SubmissionAccounted /\ WeightsAccepted

\* What silences an alert is short, and floods are cut (alert-notifier.ts:45-60).
AlertsSound == SilenceIsShort /\ RateBounded
=============================================================================
