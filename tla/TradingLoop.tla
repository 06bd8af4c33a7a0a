----------------------------- MODULE TradingLoop -----------------------------
(***************************************************************************)
(* The single-agent trading loop: CronEngine starts cycles, the first one  *)
(* alone and the later ones without waiting for each other; a cycle polls  *)
(* prices, has the Python engine check its signals, takes them through the *)
(* decision gate, executes what was approved and tells Python's risk       *)
(* manager of each token traded, which starts the token's cooldown.        *)
(* Amounts are counted in thresholds of the gate, times in minutes.        *)
(***************************************************************************)
EXTENDS Integers, Sequences

CONSTANTS
  Tokens, CoinbaseTokens,   \* tokens.yaml; those with a product id at Coinbase
  Venues, HasMinOut,        \* the executors to choose from; amountOutMinimum is configured
  Cycles,                   \* bound: cycles started, 1 .. n
  Signals,                  \* what the strategies may want
  Adjusted,                 \* amounts a model may put in place of a signal's
  UnitPrice,                \* bound: what one unit of each token is worth, the same throughout
  Threshold,                \* approval_threshold_usd
  MaxSize, MaxExposure,     \* max_position_size_usd, max_total_exposure_usd
  Cooldown,                 \* cooldown_minutes
  MaxTime, MaxFaults        \* bounds: minutes; restarts of either process

ASSUME LoopConstants ==
  /\ Signals \subseteq [tok : Tokens, side : {"BUY", "SELL"}, amt : Nat, need : BOOLEAN]
  /\ UnitPrice \in [Tokens -> Nat \ {0}]
  /\ Adjusted \subseteq Nat /\ Cycles \subseteq Nat \ {0}
  /\ Threshold \in Nat /\ MaxSize \in Nat /\ MaxExposure \in Nat /\ Cooldown \in Nat
  /\ MaxTime \in Nat /\ MaxFaults \in Nat

Never == -1

VARIABLES
  venue,      \* the executor of this installation
  cyc,        \* the cycles
  first,      \* the cycle CronEngine.start waits for, 0 when there is none
  cache,      \* until when the poller's cache may stand in for a price
  socket,     \* the loop's IPC connection
  life, last, \* Python: its incarnation, _last_trade_time
  orders,     \* every order given to the venue
  recs,       \* every record_trade Python ran
  now, faults

vars == <<venue, cyc, first, cache, socket, life, last, orders, recs, now, faults>>

\* A cycle that holds nothing: not begun, or over.
Bare(pc, why) == [pc |-> pc, seen |-> {}, batch |-> <<>>, decs |-> <<>>, done |-> {},
                  chk |-> Never, chkLife |-> 0, why |-> why]
NoCycle == Bare("idle", "none")
Over(why) == Bare("done", why)

Init ==
  /\ venue \in Venues
  /\ cyc = [c \in Cycles |-> NoCycle] /\ first = 0
  /\ cache = [t \in Tokens |-> Never]
  /\ socket = TRUE
  /\ life = 1 /\ last = [t \in Tokens |-> Never]
  /\ orders = {} /\ recs = {}
  /\ now = 0 /\ faults = 0

Ended(c) == cyc[c].pc = "done"
Active == {c \in Cycles : cyc[c].pc \notin {"idle", "done"}}

\* The next record of a cycle; of one that has ended, how it ended.
Goes(c, k) == cyc' = [cyc EXCEPT ![c] = IF k.pc = "done" THEN Over(k.why) ELSE k]

-----------------------------------------------------------------------------
(* Market data *)

\* CronEngine.start waits for the first cycle; cron ticks wait for nothing.
MayStart(c) ==
  /\ cyc[c].pc = "idle" /\ \A d \in Cycles : d < c => cyc[d].pc # "idle"
  /\ first # 0 => Ended(first)

\* Each token's ticker and candles come, perhaps after retries, or do not.
Fetches == SUBSET Tokens

\* The cache holds an entry for a minute.
Kept(fetched) == [t \in Tokens |-> IF t \in fetched THEN now + 1 ELSE cache[t]]

\* A cycle starts and polls: a token whose retries all fail is taken from the cache, or
\* left out when the cache has let it expire.
Poll(c) ==
  /\ MayStart(c)
  /\ first' = IF first = 0 THEN c ELSE first
  /\ \E fetched \in Fetches :
       /\ cache' = Kept(fetched)
       /\ Goes(c, [cyc[c] EXCEPT !.pc = "polled", !.seen = {t \in Tokens : cache'[t] >= now}])
  /\ UNCHANGED <<venue, socket, life, last, orders, recs, now, faults>>

-----------------------------------------------------------------------------
(* The Python engine *)

\* The portfolio of the snapshot: nothing in the repository writes
\* state/portfolio.json, so it is the default.
Invested == 0

Cooling(t) == last[t] # Never /\ now - last[t] < Cooldown

\* A check that forgets the cooldown, for a mutant.
PassesMutant(s) ==
  /\ s.amt <= MaxSize
  /\ s.side = "BUY" => Invested + s.amt <= MaxExposure

\* RiskManager.check_pre_trade; the daily loss of the default portfolio is none.
Passes(s) ==
  /\ s.amt <= MaxSize
  /\ s.side = "BUY" => Invested + s.amt <= MaxExposure
  /\ ~Cooling(s.tok)

Batches(wanted) == {<<>>} \cup {<<s>> : s \in wanted} \cup {<<s, t>> : s, t \in wanted}

\* The engine answers: every signal of the batch is checked against the same state.
Check(c) ==
  /\ cyc[c].pc = "polled" /\ socket
  /\ \E batch \in Batches({s \in Signals : s.tok \in cyc[c].seen /\ Passes(s)}) :
       Goes(c, [cyc[c] EXCEPT !.pc = IF batch = <<>> THEN "done" ELSE "deciding", !.seen = {},
                              !.batch = batch, !.chk = now, !.chkLife = life])
  /\ UNCHANGED <<venue, first, cache, socket, life, last, orders, recs, now, faults>>

\* A client that lets a call without a socket wait for good, for a mutant.
MayFailMutant == socket

\* A call fails at once without a socket, and by its timer with one.
MayFail == TRUE

\* No socket, or no answer in time: the cycle is given up.
CheckFails(c) ==
  /\ cyc[c].pc = "polled" /\ MayFail
  /\ cyc' = [cyc EXCEPT ![c] = Over("none")]
  /\ UNCHANGED <<venue, first, cache, socket, life, last, orders, recs, now, faults>>

-----------------------------------------------------------------------------
(* The decision gate *)

\* A gate that trusts large amounts of confident strategies, for a mutant.
NeedsAiMutant(s) == s.need

NeedsAi(s) == s.need \/ s.amt > Threshold

\* A model refuses, which an answer that cannot be parsed counts as, or approves.
Evaluated(s) ==
  {<<>>} \cup {<<[sig |-> s, by |-> "ai", amt |-> a]>> : a \in Adjusted \cup {s.amt}}

\* routeSignal: approved as it is, or by a model, perhaps with another amount, which no
\* one checks again; a refusal, or both providers failing, drops the signal.
Verdicts(s) ==
  IF NeedsAi(s) THEN Evaluated(s) ELSE {<<[sig |-> s, by |-> "auto", amt |-> s.amt]>>}

Decide(c) ==
  /\ cyc[c].pc = "deciding"
  /\ \E v \in Verdicts(Head(cyc[c].batch)) :
       LET decs == cyc[c].decs \o v
           more == Tail(cyc[c].batch)
       IN  Goes(c, [cyc[c] EXCEPT !.batch = more, !.decs = decs,
                                  !.pc = IF more # <<>> THEN "deciding"
                                         ELSE IF decs # <<>> THEN "executing" ELSE "done"])
  /\ UNCHANGED <<venue, first, cache, socket, life, last, orders, recs, now, faults>>

-----------------------------------------------------------------------------
(* The executors *)

Result(placed, out) == [placed |-> placed, out |-> out]

\* An order may be out although the executor throws (the answer is lost), and a receipt may
\* stand for no trade.
AnyWay == {Result(p, o) : p \in BOOLEAN, o \in {"throws", "receipt"}}

Paper == {Result(TRUE, "receipt")}
\* MoonPay may stop at its simulation; its swap's status is not looked at.
Simulated == {Result(FALSE, "none")}
Moonpay == Simulated \cup AnyWay
\* A purchase needs a minimum to receive; a sale is quoted first.  Nothing waits for the
\* transaction, which may revert.
UniswapV3(s) == IF s.side = "BUY" /\ ~HasMinOut THEN {Result(FALSE, "throws")} ELSE AnyWay
ZeroX == AnyWay
\* A product id is needed, and an answer without an order is a receipt too.
Coinbase(s) == IF s.tok \in CoinbaseTokens THEN AnyWay ELSE {Result(FALSE, "throws")}

\* What execute can come to; without an amount, nothing.
Results(s) ==
  CASE s.amt = 0 -> {Result(FALSE, "none")}
    [] s.amt > 0 /\ venue = "paper" -> Paper
    [] s.amt > 0 /\ venue = "moonpay" -> Moonpay
    [] s.amt > 0 /\ venue = "uniswap_v3" -> UniswapV3(s)
    [] s.amt > 0 /\ venue = "zerox" -> ZeroX
    [] s.amt > 0 /\ venue = "coinbase" -> Coinbase(s)

\* 0x and MoonPay take the dollars of a sale for units of the token that is sold; Coinbase
\* divides them by the price, and Uniswap asks for so many dollars out.
SellsUnits == {"zerox", "moonpay"}
CountsUnits(side) == side = "SELL" /\ venue \in SellsUnits

\* What the venue is told to trade, in dollars.
DollarsOf(d) == IF CountsUnits(d.sig.side) THEN d.amt * UnitPrice[d.sig.tok] ELSE d.amt

OrderOf(c, d, r) ==
  [cyc |-> c, tok |-> d.sig.tok, side |-> d.sig.side, asked |-> d.sig.amt,
   amt |-> d.amt, worth |-> DollarsOf(d), by |-> d.by, receipt |-> r.out = "receipt",
   chk |-> cyc[c].chk, chkLife |-> cyc[c].chkLife]

\* One decision of the batch; a receipt is written to the trade log and the memory.  An
\* executor that throws ends the loop over the batch and the cycle with it.
Execute(c) ==
  /\ cyc[c].pc = "executing"
  /\ \E r \in Results(Head(cyc[c].decs).sig) :
       LET d == Head(cyc[c].decs)
           more == Tail(cyc[c].decs)
           done == cyc[c].done \cup (IF r.out = "receipt" THEN {d.sig.tok} ELSE {})
       IN  /\ orders' = orders \cup
                (IF r.placed \/ r.out = "receipt" THEN {OrderOf(c, d, r)} ELSE {})
           /\ Goes(c, IF r.out = "throws" THEN Over("threw")
                      ELSE [cyc[c] EXCEPT !.decs = more, !.done = done,
                                          !.pc = IF more # <<>> THEN "executing"
                                                 ELSE IF done # {} THEN "recording" ELSE "done"])
  /\ UNCHANGED <<venue, first, cache, socket, life, last, recs, now, faults>>

-----------------------------------------------------------------------------
(* The cooldown *)

\* record_trade in Python.
Recorded(t) == [last EXCEPT ![t] = now]

\* A loop that leaves after the first token, for a mutant.
WithoutMutant(c, t) == {}

\* The tokens still to record after t.
Without(c, t) == cyc[c].done \ {t}

\* recordTrade for one token.
Record(c, t) ==
  /\ cyc[c].pc = "recording" /\ t \in cyc[c].done /\ socket
  /\ last' = Recorded(t)
  /\ recs' = recs \cup {[cyc |-> c, tok |-> t, at |-> now, life |-> life]}
  /\ Goes(c, [cyc[c] EXCEPT !.done = Without(c, t),
                            !.pc = IF Without(c, t) = {} THEN "done" ELSE "recording"])
  /\ UNCHANGED <<venue, first, cache, socket, life, orders, now, faults>>

\* Or there is no socket, or no answer in time; the loop warns and goes on.
RecordFails(c, t) ==
  /\ cyc[c].pc = "recording" /\ t \in cyc[c].done
  /\ Goes(c, [cyc[c] EXCEPT !.done = @ \ {t}, !.why = "unrecorded",
                            !.pc = IF cyc[c].done = {t} THEN "done" ELSE "recording"])
  /\ UNCHANGED <<venue, first, cache, socket, life, last, orders, recs, now, faults>>

-----------------------------------------------------------------------------
(* The processes *)

\* Python comes back without its cooldowns; the loop's socket is not opened again.
PythonRestarts ==
  /\ faults < MaxFaults /\ faults' = faults + 1
  /\ life' = life + 1 /\ last' = [t \in Tokens |-> Never] /\ socket' = FALSE
  /\ UNCHANGED <<venue, cyc, first, cache, orders, recs, now>>

\* The loop's own process is started again: its cycles and its cache are gone.
LoopRestarts ==
  /\ faults < MaxFaults /\ faults' = faults + 1
  /\ cyc' = [c \in Cycles |-> IF c \in Active THEN Over("died") ELSE cyc[c]]
  /\ first' = 0 /\ cache' = [t \in Tokens |-> Never] /\ socket' = TRUE
  /\ UNCHANGED <<venue, life, last, orders, recs, now>>

\* What has expired in the cache is as good as gone.
Minute ==
  /\ now < MaxTime /\ now' = now + 1
  /\ cache' = [t \in Tokens |-> IF cache[t] > now THEN cache[t] ELSE Never]
  /\ UNCHANGED <<venue, cyc, first, socket, life, last, orders, recs, faults>>

\* A cycle goes on, one way or another.
Continues(c) ==
  \/ Check(c) \/ CheckFails(c)
  \/ Decide(c) \/ Execute(c)
  \/ \E t \in Tokens : Record(c, t) \/ RecordFails(c, t)

Next ==
  \/ \E c \in Cycles : Poll(c) \/ Continues(c)
  \/ PythonRestarts \/ LoopRestarts \/ Minute

Spec == Init /\ [][Next]_vars

\* Calls end: an answer comes, or the IPC timer fires (a lost socket rejects at once), or
\* the HTTP client gives up; then the awaiting cycle continues.
Fairness == \A c \in Cycles : WF_vars(Continues(c))
FairSpec == Spec /\ Fairness

-----------------------------------------------------------------------------
(* Properties *)

\* Between a trade that reached the risk manager and the check of a later order of the
\* same token by the same Python process lies the cooldown (risk/manager.py:54-63,
\* cron-engine.ts:83-97), whatever cycles ran between them.  Orders checked before the
\* record are outside of it: cycles overlap, and a batch is checked as one.
CooldownKept ==
  \A r \in recs, o \in orders :
    (r.tok = o.tok /\ r.life = o.chkLife /\ r.at < o.chk) => o.chk - r.at >= Cooldown

\* Every trade with a receipt is recorded by the time its cycle has ended, except where
\* an executor threw, the process died, or record_trade went unanswered (cli/src/index.ts:112-125,
\* cron-engine.ts:83-97).
TradesRecorded ==
  \A o \in orders :
    (o.receipt /\ Ended(o.cyc) /\ cyc[o.cyc].why = "none")
      => \E r \in recs : r.cyc = o.cyc /\ r.tok = o.tok

\* Without a model's approval no order is of another amount than its strategy's or of an
\* amount above the approval threshold or the size limit, and none trades for more than
\* these, except the sales whose dollars the venue takes for units
\* (decision-gate.ts:51-83, coinbase.ts:86-101, uniswap-v3.ts:85-246).
LargeOrdersApproved ==
  \A o \in orders : o.by # "ai" =>
    /\ o.amt = o.asked /\ o.amt <= Threshold /\ o.amt <= MaxSize
    /\ ~CountsUnits(o.side) => o.worth <= Threshold /\ o.worth <= MaxSize

\* "approval_threshold_usd: 200      # trades above this require AI approval"
\* (config/agent.yaml:90): no trade above the threshold without a model's approval.  It
\* does not hold where a sale's dollars become units of the token (zerox.ts:66-88,
\* moonpay.ts:22-43).
TradesAboveNeedAi == \A o \in orders : o.worth > Threshold => o.by = "ai"

\* A cycle that started ends: it never holds back the loop for good, and the first one
\* not the start of the others (cron-engine.ts:31-51).
EveryCycleEnds == \A c \in Cycles : cyc[c].pc = "polled" ~> Ended(c)
==============================================================================
