----------------------------- MODULE AgentCalls -----------------------------
(***************************************************************************)
(* One agent of the arena over overlapping cycles: what its decide() does  *)
(* with an outside party that answers, fails or stalls, what the engine    *)
(* then trades in the agent's virtual portfolio, and the row of the replay *)
(* log it writes.  A call is cut where the code awaits: begun, answered    *)
(* (the agent's own continuation), traded (the engine's), recorded.        *)
(* Money and tokens are counted in the same small unit: Dollar of them are *)
(* a dollar, and a position of fewer than Dust is dropped.                 *)
(***************************************************************************)
EXTENDS Integers, Sequences, SequencesExt

CONSTANTS Kinds,        \* types of agents, one of which is run
          Calls,        \* cycles, 1 .. n
          Tokens, ArenaTokens, PromptTokens,  \* all; what each kind may name
          Markets,      \* the cycles' snapshots: the price of each token, 0 for none
          Answers,      \* what an outside party can send: sequences of signals
          Limits,       \* failures in a row that strike an agent out (webhook 3, prompt 5)
          MaxSignals, Start, Dollar, Dust

\* Only these two agents count failures.
ASSUME CountingKinds == DOMAIN Limits \subseteq {"webhook", "prompt"}

VARIABLES kind, ready, up, failures, meta, cash, pos, call
vars == <<kind, ready, up, failures, meta, cash, pos, call>>

Counting == kind \in DOMAIN Limits
HasMeta == kind \in {"webhook", "stdio", "sdk"}

\* met: the calls in flight when it began; row: the meta its row of the replay log shows.
NotBegun == [pc |-> "none", asked |-> FALSE, struck |-> FALSE, threw |-> FALSE, met |-> {},
             prices |-> [t \in Tokens |-> 0], answer |-> <<>>, row |-> 0]

\* ready: the API key is set, the command parses, or the module was loaded.
Init ==
  /\ kind \in Kinds /\ ready \in BOOLEAN /\ up = TRUE
  /\ failures = 0 /\ meta = 0
  /\ cash = Start /\ pos = [t \in Tokens |-> 0]
  /\ call = [c \in Calls |-> NotBegun]

InProgress(c) == call[c].pc \in {"loading", "asking", "answered", "traded", "dropped"}

-----------------------------------------------------------------------------
(* Signals *)

Known == IF kind = "prompt" THEN PromptTokens ELSE ArenaTokens

WellFormed(s) == /\ s.action \in {"BUY", "SELL", "HOLD"} /\ s.token \in Known
                 /\ s.action # "HOLD" => s.amount > 0

\* The answer is cut to its first entries before the bad ones are dropped.
Sanitized(raw) ==
  SelectSeq(SubSeq(raw, 1, IF Len(raw) < MaxSignals THEN Len(raw) ELSE MaxSignals), WellFormed)

\* What an agent makes of a usable answer.  An internal agent passes on what its gate approved:
\* every strategy's action is one of the three, and its amount may be one the model adjusted,
\* which may be zero or less.
Signals(raw) ==
  IF kind = "internal" THEN SelectSeq(raw, LAMBDA s : s.action \in {"BUY", "SELL", "HOLD"})
  ELSE Sanitized(raw)

(* The virtual portfolio *)

\* What a buy spends, unless it is skipped: with too little cash all of it, if it is a dollar.
Buys(amount, money) == money >= amount \/ money >= Dollar
SpentMutant(amount, money) == amount
Spent(amount, money) == IF money >= amount THEN amount ELSE money

\* What a sale parts with: never more than the position.
Parted(amount, price, held) == LET n == amount \div price IN IF n < held THEN n ELSE held

\* What is left of a position: dust is thrown away.
LeftOver(n) == IF n < Dust THEN 0 ELSE n

\* applySignal: the portfolio b with the trade of signal s at the prices p, if any.
Apply(p, b, s) ==
  LET t == s.token
      spent == Spent(s.amount, b.cash)
      parted == Parted(s.amount, p[t], b.pos[t])
  IN CASE s.action = "HOLD" \/ p[t] = 0 -> b
       [] s.action = "BUY" /\ p[t] > 0 ->
            IF Buys(s.amount, b.cash)
            THEN [cash |-> b.cash - spent, pos |-> [b.pos EXCEPT ![t] = @ + spent \div p[t]],
                  trades |-> b.trades + 1]
            ELSE b
       [] s.action = "SELL" /\ p[t] > 0 ->
            IF b.pos[t] > 0
            THEN [cash |-> b.cash + parted * p[t], pos |-> [b.pos EXCEPT ![t] = LeftOver(@ - parted)],
                  trades |-> b.trades + 1]
            ELSE b

Book == [cash |-> cash, pos |-> pos, trades |-> 0]

-----------------------------------------------------------------------------
(* The agent's part of a cycle *)

\* An agent with too many failures in a row is not asked any more.
Struck == Counting /\ failures >= Limits[kind]
AsksMutant == kind \in {"prompt", "stdio"} => ready
Asks == CASE kind = "prompt" -> ready /\ ~Struck
          [] kind = "stdio" -> ready
          [] OTHER -> ~Struck

\* Where a call starts: an sdk agent has its module to load before it can ask it.
First == IF ~Asks THEN "answered" ELSE IF kind = "sdk" /\ ~ready THEN "loading" ELSE "asking"

Begin(c) ==
  /\ up /\ call[c].pc = "none" /\ \A d \in Calls : d < c => call[d].pc # "none"
  /\ call' = [call EXCEPT ![c] =
       [call[c] EXCEPT !.pc = First, !.asked = Asks, !.struck = Struck,
                       !.met = {d \in Calls : InProgress(d)}, !.prices = Markets[c]]]
  /\ meta' = IF kind = "stdio" /\ ~ready THEN c ELSE meta
  /\ UNCHANGED <<kind, ready, up, failures, cash, pos>>

\* A failed call leaves its trace too.
FailedMetaMutant(c) == meta
FailedMeta(c) == IF HasMeta THEN c ELSE meta

\* What decide() leaves when its call ends well, fails (a refusal, an HTTP error, an exit
\* code, too much output, no JSON, the timeout), or is answered by JSON of another shape:
\* the failures in a row, and whether it throws into the engine.
Left(f, threw) == [failures |-> f, threw |-> threw]

\* The count is reset before the shape is met.
WebhookAgent(how) ==
  Left(CASE how = "well" -> 0 [] how = "fails" -> failures + 1 [] how = "oddly" -> 1, FALSE)
\* Takes another shape as no signals.
PromptAgent(how) == Left(IF how = "fails" THEN failures + 1 ELSE 0, FALSE)
ProcessAgent(how) == Left(failures, how = "oddly")
SdkAgent(how) == Left(failures, how = "oddly")
InternalAgent(how) == Left(failures, FALSE)

Decided(how) == CASE kind = "webhook" -> WebhookAgent(how)
                  [] kind = "prompt" -> PromptAgent(how)
                  [] kind = "stdio" -> ProcessAgent(how)
                  [] kind = "sdk" -> SdkAgent(how)
                  [] kind = "internal" -> InternalAgent(how)

Answered(c, signals, threw) ==
  call' = [call EXCEPT ![c] = [call[c] EXCEPT !.pc = "answered", !.answer = signals, !.threw = threw]]

Ends(c, how, signals) ==
  /\ up /\ call[c].pc = "asking"
  /\ failures' = Decided(how).failures
  /\ Answered(c, signals, Decided(how).threw)
  /\ UNCHANGED <<kind, ready, up, cash, pos>>

\* A usable answer in time.
AnswersWell(c) ==
  /\ \E raw \in Answers : Ends(c, "well", Signals(raw))
  /\ meta' = IF HasMeta THEN c ELSE meta

MayTimeOutMutant(c) == call[c].pc = "asking" /\ kind # "webhook"
MayTimeOut(c) == call[c].pc = "asking"

Fails(c) == MayTimeOut(c) /\ Ends(c, "fails", <<>>) /\ meta' = FailedMeta(c)

AnswersOddly(c) ==
  /\ kind # "internal"
  /\ Ends(c, "oddly", <<>>)
  /\ meta' = IF HasMeta THEN c ELSE meta

\* The sdk agent's module is loaded, and kept, by the first call that finds a function in it.
\* The import is awaited before the timer is set: a module that never finishes keeps its call.
Loads(c) ==
  /\ up /\ kind = "sdk" /\ call[c].pc = "loading"
  /\ ready' = TRUE
  /\ call' = [call EXCEPT ![c] = [call[c] EXCEPT !.pc = "asking"]]
  /\ UNCHANGED <<kind, up, failures, meta, cash, pos>>

\* No module, or no function in it.
FindsNone(c) ==
  /\ up /\ kind = "sdk" /\ ~ready /\ call[c].pc = "loading"
  /\ Answered(c, <<>>, FALSE) /\ meta' = c
  /\ UNCHANGED <<kind, ready, up, failures, cash, pos>>

\* Its function is called outside the try: a plain throw leaves the last call's meta.
ThrowsAtOnce(c) ==
  /\ up /\ kind = "sdk" /\ call[c].pc = "asking"
  /\ Answered(c, <<>>, TRUE)
  /\ UNCHANGED <<kind, ready, up, failures, meta, cash, pos>>

\* A child that exits without reading: the failed write is an error event nobody handles.
ChildClosesInput(c) ==
  /\ up /\ kind = "stdio" /\ call[c].pc = "asking"
  /\ up' = FALSE
  /\ UNCHANGED <<kind, ready, failures, meta, cash, pos, call>>

\* The bridge can drop an internal agent's call (IpcClient.HandleLine): it is never answered.
Drops(c) ==
  /\ up /\ kind = "internal" /\ call[c].pc = "asking"
  /\ call' = [call EXCEPT ![c] = [call[c] EXCEPT !.pc = "dropped"]]
  /\ UNCHANGED <<kind, ready, up, failures, meta, cash, pos>>

-----------------------------------------------------------------------------
(* The engine's part *)

\* The row shows what the agent last left as its meta.
Closed(c) ==
  [NotBegun EXCEPT !.pc = "done", !.asked = call[c].asked, !.threw = call[c].threw,
                   !.met = call[c].met, !.row = meta]

\* The portfolio once the call's signals are applied, one after the other.
Traded(c) == FoldLeft(LAMBDA b, s : Apply(call[c].prices, b, s), Book, call[c].answer)

Trade(c) ==
  /\ up /\ call[c].pc = "answered"
  /\ LET b == Traded(c)
     IN /\ cash' = b.cash /\ pos' = b.pos
        /\ call' = [call EXCEPT ![c] = IF b.trades = 0 THEN Closed(c)
                                       ELSE [call[c] EXCEPT !.pc = "traded"]]
  /\ UNCHANGED <<kind, ready, up, failures, meta>>

\* The row is written after the agent was told of its trades.
Record(c) ==
  /\ up /\ call[c].pc = "traded"
  /\ call' = [call EXCEPT ![c] = Closed(c)]
  /\ UNCHANGED <<kind, ready, up, failures, meta, cash, pos>>

Next == \E c \in Calls :
  \/ Begin(c) \/ Loads(c) \/ FindsNone(c)
  \/ AnswersWell(c) \/ Fails(c) \/ AnswersOddly(c) \/ ThrowsAtOnce(c) \/ ChildClosesInput(c) \/ Drops(c)
  \/ Trade(c) \/ Record(c)

Spec == Init /\ [][Next]_vars

\* Timers fire and continuations run; nobody has to answer, and no module has to load.
Fairness == \A c \in Calls : WF_vars(Fails(c)) /\ WF_vars(Trade(c)) /\ WF_vars(Record(c))

-----------------------------------------------------------------------------
\* Trades make no money, and lose none but dust: at the prices a cycle trades at, cash and
\* positions together are worth the same before and after, less what its sales left below
\* Dust, whatever the signals, the partial fills and the other cycles in flight.  And only what
\* is there is spent and sold, but for internal agents, whose amounts nobody checks
\* (executeBuy, executeSell).
Worth(p, money, held) ==
  money + FoldFunction(LAMBDA x, y : x + y, 0, [t \in Tokens |-> held[t] * p[t]])
MostDust(p, signals) ==
  FoldLeft(LAMBDA n, s : IF s.action = "SELL" THEN n + (Dust - 1) * p[s.token] ELSE n, 0, signals)
TradesConserveValue ==
  [][\A c \in Calls : call[c].pc = "answered" /\ call'[c].pc # "answered" =>
       LET p == call[c].prices
           lost == Worth(p, cash, pos) - Worth(p, cash', pos')
       IN /\ lost \in 0 .. MostDust(p, call[c].answer)
          /\ kind # "internal" => cash' >= 0 /\ \A t \in Tokens : pos'[t] >= 0]_vars

\* An agent struck out is let in again only by a call made before it was: no call made later
\* reaches it (the check at the start of decide).
StrikesHold ==
  [][Struck /\ ~Struck' =>
       \E c \in Calls : call[c].pc = "asking" /\ ~call[c].struck /\ call'[c].pc # "asking"]_vars

\* A row of the replay log shows what was asked and answered in its own cycle, or in one that was
\* in flight with it; only calls that asked nobody, or threw at once, show an earlier one
\* (lastDecisionMeta, read after the awaits).
Together(c, d) == d \in Calls /\ (c \in call[d].met \/ d \in call[c].met)
MetaIsOwn ==
  \A c \in Calls : call[c].pc = "done" /\ HasMeta /\ call[c].asked /\ ~call[c].threw =>
    call[c].row = c \/ Together(c, call[c].row)

\* Every call that asks ends in a row, as long as the process lives; but for an internal agent's
\* whose reply the bridge drops.  A call whose module still loads does not ask yet.
EveryCallEnds ==
  \A c \in Calls :
    (call[c].pc \in {"asking", "answered", "traded"}) ~> (call[c].pc \in {"done", "dropped"} \/ ~up)

\* Three failures in a row, and the agent is not called again (PROJECT_GUIDE.md:169).
StruckForGood == [][Struck => Struck']_vars
=============================================================================
