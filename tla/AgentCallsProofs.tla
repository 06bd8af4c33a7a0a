---------------------------- MODULE AgentCallsProofs ----------------------------
(* What is proved of an agent's calls and of the bridge that carries those of the *)
(* internal agents, for any number of calls, cycles and tokens.                    *)
EXTENDS AgentCalls, IpcClient, TLAPS

-----------------------------------------------------------------------------
(* The calls of one agent *)

\* Who asks had not been struck out when the call was made.
AskersUnstruck ==
  \A c \in Calls : call[c].pc = "asking" /\ Counting => ~call[c].struck

\* Calls in flight together know of each other: the later met the earlier.
FlightsMet == \A c, d \in Calls : InProgress(c) /\ InProgress(d) => c = d \/ Together(c, d)

\* The meta an answered call would show is its own, or of one it was in flight with.
MetaNear ==
  \A c \in Calls :
    call[c].pc \in {"answered", "traded"} /\ HasMeta /\ call[c].asked /\ ~call[c].threw =>
      meta = c \/ Together(c, meta)

CallsKept ==
  /\ call = [c \in Calls |-> call[c]]
  /\ \A c \in Calls : DOMAIN call[c] = DOMAIN NotBegun
  /\ \A c \in Calls : call[c].pc = "none" => call[c].met = {}

CallsInv == CallsKept /\ AskersUnstruck /\ FlightsMet /\ MetaNear /\ MetaIsOwn

\* What the fields of a call are.
LEMMA Fields ==
  DOMAIN NotBegun = {"pc", "asked", "struck", "threw", "met", "prices", "answer", "row"}
BY DEF NotBegun

\* A record that takes a new place in the calls.
LEMMA CallGoes ==
  ASSUME CallsKept, NEW c \in Calls, NEW k, DOMAIN k = DOMAIN NotBegun, k.pc # "none", call' = [call EXCEPT ![c] = k]
  PROVE  CallsKept' /\ call'[c] = k /\ \A d \in Calls : d # c => call'[d] = call[d]
<1>1. call' = [d \in Calls |-> IF d = c THEN k ELSE call[d]]
  BY DEF CallsKept
<1>2. \A d \in Calls : DOMAIN call'[d] = DOMAIN NotBegun /\ (call'[d].pc = "none" => call'[d].met = {})
  BY <1>1 DEF CallsKept
<1>3. call' = [d \in Calls |-> call'[d]]
  BY <1>1
<1> QED BY <1>1, <1>2, <1>3 DEF CallsKept

\* Who knows of whom changes with nothing but the meetings.
LEMMA TogetherStays ==
  ASSUME \A c \in Calls : call'[c].met = call[c].met
  PROVE  \A c \in Calls : \A d : Together(c, d) => Together(c, d)'
BY DEF Together

\* A call gets its answer, and leaves its meta unless it throws at once.
LEMMA AnsweredInv ==
  ASSUME CallsInv, NEW c \in Calls, call[c].pc \in {"loading", "asking"}, NEW signals, NEW threw,
         Answered(c, signals, threw), UNCHANGED kind,
         meta' = meta \/ meta' = c, HasMeta /\ ~threw => meta' = c
  PROVE  CallsInv' /\ call'[c].pc = "answered" /\ \A d \in Calls : d # c => call'[d] = call[d]
<1>1. PICK a : a = call[c]
  OBVIOUS
<1>2. PICK k : k = [a EXCEPT !.pc = "answered", !.answer = signals, !.threw = threw]
  OBVIOUS
<1>3. DOMAIN a = DOMAIN NotBegun /\ CallsKept
  BY <1>1 DEF CallsInv, CallsKept
<1>4. /\ k.pc = "answered" /\ k.threw = threw /\ k.asked = a.asked /\ k.struck = a.struck
      /\ k.met = a.met /\ DOMAIN k = DOMAIN NotBegun
  BY <1>2, <1>3, Fields
<1>5. CallsKept' /\ call'[c] = k /\ \A d \in Calls : d # c => call'[d] = call[d]
  BY <1>1, <1>2, <1>3, <1>4, CallGoes DEF Answered
<1>6. \A d \in Calls : \A e : Together(d, e) => Together(d, e)'
  BY <1>1, <1>4, <1>5, TogetherStays
<1>7. \A d \in Calls : InProgress(d)' => InProgress(d)
  BY <1>1, <1>5 DEF InProgress
<1>8. FlightsMet'
  BY <1>6, <1>7 DEF FlightsMet, CallsInv
<1>9. AskersUnstruck'
  BY <1>4, <1>5 DEF AskersUnstruck, CallsInv, Counting
<1>10. MetaNear'
  <2> SUFFICES ASSUME NEW d \in Calls, call'[d].pc \in {"answered", "traded"}, HasMeta', call'[d].asked, ~call'[d].threw
               PROVE  meta' = d \/ (meta' \in Calls /\ (d \in call'[meta'].met \/ meta' \in call'[d].met))
    BY DEF MetaNear, Together
  <2>1. HasMeta
    BY DEF HasMeta
  <2>2. CASE d = c
    BY <1>4, <1>5, <2>1, <2>2
  <2>3. CASE d # c
    <3>1. call'[d] = call[d]
      BY <1>5, <2>3
    <3>2. CASE meta' = meta
      <4>1. meta = d \/ Together(d, meta)
        BY <2>1, <3>1 DEF CallsInv, MetaNear
      <4> QED BY <1>6, <3>2, <4>1 DEF Together
    <3>3. CASE meta' = c
      <4>1. InProgress(d) /\ InProgress(c)
        BY <3>1 DEF InProgress
      <4>2. Together(d, c)
        BY <2>3, <4>1 DEF CallsInv, FlightsMet
      <4>3. Together(d, c)'
        BY <1>6, <4>2
      <4> QED BY <3>3, <4>3 DEF Together
    <3> QED BY <3>2, <3>3
  <2> QED BY <2>2, <2>3
<1>11. MetaIsOwn'
  BY <1>4, <1>5, <1>6 DEF CallsInv, MetaIsOwn, Together, HasMeta
<1> QED BY <1>4, <1>5, <1>8, <1>9, <1>10, <1>11 DEF CallsInv

\* A call that is answered.
LEMMA EndsInv ==
  ASSUME CallsInv, NEW c \in Calls, NEW how, NEW signals, Ends(c, how, signals), HasMeta => meta' = c, ~HasMeta => meta' = meta
  PROVE  CallsInv'
<1>1. PICK threw : threw = Decided(how).threw
  OBVIOUS
<1>2. call[c].pc = "asking" /\ Answered(c, signals, threw) /\ UNCHANGED kind
  BY <1>1 DEF Ends
<1> QED BY <1>2, AnsweredInv

\* A call that begins.
LEMMA BeginInv ==
  ASSUME CallsInv, NEW c \in Calls, Begin(c) PROVE CallsInv'
<1>1. PICK a : a = call[c]
  OBVIOUS
<1>2. PICK asks, first : asks = Asks /\ first = First
  OBVIOUS
<1>3. PICK struck : struck = Struck
  OBVIOUS
<1>4. PICK met : met = {d \in Calls : InProgress(d)}
  OBVIOUS
<1>5. PICK k : k = [a EXCEPT !.pc = first, !.asked = asks,
                             !.struck = struck, !.met = met, !.prices = Markets[c]]
  OBVIOUS
<1>6. /\ call' = [call EXCEPT ![c] = k] /\ UNCHANGED kind /\ a.pc = "none"
      /\ meta' = IF kind = "stdio" /\ ~ready THEN c ELSE meta
  BY <1>1, <1>2, <1>3, <1>4, <1>5 DEF Begin
<1>7. DOMAIN a = DOMAIN NotBegun /\ CallsKept
  BY <1>1 DEF CallsInv, CallsKept
<1>8. /\ k.pc = first /\ k.asked = asks
      /\ k.struck = struck /\ k.met = met /\ DOMAIN k = DOMAIN NotBegun
      /\ first \in {"answered", "loading", "asking"} /\ (asks => first # "answered")
  BY <1>2, <1>5, <1>7, Fields DEF First
<1>9. CallsKept' /\ call'[c] = k /\ \A d \in Calls : d # c => call'[d] = call[d]
  BY <1>6, <1>7, <1>8, CallGoes
<1>10. \A d \in Calls : d # c /\ InProgress(d) => d \in call'[c].met
  BY <1>4, <1>8, <1>9
<1>11. ~InProgress(c)
  BY <1>1, <1>6 DEF InProgress
<1>12. first = "asking" /\ Counting => ~struck
  BY <1>2, <1>3, CountingKinds DEF First, Asks, Struck, Counting
<1>13. AskersUnstruck'
  BY <1>6, <1>8, <1>9, <1>12 DEF AskersUnstruck, CallsInv, Counting
<1>14. FlightsMet'
  <2> SUFFICES ASSUME NEW d \in Calls, NEW e \in Calls, d # e, InProgress(d)', InProgress(e)'
               PROVE  d \in call'[e].met \/ e \in call'[d].met
    BY DEF FlightsMet, Together
  <2>1. CASE d # c /\ e # c
    <3>1. InProgress(d) /\ InProgress(e)
      BY <1>9, <2>1 DEF InProgress
    <3> QED BY <1>9, <2>1, <3>1 DEF CallsInv, FlightsMet, Together
  <2>2. CASE d = c
    <3>1. InProgress(e)
      BY <1>9, <2>2 DEF InProgress
    <3> QED BY <1>10, <2>2, <3>1
  <2>3. CASE e = c
    <3>1. InProgress(d)
      BY <1>9, <2>3 DEF InProgress
    <3> QED BY <1>10, <2>3, <3>1
  <2> QED BY <2>1, <2>2, <2>3
<1>15. MetaNear'
  <2> SUFFICES ASSUME NEW d \in Calls, call'[d].pc \in {"answered", "traded"}, HasMeta', call'[d].asked, ~call'[d].threw
               PROVE  meta' = d \/ (meta' \in Calls /\ (d \in call'[meta'].met \/ meta' \in call'[d].met))
    BY DEF MetaNear, Together
  <2>1. d # c
    BY <1>8, <1>9
  <2>2. call'[d] = call[d] /\ HasMeta
    BY <1>6, <1>9, <2>1 DEF HasMeta
  <2>3. CASE meta' = c
    <3>1. InProgress(d)
      BY <2>2 DEF InProgress
    <3> QED BY <1>10, <2>1, <2>3, <3>1
  <2>4. CASE meta' = meta
    <3>1. meta = d \/ (meta \in Calls /\ (d \in call[meta].met \/ meta \in call[d].met))
      BY <2>2 DEF CallsInv, MetaNear, Together
    <3>2. meta = c => c \in call[d].met \/ d \in call'[c].met
      <4>1. InProgress(d)
        BY <2>2 DEF InProgress
      <4> QED BY <1>10, <2>1, <4>1
    <3> QED BY <1>9, <2>2, <2>4, <3>1, <3>2
  <2> QED BY <1>6, <2>3, <2>4
<1>16. MetaIsOwn'
  <2> SUFFICES ASSUME NEW d \in Calls, call'[d].pc = "done", HasMeta', call'[d].asked, ~call'[d].threw
               PROVE  LET m == call'[d].row
                      IN  m = d \/ (m \in Calls /\ (d \in call'[m].met \/ m \in call'[d].met))
    BY DEF MetaIsOwn, Together
  <2>1. d # c
    BY <1>8, <1>9
  <2>2. call'[d] = call[d] /\ HasMeta
    BY <1>6, <1>9, <2>1 DEF HasMeta
  <2>3. PICK m : m = call[d].row
    OBVIOUS
  <2>4. m = d \/ (m \in Calls /\ (d \in call[m].met \/ m \in call[d].met))
    BY <2>2, <2>3 DEF CallsInv, MetaIsOwn, Together
  <2>5. call[c].met = {}
    BY <1>1, <1>6 DEF CallsInv, CallsKept
  <2> QED BY <1>9, <2>1, <2>2, <2>3, <2>4, <2>5
<1> QED BY <1>9, <1>13, <1>14, <1>15, <1>16 DEF CallsInv

\* What a call comes to when the engine is done with its answer: traded, or closed.
LEMMA ClosedRecord ==
  ASSUME NEW c \in Calls, NEW k, k = Closed(c)
  PROVE  /\ k.pc = "done" /\ k.asked = call[c].asked /\ k.threw = call[c].threw
         /\ k.met = call[c].met /\ k.row = meta /\ DOMAIN k = DOMAIN NotBegun
<1>1. PICK n : n = NotBegun
  OBVIOUS
<1>2. k = [n EXCEPT !.pc = "done", !.asked = call[c].asked, !.threw = call[c].threw,
                    !.met = call[c].met, !.row = meta]
  BY <1>1 DEF Closed
<1> QED BY <1>1, <1>2, Fields

\* The engine's steps: a call is traded or closed.
LEMMA EngineInv ==
  ASSUME CallsInv, NEW c \in Calls, call[c].pc \in {"answered", "traded"}, UNCHANGED <<kind, meta>>,
         NEW k, call' = [call EXCEPT ![c] = k], DOMAIN k = DOMAIN NotBegun,
         k.met = call[c].met, k.asked = call[c].asked, k.threw = call[c].threw,
         k.pc = "traded" \/ (k.pc = "done" /\ k.row = meta)
  PROVE  CallsInv'
<1>1. CallsKept' /\ call'[c] = k /\ \A d \in Calls : d # c => call'[d] = call[d]
  BY CallGoes DEF CallsInv
<1>0. /\ \A d \in Calls : call'[d].met = call[d].met /\ call'[d].asked = call[d].asked
      /\ \A d \in Calls : call'[d].threw = call[d].threw
  BY <1>1
<1>2. AskersUnstruck'
  BY <1>1 DEF CallsInv, AskersUnstruck, Counting
<1>3. \A d \in Calls : InProgress(d)' => InProgress(d)
  BY <1>1 DEF InProgress
<1>4. FlightsMet'
  BY <1>0, <1>3 DEF CallsInv, FlightsMet, Together
<1>5. MetaNear'
  BY <1>0, <1>1 DEF CallsInv, MetaNear, HasMeta, Together
<1>6. MetaIsOwn'
  <2> SUFFICES ASSUME NEW d \in Calls, call'[d].pc = "done", HasMeta', call'[d].asked, ~call'[d].threw
               PROVE  LET m == call'[d].row
                      IN  m = d \/ (m \in Calls /\ (d \in call'[m].met \/ m \in call'[d].met))
    BY DEF MetaIsOwn, Together
  <2>1. HasMeta
    BY DEF HasMeta
  <2>2. PICK m : m = call'[d].row
    OBVIOUS
  <2>3. m = d \/ (m \in Calls /\ (d \in call[m].met \/ m \in call[d].met))
    <3>1. CASE d = c
      BY <1>0, <1>1, <2>1, <2>2, <3>1 DEF CallsInv, MetaNear, Together
    <3>2. CASE d # c
      BY <1>0, <1>1, <2>1, <2>2, <3>2 DEF CallsInv, MetaIsOwn, Together
    <3> QED BY <3>1, <3>2
  <2> QED BY <1>0, <2>2, <2>3
<1> QED BY <1>1, <1>2, <1>4, <1>5, <1>6 DEF CallsInv

\* A trade.
LEMMA TradeInv ==
  ASSUME CallsInv, NEW c \in Calls, Trade(c) PROVE CallsInv'
<1>1. PICK b, a : b = Traded(c) /\ a = call[c]
  OBVIOUS
<1>2. PICK closed, traded : closed = Closed(c) /\ traded = [a EXCEPT !.pc = "traded"]
  OBVIOUS
<1>3. PICK k : k = IF b.trades = 0 THEN closed ELSE traded
  OBVIOUS
<1>4. a.pc = "answered" /\ UNCHANGED <<kind, meta>> /\ call' = [call EXCEPT ![c] = k]
  BY <1>1, <1>2, <1>3 DEF Trade
<1>5. /\ closed.pc = "done" /\ closed.asked = a.asked /\ closed.threw = a.threw
      /\ closed.met = a.met /\ closed.row = meta /\ DOMAIN closed = DOMAIN NotBegun
  BY <1>1, <1>2, ClosedRecord
<1>6. /\ traded.pc = "traded" /\ traded.asked = a.asked /\ traded.threw = a.threw
      /\ traded.met = a.met /\ DOMAIN traded = DOMAIN NotBegun
  BY <1>1, <1>2, Fields DEF CallsInv, CallsKept
<1>7. k = closed \/ k = traded
  BY <1>3
<1>8. /\ DOMAIN k = DOMAIN NotBegun /\ k.met = a.met /\ k.asked = a.asked /\ k.threw = a.threw
      /\ k.pc = "traded" \/ (k.pc = "done" /\ k.row = meta)
  BY <1>5, <1>6, <1>7
<1> QED BY <1>1, <1>4, <1>8, EngineInv

\* A replay row.
LEMMA RowInv ==
  ASSUME CallsInv, NEW c \in Calls, Record(c) PROVE CallsInv'
<1>1. PICK closed : closed = Closed(c)
  OBVIOUS
<1>2. call[c].pc = "traded" /\ UNCHANGED <<kind, meta>> /\ call' = [call EXCEPT ![c] = closed]
  BY <1>1 DEF Record
<1> QED BY <1>1, <1>2, ClosedRecord, EngineInv

\* A call of an agent that counts no failures goes from one stage to the next.
LEMMA GoesOnInv ==
  ASSUME CallsInv, NEW c \in Calls, call[c].pc \in {"loading", "asking"}, NEW pc \in {"asking", "dropped"},
         call' = [call EXCEPT ![c] = [call[c] EXCEPT !.pc = pc]], UNCHANGED <<kind, meta>>, ~Counting
  PROVE  CallsInv' /\ call'[c].pc = pc
<1>1. PICK a : a = call[c]
  OBVIOUS
<1>2. PICK k : k = [a EXCEPT !.pc = pc]
  OBVIOUS
<1>3. DOMAIN a = DOMAIN NotBegun
  BY <1>1 DEF CallsInv, CallsKept
<1>4. /\ k.pc = pc /\ k.threw = a.threw /\ k.asked = a.asked /\ k.met = a.met
      /\ DOMAIN k = DOMAIN NotBegun
  BY <1>2, <1>3, Fields
<1>5. CallsKept' /\ call'[c] = k /\ \A d \in Calls : d # c => call'[d] = call[d]
  BY <1>1, <1>2, <1>4, CallGoes DEF CallsInv
<1>6. \A d \in Calls : call'[d].met = call[d].met
  BY <1>1, <1>4, <1>5
<1>7. AskersUnstruck'
  BY DEF AskersUnstruck, Counting
<1>8. FlightsMet'
  <2>1. \A d \in Calls : InProgress(d)' => InProgress(d)
    BY <1>1, <1>5 DEF InProgress
  <2> QED BY <1>6, <2>1 DEF CallsInv, FlightsMet, Together
<1>9. MetaNear'
  BY <1>4, <1>5, <1>6 DEF CallsInv, MetaNear, HasMeta, Together
<1>10. MetaIsOwn'
  BY <1>4, <1>5, <1>6 DEF CallsInv, MetaIsOwn, HasMeta, Together
<1> QED BY <1>4, <1>5, <1>7, <1>8, <1>9, <1>10 DEF CallsInv

\* A step that leaves the calls alone.
LEMMA CallsRest ==
  ASSUME CallsInv, UNCHANGED <<kind, meta, call>> PROVE CallsInv'
BY DEF CallsInv, CallsKept, AskersUnstruck, FlightsMet, MetaNear, MetaIsOwn, InProgress, Together, Counting, HasMeta

\* Every step keeps the invariant.
LEMMA CallsStep ==
  ASSUME CallsInv, [Next]_vars PROVE CallsInv'
<1>1. ASSUME NEW c \in Calls, Begin(c) PROVE CallsInv'
  BY <1>1, BeginInv
<1>2. ASSUME NEW c \in Calls, AnswersWell(c) PROVE CallsInv'
  BY <1>2, EndsInv DEF AnswersWell
<1>3. ASSUME NEW c \in Calls, Fails(c) PROVE CallsInv'
  BY <1>3, EndsInv DEF Fails, FailedMeta
<1>4. ASSUME NEW c \in Calls, AnswersOddly(c) PROVE CallsInv'
  BY <1>4, EndsInv DEF AnswersOddly
<1>5. ASSUME NEW c \in Calls, ThrowsAtOnce(c) PROVE CallsInv'
  BY <1>5, AnsweredInv DEF ThrowsAtOnce
<1>6. ASSUME NEW c \in Calls, ChildClosesInput(c) PROVE CallsInv'
  BY <1>6, CallsRest DEF ChildClosesInput
<1>7. ASSUME NEW c \in Calls, Loads(c) PROVE CallsInv'
  <2>1. ~Counting
    BY <1>7, CountingKinds DEF Loads, Counting
  <2> QED BY <1>7, <2>1, GoesOnInv DEF Loads
<1>8. ASSUME NEW c \in Calls, FindsNone(c) PROVE CallsInv'
  BY <1>8, AnsweredInv DEF FindsNone
<1>9. ASSUME NEW c \in Calls, Drops(c) PROVE CallsInv'
  <2>1. ~Counting
    BY <1>9, CountingKinds DEF Drops, Counting
  <2> QED BY <1>9, <2>1, GoesOnInv DEF Drops
<1>10. CASE UNCHANGED vars
  BY <1>10, CallsRest DEF vars
<1> QED
  BY <1>1, <1>2, <1>3, <1>4, <1>5, <1>6, <1>7, <1>8, <1>9, <1>10, TradeInv, RowInv DEF Next

\* Before the first call.
LEMMA CallsInit == Init => CallsInv
<1> SUFFICES ASSUME Init PROVE CallsInv
  OBVIOUS
<1>1. \A c \in Calls : call[c].pc = "none" /\ call[c].met = {} /\ call[c] = NotBegun
  BY DEF Init, NotBegun
<1>2. CallsKept
  BY <1>1 DEF Init, CallsKept
<1> QED BY <1>1, <1>2 DEF CallsInv, AskersUnstruck, FlightsMet, MetaNear, MetaIsOwn, InProgress

\* A row of the replay log shows an answer of its own cycle, or of one in flight with it.
THEOREM MetaAlwaysOwn == Spec => []MetaIsOwn
<1>1. CallsInv => MetaIsOwn
  BY DEF CallsInv
<1> QED BY <1>1, CallsInit, CallsStep, PTL DEF Spec

\* An agent struck out is let in again only by a call made before it was.
THEOREM StrikesAlwaysHold == Spec => StrikesHold
<1> DEFINE Held == Struck /\ ~Struck' =>
       \E c \in Calls : call[c].pc = "asking" /\ ~call[c].struck /\ call'[c].pc # "asking"
<1>1. CallsInv /\ [Next]_vars => [Held]_vars
  <2> SUFFICES ASSUME CallsInv, Next, Struck, ~Struck'
               PROVE  \E c \in Calls : call[c].pc = "asking" /\ ~call[c].struck /\ call'[c].pc # "asking"
    OBVIOUS
  <2>1. Counting /\ (kind' = kind => failures' # failures)
    BY DEF Struck, Counting
  <2>2. ASSUME NEW c \in Calls, NEW how, NEW signals, Ends(c, how, signals), HasMeta => meta' = c, ~HasMeta => meta' = meta
        PROVE  call[c].pc = "asking" /\ ~call[c].struck /\ call'[c].pc # "asking"
    <3>1. PICK threw : threw = Decided(how).threw
      OBVIOUS
    <3>2. call[c].pc = "asking" /\ Answered(c, signals, threw) /\ UNCHANGED kind
      BY <2>2, <3>1 DEF Ends
    <3>3. call'[c].pc = "answered"
      BY <2>2, <3>2, AnsweredInv
    <3> QED BY <2>1, <3>2, <3>3 DEF CallsInv, AskersUnstruck
  <2>3. ASSUME NEW c \in Calls, AnswersWell(c) \/ Fails(c) \/ AnswersOddly(c)
        PROVE  call[c].pc = "asking" /\ ~call[c].struck /\ call'[c].pc # "asking"
    BY <2>2, <2>3 DEF AnswersWell, Fails, AnswersOddly, FailedMeta
  <2>4. ASSUME NEW c \in Calls, Begin(c) \/ ThrowsAtOnce(c) \/ ChildClosesInput(c) \/ Trade(c) \/ Record(c)
        PROVE  FALSE
    BY <2>1, <2>4 DEF Begin, ThrowsAtOnce, ChildClosesInput, Trade, Record
  <2>5. ASSUME NEW c \in Calls, Loads(c) \/ FindsNone(c) \/ Drops(c) PROVE FALSE
    BY <2>1, <2>5 DEF Loads, FindsNone, Drops
  <2> QED BY <2>3, <2>4, <2>5 DEF Next
<1>2. Spec => []CallsInv
  BY CallsInit, CallsStep, PTL DEF Spec
<1> QED BY <1>1, <1>2, PTL DEF Spec, StrikesHold

-----------------------------------------------------------------------------
(* The replies over the bridge *)

\* Calls are numbered, and what a call may be about is told apart.
IpcConstants ==
  /\ Requests \subseteq Nat /\ MaxMs \in Nat
  /\ TradeTokens \cap Cycles = {} /\ "health" \notin TradeTokens /\ None \notin TradeTokens

IdSet ==
  {<<"cycle", c, r>> : c \in Cycles, r \in Requests}
    \cup {<<"health", n>> : n \in Nat}
    \cup {<<"trade", n, t>> : n \in Nat, t \in TradeTokens}
AboutSet == Cycles \cup TradeTokens \cup {"health"}
Line  == [id : IdSet, method : {"process_snapshot", "get_health", "record_trade"}, about : AboutSet]
Reply == [id : IdSet, outcome : {"resolved", "rejected", "dropped"}, about : AboutSet]
CallRecord == [pc : {"unsent", "pending", "resolved", "rejected", "dropped"}, id : IdSet \cup {<<>>},
               about : AboutSet \cup {None}, got : AboutSet \cup {None}]

\* What an id says its call is about.
Names(id, about) ==
  \/ \E c \in Cycles, r \in Requests : id = <<"cycle", c, r>> /\ about = c
  \/ \E n \in Nat : id = <<"health", n>> /\ about = "health"
  \/ \E n \in Nat, t \in TradeTokens : id = <<"trade", n, t>> /\ about = t

\* An id names one thing.
LEMMA NamesOne ==
  \A id, x, y : Names(id, x) /\ Names(id, y) => x = y
<1> SUFFICES ASSUME NEW id, NEW x, NEW y, Names(id, x), Names(id, y) PROVE x = y
  OBVIOUS
<1>1. \A c, r, n : <<"cycle", c, r>> # <<"health", n>>
  OBVIOUS
<1>2. \A c, r, n, t : <<"cycle", c, r>> # <<"trade", n, t>>
  OBVIOUS
<1>3. \A m, n, t : <<"health", m>> # <<"trade", n, t>>
  OBVIOUS
<1>4. \A c, r, d, q : <<"cycle", c, r>> = <<"cycle", d, q>> => c = d
  OBVIOUS
<1>5. \A m, t, n, u : <<"trade", m, t>> = <<"trade", n, u>> => t = u
  OBVIOUS
<1> QED
  BY <1>1, <1>2, <1>3, <1>4, <1>5, Zenon DEF Names

IpcTyped ==
  /\ ms \in Nat
  /\ req \in [Requests -> CallRecord]
  /\ Ids \subseteq IdSet /\ \A i \in Ids : pending[i] \in Requests
  /\ toServer \in Seq(Line) /\ toClient \in Seq(Reply)

\* A trade that was well answered is on the server's record, unless it lost it.
OnRecord(token, record, lost) == token \in TradeTokens => token \in record \/ lost

\* Calls, and the lines on their way, are about what their ids name.
CallsNamed == \A r \in Requests : req[r].pc # "unsent" => Names(req[r].id, req[r].about)
LineTrue(m) ==
  Names(m.id, m.about) /\ (m.about \in TradeTokens => m.method = "record_trade")
ReplyTrue(m, record, lost) ==
  Names(m.id, m.about) /\ (m.outcome = "resolved" => OnRecord(m.about, record, lost))
LinesTrue ==
  /\ \A k \in DOMAIN toServer : LineTrue(toServer[k])
  /\ \A k \in DOMAIN toClient : ReplyTrue(toClient[k], recorded, restarted)

\* The inductive invariant.
IpcInv == IpcTyped /\ CallsNamed /\ LinesTrue /\ RepliesMatched

\* At the start no call was made.
LEMMA IpcInvInit == IpcConstants /\ IpcInit => IpcInv
<1> SUFFICES ASSUME IpcConstants, IpcInit PROVE IpcInv
  OBVIOUS
<1>1. Ids = {}
  BY DEF IpcInit, Ids
<1>2. IpcTyped
  BY <1>1 DEF IpcInit, IpcTyped, CallRecord, Unsent
<1>3. CallsNamed /\ LinesTrue /\ OwnAnswer
  BY DEF IpcInit, CallsNamed, LinesTrue, OwnAnswer, Unsent
<1>4. CallbacksWait
  BY <1>1 DEF CallbacksWait
<1> QED
  BY <1>2, <1>3, <1>4 DEF IpcInv, RepliesMatched

\* One line read, one line written.
LEMMA Queues ==
  ASSUME NEW S, NEW q \in Seq(S)
  PROVE  /\ \A m \in S : /\ Append(q, m) \in Seq(S)
                         /\ \A k \in DOMAIN Append(q, m) :
                               Append(q, m)[k] = m \/ (k \in DOMAIN q /\ Append(q, m)[k] = q[k])
         /\ q # <<>> => /\ Head(q) \in S /\ Tail(q) \in Seq(S)
                        /\ \E k \in DOMAIN q : Head(q) = q[k]
                        /\ \A k \in DOMAIN Tail(q) : \E l \in DOMAIN q : Tail(q)[k] = q[l]
<1>1. ASSUME NEW m \in S
      PROVE  /\ Append(q, m) \in Seq(S)
             /\ \A k \in DOMAIN Append(q, m) :
                   Append(q, m)[k] = m \/ (k \in DOMAIN q /\ Append(q, m)[k] = q[k])
  OBVIOUS
<1>2. ASSUME q # <<>>
      PROVE  /\ Head(q) \in S /\ Tail(q) \in Seq(S)
             /\ \E k \in DOMAIN q : Head(q) = q[k]
             /\ \A k \in DOMAIN Tail(q) : \E l \in DOMAIN q : Tail(q)[k] = q[l]
  <2>1. Len(q) \in Nat /\ Len(q) > 0 /\ DOMAIN q = 1..Len(q)
    BY <1>2
  <2>2. Head(q) = q[1] /\ 1 \in DOMAIN q /\ Head(q) \in S /\ Tail(q) \in Seq(S)
    BY <1>2, <2>1
  <2>3. ASSUME NEW k \in DOMAIN Tail(q) PROVE Tail(q)[k] = q[k + 1] /\ k + 1 \in DOMAIN q
    BY <1>2, <2>1
  <2> QED BY <2>2, <2>3
<1> QED
  BY <1>1, <1>2

\* A call that is made waits under its own id, over whatever waited there.
LEMMA CallInv ==
  ASSUME IpcConstants, IpcInv, NEW r \in Requests, NEW id \in IdSet, NEW about \in AboutSet,
         NEW method \in {"process_snapshot", "get_health", "record_trade"},
         Names(id, about), about \in TradeTokens => method = "record_trade",
         Call(r, id, method, about)
  PROVE  IpcInv'
<1> USE DEF IpcInv, RepliesMatched
<1> DEFINE new == [pc |-> IF socket THEN "pending" ELSE "rejected",
                   id |-> id, about |-> about, got |-> None]
<1>1. /\ req[r].pc = "unsent" /\ req' = [req EXCEPT ![r] = new]
      /\ pending' = IF socket THEN With(id, r) ELSE pending
      /\ toServer' = IF socket /\ wire
                     THEN Append(toServer, [id |-> id, method |-> method, about |-> about])
                     ELSE toServer
      /\ UNCHANGED <<ms, socket, wire, toClient, recorded, restarted>>
  BY DEF Call
<1>2. new \in CallRecord
  BY DEF CallRecord
<1>3. /\ req' \in [Requests -> CallRecord] /\ req'[r] = new
      /\ \A q \in Requests : q # r => req'[q] = req[q]
  <2> HIDE DEF new
  <2> QED BY <1>1, <1>2 DEF IpcTyped
<1>4. /\ Ids' \subseteq Ids \cup {id}
      /\ \A i \in Ids' : \/ pending'[i] = r /\ i = id /\ socket
                         \/ i \in Ids /\ pending'[i] = pending[i]
  BY <1>1 DEF Ids, With
<1>5. /\ toServer' \in Seq(Line)
      /\ \A k \in DOMAIN toServer' : LineTrue(toServer'[k])
  <2> DEFINE m == [id |-> id, method |-> method, about |-> about]
  <2>1. m \in Line /\ LineTrue(m)
    BY DEF Line, LineTrue
  <2>2. toServer' = toServer \/ toServer' = Append(toServer, m)
    BY <1>1
  <2> HIDE DEF m
  <2>3. CASE toServer' = toServer
    BY <2>3 DEF IpcTyped, LinesTrue
  <2>4. CASE toServer' = Append(toServer, m)
    <3>1. toServer \in Seq(Line)
      BY DEF IpcTyped
    <3>2. /\ Append(toServer, m) \in Seq(Line)
          /\ \A k \in DOMAIN Append(toServer, m) :
                \/ Append(toServer, m)[k] = m
                \/ k \in DOMAIN toServer /\ Append(toServer, m)[k] = toServer[k]
      BY <2>1, <3>1, Queues
    <3> QED BY <2>1, <2>4, <3>2 DEF LinesTrue
  <2> QED BY <2>2, <2>3, <2>4
<1>6. IpcTyped'
  BY <1>1, <1>3, <1>4, <1>5 DEF IpcTyped
<1>7. CallsNamed'
  BY <1>3 DEF CallsNamed
<1>8. LinesTrue'
  BY <1>1, <1>5 DEF LinesTrue, LineTrue, ReplyTrue, OnRecord
<1>9. OwnAnswer'
  BY <1>1, <1>3 DEF OwnAnswer
<1>10. CallbacksWait'
  <2> SUFFICES ASSUME NEW i \in Ids'
               PROVE  req'[pending'[i]].pc = "pending" /\ req'[pending'[i]].id = i
    BY DEF CallbacksWait
  <2>1. CASE pending'[i] = r /\ i = id /\ socket
    BY <1>3, <2>1
  <2>2. CASE i \in Ids /\ pending'[i] = pending[i]
    <3>1. pending[i] \in Requests /\ req[pending[i]].pc = "pending" /\ req[pending[i]].id = i
      BY <2>2 DEF IpcTyped, CallbacksWait
    <3> QED BY <1>1, <1>3, <2>2, <3>1
  <2> QED BY <1>4, <2>1, <2>2
<1> QED
  BY <1>6, <1>7, <1>8, <1>9, <1>10

\* A reply settles the call that waits under its id, and what it says is that call's.
LEMMA HandleLineInv == IpcConstants /\ IpcInv /\ HandleLine => IpcInv'
<1> SUFFICES ASSUME IpcConstants, IpcInv, HandleLine PROVE IpcInv'
  OBVIOUS
<1> USE DEF IpcInv, RepliesMatched
<1> DEFINE m == Head(toClient)
<1>1. /\ toClient \in Seq(Reply) /\ toClient # <<>> /\ toClient' = Tail(toClient)
      /\ UNCHANGED <<ms, socket, wire, toServer, recorded, restarted>>
      /\ IF m.id \in Ids
         THEN Settled(CalledFor(m.id), m.outcome, m.about) /\ pending' = Without(m.id)
         ELSE UNCHANGED <<req, pending>>
  BY DEF HandleLine, IpcTyped
<1>2. /\ m \in Reply /\ Tail(toClient) \in Seq(Reply)
      /\ \E k \in DOMAIN toClient : m = toClient[k]
      /\ \A k \in DOMAIN Tail(toClient) : \E l \in DOMAIN toClient : Tail(toClient)[k] = toClient[l]
  BY <1>1, Queues
<1> HIDE DEF m
<1>3. ReplyTrue(m, recorded, restarted)
  BY <1>2 DEF LinesTrue
<1>4. LinesTrue'
  <2>1. \A k \in DOMAIN toClient' : ReplyTrue(toClient'[k], recorded', restarted')
    BY <1>1, <1>2 DEF LinesTrue
  <2> QED BY <1>1, <2>1 DEF LinesTrue, LineTrue, ReplyTrue, OnRecord
<1>5. CASE m.id \notin Ids
  <2>1. UNCHANGED <<req, pending>>
    BY <1>1, <1>5
  <2>2. IpcTyped'
    BY <1>1, <1>2, <2>1 DEF IpcTyped, Ids
  <2>3. CallsNamed' /\ OwnAnswer' /\ CallbacksWait'
    BY <1>1, <2>1 DEF CallsNamed, OwnAnswer, CallbacksWait, Ids
  <2> QED BY <1>4, <2>2, <2>3
<1>6. CASE m.id \in Ids
  <2> DEFINE r == pending[m.id]
  <2>1. r \in Requests /\ req[r].pc = "pending" /\ req[r].id = m.id
    BY <1>6 DEF IpcTyped, CallbacksWait
  <2>2. /\ req' = [req EXCEPT ![r].pc = m.outcome, ![r].got = m.about]
        /\ pending' = [i \in Ids \ {m.id} |-> pending[i]]
    BY <1>1, <1>6 DEF Settled, CalledFor, Without
  <2>3. m.outcome \in {"resolved", "rejected", "dropped"} /\ m.about \in AboutSet
    BY <1>2 DEF Reply
  <2>4. Names(m.id, req[r].about) /\ Names(m.id, m.about)
    BY <1>3, <2>1 DEF CallsNamed, ReplyTrue
  <2>5. m.about = req[r].about
    BY <2>4, NamesOne
  <2> HIDE DEF r
  <2>6. /\ req' \in [Requests -> CallRecord]
        /\ req'[r].pc = m.outcome /\ req'[r].got = m.about
        /\ req'[r].id = req[r].id /\ req'[r].about = req[r].about
        /\ \A q \in Requests : q # r => req'[q] = req[q]
    BY <2>1, <2>2, <2>3 DEF IpcTyped, CallRecord
  <2>7. /\ Ids' = Ids \ {m.id}
        /\ \A i \in Ids' : i \in Ids /\ i # m.id /\ pending'[i] = pending[i]
    BY <2>2 DEF Ids
  <2>8. IpcTyped'
    BY <1>1, <1>2, <2>6, <2>7 DEF IpcTyped
  <2>9. CallsNamed'
    BY <2>1, <2>6 DEF CallsNamed
  <2>10. OwnAnswer'
    BY <1>1, <1>3, <2>3, <2>5, <2>6 DEF OwnAnswer, ReplyTrue, OnRecord
  <2>11. CallbacksWait'
    <3> SUFFICES ASSUME NEW i \in Ids'
                 PROVE  req'[pending'[i]].pc = "pending" /\ req'[pending'[i]].id = i
      BY DEF CallbacksWait
    <3>1. i \in Ids /\ i # m.id /\ pending'[i] = pending[i]
      BY <2>7
    <3>2. pending[i] \in Requests /\ req[pending[i]].pc = "pending" /\ req[pending[i]].id = i
      BY <3>1 DEF IpcTyped, CallbacksWait
    <3>3. pending[i] # r
      BY <2>1, <3>1, <3>2
    <3> QED BY <2>6, <3>1, <3>2, <3>3
  <2> QED BY <1>4, <2>8, <2>9, <2>10, <2>11
<1> QED
  BY <1>5, <1>6

\* A timer rejects its call, and removes whatever waits under that call's id.
LEMMA TimesOutInv ==
  ASSUME IpcConstants, IpcInv, NEW r \in Requests, TimesOut(r)
  PROVE  IpcInv'
<1> USE DEF IpcInv, RepliesMatched
<1>1. /\ req[r].pc = "pending"
      /\ req' = [req EXCEPT ![r].pc = "rejected", ![r].got = None]
      /\ pending' = [i \in Ids \ {req[r].id} |-> pending[i]]
      /\ UNCHANGED <<ms, socket, wire, toServer, toClient, recorded, restarted>>
  BY DEF TimesOut, TimerLives, Settled, Without
<1>2. /\ req' \in [Requests -> CallRecord]
      /\ req'[r].pc = "rejected"
      /\ req'[r].id = req[r].id /\ req'[r].about = req[r].about
      /\ \A q \in Requests : q # r => req'[q] = req[q]
  BY <1>1 DEF IpcTyped, CallRecord
<1>3. /\ Ids' = Ids \ {req[r].id}
      /\ \A i \in Ids' : i \in Ids /\ i # req[r].id /\ pending'[i] = pending[i]
  BY <1>1 DEF Ids
<1>4. IpcTyped'
  BY <1>1, <1>2, <1>3 DEF IpcTyped
<1>5. CallsNamed'
  BY <1>1, <1>2 DEF CallsNamed
<1>6. LinesTrue'
  BY <1>1 DEF LinesTrue, LineTrue, ReplyTrue, OnRecord
<1>7. OwnAnswer'
  BY <1>1, <1>2 DEF OwnAnswer
<1>8. CallbacksWait'
  <2> SUFFICES ASSUME NEW i \in Ids'
               PROVE  req'[pending'[i]].pc = "pending" /\ req'[pending'[i]].id = i
    BY DEF CallbacksWait
  <2>1. pending[i] \in Requests /\ req[pending[i]].pc = "pending" /\ req[pending[i]].id = i
    BY <1>3 DEF IpcTyped, CallbacksWait
  <2>2. pending[i] # r
    BY <1>3, <2>1
  <2> QED BY <1>2, <1>3, <2>1, <2>2
<1> QED
  BY <1>4, <1>5, <1>6, <1>7, <1>8

\* What leaves the calls, their callbacks and the record alone, and only loses lines.
Loses ==
  /\ toServer' \in {toServer, <<>>} /\ toClient' \in {toClient, <<>>}
  /\ ms' \in Nat /\ UNCHANGED <<req, pending>>
  /\ UNCHANGED <<recorded, restarted>> \/ restarted'

\* Losing lines, or the server's memory, settles nothing and mixes nothing up.
LEMMA LosesInv == IpcInv /\ Loses => IpcInv'
<1> SUFFICES ASSUME IpcInv, Loses PROVE IpcInv'
  OBVIOUS
<1> USE DEF IpcInv, RepliesMatched
<1>1. \A token : OnRecord(token, recorded, restarted) => OnRecord(token, recorded', restarted')
  BY DEF Loses, OnRecord
<1>2. IpcTyped'
  <2>1. \A S : <<>> \in Seq(S)
    OBVIOUS
  <2>2. toServer' \in Seq(Line) /\ toClient' \in Seq(Reply)
    BY <2>1 DEF Loses, IpcTyped
  <2> QED BY <2>2 DEF Loses, IpcTyped, Ids
<1>3. CallsNamed' /\ CallbacksWait'
  BY DEF Loses, CallsNamed, CallbacksWait, Ids
<1>4. \A k \in DOMAIN toServer' : LineTrue(toServer'[k])
  BY DEF Loses, LinesTrue
<1>5. \A k \in DOMAIN toClient' : ReplyTrue(toClient'[k], recorded', restarted')
  BY <1>1 DEF Loses, LinesTrue, ReplyTrue
<1>6. LinesTrue'
  BY <1>4, <1>5 DEF LinesTrue, LineTrue
<1>7. OwnAnswer'
  BY <1>1 DEF Loses, OwnAnswer, OnRecord
<1> QED
  BY <1>2, <1>3, <1>6, <1>7

\* The server answers a line with the line's own id, after it has recorded a trade.
LEMMA DispatchInv ==
  ASSUME IpcConstants, IpcInv, NEW outcome \in {"resolved", "rejected", "dropped"}, Dispatch(outcome)
  PROVE  IpcInv'
<1> USE DEF IpcInv, RepliesMatched
<1> DEFINE m == Head(toServer)
           answer == [id |-> m.id, outcome |-> outcome, about |-> m.about]
<1>1. /\ toServer \in Seq(Line) /\ toServer # <<>> /\ toServer' = Tail(toServer)
      /\ toClient \in Seq(Reply) /\ toClient' = Append(toClient, answer)
      /\ recorded' = IF outcome = "resolved" THEN Recording(m) ELSE recorded
      /\ UNCHANGED <<ms, socket, wire, req, pending, restarted>>
  BY DEF Dispatch, IpcTyped
<1>2. /\ m \in Line /\ Tail(toServer) \in Seq(Line)
      /\ \E k \in DOMAIN toServer : m = toServer[k]
      /\ \A k \in DOMAIN Tail(toServer) : \E l \in DOMAIN toServer : Tail(toServer)[k] = toServer[l]
  BY <1>1, Queues
<1> HIDE DEF m
<1>3. LineTrue(m)
  BY <1>2 DEF LinesTrue
<1>4. \A token : OnRecord(token, recorded, restarted) => OnRecord(token, recorded', restarted')
  BY <1>1 DEF OnRecord, Recording
<1>5. answer \in Reply /\ answer.id = m.id /\ answer.about = m.about /\ answer.outcome = outcome
  BY <1>2 DEF Line, Reply
<1> HIDE DEF answer
<1>6. outcome = "resolved" => OnRecord(m.about, recorded', restarted')
  BY <1>1, <1>3 DEF OnRecord, LineTrue, Recording
<1>7. ReplyTrue(answer, recorded', restarted')
  BY <1>3, <1>5, <1>6 DEF ReplyTrue, LineTrue
<1>8. /\ Append(toClient, answer) \in Seq(Reply)
      /\ \A k \in DOMAIN Append(toClient, answer) :
            \/ Append(toClient, answer)[k] = answer
            \/ k \in DOMAIN toClient /\ Append(toClient, answer)[k] = toClient[k]
  BY <1>1, <1>5, Queues
<1>9. \A k \in DOMAIN toClient' : ReplyTrue(toClient'[k], recorded', restarted')
  <2>1. \A k \in DOMAIN toClient : ReplyTrue(toClient[k], recorded, restarted)
    BY DEF LinesTrue
  <2>2. \A k \in DOMAIN toClient' :
           toClient'[k] = answer \/ (k \in DOMAIN toClient /\ toClient'[k] = toClient[k])
    BY <1>1, <1>8
  <2> QED BY <1>4, <1>7, <2>1, <2>2 DEF ReplyTrue
<1>10. \A k \in DOMAIN toServer' : LineTrue(toServer'[k])
  BY <1>1, <1>2 DEF LinesTrue
<1>11. LinesTrue'
  BY <1>9, <1>10 DEF LinesTrue, LineTrue
<1>12. IpcTyped'
  BY <1>1, <1>2, <1>8 DEF IpcTyped, Ids
<1>13. CallsNamed' /\ CallbacksWait'
  BY <1>1 DEF CallsNamed, CallbacksWait, Ids
<1>14. OwnAnswer'
  BY <1>1, <1>4 DEF OwnAnswer, OnRecord
<1> QED
  BY <1>11, <1>12, <1>13, <1>14

\* Every step keeps the invariant.
LEMMA IpcInvNext == IpcConstants /\ IpcInv /\ [IpcNext]_ipcVars => IpcInv'
<1> SUFFICES ASSUME IpcConstants, IpcInv, [IpcNext]_ipcVars PROVE IpcInv'
  OBVIOUS
<1>1. ASSUME NEW r \in Requests, NEW c \in Cycles, ProcessSnapshot(r, c) PROVE IpcInv'
  <2>1. /\ <<"cycle", c, r>> \in IdSet /\ c \in AboutSet
        /\ Names(<<"cycle", c, r>>, c)
    BY DEF IdSet, AboutSet, Names
  <2>2. c \notin TradeTokens
    BY DEF IpcConstants
  <2> QED BY <1>1, <2>1, <2>2, CallInv DEF ProcessSnapshot
<1>2. ASSUME NEW r \in Requests, GetHealth(r) PROVE IpcInv'
  <2>1. ms \in Nat
    BY DEF IpcInv, IpcTyped
  <2>2. /\ <<"health", ms>> \in IdSet /\ "health" \in AboutSet
        /\ Names(<<"health", ms>>, "health")
    BY <2>1 DEF IdSet, AboutSet, Names
  <2>3. "health" \notin TradeTokens
    BY DEF IpcConstants
  <2> QED BY <1>2, <2>2, <2>3, CallInv DEF GetHealth
<1>3. ASSUME NEW r \in Requests, NEW t \in TradeTokens, RecordTrade(r, t) PROVE IpcInv'
  <2>1. ms \in Nat
    BY DEF IpcInv, IpcTyped
  <2>2. /\ <<"trade", ms, t>> \in IdSet /\ t \in AboutSet
        /\ Names(<<"trade", ms, t>>, t)
    BY <2>1 DEF IdSet, AboutSet, Names
  <2> QED BY <1>3, <2>2, CallInv DEF RecordTrade
<1>4. ASSUME NEW r \in Requests, TimesOut(r) PROVE IpcInv'
  BY <1>4, TimesOutInv
<1>5. CASE HandleLine
  BY <1>5, HandleLineInv
<1>6. CASE SeesClose \/ Disconnect \/ Millisecond \/ RefusesLine \/ Restart \/ UNCHANGED ipcVars
  <2>1. ms \in Nat /\ ms + 1 \in Nat
    BY DEF IpcInv, IpcTyped
  <2>2. Loses
    BY <1>6, <2>1 DEF Loses, SeesClose, Disconnect, Millisecond, RefusesLine, Restart, ipcVars
  <2> QED BY <2>2, LosesInv
<1>7. ASSUME NEW o \in {"resolved", "rejected", "dropped"}, Dispatch(o) PROVE IpcInv'
  BY <1>7, DispatchInv
<1> QED
  BY <1>1, <1>2, <1>3, <1>4, <1>5, <1>6, <1>7 DEF IpcNext

\* Whatever is lost, late or answered after a timeout, and however many calls share an id:
\* a call is settled with the answer to itself, a trade whose call went well was recorded,
\* and only calls that still wait have callbacks.
THEOREM RepliesAlwaysMatched == IpcConstants => (IpcSpec => []RepliesMatched)
<1> SUFFICES ASSUME IpcConstants PROVE IpcSpec => []RepliesMatched
  OBVIOUS
<1>1. IpcInit => IpcInv
  BY IpcInvInit
<1>2. IpcInv /\ [IpcNext]_ipcVars => IpcInv'
  BY IpcInvNext
<1>3. IpcInv => RepliesMatched
  BY DEF IpcInv
<1> QED
  BY <1>1, <1>2, <1>3, PTL DEF IpcSpec

=================================================================================
