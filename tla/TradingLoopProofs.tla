---------------------------- MODULE TradingLoopProofs ----------------------------
(* What is proved of the trading loop, of the strategies behind it with their mixer, *)
(* and of the backtest. *)
EXTENDS MCTradingLoop, NatSumTheorems, FiniteSetTheorems, TLAPS

-----------------------------------------------------------------------------
(* The trading loop *)

(* Its inductive invariant. *)

Decision == [sig : Signals, by : {"ai", "auto"}, amt : Nat]

\* No trade the risk manager knew of lies within the cooldown before a check.
CooledFor(tok, chk, chkLife) ==
  \A r \in recs : r.tok = tok /\ r.life = chkLife /\ r.at < chk => chk - r.at >= Cooldown

\* A signal that passed the check that k's cycle made.
PassedIn(s, k) == s.amt <= MaxSize /\ CooledFor(s.tok, k.chk, k.chkLife)

\* A decision stands for a signal that passed, and leaves it as it is unless a model spoke.
SoundDecision(d, k) ==
  /\ PassedIn(d.sig, k)
  /\ d.by # "ai" => d.amt = d.sig.amt /\ d.amt <= Threshold

\* The record of a cycle.
Shape(k) ==
  /\ DOMAIN k = {"pc", "seen", "batch", "decs", "done", "chk", "chkLife", "why"}
  /\ k.batch \in Seq(Signals) /\ k.decs \in Seq(Decision)
  /\ k.pc = "deciding" => k.batch # <<>>
  /\ k.pc = "executing" => k.decs # <<>>
  /\ k.pc \in {"idle", "polled", "deciding"} => k.done = {} /\ k.why = "none"
  /\ k.pc \in {"idle", "polled"} => k.decs = <<>>
  /\ k.pc = "done" => k.done = {}

CycleInv(k) ==
  /\ Shape(k)
  /\ k.chk \in Int /\ k.chk <= now /\ k.chkLife \in Nat /\ k.chkLife <= life
  /\ \A i \in 1..Len(k.batch) : PassedIn(k.batch[i], k)
  /\ \A i \in 1..Len(k.decs) : SoundDecision(k.decs[i], k)

\* The risk manager remembers at least as late a trade of each token as this life recorded.
RecordsInv ==
  /\ now \in Nat /\ life \in Nat /\ last \in [Tokens -> Nat \cup {Never}]
  /\ \A r \in recs :
       /\ r.tok \in Tokens /\ r.at \in 0..now /\ r.life \in Nat /\ r.life <= life
       /\ r.life = life => last[r.tok] >= r.at

\* An order keeps what its check and its decision promised.
PromisedInv ==
  \A o \in orders :
    /\ o.cyc \in Cycles /\ o.chk \in Int /\ o.chk <= now /\ CooledFor(o.tok, o.chk, o.chkLife)
    /\ o.by # "ai" => o.amt = o.asked /\ o.amt \in Nat /\ o.amt <= Threshold /\ o.amt <= MaxSize

\* With a receipt it is recorded, or will be by its cycle, unless that says why not.
ReceiptsInv ==
  \A o \in orders :
    o.receipt /\ cyc[o.cyc].why = "none" =>
      o.tok \in cyc[o.cyc].done \/ \E r \in recs : r.cyc = o.cyc /\ r.tok = o.tok

CyclesInv == cyc = [c \in Cycles |-> cyc[c]] /\ \A c \in Cycles : CycleInv(cyc[c])

LoopInv == CyclesInv /\ RecordsInv /\ PromisedInv /\ ReceiptsInv

-----------------------------------------------------------------------------
(* Steps in general. *)

\* A record that holds nothing yet, or nothing any more.
LEMMA EmptyRecord ==
  ASSUME RecordsInv, NEW k, NEW pc, pc \in {"idle", "done"}, NEW why, pc = "idle" => why = "none",
         k = Bare(pc, why)
  PROVE  CycleInv(k) /\ k.done = {} /\ k.why = why /\ k.pc = pc
<1>1. /\ k.pc = pc /\ k.why = why /\ k.done = {} /\ k.batch = <<>> /\ k.decs = <<>>
      /\ k.chk = Never /\ k.chkLife = 0
      /\ DOMAIN k = {"pc", "seen", "batch", "decs", "done", "chk", "chkLife", "why"}
  BY DEF Bare
<1>2. \A S : <<>> \in Seq(S)
  OBVIOUS
<1>3. 1..Len(<<>>) = {}
  OBVIOUS
<1>4. Never \in Int /\ Never <= 0
  BY DEF Never
<1>5. Shape(k)
  <2>1. k.batch \in Seq(Signals) /\ k.decs \in Seq(Decision)
    BY <1>1, <1>2
  <2> QED BY <1>1, <2>1 DEF Shape
<1>6. k.chk \in Int /\ k.chk <= now /\ k.chkLife \in Nat /\ k.chkLife <= life
  BY <1>1, <1>4 DEF RecordsInv
<1>7. 1..Len(k.batch) = {} /\ 1..Len(k.decs) = {}
  BY <1>1, <1>3
<1> QED
  BY <1>1, <1>5, <1>6, <1>7 DEF CycleInv

\* Time passes, Python restarts and records trades: what a check promised stays.
Onward == /\ now' \in Nat /\ now <= now' /\ life' \in Nat /\ life <= life'
          /\ \A r \in recs' : r \in recs \/ r.at = now

\* No later record is nearer to a check than those it looked at.
LEMMA CooledStays ==
  ASSUME RecordsInv, Onward, NEW tok, NEW chk \in Int, chk <= now, NEW chkLife, CooledFor(tok, chk, chkLife)
  PROVE  CooledFor(tok, chk, chkLife)'
<1> SUFFICES ASSUME NEW r \in recs', r.tok = tok, r.life = chkLife, r.at < chk PROVE chk - r.at >= Cooldown
  BY DEF CooledFor
<1>1. r \in recs
  BY DEF Onward, RecordsInv
<1> QED BY <1>1 DEF CooledFor

\* What is true of a cycle stays true as time goes on.
LEMMA CycleStays ==
  ASSUME RecordsInv, Onward, NEW k, CycleInv(k)
  PROVE  CycleInv(k)'
<1>1. k.chk \in Int /\ k.chk <= now
  BY DEF CycleInv
<1>2. \A s : PassedIn(s, k) => PassedIn(s, k)'
  BY <1>1, CooledStays DEF PassedIn
<1>3. \A d : SoundDecision(d, k) => SoundDecision(d, k)'
  BY <1>2 DEF SoundDecision
<1>4. k.chk <= now' /\ k.chkLife <= life'
  BY <1>1 DEF CycleInv, Onward, RecordsInv
<1> QED BY <1>1, <1>2, <1>3, <1>4 DEF CycleInv

\* What is true of orders sent stays true.
LEMMA PromisedStays ==
  ASSUME RecordsInv, Onward, PromisedInv, orders' = orders
  PROVE  PromisedInv'
<1> SUFFICES ASSUME NEW o \in orders PROVE
       /\ o.cyc \in Cycles /\ o.chk \in Int /\ o.chk <= now' /\ CooledFor(o.tok, o.chk, o.chkLife)'
       /\ o.by # "ai" => o.amt = o.asked /\ o.amt \in Nat /\ o.amt <= Threshold /\ o.amt <= MaxSize
  BY DEF PromisedInv
<1>1. o.chk \in Int /\ o.chk <= now /\ CooledFor(o.tok, o.chk, o.chkLife)
  BY DEF PromisedInv
<1>2. CooledFor(o.tok, o.chk, o.chkLife)'
  BY <1>1, CooledStays
<1> QED BY <1>1, <1>2 DEF PromisedInv, RecordsInv, Onward

\* A step of one cycle: its next record k is sound, or it has ended.
LEMMA CycleGoes ==
  ASSUME LoopInv, Onward, RecordsInv', NEW c \in Cycles, NEW k, Goes(c, k),
         k.pc # "done" => CycleInv(k)'
  PROVE  /\ CyclesInv'
         /\ cyc'[c].why = k.why /\ \A d \in Cycles : d # c => cyc'[d] = cyc[d]
         /\ k.pc # "done" => cyc'[c] = k
<1>1. cyc = [d \in Cycles |-> cyc[d]] /\ RecordsInv /\ \A d \in Cycles : CycleInv(cyc[d])
  BY DEF LoopInv, CyclesInv
<1> DEFINE n == IF k.pc = "done" THEN Over(k.why) ELSE k
<1>2. cyc' = [d \in Cycles |-> IF d = c THEN n ELSE cyc[d]]
  BY <1>1 DEF Goes
<1>3. CycleInv(n)' /\ n.why = k.why
  <2>1. CASE k.pc = "done"
    <3> DEFINE v == Over(k.why)
    <3>1. v = Bare("done", k.why)
      BY DEF Over
    <3> HIDE DEF v
    <3>2. CycleInv(v) /\ v.why = k.why
      BY <1>1, <3>1, EmptyRecord
    <3>3. CycleInv(v)'
      BY <1>1, <3>2, CycleStays
    <3> QED BY <2>1, <3>2, <3>3 DEF v
  <2>2. CASE k.pc # "done"
    BY <2>2
  <2> QED BY <2>1, <2>2
<1> HIDE DEF n
<1>4. \A d \in Cycles : d # c => CycleInv(cyc[d])'
  <2> SUFFICES ASSUME NEW d \in Cycles, d # c PROVE (CycleInv(cyc[d]))'
    OBVIOUS
  <2> DEFINE e == cyc[d]
  <2>1. CycleInv(e) /\ cyc'[d] = e
    BY <1>1, <1>2
  <2> HIDE DEF e
  <2> QED BY <1>1, <2>1, CycleStays
<1> QED
  BY <1>2, <1>3, <1>4 DEF CyclesInv, n
\* The receipts of a step that gives no order: its cycle keeps what it still has to record.
LEMMA ReceiptsStay ==
  ASSUME ReceiptsInv, NEW c \in Cycles, orders' = orders, recs \subseteq recs',
         \A o \in orders : o.cyc \in Cycles,
         \A d \in Cycles : d # c => cyc'[d] = cyc[d],
         cyc'[c].why = "none" => cyc[c].why = "none",
         cyc'[c].why = "none" =>
           \A t \in cyc[c].done : t \in cyc'[c].done \/ \E r \in recs' : r.cyc = c /\ r.tok = t
  PROVE  ReceiptsInv'
<1> SUFFICES ASSUME NEW o \in orders, o.receipt, cyc'[o.cyc].why = "none"
             PROVE  o.tok \in cyc'[o.cyc].done \/ \E r \in recs' : r.cyc = o.cyc /\ r.tok = o.tok
  BY DEF ReceiptsInv
<1>1. cyc[o.cyc].why = "none"
  OBVIOUS
<1>2. o.tok \in cyc[o.cyc].done \/ \E r \in recs : r.cyc = o.cyc /\ r.tok = o.tok
  BY <1>1 DEF ReceiptsInv
<1> QED BY <1>2

\* A cycle that has done nothing yet may end as it likes.
LEMMA QuietCycle ==
  ASSUME LoopInv, NEW c \in Cycles, cyc[c].pc \in {"idle", "polled", "deciding"},
         orders' = orders, recs' = recs, \A d \in Cycles : d # c => cyc'[d] = cyc[d]
  PROVE  ReceiptsInv'
<1>1. cyc[c].done = {} /\ cyc[c].why = "none"
  BY DEF LoopInv, CyclesInv, CycleInv, Shape
<1>2. \A o \in orders : o.cyc \in Cycles
  BY DEF LoopInv, PromisedInv
<1> QED BY <1>1, <1>2, ReceiptsStay DEF LoopInv

\* A step that leaves the records and the clock alone.
LEMMA RecordsStay ==
  ASSUME RecordsInv, UNCHANGED <<now, life, last, recs>> PROVE RecordsInv' /\ Onward
BY DEF RecordsInv, Onward

\* A poll begins.
LEMMA PollInv ==
  ASSUME LoopInv, NEW c \in Cycles, Poll(c) PROVE LoopInv'
<1>1. PICK seen : Goes(c, [cyc[c] EXCEPT !.pc = "polled", !.seen = seen])
  BY DEF Poll
<1>2. cyc[c].pc = "idle" /\ UNCHANGED <<life, last, orders, recs, now>>
  BY DEF Poll, MayStart
<1>3. RecordsInv' /\ Onward /\ RecordsInv
  BY <1>2, RecordsStay DEF LoopInv
<1>4. PICK k : k = cyc[c]
  OBVIOUS
<1>5. PICK n : n = [k EXCEPT !.pc = "polled", !.seen = seen]
  OBVIOUS
<1>6. CycleInv(k) /\ Shape(k) /\ k.pc = "idle" /\ Goes(c, n)
  BY <1>1, <1>2, <1>4, <1>5 DEF LoopInv, CyclesInv, CycleInv
<1>7. /\ n.pc = "polled" /\ n.batch = k.batch /\ n.decs = k.decs /\ n.done = k.done
      /\ n.chk = k.chk /\ n.chkLife = k.chkLife /\ n.why = k.why /\ DOMAIN n = DOMAIN k
  BY <1>5, <1>6 DEF Shape
<1>8. Shape(n)
  BY <1>6, <1>7 DEF Shape
<1>9. CycleInv(n)
  BY <1>6, <1>7, <1>8 DEF CycleInv, PassedIn, SoundDecision
<1>10. CycleInv(n)'
  BY <1>3, <1>9, CycleStays
<1>11. CyclesInv' /\ \A d \in Cycles : d # c => cyc'[d] = cyc[d]
  BY <1>3, <1>6, <1>10, CycleGoes
<1>12. ReceiptsInv'
  BY <1>2, <1>11, QuietCycle
<1>13. PromisedInv'
  BY <1>2, <1>3, PromisedStays DEF LoopInv
<1> QED BY <1>3, <1>11, <1>12, <1>13 DEF LoopInv

\* What a batch may hold.
LEMMA BatchOf ==
  ASSUME NEW W, NEW b \in Batches(W)
  PROVE  b \in Seq(W) /\ \A i \in 1..Len(b) : b[i] \in W
<1>1. CASE b = <<>>
  BY <1>1
<1>2. ASSUME NEW s \in W, b = <<s>> PROVE b \in Seq(W) /\ \A i \in 1..Len(b) : b[i] \in W
  BY <1>2
<1>3. ASSUME NEW s \in W, NEW t \in W, b = <<s, t>> PROVE b \in Seq(W) /\ \A i \in 1..Len(b) : b[i] \in W
  BY <1>3
<1> QED BY <1>1, <1>2, <1>3 DEF Batches

\* A signal that passes is of a token that this life's risk manager recorded long ago, if ever.
LEMMA PassesCooled ==
  ASSUME RecordsInv, NEW s \in Signals, Passes(s)
  PROVE  s.amt <= MaxSize /\ CooledFor(s.tok, now, life)
<1>1. s.tok \in Tokens /\ Cooldown \in Nat
  BY LoopConstants
<1>2. ASSUME NEW r \in recs, r.tok = s.tok, r.life = life, r.at < now PROVE now - r.at >= Cooldown
  <2>1. last[s.tok] >= r.at /\ r.at \in Nat /\ last[s.tok] \in Nat \cup {Never} /\ now \in Nat
    BY <1>1, <1>2 DEF RecordsInv
  <2>2. ~(last[s.tok] # Never /\ now - last[s.tok] < Cooldown)
    BY DEF Passes, Cooling
  <2> QED BY <2>1, <2>2, <1>1 DEF Never
<1> QED BY <1>2 DEF CooledFor, Passes

\* The loop looks at the signals and the cooldown.
LEMMA CheckInv ==
  ASSUME LoopInv, NEW c \in Cycles, Check(c) PROVE LoopInv'
<1> DEFINE W == {s \in Signals : s.tok \in cyc[c].seen /\ Passes(s)}
<1>1. PICK b \in Batches(W) :
        Goes(c, [cyc[c] EXCEPT !.pc = IF b = <<>> THEN "done" ELSE "deciding", !.seen = {},
                               !.batch = b, !.chk = now, !.chkLife = life])
  BY DEF Check
<1>2. cyc[c].pc = "polled" /\ UNCHANGED <<life, last, orders, recs, now>>
  BY DEF Check
<1>3. RecordsInv' /\ Onward /\ RecordsInv
  BY <1>2, RecordsStay DEF LoopInv
<1>4. PICK k : k = cyc[c]
  OBVIOUS
<1>5. PICK t \in Nat : t = now
  BY <1>3 DEF RecordsInv
<1>6. PICK l \in Nat : l = life
  BY <1>3 DEF RecordsInv
<1>7. PICK n : n = [k EXCEPT !.pc = IF b = <<>> THEN "done" ELSE "deciding", !.seen = {},
                             !.batch = b, !.chk = t, !.chkLife = l]
  OBVIOUS
<1>8. CycleInv(k) /\ Shape(k) /\ k.pc = "polled" /\ Goes(c, n)
  BY <1>1, <1>2, <1>4, <1>5, <1>6, <1>7 DEF LoopInv, CyclesInv, CycleInv
<1>9. /\ n.pc = (IF b = <<>> THEN "done" ELSE "deciding") /\ n.batch = b /\ n.decs = k.decs
      /\ n.done = k.done /\ n.chk = t /\ n.chkLife = l /\ n.why = k.why /\ DOMAIN n = DOMAIN k
  BY <1>7, <1>8 DEF Shape
<1>10. b \in Seq(Signals) /\ \A i \in 1..Len(b) : b[i] \in Signals /\ Passes(b[i])
  <2>1. b \in Seq(W) /\ \A i \in 1..Len(b) : b[i] \in W
    BY BatchOf
  <2> QED BY <2>1
<1>11. k.done = {} /\ k.why = "none"
  BY <1>8 DEF Shape
<1>12. ASSUME n.pc # "done" PROVE (CycleInv(n))'
  <2>1. n.pc = "deciding" /\ b # <<>>
    BY <1>9, <1>12
  <2>2. Shape(n)
    BY <1>8, <1>9, <1>10, <1>11, <2>1 DEF Shape
  <2>3. \A i \in 1..Len(n.batch) : PassedIn(n.batch[i], n)
    BY <1>3, <1>5, <1>6, <1>9, <1>10, PassesCooled DEF PassedIn
  <2>4. n.decs = <<>>
    BY <1>8, <1>9 DEF Shape
  <2>5. 1..Len(<<>>) = {}
    OBVIOUS
  <2>6. CycleInv(n)
    BY <1>5, <1>6, <1>9, <2>2, <2>3, <2>4, <2>5 DEF CycleInv
  <2> QED BY <1>3, <2>6, CycleStays
<1>13. CyclesInv' /\ \A d \in Cycles : d # c => cyc'[d] = cyc[d]
  BY <1>3, <1>8, <1>12, CycleGoes
<1>14. ReceiptsInv'
  BY <1>2, <1>13, QuietCycle
<1>15. PromisedInv'
  BY <1>2, <1>3, PromisedStays DEF LoopInv
<1> QED BY <1>3, <1>13, <1>14, <1>15 DEF LoopInv

\* Looking fails.
LEMMA CheckFailsInv ==
  ASSUME LoopInv, NEW c \in Cycles, CheckFails(c) PROVE LoopInv'
<1>1. cyc[c].pc = "polled" /\ UNCHANGED <<life, last, orders, recs, now>>
  BY DEF CheckFails
<1>2. RecordsInv' /\ Onward /\ RecordsInv
  BY <1>1, RecordsStay DEF LoopInv
<1>3. PICK n : n = Over("none")
  OBVIOUS
<1>4. n.pc = "done" /\ n.why = "none"
  BY <1>3 DEF Over, Bare
<1>5. Goes(c, n)
  BY <1>3, <1>4 DEF CheckFails, Goes
<1>6. CyclesInv' /\ \A d \in Cycles : d # c => cyc'[d] = cyc[d]
  BY <1>2, <1>4, <1>5, CycleGoes
<1>7. ReceiptsInv'
  BY <1>1, <1>6, QuietCycle
<1>8. PromisedInv'
  BY <1>1, <1>2, PromisedStays DEF LoopInv
<1> QED BY <1>2, <1>6, <1>7, <1>8 DEF LoopInv

\* What is left of a sequence after its first element.
LEMMA HeadTail ==
  ASSUME NEW S, NEW q \in Seq(S), q # <<>>
  PROVE  /\ 1 \in 1..Len(q) /\ Head(q) = q[1] /\ Head(q) \in S
         /\ Tail(q) \in Seq(S) /\ Len(Tail(q)) = Len(q) - 1
         /\ \A i \in 1..Len(Tail(q)) : i + 1 \in 1..Len(q) /\ Tail(q)[i] = q[i + 1]
OBVIOUS

\* What the gate makes of a signal that passed.
LEMMA VerdictOf ==
  ASSUME NEW s \in Signals, NEW v \in Verdicts(s)
  PROVE  /\ v \in Seq(Decision)
         /\ \A i \in 1..Len(v) : /\ v[i].sig = s
                                 /\ v[i].by # "ai" => v[i].amt = s.amt /\ s.amt <= Threshold
<1>1. s.amt \in Nat /\ Adjusted \subseteq Nat /\ Threshold \in Nat
  BY LoopConstants
<1>2. CASE NeedsAi(s)
  <2>1. v \in Evaluated(s)
    BY <1>2 DEF Verdicts
  <2>2. CASE v = <<>>
    BY <2>2
  <2>3. CASE v # <<>>
    <3>1. PICK a \in Adjusted \cup {s.amt} : v = <<[sig |-> s, by |-> "ai", amt |-> a]>>
      BY <2>1, <2>3 DEF Evaluated
    <3>2. PICK d : d = [sig |-> s, by |-> "ai", amt |-> a]
      OBVIOUS
    <3>3. d \in Decision /\ d.sig = s /\ d.by = "ai"
      BY <1>1, <3>1, <3>2 DEF Decision
    <3>4. v = <<d>>
      BY <3>1, <3>2
    <3> QED BY <3>3, <3>4
  <2> QED BY <2>2, <2>3
<1>3. CASE ~NeedsAi(s)
  <2>1. PICK d : d = [sig |-> s, by |-> "auto", amt |-> s.amt]
    OBVIOUS
  <2>2. v = <<d>>
    BY <1>3, <2>1 DEF Verdicts
  <2>3. d \in Decision /\ d.sig = s /\ d.amt = s.amt /\ s.amt <= Threshold
    BY <1>1, <1>3, <2>1 DEF Decision, NeedsAi
  <2> QED BY <2>2, <2>3
<1> QED BY <1>2, <1>3

\* The batch is decided on.
LEMMA DecideInv ==
  ASSUME LoopInv, NEW c \in Cycles, Decide(c) PROVE LoopInv'
<1>1. PICK k : k = cyc[c]
  OBVIOUS
<1>2. k.pc = "deciding" /\ UNCHANGED <<life, last, orders, recs, now>>
  BY <1>1 DEF Decide
<1>3. RecordsInv' /\ Onward /\ RecordsInv
  BY <1>2, RecordsStay DEF LoopInv
<1>4. CycleInv(k) /\ Shape(k)
  BY <1>1 DEF LoopInv, CyclesInv, CycleInv
<1>5. PICK v \in Verdicts(Head(k.batch)) :
        Goes(c, [k EXCEPT !.batch = Tail(k.batch), !.decs = k.decs \o v,
                          !.pc = IF Tail(k.batch) # <<>> THEN "deciding"
                                 ELSE IF k.decs \o v # <<>> THEN "executing" ELSE "done"])
  BY <1>1 DEF Decide
<1>6. PICK n : n = [k EXCEPT !.batch = Tail(k.batch), !.decs = k.decs \o v,
                             !.pc = IF Tail(k.batch) # <<>> THEN "deciding"
                                    ELSE IF k.decs \o v # <<>> THEN "executing" ELSE "done"]
  OBVIOUS
<1>7. Goes(c, n)
  BY <1>5, <1>6
<1>8. /\ n.pc = (IF Tail(k.batch) # <<>> THEN "deciding"
                 ELSE IF k.decs \o v # <<>> THEN "executing" ELSE "done")
      /\ n.batch = Tail(k.batch) /\ n.decs = k.decs \o v
      /\ n.done = k.done /\ n.chk = k.chk /\ n.chkLife = k.chkLife /\ n.why = k.why
      /\ DOMAIN n = DOMAIN k
  BY <1>4, <1>6 DEF Shape
<1>9. k.batch \in Seq(Signals) /\ k.batch # <<>> /\ k.decs \in Seq(Decision) /\ k.done = {} /\ k.why = "none"
  BY <1>2, <1>4 DEF Shape
<1>10. /\ Head(k.batch) \in Signals /\ PassedIn(Head(k.batch), k) /\ n.batch \in Seq(Signals)
       /\ \A i \in 1..Len(n.batch) : PassedIn(n.batch[i], k)
  BY <1>4, <1>8, <1>9, HeadTail DEF CycleInv
<1>11. /\ v \in Seq(Decision)
       /\ \A i \in 1..Len(v) : /\ v[i].sig = Head(k.batch)
                               /\ v[i].by # "ai" => v[i].amt = Head(k.batch).amt /\ Head(k.batch).amt <= Threshold
  BY <1>10, VerdictOf
<1>12. \A i \in 1..Len(v) : SoundDecision(v[i], k)
  BY <1>10, <1>11 DEF SoundDecision
<1>13. n.decs \in Seq(Decision) /\ \A i \in 1..Len(n.decs) : SoundDecision(n.decs[i], k)
  <2>1. \A i \in 1..Len(k.decs) : SoundDecision(k.decs[i], k)
    BY <1>4 DEF CycleInv
  <2>2. ASSUME NEW i \in 1..Len(n.decs) PROVE SoundDecision(n.decs[i], k)
    <3>1. CASE i \in 1..Len(k.decs)
      BY <1>8, <1>9, <1>11, <2>1, <3>1
    <3>2. CASE i \notin 1..Len(k.decs)
      <4>1. PICK j : j = i - Len(k.decs)
        OBVIOUS
      <4>2. j \in 1..Len(v) /\ n.decs[i] = v[j]
        BY <1>8, <1>9, <1>11, <3>2, <4>1
      <4> QED BY <1>12, <4>2
    <3> QED BY <3>1, <3>2
  <2> QED BY <1>8, <1>9, <1>11, <2>2
<1>14. ASSUME n.pc # "done" PROVE (CycleInv(n))'
  <2>1. /\ n.pc \in {"deciding", "executing"}
        /\ n.pc = "deciding" => n.batch # <<>>
        /\ n.pc = "executing" => n.decs # <<>>
    BY <1>8, <1>14
  <2>2. Shape(n)
    BY <1>4, <1>8, <1>9, <1>10, <1>13, <2>1 DEF Shape
  <2>3. \A s : PassedIn(s, k) => PassedIn(s, n)
    BY <1>8 DEF PassedIn
  <2>4. \A d : SoundDecision(d, k) => SoundDecision(d, n)
    BY <2>3 DEF SoundDecision
  <2>5. CycleInv(n)
    BY <1>4, <1>8, <1>10, <1>13, <2>2, <2>3, <2>4 DEF CycleInv
  <2> QED BY <1>3, <2>5, CycleStays
<1>15. CyclesInv' /\ \A d \in Cycles : d # c => cyc'[d] = cyc[d]
  BY <1>3, <1>7, <1>14, CycleGoes
<1>16. ReceiptsInv'
  BY <1>1, <1>2, <1>15, QuietCycle
<1>17. PromisedInv'
  BY <1>2, <1>3, PromisedStays DEF LoopInv
<1> QED BY <1>3, <1>15, <1>16, <1>17 DEF LoopInv

\* What the execution of one decision makes of its cycle and of the orders.
LEMMA ExecuteOutcome ==
  ASSUME LoopInv, NEW c \in Cycles, Execute(c), NEW k, k = cyc[c]
  PROVE  \E d, r, n, done :
           /\ d \in Decision /\ d = Head(k.decs)
           /\ r \in Results(d.sig)
           /\ done = k.done \cup (IF r.out = "receipt" THEN {d.sig.tok} ELSE {})
           /\ orders' = orders \cup (IF r.placed \/ r.out = "receipt" THEN {OrderOf(c, d, r)} ELSE {})
           /\ n = IF r.out = "throws" THEN Over("threw")
                  ELSE [k EXCEPT !.decs = Tail(k.decs), !.done = done,
                                 !.pc = IF Tail(k.decs) # <<>> THEN "executing"
                                        ELSE IF done # {} THEN "recording" ELSE "done"]
           /\ Goes(c, n)
<1>1. k.decs \in Seq(Decision) /\ k.decs # <<>>
  BY DEF Execute, LoopInv, CyclesInv, CycleInv, Shape
<1>2. PICK d \in Decision : d = Head(k.decs)
  BY <1>1, HeadTail
<1>3. PICK r \in Results(d.sig) :
        /\ orders' = orders \cup (IF r.placed \/ r.out = "receipt" THEN {OrderOf(c, d, r)} ELSE {})
        /\ Goes(c, IF r.out = "throws" THEN Over("threw")
                   ELSE [k EXCEPT !.decs = Tail(k.decs),
                                  !.done = k.done \cup (IF r.out = "receipt" THEN {d.sig.tok} ELSE {}),
                                  !.pc = IF Tail(k.decs) # <<>> THEN "executing"
                                         ELSE IF k.done \cup (IF r.out = "receipt" THEN {d.sig.tok} ELSE {}) # {}
                                              THEN "recording" ELSE "done"])
  BY <1>2 DEF Execute
<1>4. PICK done : done = k.done \cup (IF r.out = "receipt" THEN {d.sig.tok} ELSE {})
  OBVIOUS
<1>5. PICK n : n = IF r.out = "throws" THEN Over("threw")
                   ELSE [k EXCEPT !.decs = Tail(k.decs), !.done = done,
                                  !.pc = IF Tail(k.decs) # <<>> THEN "executing"
                                         ELSE IF done # {} THEN "recording" ELSE "done"]
  OBVIOUS
<1>6. Goes(c, n)
  BY <1>3, <1>4, <1>5
<1> QED BY <1>2, <1>3, <1>4, <1>5, <1>6

\* A swap is sent.
LEMMA ExecuteInv ==
  ASSUME LoopInv, NEW c \in Cycles, Execute(c) PROVE LoopInv'
<1>1. PICK k : k = cyc[c]
  OBVIOUS
<1>2. k.pc = "executing" /\ UNCHANGED <<life, last, recs, now>>
  BY <1>1 DEF Execute
<1>3. RecordsInv' /\ Onward /\ RecordsInv
  BY <1>2, RecordsStay DEF LoopInv
<1>4. CycleInv(k) /\ Shape(k)
  BY <1>1 DEF LoopInv, CyclesInv, CycleInv
<1>5. PICK d, r, n, done :
           /\ d \in Decision /\ d = Head(k.decs)
           /\ r \in Results(d.sig)
           /\ done = k.done \cup (IF r.out = "receipt" THEN {d.sig.tok} ELSE {})
           /\ orders' = orders \cup (IF r.placed \/ r.out = "receipt" THEN {OrderOf(c, d, r)} ELSE {})
           /\ n = IF r.out = "throws" THEN Over("threw")
                  ELSE [k EXCEPT !.decs = Tail(k.decs), !.done = done,
                                 !.pc = IF Tail(k.decs) # <<>> THEN "executing"
                                        ELSE IF done # {} THEN "recording" ELSE "done"]
           /\ Goes(c, n)
  BY <1>1, ExecuteOutcome
<1>6. /\ k.decs \in Seq(Decision) /\ k.decs # <<>> /\ SoundDecision(d, k)
      /\ Tail(k.decs) \in Seq(Decision) /\ \A i \in 1..Len(Tail(k.decs)) : SoundDecision(Tail(k.decs)[i], k)
  <2>1. k.decs \in Seq(Decision) /\ k.decs # <<>>
    BY <1>2, <1>4 DEF Shape
  <2> QED BY <1>4, <1>5, <2>1, HeadTail DEF CycleInv
<1>7. ASSUME r.out # "throws"
      PROVE  /\ n.pc = (IF Tail(k.decs) # <<>> THEN "executing" ELSE IF done # {} THEN "recording" ELSE "done")
             /\ n.batch = k.batch /\ n.decs = Tail(k.decs) /\ n.done = done
             /\ n.chk = k.chk /\ n.chkLife = k.chkLife /\ n.why = k.why /\ DOMAIN n = DOMAIN k
  <2>1. n = [k EXCEPT !.decs = Tail(k.decs), !.done = done,
                      !.pc = IF Tail(k.decs) # <<>> THEN "executing"
                             ELSE IF done # {} THEN "recording" ELSE "done"]
    BY <1>5, <1>7
  <2> QED BY <1>4, <2>1 DEF Shape
<1>8. ASSUME r.out = "throws" PROVE n.pc = "done" /\ n.why = "threw"
  BY <1>5, <1>8 DEF Over, Bare
<1>9. ASSUME n.pc # "done" PROVE (CycleInv(n))'
  <2>1. r.out # "throws"
    BY <1>8, <1>9
  <2>2. Shape(n)
    BY <1>4, <1>6, <1>7, <1>9, <2>1 DEF Shape
  <2>3. \A s : PassedIn(s, k) => PassedIn(s, n)
    BY <1>7, <2>1 DEF PassedIn
  <2>4. \A e : SoundDecision(e, k) => SoundDecision(e, n)
    BY <2>3 DEF SoundDecision
  <2>5. CycleInv(n)
    BY <1>4, <1>6, <1>7, <2>1, <2>2, <2>3, <2>4 DEF CycleInv
  <2> QED BY <1>3, <2>5, CycleStays
<1>16. Goes(c, n)
  BY <1>5
<1>10. CyclesInv' /\ (\A e \in Cycles : e # c => cyc'[e] = cyc[e]) /\ cyc'[c].why = n.why /\ (n.pc # "done" => cyc'[c] = n)
  BY <1>3, <1>16, <1>9, CycleGoes
<1>11. PICK new : new = OrderOf(c, d, r)
  OBVIOUS
<1>12. /\ new.cyc = c /\ new.tok = d.sig.tok /\ new.amt = d.amt /\ new.asked = d.sig.amt /\ new.by = d.by
       /\ new.receipt = (r.out = "receipt") /\ new.chk = k.chk /\ new.chkLife = k.chkLife
  BY <1>1, <1>11, Zenon DEF OrderOf
<1>13. \A o \in orders' : o \in orders \/ (o = new /\ (r.placed \/ r.out = "receipt"))
  BY <1>5, <1>11
<1>14. PromisedInv'
  <2> SUFFICES ASSUME NEW o \in orders' PROVE
         /\ o.cyc \in Cycles /\ o.chk \in Int /\ o.chk <= now' /\ CooledFor(o.tok, o.chk, o.chkLife)'
         /\ o.by # "ai" => o.amt = o.asked /\ o.amt \in Nat /\ o.amt <= Threshold /\ o.amt <= MaxSize
    BY DEF PromisedInv
  <2>1. /\ o.cyc \in Cycles /\ o.chk \in Int /\ o.chk <= now /\ CooledFor(o.tok, o.chk, o.chkLife)
        /\ o.by # "ai" => o.amt = o.asked /\ o.amt \in Nat /\ o.amt <= Threshold /\ o.amt <= MaxSize
    <3>1. CASE o \in orders
      BY <3>1 DEF LoopInv, PromisedInv
    <3>2. CASE o = new
      <4>1. k.chk \in Int /\ k.chk <= now /\ CooledFor(d.sig.tok, k.chk, k.chkLife) /\ d.sig.amt <= MaxSize
        BY <1>4, <1>6 DEF CycleInv, SoundDecision, PassedIn
      <4>2. d.amt \in Nat /\ (d.by # "ai" => d.amt = d.sig.amt /\ d.amt <= Threshold)
        BY <1>5, <1>6 DEF SoundDecision, Decision
      <4> QED BY <1>12, <3>2, <4>1, <4>2
    <3> QED BY <1>13, <3>1, <3>2
  <2>2. CooledFor(o.tok, o.chk, o.chkLife)'
    BY <1>3, <2>1, CooledStays
  <2> QED BY <1>2, <2>1, <2>2
<1>15. ReceiptsInv'
  <2> SUFFICES ASSUME NEW o \in orders', o.receipt, cyc'[o.cyc].why = "none"
               PROVE  o.tok \in cyc'[o.cyc].done \/ \E e \in recs' : e.cyc = o.cyc /\ e.tok = o.tok
    BY DEF ReceiptsInv
  <2>1. CASE o.cyc # c
    <3>1. o \in orders /\ o.cyc \in Cycles
      BY <1>12, <1>13, <2>1 DEF LoopInv, PromisedInv
    <3>2. cyc'[o.cyc] = cyc[o.cyc]
      BY <1>10, <2>1, <3>1
    <3> QED BY <1>2, <3>1, <3>2 DEF LoopInv, ReceiptsInv
  <2>2. CASE o.cyc = c
    <3>1. r.out # "throws"
      BY <1>8, <1>10, <2>2
    <3>2. k.why = "none"
      BY <1>7, <1>10, <2>2, <3>1
    <3>3. o.tok \in done \/ \E e \in recs : e.cyc = o.cyc /\ e.tok = o.tok
      <4>1. CASE o \in orders
        BY <1>1, <1>5, <2>2, <3>2, <4>1 DEF LoopInv, ReceiptsInv
      <4>2. CASE o = new
        <5>1. r.out = "receipt"
          BY <1>12, <4>2, Zenon
        <5> QED BY <1>5, <1>12, <4>2, <5>1
      <4> QED BY <1>13, <4>1, <4>2
    <3>4. o.tok \in done => n.pc # "done" /\ n.done = done
      BY <1>7, <3>1
    <3> QED BY <1>2, <1>10, <2>2, <3>3, <3>4
  <2> QED BY <2>1, <2>2
<1> QED BY <1>3, <1>10, <1>14, <1>15 DEF LoopInv

\* A trade is recorded.
LEMMA RecordInv ==
  ASSUME LoopInv, NEW c \in Cycles, NEW t \in Tokens, Record(c, t) PROVE LoopInv'
<1>1. PICK k : k = cyc[c]
  OBVIOUS
<1>2. PICK done : done = k.done \ {t}
  OBVIOUS
<1>3. PICK n : n = [k EXCEPT !.done = done, !.pc = IF done = {} THEN "done" ELSE "recording"]
  OBVIOUS
<1>4. /\ k.pc = "recording" /\ t \in k.done
      /\ last' = [last EXCEPT ![t] = now]
      /\ recs' = recs \cup {[cyc |-> c, tok |-> t, at |-> now, life |-> life]}
      /\ Goes(c, n) /\ UNCHANGED <<now, life, orders>>
  BY <1>1, <1>2, <1>3 DEF Record, Recorded, Without
<1>5. CycleInv(k) /\ Shape(k) /\ RecordsInv
  BY <1>1 DEF LoopInv, CyclesInv, CycleInv
<1>6. PICK e : e = [cyc |-> c, tok |-> t, at |-> now, life |-> life]
  OBVIOUS
<1>7. e.cyc = c /\ e.tok = t /\ e.at = now /\ e.life = life /\ recs' = recs \cup {e}
  BY <1>4, <1>6
<1>8. RecordsInv'
  <2>1. last' \in [Tokens -> Nat \cup {Never}] /\ last'[t] = now
    BY <1>4, <1>5 DEF RecordsInv
  <2>2. \A u \in Tokens : u # t => last'[u] = last[u]
    BY <1>4, <1>5 DEF RecordsInv
  <2>3. now \in Nat /\ life \in Nat
    BY <1>5 DEF RecordsInv
  <2>4. ASSUME NEW r \in recs'
        PROVE  /\ r.tok \in Tokens /\ r.at \in 0..now /\ r.life \in Nat /\ r.life <= life
               /\ r.life = life => last'[r.tok] >= r.at
    <3>1. CASE r = e
      BY <1>7, <2>1, <2>3, <3>1
    <3>2. CASE r \in recs
      BY <1>5, <2>1, <2>2, <2>3, <3>2 DEF RecordsInv
    <3> QED BY <1>7, <3>1, <3>2
  <2>5. now' = now /\ life' = life
    BY <1>4
  <2> QED BY <2>1, <2>3, <2>4, <2>5 DEF RecordsInv
<1>9. Onward
  BY <1>4, <1>5, <1>7 DEF Onward, RecordsInv
<1>10. /\ n.pc = (IF done = {} THEN "done" ELSE "recording")
       /\ n.batch = k.batch /\ n.decs = k.decs /\ n.done = done
       /\ n.chk = k.chk /\ n.chkLife = k.chkLife /\ n.why = k.why /\ DOMAIN n = DOMAIN k
  BY <1>3, <1>5 DEF Shape
<1>11. ASSUME n.pc # "done" PROVE (CycleInv(n))'
  <2>1. Shape(n)
    BY <1>5, <1>10, <1>11 DEF Shape
  <2>2. CycleInv(n)
    BY <1>5, <1>10, <2>1 DEF CycleInv, PassedIn, SoundDecision
  <2> QED BY <1>5, <1>9, <2>2, CycleStays
<1>12. CyclesInv' /\ (\A d \in Cycles : d # c => cyc'[d] = cyc[d]) /\ cyc'[c].why = n.why /\ (n.pc # "done" => cyc'[c] = n)
  BY <1>4, <1>8, <1>9, <1>11, CycleGoes
<1>13. PromisedInv'
  BY <1>4, <1>5, <1>9, PromisedStays DEF LoopInv
<1>14. ReceiptsInv'
  <2>1. \A o \in orders : o.cyc \in Cycles
    BY DEF LoopInv, PromisedInv
  <2>2. \A u \in k.done : u \in cyc'[c].done \/ \E r \in recs' : r.cyc = c /\ r.tok = u
    <3> SUFFICES ASSUME NEW u \in k.done, u # t PROVE u \in cyc'[c].done
      BY <1>7
    <3> QED BY <1>2, <1>10, <1>12
  <2> QED BY <1>1, <1>4, <1>7, <1>10, <1>12, <2>1, <2>2, ReceiptsStay DEF LoopInv
<1> QED BY <1>8, <1>12, <1>13, <1>14 DEF LoopInv

\* Recording it fails.
LEMMA RecordFailsInv ==
  ASSUME LoopInv, NEW c \in Cycles, NEW t \in Tokens, RecordFails(c, t) PROVE LoopInv'
<1>1. PICK k : k = cyc[c]
  OBVIOUS
<1>2. PICK done : done = k.done \ {t}
  OBVIOUS
<1>3. PICK n : n = [k EXCEPT !.done = done, !.why = "unrecorded",
                             !.pc = IF k.done = {t} THEN "done" ELSE "recording"]
  OBVIOUS
<1>4. /\ k.pc = "recording" /\ t \in k.done /\ UNCHANGED <<now, life, last, orders, recs>>
      /\ Goes(c, [k EXCEPT !.done = @ \ {t}, !.why = "unrecorded",
                           !.pc = IF k.done = {t} THEN "done" ELSE "recording"])
  BY <1>1 DEF RecordFails
<1>5. Goes(c, n)
  BY <1>2, <1>3, <1>4
<1>6. CycleInv(k) /\ Shape(k) /\ RecordsInv /\ RecordsInv' /\ Onward
  BY <1>1, <1>4, RecordsStay DEF LoopInv, CyclesInv, CycleInv
<1>7. /\ n.pc = (IF k.done = {t} THEN "done" ELSE "recording")
      /\ n.batch = k.batch /\ n.decs = k.decs /\ n.done = done
      /\ n.chk = k.chk /\ n.chkLife = k.chkLife /\ n.why = "unrecorded" /\ DOMAIN n = DOMAIN k
  BY <1>3, <1>6 DEF Shape
<1>8. ASSUME n.pc # "done" PROVE (CycleInv(n))'
  <2>1. Shape(n)
    BY <1>6, <1>7, <1>8 DEF Shape
  <2>2. CycleInv(n)
    BY <1>6, <1>7, <2>1 DEF CycleInv, PassedIn, SoundDecision
  <2> QED BY <1>6, <2>2, CycleStays
<1>9. CyclesInv' /\ (\A d \in Cycles : d # c => cyc'[d] = cyc[d]) /\ cyc'[c].why = n.why
  BY <1>5, <1>6, <1>8, CycleGoes
<1>10. ReceiptsInv'
  <2>1. \A o \in orders : o.cyc \in Cycles
    BY DEF LoopInv, PromisedInv
  <2>2. cyc'[c].why # "none"
    BY <1>7, <1>9
  <2> QED BY <1>4, <1>9, <2>1, <2>2, ReceiptsStay DEF LoopInv
<1>11. PromisedInv'
  BY <1>4, <1>6, PromisedStays DEF LoopInv
<1> QED BY <1>6, <1>9, <1>10, <1>11 DEF LoopInv

\* Steps of no cycle: the cycles stand as they are.
LEMMA CyclesStay ==
  ASSUME LoopInv, Onward, RecordsInv', UNCHANGED <<cyc, orders, recs>> PROVE LoopInv'
<1>1. \A c \in Cycles : (CycleInv(cyc[c]))'
  <2> SUFFICES ASSUME NEW c \in Cycles PROVE (CycleInv(cyc[c]))'
    OBVIOUS
  <2>1. PICK k : k = cyc[c]
    OBVIOUS
  <2>2. CycleInv(k) /\ RecordsInv /\ k = cyc'[c]
    BY <2>1 DEF LoopInv, CyclesInv
  <2>3. CycleInv(k)'
    BY <2>2, CycleStays
  <2> QED BY <2>2, <2>3
<1>2. CyclesInv'
  <2>1. cyc' = [c \in Cycles |-> cyc'[c]]
    BY DEF LoopInv, CyclesInv
  <2> QED BY <1>1, <2>1 DEF CyclesInv
<1>3. PromisedInv' /\ ReceiptsInv'
  BY PromisedStays DEF LoopInv, ReceiptsInv
<1> QED BY <1>2, <1>3 DEF LoopInv

\* Python starts again.
LEMMA PythonRestartsInv == LoopInv /\ PythonRestarts => LoopInv'
<1> SUFFICES ASSUME LoopInv, PythonRestarts PROVE LoopInv'
  OBVIOUS
<1>1. RecordsInv /\ life' = life + 1 /\ last' = [t \in Tokens |-> Never] /\ UNCHANGED <<cyc, orders, recs, now>>
  BY DEF PythonRestarts, LoopInv
<1>2. Onward
  BY <1>1 DEF Onward, RecordsInv
<1>3. RecordsInv'
  BY <1>1 DEF RecordsInv, Never
<1> QED BY <1>1, <1>2, <1>3, CyclesStay

\* A minute passes.
LEMMA MinuteInv == LoopInv /\ Minute => LoopInv'
<1> SUFFICES ASSUME LoopInv, Minute PROVE LoopInv'
  OBVIOUS
<1>1. RecordsInv /\ now' = now + 1 /\ UNCHANGED <<cyc, orders, recs, life, last>>
  BY DEF Minute, LoopInv
<1>2. Onward
  BY <1>1 DEF Onward, RecordsInv
<1>3. RecordsInv'
  BY <1>1 DEF RecordsInv
<1> QED BY <1>1, <1>2, <1>3, CyclesStay

\* The loop starts again.
LEMMA LoopRestartsInv == LoopInv /\ LoopRestarts => LoopInv'
<1> SUFFICES ASSUME LoopInv, LoopRestarts PROVE LoopInv'
  OBVIOUS
<1>1. RecordsInv /\ cyc' = [c \in Cycles |-> IF c \in Active THEN Over("died") ELSE cyc[c]]
      /\ UNCHANGED <<orders, recs, now, life, last>>
  BY DEF LoopRestarts, LoopInv
<1>2. Onward /\ RecordsInv'
  BY <1>1, RecordsStay
<1>3. PICK over : over = Over("died")
  OBVIOUS
<1>4. over.why = "died" /\ CycleInv(over)
  BY <1>1, <1>3, EmptyRecord DEF Over
<1>5. \A c \in Cycles : (CycleInv(cyc[c]))'
  <2> SUFFICES ASSUME NEW c \in Cycles PROVE (CycleInv(cyc[c]))'
    OBVIOUS
  <2>1. PICK k : k = cyc'[c]
    OBVIOUS
  <2>2. CycleInv(k)
    BY <1>1, <1>3, <1>4, <2>1 DEF LoopInv, CyclesInv
  <2>3. CycleInv(k)'
    BY <1>1, <1>2, <2>2, CycleStays
  <2> QED BY <2>1, <2>3
<1>6. CyclesInv'
  BY <1>1, <1>5 DEF CyclesInv
<1>7. PromisedInv'
  BY <1>1, <1>2, PromisedStays DEF LoopInv
<1>8. ReceiptsInv'
  <2> SUFFICES ASSUME NEW o \in orders, o.receipt, cyc'[o.cyc].why = "none"
               PROVE  o.tok \in cyc'[o.cyc].done \/ \E r \in recs : r.cyc = o.cyc /\ r.tok = o.tok
    BY <1>1 DEF ReceiptsInv
  <2>1. o.cyc \in Cycles
    BY DEF LoopInv, PromisedInv
  <2>2. cyc'[o.cyc] = cyc[o.cyc]
    BY <1>1, <1>3, <1>4, <2>1
  <2> QED BY <2>2 DEF LoopInv, ReceiptsInv
<1> QED BY <1>2, <1>6, <1>7, <1>8 DEF LoopInv

\* Before the first poll.
LEMMA LoopInit == Init => LoopInv
<1> SUFFICES ASSUME Init PROVE LoopInv
  OBVIOUS
<1>1. RecordsInv
  BY DEF Init, RecordsInv, Never
<1>2. PICK k : k = NoCycle
  OBVIOUS
<1>3. CycleInv(k)
  BY <1>1, <1>2, EmptyRecord DEF NoCycle
<1>4. CyclesInv
  BY <1>2, <1>3 DEF Init, CyclesInv
<1> QED BY <1>1, <1>4 DEF Init, LoopInv, PromisedInv, ReceiptsInv

\* Every step keeps the invariant.
LEMMA LoopStep == LoopInv /\ [Next]_vars => LoopInv'
<1> SUFFICES ASSUME LoopInv, [Next]_vars PROVE LoopInv'
  OBVIOUS
<1>1. ASSUME NEW c \in Cycles, Poll(c) PROVE LoopInv'
  BY <1>1, PollInv
<1>2. ASSUME NEW c \in Cycles, Continues(c) PROVE LoopInv'
  BY <1>2, CheckInv, CheckFailsInv, DecideInv, ExecuteInv, RecordInv, RecordFailsInv DEF Continues
<1>3. ASSUME UNCHANGED vars PROVE LoopInv'
  <2>1. RecordsInv' /\ Onward
    BY <1>3, RecordsStay DEF vars, LoopInv
  <2> QED BY <1>3, <2>1, CyclesStay DEF vars
<1> QED BY <1>1, <1>2, <1>3, PythonRestartsInv, LoopRestartsInv, MinuteInv DEF Next

\* The invariant of the loop holds in every behaviour.
THEOREM LoopSound == Spec => []LoopInv
<1> QED BY LoopInit, LoopStep, PTL DEF Spec

\* Whatever cycles overlap, a token traded and recorded is left alone for its cooldown.
THEOREM CooldownsHold == Spec => []CooldownKept
<1>1. LoopInv => CooldownKept
  BY DEF LoopInv, PromisedInv, CooledFor, CooldownKept
<1> QED BY <1>1, LoopSound, PTL

\* No trade with a receipt is lost by a cycle that ends as it should.
THEOREM TradesAreRecorded == Spec => []TradesRecorded
<1>1. LoopInv => TradesRecorded
  <2> SUFFICES ASSUME LoopInv, NEW o \in orders, o.receipt, Ended(o.cyc), cyc[o.cyc].why = "none"
               PROVE  \E r \in recs : r.cyc = o.cyc /\ r.tok = o.tok
    BY DEF TradesRecorded
  <2>1. o.cyc \in Cycles
    BY DEF LoopInv, PromisedInv
  <2>2. cyc[o.cyc].done = {}
    BY <2>1 DEF LoopInv, CyclesInv, CycleInv, Shape, Ended
  <2> QED BY <2>2 DEF LoopInv, ReceiptsInv
<1> QED BY <1>1, LoopSound, PTL

\* Where a venue counts dollars, an order is worth the amount that was decided on.
DollarsInv == \A o \in orders : ~CountsUnits(o.side) => o.worth = o.amt

\* No step changes the venue, and only Execute adds an order.
LEMMA DollarsStep == DollarsInv /\ [Next]_vars => DollarsInv'
<1> SUFFICES ASSUME DollarsInv, [Next]_vars PROVE DollarsInv'
  OBVIOUS
<1>1. ASSUME venue' = venue, orders' = orders PROVE DollarsInv'
  BY <1>1 DEF DollarsInv, CountsUnits
<1>2. ASSUME NEW c \in Cycles, Execute(c) PROVE DollarsInv'
  <2>1. PICK d, r : orders' \subseteq orders \cup {OrderOf(c, d, r)}
    BY <1>2 DEF Execute
  <2>2. PICK new : new = OrderOf(c, d, r)
    OBVIOUS
  <2>3. new.side = d.sig.side /\ new.amt = d.amt /\ new.worth = DollarsOf(d)
    BY <2>2 DEF OrderOf
  <2>4. ~CountsUnits(new.side) => new.worth = new.amt
    BY <2>3 DEF DollarsOf
  <2>5. venue' = venue
    BY <1>2 DEF Execute
  <2> QED BY <2>1, <2>2, <2>4, <2>5 DEF DollarsInv, CountsUnits
<1>3. ASSUME NEW c \in Cycles, Poll(c) \/ Check(c) \/ CheckFails(c) \/ Decide(c) PROVE DollarsInv'
  BY <1>1, <1>3 DEF Poll, Check, CheckFails, Decide
<1>4. ASSUME NEW c \in Cycles, NEW t \in Tokens, Record(c, t) \/ RecordFails(c, t) PROVE DollarsInv'
  BY <1>1, <1>4 DEF Record, RecordFails
<1>5. ASSUME PythonRestarts \/ LoopRestarts \/ Minute \/ UNCHANGED vars PROVE DollarsInv'
  BY <1>1, <1>5 DEF PythonRestarts, LoopRestarts, Minute, vars
<1> QED BY <1>2, <1>3, <1>4, <1>5 DEF Next, Continues

\* No large or altered order without a model's word, and none of greater worth at a venue
\* that is told dollars.
THEOREM LargeOrdersAreApproved == Spec => []LargeOrdersApproved
<1>1. LoopInv /\ DollarsInv => LargeOrdersApproved
  BY LoopConstants DEF LoopInv, PromisedInv, DollarsInv, LargeOrdersApproved
<1>2. Init => DollarsInv
  BY DEF Init, DollarsInv
<1>3. Spec => []DollarsInv
  BY <1>2, DollarsStep, PTL DEF Spec
<1> QED BY <1>1, <1>3, LoopSound, PTL

-----------------------------------------------------------------------------
(* The strategies *)

\* What a strategy of the swing kind says of a token: a purchase, or a sale of what is held.
OneSided(a, t, signals) ==
  /\ \A s \in signals : s.tok = t
  /\ \A s, r \in signals : s.side = r.side
  /\ \A s \in signals : s.side = "SELL" /\ s.sized => Some(a, t)

\* What the fields of a signal are.
LEMMA SignalFields ==
  \A t : /\ \A s \in Buy(t) : s.tok = t /\ s.side = "BUY" /\ s.sized
         /\ \A s \in Sell(t) : s.tok = t /\ s.side = "SELL" /\ s.sized
         /\ \A u : \A s \in Unsized(t, u) : s.tok = t /\ s.side = u /\ ~s.sized
BY DEF Buy, Sell, Unsized

\* A strategy without position asks for one side.
LEMMA PlainOneSided ==
  ASSUME NEW a, NEW t
  PROVE  /\ OneSided(a, t, {}) /\ OneSided(a, t, Buy(t))
         /\ Some(a, t) => OneSided(a, t, Sell(t))
         /\ \A u : OneSided(a, t, Unsized(t, u))
         /\ \A x, y : OneSided(a, t, x) /\ y \subseteq x => OneSided(a, t, y)
BY SignalFields DEF OneSided

\* The swing strategy asks for one side.
LEMMA SwingOneSided ==
  ASSUME NEW a, NEW t, NEW o, NEW up, NEW down
  PROVE  OneSided(a, t, Swing(a, t, o, up, down))
BY PlainOneSided DEF Swing, Held, Some

\* Every strategy that looks at one token after the other, but two, keeps to one side of it
\* and sizes a sale only of what is held.
LEMMA EachOneSided ==
  ASSUME NEW a, NEW t, NEW o, strategy \in Classes,
         strategy \notin {"limit_orders", "volatility_scalp", "spread_arb", "opener", "rebalance"}
  PROVE  OneSided(a, t, SignalsFor(a, t, o))
<1>1. CASE strategy = "dca"
  BY <1>1, PlainOneSided DEF SignalsFor, Dca
<1>2. CASE strategy = "trend_swap"
  BY <1>2, PlainOneSided DEF SignalsFor, TrendSwap
<1>3. CASE strategy = "mean_reversion"
  BY <1>3, PlainOneSided DEF SignalsFor, MeanReversion
<1>4. CASE strategy = "momentum"
  BY <1>4, PlainOneSided DEF SignalsFor, Momentum
<1>5. CASE strategy = "rsi_divergence"
  BY <1>5, PlainOneSided DEF SignalsFor, RsiDivergence
<1>6. CASE strategy = "price_change"
  BY <1>6, PlainOneSided, SwingOneSided DEF SignalsFor, PriceChange
<1>7. CASE strategy = "rsi_extreme"
  BY <1>7, SwingOneSided DEF SignalsFor, RsiExtreme
<1>8. CASE strategy = "volume_spike"
  BY <1>8, SwingOneSided DEF SignalsFor, VolumeSpike
<1>9. CASE strategy = "candle_pattern"
  BY <1>9, SwingOneSided DEF SignalsFor, CandlePattern
<1>10. CASE strategy = "hi_lo_breakout"
  BY <1>10, SwingOneSided DEF SignalsFor, HiLoBreakout
<1>11. CASE strategy = "take_profit"
  BY <1>11, PlainOneSided DEF SignalsFor, TakeProfit, Held, Some
<1> QED
  BY <1>1, <1>2, <1>3, <1>4, <1>5, <1>6, <1>7, <1>8, <1>9, <1>10, <1>11 DEF Classes

\* The scalper may see a breakout and a reversion at once, but sells only what is held.
LEMMA ScalpBacked ==
  ASSUME NEW a, NEW t, NEW o, NEW s \in VolatilityScalp(a, t, o)
  PROVE  s.tok = t /\ (s.side = "SELL" /\ s.sized => Some(a, t))
BY SignalFields DEF VolatilityScalp, Held, Some

\* The rebalancer asks for one side of a target, and sells what counts as held.
LEMMA RebalanceBacked ==
  ASSUME NEW a, NEW seen, NEW o, NEW s \in Rebalance(a, seen, o)
  PROVE  /\ s.side = "SELL" => s.tok \in {Native, Stable} \/ Some(a, s.tok)
         /\ \A r \in Rebalance(a, seen, o) : r.tok = s.tok => r.side = s.side
<1>1. \A r \in UNION {Buy(t) : t \in Lacking(o)} : r.side = "BUY" /\ r.tok \in Lacking(o)
  BY SignalFields
<1>2. \A r \in UNION {Sell(t) : t \in Excess(a, seen, o)} : r.side = "SELL" /\ r.tok \in Excess(a, seen, o)
  BY SignalFields
<1>3. \A r \in Rebalance(a, seen, o) : \/ r.side = "BUY" /\ r.tok \in Lacking(o)
                                       \/ r.side = "SELL" /\ r.tok \in Excess(a, seen, o)
  BY <1>1, <1>2 DEF Rebalance
<1>4. \A t : ~(t \in Lacking(o) /\ t \in Excess(a, seen, o))
  BY DEF Lacking, Excess
<1>5. \A t \in Excess(a, seen, o) : t \in {Native, Stable} \/ Some(a, t)
  BY DEF Excess, Counted
<1> QED BY <1>3, <1>4, <1>5

\* The signals of a call of agent a.
LEMMA CallBacked ==
  ASSUME NEW a, NEW seen, NEW o, strategy \in Classes, NEW s \in SignalsOf(a, seen, o)
  PROVE  /\ strategy # "limit_orders" /\ s.side = "SELL" /\ s.sized
              => (strategy = "rebalance" /\ s.tok \in {Native, Stable}) \/ Some(a, s.tok)
         /\ strategy \notin {"limit_orders", "volatility_scalp"} =>
              \A r \in SignalsOf(a, seen, o) : r.tok = s.tok => r.side = s.side
<1>1. CASE strategy = "spread_arb"
  <2>1. PICK cheap, dear : cheap = (IF "aDear" \in o THEN TokenB ELSE TokenA)
                           /\ dear = (IF "aDear" \in o THEN TokenA ELSE TokenB)
    OBVIOUS
  <2>2. cheap # dear
    BY <2>1, StrategyConstants
  <2>3. SignalsOf(a, seen, o) \subseteq Buy(cheap) \cup (IF Held(a, dear) THEN Sell(dear) ELSE {})
    BY <1>1, <2>1 DEF SignalsOf, SpreadArb
  <2>4. \A r \in SignalsOf(a, seen, o) : \/ r.tok = cheap /\ r.side = "BUY"
                                         \/ r.tok = dear /\ r.side = "SELL" /\ Held(a, dear)
    BY <2>3, SignalFields
  <2> QED BY <2>2, <2>4 DEF Held, Some
<1>2. CASE strategy = "opener"
  <2>1. SignalsOf(a, seen, o) \subseteq UNION {Buy(t) : t \in seen \cap o}
    BY <1>2 DEF SignalsOf, Opener
  <2>2. \A r \in SignalsOf(a, seen, o) : r.side = "BUY"
    BY <2>1, SignalFields
  <2> QED BY <2>2
<1>3. CASE strategy = "rebalance"
  <2>1. SignalsOf(a, seen, o) = Rebalance(a, seen, o)
    BY <1>3 DEF SignalsOf
  <2> QED BY <1>3, <2>1, RebalanceBacked
<1>4. CASE strategy \notin {"spread_arb", "opener", "rebalance"}
  <2>1. SignalsOf(a, seen, o) = UNION {SignalsFor(a, t, o) : t \in seen}
    BY <1>4 DEF SignalsOf
  <2>2. CASE strategy = "limit_orders"
    BY <2>2
  <2>3. CASE strategy = "volatility_scalp"
    <3>1. \A t : SignalsFor(a, t, o) = VolatilityScalp(a, t, o)
      BY <2>3 DEF SignalsFor
    <3> QED BY <2>1, <2>3, <3>1, ScalpBacked
  <2>4. CASE strategy \notin {"limit_orders", "volatility_scalp"}
    <3>1. \A t : OneSided(a, t, SignalsFor(a, t, o))
      BY <1>4, <2>4, EachOneSided
    <3> QED BY <2>1, <3>1 DEF OneSided
  <2> QED BY <2>2, <2>3, <2>4
<1> QED BY <1>1, <1>2, <1>3, <1>4

-----------------------------------------------------------------------------
(* The strategies' state over any calls of any agents. *)

\* price_change's memory is the run it really signalled, and that run is short.
RunsKept ==
  \A t \in StrategyTokens :
    streak[t].side = side[t] /\ streak[t].len = times[t] /\ times[t] \in 0..MaxConsecutive

StrategyInv == strategy \in Classes /\ RunsKept /\ SalesBacked

\* What price_change signals is not held back by its throttle.
LEMMA MarkedFree ==
  ASSUME NEW a, NEW seen, NEW o, strategy = "price_change", NEW t \in Signalled(SignalsOf(a, seen, o))
  PROVE  ~Throttled(t, SideOf(SignalsOf(a, seen, o), t))
<1>1. PICK out : out = SignalsOf(a, seen, o)
  OBVIOUS
<1>2. out = UNION {PriceChange(a, u, o) : u \in seen}
  BY <1>1 DEF SignalsOf, SignalsFor
<1>3. \A u : \A s \in PriceChange(a, u, o) : s.tok = u /\ ~Throttled(u, s.side)
  BY SwingOneSided DEF PriceChange, OneSided
<1>4. \A s \in out : ~Throttled(s.tok, s.side)
  BY <1>2, <1>3
<1>5. PICK s : s = CHOOSE x \in out : x.tok = t
  OBVIOUS
<1>6. \E x \in out : x.tok = t
  BY <1>1 DEF Signalled
<1>7. s \in out /\ s.tok = t
  BY <1>5, <1>6
<1>8. SideOf(out, t) = s.side
  BY <1>5 DEF SideOf
<1> QED BY <1>1, <1>4, <1>7, <1>8

\* The parts of a call, named.
Asked(a, seen, o, out, marked) ==
  /\ out = SignalsOf(a, seen, o)
  /\ marked = IF strategy = "price_change" THEN Signalled(out) ELSE {}
  /\ batch' = {[who |-> a, tok |-> s.tok, side |-> s.side, sized |-> s.sized] : s \in out}
  /\ side' = [t \in StrategyTokens |-> IF t \in marked THEN SideOf(out, t) ELSE side[t]]
  /\ times' = [t \in StrategyTokens |-> IF t \in marked THEN NextTimes(t, SideOf(out, t)) ELSE times[t]]
  /\ streak' = [t \in StrategyTokens |->
       IF t \notin marked THEN streak[t]
       ELSE [side |-> SideOf(out, t),
             len |-> IF streak[t].side = SideOf(out, t) THEN streak[t].len + 1 ELSE 1]]
  /\ UNCHANGED <<strategy, pos>>

\* What a call of a strategy may do.
LEMMA AskParts ==
  ASSUME NEW a \in Agents, Ask(a)
  PROVE  \E seen, o, out, marked : Asked(a, seen, o, out, marked)
<1>1. PICK seen \in SUBSET StrategyTokens, o \in Readings :
        Asked(a, seen, o, SignalsOf(a, seen, o),
              IF strategy = "price_change" THEN Signalled(SignalsOf(a, seen, o)) ELSE {})
  BY Zenon DEF Ask, Asked
<1> QED BY <1>1

\* A call of a strategy keeps the invariant.
LEMMA AskInv ==
  ASSUME StrategyInv, NEW a \in Agents, Ask(a) PROVE StrategyInv'
<1>1. PICK seen, o, out, marked : Asked(a, seen, o, out, marked)
  BY AskParts
<1>2. UNCHANGED <<strategy, pos>> /\ strategy \in Classes
  BY <1>1 DEF Asked, StrategyInv
<1>3. RunsKept'
  <2> SUFFICES ASSUME NEW t \in StrategyTokens
               PROVE  streak'[t].side = side'[t] /\ streak'[t].len = times'[t] /\ times'[t] \in 0..MaxConsecutive
    BY DEF RunsKept
  <2>1. streak[t].side = side[t] /\ streak[t].len = times[t] /\ times[t] \in 0..MaxConsecutive
    BY DEF StrategyInv, RunsKept
  <2>2. CASE t \notin marked
    BY <1>1, <2>1, <2>2 DEF Asked
  <2>3. CASE t \in marked
    <3>1. PICK s : s = SideOf(out, t)
      OBVIOUS
    <3>2. ~Throttled(t, s)
      BY <1>1, <2>3, <3>1, MarkedFree DEF Asked
    <3>3. side'[t] = s /\ times'[t] = (IF side[t] = s THEN times[t] + 1 ELSE 1)
      BY <1>1, <2>3, <3>1 DEF Asked, NextTimes
    <3>4. streak'[t].side = s /\ streak'[t].len = (IF streak[t].side = s THEN streak[t].len + 1 ELSE 1)
      BY <1>1, <2>3, <3>1 DEF Asked
    <3>5. side[t] = s => times[t] < MaxConsecutive
      BY <2>1, <3>2, StrategyConstants DEF Throttled
    <3> QED BY <2>1, <3>3, <3>4, <3>5, StrategyConstants
  <2> QED BY <2>2, <2>3
<1>4. \A b \in batch' : b.who = a /\ \E s \in out : b.tok = s.tok /\ b.side = s.side /\ b.sized = s.sized
  BY <1>1 DEF Asked
<1>5. \A t : Some(a, t)' <=> Some(a, t)
  BY <1>2 DEF Some
<1>6. SalesBacked'
  <2> SUFFICES ASSUME NEW b \in batch'
               PROVE  /\ b.side = "SELL" /\ b.sized /\ strategy' # "limit_orders"
                           => (strategy' = "rebalance" /\ b.tok \in {Native, Stable}) \/ Some(b.who, b.tok)'
                      /\ strategy' \notin {"limit_orders", "volatility_scalp"}
                           => \A r \in batch' : r.tok = b.tok => r.side = b.side
    BY DEF SalesBacked
  <2>1. PICK s \in out : b.who = a /\ b.tok = s.tok /\ b.side = s.side /\ b.sized = s.sized
    BY <1>4
  <2>2. s \in SignalsOf(a, seen, o) /\ out = SignalsOf(a, seen, o)
    BY <1>1 DEF Asked
  <2>3. /\ strategy # "limit_orders" /\ s.side = "SELL" /\ s.sized
           => (strategy = "rebalance" /\ s.tok \in {Native, Stable}) \/ Some(a, s.tok)
        /\ strategy \notin {"limit_orders", "volatility_scalp"} => \A r \in out : r.tok = s.tok => r.side = s.side
    BY <1>2, <2>2, CallBacked
  <2> QED BY <1>2, <1>4, <1>5, <2>1, <2>3
<1> QED BY <1>2, <1>3, <1>6 DEF StrategyInv

\* Whatever else happens ends the last call's signals and leaves the memories alone.
LEMMA RestKeeps ==
  ASSUME StrategyInv, batch' = {}, UNCHANGED <<strategy, side, times, streak>>
  PROVE  StrategyInv'
BY DEF StrategyInv, RunsKept, SalesBacked

\* Every step keeps the invariant.
LEMMA StrategyStep ==
  ASSUME StrategyInv, [StrategyNext]_stratVars PROVE StrategyInv'
<1>1. ASSUME NEW a \in Agents, Ask(a) PROVE StrategyInv'
  BY <1>1, AskInv
<1>2. ASSUME NEW a \in Agents, Spends(a) PROVE StrategyInv'
  BY <1>2, RestKeeps DEF Spends
<1>3. ASSUME NEW a \in Agents, NEW t \in StrategyTokens, Trades(a, t) PROVE StrategyInv'
  BY <1>3, RestKeeps DEF Trades
<1>4. ASSUME NEW t \in StrategyTokens, Moves(t) PROVE StrategyInv'
  BY <1>4, RestKeeps DEF Moves
<1>5. CASE NewSeason
  BY <1>5, RestKeeps DEF NewSeason
<1>6. CASE UNCHANGED stratVars
  BY <1>6 DEF stratVars, StrategyInv, RunsKept, SalesBacked, Some
<1> QED BY <1>1, <1>2, <1>3, <1>4, <1>5, <1>6 DEF StrategyNext

\* Before the first call.
LEMMA StrategyStart == StrategyInit => StrategyInv
BY StrategyConstants DEF StrategyInit, StrategyInv, RunsKept, SalesBacked

\* Runs stay short and sales are backed, for any agents and tokens, any prices, and any order
\* of calls, trades and seasons.
THEOREM StrategiesSound == StrategySpec => [](RunsAreShort /\ SalesBacked)
<1>1. StrategyInv => RunsAreShort /\ SalesBacked
  BY StrategyConstants DEF StrategyInv, RunsKept, RunsAreShort
<1> QED BY <1>1, StrategyStart, StrategyStep, PTL DEF StrategySpec

-----------------------------------------------------------------------------
(* The backtest *)

-----------------------------------------------------------------------------
(* Division, as the fills use it. *)

\* Products of naturals are naturals,
LEMMA TimesNat == \A a, b \in Nat : a * b \in Nat
OBVIOUS

\* and grow with each factor.
LEMMA TimesMonotone == \A a, b, c \in Nat : a <= b => c * a <= c * b
OBVIOUS

\* A quotient times its divisor.
LEMMA DivBound ==
  ASSUME NEW a \in Nat, NEW d \in Nat \ {0}
  PROVE  a \div d \in Nat /\ (a \div d) * d <= a /\ a \div d <= a
OBVIOUS

\* A part of x that is divided by d and by more than that is worth, d apiece, no more than x.
LEMMA QuotientWorth ==
  ASSUME NEW x \in Nat, NEW d \in Nat \ {0}, NEW s \in Nat \ {0}
  PROVE  /\ (x * s) \div (d * (s + 1)) \in Nat
         /\ ((x * s) \div (d * (s + 1))) * d <= x
<1>1. PICK n : n = x * s
  OBVIOUS
<1>2. PICK m : m = d * (s + 1)
  OBVIOUS
<1>3. n \in Nat /\ m \in Nat \ {0}
  BY <1>1, <1>2
<1>4. PICK q : q = n \div m
  OBVIOUS
<1>5. q \in Nat /\ q * m <= n
  BY <1>3, <1>4, DivBound
<1>6. q * m = (q * d) * (s + 1)
  BY <1>2, <1>5
<1>7. PICK w \in Nat : w = q * d
  BY <1>5
<1>8. w * (s + 1) <= x * s
  BY <1>1, <1>5, <1>6, <1>7
<1>9. w <= x
  <2> SUFFICES ASSUME x < w PROVE FALSE
    BY <1>7
  <2>1. x + 1 <= w
    BY <1>7
  <2>2. (x + 1) * (s + 1) <= w * (s + 1)
    BY <1>7, <2>1
  <2>3. (x + 1) * (s + 1) = x * s + x + s + 1
    OBVIOUS
  <2> QED BY <1>7, <1>8, <2>2, <2>3
<1> QED BY <1>1, <1>2, <1>4, <1>5, <1>7, <1>9

\* What is left of y when a part of s is taken off.
LEMMA PartTaken ==
  ASSUME NEW y \in Nat, NEW s \in Nat \ {0}
  PROVE  (y * (s - 1)) \div s \in Nat /\ (y * (s - 1)) \div s <= y
<1>1. PICK n : n = y * (s - 1)
  OBVIOUS
<1>2. n \in Nat /\ n <= y * s
  BY <1>1
<1>3. PICK q : q = n \div s
  OBVIOUS
<1>4. q \in Nat /\ q * s <= n
  BY <1>2, <1>3, DivBound
<1>5. q <= y
  <2> SUFFICES ASSUME y < q PROVE FALSE
    BY <1>4
  <2>1. y + 1 <= q
    BY <1>4
  <2>2. (y + 1) * s <= q * s
    BY <1>4, <2>1
  <2>3. (y + 1) * s = y * s + s
    OBVIOUS
  <2> QED BY <1>2, <1>4, <2>2, <2>3
<1> QED BY <1>1, <1>3, <1>4, <1>5

-----------------------------------------------------------------------------
(* The fills. *)

BackInv ==
  /\ cash \in Nat /\ qty \in Nat /\ fees \in Nat /\ open \in Prices
  /\ pending.amt \in Nat

\* A purchase spends its amount and the fee, and buys no more than the amount is worth.
LEMMA BuyCosts ==
  ASSUME BackInv, FillBuy
  PROVE  FillCosts /\ cash' \in Nat /\ qty' \in Nat /\ fees' \in Nat
<1>1. PICK amt : amt = IF pending.amt = 0 THEN cash \div 10 ELSE pending.amt
  OBVIOUS
<1>2. amt \in Nat
  <2>1. cash \div 10 \in Nat
    BY DivBound DEF BackInv
  <2> QED BY <1>1, <2>1 DEF BackInv
<1>3. PICK fee : fee = amt \div FeeDiv
  OBVIOUS
<1>4. fee \in Nat /\ fee <= amt
  BY <1>2, <1>3, DivBound, BacktestConstants
<1>5. PICK n : n = Bought(amt, fee)
  OBVIOUS
<1>6. open \in Nat \ {0} /\ SlipDiv \in Nat \ {0} /\ cash \in Nat /\ qty \in Nat /\ fees \in Nat
  BY BacktestConstants DEF BackInv
<1>7. n \in Nat /\ n * open <= amt - fee
  <2>1. PICK x \in Nat : x = amt - fee
    BY <1>2, <1>4
  <2>2. n = (x * SlipDiv) \div (open * (SlipDiv + 1))
    BY <1>5, <2>1 DEF Bought
  <2> QED BY <1>6, <2>1, <2>2, QuotientWorth
<1>8. CASE Affordable(amt, fee)
  <2>1. cash >= amt + fee /\ cash' = cash - amt - fee /\ qty' = qty + n /\ fees' = fees + fee
    BY <1>1, <1>3, <1>5, <1>8 DEF FillBuy, Affordable
  <2>2. cash' \in Nat /\ qty' \in Nat /\ fees' \in Nat
    BY <1>2, <1>4, <1>6, <1>7, <2>1
  <2>3. qty' * open = qty * open + n * open
    BY <1>6, <1>7, <2>1
  <2>4. PICK a \in Nat, b \in Nat : a = qty * open /\ b = n * open
    BY <1>6, <1>7
  <2>5. qty' * open = a + b /\ b <= amt - fee
    BY <1>7, <2>3, <2>4
  <2>6. cash' + qty' * open + (fees' - fees) <= cash + a
    BY <1>2, <1>4, <1>6, <2>1, <2>4, <2>5
  <2> QED BY <2>2, <2>4, <2>6 DEF FillCosts
<1>9. CASE ~Affordable(amt, fee)
  <2>1. UNCHANGED <<cash, qty, fees>>
    BY <1>1, <1>3, <1>9 DEF FillBuy
  <2>2. PICK a \in Nat : a = qty * open
    BY <1>6
  <2> QED BY <1>6, <2>1, <2>2 DEF FillCosts
<1> QED BY <1>8, <1>9

\* A sale parts with no more than is held, for no more than it is worth.
LEMMA SellCosts ==
  ASSUME BackInv, FillSell
  PROVE  FillCosts /\ cash' \in Nat /\ qty' \in Nat /\ fees' \in Nat
<1>1. /\ open \in Nat \ {0} /\ SlipDiv \in Nat \ {0, 1} /\ cash \in Nat /\ qty \in Nat /\ fees \in Nat
      /\ pending.amt \in Nat
  BY BacktestConstants DEF BackInv
<1>2. PICK wanted : wanted = (pending.amt * SlipDiv) \div (open * (SlipDiv - 1))
  OBVIOUS
<1>3. wanted \in Nat
  <2>1. PICK x \in Nat, d \in Nat \ {0} : x = pending.amt * SlipDiv /\ d = open * (SlipDiv - 1)
    BY <1>1
  <2> QED BY <1>2, <2>1, DivBound
<1>4. PICK n : n = IF pending.amt = 0 \/ wanted > qty THEN qty ELSE wanted
  OBVIOUS
<1>5. n \in Nat /\ n <= qty
  BY <1>1, <1>3, <1>4
<1>6. PICK p : p = Proceeds(n)
  OBVIOUS
<1>7. PICK y \in Nat : y = n * open
  BY <1>1, <1>5
<1>8. p \in Nat /\ p <= y
  BY <1>1, <1>6, <1>7, PartTaken DEF Proceeds
<1>9. PICK fee : fee = p \div FeeDiv
  OBVIOUS
<1>10. fee \in Nat /\ fee <= p
  BY <1>8, <1>9, DivBound, BacktestConstants
<1>11. CASE qty > 0
  <2>1. cash' = cash + p - fee /\ qty' = qty - n /\ fees' = fees + fee
    BY <1>2, <1>4, <1>6, <1>9, <1>11 DEF FillSell
  <2>2. cash' \in Nat /\ qty' \in Nat /\ fees' \in Nat
    BY <1>1, <1>5, <1>8, <1>10, <2>1
  <2>3. PICK a \in Nat : a = qty * open
    BY <1>1
  <2>4. qty' * open = a - y
    BY <1>1, <1>5, <1>7, <2>1, <2>3
  <2>5. cash' + qty' * open + (fees' - fees) <= cash + a
    BY <1>1, <1>8, <1>10, <2>1, <2>3, <2>4
  <2> QED BY <2>2, <2>3, <2>5 DEF FillCosts
<1>12. CASE ~(qty > 0)
  <2>1. UNCHANGED <<cash, qty, fees>>
    BY <1>12 DEF FillSell
  <2>2. PICK a \in Nat : a = qty * open
    BY <1>1
  <2> QED BY <1>1, <2>1, <2>2 DEF FillCosts
<1> QED BY <1>11, <1>12

\* A fill keeps the books of the backtest.
LEMMA FillKeeps ==
  ASSUME BackInv, Fill
  PROVE  FillCosts /\ cash' \in Nat /\ qty' \in Nat /\ fees' \in Nat
<1>1. CASE pending.side = "BUY"
  BY <1>1, BuyCosts DEF Fill
<1>2. CASE pending.side = "SELL"
  BY <1>2, SellCosts DEF Fill
<1>3. CASE pending.side \notin {"BUY", "SELL"}
  <2>1. UNCHANGED <<cash, qty, fees>>
    BY <1>3 DEF Fill
  <2>2. PICK a \in Nat : a = qty * open
    BY BacktestConstants DEF BackInv
  <2> QED BY <2>1, <2>2 DEF FillCosts, BackInv
<1> QED BY <1>1, <1>2, <1>3

\* Every bar keeps them.
LEMMA BackStep ==
  ASSUME BackInv, [Bar]_backVars PROVE BackInv' /\ [FillCosts]_backVars
<1>1. CASE Bar
  <2>1. FillCosts /\ cash' \in Nat /\ qty' \in Nat /\ fees' \in Nat
    BY <1>1, FillKeeps DEF Bar
  <2>2. open' \in Prices
    BY <1>1 DEF Bar
  <2>3. PICK close : pending' \in {NoSignal} \cup {s \in Wishes : BarPasses(s, close)}
    BY <1>1 DEF Bar
  <2>4. NoSignal.amt \in Nat /\ \A s \in Wishes : s.amt \in Nat
    BY BacktestConstants DEF NoSignal
  <2>5. pending' = NoSignal \/ pending' \in Wishes
    BY <2>3
  <2>6. pending'.amt \in Nat
    BY <2>4, <2>5
  <2> QED BY <2>1, <2>2, <2>6 DEF BackInv
<1>2. CASE UNCHANGED backVars
  BY <1>2 DEF BackInv, backVars
<1> QED BY <1>1, <1>2

\* No fill of any backtest makes money at its own price, or spends or sells what is not there.
THEOREM FillsAlwaysCost == BacktestSpec => FillsCost
<1>1. BacktestInit => BackInv
  BY BacktestConstants DEF BacktestInit, BackInv, NoSignal
<1>2. BackInv /\ [Bar]_backVars => BackInv' /\ [FillCosts]_backVars
  BY BackStep
<1> QED BY <1>1, <1>2, PTL DEF BacktestSpec, FillsCost

-----------------------------------------------------------------------------
(* The mixer *)

MixTyped == asked \in Nat /\ weighted \in Seq([sig : Offers, w : Nat \ {0}])

\* What the mixer heard is typed.
LEMMA HeardTyped ==
  ASSUME MixTyped
  PROVE  /\ Len(weighted) \in Nat
         /\ \A i \in Heard : /\ weighted[i].sig.tok \in MixTokens
                             /\ weighted[i].sig.side \in {"BUY", "SELL"}
                             /\ weighted[i].sig.amt \in Nat
                             /\ weighted[i].w \in Nat \ {0}
<1>1. Len(weighted) \in Nat /\ \A i \in Heard : weighted[i] \in [sig : Offers, w : Nat \ {0}]
  <2>1. PICK S : S = [sig : Offers, w : Nat \ {0}]
    OBVIOUS
  <2>2. weighted \in Seq(S)
    BY <2>1 DEF MixTyped
  <2>3. Len(weighted) \in Nat /\ \A i \in 1..Len(weighted) : weighted[i] \in S
    BY <2>2
  <2> QED BY <2>1, <2>3 DEF Heard
<1>2. \A i \in Heard : weighted[i].sig \in Offers
  BY <1>1
<1>3. \A i \in Heard : weighted[i].sig.tok \in MixTokens /\ weighted[i].sig.side \in {"BUY", "SELL"}
                       /\ weighted[i].sig.amt \in Nat
  BY <1>2, MixerConstants DEF Offers
<1> QED BY <1>1, <1>3

\* A weighted mean is no larger than each of what it is the mean of, and scaling it down does
\* not make it larger.
LEMMA MeanBounded ==
  ASSUME MixTyped, NEW sized, sized \subseteq Heard, sized # {}
  PROVE  MeanAmount(sized) \in Nat /\ \E i \in sized : weighted[i].sig.amt >= MeanAmount(sized)
<1>1. PICK n \in Nat : n = Len(weighted)
  BY HeardTyped
<1>2. PICK len \in Nat \ {0} : len = Len(Weights)
  BY MixerConstants
<1>3. PICK third : third = IF 3 * Cardinality(sized) < 2 * Len(Weights) THEN 3 * Cardinality(sized)
                           ELSE 2 * Len(Weights)
  OBVIOUS
<1>4. third \in Nat /\ third <= 2 * len
  <2>1. IsFiniteSet(sized)
    <3>1. IsFiniteSet(1..n)
      BY FS_Interval
    <3>2. sized \subseteq 1..n
      BY <1>1 DEF Heard
    <3> QED BY <3>1, <3>2, FS_Subset
  <2>2. Cardinality(sized) \in Nat
    BY <2>1, FS_CardinalityType
  <2> QED BY <1>2, <1>3, <2>2
<1>5. PICK g : g = [i \in Heard |-> IF i \in sized THEN Weight[i] ELSE 0]
  OBVIOUS
<1>6. PICK a : a = [i \in Heard |-> IF i \in sized THEN Amount[i] ELSE 0]
  OBVIOUS
<1>7. \A i \in 1..n : /\ g[i] = IF i \in sized THEN weighted[i].w ELSE 0
                      /\ a[i] = IF i \in sized THEN weighted[i].sig.amt * weighted[i].w ELSE 0
  BY <1>1, <1>5, <1>6 DEF Weight, Amount, Heard
<1>8. g \in [1..n -> Nat] /\ a \in [1..n -> Nat]
  BY <1>1, <1>5, <1>6, HeardTyped DEF Weight, Amount, Heard
<1>9. PICK sw \in Nat, sa \in Nat : sw = SumTo(g, n) /\ sa = SumTo(a, n)
  BY <1>8, SumIsNat
<1>10. PICK i0 : i0 \in sized /\ i0 \in 1..n /\ i0 \in Heard
  BY <1>1 DEF Heard
<1>11. sw >= 1
  <2>1. \A k \in Nat : Summand(g, k) \in Nat
    BY <1>8 DEF Summand
  <2>2. i0 \in Nat /\ i0 # 0 /\ i0 <= n
    BY <1>10
  <2>3. Summand(g, i0) <= SumTo(g, n)
    BY <2>1, <2>2, SumCoversSummand
  <2>4. Summand(g, i0) = weighted[i0].w
    BY <1>7, <1>8, <1>10 DEF Summand
  <2>5. weighted[i0].w \in Nat \ {0}
    BY <1>10, HeardTyped
  <2> QED BY <1>9, <2>3, <2>4, <2>5
<1>12. PICK d \in Nat \ {0}, x \in Nat : d = sw * (2 * len) /\ x = sa * third
  BY <1>2, <1>4, <1>9, <1>11
<1>13. PICK q : q = x \div d
  OBVIOUS
<1>14. q \in Nat /\ q * d <= x
  BY <1>12, <1>13, DivBound
<1>15. MeanAmount(sized) = q
  BY <1>1, <1>2, <1>3, <1>5, <1>6, <1>9, <1>12, <1>13 DEF MeanAmount, SumOf
<1>16. ASSUME \A i \in sized : ~(weighted[i].sig.amt >= q) PROVE FALSE
  <2>1. PICK m \in Nat : m + 1 = q
    <3>1. weighted[i0].sig.amt \in Nat /\ ~(weighted[i0].sig.amt >= q)
      BY <1>10, <1>16, HeardTyped
    <3>2. q - 1 \in Nat /\ (q - 1) + 1 = q
      BY <1>14, <3>1
    <3> QED BY <3>2
  <2>2. PICK h : h = [i \in 1..n |-> m * g[i]]
    OBVIOUS
  <2>3. h \in [1..n -> Nat] /\ \A i \in 1..n : h[i] = m * g[i]
    BY <1>8, <2>1, <2>2
  <2>4. \A i \in 1..n : a[i] <= h[i]
    <3> SUFFICES ASSUME NEW i \in 1..n, i \in sized PROVE a[i] <= h[i]
      BY <1>7, <2>3
    <3>1. PICK b \in Nat, w \in Nat : b = weighted[i].sig.amt /\ w = weighted[i].w
      BY HeardTyped
    <3>2. b <= m
      BY <1>14, <1>16, <2>1, <3>1
    <3>3. b * w <= m * w
      BY <2>1, <3>1, <3>2
    <3> QED BY <1>7, <2>3, <3>1, <3>3
  <2>5. SumTo(a, n) <= SumTo(h, n)
    BY <1>8, <2>3, <2>4, SumLeq
  <2>6. SumTo(h, n) = m * SumTo(g, n)
    BY <1>8, <2>1, <2>3, SumScaled
  <2>7. sa <= m * sw
    BY <1>9, <2>5, <2>6
  <2>8. x <= m * d
    <3>0. PICK c \in Nat, p \in Nat : c = 2 * len /\ p = m * sw
      BY <1>2, <1>9, <2>1
    <3>1. sa * third <= sa * (2 * len)
      BY <1>4, <1>9, <3>0, TimesMonotone
    <3>2. sa * (2 * len) <= (m * sw) * (2 * len)
      <4>1. c * sa <= c * p
        BY <1>9, <2>7, <3>0, TimesMonotone
      <4> QED BY <1>9, <3>0, <4>1
    <3>3. (m * sw) * (2 * len) = m * (sw * (2 * len))
      BY <1>2, <1>9, <2>1
    <3> QED BY <1>2, <1>4, <1>9, <1>12, <2>1, <3>1, <3>2, <3>3
  <2>9. q * d = m * d + d
    BY <1>12, <2>1
  <2>10. m * d \in Nat
    BY <1>12, <2>1
  <2> QED BY <1>12, <1>14, <2>8, <2>9, <2>10
<1> QED BY <1>14, <1>15, <1>16

\* Each token that was asked for has one side that wins.
LEMMA OneWins ==
  ASSUME MixTyped, NEW i \in Heard
  PROVE  \E way \in {"BUY", "SELL"} : Group(weighted[i].sig.tok, way) # {} /\ Wins(weighted[i].sig.tok, way)
<1>1. PICK t \in MixTokens : t = weighted[i].sig.tok
  BY HeardTyped
<1>2. weighted[i].sig.side \in {"BUY", "SELL"} /\ i \in Group(t, weighted[i].sig.side)
  BY <1>1, HeardTyped DEF Group
<1>3. CASE Group(t, "BUY") = {} \/ Group(t, "SELL") = {}
  BY <1>1, <1>2, <1>3 DEF Wins
<1>4. CASE Group(t, "BUY") # {} /\ Group(t, "SELL") # {}
  BY <1>1, <1>4 DEF Wins
<1> QED BY <1>3, <1>4

\* Of two sides, at most one outweighs the other.
LEMMA OnlyOneWins ==
  ASSUME NEW t, NEW a \in {"BUY", "SELL"}, NEW b \in {"BUY", "SELL"},
         Group(t, a) # {}, Group(t, b) # {}, Wins(t, a), Wins(t, b)
  PROVE  a = b
BY DEF Wins

\* What is combined stays within what was asked.
LEMMA CombineSound ==
  ASSUME MixTyped, NEW t, NEW way, Group(t, way) # {}
  PROVE  /\ Combine(t, way).tok = t /\ Combine(t, way).side = way
         /\ \E i \in Group(t, way) : weighted[i].sig.amt >= Combine(t, way).amt
         /\ (\E i \in Group(t, way) : weighted[i].sig.ai) => Combine(t, way).ai
<1>1. PICK items : items = Group(t, way)
  OBVIOUS
<1>2. PICK sized : sized = {i \in items : weighted[i].sig.amt # 0}
  OBVIOUS
<1>3. PICK amt : amt = IF sized = {} THEN 0 ELSE MeanAmount(sized)
  OBVIOUS
<1>4. /\ Combine(t, way).tok = t /\ Combine(t, way).side = way /\ Combine(t, way).amt = amt
      /\ (\E i \in Group(t, way) : weighted[i].sig.ai) => Combine(t, way).ai
  BY <1>1, <1>2, <1>3 DEF Combine
<1>5. sized \subseteq Heard /\ items \subseteq Heard /\ sized \subseteq items
  BY <1>1, <1>2 DEF Group
<1>6. \E i \in items : weighted[i].sig.amt >= amt
  <2>1. CASE sized = {}
    BY <1>1, <1>3, <1>5, <2>1, HeardTyped
  <2>2. CASE sized # {}
    BY <1>3, <1>5, <2>2, MeanBounded
  <2> QED BY <2>1, <2>2
<1> QED BY <1>1, <1>4, <1>6

\* What a merge makes of the signals heard.
Winners == {q \in MixTokens \X {"BUY", "SELL"} : Group(q[1], q[2]) # {} /\ Wins(q[1], q[2])}

\* A merge keeps one side of each token.
LEMMA MergeSound ==
  ASSUME MixTyped, NEW m, m = {Combine(p[1], p[2]) : p \in Winners}
  PROVE  /\ {s.tok : s \in m} = {weighted[i].sig.tok : i \in Heard}
         /\ \A s, r \in m : s.tok = r.tok => s = r
         /\ \A s \in m : /\ \E i \in Group(s.tok, s.side) : weighted[i].sig.amt >= s.amt
                         /\ (\E i \in Group(s.tok, s.side) : weighted[i].sig.ai) => s.ai
<1>1. ASSUME NEW s \in m
      PROVE  /\ s.tok \in MixTokens /\ s.side \in {"BUY", "SELL"} /\ s = Combine(s.tok, s.side)
             /\ Group(s.tok, s.side) # {} /\ Wins(s.tok, s.side)
  <2>1. PICK p \in Winners : s = Combine(p[1], p[2])
    OBVIOUS
  <2>2. PICK t, way : t = p[1] /\ way = p[2]
    OBVIOUS
  <2>3. t \in MixTokens /\ way \in {"BUY", "SELL"} /\ Group(t, way) # {} /\ Wins(t, way)
    BY <2>2 DEF Winners
  <2>4. s = Combine(t, way)
    BY <2>1, <2>2
  <2>5. s.tok = t /\ s.side = way
    BY <2>3, <2>4, CombineSound
  <2> QED BY <2>3, <2>4, <2>5
<1>2. \A s, r \in m : s.tok = r.tok => s = r
  <2> SUFFICES ASSUME NEW s \in m, NEW r \in m, s.tok = r.tok PROVE s = r
    OBVIOUS
  <2>1. s.side = r.side
    BY <1>1, OnlyOneWins
  <2> QED BY <1>1, <2>1
<1>3. \A s \in m : /\ \E i \in Group(s.tok, s.side) : weighted[i].sig.amt >= s.amt
                   /\ (\E i \in Group(s.tok, s.side) : weighted[i].sig.ai) => s.ai
  <2> SUFFICES ASSUME NEW s \in m
               PROVE  /\ \E i \in Group(s.tok, s.side) : weighted[i].sig.amt >= s.amt
                      /\ (\E i \in Group(s.tok, s.side) : weighted[i].sig.ai) => s.ai
    OBVIOUS
  <2>1. PICK t, way : t = s.tok /\ way = s.side
    OBVIOUS
  <2>2. Group(t, way) # {} /\ s = Combine(t, way)
    BY <1>1, <2>1
  <2> QED BY <2>1, <2>2, CombineSound
<1>4. \A s \in m : \E i \in Heard : s.tok = weighted[i].sig.tok
  BY <1>1 DEF Group
<1>5. \A i \in Heard : \E s \in m : s.tok = weighted[i].sig.tok
  <2> SUFFICES ASSUME NEW i \in Heard PROVE \E s \in m : s.tok = weighted[i].sig.tok
    OBVIOUS
  <2>1. PICK t \in MixTokens : t = weighted[i].sig.tok
    BY HeardTyped
  <2>2. PICK way \in {"BUY", "SELL"} : Group(t, way) # {} /\ Wins(t, way)
    BY <2>1, OneWins
  <2>3. <<t, way>> \in Winners /\ Combine(t, way).tok = t
    BY <2>2, CombineSound DEF Winners
  <2>4. Combine(<<t, way>>[1], <<t, way>>[2]) = Combine(t, way)
    OBVIOUS
  <2> QED BY <2>1, <2>3, <2>4
<1>6. {s.tok : s \in m} = {weighted[i].sig.tok : i \in Heard}
  BY <1>4, <1>5
<1> QED BY <1>2, <1>3, <1>6

MixInv == MixTyped /\ MixedOneSided

\* What the signals heard do not change, a step that hears nothing new does not change.
LEMMA SameSignals ==
  ASSUME MixInv, weighted' = weighted, asked' \in Nat,
         \/ asked' <= Len(Weights)
         \/ /\ {s.tok : s \in merged'} = {weighted[i].sig.tok : i \in Heard}
            /\ \A s, r \in merged' : s.tok = r.tok => s = r
            /\ \A s \in merged' :
                 /\ \E i \in Group(s.tok, s.side) : weighted[i].sig.amt >= s.amt
                 /\ (\E i \in Group(s.tok, s.side) : weighted[i].sig.ai) => s.ai
  PROVE  MixInv'
<1>0. Len(Weights) \in Nat
  BY MixerConstants
<1>1. MixTyped'
  BY DEF MixInv, MixTyped
<1>2. ASSUME asked' > Len(Weights)
      PROVE  /\ {s.tok : s \in merged'} = {weighted'[i].sig.tok : i \in Heard'}
             /\ \A s, r \in merged' : s.tok = r.tok => s = r
             /\ \A s \in merged' :
                  /\ \E i \in {k \in Heard' : weighted'[k].sig.tok = s.tok /\ weighted'[k].sig.side = s.side} :
                       weighted'[i].sig.amt >= s.amt
                  /\ (\E i \in {k \in Heard' : weighted'[k].sig.tok = s.tok /\ weighted'[k].sig.side = s.side} :
                        weighted'[i].sig.ai) => s.ai
  <2>1. ~(asked' <= Len(Weights))
    BY <1>0, <1>2
  <2>2. Heard' = Heard
    BY DEF Heard
  <2>3. {s.tok : s \in merged'} = {weighted'[i].sig.tok : i \in Heard'}
    BY <2>1, <2>2
  <2>4. \A s, r \in merged' : s.tok = r.tok => s = r
    BY <2>1
  <2>5. ASSUME NEW s \in merged'
        PROVE  /\ \E i \in {k \in Heard' : weighted'[k].sig.tok = s.tok /\ weighted'[k].sig.side = s.side} :
                    weighted'[i].sig.amt >= s.amt
               /\ (\E i \in {k \in Heard' : weighted'[k].sig.tok = s.tok /\ weighted'[k].sig.side = s.side} :
                     weighted'[i].sig.ai) => s.ai
    <3>1. /\ \E i \in Group(s.tok, s.side) : weighted[i].sig.amt >= s.amt
          /\ (\E i \in Group(s.tok, s.side) : weighted[i].sig.ai) => s.ai
      BY <2>1, <2>5
    <3>2. Group(s.tok, s.side) = {k \in Heard' : weighted'[k].sig.tok = s.tok /\ weighted'[k].sig.side = s.side}
      BY <2>2 DEF Group
    <3> QED BY <3>1, <3>2
  <2> QED BY <2>3, <2>4, <2>5
<1>3. MixedOneSided'
  BY <1>2 DEF MixedOneSided, Group
<1> QED BY <1>1, <1>3 DEF MixInv

\* Every step keeps the invariant of the mixer.
LEMMA MixStep ==
  ASSUME MixInv, [MixerNext]_mixVars PROVE MixInv'
<1>0. Len(Weights) \in Nat \ {0} /\ asked \in Nat
  BY MixerConstants DEF MixInv, MixTyped
<1>1. CASE AskNext
  <2>1. asked < Len(Weights) /\ asked' = asked + 1 /\ merged' = merged
    BY <1>1 DEF AskNext
  <2>2. PICK S : S = [sig : Offers, w : Nat \ {0}]
    OBVIOUS
  <2>3. PICK sigs \in Answers :
          weighted' = weighted \o [i \in 1..Len(sigs) |-> [sig |-> sigs[i], w |-> Weights[asked']]]
    BY <1>1 DEF AskNext
  <2>4. PICK more : more = [i \in 1..Len(sigs) |-> [sig |-> sigs[i], w |-> Weights[asked']]]
    OBVIOUS
  <2>5. weighted' \in Seq(S)
    <3>1. Weights[asked'] \in Nat \ {0}
      <4>1. asked' \in 1..Len(Weights)
        BY <1>0, <2>1
      <4> QED BY <4>1, MixerConstants
    <3>2. Len(sigs) \in Nat /\ \A i \in 1..Len(sigs) : sigs[i] \in Offers
      <4>1. PICK n \in 0..MaxOffered : sigs \in [1..n -> Offers]
        BY DEF Answers
      <4>2. n \in Nat
        BY <4>1, MixerConstants
      <4>3. sigs \in Seq(Offers) /\ Len(sigs) = n
        BY <4>1, <4>2
      <4> QED BY <4>1, <4>2, <4>3
    <3>3. ASSUME NEW i \in 1..Len(sigs) PROVE more[i] \in S
      BY <2>2, <2>4, <3>1, <3>2, <3>3
    <3>4. more \in [1..Len(sigs) -> S]
      BY <2>4, <3>3
    <3>5. more \in Seq(S)
      BY <3>2, <3>4
    <3>6. weighted \in Seq(S)
      BY <2>2 DEF MixInv, MixTyped
    <3> QED BY <2>3, <2>4, <3>5, <3>6
  <2>6. asked' \in Nat /\ ~(asked' > Len(Weights))
    BY <1>0, <2>1
  <2>7. MixTyped'
    BY <2>2, <2>5, <2>6 DEF MixTyped, Offers
  <2>8. MixedOneSided'
    BY <2>6 DEF MixedOneSided
  <2> QED BY <2>7, <2>8 DEF MixInv
<1>2. CASE Merge
  <2>1. asked' = asked + 1 /\ weighted' = weighted /\ merged' = {Combine(p[1], p[2]) : p \in Winners}
    BY <1>2 DEF Merge, Winners
  <2>2. asked = Len(Weights) /\ asked' \in Nat /\ asked' > Len(Weights)
    BY <1>0, <1>2 DEF Merge
  <2>3. PICK m : m = merged'
    OBVIOUS
  <2>4. /\ {s.tok : s \in m} = {weighted[i].sig.tok : i \in Heard}
        /\ \A s, r \in m : s.tok = r.tok => s = r
        /\ \A s \in m : /\ \E i \in Group(s.tok, s.side) : weighted[i].sig.amt >= s.amt
                        /\ (\E i \in Group(s.tok, s.side) : weighted[i].sig.ai) => s.ai
    <3>1. MixTyped /\ m = {Combine(p[1], p[2]) : p \in Winners}
      BY <2>1, <2>3 DEF MixInv
    <3> QED BY <3>1, MergeSound
  <2> QED BY <2>1, <2>2, <2>3, <2>4, SameSignals
<1>3. CASE UNCHANGED mixVars
  <2>1. asked' = asked /\ weighted' = weighted /\ merged' = merged
    BY <1>3 DEF mixVars
  <2>2. \/ asked' <= Len(Weights)
        \/ /\ {s.tok : s \in merged'} = {weighted[i].sig.tok : i \in Heard}
           /\ \A s, r \in merged' : s.tok = r.tok => s = r
           /\ \A s \in merged' :
                /\ \E i \in Group(s.tok, s.side) : weighted[i].sig.amt >= s.amt
                /\ (\E i \in Group(s.tok, s.side) : weighted[i].sig.ai) => s.ai
    <3>1. CASE asked > Len(Weights)
      BY <2>1, <3>1 DEF MixInv, MixedOneSided
    <3>2. ASSUME ~(asked > Len(Weights)) PROVE asked' <= Len(Weights)
      BY <1>0, <2>1, <3>2
    <3> QED BY <3>1, <3>2, Zenon
  <2> QED BY <1>0, <2>1, <2>2, SameSignals
<1> QED BY <1>1, <1>2, <1>3 DEF MixerNext

\* Before the first merge.
LEMMA MixStart == MixerInit => MixInv
<1>1. \A S : <<>> \in Seq(S)
  OBVIOUS
<1>2. Len(Weights) \in Nat
  BY MixerConstants
<1> QED BY <1>1, <1>2 DEF MixerInit, MixInv, MixTyped, MixedOneSided

\* For any strategies, weights and signals the merged signals keep to one side of each token.
THEOREM MixAlwaysOneSided == MixerSpec => []MixedOneSided
<1>1. MixInv => MixedOneSided
  BY DEF MixInv
<1> QED BY <1>1, MixStart, MixStep, PTL DEF MixerSpec

-----------------------------------------------------------------------------
(* The instance the run checks *)

\* Each of the parts sees only its own steps, and the others as stuttering.
THEOREM StrategiesKeepTheirWord == AllSpec => []StrategiesKeepWord
<1>1. AllInit => StrategyInit /\ MixerInit
  BY DEF AllInit
<1>2. ASSUME [AllNext]_<<part, vars, stratVars, mixVars, backVars>>
      PROVE  [StrategyNext]_stratVars /\ [MixerNext]_mixVars
  <2>1. CASE UNCHANGED <<part, vars, stratVars, mixVars, backVars>>
    BY <2>1
  <2>2. CASE AllNext
    BY <2>2 DEF AllNext
  <2> QED BY <1>2, <2>1, <2>2
<1>3. AllSpec => [][StrategyNext]_stratVars /\ [][MixerNext]_mixVars
  BY <1>2, PTL DEF AllSpec
<1>4. AllSpec => StrategySpec /\ MixerSpec
  BY <1>1, <1>3 DEF AllSpec, StrategySpec, MixerSpec
<1>5. (RunsAreShort /\ SalesBacked) /\ MixedOneSided => StrategiesKeepWord
  BY DEF StrategiesKeepWord
<1> QED BY <1>4, <1>5, StrategiesSound, MixAlwaysOneSided, PTL

==================================================================================
