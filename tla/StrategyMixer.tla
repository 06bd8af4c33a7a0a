---------------------------- MODULE StrategyMixer ----------------------------
(***************************************************************************)
(* WeightedStrategyMixer: the strategies of an agent are asked one after   *)
(* the other, and their weighted signals merged.  Confidence is counted in *)
(* hundredths; weights are kept unnormalized, which changes no comparison. *)
(***************************************************************************)
EXTENDS Integers, Sequences, FiniteSets, NatSums

CONSTANTS Weights,                 \* of the strategies, in their order
          MixTokens, Confidences,  \* bounds
          MixAmounts,              \* 0 is no amount
          MaxOffered, MaxHeard     \* bounds: signals of a strategy, and of all

\* A group without weight throws, and the strategies are then asked without a mixer.
ASSUME MixerConstants ==
  /\ Weights \in Seq(Nat \ {0}) /\ Weights # <<>>
  /\ Confidences \subseteq Nat /\ MixAmounts \subseteq Nat
  /\ MaxOffered \in Nat /\ MaxHeard \in Nat

VARIABLES asked, weighted, merged
mixVars == <<asked, weighted, merged>>

Offers == [tok : MixTokens, side : {"BUY", "SELL"}, conf : Confidences,
           amt : MixAmounts, ai : BOOLEAN]

MixerInit == asked = 0 /\ weighted = <<>> /\ merged = {}

\* What one strategy answers: a list, which may name a token more than once, and is empty
\* when the strategy is disabled or throws.
Answers == UNION {[1..n -> Offers] : n \in 0..MaxOffered}

AskNext ==
  /\ asked < Len(Weights) /\ asked' = asked + 1
  /\ \E sigs \in Answers :
       weighted' = weighted \o [i \in 1..Len(sigs) |-> [sig |-> sigs[i], w |-> Weights[asked']]]
  /\ Len(weighted') <= MaxHeard
  /\ UNCHANGED merged

Heard == 1..Len(weighted)

\* The sum over some of the weighted signals of what f gives each of them.
SumOf(items, f) == SumTo([i \in Heard |-> IF i \in items THEN f[i] ELSE 0], Len(weighted))
Weight == [i \in Heard |-> weighted[i].w]
Confident == [i \in Heard |-> weighted[i].sig.conf * weighted[i].w]
Amount == [i \in Heard |-> weighted[i].sig.amt * weighted[i].w]

Group(t, side) == {i \in Heard : weighted[i].sig.tok = t /\ weighted[i].sig.side = side}
Score(items) == SumOf(items, Confident)

\* A merge that keeps both sides, for a mutant.
WinsMutant(t, side) == TRUE

\* Of two sides of a token the one with more weighted confidence in sum; BUY when even.
Wins(t, side) ==
  IF Group(t, "BUY") = {} \/ Group(t, "SELL") = {} THEN TRUE
  ELSE side = IF Score(Group(t, "BUY")) >= Score(Group(t, "SELL")) THEN "BUY" ELSE "SELL"

\* The weighted mean of the amounts, scaled down when the signals with an amount are fewer
\* than two thirds of the strategies, whichever strategies they are of.
MeanAmount(sized) ==
  LET third == IF 3 * Cardinality(sized) < 2 * Len(Weights) THEN 3 * Cardinality(sized)
               ELSE 2 * Len(Weights)
  IN  (SumOf(sized, Amount) * third) \div (SumOf(sized, Weight) * (2 * Len(Weights)))

\* Approval when one asks for it or the confidence is low.
Combine(t, side) ==
  LET items == Group(t, side)
      sized == {i \in items : weighted[i].sig.amt # 0}
  IN  [tok |-> t, side |-> side,
       amt |-> IF sized = {} THEN 0 ELSE MeanAmount(sized),
       ai |-> \/ \E i \in items : weighted[i].sig.ai
              \/ Score(items) < 70 * SumOf(items, Weight)]

Merge ==
  /\ asked = Len(Weights) /\ asked' = asked + 1
  /\ merged' = {Combine(p[1], p[2]) : p \in {q \in MixTokens \X {"BUY", "SELL"} :
                  Group(q[1], q[2]) # {} /\ Wins(q[1], q[2])}}
  /\ UNCHANGED weighted

MixerNext == AskNext \/ Merge

MixerSpec == MixerInit /\ [][MixerNext]_mixVars

\* Of every token asked for one signal comes out, on a side somebody asked for; it is no
\* larger than the largest of that side, and no strategy's wish for approval is lost
\* (mixer.py:67-138).
MixedOneSided ==
  asked > Len(Weights) =>
    /\ {s.tok : s \in merged} = {weighted[i].sig.tok : i \in Heard}
    /\ \A s, r \in merged : s.tok = r.tok => s = r
    /\ \A s \in merged :
         /\ \E i \in Group(s.tok, s.side) : weighted[i].sig.amt >= s.amt
         /\ (\E i \in Group(s.tok, s.side) : weighted[i].sig.ai) => s.ai
==============================================================================
