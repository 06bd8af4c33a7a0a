---------------------------- MODULE MCTradingLoop ----------------------------
(* Small instances of the trading loop, the strategies behind it, the mixer  *)
(* of their signals and the backtest, each checked while the others rest:    *)
(* they share no state.                                                      *)
EXTENDS TradingLoop, Strategies, StrategyMixer, Backtest

VARIABLE part

\* A sale large enough to need a model, and a purchase that does not.
MCSignals == {[tok |-> "t1", side |-> "SELL", amt |-> 2, need |-> FALSE],
              [tok |-> "t2", side |-> "BUY", amt |-> 1, need |-> FALSE]}
MCUnitPrice == [t \in Tokens |-> 3]
MCWeights == <<1, 2>>
MCWishes == {[side |-> "BUY", amt |-> 0], [side |-> "BUY", amt |-> 50], [side |-> "BUY", amt |-> 60],
             [side |-> "SELL", amt |-> 0], [side |-> "SELL", amt |-> 20]}

\* The parts at rest keep to one initial state.
AllInit ==
  /\ Init /\ StrategyInit /\ MixerInit /\ BacktestInit
  /\ part \in {"loop", "strategies", "mixer", "backtest"}
  /\ part # "loop" => venue = "paper"
  /\ part # "strategies" => strategy = "dca"
  /\ part # "backtest" => open = CHOOSE p \in Prices : TRUE

AllNext ==
  /\ UNCHANGED part
  /\ \/ part = "loop" /\ Next /\ UNCHANGED <<stratVars, mixVars, backVars>>
     \/ part = "strategies" /\ StrategyNext /\ UNCHANGED <<vars, mixVars, backVars>>
     \/ part = "mixer" /\ MixerNext /\ UNCHANGED <<vars, stratVars, backVars>>
     \/ part = "backtest" /\ Bar /\ UNCHANGED <<vars, stratVars, mixVars>>

AllSpec ==
  /\ AllInit /\ [][AllNext]_<<part, vars, stratVars, mixVars, backVars>>
  /\ Fairness

\* What the strategies and their mixer promise, whoever asks them and in whatever order.
StrategiesKeepWord == RunsAreShort /\ SalesBacked /\ MixedOneSided
==============================================================================
