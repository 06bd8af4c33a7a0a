------------------------------ MODULE Backtest ------------------------------
(***************************************************************************)
(* BacktestEngine.run: bar by bar, the signal taken at the last bar is     *)
(* filled at the open, then a strategy signals at the close and the first  *)
(* signal the risk manager lets pass waits for the next bar.  Fee and      *)
(* slippage are one part of FeeDiv and SlipDiv; tokens are counted so that *)
(* a price is what one of them costs.                                      *)
(***************************************************************************)
EXTENDS Integers, Sequences

CONSTANTS Capital, FeeDiv, SlipDiv,
          Prices, Wishes,          \* bounds: prices; signals, amount 0 for none
          MinBars, MaxBars         \* bars a run needs; bound

ASSUME BacktestConstants ==
  /\ Capital \in Nat /\ FeeDiv \in Nat \ {0} /\ SlipDiv \in Nat \ {0, 1}
  /\ Prices \subseteq Nat \ {0} /\ Wishes \subseteq [side : {"BUY", "SELL"}, amt : Nat]

VARIABLES bar, open, cash, qty, fees, pending, trades
backVars == <<bar, open, cash, qty, fees, pending, trades>>

NoSignal == [side |-> "none", amt |-> 0]

\* A run that lacks bars is refused; bars counts those after the warm-up.
BacktestInit ==
  /\ bar = MinBars /\ open \in Prices
  /\ cash = Capital /\ qty = 0 /\ fees = 0
  /\ pending = NoSignal /\ trades = <<>>

Bought(amt, fee) == ((amt - fee) * SlipDiv) \div (open * (SlipDiv + 1))
Proceeds(n) == (n * open * (SlipDiv - 1)) \div SlipDiv

\* A check that forgets the fee, for a mutant.
AffordableMutant(amt, fee) == cash >= amt
Affordable(amt, fee) == cash >= amt + fee

\* The fee is paid on top of the amount and taken from what it buys.
FillBuy ==
  LET amt == IF pending.amt = 0 THEN cash \div 10 ELSE pending.amt
      fee == amt \div FeeDiv
  IN  IF Affordable(amt, fee)
      THEN /\ cash' = cash - amt - fee /\ qty' = qty + Bought(amt, fee)
           /\ fees' = fees + fee /\ trades' = Append(trades, bar)
      ELSE UNCHANGED <<cash, qty, fees, trades>>

\* At most what is held; all of it without an amount.
FillSell ==
  LET wanted == (pending.amt * SlipDiv) \div (open * (SlipDiv - 1))
      n == IF pending.amt = 0 \/ wanted > qty THEN qty ELSE wanted
      fee == Proceeds(n) \div FeeDiv
  IN  IF qty > 0
      THEN /\ cash' = cash + Proceeds(n) - fee /\ qty' = qty - n
           /\ fees' = fees + fee /\ trades' = Append(trades, bar)
      ELSE UNCHANGED <<cash, qty, fees, trades>>

Fill == CASE pending.side = "BUY" -> FillBuy
          [] pending.side = "SELL" -> FillSell
          [] OTHER -> UNCHANGED <<cash, qty, fees, trades>>

\* The limits are set from the capital; nothing cools down, since no trade is recorded.
BarPasses(s, close) ==
  /\ 2 * s.amt <= Capital
  /\ s.side = "BUY" => qty' * close + s.amt <= Capital

\* A bar: fill, then the strategy, whose first signal that passes is taken.
Bar ==
  /\ bar <= MaxBars /\ bar' = bar + 1
  /\ Fill
  /\ \E close \in Prices : pending' \in {NoSignal} \cup {s \in Wishes : BarPasses(s, close)}
  /\ open' \in Prices

BacktestSpec == BacktestInit /\ [][Bar]_backVars

\* A fill never makes money at the price it is made at, loses at least the fee it reports,
\* and spends and sells only what is there (engine.py:168-219).
FillCosts ==
  /\ cash' >= 0 /\ qty' >= 0
  /\ cash' + qty' * open + (fees' - fees) <= cash + qty * open
FillsCost == [][FillCosts]_backVars
=============================================================================
