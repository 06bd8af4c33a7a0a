------------------------------ MODULE Strategies ------------------------------
(***************************************************************************)
(* The strategies of the Python engine.  One object of each serves every   *)
(* agent and every season of the process; three of them remember things    *)
(* between calls.  A reading says which of the conditions a strategy       *)
(* computes from the candles hold; prices count only where a strategy      *)
(* compares them across calls, and are steps of the take-profit rules.     *)
(***************************************************************************)
EXTENDS Integers

CONSTANTS
  Agents, StrategyTokens,
  TokenA, TokenB,             \* the pair of the spread strategy
  Native, Stable,             \* the native token, whose balance is no position, and the stable one
  MaxConsecutive,             \* max_consecutive_same_side
  StopAt, TakeAt, ArmAt, TrailBy,  \* stop loss, take profit, trailing stop, in price steps
  MaxPrice                    \* bound

ASSUME StrategyConstants ==
  TokenA # TokenB /\ Stable \notin StrategyTokens /\ MaxConsecutive \in Nat \ {0}

Classes == {"dca", "limit_orders", "rebalance", "trend_swap", "mean_reversion", "momentum",
            "rsi_divergence", "price_change", "spread_arb", "opener", "volatility_scalp",
            "rsi_extreme", "volume_spike", "candle_pattern", "hi_lo_breakout", "take_profit"}

VARIABLES
  strategy,     \* the strategy this engine runs for the agents
  price,
  pos,          \* what each agent holds: worth none, at most ten dollars (dust), or more
  rich,         \* the agents with stable balance enough for the opener
  fired,        \* SeasonOpenerStrategy._fired
  side, times,  \* PriceChangeStrategy._last_action, _consecutive
  high,         \* TakeProfitStrategy._session_high, 0 when unset
  batch,        \* the signals of the last call
  streak,       \* the sides price_change really signalled in a row, for each token
  ready,        \* the agents the opener was asked for in this season and could have bought for
  opened        \* the agents it did buy for in this season

seasonVars == <<ready, opened>>
stratVars == <<strategy, price, pos, rich, fired, side, times, high, batch, streak, seasonVars>>

Nothing == [worth |-> "none", cost |-> 0]

StrategyInit ==
  /\ strategy \in Classes
  /\ price = [t \in StrategyTokens |-> 1]
  /\ pos = [a \in Agents |-> [t \in StrategyTokens |-> Nothing]]
  /\ rich = Agents
  /\ fired = FALSE
  /\ side = [t \in StrategyTokens |-> "none"] /\ times = [t \in StrategyTokens |-> 0]
  /\ high = [t \in StrategyTokens |-> 0]
  /\ batch = {}
  /\ streak = [t \in StrategyTokens |-> [side |-> "none", len |-> 0]]
  /\ ready = {} /\ opened = {}

-----------------------------------------------------------------------------
(* The strategies that only read *)

Buy(t) == {[tok |-> t, side |-> "BUY", sized |-> TRUE]}
Sell(t) == {[tok |-> t, side |-> "SELL", sized |-> TRUE]}
Unsized(t, s) == {[tok |-> t, side |-> s, sized |-> FALSE]}

Held(a, t) == pos[a][t].worth = "held"
Some(a, t) == pos[a][t].worth # "none"

Dca(t, o) == IF {"data", "above", "trend", "rsi", "volume"} \subseteq o THEN Buy(t) ELSE {}

\* Each limit order by itself: it sells whether or not the agent holds the token, and two
\* orders of a token may fire on opposite sides.
LimitOrders(t, o) ==
  (IF "below" \in o THEN Buy(t) ELSE {}) \cup (IF "above" \in o THEN Sell(t) ELSE {})

\* Every target of the configuration is weighed, seen or not: the stable balance, the
\* native one when its price is seen, and positions.  A target of which nothing counts is
\* at no percent, never over.
Targets == StrategyTokens \cup {Stable}
Counted(a, seen) == {t \in Targets : t = Stable \/ (t = Native /\ t \in seen) \/ Some(a, t)}

Lacking(drift) == {t \in Targets : drift[t] = "under"}
Excess(a, seen, drift) == {t \in Counted(a, seen) : drift[t] = "over"}

Rebalance(a, seen, drift) ==
  (UNION {Buy(t) : t \in Lacking(drift)}) \cup (UNION {Sell(t) : t \in Excess(a, seen, drift)})

\* A purchase without an amount; a sale without one when nothing is held.
TrendSwap(a, t, o) ==
  IF ~({"data", "volume", "sure"} \subseteq o) THEN {}
  ELSE IF "golden" \in o THEN Unsized(t, "BUY")
  ELSE IF "death" \in o THEN (IF Some(a, t) THEN Sell(t) ELSE Unsized(t, "SELL")) ELSE {}

MeanReversion(a, t, o) ==
  IF "data" \notin o THEN {}
  ELSE IF "low" \in o THEN (IF "rsi" \in o THEN Buy(t) ELSE {})
  ELSE IF {"high", "rsi"} \subseteq o /\ Some(a, t) THEN Sell(t) ELSE {}

\* The signal line is an EMA over the MACD line, whose first values are undefined: it is
\* undefined at every bar, and the strategy passes over every token.
Momentum(t, o) == {}

RsiDivergence(a, t, o) ==
  IF ~({"data", "sure"} \subseteq o) THEN {}
  ELSE IF {"bullish", "oversold"} \subseteq o THEN Buy(t)
  ELSE IF {"bearish", "overbought"} \subseteq o /\ Some(a, t) THEN Sell(t) ELSE {}

\* The larger of the two sides of the pair is bought below the cap, the other sold when
\* held: each side on its own.
SpreadArb(a, seen, o) ==
  LET cheap == IF "aDear" \in o THEN TokenB ELSE TokenA
      dear  == IF "aDear" \in o THEN TokenA ELSE TokenB
  IN  IF ~({TokenA, TokenB} \subseteq seen) \/ "apart" \notin o THEN {}
      ELSE (IF "underCap" \in o THEN Buy(cheap) ELSE {})
             \cup (IF Held(a, dear) THEN Sell(dear) ELSE {})

\* A breakout of the band after a squeeze, and partial profit on the way back from it; the
\* first looks at the ticker, the second at the candles, so both may be seen at once.
VolatilityScalp(a, t, o) ==
  IF "data" \notin o THEN {}
  ELSE (IF {"squeezed", "up", "underCap"} \subseteq o THEN Buy(t) ELSE {})
       \cup (IF {"squeezed", "down"} \subseteq o /\ Held(a, t) THEN Sell(t) ELSE {})
       \cup (IF "reverted" \in o /\ Held(a, t) THEN Sell(t) ELSE {})

\* A sale that does not look at what is held, for a mutant.
SwingMutant(a, t, o, up, down) ==
  IF up \cup {"data", "underCap"} \subseteq o THEN Buy(t)
  ELSE IF down \cup {"data"} \subseteq o THEN Sell(t) ELSE {}

\* Buys when up and below the allocation cap, else sells what is held when down.
Swing(a, t, o, up, down) ==
  IF up \cup {"data", "underCap"} \subseteq o THEN Buy(t)
  ELSE IF down \cup {"data"} \subseteq o /\ Held(a, t) THEN Sell(t) ELSE {}

RsiExtreme(a, t, o) == Swing(a, t, o, {"oversold", "turned"}, {"overbought", "turned"})
VolumeSpike(a, t, o) == Swing(a, t, o, {"spike", "green"}, {"spike", "red"})
CandlePattern(a, t, o) == Swing(a, t, o, {"bullish"}, {"bearish"})
HiLoBreakout(a, t, o) == Swing(a, t, o, {"above"}, {"below"})

-----------------------------------------------------------------------------
(* The strategies that remember *)

\* No more than so many signals of one side in a row; the run ends with a signal of the
\* other side.
Throttled(t, s) == side[t] = s /\ times[t] >= MaxConsecutive

\* A throttle that forgets the run once it held a signal back, for a mutant.
NextTimesMutant(t, s) == IF side[t] = s /\ times[t] < MaxConsecutive - 1 THEN times[t] + 1 ELSE 1

NextTimes(t, s) == IF side[t] = s THEN times[t] + 1 ELSE 1

PriceChange(a, t, o) ==
  {s \in Swing(a, t, o, {"up"}, {"down"}) : ~Throttled(t, s.side)}

\* take_profit's rule for a position: a stop loss, else a take profit, else a trailing
\* stop below the highest price the object has seen; sold when worth the while.
Highest(t) == IF high[t] > price[t] THEN high[t] ELSE price[t]
Exits(a, t) ==
  LET roi == price[t] - pos[a][t].cost
  IN  \/ roi <= -StopAt
      \/ roi >= TakeAt
      \/ roi >= ArmAt /\ Highest(t) - price[t] >= TrailBy
TakeProfit(a, t) == IF Exits(a, t) /\ Held(a, t) THEN Sell(t) ELSE {}

\* The opener's guards, in their order: it never fires after it has fired or found an
\* agent with positions or too little money, and waits while no token is seen.
NoPositions(a) == \A t \in StrategyTokens : ~Some(a, t)
CanOpen(a) == ~fired /\ NoPositions(a) /\ a \in rich

\* It buys the tokens whose slice of the money is large enough.
Opener(a, seen, large) == IF CanOpen(a) THEN UNION {Buy(t) : t \in seen \cap large} ELSE {}

-----------------------------------------------------------------------------
(* One call: process_snapshot for an agent whose strategy this is *)

Facts ==
  [dca |-> {"data", "above", "trend", "rsi", "volume"},
   limit_orders |-> {"below", "above"},
   trend_swap |-> {"data", "volume", "sure", "golden", "death"},
   mean_reversion |-> {"data", "low", "high", "rsi"},
   momentum |-> {"data"},
   rsi_divergence |-> {"data", "sure", "bullish", "oversold", "bearish", "overbought"},
   price_change |-> {"data", "up", "down", "underCap"},
   spread_arb |-> {"apart", "aDear", "underCap"},
   volatility_scalp |-> {"data", "squeezed", "up", "down", "reverted", "underCap"},
   rsi_extreme |-> {"data", "oversold", "overbought", "turned", "underCap"},
   volume_spike |-> {"data", "spike", "green", "red", "underCap"},
   candle_pattern |-> {"data", "bullish", "bearish", "underCap"},
   hi_lo_breakout |-> {"data", "above", "below", "underCap"},
   take_profit |-> {}]

Opposites == {{"up", "down"}, {"golden", "death"}, {"low", "high"}, {"green", "red"},
              {"oversold", "overbought"}}
Conditions == {o \in SUBSET Facts[strategy] :
                 /\ ~\E p \in Opposites : p \subseteq o
                 /\ strategy # "limit_orders" => ~({"above", "below"} \subseteq o)
                 /\ strategy = "candle_pattern" => ~({"bullish", "bearish"} \subseteq o)}

\* The rebalancer reads how far each target is off, the opener which slices are large.
Readings ==
  CASE strategy = "rebalance" -> [Targets -> {"under", "near", "over"}]
    [] strategy = "opener" -> SUBSET StrategyTokens
    [] OTHER -> Conditions

\* What the strategies that look at one token after the other say of it.
SignalsFor(a, t, o) ==
  CASE strategy = "dca" -> Dca(t, o)
    [] strategy = "limit_orders" -> LimitOrders(t, o)
    [] strategy = "trend_swap" -> TrendSwap(a, t, o)
    [] strategy = "mean_reversion" -> MeanReversion(a, t, o)
    [] strategy = "momentum" -> Momentum(t, o)
    [] strategy = "rsi_divergence" -> RsiDivergence(a, t, o)
    [] strategy = "price_change" -> PriceChange(a, t, o)
    [] strategy = "volatility_scalp" -> VolatilityScalp(a, t, o)
    [] strategy = "rsi_extreme" -> RsiExtreme(a, t, o)
    [] strategy = "volume_spike" -> VolumeSpike(a, t, o)
    [] strategy = "candle_pattern" -> CandlePattern(a, t, o)
    [] strategy = "hi_lo_breakout" -> HiLoBreakout(a, t, o)
    [] strategy = "take_profit" -> TakeProfit(a, t)

SignalsOf(a, seen, o) ==
  IF strategy = "spread_arb" THEN SpreadArb(a, seen, o)
  ELSE IF strategy = "opener" THEN Opener(a, seen, o)
  ELSE IF strategy = "rebalance" THEN Rebalance(a, seen, o)
  ELSE UNION {SignalsFor(a, t, o) : t \in seen}

SideOf(signals, t) == (CHOOSE s \in signals : s.tok = t).side
Signalled(signals) == {s.tok : s \in signals}

\* The strategies that remember do so when they signal, whatever the risk filter, the
\* gate or the arena make of the signal.
Ask(a) ==
  \E seen \in SUBSET StrategyTokens, o \in Readings :
    LET out == SignalsOf(a, seen, o)
        marked == IF strategy = "price_change" THEN Signalled(out) ELSE {}
    IN  /\ batch' = {[who |-> a, tok |-> s.tok, side |-> s.side, sized |-> s.sized] : s \in out}
        /\ side' = [t \in StrategyTokens |-> IF t \in marked THEN SideOf(out, t) ELSE side[t]]
        /\ times' = [t \in StrategyTokens |-> IF t \in marked THEN NextTimes(t, SideOf(out, t))
                                      ELSE times[t]]
        /\ streak' = [t \in StrategyTokens |->
             IF t \notin marked THEN streak[t]
             ELSE LET s == SideOf(out, t)
                  IN  [side |-> s, len |-> IF streak[t].side = s THEN streak[t].len + 1 ELSE 1]]
        /\ high' = [t \in StrategyTokens |-> IF strategy = "take_profit" /\ t \in seen /\ Some(a, t)
                                     THEN Highest(t) ELSE high[t]]
        /\ fired' = (fired \/ (strategy = "opener" /\ (seen # {} \/ ~CanOpen(a))))
        /\ ready' = IF strategy = "opener" /\ a \in rich /\ NoPositions(a) /\ seen \cap o # {}
                    THEN ready \cup {a} ELSE ready
        /\ opened' = IF strategy = "opener" /\ out # {} THEN opened \cup {a} ELSE opened
        /\ UNCHANGED <<strategy, price, pos, rich>>

\* The agent trades, by this strategy's signals and others'; only take_profit looks at
\* what it paid, and not for dust.
Trades(a, t) ==
  /\ \/ pos' = [pos EXCEPT ![a][t] = Nothing]
     \/ \E w \in {"dust", "held"} :
          pos' = [pos EXCEPT ![a][t] = [worth |-> w,
                    cost |-> IF strategy = "take_profit" /\ w = "held" THEN price[t] ELSE 1]]
  /\ batch' = {}
  /\ UNCHANGED <<strategy, price, rich, fired, side, times, high, streak, seasonVars>>

Moves(t) ==
  /\ strategy = "take_profit"
  /\ \E p \in {price[t] - 1, price[t] + 1} \cap 1 .. MaxPrice : price' = [price EXCEPT ![t] = p]
  /\ batch' = {}
  /\ UNCHANGED <<strategy, pos, rich, fired, side, times, high, streak, seasonVars>>

\* The arena starts a season: the portfolios are new, the Python process is not.
NewSeason ==
  /\ pos' = [a \in Agents |-> [t \in StrategyTokens |-> Nothing]]
  /\ rich' = Agents /\ batch' = {}
  /\ ready' = {} /\ opened' = {}
  /\ UNCHANGED <<strategy, price, fired, side, times, high, streak>>

Spends(a) ==
  /\ strategy = "opener" /\ a \in rich /\ rich' = rich \ {a} /\ batch' = {}
  /\ UNCHANGED <<strategy, price, pos, fired, side, times, high, streak, seasonVars>>

StrategyNext ==
  \/ \E a \in Agents : Ask(a) \/ Spends(a) \/ \E t \in StrategyTokens : Trades(a, t)
  \/ \E t \in StrategyTokens : Moves(t)
  \/ NewSeason

StrategySpec == StrategyInit /\ [][StrategyNext]_stratVars

-----------------------------------------------------------------------------
(* Properties *)

\* price_change never signals one side of a token more often in a row than its limit,
\* over the calls of all agents (price_change.py:91-136).
RunsAreShort == \A t \in StrategyTokens : streak[t].len <= MaxConsecutive

\* "Fires exactly ONCE at the start of a season" and "guarantees at least 1 BUY per agent
\* per season" (opener.py:3, 13): in a season in which it bought for somebody, it did for
\* everybody it was asked for with money, without positions and with tokens worth buying.
\* It does not hold: one object serves all agents (opener.py:26-41).
OpensForEachAgent == opened # {} => ready \subseteq opened

\* No strategy but the limit orders asks an amount for what the agent does not hold, be it
\* as a position or, of the rebalancer, as a balance; and none but those and the volatility
\* scalp asks both sides of a token (price_change.py:124-147, rebalance.py:25-59).
SalesBacked ==
  \A s \in batch :
    /\ s.side = "SELL" /\ s.sized /\ strategy # "limit_orders"
         => \/ strategy = "rebalance" /\ s.tok \in {Native, Stable}
            \/ Some(s.who, s.tok)
    /\ strategy \notin {"limit_orders", "volatility_scalp"}
         => \A r \in batch : r.tok = s.tok => r.side = s.side
==============================================================================
