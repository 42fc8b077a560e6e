------------------------------ MODULE TradeExit ------------------------------
(***************************************************************************)
(* How one trade is left: the levels its strategy planned, the paper engine  *)
(* that manages it candle by candle, and the backtest that measured the      *)
(* strategy, both over the same candles.  (services/exit_rules.py,           *)
(* paper_execution.py, backtesting.py)                                       *)
(*                                                                          *)
(* Prices are ticks and times minutes.  A multiple is a whole number, the    *)
(* percent floor a distance, slippage a number of ticks.  A minute in which  *)
(* nothing trades has no candle.  A candle on which little trades fills one   *)
(* unit of an order, another fills it whole: the entry and an exit may each  *)
(* take several.                                                             *)
(***************************************************************************)
EXTENDS PaperTrade

CONSTANTS
    Price,          \* prices the instrument trades at
    EntryPrice,     \* the close of the signal's candle
    Qty,            \* quantity of the signal
    StopAtr,        \* stop_atr_multiple
    MinStop,        \* min_stop_distance_percent of the entry price
    TargetRr,       \* target_rr
    TargetAtr,      \* target_atr_multiple
    TriggerR,       \* trailing_trigger_r
    TrailAtr,       \* trailing_atr_multiple
    Slippage,       \* slippage_bps
    TimeLimit,      \* time_exit_minutes, of a strategy that has one
    SquareOff,      \* square_off_time, likewise, from the signal
    Width,          \* bound: structural distance, and ATR
    MaxCandle       \* bound: candles after the signal

ASSUME ExitAssumption ==
    /\ Price \subseteq Nat /\ EntryPrice \in Price
    /\ {Qty, TargetRr, TargetAtr, TriggerR, TrailAtr, TimeLimit, SquareOff} \subseteq Nat \ {0}
    /\ {StopAtr, MinStop, Slippage, Width, MaxCandle} \subseteq Nat
    /\ \A p \in Price : p >= Slippage   \* a part of the price

VARIABLES
    rules,    \* ExitRules, as stored with the signal
    signal,   \* side and levels
    k,        \* candles of the instrument since the signal
    minute,   \* when the last of them closed
    trade,    \* the paper engine's orders and position
    stop,     \* stop_price of its STOP order
    entry,    \* its average_entry_price
    opened,   \* its opened_at
    left,     \* its first exit
    bought,   \* the candles of the entry's fills
    moved,    \* the candles of the trail that its STOP order records
    test      \* the backtest of the trade

vars == <<rules, signal, k, minute, trade, stop, entry, opened, left, bought, moved, test>>

-----------------------------------------------------------------------------
(* Prices, as a trade of the signal's side sees them.                        *)

Ahead(a, b)  == IF signal.side = "LONG" THEN a - b ELSE b - a
Better(a, b) == Ahead(a, b) > 0
Extreme(c)   == IF signal.side = "LONG" THEN c.high ELSE c.low

slipped_price(reference, side) == IF side = "BUY" THEN reference + Slippage ELSE reference - Slippage
entry_side == IF signal.side = "LONG" THEN "BUY" ELSE "SELL"
exit_side  == IF signal.side = "LONG" THEN "SELL" ELSE "BUY"

\* Mutant: without the floor.
VolumeAlone(volume) == volume

\* What a candle lets an order fill: never nothing.
fill_capacity(volume) == Most(1, volume)

-----------------------------------------------------------------------------
(* The levels: exit_rules.plan.                                              *)

toward(side) == IF side = "LONG" THEN 1 ELSE -1

\* The widest of the structural distance and the two floors.
RiskPerUnit(structural, atr) == Most(structural, Most(atr * StopAtr, MinStop))

Reward(risk, atr, target_rule) ==
    IF target_rule = "ATR_MULTIPLE" /\ atr > 0 THEN atr * TargetAtr ELSE risk * TargetRr

Plan(side, risk, reward) ==
    [side |-> side, stop |-> EntryPrice - toward(side) * risk, target |-> EntryPrice + toward(side) * reward]

-----------------------------------------------------------------------------
(* trail_to                                                                  *)

Risk == LET d == EntryPrice - signal.stop IN Most(d, -d)

Asks(c, paid, atr) ==
    \/ rules.trailing = "BREAKEVEN_AT_R" /\ Ahead(Extreme(c), paid) >= Risk * TriggerR
    \/ rules.trailing = "ATR_TRAIL" /\ atr > 0

Level(c, paid, atr) ==
    IF rules.trailing = "BREAKEVEN_AT_R" THEN paid
    ELSE Extreme(c) - toward(signal.side) * atr * TrailAtr

\* Mutant: the level moves whichever way the rule asks.
TrailAnyWay(c, paid, current, atr) ==
    IF Asks(c, paid, atr) /\ Better(c.close, Level(c, paid, atr)) THEN Level(c, paid, atr) ELSE current

\* Where the stop is after a candle: better than it was, and not through the
\* close, or where it was.
trail_to(c, paid, current, atr) ==
    LET level == Level(c, paid, atr)
    IN IF Asks(c, paid, atr) /\ Better(level, current) /\ Better(c.close, level) THEN level ELSE current

time_exit_due(from, now) ==
    \/ rules.limit > 0 /\ now - from >= rules.limit
    \/ rules.square_off > 0 /\ now >= rules.square_off

-----------------------------------------------------------------------------
NotLeft == [why |-> "none", at |-> 0, k |-> 0]

Init ==
    /\ \E trailing \in {"NONE", "BREAKEVEN_AT_R", "ATR_TRAIL"},
          clock \in {<<0, 0>>, <<TimeLimit, 0>>, <<0, SquareOff>>} :
         rules = [trailing |-> trailing, limit |-> clock[1], square_off |-> clock[2]]
    /\ \E side \in {"LONG", "SHORT"}, structural, atr \in 0..Width, target_rule \in {"RR_MULTIPLE", "ATR_MULTIPLE"} :
         LET risk == RiskPerUnit(structural, atr) IN
         /\ risk > 0
         /\ signal = Plan(side, risk, Reward(risk, atr, target_rule))
    /\ k = 0 /\ minute = 0
    /\ trade = [NoTrade EXCEPT !.order["ENTRY"] = NewOrder(Qty, 1)]
    /\ stop = 0 /\ entry = 0 /\ opened = 0
    /\ left = NotLeft /\ bought = {} /\ moved = {}
    /\ test = [open |-> FALSE, paid |-> 0, stop |-> 0, left |-> NotLeft]

-----------------------------------------------------------------------------
(* The paper engine on a completed candle: process_completed_candle.         *)

\* _fillable, of the bracket.
Hits(c) ==
    {r \in {"STOP", "TARGET"} :
        LET reached == IF r = "STOP" THEN stop ELSE signal.target
            rises   == (r = "STOP") = (exit_side = "BUY")
        IN IF rises THEN c.high >= reached ELSE c.low <= reached}

Reference(r, c) ==
    CASE r = "STOP" -> stop [] r = "TARGET" -> signal.target [] OTHER -> c.open

Exited(after) == {r \in EXIT_ROLES : after.order[r].filled > trade.order[r].filled}

Eligible(n) == {r \in Role : Working(trade.order[r]) /\ trade.order[r].after <= n}

\* The mean of what is held at `a` and what is bought at `b`, as _money rounds it.
RoundedMean(a, held, b, more) == (2 * (a * held + b * more) + held + more) \div (2 * (held + more))

\* One transaction: the fills, then, of what is still held, the stop and the clock.
PaperPass(c, now, volume, atr) ==
    LET n == k + 1 IN
    \E filled \in {Fills([trade EXCEPT !.closed = FALSE], Eligible(n), Hits(c), fill_capacity(volume), n)} :
    LET more    == filled.order["ENTRY"].filled - trade.order["ENTRY"].filled
        paid    == IF more = 0 THEN entry
                   ELSE RoundedMean(entry, filled.position.open - more, slipped_price(c.open, entry_side), more)
        since   == IF n = 1 THEN now ELSE opened
        resting == IF n = 1 THEN signal.stop ELSE stop
        managed == filled.position.open > 0
        rests   == IF managed /\ Working(filled.order["STOP"])
                   THEN trail_to(c, paid, resting, atr) ELSE resting
    IN /\ trade' = IF managed /\ time_exit_due(since, now) THEN QueueTime(filled, n + 1) ELSE filled
       /\ stop' = rests /\ entry' = paid /\ opened' = since
       /\ bought' = IF more = 0 THEN bought ELSE bought \cup {n}
       /\ moved' = IF rests = resting THEN moved ELSE moved \cup {n}
       /\ left' = IF left # NotLeft \/ Exited(filled) = {} THEN left
                  ELSE LET r == CHOOSE r \in Exited(filled) : TRUE
                       IN [why |-> r, at |-> slipped_price(Reference(r, c), exit_side), k |-> n]

-----------------------------------------------------------------------------
(* The backtest: _exit_trade, from the candle after the entry.               *)

\* Mutant: a touch of both takes the target.
TestTargetFirst(c) ==
    LET target_hit == IF signal.side = "LONG" THEN c.high >= signal.target ELSE c.low <= signal.target
        stop_hit   == IF signal.side = "LONG" THEN c.low <= test.stop ELSE c.high >= test.stop
    IN IF target_hit THEN "TARGET" ELSE IF stop_hit THEN "STOP" ELSE "none"

\* A touch of both takes the stop.
TestHit(c) ==
    LET target_hit == IF signal.side = "LONG" THEN c.high >= signal.target ELSE c.low <= signal.target
        stop_hit   == IF signal.side = "LONG" THEN c.low <= test.stop ELSE c.high >= test.stop
    IN IF stop_hit THEN "STOP" ELSE IF target_hit THEN "TARGET" ELSE "none"

TestPass(c) ==
    LET why == TestHit(c)
        reference == IF why = "STOP" THEN test.stop ELSE signal.target
    IN test' = CASE k = 0 -> [test EXCEPT !.open = TRUE, !.stop = signal.stop,
                                                 !.paid = slipped_price(c.open, entry_side)]
                 [] test.open /\ why # "none" ->
                      [test EXCEPT !.open = FALSE,
                                   !.left = [why |-> why, at |-> slipped_price(reference, exit_side), k |-> k + 1]]
                 [] test.open /\ why = "none" -> [test EXCEPT !.stop = trail_to(c, test.paid, @, 0)]
                 [] OTHER -> test

-----------------------------------------------------------------------------
Candle == {c \in [open : Price, high : Price, low : Price, close : Price] :
              c.low <= c.open /\ c.open <= c.high /\ c.low <= c.close /\ c.close <= c.high}

Clocked == rules.limit + rules.square_off > 0

\* The open is read by a market order alone, the close by a rule that trails.
Traded == {c \in Candle : /\ \/ Working(trade.order["ENTRY"]) \/ Working(trade.order["TIME"])
                             \/ c.open = c.low
                          /\ rules.trailing # "NONE" \/ c.close = c.low}

\* One completed candle reaches both.
Next ==
    /\ k < MaxCandle
    /\ test.open \/ trade.position.open > 0 \/ Working(trade.order["ENTRY"])
    /\ \E c \in Traded, minutes \in IF Clocked THEN {1, 2} ELSE {1}, volume \in {0, Qty},
          atr \in IF rules.trailing = "ATR_TRAIL" THEN 0..Width ELSE {0} :
         /\ minute' = minute + minutes
         /\ PaperPass(c, minute', volume, atr)
         /\ TestPass(c)
    /\ k' = k + 1
    /\ UNCHANGED <<rules, signal>>

Spec == Init /\ [][Next]_vars

-----------------------------------------------------------------------------
(* Properties.                                                               *)

TypeOK ==
    /\ k \in 0..MaxCandle /\ minute \in k..2 * MaxCandle
    /\ trade.position.open \in 0..Qty
    /\ \A r \in Role : trade.order[r].filled \in 0..trade.order[r].quantity
    /\ {bought, moved} \subseteq SUBSET (1..k)

\* The entry bought more before the first exit, so that what was paid moved.
Averaged == \E b \in bought \ {1} : left = NotLeft \/ b < left.k

\* A strategy is measured as it is traded.  The backtest leaves out the clock
\* and ATR, and enters whole at one price: unless the trade has one of these, a
\* break-even stop follows an entry that took several candles, or the stop moved
\* on the candle of the entry, which only the paper engine lets it, the backtest
\* leaves on the candle, by the leg and at the price that the paper engine begins
\* to (backtesting.py:132, :138).
MeasuredAsTraded ==
    /\ rules.trailing # "ATR_TRAIL" /\ left.why # "TIME" /\ 1 \notin moved
    /\ rules.trailing = "BREAKEVEN_AT_R" => ~Averaged
    => test.left = left

\* Whatever gaps the price makes, a stop never gives up what the trail won.  No
\* trade is stopped out below its plan; one whose stop never moved, at the plan;
\* and one that moved to break-even since it last bought, at the price it paid
\* (exit_rules.py:195, :228).  One that has bought since may be stopped out below it.
StopKeepsGround ==
    [][left' # left /\ left'.why = "STOP" =>
         LET level == left'.at + toward(signal.side) * Slippage
             since == {m \in moved : \A b \in bought : b <= m}
         IN /\ ~Better(signal.stop, level)
            /\ moved = {} => level = signal.stop
            /\ rules.trailing = "BREAKEVEN_AT_R" /\ since # {} => level = entry]_vars

\* Once the clock asks for the exit, every further candle takes something off
\* what is held, however little trades (exit_rules.py:1-9), provided that the entry
\* had bought all it would when the exit was queued: what it buys afterwards no
\* clock takes off.
LeavesInTime ==
    [][/\ trade.position.open > 0 /\ time_exit_due(opened, minute)
       /\ ~Working(trade.order["ENTRY"])
       /\ trade.order["TIME"] # NoOrder => \A b \in bought : b < trade.order["TIME"].after
       => trade'.position.open < trade.position.open]_vars
=============================================================================
