------------------------------ MODULE PaperTrade ------------------------------
(***************************************************************************)
(* The orders and the position of one paper trade, and what a completed      *)
(* candle fills of them.  (services/paper_execution.py)                      *)
(*                                                                          *)
(* Time is counted in candles of the instrument: an order is eligible from   *)
(* the candle `after`.                                                       *)
(***************************************************************************)
EXTENDS Integers

EXIT_ROLES == {"HALT", "STOP", "TARGET", "TIME"}
Role == EXIT_ROLES \cup {"ENTRY"}

\* The order in which a pass looks at exits.
Before(r, s) == LET rank == [HALT |-> 0, STOP |-> 1, TARGET |-> 2, TIME |-> 3] IN rank[r] < rank[s]

Working(o) == o.status \in {"PENDING", "PARTIALLY_FILLED"}
Running(p) == p.status \in {"OPENING", "OPEN", "REDUCING"}

NoOrder    == [status |-> "none", quantity |-> 0, filled |-> 0, after |-> 0]
NoPosition == [status |-> "none", open |-> 0, pnl |-> 0, opened |-> 0]
NewOrder(quantity, after) == [status |-> "PENDING", quantity |-> quantity, filled |-> 0, after |-> after]
NoTrade  == [order |-> [r \in Role |-> NoOrder], position |-> NoPosition, closed |-> FALSE]

-----------------------------------------------------------------------------
(* Fills.                                                                    *)

Least(a, b) == IF a < b THEN a ELSE b
Most(a, b)  == IF a > b THEN a ELSE b

Filled(o, q) == [o EXCEPT !.filled = @ + q,
                          !.status = IF o.filled + q = o.quantity THEN "FILLED" ELSE "PARTIALLY_FILLED"]

\* Mutant: without the clamp to what is held.
FillableUnclamped(trade, r, capacity) == Least(trade.order[r].quantity - trade.order[r].filled, capacity)

\* What an order may fill on a candle that trades up to `capacity`: an exit
\* never more than is held.
Fillable(trade, r, capacity) ==
    LET left == Least(trade.order[r].quantity - trade.order[r].filled, capacity)
    IN IF r \in EXIT_ROLES THEN Least(left, Most(0, trade.position.open)) ELSE left

\* _apply_fill for an exit: the position is reduced, and closed with its
\* counterparts cancelled.
FillExit(trade, r, q) ==
    LET open   == trade.position.open - q
        closes == open <= 0
    IN [order    |-> [x \in Role |->
                        IF x = r THEN Filled(trade.order[x], q)
                        ELSE IF closes /\ x \in EXIT_ROLES /\ Working(trade.order[x])
                        THEN [trade.order[x] EXCEPT !.status = "CANCELLED"]
                        ELSE trade.order[x]],
        position |-> [trade.position EXCEPT !.open = open,
                                            !.status = IF closes THEN "CLOSED" ELSE "REDUCING"],
        closed   |-> closes]

\* _create_exit_orders: a bracket for what is held.
Bracket(o, open, after) ==
    CASE o.status = "none" -> NewOrder(open, after)
      [] Working(o)        -> [o EXCEPT !.quantity = Most(o.filled, open)]
      [] OTHER             -> o

\* _apply_fill for the entry.
FillEntry(trade, q, k) ==
    LET entry  == Filled(trade.order["ENTRY"], q)
        opened == IF trade.position.status = "none" THEN k + 1 ELSE trade.position.opened
        open   == trade.position.open + q
    IN [trade EXCEPT
          !.order = [r \in Role |-> CASE r = "ENTRY"            -> entry
                                      [] r \in {"STOP", "TARGET"} -> Bracket(@[r], open, opened)
                                      [] OTHER                  -> @[r]],
          !.position = [@ EXCEPT !.open = open, !.opened = opened,
                                 !.status = IF entry.status = "FILLED" THEN "OPEN" ELSE "OPENING"]]

\* The orders of a pass, in their order: one exit at most, then the entry.
Fills(trade, work, hit, capacity, k) ==
    LET able   == {r \in work \cap EXIT_ROLES :
                     /\ r \in {"STOP", "TARGET"} => r \in hit
                     /\ Fillable(trade, r, capacity) > 0}
        first  == CHOOSE r \in able : \A s \in able \ {r} : Before(r, s)
        exited == IF able = {} THEN trade
                  ELSE FillExit(trade, first, Fillable(trade, first, capacity))
    IN IF "ENTRY" \in work
       THEN FillEntry(exited, Fillable(exited, "ENTRY", capacity), k)
       ELSE exited

\* _queue_time_exit: once, for what is held.
QueueTime(trade, after) ==
    IF Running(trade.position) /\ trade.position.open > 0 /\ trade.order["TIME"] = NoOrder
    THEN [trade EXCEPT !.order["TIME"] = NewOrder(trade.position.open, after)]
    ELSE trade
=============================================================================
