------------------------------ MODULE LiveFills ------------------------------
(***************************************************************************)
(* What the broker filled of each submission, as its row records it, and     *)
(* the gross of a trade booked from the rows.                                *)
(* (services/live_fills.py; trade_history.py:_price_trade)                   *)
(*                                                                          *)
(* A broker order fills at one price, so an average price is kept as what    *)
(* was paid in all: quantity times average, before it is rounded.            *)
(***************************************************************************)
EXTENDS Integers, FiniteSets, FiniteSetsExt

CONSTANTS
    Sub,       \* the submissions of one signal
    Slice,     \* the broker orders they make
    Owner,     \* the submission of each slice
    Long,      \* those that buy
    Quantity,  \* the size of each order
    Price      \* what each order fills at

Slices(s) == {o \in Slice : Owner[o] = s}

\* Nothing recorded yet.
NoFill == [quantity |-> 0, paid |-> 0, status |-> "none"]

-----------------------------------------------------------------------------
(* Recording.                                                                *)

\* Mutant: a row whose numbers were never learned matches nothing.
MatchesNumber(row, o, s) == Owner[o] = s /\ row.status \in {"ACCEPTED", "RESOLVED_PLACED"}

\* _matches, by number, or by the tag the order carried.
Matches(row, o, s) == Owner[o] = s

\* _agreed_status: slices that disagree are neither.
AgreedStatus(statuses) ==
    IF Cardinality(statuses) = 1 THEN CHOOSE x \in statuses : TRUE ELSE "PARTIAL"

\* record_fills for one row, from a reading of the order book.
RecordFill(row, book, s) ==
    LET mine   == {o \in Slice : book[o].status # "none" /\ Matches(row, o, s)}
        filled == MapThenSumSet(LAMBDA o : book[o].filled, mine)
        paid   == MapThenSumSet(LAMBDA o : book[o].filled * Price[o], mine)
    IN IF mine = {} THEN row.fill
       ELSE [quantity |-> filled,
             paid     |-> paid,
             status   |-> AgreedStatus({book[o].status : o \in mine})]

-----------------------------------------------------------------------------
(* Pricing.                                                                  *)

\* Mutant: an order that was cancelled is no part of the price, nor what it filled.
CompleteOnly(rows) == {s \in Sub : rows[s].fill.status = "COMPLETE"}

\* fills_by_signal: the rows that filled.
Filled(rows) == {s \in Sub : rows[s].fill.quantity > 0}

\* _aggregate, for one direction.
Aggregate(rows, side) ==
    LET mine == Filled(rows) \cap side
    IN [quantity |-> MapThenSumSet(LAMBDA s : rows[s].fill.quantity, mine),
        paid     |-> MapThenSumSet(LAMBDA s : rows[s].fill.paid, mine)]

\* SignalFills.gross is (sold/sold quantity - bought/bought quantity) times what
\* round-tripped; _price_trade falls back on the model's figure without it.
Priced(buy, sell) == buy.quantity > 0 /\ sell.quantity > 0
GrossTimes(buy, sell) ==
    (sell.paid * buy.quantity - buy.paid * sell.quantity)
        * Min({buy.quantity, sell.quantity})
=============================================================================
