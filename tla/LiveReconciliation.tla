-------------------------- MODULE LiveReconciliation --------------------------
(***************************************************************************)
(* Comparing the broker's books with our rows, while orders are sent, lost,  *)
(* found again, filled and cancelled, and somebody may trade the account by  *)
(* hand; and recording the fills, by every reconciliation and once more by    *)
(* the job that runs after the close.  (services/live_reconciliation.py,      *)
(* live_fills.py, scheduler.py:_make_broker_figures_job)                      *)
(*                                                                          *)
(* One instrument, one day.  A reading takes the order book, then the         *)
(* positions, then the rows, and the account moves in between; the rows are   *)
(* read, written and committed in one step.  Which verdict counts when two    *)
(* readings overlap is LiveSession's.                                         *)
(***************************************************************************)
EXTENDS LiveFills

CONSTANTS
    Entry,       \* the submissions that open the trade; the rest follow a fill
    Lot,         \* what an order fills at a time
    Manual,      \* orders placed on the account by hand
    ManualLong,  \* those that buy
    Reader,      \* readings: the jobs and the operator's request
    MaxMishaps   \* bound: readings begun and answers lost, together

Order == Slice \cup Manual

VARIABLES
    row,      \* live_order_submissions, of today
    book,     \* the broker's order book
    reading,  \* the locals of each reading
    readings, \* how many were begun
    day,      \* open, closed, or closed with the fills swept
    sweep     \* the locals of the sweep

vars == <<row, book, reading, readings, day, sweep>>

Idle == [pc |-> "idle"]

Init ==
    /\ row = [s \in Sub |-> [status |-> "none", fill |-> NoFill]]
    /\ book = [o \in Order |-> [status |-> "none", filled |-> 0]]
    /\ reading = [r \in Reader |-> Idle]
    /\ readings = 0
    /\ day = "open"
    /\ sweep = Idle

-----------------------------------------------------------------------------
(* The account.                                                              *)

Bought(o) == IF o \in Slice THEN Owner[o] \in Long ELSE o \in ManualLong
Net(orders) == MapThenSumSet(LAMBDA o : IF Bought(o) THEN book[o].filled ELSE -book[o].filled, orders)

\* A row has the numbers of its orders, and says that they exist.
LIVE_PLACED_STATUSES == {"ACCEPTED", "RESOLVED_PLACED"}
Known(s) == row[s].status \in LIVE_PLACED_STATUSES

Working(o) == book[o].status = "OPEN"
Reached(s) == \E o \in Slices(s) : book[o].status # "none"

\* submit_live_order: the row is written before the order is sent.
WriteAhead(s) ==
    /\ day = "open" /\ row[s].status = "none"
    /\ s \in Entry \/ \E o \in Slice : Owner[o] \in Entry /\ book[o].filled > 0
    /\ row' = [row EXCEPT ![s].status = "PREPARED"]
    /\ UNCHANGED <<book, reading, readings, day, sweep>>

\* The broker takes an order, in the slices it cuts it into.
Take(orders) ==
    /\ day = "open" /\ \A o \in orders : book[o].status = "none"
    /\ book' = [o \in Order |-> IF o \in orders THEN [book[o] EXCEPT !.status = "OPEN"] ELSE book[o]]
    /\ UNCHANGED <<row, reading, readings, day, sweep>>
Send(s)        == row[s].status \in {"PREPARED", "UNKNOWN"} /\ Take(Slices(s))
PlaceByHand(m) == Take({m})

\* What the sender, or recovery in its place, makes of the row.  One that is
\* PREPARED for good is the same question as an UNKNOWN one.
Lost == {s \in Sub : row[s].status \in {"UNKNOWN", "RESOLVED_PLACED", "NEEDS_REVIEW"}}
Bounded == Cardinality(Lost) + readings < MaxMishaps
Settle(s, from, to) ==
    /\ row[s].status \in from
    /\ row' = [row EXCEPT ![s].status = to]
    /\ UNCHANGED <<book, reading, readings, day, sweep>>
Accept(s)  == Reached(s) /\ Settle(s, {"PREPARED"}, "ACCEPTED")
Refuse(s)  == ~Reached(s) /\ Settle(s, {"PREPARED"}, "REJECTED")
Lose(s)    == Bounded /\ Settle(s, {"PREPARED"}, "UNKNOWN")
Recover(s) == Reached(s) /\ Settle(s, {"UNKNOWN"}, "RESOLVED_PLACED")
GiveUp(s)  == Settle(s, {"UNKNOWN"}, "NEEDS_REVIEW")

\* The exchange.
Fill(o) ==
    /\ day = "open" /\ Working(o)
    /\ LET q == Min({Lot[o], Quantity[o] - book[o].filled})
       IN book' = [book EXCEPT ![o].filled = @ + q,
                              ![o].status = IF book[o].filled + q = Quantity[o] THEN "COMPLETE" ELSE @]
    /\ UNCHANGED <<row, reading, readings, day, sweep>>
Withdraw(o) ==
    /\ day = "open" /\ Working(o)
    /\ book' = [book EXCEPT ![o].status = "CANCELLED"]
    /\ UNCHANGED <<row, reading, readings, day, sweep>>
Close ==
    /\ day = "open" /\ day' = "closed"
    /\ book' = [o \in Order |-> IF Working(o) THEN [book[o] EXCEPT !.status = "CANCELLED"] ELSE book[o]]
    /\ UNCHANGED <<row, reading, readings, sweep>>

-----------------------------------------------------------------------------
(* A reconciliation.                                                         *)

ReadOrders(r) ==
    /\ reading[r].pc = "idle"
    /\ Bounded /\ readings' = readings + 1
    /\ reading' = [reading EXCEPT ![r] = [pc |-> "orders", book |-> book]]
    /\ UNCHANGED <<row, book, day, sweep>>

\* `hand` is not the program's: what of the position was traded by hand.
ReadPositions(r) ==
    /\ reading[r].pc = "orders"
    /\ reading' = [reading EXCEPT ![r] = [pc |-> "positions", book |-> reading[r].book,
                                          net |-> Net(Order), hand |-> Net(Manual)]]
    /\ UNCHANGED <<row, book, readings, day, sweep>>

\* The broker cannot be reached, or a quantity or a status cannot be read: a
\* blocked verdict.  Or the process dies, and nothing is stored.
Abandon(r) ==
    /\ reading[r].pc # "idle"
    /\ reading' = [reading EXCEPT ![r] = Idle]
    /\ UNCHANGED <<row, book, readings, day, sweep>>

\* Mutant: what is recorded as filled, not what was asked for.
GrossRecorded(side) == MapThenSumSet(LAMBDA s : row[s].fill.quantity, {s \in side : Known(s)})

\* _plausible_range: the most our own orders could have left, either way.
Gross(side) ==
    MapThenSumSet(LAMBDA o : Quantity[o],
                  {o \in Slice : Known(Owner[o]) /\ Owner[o] \in side})

\* Orders in the book that no row has the number of.
Untracked(seen) == {o \in Order : /\ seen[o].status # "none"
                                  /\ o \in Slice => ~Known(Owner[o])}

\* Mutant: an order nobody here placed is looked at, and blocks nothing.
NotedOnly(seen, net) ==
    \/ \E s \in Sub : row[s].status = "UNKNOWN"
    \/ net # 0 /\ net \notin -Gross(Sub \ Long)..Gross(Long)

Blocking(seen, net) ==
    \/ \E s \in Sub : row[s].status = "UNKNOWN"
    \/ \E o \in Untracked(seen) : seen[o].status = "OPEN"
    \/ net # 0 /\ net \notin -Gross(Sub \ Long)..Gross(Long)

\* Untracked and finished; ours and missing from the book; filled in part.
Review(seen, net) ==
    \/ Untracked(seen) # {}
    \/ \E o \in Slice : Known(Owner[o]) /\ seen[o].status = "none"
    \/ net # 0 /\ net # Gross(Long) - Gross(Sub \ Long)

Verdict(seen, net) ==
    IF Blocking(seen, net) THEN "BLOCKED" ELSE IF Review(seen, net) THEN "REQUIRES_REVIEW" ELSE "CLEAN"

Conclude(r) ==
    /\ reading[r].pc = "positions"
    /\ row' = [s \in Sub |-> [row[s] EXCEPT !.fill = RecordFill(row[s], reading[r].book, s)]]
    /\ reading' = [reading EXCEPT ![r] = Idle]
    /\ UNCHANGED <<book, readings, day, sweep>>

-----------------------------------------------------------------------------
(* The sweep after the close.                                                *)

\* A reading is over within its timeouts, hours before the sweep.
NoReadingFromToday == \A r \in Reader : reading[r].pc # "idle" => reading[r].book = book

\* It loads the rows before it asks for the book.
SweepRows ==
    /\ day = "closed" /\ sweep = Idle
    /\ NoReadingFromToday
    /\ \E s \in Sub : Known(s)
    /\ sweep' = [pc |-> "rows", rows |-> row]
    /\ UNCHANGED <<row, book, reading, readings, day>>

\* A column is written when it differs from what was loaded.
SweepBook ==
    /\ sweep.pc = "rows"
    /\ row' = [s \in Sub |->
                  LET loaded == sweep.rows[s]
                      fill   == RecordFill(loaded, book, s)
                  IN IF fill = loaded.fill THEN row[s] ELSE [row[s] EXCEPT !.fill = fill]]
    /\ sweep' = Idle
    /\ day' = "swept"
    /\ UNCHANGED <<book, reading, readings>>

\* The job runs once a day.
SweepFails ==
    /\ sweep.pc = "rows"
    /\ sweep' = [pc |-> "failed"]
    /\ UNCHANGED <<row, book, reading, readings, day>>

-----------------------------------------------------------------------------
Account ==
    \/ \E s \in Sub : WriteAhead(s) \/ Send(s) \/ Accept(s) \/ Refuse(s) \/ Lose(s) \/ Recover(s) \/ GiveUp(s)
    \/ \E m \in Manual : PlaceByHand(m)
    \/ \E o \in Order : Fill(o) \/ Withdraw(o)
    \/ Close
Read == \E r \in Reader : ReadOrders(r) \/ ReadPositions(r) \/ Abandon(r) \/ Conclude(r)
Sweep == SweepRows \/ SweepBook \/ SweepFails

Next == Account \/ Read \/ Sweep

Spec == Init /\ [][Next]_vars

-----------------------------------------------------------------------------
(* Properties.                                                               *)

Fills == [quantity : Nat, paid : Nat, status : {"none", "OPEN", "COMPLETE", "CANCELLED", "PARTIAL"}]

\* Every variable is of its type, and a row has the numbers of its orders when
\* its status says they exist and only for orders the broker has.
TypeOK ==
    /\ \A s \in Sub :
         /\ row[s].status \in {"none", "PREPARED", "ACCEPTED", "REJECTED", "UNKNOWN", "RESOLVED_PLACED", "NEEDS_REVIEW"}
         /\ row[s].fill \in Fills
         /\ Known(s) => Reached(s)
    /\ \A o \in Order : book[o].filled \in 0..Quantity[o]
                        /\ book[o].status \in {"none", "OPEN", "COMPLETE", "CANCELLED"}
    /\ \A r \in Reader : reading[r].pc \in {"idle", "orders", "positions"}
    /\ readings \in 0..MaxMishaps
    /\ day \in {"open", "closed", "swept"}

\* The rows leave nothing open: none waits for its outcome, and none that was
\* given up is an order after all.
RowsSettled == \A s \in Sub : /\ row[s].status \notin {"PREPARED", "UNKNOWN"}
                              /\ row[s].status = "NEEDS_REVIEW" => ~Reached(s)

\* An account that holds nothing by hand is found safe, whatever our orders did
\* while the books were read one after the other, unless a row was open when the
\* rows were read: an order sent, filled or found again in the middle of a
\* reading does not stop the day.  (live_reconciliation.py:191-461)
OwnAccountIsSafe ==
    \A r \in Reader :
        /\ reading[r].pc = "positions"
        /\ reading[r].hand = 0
        /\ \A m \in Manual : reading[r].book[m].status # "OPEN"
        /\ RowsSettled
        => Verdict(reading[r].book, reading[r].net) # "BLOCKED"

\* An order somebody else has working when the order book is read blocks, and so
\* does what was traded by hand and still held once it is more than our own
\* orders could hide.  (live_reconciliation.py:312-456)
HandBlocks ==
    \A r \in Reader :
        /\ reading[r].pc = "positions"
        /\ \/ \E m \in Manual : reading[r].book[m].status = "OPEN"
           \/ RowsSettled /\ reading[r].hand \notin -Gross(Sub)..Gross(Sub)
        => Verdict(reading[r].book, reading[r].net) = "BLOCKED"

FilledOf(s) == MapThenSumSet(LAMBDA o : book[o].filled, Slices(s))
PaidOf(s)   == MapThenSumSet(LAMBDA o : book[o].filled * Price[o], Slices(s))

\* After the sweep every row says what the broker filled of it, at the price it
\* did: rows whose answer was lost too, and whatever readings recorded before,
\* in whatever order they committed.  (live_fills.py:61-115, 226-259)
SweptIsFinal ==
    day = "swept" =>
        \A s \in Sub : /\ row[s].fill.quantity = FilledOf(s)
                       /\ row[s].fill.paid = PaidOf(s)
                       /\ IF row[s].fill.status = "PARTIAL"
                          THEN \E o, p \in Slices(s) : book[o].status # book[p].status
                          ELSE \A o \in Slices(s) : book[o].status = row[s].fill.status

\* A trade that ended flat is booked after the sweep at what it left in cash,
\* over slices, stops that filled in part and orders found again.
\* (live_fills.py:166-223, trade_history.py:437-474)
BookedIsCash ==
    LET buy  == Aggregate(row, Long)
        sell == Aggregate(row, Sub \ Long)
        cash == MapThenSumSet(LAMBDA s : PaidOf(s), Sub \ Long) - MapThenSumSet(LAMBDA s : PaidOf(s), Long)
    IN day = "swept" /\ Net(Slice) = 0 /\ (\E o \in Slice : book[o].filled > 0)
       => Priced(buy, sell) /\ GrossTimes(buy, sell) = cash * buy.quantity * sell.quantity
=============================================================================
