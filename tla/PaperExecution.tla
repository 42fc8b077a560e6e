--------------------------- MODULE PaperExecution ---------------------------
(***************************************************************************)
(* The paper engine: completed candles fill simulated orders, signals        *)
(* reserve risk and queue an entry, and the day's loss limit halts it.       *)
(* (services/paper_execution.py, risk_engine.py, daily_limits.py, and the    *)
(* part of scanner_orchestration.py that calls them.)                        *)
(*                                                                          *)
(* Each instrument has one signal.  Candles of one instrument, or of two,    *)
(* are processed by coroutines that overlap: every message of the feed is a  *)
(* coroutine of its own, and the flush of expired candles is another.  A     *)
(* pass is one transaction: it locks the orders it may fill, works on what   *)
(* it read, and its writes appear when it commits.                           *)
(***************************************************************************)
EXTENDS PaperTrade, FiniteSets, FiniteSetsExt

CONSTANTS
    Signal,     \* signals of the day, each of its own instrument
    NoSignal,
    Task,       \* coroutines that complete candles
    Qty,        \* quantity of a signal
    MaxOpen,    \* maximum_open_positions
    Budget,     \* the day's risk, in signals
    LossLimit,  \* daily_loss_limit, in units of a position's loss
    MaxCandle,  \* bound: candles of all instruments
    MaxFaults   \* bound: coroutines that raise or are cancelled

VARIABLES
    candle,       \* the last completed candle of each instrument
    order,        \* paper_orders, by signal and role
    position,     \* paper_positions
    reservation,  \* risk_reservations
    halted,       \* whether session_halts has a row for the day
    signalled,    \* paper_signals
    task,
    faults

vars   == <<candle, order, position, reservation, halted, signalled, task, faults>>
ledger == <<order, position>>

-----------------------------------------------------------------------------
Trade(s) == [order |-> order[s], position |-> position[s], closed |-> FALSE]

Idle == [pc |-> "idle", sig |-> NoSignal, k |-> 0, work |-> {},
         base |-> NoTrade, draft |-> NoTrade, cancel |-> {}, flat |-> [s \in Signal |-> 0],
         accepted |-> FALSE, halting |-> FALSE]

\* The day is looked at from its start, or from when one entry has been queued.
Init ==
    /\ candle = [s \in Signal |-> 0]
    /\ signalled \in {{}} \cup {{s} : s \in Signal}
    /\ order = [s \in Signal |-> [r \in Role |-> IF s \in signalled /\ r = "ENTRY" THEN NewOrder(Qty, 0) ELSE NoOrder]]
    /\ position = [s \in Signal |-> NoPosition]
    /\ reservation = [s \in Signal |-> IF s \in signalled THEN "ACTIVE" ELSE "none"]
    /\ halted = FALSE
    /\ task = [t \in Task |-> Idle]
    /\ faults = 0

-----------------------------------------------------------------------------
\* _mark_to_market and _manage_open_positions: the price moves, and the clock
\* may ask for an exit.
Manage(trade, pnl, due, k) ==
    LET marked == [trade EXCEPT !.position.pnl = IF Running(trade.position) \/ trade.closed THEN pnl ELSE @]
    IN IF due THEN QueueTime(marked, k + 1) ELSE marked

-----------------------------------------------------------------------------
(* A pass: process_completed_candle, one transaction.                        *)

\* Mutant: without FOR UPDATE.
HoldsNothing(t, s, r) == FALSE

\* Rows a transaction has locked and not yet committed.
Holds(t, s, r) ==
    task[t].pc \in {"fill", "update", "halt", "blocked", "commit"} /\ task[t].sig = s /\ r \in task[t].work

Complete(t, s) ==
    /\ task[t].pc = "idle"
    /\ MapThenSumSet(LAMBDA r : candle[r], Signal) < MaxCandle
    /\ candle' = [candle EXCEPT ![s] = @ + 1]
    /\ task' = [task EXCEPT ![t] = [Idle EXCEPT !.pc = "query", !.sig = s, !.k = candle[s] + 1]]
    /\ UNCHANGED <<ledger, reservation, halted, signalled, faults>>

Eligible(s, k) == {r \in Role : Working(order[s][r]) /\ order[s][r].after <= k}

\* SELECT ... FOR UPDATE: the rows of the statement's snapshot ...
Query(t) ==
    /\ task[t].pc = "query"
    /\ task' = [task EXCEPT ![t].pc = "lock", ![t].work = Eligible(task[t].sig, task[t].k)]
    /\ UNCHANGED <<candle, ledger, reservation, halted, signalled, faults>>

\* ... each waited for, and looked at again once it is free.
Lock(t) ==
    LET s == task[t].sig IN
    /\ task[t].pc = "lock"
    /\ \A u \in Task \ {t}, r \in task[t].work : ~Holds(u, s, r)
    /\ task' = [task EXCEPT ![t].pc = "fill", ![t].base = Trade(s),
                            ![t].work = {r \in @ : Working(order[s][r])}]
    /\ UNCHANGED <<candle, ledger, reservation, halted, signalled, faults>>

\* session_pnl: what is committed, and this pass's own position.
SessionPnl(s, own) == own.pnl + MapThenSumSet(LAMBDA r : position[r].pnl, Signal \ {s})

\* The orders of these roles that a pass has filled.
Filling(t, roles) == \E r \in roles : task[t].draft.order[r].filled # task[t].base.order[r].filled

\* A pass that moved a position has its row locked: an exit before it reads it, the entry from
\* where it writes it.
Moved(t) == Filling(t, Role)
HoldsPosition(t, s) == task[t].pc \in {"halt", "blocked", "commit"} /\ task[t].sig = s /\ Moved(t)

PositionFree(t) == \A u \in Task \ {t} : ~HoldsPosition(u, task[t].sig)

\* The day's standing, the pass's own position counted as it leaves it.
Standing(s, own) == IF ~halted /\ SessionPnl(s, own) <= -LossLimit THEN "halt" ELSE "commit"

\* The entry that filled alone has yet to write a position it did not lock.
AfterFills(s, read, done) ==
    IF {r \in Role : done.order[r].filled # read.order[r].filled} = {"ENTRY"} THEN "update"
    ELSE Standing(s, done.position)

\* Fills, marks and the clock, on the locked orders and on the rest as it now is (before an
\* exit the position is locked too); then the day's standing.
Fill(t) ==
    LET s == task[t].sig
        read == [Trade(s) EXCEPT !.order = [r \in Role |-> IF r \in task[t].work THEN task[t].base.order[r] ELSE @[r]]]
    IN
    /\ task[t].pc = "fill"
    /\ \E hit \in SUBSET ({"STOP", "TARGET"} \cap task[t].work), capacity \in 1..Qty,
          pnl \in {-1, 0}, due \in BOOLEAN :
         LET filled == Fills(read, task[t].work, hit, capacity, task[t].k)
             done   == Manage(filled, pnl, due, task[t].k)
         IN /\ hit \cup ({"HALT", "TIME"} \cap task[t].work) # {} => PositionFree(t)
            /\ task' = [task EXCEPT ![t].pc = AfterFills(s, read, done),
                                    ![t].base = read, ![t].draft = done]
    /\ UNCHANGED <<candle, ledger, reservation, halted, signalled, faults>>

\* The entry read the position unlocked: writing it waits for the pass that has it.
Update(t) ==
    /\ task[t].pc = "update"
    /\ PositionFree(t)
    /\ task' = [task EXCEPT ![t].pc = Standing(task[t].sig, task[t].draft.position)]
    /\ UNCHANGED <<candle, ledger, reservation, halted, signalled, faults>>

Inserting(t) == \E u \in Task \ {t} : task[u].halting

\* record_halt, then what a halt reads: orders that work, positions that are
\* open.
Halt(t) ==
    LET s == task[t].sig
        rows(r) == IF r = s THEN task[t].draft ELSE Trade(r)
    IN
    /\ task[t].pc \in {"halt", "blocked"}
    /\ ~halted /\ ~Inserting(t)
    /\ task' = [task EXCEPT
         ![t].pc = "commit", ![t].halting = TRUE,
         ![t].cancel = {x \in Signal \X Role : Working(rows(x[1]).order[x[2]])},
         ![t].flat = [r \in Signal |-> IF Running(rows(r).position) THEN Most(0, rows(r).position.open) ELSE 0]]
    /\ UNCHANGED <<candle, ledger, reservation, halted, signalled, faults>>

\* The day halted meanwhile, or its row is being inserted by another.
HaltIsThere(t) ==
    /\ task[t].pc = "halt"
    /\ halted \/ Inserting(t)
    /\ task' = [task EXCEPT ![t].pc = IF halted THEN "commit" ELSE "blocked"]
    /\ UNCHANGED <<candle, ledger, reservation, halted, signalled, faults>>

\* What a pass writes is the columns it changed, over what others have committed.
Column(old, new, now) == IF new = old THEN now ELSE new

WrittenPosition(t, s) ==
    LET old == task[t].base.position  new == task[t].draft.position  now == position[s] IN
    IF task[t].sig # s THEN now
    ELSE [status |-> Column(old.status, new.status, now.status), open |-> Column(old.open, new.open, now.open),
          pnl |-> Column(old.pnl, new.pnl, now.pnl), opened |-> Column(old.opened, new.opened, now.opened)]

Kept(t, s, r) ==
    LET old == task[t].base.order[r]  new == task[t].draft.order[r]  now == order[s][r] IN
    IF task[t].sig # s THEN now
    ELSE [status |-> Column(old.status, new.status, now.status),
          quantity |-> Column(old.quantity, new.quantity, now.quantity),
          filled |-> Column(old.filled, new.filled, now.filled), after |-> Column(old.after, new.after, now.after)]

Written(t, s) ==
    [r \in Role |->
       IF <<s, r>> \in task[t].cancel THEN [Kept(t, s, r) EXCEPT !.status = "CANCELLED"]
       ELSE IF r = "HALT" /\ task[t].flat[s] > 0 THEN NewOrder(task[t].flat[s], WrittenPosition(t, s).opened)
       ELSE Kept(t, s, r)]

\* Another has added the order of a role that this pass adds.
Clash(t) ==
    LET s == task[t].sig IN
    \E r \in Role : NoOrder \notin {task[t].draft.order[r], order[s][r]} /\ task[t].base.order[r] = NoOrder

\* Its writes wait for the rows that another holds: orders it changes or cancels.
Touched(t) ==
    task[t].cancel \cup {<<task[t].sig, r>> : r \in {q \in Role : task[t].draft.order[q] # task[t].base.order[q]}}
Waits(t, u) == \E x \in Touched(t) : Holds(u, x[1], x[2])

Commit(t) ==
    /\ task[t].pc = "commit" /\ ~Clash(t)
    /\ \A u \in Task \ {t} : ~Waits(t, u)
    /\ order' = [s \in Signal |-> Written(t, s)]
    /\ position' = [s \in Signal |-> WrittenPosition(t, s)]
    /\ halted' = (halted \/ task[t].halting)
    /\ task' = [task EXCEPT ![t] = [Idle EXCEPT
         !.pc = IF task[t].draft.closed THEN "settle" ELSE "next", !.sig = task[t].sig, !.k = task[t].k]]
    /\ UNCHANGED <<candle, reservation, signalled, faults>>

-----------------------------------------------------------------------------
(* After the pass: the reservation is settled and the candle evaluated.      *)

\* Mutant: a halted day settles nothing.
SettleUnlessHalted(t) ==
    LET s == task[t].sig IN
    /\ task[t].pc = "settle"
    /\ reservation' = [reservation EXCEPT ![s] = IF @ = "ACTIVE" /\ ~halted THEN "SETTLED" ELSE @]
    /\ task' = [task EXCEPT ![t].pc = "next"]
    /\ UNCHANGED <<candle, ledger, halted, signalled, faults>>

SettleSignal(t) ==
    LET s == task[t].sig IN
    /\ task[t].pc = "settle"
    /\ reservation' = [reservation EXCEPT ![s] = IF @ = "ACTIVE" THEN "SETTLED" ELSE @]
    /\ task' = [task EXCEPT ![t].pc = "next"]
    /\ UNCHANGED <<candle, ledger, halted, signalled, faults>>

\* on_completed_candle: no signal, one that is on record, or a new one.
Evaluate(t) ==
    LET s == task[t].sig IN
    /\ task[t].pc = "next"
    /\ \/ task' = [task EXCEPT ![t] = Idle] /\ UNCHANGED signalled
       \/ /\ s \notin signalled
          /\ signalled' = signalled \cup {s}
          /\ task' = [task EXCEPT ![t].pc = "reserve"]
    /\ UNCHANGED <<candle, ledger, reservation, halted, faults>>

Reserved(status) == {s \in Signal : reservation[s] \in status}
Verdict == halted \/ MapThenSumSet(LAMBDA r : position[r].pnl, Signal) <= -LossLimit

\* The decision of reserve_signal, on what it reads.  The exposure limit is a
\* free refusal, as the price band is.
Affordable ==
    /\ ~Verdict
    /\ Cardinality(Reserved({"ACTIVE", "SETTLED"})) < Budget
    /\ Cardinality(Reserved({"ACTIVE"})) < MaxOpen

\* Mutant: without the advisory lock.
ReserveReadUnlocked(t) ==
    /\ task[t].pc = "reserve"
    /\ Verdict /\ ~halted => ~Inserting(t)
    /\ \E accepted \in {FALSE, Affordable} :
         task' = [task EXCEPT ![t].pc = "reserved", ![t].accepted = accepted, ![t].halting = Verdict /\ ~halted]
    /\ UNCHANGED <<candle, ledger, reservation, halted, signalled, faults>>

\* The advisory lock is held from the first read to the commit.
ReserveRead(t) ==
    /\ task[t].pc = "reserve"
    /\ Verdict /\ ~halted => ~Inserting(t)
    /\ \A u \in Task : task[u].pc # "reserved"
    /\ \E accepted \in {FALSE, Affordable} :
         task' = [task EXCEPT ![t].pc = "reserved", ![t].accepted = accepted, ![t].halting = Verdict /\ ~halted]
    /\ UNCHANGED <<candle, ledger, reservation, halted, signalled, faults>>

\* A halt that this reservation found is recorded with it.
ReserveCommit(t) ==
    LET s == task[t].sig IN
    /\ task[t].pc = "reserved"
    /\ reservation' = [reservation EXCEPT ![s] = IF task[t].accepted THEN "ACTIVE" ELSE "REJECTED"]
    /\ halted' = (halted \/ task[t].halting)
    /\ task' = [task EXCEPT ![t] = IF task[t].accepted
                                   THEN [Idle EXCEPT !.pc = "queue", !.sig = s, !.k = task[t].k] ELSE Idle]
    /\ UNCHANGED <<candle, ledger, signalled, faults>>

\* queue_signal
Queue(t) ==
    LET s == task[t].sig IN
    /\ task[t].pc = "queue"
    /\ order' = [order EXCEPT ![s]["ENTRY"] = NewOrder(Qty, task[t].k + 1)]
    /\ task' = [task EXCEPT ![t] = Idle]
    /\ UNCHANGED <<candle, position, reservation, halted, signalled, faults>>

\* Two passes that wait for each other: one, at its writes, for rows of the other, which waits
\* for its halt, for the position, or at its writes too.
Deadlock(t, u) ==
    /\ t # u /\ task[u].pc = "commit" /\ Waits(u, t)
    /\ \/ task[t].pc = "blocked" /\ task[u].halting
       \/ task[t].pc = "update" /\ HoldsPosition(u, task[t].sig)
       \/ task[t].pc = "fill" /\ task[t].sig = task[u].sig /\ Running(position[task[u].sig])
       \/ task[t].pc = "commit" /\ Waits(t, u)

\* A unique key, of session_halts or of an order's role, was taken, or the
\* database breaks a deadlock: the transaction is undone, and the exception ends what the
\* coroutine does with this candle.
Collide(t) ==
    /\ \/ task[t].pc = "blocked" /\ halted
       \/ task[t].pc = "commit" /\ Clash(t)
       \/ task[t].pc = "reserve" /\ Verdict /\ Inserting(t)
       \/ \E u \in Task : Deadlock(t, u) \/ Deadlock(u, t)
    /\ task' = [task EXCEPT ![t] = Idle]
    /\ UNCHANGED <<candle, ledger, reservation, halted, signalled, faults>>

\* A coroutine that raises or is cancelled: what it did not commit is undone.
Fail(t) ==
    /\ task[t].pc # "idle"
    /\ faults < MaxFaults
    /\ faults' = faults + 1
    /\ task' = [task EXCEPT ![t] = Idle]
    /\ UNCHANGED <<candle, ledger, reservation, halted, signalled>>

Step(t) ==
    \/ Query(t) \/ Lock(t) \/ Fill(t) \/ Update(t) \/ Halt(t) \/ HaltIsThere(t) \/ Commit(t) \/ SettleSignal(t)
    \/ Evaluate(t) \/ ReserveRead(t) \/ ReserveCommit(t) \/ Queue(t) \/ Collide(t)

Next == \E t \in Task : Step(t) \/ Fail(t) \/ \E s \in Signal : Complete(t, s)

Spec == Init /\ [][Next]_vars

-----------------------------------------------------------------------------
(* Properties.                                                               *)

OrderRow == [status : {"none", "PENDING", "PARTIALLY_FILLED", "FILLED", "CANCELLED"},
             quantity : 0..Qty, filled : 0..Qty, after : 0..MaxCandle + 1]

\* A clock exit queued by a candle that is older than the one that signalled: the strategy's
\* square-off has passed when the trade is taken, and the candles come late.
TooEarly(s) == order[s]["TIME"].status # "none" /\ order[s]["TIME"].after < order[s]["ENTRY"].after

TypeOK ==
    /\ candle \in [Signal -> 0..MaxCandle]
    /\ order \in [Signal -> [Role -> OrderRow]]
    /\ \A s \in Signal : TooEarly(s) \/ \A r \in Role : order[s][r].filled <= order[s][r].quantity
    /\ \A s \in Signal : position[s].open \in 0..Qty
    /\ reservation \in [Signal -> {"none", "ACTIVE", "SETTLED", "REJECTED"}]
    /\ halted \in BOOLEAN /\ signalled \subseteq Signal /\ faults \in 0..MaxFaults

\* What the position says is what its orders filled, and an exit never closes
\* more than was opened (test_paper_exit_quantity.py:1, paper_execution.py:629), but where the
\* clock was asked by a candle older than the entry.
LedgerBalances ==
    \A s \in Signal : TooEarly(s) \/
        /\ position[s].open >= 0
        /\ position[s].open = order[s]["ENTRY"].filled
                              - MapThenSumSet(LAMBDA r : order[s][r].filled, EXIT_ROLES)

\* However many coroutines reserve at once, the day's allocation and the count
\* of open reservations stay within the operator's limits (risk_engine.py:32).
PaperBudget ==
    /\ Cardinality(Reserved({"ACTIVE", "SETTLED"})) <= Budget
    /\ Cardinality(Reserved({"ACTIVE"})) <= MaxOpen

\* A slot comes back once its position has closed, unless the coroutine that
\* gives it back was cut off (risk_engine.py:151).
SlotReturned ==
    \A s \in Signal :
        position[s].status = "CLOSED" /\ reservation[s] = "ACTIVE" /\ faults = 0 =>
            \E t \in Task : task[t].pc = "settle" /\ task[t].sig = s
=============================================================================
