----------------------------- MODULE LiveLimits -----------------------------
(***************************************************************************)
(* The limits a live entry is held to: the day's halt, the day's risk, the    *)
(* positions that are open.  (services/live_risk.py, daily_limits.py, and     *)
(* live_execution.py, which asks.)                                           *)
(*                                                                          *)
(* Each is read from what is on record, or from the account, several awaits   *)
(* before the order it lets through is either.  Entries under way in other    *)
(* coroutines are in neither; this module says by how much a limit is overrun *)
(* for that, and what a lost answer or a crash adds.  Planned risk is counted  *)
(* in whole units of MaxRisk at the most: a sum is then the number of units.   *)
(***************************************************************************)
EXTENDS Integers, FiniteSets

CONSTANTS
    Trade,       \* entries; one that was refused before it had a row is fresh
    NoTrade,
    Sender,      \* coroutines that send entries
    Risk,        \* planned risk of each
    MaxRisk,     \* bound: the most that is
    Budget,      \* allocation_budget
    MaxOpen,     \* maximum_open_positions
    MaxFaults    \* bound: answers lost, withdrawals that fail, processes that die

ASSUME LimitsAssumption ==
    /\ NoTrade \notin Trade
    /\ IsFiniteSet(Sender) /\ Sender # {}
    /\ MaxRisk \in Nat /\ Risk \in [Trade -> 0 .. MaxRisk]
    /\ {Budget, MaxOpen} \subseteq Nat \ {0}   \* zero switches a limit off
    /\ MaxFaults \in Nat

VARIABLES
    row,      \* status of the entry's row in live_order_submissions
    aged,     \* PREPARED rows older than IN_FLIGHT_SECONDS
    book,     \* the entry at the broker
    sender,
    over,     \* whether the account's P&L is past a limit just now
    halt,     \* session_halts has a LIVE row for the day
    late,     \* entries written ahead since
    crashes,
    faults

vars  == <<row, aged, book, sender, over, halt, late, crashes, faults>>
rows  == <<row, aged>>
day   == <<over, halt, late>>
fails == <<crashes, faults>>

LIVE_PLACED_STATUSES == {"ACCEPTED", "RESOLVED_PLACED"}
OPEN_STATES == {"PREPARED", "UNKNOWN", "NEEDS_REVIEW"}

\* Mutant: an order whose answer was lost does not block.
BlockingReviews == {"NEEDS_REVIEW"}

BLOCKING_SUBMISSION_STATES == {"UNKNOWN", "NEEDS_REVIEW"}

Idle == [pc |-> "idle", trade |-> NoTrade, ok |-> TRUE]

Init ==
    /\ row = [t \in Trade |-> "none"]
    /\ aged = {}
    /\ book = [t \in Trade |-> "none"]
    /\ sender = [s \in Sender |-> Idle]
    /\ over = FALSE /\ halt = FALSE /\ late = 0
    /\ crashes = 0 /\ faults = 0

Held(t) == \E s \in Sender : sender[s].trade = t

\* Every check runs, also after one has failed.
Check(s, pc, next, passes) ==
    /\ sender[s].pc = pc
    /\ sender' = [sender EXCEPT ![s].pc = next, ![s].ok = @ /\ passes]

-----------------------------------------------------------------------------
(* The checks, in their order.                                               *)

Begin(s, t) ==
    /\ sender[s].pc = "idle"
    /\ row[t] = "none" /\ ~Held(t)
    /\ sender' = [sender EXCEPT ![s] = [Idle EXCEPT !.pc = "unresolved", !.trade = t]]
    /\ UNCHANGED <<rows, book, day, fails>>

\* _unresolved_submission_gate
Blocked == \E t \in Trade : row[t] \in BLOCKING_SUBMISSION_STATES \/ t \in aged

UnresolvedGate(s) ==
    /\ Check(s, "unresolved", "halt", ~Blocked)
    /\ UNCHANGED <<rows, book, day, fails>>

\* Mutant: a halt holds while the P&L is past the limit.
HaltWhileOver == halt /\ over

\* existing_halt, which verdict_for asks again.
ExistingHalt == halt

\* _daily_limit_check looks for the latch ...
ReadHalt(s) ==
    /\ Check(s, "halt", IF ExistingHalt THEN "allocation" ELSE "pnl", ~ExistingHalt)
    /\ UNCHANGED <<rows, book, day, fails>>

\* ... and asks the account, whose answer may be unreadable.  A limit reached is
\* recorded.  (Two that record at once collide on the unique key, and the one
\* that raises sends nothing either.)
JudgeDay(s) ==
    /\ \E readable \in BOOLEAN :
         /\ Check(s, "pnl", "allocation", readable /\ ~ExistingHalt /\ ~over)
         /\ halt' = (halt \/ (readable /\ over))
    /\ UNCHANGED <<rows, book, over, late, fails>>

\* The planned risk of some trades together, unit by unit.
Planned(trades) == Cardinality({p \in trades \X (1 .. MaxRisk) : p[2] <= Risk[p[1]]})

\* live_risk_allocated_today
Placed    == {t \in Trade : row[t] \in LIVE_PLACED_STATUSES}
Allocated == Planned(Placed)

\* Mutant: the order itself is not counted.
AffordableBefore(t) == Allocated <= Budget

Affordable(t) == Allocated + Risk[t] <= Budget

AllocationCheck(s) ==
    /\ Check(s, "allocation", "positions", Affordable(sender[s].trade))
    /\ UNCHANGED <<rows, book, day, fails>>

Open == {t \in Trade : book[t] = "open"}

Room == Cardinality(Open) < MaxOpen

\* _live_position_check; a book that cannot be read, and the exposure, refuse as
\* they like.
PositionCheck(s) ==
    /\ \E readable \in BOOLEAN : Check(s, "positions", "decide", readable /\ Room)
    /\ UNCHANGED <<rows, book, day, fails>>

Refuse(s) ==
    /\ sender[s].pc = "decide"
    /\ sender' = [sender EXCEPT ![s] = Idle]
    /\ UNCHANGED <<rows, book, day, fails>>

-----------------------------------------------------------------------------
(* What is let through.  A send ends within IN_FLIGHT_SECONDS here.          *)

\* prepare_submission and its commit
WriteAhead(s) ==
    /\ sender[s].pc = "decide" /\ sender[s].ok
    /\ row' = [row EXCEPT ![sender[s].trade] = "PREPARED"]
    /\ sender' = [sender EXCEPT ![s].pc = "send"]
    /\ late' = IF halt THEN late + 1 ELSE late
    /\ UNCHANGED <<aged, book, over, halt, fails>>

\* The broker takes the order or refuses it ...
Transmit(s) ==
    /\ sender[s].pc = "send"
    /\ \E fate \in {"resting", "refused"} : book' = [book EXCEPT ![sender[s].trade] = fate]
    /\ sender' = [sender EXCEPT ![s].pc = "hear"]
    /\ UNCHANGED <<rows, day, fails>>

\* ... and its answer is written, or lost.
Hear(s) ==
    LET t == sender[s].trade IN
    /\ sender[s].pc = "hear"
    /\ row' = [row EXCEPT ![t] = IF book[t] = "refused" THEN "REJECTED" ELSE "ACCEPTED"]
    /\ sender' = [sender EXCEPT ![s] = IF book[t] = "refused" THEN Idle ELSE [@ EXCEPT !.pc = "protect"]]
    /\ UNCHANGED <<aged, book, day, fails>>

HearNothing(s) ==
    /\ sender[s].pc = "hear" /\ crashes + faults < MaxFaults
    /\ row' = [row EXCEPT ![sender[s].trade] = "UNKNOWN"]
    /\ sender' = [sender EXCEPT ![s].pc = "watch"]
    /\ faults' = faults + 1
    /\ UNCHANGED <<aged, book, day, crashes>>

\* Mutant: protect_after_fill leaves an entry that has not filled.
LeaveResting(s) ==
    /\ sender[s].pc = "protect"
    /\ sender' = [sender EXCEPT ![s] = Idle]
    /\ UNCHANGED <<rows, book, day, fails>>

\* protect_after_fill waits for the fill and withdraws an entry that has none.
Protect(s) ==
    LET t == sender[s].trade IN
    /\ sender[s].pc = "protect"
    /\ book' = [book EXCEPT ![t] = IF @ = "resting" THEN "withdrawn" ELSE @]
    /\ sender' = [sender EXCEPT ![s] = Idle]
    /\ UNCHANGED <<rows, day, fails>>

\* It cannot when the broker will not have it, ...
ProtectFails(s) ==
    /\ sender[s].pc = "protect" /\ crashes + faults < MaxFaults
    /\ faults' = faults + 1
    /\ sender' = [sender EXCEPT ![s] = Idle]
    /\ UNCHANGED <<rows, book, day, crashes>>

\* ... nor without an order number.
Watch(s) ==
    /\ sender[s].pc = "watch"
    /\ sender' = [sender EXCEPT ![s] = Idle]
    /\ UNCHANGED <<rows, book, day, fails>>

Crash(s) ==
    /\ sender[s].pc # "idle" /\ crashes + faults < MaxFaults
    /\ crashes' = crashes + 1
    /\ sender' = [sender EXCEPT ![s] = Idle]
    /\ UNCHANGED <<rows, book, day, faults>>

-----------------------------------------------------------------------------
(* Recovery, the account and the clock.                                      *)

Age(t) ==
    /\ row[t] = "PREPARED" /\ ~Held(t)
    /\ aged' = aged \cup {t}
    /\ UNCHANGED <<row, book, sender, day, fails>>

\* resolve_submission, which settles a row by the order book or gives it up.
Resolve(t) ==
    /\ (row[t] = "UNKNOWN" /\ ~Held(t)) \/ t \in aged
    /\ \/ row' = [row EXCEPT ![t] = "NEEDS_REVIEW"]
       \/ row' = [row EXCEPT ![t] = IF book[t] \in {"none", "refused"} THEN "RESOLVED_ABSENT"
                                    ELSE "RESOLVED_PLACED"]
    /\ aged' = aged \ {t}
    /\ UNCHANGED <<book, sender, day, fails>>

\* An order that rests fills; a position closes.
Trading(t) ==
    /\ \/ book[t] = "resting" /\ book' = [book EXCEPT ![t] = "open"]
       \/ book[t] = "open" /\ book' = [book EXCEPT ![t] = "closed"]
    /\ UNCHANGED <<rows, sender, day, fails>>

\* The P&L passes a limit, and comes back.
Move == over' = ~over /\ UNCHANGED <<rows, book, sender, halt, late, fails>>

SenderStep(s) ==
    \/ \E t \in Trade : Begin(s, t)
    \/ UnresolvedGate(s) \/ ReadHalt(s) \/ JudgeDay(s) \/ AllocationCheck(s) \/ PositionCheck(s) \/ Refuse(s)
    \/ WriteAhead(s) \/ Transmit(s) \/ Hear(s) \/ HearNothing(s) \/ Protect(s) \/ ProtectFails(s) \/ Watch(s)
    \/ Crash(s)

Next ==
    \/ \E s \in Sender : SenderStep(s)
    \/ \E t \in Trade : Age(t) \/ Resolve(t) \/ Trading(t)
    \/ Move

Spec == Init /\ [][Next]_vars

-----------------------------------------------------------------------------
(* Properties.                                                               *)

PCs == {"idle", "unresolved", "halt", "pnl", "allocation", "positions", "decide", "send", "hear", "protect", "watch"}

TypeOK ==
    /\ row \in [Trade -> {"none", "PREPARED", "ACCEPTED", "REJECTED", "UNKNOWN", "NEEDS_REVIEW",
                          "RESOLVED_PLACED", "RESOLVED_ABSENT"}]
    /\ book \in [Trade -> {"none", "resting", "refused", "open", "closed", "withdrawn"}]
    /\ \A t \in Trade : book[t] # "none" => row[t] # "none"
    /\ aged \subseteq {t \in Trade : row[t] = "PREPARED"}
    /\ sender \in [Sender -> [pc : PCs, trade : Trade \cup {NoTrade}, ok : BOOLEAN]]
    /\ \A s \in Sender : sender[s].pc = "idle" <=> sender[s].trade = NoTrade
    /\ over \in BOOLEAN /\ halt \in BOOLEAN /\ late \in Nat
    /\ crashes \in Nat /\ faults \in Nat /\ crashes + faults <= MaxFaults

\* Whether a sender has got past a check with its trade, and not failed another.
Past(t, pcs) == \E s \in Sender : sender[s].trade = t /\ sender[s].ok /\ sender[s].pc \in pcs

\* The risk of the orders that left keeps to the day's budget but for the entries
\* that other coroutines had under way, and those a crash left unanswered; a lost
\* answer adds nothing, as nothing is sent while one is open (live_risk.py:279,
\* live_execution.py:120).
RiskBound ==
    Planned({t \in Trade : row[t] \in OPEN_STATES \cup LIVE_PLACED_STATUSES})
        <= Budget + (Cardinality(Sender) - 1 + crashes) * MaxRisk

\* No more positions are open than the limit, the entries other coroutines had
\* under way, and those a fault or a crash left at the broker (live_risk.py:417).
SlotBound == Cardinality(Open) <= MaxOpen + Cardinality(Sender) - 1 + faults + crashes

\* A day that has halted stays halted, whatever the P&L does next: only what was
\* past the check already still leaves (daily_limits.py:6).
HaltBound == late <= Cardinality(Sender) - 1

\* Trades on their way to a row that counts, and to an open position.
Coming   == {t \in Trade : row[t] \in OPEN_STATES \/ Past(t, {"positions", "decide"})}
Arriving == {t \in Trade : book[t] = "resting" \/ (book[t] = "none" /\ Past(t, {"decide", "send"}))}

RiskAllowance == INSTANCE Allowance WITH
    Item <- Trade, Weight <- Risk, Most <- MaxRisk, Limit <- Budget,
    Width <- Cardinality(Sender) + MaxFaults,
    used <- Placed, underway <- Coming

\* Each trade that is let in fits what is on record at that moment, and no more
\* are on their way at once than there are coroutines, or crashes
\* (live_risk.py:387).
ImplementsRisk == RiskAllowance!Spec

SlotAllowance == INSTANCE Allowance WITH
    Item <- Trade, Weight <- [t \in Trade |-> 1], Most <- 1, Limit <- MaxOpen,
    Width <- Cardinality(Sender) + MaxFaults,
    used <- Open, underway <- Arriving

\* The same of positions: a trade is let in on what the account shows, and comes
\* off when it closes (live_risk.py:470).
ImplementsSlots == SlotAllowance!Spec
=============================================================================
