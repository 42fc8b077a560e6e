--------------------------- MODULE LiveExitManager ---------------------------
(***************************************************************************)
(* The exit sweep, once a minute, beside the coroutine that protects the    *)
(* entry: it reads the positions, then the order book, and holds, protects, *)
(* trails or closes what it finds, clearing the book before it sends an     *)
(* order.  (services/live_exit_manager.py and its job in scheduler.py.)     *)
(*                                                                          *)
(* The position may move between any two of its steps.  Three switches of   *)
(* this module and of LivePosition name the ways it does, so that a run can *)
(* say which of them a property needs to be absent.                         *)
(***************************************************************************)
EXTENDS LiveProtection

CONSTANTS
    Sweeper,      \* the scheduler's sweep: max_instances=1, so one coroutine
    SweepRaces,   \* TRUE: an exit order may fill while a sweep is under way
    Overlap       \* TRUE: a sweep may run while protect_after_fill does

ASSUME SweeperAssumption ==
    /\ Sweeper \in Task \ {Protector}
    /\ SweepRaces \in BOOLEAN
    /\ Overlap \in BOOLEAN

VARIABLES
    sweep,   \* what the sweep in hand has read and means to do
    phase    \* the trade's clock: under way, late, or over

vars == <<held, entry, exit, task, faults, sweep, phase>>

\* late: within STOP_IS_POINTLESS_MINUTES of the square-off; over: time_exit_due.
Phase == {"session", "late", "over"}

NoSweep == [phase |-> "session", readable |-> TRUE, book |-> {}, clear |-> {},
            stuck |-> FALSE, next |-> "idle"]

SweepTypeOK ==
    /\ PositionTypeOK
    /\ sweep \in [phase : Phase, readable : BOOLEAN, book : SUBSET (ExitId \cup {Entry}),
                  clear : SUBSET (ExitId \cup {Entry}), stuck : BOOLEAN,
                  next : {"idle", "place", "flatten"}]
    /\ phase \in Phase
    /\ sweep # NoSweep => task[Sweeper].pc \in {"book", "consider", "clear"}

SweepInit == Init /\ sweep = NoSweep /\ phase = "session"

Tick ==
    /\ \/ phase = "session" /\ phase' = "late"
       \/ phase = "late" /\ phase' = "over"
    /\ UNCHANGED <<position, sweep>>

-----------------------------------------------------------------------------
(* A sweep.                                                                 *)

\* The pass is over, or goes on in protect_position or _market_exit.
Leave(pc, net, level) ==
    /\ task' = [task EXCEPT ![Sweeper] = [Idle EXCEPT !.pc = pc, !.net = net, !.level = level]]
    /\ sweep' = NoSweep

EndSweep == Leave("idle", 0, "planned")

\* The positions, and the time; a flat one or an unreadable one is passed over.
ReadPositions ==
    /\ At(Sweeper, "idle")
    /\ Overlap \/ At(Protector, "idle")
    /\ held # 0
    /\ task' = [task EXCEPT ![Sweeper] = [Idle EXCEPT !.pc = "book", !.net = held]]
    /\ sweep' = [NoSweep EXCEPT !.phase = phase]
    /\ Reuse
    /\ UNCHANGED <<held, entry, faults, phase>>

\* The order book, once for the whole sweep; unreadable is not empty.
ReadBook ==
    /\ At(Sweeper, "book")
    /\ \/ sweep' = [sweep EXCEPT !.book = OpenOrders] /\ NoFault
       \/ sweep' = [sweep EXCEPT !.readable = FALSE] /\ Fault
    /\ Goto(Sweeper, "consider")
    /\ UNCHANGED <<held, entry, exit, phase>>

\* _recorded_stops, _working, _ids_to_clear: what our rows call ACCEPTED, what
\* the book says of it, and all that rests on the instrument, whoever placed it.
RecordedStops == {x \in ExitId : exit[x].kind = "stop" /\ exit[x].accepted}
Working == IF sweep.readable THEN RecordedStops \cap sweep.book ELSE RecordedStops
ToClear == IF sweep.readable THEN sweep.book ELSE RecordedStops
Covered == MapThenSumSet(LAMBDA x : Abs(exit[x].sells), Working)

Net == task[Sweeper].net

ClearThen(next, level) ==
    /\ sweep' = [sweep EXCEPT !.clear = ToClear, !.next = next]
    /\ task' = [task EXCEPT ![Sweeper].pc = "clear", ![Sweeper].level = level]

\* Mutant: an entry that recovery found is not managed.
KnownIfAccepted == entry.row = "ACCEPTED"

\* _signal_for: the trade is known by an entry that counts as placed.
Known == entry.row \in {"ACCEPTED", "RESOLVED_PLACED"}

\* The clock, or a fresh candle at the target.
Close == ClearThen("flatten", "planned")

\* _trail_stop: one working stop, not yet at break-even, and far enough ahead.
Trail ==
    /\ sweep.readable /\ Covered >= Abs(Net)
    /\ \E x \in Working : Working = {x} /\ exit[x].level = "planned"
    /\ ClearThen("place", "breakeven")

\* Mutant: any working stop counts as protection.
AnyStopCovers ==
    \/ /\ ~sweep.readable \/ Working # {}
       /\ EndSweep
    \/ Trail
    \/ /\ sweep.readable /\ Working = {}
       /\ IF sweep.phase = "late" THEN Close ELSE Leave("place", Net, "planned")

\* _hold_or_protect: covered or blind, nothing is done; late, what is not
\* covered is closed; otherwise a stop goes behind the part that is not.
HoldOrProtect ==
    \/ /\ ~sweep.readable \/ Covered >= Abs(Net)
       /\ EndSweep
    \/ Trail
    \/ /\ sweep.readable /\ Covered < Abs(Net)
       /\ IF sweep.phase = "late" THEN Close
          ELSE Leave("place", IF Net > 0 THEN Net - Covered ELSE Net + Covered, "planned")

Consider ==
    /\ At(Sweeper, "consider")
    /\ \/ ~Known /\ EndSweep
       \/ Known /\ Close
       \/ Known /\ sweep.phase # "over" /\ HoldOrProtect
    /\ UNCHANGED <<held, entry, exit, faults, phase>>

\* Mutant: a refusal is read as "already finished" without asking the book.
RefusalIsFinished ==
    /\ At(Sweeper, "clear")
    /\ \E o \in sweep.clear :
         /\ sweep' = [sweep EXCEPT !.clear = @ \ {o}]
         /\ CancelAccepted(o) \/ CancelFinished(o) \/ CancelFails(o)
    /\ UNCHANGED <<held, task, phase>>

\* _cancel_orders, one number: what could not be cancelled is looked up, and
\* let go only if the book no longer shows it; a book that cannot be read
\* leaves it stuck.
CancelOne ==
    /\ At(Sweeper, "clear")
    /\ \E o \in sweep.clear, stuck \in BOOLEAN :
         /\ \/ (CancelAccepted(o) \/ CancelFinished(o)) /\ ~stuck
            \/ CancelFails(o) /\ (stuck \/ o \notin OpenOrders')
         /\ sweep' = [sweep EXCEPT !.clear = @ \ {o}, !.stuck = @ \/ stuck]
    /\ UNCHANGED <<held, task, phase>>

\* No second order while anything may still be live.
Cleared ==
    /\ At(Sweeper, "clear")
    /\ sweep.clear = {}
    /\ IF sweep.stuck THEN EndSweep ELSE Leave(sweep.next, Net, task[Sweeper].level)
    /\ UNCHANGED <<held, entry, exit, faults, phase>>

SweepStep ==
    \/ ReadPositions \/ ReadBook \/ Consider \/ CancelOne \/ Cleared
    \/ ProtectPosition(Sweeper) /\ UNCHANGED <<sweep, phase>>

SweepCrash ==
    /\ CrashTask(Sweeper)
    /\ sweep' = NoSweep
    /\ UNCHANGED phase

\* Unless SweepRaces, what a sweep did not send itself does not fill during it.
FillAround(x) ==
    /\ SweepRaces \/ At(Sweeper, "idle") \/ task[Sweeper].exit = x
    /\ Fill(x)

Around == \/ Protect \/ CrashTask(Protector) \/ Broker
          \/ \E x \in ExitId : FillAround(x)

SweepNext ==
    \/ SweepStep \/ SweepCrash \/ Tick
    \/ Around /\ UNCHANGED <<sweep, phase>>

SweepSpec == SweepInit /\ [][SweepNext]_vars

(* Fairness.  Coroutines go on, the scheduler runs a sweep every minute, an  *)
(* order in transit arrives, an accepted cancellation takes effect, and      *)
(* recovery finds an entry that exists.  Nothing makes a stop trigger, an    *)
(* entry fill or the clock advance.                                          *)
FairSpec ==
    /\ SweepSpec
    /\ WF_vars(SweepStep)
    /\ WF_vars(Protect /\ UNCHANGED <<sweep, phase>>)
    /\ WF_vars((TakeCancel \/ RecoverEntry \/ \E x \in ExitId : Arrive(x)) /\ UNCHANGED <<sweep, phase>>)

-----------------------------------------------------------------------------
(* Properties.                                                              *)

\* "Cancel the stop before sending anything else" (live_exit_manager.py:8): when
\* a sweep goes on to an order, nothing it saw working is working still.
ClearBeforeExit ==
    [][At(Sweeper, "clear") /\ task'[Sweeper].pc \in {"place", "flatten"}
         => \A o \in ToClear : o \notin OpenOrders]_vars

\* "Close what should be closed" (live_exit_manager.py:402): once its time is
\* over a position we know the trade of is flat again, whatever went wrong.
FlatInTheEnd == (phase = "over" /\ held # 0) ~> held = 0

Behind == MapThenSumSet(LAMBDA x : exit[x].sells, {x \in ExitId : IsOpen(x)})
Naked  == held > 0 /\ held > Behind

\* "Holding is only safe if something is behind the position"
\* (live_exit_manager.py:538): one that is not covered is covered or closed.
NakedEnds == Naked ~> ~Naked
=============================================================================
