---------------------------- MODULE LivePosition ----------------------------
(***************************************************************************)
(* One live trade as the broker has it, and the one way this system sends   *)
(* an exit: the entry and what rests of it, the net position, the stops and *)
(* market orders behind it, and protect_position, which a coroutine runs to *)
(* put a stop behind the position or close it.                              *)
(* (services/live_protection.py; the orders themselves are the broker's.)   *)
(*                                                                          *)
(* Quantities are counted in the direction of the trade, so a short is the  *)
(* mirror image of a long; a negative position is a reversed one.  The      *)
(* write-ahead row of an exit is in LiveSubmission: here an order is written *)
(* and sent in one step.                                                    *)
(***************************************************************************)
EXTENDS Integers, FiniteSets, FiniteSetsExt

CONSTANTS
    Qty,          \* the quantity the entry asked for
    MaxExits,     \* bound: exit orders that something still refers to
    MaxFaults,    \* bound: failures of the broker, the network or a process
    Task,         \* coroutines that send exits
    LostAnswers,  \* TRUE: an answer to a placement may be lost
    LazyCancel,   \* TRUE: an accepted cancellation may take effect later
    MarketRests   \* TRUE: a market order may find nobody to trade with

ASSUME PositionAssumption ==
    /\ Qty \in Nat \ {0}
    /\ MaxExits \in Nat
    /\ MaxFaults \in Nat
    /\ LostAnswers \in BOOLEAN
    /\ LazyCancel \in BOOLEAN
    /\ MarketRests \in BOOLEAN

VARIABLES
    held,    \* the net position
    entry,   \* what rests of the entry at the broker, its row, and whether the
             \* coroutine that sent it was given its order numbers
    exit,    \* the exit orders, by order number
    task,    \* each coroutine: where it is and what it has read
    faults   \* how many failures there have been

position == <<held, entry, exit, task, faults>>

-----------------------------------------------------------------------------
ExitId == 1..MaxExits
Entry  == 0              \* the entry's order number among the exits'
NoExit == 0

(* An exit order.  accepted is the status of its row: all that is ever read *)
(* of it is whether it says ACCEPTED.                                       *)
Exit == [kind : {"none", "stop", "market"}, sells : Int, level : {"planned", "breakeven"},
         at : {"none", "wire", "open", "refused", "lost", "gone"},
         cancelling : BOOLEAN, accepted : BOOLEAN]

AbsentExit == [kind |-> "none", sells |-> 0, level |-> "planned", at |-> "none",
               cancelling |-> FALSE, accepted |-> FALSE]

(* An order that is over and that nobody awaits.  Its row may say ACCEPTED    *)
(* for ever; all that comes of it is that a sweep with no order book cancels *)
(* it in vain.                                                               *)
SpentExit == [AbsentExit EXCEPT !.at = "gone"]

\* A number that nothing refers to any more may be handed out again.
Reuse == exit' = [x \in ExitId |-> IF exit[x] = SpentExit THEN AbsentExit ELSE exit[x]]

Sent(kind, sells, level) ==
    [AbsentExit EXCEPT !.kind = kind, !.sells = sells, !.level = level, !.at = "wire"]

IsOpen(x) == exit[x].at = "open"

\* The numbers of the orders working on this instrument.
OpenOrders == {x \in ExitId : IsOpen(x)} \cup (IF entry.rest > 0 THEN {Entry} ELSE {})

\* LIVE_PLACED_STATUSES, as far as an entry that may exist can be in them.
EntryRow == {"ACCEPTED", "UNKNOWN", "RESOLVED_PLACED"}

EntryType == [rest : 0..Qty, row : EntryRow, numbered : BOOLEAN, cancelling : BOOLEAN]

(* What a coroutine knows: the net quantity it read, how often it has tried, *)
(* the level it places at, and the order it awaits.                          *)
PC == {"idle", "poll", "withdraw", "cancel_rest", "reread",       \* protect_after_fill
       "place", "await_stop", "flatten", "await_close",           \* protect_position
       "book", "consider", "clear"}                               \* the sweep
Knowledge == [pc : PC, net : Int, tries : Nat, level : {"planned", "breakeven"},
              exit : ExitId \cup {NoExit}]

Idle == [pc |-> "idle", net |-> 0, tries |-> 0, level |-> "planned", exit |-> NoExit]

PositionTypeOK ==
    /\ held \in Int
    /\ entry \in EntryType
    /\ exit \in [ExitId -> Exit]
    /\ task \in [Task -> Knowledge]
    /\ faults \in 0..MaxFaults

\* The entry has been sent and its answer, or the want of one, recorded.
PositionInit ==
    /\ held = 0
    /\ \E row \in {"ACCEPTED", "UNKNOWN"} :
         entry = [rest |-> Qty, row |-> row, numbered |-> row = "ACCEPTED", cancelling |-> FALSE]
    /\ exit = [x \in ExitId |-> AbsentExit]
    /\ faults = 0

Fault   == faults < MaxFaults /\ faults' = faults + 1
NoFault == UNCHANGED faults

At(c, pc)   == task[c].pc = pc
Goto(c, pc) == task' = [task EXCEPT ![c].pc = pc]
End(c)      == task' = [task EXCEPT ![c] = Idle]

-----------------------------------------------------------------------------
(* The broker.                                                              *)

Awaited(x) == \E c \in Task : task[c].exit = x

\* What becomes of an order that is over.
Ended(x, at) == IF Awaited(x) THEN [exit[x] EXCEPT !.at = at, !.cancelling = FALSE]
                ELSE SpentExit

Filled(x) == /\ exit' = [exit EXCEPT ![x] = Ended(x, "gone")]
             /\ held' = held - exit[x].sells

\* The entry fills, in parts or whole, for as long as it rests.
FillEntry ==
    /\ \E k \in 1..entry.rest :
         /\ held' = held + k
         /\ entry' = [entry EXCEPT !.rest = @ - k]
    /\ UNCHANGED <<exit, task, faults>>

\* A stop begins to rest; a market order is filled, unless it rests.
Arrive(x) ==
    /\ exit[x].at = "wire"
    /\ \/ /\ exit[x].kind = "stop"
          /\ exit' = [exit EXCEPT ![x].at = "open"]
          /\ UNCHANGED held /\ NoFault
       \/ /\ exit[x].kind = "market"
          /\ Filled(x) /\ NoFault
       \/ /\ MarketRests /\ exit[x].kind = "market"
          /\ exit' = [exit EXCEPT ![x].at = "open"]
          /\ UNCHANGED held /\ Fault
       \/ /\ \E at \in {"refused"} \cup (IF LostAnswers THEN {"lost"} ELSE {}) :
               exit' = [exit EXCEPT ![x] = Ended(x, at)]
          /\ UNCHANGED held /\ Fault
    /\ UNCHANGED <<entry, task>>

\* A resting stop is triggered, a resting market order finds a buyer.
Fill(x) ==
    /\ IsOpen(x)
    /\ Filled(x)
    /\ UNCHANGED <<entry, task, faults>>

\* An order the broker took is refused by the exchange afterwards.
Drop(x) ==
    /\ IsOpen(x)
    /\ exit' = [exit EXCEPT ![x] = Ended(x, "gone")]
    /\ Fault
    /\ UNCHANGED <<held, entry, task>>

\* An accepted cancellation takes effect.
TakeCancel ==
    /\ \/ /\ entry.cancelling
          /\ entry' = [entry EXCEPT !.rest = 0, !.cancelling = FALSE]
          /\ UNCHANGED exit
       \/ \E x \in ExitId :
            /\ exit[x].cancelling
            /\ exit' = [exit EXCEPT ![x] = Ended(x, "gone")]
            /\ UNCHANGED entry
    /\ UNCHANGED <<held, task, faults>>

\* Recovery finds the entry whose answer was lost (LiveSubmission).
RecoverEntry ==
    /\ entry.row = "UNKNOWN"
    /\ entry' = [entry EXCEPT !.row = "RESOLVED_PLACED"]
    /\ UNCHANGED <<held, exit, task, faults>>

\* The broker obeys a cancellation of a working order, now or a little later.
Obey(o) ==
    \/ /\ o = Entry
       /\ entry' = [entry EXCEPT !.rest = 0, !.cancelling = FALSE]
       /\ UNCHANGED exit
    \/ /\ o # Entry
       /\ exit' = [exit EXCEPT ![o] = Ended(o, "gone")]
       /\ UNCHANGED entry
    \/ /\ LazyCancel
       /\ IF o = Entry
          THEN entry' = [entry EXCEPT !.cancelling = TRUE] /\ UNCHANGED exit
          ELSE exit' = [exit EXCEPT ![o].cancelling = TRUE] /\ UNCHANGED entry

(* adapter.cancel: the broker accepts it, or refuses because the order is    *)
(* finished, or the request fails, obeyed or not.                            *)
CancelAccepted(o) == o \in OpenOrders /\ Obey(o) /\ NoFault
CancelFinished(o) == o \notin OpenOrders /\ UNCHANGED <<entry, exit>> /\ NoFault
CancelFails(o)    == /\ (o \in OpenOrders /\ Obey(o)) \/ UNCHANGED <<entry, exit>>
                     /\ Fault

-----------------------------------------------------------------------------
(* protect_position.                                                         *)

StopPlaceAttempts == 2

\* Order numbers are handed out in sequence.
NextNumber == {x \in ExitId : /\ exit[x].at = "none"
                              /\ \A y \in ExitId : y < x => exit[y].at # "none"}

Send(c, kind, pc) ==
    /\ \E x \in NextNumber :
         /\ exit' = [exit EXCEPT ![x] = Sent(kind, task[c].net, task[c].level)]
         /\ task' = [task EXCEPT ![c].pc = pc, ![c].exit = x]
    /\ UNCHANGED <<held, entry, faults>>

SendStop(c)  == At(c, "place") /\ Send(c, "stop", "await_stop")
SendClose(c) == At(c, "flatten") /\ Send(c, "market", "await_close")

\* What the sender may hear of an order, and whether that took a failure.
Accepts(x)  == exit[x].at \in {"open", "gone"} /\ NoFault
Rejects(x)  == exit[x].at = "refused" /\ NoFault
Unheard(x)  == LostAnswers /\ IF exit[x].at = "lost" THEN NoFault ELSE Fault

Record(x, accepted) ==
    exit' = [exit EXCEPT ![x] = IF @.at \in {"wire", "open"} THEN [@ EXCEPT !.accepted = accepted]
                                ELSE SpentExit]

\* Mutant: no answer is treated as a failure to place.
HearRetriesUnknown(c) ==
    /\ At(c, "await_stop")
    /\ LET x == task[c].exit IN
         \/ Accepts(x) /\ Record(x, TRUE) /\ End(c)
         \/ /\ Rejects(x) \/ Unheard(x)
            /\ Record(x, FALSE)
            /\ task' = [task EXCEPT ![c].tries = @ + 1, ![c].exit = NoExit,
                          ![c].pc = IF task[c].tries + 1 < StopPlaceAttempts THEN "place" ELSE "flatten"]
    /\ UNCHANGED <<held, entry>>

\* An accepted stop ends it; an unknown one ends it too, for a second order
\* could stand beside it; two refusals close the position at market.
HearStop(c) ==
    /\ At(c, "await_stop")
    /\ LET x == task[c].exit IN
         \/ Accepts(x) /\ Record(x, TRUE) /\ End(c)
         \/ Unheard(x) /\ Record(x, FALSE) /\ End(c)
         \/ /\ Rejects(x) /\ Record(x, FALSE)
            /\ task' = [task EXCEPT ![c].tries = @ + 1, ![c].exit = NoExit,
                          ![c].pc = IF task[c].tries + 1 < StopPlaceAttempts THEN "place" ELSE "flatten"]
    /\ UNCHANGED <<held, entry>>

HearClose(c) ==
    /\ At(c, "await_close")
    /\ LET x == task[c].exit IN
         /\ \/ Accepts(x) /\ Record(x, TRUE)
            \/ (Rejects(x) \/ Unheard(x)) /\ Record(x, FALSE)
         /\ End(c)
    /\ UNCHANGED <<held, entry>>

ProtectPosition(c) == SendStop(c) \/ SendClose(c) \/ HearStop(c) \/ HearClose(c)

\* The process of a coroutine dies.  Dying with an order on its way is one more
\* way to lose its answer.
CrashTask(c) ==
    /\ ~At(c, "idle")
    /\ LET x == task[c].exit IN
         IF x = NoExit THEN UNCHANGED exit ELSE LostAnswers /\ Record(x, FALSE)
    /\ End(c)
    /\ Fault
    /\ UNCHANGED <<held, entry>>

Broker ==
    \/ FillEntry \/ TakeCancel \/ RecoverEntry
    \/ \E x \in ExitId : Arrive(x) \/ Drop(x)
=============================================================================
