--------------------------- MODULE LiveProtection ---------------------------
(***************************************************************************)
(* protect_after_fill: the coroutine that sent the entry waits for it to    *)
(* fill, withdraws what rests of it, and puts a stop behind what is held.   *)
(* (services/live_protection.py.)                                           *)
(***************************************************************************)
EXTENDS LivePosition

CONSTANTS
    Protector,   \* the coroutine that sent the entry
    FillPolls    \* FILL_POLL_ATTEMPTS

ASSUME ProtectorAssumption == Protector \in Task /\ FillPolls \in Nat \ {0}

Init ==
    /\ PositionInit
    /\ task = [c \in Task |-> IF c = Protector THEN [Idle EXCEPT !.pc = "poll"] ELSE Idle]

Abs(n) == IF n < 0 THEN -n ELSE n

\* The position book cannot be read, or the read raises: no stop is guessed.
Unreadable(c) ==
    /\ Fault
    /\ End(c)
    /\ UNCHANGED <<held, entry, exit>>

\* Mutant: the stop is sized to what was ordered.
SizeFromOrder(c, net) == task' = [task EXCEPT ![c].pc = "place", ![c].net = Qty, ![c].tries = 0]

\* The stop is sized to what the broker says is held.
Size(c, net) ==
    task' = [task EXCEPT ![c].pc = "place", ![c].net = net, ![c].tries = 0]

\* _held_quantity, every FILL_POLL_SECONDS until something is held.
Poll ==
    /\ At(Protector, "poll")
    /\ \/ Unreadable(Protector)
       \/ /\ IF held = 0
             THEN IF task[Protector].tries + 1 < FillPolls
                  THEN task' = [task EXCEPT ![Protector].tries = @ + 1]
                  ELSE Goto(Protector, "withdraw")
             ELSE IF Abs(held) < Qty THEN Goto(Protector, "cancel_rest")
             ELSE Size(Protector, held)
          /\ NoFault
          /\ UNCHANGED <<held, entry, exit>>

\* _cancel_entry: whether everything was withdrawn.  An entry whose answer was
\* lost has no broker_order_numbers to cancel, and reads as withdrawn.
CancelEntry(withdrawn, stuck) ==
    /\ UNCHANGED held
    /\ \/ /\ ~entry.numbered
          /\ withdrawn /\ NoFault /\ UNCHANGED <<entry, exit>>
       \/ entry.numbered /\ CancelAccepted(Entry) /\ withdrawn
       \/ entry.numbered /\ (CancelFinished(Entry) \/ CancelFails(Entry)) /\ stuck

\* _withdraw_unfilled: nothing was held at the last poll, and the operator is
\* told whether the entry was withdrawn, had finished, or is still working.
Withdraw ==
    /\ At(Protector, "withdraw")
    /\ CancelEntry(End(Protector), End(Protector))

\* A partial fill: the rest of the entry is withdrawn before a stop is placed.
CancelRest ==
    /\ At(Protector, "cancel_rest")
    /\ CancelEntry(Goto(Protector, "reread"), End(Protector))

Reread ==
    /\ At(Protector, "reread")
    /\ \/ Unreadable(Protector)
       \/ /\ IF held = 0 THEN End(Protector) ELSE Size(Protector, held)
          /\ NoFault
          /\ UNCHANGED <<held, entry, exit>>

Protect ==
    \/ Poll \/ Withdraw \/ CancelRest \/ Reread
    \/ ProtectPosition(Protector)

Next ==
    \/ Protect
    \/ Broker \/ \E x \in ExitId : Fill(x)
    \/ CrashTask(Protector)

Spec == Init /\ [][Next]_position

-----------------------------------------------------------------------------
(* Properties.                                                              *)

\* The types, and how long a position book that shows nothing is asked.
TypeOK == /\ PositionTypeOK
          /\ \A c \in Task : At(c, "poll") => c = Protector /\ task[c].tries < FillPolls

\* "Leave the excess to open a new position in the opposite direction"
\* (live_protection.py:29): no order sent to end a trade reverses it.
NeverReversed == held >= 0

\* What an exit may still sell.
Live(x) == exit[x].at \in {"wire", "open"}
StillSells == MapThenSumSet(LAMBDA x : exit[x].sells, {x \in ExitId : Live(x)})

\* "Retrying could leave two, and when one triggers the other opens a reversed
\* position" (live_protection.py:448): all that may still be sold is held.
ExitsFit == StillSells <= held
=============================================================================
