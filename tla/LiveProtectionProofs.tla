------------------------ MODULE LiveProtectionProofs ------------------------
(***************************************************************************)
(* protect_after_fill on its own, for any quantity, any number of exits and *)
(* faults, and with every failure of the broker switched on or off.         *)
(*                                                                          *)
(* That no exit reverses the position is not inductive: it depends on how   *)
(* much the orders at the broker may still sell, and that on what the       *)
(* coroutine knows when it sends one.  IInv says both: there is never more  *)
(* than one exit that may still trade, it never sells more than is held,    *)
(* and while the coroutine has none out, what it is about to sell is held.  *)
(***************************************************************************)
EXTENDS LiveProtection, TLAPS

Me == task[Protector]

OthersIdle == \A c \in Task \ {Protector} : task[c] = Idle

\* At most one order may still trade, and it fits.
OneExit == \A x, y \in ExitId : Live(x) /\ Live(y) => x = y
Fits    == \A x \in ExitId : Live(x) => 0 < exit[x].sells /\ exit[x].sells <= held

\* Nothing is out until the coroutine has sent something.
Before == {"poll", "withdraw", "cancel_rest", "reread", "place", "flatten"}
NothingOut == Me.pc \in Before => Me.exit = NoExit /\ \A x \in ExitId : ~Live(x)

\* What is about to be sold is held.
Sized == Me.pc \in {"place", "flatten"} => 0 < Me.net /\ Me.net <= held

\* While an answer is awaited the order is the one that is out, and unless it
\* is over the position is as large as it was when it was sized.
Awaiting == {"await_stop", "await_close"}
Waiting ==
    Me.pc \in Awaiting =>
        /\ Me.exit \in ExitId
        /\ exit[Me.exit].at # "none"
        /\ \A x \in ExitId : Live(x) => x = Me.exit
        /\ exit[Me.exit].sells = Me.net
        /\ 0 < Me.net
        /\ exit[Me.exit].at # "gone" => Me.net <= held

\* The sweep is not part of this specification.
Alone == Me.pc \in {"idle"} \cup Before \cup Awaiting

Asked == Me.pc = "poll" => Me.tries < FillPolls

IInv ==
    /\ PositionTypeOK
    /\ held >= 0
    /\ OthersIdle /\ OneExit /\ Fits
    /\ NothingOut /\ Sized /\ Waiting /\ Alone /\ Asked

-----------------------------------------------------------------------------
USE DEF Knowledge, Exit, EntryRow, EntryType, PC, NoExit, ExitId, Before, Awaiting, Idle

\* A step of the coroutine changes its own entry of task and no other.
LEMMA Moved ==
    ASSUME IInv, NEW k \in Knowledge, task' = [task EXCEPT ![Protector] = k]
    PROVE  task' \in [Task -> Knowledge] /\ OthersIdle' /\ Me' = k
  BY ProtectorAssumption DEF IInv, PositionTypeOK, OthersIdle, Me

LEMMA MyType == ASSUME IInv PROVE Me \in Knowledge
  BY ProtectorAssumption DEF IInv, PositionTypeOK, Me

LEMMA IInvInit == Init => IInv
  BY PositionAssumption, ProtectorAssumption
     DEF Init, PositionInit, IInv, PositionTypeOK, AbsentExit, OthersIdle,
         OneExit, Fits, Live, NothingOut, Sized, Waiting, Alone, Asked, Me

LEMMA FaultType == PositionTypeOK /\ (Fault \/ NoFault) => faults' \in 0..MaxFaults
  BY PositionAssumption DEF PositionTypeOK, Fault, NoFault

\* The coroutine moves on without touching anything at the broker.
LEMMA Quiet ==
    ASSUME IInv, NEW k \in Knowledge, task' = [task EXCEPT ![Protector] = k],
           UNCHANGED <<held, exit>>, Me.pc \in Before,
           k.exit = NoExit, k.pc \in {"idle"} \cup Before,
           k.pc \in {"place", "flatten"} => 0 < k.net /\ k.net <= held,
           k.pc = "poll" => k.tries < FillPolls,
           Fault \/ NoFault,
           entry' \in EntryType
    PROVE  IInv'
  <1>1. task' \in [Task -> Knowledge] /\ OthersIdle' /\ Me' = k
    BY Moved
  <1>2. PositionTypeOK'
    BY <1>1, FaultType DEF IInv, PositionTypeOK
  <1>3. OneExit' /\ Fits' /\ held' >= 0
    BY DEF IInv, OneExit, Fits, Live
  <1>4. NothingOut' /\ Sized' /\ Waiting' /\ Alone' /\ Asked'
    BY <1>1 DEF IInv, NothingOut, Sized, Waiting, Alone, Asked, Live
  <1>5. QED
    BY <1>1, <1>2, <1>3, <1>4 DEF IInv

\* The stop is sized to what is held.
LEMMA SizeStep ==
    ASSUME IInv, Me.pc \in Before, held # 0, Size(Protector, held),
           UNCHANGED <<held, entry, exit>>, Fault \/ NoFault
    PROVE  IInv'
  <1> DEFINE k == [Me EXCEPT !.pc = "place", !.net = held, !.tries = 0]
  <1>1. /\ Me \in Knowledge /\ Me.exit = NoExit /\ held \in Int /\ held >= 0
        /\ entry \in EntryType
    BY MyType DEF IInv, NothingOut, PositionTypeOK
  <1>2. k \in Knowledge /\ k.pc = "place" /\ k.exit = NoExit /\ k.net = held
    BY <1>1
  <1>3. 0 < held
    BY <1>1
  <1>4. task' = [task EXCEPT ![Protector] = k]
    BY ProtectorAssumption DEF Size, Me, IInv, PositionTypeOK
  <1> HIDE DEF k
  <1>5. k.pc \in {"place", "flatten"} => 0 < k.net /\ k.net <= held
    BY <1>1, <1>2, <1>3
  <1>6. k.pc \in {"idle"} \cup Before /\ k.pc # "poll"
    BY <1>2
  <1> QED
    BY <1>1, <1>2, <1>4, <1>5, <1>6, Quiet

LEMMA PollStep == IInv /\ Poll => IInv'
  <1> SUFFICES ASSUME IInv, Poll PROVE IInv'
    OBVIOUS
  <1>0. /\ Me \in Knowledge /\ Me.pc = "poll" /\ Me.exit = NoExit /\ Me.tries < FillPolls
        /\ task \in [Task -> Knowledge] /\ Protector \in Task
        /\ held \in Int /\ held >= 0 /\ FillPolls \in Nat /\ Qty \in Nat
        /\ entry \in EntryType
    BY MyType, ProtectorAssumption, PositionAssumption
       DEF Poll, At, IInv, NothingOut, Asked, PositionTypeOK, Me
  <1>1. CASE Unreadable(Protector)
    <2> DEFINE k == Idle
    <2>1. k \in Knowledge /\ k.pc = "idle" /\ k.exit = NoExit
      OBVIOUS
    <2>2. task' = [task EXCEPT ![Protector] = k]
      BY <1>1 DEF Unreadable, End
    <2>3. (Fault \/ NoFault) /\ UNCHANGED <<held, entry, exit>>
      BY <1>1 DEF Unreadable
    <2> HIDE DEF k
    <2> QED
      BY <1>0, <2>1, <2>2, <2>3, Quiet
  <1>2. CASE held = 0 /\ Me.tries + 1 < FillPolls /\ NoFault /\ UNCHANGED <<held, entry, exit>>
             /\ task' = [task EXCEPT ![Protector].tries = @ + 1]
    <2> DEFINE k == [Me EXCEPT !.tries = @ + 1]
    <2>1. k \in Knowledge /\ k.pc = "poll" /\ k.exit = NoExit /\ k.tries < FillPolls
      BY <1>0, <1>2
    <2>2. task' = [task EXCEPT ![Protector] = k]
      BY <1>0, <1>2 DEF Me
    <2> QED
      BY <1>0, <1>2, <2>1, <2>2, Quiet
  <1>3. CASE \E pc \in {"withdraw", "cancel_rest"} :
               Goto(Protector, pc) /\ NoFault /\ UNCHANGED <<held, entry, exit>>
    <2>0. PICK pc \in {"withdraw", "cancel_rest"} :
               Goto(Protector, pc) /\ NoFault /\ UNCHANGED <<held, entry, exit>>
      BY <1>3
    <2> DEFINE k == [Me EXCEPT !.pc = pc]
    <2>1. k \in Knowledge /\ k.pc = pc /\ k.exit = NoExit
      BY <1>0
    <2>2. task' = [task EXCEPT ![Protector] = k]
      BY <1>0, <2>0 DEF Me, Goto
    <2> HIDE DEF k
    <2> QED
      BY <1>0, <2>0, <2>1, <2>2, Quiet
  <1>4. CASE held # 0 /\ Size(Protector, held) /\ NoFault /\ UNCHANGED <<held, entry, exit>>
    BY <1>0, <1>4, SizeStep
  <1> QED
    BY <1>0, <1>1, <1>2, <1>3, <1>4 DEF Poll, Me

LEMMA CancelEntryEffect ==
    ASSUME IInv, NEW withdrawn, NEW stuck, CancelEntry(withdrawn, stuck)
    PROVE  /\ withdrawn \/ stuck
           /\ UNCHANGED <<held, exit>>
           /\ Fault \/ NoFault
           /\ entry' \in EntryType
  <1>1. entry \in EntryType /\ 0 \in 0..Qty
    BY PositionAssumption DEF IInv, PositionTypeOK
  <1>2. Obey(Entry) => UNCHANGED exit /\ entry' \in EntryType
    BY <1>1 DEF Obey
  <1> QED
    BY <1>1, <1>2 DEF CancelEntry, CancelAccepted, CancelFinished, CancelFails

LEMMA EndStep ==
    ASSUME IInv, Me.pc \in Before, End(Protector), UNCHANGED <<held, exit>>, Fault \/ NoFault,
           entry' \in EntryType
    PROVE  IInv'
  <1> DEFINE k == Idle
  <1>1. k \in Knowledge /\ k.pc = "idle" /\ k.exit = NoExit
    OBVIOUS
  <1>2. task' = [task EXCEPT ![Protector] = k]
    BY DEF End
  <1> HIDE DEF k
  <1> QED
    BY <1>1, <1>2, Quiet

LEMMA WithdrawStep == IInv /\ Withdraw => IInv'
  <1> SUFFICES ASSUME IInv, Withdraw PROVE IInv'
    OBVIOUS
  <1>1. Me.pc \in Before /\ CancelEntry(End(Protector), End(Protector))
    BY DEF Withdraw, At, Me
  <1> QED
    BY <1>1, CancelEntryEffect, EndStep

LEMMA CancelRestStep == IInv /\ CancelRest => IInv'
  <1> SUFFICES ASSUME IInv, CancelRest PROVE IInv'
    OBVIOUS
  <1>1. Me.pc = "cancel_rest" /\ CancelEntry(Goto(Protector, "reread"), End(Protector))
    BY DEF CancelRest, At, Me
  <1>2. /\ Goto(Protector, "reread") \/ End(Protector)
        /\ UNCHANGED <<held, exit>> /\ (Fault \/ NoFault)
        /\ entry' \in EntryType
    BY <1>1, CancelEntryEffect
  <1>3. CASE End(Protector)
    BY <1>1, <1>2, <1>3, EndStep
  <1>4. CASE Goto(Protector, "reread")
    <2> DEFINE k == [Me EXCEPT !.pc = "reread"]
    <2>1. k \in Knowledge /\ k.pc = "reread" /\ k.exit = NoExit
      BY <1>1, MyType DEF IInv, NothingOut
    <2>2. task' = [task EXCEPT ![Protector] = k]
      BY <1>4, ProtectorAssumption DEF Goto, Me, IInv, PositionTypeOK
    <2> HIDE DEF k
    <2> QED
      BY <1>1, <1>2, <2>1, <2>2, Quiet
  <1> QED
    BY <1>2, <1>3, <1>4

LEMMA RereadStep == IInv /\ Reread => IInv'
  <1> SUFFICES ASSUME IInv, Reread PROVE IInv'
    OBVIOUS
  <1>1. /\ Me.pc = "reread" /\ UNCHANGED <<held, exit, entry>> /\ (Fault \/ NoFault)
        /\ entry' \in EntryType
        /\ End(Protector) \/ (held # 0 /\ Size(Protector, held))
    BY DEF Reread, At, Me, Unreadable, IInv, PositionTypeOK
  <1>2. CASE End(Protector)
    BY <1>1, <1>2, EndStep
  <1>3. CASE held # 0 /\ Size(Protector, held)
    BY <1>1, <1>3, SizeStep
  <1> QED
    BY <1>1, <1>2, <1>3

LEMMA SendStep ==
    ASSUME IInv, NEW kind \in {"stop", "market"}, NEW pc \in Awaiting,
           Me.pc \in {"place", "flatten"}, Send(Protector, kind, pc)
    PROVE  IInv'
  <1>1. PICK x \in NextNumber :
          /\ exit' = [exit EXCEPT ![x] = Sent(kind, Me.net, Me.level)]
          /\ task' = [task EXCEPT ![Protector].pc = pc, ![Protector].exit = x]
          /\ UNCHANGED <<held, entry, faults>>
    BY DEF Send, Me
  <1> DEFINE k == [Me EXCEPT !.pc = pc, !.exit = x]
             o == Sent(kind, Me.net, Me.level)
  <1>2. x \in ExitId /\ Me \in Knowledge /\ 0 < Me.net /\ Me.net <= held
        /\ \A y \in ExitId : ~Live(y)
    BY MyType DEF NextNumber, IInv, Sized, NothingOut
  <1>3. k \in Knowledge /\ k.pc = pc /\ k.exit = x /\ k.net = Me.net
    BY <1>2
  <1>4. task' = [task EXCEPT ![Protector] = k]
    BY <1>1, ProtectorAssumption DEF Me, IInv, PositionTypeOK
  <1>5. o \in Exit /\ o.at = "wire" /\ o.sells = Me.net
    BY <1>2 DEF Sent, AbsentExit
  <1> HIDE DEF k, o
  <1>6. task' \in [Task -> Knowledge] /\ OthersIdle' /\ Me' = k
    BY <1>3, <1>4, Moved
  <1>7. exit' \in [ExitId -> Exit] /\ exit'[x] = o /\ \A y \in ExitId \ {x} : exit'[y] = exit[y]
    BY <1>1, <1>2, <1>5 DEF IInv, PositionTypeOK, o
  <1>8. PositionTypeOK'
    BY <1>1, <1>6, <1>7 DEF IInv, PositionTypeOK
  <1>9. OneExit' /\ Fits' /\ held' >= 0
    BY <1>1, <1>2, <1>5, <1>7 DEF IInv, OneExit, Fits, Live
  <1>10. NothingOut' /\ Sized' /\ Waiting' /\ Alone' /\ Asked'
    BY <1>1, <1>2, <1>3, <1>5, <1>6, <1>7 DEF NothingOut, Sized, Waiting, Alone, Asked, Live
  <1> QED
    BY <1>6, <1>8, <1>9, <1>10 DEF IInv

LEMMA SendsStep == IInv /\ (SendStop(Protector) \/ SendClose(Protector)) => IInv'
  BY SendStep DEF SendStop, SendClose, At, Me

LEMMA Spent == SpentExit \in Exit /\ SpentExit.at = "gone"
  <1>1. AbsentExit \in Exit
    BY DEF AbsentExit
  <1> QED
    BY <1>1 DEF SpentExit

\* Writing an answer down makes no order live.
LEMMA RecordEffect ==
    ASSUME exit \in [ExitId -> Exit], NEW x \in ExitId, NEW accepted \in BOOLEAN, Record(x, accepted)
    PROVE  /\ exit' \in [ExitId -> Exit]
           /\ \A y \in ExitId : Live(y)' => Live(y) /\ exit'[y].sells = exit[y].sells
  <1> DEFINE o == IF exit[x].at \in {"wire", "open"} THEN [exit[x] EXCEPT !.accepted = accepted] ELSE SpentExit
  <1>1. o \in Exit /\ (o.at \in {"wire", "open"} => exit[x].at \in {"wire", "open"} /\ o.sells = exit[x].sells)
    <2>1. exit[x] \in Exit
      OBVIOUS
    <2>2. CASE exit[x].at \in {"wire", "open"}
      BY <2>1, <2>2
    <2>3. CASE exit[x].at \notin {"wire", "open"}
      BY <2>3, Spent
    <2> QED
      BY <2>2, <2>3
  <1>2. exit' = [exit EXCEPT ![x] = o]
    BY DEF Record
  <1> HIDE DEF o
  <1> QED
    BY <1>1, <1>2 DEF Live

LEMMA FewerLive ==
    ASSUME IInv, \A y \in ExitId : Live(y)' => Live(y) /\ exit'[y].sells = exit[y].sells,
           UNCHANGED held
    PROVE  OneExit' /\ Fits' /\ held' >= 0
  BY DEF IInv, OneExit, Fits

\* An awaited answer, or a crash, ends the coroutine.
LEMMA HearEnd ==
    ASSUME IInv, NEW x \in ExitId, NEW accepted \in BOOLEAN, Record(x, accepted), End(Protector),
           UNCHANGED <<held, entry>>, Fault \/ NoFault
    PROVE  IInv'
  <1> DEFINE k == Idle
  <1>1. k \in Knowledge /\ k.pc = "idle"
    OBVIOUS
  <1>2. task' = [task EXCEPT ![Protector] = k]
    BY DEF End
  <1> HIDE DEF k
  <1>3. task' \in [Task -> Knowledge] /\ OthersIdle' /\ Me' = k
    BY <1>1, <1>2, Moved
  <1>4. /\ exit' \in [ExitId -> Exit]
        /\ \A y \in ExitId : Live(y)' => Live(y) /\ exit'[y].sells = exit[y].sells
    BY RecordEffect DEF IInv, PositionTypeOK
  <1>5. PositionTypeOK'
    BY <1>3, <1>4, FaultType DEF IInv, PositionTypeOK
  <1>6. OneExit' /\ Fits' /\ held' >= 0
    BY <1>4, FewerLive
  <1>7. NothingOut' /\ Sized' /\ Waiting' /\ Alone' /\ Asked'
    BY <1>1, <1>3 DEF NothingOut, Sized, Waiting, Alone, Asked
  <1> QED
    BY <1>3, <1>5, <1>6, <1>7 DEF IInv

LEMMA HearFault == \A x \in ExitId : Accepts(x) \/ Rejects(x) \/ Unheard(x) => Fault \/ NoFault
  BY DEF Accepts, Rejects, Unheard

\* A refusal leaves nothing out and the position as large as it was.
LEMMA RefusedStep ==
    ASSUME IInv, Me.pc = "await_stop", Rejects(Me.exit), Record(Me.exit, FALSE),
           task' = [task EXCEPT ![Protector].tries = @ + 1, ![Protector].exit = NoExit,
                      ![Protector].pc = IF Me.tries + 1 < StopPlaceAttempts THEN "place" ELSE "flatten"],
           UNCHANGED <<held, entry>>
    PROVE  IInv'
  <1> DEFINE pc == IF Me.tries + 1 < StopPlaceAttempts THEN "place" ELSE "flatten"
             k  == [Me EXCEPT !.tries = @ + 1, !.exit = NoExit, !.pc = pc]
             x  == Me.exit
  <1>1. /\ Me \in Knowledge /\ x \in ExitId /\ exit[x].at = "refused" /\ NoFault
        /\ 0 < Me.net /\ Me.net <= held /\ \A y \in ExitId : Live(y) => y = x
    BY MyType DEF IInv, Waiting, Rejects
  <1>2. k \in Knowledge /\ k.pc \in {"place", "flatten"} /\ k.exit = NoExit /\ k.net = Me.net
    <2>1. pc \in {"place", "flatten"}
      OBVIOUS
    <2>2. Me.tries + 1 \in Nat
      BY <1>1
    <2> DEFINE n == Me.tries + 1
    <2> HIDE DEF pc, n
    <2>3. [Me EXCEPT !.tries = n, !.exit = NoExit, !.pc = pc] \in Knowledge
      BY <1>1, <2>1, <2>2 DEF n
    <2> QED
      BY <1>1, <2>1, <2>3 DEF n
  <1>3. task' = [task EXCEPT ![Protector] = k]
    BY ProtectorAssumption DEF Me, IInv, PositionTypeOK
  <1> HIDE DEF k
  <1>4. task' \in [Task -> Knowledge] /\ OthersIdle' /\ Me' = k
    BY <1>2, <1>3, Moved
  <1>5. /\ exit' \in [ExitId -> Exit]
        /\ \A y \in ExitId : Live(y)' => Live(y) /\ exit'[y].sells = exit[y].sells
    BY <1>1, RecordEffect DEF IInv, PositionTypeOK
  <1>6. \A y \in ExitId : ~Live(y)'
    BY <1>1, <1>5 DEF Live
  <1>7. PositionTypeOK'
    BY <1>1, <1>4, <1>5, FaultType DEF IInv, PositionTypeOK
  <1>8. OneExit' /\ Fits' /\ held' >= 0
    BY <1>5, FewerLive
  <1>9. NothingOut' /\ Sized' /\ Waiting' /\ Alone' /\ Asked'
    BY <1>1, <1>2, <1>4, <1>6 DEF NothingOut, Sized, Waiting, Alone, Asked
  <1> QED
    BY <1>4, <1>7, <1>8, <1>9 DEF IInv

LEMMA HearStep == IInv /\ (HearStop(Protector) \/ HearClose(Protector)) => IInv'
  <1> SUFFICES ASSUME IInv, HearStop(Protector) \/ HearClose(Protector) PROVE IInv'
    OBVIOUS
  <1>1. Me.pc \in Awaiting /\ Me.exit \in ExitId /\ UNCHANGED <<held, entry>>
    BY DEF HearStop, HearClose, At, Me, IInv, Waiting
  <1>2. CASE \E accepted \in BOOLEAN :
               /\ Record(Me.exit, accepted) /\ End(Protector)
               /\ Accepts(Me.exit) \/ Rejects(Me.exit) \/ Unheard(Me.exit)
    BY <1>1, <1>2, HearEnd, HearFault
  <1>3. CASE /\ Me.pc = "await_stop" /\ Rejects(Me.exit) /\ Record(Me.exit, FALSE)
             /\ task' = [task EXCEPT ![Protector].tries = @ + 1, ![Protector].exit = NoExit,
                      ![Protector].pc = IF Me.tries + 1 < StopPlaceAttempts THEN "place" ELSE "flatten"]
    BY <1>1, <1>3, RefusedStep
  <1> QED
    BY <1>2, <1>3 DEF HearStop, HearClose, At, Me

LEMMA CrashStep == IInv /\ CrashTask(Protector) => IInv'
  <1> SUFFICES ASSUME IInv, CrashTask(Protector) PROVE IInv'
    OBVIOUS
  <1>1. Me.exit = NoExit \/ (Me.exit \in ExitId /\ Record(Me.exit, FALSE))
    BY MyType DEF CrashTask, Me
  <1>2. CASE Me.pc \in Before
    <2>1. Me.exit = NoExit
      BY <1>2 DEF IInv, NothingOut
    <2>2. UNCHANGED <<held, entry, exit>> /\ End(Protector) /\ Fault
      BY <2>1 DEF CrashTask, Me
    <2>3. entry' \in EntryType
      BY <2>2 DEF IInv, PositionTypeOK
    <2> QED
      BY <1>2, <2>2, <2>3, EndStep
  <1>3. CASE Me.pc \in Awaiting
    <2>1. Me.exit \in ExitId /\ Me.exit # NoExit
      BY <1>3 DEF IInv, Waiting
    <2>2. Record(Me.exit, FALSE) /\ End(Protector) /\ Fault /\ UNCHANGED <<held, entry>>
      BY <2>1 DEF CrashTask, Me
    <2> QED
      BY <2>1, <2>2, HearEnd
  <1> QED
    BY <1>2, <1>3 DEF CrashTask, At, Me, IInv, Alone

-----------------------------------------------------------------------------
(* The broker's steps leave the coroutine where it is.                      *)

\* What an order becomes when it is over.
LEMMA EndedExit ==
    ASSUME exit \in [ExitId -> Exit], NEW x \in ExitId, NEW at \in {"refused", "lost", "gone"}
    PROVE  /\ Ended(x, at) \in Exit
           /\ Ended(x, at).at \in {at, "gone"}
           /\ Awaited(x) => Ended(x, at).sells = exit[x].sells
  <1>1. exit[x] \in Exit
    OBVIOUS
  <1>2. CASE Awaited(x)
    <2>1. Ended(x, at) = [exit[x] EXCEPT !.at = at, !.cancelling = FALSE]
      BY <1>2 DEF Ended
    <2> QED
      BY <1>1, <2>1
  <1>3. CASE ~Awaited(x)
    BY <1>3, Spent DEF Ended
  <1> QED
    BY <1>2, <1>3

\* An order ends: it may have sold what it had to sell, or not.
LEMMA OrderEnds ==
    ASSUME IInv, NEW x \in ExitId, NEW at \in {"refused", "lost", "gone"},
           exit' = [exit EXCEPT ![x] = Ended(x, at)],
           \/ UNCHANGED held /\ (Live(x) \/ at = "gone")
           \/ Live(x) /\ at = "gone" /\ held' = held - exit[x].sells,
           UNCHANGED <<entry, task>>, Fault \/ NoFault
    PROVE  IInv'
  <1> DEFINE o == Ended(x, at)
  <1>1. exit \in [ExitId -> Exit] /\ held \in Int /\ held >= 0 /\ exit[x] \in Exit
    BY DEF IInv, PositionTypeOK
  <1>2. o \in Exit /\ o.at \in {at, "gone"} /\ o.at \notin {"wire", "open", "none"} /\ (Awaited(x) => o.sells = exit[x].sells)
    BY <1>1, EndedExit
  <1> HIDE DEF o
  <1>3. exit' \in [ExitId -> Exit] /\ exit'[x] = o /\ \A y \in ExitId \ {x} : exit'[y] = exit[y]
    BY <1>1, <1>2 DEF o
  <1>4. \A y \in ExitId : Live(y)' => y # x /\ Live(y) /\ exit'[y].sells = exit[y].sells
    BY <1>2, <1>3 DEF Live
  <1>5. held' \in Int /\ held' >= 0 /\ (held' # held => Live(x))
    BY <1>1 DEF IInv, Fits
  <1>6. PositionTypeOK'
    BY <1>3, <1>5, FaultType DEF IInv, PositionTypeOK
  <1>7. OneExit' /\ Fits'
    BY <1>4, <1>5 DEF IInv, OneExit, Fits
  <1>8. Me' = Me /\ OthersIdle'
    BY DEF Me, IInv, OthersIdle
  <1>9. NothingOut' /\ Sized' /\ Alone' /\ Asked'
    BY <1>4, <1>5, <1>8 DEF IInv, NothingOut, Sized, Alone, Asked
  <1>10. Waiting'
    <2> SUFFICES ASSUME Me.pc \in Awaiting PROVE Waiting'
      BY <1>8 DEF Waiting
    <2>1. /\ Me.exit \in ExitId /\ exit[Me.exit].at # "none" /\ exit[Me.exit].sells = Me.net
          /\ 0 < Me.net /\ \A y \in ExitId : Live(y) => y = Me.exit
          /\ exit[Me.exit].at # "gone" => Me.net <= held
      BY DEF IInv, Waiting
    <2>2. CASE Me.exit = x
      <3>1. Awaited(x)
        BY <2>2, ProtectorAssumption DEF Awaited, Me
      <3>2. exit'[Me.exit] = o /\ o.sells = Me.net /\ o.at # "none"
        BY <1>2, <1>3, <2>1, <2>2, <3>1
      <3>3. o.at # "gone" => Me.net <= held'
        BY <1>1, <1>2, <2>1, <2>2 DEF Live
      <3> QED
        BY <1>4, <1>8, <2>1, <3>2, <3>3 DEF Waiting
    <2>3. CASE Me.exit # x
      <3>1. ~Live(x) /\ held' = held
        BY <1>5, <2>1, <2>3
      <3> QED
        BY <1>3, <1>4, <1>8, <2>1, <2>3, <3>1 DEF Waiting
    <2> QED
      BY <2>2, <2>3
  <1> QED
    BY <1>6, <1>5, <1>7, <1>8, <1>9, <1>10 DEF IInv

\* An order in transit begins to rest.
LEMMA OrderRests ==
    ASSUME IInv, NEW x \in ExitId, exit[x].at = "wire", exit' = [exit EXCEPT ![x].at = "open"],
           UNCHANGED <<held, entry, task>>, Fault \/ NoFault
    PROVE  IInv'
  <1>1. exit \in [ExitId -> Exit] /\ exit[x] \in Exit
    BY DEF IInv, PositionTypeOK
  <1>2. /\ exit' \in [ExitId -> Exit]
        /\ exit'[x].at = "open" /\ exit'[x].sells = exit[x].sells
        /\ \A y \in ExitId \ {x} : exit'[y] = exit[y]
    BY <1>1
  <1>3. \A y \in ExitId : Live(y)' => Live(y) /\ exit'[y].sells = exit[y].sells
    BY <1>1, <1>2 DEF Live
  <1>4. PositionTypeOK'
    BY <1>2, FaultType DEF IInv, PositionTypeOK
  <1>5. OneExit' /\ Fits' /\ held' >= 0
    BY <1>3, FewerLive
  <1>6. Me' = Me /\ OthersIdle'
    BY DEF Me, IInv, OthersIdle
  <1>7. NothingOut' /\ Sized' /\ Alone' /\ Asked'
    BY <1>3, <1>6 DEF IInv, NothingOut, Sized, Alone, Asked
  <1>8. Waiting'
    BY <1>1, <1>2, <1>3, <1>6 DEF IInv, Waiting, Live
  <1> QED
    BY <1>4, <1>5, <1>6, <1>7, <1>8 DEF IInv

\* The entry fills, is found by recovery, or is withdrawn: no exit changes.
LEMMA EntryMoves ==
    ASSUME IInv, UNCHANGED <<exit, task, faults>>, held' \in Int, held' >= held,
           entry' \in EntryType
    PROVE  IInv'
  <1>1. held \in Int /\ exit \in [ExitId -> Exit] /\ \A y \in ExitId : exit[y].sells \in Int
    BY DEF IInv, PositionTypeOK
  <1>2. PositionTypeOK' /\ held' >= 0 /\ Me' = Me /\ OthersIdle'
    BY <1>1 DEF IInv, PositionTypeOK, Me, OthersIdle
  <1>3. OneExit' /\ Fits'
    BY <1>1 DEF IInv, OneExit, Fits, Live
  <1>4. NothingOut' /\ Sized' /\ Waiting' /\ Alone' /\ Asked'
    BY <1>1, <1>2, MyType DEF IInv, NothingOut, Sized, Waiting, Alone, Asked, Live
  <1> QED
    BY <1>2, <1>3, <1>4 DEF IInv

LEMMA ArriveStep == ASSUME NEW x \in ExitId PROVE IInv /\ Arrive(x) => IInv'
  <1> SUFFICES ASSUME IInv, Arrive(x) PROVE IInv'
    OBVIOUS
  <1>1. exit[x].at = "wire" /\ Live(x) /\ UNCHANGED <<entry, task>>
    BY DEF Arrive, Live
  <1>2. CASE exit' = [exit EXCEPT ![x].at = "open"] /\ UNCHANGED held /\ (Fault \/ NoFault)
    BY <1>1, <1>2, OrderRests
  <1>3. CASE Filled(x) /\ NoFault
    BY <1>1, <1>3, OrderEnds DEF Filled
  <1>4. CASE \E at \in {"refused", "lost"} :
               exit' = [exit EXCEPT ![x] = Ended(x, at)] /\ UNCHANGED held /\ Fault
    BY <1>1, <1>4, OrderEnds
  <1> QED
    BY <1>2, <1>3, <1>4 DEF Arrive

LEMMA FillStep == ASSUME NEW x \in ExitId PROVE IInv /\ Fill(x) => IInv'
  <1> SUFFICES ASSUME IInv, Fill(x) PROVE IInv'
    OBVIOUS
  <1>1. /\ Live(x) /\ UNCHANGED <<entry, task>> /\ NoFault /\ held' = held - exit[x].sells
        /\ exit' = [exit EXCEPT ![x] = Ended(x, "gone")]
    BY DEF Fill, Filled, IsOpen, Live, NoFault
  <1> QED
    BY <1>1, OrderEnds

LEMMA DropStep == ASSUME NEW x \in ExitId PROVE IInv /\ Drop(x) => IInv'
  BY OrderEnds DEF Drop

LEMMA TakeCancelStep == IInv /\ TakeCancel => IInv'
  <1> SUFFICES ASSUME IInv, TakeCancel PROVE IInv'
    OBVIOUS
  <1>1. CASE /\ entry' = [entry EXCEPT !.rest = 0, !.cancelling = FALSE]
             /\ UNCHANGED <<held, exit, task, faults>>
    <2>1. entry' \in EntryType
      <3>1. entry \in EntryType
            /\ 0 \in 0..Qty /\ FALSE \in BOOLEAN
        BY PositionAssumption DEF IInv, PositionTypeOK
      <3> HIDE DEF EntryRow
      <3> QED
        BY <1>1, <3>1
    <2>2. held' \in Int /\ held' >= held
      BY <1>1 DEF IInv, PositionTypeOK
    <2> QED
      BY <1>1, <2>1, <2>2, EntryMoves
  <1>2. CASE \E x \in ExitId : exit' = [exit EXCEPT ![x] = Ended(x, "gone")] /\ UNCHANGED <<held, entry, task, faults>>
    BY <1>2, OrderEnds DEF NoFault
  <1> QED
    BY <1>1, <1>2 DEF TakeCancel

LEMMA EntryStep == IInv /\ (FillEntry \/ RecoverEntry) => IInv'
  <1> SUFFICES ASSUME IInv, FillEntry \/ RecoverEntry PROVE IInv'
    OBVIOUS
  <1>1. /\ held \in Int /\ entry \in EntryType
        /\ Qty \in Nat
    BY PositionAssumption DEF IInv, PositionTypeOK
  <1>2. CASE FillEntry
    <2>1. PICK k \in 1..entry.rest : held' = held + k /\ entry' = [entry EXCEPT !.rest = @ - k]
      BY <1>2 DEF FillEntry
    <2> QED
      BY <1>1, <1>2, <2>1, EntryMoves DEF FillEntry
  <1>3. CASE RecoverEntry
    BY <1>1, <1>3, EntryMoves DEF RecoverEntry
  <1> QED
    BY <1>2, <1>3

LEMMA StutterStep == IInv /\ UNCHANGED position => IInv'
  BY EntryMoves DEF position, IInv, PositionTypeOK

LEMMA IInvNext == IInv /\ [Next]_position => IInv'
  <1> SUFFICES ASSUME IInv, [Next]_position PROVE IInv'
    OBVIOUS
  <1>1. CASE Protect
    BY <1>1, PollStep, WithdrawStep, CancelRestStep, RereadStep, SendsStep, HearStep DEF Protect, ProtectPosition
  <1>2. CASE Broker \/ \E x \in ExitId : Fill(x)
    BY <1>2, EntryStep, TakeCancelStep, ArriveStep, DropStep, FillStep DEF Broker
  <1>3. CASE CrashTask(Protector)
    BY <1>3, CrashStep
  <1>4. CASE UNCHANGED position
    BY <1>4, StutterStep
  <1> QED
    BY <1>1, <1>2, <1>3, <1>4 DEF Next

\* The inductive invariant holds in every reachable state.
THEOREM Invariant == Spec => []IInv
  BY IInvInit, IInvNext, PTL DEF Spec

\* Every reachable state is well typed, and the position book is asked no more
\* than FILL_POLL_ATTEMPTS times (live_protection.py:300).
THEOREM TypeCorrect == Spec => []TypeOK
  <1>1. IInv => TypeOK
    BY DEF IInv, TypeOK, At, Asked, OthersIdle, Me
  <1> QED
    BY <1>1, Invariant, PTL

\* No exit that protect_after_fill sends, twice refused, half filled, lost or
\* dropped, reverses the position it was sent for (live_protection.py:29).
THEOREM NeverReversed_Holds == Spec => []NeverReversed
  <1>1. IInv => NeverReversed
    BY DEF IInv, NeverReversed
  <1> QED
    BY <1>1, Invariant, PTL

-----------------------------------------------------------------------------
(* The sum over at most one order.                                          *)

LEMMA SumOfNone == MapThenSumSet(LAMBDA x : exit[x].sells, {}) = 0
  <1> DEFINE Step(f, s) == IF s = {} THEN 0
                           ELSE LET x == CHOOSE x \in s : TRUE IN exit[x].sells + f[s \ {x}]
             iter == CHOOSE iter : iter = [s \in SUBSET {} |-> Step(iter, s)]
             g    == [s \in SUBSET {} |-> 0]
  <1>1. g = [s \in SUBSET {} |-> Step(g, s)]
    OBVIOUS
  <1>2. iter = [s \in SUBSET {} |-> Step(iter, s)]
    BY <1>1
  <1>3. iter[{}] = 0
    BY <1>2
  <1>4. MapThenSumSet(LAMBDA x : exit[x].sells, {}) = iter[{}]
    BY DEF MapThenSumSet, MapThenFoldSet
  <1> QED
    BY <1>3, <1>4

LEMMA SumOfOne ==
    ASSUME NEW y, exit[y].sells \in Int
    PROVE  MapThenSumSet(LAMBDA x : exit[x].sells, {y}) = exit[y].sells
  <1> DEFINE Step(f, s) == IF s = {} THEN 0
                           ELSE LET x == CHOOSE x \in s : TRUE IN exit[x].sells + f[s \ {x}]
             iter == CHOOSE iter : iter = [s \in SUBSET {y} |-> Step(iter, s)]
             g    == [s \in SUBSET {y} |-> IF s = {} THEN 0 ELSE exit[y].sells]
  <1>1. \A s \in SUBSET {y} : s = {} \/ s = {y}
    OBVIOUS
  <1>2. (CHOOSE x \in {y} : TRUE) = y /\ {y} \ {y} = {} /\ {} \in SUBSET {y} /\ {y} \in SUBSET {y}
    OBVIOUS
  <1>3. \A s \in SUBSET {y} : g[s] = Step(g, s)
    <2> TAKE s \in SUBSET {y}
    <2>1. CASE s = {}
      BY <2>1
    <2>2. CASE s = {y}
      <3>1. Step(g, {y}) = exit[y].sells + g[{}]
        BY <1>2
      <3>2. g[{}] = 0 /\ g[{y}] = exit[y].sells
        BY <1>2
      <3> QED
        BY <2>2, <3>1, <3>2
    <2> QED
      BY <1>1, <2>1, <2>2
  <1>4. g = [s \in SUBSET {y} |-> Step(g, s)]
    BY <1>3
  <1>5. iter = [s \in SUBSET {y} |-> Step(iter, s)]
    <2> HIDE DEF g, Step
    <2> QED
      BY <1>4
  <1>6. iter[{}] = 0 /\ iter[{y}] = exit[y].sells
    <2> DEFINE h == iter
    <2>1. h = [s \in SUBSET {y} |-> Step(h, s)]
      BY <1>5
    <2> HIDE DEF h
    <2>2. h[{}] = 0
      BY <1>2, <2>1
    <2>3. h[{y}] = exit[y].sells + h[{}]
      BY <1>2, <2>1
    <2> QED
      BY <2>2, <2>3 DEF h
  <1>7. MapThenSumSet(LAMBDA x : exit[x].sells, {y}) = iter[{y}]
    BY DEF MapThenSumSet, MapThenFoldSet
  <1> QED
    BY <1>6, <1>7

\* What may still be sold is held: protect_after_fill never has two exits out that
\* together exceed the position (live_protection.py:448).
THEOREM ExitsFit_Holds == Spec => []ExitsFit
  <1>1. IInv => ExitsFit
    <2> SUFFICES ASSUME IInv PROVE ExitsFit
      OBVIOUS
    <2> DEFINE S == {x \in ExitId : Live(x)}
    <2>1. \A x \in ExitId : exit[x].sells \in Int
      BY DEF IInv, PositionTypeOK
    <2>2. CASE S = {}
      <3>1. StillSells = 0
        BY <2>2, SumOfNone DEF StillSells
      <3> QED
        BY <3>1 DEF ExitsFit, IInv
    <2>3. CASE S # {}
      <3>1. PICK y : y \in S
        BY <2>3
      <3>2. S = {y}
        BY <3>1 DEF IInv, OneExit
      <3>3. StillSells = exit[y].sells
        BY <2>1, <3>1, <3>2, SumOfOne DEF StillSells
      <3> QED
        BY <3>1, <3>3 DEF ExitsFit, IInv, Fits
    <2> QED
      BY <2>2, <2>3
  <1> QED
    BY <1>1, Invariant, PTL
=============================================================================
