----------------------------- MODULE LiveSession -----------------------------
(***************************************************************************)
(* Opening and closing the live session: the reconciliations and how long    *)
(* they are good for, arming and disarming, the scanner and the emergency     *)
(* stop.  (services/live_session_open.py, live_activation.py, safety.py,      *)
(* live_readiness.py; routes/live_shadow.py, scanner.py, safety.py.)          *)
(*                                                                          *)
(* The opening job, the refresh job and the operator's requests run beside    *)
(* one another.  Which reconciliation and which activation count is decided   *)
(* by created_at, which PostgreSQL sets to the time the transaction STARTED.  *)
(***************************************************************************)
EXTENDS Integers, Sequences, SequencesExt

CONSTANTS
    Period,      \* the refresh job is due every Period
    MaxLag,      \* it has stored its verdict this long after it was due
    MaxAge,      \* RECONCILIATION_FRESHNESS, RECONCILIATION_MAX_AGE
    Ttl,         \* live_activation_ttl_minutes
    MaxRequests  \* bound: what the operator asks for

ASSUME SessionAssumption ==
    /\ {Period, MaxAge, Ttl} \subseteq Nat \ {0}
    /\ {MaxLag, MaxRequests} \subseteq Nat
    /\ MaxLag < Period
    /\ Period + MaxLag <= MaxAge     \* "Ten minutes leaves five of margin"

\* The two jobs, and the requests that last more than a step.
Reconciler == {"open", "refresh", "reconcile"}
Armer      == {"open", "arm"}
Starter    == {"open", "start"}
Clerk      == Reconciler \cup Armer \cup Starter

VARIABLES
    wait,       \* time until the refresh job is due, negative when it is late
    requests,   \* what the operator has asked for so far
    clerk,      \* the locals of each job and request
    disarmer,   \* the same of the request that disarms
    order,      \* reconcilers whose row would be the latest, in the order they started
    verdict,    \* the latest row of execution_reconciliations
    arms,       \* live_activations by created_at, with rows not yet committed
    stop,       \* safety:emergency_stop is active ...
    stopper,    \* ... and the request that engages it
    control,    \* scanner:control_state
    disarmed,   \* history: a disarm with no arming under way, and none begun since
    halted,     \* history: a stop with no start under way, and none begun since
    kept        \* history: the refresh job stored its last verdict

books    == <<order, verdict, arms>>
switches == <<stop, stopper, control>>
history  == <<disarmed, halted, kept>>
vars     == <<wait, requests, clerk, disarmer, books, switches, history>>

\* What is older than MaxAge may be any age.
Expired  == MaxAge + 1
Older(n) == IF n < Expired THEN n + 1 ELSE n

\* No row, or one that has expired and counts for nothing.
NoVerdict == [age |-> Expired, seen |-> Expired, safe |-> FALSE]

Resting == [pc |-> "idle", age |-> 0, seen |-> 0, safe |-> FALSE]

Init ==
    /\ wait = Period /\ requests = 0
    /\ clerk = [c \in Clerk |-> IF c = "open" THEN [Resting EXCEPT !.pc = "due"] ELSE Resting]
    /\ disarmer = [pc |-> "idle", row |-> 0]
    /\ order = <<>>
    /\ verdict = NoVerdict
    /\ arms = <<>>
    /\ stop = FALSE /\ stopper = "idle" /\ control = "STOPPED"
    /\ disarmed = FALSE /\ halted = FALSE /\ kept = FALSE

At(c, pc)   == clerk[c].pc = pc
Goto(c, pc) == clerk' = [clerk EXCEPT ![c] = [Resting EXCEPT !.pc = pc]]
GiveUp(c)   == Goto(c, "idle")
Ask         == requests < MaxRequests /\ requests' = requests + 1

-----------------------------------------------------------------------------
(* What the rows say.                                                        *)

\* Mutant: any activation that was not revoked counts, not the latest.
AnyActivation == \E i \in DOMAIN arms : arms[i].state = "armed" /\ arms[i].left > 0

\* The committed row with the latest created_at, 0 if there is none.
Latest ==
    LET committed == {i \in DOMAIN arms : arms[i].state \in {"armed", "revoked"}} IN
    IF committed = {} THEN 0 ELSE CHOOSE i \in committed : \A j \in committed : j <= i

\* current_activation is not None
Armed == Latest # 0 /\ arms[Latest].state = "armed" /\ arms[Latest].left > 0

\* _reconciliation_gate, and _reconciliation_check of live_risk
Reconciled == verdict.safe /\ verdict.age <= MaxAge

-----------------------------------------------------------------------------
(* Reconciling: the transaction starts, the broker is read, the row is stored *)
(* and committed.                                                            *)

\* Where c stands in order, 0 if its row can no longer be the latest.
Place(c) == SelectInSeq(order, LAMBDA d : d = c)

\* The transaction of c starts.
Begin(c) ==
    /\ Goto(c, "read")
    /\ order' = Append(order, c)

\* open_live_session, once a day; an account already armed is left alone
OpenBegin ==
    /\ At("open", "due")
    /\ IF Armed THEN GiveUp("open") /\ UNCHANGED order ELSE Begin("open")
    /\ UNCHANGED <<wait, requests, disarmer, verdict, arms, switches, history>>

\* Mutant: the refresh waits for the verdict to have expired.
RefreshWhenStale ==
    /\ At("refresh", "idle") /\ wait <= 0
    /\ wait' = wait + Period
    /\ IF Armed /\ ~Reconciled THEN Begin("refresh") ELSE UNCHANGED <<order, clerk>>
    /\ kept' = (kept /\ Armed)
    /\ UNCHANGED <<requests, disarmer, verdict, arms, switches, disarmed, halted>>

\* _refresh, which spends nothing on an account that is not armed
RefreshBegin ==
    /\ At("refresh", "idle") /\ wait <= 0
    /\ wait' = wait + Period
    /\ IF Armed THEN Begin("refresh") ELSE UNCHANGED <<order, clerk>>
    /\ kept' = (kept /\ Armed)
    /\ UNCHANGED <<requests, disarmer, verdict, arms, switches, disarmed, halted>>

ReconcileBegin ==
    /\ At("reconcile", "idle") /\ Ask
    /\ Begin("reconcile")
    /\ UNCHANGED <<wait, disarmer, verdict, arms, switches, history>>

\* reconcile_live_execution; books that differ, or a broker that fails, are unsafe
Read(c) ==
    /\ At(c, "read")
    /\ \E safe \in BOOLEAN : clerk' = [clerk EXCEPT ![c].pc = "store", ![c].safe = safe]
    /\ UNCHANGED <<wait, requests, disarmer, books, switches, history>>

\* Mutant: the row carries the time it was inserted.
StampedAtInsert(c) == [age |-> 0, seen |-> clerk[c].seen, safe |-> clerk[c].safe]

Row(c) == [age |-> clerk[c].age, seen |-> clerk[c].seen, safe |-> clerk[c].safe]

\* persist_live_reconciliation and the commit.  Rows that started before this one
\* can no longer be the latest.  The opening job arms if it is safe.
Store(c) ==
    /\ At(c, "store")
    /\ IF Place(c) # 0
       THEN verdict' = Row(c) /\ order' = SubSeq(order, Place(c) + 1, Len(order))
       ELSE UNCHANGED <<verdict, order>>
    /\ Goto(c, IF c = "open" /\ clerk[c].safe THEN "begin" ELSE "idle")
    /\ kept' = (kept \/ c = "refresh")
    /\ UNCHANGED <<wait, requests, disarmer, arms, switches, disarmed, halted>>

-----------------------------------------------------------------------------
(* Arming and disarming.                                                     *)

\* The transaction that will write the activation starts.
ArmBegin(c) ==
    /\ \/ c = "open" /\ At(c, "begin") /\ UNCHANGED requests
       \/ c = "arm" /\ At(c, "idle") /\ Ask
    /\ Goto(c, "inspect")
    /\ arms' = Append(arms, [by |-> c, state |-> "pending", left |-> Ttl])
    /\ disarmed' = FALSE
    /\ disarmer' = IF disarmer.pc = "idle" THEN disarmer ELSE [disarmer EXCEPT !.pc = "raced"]
    /\ UNCHANGED <<wait, order, verdict, switches, halted, kept>>

\* What becomes of the row c is writing.
Now(c, state) ==
    arms' = [i \in DOMAIN arms |->
              IF arms[i].by = c /\ arms[i].state = "pending" THEN [arms[i] EXCEPT !.state = state] ELSE arms[i]]

\* inspect_live_readiness, and the refusal of activate_live_trading, which rolls back
Inspect(c) ==
    /\ At(c, "inspect")
    /\ IF Reconciled THEN Goto(c, "arm") /\ UNCHANGED arms ELSE GiveUp(c) /\ Now(c, "undone")
    /\ UNCHANGED <<wait, requests, disarmer, order, verdict, switches, history>>

Arm(c) ==
    /\ At(c, "arm")
    /\ Now(c, "armed")
    /\ Goto(c, IF c = "open" THEN "look" ELSE "idle")
    /\ UNCHANGED <<wait, requests, disarmer, order, verdict, switches, history>>

Arming(c) == clerk[c].pc \in {"inspect", "arm"}

\* revoke_live_activation finds the latest row ...
DisarmLook ==
    /\ disarmer.pc = "idle" /\ Ask
    /\ disarmer' = [pc  |-> IF \E c \in Armer : Arming(c) THEN "raced" ELSE "revoke", row |-> Latest]
    /\ UNCHANGED <<wait, clerk, books, switches, history>>

\* ... and marks it.
Disarm ==
    /\ disarmer.pc \in {"revoke", "raced"}
    /\ arms' = IF disarmer.row = 0 THEN arms ELSE [arms EXCEPT ![disarmer.row].state = "revoked"]
    /\ disarmed' = (disarmed \/ disarmer.pc = "revoke")
    /\ disarmer' = [pc |-> "idle", row |-> 0]
    /\ UNCHANGED <<wait, requests, clerk, order, verdict, switches, halted, kept>>

-----------------------------------------------------------------------------
(* The scanner and the emergency stop.                                       *)

\* _start_scanner, and the start route: the stop is read ...
StartLook(c) ==
    /\ \/ c = "open" /\ At(c, "look") /\ UNCHANGED requests
       \/ c = "start" /\ At(c, "idle") /\ Ask
    /\ IF stop THEN GiveUp(c) /\ UNCHANGED halted ELSE Goto(c, "start") /\ halted' = FALSE
    /\ UNCHANGED <<wait, disarmer, books, switches, disarmed, kept>>

\* ... and the scanner is set going.
Start(c) ==
    /\ At(c, "start")
    /\ control' = "RUNNING"
    /\ GiveUp(c)
    /\ UNCHANGED <<wait, requests, disarmer, books, stop, stopper, history>>

StopScanner ==
    /\ control = "RUNNING" /\ Ask
    /\ control' = "STOPPED"
    /\ UNCHANGED <<wait, clerk, disarmer, books, stop, stopper, history>>

\* Mutant: the scanner is stopped before the stop is engaged.
HaltFirst ==
    /\ \/ /\ stopper = "idle" /\ Ask
          /\ stopper' = "halting" /\ control' = "STOPPED" /\ UNCHANGED <<stop, halted>>
       \/ /\ stopper = "halting" /\ UNCHANGED requests
          /\ stopper' = "idle" /\ stop' = TRUE /\ UNCHANGED control
          /\ halted' = \A c \in Starter : ~At(c, "start")
    /\ UNCHANGED <<wait, clerk, disarmer, books, disarmed, kept>>

\* emergency_stop: first the stop, then the scanner
EmergencyStop ==
    /\ \/ /\ stopper = "idle" /\ Ask
          /\ stopper' = "halting" /\ stop' = TRUE /\ UNCHANGED <<control, halted>>
       \/ /\ stopper = "halting" /\ UNCHANGED requests
          /\ stopper' = "idle" /\ control' = "STOPPED" /\ UNCHANGED stop
          /\ halted' = \A c \in Starter : ~At(c, "start")
    /\ UNCHANGED <<wait, clerk, disarmer, books, disarmed, kept>>

ClearStop ==
    /\ stop /\ Ask
    /\ stop' = FALSE
    /\ UNCHANGED <<wait, clerk, disarmer, books, stopper, control, history>>

-----------------------------------------------------------------------------
\* Any step of a clerk may raise; what it has not committed is undone.
Fail(c) ==
    /\ clerk[c].pc \notin {"due", "idle"}
    /\ GiveUp(c)
    /\ order' = IF Place(c) # 0 THEN RemoveAt(order, Place(c)) ELSE order
    /\ Now(c, "undone")
    /\ kept' = (kept /\ c # "refresh")
    /\ UNCHANGED <<wait, requests, disarmer, verdict, switches, disarmed, halted>>

\* Time passes, but the refresh job starts within its grace and its broker answers
\* in time.
Tick ==
    /\ wait > (IF At("refresh", "idle") THEN 0 ELSE Period) - MaxLag
    /\ wait' = wait - 1
    /\ clerk' = [c \in Clerk |-> [clerk[c] EXCEPT !.age = IF At(c, "read") \/ At(c, "store") THEN Older(@) ELSE @,
                                                  !.seen = IF At(c, "store") THEN Older(@) ELSE @]]
    /\ verdict' = IF verdict.age < MaxAge THEN [verdict EXCEPT !.age = Older(@), !.seen = Older(@)] ELSE NoVerdict
    /\ arms' = [i \in DOMAIN arms |->
                  [arms[i] EXCEPT !.left = IF @ > 0 /\ (arms[i].state = "armed" \/ (arms[i].state = "pending" /\ At(arms[i].by, "arm"))) THEN @ - 1 ELSE @]]
    /\ UNCHANGED <<requests, disarmer, order, switches, history>>

Next ==
    \/ OpenBegin \/ RefreshBegin \/ ReconcileBegin
    \/ \E c \in Reconciler : Read(c) \/ Store(c)
    \/ \E c \in Armer : ArmBegin(c) \/ Inspect(c) \/ Arm(c)
    \/ DisarmLook \/ Disarm
    \/ \E c \in Starter : StartLook(c) \/ Start(c)
    \/ StopScanner \/ EmergencyStop \/ ClearStop
    \/ \E c \in Clerk : Fail(c)
    \/ Tick

Spec == Init /\ [][Next]_vars

-----------------------------------------------------------------------------
(* Properties.                                                               *)

ClerkPCs == {"due", "idle", "read", "store", "begin", "inspect", "arm", "look", "start"}

TypeOK ==
    /\ wait \in -MaxLag .. Period /\ requests \in 0 .. MaxRequests
    /\ clerk \in [Clerk -> [pc : ClerkPCs, age : 0 .. Expired, seen : 0 .. Expired, safe : BOOLEAN]]
    /\ disarmer \in [pc : {"idle", "revoke", "raced"}, row : 0 .. Len(arms)]
    /\ order \in Seq({c \in Reconciler : At(c, "read") \/ At(c, "store")}) /\ IsInjective(order)
    /\ verdict \in [age : 0 .. Expired, seen : 0 .. Expired, safe : BOOLEAN]
    /\ arms \in Seq([by : Armer, state : {"pending", "undone", "armed", "revoked"}, left : 0 .. Ttl])
    /\ \A i \in DOMAIN arms : arms[i].state = "pending" => Arming(arms[i].by)
    /\ stop \in BOOLEAN /\ stopper \in {"idle", "halting"} /\ control \in {"STOPPED", "RUNNING"}
    /\ disarmed \in BOOLEAN /\ halted \in BOOLEAN /\ kept \in BOOLEAN

\* Disarming disarms, whichever of several activations it found: unless an arming
\* was under way, nothing is armed until somebody begins to arm it again
\* (live_activation.py:61).
DisarmHolds == disarmed => ~Armed

\* The scanner that an emergency stop found is stopped and stays so until somebody
\* begins to start it again; only a start that had read the stop before can undo
\* it (safety.py:11, live_session_open.py:105).
StopHolds == halted => control = "STOPPED"

\* What lets an entry or an activation through is a reading of the broker's books
\* no older than the freshness window, however long the reconciliation that made it
\* took (live_risk.py:111, live_readiness.py:250).
ReadingIsFresh == Reconciled => verdict.seen <= MaxAge

\* While the account is armed and the refresh job succeeds, the latest verdict is
\* never too old, between one refresh and the next and beside requests that store
\* theirs in any order (scheduler.py:545).
KeptFresh == kept => verdict.age <= MaxAge
=============================================================================
