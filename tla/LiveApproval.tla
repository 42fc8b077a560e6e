---------------------------- MODULE LiveApproval ----------------------------
(***************************************************************************)
(* From a scanner's signal to the one order it may become: the record of    *)
(* the signal, the entry bridge, the question put to the operator, the taps *)
(* that answer it, and the webhook that acts on them.                       *)
(* (services/scanner_orchestration.py, live_entry_bridge.py,                *)
(* live_approval.py, api/routes/telegram.py.)                               *)
(*                                                                          *)
(* One signal.  An approval row is named by the coroutine that asked.  A    *)
(* submission is one step here, sent or refused: LiveSubmission has the     *)
(* rest of it.                                                              *)
(***************************************************************************)
EXTENDS Naturals

CONSTANTS
    Scanner,    \* coroutines that reach the same signal: the feed and the flush
    Hook,       \* webhook requests under way
    Tap,        \* Telegram updates: the operator's taps
    NoTap,
    MaxFaults   \* bound: crashes and failed requests

ASSUME ApprovalAssumption == NoTap \notin Tap /\ MaxFaults \in Nat

VARIABLES
    recorded,   \* whether the signal is in paper_signals
    scan,       \* where each scanner coroutine is
    approval,   \* live_order_approvals, by the coroutine that asked
    expired,    \* the rows whose expires_at is past
    shown,      \* the questions that reached the operator
    tap,        \* what was tapped, and whether Telegram is done with it
    seen,       \* telegram_inbound_events
    hook,       \* each webhook request: where it is and the tap it serves
    orders,     \* submissions made for the signal, by coroutine or approval
    faults

vars == <<recorded, scan, approval, expired, shown, tap, seen, hook, orders, faults>>
row  == <<approval, expired>>

-----------------------------------------------------------------------------
Status == {"none", "PENDING", "APPROVED", "REJECTED", "EXPIRED", "BLOCKED", "SUBMITTED"}

\* Mutant: an approval is spent only when its submission has been reported.
TerminalOnceReported == {"REJECTED", "EXPIRED", "BLOCKED", "SUBMITTED"}

TERMINAL_STATUSES == {"APPROVED", "REJECTED", "EXPIRED", "BLOCKED", "SUBMITTED"}

Action == {"approve", "reject"}
NotTapped == [ref |-> "none", action |-> "none", at |-> "unused"]
Request == [pc : {"idle", "claim", "load", "decide", "close", "unreached",
                  "submit", "refused", "sent", "finish"},
            tap : Tap \cup {NoTap}]
Idle == [pc |-> "idle", tap |-> NoTap]

\* Before its first commit a request holds what it inserted and locked.
Claims(h) == hook[h].pc \in {"load", "decide", "close", "unreached"}
Holds(h)  == hook[h].pc \in {"decide", "close"}

TypeOK ==
    /\ recorded \in BOOLEAN
    /\ scan \in [Scanner -> {"candle", "offer", "ask", "send", "undelivered", "submit", "done"}]
    /\ approval \in [Scanner -> Status]
    /\ expired \subseteq Scanner /\ shown \subseteq Scanner
    /\ tap \in [Tap -> [ref : Scanner, action : Action, at : {"out", "done"}] \cup {NotTapped}]
    /\ seen \subseteq Tap
    /\ hook \in [Hook -> Request]
    /\ orders \in [Scanner -> Nat]
    /\ faults \in 0..MaxFaults
    /\ \A h \in Hook : hook[h].pc \in {"submit", "refused", "sent"} => hook[h].tap \in seen

Init ==
    /\ recorded = FALSE
    /\ scan = [s \in Scanner |-> "candle"]
    /\ approval = [s \in Scanner |-> "none"]
    /\ expired = {} /\ shown = {} /\ seen = {}
    /\ tap = [t \in Tap |-> NotTapped]
    /\ hook = [h \in Hook |-> Idle]
    /\ orders = [s \in Scanner |-> 0]
    /\ faults = 0

Fault   == faults < MaxFaults /\ faults' = faults + 1
NoFault == UNCHANGED faults

-----------------------------------------------------------------------------
(* The scanner and the bridge.                                               *)

ScanTo(s, pc) == scan' = [scan EXCEPT ![s] = pc]

\* _record: one row for a strategy, a day, an instrument and a side.
Record(s) ==
    /\ scan[s] = "candle"
    /\ recorded' = TRUE
    /\ ScanTo(s, IF recorded THEN "done" ELSE "offer")
    /\ UNCHANGED <<row, shown, tap, seen, hook, orders, faults>>

\* _already_handled: the signal has an approval or a submission.
AlreadyHandled == \E s \in Scanner : approval[s] # "none" \/ orders[s] > 0

\* _offer up to the fork: refused, asked of the operator, or sent at once.
Offer(s) ==
    /\ scan[s] = "offer"
    /\ \/ ScanTo(s, "done")
       \/ ~AlreadyHandled /\ \E pc \in {"ask", "submit"} : ScanTo(s, pc)
    /\ UNCHANGED <<recorded, row, shown, tap, seen, hook, orders, faults>>

\* AUTOMATIC: the gates of submit_live_order let it through, or do not.
SubmitAtOnce(s) ==
    /\ scan[s] = "submit"
    /\ ScanTo(s, "done")
    /\ \E made \in {0, 1} : orders' = [orders EXCEPT ![s] = @ + made]
    /\ UNCHANGED <<recorded, row, shown, tap, seen, hook, faults>>

\* request_live_approval: the row is committed,
Ask(s) ==
    /\ scan[s] = "ask"
    /\ approval' = [approval EXCEPT ![s] = "PENDING"]
    /\ ScanTo(s, "send")
    /\ UNCHANGED <<recorded, expired, shown, tap, seen, hook, orders, faults>>

\* then the message goes out.  A request that fails may have been delivered.
SendQuestion(s) ==
    /\ scan[s] = "send"
    /\ \/ shown' = shown \cup {s} /\ ScanTo(s, "done") /\ NoFault
       \/ \E delivered \in SUBSET {s} :
            shown' = shown \cup delivered /\ ScanTo(s, "undelivered") /\ Fault
    /\ UNCHANGED <<recorded, row, tap, seen, hook, orders>>

Unlocked(s) == \A h \in Hook : Holds(h) => tap[hook[h].tap].ref # s

\* The alert failed: whatever the row has become, it is BLOCKED.
BlockUndelivered(s) ==
    /\ scan[s] = "undelivered"
    /\ Unlocked(s)
    /\ approval' = [approval EXCEPT ![s] = "BLOCKED"]
    /\ ScanTo(s, "done")
    /\ UNCHANGED <<recorded, expired, shown, tap, seen, hook, orders, faults>>

ScannerCrash(s) ==
    /\ scan[s] \notin {"candle", "done"}
    /\ ScanTo(s, "done")
    /\ Fault
    /\ UNCHANGED <<recorded, row, shown, tap, seen, hook, orders>>

ScannerStep(s) ==
    Record(s) \/ Offer(s) \/ SubmitAtOnce(s) \/ Ask(s) \/ SendQuestion(s) \/ BlockUndelivered(s)

-----------------------------------------------------------------------------
(* The operator, the clock and Telegram.                                     *)

Press(t, s, action) ==
    /\ s \in shown
    /\ tap[t] = NotTapped
    /\ tap' = [tap EXCEPT ![t] = [ref |-> s, action |-> action, at |-> "out"]]
    /\ UNCHANGED <<recorded, scan, row, shown, seen, hook, orders, faults>>

Expire(s) ==
    /\ approval[s] # "none"
    /\ expired' = expired \cup {s}
    /\ UNCHANGED <<recorded, scan, approval, shown, tap, seen, hook, orders, faults>>

-----------------------------------------------------------------------------
(* The webhook.  The event is flushed into the transaction that loads and    *)
(* decides, so that transaction commits both or neither.                     *)

HookTo(h, pc) == hook' = [hook EXCEPT ![h].pc = pc]
Served(h) == hook[h].tap
Ref(h)    == tap[Served(h)].ref

\* Mutant: a delivery is not looked up among those received before.
DeliverUnchecked(h, t) ==
    /\ hook[h] = Idle
    /\ tap[t].at = "out"
    /\ hook' = [hook EXCEPT ![h] = [pc |-> "claim", tap |-> t]]
    /\ UNCHANGED <<recorded, scan, row, shown, tap, seen, orders, faults>>

\* Telegram delivers an update until it is answered with 200, a second time
\* while the first request is under way if that takes long.
Deliver(h, t) ==
    /\ hook[h] = Idle
    /\ tap[t].at = "out"
    /\ hook' = [hook EXCEPT ![h] = [pc |-> IF t \in seen THEN "finish" ELSE "claim", tap |-> t]]
    /\ UNCHANGED <<recorded, scan, row, shown, tap, seen, orders, faults>>

\* The INSERT of the event waits for one that is not committed yet, and fails
\* the request if that one is.
Claim(h) ==
    /\ hook[h].pc = "claim"
    /\ \A g \in Hook : Claims(g) => Served(g) # Served(h)
    /\ hook' = [hook EXCEPT ![h] = IF Served(h) \in seen THEN Idle ELSE [@ EXCEPT !.pc = "load"]]
    /\ UNCHANGED <<recorded, scan, row, shown, tap, seen, orders, faults>>

\* Mutant: the row is read without FOR UPDATE.
LoadUnlocked(h) ==
    /\ hook[h].pc = "load"
    /\ HookTo(h, IF approval[Ref(h)] \in TERMINAL_STATUSES THEN "close" ELSE "decide")
    /\ UNCHANGED <<recorded, scan, row, shown, tap, seen, orders, faults>>

\* SELECT ... FOR UPDATE, and the terminal check.
Load(h) ==
    /\ hook[h].pc = "load"
    /\ Unlocked(Ref(h))
    /\ HookTo(h, IF approval[Ref(h)] \in TERMINAL_STATUSES THEN "close" ELSE "decide")
    /\ UNCHANGED <<recorded, scan, row, shown, tap, seen, orders, faults>>

\* The broker cannot be reached, so nothing is decided.
Unreachable(h) ==
    /\ hook[h].pc = "load"
    /\ HookTo(h, "unreached")
    /\ Fault
    /\ UNCHANGED <<recorded, scan, row, shown, tap, seen, orders>>

\* What the answer makes of a row: late, refused, for another broker, or spent.
Verdict(h) ==
    IF Ref(h) \in expired THEN {"EXPIRED"}
    ELSE IF tap[Served(h)].action = "reject" THEN {"REJECTED"}
    ELSE {"BLOCKED", "APPROVED"}

\* decide_live_approval to its first commit, which commits the event as well
\* and lets the row go.
Decide(h) ==
    /\ hook[h].pc = "decide"
    /\ \E status \in Verdict(h) :
         /\ approval' = [approval EXCEPT ![Ref(h)] = status]
         /\ HookTo(h, IF status = "APPROVED" THEN "submit" ELSE "finish")
    /\ seen' = seen \cup {Served(h)}
    /\ UNCHANGED <<recorded, scan, expired, shown, tap, orders, faults>>

\* Nothing was decided: the event is committed on its own.
Close(h) ==
    /\ hook[h].pc \in {"close", "unreached"}
    /\ seen' = seen \cup {Served(h)}
    /\ HookTo(h, "finish")
    /\ UNCHANGED <<recorded, scan, row, shown, tap, orders, faults>>

\* submit_live_order: refused by a gate, sent, or raising before or after.
Submit(h) ==
    /\ hook[h].pc = "submit"
    /\ \E made \in {0, 1} :
         /\ orders' = [orders EXCEPT ![Ref(h)] = @ + made]
         /\ \/ HookTo(h, IF made = 1 THEN "sent" ELSE "refused") /\ NoFault
            \/ HookTo(h, "finish") /\ Fault
    /\ UNCHANGED <<recorded, scan, row, shown, tap, seen>>

\* The outcome on the approval row, which nobody has locked for it.
Report(h) ==
    /\ hook[h].pc \in {"refused", "sent"}
    /\ Unlocked(Ref(h))
    /\ approval' = [approval EXCEPT ![Ref(h)] = IF hook[h].pc = "sent" THEN "SUBMITTED" ELSE "BLOCKED"]
    /\ HookTo(h, "finish")
    /\ UNCHANGED <<recorded, scan, expired, shown, tap, seen, orders, faults>>

\* The answer to Telegram, which may be lost.
Finish(h) ==
    /\ hook[h].pc = "finish"
    /\ hook' = [hook EXCEPT ![h] = Idle]
    /\ \/ tap' = [tap EXCEPT ![Served(h)].at = "done"] /\ NoFault
       \/ UNCHANGED tap /\ Fault
    /\ UNCHANGED <<recorded, scan, row, shown, seen, orders>>

\* The process dies: what was not committed is undone.
HookCrash(h) ==
    /\ hook[h] # Idle
    /\ hook' = [hook EXCEPT ![h] = Idle]
    /\ Fault
    /\ UNCHANGED <<recorded, scan, row, shown, tap, seen, orders>>

HookStep(h) ==
    Claim(h) \/ Load(h) \/ Decide(h) \/ Close(h) \/ Submit(h) \/ Report(h) \/ Finish(h)

Next ==
    \/ \E s \in Scanner : ScannerStep(s) \/ ScannerCrash(s) \/ Expire(s)
    \/ \E t \in Tap, s \in Scanner, action \in Action : Press(t, s, action)
    \/ \E h \in Hook : HookStep(h) \/ Unreachable(h) \/ HookCrash(h)
    \/ \E h \in Hook, t \in Tap : Deliver(h, t)

Spec == Init /\ [][Next]_vars

(* Requests go on, and Telegram delivers an update again until it is done.   *)
FairSpec ==
    /\ Spec
    /\ \A s \in Scanner : WF_vars(ScannerStep(s))
    /\ \A h \in Hook : WF_vars(HookStep(h))
    /\ \A t \in Tap : WF_vars(\E h \in Hook : Deliver(h, t))

-----------------------------------------------------------------------------
(* Properties.                                                               *)

\* "One live order per signal, ever" (live_entry_bridge.py:154), and "An approval
\* must not be usable twice" (live_approval.py:15): whatever is tapped twice,
\* delivered twice, found by two coroutines or cut short, at most one
\* submission is made.
OneOrder ==
    \A r, s \in Scanner : orders[s] <= 1 /\ (orders[r] > 0 /\ orders[s] > 0 => r = s)

\* An order that was asked for was approved, and a question that was answered
\* no, or too late, or not at all, sends nothing (live_approval.py:8-24).
AnswerIsKept ==
    \A s \in Scanner :
        approval[s] # "none" /\ orders[s] > 0 =>
            /\ approval[s] \notin {"PENDING", "REJECTED", "EXPIRED"}
            /\ \E t \in Tap : tap[t].ref = s /\ tap[t].action = "approve"

\* Telegram is answered in the end, and does not deliver a tap for ever
\* (telegram.py:291, the duplicate guard).
TapAnswered == \A t \in Tap : tap[t].at = "out" ~> tap[t].at = "done"
=============================================================================
