--------------------------- MODULE LiveSubmission ---------------------------
(***************************************************************************)
(* The life of a live order submission: the gates, the write-ahead row, the *)
(* one transmission, the broker's answer, and the recovery of a row whose   *)
(* answer was lost.  (services/live_execution.py, live_orders.py,           *)
(* live_order_recovery.py, the recovery job of scheduler.py and the resolve *)
(* route of routes/live_shadow.py.)                                         *)
(*                                                                          *)
(* Coroutines of two processes share one PostgreSQL table and no lock.  A   *)
(* step of this module is the code between two awaits that matter: a read   *)
(* of shared state, a commit, a request leaving, an answer arriving.        *)
(***************************************************************************)
EXTENDS Naturals, FiniteSets

CONSTANTS
    Id,           \* client order ids: one per submission attempt
    NoId,         \* "no submission in hand"
    Sender,       \* coroutines that can be inside submit_live_order / _place_exit
    Resolver,     \* coroutines that can be resolving submissions
    Scheduled,    \* the resolvers that are the scheduler's job; the rest serve the route
    Process,      \* operating-system processes: the scanner worker and the API
    Home,         \* the process each sender and resolver runs in
    MaxAttempts,  \* MAX_RESOLUTION_ATTEMPTS
    MaxCrashes,   \* bound: how many process crashes a behaviour may contain
    MaxSwitches,  \* bound: how many times stop or activation may change
    SlowSend      \* TRUE: a send may outlast IN_FLIGHT_SECONDS

ASSUME NoIdAssumption == NoId \notin Id
ASSUME HomeAssumption ==
    /\ Scheduled \subseteq Resolver
    /\ Home \in [Sender \cup Resolver -> Process]
ASSUME BoundAssumption ==
    /\ MaxAttempts \in Nat \ {0}
    /\ MaxCrashes \in Nat
    /\ MaxSwitches \in Nat
    /\ SlowSend \in BOOLEAN

VARIABLES
    row,       \* the live_order_submissions table, by client order id
    fate,      \* what has become of each order between here and the exchange
    sender,    \* each sender: where it is, the id in hand, the answer it heard
    resolver,  \* each resolver: the rows it loaded and what it means to write
    stop,      \* the emergency-stop key as a reader finds it
    armed,     \* whether the latest activation is unrevoked and unexpired
    bounds     \* how often the bounded events have happened

vars == <<row, fate, sender, resolver, stop, armed, bounds>>

-----------------------------------------------------------------------------
(* The row.  "ABSENT" is a client order id nothing has been written for.    *)

\* Mutant: PREPARED is declined as "not unknown", as it once was.
OnlyUnknown == {"UNKNOWN"}
Resolvable == {"UNKNOWN", "PREPARED"}
Open       == {"PREPARED", "UNKNOWN"}
Placed     == {"ACCEPTED", "RESOLVED_PLACED"}
Blocking   == {"UNKNOWN", "NEEDS_REVIEW"}
Answers    == {"ACCEPTED", "REJECTED", "UNKNOWN"}
Status     == {"PREPARED", "NEEDS_REVIEW", "RESOLVED_PLACED"} \cup Answers

Row == [status   : Status \cup {"ABSENT"},
        attempts : Nat,          \* resolution_attempts
        numbered : BOOLEAN,      \* broker_order_numbers is not empty
        settled  : BOOLEAN]      \* older than IN_FLIGHT_SECONDS

AbsentRow == [status |-> "ABSENT", attempts |-> 0, numbered |-> FALSE, settled |-> FALSE]

\* prepare_submission: the row as it is first committed.
PreparedRow == [AbsentRow EXCEPT !.status = "PREPARED"]

Present(i) == row[i].status # "ABSENT"

\* apply_outcome: the sender's write.  No condition on what the row says now;
\* only an ACCEPTED answer carries order numbers, and an empty list equals the
\* loaded one, so it is not part of the UPDATE.
ApplyOutcome(r, answer) ==
    [r EXCEPT !.status = answer, !.numbered = @ \/ answer = "ACCEPTED"]

(* A resolver's grip on one row: not loaded, loaded, or looked up.  status  *)
(* is what commit will write; "SAME" when the ORM attribute is unchanged.   *)
Verdict == {"SAME", "RESOLVED_PLACED", "NEEDS_REVIEW"}
Grip    == [step : {"none", "loaded", "looked"}, attempts : Nat, status : Verdict]
NoGrip  == [step |-> "none", attempts |-> 0, status |-> "SAME"]
Loaded(r) == [step |-> "loaded", attempts |-> r.attempts, status |-> "SAME"]

Gates    == {"stop_gate", "unresolved_gate", "activation_gate", "risk_gate"}
InFlight == {"prepared", "awaiting", "answered"}
PC       == {"idle", "authorized"} \cup Gates \cup InFlight

\* What a sender holds: where it is, the attempt, its kind, the answer it heard.
Hand == [pc : PC, id : Id \cup {NoId}, entry : BOOLEAN, answer : Answers]

Idle == [pc |-> "idle", id |-> NoId, entry |-> FALSE, answer |-> "UNKNOWN"]

\* Where an order can be: never sent, in transit, existing at the broker,
\* refused by it, or lost on the way.
Fate == {"unsent", "wire", "placed", "refused", "lost"}

TypeOK ==
    /\ row \in [Id -> Row]
    /\ fate \in [Id -> Fate]
    /\ sender \in [Sender -> Hand]
    /\ resolver \in [Resolver -> [Id -> Grip]]
    /\ stop \in {"clear", "engaged", "unreadable"}
    /\ armed \in BOOLEAN
    /\ bounds \in [crashes : Nat, switches : Nat]

Init ==
    /\ row = [i \in Id |-> AbsentRow]
    /\ fate = [i \in Id |-> "unsent"]
    /\ sender = [s \in Sender |-> Idle]
    /\ resolver = [r \in Resolver |-> [i \in Id |-> NoGrip]]
    /\ stop = "clear"
    /\ armed = TRUE
    /\ bounds = [crashes |-> 0, switches |-> 0]

-----------------------------------------------------------------------------
(* Submission.  Every gate is read in order and a failing one refuses; the  *)
(* reads change nothing, so stopping at the first failure is the same as    *)
(* collecting them all.                                                     *)

AtPC(s, pc) == sender[s].pc = pc
Goto(s, pc) == sender' = [sender EXCEPT ![s] = [@ EXCEPT !.pc = pc]]
Refuse(s)   == sender' = [sender EXCEPT ![s] = Idle]
Answered(s, answer) ==
    sender' = [sender EXCEPT ![s] = [@ EXCEPT !.pc = "answered", !.answer = answer]]
GateThen(s, gate, passes, next) ==
    /\ AtPC(s, gate)
    /\ IF passes THEN Goto(s, next) ELSE Refuse(s)
    /\ UNCHANGED <<row, fate, resolver, stop, armed, bounds>>

Holding(pc, i, entry) == [pc |-> pc, id |-> i, entry |-> entry, answer |-> "UNKNOWN"]

\* new_client_order_id: an identifier no row and no other attempt carries.
Fresh(i) == ~Present(i) /\ \A s \in Sender : sender[s].id # i

Mint(s, pc, entry) ==
    /\ AtPC(s, "idle")
    /\ \E i \in Id :
         /\ Fresh(i)
         /\ sender' = [sender EXCEPT ![s] = Holding(pc, i, entry)]
    /\ UNCHANGED <<row, fate, resolver, stop, armed, bounds>>

BeginEntry(s) == Mint(s, "stop_gate", TRUE)

\* _place_exit: a stop or a closing order is asked no gate.
BeginExit(s) == Mint(s, "authorized", FALSE)

\* Mutant: a stop that cannot be read is assumed clear.
StopGateFailsOpen(s) == GateThen(s, "stop_gate", stop # "engaged", "unresolved_gate")

\* A stop that cannot be read is treated as engaged.
StopGate(s) == GateThen(s, "stop_gate", stop = "clear", "unresolved_gate")

\* PREPARED blocks only once it is too old to be in flight.
Blocks(r) == \/ r.status \in Blocking
             \/ r.status = "PREPARED" /\ r.settled

UnresolvedGate(s) ==
    GateThen(s, "unresolved_gate", \A i \in Id : ~Blocks(row[i]), "activation_gate")

ActivationGate(s) == GateThen(s, "activation_gate", armed, "risk_gate")

\* approval_mode, live_risk and operator_approval: modelled elsewhere, free here.
RiskGate(s) == \E passes \in BOOLEAN : GateThen(s, "risk_gate", passes, "authorized")

\* prepare_submission and the commit that makes it durable.
WriteAhead(s) ==
    /\ AtPC(s, "authorized")
    /\ row' = [row EXCEPT ![sender[s].id] = PreparedRow]
    /\ Goto(s, "prepared")
    /\ UNCHANGED <<fate, resolver, stop, armed, bounds>>

\* send_prepared_order: the request leaves, once.
Transmit(s) ==
    /\ AtPC(s, "prepared")
    /\ fate' = [fate EXCEPT ![sender[s].id] = "wire"]
    /\ Goto(s, "awaiting")
    /\ UNCHANGED <<row, resolver, stop, armed, bounds>>

\* The adapter refuses before anything leaves, or the client raises.
RefuseLocally(s) ==
    /\ AtPC(s, "prepared")
    /\ \E answer \in {"REJECTED", "UNKNOWN"} : Answered(s, answer)
    /\ UNCHANGED <<row, fate, resolver, stop, armed, bounds>>

\* Mutant: a request nobody answered in time is called refused.
TimeoutIsRefusal(f) == IF f = "placed" THEN {"ACCEPTED"} ELSE {"REJECTED"}

\* adapter.submit: a refusal is REJECTED only when the broker said so; a
\* timeout, a lost or unreadable answer, a success without an order number and
\* a rate-limit error are UNKNOWN.
Classify(f) == {"UNKNOWN"}
               \cup (IF f = "placed" THEN {"ACCEPTED"} ELSE {})
               \cup (IF f = "refused" THEN {"REJECTED"} ELSE {})

Hear(s) ==
    /\ AtPC(s, "awaiting")
    /\ \E answer \in Classify(fate[sender[s].id]) : Answered(s, answer)
    /\ UNCHANGED <<row, fate, resolver, stop, armed, bounds>>

RecordOutcome(s) ==
    /\ AtPC(s, "answered")
    /\ row' = [row EXCEPT ![sender[s].id] = ApplyOutcome(@, sender[s].answer)]
    /\ Refuse(s)
    /\ UNCHANGED <<fate, resolver, stop, armed, bounds>>

\* The coroutine is cancelled, or its database session fails, after the intent
\* was committed: the row stays as it is.
Abandon(s) ==
    /\ sender[s].pc \in InFlight
    /\ Refuse(s)
    /\ UNCHANGED <<row, fate, resolver, stop, armed, bounds>>

-----------------------------------------------------------------------------
(* The network and the broker.                                              *)

\* A request in transit arrives and is placed, is refused, or never arrives.
\* Nothing ties this to whether the sender is still waiting.
Settle(i) ==
    /\ fate[i] = "wire"
    /\ \E f \in {"placed", "refused", "lost"} : fate' = [fate EXCEPT ![i] = f]
    /\ UNCHANGED <<row, sender, resolver, stop, armed, bounds>>

-----------------------------------------------------------------------------
(* Recovery.                                                                *)

Working(r) == \E i \in Id : resolver[r][i].step # "none"

\* Mutant: the age condition is dropped.
PendingAtAnyAge(i) == row[i].status \in Resolvable

\* pending_resolution: still open, and old enough not to be in flight.
Pending(i) == row[i].status \in Resolvable /\ row[i].settled

LoadPending(r) ==
    /\ r \in Scheduled
    /\ ~Working(r)
    /\ \E i \in Id : Pending(i)
    /\ resolver' = [resolver EXCEPT ![r] =
                      [i \in Id |-> IF Pending(i) THEN Loaded(row[i]) ELSE NoGrip]]
    /\ UNCHANGED <<row, fate, sender, stop, armed, bounds>>

\* The route loads the one row it was asked about, whatever its age.
LoadOne(r, i) ==
    /\ r \notin Scheduled
    /\ ~Working(r)
    /\ row[i].status \in Resolvable
    /\ resolver' = [resolver EXCEPT ![r][i] = Loaded(row[i])]
    /\ UNCHANGED <<row, fate, sender, stop, armed, bounds>>

\* Mutant: any of our records will do, whichever attempt it names.
MatchAnyRecord(seen, untagged, i) == IF seen # {} THEN "RESOLVED_PLACED" ELSE "UNKNOWN"

\* match_submission over the records a reading returned: `seen` carry a client
\* order id; `untagged` says that some record carries none.
MatchSubmission(seen, untagged, i) ==
    CASE i \in seen                -> "RESOLVED_PLACED"
      [] seen = {} /\ untagged     -> "NEEDS_REVIEW"
      [] OTHER                     -> "UNKNOWN"

\* Mutant: an order that cannot be found is concluded not to have been placed.
ResolveToRefused(grip, match) ==
    [step     |-> "looked",
     attempts |-> grip.attempts + 1,
     status   |-> IF match # "UNKNOWN" THEN match
                  ELSE IF grip.attempts + 1 >= MaxAttempts THEN "REJECTED" ELSE "SAME"]

\* resolve_submission after the reading: a hit is written, a miss spends one
\* of MaxAttempts and the last of them escalates.
Resolve(grip, match) ==
    [step     |-> "looked",
     attempts |-> grip.attempts + 1,
     status   |-> IF match # "UNKNOWN" THEN match
                  ELSE IF grip.attempts + 1 >= MaxAttempts THEN "NEEDS_REVIEW" ELSE "SAME"]

\* The book may lag, be cut short or not echo the tag: a reading shows some of
\* the orders that exist, and records of other origin.
LookUp(r, i) ==
    /\ resolver[r][i].step = "loaded"
    /\ \E seen \in SUBSET {j \in Id : fate[j] = "placed"}, untagged \in BOOLEAN :
         resolver' = [resolver EXCEPT ![r][i] = Resolve(@, MatchSubmission(seen, untagged, i))]
    /\ UNCHANGED <<row, fate, sender, stop, armed, bounds>>

\* The book cannot be read: the attempt is spent all the same.
LookUpFails(r, i) ==
    /\ resolver[r][i].step = "loaded"
    /\ resolver' = [resolver EXCEPT ![r][i] = Resolve(@, "UNKNOWN")]
    /\ UNCHANGED <<row, fate, sender, stop, armed, bounds>>

\* The broker login fails before the lookup: nothing is spent.
SkipRow(r, i) ==
    /\ resolver[r][i].step = "loaded"
    /\ resolver' = [resolver EXCEPT ![r][i] = NoGrip]
    /\ UNCHANGED <<row, fate, sender, stop, armed, bounds>>

\* What the UPDATE does to a row: the columns that changed, and only those.
Write(rw, grip) ==
    IF grip.step # "looked" THEN rw
    ELSE [rw EXCEPT !.attempts = grip.attempts,
                    !.status   = IF grip.status = "SAME" THEN @ ELSE grip.status,
                    !.numbered = @ \/ grip.status = "RESOLVED_PLACED"]

CommitPass(r) ==
    /\ Working(r)
    /\ \A i \in Id : resolver[r][i].step # "loaded"
    /\ row' = [i \in Id |-> Write(row[i], resolver[r][i])]
    /\ resolver' = [resolver EXCEPT ![r] = [i \in Id |-> NoGrip]]
    /\ UNCHANGED <<fate, sender, stop, armed, bounds>>

-----------------------------------------------------------------------------
(* Time, crashes and the switches other components own.                     *)

\* A row outlives the in-flight window.  Unless SlowSend, one request timeout
\* (15 s) ends every live send well before it (120 s).
Age(i) ==
    /\ Present(i)
    /\ ~row[i].settled
    /\ SlowSend \/ \A s \in Sender : sender[s].id # i
    /\ row' = [row EXCEPT ![i].settled = TRUE]
    /\ UNCHANGED <<fate, sender, resolver, stop, armed, bounds>>

\* A process dies: its coroutines are gone, the table and the wire are not.
Crash(p) ==
    /\ bounds.crashes < MaxCrashes
    /\ bounds' = [bounds EXCEPT !.crashes = @ + 1]
    /\ sender' = [s \in Sender |-> IF Home[s] = p THEN Idle ELSE sender[s]]
    /\ resolver' = [r \in Resolver |->
                      IF Home[r] = p THEN [i \in Id |-> NoGrip] ELSE resolver[r]]
    /\ UNCHANGED <<row, fate, stop, armed>>

Switch ==
    /\ bounds.switches < MaxSwitches
    /\ bounds' = [bounds EXCEPT !.switches = @ + 1]

TurnStop ==
    /\ Switch
    /\ stop' \in {"clear", "engaged", "unreadable"} \ {stop}
    /\ UNCHANGED <<row, fate, sender, resolver, armed>>

TurnActivation ==
    /\ Switch
    /\ armed' = ~armed
    /\ UNCHANGED <<row, fate, sender, resolver, stop>>

-----------------------------------------------------------------------------
SendStep(s) ==
    \/ BeginEntry(s) \/ BeginExit(s)
    \/ StopGate(s) \/ UnresolvedGate(s) \/ ActivationGate(s) \/ RiskGate(s)
    \/ WriteAhead(s) \/ Transmit(s) \/ RefuseLocally(s)
    \/ Hear(s) \/ RecordOutcome(s) \/ Abandon(s)

ResolveStep(r) ==
    \/ LoadPending(r)
    \/ \E i \in Id : LoadOne(r, i) \/ LookUp(r, i) \/ LookUpFails(r, i) \/ SkipRow(r, i)
    \/ CommitPass(r)

Next ==
    \/ \E s \in Sender : SendStep(s)
    \/ \E r \in Resolver : ResolveStep(r)
    \/ \E i \in Id : Settle(i) \/ Age(i)
    \/ \E p \in Process : Crash(p)
    \/ TurnStop \/ TurnActivation

Spec == Init /\ [][Next]_vars

\* What a coroutine does on its own once it has begun.
Progress(s) ==
    \/ StopGate(s) \/ UnresolvedGate(s) \/ ActivationGate(s) \/ RiskGate(s)
    \/ WriteAhead(s) \/ Transmit(s) \/ Hear(s) \/ RecordOutcome(s)

(* Fairness.  A coroutine that has begun goes on: a send that left ends in  *)
(* an answer within its timeout and the answer is written.  Time passes;    *)
(* the scheduler runs its job, every two minutes, to the end; the broker    *)
(* login does not fail for ever.                                            *)
Fairness ==
    /\ \A s \in Sender : WF_vars(Progress(s))
    /\ \A i \in Id : WF_vars(Age(i))
    /\ \A r \in Scheduled :
         /\ WF_vars(LoadPending(r))
         /\ WF_vars(CommitPass(r))
         /\ \A i \in Id : /\ WF_vars(LookUp(r, i) \/ LookUpFails(r, i) \/ SkipRow(r, i))
                          /\ SF_vars(LookUp(r, i) \/ LookUpFails(r, i))

FairSpec == Spec /\ Fairness

-----------------------------------------------------------------------------
(* Properties.                                                              *)

\* The write-ahead rule (live_orders.py:7-13): whatever has left this system,
\* through any crash, is an order some durable row names.
WriteAheadRule == \A i \in Id : fate[i] # "unsent" => Present(i)

\* "This module never concludes that an order was not placed"
\* (live_order_recovery.py:15) and UNKNOWN is never collapsed into REJECTED
\* (live_orders.py:21): no order that exists, or still may, is on record as refused.
NeverDisowned ==
    \A i \in Id : row[i].status = "REJECTED" => fate[i] \in {"unsent", "refused"}

\* No phantom position (live_orders.py:22): a row that counts as placed is an
\* order the broker has, and carries the numbers a cancellation needs.
NoPhantom ==
    \A i \in Id : row[i].status \in Placed => fate[i] = "placed" /\ row[i].numbered

\* "Never retries" (live_orders.py:267): one attempt is transmitted at most once
\* and the exchange's verdict on it is never replaced by a second transmission.
SentOnce ==
    [][\A i \in Id : fate'[i] # fate[i] =>
          \/ fate[i] = "unsent" /\ fate'[i] = "wire"
          \/ fate[i] = "wire" /\ fate'[i] \in {"placed", "refused", "lost"}]_vars

\* "Submission already has an outcome; nothing to resolve"
\* (live_order_recovery.py:134): once a row has left PREPARED and UNKNOWN no
\* later write, a late answer's or a late lookup's, gives it another outcome.
SettledStands ==
    [][\A i \in Id :
          row[i].status \in Status \ Open => row'[i].status = row[i].status]_vars

\* "An UNKNOWN is the one state that cannot be left alone"
\* (live_order_recovery.py:3), nor can the PREPARED row of a process that died:
\* every open row is settled or put in front of a person.
EveryOpenRowSettles ==
    \A i \in Id : row[i].status \in Open ~> row[i].status \in Status \ Open

\* An entry that has passed the first gate and has not left yet.
EntryUnderWay(s) ==
    sender[s].entry /\ sender[s].pc \in (Gates \ {"stop_gate"}) \cup {"authorized", "prepared"}

\* A condition that stays in force stops entries for good: a stop that is engaged
\* or unreadable, a revoked activation, a row a person has been asked to look at.
HaltHolds ==
    /\ <>[](stop # "clear") => <>[](\A s \in Sender : ~EntryUnderWay(s))
    /\ <>[](~armed) => <>[](\A s \in Sender : sender[s].entry => sender[s].pc \notin {"risk_gate", "authorized", "prepared"})
    /\ <>[](\E i \in Id : row[i].status = "NEEDS_REVIEW")
         => <>[](\A s \in Sender : sender[s].entry => sender[s].pc \notin {"activation_gate", "risk_gate", "authorized", "prepared"})

\* The refinement of OrderLedger: what the record claims of each attempt.
RecordedBelief(r) ==
    CASE r.status \in Placed    -> "placed"
      [] r.status = "REJECTED"  -> "refused"
      [] OTHER                  -> "open"

Ledger == INSTANCE OrderLedger WITH
            intent <- {i \in Id : Present(i)},
            belief <- [i \in Id |-> RecordedBelief(row[i])]

\* Submission, with its gates, crashes and recovery, is an order ledger.
ImplementsLedger == Ledger!Spec
=============================================================================
