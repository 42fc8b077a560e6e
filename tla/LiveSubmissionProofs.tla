------------------------ MODULE LiveSubmissionProofs ------------------------
(***************************************************************************)
(* Proofs about LiveSubmission, for every number of attempts, senders,      *)
(* resolvers and processes, every crash bound, and sends of any length.     *)
(***************************************************************************)
EXTENDS LiveSubmission, TLAPS

-----------------------------------------------------------------------------
(* The inductive invariant.  The three safety invariants say nothing of the *)
(* coroutines, and a coroutine is where they can be lost: an answer held    *)
(* but not yet written, a verdict held but not yet committed.               *)

\* What a sender has in hand agrees with the table and with the exchange.
HandOK(s) ==
    LET i == sender[s].id IN
    /\ sender[s].pc = "idle" <=> i = NoId
    /\ sender[s].pc \in Gates \cup {"authorized"} => ~Present(i)
    /\ sender[s].pc \in InFlight => Present(i) /\ row[i].status # "REJECTED"
    /\ sender[s].pc = "prepared" => fate[i] = "unsent"
    /\ sender[s].pc = "answered" =>
         /\ sender[s].answer = "ACCEPTED" => fate[i] = "placed"
         /\ sender[s].answer = "REJECTED" => fate[i] \in {"unsent", "refused"}

\* No two coroutines hold one attempt.
OneHand ==
    \A s, t \in Sender : sender[s].id = sender[t].id /\ sender[s].id # NoId => s = t

\* A resolver holds only rows that exist, and "found" only what is there.
GripOK(r) ==
    \A i \in Id : /\ resolver[r][i].step # "none" => Present(i)
                  /\ resolver[r][i].status = "RESOLVED_PLACED" => fate[i] = "placed"

IInv ==
    /\ TypeOK
    /\ WriteAheadRule
    /\ NeverDisowned
    /\ NoPhantom
    /\ \A s \in Sender : HandOK(s)
    /\ OneHand
    /\ \A r \in Resolver : GripOK(r)

-----------------------------------------------------------------------------
(* The two operators whose results the table stores.                        *)

\* resolve_submission yields a well-formed grip, and finds only what a reading showed.
LEMMA ResolveType ==
    ASSUME NEW grip \in Grip, NEW match \in {"RESOLVED_PLACED", "NEEDS_REVIEW", "UNKNOWN"}
    PROVE  /\ Resolve(grip, match) \in Grip
           /\ Resolve(grip, match).step = "looked"
           /\ Resolve(grip, match).status = "RESOLVED_PLACED" => match = "RESOLVED_PLACED"
  BY BoundAssumption DEF Resolve, Grip, Verdict

\* match_submission answers with one of three verdicts, and a hit means the
\* identifier was among the records read.
LEMMA MatchFinds ==
    ASSUME NEW seen, NEW untagged \in BOOLEAN, NEW i
    PROVE  /\ MatchSubmission(seen, untagged, i) \in {"RESOLVED_PLACED", "NEEDS_REVIEW", "UNKNOWN"}
           /\ MatchSubmission(seen, untagged, i) = "RESOLVED_PLACED" => i \in seen
  BY DEF MatchSubmission

\* A commit writes a well-formed row: it marks it placed or leaves what was there,
\* and it never takes order numbers away.
LEMMA WriteRow ==
    ASSUME NEW rw \in Row, NEW grip \in Grip
    PROVE  /\ Write(rw, grip) \in Row
           /\ Write(rw, grip).status \in {rw.status, "NEEDS_REVIEW", "RESOLVED_PLACED"}
           /\ Write(rw, grip).status = "RESOLVED_PLACED" =>
                rw.status = "RESOLVED_PLACED" \/ grip.status = "RESOLVED_PLACED"
           /\ Write(rw, grip).status # rw.status => grip.step # "none"
           /\ rw.numbered => Write(rw, grip).numbered
           /\ Write(rw, grip).status = "RESOLVED_PLACED" /\ rw.status # "RESOLVED_PLACED"
                => Write(rw, grip).numbered
  BY DEF Write, Row, Grip, Verdict, Status, Answers

-----------------------------------------------------------------------------
(* Type correctness.                                                        *)

\* What the sender's steps may put in its hand.
LEMMA HandType ==
    /\ Idle \in Hand
    /\ \A h \in Hand, pc \in PC : [h EXCEPT !.pc = pc] \in Hand
    /\ \A h \in Hand, answer \in Answers :
         [h EXCEPT !.pc = "answered", !.answer = answer] \in Hand
    /\ \A pc \in PC, i \in Id, entry \in BOOLEAN : Holding(pc, i, entry) \in Hand
<1>1. "idle" \in PC /\ "answered" \in PC /\ "UNKNOWN" \in Answers
  BY DEF PC, InFlight, Answers
<1>2. Idle \in Hand
  BY <1>1 DEF Hand, Idle
<1>3. ASSUME NEW h \in Hand, NEW pc \in PC PROVE [h EXCEPT !.pc = pc] \in Hand
  BY DEF Hand
<1>4. ASSUME NEW h \in Hand, NEW answer \in Answers
      PROVE  [h EXCEPT !.pc = "answered", !.answer = answer] \in Hand
  BY <1>1 DEF Hand
<1>5. ASSUME NEW pc \in PC, NEW i \in Id, NEW entry \in BOOLEAN
      PROVE  Holding(pc, i, entry) \in Hand
  BY <1>1 DEF Hand, Holding
<1> QED BY <1>2, <1>3, <1>4, <1>5

\* A sender that goes on, gives up or hears an answer holds a well-formed hand.
LEMMA MoveType ==
    ASSUME sender \in [Sender -> Hand], NEW s \in Sender,
           \/ Refuse(s)
           \/ \E pc \in PC : Goto(s, pc)
           \/ \E answer \in Answers : Answered(s, answer)
    PROVE  sender' \in [Sender -> Hand]
<1>1. CASE Refuse(s)
  BY <1>1, HandType DEF Refuse
<1>2. ASSUME NEW pc \in PC, Goto(s, pc) PROVE sender' \in [Sender -> Hand]
  <2>1. [sender[s] EXCEPT !.pc = pc] \in Hand
    BY HandType
  <2> QED BY <1>2, <2>1 DEF Goto
<1>3. ASSUME NEW answer \in Answers, Answered(s, answer) PROVE sender' \in [Sender -> Hand]
  <2>1. [sender[s] EXCEPT !.pc = "answered", !.answer = answer] \in Hand
    BY HandType
  <2> QED BY <1>3, <2>1 DEF Answered
<1> QED BY <1>1, <1>2, <1>3

LEMMA TypeInit == Init => TypeOK
<1>1. AbsentRow \in Row
  BY DEF AbsentRow, Row
<1>2. NoGrip \in Grip
  BY DEF NoGrip, Grip, Verdict
<1>3. "unsent" \in Fate
  BY DEF Fate
<1>4. [crashes |-> 0, switches |-> 0] \in [crashes : Nat, switches : Nat]
  OBVIOUS
<1>5. Idle \in Hand
  BY HandType
<1> QED BY <1>1, <1>2, <1>3, <1>4, <1>5 DEF Init, TypeOK

\* A sender's move keeps every variable in its type.
LEMMA TypeSend ==
    ASSUME TypeOK, NEW s \in Sender, SendStep(s)
    PROVE  TypeOK'
<1>0. {"idle", "authorized", "prepared", "awaiting", "stop_gate", "unresolved_gate",
       "activation_gate", "risk_gate"} \subseteq PC
  BY DEF PC, Gates, InFlight
<1>1. ASSUME NEW pc \in PC, NEW entry \in BOOLEAN, Mint(s, pc, entry) PROVE TypeOK'
  <2>1. PICK i \in Id : sender' = [sender EXCEPT ![s] = Holding(pc, i, entry)]
    BY <1>1 DEF Mint
  <2>2. Holding(pc, i, entry) \in Hand
    BY HandType
  <2> QED BY <1>1, <2>1, <2>2 DEF Mint, TypeOK
<1>2. CASE BeginEntry(s) \/ BeginExit(s)
  BY <1>0, <1>1, <1>2 DEF BeginEntry, BeginExit
<1>3. CASE StopGate(s) \/ UnresolvedGate(s) \/ ActivationGate(s) \/ RiskGate(s)
  <2>1. Refuse(s) \/ \E pc \in PC : Goto(s, pc)
    BY <1>0, <1>3 DEF StopGate, UnresolvedGate, ActivationGate, RiskGate, GateThen
  <2>2. UNCHANGED <<row, fate, resolver, stop, armed, bounds>>
    BY <1>3 DEF StopGate, UnresolvedGate, ActivationGate, RiskGate, GateThen
  <2>3. sender' \in [Sender -> Hand]
    BY <2>1, MoveType DEF TypeOK
  <2> QED BY <2>2, <2>3 DEF TypeOK
<1>4. CASE WriteAhead(s)
  <2>1. PreparedRow \in Row
    BY DEF PreparedRow, AbsentRow, Row, Status
  <2>2. sender' \in [Sender -> Hand]
    BY <1>0, <1>4, MoveType DEF WriteAhead, TypeOK
  <2> QED BY <1>4, <2>1, <2>2 DEF WriteAhead, TypeOK
<1>5. CASE Transmit(s)
  <2>1. sender' \in [Sender -> Hand]
    BY <1>0, <1>5, MoveType DEF Transmit, TypeOK
  <2> QED BY <1>5, <2>1 DEF Transmit, TypeOK, Fate
<1>6. CASE RefuseLocally(s) \/ Hear(s)
  <2>1. \E answer \in Answers : Answered(s, answer)
    BY <1>6 DEF RefuseLocally, Hear, Classify, Answers
  <2>2. UNCHANGED <<row, fate, resolver, stop, armed, bounds>>
    BY <1>6 DEF RefuseLocally, Hear
  <2>3. sender' \in [Sender -> Hand]
    BY <2>1, MoveType DEF TypeOK
  <2> QED BY <2>2, <2>3 DEF TypeOK
<1>7. CASE RecordOutcome(s)
  <2>1. sender[s].answer \in Answers
    BY DEF TypeOK, Hand
  <2>2. ASSUME NEW r \in Row PROVE ApplyOutcome(r, sender[s].answer) \in Row
    BY <2>1 DEF ApplyOutcome, Row, Status
  <2>3. row' \in [Id -> Row]
    BY <1>7, <2>2 DEF RecordOutcome, TypeOK
  <2>4. sender' \in [Sender -> Hand]
    BY <1>7, MoveType DEF RecordOutcome, TypeOK
  <2> QED BY <1>7, <2>3, <2>4 DEF RecordOutcome, TypeOK
<1>8. CASE Abandon(s)
  <2>1. sender' \in [Sender -> Hand]
    BY <1>8, MoveType DEF Abandon, TypeOK
  <2> QED BY <1>8, <2>1 DEF Abandon, TypeOK
<1> QED BY <1>2, <1>3, <1>4, <1>5, <1>6, <1>7, <1>8 DEF SendStep

\* A resolver's move keeps every variable in its type.
LEMMA TypeResolve ==
    ASSUME TypeOK, NEW r \in Resolver, ResolveStep(r)
    PROVE  TypeOK'
<1> USE DEF TypeOK
<1>0. /\ NoGrip \in Grip
      /\ \A rw \in Row : Loaded(rw) \in Grip
  BY DEF NoGrip, Loaded, Grip, Verdict, Row
<1>1. CASE LoadPending(r)
  BY <1>0, <1>1 DEF LoadPending
<1>2. ASSUME NEW i \in Id, LoadOne(r, i) PROVE TypeOK'
  BY <1>0, <1>2 DEF LoadOne
<1>3. ASSUME NEW i \in Id, LookUp(r, i) PROVE TypeOK'
  <2>1. PICK seen \in SUBSET {j \in Id : fate[j] = "placed"}, untagged \in BOOLEAN :
          resolver' = [resolver EXCEPT ![r][i] =
                         Resolve(resolver[r][i], MatchSubmission(seen, untagged, i))]
    BY <1>3 DEF LookUp
  <2>2. Resolve(resolver[r][i], MatchSubmission(seen, untagged, i)) \in Grip
    BY ResolveType, MatchFinds
  <2> QED BY <1>3, <2>1, <2>2 DEF LookUp
<1>4. ASSUME NEW i \in Id, LookUpFails(r, i) PROVE TypeOK'
  <2>1. Resolve(resolver[r][i], "UNKNOWN") \in Grip
    BY ResolveType
  <2> QED BY <1>4, <2>1 DEF LookUpFails
<1>5. ASSUME NEW i \in Id, SkipRow(r, i) PROVE TypeOK'
  BY <1>0, <1>5 DEF SkipRow
<1>6. CASE CommitPass(r)
  <2>1. \A i \in Id : Write(row[i], resolver[r][i]) \in Row
    BY WriteRow
  <2> QED BY <1>0, <1>6, <2>1 DEF CommitPass
<1> QED BY <1>1, <1>2, <1>3, <1>4, <1>5, <1>6 DEF ResolveStep

\* So does everything else that happens.
LEMMA TypeNext == TypeOK /\ [Next]_vars => TypeOK'
<1> SUFFICES ASSUME TypeOK, [Next]_vars PROVE TypeOK'
  OBVIOUS
<1> USE DEF TypeOK
<1>1. ASSUME NEW i \in Id, Settle(i) PROVE TypeOK'
  BY <1>1 DEF Settle, Fate
<1>2. ASSUME NEW i \in Id, Age(i) PROVE TypeOK'
  BY <1>2 DEF Age, Row
<1>3. ASSUME NEW p \in Process, Crash(p) PROVE TypeOK'
  <2>1. NoGrip \in Grip
    BY DEF NoGrip, Grip, Verdict
  <2>2. Idle \in Hand
    BY HandType
  <2>3. sender' \in [Sender -> Hand] /\ resolver' \in [Resolver -> [Id -> Grip]]
    BY <1>3, <2>1, <2>2 DEF Crash
  <2>4. bounds' \in [crashes : Nat, switches : Nat]
    BY <1>3 DEF Crash
  <2> QED BY <1>3, <2>3, <2>4 DEF Crash
<1>4. CASE TurnStop
  BY <1>4 DEF TurnStop, Switch
<1>5. CASE TurnActivation
  BY <1>5 DEF TurnActivation, Switch
<1>6. CASE UNCHANGED vars
  BY <1>6 DEF vars
<1> QED BY <1>1, <1>2, <1>3, <1>4, <1>5, <1>6, TypeSend, TypeResolve DEF Next

\* Every reachable state is well typed.
THEOREM TypeCorrect == Spec => []TypeOK
  BY TypeInit, TypeNext, PTL DEF Spec
-----------------------------------------------------------------------------
(* The inductive invariant is inductive.                                    *)

LEMMA IInvInit == Init => IInv
<1> SUFFICES ASSUME Init PROVE IInv
  OBVIOUS
<1>1. TypeOK
  BY TypeInit
<1>2. \A i \in Id : row[i].status = "ABSENT" /\ fate[i] = "unsent"
  BY DEF Init, AbsentRow
<1>3. WriteAheadRule /\ NeverDisowned /\ NoPhantom
  BY <1>2 DEF WriteAheadRule, NeverDisowned, NoPhantom, Placed
<1>4. \A s \in Sender : sender[s].pc = "idle" /\ sender[s].id = NoId
  BY DEF Init, Idle
<1>5. (\A s \in Sender : HandOK(s)) /\ OneHand
  BY <1>4 DEF HandOK, OneHand, Gates, InFlight
<1>6. \A r \in Resolver : GripOK(r)
  BY DEF Init, GripOK, NoGrip
<1> QED BY <1>1, <1>3, <1>5, <1>6 DEF IInv

\* A step that touches one sender's hand and nothing else keeps the invariant if
\* the new hand is right and its attempt is nobody else's.
LEMMA SenderOnly ==
    ASSUME IInv, TypeOK', NEW s \in Sender, NEW h,
           UNCHANGED <<row, fate, resolver>>,
           sender' = [sender EXCEPT ![s] = h],
           h.id = NoId \/ \A t \in Sender \ {s} : sender[t].id # h.id,
           HandOK(s)'
    PROVE  IInv'
<1>1. \A t \in Sender \ {s} : sender'[t] = sender[t]
  BY DEF IInv, TypeOK
<1>2. sender'[s] = h
  BY DEF IInv, TypeOK
<1>3. (WriteAheadRule /\ NeverDisowned /\ NoPhantom)'
  BY DEF IInv, WriteAheadRule, NeverDisowned, NoPhantom, Present
<1>4. ASSUME NEW t \in Sender PROVE HandOK(t)'
  <2>1. CASE t = s
    BY <2>1
  <2>2. CASE t # s
    BY <1>1, <2>2 DEF IInv, HandOK, Present
  <2> QED BY <2>1, <2>2
<1>5. OneHand'
  BY <1>1, <1>2 DEF IInv, OneHand
<1>6. \A r \in Resolver : GripOK(r)'
  BY DEF IInv, GripOK, Present
<1> QED BY <1>3, <1>4, <1>5, <1>6 DEF IInv

\* A step that changes what one sender in flight has in hand, its attempt staying
\* the same or being let go.
LEMMA SenderMoves ==
    ASSUME IInv, TypeOK', NEW s \in Sender,
           UNCHANGED <<row, fate, resolver>>,
           \/ Refuse(s)
           \/ /\ \/ \E pc \in PC : Goto(s, pc)
                 \/ \E answer \in Answers : Answered(s, answer)
              /\ HandOK(s)'
    PROVE  IInv'
<1>1. \A t \in Sender \ {s} : sender[s].id = NoId \/ sender[t].id # sender[s].id
  BY DEF IInv, OneHand
<1>2. CASE Refuse(s)
  <2>1. sender'[s] = Idle
    BY <1>2 DEF Refuse, IInv, TypeOK
  <2>2. HandOK(s)'
    BY <2>1 DEF HandOK, Idle, Gates, InFlight
  <2>3. Idle.id = NoId
    BY DEF Idle
  <2> QED BY <1>2, <2>2, <2>3, SenderOnly DEF Refuse
<1>3. ASSUME NEW pc \in PC, Goto(s, pc), HandOK(s)' PROVE IInv'
  <2>1. [sender[s] EXCEPT !.pc = pc].id = sender[s].id
    BY DEF IInv, TypeOK, Hand
  <2> QED BY <1>1, <1>3, <2>1, SenderOnly DEF Goto
<1>4. ASSUME NEW answer \in Answers, Answered(s, answer), HandOK(s)' PROVE IInv'
  <2>1. [sender[s] EXCEPT !.pc = "answered", !.answer = answer].id = sender[s].id
    BY DEF IInv, TypeOK, Hand
  <2> QED BY <1>1, <1>4, <2>1, SenderOnly DEF Answered
<1> QED BY <1>2, <1>3, <1>4

\* Where a step puts a hand, field by field.
LEMMA MovedHand ==
    ASSUME TypeOK, NEW s \in Sender
    PROVE  /\ \A pc \in PC : Goto(s, pc) =>
                 /\ sender'[s].pc = pc /\ sender'[s].id = sender[s].id
                 /\ sender'[s].answer = sender[s].answer
           /\ \A answer \in Answers : Answered(s, answer) =>
                 /\ sender'[s].pc = "answered" /\ sender'[s].id = sender[s].id
                 /\ sender'[s].answer = answer
           /\ Refuse(s) => sender'[s].pc = "idle" /\ sender'[s].id = NoId
           /\ \/ Refuse(s) \/ \E pc \in PC : Goto(s, pc)
              \/ \E answer \in Answers : Answered(s, answer)
              => \A t \in Sender \ {s} : sender'[t] = sender[t]
<1>1. sender[s] \in Hand /\ sender \in [Sender -> Hand]
  BY DEF TypeOK
<1>2. ASSUME NEW pc \in PC, Goto(s, pc)
      PROVE  /\ sender'[s].pc = pc /\ sender'[s].id = sender[s].id
             /\ sender'[s].answer = sender[s].answer
             /\ \A t \in Sender \ {s} : sender'[t] = sender[t]
  BY <1>1, <1>2 DEF Goto, Hand
<1>3. ASSUME NEW answer \in Answers, Answered(s, answer)
      PROVE  /\ sender'[s].pc = "answered" /\ sender'[s].id = sender[s].id
             /\ sender'[s].answer = answer
             /\ \A t \in Sender \ {s} : sender'[t] = sender[t]
  BY <1>1, <1>3 DEF Answered, Hand
<1>4. ASSUME Refuse(s)
      PROVE  /\ sender'[s].pc = "idle" /\ sender'[s].id = NoId
             /\ \A t \in Sender \ {s} : sender'[t] = sender[t]
  BY <1>1, <1>4 DEF Refuse, Idle
<1> QED BY <1>2, <1>3, <1>4

\* The id a coroutine past its first step holds is a client order id.
LEMMA HeldId ==
    ASSUME IInv, NEW s \in Sender, sender[s].pc # "idle"
    PROVE  sender[s].id \in Id
  BY DEF IInv, HandOK, TypeOK, Hand

\* What happens to one sender's attempt leaves every other sender's hand right.
LEMMA OthersKeep ==
    ASSUME IInv, NEW s \in Sender, NEW t \in Sender \ {s},
           sender[s].id \in Id,
           sender'[t] = sender[t],
           \A j \in Id \ {sender[s].id} : row'[j] = row[j] /\ fate'[j] = fate[j]
    PROVE  HandOK(t)'
<1>1. HandOK(t) /\ sender[t].id # sender[s].id
  BY NoIdAssumption DEF IInv, OneHand
<1>2. CASE sender[t].pc = "idle"
  BY <1>1, <1>2 DEF HandOK, Gates, InFlight
<1>3. CASE sender[t].pc # "idle"
  <2>1. sender[t].id \in Id \ {sender[s].id}
    BY <1>1, <1>3, HeldId
  <2> QED BY <1>1, <2>1 DEF HandOK, Present
<1> QED BY <1>2, <1>3

\* Beginning a submission: the fresh id is nobody else's.
LEMMA IInvMint ==
    ASSUME IInv, TypeOK', NEW s \in Sender, NEW pc \in Gates \cup {"authorized"},
           NEW entry \in BOOLEAN, Mint(s, pc, entry)
    PROVE  IInv'
<1>1. PICK i \in Id : Fresh(i) /\ sender' = [sender EXCEPT ![s] = Holding(pc, i, entry)]
  BY DEF Mint
<1>2. UNCHANGED <<row, fate, resolver>>
  BY DEF Mint
<1>3. sender'[s] = Holding(pc, i, entry)
  BY <1>1 DEF IInv, TypeOK
<1>4. HandOK(s)'
  BY <1>1, <1>2, <1>3, NoIdAssumption DEF HandOK, Holding, Fresh, Present, Gates, InFlight
<1>5. Holding(pc, i, entry).id = i
  BY DEF Holding
<1> QED BY <1>1, <1>2, <1>4, <1>5, SenderOnly DEF Fresh

\* A gate: the id in hand has no row before it and none after.
LEMMA IInvGate ==
    ASSUME IInv, TypeOK', NEW s \in Sender,
           NEW gate \in Gates, NEW passes, NEW next \in Gates \cup {"authorized"},
           GateThen(s, gate, passes, next)
    PROVE  IInv'
<1>1. UNCHANGED <<row, fate, resolver>> /\ sender[s].pc = gate
  BY DEF GateThen, AtPC
<1>2. Refuse(s) \/ Goto(s, next)
  BY DEF GateThen
<1>3. CASE Refuse(s)
  BY <1>1, <1>3, SenderMoves
<1>4. CASE Goto(s, next)
  <2>1. next \in PC
    BY DEF PC
  <2>2. sender'[s].pc = next /\ sender'[s].id = sender[s].id
    BY <1>4, <2>1, MovedHand DEF IInv
  <2>3. HandOK(s)
    BY DEF IInv
  <2>4. HandOK(s)'
    BY <1>1, <2>2, <2>3 DEF HandOK, Present, Gates, InFlight
  <2> QED BY <1>1, <1>4, <2>1, <2>4, SenderMoves
<1> QED BY <1>2, <1>3, <1>4

\* The commit before the send.
LEMMA IInvWriteAhead ==
    ASSUME IInv, TypeOK', NEW s \in Sender, WriteAhead(s)
    PROVE  IInv'
<1> DEFINE i == sender[s].id
<1>1. i \in Id
  BY HeldId DEF WriteAhead, AtPC
<1>2. sender'[s].pc = "prepared" /\ sender'[s].id = i /\ \A t \in Sender \ {s} : sender'[t] = sender[t]
  BY MovedHand DEF IInv, WriteAhead, PC, InFlight
<1>3. /\ row'[i].status = "PREPARED"
      /\ \A j \in Id \ {i} : row'[j] = row[j]
      /\ UNCHANGED <<fate, resolver>>
  BY <1>1 DEF WriteAhead, PreparedRow, AbsentRow, IInv, TypeOK
<1>4. ~Present(i) /\ fate[i] = "unsent"
  BY <1>1 DEF IInv, HandOK, WriteAhead, AtPC, WriteAheadRule
<1>5. (WriteAheadRule /\ NeverDisowned /\ NoPhantom)'
  BY <1>3, <1>4 DEF IInv, WriteAheadRule, NeverDisowned, NoPhantom, Present, Placed
<1>6. ASSUME NEW t \in Sender PROVE HandOK(t)'
  <2>1. CASE t = s
    BY <1>1, <1>2, <1>3, <1>4, <2>1, NoIdAssumption DEF HandOK, Present, Gates, InFlight
  <2>2. CASE t # s
    BY <1>1, <1>2, <1>3, <2>2, OthersKeep
  <2> QED BY <2>1, <2>2
<1>7. OneHand'
  BY <1>2 DEF IInv, OneHand
<1>8. \A r \in Resolver : GripOK(r)'
  BY <1>3 DEF IInv, GripOK, Present
<1> QED BY <1>5, <1>6, <1>7, <1>8 DEF IInv

\* The request leaves: its row is there, and not yet refused.
LEMMA IInvTransmit ==
    ASSUME IInv, TypeOK', NEW s \in Sender, Transmit(s)
    PROVE  IInv'
<1> DEFINE i == sender[s].id
<1>1. i \in Id
  BY HeldId DEF Transmit, AtPC
<1>2. sender'[s].pc = "awaiting" /\ sender'[s].id = i /\ \A t \in Sender \ {s} : sender'[t] = sender[t]
  BY MovedHand DEF IInv, Transmit, PC, InFlight
<1>3. /\ fate'[i] = "wire"
      /\ \A j \in Id \ {i} : fate'[j] = fate[j]
      /\ UNCHANGED <<row, resolver>>
  BY <1>1 DEF Transmit, IInv, TypeOK
<1>4. Present(i) /\ row[i].status # "REJECTED" /\ fate[i] = "unsent"
  BY <1>1 DEF IInv, HandOK, Transmit, AtPC, InFlight
<1>5. (WriteAheadRule /\ NeverDisowned /\ NoPhantom)'
  BY <1>3, <1>4 DEF IInv, WriteAheadRule, NeverDisowned, NoPhantom, Present
<1>6. ASSUME NEW t \in Sender PROVE HandOK(t)'
  <2>1. CASE t = s
    BY <1>1, <1>2, <1>3, <1>4, <2>1, NoIdAssumption DEF HandOK, Present, Gates, InFlight
  <2>2. CASE t # s
    BY <1>1, <1>2, <1>3, <2>2, OthersKeep
  <2> QED BY <2>1, <2>2
<1>7. OneHand'
  BY <1>2 DEF IInv, OneHand
<1>8. \A r \in Resolver : GripOK(r)'
  BY <1>3, <1>4 DEF IInv, GripOK, Present
<1> QED BY <1>5, <1>6, <1>7, <1>8 DEF IInv

\* An answer, or the lack of one, reaches the sender.
LEMMA IInvAnswer ==
    ASSUME IInv, TypeOK', NEW s \in Sender, RefuseLocally(s) \/ Hear(s)
    PROVE  IInv'
<1>1. PICK answer \in Answers :
        /\ Answered(s, answer)
        /\ answer = "ACCEPTED" => fate[sender[s].id] = "placed"
        /\ answer = "REJECTED" => fate[sender[s].id] \in {"unsent", "refused"}
  BY DEF RefuseLocally, Hear, Classify, Answers, IInv, HandOK, AtPC
<1>2. sender[s].pc \in {"prepared", "awaiting"} /\ UNCHANGED <<row, fate, resolver>>
  BY DEF RefuseLocally, Hear, AtPC
<1>3. sender'[s].pc = "answered" /\ sender'[s].id = sender[s].id /\ sender'[s].answer = answer
  BY <1>1, MovedHand DEF IInv
<1>4. HandOK(s)
  BY DEF IInv
<1>5. HandOK(s)'
  BY <1>1, <1>2, <1>3, <1>4 DEF HandOK, Present, Gates, InFlight
<1> QED BY <1>1, <1>2, <1>5, SenderMoves

\* The answer is written: it is true of the order, and the row says no more.
LEMMA IInvRecord ==
    ASSUME IInv, TypeOK', NEW s \in Sender, RecordOutcome(s)
    PROVE  IInv'
<1> DEFINE i == sender[s].id
<1>1. i \in Id /\ row[i] \in Row /\ sender[s].answer \in Answers
  BY HeldId DEF RecordOutcome, AtPC, IInv, TypeOK, Hand
<1>2. sender'[s].pc = "idle" /\ sender'[s].id = NoId /\ \A t \in Sender \ {s} : sender'[t] = sender[t]
  BY MovedHand DEF IInv, RecordOutcome
<1>3. /\ row'[i].status = sender[s].answer
      /\ row'[i].numbered = (row[i].numbered \/ sender[s].answer = "ACCEPTED")
      /\ \A j \in Id \ {i} : row'[j] = row[j]
      /\ UNCHANGED <<fate, resolver>>
  BY <1>1 DEF RecordOutcome, ApplyOutcome, IInv, TypeOK, Row
<1>4. /\ Present(i)
      /\ sender[s].answer = "ACCEPTED" => fate[i] = "placed"
      /\ sender[s].answer = "REJECTED" => fate[i] \in {"unsent", "refused"}
  BY <1>1 DEF IInv, HandOK, RecordOutcome, AtPC, InFlight
<1>5. row'[i].status # "ABSENT"
  BY <1>1, <1>3 DEF Answers
<1>6. (WriteAheadRule /\ NeverDisowned)'
  BY <1>3, <1>4, <1>5 DEF IInv, WriteAheadRule, NeverDisowned, Present
<1>7. NoPhantom'
  <2>1. ASSUME NEW j \in Id, row'[j].status \in Placed
        PROVE  fate'[j] = "placed" /\ row'[j].numbered
    <3>1. CASE j = i
      <4>1. sender[s].answer = "ACCEPTED"
        BY <1>1, <1>3, <2>1, <3>1 DEF Placed, Answers
      <4> QED BY <1>3, <1>4, <3>1, <4>1
    <3>2. CASE j # i
      BY <1>3, <2>1, <3>2 DEF IInv, NoPhantom
    <3> QED BY <3>1, <3>2
  <2> QED BY <2>1 DEF NoPhantom
<1>8. ASSUME NEW t \in Sender PROVE HandOK(t)'
  <2>1. CASE t = s
    BY <1>2, <2>1 DEF HandOK, Gates, InFlight
  <2>2. CASE t # s
    BY <1>1, <1>2, <1>3, <2>2, OthersKeep
  <2> QED BY <2>1, <2>2
<1>9. OneHand'
  BY <1>2 DEF IInv, OneHand
<1>10. \A r \in Resolver : GripOK(r)'
  BY <1>3, <1>5 DEF IInv, GripOK, Present
<1> QED BY <1>6, <1>7, <1>8, <1>9, <1>10 DEF IInv

LEMMA IInvSend ==
    ASSUME IInv, NEW s \in Sender, SendStep(s)
    PROVE  IInv'
<1>0. TypeOK'
  BY TypeSend DEF IInv
<1>1. CASE BeginEntry(s) \/ BeginExit(s)
  BY <1>0, <1>1, IInvMint DEF BeginEntry, BeginExit, Gates
<1>2. CASE StopGate(s)
  BY <1>0, <1>2, IInvGate DEF StopGate, Gates
<1>3. CASE UnresolvedGate(s)
  BY <1>0, <1>3, IInvGate DEF UnresolvedGate, Gates
<1>4. CASE ActivationGate(s)
  BY <1>0, <1>4, IInvGate DEF ActivationGate, Gates
<1>5. CASE RiskGate(s)
  BY <1>0, <1>5, IInvGate DEF RiskGate, Gates
<1>6. CASE WriteAhead(s)
  BY <1>0, <1>6, IInvWriteAhead
<1>7. CASE Transmit(s)
  BY <1>0, <1>7, IInvTransmit
<1>8. CASE RefuseLocally(s) \/ Hear(s)
  BY <1>0, <1>8, IInvAnswer
<1>9. CASE RecordOutcome(s)
  BY <1>0, <1>9, IInvRecord
<1>10. CASE Abandon(s)
  BY <1>0, <1>10, SenderMoves DEF Abandon
<1> QED BY <1>1, <1>2, <1>3, <1>4, <1>5, <1>6, <1>7, <1>8, <1>9, <1>10 DEF SendStep

\* A resolver that only reads keeps the invariant if what it now holds is right.
LEMMA GripOnly ==
    ASSUME IInv, TypeOK', NEW r \in Resolver,
           UNCHANGED <<row, fate, sender>>,
           \A q \in Resolver \ {r} : resolver'[q] = resolver[q],
           GripOK(r)'
    PROVE  IInv'
<1>1. (WriteAheadRule /\ NeverDisowned /\ NoPhantom)'
  BY DEF IInv, WriteAheadRule, NeverDisowned, NoPhantom, Present
<1>2. (\A s \in Sender : HandOK(s))' /\ OneHand'
  BY DEF IInv, HandOK, OneHand, Present
<1>3. ASSUME NEW q \in Resolver PROVE GripOK(q)'
  <2>1. CASE q = r
    BY <2>1
  <2>2. CASE q # r
    BY <2>2 DEF IInv, GripOK, Present
  <2> QED BY <2>1, <2>2
<1> QED BY <1>1, <1>2, <1>3 DEF IInv

\* The scheduler's job or the route takes rows up.
LEMMA IInvLoad ==
    ASSUME IInv, TypeOK', NEW r \in Resolver,
           LoadPending(r) \/ \E i \in Id : LoadOne(r, i)
    PROVE  IInv'
<1>1. UNCHANGED <<row, fate, sender>> /\ \A q \in Resolver \ {r} : resolver'[q] = resolver[q]
  BY DEF LoadPending, LoadOne, IInv, TypeOK
<1>2. \A j \in Id : \/ resolver'[r][j] = resolver[r][j]
                    \/ resolver'[r][j] = NoGrip
                    \/ Present(j) /\ resolver'[r][j] = Loaded(row[j])
  <2>1. CASE LoadPending(r)
    <3>1. \A j \in Id : resolver'[r][j] = IF Pending(j) THEN Loaded(row[j]) ELSE NoGrip
      BY <2>1 DEF LoadPending, IInv, TypeOK
    <3>2. \A j \in Id : Pending(j) => Present(j)
      BY DEF Pending, Resolvable, Present
    <3> QED BY <3>1, <3>2
  <2>2. ASSUME NEW i \in Id, LoadOne(r, i)
        PROVE  /\ \A j \in Id \ {i} : resolver'[r][j] = resolver[r][j]
               /\ Present(i) /\ resolver'[r][i] = Loaded(row[i])
    BY <2>2 DEF LoadOne, Resolvable, Present, IInv, TypeOK
  <2> QED BY <2>1, <2>2
<1>3. GripOK(r)
  BY DEF IInv
<1>4. ASSUME NEW j \in Id
      PROVE  /\ resolver'[r][j].step # "none" => Present(j)
             /\ resolver'[r][j].status = "RESOLVED_PLACED" => fate[j] = "placed"
  <2>1. CASE resolver'[r][j] = resolver[r][j]
    BY <1>3, <2>1 DEF GripOK
  <2>2. CASE resolver'[r][j] = NoGrip
    BY <2>2 DEF NoGrip
  <2>3. CASE Present(j) /\ resolver'[r][j] = Loaded(row[j])
    <3>1. Loaded(row[j]).status = "SAME"
      BY DEF Loaded
    <3> QED BY <2>3, <3>1
  <2> QED BY <1>2, <2>1, <2>2, <2>3
<1>5. GripOK(r)'
  BY <1>1, <1>4 DEF GripOK, Present
<1> QED BY <1>1, <1>5, GripOnly

\* A reading of the book, or the failure to read it: a hit is an order that exists.
LEMMA IInvLook ==
    ASSUME IInv, TypeOK', NEW r \in Resolver, NEW i \in Id,
           LookUp(r, i) \/ LookUpFails(r, i) \/ SkipRow(r, i)
    PROVE  IInv'
<1>1. /\ UNCHANGED <<row, fate, sender>>
      /\ \A q \in Resolver \ {r} : resolver'[q] = resolver[q]
      /\ \A j \in Id \ {i} : resolver'[r][j] = resolver[r][j]
      /\ resolver[r][i].step = "loaded" /\ resolver[r][i] \in Grip
  BY DEF LookUp, LookUpFails, SkipRow, IInv, TypeOK
<1>2. resolver'[r][i].status = "RESOLVED_PLACED" => fate[i] = "placed"
  <2>1. CASE LookUp(r, i)
    <3>1. PICK seen \in SUBSET {j \in Id : fate[j] = "placed"}, untagged \in BOOLEAN :
            resolver' = [resolver EXCEPT ![r][i] =
                           Resolve(resolver[r][i], MatchSubmission(seen, untagged, i))]
      BY <2>1 DEF LookUp
    <3>2. resolver'[r][i] = Resolve(resolver[r][i], MatchSubmission(seen, untagged, i))
      BY <3>1 DEF IInv, TypeOK
    <3>3. resolver'[r][i].status = "RESOLVED_PLACED" => i \in seen
      BY <1>1, <3>2, MatchFinds, ResolveType
    <3> QED BY <3>1, <3>3
  <2>2. CASE LookUpFails(r, i)
    <3>1. resolver'[r][i] = Resolve(resolver[r][i], "UNKNOWN")
      BY <2>2 DEF LookUpFails, IInv, TypeOK
    <3> QED BY <1>1, <3>1, ResolveType
  <2>3. CASE SkipRow(r, i)
    BY <2>3 DEF SkipRow, NoGrip, IInv, TypeOK
  <2> QED BY <2>1, <2>2, <2>3
<1>3. GripOK(r) /\ Present(i)
  BY <1>1 DEF IInv, GripOK
<1>4. GripOK(r)'
  BY <1>1, <1>2, <1>3 DEF GripOK, Present
<1> QED BY <1>1, <1>4, GripOnly

\* The commit of a pass: each row it marks placed is an order that exists, and it
\* never writes REJECTED.
LEMMA IInvCommitPass ==
    ASSUME IInv, TypeOK', NEW r \in Resolver, CommitPass(r)
    PROVE  IInv'
<1>1. /\ \A i \in Id : row'[i] = Write(row[i], resolver[r][i])
      /\ \A i \in Id : row[i] \in Row /\ resolver[r][i] \in Grip
      /\ UNCHANGED <<fate, sender>>
      /\ \A q \in Resolver \ {r} : resolver'[q] = resolver[q]
      /\ \A i \in Id : resolver'[r][i] = NoGrip
  BY DEF CommitPass, IInv, TypeOK
<1>2. \A i \in Id : /\ row'[i].status \in {row[i].status, "NEEDS_REVIEW", "RESOLVED_PLACED"}
                    /\ row'[i].status # row[i].status => Present(i)
                    /\ row'[i].status = "RESOLVED_PLACED" =>
                         \/ row[i].status = "RESOLVED_PLACED"
                         \/ fate[i] = "placed" /\ row'[i].numbered
                    /\ row[i].numbered => row'[i].numbered
  BY <1>1, WriteRow DEF IInv, GripOK
<1>3. \A i \in Id : Present(i) <=> Present(i)'
  BY <1>2 DEF Present
<1>4. (WriteAheadRule /\ NeverDisowned)'
  BY <1>1, <1>2, <1>3 DEF IInv, WriteAheadRule, NeverDisowned
<1>5. NoPhantom'
  BY <1>1, <1>2 DEF IInv, NoPhantom, Placed
<1>6. ASSUME NEW s \in Sender PROVE HandOK(s)'
  <2>1. HandOK(s)
    BY DEF IInv
  <2>2. CASE sender[s].pc = "idle"
    BY <1>1, <2>1, <2>2 DEF HandOK, Gates, InFlight
  <2>3. CASE sender[s].pc # "idle"
    <3>1. sender[s].id \in Id
      BY <2>3, HeldId
    <3> QED BY <1>1, <1>2, <1>3, <2>1, <3>1 DEF HandOK, Present
  <2> QED BY <2>2, <2>3
<1>7. OneHand'
  BY <1>1 DEF IInv, OneHand
<1>8. ASSUME NEW q \in Resolver PROVE GripOK(q)'
  <2>1. CASE q = r
    BY <1>1, <2>1 DEF GripOK, NoGrip
  <2>2. CASE q # r
    BY <1>1, <1>3, <2>2 DEF IInv, GripOK
  <2> QED BY <2>1, <2>2
<1> QED BY <1>4, <1>5, <1>6, <1>7, <1>8 DEF IInv

LEMMA IInvResolve ==
    ASSUME IInv, NEW r \in Resolver, ResolveStep(r)
    PROVE  IInv'
<1>0. TypeOK'
  BY TypeResolve DEF IInv
<1>1. CASE LoadPending(r) \/ \E i \in Id : LoadOne(r, i)
  BY <1>0, <1>1, IInvLoad
<1>2. ASSUME NEW i \in Id, LookUp(r, i) \/ LookUpFails(r, i) \/ SkipRow(r, i) PROVE IInv'
  BY <1>0, <1>2, IInvLook
<1>3. CASE CommitPass(r)
  BY <1>0, <1>3, IInvCommitPass
<1> QED BY <1>1, <1>2, <1>3 DEF ResolveStep

\* The exchange settles an order that was in transit; nobody holds an answer to it.
LEMMA IInvSettle ==
    ASSUME IInv, TypeOK', NEW i \in Id, Settle(i)
    PROVE  IInv'
<1>1. /\ fate[i] = "wire" /\ fate'[i] \in {"placed", "refused", "lost"}
      /\ \A j \in Id \ {i} : fate'[j] = fate[j]
      /\ UNCHANGED <<row, sender, resolver>>
  BY DEF Settle, IInv, TypeOK
<1>2. (WriteAheadRule /\ NeverDisowned /\ NoPhantom)'
  BY <1>1 DEF IInv, WriteAheadRule, NeverDisowned, NoPhantom, Present
<1>3. ASSUME NEW s \in Sender PROVE HandOK(s)'
  <2>1. HandOK(s) /\ sender'[s] = sender[s]
    BY <1>1 DEF IInv
  <2>2. CASE sender[s].pc = "idle"
    BY <2>1, <2>2 DEF HandOK, Gates, InFlight
  <2>3. CASE sender[s].pc # "idle"
    <3>1. sender[s].id \in Id
      BY <2>3, HeldId
    <3> QED BY <1>1, <2>1, <3>1 DEF HandOK, Present
  <2> QED BY <2>2, <2>3
<1>4. OneHand'
  BY <1>1 DEF IInv, OneHand
<1>5. \A r \in Resolver : GripOK(r)'
  BY <1>1 DEF IInv, GripOK, Present
<1> QED BY <1>2, <1>3, <1>4, <1>5 DEF IInv

\* A row grows old.
LEMMA IInvAge ==
    ASSUME IInv, TypeOK', NEW i \in Id, Age(i)
    PROVE  IInv'
<1>1. /\ \A j \in Id : row'[j].status = row[j].status /\ row'[j].numbered = row[j].numbered
      /\ UNCHANGED <<fate, sender, resolver>>
  BY DEF Age, IInv, TypeOK, Row
<1>2. (WriteAheadRule /\ NeverDisowned /\ NoPhantom)'
  BY <1>1 DEF IInv, WriteAheadRule, NeverDisowned, NoPhantom, Present
<1>3. ASSUME NEW s \in Sender PROVE HandOK(s)'
  <2>1. HandOK(s) /\ sender'[s] = sender[s]
    BY <1>1 DEF IInv
  <2>2. CASE sender[s].pc = "idle"
    BY <2>1, <2>2 DEF HandOK, Gates, InFlight
  <2>3. CASE sender[s].pc # "idle"
    <3>1. sender[s].id \in Id
      BY <2>3, HeldId
    <3> QED BY <1>1, <2>1, <3>1 DEF HandOK, Present
  <2> QED BY <2>2, <2>3
<1>4. OneHand'
  BY <1>1 DEF IInv, OneHand
<1>5. \A r \in Resolver : GripOK(r)'
  BY <1>1 DEF IInv, GripOK, Present
<1> QED BY <1>2, <1>3, <1>4, <1>5 DEF IInv

\* A process dies: what its coroutines held is gone, what was durable is not.
LEMMA IInvCrash ==
    ASSUME IInv, TypeOK', NEW p \in Process, Crash(p)
    PROVE  IInv'
<1>1. /\ UNCHANGED <<row, fate>>
      /\ \A s \in Sender : sender'[s] \in {Idle, sender[s]}
      /\ \A r \in Resolver : resolver'[r] \in {[i \in Id |-> NoGrip], resolver[r]}
  BY DEF Crash, IInv, TypeOK
<1>2. (WriteAheadRule /\ NeverDisowned /\ NoPhantom)'
  BY <1>1 DEF IInv, WriteAheadRule, NeverDisowned, NoPhantom, Present
<1>3. ASSUME NEW s \in Sender PROVE HandOK(s)'
  <2>1. CASE sender'[s] = Idle
    BY <2>1 DEF HandOK, Idle, Gates, InFlight
  <2>2. CASE sender'[s] = sender[s]
    BY <1>1, <2>2 DEF IInv, HandOK, Present
  <2> QED BY <1>1, <2>1, <2>2
<1>4. OneHand'
  <2>1. \A s \in Sender : sender'[s].id \in {NoId, sender[s].id}
    BY <1>1 DEF Idle
  <2> QED BY <2>1 DEF IInv, OneHand
<1>5. ASSUME NEW r \in Resolver PROVE GripOK(r)'
  <2>1. CASE resolver'[r] = [i \in Id |-> NoGrip]
    BY <2>1 DEF GripOK, NoGrip
  <2>2. CASE resolver'[r] = resolver[r]
    BY <1>1, <2>2 DEF IInv, GripOK, Present
  <2> QED BY <1>1, <2>1, <2>2
<1> QED BY <1>2, <1>3, <1>4, <1>5 DEF IInv

LEMMA IInvNext == IInv /\ [Next]_vars => IInv'
<1> SUFFICES ASSUME IInv, [Next]_vars PROVE IInv'
  OBVIOUS
<1>0. TypeOK'
  BY TypeNext DEF IInv
<1>1. ASSUME NEW s \in Sender, SendStep(s) PROVE IInv'
  BY <1>1, IInvSend
<1>2. ASSUME NEW r \in Resolver, ResolveStep(r) PROVE IInv'
  BY <1>2, IInvResolve
<1>3. ASSUME NEW i \in Id, Settle(i) PROVE IInv'
  BY <1>0, <1>3, IInvSettle
<1>4. ASSUME NEW i \in Id, Age(i) PROVE IInv'
  BY <1>0, <1>4, IInvAge
<1>5. ASSUME NEW p \in Process, Crash(p) PROVE IInv'
  BY <1>0, <1>5, IInvCrash
<1>6. CASE TurnStop \/ TurnActivation \/ UNCHANGED vars
  <2>1. UNCHANGED <<row, fate, sender, resolver>>
    BY <1>6 DEF TurnStop, TurnActivation, vars
  <2> QED BY <1>0, <2>1 DEF IInv, WriteAheadRule, NeverDisowned, NoPhantom, HandOK,
                             OneHand, GripOK, Present
<1> QED BY <1>1, <1>2, <1>3, <1>4, <1>5, <1>6 DEF Next

THEOREM Invariant == Spec => []IInv
  BY IInvInit, IInvNext, PTL DEF Spec

-----------------------------------------------------------------------------
(* The results.                                                             *)

\* Whatever has left this system is named by a durable row, for any number of
\* senders and resolvers, through any crashes (live_orders.py:7-13).
THEOREM WriteAhead_Holds == Spec => []WriteAheadRule
  BY Invariant, PTL DEF IInv

\* No order that exists or may exist is ever on record as refused
\* (live_order_recovery.py:15), however many attempts recovery is allowed and
\* however long a send takes.
THEOREM NeverDisowned_Holds == Spec => []NeverDisowned
  BY Invariant, PTL DEF IInv

\* A row that counts as placed is an order the broker has, with its numbers
\* (live_orders.py:22).
THEOREM NoPhantom_Holds == Spec => []NoPhantom
  BY Invariant, PTL DEF IInv

-----------------------------------------------------------------------------
(* The steps: one transmission per attempt, the refinement of OrderLedger,  *)
(* and the conditions under which a settled outcome stands.                 *)

\* Only a first transmission and the exchange's one answer move an order's fate.
LEMMA FateStep ==
    ASSUME IInv, [Next]_vars
    PROVE  \/ fate' = fate
           \/ \E s \in Sender : Transmit(s)
           \/ \E i \in Id : Settle(i)
<1>1. ASSUME NEW s \in Sender, SendStep(s) PROVE fate' = fate \/ Transmit(s)
  BY <1>1 DEF SendStep, BeginEntry, BeginExit, Mint, StopGate, UnresolvedGate, ActivationGate,
              RiskGate, GateThen, WriteAhead, RefuseLocally, Hear, RecordOutcome, Abandon
<1>2. ASSUME NEW r \in Resolver, ResolveStep(r) PROVE fate' = fate
  BY <1>2 DEF ResolveStep, LoadPending, LoadOne, LookUp, LookUpFails, SkipRow, CommitPass
<1>3. CASE \/ \E i \in Id : Age(i)
           \/ \E p \in Process : Crash(p)
           \/ TurnStop \/ TurnActivation \/ UNCHANGED vars
  BY <1>3 DEF Age, Crash, TurnStop, TurnActivation, vars
<1> QED BY <1>1, <1>2, <1>3 DEF Next

\* Each attempt is transmitted at most once and answered at most once by the
\* exchange ("Never retries", live_orders.py:267), whatever crashes and whatever
\* recovery does to its row.
THEOREM SentOnce_Holds == Spec => SentOnce
<1>1. ASSUME IInv, [Next]_vars, NEW i \in Id, fate'[i] # fate[i]
      PROVE  \/ fate[i] = "unsent" /\ fate'[i] = "wire"
             \/ fate[i] = "wire" /\ fate'[i] \in {"placed", "refused", "lost"}
  <2>1. ASSUME NEW s \in Sender, Transmit(s) PROVE fate[i] = "unsent" /\ fate'[i] = "wire"
    <3>1. sender[s].id \in Id /\ fate[sender[s].id] = "unsent"
      BY <1>1, <2>1, HeldId DEF Transmit, AtPC, IInv, HandOK
    <3>2. fate' = [fate EXCEPT ![sender[s].id] = "wire"]
      BY <2>1 DEF Transmit
    <3> QED BY <1>1, <3>1, <3>2 DEF IInv, TypeOK
  <2>2. ASSUME NEW j \in Id, Settle(j)
        PROVE  fate[i] = "wire" /\ fate'[i] \in {"placed", "refused", "lost"}
    BY <1>1, <2>2 DEF Settle, IInv, TypeOK
  <2> QED BY <1>1, <2>1, <2>2, FateStep
<1>2. IInv /\ [Next]_vars
        => [\A i \in Id : fate'[i] # fate[i] =>
               \/ fate[i] = "unsent" /\ fate'[i] = "wire"
               \/ fate[i] = "wire" /\ fate'[i] \in {"placed", "refused", "lost"}]_vars
  BY <1>1
<1> QED BY <1>2, Invariant, PTL DEF Spec, SentOnce

-----------------------------------------------------------------------------
(* The refinement.                                                          *)

\* A step that leaves the orders alone and writes statuses only to rows that
\* exist teaches the record something true, or nothing.
LEMMA LearnStep ==
    ASSUME IInv, IInv', fate' = fate,
           \A i \in Id : Present(i) <=> Present(i)'
    PROVE  [Ledger!Next]_Ledger!ledger
<1>1. {i \in Id : Present(i)}' = {i \in Id : Present(i)}
  OBVIOUS
<1>2. [i \in Id |-> RecordedBelief(row[i])]' \in [Id -> Ledger!Belief]
  BY DEF RecordedBelief, Ledger!Belief
<1>3. \A i \in Id \ {j \in Id : Present(j)} :
        [j \in Id |-> RecordedBelief(row[j])]'[i] = [j \in Id |-> RecordedBelief(row[j])][i]
  BY DEF Present, RecordedBelief, Placed
<1>4. Ledger!Truthful([i \in Id |-> RecordedBelief(row[i])]', fate)
  BY DEF Ledger!Truthful, RecordedBelief, IInv, NoPhantom, NeverDisowned
<1>5. Ledger!Learn
  BY <1>1, <1>2, <1>3, <1>4 DEF Ledger!Learn
<1> QED BY <1>5 DEF Ledger!Next

\* The steps that leave both the table and the orders alone are stutters.
LEMMA StutterStep ==
    ASSUME UNCHANGED <<row, fate>>
    PROVE  [Ledger!Next]_Ledger!ledger
  BY DEF Ledger!ledger, Present

\* Live submission implements the order ledger: intent before dispatch, at most
\* one dispatch, and a record that may forget but never lies
\* (live_orders.py:1-48, live_order_recovery.py:1-32).
THEOREM Implements == Spec => ImplementsLedger
<1>1. Init => Ledger!Init
  BY DEF Init, AbsentRow, Present, RecordedBelief, Placed, Ledger!Init
<1>2. ASSUME IInv, IInv', [Next]_vars PROVE [Ledger!Next]_Ledger!ledger
  <2>1. ASSUME NEW s \in Sender, WriteAhead(s) PROVE [Ledger!Next]_Ledger!ledger
    <3> DEFINE i == sender[s].id
    <3>1. i \in Id /\ row[i].status = "ABSENT"
      BY <1>2, <2>1, HeldId DEF WriteAhead, AtPC, IInv, HandOK, Present
    <3>2. /\ row'[i].status = "PREPARED"
          /\ \A j \in Id \ {i} : row'[j] = row[j]
          /\ fate' = fate
      BY <1>2, <2>1, <3>1 DEF WriteAhead, PreparedRow, AbsentRow, IInv, TypeOK
    <3>3. {j \in Id : Present(j)}' = {j \in Id : Present(j)} \cup {i}
      BY <3>1, <3>2 DEF Present
    <3>4. [j \in Id |-> RecordedBelief(row[j])]' = [j \in Id |-> RecordedBelief(row[j])]
      BY <3>1, <3>2 DEF RecordedBelief, Placed
    <3>5. Ledger!Intend(i)
      BY <3>1, <3>2, <3>3, <3>4 DEF Ledger!Intend, Present
    <3> QED BY <3>1, <3>5 DEF Ledger!Next
  <2>2. ASSUME NEW s \in Sender, Transmit(s) PROVE [Ledger!Next]_Ledger!ledger
    <3> DEFINE i == sender[s].id
    <3>1. i \in Id /\ Present(i) /\ row[i].status # "REJECTED" /\ fate[i] = "unsent"
      BY <1>2, <2>2, HeldId DEF Transmit, AtPC, IInv, HandOK, InFlight
    <3>2. fate' = [fate EXCEPT ![i] = "wire"] /\ row' = row
      BY <2>2 DEF Transmit
    <3>3. [j \in Id |-> RecordedBelief(row[j])][i] # "refused"
      BY <3>1 DEF RecordedBelief
    <3>4. Ledger!Dispatch(i)
      BY <3>1, <3>2, <3>3 DEF Ledger!Dispatch, Present
    <3> QED BY <3>1, <3>4 DEF Ledger!Next
  <2>3. ASSUME NEW i \in Id, Settle(i) PROVE [Ledger!Next]_Ledger!ledger
    <3>1. Ledger!Settle(i)
      BY <2>3 DEF Settle, Ledger!Settle, Present
    <3> QED BY <3>1 DEF Ledger!Next
  <2>4. ASSUME NEW s \in Sender, RecordOutcome(s) PROVE [Ledger!Next]_Ledger!ledger
    <3> DEFINE i == sender[s].id
    <3>1. i \in Id /\ row[i] \in Row /\ sender[s].answer \in Answers /\ row[i].status # "ABSENT"
      BY <1>2, <2>4, HeldId DEF RecordOutcome, AtPC, IInv, HandOK, TypeOK, Hand, Present, InFlight
    <3>2. row'[i].status = sender[s].answer /\ \A j \in Id \ {i} : row'[j] = row[j]
      BY <1>2, <2>4, <3>1 DEF RecordOutcome, ApplyOutcome, IInv, TypeOK, Row
    <3>3. \A j \in Id : row'[j].status # "ABSENT" <=> row[j].status # "ABSENT"
      BY <3>1, <3>2 DEF Answers
    <3> QED BY <1>2, <2>4, <3>3, LearnStep DEF RecordOutcome, Present
  <2>5. ASSUME NEW r \in Resolver, CommitPass(r) PROVE [Ledger!Next]_Ledger!ledger
    <3>1. /\ \A i \in Id : row'[i] = Write(row[i], resolver[r][i])
          /\ \A i \in Id : row[i] \in Row /\ resolver[r][i] \in Grip
          /\ fate' = fate
      BY <1>2, <2>5 DEF CommitPass, IInv, TypeOK
    <3>2. \A j \in Id : row'[j].status # "ABSENT" <=> row[j].status # "ABSENT"
      BY <1>2, <3>1, WriteRow DEF IInv, GripOK, Present
    <3> QED BY <1>2, <3>1, <3>2, LearnStep DEF Present
  <2>6. ASSUME NEW i \in Id, Age(i) PROVE [Ledger!Next]_Ledger!ledger
    <3>1. \A j \in Id : row'[j].status # "ABSENT" <=> row[j].status # "ABSENT"
      BY <1>2, <2>6 DEF Age, IInv, TypeOK, Row
    <3> QED BY <1>2, <2>6, <3>1, LearnStep DEF Age, Present
  <2>7. ASSUME NEW s \in Sender, SendStep(s)
        PROVE  UNCHANGED <<row, fate>> \/ WriteAhead(s) \/ Transmit(s) \/ RecordOutcome(s)
    BY <2>7 DEF SendStep, BeginEntry, BeginExit, Mint, StopGate, UnresolvedGate, ActivationGate,
                RiskGate, GateThen, RefuseLocally, Hear, Abandon
  <2>8. ASSUME NEW r \in Resolver, ResolveStep(r)
        PROVE  UNCHANGED <<row, fate>> \/ CommitPass(r)
    BY <2>8 DEF ResolveStep, LoadPending, LoadOne, LookUp, LookUpFails, SkipRow
  <2>9. CASE \/ \E p \in Process : Crash(p)
             \/ TurnStop \/ TurnActivation \/ UNCHANGED vars
    <3>1. UNCHANGED <<row, fate>>
      BY <2>9 DEF Crash, TurnStop, TurnActivation, vars
    <3> QED BY <3>1, StutterStep
  <2>10. ASSUME NEW s \in Sender, SendStep(s) PROVE [Ledger!Next]_Ledger!ledger
    BY <2>1, <2>2, <2>4, <2>7, <2>10, StutterStep
  <2>11. ASSUME NEW r \in Resolver, ResolveStep(r) PROVE [Ledger!Next]_Ledger!ledger
    BY <2>5, <2>8, <2>11, StutterStep
  <2> QED BY <1>2, <2>3, <2>6, <2>9, <2>10, <2>11 DEF Next
<1> QED BY <1>1, <1>2, Invariant, PTL DEF Spec, ImplementsLedger, Ledger!Spec

-----------------------------------------------------------------------------
(* When a settled outcome stands.                                           *)

\* While a send is in flight its row is PREPARED and young; what a resolver holds
\* is old and still open.
Apart ==
    /\ \A s \in Sender : sender[s].pc \in InFlight =>
         row[sender[s].id].status = "PREPARED" /\ ~row[sender[s].id].settled
    /\ \A r \in Resolver, i \in Id : resolver[r][i].step # "none" =>
         row[i].status \in Open /\ row[i].settled

LEMMA ApartInit == Init => Apart
  BY DEF Init, Apart, Idle, NoGrip, InFlight

\* With one scheduled resolver and sends shorter than the in-flight window, the two
\* never have the same row.
LEMMA ApartNext ==
    ASSUME Resolver = Scheduled, \A q, r \in Resolver : q = r, ~SlowSend,
           IInv, Apart, [Next]_vars
    PROVE  Apart'
<1>1. ASSUME NEW s \in Sender, SendStep(s) PROVE Apart'
  <2>1. resolver' = resolver /\ \A t \in Sender \ {s} : sender'[t] = sender[t]
    BY <1>1 DEF SendStep, BeginEntry, BeginExit, Mint, StopGate, UnresolvedGate, ActivationGate,
                RiskGate, GateThen, WriteAhead, Transmit, RefuseLocally, Hear, RecordOutcome,
                Abandon, Goto, Refuse, Answered, IInv, TypeOK
  <2>2. CASE row' = row
    <3>1. sender'[s].pc \in InFlight => sender[s].pc \in InFlight /\ sender'[s].id = sender[s].id
      <4>1. CASE Transmit(s)
        BY <4>1, MovedHand DEF Transmit, AtPC, InFlight, PC, IInv
      <4>2. CASE RefuseLocally(s) \/ Hear(s)
        <5>1. \E answer \in Answers : Answered(s, answer)
          BY <4>2 DEF RefuseLocally, Hear, Classify, Answers
        <5> QED BY <4>2, <5>1, MovedHand DEF RefuseLocally, Hear, AtPC, InFlight, IInv
      <4>3. CASE RecordOutcome(s) \/ Abandon(s)
        BY <4>3, MovedHand DEF RecordOutcome, Abandon, InFlight, IInv
      <4>4. ASSUME NEW pc \in {"stop_gate", "authorized"}, NEW entry, Mint(s, pc, entry)
            PROVE  sender'[s].pc \notin InFlight
        BY <4>4 DEF Mint, Holding, InFlight, IInv, TypeOK
      <4>5. CASE BeginEntry(s) \/ BeginExit(s)
        BY <4>4, <4>5 DEF BeginEntry, BeginExit
      <4>6. CASE StopGate(s) \/ UnresolvedGate(s) \/ ActivationGate(s) \/ RiskGate(s)
        <5>1. Refuse(s) \/ \E pc \in Gates \cup {"authorized"} : Goto(s, pc)
          BY <4>6 DEF StopGate, UnresolvedGate, ActivationGate, RiskGate, GateThen, Gates
        <5> QED BY <5>1, MovedHand DEF Gates, InFlight, PC, IInv
      <4>7. CASE WriteAhead(s)
        <5>1. sender[s].id \in Id /\ row[sender[s].id].status = "ABSENT"
          BY <4>7, HeldId DEF WriteAhead, AtPC, IInv, HandOK, Present
        <5>2. row'[sender[s].id].status = "PREPARED"
          BY <4>7, <5>1 DEF WriteAhead, PreparedRow, AbsentRow, IInv, TypeOK
        <5> QED BY <2>2, <5>1, <5>2
      <4> QED BY <1>1, <4>1, <4>2, <4>3, <4>5, <4>6, <4>7 DEF SendStep
    <3> QED BY <2>1, <2>2, <3>1 DEF Apart
  <2>3. CASE WriteAhead(s)
    <3> DEFINE i == sender[s].id
    <3>1. i \in Id /\ row[i].status = "ABSENT"
      BY <2>3, HeldId DEF WriteAhead, AtPC, IInv, HandOK, Present
    <3>2. /\ row'[i].status = "PREPARED" /\ ~row'[i].settled
          /\ \A j \in Id \ {i} : row'[j] = row[j]
      BY <2>3, <3>1 DEF WriteAhead, PreparedRow, AbsentRow, IInv, TypeOK
    <3>3. sender'[s].id = i
      BY <2>3, MovedHand DEF WriteAhead, IInv, PC, InFlight
    <3>4. ASSUME NEW t \in Sender, sender'[t].pc \in InFlight
          PROVE  row'[sender'[t].id].status = "PREPARED" /\ ~row'[sender'[t].id].settled
      <4>1. CASE t = s
        BY <3>2, <3>3, <4>1
      <4>2. CASE t # s
        <5>1. sender[t].id \in Id /\ sender[t].id # i
          BY <2>1, <3>1, <3>4, <4>2, HeldId, NoIdAssumption DEF IInv, OneHand, InFlight
        <5> QED BY <2>1, <3>2, <3>4, <4>2, <5>1 DEF Apart
      <4> QED BY <4>1, <4>2
    <3>5. ASSUME NEW r \in Resolver, NEW j \in Id, resolver'[r][j].step # "none"
          PROVE  row'[j].status \in Open /\ row'[j].settled
      BY <2>1, <3>1, <3>2, <3>5 DEF Apart, Open
    <3> QED BY <3>4, <3>5 DEF Apart
  <2>4. CASE RecordOutcome(s)
    <3> DEFINE i == sender[s].id
    <3>1. i \in Id /\ row[i].status = "PREPARED" /\ ~row[i].settled
      BY <2>4, HeldId DEF RecordOutcome, AtPC, Apart, InFlight
    <3>2. \A j \in Id \ {i} : row'[j] = row[j]
      BY <2>4 DEF RecordOutcome, IInv, TypeOK
    <3>3. sender'[s].pc = "idle"
      BY <2>4, MovedHand DEF RecordOutcome, IInv
    <3>4. ASSUME NEW t \in Sender, sender'[t].pc \in InFlight
          PROVE  row'[sender'[t].id].status = "PREPARED" /\ ~row'[sender'[t].id].settled
      <4>1. t # s
        BY <3>3, <3>4 DEF InFlight
      <4>2. sender[t].id \in Id /\ sender[t].id # i
        BY <2>1, <3>1, <3>4, <4>1, HeldId, NoIdAssumption DEF IInv, OneHand, InFlight
      <4> QED BY <2>1, <3>2, <3>4, <4>1, <4>2 DEF Apart
    <3>5. ASSUME NEW r \in Resolver, NEW j \in Id, resolver'[r][j].step # "none"
          PROVE  row'[j].status \in Open /\ row'[j].settled
      BY <2>1, <3>1, <3>2, <3>5 DEF Apart
    <3> QED BY <3>4, <3>5 DEF Apart
  <2> QED BY <1>1, <2>2, <2>3, <2>4 DEF SendStep, BeginEntry, BeginExit, Mint, StopGate,
          UnresolvedGate, ActivationGate, RiskGate, GateThen, Transmit, RefuseLocally, Hear, Abandon
<1>2. ASSUME NEW r \in Resolver, ResolveStep(r) PROVE Apart'
  <2>1. sender' = sender /\ \A q \in Resolver : q = r
    BY <1>2 DEF ResolveStep, LoadPending, LoadOne, LookUp, LookUpFails, SkipRow, CommitPass
  <2>2. CASE CommitPass(r)
    <3>1. /\ \A i \in Id : row'[i] = Write(row[i], resolver[r][i])
          /\ \A i \in Id : resolver'[r][i] = NoGrip
      BY <2>2 DEF CommitPass, IInv, TypeOK
    <3>2. ASSUME NEW s \in Sender, sender[s].pc \in InFlight
          PROVE  row'[sender[s].id] = row[sender[s].id]
      <4>1. sender[s].id \in Id /\ ~row[sender[s].id].settled
        BY <3>2, HeldId DEF InFlight, Apart
      <4>2. resolver[r][sender[s].id].step = "none"
        BY <4>1 DEF Apart
      <4> QED BY <3>1, <4>1, <4>2 DEF Write
    <3> QED BY <2>1, <3>1, <3>2 DEF Apart, NoGrip
  <2>3. CASE LoadPending(r)
    <3>1. row' = row /\ \A i \in Id : resolver'[r][i] = IF Pending(i) THEN Loaded(row[i]) ELSE NoGrip
      BY <2>3 DEF LoadPending, IInv, TypeOK
    <3>2. ASSUME NEW i \in Id, resolver'[r][i].step # "none" PROVE Pending(i)
      BY <3>1, <3>2 DEF NoGrip
    <3>3. \A i \in Id : Pending(i) => row[i].status \in Open /\ row[i].settled
      BY DEF Pending, Resolvable, Open
    <3> QED BY <2>1, <3>1, <3>2, <3>3 DEF Apart
  <2>4. ASSUME NEW i \in Id, LookUp(r, i) \/ LookUpFails(r, i) \/ SkipRow(r, i) PROVE Apart'
    <3>1. /\ row' = row /\ resolver[r][i].step = "loaded"
          /\ \A j \in Id \ {i} : resolver'[r][j] = resolver[r][j]
      BY <2>4 DEF LookUp, LookUpFails, SkipRow, IInv, TypeOK
    <3>2. ASSUME NEW j \in Id, resolver'[r][j].step # "none" PROVE resolver[r][j].step # "none"
      BY <3>1, <3>2
    <3> QED BY <2>1, <3>1, <3>2 DEF Apart
  <2>5. \A i \in Id : ~LoadOne(r, i)
    BY DEF LoadOne
  <2> QED BY <1>2, <2>2, <2>3, <2>4, <2>5 DEF ResolveStep
<1>3. ASSUME NEW i \in Id, Settle(i) PROVE Apart'
  BY <1>3 DEF Settle, Apart
<1>4. ASSUME NEW i \in Id, Age(i) PROVE Apart'
  <2>1. /\ \A s \in Sender : sender[s].id # i
        /\ \A j \in Id : row'[j].status = row[j].status /\ (row[j].settled => row'[j].settled)
        /\ \A j \in Id \ {i} : row'[j] = row[j]
        /\ UNCHANGED <<sender, resolver>>
    BY <1>4 DEF Age, IInv, TypeOK, Row
  <2>2. ASSUME NEW s \in Sender, sender[s].pc \in InFlight
        PROVE  row'[sender[s].id] = row[sender[s].id]
    <3>1. sender[s].id \in Id \ {i}
      BY <2>1, <2>2, HeldId DEF InFlight
    <3> QED BY <2>1, <3>1
  <2> QED BY <2>1, <2>2 DEF Apart
<1>5. ASSUME NEW p \in Process, Crash(p) PROVE Apart'
  <2>1. /\ row' = row
        /\ \A s \in Sender : sender'[s] = sender[s] \/ sender'[s] = Idle
        /\ \A r \in Resolver : resolver'[r] = resolver[r] \/ resolver'[r] = [i \in Id |-> NoGrip]
    BY <1>5 DEF Crash, IInv, TypeOK
  <2>2. ASSUME NEW s \in Sender, sender'[s].pc \in InFlight PROVE sender'[s] = sender[s]
    BY <2>1, <2>2 DEF Idle, InFlight
  <2>3. ASSUME NEW r \in Resolver, NEW i \in Id, resolver'[r][i].step # "none"
        PROVE  resolver'[r] = resolver[r]
    BY <2>1, <2>3 DEF NoGrip
  <2> QED BY <2>1, <2>2, <2>3 DEF Apart
<1>6. CASE TurnStop \/ TurnActivation \/ UNCHANGED vars
  BY <1>6 DEF TurnStop, TurnActivation, vars, Apart
<1> QED BY <1>1, <1>2, <1>3, <1>4, <1>5, <1>6 DEF Next

\* A settled outcome stands (live_order_recovery.py:134) when resolution is left to
\* one scheduled job and no send outlasts the in-flight window.  Both conditions are
\* needed: the route may settle a row whose sender is still waiting for its answer,
\* which the sender then writes over.
THEOREM SettledStands_Holds ==
    ASSUME Resolver = Scheduled, \A q, r \in Resolver : q = r, ~SlowSend
    PROVE  Spec => SettledStands
<1>1. ASSUME IInv, Apart, [Next]_vars, NEW i \in Id, row[i].status \in Status \ Open
      PROVE  row'[i].status = row[i].status
  <2>1. ASSUME NEW s \in Sender, SendStep(s) PROVE row'[i].status = row[i].status
    <3>1. CASE WriteAhead(s)
      <4>1. sender[s].id \in Id /\ row[sender[s].id].status = "ABSENT"
        BY <1>1, <3>1, HeldId DEF WriteAhead, AtPC, IInv, HandOK, Present
      <4>2. i # sender[s].id
        BY <1>1, <4>1 DEF Status, Answers
      <4> QED BY <1>1, <3>1, <4>2 DEF WriteAhead, IInv, TypeOK
    <3>2. CASE RecordOutcome(s)
      <4>1. row[sender[s].id].status = "PREPARED"
        BY <1>1, <3>2 DEF RecordOutcome, AtPC, Apart, InFlight
      <4>2. i # sender[s].id
        BY <1>1, <4>1 DEF Open
      <4> QED BY <1>1, <3>2, <4>2 DEF RecordOutcome, IInv, TypeOK
    <3> QED BY <2>1, <3>1, <3>2 DEF SendStep, BeginEntry, BeginExit, Mint, StopGate,
          UnresolvedGate, ActivationGate, RiskGate, GateThen, Transmit, RefuseLocally, Hear, Abandon
  <2>2. ASSUME NEW r \in Resolver, ResolveStep(r) PROVE row'[i].status = row[i].status
    <3>1. CASE CommitPass(r)
      <4>1. resolver[r][i].step = "none"
        BY <1>1 DEF Apart
      <4> QED BY <3>1, <4>1 DEF CommitPass, Write
    <3> QED BY <2>2, <3>1 DEF ResolveStep, LoadPending, LoadOne, LookUp, LookUpFails, SkipRow
  <2>3. ASSUME NEW j \in Id, Age(j) PROVE row'[i].status = row[i].status
    BY <1>1, <2>3 DEF Age, IInv, TypeOK, Row
  <2> QED BY <1>1, <2>1, <2>2, <2>3 DEF Next, Settle, Crash, TurnStop, TurnActivation, vars
<1>2. IInv /\ Apart /\ [Next]_vars
        => [\A i \in Id : row[i].status \in Status \ Open => row'[i].status = row[i].status]_vars
  BY <1>1
<1>3. IInv /\ Apart /\ [Next]_vars => Apart'
  BY ApartNext
<1> QED BY <1>2, <1>3, ApartInit, Invariant, PTL DEF Spec, SettledStands
=============================================================================
