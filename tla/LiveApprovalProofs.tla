------------------------- MODULE LiveApprovalProofs -------------------------
(***************************************************************************)
(* One signal is one order, and an order is one the operator approved: for  *)
(* any number of scanner coroutines, webhook requests, taps and failures.   *)
(*                                                                          *)
(* Neither is inductive.  IInv adds who may still make an order: only one   *)
(* coroutine ever got past the record of the signal (OneActive); only one   *)
(* request at a time decides a row, and it is PENDING for as long as that   *)
(* takes (OneHolder, Deciding); a row that is PENDING has sent nothing, and *)
(* one that was spent was spent by one request, which a tap of "approve"    *)
(* brought (Unspent, OneSpender, Spent).                                    *)
(***************************************************************************)
EXTENDS LiveApproval, TLAPS

\* The coroutine that took the signal up, or the row it left.
Active(s) == \/ scan[s] \in {"offer", "ask", "send", "undelivered", "submit"}
             \/ approval[s] # "none"
             \/ orders[s] > 0

OneActive == /\ \A r, s \in Scanner : Active(r) /\ Active(s) => r = s
             /\ \A s \in Scanner : Active(s) => recorded

\* A question is asked of a row that is there, and of a fresh signal.
Asked ==
    /\ \A s \in Scanner :
         /\ scan[s] \in {"candle", "offer", "ask", "submit"} => approval[s] = "none" /\ orders[s] = 0
         /\ scan[s] \in {"send", "undelivered"} => approval[s] # "none"
         /\ s \in shown => approval[s] # "none"
    /\ \A t \in Tap : tap[t].at # "unused" => tap[t].ref \in shown

\* A request serves a tap that was made.
Serving == \A h \in Hook : hook[h].pc # "idle" => Served(h) \in Tap /\ tap[Served(h)].at # "unused"

OneHolder == \A g, h \in Hook : Holds(g) /\ Holds(h) /\ Ref(g) = Ref(h) => g = h
Deciding  == \A h \in Hook : hook[h].pc = "decide" => approval[Ref(h)] = "PENDING"

Spends(h) == hook[h].pc \in {"submit", "refused", "sent"}

Unspent == \A s \in Scanner :
             approval[s] = "PENDING" => orders[s] = 0 /\ \A h \in Hook : Spends(h) => Ref(h) # s

OneSpender == \A g, h \in Hook : Spends(g) /\ Spends(h) /\ Ref(g) = Ref(h) => g = h

Spent == \A h \in Hook :
           /\ Spends(h) => /\ approval[Ref(h)] \in {"APPROVED", "BLOCKED", "SUBMITTED"}
                           /\ tap[Served(h)].action = "approve"
           /\ hook[h].pc = "submit" => orders[Ref(h)] = 0

AtMostOnce == \A s \in Scanner : orders[s] <= 1

IInv ==
    /\ TypeOK
    /\ OneActive /\ Asked
    /\ Serving /\ OneHolder /\ Deciding
    /\ Unspent /\ OneSpender /\ Spent /\ AtMostOnce
    /\ AnswerIsKept

-----------------------------------------------------------------------------
USE DEF Served, Ref, HookTo, ScanTo, row, Idle, NotTapped

LEMMA IInvInit == Init => IInv
  <1> SUFFICES ASSUME Init PROVE IInv
    OBVIOUS
  <1>1. TypeOK
    <2>1. /\ recorded \in BOOLEAN /\ approval \in [Scanner -> Status]
          /\ expired \subseteq Scanner /\ shown \subseteq Scanner /\ seen \subseteq Tap
          /\ orders \in [Scanner -> Nat]
      BY DEF Init, Status
    <2>5. faults \in 0..MaxFaults
      BY ApprovalAssumption DEF Init
    <2>2. scan \in [Scanner -> {"candle", "offer", "ask", "send", "undelivered", "submit", "done"}]
      BY DEF Init
    <2>3. hook \in [Hook -> Request] /\ \A h \in Hook : hook[h].pc = "idle"
      BY DEF Init, Request
    <2>4. tap \in [Tap -> [ref : Scanner, action : Action, at : {"out", "done"}] \cup {NotTapped}]
      BY DEF Init
    <2> QED
      BY <2>1, <2>2, <2>3, <2>4, <2>5 DEF TypeOK
  <1>2. OneActive /\ Asked
    BY DEF Init, OneActive, Active, Asked
  <1>3. Serving /\ OneHolder /\ Deciding /\ OneSpender /\ Spent
    BY DEF Init, Serving, OneHolder, Holds, Deciding, OneSpender, Spends, Spent
  <1>4. Unspent /\ AtMostOnce /\ AnswerIsKept
    BY DEF Init, Unspent, AtMostOnce, AnswerIsKept
  <1> QED
    BY <1>1, <1>2, <1>3, <1>4 DEF IInv

LEMMA FaultType == ASSUME IInv, Fault \/ NoFault PROVE faults' \in 0..MaxFaults
  BY ApprovalAssumption DEF IInv, TypeOK, Fault, NoFault

\* A request under way serves a tap on a question that was asked.
LEMMA RefType ==
    ASSUME IInv, NEW h \in Hook, hook[h].pc # "idle"
    PROVE  /\ Served(h) \in Tap /\ tap[Served(h)].at # "unused"
           /\ Ref(h) \in Scanner /\ approval[Ref(h)] # "none"
  BY DEF IInv, TypeOK, Serving, Asked

-----------------------------------------------------------------------------
(* What a step leaves alone.                                                 *)

LEMMA RequestsKept ==
    ASSUME IInv, UNCHANGED <<approval, orders, tap, hook>>
    PROVE  /\ Serving' /\ OneHolder' /\ Deciding' /\ Unspent' /\ OneSpender' /\ Spent'
           /\ AtMostOnce' /\ AnswerIsKept'
  BY DEF IInv, Serving, OneHolder, Holds, Deciding, Unspent, OneSpender, Spends, Spent,
         AtMostOnce, AnswerIsKept

LEMMA SignalKept ==
    ASSUME IInv, UNCHANGED <<recorded, scan, approval, shown, tap, orders>>
    PROVE  OneActive' /\ Asked' /\ AtMostOnce' /\ AnswerIsKept'
  BY DEF IInv, OneActive, Active, Asked, AtMostOnce, AnswerIsKept

\* A request goes on to a place where it neither decides nor spends.
Harmless == {"idle", "claim", "load", "close", "unreached", "finish"}

LEMMA HookMoves ==
    ASSUME IInv, NEW h \in Hook, NEW k, hook' = [hook EXCEPT ![h] = k],
           k.pc \in Harmless, k.pc = "idle" \/ (k.tap \in Tap /\ tap[k.tap].at # "unused"),
           k.pc = "close" => hook[h].pc = "load" /\ k.tap = Served(h) /\ Unlocked(Ref(h)),
           UNCHANGED <<approval, orders, tap>>
    PROVE  Serving' /\ OneHolder' /\ Deciding' /\ Unspent' /\ OneSpender' /\ Spent'
  <1>1. hook \in [Hook -> Request]
    BY DEF IInv, TypeOK
  <1>2. Serving'
    BY <1>1 DEF IInv, Serving
  <1>3. OneHolder'
    BY <1>1 DEF IInv, OneHolder, Holds, Unlocked, Harmless
  <1>4. Deciding'
    BY <1>1 DEF IInv, Deciding, Harmless
  <1>5. Unspent' /\ OneSpender' /\ Spent'
    BY <1>1 DEF IInv, Unspent, OneSpender, Spends, Spent, Harmless
  <1> QED
    BY <1>2, <1>3, <1>4, <1>5

-----------------------------------------------------------------------------
(* The scanner and the bridge.                                               *)

LEMMA RecordStep == ASSUME IInv, NEW s \in Scanner, Record(s) PROVE IInv'
  <1>1. TypeOK'
    BY DEF IInv, TypeOK, Record
  <1>2. OneActive' /\ Asked'
    BY DEF IInv, TypeOK, OneActive, Active, Asked, Record
  <1> QED
    BY <1>1, <1>2, RequestsKept DEF IInv, Record

LEMMA OfferStep == ASSUME IInv, NEW s \in Scanner, Offer(s) PROVE IInv'
  <1>1. TypeOK'
    BY DEF IInv, TypeOK, Offer
  <1>2. OneActive' /\ Asked'
    BY DEF IInv, TypeOK, OneActive, Active, Asked, Offer
  <1> QED
    BY <1>1, <1>2, RequestsKept DEF IInv, Offer

\* The signal has no approval, so no request is about it.
LEMMA SubmitAtOnceStep == ASSUME IInv, NEW s \in Scanner, SubmitAtOnce(s) PROVE IInv'
  <1>1. PICK made \in {0, 1} : orders' = [orders EXCEPT ![s] = @ + made]
    BY DEF SubmitAtOnce
  <1>2. approval[s] = "none" /\ orders[s] = 0
    BY DEF IInv, Asked, SubmitAtOnce
  <1>3. TypeOK'
    BY <1>1 DEF IInv, TypeOK, SubmitAtOnce
  <1>4. OneActive' /\ Asked'
    BY <1>1, <1>2 DEF IInv, TypeOK, OneActive, Active, Asked, SubmitAtOnce
  <1>5. Serving' /\ OneHolder' /\ Deciding' /\ OneSpender'
    BY DEF IInv, Serving, OneHolder, Holds, Deciding, OneSpender, Spends, SubmitAtOnce
  <1>6. Unspent' /\ AtMostOnce' /\ AnswerIsKept'
    BY <1>1, <1>2 DEF IInv, TypeOK, Unspent, Spends, AtMostOnce, AnswerIsKept, SubmitAtOnce
  <1>7. Spent'
    BY <1>1, <1>2, RefType DEF IInv, TypeOK, Spent, Spends, SubmitAtOnce
  <1> QED
    BY <1>3, <1>4, <1>5, <1>6, <1>7 DEF IInv

LEMMA AskStep == ASSUME IInv, NEW s \in Scanner, Ask(s) PROVE IInv'
  <1>1. approval[s] = "none" /\ orders[s] = 0
    BY DEF IInv, Asked, Ask
  <1>2. \A h \in Hook : hook[h].pc # "idle" => Ref(h) # s
    BY <1>1, RefType
  <1>3. TypeOK'
    BY DEF IInv, TypeOK, Status, Ask
  <1>4. OneActive' /\ Asked'
    BY DEF IInv, TypeOK, OneActive, Active, Asked, Ask
  <1>5. Serving' /\ OneHolder' /\ OneSpender'
    BY DEF IInv, Serving, OneHolder, Holds, OneSpender, Spends, Ask
  <1>6. Deciding' /\ Unspent' /\ Spent'
    BY <1>1, <1>2 DEF IInv, TypeOK, Deciding, Unspent, Spends, Spent, Ask
  <1>7. AtMostOnce' /\ AnswerIsKept'
    BY <1>1 DEF IInv, TypeOK, AtMostOnce, AnswerIsKept, Ask
  <1> QED
    BY <1>3, <1>4, <1>5, <1>6, <1>7 DEF IInv

LEMMA SendQuestionStep == ASSUME IInv, NEW s \in Scanner, SendQuestion(s) PROVE IInv'
  <1>1. TypeOK'
    BY FaultType DEF IInv, TypeOK, SendQuestion
  <1>2. OneActive' /\ Asked'
    BY DEF IInv, TypeOK, OneActive, Active, Asked, SendQuestion
  <1> QED
    BY <1>1, <1>2, RequestsKept DEF IInv, SendQuestion

\* BLOCKED is written over whatever the row has become, but not while a
\* request is deciding it.
LEMMA BlockUndeliveredStep == ASSUME IInv, NEW s \in Scanner, BlockUndelivered(s) PROVE IInv'
  <1>1. \A h \in Hook : hook[h].pc = "decide" => Ref(h) # s
    BY DEF BlockUndelivered, Unlocked, Holds
  <1>2. TypeOK'
    BY DEF IInv, TypeOK, Status, BlockUndelivered
  <1>3. OneActive' /\ Asked'
    BY DEF IInv, TypeOK, OneActive, Active, Asked, BlockUndelivered
  <1>4. Serving' /\ OneHolder' /\ OneSpender'
    BY DEF IInv, Serving, OneHolder, Holds, OneSpender, Spends, BlockUndelivered
  <1>5. Deciding' /\ Unspent'
    BY <1>1 DEF IInv, TypeOK, Deciding, Unspent, Spends, BlockUndelivered
  <1>6. Spent' /\ AtMostOnce'
    BY DEF IInv, TypeOK, Spent, Spends, AtMostOnce, BlockUndelivered
  <1>7. AnswerIsKept'
    BY DEF IInv, TypeOK, Asked, AnswerIsKept, BlockUndelivered
  <1> QED
    BY <1>2, <1>3, <1>4, <1>5, <1>6, <1>7 DEF IInv

LEMMA ScannerCrashStep == ASSUME IInv, NEW s \in Scanner, ScannerCrash(s) PROVE IInv'
  <1>1. TypeOK'
    BY FaultType DEF IInv, TypeOK, ScannerCrash
  <1>2. OneActive' /\ Asked'
    BY DEF IInv, TypeOK, OneActive, Active, Asked, ScannerCrash
  <1> QED
    BY <1>1, <1>2, RequestsKept DEF IInv, ScannerCrash

-----------------------------------------------------------------------------
(* The webhook and its surroundings.                                         *)

LEMMA PressStep ==
    ASSUME IInv, NEW t \in Tap, NEW s \in Scanner, NEW action \in Action, Press(t, s, action)
    PROVE  IInv'
  <1>1. \A u \in Tap : tap[u].at # "unused" => tap'[u] = tap[u]
    BY DEF IInv, TypeOK, Press
  <1>2. TypeOK'
    BY DEF IInv, TypeOK, Press
  <1>3. OneActive' /\ Asked'
    BY DEF IInv, TypeOK, OneActive, Active, Asked, Press
  <1>4. \A h \in Hook : hook[h].pc # "idle" => tap'[Served(h)] = tap[Served(h)]
    BY <1>1, RefType
  <1>5. Serving' /\ OneHolder' /\ Deciding' /\ Unspent' /\ OneSpender' /\ Spent'
    BY <1>4 DEF IInv, Serving, OneHolder, Holds, Deciding, Unspent, OneSpender, Spends, Spent, Press
  <1>6. AtMostOnce' /\ AnswerIsKept'
    BY <1>1 DEF IInv, TypeOK, AtMostOnce, AnswerIsKept, Press
  <1> QED
    BY <1>2, <1>3, <1>5, <1>6 DEF IInv

LEMMA ExpireStep == ASSUME IInv, NEW s \in Scanner, Expire(s) PROVE IInv'
  <1>1. TypeOK'
    BY DEF IInv, TypeOK, Expire
  <1> QED
    BY <1>1, RequestsKept, SignalKept DEF IInv, Expire

LEMMA DeliverStep == ASSUME IInv, NEW h \in Hook, NEW t \in Tap, Deliver(h, t) PROVE IInv'
  <1> DEFINE k == [pc |-> IF t \in seen THEN "finish" ELSE "claim", tap |-> t]
  <1>1. hook' = [hook EXCEPT ![h] = k] /\ k.pc \in Harmless \ {"close"} /\ k.tap = t
        /\ tap[t].at # "unused"
    BY DEF Deliver, Harmless
  <1>2. TypeOK'
    BY DEF IInv, TypeOK, Request, Deliver
  <1> HIDE DEF k
  <1>3. Serving' /\ OneHolder' /\ Deciding' /\ Unspent' /\ OneSpender' /\ Spent'
    BY <1>1, HookMoves DEF Deliver
  <1> QED
    BY <1>2, <1>3, SignalKept DEF IInv, Deliver

LEMMA ClaimStep == ASSUME IInv, NEW h \in Hook, Claim(h) PROVE IInv'
  <1> DEFINE k == IF Served(h) \in seen THEN Idle ELSE [hook[h] EXCEPT !.pc = "load"]
  <1>1. hook \in [Hook -> Request] /\ hook[h].pc # "idle"
    BY DEF IInv, TypeOK, Claim
  <1>2. /\ hook' = [hook EXCEPT ![h] = k] /\ k.pc \in Harmless \ {"close"}
        /\ k.pc = "idle" \/ k.tap = Served(h)
        /\ UNCHANGED <<approval, orders, tap>>
    BY <1>1 DEF Claim, Request, Harmless
  <1>3. TypeOK'
    BY <1>1 DEF IInv, TypeOK, Request, Claim
  <1> HIDE DEF k
  <1>4. Serving' /\ OneHolder' /\ Deciding' /\ Unspent' /\ OneSpender' /\ Spent'
    <2>1. Served(h) \in Tap /\ tap[Served(h)].at # "unused"
      BY <1>1, RefType
    <2>2. k.pc = "idle" \/ (k.tap \in Tap /\ tap[k.tap].at # "unused")
      BY <1>2, <2>1
    <2> QED
      BY <1>2, <2>2, HookMoves
  <1> QED
    BY <1>3, <1>4, SignalKept DEF IInv, Claim

\* A row that is not terminal is PENDING, and from here on it is this request's.
LEMMA LoadStep == ASSUME IInv, NEW h \in Hook, Load(h) PROVE IInv'
  <1>1. hook \in [Hook -> Request] /\ hook[h].pc = "load" /\ Unlocked(Ref(h))
    BY DEF IInv, TypeOK, Load
  <1>2. /\ Ref(h) \in Scanner /\ approval[Ref(h)] \in Status \ {"none"}
        /\ Served(h) \in Tap /\ tap[Served(h)].at # "unused"
    BY <1>1, RefType DEF IInv, TypeOK
  <1>3. TypeOK'
    BY <1>1 DEF IInv, TypeOK, Request, Load
  <1>4. Serving' /\ Unspent' /\ OneSpender' /\ Spent'
    BY <1>1, <1>2 DEF IInv, Serving, Unspent, OneSpender, Spends, Spent, Load
  <1>5. OneHolder'
    BY <1>1, <1>2 DEF IInv, OneHolder, Holds, Unlocked, Load
  <1>6. Deciding'
    BY <1>1, <1>2 DEF IInv, Deciding, Status, TERMINAL_STATUSES, Load
  <1> QED
    BY <1>3, <1>4, <1>5, <1>6, SignalKept DEF IInv, Load

LEMMA UnreachableStep == ASSUME IInv, NEW h \in Hook, Unreachable(h) PROVE IInv'
  <1> DEFINE k == [hook[h] EXCEPT !.pc = "unreached"]
  <1>1. hook \in [Hook -> Request] /\ hook[h].pc # "idle"
    BY DEF IInv, TypeOK, Unreachable
  <1>2. hook' = [hook EXCEPT ![h] = k] /\ k.pc \in Harmless \ {"close"} /\ k.tap = Served(h)
    BY <1>1 DEF Unreachable, Request, Harmless
  <1>3. TypeOK'
    BY <1>1, FaultType DEF IInv, TypeOK, Request, Unreachable
  <1> HIDE DEF k
  <1>4. Serving' /\ OneHolder' /\ Deciding' /\ Unspent' /\ OneSpender' /\ Spent'
    BY <1>1, <1>2, RefType, HookMoves DEF Unreachable
  <1> QED
    BY <1>3, <1>4, SignalKept DEF IInv, Unreachable

LEMMA CloseStep == ASSUME IInv, NEW h \in Hook, Close(h) PROVE IInv'
  <1> DEFINE k == [hook[h] EXCEPT !.pc = "finish"]
  <1>1. hook \in [Hook -> Request] /\ hook[h].pc # "idle"
    BY DEF IInv, TypeOK, Close
  <1>2. hook' = [hook EXCEPT ![h] = k] /\ k.pc \in Harmless \ {"close"} /\ k.tap = Served(h)
    BY <1>1 DEF Close, Request, Harmless
  <1>3. TypeOK'
    BY <1>1, RefType DEF IInv, TypeOK, Request, Close
  <1> HIDE DEF k
  <1>4. Serving' /\ OneHolder' /\ Deciding' /\ Unspent' /\ OneSpender' /\ Spent'
    BY <1>1, <1>2, RefType, HookMoves DEF Close
  <1> QED
    BY <1>3, <1>4, SignalKept DEF IInv, Close

LEMMA HookCrashStep == ASSUME IInv, NEW h \in Hook, HookCrash(h) PROVE IInv'
  <1>1. TypeOK'
    BY FaultType DEF IInv, TypeOK, Request, HookCrash
  <1>2. Serving' /\ OneHolder' /\ Deciding' /\ Unspent' /\ OneSpender' /\ Spent'
    <2> DEFINE k == Idle
    <2>1. /\ hook' = [hook EXCEPT ![h] = k] /\ k.pc = "idle" /\ k.pc \in Harmless
          /\ UNCHANGED <<approval, orders, tap>>
      BY DEF HookCrash, Harmless
    <2> HIDE DEF k
    <2> QED
      BY <2>1, HookMoves
  <1> QED
    BY <1>1, <1>2, SignalKept DEF IInv, HookCrash

-----------------------------------------------------------------------------
(* The decision, the submission and its report.                              *)

\* Whoever decides holds a row that is PENDING, so that nobody spends it and
\* nobody else decides it.
LEMMA DecideStep == ASSUME IInv, NEW h \in Hook, Decide(h) PROVE IInv'
  <1>1. PICK status \in Verdict(h) :
          /\ approval' = [approval EXCEPT ![Ref(h)] = status]
          /\ HookTo(h, IF status = "APPROVED" THEN "submit" ELSE "finish")
    BY DEF Decide
  <1>2. /\ hook \in [Hook -> Request] /\ approval \in [Scanner -> Status]
        /\ orders \in [Scanner -> Nat] /\ tap[Served(h)].action \in Action
    BY RefType DEF IInv, TypeOK, Decide
  <1>3. /\ Ref(h) \in Scanner /\ approval[Ref(h)] = "PENDING" /\ orders[Ref(h)] = 0
        /\ Served(h) \in Tap /\ tap[Served(h)].at # "unused"
        /\ \A g \in Hook : Spends(g) => Ref(g) # Ref(h)
    BY RefType DEF IInv, Deciding, Unspent, Decide
  <1>4. /\ status \in {"EXPIRED", "REJECTED", "BLOCKED", "APPROVED"}
        /\ status = "APPROVED" => tap[Served(h)].action = "approve"
    BY <1>2 DEF Verdict, Action
  <1>5. \A g \in Hook : hook[g].pc = "decide" /\ g # h => Ref(g) # Ref(h)
    BY DEF IInv, OneHolder, Holds, Decide
  <1>6. TypeOK'
    BY <1>1, <1>3, <1>4 DEF IInv, TypeOK, Status, Request, Decide
  <1>7. OneActive' /\ Asked'
    BY <1>1, <1>2, <1>3, <1>4 DEF IInv, OneActive, Active, Asked, Decide
  <1>8. Serving' /\ OneHolder'
    BY <1>1, <1>2, <1>3 DEF IInv, Serving, OneHolder, Holds, Decide
  <1>9. Deciding'
    BY <1>1, <1>2, <1>5 DEF IInv, Deciding, Decide
  <1>10. Unspent' /\ OneSpender'
    BY <1>1, <1>2, <1>3, <1>4 DEF IInv, Unspent, OneSpender, Spends, Decide
  <1>11. Spent'
    BY <1>1, <1>2, <1>3, <1>4 DEF IInv, Spent, Spends, Decide
  <1>12. AtMostOnce' /\ AnswerIsKept'
    BY <1>1, <1>2, <1>3 DEF IInv, AtMostOnce, AnswerIsKept, Decide
  <1> QED
    BY <1>6, <1>7, <1>8, <1>9, <1>10, <1>11, <1>12 DEF IInv

\* Only this request spends the row, and nothing was sent for it yet.
LEMMA SubmitStep == ASSUME IInv, NEW h \in Hook, Submit(h) PROVE IInv'
  <1>1. PICK made \in {0, 1} :
          /\ orders' = [orders EXCEPT ![Ref(h)] = @ + made]
          /\ \/ HookTo(h, IF made = 1 THEN "sent" ELSE "refused") /\ NoFault
             \/ HookTo(h, "finish") /\ Fault
    BY DEF Submit
  <1>2. PICK pc \in {"sent", "refused", "finish"} : hook' = [hook EXCEPT ![h].pc = pc]
    BY <1>1
  <1>3. /\ hook \in [Hook -> Request] /\ hook[h].pc = "submit"
        /\ orders \in [Scanner -> Nat] /\ tap \in [Tap -> [ref : Scanner, action : Action, at : {"out", "done"}] \cup {NotTapped}]
    BY DEF IInv, TypeOK, Submit
  <1>4. /\ Ref(h) \in Scanner /\ orders[Ref(h)] = 0 /\ Served(h) \in Tap
        /\ tap[Served(h)].at # "unused" /\ tap[Served(h)].action = "approve"
        /\ approval[Ref(h)] \in {"APPROVED", "BLOCKED", "SUBMITTED"}
        /\ \A g \in Hook : hook[g].pc = "submit" /\ g # h => Ref(g) # Ref(h)
    BY <1>3, RefType DEF IInv, Spent, Spends, OneSpender
  <1>5. orders'[Ref(h)] = made /\ \A s \in Scanner : s # Ref(h) => orders'[s] = orders[s]
    BY <1>1, <1>3, <1>4
  <1>6. TypeOK'
    BY <1>1, <1>2, <1>3, <1>4, FaultType DEF IInv, TypeOK, Request, Submit
  <1>7. OneActive' /\ Asked'
    BY <1>4, <1>5 DEF IInv, OneActive, Active, Asked, Submit
  <1>8. Serving' /\ OneHolder' /\ Deciding' /\ OneSpender'
    BY <1>2, <1>3, <1>4 DEF IInv, Serving, OneHolder, Holds, Deciding, OneSpender, Spends, Submit
  <1>9. Unspent'
    BY <1>2, <1>3, <1>4, <1>5 DEF IInv, Unspent, Spends, Submit
  <1>10. Spent'
    BY <1>2, <1>3, <1>4, <1>5, RefType DEF IInv, Spent, Spends, Submit
  <1>11. AtMostOnce' /\ AnswerIsKept'
    BY <1>4, <1>5 DEF IInv, AtMostOnce, AnswerIsKept, Submit
  <1> QED
    BY <1>6, <1>7, <1>8, <1>9, <1>10, <1>11 DEF IInv

LEMMA ReportStep == ASSUME IInv, NEW h \in Hook, Report(h) PROVE IInv'
  <1>1. PICK status \in {"SUBMITTED", "BLOCKED"} : approval' = [approval EXCEPT ![Ref(h)] = status]
    BY DEF Report
  <1>2. /\ hook \in [Hook -> Request] /\ approval \in [Scanner -> Status]
        /\ hook' = [hook EXCEPT ![h].pc = "finish"] /\ Spends(h)
    BY DEF IInv, TypeOK, Spends, Report
  <1>3. /\ Ref(h) \in Scanner /\ Served(h) \in Tap /\ tap[Served(h)].at # "unused"
        /\ tap[Served(h)].action = "approve" /\ approval[Ref(h)] # "none"
        /\ \A g \in Hook : hook[g].pc = "decide" => Ref(g) # Ref(h)
    BY <1>2, RefType DEF IInv, Spent, Spends, Deciding
  <1>4. TypeOK'
    <2>1. approval' \in [Scanner -> Status]
      BY <1>1, <1>2 DEF Status
    <2>2. /\ hook' \in [Hook -> Request]
          /\ \A g \in Hook : Spends(g)' => Spends(g) /\ Served(g)' = Served(g)
      BY <1>2 DEF Request, Spends
    <2> QED
      BY <2>1, <2>2 DEF IInv, TypeOK, Spends, Report
  <1>5. OneActive' /\ Asked'
    BY <1>1, <1>2, <1>3 DEF IInv, OneActive, Active, Asked, Report
  <1>6. Serving' /\ OneHolder' /\ Deciding' /\ OneSpender'
    BY <1>1, <1>2, <1>3 DEF IInv, Serving, OneHolder, Holds, Deciding, OneSpender, Spends, Report
  <1>7. Unspent' /\ Spent'
    BY <1>1, <1>2, <1>3, RefType DEF IInv, Unspent, Spends, Spent, Report
  <1>8. AtMostOnce' /\ AnswerIsKept'
    BY <1>1, <1>2, <1>3 DEF IInv, AtMostOnce, AnswerIsKept, Report
  <1> QED
    BY <1>4, <1>5, <1>6, <1>7, <1>8 DEF IInv

LEMMA FinishStep == ASSUME IInv, NEW h \in Hook, Finish(h) PROVE IInv'
  <1>0. UNCHANGED <<recorded, scan, approval, expired, shown, seen, orders>>
    BY DEF Finish
  <1>1. /\ hook \in [Hook -> Request]
        /\ tap \in [Tap -> [ref : Scanner, action : Action, at : {"out", "done"}] \cup {NotTapped}]
        /\ Served(h) \in Tap /\ tap[Served(h)].at # "unused"
    BY RefType DEF IInv, TypeOK, Finish
  <1>2. \A t \in Tap :
          /\ tap'[t].ref = tap[t].ref
          /\ tap'[t].action = tap[t].action
          /\ tap'[t].at # "unused" <=> tap[t].at # "unused"
    BY <1>1 DEF Finish
  <1>3. TypeOK'
    BY <1>1, FaultType DEF IInv, TypeOK, Request, Finish
  <1>4. OneActive' /\ Asked'
    BY <1>0, <1>2 DEF IInv, OneActive, Active, Asked
  <1>5. \A g \in Hook : hook'[g].pc # "idle" => hook'[g] = hook[g] /\ Served(g) \in Tap
    BY <1>1, RefType DEF Finish
  <1>6. Serving' /\ OneHolder' /\ Deciding'
    BY <1>0, <1>2, <1>5 DEF IInv, Serving, OneHolder, Holds, Deciding
  <1>7. Unspent' /\ OneSpender' /\ Spent'
    BY <1>0, <1>2, <1>5 DEF IInv, Unspent, OneSpender, Spends, Spent
  <1>8. AtMostOnce' /\ AnswerIsKept'
    BY <1>0, <1>2 DEF IInv, AtMostOnce, AnswerIsKept
  <1> QED
    BY <1>3, <1>4, <1>6, <1>7, <1>8 DEF IInv

LEMMA Stutter == ASSUME IInv, UNCHANGED vars PROVE IInv'
  BY RequestsKept, SignalKept DEF IInv, TypeOK, vars

LEMMA IInvNext == IInv /\ [Next]_vars => IInv'
  BY RecordStep, OfferStep, SubmitAtOnceStep, AskStep, SendQuestionStep, BlockUndeliveredStep,
     ScannerCrashStep, ExpireStep, PressStep, DeliverStep, ClaimStep, LoadStep, UnreachableStep,
     CloseStep, DecideStep, SubmitStep, ReportStep, FinishStep, HookCrashStep, Stutter
     DEF Next, ScannerStep, HookStep

-----------------------------------------------------------------------------
(* The theorems.                                                             *)

\* IInv holds in every reachable state.
THEOREM Invariant == Spec => []IInv
  BY IInvInit, IInvNext, PTL DEF Spec

\* Every reachable state is well typed.
THEOREM TypeCorrect == Spec => []TypeOK
  <1>1. IInv => TypeOK
    BY DEF IInv
  <1> QED
    BY <1>1, Invariant, PTL

\* One signal is at most one submission, however often it is found, asked
\* about, tapped or delivered (live_entry_bridge.py:154, live_approval.py:15).
THEOREM OneOrder_Holds == Spec => []OneOrder
  <1>1. IInv => OneOrder
    BY DEF IInv, AtMostOnce, OneActive, Active, OneOrder
  <1> QED
    BY <1>1, Invariant, PTL

\* What was sent for a question was approved by a tap, and a question refused,
\* expired or unanswered sent nothing (live_approval.py:8-24).
THEOREM AnswerIsKept_Holds == Spec => []AnswerIsKept
  <1>1. IInv => AnswerIsKept
    BY DEF IInv
  <1> QED
    BY <1>1, Invariant, PTL
=============================================================================
