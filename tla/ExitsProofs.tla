----------------------------- MODULE ExitsProofs -----------------------------
(***************************************************************************)
(* Proofs about the two ends of a strategy's trade: the candles that lead    *)
(* to its signal (Scanner) and the candles it is left on (TradeExit).        *)
(*                                                                         *)
(* The scanner's invariant ScanInv has a part for each property: who offers  *)
(* a signal recorded it alone (Once); a word of a setup is of one that is    *)
(* alive, also on its way to Redis (Alive); an answer from before the        *)
(* ranking is older than it (Applied).  The trade's, TradeInv, says that     *)
(* every unit bought is held or was sold by one leg, with a bracket for all  *)
(* of it until one is sold, and that the clock's order asks for all that is  *)
(* held unless the entry bought since (Managed: Kept, Timely); that the stop *)
(* is never behind its plan, and where it is tells what moved it (Grounded); *)
(* and that the backtest holds the trade at the same stop until both leave   *)
(* it, unless something it does not measure happened (Measured).             *)
(***************************************************************************)
EXTENDS MCExits, TLAPS

-----------------------------------------------------------------------------
(* The scanner.                                                              *)

Words == {"AWAITING", "SIGNALLED"} \cup Scan!Side
PCs   == {"idle", "look", "assign", "judge", "read", "quota", "write", "evaluation", "record", "offer"}

\* What a coroutine holds at each point of its way.
Fields(t) ==
    /\ t.pc \in PCs
    /\ t.pc \in {"look", "assign", "judge", "read"} =>
          t.i \in Instrument /\ t.k \in 1..now /\ t.beside \in BOOLEAN
    /\ t.pc = "assign" => t.tokens \in {{}, ranked.tokens}
    /\ t.pc \in {"read", "quota", "write"} => t.i \in Instrument /\ t.v \in Scan!Version
    /\ t.pc \in {"quota", "write"} =>
          /\ t.to \in Words /\ t.side \in Scan!Side \cup {"none"}
          /\ t.from \subseteq Scan!Side /\ t.setups \subseteq Scan!Side
    /\ t.pc \in {"evaluation", "record", "offer"} => t.key \in Scan!Key

Typed ==
    /\ Scan!TypeOK
    /\ now \in Nat /\ LastMinute \in Nat
    /\ ranked.at = 0 <=> ranked.tokens = {}
    /\ state = [i \in Instrument |-> [v \in Scan!Version |-> state[i][v]]]
    /\ task = [h \in Handler |-> task[h]]
    /\ \A h \in Handler : Fields(task[h])

LEMMA ScanInitTyped == Scan!Init => Typed
  BY ScanAssumption DEF Scan!Init, Typed, Scan!TypeOK, Fields, PCs, Scan!Idle, Scan!Version, Scan!Key

\* What a candle may say.
LEMMA Says ==
  ASSUME kind \in Kind, NEW x \in Scan!SaysOf(kind)
  PROVE  x.arms \in BOOLEAN /\ x.breaks \in BOOLEAN /\ x.confirms \in BOOLEAN
  <1>. DEFINE Some == x \in [arms : BOOLEAN, breaks : BOOLEAN, confirms : BOOLEAN]
  <1>0. \A a, b, c \in BOOLEAN : Scan!Says(a, b, c) \in [arms : BOOLEAN, breaks : BOOLEAN, confirms : BOOLEAN]
    BY DEF Scan!Says
  <1>1. ASSUME kind = "orb"  PROVE Some
    <2>1. x \in Scan!orb_retest
      BY <1>1 DEF Scan!SaysOf
    <2>2. x = Scan!Says(TRUE, FALSE, TRUE) \/ x = Scan!Says(TRUE, FALSE, FALSE) \/ x = Scan!Says(FALSE, FALSE, FALSE)
      BY <2>1, Zenon DEF Scan!orb_retest
    <2>. QED  BY <1>0, <2>2
  <1>2. ASSUME kind = "vwap"  PROVE Some
    <2>1. x \in Scan!vwap_pullback
      BY <1>2 DEF Scan!SaysOf
    <2>2. x \in [arms : BOOLEAN, breaks : {FALSE}, confirms : BOOLEAN] \/ x = Scan!Says(TRUE, TRUE, FALSE)
      BY <2>1 DEF Scan!vwap_pullback
    <2>. QED  BY <1>0, <2>2
  <1>3. ASSUME kind = "rs"  PROVE Some
    <2>1. x \in Scan!rs_pullback
      BY <1>3 DEF Scan!SaysOf
    <2>. QED  BY <2>1 DEF Scan!rs_pullback
  <1>4. ASSUME kind = "ema"  PROVE Some
    <2>1. x \in Scan!ema_momentum
      BY <1>4 DEF Scan!SaysOf
    <2>2. x = Scan!Says(FALSE, FALSE, TRUE)
      BY <2>1, Zenon DEF Scan!ema_momentum
    <2>. QED  BY <1>0, <2>2
  <1>5. Some
    BY <1>1, <1>2, <1>3, <1>4, ScanAssumption
  <1>. QED  BY <1>5

LEMMA Candles ==
  ASSUME NEW c \in Scan!Candle, kind \in Kind
  PROVE  /\ c.toward \in Scan!Side \cup {"none", "lapse"}
         /\ c.says.arms \in BOOLEAN /\ c.says.breaks \in BOOLEAN /\ c.says.confirms \in BOOLEAN
         /\ c.refused \in BOOLEAN
         /\ c.says.arms \/ c.says.confirms => c.toward \in Scan!Side
  <1>1. CASE \E s \in Scan!Side, x \in Scan!SaysOf(kind), r \in BOOLEAN : c = [toward |-> s, says |-> x, refused |-> r]
    BY <1>1, Says
  <1>2. Scan!Neither.toward = "none" /\ Scan!Neither.says = Scan!Says(FALSE, TRUE, FALSE)
    BY DEF Scan!Neither
  <1>3. Scan!Neither.refused = FALSE
    BY DEF Scan!Neither
  <1>4. Scan!Unusable.toward = "lapse" /\ Scan!Unusable.says = Scan!Says(FALSE, TRUE, FALSE)
    BY DEF Scan!Unusable
  <1>5. Scan!Unusable.refused = FALSE
    BY DEF Scan!Unusable
  <1>6. LET x == Scan!Says(FALSE, TRUE, FALSE) IN x.arms = FALSE /\ x.breaks = TRUE /\ x.confirms = FALSE
    BY Zenon DEF Scan!Says
  <1>7. CASE c = Scan!Neither
    BY <1>2, <1>3, <1>6, <1>7
  <1>8. CASE c = Scan!Unusable
    BY <1>4, <1>5, <1>6, <1>8
  <1>. QED  BY <1>1, <1>7, <1>8 DEF Scan!Candle

\* What it makes of a setup.
LEMMA Decisions ==
  ASSUME NEW c \in Scan!Candle, kind \in Kind, NEW prior \in Words, NEW d, d = Scan!Evaluate(c, prior)
  PROVE  /\ d.to \in Words /\ d.side \in Scan!Side \cup {"none"}
         /\ d.side # "none" => d.to = "SIGNALLED" /\ (kind = "ema" \/ d.side = prior)
         /\ d.to \in Scan!Side => /\ kind # "ema" /\ c # Scan!Unusable
                                  /\ \/ Scan!Arms(c, d.to)
                                     \/ d.to = prior /\ ~Scan!Breaks(c, prior) /\ ~Scan!Confirms(c, prior)
  <1>. USE Candles DEF Scan!Side, Words
  <1>1. CASE c = Scan!Unusable
    <2>1. d = Scan!Awaiting
      BY <1>1 DEF Scan!Evaluate
    <2>. QED  BY <2>1 DEF Scan!Awaiting
  <1>2. CASE c # Scan!Unusable /\ prior = "SIGNALLED"
    <2>1. d = [to |-> "SIGNALLED", side |-> "none"]
      BY <1>2 DEF Scan!Evaluate
    <2>. QED  BY <2>1
  <1>3. CASE c # Scan!Unusable /\ prior # "SIGNALLED" /\ kind = "ema"
    <2>1. d = Scan!Awaiting \/ (c.toward \in Scan!Side /\ d = Scan!Signals(c.toward))
      BY <1>3 DEF Scan!Evaluate
    <2>. QED  BY <1>3, <2>1 DEF Scan!Awaiting, Scan!Signals
  <1>4. CASE c # Scan!Unusable /\ kind # "ema" /\ prior = "AWAITING"
    <2>1. d = Scan!Awaiting \/ (c.says.arms /\ d = Scan!Holds(c.toward))
      BY <1>4 DEF Scan!Evaluate
    <2>. QED  BY <1>4, <2>1 DEF Scan!Awaiting, Scan!Holds, Scan!Arms
  <1>5. CASE c # Scan!Unusable /\ kind # "ema" /\ prior \in Scan!Side
    <2>1. \/ d = Scan!Awaiting \/ d = Scan!Signals(prior)
          \/ ~Scan!Invalidated(c, prior) /\ ~Scan!Confirms(c, prior) /\ d = Scan!Holds(prior)
      BY <1>5 DEF Scan!Evaluate
    <2>. QED  BY <1>5, <2>1 DEF Scan!Awaiting, Scan!Holds, Scan!Signals, Scan!Invalidated
  <1>. QED  BY <1>1, <1>2, <1>3, <1>4, <1>5

\* One coroutine goes on.
LEMMA Goes ==
  ASSUME Typed, NEW h \in Handler, NEW t, Fields(t), Scan!Goto(h, t), ranked' = ranked, now' = now
  PROVE  /\ task' = [g \in Handler |-> task'[g]]
         /\ \A g \in Handler : Fields(task[g])'
  <1>1. task' = [g \in Handler |-> IF g = h THEN t ELSE task[g]]
    BY DEF Scan!Goto, Typed
  <1>2. ASSUME NEW g \in Handler  PROVE Fields(task[g])'
    <2>1. task'[g] = t \/ task'[g] = task[g]
      BY <1>1
    <2>. QED  BY <2>1 DEF Typed, Fields
  <1>. QED  BY <1>1, <1>2

LEMMA ScanStepTyped ==
  ASSUME Typed, [Scan!Next]_scan
  PROVE  Typed'
  <1>. USE DEF Scan!records, Scan!clock
  <1>1. CASE Scan!Advance
    BY <1>1 DEF Scan!Advance, Scan!TypeOK, Typed, Fields
  <1>2. CASE Scan!Rank
    <2>1. ranked.at = 0 /\ ranked.tokens = {} /\ ranked'.at = now /\ ranked'.tokens \in Ranking /\ now # 0 /\ now' = now
      BY <1>2 DEF Scan!Rank, Typed, Scan!TypeOK
    <2>2. Scan!TypeOK'
      BY <1>2, <2>1 DEF Scan!Rank, Scan!TypeOK, Typed
    <2>3. ASSUME NEW h \in Handler  PROVE Fields(task[h])'
      BY <1>2, <2>1 DEF Scan!Rank, Typed, Fields
    <2>. QED  BY <1>2, <2>1, <2>2, <2>3, ScanAssumption DEF Scan!Rank, Typed
  <1>3. CASE Scan!Save
    BY <1>3, ScanAssumption DEF Scan!Save, Scan!TypeOK, Scan!Version, Typed, Fields
  <1>4. CASE Scan!Crash
    <2>1. ASSUME NEW h \in Handler  PROVE Fields(task[h])'
      BY <1>4 DEF Scan!Crash, Fields, PCs, Scan!Idle
    <2>. QED  BY <1>4, <2>1 DEF Scan!Crash, Scan!TypeOK, Typed
  <1>5. ASSUME NEW h \in Handler, Scan!Step(h)  PROVE Typed'
    <2>0. Fields(task[h])
      BY DEF Typed
    <2>i. Fields(Scan!Idle)
      BY DEF Fields, PCs, Scan!Idle
    <2>1. ASSUME NEW i \in Instrument, Scan!Arrive(h, i)  PROVE Typed'
      <3>. DEFINE t == [pc |-> IF Scan!Known(now) THEN "judge" ELSE "look", i |-> i, k |-> now,
                        beside |-> \E g \in Handler : Scan!At(g, "assign") /\ task[g].tokens = {}]
      <3>1. /\ t.pc \in {"judge", "look"} /\ t.i = i /\ t.k = now
        OBVIOUS
      <3>2. t.beside \in BOOLEAN
        OBVIOUS
      <3>3. Scan!Goto(h, t)
        BY <2>1 DEF Scan!Arrive
      <3>. HIDE DEF t
      <3>4. Fields(t)
        BY <3>1, <3>2 DEF Fields, PCs, Typed, Scan!TypeOK
      <3>5. Scan!TypeOK'
        BY <2>1 DEF Scan!Arrive, Scan!TypeOK, Typed
      <3>. QED  BY <2>1, <3>3, <3>4, <3>5, Goes DEF Scan!Arrive, Typed
    <2>2. CASE Scan!LookUp(h)
      <3>. DEFINE t == [pc |-> "assign", i |-> task[h].i, k |-> task[h].k, beside |-> task[h].beside, tokens |-> ranked.tokens]
      <3>1. Fields(t)
        BY <2>2, <2>0 DEF Scan!LookUp, Scan!At, Fields, PCs
      <3>2. Scan!Goto(h, t)
        BY <2>2 DEF Scan!LookUp
      <3>3. Scan!TypeOK'
        BY <2>2 DEF Scan!LookUp, Scan!TypeOK, Typed
      <3>. HIDE DEF t
      <3>. QED  BY <2>2, <3>1, <3>2, <3>3, Goes DEF Scan!LookUp, Typed
    <2>3. CASE Scan!Assign(h)
      <3>. DEFINE t == [pc |-> "judge", i |-> task[h].i, k |-> task[h].k, beside |-> task[h].beside]
      <3>1. Fields(t)
        BY <2>3, <2>0 DEF Scan!Assign, Scan!At, Fields, PCs
      <3>2. Scan!Goto(h, t)
        BY <2>3 DEF Scan!Assign
      <3>3. Scan!TypeOK'
        BY <2>3, <2>0 DEF Scan!Assign, Scan!At, Scan!TypeOK, Typed, Fields
      <3>. HIDE DEF t
      <3>. QED  BY <2>3, <3>1, <3>2, <3>3, Goes DEF Scan!Assign, Typed
    <2>4. CASE Scan!Judge(h)
      <3>. DEFINE t == [pc |-> "read", i |-> task[h].i, k |-> task[h].k, v |-> version, beside |-> task[h].beside]
      <3>1. Fields(t)
        BY <2>4, <2>0 DEF Scan!Judge, Scan!At, Fields, PCs, Typed, Scan!TypeOK
      <3>2. Scan!Goto(h, t) \/ Scan!Goto(h, Scan!Idle)
        BY <2>4 DEF Scan!Judge
      <3>3. Scan!TypeOK'
        BY <2>4 DEF Scan!Judge, Scan!TypeOK, Typed
      <3>. HIDE DEF t
      <3>. QED  BY <2>4, <2>i, <3>1, <3>2, <3>3, Goes DEF Scan!Judge, Typed
    <2>5. ASSUME NEW c \in Scan!Candle, Scan!Read(h, c)  PROVE Typed'
      <3>. DEFINE prior == state[task[h].i][task[h].v]
                  d     == Scan!Evaluate(c, prior.at)
                  t     == [pc |-> IF d.to = "SIGNALLED" THEN "quota" ELSE "write", i |-> task[h].i, k |-> task[h].k,
                            v |-> task[h].v, to |-> d.to, side |-> d.side, from |-> prior.setups,
                            setups |-> Scan!Setups(c, prior.setups)]
      <3>1. task[h].i \in Instrument /\ task[h].v \in Scan!Version
        BY <2>5, <2>0 DEF Scan!Read, Scan!At, Fields
      <3>2. prior.at \in Words /\ prior.setups \subseteq Scan!Side
        BY <3>1 DEF Typed, Scan!TypeOK, Words
      <3>3. kind \in Kind
        BY DEF Typed, Scan!TypeOK
      <3>4. d.to \in Words /\ d.side \in Scan!Side \cup {"none"}
        BY <3>2, <3>3, Decisions
      <3>5. Scan!Setups(c, prior.setups) \subseteq Scan!Side
        BY <3>2 DEF Scan!Setups
      <3>. HIDE DEF d, prior
      <3>6. Fields(t)
        BY <3>1, <3>2, <3>4, <3>5 DEF Fields, PCs
      <3>7. Scan!Goto(h, t)
        BY <2>5 DEF Scan!Read, d, prior
      <3>. HIDE DEF t
      <3>8. Scan!TypeOK'
        BY <2>5 DEF Scan!Read, Scan!TypeOK, Typed
      <3>. QED  BY <2>5, <3>6, <3>7, <3>8, Goes DEF Scan!Read, Typed
    <2>6. CASE Scan!Quota(h)
      <3>. DEFINE t == [task[h] EXCEPT !.pc = "write"]
                  u == [task[h] EXCEPT !.pc = "write", !.to = "AWAITING", !.side = "none"]
      <3>1. Scan!Goto(h, t) \/ Scan!Goto(h, u)
        BY <2>6 DEF Scan!Quota
      <3>2. Fields(t)
        BY <2>6, <2>0 DEF Scan!Quota, Scan!At, Fields, PCs
      <3>3. Fields(u)
        BY <2>6, <2>0 DEF Scan!Quota, Scan!At, Fields, PCs, Words
      <3>4. Scan!TypeOK'
        BY <2>6 DEF Scan!Quota, Scan!TypeOK, Typed
      <3>. HIDE DEF t, u
      <3>. QED  BY <2>6, <3>1, <3>2, <3>3, <3>4, Goes DEF Scan!Quota, Typed
    <2>7. CASE Scan!Write(h)
      <3>. DEFINE t == [pc |-> "evaluation", key |-> <<task[h].i, task[h].v, task[h].side>>, k |-> task[h].k]
                  r == [at |-> task[h].to, setups |-> task[h].setups]
      <3>1. /\ task[h].i \in Instrument /\ task[h].v \in Scan!Version /\ r.at \in Words /\ r.setups \subseteq Scan!Side
            /\ task[h].side \in Scan!Side \cup {"none"}
        BY <2>7, <2>0 DEF Scan!Write, Scan!At, Fields
      <3>2. task[h].side # "none" => Fields(t)
        BY <3>1 DEF Fields, PCs, Scan!Key
      <3>3. IF task[h].side = "none" THEN Scan!Goto(h, Scan!Idle) ELSE Scan!Goto(h, t)
        BY <2>7 DEF Scan!Write
      <3>4. state' = [state EXCEPT ![task[h].i][task[h].v] = r]
        BY <2>7 DEF Scan!Write
      <3>. HIDE DEF t, r
      <3>5. state' = [i \in Instrument |-> [v \in Scan!Version |-> IF i = task[h].i /\ v = task[h].v THEN r ELSE state[i][v]]]
        BY <3>1, <3>4 DEF Typed
      <3>6. Scan!TypeOK'
        BY <2>7, <3>1, <3>5 DEF Scan!Write, Scan!TypeOK, Typed, Words
      <3>. QED  BY <2>7, <2>i, <3>2, <3>3, <3>5, <3>6, Goes DEF Scan!Write, Typed
    <2>8. CASE Scan!RecordEvaluation(h)
      <3>. DEFINE t == [pc |-> "record", key |-> task[h].key]
      <3>1. Fields(t)
        BY <2>8, <2>0 DEF Scan!RecordEvaluation, Scan!At, Fields, PCs
      <3>2. Scan!Goto(h, t)
        BY <2>8 DEF Scan!RecordEvaluation
      <3>3. Scan!TypeOK'
        BY <2>8 DEF Scan!RecordEvaluation, Scan!TypeOK, Typed
      <3>. HIDE DEF t
      <3>. QED  BY <2>8, <3>1, <3>2, <3>3, Goes DEF Scan!RecordEvaluation, Typed
    <2>9. CASE Scan!Record(h)
      <3>. DEFINE t == [pc |-> "offer", key |-> task[h].key]
      <3>1. Fields(t)
        BY <2>9, <2>0 DEF Scan!Record, Scan!At, Fields, PCs
      <3>2. Scan!Goto(h, t) \/ Scan!Goto(h, Scan!Idle)
        BY <2>9 DEF Scan!Record
      <3>3. Scan!TypeOK'
        BY <2>9, <2>0 DEF Scan!Record, Scan!At, Scan!TypeOK, Typed, Fields
      <3>. HIDE DEF t
      <3>. QED  BY <2>9, <2>i, <3>1, <3>2, <3>3, Goes DEF Scan!Record, Typed
    <2>10. CASE Scan!Offer(h)
      <3>1. task[h].key \in Scan!Key
        BY <2>10, <2>0 DEF Scan!Offer, Scan!At, Fields
      <3>0. offers' = [x \in Scan!Key |-> IF x = task[h].key THEN offers[x] + 1 ELSE offers[x]]
        BY <2>10 DEF Scan!Offer, Scan!TypeOK, Typed
      <3>2. offers' \in [Scan!Key -> Nat]
        BY <3>0 DEF Scan!Offer, Scan!TypeOK, Typed
      <3>3. Scan!TypeOK'
        BY <2>10, <3>2 DEF Scan!Offer, Scan!TypeOK, Typed
      <3>. QED  BY <2>10, <2>i, <3>3, Goes DEF Scan!Offer, Typed
    <2>11. CASE Scan!Raise(h)
      <3>1. Scan!TypeOK'
        BY <2>11 DEF Scan!Raise, Scan!TypeOK, Typed
      <3>. QED  BY <2>11, <2>i, <3>1, Goes DEF Scan!Raise, Typed
    <2>. QED  BY <1>5, <2>1, <2>2, <2>3, <2>4, <2>5, <2>6, <2>7, <2>8, <2>9, <2>10, <2>11 DEF Scan!Step
  <1>6. CASE UNCHANGED scan
    BY <1>6 DEF scan, Scan!TypeOK, Typed, Fields
  <1>. QED  BY <1>1, <1>2, <1>3, <1>4, <1>5, <1>6 DEF Scan!Next

LEMMA Moves ==
  ASSUME Typed, NEW h \in Handler, NEW t, Scan!Goto(h, t)
  PROVE  \A g \in Handler : task'[g] = IF g = h THEN t ELSE task[g]
  BY DEF Typed, Scan!Goto

\* Who offers a signal recorded it, alone.
Once ==
    /\ \A h \in Handler : task[h].pc = "offer" => task[h].key \in signals /\ offers[task[h].key] = 0
    /\ \A g, h \in Handler : task[g].pc = "offer" /\ task[h].pc = "offer" /\ task[g].key = task[h].key => g = h
    /\ \A x \in Scan!Key : offers[x] # 0 => x \in signals /\ offers[x] = 1

\* A coroutine that goes to anything but an offer.
LEMMA OnceGoes ==
  ASSUME Typed, Once, NEW h \in Handler, NEW t, Scan!Goto(h, t), t.pc # "offer",
         signals \subseteq signals', offers' = offers
  PROVE  Once'
  BY Moves DEF Once

LEMMA ScanStepOnce ==
  ASSUME Typed, Once, [Scan!Next]_scan
  PROVE  Once'
  <1>. USE DEF Scan!records, Scan!clock
  <1>1. CASE UNCHANGED <<signals, offers, task>>
    BY <1>1 DEF Once
  <1>2. CASE Scan!Crash
    BY <1>2 DEF Scan!Crash, Once, Scan!Idle
  <1>3. ASSUME NEW h \in Handler, Scan!Step(h)  PROVE Once'
    <2>1. ASSUME NEW i \in Instrument, Scan!Arrive(h, i)  PROVE Once'
      <3>. DEFINE t == [pc |-> IF Scan!Known(now) THEN "judge" ELSE "look", i |-> i, k |-> now,
                        beside |-> \E g \in Handler : Scan!At(g, "assign") /\ task[g].tokens = {}]
      <3>1. t.pc # "offer"
        OBVIOUS
      <3>2. Scan!Goto(h, t) /\ signals' = signals /\ offers' = offers
        BY <2>1 DEF Scan!Arrive
      <3>. HIDE DEF t
      <3>. QED  BY <3>1, <3>2, OnceGoes
    <2>2. CASE Scan!LookUp(h) \/ Scan!Assign(h) \/ Scan!Judge(h) \/ Scan!Write(h) \/ Scan!RecordEvaluation(h) \/ Scan!Raise(h)
      <3>1. \E t : t.pc # "offer" /\ Scan!Goto(h, t)
        BY <2>2 DEF Scan!LookUp, Scan!Assign, Scan!Judge, Scan!Write, Scan!RecordEvaluation, Scan!Raise, Scan!Idle
      <3>2. signals' = signals /\ offers' = offers
        BY <2>2 DEF Scan!LookUp, Scan!Assign, Scan!Judge, Scan!Write, Scan!RecordEvaluation, Scan!Raise
      <3>. QED  BY <3>1, <3>2, OnceGoes
    <2>3. ASSUME NEW c \in Scan!Candle, Scan!Read(h, c)  PROVE Once'
      <3>1. \E t : t.pc # "offer" /\ Scan!Goto(h, t)
        BY <2>3 DEF Scan!Read
      <3>2. signals' = signals /\ offers' = offers
        BY <2>3 DEF Scan!Read
      <3>. QED  BY <3>1, <3>2, OnceGoes
    <2>4. CASE Scan!Quota(h)
      <3>1. Fields(task[h]) /\ task[h].pc = "quota"
        BY <2>4 DEF Typed, Scan!Quota, Scan!At
      <3>2. [task[h] EXCEPT !.pc = "write"].pc # "offer" /\ [task[h] EXCEPT !.pc = "write", !.to = "AWAITING", !.side = "none"].pc # "offer"
        BY <3>1 DEF Fields
      <3>3. signals' = signals /\ offers' = offers
        BY <2>4 DEF Scan!Quota
      <3>4. \/ Scan!Goto(h, [task[h] EXCEPT !.pc = "write"])
            \/ Scan!Goto(h, [task[h] EXCEPT !.pc = "write", !.to = "AWAITING", !.side = "none"])
        BY <2>4 DEF Scan!Quota
      <3>. QED  BY <3>2, <3>3, <3>4, OnceGoes
    <2>5. CASE Scan!Record(h)
      <3>. DEFINE key == task[h].key
                  t   == [pc |-> "offer", key |-> key]
      <3>1. key \in Scan!Key /\ offers' = offers /\ signals' = signals \cup {key}
        BY <2>5 DEF Scan!Record, Scan!At, Typed, Fields
      <3>2. CASE key \in signals
        <4>1. Scan!Goto(h, Scan!Idle) /\ Scan!Idle.pc # "offer"
          BY <2>5, <3>2 DEF Scan!Record, Scan!Idle
        <4>. QED  BY <3>1, <4>1, OnceGoes
      <3>3. CASE key \notin signals
        <4>1. Scan!Goto(h, t) /\ t.pc = "offer" /\ t.key = key
          BY <2>5, <3>3 DEF Scan!Record
        <4>2. offers[key] = 0
          BY <3>1, <3>3 DEF Once
        <4>. HIDE DEF key, t
        <4>. QED  BY <3>1, <3>3, <4>1, <4>2, Moves DEF Once
      <3>. QED  BY <3>2, <3>3
    <2>6. CASE Scan!Offer(h)
      <3>. DEFINE key == task[h].key
      <3>1. key \in Scan!Key /\ task[h].pc = "offer" /\ Scan!Goto(h, Scan!Idle) /\ Scan!Idle.pc = "idle" /\ signals' = signals
        BY <2>6 DEF Scan!Offer, Scan!At, Typed, Fields, Scan!Idle
      <3>2. \A x \in Scan!Key : offers'[x] = IF x = key THEN offers[x] + 1 ELSE offers[x]
        BY <2>6 DEF Scan!Offer, Typed, Scan!TypeOK
      <3>3. \A g \in Handler : task[g].pc = "offer" => task[g].key \in Scan!Key
        BY DEF Typed, Fields
      <3>. HIDE DEF key
      <3>4. key \in signals /\ offers[key] = 0 /\ \A g \in Handler : task[g].pc = "offer" /\ task[g].key = key => g = h
        BY <3>1 DEF Once, key
      <3>. QED  BY <3>1, <3>2, <3>3, <3>4, Moves DEF Once
    <2>. QED  BY <1>3, <2>1, <2>2, <2>3, <2>4, <2>5, <2>6 DEF Scan!Step
  <1>. QED  BY <1>1, <1>2, <1>3 DEF Scan!Next, Scan!Advance, Scan!Rank, Scan!Save, scan

\* A word of a setup is of one that is alive, also while it is on its way.
Alive ==
    /\ \A i \in Instrument, v \in Scan!Version :
          state[i][v].at \in Scan!Side => state[i][v].at \in state[i][v].setups
    /\ \A h \in Handler : task[h].pc \in {"quota", "write"} =>
          /\ task[h].to \in Scan!Side => task[h].to \in task[h].setups
          /\ task[h].side \in Scan!Side /\ kind # "ema" => task[h].side \in task[h].from

LEMMA AliveGoes ==
  ASSUME Typed, Alive, NEW h \in Handler, NEW t, Scan!Goto(h, t), t.pc \notin {"quota", "write"},
         state' = state, kind' = kind
  PROVE  Alive'
  BY Moves DEF Alive, Scan!Side, Scan!Version

LEMMA ScanStepAlive ==
  ASSUME Typed, Alive, [Scan!Next]_scan
  PROVE  Alive'
  <1>. USE DEF Scan!records, Scan!clock
  <1>1. CASE UNCHANGED <<kind, state, task>>
    BY <1>1 DEF Alive
  <1>2. CASE Scan!Crash
    BY <1>2 DEF Scan!Crash, Alive, Scan!Idle
  <1>3. ASSUME NEW h \in Handler, Scan!Step(h)  PROVE Alive'
    <2>1. ASSUME NEW i \in Instrument, Scan!Arrive(h, i)  PROVE Alive'
      <3>. DEFINE t == [pc |-> IF Scan!Known(now) THEN "judge" ELSE "look", i |-> i, k |-> now,
                        beside |-> \E g \in Handler : Scan!At(g, "assign") /\ task[g].tokens = {}]
      <3>1. t.pc \notin {"quota", "write"}
        OBVIOUS
      <3>2. Scan!Goto(h, t) /\ state' = state /\ kind' = kind
        BY <2>1 DEF Scan!Arrive
      <3>. HIDE DEF t
      <3>. QED  BY <3>1, <3>2, AliveGoes
    <2>2. CASE Scan!LookUp(h) \/ Scan!Assign(h) \/ Scan!Judge(h) \/ Scan!RecordEvaluation(h) \/ Scan!Record(h) \/ Scan!Offer(h) \/ Scan!Raise(h)
      <3>1. \E t : t.pc \notin {"quota", "write"} /\ Scan!Goto(h, t)
        BY <2>2 DEF Scan!LookUp, Scan!Assign, Scan!Judge, Scan!RecordEvaluation, Scan!Record, Scan!Offer, Scan!Raise, Scan!Idle
      <3>2. state' = state /\ kind' = kind
        BY <2>2 DEF Scan!LookUp, Scan!Assign, Scan!Judge, Scan!RecordEvaluation, Scan!Record, Scan!Offer, Scan!Raise
      <3>. QED  BY <3>1, <3>2, AliveGoes
    <2>3. ASSUME NEW c \in Scan!Candle, Scan!Read(h, c)  PROVE Alive'
      <3>. DEFINE prior == state[task[h].i][task[h].v]
                  d     == Scan!Evaluate(c, prior.at)
                  t     == [pc |-> IF d.to = "SIGNALLED" THEN "quota" ELSE "write", i |-> task[h].i, k |-> task[h].k,
                            v |-> task[h].v, to |-> d.to, side |-> d.side, from |-> prior.setups,
                            setups |-> Scan!Setups(c, prior.setups)]
      <3>1. task[h].i \in Instrument /\ task[h].v \in Scan!Version
        BY <2>3 DEF Scan!Read, Scan!At, Typed, Fields
      <3>2. prior.at \in Words /\ kind \in Kind /\ (prior.at \in Scan!Side => prior.at \in prior.setups)
        BY <3>1 DEF Typed, Scan!TypeOK, Words, Alive
      <3>3. Scan!Goto(h, t) /\ state' = state /\ kind' = kind
        BY <2>3 DEF Scan!Read
      <3>4. /\ d.side \in Scan!Side \cup {"none"}
            /\ d.side # "none" => d.to = "SIGNALLED" /\ (kind = "ema" \/ d.side = prior.at)
            /\ d.to \in Scan!Side => /\ kind # "ema" /\ c # Scan!Unusable
                                     /\ \/ Scan!Arms(c, d.to)
                                        \/ d.to = prior.at /\ ~Scan!Breaks(c, prior.at) /\ ~Scan!Confirms(c, prior.at)
        BY <3>2, Decisions
      <3>. HIDE DEF prior, d
      <3>5. /\ t.to \in Scan!Side => t.to \in t.setups
            /\ t.side \in Scan!Side /\ kind # "ema" => t.side \in t.from
        BY <3>2, <3>4 DEF Scan!Setups, Scan!Side
      <3>. HIDE DEF t
      <3>. QED  BY <3>3, <3>5, Moves DEF Alive, Scan!Side, Scan!Version
    <2>4. CASE Scan!Quota(h)
      <3>. DEFINE w == task[h]
                  t == [w EXCEPT !.pc = "write"]
                  u == [w EXCEPT !.pc = "write", !.to = "AWAITING", !.side = "none"]
      <3>1. Scan!Goto(h, t) \/ Scan!Goto(h, u)
        BY <2>4 DEF Scan!Quota
      <3>2. /\ w.to \in Scan!Side => w.to \in w.setups
            /\ w.side \in Scan!Side /\ kind # "ema" => w.side \in w.from
        BY <2>4 DEF Scan!Quota, Scan!At, Alive
      <3>3. state' = state /\ kind' = kind
        BY <2>4 DEF Scan!Quota
      <3>. HIDE DEF w
      <3>4. /\ t.to \in Scan!Side => t.to \in t.setups
            /\ t.side \in Scan!Side /\ kind # "ema" => t.side \in t.from
        BY <3>2 DEF Scan!Side
      <3>5. /\ u.to \in Scan!Side => u.to \in u.setups
            /\ u.side \in Scan!Side /\ kind # "ema" => u.side \in u.from
        BY <3>2 DEF Scan!Side
      <3>. HIDE DEF t, u
      <3>. QED  BY <3>1, <3>3, <3>4, <3>5, Moves DEF Alive, Scan!Side, Scan!Version
    <2>5. CASE Scan!Write(h)
      <3>. DEFINE w == task[h]
                  r == [at |-> w.to, setups |-> w.setups]
      <3>1. w.i \in Instrument /\ w.v \in Scan!Version /\ kind' = kind /\ (w.to \in Scan!Side => w.to \in w.setups)
        BY <2>5 DEF Scan!Write, Scan!At, Typed, Fields, Alive
      <3>2. state' = [state EXCEPT ![w.i][w.v] = r]
        BY <2>5 DEF Scan!Write
      <3>3. \E t : t.pc \notin {"quota", "write"} /\ Scan!Goto(h, t)
        BY <2>5 DEF Scan!Write, Scan!Idle
      <3>4. r.at = w.to /\ r.setups = w.setups
        OBVIOUS
      <3>. HIDE DEF w, r
      <3>5. \A i \in Instrument, v \in Scan!Version : state'[i][v] = IF i = w.i /\ v = w.v THEN r ELSE state[i][v]
        BY <3>1, <3>2 DEF Typed
      <3>6. \A i \in Instrument, v \in Scan!Version :
               state'[i][v].at \in Scan!Side => state'[i][v].at \in state'[i][v].setups
        BY <3>1, <3>4, <3>5 DEF Alive
      <3>. QED  BY <3>1, <3>3, <3>6, Moves DEF Alive, Scan!Side, Scan!Version
    <2>. QED  BY <1>3, <2>1, <2>2, <2>3, <2>4, <2>5 DEF Scan!Step
  <1>. QED  BY <1>1, <1>2, <1>3 DEF Scan!Next, Scan!Advance, Scan!Rank, Scan!Save, scan

\* An answer from before the ranking is older than it, and only a coroutine
\* that arrived beside one can still meet it.
Late(t) == ranked.at \in 1..(t.k - 1) /\ ~t.beside
Stale(t) == t.pc = "assign" /\ t.tokens = {}

Applied ==
    /\ ranked.at # 0 /\ universe.tokens = {} => universe.checked <= ranked.at
    /\ \A h \in Handler : Stale(task[h]) /\ ranked.at # 0 => task[h].k <= ranked.at
    /\ \A h \in Handler : task[h].pc \in {"look", "assign", "judge"} /\ Late(task[h]) =>
          \A g \in Handler : ~Stale(task[g])
    /\ \A h \in Handler : task[h].pc = "judge" /\ Late(task[h]) => universe.tokens # {}
    /\ \A h \in Handler : task[h].pc = "read" /\ Late(task[h]) => task[h].i \in ranked.tokens

\* A coroutine whose next point reads neither.
LEMMA AppliedGoes ==
  ASSUME Typed, Applied, NEW h \in Handler, NEW t, Scan!Goto(h, t), t.pc \notin {"look", "assign", "judge", "read"},
         ranked' = ranked, universe' = universe
  PROVE  Applied'
  BY Moves DEF Applied, Late, Stale

LEMMA ScanStepApplied ==
  ASSUME Typed, Applied, [Scan!Next]_scan
  PROVE  Applied'
  <1>. USE DEF Scan!records, Scan!clock
  <1>t. /\ now \in Nat /\ ranked.at \in 0..now /\ universe.checked \in 0..now
        /\ (ranked.at = 0 <=> ranked.tokens = {}) /\ universe.tokens \in {{}, ranked.tokens}
        /\ \A h \in Handler : task[h].pc \in {"look", "assign", "judge", "read"} => task[h].k \in 1..now
        /\ \A h \in Handler : task[h].pc = "assign" => task[h].tokens \in {{}, ranked.tokens}
    BY DEF Typed, Scan!TypeOK, Fields
  <1>1. CASE UNCHANGED <<ranked, universe, task>>
    BY <1>1 DEF Applied, Late, Stale
  <1>2. CASE Scan!Rank
    <2>1. ranked.at = 0 /\ ranked'.at = now /\ task' = task /\ universe' = universe
      BY <1>2 DEF Scan!Rank
    <2>2. \A h \in Handler : task[h].pc \in {"look", "assign", "judge", "read"} => ~Late(task[h])'
      BY <1>t, <2>1 DEF Late
    <2>. QED  BY <1>t, <2>1, <2>2 DEF Applied, Stale
  <1>3. CASE Scan!Crash
    <2>1. \A h \in Handler : task'[h].pc = "idle"
      BY <1>3 DEF Scan!Crash, Scan!Idle
    <2>2. ranked' = ranked /\ universe'.checked = 0
      BY <1>3 DEF Scan!Crash
    <2>. QED  BY <1>t, <2>1, <2>2 DEF Applied, Stale
  <1>4. ASSUME NEW h \in Handler, Scan!Step(h)  PROVE Applied'
    <2>1. ASSUME NEW i \in Instrument, Scan!Arrive(h, i)  PROVE Applied'
      <3>. DEFINE t == [pc |-> IF Scan!Known(now) THEN "judge" ELSE "look", i |-> i, k |-> now,
                        beside |-> \E g \in Handler : Scan!At(g, "assign") /\ task[g].tokens = {}]
      <3>1. t.pc \in {"judge", "look"} /\ t.k = now /\ (t.pc = "judge" => universe.tokens # {} \/ universe.checked = now)
        BY DEF Scan!Known
      <3>2. ~t.beside => \A g \in Handler : ~Stale(task[g])
        BY Zenon DEF Scan!At, Stale
      <3>3. Scan!Goto(h, t) /\ ranked' = ranked /\ universe' = universe
        BY <2>1 DEF Scan!Arrive
      <3>. HIDE DEF t
      <3>4. Late(t) => (\A g \in Handler : ~Stale(task[g])) /\ (t.pc = "judge" => universe.tokens # {})
        BY <1>t, <3>1, <3>2 DEF Late, Applied
      <3>. QED  BY <1>t, <3>1, <3>3, <3>4, Moves DEF Applied, Late, Stale
    <2>2. CASE Scan!LookUp(h)
      <3>. DEFINE w == task[h]
                  t == [pc |-> "assign", i |-> w.i, k |-> w.k, beside |-> w.beside, tokens |-> ranked.tokens]
      <3>1. w.pc = "look" /\ Scan!Goto(h, t) /\ ranked' = ranked /\ universe' = universe
        BY <2>2 DEF Scan!LookUp, Scan!At
      <3>2. t.pc = "assign" /\ t.k = w.k /\ t.beside = w.beside /\ t.tokens = ranked.tokens
        OBVIOUS
      <3>. HIDE DEF t
      <3>3. Late(t) => Late(w)
        BY <3>2 DEF Late
      <3>4. ranked.at # 0 => ~Stale(t)
        BY <1>t, <3>2 DEF Stale
      <3>5. \A g \in Handler : Late(task[g]) => ranked.at # 0
        BY <1>t DEF Late
      <3>. QED  BY <1>t, <3>1, <3>2, <3>3, <3>4, <3>5, Moves DEF Applied, Late, Stale
    <2>3. CASE Scan!Assign(h)
      <3>. DEFINE w == task[h]
                  t == [pc |-> "judge", i |-> w.i, k |-> w.k, beside |-> w.beside]
      <3>1. w.pc = "assign" /\ Scan!Goto(h, t) /\ ranked' = ranked /\ universe'.tokens = w.tokens /\ universe'.checked = w.k
        BY <2>3 DEF Scan!Assign, Scan!At
      <3>2. t.pc = "judge" /\ t.k = w.k /\ t.beside = w.beside
        OBVIOUS
      <3>. HIDE DEF t
      <3>3. Late(t) => Late(w)
        BY <3>2 DEF Late
      <3>4. \A g \in Handler : task[g].pc \in {"look", "assign", "judge"} /\ Late(task[g]) => w.tokens # {}
        BY <3>1 DEF Applied, Stale
      <3>. QED  BY <1>t, <3>1, <3>2, <3>3, <3>4, Moves DEF Applied, Late, Stale
    <2>4. CASE Scan!Judge(h)
      <3>. DEFINE w == task[h]
                  t == [pc |-> "read", i |-> w.i, k |-> w.k, v |-> version, beside |-> w.beside]
      <3>1. w.pc = "judge" /\ ranked' = ranked /\ universe' = universe
        BY <2>4 DEF Scan!Judge, Scan!At
      <3>2. CASE Scan!Goto(h, Scan!Idle)
        BY <3>1, <3>2, AppliedGoes DEF Scan!Idle
      <3>3. CASE Scan!Admits(universe.tokens, w.i) /\ Scan!Goto(h, t)
        <4>1. t.pc = "read" /\ t.i = w.i /\ t.k = w.k /\ t.beside = w.beside
          OBVIOUS
        <4>. HIDE DEF t
        <4>2. Late(t) => w.i \in ranked.tokens
          BY <1>t, <3>1, <3>3, <4>1 DEF Scan!Admits, Applied, Late
        <4>. QED  BY <1>t, <3>1, <3>3, <4>1, <4>2, Moves DEF Applied, Late, Stale
      <3>. QED  BY <2>4, <3>2, <3>3 DEF Scan!Judge
    <2>5. ASSUME NEW c \in Scan!Candle, Scan!Read(h, c)  PROVE Applied'
      <3>1. \E t : t.pc \notin {"look", "assign", "judge", "read"} /\ Scan!Goto(h, t)
        BY <2>5 DEF Scan!Read
      <3>2. ranked' = ranked /\ universe' = universe
        BY <2>5 DEF Scan!Read
      <3>. QED  BY <3>1, <3>2, AppliedGoes
    <2>6. CASE Scan!Write(h) \/ Scan!RecordEvaluation(h) \/ Scan!Record(h) \/ Scan!Offer(h) \/ Scan!Raise(h)
      <3>1. \E t : t.pc \notin {"look", "assign", "judge", "read"} /\ Scan!Goto(h, t)
        BY <2>6 DEF Scan!Write, Scan!RecordEvaluation, Scan!Record, Scan!Offer, Scan!Raise, Scan!Idle
      <3>2. ranked' = ranked /\ universe' = universe
        BY <2>6 DEF Scan!Write, Scan!RecordEvaluation, Scan!Record, Scan!Offer, Scan!Raise
      <3>. QED  BY <3>1, <3>2, AppliedGoes
    <2>7. CASE Scan!Quota(h)
      <3>1. Fields(task[h]) /\ task[h].pc = "quota"
        BY <2>7 DEF Typed, Scan!Quota, Scan!At
      <3>2. /\ [task[h] EXCEPT !.pc = "write"].pc = "write"
            /\ [task[h] EXCEPT !.pc = "write", !.to = "AWAITING", !.side = "none"].pc = "write"
        BY <3>1 DEF Fields
      <3>3. ranked' = ranked /\ universe' = universe
        BY <2>7 DEF Scan!Quota
      <3>4. \/ Scan!Goto(h, [task[h] EXCEPT !.pc = "write"])
            \/ Scan!Goto(h, [task[h] EXCEPT !.pc = "write", !.to = "AWAITING", !.side = "none"])
        BY <2>7 DEF Scan!Quota
      <3>. QED  BY <3>2, <3>3, <3>4, AppliedGoes
    <2>. QED  BY <1>4, <2>1, <2>2, <2>3, <2>4, <2>5, <2>6, <2>7 DEF Scan!Step
  <1>. QED  BY <1>1, <1>2, <1>3, <1>4 DEF Scan!Next, Scan!Advance, Scan!Save, scan

\* What holds of the scanner throughout a session.
ScanInv == Typed /\ Once /\ Alive /\ Applied

LEMMA ScanInvInit == Scan!Init => ScanInv
  <1>. SUFFICES ASSUME Scan!Init  PROVE ScanInv
    OBVIOUS
  <1>1. Typed
    BY ScanInitTyped
  <1>2. \A h \in Handler : task[h].pc = "idle"
    BY DEF Scan!Init, Scan!Idle
  <1>3. Once /\ Applied
    BY <1>2 DEF Scan!Init, Once, Applied, Late, Stale
  <1>4. Alive
    BY <1>2 DEF Scan!Init, Alive, Scan!Side
  <1>. QED  BY <1>1, <1>3, <1>4 DEF ScanInv

LEMMA ScanInvStep == ScanInv /\ [Scan!Next]_scan => ScanInv'
  BY ScanStepTyped, ScanStepOnce, ScanStepAlive, ScanStepApplied DEF ScanInv

LEMMA ScanInvSafe == ScanInv => Scan!TypeOK /\ Scan!OfferedOnce /\ Scan!SetupIsAlive /\ Scan!RankingApplies
  <1>. SUFFICES ASSUME ScanInv  PROVE Scan!TypeOK /\ Scan!OfferedOnce /\ Scan!SetupIsAlive /\ Scan!RankingApplies
    OBVIOUS
  <1>1. Scan!TypeOK
    BY DEF ScanInv, Typed
  <1>2. Scan!OfferedOnce
    <2>1. ASSUME NEW x \in Scan!Key  PROVE offers[x] <= 1
      BY <1>1 DEF ScanInv, Once, Scan!TypeOK
    <2>. QED  BY <2>1 DEF Scan!OfferedOnce
  <1>3. Scan!SetupIsAlive
    BY DEF ScanInv, Alive, Scan!SetupIsAlive, Scan!At
  <1>4. Scan!RankingApplies
    <2>1. ASSUME NEW h \in Handler, Scan!At(h, "read"), ranked.at \in 1..(task[h].k - 1), task[h].i \notin ranked.tokens, ~task[h].beside
          PROVE  FALSE
      BY <2>1 DEF ScanInv, Applied, Late, Scan!At
    <2>2. \A h \in Handler : Scan!At(h, "read") => task[h].beside \in BOOLEAN
      BY DEF ScanInv, Typed, Fields, Scan!At
    <2>. QED  BY <2>1, <2>2, Zenon DEF Scan!RankingApplies
  <1>. QED  BY <1>1, <1>2, <1>3, <1>4

-----------------------------------------------------------------------------
(* The trade.                                                                *)

Legs   == {"STOP", "TARGET", "TIME"}
Order  == [status : {"none", "PENDING", "PARTIALLY_FILLED", "FILLED", "CANCELLED"},
           quantity : Nat, filled : Nat, after : Nat]
Books  == [order : [Role -> Order],
           position : [status : {"none", "OPENING", "OPEN", "REDUCING", "CLOSED"}, open : Nat, pnl : Int, opened : Nat],
           closed : BOOLEAN]

LEMMA FilledDoes ==
  ASSUME NEW o \in Order, NEW q \in Nat
  PROVE  /\ Filled(o, q) \in Order
         /\ Filled(o, q).filled = o.filled + q /\ Filled(o, q).quantity = o.quantity /\ Filled(o, q).after = o.after
         /\ Filled(o, q).status = IF o.filled + q = o.quantity THEN "FILLED" ELSE "PARTIALLY_FILLED"
  <1>. DEFINE st == IF o.filled + q = o.quantity THEN "FILLED" ELSE "PARTIALLY_FILLED"
              n == o.filled + q
  <1>1. Filled(o, q) = [o EXCEPT !.filled = n, !.status = st]
    BY DEF Filled, Order
  <1>2. n \in Nat /\ st \in {"FILLED", "PARTIALLY_FILLED"}
    BY DEF Order
  <1>. HIDE DEF n, st
  <1>3. /\ [o EXCEPT !.filled = n, !.status = st] \in Order
        /\ [o EXCEPT !.filled = n, !.status = st].filled = n
        /\ [o EXCEPT !.filled = n, !.status = st].status = st
        /\ [o EXCEPT !.filled = n, !.status = st].quantity = o.quantity
        /\ [o EXCEPT !.filled = n, !.status = st].after = o.after
    BY <1>2 DEF Order
  <1>. QED  BY <1>1, <1>3 DEF n, st

\* An exit takes off what is held and nothing else.
LEMMA FillExitDoes ==
  ASSUME NEW tr \in Books, NEW r \in Legs, NEW q \in Nat, q <= tr.position.open
  PROVE  LET new == FillExit(tr, r, q) IN
         /\ new \in Books
         /\ new.position.open = tr.position.open - q
         /\ new.position.open > 0 => Running(new.position)
         /\ new.closed => new.position.open = 0
         /\ new.order[r].filled = tr.order[r].filled + q
         /\ \A x \in Role : new.order[x].quantity = tr.order[x].quantity /\ new.order[x].after = tr.order[x].after
         /\ \A x \in Role \ {r} : new.order[x].filled = tr.order[x].filled
         /\ new.position.status # "none" /\ new.order["ENTRY"] = tr.order["ENTRY"]
         /\ \A x \in Role : tr.order[x].status # "none" => new.order[x].status # "none"
         /\ tr.order[r].filled + q # tr.order[r].quantity => Working(new.order[r])
         /\ \A x \in Role \ {r} : tr.order[x].status \in {"none", "FILLED"} \/ q < tr.position.open => new.order[x] = tr.order[x]
  <1>. DEFINE new == FillExit(tr, r, q)
              open == tr.position.open - q
              f == [x \in Role |-> IF x = r THEN Filled(tr.order[x], q)
                        ELSE IF open <= 0 /\ x \in EXIT_ROLES /\ Working(tr.order[x])
                        THEN [tr.order[x] EXCEPT !.status = "CANCELLED"]
                        ELSE tr.order[x]]
              b == open <= 0
              p == [tr.position EXCEPT !.open = open, !.status = IF open <= 0 THEN "CLOSED" ELSE "REDUCING"]
  <1>1. tr.order \in [Role -> Order] /\ r \in Role /\ r \in EXIT_ROLES
        /\ tr.position \in [status : {"none", "OPENING", "OPEN", "REDUCING", "CLOSED"}, open : Nat, pnl : Int, opened : Nat]
    BY DEF Books, Legs, Role, EXIT_ROLES
  <1>2. open \in Nat
    BY <1>1
  <1>3. new = [order |-> f, position |-> p, closed |-> b]
    BY DEF FillExit
  <1>4. ASSUME NEW x \in Role
        PROVE  /\ f[x] \in Order /\ f[x].quantity = tr.order[x].quantity /\ f[x].after = tr.order[x].after
               /\ x # r => f[x].filled = tr.order[x].filled
               /\ x = "ENTRY" => f[x] = tr.order[x]
               /\ tr.order[x].status # "none" => f[x].status # "none"
               /\ x = r => /\ f[x].filled = tr.order[x].filled + q
                           /\ tr.order[r].filled + q # tr.order[r].quantity => Working(f[x])
               /\ x # r /\ (tr.order[x].status \in {"none", "FILLED"} \/ q < tr.position.open) => f[x] = tr.order[x]
    <2>1. tr.order[x] \in Order
      BY <1>1
    <2>2. CASE x = r
      <3>1. f[x] = Filled(tr.order[x], q) /\ r # "ENTRY"
        BY <2>2 DEF Legs
      <3>2. LET d == Filled(tr.order[x], q) IN
            /\ d \in Order /\ d.filled = tr.order[x].filled + q
            /\ d.quantity = tr.order[x].quantity /\ d.after = tr.order[x].after
            /\ d.status = IF tr.order[x].filled + q = tr.order[x].quantity THEN "FILLED" ELSE "PARTIALLY_FILLED"
        BY <2>1, FilledDoes
      <3>. HIDE DEF f
      <3>. QED  BY <2>2, <3>1, <3>2 DEF Working
    <2>3. CASE x # r
      BY <1>1, <1>2, <2>1, <2>3 DEF Order, Working, EXIT_ROLES
    <2>. QED  BY <2>2, <2>3
  <1>5. /\ p \in [status : {"none", "OPENING", "OPEN", "REDUCING", "CLOSED"}, open : Nat, pnl : Int, opened : Nat]
        /\ p.open = open /\ (open > 0 => Running(p)) /\ p.status # "none"
    <2>1. p.open = open /\ p.status = IF open <= 0 THEN "CLOSED" ELSE "REDUCING"
      BY <1>1
    <2>2. p \in [status : {"none", "OPENING", "OPEN", "REDUCING", "CLOSED"}, open : Nat, pnl : Int, opened : Nat]
      BY <1>1, <1>2
    <2>. HIDE DEF p
    <2>. QED  BY <1>2, <2>1, <2>2 DEF Running
  <1>6. f \in [Role -> Order]
    <2>1. f = [x \in Role |-> f[x]]
      OBVIOUS
    <2>. HIDE DEF f
    <2>. QED  BY <1>4, <2>1
  <1>b. b \in BOOLEAN /\ (b => open = 0)
    BY <1>2
  <1>. HIDE DEF f, p, b
  <1>7. new.order = f /\ new.position = p /\ new.closed = b /\ new \in Books
    BY <1>3, <1>5, <1>6, <1>b DEF Books
  <1>. HIDE DEF new
  <1>8. new.position.open = open /\ (new.position.open > 0 => Running(new.position)) /\ (new.closed => new.position.open = 0)
        /\ new.position.status # "none"
    BY <1>2, <1>5, <1>7, <1>b
  <1>9. \A x \in Role : new.order[x] = f[x]
    BY <1>7
  <1>10. \A x \in Role \ {r} : tr.order[x].status \in {"none", "FILLED"} \/ q < tr.position.open => new.order[x] = tr.order[x]
    BY <1>4, <1>9
  <1>11. "ENTRY" \in Role /\ new.order["ENTRY"] = tr.order["ENTRY"]
    BY <1>4, <1>9 DEF Role
  <1>. QED  BY <1>1, <1>4, <1>7, <1>8, <1>9, <1>10, <1>11 DEF new

\* One exit at most on a candle, and the first that is able.
Able(tr, work, hit, capacity) ==
    {r \in work \cap EXIT_ROLES : (r \in {"STOP", "TARGET"} => r \in hit) /\ Fillable(tr, r, capacity) > 0}

LEMMA FirstExit ==
  ASSUME NEW S \in SUBSET EXIT_ROLES, S # {}
  PROVE  \E r \in S : \A s \in S \ {r} : Before(r, s)
  <1>1. \A r, s \in EXIT_ROLES : Before(r, s) <=> \/ r = "HALT" /\ s # "HALT"
                                                  \/ r = "STOP" /\ s \in {"TARGET", "TIME"}
                                                  \/ r = "TARGET" /\ s = "TIME"
    BY DEF Before, EXIT_ROLES
  <1>2. CASE "HALT" \in S
    BY <1>1, <1>2 DEF EXIT_ROLES
  <1>3. CASE "HALT" \notin S /\ "STOP" \in S
    BY <1>1, <1>3 DEF EXIT_ROLES
  <1>4. CASE "HALT" \notin S /\ "STOP" \notin S /\ "TARGET" \in S
    BY <1>1, <1>4 DEF EXIT_ROLES
  <1>5. CASE S = {"TIME"}
    BY <1>5
  <1>. QED  BY <1>2, <1>3, <1>4, <1>5 DEF EXIT_ROLES
LEMMA FillsExit ==
  ASSUME NEW tr, NEW work, NEW hit, NEW capacity, NEW n
  PROVE  \E mid :
           /\ \/ Able(tr, work, hit, capacity) = {} /\ mid = tr
              \/ \E r \in Able(tr, work, hit, capacity) :
                    /\ \A s \in Able(tr, work, hit, capacity) \ {r} : Before(r, s)
                    /\ mid = FillExit(tr, r, Fillable(tr, r, capacity))
           /\ Fills(tr, work, hit, capacity, n) = IF "ENTRY" \in work
                                                 THEN FillEntry(mid, Fillable(mid, "ENTRY", capacity), n) ELSE mid
  <1>. DEFINE able == Able(tr, work, hit, capacity)
              first == CHOOSE r \in able : \A s \in able \ {r} : Before(r, s)
              mid == IF able = {} THEN tr ELSE FillExit(tr, first, Fillable(tr, first, capacity))
  <1>1. Fills(tr, work, hit, capacity, n) = IF "ENTRY" \in work
                                           THEN FillEntry(mid, Fillable(mid, "ENTRY", capacity), n) ELSE mid
    BY DEF Fills, Able
  <1>2. able \in SUBSET EXIT_ROLES
    BY DEF Able
  <1>3. able # {} => first \in able /\ \A s \in able \ {first} : Before(first, s)
    BY <1>2, FirstExit
  <1>. HIDE DEF able, first
  <1>4. \/ able = {} /\ mid = tr
        \/ \E r \in able : (\A s \in able \ {r} : Before(r, s)) /\ mid = FillExit(tr, r, Fillable(tr, r, capacity))
    BY <1>3
  <1>. HIDE DEF mid
  <1>. QED  BY <1>1, <1>4 DEF able

\* What is bought is held, with a bracket for all of it.
LEMMA BracketDoes ==
  ASSUME NEW o \in Order, NEW open \in Nat, NEW after \in Nat
  PROVE  LET b == Bracket(o, open, after) IN
         /\ b \in Order /\ b.status # "none"
         /\ o.status # "none" => b.filled = o.filled
         /\ o.status # "none" /\ o.filled <= o.quantity => b.filled <= b.quantity
         /\ o = NoOrder => b.filled = 0 /\ Working(b) /\ b.quantity = open /\ b.after = after
         /\ Working(o) /\ o.filled = 0 => b.filled = 0 /\ Working(b) /\ b.quantity = open /\ b.after = o.after
  <1>1. CASE o.status = "none"
    BY <1>1 DEF Bracket, NewOrder, Order, Working
  <1>2. CASE Working(o)
    <2>. DEFINE m == Most(o.filled, open)
    <2>1. m \in Nat /\ m >= o.filled /\ (o.filled = 0 => m = open)
      BY DEF Most, Order
    <2>2. Bracket(o, open, after) = [o EXCEPT !.quantity = m] /\ o.status # "none"
      BY <1>2 DEF Bracket, Working
    <2>. HIDE DEF m
    <2>3. o # NoOrder
      BY <2>2 DEF NoOrder
    <2>. QED  BY <1>2, <2>1, <2>2, <2>3 DEF Order, Working
  <1>3. CASE o.status # "none" /\ ~Working(o)
    BY <1>3 DEF Bracket, NoOrder
  <1>. QED  BY <1>1, <1>2, <1>3

LEMMA FillEntryDoes ==
  ASSUME NEW tr \in Books, NEW q \in Nat, q > 0, NEW n \in Nat
  PROVE  LET new  == FillEntry(tr, q, n)
             from == IF tr.position.status = "none" THEN n + 1 ELSE tr.position.opened
         IN
         /\ new \in Books
         /\ new.position.open = tr.position.open + q /\ Running(new.position)
         /\ new.order["ENTRY"] = Filled(tr.order["ENTRY"], q)
         /\ new.order["HALT"] = tr.order["HALT"] /\ new.order["TIME"] = tr.order["TIME"]
         /\ \A x \in {"STOP", "TARGET"} : new.order[x] = Bracket(tr.order[x], new.position.open, from)
         /\ from \in Nat
  <1>. DEFINE entry_ == Filled(tr.order["ENTRY"], q)
              from == IF tr.position.status = "none" THEN n + 1 ELSE tr.position.opened
              open == tr.position.open + q
              st == IF entry_.status = "FILLED" THEN "OPEN" ELSE "OPENING"
              f == [r \in Role |-> CASE r = "ENTRY" -> entry_
                                     [] r \in {"STOP", "TARGET"} -> Bracket(tr.order[r], open, from)
                                     [] OTHER -> tr.order[r]]
              p == [tr.position EXCEPT !.open = open, !.opened = from, !.status = st]
  <1>1. tr.order \in [Role -> Order] /\ Role = {"ENTRY", "HALT", "STOP", "TARGET", "TIME"}
        /\ tr.position \in [status : {"none", "OPENING", "OPEN", "REDUCING", "CLOSED"}, open : Nat, pnl : Int, opened : Nat]
    BY DEF Books, Role, EXIT_ROLES
  <1>2. FillEntry(tr, q, n) = [tr EXCEPT !.order = f, !.position = p]
    BY DEF FillEntry
  <1>3. open \in Nat /\ from \in Nat /\ st \in {"OPEN", "OPENING"}
    BY <1>1
  <1>4. entry_ \in Order
    BY <1>1, FilledDoes
  <1>. HIDE DEF entry_, from, open, st
  <1>5. f \in [Role -> Order]
    <2>1. ASSUME NEW r \in Role  PROVE f[r] \in Order
      <3>1. tr.order[r] \in Order
        BY <1>1
      <3>2. Bracket(tr.order[r], open, from) \in Order
        BY <1>3, <3>1, BracketDoes
      <3>. QED  BY <1>4, <3>1, <3>2
    <2>2. f = [r \in Role |-> f[r]]
      OBVIOUS
    <2>. HIDE DEF f
    <2>. QED  BY <2>1, <2>2
  <1>6. /\ p \in [status : {"none", "OPENING", "OPEN", "REDUCING", "CLOSED"}, open : Nat, pnl : Int, opened : Nat]
        /\ p.open = open /\ Running(p)
    BY <1>1, <1>3 DEF Running
  <1>7. /\ f["ENTRY"] = entry_ /\ f["HALT"] = tr.order["HALT"] /\ f["TIME"] = tr.order["TIME"]
        /\ \A x \in {"STOP", "TARGET"} : f[x] = Bracket(tr.order[x], open, from)
    BY <1>1
  <1>. HIDE DEF f, p
  <1>8. LET new == FillEntry(tr, q, n) IN new \in Books /\ new.order = f /\ new.position = p
    BY <1>2, <1>5, <1>6 DEF Books
  <1>. QED  BY <1>3, <1>6, <1>7, <1>8 DEF from, open, entry_

\* The trade after n candles: every unit bought is held or was sold by one leg,
\* and until one is sold, what is held has its bracket.
Kept(tr, n) ==
    /\ tr \in Books
    /\ tr.order["HALT"] = NoOrder
    /\ tr.order["ENTRY"].quantity = Qty /\ tr.order["ENTRY"].after = 1
    /\ tr.order["ENTRY"].status = IF tr.order["ENTRY"].filled = Qty THEN "FILLED"
                                  ELSE IF tr.order["ENTRY"].filled = 0 THEN "PENDING" ELSE "PARTIALLY_FILLED"
    /\ \A r \in Role : tr.order[r].filled <= tr.order[r].quantity
    /\ tr.position.open + tr.order["STOP"].filled + tr.order["TARGET"].filled + tr.order["TIME"].filled
         = tr.order["ENTRY"].filled
    /\ tr.position.open > 0 => Running(tr.position)
    /\ tr.order["ENTRY"].filled = 0 =>
          tr.position.status = "none" /\ \A r \in Legs : tr.order[r] = NoOrder
    /\ tr.order["ENTRY"].filled > 0 =>
          tr.position.status # "none" /\ \A r \in {"STOP", "TARGET"} : tr.order[r].status # "none"
    /\ tr.position.open > 0 /\ tr.position.open = tr.order["ENTRY"].filled =>
          \A r \in {"STOP", "TARGET"} :
             Working(tr.order[r]) /\ tr.order[r].quantity = tr.position.open /\ tr.order[r].after = 2
    /\ tr.order["TIME"] # NoOrder => tr.order["TIME"].after <= n + 1

\* What the clock's order asks for is all that is held, unless the entry bought
\* after it was queued.
Timely(tr, b) ==
    tr.position.open > 0 /\ tr.order["TIME"] # NoOrder /\ (\A x \in b : x < tr.order["TIME"].after) =>
        Working(tr.order["TIME"]) /\ tr.order["TIME"].filled + tr.position.open <= tr.order["TIME"].quantity

LEMMA KeptOrders ==
  ASSUME NEW tr, NEW n, Kept(tr, n)
  PROVE  /\ tr.order \in [Role -> Order] /\ tr.position.open \in Nat
         /\ tr.position.status \in {"none", "OPENING", "OPEN", "REDUCING", "CLOSED"}
         /\ Role = {"ENTRY", "HALT", "STOP", "TARGET", "TIME"}
         /\ \A r \in Role : /\ tr.order[r] \in Order
                            /\ tr.order[r].filled \in Nat /\ tr.order[r].quantity \in Nat /\ tr.order[r].after \in Nat
  BY DEF Kept, Books, Order, Role, EXIT_ROLES

LEMMA ExitKept ==
  ASSUME NEW tr, NEW n \in Nat, NEW b, Kept(tr, n), Timely(tr, b), NEW r \in Legs, Working(tr.order[r]),
         NEW q \in Nat \ {0}, q <= tr.position.open, tr.order[r].filled + q <= tr.order[r].quantity
  PROVE  Kept(FillExit(tr, r, q), n) /\ Timely(FillExit(tr, r, q), b)
  <1>. DEFINE new == FillExit(tr, r, q)
              o == tr.order
              open == tr.position.open
  <1>1. /\ o \in [Role -> Order] /\ open \in Nat /\ Role = {"ENTRY", "HALT", "STOP", "TARGET", "TIME"}
        /\ \A x \in Role : o[x] \in Order /\ o[x].filled \in Nat /\ o[x].quantity \in Nat /\ o[x].after \in Nat
    BY KeptOrders
  <1>2. /\ new \in Books
        /\ new.position.open = open - q
        /\ new.position.open > 0 => Running(new.position)
        /\ new.order[r].filled = o[r].filled + q
        /\ \A x \in Role : new.order[x].quantity = o[x].quantity /\ new.order[x].after = o[x].after
        /\ \A x \in Role \ {r} : new.order[x].filled = o[x].filled
        /\ new.position.status # "none" /\ new.order["ENTRY"] = o["ENTRY"]
        /\ \A x \in Role : o[x].status # "none" => new.order[x].status # "none"
        /\ o[r].filled + q # o[r].quantity => Working(new.order[r])
        /\ \A x \in Role \ {r} : o[x].status \in {"none", "FILLED"} \/ q < open => new.order[x] = o[x]
    BY FillExitDoes DEF Kept
  <1>3. r \in {"STOP", "TARGET", "TIME"} /\ r \in Role
    BY <1>1 DEF Legs
  <1>4. /\ o["HALT"] = NoOrder
        /\ \A x \in Role : o[x].filled <= o[x].quantity
        /\ open + o["STOP"].filled + o["TARGET"].filled + o["TIME"].filled = o["ENTRY"].filled
        /\ o["ENTRY"].filled > 0 => \A x \in {"STOP", "TARGET"} : o[x].status # "none"
        /\ o["TIME"] # NoOrder => o["TIME"].after <= n + 1
        /\ Working(o[r])
        /\ o["ENTRY"].quantity = Qty /\ o["ENTRY"].after = 1
        /\ o["ENTRY"].status = IF o["ENTRY"].filled = Qty THEN "FILLED"
                               ELSE IF o["ENTRY"].filled = 0 THEN "PENDING" ELSE "PARTIALLY_FILLED"
    BY DEF Kept
  <1>5. open > 0 /\ o["TIME"] # NoOrder /\ (\A x \in b : x < o["TIME"].after) =>
           Working(o["TIME"]) /\ o["TIME"].filled + open <= o["TIME"].quantity
    BY DEF Timely
  <1>q. q <= open /\ o[r].filled + q <= o[r].quantity
    OBVIOUS
  <1>. HIDE DEF new, o, open
  <1>6. NoOrder.status = "none" /\ ~Working(NoOrder)
    BY DEF NoOrder, Working
  <1>7. o["ENTRY"].filled > 0
    BY <1>1, <1>4, <1>q
  <1>8. new.order["HALT"] = NoOrder
    BY <1>1, <1>2, <1>3, <1>4, <1>6
  <1>9. \A x \in Role : new.order[x].filled <= new.order[x].quantity
    BY <1>1, <1>2, <1>3, <1>4, <1>q
  <1>10. /\ new.position.open + new.order["STOP"].filled + new.order["TARGET"].filled + new.order["TIME"].filled
              = o["ENTRY"].filled
         /\ new.position.open # o["ENTRY"].filled
    BY <1>1, <1>2, <1>3, <1>4
  <1>11. new.order["TIME"] # NoOrder => o["TIME"] # NoOrder /\ new.order["TIME"].after = o["TIME"].after
    BY <1>1, <1>2, <1>3, <1>4, <1>6
  <1>12. Kept(new, n)
    BY <1>1, <1>2, <1>4, <1>7, <1>8, <1>9, <1>10, <1>11 DEF Kept
  <1>13. Timely(new, b)
    <2>. SUFFICES ASSUME new.position.open > 0, new.order["TIME"] # NoOrder, \A x \in b : x < new.order["TIME"].after
                  PROVE  Working(new.order["TIME"]) /\ new.order["TIME"].filled + new.position.open <= new.order["TIME"].quantity
      BY DEF Timely
    <2>1. q < open /\ open > 0
      BY <1>1, <1>2, <1>q
    <2>2. Working(o["TIME"]) /\ o["TIME"].filled + open <= o["TIME"].quantity
      BY <1>5, <1>11, <2>1
    <2>3. CASE r = "TIME"
      BY <1>1, <1>2, <2>1, <2>2, <2>3
    <2>4. CASE r # "TIME"
      BY <1>1, <1>2, <2>1, <2>2, <2>4
    <2>. QED  BY <2>3, <2>4
  <1>. QED  BY <1>12, <1>13 DEF new

LEMMA EntryKept ==
  ASSUME NEW tr, NEW n \in Nat, NEW b, Kept(tr, n), Working(tr.order["ENTRY"]), n = 0 <=> tr.order["ENTRY"].filled = 0,
         NEW q \in Nat \ {0}, tr.order["ENTRY"].filled + q <= Qty
  PROVE  LET new == FillEntry(tr, q, n + 1) IN
         /\ Kept(new, n + 1) /\ Timely(new, b \cup {n + 1})
         /\ new.order["ENTRY"].filled = tr.order["ENTRY"].filled + q
         /\ new.position.open = tr.position.open + q
         /\ \A r \in Legs \cup {"HALT"} : new.order[r].filled = tr.order[r].filled
  <1>. DEFINE new == FillEntry(tr, q, n + 1)
              o == tr.order
              open == tr.position.open
              from == IF tr.position.status = "none" THEN n + 1 + 1 ELSE tr.position.opened
  <1>0. Qty \in Nat \ {0} /\ n + 1 \in Nat
    BY ExitAssumption
  <1>1. /\ o \in [Role -> Order] /\ open \in Nat /\ Role = {"ENTRY", "HALT", "STOP", "TARGET", "TIME"}
        /\ \A x \in Role : o[x] \in Order /\ o[x].filled \in Nat /\ o[x].quantity \in Nat /\ o[x].after \in Nat
    BY KeptOrders
  <1>2. /\ new \in Books
        /\ new.position.open = open + q /\ Running(new.position)
        /\ new.order["ENTRY"] = Filled(o["ENTRY"], q)
        /\ new.order["HALT"] = o["HALT"] /\ new.order["TIME"] = o["TIME"]
        /\ \A x \in {"STOP", "TARGET"} : new.order[x] = Bracket(o[x], new.position.open, from)
        /\ from \in Nat
    <2>1. tr \in Books /\ q \in Nat /\ q > 0
      BY DEF Kept
    <2>. HIDE DEF from
    <2>2. LET new_  == FillEntry(tr, q, n + 1)
              from_ == IF tr.position.status = "none" THEN n + 1 + 1 ELSE tr.position.opened
          IN
          /\ new_ \in Books
          /\ new_.position.open = tr.position.open + q /\ Running(new_.position)
          /\ new_.order["ENTRY"] = Filled(tr.order["ENTRY"], q)
          /\ new_.order["HALT"] = tr.order["HALT"] /\ new_.order["TIME"] = tr.order["TIME"]
          /\ \A x \in {"STOP", "TARGET"} : new_.order[x] = Bracket(tr.order[x], new_.position.open, from_)
          /\ from_ \in Nat
      BY <1>0, <2>1, FillEntryDoes, Zenon
    <2>. QED  BY <2>2, Zenon DEF from
  <1>3. /\ o["HALT"] = NoOrder
        /\ \A x \in Role : o[x].filled <= o[x].quantity
        /\ open + o["STOP"].filled + o["TARGET"].filled + o["TIME"].filled = o["ENTRY"].filled
        /\ o["ENTRY"].filled = 0 => tr.position.status = "none" /\ o["STOP"] = NoOrder /\ o["TARGET"] = NoOrder
        /\ o["ENTRY"].filled > 0 => \A x \in {"STOP", "TARGET"} : o[x].status # "none"
        /\ open > 0 /\ open = o["ENTRY"].filled =>
              \A x \in {"STOP", "TARGET"} : Working(o[x]) /\ o[x].after = 2
        /\ o["TIME"] # NoOrder => o["TIME"].after <= n + 1
        /\ o["ENTRY"].quantity = Qty /\ o["ENTRY"].after = 1
        /\ n = 0 <=> o["ENTRY"].filled = 0
    BY DEF Kept, Legs
  <1>. HIDE DEF new, o, open
  <1>4. from = 2 \/ o["ENTRY"].filled > 0
    BY <1>1, <1>3 DEF o
  <1>. HIDE DEF from
  <1>5. /\ new.order["ENTRY"] \in Order
        /\ new.order["ENTRY"].filled = o["ENTRY"].filled + q /\ new.order["ENTRY"].quantity = Qty /\ new.order["ENTRY"].after = 1
        /\ new.order["ENTRY"].status = IF o["ENTRY"].filled + q = Qty THEN "FILLED" ELSE "PARTIALLY_FILLED"
    <2>1. /\ Filled(o["ENTRY"], q) \in Order /\ Filled(o["ENTRY"], q).filled = o["ENTRY"].filled + q
          /\ Filled(o["ENTRY"], q).quantity = o["ENTRY"].quantity /\ Filled(o["ENTRY"], q).after = o["ENTRY"].after
          /\ Filled(o["ENTRY"], q).status = IF o["ENTRY"].filled + q = o["ENTRY"].quantity
                                            THEN "FILLED" ELSE "PARTIALLY_FILLED"
      <3>1. o["ENTRY"] \in Order /\ q \in Nat
        BY <1>1
      <3>. QED  BY <3>1, FilledDoes, Zenon
    <2>. QED  BY <1>2, <1>3, <2>1
  <1>6. ASSUME NEW x \in {"STOP", "TARGET"}
        PROVE  /\ new.order[x].status # "none" /\ new.order[x].filled = o[x].filled
               /\ new.order[x].filled <= new.order[x].quantity
               /\ open + q = o["ENTRY"].filled + q =>
                     Working(new.order[x]) /\ new.order[x].quantity = open + q /\ new.order[x].after = 2
    <2>1. /\ o[x] \in Order /\ open + q \in Nat /\ from \in Nat
          /\ o[x].filled \in Nat /\ o[x].filled <= o[x].quantity
      BY <1>1, <1>2, <1>3
    <2>2. LET d == Bracket(o[x], open + q, from) IN
         /\ d \in Order /\ d.status # "none"
         /\ o[x].status # "none" => d.filled = o[x].filled
         /\ o[x].status # "none" /\ o[x].filled <= o[x].quantity => d.filled <= d.quantity
         /\ o[x] = NoOrder => d.filled = 0 /\ Working(d) /\ d.quantity = open + q /\ d.after = from
         /\ Working(o[x]) /\ o[x].filled = 0 => d.filled = 0 /\ Working(d) /\ d.quantity = open + q /\ d.after = o[x].after
      <3>. DEFINE y == o[x]
                  e == open + q
      <3>1. y \in Order /\ e \in Nat /\ from \in Nat
        BY <2>1
      <3>. HIDE DEF y, e
      <3>2. LET d == Bracket(y, e, from) IN
         /\ d \in Order /\ d.status # "none"
         /\ y.status # "none" => d.filled = y.filled
         /\ y.status # "none" /\ y.filled <= y.quantity => d.filled <= d.quantity
         /\ y = NoOrder => d.filled = 0 /\ Working(d) /\ d.quantity = e /\ d.after = from
         /\ Working(y) /\ y.filled = 0 => d.filled = 0 /\ Working(d) /\ d.quantity = e /\ d.after = y.after
        BY <3>1, BracketDoes, Z3
      <3>. QED  BY <3>2 DEF y, e
    <2>3. new.order[x] = Bracket(o[x], open + q, from)
      BY <1>2
    <2>4. CASE o["ENTRY"].filled = 0
      <3>1. o[x] = NoOrder /\ from = 2 /\ NoOrder.filled = 0
        BY <1>3, <1>4, <2>4 DEF NoOrder
      <3>. QED  BY <2>1, <2>2, <2>3, <3>1
    <2>5. CASE o["ENTRY"].filled > 0
      <3>1. o[x].status # "none"
        BY <1>3, <2>5
      <3>2. open + q = o["ENTRY"].filled + q => Working(o[x]) /\ o[x].filled = 0 /\ o[x].after = 2
        BY <1>1, <1>3, <2>5
      <3>. QED  BY <2>1, <2>2, <2>3, <3>1, <3>2
    <2>. QED  BY <1>1, <2>4, <2>5
  <1>7. \A x \in Role : new.order[x].filled <= new.order[x].quantity
    <2>1. new.order["ENTRY"].filled <= Qty
      BY <1>5 DEF o
    <2>. QED  BY <1>1, <1>2, <1>3, <1>5, <1>6, <2>1
  <1>8. new.position.open + new.order["STOP"].filled + new.order["TARGET"].filled + new.order["TIME"].filled
           = new.order["ENTRY"].filled
    BY <1>1, <1>2, <1>3, <1>5, <1>6
  <1>9. new.order["ENTRY"].filled > 0
    BY <1>1, <1>5
  <1>10. new.position.status # "none"
    BY <1>2 DEF Running
  <1>11. new.order["TIME"] # NoOrder => new.order["TIME"].after <= n + 1
    BY <1>2, <1>3
  <1>12. Kept(new, n + 1)
    <2>1. new.order["ENTRY"].status = IF new.order["ENTRY"].filled = Qty THEN "FILLED"
                                      ELSE IF new.order["ENTRY"].filled = 0 THEN "PENDING" ELSE "PARTIALLY_FILLED"
      BY <1>5, <1>9
    <2>2. new.position.open > 0 /\ new.position.open = new.order["ENTRY"].filled =>
             \A r \in {"STOP", "TARGET"} :
                Working(new.order[r]) /\ new.order[r].quantity = new.position.open /\ new.order[r].after = 2
      BY <1>2, <1>5, <1>6
    <2>3. new.order["TIME"] # NoOrder => new.order["TIME"].after <= n + 1 + 1
      <3>1. new.order["TIME"].after \in Nat
        BY <1>1, <1>2
      <3>. QED  BY <1>11, <3>1
    <2>4. new.order["HALT"] = NoOrder
      BY <1>2, <1>3
    <2>5. \A r \in {"STOP", "TARGET"} : new.order[r].status # "none"
      BY <1>6
    <2>6. new.order["ENTRY"].filled # 0
      BY <1>9
    <2>. QED  BY <1>2, <1>5, <1>7, <1>8, <1>9, <1>10, <2>1, <2>2, <2>3, <2>4, <2>5, <2>6 DEF Kept
  <1>13. Timely(new, b \cup {n + 1})
    <2>1. new.order["TIME"].after \in Nat
      BY <1>1, <1>2
    <2>2. n + 1 \in b \cup {n + 1}
      OBVIOUS
    <2>3. new.order["TIME"] # NoOrder => ~(n + 1 < new.order["TIME"].after)
      BY <1>0, <1>11, <2>1
    <2>. QED  BY <2>2, <2>3, Zenon DEF Timely
  <1>14. \A r \in Legs \cup {"HALT"} : new.order[r].filled = o[r].filled
    BY <1>2, <1>6 DEF Legs
  <1>. QED  BY <1>2, <1>5, <1>12, <1>13, <1>14 DEF new, o, open

-----------------------------------------------------------------------------
(* The trade and its candles.                                                *)

Queued == [NoTrade EXCEPT !.order["ENTRY"] = NewOrder(Qty, 1)]

LEMMA QueuedKept == Kept(Queued, 0)
  <1>0. Qty \in Nat \ {0}
    BY ExitAssumption
  <1>. DEFINE g == [r \in Role |-> NoOrder]
              e == NewOrder(Qty, 1)
              f == [g EXCEPT !["ENTRY"] = e]
              no == FALSE
  <1>a. NoTrade = [order |-> g, position |-> NoPosition, closed |-> no] /\ Queued = [NoTrade EXCEPT !.order["ENTRY"] = e]
    BY DEF Queued, NoTrade
  <1>. HIDE DEF no
  <1>1. Queued = [order |-> f, position |-> NoPosition, closed |-> no]
    <2>. HIDE DEF g, e
    <2>. QED  BY <1>a
  <1>2. /\ NewOrder(Qty, 1) \in Order /\ NewOrder(Qty, 1).filled = 0 /\ NewOrder(Qty, 1).quantity = Qty
        /\ NewOrder(Qty, 1).after = 1 /\ NewOrder(Qty, 1).status = "PENDING"
    BY <1>0 DEF NewOrder, Order
  <1>3. NoOrder \in Order /\ NoOrder.filled = 0 /\ NoOrder.quantity = 0
    BY DEF NoOrder, Order
  <1>4. /\ NoPosition \in [status : {"none", "OPENING", "OPEN", "REDUCING", "CLOSED"}, open : Nat, pnl : Int, opened : Nat]
        /\ NoPosition.open = 0 /\ NoPosition.status = "none"
    BY DEF NoPosition
  <1>5. f \in [Role -> Order] /\ f["ENTRY"] = NewOrder(Qty, 1) /\ \A r \in Role \ {"ENTRY"} : f[r] = NoOrder
    BY <1>2, <1>3 DEF Role
  <1>6. no \in BOOLEAN /\ Legs \subseteq Role \ {"ENTRY"} /\ {"ENTRY", "HALT", "STOP", "TARGET", "TIME"} = Role
    BY DEF no, Legs, Role, EXIT_ROLES
  <1>. HIDE DEF f
  <1>7. Queued \in Books /\ Queued.order = f /\ Queued.position = NoPosition
    BY <1>1, <1>4, <1>5, <1>6 DEF Books
  <1>8. \A r \in Role : f[r].filled = 0 /\ f[r].quantity \in Nat
    BY <1>0, <1>2, <1>3, <1>5
  <1>9. \A r \in Role : f[r].filled <= f[r].quantity
    BY <1>8
  <1>. QED  BY <1>0, <1>2, <1>4, <1>5, <1>6, <1>7, <1>8, <1>9 DEF Kept

Managed ==
    /\ Kept(trade, k) /\ Timely(trade, bought) /\ opened \in Nat
    /\ k = 0 <=> trade.order["ENTRY"].filled = 0
    /\ trade.position.open > 0 /\ time_exit_due(opened, minute) => trade.order["TIME"] # NoOrder

\* What a candle may take off of it, and what it fills.
CanFill(c) ==
    {r \in Legs : /\ Working(trade.order[r]) /\ trade.order[r].after <= k + 1
                  /\ r # "TIME" => r \in Hits(c)
                  /\ trade.position.open > 0 /\ trade.order[r].filled < trade.order[r].quantity}

Opened     == [trade EXCEPT !.closed = FALSE]
FilledBy(c, volume) == Fills(Opened, Eligible(k + 1), Hits(c), fill_capacity(volume), k + 1)

LEMMA ExitedIs ==
  ASSUME NEW new, \A r \in EXIT_ROLES : trade.order[r].filled \in Nat
  PROVE  /\ (\A x \in EXIT_ROLES : new.order[x].filled = trade.order[x].filled) => Exited(new) = {}
         /\ \A r \in EXIT_ROLES :
               /\ new.order[r].filled > trade.order[r].filled
               /\ \A x \in EXIT_ROLES \ {r} : new.order[x].filled = trade.order[x].filled
               => Exited(new) = {r}
  BY DEF Exited

LEMMA OpenedIs ==
  ASSUME trade \in Books
  PROVE  Opened \in Books /\ Opened.order = trade.order /\ Opened.position = trade.position /\ Opened.closed = FALSE
  <1>. DEFINE no == FALSE
  <1>1. no \in BOOLEAN
    OBVIOUS
  <1>2. Opened = [trade EXCEPT !.closed = no]
    BY DEF Opened
  <1>. HIDE DEF no
  <1>3. Opened \in Books /\ Opened.order = trade.order /\ Opened.position = trade.position /\ Opened.closed = no
    BY <1>1, <1>2 DEF Books
  <1>. QED  BY <1>3 DEF no

LEMMA FillableIs ==
  ASSUME NEW tr \in Books, NEW r \in Legs, NEW volume \in Nat, tr.order[r].filled <= tr.order[r].quantity
  PROVE  LET q == Fillable(tr, r, fill_capacity(volume)) IN
         /\ q \in Nat /\ q <= tr.position.open /\ tr.order[r].filled + q <= tr.order[r].quantity
         /\ q > 0 <=> tr.position.open > 0 /\ tr.order[r].filled < tr.order[r].quantity
  <1>1. fill_capacity(volume) \in Nat \ {0}
    BY DEF fill_capacity, Most
  <1>2. r \in EXIT_ROLES /\ r \in Role /\ tr.order[r] \in Order /\ tr.position.open \in Nat
    BY DEF Legs, EXIT_ROLES, Role, Books
  <1>3. tr.order[r].filled \in Nat /\ tr.order[r].quantity \in Nat
    BY <1>2 DEF Order
  <1>. QED  BY <1>1, <1>2, <1>3 DEF Fillable, Least, Most

\* One leg at most sells; then the entry buys, if it still works.
LEMMA Pass ==
  ASSUME Managed, k \in Nat, NEW c, NEW volume \in Nat
  PROVE  LET new  == FilledBy(c, volume)
             more == new.order["ENTRY"].filled - trade.order["ENTRY"].filled
         IN
         /\ Kept(new, k + 1) /\ Timely(new, IF more = 0 THEN bought ELSE bought \cup {k + 1})
         /\ more \in Nat /\ new.position.open \in Nat /\ new.position.open - more \in Nat
         /\ more > 0 <=> Working(trade.order["ENTRY"])
         /\ \/ /\ CanFill(c) = {} /\ Exited(new) = {} /\ new.position.open = trade.position.open + more
            \/ \E r \in CanFill(c) :
                  /\ \A s \in CanFill(c) \ {r} : Before(r, s)
                  /\ Exited(new) = {r} /\ new.position.open < trade.position.open + more
  <1>. DEFINE new  == FilledBy(c, volume)
              more == new.order["ENTRY"].filled - trade.order["ENTRY"].filled
              capacity == fill_capacity(volume)
              work == Eligible(k + 1)
  <1>0. /\ Kept(trade, k) /\ Timely(trade, bought) /\ Qty \in Nat \ {0}
        /\ k = 0 <=> trade.order["ENTRY"].filled = 0
    BY ExitAssumption DEF Managed
  <1>1. Opened \in Books /\ Opened.order = trade.order /\ Opened.position = trade.position
    BY <1>0, OpenedIs DEF Kept
  <1>2. Kept(Opened, k) /\ Timely(Opened, bought)
    BY <1>0, <1>1, Zenon DEF Kept, Timely
  <1>3. /\ Role = {"ENTRY", "HALT", "STOP", "TARGET", "TIME"} /\ trade.position.open \in Nat
        /\ \A r \in Role : /\ trade.order[r].filled \in Nat /\ trade.order[r].quantity \in Nat
                           /\ trade.order[r].after \in Nat
    BY <1>0, KeptOrders
  <1>4. /\ Legs \subseteq Role /\ Legs \subseteq EXIT_ROLES /\ EXIT_ROLES = Legs \cup {"HALT"} /\ "ENTRY" \notin EXIT_ROLES
        /\ ~Working(NoOrder)
    BY DEF Legs, EXIT_ROLES, Role, Working, NoOrder
  <1>5. /\ "HALT" \notin work
        /\ "ENTRY" \in work <=> Working(trade.order["ENTRY"])
        /\ \A r \in Legs : r \in work <=> Working(trade.order[r]) /\ trade.order[r].after <= k + 1
    BY <1>0, <1>3, <1>4 DEF Eligible, Kept
  <1>6. \A r \in Legs : Fillable(Opened, r, capacity) > 0
                          <=> trade.position.open > 0 /\ trade.order[r].filled < trade.order[r].quantity
    BY <1>0, <1>1, <1>4, FillableIs DEF Kept
  <1>7. Able(Opened, work, Hits(c), capacity) = CanFill(c)
    <2>. HIDE DEF work, capacity
    <2>. QED  BY <1>4, <1>5, <1>6 DEF Able, CanFill, Legs
  <1>. HIDE DEF work, capacity
  <1>a. \E mid :
           /\ \/ Able(Opened, work, Hits(c), capacity) = {} /\ mid = Opened
              \/ \E r \in Able(Opened, work, Hits(c), capacity) :
                    /\ \A s \in Able(Opened, work, Hits(c), capacity) \ {r} : Before(r, s)
                    /\ mid = FillExit(Opened, r, Fillable(Opened, r, capacity))
           /\ Fills(Opened, work, Hits(c), capacity, k + 1) = IF "ENTRY" \in work
                                                 THEN FillEntry(mid, Fillable(mid, "ENTRY", capacity), k + 1) ELSE mid
    BY FillsExit
  <1>b. new = Fills(Opened, work, Hits(c), capacity, k + 1)
    BY DEF FilledBy, work, capacity
  <1>8. PICK mid :
           /\ \/ CanFill(c) = {} /\ mid = Opened
              \/ \E r \in CanFill(c) :
                    /\ \A s \in CanFill(c) \ {r} : Before(r, s)
                    /\ mid = FillExit(Opened, r, Fillable(Opened, r, capacity))
           /\ new = IF "ENTRY" \in work THEN FillEntry(mid, Fillable(mid, "ENTRY", capacity), k + 1) ELSE mid
    BY <1>7, <1>a, <1>b, Zenon
  <1>. DEFINE sold == \/ /\ CanFill(c) = {} /\ mid.position.open = trade.position.open
                         /\ \A x \in EXIT_ROLES : mid.order[x].filled = trade.order[x].filled
                      \/ \E r \in CanFill(c) :
                            /\ \A s \in CanFill(c) \ {r} : Before(r, s)
                            /\ mid.position.open < trade.position.open
                            /\ mid.order[r].filled > trade.order[r].filled
                            /\ \A x \in EXIT_ROLES \ {r} : mid.order[x].filled = trade.order[x].filled
  <1>9. Kept(mid, k) /\ Timely(mid, bought) /\ mid.order["ENTRY"] = trade.order["ENTRY"] /\ sold
    <2>1. CASE CanFill(c) = {} /\ mid = Opened
      BY <1>1, <1>2, <2>1
    <2>2. ASSUME NEW r \in CanFill(c), \A s \in CanFill(c) \ {r} : Before(r, s),
                 mid = FillExit(Opened, r, Fillable(Opened, r, capacity))
          PROVE  Kept(mid, k) /\ Timely(mid, bought) /\ mid.order["ENTRY"] = trade.order["ENTRY"] /\ sold
      <3>. DEFINE q == Fillable(Opened, r, capacity)
      <3>1. r \in Legs /\ Working(Opened.order[r]) /\ Opened.order[r].filled <= Opened.order[r].quantity
        BY <1>0, <1>1, <1>4 DEF CanFill, Kept
      <3>2. q \in Nat \ {0} /\ q <= Opened.position.open /\ Opened.order[r].filled + q <= Opened.order[r].quantity
        <4>1. q > 0
          BY <1>6, <3>1 DEF CanFill
        <4>2. q \in Nat /\ q <= Opened.position.open /\ Opened.order[r].filled + q <= Opened.order[r].quantity
          BY <1>1, <3>1, FillableIs DEF capacity
        <4>. QED  BY <4>1, <4>2
      <3>. HIDE DEF q
      <3>3. mid = FillExit(Opened, r, q)
        BY <2>2 DEF q
      <3>4. Kept(mid, k) /\ Timely(mid, bought)
        BY <1>2, <3>1, <3>2, <3>3, ExitKept
      <3>5. /\ mid.position.open = trade.position.open - q
            /\ mid.order[r].filled = trade.order[r].filled + q
            /\ \A x \in Role \ {r} : mid.order[x].filled = trade.order[x].filled
            /\ mid.order["ENTRY"] = trade.order["ENTRY"]
        BY <1>1, <3>1, <3>2, <3>3, FillExitDoes
      <3>6. sold
        <4>1. \A x \in EXIT_ROLES \ {r} : mid.order[x].filled = trade.order[x].filled
          BY <1>3, <1>4, <3>5
        <4>2. mid.position.open < trade.position.open /\ mid.order[r].filled > trade.order[r].filled
          BY <1>3, <1>4, <3>1, <3>2, <3>5
        <4>. QED  BY <2>2, <4>1, <4>2, Zenon
      <3>. QED  BY <3>4, <3>5, <3>6
    <2>. QED  BY <1>8, <2>1, <2>2
  <1>. HIDE DEF sold
  <1>10. CASE ~Working(trade.order["ENTRY"])
    <2>1. new = mid /\ more = 0
      BY <1>3, <1>5, <1>8, <1>9, <1>10
    <2>2. Kept(mid, k + 1) /\ mid.position.open \in Nat
      <3>1. mid.order["TIME"].after \in Nat /\ mid.position.open \in Nat
        BY <1>3, <1>9, KeptOrders
      <3>. QED  BY <1>9, <3>1 DEF Kept
    <2>3. sold => \/ /\ CanFill(c) = {} /\ Exited(mid) = {} /\ mid.position.open = trade.position.open
                  \/ \E r \in CanFill(c) :
                        /\ \A s \in CanFill(c) \ {r} : Before(r, s)
                        /\ Exited(mid) = {r} /\ mid.position.open < trade.position.open
      <3>1. \A r \in EXIT_ROLES : trade.order[r].filled \in Nat
        BY <1>3, <1>4
      <3>2. \A r \in CanFill(c) : r \in EXIT_ROLES
        BY <1>4 DEF CanFill
      <3>3. (\A x \in EXIT_ROLES : mid.order[x].filled = trade.order[x].filled) => Exited(mid) = {}
        BY <3>1, ExitedIs
      <3>4. ASSUME NEW r \in CanFill(c), mid.order[r].filled > trade.order[r].filled,
                   \A x \in EXIT_ROLES \ {r} : mid.order[x].filled = trade.order[x].filled
            PROVE  Exited(mid) = {r}
        BY <3>1, <3>2, <3>4, ExitedIs
      <3>. QED  BY <3>3, <3>4, Zenon DEF sold
    <2>. HIDE DEF new, more, capacity, work
    <2>. QED  BY <1>3, <1>9, <1>10, <2>1, <2>2, <2>3 DEF new, more
  <1>11. CASE Working(trade.order["ENTRY"])
    <2>. DEFINE q == Fillable(mid, "ENTRY", capacity)
    <2>1. new = FillEntry(mid, q, k + 1)
      BY <1>5, <1>8, <1>11
    <2>2. q \in Nat \ {0} /\ mid.order["ENTRY"].filled + q <= Qty
      <3>1. capacity \in Nat \ {0}
        BY DEF capacity, fill_capacity, Most
      <3>2. /\ trade.order["ENTRY"].filled \in Nat /\ trade.order["ENTRY"].filled < Qty
            /\ trade.order["ENTRY"].quantity = Qty
        <4>1. trade.order["ENTRY"].filled # Qty
          BY <1>0, <1>11 DEF Kept, Working
        <4>2. trade.order["ENTRY"].filled <= trade.order["ENTRY"].quantity /\ trade.order["ENTRY"].quantity = Qty
          BY <1>0, <1>3 DEF Kept
        <4>. QED  BY <1>0, <1>3, <4>1, <4>2
      <3>. HIDE DEF capacity
      <3>3. q = Least(Qty - trade.order["ENTRY"].filled, capacity)
        BY <1>4, <1>9, <3>2 DEF Fillable
      <3>. QED  BY <1>0, <1>9, <3>1, <3>2, <3>3 DEF Least
    <2>. HIDE DEF new, more, capacity, work, q
    <2>3. /\ Kept(new, k + 1) /\ Timely(new, bought \cup {k + 1})
          /\ new.order["ENTRY"].filled = mid.order["ENTRY"].filled + q
          /\ new.position.open = mid.position.open + q
          /\ \A r \in Legs \cup {"HALT"} : new.order[r].filled = mid.order[r].filled
      <3>1. Working(mid.order["ENTRY"]) /\ (k = 0 <=> mid.order["ENTRY"].filled = 0)
        BY <1>0, <1>9, <1>11
      <3>. QED  BY <1>9, <2>1, <2>2, <3>1, EntryKept
    <2>4. mid.position.open \in Nat
      BY <1>9, KeptOrders
    <2>5. more = q /\ more > 0
      BY <1>3, <1>9, <2>2, <2>3 DEF more
    <2>6. \A x \in EXIT_ROLES : new.order[x].filled = mid.order[x].filled
      BY <1>4, <2>3
    <2>7. sold => \/ /\ CanFill(c) = {} /\ Exited(new) = {} /\ new.position.open = trade.position.open + q
                  \/ \E r \in CanFill(c) :
                        /\ \A s \in CanFill(c) \ {r} : Before(r, s)
                        /\ Exited(new) = {r} /\ new.position.open < trade.position.open + q
      <3>1. \A r \in EXIT_ROLES : trade.order[r].filled \in Nat
        BY <1>3, <1>4
      <3>2. \A r \in CanFill(c) : r \in EXIT_ROLES
        BY <1>4 DEF CanFill
      <3>3. CASE CanFill(c) = {} /\ mid.position.open = trade.position.open
                 /\ \A x \in EXIT_ROLES : mid.order[x].filled = trade.order[x].filled
        <4>1. Exited(new) = {}
          BY <2>6, <3>1, <3>3, ExitedIs
        <4>. QED  BY <2>3, <3>3, <4>1
      <3>4. ASSUME NEW r \in CanFill(c), \A s \in CanFill(c) \ {r} : Before(r, s),
                   mid.position.open < trade.position.open, mid.order[r].filled > trade.order[r].filled,
                   \A x \in EXIT_ROLES \ {r} : mid.order[x].filled = trade.order[x].filled
            PROVE  Exited(new) = {r} /\ new.position.open < trade.position.open + q
        <4>1. Exited(new) = {r}
          BY <2>6, <3>1, <3>2, <3>4, ExitedIs
        <4>2. new.position.open < trade.position.open + q
          BY <1>3, <2>2, <2>3, <2>4, <3>4
        <4>. QED  BY <4>1, <4>2
      <3>. QED  BY <3>3, <3>4, Zenon DEF sold
    <2>. QED  BY <1>9, <1>11, <2>2, <2>3, <2>4, <2>5, <2>7 DEF new, more
  <1>. QED  BY <1>10, <1>11

LEMMA QueueTimeDoes ==
  ASSUME NEW tr \in Books, NEW after \in Nat
  PROVE  LET new == QueueTime(tr, after) IN
         /\ new \in Books /\ new.position = tr.position /\ new.closed = tr.closed
         /\ \A r \in Role \ {"TIME"} : new.order[r] = tr.order[r]
         /\ new.order["TIME"] = IF Running(tr.position) /\ tr.position.open > 0 /\ tr.order["TIME"] = NoOrder
                                THEN NewOrder(tr.position.open, after) ELSE tr.order["TIME"]
  <1>1. tr.order \in [Role -> Order] /\ tr.position.open \in Nat /\ "TIME" \in Role
    BY DEF Books, Role, EXIT_ROLES
  <1>2. CASE Running(tr.position) /\ tr.position.open > 0 /\ tr.order["TIME"] = NoOrder
    <2>. DEFINE o == NewOrder(tr.position.open, after)
    <2>1. o \in Order
      BY <1>1 DEF NewOrder, Order
    <2>2. QueueTime(tr, after) = [tr EXCEPT !.order = [tr.order EXCEPT !["TIME"] = o]]
      BY <1>2 DEF QueueTime
    <2>. HIDE DEF o
    <2>3. [tr.order EXCEPT !["TIME"] = o] \in [Role -> Order]
      BY <1>1, <2>1
    <2>. QED  BY <1>1, <1>2, <2>1, <2>2, <2>3 DEF Books, o
  <1>3. CASE ~(Running(tr.position) /\ tr.position.open > 0 /\ tr.order["TIME"] = NoOrder)
    BY <1>3 DEF QueueTime
  <1>. QED  BY <1>2, <1>3


LEMMA QueueTimeKept ==
  ASSUME NEW tr, NEW n \in Nat, NEW b, Kept(tr, n), Timely(tr, b)
  PROVE  LET new == QueueTime(tr, n + 1) IN
         /\ Kept(new, n) /\ Timely(new, b)
         /\ new.position = tr.position /\ new.order["ENTRY"] = tr.order["ENTRY"]
         /\ tr.position.open > 0 => new.order["TIME"] # NoOrder
  <1>. DEFINE new == QueueTime(tr, n + 1)
  <1>1. /\ new \in Books /\ new.position = tr.position /\ new.closed = tr.closed
        /\ \A r \in Role \ {"TIME"} : new.order[r] = tr.order[r]
        /\ new.order["TIME"] = IF Running(tr.position) /\ tr.position.open > 0 /\ tr.order["TIME"] = NoOrder
                                THEN NewOrder(tr.position.open, n + 1) ELSE tr.order["TIME"]
    BY QueueTimeDoes DEF Kept
  <1>2. /\ NewOrder(tr.position.open, n + 1).filled = 0 /\ NewOrder(tr.position.open, n + 1).quantity = tr.position.open
        /\ NewOrder(tr.position.open, n + 1).after = n + 1 /\ Working(NewOrder(tr.position.open, n + 1))
        /\ NewOrder(tr.position.open, n + 1) # NoOrder
    BY DEF NewOrder, Working, NoOrder
  <1>3. NoOrder.filled = 0
    BY DEF NoOrder
  <1>4. tr.position.open \in Nat /\ Role = {"ENTRY", "HALT", "STOP", "TARGET", "TIME"}
    BY KeptOrders
  <1>e. new.order["ENTRY"] = tr.order["ENTRY"]
    BY <1>1, <1>4
  <1>. HIDE DEF new
  <1>5. CASE new.order["TIME"] = tr.order["TIME"]
    <2>1. \A r \in Role : new.order[r] = tr.order[r]
      BY <1>1, <1>5
    <2>2. Kept(new, n)
      BY <1>1, <1>4, <2>1 DEF Kept, Legs
    <2>3. Timely(new, b)
      BY <1>1, <1>5, Zenon DEF Timely
    <2>4. tr.position.open > 0 => Running(tr.position)
      BY DEF Kept
    <2>. QED  BY <1>1, <1>2, <1>5, <1>e, <2>2, <2>3, <2>4 DEF new
  <1>6. CASE new.order["TIME"] # tr.order["TIME"]
    <2>1. /\ tr.order["TIME"] = NoOrder /\ new.order["TIME"] = NewOrder(tr.position.open, n + 1)
          /\ tr.position.open > 0
      BY <1>1, <1>6
    <2>2. tr.order["ENTRY"].filled # 0
      <3>1. /\ \A r \in Role : tr.order[r].filled \in Nat
            /\ tr.position.open + tr.order["STOP"].filled + tr.order["TARGET"].filled + tr.order["TIME"].filled
                 = tr.order["ENTRY"].filled
        BY KeptOrders DEF Kept
      <3>. QED  BY <1>4, <2>1, <3>1
    <2>3. Kept(new, n)
      <3>1. /\ tr.order["HALT"] = NoOrder
            /\ tr.order["ENTRY"].quantity = Qty /\ tr.order["ENTRY"].after = 1
            /\ tr.order["ENTRY"].status = IF tr.order["ENTRY"].filled = Qty THEN "FILLED"
                                          ELSE IF tr.order["ENTRY"].filled = 0 THEN "PENDING" ELSE "PARTIALLY_FILLED"
            /\ \A r \in Role : tr.order[r].filled <= tr.order[r].quantity
            /\ tr.position.open + tr.order["STOP"].filled + tr.order["TARGET"].filled + tr.order["TIME"].filled
                 = tr.order["ENTRY"].filled
            /\ tr.position.open > 0 => Running(tr.position)
            /\ tr.order["ENTRY"].filled > 0 =>
                  tr.position.status # "none" /\ \A r \in {"STOP", "TARGET"} : tr.order[r].status # "none"
            /\ tr.position.open > 0 /\ tr.position.open = tr.order["ENTRY"].filled =>
                  \A r \in {"STOP", "TARGET"} :
                     Working(tr.order[r]) /\ tr.order[r].quantity = tr.position.open /\ tr.order[r].after = 2
        BY DEF Kept
      <3>2. \A r \in Role : new.order[r].filled <= new.order[r].quantity
        BY <1>1, <1>2, <1>4, <2>1, <3>1
      <3>3. new.order["TIME"] # NoOrder => new.order["TIME"].after <= n + 1
        BY <1>2, <2>1
      <3>4. new.order["STOP"] = tr.order["STOP"] /\ new.order["TARGET"] = tr.order["TARGET"] /\ new.order["HALT"] = tr.order["HALT"]
        BY <1>1, <1>4
      <3>. QED  BY <1>1, <1>2, <1>3, <1>e, <2>1, <2>2, <3>1, <3>2, <3>3, <3>4 DEF Kept
    <2>4. Timely(new, b)
      BY <1>1, <1>2, <1>4, <2>1 DEF Timely
    <2>. QED  BY <1>1, <1>2, <1>e, <2>1, <2>3, <2>4 DEF new
  <1>. QED  BY <1>5, <1>6

-----------------------------------------------------------------------------
\* What is dealt with, and since when.
Exit    == {NotLeft} \cup [why : Legs, at : Int, k : Nat]
Measure == [open : BOOLEAN, paid : Int, stop : Int, left : Exit]
Dealt ==
    /\ rules.trailing \in {"NONE", "BREAKEVEN_AT_R", "ATR_TRAIL"} /\ rules.limit \in Nat /\ rules.square_off \in Nat
    /\ signal.side \in {"LONG", "SHORT"} /\ signal.stop \in Int /\ signal.target \in Int
    /\ k \in 0..MaxCandle /\ minute \in k..2 * k
    /\ bought \in SUBSET (1..k) /\ moved \in SUBSET (1..k)
    /\ stop \in Int /\ entry \in Int /\ left \in Exit /\ test \in Measure

Untraded == /\ left = NotLeft /\ bought = {} /\ moved = {}
            /\ test = [open |-> FALSE, paid |-> 0, stop |-> 0, left |-> NotLeft]

\* The stop of the trade is never behind its plan; where it is tells what moved it.
Grounded ==
    /\ ~Better(signal.stop, stop)
    /\ moved = {} => stop = signal.stop
    /\ rules.trailing = "BREAKEVEN_AT_R" /\ (\E m \in moved : \A b \in bought : b <= m) => stop = entry

\* What the backtest does not measure.
Unmeasured ==
    \/ rules.trailing = "ATR_TRAIL" \/ left.why = "TIME" \/ 1 \in moved
    \/ rules.trailing = "BREAKEVEN_AT_R" /\ Averaged

\* As long as neither has left, the two hold the same at the same stop; an entry
\* that took one candle was paid what the backtest paid.
Measured ==
    /\ left = NotLeft => trade.position.open = trade.order["ENTRY"].filled
    /\ bought \subseteq {1} => entry = test.paid
    /\ ~Unmeasured =>
          /\ left = NotLeft => test.open = TRUE /\ test.stop = stop /\ test.left = NotLeft
          /\ left # NotLeft => test.open = FALSE /\ test.left = left

TradeInv == /\ Dealt /\ Managed
            /\ k = 0 => Untraded
            /\ k # 0 => Grounded /\ Measured

LEMMA Times == \A a, b \in Int : a * b \in Int
  OBVIOUS

LEMMA Trails ==
  ASSUME Dealt, NEW c \in Candle, NEW paid \in Int, NEW current \in Int, NEW atr \in Int
  PROVE  /\ trail_to(c, paid, current, atr) \in Int
         /\ ~Better(current, trail_to(c, paid, current, atr))
         /\ ~Better(signal.stop, current) => ~Better(signal.stop, trail_to(c, paid, current, atr))
         /\ rules.trailing = "BREAKEVEN_AT_R" => trail_to(c, paid, current, atr) \in {current, paid}
         /\ rules.trailing = "NONE" => trail_to(c, paid, current, atr) = current
  <1>. DEFINE level == Level(c, paid, atr)
              to    == trail_to(c, paid, current, atr)
  <1>1. level \in Int
    <2>1. Extreme(c) \in Int
      <3>1. c.high \in Price /\ c.low \in Price
        BY DEF Candle
      <3>2. \A p \in Price : p \in Int
        BY ExitAssumption
      <3>3. c.high \in Int /\ c.low \in Int
        BY <3>1, <3>2
      <3>. QED  BY <3>3 DEF Extreme
    <2>2. toward(signal.side) \in Int /\ TrailAtr \in Int
      BY ExitAssumption DEF toward
    <2>3. toward(signal.side) * atr * TrailAtr \in Int
      BY <2>2, Times
    <2>. QED  BY <2>1, <2>3 DEF Level
  <1>2. to = current \/ (to = level /\ Better(level, current))
    BY DEF trail_to
  <1>3. rules.trailing = "BREAKEVEN_AT_R" => level = paid
    BY DEF Level
  <1>n. rules.trailing = "NONE" => to = current
    BY DEF trail_to, Asks
  <1>. HIDE DEF level, to
  <1>4. to \in Int /\ ~Better(current, to) /\ (~Better(signal.stop, current) => ~Better(signal.stop, to))
    BY <1>1, <1>2 DEF Dealt, Better, Ahead
  <1>. QED  BY <1>2, <1>3, <1>4, <1>n DEF to

LEMMA Slipped ==
  ASSUME Dealt, NEW p \in Int
  PROVE  /\ slipped_price(p, exit_side) \in Int
         /\ slipped_price(p, exit_side) + toward(signal.side) * Slippage = p
  <1>1. Slippage \in Int
    BY ExitAssumption
  <1>2. CASE signal.side = "LONG"
    BY <1>1, <1>2 DEF slipped_price, exit_side, toward
  <1>3. CASE signal.side = "SHORT"
    <2>1. toward(signal.side) = -1 /\ slipped_price(p, exit_side) = p + Slippage
      BY <1>3 DEF slipped_price, exit_side, toward
    <2>2. (-1) * Slippage = -Slippage
      BY <1>1
    <2>. QED  BY <1>1, <2>1, <2>2
  <1>. QED  BY <1>2, <1>3 DEF Dealt

-----------------------------------------------------------------------------
(* What the entry was paid.                                                  *)

LEMMA Quotient ==
  ASSUME NEW p \in Int, NEW m \in Nat \ {0}, NEW r \in 0..(m - 1)
  PROVE  (p * m + r) \div m = p
  <1>. DEFINE x == p * m + r
              d == x \div m
              e == x % m
  <1>1. x \in Int /\ p * m \in Int
    BY Times
  <1>2. d \in Int /\ e \in 0..(m - 1) /\ x = m * d + e
    <2>. HIDE DEF x
    <2>. QED  BY <1>1
  <1>. HIDE DEF d, e
  <1>3. CASE d > p
    <2>1. d = p + (d - p - 1) + 1 /\ d - p - 1 \in Nat
      BY <1>2, <1>3
    <2>2. m * d = p * m + m * (d - p - 1) + m /\ m * (d - p - 1) \in Nat
      BY <1>2, <2>1
    <2>. QED  BY <1>1, <1>2, <2>2
  <1>4. CASE d < p
    <2>1. p = d + (p - d - 1) + 1 /\ p - d - 1 \in Nat
      BY <1>2, <1>4
    <2>2. p * m = m * d + m * (p - d - 1) + m /\ m * (p - d - 1) \in Nat /\ m * d \in Int
      BY <1>2, <2>1
    <2>. QED  BY <1>1, <1>2, <2>2
  <1>. QED  BY <1>2, <1>3, <1>4 DEF d

\* The first fill is paid its own price; the mean of any is a price.
LEMMA RoundedMeanIs ==
  ASSUME NEW a \in Int, NEW p \in Int, NEW held \in Nat, NEW more \in Nat \ {0}
  PROVE  RoundedMean(a, held, p, more) \in Int /\ (held = 0 => RoundedMean(a, held, p, more) = p)
  <1>1. a * held \in Int /\ p * more \in Int
    BY Times
  <1>2. RoundedMean(a, held, p, more) \in Int
    <2>. DEFINE x == a * held
                y == p * more
    <2>1. x \in Int /\ y \in Int
      BY <1>1
    <2>. HIDE DEF x, y
    <2>2. 2 * (x + y) + held + more \in Int /\ 2 * (held + more) \in Nat \ {0}
      BY <2>1
    <2>3. \A u \in Int, w \in Nat \ {0} : u \div w \in Int
      OBVIOUS
    <2>4. (2 * (x + y) + held + more) \div (2 * (held + more)) \in Int
      BY <2>2, <2>3
    <2>. QED  BY <2>4 DEF RoundedMean, x, y
  <1>3. CASE held = 0
    <2>. DEFINE w == 2 * more
    <2>1. w \in Nat \ {0} /\ more \in 0..(w - 1)
      OBVIOUS
    <2>2. 2 * (a * held + p * more) + held + more = p * w + more /\ 2 * (held + more) = w
      <3>1. a * held = 0
        BY <1>3
      <3>2. 2 * (p * more) = p * (2 * more)
        OBVIOUS
      <3>. QED  BY <1>1, <1>3, <3>1, <3>2
    <2>. HIDE DEF w
    <2>3. (p * w + more) \div w = p
      BY <2>1, Quotient
    <2>. QED  BY <1>2, <2>2, <2>3 DEF RoundedMean
  <1>. QED  BY <1>2, <1>3

-----------------------------------------------------------------------------
(* One candle.                                                               *)

Passes(c, volume, atr) ==
    /\ c \in Candle /\ volume \in Nat /\ atr \in Nat
    /\ PaperPass(c, minute', volume, atr) /\ TestPass(c)
    /\ rules.trailing # "ATR_TRAIL" => atr = 0
    /\ k < MaxCandle /\ k' = k + 1 /\ minute' \in k'..2 * k'
    /\ rules' = rules /\ signal' = signal

LEMMA OneCandle ==
  ASSUME Dealt, Next
  PROVE  \E c, volume, atr : Passes(c, volume, atr)
  <1>1. Qty \in Nat /\ Width \in Nat /\ k \in Nat /\ minute \in k..2 * k /\ MaxCandle \in Nat
    BY ExitAssumption DEF Dealt
  <1>2. /\ k < MaxCandle /\ k' = k + 1 /\ rules' = rules /\ signal' = signal
        /\ \E c \in Traded, minutes \in {1, 2}, volume \in {0, Qty},
              atr \in IF rules.trailing = "ATR_TRAIL" THEN 0..Width ELSE {0} :
             minute' = minute + minutes /\ PaperPass(c, minute', volume, atr) /\ TestPass(c)
    BY DEF Next
  <1>3. PICK c \in Traded, minutes \in {1, 2}, volume \in {0, Qty},
             atr \in IF rules.trailing = "ATR_TRAIL" THEN 0..Width ELSE {0} :
           minute' = minute + minutes /\ PaperPass(c, minute', volume, atr) /\ TestPass(c)
    BY <1>2
  <1>4. c \in Candle /\ volume \in Nat /\ atr \in Nat /\ (rules.trailing # "ATR_TRAIL" => atr = 0)
    BY <1>1 DEF Traded
  <1>5. minute' \in k'..2 * k'
    BY <1>1, <1>2, <1>3
  <1>. QED  BY <1>2, <1>3, <1>4, <1>5 DEF Passes

More(c, volume) == FilledBy(c, volume).order["ENTRY"].filled - trade.order["ENTRY"].filled
Paid(c, volume) ==
    IF More(c, volume) = 0 THEN entry
    ELSE RoundedMean(entry, FilledBy(c, volume).position.open - More(c, volume),
                     slipped_price(c.open, entry_side), More(c, volume))
Since   == IF k + 1 = 1 THEN minute' ELSE opened
Resting == IF k + 1 = 1 THEN signal.stop ELSE stop

\* What the pass does, by name.
LEMMA PassDoes ==
  ASSUME NEW c, NEW volume, NEW atr, PaperPass(c, minute', volume, atr)
  PROVE  LET filled == FilledBy(c, volume)
             managed == filled.position.open > 0
         IN
         /\ trade' = IF managed /\ time_exit_due(Since, minute') THEN QueueTime(filled, k + 1 + 1) ELSE filled
         /\ stop' = IF managed /\ Working(filled.order["STOP"])
                    THEN trail_to(c, Paid(c, volume), Resting, atr) ELSE Resting
         /\ entry' = Paid(c, volume) /\ opened' = Since
         /\ bought' = IF More(c, volume) = 0 THEN bought ELSE bought \cup {k + 1}
         /\ moved' = IF stop' = Resting THEN moved ELSE moved \cup {k + 1}
         /\ left # NotLeft \/ Exited(filled) = {} => left' = left
         /\ \A r : left = NotLeft /\ Exited(filled) = {r} =>
              left' = [why |-> r, at |-> slipped_price(Reference(r, c), exit_side), k |-> k + 1]
  <1>1. /\ trade' = IF FilledBy(c, volume).position.open > 0 /\ time_exit_due(Since, minute')
                    THEN QueueTime(FilledBy(c, volume), k + 1 + 1) ELSE FilledBy(c, volume)
        /\ stop' = IF FilledBy(c, volume).position.open > 0 /\ Working(FilledBy(c, volume).order["STOP"])
                    THEN trail_to(c, Paid(c, volume), Resting, atr) ELSE Resting
        /\ entry' = Paid(c, volume) /\ opened' = Since
        /\ bought' = IF More(c, volume) = 0 THEN bought ELSE bought \cup {k + 1}
        /\ moved' = IF (IF FilledBy(c, volume).position.open > 0 /\ Working(FilledBy(c, volume).order["STOP"])
                        THEN trail_to(c, Paid(c, volume), Resting, atr) ELSE Resting) = Resting
                    THEN moved ELSE moved \cup {k + 1}
        /\ left' = IF left # NotLeft \/ Exited(FilledBy(c, volume)) = {} THEN left
                   ELSE LET r == CHOOSE r \in Exited(FilledBy(c, volume)) : TRUE
                        IN [why |-> r, at |-> slipped_price(Reference(r, c), exit_side), k |-> k + 1]
    BY DEF PaperPass, FilledBy, Opened, More, Paid, Since, Resting
  <1>. HIDE DEF PaperPass
  <1>2. \A r : Exited(FilledBy(c, volume)) = {r} => (CHOOSE x \in Exited(FilledBy(c, volume)) : TRUE) = r
    OBVIOUS
  <1>. QED  BY <1>1, <1>2

\* The orders and the clock.
LEMMA Manages ==
  ASSUME TradeInv, NEW c, NEW volume, NEW atr, Passes(c, volume, atr)
  PROVE  LET new == FilledBy(c, volume) IN
         /\ Managed'
         /\ trade'.position = new.position /\ trade'.order["ENTRY"] = new.order["ENTRY"]
         /\ Kept(new, k + 1)
  <1>. DEFINE new == FilledBy(c, volume)
              more == More(c, volume)
  <1>0. /\ Managed /\ k \in Nat /\ volume \in Nat /\ minute' \in Nat /\ k' = k + 1 /\ rules' = rules
        /\ PaperPass(c, minute', volume, atr)
    BY ExitAssumption DEF TradeInv, Dealt, Passes
  <1>1. /\ Kept(new, k + 1) /\ Timely(new, IF more = 0 THEN bought ELSE bought \cup {k + 1})
        /\ more \in Nat /\ (more > 0 <=> Working(trade.order["ENTRY"]))
    BY <1>0, Pass DEF More
  <1>2. /\ trade' = IF new.position.open > 0 /\ time_exit_due(Since, minute') THEN QueueTime(new, k + 1 + 1) ELSE new
        /\ bought' = IF more = 0 THEN bought ELSE bought \cup {k + 1}
        /\ opened' = Since
    BY <1>0, PassDoes
  <1>3. new.order["ENTRY"].filled = trade.order["ENTRY"].filled + more /\ new.order["ENTRY"].filled > 0
    <2>1. /\ trade.order["ENTRY"].filled \in Nat /\ new.order["ENTRY"].filled \in Nat
      BY <1>0, <1>1, KeptOrders DEF Managed
    <2>2. k = 0 => Working(trade.order["ENTRY"])
      BY <1>0, ExitAssumption DEF Managed, Kept, Working
    <2>3. k # 0 => trade.order["ENTRY"].filled # 0
      BY <1>0 DEF Managed
    <2>. QED  BY <1>1, <2>1, <2>2, <2>3 DEF More
  <1>4. Since \in Nat /\ (time_exit_due(opened, minute)' <=> time_exit_due(Since, minute'))
    BY <1>0, <1>2 DEF Since, Managed, time_exit_due
  <1>. HIDE DEF new, more
  <1>5. CASE new.position.open > 0 /\ time_exit_due(Since, minute')
    <2>1. trade' = QueueTime(new, k + 1 + 1) /\ Timely(new, bought')
      BY <1>1, <1>2, <1>5
    <2>2. k + 1 \in Nat
      BY <1>0
    <2>3. /\ Kept(trade', k + 1) /\ Timely(trade', bought')
          /\ trade'.position = new.position /\ trade'.order["ENTRY"] = new.order["ENTRY"]
          /\ new.position.open > 0 => trade'.order["TIME"] # NoOrder
      BY <1>1, <2>1, <2>2, QueueTimeKept
    <2>4. Managed'
      <3>1. Kept(trade', k') /\ Timely(trade', bought')
        BY <1>0, <2>3
      <3>2. Kept(trade, k)' /\ Timely(trade, bought)'
        BY <3>1 DEF Kept, Timely
      <3>. QED  BY <1>0, <1>2, <1>3, <1>4, <1>5, <2>3, <3>2 DEF Managed
    <2>. QED  BY <1>1, <2>3, <2>4 DEF new
  <1>6. CASE ~(new.position.open > 0 /\ time_exit_due(Since, minute'))
    <2>1. trade' = new
      BY <1>2, <1>6
    <2>2. Managed'
      <3>1. Kept(trade', k') /\ Timely(trade', bought')
        BY <1>0, <1>1, <1>2, <2>1
      <3>2. Kept(trade, k)' /\ Timely(trade, bought)'
        BY <3>1 DEF Kept, Timely
      <3>. QED  BY <1>0, <1>2, <1>3, <1>4, <1>6, <2>1, <3>2 DEF Managed
    <2>. QED  BY <1>1, <2>1, <2>2 DEF new
  <1>. QED  BY <1>5, <1>6

LEMMA Unheld ==
  ASSUME Managed, k = 0
  PROVE  trade.position.open = 0
  <1>1. /\ \A r \in Role : trade.order[r].filled \in Nat
        /\ Role = {"ENTRY", "HALT", "STOP", "TARGET", "TIME"} /\ trade.position.open \in Nat
    BY KeptOrders DEF Managed
  <1>2. trade.order["ENTRY"].filled = 0
    BY DEF Managed
  <1>3. trade.position.open + trade.order["STOP"].filled + trade.order["TARGET"].filled + trade.order["TIME"].filled
          = trade.order["ENTRY"].filled
    BY DEF Managed, Kept
  <1>4. /\ trade.order["STOP"].filled \in Nat /\ trade.order["TARGET"].filled \in Nat
        /\ trade.order["TIME"].filled \in Nat
    BY <1>1
  <1>. QED  BY <1>1, <1>2, <1>3, <1>4

\* What was paid, and on which candles.
LEMMA Pays ==
  ASSUME TradeInv, NEW c, NEW volume, NEW atr, Passes(c, volume, atr)
  PROVE  /\ Paid(c, volume) \in Int
         /\ More(c, volume) \in Nat /\ (k = 0 => More(c, volume) > 0 /\ Paid(c, volume) = slipped_price(c.open, entry_side))
         /\ entry' = Paid(c, volume) /\ (More(c, volume) = 0 => entry' = entry)
         /\ bought' = IF More(c, volume) = 0 THEN bought ELSE bought \cup {k + 1}
         /\ bought' \in SUBSET (1..k')
  <1>. DEFINE new == FilledBy(c, volume)
              more == More(c, volume)
              held == new.position.open - more
              price == slipped_price(c.open, entry_side)
  <1>0. /\ Managed /\ k \in Nat /\ volume \in Nat /\ k' = k + 1 /\ entry \in Int /\ bought \in SUBSET (1..k)
        /\ PaperPass(c, minute', volume, atr) /\ c \in Candle
    BY ExitAssumption DEF TradeInv, Dealt, Passes
  <1>1. /\ Kept(new, k + 1) /\ more \in Nat /\ (more > 0 <=> Working(trade.order["ENTRY"])) /\ new.position.open \in Nat
    BY <1>0, Pass DEF More
  <1>2. /\ entry' = Paid(c, volume)
        /\ bought' = IF more = 0 THEN bought ELSE bought \cup {k + 1}
    BY <1>0, PassDoes
  <1>3. price \in Int
    <2>1. c.open \in Price
      BY <1>0 DEF Candle
    <2>2. Slippage \in Int /\ \A p \in Price : p \in Int
      BY ExitAssumption
    <2>3. c.open \in Int
      BY <2>1, <2>2
    <2>. QED  BY <2>2, <2>3 DEF slipped_price
  <1>4. k = 0 => more > 0
    BY <1>0, <1>1, ExitAssumption DEF Managed, Kept, Working
  <1>5. held \in Nat /\ (k = 0 => held = 0)
    <2>1. /\ \A r \in Role : trade.order[r].filled \in Nat
          /\ \A r \in Role : new.order[r].filled \in Nat
          /\ Role = {"ENTRY", "HALT", "STOP", "TARGET", "TIME"}
          /\ trade.position.open \in Nat
      BY <1>0, <1>1, KeptOrders DEF Managed
    <2>2. /\ new.position.open - more \in Nat
          /\ \/ new.position.open = trade.position.open + more
             \/ \E r \in CanFill(c) : TRUE
      BY <1>0, Pass DEF More
    <2>3. k = 0 => trade.position.open = 0
      BY <1>0, Unheld
    <2>4. k = 0 => CanFill(c) = {}
      BY <2>3 DEF CanFill
    <2>. HIDE DEF new, more
    <2>. QED  BY <1>1, <2>1, <2>2, <2>3, <2>4
  <1>. HIDE DEF new, held, price, more
  <1>6. more # 0 => Paid(c, volume) = RoundedMean(entry, held, price, more)
    BY DEF Paid, more, held, price, new
  <1>7. more = 0 => Paid(c, volume) = entry
    BY DEF Paid, more
  <1>8. Paid(c, volume) \in Int /\ (k = 0 => Paid(c, volume) = price)
    BY <1>0, <1>1, <1>3, <1>4, <1>5, <1>6, <1>7, RoundedMeanIs
  <1>9. bought' \in SUBSET (1..k')
    BY <1>0, <1>2
  <1>. QED  BY <1>1, <1>2, <1>4, <1>7, <1>8, <1>9 DEF more, price

\* Where the stop is, and what moved it.
LEMMA Stops ==
  ASSUME TradeInv, NEW c, NEW volume, NEW atr, Passes(c, volume, atr)
  PROVE  LET new == FilledBy(c, volume) IN
         /\ stop' \in Int /\ ~Better(signal.stop, stop')
         /\ moved' = IF stop' = Resting THEN moved ELSE moved \cup {k + 1}
         /\ moved' \in SUBSET (1..k')
         /\ rules.trailing = "BREAKEVEN_AT_R" => stop' \in {Resting, entry'}
         /\ rules.trailing = "NONE" => stop' = Resting
         /\ new.position.open > 0 /\ new.position.open = new.order["ENTRY"].filled =>
               stop' = trail_to(c, entry', Resting, atr)
  <1>. DEFINE new == FilledBy(c, volume)
              paid == Paid(c, volume)
              to == trail_to(c, paid, Resting, atr)
  <1>0. /\ Dealt /\ k \in Nat /\ k' = k + 1 /\ atr \in Int /\ c \in Candle /\ moved \in SUBSET (1..k)
        /\ PaperPass(c, minute', volume, atr)
        /\ rules.trailing \in {"NONE", "BREAKEVEN_AT_R", "ATR_TRAIL"}
    BY ExitAssumption DEF TradeInv, Dealt, Passes
  <1>1. paid \in Int /\ entry' = paid
    BY Pays
  <1>2. Resting \in Int /\ ~Better(signal.stop, Resting)
    <2>1. ~Better(signal.stop, signal.stop)
      BY <1>0 DEF Better, Ahead, Dealt
    <2>2. k # 0 => ~Better(signal.stop, stop)
      BY DEF TradeInv, Grounded
    <2>. QED  BY <1>0, <2>1, <2>2 DEF Resting, Dealt
  <1>3. /\ stop' = IF new.position.open > 0 /\ Working(new.order["STOP"]) THEN to ELSE Resting
        /\ moved' = IF stop' = Resting THEN moved ELSE moved \cup {k + 1}
    BY <1>0, PassDoes
  <1>4. Kept(new, k + 1)
    BY Manages
  <1>5. /\ to \in Int
        /\ ~Better(signal.stop, Resting) => ~Better(signal.stop, to)
        /\ rules.trailing = "BREAKEVEN_AT_R" => to \in {Resting, paid}
        /\ rules.trailing = "NONE" => to = Resting
    <2>. HIDE DEF paid
    <2>. QED  BY <1>0, <1>1, <1>2, Trails
  <1>6. new.position.open > 0 /\ new.position.open = new.order["ENTRY"].filled => Working(new.order["STOP"])
    <2>. HIDE DEF new
    <2>. QED  BY <1>4 DEF Kept
  <1>7. moved' \in SUBSET (1..k')
    BY <1>0, <1>3
  <1>8. new.position.open > 0 /\ new.position.open = new.order["ENTRY"].filled => stop' = trail_to(c, entry', Resting, atr)
    <2>. HIDE DEF new, paid
    <2>. QED  BY <1>1, <1>3, <1>6
  <1>. HIDE DEF new, to, paid
  <1>9. /\ stop' \in Int /\ ~Better(signal.stop, stop')
        /\ rules.trailing = "BREAKEVEN_AT_R" => stop' \in {Resting, entry'}
        /\ rules.trailing = "NONE" => stop' = Resting
    BY <1>1, <1>2, <1>3, <1>5
  <1>. QED  BY <1>3, <1>7, <1>8, <1>9 DEF new

\* One leg at most begins the exit.
LEMMA Leaves ==
  ASSUME TradeInv, NEW c, NEW volume, NEW atr, Passes(c, volume, atr)
  PROVE  LET new == FilledBy(c, volume) IN
         /\ left' \in Exit
         /\ left # NotLeft => left' = left
         /\ k = 0 => CanFill(c) = {}
         /\ \/ /\ CanFill(c) = {} /\ left' = left
               /\ new.position.open = trade.position.open + More(c, volume)
            \/ \E r \in CanFill(c) :
                  /\ \A s \in CanFill(c) \ {r} : Before(r, s)
                  /\ new.position.open < trade.position.open + More(c, volume)
                  /\ left = NotLeft =>
                       left' = [why |-> r, at |-> slipped_price(Reference(r, c), exit_side), k |-> k + 1]
  <1>. DEFINE new == FilledBy(c, volume)
              more == More(c, volume)
              x(r) == [why |-> r, at |-> slipped_price(Reference(r, c), exit_side), k |-> k + 1]
  <1>a. Dealt /\ Managed /\ c \in Candle /\ volume \in Nat /\ PaperPass(c, minute', volume, atr)
    BY DEF TradeInv, Passes
  <1>0. /\ Dealt /\ Managed /\ k \in Nat /\ c \in Candle /\ volume \in Nat /\ left \in Exit
        /\ PaperPass(c, minute', volume, atr)
    BY <1>a, ExitAssumption DEF Dealt
  <1>1. /\ left # NotLeft \/ Exited(new) = {} => left' = left
        /\ \A r : left = NotLeft /\ Exited(new) = {r} => left' = x(r)
    BY <1>0, PassDoes
  <1>2. \/ CanFill(c) = {} /\ Exited(new) = {} /\ new.position.open = trade.position.open + more
        \/ \E r \in CanFill(c) :
               /\ \A s \in CanFill(c) \ {r} : Before(r, s)
               /\ Exited(new) = {r} /\ new.position.open < trade.position.open + more
    BY <1>0, Pass DEF More
  <1>3. \A r \in CanFill(c) : x(r) \in Exit
    <2>1. c.open \in Int
      <3>1. \A p \in Price : p \in Int
        BY ExitAssumption
      <3>. QED  BY <1>0, <3>1 DEF Candle
    <2>2. \A r \in CanFill(c) : Reference(r, c) \in {stop, signal.target, c.open}
      BY DEF Reference, CanFill, Legs
    <2>3. \A r \in CanFill(c) : slipped_price(Reference(r, c), exit_side) \in Int
      BY <1>0, <2>1, <2>2, Slipped DEF Dealt
    <2>4. \A r \in CanFill(c) : r \in Legs
      BY DEF CanFill
    <2>. QED  BY <1>0, <2>3, <2>4 DEF Exit
  <1>4. k = 0 => CanFill(c) = {}
    <2>5. k = 0 => trade.position.open = 0
      BY <1>0, Unheld
    <2>. QED  BY <2>5 DEF CanFill
  <1>. HIDE DEF new, more, x
  <1>5. left' \in Exit /\ (left # NotLeft => left' = left)
    BY <1>0, <1>1, <1>2, <1>3
  <1>6. \/ CanFill(c) = {} /\ left' = left /\ new.position.open = trade.position.open + more
        \/ \E r \in CanFill(c) :
              /\ \A s \in CanFill(c) \ {r} : Before(r, s)
              /\ new.position.open < trade.position.open + more
              /\ left = NotLeft => left' = x(r)
    BY <1>1, <1>2
  <1>. QED  BY <1>4, <1>5, <1>6 DEF new, more, x

\* The backtest on the candle of the entry, and after it.
LEMMA TestFirst ==
  ASSUME Dealt, k = 0, test.open = FALSE, NEW c \in Candle, TestPass(c)
  PROVE  /\ test' \in Measure /\ test'.open = TRUE /\ test'.stop = signal.stop /\ test'.left = test.left
         /\ test'.paid = slipped_price(c.open, entry_side)
  <1>. DEFINE yes == TRUE
              p == slipped_price(c.open, entry_side)
  <1>1. test' = [test EXCEPT !.open = yes, !.stop = signal.stop, !.paid = p]
    <2>. DEFINE b == test.open /\ TestHit(c) # "none"
                d == test.open /\ TestHit(c) = "none"
                x == [test EXCEPT !.open = FALSE,
                                  !.left = [why |-> TestHit(c), k |-> k + 1,
                                            at |-> slipped_price(IF TestHit(c) = "STOP" THEN test.stop ELSE signal.target, exit_side)]]
                y == [test EXCEPT !.stop = trail_to(c, test.paid, @, 0)]
                z == [test EXCEPT !.open = yes, !.stop = signal.stop, !.paid = p]
    <2>1. test' = CASE k = 0 -> z [] b -> x [] d -> y [] OTHER -> test
      BY Zenon DEF TestPass
    <2>b. ~b /\ ~d
      OBVIOUS
    <2>. HIDE DEF b, d, x, y, z
    <2>2. test' = z
      BY <2>1, <2>b
    <2>. QED  BY <2>2 DEF z
  <1>2. yes \in BOOLEAN /\ test \in Measure /\ signal.stop \in Int
    BY DEF Dealt
  <1>p. p \in Int
    <2>1. c.open \in Price
      BY DEF Candle
    <2>2. Slippage \in Int /\ \A x \in Price : x \in Int
      BY ExitAssumption
    <2>3. c.open \in Int
      BY <2>1, <2>2
    <2>. QED  BY <2>2, <2>3 DEF slipped_price
  <1>. HIDE DEF yes, p
  <1>3. /\ test' \in Measure /\ test'.open = yes /\ test'.stop = signal.stop /\ test'.left = test.left
        /\ test'.paid = p
    BY <1>1, <1>2, <1>p DEF Measure
  <1>. QED  BY <1>3 DEF yes, p

LEMMA TestLater ==
  ASSUME Dealt, k # 0, NEW c \in Candle, TestPass(c)
  PROVE  /\ test' \in Measure /\ test'.paid = test.paid
         /\ test.open = FALSE => test' = test
         /\ test.open = TRUE /\ TestHit(c) # "none" =>
               /\ test'.open = FALSE
               /\ test'.left = [why |-> TestHit(c), k |-> k + 1,
                                at |-> slipped_price(IF TestHit(c) = "STOP" THEN test.stop ELSE signal.target, exit_side)]
         /\ test.open = TRUE /\ TestHit(c) = "none" =>
               /\ test'.open = TRUE /\ test'.left = test.left
               /\ test'.stop = trail_to(c, test.paid, test.stop, 0)
  <1>0. test \in Measure /\ test.paid \in Int /\ test.stop \in Int /\ signal.target \in Int /\ k \in Nat
    BY ExitAssumption DEF Dealt, Measure
  <1>1. CASE test.open = FALSE
    BY <1>0, <1>1 DEF TestPass
  <1>2. CASE test.open = TRUE /\ TestHit(c) # "none"
    <2>. DEFINE no == FALSE
                p == slipped_price(IF TestHit(c) = "STOP" THEN test.stop ELSE signal.target, exit_side)
                x == [why |-> TestHit(c), at |-> p, k |-> k + 1]
    <2>1. test' = [test EXCEPT !.open = no, !.left = x]
      BY <1>2 DEF TestPass
    <2>2. p \in Int
      BY <1>0, Slipped
    <2>3. TestHit(c) \in Legs
      BY <1>2 DEF TestHit, Legs
    <2>4. no \in BOOLEAN
      OBVIOUS
    <2>. HIDE DEF no, p
    <2>5. x \in Exit
      BY <1>0, <2>2, <2>3 DEF Exit
    <2>. HIDE DEF x
    <2>6. test' \in Measure /\ test'.open = no /\ test'.left = x /\ test'.paid = test.paid
      BY <1>0, <2>1, <2>4, <2>5 DEF Measure
    <2>. QED  BY <1>2, <2>6 DEF no, p, x
  <1>3. CASE test.open = TRUE /\ TestHit(c) = "none"
    <2>. DEFINE p == trail_to(c, test.paid, test.stop, 0)
    <2>1. test' = [test EXCEPT !.stop = p]
      BY <1>3 DEF TestPass
    <2>2. p \in Int
      BY <1>0, Trails
    <2>. HIDE DEF p
    <2>. QED  BY <1>0, <1>3, <2>1, <2>2 DEF Measure, p
  <1>. QED  BY <1>0, <1>1, <1>2, <1>3 DEF Measure

\* Both see the same touches.
LEMMA SameTouch ==
  ASSUME Dealt, NEW c, test.stop = stop
  PROVE  TestHit(c) = IF "STOP" \in Hits(c) THEN "STOP" ELSE IF "TARGET" \in Hits(c) THEN "TARGET" ELSE "none"
  <1>1. CASE signal.side = "LONG"
    BY <1>1 DEF TestHit, Hits, exit_side
  <1>2. CASE signal.side = "SHORT"
    BY <1>2 DEF TestHit, Hits, exit_side
  <1>. QED  BY <1>1, <1>2 DEF Dealt

-----------------------------------------------------------------------------
(* What a candle keeps.                                                      *)

LEMMA DealtKept ==
  ASSUME TradeInv, NEW c, NEW volume, NEW atr, Passes(c, volume, atr)
  PROVE  Dealt'
  <1>0. Dealt /\ c \in Candle /\ TestPass(c) /\ (k = 0 => Untraded)
    BY DEF TradeInv, Passes
  <1>1. test' \in Measure
    <2>1. k = 0 => test.open = FALSE
      BY <1>0 DEF Untraded
    <2>. QED  BY <1>0, <2>1, TestFirst, TestLater
  <1>2. k' \in 0..MaxCandle
    BY <1>0, ExitAssumption DEF Dealt, Passes
  <1>3. entry' \in Int /\ bought' \in SUBSET (1..k')
    BY Pays
  <1>4. stop' \in Int /\ moved' \in SUBSET (1..k')
    BY Stops
  <1>5. left' \in Exit
    BY Leaves
  <1>6. /\ rules' = rules /\ signal' = signal /\ minute' \in k'..2 * k'
    BY DEF Passes
  <1>. QED  BY <1>0, <1>1, <1>2, <1>3, <1>4, <1>5, <1>6 DEF Dealt

LEMMA GroundKept ==
  ASSUME TradeInv, NEW c, NEW volume, NEW atr, Passes(c, volume, atr)
  PROVE  Grounded'
  <1>0. /\ k \in Nat /\ k' = k + 1 /\ rules' = rules /\ signal' = signal /\ bought \in SUBSET (1..k) /\ moved \in SUBSET (1..k)
        /\ k = 0 => moved = {}
        /\ k # 0 => Grounded
    <2>1. Dealt /\ (k = 0 => Untraded) /\ (k # 0 => Grounded)
      BY DEF TradeInv
    <2>2. k' = k + 1 /\ rules' = rules /\ signal' = signal
      BY DEF Passes
    <2>3. k \in Nat /\ bought \in SUBSET (1..k) /\ moved \in SUBSET (1..k)
      BY <2>1, ExitAssumption DEF Dealt
    <2>. QED  BY <2>1, <2>2, <2>3 DEF Untraded
  <1>1. /\ More(c, volume) \in Nat /\ (More(c, volume) = 0 => entry' = entry)
        /\ bought' = IF More(c, volume) = 0 THEN bought ELSE bought \cup {k + 1}
    BY Pays
  <1>2. /\ ~Better(signal.stop, stop')
        /\ moved' = IF stop' = Resting THEN moved ELSE moved \cup {k + 1}
        /\ rules.trailing = "BREAKEVEN_AT_R" => stop' \in {Resting, entry'}
    BY Stops
  <1>3. ~Better(signal.stop, stop)'
    BY <1>0, <1>2 DEF Better, Ahead
  <1>4. moved' = {} => stop' = signal.stop
    <2>. SUFFICES ASSUME moved' = {}  PROVE stop' = signal.stop
      OBVIOUS
    <2>1. stop' = Resting /\ moved = {}
      BY <1>2
    <2>. QED  BY <1>0, <2>1 DEF Resting, Grounded
  <1>5. ASSUME rules.trailing = "BREAKEVEN_AT_R", NEW m \in moved', \A b \in bought' : b <= m
        PROVE  stop' = entry'
    <2>1. CASE stop' = Resting
      <3>1. m \in moved /\ m \in 1..k
        BY <1>0, <1>2, <2>1
      <3>2. k + 1 \notin bought'
        BY <1>0, <1>5, <3>1
      <3>3. bought' = bought /\ entry' = entry
        BY <1>1, <3>2
      <3>4. k # 0 /\ stop' = stop
        BY <1>0, <2>1, <3>1 DEF Resting
      <3>. QED  BY <1>0, <1>5, <3>1, <3>3, <3>4 DEF Grounded
    <2>2. CASE stop' # Resting
      BY <1>2, <1>5, <2>2
    <2>. QED  BY <2>1, <2>2
  <1>. QED  BY <1>0, <1>3, <1>4, <1>5 DEF Grounded

\* A stop that ends the trade is where it was.
LEMMA StopEnds ==
  ASSUME TradeInv, NEW c, NEW volume, NEW atr, Passes(c, volume, atr), left' # left, left'.why = "STOP"
  PROVE  LET level == left'.at + toward(signal.side) * Slippage
             since == {m \in moved : \A b \in bought : b <= m}
         IN /\ ~Better(signal.stop, level)
            /\ moved = {} => level = signal.stop
            /\ rules.trailing = "BREAKEVEN_AT_R" /\ since # {} => level = entry
  <1>0. Dealt /\ (k # 0 => Grounded)
    BY DEF TradeInv
  <1>1. /\ left # NotLeft => left' = left
        /\ k = 0 => CanFill(c) = {}
        /\ \/ CanFill(c) = {} /\ left' = left
           \/ \E r \in CanFill(c) :
                 left = NotLeft => left' = [why |-> r, at |-> slipped_price(Reference(r, c), exit_side), k |-> k + 1]
    BY Leaves
  <1>2. PICK r \in CanFill(c) : left' = [why |-> r, at |-> slipped_price(Reference(r, c), exit_side), k |-> k + 1]
    BY <1>1
  <1>3. r = "STOP" /\ k # 0
    BY <1>1, <1>2
  <1>4. left'.at = slipped_price(stop, exit_side)
    BY <1>2, <1>3 DEF Reference
  <1>5. left'.at + toward(signal.side) * Slippage = stop
    BY <1>0, <1>4, Slipped DEF Dealt
  <1>. QED  BY <1>0, <1>3, <1>5 DEF Grounded

\* The clock's order sells, if nothing before it does.
LEMMA ClockSells ==
  ASSUME TradeInv, NEW c, NEW volume, NEW atr, Passes(c, volume, atr),
         trade.position.open > 0, time_exit_due(opened, minute), ~Working(trade.order["ENTRY"]),
         trade.order["TIME"] # NoOrder => \A b \in bought : b < trade.order["TIME"].after
  PROVE  trade'.position.open < trade.position.open
  <1>0. Managed /\ k \in Nat /\ volume \in Nat
    BY ExitAssumption DEF TradeInv, Dealt, Passes
  <1>1. trade.order["TIME"] # NoOrder
    BY <1>0 DEF Managed
  <1>2. /\ Working(trade.order["TIME"])
        /\ trade.order["TIME"].filled + trade.position.open <= trade.order["TIME"].quantity
        /\ trade.order["TIME"].after <= k + 1
    BY <1>0, <1>1 DEF Managed, Timely, Kept
  <1>3. "TIME" \in CanFill(c)
    <2>1. /\ trade.order["TIME"].filled \in Nat /\ trade.order["TIME"].quantity \in Nat /\ trade.position.open \in Nat
          /\ "TIME" \in Legs
      BY <1>0, KeptOrders DEF Managed, Legs
    <2>. QED  BY <1>2, <2>1 DEF CanFill
  <1>4. FilledBy(c, volume).position.open < trade.position.open + More(c, volume)
    BY <1>3, Leaves
  <1>5. More(c, volume) = 0
    BY <1>0, Pass DEF More
  <1>6. trade'.position = FilledBy(c, volume).position
    BY Manages
  <1>7. trade.position.open \in Nat
    BY <1>0, KeptOrders DEF Managed
  <1>. QED  BY <1>4, <1>5, <1>6, <1>7

\* What an entry that took several candles did, it did for good.
LEMMA StaysUnmeasured ==
  ASSUME TradeInv, NEW c, NEW volume, NEW atr, Passes(c, volume, atr), ~Unmeasured'
  PROVE  ~Unmeasured
  <1>0. /\ Dealt /\ k \in Nat /\ rules' = rules /\ bought \in SUBSET (1..k)
    BY ExitAssumption DEF TradeInv, Dealt, Passes
  <1>1. bought \subseteq bought' /\ moved \subseteq moved'
    BY Pays, Stops
  <1>2. /\ left # NotLeft => left' = left
        /\ left = NotLeft => left' = NotLeft \/ left'.k = k + 1
    <2>1. \/ left' = left
          \/ \E r \in CanFill(c) :
                left = NotLeft => left' = [why |-> r, at |-> slipped_price(Reference(r, c), exit_side), k |-> k + 1]
      BY Leaves
    <2>2. left # NotLeft => left' = left
      BY Leaves
    <2>. QED  BY <2>1, <2>2
  <1>3. left.why = "TIME" => left'.why = "TIME"
    BY <1>2 DEF NotLeft
  <1>4. Averaged => Averaged'
    <2>. SUFFICES ASSUME NEW b \in bought \ {1}, left = NotLeft \/ b < left.k
                  PROVE  b \in bought' \ {1} /\ (left' = NotLeft \/ b < left'.k)
      BY DEF Averaged
    <2>1. b < k + 1
      BY <1>0
    <2>. QED  BY <1>1, <1>2, <2>1
  <1>. QED  BY <1>0, <1>1, <1>3, <1>4 DEF Unmeasured

\* While all that was bought is held, its bracket works for all of it.
LEMMA Reached ==
  ASSUME TradeInv, NEW c, k # 0, trade.position.open = trade.order["ENTRY"].filled
  PROVE  \A r \in {"STOP", "TARGET"} : r \in Hits(c) <=> r \in CanFill(c)
  <1>0. Kept(trade, k) /\ k \in Nat \ {0} /\ trade.order["ENTRY"].filled # 0
    BY ExitAssumption DEF TradeInv, Dealt, Managed
  <1>1. /\ \A r \in Role : trade.order[r].filled \in Nat
        /\ Role = {"ENTRY", "HALT", "STOP", "TARGET", "TIME"} /\ trade.position.open \in Nat
    BY <1>0, KeptOrders
  <1>2. trade.position.open + trade.order["STOP"].filled + trade.order["TARGET"].filled + trade.order["TIME"].filled
          = trade.order["ENTRY"].filled
    BY <1>0 DEF Kept
  <1>3. /\ trade.order["STOP"].filled \in Nat /\ trade.order["TARGET"].filled \in Nat
        /\ trade.order["TIME"].filled \in Nat
    BY <1>1
  <1>4. trade.order["STOP"].filled = 0 /\ trade.order["TARGET"].filled = 0 /\ trade.position.open > 0
    BY <1>0, <1>1, <1>2, <1>3
  <1>5. \A r \in {"STOP", "TARGET"} :
           Working(trade.order[r]) /\ trade.order[r].quantity = trade.position.open /\ trade.order[r].after = 2
    BY <1>0, <1>4 DEF Kept
  <1>. QED  BY <1>0, <1>4, <1>5 DEF CanFill, Legs

\* The two see the same touches and move the same stop.
LEMMA MeasureKept ==
  ASSUME TradeInv, NEW c, NEW volume, NEW atr, Passes(c, volume, atr)
  PROVE  Measured'
  <1>. DEFINE new == FilledBy(c, volume)
              more == More(c, volume)
              out(r) == [why |-> r, at |-> slipped_price(Reference(r, c), exit_side), k |-> k + 1]
  <1>0. /\ Dealt /\ Managed /\ (k = 0 => Untraded) /\ (k # 0 => Measured)
        /\ c \in Candle /\ TestPass(c) /\ (rules.trailing # "ATR_TRAIL" => atr = 0)
        /\ rules' = rules /\ k' = k + 1
    BY DEF TradeInv, Passes
  <1>k. k \in Nat /\ rules.trailing \in {"NONE", "BREAKEVEN_AT_R", "ATR_TRAIL"} /\ moved \in SUBSET (1..k)
        /\ bought \in SUBSET (1..k)
    BY <1>0, ExitAssumption DEF Dealt
  <1>1. /\ more \in Nat /\ (k = 0 => more > 0 /\ Paid(c, volume) = slipped_price(c.open, entry_side))
        /\ entry' = Paid(c, volume) /\ (more = 0 => entry' = entry)
        /\ bought' = IF more = 0 THEN bought ELSE bought \cup {k + 1}
    BY Pays
  <1>2. /\ moved' = IF stop' = Resting THEN moved ELSE moved \cup {k + 1}
        /\ rules.trailing = "NONE" => stop' = Resting
        /\ new.position.open > 0 /\ new.position.open = new.order["ENTRY"].filled =>
              stop' = trail_to(c, entry', Resting, atr)
    BY Stops
  <1>3. /\ left # NotLeft => left' = left
        /\ k = 0 => CanFill(c) = {}
        /\ \/ CanFill(c) = {} /\ left' = left /\ new.position.open = trade.position.open + more
           \/ \E r \in CanFill(c) :
                  (\A s \in CanFill(c) \ {r} : Before(r, s)) /\ (left = NotLeft => left' = out(r))
    BY Leaves
  <1>4. trade'.position = new.position /\ trade'.order["ENTRY"] = new.order["ENTRY"] /\ Kept(new, k + 1)
    BY Manages
  <1>5. /\ k = 0 => /\ test'.open = TRUE /\ test'.stop = signal.stop /\ test'.left = NotLeft
                    /\ test'.paid = slipped_price(c.open, entry_side)
        /\ k # 0 => test'.paid = test.paid
    <2>1. k = 0 => test.open = FALSE /\ test.left = NotLeft
      BY <1>0 DEF Untraded
    <2>. QED  BY <1>0, <2>1, TestFirst, TestLater
  <1>6. new.order["ENTRY"].filled = trade.order["ENTRY"].filled + more
        /\ trade.order["ENTRY"].filled \in Nat /\ trade.position.open \in Nat
    <2>1. trade.order["ENTRY"].filled \in Nat /\ trade.position.open \in Nat
      BY <1>0, KeptOrders DEF Managed
    <2>2. new.order["ENTRY"].filled \in Nat
      BY <1>4, KeptOrders
    <2>. QED  BY <2>1, <2>2 DEF More
  <1>7. k = 0 => trade.position.open = 0 /\ trade.order["ENTRY"].filled = 0
    BY <1>0, Unheld DEF Managed
  <1>8. \A r \in CanFill(c) : r \in Legs /\ out(r) # NotLeft /\ out(r).why = r
    BY DEF CanFill, Legs, NotLeft
  <1>. HIDE DEF new, more, out
  <1>9. left' = NotLeft => /\ left = NotLeft /\ CanFill(c) = {}
                           /\ new.position.open = trade.position.open + more
                           /\ trade.position.open = trade.order["ENTRY"].filled
    BY <1>0, <1>3, <1>7, <1>8 DEF Measured
  <1>10. left' = NotLeft => trade'.position.open = trade'.order["ENTRY"].filled
    BY <1>4, <1>6, <1>9
  <1>11. bought' \subseteq {1} => entry' = test'.paid
    <2>1. CASE k = 0
      BY <1>1, <1>5, <2>1
    <2>2. CASE k # 0
      <3>1. bought' \subseteq {1} => more = 0
        BY <1>1, <1>k, <2>2
      <3>. QED  BY <1>0, <1>1, <1>5, <2>2, <3>1 DEF Measured
    <2>. QED  BY <2>1, <2>2
  <1>12. ASSUME ~Unmeasured', left' = NotLeft
         PROVE  test'.open = TRUE /\ test'.stop = stop' /\ test'.left = NotLeft
    <2>1. rules.trailing # "ATR_TRAIL" /\ 1 \notin moved'
      BY <1>0, <1>12 DEF Unmeasured
    <2>2. CASE k = 0
      <3>1. stop' = Resting
        BY <1>2, <2>1, <2>2
      <3>2. Resting = signal.stop
        BY <2>2 DEF Resting
      <3>. QED  BY <1>5, <2>2, <3>1, <3>2
    <2>3. CASE k # 0
      <3>1. test.open = TRUE /\ test.stop = stop /\ test.left = NotLeft
        BY <1>0, <1>9, <1>12, <2>3, StaysUnmeasured DEF Measured
      <3>2. Resting = stop /\ atr = 0
        BY <1>0, <1>k, <2>1, <2>3 DEF Resting
      <3>3. TestHit(c) = "none"
        <4>1. TestHit(c) = IF "STOP" \in Hits(c) THEN "STOP" ELSE IF "TARGET" \in Hits(c) THEN "TARGET" ELSE "none"
          BY <1>0, <3>1, SameTouch
        <4>2. \A r \in {"STOP", "TARGET"} : r \in Hits(c) => r \in CanFill(c)
          BY <1>9, <1>12, <2>3, Reached
        <4>. QED  BY <1>9, <1>12, <4>1, <4>2
      <3>4. test'.open = TRUE /\ test'.left = NotLeft /\ test'.stop = trail_to(c, test.paid, stop, 0)
        BY <1>0, <2>3, <3>1, <3>3, TestLater
      <3>5. new.position.open > 0 /\ new.position.open = new.order["ENTRY"].filled
        <4>1. trade.order["ENTRY"].filled # 0
          BY <1>0, <2>3 DEF Managed
        <4>. QED  BY <1>1, <1>6, <1>9, <1>12, <4>1
      <3>6. stop' = trail_to(c, entry', stop, 0)
        BY <1>2, <3>2, <3>5
      <3>7. CASE rules.trailing = "NONE"
        <4>1. trail_to(c, test.paid, stop, 0) = stop
          BY <3>7 DEF trail_to, Asks
        <4>. QED  BY <1>2, <3>2, <3>4, <3>7, <4>1
      <3>8. CASE rules.trailing = "BREAKEVEN_AT_R"
        <4>1. bought' \subseteq {1}
          BY <1>0, <1>12, <3>8 DEF Unmeasured, Averaged
        <4>. QED  BY <1>5, <1>11, <2>3, <3>4, <3>6, <4>1
      <3>. QED  BY <1>k, <2>1, <3>7, <3>8
    <2>. QED  BY <2>2, <2>3
  <1>13. ASSUME ~Unmeasured', left' # NotLeft
         PROVE  test'.open = FALSE /\ test'.left = left'
    <2>0. k # 0
      BY <1>0, <1>3, <1>13 DEF Untraded
    <2>1. CASE left # NotLeft
      <3>1. left' = left /\ test.open = FALSE /\ test.left = left
        BY <1>0, <1>3, <1>13, <2>0, <2>1, StaysUnmeasured DEF Measured
      <3>. QED  BY <1>0, <2>0, <3>1, TestLater
    <2>2. CASE left = NotLeft
      <3>1. test.open = TRUE /\ test.stop = stop /\ test.left = NotLeft /\ trade.position.open = trade.order["ENTRY"].filled
        BY <1>0, <1>13, <2>0, <2>2, StaysUnmeasured DEF Measured
      <3>2. PICK r \in CanFill(c) : (\A s \in CanFill(c) \ {r} : Before(r, s)) /\ left' = out(r)
        BY <1>3, <1>13, <2>2
      <3>3. r \in {"STOP", "TARGET"}
        BY <1>8, <1>13, <3>2 DEF Unmeasured, Legs
      <3>4. TestHit(c) = r
        <4>1. TestHit(c) = IF "STOP" \in Hits(c) THEN "STOP" ELSE IF "TARGET" \in Hits(c) THEN "TARGET" ELSE "none"
          BY <1>0, <3>1, SameTouch
        <4>2. \A x \in {"STOP", "TARGET"} : x \in Hits(c) <=> x \in CanFill(c)
          BY <2>0, <3>1, Reached
        <4>3. r = "TARGET" => "STOP" \notin CanFill(c)
          BY <3>2 DEF Before
        <4>. QED  BY <3>2, <3>3, <4>1, <4>2, <4>3
      <3>5. /\ test'.open = FALSE
            /\ test'.left = [why |-> r, k |-> k + 1,
                             at |-> slipped_price(IF r = "STOP" THEN test.stop ELSE signal.target, exit_side)]
        <4>1. r # "none"
          BY <3>3
        <4>. QED  BY <1>0, <2>0, <3>1, <3>4, <4>1, TestLater
      <3>6. Reference(r, c) = IF r = "STOP" THEN test.stop ELSE signal.target
        BY <3>1, <3>3 DEF Reference
      <3>. QED  BY <3>2, <3>5, <3>6 DEF out
    <2>. QED  BY <2>1, <2>2
  <1>14. (left = NotLeft => trade.position.open = trade.order["ENTRY"].filled)'
         /\ (bought \subseteq {1} => entry = test.paid)'
    BY <1>10, <1>11
  <1>. QED  BY <1>12, <1>13, <1>14, Zenon DEF Measured

LEMMA TradeInit == Init => TradeInv
  <1>. SUFFICES ASSUME Init  PROVE TradeInv
    OBVIOUS
  <1>1. /\ k = 0 /\ minute = 0 /\ trade = Queued /\ stop = 0 /\ entry = 0 /\ opened = 0
        /\ left = NotLeft /\ bought = {} /\ moved = {}
        /\ test = [open |-> FALSE, paid |-> 0, stop |-> 0, left |-> NotLeft]
    BY DEF Init, Queued
  <1>2. rules.trailing \in {"NONE", "BREAKEVEN_AT_R", "ATR_TRAIL"} /\ rules.limit \in Nat /\ rules.square_off \in Nat
    <2>1. PICK trailing \in {"NONE", "BREAKEVEN_AT_R", "ATR_TRAIL"}, times \in {<<0, 0>>, <<TimeLimit, 0>>, <<0, SquareOff>>} :
             rules = [trailing |-> trailing, limit |-> times[1], square_off |-> times[2]]
      BY DEF Init
    <2>2. times[1] \in Nat /\ times[2] \in Nat
      BY ExitAssumption
    <2>. QED  BY <2>1, <2>2
  <1>3. signal.side \in {"LONG", "SHORT"} /\ signal.stop \in Int /\ signal.target \in Int
    <2>1. PICK side \in {"LONG", "SHORT"}, structural \in 0..Width, atr \in 0..Width, rule \in {"RR_MULTIPLE", "ATR_MULTIPLE"} :
             LET risk == RiskPerUnit(structural, atr) IN signal = Plan(side, risk, Reward(risk, atr, rule))
      BY DEF Init
    <2>. DEFINE risk == RiskPerUnit(structural, atr)
                reward == Reward(risk, atr, rule)
    <2>2. {structural, atr, StopAtr, MinStop, TargetAtr, TargetRr, EntryPrice} \subseteq Int
      BY ExitAssumption
    <2>3. risk \in Int
      BY <2>2, Times DEF RiskPerUnit, Most
    <2>4. reward \in Int
      <3>. HIDE DEF risk
      <3>. QED  BY <2>2, <2>3, Times DEF Reward
    <2>. HIDE DEF risk, reward
    <2>5. signal = Plan(side, risk, reward) /\ toward(side) \in Int
      BY <2>1 DEF risk, reward, toward
    <2>6. toward(side) * risk \in Int /\ toward(side) * reward \in Int
      BY <2>3, <2>4, <2>5, Times
    <2>. QED  BY <2>2, <2>5, <2>6 DEF Plan
  <1>4. Dealt
    <2>. DEFINE no == FALSE
    <2>1. no \in BOOLEAN /\ test = [open |-> no, paid |-> 0, stop |-> 0, left |-> NotLeft]
      BY <1>1
    <2>. HIDE DEF no
    <2>2. NotLeft \in Exit
      BY DEF Exit
    <2>3. test \in Measure /\ left \in Exit
      BY <1>1, <2>1, <2>2 DEF Measure
    <2>4. 0 \in 0..MaxCandle
      BY ExitAssumption
    <2>. QED  BY <1>1, <1>2, <1>3, <2>3, <2>4 DEF Dealt
  <1>5. Managed
    <2>1. Kept(trade, k)
      BY <1>1, QueuedKept
    <2>2. trade.order["ENTRY"].filled = 0 /\ trade.order["TIME"] = NoOrder /\ trade.position.open = 0
      <3>1. /\ trade.order["ENTRY"] = NewOrder(Qty, 1) /\ trade.order["TIME"] = NoOrder
            /\ trade.position = NoPosition
        BY <1>1 DEF Queued, NoTrade, Role, EXIT_ROLES
      <3>. QED  BY <3>1 DEF NewOrder, NoPosition
    <2>. QED  BY <1>1, <2>1, <2>2 DEF Managed, Timely
  <1>. QED  BY <1>1, <1>4, <1>5 DEF TradeInv, Untraded

LEMMA TradeStep ==
  ASSUME TradeInv, [Next]_vars
  PROVE  TradeInv'
  <1>1. CASE Next
    <2>1. PICK c, volume, atr : Passes(c, volume, atr)
      BY <1>1, OneCandle DEF TradeInv
    <2>2. Dealt' /\ Managed' /\ Grounded' /\ Measured'
      BY <2>1, DealtKept, Manages, GroundKept, MeasureKept
    <2>3. k' # 0
      BY <2>1, ExitAssumption DEF Passes, TradeInv, Dealt
    <2>. QED  BY <2>2, <2>3 DEF TradeInv
  <1>2. CASE UNCHANGED vars
    BY <1>2 DEF vars, TradeInv, Dealt, Untraded, Managed, Kept, Timely, time_exit_due, Grounded, Better, Ahead,
                Measured, Unmeasured, Averaged
  <1>. QED  BY <1>1, <1>2

LEMMA TradeSafe ==
  ASSUME TradeInv
  PROVE  TypeOK /\ MeasuredAsTraded
  <1>0. Dealt /\ Kept(trade, k) /\ Qty \in Nat /\ MaxCandle \in Nat /\ k \in Nat
    BY ExitAssumption DEF TradeInv, Managed, Dealt
  <1>1. /\ trade.position.open \in Nat /\ Role = {"ENTRY", "HALT", "STOP", "TARGET", "TIME"}
        /\ \A r \in Role : trade.order[r].filled \in Nat /\ trade.order[r].quantity \in Nat
    BY <1>0, KeptOrders
  <1>2. \A r \in Role : trade.order[r].filled \in 0..trade.order[r].quantity
    BY <1>0, <1>1 DEF Kept
  <1>3. trade.position.open \in 0..Qty
    <2>1. /\ trade.order["STOP"].filled \in Nat /\ trade.order["TARGET"].filled \in Nat
          /\ trade.order["TIME"].filled \in Nat /\ trade.order["ENTRY"].filled \in Nat
      BY <1>1
    <2>2. /\ trade.position.open + trade.order["STOP"].filled + trade.order["TARGET"].filled + trade.order["TIME"].filled
               = trade.order["ENTRY"].filled
          /\ trade.order["ENTRY"].filled <= Qty
      BY <1>0, <1>1 DEF Kept
    <2>. QED  BY <1>0, <1>1, <2>1, <2>2
  <1>4. k \in 0..MaxCandle /\ minute \in k..2 * MaxCandle
    <2>1. k \in 0..MaxCandle /\ minute \in k..2 * k
      BY <1>0 DEF Dealt
    <2>. QED  BY <1>0, <2>1
  <1>5. {bought, moved} \subseteq SUBSET (1..k)
    BY <1>0 DEF Dealt
  <1>6. TypeOK
    BY <1>2, <1>3, <1>4, <1>5 DEF TypeOK
  <1>7. MeasuredAsTraded
    <2>1. CASE k = 0
      BY <2>1 DEF TradeInv, Untraded, MeasuredAsTraded
    <2>2. CASE k # 0
      <3>1. ~Unmeasured => test.left = left
        BY <2>2 DEF TradeInv, Measured
      <3>. QED  BY <3>1, Zenon DEF MeasuredAsTraded, Unmeasured
    <2>. QED  BY <2>1, <2>2
  <1>. QED  BY <1>6, <1>7

-----------------------------------------------------------------------------
(* The theorems.                                                             *)

\* The trade's part of the instance, whichever of the two it runs.
LEMMA RunIsTrade == MCSpec => Spec
  <1>1. MCInit => Init
    BY DEF MCInit
  <1>2. [MCNext]_<<vars, scan>> => [Next]_vars
    BY DEF MCNext
  <1>. QED  BY <1>1, <1>2, PTL DEF MCSpec, Spec

LEMMA TradeAlways == Spec => []TradeInv
  <1>1. TradeInv /\ [Next]_vars => TradeInv'
    BY TradeStep
  <1>. QED  BY TradeInit, <1>1, PTL DEF Spec

\* The variables of a trade keep their types, and no order fills more than it
\* asks for (TradeExit.TypeOK).
THEOREM TypeCorrect == Spec => []TypeOK
  <1>1. TradeInv => TypeOK
    BY TradeSafe
  <1>. QED  BY <1>1, TradeAlways, PTL

\* Whatever the prices and volumes, and however many candles the entry and the
\* exits take, the backtest leaves a trade on the candle, by the leg and at the
\* price that the paper engine begins to, but for what the property excepts.
THEOREM MeasuredAsTraded_Holds == (Spec => []MeasuredAsTraded) /\ (MCSpec => []MeasuredAsTraded)
  <1>1. TradeInv => MeasuredAsTraded
    BY TradeSafe
  <1>. QED  BY <1>1, TradeAlways, RunIsTrade, PTL

\* No trade is stopped out behind its plan, nor, unless it bought since, behind
\* the price that the stop was moved to.
THEOREM StopKeepsGround_Holds == (Spec => StopKeepsGround) /\ (MCSpec => StopKeepsGround)
  <1>. DEFINE Grounds ==
                left' # left /\ left'.why = "STOP" =>
                  LET level == left'.at + toward(signal.side) * Slippage
                      since == {m \in moved : \A b \in bought : b <= m}
                  IN /\ ~Better(signal.stop, level)
                     /\ moved = {} => level = signal.stop
                     /\ rules.trailing = "BREAKEVEN_AT_R" /\ since # {} => level = entry
  <1>1. TradeInv /\ [Next]_vars => [Grounds]_vars
    <2>. SUFFICES ASSUME TradeInv, Next, left' # left, left'.why = "STOP"  PROVE Grounds
      OBVIOUS
    <2>1. PICK c, volume, atr : Passes(c, volume, atr)
      BY OneCandle DEF TradeInv
    <2>. QED  BY <2>1, StopEnds, Zenon
  <1>. QED  BY <1>1, TradeAlways, RunIsTrade, PTL DEF Spec, StopKeepsGround

\* Once the clock asks for the exit of an entry that had bought all it would when
\* it was queued, every candle takes something off.
THEOREM LeavesInTime_Holds == (Spec => LeavesInTime) /\ (MCSpec => LeavesInTime)
  <1>. DEFINE Sells ==
                /\ trade.position.open > 0 /\ time_exit_due(opened, minute)
                /\ ~Working(trade.order["ENTRY"])
                /\ trade.order["TIME"] # NoOrder => \A b \in bought : b < trade.order["TIME"].after
                => trade'.position.open < trade.position.open
  <1>1. TradeInv /\ [Next]_vars => [Sells]_vars
    <2>. SUFFICES ASSUME TradeInv, Next,
                         trade.position.open > 0, time_exit_due(opened, minute), ~Working(trade.order["ENTRY"]),
                         trade.order["TIME"] # NoOrder => \A b \in bought : b < trade.order["TIME"].after
                  PROVE  trade'.position.open < trade.position.open
      BY Zenon
    <2>1. PICK c, volume, atr : Passes(c, volume, atr)
      BY OneCandle DEF TradeInv
    <2>. QED  BY <2>1, ClockSells
  <1>. QED  BY <1>1, TradeAlways, RunIsTrade, PTL DEF Spec, LeavesInTime

\* The scanner's part of the instance.
ScanRuns == OnScan => ScanInv

LEMMA ScanAlways == MCSpec => []ScanRuns
  <1>1. MCInit => ScanRuns
    BY ScanInvInit DEF MCInit, ScanUnused, OnScan, ScanRuns
  <1>2. ScanRuns /\ [MCNext]_<<vars, scan>> => ScanRuns'
    <2>. SUFFICES ASSUME ScanRuns, [MCNext]_<<vars, scan>>  PROVE ScanRuns'
      OBVIOUS
    <2>1. CASE OnScan /\ Scan!Next
      BY <2>1, ScanInvStep DEF ScanRuns, OnScan
    <2>2. CASE UNCHANGED scan
      <3>1. OnScan' <=> OnScan
        BY <2>2 DEF scan, OnScan
      <3>2. OnScan => ScanInv'
        BY <2>2, ScanInvStep DEF ScanRuns
      <3>. QED  BY <3>1, <3>2 DEF ScanRuns
    <2>. QED  BY <2>1, <2>2 DEF MCNext
  <1>. QED  BY <1>1, <1>2, PTL DEF MCSpec

\* The scanner's rows, words and locals keep their types.
THEOREM ScanTypeCorrect == MCSpec => [](OnScan => Scan!TypeOK)
  <1>1. ScanRuns => (OnScan => Scan!TypeOK)
    BY ScanInvSafe DEF ScanRuns
  <1>. QED  BY <1>1, ScanAlways, PTL

\* However candles overlap and whatever raises or crashes, a signal is offered
\* to the live path once.
THEOREM OfferedOnce_Holds == MCSpec => []OfferedOnce
  <1>1. ScanRuns => OfferedOnce
    BY ScanInvSafe DEF ScanRuns, OfferedOnce
  <1>. QED  BY <1>1, ScanAlways, PTL

\* A signal of a two-stage strategy ends a setup that was alive in the words its
\* decision was read from.
THEOREM SetupIsAlive_Holds == MCSpec => []SetupIsAlive
  <1>1. ScanRuns => SetupIsAlive
    BY ScanInvSafe DEF ScanRuns, SetupIsAlive
  <1>. QED  BY <1>1, ScanAlways, PTL

\* An instrument the ranking left out is scanned in a later minute only beside a
\* coroutine that still had the older answer.
THEOREM RankingApplies_Holds == MCSpec => []RankingApplies
  <1>1. ScanRuns => RankingApplies
    BY ScanInvSafe DEF ScanRuns, RankingApplies
  <1>. QED  BY <1>1, ScanAlways, PTL

=============================================================================
