-------------------------- MODULE LiveSessionProofs --------------------------
(***************************************************************************)
(* The live session for any period, lag, freshness window, time to live and  *)
(* any number of requests that satisfy SessionAssumption.                    *)
(*                                                                          *)
(* None of the four properties is inductive.  A verdict is fresh because of  *)
(* who may still replace it: what stands in order started after the verdict  *)
(* in force did, in the order it stands in, and what has dropped out of it    *)
(* started before.  A disarmed account stays so because the row that counts   *)
(* is a revoked one and nobody is writing another, a halted scanner because   *)
(* nobody is left that read the stop before it was engaged.                  *)
(***************************************************************************)
EXTENDS LiveSession, SequenceTheorems, WellFoundedInduction, TLAPS

ClerkType == [pc : ClerkPCs, age : 0 .. Expired, seen : 0 .. Expired, safe : BOOLEAN]
States    == {"pending", "undone", "armed", "revoked"}
ArmType   == [by : Armer, state : States, left : 0 .. Ttl]

Active(c) == At(c, "read") \/ At(c, "store")

\* The types, with those of order taken apart.
Types ==
    /\ wait \in -MaxLag .. Period /\ requests \in 0 .. MaxRequests
    /\ clerk \in [Clerk -> ClerkType]
    /\ verdict \in [age : 0 .. Expired, seen : 0 .. Expired, safe : BOOLEAN]
    /\ stop \in BOOLEAN /\ stopper \in {"idle", "halting"} /\ control \in {"STOPPED", "RUNNING"}
    /\ disarmed \in BOOLEAN /\ halted \in BOOLEAN /\ kept \in BOOLEAN

OrderOK ==
    /\ order \in Seq(Reconciler) /\ IsInjective(order)
    /\ \A i \in DOMAIN order : Active(order[i])

ArmsOK ==
    /\ arms \in Seq(ArmType)
    /\ \A i \in DOMAIN arms : arms[i].state = "pending" => Arming(arms[i].by)
    /\ disarmer \in [pc : {"idle", "revoke", "raced"}, row : 0 .. Len(arms)]

\* The refresh job is idle or reconciles, and then it has not been at it for long.
RefreshOK ==
    \/ At("refresh", "idle")
    \/ Active("refresh") /\ wait >= Period - MaxLag /\ clerk["refresh"].age <= Period - wait

\* No reading is older than the transaction it was made in.
SeenOK ==
    /\ verdict.seen <= verdict.age
    /\ \A c \in Reconciler : clerk[c].seen <= clerk[c].age

Out(c) == \A i \in DOMAIN order : order[i] # c

\* The ages along order, and of what is not in it any more.
AgesOK ==
    /\ \A i, j \in DOMAIN order : i < j => clerk[order[j]].age <= clerk[order[i]].age
    /\ \A i \in DOMAIN order : clerk[order[i]].age <= verdict.age
    /\ \A c \in Reconciler : Active(c) /\ Out(c) => verdict.age <= clerk[c].age

\* How old the verdict can be while it is kept fresh.
KeptOK ==
    kept => verdict.age <= IF At("refresh", "idle") THEN Period - wait ELSE 2 * Period - wait

\* Nothing is being armed and what counts was revoked.
NobodyArms == \A c \in Armer : ~Arming(c)
DisarmOK ==
    /\ disarmed => NobodyArms /\ (Latest # 0 => arms[Latest].state = "revoked")
    /\ disarmer.pc = "revoke" => NobodyArms /\ disarmer.row = Latest
    /\ disarmer.pc = "raced" => ~disarmed

\* Nobody is left who found the stop cleared.
HaltOK == halted => control = "STOPPED" /\ \A c \in Starter : ~At(c, "start")

IInv == Types /\ OrderOK /\ ArmsOK /\ RefreshOK /\ SeenOK /\ AgesOK /\ KeptOK /\ DisarmOK /\ HaltOK

-----------------------------------------------------------------------------
\* Where a clerk stands in order.
LEMMA PlaceFound ==
    ASSUME NEW S, order \in Seq(S), IsInjective(order), NEW i \in DOMAIN order
    PROVE  Place(order[i]) = i
<1> DEFINE I == {j \in 1..Len(order) : order[j] = order[i]}
<1>1. I = {i} BY DEF IsInjective
<1>2. Min(I) = i BY <1>1 DEF Min
<1> QED BY <1>1, <1>2 DEF Place, SelectInSeq

LEMMA PlaceType ==
    ASSUME NEW S, order \in Seq(S), IsInjective(order), NEW c
    PROVE  \/ Place(c) = 0 /\ \A i \in DOMAIN order : order[i] # c
           \/ Place(c) \in DOMAIN order /\ order[Place(c)] = c
<1>1. CASE \E i \in DOMAIN order : order[i] = c BY <1>1, PlaceFound
<1>2. CASE \A i \in DOMAIN order : order[i] # c
  <2> DEFINE I == {j \in 1..Len(order) : order[j] = c}
  <2>1. I = {} BY <1>2
  <2> QED BY <1>2, <2>1 DEF Place, SelectInSeq
<1> QED BY <1>1, <1>2

\* A nonempty set of positions has a last one.
Below == {p \in Nat \X Nat : p[1] < p[2]}

LEMMA BelowWellFounded == IsWellFoundedOn(Below, Nat)
<1>1. Below = OpToRel(<, Nat) BY DEF Below, OpToRel
<1> QED BY <1>1, NatLessThanWellFounded

LEMMA LastOf ==
    ASSUME NEW n \in Nat, NEW S \in SUBSET (1..n), S # {}
    PROVE  \E i \in S : \A j \in S : j <= i
<1> DEFINE T == {n - i : i \in S}
<1>1. T \subseteq Nat /\ T # {}
  <2>1. T # {} BY Zenon
  <2>2. ASSUME NEW i \in S PROVE n - i \in Nat OBVIOUS
  <2> QED BY <2>1, <2>2
<1>2. PICK x \in T : \A y \in T : ~(<<y, x>> \in Below)
  BY <1>1, BelowWellFounded, WFMin
<1>3. ASSUME NEW y \in T PROVE x <= y
  <2> HIDE DEF T
  <2>1. x \in Nat /\ y \in Nat BY <1>1
  <2>2. y < x => <<y, x>> \in Below BY <2>1 DEF Below
  <2> QED BY <1>2, <2>1, <2>2
<1>4. PICK i \in S : x = n - i OBVIOUS
<1>5. ASSUME NEW j \in S PROVE j <= i
  <2>1. x <= n - j BY <1>3
  <2> QED BY <1>4, <2>1
<1> QED BY <1>5

\* A sequence without its first elements, and without one of them.
LEMMA AfterFirst ==
    ASSUME NEW S, NEW s \in Seq(S), NEW p \in 1 .. Len(s)
    PROVE  /\ SubSeq(s, p + 1, Len(s)) \in Seq(S) /\ Len(SubSeq(s, p + 1, Len(s))) = Len(s) - p
           /\ \A i \in 1 .. Len(s) - p : SubSeq(s, p + 1, Len(s))[i] = s[i + p]
<1>1. Len(s) \in Nat /\ \A i \in 1 .. Len(s) : s[i] \in S OBVIOUS
<1> DEFINE t == SubSeq(s, p + 1, Len(s))
           n == Len(s)
<1>2. n \in Nat /\ p \in 1 .. n /\ \A i \in p + 1 .. n : s[i] \in S BY <1>1
<1>3. /\ t \in Seq(S) /\ Len(t) = IF p + 1 <= n THEN n - (p + 1) + 1 ELSE 0
      /\ \A i \in 1 .. n - (p + 1) + 1 : t[i] = s[(p + 1) + i - 1]
  <2> HIDE DEF n
  <2>1. p + 1 \in Int /\ n \in Int BY <1>2
  <2> QED BY <1>2, <2>1, SubSeqProperties DEF n
<1> HIDE DEF t, n
<1>4. Len(t) = n - p BY <1>2, <1>3
<1>5. ASSUME NEW i \in 1 .. n - p PROVE t[i] = s[i + p]
  <2>1. i \in 1 .. n - (p + 1) + 1 /\ (p + 1) + i - 1 = i + p BY <1>2
  <2> QED BY <1>3, <2>1
<1> QED BY <1>3, <1>4, <1>5 DEF t, n

LEMMA Without ==
    ASSUME NEW S, NEW s \in Seq(S), NEW p \in 1 .. Len(s)
    PROVE  /\ RemoveAt(s, p) \in Seq(S) /\ Len(RemoveAt(s, p)) = Len(s) - 1
           /\ \A i \in 1 .. Len(s) - 1 : RemoveAt(s, p)[i] = s[IF i < p THEN i ELSE i + 1]
<1> DEFINE a == SubSeq(s, 1, p - 1)
           b == SubSeq(s, p + 1, Len(s))
           n == Len(s)
<1>1. n \in Nat /\ p \in 1 .. n /\ \A i \in 1 .. n : s[i] \in S OBVIOUS
<1>2. b \in Seq(S) /\ Len(b) = n - p /\ \A i \in 1 .. n - p : b[i] = s[i + p]
  <2> HIDE DEF b, n
  <2> QED BY AfterFirst DEF b, n
<1>3. a \in Seq(S) /\ Len(a) = p - 1 /\ \A i \in 1 .. p - 1 : a[i] = s[i]
  <2>1. 1 \in Int /\ p - 1 \in Int /\ \A i \in 1 .. p - 1 : s[i] \in S BY <1>1
  <2>2. /\ a \in Seq(S) /\ Len(a) = IF 1 <= p - 1 THEN p - 1 - 1 + 1 ELSE 0
        /\ \A i \in 1 .. p - 1 - 1 + 1 : a[i] = s[1 + i - 1]
    <3> HIDE DEF n
    <3> QED BY <2>1, SubSeqProperties
  <2> HIDE DEF a
  <2>3. ASSUME NEW i \in 1 .. p - 1 PROVE a[i] = s[i]
    <3>1. i \in 1 .. p - 1 - 1 + 1 /\ 1 + i - 1 = i BY <1>1
    <3> QED BY <2>2, <3>1
  <2> QED BY <1>1, <2>2, <2>3
<1>4. RemoveAt(s, p) = a \o b BY DEF RemoveAt
<1> HIDE DEF a, b, n
<1>5. /\ a \o b \in Seq(S) /\ Len(a \o b) = Len(a) + Len(b)
      /\ \A i \in 1 .. Len(a) + Len(b) : (a \o b)[i] = IF i <= Len(a) THEN a[i] ELSE b[i - Len(a)]
  BY <1>2, <1>3, ConcatProperties
<1>6. Len(a) + Len(b) = n - 1 BY <1>1, <1>2, <1>3
<1>7. ASSUME NEW i \in 1 .. n - 1 PROVE (a \o b)[i] = s[IF i < p THEN i ELSE i + 1]
  <2>1. CASE i < p
    <3>1. i \in 1 .. p - 1 /\ i <= Len(a) BY <1>1, <1>3, <2>1
    <3>n. i \in 1 .. Len(a) + Len(b) BY <1>6
    <3>2. (a \o b)[i] = a[i] BY <1>5, <3>1, <3>n
    <3>3. a[i] = s[i] BY <1>3, <3>1
    <3> QED BY <2>1, <3>2, <3>3
  <2>2. CASE ~(i < p)
    <3>1. i - (p - 1) \in 1 .. n - p /\ i - (p - 1) + p = i + 1 /\ ~(i <= p - 1) BY <1>1, <2>2
    <3>n. i \in 1 .. Len(a) + Len(b) /\ Len(a) = p - 1 BY <1>3, <1>6
    <3>2. (a \o b)[i] = b[i - (p - 1)] BY <1>5, <3>1, <3>n
    <3>3. b[i - (p - 1)] = s[i - (p - 1) + p] BY <1>2, <3>1
    <3> QED BY <2>2, <3>1, <3>2, <3>3
  <2> QED BY <2>1, <2>2
<1> QED BY <1>4, <1>5, <1>6, <1>7 DEF n

-----------------------------------------------------------------------------
(* What the pieces of a step do.                                             *)

USE DEF Clerk, Reconciler, Armer, Starter, At

LEMMA Constants ==
    /\ Period \in Nat \ {0} /\ MaxAge \in Nat \ {0} /\ Ttl \in Nat \ {0}
    /\ MaxLag \in Nat /\ MaxRequests \in Nat
    /\ MaxLag < Period /\ Period + MaxLag <= MaxAge
  BY SessionAssumption

LEMMA GotoFacts ==
    ASSUME Types, NEW c \in Clerk, NEW pc \in ClerkPCs, Goto(c, pc)
    PROVE  /\ clerk' \in [Clerk -> ClerkType]
           /\ clerk'[c].pc = pc /\ clerk'[c].age = 0 /\ clerk'[c].seen = 0
           /\ \A d \in Clerk : d # c => clerk'[d] = clerk[d]
<1> DEFINE k == [Resting EXCEPT !.pc = pc]
<1>0. Resting \in ClerkType BY Constants DEF ClerkType, Expired, Resting, ClerkPCs
<1>1. k \in ClerkType /\ k.pc = pc /\ k.age = 0 /\ k.seen = 0
  <2>1. k \in ClerkType BY <1>0 DEF ClerkType
  <2> QED BY <2>1 DEF Resting
<1>2. clerk' = [clerk EXCEPT ![c] = k] BY Zenon DEF Goto
<1>3. clerk \in [Clerk -> ClerkType] BY DEF Types
<1> HIDE DEF k
<1> QED BY <1>1, <1>2, <1>3

LEMMA NowFacts ==
    ASSUME ArmsOK, NEW c \in Clerk, NEW state \in States \ {"pending"}, Now(c, state)
    PROVE  /\ arms' \in Seq(ArmType) /\ Len(arms') = Len(arms)
           /\ \A i \in 1 .. Len(arms) :
                 /\ arms'[i].by = arms[i].by /\ arms'[i].left = arms[i].left
                 /\ arms'[i].state = IF arms[i].by = c /\ arms[i].state = "pending" THEN state ELSE arms[i].state
<1>1. arms \in Seq(ArmType) /\ Len(arms) \in Nat /\ DOMAIN arms = 1 .. Len(arms) BY DEF ArmsOK
<1> DEFINE f(i) == IF arms[i].by = c /\ arms[i].state = "pending"
                   THEN [arms[i] EXCEPT !.state = state] ELSE arms[i]
<1>2. arms' = [i \in 1 .. Len(arms) |-> f(i)] BY <1>1 DEF Now
<1>3. ASSUME NEW i \in 1 .. Len(arms)
      PROVE  /\ f(i) \in ArmType
             /\ f(i).by = arms[i].by /\ f(i).left = arms[i].left
             /\ f(i).state = IF arms[i].by = c /\ arms[i].state = "pending" THEN state ELSE arms[i].state
  <2>1. arms[i] \in ArmType BY <1>1
  <2> QED BY <2>1 DEF ArmType, States
<1> HIDE DEF f
<1> QED BY <1>1, <1>2, <1>3

\* The row that counts, if there is one.
Committed == {i \in DOMAIN arms : arms[i].state \in {"armed", "revoked"}}

LastOne(rows) == IF rows = {} THEN 0 ELSE CHOOSE i \in rows : \A j \in rows : j <= i

LEMMA LatestFacts ==
    ASSUME ArmsOK
    PROVE  \/ Latest = 0 /\ Committed = {}
           \/ Latest \in Committed /\ \A j \in Committed : j <= Latest
<1>1. CASE Committed = {} BY <1>1 DEF Latest, Committed
<1>2. CASE Committed # {}
  <2>1. Committed \in SUBSET (1 .. Len(arms)) /\ Len(arms) \in Nat BY DEF ArmsOK, Committed
  <2>2. \E i \in Committed : \A j \in Committed : j <= i BY <1>2, <2>1, LastOf
  <2>3. Latest = CHOOSE i \in Committed : \A j \in Committed : j <= i BY <1>2 DEF Latest, Committed
  <2> QED BY <2>2, <2>3
<1> QED BY <1>1, <1>2

\* It stays the same when the rows that are committed do.
LEMMA LatestSame ==
    ASSUME Committed' = Committed
    PROVE  Latest' = Latest
<1>1. Latest = LastOne(Committed) BY DEF Latest, LastOne, Committed
<1>2. Latest' = LastOne(Committed') BY DEF Latest, LastOne, Committed
<1> QED BY <1>1, <1>2

-----------------------------------------------------------------------------
(* The initial states.                                                       *)

LEMMA IInvInit == Init => IInv
<1> SUFFICES ASSUME Init PROVE IInv OBVIOUS
<1> USE Constants DEF Init
<1>1. Resting \in ClerkType /\ [Resting EXCEPT !.pc = "due"] \in ClerkType
  <2>1. Resting \in ClerkType BY DEF Resting, ClerkType, ClerkPCs, Expired
  <2> QED BY <2>1 DEF ClerkType, ClerkPCs
<1>2. /\ clerk \in [Clerk -> ClerkType]
      /\ \A c \in Clerk : clerk[c].pc = (IF c = "open" THEN "due" ELSE "idle") /\ clerk[c].seen = 0 /\ clerk[c].age = 0
  BY <1>1 DEF Resting
<1>3. Types
  <2>1. NoVerdict \in [age : 0 .. Expired, seen : 0 .. Expired, safe : BOOLEAN] BY DEF NoVerdict, Expired
  <2>2. wait \in -MaxLag .. Period /\ requests \in 0 .. MaxRequests OBVIOUS
  <2> QED BY <1>2, <2>1, <2>2 DEF Types
<1>4. OrderOK BY DEF OrderOK, IsInjective
<1>5. ArmsOK BY DEF ArmsOK
<1>6. RefreshOK BY <1>2 DEF RefreshOK
<1>7. SeenOK BY <1>2 DEF SeenOK, NoVerdict, Expired
<1>8. AgesOK BY <1>2 DEF AgesOK, Active
<1>9. KeptOK /\ HaltOK BY DEF KeptOK, HaltOK
<1>10. DisarmOK BY DEF DisarmOK
<1> QED BY <1>3, <1>4, <1>5, <1>6, <1>7, <1>8, <1>9, <1>10 DEF IInv

-----------------------------------------------------------------------------
(* The types.                                                                *)

LEMMA TypesStep == IInv /\ [Next]_vars => Types'
<1> SUFFICES ASSUME IInv, [Next]_vars PROVE Types' OBVIOUS
<1> USE Constants DEF switches, history, books
<1>0. Types BY DEF IInv
<1>a. /\ wait \in Int /\ requests \in 0 .. MaxRequests /\ MaxRequests \in Nat
      /\ \A c \in Clerk : clerk[c].age \in 0 .. Expired /\ clerk[c].seen \in 0 .. Expired /\ clerk[c].safe \in BOOLEAN
  BY <1>0 DEF Types, ClerkType
<1>b. ASSUME NEW c \in Clerk, NEW pc \in ClerkPCs, Goto(c, pc) PROVE clerk' \in [Clerk -> ClerkType]
  BY <1>0, <1>b, GotoFacts
<1>d. Ask \/ UNCHANGED requests => requests' \in 0 .. MaxRequests BY <1>a DEF Ask
<1>c. {"read", "store", "idle", "begin", "inspect", "arm", "look", "start"} \subseteq ClerkPCs BY DEF ClerkPCs
<1>1. CASE OpenBegin
  <2>1. clerk' \in [Clerk -> ClerkType] BY <1>1, <1>b, <1>c DEF OpenBegin, GiveUp, Begin
  <2> QED BY <1>0, <1>1, <2>1 DEF Types, OpenBegin
<1>2. CASE RefreshBegin
  <2>1. clerk' \in [Clerk -> ClerkType] BY <1>0, <1>2, <1>b, <1>c DEF RefreshBegin, Begin, Types
  <2> QED BY <1>0, <1>2, <2>1 DEF Types, RefreshBegin, Armed
<1>3. CASE ReconcileBegin
  <2>1. clerk' \in [Clerk -> ClerkType] BY <1>3, <1>b, <1>c DEF ReconcileBegin, Begin
  <2> QED BY <1>0, <1>3, <2>1 DEF Types, ReconcileBegin, Ask
<1>4. ASSUME NEW c \in Reconciler, Read(c) PROVE Types'
  <2>1. PICK safe \in BOOLEAN : clerk' = [clerk EXCEPT ![c].pc = "store", ![c].safe = safe] BY <1>4 DEF Read
  <2>2. clerk' \in [Clerk -> ClerkType] BY <1>0, <2>1, <1>c DEF Types, ClerkType
  <2> QED BY <1>0, <1>4, <2>2 DEF Types, Read
<1>5. ASSUME NEW c \in Reconciler, Store(c) PROVE Types'
  <2>1. clerk' \in [Clerk -> ClerkType] BY <1>5, <1>b, <1>c DEF Store
  <2>2. verdict' = Row(c) \/ verdict' = verdict BY <1>5 DEF Store
  <2>3. verdict' \in [age : 0 .. Expired, seen : 0 .. Expired, safe : BOOLEAN]
    BY <1>0, <1>a, <2>2 DEF Types, Row
  <2> QED BY <1>0, <1>5, <2>1, <2>3 DEF Types, Store
<1>6. ASSUME NEW c \in Armer, ArmBegin(c) PROVE Types'
  <2>1. clerk' \in [Clerk -> ClerkType] BY <1>6, <1>b, <1>c DEF ArmBegin
  <2>2. requests' \in 0 .. MaxRequests BY <1>6, <1>d DEF ArmBegin
  <2> QED BY <1>0, <1>6, <2>1, <2>2 DEF Types, ArmBegin
<1>7. ASSUME NEW c \in Armer, Inspect(c) PROVE Types'
  <2>1. clerk' \in [Clerk -> ClerkType] BY <1>7, <1>b, <1>c DEF Inspect, GiveUp
  <2> QED BY <1>0, <1>7, <2>1 DEF Types, Inspect
<1>8. ASSUME NEW c \in Armer, Arm(c) PROVE Types'
  <2>1. clerk' \in [Clerk -> ClerkType] BY <1>8, <1>b, <1>c DEF Arm
  <2> QED BY <1>0, <1>8, <2>1 DEF Types, Arm
<1>9. CASE DisarmLook BY <1>0, <1>9 DEF Types, DisarmLook, Ask
<1>10. CASE Disarm
  <2>1. disarmed' \in BOOLEAN BY <1>0, <1>10 DEF Types, Disarm
  <2> QED BY <1>0, <1>10, <2>1 DEF Types, Disarm
<1>11. ASSUME NEW c \in Starter, StartLook(c) PROVE Types'
  <2>1. clerk' \in [Clerk -> ClerkType] BY <1>11, <1>b, <1>c DEF StartLook, GiveUp
  <2>2. requests' \in 0 .. MaxRequests BY <1>11, <1>d DEF StartLook
  <2>3. halted' \in BOOLEAN BY <1>0, <1>11 DEF StartLook, Types
  <2> QED BY <1>0, <1>11, <2>1, <2>2, <2>3 DEF Types, StartLook
<1>12. ASSUME NEW c \in Starter, Start(c) PROVE Types'
  <2>1. clerk' \in [Clerk -> ClerkType] BY <1>12, <1>b, <1>c DEF Start, GiveUp
  <2> QED BY <1>0, <1>12, <2>1 DEF Types, Start
<1>13. CASE StopScanner \/ ClearStop
  <2>1. requests' \in 0 .. MaxRequests BY <1>13, <1>d DEF StopScanner, ClearStop
  <2>2. /\ UNCHANGED <<wait, clerk, verdict, stopper, disarmed, halted, kept>>
        /\ stop' \in BOOLEAN /\ control' \in {"STOPPED", "RUNNING"}
    BY <1>0, <1>13 DEF Types, StopScanner, ClearStop
  <2> QED BY <1>0, <2>1, <2>2 DEF Types
<1>17. CASE EmergencyStop
  <2>1. requests' \in 0 .. MaxRequests BY <1>17, <1>d DEF EmergencyStop
  <2>2. halted' \in BOOLEAN BY <1>0, <1>17, Zenon DEF EmergencyStop, Types
  <2> QED BY <1>0, <1>17, <2>1, <2>2 DEF Types, EmergencyStop
<1>14. ASSUME NEW c \in Clerk, Fail(c) PROVE Types'
  <2>1. clerk' \in [Clerk -> ClerkType] BY <1>14, <1>b, <1>c DEF Fail, GiveUp
  <2>2. kept' \in BOOLEAN BY <1>0, <1>14 DEF Types, Fail
  <2> QED BY <1>0, <1>14, <2>1, <2>2 DEF Types, Fail
<1>15. CASE Tick
  <2>1. \A n \in 0 .. Expired : Older(n) \in 0 .. Expired BY DEF Older, Expired
  <2>2. clerk' \in [Clerk -> ClerkType]
    <3> DEFINE f(c) == [clerk[c] EXCEPT !.age = IF At(c, "read") \/ At(c, "store") THEN Older(@) ELSE @,
                                        !.seen = IF At(c, "store") THEN Older(@) ELSE @]
    <3>1. ASSUME NEW c \in Clerk PROVE f(c) \in ClerkType
      <4>1. clerk[c] \in ClerkType BY <1>0 DEF Types
      <4> QED BY <2>1, <4>1 DEF ClerkType
    <3>2. clerk' = [c \in Clerk |-> f(c)] BY <1>15 DEF Tick
    <3> HIDE DEF f
    <3> QED BY <3>1, <3>2
  <2>3. verdict' \in [age : 0 .. Expired, seen : 0 .. Expired, safe : BOOLEAN]
    <3>1. NoVerdict \in [age : 0 .. Expired, seen : 0 .. Expired, safe : BOOLEAN] BY DEF NoVerdict, Expired
    <3> QED BY <1>0, <1>15, <2>1, <3>1 DEF Tick, Types
  <2>4. wait' \in -MaxLag .. Period BY <1>0, <1>15 DEF Tick, Types
  <2> QED BY <1>0, <1>15, <2>2, <2>3, <2>4 DEF Types, Tick
<1>16. CASE UNCHANGED vars BY <1>0, <1>16 DEF Types, vars
<1> QED BY <1>1, <1>2, <1>3, <1>4, <1>5, <1>6, <1>7, <1>8, <1>9, <1>10, <1>11, <1>12, <1>13, <1>14, <1>15, <1>16, <1>17 DEF Next

-----------------------------------------------------------------------------
(* What stands in order.                                                     *)

\* A transaction that starts goes to the end of it, ...
LEMMA BeginOrder ==
    ASSUME Types, OrderOK, NEW c \in Reconciler, ~Active(c), Begin(c)
    PROVE  /\ OrderOK'
           /\ Len(order') = Len(order) + 1 /\ order'[Len(order) + 1] = c
           /\ \A i \in DOMAIN order : order'[i] = order[i]
<1>1. /\ order' \in Seq(Reconciler) /\ Len(order') = Len(order) + 1 /\ Len(order) \in Nat
      /\ order'[Len(order) + 1] = c
      /\ \A i \in DOMAIN order : order'[i] = order[i]
  BY DEF Begin, OrderOK
<1>2. DOMAIN order = 1 .. Len(order) /\ DOMAIN order' = 1 .. Len(order) + 1 BY <1>1 DEF OrderOK
<1>3. /\ clerk'[c].pc = "read"
      /\ \A d \in Clerk : d # c => clerk'[d] = clerk[d]
  BY GotoFacts DEF Begin, ClerkPCs
<1>4. \A i \in DOMAIN order : order[i] \in Reconciler /\ Active(order[i]) /\ order[i] # c BY DEF OrderOK
<1>5. IsInjective(order')
  <2> SUFFICES ASSUME NEW i \in DOMAIN order', NEW j \in DOMAIN order', order'[i] = order'[j] PROVE i = j
    BY DEF IsInjective
  <2>1. CASE i \in DOMAIN order /\ j \in DOMAIN order BY <1>1, <2>1 DEF OrderOK, IsInjective
  <2>2. CASE i = Len(order) + 1 \/ j = Len(order) + 1 BY <1>1, <1>2, <1>4, <2>2
  <2> QED BY <1>1, <1>2, <2>1, <2>2
<1>6. \A i \in DOMAIN order' : Active(order[i])'
  <2> SUFFICES ASSUME NEW i \in DOMAIN order' PROVE Active(order[i])' OBVIOUS
  <2>1. CASE i = Len(order) + 1 BY <1>1, <1>3, <2>1 DEF Active
  <2>2. CASE i \in DOMAIN order
    <3>1. order'[i] = order[i] /\ order[i] \in Clerk /\ order[i] # c /\ Active(order[i]) BY <1>1, <1>4, <2>2
    <3>2. clerk'[order[i]] = clerk[order[i]] BY <1>3, <3>1
    <3> HIDE DEF Clerk, Reconciler, Armer, Starter
    <3> QED BY <3>1, <3>2 DEF Active
  <2> HIDE DEF Clerk, Reconciler, Armer, Starter
  <2> QED BY <1>1, <1>2, <2>1, <2>2
<1> HIDE DEF Clerk, Reconciler, Armer, Starter
<1> QED BY <1>1, <1>5, <1>6 DEF OrderOK

\* ... one that stores takes with it all that started before, ...
LEMMA StoreOrder ==
    ASSUME OrderOK, NEW c, Place(c) # 0, order' = SubSeq(order, Place(c) + 1, Len(order))
    PROVE  /\ order' \in Seq(Reconciler) /\ IsInjective(order')
           /\ Len(order') = Len(order) - Place(c)
           /\ Place(c) \in DOMAIN order /\ order[Place(c)] = c
           /\ \A i \in DOMAIN order' :
                 i + Place(c) \in DOMAIN order /\ order'[i] = order[i + Place(c)] /\ order'[i] # c
           /\ \A j \in DOMAIN order : j > Place(c) => \E i \in DOMAIN order' : order'[i] = order[j]
<1>1. Place(c) \in DOMAIN order /\ order[Place(c)] = c BY PlaceType DEF OrderOK
<1>2. order \in Seq(Reconciler) /\ Len(order) \in Nat /\ DOMAIN order = 1 .. Len(order) BY DEF OrderOK
<1> DEFINE p == Place(c)
<1>3. p \in 1 .. Len(order) /\ order' = SubSeq(order, p + 1, Len(order)) BY <1>1, <1>2
<1> HIDE DEF p
<1>4. order' \in Seq(Reconciler) /\ Len(order') = Len(order) - p BY <1>2, <1>3, AfterFirst
<1>5. \A i \in 1 .. Len(order) - p : order'[i] = order[i + p] BY <1>2, <1>3, AfterFirst
<1>6. DOMAIN order' = 1 .. Len(order) - p BY <1>4
<1> HIDE DEF Clerk, Reconciler, Armer, Starter
<1>n. Len(order) \in Nat /\ DOMAIN order = 1 .. Len(order) /\ p \in 1 .. Len(order) BY <1>2, <1>3
<1>7. ASSUME NEW i \in DOMAIN order'
      PROVE  i + p \in DOMAIN order /\ order'[i] = order[i + p] /\ i + p # p /\ i \in Nat
  <2>1. i \in 1 .. Len(order) - p BY <1>6
  <2>2. order'[i] = order[i + p] BY <1>5, <2>1
  <2>3. i \in Nat /\ i + p \in 1 .. Len(order) /\ i + p # p BY <1>n, <2>1
  <2> QED BY <1>n, <2>2, <2>3
<1>8. \A i, j \in DOMAIN order : order[i] = order[j] => i = j BY DEF OrderOK, IsInjective
<1>9. IsInjective(order')
  <2> SUFFICES ASSUME NEW i \in DOMAIN order', NEW j \in DOMAIN order', order'[i] = order'[j] PROVE i = j
    BY DEF IsInjective
  <2>1. i + p = j + p BY <1>7, <1>8
  <2> QED BY <1>n, <1>7, <2>1
<1>10. \A i \in DOMAIN order' : order'[i] # c BY <1>1, <1>7, <1>8 DEF p
<1>11. ASSUME NEW j \in DOMAIN order, j > p PROVE \E i \in DOMAIN order' : order'[i] = order[j]
  <2>0. j \in 1 .. Len(order) BY <1>n
  <2>1. j - p \in 1 .. Len(order) - p /\ (j - p) + p = j BY <1>n, <1>11, <2>0
  <2>2. j - p \in DOMAIN order' BY <1>6, <2>1
  <2> QED BY <1>7, <2>1, <2>2
<1> QED BY <1>1, <1>4, <1>7, <1>9, <1>10, <1>11 DEF p

\* ... and one that fails leaves the others as they are.
LEMMA FailOrder ==
    ASSUME OrderOK, NEW c, Place(c) # 0, order' = RemoveAt(order, Place(c))
    PROVE  /\ order' \in Seq(Reconciler) /\ IsInjective(order')
           /\ Place(c) \in DOMAIN order /\ order[Place(c)] = c
           /\ Len(order') = Len(order) - 1
           /\ \A i \in DOMAIN order' :
                 LET j == IF i < Place(c) THEN i ELSE i + 1 IN
                 j \in DOMAIN order /\ order'[i] = order[j] /\ order'[i] # c
           /\ \A j \in DOMAIN order : j # Place(c) => \E i \in DOMAIN order' : order'[i] = order[j]
<1>1. Place(c) \in DOMAIN order /\ order[Place(c)] = c BY PlaceType DEF OrderOK
<1>2. order \in Seq(Reconciler) /\ Len(order) \in Nat /\ DOMAIN order = 1 .. Len(order) BY DEF OrderOK
<1> DEFINE p == Place(c)
           at(i) == IF i < p THEN i ELSE i + 1
<1>3. p \in 1 .. Len(order) /\ order' = RemoveAt(order, p) BY <1>1, <1>2
<1> HIDE DEF p
<1>6. /\ order' \in Seq(Reconciler) /\ Len(order') = Len(order) - 1
      /\ \A i \in 1 .. Len(order) - 1 : order'[i] = order[at(i)]
  BY <1>2, <1>3, Without
<1>7. DOMAIN order' = 1 .. Len(order) - 1 BY <1>6
<1> HIDE DEF Clerk, Reconciler, Armer, Starter
<1>10. \A i \in DOMAIN order' : at(i) \in DOMAIN order /\ order'[i] = order[at(i)] /\ at(i) # p
  BY <1>2, <1>3, <1>6, <1>7
<1>11. \A i, j \in DOMAIN order' : at(i) = at(j) => i = j BY <1>3, <1>7
<1> HIDE DEF at
<1>12. \A i, j \in DOMAIN order : order[i] = order[j] => i = j BY DEF OrderOK, IsInjective
<1>13. IsInjective(order')
  <2> SUFFICES ASSUME NEW i \in DOMAIN order', NEW j \in DOMAIN order', order'[i] = order'[j] PROVE i = j
    BY DEF IsInjective
  <2>1. at(i) = at(j) BY <1>10, <1>12
  <2> QED BY <1>11, <2>1
<1>14. order[p] = c BY <1>1 DEF p
<1>15. \A i \in DOMAIN order' : order'[i] # c BY <1>3, <1>10, <1>12, <1>14
<1>16. ASSUME NEW j \in DOMAIN order, j # p PROVE \E i \in DOMAIN order' : order'[i] = order[j]
  <2>1. CASE j < p
    <3>1. j \in DOMAIN order' /\ at(j) = j BY <1>2, <1>3, <1>7, <2>1 DEF at
    <3> QED BY <1>10, <3>1
  <2>2. CASE j > p
    <3>1. j - 1 \in DOMAIN order' /\ at(j - 1) = j BY <1>2, <1>3, <1>7, <2>2 DEF at
    <3> QED BY <1>10, <3>1
  <2> QED BY <1>2, <1>3, <1>16, <2>1, <2>2
<1> QED BY <1>1, <1>6, <1>10, <1>13, <1>15, <1>16 DEF p, at

-----------------------------------------------------------------------------
(* The ages.                                                                 *)

Verdicts == OrderOK /\ RefreshOK /\ SeenOK /\ AgesOK /\ KeptOK

\* Who stands in order is a clerk, and reconciles.
LEMMA InOrder ==
    ASSUME OrderOK, NEW i \in DOMAIN order
    PROVE  order[i] \in Reconciler /\ order[i] \in Clerk /\ Active(order[i])
  BY DEF OrderOK

LEMMA Ages ==
    ASSUME Types
    PROVE  /\ \A c \in Clerk : clerk[c].age \in 0 .. Expired /\ clerk[c].seen \in 0 .. Expired
           /\ verdict.age \in 0 .. Expired /\ verdict.seen \in 0 .. Expired
           /\ wait \in -MaxLag .. Period /\ Expired \in Int
  BY Constants DEF Types, ClerkType, Expired

\* A step of somebody who does not reconcile.
LEMMA Elsewhere ==
    ASSUME Types, Verdicts, NEW c \in Clerk, ~Active(c), c # "refresh",
           NEW pc \in ClerkPCs \ {"read", "store"}, Goto(c, pc),
           UNCHANGED <<wait, order, verdict, kept>>
    PROVE  Verdicts'
<1>1. /\ clerk'[c].pc = pc /\ clerk'[c].age = 0 /\ clerk'[c].seen = 0
      /\ \A d \in Clerk : d # c => clerk'[d] = clerk[d]
  BY GotoFacts
<1>2. \A i \in DOMAIN order : order[i] \in Reconciler /\ order[i] # c /\ clerk'[order[i]] = clerk[order[i]]
  BY <1>1, InOrder DEF Verdicts
<1>3. \A d \in Clerk : Active(d)' <=> Active(d) BY <1>1 DEF Active
<1>4. OrderOK' BY <1>2, <1>3 DEF Verdicts, OrderOK, IsInjective
<1>5. clerk'["refresh"] = clerk["refresh"] BY <1>1
<1>6. RefreshOK' BY <1>5 DEF Verdicts, RefreshOK, Active
<1>7. SeenOK' BY <1>1 DEF Verdicts, SeenOK
<1>8. AgesOK' BY <1>1, <1>2, <1>3 DEF Verdicts, AgesOK, Out
<1>9. KeptOK' BY <1>5 DEF Verdicts, KeptOK
<1> QED BY <1>4, <1>6, <1>7, <1>8, <1>9 DEF Verdicts

\* A step of nobody.
LEMMA Nobody ==
    ASSUME Verdicts, UNCHANGED <<wait, clerk, order, verdict, kept>> PROVE Verdicts'
<1>1. OrderOK' BY DEF Verdicts, OrderOK, IsInjective, Active
<1>2. RefreshOK' /\ SeenOK' /\ KeptOK' BY DEF Verdicts, RefreshOK, SeenOK, KeptOK, Active
<1>3. AgesOK' BY DEF Verdicts, AgesOK, Out, Active
<1> QED BY <1>1, <1>2, <1>3 DEF Verdicts

\* A transaction that starts is younger than all that is read so far.
LEMMA BeginAges ==
    ASSUME Types, Verdicts, NEW c \in Reconciler, ~Active(c), Begin(c), UNCHANGED verdict
    PROVE  OrderOK' /\ SeenOK' /\ AgesOK'
<1>1. /\ clerk'[c].pc = "read" /\ clerk'[c].age = 0 /\ clerk'[c].seen = 0
      /\ \A d \in Clerk : d # c => clerk'[d] = clerk[d]
  BY GotoFacts DEF Begin, ClerkPCs
<1>2. /\ OrderOK' /\ Len(order') = Len(order) + 1 /\ order'[Len(order) + 1] = c
      /\ \A i \in DOMAIN order : order'[i] = order[i]
  BY BeginOrder DEF Verdicts
<1>3. SeenOK' BY <1>1 DEF Verdicts, SeenOK
<1>4. /\ DOMAIN order = 1 .. Len(order) /\ DOMAIN order' = 1 .. Len(order) + 1 /\ Len(order) \in Nat
  BY <1>2 DEF Verdicts, OrderOK
<1> DEFINE n == Len(order)
<1> HIDE DEF n
<1>5. \A i \in 1 .. n : order[i] \in Clerk /\ order[i] # c /\ order'[i] = order[i] /\ clerk'[order[i]] = clerk[order[i]]
  BY <1>1, <1>2, <1>4, InOrder DEF Verdicts, n
<1>6. ASSUME NEW i \in DOMAIN order', NEW j \in DOMAIN order', i < j
      PROVE  clerk'[order'[j]].age <= clerk'[order'[i]].age
  <2>1. i \in 1 .. n BY <1>4, <1>6 DEF n
  <2>2. CASE j \in 1 .. n BY <1>4, <1>5, <1>6, <2>1, <2>2 DEF Verdicts, AgesOK, n
  <2>3. CASE j = n + 1
    <3>1. clerk'[order'[j]].age = 0 BY <1>1, <1>2, <2>3 DEF n
    <3>2. clerk'[order'[i]].age \in 0 .. Expired BY <1>5, <2>1, Ages
    <3> QED BY <3>1, <3>2, Ages
  <2> QED BY <1>4, <2>2, <2>3 DEF n
<1>7. ASSUME NEW i \in DOMAIN order' PROVE clerk'[order'[i]].age <= verdict.age
  <2>1. CASE i \in 1 .. n BY <1>4, <1>5, <2>1 DEF Verdicts, AgesOK, n
  <2>2. CASE i = n + 1 BY <1>1, <1>2, <2>2, Ages DEF n
  <2> QED BY <1>4, <2>1, <2>2 DEF n
<1>8. ASSUME NEW d \in Reconciler, Active(d)', Out(d)' PROVE verdict.age <= clerk'[d].age
  <2>1. d # c BY <1>2, <1>4, <1>8 DEF Out
  <2>2. clerk'[d] = clerk[d] BY <1>1, <2>1
  <2>3. Out(d) BY <1>2, <1>4, <1>8 DEF Out
  <2> QED BY <1>8, <2>2, <2>3 DEF Verdicts, AgesOK, Active
<1>9. AgesOK' BY <1>6, <1>7, <1>8 DEF AgesOK
<1> QED BY <1>2, <1>3, <1>9

\* One that ends, with or without its row.
LEMMA EndAges ==
    ASSUME Types, Verdicts, NEW c \in Clerk, NEW pc \in ClerkPCs \ {"read", "store"}, Goto(c, pc),
           \/ Place(c) = 0 /\ UNCHANGED <<order, verdict>>
           \/ Place(c) # 0 /\ verdict' = Row(c) /\ order' = SubSeq(order, Place(c) + 1, Len(order))
           \/ Place(c) # 0 /\ UNCHANGED verdict /\ order' = RemoveAt(order, Place(c))
    PROVE  OrderOK' /\ SeenOK' /\ AgesOK'
<1>1. /\ clerk'[c].pc = pc /\ clerk'[c].age = 0 /\ clerk'[c].seen = 0
      /\ \A d \in Clerk : d # c => clerk'[d] = clerk[d]
  BY GotoFacts
<1>2. ~Active(c)' /\ \A d \in Clerk : d # c => (Active(d)' <=> Active(d)) BY <1>1 DEF Active
<1>3. \A i \in DOMAIN order : order[i] \in Reconciler /\ order[i] \in Clerk /\ Active(order[i])
  BY InOrder DEF Verdicts
<1>o. OrderOK BY DEF Verdicts
<1>4. CASE Place(c) = 0 /\ UNCHANGED <<order, verdict>>
  <2>1. \A i \in DOMAIN order : order[i] # c BY <1>4, <1>o, <1>3, PlaceType DEF OrderOK
  <2>2. OrderOK' BY <1>1, <1>2, <1>3, <1>4, <2>1 DEF Verdicts, OrderOK, IsInjective
  <2>3. SeenOK' BY <1>1, <1>4 DEF Verdicts, SeenOK
  <2>4. AgesOK' BY <1>1, <1>2, <1>3, <1>4, <2>1 DEF Verdicts, AgesOK, Out
  <2> QED BY <2>2, <2>3, <2>4
<1>5. CASE Place(c) # 0 /\ verdict' = Row(c) /\ order' = SubSeq(order, Place(c) + 1, Len(order))
  <2> DEFINE p == Place(c)
  <2>1. /\ order' \in Seq(Reconciler) /\ IsInjective(order')
        /\ p \in DOMAIN order /\ order[p] = c
        /\ \A i \in DOMAIN order' : i + p \in DOMAIN order /\ order'[i] = order[i + p] /\ order'[i] # c
        /\ \A j \in DOMAIN order : j > p => \E i \in DOMAIN order' : order'[i] = order[j]
    BY <1>5, <1>o, StoreOrder
  <2> HIDE DEF p
  <2>2. DOMAIN order \subseteq Nat /\ DOMAIN order' \subseteq Nat /\ c \in Reconciler BY <1>o, <1>3, <2>1 DEF OrderOK
  <2>3. \A i \in DOMAIN order' : order'[i] \in Clerk /\ clerk'[order'[i]] = clerk[order[i + p]] /\ p < i + p
    BY <1>1, <1>3, <2>1, <2>2
  <2>4. OrderOK' BY <1>2, <1>3, <2>1, <2>3 DEF OrderOK
  <2>5. verdict'.age = clerk[c].age /\ verdict'.seen = clerk[c].seen BY <1>5 DEF Row
  <2>6. SeenOK' BY <1>1, <2>2, <2>5 DEF Verdicts, SeenOK
  <2>7. ASSUME NEW i \in DOMAIN order', NEW j \in DOMAIN order', i < j
        PROVE  clerk'[order'[j]].age <= clerk'[order'[i]].age
    <3>1. i + p < j + p BY <2>1, <2>2, <2>7
    <3> QED BY <2>1, <2>3, <3>1 DEF Verdicts, AgesOK
  <2>8. ASSUME NEW i \in DOMAIN order' PROVE clerk'[order'[i]].age <= verdict'.age
    BY <2>1, <2>3, <2>5 DEF Verdicts, AgesOK
  <2>9. ASSUME NEW d \in Reconciler, Active(d)', Out(d)' PROVE verdict'.age <= clerk'[d].age
    <3>1. d # c /\ clerk'[d] = clerk[d] /\ Active(d) BY <1>1, <1>2, <2>9
    <3>2. CASE Out(d)
      <4>1. clerk[c].age <= verdict.age /\ verdict.age <= clerk[d].age BY <2>1, <3>1, <3>2 DEF Verdicts, AgesOK
      <4>2. clerk[c].age \in Int /\ clerk[d].age \in Int /\ verdict.age \in Int BY <2>2, Ages
      <4> QED BY <2>5, <3>1, <4>1, <4>2
    <3>3. CASE ~Out(d)
      <4>1. PICK j \in DOMAIN order : order[j] = d BY <3>3 DEF Out
      <4>2. ~(j > p) /\ j # p BY <2>1, <2>9, <3>1, <4>1 DEF Out
      <4>3. j < p BY <2>1, <2>2, <4>2
      <4> QED BY <2>1, <2>5, <3>1, <4>1, <4>3 DEF Verdicts, AgesOK
    <3> QED BY <3>2, <3>3
  <2>10. AgesOK' BY <2>7, <2>8, <2>9 DEF AgesOK
  <2> QED BY <2>4, <2>6, <2>10
<1>6. CASE Place(c) # 0 /\ UNCHANGED verdict /\ order' = RemoveAt(order, Place(c))
  <2> DEFINE p == Place(c)
             at(i) == IF i < p THEN i ELSE i + 1
  <2>1. /\ order' \in Seq(Reconciler) /\ IsInjective(order')
        /\ p \in DOMAIN order /\ order[p] = c
        /\ \A i \in DOMAIN order' : at(i) \in DOMAIN order /\ order'[i] = order[at(i)] /\ order'[i] # c
        /\ \A j \in DOMAIN order : j # p => \E i \in DOMAIN order' : order'[i] = order[j]
    BY <1>6, <1>o, FailOrder
  <2> HIDE DEF p
  <2>2. DOMAIN order \subseteq Nat /\ DOMAIN order' \subseteq Nat BY <1>o, <2>1 DEF OrderOK
  <2>3. \A i, j \in DOMAIN order' : i < j => at(i) < at(j) BY <2>1, <2>2
  <2> HIDE DEF at
  <2>4. \A i \in DOMAIN order' : order'[i] \in Clerk /\ clerk'[order'[i]] = clerk[order[at(i)]]
    BY <1>1, <1>3, <2>1
  <2>5. OrderOK' BY <1>2, <1>3, <2>1, <2>4 DEF OrderOK
  <2>6. SeenOK' BY <1>1, <1>6 DEF Verdicts, SeenOK
  <2>7. ASSUME NEW i \in DOMAIN order', NEW j \in DOMAIN order', i < j
        PROVE  clerk'[order'[j]].age <= clerk'[order'[i]].age
    BY <2>1, <2>3, <2>4, <2>7 DEF Verdicts, AgesOK
  <2>8. ASSUME NEW i \in DOMAIN order' PROVE clerk'[order'[i]].age <= verdict'.age
    BY <1>6, <2>1, <2>4 DEF Verdicts, AgesOK
  <2>9. ASSUME NEW d \in Reconciler, Active(d)', Out(d)' PROVE verdict'.age <= clerk'[d].age
    <3>1. d # c /\ clerk'[d] = clerk[d] /\ Active(d) BY <1>1, <1>2, <2>9
    <3>2. Out(d) BY <2>1, <2>9, <3>1 DEF Out
    <3> QED BY <1>6, <3>1, <3>2 DEF Verdicts, AgesOK
  <2>10. AgesOK' BY <2>7, <2>8, <2>9 DEF AgesOK
  <2> QED BY <2>5, <2>6, <2>10
<1> QED BY <1>4, <1>5, <1>6

LEMMA TickVerdicts == ASSUME Types, Verdicts, Tick PROVE Verdicts'
<1> USE Constants
<1>1. \A c \in Clerk : /\ clerk'[c].pc = clerk[c].pc
                       /\ clerk'[c].age = IF Active(c) THEN Older(clerk[c].age) ELSE clerk[c].age
                       /\ clerk'[c].seen = IF At(c, "store") THEN Older(clerk[c].seen) ELSE clerk[c].seen
  <2> SUFFICES ASSUME NEW c \in Clerk
               PROVE  /\ clerk'[c].pc = clerk[c].pc
                      /\ clerk'[c].age = IF Active(c) THEN Older(clerk[c].age) ELSE clerk[c].age
                      /\ clerk'[c].seen = IF At(c, "store") THEN Older(clerk[c].seen) ELSE clerk[c].seen
    OBVIOUS
  <2>1. clerk[c] \in ClerkType BY DEF Types
  <2>2. clerk'[c] = [clerk[c] EXCEPT !.age = IF At(c, "read") \/ At(c, "store") THEN Older(@) ELSE @,
                                     !.seen = IF At(c, "store") THEN Older(@) ELSE @]
    BY DEF Tick
  <2> QED BY <2>1, <2>2 DEF Active, ClerkType
<1>2. \A c \in Clerk : Active(c)' <=> Active(c) BY <1>1 DEF Active
<1>3. \A m, n \in 0 .. Expired : m <= n => Older(m) <= Older(n) /\ m <= Older(m) /\ Older(m) \in 0 .. Expired
  BY Ages DEF Older, Expired
<1>4. /\ verdict'.age = IF verdict.age < MaxAge THEN verdict.age + 1 ELSE Expired
      /\ verdict'.seen = IF verdict.age < MaxAge THEN Older(verdict.seen) ELSE Expired
  <2>1. CASE verdict.age < MaxAge
    BY <2>1, Ages DEF Tick, Types, Older, Expired
  <2>2. CASE ~(verdict.age < MaxAge) BY <2>2 DEF Tick, NoVerdict
  <2> QED BY <2>1, <2>2
<1>5. order' = order /\ kept' = kept /\ wait' = wait - 1 BY DEF Tick, books, history
<1>6. OrderOK' BY <1>2, <1>5, InOrder DEF Verdicts, OrderOK, IsInjective
<1>7. SeenOK'
  <2>1. verdict'.seen <= verdict'.age BY <1>4, Ages DEF Verdicts, SeenOK, Older, Expired
  <2>2. ASSUME NEW c \in Reconciler PROVE clerk'[c].seen <= clerk'[c].age
    <3>1. /\ c \in Clerk /\ clerk[c].seen <= clerk[c].age
          /\ clerk[c].seen \in 0 .. Expired /\ clerk[c].age \in 0 .. Expired
      BY Ages DEF Verdicts, SeenOK
    <3>2. /\ Older(clerk[c].seen) <= Older(clerk[c].age) /\ clerk[c].age <= Older(clerk[c].age)
          /\ Older(clerk[c].age) \in Int
      BY <1>3, <3>1
    <3>3. CASE At(c, "store") BY <1>1, <3>1, <3>2, <3>3 DEF Active
    <3>4. CASE ~At(c, "store") BY <1>1, <3>1, <3>2, <3>4, Ages DEF Active
    <3> QED BY <3>3, <3>4
  <2> QED BY <2>1, <2>2 DEF SeenOK
<1>8. AgesOK'
  <2>1. \A i \in DOMAIN order : order[i] \in Clerk /\ clerk'[order[i]].age = Older(clerk[order[i]].age)
                                /\ clerk[order[i]].age \in 0 .. Expired
    BY <1>1, InOrder, Ages DEF Verdicts
  <2>2. \A i, j \in DOMAIN order : i < j => clerk'[order[j]].age <= clerk'[order[i]].age
    BY <1>3, <2>1 DEF Verdicts, AgesOK
  <2>3. \A i \in DOMAIN order : clerk'[order[i]].age <= verdict'.age
    BY <1>4, <2>1, Ages DEF Verdicts, AgesOK, Older, Expired
  <2>4. ASSUME NEW c \in Reconciler, Active(c), Out(c) PROVE verdict'.age <= clerk'[c].age
    <3>1. c \in Clerk /\ clerk'[c].age = Older(clerk[c].age) /\ verdict.age <= clerk[c].age
      BY <1>1, <2>4 DEF Verdicts, AgesOK
    <3> QED BY <1>4, <3>1, Ages DEF Older, Expired
  <2> QED BY <1>2, <1>5, <2>2, <2>3, <2>4 DEF AgesOK, Out
<1>9. wait > (IF At("refresh", "idle") THEN 0 ELSE Period) - MaxLag BY DEF Tick
<1>10. RefreshOK'
  <2>1. CASE At("refresh", "idle") BY <1>1, <2>1 DEF RefreshOK
  <2>2. CASE Active("refresh") /\ wait >= Period - MaxLag /\ clerk["refresh"].age <= Period - wait
    <3>1. ~At("refresh", "idle") BY <2>2 DEF Active
    <3>2. clerk'["refresh"].age <= clerk["refresh"].age + 1 BY <1>1, <2>2, Ages DEF Older, Expired
    <3>3. clerk'["refresh"].age \in 0 .. Expired BY <1>1, <1>3, <2>2, Ages
    <3>4. Active("refresh")' BY <1>2, <2>2
    <3>5. wait' >= Period - MaxLag BY <1>5, <1>9, <3>1, Ages
    <3>6. clerk'["refresh"].age <= Period - wait' BY <1>5, <2>2, <3>2, <3>3, Ages
    <3> QED BY <3>4, <3>5, <3>6 DEF RefreshOK
  <2> QED BY <2>1, <2>2 DEF Verdicts, RefreshOK
<1>11. KeptOK'
  <2> SUFFICES ASSUME kept'
               PROVE  verdict'.age <= IF At("refresh", "idle")' THEN Period - wait' ELSE 2 * Period - wait'
    BY DEF KeptOK
  <2>1. verdict.age <= IF At("refresh", "idle") THEN Period - wait ELSE 2 * Period - wait
    BY <1>5 DEF Verdicts, KeptOK
  <2>2. verdict.age < MaxAge BY <1>9, <2>1, Ages
  <2>3. verdict'.age = verdict.age + 1 BY <1>4, <2>2
  <2>4. At("refresh", "idle")' <=> At("refresh", "idle") BY <1>1
  <2> QED BY <1>5, <2>1, <2>3, <2>4, Ages
<1> QED BY <1>6, <1>7, <1>8, <1>10, <1>11 DEF Verdicts

\* A verdict that only gets younger, while the refresh job does nothing.
LEMMA Younger ==
    ASSUME Types, Verdicts, Types', UNCHANGED <<wait, kept>>, clerk'["refresh"] = clerk["refresh"],
           verdict'.age <= verdict.age
    PROVE  RefreshOK' /\ KeptOK'
<1>1. At("refresh", "idle")' <=> At("refresh", "idle") OBVIOUS
<1>2. RefreshOK' BY <1>1 DEF Verdicts, RefreshOK, Active
<1>3. verdict'.age \in Int /\ verdict.age \in Int /\ wait \in Int BY Ages, Constants DEF Types, Expired
<1>4. KeptOK' BY <1>1, <1>3, Constants DEF Verdicts, KeptOK
<1> QED BY <1>2, <1>4

\* A step that moves a reconciliation on.
LEMMA SameAges ==
    ASSUME Verdicts, UNCHANGED <<wait, order, verdict, kept>>,
           \A d \in Clerk : /\ clerk'[d].age = clerk[d].age /\ clerk'[d].seen = clerk[d].seen
                            /\ Active(d)' <=> Active(d)
                            /\ At(d, "idle")' <=> At(d, "idle")
    PROVE  Verdicts'
<1>1. \A i \in DOMAIN order : order[i] \in Clerk BY InOrder DEF Verdicts
<1>2. OrderOK' BY <1>1 DEF Verdicts, OrderOK, IsInjective
<1>3. RefreshOK' /\ KeptOK' /\ SeenOK' BY DEF Verdicts, RefreshOK, KeptOK, SeenOK
<1>4. AgesOK' BY <1>1 DEF Verdicts, AgesOK, Out
<1> QED BY <1>2, <1>3, <1>4 DEF Verdicts

LEMMA RefreshBeginVerdicts == ASSUME Types, Verdicts, Types', RefreshBegin PROVE Verdicts'
<1>1. /\ At("refresh", "idle") /\ wait <= 0 /\ wait' = wait + Period /\ wait >= -MaxLag /\ wait \in Int
      /\ verdict' = verdict
  BY DEF RefreshBegin, Types
<1>2. CASE Armed
  <2>1. Begin("refresh") /\ ~Active("refresh") BY <1>1, <1>2 DEF RefreshBegin, Active
  <2>2. OrderOK' /\ SeenOK' /\ AgesOK' BY <1>1, <2>1, BeginAges
  <2>3. clerk'["refresh"].pc = "read" /\ clerk'["refresh"].age = 0 BY <2>1, GotoFacts DEF Begin, ClerkPCs
  <2>4. RefreshOK' BY <1>1, <2>3, Constants DEF RefreshOK, Active
  <2>5. kept' => kept BY DEF RefreshBegin
  <2>6. KeptOK' BY <1>1, <2>3, <2>5, Constants, Ages DEF Verdicts, KeptOK
  <2> QED BY <2>2, <2>4, <2>6 DEF Verdicts
<1>3. CASE ~Armed
  <2>1. UNCHANGED <<order, clerk, verdict>> /\ ~kept' BY <1>3 DEF RefreshBegin
  <2>2. OrderOK' BY <2>1 DEF Verdicts, OrderOK, IsInjective, Active
  <2>3. SeenOK' /\ RefreshOK' /\ KeptOK' BY <1>1, <2>1 DEF Verdicts, SeenOK, RefreshOK, KeptOK
  <2>4. AgesOK' BY <2>1 DEF Verdicts, AgesOK, Out, Active
  <2> QED BY <2>2, <2>3, <2>4 DEF Verdicts
<1> QED BY <1>2, <1>3

LEMMA StoreVerdicts == ASSUME Types, Verdicts, Types', NEW c \in Reconciler, Store(c) PROVE Verdicts'
<1>1. PICK pc \in {"begin", "idle"} : Goto(c, pc) /\ (c = "refresh" => pc = "idle") BY DEF Store
<1>2. /\ \/ Place(c) = 0 /\ UNCHANGED <<order, verdict>>
         \/ Place(c) # 0 /\ verdict' = Row(c) /\ order' = SubSeq(order, Place(c) + 1, Len(order))
      /\ Active(c) /\ wait' = wait /\ kept' = (kept \/ c = "refresh")
  BY DEF Store, Active
<1>3. pc \in ClerkPCs \ {"read", "store"} BY DEF ClerkPCs
<1>4. OrderOK' /\ SeenOK' /\ AgesOK' BY <1>1, <1>2, <1>3, EndAges
<1>5. \/ Place(c) = 0 /\ Out(c)
      \/ Place(c) \in DOMAIN order /\ order[Place(c)] = c
  BY PlaceType DEF Verdicts, OrderOK, Out
<1>6. CASE c = "refresh"
  <2>1. clerk'["refresh"].pc = "idle" BY <1>1, <1>3, <1>6, GotoFacts
  <2>2. RefreshOK' BY <2>1 DEF RefreshOK
  <2>3. clerk["refresh"].age <= Period - wait BY <1>2, <1>6 DEF Verdicts, RefreshOK, Active
  <2>4. verdict'.age <= clerk["refresh"].age
    <3>1. CASE Place(c) = 0
      <4>1. Out(c) BY <1>5, <3>1 DEF Verdicts, OrderOK
      <4> QED BY <1>2, <1>6, <3>1, <4>1 DEF Verdicts, AgesOK
    <3>2. CASE Place(c) # 0 BY <1>2, <1>6, <3>2, Ages DEF Row
    <3> QED BY <3>1, <3>2
  <2>5. verdict'.age \in Int /\ clerk["refresh"].age \in Int /\ wait \in Int BY Ages, Constants DEF Types, Expired
  <2>6. KeptOK' BY <1>2, <2>1, <2>3, <2>4, <2>5, Constants DEF KeptOK
  <2> QED BY <1>4, <2>2, <2>6 DEF Verdicts
<1>7. CASE c # "refresh"
  <2>1. clerk'["refresh"] = clerk["refresh"] BY <1>1, <1>3, <1>7, GotoFacts
  <2>2. verdict'.age <= verdict.age
    <3>1. CASE Place(c) = 0 BY <1>2, <3>1, Ages
    <3>2. CASE Place(c) # 0
      <4>1. verdict'.age = clerk[c].age /\ Place(c) \in DOMAIN order /\ order[Place(c)] = c
        BY <1>2, <1>5, <3>2 DEF Row
      <4> QED BY <4>1 DEF Verdicts, AgesOK
    <3> QED BY <3>1, <3>2
  <2>3. kept' = kept BY <1>2, <1>7 DEF Types
  <2>4. RefreshOK' /\ KeptOK' BY <1>2, <2>1, <2>2, <2>3, Younger
  <2> QED BY <1>4, <2>4 DEF Verdicts
<1> QED BY <1>6, <1>7

LEMMA FailVerdicts == ASSUME Types, Verdicts, Types', NEW c \in Clerk, Fail(c) PROVE Verdicts'
<1>1. /\ Goto(c, "idle") /\ verdict' = verdict /\ wait' = wait /\ kept' = (kept /\ c # "refresh")
      /\ order' = IF Place(c) # 0 THEN RemoveAt(order, Place(c)) ELSE order
  BY DEF Fail, GiveUp
<1>2. "idle" \in ClerkPCs \ {"read", "store"} BY DEF ClerkPCs
<1>3. OrderOK' /\ SeenOK' /\ AgesOK' BY <1>1, <1>2, EndAges
<1>4. CASE c = "refresh"
  <2>1. clerk'["refresh"].pc = "idle" BY <1>1, <1>2, <1>4, GotoFacts
  <2>2. RefreshOK' /\ KeptOK' BY <1>1, <1>4, <2>1 DEF RefreshOK, KeptOK
  <2> QED BY <1>3, <2>2 DEF Verdicts
<1>5. CASE c # "refresh"
  <2>1. clerk'["refresh"] = clerk["refresh"] BY <1>1, <1>2, <1>5, GotoFacts
  <2>2. kept' = kept BY <1>1, <1>5 DEF Types
  <2>3. verdict'.age <= verdict.age BY <1>1, Ages
  <2>4. RefreshOK' /\ KeptOK' BY <1>1, <2>1, <2>2, <2>3, Younger
  <2> QED BY <1>3, <2>4 DEF Verdicts
<1> QED BY <1>4, <1>5

LEMMA BeginVerdicts ==
    ASSUME Types, Verdicts, Types', NEW c \in Reconciler \ {"refresh"}, ~Active(c), Begin(c),
           UNCHANGED <<wait, verdict, kept>>
    PROVE  Verdicts'
<1>1. OrderOK' /\ SeenOK' /\ AgesOK' BY BeginAges
<1>2. clerk'["refresh"] = clerk["refresh"] BY GotoFacts DEF Begin, ClerkPCs
<1>3. RefreshOK' /\ KeptOK' BY <1>2, Ages, Younger
<1> QED BY <1>1, <1>3 DEF Verdicts

LEMMA VerdictsStep == IInv /\ [Next]_vars => Verdicts'
<1> SUFFICES ASSUME IInv, [Next]_vars PROVE Verdicts' OBVIOUS
<1>0. Types /\ Verdicts BY DEF IInv, Verdicts
<1>t. Types' BY TypesStep
<1>p. {"idle", "begin", "inspect", "arm", "look", "start"} \subseteq ClerkPCs \ {"read", "store"} BY DEF ClerkPCs
<1> USE DEF books, switches, history
<1>1. CASE OpenBegin
  <2>1. At("open", "due") /\ ~Active("open") /\ UNCHANGED <<wait, verdict, kept>> BY <1>1 DEF OpenBegin, Active
  <2>2. CASE Armed
    <3>1. Goto("open", "idle") /\ order' = order BY <1>1, <2>2 DEF OpenBegin, GiveUp
    <3> QED BY <1>0, <1>p, <2>1, <3>1, Elsewhere
  <2>3. CASE ~Armed
    <3>1. Begin("open") BY <1>1, <2>3 DEF OpenBegin
    <3> QED BY <1>0, <1>t, <2>1, <3>1, BeginVerdicts
  <2> QED BY <2>2, <2>3
<1>2. CASE RefreshBegin BY <1>0, <1>t, <1>2, RefreshBeginVerdicts
<1>3. CASE ReconcileBegin
  <2>1. ~Active("reconcile") /\ Begin("reconcile") /\ UNCHANGED <<wait, verdict, kept>>
    BY <1>3 DEF ReconcileBegin, Active
  <2> QED BY <1>0, <1>t, <2>1, BeginVerdicts
<1>4. ASSUME NEW c \in Reconciler, Read(c) PROVE Verdicts'
  <2>1. PICK safe \in BOOLEAN : clerk' = [clerk EXCEPT ![c].pc = "store", ![c].safe = safe] BY <1>4 DEF Read
  <2>2. At(c, "read") /\ UNCHANGED <<wait, order, verdict, kept>> BY <1>4 DEF Read
  <2>3. ASSUME NEW d \in Clerk
        PROVE  /\ clerk'[d].age = clerk[d].age /\ clerk'[d].seen = clerk[d].seen
               /\ Active(d)' <=> Active(d)
               /\ At(d, "idle")' <=> At(d, "idle")
    <3>1. clerk[d] \in ClerkType BY <1>0 DEF Types
    <3>2. CASE d = c BY <1>0, <2>1, <2>2, <3>1, <3>2 DEF Types, Active, ClerkType
    <3>3. CASE d # c BY <1>0, <2>1, <3>3 DEF Types, Active
    <3> QED BY <3>2, <3>3
  <2> QED BY <1>0, <2>2, <2>3, SameAges
<1>5. ASSUME NEW c \in Reconciler, Store(c) PROVE Verdicts' BY <1>0, <1>t, <1>5, StoreVerdicts
<1>6. ASSUME NEW c \in Armer, ArmBegin(c) \/ Inspect(c) \/ Arm(c) PROVE Verdicts'
  <2>1. c # "refresh" /\ ~Active(c) /\ UNCHANGED <<wait, order, verdict, kept>>
    BY <1>6 DEF ArmBegin, Inspect, Arm, Active
  <2>2. PICK pc \in {"idle", "inspect", "arm", "look"} : Goto(c, pc) BY <1>6 DEF ArmBegin, Inspect, Arm, GiveUp
  <2> QED BY <1>0, <1>p, <2>1, <2>2, Elsewhere
<1>7. ASSUME NEW c \in Starter, StartLook(c) \/ Start(c) PROVE Verdicts'
  <2>1. c # "refresh" /\ ~Active(c) /\ UNCHANGED <<wait, order, verdict, kept>>
    BY <1>7 DEF StartLook, Start, Active
  <2>2. PICK pc \in {"idle", "start"} : Goto(c, pc) BY <1>7 DEF StartLook, Start, GiveUp
  <2> QED BY <1>0, <1>p, <2>1, <2>2, Elsewhere
<1>8. CASE DisarmLook \/ Disarm \/ StopScanner \/ EmergencyStop \/ ClearStop
  <2>1. UNCHANGED <<wait, clerk, order, verdict, kept>>
    BY <1>8 DEF DisarmLook, Disarm, StopScanner, EmergencyStop, ClearStop
  <2> QED BY <1>0, <2>1, Nobody
<1>9. ASSUME NEW c \in Clerk, Fail(c) PROVE Verdicts' BY <1>0, <1>t, <1>9, FailVerdicts
<1>10. CASE Tick BY <1>0, <1>10, TickVerdicts
<1>11. CASE UNCHANGED vars
  <2>1. UNCHANGED <<wait, clerk, order, verdict, kept>> BY <1>11 DEF vars
  <2> QED BY <1>0, <2>1, Nobody
<1> QED BY <1>1, <1>2, <1>3, <1>4, <1>5, <1>6, <1>7, <1>8, <1>9, <1>10, <1>11 DEF Next

-----------------------------------------------------------------------------
(* The activations.                                                          *)

\* What a reconciliation does not touch.
LEMMA Reconciling ==
    ASSUME Types,
           \/ OpenBegin \/ RefreshBegin \/ ReconcileBegin
           \/ \E c \in Reconciler : Read(c) \/ Store(c)
    PROVE  /\ UNCHANGED <<arms, disarmer, disarmed, halted, control>>
           /\ \A d \in Clerk : (Arming(d)' <=> Arming(d)) /\ (At(d, "start")' <=> At(d, "start"))
<1> USE DEF books, switches, history
<1>p. {"idle", "read", "begin"} \subseteq ClerkPCs BY DEF ClerkPCs
<1>1. ASSUME NEW c \in Clerk, clerk[c].pc \in {"due", "idle", "read", "store"},
             NEW pc \in {"idle", "read", "begin"}, Goto(c, pc)
      PROVE  \A d \in Clerk : (Arming(d)' <=> Arming(d)) /\ (At(d, "start")' <=> At(d, "start"))
  <2>1. clerk'[c].pc = pc /\ \A d \in Clerk : d # c => clerk'[d] = clerk[d] BY <1>p, <1>1, GotoFacts
  <2> QED BY <1>1, <2>1 DEF Arming
<1>2. CASE OpenBegin
  <2>1. At("open", "due") /\ (Goto("open", "idle") \/ Goto("open", "read")) BY <1>2 DEF OpenBegin, GiveUp, Begin
  <2> QED BY <1>1, <1>2, <2>1 DEF OpenBegin
<1>3. CASE RefreshBegin
  <2>1. At("refresh", "idle") /\ (Goto("refresh", "read") \/ clerk' = clerk) BY <1>3 DEF RefreshBegin, Begin
  <2> QED BY <1>1, <1>3, <2>1 DEF RefreshBegin, Arming
<1>4. CASE ReconcileBegin
  <2>1. At("reconcile", "idle") /\ Goto("reconcile", "read") BY <1>4 DEF ReconcileBegin, Begin
  <2> QED BY <1>1, <1>4, <2>1 DEF ReconcileBegin
<1>5. ASSUME NEW c \in Reconciler, Read(c)
      PROVE  /\ UNCHANGED <<arms, disarmer, disarmed, halted, control>>
             /\ \A d \in Clerk : (Arming(d)' <=> Arming(d)) /\ (At(d, "start")' <=> At(d, "start"))
  <2>1. PICK safe \in BOOLEAN : clerk' = [clerk EXCEPT ![c].pc = "store", ![c].safe = safe] BY <1>5 DEF Read
  <2>2. At(c, "read") BY <1>5 DEF Read
  <2>3. ASSUME NEW d \in Clerk PROVE (Arming(d)' <=> Arming(d)) /\ (At(d, "start")' <=> At(d, "start"))
    <3>1. clerk[d] \in ClerkType BY DEF Types
    <3>2. CASE d = c BY <2>1, <2>2, <3>1, <3>2 DEF Types, Arming, ClerkType
    <3>3. CASE d # c BY <2>1, <3>3 DEF Types, Arming
    <3> QED BY <3>2, <3>3
  <2> QED BY <1>5, <2>3 DEF Read
<1>6. ASSUME NEW c \in Reconciler, Store(c)
      PROVE  /\ UNCHANGED <<arms, disarmer, disarmed, halted, control>>
             /\ \A d \in Clerk : (Arming(d)' <=> Arming(d)) /\ (At(d, "start")' <=> At(d, "start"))
  <2>1. At(c, "store") /\ (Goto(c, "begin") \/ Goto(c, "idle")) BY <1>6 DEF Store
  <2> QED BY <1>1, <1>6, <2>1 DEF Store
<1> QED BY <1>2, <1>3, <1>4, <1>5, <1>6

LEMMA RowType ==
    ASSUME ArmsOK, NEW i \in DOMAIN arms PROVE arms[i] \in ArmType /\ arms[i].by \in Armer /\ arms[i].by \in Clerk
<1>1. arms[i] \in ArmType BY DEF ArmsOK
<1> QED BY <1>1 DEF ArmType

\* The rows as they were, and nobody who was arming has stopped.
LEMMA ArmsAlone ==
    ASSUME ArmsOK, arms' = arms, \A d \in Armer : Arming(d) => Arming(d)',
           disarmer' \in [pc : {"idle", "revoke", "raced"}, row : 0 .. Len(arms)]
    PROVE  ArmsOK'
<1>1. \A i \in DOMAIN arms : arms[i].by \in Armer BY RowType
<1> HIDE DEF Clerk, Reconciler, Armer, Starter
<1> QED BY <1>1 DEF ArmsOK

\* A row is written by c, who is not arming any more.
LEMMA ArmsNow ==
    ASSUME ArmsOK, NEW c \in Clerk, NEW state \in {"undone", "armed"}, Now(c, state),
           \A d \in Clerk : d # c => clerk'[d] = clerk[d], disarmer' = disarmer
    PROVE  ArmsOK'
<1>1. /\ arms' \in Seq(ArmType) /\ Len(arms') = Len(arms)
      /\ \A i \in 1 .. Len(arms) :
            /\ arms'[i].by = arms[i].by
            /\ arms'[i].state = IF arms[i].by = c /\ arms[i].state = "pending" THEN state ELSE arms[i].state
  BY NowFacts DEF States
<1>2. DOMAIN arms = 1 .. Len(arms) /\ DOMAIN arms' = 1 .. Len(arms) BY <1>1 DEF ArmsOK
<1>3. ASSUME NEW i \in DOMAIN arms', arms'[i].state = "pending" PROVE Arming(arms[i].by)'
  <2>1. arms[i].state = "pending" /\ arms[i].by # c /\ arms'[i].by = arms[i].by BY <1>1, <1>2, <1>3
  <2>2. arms[i].by \in Clerk /\ Arming(arms[i].by) BY <1>2, <2>1, RowType DEF ArmsOK
  <2>3. clerk'[arms[i].by] = clerk[arms[i].by] BY <2>1, <2>2
  <2> HIDE DEF Clerk, Reconciler, Armer, Starter
  <2> QED BY <2>1, <2>2, <2>3 DEF Arming
<1>4. disarmer' \in [pc : {"idle", "revoke", "raced"}, row : 0 .. Len(arms')] BY <1>1 DEF ArmsOK
<1> HIDE DEF Clerk, Reconciler, Armer, Starter
<1> QED BY <1>1, <1>3, <1>4 DEF ArmsOK

\* What a tick leaves alone.
LEMMA TickPCs == ASSUME Types, Tick PROVE \A c \in Clerk : clerk'[c].pc = clerk[c].pc
<1> SUFFICES ASSUME NEW c \in Clerk PROVE clerk'[c].pc = clerk[c].pc OBVIOUS
<1>1. clerk[c] \in ClerkType BY DEF Types
<1>2. clerk'[c] = [clerk[c] EXCEPT !.age = IF At(c, "read") \/ At(c, "store") THEN Older(@) ELSE @,
                                   !.seen = IF At(c, "store") THEN Older(@) ELSE @]
  BY DEF Tick
<1> QED BY <1>1, <1>2 DEF ClerkType

LEMMA TickArms ==
    ASSUME ArmsOK, Tick
    PROVE  /\ arms' \in Seq(ArmType) /\ Len(arms') = Len(arms) /\ DOMAIN arms' = DOMAIN arms
           /\ \A i \in DOMAIN arms : arms'[i].by = arms[i].by /\ arms'[i].state = arms[i].state
<1>1. arms \in Seq(ArmType) /\ Len(arms) \in Nat /\ DOMAIN arms = 1 .. Len(arms) BY DEF ArmsOK
<1> DEFINE f(i) == [arms[i] EXCEPT !.left = IF @ > 0 /\ (arms[i].state = "armed" \/ (arms[i].state = "pending" /\ At(arms[i].by, "arm"))) THEN @ - 1 ELSE @]
<1>2. arms' = [i \in 1 .. Len(arms) |-> f(i)] BY <1>1 DEF Tick
<1>3. ASSUME NEW i \in 1 .. Len(arms)
      PROVE  f(i) \in ArmType /\ f(i).by = arms[i].by /\ f(i).state = arms[i].state
  <2>1. arms[i] \in ArmType BY <1>1
  <2> QED BY <2>1, Constants DEF ArmType, States
<1> HIDE DEF f
<1> QED BY <1>1, <1>2, <1>3

LEMMA ArmsStep == IInv /\ [Next]_vars => ArmsOK'
<1> SUFFICES ASSUME IInv, [Next]_vars PROVE ArmsOK' OBVIOUS
<1>0. Types /\ ArmsOK BY DEF IInv
<1>p. {"idle", "inspect", "arm", "look", "start"} \subseteq ClerkPCs BY DEF ClerkPCs
<1>s. disarmer \in [pc : {"idle", "revoke", "raced"}, row : 0 .. Len(arms)] BY <1>0 DEF ArmsOK
<1> USE DEF books, switches, history
<1>1. CASE \/ OpenBegin \/ RefreshBegin \/ ReconcileBegin
           \/ \E c \in Reconciler : Read(c) \/ Store(c)
  <2>1. UNCHANGED <<arms, disarmer>> /\ \A d \in Clerk : Arming(d)' <=> Arming(d) BY <1>0, <1>1, Reconciling
  <2> QED BY <1>0, <1>s, <2>1, ArmsAlone
<1>2. ASSUME NEW c \in Armer, ArmBegin(c) PROVE ArmsOK'
  <2> DEFINE new == [by |-> c, state |-> "pending", left |-> Ttl]
  <2>1. arms' = Append(arms, new) /\ Goto(c, "inspect") /\ ~Arming(c) BY <1>2 DEF ArmBegin, Arming
  <2>2. new \in ArmType BY Constants DEF ArmType, States
  <2>3. arms \in Seq(ArmType) BY <1>0 DEF ArmsOK
  <2>4. new.by = c OBVIOUS
  <2> HIDE DEF new
  <2>5. /\ arms' \in Seq(ArmType) /\ Len(arms') = Len(arms) + 1 /\ Len(arms) \in Nat
        /\ DOMAIN arms = 1 .. Len(arms) /\ DOMAIN arms' = 1 .. Len(arms) + 1
        /\ arms'[Len(arms) + 1] = new /\ \A i \in 1 .. Len(arms) : arms'[i] = arms[i]
    BY <2>1, <2>2, <2>3
  <2>6. clerk'[c].pc = "inspect" /\ \A d \in Clerk : d # c => clerk'[d] = clerk[d] BY <1>0, <1>p, <2>1, GotoFacts
  <2>7. ASSUME NEW i \in DOMAIN arms', arms'[i].state = "pending" PROVE Arming(arms[i].by)'
    <3>1. CASE i = Len(arms) + 1 BY <2>4, <2>5, <2>6, <3>1 DEF Arming
    <3>2. CASE i \in 1 .. Len(arms)
      <4>1. arms[i].by \in Clerk /\ Arming(arms[i].by) /\ arms'[i] = arms[i]
        BY <1>0, <2>5, <2>7, <3>2, RowType DEF ArmsOK
      <4>2. arms[i].by # c BY <2>1, <4>1
      <4>3. clerk'[arms[i].by] = clerk[arms[i].by] BY <2>6, <4>1, <4>2
      <4> QED BY <4>1, <4>3 DEF Arming
    <3> QED BY <2>5, <3>1, <3>2
  <2>8. disarmer' \in [pc : {"idle", "revoke", "raced"}, row : 0 .. Len(arms')]
    BY <1>2, <1>s, <2>5 DEF ArmBegin
  <2> QED BY <2>5, <2>7, <2>8 DEF ArmsOK
<1>3. ASSUME NEW c \in Armer, Inspect(c) PROVE ArmsOK'
  <2>1. disarmer' = disarmer BY <1>3 DEF Inspect
  <2>2. CASE Reconciled
    <3>1. Goto(c, "arm") /\ arms' = arms BY <1>3, <2>2 DEF Inspect
    <3>2. clerk'[c].pc = "arm" /\ \A d \in Clerk : d # c => clerk'[d] = clerk[d] BY <1>0, <1>p, <3>1, GotoFacts
    <3>3. \A d \in Armer : Arming(d) => Arming(d)' BY <3>2 DEF Arming
    <3> QED BY <1>0, <1>s, <2>1, <3>1, <3>3, ArmsAlone
  <2>3. CASE ~Reconciled
    <3>1. Goto(c, "idle") /\ Now(c, "undone") BY <1>3, <2>3 DEF Inspect, GiveUp
    <3>2. \A d \in Clerk : d # c => clerk'[d] = clerk[d] BY <1>0, <1>p, <3>1, GotoFacts
    <3> QED BY <1>0, <2>1, <3>1, <3>2, ArmsNow
  <2> QED BY <2>2, <2>3
<1>4. ASSUME NEW c \in Armer, Arm(c) PROVE ArmsOK'
  <2>1. PICK pc \in {"look", "idle"} : Goto(c, pc) /\ Now(c, "armed") /\ disarmer' = disarmer BY <1>4 DEF Arm
  <2>2. \A d \in Clerk : d # c => clerk'[d] = clerk[d] BY <1>0, <1>p, <2>1, GotoFacts
  <2> QED BY <1>0, <2>1, <2>2, ArmsNow
<1>5. CASE DisarmLook
  <2>1. Latest \in 0 .. Len(arms) /\ Len(arms) \in Nat
    <3>1. Committed \subseteq 1 .. Len(arms) /\ Len(arms) \in Nat BY <1>0 DEF Committed, ArmsOK
    <3>2. Latest = 0 \/ Latest \in Committed BY <1>0, LatestFacts
    <3>3. CASE Latest = 0 BY <3>1, <3>3
    <3>4. CASE Latest \in Committed
      <4>1. Latest \in 1 .. Len(arms) BY <3>1, <3>4
      <4> HIDE DEF Committed
      <4> QED BY <3>1, <4>1
    <3> QED BY <3>2, <3>3, <3>4
  <2>2. arms' = arms /\ clerk' = clerk /\ disarmer' \in [pc : {"idle", "revoke", "raced"}, row : 0 .. Len(arms)]
    BY <1>5, <2>1 DEF DisarmLook
  <2> QED BY <1>0, <2>2, ArmsAlone DEF Arming
<1>6. CASE Disarm
  <2> DEFINE p == disarmer.row
  <2>1. clerk' = clerk /\ disarmer' = [pc |-> "idle", row |-> 0] BY <1>6 DEF Disarm
  <2>2. CASE p = 0
    <3>1. arms' = arms /\ disarmer' \in [pc : {"idle", "revoke", "raced"}, row : 0 .. Len(arms)]
      BY <1>0, <1>6, <2>1, <2>2 DEF Disarm, ArmsOK
    <3> QED BY <1>0, <2>1, <3>1, ArmsAlone DEF Arming
  <2>3. CASE p # 0
    <3>1. arms' = [arms EXCEPT ![p].state = "revoked"] BY <1>6, <2>3 DEF Disarm
    <3>2. arms \in Seq(ArmType) /\ p \in 1 .. Len(arms) /\ Len(arms) \in Nat BY <1>0, <1>s, <2>3 DEF ArmsOK
    <3>3. arms[p] \in ArmType BY <3>2
    <3>4. [arms[p] EXCEPT !.state = "revoked"] \in ArmType BY <3>3 DEF ArmType, States
    <3>5. /\ arms' \in Seq(ArmType) /\ Len(arms') = Len(arms)
          /\ arms'[p].state = "revoked" /\ \A i \in 1 .. Len(arms) : i # p => arms'[i] = arms[i]
      BY <3>1, <3>2, <3>3, <3>4 DEF ArmType
    <3>6. DOMAIN arms = 1 .. Len(arms) /\ DOMAIN arms' = 1 .. Len(arms) BY <3>2, <3>5
    <3>7. ASSUME NEW i \in DOMAIN arms', arms'[i].state = "pending" PROVE Arming(arms[i].by)'
      <4>1. i # p /\ arms'[i] = arms[i] BY <3>5, <3>6, <3>7
      <4> QED BY <1>0, <2>1, <3>6, <3>7, <4>1 DEF ArmsOK, Arming
    <3>8. disarmer' \in [pc : {"idle", "revoke", "raced"}, row : 0 .. Len(arms')] BY <2>1, <3>2, <3>5
    <3> QED BY <3>5, <3>7, <3>8 DEF ArmsOK
  <2> QED BY <2>2, <2>3
<1>7. ASSUME NEW c \in Starter, StartLook(c) \/ Start(c) PROVE ArmsOK'
  <2>1. UNCHANGED <<arms, disarmer>> /\ ~Arming(c) BY <1>7 DEF StartLook, Start, Arming
  <2>2. PICK pc \in {"idle", "start"} : Goto(c, pc) BY <1>7 DEF StartLook, Start, GiveUp
  <2>3. \A d \in Clerk : d # c => clerk'[d] = clerk[d] BY <1>0, <1>p, <2>2, GotoFacts
  <2>4. \A d \in Armer : Arming(d) => Arming(d)' BY <2>1, <2>3 DEF Arming
  <2> QED BY <1>0, <1>s, <2>1, <2>4, ArmsAlone
<1>8. CASE StopScanner \/ EmergencyStop \/ ClearStop
  <2>1. UNCHANGED <<arms, clerk, disarmer>> BY <1>8 DEF StopScanner, EmergencyStop, ClearStop
  <2> QED BY <1>0, <1>s, <2>1, ArmsAlone DEF Arming
<1>9. ASSUME NEW c \in Clerk, Fail(c) PROVE ArmsOK'
  <2>1. Goto(c, "idle") /\ Now(c, "undone") /\ disarmer' = disarmer BY <1>9 DEF Fail, GiveUp
  <2>2. \A d \in Clerk : d # c => clerk'[d] = clerk[d] BY <1>0, <1>p, <2>1, GotoFacts
  <2> QED BY <1>0, <2>1, <2>2, ArmsNow
<1>10. CASE Tick
  <2>1. /\ arms' \in Seq(ArmType) /\ Len(arms') = Len(arms) /\ DOMAIN arms' = DOMAIN arms
        /\ \A i \in DOMAIN arms : arms'[i].by = arms[i].by /\ arms'[i].state = arms[i].state
    BY <1>0, <1>10, TickArms
  <2>2. \A d \in Clerk : clerk'[d].pc = clerk[d].pc BY <1>0, <1>10, TickPCs
  <2>3. \A i \in DOMAIN arms : arms[i].by \in Clerk BY <1>0, RowType
  <2>4. disarmer' = disarmer BY <1>10 DEF Tick
  <2> QED BY <1>0, <2>1, <2>2, <2>3, <2>4 DEF ArmsOK, Arming
<1>11. CASE UNCHANGED vars
  <2>1. UNCHANGED <<arms, clerk, disarmer>> BY <1>11 DEF vars
  <2> QED BY <1>0, <1>s, <2>1, ArmsAlone DEF Arming
<1> QED BY <1>1, <1>2, <1>3, <1>4, <1>5, <1>6, <1>7, <1>8, <1>9, <1>10, <1>11 DEF Next

-----------------------------------------------------------------------------
(* Disarming and stopping.                                                   *)

\* The same rows are committed, and nobody has begun to arm.
LEMMA DisarmSame ==
    ASSUME ArmsOK, DisarmOK, UNCHANGED <<disarmed, disarmer>>, DOMAIN arms' = DOMAIN arms,
           \A i \in DOMAIN arms : IF arms[i].state \in {"armed", "revoked"}
                                  THEN arms'[i].state = arms[i].state
                                  ELSE arms'[i].state \notin {"armed", "revoked"},
           NobodyArms => NobodyArms'
    PROVE  DisarmOK'
<1>1. Committed' = Committed BY DEF Committed
<1>2. Latest' = Latest BY <1>1, LatestSame
<1>3. Latest # 0 => Latest \in DOMAIN arms /\ arms'[Latest].state = arms[Latest].state
  BY LatestFacts DEF Committed
<1> QED BY <1>2, <1>3 DEF DisarmOK

\* What was being written comes to nothing.
LEMMA DisarmUndone ==
    ASSUME ArmsOK, DisarmOK, NEW c \in Clerk, Now(c, "undone"), UNCHANGED <<disarmed, disarmer>>,
           NobodyArms => NobodyArms'
    PROVE  DisarmOK'
<1>1. /\ arms' \in Seq(ArmType) /\ Len(arms') = Len(arms)
      /\ \A i \in 1 .. Len(arms) :
            arms'[i].state = IF arms[i].by = c /\ arms[i].state = "pending" THEN "undone" ELSE arms[i].state
  BY NowFacts DEF States
<1>2. DOMAIN arms = 1 .. Len(arms) /\ DOMAIN arms' = 1 .. Len(arms) BY <1>1 DEF ArmsOK
<1>3. \A i \in DOMAIN arms : IF arms[i].state \in {"armed", "revoked"}
                             THEN arms'[i].state = arms[i].state
                             ELSE arms'[i].state \notin {"armed", "revoked"}
  BY <1>1, <1>2
<1> QED BY <1>2, <1>3, DisarmSame

LEMMA DisarmStep == IInv /\ [Next]_vars => DisarmOK'
<1> SUFFICES ASSUME IInv, [Next]_vars PROVE DisarmOK' OBVIOUS
<1>0. Types /\ ArmsOK /\ DisarmOK BY DEF IInv
<1>p. {"idle", "inspect", "arm", "look", "start"} \subseteq ClerkPCs BY DEF ClerkPCs
<1> USE DEF books, switches, history
<1>a. ASSUME NEW c \in Clerk, NEW pc \in {"idle", "look", "start"}, Goto(c, pc) PROVE NobodyArms => NobodyArms'
  <2>1. clerk'[c].pc = pc /\ \A d \in Clerk : d # c => clerk'[d] = clerk[d] BY <1>0, <1>p, <1>a, GotoFacts
  <2> QED BY <2>1 DEF NobodyArms, Arming
<1>b. ASSUME UNCHANGED <<arms, disarmed, disarmer>>, NobodyArms => NobodyArms' PROVE DisarmOK'
  BY <1>0, <1>b, DisarmSame
<1>1. CASE \/ OpenBegin \/ RefreshBegin \/ ReconcileBegin
           \/ \E c \in Reconciler : Read(c) \/ Store(c)
  <2>1. UNCHANGED <<arms, disarmer, disarmed>> /\ \A d \in Clerk : Arming(d)' <=> Arming(d)
    BY <1>0, <1>1, Reconciling
  <2> QED BY <1>b, <2>1 DEF NobodyArms
<1>2. ASSUME NEW c \in Armer, ArmBegin(c) PROVE DisarmOK'
  <2>1. ~disarmed' /\ disarmer'.pc # "revoke" BY <1>0, <1>2 DEF ArmBegin, ArmsOK
  <2> QED BY <2>1 DEF DisarmOK
<1>3. ASSUME NEW c \in Armer, Inspect(c) PROVE DisarmOK'
  <2>1. ~NobodyArms /\ UNCHANGED <<disarmed, disarmer>> BY <1>3 DEF Inspect, NobodyArms, Arming
  <2>2. CASE arms' = arms BY <1>b, <2>1, <2>2
  <2>3. CASE Now(c, "undone") BY <1>0, <2>1, <2>3, DisarmUndone
  <2> QED BY <1>3, <2>2, <2>3 DEF Inspect
<1>4. ASSUME NEW c \in Armer, Arm(c) PROVE DisarmOK'
  <2>1. ~NobodyArms /\ UNCHANGED <<disarmed, disarmer>> BY <1>4 DEF Arm, NobodyArms, Arming
  <2> QED BY <1>0, <2>1 DEF DisarmOK
<1>5. CASE DisarmLook
  <2>1. UNCHANGED <<arms, clerk, disarmed>> BY <1>5 DEF DisarmLook
  <2>2. Latest' = Latest BY <2>1 DEF Latest
  <2>3. NobodyArms' <=> NobodyArms BY <2>1 DEF NobodyArms, Arming
  <2>4. disarmer' = [pc |-> IF NobodyArms THEN "revoke" ELSE "raced", row |-> Latest]
    BY <1>5 DEF DisarmLook, NobodyArms
  <2> QED BY <1>0, <2>1, <2>2, <2>3, <2>4 DEF DisarmOK
<1>6. CASE Disarm
  <2>1. /\ clerk' = clerk /\ disarmer'.pc = "idle" /\ disarmer.pc \in {"revoke", "raced"}
        /\ disarmed' = (disarmed \/ disarmer.pc = "revoke")
    BY <1>6 DEF Disarm
  <2>2. SUFFICES ASSUME disarmed' PROVE NobodyArms' /\ (Latest' # 0 => arms'[Latest'].state = "revoked")
    BY <2>1 DEF DisarmOK
  <2>3. disarmer.pc = "revoke" BY <1>0, <2>1, <2>2 DEF DisarmOK
  <2>4. NobodyArms /\ disarmer.row = Latest BY <1>0, <2>3 DEF DisarmOK
  <2>5. NobodyArms' BY <2>1, <2>4 DEF NobodyArms, Arming
  <2>6. CASE Latest = 0
    <3>1. arms' = arms BY <1>6, <2>4, <2>6 DEF Disarm
    <3>2. Latest' = Latest BY <3>1 DEF Latest
    <3> QED BY <2>5, <2>6, <3>2
  <2>7. CASE Latest # 0
    <3>1. arms' = [arms EXCEPT ![Latest].state = "revoked"] BY <1>6, <2>4, <2>7 DEF Disarm
    <3>2. Latest \in DOMAIN arms /\ arms[Latest].state \in {"armed", "revoked"} BY <1>0, <2>7, LatestFacts DEF Committed
    <3> DEFINE l == Latest
    <3> HIDE DEF l
    <3>3. arms[l] \in ArmType /\ l \in DOMAIN arms BY <1>0, <3>2 DEF ArmsOK, l
    <3>4. /\ DOMAIN arms' = DOMAIN arms /\ arms'[l].state = "revoked"
          /\ \A i \in DOMAIN arms : i # l => arms'[i] = arms[i]
      BY <3>1, <3>3 DEF ArmType, l
    <3>5. Committed' = Committed BY <3>2, <3>4 DEF Committed, l
    <3>6. Latest' = l BY <3>5, LatestSame DEF l
    <3> QED BY <2>5, <3>4, <3>6
  <2> QED BY <2>6, <2>7
<1>7. ASSUME NEW c \in Starter, StartLook(c) \/ Start(c) PROVE DisarmOK'
  <2>1. UNCHANGED <<arms, disarmed, disarmer>> BY <1>7 DEF StartLook, Start
  <2>2. PICK pc \in {"idle", "start"} : Goto(c, pc) BY <1>7 DEF StartLook, Start, GiveUp
  <2> QED BY <1>a, <1>b, <2>1, <2>2
<1>8. CASE StopScanner \/ EmergencyStop \/ ClearStop
  <2>1. UNCHANGED <<arms, clerk, disarmed, disarmer>> BY <1>8 DEF StopScanner, EmergencyStop, ClearStop
  <2> QED BY <1>b, <2>1 DEF NobodyArms, Arming
<1>9. ASSUME NEW c \in Clerk, Fail(c) PROVE DisarmOK'
  <2>1. Goto(c, "idle") /\ Now(c, "undone") /\ UNCHANGED <<disarmed, disarmer>> BY <1>9 DEF Fail, GiveUp
  <2> QED BY <1>0, <1>a, <2>1, DisarmUndone
<1>10. CASE Tick
  <2>1. DOMAIN arms' = DOMAIN arms /\ \A i \in DOMAIN arms : arms'[i].state = arms[i].state
    BY <1>0, <1>10, TickArms
  <2>2. \A d \in Clerk : clerk'[d].pc = clerk[d].pc BY <1>0, <1>10, TickPCs
  <2>3. NobodyArms => NobodyArms' BY <2>2 DEF NobodyArms, Arming
  <2>4. UNCHANGED <<disarmed, disarmer>> BY <1>10 DEF Tick
  <2> QED BY <1>0, <2>1, <2>3, <2>4, DisarmSame
<1>11. CASE UNCHANGED vars
  <2>1. UNCHANGED <<arms, clerk, disarmed, disarmer>> BY <1>11 DEF vars
  <2> QED BY <1>b, <2>1 DEF NobodyArms, Arming
<1> QED BY <1>1, <1>2, <1>3, <1>4, <1>5, <1>6, <1>7, <1>8, <1>9, <1>10, <1>11 DEF Next

LEMMA HaltStep == IInv /\ [Next]_vars => HaltOK'
<1> SUFFICES ASSUME IInv, [Next]_vars PROVE HaltOK' OBVIOUS
<1>0. Types /\ HaltOK BY DEF IInv
<1>p. {"idle", "inspect", "arm", "look", "start"} \subseteq ClerkPCs BY DEF ClerkPCs
<1> USE DEF books, switches, history
<1>a. ASSUME UNCHANGED <<control, halted>>, \A d \in Starter : At(d, "start")' => At(d, "start") PROVE HaltOK'
  BY <1>0, <1>a DEF HaltOK
<1>b. ASSUME NEW c \in Clerk, NEW pc \in {"idle", "inspect", "arm", "look"}, Goto(c, pc)
      PROVE  \A d \in Starter : At(d, "start")' => At(d, "start")
  <2>1. clerk'[c].pc = pc /\ \A d \in Clerk : d # c => clerk'[d] = clerk[d] BY <1>0, <1>p, <1>b, GotoFacts
  <2> QED BY <2>1
<1>1. CASE \/ OpenBegin \/ RefreshBegin \/ ReconcileBegin
           \/ \E c \in Reconciler : Read(c) \/ Store(c)
  <2>1. UNCHANGED <<halted, control>> /\ \A d \in Clerk : At(d, "start")' <=> At(d, "start")
    BY <1>0, <1>1, Reconciling
  <2> QED BY <1>a, <2>1
<1>2. ASSUME NEW c \in Armer, ArmBegin(c) \/ Inspect(c) \/ Arm(c) PROVE HaltOK'
  <2>1. UNCHANGED <<control, halted>> BY <1>2 DEF ArmBegin, Inspect, Arm
  <2>2. PICK pc \in {"idle", "inspect", "arm", "look"} : Goto(c, pc) BY <1>2 DEF ArmBegin, Inspect, Arm, GiveUp
  <2> QED BY <1>a, <1>b, <2>1, <2>2
<1>3. ASSUME NEW c \in Starter, StartLook(c) PROVE HaltOK'
  <2>1. CASE stop
    <3>1. UNCHANGED <<control, halted>> /\ Goto(c, "idle") BY <1>3, <2>1 DEF StartLook, GiveUp
    <3> QED BY <1>a, <1>b, <3>1
  <2>2. CASE ~stop
    <3>1. ~halted' BY <1>3, <2>2 DEF StartLook
    <3> QED BY <3>1 DEF HaltOK
  <2> QED BY <2>1, <2>2
<1>4. ASSUME NEW c \in Starter, Start(c) PROVE HaltOK'
  <2>1. ~halted' BY <1>0, <1>4 DEF Start, HaltOK
  <2> QED BY <2>1 DEF HaltOK
<1>5. CASE StopScanner
  <2>1. control' = "STOPPED" /\ UNCHANGED <<clerk, halted>> BY <1>5 DEF StopScanner
  <2> QED BY <1>0, <2>1 DEF HaltOK
<1>6. CASE EmergencyStop
  <2>1. clerk' = clerk BY <1>6 DEF EmergencyStop
  <2>2. CASE UNCHANGED <<control, halted>> BY <1>a, <2>1, <2>2
  <2>3. CASE control' = "STOPPED" /\ halted' = \A c \in Starter : ~At(c, "start")
    <3>1. halted' => \A c \in Starter : ~At(c, "start") BY <2>3, Zenon
    <3> QED BY <2>1, <2>3, <3>1 DEF HaltOK
  <2> QED BY <1>6, <2>2, <2>3 DEF EmergencyStop
<1>7. CASE DisarmLook \/ Disarm \/ ClearStop
  <2>1. UNCHANGED <<control, halted, clerk>> BY <1>7 DEF DisarmLook, Disarm, ClearStop
  <2> QED BY <1>a, <2>1
<1>8. ASSUME NEW c \in Clerk, Fail(c) PROVE HaltOK'
  <2>1. UNCHANGED <<control, halted>> /\ Goto(c, "idle") BY <1>8 DEF Fail, GiveUp
  <2> QED BY <1>a, <1>b, <2>1
<1>9. CASE Tick
  <2>1. UNCHANGED <<control, halted>> BY <1>9 DEF Tick
  <2>2. \A d \in Clerk : clerk'[d].pc = clerk[d].pc BY <1>0, <1>9, TickPCs
  <2> QED BY <1>a, <2>1, <2>2
<1>10. CASE UNCHANGED vars
  <2>1. UNCHANGED <<control, halted, clerk>> BY <1>10 DEF vars
  <2> QED BY <1>a, <2>1
<1> QED BY <1>1, <1>2, <1>3, <1>4, <1>5, <1>6, <1>7, <1>8, <1>9, <1>10 DEF Next

-----------------------------------------------------------------------------
(* The theorems.                                                             *)

THEOREM Invariant == Spec => []IInv
<1>1. IInv /\ [Next]_vars => IInv' BY TypesStep, VerdictsStep, ArmsStep, DisarmStep, HaltStep DEF IInv, Verdicts
<1> QED BY IInvInit, <1>1, PTL DEF Spec

\* Every variable keeps its type, a reconciler in order is at work and stands there
\* once, and an activation that is not committed has somebody at it
\* (live_activation.py, execution_reconciliations, live_activations).
THEOREM TypeCorrect == Spec => []TypeOK
<1>1. IInv => TypeOK
  <2> SUFFICES ASSUME IInv PROVE TypeOK OBVIOUS
  <2> DEFINE S == {c \in Reconciler : At(c, "read") \/ At(c, "store")}
  <2>1. order \in Seq(S)
    <3>1. order \in Seq(Reconciler) /\ \A i \in 1 .. Len(order) : order[i] \in S BY DEF IInv, OrderOK, Active
    <3> HIDE DEF S
    <3> QED BY <3>1
  <2>2. IsInjective(order) BY DEF IInv, OrderOK
  <2> HIDE DEF S
  <2>3. /\ wait \in -MaxLag .. Period /\ requests \in 0 .. MaxRequests
        /\ clerk \in [Clerk -> [pc : ClerkPCs, age : 0 .. Expired, seen : 0 .. Expired, safe : BOOLEAN]]
        /\ verdict \in [age : 0 .. Expired, seen : 0 .. Expired, safe : BOOLEAN]
        /\ stop \in BOOLEAN /\ stopper \in {"idle", "halting"} /\ control \in {"STOPPED", "RUNNING"}
        /\ disarmed \in BOOLEAN /\ halted \in BOOLEAN /\ kept \in BOOLEAN
    BY DEF IInv, Types, ClerkType
  <2>4. /\ arms \in Seq([by : Armer, state : {"pending", "undone", "armed", "revoked"}, left : 0 .. Ttl])
        /\ \A i \in DOMAIN arms : arms[i].state = "pending" => Arming(arms[i].by)
        /\ disarmer \in [pc : {"idle", "revoke", "raced"}, row : 0 .. Len(arms)]
    BY DEF IInv, ArmsOK, ArmType, States
  <2> QED BY <2>1, <2>2, <2>3, <2>4 DEF TypeOK, S
<1> QED BY Invariant, <1>1, PTL

\* Whatever jobs, requests and failures come between, a disarm holds until somebody
\* begins to arm again: the row that counts is a revoked one (live_activation.py:61).
THEOREM DisarmHolds_Holds == Spec => []DisarmHolds
<1>1. IInv => DisarmHolds BY DEF IInv, DisarmOK, DisarmHolds, Armed
<1> QED BY Invariant, <1>1, PTL

\* The scanner an emergency stop halted stays halted until somebody begins to start
\* it, for only a start that had read the stop before could undo it (safety.py:11).
THEOREM StopHolds_Holds == Spec => []StopHolds
<1>1. IInv => StopHolds BY DEF IInv, HaltOK, StopHolds
<1> QED BY Invariant, <1>1, PTL

\* A verdict that lets an entry through rests on a reading no older than the window,
\* for the row carries the time its transaction started (live_risk.py:111).
THEOREM ReadingIsFresh_Holds == Spec => []ReadingIsFresh
<1>1. IInv => ReadingIsFresh
  <2> SUFFICES ASSUME IInv, Reconciled PROVE verdict.seen <= MaxAge BY DEF ReadingIsFresh
  <2>1. verdict.seen \in Int /\ verdict.age \in Int /\ MaxAge \in Int BY Constants DEF IInv, Types, Expired
  <2> QED BY <2>1 DEF IInv, SeenOK, Reconciled
<1> QED BY Invariant, <1>1, PTL

\* While the refresh job succeeds the latest verdict has never expired: the period
\* and the lag fit in the window, in whatever order others store theirs
\* (scheduler.py:545).
THEOREM KeptFresh_Holds == Spec => []KeptFresh
<1>1. IInv => KeptFresh
  <2> SUFFICES ASSUME IInv, kept PROVE verdict.age <= MaxAge BY DEF KeptFresh
  <2>1. verdict.age \in Int /\ wait \in Int /\ wait >= -MaxLag BY Constants DEF IInv, Types, Expired
  <2>2. verdict.age <= IF At("refresh", "idle") THEN Period - wait ELSE 2 * Period - wait BY DEF IInv, KeptOK
  <2>3. CASE At("refresh", "idle") BY <2>1, <2>2, <2>3, Constants
  <2>4. CASE ~At("refresh", "idle")
    <3>1. wait >= Period - MaxLag BY <2>4 DEF IInv, RefreshOK
    <3> QED BY <2>1, <2>2, <2>4, <3>1, Constants
  <2> QED BY <2>3, <2>4
<1> QED BY Invariant, <1>1, PTL

=============================================================================
