-------------------------- MODULE LiveLimitsProofs --------------------------
(***************************************************************************)
(* By how much the limits of a live entry are overrun, for any entries and   *)
(* any coroutines that send them.                                            *)
(*                                                                          *)
(* A limit is read when only what is settled is in it.  What it lets through  *)
(* beside that is on its way in another coroutine, or was left by a lost      *)
(* answer or a crash: the inductive invariant counts the trades of each kind, *)
(* and a coroutine has one trade at a time.                                   *)
(***************************************************************************)
EXTENDS LiveLimits, FiniteSetTheorems, TLAPS

RowStatus  == {"none", "PREPARED", "ACCEPTED", "REJECTED", "UNKNOWN", "NEEDS_REVIEW", "RESOLVED_PLACED",
               "RESOLVED_ABSENT"}
BookState  == {"none", "resting", "refused", "open", "closed", "withdrawn"}
SenderType == [pc : PCs, trade : Trade \cup {NoTrade}, ok : BOOLEAN]

-----------------------------------------------------------------------------
(* The inductive invariant.                                                  *)

\* A trade is sent by one coroutine.
Alone == \A s, r \in Sender : sender[s].trade = sender[r].trade => s = r \/ sender[s].trade = NoTrade

\* Where a coroutine is tells what is on record of its trade, and at the broker.
Stage(s) == LET t == sender[s].trade IN
    /\ sender[s].pc \in {"unresolved", "halt", "pnl", "allocation", "positions", "decide"} => row[t] = "none"
    /\ sender[s].pc = "send" => row[t] = "PREPARED" /\ book[t] = "none"
    /\ sender[s].pc = "hear" => row[t] = "PREPARED" /\ book[t] \in {"resting", "refused", "open", "closed"}
    /\ sender[s].pc = "protect" => row[t] = "ACCEPTED"
    /\ sender[s].pc = "watch" => row[t] = "UNKNOWN"
    /\ sender[s].pc \in {"send", "hear", "protect", "watch"} => sender[s].ok

Stages == \A s \in Sender : Stage(s)

AgedAlone == \A t \in aged : ~Held(t)

OnRecord == {t \in Trade : row[t] # "none"}

\* The coroutines past the gate that have failed no check, until they are answered.
Slots == {s \in Sender : sender[s].ok /\ sender[s].pc \in {"halt", "pnl", "allocation", "positions", "decide",
                                                           "send", "hear"}}
\* The open rows none of them has.
Strays == {t \in Trade : row[t] \in OPEN_STATES /\ \A s \in Slots : sender[s].trade # t}

\* The rows a crash left.
Orphans == {t \in Trade : row[t] = "PREPARED" /\ ~Held(t)}

FewStrays  == Cardinality(Slots) + Cardinality(Strays) <= Cardinality(Sender) + crashes
FewOrphans == Cardinality(Orphans) <= crashes
RiskOK     == Planned(Placed \cup Coming) <= Budget + (Cardinality(Sender) - 1 + crashes) * MaxRisk

\* The orders that rest at the broker with nobody to withdraw them.
Adrift == {t \in Trade : book[t] = "resting" /\ \A s \in Sender : sender[s].trade = t => sender[s].pc = "watch"}

FewAdrift == Cardinality(Adrift) <= faults + crashes
SlotsOK   == Cardinality(Open \cup Arriving) <= MaxOpen + Cardinality(Sender) - 1 + faults + crashes

\* The coroutines past the day's limits that may still write a row.
Ahead == {s \in Sender : sender[s].ok /\ sender[s].pc \in {"allocation", "positions", "decide"}}

HaltOK == IF halt THEN late + Cardinality(Ahead) <= Cardinality(Sender) - 1 ELSE late = 0

IInv ==
    /\ TypeOK
    /\ Alone
    /\ Stages
    /\ AgedAlone
    /\ IsFiniteSet(OnRecord)
    /\ FewStrays /\ FewOrphans /\ RiskOK
    /\ FewAdrift /\ SlotsOK
    /\ HaltOK

-----------------------------------------------------------------------------
(* Counting.                                                                 *)

\* Of products of naturals.
LEMMA TimesNat == ASSUME NEW m \in Nat, NEW k \in Nat PROVE m * k \in Nat
    OBVIOUS

LEMMA LessTimes == ASSUME NEW m \in Nat, NEW n \in Nat, NEW k \in Nat, m <= n PROVE m * k <= n * k
<1>1. PICK d \in Nat : n = m + d
    <2>1. n - m \in Nat /\ n = m + (n - m)
        OBVIOUS
    <2> QED BY <2>1
<1>2. n * k = m * k + d * k
    BY <1>1
<1>3. d * k \in Nat /\ m * k \in Nat
    OBVIOUS
<1> QED
    BY <1>2, <1>3

\* What a sum of planned risk counts.
Units(trades) == {p \in trades \X (1 .. MaxRisk) : p[2] <= Risk[p[1]]}

\* A sum of planned risk is a number.
LEMMA PlannedType ==
    ASSUME NEW S, IsFiniteSet(S)
    PROVE  IsFiniteSet(Units(S)) /\ Planned(S) \in Nat /\ Planned(S) = Cardinality(Units(S))
<1>1. IsFiniteSet(1 .. MaxRisk)
    BY FS_Interval, LimitsAssumption
<1>2. IsFiniteSet(S \X (1 .. MaxRisk))
    BY <1>1, FS_Product
<1>3. Units(S) \in SUBSET (S \X (1 .. MaxRisk))
    BY DEF Units
<1>4. IsFiniteSet(Units(S))
    BY <1>2, <1>3, FS_Subset
<1> QED
    BY <1>4, FS_CardinalityType DEF Planned, Units

\* Fewer trades plan no more.
LEMMA PlannedLess ==
    ASSUME NEW S, IsFiniteSet(S), NEW T \in SUBSET S
    PROVE  IsFiniteSet(T) /\ Planned(T) <= Planned(S)
<1>1. IsFiniteSet(T) /\ IsFiniteSet(Units(S))
    BY FS_Subset, PlannedType
<1>2. Units(T) \in SUBSET Units(S)
    BY DEF Units
<1>3. Cardinality(Units(T)) <= Cardinality(Units(S))
    BY <1>1, <1>2, FS_Subset
<1> QED
    BY <1>1, <1>3, PlannedType

\* Two groups of trades plan no more together than each by itself.
LEMMA PlannedTogether ==
    ASSUME NEW S, IsFiniteSet(S), NEW T, IsFiniteSet(T)
    PROVE  Planned(S \cup T) <= Planned(S) + Planned(T)
<1>1. IsFiniteSet(S \cup T)
    BY FS_Union
<1>2. Units(S \cup T) = Units(S) \cup Units(T)
    BY DEF Units
<1>3. IsFiniteSet(Units(S)) /\ IsFiniteSet(Units(T)) /\ IsFiniteSet(Units(S) \cap Units(T))
    BY PlannedType, FS_Intersection
<1>4. Cardinality(Units(S) \cap Units(T)) \in Nat
    BY <1>3, FS_CardinalityType
<1>5. Cardinality(Units(S) \cup Units(T))
        = Cardinality(Units(S)) + Cardinality(Units(T)) - Cardinality(Units(S) \cap Units(T))
    BY <1>3, FS_Union
<1>6. /\ Planned(S) \in Nat /\ Planned(S) = Cardinality(Units(S))
      /\ Planned(T) \in Nat /\ Planned(T) = Cardinality(Units(T))
      /\ Planned(S \cup T) \in Nat /\ Planned(S \cup T) = Cardinality(Units(S) \cup Units(T))
    BY <1>1, <1>2, PlannedType
<1> QED
    BY <1>4, <1>5, <1>6

\* A trade plans what it risks.
LEMMA PlannedOne ==
    ASSUME NEW t \in Trade
    PROVE  Planned({t}) <= Risk[t]
<1> DEFINE f == [p \in Units({t}) |-> p[2]]
<1>1. Risk[t] \in Nat /\ Risk[t] <= MaxRisk
    BY LimitsAssumption
<1>2. f \in Injection(Units({t}), 1 .. Risk[t])
    BY <1>1, LimitsAssumption DEF Units, Injection, IsInjective
<1>3. IsFiniteSet(1 .. Risk[t]) /\ Cardinality(1 .. Risk[t]) = Risk[t]
    BY <1>1, FS_Interval
<1>4. Cardinality(Units({t})) <= Cardinality(1 .. Risk[t])
    BY <1>2, <1>3, FS_Injection
<1> QED
    BY <1>3, <1>4, FS_Singleton, PlannedType

\* Several trades plan at the most so many times the most one risks.
LEMMA PlannedMany ==
    ASSUME NEW S, IsFiniteSet(S), NEW n \in Nat, Cardinality(S) <= n
    PROVE  Planned(S) <= n * MaxRisk
<1>1. IsFiniteSet(1 .. MaxRisk) /\ Cardinality(1 .. MaxRisk) = MaxRisk
    <2>1. 1 \in Int /\ MaxRisk \in Nat
        BY LimitsAssumption
    <2>2. IsFiniteSet(1 .. MaxRisk) /\ Cardinality(1 .. MaxRisk) = IF 1 > MaxRisk THEN 0 ELSE MaxRisk - 1 + 1
        BY <2>1, FS_Interval
    <2> QED
        BY <2>1, <2>2
<1>2. IsFiniteSet(S \X (1 .. MaxRisk)) /\ Cardinality(S \X (1 .. MaxRisk)) = Cardinality(S) * MaxRisk
    BY <1>1, FS_Product
<1>3. Units(S) \in SUBSET (S \X (1 .. MaxRisk))
    BY DEF Units
<1>4. Cardinality(Units(S)) <= Cardinality(S) * MaxRisk
    BY <1>2, <1>3, FS_Subset
<1>5. Cardinality(S) \in Nat /\ MaxRisk \in Nat
    BY FS_CardinalityType, LimitsAssumption
<1>6. Cardinality(S) * MaxRisk <= n * MaxRisk
    BY <1>5, LessTimes
<1>7. Cardinality(S) * MaxRisk \in Nat /\ n * MaxRisk \in Nat
    BY <1>5, TimesNat
<1> QED
    BY <1>4, <1>6, <1>7, PlannedType

\* Trades that different coroutines have are no more than the coroutines.
LEMMA OneEach ==
    ASSUME NEW X, NEW H, H \in SUBSET Sender,
           \A t \in X : \E s \in H : sender[s].trade = t
    PROVE  IsFiniteSet(X) /\ IsFiniteSet(H) /\ Cardinality(X) <= Cardinality(H)
<1> DEFINE f == [t \in X |-> CHOOSE s \in H : sender[s].trade = t]
<1>1. IsFiniteSet(H)
    BY LimitsAssumption, FS_Subset
<1>2. \A t \in X : f[t] \in H /\ sender[f[t]].trade = t
    OBVIOUS
<1>3. f \in Injection(X, H)
    BY <1>2 DEF Injection, IsInjective
<1> QED
    BY <1>1, <1>3, FS_Injection

-----------------------------------------------------------------------------
(* The structure: types, and where a coroutine is with its trade.            *)

\* A coroutine goes on to its next check.
LEMMA Checked ==
    ASSUME TypeOK, NEW s \in Sender, NEW pc, NEW next \in PCs \ {"idle"}, NEW passes \in BOOLEAN, pc # "idle",
           Check(s, pc, next, passes)
    PROVE  /\ sender' \in [Sender -> SenderType]
           /\ sender[s].pc = pc /\ sender'[s].pc = next
           /\ sender'[s].trade = sender[s].trade /\ sender[s].trade \in Trade
           /\ sender'[s].ok <=> sender[s].ok /\ passes
           /\ \A r \in Sender \ {s} : sender'[r] = sender[r]
<1>1. sender \in [Sender -> SenderType] /\ sender[s] \in SenderType
    BY DEF TypeOK, SenderType
<1>2. sender'[s] = [sender[s] EXCEPT !.pc = next, !.ok = @ /\ passes]
    BY <1>1 DEF Check
<1>3. /\ sender'[s].pc = next /\ sender'[s].trade = sender[s].trade
      /\ sender'[s].ok = (sender[s].ok /\ passes)
    BY <1>1, <1>2 DEF SenderType
<1>4. sender'[s] \in SenderType
    BY <1>1, <1>2 DEF SenderType
<1>5. \A r \in Sender \ {s} : sender'[r] = sender[r]
    BY <1>1 DEF Check
<1>6. sender' \in [Sender -> SenderType]
    BY <1>1, <1>4, <1>5 DEF Check
<1>7. sender[s].pc = pc /\ sender[s].trade \in Trade
    BY <1>1 DEF Check, TypeOK, SenderType
<1> QED
    BY <1>3, <1>5, <1>6, <1>7

\* Or it is done with its trade.
LEMMA Done ==
    ASSUME TypeOK, NEW s \in Sender, sender' = [sender EXCEPT ![s] = Idle]
    PROVE  /\ sender' \in [Sender -> SenderType]
           /\ sender'[s] = Idle
           /\ \A r \in Sender \ {s} : sender'[r] = sender[r]
<1>1. sender \in [Sender -> SenderType]
    BY DEF TypeOK, SenderType
<1>2. Idle \in SenderType
    BY DEF Idle, SenderType, PCs
<1> QED
    BY <1>1, <1>2

\* Or it goes on with it.
LEMMA Moved ==
    ASSUME TypeOK, NEW s \in Sender, sender[s].pc # "idle", NEW next \in PCs \ {"idle"},
           sender' = [sender EXCEPT ![s].pc = next]
    PROVE  /\ sender' \in [Sender -> SenderType]
           /\ sender'[s].pc = next
           /\ sender'[s].trade = sender[s].trade /\ sender[s].trade \in Trade
           /\ sender'[s].ok = sender[s].ok
           /\ \A r \in Sender \ {s} : sender'[r] = sender[r]
<1>1. sender \in [Sender -> SenderType] /\ sender[s] \in SenderType
    BY DEF TypeOK, SenderType
<1>2. sender'[s] = [sender[s] EXCEPT !.pc = next]
    BY <1>1
<1>3. /\ sender'[s].pc = next /\ sender'[s].trade = sender[s].trade
      /\ sender'[s].ok = sender[s].ok /\ sender'[s] \in SenderType
    BY <1>1, <1>2 DEF SenderType
<1>4. \A r \in Sender \ {s} : sender'[r] = sender[r]
    BY <1>1
<1>5. sender' \in [Sender -> SenderType]
    BY <1>1, <1>3, <1>4
<1>6. sender[s].trade \in Trade
    BY <1>1 DEF TypeOK, SenderType
<1> QED
    BY <1>3, <1>4, <1>5, <1>6


Structure == TypeOK /\ Alone /\ Stages /\ AgedAlone

\* A coroutine that only went on with its trade, the record unchanged, keeps the
\* structure if the stage it has reached is one of that trade's.
LEMMA Onward ==
    ASSUME Structure, NEW s \in Sender, UNCHANGED <<row, aged, crashes, faults>>,
           sender' \in [Sender -> SenderType],
           sender'[s].trade = sender[s].trade, sender[s].trade \in Trade, sender'[s].pc # "idle",
           \A r \in Sender \ {s} : sender'[r] = sender[r],
           sender'[s].pc \in {"halt", "pnl", "allocation", "positions", "decide"} => row[sender[s].trade] = "none",
           sender'[s].pc \notin {"unresolved", "send", "hear", "protect", "watch"},
           book' = book, over' \in BOOLEAN, halt' \in BOOLEAN, late' \in Nat
    PROVE  Structure'
<1>1. TypeOK'
    <2>1. \A r \in Sender : sender'[r].pc = "idle" <=> sender'[r].trade = NoTrade
        BY LimitsAssumption DEF Structure, TypeOK
    <2>2. /\ row' \in [Trade -> RowStatus] /\ book' \in [Trade -> BookState]
          /\ \A t \in Trade : book'[t] # "none" => row'[t] # "none"
          /\ aged' \subseteq {t \in Trade : row'[t] = "PREPARED"}
          /\ crashes' \in Nat /\ faults' \in Nat /\ crashes' + faults' <= MaxFaults
        BY DEF Structure, TypeOK, RowStatus, BookState
    <2> QED
        BY <2>1, <2>2 DEF TypeOK, RowStatus, BookState, SenderType
<1>2. Alone'
    BY DEF Structure, Alone, TypeOK, SenderType
<1>3. Stages'
    BY DEF Structure, Stages, Stage, TypeOK, SenderType
<1>4. AgedAlone'
    BY DEF Structure, AgedAlone, Held, TypeOK
<1> QED
    BY <1>1, <1>2, <1>3, <1>4 DEF Structure

\* The initial states have the structure.
LEMMA InitStructure == Init => Structure
<1> SUFFICES ASSUME Init PROVE Structure
    OBVIOUS
<1>1. \A s \in Sender : sender[s] = Idle
    BY DEF Init
<1>2. TypeOK
    <2>1. Idle \in SenderType /\ sender \in [Sender -> SenderType]
        BY DEF Init, Idle, SenderType, PCs
    <2>2. \A s \in Sender : sender[s].pc = "idle" <=> sender[s].trade = NoTrade
        BY <1>1 DEF Idle
    <2>3. /\ row \in [Trade -> RowStatus] /\ book \in [Trade -> BookState]
          /\ \A t \in Trade : book[t] = "none"
        BY DEF Init, RowStatus, BookState
    <2>4. crashes + faults <= MaxFaults /\ 0 \in Nat
        BY LimitsAssumption DEF Init
    <2> QED
        BY <2>1, <2>2, <2>3, <2>4 DEF Init, TypeOK, SenderType, RowStatus, BookState
<1>3. Alone /\ Stages /\ AgedAlone
    BY <1>1, LimitsAssumption DEF Init, Alone, Stages, Stage, AgedAlone, Idle
<1> QED
    BY <1>2, <1>3 DEF Structure

\* Every step keeps it.
LEMMA StepStructure ==
    ASSUME Structure, [Next]_vars
    PROVE  Structure'
<1> USE LimitsAssumption
<1>0. /\ TypeOK /\ sender \in [Sender -> SenderType] /\ row \in [Trade -> RowStatus]
      /\ \A s \in Sender : sender[s] \in SenderType
    BY DEF Structure, TypeOK, SenderType, RowStatus
<1>1. ASSUME NEW s \in Sender, NEW t \in Trade, Begin(s, t) PROVE Structure'
    <2>1. /\ sender' \in [Sender -> SenderType]
          /\ sender'[s] = [pc |-> "unresolved", trade |-> t, ok |-> TRUE]
          /\ \A r \in Sender \ {s} : sender'[r] = sender[r]
        BY <1>0, <1>1 DEF Begin, Idle, SenderType, PCs
    <2>2. /\ row[t] = "none" /\ sender[s].pc = "idle" /\ UNCHANGED <<row, aged, book, day, fails>>
          /\ \A r \in Sender : sender[r].trade # t
        BY <1>1 DEF Begin, rows, Held
    <2>3. TypeOK'
        BY <1>0, <2>1, <2>2 DEF TypeOK, SenderType, day, fails
    <2>4. Alone'
        BY <1>0, <2>1, <2>2 DEF Structure, Alone, SenderType
    <2>5. Stages'
        BY <1>0, <2>1, <2>2 DEF Structure, Stages, Stage, SenderType
    <2>6. AgedAlone'
        BY <1>0, <2>1, <2>2 DEF Structure, AgedAlone, Held, TypeOK
    <2> QED
        BY <2>3, <2>4, <2>5, <2>6 DEF Structure
<1>2. ASSUME NEW s \in Sender, UnresolvedGate(s) PROVE Structure'
    <2>1. PICK passes \in BOOLEAN : Check(s, "unresolved", "halt", passes)
        BY <1>2, Zenon DEF UnresolvedGate, Check
    <2>2. ("halt") \in PCs \ {"idle"}
        BY DEF PCs
    <2>3. /\ sender' \in [Sender -> SenderType]
          /\ sender[s].pc = "unresolved" /\ sender'[s].pc = "halt"
          /\ sender'[s].trade = sender[s].trade /\ sender[s].trade \in Trade
          /\ \A r \in Sender \ {s} : sender'[r] = sender[r]
        BY <1>0, <2>1, <2>2, Checked
    <2>4. /\ UNCHANGED <<row, aged, crashes, faults>> /\ book' = book
          /\ over' \in BOOLEAN /\ halt' \in BOOLEAN /\ late' \in Nat
        BY <1>0, <1>2 DEF UnresolvedGate, rows, day, fails, TypeOK
    <2>5. row[sender[s].trade] = "none"
        BY <2>3 DEF Structure, Stages, Stage
    <2> QED
        BY <2>2, <2>3, <2>4, <2>5, Onward
<1>3. ASSUME NEW s \in Sender, ReadHalt(s) PROVE Structure'
    <2>1. PICK passes \in BOOLEAN : Check(s, "halt", IF ExistingHalt THEN "allocation" ELSE "pnl", passes)
        BY <1>3, Zenon DEF ReadHalt, Check
    <2>2. (IF ExistingHalt THEN "allocation" ELSE "pnl") \in PCs \ {"idle"}
        BY DEF PCs
    <2>3. /\ sender' \in [Sender -> SenderType]
          /\ sender[s].pc = "halt" /\ sender'[s].pc = IF ExistingHalt THEN "allocation" ELSE "pnl"
          /\ sender'[s].trade = sender[s].trade /\ sender[s].trade \in Trade
          /\ \A r \in Sender \ {s} : sender'[r] = sender[r]
        BY <1>0, <2>1, <2>2, Checked
    <2>4. /\ UNCHANGED <<row, aged, crashes, faults>> /\ book' = book
          /\ over' \in BOOLEAN /\ halt' \in BOOLEAN /\ late' \in Nat
        BY <1>0, <1>3 DEF ReadHalt, rows, day, fails, TypeOK
    <2>5. row[sender[s].trade] = "none"
        BY <2>3 DEF Structure, Stages, Stage
    <2> QED
        BY <2>2, <2>3, <2>4, <2>5, Onward
<1>4. ASSUME NEW s \in Sender, JudgeDay(s) PROVE Structure'
    <2>1. PICK passes \in BOOLEAN : Check(s, "pnl", "allocation", passes)
        BY <1>4, Zenon DEF JudgeDay, Check
    <2>2. ("allocation") \in PCs \ {"idle"}
        BY DEF PCs
    <2>3. /\ sender' \in [Sender -> SenderType]
          /\ sender[s].pc = "pnl" /\ sender'[s].pc = "allocation"
          /\ sender'[s].trade = sender[s].trade /\ sender[s].trade \in Trade
          /\ \A r \in Sender \ {s} : sender'[r] = sender[r]
        BY <1>0, <2>1, <2>2, Checked
    <2>4. /\ UNCHANGED <<row, aged, crashes, faults>> /\ book' = book
          /\ over' \in BOOLEAN /\ halt' \in BOOLEAN /\ late' \in Nat
        BY <1>0, <1>4 DEF JudgeDay, rows, day, fails, TypeOK
    <2>5. row[sender[s].trade] = "none"
        BY <2>3 DEF Structure, Stages, Stage
    <2> QED
        BY <2>2, <2>3, <2>4, <2>5, Onward
<1>5. ASSUME NEW s \in Sender, AllocationCheck(s) PROVE Structure'
    <2>1. PICK passes \in BOOLEAN : Check(s, "allocation", "positions", passes)
        BY <1>5, Zenon DEF AllocationCheck, Check
    <2>2. ("positions") \in PCs \ {"idle"}
        BY DEF PCs
    <2>3. /\ sender' \in [Sender -> SenderType]
          /\ sender[s].pc = "allocation" /\ sender'[s].pc = "positions"
          /\ sender'[s].trade = sender[s].trade /\ sender[s].trade \in Trade
          /\ \A r \in Sender \ {s} : sender'[r] = sender[r]
        BY <1>0, <2>1, <2>2, Checked
    <2>4. /\ UNCHANGED <<row, aged, crashes, faults>> /\ book' = book
          /\ over' \in BOOLEAN /\ halt' \in BOOLEAN /\ late' \in Nat
        BY <1>0, <1>5 DEF AllocationCheck, rows, day, fails, TypeOK
    <2>5. row[sender[s].trade] = "none"
        BY <2>3 DEF Structure, Stages, Stage
    <2> QED
        BY <2>2, <2>3, <2>4, <2>5, Onward
<1>6. ASSUME NEW s \in Sender, PositionCheck(s) PROVE Structure'
    <2>1. PICK passes \in BOOLEAN : Check(s, "positions", "decide", passes)
        BY <1>6, Zenon DEF PositionCheck, Check
    <2>2. ("decide") \in PCs \ {"idle"}
        BY DEF PCs
    <2>3. /\ sender' \in [Sender -> SenderType]
          /\ sender[s].pc = "positions" /\ sender'[s].pc = "decide"
          /\ sender'[s].trade = sender[s].trade /\ sender[s].trade \in Trade
          /\ \A r \in Sender \ {s} : sender'[r] = sender[r]
        BY <1>0, <2>1, <2>2, Checked
    <2>4. /\ UNCHANGED <<row, aged, crashes, faults>> /\ book' = book
          /\ over' \in BOOLEAN /\ halt' \in BOOLEAN /\ late' \in Nat
        BY <1>0, <1>6 DEF PositionCheck, rows, day, fails, TypeOK
    <2>5. row[sender[s].trade] = "none"
        BY <2>3 DEF Structure, Stages, Stage
    <2> QED
        BY <2>2, <2>3, <2>4, <2>5, Onward
<1>7. ASSUME NEW s \in Sender, Refuse(s) PROVE Structure'
    <2>1. /\ sender' \in [Sender -> SenderType] /\ sender'[s] = Idle
          /\ \A r \in Sender \ {s} : sender'[r] = sender[r]
        BY <1>0, <1>7, Done DEF Refuse
    <2>2. UNCHANGED <<row, aged, book, day>> /\ crashes' \in Nat /\ faults' \in Nat /\ crashes' + faults' <= MaxFaults
        BY <1>0, <1>7 DEF Refuse, rows, fails, TypeOK
    <2>3. TypeOK'
        <3>1. \A r \in Sender : sender'[r].pc = "idle" <=> sender'[r].trade = NoTrade
            BY <1>0, <2>1 DEF TypeOK, Idle
        <3>2. /\ row' \in [Trade -> RowStatus] /\ book' \in [Trade -> BookState]
              /\ \A t \in Trade : book'[t] # "none" => row'[t] # "none"
              /\ aged' \subseteq {t \in Trade : row'[t] = "PREPARED"}
              /\ over' \in BOOLEAN /\ halt' \in BOOLEAN /\ late' \in Nat
              /\ crashes' \in Nat /\ faults' \in Nat /\ crashes' + faults' <= MaxFaults
            BY <1>0, <2>2 DEF TypeOK, RowStatus, BookState, day, fails
        <3> QED
            BY <2>1, <3>1, <3>2 DEF TypeOK, RowStatus, BookState, SenderType
    <2>4. Alone'
        BY <1>0, <2>1, <2>2 DEF Structure, Alone, SenderType, Idle
    <2>5. Stages'
        BY <1>0, <2>1, <2>2 DEF Structure, Stages, Stage, SenderType, Idle
    <2>6. AgedAlone'
        BY <1>0, <2>1, <2>2 DEF Structure, AgedAlone, Held, TypeOK, Idle
    <2> QED
        BY <2>3, <2>4, <2>5, <2>6 DEF Structure
<1>8. ASSUME NEW s \in Sender, Watch(s) PROVE Structure'
    <2>1. /\ sender' \in [Sender -> SenderType] /\ sender'[s] = Idle
          /\ \A r \in Sender \ {s} : sender'[r] = sender[r]
        BY <1>0, <1>8, Done DEF Watch
    <2>2. UNCHANGED <<row, aged, book, day>> /\ crashes' \in Nat /\ faults' \in Nat /\ crashes' + faults' <= MaxFaults
        BY <1>0, <1>8 DEF Watch, rows, fails, TypeOK
    <2>3. TypeOK'
        <3>1. \A r \in Sender : sender'[r].pc = "idle" <=> sender'[r].trade = NoTrade
            BY <1>0, <2>1 DEF TypeOK, Idle
        <3>2. /\ row' \in [Trade -> RowStatus] /\ book' \in [Trade -> BookState]
              /\ \A t \in Trade : book'[t] # "none" => row'[t] # "none"
              /\ aged' \subseteq {t \in Trade : row'[t] = "PREPARED"}
              /\ over' \in BOOLEAN /\ halt' \in BOOLEAN /\ late' \in Nat
              /\ crashes' \in Nat /\ faults' \in Nat /\ crashes' + faults' <= MaxFaults
            BY <1>0, <2>2 DEF TypeOK, RowStatus, BookState, day, fails
        <3> QED
            BY <2>1, <3>1, <3>2 DEF TypeOK, RowStatus, BookState, SenderType
    <2>4. Alone'
        BY <1>0, <2>1, <2>2 DEF Structure, Alone, SenderType, Idle
    <2>5. Stages'
        BY <1>0, <2>1, <2>2 DEF Structure, Stages, Stage, SenderType, Idle
    <2>6. AgedAlone'
        BY <1>0, <2>1, <2>2 DEF Structure, AgedAlone, Held, TypeOK, Idle
    <2> QED
        BY <2>3, <2>4, <2>5, <2>6 DEF Structure
<1>9. ASSUME NEW s \in Sender, Crash(s) PROVE Structure'
    <2>1. /\ sender' \in [Sender -> SenderType] /\ sender'[s] = Idle
          /\ \A r \in Sender \ {s} : sender'[r] = sender[r]
        BY <1>0, <1>9, Done DEF Crash
    <2>2. UNCHANGED <<row, aged, book, day>> /\ crashes' \in Nat /\ faults' \in Nat /\ crashes' + faults' <= MaxFaults
        BY <1>0, <1>9 DEF Crash, rows, fails, TypeOK
    <2>3. TypeOK'
        <3>1. \A r \in Sender : sender'[r].pc = "idle" <=> sender'[r].trade = NoTrade
            BY <1>0, <2>1 DEF TypeOK, Idle
        <3>2. /\ row' \in [Trade -> RowStatus] /\ book' \in [Trade -> BookState]
              /\ \A t \in Trade : book'[t] # "none" => row'[t] # "none"
              /\ aged' \subseteq {t \in Trade : row'[t] = "PREPARED"}
              /\ over' \in BOOLEAN /\ halt' \in BOOLEAN /\ late' \in Nat
              /\ crashes' \in Nat /\ faults' \in Nat /\ crashes' + faults' <= MaxFaults
            BY <1>0, <2>2 DEF TypeOK, RowStatus, BookState, day, fails
        <3> QED
            BY <2>1, <3>1, <3>2 DEF TypeOK, RowStatus, BookState, SenderType
    <2>4. Alone'
        BY <1>0, <2>1, <2>2 DEF Structure, Alone, SenderType, Idle
    <2>5. Stages'
        BY <1>0, <2>1, <2>2 DEF Structure, Stages, Stage, SenderType, Idle
    <2>6. AgedAlone'
        BY <1>0, <2>1, <2>2 DEF Structure, AgedAlone, Held, TypeOK, Idle
    <2> QED
        BY <2>3, <2>4, <2>5, <2>6 DEF Structure
<1>10. ASSUME NEW s \in Sender, ProtectFails(s) PROVE Structure'
    <2>1. /\ sender' \in [Sender -> SenderType] /\ sender'[s] = Idle
          /\ \A r \in Sender \ {s} : sender'[r] = sender[r]
        BY <1>0, <1>10, Done DEF ProtectFails
    <2>2. UNCHANGED <<row, aged, book, day>> /\ crashes' \in Nat /\ faults' \in Nat /\ crashes' + faults' <= MaxFaults
        BY <1>0, <1>10 DEF ProtectFails, rows, fails, TypeOK
    <2>3. TypeOK'
        <3>1. \A r \in Sender : sender'[r].pc = "idle" <=> sender'[r].trade = NoTrade
            BY <1>0, <2>1 DEF TypeOK, Idle
        <3>2. /\ row' \in [Trade -> RowStatus] /\ book' \in [Trade -> BookState]
              /\ \A t \in Trade : book'[t] # "none" => row'[t] # "none"
              /\ aged' \subseteq {t \in Trade : row'[t] = "PREPARED"}
              /\ over' \in BOOLEAN /\ halt' \in BOOLEAN /\ late' \in Nat
              /\ crashes' \in Nat /\ faults' \in Nat /\ crashes' + faults' <= MaxFaults
            BY <1>0, <2>2 DEF TypeOK, RowStatus, BookState, day, fails
        <3> QED
            BY <2>1, <3>1, <3>2 DEF TypeOK, RowStatus, BookState, SenderType
    <2>4. Alone'
        BY <1>0, <2>1, <2>2 DEF Structure, Alone, SenderType, Idle
    <2>5. Stages'
        BY <1>0, <2>1, <2>2 DEF Structure, Stages, Stage, SenderType, Idle
    <2>6. AgedAlone'
        BY <1>0, <2>1, <2>2 DEF Structure, AgedAlone, Held, TypeOK, Idle
    <2> QED
        BY <2>3, <2>4, <2>5, <2>6 DEF Structure
<1>11. ASSUME NEW s \in Sender, Protect(s) PROVE Structure'
    <2>1. /\ sender' \in [Sender -> SenderType] /\ sender'[s] = Idle
          /\ \A r \in Sender \ {s} : sender'[r] = sender[r]
        BY <1>0, <1>11, Done DEF Protect
    <2>2. /\ UNCHANGED <<row, aged, day, fails>> /\ sender[s].pc = "protect" /\ row[sender[s].trade] = "ACCEPTED"
          /\ sender[s].trade \in Trade
          /\ book' = [book EXCEPT ![sender[s].trade] = IF @ = "resting" THEN "withdrawn" ELSE @]
        BY <1>0, <1>11 DEF Protect, rows, Structure, Stages, Stage, TypeOK, SenderType
    <2>3. TypeOK'
        <3>1. \A r \in Sender : sender'[r].pc = "idle" <=> sender'[r].trade = NoTrade
            BY <1>0, <2>1 DEF TypeOK, Idle
        <3>2. /\ row' \in [Trade -> RowStatus] /\ book' \in [Trade -> BookState]
              /\ \A t \in Trade : book'[t] # "none" => row'[t] # "none"
              /\ aged' \subseteq {t \in Trade : row'[t] = "PREPARED"}
              /\ over' \in BOOLEAN /\ halt' \in BOOLEAN /\ late' \in Nat
              /\ crashes' \in Nat /\ faults' \in Nat /\ crashes' + faults' <= MaxFaults
            BY <1>0, <2>2 DEF TypeOK, RowStatus, BookState, day, fails
        <3> QED
            BY <2>1, <3>1, <3>2 DEF TypeOK, RowStatus, BookState, SenderType
    <2>4. Alone'
        BY <1>0, <2>1, <2>2 DEF Structure, Alone, SenderType, Idle
    <2>5. Stages'
        BY <1>0, <2>1, <2>2 DEF Structure, Stages, Stage, Alone, SenderType, Idle
    <2>6. AgedAlone'
        BY <1>0, <2>1, <2>2 DEF Structure, AgedAlone, Held, TypeOK, Idle
    <2> QED
        BY <2>3, <2>4, <2>5, <2>6 DEF Structure
<1>12. ASSUME NEW s \in Sender, WriteAhead(s) PROVE Structure'
    <2> DEFINE t == sender[s].trade
    <2>0. sender[s].pc = "decide" /\ sender' = [sender EXCEPT ![s].pc = "send"] /\ "send" \in PCs \ {"idle"}
        BY <1>12 DEF WriteAhead, PCs
    <2>1. /\ sender' \in [Sender -> SenderType] /\ sender'[s].pc = "send"
          /\ sender'[s].trade = t /\ t \in Trade /\ sender'[s].ok = sender[s].ok
          /\ \A r \in Sender \ {s} : sender'[r] = sender[r]
        BY <1>0, <2>0, Moved
    <2>2. /\ row' = [row EXCEPT ![t] = "PREPARED"] /\ row[t] = "none" /\ sender[s].ok
          /\ UNCHANGED <<aged, book, over, halt, fails>> /\ late' \in Nat /\ book[t] = "none"
        BY <1>0, <1>12, <2>0, <2>1 DEF WriteAhead, Structure, Stages, Stage, TypeOK
    <2>3. TypeOK'
        BY <1>0, <2>0, <2>1, <2>2 DEF TypeOK, SenderType, RowStatus, day, fails
    <2>4. Alone'
        BY <1>0, <2>0, <2>1, <2>2 DEF Structure, Alone, SenderType
    <2>5. Stages'
        BY <1>0, <2>0, <2>1, <2>2 DEF Structure, Stages, Stage, Alone, SenderType, RowStatus, TypeOK
    <2>6. AgedAlone'
        BY <1>0, <2>0, <2>1, <2>2 DEF Structure, AgedAlone, Held, TypeOK
    <2> QED
        BY <2>3, <2>4, <2>5, <2>6 DEF Structure
<1>13. ASSUME NEW s \in Sender, Transmit(s) PROVE Structure'
    <2> DEFINE t == sender[s].trade
    <2>0. sender[s].pc = "send" /\ sender' = [sender EXCEPT ![s].pc = "hear"] /\ "hear" \in PCs \ {"idle"}
        BY <1>13 DEF Transmit, PCs
    <2>1. /\ sender' \in [Sender -> SenderType] /\ sender'[s].pc = "hear"
          /\ sender'[s].trade = t /\ t \in Trade /\ sender'[s].ok = sender[s].ok
          /\ \A r \in Sender \ {s} : sender'[r] = sender[r]
        BY <1>0, <2>0, Moved
    <2>2. /\ \E fate \in {"resting", "refused"} : book' = [book EXCEPT ![t] = fate] /\ row[t] = "PREPARED"
          /\ sender[s].ok /\ UNCHANGED <<row, aged, day, fails>>
        BY <1>0, <1>13, <2>0, <2>1 DEF Transmit, rows, Structure, Stages, Stage
    <2>3. TypeOK'
        BY <1>0, <2>0, <2>1, <2>2 DEF TypeOK, SenderType, RowStatus, day, fails
    <2>4. Alone'
        BY <1>0, <2>0, <2>1, <2>2 DEF Structure, Alone, SenderType
    <2>5. Stages'
        BY <1>0, <2>0, <2>1, <2>2 DEF Structure, Stages, Stage, Alone, SenderType, RowStatus, TypeOK
    <2>6. AgedAlone'
        BY <1>0, <2>0, <2>1, <2>2 DEF Structure, AgedAlone, Held, TypeOK
    <2> QED
        BY <2>3, <2>4, <2>5, <2>6 DEF Structure
<1>14. ASSUME NEW s \in Sender, HearNothing(s) PROVE Structure'
    <2> DEFINE t == sender[s].trade
    <2>0. sender[s].pc = "hear" /\ sender' = [sender EXCEPT ![s].pc = "watch"] /\ "watch" \in PCs \ {"idle"}
        BY <1>14 DEF HearNothing, PCs
    <2>1. /\ sender' \in [Sender -> SenderType] /\ sender'[s].pc = "watch"
          /\ sender'[s].trade = t /\ t \in Trade /\ sender'[s].ok = sender[s].ok
          /\ \A r \in Sender \ {s} : sender'[r] = sender[r]
        BY <1>0, <2>0, Moved
    <2>2. /\ row' = [row EXCEPT ![t] = "UNKNOWN"] /\ row[t] = "PREPARED" /\ sender[s].ok
          /\ t \notin aged
          /\ UNCHANGED <<aged, book, day, crashes>> /\ faults' = faults + 1 /\ crashes + faults < MaxFaults
        BY <1>0, <1>14, <2>0, <2>1 DEF HearNothing, Structure, Stages, Stage, AgedAlone, Held
    <2>3. TypeOK'
        BY <1>0, <2>0, <2>1, <2>2 DEF TypeOK, SenderType, RowStatus, day, fails
    <2>4. Alone'
        BY <1>0, <2>0, <2>1, <2>2 DEF Structure, Alone, SenderType
    <2>5. Stages'
        BY <1>0, <2>0, <2>1, <2>2 DEF Structure, Stages, Stage, Alone, SenderType, RowStatus, TypeOK
    <2>6. AgedAlone'
        BY <1>0, <2>0, <2>1, <2>2 DEF Structure, AgedAlone, Held, TypeOK
    <2> QED
        BY <2>3, <2>4, <2>5, <2>6 DEF Structure
<1>15. ASSUME NEW s \in Sender, Hear(s) PROVE Structure'
    <2> DEFINE t == sender[s].trade
    <2>0. /\ sender[s].pc = "hear" /\ t \in Trade /\ row[t] = "PREPARED" /\ sender[s].ok /\ t \notin aged
          /\ UNCHANGED <<aged, book, day, fails>>
        BY <1>0, <1>15 DEF Hear, Structure, Stages, Stage, TypeOK, SenderType, AgedAlone, Held
    <2>1. /\ sender' \in [Sender -> SenderType]
          /\ \A r \in Sender \ {s} : sender'[r] = sender[r]
          /\ \/ sender'[s] = Idle /\ row' = [row EXCEPT ![t] = "REJECTED"]
             \/ /\ sender'[s].pc = "protect" /\ sender'[s].trade = t /\ sender'[s].ok = sender[s].ok
                /\ row' = [row EXCEPT ![t] = "ACCEPTED"]
        <3>1. CASE book[t] = "refused"
            BY <1>0, <1>15, <3>1, Done DEF Hear
        <3>2. CASE book[t] # "refused"
            <4>1. sender' = [sender EXCEPT ![s].pc = "protect"] /\ "protect" \in PCs \ {"idle"}
                BY <1>15, <3>2 DEF Hear, PCs
            <4>2. row' = [row EXCEPT ![t] = "ACCEPTED"]
                BY <1>15, <3>2 DEF Hear
            <4> QED
                BY <1>0, <2>0, <4>1, <4>2, Moved
        <3> QED
            BY <3>1, <3>2
    <2>2. CASE sender'[s] = Idle /\ row' = [row EXCEPT ![t] = "REJECTED"]
        <3>1. TypeOK'
            <4>1. \A r \in Sender : sender'[r].pc = "idle" <=> sender'[r].trade = NoTrade
                BY <1>0, <2>1, <2>2 DEF TypeOK, Idle
            <4>2. /\ row' \in [Trade -> RowStatus] /\ \A u \in Trade : book[u] # "none" => row'[u] # "none"
                  /\ aged \subseteq {u \in Trade : row'[u] = "PREPARED"}
                BY <1>0, <2>0, <2>2 DEF TypeOK, RowStatus
            <4> QED
                BY <1>0, <2>0, <2>1, <4>1, <4>2 DEF TypeOK, RowStatus, SenderType, day, fails
        <3>2. Alone'
            BY <1>0, <2>0, <2>1, <2>2 DEF Structure, Alone, Idle
        <3>3. Stages'
            BY <1>0, <2>0, <2>1, <2>2 DEF Structure, Stages, Stage, Alone, Idle, TypeOK, SenderType, RowStatus
        <3>4. AgedAlone'
            BY <1>0, <2>0, <2>1, <2>2 DEF Structure, AgedAlone, Held, TypeOK, Idle
        <3> QED
            BY <3>1, <3>2, <3>3, <3>4 DEF Structure
    <2>3. CASE /\ sender'[s].pc = "protect" /\ sender'[s].trade = t /\ sender'[s].ok = sender[s].ok
               /\ row' = [row EXCEPT ![t] = "ACCEPTED"]
        <3>1. TypeOK'
            <4>1. \A r \in Sender : sender'[r].pc = "idle" <=> sender'[r].trade = NoTrade
                BY <1>0, <2>0, <2>1, <2>3, LimitsAssumption DEF TypeOK
            <4>2. /\ row' \in [Trade -> RowStatus] /\ \A u \in Trade : book[u] # "none" => row'[u] # "none"
                  /\ aged \subseteq {u \in Trade : row'[u] = "PREPARED"}
                BY <1>0, <2>0, <2>3 DEF TypeOK, RowStatus
            <4> QED
                BY <1>0, <2>0, <2>1, <4>1, <4>2 DEF TypeOK, RowStatus, SenderType, day, fails
        <3>2. Alone'
            <4>1. \A r \in Sender : sender'[r].trade = sender[r].trade
                BY <2>1, <2>3
            <4> QED
                BY <4>1 DEF Structure, Alone
        <3>3. Stages'
            <4>1. \A r \in Sender \ {s} : sender[r].pc # "idle" => row'[sender[r].trade] = row[sender[r].trade]
                BY <1>0, <2>0, <2>3 DEF Structure, Alone, TypeOK, SenderType
            <4>2. row'[t] = "ACCEPTED" /\ book' = book
                BY <1>0, <2>0, <2>3
            <4>3. Stage(s)'
                BY <2>0, <2>1, <2>3, <4>2 DEF Stage
            <4>4. \A r \in Sender \ {s} : Stage(r)'
                BY <2>1, <4>1, <4>2 DEF Structure, Stages, Stage
            <4> QED
                BY <4>3, <4>4 DEF Stages
        <3>4. AgedAlone'
            BY <1>0, <2>0, <2>1, <2>3 DEF Structure, AgedAlone, Held, TypeOK
        <3> QED
            BY <3>1, <3>2, <3>3, <3>4 DEF Structure
    <2> QED
        BY <2>1, <2>2, <2>3
<1>16. ASSUME NEW t \in Trade, Age(t) PROVE Structure'
    BY <1>0, <1>16 DEF Age, Structure, TypeOK, Alone, Stages, Stage, AgedAlone, Held, day, fails, RowStatus
<1>17. ASSUME NEW t \in Trade, Resolve(t) PROVE Structure'
    <2>1. PICK to \in {"NEEDS_REVIEW", "RESOLVED_ABSENT", "RESOLVED_PLACED"} : row' = [row EXCEPT ![t] = to]
        BY <1>17 DEF Resolve
    <2>2. ~Held(t) /\ row[t] # "none" /\ aged' = aged \ {t} /\ UNCHANGED <<book, sender, day, fails>>
        BY <1>0, <1>17 DEF Resolve, Structure, AgedAlone, TypeOK
    <2>3. TypeOK'
        BY <1>0, <2>1, <2>2 DEF TypeOK, RowStatus, day, fails
    <2>4. Stages'
        BY <1>0, <2>1, <2>2 DEF Structure, Stages, Stage, Held, SenderType, TypeOK
    <2>5. Alone' /\ AgedAlone'
        BY <2>2 DEF Structure, Alone, AgedAlone, Held
    <2> QED
        BY <2>3, <2>4, <2>5 DEF Structure
<1>18. ASSUME NEW t \in Trade, Trading(t) PROVE Structure'
    <2>1. /\ (book[t] = "resting" /\ book' = [book EXCEPT ![t] = "open"]) \/ (book[t] = "open" /\ book' = [book EXCEPT ![t] = "closed"])
          /\ UNCHANGED <<row, aged, sender, day, fails>>
        BY <1>18 DEF Trading, rows, day, fails
    <2>2. TypeOK'
        BY <1>0, <2>1 DEF TypeOK, day, fails
    <2>3. Stages'
        BY <1>0, <2>1 DEF Structure, Stages, Stage, SenderType, TypeOK
    <2>4. Alone' /\ AgedAlone'
        BY <2>1 DEF Structure, Alone, AgedAlone, Held
    <2> QED
        BY <2>2, <2>3, <2>4 DEF Structure
<1>19. ASSUME Move \/ UNCHANGED vars PROVE Structure'
    <2>1. UNCHANGED <<row, aged, book, sender, halt, late, crashes, faults>> /\ over' \in BOOLEAN
        BY <1>0, <1>19 DEF Move, vars, rows, fails, TypeOK
    <2>2. TypeOK'
        BY <1>0, <2>1 DEF TypeOK
    <2> QED
        BY <2>1, <2>2 DEF Structure, Alone, Stages, Stage, AgedAlone, Held
<1> QED
    BY <1>1, <1>2, <1>3, <1>4, <1>5, <1>6, <1>7, <1>8, <1>9, <1>10, <1>11, <1>12, <1>13, <1>14, <1>15, <1>16, <1>17, <1>18, <1>19 DEF Next, SenderStep


-----------------------------------------------------------------------------
(* What is counted, step by step.                                            *)

Covered == Placed \cup Coming
Claims  == Open \cup Arriving

\* All that is counted is finite.
LEMMA Countable ==
    ASSUME Structure, IsFiniteSet(OnRecord)
    PROVE  /\ IsFiniteSet(Slots) /\ Cardinality(Slots) \in Nat /\ Cardinality(Slots) <= Cardinality(Sender)
           /\ IsFiniteSet(Ahead) /\ Cardinality(Ahead) \in Nat
           /\ IsFiniteSet(Strays) /\ Cardinality(Strays) \in Nat
           /\ IsFiniteSet(Orphans) /\ Cardinality(Orphans) \in Nat
           /\ IsFiniteSet(Adrift) /\ Cardinality(Adrift) \in Nat
           /\ IsFiniteSet(Covered) /\ Planned(Covered) \in Nat
           /\ IsFiniteSet(Claims) /\ Cardinality(Claims) \in Nat
           /\ IsFiniteSet(Sender) /\ Cardinality(Sender) \in Nat \ {0}
<1>1. /\ IsFiniteSet(Slots) /\ Cardinality(Slots) \in Nat /\ Cardinality(Slots) <= Cardinality(Sender)
      /\ IsFiniteSet(Ahead) /\ Cardinality(Ahead) \in Nat
    <2>1. Slots \in SUBSET Sender /\ Ahead \in SUBSET Sender
        BY DEF Slots, Ahead
    <2> QED
        BY <2>1, LimitsAssumption, FS_Subset, FS_CardinalityType
<1>2. /\ Strays \in SUBSET OnRecord /\ Orphans \in SUBSET OnRecord /\ Adrift \in SUBSET OnRecord
    BY DEF Strays, Orphans, Adrift, OnRecord, OPEN_STATES, Structure, TypeOK
<1>3. /\ IsFiniteSet(Strays) /\ Cardinality(Strays) \in Nat
      /\ IsFiniteSet(Orphans) /\ Cardinality(Orphans) \in Nat
      /\ IsFiniteSet(Adrift) /\ Cardinality(Adrift) \in Nat
    BY <1>2, FS_Subset, FS_CardinalityType
<1> DEFINE Sent == {t \in Trade : Held(t)}
<1>4. IsFiniteSet(Sent)
    <2>1. \A t \in Sent : \E s \in Sender : sender[s].trade = t
        BY DEF Held
    <2> QED
        BY <2>1, OneEach
<1>5. IsFiniteSet(OnRecord \cup Sent)
    BY <1>4, FS_Union
<1>6. Covered \in SUBSET (OnRecord \cup Sent)
    BY DEF Covered, Placed, Coming, OnRecord, OPEN_STATES, LIVE_PLACED_STATUSES, Past, Held
<1>7. Claims \in SUBSET (OnRecord \cup Sent)
    BY DEF Claims, Open, Arriving, OnRecord, Past, Held, Structure, TypeOK
<1>8. /\ IsFiniteSet(Covered) /\ Planned(Covered) \in Nat
      /\ IsFiniteSet(Claims) /\ Cardinality(Claims) \in Nat
    BY <1>5, <1>6, <1>7, FS_Subset, FS_CardinalityType, PlannedType
<1>9. IsFiniteSet(Sender) /\ Cardinality(Sender) \in Nat \ {0}
    BY LimitsAssumption, FS_CardinalityType, FS_EmptySet
<1> QED
    BY <1>1, <1>3, <1>8, <1>9

\* Steps that let nothing in, and leave nothing.
RiskQuiet ==
    /\ Slots' \subseteq Slots
    /\ Strays' \subseteq Strays
    /\ Orphans' \subseteq Orphans
    /\ Covered' \subseteq Covered
    /\ crashes' = crashes

\* They keep what is counted of the risk.
LEMMA QuietRisk ==
    ASSUME Structure, IsFiniteSet(OnRecord), FewStrays, FewOrphans, RiskOK, RiskQuiet
    PROVE  FewStrays' /\ FewOrphans' /\ RiskOK'
<1>1. /\ Cardinality(Slots') <= Cardinality(Slots) /\ Cardinality(Slots') \in Nat
      /\ Cardinality(Strays') <= Cardinality(Strays) /\ Cardinality(Strays') \in Nat
      /\ Cardinality(Orphans') <= Cardinality(Orphans) /\ Cardinality(Orphans') \in Nat
    BY Countable, FS_Subset, FS_CardinalityType DEF RiskQuiet
<1>2. Planned(Covered') <= Planned(Covered) /\ IsFiniteSet(Covered') /\ Planned(Covered') \in Nat
    BY Countable, PlannedLess, PlannedType DEF RiskQuiet
<1>3. crashes' = crashes /\ crashes \in Nat
    BY DEF RiskQuiet, Structure, TypeOK
<1>4. /\ Cardinality(Slots) \in Nat /\ Cardinality(Strays) \in Nat /\ Cardinality(Orphans) \in Nat
      /\ Cardinality(Sender) \in Nat /\ Planned(Covered) \in Nat
    BY Countable
<1>5. FewStrays' /\ FewOrphans'
    BY <1>1, <1>3, <1>4 DEF FewStrays, FewOrphans
<1>6. RiskOK'
    <2> DEFINE allowed == Budget + (Cardinality(Sender) - 1 + crashes) * MaxRisk
    <2>1. (Cardinality(Sender) - 1 + crashes) \in Nat
        BY <1>3, Countable
    <2>2. allowed \in Nat
        BY <2>1, TimesNat, LimitsAssumption
    <2>3. Planned(Covered) <= allowed
        BY DEF RiskOK, Covered
    <2>4. Planned(Covered') <= allowed
        <3> HIDE DEF allowed
        <3> QED
            BY <1>2, <1>4, <2>2, <2>3
    <2> QED
        BY <1>3, <2>4 DEF RiskOK, Covered, Placed, Coming, Planned, Past
<1> QED
    BY <1>5, <1>6

\* A check that lets its coroutine on, or not, short of the one on the risk.
LEMMA CheckQuiet ==
    ASSUME Structure, NEW s \in Sender, UNCHANGED <<row, crashes>>,
           sender'[s].trade = sender[s].trade, sender[s].trade \in Trade, row[sender[s].trade] = "none",
           \A r \in Sender \ {s} : sender'[r] = sender[r],
           sender'[s].ok => sender[s].ok /\ sender[s].pc \in {"halt", "pnl", "allocation", "positions"},
           sender'[s].ok /\ sender'[s].pc \in {"positions", "decide"} => sender[s].pc = "positions"
    PROVE  RiskQuiet
<1>1. Slots' \subseteq Slots
    BY DEF Slots
<1>2. \A t \in Trade : Held(t)' <=> Held(t)
    BY DEF Held
<1>3. Strays' \subseteq Strays
    BY DEF Strays, Slots, OPEN_STATES
<1>4. Orphans' \subseteq Orphans
    BY <1>2 DEF Orphans
<1>5. Covered' \subseteq Covered
    BY DEF Covered, Placed, Coming, Past
<1> QED
    BY <1>1, <1>3, <1>4, <1>5 DEF RiskQuiet

\* A coroutine that is done with its trade.
LEMMA DoneQuiet ==
    ASSUME Structure, NEW s \in Sender, UNCHANGED <<row, crashes>>,
           sender'[s] = Idle, sender[s].trade \in Trade, row[sender[s].trade] # "PREPARED",
           \A r \in Sender \ {s} : sender'[r] = sender[r],
           s \in Slots => row[sender[s].trade] = "none"
    PROVE  RiskQuiet
<1>1. Slots' \subseteq Slots
    BY DEF Slots, Idle
<1>2. Strays' \subseteq Strays
    BY DEF Strays, Slots, OPEN_STATES, Idle
<1>3. Orphans' \subseteq Orphans
    BY DEF Orphans, Held
<1>4. Covered' \subseteq Covered
    BY DEF Covered, Placed, Coming, Past, Idle
<1> QED
    BY <1>1, <1>2, <1>3, <1>4 DEF RiskQuiet


\* Every step is quiet but four: a coroutine passes the gate, an entry passes the
\* check on the risk, an answer is lost, a process dies.
LEMMA RiskSteps ==
    ASSUME Structure, [Next]_vars
    PROVE  \/ RiskQuiet
           \/ \E s \in Sender : \/ UnresolvedGate(s) /\ ~Blocked
                                \/ AllocationCheck(s) /\ Affordable(sender[s].trade)
                                \/ HearNothing(s) \/ Crash(s)
<1> USE LimitsAssumption
<1>0. /\ TypeOK /\ sender \in [Sender -> SenderType] /\ row \in [Trade -> RowStatus]
      /\ \A s \in Sender : sender[s] \in SenderType
    BY DEF Structure, TypeOK, SenderType, RowStatus
<1>1. ASSUME NEW s \in Sender, NEW t \in Trade, Begin(s, t) PROVE RiskQuiet
    <2>1. /\ sender'[s] = [pc |-> "unresolved", trade |-> t, ok |-> TRUE]
          /\ \A r \in Sender \ {s} : sender'[r] = sender[r]
        BY <1>0, <1>1 DEF Begin, Idle, SenderType
    <2>2. /\ row[t] = "none" /\ sender[s].trade = NoTrade /\ UNCHANGED <<row, crashes>>
          /\ sender[s].pc = "idle"
        BY <1>0, <1>1 DEF Begin, rows, fails, TypeOK
    <2>3. Slots' \subseteq Slots /\ Slots \subseteq Slots'
        BY <2>1, <2>2 DEF Slots
    <2>4. Strays' \subseteq Strays
        BY <2>1, <2>2 DEF Strays, Slots
    <2>5. Orphans' \subseteq Orphans
        BY <2>1, <2>2 DEF Orphans, Held
    <2>6. Covered' \subseteq Covered
        BY <2>1, <2>2 DEF Covered, Placed, Coming, Past
    <2> QED
        BY <2>2, <2>3, <2>4, <2>5, <2>6 DEF RiskQuiet
<1>2. ASSUME NEW s \in Sender, UnresolvedGate(s), Blocked PROVE RiskQuiet
    <2>1. Check(s, "unresolved", "halt", FALSE) /\ "halt" \in PCs \ {"idle"}
        BY <1>2, Zenon DEF UnresolvedGate, PCs, Check
    <2>2. /\ ~sender'[s].ok /\ sender'[s].trade = sender[s].trade /\ sender[s].trade \in Trade
          /\ sender[s].pc = "unresolved" /\ \A r \in Sender \ {s} : sender'[r] = sender[r]
        BY <1>0, <2>1, Checked
    <2>3. UNCHANGED <<row, crashes>> /\ row[sender[s].trade] = "none"
        BY <1>2, <2>2 DEF UnresolvedGate, rows, fails, Structure, Stages, Stage
    <2> QED
        BY <2>2, <2>3, CheckQuiet
<1>3. ASSUME NEW s \in Sender, ReadHalt(s) PROVE RiskQuiet
    <2> DEFINE next == IF ExistingHalt THEN "allocation" ELSE "pnl"
    <2>1. PICK passes \in BOOLEAN : Check(s, "halt", next, passes)
        BY <1>3, Zenon DEF ReadHalt, Check
    <2>2. next \in PCs \ {"idle"}
        BY DEF PCs
    <2>3. /\ sender'[s].pc = next /\ sender'[s].trade = sender[s].trade /\ sender[s].trade \in Trade
          /\ (sender'[s].ok <=> sender[s].ok /\ passes)
          /\ sender[s].pc = "halt" /\ \A r \in Sender \ {s} : sender'[r] = sender[r]
        <3> HIDE DEF next
        <3> QED
            BY <1>0, <2>1, <2>2, Checked
    <2>4. UNCHANGED <<row, crashes>> /\ row[sender[s].trade] = "none"
        BY <1>3, <2>3 DEF ReadHalt, rows, fails, Structure, Stages, Stage
    <2> QED
        BY <2>3, <2>4, CheckQuiet
<1>4. ASSUME NEW s \in Sender, JudgeDay(s) PROVE RiskQuiet
    <2>1. (\E passes \in BOOLEAN : Check(s, "pnl", "allocation", passes)) /\ "allocation" \in PCs \ {"idle"}
        BY <1>4, Zenon DEF JudgeDay, Check, PCs
    <2>2. PICK passes \in BOOLEAN : Check(s, "pnl", "allocation", passes)
        BY <2>1
    <2>3. /\ sender'[s].pc = "allocation" /\ sender'[s].trade = sender[s].trade /\ sender[s].trade \in Trade
          /\ (sender'[s].ok <=> sender[s].ok /\ passes)
          /\ sender[s].pc = "pnl" /\ \A r \in Sender \ {s} : sender'[r] = sender[r]
        BY <1>0, <2>1, <2>2, Checked
    <2>4. UNCHANGED <<row, crashes>> /\ row[sender[s].trade] = "none"
        BY <1>4, <2>3 DEF JudgeDay, rows, fails, Structure, Stages, Stage
    <2> QED
        BY <2>3, <2>4, CheckQuiet
<1>5. ASSUME NEW s \in Sender, AllocationCheck(s), ~Affordable(sender[s].trade) PROVE RiskQuiet
    <2>1. Check(s, "allocation", "positions", FALSE) /\ "positions" \in PCs \ {"idle"}
        BY <1>5, Zenon DEF AllocationCheck, PCs, Check
    <2>2. /\ ~sender'[s].ok /\ sender'[s].trade = sender[s].trade /\ sender[s].trade \in Trade
          /\ sender[s].pc = "allocation" /\ \A r \in Sender \ {s} : sender'[r] = sender[r]
        BY <1>0, <2>1, Checked
    <2>3. UNCHANGED <<row, crashes>> /\ row[sender[s].trade] = "none"
        BY <1>5, <2>2 DEF AllocationCheck, rows, fails, Structure, Stages, Stage
    <2> QED
        BY <2>2, <2>3, CheckQuiet
<1>6. ASSUME NEW s \in Sender, PositionCheck(s) PROVE RiskQuiet
    <2>1. (\E passes \in BOOLEAN : Check(s, "positions", "decide", passes)) /\ "decide" \in PCs \ {"idle"}
        BY <1>6, Zenon DEF PositionCheck, Check, PCs
    <2>2. PICK passes \in BOOLEAN : Check(s, "positions", "decide", passes)
        BY <2>1
    <2>3. /\ sender'[s].pc = "decide" /\ sender'[s].trade = sender[s].trade /\ sender[s].trade \in Trade
          /\ (sender'[s].ok <=> sender[s].ok /\ passes)
          /\ sender[s].pc = "positions" /\ \A r \in Sender \ {s} : sender'[r] = sender[r]
        BY <1>0, <2>1, <2>2, Checked
    <2>4. UNCHANGED <<row, crashes>> /\ row[sender[s].trade] = "none"
        BY <1>6, <2>3 DEF PositionCheck, rows, fails, Structure, Stages, Stage
    <2> QED
        BY <2>3, <2>4, CheckQuiet
<1>7. ASSUME NEW s \in Sender, Refuse(s) \/ Protect(s) \/ ProtectFails(s) \/ Watch(s) PROVE RiskQuiet
    <2>1. sender'[s] = Idle /\ \A r \in Sender \ {s} : sender'[r] = sender[r]
        BY <1>0, <1>7, Done DEF Refuse, Protect, ProtectFails, Watch
    <2>2. UNCHANGED <<row, crashes>> /\ sender[s].trade \in Trade
        BY <1>0, <1>7 DEF Refuse, Protect, ProtectFails, Watch, rows, fails, TypeOK, SenderType
    <2>3. /\ row[sender[s].trade] # "PREPARED"
          /\ s \in Slots => row[sender[s].trade] = "none"
        BY <1>7 DEF Refuse, Protect, ProtectFails, Watch, Structure, Stages, Stage, Slots
    <2> QED
        BY <2>1, <2>2, <2>3, DoneQuiet
<1>8. ASSUME NEW s \in Sender, WriteAhead(s) \/ Transmit(s) PROVE RiskQuiet
    <2> DEFINE t == sender[s].trade
    <2>1. PICK next \in {"send", "hear"} :
             /\ sender' = [sender EXCEPT ![s].pc = next]
             /\ sender[s].pc = IF next = "send" THEN "decide" ELSE "send"
        BY <1>8 DEF WriteAhead, Transmit
    <2>2. /\ sender'[s].pc \in {"send", "hear"} /\ sender'[s].trade = t /\ t \in Trade /\ sender'[s].ok = sender[s].ok
          /\ \A r \in Sender \ {s} : sender'[r] = sender[r]
        <3>1. sender[s].pc # "idle" /\ next \in PCs \ {"idle"}
            BY <2>1 DEF PCs
        <3> QED
            BY <1>0, <2>1, <3>1, Moved
    <2>3. /\ sender[s].ok /\ crashes' = crashes
          /\ \/ row' = [row EXCEPT ![t] = "PREPARED"] /\ row[t] = "none" /\ sender[s].pc = "decide"
             \/ row' = row
        BY <1>8 DEF WriteAhead, Transmit, rows, fails, Structure, Stages, Stage
    <2>4. s \in Slots /\ Slots' = Slots
        BY <2>1, <2>2, <2>3 DEF Slots
    <2>5. \A u \in Trade \ {t} : row'[u] = row[u]
        BY <1>0, <2>3
    <2>6. \A r \in Sender : sender'[r].trade = sender[r].trade
        BY <2>2
    <2>7. Strays' \subseteq Strays
        <3>1. s \in Slots' /\ sender'[s].trade = t
            BY <2>2, <2>4
        <3>2. \A u \in Strays' : u \in Trade /\ u # t /\ row'[u] \in OPEN_STATES /\ \A r \in Slots : sender'[r].trade # u
            BY <2>4, <3>1 DEF Strays
        <3>3. \A r \in Slots : r \in Sender
            BY DEF Slots
        <3> QED
            BY <2>5, <2>6, <3>2, <3>3 DEF Strays
    <2>8. Orphans' \subseteq Orphans
        BY <2>2, <2>5, <2>6 DEF Orphans, Held
    <2>9. Covered' \subseteq Covered
        <3>1. t \in Covered
            BY <2>1, <2>2, <2>3 DEF Covered, Coming, Past, OPEN_STATES, Structure, Stages, Stage
        <3>2. \A u \in Trade \ {t} : u \in Covered' => u \in Covered
            BY <2>2, <2>5 DEF Covered, Placed, Coming, Past
        <3> QED
            BY <3>1, <3>2 DEF Covered, Placed, Coming
    <2> QED
        BY <2>3, <2>4, <2>7, <2>8, <2>9 DEF RiskQuiet
<1>9. ASSUME NEW s \in Sender, Hear(s) PROVE RiskQuiet
    <2> DEFINE t == sender[s].trade
    <2>1. /\ sender[s].pc = "hear" /\ t \in Trade /\ row[t] = "PREPARED" /\ sender[s].ok /\ crashes' = crashes
        BY <1>0, <1>9 DEF Hear, Structure, Stages, Stage, TypeOK, SenderType, fails
    <2>2. /\ sender'[s].pc \in {"idle", "protect"}
          /\ \A r \in Sender \ {s} : sender'[r] = sender[r]
          /\ row'[t] \in {"REJECTED", "ACCEPTED"} /\ \A u \in Trade \ {t} : row'[u] = row[u]
        <3>1. CASE book[t] = "refused"
            BY <1>0, <1>9, <2>1, <3>1, Done DEF Hear, Idle
        <3>2. CASE book[t] # "refused"
            <4>1. sender' = [sender EXCEPT ![s].pc = "protect"] /\ "protect" \in PCs \ {"idle"}
                BY <1>9, <3>2 DEF Hear, PCs
            <4>2. row' = [row EXCEPT ![t] = "ACCEPTED"]
                BY <1>9, <3>2 DEF Hear
            <4>3. sender'[s].pc = "protect" /\ \A r \in Sender \ {s} : sender'[r] = sender[r]
                BY <1>0, <2>1, <4>1, Moved
            <4> QED
                BY <1>0, <2>1, <4>2, <4>3
        <3> QED
            BY <3>1, <3>2
    <2>3. Slots' \subseteq Slots
        BY <2>2 DEF Slots
    <2>4. Strays' \subseteq Strays
        BY <2>1, <2>2 DEF Strays, Slots, OPEN_STATES
    <2>5. Orphans' \subseteq Orphans
        BY <2>1, <2>2 DEF Orphans, Held
    <2>6. Covered' \subseteq Covered
        BY <2>1, <2>2 DEF Covered, Placed, Coming, Past, OPEN_STATES
    <2> QED
        BY <2>1, <2>3, <2>4, <2>5, <2>6 DEF RiskQuiet
<1>10. ASSUME UNCHANGED <<row, sender, crashes>> PROVE RiskQuiet
    BY <1>10 DEF RiskQuiet, Slots, Strays, Orphans, Held, Covered, Placed, Coming, Past
<1>11. ASSUME NEW t \in Trade, Resolve(t) PROVE RiskQuiet
    <2>1. /\ row[t] \in OPEN_STATES /\ row'[t] \in {"NEEDS_REVIEW", "RESOLVED_ABSENT", "RESOLVED_PLACED"}
          /\ \A u \in Trade \ {t} : row'[u] = row[u]
          /\ UNCHANGED <<sender, crashes>>
        BY <1>0, <1>11 DEF Resolve, TypeOK, OPEN_STATES, fails
    <2>2. Slots' = Slots /\ \A u \in Trade : (Held(u)' <=> Held(u)) /\ (Past(u, {"positions", "decide"})' <=> Past(u, {"positions", "decide"}))
        BY <2>1 DEF Slots, Held, Past
    <2>3. Strays' \subseteq Strays /\ Orphans' \subseteq Orphans
        BY <2>1, <2>2 DEF Strays, Orphans
    <2>4. Covered' \subseteq Covered
        BY <2>1, <2>2 DEF Covered, Placed, Coming
    <2> QED
        BY <2>1, <2>2, <2>3, <2>4 DEF RiskQuiet
<1>12. ASSUME NEW t \in Trade, Age(t) \/ Trading(t) PROVE RiskQuiet
    BY <1>10, <1>12 DEF Age, Trading, rows, fails
<1>13. ASSUME Move \/ UNCHANGED vars PROVE RiskQuiet
    BY <1>10, <1>13 DEF Move, rows, fails, vars
<1> QED
    BY <1>1, <1>2, <1>3, <1>4, <1>5, <1>6, <1>7, <1>8, <1>9, <1>11, <1>12, <1>13 DEF Next, SenderStep


\* A set has at the most one member more than another when they differ by one.
LEMMA OneMore ==
    ASSUME NEW S, IsFiniteSet(S), NEW x, NEW T \in SUBSET (S \cup {x})
    PROVE  IsFiniteSet(T) /\ Cardinality(T) \in Nat /\ Cardinality(T) <= Cardinality(S) + 1
<1>1. Cardinality(S) \in Nat
    BY FS_CardinalityType
<1>2. IsFiniteSet(S \cup {x})
    BY FS_AddElement
<1>3. Cardinality(S \cup {x}) = IF x \in S THEN Cardinality(S) ELSE Cardinality(S) + 1
    BY FS_AddElement
<1>4. IsFiniteSet(T) /\ Cardinality(T) <= Cardinality(S \cup {x})
    BY <1>2, FS_Subset
<1>5. Cardinality(T) \in Nat
    BY <1>4, FS_CardinalityType
<1> QED
    BY <1>1, <1>3, <1>4, <1>5

\* The room a crash makes for risk is no less after one more.
LEMMA MoreCrashes ==
    ASSUME Structure, crashes' \in Nat, crashes <= crashes', RiskOK,
           IsFiniteSet(OnRecord), Covered' \subseteq Covered
    PROVE  RiskOK'
<1>1. IsFiniteSet(Covered) /\ Cardinality(Sender) \in Nat \ {0}
    BY Countable
<1>2. Planned(Covered') \in Nat /\ Planned(Covered) \in Nat /\ Planned(Covered') <= Planned(Covered)
    BY <1>1, PlannedLess, PlannedType
<1> DEFINE before == Cardinality(Sender) - 1 + crashes
           after == Cardinality(Sender) - 1 + crashes'
<1>3. before \in Nat /\ after \in Nat /\ before <= after /\ MaxRisk \in Nat /\ Budget \in Nat
    BY <1>1, LimitsAssumption DEF Structure, TypeOK
<1>4. before * MaxRisk <= after * MaxRisk /\ before * MaxRisk \in Nat /\ after * MaxRisk \in Nat
    <2> HIDE DEF before, after
    <2> QED
        BY <1>3, LessTimes, TimesNat
<1>5. Planned(Covered) <= Budget + before * MaxRisk
    BY DEF RiskOK, Covered
<1>6. Planned(Covered') <= Budget + after * MaxRisk
    <2> HIDE DEF before, after
    <2> QED
        BY <1>2, <1>3, <1>4, <1>5
<1> QED
    BY <1>6 DEF RiskOK, Covered

\* A coroutine that loses its trade makes room among the coroutines for the open
\* row it leaves, and one that a crash leaves makes its own.
LEMMA LostRisk ==
    ASSUME Structure, IsFiniteSet(OnRecord), FewStrays, FewOrphans, RiskOK,
           NEW s \in Sender, HearNothing(s) \/ Crash(s)
    PROVE  FewStrays' /\ FewOrphans' /\ RiskOK'
<1> DEFINE t == sender[s].trade
<1>0. /\ TypeOK /\ sender \in [Sender -> SenderType] /\ row \in [Trade -> RowStatus] /\ t \in Trade
    BY DEF Structure, TypeOK, SenderType, RowStatus, HearNothing, Crash
<1>1. /\ sender'[s].pc \in {"idle", "watch"}
      /\ \A r \in Sender \ {s} : sender'[r] = sender[r]
    <2>1. CASE HearNothing(s)
        <3>1. sender' = [sender EXCEPT ![s].pc = "watch"] /\ sender[s].pc # "idle" /\ "watch" \in PCs \ {"idle"}
            BY <2>1 DEF HearNothing, PCs
        <3> QED
            BY <1>0, <3>1, Moved
    <2>2. CASE Crash(s)
        BY <1>0, <2>2, Done DEF Crash, Idle
    <2> QED
        BY <2>1, <2>2
<1>2. \A u \in Trade \ {t} : row'[u] = row[u]
    BY <1>0 DEF HearNothing, Crash, rows
<1>3. Slots' \subseteq Slots \ {s}
    BY <1>1 DEF Slots
<1>4. Strays' \subseteq Strays \cup {t}
    BY <1>1, <1>2 DEF Strays, Slots
<1>5. s \in Slots \/ Strays' \subseteq Strays
    <2> SUFFICES ASSUME s \notin Slots PROVE Strays' \subseteq Strays
        OBVIOUS
    <2>1. Crash(s) /\ row' = row
        BY DEF Slots, HearNothing, Crash, rows, Structure, Stages, Stage
    <2>2. Slots' = Slots
        BY <1>1, <1>3 DEF Slots
    <2>3. \A r \in Slots : sender'[r] = sender[r]
        BY <1>1 DEF Slots
    <2> QED
        BY <2>1, <2>2, <2>3 DEF Strays
<1>6. Orphans' \subseteq Orphans \cup {t}
    BY <1>1, <1>2 DEF Orphans, Held
<1>7. (crashes' = crashes /\ Orphans' \subseteq Orphans) \/ crashes' = crashes + 1
    <2>1. CASE HearNothing(s)
        <3>1. row'[t] = "UNKNOWN"
            BY <1>0, <2>1 DEF HearNothing
        <3> QED
            BY <1>6, <2>1, <3>1 DEF HearNothing, Orphans
    <2> QED
        BY <2>1 DEF Crash
<1>8. Covered' \subseteq Covered
    <2>1. \A u \in Trade : Past(u, {"positions", "decide"})' => Past(u, {"positions", "decide"})
        BY <1>1 DEF Past
    <2>2. row' = row \/ (row'[t] = "UNKNOWN" /\ row[t] = "PREPARED")
        BY <1>0 DEF HearNothing, Crash, rows, Structure, Stages, Stage
    <2> QED
        BY <1>2, <2>1, <2>2 DEF Covered, Placed, Coming, OPEN_STATES, LIVE_PLACED_STATUSES
<1>9. /\ IsFiniteSet(Slots) /\ IsFiniteSet(Strays) /\ IsFiniteSet(Orphans)
      /\ Cardinality(Slots) \in Nat /\ Cardinality(Strays) \in Nat /\ Cardinality(Orphans) \in Nat
      /\ Cardinality(Sender) \in Nat /\ crashes \in Nat
    BY Countable DEF Structure, TypeOK
<1>10. FewStrays'
    <2>1. CASE s \in Slots
        <3>1. IsFiniteSet(Slots \ {s}) /\ Cardinality(Slots \ {s}) = Cardinality(Slots) - 1
            BY <1>9, <2>1, FS_RemoveElement
        <3>3. Cardinality(Slots') <= Cardinality(Slots) - 1 /\ Cardinality(Slots') \in Nat
            BY <1>3, <3>1, FS_Subset, FS_CardinalityType
        <3>4. Cardinality(Strays') <= Cardinality(Strays) + 1 /\ Cardinality(Strays') \in Nat
            BY <1>4, <1>9, OneMore
        <3> QED
            BY <1>7, <1>9, <3>3, <3>4 DEF FewStrays
    <2>2. CASE s \notin Slots
        <3>1. Slots' \in SUBSET Slots /\ Strays' \in SUBSET Strays
            BY <1>3, <1>5, <2>2
        <3>2. Cardinality(Slots') <= Cardinality(Slots) /\ Cardinality(Slots') \in Nat
            BY <1>9, <3>1, FS_Subset, FS_CardinalityType
        <3>3. Cardinality(Strays') <= Cardinality(Strays) /\ Cardinality(Strays') \in Nat
            BY <1>9, <3>1, FS_Subset, FS_CardinalityType
        <3> QED
            BY <1>7, <1>9, <3>2, <3>3 DEF FewStrays
    <2> QED
        BY <2>1, <2>2
<1>11. FewOrphans'
    <2>1. CASE crashes' = crashes /\ Orphans' \subseteq Orphans
        <3>1. Cardinality(Orphans') <= Cardinality(Orphans) /\ Cardinality(Orphans') \in Nat
            BY <1>9, <2>1, FS_Subset, FS_CardinalityType
        <3> QED
            BY <1>9, <2>1, <3>1 DEF FewOrphans
    <2>2. CASE crashes' = crashes + 1
        <3>1. Cardinality(Orphans') <= Cardinality(Orphans) + 1 /\ Cardinality(Orphans') \in Nat
            BY <1>6, <1>9, OneMore
        <3> QED
            BY <1>9, <2>2, <3>1 DEF FewOrphans
    <2> QED
        BY <1>7, <2>1, <2>2
<1>12. RiskOK'
    <2>1. crashes' \in Nat /\ crashes <= crashes'
        BY <1>7, <1>9
    <2> QED
        BY <1>8, <2>1, MoreCrashes
<1> QED
    BY <1>10, <1>11, <1>12

\* A coroutine passes the gate when no row is open but those the others are
\* sending, and those a crash left.
LEMMA GateRisk ==
    ASSUME Structure, IsFiniteSet(OnRecord), FewOrphans, RiskOK, NEW s \in Sender, UnresolvedGate(s), ~Blocked
    PROVE  FewStrays' /\ FewOrphans' /\ RiskOK'
<1>0. /\ TypeOK /\ sender \in [Sender -> SenderType] /\ \A r \in Sender : sender[r] \in SenderType
    BY DEF Structure, TypeOK, SenderType
<1>a. (\E passes \in BOOLEAN : Check(s, "unresolved", "halt", passes)) /\ "halt" \in PCs \ {"idle"}
    BY Zenon DEF UnresolvedGate, PCs, Check
<1>b. PICK passes \in BOOLEAN : Check(s, "unresolved", "halt", passes)
    BY <1>a
<1>2. /\ sender'[s].pc = "halt" /\ sender'[s].trade = sender[s].trade /\ sender[s].trade \in Trade
      /\ sender[s].pc = "unresolved" /\ \A r \in Sender \ {s} : sender'[r] = sender[r]
    BY <1>0, <1>a, <1>b, Checked
<1>3. UNCHANGED <<row, crashes>> /\ row[sender[s].trade] = "none"
    BY <1>2 DEF UnresolvedGate, rows, fails, Structure, Stages, Stage
<1>4. Strays' \subseteq Orphans
    <2> SUFFICES ASSUME NEW u \in Strays' PROVE u \in Orphans
        OBVIOUS
    <2>1. u \in Trade /\ row[u] \in OPEN_STATES /\ \A r \in Slots' : sender'[r].trade # u
        BY <1>3 DEF Strays
    <2>2. row[u] = "PREPARED"
        BY <2>1 DEF Blocked, OPEN_STATES, BLOCKING_SUBMISSION_STATES
    <2>3. ASSUME NEW r \in Sender, sender[r].trade = u PROVE FALSE
        <3>1. r # s /\ sender'[r] = sender[r]
            BY <1>2, <1>3, <2>2, <2>3
        <3>2. sender[r].pc \in {"send", "hear"} /\ sender[r].ok
            <4>1. sender[r].pc \in PCs /\ sender[r].pc # "idle" /\ Stage(r)
                BY <1>0, <2>1, <2>3, LimitsAssumption DEF TypeOK, SenderType, Structure, Stages
            <4> QED
                BY <2>2, <2>3, <4>1 DEF Stage, PCs
        <3> QED
            BY <2>1, <2>3, <3>1, <3>2 DEF Slots
    <2> QED
        BY <2>1, <2>2, <2>3 DEF Orphans, Held
<1>5. Orphans' = Orphans
    <2>1. \A r \in Sender : sender'[r].trade = sender[r].trade
        BY <1>2
    <2> QED
        BY <1>3, <2>1 DEF Orphans, Held
<1>6. Covered' \subseteq Covered
    BY <1>2, <1>3 DEF Covered, Placed, Coming, Past
<1>7. /\ IsFiniteSet(Orphans) /\ Cardinality(Orphans) \in Nat
      /\ IsFiniteSet(Sender) /\ Cardinality(Sender) \in Nat /\ crashes \in Nat
    BY Countable DEF Structure, TypeOK
<1>8. FewStrays'
    <2>1. Cardinality(Strays') <= Cardinality(Orphans) /\ Cardinality(Strays') \in Nat
        BY <1>4, <1>7, FS_Subset, FS_CardinalityType
    <2>2. Slots' \in SUBSET Sender
        BY DEF Slots
    <2>3. Cardinality(Slots') <= Cardinality(Sender) /\ Cardinality(Slots') \in Nat
        BY <1>7, <2>2, FS_Subset, FS_CardinalityType
    <2> QED
        BY <1>3, <1>7, <2>1, <2>3 DEF FewStrays, FewOrphans
<1>9. FewOrphans'
    BY <1>3, <1>5 DEF FewOrphans
<1>10. RiskOK'
    <2>1. crashes' \in Nat /\ crashes <= crashes'
        BY <1>3, <1>7
    <2> QED
        BY <1>6, <2>1, MoreCrashes
<1> QED
    BY <1>8, <1>9, <1>10


\* Two sets have no more members together than each by itself.
LEMMA AtMostBoth ==
    ASSUME NEW S, IsFiniteSet(S), NEW T, IsFiniteSet(T)
    PROVE  /\ IsFiniteSet(S \cup T) /\ Cardinality(S \cup T) \in Nat
           /\ Cardinality(S \cup T) <= Cardinality(S) + Cardinality(T)
<1>1. IsFiniteSet(S \cup T) /\ IsFiniteSet(S \cap T)
    BY FS_Union, FS_Intersection
<1>2. Cardinality(S \cup T) = Cardinality(S) + Cardinality(T) - Cardinality(S \cap T)
    BY FS_Union
<1>3. Cardinality(S \cup T) \in Nat /\ Cardinality(S \cap T) \in Nat /\ Cardinality(S) \in Nat /\ Cardinality(T) \in Nat
    BY <1>1, FS_CardinalityType
<1> QED
    BY <1>1, <1>2, <1>3

\* When a coroutine is about to check the risk, fewer trades are on their way than
\* there are coroutines and crashes.
LEMMA FewComing ==
    ASSUME Structure, IsFiniteSet(OnRecord), FewStrays, NEW s \in Sender, s \in Slots, sender[s].pc = "allocation"
    PROVE  /\ IsFiniteSet(Coming) /\ Cardinality(Coming) \in Nat
           /\ Cardinality(Coming) <= Cardinality(Sender) - 1 + crashes
<1> DEFINE others == {u \in Trade : \E r \in Slots \ {s} : sender[r].trade = u}
<1>1. row[sender[s].trade] = "none"
    BY DEF Structure, Stages, Stage
<1>2. Coming \in SUBSET (Strays \cup others)
    <2> SUFFICES ASSUME NEW u \in Coming, u \notin Strays PROVE \E r \in Slots \ {s} : sender[r].trade = u
        BY DEF Coming
    <2>1. CASE row[u] \in OPEN_STATES
        <3>1. PICK r \in Slots : sender[r].trade = u
            BY <2>1 DEF Coming, Strays
        <3>2. r # s
            BY <1>1, <2>1, <3>1 DEF OPEN_STATES
        <3> QED
            BY <3>1, <3>2
    <2>2. CASE Past(u, {"positions", "decide"})
        <3>1. PICK r \in Sender : sender[r].trade = u /\ sender[r].ok /\ sender[r].pc \in {"positions", "decide"}
            BY <2>2 DEF Past
        <3>2. r \in Slots /\ r # s
            BY <3>1 DEF Slots
        <3> QED
            BY <3>1, <3>2
    <2> QED
        BY <2>1, <2>2 DEF Coming
<1>3. IsFiniteSet(others) /\ Cardinality(others) <= Cardinality(Slots \ {s}) /\ Cardinality(others) \in Nat
    <2>1. Slots \ {s} \in SUBSET Sender
        BY DEF Slots
    <2>2. \A u \in others : \E r \in Slots \ {s} : sender[r].trade = u
        OBVIOUS
    <2>3. IsFiniteSet(others) /\ Cardinality(others) <= Cardinality(Slots \ {s})
        BY <2>1, <2>2, OneEach
    <2> QED
        BY <2>3, FS_CardinalityType
<1>4. /\ IsFiniteSet(Slots) /\ Cardinality(Slots) \in Nat /\ IsFiniteSet(Strays) /\ Cardinality(Strays) \in Nat
      /\ Cardinality(Sender) \in Nat /\ crashes \in Nat
    BY Countable DEF Structure, TypeOK
<1>5. Cardinality(Slots \ {s}) = Cardinality(Slots) - 1
    BY <1>4, FS_RemoveElement
<1>6. /\ IsFiniteSet(Strays \cup others) /\ Cardinality(Strays \cup others) \in Nat
      /\ Cardinality(Strays \cup others) <= Cardinality(Strays) + Cardinality(others)
    BY <1>3, <1>4, AtMostBoth
<1>7. IsFiniteSet(Coming) /\ Cardinality(Coming) \in Nat /\ Cardinality(Coming) <= Cardinality(Strays \cup others)
    BY <1>2, <1>6, FS_Subset, FS_CardinalityType
<1> QED
    BY <1>3, <1>4, <1>5, <1>6, <1>7 DEF FewStrays

\* An entry passes the check on the risk: it fits what is on record, and what is
\* not on record is on its way with the other coroutines.
LEMMA AdmitRisk ==
    ASSUME Structure, IsFiniteSet(OnRecord), FewStrays, FewOrphans, RiskOK,
           NEW s \in Sender, AllocationCheck(s), Affordable(sender[s].trade)
    PROVE  FewStrays' /\ FewOrphans' /\ RiskOK'
<1> DEFINE t == sender[s].trade
<1>a. (\E passes \in BOOLEAN : Check(s, "allocation", "positions", passes)) /\ "positions" \in PCs \ {"idle"}
    BY Zenon DEF AllocationCheck, PCs, Check
<1>b. PICK passes \in BOOLEAN : Check(s, "allocation", "positions", passes)
    BY <1>a
<1>1. /\ sender'[s].pc = "positions" /\ sender'[s].trade = t /\ t \in Trade
      /\ (sender'[s].ok <=> sender[s].ok /\ passes)
      /\ sender[s].pc = "allocation" /\ \A r \in Sender \ {s} : sender'[r] = sender[r]
    BY <1>a, <1>b, Checked DEF Structure
<1>2. UNCHANGED <<row, crashes>> /\ row[t] = "none"
    BY <1>1 DEF AllocationCheck, rows, fails, Structure, Stages, Stage
<1>3. CASE ~sender'[s].ok
    <2>1. RiskQuiet
        BY <1>1, <1>2, <1>3, CheckQuiet
    <2> QED
        BY <2>1, QuietRisk
<1>4. CASE sender'[s].ok
    <2>1. s \in Slots /\ Slots' = Slots
        BY <1>1, <1>4 DEF Slots
    <2>2. \A r \in Sender : sender'[r].trade = sender[r].trade
        BY <1>1
    <2>3. Strays' = Strays
        BY <1>2, <2>1, <2>2 DEF Strays, Slots
    <2>4. Orphans' = Orphans
        BY <1>2, <2>2 DEF Orphans, Held
    <2>5. FewStrays' /\ FewOrphans'
        BY <1>2, <2>1, <2>3, <2>4 DEF FewStrays, FewOrphans
    <2>6. Covered' \in SUBSET ((Placed \cup {t}) \cup Coming)
        BY <1>1, <1>2 DEF Covered, Placed, Coming, Past
    <2>7. /\ IsFiniteSet(Coming) /\ Cardinality(Coming) \in Nat
          /\ Cardinality(Coming) <= Cardinality(Sender) - 1 + crashes
        BY <1>1, <2>1, FewComing
    <2>8. IsFiniteSet(Placed)
        <3>1. Placed \in SUBSET OnRecord
            BY DEF Placed, OnRecord, LIVE_PLACED_STATUSES
        <3> QED
            BY <3>1, FS_Subset
    <2>9. IsFiniteSet({t}) /\ IsFiniteSet(Placed \cup {t}) /\ IsFiniteSet((Placed \cup {t}) \cup Coming)
        <3>1. IsFiniteSet({t})
            BY FS_Singleton
        <3>2. IsFiniteSet(Placed \cup {t})
            BY <2>8, <3>1, FS_Union
        <3> QED
            BY <2>7, <3>1, <3>2, FS_Union
    <2> DEFINE n == Cardinality(Sender) - 1 + crashes
    <2>10. n \in Nat /\ Cardinality(Coming) <= n /\ n * MaxRisk \in Nat
        <3>1. n \in Nat
            BY Countable DEF Structure, TypeOK
        <3> QED
            BY <2>7, <3>1, TimesNat, LimitsAssumption
    <2>11. Planned(Covered') <= Planned((Placed \cup {t}) \cup Coming) /\ IsFiniteSet(Covered')
        BY <2>6, <2>9, PlannedLess
    <2>12. Planned((Placed \cup {t}) \cup Coming) <= Planned(Placed \cup {t}) + Planned(Coming)
        BY <2>7, <2>9, PlannedTogether
    <2>13. Planned(Placed \cup {t}) <= Planned(Placed) + Planned({t})
        BY <2>8, <2>9, PlannedTogether
    <2>14. Planned({t}) <= Risk[t] /\ Risk[t] \in Nat
        BY <1>1, PlannedOne, LimitsAssumption
    <2>15. Planned(Coming) <= n * MaxRisk
        <3> HIDE DEF n
        <3> QED
            BY <2>7, <2>10, PlannedMany
    <2>16. Planned(Placed) + Risk[t] <= Budget /\ Budget \in Nat
        BY LimitsAssumption DEF Affordable, Allocated
    <2>17. /\ Planned(Covered') \in Nat /\ Planned((Placed \cup {t}) \cup Coming) \in Nat
           /\ Planned(Placed \cup {t}) \in Nat /\ Planned(Placed) \in Nat
           /\ Planned({t}) \in Nat /\ Planned(Coming) \in Nat
        BY <2>7, <2>8, <2>9, <2>11, PlannedType
    <2>18. Planned(Covered') <= Budget + n * MaxRisk
        <3> HIDE DEF n, t
        <3> QED
            BY <2>10, <2>11, <2>12, <2>13, <2>14, <2>15, <2>16, <2>17
    <2>19. RiskOK'
        BY <1>2, <2>18 DEF RiskOK, Covered
    <2> QED
        BY <2>5, <2>19
<1> QED
    BY <1>3, <1>4

\* Every step keeps what is counted of the risk.
LEMMA StepRisk ==
    ASSUME Structure, IsFiniteSet(OnRecord), FewStrays, FewOrphans, RiskOK, [Next]_vars
    PROVE  FewStrays' /\ FewOrphans' /\ RiskOK'
<1>1. CASE RiskQuiet
    BY <1>1, QuietRisk
<1>2. CASE \E s \in Sender : UnresolvedGate(s) /\ ~Blocked
    BY <1>2, GateRisk
<1>3. CASE \E s \in Sender : AllocationCheck(s) /\ Affordable(sender[s].trade)
    BY <1>3, AdmitRisk
<1>4. CASE \E s \in Sender : HearNothing(s) \/ Crash(s)
    BY <1>4, LostRisk
<1> QED
    BY <1>1, <1>2, <1>3, <1>4, RiskSteps


\* Of the positions: steps that let nothing in, and leave nothing at the broker.
BookQuiet ==
    /\ Adrift' \subseteq Adrift
    /\ Claims' \subseteq Claims
    /\ faults' \in Nat /\ crashes' \in Nat /\ faults + crashes <= faults' + crashes'

\* They keep what is counted of the positions.
LEMMA QuietBook ==
    ASSUME Structure, IsFiniteSet(OnRecord), FewAdrift, SlotsOK, BookQuiet
    PROVE  FewAdrift' /\ SlotsOK'
<1>1. /\ Cardinality(Adrift') <= Cardinality(Adrift) /\ Cardinality(Adrift') \in Nat
      /\ Cardinality(Claims') <= Cardinality(Claims) /\ Cardinality(Claims') \in Nat
    BY Countable, FS_Subset, FS_CardinalityType DEF BookQuiet
<1>2. /\ Cardinality(Adrift) \in Nat /\ Cardinality(Claims) \in Nat /\ Cardinality(Sender) \in Nat
      /\ faults \in Nat /\ crashes \in Nat /\ faults' \in Nat /\ crashes' \in Nat
      /\ faults + crashes <= faults' + crashes' /\ MaxOpen \in Nat
    BY Countable, LimitsAssumption DEF Structure, TypeOK, BookQuiet
<1>3. FewAdrift'
    <2>1. Cardinality(Adrift) <= faults + crashes
        BY DEF FewAdrift
    <2>2. Cardinality(Adrift') <= faults' + crashes'
        <3> DEFINE a == Cardinality(Adrift')
                   b == Cardinality(Adrift)
                   f == faults'
                   c == crashes'
        <3>1. a \in Nat /\ b \in Nat /\ f \in Nat /\ c \in Nat /\ a <= b /\ b <= faults + crashes
              /\ faults + crashes <= f + c
            BY <1>1, <1>2, <2>1
        <3>2. a <= f + c
            <4> HIDE DEF a, b, f, c
            <4> QED
                BY <1>2, <3>1
        <3> QED
            BY <3>2
    <2> QED
        BY <2>2 DEF FewAdrift
<1>4. Cardinality(Claims) <= MaxOpen + Cardinality(Sender) - 1 + faults + crashes
    BY DEF SlotsOK, Claims
<1>5. Cardinality(Claims') <= MaxOpen + Cardinality(Sender) - 1 + faults' + crashes'
    <2> DEFINE a == Cardinality(Claims')
               b == Cardinality(Claims)
               n == Cardinality(Sender)
               f == faults'
               c == crashes'
    <2>1. /\ a \in Nat /\ b \in Nat /\ n \in Nat /\ f \in Nat /\ c \in Nat /\ a <= b
          /\ b <= MaxOpen + n - 1 + faults + crashes /\ faults + crashes <= f + c
        BY <1>1, <1>2, <1>4
    <2>2. a <= MaxOpen + n - 1 + f + c
        <3> HIDE DEF a, b, n, f, c
        <3> QED
            BY <1>2, <2>1
    <2> QED
        BY <2>2
<1> QED
    BY <1>3, <1>5 DEF SlotsOK, Claims

\* A check that lets its coroutine on, or not, short of the one on the positions.
LEMMA CheckBook ==
    ASSUME Structure, NEW s \in Sender, UNCHANGED <<row, book, crashes, faults>>,
           sender'[s].trade = sender[s].trade, sender[s].trade \in Trade, row[sender[s].trade] = "none",
           \A r \in Sender \ {s} : sender'[r] = sender[r],
           sender'[s].pc \notin {"decide", "send"} \/ ~sender'[s].ok
    PROVE  BookQuiet
<1>1. book[sender[s].trade] = "none"
    BY DEF Structure, TypeOK
<1>2. Adrift' \subseteq Adrift
    BY <1>1 DEF Adrift
<1>3. Claims' \subseteq Claims
    BY DEF Claims, Open, Arriving, Past
<1>4. faults' \in Nat /\ crashes' \in Nat /\ faults + crashes <= faults' + crashes'
    BY DEF Structure, TypeOK
<1> QED
    BY <1>2, <1>3, <1>4 DEF BookQuiet

\* Every step is quiet but these: an entry passes the check on the positions, an
\* answer is lost, an entry cannot be withdrawn, a process dies.
LEMMA BookSteps ==
    ASSUME Structure, [Next]_vars
    PROVE  \/ BookQuiet
           \/ \E s \in Sender : \/ PositionCheck(s) /\ sender'[s].ok
                                \/ HearNothing(s) \/ ProtectFails(s) \/ Crash(s)
<1> USE LimitsAssumption
<1>0. /\ TypeOK /\ sender \in [Sender -> SenderType] /\ row \in [Trade -> RowStatus] /\ book \in [Trade -> BookState]
      /\ \A s \in Sender : sender[s] \in SenderType
      /\ crashes \in Nat /\ faults \in Nat
    BY DEF Structure, TypeOK, SenderType, RowStatus, BookState
<1>1. ASSUME NEW s \in Sender, NEW t \in Trade, Begin(s, t) PROVE BookQuiet
    <2>1. /\ sender'[s] = [pc |-> "unresolved", trade |-> t, ok |-> TRUE]
          /\ \A r \in Sender \ {s} : sender'[r] = sender[r]
        BY <1>0, <1>1 DEF Begin, Idle, SenderType
    <2>2. /\ book[t] = "none" /\ sender[s].trade = NoTrade /\ UNCHANGED <<book, crashes, faults>>
        BY <1>0, <1>1 DEF Begin, fails, TypeOK
    <2>3. Adrift' \subseteq Adrift
        BY <2>1, <2>2 DEF Adrift
    <2>4. Claims' \subseteq Claims
        BY <2>1, <2>2 DEF Claims, Open, Arriving, Past
    <2> QED
        BY <1>0, <2>2, <2>3, <2>4 DEF BookQuiet
<1>2. ASSUME NEW s \in Sender, UnresolvedGate(s) PROVE BookQuiet
    <2>1. (\E passes \in BOOLEAN : Check(s, "unresolved", "halt", passes)) /\ "halt" \in PCs \ {"idle"}
        BY <1>2, Zenon DEF UnresolvedGate, Check, PCs
    <2>2. PICK passes \in BOOLEAN : Check(s, "unresolved", "halt", passes)
        BY <2>1
    <2>3. /\ sender'[s].pc = "halt" /\ sender'[s].trade = sender[s].trade /\ sender[s].trade \in Trade
          /\ sender[s].pc = "unresolved" /\ \A r \in Sender \ {s} : sender'[r] = sender[r]
        BY <1>0, <2>1, <2>2, Checked
    <2>4. UNCHANGED <<row, book, crashes, faults>> /\ row[sender[s].trade] = "none"
        BY <1>2, <2>3 DEF UnresolvedGate, rows, fails, Structure, Stages, Stage
    <2> QED
        BY <1>2, <2>3, <2>4, CheckBook
<1>3. ASSUME NEW s \in Sender, ReadHalt(s) PROVE BookQuiet
    <2> DEFINE next == IF ExistingHalt THEN "allocation" ELSE "pnl"
    <2>1. PICK passes \in BOOLEAN : Check(s, "halt", next, passes)
        BY <1>3, Zenon DEF ReadHalt, Check
    <2>2. next \in PCs \ {"idle", "decide", "send"}
        BY DEF PCs
    <2>3. /\ sender'[s].pc = next /\ sender'[s].trade = sender[s].trade /\ sender[s].trade \in Trade
          /\ sender[s].pc = "halt" /\ \A r \in Sender \ {s} : sender'[r] = sender[r]
        <3> HIDE DEF next
        <3> QED
            BY <1>0, <2>1, <2>2, Checked
    <2>4. UNCHANGED <<row, book, crashes, faults>> /\ row[sender[s].trade] = "none"
        BY <1>3, <2>3 DEF ReadHalt, rows, fails, Structure, Stages, Stage
    <2> QED
        BY <1>3, <2>2, <2>3, <2>4, CheckBook
<1>4. ASSUME NEW s \in Sender, JudgeDay(s) PROVE BookQuiet
    <2>1. (\E passes \in BOOLEAN : Check(s, "pnl", "allocation", passes)) /\ "allocation" \in PCs \ {"idle"}
        BY <1>4, Zenon DEF JudgeDay, Check, PCs
    <2>2. PICK passes \in BOOLEAN : Check(s, "pnl", "allocation", passes)
        BY <2>1
    <2>3. /\ sender'[s].pc = "allocation" /\ sender'[s].trade = sender[s].trade /\ sender[s].trade \in Trade
          /\ sender[s].pc = "pnl" /\ \A r \in Sender \ {s} : sender'[r] = sender[r]
        BY <1>0, <2>1, <2>2, Checked
    <2>4. UNCHANGED <<row, book, crashes, faults>> /\ row[sender[s].trade] = "none"
        BY <1>4, <2>3 DEF JudgeDay, rows, fails, Structure, Stages, Stage
    <2> QED
        BY <1>4, <2>3, <2>4, CheckBook
<1>5. ASSUME NEW s \in Sender, AllocationCheck(s) PROVE BookQuiet
    <2>1. (\E passes \in BOOLEAN : Check(s, "allocation", "positions", passes)) /\ "positions" \in PCs \ {"idle"}
        BY <1>5, Zenon DEF AllocationCheck, Check, PCs
    <2>2. PICK passes \in BOOLEAN : Check(s, "allocation", "positions", passes)
        BY <2>1
    <2>3. /\ sender'[s].pc = "positions" /\ sender'[s].trade = sender[s].trade /\ sender[s].trade \in Trade
          /\ sender[s].pc = "allocation" /\ \A r \in Sender \ {s} : sender'[r] = sender[r]
        BY <1>0, <2>1, <2>2, Checked
    <2>4. UNCHANGED <<row, book, crashes, faults>> /\ row[sender[s].trade] = "none"
        BY <1>5, <2>3 DEF AllocationCheck, rows, fails, Structure, Stages, Stage
    <2> QED
        BY <1>5, <2>3, <2>4, CheckBook
<1>6. ASSUME NEW s \in Sender, PositionCheck(s), ~sender'[s].ok PROVE BookQuiet
    <2>1. (\E passes \in BOOLEAN : Check(s, "positions", "decide", passes)) /\ "decide" \in PCs \ {"idle"}
        BY <1>6, Zenon DEF PositionCheck, Check, PCs
    <2>2. PICK passes \in BOOLEAN : Check(s, "positions", "decide", passes)
        BY <2>1
    <2>3. /\ sender'[s].pc = "decide" /\ sender'[s].trade = sender[s].trade /\ sender[s].trade \in Trade
          /\ sender[s].pc = "positions" /\ \A r \in Sender \ {s} : sender'[r] = sender[r]
        BY <1>0, <2>1, <2>2, Checked
    <2>4. UNCHANGED <<row, book, crashes, faults>> /\ row[sender[s].trade] = "none"
        BY <1>6, <2>3 DEF PositionCheck, rows, fails, Structure, Stages, Stage
    <2> QED
        BY <1>6, <2>3, <2>4, CheckBook
<1>7. ASSUME NEW s \in Sender, Refuse(s) \/ Watch(s) PROVE BookQuiet
    <2> DEFINE t == sender[s].trade
    <2>1. /\ sender'[s] = Idle /\ \A r \in Sender \ {s} : sender'[r] = sender[r]
          /\ UNCHANGED <<book, crashes, faults>> /\ t \in Trade
        <3>1. sender'[s] = Idle /\ \A r \in Sender \ {s} : sender'[r] = sender[r]
            BY <1>0, <1>7, Done DEF Refuse, Watch
        <3>2. UNCHANGED <<book, crashes, faults>> /\ t \in Trade
            BY <1>0, <1>7 DEF Refuse, Watch, fails, TypeOK, SenderType
        <3> QED
            BY <3>1, <3>2
    <2>2. book[t] = "none" \/ sender[s].pc = "watch"
        BY <1>0, <1>7, <2>1 DEF Refuse, Watch, Structure, Stages, Stage, TypeOK
    <2>3. Adrift' \subseteq Adrift
        BY <2>1, <2>2 DEF Adrift
    <2>4. Claims' \subseteq Claims
        BY <2>1 DEF Claims, Open, Arriving, Past, Idle
    <2> QED
        BY <1>0, <2>1, <2>3, <2>4 DEF BookQuiet
<1>8. ASSUME NEW s \in Sender, WriteAhead(s) \/ Transmit(s) PROVE BookQuiet
    <2> DEFINE t == sender[s].trade
    <2>1. PICK next \in {"send", "hear"} :
             /\ sender' = [sender EXCEPT ![s].pc = next]
             /\ sender[s].pc = IF next = "send" THEN "decide" ELSE "send"
        BY <1>8 DEF WriteAhead, Transmit
    <2>2. /\ sender'[s].pc \in {"send", "hear"} /\ sender'[s].trade = t /\ t \in Trade /\ sender'[s].ok = sender[s].ok
          /\ \A r \in Sender \ {s} : sender'[r] = sender[r]
        <3>1. sender[s].pc # "idle" /\ next \in PCs \ {"idle"}
            BY <2>1 DEF PCs
        <3> QED
            BY <1>0, <2>1, <3>1, Moved
    <2>3. /\ sender[s].ok /\ UNCHANGED <<crashes, faults>> /\ book[t] = "none"
          /\ \A u \in Trade \ {t} : book'[u] = book[u]
          /\ book'[t] \in {"none", "resting", "refused"}
        BY <1>0, <1>8, <2>2 DEF WriteAhead, Transmit, fails, Structure, Stages, Stage, TypeOK
    <2>4. t \in Claims
        BY <2>1, <2>2, <2>3 DEF Claims, Arriving, Past
    <2>5. Adrift' \subseteq Adrift
        BY <2>2, <2>3 DEF Adrift
    <2>6. Claims' \subseteq Claims
        <3>1. \A u \in Trade \ {t} : u \in Claims' => u \in Claims
            BY <2>2, <2>3 DEF Claims, Open, Arriving, Past
        <3> QED
            BY <2>4, <3>1 DEF Claims, Open, Arriving
    <2> QED
        BY <1>0, <2>3, <2>5, <2>6 DEF BookQuiet
<1>9. ASSUME NEW s \in Sender, Hear(s) PROVE BookQuiet
    <2> DEFINE t == sender[s].trade
    <2>1. /\ sender[s].pc = "hear" /\ t \in Trade /\ UNCHANGED <<book, crashes, faults>>
        BY <1>0, <1>9 DEF Hear, TypeOK, SenderType, fails
    <2>2. /\ \A r \in Sender \ {s} : sender'[r] = sender[r]
          /\ \/ book[t] = "refused" /\ sender'[s] = Idle
             \/ sender'[s].pc = "protect" /\ sender'[s].trade = t
        <3>1. CASE book[t] = "refused"
            BY <1>0, <1>9, <2>1, <3>1, Done DEF Hear
        <3>2. CASE book[t] # "refused"
            <4>1. sender' = [sender EXCEPT ![s].pc = "protect"] /\ "protect" \in PCs \ {"idle"}
                BY <1>9, <3>2 DEF Hear, PCs
            <4> QED
                BY <1>0, <2>1, <4>1, Moved
        <3> QED
            BY <3>1, <3>2
    <2>3. Adrift' \subseteq Adrift
        BY <2>1, <2>2 DEF Adrift
    <2>4. Claims' \subseteq Claims
        BY <2>1, <2>2 DEF Claims, Open, Arriving, Past, Idle
    <2> QED
        BY <1>0, <2>1, <2>3, <2>4 DEF BookQuiet
<1>10. ASSUME NEW s \in Sender, Protect(s) PROVE BookQuiet
    <2> DEFINE t == sender[s].trade
    <2>1. /\ sender'[s] = Idle /\ (\A r \in Sender \ {s} : sender'[r] = sender[r])
        BY <1>0, <1>10, Done DEF Protect
    <2>2. /\ t \in Trade /\ UNCHANGED <<crashes, faults>>
          /\ \A u \in Trade \ {t} : book'[u] = book[u]
          /\ IF book[t] = "resting" THEN book'[t] = "withdrawn" ELSE book'[t] = book[t]
        BY <1>0, <1>10 DEF Protect, TypeOK, SenderType, fails
    <2>3. Adrift' \subseteq Adrift
        BY <2>1, <2>2 DEF Adrift
    <2>4. Claims' \subseteq Claims
        BY <2>1, <2>2 DEF Claims, Open, Arriving, Past, Idle
    <2> QED
        BY <1>0, <2>2, <2>3, <2>4 DEF BookQuiet
<1>11. ASSUME UNCHANGED <<book, sender, crashes, faults>> PROVE BookQuiet
    BY <1>0, <1>11 DEF BookQuiet, Adrift, Claims, Open, Arriving, Past
<1>12. ASSUME NEW t \in Trade, Trading(t) PROVE BookQuiet
    <2>1. /\ UNCHANGED <<sender, crashes, faults>> /\ book[t] \in {"resting", "open"} /\ book'[t] \in {"open", "closed"}
          /\ \A u \in Trade \ {t} : book'[u] = book[u]
        BY <1>0, <1>12 DEF Trading, fails
    <2>2. Adrift' \subseteq Adrift
        BY <2>1 DEF Adrift
    <2>3. Claims' \subseteq Claims
        BY <2>1 DEF Claims, Open, Arriving, Past
    <2> QED
        BY <1>0, <2>1, <2>2, <2>3 DEF BookQuiet
<1>13. ASSUME NEW t \in Trade, Age(t) \/ Resolve(t) PROVE BookQuiet
    BY <1>11, <1>13 DEF Age, Resolve, fails
<1>14. ASSUME Move \/ UNCHANGED vars PROVE BookQuiet
    BY <1>11, <1>14 DEF Move, fails, vars
<1> QED
    BY <1>1, <1>2, <1>3, <1>4, <1>5, <1>6, <1>7, <1>8, <1>9, <1>10, <1>12, <1>13, <1>14 DEF Next, SenderStep


\* A fault or a crash leaves at the most one order more at the broker.
LEMMA LostBook ==
    ASSUME Structure, IsFiniteSet(OnRecord), FewAdrift, SlotsOK,
           NEW s \in Sender, HearNothing(s) \/ ProtectFails(s) \/ Crash(s)
    PROVE  FewAdrift' /\ SlotsOK'
<1> DEFINE t == sender[s].trade
<1>0. /\ TypeOK /\ sender \in [Sender -> SenderType] /\ t \in Trade
      /\ crashes \in Nat /\ faults \in Nat
    BY DEF Structure, TypeOK, SenderType, HearNothing, ProtectFails, Crash
<1>1. /\ sender'[s].pc \in {"idle", "watch"} /\ \A r \in Sender \ {s} : sender'[r] = sender[r]
    <2>1. CASE HearNothing(s)
        <3>1. sender' = [sender EXCEPT ![s].pc = "watch"] /\ sender[s].pc # "idle" /\ "watch" \in PCs \ {"idle"}
            BY <2>1 DEF HearNothing, PCs
        <3> QED
            BY <1>0, <3>1, Moved
    <2>2. CASE ProtectFails(s) \/ Crash(s)
        BY <1>0, <2>2, Done DEF ProtectFails, Crash, Idle
    <2> QED
        BY <2>1, <2>2
<1>2. /\ book' = book /\ crashes' \in Nat /\ faults' \in Nat
      /\ faults' + crashes' = faults + crashes + 1
    BY <1>0 DEF HearNothing, ProtectFails, Crash
<1>3. Adrift' \subseteq Adrift \cup {t}
    BY <1>1, <1>2 DEF Adrift
<1>4. Claims' \subseteq Claims
    BY <1>1, <1>2 DEF Claims, Open, Arriving, Past
<1>5. SlotsOK'
    <2> DEFINE a == Cardinality(Claims')
               b == Cardinality(Claims)
               n == Cardinality(Sender)
               f == faults'
               c == crashes'
    <2>1. a \in Nat /\ b \in Nat /\ n \in Nat /\ a <= b /\ MaxOpen \in Nat
        BY <1>4, Countable, FS_Subset, FS_CardinalityType, LimitsAssumption
    <2>2. b <= MaxOpen + n - 1 + faults + crashes
        BY DEF SlotsOK, Claims
    <2>3. f \in Nat /\ c \in Nat /\ f + c = faults + crashes + 1
        BY <1>2
    <2>4. a <= MaxOpen + n - 1 + f + c
        <3> HIDE DEF a, b, n, f, c
        <3> QED
            BY <1>0, <2>1, <2>2, <2>3
    <2> QED
        BY <2>4 DEF SlotsOK, Claims
<1>6. FewAdrift'
    <2> DEFINE a == Cardinality(Adrift')
               b == Cardinality(Adrift)
               f == faults'
               c == crashes'
    <2>1. a \in Nat /\ b \in Nat /\ a <= b + 1
        BY <1>3, Countable, OneMore
    <2>2. b <= faults + crashes
        BY DEF FewAdrift
    <2>3. f \in Nat /\ c \in Nat /\ f + c = faults + crashes + 1
        BY <1>2
    <2>4. a <= f + c
        <3> HIDE DEF a, b, f, c
        <3> QED
            BY <1>0, <2>1, <2>2, <2>3
    <2> QED
        BY <2>4 DEF FewAdrift
<1> QED
    BY <1>5, <1>6

\* When a coroutine is about to check the positions, fewer trades are on their
\* way to one than there are coroutines, faults and crashes.
LEMMA FewArriving ==
    ASSUME Structure, IsFiniteSet(OnRecord), FewAdrift, NEW s \in Sender, sender[s].pc = "positions"
    PROVE  /\ IsFiniteSet(Arriving) /\ Cardinality(Arriving) \in Nat
           /\ Cardinality(Arriving) <= Cardinality(Sender) - 1 + faults + crashes
<1> DEFINE others == {u \in Trade : \E r \in Sender \ {s} : sender[r].trade = u}
<1>1. sender[s].trade \in Trade /\ book[sender[s].trade] = "none"
    BY DEF Structure, Stages, Stage, TypeOK
<1>2. Arriving \in SUBSET (Adrift \cup others)
    <2> SUFFICES ASSUME NEW u \in Arriving, u \notin Adrift PROVE \E r \in Sender \ {s} : sender[r].trade = u
        BY DEF Arriving
    <2>1. CASE book[u] = "resting"
        <3>1. PICK r \in Sender : sender[r].trade = u
            BY <2>1 DEF Arriving, Adrift
        <3>2. r # s
            BY <1>1, <2>1, <3>1
        <3> QED
            BY <3>1, <3>2
    <2>2. CASE Past(u, {"decide", "send"})
        BY <2>2 DEF Past
    <2> QED
        BY <2>1, <2>2 DEF Arriving
<1>3. IsFiniteSet(others) /\ Cardinality(others) <= Cardinality(Sender \ {s}) /\ Cardinality(others) \in Nat
    <2>1. \A u \in others : \E r \in Sender \ {s} : sender[r].trade = u
        OBVIOUS
    <2>2. IsFiniteSet(others) /\ Cardinality(others) <= Cardinality(Sender \ {s})
        BY <2>1, OneEach
    <2> QED
        BY <2>2, FS_CardinalityType
<1>4. /\ IsFiniteSet(Adrift) /\ Cardinality(Adrift) \in Nat
      /\ IsFiniteSet(Sender) /\ Cardinality(Sender) \in Nat /\ crashes \in Nat /\ faults \in Nat
    BY Countable DEF Structure, TypeOK
<1>5. Cardinality(Sender \ {s}) = Cardinality(Sender) - 1
    BY <1>4, FS_RemoveElement
<1>6. /\ IsFiniteSet(Adrift \cup others) /\ Cardinality(Adrift \cup others) \in Nat
      /\ Cardinality(Adrift \cup others) <= Cardinality(Adrift) + Cardinality(others)
    BY <1>3, <1>4, AtMostBoth
<1>7. IsFiniteSet(Arriving) /\ Cardinality(Arriving) \in Nat
      /\ Cardinality(Arriving) <= Cardinality(Adrift \cup others)
    BY <1>2, <1>6, FS_Subset, FS_CardinalityType
<1> QED
    BY <1>3, <1>4, <1>5, <1>6, <1>7 DEF FewAdrift

\* An entry passes the check on the positions: there is room in the account, and
\* what is on its way to it is with the other coroutines, or was left.
LEMMA AdmitPosition ==
    ASSUME Structure, IsFiniteSet(OnRecord), FewAdrift, SlotsOK,
           NEW s \in Sender, PositionCheck(s), sender'[s].ok
    PROVE  FewAdrift' /\ SlotsOK'
<1> DEFINE t == sender[s].trade
<1>0. "decide" \in PCs \ {"idle"} /\ TypeOK
    BY DEF PCs, Structure
<1>1. PICK readable \in BOOLEAN : Check(s, "positions", "decide", readable /\ Room)
    BY DEF PositionCheck
<1>2. (readable /\ Room) \in BOOLEAN
    BY Zenon DEF Room
<1>3. /\ sender'[s].pc = "decide" /\ sender'[s].trade = t /\ t \in Trade
      /\ (sender'[s].ok <=> sender[s].ok /\ (readable /\ Room))
      /\ sender[s].pc = "positions" /\ \A r \in Sender \ {s} : sender'[r] = sender[r]
    <2> DEFINE passes == readable /\ Room
    <2>1. passes \in BOOLEAN /\ Check(s, "positions", "decide", passes)
        BY <1>1, <1>2
    <2>2. /\ sender'[s].pc = "decide" /\ sender'[s].trade = t /\ t \in Trade
          /\ (sender'[s].ok <=> sender[s].ok /\ passes)
          /\ sender[s].pc = "positions" /\ \A r \in Sender \ {s} : sender'[r] = sender[r]
        <3> HIDE DEF passes
        <3> QED
            BY <1>0, <2>1, Checked
    <2> QED
        BY <2>2
<1>4. Room
    BY <1>3
<1>5. UNCHANGED <<book, crashes, faults>> /\ book[t] = "none"
    BY <1>3 DEF PositionCheck, fails, Structure, Stages, Stage, TypeOK
<1>6. Adrift' = Adrift
    BY <1>3, <1>5 DEF Adrift
<1>7. Claims' \in SUBSET ((Open \cup Arriving) \cup {t})
    BY <1>3, <1>5 DEF Claims, Open, Arriving, Past
<1>8. /\ IsFiniteSet(Arriving) /\ Cardinality(Arriving) \in Nat
      /\ Cardinality(Arriving) <= Cardinality(Sender) - 1 + faults + crashes
    BY <1>3, FewArriving
<1>9. IsFiniteSet(Open) /\ Cardinality(Open) \in Nat
    <2>1. Open \in SUBSET OnRecord
        BY DEF Open, OnRecord, Structure, TypeOK
    <2> QED
        BY <2>1, FS_Subset, FS_CardinalityType
<1>10. /\ IsFiniteSet(Open \cup Arriving) /\ Cardinality(Open \cup Arriving) \in Nat
       /\ Cardinality(Open \cup Arriving) <= Cardinality(Open) + Cardinality(Arriving)
    BY <1>8, <1>9, AtMostBoth
<1>11. Cardinality(Claims') \in Nat /\ Cardinality(Claims') <= Cardinality(Open \cup Arriving) + 1
    BY <1>7, <1>10, OneMore
<1>12. Cardinality(Claims') <= MaxOpen + Cardinality(Sender) - 1 + faults + crashes
    <2> DEFINE a == Cardinality(Claims')
               b == Cardinality(Open \cup Arriving)
               o == Cardinality(Open)
               v == Cardinality(Arriving)
               n == Cardinality(Sender)
    <2>1. /\ a \in Nat /\ b \in Nat /\ o \in Nat /\ v \in Nat /\ a <= b + 1 /\ b <= o + v
          /\ v <= n - 1 + faults + crashes /\ o < MaxOpen
        BY <1>4, <1>8, <1>9, <1>10, <1>11 DEF Room
    <2>2. n \in Nat /\ MaxOpen \in Nat /\ faults \in Nat /\ crashes \in Nat
        BY Countable, LimitsAssumption DEF Structure, TypeOK
    <2>3. a <= MaxOpen + n - 1 + faults + crashes
        <3> HIDE DEF a, b, o, v, n
        <3> QED
            BY <2>1, <2>2
    <2> QED
        BY <2>3
<1> QED
    BY <1>5, <1>6, <1>12 DEF FewAdrift, SlotsOK, Claims

\* Every step keeps what is counted of the positions.
LEMMA StepBook ==
    ASSUME Structure, IsFiniteSet(OnRecord), FewAdrift, SlotsOK, [Next]_vars
    PROVE  FewAdrift' /\ SlotsOK'
<1>1. CASE BookQuiet
    BY <1>1, QuietBook
<1>2. CASE \E s \in Sender : PositionCheck(s) /\ sender'[s].ok
    BY <1>2, AdmitPosition
<1>3. CASE \E s \in Sender : HearNothing(s) \/ ProtectFails(s) \/ Crash(s)
    BY <1>3, LostBook
<1> QED
    BY <1>1, <1>2, <1>3, BookSteps


\* Once the day has halted nobody new gets past the check on it, the coroutine
\* that halts it stays behind, and one that writes its row is past no longer.
LEMMA HaltSteps ==
    ASSUME Structure, [Next]_vars
    PROVE  \/ halt' = halt /\ late' = late /\ (halt => Ahead' \subseteq Ahead)
           \/ \E s \in Sender : halt' /\ ~halt /\ late' = late /\ s \notin Ahead'
           \/ \E s \in Sender : /\ halt' = halt /\ late' = IF halt THEN late + 1 ELSE late
                                /\ s \in Ahead /\ Ahead' \subseteq Ahead \ {s}
<1> USE LimitsAssumption
<1> DEFINE Quiet == halt' = halt /\ late' = late /\ (halt => Ahead' \subseteq Ahead)
           Halts == \E s \in Sender : halt' /\ ~halt /\ late' = late /\ s \notin Ahead'
           Writes == \E s \in Sender : /\ halt' = halt /\ late' = IF halt THEN late + 1 ELSE late
                                       /\ s \in Ahead /\ Ahead' \subseteq Ahead \ {s}
<1>0. /\ TypeOK /\ sender \in [Sender -> SenderType] /\ \A s \in Sender : sender[s] \in SenderType
      /\ halt \in BOOLEAN
    BY DEF Structure, TypeOK, SenderType
<1>1. ASSUME NEW s \in Sender, \A r \in Sender \ {s} : sender'[r] = sender[r], UNCHANGED <<halt, late>>,
             halt => \/ ~sender'[s].ok \/ sender'[s].pc \notin {"allocation", "positions", "decide"}
                     \/ sender[s].ok /\ sender[s].pc \in {"allocation", "positions"}
      PROVE  Quiet
    BY <1>1 DEF Ahead
<1>2. ASSUME NEW s \in Sender, NEW t \in Trade, Begin(s, t) PROVE Quiet
    <2>1. /\ sender'[s].pc = "unresolved" /\ UNCHANGED <<halt, late>>
          /\ \A r \in Sender \ {s} : sender'[r] = sender[r]
        BY <1>0, <1>2 DEF Begin, Idle, SenderType, day
    <2> QED
        BY <1>1, <2>1
<1>3. ASSUME NEW s \in Sender, UnresolvedGate(s) PROVE Quiet
    <2>1. (\E passes \in BOOLEAN : Check(s, "unresolved", "halt", passes)) /\ "halt" \in PCs \ {"idle"}
        BY <1>3, Zenon DEF UnresolvedGate, Check, PCs
    <2>2. PICK passes \in BOOLEAN : Check(s, "unresolved", "halt", passes)
        BY <2>1
    <2>3. /\ sender'[s].pc = "halt" /\ sender'[s].trade = sender[s].trade /\ sender[s].trade \in Trade
          /\ (sender'[s].ok <=> sender[s].ok /\ passes)
          /\ sender[s].pc = "unresolved" /\ \A r \in Sender \ {s} : sender'[r] = sender[r]
        BY <1>0, <2>1, <2>2, Checked
    <2>4. UNCHANGED <<halt, late>>
        BY <1>3 DEF UnresolvedGate, day
    <2> QED
        BY <1>1, <2>3, <2>4
<1>4. ASSUME NEW s \in Sender, AllocationCheck(s) PROVE Quiet
    <2>1. (\E passes \in BOOLEAN : Check(s, "allocation", "positions", passes)) /\ "positions" \in PCs \ {"idle"}
        BY <1>4, Zenon DEF AllocationCheck, Check, PCs
    <2>2. PICK passes \in BOOLEAN : Check(s, "allocation", "positions", passes)
        BY <2>1
    <2>3. /\ sender'[s].pc = "positions" /\ sender'[s].trade = sender[s].trade /\ sender[s].trade \in Trade
          /\ (sender'[s].ok <=> sender[s].ok /\ passes)
          /\ sender[s].pc = "allocation" /\ \A r \in Sender \ {s} : sender'[r] = sender[r]
        BY <1>0, <2>1, <2>2, Checked
    <2>4. UNCHANGED <<halt, late>>
        BY <1>4 DEF AllocationCheck, day
    <2> QED
        BY <1>1, <2>3, <2>4
<1>5. ASSUME NEW s \in Sender, PositionCheck(s) PROVE Quiet
    <2>1. (\E passes \in BOOLEAN : Check(s, "positions", "decide", passes)) /\ "decide" \in PCs \ {"idle"}
        BY <1>5, Zenon DEF PositionCheck, Check, PCs
    <2>2. PICK passes \in BOOLEAN : Check(s, "positions", "decide", passes)
        BY <2>1
    <2>3. /\ sender'[s].pc = "decide" /\ sender'[s].trade = sender[s].trade /\ sender[s].trade \in Trade
          /\ (sender'[s].ok <=> sender[s].ok /\ passes)
          /\ sender[s].pc = "positions" /\ \A r \in Sender \ {s} : sender'[r] = sender[r]
        BY <1>0, <2>1, <2>2, Checked
    <2>4. UNCHANGED <<halt, late>>
        BY <1>5 DEF PositionCheck, day
    <2> QED
        BY <1>1, <2>3, <2>4
<1>6. ASSUME NEW s \in Sender, ReadHalt(s) PROVE Quiet
    <2>1. CASE halt
        <3>1. Check(s, "halt", "allocation", FALSE) /\ "allocation" \in PCs \ {"idle"}
            BY <1>6, <2>1, Zenon DEF ReadHalt, Check, ExistingHalt, PCs
        <3>2. ~sender'[s].ok /\ \A r \in Sender \ {s} : sender'[r] = sender[r]
            BY <1>0, <3>1, Checked
        <3>3. UNCHANGED <<halt, late>>
            BY <1>6 DEF ReadHalt, day
        <3> QED
            BY <1>1, <3>2, <3>3
    <2>2. CASE ~halt
        BY <1>6, <2>2 DEF ReadHalt, day
    <2> QED
        BY <2>1, <2>2
<1>7. ASSUME NEW s \in Sender, JudgeDay(s) PROVE Quiet \/ Halts
    <2>1. PICK readable \in BOOLEAN : /\ Check(s, "pnl", "allocation", readable /\ ~ExistingHalt /\ ~over)
                                      /\ halt' = (halt \/ (readable /\ over))
        BY <1>7 DEF JudgeDay
    <2> DEFINE passes == readable /\ ~ExistingHalt /\ ~over
    <2>2. passes \in BOOLEAN /\ Check(s, "pnl", "allocation", passes)
        BY <2>1, Zenon
    <2>2b. "allocation" \in PCs \ {"idle"} /\ TypeOK
        BY <1>0 DEF PCs
    <2>3. /\ sender'[s].pc = "allocation" /\ sender'[s].trade = sender[s].trade /\ sender[s].trade \in Trade
          /\ (sender'[s].ok <=> sender[s].ok /\ passes)
          /\ sender[s].pc = "pnl" /\ \A r \in Sender \ {s} : sender'[r] = sender[r]
        <3> HIDE DEF passes
        <3> QED
            BY <2>2, <2>2b, Checked
    <2>4. late' = late
        BY <1>7 DEF JudgeDay
    <2>5. CASE halt
        <3>1. halt' = halt
            BY <1>0, <2>1, <2>5
        <3>2. ~sender'[s].ok
            BY <2>3, <2>5 DEF ExistingHalt
        <3> QED
            BY <1>1, <2>3, <2>4, <3>1, <3>2
    <2>6. CASE ~halt /\ ~(readable /\ over)
        <3>1. halt' = halt
            BY <1>0, <2>1, <2>6
        <3> QED
            BY <2>4, <2>6, <3>1
    <2>7. CASE ~halt /\ readable /\ over
        <3>1. halt'
            BY <2>1, <2>7
        <3>2. s \notin Ahead'
            BY <2>3, <2>7 DEF Ahead
        <3> QED
            BY <2>4, <2>7, <3>1, <3>2
    <2> QED
        BY <2>5, <2>6, <2>7
<1>8. ASSUME NEW s \in Sender, Refuse(s) \/ Protect(s) \/ ProtectFails(s) \/ Watch(s) \/ Crash(s) PROVE Quiet
    <2>1. sender'[s] = Idle /\ \A r \in Sender \ {s} : sender'[r] = sender[r]
        BY <1>0, <1>8, Done DEF Refuse, Protect, ProtectFails, Watch, Crash
    <2>2. UNCHANGED <<halt, late>> /\ sender'[s].pc = "idle"
        BY <1>8, <2>1 DEF Refuse, Protect, ProtectFails, Watch, Crash, day, Idle
    <2> QED
        BY <1>1, <2>1, <2>2
<1>9. ASSUME NEW s \in Sender, Transmit(s) \/ Hear(s) \/ HearNothing(s) PROVE Quiet
    <2>1. sender'[s].pc \in {"hear", "watch", "protect", "idle"} /\ \A r \in Sender \ {s} : sender'[r] = sender[r]
        <3>1. CASE sender' = [sender EXCEPT ![s] = Idle]
            BY <1>0, <3>1, Done DEF Idle
        <3>2. CASE \E next \in {"hear", "watch", "protect"} : sender' = [sender EXCEPT ![s].pc = next]
            <4>1. PICK next \in {"hear", "watch", "protect"} : sender' = [sender EXCEPT ![s].pc = next]
                BY <3>2
            <4>2. next \in PCs \ {"idle"} /\ sender[s].pc # "idle"
                BY <1>9 DEF PCs, Transmit, Hear, HearNothing
            <4> QED
                BY <1>0, <4>1, <4>2, Moved
        <3> QED
            BY <1>9, <3>1, <3>2 DEF Transmit, Hear, HearNothing
    <2>2. UNCHANGED <<halt, late>>
        BY <1>9 DEF Transmit, Hear, HearNothing, day
    <2> QED
        BY <1>1, <2>1, <2>2
<1>10. ASSUME NEW s \in Sender, WriteAhead(s) PROVE Writes
    <2>1. sender' = [sender EXCEPT ![s].pc = "send"] /\ sender[s].pc # "idle" /\ "send" \in PCs \ {"idle"}
        BY <1>10 DEF WriteAhead, PCs
    <2>2. sender'[s].pc = "send" /\ \A r \in Sender \ {s} : sender'[r] = sender[r]
        BY <1>0, <2>1, Moved
    <2>3. s \in Ahead /\ Ahead' \subseteq Ahead \ {s}
        BY <1>10, <2>2 DEF WriteAhead, Ahead
    <2>4. halt' = halt /\ late' = IF halt THEN late + 1 ELSE late
        BY <1>10 DEF WriteAhead
    <2> QED
        BY <2>3, <2>4
<1>11. ASSUME UNCHANGED <<sender, halt, late>> PROVE Quiet
    BY <1>11 DEF Ahead
<1>12. ASSUME \E t \in Trade : Age(t) \/ Resolve(t) \/ Trading(t) PROVE Quiet
    BY <1>11, <1>12 DEF Age, Resolve, Trading, day
<1>13. ASSUME Move \/ UNCHANGED vars PROVE Quiet
    BY <1>11, <1>13 DEF Move, vars
<1>14. Quiet \/ Halts \/ Writes
    <2> HIDE DEF Quiet, Halts, Writes
    <2> QED
        BY <1>2, <1>3, <1>4, <1>5, <1>6, <1>7, <1>8, <1>9, <1>10, <1>12, <1>13 DEF Next, SenderStep
<1> QED
    BY <1>14

\* So a halted day lets through what was past the check when it halted, at most.
LEMMA StepHalt ==
    ASSUME Structure, IsFiniteSet(OnRecord), HaltOK, [Next]_vars
    PROVE  HaltOK'
<1>1. /\ IsFiniteSet(Ahead) /\ Cardinality(Ahead) \in Nat
      /\ IsFiniteSet(Sender) /\ Cardinality(Sender) \in Nat \ {0} /\ late \in Nat
    BY Countable DEF Structure, TypeOK
<1>2. CASE halt' = halt /\ late' = late /\ (halt => Ahead' \subseteq Ahead)
    <2>1. CASE halt
        <3>1. Cardinality(Ahead') <= Cardinality(Ahead) /\ Cardinality(Ahead') \in Nat
            BY <1>1, <1>2, <2>1, FS_Subset, FS_CardinalityType
        <3> QED
            BY <1>1, <1>2, <2>1, <3>1 DEF HaltOK
    <2>2. CASE ~halt
        BY <1>2, <2>2 DEF HaltOK
    <2> QED
        BY <2>1, <2>2
<1>3. CASE \E s \in Sender : halt' /\ ~halt /\ late' = late /\ s \notin Ahead'
    <2>1. PICK s \in Sender : halt' /\ ~halt /\ late' = late /\ s \notin Ahead'
        BY <1>3
    <2>2. Ahead' \in SUBSET (Sender \ {s})
        BY <2>1 DEF Ahead
    <2>3. IsFiniteSet(Sender \ {s}) /\ Cardinality(Sender \ {s}) = Cardinality(Sender) - 1
        BY <1>1, FS_RemoveElement
    <2>4. Cardinality(Ahead') <= Cardinality(Sender) - 1 /\ Cardinality(Ahead') \in Nat
        BY <2>2, <2>3, FS_Subset, FS_CardinalityType
    <2>5. late = 0
        BY <2>1 DEF HaltOK
    <2> QED
        BY <1>1, <2>1, <2>4, <2>5 DEF HaltOK
<1>4. CASE \E s \in Sender : /\ halt' = halt /\ late' = IF halt THEN late + 1 ELSE late
                             /\ s \in Ahead /\ Ahead' \subseteq Ahead \ {s}
    <2>1. PICK s \in Sender : /\ halt' = halt /\ late' = IF halt THEN late + 1 ELSE late
                              /\ s \in Ahead /\ Ahead' \subseteq Ahead \ {s}
        BY <1>4
    <2>2. IsFiniteSet(Ahead \ {s}) /\ Cardinality(Ahead \ {s}) = Cardinality(Ahead) - 1
        BY <1>1, <2>1, FS_RemoveElement
    <2>3. Cardinality(Ahead') <= Cardinality(Ahead) - 1 /\ Cardinality(Ahead') \in Nat
        BY <2>1, <2>2, FS_Subset, FS_CardinalityType
    <2> QED
        BY <1>1, <2>1, <2>3 DEF HaltOK
<1> QED
    BY <1>2, <1>3, <1>4, HaltSteps

\* A step writes one row at the most.
LEMMA StepFinite ==
    ASSUME Structure, IsFiniteSet(OnRecord), [Next]_vars
    PROVE  IsFiniteSet(OnRecord')
<1>1. row \in [Trade -> RowStatus]
    BY DEF Structure, TypeOK, RowStatus
<1>2. ASSUME NEW t, \A u \in Trade \ {t} : row'[u] = row[u] PROVE IsFiniteSet(OnRecord')
    <2>1. OnRecord' \in SUBSET (OnRecord \cup {t})
        BY <1>2 DEF OnRecord
    <2> QED
        BY <2>1, OneMore
<1>3. ASSUME NEW s \in Sender, SenderStep(s) PROVE IsFiniteSet(OnRecord')
    <2> DEFINE t == sender[s].trade
    <2>1. row' = row \/ \E status : row' = [row EXCEPT ![t] = status]
        BY <1>3 DEF SenderStep, Begin, UnresolvedGate, ReadHalt, JudgeDay, AllocationCheck, PositionCheck, Refuse,
                    WriteAhead, Transmit, Hear, HearNothing, Protect, ProtectFails, Watch, Crash, rows
    <2>2. \A u \in Trade \ {t} : row'[u] = row[u]
        BY <1>1, <2>1
    <2> QED
        BY <1>2, <2>2
<1>4. ASSUME NEW t \in Trade, Age(t) \/ Resolve(t) \/ Trading(t) PROVE IsFiniteSet(OnRecord')
    <2>1. \A u \in Trade \ {t} : row'[u] = row[u]
        BY <1>1, <1>4 DEF Age, Resolve, Trading, rows
    <2> QED
        BY <1>2, <2>1
<1>5. ASSUME Move \/ UNCHANGED vars PROVE IsFiniteSet(OnRecord')
    BY <1>5 DEF Move, vars, rows, OnRecord
<1> QED
    BY <1>3, <1>4, <1>5 DEF Next

-----------------------------------------------------------------------------
(* The invariant, and what it gives.                                         *)

\* Nothing is on record, under way or at the broker at first.
LEMMA InitInv == Init => IInv
<1> SUFFICES ASSUME Init PROVE IInv
    OBVIOUS
<1>1. Structure
    BY InitStructure
<1>2. OnRecord = {} /\ Slots = {} /\ Strays = {} /\ Orphans = {} /\ Placed \cup Coming = {} /\ Adrift = {}
      /\ Open \cup Arriving = {} /\ Units({}) = {}
    BY DEF Init, OnRecord, Slots, Strays, Orphans, Placed, Coming, Adrift, Open, Arriving, Units, Past, Idle,
           OPEN_STATES, LIVE_PLACED_STATUSES
<1>3. IsFiniteSet({}) /\ Cardinality({}) = 0 /\ Planned({}) = 0
    BY <1>2, FS_EmptySet, PlannedType
<1>4. Cardinality(Sender) \in Nat \ {0} /\ MaxRisk \in Nat /\ Budget \in Nat /\ MaxOpen \in Nat
    BY LimitsAssumption, FS_CardinalityType, FS_EmptySet
<1>5. (Cardinality(Sender) - 1 + 0) * MaxRisk \in Nat
    <2> DEFINE n == Cardinality(Sender) - 1 + 0
    <2>1. n \in Nat
        BY <1>4
    <2>2. n * MaxRisk \in Nat
        <3> HIDE DEF n
        <3> QED
            BY <1>4, <2>1, TimesNat
    <2> QED
        BY <2>2
<1>6. crashes = 0 /\ faults = 0 /\ ~halt /\ late = 0
    BY DEF Init
<1>7. FewStrays /\ FewOrphans /\ FewAdrift /\ SlotsOK /\ HaltOK
    <2>1. FewStrays
        BY <1>2, <1>3, <1>4, <1>6 DEF FewStrays
    <2>2. FewOrphans /\ FewAdrift
        BY <1>2, <1>3, <1>6 DEF FewOrphans, FewAdrift
    <2>3. SlotsOK
        <3> DEFINE n == Cardinality(Sender)
        <3>1. 0 <= MaxOpen + n - 1 + 0 + 0
            <4>1. n \in Nat /\ n # 0 /\ MaxOpen \in Nat
                BY <1>4
            <4> HIDE DEF n
            <4> QED
                BY <4>1
        <3> QED
            BY <1>2, <1>3, <1>6, <3>1 DEF SlotsOK
    <2> QED
        BY <1>6, <2>1, <2>2, <2>3 DEF HaltOK
<1>8. RiskOK
    <2> DEFINE m == (Cardinality(Sender) - 1 + 0) * MaxRisk
    <2>0. m \in Nat
        BY <1>5
    <2>1. 0 <= Budget + m
        <3> HIDE DEF m
        <3> QED
            BY <1>4, <2>0
    <2> QED
        BY <1>2, <1>3, <1>6, <2>1 DEF RiskOK
<1> QED
    BY <1>1, <1>2, <1>3, <1>7, <1>8 DEF IInv, Structure

\* Every step keeps the invariant.
LEMMA StepInv == IInv /\ [Next]_vars => IInv'
<1> SUFFICES ASSUME IInv, [Next]_vars PROVE IInv'
    OBVIOUS
<1>1. Structure
    BY DEF IInv, Structure
<1>2. Structure'
    BY <1>1, StepStructure
<1>3. IsFiniteSet(OnRecord')
    BY <1>1, StepFinite DEF IInv
<1>4. FewStrays' /\ FewOrphans' /\ RiskOK'
    BY <1>1, StepRisk DEF IInv
<1>5. FewAdrift' /\ SlotsOK'
    BY <1>1, StepBook DEF IInv
<1>6. HaltOK'
    BY <1>1, StepHalt DEF IInv
<1> QED
    BY <1>2, <1>3, <1>4, <1>5, <1>6 DEF IInv, Structure

\* It holds in every state of every behaviour.
THEOREM Invariance == Spec => []IInv
    BY InitInv, StepInv, PTL DEF Spec

\* What is on record, at the broker and with the coroutines has its type.
THEOREM TypeCorrect == Spec => []TypeOK
<1>1. IInv => TypeOK
    BY DEF IInv
<1> QED
    BY <1>1, Invariance, PTL

\* For any entries and any coroutines the risk of the orders that left keeps to
\* the day's budget but for one trade for each other coroutine, and each crash
\* (live_risk.py:279): a lost answer adds nothing.
THEOREM RiskBound_Holds == Spec => []RiskBound
<1>1. IInv => RiskBound
    <2> SUFFICES ASSUME IInv PROVE RiskBound
        OBVIOUS
    <2> DEFINE left == {t \in Trade : row[t] \in OPEN_STATES \cup LIVE_PLACED_STATUSES}
               m == (Cardinality(Sender) - 1 + crashes) * MaxRisk
    <2>1. Structure /\ IsFiniteSet(OnRecord)
        BY DEF IInv, Structure
    <2>2. IsFiniteSet(Covered) /\ Planned(Covered) \in Nat /\ Cardinality(Sender) - 1 + crashes \in Nat
        BY <2>1, Countable DEF Structure, TypeOK
    <2>3. left \in SUBSET Covered
        BY DEF Covered, Placed, Coming
    <2>4. Planned(left) <= Planned(Covered) /\ Planned(left) \in Nat
        <3> HIDE DEF left
        <3> QED
            BY <2>2, <2>3, PlannedLess, PlannedType
    <2>5. m \in Nat /\ Budget \in Nat
        BY <2>2, TimesNat, LimitsAssumption
    <2>6. Planned(Covered) <= Budget + m
        BY DEF IInv, RiskOK, Covered
    <2>7. Planned(left) <= Budget + m
        <3> HIDE DEF left, m
        <3> QED
            BY <2>2, <2>4, <2>5, <2>6
    <2> QED
        BY <2>7 DEF RiskBound
<1> QED
    BY <1>1, Invariance, PTL

\* No more positions are open than the limit, one for each other coroutine, and
\* one for each fault and each crash (live_risk.py:417).
THEOREM SlotBound_Holds == Spec => []SlotBound
<1>1. IInv => SlotBound
    <2> SUFFICES ASSUME IInv PROVE SlotBound
        OBVIOUS
    <2> DEFINE a == Cardinality(Open)
               b == Cardinality(Claims)
               n == Cardinality(Sender)
    <2>1. Structure /\ IsFiniteSet(OnRecord)
        BY DEF IInv, Structure
    <2>2. IsFiniteSet(Claims) /\ b \in Nat /\ n \in Nat /\ faults \in Nat /\ crashes \in Nat /\ MaxOpen \in Nat
        BY <2>1, Countable, LimitsAssumption DEF Structure, TypeOK
    <2>3. Open \in SUBSET Claims
        BY DEF Claims
    <2>4. a <= b /\ a \in Nat
        BY <2>2, <2>3, FS_Subset, FS_CardinalityType
    <2>5. b <= MaxOpen + n - 1 + faults + crashes
        BY DEF IInv, SlotsOK, Claims
    <2>6. a <= MaxOpen + n - 1 + faults + crashes
        <3> HIDE DEF a, b, n
        <3> QED
            BY <2>2, <2>4, <2>5
    <2> QED
        BY <2>6 DEF SlotBound
<1> QED
    BY <1>1, Invariance, PTL

\* A halted day writes ahead no more than the other coroutines had past the check
\* (daily_limits.py:6), whatever the profit and loss does next.
THEOREM HaltBound_Holds == Spec => []HaltBound
<1>1. IInv => HaltBound
    <2> SUFFICES ASSUME IInv PROVE HaltBound
        OBVIOUS
    <2>1. Structure /\ IsFiniteSet(OnRecord)
        BY DEF IInv, Structure
    <2>2. Cardinality(Ahead) \in Nat /\ Cardinality(Sender) \in Nat \ {0} /\ late \in Nat
        BY <2>1, Countable DEF Structure, TypeOK
    <2> QED
        BY <2>2 DEF IInv, HaltOK, HaltBound
<1> QED
    BY <1>1, Invariance, PTL


-----------------------------------------------------------------------------
(* The limits implement the allowance.                                       *)

\* The coroutines past some checks that have failed none.
Passing(pcs) == {s \in Sender : sender[s].ok /\ sender[s].pc \in pcs}

\* A coroutine that goes on with its trade, or is done with it, moves that trade.
LEMMA PastOne ==
    ASSUME Structure, NEW s \in Sender, NEW t \in Trade, sender[s].trade = t,
           \A r \in Sender \ {s} : sender'[r] = sender[r],
           sender'[s].trade = t \/ sender'[s].trade = NoTrade,
           NEW pcs
    PROVE  /\ \A u \in Trade \ {t} : Past(u, pcs)' <=> Past(u, pcs)
           /\ Past(t, pcs) <=> s \in Passing(pcs)
           /\ Past(t, pcs)' <=> sender'[s].trade = t /\ s \in Passing(pcs)'
<1>1. \A r \in Sender \ {s} : sender[r].trade # t
    BY LimitsAssumption DEF Structure, Alone
<1>2. \A u \in Trade \ {t} : Past(u, pcs)' <=> Past(u, pcs)
    <2> SUFFICES ASSUME NEW u \in Trade \ {t} PROVE Past(u, pcs)' <=> Past(u, pcs)
        OBVIOUS
    <2>1. ASSUME Past(u, pcs) PROVE Past(u, pcs)'
        <3>1. PICK r \in Sender : sender[r].trade = u /\ sender[r].ok /\ sender[r].pc \in pcs
            BY <2>1 DEF Past
        <3>2. r # s
            BY <3>1
        <3> QED
            BY <3>1, <3>2 DEF Past
    <2>2. ASSUME Past(u, pcs)' PROVE Past(u, pcs)
        <3>1. PICK r \in Sender : sender'[r].trade = u /\ sender'[r].ok /\ sender'[r].pc \in pcs
            BY <2>2 DEF Past
        <3>2. r # s
            BY <3>1, LimitsAssumption
        <3> QED
            BY <3>1, <3>2 DEF Past
    <2> QED
        BY <2>1, <2>2
<1>3. Past(t, pcs) <=> s \in Passing(pcs)
    BY <1>1 DEF Past, Passing
<1>4. Past(t, pcs)' <=> sender'[s].trade = t /\ s \in Passing(pcs)'
    BY <1>1 DEF Past, Passing
<1> QED
    BY <1>2, <1>3, <1>4

\* What a step may do to the trades on record and on their way.
RiskStutter  == Placed' = Placed /\ Coming' = Coming
RiskDrop(t)  == t \in Coming /\ Coming' = Coming \ {t} /\ Placed' = Placed
RiskCharge(t) == t \in Coming /\ Coming' = Coming \ {t} /\ Placed' = Placed \cup {t}
RiskAdmit(t) ==
    /\ t \notin Placed \cup Coming /\ Affordable(t)
    /\ Cardinality(Coming) < Cardinality(Sender) + MaxFaults
    /\ Coming' = Coming \cup {t} /\ Placed' = Placed

RiskMove == RiskStutter \/ \E t \in Trade : RiskDrop(t) \/ RiskCharge(t) \/ RiskAdmit(t)

\* A step that moves one trade that was on its way, or not, and admits none.
LEMMA MovesOne ==
    ASSUME Structure, NEW t \in Trade,
           \A u \in Trade \ {t} : row'[u] = row[u] /\ (Past(u, {"positions", "decide"})' <=> Past(u, {"positions", "decide"})),
           t \in Coming' => t \in Coming,
           t \in Placed' => t \in Placed \/ t \in Coming,
           t \in Placed => t \in Placed' /\ t \notin Coming,
           t \in Placed' => t \notin Coming'
    PROVE  RiskMove
<1>1. \A u \in Trade \ {t} : (u \in Placed' <=> u \in Placed) /\ (u \in Coming' <=> u \in Coming)
    BY DEF Placed, Coming
<1>2. Placed \subseteq Trade /\ Coming \subseteq Trade /\ Placed' \subseteq Trade /\ Coming' \subseteq Trade
    BY DEF Placed, Coming
<1>3. CASE (t \in Coming' <=> t \in Coming)
    BY <1>1, <1>2, <1>3 DEF RiskMove, RiskStutter
<1>4. CASE t \in Coming /\ t \notin Coming' /\ t \in Placed'
    <2>1. RiskCharge(t)
        BY <1>1, <1>2, <1>4 DEF RiskCharge
    <2> QED
        BY <2>1 DEF RiskMove
<1>5. CASE t \in Coming /\ t \notin Coming' /\ t \notin Placed'
    <2>1. RiskDrop(t)
        BY <1>1, <1>2, <1>5 DEF RiskDrop
    <2> QED
        BY <2>1 DEF RiskMove
<1> QED
    BY <1>3, <1>4, <1>5

\* Every step is a move of the allowance.
LEMMA RiskMoves ==
    ASSUME IInv, [Next]_vars
    PROVE  RiskMove
<1> USE LimitsAssumption
<1>0. /\ Structure /\ TypeOK /\ sender \in [Sender -> SenderType] /\ row \in [Trade -> RowStatus]
      /\ \A s \in Sender : sender[s] \in SenderType
    BY DEF IInv, Structure, TypeOK, SenderType, RowStatus
\* A coroutine that does not leave a row behind, and is not let in.
<1>1. ASSUME NEW s \in Sender, sender[s].trade \in Trade, sender'[s].trade = sender[s].trade \/ sender'[s].trade = NoTrade,
             \A r \in Sender \ {s} : sender'[r] = sender[r], row' = row,
             \/ row[sender[s].trade] # "none"
             \/ sender'[s].ok /\ sender'[s].pc \in {"positions", "decide"} /\ sender'[s].trade = sender[s].trade
                  => sender[s].ok /\ sender[s].pc \in {"positions", "decide"}
             , row[sender[s].trade] # "none" => sender[s].pc \notin {"positions", "decide"} /\ sender'[s].pc \notin {"positions", "decide"}
      PROVE  RiskMove
    <2>0. PICK t \in Trade : t = sender[s].trade
        BY <1>1
    <2>1. /\ \A u \in Trade \ {t} : Past(u, {"positions", "decide"})' <=> Past(u, {"positions", "decide"})
          /\ Past(t, {"positions", "decide"}) <=> s \in Passing({"positions", "decide"})
          /\ Past(t, {"positions", "decide"})' <=> sender'[s].trade = t /\ s \in Passing({"positions", "decide"})'
        BY <1>0, <1>1, <2>0, PastOne
    <2>2. t \in Coming' => t \in Coming
        BY <1>1, <2>0, <2>1 DEF Coming, Passing
    <2>3. t \in Placed' <=> t \in Placed
        BY <1>1, <2>0 DEF Placed
    <2>4. t \in Placed => t \notin Coming /\ t \notin Coming'
        BY <1>1, <2>0, <2>1 DEF Placed, Coming, Passing, LIVE_PLACED_STATUSES, OPEN_STATES
    <2> QED
        BY <1>0, <1>1, <2>0, <2>1, <2>2, <2>3, <2>4, MovesOne
<1>2. ASSUME NEW s \in Sender, NEW t \in Trade, Begin(s, t) PROVE RiskMove
    <2>1. /\ sender'[s] = [pc |-> "unresolved", trade |-> t, ok |-> TRUE]
          /\ \A r \in Sender \ {s} : sender'[r] = sender[r]
        BY <1>0, <1>2 DEF Begin, Idle, SenderType
    <2>2. row' = row /\ sender[s].pc = "idle"
        BY <1>2 DEF Begin, rows
    <2>3. \A u \in Trade : Past(u, {"positions", "decide"})' <=> Past(u, {"positions", "decide"})
        BY <2>1, <2>2 DEF Past
    <2> QED
        BY <2>2, <2>3 DEF RiskMove, RiskStutter, Placed, Coming
<1>3. ASSUME NEW s \in Sender, UnresolvedGate(s) PROVE RiskMove
    <2>1. (\E passes \in BOOLEAN : Check(s, "unresolved", "halt", passes)) /\ "halt" \in PCs \ {"idle"}
        BY <1>3, Zenon DEF UnresolvedGate, Check, PCs
    <2>2. PICK passes \in BOOLEAN : Check(s, "unresolved", "halt", passes)
        BY <2>1
    <2>3. /\ sender'[s].pc = "halt" /\ sender'[s].trade = sender[s].trade /\ sender[s].trade \in Trade
          /\ (sender'[s].ok <=> sender[s].ok /\ passes)
          /\ sender[s].pc = "unresolved" /\ \A r \in Sender \ {s} : sender'[r] = sender[r]
        BY <1>0, <2>1, <2>2, Checked
    <2>4. row' = row /\ row[sender[s].trade] = "none"
        BY <1>0, <1>3, <2>3 DEF UnresolvedGate, rows, Structure, Stages, Stage
    <2> QED
        BY <1>1, <2>3, <2>4
<1>4. ASSUME NEW s \in Sender, JudgeDay(s) PROVE RiskMove
    <2>1. (\E passes \in BOOLEAN : Check(s, "pnl", "allocation", passes)) /\ "allocation" \in PCs \ {"idle"}
        BY <1>4, Zenon DEF JudgeDay, Check, PCs
    <2>2. PICK passes \in BOOLEAN : Check(s, "pnl", "allocation", passes)
        BY <2>1
    <2>3. /\ sender'[s].pc = "allocation" /\ sender'[s].trade = sender[s].trade /\ sender[s].trade \in Trade
          /\ (sender'[s].ok <=> sender[s].ok /\ passes)
          /\ sender[s].pc = "pnl" /\ \A r \in Sender \ {s} : sender'[r] = sender[r]
        BY <1>0, <2>1, <2>2, Checked
    <2>4. row' = row /\ row[sender[s].trade] = "none"
        BY <1>0, <1>4, <2>3 DEF JudgeDay, rows, Structure, Stages, Stage
    <2> QED
        BY <1>1, <2>3, <2>4
<1>5. ASSUME NEW s \in Sender, PositionCheck(s) PROVE RiskMove
    <2>1. (\E passes \in BOOLEAN : Check(s, "positions", "decide", passes)) /\ "decide" \in PCs \ {"idle"}
        BY <1>5, Zenon DEF PositionCheck, Check, PCs
    <2>2. PICK passes \in BOOLEAN : Check(s, "positions", "decide", passes)
        BY <2>1
    <2>3. /\ sender'[s].pc = "decide" /\ sender'[s].trade = sender[s].trade /\ sender[s].trade \in Trade
          /\ (sender'[s].ok <=> sender[s].ok /\ passes)
          /\ sender[s].pc = "positions" /\ \A r \in Sender \ {s} : sender'[r] = sender[r]
        BY <1>0, <2>1, <2>2, Checked
    <2>4. row' = row /\ row[sender[s].trade] = "none"
        BY <1>0, <1>5, <2>3 DEF PositionCheck, rows, Structure, Stages, Stage
    <2> QED
        BY <1>1, <2>3, <2>4
<1>6. ASSUME NEW s \in Sender, ReadHalt(s) PROVE RiskMove
    <2> DEFINE next == IF ExistingHalt THEN "allocation" ELSE "pnl"
    <2>1. PICK passes \in BOOLEAN : Check(s, "halt", next, passes)
        BY <1>6, Zenon DEF ReadHalt, Check
    <2>2. next \in PCs \ {"idle", "positions", "decide"}
        BY DEF PCs
    <2>3. /\ sender'[s].pc = next /\ sender'[s].trade = sender[s].trade /\ sender[s].trade \in Trade
          /\ sender[s].pc = "halt" /\ \A r \in Sender \ {s} : sender'[r] = sender[r]
        <3> HIDE DEF next
        <3> QED
            BY <1>0, <2>1, <2>2, Checked
    <2>4. row' = row /\ row[sender[s].trade] = "none"
        BY <1>0, <1>6, <2>3 DEF ReadHalt, rows, Structure, Stages, Stage
    <2> QED
        BY <1>1, <2>2, <2>3, <2>4
<1>7. ASSUME NEW s \in Sender, AllocationCheck(s) PROVE RiskMove
    <2>0. PICK t \in Trade : t = sender[s].trade
        BY <1>0, <1>7 DEF AllocationCheck, Check, WriteAhead, Hear, HearNothing, TypeOK, SenderType
    <2>1. (\E passes \in BOOLEAN : Check(s, "allocation", "positions", passes)) /\ "positions" \in PCs \ {"idle"}
        BY <2>0, <1>7, Zenon DEF AllocationCheck, Check, PCs
    <2>2. PICK passes \in BOOLEAN : Check(s, "allocation", "positions", passes)
        BY <2>0, <2>1
    <2>3. /\ sender'[s].pc = "positions" /\ sender'[s].trade = t /\ t \in Trade
          /\ (sender'[s].ok <=> sender[s].ok /\ passes)
          /\ sender[s].pc = "allocation" /\ \A r \in Sender \ {s} : sender'[r] = sender[r]
        BY <2>0, <1>0, <2>1, <2>2, Checked
    <2>3b. sender'[s].ok => Affordable(t)
        <3>1. SUFFICES ASSUME ~Affordable(t) PROVE ~sender'[s].ok
            OBVIOUS
        <3>2. Check(s, "allocation", "positions", FALSE)
            BY <2>0, <1>7, <3>1, Zenon DEF AllocationCheck, Check
        <3> QED
            BY <2>0, <1>0, <2>1, <3>2, Checked
    <2>4. row' = row /\ row[t] = "none"
        BY <2>0, <1>0, <1>7, <2>3 DEF AllocationCheck, rows, Structure, Stages, Stage
    <2>5. CASE ~sender'[s].ok
        BY <2>0, <1>1, <2>3, <2>4, <2>5
    <2>6. CASE sender'[s].ok
        <3>1. /\ \A u \in Trade \ {t} : Past(u, {"positions", "decide"})' <=> Past(u, {"positions", "decide"})
              /\ Past(t, {"positions", "decide"}) <=> s \in Passing({"positions", "decide"})
              /\ Past(t, {"positions", "decide"})' <=> sender'[s].trade = t /\ s \in Passing({"positions", "decide"})'
            BY <2>0, <1>0, <2>3, PastOne
        <3>2. t \notin Placed \cup Coming
            BY <2>0, <2>3, <2>4, <3>1 DEF Placed, Coming, Passing, LIVE_PLACED_STATUSES, OPEN_STATES
        <3>3. Placed' = Placed /\ Coming' = Coming \cup {t}
            BY <2>0, <2>3, <2>4, <2>6, <3>1 DEF Placed, Coming, Passing
        <3>4. Affordable(t)
            BY <2>0, <2>3b, <2>6
        <3>5. Cardinality(Coming) < Cardinality(Sender) + MaxFaults
            <4>1. s \in Slots
                BY <2>0, <2>3, <2>6 DEF Slots
            <4>2. /\ Cardinality(Coming) \in Nat
                  /\ Cardinality(Coming) <= Cardinality(Sender) - 1 + crashes
                BY <2>0, <1>0, <2>3, <4>1, FewComing DEF IInv
            <4>3. crashes \in Nat /\ crashes <= MaxFaults /\ MaxFaults \in Nat /\ Cardinality(Sender) \in Nat
                BY <2>0, <1>0, Countable DEF TypeOK, IInv
            <4> QED
                BY <2>0, <4>2, <4>3
        <3>6. RiskAdmit(t)
            BY <2>0, <3>2, <3>3, <3>4, <3>5 DEF RiskAdmit
        <3> QED
            BY <2>0, <2>3, <3>6 DEF RiskMove
    <2> QED
        BY <2>0, <2>5, <2>6
<1>8. ASSUME NEW s \in Sender, Refuse(s) \/ Protect(s) \/ ProtectFails(s) \/ Watch(s) \/ Crash(s) PROVE RiskMove
    <2>1. sender'[s] = Idle /\ \A r \in Sender \ {s} : sender'[r] = sender[r]
        BY <1>0, <1>8, Done DEF Refuse, Protect, ProtectFails, Watch, Crash
    <2>2. row' = row /\ sender[s].trade \in Trade
        BY <1>0, <1>8 DEF Refuse, Protect, ProtectFails, Watch, Crash, rows, TypeOK, SenderType
    <2>3. row[sender[s].trade] # "none" => sender[s].pc \notin {"positions", "decide"}
        BY <1>0 DEF Structure, Stages, Stage
    <2> QED
        BY <1>1, <2>1, <2>2, <2>3 DEF Idle
<1>9. ASSUME NEW s \in Sender, Transmit(s) PROVE RiskMove
    <2>1. sender' = [sender EXCEPT ![s].pc = "hear"] /\ sender[s].pc = "send" /\ "hear" \in PCs \ {"idle"} /\ row' = row
        BY <1>9 DEF Transmit, PCs, rows
    <2>2. /\ sender'[s].pc = "hear" /\ sender'[s].trade = sender[s].trade /\ sender[s].trade \in Trade
          /\ \A r \in Sender \ {s} : sender'[r] = sender[r]
        BY <1>0, <2>1, Moved
    <2> QED
        BY <1>1, <2>1, <2>2
<1>10. ASSUME NEW s \in Sender, WriteAhead(s) PROVE RiskMove
    <2>0. PICK t \in Trade : t = sender[s].trade
        BY <1>0, <1>10 DEF AllocationCheck, Check, WriteAhead, Hear, HearNothing, TypeOK, SenderType
    <2>1. /\ sender' = [sender EXCEPT ![s].pc = "send"] /\ sender[s].pc = "decide" /\ sender[s].ok
          /\ "send" \in PCs \ {"idle"} /\ row' = [row EXCEPT ![t] = "PREPARED"]
        BY <2>0, <1>10 DEF WriteAhead, PCs
    <2>2. /\ sender'[s].pc = "send" /\ sender'[s].trade = t /\ t \in Trade
          /\ \A r \in Sender \ {s} : sender'[r] = sender[r]
        BY <2>0, <1>0, <2>1, Moved
    <2>3. /\ \A u \in Trade \ {t} : Past(u, {"positions", "decide"})' <=> Past(u, {"positions", "decide"})
          /\ Past(t, {"positions", "decide"}) <=> s \in Passing({"positions", "decide"})
          /\ Past(t, {"positions", "decide"})' <=> sender'[s].trade = t /\ s \in Passing({"positions", "decide"})'
        BY <2>0, <1>0, <2>2, PastOne
    <2>4. row[t] = "none" /\ row'[t] = "PREPARED" /\ \A u \in Trade \ {t} : row'[u] = row[u]
        BY <2>0, <1>0, <2>1, <2>2 DEF Structure, Stages, Stage
    <2>5. t \in Coming /\ t \notin Placed /\ t \notin Placed'
        BY <2>0, <2>1, <2>2, <2>3, <2>4 DEF Coming, Placed, Passing, LIVE_PLACED_STATUSES
    <2> QED
        BY <2>0, <1>0, <2>2, <2>3, <2>4, <2>5, MovesOne
<1>11. ASSUME NEW s \in Sender, Hear(s) \/ HearNothing(s) PROVE RiskMove
    <2>0. PICK t \in Trade : t = sender[s].trade
        BY <1>0, <1>11 DEF AllocationCheck, Check, WriteAhead, Hear, HearNothing, TypeOK, SenderType
    <2>1. /\ sender[s].pc = "hear" /\ t \in Trade /\ row[t] = "PREPARED"
          /\ row'[t] \in {"REJECTED", "ACCEPTED", "UNKNOWN"} /\ \A u \in Trade \ {t} : row'[u] = row[u]
        BY <2>0, <1>0, <1>11 DEF Hear, HearNothing, Structure, Stages, Stage, TypeOK, SenderType
    <2>2. /\ sender'[s].pc \in {"idle", "protect", "watch"} /\ (sender'[s].trade = t \/ sender'[s].trade = NoTrade)
          /\ \A r \in Sender \ {s} : sender'[r] = sender[r]
        <3>1. CASE sender' = [sender EXCEPT ![s] = Idle]
            BY <2>0, <1>0, <3>1, Done DEF Idle
        <3>2. CASE \E next \in {"watch", "protect"} : sender' = [sender EXCEPT ![s].pc = next]
            <4>1. PICK next \in {"watch", "protect"} : sender' = [sender EXCEPT ![s].pc = next]
                BY <2>0, <3>2
            <4>2. next \in PCs \ {"idle"} /\ sender[s].pc # "idle"
                BY <2>0, <2>1 DEF PCs
            <4> QED
                BY <2>0, <1>0, <4>1, <4>2, Moved
        <3> QED
            BY <2>0, <1>11, <3>1, <3>2 DEF Hear, HearNothing
    <2>3. /\ \A u \in Trade \ {t} : Past(u, {"positions", "decide"})' <=> Past(u, {"positions", "decide"})
          /\ Past(t, {"positions", "decide"}) <=> s \in Passing({"positions", "decide"})
          /\ Past(t, {"positions", "decide"})' <=> sender'[s].trade = t /\ s \in Passing({"positions", "decide"})'
        BY <2>0, <1>0, <2>1, <2>2, PastOne
    <2>4. t \in Coming /\ t \notin Placed
        BY <2>0, <2>1 DEF Coming, Placed, Passing, LIVE_PLACED_STATUSES, OPEN_STATES
    <2>5. t \in Placed' => t \notin Coming'
        BY <2>0, <2>1, <2>2, <2>3 DEF Coming, Placed, Passing, LIVE_PLACED_STATUSES, OPEN_STATES
    <2> QED
        BY <2>0, <1>0, <2>1, <2>3, <2>4, <2>5, MovesOne
<1>12. ASSUME NEW t \in Trade, Resolve(t) PROVE RiskMove
    <2>1. /\ row[t] \in {"UNKNOWN", "PREPARED"} /\ row'[t] \in {"NEEDS_REVIEW", "RESOLVED_ABSENT", "RESOLVED_PLACED"}
          /\ \A u \in Trade \ {t} : row'[u] = row[u]
          /\ sender' = sender /\ ~Held(t)
        BY <1>0, <1>12 DEF Resolve, TypeOK, Structure, AgedAlone
    <2>2. \A u \in Trade : Past(u, {"positions", "decide"})' <=> Past(u, {"positions", "decide"})
        BY <2>1 DEF Past
    <2>3. ~Past(t, {"positions", "decide"}) /\ ~Past(t, {"positions", "decide"})'
        BY <2>1, <2>2 DEF Past, Held
    <2>4. t \in Coming /\ t \notin Placed /\ (t \in Placed' => t \notin Coming')
        BY <2>1, <2>3 DEF Coming, Placed, Passing, LIVE_PLACED_STATUSES, OPEN_STATES
    <2> QED
        BY <1>0, <2>1, <2>2, <2>4, MovesOne
<1>13. ASSUME UNCHANGED <<row, sender>> PROVE RiskMove
    BY <1>13 DEF RiskMove, RiskStutter, Placed, Coming, Past
<1>14. ASSUME \E t \in Trade : Age(t) \/ Trading(t) PROVE RiskMove
    BY <1>13, <1>14 DEF Age, Trading, rows
<1>15. ASSUME Move \/ UNCHANGED vars PROVE RiskMove
    BY <1>13, <1>15 DEF Move, rows, vars
<1> QED
    BY <1>2, <1>3, <1>4, <1>5, <1>6, <1>7, <1>8, <1>9, <1>10, <1>11, <1>12, <1>14, <1>15 DEF Next, SenderStep

\* The allowance counts as the limits do.
LEMMA RiskCardinality == \A S : RiskAllowance!Cardinality(S) = Cardinality(S)
    BY DEF Cardinality, RiskAllowance!Cardinality

\* The checks on the risk are an allowance: each trade is let in on what is on
\* record at that moment, and there are never more on their way than coroutines
\* and crashes (live_risk.py:387).
THEOREM ImplementsRisk_Holds == Spec => ImplementsRisk
<1>1. Init => RiskAllowance!Init
    BY DEF Init, RiskAllowance!Init, Placed, Coming, Past, OPEN_STATES, LIVE_PLACED_STATUSES, Idle
<1>2. IInv /\ [Next]_vars => [RiskAllowance!Next]_<<Placed, Coming>>
    <2> SUFFICES ASSUME IInv, [Next]_vars PROVE [RiskAllowance!Next]_<<Placed, Coming>>
        OBVIOUS
    <2>1. CASE RiskStutter
        BY <2>1 DEF RiskStutter
    <2>2. ASSUME NEW t \in Trade, RiskDrop(t) PROVE RiskAllowance!Next
        <3>1. RiskAllowance!Drop(t)
            BY <2>2 DEF RiskAllowance!Drop, RiskDrop
        <3> QED
            BY <3>1 DEF RiskAllowance!Next
    <2>3. ASSUME NEW t \in Trade, RiskCharge(t) PROVE RiskAllowance!Next
        <3>1. RiskAllowance!Charge(t)
            BY <2>3 DEF RiskAllowance!Charge, RiskCharge
        <3> QED
            BY <3>1 DEF RiskAllowance!Next
    <2>4. ASSUME NEW t \in Trade, RiskAdmit(t) PROVE RiskAllowance!Next
        <3>0. RiskAllowance!Total(Placed) = Planned(Placed)
            BY RiskCardinality DEF Planned, RiskAllowance!Total
        <3>1. RiskAllowance!Total(Placed) + Risk[t] <= Budget
            BY <2>4, <3>0 DEF RiskAdmit, Affordable, Allocated
        <3>2. RiskAllowance!Admit(t)
            BY <2>4, <3>1, RiskCardinality DEF RiskAllowance!Admit, RiskAdmit
        <3> QED
            BY <3>2 DEF RiskAllowance!Next
    <2> QED
        BY <2>1, <2>2, <2>3, <2>4, RiskMoves DEF RiskMove
<1> QED
    BY <1>1, <1>2, Invariance, PTL DEF Spec, ImplementsRisk, RiskAllowance!Spec


\* The same of the positions.
SlotStutter   == Open' = Open /\ Arriving' = Arriving
SlotDrop(t)   == t \in Arriving /\ Arriving' = Arriving \ {t} /\ Open' = Open
SlotCharge(t) == t \in Arriving /\ Arriving' = Arriving \ {t} /\ Open' = Open \cup {t}
SlotRelease(t) == t \in Open /\ Open' = Open \ {t} /\ Arriving' = Arriving
SlotAdmit(t) ==
    /\ t \notin Open \cup Arriving /\ Room
    /\ Cardinality(Arriving) < Cardinality(Sender) + MaxFaults
    /\ Arriving' = Arriving \cup {t} /\ Open' = Open

SlotMove == SlotStutter \/ \E t \in Trade : SlotDrop(t) \/ SlotCharge(t) \/ SlotRelease(t) \/ SlotAdmit(t)

\* A step that moves one trade that was on its way or open, or not, and admits none.
LEMMA MovesSlot ==
    ASSUME Structure, NEW t \in Trade,
           \A u \in Trade \ {t} : book'[u] = book[u] /\ (Past(u, {"decide", "send"})' <=> Past(u, {"decide", "send"})),
           t \in Arriving' => t \in Arriving,
           t \in Open' => t \in Open \/ t \in Arriving
    PROVE  SlotMove
<1>1. \A u \in Trade \ {t} : (u \in Open' <=> u \in Open) /\ (u \in Arriving' <=> u \in Arriving)
    BY DEF Open, Arriving
<1>2. /\ Open \subseteq Trade /\ Arriving \subseteq Trade /\ Open' \subseteq Trade /\ Arriving' \subseteq Trade
      /\ ~(t \in Open /\ t \in Arriving) /\ ~(t \in Open' /\ t \in Arriving')
    BY DEF Open, Arriving
<1>3. CASE (t \in Arriving' <=> t \in Arriving) /\ (t \in Open' <=> t \in Open)
    BY <1>1, <1>2, <1>3 DEF SlotMove, SlotStutter
<1>4. CASE t \in Arriving /\ t \notin Arriving' /\ t \in Open'
    <2>1. SlotCharge(t)
        BY <1>1, <1>2, <1>4 DEF SlotCharge
    <2> QED
        BY <2>1 DEF SlotMove
<1>5. CASE t \in Arriving /\ t \notin Arriving' /\ t \notin Open'
    <2>1. SlotDrop(t)
        BY <1>1, <1>2, <1>5 DEF SlotDrop
    <2> QED
        BY <2>1 DEF SlotMove
<1>6. CASE t \in Open /\ t \notin Open'
    <2>1. SlotRelease(t)
        BY <1>1, <1>2, <1>6 DEF SlotRelease
    <2> QED
        BY <2>1 DEF SlotMove
<1> QED
    BY <1>2, <1>3, <1>4, <1>5, <1>6

\* Every step is a move of that allowance.
LEMMA SlotMoves ==
    ASSUME IInv, [Next]_vars
    PROVE  SlotMove
<1> USE LimitsAssumption
<1>0. /\ Structure /\ TypeOK /\ sender \in [Sender -> SenderType] /\ book \in [Trade -> BookState]
      /\ \A s \in Sender : sender[s] \in SenderType
    BY DEF IInv, Structure, TypeOK, SenderType, BookState
\* A coroutine that lets nothing in, the broker doing nothing.
<1>1. ASSUME NEW s \in Sender, sender[s].trade \in Trade,
             sender'[s].trade = sender[s].trade \/ sender'[s].trade = NoTrade,
             \A r \in Sender \ {s} : sender'[r] = sender[r], book' = book,
             \/ sender'[s].pc \notin {"decide", "send"} \/ ~sender'[s].ok
             \/ sender[s].ok /\ sender[s].pc \in {"decide", "send"}
      PROVE  SlotMove
    <2>0. PICK t \in Trade : t = sender[s].trade
        BY <1>1
    <2>1. /\ \A u \in Trade \ {t} : Past(u, {"decide", "send"})' <=> Past(u, {"decide", "send"})
          /\ Past(t, {"decide", "send"}) <=> s \in Passing({"decide", "send"})
          /\ Past(t, {"decide", "send"})' <=> sender'[s].trade = t /\ s \in Passing({"decide", "send"})'
        BY <1>0, <1>1, <2>0, PastOne
    <2>2. t \in Arriving' => t \in Arriving
        BY <1>1, <2>0, <2>1 DEF Arriving, Passing
    <2>3. t \in Open' <=> t \in Open
        BY <1>1, <2>0 DEF Open
    <2> QED
        BY <1>0, <1>1, <2>0, <2>1, <2>2, <2>3, MovesSlot
<1>2. ASSUME NEW s \in Sender, NEW t \in Trade, Begin(s, t) PROVE SlotMove
    <2>1. /\ sender'[s] = [pc |-> "unresolved", trade |-> t, ok |-> TRUE]
          /\ \A r \in Sender \ {s} : sender'[r] = sender[r]
        BY <1>0, <1>2 DEF Begin, Idle, SenderType
    <2>2. book' = book /\ sender[s].pc = "idle"
        BY <1>2 DEF Begin
    <2>3. \A u \in Trade : Past(u, {"decide", "send"})' <=> Past(u, {"decide", "send"})
        BY <2>1, <2>2 DEF Past
    <2> QED
        BY <2>2, <2>3 DEF SlotMove, SlotStutter, Open, Arriving
<1>3. ASSUME NEW s \in Sender, UnresolvedGate(s) PROVE SlotMove
    <2>1. (\E passes \in BOOLEAN : Check(s, "unresolved", "halt", passes)) /\ "halt" \in PCs \ {"idle"}
        BY <1>3, Zenon DEF UnresolvedGate, Check, PCs
    <2>2. PICK passes \in BOOLEAN : Check(s, "unresolved", "halt", passes)
        BY <2>1
    <2>3. /\ sender'[s].pc = "halt" /\ sender'[s].trade = sender[s].trade /\ sender[s].trade \in Trade
          /\ (sender'[s].ok <=> sender[s].ok /\ passes)
          /\ sender[s].pc = "unresolved" /\ \A r \in Sender \ {s} : sender'[r] = sender[r]
        BY <1>0, <2>1, <2>2, Checked
    <2>4. book' = book
        BY <1>3 DEF UnresolvedGate
    <2> QED
        BY <1>1, <2>3, <2>4
<1>4. ASSUME NEW s \in Sender, JudgeDay(s) PROVE SlotMove
    <2>1. (\E passes \in BOOLEAN : Check(s, "pnl", "allocation", passes)) /\ "allocation" \in PCs \ {"idle"}
        BY <1>4, Zenon DEF JudgeDay, Check, PCs
    <2>2. PICK passes \in BOOLEAN : Check(s, "pnl", "allocation", passes)
        BY <2>1
    <2>3. /\ sender'[s].pc = "allocation" /\ sender'[s].trade = sender[s].trade /\ sender[s].trade \in Trade
          /\ (sender'[s].ok <=> sender[s].ok /\ passes)
          /\ sender[s].pc = "pnl" /\ \A r \in Sender \ {s} : sender'[r] = sender[r]
        BY <1>0, <2>1, <2>2, Checked
    <2>4. book' = book
        BY <1>4 DEF JudgeDay
    <2> QED
        BY <1>1, <2>3, <2>4
<1>5. ASSUME NEW s \in Sender, AllocationCheck(s) PROVE SlotMove
    <2>1. (\E passes \in BOOLEAN : Check(s, "allocation", "positions", passes)) /\ "positions" \in PCs \ {"idle"}
        BY <1>5, Zenon DEF AllocationCheck, Check, PCs
    <2>2. PICK passes \in BOOLEAN : Check(s, "allocation", "positions", passes)
        BY <2>1
    <2>3. /\ sender'[s].pc = "positions" /\ sender'[s].trade = sender[s].trade /\ sender[s].trade \in Trade
          /\ (sender'[s].ok <=> sender[s].ok /\ passes)
          /\ sender[s].pc = "allocation" /\ \A r \in Sender \ {s} : sender'[r] = sender[r]
        BY <1>0, <2>1, <2>2, Checked
    <2>4. book' = book
        BY <1>5 DEF AllocationCheck
    <2> QED
        BY <1>1, <2>3, <2>4
<1>6. ASSUME NEW s \in Sender, ReadHalt(s) PROVE SlotMove
    <2> DEFINE next == IF ExistingHalt THEN "allocation" ELSE "pnl"
    <2>1. PICK passes \in BOOLEAN : Check(s, "halt", next, passes)
        BY <1>6, Zenon DEF ReadHalt, Check
    <2>2. next \in PCs \ {"idle", "decide", "send"}
        BY DEF PCs
    <2>3. /\ sender'[s].pc = next /\ sender'[s].trade = sender[s].trade /\ sender[s].trade \in Trade
          /\ \A r \in Sender \ {s} : sender'[r] = sender[r]
        <3> HIDE DEF next
        <3> QED
            BY <1>0, <2>1, <2>2, Checked
    <2>4. book' = book
        BY <1>6 DEF ReadHalt
    <2> QED
        BY <1>1, <2>2, <2>3, <2>4
<1>7. ASSUME NEW s \in Sender, PositionCheck(s) PROVE SlotMove
    <2>1. (\E passes \in BOOLEAN : Check(s, "positions", "decide", passes)) /\ "decide" \in PCs \ {"idle"}
        BY <1>7, Zenon DEF PositionCheck, Check, PCs
    <2>2. PICK passes \in BOOLEAN : Check(s, "positions", "decide", passes)
        BY <2>1
    <2>3. /\ sender'[s].pc = "decide" /\ sender'[s].trade = sender[s].trade /\ sender[s].trade \in Trade
          /\ (sender'[s].ok <=> sender[s].ok /\ passes)
          /\ sender[s].pc = "positions" /\ \A r \in Sender \ {s} : sender'[r] = sender[r]
        BY <1>0, <2>1, <2>2, Checked
    <2>4. PICK t \in Trade : t = sender[s].trade
        BY <2>3
    <2>5. book' = book /\ book[t] = "none"
        BY <1>0, <1>7, <2>3, <2>4 DEF PositionCheck, Structure, Stages, Stage, TypeOK
    <2>6. CASE ~sender'[s].ok
        BY <1>1, <2>3, <2>5, <2>6
    <2>7. CASE sender'[s].ok
        <3>1. Room
            <4>1. SUFFICES ASSUME ~Room PROVE ~sender'[s].ok
                BY <2>7
            <4>2. Check(s, "positions", "decide", FALSE)
                BY <1>7, <4>1, Zenon DEF PositionCheck, Check
            <4> QED
                BY <1>0, <2>1, <4>2, Checked
        <3>2. /\ \A u \in Trade \ {t} : Past(u, {"decide", "send"})' <=> Past(u, {"decide", "send"})
              /\ Past(t, {"decide", "send"}) <=> s \in Passing({"decide", "send"})
              /\ Past(t, {"decide", "send"})' <=> sender'[s].trade = t /\ s \in Passing({"decide", "send"})'
            BY <1>0, <2>3, <2>4, PastOne
        <3>3. t \notin Open \cup Arriving
            BY <2>3, <2>5, <3>2 DEF Open, Arriving, Passing
        <3>4. Open' = Open /\ Arriving' = Arriving \cup {t}
            BY <2>3, <2>4, <2>5, <2>7, <3>2 DEF Open, Arriving, Passing
        <3>5. Cardinality(Arriving) < Cardinality(Sender) + MaxFaults
            <4>1. /\ Cardinality(Arriving) \in Nat
                  /\ Cardinality(Arriving) <= Cardinality(Sender) - 1 + faults + crashes
                BY <1>0, <2>3, FewArriving DEF IInv
            <4>2. /\ crashes \in Nat /\ faults \in Nat /\ crashes + faults <= MaxFaults /\ MaxFaults \in Nat
                  /\ Cardinality(Sender) \in Nat
                BY <1>0, Countable DEF TypeOK, IInv
            <4> QED
                BY <4>1, <4>2
        <3>6. SlotAdmit(t)
            BY <3>1, <3>3, <3>4, <3>5 DEF SlotAdmit
        <3> QED
            BY <3>6 DEF SlotMove
    <2> QED
        BY <2>6, <2>7
<1>8. ASSUME NEW s \in Sender, Refuse(s) \/ ProtectFails(s) \/ Watch(s) \/ Crash(s) PROVE SlotMove
    <2>1. sender'[s] = Idle /\ \A r \in Sender \ {s} : sender'[r] = sender[r]
        BY <1>0, <1>8, Done DEF Refuse, ProtectFails, Watch, Crash
    <2>2. book' = book /\ sender[s].trade \in Trade
        BY <1>0, <1>8 DEF Refuse, ProtectFails, Watch, Crash, TypeOK, SenderType
    <2> QED
        BY <1>1, <2>1, <2>2 DEF Idle
<1>9. ASSUME NEW s \in Sender, WriteAhead(s) PROVE SlotMove
    <2>1. /\ sender' = [sender EXCEPT ![s].pc = "send"] /\ sender[s].pc = "decide" /\ sender[s].ok
          /\ "send" \in PCs \ {"idle"} /\ book' = book
        BY <1>9 DEF WriteAhead, PCs
    <2>2. /\ sender'[s].pc = "send" /\ sender'[s].trade = sender[s].trade /\ sender[s].trade \in Trade
          /\ \A r \in Sender \ {s} : sender'[r] = sender[r]
        BY <1>0, <2>1, Moved
    <2> QED
        BY <1>1, <2>1, <2>2
<1>10. ASSUME NEW s \in Sender, Hear(s) \/ HearNothing(s) PROVE SlotMove
    <2>0. sender[s].pc = "hear" /\ book' = book /\ sender[s].trade \in Trade
        BY <1>0, <1>10 DEF Hear, HearNothing, TypeOK, SenderType
    <2>1. /\ sender'[s].pc \in {"idle", "protect", "watch"}
          /\ sender'[s].trade = sender[s].trade \/ sender'[s].trade = NoTrade
          /\ \A r \in Sender \ {s} : sender'[r] = sender[r]
        <3>1. CASE sender' = [sender EXCEPT ![s] = Idle]
            BY <1>0, <3>1, Done DEF Idle
        <3>2. CASE \E next \in {"watch", "protect"} : sender' = [sender EXCEPT ![s].pc = next]
            <4>1. PICK next \in {"watch", "protect"} : sender' = [sender EXCEPT ![s].pc = next]
                BY <3>2
            <4>2. next \in PCs \ {"idle"} /\ sender[s].pc # "idle"
                BY <2>0 DEF PCs
            <4> QED
                BY <1>0, <4>1, <4>2, Moved
        <3> QED
            BY <1>10, <3>1, <3>2 DEF Hear, HearNothing
    <2> QED
        BY <1>1, <2>0, <2>1
<1>11. ASSUME NEW s \in Sender, Transmit(s) \/ Protect(s) PROVE SlotMove
    <2>0. PICK t \in Trade : t = sender[s].trade
        BY <1>0, <1>11 DEF Transmit, Protect, TypeOK, SenderType
    <2>1. /\ sender'[s].pc \in {"idle", "hear"} /\ (sender'[s].trade = t \/ sender'[s].trade = NoTrade)
          /\ \A r \in Sender \ {s} : sender'[r] = sender[r]
        <3>1. CASE Protect(s)
            BY <1>0, <3>1, Done DEF Protect, Idle
        <3>2. CASE Transmit(s)
            <4>1. sender' = [sender EXCEPT ![s].pc = "hear"] /\ "hear" \in PCs \ {"idle"} /\ sender[s].pc # "idle"
                BY <3>2 DEF Transmit, PCs
            <4> QED
                BY <1>0, <2>0, <4>1, Moved
        <3> QED
            BY <1>11, <3>1, <3>2
    <2>2. /\ \A u \in Trade \ {t} : Past(u, {"decide", "send"})' <=> Past(u, {"decide", "send"})
          /\ Past(t, {"decide", "send"}) <=> s \in Passing({"decide", "send"})
          /\ Past(t, {"decide", "send"})' <=> sender'[s].trade = t /\ s \in Passing({"decide", "send"})'
        BY <1>0, <2>0, <2>1, PastOne
    <2>3. /\ \A u \in Trade \ {t} : book'[u] = book[u]
          /\ \/ sender[s].pc = "send" /\ sender[s].ok /\ book[t] = "none" /\ book'[t] \in {"resting", "refused"}
             \/ book'[t] = IF book[t] = "resting" THEN "withdrawn" ELSE book[t]
        BY <1>0, <1>11, <2>0 DEF Transmit, Protect, Structure, Stages, Stage
    <2>4. t \in Arriving' => t \in Arriving
        BY <2>1, <2>2, <2>3 DEF Arriving, Passing
    <2>5. t \in Open' => t \in Open
        BY <2>3 DEF Open
    <2> QED
        BY <1>0, <2>2, <2>3, <2>4, <2>5, MovesSlot
<1>12. ASSUME NEW t \in Trade, Trading(t) PROVE SlotMove
    <2>1. /\ sender' = sender /\ \A u \in Trade \ {t} : book'[u] = book[u]
          /\ \/ book[t] = "resting" /\ book'[t] = "open"
             \/ book[t] = "open" /\ book'[t] = "closed"
        BY <1>0, <1>12 DEF Trading
    <2>2. \A u \in Trade : Past(u, {"decide", "send"})' <=> Past(u, {"decide", "send"})
        BY <2>1 DEF Past
    <2>3. (t \in Arriving' => t \in Arriving) /\ (t \in Open' => t \in Open \/ t \in Arriving)
        BY <2>1, <2>2 DEF Arriving, Open
    <2> QED
        BY <1>0, <2>1, <2>2, <2>3, MovesSlot
<1>13. ASSUME UNCHANGED <<book, sender>> PROVE SlotMove
    BY <1>13 DEF SlotMove, SlotStutter, Open, Arriving, Past
<1>14. ASSUME \E t \in Trade : Age(t) \/ Resolve(t) PROVE SlotMove
    BY <1>13, <1>14 DEF Age, Resolve
<1>15. ASSUME Move \/ UNCHANGED vars PROVE SlotMove
    BY <1>13, <1>15 DEF Move, vars
<1> QED
    BY <1>2, <1>3, <1>4, <1>5, <1>6, <1>7, <1>8, <1>9, <1>10, <1>11, <1>12, <1>14, <1>15 DEF Next, SenderStep

\* The allowance counts as the limits do; a position takes one unit.
LEMMA SlotTotal ==
    ASSUME NEW S, IsFiniteSet(S), S \subseteq Trade
    PROVE  SlotAllowance!Total(S) = Cardinality(S) /\ SlotAllowance!Cardinality(Arriving) = Cardinality(Arriving)
<1> DEFINE one == [t \in Trade |-> 1]
<1>1. \A U : SlotAllowance!Cardinality(U) = Cardinality(U)
    BY DEF Cardinality, SlotAllowance!Cardinality
<1>2. SlotAllowance!Total(S) = Cardinality({p \in S \X (1 .. 1) : p[2] <= one[p[1]]})
    BY <1>1 DEF SlotAllowance!Total
<1>3. \A p \in S \X (1 .. 1) : p[2] <= one[p[1]]
    OBVIOUS
<1>4. {p \in S \X (1 .. 1) : p[2] <= one[p[1]]} = S \X (1 .. 1)
    BY <1>3
<1>5. IsFiniteSet(1 .. 1) /\ Cardinality(1 .. 1) = 1
    <2>1. 1 \in Int
        OBVIOUS
    <2>2. IsFiniteSet(1 .. 1) /\ Cardinality(1 .. 1) = IF 1 > 1 THEN 0 ELSE 1 - 1 + 1
        BY <2>1, FS_Interval
    <2> QED
        BY <2>2
<1>6. Cardinality(S \X (1 .. 1)) = Cardinality(S) * 1 /\ Cardinality(S) \in Nat
    BY <1>5, FS_Product, FS_CardinalityType
<1>7. Cardinality(S) * 1 = Cardinality(S)
    BY <1>6
<1>8. SlotAllowance!Total(S) = Cardinality(S)
    <2> HIDE DEF one
    <2> QED
        BY <1>2, <1>4, <1>6, <1>7
<1> QED
    BY <1>1, <1>8

\* The checks on the positions are an allowance too: a trade is let in on the
\* positions the account shows, and comes off when it closes (live_risk.py:470).
THEOREM ImplementsSlots_Holds == Spec => ImplementsSlots
<1>1. Init => SlotAllowance!Init
    BY DEF Init, SlotAllowance!Init, Open, Arriving, Past, Idle
<1>2. IInv /\ [Next]_vars => [SlotAllowance!Next]_<<Open, Arriving>>
    <2> SUFFICES ASSUME IInv, [Next]_vars PROVE [SlotAllowance!Next]_<<Open, Arriving>>
        OBVIOUS
    <2>1. CASE SlotStutter
        BY <2>1 DEF SlotStutter
    <2>2. ASSUME NEW t \in Trade, SlotDrop(t) PROVE SlotAllowance!Next
        <3>1. SlotAllowance!Drop(t)
            BY <2>2 DEF SlotAllowance!Drop, SlotDrop
        <3> QED
            BY <3>1 DEF SlotAllowance!Next
    <2>3. ASSUME NEW t \in Trade, SlotCharge(t) PROVE SlotAllowance!Next
        <3>1. SlotAllowance!Charge(t)
            BY <2>3 DEF SlotAllowance!Charge, SlotCharge
        <3> QED
            BY <3>1 DEF SlotAllowance!Next
    <2>4. ASSUME NEW t \in Trade, SlotRelease(t) PROVE SlotAllowance!Next
        <3>1. SlotAllowance!Release(t)
            BY <2>4 DEF SlotAllowance!Release, SlotRelease
        <3> QED
            BY <3>1 DEF SlotAllowance!Next
    <2>5. ASSUME NEW t \in Trade, SlotAdmit(t) PROVE SlotAllowance!Next
        <3>1. IsFiniteSet(Open) /\ Open \subseteq Trade /\ Cardinality(Open) \in Nat
            <4>1. Open \in SUBSET OnRecord /\ Open \subseteq Trade
                BY DEF Open, OnRecord, IInv, TypeOK
            <4> QED
                BY <4>1, FS_Subset, FS_CardinalityType DEF IInv
        <3>2. SlotAllowance!Total(Open) = Cardinality(Open) /\ SlotAllowance!Cardinality(Arriving) = Cardinality(Arriving)
            BY <3>1, SlotTotal
        <3>3. Cardinality(Open) + 1 <= MaxOpen /\ [u \in Trade |-> 1][t] = 1
            BY <2>5, <3>1, LimitsAssumption DEF SlotAdmit, Room
        <3>4. SlotAllowance!Total(Open) + [u \in Trade |-> 1][t] <= MaxOpen
            BY <3>2, <3>3
        <3>5. SlotAllowance!Admit(t)
            BY <2>5, <3>2, <3>4 DEF SlotAllowance!Admit, SlotAdmit
        <3> QED
            BY <3>5 DEF SlotAllowance!Next
    <2> QED
        BY <2>1, <2>2, <2>3, <2>4, <2>5, SlotMoves DEF SlotMove
<1> QED
    BY <1>1, <1>2, Invariance, PTL DEF Spec, ImplementsSlots, SlotAllowance!Spec

=============================================================================
