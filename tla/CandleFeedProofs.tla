-------------------------- MODULE CandleFeedProofs --------------------------
(***************************************************************************)
(* A candle is processed once and as it is stored, and when its time is over,  *)
(* for any instruments, any number of messages handled side by side and any    *)
(* disconnections, renewals, failures and crashes.                            *)
(*                                                                          *)
(* The candle and its snapshot are committed together, and a snapshot is        *)
(* never taken away: whoever commits it first is the only one to process the    *)
(* candle.  What can be early is what the flush finds when it comes back from   *)
(* an await.                                                                 *)
(***************************************************************************)
EXTENDS CandleFeed, FiniteSetTheorems, TLAPS

JobType  == [pc : JobPCs, token : Token, bucket : Bucket, n : 0 .. Broker, gen : Gen]
LoopType == [pc : LoopPCs, wanted : {"RUNNING", "STOPPED"}, caughtUp : BOOLEAN, todo : SUBSET Token,
             done : 0 .. Cardinality(Token), token : Token, next : 0 .. Last + 1, last : -1 .. Last]

-----------------------------------------------------------------------------
(* The inductive invariant.                                                  *)

\* A feed will be started without more trouble than there was.
StartDue ==
    \/ feed = "none" /\ loop.pc # "backfill" /\ (control = "RUNNING" \/ (loop.pc = "act" /\ loop.wanted = "RUNNING"))
    \/ feed = "done"
    \/ feed = "alive" /\ renewed
    \/ feed = "alive" /\ loop.pc = "act" /\ loop.wanted = "STOPPED" /\ control = "RUNNING"

\* A feed is started once, and once more for some trouble.
Started == IF StartDue THEN gen <= spent.trouble ELSE gen <= spent.trouble + 1

\* What the flush has listed it will find, though it may be another candle by then;
\* what it has completed was over when it looked.
Listed ==
    /\ loop.pc = "flush" => /\ loop.done + Cardinality(loop.todo) <= Cardinality(Token)
                            /\ \A t \in loop.todo : open[gen][t].n # 0
                            /\ loop.todo # {} => loop.done > 0
    /\ loop.pc \notin {"flush", "backfill", "catchup"} => loop.todo = {}
    /\ loop.pc # "flush" => loop.done = 0
    /\ loop.pc = "backfill" => feed = "none" /\ ~renewed

\* A tick is of a time that has come; only the worker's loop leaves a candle early.
InTime == \A k \in Task : job[k].pc = "consume" => job[k].bucket <= clock

\* The candle and the snapshot are committed together.
Together ==
    /\ \A key \in Key : stored[key] # 0 => snapped[key]
    /\ \A k \in Task : job[k].pc = "snapshot" => snapped[KeyOf(k)] \/ KeyOf(k) \in bare

\* Who processes a candle has stored its snapshot, and no other does.
Once ==
    /\ \A k \in Task : job[k].pc = "process" => snapped[KeyOf(k)] /\ ~done[KeyOf(k)]
    /\ \A key \in Key : done[key] => snapped[key]
    /\ \A k, j \in Task : job[k].pc = "process" /\ job[j].pc = "process" /\ KeyOf(k) = KeyOf(j) => k = j

IInv == TypeOK /\ Started /\ Listed /\ InTime /\ ClosedUnlessFlushing /\ Together /\ Once /\ ProcessedAsStored

-----------------------------------------------------------------------------
(* The lemmas of one coroutine and of the loop.                              *)

LEMMA Constants ==
    /\ Last \in Nat /\ MaxTicks \in Nat /\ MaxTrouble \in Nat /\ "worker" \in Task /\ Handler \subseteq Task
    /\ AnyToken \in Token /\ NoCandle \in Candle /\ Idle \in JobType
    /\ 0 \in Bucket /\ 0 \in Gen /\ Cardinality(Token) \in Nat
<1>1. /\ Last \in Nat /\ MaxTicks \in Nat /\ MaxTrouble \in Nat /\ "worker" \in Task /\ Handler \subseteq Task
      /\ AnyToken \in Token /\ Cardinality(Token) \in Nat
    BY FeedAssumption, FS_CardinalityType DEF AnyToken, Task
<1>2. 0 \in Bucket /\ 0 \in Gen
    BY <1>1 DEF Bucket, Gen
<1> QED
    BY <1>1, <1>2 DEF NoCandle, Candle, Idle, JobType, JobPCs, Broker

\* One coroutine goes on.
LEMMA OneJob ==
    ASSUME TypeOK, NEW k \in Task, NEW x, job' = [job EXCEPT ![k] = x]
    PROVE  /\ job'[k] = x
           /\ \A j \in Task \ {k} : job'[j] = job[j]
           /\ x \in JobType => job' \in [Task -> JobType]
    BY DEF TypeOK, JobType

\* The types, one by one.
LEMMA Types ==
    TypeOK <=>
      /\ clock \in 0 .. Last + 1
      /\ control \in {"RUNNING", "STOPPED"} /\ renewed \in BOOLEAN /\ feed \in {"none", "alive", "done"}
      /\ gen \in Gen
      /\ open \in [Gen -> [Token -> Candle]]
      /\ job \in [Task -> JobType]
      /\ \A k \in Task : job[k].pc \notin {"idle"} => job[k].n # 0
      /\ loop \in LoopType
      /\ stored \in [Key -> 0 .. Broker] /\ snapped \in [Key -> BOOLEAN]
      /\ bare \subseteq Key /\ done \in [Key -> BOOLEAN]
      /\ spent \in [ticks : 0 .. MaxTicks, trouble : 0 .. MaxTrouble]
    BY DEF TypeOK, JobType, LoopType

LEMMA TypesAfter == (
    /\ clock' \in 0 .. Last + 1
    /\ control' \in {"RUNNING", "STOPPED"} /\ renewed' \in BOOLEAN /\ feed' \in {"none", "alive", "done"}
    /\ gen' \in Gen
    /\ open' \in [Gen -> [Token -> Candle]]
    /\ job' \in [Task -> JobType]
    /\ \A k \in Task : job'[k].pc \notin {"idle"} => job'[k].n # 0
    /\ loop' \in LoopType
    /\ stored' \in [Key -> 0 .. Broker] /\ snapped' \in [Key -> BOOLEAN]
    /\ bare' \subseteq Key /\ done' \in [Key -> BOOLEAN]
    /\ spent' \in [ticks : 0 .. MaxTicks, trouble : 0 .. MaxTrouble]
    ) => TypeOK'
    BY DEF TypeOK, JobType, LoopType

\* The key a coroutine is at.
LEMMA Keyed ==
    ASSUME TypeOK, NEW k \in Task
    PROVE  job[k] \in JobType /\ KeyOf(k) \in Key /\ KeyOf(k) = <<job[k].token, job[k].bucket>>
    BY DEF TypeOK, JobType, KeyOf, Key

\* A bounded counter is counted.
LEMMA Spending ==
    ASSUME TypeOK
    PROVE  /\ Spend("ticks", MaxTicks) => /\ spent' \in [ticks : 0 .. MaxTicks, trouble : 0 .. MaxTrouble]
                                          /\ spent'.trouble = spent.trouble
           /\ Trouble => /\ spent' \in [ticks : 0 .. MaxTicks, trouble : 0 .. MaxTrouble]
                         /\ spent'.trouble = spent.trouble + 1
<1>1. spent \in [ticks : 0 .. MaxTicks, trouble : 0 .. MaxTrouble]
    BY DEF TypeOK
<1>2. /\ MaxTicks \in Nat /\ MaxTrouble \in Nat /\ spent.ticks \in Nat /\ spent.trouble \in Nat
      /\ spent = [ticks |-> spent.ticks, trouble |-> spent.trouble]
    BY <1>1, Constants
<1>3. ASSUME Spend("ticks", MaxTicks)
      PROVE  /\ spent' \in [ticks : 0 .. MaxTicks, trouble : 0 .. MaxTrouble]
             /\ spent'.trouble = spent.trouble
    <2>1. spent.ticks < MaxTicks /\ spent' = [spent EXCEPT !.ticks = spent.ticks + 1]
        BY <1>3 DEF Spend
    <2>2. spent' = [ticks |-> spent.ticks + 1, trouble |-> spent.trouble]
        BY <1>2, <2>1
    <2> QED
        BY <1>1, <1>2, <2>1, <2>2
<1>4. ASSUME Trouble
      PROVE  /\ spent' \in [ticks : 0 .. MaxTicks, trouble : 0 .. MaxTrouble]
             /\ spent'.trouble = spent.trouble + 1
    <2>1. spent.trouble < MaxTrouble /\ spent' = [spent EXCEPT !.trouble = spent.trouble + 1]
        BY <1>4 DEF Trouble, Spend
    <2>2. spent' = [ticks |-> spent.ticks, trouble |-> spent.trouble + 1]
        BY <1>2, <2>1
    <2> QED
        BY <1>1, <1>2, <2>1, <2>2
<1> QED
    BY <1>3, <1>4

\* The loop begins again.
LEMMA Rests ==
    ASSUME TypeOK
    PROVE  /\ Rest \in LoopType /\ Rest.pc = "top" /\ Rest.todo = {} /\ Rest.done = 0
           /\ Rest.wanted = loop.wanted
<1>1. loop \in LoopType
    BY Types
<1>2. 0 \in 0 .. Last + 1 /\ -1 \in -1 .. Last /\ 0 \in 0 .. Cardinality(Token) /\ AnyToken \in Token
    BY Constants
<1> QED
    BY <1>1, <1>2 DEF Rest, LoopType, LoopPCs


-----------------------------------------------------------------------------
(* Types.                                                                    *)

LEMMA PutCandle ==
    ASSUME NEW f \in [Gen -> [Token -> Candle]], NEW g \in Gen, NEW t \in Token, NEW c \in Candle
    PROVE  [f EXCEPT ![g][t] = c] \in [Gen -> [Token -> Candle]]
    OBVIOUS

\* What a candle is completed with.
LEMMA Completes ==
    ASSUME TypeOK, NEW k \in Task, NEW t \in Token, NEW c \in Candle, c.n # 0, job' = Complete(k, t, c)
    PROVE  /\ job' \in [Task -> JobType]
           /\ job'[k] = [pc |-> "check", token |-> t, bucket |-> c.bucket, n |-> c.n, gen |-> 0]
           /\ \A j \in Task \ {k} : job'[j] = job[j]
           /\ job'[k].n # 0
<1> DEFINE x == [pc |-> "check", token |-> t, bucket |-> c.bucket, n |-> c.n, gen |-> 0]
<1>1. x \in JobType /\ x.n # 0
    BY Constants DEF JobType, JobPCs, Candle, Broker, Bucket
<1>2. job' = [job EXCEPT ![k] = x]
    BY DEF Complete
<1> QED
    BY <1>1, <1>2, OneJob

\* Every step keeps the types.
LEMMA StepType ==
    ASSUME TypeOK, Started, Listed, [Next]_vars
    PROVE  TypeOK'
<1>0. /\ clock \in 0 .. Last + 1 /\ control \in {"RUNNING", "STOPPED"} /\ renewed \in BOOLEAN
      /\ feed \in {"none", "alive", "done"} /\ gen \in Gen
      /\ open \in [Gen -> [Token -> Candle]]
      /\ job \in [Task -> JobType] /\ (\A k \in Task : job[k] \in JobType)
      /\ \A k \in Task : job[k].pc \notin {"idle"} => job[k].n # 0
      /\ loop \in LoopType
      /\ stored \in [Key -> 0 .. Broker] /\ snapped \in [Key -> BOOLEAN]
      /\ bare \subseteq Key /\ done \in [Key -> BOOLEAN]
      /\ spent \in [ticks : 0 .. MaxTicks, trouble : 0 .. MaxTrouble]
      /\ Idle.pc = "idle"
    BY Types DEF Idle
\* A step of one coroutine that only works on its candle.
<1>1. ASSUME NEW k \in Task, NEW x \in JobType, job' = [job EXCEPT ![k] = x], x.pc = "idle" \/ x.n # 0
      PROVE  job' \in [Task -> JobType] /\ \A j \in Task : job'[j].pc \notin {"idle"} => job'[j].n # 0
    BY <1>0, <1>1, OneJob
<1>2. ASSUME NEW k \in Task, NEW pc \in JobPCs, job' = [job EXCEPT ![k].pc = pc], job[k].pc # "idle"
      PROVE  job' \in [Task -> JobType] /\ \A j \in Task : job'[j].pc \notin {"idle"} => job'[j].n # 0
    <2>1. [job[k] EXCEPT !.pc = pc] \in JobType /\ [job[k] EXCEPT !.pc = pc].n = job[k].n
        BY <1>0, <1>2 DEF JobType
    <2>2. job' = [job EXCEPT ![k] = [job[k] EXCEPT !.pc = pc]]
        BY <1>2
    <2> QED
        BY <1>0, <1>1, <1>2, <2>1, <2>2
<1>3. ASSUME NEW h \in Handler, Tick(h) PROVE TypeOK'
    <2>1. PICK t \in Token : job' = [job EXCEPT ![h] = [pc |-> "consume", token |-> t, bucket |-> clock, n |-> 1, gen |-> gen]]
        BY <1>3 DEF Tick
    <2>2. [pc |-> "consume", token |-> t, bucket |-> clock, n |-> 1, gen |-> gen] \in JobType
        BY <1>0, <1>3 DEF Tick, JobType, JobPCs, Broker
    <2>3. job' \in [Task -> JobType] /\ \A j \in Task : job'[j].pc \notin {"idle"} => job'[j].n # 0
        <3>1. h \in Task /\ [pc |-> "consume", token |-> t, bucket |-> clock, n |-> 1, gen |-> gen].n # 0
            BY Constants
        <3> QED
            BY <1>1, <2>1, <2>2, <3>1
    <2>4. spent' \in [ticks : 0 .. MaxTicks, trouble : 0 .. MaxTrouble]
        BY <1>3, Spending DEF Tick
    <2>5. UNCHANGED <<clock, control, renewed, feed, gen, open, loop, stored, snapped, bare, done>>
        BY <1>3 DEF Tick, supervisor, database
    <2> QED
        BY <1>0, <2>3, <2>4, <2>5, TypesAfter
<1>4. ASSUME NEW h \in Handler, Consume(h) PROVE TypeOK'
    <2> DEFINE tick == job[h]
               current == open[tick.gen][tick.token]
               fresh == [bucket |-> tick.bucket, n |-> 1]
    <2>0. h \in Task /\ tick \in JobType /\ tick.pc = "consume"
        BY <1>0, <1>4, Constants DEF Consume
    <2>1. tick.gen \in Gen /\ tick.token \in Token /\ tick.bucket \in Bucket
        BY <2>0 DEF JobType
    <2>2. current \in Candle /\ fresh \in Candle
        BY <1>0, <2>1 DEF Candle
    <2>3. [current EXCEPT !.n = IF @ < 2 THEN @ + 1 ELSE @] \in Candle
        BY <2>2 DEF Candle
    <2>4. open' \in [Gen -> [Token -> Candle]]
        <3>1. open' = open \/ \E c \in Candle : open' = [open EXCEPT ![tick.gen][tick.token] = c]
            BY <1>4, <2>2, <2>3 DEF Consume
        <3>2. \A c \in Candle : [open EXCEPT ![tick.gen][tick.token] = c] \in [Gen -> [Token -> Candle]]
            BY <1>0, <2>1, PutCandle
        <3>3. CASE open' = open
            BY <1>0, <3>3
        <3>4. CASE \E c \in Candle : open' = [open EXCEPT ![tick.gen][tick.token] = c]
            <4>1. PICK c \in Candle : open' = [open EXCEPT ![tick.gen][tick.token] = c]
                BY <3>4
            <4>2. [open EXCEPT ![tick.gen][tick.token] = c] \in [Gen -> [Token -> Candle]]
                BY <3>2
            <4> QED
                BY <4>1, <4>2
        <3> QED
            BY <3>1, <3>3, <3>4
    <2>5. job' = [job EXCEPT ![h] = Idle] \/ (current.n # 0 /\ job' = Complete(h, tick.token, current))
        BY <1>4 DEF Consume
    <2>6. job' \in [Task -> JobType] /\ \A j \in Task : job'[j].pc \notin {"idle"} => job'[j].n # 0
        <3>1. CASE job' = [job EXCEPT ![h] = Idle]
            BY <1>0, <1>1, <2>0, <3>1, Constants
        <3>2. CASE current.n # 0 /\ job' = Complete(h, tick.token, current)
            <4> HIDE DEF current
            <4> QED
                BY <1>0, <2>0, <2>1, <2>2, <3>2, Completes
        <3> QED
            BY <2>5, <3>1, <3>2
    <2>7. UNCHANGED <<clock, control, renewed, feed, gen, loop, stored, snapped, bare, done, spent>>
        BY <1>4 DEF Consume, supervisor, database
    <2> QED
        BY <1>0, <2>4, <2>6, <2>7, TypesAfter
<1>5. ASSUME NEW k \in Task, Check(k) PROVE TypeOK'
    <2>1. job' = [job EXCEPT ![k] = Idle] \/ job' = [job EXCEPT ![k].pc = "insert"]
        BY <1>5 DEF Check
    <2>2. job' \in [Task -> JobType] /\ \A j \in Task : job'[j].pc \notin {"idle"} => job'[j].n # 0
        BY <1>0, <1>1, <1>2, <1>5, <2>1, Constants DEF Check, JobPCs
    <2>3. UNCHANGED <<clock, control, renewed, feed, gen, open, loop, stored, snapped, bare, done, spent>>
        BY <1>5 DEF Check, supervisor, database
    <2> QED
        BY <1>0, <2>2, <2>3, TypesAfter
<1>6. ASSUME NEW k \in Task, Insert(k) PROVE TypeOK'
    <2>1. /\ \E pc \in JobPCs : job' = [job EXCEPT ![k].pc = pc]
          /\ bare' = bare \/ bare' = bare \cup {KeyOf(k)}
          /\ spent' = spent \/ Trouble
          /\ job[k].pc = "insert"
        BY <1>6 DEF Insert, JobPCs
    <2>2. job' \in [Task -> JobType] /\ \A j \in Task : job'[j].pc \notin {"idle"} => job'[j].n # 0
        BY <1>2, <2>1
    <2>3. bare' \subseteq Key
        BY <1>0, <2>1, Keyed
    <2>4. spent' \in [ticks : 0 .. MaxTicks, trouble : 0 .. MaxTrouble]
        BY <1>0, <2>1, Spending
    <2>5. UNCHANGED <<clock, control, renewed, feed, gen, open, loop, stored, snapped, done>>
        BY <1>6 DEF Insert, supervisor
    <2> QED
        BY <1>0, <2>2, <2>3, <2>4, <2>5, TypesAfter
<1>7. ASSUME NEW k \in Task, Commit(k) PROVE TypeOK'
    <2>1. /\ job' = [job EXCEPT ![k] = Idle] \/ job' = [job EXCEPT ![k].pc = "process"]
          /\ job[k].pc # "idle"
        BY <1>7 DEF Commit
    <2>2. job' \in [Task -> JobType] /\ \A j \in Task : job'[j].pc \notin {"idle"} => job'[j].n # 0
        BY <1>0, <1>1, <1>2, <2>1, Constants DEF JobPCs
    <2>3. /\ stored' = stored \/ stored' = [stored EXCEPT ![KeyOf(k)] = job[k].n]
          /\ snapped' = snapped \/ snapped' = [snapped EXCEPT ![KeyOf(k)] = TRUE]
        BY <1>7 DEF Commit
    <2>4. stored' \in [Key -> 0 .. Broker] /\ snapped' \in [Key -> BOOLEAN]
        <3>1. job[k].n \in 0 .. Broker /\ KeyOf(k) \in Key
            BY Keyed DEF JobType
        <3> QED
            BY <1>0, <2>3, <3>1
    <2>5. UNCHANGED <<clock, control, renewed, feed, gen, open, loop, bare, done, spent>>
        BY <1>7 DEF Commit, supervisor
    <2> QED
        BY <1>0, <2>2, <2>4, <2>5, TypesAfter
<1>8. ASSUME NEW k \in Task, Process(k) PROVE TypeOK'
    <2>1. job' \in [Task -> JobType] /\ \A j \in Task : job'[j].pc \notin {"idle"} => job'[j].n # 0
        BY <1>0, <1>1, <1>8, Constants DEF Process
    <2>2. done' \in [Key -> BOOLEAN]
        BY <1>0, <1>8, Keyed DEF Process
    <2>3. UNCHANGED <<clock, control, renewed, feed, gen, open, loop, stored, snapped, bare, spent>>
        BY <1>8 DEF Process, supervisor
    <2> QED
        BY <1>0, <2>1, <2>2, <2>3, TypesAfter
<1>9. ASSUME NEW k \in Task, Fail(k) PROVE TypeOK'
    <2>1. job' \in [Task -> JobType] /\ \A j \in Task : job'[j].pc \notin {"idle"} => job'[j].n # 0
        BY <1>0, <1>1, <1>9, Constants DEF Fail
    <2>2. loop' \in LoopType
        <3>1. loop' = loop \/ loop' = Rest \/ loop' = [loop EXCEPT !.next = 0, !.last = -1]
            BY <1>9 DEF Fail
        <3>2. [loop EXCEPT !.next = 0, !.last = -1] \in LoopType
            <4>1. 0 \in 0 .. Last + 1 /\ -1 \in -1 .. Last
                BY Constants
            <4> QED
                BY <1>0, <4>1 DEF LoopType
        <3> QED
            BY <1>0, <3>1, <3>2, Rests
    <2>3. spent' \in [ticks : 0 .. MaxTicks, trouble : 0 .. MaxTrouble]
        BY <1>9, Spending DEF Fail
    <2>4. UNCHANGED <<clock, control, renewed, feed, gen, open, stored, snapped, bare, done>>
        BY <1>9 DEF Fail, supervisor, database
    <2> QED
        BY <1>0, <2>1, <2>2, <2>3, <2>4, TypesAfter
<1>10. ASSUME ReadControl PROVE TypeOK'
    <2>1. [loop EXCEPT !.pc = "act", !.wanted = control] \in LoopType
        BY <1>0 DEF LoopType, LoopPCs
    <2> QED
        BY <1>0, <1>10, <2>1, TypesAfter DEF ReadControl, supervisor, database
<1>11. ASSUME Reap \/ Stop \/ StandBy PROVE TypeOK'
    <2>1. [loop EXCEPT !.pc = "top"] \in LoopType
        BY <1>0 DEF LoopType, LoopPCs
    <2>2. /\ feed' \in {"none", "alive", "done"} /\ renewed' \in BOOLEAN /\ loop' \in LoopType
          /\ UNCHANGED <<clock, control, gen, open, job, stored, snapped, bare, done, spent>>
        BY <1>0, <1>11, <2>1 DEF Reap, Stop, StandBy, supervisor, database
    <2> QED
        BY <1>0, <2>2, TypesAfter
<1>12. ASSUME Start PROVE TypeOK'
    <2>1. gen + 1 \in Gen
        <3>1. gen <= spent.trouble
            BY <1>0, <1>12 DEF Start, Started, StartDue, Listed, At
        <3>2. spent.trouble \in 0 .. MaxTrouble /\ gen \in Nat
            BY <1>0, Constants DEF Gen
        <3> QED
            BY <3>1, <3>2, Constants DEF Gen
    <2>2. open' \in [Gen -> [Token -> Candle]]
        BY <1>0, <1>12, Constants DEF Start
    <2>3. [loop EXCEPT !.pc = "backfill", !.todo = Token] \in LoopType
        BY <1>0 DEF LoopType, LoopPCs
    <2> QED
        BY <1>0, <1>12, <2>1, <2>2, <2>3, TypesAfter DEF Start, database
<1>13. ASSUME Fetch PROVE TypeOK'
    <2>1. PICK last \in {clock - 1, clock - 2} : \E t \in loop.todo :
            last >= -1 /\ loop' = [loop EXCEPT !.todo = loop.todo \ {t}, !.token = t, !.next = 0, !.last = last]
        <3>1. (CHOOSE u \in loop.todo : TRUE) \in loop.todo
            BY <1>13 DEF Fetch
        <3> QED
            BY <1>13, <3>1 DEF Fetch
    <2>2. PICK t \in loop.todo : loop' = [loop EXCEPT !.todo = loop.todo \ {t}, !.token = t, !.next = 0, !.last = last]
        BY <2>1
    <2>3. last \in -1 .. Last
        BY <1>0, <2>1, Constants
    <2>4. loop.todo \in SUBSET Token
        BY <1>0 DEF LoopType
    <2>5. loop' \in LoopType
        <3>1. 0 \in 0 .. Last + 1 /\ t \in Token /\ loop.todo \ {t} \in SUBSET Token
            BY <2>4, Constants
        <3> QED
            BY <1>0, <2>2, <2>3, <3>1 DEF LoopType
    <2> QED
        BY <1>0, <1>13, <2>5, TypesAfter DEF Fetch, supervisor, database
<1>14. ASSUME Backfill PROVE TypeOK'
    <2>1. /\ loop.next \in Bucket /\ loop.next + 1 \in 0 .. Last + 1 /\ loop.token \in Token
        BY <1>0, <1>14, Constants DEF Backfill, LoopType, Bucket
    <2>2. loop' \in LoopType
        BY <1>0, <1>14, <2>1 DEF Backfill, LoopType
    <2>3. [pc |-> "insert", token |-> loop.token, bucket |-> loop.next, n |-> Broker, gen |-> 0] \in JobType
        BY <2>1, Constants DEF JobType, JobPCs, Broker
    <2>4. job' \in [Task -> JobType] /\ \A j \in Task : job'[j].pc \notin {"idle"} => job'[j].n # 0
        <3>1. \/ job' = job
              \/ job' = [job EXCEPT !["worker"] = [pc |-> "insert", token |-> loop.token, bucket |-> loop.next, n |-> Broker, gen |-> 0]]
            BY <1>14 DEF Backfill
        <3> QED
            BY <1>0, <1>1, <2>3, <3>1, Constants DEF Broker
    <2> QED
        BY <1>0, <1>14, <2>2, <2>4, TypesAfter DEF Backfill, supervisor, database
<1>15. ASSUME BackfillEnd PROVE TypeOK'
    <2>1. [Rest EXCEPT !.caughtUp = (loop.pc = "catchup")] \in LoopType
        BY Rests DEF LoopType
    <2>2. /\ feed' \in {"none", "alive", "done"} /\ loop' \in LoopType
          /\ UNCHANGED <<clock, control, renewed, gen, open, job, stored, snapped, bare, done, spent>>
        BY <1>0, <1>15, <2>1 DEF BackfillEnd, database
    <2> QED
        BY <1>0, <2>2, TypesAfter
\* The flush takes a candle out.
<1>16. ASSUME NEW t \in Token, NEW todo, todo \subseteq Token, Pop(t, todo), open[gen][t].n # 0,
              loop.done + 1 <= Cardinality(Token), UNCHANGED <<clock, supervisor, gen, database, spent>>
       PROVE  TypeOK'
    <2>1. open[gen][t] \in Candle
        BY <1>0
    <2>2. job' \in [Task -> JobType] /\ \A j \in Task : job'[j].pc \notin {"idle"} => job'[j].n # 0
        BY <1>0, <1>16, <2>1, Completes, Constants DEF Pop
    <2>3. open' \in [Gen -> [Token -> Candle]]
        BY <1>0, <1>16, Constants DEF Pop
    <2>4. loop' \in LoopType
        <3>1. loop.done + 1 \in 0 .. Cardinality(Token) /\ todo \ {t} \in SUBSET Token
            BY <1>0, <1>16, Constants DEF LoopType
        <3> QED
            BY <1>0, <1>16, <3>1 DEF Pop, LoopType, LoopPCs
    <2> QED
        BY <1>0, <1>16, <2>2, <2>3, <2>4, TypesAfter DEF supervisor, database
<1>17. ASSUME Look PROVE TypeOK'
    <2>1. CASE Expired = {} /\ loop' = [loop EXCEPT !.pc = "flush"] /\ UNCHANGED <<open, job>>
        <3>1. loop' \in LoopType
            BY <1>0, <2>1 DEF LoopType, LoopPCs
        <3> QED
            BY <1>0, <1>17, <2>1, <3>1, TypesAfter DEF Look, supervisor, database
    <2>2. CASE \E t \in Expired : Pop(t, Expired)
        <3>1. PICK t \in Expired : Pop(t, Expired)
            BY <2>2
        <3>2. loop.done = 0
            BY <1>17 DEF Look, At, Listed
        <3>3. 1 <= Cardinality(Token)
            <4>1. Cardinality(Token) # 0
                BY FeedAssumption, FS_EmptySet
            <4> QED
                BY <4>1, Constants
        <3> QED
            BY <1>16, <1>17, <3>1, <3>2, <3>3 DEF Look, Expired
    <2> QED
        BY <1>17, <2>1, <2>2 DEF Look
<1>18. ASSUME Flush PROVE TypeOK'
    <2>1. PICK t \in loop.todo : Pop(t, loop.todo)
        BY <1>18 DEF Flush
    <2>2. loop.todo \subseteq Token /\ loop.done \in Nat
        BY <1>0, Constants DEF LoopType
    <2>3. loop.done + Cardinality(loop.todo) <= Cardinality(Token) /\ open[gen][t].n # 0
        BY <1>18, <2>1 DEF Flush, At, Listed
    <2>4. Cardinality(loop.todo) \in Nat /\ Cardinality(loop.todo) # 0
        <3>1. IsFiniteSet(loop.todo)
            BY <2>2, FeedAssumption, FS_Subset
        <3> QED
            BY <2>1, <3>1, FS_EmptySet, FS_CardinalityType
    <2>5. loop.done + 1 <= Cardinality(Token)
        BY <2>2, <2>3, <2>4, Constants
    <2> QED
        BY <1>16, <1>18, <2>1, <2>2, <2>3, <2>5 DEF Flush
<1>19. ASSUME FlushEnd PROVE TypeOK'
    <2>1. [Rest EXCEPT !.pc = "catchup", !.todo = Token, !.caughtUp = TRUE] \in LoopType
        BY Rests DEF LoopType, LoopPCs
    <2> QED
        BY <1>0, <1>19, <2>1, Rests, TypesAfter DEF FlushEnd, supervisor, database
<1>20. ASSUME Advance PROVE TypeOK'
    <2>1. clock + 1 \in 0 .. Last + 1
        BY <1>0, <1>20, Constants DEF Advance
    <2> QED
        BY <1>0, <1>20, <2>1, TypesAfter DEF Advance, supervisor, database
<1>21. ASSUME SetControl \/ Renew \/ Disconnect PROVE TypeOK'
    <2>1. spent' \in [ticks : 0 .. MaxTicks, trouble : 0 .. MaxTrouble]
        BY <1>21, Spending DEF SetControl, Renew, Disconnect
    <2>2. /\ control' \in {"RUNNING", "STOPPED"} /\ renewed' \in BOOLEAN /\ feed' \in {"none", "alive", "done"}
          /\ UNCHANGED <<clock, gen, open, job, loop, stored, snapped, bare, done>>
        BY <1>0, <1>21 DEF SetControl, Renew, Disconnect, database
    <2> QED
        BY <1>0, <2>1, <2>2, TypesAfter
<1>22. ASSUME Crash PROVE TypeOK'
    <2>1. /\ spent' \in [ticks : 0 .. MaxTicks, trouble : 0 .. MaxTrouble]
          /\ feed' = "none" /\ renewed' = FALSE
          /\ UNCHANGED <<clock, control, gen, stored, snapped, bare, done>>
        BY <1>22, Spending DEF Crash, database
    <2>2. open' \in [Gen -> [Token -> Candle]] /\ job' \in [Task -> JobType]
        BY <1>22, Constants DEF Crash
    <2>3. (\A k \in Task : job'[k].pc = "idle") /\ loop' \in LoopType
        BY <1>0, <1>22, Rests DEF Crash
    <2> QED
        BY <1>0, <2>1, <2>2, <2>3, TypesAfter
<1>23. CASE UNCHANGED vars
    BY <1>0, <1>23, TypesAfter DEF vars, supervisor, database
<1>24. ASSUME NEW k \in Task, Persist(k) PROVE TypeOK'
    BY <1>5, <1>6, <1>7, <1>8, <1>24 DEF Persist
<1> QED
    BY <1>3, <1>4, <1>24, <1>9, <1>10, <1>11, <1>12, <1>13, <1>14, <1>15, <1>17, <1>18, <1>19, <1>20, <1>21, <1>22, <1>23,
       Constants DEF Next, Work


-----------------------------------------------------------------------------
(* The feed and the loop.                                                    *)

\* Every step keeps the count of the feeds that were started.
LEMMA StepStarted ==
    ASSUME TypeOK, Started, Listed, [Next]_vars
    PROVE  Started'
<1>0. /\ gen \in Nat /\ spent.trouble \in Nat /\ loop \in LoopType
      /\ control \in {"RUNNING", "STOPPED"} /\ feed \in {"none", "alive", "done"}
      /\ loop.pc \in LoopPCs /\ loop.wanted \in {"RUNNING", "STOPPED"}
    BY Types, Constants DEF Gen, LoopType
<1>1. gen <= spent.trouble + 1 /\ (StartDue => gen <= spent.trouble)
    BY <1>0 DEF Started
<1>2. ASSUME Trouble, gen' = gen PROVE Started'
    <2>1. gen' <= spent'.trouble /\ gen' <= spent'.trouble + 1
        BY <1>0, <1>1, <1>2, Spending
    <2> QED
        BY <2>1 DEF Started
<1>3. ASSUME StartDue' => StartDue, gen' = gen, spent'.trouble = spent.trouble PROVE Started'
    BY <1>1, <1>3 DEF Started
<1>4. ASSUME UNCHANGED <<supervisor, gen>>, loop'.pc = loop.pc, loop'.wanted = loop.wanted,
             spent'.trouble = spent.trouble
      PROVE  Started'
    BY <1>3, <1>4 DEF StartDue, supervisor
<1>5. ASSUME NEW h \in Handler, Tick(h) PROVE Started'
    BY <1>4, <1>5, Spending DEF Tick
<1>6. ASSUME NEW k \in Task, Consume(k) \/ Check(k) \/ Commit(k) \/ Process(k) PROVE Started'
    BY <1>4, <1>6 DEF Consume, Check, Commit, Process
<1>7. ASSUME NEW k \in Task, Insert(k) PROVE Started'
    BY <1>2, <1>4, <1>7 DEF Insert
<1>8. ASSUME NEW k \in Task, Fail(k) PROVE Started'
    BY <1>2, <1>8 DEF Fail
<1>9. ASSUME SetControl \/ Renew \/ Disconnect \/ Crash PROVE Started'
    BY <1>2, <1>9 DEF SetControl, Renew, Disconnect, Crash
<1>10. ASSUME ReadControl PROVE Started'
    <2>1. loop.pc = "top" /\ loop'.pc = "act" /\ loop'.wanted = control
        BY <1>0, <1>10 DEF ReadControl, At, LoopType
    <2> QED
        BY <1>0, <1>3, <1>10, <2>1 DEF ReadControl, StartDue, supervisor
<1>11. ASSUME Reap \/ Stop \/ StandBy PROVE Started'
    <2>1. loop.pc = "act" /\ loop'.pc = "top"
        BY <1>0, <1>11 DEF Reap, Stop, StandBy, At, LoopType
    <2> QED
        BY <1>0, <1>3, <1>11, <2>1 DEF Reap, Stop, StandBy, StartDue, supervisor
<1>12. ASSUME Start PROVE Started'
    <2>1. loop'.pc = "backfill" /\ feed' = "none" /\ gen' = gen + 1 /\ spent' = spent
        BY <1>0, <1>12 DEF Start, LoopType
    <2>2. StartDue
        BY <1>0, <1>12 DEF Start, StartDue, At
    <2>3. gen' <= spent'.trouble + 1
        BY <1>0, <1>1, <2>1, <2>2
    <2> QED
        BY <2>1, <2>3 DEF Started, StartDue
<1>13. ASSUME Fetch PROVE Started'
    <2>1. loop'.pc = loop.pc /\ loop'.wanted = loop.wanted
        BY <1>0, <1>13 DEF Fetch, LoopType
    <2> QED
        BY <1>4, <1>13, <2>1 DEF Fetch
<1>14. ASSUME Backfill PROVE Started'
    <2>1. loop'.pc = loop.pc /\ loop'.wanted = loop.wanted
        BY <1>0, <1>14 DEF Backfill, LoopType
    <2> QED
        BY <1>4, <1>14, <2>1 DEF Backfill
<1>15. ASSUME BackfillEnd PROVE Started'
    <2>1. loop'.pc = "top"
        BY <1>15, Rests DEF BackfillEnd, LoopType
    <2>2. loop.pc = "backfill" => feed = "none" /\ ~renewed
        BY DEF Listed
    <2>3. CASE loop.pc = "backfill"
        BY <1>3, <1>15, <2>1, <2>2, <2>3 DEF BackfillEnd, StartDue
    <2>4. CASE loop.pc # "backfill"
        BY <1>3, <1>15, <2>1, <2>4 DEF BackfillEnd, StartDue
    <2> QED
        BY <2>3, <2>4
<1>16. ASSUME Look PROVE Started'
    <2>1. loop.pc = "act" /\ loop'.pc = "flush"
        BY <1>0, <1>16 DEF Look, Pop, At, LoopType
    <2> QED
        BY <1>0, <1>3, <1>16, <2>1 DEF Look, StartDue, supervisor
<1>17. ASSUME Flush PROVE Started'
    <2>1. loop.pc = "flush" /\ loop'.pc = "flush" /\ loop'.wanted = loop.wanted
        BY <1>0, <1>17 DEF Flush, Pop, At, LoopType
    <2> QED
        BY <1>4, <1>17, <2>1 DEF Flush
<1>18. ASSUME FlushEnd PROVE Started'
    <2>1. loop.pc = "flush" /\ loop'.pc \in {"top", "catchup"}
        BY <1>18, Rests DEF FlushEnd, At, LoopType
    <2> QED
        BY <1>0, <1>3, <1>18, <2>1 DEF FlushEnd, StartDue, supervisor
<1>19. ASSUME Advance \/ UNCHANGED vars PROVE Started'
    BY <1>4, <1>19 DEF Advance, vars
<1>20. ASSUME NEW k \in Task, Persist(k) PROVE Started'
    BY <1>6, <1>7, <1>20 DEF Persist
<1> QED
    BY <1>5, <1>6, <1>20, <1>8, <1>9, <1>10, <1>11, <1>12, <1>13, <1>14, <1>15, <1>16, <1>17, <1>18, <1>19, Constants
    DEF Next, Work

\* What is left of a list when one is taken.
LEMMA OneLess ==
    ASSUME NEW S, S \subseteq Token, NEW t \in S
    PROVE  Cardinality(S \ {t}) = Cardinality(S) - 1 /\ Cardinality(S) \in Nat /\ Cardinality(S) <= Cardinality(Token)
           /\ Cardinality(S \ {t}) \in Nat
<1>1. IsFiniteSet(S) /\ Cardinality(S) <= Cardinality(Token)
    BY FeedAssumption, FS_Subset
<1>2. IsFiniteSet(S \ {t}) /\ Cardinality(S \ {t}) = Cardinality(S) - 1
    BY <1>1, FS_RemoveElement
<1> QED
    BY <1>1, <1>2, FS_CardinalityType

\* Every step keeps what the loop has in hand.
LEMMA StepListed ==
    ASSUME TypeOK, Listed, [Next]_vars
    PROVE  Listed'
<1>0. /\ gen \in Gen /\ open \in [Gen -> [Token -> Candle]] /\ loop \in LoopType
      /\ \A k \in Task : job[k] \in JobType
      /\ feed \in {"none", "alive", "done"}
      /\ loop.pc \in LoopPCs /\ loop.todo \subseteq Token /\ loop.done \in Nat
    BY Types, Constants DEF LoopType
<1>1. ASSUME UNCHANGED <<feed, renewed, gen, open>>, loop'.pc = loop.pc, loop'.todo = loop.todo, loop'.done = loop.done
      PROVE  Listed'
    BY <1>1 DEF Listed
<1>2. ASSUME loop'.pc = "top", loop'.todo = {}, loop'.done = 0 PROVE Listed'
    BY <1>2 DEF Listed
<1>3. ASSUME NEW h \in Handler, Tick(h) PROVE Listed'
    BY <1>1, <1>3 DEF Tick, supervisor
<1>4. ASSUME NEW h \in Handler, Consume(h) PROVE Listed'
    <2> DEFINE tick == job[h]
               current == open[tick.gen][tick.token]
    <2>0. h \in Task /\ tick.gen \in Gen /\ tick.token \in Token
        BY <1>0, Constants DEF JobType
    <2>1. current.n \in 0 .. 2
        BY <1>0, <2>0 DEF Candle
    <2>2. open' = open \/ \E c : c.n # 0 /\ open' = [open EXCEPT ![tick.gen][tick.token] = c]
        <3>1. [bucket |-> tick.bucket, n |-> 1].n # 0
            OBVIOUS
        <3>2. [current EXCEPT !.n = IF current.n < 2 THEN current.n + 1 ELSE current.n].n # 0
            <4>1. current = [bucket |-> current.bucket, n |-> current.n]
                BY <1>0, <2>0 DEF Candle
            <4> QED
                BY <2>1, <4>1
        <3> QED
            BY <1>4, <3>1, <3>2 DEF Consume
    <2>3. \A t \in Token : open[gen][t].n # 0 => open'[gen][t].n # 0
        BY <1>0, <2>0, <2>2
    <2>4. UNCHANGED <<feed, renewed, gen, loop>>
        BY <1>4 DEF Consume, supervisor
    <2> QED
        BY <1>0, <2>3, <2>4 DEF Listed
<1>5. ASSUME NEW k \in Task, Check(k) \/ Insert(k) \/ Commit(k) \/ Process(k) PROVE Listed'
    BY <1>1, <1>5 DEF Check, Insert, Commit, Process, supervisor
<1>6. ASSUME NEW k \in Task, Fail(k) PROVE Listed'
    <2>1. loop' = Rest \/ (loop'.pc = loop.pc /\ loop'.todo = loop.todo /\ loop'.done = loop.done)
        BY <1>0, <1>6 DEF Fail, LoopType
    <2> QED
        BY <1>1, <1>2, <1>6, <2>1, Rests DEF Fail, supervisor
<1>7. ASSUME SetControl PROVE Listed'
    BY <1>1, <1>7 DEF SetControl
<1>8. ASSUME Renew \/ Disconnect PROVE Listed'
    BY <1>8 DEF Renew, Disconnect, Listed
<1>9. ASSUME Crash PROVE Listed'
    BY <1>2, <1>9, Rests DEF Crash
<1>10. ASSUME ReadControl PROVE Listed'
    <2>1. loop.pc = "top" /\ loop'.pc = "act" /\ loop'.todo = loop.todo /\ loop'.done = loop.done
        BY <1>0, <1>10 DEF ReadControl, At, LoopType
    <2> QED
        BY <2>1 DEF Listed
<1>11. ASSUME Reap \/ Stop \/ StandBy PROVE Listed'
    <2>1. loop.pc = "act" /\ loop'.pc = "top" /\ loop'.todo = loop.todo /\ loop'.done = loop.done
        BY <1>0, <1>11 DEF Reap, Stop, StandBy, At, LoopType
    <2> QED
        BY <2>1 DEF Listed
<1>12. ASSUME Start PROVE Listed'
    <2>1. loop.pc = "act" /\ loop'.pc = "backfill" /\ loop'.done = loop.done /\ feed' = "none" /\ ~renewed'
        BY <1>0, <1>12 DEF Start, At, LoopType
    <2> QED
        BY <2>1 DEF Listed
<1>13. ASSUME Fetch \/ Backfill PROVE Listed'
    <2>1. loop'.pc = loop.pc /\ loop.pc \in {"backfill", "catchup"} /\ loop'.done = loop.done
        BY <1>0, <1>13 DEF Fetch, Backfill, At, LoopType
    <2>2. UNCHANGED <<feed, renewed>>
        BY <1>13 DEF Fetch, Backfill, supervisor
    <2> QED
        BY <2>1, <2>2 DEF Listed
<1>14. ASSUME BackfillEnd PROVE Listed'
    <2>1. loop'.pc = "top" /\ loop'.todo = {} /\ loop'.done = 0
        BY <1>14, Rests DEF BackfillEnd, LoopType
    <2> QED
        BY <1>2, <2>1
\* The flush takes a candle out: the others of its list are where they were.
<1>15. ASSUME NEW todo, todo \subseteq Token, NEW t \in todo, Pop(t, todo), gen' = gen,
              loop.done + Cardinality(todo) <= Cardinality(Token), \A u \in todo : open[gen][u].n # 0
       PROVE  Listed'
    <2>1. loop'.pc = "flush" /\ loop'.todo = todo \ {t} /\ loop'.done = loop.done + 1
        BY <1>0, <1>15 DEF Pop, LoopType
    <2>2. \A u \in todo \ {t} : open'[gen][u] = open[gen][u]
        BY <1>0, <1>15 DEF Pop
    <2>3. loop'.done + Cardinality(loop'.todo) <= Cardinality(Token)
        BY <1>0, <1>15, <2>1, OneLess, Constants
    <2>4. loop'.done > 0
        BY <1>0, <2>1
    <2> QED
        BY <1>15, <2>1, <2>2, <2>3, <2>4 DEF Listed
<1>16. ASSUME Look PROVE Listed'
    <2>1. loop.pc = "act" /\ loop.done = 0 /\ loop.todo = {}
        BY <1>16 DEF Look, At, Listed
    <2>2. CASE \E t \in Expired : Pop(t, Expired)
        <3>1. PICK t \in Expired : Pop(t, Expired)
            BY <2>2
        <3>2. Expired \subseteq Token /\ \A u \in Expired : open[gen][u].n # 0
            BY DEF Expired
        <3>3. loop.done + Cardinality(Expired) <= Cardinality(Token)
            <4>1. Cardinality(Expired) \in Nat /\ Cardinality(Expired) <= Cardinality(Token)
                BY <3>1, <3>2, OneLess
            <4> QED
                BY <2>1, <4>1, Constants
        <3> QED
            BY <1>15, <1>16, <3>1, <3>2, <3>3 DEF Look
    <2>3. CASE loop' = [loop EXCEPT !.pc = "flush"]
        <3>1. loop'.pc = "flush" /\ loop'.todo = {} /\ loop'.done = 0
            BY <1>0, <2>1, <2>3 DEF LoopType
        <3>2. Cardinality({}) = 0
            BY FS_EmptySet
        <3> QED
            BY <3>1, <3>2, Constants DEF Listed
    <2> QED
        BY <1>16, <2>2, <2>3 DEF Look
<1>17. ASSUME Flush PROVE Listed'
    <2>1. PICK t \in loop.todo : Pop(t, loop.todo)
        BY <1>17 DEF Flush
    <2>2. gen' = gen /\ loop.pc = "flush"
        BY <1>17 DEF Flush, At
    <2> QED
        BY <1>0, <1>15, <2>1, <2>2 DEF Listed
<1>18. ASSUME FlushEnd PROVE Listed'
    <2>1. CASE loop' = Rest
        BY <1>2, <2>1, Rests
    <2>2. CASE loop' = [Rest EXCEPT !.pc = "catchup", !.todo = Token, !.caughtUp = TRUE]
        <3>1. loop'.pc = "catchup" /\ loop'.done = 0
            BY <2>2, Rests DEF LoopType
        <3> QED
            BY <3>1 DEF Listed
    <2> QED
        BY <1>18, <2>1, <2>2 DEF FlushEnd
<1>19. ASSUME Advance \/ UNCHANGED vars PROVE Listed'
    BY <1>1, <1>19 DEF Advance, vars, supervisor
<1>20. ASSUME NEW k \in Task, Persist(k) PROVE Listed'
    BY <1>5, <1>20 DEF Persist
<1> QED
    BY <1>3, <1>4, <1>20, <1>6, <1>7, <1>8, <1>9, <1>10, <1>11, <1>12, <1>13, <1>14, <1>16, <1>17, <1>18, <1>19, Constants
    DEF Next, Work


-----------------------------------------------------------------------------
(* The candles.                                                              *)

\* What a step does to the coroutines and to what is stored: one of them goes on
\* with its candle, which is the database's business in three cases only; or the
\* process dies.
NewJob(k) ==
    /\ \A j \in Task \ {k} : job'[j] = job[j]
    /\ job'[k].pc \in {"idle", "consume", "check", "insert"}
    /\ UNCHANGED <<stored, snapped, bare, done>>

SameJobs == UNCHANGED <<job, stored, snapped, bare, done>>

AllIdle == (\A k \in Task : job'[k].pc = "idle") /\ UNCHANGED <<stored, snapped, bare, done>>

LEMMA Deeds ==
    ASSUME TypeOK, [Next]_vars
    PROVE  \/ \E k \in Task : NewJob(k) \/ Insert(k) \/ Commit(k) \/ Process(k)
           \/ SameJobs \/ AllIdle
<1>0. \A k \in Task : job[k] \in JobType
    BY Types
\* One coroutine is set to a candle that it does not process yet.
<1>1. ASSUME NEW k \in Task, NEW x, job' = [job EXCEPT ![k] = x], x.pc \in {"idle", "consume", "check", "insert"},
             UNCHANGED <<stored, snapped, bare, done>>
      PROVE  NewJob(k)
    BY <1>1, OneJob DEF NewJob
<1>2. ASSUME NEW h \in Handler, Tick(h) PROVE NewJob(h)
    <2>1. PICK t \in Token : job' = [job EXCEPT ![h] = [pc |-> "consume", token |-> t, bucket |-> clock, n |-> 1, gen |-> gen]]
        BY <1>2 DEF Tick
    <2>2. [pc |-> "consume", token |-> t, bucket |-> clock, n |-> 1, gen |-> gen].pc = "consume"
        OBVIOUS
    <2> QED
        BY <1>1, <1>2, <2>1, <2>2, Constants DEF Tick, database
\* A candle is completed.
<1>3. ASSUME NEW k \in Task, NEW t, NEW c, job' = Complete(k, t, c), UNCHANGED <<stored, snapped, bare, done>>
      PROVE  NewJob(k)
    BY <1>1, <1>3 DEF Complete
<1>4. ASSUME NEW h \in Handler, Consume(h) PROVE NewJob(h)
    <2>1. \/ job' = [job EXCEPT ![h] = Idle]
          \/ \E t, c : job' = Complete(h, t, c)
        BY <1>4 DEF Consume
    <2>2. UNCHANGED <<stored, snapped, bare, done>> /\ h \in Task
        BY <1>4, Constants DEF Consume, database
    <2> QED
        BY <1>1, <1>3, <2>1, <2>2 DEF Idle
<1>5. ASSUME NEW k \in Task, Check(k) PROVE NewJob(k)
    <2>1. \/ job' = [job EXCEPT ![k] = Idle]
          \/ job' = [job EXCEPT ![k] = [job[k] EXCEPT !.pc = "insert"]]
        BY <1>5 DEF Check
    <2>2. [job[k] EXCEPT !.pc = "insert"].pc = "insert"
        BY <1>0 DEF JobType
    <2> QED
        BY <1>1, <1>5, <2>1, <2>2 DEF Check, database, Idle
<1>6. ASSUME NEW k \in Task, Fail(k) PROVE NewJob(k)
    BY <1>1, <1>6 DEF Fail, database, Idle
<1>7. ASSUME Backfill PROVE SameJobs \/ NewJob("worker")
    <2>1. \/ job' = job
          \/ job' = [job EXCEPT !["worker"] = [pc |-> "insert", token |-> loop.token, bucket |-> loop.next, n |-> Broker, gen |-> 0]]
        BY <1>7 DEF Backfill
    <2>2. [pc |-> "insert", token |-> loop.token, bucket |-> loop.next, n |-> Broker, gen |-> 0].pc = "insert"
        OBVIOUS
    <2> QED
        BY <1>1, <1>7, <2>1, <2>2, Constants DEF Backfill, database, SameJobs
<1>8. ASSUME Look \/ Flush PROVE SameJobs \/ NewJob("worker")
    <2>1. job' = job \/ \E t, c : job' = Complete("worker", t, c)
        BY <1>8 DEF Look, Flush, Pop
    <2> QED
        BY <1>3, <1>8, <2>1, Constants DEF Look, Flush, database, SameJobs
<1>9. ASSUME \/ ReadControl \/ Reap \/ Stop \/ StandBy \/ Start \/ Fetch \/ BackfillEnd \/ FlushEnd
             \/ Advance \/ SetControl \/ Renew \/ Disconnect \/ UNCHANGED vars
      PROVE  SameJobs
    BY <1>9 DEF ReadControl, Reap, Stop, StandBy, Start, Fetch, BackfillEnd, FlushEnd, Advance, SetControl, Renew,
       Disconnect, vars, database, SameJobs
<1>10. ASSUME Crash PROVE AllIdle
    BY <1>10 DEF Crash, AllIdle, Idle, database
<1>11. ASSUME NEW k \in Task, Persist(k) PROVE NewJob(k) \/ Insert(k) \/ Commit(k) \/ Process(k)
    BY <1>5, <1>11 DEF Persist
<1> QED
    BY <1>2, <1>4, <1>6, <1>7, <1>8, <1>9, <1>10, <1>11, Constants DEF Next, Work

\* Another coroutine keeps its candle.
LEMMA OtherKey == ASSUME NEW j, job'[j] = job[j] PROVE KeyOf(j)' = KeyOf(j)
    BY DEF KeyOf

\* What Insert does.
LEMMA Inserts ==
    ASSUME TypeOK, NEW k \in Task, Insert(k)
    PROVE  /\ \A j \in Task \ {k} : job'[j] = job[j]
           /\ KeyOf(k)' = KeyOf(k) /\ KeyOf(k) \in Key
           /\ UNCHANGED <<stored, snapped, done>>
           /\ \/ job'[k].pc = "commit" /\ bare' = bare
              \/ job'[k].pc = "snapshot" /\ stored[KeyOf(k)] # 0 /\ bare' = bare
              \/ job'[k].pc = "snapshot" /\ bare' = bare \cup {KeyOf(k)}
<1>1. job[k] \in JobType /\ KeyOf(k) \in Key
    BY Keyed
<1>2. ASSUME NEW pc, job' = [job EXCEPT ![k].pc = pc]
      PROVE  job'[k].pc = pc /\ KeyOf(k)' = KeyOf(k) /\ \A j \in Task \ {k} : job'[j] = job[j]
    <2>1. job' = [job EXCEPT ![k] = [job[k] EXCEPT !.pc = pc]]
        BY <1>2
    <2>2. job'[k] = [job[k] EXCEPT !.pc = pc] /\ \A j \in Task \ {k} : job'[j] = job[j]
        BY <2>1, OneJob
    <2> QED
        BY <1>1, <2>2 DEF KeyOf, JobType
<1> QED
    BY <1>1, <1>2 DEF Insert

\* What Commit does: nothing when the snapshot is there, or all.
LEMMA Commits ==
    ASSUME TypeOK, NEW k \in Task, Commit(k)
    PROVE  /\ \A j \in Task \ {k} : job'[j] = job[j]
           /\ KeyOf(k) \in Key /\ UNCHANGED <<bare, done>>
           /\ \/ job'[k].pc = "idle" /\ UNCHANGED <<stored, snapped>>
              \/ /\ ~snapped[KeyOf(k)] /\ snapped' = [snapped EXCEPT ![KeyOf(k)] = TRUE]
                 /\ job'[k].pc = "process" /\ KeyOf(k)' = KeyOf(k) /\ job'[k].n = job[k].n
                 /\ \/ job[k].pc = "commit" /\ stored' = [stored EXCEPT ![KeyOf(k)] = job[k].n]
                    \/ job[k].pc = "snapshot" /\ stored' = stored
<1>1. job[k] \in JobType /\ KeyOf(k) \in Key
    BY Keyed
<1>2. CASE snapped[KeyOf(k)]
    BY <1>1, <1>2, OneJob DEF Commit, Idle
<1>3. CASE ~snapped[KeyOf(k)]
    <2>1. job' = [job EXCEPT ![k] = [job[k] EXCEPT !.pc = "process"]]
        BY <1>3 DEF Commit
    <2>2. job'[k] = [job[k] EXCEPT !.pc = "process"] /\ \A j \in Task \ {k} : job'[j] = job[j]
        BY <2>1, OneJob
    <2>3. job'[k].pc = "process" /\ KeyOf(k)' = KeyOf(k) /\ job'[k].n = job[k].n
        BY <1>1, <2>2 DEF KeyOf, JobType
    <2> QED
        BY <1>1, <1>3, <2>2, <2>3 DEF Commit
<1> QED
    BY <1>2, <1>3

\* What Process does.
LEMMA Processes ==
    ASSUME TypeOK, NEW k \in Task, Process(k)
    PROVE  /\ job[k].pc = "process" /\ job'[k].pc = "idle" /\ \A j \in Task \ {k} : job'[j] = job[j]
           /\ KeyOf(k) \in Key /\ done' = [done EXCEPT ![KeyOf(k)] = TRUE]
           /\ UNCHANGED <<stored, snapped, bare>>
<1>1. job' = [job EXCEPT ![k] = Idle]
    BY DEF Process
<1>2. job'[k] = Idle /\ \A j \in Task \ {k} : job'[j] = job[j]
    BY <1>1, OneJob
<1>3. KeyOf(k) \in Key /\ UNCHANGED <<stored, snapped, bare>>
    BY Keyed DEF Process
<1> QED
    BY <1>2, <1>3 DEF Process, Idle

Stored == Together /\ Once /\ ProcessedAsStored

\* Every step keeps what is stored and processed together.
LEMMA StepStored ==
    ASSUME TypeOK, Stored, [Next]_vars
    PROVE  Stored'
<1>0. /\ stored \in [Key -> 0 .. Broker] /\ snapped \in [Key -> BOOLEAN] /\ done \in [Key -> BOOLEAN]
      /\ \A k \in Task : KeyOf(k) \in Key /\ job[k] \in JobType
    BY Types, Keyed
<1>1. ASSUME NEW k \in Task, NewJob(k) PROVE Stored'
    <2>1. \A j \in Task : job'[j].pc \in {"snapshot", "process"} => j # k /\ job'[j] = job[j] /\ KeyOf(j)' = KeyOf(j)
        BY <1>1, OtherKey DEF NewJob
    <2>2. UNCHANGED <<stored, snapped, bare, done>>
        BY <1>1 DEF NewJob
    <2> QED
        BY <2>1, <2>2 DEF Stored, Together, Once, ProcessedAsStored
<1>2. ASSUME NEW k \in Task, Insert(k) PROVE Stored'
    <2>1. \A j \in Task : job'[j].pc = "process" => j # k /\ job'[j] = job[j]
        BY <1>2, Inserts
    <2>2. \A j \in Task : KeyOf(j)' = KeyOf(j)
        BY <1>2, Inserts, OtherKey
    <2>3. \A key \in bare : key \in bare'
        BY <1>2, Inserts
    <2>4. Together'
        <3>1. ASSUME NEW j \in Task, job'[j].pc = "snapshot" PROVE snapped[KeyOf(j)] \/ KeyOf(j) \in bare'
            BY <1>0, <1>2, <2>3, <3>1, Inserts DEF Stored, Together
        <3>2. UNCHANGED <<stored, snapped>>
            BY <1>2, Inserts
        <3> QED
            BY <2>2, <3>1, <3>2 DEF Stored, Together
    <2>5. UNCHANGED <<stored, snapped, done>>
        BY <1>2, Inserts
    <2>6. Once'
        BY <2>1, <2>2, <2>5 DEF Stored, Once
    <2>7. ProcessedAsStored'
        BY <2>1, <2>2, <2>3, <2>5 DEF Stored, ProcessedAsStored
    <2> QED
        BY <2>4, <2>6, <2>7 DEF Stored
<1>3. ASSUME NEW k \in Task, Commit(k) PROVE Stored'
    <2>1. \A j \in Task \ {k} : job'[j] = job[j] /\ KeyOf(j)' = KeyOf(j)
        BY <1>3, Commits, OtherKey
    <2>2. UNCHANGED <<bare, done>>
        BY <1>3, Commits
    <2>3. CASE job'[k].pc = "idle" /\ UNCHANGED <<stored, snapped>>
        <3>1. \A j \in Task : job'[j].pc \in {"snapshot", "process"} => j # k /\ job'[j] = job[j] /\ KeyOf(j)' = KeyOf(j)
            BY <2>1, <2>3
        <3> QED
            BY <2>2, <2>3, <3>1 DEF Stored, Together, Once, ProcessedAsStored
    <2>4. CASE /\ ~snapped[KeyOf(k)] /\ snapped' = [snapped EXCEPT ![KeyOf(k)] = TRUE]
               /\ job'[k].pc = "process" /\ KeyOf(k)' = KeyOf(k) /\ job'[k].n = job[k].n
               /\ \/ job[k].pc = "commit" /\ stored' = [stored EXCEPT ![KeyOf(k)] = job[k].n]
                  \/ job[k].pc = "snapshot" /\ stored' = stored
        <3>1. PICK key \in Key : key = KeyOf(k)
            BY <1>0
        <3>2. /\ ~snapped[key] /\ snapped'[key] /\ \A other \in Key \ {key} : snapped'[other] = snapped[other]
              /\ \A other \in Key \ {key} : stored'[other] = stored[other]
            BY <1>0, <2>4, <3>1
        <3>3. \A j \in Task \ {k} : job'[j].pc = "process" => KeyOf(j)' # key
            BY <2>1, <3>2 DEF Stored, Once
        <3>4. ~done[key]
            BY <3>2 DEF Stored, Once
        <3>5. stored'[key] = job[k].n \/ (job[k].pc = "snapshot" /\ stored'[key] = stored[key])
            BY <1>0, <2>4, <3>1
        <3>6. Together'
            <4>1. \A other \in Key : stored'[other] # 0 => snapped'[other]
                BY <3>2 DEF Stored, Together
            <4>2. ASSUME NEW j \in Task, job'[j].pc = "snapshot" PROVE snapped'[KeyOf(j)'] \/ KeyOf(j)' \in bare'
                <5>1. j # k /\ KeyOf(j)' = KeyOf(j) /\ job[j].pc = "snapshot" /\ KeyOf(j) \in Key
                    BY <1>0, <2>1, <2>4, <4>2
                <5> QED
                    BY <2>2, <3>2, <5>1 DEF Stored, Together
            <4> QED
                BY <4>1, <4>2 DEF Together
        <3>7. Once'
            <4>1. ASSUME NEW j \in Task, job'[j].pc = "process" PROVE snapped'[KeyOf(j)'] /\ ~done'[KeyOf(j)']
                <5>1. CASE j = k
                    BY <2>2, <2>4, <3>1, <3>2, <3>4, <5>1
                <5>2. CASE j # k
                    <6>1. KeyOf(j)' = KeyOf(j) /\ job[j].pc = "process" /\ KeyOf(j) \in Key
                        BY <1>0, <2>1, <4>1, <5>2
                    <6> QED
                        BY <2>2, <3>2, <6>1 DEF Stored, Once
                <5> QED
                    BY <5>1, <5>2
            <4>2. \A other \in Key : done'[other] => snapped'[other]
                BY <2>2, <3>2 DEF Stored, Once
            <4>3. ASSUME NEW i \in Task, NEW j \in Task, job'[i].pc = "process", job'[j].pc = "process",
                         KeyOf(i)' = KeyOf(j)'
                  PROVE  i = j
                <5>1. CASE i = k \/ j = k
                    BY <2>4, <3>1, <3>3, <4>3, <5>1
                <5>2. CASE i # k /\ j # k
                    BY <2>1, <4>3, <5>2 DEF Stored, Once
                <5> QED
                    BY <5>1, <5>2
            <4> QED
                BY <4>1, <4>2, <4>3 DEF Once
        <3>8. ProcessedAsStored'
            <4>1. ASSUME NEW j \in Task, job'[j].pc = "process" PROVE stored'[KeyOf(j)'] = job'[j].n \/ KeyOf(j)' \in bare'
                <5>1. CASE j = k
                    <6>1. CASE stored'[key] = job[k].n
                        BY <2>4, <3>1, <5>1, <6>1
                    <6>2. CASE job[k].pc = "snapshot"
                        BY <2>2, <2>4, <3>1, <3>2, <5>1, <6>2 DEF Stored, Together
                    <6> QED
                        BY <3>5, <6>1, <6>2
                <5>2. CASE j # k
                    <6>1. KeyOf(j)' = KeyOf(j) /\ job'[j] = job[j] /\ KeyOf(j) \in Key /\ KeyOf(j) # key
                        BY <1>0, <2>1, <3>3, <4>1, <5>2
                    <6> QED
                        BY <2>2, <3>2, <4>1, <6>1 DEF Stored, ProcessedAsStored
                <5> QED
                    BY <5>1, <5>2
            <4> QED
                BY <4>1 DEF ProcessedAsStored
        <3> QED
            BY <3>6, <3>7, <3>8 DEF Stored
    <2> QED
        BY <1>3, <2>3, <2>4, Commits
<1>4. ASSUME NEW k \in Task, Process(k) PROVE Stored'
    <2>1. \A j \in Task : job'[j].pc \in {"snapshot", "process"} => j # k /\ job'[j] = job[j] /\ KeyOf(j)' = KeyOf(j)
        BY <1>4, Processes, OtherKey
    <2>2. PICK key \in Key : key = KeyOf(k)
        BY <1>0
    <2>3. snapped[key] /\ done'[key] /\ \A other \in Key \ {key} : done'[other] = done[other]
        BY <1>0, <1>4, <2>2, Processes DEF Stored, Once
    <2>4. UNCHANGED <<stored, snapped, bare>> /\ job[k].pc = "process"
        BY <1>4, Processes
    <2>5. \A j \in Task : job'[j].pc = "process" => KeyOf(j) # key /\ KeyOf(j) \in Key
        BY <1>0, <2>1, <2>2, <2>4 DEF Stored, Once
    <2>6. Together'
        BY <2>1, <2>4 DEF Stored, Together
    <2>7. Once'
        BY <2>1, <2>3, <2>4, <2>5 DEF Stored, Once
    <2>8. ProcessedAsStored'
        BY <2>1, <2>4 DEF Stored, ProcessedAsStored
    <2> QED
        BY <2>6, <2>7, <2>8 DEF Stored
<1>5. ASSUME SameJobs PROVE Stored'
    BY <1>5 DEF SameJobs, Stored, Together, Once, ProcessedAsStored, KeyOf
<1>6. ASSUME AllIdle PROVE Stored'
    BY <1>6 DEF AllIdle, Stored, Together, Once, ProcessedAsStored
<1> QED
    BY <1>1, <1>2, <1>3, <1>4, <1>5, <1>6, Deeds


-----------------------------------------------------------------------------
(* Time.                                                                     *)

\* Every step keeps to the time: what is put in a candle is of a time that has come,
\* and what is completed early the flush had listed.
LEMMA StepTime ==
    ASSUME TypeOK, Listed, InTime, ClosedUnlessFlushing, [Next]_vars
    PROVE  InTime' /\ ClosedUnlessFlushing'
<1>0. /\ clock \in Nat /\ gen \in Gen /\ open \in [Gen -> [Token -> Candle]] /\ loop \in LoopType
      /\ \A k \in Task : job[k] \in JobType /\ job[k].bucket \in Nat
    BY Types, Constants DEF JobType, Bucket
\* One coroutine is set to another candle, or to one that is completed.
<1>a. ASSUME NEW k \in Task, NEW x, job' = [job EXCEPT ![k] = x]
      PROVE  job'[k] = x /\ \A j \in Task \ {k} : job'[j] = job[j]
    BY <1>a, OneJob
<1>b. ASSUME NEW k \in Task, NEW t, NEW c, job' = Complete(k, t, c)
      PROVE  job'[k].pc = "check" /\ job'[k].bucket = c.bucket /\ \A j \in Task \ {k} : job'[j] = job[j]
    <2> DEFINE x == [pc |-> "check", token |-> t, bucket |-> c.bucket, n |-> c.n, gen |-> 0]
    <2>1. x.pc = "check" /\ x.bucket = c.bucket
        OBVIOUS
    <2>2. job' = [job EXCEPT ![k] = x]
        BY <1>b DEF Complete
    <2> HIDE DEF x
    <2>3. job'[k] = x /\ \A j \in Task \ {k} : job'[j] = job[j]
        BY <1>a, <2>2
    <2> QED
        BY <2>1, <2>3
<1>c. Idle.pc = "idle"
    BY DEF Idle
\* A coroutine that completes nothing, and no tick, the loop being elsewhere.
<1>1. ASSUME NEW k \in Task, \A j \in Task \ {k} : job'[j] = job[j], job'[k].pc \notin {"consume", "check"},
             UNCHANGED <<clock, loop>>
      PROVE  InTime' /\ ClosedUnlessFlushing'
    BY <1>1 DEF InTime, ClosedUnlessFlushing
\* The loop goes on, which is at nothing else.
<1>2. ASSUME job["worker"].pc = "idle", UNCHANGED <<clock, job>> PROVE InTime' /\ ClosedUnlessFlushing'
    BY <1>2 DEF InTime, ClosedUnlessFlushing
<1>3. ASSUME NEW h \in Handler, Tick(h) PROVE InTime' /\ ClosedUnlessFlushing'
    <2>1. PICK t \in Token : job' = [job EXCEPT ![h] = [pc |-> "consume", token |-> t, bucket |-> clock, n |-> 1, gen |-> gen]]
        BY <1>3 DEF Tick
    <2>2. job'[h].pc = "consume" /\ job'[h].bucket = clock /\ \A j \in Task \ {h} : job'[j] = job[j]
        <3> DEFINE x == [pc |-> "consume", token |-> t, bucket |-> clock, n |-> 1, gen |-> gen]
        <3>1. x.pc = "consume" /\ x.bucket = clock /\ h \in Task /\ job' = [job EXCEPT ![h] = x]
            BY <2>1, Constants
        <3> HIDE DEF x
        <3>2. job'[h] = x /\ \A j \in Task \ {h} : job'[j] = job[j]
            BY <1>a, <3>1
        <3> QED
            BY <3>1, <3>2
    <2>3. UNCHANGED <<clock, loop>>
        BY <1>3 DEF Tick
    <2> QED
        BY <1>0, <2>2, <2>3 DEF InTime, ClosedUnlessFlushing
<1>4. ASSUME NEW h \in Handler, Consume(h) PROVE InTime' /\ ClosedUnlessFlushing'
    <2> DEFINE tick == job[h]
               current == open[tick.gen][tick.token]
    <2>0. h \in Task /\ tick.pc = "consume" /\ tick.bucket <= clock
        BY <1>4, Constants DEF Consume, InTime
    <2>1. UNCHANGED <<clock, loop>>
        BY <1>4 DEF Consume
    <2>2. CASE job' = [job EXCEPT ![h] = Idle]
        <3>1. job'[h].pc = "idle" /\ \A j \in Task \ {h} : job'[j] = job[j]
            BY <1>a, <1>c, <2>0, <2>2
        <3> QED
            BY <1>1, <2>0, <2>1, <3>1
    <2>3. CASE current.n # 0 /\ tick.bucket > current.bucket /\ job' = Complete(h, tick.token, current)
        <3>1. current.bucket \in Nat
            BY <1>0, <2>0, Constants DEF JobType, Candle, Bucket
        <3>2. /\ job'[h].pc = "check" /\ job'[h].bucket = current.bucket
              /\ \A j \in Task \ {h} : job'[j] = job[j]
            <4> HIDE DEF current
            <4> QED
                BY <1>b, <2>0, <2>3
        <3>3. job'[h].bucket < clock
            <4>1. job[h].bucket \in Nat
                BY <1>0, <2>0
            <4> HIDE DEF current
            <4> QED
                BY <1>0, <2>0, <2>3, <3>1, <3>2, <4>1
        <3> QED
            BY <1>0, <2>1, <3>1, <3>2, <3>3 DEF InTime, ClosedUnlessFlushing
    <2> QED
        BY <1>4, <2>2, <2>3 DEF Consume
<1>5. ASSUME NEW k \in Task, Check(k) PROVE InTime' /\ ClosedUnlessFlushing'
    <2>1. \/ job' = [job EXCEPT ![k] = Idle]
          \/ job' = [job EXCEPT ![k] = [job[k] EXCEPT !.pc = "insert"]]
        BY <1>5 DEF Check
    <2>2. [job[k] EXCEPT !.pc = "insert"].pc = "insert"
        BY <1>0 DEF JobType
    <2>3. job'[k].pc \in {"idle", "insert"} /\ \A j \in Task \ {k} : job'[j] = job[j]
        <3>1. CASE job' = [job EXCEPT ![k] = Idle]
            BY <1>a, <1>c, <3>1
        <3>2. CASE job' = [job EXCEPT ![k] = [job[k] EXCEPT !.pc = "insert"]]
            BY <1>a, <2>2, <3>2
        <3> QED
            BY <2>1, <3>1, <3>2
    <2> QED
        BY <1>1, <1>5, <2>3 DEF Check
<1>6. ASSUME NEW k \in Task, Insert(k) \/ Commit(k) \/ Process(k) PROVE InTime' /\ ClosedUnlessFlushing'
    <2>1. job'[k].pc \notin {"consume", "check"} /\ \A j \in Task \ {k} : job'[j] = job[j]
        BY <1>6, Inserts, Commits, Processes
    <2> QED
        BY <1>1, <1>6, <2>1 DEF Insert, Commit, Process
<1>7. ASSUME NEW k \in Task, Fail(k) PROVE InTime' /\ ClosedUnlessFlushing'
    <2>1. job'[k].pc = "idle" /\ (\A j \in Task \ {k} : job'[j] = job[j]) /\ clock' = clock
        <3>1. job' = [job EXCEPT ![k] = Idle] /\ clock' = clock
            BY <1>7 DEF Fail
        <3> QED
            BY <1>a, <1>c, <3>1
    <2>2. k = "worker" \/ loop' = loop
        BY <1>7 DEF Fail
    <2> QED
        BY <2>1, <2>2 DEF InTime, ClosedUnlessFlushing
<1>8. ASSUME \/ ReadControl \/ Reap \/ Stop \/ StandBy \/ Start \/ Fetch \/ BackfillEnd \/ FlushEnd
      PROVE  InTime' /\ ClosedUnlessFlushing'
    <2>1. job["worker"].pc = "idle"
        BY <1>8 DEF ReadControl, Reap, Stop, StandBy, Start, Fetch, BackfillEnd, FlushEnd, At, Busy
    <2>2. UNCHANGED <<clock, job>>
        BY <1>8 DEF ReadControl, Reap, Stop, StandBy, Start, Fetch, BackfillEnd, FlushEnd
    <2> QED
        BY <1>2, <2>1, <2>2
<1>9. ASSUME Backfill PROVE InTime' /\ ClosedUnlessFlushing'
    <2> DEFINE x == [pc |-> "insert", token |-> loop.token, bucket |-> loop.next, n |-> Broker, gen |-> 0]
    <2>1. job["worker"].pc = "idle" /\ clock' = clock
        BY <1>9 DEF Backfill, At, Busy
    <2>2. CASE job' = job
        BY <1>2, <2>1, <2>2
    <2>3. CASE job' = [job EXCEPT !["worker"] = x]
        <3>1. job'["worker"].pc = "insert" /\ \A j \in Task \ {"worker"} : job'[j] = job[j]
            <4>1. x.pc = "insert" /\ "worker" \in Task
                BY Constants
            <4> HIDE DEF x
            <4> QED
                BY <1>a, <2>3, <4>1
        <3> QED
            BY <2>1, <3>1 DEF InTime, ClosedUnlessFlushing
    <2> QED
        BY <1>9, <2>2, <2>3 DEF Backfill
\* The flush takes a candle out: the first it has just seen to be over.
<1>10. ASSUME NEW t \in Token, NEW todo, Pop(t, todo), clock' = clock,
              open[gen][t].bucket < clock \/ loop.done > 0
       PROVE  InTime' /\ ClosedUnlessFlushing'
    <2>1. /\ job'["worker"].pc = "check" /\ job'["worker"].bucket = open[gen][t].bucket
          /\ \A j \in Task \ {"worker"} : job'[j] = job[j]
        <3>1. job' = Complete("worker", t, open[gen][t]) /\ "worker" \in Task
            BY <1>10, Constants DEF Pop
        <3> QED
            BY <1>b, <3>1
    <2>2. open[gen][t].bucket \in Nat /\ loop.done \in Nat
        BY <1>0, Constants DEF Candle, Bucket, LoopType
    <2>3. loop'.pc = "flush" /\ loop'.done = loop.done + 1
        BY <1>0, <1>10 DEF Pop, LoopType
    <2>4. job'["worker"].bucket >= clock => loop'.pc = "flush" /\ loop'.done > 1
        BY <1>0, <1>10, <2>1, <2>2, <2>3
    <2> QED
        BY <1>10, <2>1, <2>4 DEF InTime, ClosedUnlessFlushing
<1>11. ASSUME Look PROVE InTime' /\ ClosedUnlessFlushing'
    <2>1. job["worker"].pc = "idle" /\ clock' = clock
        BY <1>11 DEF Look, At, Busy
    <2>2. CASE \E t \in Expired : Pop(t, Expired)
        BY <1>10, <2>1, <2>2 DEF Expired
    <2> QED
        BY <1>2, <1>11, <2>1, <2>2 DEF Look
<1>12. ASSUME Flush PROVE InTime' /\ ClosedUnlessFlushing'
    <2>1. PICK t \in loop.todo : Pop(t, loop.todo)
        BY <1>12 DEF Flush
    <2>2. loop.done > 0 /\ clock' = clock /\ t \in Token
        BY <1>0, <1>12, <2>1 DEF Flush, At, Listed, LoopType
    <2> QED
        BY <1>10, <2>1, <2>2
<1>13. ASSUME Advance PROVE InTime' /\ ClosedUnlessFlushing'
    <2>1. clock' = clock + 1 /\ UNCHANGED <<job, loop>>
        BY <1>13 DEF Advance
    <2> QED
        BY <1>0, <2>1 DEF InTime, ClosedUnlessFlushing
<1>14. ASSUME SetControl \/ Renew \/ Disconnect \/ UNCHANGED vars PROVE InTime' /\ ClosedUnlessFlushing'
    BY <1>14 DEF SetControl, Renew, Disconnect, vars, InTime, ClosedUnlessFlushing
<1>15. ASSUME Crash PROVE InTime' /\ ClosedUnlessFlushing'
    BY <1>15 DEF Crash, Idle, InTime, ClosedUnlessFlushing
<1>16. ASSUME NEW k \in Task, Persist(k) PROVE InTime' /\ ClosedUnlessFlushing'
    BY <1>5, <1>6, <1>16 DEF Persist
<1> QED
    BY <1>3, <1>4, <1>16, <1>7, <1>8, <1>9, <1>11, <1>12, <1>13, <1>14, <1>15, Constants DEF Next, Work

-----------------------------------------------------------------------------
(* The theorems.                                                             *)

LEMMA InitIInv == Init => IInv
<1> SUFFICES ASSUME Init PROVE IInv
    OBVIOUS
<1>1. TypeOK
    <2>1. loop \in LoopType
        <3>1. /\ 0 \in 0 .. Last + 1 /\ -1 \in -1 .. Last /\ 0 \in 0 .. Cardinality(Token) /\ AnyToken \in Token
              /\ {} \in SUBSET Token
            BY Constants
        <3> QED
            BY <3>1 DEF Init, LoopType, LoopPCs
    <2>2. 0 \in 0 .. Last + 1 /\ 0 \in 0 .. MaxTicks /\ 0 \in 0 .. MaxTrouble /\ 0 \in 0 .. Broker
        BY Constants DEF Broker
    <2>3. job \in [Task -> JobType] /\ \A k \in Task : job[k].pc = "idle"
        BY Constants DEF Init, Idle
    <2> QED
        BY <2>1, <2>2, <2>3, Constants, Types DEF Init
<1>2. \A k \in Task : job[k].pc = "idle"
    BY DEF Init, Idle
<1>3. Started
    BY DEF Init, Started
<1>4. Listed
    BY DEF Init, Listed
<1>5. InTime /\ ClosedUnlessFlushing /\ Together /\ Once /\ ProcessedAsStored
    BY <1>2 DEF Init, InTime, ClosedUnlessFlushing, Together, Once, ProcessedAsStored
<1> QED
    BY <1>1, <1>3, <1>4, <1>5 DEF IInv

LEMMA StepIInv == IInv /\ [Next]_vars => IInv'
    BY StepType, StepStarted, StepListed, StepTime, StepStored DEF IInv, Stored

LEMMA Invariance == Spec => []IInv
    BY InitIInv, StepIInv, PTL DEF Spec

\* Every variable keeps its type: an aggregator is replaced no more often than there was
\* trouble, and the flush completes no more candles than there are instruments
\* (worker.py:149, candle_aggregation.py:180).
THEOREM TypeCorrect == Spec => []TypeOK
    BY Invariance, PTL DEF IInv

\* A candle moves the paper positions and asks the strategies once and as it is stored,
\* however many messages are handled side by side and whatever fails, disconnects or
\* dies (candle_aggregation.py:391).
THEOREM ProcessedOnce_Holds == Spec => []ProcessedOnce
<1>1. IInv => ProcessedOnce
    <2> SUFFICES ASSUME IInv PROVE ProcessedOnce
        OBVIOUS
    <2>1. ASSUME NEW key \in Key
          PROVE  LET doing == {k \in Task : job[k].pc = "process" /\ KeyOf(k) = key} IN
                 Cardinality(doing) + (IF done[key] THEN 1 ELSE 0) <= 1
        <3> DEFINE doing == {k \in Task : job[k].pc = "process" /\ KeyOf(k) = key}
        <3>1. CASE doing = {}
            <4>1. Cardinality(doing) = 0
                BY <3>1, FS_EmptySet
            <4> QED
                BY <4>1
        <3>2. CASE doing # {}
            <4>1. PICK k \in doing : TRUE
                BY <3>2
            <4>2. doing = {k}
                BY <4>1 DEF IInv, Once
            <4>3. Cardinality(doing) = 1
                BY <4>2, FS_Singleton
            <4>4. ~done[key]
                BY <4>1 DEF IInv, Once
            <4> QED
                BY <4>3, <4>4
        <3> QED
            BY <3>1, <3>2
    <2> QED
        BY <2>1 DEF ProcessedOnce, IInv
<1> QED
    BY <1>1, Invariance, PTL

\* A candle is completed when its time is over, but for one that a tick opens while the
\* flush, which had listed its instrument, waits for the database
\* (candle_aggregation.py:187).
THEOREM ClosedUnlessFlushing_Holds == Spec => []ClosedUnlessFlushing
    BY Invariance, PTL DEF IInv


\* What is stored of a candle is never changed or taken back, nor is it processed
\* again, though several complete it, a statement fails or the process dies
\* (candle_aggregation.py:334).
THEOREM StoredForGood ==
    Spec => [][\A key \in Key : /\ stored[key] # 0 => stored'[key] = stored[key]
                                /\ snapped[key] => snapped'[key]
                                /\ done[key] => done'[key]]_vars
<1> DEFINE Kept == \A key \in Key : /\ stored[key] # 0 => stored'[key] = stored[key]
                                    /\ snapped[key] => snapped'[key]
                                    /\ done[key] => done'[key]
<1>1. IInv /\ [Next]_vars => Kept
    <2> SUFFICES ASSUME IInv, [Next]_vars PROVE Kept
        OBVIOUS
    <2>0. /\ TypeOK /\ stored \in [Key -> 0 .. Broker] /\ snapped \in [Key -> BOOLEAN] /\ done \in [Key -> BOOLEAN]
        BY Types DEF IInv
    <2>1. CASE UNCHANGED <<stored, snapped, done>>
        BY <2>1
    <2>2. ASSUME NEW k \in Task, Commit(k) PROVE Kept
        <3>1. CASE UNCHANGED <<stored, snapped>>
            BY <2>0, <2>1, <2>2, <3>1, Commits
        <3>2. CASE ~snapped[KeyOf(k)] /\ snapped' = [snapped EXCEPT ![KeyOf(k)] = TRUE]
            <4>1. PICK key \in Key : key = KeyOf(k)
                BY <2>0, Keyed
            <4>2. stored[key] = 0
                BY <3>2, <4>1 DEF IInv, Together
            <4>3. \A other \in Key \ {key} : stored'[other] = stored[other]
                BY <2>0, <2>2, <4>1, Commits
            <4>4. \A other \in Key : snapped[other] => snapped'[other]
                BY <2>0, <3>2
            <4>5. done' = done
                BY <2>0, <2>2, Commits
            <4> QED
                BY <4>2, <4>3, <4>4, <4>5
        <3> QED
            BY <2>0, <2>2, <3>1, <3>2, Commits
    <2>3. ASSUME NEW k \in Task, Process(k) PROVE Kept
        <3>1. done' = [done EXCEPT ![KeyOf(k)] = TRUE] /\ UNCHANGED <<stored, snapped>>
            BY <2>0, <2>3, Processes
        <3> QED
            BY <2>0, <3>1
    <2>4. ASSUME NEW k \in Task, NewJob(k) \/ Insert(k) \/ SameJobs \/ AllIdle PROVE Kept
        BY <2>0, <2>1, <2>4, Inserts DEF NewJob, SameJobs, AllIdle
    <2> QED
        BY <2>0, <2>2, <2>3, <2>4, Deeds, Constants
<1> QED
    BY <1>1, Invariance, PTL DEF Spec

=============================================================================
