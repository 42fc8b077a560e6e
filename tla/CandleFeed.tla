------------------------------ MODULE CandleFeed ------------------------------
(***************************************************************************)
(* From a tick to a stored candle: the scanner worker and the feed it keeps,  *)
(* the candles that are open, and how one is stored and processed once.       *)
(* (worker.py, services/upstox_market_data.py, candle_aggregation.py,         *)
(* upstox_backfill.py.)                                                      *)
(*                                                                          *)
(* Every message of the Upstox feed is handled by a coroutine of its own,      *)
(* which outlives the feed.  The worker's loop flushes the candles whose time  *)
(* is over and backfills those the feed missed.  Time is counted in candles:   *)
(* bucket b is over when clock > b, and what a candle holds is the number of   *)
(* its ticks.                                                                *)
(***************************************************************************)
EXTENDS Integers, FiniteSets, Functions

CONSTANTS
    Token,       \* instruments
    Handler,     \* coroutines that handle a message
    Last,        \* the last bucket in which the market is open
    MaxTicks,    \* bound: ticks
    MaxTrouble   \* bound: what the operator, the token renewal, the network and the
                 \* database do, and crashes

ASSUME FeedAssumption ==
    /\ IsFiniteSet(Token) /\ Token # {}
    /\ "worker" \notin Handler
    /\ {Last, MaxTicks, MaxTrouble} \subseteq Nat

Bucket == 0 .. Last
Task   == Handler \cup {"worker"}
Gen    == 0 .. MaxTrouble + 1   \* an aggregator is replaced after some trouble

VARIABLES
    clock,    \* the bucket of the present moment
    control,  \* scanner:control_state
    renewed,  \* the stored access token is not the feed's
    feed,     \* market_data_task
    gen,      \* which aggregator the worker holds, 0 for none yet
    open,     \* _open of each aggregator: the ticks of the candle of a bucket
    job,      \* what each coroutine is doing with one candle
    loop,     \* the worker's loop
    stored,   \* market_candles: the ticks of the stored candle, 0 if none
    snapped,  \* market_indicator_snapshots
    bare,     \* history: whose row could not be stored, the snapshot going on without
    done,     \* history: handed to the outcomes, the paper orders, the strategies
    spent     \* bounded counters

supervisor == <<control, renewed, feed>>
database   == <<stored, snapped, bare, done>>
vars       == <<clock, supervisor, gen, open, job, loop, database, spent>>

NoCandle == [bucket |-> 0, n |-> 0]
Candle   == [bucket : Bucket, n : 0 .. 2]
Key      == Token \X Bucket

\* A backfilled candle, of which no tick was seen.
Broker == 3

AnyToken == CHOOSE t \in Token : TRUE
Idle     == [pc |-> "idle", token |-> AnyToken, bucket |-> 0, n |-> 0, gen |-> 0]

Init ==
    /\ clock = 0
    /\ control = "RUNNING" /\ renewed = FALSE /\ feed = "none"
    /\ gen = 0
    /\ open = [g \in Gen |-> [t \in Token |-> NoCandle]]
    /\ job = [k \in Task |-> Idle]
    /\ loop = [pc |-> "top", wanted |-> "STOPPED", caughtUp |-> TRUE, todo |-> {}, done |-> 0,
               token |-> AnyToken, next |-> 0, last |-> -1]
    /\ stored = [k \in Key |-> 0] /\ snapped = [k \in Key |-> FALSE]
    /\ bare = {} /\ done = [k \in Key |-> FALSE]
    /\ spent = [ticks |-> 0, trouble |-> 0]

Spend(what, bound) == spent[what] < bound /\ spent' = [spent EXCEPT ![what] = @ + 1]
Trouble == Spend("trouble", MaxTrouble)

KeyOf(k) == <<job[k].token, job[k].bucket>>
Busy(k)  == job[k].pc # "idle"

\* k starts to store the candle c of token t.
Complete(k, t, c) == [job EXCEPT ![k] = [pc |-> "check", token |-> t, bucket |-> c.bucket, n |-> c.n, gen |-> 0]]

-----------------------------------------------------------------------------
(* Ticks.                                                                    *)

\* Coroutines have no name: a message takes whichever is free, if one is.
Free == CHOOSE h \in Handler : ~Busy(h) \/ \A other \in Handler : Busy(other)

\* _on_message: a coroutine for each message.  The tick is observed before it is
\* put in its candle.
Tick(h) ==
    /\ feed = "alive" /\ h = Free /\ ~Busy(h) /\ clock \in Bucket
    /\ Spend("ticks", MaxTicks)
    /\ \E t \in Token : job' = [job EXCEPT ![h] = [pc |-> "consume", token |-> t, bucket |-> clock, n |-> 1, gen |-> gen]]
    /\ UNCHANGED <<clock, supervisor, gen, open, loop, database>>

\* consume.  A tick of a bucket that is over for its aggregator is dropped.
Consume(h) ==
    LET tick    == job[h]
        current == open[tick.gen][tick.token]
        Put(c)  == open' = [open EXCEPT ![tick.gen][tick.token] = c]
        fresh   == [bucket |-> tick.bucket, n |-> 1]
    IN
    /\ tick.pc = "consume"
    /\ \/ /\ current.n # 0 /\ tick.bucket < current.bucket
          /\ UNCHANGED open /\ job' = [job EXCEPT ![h] = Idle]
       \/ /\ current.n = 0
          /\ Put(fresh) /\ job' = [job EXCEPT ![h] = Idle]
       \/ /\ current.n # 0 /\ tick.bucket > current.bucket
          /\ Put(fresh) /\ job' = Complete(h, tick.token, current)
       \/ /\ current.n # 0 /\ tick.bucket = current.bucket
          /\ Put([current EXCEPT !.n = IF @ < 2 THEN @ + 1 ELSE @]) /\ job' = [job EXCEPT ![h] = Idle]
    /\ UNCHANGED <<clock, supervisor, gen, loop, database, spent>>

-----------------------------------------------------------------------------
(* persist_completed: one candle, one snapshot, one processing.              *)

\* The look-up.
Check(k) ==
    /\ job[k].pc = "check"
    /\ job' = [job EXCEPT ![k] = IF stored[KeyOf(k)] # 0 THEN Idle ELSE [@ EXCEPT !.pc = "insert"]]
    /\ UNCHANGED <<clock, supervisor, gen, open, loop, database, spent>>

\* The row waits for whoever has inserted the same key and not committed.
Holds(k, key) == job[k].pc = "commit" /\ KeyOf(k) = key

\* session.flush(); a duplicate, as any error, is undone and passed over.
Insert(k) ==
    /\ job[k].pc = "insert"
    /\ \A other \in Task : ~Holds(other, KeyOf(k))
    /\ \/ /\ stored[KeyOf(k)] = 0
          /\ job' = [job EXCEPT ![k].pc = "commit"] /\ UNCHANGED <<bare, spent>>
       \/ /\ stored[KeyOf(k)] # 0
          /\ job' = [job EXCEPT ![k].pc = "snapshot"] /\ UNCHANGED <<bare, spent>>
       \/ /\ Trouble
          /\ job' = [job EXCEPT ![k].pc = "snapshot"] /\ bare' = bare \cup {KeyOf(k)}
    /\ UNCHANGED <<clock, supervisor, gen, open, loop, stored, snapped, done>>

\* Mutant: a snapshot that is there already is passed over as the candle is.
CommitAnyway(k) ==
    /\ job[k].pc \in {"commit", "snapshot"}
    /\ stored' = IF job[k].pc = "commit" THEN [stored EXCEPT ![KeyOf(k)] = job[k].n] ELSE stored
    /\ snapped' = [snapped EXCEPT ![KeyOf(k)] = TRUE]
    /\ job' = [job EXCEPT ![k].pc = "process"]
    /\ UNCHANGED <<clock, supervisor, gen, open, loop, bare, done, spent>>

\* The commit of the candle and its snapshot.  A snapshot that is there already
\* undoes both, and whoever stored it does the rest.
Commit(k) ==
    /\ job[k].pc \in {"commit", "snapshot"}
    /\ IF snapped[KeyOf(k)]
       THEN job' = [job EXCEPT ![k] = Idle] /\ UNCHANGED <<stored, snapped>>
       ELSE /\ stored' = IF job[k].pc = "commit" THEN [stored EXCEPT ![KeyOf(k)] = job[k].n] ELSE stored
            /\ snapped' = [snapped EXCEPT ![KeyOf(k)] = TRUE]
            /\ job' = [job EXCEPT ![k].pc = "process"]
    /\ UNCHANGED <<clock, supervisor, gen, open, loop, bare, done, spent>>

\* update_outcomes, process_completed_candle, on_snapshot
Process(k) ==
    /\ job[k].pc = "process"
    /\ done' = [done EXCEPT ![KeyOf(k)] = TRUE]
    /\ job' = [job EXCEPT ![k] = Idle]
    /\ UNCHANGED <<clock, supervisor, gen, open, loop, stored, snapped, bare, spent>>

\* The worker's next iteration.
Rest == [loop EXCEPT !.pc = "top", !.todo = {}, !.done = 0, !.token = AnyToken, !.next = 0, !.last = -1]

\* What is raised ends a handler unseen, the worker's iteration, or the backfill of
\* one instrument.  The candle is in no aggregator any more.
Fail(k) ==
    /\ job[k].pc \in {"check", "insert", "commit", "snapshot", "process"}
    /\ Trouble
    /\ job' = [job EXCEPT ![k] = Idle]
    /\ loop' = IF k # "worker" THEN loop
               ELSE IF loop.pc = "flush" THEN Rest
               ELSE [loop EXCEPT !.next = 0, !.last = -1]
    /\ UNCHANGED <<clock, supervisor, gen, open, database>>

-----------------------------------------------------------------------------
(* The worker's loop.                                                        *)

At(pc) == loop.pc = pc /\ ~Busy("worker")

ReadControl ==
    /\ At("top")
    /\ loop' = [loop EXCEPT !.pc = "act", !.wanted = control]
    /\ UNCHANGED <<clock, supervisor, gen, open, job, database, spent>>

\* Mutant: a feed that has ended is left for the operator to restart.
ReapStopped ==
    /\ At("act") /\ feed = "done" /\ loop.wanted = "STOPPED"
    /\ feed' = "none"
    /\ loop' = [loop EXCEPT !.pc = "top"]
    /\ UNCHANGED <<clock, control, renewed, gen, open, job, database, spent>>

\* The feed has ended: forget it and its aggregator, and start another when the
\* backoff is over.
Reap ==
    /\ At("act") /\ feed = "done"
    /\ feed' = "none"
    /\ loop' = [loop EXCEPT !.pc = "top"]
    /\ UNCHANGED <<clock, control, renewed, gen, open, job, database, spent>>

Stop ==
    /\ At("act") /\ feed = "alive" /\ loop.wanted = "STOPPED"
    /\ feed' = "none" /\ renewed' = FALSE
    /\ loop' = [loop EXCEPT !.pc = "top"]
    /\ UNCHANGED <<clock, control, gen, open, job, database, spent>>

StandBy ==
    /\ At("act") /\ feed = "none" /\ loop.wanted = "STOPPED"
    /\ loop' = [loop EXCEPT !.pc = "top"]
    /\ UNCHANGED <<clock, supervisor, gen, open, job, database, spent>>

\* No feed, or one with a token that has been renewed: a new aggregator, and today's
\* candles from the broker before the feed.  Coroutines of the old feed keep theirs.
Start ==
    /\ At("act") /\ loop.wanted = "RUNNING"
    /\ \/ feed = "none"
       \/ feed = "alive" /\ renewed
    /\ feed' = "none" /\ renewed' = FALSE
    /\ gen' = gen + 1
    /\ open' = [g \in Gen |-> IF \E h \in Handler : job[h].gen = g THEN open[g] ELSE [t \in Token |-> NoCandle]]
    /\ loop' = [loop EXCEPT !.pc = "backfill", !.todo = Token]
    /\ UNCHANGED <<clock, control, job, database, spent>>

\* The broker answers with the closed candles of an instrument, the latest of which
\* it may not have yet.
Fetch ==
    /\ At("backfill") \/ At("catchup")
    /\ loop.next > loop.last
    /\ loop.todo # {}
    /\ \E last \in (IF loop.pc = "catchup" THEN {clock - 1} ELSE {clock - 1, clock - 2}) : LET t == CHOOSE u \in loop.todo : TRUE IN
          /\ last >= -1
          /\ loop' = [loop EXCEPT !.todo = @ \ {t}, !.token = t, !.next = 0, !.last = last]
    /\ UNCHANGED <<clock, supervisor, gen, open, job, database, spent>>

\* They are stored one after another, but for those that are there.
Backfill ==
    /\ At("backfill") \/ At("catchup")
    /\ loop.next <= loop.last
    /\ job' = IF stored[<<loop.token, loop.next>>] # 0 THEN job
              ELSE [job EXCEPT !["worker"] = [pc |-> "insert", token |-> loop.token, bucket |-> loop.next, n |-> Broker, gen |-> 0]]
    /\ loop' = [loop EXCEPT !.next = @ + 1]
    /\ UNCHANGED <<clock, supervisor, gen, open, database, spent>>

\* When all are stored the feed is started, if it was for that.
BackfillEnd ==
    /\ At("backfill") \/ At("catchup")
    /\ loop.todo = {} /\ loop.next > loop.last
    /\ feed' = IF loop.pc = "backfill" THEN "alive" ELSE feed
    /\ loop' = [Rest EXCEPT !.caughtUp = (loop.pc = "catchup")]
    /\ UNCHANGED <<clock, control, renewed, gen, open, job, database, spent>>

\* Mutant: a candle expires when it has begun.
Begun == {t \in Token : open[gen][t].n # 0 /\ open[gen][t].bucket <= clock}

Expired == {t \in Token : open[gen][t].n # 0 /\ open[gen][t].bucket < clock}

\* The candle of t is taken out of the aggregator as it is by now, and stored.
Pop(t, todo) ==
    /\ job' = Complete("worker", t, open[gen][t])
    /\ open' = [open EXCEPT ![gen][t] = NoCandle]
    /\ loop' = [loop EXCEPT !.pc = "flush", !.todo = todo \ {t}, !.done = @ + 1]

\* flush_expired looks for what is over and completes the first of it ...
Look ==
    /\ At("act") /\ feed = "alive" /\ loop.wanted = "RUNNING" /\ ~renewed
    /\ \/ \E t \in Expired : Pop(t, Expired)
       \/ /\ Expired = {}
          /\ loop' = [loop EXCEPT !.pc = "flush"] /\ UNCHANGED <<open, job>>
    /\ UNCHANGED <<clock, supervisor, gen, database, spent>>

\* ... and then the others, without another look.
Flush ==
    /\ At("flush")
    /\ \E t \in loop.todo : Pop(t, loop.todo)
    /\ UNCHANGED <<clock, supervisor, gen, database, spent>>

\* When the feed has been up for a while, the backfill once more.
FlushEnd ==
    /\ At("flush") /\ loop.todo = {}
    /\ \/ loop' = Rest
       \/ ~loop.caughtUp /\ feed = "alive" /\ loop' = [Rest EXCEPT !.pc = "catchup", !.todo = Token, !.caughtUp = TRUE]
    /\ UNCHANGED <<clock, supervisor, gen, open, job, database, spent>>

-----------------------------------------------------------------------------
(* What happens to the worker.                                               *)

Advance ==
    /\ clock <= Last
    /\ clock' = clock + 1
    /\ UNCHANGED <<supervisor, gen, open, job, loop, database, spent>>

SetControl ==
    /\ Trouble
    /\ control' = IF control = "RUNNING" THEN "STOPPED" ELSE "RUNNING"
    /\ UNCHANGED <<clock, renewed, feed, gen, open, job, loop, database>>

Renew ==
    /\ feed = "alive" /\ ~renewed /\ Trouble
    /\ renewed' = TRUE
    /\ UNCHANGED <<clock, control, feed, gen, open, job, loop, database>>

Disconnect ==
    /\ feed = "alive" /\ Trouble
    /\ feed' = "done"
    /\ UNCHANGED <<clock, control, renewed, gen, open, job, loop, database>>

\* The process dies with all it has in memory.
Crash ==
    /\ Trouble
    /\ feed' = "none" /\ renewed' = FALSE
    /\ open' = [g \in Gen |-> [t \in Token |-> NoCandle]]
    /\ job' = [k \in Task |-> Idle]
    /\ loop' = Rest
    /\ UNCHANGED <<clock, control, gen, database>>

Persist(k) == Check(k) \/ Insert(k) \/ Commit(k) \/ Process(k)

Work ==
    \/ ReadControl \/ Reap \/ Stop \/ StandBy \/ Start
    \/ Fetch \/ Backfill \/ BackfillEnd \/ Look \/ Flush \/ FlushEnd
    \/ Persist("worker")

Next ==
    \/ \E h \in Handler : Tick(h) \/ Consume(h) \/ Persist(h)
    \/ Work
    \/ \E k \in Task : Fail(k)
    \/ Advance \/ SetControl \/ Renew \/ Disconnect \/ Crash

\* The event loop gets round to every coroutine, and time passes.
Spec == /\ Init /\ [][Next]_vars
        /\ WF_vars(Advance) /\ WF_vars(Work)
        /\ WF_vars(\E h \in Handler : Consume(h) \/ Persist(h))

-----------------------------------------------------------------------------
(* Properties.                                                               *)

JobPCs  == {"idle", "consume", "check", "insert", "commit", "snapshot", "process"}
LoopPCs == {"top", "act", "backfill", "flush", "catchup"}

TypeOK ==
    /\ clock \in 0 .. Last + 1
    /\ control \in {"RUNNING", "STOPPED"} /\ renewed \in BOOLEAN /\ feed \in {"none", "alive", "done"}
    /\ gen \in Gen
    /\ open \in [Gen -> [Token -> Candle]]
    /\ job \in [Task -> [pc : JobPCs, token : Token, bucket : Bucket, n : 0 .. Broker, gen : Gen]]
    /\ \A k \in Task : job[k].pc \notin {"idle"} => job[k].n # 0
    /\ loop \in [pc : LoopPCs, wanted : {"RUNNING", "STOPPED"}, caughtUp : BOOLEAN, todo : SUBSET Token,
                 done : 0 .. Cardinality(Token), token : Token, next : 0 .. Last + 1, last : -1 .. Last]
    /\ stored \in [Key -> 0 .. Broker] /\ snapped \in [Key -> BOOLEAN]
    /\ bare \subseteq Key /\ done \in [Key -> BOOLEAN]
    /\ spent \in [ticks : 0 .. MaxTicks, trouble : 0 .. MaxTrouble]

\* What the outcomes, the paper orders and the strategies are given is what is
\* stored, unless storing it failed (candle_aggregation.py:389).
ProcessedAsStored ==
    \A k \in Task : job[k].pc = "process" => stored[KeyOf(k)] = job[k].n \/ KeyOf(k) \in bare

\* A candle moves the paper positions and asks the strategies once and as it is
\* stored, whether a tick, the flush, a backfill or several of them completed it,
\* and after a crash not again (candle_aggregation.py:391).
ProcessedOnce ==
    /\ ProcessedAsStored
    /\ \A key \in Key :
         LET doing == {k \in Task : job[k].pc = "process" /\ KeyOf(k) = key} IN
         Cardinality(doing) + (IF done[key] THEN 1 ELSE 0) <= 1

\* A candle is completed when its time is over.  Only the flush, which awaits between
\* one candle and the next, may find one that a tick has replaced since it looked
\* (candle_aggregation.py:187).
ClosedUnlessFlushing ==
    \A k \in Task : job[k].pc = "check" /\ job[k].bucket >= clock
                       => k = "worker" /\ loop.pc = "flush" /\ loop.done > 1

\* When the trouble is over the feed follows the scanner's switch, up while it says
\* RUNNING and down while it does not, whatever disconnected, expired, failed or died
\* before; and no candle stays open past its time, even if its instrument trades no
\* more (worker.py:185, worker.py:257, candle_aggregation.py:180).
CatchesUp ==
    <>[](/\ control = "RUNNING" <=> feed = "alive"
         /\ feed = "alive" => Expired = {})
=============================================================================
