------------------------------- MODULE Scanner -------------------------------
(***************************************************************************)
(* From a completed candle to a signal and its live offer                   *)
(* (PaperScannerOrchestrator.on_completed_candle), for one strategy of any   *)
(* of the four types.  Every message of the feed that completes candles is   *)
(* a coroutine of its own, so that two candles, also of one instrument, may  *)
(* be in flight and finish in either order.                                  *)
(*                                                                         *)
(* Between candles a setup is a word in Redis, one for each instrument and   *)
(* version of the strategy.  What a candle says of a setup is drawn from     *)
(* what its type can say (the indicators, the score and the sizing are       *)
(* behind that choice).                                                      *)
(***************************************************************************)
EXTENDS Integers, FiniteSets, FiniteSetsExt

CONSTANTS
    Instrument,
    Ranking,      \* what the day's ranking may keep
    Handler,      \* coroutines of the feed
    Kind,         \* the types the strategy may be of: "orb", "vwap", "rs", "ema"
    Cooldown,     \* cooldown_minutes, of the strategy
    Ceiling,      \* whether a ceiling of the day's trades may be reached
    Lapses,       \* whether an indicator may be missing after it was there
    LastMinute,   \* bound: the session's minutes
    LastVersion   \* bound: how often the strategy is saved

VARIABLES
    kind,
    minute,    \* the minute whose candles are complete
    seen,      \* of each instrument, the last minute it had a candle of
    ranked,    \* the day's rows of scan_universe_entries that are selected, and since when (0: none yet)
    universe,  \* self._universe of the worker
    version,   \* of the strategy, as it is saved
    state,     \* scanner:strategy_state:... in Redis, with its history (Setups)
    accepted,  \* scanner_evaluations that were ACCEPTED
    signals,   \* paper_signals, by their keys
    offers,    \* how often each signal was offered to the live path
    task       \* the locals of each coroutine

vars == <<kind, minute, seen, ranked, universe, version, state, accepted, signals, offers, task>>

Side    == {"LONG", "SHORT"}
Version == 1..LastVersion
Key     == Instrument \X Version \X Side

-----------------------------------------------------------------------------
(* What a candle says.                                                       *)

\* Of the side it is toward: whether it could begin a setup, breaks one off, or
\* is the one a setup waits for.  Of the other side it always breaks it off.
Says(a, b, c) == [arms |-> a, breaks |-> b, confirms |-> c]

\* A close beyond the opening range, which also retested the level or did not,
\* or one inside the level's band.  Back inside the range it is toward neither.
orb_retest    == {Says(TRUE, FALSE, TRUE), Says(TRUE, FALSE, FALSE), Says(FALSE, FALSE, FALSE)}
\* In a trend: a touch of VWAP, and the close back beyond it or far through it.
vwap_pullback == [arms : BOOLEAN, breaks : {FALSE}, confirms : BOOLEAN] \cup {Says(TRUE, TRUE, FALSE)}
\* A leader at its fast EMA, and the close back beyond it.
rs_pullback   == [arms : BOOLEAN, breaks : {FALSE}, confirms : BOOLEAN]
\* A push through the range that is not yet extended: no setup, the signal at once.
ema_momentum  == {Says(FALSE, FALSE, TRUE)}

SaysOf(type) == CASE type = "orb" -> orb_retest [] type = "vwap" -> vwap_pullback
                  [] type = "rs" -> rs_pullback [] type = "ema" -> ema_momentum

Neither  == [toward |-> "none", says |-> Says(FALSE, TRUE, FALSE), refused |-> FALSE]
\* Outside the trade window, or without the indicators.
Unusable == [toward |-> "lapse", says |-> Says(FALSE, TRUE, FALSE), refused |-> FALSE]

\* `refused`: an input it requires, the choppiness, the score, the plan of the
\* trade, the direction or the market's regime stands against it.
Candle ==
    {[toward |-> s, says |-> x, refused |-> r] :
        s \in Side, x \in SaysOf(kind), r \in BOOLEAN}
    \cup {Neither} \cup IF Lapses THEN {Unusable} ELSE {}

Arms(c, s)     == c.toward = s /\ c.says.arms
Breaks(c, s)   == c.toward # s \/ c.says.breaks
Confirms(c, s) == c.toward = s /\ c.says.confirms

\* Mutant: only the far side of the range breaks a setup off.
FarSide(c, s)     == c.toward \in Side /\ Breaks(c, s)
Invalidated(c, s) == Breaks(c, s)

Awaiting   == [to |-> "AWAITING", side |-> "none"]
Holds(s)   == [to |-> s, side |-> "none"]         \* LONG_BREAKOUT and its likes
Signals(s) == [to |-> "SIGNALLED", side |-> s]

Evaluate(c, prior) ==
    IF c = Unusable THEN Awaiting
    ELSE IF prior = "SIGNALLED" THEN [to |-> "SIGNALLED", side |-> "none"]
    ELSE IF kind = "ema" THEN IF c.toward \in Side /\ ~c.refused THEN Signals(c.toward) ELSE Awaiting
    ELSE IF prior = "AWAITING" THEN IF c.says.arms THEN Holds(c.toward) ELSE Awaiting
    ELSE IF Invalidated(c, prior) THEN Awaiting
    ELSE IF ~Confirms(c, prior) THEN Holds(prior)
    ELSE IF c.refused THEN Awaiting
    ELSE Signals(prior)

\* History: the sides of which some candle began a setup, on the way to this
\* word, that none has confirmed or broken off since.
Setups(c, was) ==
    IF c = Unusable THEN {}
    ELSE {s \in was : ~Breaks(c, s) /\ ~Confirms(c, s)} \cup {s \in Side : Arms(c, s)}

-----------------------------------------------------------------------------
Idle == [pc |-> "idle"]

Init ==
    /\ kind \in Kind
    /\ minute = 1 /\ seen = [i \in Instrument |-> 0]
    /\ ranked = [at |-> 0, tokens |-> {}] /\ universe = [tokens |-> {}, checked |-> 0]
    /\ version = 1
    /\ state = [i \in Instrument |-> [v \in Version |-> [at |-> "AWAITING", setups |-> {}]]]
    /\ accepted = {} /\ signals = {}
    /\ offers = [x \in Key |-> 0]
    /\ task = [h \in Handler |-> Idle]

clock   == <<kind, minute>>
records == <<accepted, signals, offers>>

At(h, pc)  == task[h].pc = pc
Goto(h, t) == task' = [task EXCEPT ![h] = t]

\* The surroundings: time passes, the ranking is written, the operator saves
\* the strategy.
Advance == /\ minute < LastMinute /\ minute' = minute + 1
           /\ UNCHANGED <<kind, seen, ranked, universe, version, state, records, task>>
Rank    == /\ ranked.at = 0
           /\ \E tokens \in Ranking : ranked' = [at |-> minute, tokens |-> tokens]
           /\ UNCHANGED <<clock, seen, universe, version, state, records, task>>
Save    == /\ version < LastVersion /\ version' = version + 1
           /\ UNCHANGED <<clock, seen, ranked, universe, state, records, task>>

-----------------------------------------------------------------------------
(* _in_active_universe.                                                      *)

\* Mutant: the answer of the day is kept, whatever it was.
KnownByDate(k) == universe.checked > 0
Known(k)       == universe.tokens # {} \/ universe.checked = k

Admits(tokens, i) == tokens = {} \/ i \in tokens

\* A candle arrives.  One that the quality gate blocks is none.
\* `beside`: another coroutine still has an answer from before the ranking.
Arrive(h, i) ==
    /\ At(h, "idle") /\ seen[i] < minute
    /\ seen' = [seen EXCEPT ![i] = minute]
    /\ Goto(h, [pc |-> IF Known(minute) THEN "judge" ELSE "look", i |-> i, k |-> minute,
                beside |-> \E g \in Handler : At(g, "assign") /\ task[g].tokens = {}])
    /\ UNCHANGED <<clock, ranked, universe, version, state, records>>

LookUp(h) ==
    /\ At(h, "look")
    /\ Goto(h, [pc |-> "assign", i |-> task[h].i, k |-> task[h].k, beside |-> task[h].beside,
                tokens |-> ranked.tokens])
    /\ UNCHANGED <<clock, seen, ranked, universe, version, state, records>>

\* The session closes after it, which awaits: another may assign before Judge.
Assign(h) ==
    /\ At(h, "assign")
    /\ universe' = [tokens |-> task[h].tokens, checked |-> task[h].k]
    /\ Goto(h, [pc |-> "judge", i |-> task[h].i, k |-> task[h].k, beside |-> task[h].beside])
    /\ UNCHANGED <<clock, seen, ranked, version, state, records>>

\* The tracking switch and the emergency stop end it here, too; then the
\* enabled strategies are loaded.
Judge(h) ==
    /\ At(h, "judge")
    /\ \/ /\ Admits(universe.tokens, task[h].i)
          /\ Goto(h, [pc |-> "read", i |-> task[h].i, k |-> task[h].k, v |-> version,
                      beside |-> task[h].beside])
       \/ Goto(h, Idle)
    /\ UNCHANGED <<clock, seen, ranked, universe, version, state, records>>

-----------------------------------------------------------------------------
(* _evaluate_strategy.                                                       *)

\* Any word of SIGNALLED, also one that was there before, goes on to the quotas.
Read(h, c) ==
    /\ At(h, "read")
    /\ LET t == task[h]
           prior == state[t.i][t.v]
           d == Evaluate(c, prior.at) IN
       Goto(h, [pc |-> IF d.to = "SIGNALLED" THEN "quota" ELSE "write", i |-> t.i, k |-> t.k, v |-> t.v,
                to |-> d.to, side |-> d.side, from |-> prior.setups, setups |-> Setups(c, prior.setups)])
    /\ UNCHANGED <<clock, seen, ranked, universe, version, state, records>>

\* max(candle_opened_at) of the strategy's accepted evaluations, of any version.
Cooling(k) == Cooldown > 0 /\ accepted # {} /\ k - Max({e.k : e \in accepted}) < Cooldown

\* The ceilings count the fills of all, and the operator may raise one again.
Quota(h) ==
    /\ At(h, "quota")
    /\ LET t == task[h] IN
       \/ /\ ~Cooling(t.k) /\ Goto(h, [t EXCEPT !.pc = "write"])
       \/ /\ Cooling(t.k) \/ Ceiling
          /\ Goto(h, [t EXCEPT !.pc = "write", !.to = "AWAITING", !.side = "none"])
    /\ UNCHANGED <<clock, seen, ranked, universe, version, state, records>>

Write(h) ==
    /\ At(h, "write")
    /\ LET t == task[h] IN
       /\ state' = [state EXCEPT ![t.i][t.v] = [at |-> t.to, setups |-> t.setups]]
       /\ Goto(h, IF t.side = "none" THEN Idle
                  ELSE [pc |-> "evaluation", key |-> <<t.i, t.v, t.side>>, k |-> t.k])
    /\ UNCHANGED <<clock, seen, ranked, universe, version, records>>

RecordEvaluation(h) ==
    /\ At(h, "evaluation")
    /\ accepted' = accepted \cup {[i |-> task[h].key[1], v |-> task[h].key[2], k |-> task[h].k]}
    /\ Goto(h, [pc |-> "record", key |-> task[h].key])
    /\ UNCHANGED <<clock, seen, ranked, universe, version, state, signals, offers>>

\* Mutant: a signal that is there already is one.
RecordAgain(h) ==
    /\ At(h, "record")
    /\ signals' = signals \cup {task[h].key}
    /\ Goto(h, [pc |-> "offer", key |-> task[h].key])
    /\ UNCHANGED <<clock, seen, ranked, universe, version, state, accepted, offers>>
\* signal_key is unique: whoever comes second has no signal.
Record(h) ==
    /\ At(h, "record")
    /\ signals' = signals \cup {task[h].key}
    /\ Goto(h, IF task[h].key \in signals THEN Idle ELSE [pc |-> "offer", key |-> task[h].key])
    /\ UNCHANGED <<clock, seen, ranked, universe, version, state, accepted, offers>>

\* The paper engine decides, what it queued is alerted, and the live path is
\* offered it.  If either raises, there is no offer (Raise).
Offer(h) ==
    /\ At(h, "offer")
    /\ offers' = [offers EXCEPT ![task[h].key] = @ + 1]
    /\ Goto(h, Idle)
    /\ UNCHANGED <<clock, seen, ranked, universe, version, state, accepted, signals>>

\* Redis, the database or Telegram raises: the candle's evaluation ends there.
Raise(h) ==
    /\ ~At(h, "idle") /\ Goto(h, Idle)
    /\ UNCHANGED <<clock, seen, ranked, universe, version, state, records>>
\* The worker dies with all its coroutines and what it had read.
Crash ==
    /\ universe # [tokens |-> {}, checked |-> 0]
    /\ task' = [h \in Handler |-> Idle] /\ universe' = [tokens |-> {}, checked |-> 0]
    /\ UNCHANGED <<clock, seen, ranked, version, state, records>>

Step(h) ==
    \/ \E i \in Instrument : Arrive(h, i)
    \/ LookUp(h) \/ Assign(h) \/ Judge(h)
    \/ \E c \in Candle : Read(h, c)
    \/ Quota(h) \/ Write(h) \/ RecordEvaluation(h)
    \/ Record(h) \/ Offer(h) \/ Raise(h)

Next == Advance \/ Rank \/ Save \/ Crash \/ \E h \in Handler : Step(h)
Spec == Init /\ [][Next]_vars

-----------------------------------------------------------------------------
\* The variables have the types of the code's rows and locals.
TypeOK ==
    /\ kind \in Kind /\ minute \in 1..LastMinute /\ ranked.at \in 0..minute /\ ranked.tokens \in Ranking \cup {{}}
    /\ seen \in [Instrument -> 0..minute]
    /\ universe.tokens \in {{}, ranked.tokens} /\ universe.checked \in 0..minute
    /\ version \in Version
    /\ \A i \in Instrument, v \in Version :
          /\ state[i][v].at \in {"AWAITING", "SIGNALLED"} \cup Side
          /\ state[i][v].setups \subseteq Side
    /\ signals \subseteq Key /\ offers \in [Key -> Nat]

\* A signal of a two-stage strategy ends a setup that a candle began and that no
\* candle since has confirmed, broken off or left without its indicators, along
\* the words the decision was read from: the breakout that closed back inside
\* the range is over, and one that was refused has to form again.
SetupIsAlive ==
    \A h \in Handler :
        At(h, "write") /\ task[h].side \in Side /\ kind # "ema" => task[h].side \in task[h].from

\* However candles overlap, are raised out of or lost in a crash, and whatever
\* resets the word in Redis, the live path is offered an instrument once for
\* each version and side of a session.
OfferedOnce == \A x \in Key : offers[x] <= 1

\* An instrument the ranking left out is not scanned in a minute after the one
\* the ranking was written in, unless a coroutine with an older answer was still
\* under way (the 12 October of _in_active_universe).
RankingApplies ==
    \A h \in Handler :
        At(h, "read") /\ ranked.at \in 1..(task[h].k - 1) /\ task[h].i \notin ranked.tokens => task[h].beside

\* What the comment of backtesting.py:389 says of a strategy, and its reason
\* "Instrument already signalled this session": one signal of an instrument.
OneSignal ==
    \A x, y \in signals : x[1] = y[1] /\ x[2] = y[2] => x = y
=============================================================================
