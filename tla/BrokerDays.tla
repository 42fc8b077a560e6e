------------------------------ MODULE BrokerDays ------------------------------
(***************************************************************************)
(* The broker's own figures of a day, kept beside the local ones: the rows   *)
(* of its profit-and-loss report and the day's charges, which it publishes   *)
(* some time after the session and answers with nothing until then.          *)
(* Two scheduled jobs (18:00 for today, 08:40 for the last days) and the     *)
(* operator (one day from the History screen, a range from the backfill      *)
(* script) fetch them, each in one transaction, and only append.             *)
(*                                                                         *)
(* Of a figure the properties tell apart whether it is known. Of a day's     *)
(* snapshots every reader takes the one with the newest fetched_at, which    *)
(* the database sets to the time its transaction BEGAN: only that one is     *)
(* kept here, with the time as the number of the transaction.                *)
(***************************************************************************)
EXTENDS Integers, FiniteSets, FiniteSetsExt

CONSTANTS
    LastDay,    \* the sessions are 1..LastDay
    Lookback,   \* SETTLEMENT_LOOKBACK_DAYS
    Job,        \* the scheduler's jobs, hours apart and so never two at once
    Operator,   \* the screen's fetch or the backfill script
    MaxAsked    \* bound: what the operator asks for

VARIABLES
    today, hour,  \* the session's date, and "open" until the exchange closes, then "evening"
    ran,          \* the jobs that have run today
    sent,         \* of each day: no live order, one "unknown", or one that was "placed"
    report,       \* of each day, what the broker has published
    newest,       \* of each day, its newest snapshot
    pass,         \* what each of the two is doing
    begun,        \* transactions begun
    asked,
    caught        \* history: the days a finished pass answers for

vars == <<today, hour, ran, sent, report, newest, pass, begun, asked, caught>>

Days     == 1..LastDay
Who      == {Job, Operator}
Missing  == [began |-> 0, realised |-> FALSE, charges |-> "none"]
Idle     == [at |-> "idle", days |-> {}, waiting |-> {}, done |-> {}, rows |-> {}, left |-> {},
             written |-> {}, began |-> 0, due |-> {}, force |-> FALSE]
Upto(d)  == {e \in Days : d - Lookback <= e /\ e <= d}

\* fetch_rows and trade_charges, as the broker answers them: an unsettled day
\* is an empty report and charges of zero.
RowsOf(days)  == {d \in days : report[d].rows}
TotalOf(d)    == IF report[d].charges THEN "cost" ELSE "zero"
Published     == {d \in Days : report[d].rows /\ report[d].charges}

\* settled_charges: a total of zero has not been computed yet.
SettledCharges(total) == IF total = "zero" THEN "none" ELSE total

\* The three questions asked of the newest snapshots (_newest_charges).
Held                 == {d \in Days : newest[d] # Missing}
SettledDates(days)   == {d \in days \cap Held : newest[d].charges # "none"}
DatesAwaiting(days)  == {d \in days \cap Held : newest[d].charges = "none"}
\* Mutant: only the days with a row are asked about.
NoneMissing(days)    == {}
DatesMissing(days)   == {d \in days : sent[d] = "placed"} \ Held

\* The days somebody else is fetching.
Others(w) == UNION {pass[v].days : v \in Who \ {w}}

Init == /\ today = 1 /\ hour = "open" /\ ran = {}
        /\ sent = [d \in Days |-> "none"]
        /\ report = [d \in Days |-> [rows |-> FALSE, charges |-> FALSE]]
        /\ newest = [d \in Days |-> Missing]
        /\ pass = [w \in Who |-> Idle]
        /\ begun = 0 /\ asked = 0 /\ caught = {}

clock == <<today, hour, ran>>
world == <<sent, report>>

\* The clock. A job that the process was not there to run is not made up for.
Tick == /\ pass[Job] = Idle
        /\ \/ /\ hour = "open" /\ hour' = "evening" /\ UNCHANGED <<today, ran>>
           \/ /\ hour = "evening" /\ today < LastDay
              /\ today' = today + 1 /\ hour' = "open" /\ ran' = {}
        /\ UNCHANGED <<world, newest, pass, begun, asked, caught>>

\* The day's live orders, one of which may be in doubt until it is settled
\* (LiveSubmission); LIVE_PLACED_STATUSES are those the broker is known to have.
Trade == /\ hour = "open" /\ sent[today] = "none"
         /\ \E status \in {"unknown", "placed"} : sent' = [sent EXCEPT ![today] = status]
         /\ UNCHANGED <<clock, report, newest, pass, begun, asked, caught>>
FoundPlaced(d) == /\ sent[d] = "unknown" /\ sent' = [sent EXCEPT ![d] = "placed"]
                  /\ UNCHANGED <<clock, report, newest, pass, begun, asked, caught>>

\* The broker publishes either figure of a day that was traded, in either order
\* and once: it settles and stops moving.
Publish(d, figure) == /\ sent[d] # "none" /\ ~report[d][figure]
                      /\ report' = [report EXCEPT ![d][figure] = TRUE]
                      /\ UNCHANGED <<clock, sent, newest, pass, begun, asked, caught>>

\* The morning job asks, in a session of its own, which days are outstanding:
\* first those whose snapshot has no charges, then those with no snapshot.
\* A day somebody else is fetching meanwhile may be in neither answer.
CatchUp == /\ pass[Job] = Idle /\ hour = "open" /\ "catchup" \notin ran
           /\ ran' = ran \cup {"catchup"}
           /\ LET window == Upto(today) IN
              pass' = [pass EXCEPT ![Job] =
                  [Idle EXCEPT !.at = "look", !.days = window, !.waiting = DatesAwaiting(window),
                               !.due = {d \in window \cap Published : sent[d] = "placed"}
                                           \ Others(Job)]]
           /\ UNCHANGED <<today, hour, world, newest, begun, asked, caught>>

Look == /\ pass[Job].at = "look"
        /\ LET p == pass[Job]
               waiting == p.waiting \cup DatesMissing(p.days) IN
           IF waiting = {}
           THEN /\ caught' = caught \cup p.due                        \* nothing outstanding
                /\ pass' = [pass EXCEPT ![Job] = Idle]
           ELSE /\ pass' = [pass EXCEPT ![Job].at = "open", ![Job].waiting = {}]
                /\ UNCHANGED caught
        /\ UNCHANGED <<clock, world, newest, begun, asked>>

\* The evening job asks about today, if an order of today reached the broker.
Evening == /\ pass[Job] = Idle /\ hour = "evening" /\ "figures" \notin ran
           /\ ran' = ran \cup {"figures"}
           /\ sent[today] = "placed"
           /\ pass' = [pass EXCEPT ![Job] = [Idle EXCEPT !.at = "open", !.days = {today}]]
           /\ UNCHANGED <<today, hour, world, newest, begun, asked, caught>>

\* The backfill script over a range up to today, asking again about settled
\* days only when it is forced to.
Backfill(from, force) ==
    /\ pass[Operator] = Idle /\ from <= today /\ asked < MaxAsked
    /\ asked' = asked + 1
    /\ pass' = [pass EXCEPT ![Operator] =
           [Idle EXCEPT !.at = "open", !.days = from..today, !.force = force]]
    /\ UNCHANGED <<clock, world, newest, begun, caught>>

\* The History screen's fetch of one day. Its transaction began when the route
\* looked up who is asking.
FetchDay(d) ==
    /\ pass[Operator] = Idle /\ d <= today /\ asked < MaxAsked
    /\ asked' = asked + 1 /\ begun' = begun + 1
    /\ pass' = [pass EXCEPT ![Operator] =
           [Idle EXCEPT !.at = "one", !.days = {d}, !.began = begun + 1, !.due = {d} \cap Published]]
    /\ UNCHANGED <<clock, world, newest, caught>>

\* sync_days: the settled days are read first, and that begins its transaction.
Open(w) == /\ pass[w].at = "open"
           /\ begun' = begun + 1
           /\ LET p == pass[w]
                  done == IF p.force THEN {} ELSE SettledDates(p.days) IN
              pass' = [pass EXCEPT ![w] =
                  [p EXCEPT !.at = "rows", !.began = begun + 1, !.done = done,
                            !.due = (p.days \cap Published) \ (done \cap Others(w))]]
           /\ UNCHANGED <<clock, world, newest, asked, caught>>

\* One request for the rows of the whole range. A day with none is not seen.
FetchRows(w) ==
    /\ pass[w].at \in {"rows", "one"}
    /\ LET p == pass[w]
           rows == RowsOf(p.days) IN
       pass' = [pass EXCEPT ![w] =
           [p EXCEPT !.at = "charges", !.rows = rows,
                     !.left = IF p.at = "one" THEN p.days ELSE rows \ p.done]]
    /\ UNCHANGED <<clock, world, newest, begun, asked, caught>>

\* One request per day for the charges, earliest day first.
FetchCharges(w) ==
    /\ pass[w].at = "charges" /\ pass[w].left # {}
    /\ LET d == Min(pass[w].left)
           figures == [day |-> d, realised |-> d \in pass[w].rows, charges |-> SettledCharges(TotalOf(d))] IN
       pass' = [pass EXCEPT ![w].left = @ \ {d}, ![w].written = @ \cup {figures}]
    /\ UNCHANGED <<clock, world, newest, begun, asked, caught>>

\* A refused request ends the pass and takes every day of it with it. So does
\* having no token, before anything is asked.
Refused(w) == /\ pass[w].at \in {"open", "rows", "one", "charges"}
              /\ pass' = [pass EXCEPT ![w] = Idle]
              /\ UNCHANGED <<clock, world, newest, begun, asked, caught>>

\* The snapshots are appended together; latest_broker_snapshots and
\* _newest_charges order them by fetched_at.
Newer(old, figures, began) == IF old.began > began THEN old
                              ELSE [began |-> began, realised |-> figures.realised, charges |-> figures.charges]
Commit(w) ==
    /\ pass[w].at = "charges" /\ pass[w].left = {}
    /\ newest' = [d \in Days |->
           LET mine == {f \in pass[w].written : f.day = d} IN
           IF mine = {} THEN newest[d] ELSE Newer(newest[d], CHOOSE f \in mine : TRUE, pass[w].began)]
    /\ caught' = caught \cup pass[w].due
    /\ pass' = [pass EXCEPT ![w] = Idle]
    /\ UNCHANGED <<clock, world, begun, asked>>

Next == \/ Tick \/ Trade \/ CatchUp \/ Look \/ Evening
        \/ \E d \in Days : \/ FoundPlaced(d) \/ FetchDay(d)
                           \/ \E figure \in {"rows", "charges"} : Publish(d, figure)
                           \/ \E force \in BOOLEAN : Backfill(d, force)
        \/ \E w \in Who : Open(w) \/ FetchRows(w) \/ FetchCharges(w) \/ Refused(w) \/ Commit(w)
Spec == Init /\ [][Next]_vars

-------------------------------------------------------------------------------
\* The variables have the types of the code's fields.
TypeOK == /\ today \in Days /\ hour \in {"open", "evening"} /\ ran \subseteq {"catchup", "figures"}
          /\ sent \in [Days -> {"none", "unknown", "placed"}]
          /\ \A d \in Days : newest[d].charges \in {"none", "cost"} /\ newest[d].began <= begun
          /\ \A w \in Who : pass[w].left \subseteq pass[w].days /\ pass[w].done \subseteq pass[w].days
          /\ caught \subseteq Days

\* A day both of whose figures were published when a pass over it began, and
\* the pass ended without an error, states the broker's charges from then on:
\* whichever pass it was, whatever else was fetched before, meanwhile or after,
\* whatever was refused, and also when the morning job found nothing outstanding
\* and made no request (the 14 October of dates_missing_snapshot, which no later
\* pass would have gone back for). Left out is a day the pass did not ask for
\* while the other one was on it: that one may yet append a snapshot without
\* charges that is the newer one.
CaughtUp == \A d \in caught : newest[d].charges = "cost"
=============================================================================
