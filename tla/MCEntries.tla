------------------------------ MODULE MCEntries ------------------------------
(***************************************************************************)
(* Two pieces of an entry's way that do not touch each other: the limits it  *)
(* is held to (LiveLimits) and the stop behind it (LiveProtection).  A       *)
(* behaviour of this instance is one of the two; the variables of the stop   *)
(* are Unused in the first, and the limits stay as they begin in the other.  *)
(***************************************************************************)
EXTENDS LiveLimits, TLC

CONSTANTS
    t1, t2, t3, t4,
    Protector, Task, Qty, MaxExits, MaxFailures, FillPolls, LostAnswers, LazyCancel, MarketRests,
    Unused

VARIABLES held, entry, exit, task, failures
stop == <<held, entry, exit, task, failures>>

\* What each trade risks.
MCRisk == t1 :> 1 @@ t2 :> 1 @@ t3 :> 1 @@ t4 :> 2

Stop == INSTANCE LiveProtection WITH faults <- failures, MaxFaults <- MaxFailures

OnStop     == held # Unused
StopUnused == held = Unused /\ entry = Unused /\ exit = Unused /\ task = Unused /\ failures = Unused

MCInit == Init /\ (StopUnused \/ Stop!Init)
MCNext == \/ ~OnStop /\ Next /\ UNCHANGED stop
          \/ OnStop /\ Stop!Next /\ UNCHANGED vars
MCSpec == MCInit /\ [][MCNext]_<<vars, stop>>

ExitsFit == OnStop => Stop!ExitsFit

\* Three trades risk the same, and coroutines are alike.
Symmetry == Permutations(Sender) \cup Permutations({t1, t2, t3})
=============================================================================
