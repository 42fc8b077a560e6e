------------------------------ MODULE MCLedgers ------------------------------
(***************************************************************************)
(* A day is kept in three books that share nothing while they are written:   *)
(* the paper ledger, the broker's account against our rows, and the broker's *)
(* own figures. A behaviour of this instance is one of PaperExecution, of    *)
(* LiveReconciliation or of BrokerDays, with the others' variables Unused.   *)
(***************************************************************************)
EXTENDS Integers, FiniteSets, TLC

CONSTANTS
    Signal, NoSignal, Task, Qty, MaxOpen, Budget, LossLimit, MaxCandle, MaxFaults,
    Sub, Slice, Owner, Long, Quantity, Price, Entry, Lot, Manual, ManualLong, Reader, MaxMishaps,
    opening, closing, a, b, x, m,
    LastDay, Lookback, Job, Operator, MaxAsked,
    Unused

VARIABLES candle, order, position, reservation, halted, signalled, task, faults
paper == <<candle, order, position, reservation, halted, signalled, task, faults>>

VARIABLES row, book, reading, readings, day, sweep
live == <<row, book, reading, readings, day, sweep>>

VARIABLES today, hour, ran, sent, report, newest, pass, begun, asked, caught
figures == <<today, hour, ran, sent, report, newest, pass, begun, asked, caught>>

\* An instrument's signal is one of finitely many, and the limits leave room for one position.
\* A submission has slices of its own, of some size and price; an order by hand is none of them.
ASSUME LedgersAssumption ==
    /\ IsFiniteSet(Signal) /\ Qty \in Nat \ {0} /\ MaxOpen \in Nat \ {0} /\ Budget \in Nat \ {0}
    /\ LastDay \in Nat \ {0} /\ Lookback \in Nat /\ Job # Operator
    /\ IsFiniteSet(Sub) /\ IsFiniteSet(Slice) /\ IsFiniteSet(Manual) /\ Slice \cap Manual = {}
    /\ Owner \in [Slice -> Sub] /\ Long \subseteq Sub /\ Price \in [Slice -> Nat]
    /\ Quantity \in [Slice \cup Manual -> Nat] /\ Lot \in [Slice \cup Manual -> Nat]
    /\ MaxMishaps \in Nat /\ MaxCandle \in Nat /\ MaxFaults \in Nat

\* An entry in two slices, its exit, and one order by hand.
MCOwner    == a :> opening @@ b :> opening @@ x :> closing
MCQuantity == a :> 1 @@ b :> 1 @@ x :> 1 @@ m :> 4
MCPrice    == a :> 1 @@ b :> 1 @@ x :> 3

Paper == INSTANCE PaperExecution
Live  == INSTANCE LiveReconciliation
Days  == INSTANCE BrokerDays

OnPaper   == candle # Unused
OnAccount == row # Unused
OnFigures == today # Unused
PaperUnused == /\ candle = Unused /\ order = Unused /\ position = Unused /\ reservation = Unused
               /\ halted = Unused /\ signalled = Unused /\ task = Unused /\ faults = Unused
LiveUnused  == /\ row = Unused /\ book = Unused /\ reading = Unused /\ readings = Unused
               /\ day = Unused /\ sweep = Unused
DaysUnused  == /\ today = Unused /\ hour = Unused /\ ran = Unused /\ sent = Unused /\ report = Unused
               /\ newest = Unused /\ pass = Unused /\ begun = Unused /\ asked = Unused
               /\ caught = Unused
Init == \/ Paper!Init /\ LiveUnused /\ DaysUnused
        \/ Live!Init /\ PaperUnused /\ DaysUnused
        \/ Days!Init /\ PaperUnused /\ LiveUnused
Next == \/ OnPaper /\ Paper!Next /\ UNCHANGED <<live, figures>>
        \/ OnAccount /\ Live!Next /\ UNCHANGED <<paper, figures>>
        \/ OnFigures /\ Days!Next /\ UNCHANGED <<paper, live>>
Spec == Init /\ [][Next]_<<paper, live, figures>>

TypeOK           == /\ OnPaper => Paper!TypeOK
                    /\ OnAccount => Live!TypeOK
                    /\ OnFigures => Days!TypeOK
LedgerBalances   == OnPaper => Paper!LedgerBalances
PaperBudget      == OnPaper => Paper!PaperBudget
SlotReturned     == OnPaper => Paper!SlotReturned
OwnAccountIsSafe == OnAccount => Live!OwnAccountIsSafe
HandBlocks       == OnAccount => Live!HandBlocks
SweptIsFinal     == OnAccount => Live!SweptIsFinal
BookedIsCash     == OnAccount => Live!BookedIsCash
CaughtUp         == OnFigures => Days!CaughtUp

\* The coroutines of the first two are named alike, and so are the signals and the slices
\* of the entry: a permutation of the names is one of either book.
Symmetry == Permutations(Task) \cup Permutations(Signal)
=============================================================================
