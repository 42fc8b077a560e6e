------------------------------- MODULE MCExits -------------------------------
(***************************************************************************)
(* The two ends of a strategy's trade: the candles that lead to its signal   *)
(* (Scanner) and the candles it is left on (TradeExit).  A behaviour of      *)
(* this instance is one of the two; the scanner's variables are Unused in    *)
(* the second, and in the first the trade stays as one plan begins it.       *)
(***************************************************************************)
EXTENDS TradeExit, TLC

CONSTANTS
    Instrument, Ranking, Handler, Kind, Cooldown, Ceiling, Lapses, LastMinute, LastVersion,
    Unused

VARIABLES kind, now, seen, ranked, universe, version, state, accepted, signals, offers, task
scan == <<kind, now, seen, ranked, universe, version, state, accepted, signals, offers, task>>

Scan == INSTANCE Scanner WITH minute <- now

ASSUME ScanAssumption ==
    /\ Kind \subseteq {"orb", "vwap", "rs", "ema"}
    /\ {LastMinute, LastVersion} \subseteq Nat \ {0}
    /\ {} \notin Ranking   \* one that keeps nothing is none: everything is scanned

OnScan     == kind # Unused
ScanUnused == /\ kind = Unused /\ now = Unused /\ seen = Unused /\ ranked = Unused
              /\ universe = Unused /\ version = Unused /\ state = Unused /\ accepted = Unused
              /\ signals = Unused /\ offers = Unused /\ task = Unused

\* One of the plans a trade begins with.
OnePlan == /\ rules = [trailing |-> "NONE", limit |-> 0, square_off |-> 0]
           /\ signal = Plan("LONG", 1, 2)

MCInit == \/ Init /\ ScanUnused
          \/ Init /\ OnePlan /\ Scan!Init
MCNext == \/ ~OnScan /\ Next /\ UNCHANGED scan
          \/ OnScan /\ Scan!Next /\ UNCHANGED vars
MCSpec == MCInit /\ [][MCNext]_<<vars, scan>>

SetupIsAlive   == OnScan => Scan!SetupIsAlive
OfferedOnce    == OnScan => Scan!OfferedOnce
RankingApplies == OnScan => Scan!RankingApplies

\* The coroutines are alike.
Symmetry == Permutations(Handler)
=============================================================================
