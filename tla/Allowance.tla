----------------------------- MODULE Allowance -----------------------------
(***************************************************************************)
(* What a limit promises when it is read before what it bounds is spent: an  *)
(* item is let in on what is used at that moment, at most Width items are    *)
(* on their way at once, and so the limit is overrun by those at most.       *)
(***************************************************************************)
EXTENDS Integers, FiniteSets

CONSTANTS
    Item,
    Weight,      \* what each takes, in units,
    Most,        \* of which it takes so many at the most
    Limit,
    Width

VARIABLES used, underway

Total(items) == Cardinality({p \in items \X (1 .. Most) : p[2] <= Weight[p[1]]})

Init == used = {} /\ underway = {}

Admit(i) ==
    /\ i \notin used \cup underway
    /\ Total(used) + Weight[i] <= Limit
    /\ Cardinality(underway) < Width
    /\ underway' = underway \cup {i}
    /\ used' = used

Charge(i) == i \in underway /\ underway' = underway \ {i} /\ used' = used \cup {i}

Drop(i) == i \in underway /\ underway' = underway \ {i} /\ used' = used

Release(i) == i \in used /\ used' = used \ {i} /\ underway' = underway

Next == \E i \in Item : Admit(i) \/ Charge(i) \/ Drop(i) \/ Release(i)

Spec == Init /\ [][Next]_<<used, underway>>
=============================================================================
