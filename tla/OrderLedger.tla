---------------------------- MODULE OrderLedger ----------------------------
(***************************************************************************)
(* What live submission promises, without its gates, coroutines, crashes or *)
(* recovery passes: an order leaves only after its intent is on record, it  *)
(* leaves at most once, and whatever the record claims about it is true.    *)
(* The record may forget ("open"); it may never lie.                        *)
(* (services/live_orders.py:1-48, services/live_order_recovery.py:1-32.)    *)
(***************************************************************************)
CONSTANT Id

VARIABLES
    intent,  \* the attempts on record
    fate,    \* what has become of each order
    belief   \* what the record says of it: "open", "placed" or "refused"

ledger == <<intent, fate, belief>>

Belief == {"open", "placed", "refused"}

Truthful(b, f) ==
    \A i \in Id : /\ b[i] = "placed"  => f[i] = "placed"
                  /\ b[i] = "refused" => f[i] \in {"unsent", "refused"}

Init ==
    /\ intent = {}
    /\ fate = [i \in Id |-> "unsent"]
    /\ belief = [i \in Id |-> "open"]

Intend(i) ==
    /\ i \notin intent
    /\ intent' = intent \cup {i}
    /\ UNCHANGED <<fate, belief>>

Dispatch(i) ==
    /\ i \in intent
    /\ fate[i] = "unsent"
    /\ belief[i] # "refused"
    /\ fate' = [fate EXCEPT ![i] = "wire"]
    /\ UNCHANGED <<intent, belief>>

Settle(i) ==
    /\ fate[i] = "wire"
    /\ \E f \in {"placed", "refused", "lost"} : fate' = [fate EXCEPT ![i] = f]
    /\ UNCHANGED <<intent, belief>>

Learn ==
    /\ belief' \in [Id -> Belief]
    /\ \A i \in Id \ intent : belief'[i] = belief[i]
    /\ Truthful(belief', fate)
    /\ UNCHANGED <<intent, fate>>

Next ==
    \/ \E i \in Id : Intend(i) \/ Dispatch(i) \/ Settle(i)
    \/ Learn

Spec == Init /\ [][Next]_ledger
=============================================================================
