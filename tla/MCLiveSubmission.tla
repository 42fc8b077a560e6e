-------------------------- MODULE MCLiveSubmission --------------------------
(***************************************************************************)
(* Small instances of LiveSubmission: the scanner worker runs one sender;   *)
(* the API runs another, the scheduler's job and the resolve route.         *)
(***************************************************************************)
EXTENDS LiveSubmission, TLC

CONSTANTS w, a,         \* senders: the worker's and the API's
          job, route,   \* resolvers
          worker, api   \* processes

HomeOf(x) == IF x = w THEN worker ELSE api
MCHome == [x \in Sender \cup Resolver |-> HomeOf(x)]

\* Client order ids are interchangeable: no property names one.
IdSymmetry == Permutations(Id)
=============================================================================
