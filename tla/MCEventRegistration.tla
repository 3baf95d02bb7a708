-------------------------- MODULE MCEventRegistration --------------------------
(***************************************************************************)
(* Instances of EventRegistration for TLC: three users, a bounded number   *)
(* of requests, and the operations of interest.                            *)
(***************************************************************************)
EXTENDS EventRegistration, TLC

CONSTANTS a, b, c, none, r1, r2, r3, r4, r5, r6

\* Requests and users are interchangeable.
Symmetry == Permutations(Requests) \cup Permutations(Users)
=============================================================================
