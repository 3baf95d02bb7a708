------------------------------ MODULE MCReferral ------------------------------
(***************************************************************************)
(* Instances of Referral for TLC: two or three users, a bounded number of   *)
(* requests, and the recovery cron where it matters.                       *)
(***************************************************************************)
EXTENDS Referral, TLC

CONSTANTS a, b, c, none, w, r1, r2, r3, r4, r5

NoBonus == [xp |-> FALSE, coins |-> TRUE]
Bonus == [xp |-> TRUE, coins |-> TRUE]
Symmetry == Permutations(Requests) \cup Permutations(Users)
=============================================================================
