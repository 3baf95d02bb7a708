----------------------------- MODULE MCContribution -----------------------------
(***************************************************************************)
(* Instances of Contribution for TLC.                                      *)
(***************************************************************************)
EXTENDS Contribution, TLC

CONSTANTS a, b, m, r1, r2, r3

\* Two wordings, and another region for the first
MCWording == (0 :> 0) @@ (1 :> 1) @@ (2 :> 2) @@ (3 :> 1)

\* Two requests of nearly any operation, and a third that crosses or follows them
AllCalls == (r1 :> Operations \ {"dispute", "resolve"})
            @@ (r2 :> Operations \ {"create", "remove", "uncomment", "vote", "resolve"})
            @@ (r3 :> {"vote", "resolve"})
=============================================================================
