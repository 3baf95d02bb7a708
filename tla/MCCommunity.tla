----------------------------- MODULE MCCommunity -----------------------------
(***************************************************************************)
(* Instances of Community for TLC.                                         *)
(***************************************************************************)
EXTENDS Community, TLC

CONSTANTS a, b, none, r1, r2, r3

\* A request of any operation, one that changes what it read, and one that crosses or
\* follows both
AllCalls == (r1 :> Operations)
            @@ (r2 :> {"role", "delete", "ban", "sanction", "tier", "purge", "send", "block"})
            @@ (r3 :> {"accept", "login", "reactivate"})
=============================================================================
