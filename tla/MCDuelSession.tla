---------------------------- MODULE MCDuelSession ----------------------------
(***************************************************************************)
(* Instances of DuelSession for TLC.  The bound of each is the number of   *)
(* requests clients send; handlers interleave freely within it.            *)
(***************************************************************************)
EXTENDS DuelSession, TLC

CONSTANTS h, a, b, c, r1, r2, r3, r4, r5, none

\* Requests are interchangeable, and so are the users without a role.
Symmetry == Permutations(Requests)
                \cup Permutations(Users \ {Host, Opponent, DeckAuthor})
=============================================================================
