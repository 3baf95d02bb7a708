----------------------------- MODULE MCProgression -----------------------------
(***************************************************************************)
(* Instances of Progression for TLC: a unit is 100 XP.                     *)
(***************************************************************************)
EXTENDS Progression, TLC, FiniteSetsExt

CONSTANTS r1, r2, r3

\* Two requests of any operation, and a third that crosses them
AllCalls == (r1 :> Operations) @@ (r2 :> Operations) @@ (r3 :> {"login", "award", "badges"})
MCThresholds == <<2, 5>>
SumOf(Coins(_)) == [l \in 0..MaxLevel |-> MapThenSumSet(Coins, 1..l)]
MCCoinsUpTo == SumOf(LevelCoins)
MCGameCoinsUpTo == SumOf(GameLevelCoins)
\* Two days stand for seven.  Paused, or with twice the coins for a level
MCEconomies == {[enabled |-> FALSE, multiplier |-> 1, streakBonus |-> 2 :> 1],
                [enabled |-> TRUE, multiplier |-> 2, streakBonus |-> 2 :> 1]}
Symmetry == Permutations({r1, r2})
=============================================================================
