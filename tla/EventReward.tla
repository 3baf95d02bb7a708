------------------------------ MODULE EventReward ------------------------------
(***************************************************************************)
(* One reward of an event and the calls that give it: submitProgress, for  *)
(* the user who completes the event, and distributeRewards, for the top of *)
(* the leaderboard.  Both go through awardSingleReward.  The reward is     *)
(* paid in XP by progressionService, in a transaction of its own.          *)
(***************************************************************************)
EXTENDS Naturals, FiniteSets, Sequences

CONSTANTS
    Users,          \* participants
    Criteria,       \* the reward's criteria
    MaxWinners,     \* maxWinners; 0 stands for NULL, no limit
    Ranking,        \* the leaderboard entries, best first, cut to topN
    RewardRequests, \* the requests; each runs once
    Ops             \* the operations of this instance, and perhaps "rollback"

ASSUME RewardBounds ==
    /\ Criteria \in {"completion", "top_1", "top_3"} /\ MaxWinners \in Nat
    /\ Ranking \in Seq(Users) /\ IsFiniteSet(Users)

VARIABLES
    claims,       \* users with an event_reward_claims row
    claimsCount,  \* event_rewards.claimsCount
    xp,           \* XP transactions each user got for the reward
    lost,         \* history: those whose claim was rolled back afterwards
    req           \* the requests

rewardVars == <<claims, claimsCount, xp, lost, req>>

Returned == {"ok", "refused"}
Request == [op : {"none", "complete", "distribute"}, todo : Seq(Users), seen : Nat,
            pc : {"new", "check", "create", "pay", "commit"} \cup Returned]
NewRequest == [op |-> "none", todo |-> <<>>, seen |-> 0, pc |-> "new"]
Resting == \A r \in RewardRequests : req[r].pc \in Returned \cup {"new"}

RewardInit ==
    /\ claims = {} /\ claimsCount = 0
    /\ xp = [u \in Users |-> 0] /\ lost = [u \in Users |-> 0]
    /\ req = [r \in RewardRequests |-> NewRequest]

Winner(r) == Head(req[r].todo)
Return(r, result) ==
    req' = [req EXCEPT ![r] = [NewRequest EXCEPT !.op = req[r].op, !.pc = result]]
Proceed(r, pc) == req' = [req EXCEPT ![r].pc = pc]
\* On to the next winner of the loop, if any.
NextWinner(r) ==
    IF Tail(req[r].todo) = <<>> THEN Return(r, "ok")
    ELSE req' = [req EXCEPT ![r].todo = Tail(req[r].todo), ![r].pc = "check"]

\* An error ends a distribution; submitProgress logs it and goes on.
Fail(r) == IF req[r].op = "distribute" THEN Return(r, "refused") ELSE NextWinner(r)

\* A transaction on the reward holds its row, whose counter it has incremented.
Holder == {r \in RewardRequests : req[r].pc \in {"pay", "commit"}}

-----------------------------------------------------------------------------
(* Plausible bugs, for the mutation check of the properties.               *)

\* The claim is looked up when the request starts only.
CreateUnchecked(r) ==
    /\ req[r].pc = "create" /\ Holder = {}
    /\ Proceed(r, "pay")
    /\ UNCHANGED <<claims, claimsCount, xp, lost>>

\* The counter is written from the reward that the request had read.
CommitStale(r) ==
    /\ req[r].pc = "commit"
    /\ claims' = claims \cup {Winner(r)} /\ claimsCount' = req[r].seen + 1
    /\ NextWinner(r)
    /\ UNCHANGED <<xp, lost>>

-----------------------------------------------------------------------------
\* The event is read with its rewards: claimsCount is what it was then.
Receive(r, op, todo) ==
    /\ op \in Ops /\ req[r].pc = "new"
    /\ req' = [req EXCEPT ![r] = [op |-> op, todo |-> todo, seen |-> claimsCount,
                                  pc |-> IF todo = <<>> THEN "ok" ELSE "check"]]
    /\ UNCHANGED <<claims, claimsCount, xp, lost>>

\* submitProgress, for a participation that is complete
Complete(r, u) == Receive(r, "complete", IF Criteria = "completion" THEN <<u>> ELSE <<>>)

\* distributeRewards
Ranked == CASE Criteria = "top_1" -> 1 [] Criteria = "top_3" -> 3 [] OTHER -> 0
Distribute(r) ==
    Receive(r, "distribute", SubSeq(Ranking, 1, IF Ranked <= Len(Ranking) THEN Ranked
                                                ELSE Len(Ranking)))

\* awardSingleReward: one claim per user, and the cap on the counter as read
Check(r) ==
    /\ req[r].pc = "check"
    /\ IF Winner(r) \in claims \/ (MaxWinners # 0 /\ req[r].seen >= MaxWinners)
       THEN NextWinner(r) ELSE Proceed(r, "create")
    /\ UNCHANGED <<claims, claimsCount, xp, lost>>

\* The unique key (reward, user) refuses a second claim.
CreateClaim(r) ==
    /\ req[r].pc = "create" /\ Holder = {}
    /\ IF Winner(r) \in claims THEN Fail(r) ELSE Proceed(r, "pay")
    /\ UNCHANGED <<claims, claimsCount, xp, lost>>
Pay(r) ==
    /\ req[r].pc = "pay"
    /\ xp' = [xp EXCEPT ![Winner(r)] = @ + 1]
    /\ Proceed(r, "commit")
    /\ UNCHANGED <<claims, claimsCount, lost>>
Commit(r) ==
    /\ req[r].pc = "commit"
    /\ claims' = claims \cup {Winner(r)} /\ claimsCount' = claimsCount + 1
    /\ NextWinner(r)
    /\ UNCHANGED <<xp, lost>>
\* The transaction fails, or lasts longer than its time limit, for the XP and
\* the notification are awaited inside it: it is rolled back, without the XP.
RollBack(r) ==
    /\ "rollback" \in Ops /\ r \in Holder
    /\ lost' = IF req[r].pc = "commit" THEN [lost EXCEPT ![Winner(r)] = @ + 1] ELSE lost
    /\ Fail(r)
    /\ UNCHANGED <<claims, claimsCount, xp>>

RewardNext == \E r \in RewardRequests :
            \/ \E u \in Users : Complete(r, u)
            \/ Distribute(r) \/ Check(r) \/ CreateClaim(r) \/ Pay(r) \/ Commit(r) \/ RollBack(r)
RewardSpec == RewardInit /\ [][RewardNext]_rewardVars

-----------------------------------------------------------------------------
(* Properties                                                              *)

\* Claims, counter and requests keep their types; only one transaction at a
\* time holds the reward.
RewardTypeOK ==
    /\ claims \in SUBSET Users /\ claimsCount \in Nat
    /\ xp \in [Users -> Nat] /\ lost \in [Users -> Nat]
    /\ req \in [RewardRequests -> Request]
    /\ \A r, q \in Holder : r = q
    /\ \A r \in RewardRequests : req[r].pc \notin Returned \cup {"new"} => req[r].todo # <<>>

\* The counter of the reward is the number of its claims (867-881).
ClaimsCounted == claimsCount = Cardinality(claims)

\* At rest a user has been paid once for each claim and once for each claim that
\* was rolled back, however completions and distributions cross (842-889): no
\* claim without its XP, and no XP that neither a claim nor a rollback explains.
PaidPerClaim ==
    Resting => \A u \in Users : xp[u] = lost[u] + IF u \in claims THEN 1 ELSE 0

-----------------------------------------------------------------------------
(* What comments of the code promise, and races or long histories break:   *)
(* TLC refutes each on the instance that README.md gives.                  *)

\* Giving the reward again never pays again: the award is idempotent (842).
PaidOnce == \A u \in Users : xp[u] <= 1

\* No more than maxWinners users get the reward (861-864).
WinnersCapped == MaxWinners # 0 => Cardinality(claims) <= MaxWinners
=============================================================================
