------------------------------- MODULE Referral -------------------------------
(***************************************************************************)
(* The referral programme of referral.service.ts: users claim the code of  *)
(* another user, and a referral is completed by an activity of the referee *)
(* or by the recovery cron.  A handler takes one step per awaited query;   *)
(* its transaction is READ COMMITTED, and XP is awarded on another         *)
(* connection, in a transaction of its own that commits at once.           *)
(***************************************************************************)
EXTENDS Naturals, FiniteSets

CONSTANTS
    Users,            \* users; each owns one active code
    NoUser,           \* SQL NULL
    MaxRewards,       \* maxRewardsPerReferrer
    MaxDepth,         \* MAX_DEPTH of detectReferralCycle (50)
    RequireActivity,  \* requireFirstActivity
    FirstConfig,      \* the rewards of referees at first
    Batch,            \* referrals that the recovery takes at a time (50)
    Requests,         \* the requests; each runs once
    Worker,           \* the recovery cron, which completes one referral at a time
    Ops               \* the operations and timers of this instance

Config == [xp : BOOLEAN, coins : BOOLEAN]
ASSUME ReferralBounds ==
    /\ NoUser \notin Users /\ Worker \notin Requests
    /\ MaxRewards \in Nat /\ MaxDepth \in Nat \ {0} /\ Batch \in Nat \ {0}
    /\ RequireActivity \in BOOLEAN /\ FirstConfig \in Config

VARIABLES
    config,        \* are refereeXp and refereeCoins positive?
    ref,           \* the referral each user is the referee of
    aged,          \* referees the recovery cron finds old enough
    referrerPaid,  \* XP transactions the referrer got for each referee
    refereePaid,   \* welcome XP transactions of each referee
    req,           \* the requests and the worker
    todo           \* referees that the recovery routine still has to complete

vars == <<config, ref, aged, referrerPaid, refereePaid, req, todo>>

Procs == Requests \cup {Worker}
MaybeUser == Users \cup {NoUser}
Row == [referrer : MaybeUser, status : {"NONE", "PENDING", "COMPLETED"},
        referrerXp : BOOLEAN, refereeXp : BOOLEAN, refereeCoins : BOOLEAN]
NoRow == [referrer |-> NoUser, status |-> "NONE",
          referrerXp |-> FALSE, refereeXp |-> FALSE, refereeCoins |-> FALSE]
Final == {"ok", "refused"}
Request == [op : {"none", "claim", "complete"}, user : MaybeUser, owner : MaybeUser,
            pc : {"new", "existing", "retryXp", "retryCoins", "cycle", "create", "welcome",
                  "commit", "completeRead", "completeCount", "payReferrer", "payReferee",
                  "completeCommit"} \cup Final,
            config : Config, row : Row, holds : BOOLEAN, can : BOOLEAN]
NewRequest == [op |-> "none", user |-> NoUser, owner |-> NoUser, pc |-> "new",
               config |-> FirstConfig, row |-> NoRow, holds |-> FALSE, can |-> FALSE]

Init ==
    /\ config = FirstConfig
    /\ ref = [u \in Users |-> NoRow] /\ aged = {}
    /\ referrerPaid = [u \in Users |-> 0] /\ refereePaid = [u \in Users |-> 0]
    /\ req = [p \in Procs |-> NewRequest] /\ todo = {}

-----------------------------------------------------------------------------
Resting == \A p \in Procs : req[p].pc \in Final \cup {"new"}
Referred == {u \in Users : ref[u].status # "NONE"}
\* f walks from f[0] up to its n-th ancestor: from each referee to its referrer.
Walk(f, n) == \A i \in 1 .. n : f[i - 1] \in Referred /\ f[i] = ref[f[i - 1]].referrer
Path(n) == [0 .. n -> Users]
Rewarded(v) == {u \in Referred : ref[u].referrer = v /\ ref[u].status = "COMPLETED"
                                                     /\ ref[u].referrerXp}

\* A row written by a transaction is held until it commits.
Free(p, u) == \A q \in Procs \ {p} : ~(req[q].holds /\ req[q].user = u)

Finish(p, result) ==
    req' = [req EXCEPT ![p] = [NewRequest EXCEPT !.op = IF p = Worker THEN "none" ELSE req[p].op,
                                                 !.pc = IF p = Worker THEN "new" ELSE result]]
Goto(p, pc) == req' = [req EXCEPT ![p].pc = pc]
-----------------------------------------------------------------------------
(* Plausible bugs, for the mutation check of the properties.               *)

\* The chain is not walked: only the direct reciprocal referral is refused.
CyclicDirect(v, u) == v \in Referred /\ ref[v].referrer = u

\* A second claim replaces the referral of the first.
CreateUpsert(p) ==
    /\ req[p].pc = "create"
    /\ req' = [req EXCEPT ![p].pc = "welcome", ![p].holds = TRUE]
    /\ UNCHANGED <<config, ref, aged, referrerPaid, refereePaid, todo>>

\* A completion pays the welcome bonus whatever the claim has paid.
PayRefereeAlways(p) ==
    LET u == req[p].user IN
    /\ req[p].pc = "payReferee"
    /\ refereePaid' = [refereePaid EXCEPT ![u] = IF req[p].config.xp THEN @ + 1 ELSE @]
    /\ Goto(p, "completeCommit")
    /\ UNCHANGED <<config, ref, aged, referrerPaid, todo>>

\* The cap is off by one.
CanRewardOffByOne(v) == Cardinality(Rewarded(v)) <= MaxRewards


\* A retry records the welcome bonus without paying it.
ClaimExistingUnpaid(p) ==
    LET row == ref[req[p].user] IN
    /\ req[p].pc = "existing"
    /\ CASE row = NoRow -> Goto(p, "cycle")
         [] row # NoRow /\ row.referrer = req[p].owner ->
              req' = [req EXCEPT ![p].row = row, ![p].pc = "retryCoins"]
         [] OTHER -> Finish(p, "refused")
    /\ UNCHANGED <<config, ref, aged, referrerPaid, refereePaid, todo>>

\* The recovery waits for a full batch.
RecoverFindFull ==
    LET found == {u \in aged : ref[u].status = "PENDING"} IN
    /\ "recover" \in Ops /\ todo = {} /\ found # {} /\ req[Worker].pc = "new"
    /\ todo' \in {S \in SUBSET found : Cardinality(S) = Batch}
    /\ UNCHANGED <<config, ref, aged, referrerPaid, refereePaid, req>>

-----------------------------------------------------------------------------
(* claimReferral                                                           *)

\* The configuration, then the code: one's own is refused.
ClaimLoad(p, u, v) ==
    /\ "claim" \in Ops /\ p # Worker /\ req[p].pc = "new"
    /\ ("serial" \in Ops) => Resting
    /\ req' = [req EXCEPT ![p] =
                 IF u = v THEN [NewRequest EXCEPT !.op = "claim", !.pc = "refused"]
                 ELSE [NewRequest EXCEPT !.op = "claim", !.user = u, !.owner = v,
                                         !.pc = "existing", !.config = config]]
    /\ UNCHANGED <<config, ref, aged, referrerPaid, refereePaid, todo>>

\* The same code again is a retry; another one is refused.
ClaimExisting(p) ==
    LET row == ref[req[p].user] IN
    /\ req[p].pc = "existing"
    /\ CASE row = NoRow -> Goto(p, "cycle")
         [] row # NoRow /\ row.referrer = req[p].owner ->
              req' = [req EXCEPT ![p].row = row,
                        ![p].pc = IF ~row.refereeXp /\ req[p].config.xp
                                  THEN "retryXp" ELSE "retryCoins"]
         [] OTHER -> Finish(p, "refused")
    /\ UNCHANGED <<config, ref, aged, referrerPaid, refereePaid, todo>>

\* The welcome XP that the referee has not had is caught up.
RetryXp(p) ==
    /\ req[p].pc = "retryXp"
    /\ refereePaid' = [refereePaid EXCEPT ![req[p].user] = @ + 1]
    /\ Goto(p, "retryCoins")
    /\ UNCHANGED <<config, ref, aged, referrerPaid, todo>>
\* The row says what was awarded, but only if coins were caught up.
RetryCoins(p) ==
    LET row == req[p].row
        due == ~row.refereeCoins /\ req[p].config.coins
        next == IF row.status = "COMPLETED" \/ RequireActivity THEN "commit"
                ELSE "completeRead"
    IN
    /\ req[p].pc = "retryCoins"
    /\ IF due THEN /\ Free(p, req[p].user)
                   /\ req' = [req EXCEPT ![p].holds = TRUE, ![p].pc = next,
                                ![p].row = [ref[req[p].user] EXCEPT
                                              !.refereeXp = req[p].config.xp,
                                              !.refereeCoins = TRUE]]
       ELSE IF next = "commit" THEN Finish(p, "ok") ELSE Goto(p, next)
    /\ UNCHANGED <<config, ref, aged, referrerPaid, refereePaid, todo>>

\* detectReferralCycle: v may not descend from u, nor from an ancestor twice, as far as
\* MaxDepth ancestors up.  The walk, a query per ancestor, is one step.
Cyclic(v, u) ==
    \E n \in 1 .. MaxDepth : \E f \in Path(n) :
        f[0] = v /\ Walk(f, n) /\ f[n] \in {u} \cup {f[i] : i \in 1 .. n - 1}
ClaimCycle(p) ==
    /\ req[p].pc = "cycle"
    /\ IF Cyclic(req[p].owner, req[p].user) THEN Finish(p, "refused")
       ELSE Goto(p, "create")
    /\ UNCHANGED <<config, ref, aged, referrerPaid, refereePaid, todo>>

\* refereeId is unique: a second insert waits for the first, then fails.
ClaimCreate(p) ==
    /\ req[p].pc = "create" /\ Free(p, req[p].user)
    /\ IF ref[req[p].user] # NoRow THEN Finish(p, "refused")
       ELSE req' = [req EXCEPT ![p].pc = "welcome", ![p].holds = TRUE]
    /\ UNCHANGED <<config, ref, aged, referrerPaid, refereePaid, todo>>
ClaimWelcome(p) ==
    LET rewards == req[p].config
        row == [NoRow EXCEPT !.referrer = req[p].owner, !.status = "PENDING",
                             !.refereeXp = rewards.xp,
                             !.refereeCoins = rewards.coins]
    IN
    /\ req[p].pc = "welcome"
    /\ refereePaid' = [refereePaid EXCEPT ![req[p].user] = IF rewards.xp THEN @ + 1 ELSE @]
    /\ req' = [req EXCEPT ![p].row = row,
                          ![p].pc = IF RequireActivity THEN "commit" ELSE "completeRead"]
    /\ UNCHANGED <<config, ref, aged, referrerPaid, todo>>
ClaimCommit(p) ==
    /\ req[p].pc = "commit"
    /\ ref' = [ref EXCEPT ![req[p].user] = req[p].row]
    /\ Finish(p, "ok")
    /\ UNCHANGED <<config, aged, referrerPaid, refereePaid, todo>>

-----------------------------------------------------------------------------
(* completeReferral and executeCompleteReferral, in a transaction of its    *)
(* own or in that of a claim                                               *)

CompleteLoad(p, u) ==
    /\ req[p].pc = "new"
    /\ IF p = Worker THEN u \in todo ELSE "complete" \in Ops
    /\ ("serial" \in Ops) => Resting
    /\ todo' = IF p = Worker THEN todo \ {u} ELSE todo
    /\ req' = [req EXCEPT ![p] = [NewRequest EXCEPT !.op = "complete", !.user = u,
                                    !.pc = "completeRead", !.config = config]]
    /\ UNCHANGED <<config, ref, aged, referrerPaid, refereePaid>>

\* A transaction reads its own writes.
CompleteRead(p) ==
    LET row == IF req[p].holds THEN req[p].row ELSE ref[req[p].user] IN
    /\ req[p].pc = "completeRead"
    /\ CASE row.status = "PENDING" ->
              req' = [req EXCEPT ![p].pc = "completeCount", ![p].row = row]
         [] row.status # "PENDING" /\ req[p].holds -> Goto(p, "commit")
         [] OTHER -> Finish(p, IF row.status = "COMPLETED" THEN "ok" ELSE "refused")
    /\ UNCHANGED <<config, ref, aged, referrerPaid, refereePaid, todo>>
CanReward(v) == Cardinality(Rewarded(v)) < MaxRewards
CompleteCount(p) ==
    LET can == CanReward(req[p].row.referrer) IN
    /\ req[p].pc = "completeCount"
    /\ req' = [req EXCEPT ![p].can = can,
                          ![p].pc = IF can THEN "payReferrer" ELSE "payReferee"]
    /\ UNCHANGED <<config, ref, aged, referrerPaid, refereePaid, todo>>
PayReferrer(p) ==
    /\ req[p].pc = "payReferrer"
    /\ referrerPaid' = [referrerPaid EXCEPT ![req[p].user] = @ + 1]
    /\ Goto(p, "payReferee")
    /\ UNCHANGED <<config, ref, aged, refereePaid, todo>>
PayReferee(p) ==
    LET u == req[p].user IN
    /\ req[p].pc = "payReferee"
    /\ refereePaid' = [refereePaid EXCEPT ![u] =
                         IF ~req[p].row.refereeXp /\ req[p].config.xp THEN @ + 1 ELSE @]
    /\ Goto(p, "completeCommit")
    /\ UNCHANGED <<config, ref, aged, referrerPaid, todo>>
CompleteCommit(p) ==
    LET row == req[p].row IN
    /\ req[p].pc = "completeCommit" /\ Free(p, req[p].user)
    /\ ref' = [ref EXCEPT ![req[p].user] =
                 [row EXCEPT !.status = "COMPLETED", !.referrerXp = req[p].can,
                             !.refereeXp = @ \/ req[p].config.xp,
                             !.refereeCoins = @ \/ req[p].config.coins]]
    /\ Finish(p, "ok")
    /\ UNCHANGED <<config, aged, referrerPaid, refereePaid, todo>>

\* The transaction is rolled back (its time limit, or a lost connection).
RollBack(p) ==
    /\ "rollback" \in Ops /\ req[p].pc \in {"commit", "completeCommit"}
    /\ Finish(p, "refused")
    /\ UNCHANGED <<config, ref, aged, referrerPaid, refereePaid, todo>>

-----------------------------------------------------------------------------
(* updateAdminConfig and the recovery cron                                 *)

UpdateConfig ==
    /\ "config" \in Ops
    /\ config' \in Config
    /\ UNCHANGED <<ref, aged, referrerPaid, refereePaid, req, todo>>

\* The referral is two minutes old, its referee has an account of fifteen.
Age(u) ==
    /\ "recover" \in Ops /\ u \in Referred \ aged
    /\ aged' = aged \cup {u}
    /\ UNCHANGED <<config, ref, referrerPaid, refereePaid, req, todo>>
RecoverFind ==
    LET found == {u \in aged : ref[u].status = "PENDING"} IN
    /\ "recover" \in Ops /\ todo = {} /\ found # {} /\ req[Worker].pc = "new"
    /\ todo' \in {S \in SUBSET found :
                     Cardinality(S) <= Batch /\ (S = found \/ Cardinality(S) = Batch)}
    /\ UNCHANGED <<config, ref, aged, referrerPaid, refereePaid, req>>

-----------------------------------------------------------------------------
Step(p) == \/ ClaimExisting(p) \/ RetryXp(p) \/ RetryCoins(p) \/ ClaimCycle(p)
           \/ ClaimCreate(p) \/ ClaimWelcome(p) \/ ClaimCommit(p)
           \/ CompleteRead(p) \/ CompleteCount(p) \/ PayReferrer(p) \/ PayReferee(p)
           \/ CompleteCommit(p)
Call(p) == \E u \in Users : CompleteLoad(p, u) \/ \E v \in Users : ClaimLoad(p, u, v)
Next == \/ \E p \in Procs : Step(p) \/ Call(p) \/ RollBack(p)
        \/ UpdateConfig \/ RecoverFind \/ \E u \in Users : Age(u)

Spec == Init /\ [][Next]_vars
\* Handlers go on, time passes, and the cron runs every ten minutes.
FairSpec == /\ Spec /\ \A p \in Procs : WF_vars(Step(p))
            /\ \A u \in Users : WF_vars(Age(u))
            /\ WF_vars(RecoverFind) /\ WF_vars(\E u \in Users : CompleteLoad(Worker, u))

-----------------------------------------------------------------------------
(* Properties                                                              *)

\* Referrals and requests keep their types; a referral that exists names a
\* referrer other than its referee.
TypeOK ==
    /\ config \in Config /\ ref \in [Users -> Row] /\ aged \in SUBSET Users
    /\ referrerPaid \in [Users -> Nat] /\ refereePaid \in [Users -> Nat]
    /\ req \in [Procs -> Request] /\ todo \in SUBSET Users
    /\ \A u \in Referred : ref[u].referrer \in Users \ {u}

\* A referral is never taken back, nor given to another referrer, whatever
\* claims and completions cross (699-703, "changer de parrain").
ReferrerIsForLife ==
    [][\A u \in Referred : u \in Referred' /\ ref'[u].referrer = ref[u].referrer]_vars

\* The referee gets the welcome bonus once: claims, retries and completions do
\* not pay it twice (590-631, 734-767, 973-1003).
WelcomeOnce == \A u \in Users : refereePaid[u] <= 1

\* No more than maxRewardsPerReferrer referrals of one referrer are rewarded (933-945).
RewardsCapped == \A v \in Users : Cardinality(Rewarded(v)) <= MaxRewards

\* Nobody is his own ancestor, as far up as the walk could see it (377-445, 705-716).
NoCycle == \A n \in 1 .. MaxDepth + 1 : \A f \in Path(n) : Walk(f, n) => f[n] # f[0]

\* A reward that a referral records was paid, whatever retries, completions,
\* configuration changes and rollbacks cross (599-631, 949-1015).
RecordedMeansPaid ==
    \A u \in Users : /\ ref[u].refereeXp => refereePaid[u] > 0
                     /\ ref[u].referrerXp => referrerPaid[u] > 0

\* A referral does not stay pending: the recovery completes it (referral-recovery.scheduler.ts:19-22).
PendingCompletes == \A u \in Users : ref[u].status = "PENDING" ~> ref[u].status = "COMPLETED"

-----------------------------------------------------------------------------
(* What comments of the code promise, and races or long histories break:   *)
(* TLC refutes each on the instance that README.md gives.                  *)

\* The referrer is rewarded once for each referee (910-919, 949-956).
ReferrerPaidOnce == \A u \in Users : referrerPaid[u] <= 1

\* Whoever got a welcome bonus has a referral once his claim has ended: the claim
\* is one transaction (513, 541).
BonusHasReferral == Resting => \A u \in Users : refereePaid[u] > 0 => u \in Referred
=============================================================================
