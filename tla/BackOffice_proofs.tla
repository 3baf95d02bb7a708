-------------------------- MODULE BackOffice_proofs --------------------------
(***************************************************************************)
(* Proofs about EventReward and BetaProgram, whose modules share no state. *)
(* The rewards of an event are claimed once and within its cap, for every  *)
(* set of users and requests, every ranking and every cap; what the log of *)
(* mails tells is true, for every set of requests, mails, testers and      *)
(* fates, and however many queries fail.                                   *)
(***************************************************************************)
EXTENDS EventReward, BetaProgram, FiniteSetTheorems, SequenceTheorems, WellFoundedInduction, TLAPS

(***************************************************************************)
(* The rewards of an event (EventReward)                                   *)
(***************************************************************************)

\* A request, and the winners it has left, while it runs.
GoodRequest == {q \in Request : q.pc \notin Returned \cup {"new"} => q.todo # <<>>}

\* Whoever is about to get a claim has none: the holder of the reward looked.
HolderIsFirst == \A r \in Holder : Winner(r) \notin claims

RewardInv == RewardTypeOK /\ ClaimsCounted /\ HolderIsFirst

\* The XP is paid before the claim is committed, by the transaction that holds
\* the reward.
Credited(u) == u \in claims \/ \E r \in RewardRequests : req[r].pc = "commit" /\ Winner(r) = u
PaidInv == \A u \in Users : xp[u] = lost[u] + IF Credited(u) THEN 1 ELSE 0

-----------------------------------------------------------------------------
(* How a step changes the request that takes it.                           *)

\* One more payment.
LEMMA OneMore ==
    ASSUME NEW f \in [Users -> Nat], NEW u \in Users, NEW g, g = [f EXCEPT ![u] = @ + 1]
    PROVE  /\ g \in [Users -> Nat]
           /\ \A v \in Users : g[v] = IF v = u THEN f[v] + 1 ELSE f[v]
  OBVIOUS

\* A request with its fields; the winner of a running one is a user.
LEMMA RequestFields ==
    ASSUME RewardTypeOK, NEW r \in RewardRequests
    PROVE  /\ req[r] \in GoodRequest /\ req[r].todo \in Seq(Users) /\ req[r].seen \in Nat
           /\ req[r].pc \notin Returned \cup {"new"} => Winner(r) \in Users
  <1>1. req[r] \in GoodRequest /\ req[r].todo \in Seq(Users) /\ req[r].seen \in Nat
    BY DEF RewardTypeOK, GoodRequest, Request
  <1>2. CASE req[r].pc \notin Returned \cup {"new"}
    <2>1. req[r].todo # <<>>
      BY <1>2 DEF RewardTypeOK
    <2> QED BY <1>1, <2>1, HeadTailProperties DEF Winner
  <1> QED BY <1>1, <1>2

\* Going to another step keeps the request; its winners stay while it runs.
LEMMA GotoRequest ==
    ASSUME RewardTypeOK, NEW r \in RewardRequests, req[r].pc \notin Returned \cup {"new"},
           NEW pc \in {"create", "pay", "commit"}, Proceed(r, pc)
    PROVE  \E q \in GoodRequest : /\ req' = [req EXCEPT ![r] = q]
                                  /\ q.pc = pc /\ q.todo = req[r].todo
  <1> DEFINE q == [req[r] EXCEPT !.pc = pc]
  <1>1. req[r] \in Request /\ req[r].todo # <<>>
    BY DEF RewardTypeOK
  <1>2. q \in GoodRequest /\ q.pc = pc /\ q.todo = req[r].todo
    BY <1>1 DEF GoodRequest, Request, Returned
  <1>3. req' = [req EXCEPT ![r] = q]
    BY DEF Proceed, RewardTypeOK
  <1> QED BY <1>2, <1>3

\* The end of a request.
LEMMA FinishRequest ==
    ASSUME RewardTypeOK, NEW r \in RewardRequests, NEW result \in Returned, Return(r, result)
    PROVE  \E q \in GoodRequest : req' = [req EXCEPT ![r] = q] /\ q.pc \in Returned
  <1> DEFINE q == [NewRequest EXCEPT !.op = req[r].op, !.pc = result]
  <1>1. req[r].op \in {"none", "complete", "distribute"}
    BY DEF RewardTypeOK, Request
  <1>2. NewRequest \in Request
    BY DEF NewRequest, Request
  <1>3. q \in Request /\ q.pc = result
    BY <1>1, <1>2 DEF Request
  <1>4. q \in GoodRequest
    BY <1>3 DEF GoodRequest
  <1>5. req' = [req EXCEPT ![r] = q]
    BY DEF Return
  <1> QED BY <1>3, <1>4, <1>5

\* On to the next winner, or to the end of the request.
LEMMA ContinueRequest ==
    ASSUME RewardTypeOK, NEW r \in RewardRequests, req[r].pc \notin Returned \cup {"new"}, NextWinner(r)
    PROVE  \E q \in GoodRequest : req' = [req EXCEPT ![r] = q] /\ q.pc \in Returned \cup {"check"}
  <1>1. CASE Tail(req[r].todo) = <<>>
    BY <1>1, FinishRequest DEF NextWinner, Returned
  <1>2. CASE Tail(req[r].todo) # <<>>
    <2> DEFINE q == [req[r] EXCEPT !.todo = Tail(req[r].todo), !.pc = "check"]
    <2>1. req[r] \in Request /\ req[r].todo # <<>> /\ req[r].todo \in Seq(Users)
      BY DEF RewardTypeOK, Request
    <2>2. Tail(req[r].todo) \in Seq(Users)
      BY <2>1, HeadTailProperties
    <2>3. q \in GoodRequest /\ q.pc = "check"
      BY <1>2, <2>1, <2>2 DEF GoodRequest, Request, Returned
    <2>4. req' = [req EXCEPT ![r] = q]
      BY <1>2 DEF NextWinner, RewardTypeOK
    <2> QED BY <2>3, <2>4
  <1> QED BY <1>1, <1>2

\* An error does the one or the other.
LEMMA FailRequest ==
    ASSUME RewardTypeOK, NEW r \in RewardRequests, req[r].pc \notin Returned \cup {"new"}, Fail(r)
    PROVE  \E q \in GoodRequest : req' = [req EXCEPT ![r] = q] /\ q.pc \in Returned \cup {"check"}
  BY FinishRequest, ContinueRequest DEF Fail, Returned

\* A changed request keeps the types, as long as it is the only holder.
LEMMA RequestStep ==
    ASSUME RewardTypeOK, NEW r \in RewardRequests, NEW q \in GoodRequest, req' = [req EXCEPT ![r] = q],
           q.pc \in {"pay", "commit"} => Holder \subseteq {r}
    PROVE  /\ req' \in [RewardRequests -> Request]
           /\ \A s, t \in Holder' : s = t
           /\ \A s \in RewardRequests : req'[s].pc \notin Returned \cup {"new"} => req'[s].todo # <<>>
           /\ \A s \in RewardRequests \ {r} : req'[s] = req[s]
           /\ req'[r] = q
           /\ Holder' = IF q.pc \in {"pay", "commit"} THEN {r} ELSE Holder \ {r}
  BY DEF RewardTypeOK, GoodRequest, Holder

-----------------------------------------------------------------------------
(* The invariant of the claims.                                            *)

\* A step that leaves the claims alone and makes nobody a holder but one who
\* looked keeps the invariant.
LEMMA QuietStep ==
    ASSUME RewardInv, NEW r \in RewardRequests, NEW q \in GoodRequest, req' = [req EXCEPT ![r] = q],
           xp' \in [Users -> Nat], lost' \in [Users -> Nat], UNCHANGED <<claims, claimsCount>>,
           q.pc \in {"pay", "commit"} =>
               /\ Holder \subseteq {r} /\ Winner(r) \notin claims /\ q.todo = req[r].todo
    PROVE  RewardInv'
  <1>1. RewardTypeOK
    BY DEF RewardInv
  <1>2. RewardTypeOK'
    BY <1>1, RequestStep DEF RewardTypeOK
  <1>3. ClaimsCounted'
    BY DEF RewardInv, ClaimsCounted
  <1>4. HolderIsFirst'
    <2> SUFFICES ASSUME NEW s \in Holder' PROVE Winner(s)' \notin claims
      BY DEF HolderIsFirst
    <2>1. CASE q.pc \in {"pay", "commit"}
      <3>1. Holder' = {r} /\ req'[r] = q
        BY <1>1, <2>1, RequestStep
      <3> QED BY <2>1, <3>1 DEF Winner
    <2>2. CASE q.pc \notin {"pay", "commit"}
      <3>1. s \in Holder \ {r} /\ s \in RewardRequests
        BY <1>1, <2>2, RequestStep DEF Holder
      <3>2. req'[s] = req[s]
        BY <1>1, <2>2, <3>1, RequestStep
      <3> QED BY <3>1, <3>2 DEF RewardInv, HolderIsFirst, Winner
    <2> QED BY <2>1, <2>2
  <1> QED BY <1>2, <1>3, <1>4 DEF RewardInv

\* The first query of a request, for any winners.
LEMMA BeginStep ==
    ASSUME RewardInv, NEW r \in RewardRequests, NEW op \in {"complete", "distribute"},
           NEW todo \in Seq(Users), Receive(r, op, todo)
    PROVE  RewardInv'
  <1> DEFINE q == [op |-> op, todo |-> todo, seen |-> claimsCount,
                   pc |-> IF todo = <<>> THEN "ok" ELSE "check"]
  <1>1. q \in GoodRequest /\ q.pc \notin {"pay", "commit"}
    BY DEF GoodRequest, Request, Returned, RewardInv, RewardTypeOK
  <1>2. req' = [req EXCEPT ![r] = q] /\ UNCHANGED <<claims, claimsCount, xp, lost>>
    BY DEF Receive
  <1>3. xp' \in [Users -> Nat] /\ lost' \in [Users -> Nat]
    BY <1>2 DEF RewardInv, RewardTypeOK
  <1> QED BY <1>1, <1>2, <1>3, QuietStep

\* The winners of a distribution are users.
LEMMA DistributeWinners ==
    SubSeq(Ranking, 1, IF Ranked <= Len(Ranking) THEN Ranked ELSE Len(Ranking)) \in Seq(Users)
  <1> DEFINE n == IF Ranked <= Len(Ranking) THEN Ranked ELSE Len(Ranking)
  <1>1. Ranking \in Seq(Users) /\ Ranked \in {0, 1, 3}
    BY RewardBounds DEF Ranked
  <1>2. Len(Ranking) \in Nat
    BY <1>1
  <1>3. n \in Int /\ n <= Len(Ranking)
    BY <1>1, <1>2
  <1>4. \A i \in 1 .. n : Ranking[i] \in Users
    BY <1>1, <1>3
  <1> HIDE DEF n
  <1>5. SubSeq(Ranking, 1, n) \in Seq(Users)
    BY <1>3, <1>4, SubSeqProperties
  <1> QED BY <1>5 DEF n

\* The commit adds one claim and one to the counter.
LEMMA CommitStep ==
    ASSUME RewardInv, NEW r \in RewardRequests, Commit(r)
    PROVE  RewardInv'
  <1>1. RewardTypeOK /\ ClaimsCounted /\ req[r].pc = "commit"
    BY DEF RewardInv, Commit
  <1>2. PICK q \in GoodRequest : req' = [req EXCEPT ![r] = q] /\ q.pc \in Returned \cup {"check"}
    BY <1>1, ContinueRequest DEF Commit, Returned
  <1>3. q.pc \notin {"pay", "commit"}
    BY <1>2 DEF Returned
  <1>4. Winner(r) \in Users
    BY <1>1, RequestFields DEF Returned
  <1>5. r \in Holder /\ Winner(r) \notin claims
    BY <1>1 DEF RewardInv, HolderIsFirst, Holder
  <1>6. claims \in SUBSET Users /\ IsFiniteSet(claims)
    BY <1>1, RewardBounds, FS_Subset DEF RewardTypeOK
  <1>7. claims' = claims \cup {Winner(r)} /\ claimsCount' = claimsCount + 1
        /\ UNCHANGED <<xp, lost>>
    BY DEF Commit
  <1>8. RewardTypeOK'
    <2>1. /\ claims' \in SUBSET Users /\ claimsCount' \in Nat
          /\ xp' \in [Users -> Nat] /\ lost' \in [Users -> Nat]
      BY <1>1, <1>4, <1>7 DEF RewardTypeOK
    <2> QED BY <1>1, <1>2, <1>3, <2>1, RequestStep DEF RewardTypeOK
  <1>9. ClaimsCounted'
    <2>1. Cardinality(claims \cup {Winner(r)}) = Cardinality(claims) + 1
      BY <1>5, <1>6, FS_AddElement
    <2> QED BY <1>1, <1>7, <2>1 DEF ClaimsCounted
  <1>10. Holder' = {}
    <2>1. Holder' = Holder \ {r}
      BY <1>1, <1>2, <1>3, RequestStep
    <2> QED BY <1>1, <1>5, <2>1 DEF RewardTypeOK
  <1> QED BY <1>8, <1>9, <1>10 DEF RewardInv, HolderIsFirst

\* Every step keeps the invariant.
LEMMA RewardStep ==
    ASSUME RewardInv, [RewardNext]_rewardVars
    PROVE  RewardInv'
  <1>0. RewardTypeOK /\ xp \in [Users -> Nat] /\ lost \in [Users -> Nat]
    BY DEF RewardInv, RewardTypeOK
  <1>1. CASE UNCHANGED rewardVars
    BY <1>1 DEF rewardVars, RewardInv, RewardTypeOK, ClaimsCounted, HolderIsFirst, Holder, Winner
  <1>2. ASSUME NEW r \in RewardRequests, NEW u \in Users, Complete(r, u)
        PROVE  RewardInv'
    <2>1. (IF Criteria = "completion" THEN <<u>> ELSE <<>>) \in Seq(Users)
      OBVIOUS
    <2> QED BY <1>2, <2>1, BeginStep DEF Complete
  <1>3. ASSUME NEW r \in RewardRequests, Distribute(r)
        PROVE  RewardInv'
    BY <1>3, BeginStep, DistributeWinners DEF Distribute
  <1>4. ASSUME NEW r \in RewardRequests, Check(r)
        PROVE  RewardInv'
    <2>1. req[r].pc \notin Returned \cup {"new"} /\ UNCHANGED <<claims, claimsCount, xp, lost>>
      BY <1>4 DEF Check, Returned
    <2>2. PICK q \in GoodRequest : /\ req' = [req EXCEPT ![r] = q]
                                   /\ q.pc \in Returned \cup {"check", "create"}
      BY <1>0, <1>4, <2>1, ContinueRequest, GotoRequest DEF Check
    <2> QED BY <1>0, <2>1, <2>2, QuietStep DEF Returned
  <1>5. ASSUME NEW r \in RewardRequests, CreateClaim(r)
        PROVE  RewardInv'
    <2>1. /\ req[r].pc \notin Returned \cup {"new"} /\ Holder = {}
          /\ UNCHANGED <<claims, claimsCount, xp, lost>>
      BY <1>5 DEF CreateClaim, Returned
    <2>2. CASE Winner(r) \in claims
      <3>1. PICK q \in GoodRequest : req' = [req EXCEPT ![r] = q] /\ q.pc \in Returned \cup {"check"}
        BY <1>0, <1>5, <2>1, <2>2, FailRequest DEF CreateClaim
      <3> QED BY <1>0, <2>1, <3>1, QuietStep DEF Returned
    <2>3. CASE Winner(r) \notin claims
      <3>1. PICK q \in GoodRequest : /\ req' = [req EXCEPT ![r] = q]
                                     /\ q.pc = "pay" /\ q.todo = req[r].todo
        BY <1>0, <1>5, <2>1, <2>3, GotoRequest DEF CreateClaim
      <3> QED BY <1>0, <2>1, <2>3, <3>1, QuietStep
    <2> QED BY <2>2, <2>3
  <1>6. ASSUME NEW r \in RewardRequests, Pay(r)
        PROVE  RewardInv'
    <2>1. /\ req[r].pc \notin Returned \cup {"new"} /\ r \in Holder
          /\ UNCHANGED <<claims, claimsCount>>
      BY <1>6 DEF Pay, Returned, Holder
    <2>2. Winner(r) \notin claims /\ Holder \subseteq {r} /\ Winner(r) \in Users
      BY <1>0, <2>1, RequestFields DEF RewardInv, HolderIsFirst, RewardTypeOK
    <2>3. xp' \in [Users -> Nat] /\ lost' \in [Users -> Nat]
      <3>1. xp' = [xp EXCEPT ![Winner(r)] = @ + 1] /\ lost' = lost
        BY <1>6 DEF Pay
      <3> QED BY <1>0, <2>2, <3>1, OneMore
    <2>4. PICK q \in GoodRequest : /\ req' = [req EXCEPT ![r] = q]
                                   /\ q.pc = "commit" /\ q.todo = req[r].todo
      BY <1>0, <1>6, <2>1, GotoRequest DEF Pay
    <2> QED BY <2>1, <2>2, <2>3, <2>4, QuietStep
  <1>7. ASSUME NEW r \in RewardRequests, RollBack(r)
        PROVE  RewardInv'
    <2>1. req[r].pc \notin Returned \cup {"new"} /\ UNCHANGED <<claims, claimsCount, xp>>
      BY <1>7 DEF RollBack, Returned, Holder
    <2>2. lost' \in [Users -> Nat]
      <3>1. Winner(r) \in Users
        BY <1>0, <2>1, RequestFields
      <3>2. lost' = lost \/ lost' = [lost EXCEPT ![Winner(r)] = @ + 1]
        BY <1>7 DEF RollBack
      <3> QED BY <1>0, <3>1, <3>2, OneMore
    <2>3. PICK q \in GoodRequest : req' = [req EXCEPT ![r] = q] /\ q.pc \in Returned \cup {"check"}
      BY <1>0, <1>7, <2>1, FailRequest DEF RollBack
    <2> QED BY <1>0, <2>1, <2>2, <2>3, QuietStep DEF Returned
  <1> QED BY <1>1, <1>2, <1>3, <1>4, <1>5, <1>6, <1>7, CommitStep DEF RewardNext

\* The first state: nothing is claimed and nothing runs.
LEMMA RewardFirst == RewardInit => RewardInv
  <1> SUFFICES ASSUME RewardInit PROVE RewardInv
    OBVIOUS
  <1>1. NewRequest \in Request /\ NewRequest.pc = "new"
    BY DEF NewRequest, Request, Returned
  <1>2. RewardTypeOK
    BY <1>1 DEF RewardInit, RewardTypeOK, Holder
  <1>3. ClaimsCounted
    BY FS_EmptySet DEF RewardInit, ClaimsCounted
  <1> QED BY <1>2, <1>3 DEF RewardInv, HolderIsFirst, RewardInit

\* The types, the count of the claims and the holder of the reward, in every behaviour.
THEOREM RewardInvHolds == RewardSpec => []RewardInv
  BY RewardFirst, RewardStep, PTL DEF RewardSpec

\* Claims, counter and requests keep their types, and one transaction at a time
\* holds the reward (awardSingleReward).
THEOREM TypeCorrect == RewardSpec => []RewardTypeOK
  <1>1. RewardInv => RewardTypeOK
    BY DEF RewardInv
  <1> QED BY <1>1, RewardInvHolds, PTL

\* claimsCount is the number of claims in every state, whatever requests cross
\* and whatever transactions are rolled back (awardSingleReward).
THEOREM ClaimsCountedHolds == RewardSpec => []ClaimsCounted
  <1>1. RewardInv => ClaimsCounted
    BY DEF RewardInv
  <1> QED BY <1>1, RewardInvHolds, PTL

-----------------------------------------------------------------------------
(* The invariant of the payments.                                          *)

\* A request that is not about to commit, before or after its step, changes
\* nobody's credit.
LEMMA SameCredit ==
    ASSUME RewardTypeOK, NEW r \in RewardRequests, NEW q, req' = [req EXCEPT ![r] = q],
           req[r].pc # "commit", q.pc # "commit", claims' = claims, NEW u
    PROVE  Credited(u)' = Credited(u)
  <1>1. \A s \in RewardRequests : (req'[s].pc = "commit") = (req[s].pc = "commit")
    BY DEF RewardTypeOK
  <1>2. \A s \in RewardRequests : req[s].pc = "commit" => req'[s] = req[s]
    BY DEF RewardTypeOK
  <1> QED BY <1>1, <1>2 DEF Credited, Winner

\* The credit when r is the only holder.
LEMMA HolderCredit ==
    ASSUME RewardTypeOK, NEW r \in Holder, NEW u
    PROVE  Credited(u) = (u \in claims \/ (req[r].pc = "commit" /\ u = Winner(r)))
  <1>1. \A s \in RewardRequests : req[s].pc = "commit" => s = r
    BY DEF RewardTypeOK, Holder
  <1>2. r \in RewardRequests
    BY DEF Holder
  <1> QED BY <1>1, <1>2 DEF Credited

\* The credit when there is no holder.
LEMMA NoHolderCredit ==
    ASSUME Holder = {}, NEW u
    PROVE  Credited(u) = (u \in claims)
  BY DEF Credited, Holder

\* A step of a request before it pays.
LEMMA UnpaidStep ==
    ASSUME RewardInv, PaidInv, NEW r \in RewardRequests, NEW q, req' = [req EXCEPT ![r] = q],
           req[r].pc # "commit", q.pc # "commit", UNCHANGED <<claims, xp, lost>>
    PROVE  PaidInv'
  BY SameCredit DEF PaidInv, RewardInv

\* The end of the transaction of the holder.
LEMMA EndStep ==
    ASSUME RewardInv, NEW r \in Holder, NEW q \in GoodRequest, req' = [req EXCEPT ![r] = q],
           q.pc \in Returned \cup {"check"}
    PROVE  /\ Holder' = {}
           /\ \A u : Credited(u)' = (u \in claims')
  <1>1. r \in RewardRequests /\ RewardTypeOK /\ Holder \subseteq {r} /\ q.pc \notin {"pay", "commit"}
    BY DEF RewardInv, RewardTypeOK, Holder, Returned
  <1>2. Holder' = {}
    BY <1>1, RequestStep
  <1> QED BY <1>2 DEF Credited, Holder

\* Every step keeps the payments equal to the credits and the rollbacks.
LEMMA PaidStep ==
    ASSUME RewardInv, PaidInv, [RewardNext]_rewardVars
    PROVE  PaidInv'
  <1>0. RewardTypeOK /\ xp \in [Users -> Nat] /\ lost \in [Users -> Nat]
    BY DEF RewardInv, RewardTypeOK
  <1>1. CASE UNCHANGED rewardVars
    BY <1>1 DEF rewardVars, PaidInv, Credited, Winner
  <1>2. ASSUME NEW r \in RewardRequests, NEW op, NEW todo, Receive(r, op, todo)
        PROVE  PaidInv'
    <2> DEFINE q == [op |-> op, todo |-> todo, seen |-> claimsCount,
                     pc |-> IF todo = <<>> THEN "ok" ELSE "check"]
    <2>1. /\ req[r].pc # "commit" /\ req' = [req EXCEPT ![r] = q]
          /\ UNCHANGED <<claims, xp, lost>>
      BY <1>2 DEF Receive
    <2>2. q.pc # "commit"
      OBVIOUS
    <2> HIDE DEF q
    <2> QED BY <2>1, <2>2, UnpaidStep
  <1>3. ASSUME NEW r \in RewardRequests, Check(r)
        PROVE  PaidInv'
    <2>1. req[r].pc = "check" /\ UNCHANGED <<claims, xp, lost>>
      BY <1>3 DEF Check
    <2>2. PICK q \in GoodRequest : /\ req' = [req EXCEPT ![r] = q]
                                   /\ q.pc \in Returned \cup {"check", "create"}
      BY <1>0, <1>3, <2>1, ContinueRequest, GotoRequest DEF Check, Returned
    <2> QED BY <2>1, <2>2, UnpaidStep DEF Returned
  <1>4. ASSUME NEW r \in RewardRequests, CreateClaim(r)
        PROVE  PaidInv'
    <2>1. req[r].pc = "create" /\ UNCHANGED <<claims, xp, lost>>
      BY <1>4 DEF CreateClaim
    <2>2. PICK q \in GoodRequest : /\ req' = [req EXCEPT ![r] = q]
                                   /\ q.pc \in Returned \cup {"check", "pay"}
      BY <1>0, <1>4, <2>1, FailRequest, GotoRequest DEF CreateClaim, Returned
    <2> QED BY <2>1, <2>2, UnpaidStep DEF Returned
  <1>5. ASSUME NEW r \in RewardRequests, Pay(r)
        PROVE  PaidInv'
    <2>1. /\ req[r].pc = "pay" /\ r \in Holder /\ r \in RewardRequests
          /\ UNCHANGED <<claims, lost>>
          /\ xp' = [xp EXCEPT ![Winner(r)] = @ + 1]
      BY <1>5 DEF Pay, Holder
    <2>2. Winner(r) \notin claims /\ Holder \subseteq {r} /\ Winner(r) \in Users
      BY <1>0, <2>1, RequestFields DEF RewardInv, HolderIsFirst, RewardTypeOK, Returned
    <2>3. PICK q \in GoodRequest : /\ req' = [req EXCEPT ![r] = q]
                                   /\ q.pc = "commit" /\ q.todo = req[r].todo
      BY <1>0, <1>5, <2>1, GotoRequest DEF Pay, Returned
    <2>4. req'[r] = q /\ Winner(r)' = Winner(r) /\ \A s \in RewardRequests \ {r} : req'[s] = req[s]
      BY <1>0, <2>3 DEF RewardTypeOK, Winner
    <2>5. \A s \in RewardRequests : req'[s].pc = "commit" => s = r
      BY <2>2, <2>4 DEF Holder
    <2>6. \A u : Credited(u)' = (u \in claims \/ u = Winner(r))
      BY <2>1, <2>3, <2>4, <2>5 DEF Credited
    <2>7. \A u \in Users : Credited(u) = (u \in claims)
      BY <1>0, <2>1, HolderCredit
    <2> SUFFICES ASSUME NEW u \in Users
                 PROVE  xp'[u] = lost'[u] + IF Credited(u)' THEN 1 ELSE 0
      BY DEF PaidInv
    <2>8. xp[u] = lost[u] + IF u \in claims THEN 1 ELSE 0
      BY <2>7 DEF PaidInv
    <2>9. xp'[u] = IF u = Winner(r) THEN xp[u] + 1 ELSE xp[u]
      BY <1>0, <2>1, <2>2, OneMore
    <2>10. lost'[u] = lost[u] /\ lost[u] \in Nat
      BY <1>0, <2>1
    <2>11. CASE u = Winner(r)
      <3>1. Credited(u)' /\ u \notin claims
        BY <2>2, <2>6, <2>11
      <3> QED BY <2>8, <2>9, <2>10, <2>11, <3>1
    <2>12. CASE u # Winner(r)
      <3>1. Credited(u)' = (u \in claims)
        BY <2>6, <2>12
      <3> QED BY <2>8, <2>9, <2>10, <2>12, <3>1
    <2> QED BY <2>11, <2>12
  <1>6. ASSUME NEW r \in RewardRequests, Commit(r)
        PROVE  PaidInv'
    <2>1. /\ req[r].pc = "commit" /\ r \in Holder
          /\ claims' = claims \cup {Winner(r)} /\ UNCHANGED <<xp, lost>>
      BY <1>6 DEF Commit, Holder
    <2>2. PICK q \in GoodRequest : req' = [req EXCEPT ![r] = q] /\ q.pc \in Returned \cup {"check"}
      BY <1>0, <1>6, <2>1, ContinueRequest DEF Commit, Returned
    <2>3. \A u \in Users : Credited(u)' = (u \in claims \cup {Winner(r)})
      BY <2>1, <2>2, EndStep
    <2>4. \A u \in Users : Credited(u) = (u \in claims \cup {Winner(r)})
      BY <1>0, <2>1, HolderCredit
    <2> QED BY <2>1, <2>3, <2>4 DEF PaidInv
  <1>7. ASSUME NEW r \in RewardRequests, RollBack(r)
        PROVE  PaidInv'
    <2>1. r \in Holder /\ req[r].pc \notin Returned \cup {"new"} /\ UNCHANGED <<claims, xp>>
      BY <1>7 DEF RollBack, Returned, Holder
    <2>2. PICK q \in GoodRequest : req' = [req EXCEPT ![r] = q] /\ q.pc \in Returned \cup {"check"}
      BY <1>0, <1>7, <2>1, FailRequest DEF RollBack
    <2>3. \A u \in Users : Credited(u)' = (u \in claims)
      BY <2>1, <2>2, EndStep
    <2>4. CASE req[r].pc = "commit"
      <3>1. lost' = [lost EXCEPT ![Winner(r)] = @ + 1] /\ Winner(r) \in Users /\ Winner(r) \notin claims
        BY <1>0, <1>7, <2>1, <2>4, RequestFields DEF RollBack, RewardInv, HolderIsFirst
      <3>2. \A u \in Users : Credited(u) = (u \in claims \/ u = Winner(r))
        BY <1>0, <2>1, <2>4, HolderCredit
      <3> SUFFICES ASSUME NEW u \in Users
                   PROVE  xp'[u] = lost'[u] + IF u \in claims THEN 1 ELSE 0
        BY <2>1, <2>3 DEF PaidInv
      <3>3. xp[u] = lost[u] + IF u \in claims \/ u = Winner(r) THEN 1 ELSE 0
        BY <3>2 DEF PaidInv
      <3>4. lost'[u] = IF u = Winner(r) THEN lost[u] + 1 ELSE lost[u]
        BY <1>0, <3>1, OneMore
      <3>5. xp'[u] = xp[u] /\ lost[u] \in Nat
        BY <1>0, <2>1
      <3> QED BY <3>1, <3>3, <3>4, <3>5
    <2>5. CASE req[r].pc # "commit"
      <3>1. lost' = lost /\ \A u \in Users : Credited(u) = (u \in claims)
        BY <1>0, <1>7, <2>1, <2>5, HolderCredit DEF RollBack
      <3> QED BY <2>1, <2>3, <3>1 DEF PaidInv
    <2> QED BY <2>4, <2>5
  <1> QED BY <1>1, <1>2, <1>3, <1>4, <1>5, <1>6, <1>7 DEF RewardNext, Complete, Distribute

\* Nothing is paid initially.
LEMMA PaidFirst == RewardInit => PaidInv
  <1> SUFFICES ASSUME RewardInit, NEW u \in Users
               PROVE  xp[u] = lost[u] + IF Credited(u) THEN 1 ELSE 0
    BY DEF PaidInv
  <1>1. ~Credited(u)
    BY DEF RewardInit, Credited, NewRequest
  <1> QED BY <1>1 DEF RewardInit

\* Every payment has its claim, committed or under way, or was rolled back.
THEOREM PaidInvHolds == RewardSpec => []PaidInv
  <1>1. RewardInv /\ PaidInv /\ [RewardNext]_rewardVars => PaidInv'
    BY PaidStep
  <1> QED BY <1>1, PaidFirst, RewardInvHolds, PTL DEF RewardSpec

\* Users are paid once for each claim and once for each claim that was rolled
\* back after its payment, for any number of requests (awardSingleReward).
THEOREM PaidPerClaimHolds == RewardSpec => []PaidPerClaim
  <1>1. PaidInv => PaidPerClaim
    <2> SUFFICES ASSUME PaidInv, Resting, NEW u \in Users
                 PROVE  xp[u] = lost[u] + IF u \in claims THEN 1 ELSE 0
      BY DEF PaidPerClaim
    <2>1. Holder = {}
      BY DEF Resting, Holder, Returned
    <2> QED BY <2>1, NoHolderCredit DEF PaidInv
  <1> QED BY <1>1, PaidInvHolds, PTL

\* Where no transaction is rolled back nobody is ever paid twice: the award is
\* idempotent but for that (awardSingleReward).
THEOREM PaidOnceWithoutRollBack ==
    ASSUME "rollback" \notin Ops
    PROVE  RewardSpec => []PaidOnce
  <1> DEFINE NoneLost == \A u \in Users : lost[u] = 0
  <1>1. RewardInit => NoneLost
    BY DEF RewardInit
  <1>2. NoneLost /\ [RewardNext]_rewardVars => NoneLost'
    BY DEF RewardNext, rewardVars, Complete, Distribute, Receive, Check, CreateClaim, Pay, Commit, RollBack
  <1>3. PaidInv /\ NoneLost => PaidOnce
    BY DEF PaidInv, PaidOnce
  <1> HIDE DEF NoneLost
  <1> QED BY <1>1, <1>2, <1>3, PaidInvHolds, PTL DEF RewardSpec

-----------------------------------------------------------------------------
(* How far the winners exceed the cap.                                     *)

\* The requests that run, and those that read a counter below the cap: each of them may
\* still make one winner, if whoever completes the event is rewarded.
Awarding == {r \in RewardRequests : req[r].pc \notin Returned \cup {"new"}}
Admitted == {r \in Awarding : req[r].seen < MaxWinners}
ShareInv(K) ==
    /\ Cardinality(claims) + Cardinality(Admitted) < MaxWinners + K
    /\ \A r \in Awarding : Tail(req[r].todo) = <<>>
    /\ Holder \subseteq Admitted /\ \A r \in RewardRequests : req[r].pc = "create" => r \in Admitted

LEMMA Sizes ==
    ASSUME IsFiniteSet(RewardRequests), NEW C \in SUBSET Users, NEW A \in SUBSET RewardRequests,
           NEW B \in SUBSET A
    PROVE  /\ IsFiniteSet(C) /\ IsFiniteSet(B)
           /\ Cardinality(C) \in Nat /\ Cardinality(A) \in Nat /\ Cardinality(B) \in Nat
           /\ Cardinality(B) <= Cardinality(A)
  <1>1. IsFiniteSet(C) /\ IsFiniteSet(A)
    BY RewardBounds, FS_Subset
  <1>2. IsFiniteSet(B) /\ Cardinality(B) <= Cardinality(A)
    BY <1>1, FS_Subset
  <1> QED BY <1>1, <1>2, FS_CardinalityType

LEMMA Counts ==
    ASSUME IsFiniteSet(RewardRequests), RewardInv
    PROVE  /\ IsFiniteSet(claims) /\ IsFiniteSet(Admitted)
           /\ Cardinality(claims) \in Nat /\ claimsCount = Cardinality(claims)
           /\ Cardinality(Admitted) \in Nat
  <1>1. claims \subseteq Users /\ Awarding \subseteq RewardRequests /\ Admitted \subseteq Awarding
    BY DEF RewardInv, RewardTypeOK, Awarding, Admitted
  <1> QED BY <1>1, Sizes DEF RewardInv, ClaimsCounted

LEMMA NextCounts ==
    ASSUME IsFiniteSet(RewardRequests), RewardInv'
    PROVE  /\ Cardinality(claims') \in Nat /\ Cardinality(Awarding') \in Nat
           /\ Cardinality(Admitted') \in Nat /\ Cardinality(Admitted') <= Cardinality(Awarding')
  <1>1. claims' \subseteq Users /\ Awarding' \subseteq RewardRequests /\ Admitted' \subseteq Awarding'
    BY DEF RewardInv, RewardTypeOK, Awarding, Admitted
  <1> QED BY <1>1, Sizes

\* A request that goes on or returns, without a new claim
LEMMA ShareStays ==
    ASSUME IsFiniteSet(RewardRequests), MaxWinners # 0, NEW K \in Nat, RewardInv, RewardInv', ShareInv(K),
           NEW r \in Awarding, UNCHANGED claims, NEW q, req' = [req EXCEPT ![r] = q],
           \/ q.pc \in Returned
           \/ /\ q.seen = req[r].seen /\ q.todo = req[r].todo
              /\ q.pc = "check" \/ r \in Admitted
    PROVE  ShareInv(K)'
  <1>1. r \in RewardRequests /\ req'[r] = q /\ \A s \in RewardRequests \ {r} : req'[s] = req[s]
    BY DEF RewardInv, RewardTypeOK, Awarding
  <1>2. Admitted' \subseteq Admitted /\ Awarding' \subseteq Awarding
    BY <1>1 DEF Admitted, Awarding
  <1>3. Cardinality(Admitted') <= Cardinality(Admitted)
    BY <1>2, Counts, FS_Subset
  <1>4. \A s \in Awarding' : Tail(req'[s].todo) = <<>>
    BY <1>1, <1>2 DEF ShareInv, Awarding
  <1>5. Holder' \subseteq Admitted' /\ \A s \in RewardRequests : req'[s].pc = "create" => s \in Admitted'
    BY <1>1 DEF ShareInv, Holder, Admitted, Awarding, Returned
  <1>6. /\ Cardinality(Admitted') \in Nat /\ Cardinality(Admitted) \in Nat
        /\ Cardinality(claims) \in Nat /\ MaxWinners \in Nat
    BY Counts, NextCounts, RewardBounds
  <1>7. Cardinality(claims') + Cardinality(Admitted') < MaxWinners + K
    BY <1>3, <1>6 DEF ShareInv
  <1> QED BY <1>4, <1>5, <1>7 DEF ShareInv

\* The only winner of a request is the last one.
LEMMA Returns ==
    ASSUME RewardTypeOK, NEW K, ShareInv(K), NEW r \in Awarding, NextWinner(r) \/ Fail(r)
    PROVE  \E q \in GoodRequest : req' = [req EXCEPT ![r] = q] /\ q.pc \in Returned
  BY FinishRequest DEF NextWinner, Fail, ShareInv, Awarding, Returned

LEMMA ShareStep ==
    ASSUME IsFiniteSet(RewardRequests), MaxWinners # 0, Criteria = "completion", NEW K \in Nat,
           RewardInv, ShareInv(K), (Cardinality(Awarding) <= K)', [RewardNext]_rewardVars
    PROVE  ShareInv(K)'
  <1>0. RewardTypeOK /\ RewardInv' /\ req \in [RewardRequests -> Request]
    BY RewardStep DEF RewardInv, RewardTypeOK
  <1>1. CASE UNCHANGED rewardVars
    BY <1>1 DEF rewardVars, ShareInv, Admitted, Awarding, Holder
  <1>2. ASSUME NEW r \in RewardRequests, NEW op, NEW todo, Tail(todo) = <<>> \/ todo = <<>>,
               Receive(r, op, todo)
        PROVE  ShareInv(K)'
    <2> DEFINE q == [op |-> op, todo |-> todo, seen |-> claimsCount,
                     pc |-> IF todo = <<>> THEN "ok" ELSE "check"]
    <2>1. /\ req[r].pc = "new" /\ UNCHANGED <<claims, claimsCount>> /\ req' = [req EXCEPT ![r] = q]
          /\ q.pc \in {"ok", "check"} /\ q.seen = claimsCount /\ q.todo = todo
          /\ q.pc = "check" => todo # <<>>
      BY <1>2 DEF Receive
    <2> HIDE DEF q
    <2>2. req'[r] = q /\ \A s \in RewardRequests \ {r} : req'[s] = req[s]
      BY <1>0, <2>1
    <2>3. \A s \in Awarding' : Tail(req'[s].todo) = <<>>
      BY <1>2, <2>1, <2>2 DEF ShareInv, Awarding, Returned
    <2>4. Holder' \subseteq Admitted' /\ \A s \in RewardRequests : req'[s].pc = "create" => s \in Admitted'
      BY <2>1, <2>2 DEF ShareInv, Holder, Admitted, Awarding, Returned
    <2>5. CASE claimsCount < MaxWinners
      <3>1. /\ Cardinality(Admitted') <= Cardinality(Awarding') /\ Cardinality(Admitted') \in Nat
            /\ Cardinality(Awarding') \in Nat /\ Cardinality(Awarding') <= K
        BY <1>0, NextCounts
      <3>2. Cardinality(claims') < MaxWinners /\ Cardinality(claims') \in Nat /\ MaxWinners \in Nat
        BY <2>1, <2>5, Counts, RewardBounds
      <3>3. Cardinality(claims') + Cardinality(Admitted') < MaxWinners + K
        BY <3>1, <3>2
      <3> QED BY <2>3, <2>4, <3>3 DEF ShareInv
    <2>6. CASE claimsCount >= MaxWinners
      <3>1. Admitted' = Admitted
        BY <2>1, <2>2, <2>6, Counts, RewardBounds DEF Admitted, Awarding, Returned
      <3> QED BY <2>1, <2>3, <2>4, <3>1 DEF ShareInv
    <2> QED BY <2>5, <2>6, Counts, RewardBounds
  <1>3. ASSUME NEW r \in RewardRequests, NEW u \in Users, Complete(r, u)
        PROVE  ShareInv(K)'
    <2>1. Tail(<<u>>) = <<>>
      OBVIOUS
    <2> QED BY <1>2, <1>3, <2>1 DEF Complete
  <1>4. ASSUME NEW r \in RewardRequests, Distribute(r)
        PROVE  ShareInv(K)'
    <2>1. Ranked = 0 /\ Len(Ranking) \in Nat
      BY RewardBounds DEF Ranked
    <2> DEFINE n == IF Ranked <= Len(Ranking) THEN Ranked ELSE Len(Ranking)
               todo == SubSeq(Ranking, 1, n)
    <2>2. n = 0
      BY <2>1
    <2> HIDE DEF n
    <2>3. todo = <<>>
      <3>1. SubSeq(Ranking, 1, 0) = <<>>
        BY RewardBounds, SubSeqProperties
      <3> QED BY <2>2, <3>1
    <2>4. Receive(r, "distribute", todo)
      BY <1>4 DEF Distribute, n
    <2> HIDE DEF todo
    <2> QED BY <1>2, <2>3, <2>4
  <1>5. ASSUME NEW r \in RewardRequests, Check(r)
        PROVE  ShareInv(K)'
    <2>1. r \in Awarding /\ UNCHANGED <<claims, claimsCount>> /\ (NextWinner(r) \/ Proceed(r, "create"))
      BY <1>5 DEF Check, Awarding, Returned
    <2>2. CASE NextWinner(r)
      BY <1>0, <2>1, <2>2, Returns, ShareStays
    <2>3. CASE ~(Winner(r) \in claims \/ (MaxWinners # 0 /\ req[r].seen >= MaxWinners))
      <3>1. r \in Admitted
        BY <1>0, <2>1, <2>3, RewardBounds DEF Admitted, Request
      <3>2. req' = [req EXCEPT ![r] = [req[r] EXCEPT !.pc = "create"]]
        BY <1>0, <1>5, <2>3 DEF Check, Proceed
      <3> DEFINE q == [req[r] EXCEPT !.pc = "create"]
      <3>3. q.seen = req[r].seen /\ q.todo = req[r].todo /\ req' = [req EXCEPT ![r] = q]
        BY <1>0, <3>2 DEF Request
      <3> HIDE DEF q
      <3> QED BY <1>0, <2>1, <3>1, <3>3, ShareStays
    <2> QED BY <1>5, <2>2, <2>3 DEF Check
  <1>6. ASSUME NEW r \in RewardRequests, CreateClaim(r) \/ Pay(r)
        PROVE  ShareInv(K)'
    <2>1. r \in Admitted /\ r \in Awarding /\ UNCHANGED claims
      BY <1>6 DEF CreateClaim, Pay, ShareInv, Holder, Admitted
    <2>2. CASE Fail(r)
      BY <1>0, <2>1, <2>2, Returns, ShareStays
    <2>3. ASSUME NEW pc, Proceed(r, pc)
          PROVE  ShareInv(K)'
      <3> DEFINE q == [req[r] EXCEPT !.pc = pc]
      <3>1. q.seen = req[r].seen /\ q.todo = req[r].todo /\ req' = [req EXCEPT ![r] = q]
        BY <1>0, <2>3 DEF Request, Proceed
      <3> HIDE DEF q
      <3> QED BY <1>0, <2>1, <3>1, ShareStays
    <2> QED BY <1>6, <2>2, <2>3 DEF CreateClaim, Pay
  <1>7. ASSUME NEW r \in RewardRequests, RollBack(r)
        PROVE  ShareInv(K)'
    <2>1. r \in Awarding /\ UNCHANGED claims /\ Fail(r)
      BY <1>7 DEF RollBack, Holder, Awarding, Returned
    <2> QED BY <1>0, <2>1, Returns, ShareStays
  <1>8. ASSUME NEW r \in RewardRequests, Commit(r)
        PROVE  ShareInv(K)'
    <2>1. /\ r \in Admitted /\ r \in Awarding /\ claims' = claims \cup {Winner(r)} /\ NextWinner(r)
      BY <1>8 DEF Commit, ShareInv, Holder, Admitted
    <2>2. PICK q : req' = [req EXCEPT ![r] = q] /\ q.pc \in Returned
      BY <1>0, <2>1, Returns
    <2>3. req'[r] = q /\ \A s \in RewardRequests \ {r} : req'[s] = req[s]
      BY <1>0, <2>2
    <2>4. Admitted' = Admitted \ {r} /\ Awarding' \subseteq Awarding \ {r}
      BY <2>2, <2>3 DEF Admitted, Awarding
    <2>5. Cardinality(Admitted') = Cardinality(Admitted) - 1
      BY <2>1, <2>4, Counts, FS_RemoveElement
    <2>6. Cardinality(claims') <= Cardinality(claims) + 1
      <3>1. IsFiniteSet(claims) /\ Cardinality(claims) \in Nat
        BY Counts
      <3>2. Cardinality(claims \cup {Winner(r)}) \in {Cardinality(claims), Cardinality(claims) + 1}
        BY <3>1, FS_AddElement
      <3> QED BY <2>1, <3>1, <3>2
    <2>7. Cardinality(claims') \in Nat
      BY <1>0, NextCounts
    <2>8. Cardinality(claims') + Cardinality(Admitted') < MaxWinners + K
      BY <2>5, <2>6, <2>7, Counts, RewardBounds DEF ShareInv
    <2>9. \A s \in Awarding' : Tail(req'[s].todo) = <<>>
      BY <2>3, <2>4 DEF ShareInv, Awarding
    <2>10. Holder' \subseteq Admitted' /\ \A s \in RewardRequests : req'[s].pc = "create" => s \in Admitted'
      BY <2>2, <2>3, <2>4 DEF ShareInv, Holder, Returned
    <2> QED BY <2>8, <2>9, <2>10 DEF ShareInv
  <1> QED BY <1>1, <1>3, <1>4, <1>5, <1>6, <1>7, <1>8 DEF RewardNext

LEMMA ShareFirst ==
    ASSUME RewardInit, MaxWinners # 0, NEW K \in Nat \ {0}
    PROVE  ShareInv(K)
  <1>1. Awarding = {} /\ Admitted = {} /\ Holder = {} /\ claims = {}
    BY DEF RewardInit, Awarding, Admitted, Holder, NewRequest, Returned
  <1>2. \A r \in RewardRequests : req[r].pc # "create"
    BY DEF RewardInit, NewRequest
  <1>3. Cardinality(claims) + Cardinality(Admitted) < MaxWinners + K
    BY <1>1, FS_EmptySet, RewardBounds
  <1> QED BY <1>1, <1>2, <1>3 DEF ShareInv

\* If at most K requests run at once, at most K - 1 users more than maxWinners are rewarded
\* for completing the event, whatever transactions are rolled back (861-864): the race between
\* the counter that is read with the event and the commit of the claim is no worse than that.
THEOREM WinnersOvershootIsBounded ==
    ASSUME IsFiniteSet(RewardRequests), MaxWinners # 0, Criteria = "completion", NEW K \in Nat \ {0}
    PROVE  RewardSpec /\ [](Cardinality(Awarding) <= K)
             => [](Cardinality(claims) < MaxWinners + K)
  <1>1. RewardInit => ShareInv(K)
    BY ShareFirst
  <1>2. RewardInv /\ ShareInv(K) /\ (Cardinality(Awarding) <= K)' /\ [RewardNext]_rewardVars
        => ShareInv(K)'
    BY ShareStep
  <1>3. RewardInv /\ ShareInv(K) => Cardinality(claims) < MaxWinners + K
    BY Counts, RewardBounds DEF ShareInv
  <1> QED BY <1>1, <1>2, <1>3, RewardInvHolds, PTL DEF RewardSpec

\* Requests that follow each other reward no more than maxWinners users for completing the
\* event (861-864); that a distribution may exceed the cap alone is in README.md.
THEOREM WinnersCappedInTurn ==
    ASSUME IsFiniteSet(RewardRequests), Criteria = "completion"
    PROVE  RewardSpec /\ [](Cardinality(Awarding) <= 1) => []WinnersCapped
  <1>1. CASE MaxWinners = 0
    <2>1. WinnersCapped
      BY <1>1 DEF WinnersCapped
    <2> QED BY <2>1, PTL
  <1>2. CASE MaxWinners # 0
    <2>1. RewardInit => ShareInv(1)
      BY <1>2, ShareFirst
    <2>2. RewardInv /\ ShareInv(1) /\ (Cardinality(Awarding) <= 1)' /\ [RewardNext]_rewardVars
          => ShareInv(1)'
      BY <1>2, ShareStep
    <2>3. RewardInv /\ ShareInv(1) => WinnersCapped
      BY Counts, RewardBounds DEF ShareInv, WinnersCapped
    <2> QED BY <2>1, <2>2, <2>3, RewardInvHolds, PTL DEF RewardSpec
  <1> QED BY <1>1, <1>2

(***************************************************************************)
(* The mails and the testers of the beta program (BetaProgram)             *)
(***************************************************************************)

LogFields == {"mail", "status", "id", "events", "young", "hot", "barred"}
CallFields == {"pc", "mail", "log", "seen", "event"}
Announced == {"SENT", "DELIVERED", "DELIVERY_DELAYED", "BOUNCED", "COMPLAINED"}

\* A row, as it is or as a call has read it, when the provider has given n ids.
GoodLog(log, n) ==
    /\ DOMAIN log = LogFields
    /\ log.events \in Seq(Event)
    /\ \A j \in DOMAIN log.events : log.events[j].id <= n
    /\ \A j, k \in DOMAIN log.events : j # k => log.events[j] # log.events[k]
    /\ log.status \in Announced => Tells(log.events, log.status)

\* Steps of a call that writes a row which it has read
Rewrites == {"retrySuppression", "retryMark", "retrySend", "retryAccepted", "retryRefused",
             "retryFailed", "hookUpdate"}
\* A call, when there are d rows and n ids: it writes a row that exists, from one that was
\* good; what it adds to the history is not in it.
GoodCall(c, d, n) ==
    /\ DOMAIN c = CallFields /\ c.log \in 0..d
    /\ c.pc \in Rewrites => c.log # 0 /\ GoodLog(c.seen, n)
    /\ c.pc \in {"accepted", "retryAccepted"} => c.event \in [type : {"accepted"}, id : 1..n]
    /\ c.pc = "retryAccepted" => \A j \in DOMAIN c.seen.events : c.seen.events[j].id < c.event.id
    /\ c.pc \in {"hookCreate", "hookUpdate"} => c.event \in [type : Reported, id : 1..n]
    /\ c.pc = "hookUpdate" => \A j \in DOMAIN c.seen.events : c.seen.events[j] # c.event

IsSeq(s) == \E S : s \in Seq(S)
GoodLogs == \A i \in DOMAIN logs : GoodLog(logs[i], Len(accepted))
GoodCalls ==
    /\ DOMAIN call = Requests
    /\ \A r \in Requests : GoodCall(call[r], Len(logs), Len(accepted))
MailInv == IsSeq(logs) /\ IsSeq(accepted) /\ GoodLogs /\ GoodCalls

-----------------------------------------------------------------------------
(* Sequences, rows and calls                                               *)

\* What an index is.
LEMMA SeqDomain ==
    ASSUME NEW s, IsSeq(s)
    PROVE  Len(s) \in Nat /\ DOMAIN s = 1..Len(s)
  BY DEF IsSeq

\* One more element.
LEMMA SeqAndOne ==
    ASSUME NEW s, IsSeq(s), NEW x
    PROVE  /\ IsSeq(Append(s, x)) /\ Len(Append(s, x)) = Len(s) + 1
           /\ Len(s) \in Nat /\ DOMAIN s = 1..Len(s)
           /\ DOMAIN Append(s, x) = 1..(Len(s) + 1)
           /\ \A i \in DOMAIN s : Append(s, x)[i] = s[i]
           /\ Append(s, x)[Len(s) + 1] = x
  <1>1. PICK S : s \in Seq(S)
    BY DEF IsSeq
  <1>2. s \in Seq(S \cup {x}) /\ Append(s, x) \in Seq(S \cup {x})
    BY <1>1
  <1> QED BY <1>2 DEF IsSeq

\* One element replaced.
LEMMA SeqWithOne ==
    ASSUME NEW s, IsSeq(s), NEW i \in DOMAIN s, NEW x
    PROVE  IsSeq([s EXCEPT ![i] = x]) /\ Len([s EXCEPT ![i] = x]) = Len(s)
  <1>1. PICK S : s \in Seq(S)
    BY DEF IsSeq
  <1>2. s \in Seq(S \cup {x}) /\ i \in 1..Len(s)
    BY <1>1
  <1>3. [s EXCEPT ![i] = x] \in Seq(S \cup {x}) /\ Len([s EXCEPT ![i] = x]) = Len(s)
    BY <1>2
  <1>4. IsSeq([s EXCEPT ![i] = x])
    BY <1>3 DEF IsSeq
  <1> QED BY <1>3, <1>4

\* Rows stay good, and so do calls, as ids are given and rows are created.
LEMMA GoodLater ==
    ASSUME NEW d \in Nat, NEW e \in Nat, d <= e, NEW n \in Nat, NEW m \in Nat, n <= m
    PROVE  /\ \A log : GoodLog(log, n) => GoodLog(log, m)
           /\ \A c : GoodCall(c, d, n) => GoodCall(c, e, m)
  <1>1. ASSUME NEW log, GoodLog(log, n) PROVE GoodLog(log, m)
    <2>1. \A j \in DOMAIN log.events : log.events[j] \in Event
      BY <1>1 DEF GoodLog
    <2>2. \A j \in DOMAIN log.events : log.events[j].id \in Nat
      BY <2>1 DEF Event
    <2> QED BY <1>1, <2>2 DEF GoodLog
  <1>2. ASSUME NEW c, GoodCall(c, d, n) PROVE GoodCall(c, e, m)
    <2>1. c.pc \in Rewrites => GoodLog(c.seen, m)
      BY <1>1, <1>2 DEF GoodCall
    <2>2. 0..d \subseteq 0..e /\ 1..n \subseteq 1..m
      OBVIOUS
    <2>3. DOMAIN c = CallFields /\ c.log \in 0..e /\ (c.pc \in Rewrites => c.log # 0)
      BY <1>2, <2>2 DEF GoodCall
    <2>4. c.pc \in {"accepted", "retryAccepted"} => c.event \in [type : {"accepted"}, id : 1..m]
      BY <1>2, <2>2 DEF GoodCall
    <2>5. c.pc \in {"hookCreate", "hookUpdate"} => c.event \in [type : Reported, id : 1..m]
      BY <1>2, <2>2 DEF GoodCall
    <2> QED BY <1>2, <2>1, <2>3, <2>4, <2>5 DEF GoodCall
  <1> QED BY <1>1, <1>2

\* What a step may do to the rows and to the calls.
LogsKept ==
    \/ logs' = logs
    \/ \E new : /\ GoodLog(new, Len(accepted'))
                /\ Create(new) \/ \E i \in DOMAIN logs : SetLog(i, new)
CallsKept ==
    /\ DOMAIN call' = Requests
    /\ \A q \in Requests :
          call'[q] = call[q] \/ GoodCall(call'[q], Len(logs'), Len(accepted'))

\* The numbers of rows and of ids.
LEMMA Lengths ==
    ASSUME MailInv
    PROVE  /\ Len(accepted) \in Nat /\ Len(logs) \in Nat
           /\ DOMAIN accepted = 1..Len(accepted) /\ DOMAIN logs = 1..Len(logs)
           /\ \A m : Accepts(m) => IsSeq(accepted') /\ Len(accepted') = Len(accepted) + 1
           /\ \A new : Create(new) => IsSeq(logs') /\ Len(logs') = Len(logs) + 1
           /\ \A i \in DOMAIN logs : \A new :
                 SetLog(i, new) => IsSeq(logs') /\ Len(logs') = Len(logs)
  <1>1. IsSeq(logs) /\ IsSeq(accepted)
    BY DEF MailInv
  <1>2. ASSUME NEW m, Accepts(m)
        PROVE  IsSeq(accepted') /\ Len(accepted') = Len(accepted) + 1
    BY <1>1, <1>2, SeqAndOne DEF Accepts
  <1>3. ASSUME NEW new, Create(new) PROVE IsSeq(logs') /\ Len(logs') = Len(logs) + 1
    BY <1>1, <1>3, SeqAndOne DEF Create
  <1>4. ASSUME NEW i \in DOMAIN logs, NEW new, SetLog(i, new)
        PROVE  IsSeq(logs') /\ Len(logs') = Len(logs)
    BY <1>1, <1>4, SeqWithOne DEF SetLog
  <1> QED BY <1>1, <1>2, <1>3, <1>4, SeqDomain

LEMMA CreateLength ==
    ASSUME MailInv, NEW new, Create(new)
    PROVE  IsSeq(logs') /\ Len(logs') = Len(logs) + 1 /\ Len(logs) \in Nat
  <1>1. IsSeq(logs) /\ logs' = Append(logs, new)
    BY DEF MailInv, Create
  <1> QED BY <1>1, SeqAndOne

\* The steps that do no more than that keep the invariant.
LEMMA MailKept ==
    ASSUME MailInv, LogsKept, CallsKept, accepted' = accepted \/ \E m : Accepts(m)
    PROVE  MailInv'
  <1>0. IsSeq(logs) /\ IsSeq(accepted) /\ Len(accepted) \in Nat /\ Len(logs) \in Nat
    BY Lengths DEF MailInv
  <1>1. IsSeq(accepted') /\ Len(accepted') \in Nat /\ Len(accepted) <= Len(accepted')
    BY <1>0, Lengths
  <1>2. IsSeq(logs') /\ Len(logs') \in Nat /\ Len(logs) <= Len(logs')
    BY <1>0, Lengths DEF LogsKept
  <1>3. /\ \A log : GoodLog(log, Len(accepted)) => GoodLog(log, Len(accepted'))
        /\ \A q : GoodCall(q, Len(logs), Len(accepted)) => GoodCall(q, Len(logs'), Len(accepted'))
    BY <1>0, <1>1, <1>2, GoodLater
  <1>4. GoodCalls'
    BY <1>3 DEF MailInv, GoodCalls, CallsKept
  <1>5. ASSUME NEW i \in DOMAIN logs' PROVE GoodLog(logs'[i], Len(accepted'))
    <2>1. CASE logs' = logs
      BY <2>1, <1>3 DEF MailInv, GoodLogs
    <2>2. ASSUME NEW new, GoodLog(new, Len(accepted')), Create(new)
          PROVE  GoodLog(logs'[i], Len(accepted'))
      <3>1. i \in DOMAIN logs \/ logs'[i] = new
        BY <1>0, <2>2, SeqAndOne DEF Create
      <3>2. i \in DOMAIN logs => logs'[i] = logs[i]
        BY <1>0, <2>2, SeqAndOne DEF Create
      <3> QED BY <2>2, <3>1, <3>2, <1>3 DEF MailInv, GoodLogs
    <2>3. ASSUME NEW new, GoodLog(new, Len(accepted')), NEW k \in DOMAIN logs, SetLog(k, new)
          PROVE  GoodLog(logs'[i], Len(accepted'))
      <3>1. i \in DOMAIN logs /\ (logs'[i] = new \/ logs'[i] = logs[i])
        BY <2>3 DEF SetLog
      <3> QED BY <2>3, <3>1, <1>3 DEF MailInv, GoodLogs
    <2> QED BY <2>1, <2>2, <2>3 DEF LogsKept
  <1> QED BY <1>1, <1>2, <1>4, <1>5 DEF MailInv, GoodLogs

-----------------------------------------------------------------------------
(* The state of a call                                                     *)

\* A call that becomes a good one.
LEMMA OneCall ==
    ASSUME MailInv, NEW r \in Requests, NEW c, call' = [call EXCEPT ![r] = c],
           GoodCall(c, Len(logs'), Len(accepted'))
    PROVE  CallsKept
  BY DEF MailInv, GoodCalls, CallsKept

\* A call that goes on, that rewrites a row if it did before.
Plain == MailSteps \ {"accepted", "retryAccepted", "hookUpdate", "hookCreate"}
LEMMA GoodGoto ==
    ASSUME NEW c, NEW d, NEW n, GoodCall(c, d, n), NEW pc \in Plain,
           pc \in Rewrites => c.pc \in Rewrites
    PROVE  GoodCall([c EXCEPT !.pc = pc], d, n)
  BY DEF GoodCall, CallFields, Plain, MailSteps, Rewrites

\* A call that is over.
LEMMA GoodDone ==
    ASSUME NEW d \in Nat, NEW n, NEW result \in Results
    PROVE  GoodCall([NoCall EXCEPT !.pc = result], d, n)
  BY DEF GoodCall, CallFields, NoCall, Results, Rewrites

\* The same, in a step of the call that leaves the rows or rewrites one.
LEMMA GotoKept ==
    ASSUME MailInv, NEW r \in Requests, NEW pc \in Plain, Goto(r, pc),
           pc \in Rewrites => call[r].pc \in Rewrites,
           Len(logs') = Len(logs), accepted' = accepted \/ \E m : Accepts(m)
    PROVE  CallsKept
  <1>0. /\ Len(logs) \in Nat /\ Len(accepted) \in Nat /\ Len(accepted') \in Nat
        /\ Len(accepted) <= Len(accepted')
    BY Lengths
  <1>1. GoodCall([call[r] EXCEPT !.pc = pc], Len(logs'), Len(accepted'))
    BY <1>0, GoodGoto, GoodLater DEF MailInv, GoodCalls
  <1>2. call' = [call EXCEPT ![r] = [call[r] EXCEPT !.pc = pc]]
    BY DEF Goto
  <1> QED BY <1>1, <1>2, OneCall
LEMMA DoneKept ==
    ASSUME MailInv, NEW r \in Requests, NEW result \in Results, Done(r, result),
           Len(logs') \in Nat
    PROVE  CallsKept
  BY GoodDone, OneCall DEF Done

\* A call, with its fields; the row it writes.
LEMMA CallFacts ==
    ASSUME MailInv, NEW r \in Requests
    PROVE  /\ GoodCall(call[r], Len(logs), Len(accepted)) /\ DOMAIN call = Requests
           /\ call[r].log # 0 => call[r].log \in DOMAIN logs
           /\ \A i \in DOMAIN logs : GoodLog(logs[i], Len(accepted))
  <1>1. GoodCall(call[r], Len(logs), Len(accepted)) /\ DOMAIN call = Requests
    BY DEF MailInv, GoodCalls
  <1>2. call[r].log # 0 => call[r].log \in 1..Len(logs)
    BY <1>1, Lengths DEF GoodCall
  <1> QED BY <1>1, <1>2, Lengths DEF MailInv, GoodLogs

-----------------------------------------------------------------------------
(* sendEmail                                                               *)

LEMMA InvokeKeeps ==
    ASSUME MailInv, NEW r \in Requests, NEW m, Invoke(r, m)
    PROVE  MailInv'
  <1> DEFINE c == [NoCall EXCEPT !.pc = IF m.bypass THEN AfterSuppression(m) ELSE "suppression",
                                 !.mail = m]
  <1>1. GoodCall(c, Len(logs), Len(accepted))
    BY Lengths DEF GoodCall, CallFields, NoCall, AfterSuppression, Rewrites
  <1>2. call' = [call EXCEPT ![r] = c] /\ UNCHANGED <<logs, accepted>>
    BY DEF Invoke, Enter, Quiet
  <1>3. CallsKept
    BY <1>1, <1>2, OneCall
  <1> QED BY <1>2, <1>3, MailKept DEF LogsKept

\* The new row of a call, and the rewritten ones: no status that a webhook gives.
LEMMA GoodNew ==
    ASSUME NEW m, NEW n \in Nat
    PROVE  /\ GoodLog(NewLog(m, "PENDING"), n)
           /\ GoodLog([NewLog(m, "FAILED") EXCEPT !.barred = TRUE], n)
  BY DEF GoodLog, NewLog, LogFields, Announced

\* The answer of the provider.
LEMMA ProvidesKeeps ==
    ASSUME MailInv, NEW r \in Requests, NEW m, NEW yes, NEW no, NEW gone,
           Provides(r, m, yes, no, gone),
           \/ yes = "accepted" /\ no = "refused" /\ gone = "failed"
           \/ /\ yes = "retryAccepted" /\ no = "retryRefused" /\ gone = "retryFailed"
              /\ call[r].pc \in Rewrites
    PROVE  MailInv'
  <1>0. /\ no \in Plain /\ gone \in Plain /\ logs' = logs
        /\ no \in Rewrites => call[r].pc \in Rewrites
        /\ gone \in Rewrites => call[r].pc \in Rewrites
        /\ Len(logs) \in Nat /\ Len(accepted) \in Nat
    BY Lengths DEF Plain, Rewrites, MailSteps, Provides
  <1>1. CASE (accepted' = accepted /\ Goto(r, no)) \/ (Accepts(m) /\ Goto(r, gone))
    <2>1. CallsKept
      BY <1>0, <1>1, GotoKept
    <2> QED BY <1>0, <1>1, <2>1, MailKept DEF LogsKept
  <1>2. CASE /\ Accepts(m)
             /\ call' = [call EXCEPT ![r].pc = yes, ![r].event = Answer(Len(accepted) + 1)]
    <2> DEFINE c == [call[r] EXCEPT !.pc = yes, !.event = Answer(Len(accepted) + 1)]
    <2>1. Len(accepted') = Len(accepted) + 1
      BY <1>2, Lengths
    <2>2. c.event \in [type : {"accepted"}, id : 1..Len(accepted')] /\ c.seen = call[r].seen
          /\ c.event.id = Len(accepted) + 1 /\ DOMAIN c = CallFields /\ c.pc = yes
          /\ c.log = call[r].log
      BY <1>0, <2>1, CallFacts DEF Answer, GoodCall, CallFields
    <2>3. GoodCall(call[r], Len(logs), Len(accepted'))
      BY <1>0, <2>1, CallFacts, GoodLater
    <2>4. ASSUME yes = "retryAccepted", NEW j \in DOMAIN c.seen.events
          PROVE  c.seen.events[j].id < c.event.id
      <3>1. GoodLog(c.seen, Len(accepted))
        BY <2>2, <2>4, CallFacts DEF GoodCall
      <3>2. c.seen.events[j] \in Event /\ c.seen.events[j].id <= Len(accepted)
        BY <2>4, <3>1 DEF GoodLog
      <3> QED BY <1>0, <2>2, <3>2 DEF Event
    <2>5. GoodCall(c, Len(logs'), Len(accepted'))
      BY <1>0, <2>2, <2>3, <2>4 DEF GoodCall, Rewrites
    <2>6. call' = [call EXCEPT ![r] = c]
      BY <1>2, CallFacts
    <2>7. CallsKept
      BY <2>5, <2>6, OneCall
    <2> QED BY <1>0, <1>2, <2>7, MailKept DEF LogsKept
  <1> QED BY <1>1, <1>2 DEF Provides

\* A row that gets a status which no webhook gives.
LEMMA GoodStatus ==
    ASSUME NEW log, NEW n, GoodLog(log, n), NEW status, status \notin Announced
    PROVE  /\ GoodLog([log EXCEPT !.status = status], n)
           /\ GoodLog([log EXCEPT !.status = status, !.hot = TRUE], n)
  BY DEF GoodLog, LogFields

\* A row whose history is one event.
LEMMA GoodFirst ==
    ASSUME NEW log, DOMAIN log = LogFields, NEW n \in Nat, NEW e \in Event, e.id <= n,
           NEW status, status \notin Announced, NEW id
    PROVE  /\ GoodLog([log EXCEPT !.status = status, !.id = id, !.events = <<e>>], n)
           /\ GoodLog([log EXCEPT !.status = status, !.events = <<e>>], n)
  BY DEF GoodLog, LogFields

\* A history that gets an event which is not in it.
LEMMA LongerEvents ==
    ASSUME NEW events \in Seq(Event), NEW n \in Nat, NEW e \in Event, e.id <= n,
           \A j \in DOMAIN events : events[j].id <= n /\ events[j] # e,
           \A j, k \in DOMAIN events : j # k => events[j] # events[k]
    PROVE  LET longer == Append(events, e) IN
           /\ longer \in Seq(Event)
           /\ \A j \in DOMAIN longer : longer[j].id <= n
           /\ \A j, k \in DOMAIN longer : j # k => longer[j] # longer[k]
  <1> DEFINE longer == Append(events, e)
  <1>1. longer \in Seq(Event) /\ DOMAIN longer = 1..(Len(events) + 1)
        /\ DOMAIN events = 1..Len(events) /\ Len(events) \in Nat
    OBVIOUS
  <1>2. longer[Len(events) + 1] = e /\ \A j \in DOMAIN events : longer[j] = events[j]
    OBVIOUS
  <1> HIDE DEF longer
  <1>3. \A j \in DOMAIN longer : j = Len(events) + 1 \/ j \in DOMAIN events
    BY <1>1
  <1>4. \A j \in DOMAIN longer : longer[j].id <= n
    BY <1>2, <1>3
  <1>5. \A j, k \in DOMAIN longer : j # k => longer[j] # longer[k]
    BY <1>2, <1>3
  <1> QED BY <1>1, <1>4, <1>5 DEF longer
LEMMA GoodLonger ==
    ASSUME NEW log, DOMAIN log = LogFields, NEW n \in Nat, NEW e \in Event, e.id <= n,
           NEW seen, GoodLog(seen, n), \A j \in DOMAIN seen.events : seen.events[j] # e,
           NEW status, status \in Announced => Tells(Append(seen.events, e), status), NEW id
    PROVE  /\ GoodLog([log EXCEPT !.status = status, !.id = id,
                                  !.events = Append(seen.events, e)], n)
           /\ GoodLog([log EXCEPT !.status = status, !.events = Append(seen.events, e)], n)
  <1> DEFINE longer == Append(seen.events, e)
  <1>1. /\ longer \in Seq(Event)
        /\ \A j \in DOMAIN longer : longer[j].id <= n
        /\ \A j, k \in DOMAIN longer : j # k => longer[j] # longer[k]
    BY LongerEvents DEF GoodLog
  <1> HIDE DEF longer
  <1>2. GoodLog([log EXCEPT !.status = status, !.id = id, !.events = longer], n)
    BY <1>1 DEF GoodLog, LogFields, longer
  <1>3. GoodLog([log EXCEPT !.status = status, !.events = longer], n)
    BY <1>1 DEF GoodLog, LogFields, longer
  <1> QED BY <1>2, <1>3 DEF longer

\* The status that a webhook gives is told by the history it leaves: by its own event, or
\* because it keeps the status of the row it has read.
LEMMA StillTold ==
    ASSUME NEW n, NEW seen, GoodLog(seen, n), NEW e \in Event, e.type \in Reported,
           NextStatus(seen.status, e.type) \in Announced
    PROVE  Tells(Append(seen.events, e), NextStatus(seen.status, e.type))
  <1> DEFINE longer == Append(seen.events, e)
  <1>1. seen.events \in Seq(Event)
    BY DEF GoodLog
  <1>2. Len(seen.events) + 1 \in DOMAIN longer /\ longer[Len(seen.events) + 1] = e
    BY <1>1
  <1>3. \A j \in DOMAIN seen.events : j \in DOMAIN longer /\ longer[j] = seen.events[j]
    BY <1>1
  <1> HIDE DEF longer
  <1>4. CASE Outranks(seen.status, e.type)
    <2>1. NextStatus(seen.status, e.type) = seen.status /\ Tells(seen.events, seen.status)
      BY <1>4 DEF NextStatus, GoodLog
    <2>2. Tells(longer, seen.status)
      BY <1>3, <2>1 DEF Tells
    <2> QED BY <2>1, <2>2 DEF longer
  <1>5. CASE ~Outranks(seen.status, e.type)
    <2>1. NextStatus(seen.status, e.type) = StatusOf(e.type)
      BY <1>5 DEF NextStatus
    <2>2. Tells(longer, StatusOf(e.type))
      BY <1>2 DEF Tells
    <2> QED BY <2>1, <2>2 DEF longer
  <1> QED BY <1>4, <1>5

\* The first of the rows with an id is one of them.
LEMMA FirstMatching ==
    ASSUME MailInv, NEW id, Matching(id) # {}
    PROVE  First(Matching(id)) \in DOMAIN logs
  <1> DEFINE S == Matching(id)
  <1>1. S \subseteq Nat /\ S \subseteq DOMAIN logs
    BY Lengths DEF Matching
  <1>2. PICK i \in S : \A j \in S : ~(<<j, i>> \in {p \in Nat \X Nat : p[1] < p[2]})
    <2>1. IsWellFoundedOn({p \in Nat \X Nat : p[1] < p[2]}, Nat)
      BY NatLessThanWellFounded DEF OpToRel
    <2> QED BY <1>1, <2>1, WFMin
  <1>3. ASSUME NEW j \in S PROVE i <= j
    <2>1. i \in Nat /\ j \in Nat /\ ~(<<j, i>>[1] < <<j, i>>[2])
      BY <1>1, <1>2
    <2> QED BY <2>1
  <1> QED BY <1>1, <1>3 DEF First

\* The call of a step that creates a row.
LEMMA CreatedKept ==
    ASSUME MailInv, NEW r \in Requests, NEW new, Create(new), accepted' = accepted,
           Done(r, "sent") \/ Goto(r, "hookSuppress")
    PROVE  CallsKept
  <1>0. Len(logs') = Len(logs) + 1 /\ Len(logs) \in Nat
    BY CreateLength
  <1>1. Len(logs) <= Len(logs') /\ Len(logs') \in Nat /\ Len(logs) \in Nat
        /\ Len(accepted) \in Nat /\ Len(accepted) <= Len(accepted)
    <2>1. Len(accepted) \in Nat
      BY Lengths
    <2> QED BY <1>0, <2>1
  <1>2. CASE Done(r, "sent")
    BY <1>1, <1>2, DoneKept DEF Results
  <1>3. CASE Goto(r, "hookSuppress")
    <2>0. GoodCall(call[r], Len(logs'), Len(accepted'))
      BY <1>1, GoodLater, CallFacts
    <2>1. GoodCall([call[r] EXCEPT !.pc = "hookSuppress"], Len(logs'), Len(accepted'))
      BY <2>0, GoodGoto DEF Plain, MailSteps, Rewrites
    <2>2. call' = [call EXCEPT ![r] = [call[r] EXCEPT !.pc = "hookSuppress"]]
      BY <1>3 DEF Goto
    <2> QED BY <2>1, <2>2, OneCall
  <1> QED BY <1>2, <1>3

\* A row rewritten, or not, in the last step or in one of the last ones of a call.
LEMMA RewriteKeeps ==
    ASSUME MailInv, NEW r \in Requests, accepted' = accepted,
           \/ logs' = logs
           \/ \E i \in DOMAIN logs : \E new : SetLog(i, new) /\ GoodLog(new, Len(accepted)),
           \/ \E result \in Results : Done(r, result)
           \/ \E pc \in Plain : Goto(r, pc) /\ (pc \in Rewrites => call[r].pc \in Rewrites)
    PROVE  MailInv'
  <1>1. LogsKept /\ Len(logs') = Len(logs) /\ Len(logs') \in Nat
    BY Lengths DEF LogsKept
  <1>2. CallsKept
    BY <1>1, GotoKept, DoneKept
  <1> QED BY <1>1, <1>2, MailKept

LEMMA SendKeeps ==
    ASSUME MailInv, NEW r \in Requests, SendStep(r)
    PROVE  MailInv'
  <1> DEFINE m == call[r].mail
  <1>0. /\ AfterSuppression(m) \in Plain \ Rewrites /\ {"sent", "cached", "barred", "error"} \subseteq Results
        /\ {"bar", "log", "send", "refused", "failed"} \subseteq Plain \ Rewrites
        /\ Len(logs) \in Nat /\ Len(accepted) \in Nat
    BY Lengths DEF AfterSuppression, Plain, Rewrites, MailSteps, Results
  <1>1. CASE CheckSuppression(r)
    <2>1. logs' = logs /\ accepted' = accepted
      BY <1>1 DEF CheckSuppression, Quiet, Fault
    <2>2. Goto(r, "bar") \/ Goto(r, AfterSuppression(m))
      BY <1>1 DEF CheckSuppression, Fault
    <2>3. CallsKept
      BY <1>0, <2>1, <2>2, GotoKept
    <2> QED BY <2>1, <2>3, MailKept DEF LogsKept
  <1>2. CASE Bar(r)
    <2> DEFINE new == [NewLog([m EXCEPT !.key = NoKey], "FAILED") EXCEPT !.barred = TRUE]
    <2>1. CASE Create(new) /\ Done(r, "barred") /\ Quiet
      <3>0. GoodLog(new, Len(accepted))
        BY <1>0, GoodNew
      <3> HIDE DEF new
      <3>1. accepted' = accepted
        BY <2>1 DEF Quiet
      <3>3. GoodLog(new, Len(accepted')) /\ Len(logs') \in Nat
        BY <1>0, <2>1, <3>0, <3>1, CreateLength
      <3>2. CallsKept
        BY <1>0, <2>1, <3>3, DoneKept
      <3> QED BY <2>1, <3>1, <3>2, <3>3, MailKept DEF LogsKept
    <2>2. CASE Fault(r, Goto(r, AfterSuppression(m)))
      <3>1. logs' = logs /\ accepted' = accepted /\ Goto(r, AfterSuppression(m))
        BY <2>2 DEF Fault
      <3>2. CallsKept
        BY <1>0, <3>1, GotoKept
      <3> QED BY <3>1, <3>2, MailKept DEF LogsKept
    <2> QED BY <1>2, <2>1, <2>2 DEF Bar
  <1>3. CASE CheckKey(r)
    <2>1. logs' = logs /\ accepted' = accepted
      BY <1>3 DEF CheckKey, Quiet, Fault
    <2>2. Done(r, "cached") \/ Goto(r, "log")
      BY <1>3 DEF CheckKey, Fault
    <2>3. CallsKept
      BY <1>0, <2>1, <2>2, GotoKept, DoneKept
    <2> QED BY <2>1, <2>3, MailKept DEF LogsKept
  <1>4. CASE CreateLog(r)
    <2> DEFINE c == [call[r] EXCEPT !.pc = "send", !.log = Len(logs) + 1]
    <2>1. CASE Create(NewLog(m, "PENDING")) /\ call' = [call EXCEPT ![r] = c] /\ Quiet
      <3>1. accepted' = accepted /\ GoodLog(NewLog(m, "PENDING"), Len(accepted'))
            /\ Len(logs') = Len(logs) + 1
        BY <1>0, <2>1, GoodNew, Lengths DEF Quiet
      <3>2. GoodCall(c, Len(logs'), Len(accepted'))
        BY <1>0, <3>1, CallFacts DEF GoodCall, CallFields, Rewrites
      <3>3. CallsKept
        BY <2>1, <3>2, OneCall
      <3> QED BY <2>1, <3>1, <3>3, MailKept DEF LogsKept
    <2>2. CASE logs' = logs /\ accepted' = accepted /\ Goto(r, "send")
      <3>1. CallsKept
        BY <1>0, <2>2, GotoKept
      <3> QED BY <2>2, <3>1, MailKept DEF LogsKept
    <2>3. call' = [call EXCEPT ![r].pc = "send", ![r].log = Len(logs) + 1]
             => call' = [call EXCEPT ![r] = c]
      BY CallFacts
    <2> QED BY <1>4, <2>1, <2>2, <2>3 DEF CreateLog, Quiet, Fault
  <1>5. CASE Deliver(r)
    BY <1>5, ProvidesKeeps DEF Deliver
  <1>6. CASE RecordAcceptance(r)
    <2> DEFINE i == call[r].log
               new == [logs[i] EXCEPT !.status = "ACCEPTED", !.id = call[r].event.id,
                                      !.events = <<call[r].event>>]
    <2>1. call[r].event \in Event /\ call[r].event.id <= Len(accepted)
      BY <1>0, <1>6, CallFacts DEF RecordAcceptance, Record, MailAt, GoodCall, Event
    <2>2. i # 0 => i \in DOMAIN logs /\ GoodLog(new, Len(accepted))
      BY <1>0, <2>1, CallFacts, GoodFirst DEF GoodLog, Announced
    <2>3. /\ accepted' = accepted /\ Done(r, "sent")
          /\ logs' = logs \/ (i # 0 /\ SetLog(i, new))
      BY <1>6 DEF RecordAcceptance, Record, Quiet, Fault
    <2> QED BY <1>0, <2>2, <2>3, RewriteKeeps
  <1>7. CASE RecordRefusal(r)
    <2> DEFINE i == call[r].log
               new == [logs[i] EXCEPT !.status = "FAILED",
                                      !.events = <<[type |-> "error", id |-> 0]>>]
    <2>1. [type |-> "error", id |-> 0] \in Event
      BY DEF Event
    <2>2. i # 0 => i \in DOMAIN logs /\ GoodLog(new, Len(accepted))
      BY <1>0, <2>1, CallFacts, GoodFirst DEF GoodLog, Announced
    <2>3. /\ accepted' = accepted /\ Goto(r, "failed")
          /\ logs' = logs \/ (i # 0 /\ SetLog(i, new))
      BY <1>7 DEF RecordRefusal, Record, Quiet, Fault
    <2> QED BY <1>0, <2>2, <2>3, RewriteKeeps
  <1>8. CASE RecordFailure(r)
    <2> DEFINE i == call[r].log
               new == [logs[i] EXCEPT !.status = "FAILED"]
    <2>1. i # 0 => i \in DOMAIN logs /\ GoodLog(new, Len(accepted))
      BY <1>0, CallFacts, GoodStatus DEF Announced
    <2>2. /\ accepted' = accepted /\ Done(r, "error")
          /\ logs' = logs \/ (i # 0 /\ SetLog(i, new))
      BY <1>8 DEF RecordFailure, Record, Quiet, Fault
    <2> QED BY <1>0, <2>1, <2>2, RewriteKeeps
  <1> QED BY <1>1, <1>2, <1>3, <1>4, <1>5, <1>6, <1>7, <1>8 DEF SendStep

-----------------------------------------------------------------------------
(* retryEmail and the webhooks                                             *)

LEMMA RetryBegins ==
    ASSUME MailInv, NEW r \in Requests, NEW i \in DOMAIN logs, Retry(r, i)
    PROVE  MailInv'
  <1> DEFINE c == [NoCall EXCEPT !.pc = "retrySuppression", !.mail = logs[i].mail, !.log = i,
                                 !.seen = logs[i]]
  <1>1. GoodLog(logs[i], Len(accepted)) /\ i \in 1..Len(logs) /\ Len(logs) \in Nat
    BY Lengths DEF MailInv, GoodLogs
  <1>2. GoodCall(c, Len(logs), Len(accepted))
    BY <1>1 DEF GoodCall, CallFields, NoCall
  <1>3. call' = [call EXCEPT ![r] = c] /\ UNCHANGED <<logs, accepted>>
    BY DEF Retry, Enter, Quiet
  <1>4. CallsKept
    BY <1>2, <1>3, OneCall
  <1> QED BY <1>3, <1>4, MailKept DEF LogsKept

LEMMA RetryKeeps ==
    ASSUME MailInv, NEW r \in Requests, RetryStep(r)
    PROVE  MailInv'
  <1> DEFINE i == call[r].log
  <1>0. /\ call[r].pc \in Rewrites /\ {"sent", "error"} \subseteq Results
        /\ {"retryMark", "retrySend", "retryFailed"} \subseteq Plain
        /\ i \in DOMAIN logs /\ GoodLog(logs[i], Len(accepted)) /\ GoodLog(call[r].seen, Len(accepted))
    <2>1. call[r].pc \in Rewrites
      BY DEF RetryStep, RetrySuppression, RetryMark, RetrySend, RetryAccepted, RetryRefused,
             RetryFailed, MailAt, Rewrites
    <2> QED BY <2>1, CallFacts DEF GoodCall, Plain, MailSteps, Results
  <1>1. CASE RetrySuppression(r)
    BY <1>0, <1>1, RewriteKeeps DEF RetrySuppression, Quiet, Fault
  <1>2. CASE RetryMark(r)
    <2>1. GoodLog([logs[i] EXCEPT !.status = "PENDING", !.hot = TRUE], Len(accepted))
      BY <1>0, GoodStatus DEF Announced
    <2> QED BY <1>0, <1>2, <2>1, RewriteKeeps DEF RetryMark, Quiet, Fault
  <1>3. CASE RetrySend(r)
    BY <1>0, <1>3, ProvidesKeeps DEF RetrySend
  <1>4. CASE RetryAccepted(r)
    <2> DEFINE e == [call[r].event EXCEPT !.type = "retried"]
               new == [logs[i] EXCEPT !.status = "ACCEPTED", !.id = call[r].event.id,
                                      !.events = Append(call[r].seen.events, e)]
    <2>1. call[r].event \in [type : {"accepted"}, id : 1..Len(accepted)]
          /\ \A j \in DOMAIN call[r].seen.events : call[r].seen.events[j].id < call[r].event.id
      BY <1>4, CallFacts DEF RetryAccepted, MailAt, GoodCall
    <2>2. e \in Event /\ e.id = call[r].event.id /\ e.id <= Len(accepted)
      BY <2>1, Lengths DEF Event
    <2>3. DOMAIN logs[i] = LogFields /\ "ACCEPTED" \notin Announced /\ Len(accepted) \in Nat
          /\ \A j \in DOMAIN call[r].seen.events : call[r].seen.events[j] # e
      BY <1>0, <2>1, <2>2, Lengths DEF GoodLog, Announced
    <2>4. GoodLog(new, Len(accepted))
      BY <1>0, <2>2, <2>3, GoodLonger
    <2> QED BY <1>0, <1>4, <2>4, RewriteKeeps DEF RetryAccepted, Quiet, Fault
  <1>5. CASE RetryRefused(r)
    <2>1. GoodLog([logs[i] EXCEPT !.status = "FAILED"], Len(accepted))
      BY <1>0, GoodStatus DEF Announced
    <2> QED BY <1>0, <1>5, <2>1, RewriteKeeps DEF RetryRefused, Quiet, Fault
  <1>6. CASE RetryFailed(r)
    <2>1. GoodLog([logs[i] EXCEPT !.status = "FAILED"], Len(accepted))
      BY <1>0, GoodStatus DEF Announced
    <2> QED BY <1>0, <1>6, <2>1, RewriteKeeps DEF RetryFailed, Quiet, Fault
  <1> QED BY <1>1, <1>2, <1>3, <1>4, <1>5, <1>6 DEF RetryStep

LEMMA HookBegins ==
    ASSUME MailInv, NEW r \in Requests, NEW e \in [type : Reported, id : DOMAIN accepted],
           Hook(r, e)
    PROVE  MailInv'
  <1>0. e \in [type : Reported, id : 1..Len(accepted)] /\ UNCHANGED <<logs, accepted>>
        /\ Len(logs) \in Nat
    BY Lengths DEF Hook
  <1>1. CASE Matching(e.id) = {}
    <2> DEFINE c == [NoCall EXCEPT !.pc = "hookCreate", !.event = e,
                                   !.mail = [accepted[e.id] EXCEPT !.key = NoKey]]
    <2>1. GoodCall(c, Len(logs), Len(accepted))
      BY <1>0 DEF GoodCall, CallFields, NoCall, Rewrites
    <2>2. call' = [call EXCEPT ![r] = c]
      BY <1>1 DEF Hook, Enter
    <2> QED BY <1>0, <2>1, <2>2, OneCall, MailKept DEF LogsKept
  <1>2. CASE Matching(e.id) # {}
    <2> DEFINE i == First(Matching(e.id))
               c == [NoCall EXCEPT !.pc = "hookUpdate", !.event = e, !.log = i,
                                   !.seen = logs[i], !.mail = logs[i].mail]
    <2>1. i \in DOMAIN logs
      BY <1>2, FirstMatching
    <2>2. GoodLog(logs[i], Len(accepted)) /\ i \in 1..Len(logs)
      BY <2>1, Lengths DEF MailInv, GoodLogs
    <2>3. \A j \in DOMAIN logs[i].events : logs[i].events[j] # e
      BY <1>2 DEF Hook, Range
    <2>4. GoodCall(c, Len(logs), Len(accepted))
      BY <1>0, <2>2, <2>3 DEF GoodCall, CallFields, NoCall
    <2>5. call' = [call EXCEPT ![r] = c]
      BY <1>2 DEF Hook, Enter
    <2> QED BY <1>0, <2>4, <2>5, OneCall, MailKept DEF LogsKept
  <1> QED BY <1>1, <1>2

LEMMA HookKeeps ==
    ASSUME MailInv, NEW r \in Requests, HookStep(r)
    PROVE  MailInv'
  <1> DEFINE c == call[r]
  <1>0. {"sent", "error"} \subseteq Results /\ "hookSuppress" \in Plain \ Rewrites
    BY DEF Results, Plain, MailSteps, Rewrites
  <1>1. CASE HookCreate(r)
    <2> DEFINE new == [NewLog(c.mail, StatusOf(c.event.type)) EXCEPT !.id = c.event.id,
                                                                 !.events = <<c.event>>]
    <2>1. c.event \in [type : Reported, id : 1..Len(accepted)]
      BY <1>1, CallFacts DEF HookCreate, MailAt, GoodCall
    <2>2. GoodLog(new, Len(accepted))
      BY <2>1, Lengths DEF GoodLog, NewLog, LogFields, Tells, Event
    <2> HIDE DEF new
    <2>3. CASE Create(new) /\ Recorded(r) /\ Quiet
      <3>1. accepted' = accepted /\ (Done(r, "sent") \/ Goto(r, "hookSuppress"))
        BY <2>3 DEF Quiet, Recorded
      <3>2. CallsKept
        BY <1>0, <2>3, <3>1, CreatedKept
      <3> QED BY <2>2, <2>3, <3>1, <3>2, MailKept DEF LogsKept
    <2>4. CASE Fault(r, Done(r, "error"))
      BY <1>0, <2>4, RewriteKeeps DEF Fault
    <2> QED BY <1>1, <2>3, <2>4 DEF HookCreate, new
  <1>2. CASE HookUpdate(r)
    <2> DEFINE new == [logs[c.log] EXCEPT !.status = NextStatus(c.seen.status, c.event.type),
                                          !.events = Append(c.seen.events, c.event)]
    <2>1. /\ c.event \in [type : Reported, id : 1..Len(accepted)] /\ c.log \in DOMAIN logs
          /\ GoodLog(c.seen, Len(accepted)) /\ GoodLog(logs[c.log], Len(accepted))
          /\ \A j \in DOMAIN c.seen.events : c.seen.events[j] # c.event
      BY <1>2, CallFacts DEF HookUpdate, MailAt, GoodCall, Rewrites
    <2>2. c.event \in Event /\ c.event.id <= Len(accepted)
      BY <2>1, Lengths DEF Event
    <2>3. NextStatus(c.seen.status, c.event.type) \in Announced
             => Tells(Append(c.seen.events, c.event), NextStatus(c.seen.status, c.event.type))
      BY <2>1, <2>2, StillTold
    <2>4. DOMAIN logs[c.log] = LogFields /\ Len(accepted) \in Nat
      BY <2>1, Lengths DEF GoodLog
    <2>6. GoodLog(new, Len(accepted))
      BY <2>1, <2>2, <2>3, <2>4, GoodLonger
    <2>5. /\ accepted' = accepted
          /\ \/ logs' = logs /\ Done(r, "error")
             \/ SetLog(c.log, new) /\ (Done(r, "sent") \/ Goto(r, "hookSuppress"))
      BY <1>2 DEF HookUpdate, Recorded, Quiet, Fault
    <2> HIDE DEF new
    <2> QED BY <1>0, <2>1, <2>5, <2>6, RewriteKeeps
  <1>3. CASE HookSuppress(r)
    BY <1>0, <1>3, RewriteKeeps DEF HookSuppress
  <1> QED BY <1>1, <1>2, <1>3 DEF HookStep

-----------------------------------------------------------------------------
(* The other steps, and the theorem                                        *)

\* A step of which the calls that it touches are over, and that adds no row and no id.
LEMMA OverKeeps ==
    ASSUME MailInv, UNCHANGED <<logs, accepted>>, DOMAIN call' = Requests,
           \A q \in Requests : call'[q] = call[q] \/ call'[q] = NoCall
    PROVE  MailInv'
  <1>0. Len(logs) \in Nat
    BY Lengths
  <1>1. GoodCall(NoCall, Len(logs), Len(accepted))
    BY <1>0 DEF GoodCall, CallFields, NoCall, Rewrites
  <1>2. CallsKept
    BY <1>1 DEF CallsKept
  <1> QED BY <1>2, MailKept DEF LogsKept

LEMMA TimeKeeps ==
    ASSUME MailInv, NEW i, Wait(i) \/ Cool(i)
    PROVE  MailInv'
  <1>1. i \in DOMAIN logs /\ UNCHANGED <<accepted, call>> /\ GoodLog(logs[i], Len(accepted))
    BY DEF Wait, Cool, Quiet, MailInv, GoodLogs
  <1>2. /\ GoodLog([logs[i] EXCEPT !.young = FALSE], Len(accepted))
        /\ GoodLog([logs[i] EXCEPT !.young = FALSE, !.hot = FALSE], Len(accepted))
    BY <1>1 DEF GoodLog, LogFields
  <1>3. LogsKept
    BY <1>1, <1>2 DEF LogsKept, Wait, Cool
  <1>4. CallsKept
    BY <1>1 DEF CallsKept, MailInv, GoodCalls
  <1> QED BY <1>1, <1>3, <1>4, MailKept

\* A handler of the programme leaves the mails alone, begins one, or ends one.
LEMMA TesterKeeps ==
    ASSUME MailInv, NEW r \in Requests, TesterCall(r) \/ TesterStep(r)
    PROVE  MailInv'
  <1>1. CASE UNCHANGED mail
    BY <1>1, OverKeeps DEF mail, MailInv, GoodCalls
  <1>2. CASE SendNext(r)
    BY <1>1, <1>2, InvokeKeeps DEF SendNext
  <1>3. CASE Mailed(r)
    BY <1>3, OverKeeps DEF Mailed, rest, MailInv, GoodCalls
  <1>4. CASE UNCHANGED <<logs, accepted, call>>
    BY <1>4, OverKeeps DEF MailInv, GoodCalls
  <1>5. CASE TesterStep(r)
    BY <1>1, <1>2, <1>3, <1>4, <1>5
       DEF TesterStep, RegisterCreate, RegisterRejoin, PlatformsWrite, UnsubscribeWrite,
           RecordInvite, StatusSet
  <1>6. CASE TesterCall(r)
    <2>1. ASSUME NEW a, NEW P, RegisterRead(r, a, P) PROVE UNCHANGED <<logs, accepted, call>>
      BY <2>1 DEF RegisterRead, Starts, Fault, mail
    <2>2. ASSUME NEW new, Starts(r, new) PROVE UNCHANGED <<logs, accepted, call>>
      BY <2>2 DEF Starts, mail
    <2>3. UNCHANGED <<logs, accepted, call>>
      BY <1>6, <2>1, <2>2
         DEF TesterCall, UnsubscribeRead, Resend, RemoveTester, InviteOne, PlatformsRead,
             StatusCall, Mark, BulkInvite, Notify, Configure, mail
    <2> QED BY <1>4, <2>3
  <1> QED BY <1>5, <1>6

LEMMA MailInvHolds == Spec => []MailInv
  <1>1. Init => MailInv
    <2> SUFFICES ASSUME Init PROVE MailInv
      OBVIOUS
    <2>1. logs = <<>> /\ accepted = <<>> /\ call = [r \in Requests |-> NoCall]
      BY DEF Init, MailInit
    <2>2. GoodCall(NoCall, 0, 0)
      BY DEF GoodCall, CallFields, NoCall, Rewrites
    <2>3. IsSeq(<<>>) /\ Len(<<>>) = 0
      <3>1. <<>> \in Seq({})
        OBVIOUS
      <3> QED BY <3>1 DEF IsSeq
    <2> QED BY <2>1, <2>2, <2>3 DEF MailInv, GoodLogs, GoodCalls
  <1>2. MailInv /\ [Next]_vars => MailInv'
    <2> SUFFICES ASSUME MailInv, [Next]_vars PROVE MailInv'
      OBVIOUS
    <2>1. ASSUME NEW r \in Requests, MailCall(r) PROVE MailInv'
      <3>1. CASE \E m \in KeyedMails : Invoke(r, m)
        BY <3>1, InvokeKeeps
      <3>2. CASE \E i \in DOMAIN logs : Retry(r, i)
        BY <3>2, RetryBegins
      <3>3. CASE \E e \in [type : Reported, id : DOMAIN accepted] : Hook(r, e)
        BY <3>3, HookBegins
      <3>4. CASE \E a \in Addresses : Unsuppress(a)
        BY <3>4, OverKeeps DEF Unsuppress, MailInv, GoodCalls
      <3> QED BY <2>1, <3>1, <3>2, <3>3, <3>4 DEF MailCall
    <2>2. ASSUME NEW r \in Requests, Step(r) PROVE MailInv'
      BY <2>2, TesterKeeps, SendKeeps, RetryKeeps, HookKeeps DEF Step, MailStep
    <2>3. ASSUME NEW S \in SUBSET Requests, Crash(S) PROVE MailInv'
      BY <2>3, OverKeeps DEF Crash
    <2>4. CASE UNCHANGED vars
      BY <2>4, OverKeeps DEF vars, mail, MailInv, GoodCalls
    <2> QED BY <2>1, <2>2, <2>3, <2>4, TimeKeeps, TesterKeeps DEF Next
  <1> QED BY <1>1, <1>2, PTL DEF Spec

\* The log tells the truth, whatever handlers, webhooks, retries, failures and crashes
\* cross: each status that a webhook gives has its event in the history of the row, and
\* no event is there twice (resend-webhook.service.ts 61-165, resend.service.ts 536-662).
THEOREM LogIsTruthful == Spec => []HistoryTruthful
  <1>1. MailInv => HistoryTruthful
    BY DEF MailInv, GoodLogs, GoodLog, HistoryTruthful, Announced
  <1> QED BY <1>1, MailInvHolds, PTL

-----------------------------------------------------------------------------
(* Whoever is recorded as invited was mailed.                              *)

TesterFields == {"there", "to", "hash", "platforms", "status", "invite", "unsub"}
TaskFields == {"op", "row", "to", "pc", "platforms", "status", "seen", "todo"}

\* A row that has been somebody's: only then does an invitation name it.
Used(x) == There(x) \/ tester[x].unsub
\* An invitation has the template of its platform and goes to the address of its row.
GoodItem(item) == item.platform # "none" =>
    /\ item.row \in Rows /\ item.platform \in Platforms /\ item.template = Template(item.platform)
    /\ Used(item.row) /\ (There(item.row) => tester[item.row].to = item.to)
GoodTodo(todo) == IsSeq(todo) /\ \A j \in DOMAIN todo : GoodItem(todo[j])
Served(item) == Accepted(item.to, item.template) \/ Barred(item.to, item.template)

\* The mail call of a handler of the programme: where it may be, what it sends, and what is
\* known when it has been accepted or barred.
SendPoints == {"suppression", "bar", "log", "send", "accepted", "refused", "failed"}
Sends(c, item) ==
    /\ c.pc \in SendPoints \cup {"sent", "barred", "error"}
    /\ c.pc \in SendPoints =>
          /\ c.mail.to = item.to /\ c.mail.template = item.template /\ c.mail.key = NoKey
          /\ DOMAIN c.mail = {"to", "template", "key", "bypass"}
    /\ c.pc \in {"accepted", "sent"} => Accepted(item.to, item.template)
    /\ c.pc = "barred" => Barred(item.to, item.template)
Mailing(t) == t.pc = "mailing" /\ t.op \notin MailCalls
GoodTask(t, c) ==
    /\ DOMAIN t = TaskFields /\ GoodTodo(t.todo)
    /\ t.pc \in {"next", "record"} \/ Mailing(t) => t.todo # <<>>
    /\ Mailing(t) => Sends(c, Head(t.todo))
    /\ t.pc = "record" => Served(Head(t.todo)) /\ Head(t.todo).platform # "none"

GoodTesters ==
    /\ DOMAIN tester = Rows
    /\ \A x \in Rows : DOMAIN tester[x] = TesterFields /\ DOMAIN tester[x].invite = Platforms
Doing(r, t, c) == t = task[r] /\ c = call[r]
InviteInv ==
    /\ GoodTesters /\ InvitedWasMailed
    /\ DOMAIN task = Requests
    /\ \A r \in Requests : \A t, c : Doing(r, t, c) => GoodTask(t, c)

\* What a step may do: no mail is forgotten, no address of a row changes, and who becomes
\* invited was mailed.
MailsGrow == \A a, template : /\ Accepted(a, template) => Accepted(a, template)'
                              /\ Barred(a, template) => Barred(a, template)'
TestersKept == \A x \in Rows :
    Used(x) => /\ Used(x)'
               /\ There(x)' => There(x) /\ tester'[x].to = tester[x].to
InvitesKept == \A x \in Rows : \A p \in Platforms :
    There(x)' /\ tester'[x].invite[p] = "INVITED" =>
        \/ There(x) /\ tester[x].invite[p] = "INVITED" /\ tester'[x].to = tester[x].to
        \/ \E a : a = tester'[x].to /\ (Accepted(a, Template(p))' \/ Barred(a, Template(p))')

\* What a request knows stays true.
LEMMA GoodItemLater ==
    ASSUME TestersKept, NEW item, GoodItem(item)
    PROVE  GoodItem(item)'
  BY DEF TestersKept, GoodItem
LEMMA GoodTaskLater ==
    ASSUME TestersKept, MailsGrow, NEW t, NEW c, GoodTask(t, c)
    PROVE  GoodTask(t, c)'
  <1>1. GoodTodo(t.todo)'
    BY GoodItemLater DEF GoodTask, GoodTodo
  <1>2. Mailing(t) => Sends(c, Head(t.todo))'
    BY DEF MailsGrow, GoodTask, Sends
  <1>3. t.pc = "record" => Served(Head(t.todo))' /\ Head(t.todo).platform # "none"
    BY DEF MailsGrow, GoodTask, Served
  <1> QED BY <1>1, <1>2, <1>3 DEF GoodTask

\* A step that does no more than that keeps the invariant.
LEMMA InviteKept ==
    ASSUME InviteInv, TestersKept, InvitesKept, MailsGrow, GoodTesters', DOMAIN task' = Requests,
           \A q \in Requests : \/ task'[q] = task[q] /\ call'[q] = call[q]
                               \/ \A t, c : Doing(q, t, c)' => GoodTask(t, c)'
    PROVE  InviteInv'
  <1>1. ASSUME NEW x \in Rows, NEW p \in Platforms,
               There(x)', tester'[x].invite[p] = "INVITED",
               NEW a, a = tester'[x].to
        PROVE  Accepted(a, Template(p))' \/ Barred(a, Template(p))'
    <2>1. CASE There(x) /\ tester[x].invite[p] = "INVITED" /\ tester[x].to = a
      <3>1. Accepted(a, Template(p)) \/ Barred(a, Template(p))
        BY <2>1 DEF InviteInv, InvitedWasMailed
      <3> QED BY <3>1 DEF MailsGrow
    <2> QED BY <1>1, <2>1 DEF InvitesKept
  <1>2. InvitedWasMailed'
    BY <1>1 DEF InvitedWasMailed, Accepted, Barred
  <1>3. ASSUME NEW q \in Requests, NEW t, NEW c, Doing(q, t, c)' PROVE GoodTask(t, c)'
    <2>1. CASE task'[q] = task[q] /\ call'[q] = call[q]
      <3>1. GoodTask(t, c)
        BY <1>3, <2>1 DEF InviteInv, Doing
      <3> QED BY <3>1, GoodTaskLater
    <2> QED BY <1>3, <2>1
  <1> QED BY <1>2, <1>3 DEF InviteInv

-----------------------------------------------------------------------------
(* What is to be sent                                                      *)

\* The elements of a finite set, in some order.
LEMMA InSomeOrder ==
    ASSUME NEW S, IsFiniteSet(S), NEW todo \in SetToSeqs(S)
    PROVE  todo \in Seq(S)
  <1>1. Cardinality(S) \in Nat
    BY FS_CardinalityType
  <1>2. todo \in [1..Cardinality(S) -> S]
    BY DEF SetToSeqs
  <1> QED BY <1>1, <1>2

\* A list of good items is one that a request may have.
LEMMA GoodList ==
    ASSUME NEW S, \A item \in S : GoodItem(item), NEW todo \in Seq(S)
    PROVE  GoodTodo(todo)
  <1>1. \A j \in DOMAIN todo : todo[j] \in S
    OBVIOUS
  <1> QED BY <1>1 DEF GoodTodo, IsSeq

\* The invitations of rows that are there.
LEMMA GoodInvitation ==
    ASSUME NEW x \in Rows, NEW p \in Platforms, There(x)
    PROVE  GoodItem(Invitation(x, p))
  BY DEF GoodItem, Invitation, Letter, Used
LEMMA GoodInvitations ==
    ASSUME NEW X \in SUBSET Rows, \A x \in X : There(x), NEW P \in SUBSET Platforms,
           NEW todo \in Invitations(X, P)
    PROVE  GoodTodo(todo)
  <1> DEFINE V == {v \in X \X P : v[2] \in tester[v[1]].platforms}
             S == {Invitation(w[1], w[2]) : w \in V}
             f == [w \in V |-> Invitation(w[1], w[2])]
  <1>1. IsFiniteSet(V)
    <2>1. IsFiniteSet(X) /\ IsFiniteSet(P)
      BY BetaBounds, FS_Subset
    <2>2. IsFiniteSet(X \X P)
      BY <2>1, FS_Product
    <2> QED BY <2>2, FS_Subset
  <1>2. f \in Surjection(V, S)
    BY DEF Surjection
  <1>3. IsFiniteSet(S)
    BY <1>1, <1>2, FS_Surjection
  <1>4. \A item \in S : GoodItem(item)
    BY GoodInvitation
  <1>5. todo \in SetToSeqs(S)
    BY DEF Invitations
  <1> QED BY <1>3, <1>4, <1>5, InSomeOrder, GoodList

\* Letters that invite to nothing.
LEMMA GoodLetter ==
    ASSUME NEW x, NEW template
    PROVE  GoodItem(Letter(x, template))
  BY DEF GoodItem, Letter
LEMMA GoodLetters ==
    ASSUME NEW todo \in SetToSeqs({Letter(x, "NEW_VERSION") : x \in {y \in Rows : Eligible(y)}})
    PROVE  GoodTodo(todo)
  <1> DEFINE V == {y \in Rows : Eligible(y)}
             S == {Letter(x, "NEW_VERSION") : x \in V}
             f == [x \in V |-> Letter(x, "NEW_VERSION")]
  <1>1. IsFiniteSet(V)
    BY BetaBounds, FS_Subset
  <1>2. f \in Surjection(V, S)
    BY DEF Surjection
  <1>3. IsFiniteSet(S)
    BY <1>1, <1>2, FS_Surjection
  <1>4. \A item \in S : GoodItem(item)
    BY GoodLetter
  <1> QED BY <1>3, <1>4, InSomeOrder, GoodList

\* One item, or none.
LEMMA GoodOne ==
    /\ GoodTodo(<<>>)
    /\ \A item : GoodItem(item) => GoodTodo(<<item>>)
  <1>1. <<>> \in Seq({})
    OBVIOUS
  <1>2. ASSUME NEW item, GoodItem(item) PROVE GoodTodo(<<item>>)
    <2>1. <<item>> \in Seq({item})
      OBVIOUS
    <2> QED BY <1>2, <2>1, GoodList
  <1> QED BY <1>1, <1>2, GoodList

\* What is left.
LEMMA GoodTail ==
    ASSUME NEW todo, GoodTodo(todo), todo # <<>>
    PROVE  GoodTodo(Tail(todo)) /\ GoodTodo(AfterTester(todo)) /\ GoodItem(Head(todo))
  <1>1. PICK S : todo \in Seq(S)
    BY DEF GoodTodo, IsSeq
  <1> DEFINE G == {item \in S : GoodItem(item)}
  <1>2. todo \in Seq(G)
    BY <1>1 DEF GoodTodo
  <1> HIDE DEF G
  <1>3. Tail(todo) \in Seq(G) /\ Head(todo) \in G /\ Len(todo) \in Nat
    BY <1>2
  <1>4. AfterTester(todo) \in Seq(G)
    <2>1. Len(Tail(todo)) = Len(todo) - 1
      BY <1>2, HeadTailProperties
    <2>2. CASE Len(todo) > 1
      <3>0. Len(<<>>) = 0 /\ Len(Tail(todo)) # 0
        BY <1>3, <2>1, <2>2
      <3>1. Tail(todo) # <<>>
        BY <3>0
      <3>2. Tail(Tail(todo)) \in Seq(G)
        BY <1>3, <3>1, HeadTailProperties
      <3> QED BY <1>3, <3>2 DEF AfterTester
    <2> QED BY <1>3, <2>2 DEF AfterTester
  <1>5. \A item \in G : GoodItem(item)
    BY DEF G
  <1> QED BY <1>3, <1>4, <1>5, GoodList

-----------------------------------------------------------------------------
(* The mails while a request sends one                                     *)

\* Steps that leave what a row of the log says of its mail alone.
MailsKept ==
    \/ logs' = logs
    \/ \E new : \/ Create(new)
                \/ \E i \in DOMAIN logs : /\ SetLog(i, new) /\ new.mail = logs[i].mail
                                          /\ new.barred = logs[i].barred
LEMMA Grow ==
    ASSUME MailInv, MailsKept, accepted' = accepted \/ \E m : Accepts(m)
    PROVE  MailsGrow
  <1>0. IsSeq(logs) /\ IsSeq(accepted)
    BY DEF MailInv
  <1>1. ASSUME NEW a, NEW template, Accepted(a, template) PROVE Accepted(a, template)'
    <2>1. \A i \in DOMAIN accepted : i \in DOMAIN accepted' /\ accepted'[i] = accepted[i]
      <3>1. ASSUME NEW m, Accepts(m), NEW i \in DOMAIN accepted
            PROVE  i \in DOMAIN accepted' /\ accepted'[i] = accepted[i]
        BY <1>0, <3>1, SeqAndOne DEF Accepts
      <3> QED BY <3>1
    <2> QED BY <1>1, <2>1 DEF Accepted
  <1>2. ASSUME NEW a, NEW template, Barred(a, template) PROVE Barred(a, template)'
    <2>1. ASSUME NEW i \in DOMAIN logs
          PROVE  /\ i \in DOMAIN logs' /\ logs'[i].mail = logs[i].mail
                 /\ logs'[i].barred = logs[i].barred
      <3>1. ASSUME NEW new, Create(new)
            PROVE  i \in DOMAIN logs' /\ logs'[i] = logs[i]
        BY <1>0, <3>1, SeqAndOne DEF Create
      <3>2. ASSUME NEW new, NEW k \in DOMAIN logs, SetLog(k, new), new.mail = logs[k].mail,
                   new.barred = logs[k].barred
            PROVE  /\ i \in DOMAIN logs' /\ logs'[i].mail = logs[i].mail
                   /\ logs'[i].barred = logs[i].barred
        BY <3>2 DEF SetLog
      <3> QED BY <3>1, <3>2 DEF MailsKept
    <2> QED BY <1>2, <2>1 DEF Barred
  <1> QED BY <1>1, <1>2 DEF MailsGrow

\* The row that a call writes.
Rewritten(log, status, id, events) ==
    {[log EXCEPT !.status = status], [log EXCEPT !.status = status, !.hot = TRUE],
     [log EXCEPT !.status = status, !.events = events],
     [log EXCEPT !.status = status, !.id = id, !.events = events]}
LEMMA WritesKept ==
    ASSUME MailInv, NEW r \in Requests, call[r].log # 0, NEW status, NEW id, NEW events,
           NEW new \in Rewritten(logs[call[r].log], status, id, events),
           SetLog(call[r].log, new)
    PROVE  MailsKept
  <1>1. call[r].log \in DOMAIN logs /\ DOMAIN logs[call[r].log] = LogFields
    BY CallFacts DEF GoodLog
  <1>2. new.mail = logs[call[r].log].mail /\ new.barred = logs[call[r].log].barred
    BY <1>1 DEF LogFields, Rewritten
  <1> QED BY <1>1, <1>2 DEF MailsKept

\* No other call changes.
OnlyCall(r) == DOMAIN call' = Requests /\ \A q \in Requests \ {r} : call'[q] = call[q]
LEMMA OnlyOneCall ==
    ASSUME MailInv, NEW r \in Requests
    PROVE  /\ \A pc : Goto(r, pc) => OnlyCall(r)
           /\ \A result : Done(r, result) => OnlyCall(r)
           /\ \A new : Enter(r, new) => OnlyCall(r)
  <1>0. DOMAIN call = Requests
    BY CallFacts
  <1> QED BY <1>0 DEF Goto, Done, Enter, OnlyCall

\* The steps of a mail call forget no mail, and are its own.
LEMMA ProvidesGrows ==
    ASSUME MailInv, NEW r \in Requests, NEW m, NEW yes, NEW no, NEW gone,
           Provides(r, m, yes, no, gone)
    PROVE  MailsGrow /\ OnlyCall(r)
  <1>0. DOMAIN call = Requests
    BY CallFacts
  <1>1. logs' = logs /\ (accepted' = accepted \/ \E mm : Accepts(mm))
    BY DEF Provides
  <1>2. MailsGrow
    BY <1>1, Grow DEF MailsKept
  <1>3. ASSUME call' = [call EXCEPT ![r].pc = yes, ![r].event = Answer(Len(accepted) + 1)]
        PROVE  OnlyCall(r)
    BY <1>0, <1>3 DEF OnlyCall
  <1>4. OnlyCall(r)
    BY <1>3, OnlyOneCall DEF Provides
  <1> QED BY <1>2, <1>4
LEMMA SendGrows ==
    ASSUME MailInv, NEW r \in Requests, SendStep(r)
    PROVE  MailsGrow /\ OnlyCall(r)
  <1>0. DOMAIN call = Requests
    BY CallFacts
  <1>1. CASE CheckSuppression(r) \/ CheckKey(r)
    <2>1. logs' = logs /\ accepted' = accepted
      BY <1>1 DEF CheckSuppression, CheckKey, Quiet, Fault
    <2>2. OnlyCall(r)
      BY <1>1, OnlyOneCall DEF CheckSuppression, CheckKey, Fault
    <2> QED BY <2>1, <2>2, Grow DEF MailsKept
  <1>2. CASE Bar(r)
    <2>1. accepted' = accepted /\ (logs' = logs \/ \E new : Create(new))
      BY <1>2 DEF Bar, Quiet, Fault
    <2>2. OnlyCall(r)
      BY <1>2, OnlyOneCall DEF Bar, Fault
    <2> QED BY <2>1, <2>2, Grow DEF MailsKept
  <1>3. CASE CreateLog(r)
    <2>1. accepted' = accepted /\ (logs' = logs \/ \E new : Create(new))
      BY <1>3 DEF CreateLog, Quiet, Fault
    <2>2. ASSUME call' = [call EXCEPT ![r].pc = "send", ![r].log = Len(logs) + 1]
          PROVE  OnlyCall(r)
      BY <1>0, <2>2 DEF OnlyCall
    <2>3. OnlyCall(r)
      BY <1>3, <2>2, OnlyOneCall DEF CreateLog, Fault
    <2> QED BY <2>1, <2>3, Grow DEF MailsKept
  <1>4. CASE Deliver(r)
    BY <1>4, ProvidesGrows DEF Deliver
  <1>5. CASE RecordAcceptance(r) \/ RecordRefusal(r) \/ RecordFailure(r)
    <2>1. accepted' = accepted
      BY <1>5 DEF RecordAcceptance, RecordRefusal, RecordFailure, Record, Quiet, Fault
    <2>2. \/ logs' = logs
          \/ /\ call[r].log # 0
             /\ \E status, id, events :
                \E new \in Rewritten(logs[call[r].log], status, id, events) :
                    SetLog(call[r].log, new)
      BY <1>5 DEF RecordAcceptance, RecordRefusal, RecordFailure, Record, Fault, Rewritten
    <2>3. MailsKept
      BY <2>2, WritesKept DEF MailsKept
    <2>4. OnlyCall(r)
      BY <1>5, OnlyOneCall DEF RecordAcceptance, RecordRefusal, RecordFailure, Record, Fault
    <2> QED BY <2>1, <2>3, <2>4, Grow
  <1> QED BY <1>1, <1>2, <1>3, <1>4, <1>5 DEF SendStep
LEMMA RetryGrows ==
    ASSUME MailInv, NEW r \in Requests, RetryStep(r)
    PROVE  MailsGrow /\ OnlyCall(r)
  <1>1. CASE RetrySend(r)
    BY <1>1, ProvidesGrows DEF RetrySend
  <1>2. CASE RetrySuppression(r) \/ RetryMark(r) \/ RetryAccepted(r) \/ RetryRefused(r) \/ RetryFailed(r)
    <2>0. call[r].log # 0
      BY <1>2, CallFacts DEF RetrySuppression, RetryMark, RetryAccepted, RetryRefused,
         RetryFailed, MailAt, GoodCall, Rewrites
    <2>1. accepted' = accepted
      BY <1>2 DEF RetrySuppression, RetryMark, RetryAccepted, RetryRefused, RetryFailed, Quiet, Fault
    <2>2. \/ logs' = logs
          \/ \E status, id, events :
             \E new \in Rewritten(logs[call[r].log], status, id, events) :
                 SetLog(call[r].log, new)
      BY <1>2 DEF RetrySuppression, RetryMark, RetryAccepted, RetryRefused, RetryFailed, Fault,
         Rewritten
    <2>3. MailsKept
      BY <2>0, <2>2, WritesKept DEF MailsKept
    <2>4. OnlyCall(r)
      BY <1>2, OnlyOneCall
         DEF RetrySuppression, RetryMark, RetryAccepted, RetryRefused, RetryFailed, Fault
    <2> QED BY <2>1, <2>3, <2>4, Grow
  <1> QED BY <1>1, <1>2 DEF RetryStep
LEMMA HookGrows ==
    ASSUME MailInv, NEW r \in Requests, HookStep(r)
    PROVE  MailsGrow /\ OnlyCall(r)
  <1>1. accepted' = accepted
    BY DEF HookStep, HookCreate, HookUpdate, HookSuppress, Quiet, Fault
  <1>2. OnlyCall(r)
    BY OnlyOneCall DEF HookStep, HookCreate, HookUpdate, HookSuppress, Recorded, Fault
  <1>3. CASE HookUpdate(r)
    <2>0. call[r].log # 0
      BY <1>3, CallFacts DEF HookUpdate, MailAt, GoodCall, Rewrites
    <2> DEFINE new == [logs[call[r].log] EXCEPT
                         !.status = NextStatus(call[r].seen.status, call[r].event.type),
                         !.events = Append(call[r].seen.events, call[r].event)]
    <2>1. logs' = logs \/ SetLog(call[r].log, new)
      BY <1>3 DEF HookUpdate, Fault
    <2>2. new \in Rewritten(logs[call[r].log], NextStatus(call[r].seen.status, call[r].event.type),
                           0, Append(call[r].seen.events, call[r].event))
      BY DEF Rewritten
    <2> HIDE DEF new
    <2>3. MailsKept
      BY <2>0, <2>1, <2>2, WritesKept DEF MailsKept
    <2> QED BY <1>1, <1>2, <2>3, Grow
  <1>4. CASE HookCreate(r) \/ HookSuppress(r)
    <2>1. logs' = logs \/ \E new : Create(new)
      BY <1>4 DEF HookCreate, HookSuppress, Fault
    <2> QED BY <1>1, <1>2, <2>1, Grow DEF MailsKept
  <1> QED BY <1>2, <1>3, <1>4 DEF HookStep

\* The mail call of a handler of the programme is a send, which stays what it is until it
\* returns; "sent" means accepted, "barred" that the log says so.
LEMMA GotoSends ==
    ASSUME MailInv, NEW r \in Requests, NEW item, Sends(call[r], item), call[r].pc \in SendPoints,
           NEW pc \in SendPoints \ {"accepted"}, Goto(r, pc), NEW c, c = call'[r]
    PROVE  Sends(c, item)'
  <1>1. DOMAIN call = Requests /\ DOMAIN call[r] = CallFields
    BY CallFacts DEF GoodCall
  <1>2. c.pc = pc /\ c.mail = call[r].mail
    BY <1>1 DEF Goto, CallFields
  <1> QED BY <1>2 DEF Sends, SendPoints
LEMMA DoneSends ==
    ASSUME MailInv, NEW r \in Requests, NEW item, NEW result \in {"sent", "barred", "error"},
           Done(r, result), result = "sent" => Accepted(item.to, item.template)',
           result = "barred" => Barred(item.to, item.template)', NEW c, c = call'[r]
    PROVE  Sends(c, item)'
  <1>1. c.pc = result
    BY CallFacts DEF Done, NoCall
  <1> QED BY <1>1 DEF Sends, SendPoints
LEMMA SendsOn ==
    ASSUME MailInv, NEW r \in Requests, MailStep(r), NEW item, Sends(call[r], item),
           NEW c, c = call'[r]
    PROVE  Sends(c, item)'
  <1>1. SendStep(r) /\ ~CheckKey(r) /\ call[r].pc \in SendPoints
    BY DEF Sends, SendPoints, MailStep, SendStep, RetryStep, HookStep, CheckSuppression, Bar,
       CheckKey, CreateLog, Deliver, RecordAcceptance, RecordRefusal, RecordFailure, Record,
       RetrySuppression, RetryMark, RetrySend, RetryAccepted, RetryRefused, RetryFailed,
       HookCreate, HookUpdate, HookSuppress, MailAt
  <1>2. MailsGrow
    BY <1>1, SendGrows
  <1> DEFINE m == call[r].mail
  <1>3. /\ m.to = item.to /\ m.template = item.template /\ m.key = NoKey
        /\ DOMAIN m = {"to", "template", "key", "bypass"}
    BY <1>1 DEF Sends
  <1>4. AfterSuppression(m) = "log" /\ "log" \in SendPoints \ {"accepted"}
        /\ {"bar", "send", "refused", "failed"} \subseteq SendPoints \ {"accepted"}
    BY <1>3 DEF AfterSuppression, SendPoints
  <1>5. DOMAIN call = Requests /\ DOMAIN call[r] = CallFields
    BY CallFacts DEF GoodCall
  <1>6. CASE CheckSuppression(r)
    <2>1. Goto(r, "bar") \/ Goto(r, "log")
      BY <1>4, <1>6 DEF CheckSuppression, Fault
    <2> QED BY <1>1, <1>4, <2>1, GotoSends
  <1>7. CASE Bar(r)
    <2>1. CASE /\ Create([NewLog([m EXCEPT !.key = NoKey], "FAILED") EXCEPT !.barred = TRUE])
               /\ Done(r, "barred")
      <3>1. Barred(item.to, item.template)'
        <4>1. \A new : Create(new) => Len(logs) + 1 \in DOMAIN logs' /\ logs'[Len(logs) + 1] = new
          BY SeqAndOne DEF MailInv, Create
        <4> DEFINE new == [NewLog([m EXCEPT !.key = NoKey], "FAILED") EXCEPT !.barred = TRUE]
        <4>2. new.barred /\ new.mail = [m EXCEPT !.key = NoKey]
          BY DEF NewLog
        <4>3. new.mail.to = item.to /\ new.mail.template = item.template
          BY <1>3, <4>2
        <4> HIDE DEF new
        <4> QED BY <2>1, <4>1, <4>2, <4>3 DEF Barred, new
      <3> QED BY <2>1, <3>1, DoneSends
    <2>2. CASE Goto(r, "log")
      BY <1>1, <1>4, <2>2, GotoSends
    <2> QED BY <1>4, <1>7, <2>1, <2>2 DEF Bar, Fault
  <1>8. CASE CreateLog(r)
    <2>1. CASE call' = [call EXCEPT ![r].pc = "send", ![r].log = Len(logs) + 1]
      <3>1. c.pc = "send" /\ c.mail = m
        BY <1>5, <2>1 DEF CallFields
      <3> QED BY <1>3, <3>1 DEF Sends, SendPoints
    <2>2. CASE Goto(r, "send")
      BY <1>1, <1>4, <2>2, GotoSends
    <2> QED BY <1>8, <2>1, <2>2 DEF CreateLog, Fault
  <1>9. CASE Deliver(r)
    <2>1. CASE /\ Accepts(m)
               /\ call' = [call EXCEPT ![r].pc = "accepted",
                                       ![r].event = Answer(Len(accepted) + 1)]
      <3>1. c.pc = "accepted" /\ c.mail = m
        BY <1>5, <2>1 DEF CallFields
      <3>2. Accepted(item.to, item.template)'
        <4>1. IsSeq(accepted) /\ accepted' = Append(accepted, m)
          BY <2>1 DEF MailInv, Accepts
        <4>2. Len(accepted) + 1 \in DOMAIN accepted' /\ accepted'[Len(accepted) + 1] = m
          BY <4>1, SeqAndOne
        <4> QED BY <1>3, <4>2 DEF Accepted
      <3> QED BY <1>3, <3>1, <3>2 DEF Sends, SendPoints
    <2>2. CASE Goto(r, "refused") \/ Goto(r, "failed")
      BY <1>1, <1>4, <2>2, GotoSends
    <2> QED BY <1>9, <2>1, <2>2 DEF Deliver, Provides
  <1>10. CASE RecordAcceptance(r)
    <2>1. Done(r, "sent") /\ call[r].pc = "accepted"
      BY <1>10 DEF RecordAcceptance, Record, Fault, MailAt
    <2>2. Accepted(item.to, item.template)'
      BY <1>2, <2>1 DEF Sends, MailsGrow
    <2> QED BY <2>1, <2>2, DoneSends
  <1>11. CASE RecordRefusal(r)
    <2>1. Goto(r, "failed")
      BY <1>11 DEF RecordRefusal, Record, Fault
    <2> QED BY <1>1, <1>4, <2>1, GotoSends
  <1>12. CASE RecordFailure(r)
    <2>1. Done(r, "error")
      BY <1>12 DEF RecordFailure, Record, Fault
    <2> QED BY <2>1, DoneSends
  <1> QED BY <1>1, <1>6, <1>7, <1>8, <1>9, <1>10, <1>11, <1>12 DEF SendStep

-----------------------------------------------------------------------------
(* Requests and rows                                                       *)

\* Requests that have not begun to send, or that are over.
LEMMA GoodEnded ==
    ASSUME NEW op, NEW pc \in Final, NEW c
    PROVE  GoodTask(Ended(op, pc), c)
  BY GoodOne DEF GoodTask, Ended, NewTask, TaskFields, Final, Mailing
LEMMA GoodNewTask ==
    ASSUME NEW t, DOMAIN t = TaskFields, t.todo = <<>>, t.pc \notin {"next", "mailing", "record"},
           NEW c
    PROVE  GoodTask(t, c)
  BY GoodOne DEF GoodTask, Mailing
LEMMA GoodSending ==
    ASSUME NEW t, DOMAIN t = TaskFields, NEW todo, GoodTodo(todo), NEW c
    PROVE  GoodTask(Sending(t, todo), c)
  <1>1. CASE todo # <<>>
    BY <1>1 DEF GoodTask, Sending, TaskFields, Mailing
  <1>2. CASE todo = <<>> /\ AfterMails(t.op) = "ok"
    BY <1>2, GoodEnded DEF Sending, Final
  <1>3. CASE todo = <<>> /\ AfterMails(t.op) # "ok"
    <2>1. Sending(t, todo) = [t EXCEPT !.pc = "set", !.todo = <<>>]
      BY <1>3 DEF Sending
    <2> QED BY <2>1, GoodOne DEF GoodTask, TaskFields, Mailing
  <1> QED BY <1>1, <1>2, <1>3

\* A request that goes on.
LEMMA TaskFacts ==
    ASSUME InviteInv, NEW r \in Requests
    PROVE  /\ GoodTask(task[r], call[r]) /\ DOMAIN task = Requests
           /\ DOMAIN task[r] = TaskFields /\ GoodTodo(task[r].todo)
  BY DEF InviteInv, Doing, GoodTask

Quits(r) == \E t : task' = [task EXCEPT ![r] = t] /\ \A c : GoodTask(t, c)
LEMMA ContinueQuits ==
    ASSUME InviteInv, NEW r \in Requests
    PROVE  /\ \A todo : GoodTodo(todo) /\ Continue(r, todo) => Quits(r)
           /\ \A pc \in Final : Finish(r, pc) => Quits(r)
           /\ task[r].todo # <<>> /\ FailItem(r) => Quits(r)
  <1>1. ASSUME NEW todo, GoodTodo(todo), Continue(r, todo) PROVE Quits(r)
    BY <1>1, TaskFacts, GoodSending DEF Continue, Quits
  <1>2. ASSUME NEW pc \in Final, Finish(r, pc) PROVE Quits(r)
    BY <1>2, GoodEnded DEF Finish, Quits
  <1>3. ASSUME task[r].todo # <<>>, FailItem(r) PROVE Quits(r)
    <2>1. GoodTodo(Tail(task[r].todo)) /\ GoodTodo(AfterTester(task[r].todo))
      BY <1>3, TaskFacts, GoodTail
    <2> QED BY <1>1, <1>2, <1>3, <2>1 DEF FailItem, Final
  <1> QED BY <1>1, <1>2, <1>3
LEMMA BeginQuits ==
    ASSUME NEW r \in Requests, NEW new, Begin(r, new), \A c : GoodTask(new, c)
    PROVE  Quits(r)
  <1>1. CASE new.pc \in Final
    BY <1>1, GoodEnded DEF Begin, Quits
  <1>2. CASE new.pc \notin Final
    BY <1>2 DEF Begin, Quits
  <1> QED BY <1>1, <1>2
LEMMA GoodKnows ==
    ASSUME NEW op, NEW pc
    PROVE  /\ DOMAIN New(op, pc) = TaskFields /\ New(op, pc).todo = <<>> /\ New(op, pc).pc = pc
           /\ New(op, pc).op = op
           /\ \A x : /\ DOMAIN Knows(op, pc, x) = TaskFields /\ Knows(op, pc, x).todo = <<>>
                     /\ Knows(op, pc, x).pc = pc /\ Knows(op, pc, x).op = op
  BY DEF New, Knows, NewTask, TaskFields

\* A step of one request that leaves the others alone.
LEMMA OneTask ==
    ASSUME InviteInv, TestersKept, InvitesKept, MailsGrow, GoodTesters', NEW r \in Requests,
           Quits(r), \A q \in Requests \ {r} : call'[q] = call[q]
    PROVE  InviteInv'
  <1>1. PICK t : task' = [task EXCEPT ![r] = t] /\ \A c : GoodTask(t, c)
    BY DEF Quits
  <1>2. DOMAIN task = Requests
    BY DEF InviteInv
  <1>3. DOMAIN task' = Requests /\ task'[r] = t /\ \A q \in Requests \ {r} : task'[q] = task[q]
    BY <1>1, <1>2
  <1>4. \A c : GoodTask(t, c)'
    BY <1>1, GoodTaskLater
  <1>5. \A tt, c : Doing(r, tt, c)' => GoodTask(tt, c)'
    BY <1>3, <1>4 DEF Doing
  <1> QED BY <1>3, <1>5, InviteKept

\* A step that leaves the rows alone.
LEMMA SameTesters ==
    ASSUME InviteInv, tester' = tester
    PROVE  TestersKept /\ InvitesKept /\ GoodTesters'
  BY DEF InviteInv, GoodTesters, TestersKept, InvitesKept, Used, There

\* A step that writes one row, the address of which stays: it invites no one, it invites
\* whoever was mailed, it creates the row, or it deletes it.
LEMMA OneTester ==
    ASSUME InviteInv, NEW x, DOMAIN tester' = Rows,
           \A y \in Rows \ {x} : tester'[y] = tester[y],
           x \in Rows =>
             /\ DOMAIN tester'[x] = TesterFields /\ DOMAIN tester'[x].invite = Platforms
             /\ \/ /\ There(x) /\ tester'[x].there /\ tester'[x].to = tester[x].to
                   /\ \A p \in Platforms : tester'[x].invite[p] = "INVITED" =>
                         \/ tester[x].invite[p] = "INVITED"
                         \/ \E a : /\ a = tester'[x].to
                                   /\ Accepted(a, Template(p))' \/ Barred(a, Template(p))'
                \/ ~Used(x) /\ \A p \in Platforms : tester'[x].invite[p] # "INVITED"
                \/ ~tester'[x].there /\ tester'[x].unsub
    PROVE  TestersKept /\ InvitesKept /\ GoodTesters'
  <1>1. GoodTesters
    BY DEF InviteInv
  <1>2. ASSUME NEW y \in Rows \ {x} PROVE tester'[y] = tester[y]
    OBVIOUS
  <1>3. TestersKept
    BY <1>2 DEF TestersKept, Used, There
  <1>4. InvitesKept
    BY <1>2 DEF InvitesKept, Used, There
  <1>5. GoodTesters'
    BY <1>1, <1>2 DEF GoodTesters
  <1> QED BY <1>3, <1>4, <1>5

\* A row of which no invitation is recorded.
LEMMA InvitesNobody ==
    ASSUME InviteInv, NEW x, There(x), DOMAIN tester' = Rows,
           \A y \in Rows \ {x} : tester'[y] = tester[y],
           NEW invite, DOMAIN invite = Platforms,
           \A p \in Platforms : invite[p] = "INVITED" => tester[x].invite[p] = "INVITED",
           x \in Rows => /\ DOMAIN tester'[x] = TesterFields /\ tester'[x].invite = invite
                         /\ tester'[x].there = tester[x].there /\ tester'[x].to = tester[x].to
    PROVE  TestersKept /\ InvitesKept /\ GoodTesters'
  <1>1. GoodTesters /\ \A y \in Rows : y # x => tester'[y] = tester[y]
    BY DEF InviteInv
  <1>2. TestersKept
    BY <1>1 DEF TestersKept, Used, There
  <1>3. InvitesKept
    BY <1>1 DEF InvitesKept, There
  <1>4. GoodTesters'
    BY <1>1 DEF GoodTesters
  <1> QED BY <1>2, <1>3, <1>4

-----------------------------------------------------------------------------
(* The handlers of the programme                                           *)

\* A step of a handler: it quits, or goes on to send, and the mails are as they were.
LEMMA SameMails ==
    ASSUME logs' = logs, accepted' = accepted
    PROVE  MailsGrow
  BY DEF MailsGrow, Accepted, Barred
LEMMA StartsKeep ==
    ASSUME InviteInv, NEW r \in Requests, NEW new, Starts(r, new), \A c : GoodTask(new, c)
    PROVE  InviteInv'
  <1>1. Quits(r) /\ UNCHANGED <<logs, accepted, call, tester>>
    BY BeginQuits DEF Starts, mail
  <1> QED BY <1>1, SameTesters, SameMails, OneTask
LEMMA SetsOut ==
    ASSUME InviteInv, NEW r \in Requests, NEW t, DOMAIN t = TaskFields, NEW todo, GoodTodo(todo),
           Starts(r, Sending(t, todo))
    PROVE  InviteInv'
  BY GoodSending, StartsKeep

LEMMA RegisterKeeps ==
    ASSUME InviteInv, NEW r \in Requests, NEW a, NEW P, RegisterRead(r, a, P)
    PROVE  InviteInv'
  <1> DEFINE create == [New("register", "create") EXCEPT !.to = a, !.platforms = P]
  <1>1. \A c : GoodTask(create, c)
    <2>1. DOMAIN create = TaskFields /\ create.todo = <<>> /\ create.pc = "create"
      BY DEF New, NewTask, TaskFields
    <2> HIDE DEF create
    <2> QED BY <2>1, GoodNewTask
  <1>2. \A c : GoodTask(New("register", "failed"), c)
    BY GoodKnows, GoodNewTask
  <1>3. ASSUME NEW x, NEW c PROVE GoodTask([Knows("register", "rejoin", x) EXCEPT !.platforms = P], c)
    <2> DEFINE t == [Knows("register", "rejoin", x) EXCEPT !.platforms = P]
    <2>1. DOMAIN t = TaskFields /\ t.todo = <<>> /\ t.pc = "rejoin"
      BY DEF Knows, New, NewTask, TaskFields
    <2> HIDE DEF t
    <2>2. GoodTask(t, c)
      BY <2>1, GoodNewTask
    <2> QED BY <2>2 DEF t
  <1> HIDE DEF create
  <1>4. CASE Fault(r, Begin(r, create) /\ UNCHANGED <<call, tester, config>>)
    <2>1. Quits(r) /\ UNCHANGED <<logs, accepted, call, tester>>
      BY <1>1, <1>4, BeginQuits DEF Fault
    <2> QED BY <2>1, SameTesters, SameMails, OneTask
  <1> QED BY <1>1, <1>2, <1>3, <1>4, StartsKeep DEF RegisterRead, create

LEMMA ReadsKeep ==
    ASSUME InviteInv, NEW r \in Requests, NEW x \in Rows, NEW P \in SUBSET Platforms,
           \/ UnsubscribeRead(r, x) \/ Resend(r, x) \/ PlatformsRead(r, x, P)
           \/ \E p \in Platforms : InviteOne(r, x, p)
           \/ \E s \in TesterStatuses : StatusCall(r, x, s)
    PROVE  InviteInv'
  <1>1. CASE UnsubscribeRead(r, x)
    <2> DEFINE t == Knows("unsubscribe", "write", x)
    <2>1. DOMAIN t = TaskFields /\ t.todo = <<>> /\ t.pc = "write"
      BY DEF Knows, New, NewTask, TaskFields
    <2>2. Starts(r, t)
      BY <1>1 DEF UnsubscribeRead
    <2> HIDE DEF t
    <2>3. \A c : GoodTask(t, c)
      BY <2>1, GoodNewTask
    <2> QED BY <2>2, <2>3, StartsKeep
  <1>2. CASE PlatformsRead(r, x, P)
    <2> DEFINE t == [Knows("platforms", "write", x) EXCEPT !.platforms = P]
    <2>1. DOMAIN t = TaskFields /\ t.todo = <<>> /\ t.pc = "write"
      BY DEF Knows, New, NewTask, TaskFields
    <2>2. Starts(r, t)
      BY <1>2 DEF PlatformsRead
    <2> HIDE DEF t
    <2>3. \A c : GoodTask(t, c)
      BY <2>1, GoodNewTask
    <2> QED BY <2>2, <2>3, StartsKeep
  <1>3. ASSUME There(x), NEW todo \in Invitations({x}, Platforms) PROVE GoodTodo(todo)
    BY <1>3, GoodInvitations
  <1>4. CASE Resend(r, x)
    BY <1>3, <1>4, GoodKnows, SetsOut DEF Resend
  <1>5. ASSUME NEW p \in Platforms, InviteOne(r, x, p) PROVE InviteInv'
    <2>1. GoodTodo(<<Invitation(x, p)>>)
      BY <1>5, GoodInvitation, GoodOne DEF InviteOne
    <2>2. DOMAIN Knows("invite", "next", x) = TaskFields
      BY GoodKnows
    <2>3. Starts(r, Sending(Knows("invite", "next", x), <<Invitation(x, p)>>))
      BY <1>5 DEF InviteOne
    <2> QED BY <2>1, <2>2, <2>3, SetsOut
  <1>6. ASSUME NEW s \in TesterStatuses, StatusCall(r, x, s) PROVE InviteInv'
    <2> DEFINE t == [Knows("status", "set", x) EXCEPT !.status = s]
    <2>1. DOMAIN t = TaskFields /\ t.todo = <<>> /\ t.pc = "set"
      BY DEF Knows, New, NewTask, TaskFields
    <2> HIDE DEF t
    <2>2. CASE Starts(r, t)
      <3>1. \A c : GoodTask(t, c)
        BY <2>1, GoodNewTask
      <3> QED BY <2>2, <3>1, StartsKeep
    <2>3. ASSUME There(x), NEW todo \in Invitations({x}, Platforms), Starts(r, Sending(t, todo))
          PROVE  InviteInv'
      BY <1>3, <2>1, <2>3, SetsOut
    <2> QED BY <1>6, <2>2, <2>3 DEF StatusCall, t
  <1> QED BY <1>1, <1>2, <1>4, <1>5, <1>6

LEMMA SendsOutKeep ==
    ASSUME InviteInv, NEW r \in Requests, Notify(r) \/ \E P \in SUBSET Platforms : BulkInvite(r, P)
    PROVE  InviteInv'
  <1>1. ASSUME NEW P \in SUBSET Platforms, BulkInvite(r, P) PROVE InviteInv'
    <2>1. \A todo \in Invitations({x \in Rows : There(x)}, P) : GoodTodo(todo)
      BY GoodInvitations
    <2> QED BY <1>1, <2>1, GoodKnows, SetsOut DEF BulkInvite
  <1>2. CASE Notify(r)
    BY <1>2, GoodLetters, GoodKnows, SetsOut DEF Notify
  <1> QED BY <1>1, <1>2

\* The administrator's writes of one row.
LEMMA AdministerKeeps ==
    ASSUME InviteInv, NEW r \in Requests, NEW x \in Rows,
           RemoveTester(r, x) \/ \E s \in TesterStatuses : Mark(r, x, s)
    PROVE  InviteInv'
  <1>0. DOMAIN tester = Rows /\ DOMAIN tester[x] = TesterFields /\ DOMAIN tester[x].invite = Platforms
    BY DEF InviteInv, GoodTesters
  <1>1. Quits(r) /\ UNCHANGED <<logs, accepted, call>>
    BY GoodKnows, GoodNewTask, BeginQuits DEF RemoveTester, Mark, mail
  <1>2. CASE RemoveTester(r, x)
    <2>1. tester'[x] = Gone /\ DOMAIN tester' = Rows
          /\ \A y \in Rows \ {x} : tester'[y] = tester[y]
      BY <1>0, <1>2 DEF RemoveTester
    <2>2. DOMAIN Gone = TesterFields /\ DOMAIN Gone.invite = Platforms /\ ~Gone.there /\ Gone.unsub
      BY DEF Gone, NoTester, NewTester, Wanted, TesterFields
    <2>3. TestersKept /\ InvitesKept /\ GoodTesters'
      BY <2>1, <2>2, OneTester DEF There
    <2> QED BY <1>1, <2>3, SameMails, OneTask
  <1>3. ASSUME NEW s \in TesterStatuses, Mark(r, x, s) PROVE InviteInv'
    <2>1. /\ tester'[x] = [tester[x] EXCEPT !.status = s] /\ DOMAIN tester' = Rows /\ There(x)
          /\ \A y \in Rows \ {x} : tester'[y] = tester[y]
      BY <1>0, <1>3 DEF Mark
    <2>2. TestersKept /\ InvitesKept /\ GoodTesters'
      BY <1>0, <2>1, OneTester DEF There, TesterFields
    <2> QED BY <1>1, <2>2, SameMails, OneTask
  <1> QED BY <1>2, <1>3

LEMMA TesterCallKeeps ==
    ASSUME InviteInv, NEW r \in Requests, TesterCall(r)
    PROVE  InviteInv'
  <1>1. CASE Configure(r)
    <2>1. Quits(r) /\ UNCHANGED <<logs, accepted, call, tester>>
      BY <1>1, GoodKnows, GoodNewTask, BeginQuits DEF Configure, mail
    <2> QED BY <2>1, SameTesters, SameMails, OneTask
  <1> QED BY <1>1, RegisterKeeps, ReadsKeep, SendsOutKeep, AdministerKeeps DEF TesterCall

\* The writes of one row.
LEMMA RegisterCreateKeeps ==
    ASSUME InviteInv, NEW r \in Requests, RegisterCreate(r)
    PROVE  InviteInv'
  <1> DEFINE t == task[r]
             free == ~\E x \in Of(t.to) : tester[x].hash
  <1>1. PICK x : /\ x \in Unused
                 /\ tester' = [tester EXCEPT ![x] =
                                  [NewTester(t.to, t.platforms, Initial) EXCEPT !.hash = free]]
                 /\ Continue(r, Confirmation(x, t.to))
    <2>1. (CHOOSE x \in Unused : TRUE) \in Unused
      BY DEF RegisterCreate
    <2> QED BY <2>1 DEF RegisterCreate
  <1> DEFINE new == [NewTester(t.to, t.platforms, Initial) EXCEPT !.hash = free]
  <1>2. /\ DOMAIN new = TesterFields /\ DOMAIN new.invite = Platforms
        /\ \A p \in Platforms : new.invite[p] # "INVITED"
    BY DEF NewTester, Wanted, TesterFields
  <1>3. x \in Rows /\ ~Used(x)
    BY <1>1 DEF Unused, Used, There, NoTester, NewTester
  <1> HIDE DEF new
  <1>4. DOMAIN tester' = Rows /\ tester'[x] = new /\ \A y \in Rows \ {x} : tester'[y] = tester[y]
    BY <1>1, <1>3 DEF InviteInv, GoodTesters, new
  <1>5. TestersKept /\ InvitesKept /\ GoodTesters'
    BY <1>2, <1>3, <1>4, OneTester
  <1>6. GoodTodo(Confirmation(x, t.to))
    <2>1. GoodItem([row |-> x, to |-> t.to, template |-> "CONFIRMATION", platform |-> "none"])
      BY DEF GoodItem
    <2> QED BY <2>1, GoodOne DEF Confirmation
  <1>7. Quits(r) /\ UNCHANGED <<logs, accepted, call>>
    BY <1>1, <1>6, ContinueQuits DEF RegisterCreate, mail
  <1> QED BY <1>5, <1>7, SameMails, OneTask

LEMMA RegisterRejoinKeeps ==
    ASSUME InviteInv, NEW r \in Requests, RegisterRejoin(r)
    PROVE  InviteInv'
  <1> DEFINE x == task[r].row
             P == task[r].platforms
  <1>1. GoodTodo(Confirmation(x, task[r].to))
    <2>1. GoodItem([row |-> x, to |-> task[r].to, template |-> "CONFIRMATION", platform |-> "none"])
      BY DEF GoodItem
    <2> QED BY <2>1, GoodOne DEF Confirmation
  <1>2. Quits(r) /\ UNCHANGED <<logs, accepted, call>>
    BY <1>1, ContinueQuits DEF RegisterRejoin, mail, Final
  <1>3. CASE tester' = tester
    BY <1>2, <1>3, SameTesters, SameMails, OneTask
  <1>4. CASE There(x) /\ tester' = [tester EXCEPT ![x].platforms = P, ![x].status = Initial,
                                        ![x].invite = Wanted(P), ![x].unsub = FALSE]
    <2>0. DOMAIN tester = Rows /\ (x \in Rows => DOMAIN tester[x] = TesterFields)
      BY DEF InviteInv, GoodTesters
    <2>1. DOMAIN tester' = Rows /\ \A y \in Rows \ {x} : tester'[y] = tester[y]
      BY <1>4, <2>0
    <2>2. x \in Rows => tester'[x] = [tester[x] EXCEPT !.platforms = P, !.status = Initial,
                                           !.invite = Wanted(P), !.unsub = FALSE]
      BY <1>4, <2>0
    <2> DEFINE invite == Wanted(P)
    <2>3. DOMAIN invite = Platforms /\ \A p \in Platforms : invite[p] # "INVITED"
      BY DEF Wanted
    <2>4. x \in Rows => /\ DOMAIN tester'[x] = TesterFields /\ tester'[x].invite = invite
                        /\ tester'[x].there = tester[x].there /\ tester'[x].to = tester[x].to
      BY <2>0, <2>2 DEF TesterFields
    <2> HIDE DEF invite
    <2>6. There(x)
      BY <1>4
    <2>5. TestersKept /\ InvitesKept /\ GoodTesters'
      BY <2>1, <2>3, <2>4, <2>6, InvitesNobody
    <2> QED BY <1>2, <2>5, SameMails, OneTask
  <1> QED BY <1>3, <1>4 DEF RegisterRejoin

LEMMA PlatformsWriteKeeps ==
    ASSUME InviteInv, NEW r \in Requests, PlatformsWrite(r)
    PROVE  InviteInv'
  <1> DEFINE t == task[r]
             x == t.row
             invite == [p \in Platforms |->
                           IF p \notin t.platforms THEN "NOT_REQUESTED"
                           ELSE IF t.seen.invite[p] = "NOT_REQUESTED" THEN "PENDING"
                           ELSE tester[t.row].invite[p]]
  <1>2. Quits(r) /\ UNCHANGED <<logs, accepted, call>>
    BY ContinueQuits DEF PlatformsWrite, mail, Final
  <1>3. CASE tester' = tester
    BY <1>2, <1>3, SameTesters, SameMails, OneTask
  <1>4. CASE There(x) /\ tester' = [tester EXCEPT ![x].platforms = t.platforms, ![x].invite = invite]
    <2>0. DOMAIN tester = Rows /\ (x \in Rows => DOMAIN tester[x] = TesterFields)
      BY DEF InviteInv, GoodTesters
    <2>3. /\ DOMAIN invite = Platforms
          /\ \A p \in Platforms : invite[p] = "INVITED" => tester[x].invite[p] = "INVITED"
      OBVIOUS
    <2> HIDE DEF invite
    <2>1. DOMAIN tester' = Rows /\ \A y \in Rows \ {x} : tester'[y] = tester[y]
      BY <1>4, <2>0
    <2>2. x \in Rows => tester'[x] = [tester[x] EXCEPT !.platforms = t.platforms, !.invite = invite]
      BY <1>4, <2>0
    <2>4. x \in Rows => /\ DOMAIN tester'[x] = TesterFields /\ tester'[x].invite = invite
                        /\ tester'[x].there = tester[x].there /\ tester'[x].to = tester[x].to
      BY <2>0, <2>2 DEF TesterFields
    <2>6. There(x)
      BY <1>4
    <2>5. TestersKept /\ InvitesKept /\ GoodTesters'
      BY <2>1, <2>3, <2>4, <2>6, InvitesNobody
    <2> QED BY <1>2, <2>5, SameMails, OneTask
  <1> QED BY <1>3, <1>4 DEF PlatformsWrite

LEMMA UnsubscribeWriteKeeps ==
    ASSUME InviteInv, NEW r \in Requests, UnsubscribeWrite(r)
    PROVE  InviteInv'
  <1> DEFINE x == task[r].row
             invite == [p \in Platforms |-> "REJECTED"]
  <1>1. GoodTodo(<<Letter(x, "UNSUBSCRIBE_CONFIRMATION")>>) /\ GoodTodo(<<>>)
    BY GoodLetter, GoodOne
  <1>2. Quits(r) /\ UNCHANGED <<logs, accepted, call>>
    BY <1>1, ContinueQuits DEF UnsubscribeWrite, mail, Final
  <1>3. CASE tester' = tester
    BY <1>2, <1>3, SameTesters, SameMails, OneTask
  <1>4. CASE There(x) /\ tester' = [tester EXCEPT ![x].status = "REJECTED", ![x].unsub = TRUE,
                                                  ![x].invite = invite]
    <2>0. DOMAIN tester = Rows /\ (x \in Rows => DOMAIN tester[x] = TesterFields)
      BY DEF InviteInv, GoodTesters
    <2>3. DOMAIN invite = Platforms /\ \A p \in Platforms : invite[p] # "INVITED"
      OBVIOUS
    <2> HIDE DEF invite
    <2>1. DOMAIN tester' = Rows /\ \A y \in Rows \ {x} : tester'[y] = tester[y]
      BY <1>4, <2>0
    <2>2. x \in Rows => tester'[x] = [tester[x] EXCEPT !.status = "REJECTED", !.unsub = TRUE,
                                                       !.invite = invite]
      BY <1>4, <2>0
    <2>4. x \in Rows => /\ DOMAIN tester'[x] = TesterFields /\ tester'[x].invite = invite
                        /\ tester'[x].there = tester[x].there /\ tester'[x].to = tester[x].to
      BY <2>0, <2>2 DEF TesterFields
    <2>6. There(x)
      BY <1>4
    <2>5. TestersKept /\ InvitesKept /\ GoodTesters'
      BY <2>1, <2>3, <2>4, <2>6, InvitesNobody
    <2> QED BY <1>2, <2>5, SameMails, OneTask
  <1> QED BY <1>3, <1>4 DEF UnsubscribeWrite

LEMMA StatusSetKeeps ==
    ASSUME InviteInv, NEW r \in Requests, StatusSet(r)
    PROVE  InviteInv'
  <1> DEFINE x == task[r].row
  <1>2. Quits(r) /\ UNCHANGED <<logs, accepted, call>>
    BY ContinueQuits DEF StatusSet, Final
  <1>3. CASE tester' = tester
    BY <1>2, <1>3, SameTesters, SameMails, OneTask
  <1>4. CASE There(x) /\ tester' = [tester EXCEPT ![x].status = task[r].status]
    <2>0. DOMAIN tester = Rows /\ (x \in Rows => /\ DOMAIN tester[x] = TesterFields
                                                 /\ DOMAIN tester[x].invite = Platforms)
      BY DEF InviteInv, GoodTesters
    <2>1. DOMAIN tester' = Rows /\ \A y \in Rows \ {x} : tester'[y] = tester[y]
      BY <1>4, <2>0
    <2>2. x \in Rows => tester'[x] = [tester[x] EXCEPT !.status = task[r].status]
      BY <1>4, <2>0
    <2>4. x \in Rows => /\ DOMAIN tester'[x] = TesterFields /\ tester'[x].invite = tester[x].invite
                        /\ tester'[x].there = tester[x].there /\ tester'[x].to = tester[x].to
      BY <2>0, <2>2 DEF TesterFields
    <2>5. TestersKept /\ InvitesKept /\ GoodTesters'
      BY <1>4, <2>0, <2>1, <2>4, OneTester DEF There
    <2> QED BY <1>2, <2>5, SameMails, OneTask
  <1> QED BY <1>3, <1>4 DEF StatusSet

-----------------------------------------------------------------------------
(* Sending, recording, and the theorem on the invitations                  *)

\* What a request sends next.
LEMMA NextItem ==
    ASSUME InviteInv, NEW r \in Requests, task[r].pc \in {"next", "record"} \/ Mailing(task[r])
    PROVE  /\ task[r].todo # <<>> /\ GoodItem(Head(task[r].todo))
           /\ GoodTodo(Tail(task[r].todo))
           /\ Mailing(task[r]) => Sends(call[r], Head(task[r].todo))
           /\ task[r].pc = "record" => /\ Served(Head(task[r].todo))
                                       /\ Head(task[r].todo).platform # "none"
  BY TaskFacts, GoodTail DEF GoodTask

LEMMA SendNextKeeps ==
    ASSUME InviteInv, MailInv, NEW r \in Requests, SendNext(r)
    PROVE  InviteInv'
  <1> DEFINE item == Head(task[r].todo)
  <1>1. task[r].todo # <<>> /\ task[r].pc = "next"
    BY NextItem DEF SendNext
  <1>2. TestersKept /\ InvitesKept /\ GoodTesters'
    BY SameTesters DEF SendNext
  <1>3. CASE FailItem(r) /\ UNCHANGED mail
    <2>1. Quits(r) /\ UNCHANGED <<logs, accepted, call>>
      BY <1>1, <1>3, ContinueQuits DEF mail
    <2> QED BY <1>2, <2>1, SameMails, OneTask
  <1>4. CASE Invoke(r, Sent(item)) /\ task' = [task EXCEPT ![r].pc = "mailing"]
    <2>1. logs' = logs /\ accepted' = accepted /\ OnlyCall(r)
      BY <1>4, OnlyOneCall DEF Invoke, Quiet
    <2>2. MailsGrow
      BY <2>1, SameMails
    <2>3. ASSUME NEW t, NEW c, Doing(r, t, c)' PROVE GoodTask(t, c)'
      <3>1. /\ c.mail = Sent(item) /\ c.pc = IF item.template = "UNSUBSCRIBE_CONFIRMATION"
                                            THEN "log" ELSE "suppression"
        BY <1>4, <2>3, CallFacts DEF Doing, Invoke, Enter, NoCall, Sent, AfterSuppression
      <3>2. Sends(c, item)
        BY <3>1 DEF Sends, SendPoints, Sent
      <3>3. t.pc = "mailing" /\ t.todo = task[r].todo /\ DOMAIN t = TaskFields
        BY <1>4, <2>3, TaskFacts DEF Doing, TaskFields
      <3>4. GoodTask(t, c)
        BY <1>1, <3>2, <3>3, TaskFacts DEF GoodTask
      <3> QED BY <1>2, <2>2, <3>4, GoodTaskLater
    <2>4. DOMAIN task' = Requests /\ \A q \in Requests \ {r} : task'[q] = task[q]
      BY <1>4, TaskFacts
    <2> QED BY <1>2, <2>1, <2>2, <2>3, <2>4, InviteKept DEF OnlyCall
  <1> QED BY <1>3, <1>4 DEF SendNext

LEMMA MailedKeeps ==
    ASSUME InviteInv, MailInv, NEW r \in Requests, Mailed(r)
    PROVE  InviteInv'
  <1> DEFINE todo == task[r].todo
  <1>1. task[r].pc = "mailing" /\ logs' = logs /\ accepted' = accepted /\ tester' = tester
    BY DEF Mailed, rest
  <1>2. \A q \in Requests \ {r} : call'[q] = call[q]
    BY CallFacts DEF Mailed
  <1>3. TestersKept /\ InvitesKept /\ GoodTesters' /\ MailsGrow
    BY <1>1, SameTesters, SameMails
  <1>4. CASE task[r].op \in MailCalls
    <2>1. Quits(r)
      BY <1>4, ContinueQuits DEF Mailed, Final
    <2> QED BY <1>2, <1>3, <2>1, OneTask
  <1>5. CASE task[r].op \notin MailCalls
    <2>1. Mailing(task[r])
      BY <1>1, <1>5 DEF Mailing
    <2>2. todo # <<>> /\ GoodTodo(Tail(todo)) /\ Sends(call[r], Head(todo))
      BY <2>1, NextItem
    <2>3. CASE call[r].pc = "error"
      <3>1. FailItem(r)
        BY <1>5, <2>3 DEF Mailed
      <3> QED BY <1>2, <1>3, <2>2, <3>1, ContinueQuits, OneTask
    <2>4. CASE call[r].pc # "error" /\ Head(todo).platform = "none"
      <3>1. Continue(r, Tail(todo))
        BY <1>5, <2>4 DEF Mailed
      <3> QED BY <1>2, <1>3, <2>2, <3>1, ContinueQuits, OneTask
    <2>5. CASE call[r].pc # "error" /\ Head(todo).platform # "none"
      <3> DEFINE t == [task[r] EXCEPT !.pc = "record"]
      <3>1. task' = [task EXCEPT ![r] = t]
        BY <1>5, <2>5 DEF Mailed
      <3>2. call[r].pc \in {"sent", "barred"}
        BY <2>2, <2>5 DEF Mailed, Answered, Results, Sends, SendPoints
      <3>3. Served(Head(todo))
        BY <2>2, <3>2 DEF Sends, Served
      <3>4. DOMAIN t = TaskFields /\ t.pc = "record" /\ t.todo = todo /\ GoodTodo(todo)
        BY TaskFacts DEF TaskFields
      <3> HIDE DEF t
      <3>5. \A c : GoodTask(t, c)
        BY <2>2, <2>5, <3>3, <3>4 DEF GoodTask, Mailing
      <3>6. Quits(r)
        BY <3>1, <3>5 DEF Quits
      <3> QED BY <1>2, <1>3, <3>6, OneTask
    <2> QED BY <2>3, <2>4, <2>5
  <1> QED BY <1>4, <1>5

LEMMA RecordInviteKeeps ==
    ASSUME InviteInv, NEW r \in Requests, RecordInvite(r)
    PROVE  InviteInv'
  <1> DEFINE item == Head(task[r].todo)
  <1>1. task[r].todo # <<>> /\ GoodItem(item) /\ GoodTodo(Tail(task[r].todo)) /\ Served(item)
        /\ item.platform # "none"
    BY NextItem DEF RecordInvite
  <1>2. Quits(r) /\ UNCHANGED <<logs, accepted, call>>
    BY <1>1, ContinueQuits DEF RecordInvite, mail
  <1>3. CASE tester' = tester
    BY <1>2, <1>3, SameTesters, SameMails, OneTask
  <1>4. CASE /\ There(item.row)
             /\ tester' = [tester EXCEPT ![item.row].status = "INVITED",
                                         ![item.row].invite[item.platform] = "INVITED"]
    <2>1. PICK x, q, a : x = item.row /\ q = item.platform /\ a = item.to
      OBVIOUS
    <2>2. /\ x \in Rows /\ q \in Platforms /\ There(x) /\ tester[x].to = a
          /\ Accepted(a, Template(q)) \/ Barred(a, Template(q))
      BY <1>1, <1>4, <2>1 DEF GoodItem, Served
    <2>3. DOMAIN tester = Rows /\ DOMAIN tester[x] = TesterFields
          /\ DOMAIN tester[x].invite = Platforms
      BY <2>2 DEF InviteInv, GoodTesters
    <2>4. DOMAIN tester' = Rows /\ \A y \in Rows \ {x} : tester'[y] = tester[y]
      BY <1>4, <2>1, <2>3
    <2>5. tester'[x] = [tester[x] EXCEPT !.status = "INVITED", !.invite[q] = "INVITED"]
      BY <1>4, <2>1, <2>2, <2>3
    <2>6. /\ DOMAIN tester'[x] = TesterFields /\ tester'[x].there = tester[x].there
          /\ tester'[x].to = a /\ tester'[x].invite = [tester[x].invite EXCEPT ![q] = "INVITED"]
      BY <2>2, <2>3, <2>5 DEF TesterFields
    <2>7. Accepted(a, Template(q))' \/ Barred(a, Template(q))'
      BY <1>2, <2>2, SameMails DEF MailsGrow
    <2>8. TestersKept /\ InvitesKept /\ GoodTesters'
      BY <2>2, <2>3, <2>4, <2>6, <2>7, OneTester DEF There
    <2> QED BY <1>2, <2>8, SameMails, OneTask
  <1> QED BY <1>3, <1>4 DEF RecordInvite

LEMMA MailStepKeeps ==
    ASSUME InviteInv, MailInv, NEW r \in Requests, MailStep(r), UNCHANGED <<tester, config, task>>
    PROVE  InviteInv'
  <1>1. MailsGrow /\ OnlyCall(r)
    BY SendGrows, RetryGrows, HookGrows DEF MailStep
  <1>2. TestersKept /\ InvitesKept /\ GoodTesters'
    BY SameTesters
  <1>3. ASSUME NEW t, NEW c, Doing(r, t, c)' PROVE GoodTask(t, c)'
    <2>1. t = task[r] /\ c = call'[r] /\ GoodTask(t, call[r])
      BY <1>3, TaskFacts DEF Doing
    <2>2. GoodTask(t, call[r]) => /\ DOMAIN t = TaskFields /\ GoodTodo(t.todo)'
      BY <1>2, GoodItemLater DEF GoodTask, GoodTodo
    <2>3. Mailing(t) => Sends(c, Head(t.todo))'
      BY <2>1, SendsOn DEF GoodTask
    <2>4. t.pc = "record" => Served(Head(t.todo))' /\ Head(t.todo).platform # "none"
      BY <1>1, <2>1 DEF GoodTask, Served, MailsGrow
    <2> QED BY <2>1, <2>2, <2>3, <2>4 DEF GoodTask
  <1> QED BY <1>1, <1>2, <1>3, InviteKept, TaskFacts DEF OnlyCall, InviteInv

LEMMA MailCallKeeps ==
    ASSUME InviteInv, MailInv, NEW r \in Requests, MailCall(r)
    PROVE  InviteInv'
  <1>1. ASSUME NEW op \in MailCalls, NEW pc \in {"ok", "mailing"}, NEW c
        PROVE  GoodTask(New(op, pc), c)
    BY <1>1, GoodOne DEF GoodTask, New, NewTask, TaskFields, Mailing
  <1>2. Quits(r)
    BY <1>1, BeginQuits DEF MailCall, MailCalls
  <1>3. UNCHANGED <<logs, accepted, tester>> /\ (OnlyCall(r) \/ call' = call)
    BY OnlyOneCall DEF MailCall, Invoke, Retry, Hook, Unsuppress, Quiet
  <1> QED BY <1>2, <1>3, SameTesters, SameMails, OneTask DEF OnlyCall

LEMMA CrashKeeps ==
    ASSUME InviteInv, NEW S \in SUBSET Requests, Crash(S)
    PROVE  InviteInv'
  <1>1. TestersKept /\ InvitesKept /\ GoodTesters' /\ MailsGrow /\ DOMAIN task' = Requests
    BY SameTesters, SameMails DEF Crash
  <1>2. ASSUME NEW q \in Requests
        PROVE  \/ task'[q] = task[q] /\ call'[q] = call[q]
               \/ \A t, c : Doing(q, t, c)' => GoodTask(t, c)'
    <2>1. CASE q \notin S
      BY <2>1 DEF Crash
    <2>2. CASE q \in S
      <3>1. ASSUME NEW t, NEW c, Doing(q, t, c)' PROVE GoodTask(t, c)'
        <4>1. t = Ended(task[q].op, "failed")
          BY <2>2, <3>1 DEF Crash, Doing
        <4>2. GoodTask(t, c)
          BY <4>1, GoodEnded DEF Final
        <4> QED BY <1>1, <4>2, GoodTaskLater
      <3> QED BY <3>1
    <2> QED BY <2>1, <2>2
  <1> QED BY <1>1, <1>2, InviteKept

LEMMA PassesKeeps ==
    ASSUME InviteInv, MailInv, NEW i, Wait(i) \/ Cool(i), UNCHANGED <<tester, config, task>>
    PROVE  InviteInv'
  <1>1. i \in DOMAIN logs /\ UNCHANGED <<accepted, call>> /\ DOMAIN logs[i] = LogFields
    BY DEF Wait, Cool, Quiet, MailInv, GoodLogs, GoodLog
  <1> DEFINE old == [logs[i] EXCEPT !.young = FALSE]
             new == [logs[i] EXCEPT !.young = FALSE, !.hot = FALSE]
  <1>2. /\ old.mail = logs[i].mail /\ old.barred = logs[i].barred
        /\ new.mail = logs[i].mail /\ new.barred = logs[i].barred
    BY <1>1 DEF LogFields
  <1>3. SetLog(i, old) \/ SetLog(i, new)
    BY DEF Wait, Cool
  <1> HIDE DEF old, new
  <1>4. MailsGrow
    BY <1>1, <1>2, <1>3, Grow DEF MailsKept
  <1> QED BY <1>1, <1>4, SameTesters, InviteKept DEF InviteInv

LEMMA TesterStepKeeps ==
    ASSUME InviteInv, MailInv, NEW r \in Requests, TesterStep(r)
    PROVE  InviteInv'
  BY RegisterCreateKeeps, RegisterRejoinKeeps, PlatformsWriteKeeps, UnsubscribeWriteKeeps,
     SendNextKeeps, MailedKeeps, RecordInviteKeeps, StatusSetKeeps DEF TesterStep

LEMMA InviteInvHolds == Spec => []InviteInv
  <1>1. Init => InviteInv
    <2> SUFFICES ASSUME Init PROVE InviteInv
      OBVIOUS
    <2>1. /\ \A a, P, status : /\ DOMAIN NewTester(a, P, status) = TesterFields
                               /\ NewTester(a, P, status).invite = Wanted(P)
          /\ DOMAIN NoTester = TesterFields /\ NoTester.invite = Wanted({})
          /\ \A P : DOMAIN Wanted(P) = Platforms
                    /\ \A p \in Platforms : Wanted(P)[p] # "INVITED"
      BY DEF NewTester, NoTester, Wanted, TesterFields
    <2>2. DOMAIN tester = Rows /\ \A x \in Rows : /\ DOMAIN tester[x] = TesterFields
                                                  /\ \E P : tester[x].invite = Wanted(P)
      <3>1. PICK row : tester = [x \in Rows |->
                IF \E a \in Known : row[a] = x
                THEN NewTester(CHOOSE a \in Known : row[a] = x, Platforms, "APPROVED")
                ELSE NoTester]
        BY DEF Init
      <3>2. DOMAIN tester = Rows
        BY <3>1
      <3>3. ASSUME NEW x \in Rows
            PROVE  tester[x] = NoTester \/ \E a : tester[x] = NewTester(a, Platforms, "APPROVED")
        BY <3>1
      <3> QED BY <2>1, <3>2, <3>3
    <2>3. GoodTesters /\ InvitedWasMailed
      BY <2>1, <2>2 DEF GoodTesters, InvitedWasMailed
    <2>4. \A c : GoodTask(NewTask, c)
      BY GoodOne DEF GoodTask, NewTask, TaskFields, Mailing
    <2> QED BY <2>3, <2>4 DEF InviteInv, Init, Doing
  <1>2. MailInv /\ InviteInv /\ [Next]_vars => InviteInv'
    <2> SUFFICES ASSUME MailInv, InviteInv, [Next]_vars PROVE InviteInv'
      OBVIOUS
    <2>1. CASE UNCHANGED vars
      <3>1. UNCHANGED <<logs, accepted, call, tester, task>>
        BY <2>1 DEF vars, mail
      <3> QED BY <3>1, SameTesters, SameMails, InviteKept DEF InviteInv
    <2>2. ASSUME NEW r \in Requests, MailCall(r) \/ TesterCall(r) \/ Step(r) PROVE InviteInv'
      BY <2>2, MailCallKeeps, TesterCallKeeps, TesterStepKeeps, MailStepKeeps DEF Step
    <2> QED BY <2>1, <2>2, PassesKeeps, CrashKeeps DEF Next
  <1> QED BY <1>1, <1>2, MailInvHolds, PTL DEF Spec

\* Whoever is recorded as invited to a platform was mailed, or has an address that gets no
\* mail and the log says so, however many invitations, announcements, departures and
\* deletions cross, and whatever query, mail or process fails (beta-testers.service.ts,
\* sendAndroidInvite and sendIosInvite 1425-1490).
THEOREM InvitedWasMailedHolds == Spec => []InvitedWasMailed
  <1>1. InviteInv => InvitedWasMailed
    BY DEF InviteInv
  <1> QED BY <1>1, InviteInvHolds, PTL
=============================================================================
