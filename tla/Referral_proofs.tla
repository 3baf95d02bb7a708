----------------------------- MODULE Referral_proofs -----------------------------
(***************************************************************************)
(* Proofs about Referral for every set of users and requests, whatever     *)
(* operations the instance has and however they interleave.                *)
(***************************************************************************)
EXTENDS Referral, FiniteSetTheorems, TLAPS

\* The requests that carry the row of their referee
Carries(p) == \/ req[p].pc \in {"retryXp", "retryCoins", "commit", "completeCount", "payReferrer",
                                "payReferee", "completeCommit"}
              \/ req[p].pc = "completeRead" /\ req[p].holds

\* A request works for a user, a claim for a referee other than the owner of the code, and
\* only a running transaction holds a row.
Parties(p) ==
    /\ req[p].pc \in Final \cup {"new"} => ~req[p].holds
    /\ req[p].pc \notin Final \cup {"new"} => req[p].user \in Users
    /\ req[p].pc \in {"existing", "retryXp", "retryCoins", "cycle", "create", "welcome"}
          => req[p].owner \in Users \ {req[p].user}
    /\ req[p].pc \in {"welcome", "commit"} => req[p].holds
    /\ req[p].pc = "welcome" => ref[req[p].user] = NoRow

\* The row that a request carries is that of a referral, with the referrer that the table
\* has for it; a request holds a row that is not in the table.
Carried(p) ==
    Carries(p) => /\ req[p].row.status # "NONE"
                  /\ req[p].row.referrer \in Users \ {req[p].user}
                  /\ req[p].user \in Referred => ref[req[p].user].referrer = req[p].row.referrer
                  /\ req[p].user \notin Referred => req[p].holds
                  /\ req[p].pc \in {"retryXp", "retryCoins"} => req[p].user \in Referred

\* What a request will record as awarded has been paid.
Due(p) ==
    /\ Carries(p) => /\ req[p].row.refereeXp => refereePaid[req[p].user] > 0
                     /\ req[p].row.referrerXp => referrerPaid[req[p].user] > 0
    /\ req[p].pc \in {"retryCoins", "completeCommit"} /\ req[p].config.xp
          => refereePaid[req[p].user] > 0
    /\ req[p].pc \in {"payReferee", "completeCommit"} /\ req[p].can
          => referrerPaid[req[p].user] > 0

\* A row is held by one transaction, and one that no referral has is empty.
Exclusive == \A p, q \in Procs : /\ req[p].holds /\ req[q].holds /\ req[p].user = req[q].user
                                 => p = q
Rows == \A u \in Users : ref[u].status = "NONE" => ref[u] = NoRow

RefInv == /\ TypeOK /\ Rows /\ Exclusive /\ RecordedMeansPaid
          /\ \A p \in Procs : Parties(p) /\ Carried(p) /\ Due(p)

-----------------------------------------------------------------------------
(* How a step changes one request                                          *)

Rests == Final \cup {"new"}

LEMMA RequestMoves ==
    ASSUME TypeOK, NEW p \in Procs, NEW x \in Request, req' = [req EXCEPT ![p] = x]
    PROVE  /\ req' \in [Procs -> Request] /\ req'[p] = x
           /\ \A q \in Procs \ {p} : req'[q] = req[q]
  BY DEF TypeOK

LEMMA NewTyped == NewRequest \in Request /\ ~NewRequest.holds /\ NewRequest.pc = "new"
  BY ReferralBounds DEF NewRequest, Request, Row, NoRow, MaybeUser, Final

\* The row that a completion writes
CompletedRow(row, can, rates) ==
    [row EXCEPT !.status = "COMPLETED", !.referrerXp = can,
                !.refereeXp = @ \/ rates.xp, !.refereeCoins = @ \/ rates.coins]
LEMMA CompletedRowTyped ==
    ASSUME NEW row \in Row, NEW can \in BOOLEAN, NEW rates \in Config
    PROVE  /\ CompletedRow(row, can, rates) \in Row
           /\ CompletedRow(row, can, rates).status = "COMPLETED"
           /\ CompletedRow(row, can, rates).referrer = row.referrer
           /\ CompletedRow(row, can, rates).referrerXp = can
           /\ CompletedRow(row, can, rates).refereeXp = (row.refereeXp \/ rates.xp)
  <1> DEFINE xp == row.refereeXp \/ rates.xp
             coins == row.refereeCoins \/ rates.coins
             new == [row EXCEPT !.status = "COMPLETED", !.referrerXp = can,
                                !.refereeXp = xp, !.refereeCoins = coins]
  <1>1. xp \in BOOLEAN /\ coins \in BOOLEAN
    OBVIOUS
  <1>2. new = CompletedRow(row, can, rates)
    BY DEF Row, CompletedRow
  <1>3. new.refereeXp = xp
    BY DEF Row
  <1> HIDE DEF xp, coins
  <1>4. /\ new \in Row /\ new.status = "COMPLETED" /\ new.referrer = row.referrer
        /\ new.referrerXp = can
    BY <1>1 DEF Row
  <1> HIDE DEF new
  <1> QED BY <1>2, <1>3, <1>4 DEF xp

\* A request that ends, and a cron that is done with a referral
LEMMA Finishes ==
    ASSUME TypeOK, NEW p \in Procs, NEW result \in Final, Finish(p, result)
    PROVE  \E x \in Request : req' = [req EXCEPT ![p] = x] /\ x.pc \in Rests /\ ~x.holds
  <1> DEFINE op == IF p = Worker THEN "none" ELSE req[p].op
             pc == IF p = Worker THEN "new" ELSE result
             x == [NewRequest EXCEPT !.op = op, !.pc = pc]
  <1>1. op \in {"none", "claim", "complete"} /\ pc \in Rests
    BY DEF TypeOK, Request, Rests
  <1> HIDE DEF op, pc
  <1>2. x \in Request /\ x.pc = pc /\ ~x.holds
    BY <1>1, NewTyped DEF Request, Rests, Final
  <1>3. req' = [req EXCEPT ![p] = x]
    BY DEF Finish, op, pc
  <1> HIDE DEF x
  <1> QED BY <1>1, <1>2, <1>3

\* A request that goes on to another point
LEMMA GoesOn ==
    ASSUME TypeOK, NEW p \in Procs,
           NEW pc \in {"retryCoins", "create", "commit", "payReferee", "completeCommit",
                       "completeRead", "cycle"}, Goto(p, pc)
    PROVE  \E x \in Request : /\ req' = [req EXCEPT ![p] = x] /\ x.pc = pc
                              /\ x.user = req[p].user /\ x.owner = req[p].owner
                              /\ x.config = req[p].config /\ x.row = req[p].row
                              /\ x.holds = req[p].holds /\ x.can = req[p].can
  <1>1. req[p] \in Request
    BY DEF TypeOK
  <1> DEFINE x == [req[p] EXCEPT !.pc = pc]
  <1>2. x \in Request /\ x.pc = pc /\ x.user = req[p].user /\ x.owner = req[p].owner
        /\ x.config = req[p].config /\ x.row = req[p].row
        /\ x.holds = req[p].holds /\ x.can = req[p].can
    BY <1>1 DEF Request
  <1>3. req' = [req EXCEPT ![p] = x]
    BY DEF Goto
  <1> HIDE DEF x
  <1> QED BY <1>2, <1>3

-----------------------------------------------------------------------------
(* What a step leaves of the invariant                                     *)

Grows(paid, next) == next \in [Users -> Nat] /\ \A u \in Users : paid[u] > 0 => next[u] > 0

LEMMA ExclusiveKept ==
    ASSUME RefInv, NEW p \in Procs, \A q \in Procs \ {p} : req'[q] = req[q],
           \/ ~req'[p].holds
           \/ /\ req'[p].user = req[p].user
              /\ req[p].holds \/ Free(p, req[p].user)
    PROVE  Exclusive'
  <1> SUFFICES ASSUME NEW q \in Procs, NEW r \in Procs, req'[q].holds, req'[r].holds,
                      req'[q].user = req'[r].user, q # r
               PROVE  FALSE
    BY DEF Exclusive
  <1>1. ASSUME NEW s \in Procs, s # p, req'[s].holds, req'[p].holds, req'[s].user = req'[p].user
        PROVE  FALSE
    BY <1>1 DEF RefInv, Exclusive, Free
  <1>2. CASE q # p /\ r # p
    BY <1>2 DEF RefInv, Exclusive
  <1> QED BY <1>1, <1>2

\* A step of one request that does not touch the referrals
LEMMA Moves ==
    ASSUME RefInv, NEW p \in Procs, NEW x \in Request, req' = [req EXCEPT ![p] = x],
           UNCHANGED <<ref, aged, config>>, todo' \in SUBSET Users,
           Grows(referrerPaid, referrerPaid'), Grows(refereePaid, refereePaid'),
           ~x.holds \/ (x.user = req[p].user /\ (req[p].holds \/ Free(p, req[p].user))),
           Parties(p)', Carried(p)', Due(p)'
    PROVE  RefInv'
  <1>1. req' \in [Procs -> Request] /\ req'[p] = x /\ \A q \in Procs \ {p} : req'[q] = req[q]
    BY RequestMoves DEF RefInv
  <1>2. TypeOK'
    BY <1>1 DEF RefInv, TypeOK, Grows, Referred
  <1>3. Rows' /\ RecordedMeansPaid'
    BY DEF RefInv, Rows, RecordedMeansPaid, Grows
  <1>4. Exclusive'
    BY <1>1, ExclusiveKept
  <1>5. ASSUME NEW q \in Procs \ {p}
        PROVE  Parties(q)' /\ Carried(q)' /\ Due(q)'
    <2>1. req'[q] = req[q] /\ Parties(q) /\ Carried(q) /\ Due(q)
      BY <1>1 DEF RefInv
    <2>2. Parties(q)'
      BY <2>1 DEF Parties
    <2>3. Carried(q)'
      BY <2>1 DEF Carried, Carries, Referred
    <2>4. req[q].pc \notin Rests => req[q].user \in Users
      BY <2>1 DEF Parties, Rests
    <2>5. Due(q)'
      <3>1. Carries(q) \/ req[q].pc \in {"retryCoins", "completeCommit", "payReferee"}
                => req[q].user \in Users
        BY <2>4 DEF Carries, Rests, Final
      <3> QED BY <2>1, <3>1 DEF Due, Carries, Grows
    <2> QED BY <2>2, <2>3, <2>5
  <1> QED BY <1>2, <1>3, <1>4, <1>5 DEF RefInv

\* A request writes the row of its referee, which no other transaction holds, and ends.
LEMMA Commits ==
    ASSUME RefInv, NEW p \in Procs, NEW x \in Request, req' = [req EXCEPT ![p] = x],
           x.pc \in Rests, ~x.holds, NEW u \in Users, NEW new \in Row, u = req[p].user,
           ref' = [ref EXCEPT ![u] = new], req[p].holds \/ Free(p, u),
           new.status # "NONE", new.referrer \in Users \ {u},
           u \in Referred => ref[u].referrer = new.referrer,
           new.refereeXp => refereePaid[u] > 0, new.referrerXp => referrerPaid[u] > 0,
           UNCHANGED <<aged, config, todo, referrerPaid, refereePaid>>
    PROVE  RefInv'
  <1>1. req' \in [Procs -> Request] /\ req'[p] = x /\ \A q \in Procs \ {p} : req'[q] = req[q]
    BY RequestMoves DEF RefInv
  <1>2. ref' \in [Users -> Row] /\ ref'[u] = new /\ \A v \in Users \ {u} : ref'[v] = ref[v]
    BY DEF RefInv, TypeOK
  <1>3. TypeOK'
    BY <1>1, <1>2 DEF RefInv, TypeOK, Referred
  <1>4. Rows' /\ RecordedMeansPaid'
    BY <1>2 DEF RefInv, Rows, RecordedMeansPaid
  <1>5. Exclusive'
    BY <1>1, ExclusiveKept
  <1>6. Parties(p)' /\ Carried(p)' /\ Due(p)'
    <2>1. req'[p].pc \in Rests /\ ~req'[p].holds
      BY <1>1
    <2>2. ~Carries(p)'
      BY <2>1 DEF Carries, Rests, Final
    <2> QED BY <2>1, <2>2 DEF Parties, Carried, Due, Rests, Final
  <1>7. ASSUME NEW q \in Procs \ {p}
        PROVE  Parties(q)' /\ Carried(q)' /\ Due(q)'
    <2>1. req'[q] = req[q] /\ Parties(q) /\ Carried(q) /\ Due(q)
      BY <1>1 DEF RefInv
    <2>2. req[q].holds => req[q].user # u
      BY DEF RefInv, Exclusive, Free
    <2>3. req[q].pc \notin Rests => req[q].user \in Users
      BY <2>1 DEF Parties, Rests
    <2>4. Parties(q)'
      BY <1>2, <2>1, <2>2 DEF Parties, Final
    <2>5. Carried(q)'
      <3>1. Carries(q) => req[q].user \in Users
        BY <2>3 DEF Carries, Rests, Final
      <3>2. Referred' = Referred \cup {u}
        BY <1>2 DEF Referred
      <3>3. CASE req[q].user # u
        BY <1>2, <2>1, <3>1, <3>2, <3>3 DEF Carried, Carries
      <3>4. CASE req[q].user = u
        BY <1>2, <2>1, <2>2, <3>2, <3>4 DEF Carried, Carries
      <3> QED BY <3>3, <3>4
    <2>6. Due(q)'
      BY <2>1 DEF Due, Carries
    <2> QED BY <2>4, <2>5, <2>6
  <1> QED BY <1>3, <1>4, <1>5, <1>6, <1>7 DEF RefInv

\* A request that ends leaves nothing to say about it.
LEMMA Ends ==
    ASSUME RefInv, NEW p \in Procs, NEW result \in Final, Finish(p, result),
           UNCHANGED <<ref, aged, config, todo, referrerPaid, refereePaid>>
    PROVE  RefInv'
  <1>1. PICK x \in Request : req' = [req EXCEPT ![p] = x] /\ x.pc \in Rests /\ ~x.holds
    BY Finishes DEF RefInv
  <1>2. req'[p] = x
    BY <1>1, RequestMoves DEF RefInv
  <1>3. ~Carries(p)'
    BY <1>1, <1>2 DEF Carries, Rests, Final
  <1>4. Parties(p)' /\ Carried(p)' /\ Due(p)'
    BY <1>1, <1>2, <1>3 DEF Parties, Carried, Due, Rests, Final
  <1>5. Grows(referrerPaid, referrerPaid') /\ Grows(refereePaid, refereePaid')
        /\ todo' \in SUBSET Users
    BY DEF RefInv, TypeOK, Grows
  <1> QED BY <1>1, <1>4, <1>5, Moves

-----------------------------------------------------------------------------
(* The steps                                                               *)

\* RefInv holds initially.
LEMMA InitHolds == Init => RefInv
  <1> SUFFICES ASSUME Init PROVE RefInv
    OBVIOUS
  <1>1. NoRow \in Row /\ NoRow.status = "NONE" /\ ~NoRow.refereeXp /\ ~NoRow.referrerXp
    BY DEF NoRow, Row, MaybeUser
  <1>2. \A p \in Procs : req[p] = NewRequest
    BY DEF Init
  <1>3. TypeOK
    BY <1>1, NewTyped, ReferralBounds DEF Init, TypeOK, Referred
  <1>4. Rows /\ Exclusive /\ RecordedMeansPaid
    BY <1>1, <1>2, NewTyped DEF Init, Rows, Exclusive, RecordedMeansPaid
  <1>5. \A p \in Procs : Parties(p) /\ Carried(p) /\ Due(p)
    BY <1>2, NewTyped DEF Parties, Carried, Due, Carries, Final
  <1> QED BY <1>3, <1>4, <1>5 DEF RefInv

\* What the steps of a claim do before they write the referral
LEMMA ClaimSteps ==
    ASSUME RefInv, NEW p \in Procs,
           \/ ClaimExisting(p) \/ RetryXp(p) \/ RetryCoins(p) \/ ClaimCycle(p)
           \/ ClaimCreate(p) \/ ClaimWelcome(p)
    PROVE  RefInv'
  <1>0. /\ req[p] \in Request /\ Parties(p) /\ Carried(p) /\ Due(p) /\ TypeOK
        /\ Grows(referrerPaid, referrerPaid) /\ Grows(refereePaid, refereePaid)
        /\ todo \in SUBSET Users
    BY DEF RefInv, TypeOK, Grows
  <1>1. CASE ClaimExisting(p)
    <2>1. req[p].user \in Users /\ req[p].owner \in Users \ {req[p].user} /\ req[p].pc = "existing"
      BY <1>0, <1>1 DEF ClaimExisting, Parties, Final
    <2>2. UNCHANGED <<ref, aged, config, todo, referrerPaid, refereePaid>>
      BY <1>1 DEF ClaimExisting
    <2> DEFINE row == ref[req[p].user]
    <2>3. CASE row = NoRow
      <3>1. Goto(p, "cycle")
        BY <1>1, <2>3 DEF ClaimExisting
      <3>2. PICK x \in Request : /\ req' = [req EXCEPT ![p] = x] /\ x.pc = "cycle"
                                 /\ x.user = req[p].user /\ x.owner = req[p].owner
                                 /\ x.holds = req[p].holds
        BY <1>0, <3>1, GoesOn
      <3>3. req'[p] = x
        BY <1>0, <3>2, RequestMoves
      <3>4. Parties(p)' /\ Carried(p)' /\ Due(p)'
        BY <2>1, <3>2, <3>3 DEF Parties, Carried, Due, Carries, Final
      <3> QED BY <1>0, <2>2, <3>2, <3>4, Moves
    <2>4. CASE row # NoRow /\ row.referrer = req[p].owner
      <3> DEFINE pc == IF ~row.refereeXp /\ req[p].config.xp THEN "retryXp" ELSE "retryCoins"
                 x == [[req[p] EXCEPT !.row = row] EXCEPT !.pc = pc]
      <3>1. row \in Row /\ row.status # "NONE" /\ req[p].user \in Referred
        BY <1>0, <2>1, <2>4 DEF TypeOK, RefInv, Rows, Referred
      <3>2. req' = [req EXCEPT ![p] = x]
        BY <1>0, <1>1, <2>4 DEF ClaimExisting, TypeOK, Request
      <3>3. pc \in {"retryXp", "retryCoins"}
        OBVIOUS
      <3>4. /\ pc = "retryCoins" /\ req[p].config.xp => refereePaid[req[p].user] > 0
            /\ row.refereeXp => refereePaid[req[p].user] > 0
            /\ row.referrerXp => referrerPaid[req[p].user] > 0
        BY <1>0, <2>1, <3>1 DEF RefInv, RecordedMeansPaid, Request, Config, Row
      <3> HIDE DEF pc, row
      <3>5. /\ x \in Request /\ x.row = row /\ x.pc = pc /\ x.user = req[p].user
            /\ x.owner = req[p].owner /\ x.holds = req[p].holds /\ x.config = req[p].config
        BY <1>0, <3>1, <3>3 DEF Request
      <3> HIDE DEF x
      <3>6. req'[p] = x
        BY <1>0, <3>2, <3>5, RequestMoves
      <3>7. Parties(p)'
        BY <2>1, <3>3, <3>5, <3>6 DEF Parties, Final
      <3>8. Carried(p)'
        BY <2>1, <2>2, <2>4, <3>1, <3>5, <3>6 DEF Carried, Referred, row
      <3>9. Due(p)'
        BY <2>2, <3>3, <3>4, <3>5, <3>6 DEF Due
      <3> QED BY <1>0, <2>2, <3>2, <3>5, <3>7, <3>8, <3>9, Moves
    <2>5. CASE row # NoRow /\ row.referrer # req[p].owner
      <3>1. Finish(p, "refused")
        BY <1>1, <2>5 DEF ClaimExisting
      <3> QED BY <2>2, <3>1, Ends DEF Final
    <2> QED BY <2>3, <2>4, <2>5
  <1>2. CASE RetryXp(p)
    <2>1. /\ req[p].user \in Users /\ req[p].owner \in Users \ {req[p].user}
          /\ req[p].pc = "retryXp" /\ Carries(p)
      BY <1>0, <1>2 DEF RetryXp, Parties, Final, Carries
    <2>2. PICK x \in Request : /\ req' = [req EXCEPT ![p] = x] /\ x.pc = "retryCoins"
                               /\ x.user = req[p].user /\ x.owner = req[p].owner
                               /\ x.row = req[p].row /\ x.config = req[p].config
                               /\ x.holds = req[p].holds
      BY <1>0, <1>2, GoesOn DEF RetryXp
    <2>3. req'[p] = x
      BY <1>0, <2>2, RequestMoves
    <2>4. Grows(refereePaid, refereePaid') /\ refereePaid'[req[p].user] > 0
      BY <1>2, <2>1 DEF RetryXp, RefInv, TypeOK, Grows
    <2>5. UNCHANGED <<ref, aged, config, todo, referrerPaid>>
      BY <1>2 DEF RetryXp
    <2>6. Parties(p)'
      BY <2>1, <2>2, <2>3 DEF Parties, Final
    <2>7. Carried(p)'
      BY <1>0, <2>1, <2>2, <2>3, <2>5 DEF Carried, Referred
    <2>8. Due(p)'
      BY <1>0, <2>1, <2>2, <2>3, <2>4, <2>5 DEF Due
    <2> QED BY <1>0, <2>2, <2>4, <2>5, <2>6, <2>7, <2>8, Moves
  <1>3. CASE RetryCoins(p)
    <2> DEFINE next == IF req[p].row.status = "COMPLETED" \/ RequireActivity THEN "commit"
                       ELSE "completeRead"
               due == ~req[p].row.refereeCoins /\ req[p].config.coins
    <2>1. /\ req[p].user \in Users /\ req[p].pc = "retryCoins" /\ Carries(p)
          /\ req[p].user \in Referred
      BY <1>0, <1>3 DEF RetryCoins, Parties, Final, Carries, Carried
    <2>2. UNCHANGED <<ref, aged, config, todo, referrerPaid, refereePaid>>
      BY <1>3 DEF RetryCoins
    <2>3. next \in {"commit", "completeRead"}
      OBVIOUS
    <2> HIDE DEF next
    <2>4. CASE due
      <3> DEFINE row == [ref[req[p].user] EXCEPT !.refereeXp = req[p].config.xp,
                                                 !.refereeCoins = TRUE]
                 x == [[[req[p] EXCEPT !.holds = TRUE] EXCEPT !.pc = next] EXCEPT !.row = row]
      <3>1. ref[req[p].user] \in Row /\ req[p].config \in Config
            /\ ref[req[p].user].status # "NONE"
        BY <1>0, <2>1 DEF TypeOK, Request, Referred
      <3>2. row \in Row
        BY <3>1 DEF Row, Config
      <3>3. /\ row.status = ref[req[p].user].status /\ row.referrer = ref[req[p].user].referrer
            /\ row.referrerXp = ref[req[p].user].referrerXp /\ row.refereeXp = req[p].config.xp
        BY <3>1 DEF Row
      <3>4. Free(p, req[p].user) /\ req' = [req EXCEPT ![p].holds = TRUE, ![p].pc = next,
                                                        ![p].row = row]
        BY <1>3, <2>4 DEF RetryCoins, next
      <3> HIDE DEF row
      <3>5. req' = [req EXCEPT ![p] = x]
        BY <1>0, <3>4 DEF TypeOK
      <3>6. /\ x \in Request /\ x.row = row /\ x.pc = next /\ x.user = req[p].user
            /\ x.config = req[p].config /\ x.holds
        BY <1>0, <2>3, <3>2 DEF Request
      <3> HIDE DEF x
      <3>7. req'[p] = x
        BY <1>0, <3>5, <3>6, RequestMoves
      <3>8. Parties(p)'
        BY <2>1, <2>3, <3>6, <3>7 DEF Parties, Final
      <3>9. Carried(p)'
        BY <1>0, <2>1, <2>2, <2>3, <3>1, <3>3, <3>6, <3>7 DEF Carried, Referred, TypeOK
      <3>10. Due(p)'
        BY <1>0, <2>1, <2>2, <2>3, <3>1, <3>3, <3>6, <3>7 DEF Due, RefInv, RecordedMeansPaid
      <3> QED BY <1>0, <2>2, <3>4, <3>5, <3>6, <3>8, <3>9, <3>10, Moves
    <2>5. CASE ~due /\ next = "commit"
      <3>1. Finish(p, "ok")
        BY <1>3, <2>5 DEF RetryCoins, next
      <3> QED BY <2>2, <3>1, Ends DEF Final
    <2>6. CASE ~due /\ next # "commit"
      <3>1. Goto(p, "completeRead")
        BY <1>3, <2>3, <2>6 DEF RetryCoins, next
      <3>2. PICK x \in Request : /\ req' = [req EXCEPT ![p] = x] /\ x.pc = "completeRead"
                                 /\ x.user = req[p].user /\ x.row = req[p].row
                                 /\ x.holds = req[p].holds
        BY <1>0, <3>1, GoesOn
      <3>3. req'[p] = x
        BY <1>0, <3>2, RequestMoves
      <3>4. Parties(p)'
        BY <2>1, <3>2, <3>3 DEF Parties, Final
      <3>5. Carried(p)'
        BY <1>0, <2>1, <2>2, <3>2, <3>3 DEF Carried, Referred
      <3>6. Due(p)'
        BY <1>0, <2>1, <2>2, <3>2, <3>3 DEF Due
      <3> QED BY <1>0, <2>2, <3>2, <3>4, <3>5, <3>6, Moves
    <2> QED BY <2>4, <2>5, <2>6
  <1>4. CASE ClaimCycle(p)
    <2>1. /\ req[p].user \in Users /\ req[p].owner \in Users \ {req[p].user}
          /\ UNCHANGED <<ref, aged, config, todo, referrerPaid, refereePaid>>
      BY <1>0, <1>4 DEF ClaimCycle, Parties, Final
    <2>2. CASE Finish(p, "refused")
      BY <2>1, <2>2, Ends DEF Final
    <2>3. CASE Goto(p, "create")
      <3>1. PICK x \in Request : /\ req' = [req EXCEPT ![p] = x] /\ x.pc = "create"
                                 /\ x.user = req[p].user /\ x.owner = req[p].owner
                                 /\ x.holds = req[p].holds
        BY <1>0, <2>3, GoesOn
      <3>2. req'[p] = x
        BY <1>0, <3>1, RequestMoves
      <3>3. Parties(p)' /\ Carried(p)' /\ Due(p)'
        BY <2>1, <3>1, <3>2 DEF Parties, Carried, Due, Carries, Final
      <3> QED BY <1>0, <2>1, <3>1, <3>3, Moves
    <2> QED BY <1>4, <2>2, <2>3 DEF ClaimCycle
  <1>5. CASE ClaimCreate(p)
    <2>1. /\ req[p].user \in Users /\ req[p].owner \in Users \ {req[p].user}
          /\ UNCHANGED <<ref, aged, config, todo, referrerPaid, refereePaid>>
          /\ Free(p, req[p].user)
      BY <1>0, <1>5 DEF ClaimCreate, Parties, Final
    <2>2. CASE ref[req[p].user] # NoRow
      BY <1>5, <2>1, <2>2, Ends DEF ClaimCreate, Final
    <2>3. CASE ref[req[p].user] = NoRow
      <3> DEFINE x == [[req[p] EXCEPT !.pc = "welcome"] EXCEPT !.holds = TRUE]
      <3>1. req' = [req EXCEPT ![p] = x]
        BY <1>0, <1>5, <2>3 DEF ClaimCreate, TypeOK
      <3>2. /\ x \in Request /\ x.pc = "welcome" /\ x.user = req[p].user
            /\ x.owner = req[p].owner /\ x.holds
        BY <1>0 DEF Request
      <3> HIDE DEF x
      <3>3. req'[p] = x
        BY <1>0, <3>1, <3>2, RequestMoves
      <3>4. Parties(p)' /\ Carried(p)' /\ Due(p)'
        BY <2>1, <2>3, <3>2, <3>3 DEF Parties, Carried, Due, Carries, Final
      <3> QED BY <1>0, <2>1, <3>1, <3>2, <3>4, Moves
    <2> QED BY <2>2, <2>3
  <1>6. CASE ClaimWelcome(p)
    <2> DEFINE row == [NoRow EXCEPT !.referrer = req[p].owner, !.status = "PENDING",
                                    !.refereeXp = req[p].config.xp,
                                    !.refereeCoins = req[p].config.coins]
               pc == IF RequireActivity THEN "commit" ELSE "completeRead"
               x == [[req[p] EXCEPT !.row = row] EXCEPT !.pc = pc]
    <2>1. /\ req[p].user \in Users /\ req[p].owner \in Users \ {req[p].user}
          /\ UNCHANGED <<ref, aged, config, todo, referrerPaid>>
          /\ req[p].holds /\ ref[req[p].user] = NoRow /\ req[p].config \in Config
      BY <1>0, <1>6 DEF ClaimWelcome, Parties, Final, Request
    <2>2. row \in Row /\ row.status = "PENDING" /\ row.referrer = req[p].owner
          /\ row.refereeXp = req[p].config.xp /\ ~row.referrerXp
      BY <2>1 DEF NoRow, Row, MaybeUser, Config
    <2>3. req' = [req EXCEPT ![p] = x]
      BY <1>0, <1>6 DEF ClaimWelcome, TypeOK
    <2>4. pc \in {"commit", "completeRead"}
      OBVIOUS
    <2>5. Grows(refereePaid, refereePaid')
          /\ (req[p].config.xp => refereePaid'[req[p].user] > 0)
      BY <1>6, <2>1 DEF ClaimWelcome, RefInv, TypeOK, Grows
    <2>6. req[p].user \notin Referred
      BY <2>1 DEF Referred, NoRow
    <2> HIDE DEF row, pc
    <2>7. /\ x \in Request /\ x.row = row /\ x.pc = pc /\ x.user = req[p].user /\ x.holds
          /\ x.owner = req[p].owner
      BY <1>0, <2>1, <2>2, <2>4 DEF Request
    <2> HIDE DEF x
    <2>8. req'[p] = x
      BY <1>0, <2>3, <2>7, RequestMoves
    <2>9. Parties(p)'
      BY <2>1, <2>4, <2>7, <2>8 DEF Parties, Final
    <2>10. Carried(p)'
      BY <2>1, <2>2, <2>4, <2>6, <2>7, <2>8 DEF Carried, Referred
    <2>11. Due(p)'
      BY <2>1, <2>2, <2>4, <2>5, <2>7, <2>8 DEF Due
    <2> QED BY <1>0, <2>1, <2>3, <2>5, <2>7, <2>9, <2>10, <2>11, Moves
  <1> QED BY <1>1, <1>2, <1>3, <1>4, <1>5, <1>6

\* The steps of a completion, and the writes that end a transaction
LEMMA CompletionSteps ==
    ASSUME RefInv, NEW p \in Procs,
           \/ CompleteRead(p) \/ CompleteCount(p) \/ PayReferrer(p) \/ PayReferee(p)
           \/ ClaimCommit(p) \/ CompleteCommit(p) \/ RollBack(p)
    PROVE  RefInv'
  <1>0. /\ req[p] \in Request /\ Parties(p) /\ Carried(p) /\ Due(p) /\ TypeOK
        /\ Grows(referrerPaid, referrerPaid) /\ Grows(refereePaid, refereePaid)
        /\ todo \in SUBSET Users
    BY DEF RefInv, TypeOK, Grows
  <1>1. CASE CompleteRead(p)
    <2> DEFINE row == IF req[p].holds THEN req[p].row ELSE ref[req[p].user]
    <2>1. /\ req[p].user \in Users /\ req[p].pc = "completeRead"
          /\ UNCHANGED <<ref, aged, config, todo, referrerPaid, refereePaid>>
      BY <1>0, <1>1 DEF CompleteRead, Parties, Final
    <2>2. CASE row.status = "PENDING"
      <3> DEFINE x == [[req[p] EXCEPT !.pc = "completeCount"] EXCEPT !.row = row]
      <3>1. req' = [req EXCEPT ![p] = x]
        BY <1>0, <1>1, <2>2 DEF CompleteRead, TypeOK
      <3>2. row \in Row
        BY <1>0, <2>1 DEF TypeOK, Request
      <3>3. /\ row.referrer \in Users \ {req[p].user}
            /\ req[p].user \in Referred => ref[req[p].user].referrer = row.referrer
            /\ req[p].user \notin Referred => req[p].holds
            /\ row.refereeXp => refereePaid[req[p].user] > 0
            /\ row.referrerXp => referrerPaid[req[p].user] > 0
        <4>1. CASE req[p].holds
          BY <1>0, <2>1, <4>1 DEF Carried, Carries, Due
        <4>2. CASE ~req[p].holds
          <5>1. req[p].user \in Referred /\ row = ref[req[p].user]
            BY <2>1, <2>2, <4>2 DEF Referred
          <5> QED BY <1>0, <2>1, <5>1 DEF TypeOK, RefInv, RecordedMeansPaid
        <4> QED BY <4>1, <4>2
      <3> HIDE DEF row
      <3>4. /\ x \in Request /\ x.pc = "completeCount" /\ x.row = row /\ x.user = req[p].user
            /\ x.holds = req[p].holds
        BY <1>0, <3>2 DEF Request
      <3> HIDE DEF x
      <3>5. req'[p] = x
        BY <1>0, <3>1, <3>4, RequestMoves
      <3>6. Parties(p)'
        BY <2>1, <3>4, <3>5 DEF Parties, Final
      <3>7. Carried(p)'
        BY <2>1, <2>2, <3>3, <3>4, <3>5 DEF Carried, Referred
      <3>8. Due(p)'
        BY <2>1, <3>3, <3>4, <3>5 DEF Due
      <3> QED BY <1>0, <2>1, <3>1, <3>4, <3>6, <3>7, <3>8, Moves
    <2>3. CASE row.status # "PENDING" /\ req[p].holds
      <3>1. Goto(p, "commit")
        BY <1>1, <2>3 DEF CompleteRead
      <3>2. PICK x \in Request : /\ req' = [req EXCEPT ![p] = x] /\ x.pc = "commit"
                                 /\ x.user = req[p].user /\ x.row = req[p].row
                                 /\ x.holds = req[p].holds
        BY <1>0, <3>1, GoesOn
      <3>3. req'[p] = x
        BY <1>0, <3>2, RequestMoves
      <3>4. Carries(p)
        BY <2>1, <2>3 DEF Carries
      <3>5. Parties(p)'
        BY <2>1, <2>3, <3>2, <3>3 DEF Parties, Final
      <3>6. Carried(p)'
        BY <1>0, <2>1, <3>2, <3>3, <3>4 DEF Carried, Referred
      <3>7. Due(p)'
        BY <1>0, <2>1, <3>2, <3>3, <3>4 DEF Due
      <3> QED BY <1>0, <2>1, <3>2, <3>5, <3>6, <3>7, Moves
    <2>4. CASE row.status # "PENDING" /\ ~req[p].holds
      <3>1. Finish(p, "ok") \/ Finish(p, "refused")
        BY <1>1, <2>4 DEF CompleteRead
      <3> QED BY <2>1, <3>1, Ends DEF Final
    <2> QED BY <2>2, <2>3, <2>4
  <1>2. CASE CompleteCount(p)
    <2> DEFINE can == CanReward(req[p].row.referrer)
               pc == IF can THEN "payReferrer" ELSE "payReferee"
               x == [[req[p] EXCEPT !.can = can] EXCEPT !.pc = pc]
    <2>1. /\ req[p].user \in Users /\ req[p].pc = "completeCount" /\ Carries(p)
          /\ UNCHANGED <<ref, aged, config, todo, referrerPaid, refereePaid>>
      BY <1>0, <1>2 DEF CompleteCount, Parties, Final, Carries
    <2>2. req' = [req EXCEPT ![p] = x]
      BY <1>0, <1>2 DEF CompleteCount, TypeOK
    <2>3. can \in BOOLEAN
      BY DEF CanReward
    <2> HIDE DEF can
    <2>4. pc \in {"payReferrer", "payReferee"} /\ (pc = "payReferee" => ~can)
      BY <2>3
    <2> HIDE DEF pc
    <2>5. /\ x \in Request /\ x.pc = pc /\ x.row = req[p].row /\ x.user = req[p].user
          /\ x.holds = req[p].holds /\ x.can = can
      BY <1>0, <2>3, <2>4 DEF Request
    <2> HIDE DEF x
    <2>6. req'[p] = x
      BY <1>0, <2>2, <2>5, RequestMoves
    <2>7. Parties(p)'
      BY <2>1, <2>4, <2>5, <2>6 DEF Parties, Final
    <2>8. Carried(p)'
      BY <1>0, <2>1, <2>4, <2>5, <2>6 DEF Carried, Referred
    <2>9. Due(p)'
      BY <1>0, <2>1, <2>4, <2>5, <2>6 DEF Due
    <2> QED BY <1>0, <2>1, <2>2, <2>5, <2>7, <2>8, <2>9, Moves
  <1>3. CASE PayReferrer(p)
    <2>1. /\ req[p].user \in Users /\ req[p].pc = "payReferrer" /\ Carries(p)
          /\ UNCHANGED <<ref, aged, config, todo, refereePaid>>
      BY <1>0, <1>3 DEF PayReferrer, Parties, Final, Carries
    <2>2. PICK x \in Request : /\ req' = [req EXCEPT ![p] = x] /\ x.pc = "payReferee"
                               /\ x.user = req[p].user /\ x.row = req[p].row
                               /\ x.holds = req[p].holds
      BY <1>0, <1>3, GoesOn DEF PayReferrer
    <2>3. req'[p] = x
      BY <1>0, <2>2, RequestMoves
    <2>4. Grows(referrerPaid, referrerPaid') /\ referrerPaid'[req[p].user] > 0
      BY <1>3, <2>1 DEF PayReferrer, RefInv, TypeOK, Grows
    <2>5. Parties(p)'
      BY <2>1, <2>2, <2>3 DEF Parties, Final
    <2>6. Carried(p)'
      BY <1>0, <2>1, <2>2, <2>3 DEF Carried, Referred
    <2>7. Due(p)'
      BY <1>0, <2>1, <2>2, <2>3, <2>4 DEF Due
    <2> QED BY <1>0, <2>1, <2>2, <2>4, <2>5, <2>6, <2>7, Moves
  <1>4. CASE PayReferee(p)
    <2>1. /\ req[p].user \in Users /\ req[p].pc = "payReferee" /\ Carries(p)
          /\ UNCHANGED <<ref, aged, config, todo, referrerPaid>>
      BY <1>0, <1>4 DEF PayReferee, Parties, Final, Carries
    <2>2. PICK x \in Request : /\ req' = [req EXCEPT ![p] = x] /\ x.pc = "completeCommit"
                               /\ x.user = req[p].user /\ x.row = req[p].row
                               /\ x.holds = req[p].holds /\ x.can = req[p].can
                               /\ x.config = req[p].config
      BY <1>0, <1>4, GoesOn DEF PayReferee
    <2>3. req'[p] = x
      BY <1>0, <2>2, RequestMoves
    <2>4. Grows(refereePaid, refereePaid')
      BY <1>4, <2>1 DEF PayReferee, RefInv, TypeOK, Grows
    <2>5. req[p].config.xp => refereePaid'[req[p].user] > 0
      BY <1>0, <1>4, <2>1 DEF PayReferee, TypeOK, Due
    <2>6. Parties(p)'
      BY <2>1, <2>2, <2>3 DEF Parties, Final
    <2>7. Carried(p)'
      BY <1>0, <2>1, <2>2, <2>3 DEF Carried, Referred
    <2>8. Due(p)'
      <3>1. req[p].row.refereeXp => refereePaid'[req[p].user] > 0
        BY <1>0, <2>1, <2>4 DEF Due, Grows
      <3> QED BY <1>0, <2>1, <2>2, <2>3, <2>5, <3>1 DEF Due
    <2> QED BY <1>0, <2>1, <2>2, <2>4, <2>6, <2>7, <2>8, Moves
  <1>5. CASE ClaimCommit(p)
    <2>1. /\ req[p].user \in Users /\ req[p].pc = "commit" /\ Carries(p) /\ req[p].holds
          /\ UNCHANGED <<aged, config, todo, referrerPaid, refereePaid>>
          /\ ref' = [ref EXCEPT ![req[p].user] = req[p].row] /\ Finish(p, "ok")
      BY <1>0, <1>5 DEF ClaimCommit, Parties, Final, Carries
    <2>2. PICK x \in Request : req' = [req EXCEPT ![p] = x] /\ x.pc \in Rests /\ ~x.holds
      BY <1>0, <2>1, Finishes DEF Final
    <2>3. req[p].row \in Row
      BY <1>0 DEF Request
    <2>4. /\ req[p].row.status # "NONE" /\ req[p].row.referrer \in Users \ {req[p].user}
          /\ req[p].user \in Referred => ref[req[p].user].referrer = req[p].row.referrer
          /\ req[p].row.refereeXp => refereePaid[req[p].user] > 0
          /\ req[p].row.referrerXp => referrerPaid[req[p].user] > 0
      BY <1>0, <2>1 DEF Carried, Due
    <2> QED BY <2>1, <2>2, <2>3, <2>4, Commits
  <1>6. CASE CompleteCommit(p)
    <2> DEFINE row == req[p].row
               new == CompletedRow(row, req[p].can, req[p].config)
    <2>1. /\ req[p].user \in Users /\ req[p].pc = "completeCommit" /\ Carries(p)
          /\ UNCHANGED <<aged, config, todo, referrerPaid, refereePaid>>
          /\ ref' = [ref EXCEPT ![req[p].user] = new] /\ Finish(p, "ok")
          /\ Free(p, req[p].user)
      BY <1>0, <1>6 DEF CompleteCommit, CompletedRow, Parties, Final, Carries
    <2>2. PICK x \in Request : req' = [req EXCEPT ![p] = x] /\ x.pc \in Rests /\ ~x.holds
      BY <1>0, <2>1, Finishes DEF Final
    <2>3. /\ new \in Row /\ new.status = "COMPLETED" /\ new.referrer = row.referrer
          /\ new.referrerXp = req[p].can /\ (new.refereeXp => row.refereeXp \/ req[p].config.xp)
      <3>1. row \in Row /\ req[p].config \in Config /\ req[p].can \in BOOLEAN
        BY <1>0 DEF Request
      <3> QED BY <3>1, CompletedRowTyped
    <2>4. /\ row.referrer \in Users \ {req[p].user}
          /\ req[p].user \in Referred => ref[req[p].user].referrer = row.referrer
          /\ row.refereeXp \/ req[p].config.xp => refereePaid[req[p].user] > 0
          /\ req[p].can => referrerPaid[req[p].user] > 0
      BY <1>0, <2>1 DEF Carried, Due
    <2> HIDE DEF new
    <2> QED BY <2>1, <2>2, <2>3, <2>4, Commits
  <1>7. CASE RollBack(p)
    BY <1>7, Ends DEF RollBack, Final
  <1> QED BY <1>1, <1>2, <1>3, <1>4, <1>5, <1>6, <1>7

\* Calls keep RefInv.
LEMMA CallSteps ==
    ASSUME RefInv, NEW p \in Procs, Call(p)
    PROVE  RefInv'
  <1>0. /\ TypeOK /\ Grows(referrerPaid, referrerPaid) /\ Grows(refereePaid, refereePaid)
        /\ todo \in SUBSET Users /\ config \in Config
    BY DEF RefInv, TypeOK, Grows
  <1>1. ASSUME NEW u \in Users, NEW v \in Users, ClaimLoad(p, u, v)
        PROVE  RefInv'
    <2> DEFINE none == [NewRequest EXCEPT !.op = "claim", !.pc = "refused"]
               some == [NewRequest EXCEPT !.op = "claim", !.user = u, !.owner = v,
                                          !.pc = "existing", !.config = config]
    <2>1. UNCHANGED <<ref, aged, config, todo, referrerPaid, refereePaid>>
      BY <1>1 DEF ClaimLoad
    <2>2. none \in Request /\ none.pc = "refused" /\ ~none.holds
      BY NewTyped DEF Request, Final
    <2>3. /\ some \in Request /\ some.pc = "existing" /\ ~some.holds
          /\ some.user = u /\ some.owner = v
      BY <1>0, NewTyped DEF Request, MaybeUser
    <2>4. \/ req' = [req EXCEPT ![p] = none]
          \/ u # v /\ req' = [req EXCEPT ![p] = some]
      BY <1>1 DEF ClaimLoad
    <2> HIDE DEF none, some
    <2>5. CASE req' = [req EXCEPT ![p] = none]
      <3>1. req'[p] = none
        BY <1>0, <2>2, <2>5, RequestMoves
      <3>2. Parties(p)' /\ Carried(p)' /\ Due(p)'
        BY <2>2, <3>1 DEF Parties, Carried, Due, Carries, Final
      <3> QED BY <1>0, <2>1, <2>2, <2>5, <3>2, Moves
    <2>6. CASE u # v /\ req' = [req EXCEPT ![p] = some]
      <3>1. req'[p] = some
        BY <1>0, <2>3, <2>6, RequestMoves
      <3>2. Parties(p)' /\ Carried(p)' /\ Due(p)'
        BY <2>3, <2>6, <3>1 DEF Parties, Carried, Due, Carries, Final
      <3> QED BY <1>0, <2>1, <2>3, <2>6, <3>2, Moves
    <2> QED BY <2>4, <2>5, <2>6
  <1>2. ASSUME NEW u \in Users, CompleteLoad(p, u)
        PROVE  RefInv'
    <2> DEFINE x == [NewRequest EXCEPT !.op = "complete", !.user = u,
                                       !.pc = "completeRead", !.config = config]
    <2>1. /\ UNCHANGED <<ref, aged, config, referrerPaid, refereePaid>>
          /\ todo' \in SUBSET Users /\ req' = [req EXCEPT ![p] = x]
      BY <1>0, <1>2 DEF CompleteLoad
    <2>2. x \in Request /\ x.pc = "completeRead" /\ ~x.holds /\ x.user = u
      BY <1>0, NewTyped DEF Request, MaybeUser
    <2> HIDE DEF x
    <2>3. req'[p] = x
      BY <1>0, <2>1, <2>2, RequestMoves
    <2>4. Parties(p)' /\ Carried(p)' /\ Due(p)'
      BY <2>2, <2>3 DEF Parties, Carried, Due, Carries, Final
    <2> QED BY <1>0, <2>1, <2>2, <2>4, Moves
  <1> QED BY <1>1, <1>2 DEF Call

\* RefInv is inductive.
LEMMA StepHolds == RefInv /\ [Next]_vars => RefInv'
  <1> SUFFICES ASSUME RefInv, [Next]_vars PROVE RefInv'
    OBVIOUS
  <1>1. ASSUME NEW p \in Procs, Step(p) \/ Call(p) \/ RollBack(p)
        PROVE  RefInv'
    BY <1>1, ClaimSteps, CompletionSteps, CallSteps DEF Step
  <1>2. ASSUME UNCHANGED <<ref, referrerPaid, refereePaid, req>>, aged' \in SUBSET Users,
               todo' \in SUBSET Users, config' \in Config
        PROVE  RefInv'
    <2>1. TypeOK' /\ Rows' /\ Exclusive' /\ RecordedMeansPaid'
      BY <1>2 DEF RefInv, TypeOK, Rows, Exclusive, RecordedMeansPaid, Referred
    <2>2. \A p \in Procs : Parties(p)' /\ Carried(p)' /\ Due(p)'
      BY <1>2 DEF RefInv, Parties, Carried, Due, Carries, Referred
    <2> QED BY <2>1, <2>2 DEF RefInv
  <1>3. CASE UpdateConfig
    BY <1>2, <1>3 DEF UpdateConfig, RefInv, TypeOK
  <1>4. CASE RecoverFind
    <2>1. todo' \in SUBSET aged
      BY <1>4 DEF RecoverFind
    <2> QED BY <1>2, <1>4, <2>1 DEF RecoverFind, RefInv, TypeOK
  <1>5. ASSUME NEW u \in Users, Age(u)
        PROVE  RefInv'
    BY <1>2, <1>5 DEF Age, RefInv, TypeOK
  <1>6. CASE UNCHANGED vars
    BY <1>2, <1>6 DEF vars, RefInv, TypeOK
  <1> QED BY <1>1, <1>3, <1>4, <1>5, <1>6 DEF Next

-----------------------------------------------------------------------------
(* The theorems                                                            *)

\* It holds in every behaviour.
LEMMA RefInvHolds == Spec => []RefInv
  BY InitHolds, StepHolds, PTL DEF Spec

\* Referrals and requests keep their types, and nobody is his own referrer.
THEOREM TypesHold == Spec => []TypeOK
  <1>1. RefInv => TypeOK
    BY DEF RefInv
  <1> QED BY <1>1, RefInvHolds, PTL

\* A reward that a referral records was paid, for any number of claims, retries,
\* completions, configuration changes and rollbacks at once (referral.service.ts 599-631,
\* 949-1015).
THEOREM RecordsArePaid == Spec => []RecordedMeansPaid
  <1>1. RefInv => RecordedMeansPaid
    BY DEF RefInv
  <1> QED BY <1>1, RefInvHolds, PTL

\* The referrer of a referral never changes (699-703).
THEOREM ReferrersAreForLife == Spec => ReferrerIsForLife
  <1> DEFINE Kept == \A u \in Referred : u \in Referred' /\ ref'[u].referrer = ref[u].referrer
  <1>1. RefInv /\ [Next]_vars => [Kept]_vars
    <2> SUFFICES ASSUME RefInv, Next PROVE Kept
      BY DEF vars
    <2>1. ASSUME ref' = ref PROVE Kept
      BY <2>1 DEF Referred
    <2>2. ASSUME NEW p \in Procs, ClaimCommit(p) \/ CompleteCommit(p)
          PROVE  Kept
      <3>1. PICK new : /\ ref' = [ref EXCEPT ![req[p].user] = new]
                       /\ new.status # "NONE" /\ new.referrer = req[p].row.referrer
        <4>1. CASE ClaimCommit(p)
          BY <4>1 DEF ClaimCommit, RefInv, Carried, Carries
        <4>2. CASE CompleteCommit(p)
          <5> DEFINE new == CompletedRow(req[p].row, req[p].can, req[p].config)
          <5>1. new.status = "COMPLETED" /\ new.referrer = req[p].row.referrer
            BY CompletedRowTyped DEF RefInv, TypeOK, Request
          <5>2. ref' = [ref EXCEPT ![req[p].user] = new]
            BY <4>2 DEF CompleteCommit, CompletedRow
          <5> HIDE DEF new
          <5> QED BY <5>1, <5>2
        <4> QED BY <2>2, <4>1, <4>2
      <3>2. req[p].user \in Referred => ref[req[p].user].referrer = req[p].row.referrer
        BY <2>2 DEF ClaimCommit, CompleteCommit, RefInv, Carried, Carries
      <3> QED BY <3>1, <3>2 DEF RefInv, TypeOK, Referred
    <2>3. ASSUME NEW p \in Procs, Step(p) \/ Call(p) \/ RollBack(p)
          PROVE  Kept
      BY <2>1, <2>2, <2>3 DEF Step, Call, ClaimExisting, RetryXp, RetryCoins, ClaimCycle,
          ClaimCreate, ClaimWelcome, CompleteRead, CompleteCount, PayReferrer, PayReferee,
          RollBack, ClaimLoad, CompleteLoad
    <2>4. ASSUME UpdateConfig \/ RecoverFind \/ \E u \in Users : Age(u)
          PROVE  Kept
      BY <2>1, <2>4 DEF UpdateConfig, RecoverFind, Age
    <2> QED BY <2>3, <2>4 DEF Next
  <1> QED BY <1>1, RefInvHolds, PTL DEF Spec, ReferrerIsForLife

-----------------------------------------------------------------------------
(* The welcome bonus, where the configuration stays as it is and no         *)
(* transaction is rolled back                                              *)

\* A request works at the first rates: whatever row it carries records the bonus that
\* they give, so that no retry is due; a request that holds a row either is about to pay
\* the bonus or carries a row that records it.
AtFirstRates(p) ==
    /\ req[p].pc \notin Rests => req[p].config = FirstConfig
    /\ Carries(p) => req[p].row.refereeXp = FirstConfig.xp
    /\ req[p].pc # "retryXp"
    /\ req[p].holds => Carries(p) \/ req[p].pc = "welcome"

\* The transaction of p has paid the bonus of u and has yet to write the referral.
HasPaid(p, u) == req[p].holds /\ Carries(p) /\ req[p].user = u

\* A bonus was paid at most once, and for a referral that the table or a transaction has.
WelcomeInv ==
    /\ config = FirstConfig
    /\ \A u \in Users : /\ u \in Referred => ref[u].refereeXp = FirstConfig.xp
                        /\ refereePaid[u] <= 1
                        /\ refereePaid[u] > 0 => u \in Referred \/ \E p \in Procs : HasPaid(p, u)
    /\ \A p \in Procs : AtFirstRates(p)

\* WelcomeInv holds initially.
LEMMA WelcomeInit == Init => WelcomeInv
  <1> SUFFICES ASSUME Init PROVE WelcomeInv
    OBVIOUS
  <1>1. \A u \in Users : refereePaid[u] = 0 /\ u \notin Referred
    BY DEF Init, Referred, NoRow
  <1>2. \A p \in Procs : AtFirstRates(p)
    BY NewTyped DEF Init, AtFirstRates, Carries, Rests, Final
  <1> QED BY <1>1, <1>2 DEF WelcomeInv, Init

\* A request moves, and if it had paid a bonus that the table does not have, it still has.
LEMMA WelcomeMoves ==
    ASSUME RefInv, WelcomeInv, NEW p \in Procs, NEW x \in Request, req' = [req EXCEPT ![p] = x],
           UNCHANGED <<ref, config, refereePaid>>, AtFirstRates(p)',
           \A u \in Users : HasPaid(p, u) => u \in Referred \/ HasPaid(p, u)'
    PROVE  WelcomeInv'
  <1>1. \A q \in Procs \ {p} : req'[q] = req[q]
    BY RequestMoves DEF RefInv
  <1>2. \A q \in Procs \ {p} : AtFirstRates(q)' /\ \A u \in Users : HasPaid(q, u) => HasPaid(q, u)'
    BY <1>1 DEF WelcomeInv, AtFirstRates, HasPaid, Carries
  <1>3. Referred' = Referred
    BY DEF Referred
  <1> HIDE DEF HasPaid, AtFirstRates
  <1> QED BY <1>2, <1>3 DEF WelcomeInv

\* A request that ends without writing has paid nothing that the table does not have.
LEMMA WelcomeEnds ==
    ASSUME RefInv, WelcomeInv, NEW p \in Procs, NEW result \in Final, Finish(p, result),
           UNCHANGED <<ref, config, refereePaid>>,
           req[p].holds /\ Carries(p) => req[p].user \in Referred
    PROVE  WelcomeInv'
  <1>1. PICK x \in Request : req' = [req EXCEPT ![p] = x] /\ x.pc \in Rests /\ ~x.holds
    BY Finishes DEF RefInv
  <1>2. req'[p] = x
    BY <1>1, RequestMoves DEF RefInv
  <1>3. AtFirstRates(p)'
    BY <1>1, <1>2 DEF AtFirstRates, Carries, Rests, Final
  <1>4. \A u \in Users : HasPaid(p, u) => u \in Referred
    BY DEF HasPaid
  <1> QED BY <1>1, <1>3, <1>4, WelcomeMoves

\* The steps of a claim before it writes
LEMMA WelcomeClaimSteps ==
    ASSUME RefInv, WelcomeInv, NEW p \in Procs,
           \/ ClaimExisting(p) \/ RetryXp(p) \/ RetryCoins(p) \/ ClaimCycle(p)
           \/ ClaimCreate(p) \/ ClaimWelcome(p)
    PROVE  WelcomeInv'
  <1>0. /\ req[p] \in Request /\ Parties(p) /\ Carried(p) /\ AtFirstRates(p) /\ TypeOK
        /\ FirstConfig \in Config
    BY ReferralBounds DEF RefInv, TypeOK, WelcomeInv
  <1>1. CASE ClaimExisting(p)
    <2>1. /\ req[p].user \in Users /\ req[p].pc = "existing" /\ ~req[p].holds
          /\ req[p].config = FirstConfig /\ UNCHANGED <<ref, config, refereePaid>>
      BY <1>0, <1>1 DEF ClaimExisting, Parties, AtFirstRates, Carries, Rests, Final
    <2> DEFINE row == ref[req[p].user]
    <2>2. CASE Goto(p, "cycle")
      <3>1. PICK x \in Request : /\ req' = [req EXCEPT ![p] = x] /\ x.pc = "cycle"
                                 /\ x.config = req[p].config /\ x.holds = req[p].holds
        BY <1>0, <2>2, GoesOn
      <3>2. req'[p] = x
        BY <1>0, <3>1, RequestMoves
      <3>3. AtFirstRates(p)'
        BY <2>1, <3>1, <3>2 DEF AtFirstRates, Carries
      <3> QED BY <2>1, <3>1, <3>3, WelcomeMoves DEF HasPaid
    <2>3. CASE row # NoRow /\ row.referrer = req[p].owner
      <3> DEFINE x == [[req[p] EXCEPT !.row = row] EXCEPT !.pc = "retryCoins"]
      <3>1. row \in Row /\ row.refereeXp = FirstConfig.xp /\ req[p].user \in Referred
        BY <1>0, <2>1, <2>3 DEF TypeOK, RefInv, Rows, Referred, WelcomeInv
      <3>2. req' = [req EXCEPT ![p] = x]
        BY <1>0, <1>1, <2>1, <2>3, <3>1 DEF ClaimExisting, TypeOK, Request, Config
      <3> HIDE DEF row
      <3>3. x \in Request /\ x.pc = "retryCoins" /\ x.row = row /\ x.config = FirstConfig
            /\ ~x.holds
        BY <1>0, <2>1, <3>1 DEF Request
      <3> HIDE DEF x
      <3>4. req'[p] = x
        BY <1>0, <3>2, <3>3, RequestMoves
      <3>5. AtFirstRates(p)'
        BY <3>1, <3>3, <3>4 DEF AtFirstRates
      <3> QED BY <2>1, <3>2, <3>3, <3>5, WelcomeMoves DEF HasPaid
    <2>4. CASE Finish(p, "refused")
      BY <2>1, <2>4, WelcomeEnds DEF Final
    <2> QED BY <1>1, <2>2, <2>3, <2>4 DEF ClaimExisting
  <1>2. CASE RetryXp(p)
    BY <1>0, <1>2 DEF RetryXp, AtFirstRates
  <1>3. CASE RetryCoins(p)
    <2> DEFINE next == IF req[p].row.status = "COMPLETED" \/ RequireActivity THEN "commit"
                       ELSE "completeRead"
               row == [[ref[req[p].user] EXCEPT !.refereeXp = req[p].config.xp]
                                         EXCEPT !.refereeCoins = TRUE]
               x == [[[req[p] EXCEPT !.holds = TRUE] EXCEPT !.pc = next] EXCEPT !.row = row]
    <2>1. /\ req[p].user \in Referred /\ req[p].user \in Users /\ req[p].pc = "retryCoins"
          /\ req[p].config = FirstConfig /\ UNCHANGED <<ref, config, refereePaid>>
      BY <1>0, <1>3 DEF RetryCoins, Carried, Carries, AtFirstRates, Referred, Rests, Final
    <2>2. \A u \in Users : HasPaid(p, u) => u \in Referred
      BY <2>1 DEF HasPaid
    <2>3. CASE req' = [req EXCEPT ![p] = x]
      <3>1. next \in {"commit", "completeRead"}
        OBVIOUS
      <3> HIDE DEF next
      <3>2. row \in Row /\ row.refereeXp = FirstConfig.xp
        <4>1. ref[req[p].user] \in Row /\ req[p].config \in Config
          BY <1>0, <2>1 DEF TypeOK
        <4>2. row \in Row /\ row.refereeXp = req[p].config.xp
          BY <4>1 DEF Row, Config
        <4> QED BY <2>1, <4>2
      <3> HIDE DEF row
      <3>3. x \in Request /\ x.pc = next /\ x.row = row /\ x.config = FirstConfig /\ x.holds
        BY <1>0, <2>1, <3>1, <3>2 DEF Request
      <3> HIDE DEF x
      <3>4. req'[p] = x
        BY <1>0, <2>3, <3>3, RequestMoves
      <3>5. AtFirstRates(p)'
        BY <3>1, <3>2, <3>3, <3>4 DEF AtFirstRates, Carries
      <3> QED BY <2>1, <2>2, <2>3, <3>3, <3>5, WelcomeMoves
    <2>4. CASE Finish(p, "ok")
      BY <2>1, <2>4, WelcomeEnds DEF Final
    <2>5. CASE Goto(p, "completeRead")
      <3>1. PICK y \in Request : /\ req' = [req EXCEPT ![p] = y] /\ y.pc = "completeRead"
                                 /\ y.config = req[p].config /\ y.holds = req[p].holds
                                 /\ y.row = req[p].row
        BY <1>0, <2>5, GoesOn
      <3>2. req'[p] = y
        BY <1>0, <3>1, RequestMoves
      <3>3. AtFirstRates(p)'
        BY <1>0, <2>1, <3>1, <3>2 DEF AtFirstRates, Carries
      <3> QED BY <2>1, <2>2, <3>1, <3>3, WelcomeMoves
    <2>6. \/ req' = [req EXCEPT ![p] = x]
          \/ Finish(p, "ok") \/ Goto(p, "completeRead")
      BY <1>3 DEF RetryCoins
    <2> HIDE DEF x, next
    <2> QED BY <2>3, <2>4, <2>5, <2>6
  <1>4. CASE ClaimCycle(p)
    <2>1. /\ req[p].pc = "cycle" /\ ~req[p].holds
          /\ req[p].config = FirstConfig /\ UNCHANGED <<ref, config, refereePaid>>
      BY <1>0, <1>4 DEF ClaimCycle, AtFirstRates, Carries, Rests, Final
    <2>2. CASE Goto(p, "create")
      <3>1. PICK x \in Request : /\ req' = [req EXCEPT ![p] = x] /\ x.pc = "create"
                                 /\ x.config = req[p].config /\ x.holds = req[p].holds
        BY <1>0, <2>2, GoesOn
      <3>2. req'[p] = x
        BY <1>0, <3>1, RequestMoves
      <3>3. AtFirstRates(p)'
        BY <2>1, <3>1, <3>2 DEF AtFirstRates, Carries
      <3> QED BY <2>1, <3>1, <3>3, WelcomeMoves DEF HasPaid
    <2>3. CASE Finish(p, "refused")
      BY <2>1, <2>3, WelcomeEnds DEF Final
    <2> QED BY <1>4, <2>2, <2>3 DEF ClaimCycle
  <1>5. CASE ClaimCreate(p)
    <2>1. /\ req[p].pc = "create" /\ ~req[p].holds
          /\ req[p].config = FirstConfig /\ UNCHANGED <<ref, config, refereePaid>>
      BY <1>0, <1>5 DEF ClaimCreate, AtFirstRates, Carries, Rests, Final
    <2> DEFINE x == [[req[p] EXCEPT !.pc = "welcome"] EXCEPT !.holds = TRUE]
    <2>2. CASE Finish(p, "refused")
      BY <2>1, <2>2, WelcomeEnds DEF Final
    <2>3. CASE req' = [req EXCEPT ![p] = x]
      <3>1. x \in Request /\ x.pc = "welcome" /\ x.config = FirstConfig /\ x.holds
        BY <1>0, <2>1 DEF Request
      <3> HIDE DEF x
      <3>2. req'[p] = x
        BY <1>0, <2>3, <3>1, RequestMoves
      <3>3. AtFirstRates(p)'
        BY <3>1, <3>2 DEF AtFirstRates, Carries
      <3> QED BY <2>1, <2>3, <3>1, <3>3, WelcomeMoves DEF HasPaid
    <2> QED BY <1>0, <1>5, <2>2, <2>3 DEF ClaimCreate, TypeOK
  <1>6. CASE ClaimWelcome(p)
    <2> DEFINE row == [[[[NoRow EXCEPT !.referrer = req[p].owner] EXCEPT !.status = "PENDING"]
                                EXCEPT !.refereeXp = req[p].config.xp]
                                EXCEPT !.refereeCoins = req[p].config.coins]
               next == IF RequireActivity THEN "commit" ELSE "completeRead"
               x == [[req[p] EXCEPT !.row = row] EXCEPT !.pc = next]
    <2>0. PICK u \in Users : u = req[p].user
      BY <1>0, <1>6 DEF ClaimWelcome, Parties, Final
    <2>1. /\ u = req[p].user /\ req[p].pc = "welcome" /\ req[p].holds /\ ref[u] = NoRow
          /\ req[p].owner \in Users /\ req[p].config = FirstConfig /\ UNCHANGED <<ref, config>>
      BY <1>0, <1>6, <2>0 DEF ClaimWelcome, Parties, AtFirstRates, Rests, Final
    <2>2. next \in {"commit", "completeRead"}
      OBVIOUS
    <2>3. row \in Row /\ row.refereeXp = FirstConfig.xp
      BY <1>0, <2>1 DEF Row, NoRow, Config, MaybeUser
    <2>4. req' = [req EXCEPT ![p] = x]
      BY <1>0, <1>6 DEF ClaimWelcome, TypeOK
    <2> HIDE DEF row, next
    <2>5. x \in Request /\ x.pc = next /\ x.row = row /\ x.config = FirstConfig /\ x.holds
          /\ x.user = u
      BY <1>0, <2>1, <2>2, <2>3 DEF Request
    <2> HIDE DEF x
    <2>6. /\ req'[p] = x /\ \A q \in Procs \ {p} : req'[q] = req[q]
      BY <1>0, <2>4, <2>5, RequestMoves
    <2>7. AtFirstRates(p)' /\ HasPaid(p, u)'
      BY <2>2, <2>3, <2>5, <2>6 DEF AtFirstRates, Carries, HasPaid
    <2>8. refereePaid[u] = 0
      <3>1. u \notin Referred
        BY <2>1 DEF Referred, NoRow
      <3>2. \A q \in Procs : ~HasPaid(q, u)
        BY <2>1 DEF HasPaid, RefInv, Exclusive, Carries
      <3> QED BY <1>0, <2>1, <3>1, <3>2 DEF WelcomeInv, TypeOK
    <2>9. /\ refereePaid'[u] <= 1 /\ \A v \in Users \ {u} : refereePaid'[v] = refereePaid[v]
      BY <1>0, <1>6, <2>1, <2>8 DEF ClaimWelcome, TypeOK
    <2>10. ASSUME NEW q \in Procs \ {p}
           PROVE  AtFirstRates(q)' /\ \A v \in Users : HasPaid(q, v) => HasPaid(q, v)'
      BY <2>6 DEF WelcomeInv, AtFirstRates, HasPaid, Carries
    <2>11. Referred' = Referred /\ \A v \in Users \ {u} : ~HasPaid(p, v)
      BY <2>1 DEF Referred, HasPaid
    <2> HIDE DEF HasPaid, AtFirstRates
    <2>12. \A q \in Procs : AtFirstRates(q)'
      BY <2>7, <2>10
    <2>13. ASSUME NEW v \in Users
           PROVE  /\ (v \in Referred => ref[v].refereeXp = FirstConfig.xp)'
                  /\ refereePaid'[v] <= 1
                  /\ refereePaid'[v] > 0 => (v \in Referred \/ \E q \in Procs : HasPaid(q, v))'
      <3>1. CASE v = u
        BY <2>1, <2>7, <2>9, <2>11, <3>1 DEF WelcomeInv
      <3>2. CASE v # u
        BY <2>1, <2>9, <2>10, <2>11, <3>2 DEF WelcomeInv
      <3> QED BY <3>1, <3>2
    <2> QED BY <2>1, <2>12, <2>13 DEF WelcomeInv
  <1> QED BY <1>1, <1>2, <1>3, <1>4, <1>5, <1>6

\* A transaction writes a referral that records the bonus: what it has paid, the table has now.
LEMMA WelcomeCommits ==
    ASSUME RefInv, WelcomeInv, NEW p \in Procs, Finish(p, "ok"), NEW u \in Users, u = req[p].user,
           NEW new \in Row, new.refereeXp = FirstConfig.xp, new.status # "NONE",
           ref' = [ref EXCEPT ![u] = new], UNCHANGED <<config, refereePaid>>
    PROVE  WelcomeInv'
  <1>1. PICK x \in Request : req' = [req EXCEPT ![p] = x] /\ x.pc \in Rests /\ ~x.holds
    BY Finishes DEF RefInv, Final
  <1>2. req'[p] = x /\ \A q \in Procs \ {p} : req'[q] = req[q]
    BY <1>1, RequestMoves DEF RefInv
  <1>3. \A q \in Procs \ {p} : AtFirstRates(q)' /\ \A v \in Users : HasPaid(q, v) => HasPaid(q, v)'
    BY <1>2 DEF WelcomeInv, AtFirstRates, HasPaid, Carries
  <1>4. AtFirstRates(p)'
    BY <1>1, <1>2 DEF AtFirstRates, Carries, Rests, Final
  <1>5. ref'[u] = new /\ \A v \in Users \ {u} : ref'[v] = ref[v]
    BY DEF RefInv, TypeOK
  <1>6. Referred' = Referred \cup {u} /\ \A v \in Users \ {u} : ~HasPaid(p, v)
    BY <1>5 DEF Referred, HasPaid
  <1> HIDE DEF HasPaid, AtFirstRates
  <1>7. ASSUME NEW v \in Users
        PROVE  /\ (v \in Referred => ref[v].refereeXp = FirstConfig.xp)'
               /\ refereePaid'[v] <= 1
               /\ refereePaid'[v] > 0 => (v \in Referred \/ \E q \in Procs : HasPaid(q, v))'
    BY <1>3, <1>5, <1>6 DEF WelcomeInv
  <1> QED BY <1>3, <1>4, <1>7 DEF WelcomeInv

\* The steps of a completion, and the two commits
LEMMA WelcomeCompletionSteps ==
    ASSUME RefInv, WelcomeInv, NEW p \in Procs,
           \/ CompleteRead(p) \/ CompleteCount(p) \/ PayReferrer(p) \/ PayReferee(p)
           \/ ClaimCommit(p) \/ CompleteCommit(p)
    PROVE  WelcomeInv'
  <1>0. /\ req[p] \in Request /\ Parties(p) /\ Carried(p) /\ AtFirstRates(p) /\ TypeOK
        /\ FirstConfig \in Config
    BY ReferralBounds DEF RefInv, TypeOK, WelcomeInv
  <1>1. CASE CompleteRead(p)
    <2> DEFINE row == IF req[p].holds THEN req[p].row ELSE ref[req[p].user]
               x == [[req[p] EXCEPT !.pc = "completeCount"] EXCEPT !.row = row]
    <2>1. /\ req[p].user \in Users /\ req[p].pc = "completeRead" /\ req[p].config = FirstConfig
          /\ UNCHANGED <<ref, config, refereePaid>>
      BY <1>0, <1>1 DEF CompleteRead, Parties, AtFirstRates, Rests, Final
    <2>2. CASE row.status = "PENDING"
      <3>1. req' = [req EXCEPT ![p] = x]
        BY <1>0, <1>1, <2>2 DEF CompleteRead, TypeOK
      <3>2. row \in Row /\ row.refereeXp = FirstConfig.xp
        BY <1>0, <2>1, <2>2 DEF TypeOK, Request, AtFirstRates, Carries, WelcomeInv, Referred
      <3> HIDE DEF row
      <3>3. /\ x \in Request /\ x.pc = "completeCount" /\ x.row = row /\ x.config = FirstConfig
            /\ x.user = req[p].user /\ x.holds = req[p].holds
        BY <1>0, <2>1, <3>2 DEF Request
      <3> HIDE DEF x
      <3>4. req'[p] = x
        BY <1>0, <3>1, <3>3, RequestMoves
      <3>5. AtFirstRates(p)' /\ \A u \in Users : HasPaid(p, u) => HasPaid(p, u)'
        BY <3>2, <3>3, <3>4 DEF AtFirstRates, Carries, HasPaid
      <3> QED BY <2>1, <3>1, <3>3, <3>5, WelcomeMoves
    <2>3. CASE Goto(p, "commit") /\ req[p].holds
      <3>0. Goto(p, "commit")
        BY <2>3
      <3>1. PICK y \in Request : /\ req' = [req EXCEPT ![p] = y] /\ y.pc = "commit"
                                 /\ y.config = req[p].config /\ y.holds = req[p].holds
                                 /\ y.row = req[p].row /\ y.user = req[p].user
        BY <1>0, <3>0, GoesOn
      <3>2. req'[p] = y
        BY <1>0, <3>1, RequestMoves
      <3>3. AtFirstRates(p)' /\ \A u \in Users : HasPaid(p, u) => HasPaid(p, u)'
        BY <1>0, <2>1, <2>3, <3>1, <3>2 DEF AtFirstRates, Carries, HasPaid
      <3> QED BY <2>1, <3>1, <3>3, WelcomeMoves
    <2>4. CASE (Finish(p, "ok") \/ Finish(p, "refused")) /\ ~req[p].holds
      BY <2>1, <2>4, WelcomeEnds DEF Final
    <2> HIDE DEF x
    <2> QED BY <1>1, <2>2, <2>3, <2>4 DEF CompleteRead
  <1>2. CASE CompleteCount(p)
    <2> DEFINE can == CanReward(req[p].row.referrer)
               pc == IF can THEN "payReferrer" ELSE "payReferee"
               x == [[req[p] EXCEPT !.can = can] EXCEPT !.pc = pc]
    <2>1. /\ req[p].pc = "completeCount" /\ req[p].config = FirstConfig
          /\ UNCHANGED <<ref, config, refereePaid>>
      BY <1>0, <1>2 DEF CompleteCount, AtFirstRates, Rests, Final
    <2>2. req' = [req EXCEPT ![p] = x]
      BY <1>0, <1>2 DEF CompleteCount, TypeOK
    <2>3. can \in BOOLEAN
      BY DEF CanReward
    <2> HIDE DEF can
    <2>4. pc \in {"payReferrer", "payReferee"}
      OBVIOUS
    <2> HIDE DEF pc
    <2>5. /\ x \in Request /\ x.pc = pc /\ x.row = req[p].row /\ x.user = req[p].user
          /\ x.holds = req[p].holds /\ x.config = FirstConfig
      BY <1>0, <2>1, <2>3, <2>4 DEF Request
    <2> HIDE DEF x
    <2>6. req'[p] = x
      BY <1>0, <2>2, <2>5, RequestMoves
    <2>7. AtFirstRates(p)' /\ \A u \in Users : HasPaid(p, u) => HasPaid(p, u)'
      BY <1>0, <2>1, <2>4, <2>5, <2>6 DEF AtFirstRates, Carries, HasPaid
    <2> QED BY <2>1, <2>2, <2>5, <2>7, WelcomeMoves
  <1>3. CASE PayReferrer(p)
    <2>1. /\ req[p].pc = "payReferrer" /\ req[p].config = FirstConfig
          /\ UNCHANGED <<ref, config, refereePaid>>
      BY <1>0, <1>3 DEF PayReferrer, AtFirstRates, Rests, Final
    <2>2. PICK x \in Request : /\ req' = [req EXCEPT ![p] = x] /\ x.pc = "payReferee"
                               /\ x.user = req[p].user /\ x.row = req[p].row
                               /\ x.holds = req[p].holds /\ x.config = req[p].config
      BY <1>0, <1>3, GoesOn DEF PayReferrer
    <2>3. req'[p] = x
      BY <1>0, <2>2, RequestMoves
    <2>4. AtFirstRates(p)' /\ \A u \in Users : HasPaid(p, u) => HasPaid(p, u)'
      BY <1>0, <2>1, <2>2, <2>3 DEF AtFirstRates, Carries, HasPaid
    <2> QED BY <2>1, <2>2, <2>4, WelcomeMoves
  <1>4. CASE PayReferee(p)
    <2>1. /\ req[p].user \in Users /\ req[p].pc = "payReferee" /\ req[p].config = FirstConfig
          /\ req[p].row.refereeXp = FirstConfig.xp /\ UNCHANGED <<ref, config>>
      BY <1>0, <1>4 DEF PayReferee, Parties, AtFirstRates, Carries, Rests, Final
    <2>2. refereePaid' = refereePaid
      BY <1>0, <1>4, <2>1 DEF PayReferee, TypeOK
    <2>3. PICK x \in Request : /\ req' = [req EXCEPT ![p] = x] /\ x.pc = "completeCommit"
                               /\ x.user = req[p].user /\ x.row = req[p].row
                               /\ x.holds = req[p].holds /\ x.config = req[p].config
      BY <1>0, <1>4, GoesOn DEF PayReferee
    <2>4. req'[p] = x
      BY <1>0, <2>3, RequestMoves
    <2>5. AtFirstRates(p)' /\ \A u \in Users : HasPaid(p, u) => HasPaid(p, u)'
      BY <1>0, <2>1, <2>3, <2>4 DEF AtFirstRates, Carries, HasPaid
    <2> QED BY <2>1, <2>2, <2>3, <2>5, WelcomeMoves
  <1>5. CASE ClaimCommit(p)
    <2>1. /\ req[p].user \in Users /\ req[p].row \in Row /\ req[p].row.status # "NONE"
          /\ req[p].row.refereeXp = FirstConfig.xp
      BY <1>0, <1>5 DEF ClaimCommit, Parties, Carried, AtFirstRates, Carries, Request, Final
    <2> QED BY <1>5, <2>1, WelcomeCommits DEF ClaimCommit
  <1>6. CASE CompleteCommit(p)
    <2> DEFINE new == CompletedRow(req[p].row, req[p].can, req[p].config)
    <2>1. /\ req[p].user \in Users /\ req[p].row.refereeXp = FirstConfig.xp
          /\ req[p].config = FirstConfig
      BY <1>0, <1>6 DEF CompleteCommit, Parties, AtFirstRates, Carries, Rests, Final
    <2>2. new \in Row /\ new.status = "COMPLETED"
          /\ new.refereeXp = (req[p].row.refereeXp \/ req[p].config.xp)
      <3>1. req[p].row \in Row /\ req[p].config \in Config /\ req[p].can \in BOOLEAN
        BY <1>0 DEF Request
      <3> QED BY <3>1, CompletedRowTyped
    <2>3. new.refereeXp = FirstConfig.xp
      BY <1>0, <2>1, <2>2 DEF Config
    <2>4. ref' = [ref EXCEPT ![req[p].user] = new]
      BY <1>6 DEF CompleteCommit, CompletedRow
    <2> HIDE DEF new
    <2> QED BY <1>6, <2>1, <2>2, <2>3, <2>4, WelcomeCommits DEF CompleteCommit
  <1> QED BY <1>1, <1>2, <1>3, <1>4, <1>5, <1>6

\* The first query of a claim or of a completion
LEMMA WelcomeCalls ==
    ASSUME RefInv, WelcomeInv, NEW p \in Procs, Call(p)
    PROVE  WelcomeInv'
  <1> DEFINE Begun(x) == /\ req' = [req EXCEPT ![p] = x] /\ x.config = FirstConfig /\ ~x.holds
                         /\ x.pc \in {"refused", "existing", "completeRead"}
  <1>0. TypeOK /\ config \in Config /\ config = FirstConfig
    BY DEF RefInv, TypeOK, WelcomeInv
  <1>1. ASSUME NEW u \in Users, NEW v \in Users, ClaimLoad(p, u, v)
        PROVE  \E x \in Request : Begun(x)
    <2> DEFINE none == [NewRequest EXCEPT !.op = "claim", !.pc = "refused"]
               some == [NewRequest EXCEPT !.op = "claim", !.user = u, !.owner = v,
                                          !.pc = "existing", !.config = config]
    <2>1. none \in Request /\ none.pc = "refused" /\ ~none.holds /\ none.config = FirstConfig
      BY NewTyped DEF Request, Final, NewRequest
    <2>2. some \in Request /\ some.pc = "existing" /\ ~some.holds /\ some.config = FirstConfig
      BY <1>0, NewTyped DEF Request, MaybeUser
    <2>3. req' = [req EXCEPT ![p] = none] \/ req' = [req EXCEPT ![p] = some]
      BY <1>1 DEF ClaimLoad
    <2> HIDE DEF none, some
    <2> QED BY <2>1, <2>2, <2>3
  <1>2. ASSUME NEW u \in Users, CompleteLoad(p, u)
        PROVE  \E x \in Request : Begun(x)
    <2> DEFINE x == [NewRequest EXCEPT !.op = "complete", !.user = u,
                                       !.pc = "completeRead", !.config = config]
    <2>1. x \in Request /\ x.pc = "completeRead" /\ ~x.holds /\ x.config = FirstConfig
      BY <1>0, NewTyped DEF Request, MaybeUser
    <2>2. req' = [req EXCEPT ![p] = x]
      BY <1>2 DEF CompleteLoad
    <2> HIDE DEF x
    <2> QED BY <2>1, <2>2
  <1>3. PICK x \in Request : Begun(x)
    BY <1>1, <1>2 DEF Call
  <1>4. req'[p] = x
    BY <1>0, <1>3, RequestMoves
  <1>5. AtFirstRates(p)'
    BY <1>3, <1>4 DEF AtFirstRates, Carries
  <1>6. ~req[p].holds /\ UNCHANGED <<ref, config, refereePaid>>
    BY DEF Call, ClaimLoad, CompleteLoad, RefInv, Parties, Final
  <1> QED BY <1>3, <1>5, <1>6, WelcomeMoves DEF HasPaid

\* It is inductive when the configuration is not changed and nothing is rolled back.
LEMMA WelcomeStep ==
    ASSUME Ops \cap {"config", "rollback"} = {}, RefInv, WelcomeInv, [Next]_vars
    PROVE  WelcomeInv'
  <1>1. ASSUME NEW p \in Procs, Step(p) \/ Call(p)
        PROVE  WelcomeInv'
    BY <1>1, WelcomeClaimSteps, WelcomeCompletionSteps, WelcomeCalls DEF Step
  <1>2. ASSUME UNCHANGED <<config, ref, refereePaid, req>>
        PROVE  WelcomeInv'
    BY <1>2 DEF WelcomeInv, AtFirstRates, HasPaid, Carries, Referred
  <1>3. ~UpdateConfig /\ \A p \in Procs : ~RollBack(p)
    BY DEF UpdateConfig, RollBack
  <1> QED BY <1>1, <1>2, <1>3 DEF Next, RecoverFind, Age, vars

\* Where the rewards are not reconfigured and no transaction is rolled back, the referee gets
\* the welcome bonus once, for any number of claims, retries and completions at once and
\* whatever the first rates are (590-631, 734-767, 973-1003).  Either of the two
\* operations breaks it, as README.md tells.
THEOREM WelcomeOnceHolds ==
    ASSUME Ops \cap {"config", "rollback"} = {}
    PROVE  Spec => []WelcomeOnce
  <1>1. RefInv /\ WelcomeInv /\ [Next]_vars => WelcomeInv'
    BY WelcomeStep
  <1>2. WelcomeInv => WelcomeOnce
    BY DEF WelcomeInv, WelcomeOnce
  <1> QED BY <1>1, <1>2, WelcomeInit, RefInvHolds, PTL DEF Spec

-----------------------------------------------------------------------------
(* The cap on the rewards of a referrer, and by how much completions that   *)
(* count the same rows may exceed it                                       *)

Running == {p \in Procs : req[p].pc \notin Rests}

\* The requests that found the referrer under the cap and have yet to record the reward
Grants(p, v) == /\ req[p].pc \in {"payReferrer", "payReferee", "completeCommit"}
                /\ req[p].can /\ req[p].row.referrer = v
Granting(v) == {p \in Procs : Grants(p, v)}

\* A transaction that will write a completed and rewarded row read it in the table.
Recorded(p) ==
    /\ req[p].holds /\ Carries(p)
    /\ req[p].row.status = "COMPLETED" /\ req[p].row.referrerXp
    => req[p].user \in Rewarded(req[p].row.referrer)

\* Rewards recorded and rewards granted are under the cap, but for the K - 1 other requests
\* that may have counted before one of them records.
CapInv(K) ==
    /\ \A v \in Users : Cardinality(Rewarded(v)) + Cardinality(Granting(v)) < MaxRewards + K
    /\ \A p \in Procs : Recorded(p)

FiniteInstance == IsFiniteSet(Users) /\ IsFiniteSet(Requests)

\* The rewards of a referrer are finitely many.
LEMMA CountsAreNumbers ==
    ASSUME FiniteInstance, NEW v
    PROVE  /\ IsFiniteSet(Rewarded(v)) /\ Cardinality(Rewarded(v)) \in Nat
           /\ IsFiniteSet(Granting(v)) /\ Cardinality(Granting(v)) \in Nat
  <1>1. IsFiniteSet(Procs)
    BY FS_AddElement DEF FiniteInstance, Procs
  <1>2. Rewarded(v) \subseteq Users /\ Granting(v) \subseteq Procs
    BY DEF Rewarded, Referred, Granting
  <1> QED BY <1>1, <1>2, FS_Subset, FS_CardinalityType DEF FiniteInstance

\* Fewer rewards and fewer grants are still under the cap.
LEMMA FewerCounts ==
    ASSUME FiniteInstance, NEW K \in Nat \ {0}, CapInv(K), NEW v \in Users,
           NEW S, NEW T, S \subseteq Rewarded(v), T \subseteq Granting(v)
    PROVE  Cardinality(S) + Cardinality(T) < MaxRewards + K
  <1>1. /\ Cardinality(S) \in Nat /\ Cardinality(S) <= Cardinality(Rewarded(v))
        /\ Cardinality(T) \in Nat /\ Cardinality(T) <= Cardinality(Granting(v))
        /\ Cardinality(Rewarded(v)) \in Nat /\ Cardinality(Granting(v)) \in Nat
    BY CountsAreNumbers, FS_Subset, FS_CardinalityType
  <1>2. Cardinality(Rewarded(v)) + Cardinality(Granting(v)) < MaxRewards + K /\ MaxRewards \in Nat
    BY ReferralBounds DEF CapInv
  <1> QED BY <1>1, <1>2

\* CapInv holds initially.
LEMMA CapInit == ASSUME NEW K \in Nat \ {0}, Init PROVE CapInv(K)
  <1>1. \A p \in Procs : req[p].pc = "new" /\ ~req[p].holds
    BY NewTyped DEF Init
  <1>2. \A v \in Users : Rewarded(v) = {} /\ Granting(v) = {}
    BY <1>1 DEF Init, Rewarded, Referred, NoRow, Granting, Grants
  <1>3. \A p \in Procs : Recorded(p)
    BY <1>1 DEF Recorded
  <1> QED BY <1>2, <1>3, FS_EmptySet, ReferralBounds DEF CapInv

\* A request moves without granting anything.
LEMMA CapMoves ==
    ASSUME FiniteInstance, RefInv, NEW K \in Nat \ {0}, CapInv(K),
           NEW p \in Procs, NEW x \in Request, req' = [req EXCEPT ![p] = x], UNCHANGED ref,
           \A v \in Users : Grants(p, v)' => Grants(p, v), Recorded(p)'
    PROVE  CapInv(K)'
  <1>1. \A q \in Procs \ {p} : req'[q] = req[q]
    BY RequestMoves DEF RefInv
  <1>2. \A v : Rewarded(v)' = Rewarded(v)
    BY DEF Rewarded, Referred
  <1>3. \A q \in Procs \ {p} : Recorded(q)' /\ \A v \in Users : Grants(q, v)' => Grants(q, v)
    BY <1>1, <1>2 DEF CapInv, Recorded, Carries, Grants
  <1> HIDE DEF Recorded, Grants
  <1>4. ASSUME NEW v \in Users
        PROVE  Cardinality(Rewarded(v)') + Cardinality(Granting(v)') < MaxRewards + K
    <2>1. Granting(v)' \subseteq Granting(v)
      BY <1>3 DEF Granting
    <2>2. Rewarded(v)' \subseteq Rewarded(v)
      BY <1>2
    <2> QED BY <2>1, <2>2, FewerCounts
  <1> QED BY <1>3, <1>4 DEF CapInv

\* A request that ends grants nothing.
LEMMA CapEnds ==
    ASSUME FiniteInstance, RefInv, NEW K \in Nat \ {0}, CapInv(K),
           NEW p \in Procs, NEW result \in Final, Finish(p, result), UNCHANGED ref
    PROVE  CapInv(K)'
  <1>1. PICK x \in Request : req' = [req EXCEPT ![p] = x] /\ x.pc \in Rests /\ ~x.holds
    BY Finishes DEF RefInv
  <1>2. req'[p] = x
    BY <1>1, RequestMoves DEF RefInv
  <1>3. Recorded(p)' /\ \A v \in Users : ~Grants(p, v)'
    BY <1>1, <1>2 DEF Recorded, Grants, Rests, Final
  <1> QED BY <1>1, <1>3, CapMoves

\* A request goes on with the row it carries, and grants nothing that it did not grant.
LEMMA CapGoesOn ==
    ASSUME FiniteInstance, RefInv, NEW K \in Nat \ {0}, CapInv(K),
           NEW p \in Procs, NEW pc \in {"retryCoins", "create", "commit", "payReferee",
                       "completeCommit", "completeRead", "cycle"}, Goto(p, pc), UNCHANGED ref,
           pc \in {"payReferee", "completeCommit"} =>
               req[p].pc \in {"payReferrer", "payReferee", "completeCommit"},
           req[p].holds => Carries(p)
    PROVE  CapInv(K)'
  <1>1. PICK x \in Request : /\ req' = [req EXCEPT ![p] = x] /\ x.pc = pc
                             /\ x.user = req[p].user /\ x.row = req[p].row
                             /\ x.holds = req[p].holds /\ x.can = req[p].can
    BY GoesOn DEF RefInv
  <1>2. req'[p] = x
    BY <1>1, RequestMoves DEF RefInv
  <1>3. \A v \in Users : Grants(p, v)' => Grants(p, v)
    BY <1>1, <1>2 DEF Grants
  <1>4. \A v : Rewarded(v)' = Rewarded(v)
    BY DEF Rewarded, Referred
  <1>5. Recorded(p)'
    BY <1>1, <1>2, <1>4 DEF Recorded, CapInv
  <1> QED BY <1>1, <1>3, <1>5, CapMoves

\* The steps of a claim and of a completion that do not write the referral
LEMMA CapSteps ==
    ASSUME FiniteInstance, RefInv, NEW K \in Nat \ {0}, CapInv(K), Cardinality(Running') <= K,
           NEW p \in Procs,
           \/ ClaimExisting(p) \/ RetryXp(p) \/ RetryCoins(p) \/ ClaimCycle(p)
           \/ ClaimCreate(p) \/ ClaimWelcome(p)
           \/ CompleteRead(p) \/ CompleteCount(p) \/ PayReferrer(p) \/ PayReferee(p)
           \/ RollBack(p)
    PROVE  CapInv(K)'
  <1>0. req[p] \in Request /\ Parties(p) /\ Carried(p) /\ TypeOK /\ Recorded(p)
    BY DEF RefInv, TypeOK, CapInv
  <1>a. ASSUME ref' = ref PROVE \A v : Rewarded(v)' = Rewarded(v)
    BY <1>a DEF Rewarded, Referred
  <1>1. CASE ClaimExisting(p)
    <2> DEFINE row == ref[req[p].user]
    <2>1. req[p].pc = "existing" /\ req[p].user \in Users /\ ref' = ref
      BY <1>0, <1>1 DEF ClaimExisting, Parties, Final
    <2>2. CASE Goto(p, "cycle")
      <3>1. PICK x \in Request : req' = [req EXCEPT ![p] = x] /\ x.pc = "cycle"
        BY <1>0, <2>2, GoesOn
      <3>2. req'[p] = x
        BY <1>0, <3>1, RequestMoves
      <3>3. Recorded(p)' /\ \A v \in Users : ~Grants(p, v)'
        BY <3>1, <3>2 DEF Recorded, Carries, Grants
      <3> QED BY <2>1, <3>1, <3>3, CapMoves
    <2>3. CASE row # NoRow /\ row.referrer = req[p].owner
      <3> DEFINE pc == IF ~row.refereeXp /\ req[p].config.xp THEN "retryXp" ELSE "retryCoins"
                 x == [[req[p] EXCEPT !.row = row] EXCEPT !.pc = pc]
      <3>1. req' = [req EXCEPT ![p] = x]
        BY <1>0, <1>1, <2>3 DEF ClaimExisting, TypeOK, Request
      <3>2. pc \in {"retryXp", "retryCoins"} /\ row \in Row
        BY <1>0, <2>1 DEF TypeOK
      <3>3. row.status = "COMPLETED" /\ row.referrerXp => req[p].user \in Rewarded(row.referrer)
        BY <2>1 DEF Rewarded, Referred
      <3> HIDE DEF pc, row
      <3>4. x \in Request /\ x.row = row /\ x.pc = pc /\ x.user = req[p].user
        BY <1>0, <3>2 DEF Request
      <3> HIDE DEF x
      <3>5. req'[p] = x
        BY <1>0, <3>1, <3>4, RequestMoves
      <3>6. \A v \in Users : ~Grants(p, v)'
        BY <3>2, <3>4, <3>5 DEF Grants
      <3>7. Recorded(p)'
        BY <1>a, <2>1, <3>3, <3>4, <3>5 DEF Recorded
      <3> QED BY <2>1, <3>1, <3>4, <3>6, <3>7, CapMoves
    <2>4. CASE Finish(p, "refused")
      BY <2>1, <2>4, CapEnds DEF Final
    <2> QED BY <1>1, <2>2, <2>3, <2>4 DEF ClaimExisting
  <1>2. CASE RetryXp(p)
    BY <1>2, CapGoesOn DEF RetryXp, Carries
  <1>3. CASE RetryCoins(p)
    <2> DEFINE next == IF req[p].row.status = "COMPLETED" \/ RequireActivity THEN "commit"
                       ELSE "completeRead"
               row == [[ref[req[p].user] EXCEPT !.refereeXp = req[p].config.xp]
                                         EXCEPT !.refereeCoins = TRUE]
               x == [[[req[p] EXCEPT !.holds = TRUE] EXCEPT !.pc = next] EXCEPT !.row = row]
    <2>1. req[p].user \in Users /\ req[p].pc = "retryCoins" /\ ref' = ref /\ Carries(p)
      BY <1>0, <1>3 DEF RetryCoins, Parties, Carries, Final
    <2>2. CASE req' = [req EXCEPT ![p] = x]
      <3>1. next \in {"commit", "completeRead"}
        OBVIOUS
      <3> HIDE DEF next
      <3>2. ref[req[p].user] \in Row /\ req[p].config \in Config
        BY <1>0, <2>1 DEF TypeOK, Request
      <3>3. /\ row \in Row /\ row.status = ref[req[p].user].status
            /\ row.referrer = ref[req[p].user].referrer
            /\ row.referrerXp = ref[req[p].user].referrerXp
        BY <3>2 DEF Row, Config
      <3> HIDE DEF row
      <3>4. row.status = "COMPLETED" /\ row.referrerXp => req[p].user \in Rewarded(row.referrer)
        BY <2>1, <3>3 DEF Rewarded, Referred
      <3>5. x \in Request /\ x.pc = next /\ x.row = row /\ x.user = req[p].user
        BY <1>0, <3>1, <3>3 DEF Request
      <3> HIDE DEF x
      <3>6. req'[p] = x
        BY <1>0, <2>2, <3>5, RequestMoves
      <3>7. \A v \in Users : ~Grants(p, v)'
        BY <3>1, <3>5, <3>6 DEF Grants
      <3>8. Recorded(p)'
        BY <1>a, <2>1, <3>4, <3>5, <3>6 DEF Recorded
      <3> QED BY <2>1, <2>2, <3>5, <3>7, <3>8, CapMoves
    <2>3. CASE Finish(p, "ok")
      BY <2>1, <2>3, CapEnds DEF Final
    <2>4. CASE Goto(p, "completeRead")
      BY <2>1, <2>4, CapGoesOn
    <2>5. \/ req' = [req EXCEPT ![p] = x]
          \/ Finish(p, "ok") \/ Goto(p, "completeRead")
      BY <1>3 DEF RetryCoins
    <2> HIDE DEF x, next
    <2> QED BY <2>2, <2>3, <2>4, <2>5
  <1>4. CASE ClaimCycle(p)
    <2>1. req[p].pc = "cycle" /\ ref' = ref
      BY <1>4 DEF ClaimCycle
    <2>2. CASE Goto(p, "create")
      <3>1. PICK x \in Request : req' = [req EXCEPT ![p] = x] /\ x.pc = "create"
        BY <1>0, <2>2, GoesOn
      <3>2. req'[p] = x
        BY <1>0, <3>1, RequestMoves
      <3>3. Recorded(p)' /\ \A v \in Users : ~Grants(p, v)'
        BY <3>1, <3>2 DEF Recorded, Carries, Grants
      <3> QED BY <2>1, <3>1, <3>3, CapMoves
    <2>3. CASE Finish(p, "refused")
      BY <2>1, <2>3, CapEnds DEF Final
    <2> QED BY <1>4, <2>2, <2>3 DEF ClaimCycle
  <1>5. CASE ClaimCreate(p)
    <2> DEFINE x == [[req[p] EXCEPT !.pc = "welcome"] EXCEPT !.holds = TRUE]
    <2>1. CASE Finish(p, "refused")
      BY <1>5, <2>1, CapEnds DEF ClaimCreate, Final
    <2>2. CASE req' = [req EXCEPT ![p] = x]
      <3>1. x \in Request /\ x.pc = "welcome"
        BY <1>0 DEF Request
      <3> HIDE DEF x
      <3>2. req'[p] = x
        BY <1>0, <2>2, <3>1, RequestMoves
      <3>3. Recorded(p)' /\ \A v \in Users : ~Grants(p, v)'
        BY <3>1, <3>2 DEF Recorded, Carries, Grants
      <3>4. ref' = ref
        BY <1>5 DEF ClaimCreate
      <3> QED BY <2>2, <3>1, <3>3, <3>4, CapMoves
    <2> QED BY <1>0, <1>5, <2>1, <2>2 DEF ClaimCreate, TypeOK
  <1>6. CASE ClaimWelcome(p)
    <2> DEFINE row == [[[[NoRow EXCEPT !.referrer = req[p].owner] EXCEPT !.status = "PENDING"]
                                EXCEPT !.refereeXp = req[p].config.xp]
                                EXCEPT !.refereeCoins = req[p].config.coins]
               next == IF RequireActivity THEN "commit" ELSE "completeRead"
               x == [[req[p] EXCEPT !.row = row] EXCEPT !.pc = next]
    <2>1. next \in {"commit", "completeRead"} /\ ref' = ref
      BY <1>6 DEF ClaimWelcome
    <2>2. req[p].owner \in Users /\ req[p].config \in Config
      BY <1>0, <1>6 DEF ClaimWelcome, Parties, Request
    <2>3. row \in Row /\ row.status = "PENDING"
      BY <2>2 DEF Row, NoRow, Config, MaybeUser
    <2>4. req' = [req EXCEPT ![p] = x]
      BY <1>0, <1>6 DEF ClaimWelcome, TypeOK
    <2> HIDE DEF row, next
    <2>5. x \in Request /\ x.pc = next /\ x.row = row
      BY <1>0, <2>1, <2>3 DEF Request
    <2> HIDE DEF x
    <2>6. req'[p] = x
      BY <1>0, <2>4, <2>5, RequestMoves
    <2>7. Recorded(p)' /\ \A v \in Users : ~Grants(p, v)'
      BY <2>1, <2>3, <2>5, <2>6 DEF Recorded, Grants
    <2> QED BY <2>1, <2>4, <2>5, <2>7, CapMoves
  <1>7. CASE CompleteRead(p)
    <2> DEFINE row == IF req[p].holds THEN req[p].row ELSE ref[req[p].user]
               x == [[req[p] EXCEPT !.pc = "completeCount"] EXCEPT !.row = row]
    <2>1. req[p].user \in Users /\ req[p].pc = "completeRead" /\ ref' = ref
      BY <1>0, <1>7 DEF CompleteRead, Parties, Final
    <2>2. CASE row.status = "PENDING"
      <3>1. req' = [req EXCEPT ![p] = x] /\ row \in Row
        BY <1>0, <1>7, <2>1, <2>2 DEF CompleteRead, TypeOK, Request
      <3> HIDE DEF row
      <3>2. x \in Request /\ x.pc = "completeCount" /\ x.row = row
        BY <1>0, <3>1 DEF Request
      <3> HIDE DEF x
      <3>3. req'[p] = x
        BY <1>0, <3>1, <3>2, RequestMoves
      <3>4. Recorded(p)' /\ \A v \in Users : ~Grants(p, v)'
        BY <2>2, <3>2, <3>3 DEF Recorded, Grants
      <3> QED BY <2>1, <3>1, <3>2, <3>4, CapMoves
    <2>3. CASE Goto(p, "commit") /\ req[p].holds
      <3>1. Goto(p, "commit") /\ Carries(p)
        BY <2>1, <2>3 DEF Carries
      <3> QED BY <2>1, <3>1, CapGoesOn
    <2>4. CASE Finish(p, "ok") \/ Finish(p, "refused")
      BY <2>1, <2>4, CapEnds DEF Final
    <2> HIDE DEF x
    <2> QED BY <1>7, <2>2, <2>3, <2>4 DEF CompleteRead
  <1>8. CASE CompleteCount(p)
    <2> DEFINE can == CanReward(req[p].row.referrer)
               pc == IF can THEN "payReferrer" ELSE "payReferee"
               x == [[req[p] EXCEPT !.can = can] EXCEPT !.pc = pc]
    <2>1. req[p].pc = "completeCount" /\ Carries(p) /\ ref' = ref
      BY <1>8 DEF CompleteCount, Carries
    <2>2. req' = [req EXCEPT ![p] = x]
      BY <1>0, <1>8 DEF CompleteCount, TypeOK
    <2>3. can \in BOOLEAN
      BY DEF CanReward
    <2>4. can => Cardinality(Rewarded(req[p].row.referrer)) < MaxRewards
      BY DEF CanReward
    <2> HIDE DEF can
    <2>5. pc \in {"payReferrer", "payReferee"}
      OBVIOUS
    <2> HIDE DEF pc
    <2>6. /\ x \in Request /\ x.pc = pc /\ x.row = req[p].row /\ x.user = req[p].user
          /\ x.holds = req[p].holds /\ x.can = can
      BY <1>0, <2>3, <2>5 DEF Request
    <2> HIDE DEF x
    <2>7. req'[p] = x /\ \A q \in Procs \ {p} : req'[q] = req[q]
      BY <1>0, <2>2, <2>6, RequestMoves
    <2>8. \A q \in Procs \ {p} : Recorded(q)' /\ \A v \in Users : Grants(q, v)' <=> Grants(q, v)
      BY <1>a, <2>1, <2>7 DEF CapInv, Recorded, Carries, Grants
    <2>9. Recorded(p)'
      BY <1>0, <1>a, <2>1, <2>6, <2>7 DEF Recorded
    <2>10. \A v \in Users : Grants(p, v)' => can /\ v = req[p].row.referrer
      BY <2>6, <2>7 DEF Grants
    <2>11. ASSUME NEW v \in Users
           PROVE  Cardinality(Rewarded(v)') + Cardinality(Granting(v)') < MaxRewards + K
      <3>1. Rewarded(v)' = Rewarded(v)
        BY <1>a, <2>1
      <3>2. CASE ~Grants(p, v)'
        <4>1. Granting(v)' \subseteq Granting(v)
          BY <2>8, <3>2 DEF Granting
        <4>2. Rewarded(v)' \subseteq Rewarded(v)
          BY <3>1
        <4> QED BY <4>1, <4>2, FewerCounts
      <3>3. CASE Grants(p, v)'
        <4>1. Cardinality(Rewarded(v)') < MaxRewards
          BY <2>4, <2>10, <3>1, <3>3
        <4>2. Granting(v)' \subseteq Running'
          BY DEF Granting, Grants, Running, Rests, Final
        <4>3. IsFiniteSet(Running')
          <5>1. IsFiniteSet(Procs) /\ Running' \subseteq Procs
            BY FS_AddElement DEF FiniteInstance, Procs, Running
          <5> QED BY <5>1, FS_Subset
        <4>4. /\ Cardinality(Granting(v)') \in Nat /\ Cardinality(Running') \in Nat
              /\ Cardinality(Granting(v)') <= Cardinality(Running')
          BY <4>2, <4>3, FS_Subset, FS_CardinalityType
        <4>5. Cardinality(Rewarded(v)') \in Nat
          BY <3>1, CountsAreNumbers
        <4> QED BY <4>1, <4>4, <4>5, ReferralBounds
      <3> QED BY <3>2, <3>3
    <2> HIDE DEF Recorded
    <2> QED BY <2>8, <2>9, <2>11 DEF CapInv
  <1>9. CASE PayReferrer(p)
    BY <1>9, CapGoesOn DEF PayReferrer, Carries
  <1>10. CASE PayReferee(p)
    BY <1>10, CapGoesOn DEF PayReferee, Carries
  <1>11. CASE RollBack(p)
    BY <1>11, CapEnds DEF RollBack, Final
  <1> QED BY <1>1, <1>2, <1>3, <1>4, <1>5, <1>6, <1>7, <1>8, <1>9, <1>10, <1>11

\* The commits of a claim, which records a reward only if the table has it already, and of a
\* completion, which records what it was granted
LEMMA CapCommits ==
    ASSUME FiniteInstance, RefInv, NEW K \in Nat \ {0}, CapInv(K), NEW p \in Procs,
           ClaimCommit(p) \/ CompleteCommit(p)
    PROVE  CapInv(K)'
  <1>0. /\ req[p] \in Request /\ Parties(p) /\ Carried(p) /\ TypeOK /\ Recorded(p)
        /\ req[p].pc \in {"commit", "completeCommit"} /\ Carries(p)
    BY DEF RefInv, TypeOK, CapInv, ClaimCommit, CompleteCommit, Carries
  <1>1. PICK u \in Users : u = req[p].user
    BY <1>0 DEF Parties, Final
  <1>2. PICK new \in Row : /\ ref' = [ref EXCEPT ![u] = new] /\ new.referrer = req[p].row.referrer
                           /\ new.status = "COMPLETED" /\ new.referrerXp =>
                                  \/ u \in Rewarded(new.referrer)
                                  \/ Grants(p, new.referrer)
    <2>1. CASE ClaimCommit(p)
      <3>1. req[p].row \in Row /\ req[p].holds
        BY <1>0, <2>1 DEF Request, ClaimCommit, Parties
      <3> QED BY <1>0, <1>1, <2>1, <3>1 DEF ClaimCommit, Recorded
    <2>2. CASE CompleteCommit(p)
      <3> DEFINE new == CompletedRow(req[p].row, req[p].can, req[p].config)
      <3>1. req[p].row \in Row /\ req[p].config \in Config /\ req[p].can \in BOOLEAN
        BY <1>0 DEF Request
      <3>2. /\ new \in Row /\ new.referrerXp = req[p].can /\ new.referrer = req[p].row.referrer
        BY <3>1, CompletedRowTyped
      <3>3. ref' = [ref EXCEPT ![u] = new]
        BY <1>1, <2>2 DEF CompleteCommit, CompletedRow
      <3> HIDE DEF new
      <3>4. req[p].pc = "completeCommit"
        BY <2>2 DEF CompleteCommit
      <3> QED BY <3>2, <3>3, <3>4 DEF Grants
    <2> QED BY <2>1, <2>2
  <1>3. PICK x \in Request : req' = [req EXCEPT ![p] = x] /\ x.pc \in Rests /\ ~x.holds
    BY <1>0, Finishes DEF ClaimCommit, CompleteCommit, Final
  <1>4. req'[p] = x /\ \A q \in Procs \ {p} : req'[q] = req[q]
    BY <1>0, <1>3, RequestMoves
  <1>5. ref'[u] = new /\ \A w \in Users \ {u} : ref'[w] = ref[w]
    BY <1>0, <1>2 DEF TypeOK
  <1>6. u \in Referred => ref[u].referrer = new.referrer
    BY <1>0, <1>1, <1>2 DEF Carried
  <1>7. \A v \in Users : /\ Rewarded(v)' \subseteq Rewarded(v) \cup {u}
                         /\ Rewarded(v) \subseteq Rewarded(v)' \cup {u}
    BY <1>5 DEF Rewarded, Referred
  <1>8. \A q \in Procs \ {p} : req[q].holds => req[q].user # u
    BY <1>0, <1>1 DEF RefInv, Exclusive, Parties, Free, ClaimCommit, CompleteCommit
  <1>9. ASSUME NEW q \in Procs
        PROVE  Recorded(q)'
    <2>1. CASE q = p
      BY <1>3, <1>4, <2>1 DEF Recorded
    <2>2. CASE q # p
      <3>1. req'[q] = req[q] /\ Recorded(q) /\ Carried(q)
        BY <1>4, <2>2 DEF CapInv, RefInv
      <3>2. Carries(q)' <=> Carries(q)
        BY <3>1 DEF Carries
      <3>3. Carries(q) => req[q].row.referrer \in Users
        BY <3>1 DEF Carried
      <3> QED BY <1>7, <1>8, <2>2, <3>1, <3>2, <3>3 DEF Recorded
    <2> QED BY <2>1, <2>2
  <1>10. /\ \A q \in Procs \ {p} : \A v \in Users : Grants(q, v)' <=> Grants(q, v)
         /\ \A v \in Users : ~Grants(p, v)'
    BY <1>3, <1>4 DEF Grants, Rests, Final
  <1>11. ASSUME NEW v \in Users
         PROVE  Cardinality(Rewarded(v)') + Cardinality(Granting(v)') < MaxRewards + K
    <2>1. Granting(v)' \subseteq Granting(v)
      BY <1>10 DEF Granting
    <2>2. CASE Rewarded(v)' \subseteq Rewarded(v)
      BY <2>1, <2>2, FewerCounts
    <2>3. CASE ~(Rewarded(v)' \subseteq Rewarded(v))
      <3>1. u \in Rewarded(v)' /\ u \notin Rewarded(v)
        BY <1>7, <2>3
      <3>2. new.referrer = v /\ new.status = "COMPLETED" /\ new.referrerXp
        BY <1>5, <3>1 DEF Rewarded
      <3>3. p \in Granting(v) /\ Granting(v)' \subseteq Granting(v) \ {p}
        BY <1>2, <1>10, <2>1, <3>1, <3>2 DEF Granting
      <3>4. Cardinality(Granting(v) \ {p}) = Cardinality(Granting(v)) - 1
            /\ IsFiniteSet(Granting(v) \ {p})
        BY <3>3, CountsAreNumbers, FS_RemoveElement
      <3>5. /\ Cardinality(Granting(v)') \in Nat
            /\ Cardinality(Granting(v)') <= Cardinality(Granting(v)) - 1
        BY <3>3, <3>4, FS_Subset, FS_CardinalityType
      <3>6. Cardinality(Rewarded(v) \cup {u}) = Cardinality(Rewarded(v)) + 1
            /\ IsFiniteSet(Rewarded(v) \cup {u})
        BY <3>1, CountsAreNumbers, FS_AddElement
      <3>7. /\ Cardinality(Rewarded(v)') \in Nat
            /\ Cardinality(Rewarded(v)') <= Cardinality(Rewarded(v)) + 1
        BY <1>7, <3>6, FS_Subset, FS_CardinalityType
      <3>8. /\ Cardinality(Rewarded(v)) + Cardinality(Granting(v)) < MaxRewards + K
            /\ MaxRewards \in Nat
            /\ Cardinality(Rewarded(v)) \in Nat /\ Cardinality(Granting(v)) \in Nat
        BY CountsAreNumbers, ReferralBounds DEF CapInv
      <3> QED BY <3>5, <3>7, <3>8
    <2> QED BY <2>2, <2>3
  <1> HIDE DEF Recorded
  <1> QED BY <1>9, <1>11 DEF CapInv

\* A call begins without a row, at the first query of a claim or of a completion.
LEMMA CallBegins ==
    ASSUME TypeOK, NEW p \in Procs, Call(p)
    PROVE  /\ ref' = ref
           /\ \E x \in Request : /\ req' = [req EXCEPT ![p] = x] /\ ~x.holds
                                 /\ x.pc \in {"refused", "existing", "completeRead"}
  <1> DEFINE Begun(x) == /\ req' = [req EXCEPT ![p] = x] /\ ~x.holds
                         /\ x.pc \in {"refused", "existing", "completeRead"}
  <1>0. config \in Config
    BY DEF TypeOK
  <1>1. ASSUME NEW u \in Users, NEW v \in Users, ClaimLoad(p, u, v)
        PROVE  \E x \in Request : Begun(x)
    <2> DEFINE none == [NewRequest EXCEPT !.op = "claim", !.pc = "refused"]
               some == [NewRequest EXCEPT !.op = "claim", !.user = u, !.owner = v,
                                          !.pc = "existing", !.config = config]
    <2>1. none \in Request /\ none.pc = "refused" /\ ~none.holds
      BY NewTyped DEF Request, Final
    <2>2. some \in Request /\ some.pc = "existing" /\ ~some.holds
      BY <1>0, NewTyped DEF Request, MaybeUser
    <2>3. req' = [req EXCEPT ![p] = none] \/ req' = [req EXCEPT ![p] = some]
      BY <1>1 DEF ClaimLoad
    <2> HIDE DEF none, some
    <2> QED BY <2>1, <2>2, <2>3
  <1>2. ASSUME NEW u \in Users, CompleteLoad(p, u)
        PROVE  \E x \in Request : Begun(x)
    <2> DEFINE x == [NewRequest EXCEPT !.op = "complete", !.user = u,
                                       !.pc = "completeRead", !.config = config]
    <2>1. x \in Request /\ x.pc = "completeRead" /\ ~x.holds
      BY <1>0, NewTyped DEF Request, MaybeUser
    <2>2. req' = [req EXCEPT ![p] = x]
      BY <1>2 DEF CompleteLoad
    <2> HIDE DEF x
    <2> QED BY <2>1, <2>2
  <1>3. ref' = ref
    BY DEF Call, ClaimLoad, CompleteLoad
  <1> QED BY <1>1, <1>2, <1>3 DEF Call

\* CapInv is inductive.
LEMMA CapStep ==
    ASSUME FiniteInstance, RefInv, NEW K \in Nat \ {0}, CapInv(K), Cardinality(Running') <= K,
           [Next]_vars
    PROVE  CapInv(K)'
  <1>1. ASSUME NEW p \in Procs, Step(p) \/ RollBack(p)
        PROVE  CapInv(K)'
    BY <1>1, CapSteps, CapCommits DEF Step
  <1>2. ASSUME NEW p \in Procs, Call(p)
        PROVE  CapInv(K)'
    <2>1. PICK x \in Request : /\ req' = [req EXCEPT ![p] = x] /\ ~x.holds
                               /\ x.pc \in {"refused", "existing", "completeRead"}
      BY <1>2, CallBegins DEF RefInv
    <2>2. req'[p] = x
      BY <2>1, RequestMoves DEF RefInv
    <2>3. Recorded(p)' /\ \A v \in Users : ~Grants(p, v)'
      BY <2>1, <2>2 DEF Recorded, Grants
    <2>4. ref' = ref
      BY <1>2, CallBegins DEF RefInv
    <2> QED BY <2>1, <2>3, <2>4, CapMoves
  <1>3. ASSUME UNCHANGED <<ref, req>>
        PROVE  CapInv(K)'
    BY <1>3 DEF CapInv, Recorded, Carries, Rewarded, Referred, Granting, Grants
  <1> QED BY <1>1, <1>2, <1>3 DEF Next, UpdateConfig, RecoverFind, Age, vars

\* If at most K requests run at once, no more than K - 1 referrals of a referrer are rewarded
\* beyond the cap, whatever claims, completions, configuration changes and rollbacks
\* cross (933-945): the race between the count and the commit is no worse than that.
THEOREM OvershootIsBounded ==
    ASSUME FiniteInstance, NEW K \in Nat \ {0}
    PROVE  Spec /\ [](Cardinality(Running) <= K)
             => [](\A v \in Users : Cardinality(Rewarded(v)) < MaxRewards + K)
  <1>1. Init => CapInv(K)
    BY CapInit
  <1>2. RefInv /\ CapInv(K) /\ (Cardinality(Running) <= K)' /\ [Next]_vars => CapInv(K)'
    BY CapStep
  <1>3. CapInv(K) => \A v \in Users : Cardinality(Rewarded(v)) < MaxRewards + K
    <2> SUFFICES ASSUME CapInv(K), NEW v \in Users
                 PROVE  Cardinality(Rewarded(v)) < MaxRewards + K
      OBVIOUS
    <2> QED BY CountsAreNumbers, ReferralBounds DEF CapInv
  <1> QED BY <1>1, <1>2, <1>3, RefInvHolds, PTL DEF Spec

\* Requests one after the other: a call waits until every other request has returned.
LEMMA OneAtATime ==
    ASSUME "serial" \in Ops
    PROVE  Spec => [](\A p, q \in Running : p = q)
  <1> DEFINE Alone == \A p, q \in Running : p = q
  <1>1. Init => Alone
    BY NewTyped DEF Init, Running, Rests
  <1>2. RefInv /\ Alone /\ [Next]_vars => Alone'
    <2> SUFFICES ASSUME RefInv, Alone, [Next]_vars PROVE Alone'
      OBVIOUS
    <2>1. ASSUME NEW p \in Procs, Call(p)
          PROVE  Alone'
      <3>1. \A q \in Procs : req[q].pc \in Rests
        BY <2>1 DEF Call, ClaimLoad, CompleteLoad, Resting, Rests
      <3>2. \A q \in Procs \ {p} : req'[q] = req[q]
        BY <2>1 DEF Call, ClaimLoad, CompleteLoad, RefInv, TypeOK
      <3> QED BY <3>1, <3>2 DEF Running
    <2>2. ASSUME NEW p \in Procs, Step(p) \/ RollBack(p)
          PROVE  Alone'
      <3>1. p \in Running
        BY <2>2 DEF Step, RollBack, Running, Rests, Final, ClaimExisting, RetryXp, RetryCoins,
            ClaimCycle, ClaimCreate, ClaimWelcome, ClaimCommit, CompleteRead, CompleteCount,
            PayReferrer, PayReferee, CompleteCommit
      <3>2. \A q \in Procs \ {p} : req'[q] = req[q]
        BY <2>2 DEF Step, RollBack, RefInv, TypeOK, Goto, Finish, ClaimExisting, RetryXp,
            RetryCoins, ClaimCycle, ClaimCreate, ClaimWelcome, ClaimCommit, CompleteRead,
            CompleteCount, PayReferrer, PayReferee, CompleteCommit
      <3> QED BY <3>1, <3>2 DEF Running
    <2>3. ASSUME req' = req PROVE Alone'
      BY <2>3 DEF Running
    <2> QED BY <2>1, <2>2, <2>3 DEF Next, UpdateConfig, RecoverFind, Age, vars
  <1> QED BY <1>1, <1>2, RefInvHolds, PTL DEF Spec

\* For requests one after the other, no more than maxRewardsPerReferrer referrals of one
\* referrer are rewarded, with any configuration changes, retries and rollbacks (933-945).
THEOREM RewardsCappedHolds ==
    ASSUME FiniteInstance, "serial" \in Ops
    PROVE  Spec => []RewardsCapped
  <1>1. (\A p, q \in Running : p = q) => Cardinality(Running) <= 1
    <2> SUFFICES ASSUME \A p, q \in Running : p = q PROVE Cardinality(Running) <= 1
      OBVIOUS
    <2>1. CASE Running = {}
      BY <2>1, FS_EmptySet
    <2>2. ASSUME NEW p \in Running PROVE Cardinality(Running) <= 1
      <3>1. Running = {p}
        OBVIOUS
      <3>2. Cardinality({p}) = 1
        BY FS_Singleton
      <3> QED BY <3>1, <3>2
    <2> QED BY <2>1, <2>2
  <1>2. Init => CapInv(1)
    BY CapInit
  <1>3. RefInv /\ CapInv(1) /\ (Cardinality(Running) <= 1)' /\ [Next]_vars => CapInv(1)'
    BY CapStep
  <1>4. CapInv(1) => RewardsCapped
    <2> SUFFICES ASSUME CapInv(1), NEW v \in Users
                 PROVE  Cardinality(Rewarded(v)) <= MaxRewards
      BY DEF RewardsCapped
    <2> QED BY CountsAreNumbers, ReferralBounds DEF CapInv
  <1> QED BY <1>1, <1>2, <1>3, <1>4, OneAtATime, RefInvHolds, PTL DEF Spec

-----------------------------------------------------------------------------
(* Walks in a graph of referrals                                           *)

\* A nonempty set of numbers has a smallest one: the sets 0 .. i of its numbers are finite,
\* and strict inclusion is well founded on finite sets.
LEMMA Least ==
    ASSUME NEW S, S \subseteq Nat, S # {}
    PROVE  \E m \in S : \A k \in S : m <= k
  <1> DEFINE T == {0 .. i : i \in S}
  <1>1. T \subseteq FiniteSubsetsOf(Nat)
    <2> SUFFICES ASSUME NEW i \in S PROVE 0 .. i \in FiniteSubsetsOf(Nat)
      OBVIOUS
    <2>1. i \in Int /\ 0 \in Int
      OBVIOUS
    <2>2. IsFiniteSet(0 .. i)
      BY <2>1, FS_Interval
    <2>3. 0 .. i \subseteq Nat
      OBVIOUS
    <2> QED BY <2>2, <2>3 DEF FiniteSubsetsOf
  <1>2. T # {}
    OBVIOUS
  <1>3. PICK x \in T : \A y \in T : ~(<<y, x>> \in StrictSubsetOrdering(Nat))
    <2>1. IsWellFoundedOn(StrictSubsetOrdering(Nat), FiniteSubsetsOf(Nat))
      BY FS_StrictSubsetOrderingWellFounded
    <2> HIDE DEF T
    <2> QED BY <1>1, <1>2, <2>1, WFMin
  <1>4. PICK m \in S : x = 0 .. m
    OBVIOUS
  <1>5. ASSUME NEW k \in S, k < m PROVE FALSE
    <2>1. <<0 .. k, 0 .. m>> \notin StrictSubsetOrdering(Nat)
      BY <1>3, <1>4
    <2>2. 0 .. k \subseteq 0 .. m /\ m \in 0 .. m /\ m \notin 0 .. k
      BY <1>5
    <2>3. 0 .. k \in SUBSET Nat /\ 0 .. m \in SUBSET Nat /\ 0 .. k # 0 .. m
      BY <2>2
    <2> QED BY <2>1, <2>2, <2>3 DEF StrictSubsetOrdering
  <1> QED BY <1>5

\* f follows n edges of the relation E.
Follows(E, f, n) == \A i \in 1 .. n : <<f[i - 1], f[i]>> \in E

\* A closed walk through a new edge <<u, v>> holds a walk from v back to u that does without
\* the edge, and is shorter: from the last use of the edge, round to the first.
LEMMA NewEdge ==
    ASSUME NEW E, NEW u \in Users, NEW v \in Users, u # v, NEW n \in Nat \ {0},
           NEW f \in Path(n), f[n] = f[0], Follows(E \cup {<<u, v>>}, f, n),
           ~Follows(E, f, n)
    PROVE  \E m \in 1 .. n - 1 : \E h \in Path(m) :
              h[0] = v /\ h[m] = u /\ Follows(E, h, m)
  <1> USE DEF Path
  <1> DEFINE New == {i \in 1 .. n : <<f[i - 1], f[i]>> = <<u, v>>}
  <1>1. \A i \in (1 .. n) \ New : <<f[i - 1], f[i]>> \in E
    BY DEF Follows
  <1>2. New # {}
    BY <1>1 DEF Follows
  <1>3. PICK first \in New : \A k \in New : first <= k
    <2>1. New \subseteq Nat
      OBVIOUS
    <2> HIDE DEF New
    <2> QED BY <1>2, <2>1, Least
  <1>4. PICK last \in New : \A k \in New : k <= last
    <2> DEFINE Gap == {n - i : i \in New}
    <2>1. Gap \subseteq Nat /\ Gap # {}
      BY <1>2
    <2>2. PICK g \in Gap : \A k \in Gap : g <= k
      <3> HIDE DEF Gap
      <3> QED BY <2>1, Least
    <2>3. PICK last \in New : g = n - last
      OBVIOUS
    <2>4. \A k \in New : n - last <= n - k
      BY <2>2, <2>3
    <2>5. \A k \in New : k \in Int
      OBVIOUS
    <2> QED BY <2>4, <2>5
  <1> DEFINE d == n - last
             m == d + first - 1
             h == [k \in 0 .. m |-> IF k <= d THEN f[last + k] ELSE f[k - d]]
  <1>5. /\ first \in 1 .. n /\ last \in 1 .. n /\ first <= last
        /\ f[first - 1] = u /\ f[last] = v
    BY <1>4
  <1>6. d \in Nat /\ m \in Nat /\ m <= n - 1 /\ d <= m
    BY <1>5
  <1>7. h \in Path(m)
    BY <1>5, <1>6
  <1>8. h[0] = v
    BY <1>5, <1>6
  <1>9. h[m] = u
    <2>1. CASE first = 1
      BY <1>5, <1>6, <2>1
    <2>2. CASE first # 1
      BY <1>5, <1>6, <2>2
    <2> QED BY <2>1, <2>2
  <1>10. m # 0
    BY <1>8, <1>9
  <1>11. Follows(E, h, m)
    <2> SUFFICES ASSUME NEW k \in 1 .. m PROVE <<h[k - 1], h[k]>> \in E
      BY DEF Follows
    <2>1. k \in 0 .. m /\ k - 1 \in 0 .. m
      BY <1>6
    <2>2. CASE k <= d
      <3>1. h[k - 1] = f[last + k - 1] /\ h[k] = f[last + k]
        BY <1>5, <1>6, <2>1, <2>2
      <3>2. last + k \in (1 .. n) \ New
        BY <1>4, <1>5, <1>6, <2>2
      <3> QED BY <1>1, <3>1, <3>2
    <2>3. CASE k > d
      <3>1. h[k] = f[k - d]
        BY <1>5, <1>6, <2>1, <2>3
      <3>2. h[k - 1] = f[k - d - 1]
        <4>1. CASE k - 1 = d
          BY <1>5, <1>6, <2>1, <4>1
        <4>2. CASE k - 1 # d
          BY <1>5, <1>6, <2>1, <2>3, <4>2
        <4> QED BY <4>1, <4>2
      <3>3. k - d \in (1 .. n) \ New
        BY <1>3, <1>5, <1>6, <2>3
      <3> QED BY <1>1, <3>1, <3>2, <3>3
    <2> QED BY <1>6, <2>2, <2>3
  <1>12. m \in 1 .. n - 1
    BY <1>6, <1>10
  <1> HIDE DEF h, m
  <1> QED BY <1>7, <1>8, <1>9, <1>11, <1>12

-----------------------------------------------------------------------------
(* Nobody is his own ancestor, however claims cross, as long as one claim   *)
(* at a time is between its walk of the ancestors and its commit           *)

Edges == {e \in Users \X Users : e[1] \in Referred /\ ref[e[1]].referrer = e[2]}
Reaches(E, v, u) ==
    \E n \in 1 .. MaxDepth : \E f \in Path(n) : f[0] = v /\ f[n] = u /\ Follows(E, f, n)
Acyclic(E) == \A n \in 1 .. MaxDepth + 1 : \A f \in Path(n) : Follows(E, f, n) => f[n] # f[0]

\* The claims that have found no cycle and have yet to write their referral, and the referrer
\* that each will write
Claiming(p) == req[p].pc \in {"create", "welcome"}
Writes(p) == \/ Claiming(p)
             \/ Carries(p) /\ req[p].user \notin Referred
Writing == {p \in Procs : Writes(p)}
Target(p) == IF Claiming(p) THEN req[p].owner ELSE req[p].row.referrer

\* No walk of MaxDepth ancestors leads from the referrer to be written to the referee.
CycleInv == /\ Acyclic(Edges)
            /\ \A p \in Procs : Writes(p) => ~Reaches(Edges, Target(p), req[p].user)

\* A walk along the referrers follows edges of the chain.
LEMMA WalksFollow ==
    ASSUME RefInv, NEW n \in Nat, NEW f \in Path(n)
    PROVE  Walk(f, n) <=> Follows(Edges, f, n)
  <1>1. \A i \in 1 .. n : i \in 0 .. n /\ i - 1 \in 0 .. n
    OBVIOUS
  <1>2. \A i \in 1 .. n : f[i - 1] \in Users /\ f[i] \in Users
    BY <1>1 DEF Path
  <1>3. \A i \in 1 .. n : /\ <<f[i - 1], f[i]>> \in Edges
                           <=> f[i - 1] \in Referred /\ ref[f[i - 1]].referrer = f[i]
    BY <1>2 DEF Edges
  <1> QED BY <1>3 DEF Walk, Follows

\* The check of the claim finds the walks that matter.
LEMMA CheckedIsUnreached ==
    ASSUME RefInv, NEW v \in Users, NEW u \in Users, ~Cyclic(v, u)
    PROVE  ~Reaches(Edges, v, u)
  <1> SUFFICES ASSUME NEW n \in 1 .. MaxDepth, NEW f \in Path(n),
                      f[0] = v, f[n] = u, Follows(Edges, f, n)
               PROVE  FALSE
    BY DEF Reaches
  <1>1. Walk(f, n)
    BY WalksFollow, ReferralBounds
  <1> QED BY <1>1 DEF Cyclic

\* CycleInv holds initially.
LEMMA CycleInit == Init => CycleInv
  <1> SUFFICES ASSUME Init PROVE CycleInv
    OBVIOUS
  <1>1. Edges = {}
    BY DEF Init, Edges, Referred, NoRow
  <1>2. Acyclic({})
    BY ReferralBounds DEF Acyclic, Follows
  <1>3. \A p \in Procs : ~Writes(p)
    BY NewTyped DEF Init, Writes, Claiming, Carries
  <1> QED BY <1>1, <1>2, <1>3 DEF CycleInv

\* A step that writes no referrer keeps CycleInv when the edge that its request is about to
\* write is checked.
LEMMA CycleMoves ==
    ASSUME RefInv, CycleInv, NEW p \in Procs, UNCHANGED ref,
           \A q \in Procs \ {p} : req'[q] = req[q],
           Writes(p)' => ~Reaches(Edges, Target(p)', req'[p].user)
    PROVE  CycleInv'
  <1>1. Edges' = Edges /\ Referred' = Referred
    BY DEF Edges, Referred
  <1>2. \A q \in Procs \ {p} :
          /\ Writes(q)' <=> Writes(q)
          /\ Target(q)' = Target(q)
    BY <1>1 DEF Writes, Claiming, Carries, Target
  <1> QED BY <1>1, <1>2 DEF CycleInv

\* A step that does not write the table and leaves the request with the referral it had to
\* write, or with none
LEMMA CycleGoesOn ==
    ASSUME RefInv, CycleInv, NEW p \in Procs, NEW x \in Request,
           req' = [req EXCEPT ![p] = x], UNCHANGED ref,
           \/ x.pc \in Rests \cup {"existing", "cycle"}
           \/ x.pc = "completeRead" /\ ~x.holds
           \/ x.pc \notin {"create", "welcome"} /\ x.user \in Referred
           \/ x.pc = "welcome" /\ req[p].pc = "create"
              /\ x.owner = req[p].owner /\ x.user = req[p].user
           \/ x.pc \notin {"create", "welcome"} /\ Writes(p)
              /\ x.user = req[p].user /\ x.row.referrer = Target(p)
    PROVE  CycleInv'
  <1>1. req'[p] = x /\ \A q \in Procs \ {p} : req'[q] = req[q]
    BY RequestMoves DEF RefInv
  <1>2. Referred' = Referred
    BY DEF Referred
  <1>3. CASE \/ x.pc \in Rests \cup {"existing", "cycle"}
             \/ x.pc = "completeRead" /\ ~x.holds
             \/ x.pc \notin {"create", "welcome"} /\ x.user \in Referred
    <2>1. ~Writes(p)'
      BY <1>1, <1>2, <1>3 DEF Writes, Claiming, Carries, Rests, Final
    <2> QED BY <1>1, <2>1, CycleMoves
  <1>4. CASE x.pc = "welcome" /\ req[p].pc = "create"
             /\ x.owner = req[p].owner /\ x.user = req[p].user
    <2>1. Writes(p) /\ Target(p) = req[p].owner /\ Target(p)' = req[p].owner
      BY <1>1, <1>4 DEF Writes, Claiming, Target
    <2>2. ~Reaches(Edges, Target(p)', req'[p].user)
      BY <1>1, <1>4, <2>1 DEF CycleInv
    <2> QED BY <1>1, <2>2, CycleMoves
  <1>5. CASE x.pc \notin {"create", "welcome"} /\ Writes(p)
             /\ x.user = req[p].user /\ x.row.referrer = Target(p)
    <2>1. Target(p)' = Target(p)
      BY <1>1, <1>5 DEF Claiming, Target
    <2>2. ~Reaches(Edges, Target(p)', req'[p].user)
      BY <1>1, <1>5, <2>1 DEF CycleInv
    <2> QED BY <1>1, <2>2, CycleMoves
  <1> QED BY <1>3, <1>4, <1>5

\* A request that returns writes nothing.
LEMMA CycleEnds ==
    ASSUME RefInv, CycleInv, NEW p \in Procs, NEW result \in Final,
           Finish(p, result), UNCHANGED ref
    PROVE  CycleInv'
  <1>1. PICK x \in Request : req' = [req EXCEPT ![p] = x] /\ x.pc \in Rests
    BY Finishes DEF RefInv
  <1> QED BY <1>1, CycleGoesOn

\* The steps of a claim and of a completion that do not write the referral
LEMMA CycleSteps ==
    ASSUME RefInv, CycleInv, NEW p \in Procs,
           \/ ClaimExisting(p) \/ RetryXp(p) \/ RetryCoins(p) \/ ClaimCycle(p)
           \/ ClaimCreate(p) \/ ClaimWelcome(p) \/ CompleteRead(p) \/ CompleteCount(p)
           \/ PayReferrer(p) \/ PayReferee(p) \/ RollBack(p)
    PROVE  CycleInv'
  <1> USE DEF RefInv
  <1>0. TypeOK /\ req[p] \in Request /\ Parties(p) /\ Carried(p) /\ Rows
    BY DEF TypeOK
  <1>1. ASSUME ClaimExisting(p) PROVE CycleInv'
    <2> DEFINE row == ref[req[p].user]
    <2>1. req[p].pc = "existing" /\ req[p].user \in Users /\ ref' = ref
      BY <1>0, <1>1 DEF ClaimExisting, Parties, Final
    <2>2. CASE Goto(p, "cycle")
      <3>1. PICK x \in Request : req' = [req EXCEPT ![p] = x] /\ x.pc = "cycle"
        BY <1>0, <2>2, GoesOn
      <3> QED BY <2>1, <3>1, CycleGoesOn
    <2>3. CASE row # NoRow /\ row.referrer = req[p].owner
      <3> DEFINE pc == IF ~row.refereeXp /\ req[p].config.xp THEN "retryXp" ELSE "retryCoins"
                 x == [[req[p] EXCEPT !.row = row] EXCEPT !.pc = pc]
      <3>1. req' = [req EXCEPT ![p] = x]
        BY <1>0, <1>1, <2>3 DEF ClaimExisting, TypeOK, Request
      <3>2. pc \in {"retryXp", "retryCoins"} /\ row \in Row /\ req[p].user \in Referred
        BY <1>0, <2>1, <2>3 DEF TypeOK, Rows, Referred
      <3> HIDE DEF pc, row
      <3>3. x \in Request /\ x.pc = pc /\ x.user = req[p].user
        BY <1>0, <3>2 DEF Request
      <3> HIDE DEF x
      <3> QED BY <2>1, <3>1, <3>2, <3>3, CycleGoesOn
    <2>4. CASE Finish(p, "refused")
      BY <2>1, <2>4, CycleEnds DEF Final
    <2> QED BY <1>1, <2>2, <2>3, <2>4 DEF ClaimExisting
  <1>2. ASSUME RetryXp(p) PROVE CycleInv'
    <2>1. req[p].pc = "retryXp" /\ Carries(p) /\ ref' = ref /\ Goto(p, "retryCoins")
      BY <1>2 DEF RetryXp, Carries
    <2>2. PICK x \in Request : /\ req' = [req EXCEPT ![p] = x] /\ x.pc = "retryCoins"
                               /\ x.user = req[p].user
      BY <1>0, <2>1, GoesOn
    <2>3. req[p].user \in Referred
      BY <1>0, <2>1 DEF Carried
    <2> QED BY <2>1, <2>2, <2>3, CycleGoesOn
  <1>3. ASSUME RetryCoins(p) PROVE CycleInv'
    <2> DEFINE next == IF req[p].row.status = "COMPLETED" \/ RequireActivity THEN "commit"
                       ELSE "completeRead"
               row == [[ref[req[p].user] EXCEPT !.refereeXp = req[p].config.xp]
                                         EXCEPT !.refereeCoins = TRUE]
               x == [[[req[p] EXCEPT !.holds = TRUE] EXCEPT !.pc = next] EXCEPT !.row = row]
    <2>1. req[p].user \in Users /\ req[p].pc = "retryCoins" /\ ref' = ref /\ Carries(p)
      BY <1>0, <1>3 DEF RetryCoins, Parties, Carries, Final
    <2>2. req[p].user \in Referred
      BY <1>0, <2>1 DEF Carried
    <2>3. CASE req' = [req EXCEPT ![p] = x]
      <3>1. next \in {"commit", "completeRead"}
        OBVIOUS
      <3> HIDE DEF next
      <3>2. ref[req[p].user] \in Row /\ req[p].config \in Config
        BY <1>0, <2>1 DEF TypeOK, Request
      <3>3. row \in Row
        BY <3>2 DEF Row, Config
      <3> HIDE DEF row
      <3>4. x \in Request /\ x.pc = next /\ x.user = req[p].user
        BY <1>0, <3>1, <3>3 DEF Request
      <3> HIDE DEF x
      <3> QED BY <2>1, <2>2, <2>3, <3>1, <3>4, CycleGoesOn
    <2>4. CASE Finish(p, "ok")
      BY <2>1, <2>4, CycleEnds DEF Final
    <2>5. CASE Goto(p, "completeRead")
      <3>1. PICK y \in Request : /\ req' = [req EXCEPT ![p] = y] /\ y.pc = "completeRead"
                                 /\ y.user = req[p].user
        BY <1>0, <2>5, GoesOn
      <3> QED BY <2>1, <2>2, <3>1, CycleGoesOn
    <2>6. \/ req' = [req EXCEPT ![p] = x]
          \/ Finish(p, "ok") \/ Goto(p, "completeRead")
      BY <1>3 DEF RetryCoins
    <2> HIDE DEF x, next
    <2> QED BY <2>3, <2>4, <2>5, <2>6
  <1>4. ASSUME ClaimCycle(p) PROVE CycleInv'
    <2>1. req[p].user \in Users /\ req[p].owner \in Users /\ req[p].pc = "cycle" /\ ref' = ref
      BY <1>0, <1>4 DEF ClaimCycle, Parties, Final
    <2>2. CASE Cyclic(req[p].owner, req[p].user)
      BY <1>4, <2>1, <2>2, CycleEnds DEF ClaimCycle, Final
    <2>3. CASE ~Cyclic(req[p].owner, req[p].user)
      <3>1. PICK x \in Request : /\ req' = [req EXCEPT ![p] = x] /\ x.pc = "create"
                                 /\ x.user = req[p].user /\ x.owner = req[p].owner
        BY <1>4, <2>3, GoesOn DEF ClaimCycle
      <3>2. req'[p] = x /\ \A q \in Procs \ {p} : req'[q] = req[q]
        BY <3>1, RequestMoves
      <3>3. Target(p)' = req[p].owner
        BY <3>1, <3>2 DEF Target, Claiming
      <3>4. ~Reaches(Edges, Target(p)', req'[p].user)
        BY <2>1, <2>3, <3>1, <3>2, <3>3, CheckedIsUnreached
      <3> QED BY <2>1, <3>2, <3>4, CycleMoves
    <2> QED BY <2>2, <2>3
  <1>5. ASSUME ClaimCreate(p) PROVE CycleInv'
    <2> DEFINE x == [[req[p] EXCEPT !.pc = "welcome"] EXCEPT !.holds = TRUE]
    <2>1. ref' = ref /\ req[p].pc = "create"
      BY <1>5 DEF ClaimCreate
    <2>2. CASE Finish(p, "refused")
      BY <2>1, <2>2, CycleEnds DEF Final
    <2>3. CASE req' = [req EXCEPT ![p] = x]
      <3>1. /\ x \in Request /\ x.pc = "welcome"
            /\ x.owner = req[p].owner /\ x.user = req[p].user
        BY <1>0 DEF Request
      <3> HIDE DEF x
      <3> QED BY <2>1, <2>3, <3>1, CycleGoesOn
    <2> QED BY <1>0, <1>5, <2>2, <2>3 DEF ClaimCreate, TypeOK
  <1>6. ASSUME ClaimWelcome(p) PROVE CycleInv'
    <2> DEFINE row == [[[[NoRow EXCEPT !.referrer = req[p].owner] EXCEPT !.status = "PENDING"]
                                EXCEPT !.refereeXp = req[p].config.xp]
                                EXCEPT !.refereeCoins = req[p].config.coins]
               next == IF RequireActivity THEN "commit" ELSE "completeRead"
               x == [[req[p] EXCEPT !.row = row] EXCEPT !.pc = next]
    <2>1. next \in {"commit", "completeRead"} /\ ref' = ref /\ req[p].pc = "welcome"
      BY <1>6 DEF ClaimWelcome
    <2>2. req[p].owner \in Users /\ req[p].config \in Config
      BY <1>0, <1>6 DEF ClaimWelcome, Parties, Request
    <2>3. row \in Row /\ row.referrer = req[p].owner
      BY <2>2 DEF Row, NoRow, Config, MaybeUser
    <2>4. req' = [req EXCEPT ![p] = x]
      BY <1>0, <1>6 DEF ClaimWelcome, TypeOK
    <2> HIDE DEF row, next
    <2>5. x \in Request /\ x.pc = next /\ x.row = row /\ x.user = req[p].user
      BY <1>0, <2>1, <2>3 DEF Request
    <2> HIDE DEF x
    <2>6. Writes(p) /\ Target(p) = req[p].owner
      BY <2>1 DEF Writes, Claiming, Target
    <2> QED BY <2>1, <2>3, <2>4, <2>5, <2>6, CycleGoesOn
  <1>7. ASSUME CompleteRead(p) PROVE CycleInv'
    <2> DEFINE row == IF req[p].holds THEN req[p].row ELSE ref[req[p].user]
               x == [[req[p] EXCEPT !.pc = "completeCount"] EXCEPT !.row = row]
    <2>1. req[p].user \in Users /\ req[p].pc = "completeRead" /\ ref' = ref
      BY <1>0, <1>7 DEF CompleteRead, Parties, Final
    <2>2. req[p].holds /\ req[p].user \notin Referred => Writes(p) /\ Target(p) = req[p].row.referrer
      BY <2>1 DEF Writes, Claiming, Carries, Target
    <2>3. CASE row.status = "PENDING"
      <3>1. req' = [req EXCEPT ![p] = x] /\ row \in Row
        BY <1>0, <1>7, <2>1, <2>3 DEF CompleteRead, TypeOK, Request
      <3>2. \/ req[p].user \in Referred
            \/ req[p].holds /\ row = req[p].row
        BY <2>1, <2>3 DEF Referred
      <3> HIDE DEF row
      <3>3. x \in Request /\ x.pc = "completeCount" /\ x.row = row /\ x.user = req[p].user
        BY <1>0, <3>1 DEF Request
      <3> HIDE DEF x
      <3> QED BY <2>1, <2>2, <3>1, <3>2, <3>3, CycleGoesOn
    <2>4. CASE Goto(p, "commit") /\ req[p].holds
      <3>1. PICK y \in Request : /\ req' = [req EXCEPT ![p] = y] /\ y.pc = "commit"
                                 /\ y.user = req[p].user /\ y.row = req[p].row
        BY <1>0, <2>4, GoesOn
      <3> QED BY <2>1, <2>2, <2>4, <3>1, CycleGoesOn
    <2>5. CASE Finish(p, "ok") \/ Finish(p, "refused")
      BY <2>1, <2>5, CycleEnds DEF Final
    <2> HIDE DEF x
    <2> QED BY <1>7, <2>3, <2>4, <2>5 DEF CompleteRead
  <1>8. ASSUME CompleteCount(p) PROVE CycleInv'
    <2> DEFINE can == CanReward(req[p].row.referrer)
               pc == IF can THEN "payReferrer" ELSE "payReferee"
               x == [[req[p] EXCEPT !.can = can] EXCEPT !.pc = pc]
    <2>1. req[p].pc = "completeCount" /\ Carries(p) /\ ref' = ref
      BY <1>8 DEF CompleteCount, Carries
    <2>2. req' = [req EXCEPT ![p] = x]
      BY <1>0, <1>8 DEF CompleteCount, TypeOK
    <2>3. can \in BOOLEAN /\ pc \in {"payReferrer", "payReferee"}
      BY DEF CanReward
    <2> HIDE DEF can, pc
    <2>4. x \in Request /\ x.pc = pc /\ x.row = req[p].row /\ x.user = req[p].user
      BY <1>0, <2>3 DEF Request
    <2> HIDE DEF x
    <2>5. req[p].user \notin Referred => Writes(p) /\ Target(p) = req[p].row.referrer
      BY <2>1 DEF Writes, Claiming, Target
    <2> QED BY <2>1, <2>2, <2>3, <2>4, <2>5, CycleGoesOn
  <1>9. ASSUME PayReferrer(p) \/ PayReferee(p) PROVE CycleInv'
    <2>1. PICK pc \in {"payReferee", "completeCommit"} : Goto(p, pc)
      BY <1>9 DEF PayReferrer, PayReferee
    <2>2. PICK x \in Request : /\ req' = [req EXCEPT ![p] = x] /\ x.pc = pc
                               /\ x.user = req[p].user /\ x.row = req[p].row
      BY <1>0, <2>1, GoesOn
    <2>3. req[p].user \notin Referred => Writes(p) /\ Target(p) = req[p].row.referrer
      BY <1>9 DEF PayReferrer, PayReferee, Writes, Claiming, Carries, Target
    <2>4. ref' = ref
      BY <1>9 DEF PayReferrer, PayReferee
    <2> QED BY <2>2, <2>3, <2>4, CycleGoesOn
  <1>10. ASSUME RollBack(p) PROVE CycleInv'
    BY <1>10, CycleEnds DEF RollBack, Final
  <1> QED BY <1>1, <1>2, <1>3, <1>4, <1>5, <1>6, <1>7, <1>8, <1>9, <1>10

\* The commits: the table gets the referral of the one writer, or one that it has.
LEMMA CycleCommits ==
    ASSUME RefInv, CycleInv, \A p, q \in Writing : p = q, NEW p \in Procs,
           ClaimCommit(p) \/ CompleteCommit(p)
    PROVE  CycleInv'
  <1>0. /\ TypeOK /\ req[p] \in Request /\ req[p].row \in Row /\ Carries(p)
        /\ req[p].pc \in {"commit", "completeCommit"} /\ Parties(p) /\ Carried(p)
    BY DEF RefInv, TypeOK, Request, ClaimCommit, CompleteCommit, Carries
  <1>1. PICK u \in Users, v \in Users :
           /\ u = req[p].user /\ v = req[p].row.referrer /\ u # v
           /\ u \in Referred => ref[u].referrer = v
    BY <1>0 DEF Parties, Carried, Final
  <1>2. PICK new \in Row : /\ ref' = [ref EXCEPT ![u] = new]
                           /\ new.referrer = v /\ new.status # "NONE"
    <2>1. CASE ClaimCommit(p)
      BY <1>0, <1>1, <2>1 DEF ClaimCommit, Carried
    <2>2. CASE CompleteCommit(p)
      <3> DEFINE new == CompletedRow(req[p].row, req[p].can, req[p].config)
      <3>1. req[p].config \in Config /\ req[p].can \in BOOLEAN
        BY <1>0 DEF Request
      <3>2. new \in Row /\ new.referrer = v /\ new.status = "COMPLETED"
        BY <1>0, <1>1, <3>1, CompletedRowTyped
      <3>3. ref' = [ref EXCEPT ![u] = new]
        BY <1>1, <2>2 DEF CompleteCommit, CompletedRow
      <3> HIDE DEF new
      <3> QED BY <3>2, <3>3
    <2> QED BY <2>1, <2>2
  <1>3. PICK x \in Request : req' = [req EXCEPT ![p] = x] /\ x.pc \in Rests
    BY <1>0, Finishes DEF ClaimCommit, CompleteCommit, Final
  <1>4. req'[p] = x /\ \A q \in Procs \ {p} : req'[q] = req[q]
    BY <1>0, <1>3, RequestMoves
  <1>5. ref'[u] = new /\ \A w \in Users \ {u} : ref'[w] = ref[w]
    BY <1>0, <1>2 DEF TypeOK
  <1>6. Referred' = Referred \cup {u}
    BY <1>2, <1>5 DEF Referred
  <1>7. /\ ~Writes(p)'
        /\ \A q \in Procs \ {p} : Writes(q)' => Writes(q) /\ Target(q)' = Target(q)
    BY <1>3, <1>4, <1>6 DEF Writes, Claiming, Carries, Target, Rests, Final
  <1>8. CASE u \in Referred
    <2>1. Edges' = Edges
      BY <1>1, <1>2, <1>5, <1>6, <1>8 DEF Edges
    <2> QED BY <1>4, <1>7, <2>1 DEF CycleInv
  <1>9. CASE u \notin Referred
    <2>1. Writes(p) /\ Target(p) = v
      BY <1>0, <1>1, <1>9 DEF Writes, Claiming, Target
    <2>2. \A q \in Procs : ~Writes(q)'
      BY <1>7, <2>1 DEF Writing
    <2>3. Edges' = Edges \cup {<<u, v>>}
      BY <1>2, <1>5, <1>6, <1>9 DEF Edges
    <2>4. ASSUME NEW n \in 1 .. MaxDepth + 1, NEW f \in Path(n),
                 Follows(Edges \cup {<<u, v>>}, f, n), f[n] = f[0]
          PROVE  FALSE
      <3>1. ~Follows(Edges, f, n)
        BY <2>4 DEF CycleInv, Acyclic
      <3>2. PICK m \in 1 .. n - 1 : \E h \in Path(m) :
                                       h[0] = v /\ h[m] = u /\ Follows(Edges, h, m)
        <4>1. n \in Nat \ {0}
          BY ReferralBounds
        <4> QED BY <1>1, <2>4, <3>1, <4>1, NewEdge
      <3>3. m \in 1 .. MaxDepth
        BY ReferralBounds
      <3>4. Reaches(Edges, v, u)
        BY <3>2, <3>3 DEF Reaches
      <3> QED BY <1>1, <2>1, <3>4 DEF CycleInv
    <2>5. Acyclic(Edges)'
      BY <2>3, <2>4 DEF Acyclic
    <2> QED BY <2>2, <2>5 DEF CycleInv
  <1> QED BY <1>8, <1>9

\* CycleInv is inductive while one request writes at a time.
LEMMA CycleStep ==
    ASSUME RefInv, CycleInv, \A p, q \in Writing : p = q, [Next]_vars
    PROVE  CycleInv'
  <1>1. ASSUME NEW p \in Procs, Step(p) \/ RollBack(p)
        PROVE  CycleInv'
    BY <1>1, CycleSteps, CycleCommits DEF Step
  <1>2. ASSUME NEW p \in Procs, Call(p)
        PROVE  CycleInv'
    <2>1. PICK x \in Request : /\ req' = [req EXCEPT ![p] = x] /\ ~x.holds
                               /\ x.pc \in {"refused", "existing", "completeRead"}
      BY <1>2, CallBegins DEF RefInv
    <2>2. ref' = ref
      BY <1>2, CallBegins DEF RefInv
    <2> QED BY <2>1, <2>2, CycleGoesOn DEF Rests, Final
  <1>3. ASSUME UNCHANGED <<ref, req>>
        PROVE  CycleInv'
    BY <1>3 DEF CycleInv, Edges, Referred, Writes, Claiming, Carries, Target
  <1> QED BY <1>1, <1>2, <1>3 DEF Next, UpdateConfig, RecoverFind, Age, vars

\* An acyclic chain has no cycle.
LEMMA CycleInvIsNoCycle == RefInv /\ CycleInv => NoCycle
  <1> SUFFICES ASSUME RefInv, CycleInv, NEW n \in 1 .. MaxDepth + 1, NEW f \in Path(n),
                      Walk(f, n)
               PROVE  f[n] # f[0]
    BY DEF NoCycle
  <1>1. Follows(Edges, f, n)
    BY WalksFollow, ReferralBounds
  <1> QED BY <1>1 DEF CycleInv, Acyclic

\* Where no two claims are at once between their walk of the ancestors and their commit,
\* nobody becomes his own ancestor within the MAX_DEPTH referrals that the walk sees, whatever
\* retries, completions, configuration changes and rollbacks cross (377-445, 705-716).
THEOREM NoCycleWithOneWriter ==
    Spec /\ [](\A p, q \in Writing : p = q) => []NoCycle
  <1>1. RefInv /\ CycleInv /\ (\A p, q \in Writing : p = q) /\ [Next]_vars => CycleInv'
    BY CycleStep
  <1> QED BY <1>1, CycleInit, CycleInvIsNoCycle, RefInvHolds, PTL DEF Spec

\* For requests one after the other, nobody is his own ancestor (377-445, 705-716).
THEOREM NoCycleHolds ==
    ASSUME "serial" \in Ops
    PROVE  Spec => []NoCycle
  <1>1. (\A p, q \in Running : p = q) => \A p, q \in Writing : p = q
    BY DEF Writing, Writes, Claiming, Carries, Running, Rests, Final
  <1> QED BY <1>1, OneAtATime, NoCycleWithOneWriter, PTL
=============================================================================
