------------------------- MODULE EventRegistration_proofs ----------------------
(***************************************************************************)
(* Proofs about EventRegistration for every set of users and requests,     *)
(* every capacity, waiting list and deadline: the types of the state, the  *)
(* counter, and the allocation of seats that requests implement when they  *)
(* follow each other.                                                      *)
(***************************************************************************)
EXTENDS EventRegistration, FiniteSetTheorems, TLAPS

Runs(r) == req[r].pc \notin Final \cup {"new"}

\* A running request is about a user, but for the deletion of the event.
Parties == \A r \in Requests : Runs(r) /\ req[r].pc \notin {"archive", "delete"}
                                  => req[r].user \in Users
TypeInv == TypeOK /\ Parties

-----------------------------------------------------------------------------
(* How a step changes one request                                          *)

LEMMA RequestMoves ==
    ASSUME TypeOK, NEW r \in Requests, NEW x \in Request, req' = [req EXCEPT ![r] = x]
    PROVE  /\ req' \in [Requests -> Request] /\ req'[r] = x
           /\ \A q \in Requests \ {r} : req'[q] = req[q]
  BY DEF TypeOK

LEMMA NewTyped == NewRequest \in Request /\ NewRequest.pc = "new"
  BY EventBounds DEF NewRequest, Request, OpNames, Steps, Final, PartStatus

LEMMA Finishes ==
    ASSUME TypeOK, NEW r \in Requests, NEW result \in Final, Finish(r, result)
    PROVE  \E x \in Request : req' = [req EXCEPT ![r] = x] /\ x.pc = result
  <1> DEFINE x == [NewRequest EXCEPT !.op = req[r].op, !.pc = result]
  <1>1. req[r].op \in OpNames
    BY DEF TypeOK, Request
  <1>2. x \in Request /\ x.pc = result
    BY <1>1, NewTyped DEF Request
  <1>3. req' = [req EXCEPT ![r] = x]
    BY DEF Finish
  <1> HIDE DEF x
  <1> QED BY <1>2, <1>3

\* A request that begins, and returns at once or knows what it has read
LEMMA Begins ==
    ASSUME TypeOK, NEW r \in Requests, NEW op \in OpNames, NEW u \in Users \cup {NoUser},
           NEW pc \in Steps \cup Final, NEW s \in PartStatus, Begin(r, op, u, pc, s)
    PROVE  \E x \in Request :
              /\ req' = [req EXCEPT ![r] = x] /\ x.pc = pc
              /\ pc \notin Final => /\ x.user = u /\ x.seen = s
                                    /\ x.full = IsFull /\ x.positive = (count > 0)
  <1>1. IsFull \in BOOLEAN /\ (count > 0) \in BOOLEAN
    BY EventBounds DEF TypeOK, IsFull
  <1> DEFINE done1 == [NewRequest EXCEPT !.op = op, !.pc = pc]
             begun == [NewRequest EXCEPT !.op = op, !.user = u, !.pc = pc, !.seen = s,
                                         !.full = IsFull, !.positive = count > 0]
  <1>2. done1 \in Request /\ done1.pc = pc
    BY NewTyped DEF Request
  <1>3. /\ begun \in Request /\ begun.pc = pc /\ begun.user = u /\ begun.seen = s
        /\ begun.full = IsFull /\ begun.positive = (count > 0)
    BY <1>1, NewTyped DEF Request
  <1>4. req' = [req EXCEPT ![r] = IF pc \in Final THEN done1 ELSE begun]
    BY DEF Begin
  <1> HIDE DEF done1, begun
  <1> QED BY <1>2, <1>3, <1>4

\* The ways in which a request that runs goes on
Goes(r, pc, s, n, v, b) ==
    \/ req' = [req EXCEPT ![r].pc = pc] /\ s = req[r].seen
    \/ req' = [req EXCEPT ![r].pc = pc, ![r].seen = s]
    \/ req' = [req EXCEPT ![r].pc = pc, ![r].place = n] /\ s = req[r].seen
    \/ req' = [req EXCEPT ![r].pc = pc, ![r].next = v] /\ s = req[r].seen
    \/ req' = [req EXCEPT ![r].pc = pc, ![r].finished = b] /\ s = req[r].seen

-----------------------------------------------------------------------------
(* The types                                                               *)

RowsTyped == /\ count \in Int /\ part \in [Users -> PartStatus] /\ position \in [Users -> Nat]
             /\ done \in SUBSET Users
             /\ older \in SUBSET (Users \X Users) /\ ahead \in SUBSET (Users \X Users)
EventTyped == /\ status \in EventStatus \cup {"DELETED"} /\ clock \in 0 .. 2
              /\ cron \in {"idle", "activate", "activated", "complete"}

LEMMA TypeParts ==
    TypeInv <=> /\ RowsTyped /\ EventTyped /\ Parties
                /\ req \in [Requests -> Request]
  BY DEF TypeInv, TypeOK, RowsTyped, EventTyped

LEMMA SetPartTyped ==
    ASSUME RowsTyped, NEW S \in SUBSET Users, NEW s \in PartStatus, NEW place \in Nat,
           SetPart(S, s, place)
    PROVE  /\ part' \in [Users -> PartStatus] /\ position' \in [Users -> Nat]
           /\ ahead' \in SUBSET (Users \X Users)
           /\ \A u \in Users : part'[u] = IF u \in S THEN s ELSE part[u]
  <1>1. part' \in [Users -> PartStatus] /\ position' \in [Users -> Nat]
    BY DEF RowsTyped, SetPart
  <1>2. \A u \in Users : part'[u] = IF u \in S THEN s ELSE part[u]
    BY DEF SetPart
  <1>3. Waitlist \subseteq Users
    BY DEF Waitlist, InStatus
  <1>4. ahead' \in SUBSET (Users \X Users)
    BY <1>3 DEF RowsTyped, SetPart
  <1> QED BY <1>1, <1>2, <1>4

LEMMA CreatePartTyped ==
    ASSUME RowsTyped, NEW u \in Users, NEW s \in PartStatus, NEW place \in Nat,
           CreatePart(u, s, place), count' \in Int
    PROVE  RowsTyped' /\ \A v \in Users : part'[v] = IF v = u THEN s ELSE part[v]
  <1>1. SetPart({u}, s, place) /\ {u} \in SUBSET Users /\ done' = done
        /\ older' = older \cup ((Users \ InStatus({"NONE"})) \X {u})
    BY DEF CreatePart
  <1>2. older' \in SUBSET (Users \X Users)
    BY <1>1 DEF RowsTyped
  <1>3. /\ part' \in [Users -> PartStatus] /\ position' \in [Users -> Nat]
        /\ ahead' \in SUBSET (Users \X Users)
        /\ \A v \in Users : part'[v] = IF v \in {u} THEN s ELSE part[v]
    BY <1>1, SetPartTyped
  <1> QED BY <1>1, <1>2, <1>3 DEF RowsTyped

\* A step of one request
LEMMA TypesMove ==
    ASSUME TypeInv, NEW r \in Requests, NEW x \in Request, req' = [req EXCEPT ![r] = x],
           \/ x.pc \in Final \cup {"new", "archive", "delete"}
           \/ x.user \in Users,
           RowsTyped', EventTyped'
    PROVE  TypeInv'
  <1>1. /\ req' \in [Requests -> Request] /\ req'[r] = x
        /\ \A q \in Requests \ {r} : req'[q] = req[q]
    BY RequestMoves DEF TypeInv
  <1>2. Parties'
    BY <1>1 DEF TypeInv, Parties, Runs
  <1> QED BY <1>1, <1>2, TypeParts DEF TypeInv, TypeOK, RowsTyped, EventTyped

LEMMA TypesFinish ==
    ASSUME TypeInv, NEW r \in Requests, NEW result \in Final, Finish(r, result),
           RowsTyped', EventTyped'
    PROVE  TypeInv'
  <1>1. PICK x \in Request : req' = [req EXCEPT ![r] = x] /\ x.pc = result
    BY Finishes DEF TypeInv
  <1> QED BY <1>1, TypesMove

LEMMA TypesBegin ==
    ASSUME TypeInv, NEW r \in Requests, NEW op \in OpNames, NEW u \in Users \cup {NoUser},
           NEW pc \in Steps \cup Final, NEW s \in PartStatus, Begin(r, op, u, pc, s),
           pc \in Final \cup {"archive", "delete"} \/ u \in Users,
           RowsTyped', EventTyped'
    PROVE  TypeInv'
  <1>1. PICK x \in Request : /\ req' = [req EXCEPT ![r] = x] /\ x.pc = pc
                             /\ pc \notin Final => x.user = u
    BY Begins DEF TypeInv
  <1> QED BY <1>1, TypesMove

LEMMA TypesGoOn ==
    ASSUME TypeInv, NEW r \in Requests, NEW pc \in Steps, NEW s \in PartStatus, NEW n \in Nat,
           NEW v \in Users \cup {NoUser}, NEW b \in BOOLEAN,
           Goes(r, pc, s, n, v, b),
           req[r].user \in Users, RowsTyped', EventTyped'
    PROVE  TypeInv'
  <1> DEFINE x == req'[r]
  <1>0. req[r] \in Request /\ req \in [Requests -> Request]
    BY DEF TypeInv, TypeOK
  <1>1. req' = [req EXCEPT ![r] = x]
    BY <1>0 DEF Goes
  <1>2. x \in Request /\ x.user = req[r].user
    BY <1>0 DEF Goes, Request
  <1> HIDE DEF x
  <1> QED BY <1>1, <1>2, TypesMove

LEMMA StaysTyped ==
    ASSUME TypeInv
    PROVE  /\ UNCHANGED rows => RowsTyped'
           /\ UNCHANGED <<status, clock, cron>> => EventTyped'
  BY DEF TypeInv, TypeOK, RowsTyped, EventTyped, rows

LEMMA WaitlistCounts == Cardinality(Waitlist) \in Nat /\ IsFiniteSet(Waitlist)
  <1>1. Waitlist \in SUBSET Users
    BY DEF Waitlist, InStatus
  <1>2. IsFiniteSet(Waitlist)
    BY <1>1, EventBounds, FS_Subset
  <1> QED BY <1>2, FS_CardinalityType

LEMMA NextIsUser == ASSUME NEW u PROVE NextInWaitlist(u) \subseteq Users \cup {NoUser}
  BY DEF NextInWaitlist, Waitlist, InStatus

\* participateInEvent
LEMMA ParticipateTyped ==
    ASSUME TypeInv, NEW r \in Requests,
           \/ ParticipateExisting(r) \/ Register(r) \/ Reactivate(r)
           \/ WaitCount(r) \/ WaitWrite(r)
    PROVE  TypeInv'
  <1> DEFINE u == req[r].user
  <1>0. /\ RowsTyped /\ EventTyped /\ Parties /\ req[r] \in Request
        /\ req[r].seen \in PartStatus /\ req[r].place \in Nat
    BY TypeParts DEF Request
  <1>u. ASSUME req[r].pc \in {"existing", "register", "reactivate", "waitCount", "waitWrite"}
        PROVE  u \in Users
    BY <1>0, <1>u DEF Parties, Runs, Final
  <1>s. {"REGISTERED", "WAITLIST", "NONE"} \subseteq PartStatus /\ "refused" \in Final
        /\ "ok" \in Final /\ NoUser \in Users \cup {NoUser} /\ 0 \in Nat /\ TRUE \in BOOLEAN
    BY DEF PartStatus, Final
  <1>1. CASE ParticipateExisting(r)
    <2> DEFINE s == part[u]
               pc == AfterExisting(r, s)
    <2>1. u \in Users /\ s \in PartStatus
      BY <1>0, <1>1, <1>u DEF ParticipateExisting, RowsTyped
    <2>2. RowsTyped' /\ EventTyped'
      BY <1>1, StaysTyped DEF ParticipateExisting
    <2>3. pc \in Final \/ pc \in Steps
      BY DEF AfterExisting, Final, Steps
    <2>4. CASE pc \in Final
      <3>1. Finish(r, pc)
        BY <1>1, <2>4 DEF ParticipateExisting
      <3> HIDE DEF pc
      <3> QED BY <2>2, <2>4, <3>1, TypesFinish
    <2>5. CASE pc \notin Final
      <3>1. req' = [req EXCEPT ![r].pc = pc, ![r].seen = s]
        BY <1>1, <2>5 DEF ParticipateExisting
      <3> HIDE DEF pc, s
      <3> QED BY <1>s, <2>1, <2>2, <2>3, <2>5, <3>1, TypesGoOn DEF Goes
    <2> QED BY <2>4, <2>5
  <1>2. CASE Register(r)
    <2>1. u \in Users /\ EventTyped'
      BY <1>2, <1>u, StaysTyped DEF Register, EventTyped, TypeInv
    <2>2. CASE UNCHANGED rows /\ Finish(r, "refused")
      BY <1>s, <2>1, <2>2, StaysTyped, TypesFinish
    <2>3. CASE CreatePart(u, "REGISTERED", 0) /\ count' = count + 1 /\ Finish(r, "ok")
      <3>1. RowsTyped'
        BY <1>0, <1>s, <2>1, <2>3, CreatePartTyped DEF RowsTyped
      <3> QED BY <1>s, <2>1, <2>3, <3>1, TypesFinish
    <2> QED BY <1>2, <2>2, <2>3 DEF Register
  <1>3. CASE Reactivate(r)
    <2>1. u \in Users /\ EventTyped'
      BY <1>3, <1>u, StaysTyped DEF Reactivate, EventTyped, TypeInv
    <2>2. CASE UNCHANGED rows /\ Finish(r, "refused")
      BY <1>s, <2>1, <2>2, StaysTyped, TypesFinish
    <2>3. CASE /\ SetPart({u}, "REGISTERED", 0) /\ count' = count + 1 /\ Finish(r, "ok")
               /\ UNCHANGED <<done, older>>
      <3>0. /\ part' \in [Users -> PartStatus] /\ position' \in [Users -> Nat]
            /\ ahead' \in SUBSET (Users \X Users)
        <4> HIDE DEF u
        <4>1. {u} \in SUBSET Users /\ "REGISTERED" \in PartStatus
          BY <1>s, <2>1
        <4> QED BY <1>0, <1>s, <2>3, <4>1, SetPartTyped
      <3>1. RowsTyped'
        BY <1>0, <2>3, <3>0 DEF RowsTyped
      <3> QED BY <1>s, <2>1, <2>3, <3>1, TypesFinish
    <2> QED BY <1>3, <2>2, <2>3 DEF Reactivate
  <1>4. CASE WaitCount(r)
    <2> DEFINE n == Cardinality(Waitlist) + 1
    <2>1. u \in Users /\ RowsTyped' /\ EventTyped' /\ n \in Nat
      BY <1>4, <1>u, StaysTyped, WaitlistCounts DEF WaitCount
    <2>2. CASE Finish(r, "refused")
      BY <1>s, <2>1, <2>2, TypesFinish
    <2>3. CASE req' = [req EXCEPT ![r].pc = "waitWrite", ![r].place = n]
      <3> HIDE DEF n
      <3>1. "waitWrite" \in Steps
        BY DEF Steps
      <3> QED BY <1>0, <1>s, <2>1, <2>3, <3>1, TypesGoOn DEF Goes
    <2> QED BY <1>4, <2>2, <2>3 DEF WaitCount
  <1>5. CASE WaitWrite(r)
    <2>1. u \in Users /\ EventTyped'
      BY <1>5, <1>u, StaysTyped DEF WaitWrite, EventTyped, TypeInv
    <2>2. CASE UNCHANGED rows /\ Finish(r, "refused")
      BY <1>s, <2>1, <2>2, StaysTyped, TypesFinish
    <2>3. CASE CreatePart(u, "WAITLIST", req[r].place) /\ UNCHANGED count /\ Finish(r, "ok")
      <3>1. RowsTyped'
        BY <1>0, <1>s, <2>1, <2>3, CreatePartTyped DEF RowsTyped
      <3> QED BY <1>s, <2>1, <2>3, <3>1, TypesFinish
    <2>4. CASE /\ SetPart({u}, "WAITLIST", req[r].place) /\ Finish(r, "ok")
               /\ UNCHANGED <<done, older, count>>
      <3>0. /\ part' \in [Users -> PartStatus] /\ position' \in [Users -> Nat]
            /\ ahead' \in SUBSET (Users \X Users)
        <4> HIDE DEF u
        <4>1. {u} \in SUBSET Users /\ "WAITLIST" \in PartStatus
          BY <1>s, <2>1
        <4> QED BY <1>0, <1>s, <2>4, <4>1, SetPartTyped
      <3>1. RowsTyped'
        BY <1>0, <2>4, <3>0 DEF RowsTyped
      <3> QED BY <1>s, <2>1, <2>4, <3>1, TypesFinish
    <2> QED BY <1>5, <2>2, <2>3, <2>4 DEF WaitWrite
  <1> QED BY <1>1, <1>2, <1>3, <1>4, <1>5

\* A step of a request that leaves the rows and the event alone
LEMMA TypesStay ==
    ASSUME TypeInv, NEW r \in Requests, UNCHANGED <<status, clock, rows, cron>>,
           \/ \E result \in Final : Finish(r, result)
           \/ /\ req[r].user \in Users
              /\ \E pc \in Steps, s \in PartStatus, n \in Nat, v \in Users \cup {NoUser},
                    b \in BOOLEAN : Goes(r, pc, s, n, v, b)
           \/ \E op \in OpNames, u \in Users \cup {NoUser}, pc \in Steps \cup Final,
                 s \in PartStatus : /\ Begin(r, op, u, pc, s)
                                    /\ pc \in Final \cup {"archive", "delete"} \/ u \in Users
    PROVE  TypeInv'
  <1>1. RowsTyped' /\ EventTyped'
    BY StaysTyped
  <1>2. CASE \E result \in Final : Finish(r, result)
    BY <1>1, <1>2, TypesFinish
  <1>3. CASE /\ req[r].user \in Users
             /\ \E pc \in Steps, s \in PartStatus, n \in Nat, v \in Users \cup {NoUser},
                   b \in BOOLEAN : Goes(r, pc, s, n, v, b)
    <2>1. PICK pc \in Steps, s \in PartStatus, n \in Nat, v \in Users \cup {NoUser},
               b \in BOOLEAN : Goes(r, pc, s, n, v, b)
      BY <1>3
    <2> QED BY <1>1, <1>3, <2>1, TypesGoOn
  <1>4. CASE \E op \in OpNames, u \in Users \cup {NoUser}, pc \in Steps \cup Final,
                s \in PartStatus : /\ Begin(r, op, u, pc, s)
                                   /\ pc \in Final \cup {"archive", "delete"} \/ u \in Users
    <2>1. PICK op \in OpNames, u \in Users \cup {NoUser}, pc \in Steps \cup Final,
               s \in PartStatus : /\ Begin(r, op, u, pc, s)
                                  /\ pc \in Final \cup {"archive", "delete"} \/ u \in Users
      BY <1>4
    <2> QED BY <1>1, <2>1, TypesBegin
  <1> QED BY <1>2, <1>3, <1>4

\* The first query of each handler
LEMMA CallTyped ==
    ASSUME TypeInv, NEW r \in Requests, Call(r)
    PROVE  TypeInv'
  <1>0. /\ {"refused", "ok"} \subseteq Final /\ "NONE" \in PartStatus
        /\ {"existing", "cancelTx", "adminFind", "progressFind", "archive", "delete"} \subseteq Steps
        /\ {"participate", "cancel", "adminCancel", "progress", "delete", "status"} \subseteq OpNames
        /\ RowsTyped /\ EventTyped
    BY TypeParts DEF Final, PartStatus, Steps, OpNames
  <1>1. ASSUME NEW u \in Users, ParticipateLoad(r, u) PROVE TypeInv'
    <2> DEFINE pc == IF status \in {"PUBLISHED", "ACTIVE"} /\ clock <= Deadline
                     THEN "existing" ELSE "refused"
    <2>1. Begin(r, "participate", u, pc, "NONE") /\ UNCHANGED <<status, clock, rows, cron>>
      BY <1>1 DEF ParticipateLoad
    <2>2. pc \in Steps \cup Final
      BY <1>0
    <2> HIDE DEF pc
    <2> QED BY <1>0, <2>1, <2>2, TypesStay
  <1>2. ASSUME NEW u \in Users, CancelLoad(r, u) PROVE TypeInv'
    <2> DEFINE pc == IF part[u] = "NONE" \/ clock >= 1 THEN "refused" ELSE "cancelTx"
               s == part[u]
    <2>1. Begin(r, "cancel", u, pc, s) /\ UNCHANGED <<status, clock, rows, cron>>
      BY <1>2 DEF CancelLoad
    <2>2. pc \in Steps \cup Final /\ s \in PartStatus
      BY <1>0 DEF RowsTyped
    <2> HIDE DEF pc, s
    <2> QED BY <1>0, <2>1, <2>2, TypesStay
  <1>3. ASSUME NEW u \in Users, AdminCancelLoad(r, u) PROVE TypeInv'
    <2> DEFINE pc == IF Exists THEN "adminFind" ELSE "refused"
    <2>1. Begin(r, "adminCancel", u, pc, "NONE") /\ UNCHANGED <<status, clock, rows, cron>>
      BY <1>3 DEF AdminCancelLoad
    <2>2. pc \in Steps \cup Final
      BY <1>0
    <2> HIDE DEF pc
    <2> QED BY <1>0, <2>1, <2>2, TypesStay
  <1>4. ASSUME NEW u \in Users, ProgressLoad(r, u) PROVE TypeInv'
    <2> DEFINE pc == IF status = "ACTIVE" /\ clock < 2 THEN "progressFind" ELSE "refused"
    <2>1. Begin(r, "progress", u, pc, "NONE") /\ UNCHANGED <<status, clock, rows, cron>>
      BY <1>4 DEF ProgressLoad
    <2>2. pc \in Steps \cup Final
      BY <1>0
    <2> HIDE DEF pc
    <2> QED BY <1>0, <2>1, <2>2, TypesStay
  <1>5. ASSUME DeleteLoad(r) PROVE TypeInv'
    <2> DEFINE pc == CASE ~Exists -> "refused" [] Exists /\ HasHistory -> "archive"
                       [] OTHER -> "delete"
    <2>1. Begin(r, "delete", NoUser, pc, "NONE") /\ UNCHANGED <<status, clock, rows, cron>>
      BY <1>5 DEF DeleteLoad
    <2>2. pc \in Final \cup {"archive", "delete"} /\ pc \in Steps \cup Final
      BY <1>0
    <2> HIDE DEF pc
    <2> QED BY <1>0, <2>1, <2>2, TypesStay
  <1>6. ASSUME UpdateStatus(r) PROVE TypeInv'
    <2> DEFINE pc == IF Exists THEN "ok" ELSE "refused"
    <2>1. Begin(r, "status", NoUser, pc, "NONE") /\ UNCHANGED <<clock, rows, cron>>
      BY <1>6 DEF UpdateStatus
    <2>2. RowsTyped'
      BY <2>1, StaysTyped
    <2>3. EventTyped'
      BY <1>0, <1>6, EventBounds DEF UpdateStatus, EventTyped
    <2>4. pc \in Final
      BY <1>0
    <2> HIDE DEF pc
    <2> QED BY <1>0, <2>1, <2>2, <2>3, <2>4, TypesBegin
  <1> QED BY <1>1, <1>2, <1>3, <1>4, <1>5, <1>6 DEF Call

\* A running request about a participation is about a user.
LEMMA HasUser ==
    ASSUME TypeInv, NEW r \in Requests,
           req[r].pc \in Steps \ {"new", "archive", "delete"}
    PROVE  req[r].user \in Users
  BY DEF TypeInv, Parties, Runs, Steps, Final

\* cancelParticipation and adminCancelParticipant
LEMMA CancelTyped ==
    ASSUME TypeInv, NEW r \in Requests,
           AdminCancelFind(r) \/ CancelTx(r) \/ CancelCommit(r)
    PROVE  TypeInv'
  <1> DEFINE u == req[r].user
  <1>0. /\ {"refused", "ok"} \subseteq Final /\ {"cancelTx", "cancelCommit"} \subseteq Steps
        /\ RowsTyped /\ EventTyped /\ req[r] \in Request /\ req[r].seen \in PartStatus
        /\ 0 \in Nat /\ TRUE \in BOOLEAN /\ NoUser \in Users \cup {NoUser}
        /\ {"REGISTERED", "CANCELLED"} \subseteq PartStatus
    BY TypeParts DEF Final, Steps, Request, PartStatus
  <1>u. u \in Users
    <2>1. req[r].pc \in Steps \ {"new", "archive", "delete"}
      BY DEF AdminCancelFind, CancelTx, CancelCommit, Steps
    <2> QED BY <2>1, HasUser
  <1>1. CASE AdminCancelFind(r)
    <2> DEFINE s == part[u]
    <2>1. s \in PartStatus
      BY <1>0, <1>u DEF RowsTyped
    <2>2. /\ UNCHANGED <<status, clock, rows, cron>>
          /\ Finish(r, "refused") \/ req' = [req EXCEPT ![r].pc = "cancelTx", ![r].seen = s]
      BY <1>1 DEF AdminCancelFind
    <2> HIDE DEF u, s
    <2>3. CASE Finish(r, "refused")
      BY <1>0, <2>2, <2>3, TypesStay
    <2>4. CASE req' = [req EXCEPT ![r].pc = "cancelTx", ![r].seen = s]
      <3>1. Goes(r, "cancelTx", s, 0, NoUser, TRUE)
        BY <2>4 DEF Goes
      <3> QED BY <1>0, <1>u, <2>1, <2>2, <3>1, TypesStay DEF u
    <2> QED BY <2>2, <2>3, <2>4
  <1>2. CASE CancelTx(r)
    <2>1. UNCHANGED <<status, clock, rows, cron>>
      BY <1>2 DEF CancelTx
    <2>2. CASE Finish(r, "refused")
      BY <1>0, <2>1, <2>2, TypesStay
    <2>3. CASE \E v \in Users \cup {NoUser} :
                  req' = [req EXCEPT ![r].pc = "cancelCommit", ![r].next = v]
      <3>1. PICK v \in Users \cup {NoUser} :
               req' = [req EXCEPT ![r].pc = "cancelCommit", ![r].next = v]
        BY <2>3
      <3>2. Goes(r, "cancelCommit", req[r].seen, 0, v, TRUE)
        BY <3>1 DEF Goes
      <3> QED BY <1>0, <1>u, <2>1, <3>2, TypesStay DEF u
    <2> QED BY <1>2, <2>2, <2>3, NextIsUser DEF CancelTx
  <1>3. CASE CancelCommit(r)
    <2>1. Finish(r, "ok") /\ EventTyped'
      BY <1>0, <1>3 DEF CancelCommit, EventTyped
    <2>2. part' \in [Users -> PartStatus]
      BY <1>0, <1>3 DEF CancelCommit, RowsTyped
    <2>3. position' \in [Users -> Nat]
      BY <1>0, <1>3 DEF CancelCommit, RowsTyped
    <2>4. count' \in Int /\ ahead' \in SUBSET (Users \X Users) /\ UNCHANGED <<done, older>>
      BY <1>0, <1>3 DEF CancelCommit, RowsTyped
    <2>5. RowsTyped'
      BY <1>0, <2>2, <2>3, <2>4 DEF RowsTyped
    <2> QED BY <1>0, <2>1, <2>5, TypesFinish
  <1> QED BY <1>1, <1>2, <1>3

\* submitProgress
LEMMA ProgressTyped ==
    ASSUME TypeInv, NEW r \in Requests,
           ProgressFind(r) \/ ProgressCreate(r) \/ ProgressCount(r) \/ ProgressWrite(r)
    PROVE  TypeInv'
  <1> DEFINE u == req[r].user
  <1>0. /\ {"refused", "ok"} \subseteq Final
        /\ {"progressWrite", "progressCreate", "progressCount"} \subseteq Steps \ Final
        /\ RowsTyped /\ EventTyped /\ req[r] \in Request /\ req[r].seen \in PartStatus
        /\ 0 \in Nat /\ TRUE \in BOOLEAN /\ NoUser \in Users \cup {NoUser}
        /\ {"IN_PROGRESS", "COMPLETED"} \subseteq PartStatus
    BY TypeParts DEF Final, Steps, Request, PartStatus
  <1>u. u \in Users
    <2>1. req[r].pc \in Steps \ {"new", "archive", "delete"}
      BY DEF ProgressFind, ProgressCreate, ProgressCount, ProgressWrite, Steps
    <2> QED BY <2>1, HasUser
  <1>g. ASSUME NEW pc \in Steps \ Final, Goto(r, pc)
        PROVE  Goes(r, pc, req[r].seen, 0, NoUser, TRUE)
    BY <1>g DEF Goto, Goes
  <1>1. CASE ProgressFind(r)
    <2>1. UNCHANGED <<status, clock, rows, cron>>
      BY <1>1 DEF ProgressFind
    <2>2. CASE Finish(r, "refused")
      BY <1>0, <2>1, <2>2, TypesStay
    <2>3. CASE Goto(r, "progressCreate")
      <3>1. Goes(r, "progressCreate", req[r].seen, 0, NoUser, TRUE)
        BY <1>0, <1>g, <2>3
      <3> QED BY <1>0, <1>u, <2>1, <3>1, TypesStay DEF u
    <2>4. CASE req' = [req EXCEPT ![r].pc = "progressWrite", ![r].finished = u \in done]
      <3> DEFINE b == u \in done
      <3>1. b \in BOOLEAN
        OBVIOUS
      <3>2. req' = [req EXCEPT ![r].pc = "progressWrite", ![r].finished = b]
        BY <2>4
      <3> HIDE DEF b
      <3>3. Goes(r, "progressWrite", req[r].seen, 0, NoUser, b)
        BY <3>2 DEF Goes
      <3>4. \E pc \in Steps, s \in PartStatus, n \in Nat, v \in Users \cup {NoUser},
               c \in BOOLEAN : Goes(r, pc, s, n, v, c)
        BY <1>0, <3>1, <3>3, Zenon
      <3> QED BY <1>u, <2>1, <3>4, TypesStay DEF u
    <2> QED BY <1>1, <2>2, <2>3, <2>4 DEF ProgressFind
  <1>2. CASE ProgressCreate(r)
    <2>1. EventTyped' /\ UNCHANGED <<status, clock, cron>>
      BY <1>0, <1>2 DEF ProgressCreate, EventTyped
    <2>2. CASE UNCHANGED rows /\ Finish(r, "refused")
      BY <1>0, <2>1, <2>2, StaysTyped, TypesFinish
    <2>3. CASE CreatePart(u, "IN_PROGRESS", 0) /\ UNCHANGED count /\ Goto(r, "progressCount")
      <3> HIDE DEF u
      <3>1. RowsTyped'
        BY <1>0, <1>u, <2>3, CreatePartTyped DEF RowsTyped
      <3>2. Goes(r, "progressCount", req[r].seen, 0, NoUser, TRUE)
        BY <1>0, <1>g, <2>3
      <3> QED BY <1>0, <1>u, <2>1, <3>1, <3>2, TypesGoOn DEF u
    <2> QED BY <1>2, <2>2, <2>3 DEF ProgressCreate
  <1>3. CASE ProgressCount(r)
    <2>1. EventTyped' /\ RowsTyped'
      BY <1>0, <1>3 DEF ProgressCount, EventTyped, RowsTyped
    <2>2. CASE Finish(r, "refused")
      BY <1>0, <2>1, <2>2, TypesFinish
    <2>3. CASE Goto(r, "progressWrite")
      <3>2. Goes(r, "progressWrite", req[r].seen, 0, NoUser, TRUE)
        BY <1>0, <1>g, <2>3
      <3> QED BY <1>0, <1>u, <2>1, <3>2, TypesGoOn DEF u
    <2> QED BY <1>3, <2>2, <2>3 DEF ProgressCount
  <1>4. CASE ProgressWrite(r)
    <2>1. EventTyped'
      BY <1>0, <1>4 DEF ProgressWrite, EventTyped
    <2>2. CASE UNCHANGED rows /\ Finish(r, "refused")
      BY <1>0, <2>1, <2>2, StaysTyped, TypesFinish
    <2>3. CASE \E s \in {"COMPLETED", "IN_PROGRESS"}, n \in Nat :
                  /\ SetPart({u}, s, n) /\ Finish(r, "ok") /\ UNCHANGED <<count, older>>
                  /\ done' = done \cup {u} \/ done' = done \ {u}
      <3>1. PICK s \in {"COMPLETED", "IN_PROGRESS"}, n \in Nat :
                  /\ SetPart({u}, s, n) /\ Finish(r, "ok") /\ UNCHANGED <<count, older>>
                  /\ done' = done \cup {u} \/ done' = done \ {u}
        BY <2>3
      <3>2. {u} \in SUBSET Users /\ s \in PartStatus
        BY <1>0, <1>u
      <3>3. /\ part' \in [Users -> PartStatus] /\ position' \in [Users -> Nat]
            /\ ahead' \in SUBSET (Users \X Users)
        <4> HIDE DEF u
        <4> QED BY <1>0, <3>1, <3>2, SetPartTyped
      <3>4. RowsTyped'
        BY <1>0, <1>u, <3>1, <3>3 DEF RowsTyped
      <3> QED BY <1>0, <2>1, <3>1, <3>4, TypesFinish
    <2>4. position[u] \in Nat
      BY <1>0, <1>u DEF RowsTyped
    <2> QED BY <1>4, <2>2, <2>3, <2>4 DEF ProgressWrite
  <1> QED BY <1>1, <1>2, <1>3, <1>4

\* deleteEvent
LEMMA DeleteTyped ==
    ASSUME TypeInv, NEW r \in Requests, Archive(r) \/ Delete(r)
    PROVE  TypeInv'
  <1>0. {"refused", "ok"} \subseteq Final /\ RowsTyped /\ EventTyped
    BY TypeParts DEF Final
  <1>1. \E result \in Final : Finish(r, result)
    BY <1>0 DEF Archive, Delete
  <1>2. EventTyped'
    BY <1>0 DEF Archive, Delete, EventTyped, EventStatus
  <1>3. RowsTyped'
    <2>1. CASE UNCHANGED rows
      BY <2>1, StaysTyped
    <2>2. CASE SetPart(Users, "NONE", 0) /\ count' = 0 /\ done' = {} /\ older' = {}
      <3>1. Users \in SUBSET Users /\ "NONE" \in PartStatus /\ 0 \in Nat
        BY DEF PartStatus
      <3>2. /\ part' \in [Users -> PartStatus] /\ position' \in [Users -> Nat]
            /\ ahead' \in SUBSET (Users \X Users)
        BY <1>0, <2>2, <3>1, SetPartTyped
      <3> QED BY <2>2, <3>2 DEF RowsTyped
    <2> QED BY <2>1, <2>2 DEF Archive, Delete
  <1> QED BY <1>1, <1>2, <1>3, TypesFinish

\* Every step keeps the types.
LEMMA TypesKept == TypeInv /\ [Next]_vars => TypeInv'
  <1> SUFFICES ASSUME TypeInv, [Next]_vars PROVE TypeInv'
    OBVIOUS
  <1>1. ASSUME NEW r \in Requests, Step(r) PROVE TypeInv'
    BY <1>1, ParticipateTyped, CancelTyped, ProgressTyped, DeleteTyped DEF Step
  <1>2. ASSUME NEW r \in Requests, Call(r) PROVE TypeInv'
    BY <1>2, CallTyped
  <1>3. CASE Tick \/ Cron
    <2>1. RowsTyped' /\ UNCHANGED req
      BY <1>3, StaysTyped DEF Tick, Cron, CronActivateFind, CronActivate, CronCompleteFind,
                              CronComplete
    <2>2. EventTyped'
      BY <1>3, TypeParts DEF Tick, Cron, CronActivateFind, CronActivate, CronCompleteFind,
                             CronComplete, EventTyped, EventStatus
    <2> QED BY <2>1, <2>2 DEF TypeInv, TypeOK, Parties, Runs, RowsTyped, EventTyped
  <1>4. CASE UNCHANGED vars
    BY <1>4 DEF vars, rows, TypeInv, TypeOK, Parties, Runs
  <1> QED BY <1>1, <1>2, <1>3, <1>4 DEF Next

LEMMA TypesStart == Init => TypeInv
  <1> SUFFICES ASSUME Init PROVE TypeInv
    OBVIOUS
  <1>1. RowsTyped /\ EventTyped
    BY EventBounds DEF Init, RowsTyped, EventTyped, PartStatus
  <1>2. req \in [Requests -> Request] /\ Parties
    BY NewTyped DEF Init, Parties, Runs
  <1> QED BY <1>1, <1>2, TypeParts

\* Rows, requests and the counter keep their types, whatever the requests, the
\* administrators, the clock and the cron do.
THEOREM TypesHold == Spec => []TypeOK
  <1>1. TypeInv => TypeOK
    BY DEF TypeInv
  <1> QED BY <1>1, TypesStart, TypesKept, PTL DEF Spec

-----------------------------------------------------------------------------
(* Requests that follow each other                                         *)

Progressing == {"progressFind", "progressCreate", "progressCount", "progressWrite"}

\* The counter counts the seats, and only a full event has a waiting list.
SeatsRight ==
    /\ part \in [Users -> {"NONE", "REGISTERED", "WAITLIST", "CANCELLED"}]
    /\ count = Cardinality(Occupying)
    /\ MaxParticipants # 0 => count <= MaxParticipants
    /\ Waitlist # {} => IsFull

\* What a request x knows of the rows is still true: nobody has come in between.
Knows(x) ==
    /\ x.pc = "existing" => x.full = IsFull
    /\ x.pc = "register" => part[x.user] = "NONE" /\ ~IsFull
    /\ x.pc = "reactivate" => part[x.user] = "CANCELLED" /\ ~IsFull
    /\ x.pc \in {"waitCount", "waitWrite"} =>
          x.seen \in {"NONE", "CANCELLED"} /\ part[x.user] = x.seen /\ IsFull
    /\ x.pc = "waitWrite" /\ WaitlistCapacity # 0 => Cardinality(Waitlist) < WaitlistCapacity
    /\ x.pc \in {"adminFind", "cancelTx", "cancelCommit"} => x.positive = (count > 0)
    /\ x.pc \in {"cancelTx", "cancelCommit"} => x.seen # "NONE" /\ part[x.user] = x.seen
    /\ x.pc = "cancelCommit" =>
          \/ x.seen = "REGISTERED" /\ x.next \in Waitlist
          \/ x.next = NoUser /\ (x.seen = "REGISTERED" => Waitlist = {})
    /\ x.pc = "delete" => InStatus({"NONE"}) = Users

Alone == \A p, q \in Requests : Runs(p) /\ Runs(q) => p = q
SerialInv == /\ TypeInv /\ SeatsRight /\ Alone
             /\ \A r \in Requests : Knows(req[r]) /\ req[r].pc \notin Progressing

Allocated == [AllocatesSeats!Next]_<<Occupying, Waitlist>>

LEMMA SameCount == ASSUME NEW S PROVE AllocatesSeats!Cardinality(S) = Cardinality(S)
  BY DEF AllocatesSeats!Cardinality, Cardinality

LEMMA CountsSeats ==
    ASSUME SeatsRight
    PROVE  /\ IsFiniteSet(Occupying) /\ count \in Nat
           /\ AllocatesSeats!AllTaken <=> IsFull
           /\ Occupying = InStatus({"REGISTERED"})
  <1>1. Occupying \in SUBSET Users
    BY DEF Occupying, InStatus
  <1>2. IsFiniteSet(Occupying)
    BY <1>1, EventBounds, FS_Subset
  <1>3. count \in Nat
    BY <1>2, FS_CardinalityType DEF SeatsRight
  <1>4. AllocatesSeats!AllTaken <=> IsFull
    BY <1>3, SameCount, EventBounds DEF SeatsRight, IsFull, AllocatesSeats!AllTaken
  <1>5. Occupying = InStatus({"REGISTERED"})
    BY DEF Occupying, InStatus, SeatsRight, Confirmed
  <1> QED BY <1>2, <1>3, <1>4, <1>5

LEMMA Moves ==
    ASSUME SeatsRight, NEW u \in Users, NEW s \in {"REGISTERED", "WAITLIST", "CANCELLED"},
           part' \in [Users -> PartStatus],
           \A v \in Users : part'[v] = IF v = u THEN s ELSE part[v]
    PROVE  /\ part' \in [Users -> {"NONE", "REGISTERED", "WAITLIST", "CANCELLED"}]
           /\ Occupying' = IF s = "REGISTERED" THEN Occupying \cup {u} ELSE Occupying \ {u}
           /\ Waitlist' = IF s = "WAITLIST" THEN Waitlist \cup {u} ELSE Waitlist \ {u}
  <1>1. part' \in [Users -> {"NONE", "REGISTERED", "WAITLIST", "CANCELLED"}]
    BY DEF SeatsRight
  <1>2. Occupying' = IF s = "REGISTERED" THEN Occupying \cup {u} ELSE Occupying \ {u}
    BY DEF SeatsRight, Occupying, InStatus, Confirmed
  <1>3. Waitlist' = IF s = "WAITLIST" THEN Waitlist \cup {u} ELSE Waitlist \ {u}
    BY DEF SeatsRight, Waitlist, InStatus
  <1> QED BY <1>1, <1>2, <1>3

\* A free seat is taken.
LEMMA TakesSeat ==
    ASSUME SeatsRight, NEW u \in Users, part[u] \in {"NONE", "CANCELLED"}, ~IsFull,
           part' \in [Users -> PartStatus], count' = count + 1,
           \A v \in Users : part'[v] = IF v = u THEN "REGISTERED" ELSE part[v]
    PROVE  SeatsRight' /\ Allocated
  <1>1. /\ part' \in [Users -> {"NONE", "REGISTERED", "WAITLIST", "CANCELLED"}]
        /\ Occupying' = Occupying \cup {u} /\ Waitlist' = Waitlist \ {u}
    BY Moves
  <1>2. u \notin Occupying /\ u \notin Waitlist /\ Waitlist = {}
    BY DEF Occupying, Waitlist, InStatus, Confirmed, SeatsRight
  <1>3. count' = Cardinality(Occupying')
    BY <1>1, <1>2, CountsSeats, FS_AddElement DEF SeatsRight
  <1>4. SeatsRight'
    BY <1>1, <1>2, <1>3, CountsSeats, EventBounds DEF SeatsRight, IsFull
  <1>5. AllocatesSeats!Seat(u)
    BY <1>1, <1>2, CountsSeats DEF AllocatesSeats!Seat
  <1> QED BY <1>4, <1>5 DEF Allocated, AllocatesSeats!Next

\* Somebody starts waiting.
LEMMA StartsWaiting ==
    ASSUME SeatsRight, NEW u \in Users, part[u] \in {"NONE", "CANCELLED"}, IsFull,
           WaitlistCapacity # 0 => Cardinality(Waitlist) < WaitlistCapacity,
           part' \in [Users -> PartStatus], count' = count,
           \A v \in Users : part'[v] = IF v = u THEN "WAITLIST" ELSE part[v]
    PROVE  SeatsRight' /\ Allocated
  <1>1. /\ part' \in [Users -> {"NONE", "REGISTERED", "WAITLIST", "CANCELLED"}]
        /\ Occupying' = Occupying \ {u} /\ Waitlist' = Waitlist \cup {u}
    BY Moves
  <1>2. u \notin Occupying /\ u \notin Waitlist
    BY DEF Occupying, Waitlist, InStatus, Confirmed
  <1>3. Occupying' = Occupying
    BY <1>1, <1>2
  <1>4. SeatsRight'
    BY <1>1, <1>3 DEF SeatsRight, IsFull
  <1>5. AllocatesSeats!Wait(u)
    BY <1>1, <1>2, <1>3, SameCount, CountsSeats DEF AllocatesSeats!Wait
  <1> QED BY <1>4, <1>5 DEF Allocated, AllocatesSeats!Next

\* A seat is given back and nobody waits.
LEMMA LeavesSeat ==
    ASSUME SeatsRight, NEW u \in Users, part[u] = "REGISTERED", Waitlist = {},
           part' \in [Users -> PartStatus], count' = count - 1,
           \A v \in Users : part'[v] = IF v = u THEN "CANCELLED" ELSE part[v]
    PROVE  SeatsRight' /\ Allocated
  <1>1. /\ part' \in [Users -> {"NONE", "REGISTERED", "WAITLIST", "CANCELLED"}]
        /\ Occupying' = Occupying \ {u} /\ Waitlist' = Waitlist \ {u}
    BY Moves
  <1>2. u \in Occupying
    BY DEF Occupying, InStatus, Confirmed
  <1>3. count' = Cardinality(Occupying')
    BY <1>1, <1>2, CountsSeats, FS_RemoveElement DEF SeatsRight
  <1>4. SeatsRight'
    BY <1>1, <1>3, CountsSeats, EventBounds DEF SeatsRight
  <1>5. AllocatesSeats!Leave(u)
    BY <1>1, <1>2 DEF AllocatesSeats!Leave
  <1> QED BY <1>4, <1>5 DEF Allocated, AllocatesSeats!Next

\* A seat is given back to somebody who waits.
LEMMA HandsOver ==
    ASSUME SeatsRight, NEW u \in Users, part[u] = "REGISTERED", NEW v \in Waitlist,
           part' \in [Users -> PartStatus], count' = count,
           \A w \in Users : part'[w] = CASE w = v -> "REGISTERED"
                                         [] w = u /\ w # v -> "CANCELLED"
                                         [] OTHER -> part[w]
    PROVE  SeatsRight' /\ Allocated
  <1>1. v \in Users /\ part[v] = "WAITLIST" /\ v # u
    BY DEF Waitlist, InStatus
  <1>2. part' \in [Users -> {"NONE", "REGISTERED", "WAITLIST", "CANCELLED"}]
    BY <1>1 DEF SeatsRight
  <1>3. u \in Occupying /\ v \notin Occupying \ {u}
    BY <1>1 DEF Occupying, InStatus, Confirmed
  <1>4. Occupying' = (Occupying \ {u}) \cup {v}
    BY <1>1, <1>2 DEF SeatsRight, Occupying, InStatus, Confirmed
  <1>5. Waitlist' = Waitlist \ {v}
    BY <1>1, <1>2 DEF SeatsRight, Waitlist, InStatus
  <1>6. count' = Cardinality(Occupying')
    <2>1. IsFiniteSet(Occupying \ {u}) /\ Cardinality(Occupying \ {u}) = count - 1
      BY <1>3, CountsSeats, FS_RemoveElement DEF SeatsRight
    <2>2. Cardinality((Occupying \ {u}) \cup {v}) = (count - 1) + 1
      BY <1>3, <2>1, FS_AddElement
    <2> QED BY <1>4, <2>2, CountsSeats
  <1>7. SeatsRight'
    BY <1>2, <1>5, <1>6, CountsSeats DEF SeatsRight, IsFull
  <1>8. AllocatesSeats!HandOver(u, v)
    BY <1>3, <1>4, <1>5 DEF AllocatesSeats!HandOver
  <1> QED BY <1>1, <1>7, <1>8 DEF Allocated, AllocatesSeats!Next

\* A place on the waiting list is given up, or a cancellation is repeated.
LEMMA GivesUp ==
    ASSUME SeatsRight, NEW u \in Users, part[u] \in {"WAITLIST", "CANCELLED"},
           part' \in [Users -> PartStatus], count' = count,
           \A v \in Users : part'[v] = IF v = u THEN "CANCELLED" ELSE part[v]
    PROVE  SeatsRight' /\ Allocated
  <1>1. /\ part' \in [Users -> {"NONE", "REGISTERED", "WAITLIST", "CANCELLED"}]
        /\ Occupying' = Occupying \ {u} /\ Waitlist' = Waitlist \ {u}
    BY Moves
  <1>2. u \notin Occupying
    BY DEF Occupying, InStatus, Confirmed
  <1>3. Occupying' = Occupying
    BY <1>1, <1>2
  <1>4. SeatsRight'
    BY <1>1, <1>3 DEF SeatsRight, IsFull
  <1>5. CASE part[u] = "WAITLIST"
    <2>1. AllocatesSeats!GiveUp(u)
      BY <1>1, <1>3, <1>5 DEF AllocatesSeats!GiveUp, Waitlist, InStatus
    <2> QED BY <1>4, <2>1 DEF Allocated, AllocatesSeats!Next
  <1>6. CASE part[u] = "CANCELLED"
    <2>1. Waitlist' = Waitlist
      BY <1>1, <1>6 DEF Waitlist, InStatus
    <2> QED BY <1>3, <1>4, <2>1 DEF Allocated
  <1> QED BY <1>5, <1>6

\* Rows that do not move
LEMMA SeatsStay ==
    ASSUME SeatsRight, UNCHANGED <<part, count>>
    PROVE  SeatsRight' /\ Allocated /\ Occupying' = Occupying /\ Waitlist' = Waitlist
  <1>1. Occupying' = Occupying /\ Waitlist' = Waitlist
    BY DEF Occupying, Waitlist, InStatus
  <1> QED BY <1>1 DEF SeatsRight, IsFull, Allocated

-----------------------------------------------------------------------------
(* A request that runs alone                                               *)

OnlyOne(r) == \A q \in Requests \ {r} : ~Runs(q)

LEMMA StepsAlone ==
    ASSUME SerialInv, NEW r \in Requests, Step(r)
    PROVE  OnlyOne(r) /\ TypeInv' /\ req[r].pc \notin Progressing
  <1>1. TypeInv'
    BY TypesKept DEF SerialInv, Next
  <1>2. Runs(r)
    BY DEF Step, Runs, Final, ParticipateExisting, Register, Reactivate, WaitCount, WaitWrite,
           AdminCancelFind, CancelTx, CancelCommit, ProgressFind, ProgressCreate,
           ProgressCount, ProgressWrite, Archive, Delete
  <1>3. OnlyOne(r)
    BY <1>2 DEF OnlyOne, SerialInv, Alone
  <1> QED BY <1>1, <1>3 DEF SerialInv

LEMMA SerialMove ==
    ASSUME SerialInv, TypeInv', SeatsRight', NEW r \in Requests, OnlyOne(r),
           \A q \in Requests \ {r} : req'[q] = req[q],
           Knows(req[r])', req'[r].pc \notin Progressing
    PROVE  SerialInv'
  <1>1. \A q \in Requests \ {r} : req'[q].pc \in Final \cup {"new"}
    BY DEF OnlyOne, Runs
  <1>2. Alone'
    BY <1>1 DEF Alone, Runs
  <1>3. ASSUME NEW q \in Requests PROVE Knows(req[q])' /\ req'[q].pc \notin Progressing
    <2>1. CASE q = r
      BY <2>1
    <2>2. CASE q # r
      BY <1>1, <2>2 DEF Knows, Progressing, Final
    <2> QED BY <2>1, <2>2
  <1> QED BY <1>2, <1>3 DEF SerialInv

LEMMA SerialFinish ==
    ASSUME SerialInv, TypeInv', SeatsRight', NEW r \in Requests, OnlyOne(r),
           NEW result \in Final, Finish(r, result)
    PROVE  SerialInv'
  <1>1. PICK x \in Request : req' = [req EXCEPT ![r] = x] /\ x.pc = result
    BY Finishes DEF SerialInv, TypeInv
  <1>2. req'[r] = x /\ \A q \in Requests \ {r} : req'[q] = req[q]
    BY <1>1, RequestMoves DEF SerialInv, TypeInv
  <1>3. req'[r].pc \in Final
    BY <1>1, <1>2
  <1>4. Knows(req[r])' /\ req'[r].pc \notin Progressing
    BY <1>3 DEF Knows, Progressing, Final
  <1> QED BY <1>2, <1>4, SerialMove

\* A request that finishes and has left the rows alone
LEMMA SerialRefused ==
    ASSUME SerialInv, TypeInv', UNCHANGED <<part, count>>, NEW r \in Requests, OnlyOne(r),
           NEW result \in Final, Finish(r, result)
    PROVE  SerialInv' /\ Allocated
  <1>1. SeatsRight' /\ Allocated
    BY SeatsStay DEF SerialInv
  <1> QED BY <1>1, SerialFinish

\* A request that begins when no other runs
LEMMA SerialBegin ==
    ASSUME SerialInv, Serial, TypeInv', UNCHANGED <<part, count>>, NEW r \in Requests,
           NEW op \in OpNames, NEW u \in Users \cup {NoUser},
           NEW pc \in Final \cup {"existing", "adminFind", "cancelTx", "archive", "delete"},
           NEW s \in PartStatus, Begin(r, op, u, pc, s),
           pc = "cancelTx" => s # "NONE" /\ part[u] = s,
           pc = "delete" => InStatus({"NONE"}) = Users
    PROVE  SerialInv' /\ Allocated
  <1>1. SeatsRight' /\ Allocated
    BY SeatsStay DEF SerialInv
  <1>2. OnlyOne(r)
    BY DEF Begin, Resting, OnlyOne, Runs
  <1>3. pc \in Steps \cup Final /\ pc \notin Progressing \cup {"register", "reactivate",
                                       "waitCount", "waitWrite", "cancelCommit"}
    BY DEF Steps, Final, Progressing
  <1>4. PICK x \in Request : /\ req' = [req EXCEPT ![r] = x] /\ x.pc = pc
                             /\ pc \notin Final => /\ x.user = u /\ x.seen = s
                                                   /\ x.full = IsFull /\ x.positive = (count > 0)
    BY <1>3, Begins DEF SerialInv, TypeInv
  <1>5. req'[r] = x /\ \A q \in Requests \ {r} : req'[q] = req[q]
    BY <1>4, RequestMoves DEF SerialInv, TypeInv
  <1>6. Knows(req[r])'
    <2>1. CASE pc \in Final
      BY <1>4, <1>5, <2>1 DEF Knows, Final
    <2>2. CASE pc \notin Final
      BY <1>3, <1>4, <1>5, <2>2 DEF Knows, IsFull, InStatus
    <2> QED BY <2>1, <2>2
  <1> QED BY <1>1, <1>2, <1>3, <1>4, <1>5, <1>6, SerialMove

LEMMA SerialCall ==
    ASSUME SerialInv, Serial, "progress" \notin Ops, NEW r \in Requests, Call(r)
    PROVE  SerialInv' /\ Allocated
  <1>0. /\ TypeInv /\ TypeInv' /\ "NONE" \in PartStatus /\ {"ok", "refused"} \subseteq Final
        /\ {"participate", "cancel", "adminCancel", "delete", "status"} \subseteq OpNames
    BY TypesKept DEF SerialInv, Next, PartStatus, Final, OpNames
  <1>1. ASSUME NEW u \in Users, ParticipateLoad(r, u) PROVE SerialInv' /\ Allocated
    <2> DEFINE pc == IF status \in {"PUBLISHED", "ACTIVE"} /\ clock <= Deadline
                     THEN "existing" ELSE "refused"
    <2>1. Begin(r, "participate", u, pc, "NONE") /\ UNCHANGED <<part, count>>
      BY <1>1 DEF ParticipateLoad, rows
    <2>2. pc \in Final \cup {"existing"} /\ pc \notin {"cancelTx", "delete"}
      BY <1>0
    <2> HIDE DEF pc
    <2> QED BY <1>0, <2>1, <2>2, SerialBegin
  <1>2. ASSUME NEW u \in Users, CancelLoad(r, u) PROVE SerialInv' /\ Allocated
    <2> DEFINE pc == IF part[u] = "NONE" \/ clock >= 1 THEN "refused" ELSE "cancelTx"
               s == part[u]
    <2>1. Begin(r, "cancel", u, pc, s) /\ UNCHANGED <<part, count>>
      BY <1>2 DEF CancelLoad, rows
    <2>2. /\ pc \in Final \cup {"cancelTx"} /\ pc # "delete"
          /\ s \in PartStatus /\ (pc = "cancelTx" => s # "NONE" /\ part[u] = s)
      BY <1>0 DEF TypeInv, TypeOK
    <2> HIDE DEF pc, s
    <2> QED BY <1>0, <2>1, <2>2, SerialBegin
  <1>3. ASSUME NEW u \in Users, AdminCancelLoad(r, u) PROVE SerialInv' /\ Allocated
    <2> DEFINE pc == IF Exists THEN "adminFind" ELSE "refused"
    <2>1. Begin(r, "adminCancel", u, pc, "NONE") /\ UNCHANGED <<part, count>>
      BY <1>3 DEF AdminCancelLoad, rows
    <2>2. pc \in Final \cup {"adminFind"} /\ pc \notin {"cancelTx", "delete"}
      BY <1>0
    <2> HIDE DEF pc
    <2> QED BY <1>0, <2>1, <2>2, SerialBegin
  <1>4. ASSUME NEW u \in Users, ProgressLoad(r, u) PROVE FALSE
    BY <1>4 DEF ProgressLoad, Begin
  <1>5. ASSUME DeleteLoad(r) PROVE SerialInv' /\ Allocated
    <2> DEFINE pc == CASE ~Exists -> "refused" [] Exists /\ HasHistory -> "archive"
                       [] OTHER -> "delete"
    <2>1. Begin(r, "delete", NoUser, pc, "NONE") /\ UNCHANGED <<part, count>>
      BY <1>5 DEF DeleteLoad, rows
    <2>2. /\ pc \in Final \cup {"archive", "delete"} /\ pc # "cancelTx"
          /\ pc = "delete" => InStatus({"NONE"}) = Users
      BY <1>0 DEF HasHistory
    <2> HIDE DEF pc
    <2> QED BY <1>0, <2>1, <2>2, SerialBegin
  <1>6. ASSUME UpdateStatus(r) PROVE SerialInv' /\ Allocated
    <2> DEFINE pc == IF Exists THEN "ok" ELSE "refused"
    <2>1. Begin(r, "status", NoUser, pc, "NONE") /\ UNCHANGED <<part, count>>
      BY <1>6 DEF UpdateStatus, rows
    <2>2. pc \in Final /\ pc \notin {"cancelTx", "delete"}
      BY <1>0
    <2> HIDE DEF pc
    <2> QED BY <1>0, <2>1, <2>2, SerialBegin
  <1> QED BY <1>1, <1>2, <1>3, <1>4, <1>5, <1>6 DEF Call

\* participateInEvent
LEMMA SerialParticipate ==
    ASSUME SerialInv, NEW r \in Requests, OnlyOne(r), TypeInv',
           \/ ParticipateExisting(r) \/ Register(r) \/ Reactivate(r)
           \/ WaitCount(r) \/ WaitWrite(r)
    PROVE  SerialInv' /\ Allocated
  <1> DEFINE u == req[r].user
  <1>0. /\ TypeInv /\ RowsTyped /\ req \in [Requests -> Request] /\ req[r] \in Request
        /\ SeatsRight /\ Knows(req[r]) /\ {"ok", "refused"} \subseteq Final /\ 0 \in Nat
        /\ req[r].place \in Nat /\ {"REGISTERED", "WAITLIST"} \subseteq PartStatus
    BY TypeParts DEF SerialInv, Final, Request, PartStatus
  <1>u. u \in Users
    <2>1. req[r].pc \in Steps \ {"new", "archive", "delete"}
      BY DEF ParticipateExisting, Register, Reactivate, WaitCount, WaitWrite, Steps
    <2> QED BY <1>0, <2>1, HasUser
  <1>p. part' \in [Users -> PartStatus]
    BY DEF TypeInv, TypeOK
  <1>1. CASE ParticipateExisting(r)
    <2> DEFINE s == part[u]
               pc == AfterExisting(r, s)
    <2>1. UNCHANGED <<part, count>>
      BY <1>1 DEF ParticipateExisting, rows
    <2>2. CASE pc \in Final
      <3>1. Finish(r, pc)
        BY <1>1, <2>2 DEF ParticipateExisting
      <3> HIDE DEF pc
      <3> QED BY <2>1, <2>2, <3>1, SerialRefused
    <2>3. CASE pc \notin Final
      <3>1. req' = [req EXCEPT ![r].pc = pc, ![r].seen = s]
        BY <1>1, <2>3 DEF ParticipateExisting
      <3>2. req[r].full = IsFull
        BY <1>0, <1>1 DEF Knows, ParticipateExisting
      <3>3. /\ pc \in {"register", "reactivate", "waitCount"}
            /\ pc = "register" => s = "NONE" /\ ~IsFull
            /\ pc = "reactivate" => s = "CANCELLED" /\ ~IsFull
            /\ pc = "waitCount" => s \in {"NONE", "CANCELLED"} /\ IsFull
        <4>1. IsFull \in BOOLEAN
          BY DEF IsFull
        <4>2. CASE s \notin {"NONE", "CANCELLED"}
          BY <2>3, <4>2 DEF AfterExisting, Final
        <4>3. CASE s \in {"NONE", "CANCELLED"} /\ ~IsFull
          BY <3>2, <4>3 DEF AfterExisting
        <4>4. CASE s \in {"NONE", "CANCELLED"} /\ IsFull
          BY <2>3, <3>2, <4>4 DEF AfterExisting, Final
        <4> QED BY <4>1, <4>2, <4>3, <4>4
      <3> HIDE DEF pc
      <3>4. /\ \A q \in Requests \ {r} : req'[q] = req[q]
            /\ req'[r].pc = pc /\ req'[r].user = u /\ req'[r].seen = s
        BY <1>0, <3>1 DEF Request
      <3>5. Knows(req[r])' /\ req'[r].pc \notin Progressing
        BY <2>1, <3>3, <3>4 DEF Knows, Progressing, IsFull
      <3> QED BY <1>0, <2>1, <3>4, <3>5, SeatsStay, SerialMove
    <2> QED BY <2>2, <2>3
  <1>2. CASE Register(r)
    <2>1. part[u] = "NONE" /\ ~IsFull
      BY <1>0, <1>2 DEF Knows, Register
    <2>2. CASE UNCHANGED rows /\ Finish(r, "refused")
      BY <1>0, <2>2, SerialRefused DEF rows
    <2>3. CASE CreatePart(u, "REGISTERED", 0) /\ count' = count + 1 /\ Finish(r, "ok")
      <3> HIDE DEF u
      <3>1. \A v \in Users : part'[v] = IF v = u THEN "REGISTERED" ELSE part[v]
        BY <1>0, <1>u, <2>3, CreatePartTyped DEF RowsTyped
      <3>2. SeatsRight' /\ Allocated
        BY <1>0, <1>p, <1>u, <2>1, <2>3, <3>1, TakesSeat
      <3> QED BY <1>0, <2>3, <3>2, SerialFinish
    <2> QED BY <1>2, <2>2, <2>3 DEF Register
  <1>3. CASE Reactivate(r)
    <2>1. part[u] = "CANCELLED" /\ ~IsFull
      BY <1>0, <1>3 DEF Knows, Reactivate
    <2>2. CASE UNCHANGED rows /\ Finish(r, "refused")
      BY <1>0, <2>2, SerialRefused DEF rows
    <2>3. CASE SetPart({u}, "REGISTERED", 0) /\ count' = count + 1 /\ Finish(r, "ok")
      <3> HIDE DEF u
      <3>1. \A v \in Users : part'[v] = IF v = u THEN "REGISTERED" ELSE part[v]
        BY <2>3 DEF SetPart
      <3>2. SeatsRight' /\ Allocated
        BY <1>0, <1>p, <1>u, <2>1, <2>3, <3>1, TakesSeat
      <3> QED BY <1>0, <2>3, <3>2, SerialFinish
    <2> QED BY <1>3, <2>2, <2>3 DEF Reactivate
  <1>4. CASE WaitCount(r)
    <2>1. /\ UNCHANGED <<part, count>>
          /\ req[r].seen \in {"NONE", "CANCELLED"} /\ part[u] = req[r].seen /\ IsFull
      BY <1>0, <1>4 DEF Knows, WaitCount, rows
    <2>2. CASE Finish(r, "refused")
      BY <1>0, <2>1, <2>2, SerialRefused
    <2>3. CASE /\ req' = [req EXCEPT ![r].pc = "waitWrite", ![r].place = Cardinality(Waitlist) + 1]
               /\ WaitlistCapacity # 0 => Cardinality(Waitlist) < WaitlistCapacity
      <3>1. /\ \A q \in Requests \ {r} : req'[q] = req[q]
            /\ req'[r].pc = "waitWrite" /\ req'[r].user = u /\ req'[r].seen = req[r].seen
        BY <1>0, <2>3 DEF Request
      <3>2. SeatsRight' /\ Allocated /\ Waitlist' = Waitlist
        BY <1>0, <2>1, SeatsStay
      <3>3. Knows(req[r])' /\ req'[r].pc \notin Progressing
        BY <2>1, <2>3, <3>1, <3>2 DEF Knows, Progressing, IsFull
      <3> QED BY <3>1, <3>2, <3>3, SerialMove
    <2>4. WaitlistCapacity \in Nat /\ Cardinality(Waitlist) \in Nat
      BY EventBounds, WaitlistCounts
    <2> QED BY <1>4, <2>2, <2>3, <2>4 DEF WaitCount
  <1>5. CASE WaitWrite(r)
    <2>1. /\ req[r].seen \in {"NONE", "CANCELLED"} /\ part[u] = req[r].seen /\ IsFull
          /\ WaitlistCapacity # 0 => Cardinality(Waitlist) < WaitlistCapacity
      BY <1>0, <1>5 DEF Knows, WaitWrite
    <2>2. CASE UNCHANGED rows /\ Finish(r, "refused")
      BY <1>0, <2>2, SerialRefused DEF rows
    <2>3. CASE \/ CreatePart(u, "WAITLIST", req[r].place) /\ UNCHANGED count /\ Finish(r, "ok")
               \/ SetPart({u}, "WAITLIST", req[r].place) /\ UNCHANGED count /\ Finish(r, "ok")
      <3>1. \A v \in Users : part'[v] = IF v = u THEN "WAITLIST" ELSE part[v]
        <4> HIDE DEF u
        <4> QED BY <2>3 DEF SetPart, CreatePart
      <3>2. SeatsRight' /\ Allocated
        <4> HIDE DEF u
        <4> QED BY <1>0, <1>p, <1>u, <2>1, <2>3, <3>1, StartsWaiting
      <3> QED BY <1>0, <2>3, <3>2, SerialFinish
    <2> QED BY <1>5, <2>2, <2>3 DEF WaitWrite
  <1> QED BY <1>1, <1>2, <1>3, <1>4, <1>5

\* cancelParticipation and adminCancelParticipant
LEMMA SerialCancel ==
    ASSUME SerialInv, NEW r \in Requests, OnlyOne(r), TypeInv',
           AdminCancelFind(r) \/ CancelTx(r) \/ CancelCommit(r)
    PROVE  SerialInv' /\ Allocated
  <1> DEFINE u == req[r].user
  <1>0. /\ TypeInv /\ RowsTyped /\ req \in [Requests -> Request] /\ req[r] \in Request
        /\ SeatsRight /\ Knows(req[r]) /\ {"ok", "refused"} \subseteq Final
    BY TypeParts DEF SerialInv, Final
  <1>u. u \in Users /\ NoUser \notin Users
    <2>1. req[r].pc \in Steps \ {"new", "archive", "delete"}
      BY DEF AdminCancelFind, CancelTx, CancelCommit, Steps
    <2> QED BY <1>0, <2>1, HasUser, EventBounds
  <1>p. part' \in [Users -> PartStatus]
    BY DEF TypeInv, TypeOK
  <1>1. CASE AdminCancelFind(r)
    <2> DEFINE s == part[u]
    <2>1. UNCHANGED <<part, count>> /\ req[r].positive = (count > 0)
      BY <1>0, <1>1 DEF AdminCancelFind, rows, Knows
    <2>2. CASE Finish(r, "refused")
      BY <1>0, <2>1, <2>2, SerialRefused
    <2>3. CASE req' = [req EXCEPT ![r].pc = "cancelTx", ![r].seen = s] /\ s # "NONE"
      <3>1. /\ \A q \in Requests \ {r} : req'[q] = req[q]
            /\ req'[r].pc = "cancelTx" /\ req'[r].user = u /\ req'[r].seen = s
            /\ req'[r].positive = req[r].positive
        BY <1>0, <2>3 DEF Request
      <3>2. Knows(req[r])' /\ req'[r].pc \notin Progressing
        BY <2>1, <2>3, <3>1 DEF Knows, Progressing
      <3> QED BY <1>0, <2>1, <3>1, <3>2, SeatsStay, SerialMove
    <2> QED BY <1>1, <2>2, <2>3 DEF AdminCancelFind
  <1>2. CASE CancelTx(r)
    <2>1. /\ UNCHANGED <<part, count>> /\ req[r].positive = (count > 0)
          /\ req[r].seen # "NONE" /\ part[u] = req[r].seen
      BY <1>0, <1>2 DEF CancelTx, rows, Knows
    <2>2. CASE Finish(r, "refused")
      BY <1>0, <2>1, <2>2, SerialRefused
    <2>3. CASE \E v \in IF req[r].seen \in Confirmed THEN NextInWaitlist(u) ELSE {NoUser} :
                  req' = [req EXCEPT ![r].pc = "cancelCommit", ![r].next = v]
      <3>1. PICK v \in IF req[r].seen \in Confirmed THEN NextInWaitlist(u) ELSE {NoUser} :
               req' = [req EXCEPT ![r].pc = "cancelCommit", ![r].next = v]
        BY <2>3
      <3>2. /\ \A q \in Requests \ {r} : req'[q] = req[q]
            /\ req'[r].pc = "cancelCommit" /\ req'[r].user = u /\ req'[r].seen = req[r].seen
            /\ req'[r].positive = req[r].positive /\ req'[r].next = v
        BY <1>0, <3>1 DEF Request
      <3>3. \/ req[r].seen = "REGISTERED" /\ v \in Waitlist
            \/ v = NoUser /\ (req[r].seen = "REGISTERED" => Waitlist = {})
        <4>1. CASE req[r].seen = "REGISTERED"
          <5>1. u \notin Waitlist /\ v \in NextInWaitlist(u)
            BY <2>1, <4>1 DEF Waitlist, InStatus, Confirmed
          <5> QED BY <4>1, <5>1 DEF NextInWaitlist
        <4>2. CASE req[r].seen # "REGISTERED"
          <5>1. req[r].seen \notin Confirmed
            BY <1>0, <1>u, <2>1, <4>2 DEF SeatsRight, Confirmed
          <5> QED BY <4>2, <5>1
        <4> QED BY <4>1, <4>2
      <3>4. SeatsRight' /\ Allocated /\ Waitlist' = Waitlist
        BY <1>0, <2>1, SeatsStay
      <3>5. Knows(req[r])' /\ req'[r].pc \notin Progressing
        BY <2>1, <3>2, <3>3, <3>4 DEF Knows, Progressing
      <3> QED BY <3>2, <3>4, <3>5, SerialMove
    <2> QED BY <1>2, <2>2, <2>3 DEF CancelTx
  <1>3. CASE CancelCommit(r)
    <2> DEFINE v == req[r].next
    <2>1. /\ req[r].seen # "NONE" /\ part[u] = req[r].seen /\ req[r].positive = (count > 0)
          /\ \/ req[r].seen = "REGISTERED" /\ v \in Waitlist
             \/ v = NoUser /\ (req[r].seen = "REGISTERED" => Waitlist = {})
      BY <1>0, <1>3 DEF CancelCommit, Knows
    <2>2. Finish(r, "ok")
      BY <1>3 DEF CancelCommit
    <2>3. /\ \A w \in Users : part'[w] = CASE w = v -> "REGISTERED"
                                           [] w = u /\ w # v -> "CANCELLED"
                                           [] OTHER -> part[w]
          /\ count' = IF req[r].seen \in Confirmed /\ v = NoUser /\ req[r].positive
                      THEN count - 1 ELSE count
      BY <1>3 DEF CancelCommit
    <2> HIDE DEF u, v
    <2>4. SeatsRight' /\ Allocated
      <3>1. CASE v \in Waitlist
        <4>1. v # NoUser /\ part[u] = "REGISTERED"
          BY <1>u, <2>1, <3>1 DEF Waitlist, InStatus
        <4>2. count' = count
          BY <2>3, <4>1
        <4> QED BY <1>0, <1>u, <1>p, <2>3, <3>1, <4>1, <4>2, HandsOver
      <3>2. CASE v = NoUser
        <4>1. \A w \in Users : part'[w] = IF w = u THEN "CANCELLED" ELSE part[w]
          BY <1>u, <2>3, <3>2
        <4>2. CASE part[u] = "REGISTERED"
          <5>1. u \in Occupying /\ IsFiniteSet(Occupying) /\ count = Cardinality(Occupying)
            BY <1>0, <1>u, <4>2, CountsSeats DEF Occupying, InStatus, Confirmed, SeatsRight
          <5>2. count \in Nat /\ count # 0
            BY <1>0, <5>1, CountsSeats, FS_EmptySet
          <5>3. Waitlist = {}
            <6>1. NoUser \notin Waitlist
              BY <1>u DEF Waitlist, InStatus
            <6> QED BY <2>1, <3>2, <4>2, <6>1
          <5>4. count' = count - 1
            <6>1. count > 0
              BY <5>2
            <6>2. req[r].positive
              BY <2>1, <6>1, Zenon
            <6>3. req[r].seen \in Confirmed
              BY <2>1, <4>2 DEF Confirmed
            <6> QED BY <2>3, <3>2, <6>2, <6>3, Zenon
          <5> QED BY <1>0, <1>u, <1>p, <4>1, <4>2, <5>3, <5>4, LeavesSeat
        <4>3. CASE part[u] # "REGISTERED"
          <5>1. part[u] \in {"WAITLIST", "CANCELLED"}
            BY <1>0, <1>u, <2>1, <4>3 DEF SeatsRight
          <5>2. count' = count
            BY <2>1, <2>3, <5>1 DEF Confirmed
          <5> QED BY <1>0, <1>u, <1>p, <4>1, <5>1, <5>2, GivesUp
        <4> QED BY <4>2, <4>3
      <3> QED BY <2>1, <3>1, <3>2
    <2> QED BY <1>0, <2>2, <2>4, SerialFinish
  <1> QED BY <1>1, <1>2, <1>3

\* deleteEvent
LEMMA SerialDelete ==
    ASSUME SerialInv, NEW r \in Requests, OnlyOne(r), TypeInv', Archive(r) \/ Delete(r)
    PROVE  SerialInv' /\ Allocated
  <1>0. SeatsRight /\ Knows(req[r]) /\ {"ok", "refused"} \subseteq Final
    BY DEF SerialInv, Final
  <1>1. \E result \in Final : Finish(r, result)
    BY <1>0 DEF Archive, Delete
  <1>2. CASE UNCHANGED <<part, count>>
    BY <1>1, <1>2, SerialRefused
  <1>3. CASE Delete(r) /\ SetPart(Users, "NONE", 0) /\ count' = 0
    <2>1. InStatus({"NONE"}) = Users
      BY <1>0, <1>3 DEF Delete, Knows
    <2>2. \A u \in Users : part[u] = "NONE"
      BY <2>1 DEF InStatus
    <2>3. part' = part
      BY <1>0, <1>3, <2>2 DEF SetPart, SeatsRight
    <2>4. Occupying = {}
      BY <2>2 DEF Occupying, InStatus, Confirmed
    <2>5. count' = count
      BY <1>0, <1>3, <2>4, FS_EmptySet DEF SeatsRight
    <2> QED BY <1>1, <2>3, <2>5, SerialRefused
  <1> QED BY <1>2, <1>3 DEF Archive, Delete, rows

\* Every step of requests that follow each other keeps the counter and what the
\* request knows, and is a step of the abstract allocation or leaves it alone.
LEMMA SerialKept ==
    ASSUME Serial, "progress" \notin Ops, SerialInv, [Next]_vars
    PROVE  SerialInv' /\ Allocated
  <1>1. ASSUME NEW r \in Requests, Step(r) PROVE SerialInv' /\ Allocated
    <2>1. OnlyOne(r) /\ TypeInv' /\ req[r].pc \notin Progressing
      BY <1>1, StepsAlone
    <2>2. ~(ProgressFind(r) \/ ProgressCreate(r) \/ ProgressCount(r) \/ ProgressWrite(r))
      BY <2>1 DEF Progressing, ProgressFind, ProgressCreate, ProgressCount, ProgressWrite
    <2> QED BY <1>1, <2>1, <2>2, SerialParticipate, SerialCancel, SerialDelete DEF Step
  <1>2. ASSUME NEW r \in Requests, Call(r) PROVE SerialInv' /\ Allocated
    BY <1>2, SerialCall
  <1>3. CASE Tick \/ Cron \/ UNCHANGED vars
    <2>1. UNCHANGED <<part, count, req>>
      BY <1>3 DEF Tick, Cron, CronActivateFind, CronActivate, CronCompleteFind, CronComplete,
                  vars, rows
    <2>2. TypeInv' /\ SeatsRight' /\ Allocated /\ Waitlist' = Waitlist
      BY <2>1, SeatsStay, TypesKept DEF SerialInv
    <2>3. \A r \in Requests : Knows(req[r])' /\ req'[r].pc \notin Progressing
      BY <2>1, <2>2 DEF SerialInv, Knows, IsFull, InStatus
    <2>4. Alone'
      BY <2>1 DEF SerialInv, Alone, Runs
    <2> QED BY <2>2, <2>3, <2>4 DEF SerialInv
  <1> QED BY <1>1, <1>2, <1>3 DEF Next

LEMMA SerialStart == Init => SerialInv /\ AllocatesSeats!Init
  <1> SUFFICES ASSUME Init PROVE SerialInv /\ AllocatesSeats!Init
    OBVIOUS
  <1>1. Occupying = {} /\ Waitlist = {}
    BY DEF Init, Occupying, Waitlist, InStatus, Confirmed
  <1>2. SeatsRight
    BY <1>1, FS_EmptySet, EventBounds DEF Init, SeatsRight
  <1>3. \A r \in Requests : req[r].pc = "new"
    BY NewTyped DEF Init
  <1>4. Alone /\ \A r \in Requests : Knows(req[r]) /\ req[r].pc \notin Progressing
    BY <1>3 DEF Alone, Runs, Knows, Progressing, Final
  <1> QED BY <1>1, <1>2, <1>4, TypesStart DEF SerialInv, AllocatesSeats!Init

\* For every number of users and requests, every capacity and every waiting list,
\* requests that follow each other implement the abstract allocation of seats: a seat
\* given back is handed over in one step and nobody is seated past a waiting list.
THEOREM SeatsAreAllocated ==
    ASSUME Serial, "progress" \notin Ops PROVE Spec => ImplementsSeatAllocation
  <1>1. Init => SerialInv /\ AllocatesSeats!Init
    BY SerialStart
  <1>2. SerialInv /\ [Next]_vars => SerialInv' /\ [AllocatesSeats!Next]_<<Occupying, Waitlist>>
    BY SerialKept DEF Allocated
  <1> QED BY <1>1, <1>2, PTL DEF Spec, ImplementsSeatAllocation, AllocatesSeats!Spec

\* An event with participations is archived and never deleted, as long as requests
\* follow each other.
THEOREM HistoryKept ==
    ASSUME Serial, "progress" \notin Ops PROVE Spec => HistoryIsKept
  <1>1. Init => SerialInv
    BY SerialStart
  <1>2. SerialInv /\ [Next]_vars => SerialInv'
    BY SerialKept
  <1>3. SerialInv /\ [Next]_vars =>
           [status' = "DELETED" /\ status # "DELETED" => InStatus({"NONE"}) = Users]_vars
    <2> SUFFICES ASSUME SerialInv, Next, status' = "DELETED", status # "DELETED"
                 PROVE  InStatus({"NONE"}) = Users
      BY DEF vars
    <2>1. ~(Tick \/ Cron)
      BY DEF Tick, Cron, CronActivateFind, CronActivate, CronCompleteFind, CronComplete
    <2>2. ASSUME NEW r \in Requests, Call(r) PROVE FALSE
      BY <2>2, EventBounds DEF Call, ParticipateLoad, CancelLoad, AdminCancelLoad,
            ProgressLoad, UpdateStatus, DeleteLoad, EventStatus
    <2>3. ASSUME NEW r \in Requests, Step(r) PROVE Delete(r)
      BY <2>3 DEF Step, ParticipateExisting, Register, Reactivate, WaitCount, WaitWrite,
            AdminCancelFind, CancelTx, CancelCommit, ProgressFind, ProgressCreate,
            ProgressCount, ProgressWrite, Archive
    <2> QED BY <2>1, <2>2, <2>3 DEF Next, Delete, SerialInv, Knows
  <1> QED BY <1>1, <1>2, <1>3, PTL DEF Spec, HistoryIsKept

\* In turn, requests count what they seat, never seat more than the event takes, and
\* make somebody wait only while the event is full.
THEOREM SeatsAreCounted ==
    ASSUME Serial, "progress" \notin Ops
    PROVE  Spec => [](CounterMatches /\ Capacity /\ WaitingMeansFull)
  <1>1. Init => SerialInv
    BY SerialStart
  <1>2. SerialInv /\ [Next]_vars => SerialInv'
    BY SerialKept
  <1>3. SerialInv => CounterMatches /\ Capacity /\ WaitingMeansFull
    <2> SUFFICES ASSUME SerialInv PROVE CounterMatches /\ Capacity /\ WaitingMeansFull
      OBVIOUS
    <2>1. SeatsRight /\ count \in Nat
      BY CountsSeats DEF SerialInv
    <2> QED BY <2>1, EventBounds DEF SeatsRight, IsFull, CounterMatches, Capacity, WaitingMeansFull
  <1> QED BY <1>1, <1>2, <1>3, PTL DEF Spec

-----------------------------------------------------------------------------
(* Requests that interleave, where nobody cancels and nobody waits         *)

Uncounted == {req[r].user : r \in {q \in Requests : req[q].pc = "progressCount"}}
Counts ==
    /\ status # "DELETED"
    /\ part \in [Users -> {"NONE", "REGISTERED", "IN_PROGRESS", "COMPLETED"}]
    /\ count = Cardinality(Occupying \ Uncounted)
    /\ \A r \in Requests : req[r].pc \notin {"reactivate", "waitCount", "waitWrite", "adminFind",
                                             "cancelTx", "cancelCommit", "archive", "delete"}
    /\ \A r \in Requests : req[r].pc \in {"progressCount", "progressWrite"}
                               => part[req[r].user] # "NONE"
    /\ \A p, q \in Requests : req[p].pc = "progressCount" /\ req[q].pc = "progressCount"
                                /\ req[p].user = req[q].user => p = q
CountInv == TypeInv /\ Counts

\* A step of one request that neither starts nor ends a counted creation
LEMMA UncountedStays ==
    ASSUME TypeInv, NEW r \in Requests, \A q \in Requests \ {r} : req'[q] = req[q],
           req[r].pc # "progressCount", req'[r].pc # "progressCount"
    PROVE  Uncounted' = Uncounted
  BY DEF Uncounted

LEMMA CountsMove ==
    ASSUME CountInv, TypeInv', NEW r \in Requests, \A q \in Requests \ {r} : req'[q] = req[q],
           status' # "DELETED", UNCHANGED <<part, count>>,
           req[r].pc # "progressCount",
           req'[r].pc \in Final \cup {"existing", "register", "progressFind",
                                      "progressCreate", "progressWrite"},
           req'[r].pc = "progressWrite" => part[req'[r].user] # "NONE"
    PROVE  CountInv'
  <1>1. req'[r].pc \notin {"progressCount", "reactivate", "waitCount", "waitWrite", "adminFind",
                           "cancelTx", "cancelCommit", "archive", "delete"}
    BY DEF Final
  <1>2. Uncounted' = Uncounted
    BY <1>1, UncountedStays DEF CountInv
  <1>3. Occupying' = Occupying
    BY DEF Occupying, InStatus
  <1>4. count' = Cardinality(Occupying' \ Uncounted')
    BY <1>2, <1>3 DEF CountInv, Counts
  <1> QED BY <1>1, <1>4 DEF CountInv, Counts

LEMMA OthersStay ==
    ASSUME TypeInv, NEW r \in Requests,
           \/ \E result \in Final : Finish(r, result)
           \/ \E pc \in Steps, s \in PartStatus, n \in Nat, v \in Users \cup {NoUser},
                 b \in BOOLEAN : Goes(r, pc, s, n, v, b)
           \/ \E op \in OpNames, u \in Users \cup {NoUser}, pc \in Steps \cup Final,
                 s \in PartStatus : Begin(r, op, u, pc, s)
    PROVE  \A q \in Requests \ {r} : req'[q] = req[q]
  BY DEF TypeInv, TypeOK, Finish, Goes, Begin

\* A row is created, or keeps its seat.
LEMMA Occupies ==
    ASSUME CountInv, NEW u \in Users, NEW s \in {"REGISTERED", "IN_PROGRESS", "COMPLETED"},
           part' \in [Users -> PartStatus],
           \A v \in Users : part'[v] = IF v = u THEN s ELSE part[v]
    PROVE  /\ part' \in [Users -> {"NONE", "REGISTERED", "IN_PROGRESS", "COMPLETED"}]
           /\ Occupying' = Occupying \cup {u} /\ IsFiniteSet(Occupying)
           /\ u \in Occupying <=> part[u] # "NONE"
  <1>1. part' \in [Users -> {"NONE", "REGISTERED", "IN_PROGRESS", "COMPLETED"}]
    BY DEF CountInv, Counts
  <1>2. Occupying' = Occupying \cup {u}
    BY DEF CountInv, Counts, Occupying, InStatus, Confirmed
  <1>3. Occupying \in SUBSET Users
    BY DEF Occupying, InStatus
  <1>4. u \in Occupying <=> part[u] # "NONE"
    BY DEF CountInv, Counts, Occupying, InStatus, Confirmed
  <1> QED BY <1>1, <1>2, <1>3, <1>4, EventBounds, FS_Subset

LEMMA CountsSeat ==
    ASSUME CountInv, TypeInv', NEW r \in Requests, \A q \in Requests \ {r} : req'[q] = req[q],
           NEW u \in Users, NEW s \in {"REGISTERED", "IN_PROGRESS", "COMPLETED"},
           part' \in [Users -> PartStatus],
           \A v \in Users : part'[v] = IF v = u THEN s ELSE part[v],
           status' # "DELETED", count' = Cardinality(Occupying' \ Uncounted'),
           req'[r].pc \in Final \cup {"progressCount"},
           req'[r].pc = "progressCount" =>
              /\ req'[r].user = u
              /\ \A q \in Requests \ {r} : req[q].pc = "progressCount" => req[q].user # u
    PROVE  CountInv'
  <1>1. part' \in [Users -> {"NONE", "REGISTERED", "IN_PROGRESS", "COMPLETED"}]
    BY Occupies
  <1>2. ASSUME NEW q \in Requests, req'[q].pc \in {"progressCount", "progressWrite"}
        PROVE  part'[req'[q].user] # "NONE"
    <2>1. CASE q = r
      BY <1>2, <2>1 DEF Final
    <2>2. CASE q # r
      <3>1. req'[q] = req[q] /\ part[req[q].user] # "NONE"
        BY <1>2, <2>2 DEF CountInv, Counts
      <3>2. req[q].pc \in Steps \ {"new", "archive", "delete"}
        BY <1>2, <3>1 DEF Steps
      <3>3. req[q].user \in Users
        BY <3>2, HasUser DEF CountInv
      <3> QED BY <3>1, <3>3
    <2> QED BY <2>1, <2>2
  <1>3. \A p, q \in Requests : req'[p].pc = "progressCount" /\ req'[q].pc = "progressCount"
                                /\ req'[p].user = req'[q].user => p = q
    BY DEF CountInv, Counts
  <1>4. req'[r].pc \notin {"reactivate", "waitCount", "waitWrite", "adminFind",
                           "cancelTx", "cancelCommit", "archive", "delete"}
    BY DEF Final
  <1> QED BY <1>1, <1>2, <1>3, <1>4 DEF CountInv, Counts

LEMMA CountsParticipate ==
    ASSUME CountInv, TypeInv', ~EnableWaitlist, NEW r \in Requests,
           ParticipateExisting(r) \/ Register(r)
    PROVE  CountInv'
  <1> DEFINE u == req[r].user
  <1>0. /\ TypeInv /\ Counts /\ RowsTyped /\ req \in [Requests -> Request] /\ req[r] \in Request
        /\ {"ok", "refused"} \subseteq Final /\ 0 \in Nat /\ "REGISTERED" \in PartStatus
    BY TypeParts DEF CountInv, Final, PartStatus
  <1>u. u \in Users
    <2>1. req[r].pc \in Steps \ {"new", "archive", "delete"}
      BY DEF ParticipateExisting, Register, Steps
    <2> QED BY <1>0, <2>1, HasUser
  <1>p. part' \in [Users -> PartStatus]
    BY DEF TypeInv, TypeOK
  <1>f. ASSUME NEW result \in Final, Finish(r, result)
        PROVE  req'[r].pc = result /\ \A q \in Requests \ {r} : req'[q] = req[q]
    BY <1>0, <1>f, NewTyped DEF Finish, Request
  <1>1. CASE ParticipateExisting(r)
    <2> DEFINE s == part[u]
               pc == AfterExisting(r, s)
    <2>1. /\ UNCHANGED <<part, count>> /\ status' # "DELETED" /\ req[r].pc = "existing"
          /\ s # "CANCELLED"
      BY <1>0, <1>1, <1>u DEF ParticipateExisting, rows, Counts
    <2>2. pc \in {"ok", "register", "refused"}
      BY <2>1 DEF AfterExisting
    <2>3. /\ \A q \in Requests \ {r} : req'[q] = req[q]
          /\ req'[r].pc = pc
      <3>1. CASE pc \in Final
        <4>1. Finish(r, pc)
          BY <1>1, <3>1 DEF ParticipateExisting
        <4> HIDE DEF pc
        <4> QED BY <1>f, <3>1, <4>1
      <3>2. CASE pc \notin Final
        <4>1. req' = [req EXCEPT ![r].pc = pc, ![r].seen = s]
          BY <1>1, <3>2 DEF ParticipateExisting
        <4> HIDE DEF pc, s
        <4> QED BY <1>0, <4>1 DEF Request
      <3> QED BY <3>1, <3>2
    <2> HIDE DEF pc
    <2> QED BY <1>0, <2>1, <2>2, <2>3, CountsMove
  <1>2. CASE Register(r)
    <2>1. req[r].pc = "register" /\ status' = status
      BY <1>2 DEF Register
    <2>2. CASE UNCHANGED rows /\ Finish(r, "refused")
      BY <1>0, <1>f, <2>1, <2>2, CountsMove DEF Counts, rows
    <2>3. CASE /\ CreatePart(u, "REGISTERED", 0) /\ count' = count + 1 /\ Finish(r, "ok")
               /\ part[u] = "NONE"
      <3>1. req'[r].pc = "ok" /\ \A q \in Requests \ {r} : req'[q] = req[q]
        BY <1>0, <1>f, <2>3
      <3>2. Uncounted' = Uncounted
        BY <1>0, <2>1, <3>1, UncountedStays
      <3> HIDE DEF u
      <3>3. \A v \in Users : part'[v] = IF v = u THEN "REGISTERED" ELSE part[v]
        BY <1>0, <1>u, <2>3, CreatePartTyped DEF RowsTyped
      <3>4. /\ part' \in [Users -> {"NONE", "REGISTERED", "IN_PROGRESS", "COMPLETED"}]
            /\ Occupying' = Occupying \cup {u} /\ IsFiniteSet(Occupying) /\ u \notin Occupying
        BY <1>p, <1>u, <2>3, <3>3, Occupies
      <3>5. u \notin Uncounted
        BY <1>0, <2>3 DEF Uncounted, Counts
      <3>6. Occupying' \ Uncounted' = (Occupying \ Uncounted) \cup {u}
        BY <3>2, <3>4, <3>5
      <3>7. count' = Cardinality(Occupying' \ Uncounted')
        BY <1>0, <2>3, <3>4, <3>6, FS_Subset, FS_AddElement, ZenonT(60) DEF Counts
      <3> QED BY <1>0, <1>p, <1>u, <2>1, <3>1, <3>3, <3>7, CountsSeat, SMTT(30) DEF Counts
    <2> QED BY <1>2, <2>2, <2>3 DEF Register
  <1> QED BY <1>1, <1>2

LEMMA CountsProgress ==
    ASSUME CountInv, TypeInv', NEW r \in Requests,
           ProgressFind(r) \/ ProgressCreate(r) \/ ProgressCount(r) \/ ProgressWrite(r)
    PROVE  CountInv'
  <1> DEFINE u == req[r].user
  <1>0. /\ TypeInv /\ Counts /\ RowsTyped /\ req \in [Requests -> Request] /\ req[r] \in Request
        /\ {"ok", "refused"} \subseteq Final /\ 0 \in Nat /\ Exists
        /\ {"IN_PROGRESS", "COMPLETED"} \subseteq PartStatus
        /\ {"progressCreate", "progressCount", "progressWrite"} \cap Final = {}
    BY TypeParts DEF CountInv, Counts, Final, PartStatus, Exists
  <1>u. u \in Users
    <2>1. req[r].pc \in Steps \ {"new", "archive", "delete"}
      BY DEF ProgressFind, ProgressCreate, ProgressCount, ProgressWrite, Steps
    <2> QED BY <1>0, <2>1, HasUser
  <1>p. part' \in [Users -> PartStatus]
    BY DEF TypeInv, TypeOK
  <1>f. ASSUME NEW result \in Final, Finish(r, result)
        PROVE  req'[r].pc = result /\ \A q \in Requests \ {r} : req'[q] = req[q]
    BY <1>0, <1>f, NewTyped DEF Finish, Request
  <1>g. ASSUME NEW pc \in {"progressCreate", "progressCount", "progressWrite"}, Goto(r, pc)
        PROVE  /\ req'[r].pc = pc /\ req'[r].user = u
               /\ \A q \in Requests \ {r} : req'[q] = req[q]
    BY <1>0, <1>g DEF Goto, Request
  <1>1. CASE ProgressFind(r)
    <2>1. /\ req[r].pc = "progressFind" /\ UNCHANGED <<part, count, status>>
          /\ status' # "DELETED"
      BY <1>0, <1>1 DEF ProgressFind, rows, Counts
    <2>2. CASE Finish(r, "refused")
      BY <1>0, <1>f, <2>1, <2>2, CountsMove
    <2>3. CASE Goto(r, "progressCreate")
      BY <1>0, <1>g, <2>1, <2>3, CountsMove
    <2>4. CASE /\ req' = [req EXCEPT ![r].pc = "progressWrite", ![r].finished = u \in done]
               /\ part[u] # "NONE"
      <3>1. /\ req'[r].pc = "progressWrite" /\ req'[r].user = u
            /\ \A q \in Requests \ {r} : req'[q] = req[q]
        BY <1>0, <2>4 DEF Request
      <3> QED BY <2>1, <2>4, <3>1, CountsMove
    <2> QED BY <1>1, <2>2, <2>3, <2>4 DEF ProgressFind
  <1>2. CASE ProgressCreate(r)
    <2>1. req[r].pc = "progressCreate" /\ UNCHANGED status /\ status' # "DELETED"
      BY <1>0, <1>2 DEF ProgressCreate, Counts
    <2>2. CASE UNCHANGED rows /\ Finish(r, "refused")
      BY <1>0, <1>f, <2>1, <2>2, CountsMove DEF rows
    <2>3. CASE /\ CreatePart(u, "IN_PROGRESS", 0) /\ UNCHANGED count /\ Goto(r, "progressCount")
               /\ part[u] = "NONE"
      <3>1. /\ req'[r].pc = "progressCount" /\ req'[r].user = u
            /\ \A q \in Requests \ {r} : req'[q] = req[q]
        BY <1>0, <1>g, <2>3
      <3>2. Uncounted' = Uncounted \cup {u}
        BY <2>1, <3>1 DEF Uncounted
      <3>3. \A q \in Requests \ {r} : req[q].pc = "progressCount" => req[q].user # u
        BY <1>0, <2>3 DEF Counts
      <3> HIDE DEF u
      <3>4. \A v \in Users : part'[v] = IF v = u THEN "IN_PROGRESS" ELSE part[v]
        BY <1>0, <1>u, <2>3, CreatePartTyped DEF RowsTyped
      <3>5. Occupying' = Occupying \cup {u} /\ u \notin Occupying
        BY <1>p, <1>u, <2>3, <3>4, Occupies
      <3>6. Occupying' \ Uncounted' = Occupying \ Uncounted
        BY <3>2, <3>5
      <3>7. count' = Cardinality(Occupying' \ Uncounted')
        BY <1>0, <2>3, <3>6 DEF Counts
      <3> QED BY <1>p, <1>u, <2>1, <3>1, <3>3, <3>4, <3>7, CountsSeat
    <2> QED BY <1>2, <2>2, <2>3 DEF ProgressCreate
  <1>3. CASE ProgressCount(r)
    <2>1. /\ req[r].pc = "progressCount" /\ UNCHANGED <<status, part>> /\ count' = count + 1
          /\ Goto(r, "progressWrite") /\ status' # "DELETED"
      BY <1>0, <1>3 DEF ProgressCount, Counts
    <2>2. /\ req'[r].pc = "progressWrite" /\ req'[r].user = u
          /\ \A q \in Requests \ {r} : req'[q] = req[q]
      BY <1>g, <2>1
    <2>3. part[u] # "NONE" /\ u \in Uncounted
      BY <1>0, <2>1 DEF Counts, Uncounted
    <2>4. Uncounted' = Uncounted \ {u}
      BY <1>0, <2>1, <2>2 DEF Counts, Uncounted
    <2>5. Occupying' = Occupying /\ u \in Occupying
      BY <1>0, <1>u, <2>1, <2>3 DEF Occupying, InStatus, Counts, Confirmed
    <2>6. IsFiniteSet(Occupying)
      <3>1. Occupying \in SUBSET Users
        BY DEF Occupying, InStatus
      <3> QED BY <3>1, EventBounds, FS_Subset
    <2>7. Occupying' \ Uncounted' = (Occupying \ Uncounted) \cup {u}
      BY <2>3, <2>4, <2>5
    <2>8. count' = Cardinality(Occupying' \ Uncounted')
      <3> HIDE DEF u
      <3>1. IsFiniteSet(Occupying \ Uncounted)
        BY <2>6, FS_Subset
      <3>2. Cardinality((Occupying \ Uncounted) \cup {u}) = Cardinality(Occupying \ Uncounted) + 1
        BY <2>3, <3>1, FS_AddElement
      <3> QED BY <1>0, <2>1, <2>7, <3>2 DEF Counts
    <2> QED BY <1>0, <2>1, <2>2, <2>3, <2>8 DEF CountInv, Counts
  <1>4. CASE ProgressWrite(r)
    <2>1. /\ req[r].pc = "progressWrite" /\ UNCHANGED status /\ part[u] # "NONE"
          /\ status' # "DELETED"
      BY <1>0, <1>4 DEF ProgressWrite, Counts
    <2>2. PICK s \in {"COMPLETED", "IN_PROGRESS"} :
             /\ SetPart({u}, s, position[u]) /\ Finish(r, "ok") /\ UNCHANGED count
      BY <1>0, <1>4 DEF ProgressWrite
    <2>3. req'[r].pc = "ok" /\ \A q \in Requests \ {r} : req'[q] = req[q]
      BY <1>0, <1>f, <2>2
    <2>4. Uncounted' = Uncounted
      BY <1>0, <2>1, <2>3, UncountedStays
    <2> HIDE DEF u
    <2>5. \A v \in Users : part'[v] = IF v = u THEN s ELSE part[v]
      BY <2>2 DEF SetPart
    <2>6. Occupying' = Occupying
      BY <1>p, <1>u, <2>1, <2>5, Occupies
    <2>7. count' = Cardinality(Occupying' \ Uncounted')
      BY <1>0, <2>2, <2>4, <2>6 DEF Counts
    <2> QED BY <1>0, <1>p, <1>u, <2>1, <2>3, <2>5, <2>7, CountsSeat, SMTT(30)
  <1> QED BY <1>1, <1>2, <1>3, <1>4

LEMMA CountsCall ==
    ASSUME CountInv, TypeInv', {"cancel", "adminCancel", "delete"} \cap Ops = {},
           NEW r \in Requests, Call(r)
    PROVE  CountInv'
  <1>0. /\ TypeInv /\ Counts /\ "NONE" \in PartStatus /\ {"ok", "refused"} \subseteq Final
        /\ {"participate", "progress", "status"} \subseteq OpNames
        /\ {"existing", "progressFind"} \subseteq Steps \ Final
    BY DEF CountInv, PartStatus, Final, OpNames, Steps
  <1>1. ASSUME NEW op \in OpNames, NEW u \in Users \cup {NoUser}, NEW s \in PartStatus,
               NEW pc \in Final \cup {"existing", "progressFind"}, Begin(r, op, u, pc, s),
               UNCHANGED <<part, count>>, status' # "DELETED"
        PROVE  CountInv'
    <2>1. pc \in Steps \cup Final /\ req[r].pc = "new"
      BY <1>1 DEF Steps, Begin
    <2>2. PICK x \in Request : req' = [req EXCEPT ![r] = x] /\ x.pc = pc
      BY <1>0, <1>1, <2>1, Begins DEF TypeInv
    <2>3. req'[r].pc = pc /\ \A q \in Requests \ {r} : req'[q] = req[q]
      BY <1>0, <2>2, RequestMoves DEF TypeInv
    <2>4. pc # "progressWrite"
      BY DEF Final
    <2> QED BY <1>0, <1>1, <2>1, <2>3, <2>4, CountsMove
  <1>2. ASSUME NEW u \in Users, ParticipateLoad(r, u) PROVE CountInv'
    <2> DEFINE pc == IF status \in {"PUBLISHED", "ACTIVE"} /\ clock <= Deadline
                     THEN "existing" ELSE "refused"
    <2>1. /\ Begin(r, "participate", u, pc, "NONE") /\ UNCHANGED <<part, count>>
          /\ status' # "DELETED"
      BY <1>0, <1>2 DEF ParticipateLoad, rows, Counts
    <2>2. pc \in Final \cup {"existing"}
      BY <1>0
    <2> HIDE DEF pc
    <2> QED BY <1>0, <1>1, <2>1, <2>2
  <1>3. ASSUME NEW u \in Users, ProgressLoad(r, u) PROVE CountInv'
    <2> DEFINE pc == IF status = "ACTIVE" /\ clock < 2 THEN "progressFind" ELSE "refused"
    <2>1. /\ Begin(r, "progress", u, pc, "NONE") /\ UNCHANGED <<part, count>>
          /\ status' # "DELETED"
      BY <1>0, <1>3 DEF ProgressLoad, rows, Counts
    <2>2. pc \in Final \cup {"progressFind"}
      BY <1>0
    <2> HIDE DEF pc
    <2> QED BY <1>0, <1>1, <2>1, <2>2
  <1>4. ASSUME UpdateStatus(r) PROVE CountInv'
    <2>1. /\ Begin(r, "status", NoUser, "ok", "NONE") /\ UNCHANGED <<part, count>>
          /\ status' \in EventStatus
      BY <1>0, <1>4, EventBounds DEF UpdateStatus, rows, Counts, Exists
    <2> QED BY <1>0, <1>1, <2>1 DEF EventStatus
  <1>5. ~DeleteLoad(r) /\ \A u \in Users : ~CancelLoad(r, u) /\ ~AdminCancelLoad(r, u)
    BY DEF DeleteLoad, CancelLoad, AdminCancelLoad, Begin
  <1> QED BY <1>2, <1>3, <1>4, <1>5 DEF Call

\* However the requests, the administrator and the cron interleave, the counter of an
\* event without a waiting list that nobody cancels is the number of its confirmed
\* participations: each creation is followed by one increment.
THEOREM ParticipantsAreCounted ==
    ASSUME ~EnableWaitlist, {"cancel", "adminCancel", "delete"} \cap Ops = {}
    PROVE  Spec => []CounterMatches
  <1>1. Init => CountInv
    <2> SUFFICES ASSUME Init PROVE CountInv
      OBVIOUS
    <2>1. Occupying = {} /\ \A r \in Requests : req[r].pc = "new"
      BY NewTyped DEF Init, Occupying, InStatus, Confirmed
    <2>2. Occupying \ Uncounted = {}
      BY <2>1
    <2> QED BY <2>1, <2>2, FS_EmptySet, EventBounds, TypesStart
            DEF CountInv, Counts, Init, EventStatus
  <1>2. CountInv /\ [Next]_vars => CountInv'
    <2> SUFFICES ASSUME CountInv, [Next]_vars PROVE CountInv'
      OBVIOUS
    <2>0. TypeInv'
      BY TypesKept DEF CountInv
    <2>1. ASSUME NEW r \in Requests, Step(r) PROVE CountInv'
      <3>1. req[r].pc \notin {"reactivate", "waitCount", "waitWrite", "adminFind",
                              "cancelTx", "cancelCommit", "archive", "delete"}
        BY DEF CountInv, Counts
      <3>2. \/ ParticipateExisting(r) \/ Register(r)
            \/ ProgressFind(r) \/ ProgressCreate(r) \/ ProgressCount(r) \/ ProgressWrite(r)
        BY <2>1, <3>1 DEF Step, Reactivate, WaitCount, WaitWrite, AdminCancelFind, CancelTx,
                          CancelCommit, Archive, Delete
      <3> QED BY <2>0, <3>2, CountsParticipate, CountsProgress
    <2>2. ASSUME NEW r \in Requests, Call(r) PROVE CountInv'
      BY <2>0, <2>2, CountsCall
    <2>3. CASE Tick \/ Cron \/ UNCHANGED vars
      <3>1. UNCHANGED <<part, count, req>> /\ status' # "DELETED"
        BY <2>3 DEF Tick, Cron, CronActivateFind, CronActivate, CronCompleteFind, CronComplete,
                    vars, rows, CountInv, Counts
      <3> QED BY <2>0, <3>1 DEF CountInv, Counts, Occupying, InStatus, Uncounted
    <2> QED BY <2>1, <2>2, <2>3 DEF Next
  <1>3. CountInv => CounterMatches
    <2> SUFFICES ASSUME CountInv, Resting PROVE count = Cardinality(Occupying)
      BY DEF CounterMatches
    <2>1. Uncounted = {}
      BY DEF Resting, Uncounted, Final
    <2>2. Occupying \ Uncounted = Occupying
      BY <2>1
    <2> QED BY <2>2 DEF CountInv, Counts
  <1> QED BY <1>1, <1>2, <1>3, PTL DEF Spec
=============================================================================
