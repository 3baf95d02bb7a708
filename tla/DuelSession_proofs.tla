-------------------------- MODULE DuelSession_proofs --------------------------
(***************************************************************************)
(* Proofs about DuelSession for every set of users and requests.           *)
(***************************************************************************)
EXTENDS DuelSession, FiniteSetTheorems, WellFoundedInduction, TLAPS

\* The steps at which a start may be.
StartSteps == {"expire", "lock", "check", "run", "reset"} \cup Final

\* What the steps of a request imply of its other fields.
RequestOK(q) ==
    /\ q.pc \notin Final \cup {"new"} /\ q.op \notin {"timeout", "advance"}
         => q.user \in Users
    /\ q.pc = "promoteSession" => q.target \in Users
    /\ q.pc = "advance" => q.snap.session.index + 1 < TotalQuestions
    /\ q.op = "start" => q.pc \in StartSteps

GoodRequest == {q \in Request : RequestOK(q)}
RequestsOK == req \in [Requests -> GoodRequest]

DataOK ==
    /\ session \in Session
    /\ expired \in BOOLEAN /\ spectator \in BOOLEAN
    /\ players \in SUBSET Users
    /\ hostFlag \in SUBSET players /\ answered \in SUBSET players
    /\ answersCount \in [Users -> Nat]
    /\ answers \in [Users -> [Index -> Nat]]
    /\ answerLocks \in SUBSET (Users \X Index)
    /\ concluded \in SUBSET Index
    /\ xp \in [Users -> Nat]
    /\ sweep \in {"idle", "found"}

TypeInv == DataOK /\ RequestsOK

\* The initial request and session row have their types.
LEMMA NewTypes == NewRequest \in Request /\ NewSession \in Session
  <1>1. NewSession \in Session
    BY DuelUsers, DuelBounds DEF NewSession, Session, Index, CustomDeck, MaybeUser, Status, Lobby
  <1>2. NoSnap \in Snapshot
    BY <1>1 DEF NoSnap, Snapshot
  <1> QED BY <1>1, <1>2 DEF NewRequest, Request, Steps, Final, OpNames, MaybeUser

\* Replacing one request by a good one keeps all requests good.
LEMMA UpdateOK ==
    ASSUME RequestsOK, NEW r \in Requests, NEW q \in GoodRequest, req' = [req EXCEPT ![r] = q]
    PROVE  RequestsOK' /\ req'[r] = q /\ \A s \in Requests \ {r} : req'[s] = req[s]
  BY DEF RequestsOK

\* The types of a request's fields.
LEMMA FieldsOK ==
    ASSUME RequestsOK, NEW r \in Requests
    PROVE  /\ req[r] \in Request /\ RequestOK(req[r])
           /\ req[r].op \in OpNames /\ req[r].user \in MaybeUser /\ req[r].target \in MaybeUser
           /\ req[r].pc \in Steps \cup Final
           /\ req[r].snap \in Snapshot /\ req[r].spect \in BOOLEAN /\ req[r].wasHost \in BOOLEAN
           /\ req[r].unpaid \in SUBSET Users
  BY DEF RequestsOK, GoodRequest, Request

\* The types of what a request has read.
LEMMA SnapOK ==
    ASSUME RequestsOK, NEW r \in Requests
    PROVE  /\ req[r].snap.session \in Session
           /\ req[r].snap.session.index \in Index
           /\ req[r].snap.session.host \in Users
           /\ req[r].snap.players \in SUBSET Users /\ req[r].snap.hostFlag \in SUBSET Users
           /\ req[r].snap.answered \in SUBSET Users
  BY FieldsOK DEF Snapshot, Session

\* Moving a request to another step keeps it good.
LEMMA GotoOK ==
    ASSUME RequestsOK, NEW r \in Requests, NEW pc, Goto(r, pc),
           pc \in Steps \ {"new", "promoteSession", "advance"},
           req[r].pc \in Steps \ {"new"}, req[r].op = "start" => pc \in StartSteps
    PROVE  RequestsOK' /\ req'[r] = [req[r] EXCEPT !.pc = pc] /\ \A s \in Requests \ {r} : req'[s] = req[s]
  <1> DEFINE q == [req[r] EXCEPT !.pc = pc]
  <1>1. q \in Request
    BY FieldsOK DEF Request
  <1>2. RequestOK(q)
    BY FieldsOK DEF RequestOK, Request, Final, StartSteps, Steps
  <1>3. req' = [req EXCEPT ![r] = q]
    BY DEF Goto, RequestsOK
  <1> HIDE DEF q
  <1>4. q \in GoodRequest
    BY <1>1, <1>2 DEF GoodRequest
  <1>5. RequestsOK' /\ req'[r] = q /\ \A s \in Requests \ {r} : req'[s] = req[s]
    BY <1>3, <1>4, UpdateOK
  <1> QED BY <1>5 DEF q

\* A request that returns is good, and keeps only its operation.
LEMMA FinishOK ==
    ASSUME RequestsOK, NEW r \in Requests, NEW pc \in Final, Finish(r, pc)
    PROVE  /\ RequestsOK' /\ req'[r] = Returned(req[r].op, pc)
           /\ \A s \in Requests \ {r} : req'[s] = req[s]
  <1> DEFINE q == Returned(req[r].op, pc)
  <1>1. q \in Request
    BY FieldsOK, NewTypes DEF Request, Returned
  <1>2. RequestOK(q)
    BY FieldsOK, NewTypes DEF RequestOK, Request, Final, StartSteps, Returned
  <1>3. req' = [req EXCEPT ![r] = q]
    BY DEF Finish
  <1> HIDE DEF q
  <1>4. q \in GoodRequest
    BY <1>1, <1>2 DEF GoodRequest
  <1>5. RequestsOK' /\ req'[r] = q /\ \A s \in Requests \ {r} : req'[s] = req[s]
    BY <1>3, <1>4, UpdateOK
  <1> QED BY <1>5 DEF q

\* A request that begins is good: it holds a snapshot of well-typed rows.
LEMMA BeginOK ==
    ASSUME TypeInv, NEW r \in Requests, NEW op \in OpNames, NEW u \in MaybeUser,
           NEW v \in MaybeUser, NEW pc, Begin(r, op, u, v, pc),
           op \in {"timeout", "advance"} \/ u \in Users,
           pc \in (Steps \cup Final) \ {"new", "promoteSession"},
           pc = "advance" => session.index + 1 < TotalQuestions,
           op = "start" => pc \in StartSteps
    PROVE  /\ RequestsOK' /\ req'[r].op = op /\ req'[r].pc = pc
           /\ pc \notin Final => req'[r].user = u
           /\ \A s \in Requests \ {r} : req'[s] = req[s]
  <1> DEFINE q == IF pc \in Final THEN Returned(op, pc)
                  ELSE [NewRequest EXCEPT !.op = op, !.user = u, !.target = v,
                                          !.pc = pc, !.snap = Read]
  <1>0. Read \in Snapshot /\ Read.session = session
    BY DEF Read, Snapshot, TypeInv, DataOK
  <1>1. q \in Request /\ q.op = op /\ q.pc = pc /\ (pc \notin Final => q.user = u /\ q.snap = Read)
    BY <1>0, NewTypes DEF Request, Returned
  <1>2. RequestOK(q)
    BY <1>0, <1>1 DEF RequestOK, Request, Final, StartSteps
  <1>3. req' = [req EXCEPT ![r] = q]
    BY DEF Begin
  <1> HIDE DEF q
  <1>4. q \in GoodRequest
    BY <1>1, <1>2 DEF GoodRequest
  <1>5. RequestsOK' /\ req'[r] = q /\ \A s \in Requests \ {r} : req'[s] = req[s]
    BY <1>3, <1>4, UpdateOK DEF TypeInv
  <1> QED BY <1>5, <1>1
-----------------------------------------------------------------------------
(* The start lock: a start holds it from the update that wrote STARTING on.  *)

Held == {"check", "run", "reset", "ok", "failed"}
HoldsLock(q) == q.op = "start" /\ q.pc \in Held

Others(r) == \A s \in Requests \ {r} : req'[s] = req[s]

\* A step of request r that touches nothing the invariants below protect:
\* it takes no lock, reopens no lobby, seats nobody and promotes nobody.
Calm(r) ==
    /\ TypeInv'
    /\ Others(r)
    /\ HoldsLock(req'[r]) => HoldsLock(req[r])
    /\ session'.status \in Lobby => session.status \in Lobby
    /\ session'.host = session.host
    /\ players' \subseteq players
    /\ req'[r].pc \notin {"commit", "promoteSession"}
    /\ sweep' = sweep

\* A calm step that raises no hasAnsweredCurrent flag either.
Quiet(r) == Calm(r) /\ answered' \subseteq answered /\ answers' = answers

Rest == <<session, expired, spectator, rowVars, gameLog, sweep>>

\* The rows and keys keep their types while only requests change.
LEMMA RestOK == ASSUME DataOK, UNCHANGED Rest PROVE DataOK'
  BY DEF DataOK, Rest, rowVars, gameLog

\* Beginning a handler without writing is quiet.
LEMMA LoadQuiet ==
    ASSUME TypeInv, NEW r \in Requests, NEW op \in OpNames, NEW u \in MaybeUser,
           NEW v \in MaybeUser, NEW pc, Begin(r, op, u, v, pc),
           op \in {"timeout", "advance"} \/ u \in Users,
           pc \in (Steps \cup Final) \ {"new", "commit", "promoteSession"},
           pc = "advance" => session.index + 1 < TotalQuestions,
           op = "start" => pc \in StartSteps \ Held,
           UNCHANGED Rest
    PROVE  Quiet(r)
  <1>1. /\ RequestsOK' /\ Others(r)
        /\ req'[r].op = op /\ req'[r].pc = pc
    BY BeginOK DEF Others
  <1>2. DataOK'
    BY RestOK DEF TypeInv
  <1> QED BY <1>1, <1>2 DEF Quiet, Calm, TypeInv, HoldsLock, Rest, rowVars, gameLog

\* Going on takes no lock, unless the lock was already held.
LEMMA GotoQuiet ==
    ASSUME TypeInv, NEW r \in Requests, NEW pc, Goto(r, pc),
           pc \in Steps \ {"new", "commit", "promoteSession", "advance"},
           req[r].pc \in Steps \ {"new"},
           req[r].op = "start" => pc \in StartSteps,
           req[r].op = "start" /\ pc \in Held => req[r].pc \in Held
    PROVE  /\ RequestsOK' /\ Others(r)
           /\ HoldsLock(req'[r]) => HoldsLock(req[r])
           /\ req'[r].pc = pc
  <1>1. RequestsOK' /\ req'[r] = [req[r] EXCEPT !.pc = pc] /\ Others(r)
    BY GotoOK DEF TypeInv, Others
  <1>2. req'[r].pc = pc /\ req'[r].op = req[r].op
    BY <1>1, FieldsOK DEF TypeInv, Request
  <1> QED BY <1>1, <1>2 DEF HoldsLock

\* Returning takes no lock, unless the lock was already held.
LEMMA FinishQuiet ==
    ASSUME TypeInv, NEW r \in Requests, NEW pc \in Final, Finish(r, pc),
           req[r].op = "start" /\ pc \notin {"refused", "told"} => req[r].pc \in Held
    PROVE  /\ RequestsOK' /\ Others(r)
           /\ HoldsLock(req'[r]) => HoldsLock(req[r])
           /\ req'[r].pc \in Final
  <1>1. RequestsOK' /\ req'[r] = Returned(req[r].op, pc) /\ Others(r)
    BY FinishOK DEF TypeInv, Others
  <1>2. req'[r].pc = pc /\ req'[r].op = req[r].op
    BY <1>1, NewTypes, FieldsOK DEF TypeInv, Request, Returned
  <1> QED BY <1>1, <1>2 DEF HoldsLock, Held, Final

\* The same of a step that either goes on or returns.
LEMMA MoveQuiet ==
    ASSUME TypeInv, NEW r \in Requests, NEW pc, GotoOrFinish(r, pc),
           pc \in (Steps \cup Final) \ {"new", "commit", "promoteSession", "advance"},
           req[r].pc \in Steps \ {"new"},
           req[r].op = "start" => pc \in StartSteps,
           req[r].op = "start" /\ pc \in Held => req[r].pc \in Held
    PROVE  /\ RequestsOK' /\ Others(r)
           /\ HoldsLock(req'[r]) => HoldsLock(req[r])
           /\ req'[r].pc \notin {"commit", "promoteSession"}
  <1>1. CASE pc \in Final
    BY <1>1, FinishQuiet DEF GotoOrFinish, Held, Final
  <1>2. CASE pc \notin Final
    BY <1>2, GotoQuiet DEF GotoOrFinish
  <1> QED BY <1>1, <1>2

\* A step that only reads is quiet.
LEMMA ReadQuiet ==
    ASSUME TypeInv, NEW r \in Requests, NEW pc, GotoOrFinish(r, pc), UNCHANGED Rest,
           pc \in (Steps \cup Final) \ {"new", "commit", "promoteSession", "advance"},
           req[r].pc \in Steps \ {"new"},
           req[r].op = "start" => pc \in StartSteps,
           req[r].op = "start" /\ pc \in Held => req[r].pc \in Held
    PROVE  Quiet(r)
  <1>1. /\ RequestsOK' /\ Others(r)
        /\ HoldsLock(req'[r]) => HoldsLock(req[r])
        /\ req'[r].pc \notin {"commit", "promoteSession"}
    BY MoveQuiet
  <1>2. DataOK'
    BY RestOK DEF TypeInv
  <1> QED BY <1>1, <1>2 DEF Quiet, Calm, TypeInv, Rest, rowVars, gameLog

\* What a silent caller leaves of a request that has found the round complete
ToldOf(q) == [Returned(q.op, "told") EXCEPT !.snap.session.index = session.index]
LEMMA ToldOK ==
    ASSUME TypeInv, NEW r \in Requests
    PROVE  /\ ToldOf(req[r]) \in GoodRequest /\ ToldOf(req[r]).op = req[r].op
           /\ ToldOf(req[r]).pc = "told" /\ ToldOf(req[r]).snap.session.index = session.index
  <1> DEFINE row == [NewSession EXCEPT !.index = session.index]
             told == [NoSnap EXCEPT !.session = row]
  <1>1. row \in Session /\ row.index = session.index
    BY NewTypes DEF TypeInv, DataOK, Session
  <1>2. NoSnap \in Snapshot /\ NoSnap.session = NewSession
    BY NewTypes DEF NoSnap, Snapshot
  <1>3. told \in Snapshot /\ told.session = row
    BY <1>1, <1>2 DEF Snapshot
  <1>4. NewRequest.snap = NoSnap
    BY DEF NewRequest
  <1>5. ToldOf(req[r]) = [NewRequest EXCEPT !.op = req[r].op, !.pc = "told", !.snap = told]
    BY <1>2, <1>4, NewTypes DEF ToldOf, Returned, Request
  <1> HIDE DEF row, told
  <1>6. req[r].op \in OpNames /\ NewRequest \in Request /\ "told" \in Steps \cup Final
    BY NewTypes, FieldsOK DEF TypeInv, Final
  <1>7. /\ ToldOf(req[r]) \in Request /\ ToldOf(req[r]).op = req[r].op
        /\ ToldOf(req[r]).pc = "told" /\ ToldOf(req[r]).snap = told
    BY <1>3, <1>5, <1>6 DEF Request
  <1> QED BY <1>1, <1>3, <1>7 DEF GoodRequest, RequestOK, Final, StartSteps

\* To announce that everybody has answered is quiet.
LEMMA AnnounceQuiet ==
    ASSUME TypeInv, NEW r \in Requests, Announce(r), UNCHANGED Rest,
           req[r].pc \in Steps \ {"new"}, req[r].op # "start"
    PROVE  Quiet(r)
  <1>1. CASE Goto(r, "conclude")
    BY <1>1, GotoQuiet, RestOK
       DEF Quiet, Calm, TypeInv, HoldsLock, Rest, rowVars, gameLog, Steps
  <1>2. CASE req' = [req EXCEPT ![r] = ToldOf(req[r])]
    <2>1. RequestsOK' /\ Others(r) /\ req'[r] = ToldOf(req[r])
      BY <1>2, ToldOK, UpdateOK DEF TypeInv, Others
    <2>2. req'[r].op = req[r].op /\ req'[r].pc = "told"
      BY <2>1, ToldOK
    <2> QED BY <2>1, <2>2, RestOK DEF Quiet, Calm, TypeInv, HoldsLock, Rest, rowVars, gameLog
  <1> QED BY <1>1, <1>2 DEF Announce, ToldOf

\* The only answer or departure that does not go on returns.
LEMMA ReturnQuiet ==
    ASSUME TypeInv, NEW r \in Requests, NEW pc \in Final, Finish(r, pc), UNCHANGED Rest,
           req[r].op # "start"
    PROVE  Quiet(r)
  BY FinishQuiet, RestOK DEF Quiet, Calm, TypeInv, Rest, rowVars, gameLog, Final

\* Writing the status changes nothing else of the session row.
LEMMA SetStatusOK ==
    ASSUME DataOK, NEW s \in Status, SetStatus(s)
    PROVE  session' \in Session /\ session'.status = s /\ session'.host = session.host
  BY DEF DataOK, SetStatus, Session

\* Deleting a player's row keeps the types and only removes rows and flags.
LEMMA DeleteRowOK ==
    ASSUME DataOK, NEW u, DeleteRow(u)
    PROVE  /\ players' \subseteq players /\ answered' \subseteq answered
           /\ players' \in SUBSET Users
           /\ hostFlag' \in SUBSET players' /\ answered' \in SUBSET players'
           /\ answersCount' \in [Users -> Nat]
  BY DEF DataOK, DeleteRow

\* StateLoad is quiet.
LEMMA StateLoadQuiet ==
    ASSUME TypeInv, NEW r \in Requests, NEW u \in Users, StateLoad(r, u)
    PROVE  Quiet(r)
  <1> DEFINE pc == IF Lapsed /\ session.status \in Lobby THEN "expire" ELSE "ok"
  <1>1. Begin(r, "state", u, NoUser, pc) /\ UNCHANGED Rest
    BY DEF StateLoad, Rest
  <1>2. pc \in {"expire", "ok"} /\ (pc = "advance" => session.index + 1 < TotalQuestions)
    OBVIOUS
  <1> HIDE DEF pc
  <1> QED BY <1>1, <1>2, LoadQuiet DEF OpNames, MaybeUser, Steps, Final, StartSteps, Held

\* JoinLoad is quiet.
LEMMA JoinLoadQuiet ==
    ASSUME TypeInv, NEW r \in Requests, NEW u \in Users, JoinLoad(r, u)
    PROVE  Quiet(r)
  <1> DEFINE pc == CASE Lapsed /\ session.status \in Lobby -> "expire"
                     [] \/ Lapsed /\ session.status \notin Lobby
                        \/ session.status \in {"CANCELLED", "FINISHED"} -> "refused"
                     [] OTHER -> "spectator"
  <1>1. Begin(r, "join", u, NoUser, pc) /\ UNCHANGED Rest
    BY DEF JoinLoad, Rest
  <1>2. pc \in {"expire", "refused", "spectator"} /\ (pc = "advance" => session.index + 1 < TotalQuestions)
    OBVIOUS
  <1> HIDE DEF pc
  <1> QED BY <1>1, <1>2, LoadQuiet DEF OpNames, MaybeUser, Steps, Final, StartSteps, Held

\* StartLoad is quiet.
LEMMA StartLoadQuiet ==
    ASSUME TypeInv, NEW r \in Requests, NEW u \in Users, StartLoad(r, u)
    PROVE  Quiet(r)
  <1> DEFINE pc == CASE ~IsHost(u) -> "refused"
                     [] IsHost(u) /\ Lapsed -> "expire"
                     [] OTHER -> IF session.status \in Lobby THEN "lock" ELSE "refused"
  <1>1. Begin(r, "start", u, NoUser, pc) /\ UNCHANGED Rest
    BY DEF StartLoad, Rest
  <1>2. pc \in {"refused", "expire", "lock"} /\ (pc = "advance" => session.index + 1 < TotalQuestions)
    OBVIOUS
  <1> HIDE DEF pc
  <1> QED BY <1>1, <1>2, LoadQuiet DEF OpNames, MaybeUser, Steps, Final, StartSteps, Held

\* DeclineLoad is quiet.
LEMMA DeclineLoadQuiet ==
    ASSUME TypeInv, NEW r \in Requests, NEW u \in Users, DeclineLoad(r, u)
    PROVE  Quiet(r)
  <1> DEFINE pc == IF session.status \in Lobby THEN "write" ELSE "ok"
  <1>1. Begin(r, "decline", u, NoUser, pc) /\ UNCHANGED Rest
    BY DEF DeclineLoad, Rest
  <1>2. pc \in {"write", "ok"} /\ (pc = "advance" => session.index + 1 < TotalQuestions)
    OBVIOUS
  <1> HIDE DEF pc
  <1> QED BY <1>1, <1>2, LoadQuiet DEF OpNames, MaybeUser, Steps, Final, StartSteps, Held

\* ThemeLoad is quiet.
LEMMA ThemeLoadQuiet ==
    ASSUME TypeInv, NEW r \in Requests, NEW u \in Users, ThemeLoad(r, u)
    PROVE  Quiet(r)
  <1> DEFINE pc == IF session.status = "WAITING" /\ ~CustomDeck /\ u = CurrentChooser
                  THEN "write" ELSE "refused"
  <1>1. Begin(r, "theme", u, NoUser, pc) /\ UNCHANGED Rest
    BY DEF ThemeLoad, Rest
  <1>2. pc \in {"write", "refused"} /\ (pc = "advance" => session.index + 1 < TotalQuestions)
    OBVIOUS
  <1> HIDE DEF pc
  <1> QED BY <1>1, <1>2, LoadQuiet DEF OpNames, MaybeUser, Steps, Final, StartSteps, Held

\* DelegateLoad is quiet.
LEMMA DelegateLoadQuiet ==
    ASSUME TypeInv, NEW r \in Requests, NEW u \in Users, NEW v \in Users, DelegateLoad(r, u, v)
    PROVE  Quiet(r)
  <1> DEFINE pc == IF session.status = "WAITING" /\ ~CustomDeck
                     /\ u \in {CurrentChooser, session.host}
                  THEN "write" ELSE "refused"
  <1>1. Begin(r, "delegate", u, v, pc) /\ UNCHANGED Rest
    BY DEF DelegateLoad, Rest
  <1>2. pc \in {"write", "refused"} /\ (pc = "advance" => session.index + 1 < TotalQuestions)
    OBVIOUS
  <1> HIDE DEF pc
  <1> QED BY <1>1, <1>2, LoadQuiet DEF OpNames, MaybeUser, Steps, Final, StartSteps, Held

\* KickLoad is quiet.
LEMMA KickLoadQuiet ==
    ASSUME TypeInv, NEW r \in Requests, NEW u \in Users, NEW v \in Users, KickLoad(r, u, v)
    PROVE  Quiet(r)
  <1> DEFINE pc == IF IsHost(u) /\ v # u /\ v \in players THEN "delete" ELSE "refused"
  <1>1. Begin(r, "kick", u, v, pc) /\ UNCHANGED Rest
    BY DEF KickLoad, Rest
  <1>2. pc \in {"delete", "refused"} /\ (pc = "advance" => session.index + 1 < TotalQuestions)
    OBVIOUS
  <1> HIDE DEF pc
  <1> QED BY <1>1, <1>2, LoadQuiet DEF OpNames, MaybeUser, Steps, Final, StartSteps, Held

\* AnswerLoad is quiet.
LEMMA AnswerLoadQuiet ==
    ASSUME TypeInv, NEW r \in Requests, NEW u \in Users, AnswerLoad(r, u)
    PROVE  Quiet(r)
  <1> DEFINE pc == IF /\ session.status = "IN_PROGRESS" /\ u \in players
                      /\ IsDuel => u \in {session.host, Opponent}
                   THEN "guard" ELSE "refused"
  <1>1. Begin(r, "answer", u, NoUser, pc) /\ UNCHANGED Rest
    BY DEF AnswerLoad, Rest
  <1>2. pc \in {"guard", "refused"} /\ (pc = "advance" => session.index + 1 < TotalQuestions)
    OBVIOUS
  <1> HIDE DEF pc
  <1> QED BY <1>1, <1>2, LoadQuiet DEF OpNames, MaybeUser, Steps, Final, StartSteps, Held

\* TimeoutLoad is quiet.
LEMMA TimeoutLoadQuiet ==
    ASSUME TypeInv, NEW r \in Requests, TimeoutLoad(r)
    PROVE  Quiet(r)
  <1> DEFINE pc == "conclude"
  <1>1. Begin(r, "timeout", NoUser, NoUser, pc) /\ UNCHANGED Rest
    BY DEF TimeoutLoad, Rest
  <1>2. pc \in {"conclude"} /\ (pc = "advance" => session.index + 1 < TotalQuestions)
    OBVIOUS
  <1> HIDE DEF pc
  <1> QED BY <1>1, <1>2, LoadQuiet DEF OpNames, MaybeUser, Steps, Final, StartSteps, Held

\* AdvanceLoad is quiet.
LEMMA AdvanceLoadQuiet ==
    ASSUME TypeInv, NEW r \in Requests, AdvanceLoad(r)
    PROVE  Quiet(r)
  <1> DEFINE pc == IF session.index + 1 < TotalQuestions THEN "advance" ELSE "podium"
  <1>1. Begin(r, "advance", NoUser, NoUser, pc) /\ UNCHANGED Rest
    BY DEF AdvanceLoad, Rest
  <1>2. pc \in {"advance", "podium"} /\ (pc = "advance" => session.index + 1 < TotalQuestions)
    OBVIOUS
  <1> HIDE DEF pc
  <1> QED BY <1>1, <1>2, LoadQuiet DEF OpNames, MaybeUser, Steps, Final, StartSteps, Held

\* LeaveLoad is quiet.
LEMMA LeaveLoadQuiet ==
    ASSUME TypeInv, NEW r \in Requests, NEW u \in Users, LeaveLoad(r, u)
    PROVE  Quiet(r)
  <1> DEFINE pc == CASE session.status = "WAITING" ->
                          IF IsHost(u) THEN "cancel"
                          ELSE IF u \in players THEN "lobbyDelete"
                          ELSE IF session.chooser = u THEN "chooser" ELSE "ok"
                     [] session.status = "IN_PROGRESS" ->
                          IF u \in players THEN "gameDelete" ELSE "reread"
                     [] OTHER -> "ok"
  <1>1. Begin(r, "leave", u, NoUser, pc) /\ UNCHANGED Rest
    BY DEF LeaveLoad, Rest
  <1>2. pc \in {"cancel", "lobbyDelete", "chooser", "ok", "gameDelete", "reread"}
    OBVIOUS
  <1> HIDE DEF pc
  <1> QED BY <1>1, <1>2, LoadQuiet DEF OpNames, MaybeUser, Steps, Final

\* ToggleSpectator is quiet.
LEMMA ToggleSpectatorQuiet ==
    ASSUME TypeInv, NEW r \in Requests, NEW u \in Users, NEW on \in BOOLEAN,
           ToggleSpectator(r, u, on)
    PROVE  Quiet(r)
  <1> DEFINE pc == IF ~IsDuel /\ (u = DeckAuthor => on) THEN "ok" ELSE "refused"
  <1>1. Begin(r, "toggle", u, NoUser, pc)
    BY DEF ToggleSpectator
  <1>2. pc \in {"ok", "refused"}
    OBVIOUS
  <1> HIDE DEF pc
  <1>0. /\ pc \in (Steps \cup Final) \ {"new", "promoteSession"} /\ pc # "advance"
        /\ "toggle" \in OpNames /\ u \in MaybeUser /\ NoUser \in MaybeUser
    BY <1>2 DEF OpNames, MaybeUser, Steps, Final
  <1>3. RequestsOK' /\ Others(r) /\ req'[r].op = "toggle" /\ req'[r].pc = pc
    BY <1>0, <1>1, BeginOK DEF Others
  <1>4. DataOK'
    BY DEF TypeInv, DataOK, ToggleSpectator, rowVars, gameLog
  <1> QED BY <1>2, <1>3, <1>4
          DEF Quiet, Calm, TypeInv, HoldsLock, ToggleSpectator, rowVars, gameLog

\* ExpireOnRead is quiet.
LEMMA ExpireOnReadQuiet ==
    ASSUME TypeInv, NEW r \in Requests, ExpireOnRead(r)
    PROVE  Quiet(r)
  <1>1. /\ RequestsOK' /\ Others(r) /\ req'[r].pc \in Final
        /\ HoldsLock(req'[r]) => HoldsLock(req[r])
    BY FinishQuiet DEF ExpireOnRead, At, Final
  <1>2. session' \in Session /\ session'.status = "EXPIRED" /\ session'.host = session.host
    BY SetStatusOK DEF ExpireOnRead, TypeInv, Status
  <1>3. DataOK'
    BY <1>2 DEF TypeInv, DataOK, ExpireOnRead, rowVars, gameLog
  <1> QED BY <1>1, <1>2, <1>3
          DEF Quiet, Calm, TypeInv, ExpireOnRead, rowVars, gameLog, Lobby, Final

\* DeclineWrite is quiet.
LEMMA DeclineWriteQuiet ==
    ASSUME TypeInv, NEW r \in Requests, DeclineWrite(r)
    PROVE  Quiet(r)
  <1>1. /\ RequestsOK' /\ Others(r) /\ req'[r].pc \in Final
        /\ HoldsLock(req'[r]) => HoldsLock(req[r])
    BY FinishQuiet DEF DeclineWrite, At, Final
  <1>2. session' \in Session /\ session'.status = "CANCELLED" /\ session'.host = session.host
    BY SetStatusOK DEF DeclineWrite, TypeInv, Status
  <1>3. DataOK'
    BY <1>2 DEF TypeInv, DataOK, DeclineWrite, rowVars, gameLog
  <1> QED BY <1>1, <1>2, <1>3
          DEF Quiet, Calm, TypeInv, DeclineWrite, rowVars, gameLog, Lobby, Final

\* LeaveCancel is quiet.
LEMMA LeaveCancelQuiet ==
    ASSUME TypeInv, NEW r \in Requests, LeaveCancel(r)
    PROVE  Quiet(r)
  <1>1. /\ RequestsOK' /\ Others(r) /\ req'[r].pc \in Final
        /\ HoldsLock(req'[r]) => HoldsLock(req[r])
    BY FinishQuiet DEF LeaveCancel, At, Final
  <1>2. session' \in Session /\ session'.status = "CANCELLED" /\ session'.host = session.host
    BY SetStatusOK DEF LeaveCancel, TypeInv, Status
  <1>3. DataOK'
    BY <1>2 DEF TypeInv, DataOK, LeaveCancel, rowVars, gameLog
  <1> QED BY <1>1, <1>2, <1>3
          DEF Quiet, Calm, TypeInv, LeaveCancel, rowVars, gameLog, Lobby, Final

\* LeaveAbandon is quiet.
LEMMA LeaveAbandonQuiet ==
    ASSUME TypeInv, NEW r \in Requests, LeaveAbandon(r)
    PROVE  Quiet(r)
  <1>1. /\ RequestsOK' /\ Others(r) /\ req'[r].pc \in Final
        /\ HoldsLock(req'[r]) => HoldsLock(req[r])
    BY FinishQuiet DEF LeaveAbandon, At, Final
  <1>2. session' \in Session /\ session'.status = "CANCELLED" /\ session'.host = session.host
    BY SetStatusOK DEF LeaveAbandon, TypeInv, Status
  <1>3. DataOK'
    BY <1>2 DEF TypeInv, DataOK, LeaveAbandon, rowVars, gameLog
  <1> QED BY <1>1, <1>2, <1>3
          DEF Quiet, Calm, TypeInv, LeaveAbandon, rowVars, gameLog, Lobby, Final

\* StartCheck is quiet.
LEMMA StartCheckQuiet ==
    ASSUME TypeInv, NEW r \in Requests, StartCheck(r)
    PROVE  Quiet(r)
  <1> DEFINE pc == IF EnoughPlayers(req[r].snap) THEN "run" ELSE "failed"
  <1>1. GotoOrFinish(r, pc) /\ UNCHANGED Rest /\ req[r].op = "start" /\ req[r].pc = "check"
    BY DEF StartCheck, Rest, At
  <1>2. pc \in {"run", "failed"}
    OBVIOUS
  <1> HIDE DEF pc
  <1> QED BY <1>1, <1>2, ReadQuiet DEF Steps, Final, StartSteps, Held

\* StartRun is quiet.
LEMMA StartRunQuiet ==
    ASSUME TypeInv, NEW r \in Requests, StartRun(r)
    PROVE  Quiet(r)
  <1>1. /\ RequestsOK' /\ Others(r) /\ req'[r].pc = "reset"
        /\ HoldsLock(req'[r]) => HoldsLock(req[r])
    BY GotoQuiet DEF StartRun, At, Steps, StartSteps, Held
  <1>0. 0 \in Index /\ "IN_PROGRESS" \in Status
    BY DuelBounds DEF Index, Status
  <1>2. /\ session' \in Session /\ session'.status = "IN_PROGRESS"
        /\ session'.host = session.host
    BY <1>0 DEF StartRun, TypeInv, DataOK, Session
  <1>3. DataOK'
    BY <1>2 DEF TypeInv, DataOK, StartRun, rowVars, gameLog
  <1> QED BY <1>1, <1>2, <1>3 DEF Quiet, Calm, TypeInv, StartRun, rowVars, gameLog, Lobby

\* StartReset is quiet.
LEMMA StartResetQuiet ==
    ASSUME TypeInv, NEW r \in Requests, StartReset(r)
    PROVE  Quiet(r)
  <1>1. /\ RequestsOK' /\ Others(r) /\ req'[r].pc \in Final
        /\ HoldsLock(req'[r]) => HoldsLock(req[r])
    BY FinishQuiet DEF StartReset, At, Final, Held
  <1>2. DataOK'
    BY DEF TypeInv, DataOK, StartReset, gameLog
  <1> QED BY <1>1, <1>2 DEF Quiet, Calm, TypeInv, StartReset, gameLog, Final

\* AdvanceReset is quiet.
LEMMA AdvanceResetQuiet ==
    ASSUME TypeInv, NEW r \in Requests, AdvanceReset(r)
    PROVE  Quiet(r)
  <1>1. /\ RequestsOK' /\ Others(r) /\ req'[r].pc \in Final
        /\ HoldsLock(req'[r]) => HoldsLock(req[r])
    BY FinishQuiet DEF AdvanceReset, At, Final, Held
  <1>2. DataOK'
    BY DEF TypeInv, DataOK, AdvanceReset, gameLog
  <1> QED BY <1>1, <1>2 DEF Quiet, Calm, TypeInv, AdvanceReset, gameLog, Final

\* ThemeWrite is quiet.
LEMMA ThemeWriteQuiet ==
    ASSUME TypeInv, NEW r \in Requests, ThemeWrite(r)
    PROVE  Quiet(r)
  <1>1. /\ RequestsOK' /\ Others(r) /\ req'[r].pc \in Final
        /\ HoldsLock(req'[r]) => HoldsLock(req[r])
    BY FinishQuiet DEF ThemeWrite, At, Final
  <1>2. /\ session' \in Session /\ session'.status = session.status
        /\ session'.host = session.host
    BY FieldsOK, SnapOK DEF ThemeWrite, TypeInv, DataOK, Session, MaybeUser
  <1>3. DataOK'
    BY <1>2 DEF TypeInv, DataOK, ThemeWrite, rowVars, gameLog
  <1> QED BY <1>1, <1>2, <1>3 DEF Quiet, Calm, TypeInv, ThemeWrite, rowVars, gameLog, Final

\* DelegateWrite is quiet.
LEMMA DelegateWriteQuiet ==
    ASSUME TypeInv, NEW r \in Requests, DelegateWrite(r)
    PROVE  Quiet(r)
  <1>1. /\ RequestsOK' /\ Others(r) /\ req'[r].pc \in Final
        /\ HoldsLock(req'[r]) => HoldsLock(req[r])
    BY FinishQuiet DEF DelegateWrite, At, Final
  <1>2. /\ session' \in Session /\ session'.status = session.status
        /\ session'.host = session.host
    BY FieldsOK, SnapOK DEF DelegateWrite, TypeInv, DataOK, Session, MaybeUser
  <1>3. DataOK'
    BY <1>2 DEF TypeInv, DataOK, DelegateWrite, rowVars, gameLog
  <1> QED BY <1>1, <1>2, <1>3 DEF Quiet, Calm, TypeInv, DelegateWrite, rowVars, gameLog, Final

\* LeaveChooser is quiet.
LEMMA LeaveChooserQuiet ==
    ASSUME TypeInv, NEW r \in Requests, LeaveChooser(r)
    PROVE  Quiet(r)
  <1>1. /\ RequestsOK' /\ Others(r) /\ req'[r].pc \in Final
        /\ HoldsLock(req'[r]) => HoldsLock(req[r])
    BY FinishQuiet DEF LeaveChooser, At, Final
  <1>2. /\ session' \in Session /\ session'.status = session.status
        /\ session'.host = session.host
    BY FieldsOK, SnapOK DEF LeaveChooser, TypeInv, DataOK, Session, MaybeUser
  <1>3. DataOK'
    BY <1>2 DEF TypeInv, DataOK, LeaveChooser, rowVars, gameLog
  <1> QED BY <1>1, <1>2, <1>3 DEF Quiet, Calm, TypeInv, LeaveChooser, rowVars, gameLog, Final

\* LeaveLobbyDelete is quiet.
LEMMA LeaveLobbyDeleteQuiet ==
    ASSUME TypeInv, NEW r \in Requests, LeaveLobbyDelete(r)
    PROVE  Quiet(r)
  <1> DEFINE pc == IF req[r].snap.session.chooser = req[r].user THEN "chooser" ELSE "ok"
  <1>1. GotoOrFinish(r, pc) /\ req[r].op = "leave" /\ req[r].pc = "lobbyDelete"
    BY DEF LeaveLobbyDelete, At
  <1>2. pc \in {"chooser", "ok"}
    OBVIOUS
  <1> HIDE DEF pc
  <1>3. /\ RequestsOK' /\ Others(r) /\ req'[r].pc \notin {"commit", "promoteSession"}
        /\ HoldsLock(req'[r]) => HoldsLock(req[r])
    BY <1>1, <1>2, MoveQuiet DEF Steps, Final
  <1>4. /\ players' \subseteq players /\ answered' \subseteq answered /\ DataOK'
    BY DeleteRowOK DEF TypeInv, DataOK, LeaveLobbyDelete, gameLog
  <1> QED BY <1>3, <1>4 DEF Quiet, Calm, TypeInv, LeaveLobbyDelete, gameLog

\* LeaveGameDelete is quiet.
LEMMA LeaveGameDeleteQuiet ==
    ASSUME TypeInv, NEW r \in Requests, LeaveGameDelete(r)
    PROVE  Quiet(r)
  <1>1. /\ RequestsOK' /\ Others(r) /\ req'[r].pc = "reread"
        /\ HoldsLock(req'[r]) => HoldsLock(req[r])
    BY GotoQuiet DEF LeaveGameDelete, At, Steps, Final
  <1>2. /\ players' \subseteq players /\ answered' \subseteq answered /\ DataOK'
    BY DeleteRowOK DEF TypeInv, DataOK, LeaveGameDelete, gameLog
  <1> QED BY <1>1, <1>2 DEF Quiet, Calm, TypeInv, LeaveGameDelete, gameLog

\* KickDelete is quiet.
LEMMA KickDeleteQuiet ==
    ASSUME TypeInv, NEW r \in Requests, KickDelete(r)
    PROVE  Quiet(r)
  <1>1. /\ RequestsOK' /\ Others(r) /\ req'[r].pc = "reread"
        /\ HoldsLock(req'[r]) => HoldsLock(req[r])
    BY GotoQuiet DEF KickDelete, At, Steps, Final
  <1>2. /\ players' \subseteq players /\ answered' \subseteq answered /\ DataOK'
    BY DeleteRowOK DEF TypeInv, DataOK, KickDelete, gameLog
  <1> QED BY <1>1, <1>2 DEF Quiet, Calm, TypeInv, KickDelete, gameLog

\* LeaveCheck is quiet.
LEMMA LeaveCheckQuiet ==
    ASSUME TypeInv, NEW r \in Requests, LeaveCheck(r)
    PROVE  Quiet(r)
  BY AnnounceQuiet, ReturnQuiet DEF LeaveCheck, At, Rest, Steps, Final

\* AnswerRead is quiet.
LEMMA AnswerReadQuiet ==
    ASSUME TypeInv, NEW r \in Requests, AnswerRead(r)
    PROVE  Quiet(r)
  <1> DEFINE pc == CASE answers[req[r].user][req[r].snap.session.index] = 0 -> "answerWrite"
                     [] answers[req[r].user][req[r].snap.session.index] > 0
                          /\ req[r].user \in players -> "count"
                     [] OTHER -> "refused"
  <1>1. GotoOrFinish(r, pc) /\ UNCHANGED Rest
    BY DEF AnswerRead, Rest
  <1>2. req[r].op \in {"answer"} /\ req[r].pc = "answerRead"
    BY DEF AnswerRead, At
  <1>3. pc \in {"answerWrite", "count", "refused"}
    OBVIOUS
  <1> HIDE DEF pc
  <1> QED BY <1>1, <1>2, <1>3, ReadQuiet DEF Steps, Final

\* AnswerCount is quiet.
LEMMA AnswerCountQuiet ==
    ASSUME TypeInv, NEW r \in Requests, AnswerCount(r)
    PROVE  Quiet(r)
  BY AnnounceQuiet, ReturnQuiet DEF AnswerCount, At, Rest, Steps, Final

\* KickCount is quiet.
LEMMA KickCountQuiet ==
    ASSUME TypeInv, NEW r \in Requests, KickCount(r)
    PROVE  Quiet(r)
  <1> DEFINE pc == IF /\ req[r].snap.session.status = "IN_PROGRESS"
                      /\ AllAnswered(Contenders(spectator, req[r].snap.players,
                                                req[r].snap.hostFlag), req[r].snap.answered)
                   THEN "conclude" ELSE "ok"
  <1>1. GotoOrFinish(r, pc) /\ UNCHANGED Rest
    BY DEF KickCount, Rest
  <1>2. req[r].op \in {"kick"} /\ req[r].pc = "count"
    BY DEF KickCount, At
  <1>3. pc \in {"conclude", "ok"}
    OBVIOUS
  <1> HIDE DEF pc
  <1> QED BY <1>1, <1>2, <1>3, ReadQuiet DEF Steps, Final

\* JoinSpectator is quiet.
LEMMA JoinSpectatorQuiet ==
    ASSUME TypeInv, NEW r \in Requests, JoinSpectator(r)
    PROVE  Quiet(r)
  <1> DEFINE q == [req[r] EXCEPT !.pc = "tx", !.spect = spectator]
  <1>1. req' = [req EXCEPT ![r] = q] /\ UNCHANGED Rest
    BY DEF JoinSpectator, Rest, TypeInv, RequestsOK
  <1>2. q \in Request /\ q.op = "join" /\ q.pc = "tx" /\ q.user = req[r].user
    BY FieldsOK, ZenonT(60) DEF TypeInv, DataOK, Request, Steps, JoinSpectator, At
  <1>3. req[r].user \in Users
    BY FieldsOK DEF TypeInv, RequestOK, JoinSpectator, At, Final
  <1> HIDE DEF q
  <1>4. q \in GoodRequest
    BY <1>2, <1>3 DEF GoodRequest, RequestOK
  <1>5. RequestsOK' /\ Others(r) /\ req'[r] = q
    BY <1>1, <1>4, UpdateOK DEF TypeInv, Others
  <1>6. DataOK'
    BY <1>1, RestOK DEF TypeInv
  <1> QED BY <1>1, <1>2, <1>5, <1>6
          DEF Quiet, Calm, TypeInv, HoldsLock, Held, Rest, rowVars, gameLog

\* Updating three fields of a request in place replaces the request.
LEMMA ThreeFields ==
    ASSUME RequestsOK, NEW r \in Requests, NEW s, NEW w, NEW pc,
           req' = [req EXCEPT ![r].snap = s, ![r].wasHost = w, ![r].pc = pc]
    PROVE  req' = [req EXCEPT ![r] = [req[r] EXCEPT !.snap = s, !.wasHost = w, !.pc = pc]]
  BY DEF RequestsOK

\* Updating two fields of a request in place replaces the request.
LEMMA TwoFields ==
    ASSUME RequestsOK, NEW r \in Requests, NEW x, NEW pc,
           req' = [req EXCEPT ![r].unpaid = x, ![r].pc = pc]
    PROVE  req' = [req EXCEPT ![r] = [req[r] EXCEPT !.unpaid = x, !.pc = pc]]
  BY DEF RequestsOK

\* Reread is quiet.
LEMMA RereadQuiet ==
    ASSUME TypeInv, NEW r \in Requests, Reread(r)
    PROVE  Quiet(r)
  <1> DEFINE host == req[r].snap.session.host = req[r].user \/ req[r].user \in req[r].snap.hostFlag
             snap == [Read EXCEPT !.session = req[r].snap.session]
             q == [req[r] EXCEPT !.snap = snap, !.wasHost = host, !.pc = "count"]
  <1>1. req' = [req EXCEPT ![r] = q] /\ UNCHANGED Rest
    <2>1. /\ req' = [req EXCEPT ![r].snap = snap, ![r].wasHost = host, ![r].pc = "count"]
          /\ UNCHANGED Rest
      BY ZenonT(60) DEF Reread, Rest
    <2> HIDE DEF snap, host
    <2>2. QED BY <2>1, ThreeFields DEF TypeInv
  <1>2. snap \in Snapshot
    BY SnapOK DEF TypeInv, DataOK, Read, Snapshot
  <1>3. host \in BOOLEAN
    OBVIOUS
  <1> HIDE DEF snap, host
  <1>4. q \in Request /\ q.op = req[r].op /\ q.pc = "count" /\ q.user = req[r].user
    BY <1>2, <1>3, FieldsOK, ZenonT(60) DEF TypeInv, Request, Steps
  <1>5. req[r].op \in {"leave", "kick"} /\ req[r].user \in Users
    BY FieldsOK DEF TypeInv, RequestOK, Reread, At, Final
  <1> HIDE DEF q
  <1>6. q \in GoodRequest
    BY <1>4, <1>5 DEF GoodRequest, RequestOK
  <1>7. RequestsOK' /\ Others(r) /\ req'[r] = q
    BY <1>1, <1>6, UpdateOK DEF TypeInv, Others
  <1>8. DataOK'
    BY <1>1, RestOK DEF TypeInv
  <1> QED BY <1>1, <1>4, <1>5, <1>7, <1>8
          DEF Quiet, Calm, TypeInv, HoldsLock, Held, Rest, rowVars, gameLog

\* LeaveCount is quiet.
LEMMA LeaveCountQuiet ==
    ASSUME TypeInv, NEW r \in Requests, LeaveCount(r)
    PROVE  Quiet(r)
  <1> DEFINE left == Contenders(spectator, req[r].snap.players, req[r].snap.hostFlag)
             pc == CASE Cardinality(left) = 1 -> "forfeit"
                     [] left = {} -> "abandon"
                     [] OTHER -> IF req[r].wasHost THEN "promoteRow" ELSE "check"
             q == [req[r] EXCEPT !.unpaid = left, !.pc = pc]
  <1>1. req' = [req EXCEPT ![r] = q] /\ UNCHANGED Rest
    <2>1. /\ req' = [req EXCEPT ![r].unpaid = left, ![r].pc = pc]
          /\ UNCHANGED Rest
      BY ZenonT(60) DEF LeaveCount, Rest
    <2> HIDE DEF left, pc
    <2>2. QED BY <2>1, TwoFields DEF TypeInv
  <1>2. left \in SUBSET Users
    BY SnapOK DEF TypeInv, Contenders
  <1>3. pc \in {"forfeit", "abandon", "promoteRow", "check"}
    OBVIOUS
  <1> HIDE DEF left, pc
  <1>4. q \in Request /\ q.op = req[r].op /\ q.pc = pc /\ q.user = req[r].user
    BY <1>2, <1>3, FieldsOK, ZenonT(60) DEF TypeInv, Request, Steps
  <1>5. req[r].op = "leave" /\ req[r].user \in Users
    BY FieldsOK DEF TypeInv, RequestOK, LeaveCount, At, Final
  <1> HIDE DEF q
  <1>6. q \in GoodRequest
    BY <1>3, <1>4, <1>5 DEF GoodRequest, RequestOK
  <1>7. RequestsOK' /\ Others(r) /\ req'[r] = q
    BY <1>1, <1>6, UpdateOK DEF TypeInv, Others
  <1>8. DataOK'
    BY <1>1, RestOK DEF TypeInv
  <1> QED BY <1>1, <1>3, <1>4, <1>5, <1>7, <1>8
          DEF Quiet, Calm, TypeInv, HoldsLock, Rest, rowVars, gameLog

\* LeaveForfeit is quiet.
LEMMA LeaveForfeitQuiet ==
    ASSUME TypeInv, NEW r \in Requests, LeaveForfeit(r)
    PROVE  Quiet(r)
  <1>1. /\ RequestsOK' /\ Others(r) /\ req'[r].pc = "pay"
        /\ HoldsLock(req'[r]) => HoldsLock(req[r])
    BY GotoQuiet DEF LeaveForfeit, At, Steps, Final
  <1>2. /\ session' \in Session /\ session'.status = "FINISHED"
        /\ session'.host = session.host
    BY FieldsOK DEF LeaveForfeit, TypeInv, DataOK, Session, Status, MaybeUser
  <1>3. DataOK'
    BY <1>2 DEF TypeInv, DataOK, LeaveForfeit, rowVars, gameLog
  <1> QED BY <1>1, <1>2, <1>3 DEF Quiet, Calm, TypeInv, LeaveForfeit, rowVars, gameLog, Lobby

\* The guard of an answer returns, announces that everybody has answered, or goes on.
LEMMA AnswerGuardCases ==
    ASSUME NEW r \in Requests, AnswerGuard(r)
    PROVE  /\ UNCHANGED Rest /\ req[r].op = "answer" /\ req[r].pc = "guard"
           /\ \/ \E pc \in {"refused", "ok"} : Finish(r, pc)
              \/ Announce(r)
              \/ req' = [req EXCEPT ![r].pc = "answerLock", ![r].spect = spectator]
  BY ZenonT(60) DEF AnswerGuard, At, Rest

\* AnswerGuard is quiet.
LEMMA AnswerGuardQuiet ==
    ASSUME TypeInv, NEW r \in Requests, AnswerGuard(r)
    PROVE  Quiet(r)
  <1>1. UNCHANGED Rest /\ req[r].op = "answer" /\ req[r].pc = "guard" /\ req[r].user \in Users
    BY AnswerGuardCases, FieldsOK DEF TypeInv, RequestOK, Final
  <1>2. ASSUME NEW pc \in {"refused", "ok"}, Finish(r, pc) PROVE Quiet(r)
    BY <1>1, <1>2, ReturnQuiet DEF Final
  <1>3. CASE Announce(r)
    BY <1>1, <1>3, AnnounceQuiet DEF Steps
  <1>4. CASE req' = [req EXCEPT ![r].pc = "answerLock", ![r].spect = spectator]
    <2> DEFINE q == [req[r] EXCEPT !.pc = "answerLock", !.spect = spectator]
    <2>1. req' = [req EXCEPT ![r] = q]
      BY <1>4 DEF TypeInv, RequestsOK
    <2>2. q \in Request /\ q.op = "answer" /\ q.pc = "answerLock" /\ q.user = req[r].user
      BY <1>1, FieldsOK, ZenonT(60) DEF TypeInv, DataOK, Request, Steps, Final
    <2> HIDE DEF q
    <2>3. q \in GoodRequest
      BY <1>1, <2>2 DEF GoodRequest, RequestOK
    <2>4. RequestsOK' /\ Others(r) /\ req'[r] = q
      BY <2>1, <2>3, UpdateOK DEF TypeInv, Others
    <2> QED BY <1>1, <2>2, <2>4, RestOK
            DEF Quiet, Calm, TypeInv, HoldsLock, Rest, rowVars, gameLog
  <1> QED BY <1>2, <1>3, <1>4, AnswerGuardCases

\* AnswerLock is quiet.
LEMMA AnswerLockQuiet ==
    ASSUME TypeInv, NEW r \in Requests, AnswerLock(r)
    PROVE  Quiet(r)
  <1>1. /\ RequestsOK' /\ Others(r) /\ req'[r].pc = "answerRead"
        /\ HoldsLock(req'[r]) => HoldsLock(req[r])
    BY GotoQuiet DEF AnswerLock, At, Steps, Final
  <1>2. req[r].user \in Users /\ req[r].snap.session.index \in Index
    BY FieldsOK, SnapOK DEF TypeInv, RequestOK, AnswerLock, At, Final
  <1>3. DataOK'
    BY <1>2 DEF TypeInv, DataOK, AnswerLock, rowVars
  <1> QED BY <1>1, <1>3 DEF Quiet, Calm, TypeInv, AnswerLock, rowVars

\* AnswerWrite is calm, but raises a flag.
LEMMA AnswerWriteCalm ==
    ASSUME TypeInv, NEW r \in Requests, AnswerWrite(r)
    PROVE  Calm(r)
  <1> DEFINE u == req[r].user
             i == req[r].snap.session.index
  <1>1. u \in Users /\ i \in Index /\ req[r].op = "answer" /\ req[r].pc = "answerWrite"
    BY FieldsOK, SnapOK DEF TypeInv, RequestOK, AnswerWrite, At, Final
  <1>2. CASE u \in players
    <2>1. /\ RequestsOK' /\ Others(r) /\ req'[r].pc = "count"
          /\ HoldsLock(req'[r]) => HoldsLock(req[r])
      BY <1>1, <1>2, GotoQuiet DEF AnswerWrite, Steps, Final
    <2>2. /\ answers' = [answers EXCEPT ![u][i] = @ + 1]
          /\ answersCount' = [answersCount EXCEPT ![u] = @ + 1]
          /\ answered' = answered \cup {u}
          /\ UNCHANGED <<session, expired, spectator, players, hostFlag, answerLocks,
                         concluded, xp, sweep>>
      BY <1>2 DEF AnswerWrite
    <2> HIDE DEF u, i
    <2>3. answers' \in [Users -> [Index -> Nat]] /\ answersCount' \in [Users -> Nat]
      BY <1>1, <2>2 DEF TypeInv, DataOK
    <2>4. DataOK'
      BY <1>2, <2>2, <2>3 DEF TypeInv, DataOK
    <2> QED BY <2>1, <2>2, <2>4 DEF Calm, TypeInv
  <1>3. CASE u \notin players
    <2>1. /\ RequestsOK' /\ Others(r) /\ req'[r].pc \in Final
          /\ HoldsLock(req'[r]) => HoldsLock(req[r])
      BY <1>1, <1>3, FinishQuiet DEF AnswerWrite, Final
    <2>2. UNCHANGED Rest
      BY <1>3 DEF AnswerWrite, Rest, rowVars, gameLog
    <2>3. DataOK'
      BY <2>2, RestOK DEF TypeInv
    <2> QED BY <2>1, <2>2, <2>3 DEF Calm, TypeInv, Rest, rowVars, Final
  <1> QED BY <1>2, <1>3

\* Conclude is quiet.
LEMMA ConcludeQuiet ==
    ASSUME TypeInv, NEW r \in Requests, Conclude(r)
    PROVE  Quiet(r)
  <1> DEFINE q == [req[r] EXCEPT !.pc = "rank", !.snap = Read]
  <1>1. req' = [req EXCEPT ![r] = q] /\ UNCHANGED Rest /\ req[r].pc = "conclude"
    BY DEF Conclude, Rest, TypeInv, RequestsOK
  <1>2. Read \in Snapshot
    BY DEF Read, Snapshot, TypeInv, DataOK
  <1>3. q \in Request /\ q.op = req[r].op /\ q.pc = "rank" /\ q.user = req[r].user
    BY <1>2, FieldsOK DEF TypeInv, Request, Steps
  <1>4. /\ req[r].op # "start"
        /\ req[r].op \notin {"timeout", "advance"} => req[r].user \in Users
    BY <1>1, FieldsOK DEF TypeInv, RequestOK, Final, StartSteps
  <1> HIDE DEF q
  <1>5. q \in GoodRequest
    BY <1>3, <1>4 DEF GoodRequest, RequestOK
  <1>6. RequestsOK' /\ Others(r) /\ req'[r] = q
    BY <1>1, <1>5, UpdateOK DEF TypeInv, Others
  <1>7. DataOK'
    BY <1>1, RestOK DEF TypeInv
  <1> QED BY <1>1, <1>3, <1>4, <1>6, <1>7
          DEF Quiet, Calm, TypeInv, HoldsLock, Rest, rowVars, gameLog

\* ConcludeRank is quiet.
LEMMA ConcludeRankQuiet ==
    ASSUME TypeInv, NEW r \in Requests, ConcludeRank(r)
    PROVE  Quiet(r)
  <1>1. \E pc \in Final : Finish(r, pc)
    BY DEF ConcludeRank, Final
  <1>2. req[r].op # "start"
    BY FieldsOK DEF TypeInv, RequestOK, StartSteps, Final, ConcludeRank
  <1>3. /\ RequestsOK' /\ Others(r) /\ req'[r].pc \in Final
        /\ HoldsLock(req'[r]) => HoldsLock(req[r])
    BY <1>1, <1>2, FinishQuiet
  <1>4. concluded' \in SUBSET Index
    BY SnapOK DEF TypeInv, DataOK, ConcludeRank
  <1>5. DataOK'
    BY <1>4 DEF TypeInv, DataOK, ConcludeRank, rowVars
  <1> QED BY <1>3, <1>5 DEF Quiet, Calm, TypeInv, ConcludeRank, rowVars, Final

\* AdvanceIndex is quiet.
LEMMA AdvanceIndexQuiet ==
    ASSUME TypeInv, NEW r \in Requests, AdvanceIndex(r)
    PROVE  Quiet(r)
  <1>1. /\ RequestsOK' /\ Others(r) /\ req'[r].pc = "reset"
        /\ HoldsLock(req'[r]) => HoldsLock(req[r])
    BY GotoQuiet DEF AdvanceIndex, At, Steps, Final
  <1>2. /\ req[r].snap.session.index \in Index
        /\ req[r].snap.session.index + 1 < TotalQuestions
    BY FieldsOK, SnapOK DEF TypeInv, RequestOK, AdvanceIndex, At
  <1>3. req[r].snap.session.index + 1 \in Index
    BY <1>2, DuelBounds DEF Index
  <1>4. /\ session' \in Session /\ session'.status = session.status
        /\ session'.host = session.host
    BY <1>3 DEF AdvanceIndex, TypeInv, DataOK, Session
  <1>5. DataOK'
    BY <1>4 DEF TypeInv, DataOK, AdvanceIndex, rowVars, gameLog
  <1> QED BY <1>1, <1>4, <1>5 DEF Quiet, Calm, TypeInv, AdvanceIndex, rowVars, gameLog

\* AdvancePodium is quiet.
LEMMA AdvancePodiumQuiet ==
    ASSUME TypeInv, NEW r \in Requests, AdvancePodium(r)
    PROVE  Quiet(r)
  <1> DEFINE ranked == Contenders(spectator, req[r].snap.players, req[r].snap.hostFlag)
             winners == CASE ranked = {} -> {NoUser}
                          [] Cardinality(ranked) = 2 -> ranked \cup {NoUser}
                          [] OTHER -> ranked
             q == [req[r] EXCEPT !.unpaid = ranked, !.pc = "pay"]
  <1>1. /\ At(r, {"advance"}, "podium")
        /\ \E w \in winners : session' = [session EXCEPT !.status = "FINISHED", !.winner = w]
        /\ IF ranked = {} THEN Finish(r, "ok")
           ELSE req' = [req EXCEPT ![r].unpaid = ranked, ![r].pc = "pay"]
        /\ UNCHANGED <<expired, spectator, rowVars, gameLog, sweep>>
    BY ZenonT(60) DEF AdvancePodium
  <1>2. ranked \in SUBSET Users
    BY SnapOK DEF TypeInv, Contenders
  <1>3. winners \subseteq MaybeUser
    BY <1>2 DEF MaybeUser
  <1> HIDE DEF ranked, winners
  <1>4. /\ session' \in Session /\ session'.status = "FINISHED"
        /\ session'.host = session.host
    BY <1>1, <1>3 DEF TypeInv, DataOK, Session, Status
  <1>5. DataOK'
    BY <1>1, <1>4 DEF TypeInv, DataOK, rowVars, gameLog
  <1>6. req[r].op = "advance" /\ req[r].pc = "podium"
    BY <1>1 DEF At
  <1>7. CASE ranked = {}
    <2>1. /\ RequestsOK' /\ Others(r) /\ req'[r].pc \in Final
          /\ HoldsLock(req'[r]) => HoldsLock(req[r])
      BY <1>1, <1>6, <1>7, FinishQuiet DEF Final
    <2> QED BY <1>1, <1>4, <1>5, <2>1
            DEF Quiet, Calm, TypeInv, rowVars, gameLog, Lobby, Final
  <1>8. CASE ranked # {}
    <2>1. req' = [req EXCEPT ![r] = q]
      BY <1>1, <1>8, TwoFields DEF TypeInv
    <2>2. q \in Request /\ q.op = "advance" /\ q.pc = "pay"
      BY <1>2, <1>6, FieldsOK DEF TypeInv, Request, Steps
    <2> HIDE DEF q
    <2>3. q \in GoodRequest
      BY <2>2 DEF GoodRequest, RequestOK
    <2>4. RequestsOK' /\ Others(r) /\ req'[r] = q
      BY <2>1, <2>3, UpdateOK DEF TypeInv, Others
    <2> QED BY <1>1, <1>4, <1>5, <2>2, <2>4
            DEF Quiet, Calm, TypeInv, HoldsLock, rowVars, gameLog, Lobby
  <1> QED BY <1>7, <1>8

\* Pay is quiet.
LEMMA PayQuiet ==
    ASSUME TypeInv, NEW r \in Requests, Pay(r)
    PROVE  Quiet(r)
  <1>1. PICK p \in req[r].unpaid :
          /\ xp' = [xp EXCEPT ![p] = @ + 1]
          /\ IF req[r].unpaid = {p} THEN Finish(r, "ok")
             ELSE req' = [req EXCEPT ![r].unpaid = @ \ {p}]
    BY DEF Pay
  <1>2. /\ req[r].op # "start" /\ req[r].pc = "pay"
        /\ req[r].op \notin {"timeout", "advance"} => req[r].user \in Users
    BY FieldsOK DEF TypeInv, RequestOK, StartSteps, Final, Pay
  <1>3. xp' \in [Users -> Nat]
    BY <1>1, FieldsOK DEF TypeInv, DataOK
  <1>4. DataOK'
    BY <1>3 DEF TypeInv, DataOK, Pay, rowVars
  <1>5. CASE req[r].unpaid = {p}
    <2>1. /\ RequestsOK' /\ Others(r) /\ req'[r].pc \in Final
          /\ HoldsLock(req'[r]) => HoldsLock(req[r])
      BY <1>1, <1>2, <1>5, FinishQuiet DEF Final
    <2> QED BY <1>4, <2>1 DEF Quiet, Calm, TypeInv, Pay, rowVars, Final
  <1>6. CASE req[r].unpaid # {p}
    <2> DEFINE q == [req[r] EXCEPT !.unpaid = req[r].unpaid \ {p}]
    <2>1. req' = [req EXCEPT ![r] = q]
      BY <1>1, <1>6 DEF TypeInv, RequestsOK
    <2>2. q \in Request /\ q.op = req[r].op /\ q.pc = req[r].pc /\ q.user = req[r].user
      BY FieldsOK DEF TypeInv, Request
    <2> HIDE DEF q
    <2>3. q \in GoodRequest
      BY <1>2, <2>2 DEF GoodRequest, RequestOK
    <2>4. RequestsOK' /\ Others(r) /\ req'[r] = q
      BY <2>1, <2>3, UpdateOK DEF TypeInv, Others
    <2> QED BY <1>2, <1>4, <2>2, <2>4 DEF Quiet, Calm, TypeInv, HoldsLock, Pay, rowVars
  <1> QED BY <1>5, <1>6

-----------------------------------------------------------------------------
(* The steps that are not quiet: joins, the start lock and promotions.      *)

\* The transaction of a join lets only admissible users reach its commit.
LEMMA JoinReadOK ==
    ASSUME TypeInv, NEW r \in Requests, JoinRead(r)
    PROVE  /\ TypeInv' /\ Others(r) /\ UNCHANGED Rest
           /\ ~HoldsLock(req'[r]) /\ req'[r].pc # "promoteSession"
           /\ req'[r].pc = "commit" /\ IsDuel => req'[r].user \in {session.host, Opponent}
  <1>1. /\ req[r].op = "join" /\ req[r].pc = "tx" /\ req[r].user \in Users /\ UNCHANGED Rest
    BY FieldsOK DEF TypeInv, RequestOK, JoinRead, At, Final, Rest
  <1>2. DataOK'
    BY <1>1, RestOK DEF TypeInv
  <1> DEFINE q == [req[r] EXCEPT !.pc = "commit", !.snap = Read]
  <1>3. \/ Finish(r, "refused") \/ Finish(r, "ok")
        \/ /\ Admissible(req[r].user, req[r].spect)
           /\ req' = [req EXCEPT ![r].pc = "commit", ![r].snap = Read]
    BY DEF JoinRead
  <1>4. ASSUME NEW pc \in Final, Finish(r, pc)
        PROVE  RequestsOK' /\ Others(r) /\ ~HoldsLock(req'[r]) /\ req'[r].pc \in Final
    BY <1>1, <1>4, FinishQuiet DEF HoldsLock
  <1>5. CASE Finish(r, "refused") \/ Finish(r, "ok")
    BY <1>1, <1>2, <1>4, <1>5 DEF TypeInv, Final
  <1>6. CASE /\ Admissible(req[r].user, req[r].spect)
             /\ req' = [req EXCEPT ![r].pc = "commit", ![r].snap = Read]
    <2>1. req' = [req EXCEPT ![r] = q]
      BY <1>6 DEF TypeInv, RequestsOK
    <2>2. Read \in Snapshot
      BY DEF Read, Snapshot, TypeInv, DataOK
    <2>3. q \in Request /\ q.op = "join" /\ q.pc = "commit" /\ q.user = req[r].user
      BY <1>1, <2>2, FieldsOK DEF TypeInv, Request, Steps
    <2> HIDE DEF q
    <2>4. q \in GoodRequest
      BY <1>1, <2>3 DEF GoodRequest, RequestOK
    <2>5. RequestsOK' /\ Others(r) /\ req'[r] = q
      BY <2>1, <2>4, UpdateOK DEF TypeInv, Others
    <2>6. IsDuel => req[r].user \in {session.host, Opponent}
      BY <1>6 DEF Admissible
    <2> QED BY <1>1, <1>2, <2>3, <2>5, <2>6 DEF TypeInv, HoldsLock
  <1> QED BY <1>3, <1>5, <1>6

\* The commit of a join adds the row of its user, and in a room leaves the session row.
LEMMA JoinCommitOK ==
    ASSUME TypeInv, NEW r \in Requests, JoinCommit(r)
    PROVE  /\ TypeInv' /\ Others(r) /\ ~HoldsLock(req'[r]) /\ req'[r].pc \in Final
           /\ session'.host = session.host /\ (~IsDuel => session' = session)
           /\ req[r].pc = "commit" /\ players' \subseteq players \cup {req[r].user}
           /\ UNCHANGED <<answered, answers, sweep>>
  <1> DEFINE u == req[r].user
             status == req[r].snap.session.status
  <1>1. /\ req[r].op = "join" /\ req[r].pc = "commit" /\ u \in Users
        /\ status \in Status /\ "READY" \in Status
    BY FieldsOK, SnapOK DEF TypeInv, RequestOK, JoinCommit, At, Final, Session, Status, Lobby
  <1>2. Finish(r, "refused") \/ Finish(r, "ok")
    BY DEF JoinCommit
  <1>3. RequestsOK' /\ Others(r) /\ ~HoldsLock(req'[r]) /\ req'[r].pc \in Final
    BY <1>1, <1>2, FinishQuiet DEF HoldsLock, Final
  <1>4. CASE u \in players
    <2>1. UNCHANGED Rest
      BY <1>4 DEF JoinCommit, Rest
    <2> QED BY <1>1, <1>3, <2>1, RestOK DEF TypeInv, Rest, rowVars, gameLog
  <1>5. CASE u \notin players
    <2>1. /\ players' = players \cup {u}
          /\ hostFlag' \in {hostFlag, hostFlag \cup {u}}
          /\ answersCount' = [answersCount EXCEPT ![u] = 0]
          /\ IF u = Opponent
             THEN SetStatus(IF status = "WAITING" THEN "READY" ELSE status)
             ELSE UNCHANGED session
          /\ UNCHANGED <<answered, expired, spectator, gameLog, sweep>>
      BY <1>5 DEF JoinCommit
    <2>2. /\ session' \in Session /\ session'.host = session.host
          /\ ~IsDuel => session' = session
      <3>1. CASE u = Opponent
        <4>1. IsDuel
          BY <1>1, <3>1, DuelUsers DEF IsDuel
        <4> QED BY <1>1, <2>1, <3>1, <4>1, SetStatusOK DEF TypeInv
      <3>2. CASE u # Opponent
        BY <2>1, <3>2 DEF TypeInv, DataOK
      <3> QED BY <3>1, <3>2
    <2> HIDE DEF u, status
    <2>3. DataOK'
      BY <1>1, <2>1, <2>2 DEF TypeInv, DataOK, gameLog
    <2> QED BY <1>1, <1>3, <2>1, <2>2, <2>3 DEF TypeInv, gameLog, u
  <1> QED BY <1>4, <1>5

\* The filtered update takes the lock in a lobby only, and leaves no lobby behind.
LEMMA StartLockOK ==
    ASSUME TypeInv, NEW r \in Requests, StartLock(r)
    PROVE  /\ TypeInv' /\ Others(r)
           /\ HoldsLock(req'[r]) => session.status \in Lobby
           /\ session'.status \notin Lobby /\ session'.host = session.host
           /\ req'[r].pc \notin {"commit", "promoteSession"}
           /\ UNCHANGED <<players, answered, answers, sweep>>
  <1>1. req[r].op = "start" /\ req[r].pc = "lock"
    BY DEF StartLock, At
  <1>2. CASE session.status \in Lobby
    <2>1. SetStatus("STARTING") /\ Goto(r, "check")
      BY <1>2 DEF StartLock
    <2>2. RequestsOK' /\ Others(r) /\ req'[r] = [req[r] EXCEPT !.pc = "check"]
      BY <1>1, <2>1, GotoOK DEF TypeInv, Others, Steps, StartSteps
    <2>3. req'[r].pc = "check"
      BY <2>2, FieldsOK DEF TypeInv, Request
    <2>4. /\ session' \in Session /\ session'.status = "STARTING"
          /\ session'.host = session.host
      BY <2>1, SetStatusOK DEF TypeInv, Status
    <2>5. DataOK'
      BY <2>4 DEF TypeInv, DataOK, StartLock, rowVars, gameLog
    <2> QED BY <1>2, <2>2, <2>3, <2>4, <2>5 DEF TypeInv, StartLock, rowVars, gameLog, Lobby
  <1>3. CASE session.status \notin Lobby
    <2>1. Finish(r, "refused") /\ UNCHANGED Rest
      BY <1>3 DEF StartLock, Rest
    <2>2. RequestsOK' /\ Others(r) /\ req'[r] = Returned("start", "refused")
      BY <1>1, <2>1, FinishOK DEF TypeInv, Others, Final
    <2>3. req'[r].pc = "refused" /\ ~HoldsLock(req'[r])
      BY <2>2, NewTypes DEF Request, Returned, HoldsLock, Held
    <2> QED BY <1>3, <2>1, <2>2, <2>3, RestOK DEF TypeInv, Rest, rowVars, gameLog
  <1> QED BY <1>2, <1>3

\* The user promoted by a departure has a row.
LEMMA LeavePromoteRowOK ==
    ASSUME TypeInv, NEW r \in Requests, LeavePromoteRow(r)
    PROVE  /\ TypeInv' /\ Others(r) /\ ~HoldsLock(req'[r])
           /\ req'[r].pc # "commit"
           /\ req'[r].pc = "promoteSession" => req'[r].target \in players
           /\ UNCHANGED <<session, players, answered, answers, sweep>>
  <1>1. req[r].op = "leave" /\ req[r].pc = "promoteRow" /\ req[r].user \in Users
    BY FieldsOK DEF TypeInv, RequestOK, LeavePromoteRow, At, Final
  <1>2. PICK w \in req[r].snap.players :
          IF w \in players
          THEN /\ hostFlag' = hostFlag \cup {w}
               /\ req' = [req EXCEPT ![r].pc = "promoteSession", ![r].target = w]
          ELSE Finish(r, "refused") /\ UNCHANGED hostFlag
    BY DEF LeavePromoteRow
  <1>3. DataOK'
    BY <1>2 DEF TypeInv, DataOK, LeavePromoteRow, gameLog
  <1>4. CASE w \in players
    <2> DEFINE q == [req[r] EXCEPT !.pc = "promoteSession", !.target = w]
    <2>1. req' = [req EXCEPT ![r] = q]
      BY <1>2, <1>4 DEF TypeInv, RequestsOK
    <2>2. w \in Users
      BY <1>4 DEF TypeInv, DataOK
    <2>3. /\ q \in Request /\ q.op = req[r].op /\ q.pc = "promoteSession"
          /\ q.user = req[r].user /\ q.target = w
      BY <2>2, FieldsOK, ZenonT(60) DEF TypeInv, Request, Steps, MaybeUser
    <2> HIDE DEF q
    <2>4. q \in GoodRequest
      BY <1>1, <2>2, <2>3 DEF GoodRequest, RequestOK
    <2>5. RequestsOK' /\ Others(r) /\ req'[r] = q
      BY <2>1, <2>4, UpdateOK DEF TypeInv, Others
    <2> QED BY <1>1, <1>3, <1>4, <2>3, <2>5
            DEF TypeInv, LeavePromoteRow, gameLog, HoldsLock
  <1>5. CASE w \notin players
    <2>1. /\ RequestsOK' /\ Others(r) /\ req'[r].pc \in Final
          /\ HoldsLock(req'[r]) => HoldsLock(req[r])
      BY <1>1, <1>2, <1>5, FinishQuiet DEF Final
    <2> QED BY <1>1, <1>3, <2>1
            DEF TypeInv, LeavePromoteRow, gameLog, HoldsLock, Final
  <1> QED BY <1>4, <1>5

\* The new host is the user the departure has promoted.
LEMMA LeavePromoteSessionOK ==
    ASSUME TypeInv, NEW r \in Requests, LeavePromoteSession(r)
    PROVE  /\ TypeInv' /\ Others(r) /\ ~HoldsLock(req'[r]) /\ req'[r].pc = "check"
           /\ req[r].pc = "promoteSession" /\ session'.host = req[r].target
           /\ session'.status = session.status
           /\ UNCHANGED <<players, answered, answers, sweep>>
  <1>1. /\ req[r].op = "leave" /\ req[r].pc = "promoteSession"
        /\ req[r].target \in Users
    BY FieldsOK DEF TypeInv, RequestOK, LeavePromoteSession, At
  <1>2. /\ RequestsOK' /\ Others(r) /\ req'[r].pc = "check"
        /\ HoldsLock(req'[r]) => HoldsLock(req[r])
    BY <1>1, GotoQuiet DEF LeavePromoteSession, Steps
  <1>3. /\ session' \in Session /\ session'.host = req[r].target
        /\ session'.status = session.status
    BY <1>1 DEF LeavePromoteSession, TypeInv, DataOK, Session
  <1>4. DataOK'
    BY <1>3 DEF LeavePromoteSession, TypeInv, DataOK, rowVars, gameLog
  <1> QED BY <1>1, <1>2, <1>3, <1>4
          DEF TypeInv, LeavePromoteSession, rowVars, gameLog, HoldsLock

-----------------------------------------------------------------------------
(* Every step of the system.                                                *)

\* A request that is sent does nothing but read, and so is quiet.
LEMMA CallQuiet ==
    ASSUME TypeInv, NEW r \in Requests, Call(r)
    PROVE  Quiet(r)
  <1>1. ASSUME NEW u \in Users, LobbyCall(r, u) PROVE Quiet(r)
    BY <1>1, StateLoadQuiet, JoinLoadQuiet, StartLoadQuiet, DeclineLoadQuiet, ThemeLoadQuiet,
       DelegateLoadQuiet, ToggleSpectatorQuiet DEF LobbyCall
  <1>2. ASSUME NEW u \in Users, GameCall(r, u) PROVE Quiet(r)
    BY <1>2, LeaveLoadQuiet, KickLoadQuiet, AnswerLoadQuiet DEF GameCall
  <1>3. ASSUME AnonymousCall(r) PROVE Quiet(r)
    BY <1>3, TimeoutLoadQuiet, AdvanceLoadQuiet DEF AnonymousCall
  <1> QED BY <1>1, <1>2, <1>3 DEF Call

\* A handler's step is quiet, or is one of the six that matter.
LEMMA StepCases ==
    ASSUME TypeInv, NEW r \in Requests, Step(r)
    PROVE  \/ Quiet(r)
           \/ AnswerWrite(r) \/ JoinRead(r) \/ JoinCommit(r) \/ StartLock(r)
           \/ LeavePromoteRow(r) \/ LeavePromoteSession(r)
  <1>1. CASE LobbyStep(r)
    BY <1>1, ExpireOnReadQuiet, JoinSpectatorQuiet, StartCheckQuiet, StartRunQuiet,
       StartResetQuiet, DeclineWriteQuiet, ThemeWriteQuiet, DelegateWriteQuiet DEF LobbyStep
  <1>2. CASE GameStep(r)
    BY <1>2, LeaveCancelQuiet, LeaveLobbyDeleteQuiet, LeaveChooserQuiet, LeaveGameDeleteQuiet,
       RereadQuiet, LeaveCountQuiet, LeaveForfeitQuiet, LeaveAbandonQuiet, LeaveCheckQuiet,
       KickDeleteQuiet, KickCountQuiet, AnswerGuardQuiet, AnswerLockQuiet, AnswerReadQuiet,
       AnswerCountQuiet, ConcludeQuiet, ConcludeRankQuiet, AdvanceIndexQuiet,
       AdvanceResetQuiet, AdvancePodiumQuiet, PayQuiet DEF GameStep
  <1> QED BY <1>1, <1>2 DEF Step

\* The clock, the Redis expiry and the cron leave every request, row and host alone,
\* and put no game back to the lobby.
LEMMA BackgroundOK ==
    ASSUME TypeInv, Environment \/ Sweeper
    PROVE  /\ TypeInv' /\ UNCHANGED <<req, players, answered, answers>>
           /\ session'.host = session.host
           /\ session'.status \in Lobby => session.status \in Lobby
           /\ sweep = "found" /\ sweep' = "idle" /\ session.status \notin Lobby
                => session' = session
  <1>1. CASE DeadlinePasses
    BY <1>1 DEF DeadlinePasses, TypeInv, DataOK, RequestsOK, rowVars, gameLog
  <1>2. CASE AnswerLockLapses
    BY <1>2 DEF AnswerLockLapses, TypeInv, DataOK, RequestsOK, rowVars
  <1>3. CASE SweepFind
    BY <1>3 DEF SweepFind, TypeInv, DataOK, RequestsOK, rowVars, gameLog
  <1>4. CASE SweepClose /\ session.status \in Lobby
    <2>1. /\ session' \in Session /\ session'.status = "EXPIRED"
          /\ session'.host = session.host
      BY <1>4, SetStatusOK DEF SweepClose, TypeInv, Status
    <2>2. DataOK'
      BY <1>4, <2>1 DEF SweepClose, TypeInv, DataOK, rowVars, gameLog
    <2> QED BY <1>4, <2>1, <2>2 DEF SweepClose, TypeInv, RequestsOK, rowVars, gameLog
  <1>5. CASE SweepClose /\ session.status \notin Lobby
    BY <1>5 DEF SweepClose, TypeInv, DataOK, RequestsOK, rowVars, gameLog
  <1> QED BY <1>1, <1>2, <1>3, <1>4, <1>5 DEF Environment, Sweeper

\* A stuttering step keeps the types.
LEMMA StutterOK == ASSUME TypeInv, UNCHANGED vars PROVE TypeInv'
  BY DEF TypeInv, DataOK, RequestsOK, vars, rowVars, gameLog

\* The types are kept by every step.
LEMMA TypeStep == TypeInv /\ [Next]_vars => TypeInv'
  <1> SUFFICES ASSUME TypeInv, [Next]_vars PROVE TypeInv' OBVIOUS
  <1>1. ASSUME NEW r \in Requests, Call(r) PROVE TypeInv'
    BY <1>1, CallQuiet DEF Quiet, Calm
  <1>2. ASSUME NEW r \in Requests, Step(r) PROVE TypeInv'
    BY <1>2, StepCases, AnswerWriteCalm, JoinReadOK, JoinCommitOK, StartLockOK,
       LeavePromoteRowOK, LeavePromoteSessionOK DEF Quiet, Calm
  <1>3. CASE Environment \/ Sweeper
    BY <1>3, BackgroundOK
  <1>4. CASE UNCHANGED vars
    BY <1>4, StutterOK
  <1> QED BY <1>1, <1>2, <1>3, <1>4 DEF Next

\* The requests that have not begun are good.
LEMMA NewRequestsOK == req = [r \in Requests |-> NewRequest] => RequestsOK
  <1>1. RequestOK(NewRequest)
    BY DEF RequestOK, NewRequest, Final
  <1> QED BY <1>1, NewTypes DEF RequestsOK, GoodRequest

\* The types hold of a game just created and of a game just started.
LEMMA TypeInit == StoreInit \/ StartedInit => TypeInv
  <1>1. 0 \in Index /\ "IN_PROGRESS" \in Status
    BY DuelBounds DEF Index, Status
  <1>2. CASE StoreInit
    <2>1. PICK c \in MaybeUser : session = [NewSession EXCEPT !.chooser = c]
      BY <1>2, DuelUsers DEF StoreInit, MaybeUser
    <2>2. session \in Session
      BY <2>1, NewTypes DEF Session
    <2> QED BY <1>2, <2>2, DuelUsers, NewRequestsOK DEF StoreInit, TypeInv, DataOK
  <1>3. CASE StartedInit
    <2>1. session \in Session
      BY <1>1, <1>3, NewTypes DEF StartedInit, Session
    <2> QED BY <1>3, <2>1, DuelUsers, NewRequestsOK DEF StartedInit, TypeInv, DataOK
  <1> QED BY <1>2, <1>3

\* Rows, keys and requests of a game keep their types, whatever the users, the
\* number of questions and the requests in flight: the index an advance writes
\* from a stale read is a question, and a handler writes only rows of users.
THEOREM TypeCorrect == Spec => []TypeOK
  <1>1. StoreInit => TypeInv
    BY TypeInit
  <1>2. TypeInv => TypeOK
    BY DEF TypeInv, DataOK, RequestsOK, GoodRequest, TypeOK, StoreTypeOK
  <1> QED BY <1>1, <1>2, TypeStep, PTL DEF Spec

\* The same of a game observed from its start.
THEOREM GameTypeCorrect == GameSpec => []TypeOK
  <1>1. StartedInit => TypeInv
    BY TypeInit
  <1>2. TypeInv => TypeOK
    BY DEF TypeInv, DataOK, RequestsOK, GoodRequest, TypeOK, StoreTypeOK
  <1> QED BY <1>1, <1>2, TypeStep, PTL DEF GameSpec

-----------------------------------------------------------------------------
(* The start lock of a room.                                                *)

RoomLock ==
    ~IsDuel =>
      /\ \A r \in Requests : HoldsLock(req[r]) => session.status \notin Lobby
      /\ \A r, s \in Requests : HoldsLock(req[r]) /\ HoldsLock(req[s]) => r = s

\* While a room has a lock holder it is no lobby, so the filtered update of
\* another start changes nothing; nothing else makes it a lobby again.
LEMMA RoomLockStep == TypeInv /\ RoomLock /\ [Next]_vars => RoomLock'
  <1> SUFFICES ASSUME TypeInv, RoomLock, [Next]_vars, ~IsDuel
               PROVE  /\ \A r \in Requests : HoldsLock(req'[r]) => session'.status \notin Lobby
                      /\ \A r, s \in Requests :
                           HoldsLock(req'[r]) /\ HoldsLock(req'[s]) => r = s
    BY DEF RoomLock, HoldsLock, IsDuel, Held, Lobby
  <1> DEFINE Goal == /\ \A r \in Requests : HoldsLock(req'[r]) => session'.status \notin Lobby
                     /\ \A r, s \in Requests :
                           HoldsLock(req'[r]) /\ HoldsLock(req'[s]) => r = s
  <1>1. ASSUME NEW r \in Requests, Others(r), HoldsLock(req'[r]) => HoldsLock(req[r]),
               session'.status \in Lobby => session.status \in Lobby
        PROVE  Goal
    BY <1>1 DEF RoomLock, Others
  <1>2. ASSUME NEW r \in Requests, StartLock(r) PROVE Goal
    BY <1>2, StartLockOK DEF RoomLock, Others
  <1>3. ASSUME NEW r \in Requests, Step(r) PROVE Goal
    <2>1. CASE Quiet(r) \/ AnswerWrite(r)
      BY <1>1, <2>1, AnswerWriteCalm DEF Quiet, Calm
    <2>2. CASE JoinRead(r) \/ JoinCommit(r)
      BY <1>1, <2>2, JoinReadOK, JoinCommitOK DEF Rest
    <2>3. CASE LeavePromoteRow(r) \/ LeavePromoteSession(r)
      BY <1>1, <2>3, LeavePromoteRowOK, LeavePromoteSessionOK
    <2> QED BY <1>2, <1>3, <2>1, <2>2, <2>3, StepCases
  <1>4. ASSUME NEW r \in Requests, Call(r) PROVE Goal
    BY <1>1, <1>4, CallQuiet DEF Quiet, Calm
  <1>5. CASE Environment \/ Sweeper
    BY <1>5, BackgroundOK DEF RoomLock
  <1>6. CASE UNCHANGED vars
    BY <1>6 DEF vars, RoomLock
  <1> QED BY <1>3, <1>4, <1>5, <1>6 DEF Next

\* No request holds the lock of a game just created.
LEMMA RoomLockInit == StoreInit => RoomLock
  BY DEF StoreInit, RoomLock, HoldsLock, NewRequest

\* The lock invariant holds throughout.
LEMMA RoomLockInv == Spec => []RoomLock
  BY TypeInit, TypeStep, RoomLockInit, RoomLockStep, PTL DEF Spec

\* The requests past the lock are its holders.
LEMMA PastTheLockHolds == \A r \in Requests : r \in PastTheLock <=> HoldsLock(req[r])
  BY DEF PastTheLock, HoldsLock, Held, At

\* The lock of startGame is taken by at most one request in the whole life of
\* a room, for every number of players and requests.
THEOREM OneStartHolds == Spec => []OneStart
  <1>1. RoomLock => OneStart
    BY PastTheLockHolds DEF RoomLock, OneStart, PastTheLock
  <1> QED BY <1>1, RoomLockInv, PTL

\* Nothing puts a room back to its lobby once a start has taken the lock.
THEOREM LockIsKeptHolds == Spec => []LockIsKept
  <1>1. RoomLock => LockIsKept
    BY PastTheLockHolds DEF RoomLock, LockIsKept, PastTheLock
  <1> QED BY <1>1, RoomLockInv, PTL

-----------------------------------------------------------------------------
(* The two players of a duel.                                               *)

Pair == {Host, Opponent}
DuelPair ==
    IsDuel =>
      /\ session.host \in Pair /\ players \subseteq Pair
      /\ \A r \in Requests : req[r].pc = "commit" => req[r].user \in Pair
      /\ \A r \in Requests : req[r].pc = "promoteSession" => req[r].target \in Pair

\* The host may change (a promotion) and the rows may come and go, but the
\* players a join admits and a promotion picks stay within the pair.
LEMMA DuelPairStep == TypeInv /\ DuelPair /\ [Next]_vars => DuelPair'
  <1> SUFFICES ASSUME TypeInv, DuelPair, [Next]_vars, IsDuel
               PROVE  DuelPair'
    BY DEF DuelPair, IsDuel
  <1>0. /\ session.host \in Pair /\ players \subseteq Pair
        /\ \A r \in Requests : req[r].pc = "commit" => req[r].user \in Pair
        /\ \A r \in Requests : req[r].pc = "promoteSession" => req[r].target \in Pair
    BY DEF DuelPair
  <1>1. ASSUME NEW r \in Requests, Others(r),
               session'.host \in Pair, players' \subseteq Pair,
               req'[r].pc = "commit" => req'[r].user \in Pair,
               req'[r].pc = "promoteSession" => req'[r].target \in Pair
        PROVE  DuelPair'
    BY <1>1 DEF DuelPair, Others, Pair, IsDuel
  <1>2. ASSUME NEW r \in Requests, Calm(r) PROVE DuelPair'
    BY <1>1, <1>2 DEF Calm, DuelPair
  <1>3. ASSUME NEW r \in Requests, Step(r) PROVE DuelPair'
    <2>1. CASE Quiet(r) \/ AnswerWrite(r)
      BY <1>2, <2>1, AnswerWriteCalm DEF Quiet
    <2>2. CASE JoinRead(r)
      BY <1>1, <2>2, JoinReadOK DEF Rest, rowVars, DuelPair, Pair
    <2>3. CASE JoinCommit(r)
      <3>1. /\ Others(r) /\ session'.host = session.host /\ req'[r].pc \in Final
            /\ req[r].pc = "commit" /\ players' \subseteq players \cup {req[r].user}
        BY <2>3, JoinCommitOK
      <3>2. req[r].user \in Pair
        BY <1>0, <3>1
      <3>3. session'.host \in Pair /\ players' \subseteq Pair
        BY <1>0, <3>1, <3>2
      <3> QED BY <1>1, <3>1, <3>3 DEF Final
    <2>4. CASE StartLock(r)
      BY <1>1, <2>4, StartLockOK DEF DuelPair
    <2>5. CASE LeavePromoteRow(r)
      BY <1>1, <2>5, LeavePromoteRowOK DEF DuelPair
    <2>6. CASE LeavePromoteSession(r)
      BY <1>1, <2>6, LeavePromoteSessionOK DEF DuelPair
    <2> QED BY <1>3, <2>1, <2>2, <2>3, <2>4, <2>5, <2>6, StepCases
  <1>4. ASSUME NEW r \in Requests, Call(r) PROVE DuelPair'
    BY <1>2, <1>4, CallQuiet DEF Quiet
  <1>5. CASE Environment \/ Sweeper
    BY <1>5, BackgroundOK DEF DuelPair, Pair, IsDuel
  <1>6. CASE UNCHANGED vars
    BY <1>6 DEF vars, rowVars, DuelPair, Pair, IsDuel
  <1> QED BY <1>3, <1>4, <1>5, <1>6 DEF Next

\* A duel never holds the row of a third user, however joins, kicks,
\* departures and promotions are interleaved.
THEOREM DuelPrivateHolds == Spec => []DuelPrivate
  <1>1. StoreInit => DuelPair
    <2> SUFFICES ASSUME StoreInit PROVE DuelPair
      OBVIOUS
    <2>1. session.host = Host
      BY DEF StoreInit, NewSession
    <2> QED BY <2>1 DEF StoreInit, DuelPair, Pair, NewRequest
  <1>2. DuelPair => DuelPrivate
    BY DEF DuelPair, DuelPrivate, Pair
  <1> QED BY <1>1, <1>2, TypeInit, TypeStep, DuelPairStep, PTL DEF Spec

-----------------------------------------------------------------------------
(* Answers and their flags.                                                 *)

\* A flag is raised only by the step that records an answer, and answers only grow.
LEMMA FlagStep == TypeInv /\ FlagHasAnswer /\ [Next]_vars => FlagHasAnswer'
  <1> SUFFICES ASSUME TypeInv, FlagHasAnswer, [Next]_vars PROVE FlagHasAnswer'
    OBVIOUS
  <1>1. ASSUME answered' \subseteq answered, answers' = answers PROVE FlagHasAnswer'
    BY <1>1 DEF FlagHasAnswer, Index
  <1>2. ASSUME NEW r \in Requests, AnswerWrite(r) PROVE FlagHasAnswer'
    <2> DEFINE u == req[r].user
               i == req[r].snap.session.index
    <2>1. u \in Users /\ i \in Index
      BY <1>2, FieldsOK, SnapOK DEF TypeInv, RequestOK, AnswerWrite, At, Final
    <2>2. CASE u \in players
      <3>1. answers' = [answers EXCEPT ![u][i] = @ + 1] /\ answered' = answered \cup {u}
        BY <1>2, <2>2 DEF AnswerWrite
      <3> HIDE DEF u, i
      <3>2. \A v \in Users : \A j \in Index : answers[v][j] > 0 => answers'[v][j] > 0
        BY <2>1, <3>1 DEF TypeInv, DataOK
      <3>3. answers'[u][i] > 0
        BY <2>1, <3>1 DEF TypeInv, DataOK
      <3>4. answered \subseteq Users
        BY DEF TypeInv, DataOK
      <3> QED BY <2>1, <3>1, <3>2, <3>3, <3>4 DEF FlagHasAnswer, Index
    <2>3. CASE u \notin players
      BY <1>1, <1>2, <2>3 DEF AnswerWrite
    <2> QED BY <2>2, <2>3
  <1>3. ASSUME NEW r \in Requests, Step(r) PROVE FlagHasAnswer'
    BY <1>1, <1>2, <1>3, StepCases, JoinReadOK, JoinCommitOK, StartLockOK, LeavePromoteRowOK,
       LeavePromoteSessionOK DEF Quiet, Rest, rowVars, gameLog
  <1>4. ASSUME NEW r \in Requests, Call(r) PROVE FlagHasAnswer'
    BY <1>1, <1>4, CallQuiet DEF Quiet
  <1>5. CASE Environment \/ Sweeper
    BY <1>1, <1>5, BackgroundOK
  <1>6. CASE UNCHANGED vars
    BY <1>1, <1>6 DEF vars, rowVars, gameLog
  <1> QED BY <1>3, <1>4, <1>5, <1>6 DEF Next

\* hasAnsweredCurrent is never set for a player without a recorded answer.
THEOREM FlagHasAnswerHolds == GameSpec => []FlagHasAnswer
  <1>1. StartedInit => FlagHasAnswer
    BY DEF StartedInit, FlagHasAnswer
  <1> QED BY <1>1, TypeInit, TypeStep, FlagStep, PTL DEF GameSpec

-----------------------------------------------------------------------------
(* The expiration cron.                                                     *)

\* The update of the sweep is filtered on the lobby statuses, so it leaves a
\* game that started, ended or was cancelled after the sweep had found it.
THEOREM SweepSparesHolds == Spec => SweepSparesStartedGames
  <1> DEFINE Sweeps == sweep = "found" /\ sweep' = "idle" /\ session.status \notin Lobby
                         => session' = session
  <1>1. TypeInv /\ [Next]_vars => [Sweeps]_vars
    <2> SUFFICES ASSUME TypeInv, [Next]_vars PROVE Sweeps
      OBVIOUS
    <2>1. ASSUME NEW r \in Requests, Step(r) PROVE sweep' = sweep
      BY <2>1, StepCases, AnswerWriteCalm, JoinReadOK, JoinCommitOK, StartLockOK,
         LeavePromoteRowOK, LeavePromoteSessionOK DEF Quiet, Calm, Rest
    <2>2. ASSUME NEW r \in Requests, Call(r) PROVE sweep' = sweep
      BY <2>2, CallQuiet DEF Quiet, Calm
    <2>3. CASE Environment \/ Sweeper
      BY <2>3, BackgroundOK
    <2>4. CASE UNCHANGED vars
      BY <2>4 DEF vars
    <2> QED BY <2>1, <2>2, <2>3, <2>4 DEF Next
  <1> QED BY <1>1, TypeInit, TypeStep, PTL DEF Spec, SweepSparesStartedGames

-----------------------------------------------------------------------------
(* A game that has started.                                                 *)

Over == {"FINISHED", "CANCELLED", "EXPIRED"}

\* The points of a handler that only a lobby lets it reach
LobbyPoint(q) == \/ q.pc \in {"commit", "lock", "run", "write", "cancel", "lobbyDelete", "chooser"}
                 \/ q.op = "start" /\ q.pc \in {"check", "reset"}

\* A started game does not become a lobby again, and is over for good.
StartedInv ==
    /\ session.status \in Over \cup {"IN_PROGRESS"}
    /\ \A r \in Requests : ~LobbyPoint(req[r])

\* XP is paid by the handler that ended the game.
PaidInv ==
    /\ PaidWhenOver
    /\ \A r \in Requests : req[r].pc = "pay" => session.status \in Over

\* The contenders that a handler has read
SeenBy(q) == Contenders(spectator, q.snap.players, q.snap.hostFlag)

\* How a handler goes on, or returns
Same(q, old) == /\ q.op = old.op /\ q.user = old.user /\ q.target = old.target
                /\ q.snap = old.snap /\ q.unpaid = old.unpaid
GoesTo(r, pc) == /\ Others(r) /\ Same(req'[r], req[r]) /\ req'[r].pc = pc
                 /\ req'[r].spect = req[r].spect /\ req'[r].wasHost = req[r].wasHost
Returns(r) == Others(r) /\ req'[r].op = req[r].op /\ req'[r].pc \in Final
Begins(r, op, u, pc) ==
    /\ req[r].pc = "new" /\ Others(r) /\ req'[r].op = op /\ req'[r].pc = pc /\ op \in Ops
    /\ pc \notin Final => req'[r].user = u /\ req'[r].snap = Read

\* Goto changes the point of its request only.
LEMMA GotoIs ==
    ASSUME TypeInv, NEW r \in Requests, NEW pc, Goto(r, pc)
    PROVE  GoesTo(r, pc)
  <1> DEFINE q == [req[r] EXCEPT !.pc = pc]
  <1>1. req' = [req EXCEPT ![r] = q]
    BY DEF Goto, TypeInv, RequestsOK
  <1>2. Same(q, req[r]) /\ q.pc = pc /\ q.spect = req[r].spect /\ q.wasHost = req[r].wasHost
    BY FieldsOK DEF TypeInv, Request, Same
  <1> HIDE DEF q
  <1>3. req'[r] = q /\ Others(r)
    BY <1>1 DEF TypeInv, RequestsOK, Others
  <1> QED BY <1>2, <1>3 DEF GoesTo

\* Finish returns, and forgets what the request had read.
LEMMA FinishIs ==
    ASSUME TypeInv, NEW r \in Requests, NEW pc \in Final, Finish(r, pc)
    PROVE  Returns(r) /\ req'[r].pc = pc
  <1>1. req'[r] = Returned(req[r].op, pc) /\ Others(r)
    BY FinishOK DEF TypeInv, Others
  <1>2. req'[r].op = req[r].op /\ req'[r].pc = pc
    BY <1>1, NewTypes DEF Returned, Request
  <1> QED BY <1>1, <1>2 DEF Returns

\* GotoOrFinish does one of the two.
LEMMA GotoOrFinishIs ==
    ASSUME TypeInv, NEW r \in Requests, NEW pc, GotoOrFinish(r, pc)
    PROVE  IF pc \in Final THEN Returns(r) /\ req'[r].pc = pc ELSE GoesTo(r, pc)
  BY GotoIs, FinishIs DEF GotoOrFinish

\* Announce goes on to conclude the round, or returns and leaves it open.
Told(r) == /\ Returns(r) /\ req'[r].pc = "told"
           /\ req'[r].snap.session.index = session.index
LEMMA AnnounceIs ==
    ASSUME TypeInv, NEW r \in Requests, Announce(r)
    PROVE  GoesTo(r, "conclude") \/ Told(r)
  <1>1. CASE Goto(r, "conclude")
    BY <1>1, GotoIs
  <1>2. CASE req' = [req EXCEPT ![r] = ToldOf(req[r])]
    BY <1>2, ToldOK DEF TypeInv, RequestsOK, Others, Told, Returns, Final
  <1> QED BY <1>1, <1>2 DEF Announce, ToldOf

\* Begin is taken by a request that was not sent, which then holds what it has read.
LEMMA BeginIs ==
    ASSUME TypeInv, NEW r \in Requests, NEW op, NEW u, NEW v, NEW pc, Begin(r, op, u, v, pc)
    PROVE  Begins(r, op, u, pc)
  <1> DEFINE q == IF pc \in Final THEN Returned(op, pc)
                  ELSE [NewRequest EXCEPT !.op = op, !.user = u, !.target = v,
                                          !.pc = pc, !.snap = Read]
  <1>1. q.op = op /\ q.pc = pc /\ (pc \notin Final => q.user = u /\ q.snap = Read)
    BY DEF NewRequest, Returned
  <1>2. req' = [req EXCEPT ![r] = q] /\ op \in Ops /\ req[r].pc = "new"
    BY DEF Begin
  <1> HIDE DEF q
  <1>3. req'[r] = q /\ Others(r)
    BY <1>2 DEF TypeInv, RequestsOK, Others
  <1> QED BY <1>1, <1>2, <1>3 DEF Begins

\* What Reread reads again and what it keeps.
LEMMA RereadIs ==
    ASSUME TypeInv, NEW r \in Requests, Reread(r)
    PROVE  LET q == req'[r]
               old == req[r]
           IN
           /\ Others(r) /\ UNCHANGED Rest
           /\ old.op \in {"leave", "kick"} /\ old.pc = "reread"
           /\ q.op = old.op /\ q.user = old.user /\ q.pc = "count"
           /\ q.snap.session = old.snap.session /\ q.snap.players = players
           /\ q.snap.hostFlag = hostFlag /\ q.snap.answered = answered
           /\ q.wasHost <=> old.snap.session.host = old.user \/ old.user \in old.snap.hostFlag
  <1> DEFINE host == req[r].snap.session.host = req[r].user \/ req[r].user \in req[r].snap.hostFlag
             snap == [Read EXCEPT !.session = req[r].snap.session]
             q == [req[r] EXCEPT !.snap = snap, !.wasHost = host, !.pc = "count"]
  <1>1. /\ req' = [req EXCEPT ![r].snap = snap, ![r].wasHost = host, ![r].pc = "count"]
        /\ UNCHANGED Rest /\ At(r, {"leave", "kick"}, "reread")
    BY ZenonT(60) DEF Reread, Rest
  <1>2. /\ snap.session = req[r].snap.session /\ snap.players = players
        /\ snap.hostFlag = hostFlag /\ snap.answered = answered
    BY DEF Read
  <1>3. host <=> \/ req[r].snap.session.host = req[r].user
                 \/ req[r].user \in req[r].snap.hostFlag
    OBVIOUS
  <1> HIDE DEF snap, host
  <1>4. req' = [req EXCEPT ![r] = q]
    BY <1>1, ThreeFields DEF TypeInv
  <1>5. /\ q.op = req[r].op /\ q.user = req[r].user /\ q.pc = "count"
        /\ q.snap = snap /\ q.wasHost = host
    BY FieldsOK DEF TypeInv, Request
  <1> HIDE DEF q
  <1>6. req'[r] = q /\ Others(r)
    BY <1>4 DEF TypeInv, RequestsOK, Others
  <1> QED BY <1>1, <1>2, <1>3, <1>5, <1>6 DEF At

\* How a departure goes on once it has counted the contenders.
LEMMA LeaveCountIs ==
    ASSUME TypeInv, NEW r \in Requests, LeaveCount(r)
    PROVE  LET q == req'[r]
               old == req[r]
               left == Contenders(spectator, old.snap.players, old.snap.hostFlag)
           IN
           /\ Others(r) /\ UNCHANGED Rest
           /\ old.op = "leave" /\ old.pc = "count"
           /\ q.op = old.op /\ q.user = old.user /\ q.snap = old.snap /\ q.unpaid = left
           /\ q.pc \in {"forfeit", "abandon", "promoteRow", "check"}
           /\ Cardinality(left) = 1 \/ left = {} => q.pc \in {"forfeit", "abandon"}
           /\ q.pc = "abandon" => left = {}
           /\ q.pc = "promoteRow" => old.wasHost
  <1> DEFINE left == Contenders(spectator, req[r].snap.players, req[r].snap.hostFlag)
             pc == CASE Cardinality(left) = 1 -> "forfeit"
                     [] left = {} -> "abandon"
                     [] OTHER -> IF req[r].wasHost THEN "promoteRow" ELSE "check"
             q == [req[r] EXCEPT !.unpaid = left, !.pc = pc]
  <1>1. /\ req' = [req EXCEPT ![r].unpaid = left, ![r].pc = pc]
        /\ UNCHANGED Rest /\ At(r, {"leave"}, "count")
    BY ZenonT(60) DEF LeaveCount, Rest
  <1> HIDE DEF left
  <1>2. /\ pc \in {"forfeit", "abandon", "promoteRow", "check"}
        /\ Cardinality(left) = 1 \/ left = {} => pc \in {"forfeit", "abandon"}
        /\ pc = "abandon" => left = {}
        /\ pc = "promoteRow" => req[r].wasHost
    OBVIOUS
  <1> HIDE DEF pc
  <1>3. req' = [req EXCEPT ![r] = q]
    BY <1>1, TwoFields DEF TypeInv
  <1>4. /\ q.op = req[r].op /\ q.user = req[r].user /\ q.pc = pc
        /\ q.snap = req[r].snap /\ q.unpaid = left
    BY FieldsOK DEF TypeInv, Request
  <1> HIDE DEF q
  <1>5. req'[r] = q /\ Others(r)
    BY <1>3 DEF TypeInv, RequestsOK, Others
  <1> QED BY <1>1, <1>2, <1>4, <1>5 DEF At, left

\* An answer returns at the guard, concludes, or goes on with the spectator key as it is.
LEMMA AnswerGuardIs ==
    ASSUME TypeInv, NEW r \in Requests, AnswerGuard(r)
    PROVE  /\ UNCHANGED Rest /\ req[r].op = "answer" /\ req[r].pc = "guard"
           /\ \/ Returns(r)
              \/ /\ Others(r) /\ req'[r].op = "answer"
                 /\ \/ req'[r].pc = "conclude"
                    \/ req'[r].pc = "answerLock" /\ req'[r].spect = spectator
  <1>1. UNCHANGED Rest /\ req[r].op = "answer" /\ req[r].pc = "guard"
    BY AnswerGuardCases
  <1>2. ASSUME NEW pc \in {"refused", "ok"}, Finish(r, pc) PROVE Returns(r)
    BY <1>2, FinishIs DEF Final
  <1>3. CASE Announce(r)
    BY <1>1, <1>3, AnnounceIs DEF Told, GoesTo, Same
  <1>4. CASE req' = [req EXCEPT ![r].pc = "answerLock", ![r].spect = spectator]
    <2> DEFINE q == [req[r] EXCEPT !.pc = "answerLock", !.spect = spectator]
    <2>1. req' = [req EXCEPT ![r] = q]
      BY <1>4 DEF TypeInv, RequestsOK
    <2>2. q.op = req[r].op /\ q.pc = "answerLock" /\ q.spect = spectator
      BY FieldsOK DEF TypeInv, Request
    <2> HIDE DEF q
    <2> QED BY <1>1, <2>1, <2>2 DEF TypeInv, RequestsOK, Others
  <1> QED BY <1>1, <1>2, <1>3, <1>4, AnswerGuardCases

\* A conclusion reads the session and the rows.
LEMMA ConcludeIs ==
    ASSUME TypeInv, NEW r \in Requests, Conclude(r)
    PROVE  /\ UNCHANGED Rest /\ Others(r) /\ req[r].pc = "conclude"
           /\ req'[r].op = req[r].op /\ req'[r].pc = "rank" /\ req'[r].snap = Read
  <1> DEFINE q == [req[r] EXCEPT !.pc = "rank", !.snap = Read]
  <1>1. req' = [req EXCEPT ![r] = q] /\ UNCHANGED Rest /\ req[r].pc = "conclude"
    BY DEF Conclude, Rest, TypeInv, RequestsOK
  <1>2. q.op = req[r].op /\ q.pc = "rank" /\ q.snap = Read
    BY FieldsOK DEF TypeInv, Request
  <1> HIDE DEF q
  <1>3. req'[r] = q /\ Others(r)
    BY <1>1 DEF TypeInv, RequestsOK, Others
  <1> QED BY <1>1, <1>2, <1>3

\* It marks the round that it has read, unless a row that it ranks is gone.
LEMMA ConcludeRankIs ==
    ASSUME TypeInv, NEW r \in Requests, ConcludeRank(r)
    PROVE  /\ Returns(r) /\ req[r].pc = "rank"
           /\ UNCHANGED <<session, expired, spectator, rowVars, answers, answerLocks, xp, sweep>>
           /\ \/ concluded' = concluded \cup {req[r].snap.session.index}
              \/ concluded' = concluded /\ ~(SeenBy(req[r]) \subseteq players)
  BY FinishIs DEF ConcludeRank, SeenBy, Final

\* A promotion flags a row, unless it is gone.
LEMMA PromoteRowIs ==
    ASSUME TypeInv, NEW r \in Requests, LeavePromoteRow(r)
    PROVE  /\ UNCHANGED <<session, expired, spectator, players, answered, answersCount,
                          gameLog, sweep>>
           /\ Others(r) /\ req[r].op = "leave" /\ req[r].pc = "promoteRow"
           /\ req'[r].op = req[r].op
           /\ \/ /\ req'[r].pc = "refused" /\ hostFlag' = hostFlag
                 /\ ~(req[r].snap.players \subseteq players)
              \/ /\ req'[r].pc = "promoteSession" /\ req'[r].snap = req[r].snap
                 /\ req'[r].unpaid = req[r].unpaid
  <1>1. PICK w \in req[r].snap.players :
           IF w \in players
           THEN /\ hostFlag' = hostFlag \cup {w}
                /\ req' = [req EXCEPT ![r].pc = "promoteSession", ![r].target = w]
           ELSE Finish(r, "refused") /\ UNCHANGED hostFlag
    BY DEF LeavePromoteRow
  <1>2. /\ UNCHANGED <<session, expired, spectator, players, answered, answersCount,
                       gameLog, sweep>>
        /\ req[r].op = "leave" /\ req[r].pc = "promoteRow"
    BY DEF LeavePromoteRow, At
  <1>3. CASE w \notin players
    BY <1>1, <1>2, <1>3, FinishIs DEF Returns, Final
  <1>4. CASE w \in players
    <2> DEFINE q == [req[r] EXCEPT !.pc = "promoteSession", !.target = w]
    <2>1. req' = [req EXCEPT ![r] = q]
      BY <1>1, <1>4 DEF TypeInv, RequestsOK
    <2>2. /\ q.op = req[r].op /\ q.pc = "promoteSession"
          /\ q.snap = req[r].snap /\ q.unpaid = req[r].unpaid
      BY FieldsOK DEF TypeInv, Request
    <2> HIDE DEF q
    <2>3. req'[r] = q /\ Others(r)
      BY <2>1 DEF TypeInv, RequestsOK, Others
    <2> QED BY <1>2, <2>2, <2>3
  <1> QED BY <1>3, <1>4

\* A podium finishes the game.
LEMMA PodiumIs ==
    ASSUME TypeInv, NEW r \in Requests, AdvancePodium(r)
    PROVE  /\ session'.status = "FINISHED" /\ UNCHANGED <<rowVars, gameLog, sweep>>
           /\ Others(r) /\ req'[r].op = req[r].op /\ req'[r].pc \in Final \cup {"pay"}
  <1> DEFINE ranked == Contenders(spectator, req[r].snap.players, req[r].snap.hostFlag)
             winners == CASE ranked = {} -> {NoUser}
                          [] Cardinality(ranked) = 2 -> ranked \cup {NoUser}
                          [] OTHER -> ranked
             q == [req[r] EXCEPT !.unpaid = ranked, !.pc = "pay"]
  <1>1. /\ \E w \in winners : session' = [session EXCEPT !.status = "FINISHED", !.winner = w]
        /\ IF ranked = {} THEN Finish(r, "ok")
           ELSE req' = [req EXCEPT ![r].unpaid = ranked, ![r].pc = "pay"]
        /\ UNCHANGED <<rowVars, gameLog, sweep>>
    BY ZenonT(60) DEF AdvancePodium
  <1> HIDE DEF ranked, winners
  <1>2. session'.status = "FINISHED"
    BY <1>1 DEF TypeInv, DataOK, Session
  <1>3. CASE ranked = {}
    BY <1>1, <1>2, <1>3, FinishIs DEF Returns, Final
  <1>4. CASE ranked # {}
    <2>1. req' = [req EXCEPT ![r] = q]
      BY <1>1, <1>4, TwoFields DEF TypeInv
    <2>2. q.op = req[r].op /\ q.pc = "pay"
      BY FieldsOK DEF TypeInv, Request
    <2> HIDE DEF q
    <2>3. req'[r] = q /\ Others(r)
      BY <2>1 DEF TypeInv, RequestsOK, Others
    <2> QED BY <1>1, <1>2, <2>2, <2>3
  <1> QED BY <1>3, <1>4

\* A payment changes nothing but the XP and what is left to pay.
LEMMA PayIs ==
    ASSUME TypeInv, NEW r \in Requests, Pay(r)
    PROVE  /\ UNCHANGED <<session, expired, spectator, rowVars, answers, answerLocks,
                          concluded, sweep>>
           /\ req[r].pc = "pay" /\ Others(r) /\ req'[r].op = req[r].op
           /\ req'[r].pc \in Final \cup {"pay"}
  <1>1. PICK p \in req[r].unpaid :
           IF req[r].unpaid = {p} THEN Finish(r, "ok")
           ELSE req' = [req EXCEPT ![r].unpaid = @ \ {p}]
    BY DEF Pay
  <1>2. /\ UNCHANGED <<session, expired, spectator, rowVars, answers, answerLocks,
                       concluded, sweep>>
        /\ req[r].pc = "pay"
    BY DEF Pay
  <1>3. CASE req[r].unpaid = {p}
    BY <1>1, <1>2, <1>3, FinishIs DEF Returns, Final
  <1>4. CASE req[r].unpaid # {p}
    <2> DEFINE q == [req[r] EXCEPT !.unpaid = @ \ {p}]
    <2>1. req' = [req EXCEPT ![r] = q]
      BY <1>1, <1>4 DEF TypeInv, RequestsOK
    <2>2. q.op = req[r].op /\ q.pc = req[r].pc
      BY FieldsOK DEF TypeInv, Request
    <2> HIDE DEF q
    <2>3. req'[r] = q /\ Others(r)
      BY <2>1 DEF TypeInv, RequestsOK, Others
    <2> QED BY <1>2, <2>2, <2>3
  <1> QED BY <1>3, <1>4

\* What a call finds in a started game
CallPoint(op, u, pc) ==
    \/ pc \in Final
    \/ op = "leave" /\ pc = "gameDelete" /\ u \in players
    \/ op = "leave" /\ pc = "reread" /\ u \notin players
    \/ op = "kick" /\ pc = "delete"
    \/ op = "answer" /\ pc = "guard"
    \/ op = "timeout" /\ pc = "conclude"
    \/ op = "advance" /\ pc \in {"advance", "podium"}
    \/ op = "join" /\ pc = "spectator"
    \/ op = "start" /\ pc = "expire"

\* A call changes no row of a started game; only a toggle changes the spectator key.
LEMMA StartedCalls ==
    ASSUME TypeInv, StartedInv, NEW r \in Requests, Call(r)
    PROVE  /\ UNCHANGED <<session, expired, rowVars, gameLog, sweep>>
           /\ spectator' = spectator \/ "toggle" \in Ops
           /\ \E op, u, pc : Begins(r, op, u, pc) /\ CallPoint(op, u, pc)
  <1> DEFINE Good == /\ UNCHANGED <<session, expired, rowVars, gameLog, sweep>>
                     /\ spectator' = spectator \/ "toggle" \in Ops
                     /\ \E op, u, pc : Begins(r, op, u, pc) /\ CallPoint(op, u, pc)
  <1>0. session.status \notin Lobby
    BY DEF StartedInv, Over, Lobby
  <1>1. ASSUME NEW u \in Users, LeaveLoad(r, u) PROVE Good
    <2> DEFINE pc == CASE session.status = "WAITING" ->
                            IF IsHost(u) THEN "cancel"
                            ELSE IF u \in players THEN "lobbyDelete"
                            ELSE IF session.chooser = u THEN "chooser" ELSE "ok"
                       [] session.status = "IN_PROGRESS" ->
                            IF u \in players THEN "gameDelete" ELSE "reread"
                       [] OTHER -> "ok"
    <2>1. Begin(r, "leave", u, NoUser, pc) /\ UNCHANGED Rest
      BY <1>1 DEF LeaveLoad, Rest
    <2>2. \/ pc = "ok"
          \/ session.status = "IN_PROGRESS" /\ pc = "gameDelete" /\ u \in players
          \/ session.status = "IN_PROGRESS" /\ pc = "reread" /\ u \notin players
      BY <1>0 DEF Lobby
    <2> HIDE DEF pc
    <2>3. Begins(r, "leave", u, pc)
      BY <2>1, BeginIs
    <2>4. CallPoint("leave", u, pc)
      BY <2>2 DEF CallPoint, Final
    <2> QED BY <2>1, <2>2, <2>3, <2>4 DEF Rest
  <1>2. ASSUME NEW u \in Users, NEW v \in Users, KickLoad(r, u, v) PROVE Good
    <2>1. PICK pc \in {"delete", "refused"} : Begin(r, "kick", u, v, pc)
      BY <1>2 DEF KickLoad
    <2>2. Begins(r, "kick", u, pc) /\ CallPoint("kick", u, pc)
      BY <2>1, BeginIs DEF CallPoint, Final
    <2> QED BY <1>2, <2>2 DEF KickLoad
  <1>3. ASSUME NEW u \in Users, AnswerLoad(r, u) PROVE Good
    <2>1. PICK pc \in {"guard", "refused"} : Begin(r, "answer", u, NoUser, pc)
      BY <1>3 DEF AnswerLoad
    <2>2. Begins(r, "answer", u, pc) /\ CallPoint("answer", u, pc)
      BY <2>1, BeginIs DEF CallPoint, Final
    <2> QED BY <1>3, <2>2 DEF AnswerLoad
  <1>4. ASSUME TimeoutLoad(r) PROVE Good
    <2>1. Begins(r, "timeout", NoUser, "conclude") /\ CallPoint("timeout", NoUser, "conclude")
      BY <1>4, BeginIs DEF TimeoutLoad, CallPoint
    <2> QED BY <1>4, <2>1 DEF TimeoutLoad
  <1>5. ASSUME AdvanceLoad(r) PROVE Good
    <2>1. PICK pc \in {"advance", "podium"} : Begin(r, "advance", NoUser, NoUser, pc)
      BY <1>5 DEF AdvanceLoad
    <2>2. Begins(r, "advance", NoUser, pc) /\ CallPoint("advance", NoUser, pc)
      BY <2>1, BeginIs DEF CallPoint
    <2> QED BY <1>5, <2>2 DEF AdvanceLoad
  <1>6. ASSUME NEW u \in Users, StateLoad(r, u) \/ DeclineLoad(r, u) \/ ThemeLoad(r, u)
                  \/ \E v \in Users : DelegateLoad(r, u, v)
        PROVE  Good
    <2>1. PICK op \in {"state", "decline", "theme", "delegate"}, pc \in {"ok", "refused"},
               v \in MaybeUser : Begin(r, op, u, v, pc)
      BY <1>0, <1>6 DEF StateLoad, DeclineLoad, ThemeLoad, DelegateLoad, Lobby, MaybeUser
    <2>2. Begins(r, op, u, pc) /\ CallPoint(op, u, pc)
      BY <2>1, BeginIs DEF CallPoint, Final
    <2> QED BY <1>6, <2>2 DEF StateLoad, DeclineLoad, ThemeLoad, DelegateLoad
  <1>7. ASSUME NEW u \in Users, JoinLoad(r, u) PROVE Good
    <2> DEFINE pc == CASE Lapsed /\ session.status \in Lobby -> "expire"
                       [] \/ Lapsed /\ session.status \notin Lobby
                          \/ session.status \in {"CANCELLED", "FINISHED"} -> "refused"
                       [] OTHER -> "spectator"
    <2>1. Begin(r, "join", u, NoUser, pc) /\ UNCHANGED Rest
      BY <1>7 DEF JoinLoad, Rest
    <2>2. pc \in {"refused", "spectator"}
      BY <1>0
    <2> HIDE DEF pc
    <2>3. Begins(r, "join", u, pc) /\ CallPoint("join", u, pc)
      BY <2>1, <2>2, BeginIs DEF CallPoint, Final
    <2> QED BY <2>1, <2>3 DEF Rest
  <1>8. ASSUME NEW u \in Users, StartLoad(r, u) PROVE Good
    <2> DEFINE pc == CASE ~IsHost(u) -> "refused"
                       [] IsHost(u) /\ Lapsed -> "expire"
                       [] OTHER -> IF session.status \in Lobby THEN "lock" ELSE "refused"
    <2>1. Begin(r, "start", u, NoUser, pc) /\ UNCHANGED Rest
      BY <1>8 DEF StartLoad, Rest
    <2>2. pc \in {"refused", "expire"}
      BY <1>0
    <2> HIDE DEF pc
    <2>3. Begins(r, "start", u, pc) /\ CallPoint("start", u, pc)
      BY <2>1, <2>2, BeginIs DEF CallPoint, Final
    <2> QED BY <2>1, <2>3 DEF Rest
  <1>9. ASSUME NEW u \in Users, NEW on \in BOOLEAN, ToggleSpectator(r, u, on) PROVE Good
    <2>1. PICK pc \in {"ok", "refused"} : Begin(r, "toggle", u, NoUser, pc)
      BY <1>9 DEF ToggleSpectator
    <2>2. Begins(r, "toggle", u, pc) /\ CallPoint("toggle", u, pc)
      BY <2>1, BeginIs DEF CallPoint, Final
    <2>3. "toggle" \in Ops
      BY <2>2 DEF Begins
    <2> QED BY <1>9, <2>2, <2>3 DEF ToggleSpectator
  <1> HIDE DEF Good
  <1>10. Good
    BY <1>1, <1>2, <1>3, <1>4, <1>5, <1>6, <1>7, <1>8, <1>9
       DEF Call, LobbyCall, GameCall, AnonymousCall
  <1> QED BY <1>10 DEF Good

\* What a step does to a started game whatever it is
GoodStep(r) ==
    /\ Others(r) /\ req'[r].op = req[r].op /\ ~LobbyPoint(req'[r]) /\ players' \subseteq players
    /\ session'.status = session.status \/ session'.status \in Over
    /\ spectator' = spectator \/ session'.status \in Over
    /\ req'[r].pc = "pay" => req[r].pc = "pay" \/ session'.status \in Over
    /\ xp' = xp \/ req[r].pc = "pay"

\* The points of a started game that a handler goes on to are not of the lobby.
LEMMA GoesToPoint ==
    ASSUME NEW r, NEW pc, GoesTo(r, pc), pc \in {"tx", "reread", "check", "pay", "answerRead",
               "answerWrite", "count", "conclude", "reset"}, req[r].op # "start"
    PROVE  /\ Others(r) /\ req'[r].op = req[r].op /\ ~LobbyPoint(req'[r])
           /\ req'[r].pc = pc
  BY DEF GoesTo, Same, LobbyPoint

\* Nor is a result.
LEMMA ReturnsToNoPoint ==
    ASSUME NEW r, Returns(r)
    PROVE  /\ Others(r) /\ req'[r].op = req[r].op /\ ~LobbyPoint(req'[r])
           /\ req'[r].pc # "pay"
  BY DEF Returns, LobbyPoint, Final

\* Every step of a started game is good: no handler of the lobby gets further.
LEMMA StartedSteps ==
    ASSUME TypeInv, StartedInv, NEW r \in Requests, Step(r)
    PROVE  GoodStep(r)
  <1>0. /\ ~LobbyPoint(req[r]) /\ session.status \notin Lobby /\ session \in Session
        /\ req[r].pc \in Steps \cup Final
    BY FieldsOK DEF StartedInv, Over, Lobby, TypeInv, DataOK
  <1>1. CASE ExpireOnRead(r)
    <2>1. Returns(r)
      BY <1>1, FinishIs DEF ExpireOnRead, Final
    <2>2. session'.status = "EXPIRED"
      BY <1>0, <1>1 DEF ExpireOnRead, SetStatus, Session
    <2> QED BY <1>1, <2>1, <2>2, ReturnsToNoPoint DEF ExpireOnRead, GoodStep, Over, rowVars, gameLog
  <1>2. CASE JoinSpectator(r)
    <2> DEFINE q == [req[r] EXCEPT !.pc = "tx", !.spect = spectator]
    <2>1. req' = [req EXCEPT ![r] = q]
      BY <1>2 DEF JoinSpectator, TypeInv, RequestsOK
    <2>2. q.op = req[r].op /\ q.pc = "tx"
      BY FieldsOK DEF TypeInv, Request
    <2> HIDE DEF q
    <2>3. req'[r] = q /\ Others(r)
      BY <2>1 DEF TypeInv, RequestsOK, Others
    <2>4. req[r].op = "join"
      BY <1>2 DEF JoinSpectator, At
    <2> QED BY <1>2, <2>2, <2>3, <2>4 DEF JoinSpectator, GoodStep, LobbyPoint, rowVars, gameLog
  <1>3. CASE JoinRead(r)
    <2>1. Finish(r, "refused") \/ Finish(r, "ok")
      BY <1>0, <1>3 DEF JoinRead, Admissible
    <2>2. Returns(r)
      BY <2>1, FinishIs DEF Final
    <2> QED BY <1>3, <2>2, ReturnsToNoPoint DEF JoinRead, GoodStep, rowVars, gameLog
  <1>4. ~(JoinCommit(r) \/ StartLock(r) \/ StartCheck(r) \/ StartRun(r) \/ StartReset(r)
          \/ DeclineWrite(r) \/ ThemeWrite(r) \/ DelegateWrite(r)
          \/ LeaveCancel(r) \/ LeaveLobbyDelete(r) \/ LeaveChooser(r))
    BY <1>0 DEF LobbyPoint, At, JoinCommit, StartLock, StartCheck, StartRun, StartReset,
        DeclineWrite, ThemeWrite, DelegateWrite, LeaveCancel, LeaveLobbyDelete, LeaveChooser
  <1>5. CASE LeaveGameDelete(r) \/ KickDelete(r)
    <2>1. GoesTo(r, "reread") /\ req[r].op # "start" /\ players' \subseteq players
      BY <1>5, GotoIs DEF LeaveGameDelete, KickDelete, At, DeleteRow
    <2> QED BY <1>5, <2>1, GoesToPoint DEF LeaveGameDelete, KickDelete, GoodStep, gameLog
  <1>6. CASE Reread(r)
    BY <1>6, RereadIs DEF GoodStep, LobbyPoint, Rest, rowVars, gameLog
  <1>7. CASE LeaveCount(r)
    BY <1>7, LeaveCountIs DEF GoodStep, LobbyPoint, Rest, rowVars, gameLog
  <1>8. CASE LeaveForfeit(r)
    <2>1. GoesTo(r, "pay") /\ req[r].op # "start" /\ session'.status = "FINISHED"
      BY <1>0, <1>8, GotoIs DEF LeaveForfeit, At, Session
    <2> QED BY <1>8, <2>1, GoesToPoint DEF LeaveForfeit, GoodStep, Over, rowVars, gameLog
  <1>9. CASE LeaveAbandon(r)
    <2>1. Returns(r)
      BY <1>9, FinishIs DEF LeaveAbandon, Final
    <2>2. session'.status = "CANCELLED"
      BY <1>0, <1>9 DEF LeaveAbandon, SetStatus, Session
    <2> QED BY <1>9, <2>1, <2>2, ReturnsToNoPoint DEF LeaveAbandon, GoodStep, Over, rowVars, gameLog
  <1>10. CASE LeavePromoteRow(r)
    BY <1>10, PromoteRowIs DEF GoodStep, LobbyPoint, gameLog
  <1>11. CASE LeavePromoteSession(r)
    <2>1. GoesTo(r, "check") /\ req[r].op # "start" /\ session'.status = session.status
      BY <1>0, <1>11, GotoIs DEF LeavePromoteSession, At, Session
    <2> QED BY <1>11, <2>1, GoesToPoint DEF LeavePromoteSession, GoodStep, rowVars, gameLog
  <1>12. CASE \/ LeaveCheck(r) \/ KickCount(r) \/ AnswerRead(r) \/ AnswerCount(r)
    <2>1. /\ UNCHANGED Rest /\ req[r].op # "start"
          /\ \/ Announce(r)
             \/ \E pc \in {"conclude", "ok", "answerWrite", "count", "refused"} : GotoOrFinish(r, pc)
      <3>1. CASE LeaveCheck(r)
        BY <3>1 DEF LeaveCheck, At, Rest, GotoOrFinish, Final
      <3>2. CASE KickCount(r)
        BY <3>2, ZenonT(60) DEF KickCount, At, Rest
      <3>3. CASE AnswerRead(r)
        <4> DEFINE pc == CASE answers[req[r].user][req[r].snap.session.index] = 0 -> "answerWrite"
                           [] /\ answers[req[r].user][req[r].snap.session.index] > 0
                              /\ req[r].user \in players -> "count"
                           [] OTHER -> "refused"
        <4>1. GotoOrFinish(r, pc) /\ UNCHANGED Rest /\ req[r].op = "answer"
          BY <3>3 DEF AnswerRead, At, Rest
        <4>2. pc \in {"answerWrite", "count", "refused"}
          OBVIOUS
        <4> HIDE DEF pc
        <4> QED BY <4>1, <4>2
      <3>4. CASE AnswerCount(r)
        BY <3>4 DEF AnswerCount, At, Rest, GotoOrFinish, Final
      <3> QED BY <1>12, <3>1, <3>2, <3>3, <3>4
    <2>2. \/ Returns(r)
          \/ \E pc \in {"conclude", "answerWrite", "count"} : GoesTo(r, pc)
      BY <2>1, GotoOrFinishIs, AnnounceIs DEF Final, Told
    <2>3. /\ Others(r) /\ req'[r].op = req[r].op /\ ~LobbyPoint(req'[r]) /\ req'[r].pc # "pay"
      BY <2>1, <2>2, GoesToPoint, ReturnsToNoPoint
    <2> QED BY <2>1, <2>3 DEF GoodStep, Rest, rowVars, gameLog
  <1>13. CASE AnswerGuard(r)
    <2>1. /\ Others(r) /\ req'[r].op = req[r].op /\ ~LobbyPoint(req'[r]) /\ req'[r].pc # "pay"
      BY <1>13, AnswerGuardIs, ReturnsToNoPoint DEF LobbyPoint
    <2>2. UNCHANGED Rest
      BY <1>13, AnswerGuardIs
    <2> QED BY <2>1, <2>2 DEF GoodStep, Rest, rowVars, gameLog
  <1>14. CASE AnswerLock(r)
    <2>1. GoesTo(r, "answerRead") /\ req[r].op # "start"
      BY <1>14, GotoIs DEF AnswerLock, At
    <2> QED BY <1>14, <2>1, GoesToPoint DEF AnswerLock, GoodStep, rowVars
  <1>15. CASE AnswerWrite(r)
    <2>1. Goto(r, "count") \/ Finish(r, "refused")
      BY <1>15 DEF AnswerWrite
    <2>2. req[r].op # "start" /\ UNCHANGED <<session, spectator, players, xp>>
      BY <1>15 DEF AnswerWrite, At
    <2>3. Returns(r) \/ GoesTo(r, "count")
      BY <2>1, GotoIs, FinishIs DEF Final
    <2>4. /\ Others(r) /\ req'[r].op = req[r].op /\ ~LobbyPoint(req'[r]) /\ req'[r].pc # "pay"
      BY <2>2, <2>3, GoesToPoint, ReturnsToNoPoint
    <2> QED BY <2>2, <2>4 DEF GoodStep
  <1>16. CASE Conclude(r)
    <2>1. req[r].op # "start"
      BY <1>16, FieldsOK DEF TypeInv, RequestOK, StartSteps, Final, Conclude
    <2> QED BY <1>16, <2>1, ConcludeIs DEF GoodStep, LobbyPoint, Rest, rowVars, gameLog
  <1>17. CASE ConcludeRank(r)
    <2>1. Returns(r) /\ UNCHANGED <<session, spectator, rowVars, xp>>
      BY <1>17, ConcludeRankIs
    <2> QED BY <2>1, ReturnsToNoPoint DEF GoodStep, rowVars
  <1>18. CASE AdvanceIndex(r)
    <2>1. GoesTo(r, "reset") /\ req[r].op = "advance" /\ session'.status = session.status
      BY <1>0, <1>18, GotoIs DEF AdvanceIndex, At, Session
    <2> QED BY <1>18, <2>1, GoesToPoint DEF AdvanceIndex, GoodStep, rowVars, gameLog
  <1>19. CASE AdvanceReset(r)
    <2>1. Returns(r)
      BY <1>19, FinishIs DEF AdvanceReset, Final
    <2> QED BY <1>19, <2>1, ReturnsToNoPoint DEF AdvanceReset, GoodStep, gameLog
  <1>20. CASE AdvancePodium(r)
    <2>1. req[r].op = "advance"
      BY <1>20 DEF AdvancePodium, At
    <2> QED BY <1>20, <2>1, PodiumIs DEF GoodStep, LobbyPoint, Over, Final, rowVars, gameLog
  <1>21. CASE Pay(r)
    <2>1. req[r].op # "start"
      BY <1>21, FieldsOK DEF TypeInv, RequestOK, StartSteps, Final, Pay
    <2> QED BY <1>21, <2>1, PayIs DEF GoodStep, LobbyPoint, Final, rowVars
  <1> QED BY <1>1, <1>2, <1>3, <1>4, <1>5, <1>6, <1>7, <1>8, <1>9, <1>10, <1>11, <1>12, <1>13,
             <1>14, <1>15, <1>16, <1>17, <1>18, <1>19, <1>20, <1>21 DEF Step, LobbyStep, GameStep

\* Calls, the clock, the cron and the expiry of the locks leave a started game alone.
LEMMA StartedBackground ==
    ASSUME TypeInv, StartedInv, Environment \/ Sweeper \/ UNCHANGED vars
    PROVE  UNCHANGED <<session, spectator, rowVars, answers, concluded, xp, req>>
  <1>1. session.status \notin Lobby
    BY DEF StartedInv, Over, Lobby
  <1> QED BY <1>1 DEF Environment, Sweeper, DeadlinePasses, AnswerLockLapses, SweepFind, SweepClose,
        vars, gameLog

\* StartedInv is inductive.
LEMMA StartedStep == TypeInv /\ StartedInv /\ [Next]_vars => StartedInv'
  <1> SUFFICES ASSUME TypeInv, StartedInv, [Next]_vars PROVE StartedInv'
    OBVIOUS
  <1>1. ASSUME NEW r \in Requests, Step(r) PROVE StartedInv'
    BY <1>1, StartedSteps DEF GoodStep, StartedInv, Others
  <1>2. ASSUME NEW r \in Requests, Call(r) PROVE StartedInv'
    <2>1. PICK op, u, pc : Begins(r, op, u, pc) /\ CallPoint(op, u, pc)
      BY <1>2, StartedCalls
    <2>2. session' = session
      BY <1>2, StartedCalls
    <2>3. Others(r) /\ ~LobbyPoint(req'[r])
      BY <2>1 DEF Begins, CallPoint, LobbyPoint, Final
    <2> QED BY <2>2, <2>3 DEF StartedInv, Others
  <1>3. ASSUME Environment \/ Sweeper \/ UNCHANGED vars PROVE StartedInv'
    BY <1>3, StartedBackground DEF StartedInv
  <1> QED BY <1>1, <1>2, <1>3 DEF Next

\* It holds of a game that starts.
LEMMA StartedInitHolds == StartedInit => StartedInv
  <1> SUFFICES ASSUME StartedInit PROVE StartedInv
    OBVIOUS
  <1>1. session.status = "IN_PROGRESS"
    BY NewTypes DEF StartedInit, Session
  <1>2. \A r \in Requests : req[r].pc = "new" /\ req[r].op = "none"
    BY DEF StartedInit, NewRequest
  <1> QED BY <1>1, <1>2 DEF StartedInv, LobbyPoint

\* Both invariants hold of every game that starts.
LEMMA GameInvHolds == GameSpec => [](TypeInv /\ StartedInv)
  BY TypeInit, TypeStep, StartedInitHolds, StartedStep, PTL DEF GameSpec

\* PaidInv is inductive.
LEMMA PaidStep == TypeInv /\ StartedInv /\ PaidInv /\ [Next]_vars => PaidInv'
  <1> SUFFICES ASSUME TypeInv, StartedInv, PaidInv, [Next]_vars PROVE PaidInv'
    OBVIOUS
  <1>1. ASSUME NEW r \in Requests, Step(r) PROVE PaidInv'
    <2>1. GoodStep(r)
      BY <1>1, StartedSteps
    <2>2. session.status \in Over => session'.status \in Over
      BY <2>1 DEF GoodStep
    <2>3. xp' = xp \/ session'.status \in Over
      BY <2>1, <2>2 DEF GoodStep, PaidInv
    <2>4. PaidWhenOver'
      BY <2>2, <2>3 DEF PaidInv, PaidWhenOver, Over
    <2>5. \A s \in Requests : req'[s].pc = "pay" => session'.status \in Over
      BY <2>1, <2>2 DEF PaidInv, GoodStep, Others
    <2> QED BY <2>4, <2>5 DEF PaidInv
  <1>2. ASSUME NEW r \in Requests, Call(r) PROVE PaidInv'
    <2>1. PICK op, u, pc : Begins(r, op, u, pc) /\ CallPoint(op, u, pc)
      BY <1>2, StartedCalls
    <2>2. session' = session /\ xp' = xp
      BY <1>2, StartedCalls DEF gameLog
    <2>3. Others(r) /\ req'[r].pc # "pay"
      BY <2>1 DEF Begins, CallPoint, Final
    <2> QED BY <2>2, <2>3 DEF PaidInv, PaidWhenOver, Others
  <1>3. ASSUME Environment \/ Sweeper \/ UNCHANGED vars PROVE PaidInv'
    BY <1>3, StartedBackground DEF PaidInv, PaidWhenOver
  <1> QED BY <1>1, <1>2, <1>3 DEF Next

\* Nobody is paid for a game that may still be played: whatever handlers of the lobby and of
\* the game cross, in a room or in a duel, a game that has started and paid is over, and
\* stays so (multiplayer.service.ts:1819-1913, 2147-2204).
THEOREM PaidWhenOverHolds == GameSpec => []PaidWhenOver
  <1>1. StartedInit => PaidInv
    BY DEF StartedInit, PaidInv, PaidWhenOver, NewRequest
  <1>2. PaidInv => PaidWhenOver
    BY DEF PaidInv
  <1> QED BY <1>1, <1>2, GameInvHolds, PaidStep, PTL DEF GameSpec

-----------------------------------------------------------------------------
(* The last of the contenders.  HostInv: as long as the host that started    *)
(* the game has a row, it is the host and nobody who leaves was.  EndInv: a  *)
(* running game without two contenders has a departure that will end it.     *)

\* A request that was not sent is nobody's.
NewInv == \A r \in Requests : req[r].pc = "new" => req[r].op = "none"

LeavesTheHost(q) ==
    q.op = "leave" =>
        /\ q.pc \in {"gameDelete", "reread"} => /\ q.snap.session.host = Host
                                                /\ q.snap.hostFlag \subseteq {Host}
        /\ q.pc = "reread" => q.user # Host
        /\ q.pc = "count" => ~q.wasHost
        /\ q.pc \notin {"promoteRow", "promoteSession"}
HostInv ==
    Host \in players => /\ session.host = Host /\ hostFlag = {Host}
                        /\ \A r \in Requests : LeavesTheHost(req[r])

\* The departures that will end a game without two contenders
SeesTheEnd(q) ==
    /\ q.op = "leave"
    /\ \/ q.pc \in {"reread", "forfeit", "abandon"}
       \/ q.pc = "count" /\ SeenBy(q) = GameContenders
EndInv ==
    /\ session.status = "IN_PROGRESS" /\ NoKick /\ NoInheritedSpectator
    /\ ~(Cardinality(GameContenders) >= 2)
    => \E r \in Requests : SeesTheEnd(req[r])

\* A step that deletes no row and promotes nobody; a departure that takes it has read the
\* rows already, and if it saw the end the game is over.
Plain(r) ==
    /\ UNCHANGED <<players, hostFlag>> /\ session'.host = session.host
    /\ req'[r].pc # "new"
    /\ req[r].op = "leave" =>
          /\ req[r].pc \notin {"reread", "count"}
          /\ req[r].pc \in {"forfeit", "abandon"} => session'.status \in Over
          /\ req'[r].pc \in Final \cup {"conclude", "rank", "pay"}

\* Every step of a started game is plain but those of a departure or a kick that delete, read
\* again, count and promote.
LEMMA PlainSteps ==
    ASSUME TypeInv, StartedInv, NEW r \in Requests, Step(r)
    PROVE  \/ Plain(r) \/ LeaveGameDelete(r) \/ KickDelete(r) \/ Reread(r) \/ LeaveCount(r)
           \/ LeavePromoteRow(r) \/ LeavePromoteSession(r)
  <1>0. /\ ~LobbyPoint(req[r]) /\ session.status \notin Lobby /\ session \in Session
        /\ req[r].pc \in Steps \cup Final
    BY FieldsOK DEF StartedInv, Over, Lobby, TypeInv, DataOK
  <1>1. CASE ExpireOnRead(r)
    <2>1. Returns(r)
      BY <1>1, FinishIs DEF ExpireOnRead, Final
    <2>2. UNCHANGED rowVars /\ session'.host = session.host /\ req[r].op \in {"join", "state", "start"}
      BY <1>0, <1>1 DEF ExpireOnRead, SetStatus, Session, At
    <2> QED BY <2>1, <2>2 DEF Plain, Returns, Final, rowVars
  <1>2. CASE JoinSpectator(r)
    <2> DEFINE q == [req[r] EXCEPT !.pc = "tx", !.spect = spectator]
    <2>1. req' = [req EXCEPT ![r] = q]
      BY <1>2 DEF JoinSpectator, TypeInv, RequestsOK
    <2>2. q.pc = "tx"
      BY FieldsOK DEF TypeInv, Request
    <2> HIDE DEF q
    <2>3. req'[r] = q
      BY <2>1 DEF TypeInv, RequestsOK
    <2> QED BY <1>2, <2>2, <2>3 DEF JoinSpectator, At, Plain, rowVars
  <1>3. CASE JoinRead(r)
    <2>1. Finish(r, "refused") \/ Finish(r, "ok")
      BY <1>0, <1>3 DEF JoinRead, Admissible
    <2>2. Returns(r)
      BY <2>1, FinishIs DEF Final
    <2> QED BY <1>3, <2>2 DEF JoinRead, At, Plain, Returns, Final, rowVars
  <1>4. ~(JoinCommit(r) \/ StartLock(r) \/ StartCheck(r) \/ StartRun(r) \/ StartReset(r)
          \/ DeclineWrite(r) \/ ThemeWrite(r) \/ DelegateWrite(r)
          \/ LeaveCancel(r) \/ LeaveLobbyDelete(r) \/ LeaveChooser(r))
    BY <1>0 DEF LobbyPoint, At, JoinCommit, StartLock, StartCheck, StartRun, StartReset,
        DeclineWrite, ThemeWrite, DelegateWrite, LeaveCancel, LeaveLobbyDelete, LeaveChooser
  <1>5. CASE LeaveForfeit(r)
    <2>1. GoesTo(r, "pay")
      BY <1>5, GotoIs DEF LeaveForfeit
    <2>2. session'.status = "FINISHED" /\ session'.host = session.host /\ req[r].pc = "forfeit"
      BY <1>0, <1>5 DEF LeaveForfeit, Session, At
    <2> QED BY <1>5, <2>1, <2>2 DEF LeaveForfeit, Plain, GoesTo, Over, rowVars
  <1>6. CASE LeaveAbandon(r)
    <2>1. Returns(r)
      BY <1>6, FinishIs DEF LeaveAbandon, Final
    <2>2. session'.status = "CANCELLED" /\ session'.host = session.host /\ req[r].pc = "abandon"
      BY <1>0, <1>6 DEF LeaveAbandon, SetStatus, Session, At
    <2> QED BY <1>6, <2>1, <2>2 DEF LeaveAbandon, Plain, Returns, Final, Over, rowVars
  <1>7. CASE LeaveCheck(r)
    <2>1. req'[r].pc \in {"conclude"} \cup Final
      BY <1>7, AnnounceIs, FinishIs DEF LeaveCheck, GoesTo, Told, Returns, Final
    <2> QED BY <1>7, <2>1 DEF LeaveCheck, At, Plain, Final, rowVars
  <1>8. CASE KickCount(r) \/ AnswerRead(r) \/ AnswerCount(r)
    <2>1. UNCHANGED Rest /\ req[r].op \in {"kick", "answer"}
      <3>1. CASE KickCount(r)
        BY <3>1, ZenonT(60) DEF KickCount, At, Rest
      <3>2. CASE AnswerRead(r) \/ AnswerCount(r)
        BY <3>2 DEF AnswerRead, AnswerCount, At, Rest
      <3> QED BY <1>8, <3>1, <3>2
    <2>2. req'[r].pc # "new"
      <3>1. CASE KickCount(r)
        <4>1. \E pc \in {"conclude", "ok"} : GotoOrFinish(r, pc)
          BY <3>1, ZenonT(60) DEF KickCount
        <4> QED BY <4>1, GotoOrFinishIs DEF GoesTo, Final
      <3>2. CASE AnswerRead(r)
        <4> DEFINE pc == CASE answers[req[r].user][req[r].snap.session.index] = 0 -> "answerWrite"
                           [] /\ answers[req[r].user][req[r].snap.session.index] > 0
                              /\ req[r].user \in players -> "count"
                           [] OTHER -> "refused"
        <4>1. GotoOrFinish(r, pc)
          BY <3>2 DEF AnswerRead
        <4>2. pc \in {"answerWrite", "count", "refused"}
          OBVIOUS
        <4> HIDE DEF pc
        <4> QED BY <4>1, <4>2, GotoOrFinishIs DEF GoesTo, Final
      <3>3. CASE AnswerCount(r)
        BY <3>3, AnnounceIs, FinishIs DEF AnswerCount, GoesTo, Told, Final
      <3> QED BY <1>8, <3>1, <3>2, <3>3
    <2> QED BY <2>1, <2>2 DEF Plain, Rest, rowVars
  <1>9. CASE AnswerGuard(r)
    BY <1>9, AnswerGuardIs DEF Plain, Returns, Final, Rest, rowVars
  <1>10. CASE AnswerLock(r)
    <2>1. GoesTo(r, "answerRead")
      BY <1>10, GotoIs DEF AnswerLock
    <2> QED BY <1>10, <2>1 DEF AnswerLock, At, Plain, GoesTo, rowVars
  <1>11. CASE AnswerWrite(r)
    <2>1. Goto(r, "count") \/ Finish(r, "refused")
      BY <1>11 DEF AnswerWrite
    <2>2. UNCHANGED <<session, players, hostFlag>> /\ req[r].op = "answer"
      BY <1>11 DEF AnswerWrite, At
    <2>3. req'[r].pc \in {"count", "refused"}
      BY <2>1, GotoIs, FinishIs DEF GoesTo, Final
    <2> QED BY <2>2, <2>3 DEF Plain
  <1>12. CASE Conclude(r)
    BY <1>12, ConcludeIs DEF Plain, Rest, rowVars
  <1>13. CASE ConcludeRank(r)
    BY <1>13, ConcludeRankIs DEF Plain, Returns, Final, rowVars
  <1>14. CASE AdvanceIndex(r)
    <2>1. GoesTo(r, "reset") /\ session'.host = session.host
      BY <1>0, <1>14, GotoIs DEF AdvanceIndex, Session
    <2> QED BY <1>14, <2>1 DEF AdvanceIndex, At, Plain, GoesTo, rowVars
  <1>15. CASE AdvanceReset(r)
    <2>1. Returns(r)
      BY <1>15, FinishIs DEF AdvanceReset, Final
    <2> QED BY <1>15, <2>1 DEF AdvanceReset, At, Plain, Returns, Final
  <1>16. CASE AdvancePodium(r)
    <2>1. session'.host = session.host /\ req[r].op = "advance"
      BY <1>0, <1>16 DEF AdvancePodium, At, Session
    <2> QED BY <1>16, <2>1, PodiumIs DEF Plain, Final, rowVars
  <1>17. CASE Pay(r)
    BY <1>17, PayIs DEF Plain, Final, rowVars
  <1> QED BY <1>1, <1>2, <1>3, <1>4, <1>5, <1>6, <1>7, <1>8, <1>9, <1>10, <1>11, <1>12, <1>13,
             <1>14, <1>15, <1>16, <1>17 DEF Step, LobbyStep, GameStep

\* The initial state, the requests that are sent and the background satisfy NewInv.
LEMMA NewStep == TypeInv /\ StartedInv /\ NewInv /\ [Next]_vars => NewInv'
  <1> SUFFICES ASSUME TypeInv, StartedInv, NewInv, [Next]_vars PROVE NewInv'
    OBVIOUS
  <1>1. ASSUME NEW r \in Requests, Step(r) PROVE NewInv'
    <2>1. GoodStep(r)
      BY <1>1, StartedSteps
    <2>2. req'[r].pc # "new"
      <3>1. CASE Plain(r)
        BY <3>1 DEF Plain
      <3>2. CASE LeaveGameDelete(r) \/ KickDelete(r)
        BY <3>2, GotoIs DEF LeaveGameDelete, KickDelete, GoesTo
      <3>3. CASE LeavePromoteSession(r)
        BY <3>3, GotoIs DEF LeavePromoteSession, GoesTo
      <3>4. CASE Reread(r) \/ LeaveCount(r) \/ LeavePromoteRow(r)
        BY <3>4, RereadIs, LeaveCountIs, PromoteRowIs
      <3> QED BY <1>1, <3>1, <3>2, <3>3, <3>4, PlainSteps
    <2> QED BY <2>1, <2>2 DEF GoodStep, NewInv, Others
  <1>2. ASSUME NEW r \in Requests, Call(r) PROVE NewInv'
    <2>1. PICK op, u, pc : Begins(r, op, u, pc) /\ CallPoint(op, u, pc)
      BY <1>2, StartedCalls
    <2>2. Others(r) /\ req'[r].pc # "new"
      BY <2>1 DEF Begins, CallPoint, Final
    <2> QED BY <2>2 DEF NewInv, Others
  <1>3. ASSUME Environment \/ Sweeper \/ UNCHANGED vars PROVE NewInv'
    BY <1>3, StartedBackground DEF NewInv
  <1> QED BY <1>1, <1>2, <1>3 DEF Next

\* HostInv is inductive.
LEMMA HostStep == TypeInv /\ StartedInv /\ HostInv /\ [Next]_vars => HostInv'
  <1> SUFFICES ASSUME TypeInv, StartedInv, HostInv, [Next]_vars, Host \in players'
               PROVE  /\ session'.host = Host /\ hostFlag' = {Host}
                      /\ \A r \in Requests : LeavesTheHost(req'[r])
    BY DEF HostInv, LeavesTheHost
  <1> DEFINE Same4 == session'.host = Host /\ hostFlag' = {Host}
  <1>1. ASSUME NEW r \in Requests, Step(r)
        PROVE  Same4 /\ \A s \in Requests : LeavesTheHost(req'[s])
    <2>0. /\ Host \in players /\ session.host = Host /\ hostFlag = {Host}
          /\ \A s \in Requests : LeavesTheHost(req[s])
          /\ Others(r) /\ req'[r].op = req[r].op
      BY <1>1, StartedSteps DEF GoodStep, HostInv
    <2> SUFFICES Same4 /\ LeavesTheHost(req'[r])
      BY <2>0 DEF Others
    <2>1. CASE Plain(r)
      BY <2>0, <2>1 DEF Plain, LeavesTheHost, Final
    <2>2. CASE LeaveGameDelete(r)
      <3>1. GoesTo(r, "reread") /\ req[r].pc = "gameDelete" /\ session' = session
            /\ players' = players \ {req[r].user} /\ hostFlag' = hostFlag \ {req[r].user}
        BY <2>2, GotoIs DEF LeaveGameDelete, At, DeleteRow
      <3> QED BY <2>0, <3>1 DEF GoesTo, Same, LeavesTheHost
    <2>3. CASE KickDelete(r)
      <3>1. /\ req[r].op = "kick" /\ session' = session
            /\ players' = players \ {req[r].target} /\ hostFlag' = hostFlag \ {req[r].target}
        BY <2>3 DEF KickDelete, At, DeleteRow
      <3> QED BY <2>0, <3>1 DEF LeavesTheHost
    <2>4. CASE Reread(r)
      <3>1. req[r].op = "leave"
            => req[r].snap.session.host = Host /\ req[r].snap.hostFlag \subseteq {Host} /\ req[r].user # Host
        BY <2>0, <2>4, RereadIs DEF LeavesTheHost
      <3>2. /\ UNCHANGED Rest /\ req'[r].pc = "count"
            /\ req'[r].wasHost <=> req[r].snap.session.host = req[r].user \/ req[r].user \in req[r].snap.hostFlag
        BY <2>4, RereadIs
      <3>3. req[r].op = "leave" => ~req'[r].wasHost
        BY <3>1, <3>2
      <3> QED BY <2>0, <3>2, <3>3 DEF LeavesTheHost, Rest, rowVars
    <2>5. CASE LeaveCount(r)
      <3>1. ~req[r].wasHost
        BY <2>0, <2>5, LeaveCountIs DEF LeavesTheHost
      <3> QED BY <2>0, <2>5, <3>1, LeaveCountIs DEF LeavesTheHost, Rest, rowVars
    <2>6. CASE LeavePromoteRow(r) \/ LeavePromoteSession(r)
      <3>1. req[r].op = "leave" /\ req[r].pc \in {"promoteRow", "promoteSession"}
        BY <2>6 DEF LeavePromoteRow, LeavePromoteSession, At
      <3> QED BY <2>0, <3>1 DEF LeavesTheHost
    <2> QED BY <1>1, <2>1, <2>2, <2>3, <2>4, <2>5, <2>6, PlainSteps
  <1>2. ASSUME NEW r \in Requests, Call(r)
        PROVE  Same4 /\ \A s \in Requests : LeavesTheHost(req'[s])
    <2>1. PICK op, u, pc : Begins(r, op, u, pc) /\ CallPoint(op, u, pc)
      BY <1>2, StartedCalls
    <2>2. UNCHANGED <<session, players, hostFlag>>
      BY <1>2, StartedCalls DEF rowVars
    <2>3. /\ Host \in players /\ session.host = Host /\ hostFlag = {Host}
          /\ \A s \in Requests : LeavesTheHost(req[s])
      BY <2>2 DEF HostInv
    <2>4. /\ Others(r) /\ req'[r].op = op /\ req'[r].pc = pc
          /\ pc \notin Final => req'[r].user = u /\ req'[r].snap = Read
      BY <2>1 DEF Begins
    <2>5. Read.session = session /\ Read.hostFlag = hostFlag
      BY DEF Read
    <2>6. LeavesTheHost(req'[r])
      BY <2>1, <2>3, <2>4, <2>5 DEF CallPoint, LeavesTheHost, Final
    <2> QED BY <2>2, <2>3, <2>4, <2>6 DEF Others
  <1>3. ASSUME Environment \/ Sweeper \/ UNCHANGED vars
        PROVE  Same4 /\ \A s \in Requests : LeavesTheHost(req'[s])
    BY <1>3, StartedBackground DEF HostInv, rowVars
  <1> QED BY <1>1, <1>2, <1>3 DEF Next

\* Fewer than two contenders are one or none.
LEMMA OneOrNone ==
    ASSUME NEW S, IsFiniteSet(S), ~(Cardinality(S) >= 2)
    PROVE  Cardinality(S) = 1 \/ S = {}
  BY FS_CardinalityType, FS_EmptySet

\* EndInv is inductive when nobody toggles the spectator key.
LEMMA EndStep ==
    ASSUME "toggle" \notin Ops, IsFiniteSet(Users)
    PROVE  TypeInv /\ StartedInv /\ NewInv /\ HostInv /\ EndInv /\ [Next]_vars => EndInv'
  <1> SUFFICES ASSUME TypeInv, StartedInv, NewInv, HostInv, EndInv, [Next]_vars,
                      session'.status = "IN_PROGRESS", NoKick', NoInheritedSpectator',
                      ~(Cardinality(GameContenders') >= 2)
               PROVE  \E r \in Requests : SeesTheEnd(req[r])'
    BY DEF EndInv
  <1>1. ASSUME NEW r \in Requests, Step(r) PROVE \E s \in Requests : SeesTheEnd(req[s])'
    <2>1. /\ session.status = "IN_PROGRESS" /\ spectator' = spectator
          /\ Others(r) /\ req'[r].op = req[r].op /\ players' \subseteq players
      BY <1>1, StartedSteps DEF GoodStep, StartedInv, Over
    <2>2. NoKick /\ NoInheritedSpectator
      BY <2>1 DEF NoKick, NoInheritedSpectator, Others
    <2>3. ASSUME NEW s \in Requests \ {r}, SeesTheEnd(req[s]), GameContenders' = GameContenders
          PROVE  SeesTheEnd(req[s])'
      BY <2>1, <2>3 DEF SeesTheEnd, SeenBy, Contenders, Others
    <2>4. ASSUME GameContenders' = GameContenders
          PROVE  \E s \in Requests : SeesTheEnd(req[s])
      BY <2>1, <2>2, <2>4 DEF EndInv
    <2>5. CASE Plain(r)
      <3>1. GameContenders' = GameContenders
        BY <2>1, <2>5 DEF Plain, GameContenders
      <3>2. ~SeesTheEnd(req[r])
        BY <2>5 DEF Plain, SeesTheEnd, Over
      <3> QED BY <2>3, <2>4, <3>1, <3>2
    <2>6. CASE LeaveGameDelete(r)
      <3>1. req'[r].pc = "reread" /\ req[r].op = "leave"
        BY <2>6, GotoIs DEF LeaveGameDelete, GoesTo, At
      <3> QED BY <2>1, <3>1 DEF SeesTheEnd
    <2>7. CASE KickDelete(r)
      BY <2>2, <2>7 DEF KickDelete, At, NoKick
    <2>8. CASE Reread(r)
      <3>1. /\ req[r].op = "leave" /\ req'[r].pc = "count" /\ UNCHANGED Rest
            /\ req'[r].snap.players = players /\ req'[r].snap.hostFlag = hostFlag
        BY <2>2, <2>8, RereadIs DEF NoKick
      <3>2. SeenBy(req[r])' = GameContenders'
        BY <3>1 DEF SeenBy, GameContenders, Rest, rowVars
      <3> QED BY <2>1, <3>1, <3>2 DEF SeesTheEnd
    <2>9. CASE LeaveCount(r)
      <3>1. UNCHANGED Rest /\ req[r].pc = "count"
        BY <2>9, LeaveCountIs
      <3>2. GameContenders' = GameContenders
        BY <3>1 DEF Rest, rowVars, GameContenders
      <3>3. PICK s \in Requests : SeesTheEnd(req[s])
        BY <2>4, <3>2
      <3>4. CASE s = r
        <4>1. SeenBy(req[r]) = GameContenders
          BY <3>1, <3>3, <3>4 DEF SeesTheEnd
        <4>2. IsFiniteSet(GameContenders)
          BY FS_Subset DEF GameContenders, Contenders, TypeInv, DataOK
        <4>3. Cardinality(GameContenders) = 1 \/ GameContenders = {}
          BY <3>2, <4>2, OneOrNone
        <4>4. req'[r].pc \in {"forfeit", "abandon"} /\ req[r].op = "leave"
          BY <2>9, <4>1, <4>3, LeaveCountIs DEF SeenBy
        <4> QED BY <2>1, <4>4 DEF SeesTheEnd
      <3> QED BY <2>3, <3>2, <3>3, <3>4
    <2>10. CASE LeavePromoteRow(r) \/ LeavePromoteSession(r)
      <3>1. /\ req[r].op = "leave" /\ req[r].pc \in {"promoteRow", "promoteSession"}
            /\ players' = players
        BY <2>10 DEF LeavePromoteRow, LeavePromoteSession, At, rowVars
      <3>2. Host \notin players
        BY <3>1 DEF HostInv, LeavesTheHost
      <3>3. ~spectator
        BY <2>2, <3>2 DEF NoInheritedSpectator
      <3>4. GameContenders' = GameContenders
        BY <2>1, <3>1, <3>3 DEF GameContenders, Contenders
      <3>5. ~SeesTheEnd(req[r])
        BY <3>1 DEF SeesTheEnd
      <3> QED BY <2>3, <2>4, <3>4, <3>5
    <2> QED BY <1>1, <2>5, <2>6, <2>7, <2>8, <2>9, <2>10, PlainSteps
  <1>2. ASSUME NEW r \in Requests, Call(r) PROVE \E s \in Requests : SeesTheEnd(req[s])'
    <2>1. PICK op, u, pc : Begins(r, op, u, pc)
      BY <1>2, StartedCalls
    <2>2. Others(r) /\ req[r].pc = "new"
      BY <2>1 DEF Begins
    <2>3. UNCHANGED <<session, players, hostFlag, spectator>>
      BY <1>2, StartedCalls DEF rowVars
    <2>4. NoKick
      BY <2>2 DEF NoKick, NewInv, Others
    <2>5. PICK s \in Requests : SeesTheEnd(req[s])
      BY <2>3, <2>4 DEF EndInv, NoInheritedSpectator, GameContenders
    <2>6. s # r
      BY <2>2, <2>5 DEF SeesTheEnd
    <2>7. SeesTheEnd(req[s])'
      BY <2>2, <2>3, <2>5, <2>6 DEF SeesTheEnd, SeenBy, GameContenders, Others
    <2> QED BY <2>7
  <1>3. ASSUME Environment \/ Sweeper \/ UNCHANGED vars
        PROVE  \E s \in Requests : SeesTheEnd(req[s])'
    <2>1. UNCHANGED <<session, spectator, players, hostFlag, req>>
      BY <1>3, StartedBackground DEF rowVars
    <2>2. PICK s \in Requests : SeesTheEnd(req[s])
      BY <2>1 DEF EndInv, NoKick, NoInheritedSpectator, GameContenders
    <2> QED BY <2>1, <2>2 DEF SeesTheEnd, SeenBy, GameContenders
  <1> QED BY <1>1, <1>2, <1>3 DEF Next

\* The game ends with its last contender: in a game that started with two contenders, while
\* nobody toggles the spectator key and the host kicks nobody, whatever departures, grace
\* timers, answers and promotions cross, the game is never left to a single contender, or to
\* none, once every handler has returned (multiplayer.service.ts:2137-2204).
THEOREM SurvivorWinsHolds ==
    ASSUME "toggle" \notin Ops, IsFiniteSet(Users)
    PROVE  GameSpec /\ Cardinality(GameContenders) >= 2 => []SurvivorWins
  <1> DEFINE I == NewInv /\ HostInv /\ EndInv
  <1>1. StartedInit /\ Cardinality(GameContenders) >= 2 => I
    <2> SUFFICES ASSUME StartedInit, Cardinality(GameContenders) >= 2 PROVE I
      OBVIOUS
    <2>1. session.host = Host /\ hostFlag = {Host}
      BY NewTypes DEF StartedInit, NewSession, Session
    <2>2. \A r \in Requests : req[r].op = "none"
      BY DEF StartedInit, NewRequest
    <2>3. \A r \in Requests : LeavesTheHost(req[r])
      BY <2>2 DEF LeavesTheHost
    <2> QED BY <2>1, <2>2, <2>3 DEF NewInv, HostInv, EndInv
  <1>2. TypeInv /\ StartedInv /\ I /\ [Next]_vars => I'
    BY NewStep, HostStep, EndStep
  <1>3. EndInv => SurvivorWins
    BY DEF EndInv, SurvivorWins, Settled, Resting, SeesTheEnd, Final
  <1>4. I => SurvivorWins
    BY <1>3
  <1> HIDE DEF I
  <1> QED BY <1>1, <1>2, <1>4, GameInvHolds, PTL DEF GameSpec

-----------------------------------------------------------------------------
(* The last of the answers.  FreshInv: the spectator key and the status that *)
(* a handler has read are still so.  RoundInv: when every contender of the   *)
(* running round has answered, a handler will see it and conclude the round, *)
(* or is about to clear its flags.                                           *)

FreshInv ==
    session.status = "IN_PROGRESS" => \A r \in Requests :
        /\ req[r].op = "answer" /\ req[r].pc \in {"answerLock", "answerRead", "answerWrite", "count"}
             => req[r].spect = spectator
        /\ req[r].op = "kick" /\ req[r].pc \in {"delete", "reread", "count"}
             => req[r].snap.session.status = "IN_PROGRESS"

SeesTheRound(q) ==
    \/ q.op = "advance" /\ q.pc = "reset"
    \/ q.op = "answer" /\ q.pc = "count"
    \/ q.pc = "told" /\ q.snap.session.index = session.index
    \/ q.op \in {"leave", "kick"} /\ q.pc = "reread"
    \/ /\ q.op \in {"leave", "kick"} /\ q.pc = "count"
       /\ AllAnswered(SeenBy(q), q.snap.answered) /\ q.snap.players \subseteq players
    \/ q.op = "leave" /\ q.pc = "forfeit"
    \/ /\ q.op = "leave" /\ q.pc \in {"promoteRow", "promoteSession", "check"}
       /\ AllAnswered(q.unpaid, q.snap.answered) /\ q.snap.players \subseteq players
    \/ q.pc = "conclude"
    \/ /\ q.pc = "rank"
       /\ q.snap.session.index = session.index /\ SeenBy(q) \subseteq players
RoundInv ==
    /\ session.status = "IN_PROGRESS" /\ NoInheritedSpectator
    /\ AllAnswered(GameContenders, answered) /\ session.index \notin concluded
    => \E r \in Requests : SeesTheRound(req[r])

\* The steps of an answer and of a kick
LEMMA StepsOfAnAnswer ==
    ASSUME NEW r \in Requests, Step(r), req[r].op = "answer"
    PROVE  \/ AnswerGuard(r) \/ AnswerLock(r) \/ AnswerRead(r) \/ AnswerWrite(r)
           \/ AnswerCount(r) \/ Conclude(r) \/ ConcludeRank(r) \/ Pay(r)
  <1>1. ~LobbyStep(r)
    BY DEF LobbyStep, ExpireOnRead, JoinSpectator, JoinRead, JoinCommit, StartLock, StartCheck,
       StartRun, StartReset, DeclineWrite, ThemeWrite, DelegateWrite, At
  <1>2. ~(\/ LeaveCancel(r) \/ LeaveLobbyDelete(r) \/ LeaveChooser(r)
          \/ LeaveGameDelete(r) \/ Reread(r) \/ LeaveCount(r) \/ LeaveForfeit(r) \/ LeaveAbandon(r)
          \/ LeavePromoteRow(r) \/ LeavePromoteSession(r) \/ LeaveCheck(r)
          \/ KickDelete(r) \/ KickCount(r)
          \/ AdvanceIndex(r) \/ AdvanceReset(r) \/ AdvancePodium(r))
    BY DEF LeaveCancel, LeaveLobbyDelete, LeaveChooser, LeaveGameDelete, Reread, LeaveCount,
       LeaveForfeit, LeaveAbandon, LeavePromoteRow, LeavePromoteSession, LeaveCheck, KickDelete,
       KickCount, AdvanceIndex, AdvanceReset, AdvancePodium, At
  <1> QED BY <1>1, <1>2 DEF Step, GameStep

\* The steps of a kick
LEMMA StepsOfAKick ==
    ASSUME NEW r \in Requests, Step(r), req[r].op = "kick"
    PROVE  KickDelete(r) \/ Reread(r) \/ KickCount(r) \/ Conclude(r) \/ ConcludeRank(r) \/ Pay(r)
  <1>1. ~LobbyStep(r)
    BY DEF LobbyStep, ExpireOnRead, JoinSpectator, JoinRead, JoinCommit, StartLock, StartCheck,
       StartRun, StartReset, DeclineWrite, ThemeWrite, DelegateWrite, At
  <1>2. ~(\/ LeaveCancel(r) \/ LeaveLobbyDelete(r) \/ LeaveChooser(r)
          \/ LeaveGameDelete(r) \/ LeaveCount(r) \/ LeaveForfeit(r) \/ LeaveAbandon(r)
          \/ LeavePromoteRow(r) \/ LeavePromoteSession(r) \/ LeaveCheck(r)
          \/ AnswerGuard(r) \/ AnswerLock(r) \/ AnswerRead(r) \/ AnswerWrite(r) \/ AnswerCount(r)
          \/ AdvanceIndex(r) \/ AdvanceReset(r) \/ AdvancePodium(r))
    BY DEF LeaveCancel, LeaveLobbyDelete, LeaveChooser, LeaveGameDelete, LeaveCount,
       LeaveForfeit, LeaveAbandon, LeavePromoteRow, LeavePromoteSession, LeaveCheck, AnswerGuard,
       AnswerLock, AnswerRead, AnswerWrite, AnswerCount, AdvanceIndex, AdvanceReset,
       AdvancePodium, At
  <1> QED BY <1>1, <1>2 DEF Step, GameStep

\* How the handlers that may conclude a round go on
LEMMA AnswerReadIs ==
    ASSUME TypeInv, NEW r \in Requests, AnswerRead(r)
    PROVE  /\ UNCHANGED Rest /\ req[r].op = "answer" /\ req[r].pc = "answerRead"
           /\ Returns(r) \/ GoesTo(r, "answerWrite") \/ GoesTo(r, "count")
  <1> DEFINE pc == CASE answers[req[r].user][req[r].snap.session.index] = 0 -> "answerWrite"
                     [] /\ answers[req[r].user][req[r].snap.session.index] > 0
                        /\ req[r].user \in players -> "count"
                     [] OTHER -> "refused"
  <1>1. GotoOrFinish(r, pc) /\ UNCHANGED Rest /\ req[r].op = "answer" /\ req[r].pc = "answerRead"
    BY DEF AnswerRead, At, Rest
  <1>2. pc \in {"answerWrite", "count", "refused"}
    OBVIOUS
  <1> HIDE DEF pc
  <1> QED BY <1>1, <1>2, GotoOrFinishIs DEF Final

\* The answer is written and counted, or refused as the row is gone.
LEMMA AnswerWriteIs ==
    ASSUME TypeInv, NEW r \in Requests, AnswerWrite(r)
    PROVE  /\ UNCHANGED <<session, spectator, players, hostFlag, concluded>>
           /\ req[r].op = "answer" /\ req[r].pc = "answerWrite"
           /\ \/ Returns(r) /\ answered' = answered
              \/ GoesTo(r, "count")
  BY GotoIs, FinishIs DEF AnswerWrite, At, Final

\* An answer announces it when every contender has answered.
LEMMA AnswerCountIs ==
    ASSUME TypeInv, NEW r \in Requests, AnswerCount(r)
    PROVE  /\ UNCHANGED Rest /\ req[r].op = "answer" /\ req[r].pc = "count"
           /\ \/ GoesTo(r, "conclude") \/ Told(r)
              \/ /\ Returns(r)
                 /\ ~AllAnswered(Contenders(req[r].spect, players, hostFlag), answered)
  BY FinishIs, AnnounceIs DEF AnswerCount, At, Rest, Final

\* A kick concludes when every contender that it has read had answered.
LEMMA KickCountIs ==
    ASSUME TypeInv, NEW r \in Requests, KickCount(r)
    PROVE  /\ UNCHANGED Rest /\ req[r].op = "kick" /\ req[r].pc = "count"
           /\ \/ GoesTo(r, "conclude")
              \/ /\ Returns(r)
                 /\ ~ /\ req[r].snap.session.status = "IN_PROGRESS"
                      /\ AllAnswered(SeenBy(req[r]), req[r].snap.answered)
  <1> DEFINE sees == /\ req[r].snap.session.status = "IN_PROGRESS"
                     /\ AllAnswered(SeenBy(req[r]), req[r].snap.answered)
  <1>1. /\ UNCHANGED Rest /\ req[r].op = "kick" /\ req[r].pc = "count"
        /\ GotoOrFinish(r, IF sees THEN "conclude" ELSE "ok")
    BY ZenonT(60) DEF KickCount, At, Rest, SeenBy
  <1> HIDE DEF sees
  <1>2. GoesTo(r, "conclude") \/ (Returns(r) /\ ~sees)
    BY <1>1, GotoOrFinishIs DEF Final
  <1> QED BY <1>1, <1>2 DEF sees

\* So does a departure.
LEMMA LeaveCheckIs ==
    ASSUME TypeInv, NEW r \in Requests, LeaveCheck(r)
    PROVE  /\ UNCHANGED Rest /\ req[r].op = "leave" /\ req[r].pc = "check"
           /\ \/ GoesTo(r, "conclude") \/ Told(r)
              \/ Returns(r) /\ ~AllAnswered(req[r].unpaid, req[r].snap.answered)
  BY FinishIs, AnnounceIs DEF LeaveCheck, At, Rest, Final

\* FreshInv is inductive when nobody toggles the spectator key.
LEMMA FreshStep ==
    ASSUME "toggle" \notin Ops
    PROVE  TypeInv /\ StartedInv /\ FreshInv /\ [Next]_vars => FreshInv'
  <1> DEFINE Fresh(q) ==
        /\ q.op = "answer" /\ q.pc \in {"answerLock", "answerRead", "answerWrite", "count"}
             => q.spect = spectator
        /\ q.op = "kick" /\ q.pc \in {"delete", "reread", "count"}
             => q.snap.session.status = "IN_PROGRESS"
  <1> SUFFICES ASSUME TypeInv, StartedInv, FreshInv, [Next]_vars, session'.status = "IN_PROGRESS",
                      NEW s \in Requests
               PROVE  Fresh(req[s])'
    BY DEF FreshInv
  <1>1. ASSUME NEW r \in Requests, Step(r) PROVE Fresh(req[s])'
    <2>1. /\ session.status = "IN_PROGRESS" /\ spectator' = spectator
          /\ Others(r) /\ req'[r].op = req[r].op
      BY <1>1, StartedSteps DEF GoodStep, StartedInv, Over
    <2>2. Fresh(req[s]) /\ Fresh(req[r])
      BY <2>1 DEF FreshInv
    <2>3. SUFFICES Fresh(req[r])'
      BY <2>1, <2>2 DEF Others
    <2>4. CASE req[r].op = "answer"
      <3>1. CASE AnswerGuard(r)
        BY <2>1, <2>4, <3>1, AnswerGuardIs DEF Returns, Final
      <3>2. CASE AnswerLock(r)
        <4>1. GoesTo(r, "answerRead") /\ req[r].pc = "answerLock"
          BY <3>2, GotoIs DEF AnswerLock, At
        <4> QED BY <2>1, <2>2, <2>4, <4>1 DEF GoesTo
      <3>3. CASE AnswerRead(r)
        <4>1. (Returns(r) \/ GoesTo(r, "answerWrite") \/ GoesTo(r, "count")) /\ req[r].pc = "answerRead"
          BY <3>3, AnswerReadIs
        <4> QED BY <2>1, <2>2, <2>4, <4>1 DEF GoesTo, Returns, Final
      <3>4. CASE AnswerWrite(r)
        <4>1. (Returns(r) \/ GoesTo(r, "count")) /\ req[r].pc = "answerWrite"
          BY <3>4, AnswerWriteIs
        <4> QED BY <2>1, <2>2, <2>4, <4>1 DEF GoesTo, Returns, Final
      <3>5. CASE AnswerCount(r) \/ Conclude(r) \/ ConcludeRank(r) \/ Pay(r)
        <4>1. req'[r].pc \in Final \cup {"conclude", "rank", "pay"}
          BY <3>5, AnswerCountIs, ConcludeIs, ConcludeRankIs, PayIs DEF GoesTo, Returns, Told
        <4> QED BY <2>1, <2>4, <4>1 DEF Final
      <3> QED BY <1>1, <2>4, <3>1, <3>2, <3>3, <3>4, <3>5, StepsOfAnAnswer
    <2>5. CASE req[r].op = "kick"
      <3>1. CASE KickDelete(r)
        <4>1. GoesTo(r, "reread") /\ req[r].pc = "delete"
          BY <3>1, GotoIs DEF KickDelete, At
        <4> QED BY <2>1, <2>2, <2>5, <4>1 DEF GoesTo, Same
      <3>2. CASE Reread(r)
        BY <2>1, <2>2, <2>5, <3>2, RereadIs
      <3>3. CASE KickCount(r) \/ Conclude(r) \/ ConcludeRank(r) \/ Pay(r)
        <4>1. req'[r].pc \in Final \cup {"conclude", "rank", "pay"}
          BY <3>3, KickCountIs, ConcludeIs, ConcludeRankIs, PayIs DEF GoesTo, Returns
        <4> QED BY <2>1, <2>5, <4>1 DEF Final
      <3> QED BY <1>1, <2>5, <3>1, <3>2, <3>3, StepsOfAKick
    <2>6. CASE req[r].op \notin {"answer", "kick"}
      BY <2>1, <2>6
    <2> QED BY <2>4, <2>5, <2>6
  <1>2. ASSUME NEW r \in Requests, Call(r) PROVE Fresh(req[s])'
    <2>1. PICK op, u, pc : Begins(r, op, u, pc) /\ CallPoint(op, u, pc)
      BY <1>2, StartedCalls
    <2>2. session' = session /\ spectator' = spectator
      BY <1>2, StartedCalls
    <2>3. Fresh(req[s])
      BY <2>2 DEF FreshInv
    <2>4. /\ Others(r) /\ req'[r].op = op /\ req'[r].pc = pc
          /\ pc \notin Final => req'[r].snap = Read
      BY <2>1 DEF Begins
    <2>5. Read.session = session
      BY DEF Read
    <2>6. Fresh(req[r])'
      BY <2>1, <2>2, <2>4, <2>5 DEF CallPoint, Final
    <2> QED BY <2>2, <2>3, <2>4, <2>6 DEF Others
  <1>3. ASSUME Environment \/ Sweeper \/ UNCHANGED vars PROVE Fresh(req[s])'
    BY <1>3, StartedBackground DEF FreshInv
  <1> QED BY <1>1, <1>2, <1>3 DEF Next

\* A step that changes neither the rows nor the round, of a handler that was not to see the
\* end of the round
Idle(r) ==
    /\ UNCHANGED <<players, hostFlag, answered, concluded>> /\ session'.index = session.index
    /\ ~SeesTheRound(req[r])

\* The steps of a running game that are not idle
LEMMA IdleSteps ==
    ASSUME TypeInv, StartedInv, NEW r \in Requests, Step(r), session'.status = "IN_PROGRESS"
    PROVE  \/ Idle(r)
           \/ LeaveGameDelete(r) \/ KickDelete(r) \/ Reread(r) \/ LeaveCount(r) \/ LeaveCheck(r)
           \/ LeavePromoteRow(r) \/ LeavePromoteSession(r) \/ KickCount(r)
           \/ AnswerWrite(r) \/ AnswerCount(r) \/ Conclude(r) \/ ConcludeRank(r)
           \/ AdvanceIndex(r) \/ AdvanceReset(r)
  <1>0. ~LobbyPoint(req[r]) /\ session \in Session
    BY DEF StartedInv, TypeInv, DataOK
  <1>1. ~(ExpireOnRead(r) \/ LeaveForfeit(r) \/ LeaveAbandon(r) \/ AdvancePodium(r))
    BY <1>0, PodiumIs DEF ExpireOnRead, LeaveForfeit, LeaveAbandon, SetStatus, Session
  <1>2. ~(JoinCommit(r) \/ StartLock(r) \/ StartCheck(r) \/ StartRun(r) \/ StartReset(r)
          \/ DeclineWrite(r) \/ ThemeWrite(r) \/ DelegateWrite(r)
          \/ LeaveCancel(r) \/ LeaveLobbyDelete(r) \/ LeaveChooser(r))
    BY <1>0 DEF LobbyPoint, At, JoinCommit, StartLock, StartCheck, StartRun, StartReset,
        DeclineWrite, ThemeWrite, DelegateWrite, LeaveCancel, LeaveLobbyDelete, LeaveChooser
  <1>3. CASE JoinSpectator(r) \/ JoinRead(r)
    BY <1>3 DEF JoinSpectator, JoinRead, At, Idle, SeesTheRound, rowVars, gameLog
  <1>4. CASE AnswerGuard(r)
    BY <1>4, AnswerGuardIs DEF Idle, SeesTheRound, Rest, rowVars, gameLog
  <1>5. CASE AnswerLock(r)
    BY <1>5 DEF AnswerLock, At, Idle, SeesTheRound, rowVars
  <1>6. CASE AnswerRead(r)
    BY <1>6, AnswerReadIs DEF Idle, SeesTheRound, Rest, rowVars, gameLog
  <1>7. CASE Pay(r)
    BY <1>7, PayIs DEF Idle, SeesTheRound, rowVars
  <1> QED BY <1>1, <1>2, <1>3, <1>4, <1>5, <1>6, <1>7 DEF Step, LobbyStep, GameStep

\* RoundInv is inductive when nobody toggles the spectator key.
LEMMA RoundStep ==
    ASSUME "toggle" \notin Ops
    PROVE  /\ TypeInv /\ StartedInv /\ HostInv /\ FreshInv /\ RoundInv /\ [Next]_vars
           => RoundInv'
  <1> SUFFICES ASSUME TypeInv, StartedInv, HostInv, FreshInv, RoundInv, [Next]_vars,
                      session'.status = "IN_PROGRESS", NoInheritedSpectator',
                      AllAnswered(GameContenders, answered)', (session.index \notin concluded)'
               PROVE  \E r \in Requests : SeesTheRound(req[r])'
    BY DEF RoundInv
  <1>1. ASSUME NEW r \in Requests, Step(r) PROVE \E s \in Requests : SeesTheRound(req[s])'
    <2>1. /\ session.status = "IN_PROGRESS" /\ spectator' = spectator
          /\ Others(r) /\ req'[r].op = req[r].op /\ players' \subseteq players
      BY <1>1, StartedSteps DEF GoodStep, StartedInv, Over
    <2>2. NoInheritedSpectator
      BY <2>1 DEF NoInheritedSpectator
    <2>3. ASSUME NEW s \in Requests \ {r}, SeesTheRound(req[s]),
                 players' = players, session'.index = session.index
          PROVE  SeesTheRound(req[s])'
      BY <2>1, <2>3 DEF SeesTheRound, SeenBy, Others
    <2>4. ASSUME GameContenders' = GameContenders, answered' = answered,
                 session'.index = session.index, concluded \subseteq concluded'
          PROVE  \E s \in Requests : SeesTheRound(req[s])
      BY <2>1, <2>2, <2>4 DEF RoundInv, AllAnswered
    <2>5. ASSUME UNCHANGED <<players, hostFlag, answered, session>>, concluded \subseteq concluded',
                 SeesTheRound(req[r]) => SeesTheRound(req[r])'
          PROVE  \E s \in Requests : SeesTheRound(req[s])'
      <3>1. GameContenders' = GameContenders
        BY <2>1, <2>5 DEF GameContenders
      <3> QED BY <2>3, <2>4, <2>5, <3>1
    <2>6. CASE Idle(r)
      <3>1. GameContenders' = GameContenders
        BY <2>1, <2>6 DEF Idle, GameContenders
      <3> QED BY <2>3, <2>4, <2>6, <3>1 DEF Idle
    <2>7. CASE LeaveGameDelete(r) \/ KickDelete(r)
      <3>1. GoesTo(r, "reread") /\ req[r].op \in {"leave", "kick"}
        BY <2>7, GotoIs DEF LeaveGameDelete, KickDelete, At
      <3> QED BY <2>1, <3>1 DEF GoesTo, SeesTheRound
    <2>8. CASE Reread(r)
      <3>1. /\ UNCHANGED Rest /\ req'[r].pc = "count" /\ req[r].op \in {"leave", "kick"}
            /\ req'[r].snap.players = players /\ req'[r].snap.hostFlag = hostFlag
            /\ req'[r].snap.answered = answered
        BY <2>8, RereadIs
      <3>2. SeenBy(req[r])' = GameContenders' /\ answered' = answered /\ players' = players
        BY <3>1 DEF SeenBy, GameContenders, Rest, rowVars
      <3> QED BY <2>1, <3>1, <3>2 DEF SeesTheRound
    <2>9. CASE LeaveCount(r)
      <3>1. UNCHANGED Rest
        BY <2>9, LeaveCountIs
      <3>2. ASSUME SeesTheRound(req[r]) PROVE SeesTheRound(req[r])'
        <4>1. /\ req[r].op = "leave" /\ req[r].pc = "count"
              /\ AllAnswered(SeenBy(req[r]), req[r].snap.answered)
              /\ req[r].snap.players \subseteq players
          BY <2>9, <3>2, LeaveCountIs DEF SeesTheRound
        <4>2. req'[r].snap = req[r].snap /\ req'[r].unpaid = SeenBy(req[r])
          BY <2>9, LeaveCountIs DEF SeenBy
        <4>3. req'[r].pc \in {"forfeit", "promoteRow", "check"}
          BY <2>9, <4>1, LeaveCountIs DEF AllAnswered, SeenBy
        <4> QED BY <2>1, <3>1, <4>1, <4>2, <4>3 DEF SeesTheRound, Rest, rowVars
      <3> QED BY <2>5, <3>1, <3>2 DEF Rest, rowVars, gameLog
    <2>10. CASE LeaveCheck(r)
      <3>1. UNCHANGED Rest
        BY <2>10, LeaveCheckIs
      <3>2. ASSUME SeesTheRound(req[r]) PROVE SeesTheRound(req[r])'
        <4>1. AllAnswered(req[r].unpaid, req[r].snap.answered)
          BY <2>10, <3>2, LeaveCheckIs DEF SeesTheRound
        <4>2. GoesTo(r, "conclude") \/ Told(r)
          BY <2>10, <4>1, LeaveCheckIs
        <4> QED BY <3>1, <4>2 DEF GoesTo, Told, SeesTheRound, Rest
      <3> QED BY <2>5, <3>1, <3>2 DEF Rest, rowVars, gameLog
    <2>11. CASE LeavePromoteRow(r) \/ LeavePromoteSession(r)
      <3>1. /\ req[r].op = "leave" /\ req[r].pc \in {"promoteRow", "promoteSession"}
            /\ UNCHANGED <<players, answered, concluded>> /\ session'.index = session.index
        BY <2>11 DEF LeavePromoteRow, LeavePromoteSession, At, rowVars, gameLog, TypeInv, DataOK, Session
      <3>2. Host \notin players
        BY <3>1 DEF HostInv, LeavesTheHost
      <3>3. GameContenders' = GameContenders
        BY <2>1, <2>2, <3>1, <3>2 DEF GameContenders, Contenders, NoInheritedSpectator
      <3>4. PICK s \in Requests : SeesTheRound(req[s])
        BY <2>4, <3>1, <3>3
      <3>5. ASSUME s = r PROVE SeesTheRound(req[r])'
        <4>1. /\ req[r].op = "leave" /\ AllAnswered(req[r].unpaid, req[r].snap.answered)
              /\ req[r].snap.players \subseteq players
          BY <3>1, <3>4, <3>5 DEF SeesTheRound
        <4>2. /\ req'[r].pc \in {"promoteSession", "check"}
              /\ req'[r].snap = req[r].snap /\ req'[r].unpaid = req[r].unpaid
          <5>1. CASE LeavePromoteRow(r)
            BY <4>1, <5>1, PromoteRowIs
          <5>2. CASE LeavePromoteSession(r)
            BY <5>2, GotoIs DEF LeavePromoteSession, GoesTo, Same
          <5> QED BY <2>11, <5>1, <5>2
        <4> QED BY <2>1, <3>1, <4>1, <4>2 DEF SeesTheRound
      <3> QED BY <2>3, <3>1, <3>4, <3>5
    <2>12. CASE KickCount(r)
      <3>1. UNCHANGED Rest
        BY <2>12, KickCountIs
      <3>2. ASSUME SeesTheRound(req[r]) PROVE SeesTheRound(req[r])'
        <4>1. /\ AllAnswered(SeenBy(req[r]), req[r].snap.answered)
              /\ req[r].snap.session.status = "IN_PROGRESS"
          BY <2>1, <2>12, <3>2, KickCountIs DEF SeesTheRound, FreshInv
        <4>2. GoesTo(r, "conclude")
          BY <2>12, <4>1, KickCountIs
        <4> QED BY <4>2 DEF GoesTo, SeesTheRound
      <3> QED BY <2>5, <3>1, <3>2 DEF Rest, rowVars, gameLog
    <2>13. CASE AnswerWrite(r)
      <3>1. CASE GoesTo(r, "count")
        BY <2>1, <2>13, <3>1, AnswerWriteIs DEF GoesTo, SeesTheRound
      <3>2. CASE Returns(r) /\ answered' = answered
        <4>1. ~SeesTheRound(req[r]) /\ UNCHANGED <<players, hostFlag, session, concluded>>
          BY <2>13, AnswerWriteIs DEF SeesTheRound
        <4> QED BY <2>5, <3>2, <4>1
      <3> QED BY <2>13, <3>1, <3>2, AnswerWriteIs
    <2>14. CASE AnswerCount(r)
      <3>1. /\ UNCHANGED Rest /\ req[r].spect = spectator
            /\ \/ GoesTo(r, "conclude") \/ Told(r)
               \/ ~AllAnswered(Contenders(req[r].spect, players, hostFlag), answered)
        BY <2>1, <2>14, AnswerCountIs DEF FreshInv
      <3>2. AllAnswered(GameContenders, answered)
        BY <2>1, <3>1 DEF Rest, rowVars, GameContenders, AllAnswered
      <3>3. GoesTo(r, "conclude") \/ Told(r)
        BY <3>1, <3>2 DEF GameContenders
      <3> QED BY <3>1, <3>3 DEF GoesTo, Told, SeesTheRound, Rest
    <2>15. CASE Conclude(r)
      <3>1. /\ UNCHANGED Rest /\ req'[r].pc = "rank" /\ req'[r].snap = Read
        BY <2>15, ConcludeIs
      <3>2. /\ req'[r].snap.session = session' /\ req'[r].snap.players = players'
            /\ req'[r].snap.hostFlag = hostFlag'
        BY <3>1 DEF Read, Rest, rowVars
      <3>3. SeenBy(req[r])' \subseteq players'
        BY <3>2 DEF SeenBy, Contenders
      <3> QED BY <3>1, <3>2, <3>3 DEF SeesTheRound
    <2>16. CASE ConcludeRank(r)
      <3>1. /\ UNCHANGED <<session, rowVars>> /\ req[r].pc = "rank"
            /\ \/ concluded' = concluded \cup {req[r].snap.session.index}
               \/ concluded' = concluded /\ ~(SeenBy(req[r]) \subseteq players)
        BY <2>16, ConcludeRankIs
      <3>2. ~SeesTheRound(req[r])
        BY <3>1 DEF SeesTheRound
      <3> QED BY <2>5, <3>1, <3>2 DEF rowVars
    <2>17. CASE AdvanceIndex(r)
      <3>1. GoesTo(r, "reset") /\ req[r].op = "advance"
        BY <2>17, GotoIs DEF AdvanceIndex, At
      <3> QED BY <2>1, <3>1 DEF GoesTo, SeesTheRound
    <2>18. CASE AdvanceReset(r)
      BY <2>18 DEF AdvanceReset, AllAnswered
    <2> QED BY <1>1, <2>1, <2>6, <2>7, <2>8, <2>9, <2>10, <2>11, <2>12, <2>13, <2>14, <2>15, <2>16,
               <2>17, <2>18, IdleSteps
  <1>2. ASSUME NEW r \in Requests, Call(r) PROVE \E s \in Requests : SeesTheRound(req[s])'
    <2>1. PICK op, u, pc : Begins(r, op, u, pc)
      BY <1>2, StartedCalls
    <2>2. Others(r) /\ req[r].pc = "new"
      BY <2>1 DEF Begins
    <2>3. UNCHANGED <<session, players, hostFlag, answered, concluded, spectator>>
      BY <1>2, StartedCalls DEF rowVars, gameLog
    <2>4. PICK s \in Requests : SeesTheRound(req[s])
      BY <2>3 DEF RoundInv, NoInheritedSpectator, GameContenders
    <2>5. s # r
      BY <2>2, <2>4 DEF SeesTheRound
    <2>6. SeesTheRound(req[s])'
      BY <2>2, <2>3, <2>4, <2>5 DEF SeesTheRound, SeenBy, Others
    <2> QED BY <2>6
  <1>3. ASSUME Environment \/ Sweeper \/ UNCHANGED vars
        PROVE  \E s \in Requests : SeesTheRound(req[s])'
    <2>1. UNCHANGED <<session, spectator, players, hostFlag, answered, concluded, req>>
      BY <1>3, StartedBackground DEF rowVars
    <2>2. PICK s \in Requests : SeesTheRound(req[s])
      BY <2>1 DEF RoundInv, NoInheritedSpectator, GameContenders
    <2> QED BY <2>1, <2>2 DEF SeesTheRound, SeenBy
  <1> QED BY <1>1, <1>2, <1>3 DEF Next

\* No round is stuck with every answer in unless a caller that never concludes has been told
\* so: while nobody toggles the spectator key, whatever answers, departures, kicks, forced
\* conclusions and advances cross, from the gateway, the controller or a grace timer, when every
\* handler has returned and every contender left has answered, ROUND_END was broadcast, or this
\* round was left open by POST answer, POST leave or the timer that found it complete
\* (multiplayer.service.ts:1652-1679, 1745-1800, 2242-2259, 2319-2346,
\* multiplayer.controller.ts:43-50, 76-83).
THEOREM LastAnswerConcludesHolds ==
    ASSUME "toggle" \notin Ops
    PROVE  GameSpec => []LastAnswerConcludes
  <1> DEFINE I == HostInv /\ FreshInv /\ RoundInv
  <1>1. StartedInit => I
    <2> SUFFICES ASSUME StartedInit PROVE I
      OBVIOUS
    <2>1. session.host = Host /\ hostFlag = {Host} /\ answered = {}
      BY NewTypes DEF StartedInit, NewSession, Session
    <2>2. \A r \in Requests : req[r].op = "none"
      BY DEF StartedInit, NewRequest
    <2>3. ~AllAnswered(GameContenders, answered)
      BY <2>1 DEF AllAnswered
    <2> QED BY <2>1, <2>2, <2>3 DEF HostInv, LeavesTheHost, FreshInv, RoundInv
  <1>2. TypeInv /\ StartedInv /\ I /\ [Next]_vars => I'
    BY HostStep, FreshStep, RoundStep
  <1>3. RoundInv /\ TypeInv => LastAnswerConcludes
    <2> SUFFICES ASSUME RoundInv, Settled, NoInheritedSpectator,
                        AllAnswered(GameContenders, answered)
                 PROVE  session.index \in concluded \/ LeftOpen
      BY DEF LastAnswerConcludes
    <2>1. ASSUME NEW r \in Requests, SeesTheRound(req[r]) PROVE LeftOpen
      BY <2>1 DEF Settled, Resting, SeesTheRound, Final, LeftOpen
    <2> QED BY <2>1 DEF RoundInv, Settled
  <1>4. TypeInv /\ I => LastAnswerConcludes
    BY <1>3
  <1> HIDE DEF I
  <1> QED BY <1>1, <1>2, <1>4, GameInvHolds, PTL DEF GameSpec

-----------------------------------------------------------------------------
(* Credits and answers: the sum of a function with a finite domain.          *)

Pick(s) == CHOOSE x \in s : TRUE
Adds(f, S, g) ==
    g = [s \in SUBSET S |-> IF s = {} THEN 0 ELSE f[Pick(s)] + g[s \ {Pick(s)}]]
Added(f, S) == CHOOSE g : Adds(f, S, g)

\* A family of subsets of a finite set is empty if each of them includes a smaller one: this
\* is induction on finite sets without a predicate as a parameter.
LEMMA Descent ==
    ASSUME NEW S, IsFiniteSet(S), NEW B, B \subseteq SUBSET S,
           \A s \in B : \E t \in B : t \subseteq s /\ t # s
    PROVE  B = {}
  <1> SUFFICES ASSUME B # {} PROVE FALSE
    OBVIOUS
  <1>1. B \subseteq FiniteSubsetsOf(S)
    BY FS_Subset DEF FiniteSubsetsOf
  <1>2. IsWellFoundedOn(StrictSubsetOrdering(S), FiniteSubsetsOf(S))
    BY FS_StrictSubsetOrderingWellFounded
  <1>3. PICK s \in B : \A t \in B : ~(<<t, s>> \in StrictSubsetOrdering(S))
    BY <1>1, <1>2, WFMin
  <1>4. PICK t \in B : t \subseteq s /\ t # s
    OBVIOUS
  <1>5. <<t, s>> \in StrictSubsetOrdering(S)
    BY <1>4 DEF StrictSubsetOrdering
  <1> QED BY <1>3, <1>5

\* The recursive definition of the sum has a solution: one that is right on the sets of at
\* most n elements gives one that is right on those of n + 1.
LEMMA SumExists ==
    ASSUME NEW S, IsFiniteSet(S), NEW f
    PROVE  \E g : Adds(f, S, g)
  <1> DEFINE Rhs(g, s) == IF s = {} THEN 0 ELSE f[Pick(s)] + g[s \ {Pick(s)}]
             Upto(g, C) == \A s \in SUBSET S : Cardinality(s) <= Cardinality(C) => g[s] = Rhs(g, s)
             B == {C \in SUBSET S : ~\E g : Upto(g, C)}
  <1>1. \A s \in SUBSET S : s # {} => Pick(s) \in s
    BY DEF Pick
  <1> HIDE DEF Rhs
  <1>2. ASSUME NEW C \in B PROVE \E t \in B : t \subseteq C /\ t # C
    <2>1. IsFiniteSet(C) /\ Cardinality(C) \in Nat
      BY FS_Subset, FS_CardinalityType
    <2>2. C # {}
      <3> SUFFICES ASSUME C = {} PROVE FALSE
        OBVIOUS
      <3> DEFINE g == [s \in SUBSET S |-> 0]
      <3>1. ASSUME NEW s \in SUBSET S, Cardinality(s) <= Cardinality(C) PROVE g[s] = Rhs(g, s)
        <4>1. IsFiniteSet(s) /\ Cardinality(s) \in Nat
          BY FS_Subset, FS_CardinalityType
        <4>2. Cardinality(s) = 0
          BY <3>1, <4>1, FS_EmptySet
        <4>3. s = {}
          BY <4>1, <4>2, FS_EmptySet
        <4> QED BY <4>3 DEF Rhs
      <3>2. Upto(g, C)
        BY <3>1
      <3> HIDE DEF g
      <3> QED BY <3>2
    <2> DEFINE t == C \ {Pick(C)}
    <2>3. t \in SUBSET S /\ t \subseteq C /\ t # C /\ Cardinality(t) = Cardinality(C) - 1
      BY <1>1, <2>1, <2>2, FS_RemoveElement
    <2>4. ASSUME NEW g, Upto(g, t) PROVE FALSE
      <3> DEFINE h == [s \in SUBSET S |-> Rhs(g, s)]
      <3>1. ASSUME NEW s \in SUBSET S, Cardinality(s) <= Cardinality(C) PROVE h[s] = Rhs(h, s)
        <4>1. CASE s = {}
          BY <4>1 DEF Rhs
        <4>2. CASE s # {}
          <5> DEFINE r == s \ {Pick(s)}
          <5>1. IsFiniteSet(s) /\ Cardinality(s) \in Nat
            BY FS_Subset, FS_CardinalityType
          <5>2. r \in SUBSET S /\ Cardinality(r) = Cardinality(s) - 1
            BY <1>1, <4>2, <5>1, FS_RemoveElement
          <5>3. Cardinality(r) <= Cardinality(t)
            BY <2>1, <2>3, <3>1, <5>1, <5>2
          <5>4. g[r] = h[r]
            BY <2>4, <5>2, <5>3
          <5> QED BY <4>2, <5>4 DEF Rhs
        <4> QED BY <4>1, <4>2
      <3>2. Upto(h, C)
        BY <3>1
      <3> HIDE DEF h
      <3> QED BY <3>2
    <2>5. t \in B
      BY <2>3, <2>4
    <2> QED BY <2>3, <2>5
  <1>3. B = {}
    <2> HIDE DEF B
    <2>1. B \subseteq SUBSET S
      BY DEF B
    <2> QED BY <1>2, <2>1, Descent
  <1>4. PICK g : Upto(g, S)
    BY <1>3
  <1> DEFINE h == [s \in SUBSET S |-> g[s]]
  <1>5. \A s \in SUBSET S : g[s] = Rhs(g, s)
    BY <1>4, FS_Subset, FS_CardinalityType
  <1>6. ASSUME NEW s \in SUBSET S PROVE h[s] = Rhs(h, s)
    BY <1>5 DEF Rhs
  <1>7. h = [s \in SUBSET S |-> IF s = {} THEN 0 ELSE f[Pick(s)] + h[s \ {Pick(s)}]]
    BY <1>6 DEF Rhs
  <1>8. Adds(f, S, h)
    <2> HIDE DEF h
    <2> QED BY <1>7 DEF Adds
  <1> HIDE DEF h
  <1> QED BY <1>8

\* The sum over a set and over its subsets
LEMMA SumIs ==
    ASSUME NEW S, IsFiniteSet(S), NEW f, NEW s \in SUBSET S
    PROVE  Added(f, S)[s] = IF s = {} THEN 0 ELSE f[Pick(s)] + Added(f, S)[s \ {Pick(s)}]
  <1>1. Adds(f, S, Added(f, S))
    BY SumExists DEF Added
  <1> HIDE DEF Added
  <1> QED BY <1>1 DEF Adds

\* A sum of naturals is a natural, a sum of integers an integer.
LEMMA SumType ==
    ASSUME NEW S, IsFiniteSet(S), NEW f, NEW T \in {Nat, Int}, \A x \in S : f[x] \in T
    PROVE  \A s \in SUBSET S : Added(f, S)[s] \in T
  <1> DEFINE B == {s \in SUBSET S : Added(f, S)[s] \notin T}
  <1>0. 0 \in T /\ \A x, y \in T : x + y \in T
    OBVIOUS
  <1>1. ASSUME NEW s \in B PROVE \E t \in B : t \subseteq s /\ t # s
    <2>1. s \in SUBSET S /\ Added(f, S)[s] \notin T
      OBVIOUS
    <2>2. Added(f, S)[s] = IF s = {} THEN 0 ELSE f[Pick(s)] + Added(f, S)[s \ {Pick(s)}]
      BY <2>1, SumIs
    <2>3. s # {}
      BY <1>0, <2>1, <2>2
    <2>4. Pick(s) \in s
      BY <2>3 DEF Pick
    <2>5. Added(f, S)[s \ {Pick(s)}] \notin T
      BY <1>0, <2>1, <2>2, <2>3, <2>4
    <2> QED BY <2>1, <2>4, <2>5
  <1>2. B = {}
    <2>1. B \subseteq SUBSET S
      OBVIOUS
    <2> HIDE DEF B
    <2> QED BY <1>1, <2>1, Descent
  <1> QED BY <1>2

\* A sum changes by what one of its terms changes.
LEMMA SumChanges ==
    ASSUME NEW S, IsFiniteSet(S), NEW f, NEW g, NEW i \in S,
           \A x \in S : f[x] \in Int /\ g[x] \in Int,
           \A x \in S \ {i} : g[x] = f[x]
    PROVE  Added(g, S)[S] = Added(f, S)[S] + (g[i] - f[i])
  <1> DEFINE Diff(s) == IF i \in s THEN g[i] - f[i] ELSE 0
             B == {s \in SUBSET S : Added(g, S)[s] # Added(f, S)[s] + Diff(s)}
  <1>0. \A s \in SUBSET S : Added(f, S)[s] \in Int /\ Added(g, S)[s] \in Int
    BY SumType
  <1>1. ASSUME NEW s \in B PROVE \E t \in B : t \subseteq s /\ t # s
    <2>0. /\ s \in SUBSET S /\ Added(g, S)[s] # Added(f, S)[s] + Diff(s)
          /\ Added(f, S)[s] = IF s = {} THEN 0 ELSE f[Pick(s)] + Added(f, S)[s \ {Pick(s)}]
          /\ Added(g, S)[s] = IF s = {} THEN 0 ELSE g[Pick(s)] + Added(g, S)[s \ {Pick(s)}]
      BY SumIs
    <2>1. s # {}
      BY <2>0
    <2> DEFINE x == Pick(s)
               t == s \ {x}
    <2>2. x \in s /\ t \in SUBSET S /\ t \subseteq s /\ t # s
      BY <2>1 DEF Pick
    <2>3. Added(f, S)[s] = f[x] + Added(f, S)[t] /\ Added(g, S)[s] = g[x] + Added(g, S)[t]
      BY <2>0, <2>1
    <2>4. /\ Added(f, S)[t] \in Int /\ Added(g, S)[t] \in Int
          /\ f[x] \in Int /\ g[x] \in Int /\ f[i] \in Int /\ g[i] \in Int
      BY <1>0, <2>2
    <2> HIDE DEF x
    <2>5. t \in B
      <3>1. CASE x = i
        BY <2>2, <2>3, <2>4, <3>1
      <3>2. CASE x # i
        <4>1. g[x] = f[x] /\ Diff(t) = Diff(s)
          BY <2>2, <3>2
        <4> QED BY <2>2, <2>3, <2>4, <4>1
      <3> QED BY <3>1, <3>2
    <2> QED BY <2>2, <2>5
  <1>2. B = {}
    <2>1. B \subseteq SUBSET S
      OBVIOUS
    <2> HIDE DEF B
    <2> QED BY <1>1, <2>1, Descent
  <1>3. Added(g, S)[S] = Added(f, S)[S] + Diff(S)
    BY <1>2
  <1> QED BY <1>3

\* The answers of a player are the sum of his rows, before a step and after it.
LEMMA RowsAre ==
    /\ \A u \in Users : AnswerRows(u) = Added(answers[u], DOMAIN answers[u])[DOMAIN answers[u]]
    /\ \A u \in Users : AnswerRows(u)' = Added(answers'[u], DOMAIN answers'[u])[DOMAIN answers'[u]]
  <1>1. \A u \in Users : AnswerRows(u) = Added(answers[u], DOMAIN answers[u])[DOMAIN answers[u]]
    BY Zenon DEF AnswerRows, FoldFunction, FoldFunctionOnSet, MapThenFoldSet, Added, Adds, Pick
  <1>2. (\A u \in Users : AnswerRows(u) = Added(answers[u], DOMAIN answers[u])[DOMAIN answers[u]])'
    BY <1>1, PTL
  <1> QED BY <1>1, <1>2

\* There are finitely many questions.
LEMMA IndexIsFinite == IsFiniteSet(Index)
  BY DuelBounds, FS_Interval DEF Index

\* They are a number, which depends on the rows only, and one more when he gives one.
LEMMA RowsCount ==
    ASSUME DataOK, NEW u \in Users
    PROVE  /\ AnswerRows(u) = Added(answers[u], Index)[Index]
           /\ AnswerRows(u) \in Nat
           /\ answers'[u] = answers[u] => AnswerRows(u)' = AnswerRows(u)
  <1>1. IsFiniteSet(Index)
    BY IndexIsFinite
  <1>2. DOMAIN answers[u] = Index /\ \A i \in Index : answers[u][i] \in Nat
    BY DEF DataOK
  <1>3. AnswerRows(u) = Added(answers[u], Index)[Index]
    BY <1>2, RowsAre
  <1>4. Added(answers[u], Index)[Index] \in Nat
    BY <1>1, <1>2, SumType
  <1>5. answers'[u] = answers[u] => AnswerRows(u)' = AnswerRows(u)
    BY RowsAre
  <1> QED BY <1>3, <1>4, <1>5

\* One more answer of a player is one more in his sum, and in no other.
LEMMA OneMoreRow ==
    ASSUME DataOK, NEW u \in Users, NEW i \in Index,
           answers' = [answers EXCEPT ![u][i] = @ + 1]
    PROVE  /\ AnswerRows(u)' = AnswerRows(u) + 1
           /\ \A v \in Users \ {u} : AnswerRows(v)' = AnswerRows(v)
  <1>1. IsFiniteSet(Index)
    BY IndexIsFinite
  <1>2. /\ DOMAIN answers'[u] = Index
        /\ \A j \in Index : answers[u][j] \in Int /\ answers'[u][j] \in Int
        /\ \A j \in Index \ {i} : answers'[u][j] = answers[u][j]
        /\ answers'[u][i] = answers[u][i] + 1
        /\ \A v \in Users \ {u} : answers'[v] = answers[v]
    BY DEF DataOK
  <1>3. AnswerRows(u)' = Added(answers'[u], Index)[Index]
    BY <1>2, RowsAre
  <1>4. Added(answers'[u], Index)[Index]
            = Added(answers[u], Index)[Index] + (answers'[u][i] - answers[u][i])
    BY <1>1, <1>2, SumChanges
  <1>5. AnswerRows(u) = Added(answers[u], Index)[Index] /\ AnswerRows(u) \in Nat
    BY RowsCount
  <1>6. AnswerRows(u)' = AnswerRows(u) + 1
    BY <1>2, <1>3, <1>4, <1>5
  <1>7. \A v \in Users \ {u} : AnswerRows(v)' = AnswerRows(v)
    BY <1>2, RowsCount
  <1> QED BY <1>6, <1>7

\* What the steps of a started game do to the credits and the answers
LEMMA CreditSteps ==
    ASSUME TypeInv, StartedInv, NEW r \in Requests, Step(r)
    PROVE  \/ UNCHANGED <<answers, answersCount>>
           \/ AnswerWrite(r) \/ LeaveGameDelete(r) \/ KickDelete(r)
  <1>0. ~LobbyPoint(req[r])
    BY DEF StartedInv
  <1>1. CASE ExpireOnRead(r) \/ JoinSpectator(r) \/ JoinRead(r)
    BY <1>1 DEF ExpireOnRead, JoinSpectator, JoinRead, rowVars, gameLog
  <1>2. ~(JoinCommit(r) \/ StartLock(r) \/ StartCheck(r) \/ StartRun(r) \/ StartReset(r)
          \/ DeclineWrite(r) \/ ThemeWrite(r) \/ DelegateWrite(r)
          \/ LeaveCancel(r) \/ LeaveLobbyDelete(r) \/ LeaveChooser(r))
    BY <1>0 DEF LobbyPoint, At, JoinCommit, StartLock, StartCheck, StartRun, StartReset,
        DeclineWrite, ThemeWrite, DelegateWrite, LeaveCancel, LeaveLobbyDelete, LeaveChooser
  <1>3. CASE Reread(r) \/ LeaveCount(r) \/ LeaveCheck(r) \/ KickCount(r)
    BY <1>3, RereadIs, LeaveCountIs, LeaveCheckIs, KickCountIs DEF Rest, rowVars, gameLog
  <1>4. CASE \/ LeaveForfeit(r) \/ LeaveAbandon(r) \/ LeavePromoteRow(r)
             \/ LeavePromoteSession(r)
    BY <1>4 DEF LeaveForfeit, LeaveAbandon, LeavePromoteRow, LeavePromoteSession, rowVars, gameLog
  <1>5. CASE AnswerGuard(r) \/ AnswerRead(r) \/ AnswerCount(r) \/ Conclude(r)
    BY <1>5, AnswerGuardIs, AnswerReadIs, AnswerCountIs, ConcludeIs DEF Rest, rowVars, gameLog
  <1>6. CASE ConcludeRank(r) \/ AdvancePodium(r) \/ Pay(r)
    BY <1>6, ConcludeRankIs, PodiumIs, PayIs DEF rowVars, gameLog
  <1>7. CASE AnswerLock(r) \/ AdvanceIndex(r) \/ AdvanceReset(r)
    BY <1>7 DEF AnswerLock, AdvanceIndex, AdvanceReset, rowVars, gameLog
  <1> QED BY <1>1, <1>2, <1>3, <1>4, <1>5, <1>6, <1>7 DEF Step, LobbyStep, GameStep

CreditInv == \A u \in Users : answersCount[u] <= AnswerRows(u)

\* CreditInv is inductive.
LEMMA CreditStep == TypeInv /\ StartedInv /\ CreditInv /\ [Next]_vars => CreditInv'
  <1> SUFFICES ASSUME TypeInv, StartedInv, CreditInv, [Next]_vars, NEW u \in Users
               PROVE  answersCount'[u] <= AnswerRows(u)'
    BY DEF CreditInv
  <1>0. /\ answersCount[u] \in Nat /\ AnswerRows(u) \in Nat /\ answersCount[u] <= AnswerRows(u)
        /\ answersCount \in [Users -> Nat]
    BY RowsCount DEF TypeInv, DataOK, CreditInv
  <1>1. ASSUME UNCHANGED <<answers, answersCount>> PROVE answersCount'[u] <= AnswerRows(u)'
    BY <1>0, <1>1, RowsCount DEF TypeInv
  <1>2. ASSUME NEW r \in Requests, AnswerWrite(r) PROVE answersCount'[u] <= AnswerRows(u)'
    <2>0. PICK w, i : w = req[r].user /\ i = req[r].snap.session.index
      OBVIOUS
    <2>1. CASE w \in players
      <3>1. w \in Users /\ i \in Index
        BY <2>0, <2>1, FieldsOK, SnapOK DEF TypeInv, DataOK, Session
      <3>2. /\ answers' = [answers EXCEPT ![w][i] = @ + 1]
            /\ answersCount' = [answersCount EXCEPT ![w] = @ + 1]
        BY <1>2, <2>0, <2>1 DEF AnswerWrite
      <3>3. /\ AnswerRows(w)' = AnswerRows(w) + 1
            /\ u # w => AnswerRows(u)' = AnswerRows(u)
        BY <3>1, <3>2, OneMoreRow DEF TypeInv
      <3> QED BY <1>0, <3>1, <3>2, <3>3
    <2>2. CASE w \notin players
      BY <1>1, <1>2, <2>0, <2>2 DEF AnswerWrite
    <2> QED BY <2>1, <2>2
  <1>3. ASSUME NEW w, DeleteRow(w), answers' = answers PROVE answersCount'[u] <= AnswerRows(u)'
    <2>1. answersCount'[u] = 0 \/ answersCount'[u] = answersCount[u]
      BY <1>0, <1>3 DEF DeleteRow
    <2>2. AnswerRows(u)' = AnswerRows(u)
      BY <1>3, RowsCount DEF TypeInv
    <2> QED BY <1>0, <2>1, <2>2
  <1>4. ASSUME NEW r \in Requests, Step(r) PROVE answersCount'[u] <= AnswerRows(u)'
    <2>1. CASE LeaveGameDelete(r) \/ KickDelete(r)
      <3>1. /\ DeleteRow(req[r].user) \/ DeleteRow(req[r].target)
            /\ answers' = answers
        BY <2>1 DEF LeaveGameDelete, KickDelete, gameLog
      <3> QED BY <1>3, <3>1
    <2> QED BY <1>1, <1>2, <1>4, <2>1, CreditSteps
  <1>5. ASSUME NEW r \in Requests, Call(r) PROVE answersCount'[u] <= AnswerRows(u)'
    BY <1>1, <1>5, StartedCalls DEF rowVars, gameLog
  <1>6. ASSUME Environment \/ Sweeper \/ UNCHANGED vars PROVE answersCount'[u] <= AnswerRows(u)'
    BY <1>1, <1>6, StartedBackground DEF rowVars
  <1> QED BY <1>4, <1>5, <1>6 DEF Next

\* No score without an answer in the table: however submissions of one player cross each
\* other, kicks and departures that delete his row, he is never credited for more answers
\* than are recorded (multiplayer.service.ts:1626-1650).
THEOREM NoCreditWithoutAnswerHolds == GameSpec => []NoCreditWithoutAnswer
  <1>1. StartedInit => CreditInv
    <2> SUFFICES ASSUME StartedInit PROVE CreditInv
      OBVIOUS
    <2>1. DataOK
      BY TypeInit DEF TypeInv
    <2>2. \A u \in Users : answersCount[u] = 0 /\ AnswerRows(u) \in Nat
      BY <2>1, RowsCount DEF StartedInit
    <2> QED BY <2>2 DEF CreditInv
  <1>2. TypeInv /\ CreditInv => NoCreditWithoutAnswer
    BY DEF TypeInv, DataOK, CreditInv, NoCreditWithoutAnswer
  <1> QED BY <1>1, <1>2, CreditStep, GameInvHolds, PTL DEF GameSpec
=============================================================================
