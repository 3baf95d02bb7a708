--------------------------- MODULE EventRegistration ---------------------------
(***************************************************************************)
(* One event of events.service.ts: its row, its event_participations, the  *)
(* requests of participants and administrators, and the life-cycle cron.   *)
(* A handler takes one step per awaited query.  A READ COMMITTED           *)
(* transaction reads in one step and writes in the step that commits it;   *)
(* in between it holds the row it has updated.                             *)
(***************************************************************************)
EXTENDS Integers, FiniteSets

CONSTANTS
    Users,             \* users who may take part
    NoUser,            \* SQL NULL
    MaxParticipants,   \* capacity; 0 stands for NULL, no limit
    EnableWaitlist,    \* enableWaitlist
    WaitlistCapacity,  \* waitlistCapacity; 0 stands for NULL, no limit
    OpenAccess,        \* participationType is OPEN
    Deadline,          \* last clock value at which registrations are taken
    FirstStatus,       \* status in which the event is first observed
    AdminStatuses,     \* statuses an administrator sets by hand
    Requests,          \* the requests; each runs once
    Ops,               \* the operations and timers of this instance
    Serial             \* TRUE when a request starts after the others returned

EventStatus == {"DRAFT", "SCHEDULED", "PUBLISHED", "ACTIVE", "SUSPENDED",
                "COMPLETED", "CANCELLED", "ARCHIVED"}

ASSUME EventBounds ==
    /\ NoUser \notin Users /\ IsFiniteSet(Users)
    /\ MaxParticipants \in Nat /\ WaitlistCapacity \in Nat /\ Deadline \in 0 .. 2
    /\ EnableWaitlist \in BOOLEAN /\ OpenAccess \in BOOLEAN /\ Serial \in BOOLEAN
    /\ FirstStatus \in EventStatus /\ AdminStatuses \subseteq EventStatus

VARIABLES
    status,     \* events.status, or "DELETED"
    clock,      \* 0 before startDate, 1 until endDate, 2 after
    count,      \* events.currentParticipantsCount
    part,       \* status of each user's participation, or "NONE"
    position,   \* waitlistPosition, 0 for NULL
    done,       \* users whose progressPercent is 100
    older,      \* <<u, v>> : the row of u has an earlier createdAt than v's
    ahead,      \* history, <<u, v>> : both wait, and u has waited longer
    req,        \* the requests
    cron        \* progress of the life-cycle cron

rows == <<count, part, position, done, older, ahead>>
vars == <<status, clock, rows, req, cron>>

PartStatus == {"NONE", "REGISTERED", "WAITLIST", "IN_PROGRESS", "COMPLETED", "CANCELLED"}
Confirmed == {"REGISTERED", "IN_PROGRESS"}
Final == {"ok", "refused"}
Steps == {"new", "existing", "register", "reactivate", "waitCount", "waitWrite",
          "adminFind", "cancelTx", "cancelCommit", "progressFind", "progressCreate",
          "progressCount", "progressWrite", "archive", "delete"}
OpNames == {"none", "participate", "cancel", "adminCancel", "progress", "delete", "status"}
Request == [op : OpNames, user : Users \cup {NoUser}, pc : Steps \cup Final,
            full : BOOLEAN, positive : BOOLEAN, seen : PartStatus, finished : BOOLEAN,
            place : Nat, next : Users \cup {NoUser}]
NewRequest == [op |-> "none", user |-> NoUser, pc |-> "new",
               full |-> FALSE, positive |-> FALSE, seen |-> "NONE", finished |-> FALSE,
               place |-> 0, next |-> NoUser]

Init ==
    /\ status = FirstStatus /\ clock = 0
    /\ count = 0 /\ part = [u \in Users |-> "NONE"]
    /\ position = [u \in Users |-> 0]
    /\ done = {} /\ older = {} /\ ahead = {}
    /\ req = [r \in Requests |-> NewRequest]
    /\ cron = "idle"

-----------------------------------------------------------------------------
Resting == \A r \in Requests : req[r].pc \in Final \cup {"new"}
Exists == status # "DELETED"
InStatus(S) == {u \in Users : part[u] \in S}
Occupying == InStatus(Confirmed \cup {"COMPLETED"})
Waitlist == InStatus({"WAITLIST"})
IsFull == MaxParticipants # 0 /\ count >= MaxParticipants

\* Nobody else holds the row of u.
Free(r, u) == \A q \in Requests \ {r} : ~(req[q].pc = "cancelCommit" /\ req[q].user = u)

\* Plausible bug: the status of the next participant is not looked at.
NextInWaitlistAny(u) ==
    LET S == InStatus({"WAITLIST", "CANCELLED"}) \ {u} IN IF S = {} THEN {NoUser} ELSE S
\* First of the waiting list, leaving out u: by position, then by createdAt.
ComesBefore(u, v) == \/ position[u] < position[v]
                     \/ position[u] = position[v] /\ <<u, v>> \in older
NextInWaitlist(u) ==
    LET S == Waitlist \ {u}
    IN  IF S = {} THEN {NoUser} ELSE {v \in S : \A w \in S \ {v} : ComesBefore(v, w)}

\* The first query of a handler; s is the status of the row when it is read too.
Begin(r, op, u, pc, s) ==
    /\ op \in Ops /\ req[r].pc = "new"
    /\ Serial => Resting
    /\ req' = [req EXCEPT ![r] =
                 IF pc \in Final THEN [NewRequest EXCEPT !.op = op, !.pc = pc]
                 ELSE [NewRequest EXCEPT !.op = op, !.user = u, !.pc = pc, !.seen = s,
                                         !.full = IsFull, !.positive = count > 0]]
Finish(r, result) ==
    req' = [req EXCEPT ![r] = [NewRequest EXCEPT !.op = req[r].op, !.pc = result]]
Goto(r, pc) == IF pc \in Final THEN Finish(r, pc) ELSE req' = [req EXCEPT ![r].pc = pc]


\* The rows of S get status s; whoever starts waiting is behind those who wait.
SetPart(S, s, place) ==
    /\ part' = [u \in Users |-> IF u \in S THEN s ELSE part[u]]
    /\ position' = [u \in Users |-> IF u \in S THEN place ELSE position[u]]
    /\ ahead' = {p \in ahead : p[1] \notin S /\ p[2] \notin S}
                    \cup IF s = "WAITLIST" THEN (Waitlist \ S) \X S ELSE {}
CreatePart(u, s, place) ==
    /\ SetPart({u}, s, place)
    /\ older' = older \cup ((Users \ InStatus({"NONE"})) \X {u})
    /\ UNCHANGED done

-----------------------------------------------------------------------------
(* Plausible bugs: mutated forms of definitions below, used by no run but   *)
(* by the mutation check of the properties.                                 *)

\* A registration writes the counter from what the request had read.
RegisterFromRead(r) ==
    LET u == req[r].user IN
    /\ req[r].pc = "register"
    /\ IF ~Exists \/ part[u] # "NONE"
       THEN Finish(r, "refused") /\ UNCHANGED rows
       ELSE /\ CreatePart(u, "REGISTERED", 0)
            /\ count' = (IF req[r].positive THEN count + 1 ELSE 1)
            /\ Finish(r, "ok")
    /\ UNCHANGED <<status, clock, cron>>

\* The deletion looks at the counter instead of the rows.
HasHistoryByCounter == count > 0

\* The cron looks for published events.
CronActivateFindPublished ==
    /\ "cron" \in Ops /\ cron = "idle"
    /\ cron' = IF status = "PUBLISHED" /\ clock >= 1 THEN "activate" ELSE "activated"
    /\ UNCHANGED <<status, clock, rows, req>>

-----------------------------------------------------------------------------
(* participateInEvent                                                      *)

ParticipateLoad(r, u) ==
    /\ Begin(r, "participate", u,
             IF status \in {"PUBLISHED", "ACTIVE"} /\ clock <= Deadline
             THEN "existing" ELSE "refused", "NONE")
    /\ UNCHANGED <<status, clock, rows, cron>>

\* Decided on the user's row now, and on the counter as it was read before.
AfterExisting(r, s) ==
    CASE s \notin {"NONE", "CANCELLED"} -> "ok"
      [] s = "NONE" /\ ~req[r].full -> "register"
      [] s = "CANCELLED" /\ ~req[r].full -> "reactivate"
      [] s \in {"NONE", "CANCELLED"} /\ req[r].full /\ EnableWaitlist -> "waitCount"
      [] OTHER -> "refused"
ParticipateExisting(r) ==
    LET s == part[req[r].user]
        pc == AfterExisting(r, s)
    IN
    /\ req[r].pc = "existing"
    /\ IF pc \in Final THEN Finish(r, pc)
       ELSE req' = [req EXCEPT ![r].pc = pc, ![r].seen = s]
    /\ UNCHANGED <<status, clock, rows, cron>>

Register(r) ==
    LET u == req[r].user IN
    /\ req[r].pc = "register"
    /\ IF ~Exists \/ part[u] # "NONE"
       THEN Finish(r, "refused") /\ UNCHANGED rows
       ELSE CreatePart(u, "REGISTERED", 0) /\ count' = count + 1 /\ Finish(r, "ok")
    /\ UNCHANGED <<status, clock, cron>>

Reactivate(r) ==
    LET u == req[r].user IN
    /\ req[r].pc = "reactivate" /\ Free(r, u)
    /\ IF ~Exists
       THEN Finish(r, "refused") /\ UNCHANGED rows
       ELSE /\ SetPart({u}, "REGISTERED", 0) /\ count' = count + 1
            /\ Finish(r, "ok") /\ UNCHANGED <<done, older>>
    /\ UNCHANGED <<status, clock, cron>>

\* The number on the waiting list is its length plus one, as counted here.
WaitCount(r) ==
    LET n == Cardinality(Waitlist) IN
    /\ req[r].pc = "waitCount"
    /\ IF WaitlistCapacity # 0 /\ n >= WaitlistCapacity THEN Finish(r, "refused")
       ELSE req' = [req EXCEPT ![r].pc = "waitWrite", ![r].place = n + 1]
    /\ UNCHANGED <<status, clock, rows, cron>>
\* A new participant gets a row, once; a cancelled one has its row updated by id.
WaitWrite(r) ==
    LET u == req[r].user
        first == req[r].seen = "NONE"
    IN
    /\ req[r].pc = "waitWrite" /\ Free(r, u)
    /\ IF ~Exists \/ (first /\ part[u] # "NONE")
       THEN Finish(r, "refused") /\ UNCHANGED rows
       ELSE /\ IF first THEN CreatePart(u, "WAITLIST", req[r].place)
               ELSE SetPart({u}, "WAITLIST", req[r].place) /\ UNCHANGED <<done, older>>
            /\ UNCHANGED count /\ Finish(r, "ok")
    /\ UNCHANGED <<status, clock, cron>>

-----------------------------------------------------------------------------
(* cancelParticipation and adminCancelParticipant                          *)

CancelLoad(r, u) ==
    /\ Begin(r, "cancel", u,
             IF part[u] = "NONE" \/ clock >= 1 THEN "refused" ELSE "cancelTx", part[u])
    /\ UNCHANGED <<status, clock, rows, cron>>

AdminCancelLoad(r, u) ==
    /\ Begin(r, "adminCancel", u, IF Exists THEN "adminFind" ELSE "refused", "NONE")
    /\ UNCHANGED <<status, clock, rows, cron>>
AdminCancelFind(r) ==
    LET s == part[req[r].user] IN
    /\ req[r].pc = "adminFind"
    /\ IF s \in {"NONE", "CANCELLED"} THEN Finish(r, "refused")
       ELSE req' = [req EXCEPT ![r].pc = "cancelTx", ![r].seen = s]
    /\ UNCHANGED <<status, clock, rows, cron>>

\* The transaction updates the row, then looks for somebody to promote if the
\* row, as it was read before, held a seat.
CancelTx(r) ==
    /\ req[r].pc = "cancelTx" /\ Free(r, req[r].user)
    /\ IF ~Exists THEN Finish(r, "refused")
       ELSE \E v \in IF req[r].seen \in Confirmed
                     THEN NextInWaitlist(req[r].user) ELSE {NoUser} :
              req' = [req EXCEPT ![r].pc = "cancelCommit", ![r].next = v]
    /\ UNCHANGED <<status, clock, rows, cron>>
CancelCommit(r) ==
    LET u == req[r].user
        v == req[r].next
        freed == req[r].seen \in Confirmed
        S == {u, v} \ {NoUser}
    IN
    /\ req[r].pc = "cancelCommit" /\ Free(r, v)
    /\ part' = [w \in Users |-> CASE w = v -> "REGISTERED"
                                  [] w = u /\ w # v -> "CANCELLED"
                                  [] OTHER -> part[w]]
    /\ position' = [w \in Users |-> IF w \in S THEN 0 ELSE position[w]]
    /\ ahead' = {p \in ahead : p[1] \notin S /\ p[2] \notin S}
    /\ count' = IF freed /\ v = NoUser /\ req[r].positive THEN count - 1 ELSE count
    /\ Finish(r, "ok")
    /\ UNCHANGED <<status, clock, done, older, cron>>

-----------------------------------------------------------------------------
(* submitProgress                                                          *)

ProgressLoad(r, u) ==
    /\ Begin(r, "progress", u,
             IF status = "ACTIVE" /\ clock < 2 THEN "progressFind" ELSE "refused", "NONE")
    /\ UNCHANGED <<status, clock, rows, cron>>
ProgressFind(r) ==
    LET u == req[r].user IN
    /\ req[r].pc = "progressFind"
    /\ CASE part[u] # "NONE" -> req' = [req EXCEPT ![r].pc = "progressWrite",
                                                   ![r].finished = u \in done]
         [] part[u] = "NONE" /\ OpenAccess -> Goto(r, "progressCreate")
         [] OTHER -> Finish(r, "refused")
    /\ UNCHANGED <<status, clock, rows, cron>>
ProgressCreate(r) ==
    LET u == req[r].user IN
    /\ req[r].pc = "progressCreate"
    /\ IF ~Exists \/ part[u] # "NONE"
       THEN Finish(r, "refused") /\ UNCHANGED rows
       ELSE CreatePart(u, "IN_PROGRESS", 0) /\ UNCHANGED count /\ Goto(r, "progressCount")
    /\ UNCHANGED <<status, clock, cron>>
ProgressCount(r) ==
    /\ req[r].pc = "progressCount"
    /\ IF Exists THEN count' = count + 1 /\ Goto(r, "progressWrite")
       ELSE UNCHANGED count /\ Finish(r, "refused")
    /\ UNCHANGED <<status, clock, part, position, done, older, ahead, cron>>
\* An update by id: whatever the row has become, it is in progress or completed.
ProgressWrite(r) ==
    LET u == req[r].user IN
    /\ req[r].pc = "progressWrite" /\ Free(r, u)
    /\ IF ~Exists THEN Finish(r, "refused") /\ UNCHANGED rows
       ELSE \E complete \in BOOLEAN :
              LET isCompleted == complete \/ req[r].finished IN
              /\ SetPart({u}, IF isCompleted THEN "COMPLETED" ELSE "IN_PROGRESS",
                         position[u])
              /\ done' = IF isCompleted THEN done \cup {u} ELSE done \ {u}
              /\ Finish(r, "ok") /\ UNCHANGED <<count, older>>
    /\ UNCHANGED <<status, clock, cron>>

-----------------------------------------------------------------------------
(* updateEventStatus, deleteEvent and the clock                            *)

UpdateStatus(r) ==
    /\ Begin(r, "status", NoUser, IF Exists THEN "ok" ELSE "refused", "NONE")
    /\ IF Exists THEN status' \in AdminStatuses ELSE UNCHANGED status
    /\ UNCHANGED <<clock, rows, cron>>

HasHistory == InStatus({"NONE"}) # Users
DeleteLoad(r) ==
    /\ Begin(r, "delete", NoUser, CASE ~Exists -> "refused"
                                    [] Exists /\ HasHistory -> "archive"
                                    [] OTHER -> "delete", "NONE")
    /\ UNCHANGED <<status, clock, rows, cron>>
Archive(r) ==
    /\ req[r].pc = "archive"
    /\ IF Exists THEN status' = "ARCHIVED" /\ Finish(r, "ok")
       ELSE UNCHANGED status /\ Finish(r, "refused")
    /\ UNCHANGED <<clock, rows, cron>>
\* The participations go with the event (onDelete: Cascade).
Delete(r) ==
    /\ req[r].pc = "delete" /\ \A u \in Users : Free(r, u)
    /\ IF ~Exists THEN Finish(r, "refused") /\ UNCHANGED <<status, rows>>
       ELSE /\ status' = "DELETED"
            /\ SetPart(Users, "NONE", 0)
            /\ count' = 0 /\ done' = {} /\ older' = {}
            /\ Finish(r, "ok")
    /\ UNCHANGED <<clock, cron>>

Tick ==
    /\ "clock" \in Ops /\ clock < 2
    /\ clock' = clock + 1
    /\ UNCHANGED <<status, rows, req, cron>>

-----------------------------------------------------------------------------
(* EventLifecycleScheduler: each phase finds events, then updates them by  *)
(* id; an update of a deleted event throws and ends the run.               *)

CronActivateFind ==
    /\ "cron" \in Ops /\ cron = "idle"
    /\ cron' = IF status = "SCHEDULED" /\ clock >= 1 THEN "activate" ELSE "activated"
    /\ UNCHANGED <<status, clock, rows, req>>
CronActivate ==
    /\ cron = "activate"
    /\ IF Exists THEN status' = "ACTIVE" /\ cron' = "activated"
       ELSE UNCHANGED status /\ cron' = "idle"
    /\ UNCHANGED <<clock, rows, req>>
CronCompleteFind ==
    /\ cron = "activated"
    /\ cron' = IF status = "ACTIVE" /\ clock = 2 THEN "complete" ELSE "idle"
    /\ UNCHANGED <<status, clock, rows, req>>
CronComplete ==
    /\ cron = "complete"
    /\ status' = (IF Exists THEN "COMPLETED" ELSE status) /\ cron' = "idle"
    /\ UNCHANGED <<clock, rows, req>>

-----------------------------------------------------------------------------
Step(r) == \/ ParticipateExisting(r) \/ Register(r) \/ Reactivate(r)
           \/ WaitCount(r) \/ WaitWrite(r)
           \/ AdminCancelFind(r) \/ CancelTx(r) \/ CancelCommit(r)
           \/ ProgressFind(r) \/ ProgressCreate(r) \/ ProgressCount(r) \/ ProgressWrite(r)
           \/ Archive(r) \/ Delete(r)
Call(r) == \/ \E u \in Users : \/ ParticipateLoad(r, u) \/ CancelLoad(r, u)
                               \/ AdminCancelLoad(r, u) \/ ProgressLoad(r, u)
           \/ UpdateStatus(r) \/ DeleteLoad(r)
Cron == CronActivateFind \/ CronActivate \/ CronCompleteFind \/ CronComplete
Next == (\E r \in Requests : Step(r) \/ Call(r)) \/ Tick \/ Cron

Spec == Init /\ [][Next]_vars
\* Handlers that have begun go on, and the cron runs every quarter of an hour.
FairSpec == Spec /\ \A r \in Requests : WF_vars(Step(r)) /\ WF_vars(Cron)

-----------------------------------------------------------------------------
(* Properties                                                              *)

\* Rows, requests and the counter keep their types; a number on the waiting
\* list is never negative.
TypeOK ==
    /\ status \in EventStatus \cup {"DELETED"} /\ clock \in 0 .. 2
    /\ count \in Int /\ part \in [Users -> PartStatus]
    /\ position \in [Users -> Nat]
    /\ done \in SUBSET Users
    /\ older \in SUBSET (Users \X Users) /\ ahead \in SUBSET (Users \X Users)
    /\ req \in [Requests -> Request]
    /\ cron \in {"idle", "activate", "activated", "complete"}

\* When no request is running, currentParticipantsCount is the number of
\* confirmed participations: registrations increment it, cancellations give the
\* seat away or decrement it (538-554, 632-674).
CounterMatches == Resting => count = Cardinality(Occupying)

\* Requests that follow each other do what the abstract allocation of seats allows,
\* whatever they read in one step and write in another: a seat given back is handed
\* over in one step, and nobody is seated past a waiting list (465-555, 612-680).
AllocatesSeats ==
    INSTANCE SeatAllocation WITH Seats <- MaxParticipants, Places <- WaitlistCapacity,
                                 seated <- Occupying, waiting <- Waitlist
ImplementsSeatAllocation == AllocatesSeats!Spec

\* An event with participations is never deleted, only archived (1753-1780).
HistoryIsKept ==
    [][status' = "DELETED" /\ status # "DELETED" => InStatus({"NONE"}) = Users]_vars

\* A scheduled event whose start date has passed does not stay scheduled: the
\* cron of every quarter of an hour finds it (event-lifecycle.scheduler.ts:19-66).
ScheduledStarts == clock >= 1 /\ status = "SCHEDULED" ~> status # "SCHEDULED"

-----------------------------------------------------------------------------
(* What comments of the code promise, and races or long histories break:   *)
(* TLC refutes each on the instance that README.md gives.                  *)

\* There are never more confirmed participations than maxParticipants (465-474).
Capacity == MaxParticipants # 0 => Cardinality(Occupying) <= MaxParticipants

\* At rest nobody waits while a seat is free: a freed seat goes to the first of
\* the waiting list, and only a full event has one (465-500, 632-662).
WaitingMeansFull ==
    Resting /\ Waitlist # {} => MaxParticipants # 0 /\ Cardinality(Occupying) >= MaxParticipants

\* Nobody is promoted from the waiting list past somebody who has waited longer:
\* the promotion takes the first of the list (635-655).
WaitlistIsFair ==
    [][\A u, v \in Users : <<u, v>> \in ahead /\ part[v] = "WAITLIST"
          /\ part'[v] = "REGISTERED" => part'[u] # "WAITLIST"]_vars

\* The counter is left alone by a promotion because one seat is freed and one is
\* given: a cancellation that promotes somebody leaves as many confirmed
\* participations as before (646-662).
PromotionTakesTheSeat ==
    [][\A r \in Requests :
          req[r].pc = "cancelCommit" /\ req[r].next # NoUser /\ req'[r].pc = "ok"
              => Cardinality(Occupying') = Cardinality(Occupying)]_vars

\* The cron activates scheduled events: it never wakes an event that an
\* administrator has cancelled (event-lifecycle.scheduler.ts:48-66).
CancelledStaysCancelled ==
    [][cron = "activate" /\ status = "CANCELLED" => status' # "ACTIVE"]_vars

\* A completed participation is not put back in progress by a submission that
\* had read the row before its completion (713, 766-785).
CompletionIsKept == [][\A u \in Users : u \in done /\ Exists' => u \in done']_vars

\* Only who is registered plays in an event with registration: a submission does
\* not turn a cancelled or a waiting participant into an active one (759-762).
OnlyRegisteredPlay ==
    [][~OpenAccess => \A u \in Users : part[u] \in {"CANCELLED", "WAITLIST"}
          => part'[u] \notin {"IN_PROGRESS", "COMPLETED"}]_vars
=============================================================================
