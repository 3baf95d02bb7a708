-------------------------- MODULE Contribution_proofs --------------------------
(***************************************************************************)
(* Proofs about Contribution for every set of users, comments and          *)
(* requests, and every bound.                                              *)
(***************************************************************************)
EXTENDS Contribution, FiniteSetTheorems, WellFoundedInduction, TLAPS

\* A comment that a request is about is one, the thread that a reply goes to is not
\* itself a reply, and a moderator decides one of three things.
Targets ==
    \A r \in Requests :
        /\ At(r, "validate", "write") => req[r].outcome \in {"approve", "changes", "reject"}
        /\ At(r, "comment", "parent") \/ At(r, "uncomment", "write") => req[r].target \in Comments
        /\ At(r, "comment", "write") /\ req[r].target # "root"
              => parent[req[r].target] \in {"root", "deleted"}

\* A countdown was started by the last notice; the purge found one that was over.
Countdowns ==
    /\ row.status \in Gone => row.due = 0
    /\ row.due # 0 => notice # 0 /\ row.due = notice + 1
    /\ purge = "delete" => searched # 0 /\ searched + 1 <= day

\* An edit has a row to edit; if no two have crossed, the one that runs will leave a text
\* whose wording was screened.
Editing(r) == Running(r) /\ req[r].op \in Edits
Undisturbed == incidents \cap {"edit", "crash"} = {}
Editors ==
    /\ \A r \in Requests : Editing(r) => row.status # "NONE"
    /\ \A r \in Requests : req[r].pc = "screen" => Editing(r)
    /\ Undisturbed =>
        /\ \A q, r \in Requests : Editing(q) /\ Editing(r) => q = r
        /\ \A r \in Requests :
              /\ Editing(r) /\ req[r].pc = "screen" /\ There => req[r].text = row.text
              /\ At(r, "update", "write") /\ ~req[r].screens /\ row.status = "PENDING_REVIEW"
                    => /\ Wording[req[r].text] = Wording[row.text]
                       /\ Wording[row.screened] = Wording[row.text]
        /\ (\A r \in Requests : ~Editing(r)) /\ row.status = "PENDING_REVIEW"
              => Wording[row.screened] = Wording[row.text]

\* The sum of f over every subset of S, as MapThenSumSet of the community modules adds it up
Pick(s) == CHOOSE x \in s : TRUE
Adds(f, S, g) ==
    g = [s \in SUBSET S |-> IF s = {} THEN 0 ELSE f[Pick(s)] + g[s \ {Pick(s)}]]
Added(f, S) == CHOOSE g : Adds(f, S, g)

\* The votes that run have something to vote for. As long as no user sends two at once,
\* each changes the vote that it has read, and the score is their sum, with those that
\* went with an account.
Voting(r) == Running(r) /\ req[r].op = "vote"
Given == [u \in Users |-> votes[u] + gone[u]]
Voters ==
    /\ \A r \in Requests : Voting(r) => row.status # "NONE"
    /\ \A u \in accounts : gone[u] = 0
    /\ "vote" \notin incidents =>
        /\ \A q, r \in Requests : Voting(q) /\ Voting(r) /\ req[q].user = req[r].user => q = r
        /\ \A r \in Requests : At(r, "vote", "commit") /\ There /\ req[r].user \in accounts
                                  => req[r].old = votes[req[r].user]
        /\ score = Added(Given, Users)[Users]

ContributionInv == TypeOK /\ Targets /\ RepliesAreFlat /\ Countdowns /\ Editors /\ Voters

-----------------------------------------------------------------------------
(* How a step changes the requests and the row                             *)

LEMMA NewTyped ==
    ASSUME TypeOK, NEW op \in Operations \cup {"none"}, NEW pc \in {"new"} \cup Steps \cup Final
    PROVE  New(op, pc) \in Request
  <1>1. NewRequest \in Request
    BY ContributionBounds DEF NewRequest, Request, Gone, Outcomes
  <1> QED BY <1>1 DEF New, Request

LEMMA NewFields ==
    ASSUME NEW op, NEW pc
    PROVE  New(op, pc).op = op /\ New(op, pc).pc = pc
  BY DEF New, NewRequest

\* A request that goes on keeps its operation and what it carries.
LEMMA GotoFields ==
    ASSUME TypeOK, NEW r \in Requests, NEW pc, Goto(r, pc) \/ Finish(r, pc)
    PROVE  /\ req'[r].op = req[r].op /\ req'[r].pc = pc
           /\ \A q \in Requests \ {r} : req'[q] = req[q]
  <1>1. req[r] \in Request
    BY DEF TypeOK
  <1>2. [req[r] EXCEPT !.pc = pc].op = req[r].op /\ [req[r] EXCEPT !.pc = pc].pc = pc
    BY <1>1 DEF Request
  <1>3. PICK x \in {New(req[r].op, pc), [req[r] EXCEPT !.pc = pc]} : req' = [req EXCEPT ![r] = x]
    BY DEF Goto, Finish
  <1>4. x.op = req[r].op /\ x.pc = pc
    <2>1. x = New(req[r].op, pc) \/ x = [req[r] EXCEPT !.pc = pc]
      OBVIOUS
    <2>2. CASE x = New(req[r].op, pc)
      BY <2>2, NewFields
    <2>3. CASE x = [req[r] EXCEPT !.pc = pc]
      BY <1>2, <2>3
    <2> QED BY <2>1, <2>2, <2>3
  <1> QED BY <1>3, <1>4 DEF TypeOK

\* A request that begins has the operation that it is given.
LEMMA BeginFields ==
    ASSUME TypeOK, NEW r \in Requests, NEW new, Begin(r, new)
    PROVE  /\ req'[r].op = new.op /\ req'[r].pc = new.pc /\ (new.pc \notin Final => req'[r] = new)
           /\ \A q \in Requests \ {r} : req'[q] = req[q]
  <1>1. req'[r] = IF new.pc \in Final THEN New(new.op, new.pc) ELSE new
    BY DEF Begin, TypeOK
  <1> QED BY <1>1, NewFields DEF TypeOK, Begin

\* A request begins.
LEMMA BeginTyped ==
    ASSUME TypeOK, NEW r \in Requests, NEW new \in Request, Begin(r, new)
    PROVE  /\ req' \in [Requests -> Request]
           /\ incidents' \subseteq {"edit", "vote", "crash"} /\ incidents \subseteq incidents'
  <1>1. New(new.op, new.pc) \in Request
    BY NewTyped DEF Request
  <1>2. req' \in [Requests -> Request]
    BY <1>1 DEF Begin, TypeOK
  <1>3. Crosses(new.op, new.user) => Kind(new.op) \in {"edit", "vote"}
    BY DEF Crosses
  <1> QED BY <1>2, <1>3 DEF Begin, TypeOK

\* A request goes on or ends.
LEMMA GotoTyped ==
    ASSUME TypeOK, NEW r \in Requests, NEW pc \in Steps \cup Final, Goto(r, pc) \/ Finish(r, pc)
    PROVE  req' \in [Requests -> Request]
  <1>1. req[r] \in Request
    BY DEF TypeOK
  <1>2. New(req[r].op, pc) \in Request
    BY <1>1, NewTyped DEF Request
  <1>3. [req[r] EXCEPT !.pc = pc] \in Request
    BY <1>1 DEF Request
  <1> QED BY <1>2, <1>3 DEF TypeOK, Goto, Finish

LEMMA UpdateTyped ==
    ASSUME TypeOK, NEW r \in Requests, NEW new \in Contributed, NEW pc \in Steps \cup Final,
           UpdateRow(r, new, pc), new.due <= day + 1
    PROVE  /\ row' \in Contributed /\ req' \in [Requests -> Request] /\ row'.due <= day + 1
  BY GotoTyped DEF UpdateRow, TypeOK, Final

LEMMA RowTyped ==
    ASSUME TypeOK, NEW s \in Statuses \cup Gone
    PROVE  NewRow(s) \in Contributed /\ NewRow(s).due = 0 /\ NewRow(s).status = s
  BY ContributionBounds DEF NewRow, Contributed, Disputes, TypeOK

LEMMA DeleteTyped ==
    ASSUME TypeOK, DeleteRow
    PROVE  /\ row' \in Contributed /\ row'.due = 0 /\ row'.status = "DELETED"
           /\ votes' \in [Users -> -1..1] /\ gone' \in [Users -> -1..1] /\ score' \in Int
           /\ parent' \in [Comments -> Comments \cup {"root", "unused", "deleted"}]
           /\ \A c \in Comments : parent'[c] \in {"unused", "deleted"}
  <1>1. NewRow("NONE") \in Contributed /\ NewRow("NONE").due = 0
    BY RowTyped DEF Gone
  <1>2. row' = [NewRow("NONE") EXCEPT !.status = "DELETED"]
    BY DEF DeleteRow
  <1>3. row' \in Contributed /\ row'.due = 0 /\ row'.status = "DELETED"
    BY <1>1, <1>2 DEF Contributed, Gone
  <1> QED BY <1>3 DEF DeleteRow, TypeOK, Kept

-----------------------------------------------------------------------------
(* The types                                                               *)

LEMMA TypeInit == Init => TypeOK
  <1> SUFFICES ASSUME Init PROVE TypeOK
    OBVIOUS
  <1>1. PICK s \in FirstStatus :
           /\ row = NewRow(s) /\ catalogue = IF s = "APPROVED" THEN 1 ELSE 0
           /\ parent = [c \in Comments |-> IF c = NewId(Comments) /\ s # "NONE"
                                           THEN "root" ELSE "unused"]
    BY DEF Init
  <1>2. row \in Contributed /\ row.due = 0
    BY <1>1, ContributionBounds DEF NewRow, Contributed, Disputes, Gone
  <1>3. NewRequest \in Request
    BY ContributionBounds DEF NewRequest, Request, Gone, Outcomes
  <1>4. day \in 1..MaxDay /\ row.due <= day + 1 /\ 0 \in 0..MaxDay
    BY <1>2, ContributionBounds DEF Init
  <1>5. parent \in [Comments -> Comments \cup {"root", "unused", "deleted"}]
    BY <1>1
  <1> QED BY <1>1, <1>2, <1>3, <1>4, <1>5 DEF Init, TypeOK

\* The first query of a handler
LEMMA CallTyped ==
    ASSUME TypeOK, NEW r \in Requests, Call(r)
    PROVE  TypeOK'
  <1> USE DEF Steps, Final, Outcomes
  <1>0. /\ \A op \in Operations : \A pc \in Steps \cup Final : New(op, pc) \in Request
        /\ row \in Contributed
    BY NewTyped DEF TypeOK
  <1>1. CASE Create(r)
    <2>1. PICK draft \in BOOLEAN :
             /\ Begin(r, [New("create", IF draft THEN "ok" ELSE "screen") EXCEPT !.text = 1])
             /\ row' = [NewRow(IF draft THEN "DRAFT" ELSE "PENDING_REVIEW")
                           EXCEPT !.text = 1, !.screened = 0]
      BY <1>1 DEF Create
    <2> DEFINE new == New("create", IF draft THEN "ok" ELSE "screen")
    <2>2. new \in Request
      BY <1>0 DEF Operations, Edits
    <2>3. [new EXCEPT !.text = 1] \in Request
      BY <2>2, ContributionBounds DEF Request
    <2> DEFINE new2 == NewRow(IF draft THEN "DRAFT" ELSE "PENDING_REVIEW")
    <2>4. new2 \in Contributed /\ new2.due = 0
      BY RowTyped DEF Statuses
    <2>6. row' = [new2 EXCEPT !.text = 1, !.screened = 0]
      BY <2>1
    <2>7. 1 \in 0..MaxText /\ 0 \in 0..MaxText
      BY ContributionBounds
    <2> HIDE DEF new2
    <2>8. [new2 EXCEPT !.text = 1, !.screened = 0] \in Contributed
      BY <2>4, <2>7 DEF Contributed
    <2>9. [new2 EXCEPT !.text = 1, !.screened = 0].due = 0
      BY <2>4 DEF Contributed
    <2>5. row' \in Contributed /\ row'.due = 0
      BY <2>6, <2>8, <2>9
    <2> QED BY <1>1, <2>1, <2>3, <2>5, BeginTyped DEF Create, TypeOK, texts
  <1>2. ASSUME NEW new \in Request, Begin(r, new),
               UNCHANGED <<day, accounts, row, catalogue, texts, purge, notice, searched>>
        PROVE  TypeOK'
    BY <1>2, BeginTyped DEF TypeOK, texts
  <1>3. CASE SubmitLoad(r)
    <2> DEFINE q == New("submit", IF row.status \in {"DRAFT", "CHANGES_REQUESTED"}
                                  THEN "screen" ELSE "failed")
    <2>1. q \in Request
      BY <1>0 DEF Operations, Edits
    <2>2. [q EXCEPT !.text = row.text] \in Request
      BY <1>0, <2>1 DEF Request, Contributed
    <2> QED BY <1>2, <1>3, <2>2 DEF SubmitLoad
  <1>4. CASE UpdateLoad(r)
    <2>1. PICK who \in Admins \cup {Author}, late \in BOOLEAN, submit \in BOOLEAN, t \in 1..MaxText :
             Begin(r, [New("update", IF MayUpdate(who \in Admins, late) THEN "write" ELSE "failed")
                       EXCEPT !.user = who, !.text = t,
                              !.screens = \/ row.status = "DRAFT" /\ submit
                                          \/ row.status = "CHANGES_REQUESTED"
                                          \/ row.status = "PENDING_REVIEW" /\ Wording[t] # Wording[row.text]])
      BY <1>4 DEF UpdateLoad
    <2> DEFINE q == New("update", IF MayUpdate(who \in Admins, late) THEN "write" ELSE "failed")
    <2>2. q \in Request
      BY <1>0 DEF Operations, Edits
    <2>3. ASSUME NEW b \in BOOLEAN
          PROVE  [q EXCEPT !.user = who, !.text = t, !.screens = b] \in Request
      <3>1. who \in Users /\ t \in 0..MaxText
        BY ContributionBounds
      <3> QED BY <2>2, <3>1, ZenonT(60) DEF Request
    <2> HIDE DEF q
    <2> QED BY <1>2, <1>4, <2>1, <2>3 DEF UpdateLoad, q
  <1>5. CASE ValidateLoad(r)
    <2>1. PICK admin \in Admins, outcome \in {"approve", "changes", "reject"} :
             Begin(r, [New("validate", IF There /\ ~(outcome = "approve" /\ admin = Author)
                                       THEN "write" ELSE "failed")
                          EXCEPT !.user = admin, !.outcome = outcome])
      BY <1>5 DEF ValidateLoad
    <2> DEFINE q == New("validate", IF There /\ ~(outcome = "approve" /\ admin = Author)
                                    THEN "write" ELSE "failed")
    <2>2. q \in Request
      BY <1>0 DEF Operations
    <2>3. [q EXCEPT !.user = admin, !.outcome = outcome] \in Request
      <3>1. admin \in Users
        BY ContributionBounds
      <3>2. outcome \in {"none", "approve", "changes", "reject", "accept", "refuse"}
        OBVIOUS
      <3> HIDE DEF q
      <3> QED BY <2>2, <3>1, <3>2 DEF Request
    <2> QED BY <1>2, <1>5, <2>1, <2>3 DEF ValidateLoad
  <1>6. CASE RemoveLoad(r)
    <2>1. PICK isAdmin \in BOOLEAN, late \in BOOLEAN :
             Begin(r, [New("remove", IF There /\ (isAdmin \/ row.status = "DRAFT" \/ ~late)
                                     THEN "write" ELSE "failed") EXCEPT !.seen = row.status])
      BY <1>6 DEF RemoveLoad
    <2> DEFINE q == New("remove", IF There /\ (isAdmin \/ row.status = "DRAFT" \/ ~late)
                                  THEN "write" ELSE "failed")
    <2>2. q \in Request
      BY <1>0 DEF Operations
    <2>3. [q EXCEPT !.seen = row.status] \in Request
      BY <1>0, <2>2 DEF Request, Contributed
    <2> QED BY <1>2, <1>6, <2>1, <2>3 DEF RemoveLoad
  <1>7. CASE VoteLoad(r)
    <2>1. PICK u \in accounts, v \in -1..1 :
             Begin(r, [New("vote", IF row.status = "APPROVED" /\ u # Author
                                   THEN "read" ELSE "failed") EXCEPT !.user = u, !.value = v])
      BY <1>7 DEF VoteLoad
    <2> DEFINE q == New("vote", IF row.status = "APPROVED" /\ u # Author THEN "read" ELSE "failed")
    <2>2. q \in Request
      BY <1>0 DEF Operations
    <2>3. [q EXCEPT !.user = u, !.value = v] \in Request
      BY <2>2 DEF Request, TypeOK
    <2> QED BY <1>2, <1>7, <2>1, <2>3 DEF VoteLoad
  <1>8. CASE CommentLoad(r)
    <2>1. PICK target \in Comments \cup {"root"} :
             Begin(r, [New("comment", CASE ~CommentsOpen -> "failed"
                                        [] CommentsOpen /\ target = "root" -> "write"
                                        [] OTHER -> "parent") EXCEPT !.target = target])
      BY <1>8 DEF CommentLoad
    <2> DEFINE pc == CASE ~CommentsOpen -> "failed"
                       [] CommentsOpen /\ target = "root" -> "write"
                       [] OTHER -> "parent"
    <2>2. pc \in {"failed", "write", "parent"}
      OBVIOUS
    <2> HIDE DEF pc
    <2>3. New("comment", pc) \in Request
      BY <1>0, <2>2 DEF Operations
    <2>4. [New("comment", pc) EXCEPT !.target = target] \in Request
      BY <2>3 DEF Request
    <2> QED BY <1>2, <1>8, <2>1, <2>4 DEF CommentLoad, pc
  <1>9. CASE UncommentLoad(r)
    <2>1. PICK c \in Comments :
             Begin(r, [New("uncomment", IF Kept(c) THEN "write" ELSE "failed")
                          EXCEPT !.target = c])
      BY <1>9 DEF UncommentLoad
    <2> DEFINE q == New("uncomment", IF Kept(c) THEN "write" ELSE "failed")
    <2>2. q \in Request
      BY <1>0 DEF Operations
    <2>3. [q EXCEPT !.target = c] \in Request
      BY <2>2 DEF Request
    <2> QED BY <1>2, <1>9, <2>1, <2>3 DEF UncommentLoad
  <1>10. CASE ConfirmLoad(r)
    <2>1. New("confirm", IF There THEN "write" ELSE "failed") \in Request
      BY <1>0 DEF Operations
    <2> QED BY <1>2, <1>10, <2>1 DEF ConfirmLoad
  <1>11. CASE DisputeLoad(r)
    <2>1. New("dispute", IF There /\ row.dup THEN "write" ELSE "failed") \in Request
      BY <1>0 DEF Operations
    <2> QED BY <1>2, <1>11, <2>1 DEF DisputeLoad
  <1>12. CASE ResolveLoad(r)
    <2>1. PICK admin \in Admins, outcome \in {"accept", "refuse"} :
             Begin(r, [New("resolve", IF There /\ row.dispute = "PENDING" THEN "write" ELSE "failed")
                          EXCEPT !.user = admin, !.outcome = outcome])
      BY <1>12 DEF ResolveLoad
    <2> DEFINE q == New("resolve", IF There /\ row.dispute = "PENDING" THEN "write" ELSE "failed")
    <2>2. q \in Request
      BY <1>0 DEF Operations
    <2>3. [q EXCEPT !.user = admin, !.outcome = outcome] \in Request
      <3>1. admin \in Users
        BY ContributionBounds
      <3>2. outcome \in {"none", "approve", "changes", "reject", "accept", "refuse"}
        OBVIOUS
      <3> HIDE DEF q
      <3> QED BY <2>2, <3>1, <3>2 DEF Request
    <2> QED BY <1>2, <1>12, <2>1, <2>3 DEF ResolveLoad
  <1> QED BY <1>1, <1>3, <1>4, <1>5, <1>6, <1>7, <1>8, <1>9, <1>10, <1>11, <1>12 DEF Call

\* The queries that follow
LEMMA StepTyped ==
    ASSUME TypeOK, Targets, NEW r \in Requests, Step(r)
    PROVE  TypeOK'
  <1> USE DEF Steps, Final
  <1>0. /\ row \in Contributed /\ row.due <= day + 1 /\ day \in 1..MaxDay /\ day \in 0..MaxDay
        /\ req[r] \in Request
    BY ContributionBounds DEF TypeOK
  <1>1. /\ 0 \in 0..(MaxDay + 1) /\ Countdown \in 0..(MaxDay + 1) /\ Countdown <= day + 1
        /\ 0 <= day + 1 /\ row.due \in 0..(MaxDay + 1) /\ row.due <= day + 1
    BY <1>0, ContributionBounds DEF Countdown, Contributed
  <1>2. CASE Screen(r)
    <2>1. [row EXCEPT !.status = "PENDING_REVIEW", !.screened = req[r].text] \in Contributed
      BY <1>0 DEF Contributed, Request, Statuses
    <2>2. [row EXCEPT !.status = "PENDING_REVIEW", !.screened = req[r].text].due = row.due
      BY <1>0 DEF Contributed
    <2> QED BY <1>1, <1>2, <2>1, <2>2, UpdateTyped DEF Screen, TypeOK, texts, history
  <1>3. CASE UpdateWrite(r)
    <2>1. [row EXCEPT !.text = req[r].text] \in Contributed
      BY <1>0 DEF Contributed, Request
    <2>2. [row EXCEPT !.text = req[r].text].due = row.due
      BY <1>0 DEF Contributed
    <2> QED BY <1>1, <1>3, <2>1, <2>2, UpdateTyped DEF UpdateWrite, TypeOK, texts, history
  <1>4. CASE ValidateWrite(r)
    <2>1. Verdict(req[r].outcome) \in Statuses
      BY <1>4 DEF ValidateWrite, Targets, Verdict, Statuses
    <2>2. [row EXCEPT !.status = Verdict(req[r].outcome)] \in Contributed
      BY <1>0, <2>1 DEF Contributed
    <2>3. [row EXCEPT !.status = Verdict(req[r].outcome)].due = row.due
      BY <1>0 DEF Contributed
    <2>4. row' \in Contributed /\ row'.due <= day + 1 /\ req' \in [Requests -> Request]
      BY <1>1, <1>4, <2>2, <2>3, UpdateTyped DEF ValidateWrite
    <2>5. catalogue' \in Nat
      BY <1>4 DEF ValidateWrite, TypeOK
    <2> QED BY <1>4, <2>4, <2>5 DEF ValidateWrite, TypeOK, texts, history
  <1>5. CASE RemoveWrite(r)
    <2>1. CASE There /\ req[r].seen = "DRAFT"
      <3>1. DeleteRow /\ Finish(r, "ok")
        BY <1>5, <2>1 DEF RemoveWrite
      <3>2. req' \in [Requests -> Request]
        BY <3>1, GotoTyped
      <3> QED BY <1>1, <1>5, <3>1, <3>2, DeleteTyped DEF RemoveWrite, TypeOK, history
    <2>2. CASE ~(There /\ req[r].seen = "DRAFT")
      <3>1. [row EXCEPT !.status = "ARCHIVED"] \in Contributed
        BY <1>0 DEF Contributed, Statuses
      <3>2. [row EXCEPT !.status = "ARCHIVED"].due = row.due
        BY <1>0 DEF Contributed
      <3>3. row' \in Contributed /\ row'.due <= day + 1 /\ req' \in [Requests -> Request]
        BY <1>1, <1>5, <2>2, <3>1, <3>2, UpdateTyped DEF RemoveWrite
      <3> QED BY <1>5, <2>2, <3>3 DEF RemoveWrite, TypeOK, history, texts
    <2> QED BY <2>1, <2>2
  <1>6. CASE VoteRead(r)
    <2>1. [[req[r] EXCEPT !.pc = "commit"] EXCEPT !.old = votes[req[r].user]] \in Request
      <3>1. votes[req[r].user] \in -1..1
        BY <1>0 DEF TypeOK, Request
      <3> QED BY <1>0, <3>1 DEF Request
    <2>2. req' = [req EXCEPT ![r] = [[req[r] EXCEPT !.pc = "commit"] EXCEPT !.old = votes[req[r].user]]]
      BY <1>6 DEF VoteRead, TypeOK
    <2>3. req' \in [Requests -> Request]
      BY <2>1, <2>2 DEF TypeOK
    <2> QED BY <1>6, <2>3 DEF VoteRead, TypeOK, texts, history
  <1>7. CASE VoteCommit(r)
    <2>1. req' \in [Requests -> Request]
      BY <1>7, GotoTyped DEF VoteCommit
    <2>2. /\ req[r].value \in -1..1 /\ req[r].user \in Users
          /\ Delta(req[r].old, req[r].value) \in Int
      BY <1>0 DEF Request, Delta
    <2>3. votes' \in [Users -> -1..1]
      BY <1>7, <2>2 DEF VoteCommit, TypeOK
    <2>4. score' \in Int
      BY <1>7, <2>2 DEF VoteCommit, TypeOK
    <2> QED BY <1>7, <2>1, <2>3, <2>4 DEF VoteCommit, TypeOK, history
  <1>8. CASE CommentParent(r)
    <2>1. req[r].target \in Comments
      BY <1>8 DEF CommentParent, Targets
    <2>2. Kept(req[r].target) => Thread(req[r].target) \in Comments \cup {"root"}
      BY <2>1 DEF Thread, Kept, TypeOK
    <2>3. CASE Kept(req[r].target)
      <3> DEFINE next == [[req[r] EXCEPT !.pc = "write"] EXCEPT !.target = Thread(req[r].target)]
      <3>1. next \in Request
        BY <1>0, <2>2, <2>3 DEF Request
      <3>2. req' = [req EXCEPT ![r] = next]
        BY <1>8, <2>3, <1>0 DEF CommentParent, TypeOK, Request
      <3>3. req' \in [Requests -> Request]
        BY <3>1, <3>2 DEF TypeOK
      <3> QED BY <1>8, <3>3 DEF CommentParent, TypeOK, texts, history
    <2>4. CASE ~Kept(req[r].target)
      <3>1. req' \in [Requests -> Request]
        BY <1>8, <2>4, GotoTyped DEF CommentParent
      <3> QED BY <1>8, <3>1 DEF CommentParent, TypeOK, texts, history
    <2> QED BY <2>3, <2>4
  <1>9. CASE CommentCreate(r)
    <2>1. req' \in [Requests -> Request]
      BY <1>9, GotoTyped DEF CommentCreate
    <2>2. parent' \in [Comments -> Comments \cup {"root", "unused", "deleted"}]
      BY <1>0, <1>9 DEF CommentCreate, TypeOK, Request
    <2> QED BY <1>9, <2>1, <2>2 DEF CommentCreate, TypeOK, history
  <1>10. CASE UncommentWrite(r)
    <2>1. req' \in [Requests -> Request]
      BY <1>10, GotoTyped DEF UncommentWrite
    <2>2. parent' \in [Comments -> Comments \cup {"root", "unused", "deleted"}]
      BY <1>10 DEF UncommentWrite, TypeOK
    <2> QED BY <1>10, <2>1, <2>2 DEF UncommentWrite, TypeOK, history
  <1>11. CASE ConfirmWrite(r)
    <2> DEFINE new == [row EXCEPT !.status = "DRAFT", !.dup = TRUE, !.due = Countdown]
    <2>1. new \in Contributed /\ new.due = Countdown
      BY <1>0, <1>1 DEF Contributed, Statuses
    <2>2. row' \in Contributed /\ row'.due <= day + 1 /\ req' \in [Requests -> Request]
      BY <1>1, <1>11, <2>1, UpdateTyped DEF ConfirmWrite
    <2> QED BY <1>0, <1>11, <2>2 DEF ConfirmWrite, TypeOK, texts
  <1>12. CASE DisputeWrite(r)
    <2> DEFINE new == [row EXCEPT !.dispute = "PENDING", !.due = 0]
    <2>1. new \in Contributed /\ new.due = 0
      BY <1>0, <1>1 DEF Contributed, Disputes
    <2>2. row' \in Contributed /\ row'.due <= day + 1 /\ req' \in [Requests -> Request]
      BY <1>1, <1>12, <2>1, UpdateTyped DEF DisputeWrite
    <2> QED BY <1>12, <2>2 DEF DisputeWrite, TypeOK, texts, history
  <1>13. CASE ResolveWrite(r)
    <2> DEFINE back == [row EXCEPT !.status = "APPROVED", !.dup = FALSE, !.due = 0,
                                   !.dispute = "ACCEPTED"]
               again == [row EXCEPT !.dispute = "REJECTED", !.due = Countdown]
    <2>1. back \in Contributed /\ back.due = 0
      BY <1>0, <1>1 DEF Contributed, Statuses, Disputes
    <2>2. again \in Contributed /\ again.due = Countdown
      BY <1>0, <1>1 DEF Contributed, Disputes
    <2>3. UpdateRow(r, back, "ok") \/ UpdateRow(r, again, "ok")
      BY <1>13 DEF ResolveWrite
    <2> HIDE DEF back, again
    <2>4. row' \in Contributed /\ row'.due <= day + 1 /\ req' \in [Requests -> Request]
      BY <1>1, <2>1, <2>2, <2>3, UpdateTyped
    <2>5. notice' \in 0..MaxDay
      BY <1>0, <1>13 DEF ResolveWrite, TypeOK
    <2> QED BY <1>13, <2>4, <2>5 DEF ResolveWrite, TypeOK, texts
  <1> QED BY <1>2, <1>3, <1>4, <1>5, <1>6, <1>7, <1>8, <1>9, <1>10, <1>11, <1>12, <1>13 DEF Step

\* An account is deleted.
LEMMA DepartTyped ==
    ASSUME TypeOK, NEW u \in Users, Depart(u)
    PROVE  TypeOK'
  <1>1. accounts' \subseteq Users /\ UNCHANGED <<day, catalogue, req, purge, history>>
    BY DEF Depart, TypeOK
  <1>2. CASE DeleteRow
    BY <1>1, <1>2, DeleteTyped, ContributionBounds DEF TypeOK, history
  <1>3. CASE /\ votes' = [votes EXCEPT ![u] = 0] /\ gone' = [gone EXCEPT ![u] = votes[u]]
             /\ \E his \in SUBSET {c \in Comments : Kept(c)} :
                   parent' = [c \in Comments |-> IF \E d \in his : c \in Removed(d)
                                                  THEN "deleted" ELSE parent[c]]
             /\ UNCHANGED <<row, score>>
    <2>1. votes' \in [Users -> -1..1] /\ gone' \in [Users -> -1..1]
      BY <1>3 DEF TypeOK
    <2>2. parent' \in [Comments -> Comments \cup {"root", "unused", "deleted"}]
      BY <1>3 DEF TypeOK
    <2> QED BY <1>1, <1>3, <2>1, <2>2 DEF TypeOK, history
  <1> QED BY <1>2, <1>3 DEF Depart

LEMMA TypeStep == TypeOK /\ Targets /\ [Next]_vars => TypeOK'
  <1> SUFFICES ASSUME TypeOK, Targets, [Next]_vars PROVE TypeOK'
    OBVIOUS
  <1>1. CASE UNCHANGED vars
    BY <1>1 DEF vars, texts, history, TypeOK
  <1>2. ASSUME NEW r \in Requests, Call(r) \/ Step(r)
        PROVE  TypeOK'
    BY <1>2, CallTyped, StepTyped
  <1>3. ASSUME NEW r \in Requests, Crash(r)
        PROVE  TypeOK'
    <2>1. req' \in [Requests -> Request]
      BY <1>3, GotoTyped DEF Crash, Final
    <2> QED BY <1>3, <2>1 DEF Crash, TypeOK, texts
  <1>4. CASE PurgeFind
    BY <1>4 DEF PurgeFind, TypeOK, texts
  <1>5. CASE PurgeDelete
    <2>1. CASE There
      BY <1>5, <2>1, DeleteTyped, ContributionBounds DEF PurgeDelete, TypeOK, history
    <2>2. CASE ~There
      BY <1>5, <2>2 DEF PurgeDelete, TypeOK, history, texts
    <2> QED BY <2>1, <2>2
  <1>6. CASE Tick
    <2>1. day' \in 1..MaxDay /\ row.due \in Int
      BY <1>6, ContributionBounds DEF Tick, TypeOK, Contributed
    <2> QED BY <1>6, <2>1 DEF Tick, TypeOK, texts, history
  <1> QED BY <1>1, <1>2, <1>3, <1>4, <1>5, <1>6, DepartTyped DEF Next

-----------------------------------------------------------------------------
(* Threads                                                                 *)

\* What a comment is answered to changes for a new comment, or when it goes.
Threads == Targets /\ RepliesAreFlat
Spent(c) == parent[c] \in {"unused", "deleted"}

LEMMA GoneStayFlat ==
    ASSUME TypeOK, Threads, TypeOK', req' = req \/ \E r \in Requests, pc \in Final : Finish(r, pc),
           \A c \in Comments : parent'[c] # parent[c] =>
               /\ parent'[c] = "deleted"
               /\ \A d \in Comments : parent[d] = c => parent'[d] = "deleted"
    PROVE  Threads'
  <1>1. RepliesAreFlat'
    <2> SUFFICES ASSUME NEW c \in Comments, parent'[c] \in Comments
                 PROVE  parent'[parent'[c]] = "root"
      BY DEF RepliesAreFlat
    <2>1. parent'[c] = parent[c]
      BY ContributionBounds
    <2>2. parent[parent[c]] = "root"
      BY <2>1 DEF Threads, RepliesAreFlat
    <2>3. parent'[c] # "deleted"
      BY ContributionBounds
    <2> QED BY <2>1, <2>2, <2>3
  <1>2. ASSUME NEW r \in Requests
        PROVE  \/ req'[r] = req[r]
               \/ req'[r].pc \in Final
    <2>1. CASE req' = req
      BY <2>1
    <2>2. ASSUME NEW q \in Requests, NEW pc \in Final, Finish(q, pc)
          PROVE  req'[r] = req[r] \/ req'[r].pc \in Final
      BY <2>2, GotoFields
    <2> QED BY <2>1, <2>2
  <1>3. ASSUME NEW r \in Requests, At(r, "comment", "write"), req[r].target # "root"
        PROVE  parent'[req[r].target] \in {"root", "deleted"}
    BY <1>3 DEF Threads, Targets, TypeOK, Request
  <1>4. Targets'
    BY <1>2, <1>3 DEF Threads, Targets, At, Final
  <1> QED BY <1>1, <1>4 DEF Threads

LEMMA DeletedFlat ==
    ASSUME TypeOK, Threads, TypeOK', DeleteRow,
           req' = req \/ \E r \in Requests, pc \in Final : Finish(r, pc)
    PROVE  Threads'
  <1>1. \A c \in Comments : parent'[c] = IF Kept(c) THEN "deleted" ELSE parent[c]
    BY DEF DeleteRow
  <1>2. ASSUME NEW c \in Comments, parent'[c] # parent[c]
        PROVE  /\ parent'[c] = "deleted"
               /\ \A d \in Comments : parent[d] = c => parent'[d] = "deleted"
    BY <1>1, <1>2, ContributionBounds DEF Kept
  <1> QED BY <1>2, GoneStayFlat

LEMMA ThreadsInit == Init => Threads
  <1> SUFFICES ASSUME Init PROVE Threads
    OBVIOUS
  <1>1. \A c \in Comments : parent[c] \in {"root", "unused"}
    BY DEF Init
  <1>2. RepliesAreFlat
    BY <1>1, ContributionBounds DEF RepliesAreFlat
  <1>3. \A r \in Requests : req[r].pc = "new"
    BY DEF Init, NewRequest
  <1> QED BY <1>2, <1>3 DEF Threads, Targets, At

LEMMA ThreadsStep == TypeOK /\ Threads /\ [Next]_vars => Threads'
  <1> SUFFICES ASSUME TypeOK, Threads, [Next]_vars PROVE Threads'
    OBVIOUS
  <1>0. TypeOK'
    BY TypeStep DEF Threads
  \* A request moves to a point that the comments' invariant has nothing to say about.
  <1>1. ASSUME parent' = parent,
               \A r \in Requests : \/ req'[r] = req[r]
                                   \/ /\ ~At(r, "comment", "parent")' /\ ~At(r, "uncomment", "write")'
                                      /\ ~At(r, "comment", "write")' /\ ~At(r, "validate", "write")'
        PROVE  Threads'
    <2>1. RepliesAreFlat'
      BY <1>1 DEF Threads, RepliesAreFlat
    <2>2. Targets'
      BY <1>1 DEF Threads, Targets, At
    <2> QED BY <2>1, <2>2 DEF Threads
  <1>2. CASE UNCHANGED vars
    BY <1>1, <1>2 DEF vars, texts
  <1>3. ASSUME NEW r \in Requests, NEW new, Begin(r, new), UNCHANGED parent,
               new.op \notin {"comment", "uncomment", "validate"}
        PROVE  Threads'
    BY <1>1, <1>3, BeginFields DEF At
  <1>4. ASSUME NEW r \in Requests, NEW pc \in {"ok", "failed", "screen"}, UNCHANGED parent,
               Goto(r, pc) \/ Finish(r, pc)
        PROVE  Threads'
    BY <1>1, <1>4, GotoFields DEF At
  <1>5. ASSUME NEW r \in Requests, Call(r)
        PROVE  Threads'
    <2>1. CASE Create(r)
      <3>1. PICK draft \in BOOLEAN :
               Begin(r, [New("create", IF draft THEN "ok" ELSE "screen") EXCEPT !.text = 1])
        BY <2>1 DEF Create
      <3>2. [New("create", IF draft THEN "ok" ELSE "screen") EXCEPT !.text = 1].op = "create"
        BY DEF New, NewRequest
      <3> QED BY <1>3, <2>1, <3>1, <3>2 DEF Create, texts
    <2>2. CASE SubmitLoad(r)
      <3> DEFINE q == New("submit", IF row.status \in {"DRAFT", "CHANGES_REQUESTED"}
                                    THEN "screen" ELSE "failed")
      <3>1. [q EXCEPT !.text = row.text].op = "submit"
        BY DEF New, NewRequest
      <3> QED BY <1>3, <2>2, <3>1 DEF SubmitLoad, texts
    <2>3. CASE UpdateLoad(r)
      <3>1. PICK who \in Admins \cup {Author}, late \in BOOLEAN, submit \in BOOLEAN, t \in 1..MaxText :
               Begin(r, [New("update", IF MayUpdate(who \in Admins, late) THEN "write" ELSE "failed")
                         EXCEPT !.user = who, !.text = t,
                                !.screens = \/ row.status = "DRAFT" /\ submit
                                            \/ row.status = "CHANGES_REQUESTED"
                                            \/ row.status = "PENDING_REVIEW" /\ Wording[t] # Wording[row.text]])
        BY <2>3 DEF UpdateLoad
      <3>2. [New("update", IF MayUpdate(who \in Admins, late) THEN "write" ELSE "failed")
                         EXCEPT !.user = who, !.text = t,
                                !.screens = \/ row.status = "DRAFT" /\ submit
                                            \/ row.status = "CHANGES_REQUESTED"
                                            \/ row.status = "PENDING_REVIEW" /\ Wording[t] # Wording[row.text]].op
              = "update"
        BY DEF New, NewRequest
      <3> QED BY <1>3, <2>3, <3>1, <3>2 DEF UpdateLoad, texts
    <2>4. CASE ValidateLoad(r)
      <3>1. PICK admin \in Admins, outcome \in {"approve", "changes", "reject"} :
               Begin(r, [New("validate", IF There /\ ~(outcome = "approve" /\ admin = Author)
                                         THEN "write" ELSE "failed")
                            EXCEPT !.user = admin, !.outcome = outcome])
        BY <2>4 DEF ValidateLoad
      <3> DEFINE q == New("validate", IF There /\ ~(outcome = "approve" /\ admin = Author)
                                      THEN "write" ELSE "failed")
                 new == [q EXCEPT !.user = admin, !.outcome = outcome]
      <3>2. new.op = "validate" /\ new.outcome = outcome
        BY DEF New, NewRequest
      <3>5. Begin(r, new)
        BY <3>1
      <3> HIDE DEF new
      <3>3. /\ req'[r].op = "validate" /\ \A x \in Requests \ {r} : req'[x] = req[x]
            /\ req'[r].pc \in Final \/ req'[r].outcome = outcome
        BY <3>2, <3>5, BeginFields
      <3>4. Targets'
        BY <2>4, <3>3 DEF Threads, Targets, At, ValidateLoad, texts, Final
      <3> QED BY <2>4, <3>4 DEF Threads, RepliesAreFlat, ValidateLoad, texts
    <2>5. CASE RemoveLoad(r)
      <3>1. PICK isAdmin \in BOOLEAN, late \in BOOLEAN :
               Begin(r, [New("remove", IF There /\ (isAdmin \/ row.status = "DRAFT" \/ ~late)
                                       THEN "write" ELSE "failed") EXCEPT !.seen = row.status])
        BY <2>5 DEF RemoveLoad
      <3>2. [New("remove", IF There /\ (isAdmin \/ row.status = "DRAFT" \/ ~late)
                           THEN "write" ELSE "failed") EXCEPT !.seen = row.status].op = "remove"
        BY DEF New, NewRequest
      <3> QED BY <1>3, <2>5, <3>1, <3>2 DEF RemoveLoad, texts
    <2>6. CASE VoteLoad(r)
      <3>1. PICK u \in accounts, v \in -1..1 :
               Begin(r, [New("vote", IF row.status = "APPROVED" /\ u # Author
                                     THEN "read" ELSE "failed") EXCEPT !.user = u, !.value = v])
        BY <2>6 DEF VoteLoad
      <3>2. [New("vote", IF row.status = "APPROVED" /\ u # Author
                         THEN "read" ELSE "failed") EXCEPT !.user = u, !.value = v].op = "vote"
        BY DEF New, NewRequest
      <3> QED BY <1>3, <2>6, <3>1, <3>2 DEF VoteLoad, texts
    <2>7. CASE CommentLoad(r)
      <3>1. PICK target \in Comments \cup {"root"} :
               Begin(r, [New("comment", CASE ~CommentsOpen -> "failed"
                                          [] CommentsOpen /\ target = "root" -> "write"
                                          [] OTHER -> "parent") EXCEPT !.target = target])
        BY <2>7 DEF CommentLoad
      <3> DEFINE pc == CASE ~CommentsOpen -> "failed"
                         [] CommentsOpen /\ target = "root" -> "write"
                         [] OTHER -> "parent"
                 new == [New("comment", pc) EXCEPT !.target = target]
      <3>2. pc \in {"failed", "write", "parent"} /\ (pc = "write" => target = "root")
            /\ (pc = "parent" => target # "root")
        OBVIOUS
      <3> HIDE DEF pc
      <3>3. new.op = "comment" /\ new.pc = pc /\ new.target = target
        BY DEF New, NewRequest
      <3> HIDE DEF new
      <3>4. /\ req'[r].op = "comment" /\ req'[r].pc = pc
            /\ \A x \in Requests \ {r} : req'[x] = req[x]
            /\ pc = "failed" \/ req'[r].target = target
        BY <3>1, <3>2, <3>3, BeginFields DEF new, pc, Final
      <3>5. parent' = parent
        BY <2>7 DEF CommentLoad, texts
      <3>6. Targets'
        BY <3>2, <3>4, <3>5 DEF Threads, Targets, At
      <3> QED BY <3>5, <3>6 DEF Threads, RepliesAreFlat
    <2>8. CASE UncommentLoad(r)
      <3>1. PICK c \in Comments :
               Begin(r, [New("uncomment", IF Kept(c) THEN "write" ELSE "failed")
                            EXCEPT !.target = c])
        BY <2>8 DEF UncommentLoad
      <3> DEFINE new == [New("uncomment", IF Kept(c) THEN "write" ELSE "failed")
                            EXCEPT !.target = c]
      <3>2. new.op = "uncomment" /\ new.target = c
        BY DEF New, NewRequest
      <3>6. Begin(r, new)
        BY <3>1
      <3> HIDE DEF new
      <3>3. /\ req'[r].op = "uncomment" /\ \A x \in Requests \ {r} : req'[x] = req[x]
            /\ req'[r].pc \in Final \/ req'[r].target = c
        BY <3>2, <3>6, BeginFields
      <3>4. parent' = parent
        BY <2>8 DEF UncommentLoad, texts
      <3>5. Targets'
        BY <3>3, <3>4 DEF Threads, Targets, At, Final
      <3> QED BY <3>4, <3>5 DEF Threads, RepliesAreFlat
    <2>9. CASE ConfirmLoad(r)
      <3>1. New("confirm", IF There THEN "write" ELSE "failed").op = "confirm"
        BY NewFields
      <3> QED BY <1>3, <2>9, <3>1 DEF ConfirmLoad, texts
    <2>10. CASE DisputeLoad(r)
      <3>1. New("dispute", IF There /\ row.dup THEN "write" ELSE "failed").op = "dispute"
        BY NewFields
      <3> QED BY <1>3, <2>10, <3>1 DEF DisputeLoad, texts
    <2>11. CASE ResolveLoad(r)
      <3>1. PICK admin \in Admins, outcome \in {"accept", "refuse"} :
               Begin(r, [New("resolve", IF There /\ row.dispute = "PENDING" THEN "write" ELSE "failed")
                            EXCEPT !.user = admin, !.outcome = outcome])
        BY <2>11 DEF ResolveLoad
      <3>2. [New("resolve", IF There /\ row.dispute = "PENDING" THEN "write" ELSE "failed")
                EXCEPT !.user = admin, !.outcome = outcome].op = "resolve"
        BY DEF New, NewRequest
      <3> QED BY <1>3, <2>11, <3>1, <3>2 DEF ResolveLoad, texts
    <2> QED BY <1>5, <2>1, <2>2, <2>3, <2>4, <2>5, <2>6, <2>7, <2>8, <2>9, <2>10, <2>11 DEF Call
  <1>6. ASSUME NEW r \in Requests, Screen(r) \/ UpdateWrite(r) \/ ValidateWrite(r) \/ VoteCommit(r)
                  \/ ConfirmWrite(r) \/ DisputeWrite(r) \/ ResolveWrite(r)
        PROVE  Threads'
    <2>1. parent' = parent
      BY <1>6 DEF Screen, UpdateWrite, ValidateWrite, VoteCommit, ConfirmWrite, DisputeWrite,
                  ResolveWrite, texts
    <2>2. \E pc \in {"ok", "failed", "screen"} : Goto(r, pc) \/ Finish(r, pc)
      BY <1>6 DEF Screen, UpdateWrite, ValidateWrite, VoteCommit, ConfirmWrite, DisputeWrite,
                  ResolveWrite, UpdateRow
    <2> QED BY <1>4, <2>1, <2>2
  <1>7. ASSUME NEW r \in Requests, RemoveWrite(r)
        PROVE  Threads'
    <2>1. CASE There /\ req[r].seen = "DRAFT"
      <3>1. DeleteRow /\ Finish(r, "ok")
        BY <1>7, <2>1 DEF RemoveWrite
      <3> QED BY <1>0, <3>1, DeletedFlat DEF Final
    <2>2. CASE ~(There /\ req[r].seen = "DRAFT")
      BY <1>4, <1>7, <2>2 DEF RemoveWrite, UpdateRow, texts
    <2> QED BY <2>1, <2>2
  <1>8. ASSUME NEW r \in Requests, VoteRead(r)
        PROVE  Threads'
    <2>1. req' = [req EXCEPT ![r] = [[req[r] EXCEPT !.pc = "commit"] EXCEPT !.old = votes[req[r].user]]]
      BY <1>8 DEF VoteRead, TypeOK
    <2>2. [[req[r] EXCEPT !.pc = "commit"] EXCEPT !.old = votes[req[r].user]].pc = "commit"
      BY DEF TypeOK, Request
    <2>3. req'[r].pc = "commit" /\ \A q \in Requests \ {r} : req'[q] = req[q]
      BY <2>1, <2>2 DEF TypeOK
    <2> QED BY <1>1, <1>8, <2>3 DEF VoteRead, At, texts
  <1>9. ASSUME NEW r \in Requests, CommentParent(r)
        PROVE  Threads'
    <2>1. req[r].target \in Comments /\ req[r] \in Request /\ req[r].op = "comment"
          /\ parent' = parent
      BY <1>9 DEF CommentParent, Threads, Targets, At, TypeOK, texts
    <2>2. CASE Kept(req[r].target)
      <3> DEFINE next == [[req[r] EXCEPT !.pc = "write"] EXCEPT !.target = Thread(req[r].target)]
      <3>1. next.op = "comment" /\ next.target = Thread(req[r].target) /\ next.pc = "write"
        BY <2>1 DEF Request
      <3>2. req' = [req EXCEPT ![r] = next]
        BY <1>9, <2>1, <2>2 DEF CommentParent, TypeOK, Request
      <3> HIDE DEF next
      <3>3. req'[r] = next /\ \A q \in Requests \ {r} : req'[q] = req[q]
        BY <3>2 DEF TypeOK
      <3>4. parent[Thread(req[r].target)] = "root"
        BY <2>1, <2>2 DEF Thread, Kept, Threads, RepliesAreFlat, TypeOK
      <3>5. Targets'
        BY <2>1, <3>1, <3>3, <3>4 DEF Threads, Targets, At
      <3> QED BY <2>1, <3>5 DEF Threads, RepliesAreFlat
    <2>3. CASE ~Kept(req[r].target)
      BY <1>4, <1>9, <2>1, <2>3 DEF CommentParent
    <2> QED BY <2>2, <2>3
  <1>10. ASSUME NEW r \in Requests, CommentCreate(r)
         PROVE  Threads'
    <2> DEFINE target == req[r].target
               unused == {c \in Comments : parent[c] = "unused"}
    <2>1. CASE /\ target \in {"root"} \cup {c \in Comments : Kept(c)} /\ unused # {}
               /\ parent' = [parent EXCEPT ![NewId(unused)] = target] /\ Finish(r, "ok")
      <3>1. /\ unused # {} /\ parent' = [parent EXCEPT ![NewId(unused)] = target]
            /\ Finish(r, "ok") /\ At(r, "comment", "write")
        BY <1>10, <2>1 DEF CommentCreate
      <3> DEFINE n == NewId(unused)
      <3>2. n \in Comments /\ parent[n] = "unused"
        BY <3>1 DEF NewId
      <3> HIDE DEF n, unused
      <3>3. target \in Comments \cup {"root"} /\ (target # "root" => parent[target] = "root")
        BY <2>1, <3>1 DEF Threads, Targets, Kept, TypeOK, Request
      <3>4. parent' = [parent EXCEPT ![n] = target]
        BY <3>1 DEF n
      <3>5. parent'[n] = target /\ \A c \in Comments \ {n} : parent'[c] = parent[c]
        BY <3>2, <3>4 DEF TypeOK
      <3> HIDE DEF target
      <3>6. RepliesAreFlat'
        <4> SUFFICES ASSUME NEW c \in Comments, parent'[c] \in Comments
                     PROVE  parent'[parent'[c]] = "root"
          BY DEF RepliesAreFlat
        <4>1. CASE c = n
          BY <3>2, <3>3, <3>5, <4>1, ContributionBounds
        <4>2. CASE c # n
          BY <3>2, <3>5, <4>2 DEF Threads, RepliesAreFlat
        <4> QED BY <4>1, <4>2
      <3>7. ASSUME NEW q \in Requests, q # r
            PROVE  req'[q] = req[q]
        BY <3>1, <3>7, GotoFields
      <3>8. req'[r].pc = "ok"
        BY <3>1, GotoFields
      <3>9. ASSUME NEW q \in Requests, At(q, "comment", "write"), req[q].target # "root"
            PROVE  parent'[req[q].target] \in {"root", "deleted"}
        BY <3>2, <3>5, <3>9 DEF Threads, Targets, TypeOK, Request
      <3>10. Targets'
        BY <3>7, <3>8, <3>9 DEF Threads, Targets, At
      <3> QED BY <3>6, <3>10 DEF Threads
    <2>2. CASE UNCHANGED parent /\ Finish(r, "failed")
      BY <1>4, <2>2
    <2> QED BY <1>10, <2>1, <2>2 DEF CommentCreate
  <1>11. ASSUME NEW r \in Requests, UncommentWrite(r)
         PROVE  Threads'
    <2> DEFINE target == req[r].target
    <2>1. CASE Kept(target)
      <3>1. /\ parent' = [c \in Comments |-> IF c \in Removed(target) THEN "deleted" ELSE parent[c]]
            /\ Finish(r, "ok")
        BY <1>11, <2>1 DEF UncommentWrite
      <3>2. target \in Comments
        BY <1>11 DEF UncommentWrite, Threads, Targets
      <3>3. ASSUME NEW c \in Comments, parent'[c] # parent[c]
            PROVE  /\ parent'[c] = "deleted"
                   /\ \A d \in Comments : parent[d] = c => parent'[d] = "deleted"
        <4>1. parent'[c] = "deleted" /\ (c = target \/ parent[c] = target)
          BY <3>1, <3>3 DEF Removed
        <4>2. ASSUME NEW d \in Comments, parent[d] = c
              PROVE  c = target
          BY <3>2, <4>1, <4>2, ContributionBounds DEF Threads, RepliesAreFlat
        <4> QED BY <3>1, <4>1, <4>2 DEF Removed
      <3> QED BY <1>0, <3>1, <3>3, GoneStayFlat DEF Final
    <2>2. CASE ~Kept(target)
      BY <1>4, <1>11, <2>2 DEF UncommentWrite
    <2> QED BY <2>1, <2>2
  <1>12. ASSUME NEW r \in Requests, Crash(r)
         PROVE  Threads'
    BY <1>4, <1>12 DEF Crash, texts
  <1>13. CASE PurgeFind \/ Tick
    BY <1>1, <1>13 DEF PurgeFind, Tick, texts
  <1>14. CASE PurgeDelete
    <2>1. CASE There
      BY <1>0, <1>14, <2>1, DeletedFlat DEF PurgeDelete
    <2>2. CASE ~There
      BY <1>1, <1>14, <2>2 DEF PurgeDelete, texts
    <2> QED BY <2>1, <2>2
  <1>15. ASSUME NEW u \in Users, Depart(u)
         PROVE  Threads'
    <2>1. CASE DeleteRow
      BY <1>0, <1>15, <2>1, DeletedFlat DEF Depart
    <2>2. CASE ~DeleteRow
      <3>1. PICK his \in SUBSET {c \in Comments : Kept(c)} :
               parent' = [c \in Comments |-> IF \E d \in his : c \in Removed(d)
                                              THEN "deleted" ELSE parent[c]]
        BY <1>15, <2>2 DEF Depart
      <3>2. ASSUME NEW c \in Comments, parent'[c] # parent[c]
            PROVE  /\ parent'[c] = "deleted"
                   /\ \A d \in Comments : parent[d] = c => parent'[d] = "deleted"
        <4>1. parent'[c] = "deleted" /\ \E d \in his : c = d \/ parent[c] = d
          BY <3>1, <3>2 DEF Removed
        <4>2. ASSUME NEW d \in Comments, parent[d] = c
              PROVE  c \in his
          BY <4>1, <4>2, ContributionBounds DEF Threads, RepliesAreFlat
        <4> QED BY <3>1, <4>1, <4>2 DEF Removed
      <3> QED BY <1>0, <1>15, <3>2, GoneStayFlat DEF Depart
    <2> QED BY <2>1, <2>2
  <1> QED BY <1>2, <1>5, <1>6, <1>7, <1>8, <1>9, <1>10, <1>11, <1>12, <1>13, <1>14, <1>15
          DEF Next, Step

-----------------------------------------------------------------------------
(* Countdowns                                                              *)

LEMMA CountdownsInit == Init => Countdowns
  <1> SUFFICES ASSUME Init PROVE Countdowns
    OBVIOUS
  <1>1. row.due = 0 /\ purge = "idle"
    BY DEF Init, NewRow
  <1> QED BY <1>1 DEF Countdowns

LEMMA CountdownsStep == TypeOK /\ Targets /\ Countdowns /\ [Next]_vars => Countdowns'
  <1> SUFFICES ASSUME TypeOK, Targets, Countdowns, [Next]_vars PROVE Countdowns'
    OBVIOUS
  <1>0. row \in Contributed /\ day \in Nat \ {0} /\ searched \in Nat /\ notice \in Nat
    BY ContributionBounds DEF TypeOK
  \* A step that starts no countdown
  <1>1. ASSUME \/ row' = row \/ row'.due = 0
               \/ row'.due = row.due /\ (row'.status \in Gone => row.status \in Gone),
               UNCHANGED <<notice, searched>>, purge' \in {purge, "idle"}, day' \in {day, day + 1}
        PROVE  Countdowns'
    <2>1. (row.status \in Gone => row.due = 0)'
      BY <1>1 DEF Countdowns
    <2>2. (row.due # 0 => notice # 0 /\ row.due = notice + 1)'
      BY <1>1 DEF Countdowns
    <2>3. (purge = "delete" => searched # 0 /\ searched + 1 <= day)'
      BY <1>0, <1>1 DEF Countdowns
    <2> QED BY <2>1, <2>2, <2>3 DEF Countdowns
  \* A step that starts one, if there is a row
  <1>2. ASSUME \/ row' = row /\ ~There
               \/ row'.due = Countdown /\ row'.status \notin Gone,
               notice' = day, UNCHANGED <<searched, purge, day>>
        PROVE  Countdowns'
    <2>1. (row.status \in Gone => row.due = 0)'
      BY <1>2 DEF Countdowns, There
    <2>2. (row.due # 0 => notice # 0 /\ row.due = notice + 1)'
      BY <1>0, <1>2 DEF Countdowns, There, Countdown
    <2>3. (purge = "delete" => searched # 0 /\ searched + 1 <= day)'
      BY <1>2 DEF Countdowns
    <2> QED BY <2>1, <2>2, <2>3 DEF Countdowns
  <1>3. CASE UNCHANGED vars
    BY <1>1, <1>3 DEF vars, history
  <1>4. ASSUME NEW r \in Requests, Call(r)
        PROVE  Countdowns'
    <2>1. CASE Create(r)
      <3>1. PICK draft \in BOOLEAN :
               row' = [NewRow(IF draft THEN "DRAFT" ELSE "PENDING_REVIEW")
                          EXCEPT !.text = 1, !.screened = 0]
        BY <2>1 DEF Create
      <3>2. [NewRow(IF draft THEN "DRAFT" ELSE "PENDING_REVIEW")
                          EXCEPT !.text = 1, !.screened = 0].due = 0
        BY DEF NewRow
      <3> QED BY <1>1, <2>1, <3>1, <3>2 DEF Create
    <2>2. CASE ~Create(r)
      <3>1. UNCHANGED <<row, notice, searched, purge, day>>
        BY <1>4, <2>2 DEF Call, SubmitLoad, UpdateLoad, ValidateLoad, RemoveLoad, VoteLoad,
              CommentLoad, UncommentLoad, ConfirmLoad, DisputeLoad, ResolveLoad
      <3> QED BY <1>1, <3>1
    <2> QED BY <2>1, <2>2
  <1>5. ASSUME NEW r \in Requests,
               VoteRead(r) \/ VoteCommit(r) \/ CommentParent(r) \/ CommentCreate(r)
                  \/ UncommentWrite(r) \/ Crash(r)
        PROVE  Countdowns'
    BY <1>1, <1>5 DEF VoteRead, VoteCommit, CommentParent, CommentCreate, UncommentWrite, Crash,
                      history
  <1>6. ASSUME NEW r \in Requests, NEW new, NEW pc, UpdateRow(r, new, pc),
               new.due = 0 \/ (new.due = row.due /\ new.status \notin Gone),
               UNCHANGED <<notice, searched, purge, day>>
        PROVE  Countdowns'
    BY <1>1, <1>6 DEF UpdateRow
  <1>7. ASSUME NEW r \in Requests, Screen(r)
        PROVE  Countdowns'
    <2>1. /\ [row EXCEPT !.status = "PENDING_REVIEW", !.screened = req[r].text].due = row.due
          /\ [row EXCEPT !.status = "PENDING_REVIEW", !.screened = req[r].text].status
                = "PENDING_REVIEW"
      BY <1>0 DEF Contributed
    <2> QED BY <1>6, <1>7, <2>1 DEF Screen, history, Gone
  <1>8. ASSUME NEW r \in Requests, UpdateWrite(r)
        PROVE  Countdowns'
    <2>1. /\ [row EXCEPT !.text = req[r].text].due = row.due
          /\ [row EXCEPT !.text = req[r].text].status = row.status
      BY <1>0 DEF Contributed
    <2>2. CASE There
      BY <1>6, <1>8, <2>1, <2>2 DEF UpdateWrite, history, There
    <2>3. CASE ~There
      BY <1>1, <1>8, <2>3 DEF UpdateWrite, history, UpdateRow
    <2> QED BY <2>2, <2>3
  <1>9. ASSUME NEW r \in Requests, ValidateWrite(r)
        PROVE  Countdowns'
    <2>1. Verdict(req[r].outcome) \notin Gone
      BY <1>9 DEF ValidateWrite, Targets, Verdict, Gone
    <2>2. /\ [row EXCEPT !.status = Verdict(req[r].outcome)].due = row.due
          /\ [row EXCEPT !.status = Verdict(req[r].outcome)].status = Verdict(req[r].outcome)
      BY <1>0 DEF Contributed
    <2> QED BY <1>6, <1>9, <2>1, <2>2 DEF ValidateWrite, history
  <1>10. ASSUME NEW r \in Requests, RemoveWrite(r)
         PROVE  Countdowns'
    <2>1. CASE There /\ req[r].seen = "DRAFT"
      <3>1. DeleteRow
        BY <1>10, <2>1 DEF RemoveWrite
      <3>2. row'.due = 0
        BY <3>1, DeleteTyped
      <3> QED BY <1>1, <1>10, <3>2 DEF RemoveWrite, history
    <2>2. CASE ~(There /\ req[r].seen = "DRAFT")
      <3>1. /\ [row EXCEPT !.status = "ARCHIVED"].due = row.due
            /\ [row EXCEPT !.status = "ARCHIVED"].status = "ARCHIVED"
        BY <1>0 DEF Contributed
      <3> QED BY <1>6, <1>10, <2>2, <3>1 DEF RemoveWrite, history, Gone
    <2> QED BY <2>1, <2>2
  <1>11. ASSUME NEW r \in Requests, DisputeWrite(r)
         PROVE  Countdowns'
    <2>1. [row EXCEPT !.dispute = "PENDING", !.due = 0].due = 0
      BY <1>0 DEF Contributed
    <2> QED BY <1>6, <1>11, <2>1 DEF DisputeWrite, history
  <1>12. ASSUME NEW r \in Requests, ConfirmWrite(r)
         PROVE  Countdowns'
    <2> DEFINE new == [row EXCEPT !.status = "DRAFT", !.dup = TRUE, !.due = Countdown]
    <2>1. new.due = Countdown /\ new.status = "DRAFT"
      BY <1>0 DEF Contributed
    <2> HIDE DEF new
    <2>2. (row' = new /\ There) \/ (row' = row /\ ~There)
      BY <1>12 DEF ConfirmWrite, UpdateRow, new
    <2> QED BY <1>2, <1>12, <2>1, <2>2 DEF ConfirmWrite, Gone
  <1>13. ASSUME NEW r \in Requests, ResolveWrite(r)
         PROVE  Countdowns'
    <2> DEFINE back == [row EXCEPT !.status = "APPROVED", !.dup = FALSE, !.due = 0,
                                   !.dispute = "ACCEPTED"]
               again == [row EXCEPT !.dispute = "REJECTED", !.due = Countdown]
    <2>1. CASE req[r].outcome = "accept"
      <3>1. back.due = 0
        BY <1>0 DEF Contributed
      <3> HIDE DEF back
      <3>2. UpdateRow(r, back, "ok") /\ UNCHANGED <<notice, searched, purge, day>>
        BY <1>13, <2>1 DEF ResolveWrite, back
      <3> QED BY <1>6, <3>1, <3>2
    <2>2. CASE req[r].outcome # "accept"
      <3>1. again.due = Countdown /\ again.status = row.status
        BY <1>0 DEF Contributed
      <3> HIDE DEF again
      <3>2. UpdateRow(r, again, "ok") /\ UNCHANGED <<searched, purge, day>> /\ notice' = day
        BY <1>13, <2>2 DEF ResolveWrite, again
      <3>3. (row' = again /\ There) \/ (row' = row /\ ~There)
        BY <3>2 DEF UpdateRow
      <3> QED BY <1>2, <3>1, <3>2, <3>3 DEF There
    <2> QED BY <2>1, <2>2
  <1>14. CASE PurgeFind
    <2>1. UNCHANGED <<day, row, notice>> /\ searched' = notice /\ row.due # 0 /\ row.due <= day
      BY <1>14 DEF PurgeFind, Expired
    <2> QED BY <2>1 DEF Countdowns
  <1>15. CASE PurgeDelete
    <2>1. CASE There
      <3>1. DeleteRow
        BY <1>15, <2>1 DEF PurgeDelete
      <3>2. row'.due = 0
        BY <3>1, DeleteTyped
      <3> QED BY <1>1, <1>15, <3>2 DEF PurgeDelete, history
    <2>2. CASE ~There
      BY <1>1, <1>15, <2>2 DEF PurgeDelete, history
    <2> QED BY <2>1, <2>2
  <1>16. CASE Tick
    BY <1>1, <1>16 DEF Tick, history
  <1>17. ASSUME NEW u \in Users, Depart(u)
         PROVE  Countdowns'
    <2>1. row' = row \/ DeleteRow
      BY <1>17 DEF Depart
    <2>2. DeleteRow => row'.due = 0
      BY DeleteTyped
    <2> QED BY <1>1, <1>17, <2>1, <2>2 DEF Depart, history
  <1> QED BY <1>3, <1>4, <1>5, <1>7, <1>8, <1>9, <1>10, <1>11, <1>12, <1>13, <1>14, <1>15, <1>16,
             <1>17 DEF Next, Step

-----------------------------------------------------------------------------
(* Edits                                                                   *)

\* The calls that are not edits leave the row, and no automatic moderation follows.
Begins(r) == \E new : /\ Begin(r, new) /\ new.op \notin Edits /\ new.pc # "screen"
                      /\ new.op = "vote" => VoteLoad(r)

LEMMA OtherCalls ==
    ASSUME NEW r \in Requests,
           ValidateLoad(r) \/ RemoveLoad(r) \/ VoteLoad(r) \/ CommentLoad(r) \/ UncommentLoad(r)
              \/ ConfirmLoad(r) \/ DisputeLoad(r) \/ ResolveLoad(r)
    PROVE  row' = row /\ Begins(r)
  <1>1. CASE ValidateLoad(r)
    <2>1. PICK admin \in Admins, outcome \in {"approve", "changes", "reject"} :
             Begin(r, [New("validate", IF There /\ ~(outcome = "approve" /\ admin = Author)
                                       THEN "write" ELSE "failed")
                               EXCEPT !.user = admin, !.outcome = outcome])
      BY <1>1 DEF ValidateLoad
    <2> DEFINE new == [New("validate", IF There /\ ~(outcome = "approve" /\ admin = Author)
                                       THEN "write" ELSE "failed")
                               EXCEPT !.user = admin, !.outcome = outcome]
    <2>2. Begin(r, new)
      BY <2>1
    <2>3. new.op \notin Edits \cup {"vote"} /\ new.pc # "screen"
      BY DEF New, NewRequest, Edits
    <2> HIDE DEF new
    <2> QED BY <1>1, <2>2, <2>3 DEF Begins, ValidateLoad
  <1>2. CASE RemoveLoad(r)
    <2>1. PICK isAdmin \in BOOLEAN, late \in BOOLEAN :
             Begin(r, [New("remove", IF There /\ (isAdmin \/ row.status = "DRAFT" \/ ~late)
                                     THEN "write" ELSE "failed") EXCEPT !.seen = row.status])
      BY <1>2 DEF RemoveLoad
    <2> DEFINE new == [New("remove", IF There /\ (isAdmin \/ row.status = "DRAFT" \/ ~late)
                                     THEN "write" ELSE "failed") EXCEPT !.seen = row.status]
    <2>2. Begin(r, new)
      BY <2>1
    <2>3. new.op \notin Edits \cup {"vote"} /\ new.pc # "screen"
      BY DEF New, NewRequest, Edits
    <2> HIDE DEF new
    <2> QED BY <1>2, <2>2, <2>3 DEF Begins, RemoveLoad
  <1>3. CASE VoteLoad(r)
    <2>1. PICK u \in accounts, v \in -1..1 :
             Begin(r, [New("vote", IF row.status = "APPROVED" /\ u # Author THEN "read" ELSE "failed")
                          EXCEPT !.user = u, !.value = v])
      BY <1>3 DEF VoteLoad
    <2> DEFINE new == [New("vote", IF row.status = "APPROVED" /\ u # Author THEN "read" ELSE "failed")
                          EXCEPT !.user = u, !.value = v]
    <2>2. Begin(r, new)
      BY <2>1
    <2>3. new.op \notin Edits /\ new.pc # "screen"
      BY DEF New, NewRequest, Edits
    <2> HIDE DEF new
    <2> QED BY <1>3, <2>2, <2>3 DEF Begins, VoteLoad
  <1>4. CASE UncommentLoad(r)
    <2>1. PICK c \in Comments :
             Begin(r, [New("uncomment", IF Kept(c) THEN "write" ELSE "failed") EXCEPT !.target = c])
      BY <1>4 DEF UncommentLoad
    <2> DEFINE new == [New("uncomment", IF Kept(c) THEN "write" ELSE "failed") EXCEPT !.target = c]
    <2>2. Begin(r, new)
      BY <2>1
    <2>3. new.op \notin Edits \cup {"vote"} /\ new.pc # "screen"
      BY DEF New, NewRequest, Edits
    <2> HIDE DEF new
    <2> QED BY <1>4, <2>2, <2>3 DEF Begins, UncommentLoad
  <1>5. CASE ResolveLoad(r)
    <2>1. PICK admin \in Admins, outcome \in {"accept", "refuse"} :
             Begin(r, [New("resolve", IF There /\ row.dispute = "PENDING" THEN "write" ELSE "failed")
                          EXCEPT !.user = admin, !.outcome = outcome])
      BY <1>5 DEF ResolveLoad
    <2> DEFINE new == [New("resolve", IF There /\ row.dispute = "PENDING" THEN "write" ELSE "failed")
                          EXCEPT !.user = admin, !.outcome = outcome]
    <2>2. Begin(r, new)
      BY <2>1
    <2>3. new.op \notin Edits \cup {"vote"} /\ new.pc # "screen"
      BY DEF New, NewRequest, Edits
    <2> HIDE DEF new
    <2> QED BY <1>5, <2>2, <2>3 DEF Begins, ResolveLoad
  <1>6. CASE CommentLoad(r)
    <2>1. PICK target \in Comments \cup {"root"} :
             Begin(r, [New("comment", CASE ~CommentsOpen -> "failed"
                                        [] CommentsOpen /\ target = "root" -> "write"
                                        [] OTHER -> "parent") EXCEPT !.target = target])
      BY <1>6 DEF CommentLoad
    <2> DEFINE pc == CASE ~CommentsOpen -> "failed"
                       [] CommentsOpen /\ target = "root" -> "write"
                       [] OTHER -> "parent"
               new == [New("comment", pc) EXCEPT !.target = target]
    <2>2. Begin(r, new)
      BY <2>1
    <2>3. pc # "screen"
      OBVIOUS
    <2> HIDE DEF pc
    <2>4. new.op \notin Edits \cup {"vote"} /\ new.pc # "screen"
      BY <2>3 DEF New, NewRequest, Edits
    <2> HIDE DEF new
    <2> QED BY <1>6, <2>2, <2>4 DEF Begins, CommentLoad
  <1>7. CASE ConfirmLoad(r)
    BY <1>7, NewFields DEF ConfirmLoad, Begins, Edits
  <1>8. CASE DisputeLoad(r)
    BY <1>8, NewFields DEF DisputeLoad, Begins, Edits
  <1> QED BY <1>1, <1>2, <1>3, <1>4, <1>5, <1>6, <1>7, <1>8

LEMMA EditorsInit == Init => Editors
  <1> SUFFICES ASSUME Init PROVE Editors
    OBVIOUS
  <1>1. \A r \in Requests : ~Running(r)
    BY DEF Init, NewRequest, Running, Steps
  <1>2. row.status = "PENDING_REVIEW" => row.screened = row.text
    BY DEF Init, NewRow
  <1> QED BY <1>1, <1>2 DEF Editors, Editing, At, Running, Steps

LEMMA EditorsStep == TypeOK /\ Targets /\ Editors /\ [Next]_vars => Editors'
  <1> SUFFICES ASSUME TypeOK, Targets, Editors, [Next]_vars PROVE Editors'
    OBVIOUS
  <1> USE DEF Steps, Final
  <1>0. row \in Contributed /\ \A r \in Requests : req[r] \in Request
    BY DEF TypeOK
  \* A step of a request that is not an edit
  <1>1. ASSUME \A r \in Requests : \/ req'[r] = req[r]
                                   \/ ~Editing(r) /\ ~Editing(r)' /\ req'[r].pc # "screen",
               incidents \subseteq incidents',
               \/ row'.status = row.status /\ row'.text = row.text /\ row'.screened = row.screened
               \/ row'.status \in Gone \ {"NONE"}
               \/ /\ row.status \notin Gone /\ row'.status \notin Gone \cup {"PENDING_REVIEW"}
                  /\ row'.text = row.text
        PROVE  Editors'
    <2>1. (\A r \in Requests : Editing(r) => row.status # "NONE")'
      BY <1>1 DEF Editors, Editing, Running, Gone
    <2>7. (\A r \in Requests : req[r].pc = "screen" => Editing(r))'
      BY <1>1 DEF Editors, Editing, Running
    <2>2. Undisturbed' => Undisturbed
      BY <1>1 DEF Undisturbed
    <2>3. ASSUME Undisturbed', NEW q \in Requests, NEW r \in Requests, Editing(q)', Editing(r)'
          PROVE  q = r
      BY <1>1, <2>2, <2>3 DEF Editors, Editing, Running
    <2>4. ASSUME Undisturbed', NEW r \in Requests, Editing(r)', req'[r].pc = "screen", There'
          PROVE  req'[r].text = row'.text
      BY <1>1, <2>2, <2>4 DEF Editors, Editing, Running, There, Gone
    <2>5. ASSUME Undisturbed', NEW r \in Requests, At(r, "update", "write")', ~req'[r].screens,
                 row'.status = "PENDING_REVIEW"
          PROVE  /\ Wording[req'[r].text] = Wording[row'.text]
                 /\ Wording[row'.screened] = Wording[row'.text]
      <3>1. Editing(r)'
        BY <2>5 DEF Editing, Running, At, Edits
      <3>2. req'[r] = req[r]
        BY <1>1, <3>1
      <3> QED BY <1>1, <2>2, <2>5, <3>2 DEF Editors, At, Gone
    <2>6. ASSUME Undisturbed', \A r \in Requests : ~Editing(r)', row'.status = "PENDING_REVIEW"
          PROVE  Wording[row'.screened] = Wording[row'.text]
      <3>1. \A r \in Requests : ~Editing(r)
        BY <1>1, <2>6 DEF Editing, Running
      <3> QED BY <1>1, <2>2, <2>6, <3>1 DEF Editors, Gone
    <2> QED BY <2>1, <2>3, <2>4, <2>5, <2>6, <2>7 DEF Editors
  \* The request that makes the step keeps its operation, which is not an edit.
  <1>2. ASSUME NEW r \in Requests, req[r].op \notin Edits, req'[r].op = req[r].op,
               \A q \in Requests \ {r} : req'[q] = req[q], req'[r].pc # "screen"
        PROVE  \A q \in Requests : \/ req'[q] = req[q]
                                   \/ ~Editing(q) /\ ~Editing(q)' /\ req'[q].pc # "screen"
    BY <1>2 DEF Editing
  <1>3. ASSUME NEW r \in Requests, NEW pc, Goto(r, pc) \/ Finish(r, pc)
        PROVE  req'[r].op = req[r].op /\ req'[r].pc = pc
               /\ \A q \in Requests \ {r} : req'[q] = req[q]
    BY <1>3, GotoFields
  <1>4. CASE UNCHANGED vars
    BY <1>1, <1>4 DEF vars, history
  \* A request that is not an edit begins.
  <1>5. ASSUME NEW r \in Requests, NEW new, Begin(r, new), UNCHANGED row,
               new.op \notin Edits \/ new.pc \in Final, new.pc # "screen"
        PROVE  Editors'
    <2>1. req[r].pc = "new" /\ ~Editing(r)
      BY <1>5 DEF Begin, Editing, Running
    <2>2. /\ ~Editing(r)' /\ req'[r].pc # "screen"
          /\ \A q \in Requests \ {r} : req'[q] = req[q]
      BY <1>5, BeginFields DEF Editing, Running
    <2>3. incidents \subseteq incidents'
      BY <1>5 DEF Begin
    <2> QED BY <1>1, <1>5, <2>1, <2>2, <2>3
  \* An edit that crosses no other begins, and is the only one.
  <1>6. ASSUME NEW r \in Requests, NEW new, Begin(r, new), new.op \in Edits, new.pc \in Steps,
               Undisturbed'
        PROVE  /\ Undisturbed /\ \A q \in Requests : ~Editing(q)
               /\ \A q \in Requests : Editing(q)' => q = r
    <2>1. /\ Kind(new.op) = "edit"
          /\ \A op \in Operations \cup {"none"} : Kind(op) = "edit" <=> op \in Edits
      BY <1>6 DEF Kind, Operations, Edits
    <2>2. ~Crosses(new.op, new.user) /\ Undisturbed
      BY <1>6, <2>1 DEF Begin, Undisturbed
    <2>3. \A q \in Requests : ~Editing(q)
      BY <1>0, <2>1, <2>2, <1>6 DEF Crosses, Editing, Request, Operations, Edits
    <2>4. \A q \in Requests \ {r} : req'[q] = req[q]
      BY <1>6, BeginFields
    <2> QED BY <2>2, <2>3, <2>4 DEF Editing, Running
  <1>7. ASSUME NEW r \in Requests, Create(r)
        PROVE  Editors'
    <2>1. PICK draft \in BOOLEAN :
             /\ Begin(r, [New("create", IF draft THEN "ok" ELSE "screen") EXCEPT !.text = 1])
             /\ row' = [NewRow(IF draft THEN "DRAFT" ELSE "PENDING_REVIEW")
                           EXCEPT !.text = 1, !.screened = 0]
      BY <1>7 DEF Create
    <2> DEFINE new == [New("create", IF draft THEN "ok" ELSE "screen") EXCEPT !.text = 1]
    <2>2. /\ new.op = "create" /\ new.pc = (IF draft THEN "ok" ELSE "screen") /\ new.text = 1
      BY DEF New, NewRequest
    <2>3. /\ row'.text = 1 /\ row'.status = IF draft THEN "DRAFT" ELSE "PENDING_REVIEW"
      BY <2>1 DEF NewRow
    <2>4. Begin(r, new)
      BY <2>1
    <2> HIDE DEF new
    <2>5. \A q \in Requests : ~Editing(q)
      BY <1>7 DEF Create, Editors
    <2>6. \A q \in Requests \ {r} : ~Editing(q)'
      BY <2>4, <2>5, BeginFields DEF Editing, Running
    <2>7. (\A q \in Requests : Editing(q) => row.status # "NONE")'
      BY <2>3
    <2>10. (\A q \in Requests : req[q].pc = "screen" => Editing(q))'
      <3>1. \A q \in Requests \ {r} : req'[q] = req[q] /\ req'[q].pc # "screen"
        BY <2>4, <2>5, BeginFields DEF Editors
      <3>2. req'[r].pc = "screen" => Editing(r)'
        BY <2>2, <2>4, BeginFields DEF Editing, Running, Edits
      <3> QED BY <3>1, <3>2
    <2>8. CASE draft
      <3>1. ~Editing(r)'
        BY <2>2, <2>4, <2>8, BeginFields DEF Editing, Running
      <3>2. row'.status = "DRAFT"
        BY <2>3, <2>8
      <3>3. \A q \in Requests : ~Editing(q)'
        BY <2>6, <3>1
      <3>4. \A q \in Requests : ~At(q, "update", "write")'
        BY <3>3 DEF At, Editing, Running, Edits
      <3> QED BY <2>7, <2>10, <3>2, <3>3, <3>4 DEF Editors
    <2>9. CASE ~draft
      <3>1. req'[r] = new /\ new.pc = "screen"
        BY <2>2, <2>4, <2>9, BeginFields
      <3>2. Editing(r)'
        BY <2>2, <3>1 DEF Editing, Running, Edits
      <3>3. \A q \in Requests : Editing(q)' => q = r
        BY <2>6
      <3>4. \A q \in Requests : ~At(q, "update", "write")'
        BY <2>2, <3>1, <3>3 DEF At, Editing, Running, Edits
      <3>5. \A q \in Requests : Editing(q)' => req'[q].text = row'.text
        BY <2>2, <2>3, <3>1, <3>3
      <3> QED BY <2>7, <2>10, <3>2, <3>3, <3>4, <3>5 DEF Editors
    <2> QED BY <2>8, <2>9
  <1>8. ASSUME NEW r \in Requests, SubmitLoad(r)
        PROVE  Editors'
    <2> DEFINE q == New("submit", IF row.status \in {"DRAFT", "CHANGES_REQUESTED"}
                                  THEN "screen" ELSE "failed")
               new == [q EXCEPT !.text = row.text]
    <2>1. /\ new.op = "submit" /\ new.text = row.text
          /\ new.pc = IF row.status \in {"DRAFT", "CHANGES_REQUESTED"} THEN "screen" ELSE "failed"
      BY DEF New, NewRequest
    <2>2. Begin(r, new) /\ row' = row
      BY <1>8 DEF SubmitLoad
    <2> HIDE DEF new
    <2>3. CASE row.status \notin {"DRAFT", "CHANGES_REQUESTED"}
      BY <1>5, <2>1, <2>2, <2>3
    <2>4. CASE row.status \in {"DRAFT", "CHANGES_REQUESTED"}
      <3>1. req'[r] = new /\ new.pc = "screen" /\ new.op \in Edits
        BY <2>1, <2>2, <2>4, BeginFields DEF Edits
      <3>2. ASSUME Undisturbed'
            PROVE  \A x \in Requests : Editing(x)' => x = r
        BY <1>6, <2>2, <3>1, <3>2
      <3>3. ASSUME Undisturbed', NEW x \in Requests, At(x, "update", "write")'
            PROVE  FALSE
        BY <2>1, <3>1, <3>2, <3>3 DEF At, Editing, Running, Edits
      <3>4. Editing(r)'
        BY <3>1 DEF Editing, Running
      <3>5. ASSUME Undisturbed', NEW x \in Requests, Editing(x)'
            PROVE  req'[x].text = row'.text
        BY <2>1, <2>2, <3>1, <3>2, <3>5
      <3>6. row'.status # "NONE"
        BY <2>2, <2>4
      <3>7. (\A x \in Requests : req[x].pc = "screen" => Editing(x))'
        BY <2>2, <3>4, BeginFields DEF Editors, Editing, Running
      <3> QED BY <3>2, <3>3, <3>4, <3>5, <3>6, <3>7 DEF Editors
    <2> QED BY <2>3, <2>4
  <1>9. ASSUME NEW r \in Requests, UpdateLoad(r)
        PROVE  Editors'
    <2>1. PICK who \in Admins \cup {Author}, late \in BOOLEAN, submit \in BOOLEAN, t \in 1..MaxText :
             Begin(r, [New("update", IF MayUpdate(who \in Admins, late) THEN "write" ELSE "failed")
                       EXCEPT !.user = who, !.text = t,
                              !.screens = \/ row.status = "DRAFT" /\ submit
                                          \/ row.status = "CHANGES_REQUESTED"
                                          \/ row.status = "PENDING_REVIEW" /\ Wording[t] # Wording[row.text]])
      BY <1>9 DEF UpdateLoad
    <2> DEFINE q == New("update", IF MayUpdate(who \in Admins, late) THEN "write" ELSE "failed")
               new == [q EXCEPT !.user = who, !.text = t,
                              !.screens = \/ row.status = "DRAFT" /\ submit
                                          \/ row.status = "CHANGES_REQUESTED"
                                          \/ row.status = "PENDING_REVIEW" /\ Wording[t] # Wording[row.text]]
    <2>2. /\ new.op = "update" /\ new.text = t
          /\ row.status = "PENDING_REVIEW" /\ ~new.screens => Wording[t] = Wording[row.text]
          /\ new.pc = IF MayUpdate(who \in Admins, late) THEN "write" ELSE "failed"
      BY DEF New, NewRequest
    <2>3. Begin(r, new) /\ row' = row
      BY <1>9, <2>1 DEF UpdateLoad
    <2> HIDE DEF new
    <2>4. CASE ~MayUpdate(who \in Admins, late)
      BY <1>5, <2>2, <2>3, <2>4
    <2>5. CASE MayUpdate(who \in Admins, late)
      <3>1. req'[r] = new /\ new.pc = "write" /\ new.op \in Edits
        BY <2>2, <2>3, <2>5, BeginFields DEF Edits
      <3>2. ASSUME Undisturbed'
            PROVE  /\ Undisturbed /\ \A x \in Requests : ~Editing(x)
                   /\ \A x \in Requests : Editing(x)' => x = r
        BY <1>6, <2>3, <3>1, <3>2
      <3>3. ASSUME Undisturbed', NEW x \in Requests, Editing(x)', req'[x].pc = "screen"
            PROVE  FALSE
        BY <3>1, <3>2, <3>3
      <3>4. Editing(r)' /\ row'.status # "NONE"
        BY <2>3, <2>5, <3>1 DEF Editing, Running, MayUpdate, There, Gone
      <3>5. ASSUME Undisturbed', NEW x \in Requests, At(x, "update", "write")', ~req'[x].screens,
                   row'.status = "PENDING_REVIEW"
            PROVE  /\ Wording[req'[x].text] = Wording[row'.text]
                   /\ Wording[row'.screened] = Wording[row'.text]
        <4>1. x = r
          BY <3>2, <3>5 DEF At, Editing, Running, Edits
        <4>2. Wording[row.screened] = Wording[row.text]
          BY <2>3, <3>2, <3>5 DEF Editors
        <4> QED BY <2>2, <2>3, <3>1, <3>5, <4>1, <4>2
      <3>6. (\A x \in Requests : req[x].pc = "screen" => Editing(x))'
        BY <2>3, <3>4, BeginFields DEF Editors, Editing, Running
      <3> QED BY <2>3, <3>2, <3>3, <3>4, <3>5, <3>6 DEF Editors
    <2> QED BY <2>4, <2>5
  <1>10. ASSUME NEW r \in Requests, ValidateLoad(r) \/ RemoveLoad(r) \/ VoteLoad(r) \/ CommentLoad(r)
                   \/ UncommentLoad(r) \/ ConfirmLoad(r) \/ DisputeLoad(r) \/ ResolveLoad(r)
         PROVE  Editors'
    BY <1>5, <1>10, OtherCalls DEF Begins
  \* An edit that ends, or goes on, is the only one while nothing disturbs it.
  <1>11. ASSUME NEW r \in Requests, NEW pc, Goto(r, pc) \/ Finish(r, pc), Editing(r),
                UNCHANGED incidents, Undisturbed'
         PROVE  /\ Undisturbed /\ \A q \in Requests : Editing(q) => q = r
                /\ \A q \in Requests : Editing(q)' => q = r
    <2>1. Undisturbed
      BY <1>11 DEF Undisturbed
    <2>2. \A q \in Requests : Editing(q) => q = r
      BY <1>11, <2>1 DEF Editors
    <2>3. \A q \in Requests \ {r} : req'[q] = req[q]
      BY <1>3, <1>11
    <2> QED BY <2>1, <2>2, <2>3 DEF Editing, Running
  <1>12. ASSUME NEW r \in Requests, Screen(r)
         PROVE  Editors'
    <2> DEFINE new == [row EXCEPT !.status = "PENDING_REVIEW", !.screened = req[r].text]
    <2>1. new.status = "PENDING_REVIEW" /\ new.screened = req[r].text /\ new.text = row.text
      BY <1>0 DEF Contributed
    <2> HIDE DEF new
    <2>2. UpdateRow(r, new, "ok") /\ UNCHANGED incidents
      BY <1>12 DEF Screen, history, new
    <2>3. Editing(r) /\ row.status # "NONE"
      BY <1>12 DEF Screen, Editors
    <2>4. Finish(r, "ok") \/ Finish(r, "failed")
      BY <2>2 DEF UpdateRow, Goto
    <2>5. ~Editing(r)'
      BY <1>3, <2>4 DEF Editing, Running
    <2>6. ASSUME Undisturbed'
          PROVE  /\ Undisturbed /\ \A q \in Requests : ~Editing(q)'
                 /\ \A q \in Requests : ~At(q, "update", "write")'
      BY <1>11, <2>2, <2>3, <2>4, <2>5, <2>6 DEF At, Editing, Running, Edits
    <2>7. ASSUME Undisturbed', row'.status = "PENDING_REVIEW"
          PROVE  row'.screened = row'.text
      <3>1. There /\ row' = new
        <4>1. CASE There
          BY <2>2, <4>1 DEF UpdateRow
        <4>2. CASE ~There
          BY <2>2, <2>7, <4>2 DEF UpdateRow, There, Gone
        <4> QED BY <4>1, <4>2
      <3>2. req[r].text = row.text
        BY <1>12, <2>3, <2>6, <2>7, <3>1 DEF Screen, Editors
      <3> QED BY <2>1, <3>1, <3>2
    <2>8. \A q \in Requests : Editing(q)' => row'.status # "NONE"
      BY <2>1, <2>2, <2>3 DEF UpdateRow
    <2>9. (\A q \in Requests : req[q].pc = "screen" => Editing(q))'
      BY <1>3, <2>4 DEF Editors, Editing, Running
    <2> QED BY <2>6, <2>7, <2>8, <2>9 DEF Editors
  <1>13. ASSUME NEW r \in Requests, UpdateWrite(r)
         PROVE  Editors'
    <2> DEFINE new == [row EXCEPT !.text = req[r].text]
               pc == IF There THEN IF req[r].screens THEN "screen" ELSE "ok" ELSE "failed"
    <2>1. new.status = row.status /\ new.screened = row.screened /\ new.text = req[r].text
      BY <1>0 DEF Contributed
    <2> HIDE DEF new
    <2>2. row' = (IF There THEN new ELSE row) /\ UNCHANGED incidents
      BY <1>13 DEF UpdateWrite, UpdateRow, history, new
    <2>3. At(r, "update", "write") /\ Editing(r) /\ row.status # "NONE"
      BY <1>13 DEF UpdateWrite, At, Editing, Running, Edits, Editors
    <2>4. Goto(r, pc) \/ Finish(r, pc)
      BY <1>13 DEF UpdateWrite, UpdateRow
    <2>5. req'[r].op = "update" /\ req'[r].pc = pc /\ \A q \in Requests \ {r} : req'[q] = req[q]
      BY <1>3, <2>3, <2>4 DEF At
    <2>6. req'[r].pc = "screen" => /\ There /\ req'[r] = [req[r] EXCEPT !.pc = "screen"]
                                   /\ req'[r].text = req[r].text
      <3>1. ASSUME req'[r].pc = "screen"
            PROVE  There /\ req[r].screens
        BY <2>5, <3>1
      <3>2. ASSUME req'[r].pc = "screen"
            PROVE  req' = [req EXCEPT ![r].pc = "screen"]
        BY <1>13, <3>1, <3>2 DEF UpdateWrite, UpdateRow, Goto
      <3>3. [req[r] EXCEPT !.pc = "screen"].text = req[r].text
        BY <1>0 DEF Request
      <3> QED BY <3>1, <3>2, <3>3 DEF TypeOK
    <2>7. row'.status = row.status
      BY <2>1, <2>2
    <2>8. ASSUME Undisturbed'
          PROVE  Undisturbed /\ \A q \in Requests : Editing(q)' => q = r
      BY <1>11, <2>2, <2>3, <2>4, <2>8
    <2>9. ASSUME Undisturbed', NEW q \in Requests, Editing(q)', req'[q].pc = "screen", There'
          PROVE  req'[q].text = row'.text
      <3>1. q = r
        BY <2>8, <2>9
      <3> QED BY <2>1, <2>2, <2>6, <2>9, <3>1
    <2>10. \A q \in Requests : Undisturbed' => ~At(q, "update", "write")'
      BY <2>5, <2>8 DEF At, Editing, Running, Edits
    <2>11. ASSUME Undisturbed', \A q \in Requests : ~Editing(q)', row'.status = "PENDING_REVIEW"
           PROVE  Wording[row'.screened] = Wording[row'.text]
      <3>1. There
        BY <2>7, <2>11 DEF There, Gone
      <3>2. ~req[r].screens
        BY <2>5, <2>11, <3>1 DEF Editing, Running, Edits
      <3>3. Wording[req[r].text] = Wording[row.text] /\ Wording[row.screened] = Wording[row.text]
        BY <2>3, <2>7, <2>8, <2>11, <3>2 DEF Editors
      <3> QED BY <2>1, <2>2, <3>1, <3>3
    <2>12. (\A q \in Requests : Editing(q) => row.status # "NONE")'
      BY <2>3, <2>7
    <2>13. (\A q \in Requests : req[q].pc = "screen" => Editing(q))'
      BY <2>5 DEF Editors, Editing, Running, Edits
    <2> QED BY <2>8, <2>9, <2>10, <2>11, <2>12, <2>13 DEF Editors
  <1>14. ASSUME NEW r \in Requests,
                ValidateWrite(r) \/ RemoveWrite(r) \/ VoteCommit(r) \/ CommentCreate(r)
                   \/ UncommentWrite(r) \/ ConfirmWrite(r) \/ DisputeWrite(r) \/ ResolveWrite(r)
         PROVE  /\ \A q \in Requests : \/ req'[q] = req[q]
                                       \/ ~Editing(q) /\ ~Editing(q)' /\ req'[q].pc # "screen"
                /\ UNCHANGED incidents
    <2>1. req[r].op \notin Edits /\ UNCHANGED incidents
      BY <1>14 DEF ValidateWrite, RemoveWrite, VoteCommit, CommentCreate, UncommentWrite,
                   ConfirmWrite, DisputeWrite, ResolveWrite, At, Edits, history
    <2>2. \E pc \in {"ok", "failed"} : Goto(r, pc) \/ Finish(r, pc)
      BY <1>14 DEF ValidateWrite, RemoveWrite, VoteCommit, CommentCreate, UncommentWrite,
                   ConfirmWrite, DisputeWrite, ResolveWrite, UpdateRow
    <2>3. req'[r].op = req[r].op /\ req'[r].pc # "screen"
          /\ \A q \in Requests \ {r} : req'[q] = req[q]
      BY <1>3, <2>2
    <2> QED BY <1>2, <2>1, <2>3
  <1>15. ASSUME NEW r \in Requests, VoteCommit(r) \/ CommentCreate(r) \/ UncommentWrite(r)
         PROVE  Editors'
    <2>1. row' = row
      BY <1>15 DEF VoteCommit, CommentCreate, UncommentWrite
    <2> QED BY <1>1, <1>14, <1>15, <2>1
  <1>16. ASSUME NEW r \in Requests, ValidateWrite(r)
         PROVE  Editors'
    <2> DEFINE new == [row EXCEPT !.status = Verdict(req[r].outcome)]
    <2>1. new.status \in {"APPROVED", "CHANGES_REQUESTED", "REJECTED"} /\ new.text = row.text
      <3>1. Verdict(req[r].outcome) \in {"APPROVED", "CHANGES_REQUESTED", "REJECTED"}
        BY <1>16 DEF ValidateWrite, Targets, Verdict
      <3> QED BY <1>0, <3>1 DEF Contributed
    <2> HIDE DEF new
    <2>2. row' = row \/ (There /\ row' = new)
      BY <1>16 DEF ValidateWrite, UpdateRow, new
    <2> QED BY <1>1, <1>14, <1>16, <2>1, <2>2 DEF There, Gone
  <1>17. ASSUME NEW r \in Requests, RemoveWrite(r)
         PROVE  Editors'
    <2> DEFINE new == [row EXCEPT !.status = "ARCHIVED"]
    <2>1. new.status = "ARCHIVED" /\ new.text = row.text
      BY <1>0 DEF Contributed
    <2> HIDE DEF new
    <2>2. row' = row \/ (There /\ row' = new) \/ DeleteRow
      BY <1>17 DEF RemoveWrite, UpdateRow, new
    <2>3. DeleteRow => row'.status = "DELETED"
      BY DeleteTyped
    <2> QED BY <1>1, <1>14, <1>17, <2>1, <2>2, <2>3 DEF There, Gone
  <1>18. ASSUME NEW r \in Requests, ConfirmWrite(r)
         PROVE  Editors'
    <2> DEFINE new == [row EXCEPT !.status = "DRAFT", !.dup = TRUE, !.due = Countdown]
    <2>1. new.status = "DRAFT" /\ new.text = row.text
      BY <1>0 DEF Contributed
    <2> HIDE DEF new
    <2>2. row' = row \/ (There /\ row' = new)
      BY <1>18 DEF ConfirmWrite, UpdateRow, new
    <2> QED BY <1>1, <1>14, <1>18, <2>1, <2>2 DEF There, Gone
  <1>19. ASSUME NEW r \in Requests, DisputeWrite(r)
         PROVE  Editors'
    <2> DEFINE new == [row EXCEPT !.dispute = "PENDING", !.due = 0]
    <2>1. new.status = row.status /\ new.text = row.text /\ new.screened = row.screened
      BY <1>0 DEF Contributed
    <2> HIDE DEF new
    <2>2. row' = row \/ row' = new
      BY <1>19 DEF DisputeWrite, UpdateRow, new
    <2> QED BY <1>1, <1>14, <1>19, <2>1, <2>2
  <1>20. ASSUME NEW r \in Requests, ResolveWrite(r)
         PROVE  Editors'
    <2> DEFINE back == [row EXCEPT !.status = "APPROVED", !.dup = FALSE, !.due = 0,
                                   !.dispute = "ACCEPTED"]
               again == [row EXCEPT !.dispute = "REJECTED", !.due = Countdown]
    <2>1. /\ back.status = "APPROVED" /\ back.text = row.text
          /\ again.status = row.status /\ again.text = row.text /\ again.screened = row.screened
      BY <1>0 DEF Contributed
    <2> HIDE DEF back, again
    <2>2. row' = row \/ (There /\ row' = back) \/ row' = again
      BY <1>20 DEF ResolveWrite, UpdateRow, back, again
    <2> QED BY <1>1, <1>14, <1>20, <2>1, <2>2 DEF There, Gone
  <1>21. ASSUME NEW r \in Requests, VoteRead(r)
         PROVE  Editors'
    <2>1. req' = [req EXCEPT ![r] = [[req[r] EXCEPT !.pc = "commit"] EXCEPT !.old = votes[req[r].user]]]
      BY <1>21 DEF VoteRead, TypeOK
    <2>2. /\ [[req[r] EXCEPT !.pc = "commit"] EXCEPT !.old = votes[req[r].user]].op = req[r].op
          /\ [[req[r] EXCEPT !.pc = "commit"] EXCEPT !.old = votes[req[r].user]].pc = "commit"
      BY <1>0 DEF Request
    <2>3. /\ req[r].op \notin Edits /\ req'[r].op = req[r].op /\ req'[r].pc = "commit"
          /\ \A q \in Requests \ {r} : req'[q] = req[q]
      BY <1>21, <2>1, <2>2 DEF TypeOK, VoteRead, At, Edits
    <2> QED BY <1>1, <1>2, <1>21, <2>3 DEF VoteRead, history
  <1>22. ASSUME NEW r \in Requests, CommentParent(r)
         PROVE  Editors'
    <2>1. req[r].op = "comment" /\ row' = row /\ UNCHANGED incidents
      BY <1>22 DEF CommentParent, At, history
    <2>2. /\ req'[r].op = "comment" /\ req'[r].pc \in {"write", "failed"}
          /\ \A q \in Requests \ {r} : req'[q] = req[q]
      <3>1. CASE Kept(req[r].target)
        <4> DEFINE next == [[req[r] EXCEPT !.pc = "write"] EXCEPT !.target = Thread(req[r].target)]
        <4>1. next.op = "comment" /\ next.pc = "write"
          BY <1>0, <2>1 DEF Request
        <4>2. req' = [req EXCEPT ![r] = next]
          BY <1>0, <1>22, <3>1 DEF CommentParent, TypeOK, Request
        <4> HIDE DEF next
        <4> QED BY <4>1, <4>2 DEF TypeOK
      <3>2. CASE ~Kept(req[r].target)
        BY <1>3, <1>22, <2>1, <3>2 DEF CommentParent
      <3> QED BY <3>1, <3>2
    <2> QED BY <1>1, <1>2, <2>1, <2>2 DEF Edits
  <1>23. ASSUME NEW r \in Requests, Crash(r)
         PROVE  Editors'
    <2>1. ~Undisturbed' /\ row' = row
      BY <1>23 DEF Crash, Undisturbed
    <2>2. req'[r].pc = "failed" /\ \A q \in Requests \ {r} : req'[q] = req[q]
      BY <1>3, <1>23 DEF Crash
    <2> QED BY <2>1, <2>2 DEF Editors, Editing, Running
  <1>24. CASE PurgeFind \/ Tick
    BY <1>1, <1>24 DEF PurgeFind, Tick, history
  <1>25. CASE PurgeDelete
    <2>1. row' = row \/ DeleteRow
      BY <1>25 DEF PurgeDelete
    <2>2. DeleteRow => row'.status = "DELETED"
      BY DeleteTyped
    <2> QED BY <1>1, <1>25, <2>1, <2>2 DEF PurgeDelete, history, Gone
  <1>26. ASSUME NEW u \in Users, Depart(u)
         PROVE  Editors'
    <2>1. (row' = row \/ DeleteRow) /\ UNCHANGED <<req, incidents>>
      BY <1>26 DEF Depart, history
    <2>2. DeleteRow => row'.status = "DELETED"
      BY DeleteTyped
    <2> QED BY <1>1, <2>1, <2>2 DEF Gone
  <1> QED BY <1>4, <1>7, <1>8, <1>9, <1>10, <1>12, <1>13, <1>15, <1>16, <1>17, <1>18, <1>19, <1>20,
             <1>21, <1>22, <1>23, <1>24, <1>25, <1>26 DEF Next, Call, Step

-----------------------------------------------------------------------------
(* Sums over a finite set                                                  *)

\* A family of subsets of a finite set is empty if each of them includes a smaller one: this
\* is induction on finite sets without a predicate as a parameter.
LEMMA Descent ==
    ASSUME NEW S, IsFiniteSet(S), NEW B, B \subseteq SUBSET S,
           \A s \in B : \E t \in B : t \subseteq s /\ t # s
    PROVE  B = {}
  <1> SUFFICES ASSUME B # {} PROVE FALSE
    OBVIOUS
  <1>1. B \subseteq FiniteSubsetsOf(S)
    BY FS_Subset DEF FiniteSubsetsOf
  <1>2. IsWellFoundedOn(StrictSubsetOrdering(S), FiniteSubsetsOf(S))
    BY FS_StrictSubsetOrderingWellFounded
  <1>3. PICK s \in B : \A t \in B : ~(<<t, s>> \in StrictSubsetOrdering(S))
    BY <1>1, <1>2, WFMin
  <1>4. PICK t \in B : t \subseteq s /\ t # s
    OBVIOUS
  <1>5. <<t, s>> \in StrictSubsetOrdering(S)
    BY <1>4 DEF StrictSubsetOrdering
  <1> QED BY <1>3, <1>5

\* The recursive definition of the sum has a solution: one that is right on the sets of at
\* most n elements gives one that is right on those of n + 1.
LEMMA SumExists ==
    ASSUME NEW S, IsFiniteSet(S), NEW f
    PROVE  \E g : Adds(f, S, g)
  <1> DEFINE Rhs(g, s) == IF s = {} THEN 0 ELSE f[Pick(s)] + g[s \ {Pick(s)}]
             Upto(g, C) == \A s \in SUBSET S : Cardinality(s) <= Cardinality(C) => g[s] = Rhs(g, s)
             B == {C \in SUBSET S : ~\E g : Upto(g, C)}
  <1>1. \A s \in SUBSET S : s # {} => Pick(s) \in s
    BY DEF Pick
  <1> HIDE DEF Rhs
  <1>2. ASSUME NEW C \in B PROVE \E t \in B : t \subseteq C /\ t # C
    <2>1. IsFiniteSet(C) /\ Cardinality(C) \in Nat
      BY FS_Subset, FS_CardinalityType
    <2>2. C # {}
      <3> SUFFICES ASSUME C = {} PROVE FALSE
        OBVIOUS
      <3> DEFINE g == [s \in SUBSET S |-> 0]
      <3>1. ASSUME NEW s \in SUBSET S, Cardinality(s) <= Cardinality(C) PROVE g[s] = Rhs(g, s)
        <4>1. IsFiniteSet(s) /\ Cardinality(s) \in Nat
          BY FS_Subset, FS_CardinalityType
        <4>2. Cardinality(s) = 0
          BY <3>1, <4>1, FS_EmptySet
        <4>3. s = {}
          BY <4>1, <4>2, FS_EmptySet
        <4> QED BY <4>3 DEF Rhs
      <3>2. Upto(g, C)
        BY <3>1
      <3> HIDE DEF g
      <3> QED BY <3>2
    <2> DEFINE t == C \ {Pick(C)}
    <2>3. t \in SUBSET S /\ t \subseteq C /\ t # C /\ Cardinality(t) = Cardinality(C) - 1
      BY <1>1, <2>1, <2>2, FS_RemoveElement
    <2>4. ASSUME NEW g, Upto(g, t) PROVE FALSE
      <3> DEFINE h == [s \in SUBSET S |-> Rhs(g, s)]
      <3>1. ASSUME NEW s \in SUBSET S, Cardinality(s) <= Cardinality(C) PROVE h[s] = Rhs(h, s)
        <4>1. CASE s = {}
          BY <4>1 DEF Rhs
        <4>2. CASE s # {}
          <5> DEFINE r == s \ {Pick(s)}
          <5>1. IsFiniteSet(s) /\ Cardinality(s) \in Nat
            BY FS_Subset, FS_CardinalityType
          <5>2. r \in SUBSET S /\ Cardinality(r) = Cardinality(s) - 1
            BY <1>1, <4>2, <5>1, FS_RemoveElement
          <5>3. Cardinality(r) <= Cardinality(t)
            BY <2>1, <2>3, <3>1, <5>1, <5>2
          <5>4. g[r] = h[r]
            BY <2>4, <5>2, <5>3
          <5> QED BY <4>2, <5>4 DEF Rhs
        <4> QED BY <4>1, <4>2
      <3>2. Upto(h, C)
        BY <3>1
      <3> HIDE DEF h
      <3> QED BY <3>2
    <2>5. t \in B
      BY <2>3, <2>4
    <2> QED BY <2>3, <2>5
  <1>3. B = {}
    <2> HIDE DEF B
    <2>1. B \subseteq SUBSET S
      BY DEF B
    <2> QED BY <1>2, <2>1, Descent
  <1>4. PICK g : Upto(g, S)
    BY <1>3
  <1> DEFINE h == [s \in SUBSET S |-> g[s]]
  <1>5. \A s \in SUBSET S : g[s] = Rhs(g, s)
    BY <1>4, FS_Subset, FS_CardinalityType
  <1>6. ASSUME NEW s \in SUBSET S PROVE h[s] = Rhs(h, s)
    BY <1>5 DEF Rhs
  <1>7. h = [s \in SUBSET S |-> IF s = {} THEN 0 ELSE f[Pick(s)] + h[s \ {Pick(s)}]]
    BY <1>6 DEF Rhs
  <1>8. Adds(f, S, h)
    <2> HIDE DEF h
    <2> QED BY <1>7 DEF Adds
  <1> HIDE DEF h
  <1> QED BY <1>8

\* The sum over a set and over its subsets
LEMMA SumIs ==
    ASSUME NEW S, IsFiniteSet(S), NEW f, NEW s \in SUBSET S
    PROVE  Added(f, S)[s] = IF s = {} THEN 0 ELSE f[Pick(s)] + Added(f, S)[s \ {Pick(s)}]
  <1>1. Adds(f, S, Added(f, S))
    BY SumExists DEF Added
  <1> HIDE DEF Added
  <1> QED BY <1>1 DEF Adds

LEMMA SumType ==
    ASSUME NEW S, IsFiniteSet(S), NEW f, NEW T, 0 \in T, \A x, y \in T : x + y \in T,
           \A x \in S : f[x] \in T
    PROVE  \A s \in SUBSET S : Added(f, S)[s] \in T
  <1> DEFINE B == {s \in SUBSET S : Added(f, S)[s] \notin T}
  <1>1. ASSUME NEW s \in B PROVE \E t \in B : t \subseteq s /\ t # s
    <2>1. s \in SUBSET S /\ Added(f, S)[s] \notin T
      OBVIOUS
    <2>2. Added(f, S)[s] = IF s = {} THEN 0 ELSE f[Pick(s)] + Added(f, S)[s \ {Pick(s)}]
      BY <2>1, SumIs
    <2>3. s # {}
      BY <2>1, <2>2
    <2>4. Pick(s) \in s
      BY <2>3 DEF Pick
    <2>5. Added(f, S)[s \ {Pick(s)}] \notin T
      BY <2>1, <2>2, <2>3, <2>4
    <2> QED BY <2>1, <2>4, <2>5
  <1>2. B = {}
    <2>1. B \subseteq SUBSET S
      OBVIOUS
    <2> HIDE DEF B
    <2> QED BY <1>1, <2>1, Descent
  <1> QED BY <1>2

\* A sum changes by what one of its terms changes.
LEMMA SumChanges ==
    ASSUME NEW S, IsFiniteSet(S), NEW f, NEW g, NEW i \in S,
           \A x \in S : f[x] \in Int /\ g[x] \in Int,
           \A x \in S \ {i} : g[x] = f[x]
    PROVE  Added(g, S)[S] = Added(f, S)[S] + (g[i] - f[i])
  <1> DEFINE Diff(s) == IF i \in s THEN g[i] - f[i] ELSE 0
             B == {s \in SUBSET S : Added(g, S)[s] # Added(f, S)[s] + Diff(s)}
  <1>0. \A s \in SUBSET S : Added(f, S)[s] \in Int /\ Added(g, S)[s] \in Int
    BY SumType
  <1>1. ASSUME NEW s \in B PROVE \E t \in B : t \subseteq s /\ t # s
    <2>0. /\ s \in SUBSET S /\ Added(g, S)[s] # Added(f, S)[s] + Diff(s)
          /\ Added(f, S)[s] = IF s = {} THEN 0 ELSE f[Pick(s)] + Added(f, S)[s \ {Pick(s)}]
          /\ Added(g, S)[s] = IF s = {} THEN 0 ELSE g[Pick(s)] + Added(g, S)[s \ {Pick(s)}]
      BY SumIs
    <2>1. s # {}
      BY <2>0
    <2> DEFINE x == Pick(s)
               t == s \ {x}
    <2>2. x \in s /\ t \in SUBSET S /\ t \subseteq s /\ t # s
      BY <2>1 DEF Pick
    <2>3. Added(f, S)[s] = f[x] + Added(f, S)[t] /\ Added(g, S)[s] = g[x] + Added(g, S)[t]
      BY <2>0, <2>1
    <2>4. /\ Added(f, S)[t] \in Int /\ Added(g, S)[t] \in Int
          /\ f[x] \in Int /\ g[x] \in Int /\ f[i] \in Int /\ g[i] \in Int
      BY <1>0, <2>2
    <2> HIDE DEF x
    <2>5. t \in B
      <3>1. CASE x = i
        BY <2>2, <2>3, <2>4, <3>1
      <3>2. CASE x # i
        <4>1. g[x] = f[x] /\ Diff(t) = Diff(s)
          BY <2>2, <3>2
        <4> QED BY <2>2, <2>3, <2>4, <4>1
      <3> QED BY <3>1, <3>2
    <2> QED BY <2>2, <2>5
  <1>2. B = {}
    <2>1. B \subseteq SUBSET S
      OBVIOUS
    <2> HIDE DEF B
    <2> QED BY <1>1, <2>1, Descent
  <1>3. Added(g, S)[S] = Added(f, S)[S] + Diff(S)
    BY <1>2
  <1> QED BY <1>3
-----------------------------------------------------------------------------
(* Votes                                                                   *)

LEMMA ScoreIsSum ==
    MapThenSumSet(LAMBDA u : votes[u] + gone[u], Users) = Added(Given, Users)[Users]
  BY Zenon DEF MapThenSumSet, MapThenFoldSet, Added, Adds, Pick, Given

LEMMA NoVotesSum ==
    ASSUME NEW f, \A u \in Users : f[u] = 0
    PROVE  Added(f, Users)[Users] = 0
  <1>1. IsFiniteSet(Users) /\ Users \in SUBSET Users
    BY ContributionBounds
  <1> DEFINE Zero == {0}
  <1>2. 0 \in Zero /\ (\A x, y \in Zero : x + y \in Zero) /\ \A u \in Users : f[u] \in Zero
    OBVIOUS
  <1>3. \A s \in SUBSET Users : Added(f, Users)[s] \in Zero
    <2> HIDE DEF Zero
    <2> QED BY <1>1, <1>2, SumType
  <1> QED BY <1>1, <1>3

LEMMA VotersInit == Init => Voters
  <1> SUFFICES ASSUME Init PROVE Voters
    OBVIOUS
  <1>1. \A r \in Requests : ~Running(r) /\ req[r].pc = "new"
    BY DEF Init, NewRequest, Running, Steps
  <1>2. score = 0 /\ \A u \in Users : gone[u] = 0 /\ Given[u] = 0
    BY DEF Init, Given
  <1>3. accounts = Users
    BY DEF Init
  <1> HIDE DEF Given
  <1> QED BY <1>1, <1>2, <1>3, NoVotesSum DEF Voters, Voting, At

\* The contribution, once it is gone, does not come back, and only the creation makes it.
LEMMA RowGoesOn ==
    ASSUME TypeOK, NEW r \in Requests, NEW new \in Contributed, NEW pc, UpdateRow(r, new, pc),
           There => new.status # "NONE"
    PROVE  (There' => There) /\ (row'.status = "NONE" => row.status = "NONE")
  BY DEF UpdateRow, There, Gone

\* A step of another request changes neither votes nor voters.
LEMMA VotersStay ==
    ASSUME TypeOK, Voters, UNCHANGED <<accounts, votes, gone, score>>, incidents \subseteq incidents',
           There' => There, row'.status = "NONE" => row.status = "NONE",
           \A q \in Requests : req'[q] = req[q] \/ ~Voting(q)'
    PROVE  Voters'
  <1>1. (\A q \in Requests : Voting(q) => row.status # "NONE")'
    BY DEF Voters, Voting, Running
  <1>6. (\A u \in accounts : gone[u] = 0)'
    BY DEF Voters
  <1> SUFFICES ASSUME "vote" \notin incidents'
               PROVE  /\ (\A q, t \in Requests :
                              Voting(q) /\ Voting(t) /\ req[q].user = req[t].user => q = t)'
                      /\ (\A q \in Requests : At(q, "vote", "commit") /\ There
                                                    /\ req[q].user \in accounts
                                                  => req[q].old = votes[req[q].user])'
                      /\ score' = Added(Given', Users)[Users]
    BY <1>1, <1>6 DEF Voters
  <1>2. "vote" \notin incidents
    OBVIOUS
  <1>3. ASSUME NEW q \in Requests, NEW t \in Requests, Voting(q)', Voting(t)',
               req'[q].user = req'[t].user
        PROVE  q = t
    BY <1>2, <1>3 DEF Voters, Voting, Running
  <1>4. ASSUME NEW q \in Requests, At(q, "vote", "commit")', There', req'[q].user \in accounts'
        PROVE  req'[q].old = votes'[req'[q].user]
    <2>1. Voting(q)'
      BY <1>4 DEF At, Voting, Running, Steps
    <2>2. req'[q] = req[q]
      BY <2>1
    <2> QED BY <1>2, <1>4, <2>2 DEF Voters, At
  <1>5. score' = Added(Given', Users)[Users]
    <2>1. Given' = Given
      BY DEF Given
    <2> QED BY <1>2, <2>1 DEF Voters
  <1> QED BY <1>3, <1>4, <1>5

\* With the contribution go its votes.
LEMMA VotersDeleted ==
    ASSUME TypeOK, Voters, DeleteRow, incidents \subseteq incidents', accounts' \subseteq accounts,
           \A q \in Requests : req'[q] = req[q] \/ ~Voting(q)'
    PROVE  Voters'
  <1>1. row'.status = "DELETED" /\ ~There'
    BY DeleteTyped DEF There, Gone
  <1>2. score' = 0 /\ votes' = [u \in Users |-> 0] /\ gone' = [u \in Users |-> 0]
    BY DEF DeleteRow
  <1>5. accounts' \subseteq Users /\ \A u \in Users : gone'[u] = 0 /\ Given'[u] = 0
    BY <1>2 DEF TypeOK, Given
  <1>3. score' = Added(Given', Users)[Users]
    <2> HIDE DEF Given
    <2> QED BY <1>2, <1>5, NoVotesSum
  <1>4. ASSUME "vote" \notin incidents', NEW q \in Requests, NEW t \in Requests,
               Voting(q)', Voting(t)', req'[q].user = req'[t].user
        PROVE  q = t
    BY <1>4 DEF Voters, Voting, Running
  <1> QED BY <1>1, <1>3, <1>4, <1>5 DEF Voters

\* The vote of an account that is deleted leaves the votes and stays in the score.
LEMMA VotersDepart ==
    ASSUME TypeOK, Voters, NEW u \in Users, Depart(u)
    PROVE  Voters'
  <1>1. u \in accounts /\ accounts' = accounts \ {u} /\ UNCHANGED <<req, incidents>>
    BY DEF Depart, history
  <1>2. CASE There /\ DeleteRow
    BY <1>1, <1>2, VotersDeleted
  <1>3. CASE /\ votes' = [votes EXCEPT ![u] = 0] /\ gone' = [gone EXCEPT ![u] = votes[u]]
             /\ UNCHANGED <<row, score>>
    <2>1. (\A q \in Requests : Voting(q) => row.status # "NONE")'
      BY <1>1, <1>3 DEF Voters, Voting, Running
    <2>2. (\A x \in accounts : gone[x] = 0)'
      BY <1>1, <1>3 DEF Voters, TypeOK
    <2>3. ASSUME "vote" \notin incidents', NEW q \in Requests, NEW t \in Requests,
                 Voting(q)', Voting(t)', req'[q].user = req'[t].user
          PROVE  q = t
      BY <1>1, <2>3 DEF Voters, Voting, Running
    <2>4. ASSUME "vote" \notin incidents', NEW q \in Requests, At(q, "vote", "commit")', There',
                 req'[q].user \in accounts'
          PROVE  req'[q].old = votes'[req'[q].user]
      <3>1. req[q].user \in accounts /\ req[q].user # u
        BY <1>1, <2>4
      <3>2. req[q].old = votes[req[q].user]
        BY <1>1, <1>3, <2>4, <3>1 DEF Voters, At, There
      <3>3. votes'[req[q].user] = votes[req[q].user]
        BY <1>3, <3>1 DEF TypeOK
      <3> QED BY <1>1, <3>2, <3>3
    <2>5. Given' = Given
      <3>1. votes \in [Users -> -1..1] /\ gone \in [Users -> -1..1] /\ gone[u] = 0
        BY <1>1 DEF TypeOK, Voters
      <3>2. ASSUME NEW x \in Users PROVE votes'[x] + gone'[x] = votes[x] + gone[x]
        BY <1>3, <3>1
      <3> QED BY <3>2 DEF Given
    <2>6. "vote" \notin incidents' => score' = Added(Given', Users)[Users]
      BY <1>1, <1>3, <2>5 DEF Voters
    <2> QED BY <2>1, <2>2, <2>3, <2>4, <2>6 DEF Voters
  <1> QED BY <1>2, <1>3 DEF Depart

\* A vote begins, and no other of its user is running.
LEMMA VoteBegins ==
    ASSUME TypeOK, Voters, NEW r \in Requests, VoteLoad(r)
    PROVE  Voters'
  <1>1. PICK u \in accounts, v \in -1..1 :
           Begin(r, [New("vote", IF row.status = "APPROVED" /\ u # Author
                                 THEN "read" ELSE "failed") EXCEPT !.user = u, !.value = v])
    BY DEF VoteLoad
  <1> DEFINE new == [New("vote", IF row.status = "APPROVED" /\ u # Author
                                 THEN "read" ELSE "failed") EXCEPT !.user = u, !.value = v]
  <1>2. new.op = "vote" /\ new.user = u
        /\ new.pc = IF row.status = "APPROVED" /\ u # Author THEN "read" ELSE "failed"
    BY DEF New, NewRequest
  <1>3. Begin(r, new)
    BY <1>1
  <1> HIDE DEF new
  <1>4. /\ UNCHANGED <<accounts, row, votes, gone, score>> /\ incidents \subseteq incidents' /\ ~Voting(r)
        /\ req'[r].op = "vote" /\ req'[r].pc = new.pc
        /\ \A q \in Requests \ {r} : req'[q] = req[q]
    BY <1>2, <1>3, BeginFields DEF VoteLoad, texts, Begin, Voting, Running, Steps
  <1>5. CASE new.pc = "failed"
    BY <1>4, <1>5, VotersStay DEF There, Voting, Running, Steps
  <1>6. CASE row.status = "APPROVED" /\ new.pc = "read"
    <2>1. req'[r] = new
      BY <1>3, <1>6, BeginFields DEF Final
    <2>2. (\A q \in Requests : Voting(q) => row.status # "NONE")'
      BY <1>4, <1>6 DEF Voters, Voting, Running
    <2>3. ASSUME "vote" \notin incidents', NEW q \in Requests, q # r, Voting(q)'
          PROVE  req'[q].user # u
      <3>1. ~Crosses("vote", u)
        BY <1>2, <1>3, <1>6, <2>3 DEF Begin, Steps, Kind, Edits
      <3>2. req'[q] = req[q] /\ Voting(q)
        BY <1>4, <2>3 DEF Voting, Running
      <3> QED BY <3>1, <3>2 DEF Crosses, Voting, Kind, Edits
    <2>4. ASSUME "vote" \notin incidents', NEW q \in Requests, NEW t \in Requests,
                 Voting(q)', Voting(t)', req'[q].user = req'[t].user
          PROVE  q = t
      <3>1. CASE q # r /\ t # r
        BY <1>4, <2>4, <3>1 DEF Voters, Voting, Running
      <3> QED BY <1>2, <2>1, <2>3, <2>4, <3>1
    <2>5. ASSUME "vote" \notin incidents', NEW q \in Requests, At(q, "vote", "commit")', There',
                 req'[q].user \in accounts'
          PROVE  req'[q].old = votes'[req'[q].user]
      <3>1. q # r
        BY <1>4, <1>6, <2>5 DEF At
      <3>2. req'[q] = req[q] /\ There
        BY <1>4, <2>5, <3>1 DEF There
      <3> QED BY <1>4, <2>5, <3>2 DEF Voters, At
    <2>6. "vote" \notin incidents' => score' = Added(Given', Users)[Users]
      <3>1. Given' = Given
        BY <1>4 DEF Given
      <3> QED BY <1>4, <3>1 DEF Voters
    <2>7. (\A x \in accounts : gone[x] = 0)'
      BY <1>4 DEF Voters
    <2> QED BY <2>2, <2>4, <2>5, <2>6, <2>7 DEF Voters
  <1> QED BY <1>2, <1>5, <1>6

\* A vote reads the row that it changes.
LEMMA VoteReads ==
    ASSUME TypeOK, Voters, NEW r \in Requests, VoteRead(r)
    PROVE  Voters'
  <1> DEFINE next == [[req[r] EXCEPT !.pc = "commit"] EXCEPT !.old = votes[req[r].user]]
  <1>0. req[r] \in Request
    BY DEF TypeOK
  <1>1. req' = [req EXCEPT ![r] = next]
    BY <1>0 DEF VoteRead, TypeOK, Request
  <1>2. /\ next.op = "vote" /\ next.pc = "commit"
        /\ next.old = votes[req[r].user] /\ next.user = req[r].user
    BY <1>0 DEF VoteRead, At, Request
  <1> HIDE DEF next
  <1>3. req'[r] = next /\ Voting(r) /\ \A q \in Requests \ {r} : req'[q] = req[q]
    BY <1>1 DEF TypeOK, Voting, VoteRead, At, Running, Steps
  <1>4. UNCHANGED <<accounts, row, votes, gone, score, incidents>> /\ Given' = Given
    BY DEF VoteRead, texts, history, Given
  <1>5. \A q \in Requests : (Voting(q)' => Voting(q)) /\ req'[q].user = req[q].user
    BY <1>2, <1>3 DEF Voting, Running
  <1>6. ASSUME "vote" \notin incidents, NEW q \in Requests, At(q, "vote", "commit")', There',
               req'[q].user \in accounts'
        PROVE  req'[q].old = votes'[req'[q].user]
    <2>1. CASE q = r
      BY <1>2, <1>3, <1>4, <2>1
    <2>2. CASE q # r
      BY <1>3, <1>4, <1>6, <2>2 DEF Voters, At, There
    <2> QED BY <2>1, <2>2
  <1> QED BY <1>4, <1>5, <1>6 DEF Voters

\* A vote changes the score by what it changes the vote.
LEMMA VoteCounts ==
    ASSUME TypeOK, Voters, NEW r \in Requests, VoteCommit(r)
    PROVE  Voters'
  <1> DEFINE u == req[r].user
             old == req[r].old
             value == req[r].value
  <1>0. req[r] \in Request /\ u \in Users /\ old \in -1..1 /\ value \in -1..1
    BY DEF TypeOK, Request
  <1>1. At(r, "vote", "commit") /\ Voting(r) /\ UNCHANGED <<accounts, row, gone, incidents>>
    BY DEF VoteCommit, Voting, At, Running, Steps, history
  <1>2. PICK pc \in Final : Finish(r, pc)
    BY DEF VoteCommit, Final
  <1>3. req'[r].pc \in Final /\ \A q \in Requests \ {r} : req'[q] = req[q]
    BY <1>2, GotoFields
  <1>4. ~Voting(r)'
    BY <1>3 DEF Voting, Running, Steps, Final
  <1>5. CASE UNCHANGED <<votes, score>>
    BY <1>1, <1>3, <1>4, <1>5, VotersStay DEF There
  <1>6. CASE /\ There /\ u \in accounts /\ votes' = [votes EXCEPT ![u] = value]
             /\ score' = score + Delta(old, value)
    <2>1. (\A q \in Requests : Voting(q) => row.status # "NONE")'
      BY <1>1, <1>3, <1>4 DEF Voters, Voting, Running
    <2>2. ASSUME "vote" \notin incidents', NEW q \in Requests, NEW t \in Requests,
                 Voting(q)', Voting(t)', req'[q].user = req'[t].user
          PROVE  q = t
      BY <1>1, <1>3, <1>4, <2>2 DEF Voters, Voting, Running
    <2>3. ASSUME "vote" \notin incidents', NEW q \in Requests, At(q, "vote", "commit")', There',
                 req'[q].user \in accounts'
          PROVE  req'[q].old = votes'[req'[q].user]
      <3>1. Voting(q)' /\ q # r
        BY <1>4, <2>3 DEF At, Voting, Running, Steps
      <3>2. req'[q] = req[q] /\ Voting(q) /\ At(q, "vote", "commit")
        BY <1>3, <2>3, <3>1 DEF At, Voting, Running
      <3>3. req[q].user # u
        BY <1>1, <2>3, <3>1, <3>2 DEF Voters
      <3>4. req[q].user \in Users
        BY DEF TypeOK, Request
      <3>5. votes'[req[q].user] = votes[req[q].user]
        BY <1>6, <3>3, <3>4 DEF TypeOK
      <3> QED BY <1>1, <1>6, <2>3, <3>2, <3>5 DEF Voters
    <2>4. ASSUME "vote" \notin incidents'
          PROVE  score' = Added(Given', Users)[Users]
      <3>1. score = Added(Given, Users)[Users] /\ old = votes[u]
        BY <1>1, <1>6, <2>4 DEF Voters
      <3>2. Delta(old, value) = value - votes[u]
        BY <1>0, <3>1 DEF Delta
      <3>3. votes'[u] = value /\ \A x \in Users \ {u} : votes'[x] = votes[x]
        BY <1>0, <1>6 DEF TypeOK
      <3>4. \A x \in Users : votes[x] \in Int /\ votes'[x] \in Int /\ gone[x] \in Int
        BY <1>0, <3>3 DEF TypeOK
      <3>5. /\ \A x \in Users : Given[x] \in Int /\ Given'[x] \in Int
            /\ Given'[u] - Given[u] = value - votes[u]
            /\ \A x \in Users \ {u} : Given'[x] = Given[x]
        BY <1>0, <1>1, <3>3, <3>4 DEF Given
      <3> HIDE DEF u, value, old
      <3>6. Added(Given', Users)[Users] = Added(Given, Users)[Users] + (Given'[u] - Given[u])
        <4>1. IsFiniteSet(Users) /\ u \in Users
          BY <1>0, ContributionBounds
        <4> QED BY <3>5, <4>1, SumChanges
      <3> QED BY <1>6, <3>1, <3>2, <3>5, <3>6
    <2>5. (\A x \in accounts : gone[x] = 0)'
      BY <1>1 DEF Voters
    <2> QED BY <2>1, <2>2, <2>3, <2>4, <2>5 DEF Voters
  <1> QED BY <1>5, <1>6 DEF VoteCommit

LEMMA VotersStep == TypeOK /\ Targets /\ Editors /\ Voters /\ [Next]_vars => Voters'
  <1> SUFFICES ASSUME TypeOK, Targets, Editors, Voters, [Next]_vars PROVE Voters'
    OBVIOUS
  <1>0. row \in Contributed /\ \A r \in Requests : req[r] \in Request
    BY DEF TypeOK
  <1>1. CASE UNCHANGED vars
    BY <1>1, VotersStay DEF vars, texts, history, There
  \* A request that is not a vote begins.
  <1>2. ASSUME NEW r \in Requests, NEW new, Begin(r, new), new.op # "vote",
               UNCHANGED <<accounts, row, votes, gone, score>>
        PROVE  Voters'
    BY <1>2, BeginFields, VotersStay DEF Begin, Voting, There
  <1>3. ASSUME NEW r \in Requests, Create(r)
        PROVE  Voters'
    <2>1. PICK draft \in BOOLEAN :
             Begin(r, [New("create", IF draft THEN "ok" ELSE "screen") EXCEPT !.text = 1])
      BY <1>3 DEF Create
    <2> DEFINE new == [New("create", IF draft THEN "ok" ELSE "screen") EXCEPT !.text = 1]
    <2>2. new.op = "create" /\ Begin(r, new)
      BY <2>1 DEF New, NewRequest
    <2> HIDE DEF new
    <2>3. \A q \in Requests : ~Voting(q)
      BY <1>3 DEF Create, Voters
    <2>4. \A q \in Requests : ~Voting(q)'
      BY <2>2, <2>3, BeginFields DEF Voting, Running
    <2>5. UNCHANGED <<accounts, votes, gone, score>> /\ incidents \subseteq incidents'
      BY <1>3, <2>2 DEF Create, texts, Begin
    <2>6. \A q \in Requests : ~At(q, "vote", "commit")'
      BY <2>4 DEF At, Voting, Running, Steps
    <2>7. Given' = Given
      BY <2>5 DEF Given
    <2> QED BY <2>4, <2>5, <2>6, <2>7 DEF Voters
  <1>4. ASSUME NEW r \in Requests, SubmitLoad(r)
        PROVE  Voters'
    <2> DEFINE new == [New("submit", IF row.status \in {"DRAFT", "CHANGES_REQUESTED"}
                                     THEN "screen" ELSE "failed") EXCEPT !.text = row.text]
    <2>1. new.op = "submit" /\ Begin(r, new)
      BY <1>4 DEF SubmitLoad, New, NewRequest
    <2> HIDE DEF new
    <2> QED BY <1>2, <1>4, <2>1 DEF SubmitLoad, texts
  <1>5. ASSUME NEW r \in Requests, UpdateLoad(r)
        PROVE  Voters'
    <2>1. PICK who \in Admins \cup {Author}, late \in BOOLEAN, submit \in BOOLEAN, t \in 1..MaxText :
             Begin(r, [New("update", IF MayUpdate(who \in Admins, late) THEN "write" ELSE "failed")
                       EXCEPT !.user = who, !.text = t,
                              !.screens = \/ row.status = "DRAFT" /\ submit
                                          \/ row.status = "CHANGES_REQUESTED"
                                          \/ row.status = "PENDING_REVIEW" /\ Wording[t] # Wording[row.text]])
      BY <1>5 DEF UpdateLoad
    <2> DEFINE new == [New("update", IF MayUpdate(who \in Admins, late) THEN "write" ELSE "failed")
                       EXCEPT !.user = who, !.text = t,
                              !.screens = \/ row.status = "DRAFT" /\ submit
                                          \/ row.status = "CHANGES_REQUESTED"
                                          \/ row.status = "PENDING_REVIEW" /\ Wording[t] # Wording[row.text]]
    <2>2. new.op = "update" /\ Begin(r, new)
      BY <2>1 DEF New, NewRequest
    <2> HIDE DEF new
    <2> QED BY <1>2, <1>5, <2>2 DEF UpdateLoad, texts
  <1>6. ASSUME NEW r \in Requests,
               \/ ValidateLoad(r) \/ RemoveLoad(r) \/ CommentLoad(r) \/ UncommentLoad(r)
               \/ ConfirmLoad(r) \/ DisputeLoad(r) \/ ResolveLoad(r)
        PROVE  Voters'
    <2>1. row' = row /\ Begins(r)
      BY <1>6, OtherCalls
    <2>2. PICK new : Begin(r, new) /\ (new.op = "vote" => VoteLoad(r))
      BY <2>1 DEF Begins
    <2>3. UNCHANGED <<accounts, votes, gone, score>>
      BY <1>6 DEF ValidateLoad, RemoveLoad, CommentLoad, UncommentLoad, ConfirmLoad, DisputeLoad,
                  ResolveLoad, texts
    <2> QED BY <1>2, <2>1, <2>2, <2>3, VoteBegins
  \* A request that is not a vote goes on or ends.
  <1>7. ASSUME NEW r \in Requests, NEW pc, Goto(r, pc) \/ Finish(r, pc), req[r].op # "vote"
        PROVE  \A q \in Requests : req'[q] = req[q] \/ ~Voting(q)'
    BY <1>7, GotoFields DEF Voting
  <1>8. ASSUME NEW r \in Requests, NEW new \in Contributed, NEW pc, UpdateRow(r, new, pc),
               There => new.status # "NONE", req[r].op # "vote", UNCHANGED <<accounts, votes, gone, score, incidents>>
        PROVE  Voters'
    BY <1>7, <1>8, RowGoesOn, VotersStay DEF UpdateRow
  <1>9. ASSUME NEW r \in Requests, Screen(r)
        PROVE  Voters'
    <2> DEFINE new == [row EXCEPT !.status = "PENDING_REVIEW", !.screened = req[r].text]
    <2>1. new \in Contributed /\ new.status # "NONE"
      BY <1>0 DEF Contributed, Request, Statuses
    <2>2. UpdateRow(r, new, "ok") /\ UNCHANGED <<accounts, votes, gone, score, incidents>>
      BY <1>9 DEF Screen, texts, history
    <2>3. req[r].op # "vote"
      BY <1>9 DEF Screen, Targets, Editors, Editing, Edits
    <2> HIDE DEF new
    <2> QED BY <1>8, <2>1, <2>2, <2>3
  <1>10. ASSUME NEW r \in Requests, UpdateWrite(r)
         PROVE  Voters'
    <2> DEFINE new == [row EXCEPT !.text = req[r].text]
    <2>1. new \in Contributed /\ (There => new.status # "NONE")
      BY <1>0 DEF Contributed, Request, There, Gone
    <2>2. /\ UpdateRow(r, new, IF req[r].screens THEN "screen" ELSE "ok")
          /\ UNCHANGED <<accounts, votes, gone, score, incidents>> /\ req[r].op # "vote"
      BY <1>10 DEF UpdateWrite, texts, history, At
    <2> HIDE DEF new
    <2> QED BY <1>8, <2>1, <2>2
  <1>11. ASSUME NEW r \in Requests, ValidateWrite(r)
         PROVE  Voters'
    <2> DEFINE new == [row EXCEPT !.status = Verdict(req[r].outcome)]
    <2>1. Verdict(req[r].outcome) \in Statuses
      BY <1>11 DEF Targets, ValidateWrite, Verdict, Statuses
    <2>2. new \in Contributed /\ (There => new.status # "NONE")
      BY <1>0, <2>1 DEF Contributed, Statuses
    <2>3. UpdateRow(r, new, "ok") /\ UNCHANGED <<accounts, votes, gone, score, incidents>> /\ req[r].op # "vote"
      BY <1>11 DEF ValidateWrite, texts, history, At
    <2> HIDE DEF new
    <2> QED BY <1>8, <2>2, <2>3
  <1>12. ASSUME NEW r \in Requests, RemoveWrite(r)
         PROVE  Voters'
    <2> DEFINE new == [row EXCEPT !.status = "ARCHIVED"]
    <2>1. new \in Contributed /\ new.status # "NONE"
      BY <1>0 DEF Contributed, Statuses
    <2>2. UNCHANGED <<accounts, incidents>> /\ req[r].op # "vote"
      BY <1>12 DEF RemoveWrite, history, At
    <2> HIDE DEF new
    <2>3. CASE DeleteRow /\ Finish(r, "ok")
      BY <1>7, <2>2, <2>3, VotersDeleted
    <2>4. CASE UpdateRow(r, new, "ok") /\ UNCHANGED texts
      BY <1>8, <2>1, <2>2, <2>4 DEF texts
    <2> QED BY <1>12, <2>3, <2>4 DEF RemoveWrite, new
  <1>13. ASSUME NEW r \in Requests, CommentParent(r)
         PROVE  Voters'
    <2>1. /\ UNCHANGED <<accounts, row, votes, gone, score, incidents>> /\ req[r].op = "comment"
          /\ \A q \in Requests \ {r} : req'[q] = req[q]
      BY <1>13, GotoFields DEF CommentParent, texts, history, At, TypeOK
    <2>2. req'[r].op = "comment"
      <3>1. CASE Kept(req[r].target)
        <4> DEFINE next == [[req[r] EXCEPT !.pc = "write"] EXCEPT !.target = Thread(req[r].target)]
        <4>1. next.op = "comment"
          BY <1>0, <2>1 DEF Request
        <4>2. req' = [req EXCEPT ![r] = next]
          BY <1>0, <1>13, <3>1 DEF CommentParent, TypeOK, Request
        <4> HIDE DEF next
        <4> QED BY <4>1, <4>2 DEF TypeOK
      <3>2. CASE ~Kept(req[r].target)
        BY <1>13, <2>1, <3>2, GotoFields DEF CommentParent
      <3> QED BY <3>1, <3>2
    <2> QED BY <2>1, <2>2, VotersStay DEF Voting, There
  <1>14. ASSUME NEW r \in Requests, CommentCreate(r) \/ UncommentWrite(r)
         PROVE  Voters'
    <2>1. UNCHANGED <<accounts, row, votes, gone, score, incidents>> /\ req[r].op # "vote"
      BY <1>14 DEF CommentCreate, UncommentWrite, history, At
    <2>2. PICK pc \in Final : Finish(r, pc)
      BY <1>14 DEF CommentCreate, UncommentWrite, Final
    <2> QED BY <1>7, <2>1, <2>2, VotersStay DEF There
  <1>15. ASSUME NEW r \in Requests, ConfirmWrite(r)
         PROVE  Voters'
    <2> DEFINE new == [row EXCEPT !.status = "DRAFT", !.dup = TRUE, !.due = Countdown]
    <2>1. Countdown \in 0..(MaxDay + 1)
      BY ContributionBounds DEF TypeOK, Countdown
    <2>2. new \in Contributed /\ new.status # "NONE"
      BY <1>0, <2>1 DEF Contributed, Statuses
    <2>3. UpdateRow(r, new, "ok") /\ UNCHANGED <<accounts, votes, gone, score, incidents>> /\ req[r].op # "vote"
      BY <1>15 DEF ConfirmWrite, texts, history, At
    <2> HIDE DEF new
    <2> QED BY <1>8, <2>2, <2>3
  <1>16. ASSUME NEW r \in Requests, DisputeWrite(r)
         PROVE  Voters'
    <2> DEFINE new == [row EXCEPT !.dispute = "PENDING", !.due = 0]
    <2>1. 0 \in 0..(MaxDay + 1)
      BY ContributionBounds
    <2>2. new \in Contributed /\ (There => new.status # "NONE")
      BY <1>0, <2>1 DEF Contributed, Disputes, There, Gone
    <2>3. UpdateRow(r, new, "ok") /\ UNCHANGED <<accounts, votes, gone, score, incidents>> /\ req[r].op # "vote"
      BY <1>16 DEF DisputeWrite, texts, history, At
    <2> HIDE DEF new
    <2> QED BY <1>8, <2>2, <2>3
  <1>17. ASSUME NEW r \in Requests, ResolveWrite(r)
         PROVE  Voters'
    <2> DEFINE yes == [row EXCEPT !.status = "APPROVED", !.dup = FALSE, !.due = 0,
                                  !.dispute = "ACCEPTED"]
               no == [row EXCEPT !.dispute = "REJECTED", !.due = Countdown]
    <2>1. Countdown \in 0..(MaxDay + 1) /\ 0 \in 0..(MaxDay + 1)
      BY ContributionBounds DEF TypeOK, Countdown
    <2>2. yes \in Contributed /\ yes.status # "NONE"
      BY <1>0, <2>1 DEF Contributed, Statuses, Disputes
    <2>3. no \in Contributed /\ (There => no.status # "NONE")
      BY <1>0, <2>1 DEF Contributed, Disputes, There, Gone
    <2>4. UpdateRow(r, yes, "ok") \/ UpdateRow(r, no, "ok")
      BY <1>17 DEF ResolveWrite
    <2>5. UNCHANGED <<accounts, votes, gone, score, incidents>> /\ req[r].op # "vote"
      BY <1>17 DEF ResolveWrite, texts, At
    <2> HIDE DEF yes, no
    <2> QED BY <1>8, <2>2, <2>3, <2>4, <2>5
  <1>18. ASSUME NEW r \in Requests, Crash(r)
         PROVE  Voters'
    <2>1. \A q \in Requests : req'[q] = req[q] \/ ~Voting(q)'
      BY <1>18, GotoFields DEF Crash, Voting, Running, Steps
    <2> QED BY <1>18, <2>1, VotersStay DEF Crash, texts, There
  <1>19. CASE PurgeFind \/ Tick
    BY <1>19, VotersStay DEF PurgeFind, Tick, texts, history, There
  <1>20. CASE PurgeDelete
    BY <1>20, VotersStay, VotersDeleted DEF PurgeDelete, texts, history, There
  <1> QED BY <1>1, <1>3, <1>4, <1>5, <1>6, <1>9, <1>10, <1>11, <1>12, <1>13, <1>14, <1>15, <1>16,
             <1>17, <1>18, <1>19, <1>20, VoteBegins, VoteReads, VoteCounts, VotersDepart
          DEF Next, Call, Step

-----------------------------------------------------------------------------
(* The theorems                                                            *)

LEMMA ContributionInvHolds == Spec => []ContributionInv
  <1>1. Init => ContributionInv
    BY TypeInit, ThreadsInit, CountdownsInit, EditorsInit, VotersInit
       DEF ContributionInv, Threads
  <1>2. ContributionInv /\ [Next]_vars => ContributionInv'
    BY TypeStep, ThreadsStep, CountdownsStep, EditorsStep, VotersStep
       DEF ContributionInv, Threads
  <1> QED BY <1>1, <1>2, PTL DEF Spec

\* The rows and the requests keep their types, and no countdown is longer than a day.
THEOREM TypesHold == Spec => []TypeOK
  <1>1. ContributionInv => TypeOK
    BY DEF ContributionInv
  <1> QED BY <1>1, ContributionInvHolds, PTL

\* Threads stay one level deep, whatever is removed while a reply is written
\* (contributions.service.ts 1957-1978).
THEOREM ThreadsAreFlat == Spec => []RepliesAreFlat
  <1>1. ContributionInv => RepliesAreFlat
    BY DEF ContributionInv
  <1> QED BY <1>1, ContributionInvHolds, PTL

\* What awaits review was screened with the wording it has, as long as no edit crosses
\* another or is cut short, for any number of edits, moderators and disputes (269-289,
\* 1733-1795). Another region of what is pending is not screened.
THEOREM ReviewIsScreened == Spec => []ScreenedBeforeReview
  <1>1. ContributionInv => ScreenedBeforeReview
    BY DEF ContributionInv, Editors, ScreenedBeforeReview, Editing, Undisturbed
  <1> QED BY <1>1, ContributionInvHolds, PTL

\* The score stays the sum of the votes and of those that went with the accounts of their
\* voters, unless one user sends two at once, whatever moderators, deletions, the purge and
\* crashes do while a vote is counted (960-1000).
THEOREM ScoreIsVotesHolds == Spec => []ScoreIsVotes
  <1>1. ContributionInv => ScoreIsVotes
    BY ScoreIsSum DEF ContributionInv, Voters, ScoreIsVotes
  <1> QED BY <1>1, ContributionInvHolds, PTL

\* A duplicate is purged only after the countdown that precedes the purge's search
\* (2262, 2410, 2451).
THEOREM PurgeWaits == Spec => PurgedAfterCountdown
  <1>1. ContributionInv /\ [Next]_vars =>
            [purge = "delete" /\ purge' = "idle" => searched # 0 /\ day >= searched + 1]_vars
    BY ContributionBounds DEF ContributionInv, Countdowns, TypeOK
  <1> QED BY <1>1, ContributionInvHolds, PTL DEF Spec, PurgedAfterCountdown
=============================================================================
