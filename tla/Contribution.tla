------------------------------ MODULE Contribution ------------------------------
(***************************************************************************)
(* One contribution of contributions.service.ts: its row, the votes and    *)
(* comments it receives, the requests of its author, of other users and of *)
(* moderators, and the purge of confirmed duplicates that every node runs. *)
(* A handler takes one step per awaited query; it checks the row it read   *)
(* and then writes by id.                                                  *)
(***************************************************************************)
EXTENDS Integers, FiniteSets, FiniteSetsExt

CONSTANTS
    Users,        \* users who vote and moderate
    Author,       \* the author
    Admins,       \* the moderators
    Comments,     \* ids of comments
    Departing,    \* users whose accounts may be deleted
    MaxText,      \* contents that it may have
    Wording,      \* what each says, its region left aside
    MaxDay,       \* the clock's bound
    Requests,     \* the requests; each runs once
    Calls,        \* the operations that each request may be
    FirstStatus   \* statuses in which the contribution is first observed

Statuses == {"DRAFT", "PENDING_REVIEW", "APPROVED", "REJECTED", "CHANGES_REQUESTED", "ARCHIVED"}
Gone == {"NONE", "DELETED"}
Edits == {"create", "submit", "update"}
Operations == Edits \cup {"validate", "remove", "vote", "comment", "uncomment",
                          "confirm", "dispute", "resolve"}

ASSUME ContributionBounds ==
    /\ Author \in Users /\ Admins \subseteq Users /\ Departing \subseteq Users
    /\ IsFiniteSet(Users)
    /\ Comments \cap {"root", "unused", "deleted"} = {}
    /\ MaxText \in Nat \ {0} /\ MaxDay \in Nat \ {0}
    /\ Wording \in [0..MaxText -> Nat]
    /\ Calls \in [Requests -> SUBSET Operations]
    /\ FirstStatus \subseteq Statuses \cup {"NONE"}

VARIABLES
    day,        \* the date, in periods of 24 hours
    accounts,   \* the users who have one
    row,        \* the contribution
    catalogue,  \* entries that its approvals have published
    votes,      \* value of each user's contribution_votes row, 0 without a row
    score,      \* contributions.score
    parent,     \* of each comment: a comment, "root", "unused" or "deleted"
    gone,       \* history: value of the vote that went with each deleted account
    req,        \* the requests
    purge,      \* progress of the purge
    notice,     \* history: the day the last countdown was started
    searched,   \* history: notice, as it was when the purge searched
    incidents   \* history: handlers that crossed each other or were cut short

texts == <<votes, score, parent, gone>>
history == <<notice, searched, incidents>>
vars == <<day, accounts, row, catalogue, texts, req, purge, history>>

Disputes == {"NONE", "PENDING", "ACCEPTED", "REJECTED"}
Contributed == [status : Statuses \cup Gone, text : 0..MaxText, screened : 0..MaxText,
                dup : BOOLEAN, due : 0..(MaxDay + 1), dispute : Disputes]
\* due = 0 stands for markedForDeletionAt = NULL; screened is the text that the
\* moderation columns describe, 0 before any.
NewRow(status) == [status |-> status, text |-> IF status = "NONE" THEN 0 ELSE 1,
                   screened |-> IF status \in {"NONE", "DRAFT"} THEN 0 ELSE 1,
                   dup |-> FALSE, due |-> 0, dispute |-> "NONE"]

Final == {"ok", "failed"}
Steps == {"write", "screen", "read", "commit", "parent"}
Outcomes == {"none", "approve", "changes", "reject", "accept", "refuse"}
Request == [op : Operations \cup {"none"}, pc : {"new"} \cup Steps \cup Final,
            user : Users, text : 0..MaxText, seen : Statuses \cup Gone, screens : BOOLEAN,
            value : -1..1, old : -1..1, outcome : Outcomes,
            target : Comments \cup {"root"}]
NewRequest == [op |-> "none", pc |-> "new", user |-> Author, text |-> 0, seen |-> "NONE",
               screens |-> FALSE, value |-> 0, old |-> 0, outcome |-> "none",
               target |-> "root"]

\* Comments get ids that were never used.
NewId(unused) == CHOOSE c \in unused : TRUE
Kept(c) == parent[c] \notin {"unused", "deleted"}

\* A contribution that is first observed with a status has a comment.
Init ==
    /\ day = 1
    /\ \E s \in FirstStatus :
          /\ row = NewRow(s)
          /\ catalogue = IF s = "APPROVED" THEN 1 ELSE 0
          /\ parent = [c \in Comments |-> IF c = NewId(Comments) /\ s # "NONE"
                                           THEN "root" ELSE "unused"]
    /\ accounts = Users
    /\ votes = [u \in Users |-> 0] /\ score = 0 /\ gone = [u \in Users |-> 0]
    /\ req = [r \in Requests |-> NewRequest]
    /\ purge = "idle" /\ notice = 0 /\ searched = 0 /\ incidents = {}

There == row.status \notin Gone
At(r, op, pc) == req[r].op = op /\ req[r].pc = pc
Running(r) == req[r].pc \in Steps
Kind(op) == IF op \in Edits THEN "edit" ELSE op
\* The edits of the contribution, and the votes of one user, that cross another
Crosses(op, u) ==
    /\ Kind(op) \in {"edit", "vote"}
    /\ \E q \in Requests : /\ Running(q) /\ Kind(req[q].op) = Kind(op)
                           /\ op = "vote" => req[q].user = u
New(op, pc) == [NewRequest EXCEPT !.op = op, !.pc = pc]
Begin(r, new) ==
    /\ req[r].pc = "new" /\ new.op \in Calls[r]
    /\ req' = [req EXCEPT ![r] = IF new.pc \in Final THEN New(new.op, new.pc) ELSE new]
    /\ incidents' = incidents \cup IF new.pc \in Steps /\ Crosses(new.op, new.user)
                                   THEN {Kind(new.op)} ELSE {}
Finish(r, pc) == req' = [req EXCEPT ![r] = New(req[r].op, pc)]
Goto(r, pc) == IF pc \in Final THEN Finish(r, pc) ELSE req' = [req EXCEPT ![r].pc = pc]

\* The rows that refer to the contribution go with it (onDelete: Cascade).
DeleteRow ==
    /\ row' = [NewRow("NONE") EXCEPT !.status = "DELETED"]
    /\ votes' = [u \in Users |-> 0] /\ score' = 0 /\ gone' = [u \in Users |-> 0]
    /\ parent' = [c \in Comments |-> IF Kept(c) THEN "deleted" ELSE parent[c]]
\* An update by id fails when the row is gone.
UpdateRow(r, new, pc) ==
    IF There THEN row' = new /\ Goto(r, pc) ELSE UNCHANGED row /\ Finish(r, "failed")

-----------------------------------------------------------------------------
(* Plausible bugs, for the mutation check of the properties.               *)

\* The moderation keeps the result it had for a contribution sent back.
ScreenOnce(r) ==
    /\ req[r].pc = "screen"
    /\ UpdateRow(r, [row EXCEPT !.status = "PENDING_REVIEW",
                                !.screened = IF @ = 0 THEN req[r].text ELSE @], "ok")
    /\ UNCHANGED <<day, accounts, catalogue, texts, purge, history>>
\* A vote that is changed counts as a new one.
DeltaWhole(old, value) == IF value = 0 THEN -old ELSE value
\* A reply is attached to the reply it answers.
ThreadOf(c) == c
\* A refused dispute is not looked for.
ExpiredUndisputed == row.dup /\ row.due # 0 /\ row.due <= day /\ row.dispute = "NONE"
\* The countdown of a duplicate confirmed again is not restarted.
CountdownKept == IF row.due = 0 THEN day + 1 ELSE row.due

-----------------------------------------------------------------------------
(* Creation, submission, update                                            *)

\* create: a row, a draft or already pending, then the automatic moderation
Create(r) ==
    /\ row.status = "NONE" /\ Author \in accounts
    /\ \E draft \in BOOLEAN :
          /\ Begin(r, [New("create", IF draft THEN "ok" ELSE "screen") EXCEPT !.text = 1])
          /\ row' = [NewRow(IF draft THEN "DRAFT" ELSE "PENDING_REVIEW")
                        EXCEPT !.text = 1, !.screened = 0]
    /\ UNCHANGED <<day, accounts, catalogue, texts, purge, notice, searched>>
\* processSubmissionModeration: what the text contains is decided on the fields
\* that the caller passes.
Screen(r) ==
    /\ req[r].pc = "screen"
    /\ UpdateRow(r, [row EXCEPT !.status = "PENDING_REVIEW", !.screened = req[r].text], "ok")
    /\ UNCHANGED <<day, accounts, catalogue, texts, purge, history>>
SubmitLoad(r) ==
    /\ Author \in accounts
    /\ Begin(r, [New("submit", IF row.status \in {"DRAFT", "CHANGES_REQUESTED"}
                               THEN "screen" ELSE "failed") EXCEPT !.text = row.text])
    /\ UNCHANGED <<day, accounts, row, catalogue, texts, purge, notice, searched>>
\* An author may not touch what is approved or archived, nor, after 48 hours,
\* what is pending.
MayUpdate(isAdmin, late) ==
    /\ There
    /\ isAdmin \/ row.status \notin {"APPROVED", "ARCHIVED"}
    /\ isAdmin \/ row.status # "PENDING_REVIEW" \/ ~late
\* The text is screened again for another wording, not for another region.
UpdateLoad(r) ==
    /\ \E who \in (Admins \cup {Author}) \cap accounts, late, submit \in BOOLEAN, t \in 1..MaxText :
          LET status == row.status IN
          Begin(r, [New("update", IF MayUpdate(who \in Admins, late) THEN "write" ELSE "failed")
                       EXCEPT !.user = who, !.text = t,
                              !.screens = \/ status = "DRAFT" /\ submit
                                          \/ status = "CHANGES_REQUESTED"
                                          \/ /\ status = "PENDING_REVIEW"
                                             /\ Wording[t] # Wording[row.text]])
    /\ UNCHANGED <<day, accounts, row, catalogue, texts, purge, notice, searched>>
UpdateWrite(r) ==
    /\ At(r, "update", "write")
    /\ UpdateRow(r, [row EXCEPT !.text = req[r].text], IF req[r].screens THEN "screen" ELSE "ok")
    /\ UNCHANGED <<day, accounts, catalogue, texts, purge, history>>

-----------------------------------------------------------------------------
(* validate and remove                                                     *)

\* Nobody approves his own contribution; the status is not looked at.
ValidateLoad(r) ==
    /\ \E admin \in Admins \cap accounts, outcome \in {"approve", "changes", "reject"} :
          Begin(r, [New("validate", IF There /\ ~(outcome = "approve" /\ admin = Author)
                                    THEN "write" ELSE "failed")
                       EXCEPT !.user = admin, !.outcome = outcome])
    /\ UNCHANGED <<day, accounts, row, catalogue, texts, purge, notice, searched>>
Verdict(outcome) == CASE outcome = "approve" -> "APPROVED"
                      [] outcome = "changes" -> "CHANGES_REQUESTED"
                      [] outcome = "reject" -> "REJECTED"
\* The approval adds the contribution to the catalogue in the same transaction.
ValidateWrite(r) ==
    /\ At(r, "validate", "write")
    /\ UpdateRow(r, [row EXCEPT !.status = Verdict(req[r].outcome)], "ok")
    /\ catalogue' = catalogue + IF There /\ req[r].outcome = "approve" THEN 1 ELSE 0
    /\ UNCHANGED <<day, accounts, texts, purge, history>>
\* The author, for 24 hours or as long as it is a draft, or an administrator
RemoveLoad(r) ==
    /\ \E isAdmin, late \in BOOLEAN :
          /\ (IF isAdmin THEN Admins ELSE {Author}) \cap accounts # {}
          /\ Begin(r, [New("remove", IF There /\ (isAdmin \/ row.status = "DRAFT" \/ ~late)
                                     THEN "write" ELSE "failed") EXCEPT !.seen = row.status])
    /\ UNCHANGED <<day, accounts, row, catalogue, texts, purge, notice, searched>>
RemoveWrite(r) ==
    /\ At(r, "remove", "write")
    /\ IF There /\ req[r].seen = "DRAFT" THEN DeleteRow /\ Finish(r, "ok")
       ELSE UpdateRow(r, [row EXCEPT !.status = "ARCHIVED"], "ok") /\ UNCHANGED texts
    /\ UNCHANGED <<day, accounts, catalogue, purge, history>>

-----------------------------------------------------------------------------
(* voteContribution                                                        *)

VoteLoad(r) ==
    /\ \E u \in accounts, v \in -1..1 :
          Begin(r, [New("vote", IF row.status = "APPROVED" /\ u # Author
                                THEN "read" ELSE "failed") EXCEPT !.user = u, !.value = v])
    /\ UNCHANGED <<day, accounts, row, catalogue, texts, purge, notice, searched>>
VoteRead(r) ==
    /\ At(r, "vote", "read")
    /\ req' = [req EXCEPT ![r].pc = "commit", ![r].old = votes[req[r].user]]
    /\ UNCHANGED <<day, accounts, row, catalogue, texts, purge, history>>
Delta(old, value) == IF value = 0 THEN -old ELSE value - old
\* A create fails on the unique key and without an account, and a change of a row
\* that is gone fails.
VoteCommit(r) ==
    LET u == req[r].user
        old == req[r].old
        value == req[r].value IN
    /\ At(r, "vote", "commit")
    /\ IF There /\ u \in accounts /\ (old = 0) = (votes[u] = 0)
       THEN /\ votes' = [votes EXCEPT ![u] = value] /\ score' = score + Delta(old, value)
            /\ Finish(r, "ok")
       ELSE /\ UNCHANGED <<votes, score>>
            /\ Finish(r, IF old = 0 /\ value = 0 THEN "ok" ELSE "failed")
    /\ UNCHANGED <<day, accounts, row, catalogue, parent, gone, purge, history>>

-----------------------------------------------------------------------------
(* addComment, removeComment                                               *)

CommentsOpen == There /\ row.status # "ARCHIVED" /\ ~row.dup /\ row.due <= day
CommentLoad(r) ==
    /\ \E target \in Comments \cup {"root"} :
          Begin(r, [New("comment", CASE ~CommentsOpen -> "failed"
                                     [] CommentsOpen /\ target = "root" -> "write"
                                     [] OTHER -> "parent") EXCEPT !.target = target])
    /\ UNCHANGED <<day, accounts, row, catalogue, texts, purge, notice, searched>>
\* A reply to a reply goes to the comment that begins the thread.
Thread(c) == IF parent[c] = "root" THEN c ELSE parent[c]
CommentParent(r) ==
    /\ At(r, "comment", "parent")
    /\ IF ~Kept(req[r].target) THEN Finish(r, "failed")
       ELSE req' = [req EXCEPT ![r].pc = "write", ![r].target = Thread(@)]
    /\ UNCHANGED <<day, accounts, row, catalogue, texts, purge, history>>
\* The foreign keys, of the contribution, the parent and the one who comments, must hold.
CommentCreate(r) ==
    LET target == req[r].target
        attached == There /\ target \in {"root"} \cup {c \in Comments : Kept(c)}
        unused == {c \in Comments : parent[c] = "unused"} IN
    /\ At(r, "comment", "write")
    /\ \/ /\ attached /\ unused # {}
          /\ parent' = [parent EXCEPT ![NewId(unused)] = target] /\ Finish(r, "ok")
       \/ /\ ~attached \/ accounts # Users
          /\ UNCHANGED parent /\ Finish(r, "failed")
    /\ UNCHANGED <<day, accounts, row, catalogue, votes, score, gone, purge, history>>
UncommentLoad(r) ==
    /\ \E c \in Comments :
          Begin(r, [New("uncomment", IF Kept(c) THEN "write" ELSE "failed")
                       EXCEPT !.target = c])
    /\ UNCHANGED <<day, accounts, row, catalogue, texts, purge, notice, searched>>
\* Its replies go with it.
Removed(c) == {c} \cup {d \in Comments : parent[d] = c}
UncommentWrite(r) ==
    LET target == req[r].target IN
    /\ At(r, "uncomment", "write")
    /\ IF Kept(target)
       THEN /\ parent' = [c \in Comments |-> IF c \in Removed(target) THEN "deleted" ELSE parent[c]]
            /\ Finish(r, "ok")
       ELSE UNCHANGED parent /\ Finish(r, "failed")
    /\ UNCHANGED <<day, accounts, row, catalogue, votes, score, gone, purge, history>>

-----------------------------------------------------------------------------
(* confirmDuplicate, submitDispute, resolveDispute                         *)

Countdown == day + 1
ConfirmLoad(r) ==
    /\ Admins \cap accounts # {}
    /\ Begin(r, New("confirm", IF There THEN "write" ELSE "failed"))
    /\ UNCHANGED <<day, accounts, row, catalogue, texts, purge, notice, searched>>
ConfirmWrite(r) ==
    /\ At(r, "confirm", "write")
    /\ UpdateRow(r, [row EXCEPT !.status = "DRAFT", !.dup = TRUE, !.due = Countdown], "ok")
    /\ notice' = day
    /\ UNCHANGED <<day, accounts, catalogue, texts, purge, searched, incidents>>
DisputeLoad(r) ==
    /\ Author \in accounts
    /\ Begin(r, New("dispute", IF There /\ row.dup THEN "write" ELSE "failed"))
    /\ UNCHANGED <<day, accounts, row, catalogue, texts, purge, notice, searched>>
\* The dispute stops the countdown.
DisputeWrite(r) ==
    /\ At(r, "dispute", "write")
    /\ UpdateRow(r, [row EXCEPT !.dispute = "PENDING", !.due = 0], "ok")
    /\ UNCHANGED <<day, accounts, catalogue, texts, purge, history>>
ResolveLoad(r) ==
    /\ \E admin \in Admins \cap accounts, outcome \in {"accept", "refuse"} :
          Begin(r, [New("resolve", IF There /\ row.dispute = "PENDING" THEN "write" ELSE "failed")
                       EXCEPT !.user = admin, !.outcome = outcome])
    /\ UNCHANGED <<day, accounts, row, catalogue, texts, purge, notice, searched>>
ResolveWrite(r) ==
    LET accepted == req[r].outcome = "accept" IN
    /\ At(r, "resolve", "write")
    /\ UpdateRow(r, IF accepted
                    THEN [row EXCEPT !.status = "APPROVED", !.dup = FALSE, !.due = 0,
                                     !.dispute = "ACCEPTED"]
                    ELSE [row EXCEPT !.dispute = "REJECTED", !.due = Countdown], "ok")
    /\ notice' = IF accepted THEN notice ELSE day
    /\ UNCHANGED <<day, accounts, catalogue, texts, purge, searched, incidents>>

-----------------------------------------------------------------------------
(* purgeExpiredDuplicates, every thirty minutes; deleted accounts; a       *)
(* crash; the clock                                                        *)

Expired == row.dup /\ row.due # 0 /\ row.due <= day /\ row.dispute # "PENDING"
PurgeFind ==
    /\ purge = "idle" /\ Expired
    /\ purge' = "delete" /\ searched' = notice
    /\ UNCHANGED <<day, accounts, row, catalogue, texts, req, notice, incidents>>
PurgeDelete ==
    /\ purge = "delete" /\ purge' = "idle"
    /\ IF There THEN DeleteRow ELSE UNCHANGED <<row, texts>>
    /\ UNCHANGED <<day, accounts, catalogue, req, history>>
\* user.delete: the votes and comments of the user go with his row (onDelete: Cascade),
\* and the score keeps what he gave. With its author the contribution goes, unless the
\* purge of accounts gives it to the archive, as it does with approved ones.
Depart(u) ==
    /\ u \in Departing \cap accounts /\ accounts' = accounts \ {u}
    /\ \/ u = Author /\ There /\ DeleteRow
       \/ /\ u # Author \/ row.status \in Gone \cup {"APPROVED"}
          /\ votes' = [votes EXCEPT ![u] = 0] /\ gone' = [gone EXCEPT ![u] = votes[u]]
          /\ \E his \in SUBSET {c \in Comments : Kept(c)} :
                parent' = [c \in Comments |-> IF \E d \in his : c \in Removed(d)
                                               THEN "deleted" ELSE parent[c]]
          /\ UNCHANGED <<row, score>>
    /\ UNCHANGED <<day, catalogue, req, purge, history>>
Crash(r) ==
    /\ Running(r)
    /\ Finish(r, "failed") /\ incidents' = incidents \cup {"crash"}
    /\ UNCHANGED <<day, accounts, row, catalogue, texts, purge, notice, searched>>
Tick ==
    /\ day < MaxDay /\ day' = day + 1
    /\ UNCHANGED <<accounts, row, catalogue, texts, req, purge, history>>

Call(r) == \/ Create(r) \/ SubmitLoad(r) \/ UpdateLoad(r) \/ ValidateLoad(r) \/ RemoveLoad(r)
           \/ VoteLoad(r) \/ CommentLoad(r) \/ UncommentLoad(r)
           \/ ConfirmLoad(r) \/ DisputeLoad(r) \/ ResolveLoad(r)
Step(r) == \/ Screen(r) \/ UpdateWrite(r) \/ ValidateWrite(r) \/ RemoveWrite(r)
           \/ VoteRead(r) \/ VoteCommit(r) \/ CommentParent(r) \/ CommentCreate(r)
           \/ UncommentWrite(r) \/ ConfirmWrite(r) \/ DisputeWrite(r) \/ ResolveWrite(r)
Next == (\E r \in Requests : Call(r) \/ Step(r) \/ Crash(r)) \/ PurgeFind \/ PurgeDelete
        \/ (\E u \in Users : Depart(u)) \/ Tick

Spec == Init /\ [][Next]_vars
\* The interval of the purge fires for ever, and its queries are answered.
FairSpec == Spec /\ WF_vars(PurgeFind) /\ WF_vars(PurgeDelete)

-----------------------------------------------------------------------------
(* Properties                                                              *)

\* Rows and requests keep their types, and no countdown is longer than a day.
TypeOK ==
    /\ day \in 1..MaxDay /\ accounts \subseteq Users
    /\ row \in Contributed /\ row.due <= day + 1 /\ catalogue \in Nat
    /\ votes \in [Users -> -1..1] /\ gone \in [Users -> -1..1] /\ score \in Int
    /\ parent \in [Comments -> Comments \cup {"root", "unused", "deleted"}]
    /\ req \in [Requests -> Request] /\ purge \in {"idle", "delete"}
    /\ notice \in 0..MaxDay /\ searched \in 0..MaxDay
    /\ incidents \subseteq {"edit", "vote", "crash"}

\* As long as no user sends two votes at once, the score is the sum of the votes and of
\* those that went with the accounts of their voters, whatever moderators, removals,
\* deletions, the purge and crashes do meanwhile (960-1000).
ScoreIsVotes ==
    "vote" \notin incidents => score = MapThenSumSet(LAMBDA u : votes[u] + gone[u], Users)

\* When no edit is running, and none has crossed another or was cut short, the wording of
\* what awaits review is the one that was screened, however often it was sent back,
\* withdrawn as a duplicate and submitted again (269-289, 1733-1795).
ScreenedBeforeReview ==
    /\ row.status = "PENDING_REVIEW" /\ incidents \cap {"edit", "crash"} = {}
    /\ \A r \in Requests : Running(r) => req[r].op \notin Edits
    => Wording[row.screened] = Wording[row.text]

\* Replies stay one level deep while comments and threads are removed: the parent
\* of a reply has a row and is not a reply (1957-1978).
RepliesAreFlat == \A c \in Comments : parent[c] \in Comments => parent[parent[c]] = "root"

\* The purge deletes nothing before the full countdown, counted from the last
\* confirmation or refused dispute that precedes its search (2262, 2410, 2451).
PurgedAfterCountdown ==
    [][purge = "delete" /\ purge' = "idle" => searched # 0 /\ day >= searched + 1]_vars

\* A confirmed duplicate whose countdown is over and which nobody disputes is
\* deleted, or rehabilitated, in the end (2451-2477).
ExpiredIsPurged ==
    row.dup /\ row.due # 0 /\ row.due <= day /\ row.dispute # "PENDING"
        ~> ~(row.dup /\ row.due # 0 /\ row.due <= day /\ row.dispute # "PENDING")

-----------------------------------------------------------------------------
(* What comments of the code promise, or a reader may expect, and races or *)
(* long histories break: TLC refutes each on the instance that README.md   *)
(* gives.                                                                  *)

\* The score is the sum of the votes (960-1000); user.delete takes votes away.
ScoreIsTheSum ==
    "vote" \notin incidents => score = MapThenSumSet(LAMBDA u : votes[u], Users)

\* What awaits review was screened as it is; another region is not looked at (1733-1736).
AllScreenedBeforeReview ==
    /\ row.status = "PENDING_REVIEW" /\ incidents \cap {"edit", "crash"} = {}
    /\ \A r \in Requests : Running(r) => req[r].op \notin Edits
    => row.screened = row.text

\* "Ne jamais supprimer si une contestation est en cours d'examen" (2458)
DisputedIsKept == [][purge = "delete" /\ row.dispute = "PENDING" => There']_vars

\* An approved contribution is archived, not deleted (1843).
ApprovedIsKept == [][row.status = "APPROVED" => There']_vars

\* The text of an approved contribution is changed by administrators only (1698).
ApprovedTextFixed ==
    [][row.status = "APPROVED" /\ There' /\ row'.text # row.text
          => \E r \in Requests : At(r, "update", "write") /\ req[r].user \in Admins]_vars

\* Only approved contributions receive votes (944).
OnlyApprovedVoted == [][votes' # votes => row.status = "APPROVED" \/ ~There']_vars

\* No comment is added to a confirmed duplicate (1938).
DuplicatesUncommented ==
    [][row.dup => \A c \in Comments : parent[c] = "unused" => parent'[c] = "unused"]_vars

\* An accepted dispute brings back what the public could see before (2371).
ApprovedIsPublished == row.status = "APPROVED" => catalogue > 0
=============================================================================
