------------------------------- MODULE BetaProgram -------------------------------
(***************************************************************************)
(* The beta testers of beta-testers.service.ts and the mails that their    *)
(* registration, their invitations and their departure send: an operation  *)
(* reads and writes rows of beta_testers, waits for sendEmail, and goes on *)
(* according to its result.                                                *)
(***************************************************************************)
EXTENDS Emails, FiniteSets

CONSTANTS
    Rows,         \* ids of beta_testers
    Platforms,    \* "ANDROID" and "IOS"
    KeyedMails,   \* mails that other parts of the server send
    Calls,        \* the operations that each request may be
    Known,        \* addresses of testers, at first
    FirstSuppressed, \* what email_suppressions may be at first
    FirstConfig,  \* the configuration at first
    Configs       \* configurations of the programme

ASSUME BetaBounds == IsFiniteSet(Rows) /\ IsFiniteSet(Platforms)

VARIABLES
    tester,       \* beta_testers
    config,       \* beta_automation_configs
    task          \* the requests

vars == <<mail, tester, config, task>>
rest == <<logs, suppressed, accepted, reported, faults, mishap>>

TesterStatuses == {"PENDING", "APPROVED", "INVITED", "REJECTED"}
Tester == [there : BOOLEAN, to : Addresses, hash : BOOLEAN, platforms : SUBSET Platforms,
           status : TesterStatuses,
           invite : [Platforms -> {"NOT_REQUESTED", "PENDING", "INVITED", "REJECTED"}],
           unsub : BOOLEAN]
\* hash: the row has its emailHash; unsub: unsubscribedAt is set.
Wanted(P) == [p \in Platforms |-> IF p \in P THEN "PENDING" ELSE "NOT_REQUESTED"]
NewTester(a, P, status) ==
    [there |-> TRUE, to |-> a, hash |-> TRUE, platforms |-> P, status |-> status,
     invite |-> Wanted(P), unsub |-> FALSE]
NoTester == [NewTester(AnyMail.to, {}, "PENDING") EXCEPT !.there = FALSE]
\* Ids are never used again.
Gone == [NoTester EXCEPT !.unsub = TRUE]

\* A mail that a request has to send; platform is "none" when it invites to nothing.
Item == [row : Rows, to : Addresses, template : Templates, platform : Platforms \cup {"none"}]
MailCalls == {"send", "retry", "hook", "unsuppress"}
Operations == MailCalls \cup {"register", "platforms", "unsubscribe", "resend", "invite",
                              "bulk", "notify", "status", "mark", "remove", "config"}
Final == {"ok", "failed"}
Task == [op : Operations \cup {"none"}, row : Rows, to : Addresses,
         pc : {"new", "create", "rejoin", "write", "next", "mailing", "record", "set"} \cup Final,
         platforms : SUBSET Platforms, status : TesterStatuses, seen : Tester, todo : Seq(Item)]
NewTask == [op |-> "none", row |-> CHOOSE x \in Rows : TRUE, to |-> AnyMail.to, pc |-> "new",
            platforms |-> {}, status |-> "PENDING", seen |-> NoTester, todo |-> <<>>]

There(x) == tester[x].there
Initial == IF config.invite THEN "APPROVED" ELSE "PENDING"

\* Some addresses are those of approved testers, some get no mail.
Init ==
    /\ MailInit /\ suppressed \in FirstSuppressed
    /\ config = FirstConfig
    /\ LET row == CHOOSE row \in [Known -> Rows] :
                      \A a, b \in Known : a # b => row[a] # row[b] IN
       tester = [x \in Rows |->
          IF \E a \in Known : row[a] = x
          THEN NewTester(CHOOSE a \in Known : row[a] = x, Platforms, "APPROVED") ELSE NoTester]
    /\ task = [r \in Requests |-> NewTask]

At(r, op, pc) == task[r].op = op /\ task[r].pc = pc
Running(r) == task[r].pc \notin Final \cup {"new"}
Ended(op, pc) == [NewTask EXCEPT !.op = op, !.pc = pc]
Finish(r, pc) == task' = [task EXCEPT ![r] = Ended(task[r].op, pc)]
Begin(r, new) ==
    /\ task[r].pc = "new" /\ new.op \in Calls[r]
    /\ task' = [task EXCEPT ![r] = IF new.pc \in Final THEN Ended(new.op, new.pc) ELSE new]
Starts(r, new) == Begin(r, new) /\ UNCHANGED <<mail, tester, config>>

-----------------------------------------------------------------------------
(* Sending the mails of a request                                          *)

Template(p) == IF p = "ANDROID" THEN "INVITE_ANDROID" ELSE "INVITE_IOS"
Letter(x, template) == [row |-> x, to |-> tester[x].to, template |-> template,
                        platform |-> "none"]
Invitation(x, p) == [Letter(x, Template(p)) EXCEPT !.platform = p]
\* The invitations of the testers X to those of P that are theirs: the testers in any order
\* (findMany without orderBy), one after the other, each to Android first
Invitations(X, P) ==
    {todo \in SetToSeqs({Invitation(w[1], w[2]) :
                            w \in {v \in X \X P : v[2] \in tester[v[1]].platforms}}) :
        \A i, j \in DOMAIN todo :
            i < j /\ todo[i].row = todo[j].row => j = i + 1 /\ todo[i].platform = "ANDROID"}

\* The state of a request that has todo left to send
AfterMails(op) == IF op = "status" THEN "set" ELSE "ok"
Sending(t, todo) ==
    IF todo # <<>> THEN [t EXCEPT !.pc = "next", !.todo = todo]
    ELSE IF AfterMails(t.op) = "ok" THEN Ended(t.op, "ok")
    ELSE [t EXCEPT !.pc = "set", !.todo = <<>>]
Continue(r, todo) == task' = [task EXCEPT ![r] = Sending(task[r], todo)]

\* Without the rest of what concerns the first tester
AfterTester(todo) ==
    IF Len(todo) > 1 /\ todo[2].row = todo[1].row THEN Tail(Tail(todo)) ELSE Tail(todo)
\* An error: a registration, a departure and an announcement go on, a bulk action goes
\* on with the next tester, the others end.
FailItem(r) ==
    LET t == task[r] IN
    IF t.op \in {"register", "unsubscribe", "notify"} THEN Continue(r, Tail(t.todo))
    ELSE IF t.op = "bulk"
         THEN Continue(r, AfterTester(t.todo))
    ELSE Finish(r, "failed")

\* Plausible bug, for the mutation check: the confirmation is sent like the others.
SentPlainly(item) == [to |-> item.to, template |-> item.template, key |-> NoKey,
                      bypass |-> FALSE]
\* The confirmation of a departure must reach suppressed addresses too.
Sent(item) == [to |-> item.to, template |-> item.template, key |-> NoKey,
               bypass |-> item.template = "UNSUBSCRIBE_CONFIRMATION"]

\* Plausible bug, for the mutation check: the invitation is recorded first.
SendNextRecorded(r) ==
    LET item == Head(task[r].todo) IN
    /\ task[r].pc = "next"
    /\ IF item.platform = "none" \/ There(item.row)
       THEN Invoke(r, Sent(item)) /\ task' = [task EXCEPT ![r].pc = "mailing"]
       ELSE FailItem(r) /\ UNCHANGED mail
    /\ tester' = IF item.platform = "none" THEN tester
                 ELSE [tester EXCEPT ![item.row].invite[item.platform] = "INVITED"]
    /\ UNCHANGED config

\* The next mail; an invitation is for a tester who is still there.
SendNext(r) ==
    LET item == Head(task[r].todo) IN
    /\ task[r].pc = "next"
    /\ IF item.platform = "none" \/ There(item.row)
       THEN Invoke(r, Sent(item)) /\ task' = [task EXCEPT ![r].pc = "mailing"]
       ELSE FailItem(r) /\ UNCHANGED mail
    /\ UNCHANGED <<tester, config>>

\* sendEmail has returned: "sent", "cached" and "barred" are all a success.
Mailed(r) ==
    /\ task[r].pc = "mailing" /\ Answered(r)
    /\ call' = [call EXCEPT ![r] = NoCall]
    /\ IF task[r].op \in MailCalls THEN Finish(r, "ok")
       ELSE IF call[r].pc = "error" THEN FailItem(r)
       ELSE IF Head(task[r].todo).platform = "none" THEN Continue(r, Tail(task[r].todo))
       ELSE task' = [task EXCEPT ![r].pc = "record"]
    /\ UNCHANGED <<rest, tester, config>>

\* sendAndroidInvite and sendIosInvite, after the mail
RecordInvite(r) ==
    LET item == Head(task[r].todo) IN
    /\ task[r].pc = "record"
    /\ IF There(item.row)
       THEN /\ tester' = [tester EXCEPT ![item.row].status = "INVITED",
                                        ![item.row].invite[item.platform] = "INVITED"]
            /\ Continue(r, Tail(task[r].todo))
       ELSE FailItem(r) /\ UNCHANGED tester
    /\ UNCHANGED <<mail, config>>

-----------------------------------------------------------------------------
(* Registration and departure                                              *)

Of(a) == {x \in Rows : There(x) /\ tester[x].to = a}
Unused == {x \in Rows : tester[x] = NoTester}
New(op, pc) == [NewTask EXCEPT !.op = op, !.pc = pc]
\* What a request knows of the row it has read
Knows(op, pc, x) == [New(op, pc) EXCEPT !.row = x, !.seen = tester[x], !.to = tester[x].to]

\* register: when the search by hash fails, the address is searched in clear, where only
\* ciphertexts are, and not found.
RegisterRead(r, a, P) ==
    LET create == [New("register", "create") EXCEPT !.to = a, !.platforms = P] IN
    /\ P # {}
    /\ \/ Of(a) = {} /\ Starts(r, create)
       \/ \E x \in Of(a) :
             IF tester[x].unsub
             THEN Starts(r, [Knows("register", "rejoin", x) EXCEPT !.platforms = P])
             ELSE Starts(r, New("register", "failed"))
       \/ Fault(r, Begin(r, create) /\ UNCHANGED <<call, tester, config>>)

Confirmation(x, a) ==
    IF config.confirm
    THEN <<[row |-> x, to |-> a, template |-> "CONFIRMATION", platform |-> "none"]>> ELSE <<>>
\* When the hash is there already the row is created without it.
RegisterCreate(r) ==
    LET t == task[r]
        new == NewTester(t.to, t.platforms, Initial)
        free == ~\E x \in Of(t.to) : tester[x].hash IN
    /\ At(r, "register", "create") /\ Unused # {}
    /\ LET x == CHOOSE x \in Unused : TRUE IN
          /\ tester' = [tester EXCEPT ![x] = [new EXCEPT !.hash = free]]
          /\ Continue(r, Confirmation(x, t.to))
    /\ UNCHANGED <<mail, config>>
\* A tester who had left is taken back.
RegisterRejoin(r) ==
    LET t == task[r] IN
    /\ At(r, "register", "rejoin")
    /\ IF There(t.row)
       THEN /\ tester' = [tester EXCEPT ![t.row].platforms = t.platforms,
                 ![t.row].status = Initial, ![t.row].invite = Wanted(t.platforms),
                 ![t.row].unsub = FALSE]
            /\ Continue(r, Confirmation(t.row, t.to))
       ELSE Finish(r, "failed") /\ UNCHANGED tester
    /\ UNCHANGED <<mail, config>>

\* updatePlatforms: a status is written for what the row, as read, did not have, and for
\* what is given up.
PlatformsRead(r, x, P) ==
    /\ There(x) /\ P # {}
    /\ Starts(r, [Knows("platforms", "write", x) EXCEPT !.platforms = P])
PlatformsWrite(r) ==
    LET t == task[r]
        invite == [p \in Platforms |->
            IF p \notin t.platforms THEN "NOT_REQUESTED"
            ELSE IF t.seen.invite[p] = "NOT_REQUESTED" THEN "PENDING"
            ELSE tester[t.row].invite[p]] IN
    /\ At(r, "platforms", "write")
    /\ IF There(t.row)
       THEN /\ tester' = [tester EXCEPT ![t.row].platforms = t.platforms,
                                        ![t.row].invite = invite]
            /\ Finish(r, "ok")
       ELSE Finish(r, "failed") /\ UNCHANGED tester
    /\ UNCHANGED <<mail, config>>

\* unsubscribe
UnsubscribeRead(r, x) == There(x) /\ Starts(r, Knows("unsubscribe", "write", x))
UnsubscribeWrite(r) ==
    LET t == task[r]
        already == t.seen.unsub \/ t.seen.status = "REJECTED" IN
    /\ At(r, "unsubscribe", "write")
    /\ IF There(t.row)
       THEN /\ tester' = [tester EXCEPT ![t.row].status = "REJECTED", ![t.row].unsub = TRUE,
                                        ![t.row].invite = [p \in Platforms |-> "REJECTED"]]
            /\ Continue(r, IF already THEN <<>>
                           ELSE <<Letter(t.row, "UNSUBSCRIBE_CONFIRMATION")>>)
       ELSE Finish(r, "failed") /\ UNCHANGED tester
    /\ UNCHANGED <<mail, config>>

-----------------------------------------------------------------------------
(* Invitations, announcements and administration                           *)

\* resendInvitePublic, for the platforms of the row, whatever its status
Resend(r, x) ==
    /\ There(x)
    /\ \E todo \in Invitations({x}, Platforms) :
           Starts(r, Sending(Knows("resend", "next", x), todo))
\* POST send-android-invite and send-ios-invite
InviteOne(r, x, p) ==
    /\ There(x) /\ Starts(r, Sending(Knows("invite", "next", x), <<Invitation(x, p)>>))
\* bulkAction INVITE_*
BulkInvite(r, P) ==
    /\ P # {}
    /\ \E todo \in Invitations({x \in Rows : There(x)}, P) :
           Starts(r, Sending(New("bulk", "next"), todo))
\* notifyVersion, of a version for all platforms
Eligible(x) == There(x) /\ ~tester[x].unsub /\ tester[x].status \in {"APPROVED", "INVITED"}
Notify(r) ==
    \E todo \in SetToSeqs({Letter(x, "NEW_VERSION") : x \in {y \in Rows : Eligible(y)}}) :
        Starts(r, Sending(New("notify", "next"), todo))

\* updateStatus: an approval invites first, when the configuration says so.
StatusCall(r, x, s) ==
    LET t == [Knows("status", "set", x) EXCEPT !.status = s] IN
    /\ There(x)
    /\ IF s = "APPROVED" /\ config.invite
       THEN \E todo \in Invitations({x}, Platforms) : Starts(r, Sending(t, todo))
       ELSE Starts(r, t)
Rejected(s) == mishap' = (mishap \/ s = "REJECTED")
StatusSet(r) ==
    LET t == task[r] IN
    /\ At(r, "status", "set")
    /\ IF There(t.row)
       THEN tester' = [tester EXCEPT ![t.row].status = t.status] /\ Finish(r, "ok")
       ELSE Finish(r, "failed") /\ UNCHANGED tester
    /\ Rejected(t.status)
    /\ UNCHANGED <<logs, suppressed, accepted, reported, call, faults, config>>
\* bulkAction CHANGE_STATUS, of one row
Mark(r, x, s) ==
    /\ There(x) /\ Begin(r, New("mark", "ok"))
    /\ tester' = [tester EXCEPT ![x].status = s] /\ Rejected(s)
    /\ UNCHANGED <<logs, suppressed, accepted, reported, call, faults, config>>
\* remove, and bulkAction DELETE of one row
RemoveTester(r, x) ==
    /\ There(x) /\ Begin(r, New("remove", "ok"))
    /\ tester' = [tester EXCEPT ![x] = Gone]
    /\ UNCHANGED <<mail, config>>
\* updateAutomationConfig
Configure(r) ==
    /\ Begin(r, New("config", "ok"))
    /\ config' \in Configs
    /\ UNCHANGED <<mail, tester>>

-----------------------------------------------------------------------------
\* The mail calls that do not come from the programme
MailCall(r) ==
    /\ \/ Begin(r, New("send", "mailing")) /\ \E m \in KeyedMails : Invoke(r, m)
       \/ Begin(r, New("retry", "mailing")) /\ \E i \in DOMAIN logs : Retry(r, i)
       \/ Begin(r, New("hook", "mailing")) /\ \E e \in [type : Reported, id : DOMAIN accepted] : Hook(r, e)
       \/ Begin(r, New("unsuppress", "ok")) /\ \E a \in Addresses : Unsuppress(a)
    /\ UNCHANGED <<tester, config>>

TesterCall(r) ==
    /\ task[r].pc = "new"
    /\ \/ \E x \in Rows : \/ UnsubscribeRead(r, x) \/ Resend(r, x) \/ RemoveTester(r, x)
                          \/ \E p \in Platforms : InviteOne(r, x, p)
                          \/ \E P \in SUBSET Platforms : PlatformsRead(r, x, P)
                          \/ \E s \in TesterStatuses : StatusCall(r, x, s) \/ Mark(r, x, s)
       \/ \E a \in Addresses : \E P \in SUBSET Platforms : RegisterRead(r, a, P)
       \/ \E P \in SUBSET Platforms : BulkInvite(r, P)
       \/ Notify(r) \/ Configure(r)
TesterStep(r) == \/ RegisterCreate(r) \/ RegisterRejoin(r) \/ PlatformsWrite(r)
                 \/ UnsubscribeWrite(r) \/ SendNext(r) \/ Mailed(r) \/ RecordInvite(r)
                 \/ StatusSet(r)
Step(r) == TesterStep(r) \/ (MailStep(r) /\ UNCHANGED <<tester, config, task>>)

\* A process stops, with the requests it was serving.
Crash(S) ==
    /\ faults < MaxFaults /\ faults' = faults + 1 /\ mishap' = TRUE
    /\ S # {} /\ \A r \in S : Running(r)
    /\ call' = [r \in Requests |-> IF r \in S THEN NoCall ELSE call[r]]
    /\ task' = [r \in Requests |-> IF r \in S THEN Ended(task[r].op, "failed") ELSE task[r]]
    /\ UNCHANGED <<logs, suppressed, accepted, reported, tester, config>>

Next ==
    \/ \E r \in Requests : MailCall(r) \/ TesterCall(r) \/ Step(r)
    \/ \E i \in DOMAIN logs : (Wait(i) \/ Cool(i)) /\ UNCHANGED <<tester, config, task>>
    \/ \E S \in SUBSET Requests : Crash(S)

Spec == Init /\ [][Next]_vars
\* The event loop resumes a handler whose query, or whose mail, was answered.
FairSpec == Spec /\ \A r \in Requests : WF_vars(Step(r))

-----------------------------------------------------------------------------
(* Properties                                                              *)

TypeOK ==
    /\ MailTypeOK
    /\ tester \in [Rows -> Tester] /\ config \in Configs
    /\ task \in [Requests -> Task]

Accepted(a, template) ==
    \E i \in DOMAIN accepted : accepted[i].to = a /\ accepted[i].template = template
Barred(a, template) ==
    \E i \in DOMAIN logs : /\ logs[i].mail.to = a /\ logs[i].mail.template = template
                           /\ logs[i].barred
\* A tester is shown as invited to a platform only when the provider took the mail that
\* invites him, or his address is one that gets no mail and the log says so: errors,
\* lost answers, crashes and the repetition of the call leave no invitation that was
\* never sent (sendAndroidInvite, sendIosInvite 1425-1490).
InvitedWasMailed ==
    \A x \in Rows : \A p \in Platforms :
        There(x) /\ tester[x].invite[p] = "INVITED"
            => Accepted(tester[x].to, Template(p)) \/ Barred(tester[x].to, Template(p))

\* Who leaves the programme gets the confirmation that the law requires, on a suppressed
\* address too and whatever else is done with his row, unless the mail, a query or the
\* process fails or an administrator has rejected him (unsubscribe 398-487).
UnsubscribeAcked ==
    \A a \in Addresses :
        (\E x \in Of(a) : tester[x].unsub)
            ~> Accepted(a, "UNSUBSCRIBE_CONFIRMATION") \/ mishap

\* Refuted (README): an address has one row (register 111-283); who has left the programme is
\* not invited again before he comes back (resendInvitePublic 585-650).
OneRowPerAddress == \A a \in Addresses : Cardinality(Of(a)) <= 1
DepartedIsLeftAlone ==
    [][\A x \in Rows : There(x) /\ tester[x].unsub /\ tester'[x].unsub
                          => tester'[x].status # "INVITED" \/ tester[x].status = "INVITED"]_vars
=============================================================================
