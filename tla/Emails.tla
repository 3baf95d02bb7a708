--------------------------------- MODULE Emails ---------------------------------
(***************************************************************************)
(* The mails of the server: resend.service.ts, which records each mail in  *)
(* a row of email_logs and hands it to the provider, the administrator's   *)
(* retry, and resend-webhook.service.ts, which the provider calls back, at *)
(* least once and in any order.  A handler takes one step per awaited      *)
(* query; a query may fail, the process may stop.                          *)
(***************************************************************************)
EXTENDS Naturals, Sequences, SequencesExt

CONSTANTS
    Requests,     \* the handlers; each runs at most one mail call at a time
    Addresses,    \* mail addresses
    Templates,    \* kinds of mail
    Keys,         \* idempotency keys
    NoKey,        \* a mail without one
    Fates,        \* sets of events that the provider reports of one mail
    Exposed,      \* handlers whose queries and mails may fail
    MaxFaults     \* queries that fail, and crashes

VARIABLES
    logs,         \* email_logs, in the order of creation
    suppressed,   \* addresses in email_suppressions
    accepted,     \* mails that the provider has accepted; its ids are 1, 2...
    reported,     \* events that it has reported, and may report again
    call,         \* the mail call of each handler
    faults,       \* failures of queries and crashes so far
    mishap        \* history: something failed, or an administrator decided otherwise

mail == <<logs, suppressed, accepted, reported, call, faults, mishap>>

Mail == [to : Addresses, template : Templates, key : Keys \cup {NoKey}, bypass : BOOLEAN]
\* "softBounced" is email.bounced of the type Transient; "opened" stands for "clicked" too.
Reported == {"sent", "delivered", "delayed", "bounced", "softBounced", "complained",
             "failed", "opened"}
Event == [type : Reported \cup {"accepted", "retried", "error"}, id : Nat]
Statuses == {"PENDING", "ACCEPTED", "SENT", "DELIVERED", "DELIVERY_DELAYED", "BOUNCED",
             "COMPLAINED", "FAILED"}
\* id = 0 stands for resendId = NULL; young: created less than 30 seconds ago; hot: last
\* attempt less than 5 minutes ago; barred: "Exclu par la liste de suppression".
Log == [mail : Mail, status : Statuses, id : Nat, events : Seq(Event),
        young : BOOLEAN, hot : BOOLEAN, barred : BOOLEAN]
NewLog(m, status) == [mail |-> m, status |-> status, id |-> 0, events |-> <<>>,
                      young |-> TRUE, hot |-> TRUE, barred |-> FALSE]

MailSteps == {"suppression", "bar", "key", "log", "send", "accepted", "refused", "failed",
              "retrySuppression", "retryMark", "retrySend", "retryAccepted", "retryRefused",
              "retryFailed", "hookCreate", "hookUpdate", "hookSuppress"}
Results == {"sent", "cached", "barred", "error"}
\* seen: the row that the call has read; log: the row it writes, 0 for none; event: the
\* webhook's, or the provider's answer.
Call == [pc : {"idle"} \cup MailSteps \cup Results, mail : Mail, log : Nat, seen : Log,
         event : Event]

AnyMail == [to |-> CHOOSE a \in Addresses : TRUE, template |-> CHOOSE t \in Templates : TRUE,
            key |-> NoKey, bypass |-> FALSE]
NoCall == [pc |-> "idle", mail |-> AnyMail, log |-> 0, seen |-> NewLog(AnyMail, "FAILED"),
           event |-> [type |-> "error", id |-> 0]]

MailInit ==
    /\ logs = <<>> /\ suppressed \in SUBSET Addresses
    /\ accepted = <<>> /\ reported = {}
    /\ call = [r \in Requests |-> NoCall]
    /\ faults = 0 /\ mishap = FALSE

MailAt(r, pc) == call[r].pc = pc
Goto(r, pc) == call' = [call EXCEPT ![r].pc = pc]
\* The call returns; its locals are gone.
Done(r, result) == call' = [call EXCEPT ![r] = [NoCall EXCEPT !.pc = result]]
Answered(r) == call[r].pc \in Results
Enter(r, new) == MailAt(r, "idle") /\ call' = [call EXCEPT ![r] = new]

\* A query of the step of r that fails: the code goes on to pc, or returns a result.
Fault(r, next) ==
    /\ r \in Exposed /\ faults < MaxFaults
    /\ faults' = faults + 1 /\ mishap' = TRUE
    /\ next
    /\ UNCHANGED <<logs, suppressed, accepted, reported>>

SetLog(i, new) == logs' = [logs EXCEPT ![i] = new]
Create(log) == logs' = Append(logs, log)
Quiet == UNCHANGED <<suppressed, accepted, reported, faults, mishap>>

-----------------------------------------------------------------------------
(* The provider (external).                                                *)

Accepts(m) == accepted' = Append(accepted, m)
\* From then on it reports what becomes of the mail: events of one of its fates.
Reports(e) ==
    /\ e.id \in DOMAIN accepted
    /\ \E fate \in Fates : {f \in reported \cup {e} : f.id = e.id} \subseteq [type : fate, id : {e.id}]
    /\ reported' = reported \cup {e}
Answer(id) == [type |-> "accepted", id |-> id]
\* The answer to the send of r: an id, an error, or no answer to a mail it has accepted.
Provides(r, m, onAccept, onRefusal, onLoss) ==
    /\ \/ /\ Accepts(m)
          /\ call' = [call EXCEPT ![r].pc = onAccept, ![r].event = Answer(Len(accepted) + 1)]
          /\ UNCHANGED mishap
       \/ /\ r \in Exposed /\ Goto(r, onRefusal) /\ mishap' = TRUE
          /\ UNCHANGED accepted
       \/ /\ r \in Exposed /\ Accepts(m) /\ Goto(r, onLoss) /\ mishap' = TRUE
    /\ UNCHANGED <<logs, suppressed, reported, faults>>

-----------------------------------------------------------------------------
(* sendEmail                                                               *)

AfterSuppression(m) == IF m.key # NoKey THEN "key" ELSE "log"
Invoke(r, m) ==
    /\ Enter(r, [NoCall EXCEPT !.pc = IF m.bypass THEN AfterSuppression(m) ELSE "suppression",
                               !.mail = m])
    /\ Quiet /\ UNCHANGED logs

CheckSuppression(r) ==
    LET m == call[r].mail IN
    /\ MailAt(r, "suppression")
    /\ \/ /\ Goto(r, IF m.to \in suppressed THEN "bar" ELSE AfterSuppression(m))
          /\ Quiet /\ UNCHANGED logs
       \/ Fault(r, Goto(r, AfterSuppression(m)))

\* The exclusion is recorded, then the call returns; when that fails the mail is sent.
Bar(r) ==
    LET m == call[r].mail IN
    /\ MailAt(r, "bar")
    /\ \/ /\ Create([NewLog([m EXCEPT !.key = NoKey], "FAILED") EXCEPT !.barred = TRUE])
          /\ Done(r, "barred") /\ Quiet
       \/ Fault(r, Goto(r, AfterSuppression(m)))

\* A mail of this key that was accepted, or that is under way since less than 30 s
Duplicate(m) == \E i \in DOMAIN logs :
    /\ logs[i].mail.key = m.key
    /\ \/ logs[i].status \in {"ACCEPTED", "SENT", "DELIVERED"}
       \/ logs[i].status = "PENDING" /\ logs[i].young
CheckKey(r) ==
    /\ MailAt(r, "key")
    /\ \/ /\ IF Duplicate(call[r].mail) THEN Done(r, "cached") ELSE Goto(r, "log")
          /\ Quiet /\ UNCHANGED logs
       \/ Fault(r, Goto(r, "log"))

\* The key is unique: the row of a key that was tried before is not created, and
\* the mail goes without one.
KeyIsFree(m) == m.key = NoKey \/ \A i \in DOMAIN logs : logs[i].mail.key # m.key
CreateLog(r) ==
    LET m == call[r].mail IN
    /\ MailAt(r, "log")
    /\ \/ /\ KeyIsFree(m) /\ Create(NewLog(m, "PENDING"))
          /\ call' = [call EXCEPT ![r].pc = "send", ![r].log = Len(logs) + 1]
          /\ Quiet
       \/ /\ ~KeyIsFree(m) /\ Goto(r, "send")
          /\ Quiet /\ UNCHANGED logs
       \/ Fault(r, Goto(r, "send"))

Deliver(r) == MailAt(r, "send") /\ Provides(r, call[r].mail, "accepted", "refused", "failed")

\* The updates are on the row that the call created, if any, and may fail unnoticed.
Record(r, pc, new, next) ==
    /\ MailAt(r, pc)
    /\ \/ /\ IF call[r].log # 0 THEN SetLog(call[r].log, new) ELSE UNCHANGED logs
          /\ next /\ Quiet
       \/ call[r].log # 0 /\ Fault(r, next)
RecordAcceptance(r) ==
    Record(r, "accepted", [logs[call[r].log] EXCEPT !.status = "ACCEPTED",
              !.id = call[r].event.id, !.events = <<call[r].event>>], Done(r, "sent"))
RecordRefusal(r) ==
    Record(r, "refused", [logs[call[r].log] EXCEPT !.status = "FAILED",
              !.events = <<[type |-> "error", id |-> 0]>>], Goto(r, "failed"))
RecordFailure(r) ==
    Record(r, "failed", [logs[call[r].log] EXCEPT !.status = "FAILED"], Done(r, "error"))

SendStep(r) == \/ CheckSuppression(r) \/ Bar(r) \/ CheckKey(r) \/ CreateLog(r) \/ Deliver(r)
               \/ RecordAcceptance(r) \/ RecordRefusal(r) \/ RecordFailure(r)

-----------------------------------------------------------------------------
(* retryEmail, for an administrator                                        *)

Retry(r, i) ==
    /\ logs[i].status # "DELIVERED" /\ ~(logs[i].status = "ACCEPTED" /\ logs[i].hot)
    /\ Enter(r, [NoCall EXCEPT !.pc = "retrySuppression", !.mail = logs[i].mail, !.log = i,
                               !.seen = logs[i]])
    /\ Quiet /\ UNCHANGED logs
RetrySuppression(r) ==
    /\ MailAt(r, "retrySuppression")
    /\ \/ /\ IF call[r].mail.to \in suppressed THEN Done(r, "error") ELSE Goto(r, "retryMark")
          /\ Quiet /\ UNCHANGED logs
       \/ Fault(r, Done(r, "error"))
RetryMark(r) ==
    /\ MailAt(r, "retryMark")
    /\ \/ /\ SetLog(call[r].log, [logs[call[r].log] EXCEPT !.status = "PENDING", !.hot = TRUE])
          /\ Goto(r, "retrySend") /\ Quiet
       \/ Fault(r, Done(r, "error"))
\* What is sent again is a generic text with the subject of the mail.
RetrySend(r) ==
    /\ MailAt(r, "retrySend")
    /\ Provides(r, [call[r].mail EXCEPT !.template = "RETRY"],
                "retryAccepted", "retryRefused", "retryFailed")
\* The events are those that the call had read, and the new one.
RetryAccepted(r) ==
    /\ MailAt(r, "retryAccepted")
    /\ \/ /\ SetLog(call[r].log, [logs[call[r].log] EXCEPT !.status = "ACCEPTED",
                !.id = call[r].event.id,
                !.events = Append(call[r].seen.events, [call[r].event EXCEPT !.type = "retried"])])
          /\ Done(r, "sent") /\ Quiet
       \/ Fault(r, Goto(r, "retryFailed"))
RetryRefused(r) ==
    /\ MailAt(r, "retryRefused")
    /\ \/ /\ SetLog(call[r].log, [logs[call[r].log] EXCEPT !.status = "FAILED"])
          /\ Goto(r, "retryFailed") /\ Quiet
       \/ Fault(r, Goto(r, "retryFailed"))
RetryFailed(r) ==
    /\ MailAt(r, "retryFailed")
    /\ \/ /\ SetLog(call[r].log, [logs[call[r].log] EXCEPT !.status = "FAILED"])
          /\ Done(r, "error") /\ Quiet
       \/ Fault(r, Done(r, "error"))

RetryStep(r) == \/ RetrySuppression(r) \/ RetryMark(r) \/ RetrySend(r)
                \/ RetryAccepted(r) \/ RetryRefused(r) \/ RetryFailed(r)

-----------------------------------------------------------------------------
(* handleWebhookEvent                                                      *)

\* mapStatusFromEventType
StatusOf(type) ==
    CASE type = "sent" -> "SENT" [] type = "delivered" -> "DELIVERED"
      [] type = "delayed" -> "DELIVERY_DELAYED" [] type = "complained" -> "COMPLAINED"
      [] type \in {"bounced", "softBounced"} -> "BOUNCED" [] type = "failed" -> "FAILED"
      [] OTHER -> "ACCEPTED"
\* determineNextStatus: what a late event does not bring back
Outranks(status, type) ==
    \/ type = "opened"
    \/ type \in {"sent", "delivered", "delayed"} /\ status \in {"BOUNCED", "COMPLAINED"}
    \/ type \in {"sent", "delayed"} /\ status = "DELIVERED"
    \/ type = "sent" /\ status = "FAILED"
NextStatus(status, type) == IF Outranks(status, type) THEN status ELSE StatusOf(type)

\* The first row with this id
Matching(id) == {i \in DOMAIN logs : logs[i].id = id}
First(S) == CHOOSE i \in S : \A j \in S : i <= j
Excludes(e) == e.type \in {"bounced", "complained"}

\* Plausible bug, for the mutation check: the events are read again, the status is not.
HookAppendFresh(r) ==
    LET hook == call[r] IN
    /\ MailAt(r, "hookUpdate")
    /\ SetLog(hook.log,
              [logs[hook.log] EXCEPT !.status = NextStatus(hook.seen.status, hook.event.type),
                                     !.events = Append(logs[hook.log].events, hook.event)])
    /\ IF Excludes(hook.event) THEN Goto(r, "hookSuppress") ELSE Done(r, "sent")
    /\ Quiet

Hook(r, e) ==
    /\ Reports(e)
    /\ Matching(e.id) # {} => e \notin Range(logs[First(Matching(e.id))].events)
    /\ Enter(r, IF Matching(e.id) = {}
                THEN [NoCall EXCEPT !.pc = "hookCreate", !.event = e,
                                    !.mail = [accepted[e.id] EXCEPT !.key = NoKey]]
                ELSE LET i == First(Matching(e.id)) IN
                     [NoCall EXCEPT !.pc = "hookUpdate", !.event = e, !.log = i,
                                    !.seen = logs[i], !.mail = logs[i].mail])
    /\ UNCHANGED <<logs, suppressed, accepted, faults, mishap>>
Recorded(r) ==
    IF Excludes(call[r].event) THEN Goto(r, "hookSuppress") ELSE Done(r, "sent")
\* A row for a mail that none describes.
HookCreate(r) ==
    LET hook == call[r] IN
    /\ MailAt(r, "hookCreate")
    /\ \/ /\ Create([NewLog(hook.mail, StatusOf(hook.event.type)) EXCEPT !.id = hook.event.id,
                                                               !.events = <<hook.event>>])
          /\ Recorded(r) /\ Quiet
       \/ Fault(r, Done(r, "error"))
\* Status and events are both computed from the row as it was read.
HookUpdate(r) ==
    LET hook == call[r] IN
    /\ MailAt(r, "hookUpdate")
    /\ \/ /\ SetLog(hook.log, [logs[hook.log] EXCEPT
                               !.status = NextStatus(hook.seen.status, hook.event.type),
                               !.events = Append(hook.seen.events, hook.event)])
          /\ Recorded(r) /\ Quiet
       \/ Fault(r, Done(r, "error"))
HookSuppress(r) ==
    /\ MailAt(r, "hookSuppress")
    /\ Done(r, "sent")
    /\ \/ suppressed' = suppressed \cup {call[r].mail.to} /\ UNCHANGED <<faults, mishap>>
       \/ /\ r \in Exposed /\ faults < MaxFaults
          /\ faults' = faults + 1 /\ mishap' = TRUE /\ UNCHANGED suppressed
    /\ UNCHANGED <<logs, accepted, reported>>

HookStep(r) == HookCreate(r) \/ HookUpdate(r) \/ HookSuppress(r)

-----------------------------------------------------------------------------
\* removeSuppression, by an administrator
Unsuppress(a) ==
    /\ a \in suppressed /\ suppressed' = suppressed \ {a}
    /\ UNCHANGED <<logs, accepted, reported, call, faults, mishap>>

\* Time passes where it is noticed: thirty seconds since the creation of a row whose
\* mail is under way, five minutes since the last attempt of an accepted mail.
Wait(i) ==
    /\ i \in DOMAIN logs /\ logs[i].young
    /\ logs[i].mail.key # NoKey /\ logs[i].status = "PENDING"
    /\ SetLog(i, [logs[i] EXCEPT !.young = FALSE])
    /\ Quiet /\ UNCHANGED call
Cool(i) ==
    /\ i \in DOMAIN logs /\ logs[i].hot /\ logs[i].status = "ACCEPTED"
    /\ SetLog(i, [logs[i] EXCEPT !.young = FALSE, !.hot = FALSE])
    /\ Quiet /\ UNCHANGED call

MailStep(r) == SendStep(r) \/ RetryStep(r) \/ HookStep(r)

-----------------------------------------------------------------------------
(* Properties                                                              *)

MailTypeOK ==
    /\ logs \in Seq(Log) /\ suppressed \subseteq Addresses /\ accepted \in Seq(Mail)
    /\ reported \subseteq [type : Reported, id : Nat]
    /\ call \in [Requests -> Call] /\ faults \in Nat /\ mishap \in BOOLEAN

Tells(events, status) ==
    \E k \in DOMAIN events : events[k].type \in Reported /\ StatusOf(events[k].type) = status
\* What the administrator reads of a mail (resend-webhook.service 61-165) is what the
\* provider said of it: a status that only a webhook gives has an event of the history that
\* tells it, and no event is in the history twice, although webhooks are repeated, overtake
\* each other and cross retries, and each rewrites the row from one it read earlier.
HistoryTruthful ==
    \A i \in DOMAIN logs :
        /\ logs[i].status \in {"SENT", "DELIVERED", "DELIVERY_DELAYED", "BOUNCED", "COMPLAINED"}
              => Tells(logs[i].events, logs[i].status)
        /\ \A j, k \in DOMAIN logs[i].events :
              j # k => logs[i].events[j] # logs[i].events[k]

\* Refuted (README): a mail with an idempotency key is accepted once by the provider, retries
\* apart (sendEmail 342-386); a row that names a failure to deliver keeps telling it, whatever
\* late events come in (determineNextStatus 166-222).
KeyIsSentOnce ==
    \A i, j \in DOMAIN accepted :
        i # j /\ accepted[i].key # NoKey => accepted[i] # accepted[j]
BounceIsFinal ==
    [][\A i \in DOMAIN logs : logs[i].status \in {"BOUNCED", "COMPLAINED"}
                                 => logs'[i].status \notin {"SENT", "DELIVERED"}]_mail
=============================================================================
