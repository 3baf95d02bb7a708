----------------------------- MODULE MCBackOffice -----------------------------
(***************************************************************************)
(* Instances of three parts that share no state, explored in one run: the  *)
(* reward of an event, the mails with the provider's webhooks, and the     *)
(* programme of beta testers with the mails it sends.  A behaviour is that *)
(* of the one part that its initial state names.                           *)
(***************************************************************************)
EXTENDS EventReward, BetaProgram, TLC

CONSTANTS a, b, c, r1, r2, r3, x1, x2, k, none

VARIABLE part

MCRanking == <<a, b, c>>

MCTemplates == {"INVITE_ANDROID", "INVITE_IOS", "CONFIRMATION", "NEW_VERSION",
                "UNSUBSCRIBE_CONFIRMATION", "RETRY", "ALERT"}
Alert == {[to |-> a, template |-> "ALERT", key |-> k, bypass |-> FALSE]}
Automatic == [invite |-> TRUE, confirm |-> TRUE]
Manual == [invite |-> FALSE, confirm |-> FALSE]
AnyConfig == {Automatic, Manual}

\* The programme of beta testers: a tester's operation and one that crosses it
TesterOps == (r1 :> {"register", "platforms", "unsubscribe", "resend"})
             @@ (r2 :> {"unsubscribe", "status", "mark", "remove", "notify", "invite", "bulk",
                     "unsuppress", "config"})
\* The mails: one with a key and its webhooks, and the administrator's retry
MailOps == (r1 :> {"send"}) @@ (r2 :> {"send", "retry", "hook", "unsuppress"}) @@ (r3 :> {"hook"})
Mails == INSTANCE BetaProgram WITH
    Requests <- {r1, r2, r3}, Exposed <- {r2}, Known <- {}, FirstSuppressed <- {{}},
    FirstConfig <- Manual, Configs <- {Manual}, Calls <- MailOps

BackOfficeInit ==
    /\ RewardInit
    /\ \/ part \in {"reward", "mails"} /\ Mails!Init
       \/ part = "testers" /\ Init
BackOfficeNext ==
    /\ \/ part = "reward" /\ RewardNext /\ UNCHANGED vars
       \/ part = "mails" /\ Mails!Next /\ UNCHANGED rewardVars
       \/ part = "testers" /\ Next /\ UNCHANGED rewardVars
    /\ UNCHANGED part
BackOfficeVars == <<part, rewardVars, vars>>
BackOfficeSpec ==
    /\ BackOfficeInit /\ [][BackOfficeNext]_BackOfficeVars
    /\ \A r \in Requests : WF_BackOfficeVars(part = "testers" /\ Step(r) /\ UNCHANGED <<part, rewardVars>>)
=============================================================================
