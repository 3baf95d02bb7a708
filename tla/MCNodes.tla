-------------------------------- MODULE MCNodes --------------------------------
(***************************************************************************)
(* What the nodes keep in their own memory, explored in one run: their     *)
(* connections to Redis with the cron jobs that rely on them and, in       *)
(* behaviours of their own, the sockets and periods of grace of one        *)
(* player, whoever he is.  The two parts share no variable.                *)
(***************************************************************************)
EXTENDS CronLock, DuelPresence, TLC

CONSTANTS n1, n2, p1, s1, s2, none

VARIABLE part

\* The sockets are on one node or on two.
EitherNode == {[s \in {s1, s2} |-> n1], s1 :> n1 @@ s2 :> n2}

\* The part that does not run has one initial state.
NodesInit ==
    /\ Init /\ PresenceInit
    /\ \/ part = "jobs" /\ host = NoUser /\ place[s2] = n1
       \/ part = "sockets" /\ \A n \in Nodes : ready[n] /\ sub[n] = Connected
NodesNext ==
    /\ \/ part = "jobs" /\ Next /\ UNCHANGED presence
       \/ part = "sockets" /\ PresenceNext /\ UNCHANGED vars
    /\ UNCHANGED part
\* The jobs are as fair as in CronLock.
NodesSpec == NodesInit /\ [][NodesNext]_<<part, presence, vars>> /\ JobFairness
=============================================================================
