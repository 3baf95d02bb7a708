------------------------------- MODULE CronLock -------------------------------
(***************************************************************************)
(* The lock under which the cron jobs run on every node of the server:     *)
(* multiplayer-expiration, event-lifecycle, referral-recovery and          *)
(* vip-expiration.  A job sets a Redis key with a time to live, works when *)
(* RedisService.set returned true, and deletes the key.                    *)
(***************************************************************************)
EXTENDS RedisLink

CONSTANT MaxCrashes  \* bound on crashes

ASSUME CronBounds == MaxCrashes \in Nat

VARIABLES
    key,      \* the lock key exists
    job,      \* progress of the job on each node
    due,      \* is there something for the job to do?
    crashes

vars == <<linkVars, key, job, due, crashes>>

Init ==
    /\ LinkInit /\ key = FALSE
    /\ job = [n \in Nodes |-> "idle"] /\ due = FALSE /\ crashes = 0

-----------------------------------------------------------------------------
(* Plausible bugs, for the mutation check of the properties.               *)

\* A release that waits until it finds its key: one that lapsed, or that
\* another node deleted, is never found.
ReleaseHeld(n) ==
    /\ job[n] = "done" /\ key
    /\ key' = FALSE
    /\ job' = [job EXCEPT ![n] = "idle"]
    /\ UNCHANGED <<linkVars, due, crashes>>
-----------------------------------------------------------------------------
\* The clock fires: RedisService.set is a plain SET with EX, true whenever
\* Redis answers, whether the key existed or not.  When it is false the job
\* returns without doing anything.
Acquire(n) ==
    /\ job[n] = "idle" /\ Answers(n)
    /\ key' = TRUE
    /\ job' = [job EXCEPT ![n] = "working"]
    /\ UNCHANGED <<linkVars, due, crashes>>
Work(n) ==
    /\ job[n] = "working"
    /\ due' = FALSE
    /\ job' = [job EXCEPT ![n] = "done"]
    /\ UNCHANGED <<linkVars, key, crashes>>
\* finally: the key is deleted, whoever set it last; a failure is ignored.
Release(n) ==
    /\ job[n] = "done"
    /\ key' = (key /\ ~Answers(n))
    /\ job' = [job EXCEPT ![n] = "idle"]
    /\ UNCHANGED <<linkVars, due, crashes>>

\* The environment: work falls due, the key lapses, nodes crash and restart.
Arise == ~due /\ due' = TRUE /\ UNCHANGED <<linkVars, key, job, crashes>>
Lapse == key /\ key' = FALSE /\ UNCHANGED <<linkVars, job, due, crashes>>
Crash(n) ==
    /\ crashes < MaxCrashes /\ crashes' = crashes + 1
    /\ Restart(n)
    /\ job' = [job EXCEPT ![n] = "idle"]
    /\ UNCHANGED <<key, due>>

CronNext == \/ \E n \in Nodes : Acquire(n) \/ Work(n) \/ Release(n) \/ Crash(n)
            \/ Arise \/ Lapse
Next == CronNext \/ (LinkNext /\ UNCHANGED <<key, job, due, crashes>>)
Spec == Init /\ [][Next]_vars

\* The clock fires on every node for ever, a job that has begun goes on, and a
\* key does not outlive its time to live.
JobFairness == /\ LinkFairness /\ WF_vars(Lapse)
               /\ \A n \in Nodes : WF_vars(Acquire(n)) /\ WF_vars(Work(n)) /\ WF_vars(Release(n))
FairSpec == Spec /\ JobFairness

-----------------------------------------------------------------------------
(* Properties                                                              *)

\* At most one node works at a time: the lock keeps the others out
\* (multiplayer-expiration.scheduler.ts:20, :34).
Exclusive == \A n, m \in Nodes : job[n] = "working" /\ job[m] = "working" => n = m

\* What is due is done in the end as long as one node gets through to Redis,
\* whatever crashes, outages and losses leave behind: a key that nobody holds, a
\* job cut short, other nodes that have given up Redis for good (:17).
DueIsDone == <>[](\E n \in Nodes : Answers(n)) => (due ~> ~due)
=============================================================================
