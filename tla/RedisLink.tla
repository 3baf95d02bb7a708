------------------------------ MODULE RedisLink ------------------------------
(***************************************************************************)
(* RedisService: what each node of the server knows of its two connections *)
(* to Redis.  The command connection decides isReady; the subscriber's     *)
(* errors clear isReady too.  A lost connection is retried three times     *)
(* (retryStrategy), after which ioredis ends it.                           *)
(***************************************************************************)
EXTENDS Naturals

CONSTANTS
    Nodes,       \* the processes of the server
    MaxOutages,  \* bound on the outages of Redis
    MaxCuts,     \* bound on the connections cut while Redis is up
    LongOutages, \* may Redis stay away for longer than the retries last?
    SubErrors    \* may the subscriber lose its connection with an error?

ASSUME LinkBounds ==
    MaxOutages \in Nat /\ MaxCuts \in Nat /\ LongOutages \in BOOLEAN /\ SubErrors \in BOOLEAN

VARIABLES
    server,   \* Redis answers
    client,   \* the command connection: failures since it was up
    sub,      \* the subscriber connection, the same
    ready,    \* isReady
    subbed,   \* the subscriber connection has subscribed to the channels
    outages, cuts

linkVars == <<server, client, sub, ready, subbed, outages, cuts>>

Retries == 3
Connected == 0
Ended == Retries + 1

\* What a node finds when it starts, the gateway's subscriptions included:
\* connections whose first attempt failed wait for a retry, and the channels
\* are subscribed at once only when isReady is already true.
Boot == {b \in [client : 0..1, sub : 0..1, ready : BOOLEAN, subbed : BOOLEAN] :
            /\ ~server => b.client = 1 /\ b.sub = 1
            /\ b.ready => b.client = Connected
            /\ ~b.ready => b.client # Connected \/ b.sub # Connected
            /\ b.subbed = (b.ready /\ b.sub = Connected)
            /\ b.client = Connected /\ b.sub # Connected => b.ready \/ SubErrors}

LinkInit ==
    /\ server = TRUE /\ outages = 0 /\ cuts = 0
    /\ \E boot \in [Nodes -> Boot] :
        /\ client = [n \in Nodes |-> boot[n].client]
        /\ sub = [n \in Nodes |-> boot[n].sub]
        /\ ready = [n \in Nodes |-> boot[n].ready]
        /\ subbed = [n \in Nodes |-> boot[n].subbed]

Restart(n) == \E b \in Boot :
    /\ client' = [client EXCEPT ![n] = b.client]
    /\ sub' = [sub EXCEPT ![n] = b.sub]
    /\ ready' = [ready EXCEPT ![n] = b.ready]
    /\ subbed' = [subbed EXCEPT ![n] = b.subbed]
    /\ UNCHANGED <<server, outages, cuts>>

-----------------------------------------------------------------------------
\* retryStrategy: the connection's state after one more failure.
Failed(t) == IF t < Ended THEN t + 1 ELSE Ended

\* A retry that finds Redis down fails; short outages end before the last one.
MayFail(t) == ~server /\ t \in 1..Retries /\ (LongOutages \/ t < Retries)

\* Does a command of node n get through?
Answers(n) == ready[n] /\ server

ServerStops ==
    /\ server /\ outages < MaxOutages
    /\ server' = FALSE /\ outages' = outages + 1
    /\ UNCHANGED <<client, sub, ready, subbed, cuts>>
\* By then every node has noticed that its connections are gone.
ServerReturns ==
    /\ ~server /\ \A n \in Nodes : client[n] # Connected /\ sub[n] # Connected
    /\ server' = TRUE
    /\ UNCHANGED <<client, sub, ready, subbed, outages, cuts>>

\* A connection is lost because Redis stopped, or is cut.
Cut == IF server THEN cuts < MaxCuts /\ cuts' = cuts + 1 ELSE UNCHANGED cuts

ClientLost(n) ==   \* client.on('close')
    /\ client[n] = Connected
    /\ client' = [client EXCEPT ![n] = 1]
    /\ ready' = [ready EXCEPT ![n] = FALSE]
    /\ UNCHANGED <<server, sub, subbed, outages>>
ClientRetry(n) ==
    \/ /\ server /\ client[n] \in 1..Retries   \* 'connect', 'ready'
       /\ client' = [client EXCEPT ![n] = Connected]
       /\ ready' = [ready EXCEPT ![n] = TRUE]
       /\ UNCHANGED <<server, sub, subbed, outages, cuts>>
    \/ /\ MayFail(client[n])                   \* 'error', 'close'
       /\ client' = [client EXCEPT ![n] = Failed(@)]
       /\ ready' = [ready EXCEPT ![n] = FALSE]
       /\ UNCHANGED <<server, sub, subbed, outages, cuts>>

SubLost(n) ==      \* 'close', after an 'error' or not
    /\ sub[n] = Connected
    /\ sub' = [sub EXCEPT ![n] = 1]
    /\ subbed' = [subbed EXCEPT ![n] = FALSE]
    /\ \/ UNCHANGED ready
       \/ SubErrors /\ ready' = [ready EXCEPT ![n] = FALSE]
    /\ UNCHANGED <<server, client, outages>>
SubRetry(n) ==
    \/ /\ server /\ sub[n] \in 1..Retries      \* 'ready': every channel again
       /\ sub' = [sub EXCEPT ![n] = Connected]
       /\ subbed' = [subbed EXCEPT ![n] = TRUE]
       /\ UNCHANGED <<server, client, ready, outages, cuts>>
    \/ /\ MayFail(sub[n])                      \* 'error', 'close'
       /\ sub' = [sub EXCEPT ![n] = Failed(@)]
       /\ ready' = [ready EXCEPT ![n] = FALSE]
       /\ UNCHANGED <<server, client, subbed, outages, cuts>>

LinkNext ==
    \/ ServerStops \/ ServerReturns
    \/ \E n \in Nodes : \/ ClientLost(n) /\ Cut
                        \/ SubLost(n) /\ Cut
                        \/ ClientRetry(n) \/ SubRetry(n)

\* Redis is started again (docker: unless-stopped), a node notices a dead
\* connection, and the timers of the retries fire.
LinkFairness == /\ WF_linkVars(ServerReturns)
                /\ \A n \in Nodes : /\ WF_linkVars(ClientRetry(n)) /\ WF_linkVars(SubRetry(n))
                                    /\ WF_linkVars(~server /\ ClientLost(n) /\ Cut)
                                    /\ WF_linkVars(~server /\ SubLost(n) /\ Cut)

-----------------------------------------------------------------------------
(* Properties                                                              *)

\* The connections keep their types: a failure is never counted past the end.
LinkTypeOK ==
    /\ server \in BOOLEAN /\ outages \in 0..MaxOutages /\ cuts \in 0..MaxCuts
    /\ client \in [Nodes -> 0..Ended] /\ sub \in [Nodes -> 0..Ended]
    /\ ready \in [Nodes -> BOOLEAN] /\ subbed \in [Nodes -> BOOLEAN]

\* isReady promises a connection: no command is sent on one that is known to
\* be lost, so that each call of RedisService falls back at once (:159, :174).
ReadyMeansConnected == \A n \in Nodes : ready[n] => client[n] = Connected

-----------------------------------------------------------------------------
(* What comments of the code promise, and races or long histories break:   *)
(* TLC refutes each on the instance that README.md gives.                  *)

\* No node stays on the fallback for ever: that is for the time when the
\* server cannot be reached (:65).
ReadyAgain == \A n \in Nodes : []<>ready[n]

\* After onModuleInit the gateway listens on the channels it logs that it
\* listens on (realtime.gateway.ts:196): not for ever ready and deaf.
ReadyListens ==
    \A n \in Nodes : ready[n] /\ sub[n] = Connected ~> subbed[n] \/ ~ready[n] \/ sub[n] # Connected
=============================================================================
