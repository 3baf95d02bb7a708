----------------------------- MODULE Nodes_proofs -----------------------------
(***************************************************************************)
(* Proofs about what the nodes keep in their own memory: the connections   *)
(* to Redis of CronLock, for every set of nodes and any number of outages, *)
(* cuts and crashes, and the periods of grace of DuelPresence, for every   *)
(* set of servers, users and sockets and any number of failures.           *)
(***************************************************************************)
EXTENDS CronLock, DuelPresence, TLAPS

LinkInv == LinkTypeOK /\ ReadyMeansConnected

\* A failure is counted up to the end of the connection.
LEMMA FailedCounts == \A t \in 0 .. Ended : Failed(t) \in 1 .. Ended
  BY DEF Failed, Ended, Retries

\* What a node finds when it starts.
LEMMA BootOK ==
    ASSUME NEW b \in Boot
    PROVE  /\ b.client \in 0 .. Ended /\ b.sub \in 0 .. Ended
           /\ b.ready \in BOOLEAN /\ b.subbed \in BOOLEAN
           /\ b.ready => b.client = Connected
  BY DEF Boot, Ended, Retries, Connected

\* The nodes start with connections whose state they know.
LEMMA LinkFirst == LinkInit => LinkInv
  <1> SUFFICES ASSUME LinkInit PROVE LinkInv
    OBVIOUS
  <1>1. PICK boot \in [Nodes -> Boot] :
            /\ client = [n \in Nodes |-> boot[n].client]
            /\ sub = [n \in Nodes |-> boot[n].sub]
            /\ ready = [n \in Nodes |-> boot[n].ready]
            /\ subbed = [n \in Nodes |-> boot[n].subbed]
    BY DEF LinkInit
  <1>2. \A n \in Nodes : boot[n] \in Boot
    OBVIOUS
  <1>3. server \in BOOLEAN /\ outages \in 0 .. MaxOutages /\ cuts \in 0 .. MaxCuts
    BY LinkBounds DEF LinkInit
  <1>4. LinkTypeOK
    BY <1>1, <1>2, <1>3, BootOK DEF LinkTypeOK
  <1>5. ReadyMeansConnected
    BY <1>1, <1>2, BootOK DEF ReadyMeansConnected
  <1> QED BY <1>4, <1>5 DEF LinkInv

\* A node that starts again finds what it may find at first.
LEMMA RestartStep ==
    ASSUME LinkInv, NEW n \in Nodes, Restart(n)
    PROVE  LinkInv'
  <1>1. PICK b \in Boot :
            /\ client' = [client EXCEPT ![n] = b.client]
            /\ sub' = [sub EXCEPT ![n] = b.sub]
            /\ ready' = [ready EXCEPT ![n] = b.ready]
            /\ subbed' = [subbed EXCEPT ![n] = b.subbed]
            /\ UNCHANGED <<server, outages, cuts>>
    BY DEF Restart
  <1>2. LinkTypeOK'
    BY <1>1, BootOK DEF LinkInv, LinkTypeOK
  <1>3. ReadyMeansConnected'
    BY <1>1, BootOK DEF LinkInv, LinkTypeOK, ReadyMeansConnected
  <1> QED BY <1>2, <1>3 DEF LinkInv

\* The server and the connections.
LEMMA LinkStep ==
    ASSUME LinkInv, LinkNext
    PROVE  LinkInv'
  <1> USE LinkBounds
  <1>1. CASE ServerStops
    <2>1. outages' \in 0 .. MaxOutages /\ server' \in BOOLEAN
      <3>1. outages \in 0 .. MaxOutages
        BY DEF LinkInv, LinkTypeOK
      <3>2. outages < MaxOutages /\ outages' = outages + 1
        BY <1>1 DEF ServerStops
      <3>3. outages' \in 0 .. MaxOutages
        BY <3>1, <3>2
      <3>4. server' \in BOOLEAN
        BY <1>1 DEF ServerStops
      <3> QED BY <3>3, <3>4
    <2>2. UNCHANGED <<client, sub, ready, subbed, cuts>>
      BY <1>1 DEF ServerStops
    <2> QED BY <2>1, <2>2 DEF LinkInv, LinkTypeOK, ReadyMeansConnected
  <1>2. CASE ServerReturns
    BY <1>2 DEF ServerReturns, LinkInv, LinkTypeOK, ReadyMeansConnected
  <1>3. ASSUME Cut PROVE cuts' \in 0 .. MaxCuts
    BY <1>3 DEF Cut, LinkInv, LinkTypeOK
  <1>4. ASSUME NEW n \in Nodes, ClientLost(n), Cut
        PROVE  LinkInv'
    <2>1. 1 \in 0 .. Ended
      BY DEF Ended, Retries
    <2>2. LinkTypeOK'
      BY <1>3, <1>4, <2>1 DEF ClientLost, LinkInv, LinkTypeOK
    <2>3. ReadyMeansConnected'
      BY <1>4 DEF ClientLost, LinkInv, LinkTypeOK, ReadyMeansConnected
    <2> QED BY <2>2, <2>3 DEF LinkInv
  <1>5. ASSUME NEW n \in Nodes, SubLost(n), Cut
        PROVE  LinkInv'
    <2>1. 1 \in 0 .. Ended
      BY DEF Ended, Retries
    <2>2. LinkTypeOK'
      BY <1>3, <1>5, <2>1 DEF SubLost, LinkInv, LinkTypeOK
    <2>3. ReadyMeansConnected'
      BY <1>5 DEF SubLost, LinkInv, LinkTypeOK, ReadyMeansConnected
    <2> QED BY <2>2, <2>3 DEF LinkInv
  <1>6. ASSUME NEW n \in Nodes, ClientRetry(n)
        PROVE  LinkInv'
    <2>1. Connected \in 0 .. Ended /\ Failed(client[n]) \in 0 .. Ended
      BY FailedCounts DEF LinkInv, LinkTypeOK, Connected, Ended, Retries
    <2>2. LinkTypeOK'
      BY <1>6, <2>1 DEF ClientRetry, LinkInv, LinkTypeOK
    <2>3. ReadyMeansConnected'
      BY <1>6 DEF ClientRetry, LinkInv, LinkTypeOK, ReadyMeansConnected
    <2> QED BY <2>2, <2>3 DEF LinkInv
  <1>7. ASSUME NEW n \in Nodes, SubRetry(n)
        PROVE  LinkInv'
    <2>1. Connected \in 0 .. Ended /\ Failed(sub[n]) \in 0 .. Ended
      BY FailedCounts DEF LinkInv, LinkTypeOK, Connected, Ended, Retries
    <2>2. LinkTypeOK'
      BY <1>7, <2>1 DEF SubRetry, LinkInv, LinkTypeOK
    <2>3. ReadyMeansConnected'
      BY <1>7 DEF SubRetry, LinkInv, LinkTypeOK, ReadyMeansConnected
    <2> QED BY <2>2, <2>3 DEF LinkInv
  <1> QED BY <1>1, <1>2, <1>4, <1>5, <1>6, <1>7 DEF LinkNext

\* The jobs leave the connections alone.
LEMMA CronStep ==
    ASSUME LinkInv, [Next]_vars
    PROVE  LinkInv'
  <1>1. ASSUME UNCHANGED linkVars PROVE LinkInv'
    BY <1>1 DEF linkVars, LinkInv, LinkTypeOK, ReadyMeansConnected
  <1>2. CASE UNCHANGED vars
    BY <1>1, <1>2 DEF vars
  <1>3. ASSUME NEW n \in Nodes, Acquire(n) \/ Work(n) \/ Release(n) PROVE LinkInv'
    BY <1>1, <1>3 DEF Acquire, Work, Release
  <1>4. ASSUME NEW n \in Nodes, Crash(n) PROVE LinkInv'
    BY <1>4, RestartStep DEF Crash
  <1>5. CASE Arise \/ Lapse
    BY <1>1, <1>5 DEF Arise, Lapse
  <1>6. CASE LinkNext
    BY <1>6, LinkStep
  <1> QED BY <1>2, <1>3, <1>4, <1>5, <1>6 DEF Next, CronNext

\* The types and isReady hold together in every behaviour of the jobs.
THEOREM LinkInvHolds == Spec => []LinkInv
  <1>1. Init => LinkInv
    BY LinkFirst DEF Init
  <1> QED BY <1>1, CronStep, PTL DEF Spec

\* The two connections of every node keep their types.
THEOREM LinkTypeCorrect == Spec => []LinkTypeOK
  <1>1. LinkInv => LinkTypeOK
    BY DEF LinkInv
  <1> QED BY <1>1, LinkInvHolds, PTL

\* isReady is never true on a command connection that is known to be lost,
\* whatever the order of the events of the two connections (RedisService).
THEOREM ReadyMeansConnectedHolds == Spec => []ReadyMeansConnected
  <1>1. LinkInv => ReadyMeansConnected
    BY DEF LinkInv
  <1> QED BY <1>1, LinkInvHolds, PTL

-----------------------------------------------------------------------------
(* The presence of the players of a game.                                  *)

\* The socket s will see to u: its message is being handled, and has not found yet that u
\* is out of the game, or it is attached to the game and idle.
Minds(s, u) ==
    /\ s \in Live /\ socket[s].user = u
    /\ \/ socket[s].pc \in {"attach"} \cup Leaving
       \/ socket[s].pc = "idle" /\ socket[s].up /\ socket[s].duelCode
Departing(u) == \E n \in Servers : u \in disconnectTimers[n] \/ departure[n][u] # "none"
Minded(u) == u \in excused \/ (\E s \in Sockets : Minds(s, u)) \/ Departing(u)

PresenceData ==
    /\ status \in {"WAITING", "READY", "STARTING", "IN_PROGRESS", "OVER"}
    /\ seated \subseteq Users
    /\ place \in [Sockets -> Servers]
    /\ socket \in [Sockets -> Socket \cup {NoSocket}]
    /\ disconnectTimers \in [Servers -> SUBSET Users]
    /\ departure \in [Servers -> [Users -> {"none"} \cup Leaving]]
\* Stronger than AbsentIsWatched: a socket that only leaves the room minds nobody.
PresenceInv == PresenceData /\ (status # "OVER" => \A u \in seated : Minded(u))

\* A connection is a record of its own kind.
LEMMA ConnectionFields ==
    /\ \A conn \in Socket :
        /\ conn # NoSocket
        /\ \A pc \in {"idle", "attach", "detach"} \cup Leaving :
              [conn EXCEPT !.pc = pc] \in Socket
        /\ \A b \in BOOLEAN : /\ [conn EXCEPT !.up = b] \in Socket
                             /\ [conn EXCEPT !.known = b] \in Socket
                             /\ [conn EXCEPT !.duelCode = b] \in Socket
    /\ \A u \in Users : NewSocket(u) \in Socket
  BY DEF Socket, NoSocket, NewSocket, Leaving

\* The state keeps its types.
LEMMA PresenceDataStep ==
    ASSUME PresenceData, PresenceNext
    PROVE  PresenceData'
  <1> USE DEF PresenceData
  <1>1. ASSUME NEW s \in Sockets, NEW u \in Users, Connect(s, u) PROVE PresenceData'
    BY <1>1, ConnectionFields DEF Connect, Here
  <1>2. ASSUME NEW s \in Sockets, Authenticate(s) PROVE PresenceData'
    BY <1>2, ConnectionFields DEF Authenticate, Here, Live
  <1>3. ASSUME NEW s \in Sockets, Disconnect(s) PROVE PresenceData'
    <2>1. socket[s] \in Socket /\ socket[s].user \in Users
      BY <1>3 DEF Disconnect, Live, Socket
    <2>2. socket' \in [Sockets -> Socket \cup {NoSocket}]
      BY <1>3, <2>1, ConnectionFields DEF Disconnect
    <2> QED BY <1>3, <2>1, <2>2 DEF Disconnect, Here
  <1>4. ASSUME NEW s \in Sockets, Message(s) PROVE PresenceData'
    <2>1. s \in Live
      BY <1>4 DEF Message, JoinSeat, JoinAttach, Reconnect, LeaveLoad, LeaveWrite, Detach, TurnsAway,
                  Free, At
    <2>2. socket[s] \in Socket /\ socket[s].user \in Users /\ place[s] \in Servers
      BY <2>1 DEF Live, Socket
    <2>3. ASSUME NEW new \in Socket, Return(s, new)
          PROVE  socket' \in [Sockets -> Socket \cup {NoSocket}]
      BY <2>3, ConnectionFields DEF Return
    <2>4. ASSUME NEW pc \in {"idle", "attach", "detach"} \cup Leaving, Goto(s, pc)
          PROVE  socket' \in [Sockets -> Socket \cup {NoSocket}]
      BY <2>2, <2>4, ConnectionFields DEF Goto
    <2>5. Stopped(s) \in [Servers -> SUBSET Users]
      BY <2>2 DEF Stopped
    <2>6. CASE JoinSeat(s)
      BY <2>2, <2>4, <2>6 DEF JoinSeat
    <2>7. ASSUME NEW timers \in [Servers -> SUBSET Users], Attach(s, timers) PROVE PresenceData'
      BY <2>2, <2>3, <2>7, ConnectionFields DEF Attach, Here
    <2>8. CASE LeaveLoad(s)
      <3>1. LeaveStep(socket[s].user) \in {"detach"} \cup Leaving
        BY DEF LeaveStep, Leaving
      <3>2. socket' \in [Sockets -> Socket \cup {NoSocket}]
        BY <2>4, <2>8, <3>1 DEF LeaveLoad
      <3> QED BY <2>5, <2>8, <3>2 DEF LeaveLoad, Fails, Here
    <2>9. CASE LeaveWrite(s)
      <3>1. socket' \in [Sockets -> Socket \cup {NoSocket}]
        BY <2>2, <2>3, <2>4, <2>9 DEF LeaveWrite
      <3> QED BY <2>9, <3>1 DEF LeaveWrite, Departs, Fails, Here
    <2>10. CASE Detach(s)
      BY <2>2, <2>3, <2>10, ConnectionFields DEF Detach, Here
    <2>11. CASE TurnsAway(s)
      BY <2>2, <2>11, ConnectionFields DEF TurnsAway, Excuse, Here
    <2> QED BY <1>4, <2>5, <2>6, <2>7, <2>8, <2>9, <2>10, <2>11 DEF Message, JoinAttach, Reconnect
  <1>5. ASSUME NEW u \in Users, HttpJoin(u) \/ HttpLeave(u) \/ Kick(u) PROVE PresenceData'
    BY <1>5 DEF HttpJoin, HttpLeave, Kick, Departs
  <1>6. ASSUME NEW u \in Users, NEW n \in Servers, ExpireLoad(n, u) PROVE PresenceData'
    <2> DEFINE next == IF LeaveStep(u) = "detach" THEN "none" ELSE LeaveStep(u)
    <2>1. next \in {"none"} \cup Leaving
      BY DEF LeaveStep, Leaving
    <2>2. \/ departure' = [departure EXCEPT ![n][u] = next]
          \/ departure' = departure
      BY <1>6 DEF ExpireLoad
    <2> HIDE DEF next
    <2>3. departure' \in [Servers -> [Users -> {"none"} \cup Leaving]]
      <3>1. [departure[n] EXCEPT ![u] = next] \in [Users -> {"none"} \cup Leaving]
        BY <2>1
      <3> QED BY <2>2, <3>1
    <2> QED BY <1>6, <2>3 DEF ExpireLoad, Fails, Here
  <1>7. ASSUME NEW u \in Users, NEW n \in Servers, ExpireWrite(n, u) PROVE PresenceData'
    BY <1>7 DEF ExpireWrite, Departs, Fails, Here
  <1>8. CASE Move
    BY <1>8 DEF Move, Moves
  <1>9. ASSUME NEW n \in Servers, NodeStops(n) PROVE PresenceData'
    BY <1>9 DEF NodeStops, Here
  <1> QED BY <1>1, <1>2, <1>3, <1>4, <1>5, <1>6, <1>7, <1>8, <1>9 DEF PresenceNext

\* What minds v has a successor.
LEMMA StillMinded ==
    ASSUME NEW v, Minded(v), v \in excused => Minded(v)', Departing(v) => Minded(v)',
           \A s \in Sockets : Minds(s, v) => Minded(v)'
    PROVE  Minded(v)'
  BY DEF Minded

\* Who is minded in the next state
LEMMA MindedNext ==
    ASSUME NEW v
    PROVE  /\ v \in excused' => Minded(v)'
           /\ \A n \in Servers : v \in disconnectTimers'[n] \/ departure'[n][v] # "none" => Minded(v)'
           /\ \A s \in Sockets : Minds(s, v)' => Minded(v)'
  BY DEF Minded, Departing

\* A socket that minds v does so as long as it is the same, or differs in known alone.
LEMMA StillMinds ==
    ASSUME PresenceData, NEW t \in Sockets, NEW v, Minds(t, v),
           \/ socket'[t] = socket[t]
           \/ socket'[t] = [socket[t] EXCEPT !.known = TRUE]
    PROVE  Minds(t, v)'
  <1>1. socket[t] \in Socket
    BY DEF PresenceData, Minds, Live
  <1>2. socket'[t] # NoSocket
    BY <1>1, ConnectionFields DEF Minds, Live
  <1> QED BY <1>1, <1>2 DEF Minds, Live, Socket

\* A connection comes, is found to be a player's, or is lost.
LEMMA ConnectionStep ==
    ASSUME PresenceData, NEW s \in Sockets, NEW v, Minded(v), 
           Authenticate(s) \/ Disconnect(s) \/ \E u \in Users : Connect(s, u)
    PROVE  Minded(v)'
  <1>1. ASSUME NEW u \in Users, Connect(s, u) PROVE Minded(v)'
    <2>1. \A t \in Sockets : Minds(t, v) => Minds(t, v)'
      BY <1>1, StillMinds DEF Connect, Minds, PresenceData
    <2> QED BY <1>1, <2>1 DEF Connect, Minded, Departing
  <1>2. CASE Authenticate(s)
    <2>1. \A t \in Sockets : Minds(t, v) => Minds(t, v)'
      BY <1>2, StillMinds DEF Authenticate, PresenceData
    <2> QED BY <1>2, <2>1 DEF Authenticate, Minded, Departing
  <1>3. CASE Disconnect(s)
    <2>1. \A t \in Sockets \ {s} : Minds(t, v) => Minds(t, v)'
      BY <1>3, StillMinds DEF Disconnect, PresenceData
    <2>2. socket[s] \in Socket /\ place[s] \in Servers
      BY <1>3 DEF Disconnect, Live, PresenceData
    <2>3. ASSUME Minds(s, v) PROVE Minded(v)'
      <3>1. CASE socket[s].pc = "idle"
        <4>1. \/ v \in excused'
              \/ v \in disconnectTimers'[place[s]]
          BY <1>3, <2>2, <2>3, <3>1 DEF Disconnect, Minds, Excuse, PresenceData, Leaving
        <4> QED BY <2>2, <4>1, MindedNext
      <3>2. CASE socket[s].pc # "idle"
        <4>1. socket'[s] = [socket[s] EXCEPT !.up = FALSE] /\ socket'[s] # NoSocket
          BY <1>3, <2>2, <3>2, ConnectionFields DEF Disconnect, PresenceData
        <4>2. Minds(s, v)'
          BY <2>2, <2>3, <3>2, <4>1 DEF Minds, Live, Socket, Leaving
        <4> QED BY <4>2, MindedNext
      <3> QED BY <3>1, <3>2
    <2>4. Departing(v) => Departing(v)'
      BY <1>3, <2>2 DEF Disconnect, Departing, PresenceData
    <2>5. excused \subseteq excused'
      BY <1>3 DEF Disconnect, Excuse
    <2> QED BY <2>1, <2>3, <2>4, <2>5 DEF Minded
  <1> QED BY <1>1, <1>2, <1>3

\* A step of s keeps what minds v, when that is not s and the step takes nothing from v.
LEMMA MindedByOthers ==
    ASSUME PresenceData, NEW s \in Sockets, NEW v, Minded(v), ~Minds(s, v),
           \A t \in Sockets \ {s} : socket'[t] = socket[t],
           v \in excused => v \in excused',
           \A n \in Servers : v \in disconnectTimers[n] => v \in disconnectTimers'[n],
           departure' = departure
    PROVE  Minded(v)'
  <1>1. \A t \in Sockets : Minds(t, v) => Minds(t, v)'
    BY StillMinds
  <1>2. Departing(v) => Departing(v)'
    BY DEF Departing
  <1> QED BY <1>1, <1>2 DEF Minded

\* The messages of a socket
LEMMA MessageStep ==
    ASSUME PresenceInv, status # "OVER", NEW s \in Sockets, Message(s),
           status' # "OVER", NEW v \in seated'
    PROVE  Minded(v)'
  <1>u. PICK u : u = socket[s].user
    OBVIOUS
  <1>1. s \in Live
    BY DEF Message, JoinSeat, JoinAttach, Reconnect, LeaveLoad, LeaveWrite, Detach, TurnsAway, Free, At
  <1>2. PresenceData /\ socket[s] \in Socket /\ u \in Users /\ place[s] \in Servers
    BY <1>u, <1>1 DEF PresenceInv, PresenceData, Live, Socket
  <1>3. v \in seated => Minded(v)
    BY DEF PresenceInv
  <1>4. v # u => ~Minds(s, v)
    BY <1>u DEF Minds
  <1>5. \A n \in Servers : v # u /\ v \in disconnectTimers[n] => v \in Stopped(s)[n]
    BY <1>u, <1>2 DEF Stopped, PresenceData
  <1>6. ASSUME NEW new \in Socket, Return(s, new)
        PROVE  /\ \A t \in Sockets \ {s} : socket'[t] = socket[t]
               /\ new.up => socket'[s] = [new EXCEPT !.pc = "idle"]
    BY <1>2, <1>6 DEF Return, PresenceData
  <1>7. ASSUME NEW pc, Goto(s, pc)
        PROVE  /\ \A t \in Sockets \ {s} : socket'[t] = socket[t]
               /\ socket'[s] = [socket[s] EXCEPT !.pc = pc]
               /\ pc \in {"attach"} \cup Leaving => Minds(s, u)'
    <2>1. /\ \A t \in Sockets \ {s} : socket'[t] = socket[t]
          /\ socket'[s] = [socket[s] EXCEPT !.pc = pc]
      BY <1>2, <1>7 DEF Goto, PresenceData
    <2>2. pc \in {"attach"} \cup Leaving => Minds(s, u)'
      BY <1>u, <1>2, <2>1, ConnectionFields DEF Minds, Live, Socket
    <2> QED BY <2>1, <2>2
  <1>8. CASE JoinSeat(s)
    <2>1. CASE v = u
      BY <1>u, <1>7, <1>8, <2>1, MindedNext DEF JoinSeat
    <2>2. CASE v # u
      BY <1>u, <1>2, <1>3, <1>4, <1>7, <1>8, <2>2, MindedByOthers DEF JoinSeat
    <2> QED BY <2>1, <2>2
  <1>9. ASSUME NEW timers, Attach(s, timers), timers \in {Stopped(s), disconnectTimers}
        PROVE  Minded(v)'
    <2> DEFINE new == [socket[s] EXCEPT !.duelCode = TRUE]
    <2>1. new \in Socket /\ new.user = u /\ new.up = socket[s].up /\ Return(s, new)
      BY <1>u, <1>2, <1>9, ConnectionFields DEF Attach, Socket
    <2>2. CASE v = u /\ socket[s].up
      <3>1. socket'[s] = [new EXCEPT !.pc = "idle"] /\ socket'[s] # NoSocket
        <4>1. socket'[s] = [new EXCEPT !.pc = "idle"]
          BY <1>6, <2>1, <2>2
        <4>2. \A pc \in {"idle", "attach", "detach"} \cup Leaving : [new EXCEPT !.pc = pc] \in Socket
          BY <2>1, ConnectionFields
        <4> HIDE DEF new
        <4> QED BY <4>1, <4>2, ConnectionFields
      <3>2. Minds(s, v)'
        BY <1>u, <1>2, <2>2, <3>1 DEF Minds, Live, Socket
      <3> QED BY <3>2, MindedNext
    <2>3. CASE v = u /\ ~socket[s].up
      BY <1>u, <1>9, <2>3, MindedNext DEF Attach
    <2>4. CASE v # u
      <3>1. \A t \in Sockets \ {s} : socket'[t] = socket[t]
        BY <1>6, <2>1
      <3>2. v \in excused => v \in excused'
        BY <1>u, <1>9, <2>4 DEF Attach
      <3>3. disconnectTimers' = timers /\ departure' = departure /\ seated' = seated
        BY <1>9 DEF Attach, Here
      <3> QED BY <1>2, <1>3, <1>4, <1>5, <1>9, <2>4, <3>1, <3>2, <3>3, MindedByOthers
    <2> QED BY <2>2, <2>3, <2>4
  <1>10. CASE LeaveLoad(s)
    <2>1. UNCHANGED <<seated, status, departure>>
      BY <1>10 DEF LeaveLoad, Fails, Here
    <2>2. CASE v # u
      <3>1. \A t \in Sockets \ {s} : socket'[t] = socket[t]
        BY <1>7, <1>10 DEF LeaveLoad
      <3>2. v \in excused => v \in excused'
        BY <1>u, <1>10 DEF LeaveLoad, Fails, Excuse
      <3>3. \A n \in Servers : v \in disconnectTimers[n] => v \in disconnectTimers'[n]
        BY <1>u, <1>5, <1>10, <2>2 DEF LeaveLoad
      <3> QED BY <1>2, <1>3, <1>4, <2>1, <2>2, <3>1, <3>2, <3>3, MindedByOthers
    <2>3. CASE v = u
      <3>1. \/ u \in excused'
            \/ Goto(s, LeaveStep(u)) /\ Excuse(Kept(u))
        BY <1>u, <1>10 DEF LeaveLoad, Fails, Excuse
      <3>2. \/ u \in Kept(u)
            \/ LeaveStep(u) \in Leaving
        BY <1>2, <2>1, <2>3 DEF LeaveStep, Kept, Leaving, PresenceData
      <3> QED BY <1>7, <2>3, <3>1, <3>2, MindedNext DEF Excuse
    <2> QED BY <2>2, <2>3
  <1>11. CASE LeaveWrite(s)
    <2>1. CASE v # u
      <3>1. \A t \in Sockets \ {s} : socket'[t] = socket[t]
        BY <1>2, <1>6, <1>7, <1>11 DEF LeaveWrite
      <3>2. v \in excused => v \in excused'
        BY <1>u, <1>11, <2>1 DEF LeaveWrite, Departs, Fails, Excuse
      <3>3. UNCHANGED <<disconnectTimers, departure>> /\ v \in seated
        BY <1>11 DEF LeaveWrite, Departs, Fails, Here
      <3> QED BY <1>2, <1>3, <1>4, <2>1, <3>1, <3>2, <3>3, MindedByOthers
    <2>2. CASE v = u
      <3>1. v \in excused'
        BY <1>u, <1>11, <2>2 DEF LeaveWrite, Departs, Fails, Excuse
      <3> QED BY <3>1, MindedNext
    <2> QED BY <2>1, <2>2
  <1>12. CASE Detach(s)
    <2>1. ~Minds(s, v)
      BY <1>12 DEF Detach, At, Minds, Leaving
    <2>2. [socket[s] EXCEPT !.duelCode = FALSE] \in Socket
      BY <1>2, ConnectionFields
    <2>3. \A t \in Sockets \ {s} : socket'[t] = socket[t]
      BY <1>6, <1>12, <2>2 DEF Detach
    <2> QED BY <1>2, <1>3, <1>12, <2>1, <2>3, MindedByOthers DEF Detach, Here
  <1>13. CASE TurnsAway(s)
    <2>1. CASE v = u
      BY <1>u, <1>13, <2>1, MindedNext DEF TurnsAway, Excuse
    <2>2. CASE v # u
      <3>1. \A t \in Sockets \ {s} : socket'[t] = socket[t]
        BY <1>2, <1>13 DEF TurnsAway, PresenceData
      <3> QED BY <1>2, <1>3, <1>4, <1>13, <2>2, <3>1, MindedByOthers DEF TurnsAway, Excuse, Here
    <2> QED BY <2>1, <2>2
  <1> QED BY <1>8, <1>9, <1>10, <1>11, <1>12, <1>13 DEF Message, JoinAttach, Reconnect

\* The end of a period of grace
LEMMA ExpireStep ==
    ASSUME PresenceInv, status # "OVER", NEW n \in Servers, NEW w \in Users,
           ExpireLoad(n, w) \/ ExpireWrite(n, w), status' # "OVER", NEW v \in seated'
    PROVE  Minded(v)'
  <1>1. PresenceData /\ socket' = socket /\ v \in seated
    BY DEF PresenceInv, ExpireLoad, ExpireWrite, Departs, Fails, Here
  <1>2. Minded(v)
    BY <1>1 DEF PresenceInv
  <1>3. \A s \in Sockets : Minds(s, v) => Minds(s, v)'
    BY <1>1, StillMinds
  <1>4. CASE v = w
    <2>1. CASE ExpireLoad(n, w)
      <3>1. \/ w \in excused'
            \/ departure'[n][w] = LeaveStep(w) /\ LeaveStep(w) \in Leaving
        <4>1. CASE LeaveStep(w) = "detach"
          <5>1. w \in Kept(w)
            BY <1>1, <1>4, <4>1 DEF LeaveStep, Kept, PresenceData
          <5> QED BY <2>1, <5>1 DEF ExpireLoad, Fails, Excuse
        <4>2. CASE LeaveStep(w) # "detach"
          <5>1. LeaveStep(w) \in Leaving
            BY <4>2 DEF LeaveStep, Leaving
          <5> QED BY <1>1, <2>1, <4>2, <5>1 DEF ExpireLoad, Fails, Excuse, PresenceData
        <4> QED BY <4>1, <4>2
      <3>2. "none" \notin Leaving
        BY DEF Leaving
      <3> QED BY <1>4, <3>1, <3>2, MindedNext
    <2>2. CASE ExpireWrite(n, w)
      <3>1. w \in excused'
        BY <1>1, <1>4, <2>2 DEF ExpireWrite, Departs, Fails, Excuse
      <3> QED BY <1>4, <3>1, MindedNext
    <2> QED BY <2>1, <2>2
  <1>5. CASE v # w
    <2>1. v \in excused => v \in excused'
      BY <1>5 DEF ExpireLoad, ExpireWrite, Departs, Fails, Excuse
    <2>2. \A m \in Servers : v \in disconnectTimers[m] => v \in disconnectTimers'[m]
      BY <1>1, <1>5 DEF ExpireLoad, ExpireWrite, Departs, PresenceData
    <2>3. \A m \in Servers : departure'[m][v] = departure[m][v]
      BY <1>1, <1>5 DEF ExpireLoad, ExpireWrite, PresenceData
    <2> QED BY <1>2, <1>3, <2>1, <2>2, <2>3 DEF Minded, Departing
  <1> QED BY <1>4, <1>5

\* The rows change beside the sockets, or the status does.
LEMMA BesideStep ==
    ASSUME PresenceInv, status # "OVER", status' # "OVER", NEW v \in seated',
           \/ Move
           \/ \E w \in Users : HttpJoin(w) \/ HttpLeave(w) \/ Kick(w)
    PROVE  Minded(v)'
  <1>1. PresenceData /\ UNCHANGED <<socket, disconnectTimers, departure>>
    BY DEF PresenceInv, Move, HttpJoin, HttpLeave, Kick, Departs
  <1>2. \/ v \in excused'
        \/ v \in seated /\ (v \in excused => v \in excused')
    BY DEF Move, HttpJoin, HttpLeave, Kick, Departs, Excuse
  <1>3. \A s \in Sockets : Minds(s, v) => Minds(s, v)'
    BY <1>1, StillMinds
  <1>4. v \in seated => Minded(v)
    BY DEF PresenceInv
  <1> QED BY <1>1, <1>2, <1>3, <1>4, MindedNext DEF Minded, Departing

\* PresenceInv is inductive.
LEMMA PresenceStep ==
    ASSUME PresenceInv, [PresenceNext]_presence
    PROVE  PresenceInv'
  <1>1. CASE UNCHANGED presence
    BY <1>1 DEF presence, PresenceInv, PresenceData, Minded, Minds, Departing, Live
  <1>2. CASE PresenceNext
    <2>1. PresenceData'
      BY <1>2, PresenceDataStep DEF PresenceInv
    <2>2. ASSUME status' # "OVER", NEW v \in seated' PROVE Minded(v)'
      <3>1. status # "OVER" /\ PresenceData
        BY <1>2 DEF PresenceNext, PresenceInv
      <3>2. ASSUME NEW s \in Sockets,
                   Authenticate(s) \/ Disconnect(s) \/ \E u \in Users : Connect(s, u)
            PROVE  Minded(v)'
        <4>1. seated' = seated
          BY <3>2 DEF Authenticate, Disconnect, Connect, Here
        <4> QED BY <2>2, <3>1, <3>2, <4>1, ConnectionStep DEF PresenceInv
      <3>3. ASSUME NEW n \in Servers, NodeStops(n) PROVE Minded(v)'
        <4>1. v \in Users
          BY <2>1, <2>2 DEF PresenceData
        <4> QED BY <3>3, <4>1, MindedNext DEF NodeStops, Excuse
      <3> QED BY <1>2, <2>2, <3>1, <3>2, <3>3, MessageStep, ExpireStep, BesideStep DEF PresenceNext
    <2> QED BY <2>1, <2>2 DEF PresenceInv
  <1> QED BY <1>1, <1>2

\* At first the player who created the game has a socket, or is excused.
LEMMA PresenceFirst == PresenceInit => PresenceInv
  <1> SUFFICES ASSUME PresenceInit PROVE PresenceInv
    OBVIOUS
  <1>1. PresenceData
    <2>1. socket \in [Sockets -> Socket \cup {NoSocket}]
      <3>1. \A u \in Users : [NewSocket(u) EXCEPT !.known = TRUE, !.duelCode = TRUE] \in Socket
        BY DEF NewSocket, Socket
      <3> QED BY <3>1 DEF PresenceInit
    <2> QED BY <2>1, PresencePlaces DEF PresenceInit, PresenceData
  <1>2. ASSUME NEW v \in seated PROVE Minded(v)
    <2>1. CASE excused = seated
      BY <2>1 DEF Minded
    <2>2. ASSUME NEW first \in Sockets, host \in Users,
                 socket = [s \in Sockets |->
                    IF s = first THEN [NewSocket(host) EXCEPT !.known = TRUE, !.duelCode = TRUE]
                                 ELSE NoSocket]
          PROVE  Minded(v)
      <3>1. socket[first] = [NewSocket(host) EXCEPT !.known = TRUE, !.duelCode = TRUE]
        BY <2>2
      <3>2. socket[first] \in Socket /\ socket[first].user = host /\ socket[first].pc = "idle"
            /\ socket[first].up /\ socket[first].duelCode
        BY <2>2, <3>1 DEF NewSocket, Socket
      <3>3. v = host
        BY DEF PresenceInit
      <3> QED BY <3>2, <3>3, ConnectionFields DEF Minded, Minds, Live
    <2> QED BY <2>1, <2>2 DEF PresenceInit
  <1> QED BY <1>1, <1>2 DEF PresenceInv

\* A player of a game that is not over is never forgotten: however sockets are lost and
\* replaced, messages answered late, timers stopped, rows written over HTTP and nodes stopped,
\* he has a socket attached to the game, a message under way, or a period of grace, unless the
\* code lost track of him for a reason that is named (realtime.gateway.ts 244-333, 608-735,
\* 1196-1291).
THEOREM AbsentIsWatchedHolds == PresenceSpec => []AbsentIsWatched
  <1>1. PresenceInv => AbsentIsWatched
    <2>1. \A s, v : Minds(s, v) => /\ s \in Live /\ socket[s].user = v
                                   /\ Attached(s, v) \/ socket[s].pc # "idle"
      BY DEF Minds, Attached, Leaving
    <2> QED BY <2>1 DEF PresenceInv, AbsentIsWatched, Minded, Departing
  <1> QED BY <1>1, PresenceFirst, PresenceStep, PTL DEF PresenceSpec
=============================================================================
