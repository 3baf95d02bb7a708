------------------------------ MODULE DuelPresence ------------------------------
(***************************************************************************)
(* The presence of the players of one game: their sockets on the nodes,    *)
(* the eight seconds of grace that realtime.gateway.ts gives to a player   *)
(* whose socket is lost, kept in the memory of the node that lost it, and  *)
(* the departure (handlePlayerLeave) at their end.  Answers and rounds are *)
(* in DuelGame; here the status of the session moves by itself.            *)
(***************************************************************************)
EXTENDS Naturals

CONSTANTS
    Servers,   \* the processes of the server
    Users,     \* the players observed
    NoUser,    \* stands for everybody else
    Sockets,   \* connections; one that is lost serves again as a new one
    Places,    \* the nodes that they may be connected to: functions from Sockets
    MaxFaults  \* queries that fail, and crashes

ASSUME PresencePlaces == Places \subseteq [Sockets -> Servers]

VARIABLES
    status,            \* of the session; "OVER" is FINISHED, CANCELLED or EXPIRED
    host,              \* the user who leads the game, NoUser for one who is not observed
    seated,            \* users with a row in duel_players
    place,             \* by connection: the node that it is made to
    socket,            \* the connections, with what client.data and their handler hold
    disconnectTimers,  \* by node: users in their period of grace, eight seconds
    departure,         \* by node and user: the step of the departure that follows it
    excused,           \* history: users of whom the code loses track, for a known reason
    faults

presence == <<status, host, seated, place, socket, disconnectTimers, departure, excused, faults>>

Moves == {<<"WAITING", "READY">>, <<"WAITING", "STARTING">>, <<"READY", "STARTING">>,
          <<"STARTING", "IN_PROGRESS">>, <<"WAITING", "OVER">>, <<"READY", "OVER">>,
          <<"IN_PROGRESS", "OVER">>}
Leaving == {"remove", "close"}
\* known: handleConnection or handleAuthenticate has found the session of the user;
\* duelCode: client.data.duelCode is the code of this game, and not of another one or none;
\* pc: its message that is handled.
Socket == [user : Users, up : BOOLEAN, known : BOOLEAN, duelCode : BOOLEAN,
           pc : {"idle", "attach", "detach"} \cup Leaving]
NoSocket == [up |-> FALSE]
Live == {s \in Sockets : socket[s] # NoSocket}
NewSocket(u) == [user |-> u, up |-> TRUE, known |-> FALSE, duelCode |-> FALSE, pc |-> "idle"]

PresenceInit ==
    /\ status = "WAITING" /\ host \in Users \cup {NoUser}
    /\ seated = {host} \cap Users
    /\ place \in Places
    /\ disconnectTimers = [n \in Servers |-> {}]
    /\ departure = [n \in Servers |-> [u \in Users |-> "none"]]
    /\ faults = 0
    \* The game was created by POST create, or by handleDuelCreate on a socket.
    /\ \/ socket = [s \in Sockets |-> NoSocket] /\ excused = seated
       \/ \E first \in Sockets :
            /\ host \in Users /\ excused = {}
            /\ socket = [s \in Sockets |->
                  IF s = first THEN [NewSocket(host) EXCEPT !.known = TRUE, !.duelCode = TRUE]
                               ELSE NoSocket]

At(s, pc) == s \in Live /\ socket[s].pc = pc
Free(s) == At(s, "idle") /\ socket[s].up
\* The handler of s goes on, or returns: nothing is left of a socket that was lost.
Goto(s, pc) == socket' = [socket EXCEPT ![s].pc = pc]
Return(s, new) == socket' = [socket EXCEPT ![s] = IF new.up THEN [new EXCEPT !.pc = "idle"]
                                                 ELSE NoSocket]
Excuse(U) == excused' = excused \cup U
Attached(s, u) == s \in Live /\ socket[s].user = u /\ socket[s].up /\ socket[s].duelCode
Here == UNCHANGED <<status, host, seated, place>>

-----------------------------------------------------------------------------
(* Connections                                                             *)

Connect(s, u) ==
    /\ s \notin Live
    /\ socket' = [socket EXCEPT ![s] = NewSocket(u)]
    /\ Here /\ UNCHANGED <<disconnectTimers, departure, excused, faults>>
\* The session is looked up while messages are handled already.
Authenticate(s) ==
    /\ s \in Live /\ socket[s].up /\ ~socket[s].known
    /\ socket' = [socket EXCEPT ![s].known = TRUE]
    /\ Here /\ UNCHANGED <<disconnectTimers, departure, excused, faults>>
\* handleDisconnect: eight seconds, counted from now, for a player of the game.  Nothing
\* is done for a socket whose user is not known.
Disconnect(s) ==
    LET conn == socket[s] IN
    /\ s \in Live /\ conn.up
    /\ socket' = [socket EXCEPT ![s] = IF conn.pc = "idle" THEN NoSocket ELSE [conn EXCEPT !.up = FALSE]]
    /\ disconnectTimers' = IF conn.known /\ conn.duelCode
                           THEN [disconnectTimers EXCEPT ![place[s]] = @ \cup {conn.user}]
                           ELSE disconnectTimers
    /\ Excuse(IF conn.duelCode /\ ~conn.known THEN {conn.user} ELSE {})
    /\ Here /\ UNCHANGED <<departure, faults>>

-----------------------------------------------------------------------------
(* Messages of a socket, one at a time                                     *)

\* handlePlayerLeave, its first query: the next step of the departure of u
LeaveStep(u) ==
    IF status = "WAITING" /\ u = host THEN "close"
    ELSE IF status \in {"WAITING", "IN_PROGRESS"} /\ u \in seated THEN "remove"
    ELSE "detach"
\* READY and STARTING fall in the default case: the player stays.
Kept(u) == IF status \in {"READY", "STARTING"} THEN {u} ELSE {}
\* The update of the step pc
Departs(u, pc) ==
    /\ \/ pc = "remove" /\ seated' = seated \ {u} /\ excused' = excused \ {u} /\ UNCHANGED status
       \/ pc = "close" /\ status' = "OVER" /\ UNCHANGED <<seated, excused>>
    /\ UNCHANGED <<host, place, disconnectTimers, faults>>
Stopped(s) == [disconnectTimers EXCEPT ![place[s]] = @ \ {socket[s].user}]
Fails(u) == faults < MaxFaults /\ faults' = faults + 1 /\ Excuse({u}) /\ Here

\* Plausible bug, for the mutation check: the timer is stopped first, as the other
\* messages do, although joinDuel may refuse.
JoinSeatStopped(s) ==
    /\ Free(s) /\ socket[s].known
    /\ disconnectTimers' = Stopped(s)
    /\ \/ seated' = seated \cup {socket[s].user} /\ Goto(s, "attach")
       \/ UNCHANGED <<seated, socket>>
    /\ UNCHANGED <<status, host, place, departure, excused, faults>>

\* joinDuel, in handleDuelJoin: an existing player may come back until the game is over; it
\* may refuse him all the same, after too many wrong codes.
JoinSeat(s) ==
    LET u == socket[s].user IN
    /\ Free(s) /\ socket[s].known
    /\ u \notin seated => status \in {"WAITING", "READY"}
    /\ seated' = seated \cup {u} /\ Goto(s, "attach")
    /\ UNCHANGED <<status, host, place, disconnectTimers, departure, excused, faults>>
\* The end of handleDuelJoin and the whole of handleDuelReconnect attach the socket.
Attach(s, timers) ==
    LET conn == socket[s] IN
    /\ Return(s, [conn EXCEPT !.duelCode = TRUE])
    /\ disconnectTimers' = timers
    /\ excused' = IF ~conn.up THEN excused \cup {conn.user}
                  ELSE IF conn.known THEN excused \ {conn.user} ELSE excused
    /\ Here /\ UNCHANGED <<departure, faults>>
\* The timer is stopped at the end, also for a socket that was lost meanwhile.
JoinAttach(s) == At(s, "attach") /\ Attach(s, Stopped(s))
\* handleDuelReconnect: the timer of a guest when the user is not known yet.
Reconnect(s) ==
    /\ Free(s)
    /\ Attach(s, IF socket[s].known THEN Stopped(s) ELSE disconnectTimers)

\* handleDuelLeave: the timer is stopped first; a guest leaves nothing but the room.
LeaveLoad(s) ==
    LET u == socket[s].user
        known == socket[s].known IN
    /\ Free(s)
    /\ disconnectTimers' = IF known THEN Stopped(s) ELSE disconnectTimers
    /\ \/ /\ Goto(s, IF known THEN LeaveStep(u) ELSE "detach")
          /\ Excuse(IF known THEN Kept(u) ELSE {u}) /\ Here /\ UNCHANGED faults
       \/ known /\ Fails(u) /\ UNCHANGED socket
    /\ UNCHANGED departure
LeaveWrite(s) ==
    LET u == socket[s].user IN
    /\ s \in Live /\ socket[s].pc \in Leaving /\ UNCHANGED departure
    /\ \/ Goto(s, "detach") /\ Departs(u, socket[s].pc)
       \/ Return(s, socket[s]) /\ Fails(u) /\ UNCHANGED disconnectTimers
\* client.leave, and the socket has no duelCode any more.
Detach(s) ==
    /\ At(s, "detach") /\ Return(s, [socket[s] EXCEPT !.duelCode = FALSE])
    /\ Here /\ UNCHANGED <<disconnectTimers, departure, excused, faults>>
\* Creating, joining or reconnecting to another game puts its code in the place of this
\* one, and leaving another game deletes whatever code there is: the socket stays in the room
\* of this game, and its end will start no timer for it.
TurnsAway(s) ==
    /\ s \in Live /\ socket[s].up /\ socket[s].duelCode
    /\ socket' = [socket EXCEPT ![s].duelCode = FALSE]
    /\ Excuse({socket[s].user}) /\ Here /\ UNCHANGED <<disconnectTimers, departure, faults>>

-----------------------------------------------------------------------------
(* The eight seconds are over: handlePlayerLeave, without a message        *)

ExpireLoad(n, u) ==
    /\ u \in disconnectTimers[n] /\ departure[n][u] = "none"
    /\ disconnectTimers' = [disconnectTimers EXCEPT ![n] = @ \ {u}]
    /\ \/ /\ departure' = [departure EXCEPT ![n][u] =
                               IF LeaveStep(u) = "detach" THEN "none" ELSE LeaveStep(u)]
          /\ Excuse(Kept(u)) /\ Here /\ UNCHANGED faults
       \/ Fails(u) /\ UNCHANGED departure
    /\ UNCHANGED socket
ExpireWrite(n, u) ==
    /\ departure[n][u] # "none"
    /\ departure' = [departure EXCEPT ![n][u] = "none"]
    /\ Departs(u, departure[n][u]) \/ (Fails(u) /\ UNCHANGED disconnectTimers)
    /\ UNCHANGED socket

-----------------------------------------------------------------------------
(* What happens beside the sockets                                         *)

\* POST join and leave, and the host who expels: the rows change, the timers do not.
HttpJoin(u) ==
    /\ u \notin seated /\ status \in {"WAITING", "READY"}
    /\ seated' = seated \cup {u} /\ Excuse({u})
    /\ UNCHANGED <<status, host, place, socket, disconnectTimers, departure, faults>>
HttpLeave(u) ==
    /\ LeaveStep(u) # "detach" /\ Departs(u, LeaveStep(u)) /\ UNCHANGED <<socket, departure>>
Kick(u) ==
    /\ u \in seated \ {host} /\ seated' = seated \ {u} /\ excused' = excused \ {u}
    /\ UNCHANGED <<status, host, place, socket, disconnectTimers, departure, faults>>
\* The session starts, ends or closes (DuelSession).
Move ==
    /\ \E m \in Moves : status = m[1] /\ status' = m[2]
    /\ UNCHANGED <<host, place, seated, socket, disconnectTimers, departure, excused, faults>>
\* A node stops, on purpose (onModuleDestroy) or not: its timers are gone.
NodeStops(n) ==
    /\ faults < MaxFaults /\ faults' = faults + 1
    /\ socket' = [s \in Sockets |-> IF s \in Live /\ place[s] = n THEN NoSocket ELSE socket[s]]
    /\ disconnectTimers' = [disconnectTimers EXCEPT ![n] = {}]
    /\ departure' = [departure EXCEPT ![n] = [u \in Users |-> "none"]]
    /\ Excuse(Users) /\ Here

Message(s) == \/ JoinSeat(s) \/ JoinAttach(s) \/ Reconnect(s)
              \/ LeaveLoad(s) \/ LeaveWrite(s) \/ Detach(s) \/ TurnsAway(s)
\* Nothing is left to observe of a game that is over.
PresenceNext ==
  /\ status # "OVER"
  /\ \/ \E s \in Sockets : \/ Authenticate(s) \/ Disconnect(s) \/ Message(s)
                          \/ \E u \in Users : Connect(s, u)
    \/ \E u \in Users : \/ HttpJoin(u) \/ HttpLeave(u) \/ Kick(u)
                        \/ \E n \in Servers : ExpireLoad(n, u) \/ ExpireWrite(n, u)
    \/ Move \/ \E n \in Servers : NodeStops(n)
PresenceSpec == PresenceInit /\ [][PresenceNext]_presence

-----------------------------------------------------------------------------
(* Properties                                                              *)

PresenceTypeOK ==
    /\ status \in {"WAITING", "READY", "STARTING", "IN_PROGRESS", "OVER"}
    /\ host \in Users \cup {NoUser} /\ seated \in SUBSET Users
    /\ place \in [Sockets -> Servers]
    /\ socket \in [Sockets -> Socket \cup {NoSocket}]
    /\ disconnectTimers \in [Servers -> SUBSET Users]
    /\ departure \in [Servers -> [Users -> {"none"} \cup Leaving]]
    /\ excused \in SUBSET Users /\ faults \in 0 .. MaxFaults

\* A player of a game that is not over is never forgotten: he has a socket attached to
\* it, or his message is being handled, or his period of grace or his departure is
\* under way somewhere; unless he never had a socket, his handler ended on a lost one, he
\* left in READY or STARTING, his session was not known in time, his socket turned to another
\* game, or something failed (handleDisconnect 244-333, the timers stopped at 632, 700 and
\* 1203, duelCode written at 513, 630 and 713 and deleted at 1218).
AbsentIsWatched ==
    status # "OVER" => \A u \in seated :
        \/ u \in excused
        \/ \E s \in Live : Attached(s, u) \/ (socket[s].user = u /\ socket[s].pc # "idle")
        \/ \E n \in Servers : u \in disconnectTimers[n] \/ departure[n][u] # "none"

\* Refuted (README): the end of a period of grace finds nobody who is back; who asks to
\* leave a game that is not over has left it.
PresentStays ==
    [][\A n \in Servers : \A u \in Users :
          departure[n][u] = "none" /\ departure'[n][u] # "none"
              => ~\E s \in Live : Attached(s, u) /\ socket[s].known]_presence
LeaverLeaves ==
    [][\A s \in Live : Free(s) /\ socket[s].known /\ socket'[s] = [socket[s] EXCEPT !.pc = "detach"]
          => socket[s].user \notin seated]_presence
=============================================================================
