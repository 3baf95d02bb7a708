----------------------------- MODULE DuelSession -----------------------------
(***************************************************************************)
(* One game from its creation to its end: the lobby's and the game's       *)
(* handlers interleaved on the rows of DuelStore, and what they promise.   *)
(***************************************************************************)
EXTENDS DuelLobby, DuelGame, Functions

Step(r) == LobbyStep(r) \/ GameStep(r)
Call(r) ==
    \/ \E u \in Users : LobbyCall(r, u) \/ GameCall(r, u)
    \/ AnonymousCall(r)
Environment == DeadlinePasses \/ AnswerLockLapses
Sweeper == SweepFind \/ SweepClose

Next == (\E r \in Requests : Call(r) \/ Step(r)) \/ Environment \/ Sweeper

\* A game that its host has just started with every user of the instance in it.
StartedInit ==
    /\ session = [NewSession EXCEPT !.status = "IN_PROGRESS"]
    /\ expired = FALSE
    /\ spectator \in (IF IsDuel THEN {FALSE} ELSE BOOLEAN)
    /\ players = Users /\ hostFlag = {Host} /\ answered = {}
    /\ answersCount = [u \in Users |-> 0]
    /\ answers = [u \in Users |-> [i \in Index |-> 0]]
    /\ answerLocks = {} /\ concluded = {}
    /\ xp = [u \in Users |-> 0]
    /\ req = [r \in Requests |-> NewRequest]
    /\ sweep = "idle"

Spec == StoreInit /\ [][Next]_vars
GameSpec == StartedInit /\ [][Next]_vars

\* The event loop resumes every handler that has begun, and the cron keeps
\* running; no client is ever obliged to send anything.
Fairness ==
    /\ \A r \in Requests : WF_vars(Step(r))
    /\ WF_vars(SweepFind) /\ WF_vars(SweepClose)
    /\ WF_vars(DeadlinePasses)
FairSpec == Spec /\ Fairness

-----------------------------------------------------------------------------
(* Lobby                                                                   *)

\* Every row, key and request keeps its type; in particular the question
\* index that an advance writes, computed from a stale read, is a question.
TypeOK == StoreTypeOK

PastTheLock == {r \in Requests :
    At(r, {"start"}, "check") \/ At(r, {"start"}, "run") \/ At(r, {"start"}, "reset")
    \/ At(r, {"start"}, "ok") \/ At(r, {"start"}, "failed")}

\* In a room (no designated opponent) the STARTING lock of startGame is taken
\* by one request at most over the whole life of the game, whatever joins,
\* leaves, declines, kicks and sweeps are interleaved with it.
OneStart ==
    ~IsDuel => \A r, s \in PastTheLock : r = s

\* Once a start holds the lock of a room, nobody can put the lobby back.
LockIsKept ==
    ~IsDuel /\ PastTheLock # {} => session.status \notin Lobby

\* A 1v1 duel never holds the row of anybody but its two designated players,
\* however joins race with departures, kicks and promotions.
DuelPrivate ==
    IsDuel => players \subseteq {Host, Opponent}

\* The sweep closes lobbies only: between its two queries the game may have
\* started, ended or been cancelled, and then it must leave the status alone.
SweepSparesStartedGames ==
    [][sweep = "found" /\ sweep' = "idle" /\ session.status \notin Lobby
         => session' = session]_vars

\* A lobby past its deadline does not stay open: it is closed, or was started
\* by a request that had read it before.
LapsedLobbyCloses ==
    expired /\ session.status \in Lobby ~> session.status \notin Lobby

-----------------------------------------------------------------------------
(* What comments, messages and tests of the repository say and races break. *)

\* multiplayer.service.ts:2035, "fermeture immediate et irrevocable du salon".
CancelIsFinal ==
    [][session.status = "CANCELLED" => session'.status = "CANCELLED"]_vars

\* multiplayer.service.ts, "limite absolue de 5 joueurs meme lors d'arrivees
\* concurrentes": an open lobby never seats more players than maxPlayers.
RoomCapacity ==
    ~IsDuel /\ session.status \in Lobby
        => Cardinality(Seats(spectator)) <= MaxPlayers

\* "Exiger au moins 2 vrais joueurs actifs pour demarrer la partie": when a
\* start makes the game run, two contenders have a row.
StartsWithTwo ==
    [][session.status = "STARTING" /\ session'.status = "IN_PROGRESS"
         => Cardinality(Contenders(spectator, players, {session.host})) >= 2]_vars

\* "Cloture automatique des salons non demarres arrives a expiration": a game
\* that never ran does not outlive its deadline for ever.
NeverStartedCloses ==
    expired /\ session.status \in Lobby \cup {"STARTING"}
        ~> session.status \notin Lobby \cup {"STARTING"}

\* submitAnswer is idempotent: one answer row per player and question.
OneAnswerPerQuestion ==
    \A u \in Users : \A i \in Index : answers[u][i] <= 1

-----------------------------------------------------------------------------
(* Running game                                                            *)

AnswerRows(u) == FoldFunction(LAMBDA x, y : x + y, 0, answers[u])

\* A player is never credited for more answers than the table records, even
\* when its row is deleted, or deleted and created again, under a submission.
NoCreditWithoutAnswer ==
    \A u \in players : answersCount[u] <= AnswerRows(u)

\* hasAnsweredCurrent is set only with a recorded answer: kicks and departures
\* do not leave the flag of a player who never answered.
FlagHasAnswer ==
    \A u \in answered : \E i \in Index : answers[u][i] > 0

GameContenders == Contenders(spectator, players, hostFlag)
Settled == Resting /\ session.status = "IN_PROGRESS"

\* A kick never ends a game: a host who kicks the others plays on alone.
NoKick == \A r \in Requests : req[r].op # "kick"

\* The host that chose to spectate is still there; see SoleContenderWins.
NoInheritedSpectator == spectator => Host \in players

\* When every handler has returned, a running game still has two contenders:
\* whoever leaves last, whatever the interleaving of departures, the survivor
\* has won by forfeit or the empty game was cancelled.
SurvivorWins ==
    Settled /\ NoKick /\ NoInheritedSpectator => Cardinality(GameContenders) >= 2

\* Over REST, or by the grace timer, somebody found the current round complete: POST
\* answer and POST leave (multiplayer.controller.ts) return that to the client, the timer
\* drops it, and none of them concludes.
LeftOpen == \E r \in Requests : /\ req[r].pc = "told"
                                /\ req[r].snap.session.index = session.index

\* When every handler has returned and all contenders have answered, the round
\* was concluded, or left open by a caller that had found it complete: among
\* concurrent answers, departures and kicks, one of them saw it.
LastAnswerConcludes ==
    Settled /\ NoInheritedSpectator /\ AllAnswered(GameContenders, answered)
        => session.index \in concluded \/ LeftOpen

\* The round is concluded whoever answers last (README): broken by the routes of the
\* controller, for which the clients have the end of their own clock.
LastAnswerAlwaysConcludes ==
    Settled /\ NoInheritedSpectator /\ AllAnswered(GameContenders, answered)
        => session.index \in concluded

\* multiplayer.service.ts:2038, the last player left wins by forfeit: broken
\* without any race when a spectating host leaves, since the player promoted
\* in its place inherits the spectator key.
SoleContenderWins ==
    Settled => Cardinality(GameContenders) # 1

\* XP is paid only for a game that is over, and the game stays over.
PaidWhenOver ==
    (\E u \in Users : xp[u] > 0)
        => session.status \in {"FINISHED", "CANCELLED", "EXPIRED"}
=============================================================================
