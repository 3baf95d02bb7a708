------------------------------ MODULE DuelStore ------------------------------
(***************************************************************************)
(* One multiplayer game as its handlers share it: the duel_sessions row,   *)
(* its duel_players and duel_answers rows, the Redis keys of its code, and *)
(* the HTTP / socket requests in flight.  A handler of                     *)
(* multiplayer.service.ts is a request that takes one step per awaited     *)
(* query; between two steps it holds only the snapshot it has read, as the *)
(* JavaScript locals do.                                                   *)
(***************************************************************************)
EXTENDS Naturals, FiniteSets

CONSTANTS
    Users,           \* registered users who may call the API
    Host,            \* the user who created the game (player1Id at creation)
    Opponent,        \* player2Id: the challenged user of a 1v1 duel, or NoUser
    DeckAuthor,      \* author of the custom deck being played, or NoUser
    NoUser,          \* SQL NULL
    MaxPlayers,      \* maxPlayers of a room (5 in production)
    TotalQuestions,  \* questions drawn for the game
    Themes,          \* themes a lobby may choose between
    Requests,        \* the requests clients send; each runs once
    Ops              \* the operations clients send in this instance

ASSUME DuelUsers ==
    /\ Host \in Users /\ NoUser \notin Users
    /\ Opponent \in (Users \ {Host}) \cup {NoUser}
    /\ "ALL" \in Themes
ASSUME DuelBounds == MaxPlayers \in Nat \ {0} /\ TotalQuestions \in Nat \ {0}

VARIABLES
    session,       \* the duel_sessions row
    expired,       \* has the clock passed expiresAt?
    spectator,     \* Redis duel:spectator:CODE is '1'
    players,       \* users that have a duel_players row
    hostFlag,      \* those of them with isHost
    answered,      \* those of them with hasAnsweredCurrent
    answersCount,  \* answersCount of each user's row
    answers,       \* how many duel_answers rows a user has for a question
    answerLocks,   \* Redis duel:lock:ans:CODE:user:index keys that exist
    concluded,     \* questions for which ROUND_END was broadcast
    xp,            \* XP transactions a user got from this game
    req,           \* the requests
    sweep          \* progress of the expiration cron

rowVars  == <<players, hostFlag, answered, answersCount>>
gameLog  == <<answers, answerLocks, concluded, xp>>
vars == <<session, expired, spectator, rowVars, gameLog, req, sweep>>

Lobby  == {"WAITING", "READY"}
Status == Lobby \cup {"STARTING", "IN_PROGRESS", "FINISHED", "CANCELLED", "EXPIRED"}
Index  == 0 .. TotalQuestions - 1
IsDuel == Opponent # NoUser
CustomDeck == DeckAuthor # NoUser
MaybeUser == Users \cup {NoUser}

Session == [status : Status, host : Users, chooser : MaybeUser, theme : Themes,
            index : Index, winner : MaybeUser]
Snapshot == [session : Session, players : SUBSET Users,
             hostFlag : SUBSET Users, answered : SUBSET Users]

\* Results of a request that has returned; "failed" is a start refused after
\* it took the STARTING lock, "told" the answer or departure that has found every
\* contender's answer in and leaves it to its caller.
Final == {"ok", "refused", "failed", "told"}
Steps == {"new", "expire", "spectator", "tx", "commit", "lock", "check", "run",
          "reset", "write", "cancel", "lobbyDelete", "chooser", "gameDelete",
          "reread", "count", "forfeit", "pay", "abandon", "promoteRow", "promoteSession",
          "delete", "guard", "answerLock", "answerRead", "answerWrite",
          "conclude", "rank", "advance", "podium"}
OpNames == {"none", "join", "start", "decline", "theme", "delegate", "toggle",
            "state", "leave", "kick", "answer", "timeout", "advance"}
Request == [op : OpNames, user : MaybeUser, target : MaybeUser,
            pc : Steps \cup Final, snap : Snapshot, spect : BOOLEAN,
            wasHost : BOOLEAN, unpaid : SUBSET Users]

\* createGame: the row, the host's player row, and perhaps the spectator key.
NewSession == [status |-> "WAITING", host |-> Host,
               chooser |-> IF CustomDeck THEN NoUser ELSE Host,
               theme |-> "ALL", index |-> 0, winner |-> NoUser]
NoSnap == [session |-> NewSession, players |-> {}, hostFlag |-> {}, answered |-> {}]
NewRequest == [op |-> "none", user |-> NoUser, target |-> NoUser, pc |-> "new",
               snap |-> NoSnap, spect |-> FALSE, wasHost |-> FALSE, unpaid |-> {}]

StoreInit ==
    /\ \E c \in IF CustomDeck THEN {NoUser} ELSE {Host, Opponent} \ {NoUser} :
         session = [NewSession EXCEPT !.chooser = c]
    /\ expired = FALSE
    /\ spectator \in (IF IsDuel THEN {FALSE}
                      ELSE IF DeckAuthor = Host THEN {TRUE} ELSE BOOLEAN)
    /\ players = {Host} /\ hostFlag = {Host} /\ answered = {}
    /\ answersCount = [u \in Users |-> 0]
    /\ answers = [u \in Users |-> [i \in Index |-> 0]]
    /\ answerLocks = {} /\ concluded = {}
    /\ xp = [u \in Users |-> 0]
    /\ req = [r \in Requests |-> NewRequest]
    /\ sweep = "idle"

-----------------------------------------------------------------------------
(* Requests: what they have read, and how they move on.                    *)

Read == [session |-> session, players |-> players,
         hostFlag |-> hostFlag, answered |-> answered]
At(r, ops, pc) == req[r].op \in ops /\ req[r].pc = pc
Resting == \A r \in Requests : req[r].pc \in Final \cup {"new"}

Returned(op, result) == [NewRequest EXCEPT !.op = op, !.pc = result]

\* The first await of a handler: findUnique of the session with its players.
Begin(r, op, u, v, pc) ==
    /\ op \in Ops
    /\ req[r].pc = "new"
    /\ req' = [req EXCEPT ![r] =
                 IF pc \in Final THEN Returned(op, pc)
                 ELSE [NewRequest EXCEPT !.op = op, !.user = u, !.target = v,
                                         !.pc = pc, !.snap = Read]]
Goto(r, pc) == req' = [req EXCEPT ![r].pc = pc]
Finish(r, result) == req' = [req EXCEPT ![r] = Returned(req[r].op, result)]
GotoOrFinish(r, pc) == IF pc \in Final THEN Finish(r, pc) ELSE Goto(r, pc)

SetStatus(s) == session' = [session EXCEPT !.status = s]

\* duel_players.deleteMany for one user.
DeleteRow(u) ==
    /\ players' = players \ {u}
    /\ hostFlag' = hostFlag \ {u}
    /\ answered' = answered \ {u}
    /\ answersCount' = [answersCount EXCEPT ![u] = 0]

\* EXPIRED already, or past expiresAt whatever the status says.
Lapsed == session.status = "EXPIRED" \/ expired
IsHost(u) == session.host = u \/ u \in hostFlag
CurrentChooser == IF session.chooser = NoUser THEN session.host ELSE session.chooser

\* Players who may answer: the host is not one of them when it is spectating.
Contenders(spect, rows, hosts) == IF spect THEN rows \ hosts ELSE rows
AllAnswered(contenders, flags) == contenders # {} /\ contenders \subseteq flags

-----------------------------------------------------------------------------
StoreTypeOK ==
    /\ session \in Session
    /\ expired \in BOOLEAN /\ spectator \in BOOLEAN
    /\ players \in SUBSET Users
    /\ hostFlag \in SUBSET players /\ answered \in SUBSET players
    /\ answersCount \in [Users -> Nat]
    /\ answers \in [Users -> [Index -> Nat]]
    /\ answerLocks \in SUBSET (Users \X Index)
    /\ concluded \in SUBSET Index
    /\ xp \in [Users -> Nat]
    /\ req \in [Requests -> Request]
    /\ sweep \in {"idle", "found"}
=============================================================================
