------------------------------ MODULE DuelLobby ------------------------------
(***************************************************************************)
(* The handlers of the waiting room: joining, starting, declining, choosing*)
(* the theme, toggling the spectator mode, and the two ways a lobby lapses *)
(* (a request that notices it, and the expiration cron).                   *)
(***************************************************************************)
EXTENDS DuelStore

-----------------------------------------------------------------------------
(* Plausible bugs: mutated forms of definitions below, used by no run but   *)
(* by the mutation check of the properties.                                 *)

\* The STARTING transition as an update by id, not filtered on the status.
StartLockUnfiltered(r) ==
    /\ At(r, {"start"}, "lock")
    /\ SetStatus("STARTING") /\ Goto(r, "check")
    /\ UNCHANGED <<expired, spectator, rowVars, gameLog, sweep>>

\* The lobby is checked again but the STARTING status is not written.
StartLockForgotten(r) ==
    /\ At(r, {"start"}, "lock")
    /\ IF session.status \in Lobby THEN Goto(r, "check") ELSE Finish(r, "refused")
    /\ UNCHANGED <<session, expired, spectator, rowVars, gameLog, sweep>>

\* Only the WAITING lobbies are swept.
SweepFindWaiting ==
    /\ sweep = "idle"
    /\ expired /\ session.status = "WAITING"
    /\ sweep' = "found"
    /\ UNCHANGED <<session, expired, spectator, rowVars, gameLog, req>>

\* The sweep updates by id the sessions it found.
SweepCloseById ==
    /\ sweep = "found"
    /\ sweep' = "idle"
    /\ SetStatus("EXPIRED") /\ spectator' = FALSE
    /\ UNCHANGED <<expired, rowVars, gameLog, req>>

\* A duel limits the number of players, not who they are.
AdmissibleByNumber(u, spect) ==
    /\ ~Lapsed
    /\ session.status \notin {"CANCELLED", "FINISHED"}
    /\ u \notin players => session.status \in Lobby
    /\ IsDuel /\ u \notin players => Cardinality(players) < 2

-----------------------------------------------------------------------------
\* A lobby found past its deadline is closed by the request that read it: an
\* update by id, whatever the status has become since.
ExpireOnRead(r) ==
    /\ At(r, {"join", "state", "start"}, "expire")
    /\ SetStatus("EXPIRED")
    /\ Finish(r, "refused")
    /\ UNCHANGED <<expired, spectator, rowVars, gameLog, sweep>>

\* getGameState
StateLoad(r, u) ==
    /\ Begin(r, "state", u, NoUser,
             IF Lapsed /\ session.status \in Lobby THEN "expire" ELSE "ok")
    /\ UNCHANGED <<session, expired, spectator, rowVars, gameLog, sweep>>

-----------------------------------------------------------------------------
(* joinGame: a read, the spectator key, then a transaction at READ         *)
(* COMMITTED: its checks read committed rows, its writes appear at commit. *)

JoinLoad(r, u) ==
    /\ Begin(r, "join", u, NoUser,
             CASE Lapsed /\ session.status \in Lobby -> "expire"
               [] \/ Lapsed /\ session.status \notin Lobby
                  \/ session.status \in {"CANCELLED", "FINISHED"} -> "refused"
               [] OTHER -> "spectator")
    /\ UNCHANGED <<session, expired, spectator, rowVars, gameLog, sweep>>

JoinSpectator(r) ==
    /\ At(r, {"join"}, "spectator")
    /\ req' = [req EXCEPT ![r].pc = "tx", ![r].spect = spectator]
    /\ UNCHANGED <<session, expired, spectator, rowVars, gameLog, sweep>>

Seats(spect) == IF spect THEN players \ {session.host} ELSE players

Admissible(u, spect) ==
    /\ ~Lapsed
    /\ session.status \notin {"CANCELLED", "FINISHED"}
    /\ u \notin players => session.status \in Lobby
    /\ IsDuel => /\ u \in {session.host, Opponent}
                 /\ u \notin players => Cardinality(players) < 2
    /\ ~IsDuel /\ u \notin players => Cardinality(Seats(spect)) < MaxPlayers

JoinRead(r) ==
    LET u == req[r].user IN
    /\ At(r, {"join"}, "tx")
    /\ CASE ~Admissible(u, req[r].spect) -> Finish(r, "refused")
         [] Admissible(u, req[r].spect) /\ u \in players -> Finish(r, "ok")
         [] OTHER -> req' = [req EXCEPT ![r].pc = "commit", ![r].snap = Read]
    /\ UNCHANGED <<session, expired, spectator, rowVars, gameLog, sweep>>

\* The unique key (session, user) refuses a second row; the challenged player
\* also writes the status that the transaction had read, WAITING becoming READY.
JoinCommit(r) ==
    LET u == req[r].user
        seen == req[r].snap.session
    IN
    /\ At(r, {"join"}, "commit")
    /\ IF u \in players
       THEN Finish(r, "refused") /\ UNCHANGED <<session, rowVars>>
       ELSE /\ players' = players \cup {u}
            /\ hostFlag' = IF seen.host = u THEN hostFlag \cup {u} ELSE hostFlag
            /\ answersCount' = [answersCount EXCEPT ![u] = 0]
            /\ IF u = Opponent
               THEN SetStatus(IF seen.status = "WAITING" THEN "READY" ELSE seen.status)
               ELSE UNCHANGED session
            /\ UNCHANGED answered
            /\ Finish(r, "ok")
    /\ UNCHANGED <<expired, spectator, gameLog, sweep>>

-----------------------------------------------------------------------------
(* startGame                                                               *)

StartLoad(r, u) ==
    /\ Begin(r, "start", u, NoUser,
             CASE ~IsHost(u) -> "refused"
               [] IsHost(u) /\ Lapsed -> "expire"
               [] OTHER -> IF session.status \in Lobby THEN "lock" ELSE "refused")
    /\ UNCHANGED <<session, expired, spectator, rowVars, gameLog, sweep>>

\* updateMany filtered on the lobby statuses: one of several starts wins.
StartLock(r) ==
    /\ At(r, {"start"}, "lock")
    /\ IF session.status \in Lobby
       THEN SetStatus("STARTING") /\ Goto(r, "check")
       ELSE Finish(r, "refused") /\ UNCHANGED session
    /\ UNCHANGED <<expired, spectator, rowVars, gameLog, sweep>>

EnoughPlayers(snap) ==
    /\ Cardinality(Contenders(spectator, snap.players, {snap.session.host})) >= 2
    /\ IsDuel => {snap.session.host, Opponent} \subseteq snap.players

\* The players are counted on the rows read before the lock was taken.
StartCheck(r) ==
    /\ At(r, {"start"}, "check")
    /\ GotoOrFinish(r, IF EnoughPlayers(req[r].snap) THEN "run" ELSE "failed")
    /\ UNCHANGED <<session, expired, spectator, rowVars, gameLog, sweep>>

StartRun(r) ==
    /\ At(r, {"start"}, "run")
    /\ session' = [session EXCEPT !.status = "IN_PROGRESS", !.index = 0]
    /\ Goto(r, "reset")
    /\ UNCHANGED <<expired, spectator, rowVars, gameLog, sweep>>

StartReset(r) ==
    /\ At(r, {"start"}, "reset")
    /\ answered' = {}
    /\ Finish(r, "ok")
    /\ UNCHANGED <<session, expired, spectator, players, hostFlag, answersCount,
                   gameLog, sweep>>

-----------------------------------------------------------------------------
(* declineDuelChallenge, changeTheme, delegateThemeChoice: a check on a     *)
(* snapshot, then an update by id or code.                                  *)

DeclineLoad(r, u) ==
    /\ Begin(r, "decline", u, NoUser,
             IF session.status \in Lobby THEN "write" ELSE "ok")
    /\ UNCHANGED <<session, expired, spectator, rowVars, gameLog, sweep>>

DeclineWrite(r) ==
    /\ At(r, {"decline"}, "write")
    /\ SetStatus("CANCELLED")
    /\ Finish(r, "ok")
    /\ UNCHANGED <<expired, spectator, rowVars, gameLog, sweep>>

ThemeLoad(r, u) ==
    /\ Begin(r, "theme", u, NoUser,
             IF session.status = "WAITING" /\ ~CustomDeck /\ u = CurrentChooser
             THEN "write" ELSE "refused")
    /\ UNCHANGED <<session, expired, spectator, rowVars, gameLog, sweep>>

ThemeWrite(r) ==
    /\ At(r, {"theme"}, "write")
    /\ \E t \in Themes : session' = [session EXCEPT !.theme = t]
    /\ Finish(r, "ok")
    /\ UNCHANGED <<expired, spectator, rowVars, gameLog, sweep>>

\* v is the target the client named, or the one the handler falls back on.
DelegateLoad(r, u, v) ==
    /\ Begin(r, "delegate", u, v,
             IF session.status = "WAITING" /\ ~CustomDeck
                /\ u \in {CurrentChooser, session.host}
             THEN "write" ELSE "refused")
    /\ UNCHANGED <<session, expired, spectator, rowVars, gameLog, sweep>>

DelegateWrite(r) ==
    /\ At(r, {"delegate"}, "write")
    /\ session' = [session EXCEPT !.chooser = req[r].target]
    /\ Finish(r, "ok")
    /\ UNCHANGED <<expired, spectator, rowVars, gameLog, sweep>>

\* handleDuelToggleSpectator: any authenticated client of any room, at any time.
ToggleSpectator(r, u, on) ==
    LET allowed == ~IsDuel /\ (u = DeckAuthor => on) IN
    /\ Begin(r, "toggle", u, NoUser, IF allowed THEN "ok" ELSE "refused")
    /\ spectator' = IF allowed THEN on ELSE spectator
    /\ UNCHANGED <<session, expired, rowVars, gameLog, sweep>>

-----------------------------------------------------------------------------
(* Time, and expirePendingSessions as the cron runs it.                     *)

DeadlinePasses ==
    /\ ~expired
    /\ expired' = TRUE
    /\ UNCHANGED <<session, spectator, rowVars, gameLog, req, sweep>>

SweepFind ==
    /\ sweep = "idle"
    /\ expired /\ session.status \in Lobby
    /\ sweep' = "found"
    /\ UNCHANGED <<session, expired, spectator, rowVars, gameLog, req>>

SweepClose ==
    /\ sweep = "found"
    /\ sweep' = "idle"
    /\ IF session.status \in Lobby
       THEN SetStatus("EXPIRED") /\ spectator' = FALSE
       ELSE UNCHANGED <<session, spectator>>
    /\ UNCHANGED <<expired, rowVars, gameLog, req>>

LobbyStep(r) ==
    \/ ExpireOnRead(r) \/ JoinSpectator(r) \/ JoinRead(r) \/ JoinCommit(r)
    \/ StartLock(r) \/ StartCheck(r) \/ StartRun(r) \/ StartReset(r)
    \/ DeclineWrite(r) \/ ThemeWrite(r) \/ DelegateWrite(r)

LobbyCall(r, u) ==
    \/ StateLoad(r, u) \/ JoinLoad(r, u) \/ StartLoad(r, u) \/ DeclineLoad(r, u)
    \/ ThemeLoad(r, u)
    \/ \E v \in Users : DelegateLoad(r, u, v)
    \/ \E on \in BOOLEAN : ToggleSpectator(r, u, on)
=============================================================================
