------------------------------- MODULE DuelGame -------------------------------
(***************************************************************************)
(* The handlers of a running game: leaving, being kicked, answering,       *)
(* concluding a round and advancing, with the part of the gateway that     *)
(* chains concludeRound after an answer, a departure or a kick.  The REST  *)
(* controller and the grace timer call the same service and chain nothing. *)
(***************************************************************************)
EXTENDS DuelStore

\* Every contender has answered.  A message of the gateway goes on to conclude the round;
\* POST answer and POST leave return the flag to the client and the end of a grace period
\* drops it, all for the round that they leave open.  Who has called matters here only.
Announce(r) ==
    \/ Goto(r, "conclude")
    \/ req' = [req EXCEPT ![r] = [Returned(req[r].op, "told")
                                    EXCEPT !.snap.session.index = session.index]]

-----------------------------------------------------------------------------
(* Plausible bugs: mutated forms of definitions below, used by no run but   *)
(* by the mutation check of the properties.                                 *)

\* The remaining players are computed from the rows of the first read.
RereadStale(r) ==
    LET seen == req[r].snap
        u == req[r].user
    IN
    /\ At(r, {"leave", "kick"}, "reread")
    /\ req' = [req EXCEPT ![r].snap.players = seen.players \ {u},
                 ![r].snap.hostFlag = seen.hostFlag \ {u},
                 ![r].wasHost = seen.session.host = u \/ u \in seen.hostFlag,
                 ![r].pc = "count"]
    /\ UNCHANGED <<session, expired, spectator, rowVars, gameLog, sweep>>

\* The forfeit is paid and the session left as it is.
LeaveForfeitOpen(r) ==
    /\ At(r, {"leave"}, "forfeit")
    /\ Goto(r, "pay")
    /\ UNCHANGED <<session, expired, spectator, rowVars, gameLog, sweep>>

\* The answer is upserted while the credit is incremented.
AnswerWriteUpsert(r) ==
    LET u == req[r].user
        i == req[r].snap.session.index
    IN
    /\ At(r, {"answer"}, "answerWrite")
    /\ IF u \in players
       THEN /\ answers' = [answers EXCEPT ![u][i] = 1]
            /\ answersCount' = [answersCount EXCEPT ![u] = @ + 1]
            /\ answered' = answered \cup {u}
            /\ Goto(r, "count")
       ELSE Finish(r, "refused") /\ UNCHANGED <<answers, answersCount, answered>>
    /\ UNCHANGED <<session, expired, spectator, players, hostFlag, answerLocks,
                   concluded, xp, sweep>>

\* allAnswered computed on the snapshot, with the caller's own answer added.
AnswerCountStale(r) ==
    LET seen == req[r].snap IN
    /\ At(r, {"answer"}, "count")
    /\ IF AllAnswered(Contenders(req[r].spect, seen.players, seen.hostFlag),
                      seen.answered \cup {req[r].user})
       THEN Announce(r) ELSE Finish(r, "ok")
    /\ UNCHANGED <<session, expired, spectator, rowVars, gameLog, sweep>>

-----------------------------------------------------------------------------
(* handlePlayerLeave                                                       *)

LeaveLoad(r, u) ==
    /\ Begin(r, "leave", u, NoUser,
             CASE session.status = "WAITING" ->
                    IF IsHost(u) THEN "cancel"
                    ELSE IF u \in players THEN "lobbyDelete"
                    ELSE IF session.chooser = u THEN "chooser" ELSE "ok"
               [] session.status = "IN_PROGRESS" ->
                    IF u \in players THEN "gameDelete" ELSE "reread"
               [] OTHER -> "ok")
    /\ UNCHANGED <<session, expired, spectator, rowVars, gameLog, sweep>>

\* The host left the waiting room: the lobby is closed for everybody.
LeaveCancel(r) ==
    /\ At(r, {"leave"}, "cancel")
    /\ SetStatus("CANCELLED")
    /\ spectator' = FALSE
    /\ Finish(r, "ok")
    /\ UNCHANGED <<expired, rowVars, gameLog, sweep>>

LeaveLobbyDelete(r) ==
    /\ At(r, {"leave"}, "lobbyDelete")
    /\ DeleteRow(req[r].user)
    /\ GotoOrFinish(r, IF req[r].snap.session.chooser = req[r].user
                       THEN "chooser" ELSE "ok")
    /\ UNCHANGED <<session, expired, spectator, gameLog, sweep>>

\* The theme choice goes back to the host the handler had read.
LeaveChooser(r) ==
    /\ At(r, {"leave"}, "chooser")
    /\ session' = [session EXCEPT !.chooser = req[r].snap.session.host]
    /\ Finish(r, "ok")
    /\ UNCHANGED <<expired, spectator, rowVars, gameLog, sweep>>

LeaveGameDelete(r) ==
    /\ At(r, {"leave"}, "gameDelete")
    /\ DeleteRow(req[r].user)
    /\ Goto(r, "reread")
    /\ UNCHANGED <<session, expired, spectator, gameLog, sweep>>

\* A departure and a kick read the remaining rows again; what the handler knows
\* of the session, and whether the leaver was host, stays as first read.
Reread(r) ==
    LET seen == req[r].snap
        u == req[r].user
    IN
    /\ At(r, {"leave", "kick"}, "reread")
    /\ req' = [req EXCEPT ![r].snap = [Read EXCEPT !.session = seen.session],
                 ![r].wasHost = seen.session.host = u \/ u \in seen.hostFlag,
                 ![r].pc = "count"]
    /\ UNCHANGED <<session, expired, spectator, rowVars, gameLog, sweep>>

\* The contenders left decide what becomes of the game.
LeaveCount(r) ==
    LET seen == req[r].snap
        left == Contenders(spectator, seen.players, seen.hostFlag)
    IN
    /\ At(r, {"leave"}, "count")
    /\ req' = [req EXCEPT ![r].unpaid = left,
                 ![r].pc = CASE Cardinality(left) = 1 -> "forfeit"
                             [] left = {} -> "abandon"
                             [] OTHER -> IF req[r].wasHost THEN "promoteRow"
                                         ELSE "check"]
    /\ UNCHANGED <<session, expired, spectator, rowVars, gameLog, sweep>>

\* One contender left: it wins by forfeit, and is paid in a later transaction.
LeaveForfeit(r) ==
    /\ At(r, {"leave"}, "forfeit")
    /\ \E w \in req[r].unpaid :
         session' = [session EXCEPT !.status = "FINISHED", !.winner = w]
    /\ Goto(r, "pay")
    /\ UNCHANGED <<expired, spectator, rowVars, gameLog, sweep>>

LeaveAbandon(r) ==
    /\ At(r, {"leave"}, "abandon")
    /\ SetStatus("CANCELLED")
    /\ spectator' = FALSE
    /\ Finish(r, "ok")
    /\ UNCHANGED <<expired, rowVars, gameLog, sweep>>

\* The eldest remaining row becomes host; the update fails if it left meanwhile.
LeavePromoteRow(r) ==
    /\ At(r, {"leave"}, "promoteRow")
    /\ \E w \in req[r].snap.players :
         IF w \in players
         THEN /\ hostFlag' = hostFlag \cup {w}
              /\ req' = [req EXCEPT ![r].pc = "promoteSession", ![r].target = w]
         ELSE Finish(r, "refused") /\ UNCHANGED hostFlag
    /\ UNCHANGED <<session, expired, spectator, players, answered, answersCount,
                   gameLog, sweep>>

LeavePromoteSession(r) ==
    /\ At(r, {"leave"}, "promoteSession")
    /\ session' = [session EXCEPT !.host = req[r].target]
    /\ Goto(r, "check")
    /\ UNCHANGED <<expired, spectator, rowVars, gameLog, sweep>>

\* allRemainingAnswered, on the rows read after the deletion.
LeaveCheck(r) ==
    /\ At(r, {"leave"}, "check")
    /\ IF AllAnswered(req[r].unpaid, req[r].snap.answered) THEN Announce(r) ELSE Finish(r, "ok")
    /\ UNCHANGED <<session, expired, spectator, rowVars, gameLog, sweep>>

-----------------------------------------------------------------------------
(* kickPlayer                                                              *)

KickLoad(r, u, v) ==
    /\ Begin(r, "kick", u, v,
             IF IsHost(u) /\ v # u /\ v \in players THEN "delete" ELSE "refused")
    /\ UNCHANGED <<session, expired, spectator, rowVars, gameLog, sweep>>

KickDelete(r) ==
    /\ At(r, {"kick"}, "delete")
    /\ DeleteRow(req[r].target)
    /\ Goto(r, "reread")
    /\ UNCHANGED <<session, expired, spectator, gameLog, sweep>>

KickCount(r) ==
    LET seen == req[r].snap
        left == Contenders(spectator, seen.players, seen.hostFlag)
    IN
    /\ At(r, {"kick"}, "count")
    /\ GotoOrFinish(r, IF /\ seen.session.status = "IN_PROGRESS"
                          /\ AllAnswered(left, seen.answered)
                       THEN "conclude" ELSE "ok")
    /\ UNCHANGED <<session, expired, spectator, rowVars, gameLog, sweep>>

-----------------------------------------------------------------------------
(* submitAnswer                                                            *)

AnswerLoad(r, u) ==
    /\ Begin(r, "answer", u, NoUser,
             IF /\ session.status = "IN_PROGRESS" /\ u \in players
                /\ IsDuel => u \in {session.host, Opponent}
             THEN "guard" ELSE "refused")
    /\ UNCHANGED <<session, expired, spectator, rowVars, gameLog, sweep>>

\* The spectator key and the answer lock are read; an answer already given
\* returns the snapshot's own verdict on whether everybody has answered.
AnswerGuard(r) ==
    LET u == req[r].user
        seen == req[r].snap
        given == u \in seen.answered \/ <<u, seen.session.index>> \in answerLocks
        all == AllAnswered(Contenders(spectator, seen.players, seen.hostFlag),
                           seen.answered)
        barred == (u \in seen.hostFlag /\ spectator) \/ u = DeckAuthor
    IN
    /\ At(r, {"answer"}, "guard")
    /\ \/ barred /\ Finish(r, "refused")
       \/ ~barred /\ given /\ (IF all THEN Announce(r) ELSE Finish(r, "ok"))
       \/ ~barred /\ ~given
          /\ req' = [req EXCEPT ![r].pc = "answerLock", ![r].spect = spectator]
    /\ UNCHANGED <<session, expired, spectator, rowVars, gameLog, sweep>>

\* A plain SET with a TTL of five seconds, whoever holds the key.
AnswerLock(r) ==
    /\ At(r, {"answer"}, "answerLock")
    /\ answerLocks' = answerLocks \cup {<<req[r].user, req[r].snap.session.index>>}
    /\ Goto(r, "answerRead")
    /\ UNCHANGED <<session, expired, spectator, rowVars, answers, concluded, xp, sweep>>

AnswerLockLapses ==
    /\ \E k \in answerLocks : answerLocks' = answerLocks \ {k}
    /\ UNCHANGED <<session, expired, spectator, rowVars, answers, concluded, xp,
                   req, sweep>>

\* The transaction looks for the answer of the index it read before...
AnswerRead(r) ==
    LET u == req[r].user
        i == req[r].snap.session.index
    IN
    /\ At(r, {"answer"}, "answerRead")
    /\ GotoOrFinish(r, CASE answers[u][i] = 0 -> "answerWrite"
                         [] answers[u][i] > 0 /\ u \in players -> "count"
                         [] OTHER -> "refused")
    /\ UNCHANGED <<session, expired, spectator, rowVars, gameLog, sweep>>

\* ... and commits the answer with the credit of the player's row, or neither.
AnswerWrite(r) ==
    LET u == req[r].user
        i == req[r].snap.session.index
    IN
    /\ At(r, {"answer"}, "answerWrite")
    /\ IF u \in players
       THEN /\ answers' = [answers EXCEPT ![u][i] = @ + 1]
            /\ answersCount' = [answersCount EXCEPT ![u] = @ + 1]
            /\ answered' = answered \cup {u}
            /\ Goto(r, "count")
       ELSE Finish(r, "refused") /\ UNCHANGED <<answers, answersCount, answered>>
    /\ UNCHANGED <<session, expired, spectator, players, hostFlag, answerLocks,
                   concluded, xp, sweep>>

AnswerCount(r) ==
    /\ At(r, {"answer"}, "count")
    /\ IF AllAnswered(Contenders(req[r].spect, players, hostFlag), answered)
       THEN Announce(r) ELSE Finish(r, "ok")
    /\ UNCHANGED <<session, expired, spectator, rowVars, gameLog, sweep>>

-----------------------------------------------------------------------------
(* concludeRound: any client may ask for it when its own clock runs out.    *)

TimeoutLoad(r) ==
    /\ Begin(r, "timeout", NoUser, NoUser, "conclude")
    /\ UNCHANGED <<session, expired, spectator, rowVars, gameLog, sweep>>

Conclude(r) ==
    /\ req[r].pc = "conclude"
    /\ req' = [req EXCEPT ![r].pc = "rank", ![r].snap = Read]
    /\ UNCHANGED <<session, expired, spectator, rowVars, gameLog, sweep>>

\* The rank of every contender read is updated, then ROUND_END is broadcast;
\* a row deleted since makes its update, and the handler, fail.
ConcludeRank(r) ==
    LET seen == req[r].snap
        ranked == Contenders(spectator, seen.players, seen.hostFlag)
    IN
    /\ req[r].pc = "rank"
    /\ IF ranked \subseteq players
       THEN concluded' = concluded \cup {seen.session.index} /\ Finish(r, "ok")
       ELSE Finish(r, "refused") /\ UNCHANGED concluded
    /\ UNCHANGED <<session, expired, spectator, rowVars, answers, answerLocks, xp, sweep>>

-----------------------------------------------------------------------------
(* advanceToNextRoundOrFinish: any client, whatever the status.             *)

AdvanceLoad(r) ==
    /\ Begin(r, "advance", NoUser, NoUser,
             IF session.index + 1 < TotalQuestions THEN "advance" ELSE "podium")
    /\ UNCHANGED <<session, expired, spectator, rowVars, gameLog, sweep>>

AdvanceIndex(r) ==
    /\ At(r, {"advance"}, "advance")
    /\ session' = [session EXCEPT !.index = req[r].snap.session.index + 1]
    /\ Goto(r, "reset")
    /\ UNCHANGED <<expired, spectator, rowVars, gameLog, sweep>>

AdvanceReset(r) ==
    /\ At(r, {"advance"}, "reset")
    /\ answered' = {}
    /\ Finish(r, "ok")
    /\ UNCHANGED <<session, expired, spectator, players, hostFlag, answersCount,
                   gameLog, sweep>>

\* The best score wins, nobody when a duel is even; scores are not modelled.
AdvancePodium(r) ==
    LET seen == req[r].snap
        ranked == Contenders(spectator, seen.players, seen.hostFlag)
        winners == CASE ranked = {} -> {NoUser}
                     [] Cardinality(ranked) = 2 -> ranked \cup {NoUser}
                     [] OTHER -> ranked
    IN
    /\ At(r, {"advance"}, "podium")
    /\ \E w \in winners :
         session' = [session EXCEPT !.status = "FINISHED", !.winner = w]
    /\ IF ranked = {} THEN Finish(r, "ok")
       ELSE req' = [req EXCEPT ![r].unpaid = ranked, ![r].pc = "pay"]
    /\ UNCHANGED <<expired, spectator, rowVars, gameLog, sweep>>

\* awardMultiplayerXp: one transaction per ranked player, in any order.
Pay(r) ==
    /\ req[r].pc = "pay"
    /\ \E p \in req[r].unpaid :
         /\ xp' = [xp EXCEPT ![p] = @ + 1]
         /\ IF req[r].unpaid = {p} THEN Finish(r, "ok")
            ELSE req' = [req EXCEPT ![r].unpaid = @ \ {p}]
    /\ UNCHANGED <<session, expired, spectator, rowVars, answers, answerLocks,
                   concluded, sweep>>

-----------------------------------------------------------------------------
GameStep(r) ==
    \/ LeaveCancel(r) \/ LeaveLobbyDelete(r) \/ LeaveChooser(r)
    \/ LeaveGameDelete(r) \/ Reread(r) \/ LeaveCount(r) \/ LeaveForfeit(r) \/ LeaveAbandon(r)
    \/ LeavePromoteRow(r) \/ LeavePromoteSession(r) \/ LeaveCheck(r)
    \/ KickDelete(r) \/ KickCount(r)
    \/ AnswerGuard(r) \/ AnswerLock(r) \/ AnswerRead(r) \/ AnswerWrite(r)
    \/ AnswerCount(r) \/ Conclude(r) \/ ConcludeRank(r)
    \/ AdvanceIndex(r) \/ AdvanceReset(r) \/ AdvancePodium(r) \/ Pay(r)

GameCall(r, u) ==
    \/ LeaveLoad(r, u)
    \/ \E v \in Users : KickLoad(r, u, v)
    \/ AnswerLoad(r, u)

AnonymousCall(r) == TimeoutLoad(r) \/ AdvanceLoad(r)
=============================================================================
