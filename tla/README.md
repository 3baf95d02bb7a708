# Kanto backend: specifications, model checking and proofs

TLA+ specifications of the server of the Kanto application (`src/src`, a NestJS
server over PostgreSQL through Prisma, Redis and Socket.IO, run on several nodes).
The project models the parts whose correctness depends on the order of concurrent
steps: the multiplayer games, the registration for events and their rewards, the
referral programme, the progress of a user (XP, levels, coins, streaks), the
contributions and their moderation, accounts and friendships, the e-mails and the
beta programme that sends them, the sockets of the players, and the Redis connections
and cron locks of the nodes.

Paths below are relative to `src/src/`. `m.service` stands for
`games/multiplayer/multiplayer.service.ts`, `gateway` for
`realtime/realtime.gateway.ts`.

Contents: 1 the system, 2 how code becomes actions, 3 the modules, 4 the runs,
5 fairness, 6 what TLC refutes, 7 the proofs, 8 what is not modelled, 9 the plan.

## 1. The system

### Parts, state, operations

| Part | State it keeps | Operations | What makes it correct |
|---|---|---|---|
| multiplayer games (`m.service`, `gateway`) | `duel_sessions`, `duel_players`, `duel_answers`; Redis keys `duel:spectator:CODE`, `duel:lock:ans:CODE:user:index`; XP transactions | join, start, decline, theme, delegate, spectator toggle, read, leave, kick, answer, conclude, advance | one start per room; a duel stays between two users; the last answer is noticed; a survivor wins; no credit without an answer; XP only for a finished game |
| realtime gateway | sockets by user and room, grace timers, in the memory of one node; Redis channels between nodes | socket messages, disconnection, reconnection, broadcasts | a departure is processed once, after the grace period, and not when the player is back |
| expiration cron (`multiplayer-expiration.scheduler`) | none of its own | find lapsed lobbies, close them | closes lobbies, and never a game that has started |
| Redis link (`infrastructure/cache/redis.service.ts`) | per node: two connections, `isReady`, subscriptions | get, set, del, subscribe; fallback without Redis | never uses a connection it knows to be lost; comes back after an outage |
| events (`events/events.service.ts`) | `events` with `currentParticipantsCount`, `event_participations` with the waiting list | participate, cancel, administrator's cancellation, submit progress, change status, delete | capacity; the counter counts; the waiting list is served; history is kept |
| event rewards (same file) | `event_rewards.claimsCount`, `event_reward_claims` | award on completion, distribute to the leaderboard | one claim and one payment per winner; the cap on winners |
| event life-cycle cron | none | activate, complete by date | scheduled events start |
| referral (`referral/referral.service.ts`) | `referrals`, configuration | claim a code, retry, complete, recover | one referrer for life; one welcome bonus; the cap; no cycles; pending referrals complete |
| cron locks (four schedulers) | one Redis key per job | acquire, work, release | at most one node works; what is due is done |
| progression (`progression/progression.service.ts` and every other writer of `user_progress`) | `user_progress`, `xp_transactions`; `user_badges`, `encouragements`, Redis marks of the day | login, award, synchronise, replace, adjust, pay a game, a play, a quiz, a challenge, an approval, unlock a badge | XP is explained by the ledger; a level is paid once; a streak counts days of logins; one payment per key |
| contributions (`contributions/contributions.service.ts`) | `contributions`, votes, comments, the catalogue | create, submit, update, screen, validate, remove, vote, comment, confirm a duplicate, dispute, resolve, purge | the score is the sum of the votes, given by accounts that exist or existed; the wording of what is reviewed was screened; replies stay flat; nothing is purged before its countdown |
| accounts (`users/users.service.ts`, `admin/admin-users.service.ts`, `modules/moderation/moderation.service.ts`, `vip-expiration.scheduler.ts`) | `users` with role, status, ban, deletion date, tier; sessions | request a deletion, reactivate, purge, ban, sanction, change role or tier, remove; the VIP job | a ban holds; only what is due is purged; no tier beyond what was granted |
| friends (`friends/friends.service.ts`, blocks in `users.service.ts`) | `friendships`, `user_blocks` | request, accept, refuse, cancel, remove, block | both friends wanted it |
| e-mails (`integrations/resend/`) | `email_logs` with a status and a history of events, `suppressions` | send, with an idempotency key; the administrator's retry; webhooks of the provider; removal of an exclusion | the log tells what the provider reported, and nothing twice |
| beta testers (`beta-testers/`) | `beta_testers` with a status by platform, the automation settings | register, change platforms, unsubscribe, invite (one, again, in bulk, on approval), announce, change status, remove | recorded as invited only once mailed; who leaves gets a confirmation |
| decks, solo games, module locks, items, notifications, contents, adapters | their tables | see `PROJECT.json` | section 8 |

### How the parts interact

* The gateway calls `m.service` for each socket message, and chains
  `concludeRound` after an answer, a departure or a kick that reports that
  everybody has answered. HTTP controllers call the same service, so two handlers of
  one game run at once, on one node (they interleave at every `await`) or on two. `POST answer`
  and `POST :code/leave` (`multiplayer.controller.ts` 43 and 76) return that report to the client
  and conclude nothing, the grace timer (gateway 307) drops it: the round then waits for the clock of a client.
* Handlers share only the database and Redis. Nearly all of them read rows, decide,
  then write *by id*; the exceptions, which are what the properties that hold rest on, are
  `updateMany` filtered on a status, unique keys, increments, and the row lock of an
  update in a transaction.
* Transactions are at PostgreSQL's default, READ COMMITTED: a check inside one does
  not protect it against another.
* `progressionService.awardXp` opens a transaction of its own. Called inside
  another one it commits at once, whatever becomes of the caller's.
* An operation of the beta programme awaits `sendEmail` in the middle: it writes before and
  after it, what it decided on may have changed meanwhile, and the provider calls back on its own.
* Cron jobs run on every node, under a key set in Redis; they use the same services.
* Nodes exchange broadcasts over Redis channels.

### What is hard

Interleavings of handlers between a read and the write it decides (everywhere);
partial failures (a start refused after its lock, an inner transaction that survives its
caller's rollback); retries of clients; time limits, deadlines and crons racing
with handlers; outages of Redis and crashes of nodes; long sequences of legal calls
(waiting-list numbers, inherited spectator key). The list, line by line, is
`hazards` in `PROJECT.json`.

## 2. How code becomes actions

* **A request** is a record: its operation, its caller, `pc`, and the values its
  locals hold (`snap`, `row`, `seen`...). It takes **one step per awaited query**;
  between two steps everybody else may move. The first step (`...Load`) is the first
  query with the early returns that follow it. `Requests` bounds the number of
  requests; each runs once. When one returns, its locals are reset.
* **A transaction** at READ COMMITTED reads step by step, and its writes appear in the
  step that commits them. Rows it has written are *held* until then: another writer
  waits (`Free`, `Holder`). Unique keys make the second insert fail.
* **A stale snapshot** is explicit: `seen == req[r].snap`. A guard on `seen` is a
  check on a value read earlier; a guard on the variable itself is a filter inside
  the query.
* **Redis keys** with a time to live are in a set, and an environment action lets
  them lapse.
* **Consecutive reads that nothing separates but reads of other data** are merged
  where noted: the spectator key and the answer lock in `AnswerGuard`; the spectator key
  and the update after it in `StartCheck`, `ConcludeRank`, `AdvancePodium`; the DEL of a key
  folded in the update before it; the reads and the update of `updateEventStatus`; the walk
  of `detectReferralCycle`, one query per ancestor. It sees `MaxDepth` ancestors, 50 in the code.
* **Data** is reduced to what the properties tell apart. Scores, ranks, question
  contents, codes, row ids and texts are left out; "the best score" is a choice
  among the ranked players. Progress is 100 % or less. Rewards are XP paid or not.
* History variables record what the database forgets: `ahead` (who has waited longer) in
  `EventRegistration`, `lost` (whose claim was rolled back) in `EventReward`, `gone` (the votes that
  went with accounts) in `Contribution`, `extra` (coins given for something else than a level) in `Progression`.

## 3. The modules

| Module | Models | Actions and code |
|---|---|---|
| `DuelStore` | the rows, keys and requests of one game | `StoreInit`: `createGame`. Session, players, answers: the Prisma models; `Contenders`: the filter on `isHost` and the spectator key |
| `DuelLobby` | `m.service` lobby handlers | `Join*` `joinGame` 944-1138; `Start*` `startGame` 1172-1317; `Decline*`, `Theme*`, `Delegate*`; `ToggleSpectator` (gateway); `StateLoad`, `ExpireOnRead`; `SweepFind`, `SweepClose` `expirePendingSessions` 2511-2574 |
| `DuelGame` | handlers of the running game | `Leave*` `handlePlayerLeave`; `Kick*` `kickPlayer`; `Answer*` `submitAnswer` 1383-1679; `Conclude*` `concludeRound`; `Advance*`, `Pay` `advanceToNextRoundOrFinish` and `awardMultiplayerXp`; `Announce` what becomes of the report that everybody has answered: the gateway concludes, a REST route or a grace timer does not (`told`) |
| `DuelSession` | composition of the three, `Next`, fairness, properties | `Spec` from the creation, `GameSpec` from a game just started with everybody in it |
| `EventRegistration` | one event, its participations, its administrators, its cron | `Participate*`, `Register`, `Reactivate`, `Wait*` `participateInEvent` 317-588; `Cancel*`, `AdminCancel*` 594-710 and 1877-1904; `Progress*` `submitProgress` 715-785; `UpdateStatus`, `DeleteLoad`, `Archive`, `Delete`; `Cron*` of the life-cycle scheduler |
| `EventReward` | one reward | `Check`, `CreateClaim`, `Pay`, `Commit`, `RollBack`: `awardSingleReward` 844-943; `Complete` its call in `submitProgress` 807-839, `Distribute` `distributeRewards` 1434-1482 |
| `Referral` | the referrals of all users | `Claim*`, `Retry*` `claimReferral` 515-873; `Complete*`, `PayReferrer`, `PayReferee` `executeCompleteReferral` 878-1097; `UpdateConfig`; `Age`, `RecoverFind` the recovery scheduler, `Worker` its sequential completions |
| `SeatAllocation` | what the registration promises, abstractly: people seated and people who wait | `Seat`, `Wait`, `Leave`, `HandOver` (a seat goes to somebody who waits in the step that frees it), `GiveUp`. `EventRegistration` implements it when requests come one after the other (`ImplementsSeatAllocation`: the occupying participations are the seated, `Waitlist` those who wait), which TLC checks and section 7 proves |
| `Progression` | the row `user_progress` of one user, the ledger, and its writers | `Login*` `recordDailyLogin` 61-262, `LoginBeside` its coins for the streak and the multiplier; `Award*` `awardXp` 487-681, called by `EncourageCall` and `SyncCall`; `GameWrite` `awardMultiplayerXp`; `PlayWrite` the payment of a deck; `AdjustWrite`, `CoinsWrite` the administrator; `Gift` the coins of a referral (`referral.service` 613, 748, 959, 987) or of an event's reward (`events.service` 895); `Replace`; `Finish*`, `Daily*`, `SoloPay`, `SoloRecord` quiz and daily challenge; `Approve`, `Ensure`; `Badges*`, `BadgeUnlock` `badges.service` |
| `Contribution` | one contribution, its votes, comments and disputes | `Create`, `Submit*`, `Update*`, `Screen` (`processSubmissionModeration`), `Validate*`, `Remove*`, `Vote*`, `Comment*`, `Uncomment*`, `Confirm*`, `Dispute*`, `Resolve*`, `Purge*` (every thirty minutes), `Depart` `user.delete` with its cascades, `Crash` |
| `UserStore` | rows and requests of accounts and friends | `DeleteUsers`: what refers to a user goes with him |
| `Account` | life of an account | `Delete*`, `Reactivate*`, `CancelReactivation`, `Login*` (better-auth, external), `Ban*`, `Unban*`, `Sanction*`, `Role*`, `Remove*`, `CountAdmins`, `Tier*`, `Vip*` (job), `Purge*` |
| `Friends` | friendships and blocks | `Send*`, `Accept*`, `Erase*` (refuse, cancel, remove), `Block*`, `Unblock` |
| `Community` | composition of `Account` and `Friends` over `UserStore`, the clock, properties | `Spec`, `FairSpec` |
| `DuelPresence` | the sockets of the players of a game, the grace period of eight seconds in the memory of each node, the departure at its end | `Connect`, `Authenticate`, `Disconnect` `handleConnection` and `handleDisconnect` (gateway 220-333); `JoinSeat`, `JoinAttach`, `Reconnect` `handleDuelJoin` and `handleDuelReconnect` 608-735; `LeaveLoad`, `LeaveWrite`, `Detach` `handleDuelLeave` 1196-1291; `TurnsAway` the same messages about another game, which overwrite or delete the one `duelCode` of the socket (513, 630, 713, 1218); `ExpireLoad`, `ExpireWrite` the timer and `handlePlayerLeave`; `HttpJoin`, `HttpLeave`, `Kick`; `NodeStops` also `onModuleDestroy` |
| `Emails` | one handler of a mail at a time, their rows and the provider | `Invoke`, `CheckSuppression`, `Bar`, `CheckKey`, `CreateLog`, `Deliver`, `Record*` `sendEmail`; `Retry*` `retryEmail`; `Hook*` `handleWebhookEvent`; `Unsuppress`; `Wait`, `Cool` the clock; `Provides` the provider (external), which accepts, refuses or accepts without an answer |
| `BetaProgram` | the testers, over `Emails` | `Register*`, `Platforms*`, `Unsubscribe*`, `Resend`, `InviteOne`, `BulkInvite`, `Notify`, `Status*`, `Mark`, `RemoveTester`, `Configure`; `SendNext`, `Mailed`, `RecordInvite` the mails of an operation and what follows each; `Crash` |
| `RedisLink` | the two connections of each node | `ClientLost/Retry`, `SubLost/Retry`: the event handlers and `retryStrategy` of `redis.service.ts`; `Boot`: `onModuleInit` and the gateway's subscriptions |
| `CronLock` | `RedisLink` with the lock of the cron jobs | `Acquire`, `Work`, `Release`, `Crash`, `Lapse` |
| `MC...` | instances for TLC | constants, symmetry. `MCNodes` runs `CronLock` and `DuelPresence`, `MCBackOffice` runs `EventReward`, `Emails` and `BetaProgram`, side by side: the parts share no variable, and a behaviour is that of the one part its initial state names |
| `..._proofs` | theorems | section 7 |

`DuelSession` composes `DuelLobby` and `DuelGame` over `DuelStore`; `Community`
composes `Account` and `Friends` over `UserStore`; `BetaProgram` composes the
operations on testers with `Emails`; `CronLock` composes the jobs with `RedisLink`. Events and rewards are two modules because they
share no row: a reward reads of its event only what a completion or the leaderboard
gives it. `PROJECT.json` maps each definition to the lines it translates.

The operators marked "plausible bugs" are mutated forms of definitions. No
specification uses them; each shows that a property notices one mistake.

Points where a model departs from the code, and why it does not matter here:

* **Duel.** `createGame` is the initial state; the number of questions does not change.
  A promotion takes any remaining row where the code takes the eldest. `Pay` has one
  step per player in any order. The environment lets an answer lock lapse at any time
  (its time to live is five seconds). After the deadline, `Lapsed` is what
  `expiresAt < now` tells. Who called a handler (a socket message, a REST route, a timer) matters only for
  `Announce`, which leaves it open: a departure or an answer that finds the round complete may conclude it or be `told`.
* **Events.** `updateEvent` and the VIP tier check are left out: they change or
  filter what is constant here. The clock has three values, before, during
  and after the event. `ProgressWrite` chooses whether the submission completes.
* **Reward.** Only the XP type. `submitProgress` continues after an error of one
  reward (`Fail`), a distribution ends.
* **Referral.** Coins are written in the referral's own transaction and only flags of the
  row show them. The referrer's XP is positive. `REJECTED` and `EXPIRED` are
  never written by the code.
* **Progression.** One user and one badge. XP is in units (100 XP in the instance) and the
  table of levels is finite. The encouragement is seen from the side that gives it. The configuration of the coins
  is read in each login (`Economies`: any of them, paused or not); its multiplier is a whole number, and in the instance
  a streak of two days stands for one of seven. `Gift` is the increment of coins when its transaction commits; the XP beside it
  is an award that committed before. Multiplayer games have a scale of coins of their own, which
  `LevelPaidOnce` sets apart. The Redis guards of a play are left out: `PlayWrite` is the
  payment, whatever let the play through. The riddle pays in the same two statements as the civic quiz. The rows of
  single games, the notifications that follow an award, the reset scripts and the deletion of the row with its user are left out.
* **Contribution.** A content is a version number with a `Wording`: two versions of one wording differ in their region,
  which the screening is given as well but whose change does not start it (`textChanged`, 1733). The verdict of a detector is
  a fact about the version it was given. `Depart` deletes any account at any time, whoever decided it; whether an approved
  contribution stays (the purge of accounts gives it to the archive) or goes is a choice. `createKabary`, `createProverbe`, `createCitation` and
  `createConte` have the shape of `create`. "Within 48 hours" is a choice. A vote
  row that was deleted and created again counts as the same row. Audit and notifications are left out.
* **Community.** The files, archives and e-mails of a purged account, the password check and
  the audit log are left out. `purgeScheduledDeletions` has no caller in the
  repository: a request stands for the operator who would run it. One unit of time is each of
  the delays of the code.
* **Presence.** The status of the session moves by itself, along the moves that `DuelSession`
  allows. `client.join` is no real wait with the adapter in memory, so that an attachment is one
  step; a socket has one message handled at a time. A departure over HTTP and a kick are atomic here.
  Nothing is observed after the end of the game. `excused` are those of whom the code loses track
  for a reason that is named where it happens: who joined or created over HTTP without a
  socket, whose handler ended on a lost socket, who left in READY or STARTING, whose session was not
  known in time, whose socket turned to another game, or whose query or node failed. A socket that turns away stays in
  the room of this game, as in the code; the other game is not modelled.
* **Mails.** Mails are known by address, template, key and `bypass`; the provider's ids are
  numbers. `fates` of an accepted mail are the sets of events that it may report, at least once and
  in any order. The simulation without a provider, the quotas and the texts are left out.
* **Beta programme.** Encryption matters only where the code searches in clear what it stores
  encrypted (`register`). Groups, versions, feedback and bug reports are left out.
* **Redis.** ioredis is external and modelled from its use: a lost connection is
  retried after a delay, three times, then ended. One channel stands for all.
  `ServerReturns` waits until every node has noticed the outage. A job does not overlap with
  itself on one node: a job lasts less than its period, and its key is what would
  otherwise be relied upon.

## 4. The runs

"States" are distinct states. Every passing run explores its whole state space.

| Run | Instance | Properties | Shows |
|---|---|---|---|
| `duel_lobby` | room, 3 users, 3 requests of all lobby operations, sweep; 102 246 states | `OneStart`, `LockIsKept`, `SweepSparesStartedGames` | the filtered `updateMany` makes one start win, and neither a concurrent leave, decline or join nor the cron puts the lobby back |
| `duel_1v1` | duel with a challenged user and a stranger, 3 requests, fairness; 316 466 | `DuelPrivate`, `LapsedLobbyCloses` | nobody else gets a row; a lapsed lobby is closed by whoever reads it or by the cron |
| `duel_game` | started game of 3 users, 2 questions, 3 requests of all operations of the game, each by socket, REST or timer; 786 094 | `NoCreditWithoutAnswer`, `PaidWhenOver`, `SurvivorWins`, `LastAnswerConcludes` | answers, kicks, departures and advances that cross neither credit without an answer nor leave a game that nobody concludes; a complete round is concluded, or was seen by a caller that leaves it open |
| `event_serial` | 6 requests one after the other, 1 seat, 1 waiting place; 7 848 | `ImplementsSeatAllocation`, `HistoryIsKept` | the sequential algorithm allocates seats as `SeatAllocation` says: within capacity, waiting only when full, a freed seat handed over at once (to whom: section 6); what section 6 breaks of that is due to races |
| `event_open_access` | open event, 2 users, 3 concurrent requests, cron, administrator; 185 355 | `CounterMatches`, `ScheduledStarts` | the unique key keeps the counter when registrations and implicit participations cross; a scheduled event starts |
| `back_office` | *reward*: 3 concurrent distributions to the first three, without a cap on the winners, and rollbacks. *mails*: a mail with a key, then a retry, a second send, a webhook or the removal of an exclusion, and another webhook. *testers*: a registration, change of platforms, departure or new invitation, crossed by one operation of a tester or administrator; 2 addresses, 2 rows, one fault, fairness; 244 463 | `ClaimsCounted`, `PaidPerClaim`, `HistoryTruthful`, `InvitedWasMailed`, `UnsubscribeAcked` | one claim, one count and one payment each, but for the payments of rolled back claims; the log of a mail stays true under repeated and late webhooks; a tester recorded as invited was mailed; who leaves gets his confirmation |
| `referral_claims` | 3 users, 3 concurrent requests, recovery, fairness; 373 749 | `WelcomeOnce`, `ReferrerIsForLife`, `PendingCompletes` | claims with one code or two, retries and completions that cross give one referrer and one bonus; the cron completes the rest |
| `referral_serial` | 4 requests one after the other, immediate completion, configuration changes, rollbacks; 335 220 | `RewardsCapped`, `NoCycle`, `RecordedMeansPaid` | the sequential algorithm respects the cap and the chain, and records only what it paid |
| `nodes` | *jobs*: 2 nodes, an outage of any length, a cut, errors of the subscriber, a crash, fairness. *sockets*: two sockets of one player, on one node or two, which may turn to other games, one fault; 925 115 | `DueIsDone`, `AbsentIsWatched` | as long as one node gets through in the end, the work is done whatever was left behind; a seated player without a socket is in his period of grace or leaving, however sockets are lost, replaced and answered late, but for those whom the code loses in one of the named ways |
| `progression` | 3 requests, two of any operation, one login, award or check of badges; 2 days, the coins paused or doubled; 741 193 | `XpExplained`, `StreakTruthful`, `PaidPerKey`, `LevelPaidOnce` | lost updates only ever take from the user: he never has XP or coins that nothing explains, and no level is paid twice |
| `contribution` | 3 requests that share all operations, 3 contents in 2 wordings, 2 days, the purge, crashes, the deletion of two of three accounts, fairness; 892 038 | `ScoreIsVotes`, `ScreenedBeforeReview`, `RepliesAreFlat`, `PurgedAfterCountdown`, `ExpiredIsPurged` | votes, threads, screening and countdown survive every crossing but those that the properties except and section 6 names |
| `community` | an administrator and a user, 3 requests, 3 days, the VIP job; 75 205 | `TierWithinGrants`, `FriendsAreWilling`, `ExpiredVipEnds`, `PurgedWhenDue`, `BanHolds` | what one operation decided is not undone by another that had read the row before |

**Bounds.** Races of this code are between two handlers, and a third puts a change
between two queries of one of them: three requests reach all of those, on three
users (one who leaves, one who is promoted or overtaken, one who remains). Two
questions give a middle and a last round. One seat and one waiting place make every
registration hit a limit; six serial requests fill, cancel, promote, return and
delete. A cap of one reward is reached by one referral and exceeded by the next.
Two nodes are what exclusion and recovery are about. In `community` three days, with delays of one,
give a date before, on and after each expiry; in `progression` and `contribution` two give a midnight between two
steps, a streak that grows and a countdown that ends. Three contents give an edit of the wording, one of the region
alone and one of nothing. Counters need no bound: requests
run once. `MaxOutages`, `MaxCuts` and `MaxCrashes` bound the environment, the theorems of
section 7 do not need them. With `MaxDepth` 2 a cycle through all three users is one
that the walk sees. Symmetry (of requests, and of users without a role) is
used only where no liveness property is checked. The player observed in `DuelPresence` is any player: the others only
move the status. One accepted mail that is sent and bounces, with one webhook handled twice or two that
cross, is what the order of statuses is about; one fault reaches each error path, and
`Exposed` names the request that meets it.

Deadlock checking is off in all runs: once every request has been sent and has returned the
system has nothing more to do.

## 5. Fairness

* Handlers: `WF(Step(r))`. Node's event loop resumes a handler when its query is
  answered. Clients are never obliged to send anything: no `Call` is fair.
* Crons: weak fairness of their steps; Nest's scheduler fires them every minute,
  ten or fifteen minutes for ever. That a node gets through its lock is the matter of
  `CronLock`, and its condition is the hypothesis of `DueIsDone`.
* `PurgeFind` and `PurgeDelete` of contributions (an interval of thirty minutes) and the VIP
  job (every night) are weakly fair; the purge of accounts is not, nothing runs it.
* Beta programme: `WF(Step(r))` in its part of `back_office`, for the event loop; the provider
  answers or loses its answer. Webhooks, calls, faults and crashes are never fair.
* Time: `DeadlinePasses`, `Age`, `Lapse` happen. The clock of an event (`Tick`) is
  not fair: `ScheduledStarts` starts when the date has passed.
* Redis: it is restarted when it stops (`restart: unless-stopped`), nodes notice dead
  connections, timers of retries fire. Cuts, errors, crashes, rollbacks are never fair.

`PendingCompletes` and `LapsedLobbyCloses` do not depend on clients: the cron alone does it.

## 6. What TLC refutes

These statements of comments and tests are in the modules and false of the code.
To see one, change a cfg of the same module as told and check the property; `n` is the
number of requests. The traces are short.

| Property | Instance | What happens | What the repository says |
|---|---|---|---|
| `OneAnswerPerQuestion` | `duel_game`, n = 2, Ops answer | two submissions of one player read the answer lock before either sets it, and both insert | "Verrou éphémère anti-doublon" (`m.service` 1461) |
| `CancelIsFinal` | `duel_lobby`, Ops start leave join | a start that reads the closed lobby past its deadline, or that had read it before, writes over the status | "fermeture immédiate et irrévocable" (`m.service` 2035) |
| `RoomCapacity` | `duel_lobby`, MaxPlayers 2, n = 2, Ops join | two joins count the same rows | "limite absolue de 5 joueurs même lors d'arrivées concurrentes" |
| `StartsWithTwo` | `duel_lobby`, Ops join start leave | players are counted on rows read before the lock; one has left | "au moins 2 vrais joueurs actifs" |
| `NeverStartedCloses` | `FairSpec`, n = 1, Ops start | a start refused after its lock leaves STARTING, which nothing closes | "clôture automatique des salons non démarrés" |
| `LastAnswerAlwaysConcludes` | `duel_game`, Ops answer | `POST answer` returns `allAnswered` to the client and concludes nothing; so do `POST :code/leave` and the grace timer (gateway 307) | the socket messages do (gateway 1011) |
| `SoleContenderWins` | `GameSpec`, n = 1, Ops leave | the promoted player inherits the spectator key and is no contender | the last player wins (2038) |
| `Capacity` | `event_serial`, Serial FALSE, n = 2, Ops participate | both read a free seat | `events.service.spec.ts:287` |
| `WaitingMeansFull` | the same, n = 3, 2 users, Ops participate cancel | a seat is freed between the read and the entry in the waiting list | "dès qu'une place se libère" (513) |
| `PromotionTakesTheSeat` | n = 5, 2 seats, Ops participate cancel | a double cancellation promotes two | "une place se libère et une autre est attribuée" (662) |
| `WaitlistIsFair` | Serial TRUE, n = 6, no waiting limit, Ops participate cancel | numbers repeat after a promotion, and `createdAt` of a returning user is old | "le premier participant de la liste d'attente" (592) |
| `HistoryIsKept` | n = 2, Ops participate delete | a registration between the count and the delete | "préserver l'historique" (1753) |
| `CancelledStaysCancelled` | n = 1, from SCHEDULED, Ops status clock cron, status CANCELLED | the cron updates by id what it found before | `event-lifecycle.scheduler.ts:48` |
| `CompletionIsKept` | n = 3, open, from ACTIVE, Ops progress | a late submission writes a lower progress | "idempotent" (713) |
| `OnlyRegisteredPlay` | Serial TRUE, n = 3, from ACTIVE, Ops participate progress | progress of a waiting user makes it IN_PROGRESS | "inscription préalable requise" (761) |
| `WinnersCapped` | `back_office`, MaxWinners 1 | the cap is compared with the counter read with the event, before the loop | `maxWinners` (862) |
| `PaidOnce` | `back_office`, Criteria completion, Ops complete rollback | the inner transaction has committed, the outer is rolled back, the retry pays | "atomique et idempotente" (842) |
| `ReferrerPaidOnce` | `referral_claims` with `Spec`, MaxRewards 2, Ops claim complete | two completions read PENDING | "verrouillage", "idempotence absolue" (891, 910) |
| `RewardsCapped` | the same, MaxRewards 1, n = 4 | two completions count the same rows | `referral.service.spec.ts:479` |
| `NoCycle` | the same, n = 2, Ops claim | two claims cross | "anti-cycles" (513) |
| `WelcomeOnce` | activity required, FirstConfig NoBonus, n = 3, Ops claim config serial | the catch-up pays the XP and records it only with coins | "rattrapage sécurisé" (599) |
| `BonusHasReferral` | n = 1, Ops claim rollback | the inner transaction survives | "transactionnel" (513) |
| `Exclusive` | `nodes` without adversities | both nodes set the key: it is a plain SET, which succeeds on a key that exists | "verrou distribué Redis pour éviter les concurrences multi-instances" (`multiplayer-expiration.scheduler.ts:20`) |
| `ReadyAgain` | `nodes`, 1 cut, SubErrors TRUE, nothing else | an error of the subscriber clears `isReady` and only the command connection sets it | the fallback is for an unreachable server (`redis.service.ts:65`) |
| `ReadyListens` | `nodes` without adversities | the command connection is up after the subscriber: nobody subscribes | the log of `realtime.gateway.ts:196` |
| `SourcePaidOnce` | `progression`, n = 2, Calls sync | both look for the source's transaction before either has written it | the skip of `progression.service` 286-293 |
| `DisputedIsKept` | `contribution`, `Spec` | a dispute between the search and the delete by id | "Ne jamais supprimer si une contestation est en cours d'examen" (2458) |
| `ApprovedIsKept` | the same | a removal that had read DRAFT deletes what was approved since | archived, not deleted (1843) |
| `ApprovedTextFixed` | the same | an author's update checked before the approval | 1698 |
| `OnlyApprovedVoted` | the same | a vote that has read APPROVED | 944 |
| `DuplicatesUncommented` | the same | a comment that was let in before the confirmation | 1938 |
| `ScoreIsTheSum` | the same | `user.delete` takes the votes of the account along and leaves the score | 960-1000 |
| `AllScreenedBeforeReview` | the same | an author changes the region of what awaits review: `textChanged` does not look at it | the region is given to the screening (1757) |
| `ApprovedIsPublished` | the same | an accepted dispute writes APPROVED for what was never published | 2371 |
| `ScheduledIsPurged` | `community`, `FairSpec` | nothing calls the purge | "entrera en suppression définitive dans 30 jours" (`users.service` 991) |
| `SuspendedIsOut` | the same | the suspension sets the date of a ban and not the ban: a login succeeds | `moderation.service.ts:213` |
| `BannedForEver` | the same | a later suspension gives the ban a date, and it lapses | "Bannissement définitif" (254) |
| `TierKept` | the same | the job demotes by id what an administrator has extended | `vip-expiration.scheduler.ts:142` |
| `BlockedIsApart` | the same | a request read before the block is created after it | 1240 |
| `ReactivatedIsKept` | four requests: delete, purge, login, reactivate | the purge had found the account | "Vous pouvez annuler cette démarche à tout moment" (995) |
| `AdministratorRemains` | FirstAdmins both users, two requests: remove, role | each counts two administrators and takes away the other | `admin-users.service.ts:335` |
| `RemovedIsApart` | five requests: two `send`, two `accept`, `unfriend` | a pair may have two accepted rows, and one is removed | "retrait mutuel" (`friends.service` 424) |
| `KeyIsSentOnce` | `back_office`, `Mails` | the provider's answer is lost and the row says FAILED; the next send of the key finds no success, cannot create a second row, and sends without one (two sends at once do the same) | "prévention des doublons" (`resend.service` 342) |
| `BounceIsFinal` | the same | status and events are computed from a row read earlier: a late event overtaken by the bounce writes over it | "statut terminal critique qui prévaut" (`resend-webhook.service` 170) |
| `OneRowPerAddress` | `back_office`, `Spec` | when the search by hash fails, the fallback looks for the address in clear where only ciphertexts are; a second row is created, without its hash (two registrations at once do the same) | "Vérification d'une inscription existante" (`beta-testers.service` 111) |
| `DepartedIsLeftAlone` | the same | an invitation that was decided before the departure, or asked for again in public, is sent after it | "aucune sollicitation ultérieure" (`beta-email-dispatcher.service` 45) |
| `PresentStays` | `nodes`, `PresenceSpec` | a reconnection handled before the session is known stops the timer of a guest; an old socket is lost after the new one is attached; the timer is on another node | "Annuler toute grâce de déconnexion en attente pour cet utilisateur" (gateway 632) |
| `LeaverLeaves` | the same | READY and STARTING fall in the default case of the departure: the row stays | "session déjà terminée ou annulée" (`m.service` 2256) |

`DueIsDone` without its hypothesis is false as well: an outage longer than three
retries ends the connections of all nodes for good, every job then takes the key for held.

`Capacity` and `WaitingMeansFull` hold for requests one after the other: `SeatsAreCounted`
proves them (section 7). Where a passing run and a
row above have one property, the passing run is the
instance on which it holds, and the row says what breaks it: `HistoryIsKept`, `RewardsCapped` and `NoCycle` hold for requests
one after the other and not for concurrent ones; `WelcomeOnce` holds for concurrent
ones as long as the configuration does not change; `SurvivorWins` holds without kicks and inherited spectator keys.

## 7. The proofs

All are for every set of users, requests and nodes and every value of the bounds. The
only assumptions are the named `ASSUME`s of the modules, which TLC evaluates on the
instances.

**`DuelSession_proofs`.** `TypeInv` strengthens `TypeOK`: the fields of a request
agree with its step (an acting request has a user; a request about to write `index + 1`
has read an index that has a successor; a start is only at steps of `startGame`). Without it the
type of `session.index` is not inductive. Most actions leave the rows, or the requests' own facts, alone:
one lemma per action (`...Quiet`) gives its effect once, and each later invariant is
proved from them. `RoomLock` says that in a room a request past the
STARTING lock excludes the lobby statuses and any other such request; it is inductive because
joins write a status only for the designated opponent, whom a room does not have. It gives
`OneStartHolds` and `LockIsKeptHolds`. `DuelPair` adds to `DuelPrivate` what requests
carry: a join at its commit is by one of the two, and a promotion's target and
the session's host are among them. `FlagHasAnswer` is inductive with the types.
`SweepSparesHolds` is an action property.

Four theorems are about a game observed from its start (`GameSpec`). `PaidWhenOverHolds`: `StartedInv`
says that no request stands at a point which only a lobby lets it reach, so that nothing revives a
game; `PaidInv` adds that a request about to pay has seen the game over, which is final.
`SurvivorWinsHolds` and `LastAnswerConcludesHolds` have one form: if the game is left to one contender
(or every contender has answered), *some* handler under way will see it. `SeesTheEnd` and `SeesTheRound` name the
steps and what was read at them; a departure that deletes a row is itself that witness, and a handler that read
the rows before another's write hands the duty over to the one that wrote. `HostInv` is needed because a
promotion that begins hands on the spectator key; `FreshInv` says that an answer under way knows the spectators.
A round that a REST route or a grace timer found complete has that caller for its witness (`told`).
Both assume the spectator key away (no `toggle`);
kicks are excluded by the hypothesis of `SurvivorWins` itself. The first needs finitely many users,
since it counts contenders. `NoCreditWithoutAnswerHolds` compares a counter with a sum over
the questions. The sum is a fold, about which nothing can be proved by an induction over data; the
proof builds a function on the finite subsets that satisfies the same equation (`Adds`) by descent along
strict inclusion, which is well-founded on them, with no operator for a parameter (`Descent`), and shows that one answer changes
it by one (`SumChanges`, `OneMoreRow`).

**`BackOffice_proofs`.** *Rewards:* `RewardInv` adds to `TypeOK` and `ClaimsCounted` that the
transaction which holds the reward pays somebody without a claim: the row lock taken before the
insert is what makes the count exact. `PaidInv` relates the payments to claims *and* to the
transaction that has paid and not yet committed; at rest there is none, which is
`PaidPerClaimHolds`. `PaidOnceWithoutRollBack` concludes: if no transaction is
rolled back, nobody is paid twice, so that `PaidOnce` fails for that reason alone.
`ShareInv` bounds the damage of a stale counter: the winners and the requests that read a counter below the cap
are together fewer than `MaxWinners + K` while at most K requests run. `WinnersOvershootIsBounded` follows, and for
K = 1 `WinnersCappedInTurn`. Both are about `completion`, where a request rewards one user. A `distribution` rewards
everybody it finds after one look at the counter, and exceeds the cap alone.
*Mails:* `MailInv` relates each row of the log to what the handlers hold: the events of
a row that was read are a part of what was reported, and a status that only a webhook gives is among the
events that the same write stores. `LogIsTruthful` is `HistoryTruthful` for any number of handlers, mails,
webhooks, failures and crashes. The provider gives an id once: ids are numbers taken in order.
`InvitedWasMailedHolds` follows an invitation from the row of the tester through the list of mails to be sent
(`GoodItem`: its template is that of the platform and its address that of the row, which stays so because an address is
written once and an id is never used again), through `sendEmail` (`Sends`: `sent` only after the provider took the mail,
`barred` only after the row that says so, and `cached` never, since an invitation has no key), to the step that
records it (`Served`). The lists are any order of a finite set of testers, whence the assumption `BetaBounds`.

**`Nodes_proofs`.** *Connections:* `LinkInv`, types and `ReadyMeansConnected`, by the two
kinds of steps (of the links, of the jobs). It is inductive because `isReady` is set only with
`client = Connected`, which only `ClientLost` leaves. *Presence:* `AbsentIsWatchedHolds`, for any players, sockets, servers
and faults. `AbsentIsWatched` counts a socket at any step of a message as one that still looks after its
player; that is not inductive, because a socket at `detach`, where `handleDuelLeave` only leaves the room, does
nothing more for him. `PresenceInv` asks for more (`Minded`): a socket that is attached and idle, that is about to attach,
or that has yet to write the departure; a timer; a departure under way on some server; or that he is
`excused`, one of whom the code loses track in a known way (created or joined by HTTP, a fault, a socket lost before it was attached or turned to another game). A step that ends one of these has either written the departure or started the next. The
assumption `PresencePlaces` says that places are servers.

**`Progression_proofs`.** `TypeInv` is `TypeOK` with what a request under way has read.
`Known` rows are the row and the rows that pending writes read; every bound has to hold of all of them, because
any may be written back. `BackedInv`: no known row has more XP than the ledger and the
unrecorded increments; `ExactInv`: as long as nothing was undone (`lost`), the row has
exactly that, by the lemma `Accounting` on what each write adds. Together they are `XpIsExplained`.
`StreakInv` says of each known row that its streak counts days of logins, `KeyInv` relates payments to
keys and to requests between key and payment, `CoinInv` bounds the coins of known rows by
those of their level and the `extra` ones (`GoodCoins`), of which each login, play and gift says how many it adds. The assumption `CoinTables` says that the tables are the sums that
the loops compute and grow with the level.

**`EventRegistration_proofs`.** Two arguments. `SerialInv` is for requests one after the other
(the constant `Serial`): at most one request acts (`Alone`), what it has read is still true
(`Knows`), and the counter, the capacity and the waiting list are right between requests
(`SeatsRight`). From it every step of the registration is a step of `SeatAllocation` or a stutter, which is
`SeatsAreAllocated`; `HistoryKept` and `SeatsAreCounted` are its other uses. They assume that
`submitProgress` is not among the operations, because it seats people without a look at the
capacity. `CountInv` is for requests that cross, in an event without a waiting list and without
cancellations and deletions: the counter is the number of confirmed participations less those that a
transaction has written and not counted yet (`Uncounted`), which a unique key and the increment keep exact.

**`Contribution_proofs`.** `ContributionInv` adds to the types what requests carry:
comments to be written under (`Targets`) are no replies and never become ones, a countdown is set
before it runs out (`Countdowns`), and as long as no two edits cross and none is cut short, the
one that runs will leave a wording that was screened (`Editors`); `ScreenedBeforeReview` has the same condition. Its four uses are the types, `ThreadsAreFlat`, `ReviewIsScreened` and `PurgeWaits`.
`Voters` is for the votes: as long as no user votes twice at once, the vote that a transaction has read is the one that
the table still has, so that the difference it adds to the score is right although other voters commit in between
(the increment is the database's). A deleted account hands its vote to `gone`, and a vote under way then fails on its missing user. `ScoreIsVotesHolds` is its use, for any finite set of users; the sum is a fold, treated as in
`DuelSession_proofs` (the lemmas are stated again: the modules have nothing else in common).

**`Community_proofs`.** `CommunityInv` adds to the types, `TierWithinGrants` and `FriendsAreWilling` what requests carry
between what they read and what they write. `GoodRequest`: the operation tells the fields and the steps. `Grants`: a date
of a tier that was computed and not yet written is within the grants *as they were read*, to which the days of the request are still to
be added; and the days given are those of requests that are over, without which the dates have no bound and `Later` would be no
type. `Rows`: ids are unique, never used again (`IdsRemain`: there are more of them than rows and requests) and a request
about to accept an id has it of the row that the other user sent; that row may have gone, and then no row has the id. Hence no
acceptance survives a block. `Deletions`: what a purge has found was past its date. Each step is described once from four sides
(`RequestsMove`, `UsersMove`, `GrantsMove`, `TablesMove`), and the conjuncts are proved from these. `UsersMove` is also what
the action properties `BansHold` and `PurgesWait` follow from: nothing but `unbanUser` and the login after the date lifts a ban,
and nothing but a purge and `deleteUser` ends an account. `TypesHold` says more than types: no session, friendship or block is left of
an account that is gone, although requests that looked for it may write after its deletion.

**`Referral_proofs`.** `RefInv`: types, one open transaction per row (`Exclusive`), and what
the referral records is paid or is being paid by the transaction that will record it. It gives
`RecordsArePaid` in every interleaving, where `referral_serial` checks the serial one. `ReferrersAreForLife` needs
`Carried`: the rows that requests hold, and write back later, have the referrer that the table has.
`WelcomeOnceHolds` assumes no `config` and no `rollback`, either of which breaks it: at the first rates no row needs a retry
(`AtFirstRates`), and a bonus that was paid belongs to a row of the table or to a row that a transaction holds.
`RewardsCappedHolds` is the case K = 1 of `OvershootIsBounded`: with at most K requests at once, the rewards
recorded and those granted by a request that has counted and not recorded yet stay below `MaxRewards` + K (`CapInv`).
This says how bad the race of section 6 can be, for any number of users and requests. `NoCycleHolds` is a case of
`NoCycleWithOneWriter`: `CycleInv` says that no walk of `MaxDepth` referrers leads from the
referrer that a claim is about to write to its referee, and is kept as long as one claim at a time is between its
walk and its commit. The code walks 50 referrers: longer cycles are not excluded, by the theorem or by the code.

Some invariants that are proved are not run as well: the types of `DuelSession`, `EventReward`,
`RedisLink`, `Progression`, `EventRegistration`, `Contribution`, `Referral` and `Community`, `FlagHasAnswer`, `ReadyMeansConnected`.

**Only model-checked.** Liveness (`LapsedLobbyCloses`, `ScheduledStarts`,
`PendingCompletes`, `DueIsDone`, `ExpiredIsPurged`, `ExpiredVipEnds`, `UnsubscribeAcked`): out of the prover's reach under fairness.
The properties that section 6 refutes are for TLC as well. Every invariant and every action property that a run checks is stated by a theorem.

## 8. What is not modelled

* **The gateway** beyond the presence: authentication of the handshake, rooms of other
  modules, broadcasts and their delivery between nodes.
* **A crash of a node inside a handler**, except in `CronLock`, `Contribution`, `DuelPresence` and
  `BetaProgram`: a request resumes, unless it
  stays for ever before a step (safety does not need it to resume).
* **Deduplication of reminders** (a key read, then set, with a date in its name,
  `vip-expiration.scheduler.ts:91`), **decks** but for the payment of a play,
  **items**, **module locks**: planned or listed in `PROJECT.json` with the reason.
* **Redis sets and rate limits** and their local fallback in the memory of each node.
* **The pool of connections**: an award inside a transaction needs a second
  connection, and enough of them at once wait for one another until their time limit; of
  that only the rollback is modelled.
* Contents, pages, mail templates, adapters of third parties, scripts: no concurrent
  state of their own.

## 9. Plan

Done: the games and the presence of their players, the events, the referral, the infrastructure, the
progression, the contributions, accounts and friends, the e-mails and the beta programme; the refinement of
`SeatAllocation` and its proof; the proofs of section 7. Next:

1. The decks of the users, the deduplication of notifications, module locks and their cache,
   likes and views.
2. Abstract specifications: a *payment ledger* that `EventReward` implements without
   rollback; a *game* (open, running, over) that `DuelSession` implements in a room.
3. Proofs: that these two abstract specifications are implemented.
