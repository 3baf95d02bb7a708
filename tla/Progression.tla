------------------------------ MODULE Progression ------------------------------
(***************************************************************************)
(* The progress of one user, row of user_progress, and all the code that   *)
(* writes it: logins, awards, synchronisation, games, badges, decks,       *)
(* administration.  Most of it reads the row in a READ COMMITTED           *)
(* transaction and writes XP, level and coins back as values; the rest     *)
(* increments.  xp_transactions is the ledger that explains the XP.        *)
(* Coins of referrals and of events come from outside, as increments.      *)
(***************************************************************************)
EXTENDS Integers, FiniteSets, Sequences

CONSTANTS
    Requests,     \* the requests; each runs once
    Calls,        \* the operations that each request may be
    Amounts,      \* XP of an award, in units of the instance
    MaxDay,       \* the clock's bound
    Thresholds,   \* XP from which each level is reached
    CoinsUpTo,    \* coins of all the levels up to each
    GameCoinsUpTo,\* the same, by the scale of the multiplayer games
    Milestones,   \* days of a streak that bring coins: 7, 14 and 30
    Economies,    \* configurations of the coins that administrators may choose
    Gifts,        \* coins of a referral or of an event's reward
    BadgeTarget,  \* XP at which the badge is due
    BadgeXp       \* XP that the badge pays

Operations == {"login", "award", "encourage", "sync", "game", "play", "adjust", "replace",
               "coins", "gift", "finish", "daily", "approve", "ensure", "badges"}

Smaller(m, n) == IF m <= n THEN m ELSE n
Greater(m, n) == IF m <= n THEN n ELSE m

MaxLevel == Len(Thresholds)
LevelOf(xp) == Cardinality({i \in 1..MaxLevel : Thresholds[i] <= xp})
LevelCoins(l) == IF l = 0 THEN 0 ELSE Smaller(10, (l \div 2) + 1)
\* awardMultiplayerXp has a scale of its own.
GameLevelCoins(l) == Greater(25, l * 25)

ASSUME ProgressionBounds ==
    /\ IsFiniteSet(Requests) /\ Calls \in [Requests -> SUBSET Operations] /\ Amounts \subseteq Nat
    /\ MaxDay \in Nat \ {0} /\ BadgeTarget \in Nat /\ BadgeXp \in Nat
    /\ Thresholds \in Seq(Nat) /\ MaxLevel >= 1

\* system:coins:config, with a whole multiplier
ASSUME CoinEconomies ==
    /\ Milestones \subseteq Nat /\ Gifts \subseteq Nat
    /\ Economies \subseteq [enabled : BOOLEAN, multiplier : Nat, streakBonus : [Milestones -> Nat]]

\* The sums that the loops over the levels compute
ASSUME CoinTables ==
    /\ CoinsUpTo \in [0..MaxLevel -> Nat] /\ GameCoinsUpTo \in [0..MaxLevel -> Nat]
    /\ \A l \in 1..MaxLevel : /\ CoinsUpTo[l] = CoinsUpTo[l - 1] + LevelCoins(l)
                             /\ GameCoinsUpTo[l] = GameCoinsUpTo[l - 1] + GameLevelCoins(l)
    /\ \A k, l \in 0..MaxLevel : k <= l => CoinsUpTo[k] <= CoinsUpTo[l]

VARIABLES
    day,          \* the date
    row,          \* user_progress of the user
    ledger,       \* sum of the user's xp_transactions
    unrecorded,   \* history: XP incremented without a transaction, so far or for ever
    extra,        \* history: coins given for something else than a level
    lost,         \* history: some write undid another one it had not read
    logins,       \* history: the days of the user's login requests
    badge,        \* user_badges holds the badge
    badgeTx,      \* transactions of the badge
    cheers,       \* days with an encouragements row
    cheerTx,      \* transactions of encouragements
    sourceTx,     \* transactions of the source that sync gives once
    marks,        \* Redis: daily_xp_awarded keys
    completed,    \* the civic quiz session is completed
    req           \* the requests

account == <<row, ledger, unrecorded, extra, lost>>
keys == <<badge, badgeTx, cheers, cheerTx, sourceTx, marks, completed>>
vars == <<day, account, logins, keys, req>>

Progress == [there : BOOLEAN, total : Nat, level : 0..MaxLevel, coins : Int, streak : Nat,
             last : 0..MaxDay]
\* last = 0 stands for lastLoginDate = NULL.
NoRow == [there |-> FALSE, total |-> 0, level |-> 0, coins |-> 0, streak |-> 0, last |-> 0]
EmptyRow == [NoRow EXCEPT !.there = TRUE]

Final == {"ok", "failed"}
Steps == {"create", "read", "write", "badges", "unlock", "mark", "pay", "record"}
Request == [op : Operations \cup {"none"}, pc : {"new"} \cup Steps \cup Final,
            amount : Nat, today : 0..MaxDay, seen : Progress]
NewRequest == [op |-> "none", pc |-> "new", amount |-> 0, today |-> 0, seen |-> NoRow]

Init ==
    /\ day = 1 /\ row = NoRow /\ ledger = 0 /\ unrecorded = 0 /\ extra = 0 /\ lost = FALSE
    /\ logins = {} /\ badge = FALSE /\ badgeTx = 0 /\ cheers = {} /\ cheerTx = 0
    /\ sourceTx = 0 /\ marks = {} /\ completed = FALSE
    /\ req = [r \in Requests |-> NewRequest]

Finish(r, result) ==
    req' = [req EXCEPT ![r] = [NewRequest EXCEPT !.op = req[r].op, !.pc = result]]
Goto(r, pc) == req' = [req EXCEPT ![r].pc = pc]
At(r, op, pc) == req[r].op \in op /\ req[r].pc = pc
Begin(r, op, pc, amount) ==
    /\ req[r].pc = "new" /\ op \in Calls[r]
    /\ req' = [req EXCEPT ![r] = [NewRequest EXCEPT !.op = op, !.pc = pc, !.amount = amount,
                                                    !.today = day]]

-----------------------------------------------------------------------------
(* Plausible bugs, for the mutation check of the properties.               *)

\* The level that the user had is paid again.
LevelUpCoinsAgain(from, to) ==
    IF from < to THEN CoinsUpTo[to] - CoinsUpTo[from] + LevelCoins(from) ELSE 0
\* The row is created without the amount.
IncrementExisting(amount, firstLevel) ==
    row' = [row EXCEPT !.there = TRUE, !.total = IF row.there THEN @ + amount ELSE 0,
                       !.level = IF row.there THEN @ ELSE firstLevel]
\* Any later login continues the streak.
StreakEager(seen, today) == IF seen.last # 0 THEN seen.streak + 1 ELSE 1
\* The badge is unlocked as it was found, without a unique key.
UnlockUnchecked(r) ==
    /\ req[r].pc = "unlock"
    /\ badge' = TRUE /\ badgeTx' = badgeTx + 1 /\ ledger' = ledger + BadgeXp
    /\ row' = [row EXCEPT !.there = TRUE, !.total = @ + BadgeXp]
    /\ Finish(r, "ok")
    /\ UNCHANGED <<day, unrecorded, extra, lost, logins, cheers, cheerTx, sourceTx, marks, completed>>

-----------------------------------------------------------------------------
(* Writing the row                                                         *)

LevelUpCoins(from, to) == IF from < to THEN CoinsUpTo[to] - CoinsUpTo[from] ELSE 0
\* The row an award leaves: XP, level and coins computed from what it read.
\* A row it creates gets the coins of its level only.
Awarded(seen, amount) ==
    LET level == LevelOf(seen.total + amount) IN
    [seen EXCEPT !.there = TRUE, !.total = @ + amount, !.level = level,
                 !.coins = @ + IF seen.there THEN LevelUpCoins(seen.level, level)
                               ELSE LevelCoins(level)]
\* awardMultiplayerXp: a new row starts at level 1, and level 0 counts as 1.
GameAwarded(seen, amount) ==
    LET level == LevelOf(seen.total + amount)
        previous == Greater(seen.level, 1) IN
    [seen EXCEPT !.there = TRUE, !.total = @ + amount, !.level = level,
                 !.coins = @ + IF previous < level
                               THEN GameCoinsUpTo[level] - GameCoinsUpTo[previous] ELSE 0]

\* A create fails on the primary key when the row is there by now.
Duplicate(r) == ~req[r].seen.there /\ row.there
\* An update by values: what was written since the read is undone.
Store(r, new) ==
    /\ row' = [row EXCEPT !.there = TRUE, !.total = new.total, !.level = new.level,
                          !.coins = new.coins]
    /\ lost' = (lost \/ row.total # req[r].seen.total \/ row.coins # req[r].seen.coins)
\* An upsert with an increment
Increment(amount, firstLevel) ==
    row' = [row EXCEPT !.there = TRUE, !.total = @ + amount,
                       !.level = IF row.there THEN @ ELSE firstLevel]

-----------------------------------------------------------------------------
(* recordDailyLogin                                                        *)

\* The date is taken before the transaction.
LoginCall(r) ==
    /\ Begin(r, "login", "read", 0)
    /\ logins' = logins \cup {day}
    /\ UNCHANGED <<day, account, keys>>
\* The same day again changes nothing.
LoginRead(r) ==
    /\ At(r, {"login"}, "read")
    /\ IF row.there /\ row.last = req[r].today THEN Goto(r, "badges")
       ELSE req' = [req EXCEPT ![r].seen = row, ![r].pc = "write"]
    /\ UNCHANGED <<day, account, logins, keys>>
Streak(seen, today) ==
    IF seen.last # 0 /\ seen.last = today - 1 THEN seen.streak + 1 ELSE 1
\* 5 XP for each day of the streak up to seven
LoginBonus(streak) == Smaller(streak, 7)
\* Coins of a login beside those of its levels at their scale: the multiplier and the
\* streak add some, a pause of the economy keeps them back.
LoginBeside(seen, today, economy) ==
    LET streak == Streak(seen, today)
        scale == LevelUpCoins(seen.level, LevelOf(seen.total + LoginBonus(streak))) IN
    IF ~seen.there THEN 0
    ELSE IF ~economy.enabled THEN 0 - scale
    ELSE (economy.multiplier - 1) * scale
         + IF streak \in Milestones THEN economy.streakBonus[streak] ELSE 0
LoginRow(seen, today, beside) ==
    LET streak == Streak(seen, today) IN
    [Awarded(seen, LoginBonus(streak)) EXCEPT
        !.streak = streak, !.last = today, !.coins = IF seen.there THEN @ + beside ELSE 0]
\* The configuration is read in the transaction.
LoginWrite(r) ==
    LET seen == req[r].seen
        today == req[r].today IN
    /\ At(r, {"login"}, "write")
    /\ IF Duplicate(r)
       THEN Finish(r, "failed") /\ UNCHANGED <<row, ledger, extra, lost>>
       ELSE \E economy \in Economies :
            LET beside == LoginBeside(seen, today, economy)
                new == LoginRow(seen, today, beside) IN
            /\ row' = new
            /\ lost' = (lost \/ row.total # seen.total \/ row.coins # seen.coins)
            /\ ledger' = ledger + new.total - seen.total
            /\ extra' = extra + Greater(0, beside)
            /\ Goto(r, "badges")
    /\ UNCHANGED <<day, unrecorded, logins, keys>>

-----------------------------------------------------------------------------
(* awardXp, encourageUser and syncProgression                              *)

AwardCall(r) ==
    /\ \E a \in Amounts \ {0} : Begin(r, "award", "read", a)
    /\ UNCHANGED <<day, account, logins, keys>>
\* One encouragement a day for the pair; the user is the one who encourages.
EncourageCall(r) ==
    /\ Begin(r, "encourage", IF day \in cheers THEN "failed" ELSE "create", 1)
    /\ UNCHANGED <<day, account, logins, keys>>
EncourageCreate(r) ==
    /\ At(r, {"encourage"}, "create")
    /\ IF req[r].today \in cheers THEN Finish(r, "failed") ELSE Goto(r, "read")
    /\ cheers' = cheers \cup {req[r].today}
    /\ UNCHANGED <<day, account, logins, badge, badgeTx, cheerTx, sourceTx, marks, completed>>
\* A source that gives once is skipped when it has its transaction.
SyncCall(r) ==
    /\ \E a \in Amounts \ {0} : Begin(r, "sync", "read", IF sourceTx > 0 THEN 0 ELSE a)
    /\ UNCHANGED <<day, account, logins, keys>>

AwardRead(r) ==
    /\ At(r, {"award", "encourage", "sync"}, "read")
    /\ req' = [req EXCEPT ![r].seen = row, ![r].pc = "write"]
    /\ UNCHANGED <<day, account, logins, keys>>
AwardWrite(r) ==
    LET amount == req[r].amount IN
    /\ At(r, {"award", "encourage", "sync"}, "write")
    /\ IF Duplicate(r)
       THEN Finish(r, "failed") /\ UNCHANGED <<row, ledger, lost, cheerTx, sourceTx>>
       ELSE /\ IF amount = 0 /\ req[r].seen.there THEN UNCHANGED <<row, lost>>
               ELSE Store(r, Awarded(req[r].seen, amount))
            /\ ledger' = ledger + amount
            /\ cheerTx' = cheerTx + IF req[r].op = "encourage" THEN 1 ELSE 0
            /\ sourceTx' = sourceTx + IF req[r].op = "sync" /\ amount > 0 THEN 1 ELSE 0
            /\ Goto(r, "badges")
    /\ UNCHANGED <<day, unrecorded, extra, logins, badge, badgeTx, cheers, marks, completed>>

-----------------------------------------------------------------------------
(* awardMultiplayerXp, recordPlay, adjustUserXp, replaceProgression,       *)
(* adjustUserCoins                                                         *)

Transactions == {"game", "play", "adjust"}
ByValueCall(r) ==
    /\ \E op \in Transactions \cup {"coins"}, a \in Amounts \ {0} :
          Begin(r, op, "read", IF op = "adjust" THEN 1 ELSE a)
    /\ UNCHANGED <<day, account, logins, keys>>
\* Coins are adjusted for an existing row only.
ByValueRead(r) ==
    /\ At(r, Transactions \cup {"coins"}, "read")
    /\ IF req[r].op = "coins" /\ ~row.there THEN Finish(r, "failed")
       ELSE req' = [req EXCEPT ![r].seen = row, ![r].pc = "write"]
    /\ UNCHANGED <<day, account, logins, keys>>
\* The failure of a payment is logged, and the XP of the game is not paid.
GameWrite(r) ==
    /\ At(r, {"game"}, "write")
    /\ IF Duplicate(r) THEN Finish(r, "failed") /\ UNCHANGED <<row, ledger, lost>>
       ELSE /\ Store(r, GameAwarded(req[r].seen, req[r].amount))
            /\ ledger' = ledger + req[r].amount /\ Finish(r, "ok")
    /\ UNCHANGED <<day, unrecorded, extra, logins, keys>>
\* The upsert for the author of a deck writes what it computed, found or not;
\* a play may bring a coin, and pays none for the level.
PlayWrite(r) ==
    /\ At(r, {"play"}, "write")
    /\ \E coin \in {0, 1} :
          LET total == req[r].seen.total + req[r].amount IN
          /\ Store(r, [req[r].seen EXCEPT !.total = total, !.level = LevelOf(total),
                                         !.coins = @ + coin])
          /\ extra' = extra + coin
    /\ ledger' = ledger + req[r].amount /\ Finish(r, "ok")
    /\ UNCHANGED <<day, unrecorded, logins, keys>>
\* An administrator takes XP away, down to zero; the coins stay.
Adjusted(seen, amount) == Greater(0, seen.total - amount)
AdjustWrite(r) ==
    LET total == Adjusted(req[r].seen, req[r].amount) IN
    /\ At(r, {"adjust"}, "write")
    /\ IF Duplicate(r) THEN Finish(r, "failed") /\ UNCHANGED <<row, ledger, lost>>
       ELSE /\ Store(r, [req[r].seen EXCEPT !.total = total, !.level = LevelOf(total)])
            /\ ledger' = ledger - req[r].amount /\ Finish(r, "ok")
    /\ UNCHANGED <<day, unrecorded, extra, logins, keys>>
CoinsWrite(r) ==
    /\ At(r, {"coins"}, "write")
    /\ row' = [row EXCEPT !.coins = Greater(0, req[r].seen.coins - 1)]
    /\ lost' = (lost \/ row.coins # req[r].seen.coins)
    /\ Finish(r, "ok")
    /\ UNCHANGED <<day, ledger, unrecorded, extra, logins, keys>>
\* claimReferral, executeCompleteReferral and awardSingleReward, when they commit: the XP that
\* comes with the coins is an award of its own, before them.
Gift(r) ==
    /\ \E coins \in Gifts :
          /\ row' = [row EXCEPT !.there = TRUE, !.coins = @ + coins]
          /\ extra' = extra + coins
    /\ Begin(r, "gift", "ok", 0)
    /\ UNCHANGED <<day, ledger, unrecorded, lost, logins, keys>>
\* The client's own values, but for the date of the last login, and its transactions
Replace(r) ==
    /\ \E total, sum \in Amounts, coins, streak \in {0, 1} :
          /\ row' = [row EXCEPT !.there = TRUE, !.total = total, !.level = LevelOf(total),
                                !.coins = coins, !.streak = streak]
          /\ ledger' = ledger + sum
    /\ Begin(r, "replace", "ok", 0)
    /\ UNCHANGED <<day, unrecorded, extra, lost, logins, keys>>

-----------------------------------------------------------------------------
(* Single-player games, contributions, first access                        *)

\* finishSession of the civic quiz: once completed, no XP again.
FinishCall(r) ==
    /\ \E a \in Amounts \ {0} : Begin(r, "finish", IF completed THEN "ok" ELSE "mark", a)
    /\ UNCHANGED <<day, account, logins, keys>>
FinishMark(r) ==
    /\ At(r, {"finish"}, "mark")
    /\ completed' = TRUE /\ Goto(r, "pay")
    /\ UNCHANGED <<day, account, logins, badge, badgeTx, cheers, cheerTx, sourceTx, marks>>
\* submitAnswer of the daily challenge: the key of the day, then the XP
DailyCall(r) ==
    /\ \E a \in Amounts \ {0} : Begin(r, "daily", IF day \in marks THEN "ok" ELSE "mark", a)
    /\ UNCHANGED <<day, account, logins, keys>>
DailyMark(r) ==
    /\ At(r, {"daily"}, "mark")
    /\ marks' = marks \cup {req[r].today} /\ Goto(r, "pay")
    /\ UNCHANGED <<day, account, logins, badge, badgeTx, cheers, cheerTx, sourceTx, completed>>
\* Both pay and record in two statements without a transaction.
SoloPay(r) ==
    /\ At(r, {"finish", "daily"}, "pay")
    /\ Increment(req[r].amount, 0) /\ unrecorded' = unrecorded + req[r].amount
    /\ Goto(r, "record")
    /\ UNCHANGED <<day, ledger, extra, lost, logins, keys>>
SoloRecord(r) ==
    /\ At(r, {"finish", "daily"}, "record")
    /\ ledger' = ledger + req[r].amount /\ unrecorded' = unrecorded - req[r].amount
    /\ Finish(r, "ok")
    /\ UNCHANGED <<day, row, extra, lost, logins, keys>>
\* The approval of a contribution pays its author and records nothing.
Approve(r) ==
    /\ \E a \in Amounts \ {0} : /\ Begin(r, "approve", "ok", a)
                               /\ Increment(a, 0) /\ unrecorded' = unrecorded + a
    /\ UNCHANGED <<day, ledger, extra, lost, logins, keys>>
\* getProgression; the leaderboard creates the row with a streak of one day.
EnsureCall(r) ==
    /\ Begin(r, "ensure", IF row.there THEN "ok" ELSE "create", 0)
    /\ UNCHANGED <<day, account, logins, keys>>
EnsureCreate(r) ==
    /\ At(r, {"ensure"}, "create")
    /\ IF row.there THEN Finish(r, "failed") /\ UNCHANGED row
       ELSE /\ \E streak \in {0, 1} : row' = [EmptyRow EXCEPT !.streak = streak]
            /\ Finish(r, "ok")
    /\ UNCHANGED <<day, ledger, unrecorded, extra, lost, logins, keys>>

-----------------------------------------------------------------------------
(* checkAndUnlockBadges                                                    *)

BadgesCall(r) ==
    /\ Begin(r, "badges", "badges", 0)
    /\ UNCHANGED <<day, account, logins, keys>>
BadgesRead(r) ==
    /\ req[r].pc = "badges"
    /\ IF ~badge /\ row.total >= BadgeTarget THEN Goto(r, "unlock") ELSE Finish(r, "ok")
    /\ UNCHANGED <<day, account, logins, keys>>
\* The unique key (user, badge) makes the transaction of a second unlock fail.
Unlock(r) ==
    /\ req[r].pc = "unlock"
    /\ IF badge THEN UNCHANGED <<row, ledger, badge, badgeTx>>
       ELSE /\ badge' = TRUE /\ badgeTx' = badgeTx + 1
            /\ ledger' = ledger + BadgeXp /\ Increment(BadgeXp, 1)
    /\ Finish(r, "ok")
    /\ UNCHANGED <<day, unrecorded, extra, lost, logins, cheers, cheerTx, sourceTx, marks, completed>>

Tick ==
    /\ day < MaxDay /\ day' = day + 1
    /\ UNCHANGED <<account, logins, keys, req>>

Next ==
    \/ Tick
    \/ \E r \in Requests :
        \/ LoginCall(r) \/ LoginRead(r) \/ LoginWrite(r)
        \/ AwardCall(r) \/ EncourageCall(r) \/ EncourageCreate(r) \/ SyncCall(r)
        \/ AwardRead(r) \/ AwardWrite(r)
        \/ ByValueCall(r) \/ ByValueRead(r) \/ GameWrite(r) \/ PlayWrite(r)
        \/ AdjustWrite(r) \/ CoinsWrite(r) \/ Gift(r) \/ Replace(r)
        \/ FinishCall(r) \/ FinishMark(r) \/ DailyCall(r) \/ DailyMark(r)
        \/ SoloPay(r) \/ SoloRecord(r) \/ Approve(r) \/ EnsureCall(r) \/ EnsureCreate(r)
        \/ BadgesCall(r) \/ BadgesRead(r) \/ Unlock(r)
Spec == Init /\ [][Next]_vars

-----------------------------------------------------------------------------
(* Properties                                                              *)

\* The row, the counters and the requests keep their types.
TypeOK ==
    /\ day \in 1..MaxDay /\ row \in Progress
    /\ ledger \in Int /\ unrecorded \in Int /\ extra \in Int /\ lost \in BOOLEAN
    /\ logins \subseteq 1..MaxDay /\ badge \in BOOLEAN /\ badgeTx \in Nat
    /\ cheers \subseteq 1..MaxDay /\ cheerTx \in Nat /\ sourceTx \in Nat
    /\ marks \subseteq 1..MaxDay /\ completed \in BOOLEAN
    /\ req \in [Requests -> Request]

\* No request of these operations has been sent.
No(ops) == \A r \in Requests : req[r].op \notin ops

\* However the writers of the row cross, a user never has more XP than the
\* transactions, and the increments that have none, explain, unless an
\* administrator took some away or a client replaced the row; and as long as no
\* write undid another one he has exactly that much (536-600, m.service 2443-2474).
XpExplained ==
    No({"adjust", "replace"}) =>
        /\ row.total <= ledger + unrecorded
        /\ ~lost => row.total = ledger + unrecorded

\* A streak counts only days on which the user did log in, even when logins cross
\* one another, awards or midnight (144-150).
StreakTruthful ==
    No({"replace"}) /\ row.last # 0 =>
        \A k \in 1..row.streak : row.last - k + 1 \in logins

\* The badge is paid once, and an encouragement at most once a day, although both
\* are looked for before they are created (badges.service 156-195).
PaidPerKey ==
    /\ badgeTx = IF badge THEN 1 ELSE 0
    /\ cheerTx <= Cardinality(cheers)

\* No coin is given twice for a level: without games, whose scale is another one, coins
\* never exceed those of the levels reached and those given for another reason, which are
\* counted apart: decks, streaks, multiplied levels of logins, referrals, rewards of events.
LevelPaidOnce ==
    No({"adjust", "replace", "game", "coins"}) =>
        row.coins <= CoinsUpTo[row.level] + extra

-----------------------------------------------------------------------------
(* What comments of the code promise, and races break: TLC refutes each on *)
(* the instance that README.md gives.                                      *)

\* A source that gives once has one transaction (286).
SourcePaidOnce == sourceTx <= 1
=============================================================================
