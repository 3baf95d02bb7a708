-------------------------- MODULE Progression_proofs --------------------------
(***************************************************************************)
(* Proofs about Progression for every set of requests, every amount, every *)
(* table of levels and every length of time.                               *)
(***************************************************************************)
EXTENDS Progression, FiniteSetTheorems, TLAPS

\* The steps that leave the account alone, and those that write it.
Reads(r) == \/ LoginCall(r) \/ LoginRead(r) \/ AwardCall(r) \/ EncourageCall(r)
            \/ EncourageCreate(r) \/ SyncCall(r) \/ AwardRead(r) \/ ByValueCall(r)
            \/ ByValueRead(r) \/ FinishCall(r) \/ FinishMark(r) \/ DailyCall(r) \/ DailyMark(r)
            \/ EnsureCall(r) \/ BadgesCall(r) \/ BadgesRead(r)
Writes(r) == \/ LoginWrite(r) \/ AwardWrite(r) \/ GameWrite(r) \/ PlayWrite(r) \/ AdjustWrite(r)
             \/ CoinsWrite(r) \/ Gift(r) \/ Replace(r) \/ SoloPay(r) \/ SoloRecord(r) \/ Approve(r)
             \/ EnsureCreate(r) \/ Unlock(r)

\* What a request becomes by a step of its own: it keeps its operation, and when it
\* is to write it has just read the row.
Moved(r, q) ==
    /\ q \in Request /\ q.pc # "new" /\ q.op \in Operations
    /\ q.pc \notin Final => /\ q.today \in 1..MaxDay
                           /\ q.today = IF req[r].pc = "new" THEN day ELSE req[r].today
    /\ q.pc = "write" => q.seen = row
    /\ req[r].pc # "new" => q.op = req[r].op
\* A request that runs has a name and a date.
Started == \A r \in Requests :
    /\ req[r].pc = "new" <=> req[r].op = "none"
    /\ req[r].pc \notin Final \cup {"new"} => req[r].today \in 1..MaxDay
TypeInv == TypeOK /\ Started

\* The rows that the next write may be computed from
Known == {row} \cup {req[r].seen : r \in {s \in Requests : req[s].pc = "write"}}

-----------------------------------------------------------------------------
(* Values.                                                                 *)

\* A level is one of the table's.
LEMMA LevelInTable ==
    ASSUME NEW xp \in Int PROVE LevelOf(xp) \in 0..MaxLevel
  <1> DEFINE S == {i \in 1..MaxLevel : Thresholds[i] <= xp}
  <1>1. MaxLevel \in Nat
    BY ProgressionBounds DEF MaxLevel
  <1>2. IsFiniteSet(1..MaxLevel) /\ Cardinality(1..MaxLevel) = MaxLevel
    BY <1>1, FS_Interval
  <1>3. IsFiniteSet(S) /\ Cardinality(S) <= Cardinality(1..MaxLevel)
    BY <1>2, FS_Subset, S \subseteq 1..MaxLevel
  <1>4. Cardinality(S) \in Nat
    BY <1>3, FS_CardinalityType
  <1> QED BY <1>1, <1>2, <1>3, <1>4 DEF LevelOf

\* The coins of a level are a number.
LEMMA CoinsOfLevel ==
    ASSUME NEW l \in Nat PROVE LevelCoins(l) \in Nat
  <1>1. (l \div 2) + 1 \in Nat
    OBVIOUS
  <1> QED BY <1>1 DEF LevelCoins, Smaller

\* Coins for going up are a number.
LEMMA CoinsGoingUp ==
    ASSUME NEW from \in 0..MaxLevel, NEW to \in 0..MaxLevel PROVE LevelUpCoins(from, to) \in Int
  BY CoinTables DEF LevelUpCoins

\* The row an award leaves.
LEMMA AwardedRow ==
    ASSUME NEW seen \in Progress, NEW amount \in Nat
    PROVE  /\ Awarded(seen, amount) \in Progress
           /\ Awarded(seen, amount).total = seen.total + amount
           /\ Awarded(seen, amount).there
           /\ Awarded(seen, amount).streak = seen.streak /\ Awarded(seen, amount).last = seen.last
           /\ Awarded(seen, amount).level = LevelOf(seen.total + amount)
           /\ Awarded(seen, amount).coins = seen.coins +
                 IF seen.there THEN LevelUpCoins(seen.level, LevelOf(seen.total + amount))
                 ELSE LevelCoins(LevelOf(seen.total + amount))
  <1> DEFINE level == LevelOf(seen.total + amount)
             coins == seen.coins + (IF seen.there THEN LevelUpCoins(seen.level, level)
                                    ELSE LevelCoins(level))
  <1>1. level \in 0..MaxLevel
    BY LevelInTable DEF Progress
  <1>2. LevelUpCoins(seen.level, level) \in Int /\ LevelCoins(level) \in Int
    BY <1>1, CoinsGoingUp, CoinsOfLevel DEF Progress
  <1>3. coins \in Int
    BY <1>2 DEF Progress
  <1>4. Awarded(seen, amount) = [seen EXCEPT !.there = TRUE, !.total = seen.total + amount,
                                            !.level = level, !.coins = coins]
    BY DEF Awarded
  <1>5. seen.total + amount \in Nat
    BY DEF Progress
  <1> HIDE DEF level, coins
  <1>6. /\ Awarded(seen, amount) \in Progress
        /\ Awarded(seen, amount).total = seen.total + amount /\ Awarded(seen, amount).there
        /\ Awarded(seen, amount).streak = seen.streak /\ Awarded(seen, amount).last = seen.last
        /\ Awarded(seen, amount).level = level /\ Awarded(seen, amount).coins = coins
    BY <1>1, <1>3, <1>4, <1>5 DEF Progress
  <1> QED BY <1>6 DEF level, coins

\* The row a game leaves.
LEMMA GameAwardedRow ==
    ASSUME NEW seen \in Progress, NEW amount \in Nat
    PROVE  /\ GameAwarded(seen, amount) \in Progress
           /\ GameAwarded(seen, amount).total = seen.total + amount
           /\ GameAwarded(seen, amount).there
  <1> DEFINE level == LevelOf(seen.total + amount)
             previous == Greater(seen.level, 1)
             coins == seen.coins + (IF previous < level
                                    THEN GameCoinsUpTo[level] - GameCoinsUpTo[previous] ELSE 0)
  <1>1. level \in 0..MaxLevel /\ previous \in 0..MaxLevel
    <2>1. level \in 0..MaxLevel
      BY LevelInTable DEF Progress
    <2>2. MaxLevel \in Nat /\ MaxLevel >= 1
      BY ProgressionBounds DEF MaxLevel
    <2> QED BY <2>1, <2>2 DEF Progress, Greater
  <1>2. GameCoinsUpTo[level] \in Int /\ GameCoinsUpTo[previous] \in Int
    BY <1>1, CoinTables
  <1>3. coins \in Int
    BY <1>2 DEF Progress
  <1>4. GameAwarded(seen, amount) = [seen EXCEPT !.there = TRUE, !.total = seen.total + amount,
                                                !.level = level, !.coins = coins]
    BY DEF GameAwarded
  <1>5. seen.total + amount \in Nat
    BY DEF Progress
  <1> HIDE DEF level, previous, coins
  <1> QED BY <1>1, <1>3, <1>4, <1>5 DEF Progress

\* The row a login leaves, and the XP it brings.
LEMMA LoginRowRow ==
    ASSUME NEW seen \in Progress, NEW today \in 1..MaxDay, NEW beside \in Int
    PROVE  /\ LoginRow(seen, today, beside) \in Progress
           /\ LoginRow(seen, today, beside).total - seen.total \in Nat
           /\ LoginRow(seen, today, beside).there
           /\ LoginRow(seen, today, beside).streak = Streak(seen, today)
           /\ LoginRow(seen, today, beside).last = today
           /\ LET new == Awarded(seen, LoginBonus(Streak(seen, today))) IN
              /\ LoginBonus(Streak(seen, today)) \in Nat
              /\ LoginRow(seen, today, beside).total = new.total
              /\ LoginRow(seen, today, beside).level = new.level
              /\ LoginRow(seen, today, beside).coins \in {new.coins + beside, 0}
  <1> DEFINE streak == Streak(seen, today)
             new == Awarded(seen, LoginBonus(streak))
             after == LoginRow(seen, today, beside)
  <1>1. streak \in Nat /\ LoginBonus(streak) \in Nat
    BY DEF Streak, Progress, LoginBonus, Smaller
  <1>2. new \in Progress /\ new.total = seen.total + LoginBonus(streak) /\ new.there
    BY <1>1, AwardedRow
  <1> DEFINE coins == IF seen.there THEN new.coins + beside ELSE 0
  <1>3. after = [new EXCEPT !.streak = streak, !.last = today, !.coins = coins]
    BY DEF LoginRow
  <1>4. coins \in Int /\ today \in 0..MaxDay
    BY <1>2 DEF Progress
  <1> HIDE DEF streak, new, coins, after
  <1>5. /\ after \in Progress /\ after.total = new.total /\ after.there
        /\ after.streak = streak /\ after.last = today
        /\ after.level = new.level /\ after.coins = coins
    BY <1>1, <1>2, <1>3, <1>4 DEF Progress
  <1> QED BY <1>1, <1>2, <1>5 DEF Progress, streak, new, coins, after

\* The coins that it brings beside those of the levels are a number.
LEMMA LoginBesideType ==
    ASSUME NEW seen \in Progress, NEW today \in 1..MaxDay, NEW economy \in Economies
    PROVE  LoginBeside(seen, today, economy) \in Int
  <1> DEFINE streak == Streak(seen, today)
             scale == LevelUpCoins(seen.level, LevelOf(seen.total + LoginBonus(streak)))
  <1>1. LoginBonus(streak) \in Nat
    BY DEF Streak, Progress, LoginBonus, Smaller
  <1>2. scale \in Int
    BY <1>1, LevelInTable, CoinsGoingUp DEF Progress
  <1>3. economy.multiplier \in Nat /\ economy.streakBonus \in [Milestones -> Nat]
    BY CoinEconomies
  <1>4. (economy.multiplier - 1) * scale \in Int
    <2> HIDE DEF scale
    <2> QED BY <1>2, <1>3
  <1>5. LoginBeside(seen, today, economy) =
           IF ~seen.there THEN 0
           ELSE IF ~economy.enabled THEN 0 - scale
           ELSE (economy.multiplier - 1) * scale
                + IF streak \in Milestones THEN economy.streakBonus[streak] ELSE 0
    BY DEF LoginBeside
  <1>6. streak \in Milestones => economy.streakBonus[streak] \in Int
    BY <1>3
  <1> HIDE DEF scale, streak
  <1> QED BY <1>2, <1>4, <1>5, <1>6

\* A login that is written, by what it brings beside.
LEMMA LoginWritten ==
    ASSUME NEW r, LoginWrite(r), ~Duplicate(r), req[r].seen \in Progress, req[r].today \in 1..MaxDay
    PROVE  \E beside \in Int : /\ row' = LoginRow(req[r].seen, req[r].today, beside)
                              /\ extra' = extra + Greater(0, beside)
                              /\ ledger' = ledger + row'.total - req[r].seen.total
                              /\ lost' = (lost \/ row.total # req[r].seen.total
                                               \/ row.coins # req[r].seen.coins)
  BY LoginBesideType DEF LoginWrite

-----------------------------------------------------------------------------
(* How a step changes the request that takes it.                           *)

\* A request that has not begun
LEMMA NewRequestType == NewRequest \in Request
  <1>1. NoRow \in Progress
    BY ProgressionBounds DEF NoRow, Progress, MaxLevel
  <1> QED BY <1>1, ProgressionBounds DEF NewRequest, Request

\* The first query of a request
LEMMA BeginMoves ==
    ASSUME TypeInv, NEW r \in Requests, NEW op \in Operations, NEW amount \in Nat,
           NEW pc \in Final \cup {"create", "read", "mark", "badges"}, Begin(r, op, pc, amount)
    PROVE  \E q \in Request : Moved(r, q) /\ q.op = op /\ q.pc = pc /\ q.today = day
                              /\ req' = [req EXCEPT ![r] = q]
  <1> DEFINE q == [NewRequest EXCEPT !.op = op, !.pc = pc, !.amount = amount, !.today = day]
  <1>1. NewRequest \in Request
    BY NewRequestType
  <1>2. day \in 1..MaxDay /\ MaxDay \in Nat
    BY ProgressionBounds DEF TypeInv, TypeOK
  <1>3. pc \in {"new"} \cup Steps \cup Final /\ op \in Operations \cup {"none"} /\ day \in 0..MaxDay
    BY <1>2 DEF Steps
  <1>4. q \in Request /\ q.op = op /\ q.pc = pc /\ q.today = day
    BY <1>1, <1>3 DEF Request
  <1>5. req' = [req EXCEPT ![r] = q] /\ req[r].pc = "new"
    BY DEF Begin
  <1>6. pc # "new" /\ pc # "write"
    BY DEF Final
  <1> HIDE DEF q
  <1>7. Moved(r, q)
    BY <1>2, <1>4, <1>5, <1>6 DEF Moved
  <1> QED BY <1>4, <1>5, <1>7

\* The end of a request
LEMMA FinishMoves ==
    ASSUME TypeInv, NEW r \in Requests, req[r].pc # "new", NEW result \in Final, Finish(r, result)
    PROVE  \E q \in Request : Moved(r, q) /\ q.pc = result /\ q.op = req[r].op
                              /\ req' = [req EXCEPT ![r] = q]
  <1> DEFINE q == [NewRequest EXCEPT !.op = req[r].op, !.pc = result]
  <1>1. NewRequest \in Request
    BY NewRequestType
  <1>2. req[r].op \in Operations
    BY DEF TypeInv, TypeOK, Started, Request
  <1>4. q \in Request /\ q.op = req[r].op /\ q.pc = result
    BY <1>1, <1>2 DEF Request
  <1>5. req' = [req EXCEPT ![r] = q]
    BY DEF Finish
  <1>6. result # "new" /\ result # "write"
    BY DEF Final
  <1> HIDE DEF q
  <1>7. Moved(r, q)
    BY <1>2, <1>4, <1>6 DEF Moved
  <1> QED BY <1>4, <1>5, <1>7

\* On to another step than the write
LEMMA GotoMoves ==
    ASSUME TypeInv, NEW r \in Requests, req[r].pc \notin Final \cup {"new"},
           NEW pc \in Steps \ {"write"}, Goto(r, pc)
    PROVE  \E q \in Request : Moved(r, q) /\ q.pc = pc /\ q.op = req[r].op
                              /\ req' = [req EXCEPT ![r] = q]
  <1> DEFINE q == [req[r] EXCEPT !.pc = pc]
  <1>1. req[r] \in Request /\ req[r].today \in 1..MaxDay /\ req[r].op \in Operations
    BY DEF TypeInv, TypeOK, Started, Request
  <1>2. q \in Request /\ q.pc = pc /\ q.op = req[r].op /\ q.today = req[r].today
    BY <1>1 DEF Request
  <1>3. req' = [req EXCEPT ![r] = q]
    BY DEF Goto, TypeInv, TypeOK
  <1>4. pc # "new" /\ pc # "write" /\ pc \notin Final
    BY DEF Steps, Final
  <1> HIDE DEF q
  <1>5. Moved(r, q)
    BY <1>1, <1>2, <1>4 DEF Moved
  <1> QED BY <1>2, <1>3, <1>5

\* On to the write, with the row as it is now
LEMMA ReadMoves ==
    ASSUME TypeInv, NEW r \in Requests, req[r].pc = "read",
           req' = [req EXCEPT ![r].seen = row, ![r].pc = "write"]
    PROVE  \E q \in Request : Moved(r, q) /\ q.pc = "write" /\ q.op = req[r].op
                              /\ q.today = req[r].today /\ req' = [req EXCEPT ![r] = q]
  <1> DEFINE q == [req[r] EXCEPT !.seen = row, !.pc = "write"]
  <1>1. req[r] \in Request /\ req[r].op \in Operations /\ row \in Progress
    BY DEF TypeInv, TypeOK, Started, Request
  <1>2. req[r].today \in 1..MaxDay
    BY DEF TypeInv, Started, Final
  <1>3. /\ q \in Request /\ q.pc = "write" /\ q.op = req[r].op /\ q.today = req[r].today
        /\ q.seen = row
    BY <1>1 DEF Request, Steps
  <1>4. req' = [req EXCEPT ![r] = q]
    BY DEF TypeInv, TypeOK
  <1> HIDE DEF q
  <1>5. Moved(r, q)
    BY <1>1, <1>2, <1>3 DEF Moved
  <1> QED BY <1>3, <1>4, <1>5

-----------------------------------------------------------------------------
(* Type correctness.                                                       *)

AccountTypes == row \in Progress /\ ledger \in Int /\ unrecorded \in Int /\ extra \in Int
                /\ lost \in BOOLEAN
KeyTypes == /\ logins \subseteq 1..MaxDay /\ badge \in BOOLEAN /\ badgeTx \in Nat
            /\ cheers \subseteq 1..MaxDay /\ cheerTx \in Nat /\ sourceTx \in Nat
            /\ marks \subseteq 1..MaxDay /\ completed \in BOOLEAN
Moves(r) == \E q \in Request : Moved(r, q) /\ req' = [req EXCEPT ![r] = q]

\* A step of a read moves its request and keeps the account.
LEMMA ReadsMove ==
    ASSUME TypeInv, NEW r \in Requests, Reads(r)
    PROVE  Moves(r) /\ UNCHANGED <<day, account>> /\ KeyTypes'
  <1> USE DEF Final, Steps, Operations, Transactions
  <1>1. KeyTypes /\ day \in 1..MaxDay /\ \A a \in Amounts : a \in Nat
    BY ProgressionBounds DEF TypeInv, TypeOK, KeyTypes
  <1>2. req[r].pc \notin Final \cup {"new"} => req[r].today \in 1..MaxDay
    BY DEF TypeInv, Started
  <1>3. CASE LoginCall(r)
    <2>1. Begin(r, "login", "read", 0)
      BY <1>3 DEF LoginCall
    <2>2. Moves(r)
      BY <2>1, BeginMoves DEF Moves
    <2> QED BY <1>1, <1>3, <2>2 DEF LoginCall, KeyTypes, account, keys
  <1>4. CASE EncourageCall(r)
    <2>1. Begin(r, "encourage", IF day \in cheers THEN "failed" ELSE "create", 1)
      BY <1>4 DEF EncourageCall
    <2>2. Moves(r)
      BY <2>1, BeginMoves DEF Moves
    <2> QED BY <1>1, <1>4, <2>2 DEF EncourageCall, KeyTypes, account, keys
  <1>5. CASE EnsureCall(r)
    <2>1. Begin(r, "ensure", IF row.there THEN "ok" ELSE "create", 0)
      BY <1>5 DEF EnsureCall
    <2>2. Moves(r)
      BY <2>1, BeginMoves DEF Moves
    <2> QED BY <1>1, <1>5, <2>2 DEF EnsureCall, KeyTypes, account, keys
  <1>6. CASE BadgesCall(r)
    <2>1. Begin(r, "badges", "badges", 0)
      BY <1>6 DEF BadgesCall
    <2>2. Moves(r)
      BY <2>1, BeginMoves DEF Moves
    <2> QED BY <1>1, <1>6, <2>2 DEF BadgesCall, KeyTypes, account, keys
  <1>7. CASE AwardCall(r)
    <2>1. PICK a \in Amounts \ {0} : Begin(r, "award", "read", a)
      BY <1>7 DEF AwardCall
    <2>2. Moves(r)
      BY <1>1, <2>1, BeginMoves DEF Moves
    <2> QED BY <1>1, <1>7, <2>2 DEF AwardCall, KeyTypes, account, keys
  <1>8. CASE SyncCall(r)
    <2>1. PICK a \in Amounts \ {0} : Begin(r, "sync", "read", IF sourceTx > 0 THEN 0 ELSE a)
      BY <1>8 DEF SyncCall
    <2>2. Moves(r)
      BY <1>1, <2>1, BeginMoves DEF Moves
    <2> QED BY <1>1, <1>8, <2>2 DEF SyncCall, KeyTypes, account, keys
  <1>9. CASE FinishCall(r)
    <2>1. PICK a \in Amounts \ {0} : Begin(r, "finish", IF completed THEN "ok" ELSE "mark", a)
      BY <1>9 DEF FinishCall
    <2>2. Moves(r)
      BY <1>1, <2>1, BeginMoves DEF Moves
    <2> QED BY <1>1, <1>9, <2>2 DEF FinishCall, KeyTypes, account, keys
  <1>10. CASE DailyCall(r)
    <2>1. PICK a \in Amounts \ {0} : Begin(r, "daily", IF day \in marks THEN "ok" ELSE "mark", a)
      BY <1>10 DEF DailyCall
    <2>2. Moves(r)
      BY <1>1, <2>1, BeginMoves DEF Moves
    <2> QED BY <1>1, <1>10, <2>2 DEF DailyCall, KeyTypes, account, keys
  <1>11. CASE ByValueCall(r)
    <2>1. PICK op \in Transactions \cup {"coins"}, a \in Amounts \ {0} :
             Begin(r, op, "read", IF op = "adjust" THEN 1 ELSE a)
      BY <1>11 DEF ByValueCall
    <2>2. Moves(r)
      BY <1>1, <2>1, BeginMoves DEF Moves
    <2> QED BY <1>1, <1>11, <2>2 DEF ByValueCall, KeyTypes, account, keys
  <1>12. CASE LoginRead(r)
    <2>1. Moves(r)
      BY <1>12, GotoMoves, ReadMoves DEF LoginRead, At, Moves
    <2> QED BY <1>1, <1>2, <1>12, <2>1 DEF LoginRead, At, KeyTypes, account, keys
  <1>13. CASE AwardRead(r)
    <2>1. Moves(r)
      BY <1>13, ReadMoves DEF AwardRead, At, Moves
    <2> QED BY <1>1, <1>2, <1>13, <2>1 DEF AwardRead, At, KeyTypes, account, keys
  <1>14. CASE ByValueRead(r)
    <2>1. Moves(r)
      BY <1>14, FinishMoves, ReadMoves DEF ByValueRead, At, Moves
    <2> QED BY <1>1, <1>2, <1>14, <2>1 DEF ByValueRead, At, KeyTypes, account, keys
  <1>15. CASE EncourageCreate(r)
    <2>1. Moves(r)
      BY <1>15, FinishMoves, GotoMoves DEF EncourageCreate, At, Moves
    <2> QED BY <1>1, <1>2, <1>15, <2>1 DEF EncourageCreate, At, KeyTypes, account, keys
  <1>16. CASE FinishMark(r)
    <2>1. Moves(r)
      BY <1>16, GotoMoves DEF FinishMark, At, Moves
    <2> QED BY <1>1, <1>2, <1>16, <2>1 DEF FinishMark, At, KeyTypes, account, keys
  <1>17. CASE DailyMark(r)
    <2>1. Moves(r)
      BY <1>17, GotoMoves DEF DailyMark, At, Moves
    <2> QED BY <1>1, <1>2, <1>17, <2>1 DEF DailyMark, At, KeyTypes, account, keys
  <1>18. CASE BadgesRead(r)
    <2>1. Moves(r)
      BY <1>18, FinishMoves, GotoMoves DEF BadgesRead, At, Moves
    <2> QED BY <1>1, <1>2, <1>18, <2>1 DEF BadgesRead, At, KeyTypes, account, keys
  <1> QED BY <1>3, <1>4, <1>5, <1>6, <1>7, <1>8, <1>9, <1>10, <1>11, <1>12, <1>13, <1>14, <1>15, <1>16, <1>17, <1>18 DEF Reads

\* The row after an update by values
LEMMA StoredRow ==
    ASSUME row \in Progress, NEW r \in Requests, NEW new \in Progress, Store(r, new)
    PROVE  /\ row' \in Progress /\ row'.there /\ row'.total = new.total
           /\ row'.level = new.level /\ row'.coins = new.coins
           /\ row'.streak = row.streak /\ row'.last = row.last
           /\ lost' \in BOOLEAN
  BY DEF Store, Progress

\* The row after an increment
LEMMA IncrementedRow ==
    ASSUME row \in Progress, NEW amount \in Nat, NEW first \in 0..MaxLevel,
           Increment(amount, first)
    PROVE  /\ row' \in Progress /\ row'.there /\ row'.total = row.total + amount
           /\ row'.level = IF row.there THEN row.level ELSE first
           /\ row'.coins = row.coins /\ row'.streak = row.streak /\ row'.last = row.last
  <1> DEFINE total == row.total + amount
             level == IF row.there THEN row.level ELSE first
  <1>1. row' = [row EXCEPT !.there = TRUE, !.total = total, !.level = level]
    BY DEF Increment
  <1>2. total \in Nat /\ level \in 0..MaxLevel
    BY DEF Progress
  <1> HIDE DEF total, level
  <1>3. /\ row' \in Progress /\ row'.there /\ row'.total = total /\ row'.level = level
        /\ row'.coins = row.coins /\ row'.streak = row.streak /\ row'.last = row.last
    BY <1>1, <1>2 DEF Progress
  <1> QED BY <1>3 DEF total, level

\* An empty row
LEMMA EmptyRowType == NoRow \in Progress /\ EmptyRow \in Progress
  <1>1. NoRow \in Progress
    BY ProgressionBounds DEF NoRow, Progress, MaxLevel
  <1> QED BY <1>1 DEF EmptyRow, Progress

\* What a write reads from its request
LEMMA Fields ==
    ASSUME TypeInv, NEW r \in Requests, req[r].pc \notin Final \cup {"new"}
    PROVE  /\ req[r].amount \in Nat /\ req[r].seen \in Progress
           /\ req[r].today \in 1..MaxDay /\ row \in Progress
  BY DEF TypeInv, TypeOK, Started, Request

\* The values of a write: those of a play, and those of an administrator.
PlayRow(r, coin) ==
    LET total == req[r].seen.total + req[r].amount IN
    [req[r].seen EXCEPT !.total = total, !.level = LevelOf(total), !.coins = @ + coin]
AdjustRow(r) ==
    LET total == Adjusted(req[r].seen, req[r].amount) IN
    [req[r].seen EXCEPT !.total = total, !.level = LevelOf(total)]
LEMMA PlayRowRow ==
    ASSUME NEW r, req[r].seen \in Progress, req[r].amount \in Nat, NEW coin \in {0, 1}
    PROVE  /\ PlayRow(r, coin) \in Progress
           /\ PlayRow(r, coin).total = req[r].seen.total + req[r].amount
           /\ PlayRow(r, coin).coins = req[r].seen.coins + coin
           /\ PlayRow(r, coin).level = LevelOf(req[r].seen.total + req[r].amount)
  <1> DEFINE total == req[r].seen.total + req[r].amount
             level == LevelOf(total)
             coins == req[r].seen.coins + coin
  <1>1. total \in Nat /\ coins \in Int
    BY DEF Progress
  <1>2. level \in 0..MaxLevel
    BY <1>1, LevelInTable
  <1>3. PlayRow(r, coin) = [req[r].seen EXCEPT !.total = total, !.level = level, !.coins = coins]
    BY DEF PlayRow
  <1> HIDE DEF total, level, coins
  <1>4. /\ PlayRow(r, coin) \in Progress /\ PlayRow(r, coin).total = total
        /\ PlayRow(r, coin).coins = coins /\ PlayRow(r, coin).level = level
    BY <1>1, <1>2, <1>3 DEF Progress
  <1> QED BY <1>4 DEF total, level, coins
LEMMA AdjustRowRow ==
    ASSUME NEW r, req[r].seen \in Progress, req[r].amount \in Nat
    PROVE  AdjustRow(r) \in Progress
  <1> DEFINE total == Adjusted(req[r].seen, req[r].amount)
             level == LevelOf(total)
  <1>1. total \in Nat
    BY DEF Progress, Adjusted, Greater
  <1>2. level \in 0..MaxLevel
    BY <1>1, LevelInTable
  <1>3. AdjustRow(r) = [req[r].seen EXCEPT !.total = total, !.level = level]
    BY DEF AdjustRow
  <1> HIDE DEF total, level
  <1> QED BY <1>1, <1>2, <1>3 DEF Progress

MovesOn(r) ==
    \E q \in Request : /\ Moved(r, q) /\ q.pc \notin {"read", "write"}
                       /\ req' = [req EXCEPT ![r] = q]

\* A step that writes moves its request on and keeps the types.
LEMMA WritesMove ==
    ASSUME TypeInv, NEW r \in Requests, Writes(r)
    PROVE  MovesOn(r) /\ day' = day /\ AccountTypes' /\ KeyTypes'
  <1> USE DEF Final, Steps, Operations, Transactions
  <1> DEFINE seen == req[r].seen
             amount == req[r].amount
  <1>1. KeyTypes /\ AccountTypes /\ \A a \in Amounts : a \in Nat
    BY ProgressionBounds DEF TypeInv, TypeOK, KeyTypes, AccountTypes
  <1>2. MaxLevel \in Nat /\ MaxLevel >= 1 /\ BadgeXp \in Nat /\ MaxDay \in Nat
    BY ProgressionBounds DEF MaxLevel
  <1>3. CASE LoginWrite(r)
    <2>1. /\ amount \in Nat /\ seen \in Progress /\ req[r].today \in 1..MaxDay /\ row \in Progress
      BY <1>3, Fields DEF LoginWrite, At
    <2>2. MovesOn(r)
      BY <1>3, FinishMoves, GotoMoves DEF LoginWrite, At, MovesOn
    <2>3. CASE Duplicate(r)
      BY <1>1, <1>3, <2>2, <2>3 DEF LoginWrite, account, keys, KeyTypes, AccountTypes
    <2>4. CASE ~Duplicate(r)
      <3>1. PICK beside \in Int : /\ row' = LoginRow(seen, req[r].today, beside)
                                  /\ extra' = extra + Greater(0, beside)
                                  /\ ledger' = ledger + row'.total - seen.total
                                  /\ lost' = (lost \/ row.total # seen.total \/ row.coins # seen.coins)
        BY <1>3, <2>1, <2>4, LoginWritten
      <3>2. row' \in Progress /\ row'.total - seen.total \in Nat
        BY <2>1, <3>1, LoginRowRow
      <3>3. ledger' \in Int /\ extra' \in Int /\ lost' \in BOOLEAN
        BY <1>1, <2>1, <3>1, <3>2 DEF AccountTypes, Progress, Greater
      <3> QED BY <1>1, <1>3, <2>2, <3>2, <3>3 DEF LoginWrite, account, keys, KeyTypes, AccountTypes
    <2> QED BY <2>3, <2>4
  <1>4. CASE AwardWrite(r)
    <2>1. /\ amount \in Nat /\ seen \in Progress /\ req[r].today \in 1..MaxDay /\ row \in Progress
      BY <1>4, Fields DEF AwardWrite, At
    <2>2. MovesOn(r)
      BY <1>4, FinishMoves, GotoMoves DEF AwardWrite, At, MovesOn
    <2>3. Awarded(seen, amount) \in Progress
      BY <2>1, AwardedRow
    <2>4. CASE Duplicate(r)
      BY <1>1, <1>4, <2>2, <2>4 DEF AwardWrite, account, keys, KeyTypes, AccountTypes
    <2>5. CASE ~Duplicate(r)
      <3>1. row' \in Progress /\ lost' \in BOOLEAN
        BY <1>1, <1>4, <2>1, <2>3, <2>5, StoredRow DEF AwardWrite, AccountTypes
      <3>2. ledger' = ledger + amount /\ cheerTx' \in Nat /\ sourceTx' \in Nat
        BY <1>1, <1>4, <2>5 DEF AwardWrite, KeyTypes
      <3> QED BY <1>1, <1>4, <2>1, <2>2, <3>1, <3>2 DEF AwardWrite, account, keys, KeyTypes, AccountTypes
    <2> QED BY <2>4, <2>5
  <1>5. CASE GameWrite(r)
    <2>1. /\ amount \in Nat /\ seen \in Progress /\ req[r].today \in 1..MaxDay /\ row \in Progress
      BY <1>5, Fields DEF GameWrite, At
    <2>2. MovesOn(r)
      BY <1>5, FinishMoves DEF GameWrite, At, MovesOn
    <2>3. GameAwarded(seen, amount) \in Progress
      BY <2>1, GameAwardedRow
    <2>4. row' \in Progress /\ lost' \in BOOLEAN /\ ledger' \in Int
      BY <1>1, <1>5, <2>1, <2>3, StoredRow DEF GameWrite, AccountTypes
    <2> QED BY <1>1, <1>5, <2>2, <2>4 DEF GameWrite, account, keys, KeyTypes, AccountTypes
  <1>6. CASE PlayWrite(r)
    <2>1. /\ amount \in Nat /\ seen \in Progress /\ req[r].today \in 1..MaxDay /\ row \in Progress
      BY <1>6, Fields DEF PlayWrite, At
    <2>2. MovesOn(r)
      BY <1>6, FinishMoves DEF PlayWrite, At, MovesOn
    <2>3. PICK coin \in {0, 1} : Store(r, PlayRow(r, coin)) /\ extra' = extra + coin
      BY <1>6 DEF PlayWrite, PlayRow
    <2>4. PlayRow(r, coin) \in Progress
      BY <2>1, PlayRowRow
    <2>5. row' \in Progress /\ lost' \in BOOLEAN
      BY <2>1, <2>3, <2>4, StoredRow
    <2>6. ledger' = ledger + amount /\ UNCHANGED <<day, unrecorded, logins, keys>>
      BY <1>6 DEF PlayWrite
    <2> QED BY <1>1, <2>1, <2>2, <2>3, <2>5, <2>6 DEF account, keys, KeyTypes, AccountTypes
  <1>7. CASE AdjustWrite(r)
    <2>1. /\ amount \in Nat /\ seen \in Progress /\ req[r].today \in 1..MaxDay /\ row \in Progress
      BY <1>7, Fields DEF AdjustWrite, At
    <2>2. MovesOn(r)
      BY <1>7, FinishMoves DEF AdjustWrite, At, MovesOn
    <2>3. AdjustRow(r) \in Progress
      BY <2>1, AdjustRowRow
    <2>4. CASE Duplicate(r)
      BY <1>1, <1>7, <2>2, <2>4 DEF AdjustWrite, account, keys, KeyTypes, AccountTypes
    <2>5. CASE ~Duplicate(r)
      <3>1. Store(r, AdjustRow(r)) /\ ledger' = ledger - amount
        BY <1>7, <2>5 DEF AdjustWrite, AdjustRow
      <3>2. row' \in Progress /\ lost' \in BOOLEAN
        BY <2>1, <2>3, <3>1, StoredRow
      <3> QED BY <1>1, <1>7, <2>1, <2>2, <3>1, <3>2 DEF AdjustWrite, account, keys, KeyTypes, AccountTypes
    <2> QED BY <2>4, <2>5
  <1>8. CASE CoinsWrite(r)
    <2>1. /\ amount \in Nat /\ seen \in Progress /\ req[r].today \in 1..MaxDay /\ row \in Progress
      BY <1>8, Fields DEF CoinsWrite, At
    <2>2. MovesOn(r)
      BY <1>8, FinishMoves DEF CoinsWrite, At, MovesOn
    <2>3. row' = [row EXCEPT !.coins = Greater(0, seen.coins - 1)] /\ Greater(0, seen.coins - 1) \in Int
      BY <1>8, <2>1 DEF CoinsWrite, Greater, Progress
    <2>4. row' \in Progress
      BY <2>1, <2>3 DEF Progress
    <2>5. lost' \in BOOLEAN
      BY <1>8 DEF CoinsWrite
    <2> QED BY <1>1, <1>8, <2>2, <2>4, <2>5 DEF CoinsWrite, account, keys, KeyTypes, AccountTypes
  <1>9. CASE Replace(r)
    <2>1. MovesOn(r)
      BY <1>9, BeginMoves DEF Replace, MovesOn
    <2>2. PICK total \in Amounts, coins \in {0, 1}, streak \in {0, 1} :
             row' = [row EXCEPT !.there = TRUE, !.total = total, !.level = LevelOf(total),
                                !.coins = coins, !.streak = streak]
      BY <1>9 DEF Replace
    <2>3. total \in Nat /\ LevelOf(total) \in 0..MaxLevel
      BY <1>1, LevelInTable
    <2> DEFINE level == LevelOf(total)
    <2>5. row' = [row EXCEPT !.there = TRUE, !.total = total, !.level = level, !.coins = coins,
                             !.streak = streak] /\ level \in 0..MaxLevel
      BY <2>2, <2>3
    <2> HIDE DEF level
    <2>4. row' \in Progress
      <3>1. total \in Nat /\ coins \in Int /\ streak \in Nat /\ row \in Progress
        BY <1>1 DEF AccountTypes
      <3> QED BY <2>5, <3>1 DEF Progress
    <2> QED BY <1>1, <1>9, <2>1, <2>4 DEF Replace, account, keys, KeyTypes, AccountTypes
  <1>10. CASE SoloPay(r)
    <2>1. amount \in Nat /\ row \in Progress
      BY <1>10, Fields DEF SoloPay, At
    <2>2. MovesOn(r)
      BY <1>10, GotoMoves DEF SoloPay, At, MovesOn
    <2>3. row' \in Progress
      BY <1>2, <1>10, <2>1, IncrementedRow DEF SoloPay
    <2> QED BY <1>1, <1>10, <2>1, <2>2, <2>3 DEF SoloPay, account, keys, KeyTypes, AccountTypes
  <1>11. CASE SoloRecord(r)
    <2>1. amount \in Nat /\ row \in Progress
      BY <1>11, Fields DEF SoloRecord, At
    <2>2. MovesOn(r)
      BY <1>11, FinishMoves DEF SoloRecord, At, MovesOn
    <2> QED BY <1>1, <1>11, <2>1, <2>2 DEF SoloRecord, account, keys, KeyTypes, AccountTypes
  <1>12. CASE Approve(r)
    <2>1. PICK a \in Amounts \ {0} : /\ Begin(r, "approve", "ok", a) /\ Increment(a, 0)
                                     /\ unrecorded' = unrecorded + a
      BY <1>12 DEF Approve
    <2>2. MovesOn(r)
      BY <1>1, <2>1, BeginMoves DEF MovesOn
    <2>3. row' \in Progress
      BY <1>1, <1>2, <2>1, IncrementedRow DEF AccountTypes
    <2> QED BY <1>1, <1>12, <2>1, <2>2, <2>3 DEF Approve, account, keys, KeyTypes, AccountTypes
  <1>15. CASE Gift(r)
    <2>1. PICK coins \in Gifts : /\ row' = [row EXCEPT !.there = TRUE, !.coins = row.coins + coins]
                                 /\ extra' = extra + coins
      BY <1>15 DEF Gift
    <2>2. MovesOn(r)
      BY <1>1, <1>15, BeginMoves DEF Gift, MovesOn
    <2>3. row' \in Progress /\ extra' \in Int
      <3>1. coins \in Int /\ row \in Progress /\ extra \in Int
        BY <1>1, CoinEconomies DEF AccountTypes
      <3> DEFINE there == [row EXCEPT !.there = TRUE]
      <3>4. there \in Progress
        BY <3>1 DEF Progress
      <3>2. there.coins = row.coins /\ row.coins \in Int
        BY <3>1 DEF Progress
      <3>3. row' = [there EXCEPT !.coins = row.coins + coins]
        BY <2>1
      <3> HIDE DEF there
      <3>5. row.coins + coins \in Int
        BY <3>1, <3>2
      <3> QED BY <2>1, <3>1, <3>3, <3>4, <3>5 DEF Progress
    <2> QED BY <1>1, <1>15, <2>2, <2>3 DEF Gift, account, keys, KeyTypes, AccountTypes
  <1>13. CASE EnsureCreate(r)
    <2>1. MovesOn(r)
      BY <1>13, FinishMoves DEF EnsureCreate, At, MovesOn
    <2>2. row' \in Progress
      <3>1. CASE row.there
        BY <1>1, <1>13, <3>1 DEF EnsureCreate, AccountTypes
      <3>2. CASE ~row.there
        <4>1. PICK streak \in {0, 1} : row' = [EmptyRow EXCEPT !.streak = streak]
          BY <1>13, <3>2 DEF EnsureCreate
        <4>2. EmptyRow \in Progress
          BY EmptyRowType
        <4> QED BY <4>1, <4>2 DEF Progress
      <3> QED BY <3>1, <3>2
    <2> QED BY <1>1, <1>13, <2>1, <2>2 DEF EnsureCreate, account, keys, KeyTypes, AccountTypes
  <1>14. CASE Unlock(r)
    <2>1. MovesOn(r)
      BY <1>14, FinishMoves DEF Unlock, MovesOn
    <2>2. row' \in Progress
      <3>1. CASE badge
        BY <1>1, <1>14, <3>1 DEF Unlock, AccountTypes
      <3>2. CASE ~badge
        BY <1>1, <1>2, <1>14, <3>2, IncrementedRow DEF Unlock, AccountTypes
      <3> QED BY <3>1, <3>2
    <2>3. CASE badge
      BY <1>1, <1>14, <2>1, <2>2, <2>3 DEF Unlock, account, keys, KeyTypes, AccountTypes
    <2>4. CASE ~badge
      <3>1. badge' \in BOOLEAN /\ badgeTx' \in Nat /\ ledger' \in Int
        BY <1>1, <1>2, <1>14, <2>4 DEF Unlock, KeyTypes, AccountTypes
      <3> QED BY <1>1, <1>14, <2>1, <2>2, <3>1 DEF Unlock, account, keys, KeyTypes, AccountTypes
    <2> QED BY <2>3, <2>4
  <1> QED BY <1>3, <1>4, <1>5, <1>6, <1>7, <1>8, <1>9, <1>10, <1>11, <1>12, <1>13, <1>14, <1>15
      DEF Writes

\* A moved request keeps the types, and the others stay.
LEMMA MovedStep ==
    ASSUME TypeInv, NEW r \in Requests, Moves(r)
    PROVE  /\ req' \in [Requests -> Request] /\ Started'
           /\ \A s \in Requests : req[s].op # "none" => req'[s].op = req[s].op
           /\ Known' \subseteq Known \cup {row'}
  <1>1. PICK q \in Request : Moved(r, q) /\ req' = [req EXCEPT ![r] = q]
    BY DEF Moves
  <1>2. req \in [Requests -> Request] /\ Started
    BY DEF TypeInv, TypeOK
  <1>3. req'[r] = q /\ \A s \in Requests \ {r} : req'[s] = req[s]
    BY <1>1, <1>2
  <1>4. req' \in [Requests -> Request]
    BY <1>1, <1>2
  <1>5. Started'
    <2>1. q.pc # "new" /\ q.op # "none" /\ (q.pc \notin Final => q.today \in 1..MaxDay)
      BY <1>1 DEF Moved, Operations
    <2> QED BY <1>2, <1>3, <2>1 DEF Started
  <1>6. \A s \in Requests : req[s].op # "none" => req'[s].op = req[s].op
    BY <1>1, <1>2, <1>3 DEF Moved, Started
  <1>7. Known' \subseteq Known \cup {row'}
    <2> SUFFICES ASSUME NEW x \in Known' PROVE x \in Known \cup {row'}
      OBVIOUS
    <2>1. CASE x = row'
      BY <2>1
    <2>2. CASE \E s \in Requests : req'[s].pc = "write" /\ x = req'[s].seen
      BY <1>1, <1>3, <2>2 DEF Known, Moved
    <2> QED BY <2>1, <2>2 DEF Known
  <1> QED BY <1>4, <1>5, <1>6, <1>7

\* Every step keeps the types.
LEMMA TypeStep == TypeInv /\ [Next]_vars => TypeInv'
  <1> SUFFICES ASSUME TypeInv, [Next]_vars PROVE TypeInv'
    OBVIOUS
  <1>1. TypeOK
    BY DEF TypeInv
  <1>2. CASE Tick
    <2>1. day' \in 1..MaxDay
      BY <1>1, <1>2, ProgressionBounds DEF Tick, TypeOK
    <2> QED BY <1>1, <1>2, <2>1 DEF Tick, TypeInv, TypeOK, Started, account, keys
  <1>3. ASSUME NEW r \in Requests, Reads(r) PROVE TypeInv'
    BY <1>1, <1>3, ReadsMove, MovedStep DEF TypeInv, TypeOK, KeyTypes, account
  <1>4. ASSUME NEW r \in Requests, Writes(r) PROVE TypeInv'
    <2>1. Moves(r) /\ day' = day /\ AccountTypes' /\ KeyTypes'
      BY <1>4, WritesMove DEF Moves, MovesOn
    <2> QED BY <1>1, <2>1, MovedStep DEF TypeInv, TypeOK, KeyTypes, AccountTypes
  <1>5. CASE UNCHANGED vars
    BY <1>1, <1>5 DEF TypeInv, TypeOK, Started, vars, account, keys
  <1> QED BY <1>2, <1>3, <1>4, <1>5 DEF Next, Reads, Writes

\* The types hold at first.
LEMMA InitTypes == Init => TypeInv
  <1> SUFFICES ASSUME Init PROVE TypeInv
    OBVIOUS
  <1>1. NoRow \in Progress /\ NewRequest \in Request
    BY EmptyRowType, NewRequestType
  <1>2. TypeOK
    <2>1. req \in [Requests -> Request]
      BY <1>1 DEF Init
    <2>2. day \in 1..MaxDay
      BY ProgressionBounds DEF Init
    <2>3. row \in Progress
      BY <1>1 DEF Init
    <2>5. ledger \in Int /\ unrecorded \in Int /\ extra \in Int
      BY DEF Init
    <2>6. lost \in BOOLEAN
      BY DEF Init
    <2>4. /\ logins \subseteq 1..MaxDay /\ cheers \subseteq 1..MaxDay /\ marks \subseteq 1..MaxDay
          /\ badgeTx \in Nat /\ cheerTx \in Nat /\ sourceTx \in Nat
      BY DEF Init
    <2>7. badge \in BOOLEAN /\ completed \in BOOLEAN
      BY DEF Init
    <2> QED BY <2>1, <2>2, <2>3, <2>4, <2>5, <2>6, <2>7 DEF TypeOK
  <1>3. Started
    BY DEF Init, Started, NewRequest
  <1> QED BY <1>2, <1>3 DEF TypeInv

\* The row, the counters and the requests keep their types, whatever the requests,
\* the amounts and the levels are.
THEOREM TypeCorrect == Spec => []TypeOK
  <1>2. TypeInv => TypeOK
    BY DEF TypeInv
  <1> QED BY InitTypes, <1>2, TypeStep, PTL DEF Spec

-----------------------------------------------------------------------------
(* The ledger.                                                             *)

\* A user without a row has no XP.
EmptyInv == row.there \/ row.total = 0
\* The XP that has been paid
Paid == ledger + unrecorded

\* A lost write stays one.
LEMMA LostStays ==
    ASSUME TypeInv, NEW r \in Requests, Writes(r), lost PROVE lost'
  <1>1. ASSUME NEW new, Store(r, new) PROVE lost'
    BY <1>1 DEF Store
  <1> QED BY <1>1 DEF Writes, LoginWrite, AwardWrite, GameWrite, PlayWrite, AdjustWrite, CoinsWrite,
               Replace, Gift, SoloPay, SoloRecord, Approve, EnsureCreate, Unlock

\* A row is never lost, and what is not there yet is empty.
LEMMA RowStays ==
    ASSUME TypeInv, NEW r \in Requests, Writes(r)
    PROVE  row'.there \/ (row'.there = row.there /\ row'.total = row.total)
  <1> USE DEF At
  <1>1. row \in Progress
    BY DEF TypeInv, TypeOK
  <1>2. ASSUME NEW new, Store(r, new) PROVE row'.there
    BY <1>1, <1>2 DEF Store, Progress
  <1>3. ASSUME NEW amount, NEW first, Increment(amount, first) PROVE row'.there
    BY <1>1, <1>3 DEF Increment, Progress
  <1>4. CASE LoginWrite(r)
    <2>1. CASE Duplicate(r)
      BY <1>4, <2>1 DEF LoginWrite
    <2>2. CASE ~Duplicate(r)
      <3>1. req[r].seen \in Progress /\ req[r].today \in 1..MaxDay
        BY <1>4, Fields DEF LoginWrite, Final
      <3>2. PICK beside \in Int : row' = LoginRow(req[r].seen, req[r].today, beside)
        BY <1>4, <2>2, <3>1, LoginWritten
      <3> QED BY <3>1, <3>2, LoginRowRow
    <2> QED BY <2>1, <2>2
  <1>5. CASE AwardWrite(r)
    BY <1>2, <1>5 DEF AwardWrite
  <1>6. CASE GameWrite(r)
    BY <1>2, <1>6 DEF GameWrite
  <1>7. CASE PlayWrite(r)
    BY <1>2, <1>7 DEF PlayWrite
  <1>8. CASE AdjustWrite(r)
    BY <1>2, <1>8 DEF AdjustWrite
  <1>9. CASE CoinsWrite(r)
    BY <1>1, <1>9 DEF CoinsWrite, Progress
  <1>10. CASE Replace(r)
    BY <1>1, <1>10 DEF Replace, Progress
  <1>11. CASE SoloPay(r)
    BY <1>3, <1>11 DEF SoloPay
  <1>12. CASE SoloRecord(r)
    BY <1>12 DEF SoloRecord
  <1>13. CASE Approve(r)
    BY <1>3, <1>13 DEF Approve
  <1>14. CASE EnsureCreate(r)
    BY EmptyRowType, <1>14 DEF EnsureCreate, EmptyRow, NoRow, Progress
  <1>15. CASE Unlock(r)
    BY <1>3, <1>15 DEF Unlock
  <1>16. CASE Gift(r)
    BY <1>1, <1>16 DEF Gift, Progress
  <1> QED BY <1>4, <1>5, <1>6, <1>7, <1>8, <1>9, <1>10, <1>11, <1>12, <1>13, <1>14, <1>15, <1>16
      DEF Writes

\* What a write that only gives does to the XP and to the transactions: it adds the
\* same to both, or it adds to the XP that its request had read.
Given(r, xp) ==
    /\ Paid' = Paid + xp
    /\ \/ row'.total = row.total + xp
       \/ /\ req[r].pc = "write" /\ row'.total = req[r].seen.total + xp
          /\ lost' \/ row.total = req[r].seen.total
LEMMA Accounting ==
    ASSUME TypeInv, EmptyInv, NEW r \in Requests, Writes(r),
           req'[r].op \notin {"adjust", "replace"}
    PROVE  \E xp \in Nat : Given(r, xp)
  <1> USE DEF At, Final
  <1> DEFINE seen == req[r].seen
             amount == req[r].amount
  <1>1. /\ row \in Progress /\ row.total \in Nat /\ ledger \in Int /\ unrecorded \in Int
        /\ BadgeXp \in Nat /\ MaxLevel \in Nat /\ MaxLevel >= 1
    BY ProgressionBounds DEF TypeInv, TypeOK, Progress, MaxLevel
  <1>2. ASSUME UNCHANGED <<row, ledger, unrecorded>> PROVE Given(r, 0)
    BY <1>1, <1>2 DEF Given, Paid
  <1>3. ASSUME NEW new \in Progress, Store(r, new), seen \in Progress,
               new.total = seen.total + amount, amount \in Nat,
               req[r].pc = "write", ledger' = ledger + amount, unrecorded' = unrecorded
        PROVE  Given(r, amount)
    <2>1. row'.total = new.total
      BY <1>1, <1>3, StoredRow
    <2>2. lost' \/ row.total = seen.total
      BY <1>3 DEF Store
    <2> QED BY <1>1, <1>3, <2>1, <2>2 DEF Given, Paid
  <1>4. CASE LoginWrite(r)
    <2>1. CASE Duplicate(r)
      BY <1>2, <1>4, <2>1 DEF LoginWrite
    <2>2. CASE ~Duplicate(r)
      <3>1. seen \in Progress /\ req[r].today \in 1..MaxDay
        BY <1>4, Fields DEF LoginWrite
      <3>2. PICK beside \in Int : /\ row' = LoginRow(seen, req[r].today, beside)
                                  /\ ledger' = ledger + row'.total - seen.total
                                  /\ lost' = (lost \/ row.total # seen.total \/ row.coins # seen.coins)
        BY <1>4, <2>2, <3>1, LoginWritten
      <3>3. row' \in Progress /\ row'.total - seen.total \in Nat /\ unrecorded' = unrecorded
        BY <1>4, <3>1, <3>2, LoginRowRow DEF LoginWrite
      <3>4. row'.total \in Nat /\ seen.total \in Nat
        BY <3>1, <3>3 DEF Progress
      <3> HIDE DEF seen
      <3>5. /\ Paid' = Paid + (row'.total - seen.total)
            /\ row'.total = seen.total + (row'.total - seen.total)
        BY <1>1, <3>2, <3>3, <3>4 DEF Paid
      <3>6. Given(r, row'.total - seen.total)
        BY <1>4, <3>2, <3>5 DEF Given, LoginWrite, seen
      <3> QED BY <3>3, <3>6
    <2> QED BY <2>1, <2>2
  <1>5. CASE AwardWrite(r)
    <2>1. amount \in Nat /\ seen \in Progress
      BY <1>5, Fields DEF AwardWrite
    <2>2. CASE Duplicate(r)
      BY <1>2, <1>5, <2>2 DEF AwardWrite
    <2>3. CASE ~Duplicate(r) /\ amount = 0 /\ seen.there
      BY <1>1, <1>2, <1>5, <2>3 DEF AwardWrite
    <2>4. CASE ~Duplicate(r) /\ ~(amount = 0 /\ seen.there)
      <3>1. Store(r, Awarded(seen, amount)) /\ ledger' = ledger + amount /\ unrecorded' = unrecorded
        BY <1>5, <2>4 DEF AwardWrite
      <3>2. Awarded(seen, amount) \in Progress /\ Awarded(seen, amount).total = seen.total + amount
        BY <2>1, AwardedRow
      <3> QED BY <1>3, <1>5, <2>1, <3>1, <3>2 DEF AwardWrite
    <2> QED BY <2>2, <2>3, <2>4
  <1>6. CASE GameWrite(r)
    <2>1. amount \in Nat /\ seen \in Progress
      BY <1>6, Fields DEF GameWrite
    <2>2. CASE Duplicate(r)
      BY <1>2, <1>6, <2>2 DEF GameWrite
    <2>3. CASE ~Duplicate(r)
      <3>1. /\ Store(r, GameAwarded(seen, amount)) /\ ledger' = ledger + amount
            /\ unrecorded' = unrecorded
        BY <1>6, <2>3 DEF GameWrite
      <3>2. GameAwarded(seen, amount) \in Progress /\ GameAwarded(seen, amount).total = seen.total + amount
        BY <2>1, GameAwardedRow
      <3> QED BY <1>3, <1>6, <2>1, <3>1, <3>2 DEF GameWrite
    <2> QED BY <2>2, <2>3
  <1>7. CASE PlayWrite(r)
    <2>1. amount \in Nat /\ seen \in Progress
      BY <1>7, Fields DEF PlayWrite
    <2>2. PICK coin \in {0, 1} : Store(r, PlayRow(r, coin))
      BY <1>7 DEF PlayWrite, PlayRow
    <2>3. ledger' = ledger + amount /\ unrecorded' = unrecorded /\ req[r].pc = "write"
      BY <1>7 DEF PlayWrite
    <2>4. PlayRow(r, coin) \in Progress /\ PlayRow(r, coin).total = seen.total + amount
      BY <2>1, PlayRowRow
    <2> QED BY <1>3, <2>1, <2>2, <2>3, <2>4
  <1>8. ~AdjustWrite(r) /\ ~Replace(r)
    <2>1. req'[r].op = req[r].op \/ req[r].pc = "new"
      BY WritesMove, MovedStep DEF Moves, MovesOn, TypeInv, Started
    <2>2. ~AdjustWrite(r)
      BY <2>1 DEF AdjustWrite
    <2>3. ~Replace(r)
      <3>1. SUFFICES ASSUME Begin(r, "replace", "ok", 0) PROVE FALSE
        BY DEF Replace
      <3>2. PICK q \in Request : q.op = "replace" /\ req' = [req EXCEPT ![r] = q]
        BY <3>1, BeginMoves DEF Operations
      <3> QED BY <3>2 DEF TypeInv, TypeOK
    <2> QED BY <2>2, <2>3
  <1>9. CASE CoinsWrite(r)
    <2>1. row'.total = row.total
      BY <1>1, <1>9 DEF CoinsWrite, Progress
    <2>2. Given(r, 0)
      BY <1>1, <1>9, <2>1 DEF CoinsWrite, Given, Paid
    <2> QED BY <2>2
  <1>11. CASE SoloPay(r)
    <2>1. amount \in Nat
      BY <1>11, Fields DEF SoloPay
    <2>2. row'.total = row.total + amount
      BY <1>1, <1>11, <2>1, IncrementedRow DEF SoloPay
    <2>3. ledger' = ledger /\ unrecorded' = unrecorded + amount
      BY <1>11 DEF SoloPay
    <2> QED BY <1>1, <2>1, <2>2, <2>3 DEF Given, Paid
  <1>12. CASE SoloRecord(r)
    <2>1. amount \in Nat
      BY <1>12, Fields DEF SoloRecord
    <2>2. ledger' = ledger + amount /\ unrecorded' = unrecorded - amount /\ row' = row
      BY <1>12 DEF SoloRecord
    <2>3. Given(r, 0)
      BY <1>1, <2>1, <2>2 DEF Given, Paid
    <2> QED BY <2>3
  <1>13. CASE Approve(r)
    <2>1. PICK a \in Amounts \ {0} : Increment(a, 0) /\ unrecorded' = unrecorded + a
      BY <1>13 DEF Approve
    <2>2. a \in Nat /\ ledger' = ledger
      BY <1>13, ProgressionBounds DEF Approve
    <2>3. row'.total = row.total + a
      BY <1>1, <2>1, <2>2, IncrementedRow
    <2> QED BY <1>1, <2>1, <2>2, <2>3 DEF Given, Paid
  <1>14. CASE EnsureCreate(r)
    <2>1. row'.total = row.total
      <3>1. CASE row.there
        BY <1>14, <3>1 DEF EnsureCreate
      <3>2. CASE ~row.there
        BY <1>14, <3>2 DEF EnsureCreate, EmptyInv, EmptyRow, NoRow
      <3> QED BY <3>1, <3>2
    <2>2. Given(r, 0)
      BY <1>1, <1>14, <2>1 DEF EnsureCreate, Given, Paid
    <2> QED BY <2>2
  <1>15. CASE Unlock(r)
    <2>1. CASE badge
      BY <1>2, <1>15, <2>1 DEF Unlock
    <2>2. CASE ~badge
      <3>1. row'.total = row.total + BadgeXp
        BY <1>1, <1>15, <2>2, IncrementedRow DEF Unlock
      <3>2. ledger' = ledger + BadgeXp /\ unrecorded' = unrecorded
        BY <1>15, <2>2 DEF Unlock
      <3> QED BY <1>1, <3>1, <3>2 DEF Given, Paid
    <2> QED BY <2>1, <2>2
  <1>16. CASE Gift(r)
    <2>1. row'.total = row.total
      BY <1>1, <1>16 DEF Gift, Progress
    <2>2. Given(r, 0)
      BY <1>1, <1>16, <2>1 DEF Gift, Given, Paid
    <2> QED BY <2>2
  <1> QED BY <1>4, <1>5, <1>6, <1>7, <1>8, <1>9, <1>11, <1>12, <1>13, <1>14, <1>15, <1>16
      DEF Writes

\* Requests keep their operations.
LEMMA NoStays ==
    ASSUME TypeInv, [Next]_vars, NEW ops, "none" \notin ops, No(ops)'
    PROVE  No(ops)
  <1> SUFFICES ASSUME NEW s \in Requests, req[s].op \in ops PROVE req'[s].op = req[s].op
    BY DEF No
  <1>1. CASE Tick \/ UNCHANGED vars
    BY <1>1 DEF Tick, vars
  <1>2. ASSUME NEW r \in Requests, Moves(r) PROVE req'[s].op = req[s].op
    BY <1>2, MovedStep
  <1>3. ASSUME NEW r \in Requests, Reads(r) \/ Writes(r) PROVE Moves(r)
    BY <1>3, ReadsMove, WritesMove DEF Moves, MovesOn
  <1> QED BY <1>1, <1>2, <1>3 DEF Next, Reads, Writes

\* A step reads or writes, or leaves the account and the requests alone.
LEMMA StepCases ==
    ASSUME [Next]_vars
    PROVE  \/ \E r \in Requests : Reads(r) \/ Writes(r)
           \/ UNCHANGED <<account, keys, logins, req>>
  BY DEF Next, Reads, Writes, Tick, vars

Gives == No({"adjust", "replace"})
\* The row, and whatever a request has read of it, is within what has been paid.
BackedInv == TypeInv /\ EmptyInv /\ (Gives => \A x \in Known : x.total <= Paid)
\* While no write has undone another one, the XP is what has been paid.
ExactInv == TypeInv /\ EmptyInv /\ (Gives /\ ~lost => row.total = Paid)

LEMMA EmptyStep == TypeInv /\ EmptyInv /\ [Next]_vars => EmptyInv'
  <1> SUFFICES ASSUME TypeInv, EmptyInv, [Next]_vars PROVE EmptyInv'
    OBVIOUS
  <1>1. CASE UNCHANGED account
    BY <1>1 DEF EmptyInv, account
  <1>2. ASSUME NEW r \in Requests, Writes(r) PROVE EmptyInv'
    BY <1>2, RowStays DEF EmptyInv
  <1> QED BY <1>1, <1>2, ReadsMove, StepCases

LEMMA BackedStep == BackedInv /\ [Next]_vars => BackedInv'
  <1> SUFFICES ASSUME BackedInv, [Next]_vars PROVE BackedInv'
    OBVIOUS
  <1>1. TypeInv /\ EmptyInv /\ TypeInv' /\ EmptyInv'
    BY TypeStep, EmptyStep DEF BackedInv
  <1> SUFFICES ASSUME Gives', NEW x \in Known' PROVE x.total <= Paid'
    BY <1>1 DEF BackedInv
  <1>2. Gives
    BY <1>1, NoStays DEF Gives
  <1>3. \A y \in Known : y.total <= Paid
    BY <1>2 DEF BackedInv
  <1>4. CASE UNCHANGED <<account, keys, logins, req>>
    BY <1>3, <1>4 DEF Known, account, Paid
  <1>5. ASSUME NEW r \in Requests, Reads(r) PROVE x.total <= Paid'
    <2>1. UNCHANGED account /\ Known' \subseteq Known \cup {row'}
      BY <1>1, <1>5, ReadsMove, MovedStep
    <2> QED BY <1>3, <2>1 DEF Known, account, Paid
  <1>6. ASSUME NEW r \in Requests, Writes(r) PROVE x.total <= Paid'
    <2>1. Known' \subseteq Known \cup {row'}
      BY <1>1, <1>6, WritesMove, MovedStep DEF Moves, MovesOn
    <2>2. PICK xp \in Nat : Given(r, xp)
      BY <1>1, <1>6, Accounting DEF Gives, No
    <2>3. \A y \in Known : y.total \in Nat /\ y.total + xp <= Paid'
      <3>1. \A y \in Known : y \in Progress
        BY <1>1 DEF Known, TypeInv, TypeOK, Request
      <3>2. Paid \in Int
        BY <1>1 DEF TypeInv, TypeOK, Paid
      <3> QED BY <1>3, <2>2, <3>1, <3>2 DEF Given, Progress
    <2>4. row'.total <= Paid'
      BY <2>2, <2>3 DEF Given, Known
    <2>5. Paid' \in Int
      BY <1>1 DEF TypeInv, TypeOK, Paid
    <2> QED BY <2>1, <2>3, <2>4, <2>5
  <1> QED BY <1>4, <1>5, <1>6, StepCases

LEMMA ExactStep == ExactInv /\ [Next]_vars => ExactInv'
  <1> SUFFICES ASSUME ExactInv, [Next]_vars PROVE ExactInv'
    OBVIOUS
  <1>1. TypeInv /\ EmptyInv /\ TypeInv' /\ EmptyInv'
    BY TypeStep, EmptyStep DEF ExactInv
  <1> SUFFICES ASSUME Gives', ~lost' PROVE row'.total = Paid'
    BY <1>1 DEF ExactInv
  <1>2. Gives
    BY <1>1, NoStays DEF Gives
  <1>3. CASE UNCHANGED account
    BY <1>2, <1>3 DEF ExactInv, account, Paid
  <1>4. ASSUME NEW r \in Requests, Writes(r) PROVE row'.total = Paid'
    <2>1. ~lost
      BY <1>1, <1>4, LostStays
    <2>2. PICK xp \in Nat : Given(r, xp)
      BY <1>1, <1>4, Accounting DEF Gives, No
    <2>3. row.total = Paid
      BY <1>2, <2>1 DEF ExactInv
    <2> QED BY <2>2, <2>3 DEF Given
  <1>5. ASSUME NEW r \in Requests, Reads(r) PROVE UNCHANGED account
    BY <1>1, <1>5, ReadsMove
  <1> QED BY <1>3, <1>4, <1>5, StepCases DEF account

\* However the writers of the row cross, a user never has more XP than the
\* transactions and the increments without one explain.
LEMMA XpIsBacked == Spec => [](Gives => row.total <= Paid)
  <1>1. Init => BackedInv
    <2> SUFFICES ASSUME Init PROVE BackedInv
      OBVIOUS
    <2>1. TypeInv
      BY InitTypes
    <2>2. row.total = 0 /\ Paid = 0 /\ Known = {row}
      BY DEF Init, NoRow, Paid, Known, NewRequest
    <2> QED BY <2>1, <2>2 DEF BackedInv, EmptyInv
  <1>2. BackedInv => (Gives => row.total <= Paid)
    BY DEF BackedInv, Known
  <1> QED BY <1>1, <1>2, BackedStep, PTL DEF Spec

\* As long as no write undid another one, the XP is exactly the sum of what was paid.
LEMMA TotalIsTheLedger == Spec => [](Gives /\ ~lost => row.total = Paid)
  <1>1. Init => ExactInv
    <2> SUFFICES ASSUME Init PROVE ExactInv
      OBVIOUS
    <2>1. TypeInv
      BY InitTypes
    <2>2. row.total = 0 /\ Paid = 0
      BY DEF Init, NoRow, Paid
    <2> QED BY <2>1, <2>2 DEF ExactInv, EmptyInv
  <1>2. ExactInv => (Gives /\ ~lost => row.total = Paid)
    BY DEF ExactInv
  <1> QED BY <1>1, <1>2, ExactStep, PTL DEF Spec

\* Both together: the XP of a user never exceeds what was paid to him, and is
\* exactly that as long as no write undid another one.
THEOREM XpIsExplained == Spec => []XpExplained
  <1>1. (Gives => row.total <= Paid) /\ (Gives /\ ~lost => row.total = Paid) => XpExplained
    BY DEF XpExplained, Gives, Paid
  <1> QED BY <1>1, XpIsBacked, TotalIsTheLedger, PTL

-----------------------------------------------------------------------------
(* The streak.                                                             *)

\* The days that a row counts are days of logins.
Truthful(x) == x.last # 0 => \A k \in 1..x.streak : x.last - k + 1 \in logins
LoggedIn == \A r \in Requests :
    req[r].op = "login" /\ req[r].pc \in {"read", "write"} => req[r].today \in logins
StreakInv == TypeInv /\ LoggedIn /\ (No({"replace"}) => \A x \in Known : Truthful(x))

\* The day of a login request is a day of a login.
LEMMA LoggedInStep == TypeInv /\ LoggedIn /\ [Next]_vars => LoggedIn' /\ logins \subseteq logins'
  <1> SUFFICES ASSUME TypeInv, LoggedIn, [Next]_vars PROVE LoggedIn' /\ logins \subseteq logins'
    OBVIOUS
  <1>1. CASE UNCHANGED <<account, keys, logins, req>>
    BY <1>1 DEF LoggedIn
  <1>2. ASSUME NEW r \in Requests, Moves(r), logins \subseteq logins',
               req'[r].op = "login" /\ req'[r].pc \in {"read", "write"} =>
                  \/ req[r].op = "login" /\ req[r].pc \in {"read", "write"}
                  \/ req[r].pc = "new" /\ day \in logins'
        PROVE  LoggedIn' /\ logins \subseteq logins'
    <2>1. PICK q \in Request : Moved(r, q) /\ req' = [req EXCEPT ![r] = q]
      BY <1>2 DEF Moves
    <2>2. req'[r] = q /\ \A s \in Requests \ {r} : req'[s] = req[s]
      BY <2>1 DEF TypeInv, TypeOK
    <2>3. q.op = "login" /\ q.pc \in {"read", "write"} => q.today \in logins'
      BY <1>2, <2>1, <2>2 DEF Moved, LoggedIn, Final
    <2> QED BY <1>2, <2>2, <2>3 DEF LoggedIn
  <1>3. ASSUME NEW r \in Requests, Reads(r) PROVE LoggedIn' /\ logins \subseteq logins'
    <2>1. CASE LoginCall(r)
      <3>1. Begin(r, "login", "read", 0) /\ logins' = logins \cup {day}
        BY <2>1 DEF LoginCall
      <3> QED BY <1>2, <1>3, <3>1, ReadsMove DEF Begin
    <2>2. CASE LoginRead(r)
      BY <1>2, <1>3, <2>2, ReadsMove DEF LoginRead, At
    <2>3. CASE req[r].pc = "new" /\ ~LoginCall(r)
      <3>1. \E op \in Operations \ {"login"} : \E pc, a : Begin(r, op, pc, a)
        BY <1>3, <2>3 DEF Reads, AwardCall, EncourageCall, SyncCall, ByValueCall, FinishCall,
                          DailyCall, EnsureCall, BadgesCall, LoginRead, EncourageCreate, AwardRead,
                          ByValueRead, FinishMark, DailyMark, BadgesRead, At, Operations,
                          Transactions
      <3>2. req'[r].op # "login"
        <4>1. PICK op \in Operations \ {"login"} : \E pc, a : Begin(r, op, pc, a)
          BY <3>1
        <4>2. PICK pc, a : Begin(r, op, pc, a)
          BY <4>1
        <4>3. req'[r] = [NewRequest EXCEPT !.op = op, !.pc = pc, !.amount = a, !.today = day]
          BY <4>2 DEF Begin, TypeInv, TypeOK
        <4> QED BY <4>3 DEF NewRequest
      <3>3. logins' = logins
        BY <1>3, <2>3 DEF Reads, AwardCall, EncourageCall, SyncCall, ByValueCall, FinishCall,
                          DailyCall, EnsureCall, BadgesCall, LoginRead, EncourageCreate, AwardRead,
                          ByValueRead, FinishMark, DailyMark, BadgesRead, At
      <3> QED BY <1>2, <1>3, <3>2, <3>3, ReadsMove
    <2>4. CASE req[r].pc # "new" /\ ~LoginRead(r)
      <3>1. req'[r].op = "login" => req'[r].pc \notin {"read", "write"}
        <4>1. req'[r].op = req[r].op
          BY <1>3, <2>4, ReadsMove, MovedStep DEF TypeInv, Started
        <4>2. BadgesRead(r) \/ req[r].op # "login"
          BY <1>3, <2>4 DEF Reads, LoginCall, AwardCall, EncourageCall, SyncCall, ByValueCall,
                            FinishCall, DailyCall, EnsureCall, BadgesCall, EncourageCreate,
                            AwardRead, ByValueRead, FinishMark, DailyMark, At, Begin, Transactions
        <4>3. BadgesRead(r) => req'[r].pc \notin {"read", "write"}
          <5> SUFFICES ASSUME BadgesRead(r) PROVE req'[r].pc \notin {"read", "write"}
            OBVIOUS
          <5>1. req[r].pc \notin Final \cup {"new"} /\ (Goto(r, "unlock") \/ Finish(r, "ok"))
            BY DEF BadgesRead, Final
          <5>2. \E q \in Request : q.pc \in {"unlock", "ok"} /\ req' = [req EXCEPT ![r] = q]
            BY <5>1, GotoMoves, FinishMoves DEF Steps, Final
          <5> QED BY <5>2 DEF TypeInv, TypeOK
        <4> QED BY <4>1, <4>2, <4>3
      <3>2. logins' = logins
        BY <1>3, <2>4 DEF Reads, LoginCall, AwardCall, EncourageCall, SyncCall, ByValueCall,
                          FinishCall, DailyCall, EnsureCall, BadgesCall, EncourageCreate, AwardRead,
                          ByValueRead, FinishMark, DailyMark, BadgesRead, At, Begin
      <3> QED BY <1>2, <1>3, <3>1, <3>2, ReadsMove
    <2> QED BY <2>1, <2>2, <2>3, <2>4
  <1>4. ASSUME NEW r \in Requests, Writes(r) PROVE LoggedIn' /\ logins \subseteq logins'
    <2>1. logins' = logins
      BY <1>4 DEF Writes, LoginWrite, AwardWrite, GameWrite, PlayWrite, AdjustWrite, CoinsWrite,
                  Replace, Gift, SoloPay, SoloRecord, Approve, EnsureCreate, Unlock
    <2>2. PICK q \in Request : /\ Moved(r, q) /\ q.pc \notin {"read", "write"}
                               /\ req' = [req EXCEPT ![r] = q]
      BY <1>4, WritesMove DEF MovesOn
    <2>3. req'[r].pc \notin {"read", "write"} /\ Moves(r)
      BY <2>2 DEF TypeInv, TypeOK, Moves
    <2> QED BY <1>2, <2>1, <2>3
  <1> QED BY <1>1, <1>3, <1>4, StepCases

\* A login that continues the streak of a truthful row leaves a truthful one.
LEMMA StreakGrows ==
    ASSUME NEW x \in Progress, NEW today \in 1..MaxDay, NEW beside \in Int,
           today \in logins, Truthful(x)
    PROVE  Truthful(LoginRow(x, today, beside))
  <1> DEFINE y == LoginRow(x, today, beside)
  <1>1. y.streak = Streak(x, today) /\ y.last = today
    BY LoginRowRow
  <1>2. MaxDay \in Nat /\ today \in Nat /\ x.streak \in Nat /\ x.last \in Nat
    BY ProgressionBounds DEF Progress
  <1> SUFFICES ASSUME NEW k \in 1..Streak(x, today) PROVE today - k + 1 \in logins
    BY <1>1 DEF Truthful
  <1>3. CASE k = 1
    BY <1>2, <1>3
  <1>4. CASE k # 1
    <2>1. x.last # 0 /\ x.last = today - 1 /\ k - 1 \in 1..x.streak
      BY <1>2, <1>4 DEF Streak
    <2>2. x.last - (k - 1) + 1 \in logins
      BY <2>1 DEF Truthful
    <2> QED BY <1>2, <2>1, <2>2
  <1> QED BY <1>3, <1>4

\* A write keeps the streak and its date, or it is a login, or it has no date.
LEMMA StreakWrites ==
    ASSUME TypeInv, NEW r \in Requests, Writes(r), ~Replace(r)
    PROVE  \/ row'.streak = row.streak /\ row'.last = row.last
           \/ row'.last = 0
           \/ LoginWrite(r) /\ \E beside \in Int : row' = LoginRow(req[r].seen, req[r].today, beside)
  <1> USE DEF At, Final
  <1>1. row \in Progress
    BY DEF TypeInv, TypeOK
  <1>2. ASSUME NEW new, Store(r, new) PROVE row'.streak = row.streak /\ row'.last = row.last
    BY <1>1, <1>2 DEF Store, Progress
  <1>3. ASSUME NEW amount, NEW first, Increment(amount, first)
        PROVE row'.streak = row.streak /\ row'.last = row.last
    BY <1>1, <1>3 DEF Increment, Progress
  <1>4. CASE LoginWrite(r)
    <2>1. CASE Duplicate(r)
      BY <1>4, <2>1 DEF LoginWrite
    <2>2. CASE ~Duplicate(r)
      BY <1>4, <2>2, Fields, LoginWritten DEF LoginWrite
    <2> QED BY <2>1, <2>2
  <1>5. CASE AwardWrite(r)
    BY <1>2, <1>5 DEF AwardWrite
  <1>6. CASE GameWrite(r)
    BY <1>2, <1>6 DEF GameWrite
  <1>7. CASE PlayWrite(r)
    BY <1>2, <1>7 DEF PlayWrite
  <1>8. CASE AdjustWrite(r)
    BY <1>2, <1>8 DEF AdjustWrite
  <1>9. CASE CoinsWrite(r)
    BY <1>1, <1>9 DEF CoinsWrite, Progress
  <1>11. CASE SoloPay(r)
    BY <1>3, <1>11 DEF SoloPay
  <1>12. CASE SoloRecord(r)
    BY <1>12 DEF SoloRecord
  <1>13. CASE Approve(r)
    BY <1>3, <1>13 DEF Approve
  <1>14. CASE EnsureCreate(r)
    BY EmptyRowType, <1>14 DEF EnsureCreate, EmptyRow, NoRow, Progress
  <1>15. CASE Unlock(r)
    BY <1>3, <1>15 DEF Unlock
  <1>16. CASE Gift(r)
    BY <1>1, <1>16 DEF Gift, Progress
  <1> QED BY <1>4, <1>5, <1>6, <1>7, <1>8, <1>9, <1>11, <1>12, <1>13, <1>14, <1>15, <1>16
      DEF Writes

LEMMA StreakStep == StreakInv /\ [Next]_vars => StreakInv'
  <1> SUFFICES ASSUME StreakInv, [Next]_vars PROVE StreakInv'
    OBVIOUS
  <1>1. TypeInv /\ LoggedIn /\ TypeInv' /\ LoggedIn' /\ logins \subseteq logins'
    BY TypeStep, LoggedInStep DEF StreakInv
  <1> SUFFICES ASSUME No({"replace"})', NEW x \in Known' PROVE Truthful(x)'
    BY <1>1 DEF StreakInv
  <1>2. \A y \in Known : Truthful(y)
    BY <1>1, NoStays DEF StreakInv
  <1>3. ASSUME NEW y, Truthful(y) PROVE Truthful(y)'
    BY <1>1, <1>3 DEF Truthful
  <1>4. CASE UNCHANGED <<account, keys, logins, req>>
    BY <1>2, <1>3, <1>4 DEF Known, account
  <1>5. ASSUME NEW r \in Requests, Reads(r) PROVE Truthful(x)'
    <2>1. row' = row /\ Known' \subseteq Known \cup {row'}
      BY <1>1, <1>5, ReadsMove, MovedStep DEF account
    <2> QED BY <1>2, <1>3, <2>1 DEF Known
  <1>6. ASSUME NEW r \in Requests, Writes(r) PROVE Truthful(x)'
    <2>1. Known' \subseteq Known \cup {row'}
      BY <1>1, <1>6, WritesMove, MovedStep DEF Moves, MovesOn
    <2>2. SUFFICES ASSUME x = row' PROVE Truthful(x)'
      BY <1>2, <1>3, <2>1
    <2>3. ~Replace(r)
      <3>1. SUFFICES ASSUME Begin(r, "replace", "ok", 0) PROVE FALSE
        BY DEF Replace
      <3>2. PICK q \in Request : q.op = "replace" /\ req' = [req EXCEPT ![r] = q]
        BY <1>1, <3>1, BeginMoves DEF Operations, Final
      <3>3. req'[r] = q
        BY <1>1, <3>2 DEF TypeInv, TypeOK
      <3> QED BY <3>2, <3>3 DEF No
    <2>4. CASE row'.streak = row.streak /\ row'.last = row.last
      <3>1. Truthful(row)
        BY <1>2 DEF Known
      <3> QED BY <1>1, <2>2, <2>4, <3>1 DEF Truthful
    <2>5. CASE row'.last = 0
      BY <2>2, <2>5 DEF Truthful
    <2>6. CASE LoginWrite(r) /\ \E beside \in Int : row' = LoginRow(req[r].seen, req[r].today, beside)
      <3> PICK beside \in Int : row' = LoginRow(req[r].seen, req[r].today, beside)
        BY <2>6
      <3>1. req[r].seen \in Progress /\ req[r].today \in 1..MaxDay
        BY <1>1, <2>6, Fields DEF LoginWrite, At, Final
      <3>2. req[r].today \in logins /\ Truthful(req[r].seen)
        BY <1>1, <1>2, <2>6 DEF LoginWrite, At, LoggedIn, Known
      <3>3. Truthful(LoginRow(req[r].seen, req[r].today, beside))
        BY <3>1, <3>2, StreakGrows
      <3> QED BY <1>1, <2>2, <2>6, <3>3 DEF Truthful
    <2> QED BY <1>1, <1>6, <2>3, <2>4, <2>5, <2>6, StreakWrites
  <1> QED BY <1>4, <1>5, <1>6, StepCases

\* A streak counts only days on which the user did log in, whatever crosses.
THEOREM StreakIsTruthful == Spec => []StreakTruthful
  <1>1. Init => StreakInv
    <2> SUFFICES ASSUME Init PROVE StreakInv
      OBVIOUS
    <2>1. TypeInv
      BY InitTypes
    <2>2. row.last = 0 /\ Known = {row} /\ LoggedIn
      BY DEF Init, NoRow, Known, NewRequest, LoggedIn
    <2> QED BY <2>1, <2>2 DEF StreakInv, Truthful
  <1>2. StreakInv => StreakTruthful
    BY DEF StreakInv, StreakTruthful, Known, Truthful
  <1> QED BY <1>1, <1>2, StreakStep, PTL DEF Spec

-----------------------------------------------------------------------------
(* Payments that have a key.                                               *)

\* Encouragements created, and not paid yet
Pending == {r \in Requests : req[r].op = "encourage" /\ req[r].pc \in {"read", "write"}}
KeyInv ==
    /\ TypeInv
    /\ badgeTx = IF badge THEN 1 ELSE 0
    /\ Cardinality(Pending) + cheerTx <= Cardinality(cheers)

\* The sets that are counted are finite.
LEMMA Counted ==
    ASSUME TypeInv
    PROVE  /\ IsFiniteSet(Pending) /\ Cardinality(Pending) \in Nat
           /\ IsFiniteSet(cheers) /\ Cardinality(cheers) \in Nat /\ cheerTx \in Nat
  <1>1. IsFiniteSet(Pending)
    BY ProgressionBounds, FS_Subset DEF Pending
  <1>2. IsFiniteSet(1..MaxDay) /\ cheers \subseteq 1..MaxDay
    BY ProgressionBounds, FS_Interval DEF TypeInv, TypeOK
  <1>3. IsFiniteSet(cheers)
    BY <1>2, FS_Subset
  <1> QED BY <1>1, <1>3, FS_CardinalityType DEF TypeInv, TypeOK

LEMMA CountedNext == Cardinality(Pending') \in Nat
  <1>1. IsFiniteSet(Pending')
    BY ProgressionBounds, FS_Subset DEF Pending
  <1> QED BY <1>1, FS_CardinalityType

\* Only the row of an encouragement makes a payment pending.
LEMMA ReadsPending ==
    ASSUME TypeInv, NEW r \in Requests, Reads(r), ~EncourageCreate(r)
    PROVE  Pending' \subseteq Pending
  <1>1. PICK q \in Request : Moved(r, q) /\ req' = [req EXCEPT ![r] = q]
    BY ReadsMove DEF Moves
  <1>2. req'[r] = q /\ \A s \in Requests \ {r} : req'[s] = req[s]
    BY <1>1 DEF TypeInv, TypeOK
  <1>3. SUFFICES ASSUME q.op = "encourage", q.pc \in {"read", "write"} PROVE r \in Pending
    BY <1>2 DEF Pending
  <1>4. req[r].pc # "new"
    <2> SUFFICES ASSUME req[r].pc = "new" PROVE FALSE
      OBVIOUS
    <2>1. PICK op, pc, a : Begin(r, op, pc, a) /\ (op = "encourage" => pc \notin {"read", "write"})
      BY DEF Reads, LoginCall, AwardCall, EncourageCall, SyncCall, ByValueCall, FinishCall,
             DailyCall, EnsureCall, BadgesCall, LoginRead, AwardRead, ByValueRead,
             FinishMark, DailyMark, BadgesRead, At, Operations, Transactions
    <2>2. q = [NewRequest EXCEPT !.op = op, !.pc = pc, !.amount = a, !.today = day]
      BY <1>2, <2>1 DEF Begin, TypeInv, TypeOK
    <2>3. q.op = op /\ q.pc = pc
      BY <2>2 DEF NewRequest
    <2> QED BY <1>3, <2>1, <2>3
  <1>5. req[r].op = "encourage"
    BY <1>1, <1>3, <1>4 DEF Moved
  <1>6. AwardRead(r) \/ BadgesRead(r)
    BY <1>4, <1>5 DEF Reads, LoginCall, AwardCall, EncourageCall, SyncCall, ByValueCall, FinishCall,
             DailyCall, EnsureCall, BadgesCall, LoginRead, ByValueRead,
             FinishMark, DailyMark, At, Begin, Transactions
  <1>7. ~BadgesRead(r)
    <2> SUFFICES ASSUME BadgesRead(r) PROVE req'[r].pc \notin {"read", "write"}
      BY <1>2, <1>3
    <2>1. req[r].pc \notin Final \cup {"new"} /\ (Goto(r, "unlock") \/ Finish(r, "ok"))
      BY DEF BadgesRead, Final
    <2>2. \E p \in Request : p.pc \in {"unlock", "ok"} /\ req' = [req EXCEPT ![r] = p]
      BY <2>1, GotoMoves, FinishMoves DEF Steps, Final
    <2> QED BY <2>2 DEF TypeInv, TypeOK
  <1> QED BY <1>5, <1>6, <1>7 DEF AwardRead, At, Pending

LEMMA KeyStep == KeyInv /\ [Next]_vars => KeyInv'
  <1> SUFFICES ASSUME KeyInv, [Next]_vars PROVE KeyInv'
    OBVIOUS
  <1>1. TypeInv /\ TypeInv'
    BY TypeStep DEF KeyInv
  <1>2. /\ IsFiniteSet(Pending) /\ Cardinality(Pending) \in Nat /\ Cardinality(Pending') \in Nat
        /\ IsFiniteSet(cheers) /\ Cardinality(cheers) \in Nat /\ cheerTx \in Nat
    BY <1>1, Counted, CountedNext
  <1>3. ASSUME Pending' \subseteq Pending, UNCHANGED <<cheers, cheerTx>>
        PROVE  Cardinality(Pending') + cheerTx' <= Cardinality(cheers')
    BY <1>2, <1>3, FS_Subset DEF KeyInv
  <1>4. CASE UNCHANGED <<account, keys, logins, req>>
    BY <1>1, <1>4 DEF KeyInv, Pending, keys
  <1>5. ASSUME NEW r \in Requests, Reads(r) PROVE KeyInv'
    <2>1. UNCHANGED <<badge, badgeTx>>
      BY <1>5 DEF Reads, LoginCall, AwardCall, EncourageCall, SyncCall, ByValueCall, FinishCall,
             DailyCall, EnsureCall, BadgesCall, LoginRead, AwardRead, ByValueRead, EncourageCreate,
             FinishMark, DailyMark, BadgesRead, keys
    <2>2. CASE ~EncourageCreate(r)
      <3>1. UNCHANGED <<cheers, cheerTx>>
        BY <1>5, <2>2 DEF Reads, LoginCall, AwardCall, EncourageCall, SyncCall, ByValueCall,
             FinishCall, DailyCall, EnsureCall, BadgesCall, LoginRead, AwardRead, ByValueRead,
             FinishMark, DailyMark, BadgesRead, keys
      <3>2. Cardinality(Pending') + cheerTx' <= Cardinality(cheers')
        BY <1>1, <1>3, <1>5, <2>2, <3>1, ReadsPending
      <3> QED BY <1>1, <2>1, <3>2 DEF KeyInv
    <2>3. CASE EncourageCreate(r)
      <3> DEFINE today == req[r].today
      <3>1. cheers' = cheers \cup {today} /\ cheerTx' = cheerTx
        BY <2>3 DEF EncourageCreate
      <3>2. req[r].pc \notin Final \cup {"new"} /\ req[r].pc = "create"
        BY <2>3 DEF EncourageCreate, At, Final
      <3>3. CASE today \in cheers
        <4>1. \E q \in Request : q.pc = "failed" /\ req' = [req EXCEPT ![r] = q]
          BY <1>1, <2>3, <3>2, <3>3, FinishMoves DEF EncourageCreate, Final
        <4>2. Pending' \subseteq Pending
          BY <1>1, <4>1 DEF Pending, TypeInv, TypeOK
        <4>3. cheers' = cheers
          BY <3>1, <3>3
        <4> QED BY <1>1, <1>3, <2>1, <3>1, <4>2, <4>3 DEF KeyInv
      <3>4. CASE today \notin cheers
        <4>1. \E q \in Request : q.pc = "read" /\ q.op = req[r].op /\ req' = [req EXCEPT ![r] = q]
          BY <1>1, <2>3, <3>2, <3>4, GotoMoves DEF EncourageCreate, Steps
        <4>2. Pending' = Pending \cup {r} /\ r \notin Pending
          BY <1>1, <2>3, <3>2, <4>1 DEF Pending, TypeInv, TypeOK, EncourageCreate, At
        <4>3. Cardinality(Pending') = Cardinality(Pending) + 1
          BY <1>2, <4>2, FS_AddElement
        <4>4. Cardinality(cheers') = Cardinality(cheers) + 1
          BY <1>2, <3>1, <3>4, FS_AddElement
        <4>5. Cardinality(Pending') + cheerTx' <= Cardinality(cheers')
          BY <1>2, <3>1, <4>3, <4>4 DEF KeyInv
        <4> QED BY <1>1, <2>1, <4>5 DEF KeyInv
      <3> QED BY <3>3, <3>4
    <2> QED BY <2>2, <2>3
  <1>6. ASSUME NEW r \in Requests, Writes(r) PROVE KeyInv'
    <2>1. PICK q \in Request : /\ Moved(r, q) /\ q.pc \notin {"read", "write"}
                               /\ req' = [req EXCEPT ![r] = q]
      BY <1>1, <1>6, WritesMove DEF MovesOn
    <2>2. Pending' = Pending \ {r}
      BY <1>1, <2>1 DEF Pending, TypeInv, TypeOK
    <2>3. cheers' = cheers
      BY <1>6 DEF Writes, LoginWrite, AwardWrite, GameWrite, PlayWrite, AdjustWrite, CoinsWrite,
                  Replace, Gift, SoloPay, SoloRecord, Approve, EnsureCreate, Unlock, keys
    <2>4. Cardinality(Pending') + cheerTx' <= Cardinality(cheers')
      <3>1. CASE cheerTx' = cheerTx
        BY <1>3, <2>2, <2>3, <3>1
      <3>2. CASE cheerTx' # cheerTx
        <4>1. cheerTx' = cheerTx + 1 /\ r \in Pending
          <5>1. AwardWrite(r)
            BY <1>6, <3>2 DEF Writes, LoginWrite, GameWrite, PlayWrite, AdjustWrite,
                  CoinsWrite, Replace, Gift, SoloPay, SoloRecord, Approve, EnsureCreate, Unlock, keys
          <5>2. cheerTx' = cheerTx + IF req[r].op = "encourage" THEN 1 ELSE 0
            BY <3>2, <5>1 DEF AwardWrite
          <5>3. req[r].op = "encourage" /\ req[r].pc = "write"
            BY <1>2, <3>2, <5>1, <5>2 DEF AwardWrite, At
          <5> QED BY <5>2, <5>3 DEF Pending
        <4>2. Cardinality(Pending') = Cardinality(Pending) - 1
          BY <1>2, <2>2, <4>1, FS_RemoveElement
        <4> QED BY <1>2, <2>3, <4>1, <4>2 DEF KeyInv
      <3> QED BY <3>1, <3>2
    <2>5. badgeTx' = IF badge' THEN 1 ELSE 0
      <3>1. CASE Unlock(r)
        <4>1. CASE badge
          BY <3>1, <4>1 DEF Unlock, KeyInv
        <4>2. CASE ~badge
          <5>1. badgeTx = 0
            BY <4>2 DEF KeyInv
          <5>2. badge' /\ badgeTx' = badgeTx + 1
            BY <3>1, <4>2 DEF Unlock
          <5> QED BY <5>1, <5>2
        <4> QED BY <4>1, <4>2
      <3>2. CASE ~Unlock(r)
        <4>1. badge' = badge /\ badgeTx' = badgeTx
          BY <1>6, <3>2 DEF Writes, LoginWrite, AwardWrite, GameWrite, PlayWrite, AdjustWrite,
                  CoinsWrite, Replace, Gift, SoloPay, SoloRecord, Approve, EnsureCreate, keys
        <4> QED BY <4>1 DEF KeyInv
      <3> QED BY <3>1, <3>2
    <2> QED BY <1>1, <2>4, <2>5 DEF KeyInv
  <1> QED BY <1>4, <1>5, <1>6, StepCases

\* The badge is paid once, and an encouragement at most once a day.
THEOREM PaidOncePerKey == Spec => []PaidPerKey
  <1>1. Init => KeyInv
    <2> SUFFICES ASSUME Init PROVE KeyInv
      OBVIOUS
    <2>1. TypeInv
      BY InitTypes
    <2>2. Pending = {} /\ cheers = {} /\ cheerTx = 0
      BY DEF Init, Pending, NewRequest
    <2>3. badgeTx = IF badge THEN 1 ELSE 0
      BY DEF Init
    <2>4. Cardinality(Pending) + cheerTx <= Cardinality(cheers)
      BY <2>2, FS_EmptySet
    <2> QED BY <2>1, <2>3, <2>4 DEF KeyInv
  <1>2. KeyInv => PaidPerKey
    BY Counted DEF KeyInv, PaidPerKey
  <1> QED BY <1>1, <1>2, KeyStep, PTL DEF Spec

-----------------------------------------------------------------------------
(* The coins of the levels.                                                *)

\* Coins are within those of the level and of the XP, with those of the decks.
GoodCoins(x, e) ==
    /\ x.coins <= CoinsUpTo[x.level] + e /\ x.coins <= CoinsUpTo[LevelOf(x.total)] + e
    /\ x.there \/ x.coins = 0
ByScale == No({"adjust", "replace", "game", "coins"})
CoinInv == TypeInv /\ extra \in Nat /\ (ByScale => \A x \in Known : GoodCoins(x, extra))

\* More XP is not a lower level.
LEMMA LevelGrows ==
    ASSUME NEW m \in Int, NEW n \in Int, m <= n
    PROVE  /\ LevelOf(m) \in 0..MaxLevel /\ LevelOf(n) \in 0..MaxLevel /\ LevelOf(m) <= LevelOf(n)
           /\ CoinsUpTo[LevelOf(m)] \in Nat /\ CoinsUpTo[LevelOf(n)] \in Nat
           /\ CoinsUpTo[LevelOf(m)] <= CoinsUpTo[LevelOf(n)]
  <1> DEFINE S == {i \in 1..MaxLevel : Thresholds[i] <= m}
             T == {i \in 1..MaxLevel : Thresholds[i] <= n}
  <1>1. MaxLevel \in Nat /\ \A i \in 1..MaxLevel : Thresholds[i] \in Nat
    BY ProgressionBounds DEF MaxLevel
  <1>2. IsFiniteSet(T)
    <2>1. IsFiniteSet(1..MaxLevel) /\ T \subseteq 1..MaxLevel
      BY <1>1, FS_Interval
    <2> QED BY <2>1, FS_Subset
  <1>3. S \subseteq T
    BY <1>1
  <1>4. Cardinality(S) <= Cardinality(T)
    BY <1>2, <1>3, FS_Subset
  <1>5. LevelOf(m) \in 0..MaxLevel /\ LevelOf(n) \in 0..MaxLevel /\ LevelOf(m) <= LevelOf(n)
    BY <1>4, LevelInTable DEF LevelOf
  <1> HIDE DEF S, T
  <1> QED BY <1>5, CoinTables

LEMMA LevelCoinsType ==
    ASSUME NEW n \in Int PROVE CoinsUpTo[LevelOf(n)] \in Nat
  BY LevelInTable, CoinTables

\* The coins of a level are among those of all the levels up to it.
LEMMA LevelCoinsFit ==
    ASSUME NEW l \in 0..MaxLevel PROVE LevelCoins(l) <= CoinsUpTo[l]
  <1>1. MaxLevel \in Nat
    BY ProgressionBounds DEF MaxLevel
  <1>2. CASE l = 0
    BY <1>1, <1>2, CoinTables DEF LevelCoins
  <1>3. CASE l # 0
    <2>1. l \in 1..MaxLevel /\ l - 1 \in 0..MaxLevel
      BY <1>1, <1>3
    <2>2. CoinsUpTo[l] = CoinsUpTo[l - 1] + LevelCoins(l) /\ CoinsUpTo[l - 1] \in Nat
      BY <2>1, CoinTables
    <2>3. LevelCoins(l) \in Nat
      BY <1>1, CoinsOfLevel
    <2> QED BY <2>2, <2>3
  <1> QED BY <1>2, <1>3

\* An award keeps the coins within those of the level.
LEMMA AwardedCoins ==
    ASSUME NEW x \in Progress, NEW amount \in Nat, NEW e \in Nat, GoodCoins(x, e)
    PROVE  GoodCoins(Awarded(x, amount), e)
  <1> DEFINE y == Awarded(x, amount)
             level == LevelOf(x.total + amount)
  <1>1. /\ y.level = level /\ y.total = x.total + amount /\ y.there
        /\ y.coins = x.coins + IF x.there THEN LevelUpCoins(x.level, level) ELSE LevelCoins(level)
    BY AwardedRow
  <1>2. x.total \in Int /\ x.total + amount \in Int /\ x.total <= x.total + amount
    BY DEF Progress
  <1>3. /\ level \in 0..MaxLevel /\ CoinsUpTo[level] \in Nat
        /\ CoinsUpTo[LevelOf(x.total)] \in Nat /\ CoinsUpTo[LevelOf(x.total)] <= CoinsUpTo[level]
    BY <1>2, LevelGrows
  <1>4. x.level \in 0..MaxLevel /\ CoinsUpTo[x.level] \in Nat /\ x.coins \in Int
    BY CoinTables DEF Progress
  <1>5. y.coins <= CoinsUpTo[level] + e
    <2> HIDE DEF level, y
    <2>1. CASE x.there /\ x.level < level
      BY <1>1, <1>3, <1>4, <2>1 DEF GoodCoins, LevelUpCoins
    <2>2. CASE x.there /\ ~(x.level < level)
      BY <1>1, <1>3, <1>4, <2>2 DEF GoodCoins, LevelUpCoins
    <2>3. CASE ~x.there
      <3>1. LevelCoins(level) <= CoinsUpTo[level] /\ LevelCoins(level) \in Nat
        BY <1>3, LevelCoinsFit, CoinsOfLevel, ProgressionBounds DEF MaxLevel
      <3> QED BY <1>1, <1>3, <2>3, <3>1 DEF GoodCoins
    <2> QED BY <2>1, <2>2, <2>3
  <1>6. LevelOf(y.total) = y.level
    BY <1>1
  <1> HIDE DEF y, level
  <1> QED BY <1>1, <1>5, <1>6 DEF GoodCoins, y

\* Every write keeps the coins within those of the level.
LEMMA CoinWrites ==
    ASSUME CoinInv, NEW r \in Requests, Writes(r), ByScale'
    PROVE  extra' \in Nat /\ extra <= extra' /\ GoodCoins(row', extra')
  <1> USE DEF At, Final
  <1> DEFINE seen == req[r].seen
             amount == req[r].amount
  <1>1. /\ row \in Progress /\ extra \in Nat /\ TypeInv
        /\ BadgeXp \in Nat /\ MaxLevel \in Nat /\ MaxLevel >= 1
    BY ProgressionBounds DEF CoinInv, TypeInv, TypeOK, MaxLevel
  <1>2. ByScale
    <2>1. \A s \in Requests : req[s].op # "none" => req'[s].op = req[s].op
      BY <1>1, WritesMove, MovedStep DEF Moves, MovesOn
    <2> QED BY <2>1 DEF ByScale, No
  <1>3. GoodCoins(row, extra) /\ (req[r].pc = "write" => GoodCoins(seen, extra))
    BY <1>2 DEF CoinInv, Known
  <1>4. ASSUME UNCHANGED <<row, extra>> PROVE GoodCoins(row', extra')
    BY <1>3, <1>4
  <1>5. ASSUME NEW new \in Progress, Store(r, new), new.coins <= CoinsUpTo[new.level] + extra',
               new.coins <= CoinsUpTo[LevelOf(new.total)] + extra'
        PROVE  GoodCoins(row', extra')
    BY <1>1, <1>5, StoredRow DEF GoodCoins
  <1>6. ASSUME NEW xp \in Nat, NEW first \in 0..MaxLevel, Increment(xp, first), extra' = extra
        PROVE  GoodCoins(row', extra')
    <2>1. /\ row'.there /\ row'.total = row.total + xp /\ row'.coins = row.coins
          /\ row'.level = IF row.there THEN row.level ELSE first
      BY <1>1, <1>6, IncrementedRow
    <2>2. row.total \in Int /\ row.total <= row.total + xp /\ row.total + xp \in Int
      BY <1>1 DEF Progress
    <2>3. /\ CoinsUpTo[LevelOf(row.total)] \in Nat /\ CoinsUpTo[LevelOf(row'.total)] \in Nat
          /\ CoinsUpTo[LevelOf(row.total)] <= CoinsUpTo[LevelOf(row'.total)]
      BY <2>1, <2>2, LevelGrows
    <2>4. row.coins \in Int /\ CoinsUpTo[row.level] \in Nat /\ CoinsUpTo[first] \in Nat
      BY <1>1, CoinTables DEF Progress
    <2>5. row'.coins <= CoinsUpTo[row'.level] + extra
      <3>1. CASE row.there
        BY <1>3, <2>1, <3>1 DEF GoodCoins
      <3>2. CASE ~row.there
        BY <1>1, <1>3, <2>1, <2>4, <3>2 DEF GoodCoins
      <3> QED BY <3>1, <3>2
    <2>6. row'.coins <= CoinsUpTo[LevelOf(row'.total)] + extra
      BY <1>1, <1>3, <2>1, <2>3, <2>4 DEF GoodCoins
    <2> QED BY <1>6, <2>1, <2>5, <2>6 DEF GoodCoins
  <1>7. CASE LoginWrite(r)
    <2>1. CASE Duplicate(r)
      BY <1>1, <1>4, <1>7, <2>1 DEF LoginWrite
    <2>2. CASE ~Duplicate(r)
      <3> DEFINE bonus == LoginBonus(Streak(seen, req[r].today))
                 new == Awarded(seen, bonus)
      <3>1. seen \in Progress /\ req[r].today \in 1..MaxDay
        BY <1>1, <1>7, Fields DEF LoginWrite
      <3>2. PICK beside \in Int : /\ row' = LoginRow(seen, req[r].today, beside)
                                  /\ extra' = extra + Greater(0, beside)
        BY <1>7, <2>2, <3>1, LoginWritten
      <3>3. /\ bonus \in Nat /\ row'.total = new.total /\ row'.level = new.level /\ row'.there
            /\ row'.coins \in {new.coins + beside, 0}
        <4> DEFINE after == LoginRow(seen, req[r].today, beside)
        <4>1. /\ bonus \in Nat /\ after.total = new.total /\ after.level = new.level /\ after.there
              /\ after.coins \in {new.coins + beside, 0}
          BY <3>1, LoginRowRow
        <4>2. row' = after
          BY <3>2
        <4> HIDE DEF after, new, bonus
        <4> QED BY <4>1, <4>2
      <3>4. GoodCoins(new, extra)
        BY <1>1, <1>3, <1>7, <3>1, <3>3, AwardedCoins DEF LoginWrite
      <3>5. new.level \in 0..MaxLevel /\ new.total \in Int /\ new.coins \in Int
        <4>1. new \in Progress
          BY <3>1, <3>3, AwardedRow
        <4> HIDE DEF new
        <4> QED BY <4>1 DEF Progress
      <3>6. CoinsUpTo[new.level] \in Nat /\ CoinsUpTo[LevelOf(new.total)] \in Nat
        BY <3>5, CoinTables, LevelCoinsType
      <3>7. extra' \in Nat /\ extra <= extra' /\ extra + beside <= extra'
        BY <1>1, <3>2 DEF Greater
      <3> HIDE DEF new, bonus
      <3>8. GoodCoins(row', extra')
        <4>1. CASE row'.coins = 0
          BY <1>1, <3>3, <3>6, <3>7, <4>1 DEF GoodCoins
        <4>2. CASE row'.coins = new.coins + beside
          <5>1. new.coins <= CoinsUpTo[new.level] + extra /\ new.coins <= CoinsUpTo[LevelOf(new.total)] + extra
            BY <3>4 DEF GoodCoins
          <5>2. \A limit \in Nat : new.coins <= limit + extra => row'.coins <= limit + extra'
            BY <1>1, <3>5, <3>7, <4>2
          <5> QED BY <3>3, <3>6, <5>1, <5>2 DEF GoodCoins
        <4> QED BY <3>3, <4>1, <4>2
      <3> QED BY <3>7, <3>8
    <2> QED BY <2>1, <2>2
  <1>8. CASE AwardWrite(r)
    <2>1. extra' = extra /\ amount \in Nat /\ seen \in Progress
      BY <1>1, <1>8, Fields DEF AwardWrite
    <2>2. CASE UNCHANGED row
      BY <1>1, <1>4, <2>1, <2>2
    <2>3. CASE Store(r, Awarded(seen, amount))
      <3>1. GoodCoins(Awarded(seen, amount), extra) /\ Awarded(seen, amount) \in Progress
        BY <1>1, <1>3, <1>8, <2>1, AwardedCoins, AwardedRow DEF AwardWrite
      <3> QED BY <1>1, <1>5, <2>1, <2>3, <3>1 DEF GoodCoins
    <2> QED BY <1>8, <2>2, <2>3 DEF AwardWrite
  <1>9. CASE PlayWrite(r)
    <2>1. amount \in Nat /\ seen \in Progress
      BY <1>1, <1>9, Fields DEF PlayWrite
    <2>2. PICK coin \in {0, 1} : Store(r, PlayRow(r, coin)) /\ extra' = extra + coin
      BY <1>9 DEF PlayWrite, PlayRow
    <2> DEFINE new == PlayRow(r, coin)
    <2>3. /\ new \in Progress /\ new.total = seen.total + amount /\ new.coins = seen.coins + coin
          /\ new.level = LevelOf(seen.total + amount)
      BY <2>1, PlayRowRow
    <2>4. seen.total \in Int /\ seen.total + amount \in Int /\ seen.total <= seen.total + amount
      BY <2>1 DEF Progress
    <2>5. /\ CoinsUpTo[LevelOf(seen.total)] \in Nat /\ CoinsUpTo[new.level] \in Nat
          /\ CoinsUpTo[LevelOf(seen.total)] <= CoinsUpTo[new.level]
      BY <2>3, <2>4, LevelGrows
    <2>6. GoodCoins(seen, extra) /\ seen.coins \in Int /\ coin \in Int
      BY <1>3, <1>9, <2>1 DEF PlayWrite, Progress
    <2>7. extra' \in Nat /\ extra <= extra'
      BY <1>1, <2>2
    <2>8. new.coins <= CoinsUpTo[new.level] + extra' /\ LevelOf(new.total) = new.level
      <3> HIDE DEF new
      <3> QED BY <1>1, <2>2, <2>3, <2>5, <2>6 DEF GoodCoins
    <2> HIDE DEF new
    <2> QED BY <1>5, <2>2, <2>3, <2>7, <2>8 DEF new
  <1>10. ~GameWrite(r) /\ ~AdjustWrite(r) /\ ~CoinsWrite(r) /\ ~Replace(r)
    <2>1. ~GameWrite(r) /\ ~AdjustWrite(r) /\ ~CoinsWrite(r)
      BY <1>2 DEF ByScale, No, GameWrite, AdjustWrite, CoinsWrite
    <2>2. ~Replace(r)
      <3>1. SUFFICES ASSUME Begin(r, "replace", "ok", 0) PROVE FALSE
        BY DEF Replace
      <3>2. PICK q \in Request : q.op = "replace" /\ req' = [req EXCEPT ![r] = q]
        BY <1>1, <3>1, BeginMoves DEF Operations
      <3>3. req'[r] = q
        BY <1>1, <3>2 DEF TypeInv, TypeOK
      <3> QED BY <3>2, <3>3 DEF ByScale, No
    <2> QED BY <2>1, <2>2
  <1>11. CASE SoloPay(r)
    <2>1. amount \in Nat /\ extra' = extra /\ Increment(amount, 0)
      BY <1>1, <1>11, Fields DEF SoloPay
    <2> QED BY <1>1, <1>6, <2>1
  <1>12. CASE SoloRecord(r)
    BY <1>1, <1>4, <1>12 DEF SoloRecord
  <1>13. CASE Approve(r)
    <2>1. PICK a \in Amounts \ {0} : Increment(a, 0)
      BY <1>13 DEF Approve
    <2>2. a \in Nat /\ extra' = extra
      BY <1>13, ProgressionBounds DEF Approve
    <2> QED BY <1>1, <1>6, <2>1, <2>2
  <1>14. CASE EnsureCreate(r)
    <2>1. extra' = extra
      BY <1>14 DEF EnsureCreate
    <2>2. CASE row.there
      BY <1>1, <1>4, <1>14, <2>1, <2>2 DEF EnsureCreate
    <2>3. CASE ~row.there
      <3>1. row'.coins = 0 /\ row'.level = 0 /\ row'.total = 0 /\ row'.there
        BY <1>14, <2>3 DEF EnsureCreate, EmptyRow, NoRow
      <3>2. CoinsUpTo[0] \in Nat /\ CoinsUpTo[LevelOf(0)] \in Nat
        BY <1>1, CoinTables, LevelCoinsType
      <3> QED BY <1>1, <2>1, <3>1, <3>2 DEF GoodCoins
    <2> QED BY <2>2, <2>3
  <1>15. CASE Unlock(r)
    <2>1. extra' = extra
      BY <1>15 DEF Unlock
    <2>2. CASE badge
      BY <1>1, <1>4, <1>15, <2>1, <2>2 DEF Unlock
    <2>3. CASE ~badge
      BY <1>1, <1>6, <1>15, <2>1, <2>3 DEF Unlock
    <2> QED BY <2>2, <2>3
  <1>16. CASE Gift(r)
    <2>1. PICK coins \in Gifts : /\ row' = [row EXCEPT !.there = TRUE, !.coins = row.coins + coins]
                                 /\ extra' = extra + coins
      BY <1>16 DEF Gift
    <2>2. /\ row'.there /\ row'.coins = row.coins + coins /\ coins \in Nat
          /\ row'.level = row.level /\ row'.total = row.total
      BY <1>1, <2>1, CoinEconomies DEF Progress
    <2>3. /\ row.coins \in Int /\ CoinsUpTo[row.level] \in Nat
          /\ CoinsUpTo[LevelOf(row.total)] \in Nat
      BY <1>1, CoinTables, LevelCoinsType DEF Progress
    <2> QED BY <1>1, <1>3, <2>1, <2>2, <2>3 DEF GoodCoins
  <1> QED BY <1>7, <1>8, <1>9, <1>10, <1>11, <1>12, <1>13, <1>14, <1>15, <1>16 DEF Writes

\* Coins for another reason are only added.
LEMMA ExtraGrows ==
    ASSUME TypeInv, NEW r \in Requests, Writes(r)
    PROVE  extra' = extra \/ \E more \in Nat : extra' = extra + more
  <1>1. CASE LoginWrite(r)
    <2>1. CASE Duplicate(r)
      BY <1>1, <2>1 DEF LoginWrite
    <2>2. CASE ~Duplicate(r)
      <3>1. PICK beside \in Int : extra' = extra + Greater(0, beside)
        BY <1>1, <2>2, Fields, LoginWritten DEF LoginWrite, At, Final
      <3> QED BY <3>1 DEF Greater
    <2> QED BY <2>1, <2>2
  <1>2. CASE Gift(r)
    BY <1>2, CoinEconomies DEF Gift
  <1>3. CASE PlayWrite(r)
    BY <1>3 DEF PlayWrite
  <1>4. CASE ~LoginWrite(r) /\ ~Gift(r) /\ ~PlayWrite(r)
    BY <1>4 DEF Writes, AwardWrite, GameWrite, AdjustWrite, CoinsWrite, Replace, SoloPay,
                SoloRecord, Approve, EnsureCreate, Unlock
  <1> QED BY <1>1, <1>2, <1>3, <1>4

LEMMA CoinStep == CoinInv /\ [Next]_vars => CoinInv'
  <1> SUFFICES ASSUME CoinInv, [Next]_vars PROVE CoinInv'
    OBVIOUS
  <1>1. TypeInv /\ TypeInv' /\ extra \in Nat
    BY TypeStep DEF CoinInv
  <1>2. ASSUME ByScale' PROVE \A x \in Known : GoodCoins(x, extra)
    <2>1. ByScale
      BY <1>1, <1>2, NoStays DEF ByScale
    <2> QED BY <2>1 DEF CoinInv
  <1>3. CASE UNCHANGED <<account, keys, logins, req>>
    BY <1>1, <1>3 DEF CoinInv, Known, account, ByScale, No
  <1>4. ASSUME NEW r \in Requests, Reads(r) PROVE CoinInv'
    <2>1. row' = row /\ extra' = extra /\ Known' \subseteq Known \cup {row'}
      BY <1>1, <1>4, ReadsMove, MovedStep DEF account
    <2>2. Known' \subseteq Known
      BY <2>1 DEF Known
    <2> QED BY <1>1, <1>2, <2>1, <2>2 DEF CoinInv
  <1>5. ASSUME NEW r \in Requests, Writes(r) PROVE CoinInv'
    <2>1. Known' \subseteq Known \cup {row'}
      BY <1>1, <1>5, WritesMove, MovedStep DEF Moves, MovesOn
    <2>2. extra' \in Nat
      <3>1. extra' = extra \/ \E more \in Nat : extra' = extra + more
        BY <1>1, <1>5, ExtraGrows
      <3> QED BY <1>1, <3>1
    <2>3. ASSUME ByScale', NEW x \in Known' PROVE GoodCoins(x, extra')
      <3>1. extra <= extra' /\ GoodCoins(row', extra')
        BY <1>5, <2>3, CoinWrites
      <3>2. ASSUME x \in Known PROVE GoodCoins(x, extra')
        <4>1. x \in Progress
          BY <1>1, <3>2 DEF Known, TypeInv, TypeOK, Request
        <4>2. x.coins \in Int /\ CoinsUpTo[x.level] \in Nat /\ CoinsUpTo[LevelOf(x.total)] \in Nat
          BY <4>1, CoinTables, LevelInTable DEF Progress
        <4>3. GoodCoins(x, extra)
          BY <1>2, <2>3, <3>2
        <4> QED BY <1>1, <2>2, <3>1, <4>2, <4>3 DEF GoodCoins
      <3> QED BY <2>1, <2>3, <3>1, <3>2
    <2> QED BY <1>1, <2>2, <2>3 DEF CoinInv
  <1> QED BY <1>3, <1>4, <1>5, StepCases

\* No coin is given twice for a level, however awards, logins, increments, decks, referrals and
\* rewards of events cross one another, and whatever administrators make of the economy of coins:
\* what exceeds the coins of the levels has been counted as given for another reason.
THEOREM LevelsPaidOnce == Spec => []LevelPaidOnce
  <1>1. Init => CoinInv
    <2> SUFFICES ASSUME Init PROVE CoinInv
      OBVIOUS
    <2>1. TypeInv
      BY InitTypes
    <2>2. extra = 0 /\ row.coins = 0 /\ row.level = 0 /\ row.total = 0 /\ Known = {row}
      BY DEF Init, NoRow, Known, NewRequest
    <2>3. CoinsUpTo[0] \in Nat /\ CoinsUpTo[LevelOf(0)] \in Nat
      <3>1. 0 \in 0..MaxLevel
        BY ProgressionBounds DEF MaxLevel
      <3> QED BY <3>1, CoinTables, LevelCoinsType
    <2> QED BY <2>1, <2>2, <2>3 DEF CoinInv, GoodCoins
  <1>2. CoinInv => LevelPaidOnce
    BY DEF CoinInv, LevelPaidOnce, ByScale, Known, GoodCoins
  <1> QED BY <1>1, <1>2, CoinStep, PTL DEF Spec
=============================================================================
