--------------------------- MODULE Community_proofs ---------------------------
(***************************************************************************)
(* Proofs about Community for every set of users and requests, every bound *)
(* of the clock and of the grants.                                         *)
(***************************************************************************)
EXTENDS Community, FiniteSetTheorems, TLAPS

\* What a request that is running carries, by its operation
GoodRequest ==
    {q \in Request :
        /\ q.pc \in Steps =>
            /\ q.op # "purge" => q.by \in Users /\ q.who \in Users
            /\ q.op = "purge" => q.pc = "write"
            /\ q.op = "role" => q.kind \in Roles
            /\ q.op = "tier" => q.kind \in Tiers /\ q.days <= MaxDays
            /\ q.op = "sanction" => q.kind \in {"SUSPENDED", "BANNED"}
            /\ q.op = "ban" => q.days \in {0, 1}
            /\ q.op \in {"send", "accept", "block"} => q.by # q.who
        /\ q.pc = "count" => q.op \in {"role", "remove"}
        /\ q.pc = "accept" => q.op \in {"send", "accept"} /\ q.id # 0
        /\ q.pc = "erase" => q.op \in {"reject", "cancel", "unfriend"} /\ q.id # 0}

\* The days that were given are those of requests that are over, and a tier that is about
\* to be given does not end later than they allow.
Done == {r \in Requests : req[r].pc \in Final}
Grants ==
    /\ \A u \in Users : granted[u] <= MaxDays * Cardinality(Done)
    /\ \A r \in Requests : At(r, "tier", "write") =>
           req[r].date <= day + granted[req[r].who] + req[r].days

\* What a purge has found is past its date, and a deletion that was asked for has a date.
Deletions ==
    /\ \A u \in Users : user[u].status = "PENDING_DELETION" => user[u].due # 0
    /\ \A r \in Requests : At(r, "purge", "write") => req[r].found \subseteq overdue

\* A row has an id that no other row has, and the one that is about to be accepted, if it is
\* still there, is the one that the other user has sent.
Rows ==
    /\ \A p \in Pairs : rows[p].status = "NONE" <=> rows[p].id = 0
    /\ \A p, q \in Pairs : rows[p].id = rows[q].id /\ rows[p].id # 0 => p = q
    /\ \A r \in Requests : req[r].pc = "accept" =>
           \A p \in Pairs : rows[p].id = req[r].id => p = <<req[r].who, req[r].by>>
    /\ \A p \in Pairs : rows[p].status = "PENDING" => p \in willing

CommunityInv ==
    /\ TypeOK /\ req \in [Requests -> GoodRequest] /\ TierWithinGrants /\ FriendsAreWilling
    /\ Grants /\ Deletions /\ Rows

-----------------------------------------------------------------------------
(* Dates                                                                   *)

LEMMA Product ==
    ASSUME NEW a \in Nat, NEW b \in Nat, NEW c \in Nat
    PROVE  /\ a * b \in Nat /\ (b <= c => a * b <= a * c)
           /\ b < c => a * b + a <= a * c
  <1>1. a * b \in Nat /\ a * c \in Nat
    OBVIOUS
  <1>2. ASSUME NEW x \in Nat, NEW y \in Nat, x <= y
        PROVE  a * x <= a * y
    <2> DEFINE d == y - x
    <2>1. d \in Nat /\ y = x + d
      BY <1>2
    <2>2. a * (x + d) = a * x + a * d /\ a * d \in Nat /\ a * x \in Nat
      BY <2>1
    <2> HIDE DEF d
    <2> QED BY <2>1, <2>2
  <1>3. a * (b + 1) = a * b + a
    OBVIOUS
  <1>4. b < c => a * (b + 1) <= a * c
    BY <1>2
  <1> QED BY <1>1, <1>2, <1>3, <1>4

\* Whoever makes a request may be given a date that a day or a grant sets.
LEMMA Dates ==
    ASSUME day \in 1..MaxDay, Requests # {}
    PROVE  /\ 0 \in Later /\ day \in Later /\ day + 1 \in Later
           /\ Cardinality(Requests) \in Nat /\ Cardinality(Requests) >= 1
           /\ MaxDays * Cardinality(Requests) \in Nat
  <1>1. Cardinality(Requests) \in Nat /\ Cardinality(Requests) >= 1
    BY CommunityBounds, FS_CardinalityType, FS_EmptySet
  <1>2. MaxDays \in Nat /\ MaxDay \in Nat /\ MaxDays >= 1
    BY CommunityBounds
  <1>3. MaxDays * Cardinality(Requests) \in Nat /\ MaxDays * 1 <= MaxDays * Cardinality(Requests)
    BY <1>1, <1>2, Product
  <1>4. MaxDays * Cardinality(Requests) >= 1
    BY <1>1, <1>2, <1>3
  <1>5. \A x \in Nat : x >= 1 => 0 \in 0..(MaxDay + x) /\ day \in 0..(MaxDay + x)
                                 /\ day + 1 \in 0..(MaxDay + x)
    BY <1>2
  <1> QED BY <1>1, <1>3, <1>4, <1>5 DEF Later

-----------------------------------------------------------------------------
(* How a step changes the requests                                         *)

LEMMA NewGood ==
    ASSUME day \in 1..MaxDay, Requests # {},
           NEW op \in Operations, NEW pc \in Steps \cup Final,
           NEW by \in Users \cup {NoUser}, NEW who \in Users \cup {NoUser}
    PROVE  /\ New(op, pc, by, who) \in Request
           /\ New(op, pc, by, who).op = op /\ New(op, pc, by, who).pc = pc
           /\ New(op, pc, by, who).by = by /\ New(op, pc, by, who).who = who
           /\ New(op, pc, by, who).id = 0
  <1>1. 0 \in Later
    BY Dates
  <1>2. NewRequest \in Request
    BY <1>1 DEF NewRequest, Request
  <1> HIDE DEF NewRequest
  <1>3. /\ New(op, pc, by, who) \in Request
        /\ New(op, pc, by, who).op = op /\ New(op, pc, by, who).pc = pc
        /\ New(op, pc, by, who).by = by /\ New(op, pc, by, who).who = who
        /\ New(op, pc, by, who).id = NewRequest.id
    BY <1>2 DEF New, Request
  <1> QED BY <1>3 DEF NewRequest

LEMMA EndedGood ==
    ASSUME day \in 1..MaxDay, Requests # {}, NEW op, NEW pc \in Final
    PROVE  Ended(op, pc) \in GoodRequest /\ Ended(op, pc).pc = pc
  <1>1. 0 \in Later
    BY Dates
  <1>2. NewRequest \in Request
    BY <1>1 DEF NewRequest, Request
  <1> HIDE DEF NewRequest
  <1>3. Ended(op, pc) \in Request /\ Ended(op, pc).pc = pc
    BY <1>2 DEF Ended, Request
  <1> QED BY <1>3 DEF GoodRequest, Final, Steps

\* A request begins.
LEMMA Begins ==
    ASSUME day \in 1..MaxDay, NEW r \in Requests, req \in [Requests -> GoodRequest],
           NEW new, Begin(r, new), new \in GoodRequest \/ new.pc \in Final
    PROVE  /\ req' \in [Requests -> GoodRequest]
           /\ req[r].pc = "new" /\ (req'[r] = new \/ req'[r].pc \in Final)
           /\ \A q \in Requests \ {r} : req'[q] = req[q]
  <1>1. CASE new.pc \in Final
    <2>1. Ended(new.op, new.pc) \in GoodRequest /\ Ended(new.op, new.pc).pc \in Final
      BY <1>1, EndedGood
    <2>2. req' = [req EXCEPT ![r] = Ended(new.op, new.pc)] /\ req[r].pc = "new"
      BY <1>1 DEF Begin
    <2> QED BY <2>1, <2>2
  <1>2. CASE new.pc \notin Final
    <2>1. req' = [req EXCEPT ![r] = new] /\ req[r].pc = "new" /\ new \in GoodRequest
      BY <1>2 DEF Begin
    <2> QED BY <2>1
  <1> QED BY <1>1, <1>2

\* A request goes on or ends.
LEMMA Goes ==
    ASSUME day \in 1..MaxDay, NEW r \in Requests, req \in [Requests -> GoodRequest],
           NEW pc, Goto(r, pc),
           \/ pc \in Final
           \/ pc = "write" /\ req[r].pc = "count"
           \/ pc = "revoke" /\ At(r, "ban", "write")
    PROVE  /\ req' \in [Requests -> GoodRequest]
           /\ req'[r].pc = pc /\ (pc \notin Final => req'[r].op = req[r].op)
           /\ \A q \in Requests \ {r} : req'[q] = req[q]
  <1>1. CASE pc \in Final
    <2>1. Ended(req[r].op, pc) \in GoodRequest /\ Ended(req[r].op, pc).pc = pc
      BY <1>1, EndedGood
    <2>2. req' = [req EXCEPT ![r] = Ended(req[r].op, pc)]
      BY <1>1 DEF Goto
    <2> QED BY <1>1, <2>1, <2>2
  <1>2. CASE pc \notin Final
    <2> DEFINE next == [req[r] EXCEPT !.pc = pc]
    <2>1. req' = [req EXCEPT ![r] = next]
      BY <1>2 DEF Goto
    <2>2. req[r] \in GoodRequest /\ req[r] \in Request
      BY DEF GoodRequest
    <2>3. next \in Request /\ next.pc = pc /\ next.op = req[r].op /\ next.by = req[r].by
          /\ next.who = req[r].who /\ next.kind = req[r].kind /\ next.days = req[r].days
      BY <1>2, <2>2 DEF Request, Steps
    <2>4. next \in GoodRequest
      <3> HIDE DEF next
      <3> QED BY <1>2, <2>2, <2>3 DEF GoodRequest, Steps, At
    <2> HIDE DEF next
    <2> QED BY <1>2, <2>1, <2>3, <2>4
  <1> QED BY <1>1, <1>2

\* A request that begins is good, is about what it has read, and changes no more than that.
Loaded(r) ==
    \E new : /\ Begin(r, new) /\ (new \in GoodRequest \/ new.pc \in Final)
             /\ new.pc = "accept" => /\ <<new.who, new.by>> \in Pairs
                                     /\ rows[<<new.who, new.by>>].id = new.id
             /\ new.op = "tier" /\ new.pc = "write" =>
                    new.date <= day + granted[new.who] + new.days
             /\ new.op = "purge" /\ new.pc = "write" => new.found \subseteq overdue'

\* A request whose fields say no more than its operation and its users
LEMMA LoadedPlain ==
    ASSUME CommunityInv, NEW r \in Requests, NEW new \in Request, Begin(r, new),
           new.pc \in {"write", "create", "count"} \cup Final,
           new.by \in Users, new.who \in Users,
           new.op \notin {"tier", "purge", "accept"},
           new.pc \in Steps =>
              /\ new.op = "role" => new.kind \in Roles
              /\ new.op = "sanction" => new.kind \in {"SUSPENDED", "BANNED"}
              /\ new.op = "ban" => new.days \in {0, 1}
              /\ new.op = "send" => new.by # new.who,
           new.pc = "count" => new.op \in {"role", "remove"},
           new.op # "block"
    PROVE  Loaded(r)
  <1>1. new \in GoodRequest
    BY DEF GoodRequest, Steps, Final
  <1> QED BY <1>1 DEF Loaded, Final

LEMMA NewLoaded ==
    ASSUME CommunityInv, NEW r \in Requests, NEW op \in Operations, NEW pc,
           NEW by \in Users, NEW who \in Users, Begin(r, New(op, pc, by, who)),
           op \notin {"role", "tier", "sanction", "ban", "purge", "accept", "block"},
           \/ pc \in {"write", "create"} \cup Final
           \/ pc = "count" /\ op = "remove",
           op = "send" => by # who
    PROVE  Loaded(r)
  <1>1. day \in 1..MaxDay /\ Requests # {} /\ pc \in Steps \cup Final
    BY DEF CommunityInv, TypeOK, Steps
  <1> DEFINE new == New(op, pc, by, who)
  <1>2. new \in Request /\ new.op = op /\ new.pc = pc /\ new.by = by /\ new.who = who
    BY <1>1, NewGood
  <1>3. Begin(r, new)
    OBVIOUS
  <1> HIDE DEF new
  <1> QED BY <1>2, <1>3, LoadedPlain DEF Final

LEMMA AccountLoads ==
    ASSUME CommunityInv, NEW r \in Requests, AccountCall(r)
    PROVE  Loaded(r)
  <1> USE DEF Steps, Final
  <1>0. day \in 1..MaxDay /\ Requests # {}
    BY DEF CommunityInv, TypeOK
  <1>1. CASE DeleteLoad(r)
    <2>1. PICK u \in Users : Begin(r, New("delete", "write", u, u))
      BY <1>1 DEF DeleteLoad
    <2> QED BY <2>1, NewLoaded DEF Operations, AccountOps
  <1>2. CASE ReactivateLoad(r)
    <2>1. PICK u \in Users : Begin(r, New("reactivate", IF user[u].status = "PENDING_DELETION"
                                                        THEN "write" ELSE "ok", u, u))
      BY <1>2 DEF ReactivateLoad
    <2> QED BY <1>0, <2>1, NewLoaded DEF Operations, AccountOps
  <1>3. CASE CancelReactivation(r)
    <2>1. PICK u \in Users : Begin(r, New("stayDeleted", "ok", u, u))
      BY <1>3 DEF CancelReactivation
    <2> QED BY <2>1, NewLoaded DEF Operations, AccountOps
  <1>4. CASE LoginCheck(r)
    <2>1. PICK u \in Users : Begin(r, New("login", IF There(u) /\ (~user[u].banned \/ Lapsed(u))
                                                   THEN "create" ELSE "failed", u, u))
      BY <1>4 DEF LoginCheck
    <2> QED BY <1>0, <2>1, NewLoaded DEF Operations, AccountOps
  <1>5. CASE BanLoad(r)
    <2>1. PICK by \in Users, u \in Users, days \in {0, 1} :
             Begin(r, [New("ban", IF by # u /\ There(u) /\ user[u].role # "ADMIN"
                                  THEN "write" ELSE "failed", by, u) EXCEPT !.days = days])
      BY <1>5 DEF BanLoad
    <2> DEFINE pc == IF by # u /\ There(u) /\ user[u].role # "ADMIN" THEN "write" ELSE "failed"
               new == [New("ban", pc, by, u) EXCEPT !.days = days]
    <2>2. pc \in {"write", "failed"} /\ "ban" \in Operations
      BY DEF Operations, AccountOps
    <2>3. Begin(r, new)
      BY <2>1
    <2> HIDE DEF pc
    <2>4. New("ban", pc, by, u) \in Request
      BY <1>0, <2>2, NewGood
    <2>5. new \in Request /\ new.op = "ban" /\ new.pc = pc /\ new.by = by /\ new.who = u
          /\ new.days = days
      BY <1>0, <2>2, <2>4, NewGood DEF Request
    <2> HIDE DEF new
    <2> QED BY <2>2, <2>3, <2>5, LoadedPlain
  <1>6. CASE UnbanLoad(r)
    <2>1. PICK by \in Users, u \in Users :
             Begin(r, New("unban", IF There(u) THEN "write" ELSE "failed", by, u))
      BY <1>6 DEF UnbanLoad
    <2> QED BY <1>0, <2>1, NewLoaded DEF Operations, AccountOps
  <1>7. CASE SanctionLoad(r)
    <2>1. PICK by \in Users, u \in Users, kind \in {"SUSPENDED", "BANNED"} :
             Begin(r, [New("sanction", IF There(u) THEN "write" ELSE "ok", by, u)
                          EXCEPT !.kind = kind])
      BY <1>7 DEF SanctionLoad
    <2> DEFINE pc == IF There(u) THEN "write" ELSE "ok"
               new == [New("sanction", pc, by, u) EXCEPT !.kind = kind]
    <2>2. pc \in {"write", "ok"} /\ "sanction" \in Operations
      BY DEF Operations, AccountOps
    <2>3. Begin(r, new)
      BY <2>1
    <2> HIDE DEF pc
    <2>4. New("sanction", pc, by, u) \in Request
      BY <1>0, <2>2, NewGood
    <2>5. new \in Request /\ new.op = "sanction" /\ new.pc = pc /\ new.by = by /\ new.who = u
          /\ new.kind = kind
      BY <1>0, <2>2, <2>4, NewGood DEF Request, UserStatus
    <2> HIDE DEF new
    <2> QED BY <2>2, <2>3, <2>5, LoadedPlain
  <1>8. CASE RoleLoad(r)
    <2>1. PICK by \in Users, u \in Users, role \in Roles :
             Begin(r, [New("role", CASE by = u \/ ~There(u) -> "failed"
                                     [] by # u /\ There(u) /\ user[u].role = "ADMIN"
                                        /\ role # "ADMIN" -> "count"
                                     [] OTHER -> "write", by, u) EXCEPT !.kind = role])
      BY <1>8 DEF RoleLoad
    <2> DEFINE pc == CASE by = u \/ ~There(u) -> "failed"
                       [] by # u /\ There(u) /\ user[u].role = "ADMIN"
                          /\ role # "ADMIN" -> "count"
                       [] OTHER -> "write"
               new == [New("role", pc, by, u) EXCEPT !.kind = role]
    <2>2. pc \in {"write", "failed", "count"} /\ "role" \in Operations
      BY DEF Operations, AccountOps
    <2>3. Begin(r, new)
      BY <2>1
    <2> HIDE DEF pc
    <2>4. New("role", pc, by, u) \in Request
      BY <1>0, <2>2, NewGood
    <2>5. new \in Request /\ new.op = "role" /\ new.pc = pc /\ new.by = by /\ new.who = u
          /\ new.kind = role
      BY <1>0, <2>2, <2>4, NewGood DEF Request
    <2> HIDE DEF new
    <2> QED BY <2>2, <2>3, <2>5, LoadedPlain
  <1>9. CASE RemoveLoad(r)
    <2>1. PICK by \in Users, u \in Users :
             Begin(r, New("remove", CASE by = u \/ ~There(u) -> "failed"
                                      [] by # u /\ There(u) /\ user[u].role = "ADMIN" -> "count"
                                      [] OTHER -> "write", by, u))
      BY <1>9 DEF RemoveLoad
    <2> DEFINE pc == CASE by = u \/ ~There(u) -> "failed"
                       [] by # u /\ There(u) /\ user[u].role = "ADMIN" -> "count"
                       [] OTHER -> "write"
    <2>2. pc \in {"write", "failed", "count"} /\ "remove" \in Operations
      BY DEF Operations, AccountOps
    <2>3. Begin(r, New("remove", pc, by, u))
      BY <2>1
    <2> HIDE DEF pc
    <2> QED BY <1>0, <2>2, <2>3, NewLoaded
  <1>10. CASE TierLoad(r)
    <2>1. PICK by \in Users, u \in Users, tier \in Tiers, days \in 0..MaxDays :
             Begin(r, [New("tier", IF There(u) THEN "write" ELSE "failed", by, u)
                          EXCEPT !.kind = tier, !.days = days,
                                 !.date = IF There(u) THEN NewExpiry(user[u], days, tier) ELSE 0])
      BY <1>10 DEF TierLoad
    <2> DEFINE pc == IF There(u) THEN "write" ELSE "failed"
               date == IF There(u) THEN NewExpiry(user[u], days, tier) ELSE 0
               base == New("tier", pc, by, u)
               new == [base EXCEPT !.kind = tier, !.days = days, !.date = date]
    <2>2. pc \in {"write", "failed"} /\ "tier" \in Operations
      BY DEF Operations, AccountOps
    <2>3. Begin(r, new) /\ req[r].pc = "new"
      BY <2>1 DEF Begin
    <2>4. days \in Nat /\ days <= MaxDays /\ MaxDays \in Nat /\ MaxDay \in Nat
      BY CommunityBounds
    <2>5. date \in Nat /\ date <= day + granted[u] + days
      <3>1. user[u].expires \in Nat /\ user[u].expires <= day + granted[u] /\ granted[u] \in Nat
        BY DEF CommunityInv, TypeOK, TierWithinGrants, Account, Later
      <3> QED BY <1>0, <2>4, <3>1 DEF NewExpiry
    <2>6. granted[u] + MaxDays <= MaxDays * Cardinality(Requests)
      <3>1. Cardinality(Done) \in Nat /\ Cardinality(Requests) \in Nat
            /\ Cardinality(Done) < Cardinality(Requests)
        <4>1. Done \subseteq Requests /\ r \notin Done
          BY <2>3 DEF Done
        <4> QED BY <4>1, CommunityBounds, FS_Subset, FS_CardinalityType
      <3>2. granted[u] \in Nat /\ granted[u] <= MaxDays * Cardinality(Done)
        BY DEF CommunityInv, TypeOK, Grants
      <3>3. /\ MaxDays * Cardinality(Done) \in Nat /\ MaxDays * Cardinality(Requests) \in Nat
            /\ MaxDays * Cardinality(Done) + MaxDays <= MaxDays * Cardinality(Requests)
        BY <2>4, <3>1, Product
      <3> QED BY <2>4, <3>2, <3>3
    <2>7. date \in Later
      <3>1. granted[u] \in Nat /\ MaxDays * Cardinality(Requests) \in Nat
        BY <1>0, Dates DEF CommunityInv, TypeOK
      <3> HIDE DEF date
      <3> QED BY <1>0, <2>4, <2>5, <2>6, <3>1 DEF Later
    <2> HIDE DEF pc, date
    <2>8. base \in Request /\ base.op = "tier" /\ base.pc = pc /\ base.by = by /\ base.who = u
      BY <1>0, <2>2, NewGood
    <2> HIDE DEF base
    <2>9. new \in Request /\ new.op = "tier" /\ new.pc = pc /\ new.by = by /\ new.who = u
          /\ new.kind = tier /\ new.days = days /\ new.date = date
      BY <2>4, <2>7, <2>8 DEF Request
    <2> HIDE DEF new
    <2>10. new \in GoodRequest
      BY <2>2, <2>4, <2>9 DEF GoodRequest
    <2> QED BY <2>2, <2>3, <2>5, <2>9, <2>10 DEF Loaded
  <1>11. CASE PurgeFind(r)
    <2> DEFINE found == {u \in Users : Purgeable(u)}
               pc == IF found = {} THEN "ok" ELSE "write"
               new == [New("purge", pc, NoUser, NoUser) EXCEPT !.found = found]
    <2>1. Begin(r, new) /\ overdue' = overdue \cup {u \in Users : user[u].due # 0 /\ user[u].due <= day}
      BY <1>11 DEF PurgeFind
    <2>2. pc \in {"write", "ok"} /\ "purge" \in Operations /\ found \subseteq Users
      BY DEF Operations, AccountOps
    <2>3. found \subseteq overdue'
      BY <2>1 DEF Purgeable, CommunityInv, Deletions
    <2> HIDE DEF found, pc
    <2>4. New("purge", pc, NoUser, NoUser) \in Request
      BY <1>0, <2>2, NewGood
    <2>5. new \in Request /\ new.op = "purge" /\ new.pc = pc /\ new.found = found
      BY <1>0, <2>2, <2>4, NewGood DEF Request
    <2> HIDE DEF new
    <2>6. new \in GoodRequest
      BY <2>2, <2>5 DEF GoodRequest
    <2> QED BY <2>1, <2>2, <2>3, <2>5, <2>6 DEF Loaded
  <1> QED BY <1>1, <1>2, <1>3, <1>4, <1>5, <1>6, <1>7, <1>8, <1>9, <1>10, <1>11 DEF AccountCall

LEMMA FriendLoads ==
    ASSUME CommunityInv, NEW r \in Requests, FriendCall(r)
    PROVE  Loaded(r)
  <1> USE DEF Steps, Final
  <1>0. day \in 1..MaxDay /\ Requests # {} /\ rows \in [Pairs -> Friendship]
        /\ {"send", "accept", "block", "unblock", "reject", "cancel", "unfriend"} \subseteq Operations
    BY DEF CommunityInv, TypeOK, Operations, FriendOps
  <1>1. CASE SendLoad(r)
    <2>1. PICK p \in Pairs :
             IF There(p[2]) /\ Between(p[1], p[2]) # {}
             THEN \E q \in Between(p[1], p[2]) :
                     Begin(r, [New("send", AfterFirst(p[1], q), p[1], p[2]) EXCEPT !.id = rows[q].id])
             ELSE Begin(r, New("send", IF There(p[2]) THEN "create" ELSE "failed", p[1], p[2]))
      BY <1>1 DEF SendLoad
    <2>2. p[1] \in Users /\ p[2] \in Users /\ p[1] # p[2] /\ p = <<p[1], p[2]>>
          /\ <<p[2], p[1]>> \in Pairs
      BY DEF Pairs
    <2>3. CASE There(p[2]) /\ Between(p[1], p[2]) # {}
      <3>1. PICK q \in Between(p[1], p[2]) :
               Begin(r, [New("send", AfterFirst(p[1], q), p[1], p[2]) EXCEPT !.id = rows[q].id])
        BY <2>1, <2>3
      <3> DEFINE pc == AfterFirst(p[1], q)
                 new == [New("send", pc, p[1], p[2]) EXCEPT !.id = rows[q].id]
      <3>2. pc \in {"failed", "accept"} /\ (pc = "accept" => q[1] # p[1])
        BY DEF AfterFirst
      <3>3. q \in {<<p[1], p[2]>>, <<p[2], p[1]>>} /\ rows[q].id # 0 /\ q \in Pairs
        BY <2>2 DEF Between
      <3>4. pc = "accept" => q = <<p[2], p[1]>>
        BY <3>2, <3>3
      <3>5. rows[q].id \in Nat
        BY <1>0, <3>3 DEF Friendship
      <3>6. Begin(r, new)
        BY <3>1
      <3> HIDE DEF pc
      <3>7. New("send", pc, p[1], p[2]) \in Request
        BY <1>0, <2>2, <3>2, NewGood
      <3>8. new \in Request /\ new.op = "send" /\ new.pc = pc /\ new.by = p[1] /\ new.who = p[2]
            /\ new.id = rows[q].id
        BY <1>0, <2>2, <3>2, <3>5, <3>7, NewGood DEF Request
      <3> HIDE DEF new
      <3>9. new \in GoodRequest
        BY <2>2, <3>2, <3>3, <3>8 DEF GoodRequest
      <3> QED BY <2>2, <3>2, <3>4, <3>6, <3>8, <3>9 DEF Loaded
    <2>4. CASE ~(There(p[2]) /\ Between(p[1], p[2]) # {})
      BY <1>0, <2>1, <2>2, <2>4, NewLoaded
    <2> QED BY <2>3, <2>4
  <1>2. CASE AcceptLoad(r)
    <2>1. PICK p \in Pairs :
             Begin(r, [New("accept", CASE rows[p].status = "NONE" -> "failed"
                                       [] rows[p].status = "ACCEPTED" -> "ok"
                                       [] rows[p].status = "PENDING" -> "accept", p[2], p[1])
                          EXCEPT !.id = rows[p].id])
      BY <1>2 DEF AcceptLoad
    <2>2. p[1] \in Users /\ p[2] \in Users /\ p[1] # p[2] /\ p = <<p[1], p[2]>>
      BY DEF Pairs
    <2>3. rows[p] \in Friendship /\ (rows[p].status = "NONE" <=> rows[p].id = 0)
      BY <1>0 DEF CommunityInv, Rows
    <2> DEFINE pc == CASE rows[p].status = "NONE" -> "failed"
                       [] rows[p].status = "ACCEPTED" -> "ok"
                       [] rows[p].status = "PENDING" -> "accept"
               new == [New("accept", pc, p[2], p[1]) EXCEPT !.id = rows[p].id]
    <2>4. pc \in {"failed", "ok", "accept"} /\ (pc = "accept" => rows[p].id # 0)
      BY <2>3 DEF Friendship
    <2>5. Begin(r, new) /\ rows[p].id \in Nat
      BY <2>1, <2>3 DEF Friendship
    <2> HIDE DEF pc
    <2>6. New("accept", pc, p[2], p[1]) \in Request
      BY <1>0, <2>2, <2>4, NewGood
    <2>7. new \in Request /\ new.op = "accept" /\ new.pc = pc /\ new.by = p[2] /\ new.who = p[1]
          /\ new.id = rows[p].id
      BY <1>0, <2>2, <2>4, <2>5, <2>6, NewGood DEF Request
    <2> HIDE DEF new
    <2>8. new \in GoodRequest
      BY <2>2, <2>4, <2>7 DEF GoodRequest
    <2> QED BY <2>2, <2>4, <2>5, <2>7, <2>8 DEF Loaded
  <1>3. CASE EraseLoad(r)
    <2>1. PICK op \in {"reject", "cancel", "unfriend"}, by \in Users, p \in Pairs :
             /\ Signed(by)
             /\ CASE op = "reject" -> by = p[2]
                  [] op = "cancel" -> by = p[1]
                  [] op = "unfriend" -> by \in {p[1], p[2]}
             /\ Begin(r, [New(op, IF \/ op = "reject" /\ rows[p].id # 0
                                     \/ op = "cancel" /\ rows[p].status = "PENDING"
                                     \/ op = "unfriend" /\ rows[p].status = "ACCEPTED"
                                  THEN "erase" ELSE "failed", p[1], p[2]) EXCEPT !.id = rows[p].id])
      BY <1>3, Zenon DEF EraseLoad
    <2>2. p[1] \in Users /\ p[2] \in Users /\ op \in Operations
      BY <1>0 DEF Pairs
    <2>3. rows[p] \in Friendship /\ (rows[p].status = "NONE" <=> rows[p].id = 0)
      BY <1>0 DEF CommunityInv, Rows
    <2> DEFINE pc == IF \/ op = "reject" /\ rows[p].id # 0
                        \/ op = "cancel" /\ rows[p].status = "PENDING"
                        \/ op = "unfriend" /\ rows[p].status = "ACCEPTED"
                     THEN "erase" ELSE "failed"
               new == [New(op, pc, p[1], p[2]) EXCEPT !.id = rows[p].id]
    <2>4. pc \in {"failed", "erase"} /\ (pc = "erase" => rows[p].id # 0)
      BY <2>3
    <2>5. Begin(r, new) /\ rows[p].id \in Nat
      BY <2>1, <2>3 DEF Friendship
    <2> HIDE DEF pc
    <2>6. New(op, pc, p[1], p[2]) \in Request
      BY <1>0, <2>2, <2>4, NewGood
    <2>7. new \in Request /\ new.op = op /\ new.pc = pc /\ new.by = p[1] /\ new.who = p[2]
          /\ new.id = rows[p].id
      BY <1>0, <2>2, <2>4, <2>5, <2>6, NewGood DEF Request
    <2> HIDE DEF new
    <2>8. new \in GoodRequest
      BY <2>2, <2>4, <2>7 DEF GoodRequest
    <2> QED BY <2>2, <2>4, <2>5, <2>7, <2>8 DEF Loaded
  <1>4. CASE BlockLoad(r)
    <2>1. PICK p \in Pairs :
             Begin(r, New("block", IF There(p[2]) THEN "block" ELSE "failed", p[1], p[2]))
      BY <1>4 DEF BlockLoad
    <2>2. p[1] \in Users /\ p[2] \in Users /\ p[1] # p[2]
      BY DEF Pairs
    <2> DEFINE pc == IF There(p[2]) THEN "block" ELSE "failed"
               new == New("block", pc, p[1], p[2])
    <2>3. Begin(r, new) /\ pc \in {"block", "failed"}
      BY <2>1
    <2> HIDE DEF pc
    <2>4. new \in Request /\ new.op = "block" /\ new.pc = pc /\ new.by = p[1] /\ new.who = p[2]
      BY <1>0, <2>2, <2>3, NewGood
    <2> HIDE DEF new
    <2>5. new \in GoodRequest
      BY <2>2, <2>3, <2>4 DEF GoodRequest
    <2> QED BY <2>3, <2>4, <2>5 DEF Loaded
  <1>5. CASE Unblock(r)
    <2>1. PICK p \in Pairs : Begin(r, New("unblock", "ok", p[1], p[2]))
      BY <1>5 DEF Unblock
    <2> QED BY <1>0, <2>1, NewLoaded DEF Pairs
  <1> QED BY <1>1, <1>2, <1>3, <1>4, <1>5 DEF FriendCall

\* Once begun, a request ends, or goes on to the only query that it has left.
LEMMA StepGoes ==
    ASSUME CommunityInv, NEW r \in Requests, AccountStep(r) \/ FriendStep(r)
    PROVE  /\ req' \in [Requests -> GoodRequest] /\ req[r].pc \in Steps
           /\ \A q \in Requests \ {r} : req'[q] = req[q]
           /\ \/ req'[r].pc \in Final
              \/ req'[r].pc = "write" /\ req'[r].op \in {"role", "remove"}
              \/ req'[r].pc = "revoke"
              \/ At(r, "purge", "write") /\ At(r, "purge", "write")' /\ req'[r].found \subseteq req[r].found
  <1> DEFINE Conclusion ==
                /\ req' \in [Requests -> GoodRequest]
                /\ \A q \in Requests \ {r} : req'[q] = req[q]
                /\ \/ req'[r].pc \in Final
                   \/ req'[r].pc = "write" /\ req'[r].op \in {"role", "remove"}
                   \/ req'[r].pc = "revoke"
                   \/ At(r, "purge", "write") /\ At(r, "purge", "write")'
                      /\ req'[r].found \subseteq req[r].found
  <1>0. day \in 1..MaxDay /\ req \in [Requests -> GoodRequest] /\ Requests # {}
    BY DEF CommunityInv, TypeOK
  <1>1. ASSUME Goto(r, "ok") \/ Goto(r, "failed")
        PROVE  Conclusion
    BY <1>0, <1>1, Goes DEF Final
  <1>2. ASSUME NEW new, NEW pc, UpdateUser(r, new, pc)
        PROVE  Goto(r, pc) \/ Goto(r, "failed")
    BY <1>2 DEF UpdateUser
  <1>3. CASE DeleteWrite(r) \/ ReactivateWrite(r) \/ UnbanWrite(r) \/ SanctionWrite(r)
             \/ RoleWrite(r) \/ TierWrite(r)
    <2>1. req[r].pc \in Steps /\ \E new : UpdateUser(r, new, "ok")
      BY <1>3 DEF DeleteWrite, ReactivateWrite, UnbanWrite, SanctionWrite, RoleWrite, TierWrite,
                  At, Steps
    <2> QED BY <1>1, <1>2, <2>1
  <1>4. CASE LoginCreate(r) \/ BanRevoke(r) \/ RemoveWrite(r)
    <2>1. req[r].pc \in Steps /\ (Goto(r, "ok") \/ Goto(r, "failed"))
      BY <1>4 DEF LoginCreate, BanRevoke, RemoveWrite, At, Steps
    <2> QED BY <1>1, <2>1
  <1>5. CASE FriendStep(r)
    <2>1. req[r].pc \in Steps /\ (Goto(r, "ok") \/ Goto(r, "failed"))
      BY <1>5 DEF FriendStep, SendCreate, AcceptWrite, EraseWrite, BlockWrite, At, Steps
    <2> QED BY <1>1, <2>1
  <1>6. CASE BanWrite(r)
    <2>1. At(r, "ban", "write") /\ (Goto(r, "revoke") \/ Goto(r, "failed"))
      BY <1>2, <1>6 DEF BanWrite
    <2>2. CASE Goto(r, "revoke")
      BY <1>0, <2>1, <2>2, Goes DEF At, Steps
    <2> QED BY <1>1, <2>1, <2>2 DEF At, Steps
  <1>7. CASE CountAdmins(r)
    <2>1. req[r].pc = "count" /\ (Goto(r, "failed") \/ Goto(r, "write"))
      BY <1>7 DEF CountAdmins
    <2>2. req[r].op \in {"role", "remove"}
      BY <1>0, <2>1 DEF GoodRequest
    <2>3. CASE Goto(r, "write")
      BY <1>0, <2>1, <2>2, <2>3, Goes DEF Final, Steps
    <2> QED BY <1>1, <2>1, <2>3 DEF Steps
  <1>8. CASE \E u \in Users : PurgeDelete(r, u)
    <2>1. PICK u \in Users : PurgeDelete(r, u)
      BY <1>8
    <2> DEFINE left == req[r].found \ {u}
               next == [req[r] EXCEPT !.found = left]
    <2>2. At(r, "purge", "write")
          /\ req' = [req EXCEPT ![r] = IF left = {} THEN Ended("purge", "ok") ELSE next]
      BY <2>1 DEF PurgeDelete
    <2>3. Ended("purge", "ok") \in GoodRequest /\ Ended("purge", "ok").pc \in Final
      BY <1>0, EndedGood DEF Final
    <2>4. req[r] \in GoodRequest /\ req[r] \in Request
      BY <1>0 DEF GoodRequest
    <2>5. next \in Request /\ next.op = "purge" /\ next.pc = "write" /\ next.found = left
      BY <2>2, <2>4 DEF Request, At
    <2>6. left \subseteq req[r].found
      OBVIOUS
    <2> HIDE DEF left, next
    <2>7. next \in GoodRequest
      BY <2>5 DEF GoodRequest
    <2>8. CASE left = {}
      BY <1>0, <2>2, <2>3, <2>8 DEF At, Steps
    <2>9. CASE left # {}
      <3>1. req' = [req EXCEPT ![r] = next]
        BY <2>2, <2>9
      <3>2. req'[r] = next /\ req' \in [Requests -> GoodRequest]
            /\ \A q \in Requests \ {r} : req'[q] = req[q]
        BY <1>0, <2>7, <3>1
      <3> QED BY <2>2, <2>5, <2>6, <3>2 DEF At, Steps
    <2> QED BY <2>8, <2>9
  <1> QED BY <1>3, <1>4, <1>5, <1>6, <1>7, <1>8 DEF AccountStep

\* What the requests are about, after a step
RequestsMove ==
    /\ req' \in [Requests -> GoodRequest] /\ Done \subseteq Done'
    /\ \A q \in Requests : At(q, "tier", "write")' =>
           \/ req'[q] = req[q]
           \/ req'[q].date <= day + granted[req'[q].who] + req'[q].days
    /\ \A q \in Requests : At(q, "purge", "write")' => req'[q].found \subseteq overdue'
    /\ \A q \in Requests : req'[q].pc = "accept" =>
           \/ req'[q] = req[q]
           \/ /\ <<req'[q].who, req'[q].by>> \in Pairs
              /\ rows[<<req'[q].who, req'[q].by>>].id = req'[q].id
              /\ UNCHANGED rows

LEMMA Moves == CommunityInv /\ [Next]_vars => RequestsMove
  <1> SUFFICES ASSUME CommunityInv, [Next]_vars PROVE RequestsMove
    OBVIOUS
  <1>0. /\ day \in 1..MaxDay /\ req \in [Requests -> GoodRequest]
        /\ \A q \in Requests : At(q, "purge", "write") => req[q].found \subseteq overdue
    BY DEF CommunityInv, TypeOK, Deletions
  <1>1. CASE UNCHANGED <<req, overdue>>
    BY <1>0, <1>1 DEF RequestsMove, Done, At
  <1>2. ASSUME NEW r \in Requests, AccountCall(r) \/ FriendCall(r)
        PROVE  RequestsMove
    <2>1. UNCHANGED rows /\ overdue \subseteq overdue'
      BY <1>2 DEF AccountCall, FriendCall, DeleteLoad, ReactivateLoad, CancelReactivation, LoginCheck,
                  BanLoad, UnbanLoad, SanctionLoad, RoleLoad, RemoveLoad, TierLoad, PurgeFind,
                  SendLoad, AcceptLoad, EraseLoad, BlockLoad, Unblock, tables, history
    <2>2. PICK new : /\ Begin(r, new) /\ (new \in GoodRequest \/ new.pc \in Final)
                     /\ new.pc = "accept" => /\ <<new.who, new.by>> \in Pairs
                                             /\ rows[<<new.who, new.by>>].id = new.id
                     /\ new.op = "tier" /\ new.pc = "write" =>
                            new.date <= day + granted[new.who] + new.days
                     /\ new.op = "purge" /\ new.pc = "write" => new.found \subseteq overdue'
      BY <1>2, AccountLoads, FriendLoads DEF Loaded
    <2>3. /\ req' \in [Requests -> GoodRequest]
          /\ req[r].pc = "new" /\ (req'[r] = new \/ req'[r].pc \in Final)
          /\ \A q \in Requests \ {r} : req'[q] = req[q]
      BY <1>0, <2>2, Begins
    <2>4. Done \subseteq Done'
      BY <2>3 DEF Done, Final
    <2> QED BY <1>0, <2>1, <2>2, <2>3, <2>4 DEF RequestsMove, At, Final
  <1>3. ASSUME NEW r \in Requests, AccountStep(r) \/ FriendStep(r)
        PROVE  RequestsMove
    <2>1. UNCHANGED overdue
      BY <1>3 DEF AccountStep, FriendStep, DeleteWrite, ReactivateWrite, LoginCreate, BanWrite, BanRevoke,
                  UnbanWrite, SanctionWrite, CountAdmins, RoleWrite, RemoveWrite, TierWrite,
                  PurgeDelete, SendCreate, AcceptWrite, EraseWrite, BlockWrite, history
    <2>2. /\ req' \in [Requests -> GoodRequest] /\ req[r].pc \in Steps
          /\ \A q \in Requests \ {r} : req'[q] = req[q]
          /\ \/ req'[r].pc \in Final
             \/ req'[r].pc = "write" /\ req'[r].op \in {"role", "remove"}
             \/ req'[r].pc = "revoke"
             \/ At(r, "purge", "write") /\ At(r, "purge", "write")' /\ req'[r].found \subseteq req[r].found
      BY <1>3, StepGoes
    <2>3. Done \subseteq Done'
      BY <2>2 DEF Done, Final, Steps
    <2> QED BY <1>0, <2>1, <2>2, <2>3 DEF RequestsMove, At, Final
  <1>4. CASE VipJob \/ Tick \/ UNCHANGED vars
    BY <1>1, <1>4 DEF VipJob, VipFind, VipDemote, Tick, vars, history
  <1> QED BY <1>2, <1>3, <1>4 DEF Next

-----------------------------------------------------------------------------
(* How a step changes the accounts                                         *)

\* The steps that change an account
Handler(r, op) == At(r, op, "write")
Change(u) ==
    \/ user'[u] = user[u]
    \/ /\ user'[u] = [FirstAccount(u) EXCEPT !.there = FALSE]
       /\ u \in overdue \/ \E r \in Requests : Handler(r, "remove") /\ req[r].who = u
    \/ /\ user[u].there /\ user'[u].there
       /\ \/ user'[u].expires \in {user[u].expires, 0}
          \/ \E r \in Requests : /\ Handler(r, "tier") /\ req[r].who = u
                                 /\ user'[u].expires = req[r].date
                                 /\ granted'[u] = granted[u] + req[r].days
       /\ user[u].banned /\ ~Lapsed(u) =>
             \/ user'[u].banned
             \/ \E r \in Requests : Handler(r, "unban") /\ req[r].who = u
       /\ user'[u].status = "PENDING_DELETION" =>
             user'[u].due # 0 \/ (user[u].status = "PENDING_DELETION" /\ user'[u].due = user[u].due)

UsersMove ==
    /\ user' \in [Users -> Account] /\ \A u \in Users : Change(u)
    /\ \/ \E u \in Users : DeleteUsers({u})
       \/ \A u \in Users : user'[u].there = user[u].there

LEMMA FirstTyped ==
    ASSUME CommunityInv, NEW u \in Users
    PROVE  /\ [FirstAccount(u) EXCEPT !.there = FALSE] \in Account
           /\ ~[FirstAccount(u) EXCEPT !.there = FALSE].there
           /\ [FirstAccount(u) EXCEPT !.there = FALSE].status = "ACTIVE"
           /\ [FirstAccount(u) EXCEPT !.there = FALSE].expires = 0
  <1>1. 0 \in Later
    <2>1. MaxDay \in Nat /\ MaxDays \in Nat /\ Cardinality(Requests) \in Nat
      BY CommunityBounds, FS_CardinalityType
    <2>2. MaxDays * Cardinality(Requests) \in Nat
      BY <2>1, Product
    <2> QED BY <2>1, <2>2 DEF Later
  <1>2. FirstAccount(u) \in Account /\ FirstAccount(u).status = "ACTIVE" /\ FirstAccount(u).expires = 0
    BY <1>1 DEF FirstAccount, Account, Roles, UserStatus, Tiers
  <1> HIDE DEF FirstAccount
  <1> QED BY <1>2 DEF Account

\* One account is updated, if it is still there.
LEMMA Updated ==
    ASSUME CommunityInv, NEW u \in Users, NEW new \in Account,
           user' = user \/ (There(u) /\ user' = [user EXCEPT ![u] = new] /\ new.there),
           new.there =>
              /\ \/ new.expires \in {user[u].expires, 0}
                 \/ \E r \in Requests : /\ Handler(r, "tier") /\ req[r].who = u
                                        /\ new.expires = req[r].date
                                        /\ granted'[u] = granted[u] + req[r].days
              /\ user[u].banned /\ ~Lapsed(u) =>
                    new.banned \/ \E r \in Requests : Handler(r, "unban") /\ req[r].who = u
              /\ new.status = "PENDING_DELETION" =>
                    new.due # 0 \/ (user[u].status = "PENDING_DELETION" /\ new.due = user[u].due)
    PROVE  UsersMove
  <1>0. user \in [Users -> Account]
    BY DEF CommunityInv, TypeOK
  <1>1. CASE user' = user
    BY <1>0, <1>1 DEF UsersMove, Change
  <1>2. CASE There(u) /\ user' = [user EXCEPT ![u] = new] /\ new.there
    <2>1. user' \in [Users -> Account] /\ user'[u] = new /\ \A v \in Users \ {u} : user'[v] = user[v]
      BY <1>0, <1>2
    <2>2. Change(u) /\ user[u].there
      BY <1>2, <2>1 DEF Change, There
    <2>3. \A v \in Users \ {u} : Change(v)
      BY <2>1 DEF Change
    <2> QED BY <1>2, <2>1, <2>2, <2>3 DEF UsersMove
  <1> QED BY <1>1, <1>2

LEMMA Deleted ==
    ASSUME CommunityInv, NEW u \in Users, DeleteUsers({u}),
           u \in overdue \/ \E r \in Requests : Handler(r, "remove") /\ req[r].who = u
    PROVE  UsersMove
  <1>1. user \in [Users -> Account]
    BY DEF CommunityInv, TypeOK
  <1> DEFINE first == [FirstAccount(u) EXCEPT !.there = FALSE]
  <1>2. first \in Account
    BY FirstTyped
  <1>3. user' = [v \in Users |-> IF v \in {u} THEN [FirstAccount(v) EXCEPT !.there = FALSE] ELSE user[v]]
    BY DEF DeleteUsers
  <1>4. user'[u] = first /\ \A v \in Users \ {u} : user'[v] = user[v]
    BY <1>3
  <1>5. user' \in [Users -> Account]
    <2> HIDE DEF first
    <2> QED BY <1>1, <1>2, <1>3, <1>4
  <1>6. \A v \in Users : Change(v)
    BY <1>4 DEF Change
  <1> QED BY <1>5, <1>6 DEF UsersMove

\* The date that the code sets is one of the dates.
LEMMA Accounts == CommunityInv /\ [Next]_vars => UsersMove
  <1> SUFFICES ASSUME CommunityInv, [Next]_vars PROVE UsersMove
    OBVIOUS
  <1>0. user \in [Users -> Account] /\ req \in [Requests -> GoodRequest] /\ day \in 1..MaxDay
    BY DEF CommunityInv, TypeOK
  <1>1. CASE UNCHANGED user
    BY <1>0, <1>1 DEF UsersMove, Change
  <1>2. ASSUME NEW r \in Requests, At(r, "delete", "write") \/ At(r, "reactivate", "write")
                  \/ At(r, "ban", "write") \/ At(r, "unban", "write") \/ At(r, "sanction", "write")
                  \/ At(r, "role", "write") \/ At(r, "tier", "write") \/ At(r, "remove", "write")
        PROVE  /\ req[r].who \in Users /\ user[req[r].who] \in Account /\ req[r] \in GoodRequest
               /\ req[r] \in Request
               /\ 0 \in Later /\ day \in Later /\ day + 1 \in Later
    BY <1>0, <1>2, Dates DEF At, GoodRequest, Steps
  <1>3. ASSUME NEW r \in Requests, NEW new, NEW pc, UpdateUser(r, new, pc)
        PROVE  user' = user \/ (There(req[r].who) /\ user' = [user EXCEPT ![req[r].who] = new])
    BY <1>3 DEF UpdateUser
  <1>4. ASSUME NEW r \in Requests, DeleteWrite(r)
        PROVE  UsersMove
    <2> DEFINE u == req[r].who
               due == day + 1
               new == [user[u] EXCEPT !.status = "PENDING_DELETION", !.due = due]
    <2>1. u \in Users /\ user[u] \in Account /\ due \in Later /\ due # 0
      BY <1>0, <1>2, <1>4 DEF DeleteWrite
    <2>2. UpdateUser(r, new, "ok")
      BY <1>4 DEF DeleteWrite
    <2> HIDE DEF due
    <2>3. new \in Account /\ new.there = user[u].there /\ new.expires = user[u].expires
          /\ new.banned = user[u].banned /\ new.due # 0
      BY <2>1 DEF Account, UserStatus
    <2> HIDE DEF new
    <2>4. user' = user \/ (There(u) /\ user' = [user EXCEPT ![u] = new] /\ new.there)
      BY <1>3, <2>2, <2>3 DEF There
    <2> HIDE DEF u
    <2> QED BY <2>1, <2>3, <2>4, Updated
  <1>5. ASSUME NEW r \in Requests, ReactivateWrite(r)
        PROVE  UsersMove
    <2> DEFINE u == req[r].who
               new == [user[u] EXCEPT !.status = "ACTIVE", !.due = 0]
    <2>1. u \in Users /\ user[u] \in Account /\ 0 \in Later
      BY <1>2, <1>5 DEF ReactivateWrite
    <2>2. UpdateUser(r, new, "ok")
      BY <1>5 DEF ReactivateWrite
    <2>3. new \in Account /\ new.there = user[u].there /\ new.expires = user[u].expires
          /\ new.banned = user[u].banned /\ new.status = "ACTIVE"
      BY <2>1 DEF Account, UserStatus
    <2> HIDE DEF new
    <2>4. user' = user \/ (There(u) /\ user' = [user EXCEPT ![u] = new] /\ new.there)
      BY <1>3, <2>2, <2>3 DEF There
    <2> HIDE DEF u
    <2> QED BY <2>1, <2>3, <2>4, Updated
  <1>6. ASSUME NEW r \in Requests, LoginCheck(r)
        PROVE  UsersMove
    <2>1. PICK u \in Users :
             user' = IF There(u) /\ Lapsed(u)
                     THEN [user EXCEPT ![u].banned = FALSE, ![u].until = 0] ELSE user
      BY <1>6 DEF LoginCheck
    <2> DEFINE new == [user[u] EXCEPT !.banned = FALSE, !.until = 0]
    <2>2. user[u] \in Account /\ 0 \in Later
      BY <1>0, Dates
    <2>3. new \in Account /\ new.there = user[u].there /\ new.expires = user[u].expires
          /\ new.status = user[u].status /\ new.due = user[u].due
      BY <2>2 DEF Account
    <2>4. [user EXCEPT ![u].banned = FALSE, ![u].until = 0] = [user EXCEPT ![u] = new]
      BY <1>0
    <2> HIDE DEF new
    <2>5. user' = user \/ (There(u) /\ Lapsed(u) /\ user' = [user EXCEPT ![u] = new] /\ new.there)
      BY <2>1, <2>3, <2>4 DEF There
    <2>6. CASE Lapsed(u)
      BY <2>3, <2>5, <2>6, Updated
    <2> QED BY <1>1, <2>5, <2>6
  <1>7. ASSUME NEW r \in Requests, BanWrite(r)
        PROVE  UsersMove
    <2> DEFINE u == req[r].who
               until == IF req[r].days = 0 THEN 0 ELSE day + req[r].days
               new == [user[u] EXCEPT !.banned = TRUE, !.until = until]
    <2>1. u \in Users /\ user[u] \in Account /\ 0 \in Later /\ day + 1 \in Later
      BY <1>2, <1>7 DEF BanWrite
    <2>2. UpdateUser(r, new, "revoke")
      BY <1>7 DEF BanWrite
    <2>3. until \in Later
      BY <1>2, <1>7, <2>1 DEF BanWrite, GoodRequest, At, Steps
    <2> HIDE DEF until
    <2>4. new \in Account /\ new.there = user[u].there /\ new.expires = user[u].expires
          /\ new.banned /\ new.status = user[u].status /\ new.due = user[u].due
      BY <2>1, <2>3 DEF Account
    <2> HIDE DEF new
    <2>5. user' = user \/ (There(u) /\ user' = [user EXCEPT ![u] = new] /\ new.there)
      BY <1>3, <2>2, <2>4 DEF There
    <2> HIDE DEF u
    <2> QED BY <2>1, <2>4, <2>5, Updated
  <1>8. ASSUME NEW r \in Requests, UnbanWrite(r)
        PROVE  UsersMove
    <2> DEFINE u == req[r].who
               new == [user[u] EXCEPT !.banned = FALSE, !.until = 0]
    <2>1. u \in Users /\ user[u] \in Account /\ 0 \in Later
      BY <1>2, <1>8 DEF UnbanWrite
    <2>2. UpdateUser(r, new, "ok") /\ Handler(r, "unban")
      BY <1>8 DEF UnbanWrite, Handler
    <2>3. new \in Account /\ new.there = user[u].there /\ new.expires = user[u].expires
          /\ new.status = user[u].status /\ new.due = user[u].due
      BY <2>1 DEF Account
    <2> HIDE DEF new
    <2>4. user' = user \/ (There(u) /\ user' = [user EXCEPT ![u] = new] /\ new.there)
      BY <1>3, <2>2, <2>3 DEF There
    <2> QED BY <2>1, <2>2, <2>3, <2>4, Updated
  <1>9. ASSUME NEW r \in Requests, SanctionWrite(r)
        PROVE  UsersMove
    <2> DEFINE u == req[r].who
               new == Sanctioned(user[u], req[r].kind)
    <2>1. u \in Users /\ user[u] \in Account /\ 0 \in Later /\ day + 1 \in Later
          /\ req[r].kind \in {"SUSPENDED", "BANNED"}
      BY <1>2, <1>9 DEF SanctionWrite, GoodRequest, At, Steps
    <2>2. UpdateUser(r, new, "ok")
      BY <1>9 DEF SanctionWrite
    <2>3. new \in Account /\ new.there = user[u].there /\ new.expires = user[u].expires
          /\ (user[u].banned => new.banned) /\ new.status # "PENDING_DELETION"
      BY <2>1 DEF Account, Sanctioned, UserStatus
    <2> HIDE DEF new
    <2>4. user' = user \/ (There(u) /\ user' = [user EXCEPT ![u] = new] /\ new.there)
      BY <1>3, <2>2, <2>3 DEF There
    <2> HIDE DEF u
    <2> QED BY <2>1, <2>3, <2>4, Updated
  <1>10. ASSUME NEW r \in Requests, RoleWrite(r)
         PROVE  UsersMove
    <2> DEFINE u == req[r].who
               new == [user[u] EXCEPT !.role = req[r].kind]
    <2>1. u \in Users /\ user[u] \in Account /\ req[r].kind \in Roles
      BY <1>2, <1>10 DEF RoleWrite, GoodRequest, At, Steps
    <2>2. UpdateUser(r, new, "ok")
      BY <1>10 DEF RoleWrite
    <2>3. new \in Account /\ new.there = user[u].there /\ new.expires = user[u].expires
          /\ new.banned = user[u].banned /\ new.status = user[u].status /\ new.due = user[u].due
      BY <2>1 DEF Account
    <2> HIDE DEF new
    <2>4. user' = user \/ (There(u) /\ user' = [user EXCEPT ![u] = new] /\ new.there)
      BY <1>3, <2>2, <2>3 DEF There
    <2> HIDE DEF u
    <2> QED BY <2>1, <2>3, <2>4, Updated
  <1>11. ASSUME NEW r \in Requests, TierWrite(r)
         PROVE  UsersMove
    <2> DEFINE u == req[r].who
               new == [user[u] EXCEPT !.tier = req[r].kind, !.expires = req[r].date]
    <2>1. u \in Users /\ user[u] \in Account /\ req[r].kind \in Tiers /\ req[r].date \in Later
      BY <1>2, <1>11 DEF TierWrite, GoodRequest, Request, At, Steps
    <2>2. UpdateUser(r, new, "ok") /\ Handler(r, "tier") /\ granted'[u] = granted[u] + req[r].days
      BY <1>11, <2>1 DEF TierWrite, Handler, CommunityInv, TypeOK
    <2>3. new \in Account /\ new.there = user[u].there /\ new.expires = req[r].date
          /\ new.banned = user[u].banned /\ new.status = user[u].status /\ new.due = user[u].due
      BY <2>1 DEF Account
    <2> HIDE DEF new
    <2>4. user' = user \/ (There(u) /\ user' = [user EXCEPT ![u] = new] /\ new.there)
      BY <1>3, <2>2, <2>3 DEF There
    <2> QED BY <2>1, <2>2, <2>3, <2>4, Updated
  <1>12. ASSUME NEW r \in Requests, RemoveWrite(r)
         PROVE  UsersMove
    BY <1>2, <1>12, Deleted DEF RemoveWrite, Handler
  <1>13. ASSUME NEW r \in Requests, NEW u \in Users, PurgeDelete(r, u)
         PROVE  UsersMove
    BY <1>13, Deleted DEF PurgeDelete, CommunityInv, Deletions
  <1>14. ASSUME NEW u \in Users, VipDemote(u)
         PROVE  UsersMove
    <2> DEFINE new == [user[u] EXCEPT !.tier = "FREE", !.expires = 0]
    <2>1. user[u] \in Account /\ 0 \in Later
      <3>1. 0 \in Later
        BY FirstTyped DEF Account
      <3> QED BY <1>0, <3>1
    <2>2. new \in Account /\ new.there = user[u].there /\ new.expires = 0
          /\ new.banned = user[u].banned /\ new.status = user[u].status /\ new.due = user[u].due
      BY <2>1 DEF Account, Tiers
    <2>3. [user EXCEPT ![u].tier = "FREE", ![u].expires = 0] = [user EXCEPT ![u] = new]
      BY <1>0
    <2> HIDE DEF new
    <2>4. user' = user \/ (There(u) /\ user' = [user EXCEPT ![u] = new] /\ new.there)
      BY <1>14, <2>2, <2>3 DEF There, VipDemote
    <2> QED BY <2>2, <2>4, Updated
  <1>15. ASSUME NEW r \in Requests,
                \/ DeleteLoad(r) \/ ReactivateLoad(r) \/ CancelReactivation(r) \/ BanLoad(r)
                \/ UnbanLoad(r) \/ SanctionLoad(r) \/ RoleLoad(r) \/ RemoveLoad(r) \/ TierLoad(r)
                \/ PurgeFind(r) \/ LoginCreate(r) \/ BanRevoke(r) \/ CountAdmins(r)
                \/ FriendCall(r) \/ FriendStep(r)
         PROVE  UNCHANGED user
    BY <1>15 DEF DeleteLoad, ReactivateLoad, CancelReactivation, BanLoad, UnbanLoad, SanctionLoad, RoleLoad,
                 RemoveLoad, TierLoad, PurgeFind, LoginCreate, BanRevoke, CountAdmins,
                 FriendCall, SendLoad, AcceptLoad, EraseLoad, BlockLoad, Unblock,
                 FriendStep, SendCreate, AcceptWrite, EraseWrite, BlockWrite, tables
  <1>16. VipFind \/ Tick \/ UNCHANGED vars => UNCHANGED user
    BY DEF VipFind, Tick, vars, tables
  <1> QED BY <1>1, <1>4, <1>5, <1>6, <1>7, <1>8, <1>9, <1>10, <1>11, <1>12, <1>13, <1>14, <1>15, <1>16
          DEF Next, AccountCall, AccountStep, VipJob

-----------------------------------------------------------------------------
(* How a step changes the grants, the sessions and the friendships         *)

GrantsMove ==
    /\ day' \in 1..MaxDay /\ day <= day' /\ granted' \in [Users -> Nat]
    /\ \A u \in Users : granted[u] <= granted'[u] /\ granted'[u] <= MaxDays * Cardinality(Done')

LEMMA Granted == CommunityInv /\ [Next]_vars => GrantsMove
  <1> SUFFICES ASSUME CommunityInv, [Next]_vars PROVE GrantsMove
    OBVIOUS
  <1>0. /\ granted \in [Users -> Nat] /\ req \in [Requests -> GoodRequest] /\ day \in 1..MaxDay
        /\ \A u \in Users : granted[u] <= MaxDays * Cardinality(Done)
        /\ MaxDays \in Nat /\ MaxDay \in Nat
    BY CommunityBounds DEF CommunityInv, TypeOK, Grants
  <1>1. Done \subseteq Done' /\ Done' \subseteq Requests
    BY Moves DEF RequestsMove, Done
  <1>2. /\ IsFiniteSet(Done) /\ IsFiniteSet(Done') /\ Cardinality(Done) \in Nat /\ Cardinality(Done') \in Nat
        /\ Cardinality(Done) <= Cardinality(Done')
    BY <1>1, CommunityBounds, FS_Subset, FS_CardinalityType
  <1>3. /\ MaxDays * Cardinality(Done) \in Nat /\ MaxDays * Cardinality(Done') \in Nat
        /\ MaxDays * Cardinality(Done) <= MaxDays * Cardinality(Done')
    BY <1>0, <1>2, Product
  <1>4. day' \in 1..MaxDay /\ day <= day'
    <2>1. CASE Tick
      BY <1>0, <2>1 DEF Tick
    <2>2. CASE ~Tick
      <3>1. UNCHANGED day
        BY <2>2 DEF Next, vars, AccountCall, AccountStep, FriendCall, FriendStep, VipJob, DeleteLoad,
             DeleteWrite, ReactivateLoad, ReactivateWrite, CancelReactivation, LoginCheck, LoginCreate,
             BanLoad, BanWrite, BanRevoke, UnbanLoad, UnbanWrite, SanctionLoad, SanctionWrite, RoleLoad,
             RemoveLoad, CountAdmins, RoleWrite, RemoveWrite, TierLoad, TierWrite, VipFind, VipDemote,
             PurgeFind, PurgeDelete, SendLoad, SendCreate, AcceptLoad, AcceptWrite, EraseLoad, EraseWrite,
             BlockLoad, BlockWrite, Unblock
      <3> QED BY <1>0, <3>1
    <2> QED BY <2>1, <2>2
  <1>5. CASE UNCHANGED granted
    <2>1. ASSUME NEW u \in Users
          PROVE  granted[u] <= granted'[u] /\ granted'[u] <= MaxDays * Cardinality(Done')
      BY <1>0, <1>3, <1>5
    <2> QED BY <1>0, <1>4, <1>5, <2>1 DEF GrantsMove
  <1>6. ASSUME NEW r \in Requests, TierWrite(r)
        PROVE  GrantsMove
    <2>1. /\ req[r].who \in Users /\ req[r].days \in Nat /\ req[r].days <= MaxDays
          /\ granted' = [granted EXCEPT ![req[r].who] = @ + req[r].days] /\ req[r].pc = "write"
      BY <1>0, <1>6 DEF TierWrite, At, GoodRequest, Request, Steps
    <2>2. r \notin Done /\ r \in Done'
      <3>1. Goto(r, "ok") \/ Goto(r, "failed")
        BY <1>6 DEF TierWrite, UpdateUser
      <3>2. req'[r].pc \in Final
        BY <1>0, <3>1, Goes DEF Final
      <3> QED BY <2>1, <3>2 DEF Done, Final
    <2>3. Cardinality(Done) < Cardinality(Done')
      <3>1. Done \cup {r} \subseteq Done' /\ Cardinality(Done \cup {r}) = Cardinality(Done) + 1
        BY <1>1, <1>2, <2>2, FS_AddElement
      <3>2. Cardinality(Done \cup {r}) <= Cardinality(Done')
        BY <1>2, <3>1, FS_Subset
      <3> QED BY <1>2, <3>1, <3>2
    <2>4. MaxDays * Cardinality(Done) + MaxDays <= MaxDays * Cardinality(Done')
      BY <1>0, <1>2, <2>3, Product
    <2>5. ASSUME NEW u \in Users
          PROVE  granted'[u] \in Nat /\ granted[u] <= granted'[u]
                 /\ granted'[u] <= MaxDays * Cardinality(Done')
      BY <1>0, <1>3, <2>1, <2>4
    <2>6. granted' \in [Users -> Nat]
      BY <1>0, <2>1
    <2> QED BY <1>4, <2>5, <2>6 DEF GrantsMove
  <1>7. ~(\E r \in Requests : TierWrite(r)) => UNCHANGED granted
    BY DEF Next, vars, AccountCall, AccountStep, FriendCall, FriendStep, VipJob, DeleteLoad,
             DeleteWrite, ReactivateLoad, ReactivateWrite, CancelReactivation, LoginCheck, LoginCreate,
             BanLoad, BanWrite, BanRevoke, UnbanLoad, UnbanWrite, SanctionLoad, SanctionWrite, RoleLoad,
             RemoveLoad, CountAdmins, RoleWrite, RemoveWrite, TierLoad, VipFind, VipDemote,
             PurgeFind, PurgeDelete, SendLoad, SendCreate, AcceptLoad, AcceptWrite, EraseLoad, EraseWrite,
             BlockLoad, BlockWrite, Unblock, Tick, history
  <1> QED BY <1>5, <1>6, <1>7

\* The steps that change friendships
RowStep(r) == SendCreate(r) \/ AcceptWrite(r) \/ EraseWrite(r) \/ BlockWrite(r)
TablesMove ==
    \/ \E u \in Users : DeleteUsers({u})
    \/ /\ sessions' \subseteq sessions \cup {u \in Users : There(u)}
       /\ \/ UNCHANGED <<rows, willing>> /\ blocks' \subseteq blocks
          \/ \E r \in Requests : RowStep(r)

LEMMA Tables == CommunityInv /\ [Next]_vars => TablesMove
  <1> SUFFICES ASSUME CommunityInv, [Next]_vars PROVE TablesMove
    OBVIOUS
  <1>1. CASE UNCHANGED <<sessions, rows, blocks, willing>>
    BY <1>1 DEF TablesMove
  <1>2. ASSUME NEW r \in Requests, AccountCall(r) \/ FriendCall(r)
        PROVE  TablesMove
    <2>1. CASE CancelReactivation(r)
      BY <2>1 DEF CancelReactivation, TablesMove, history
    <2>2. CASE Unblock(r)
      BY <2>2 DEF Unblock, TablesMove, history
    <2>3. CASE ~CancelReactivation(r) /\ ~Unblock(r)
      BY <1>1, <1>2, <2>3 DEF AccountCall, FriendCall, DeleteLoad, ReactivateLoad, LoginCheck, BanLoad,
             UnbanLoad, SanctionLoad, RoleLoad, RemoveLoad, TierLoad, PurgeFind, SendLoad, AcceptLoad,
             EraseLoad, BlockLoad, tables, history
    <2> QED BY <2>1, <2>2, <2>3
  <1>3. ASSUME NEW r \in Requests, AccountStep(r)
        PROVE  TablesMove
    <2>1. CASE RemoveWrite(r)
      <3>1. req[r].who \in Users
        BY <2>1 DEF RemoveWrite, At, CommunityInv, GoodRequest, Steps
      <3> QED BY <2>1, <3>1 DEF RemoveWrite, TablesMove
    <2>2. CASE \E u \in Users : PurgeDelete(r, u)
      BY <2>2 DEF PurgeDelete, TablesMove
    <2>3. CASE LoginCreate(r)
      <3>1. sessions' \subseteq sessions \cup {u \in Users : There(u)}
        BY <2>3 DEF LoginCreate, There
      <3> QED BY <2>3, <3>1 DEF LoginCreate, TablesMove, history
    <2>4. CASE DeleteWrite(r) \/ BanRevoke(r) \/ SanctionWrite(r)
      BY <2>4 DEF DeleteWrite, BanRevoke, SanctionWrite, TablesMove, history
    <2>5. CASE ReactivateWrite(r) \/ BanWrite(r) \/ UnbanWrite(r) \/ CountAdmins(r) \/ RoleWrite(r)
               \/ TierWrite(r)
      BY <1>1, <2>5 DEF ReactivateWrite, BanWrite, UnbanWrite, CountAdmins, RoleWrite, TierWrite,
                        tables, history
    <2> QED BY <1>3, <2>1, <2>2, <2>3, <2>4, <2>5 DEF AccountStep
  <1>4. ASSUME NEW r \in Requests, FriendStep(r)
        PROVE  TablesMove
    <2>1. UNCHANGED sessions /\ RowStep(r)
      BY <1>4 DEF FriendStep, RowStep, SendCreate, AcceptWrite, EraseWrite, BlockWrite
    <2> QED BY <2>1 DEF TablesMove
  <1>5. CASE VipJob \/ Tick \/ UNCHANGED vars
    BY <1>1, <1>5 DEF VipJob, VipFind, VipDemote, Tick, vars, tables, history
  <1> QED BY <1>2, <1>3, <1>4, <1>5 DEF Next

-----------------------------------------------------------------------------
(* Friendships                                                             *)

\* There are more ids than rows and requests.
LEMMA IdsRemain ==
    ASSUME CommunityInv
    PROVE  NewId \in Nat /\ NewId # 0 /\ NewId \notin Used
  <1>1. IsFiniteSet(Pairs) /\ IsFiniteSet(Requests)
    <2>1. IsFiniteSet(Users \X Users)
      BY CommunityBounds, FS_Product
    <2>2. Pairs \subseteq Users \X Users
      BY DEF Pairs
    <2> QED BY <2>1, <2>2, CommunityBounds, FS_Subset
  <1>2. Cardinality(Pairs) \in Nat /\ Cardinality(Requests) \in Nat
    BY <1>1, FS_CardinalityType
  <1> DEFINE A == {rows[p].id : p \in Pairs}
             B == {req[r].id : r \in Requests}
             N == Cardinality(Pairs) + Cardinality(Requests) + 1
  <1>3. IsFiniteSet(A) /\ Cardinality(A) <= Cardinality(Pairs)
    <2> DEFINE f == [p \in Pairs |-> rows[p].id]
    <2>1. f \in Surjection(Pairs, A)
      BY DEF Surjection
    <2> HIDE DEF f
    <2> QED BY <1>1, <2>1, FS_Surjection
  <1>4. IsFiniteSet(B) /\ Cardinality(B) <= Cardinality(Requests)
    <2> DEFINE f == [r \in Requests |-> req[r].id]
    <2>1. f \in Surjection(Requests, B)
      BY DEF Surjection
    <2> HIDE DEF f
    <2> QED BY <1>1, <2>1, FS_Surjection
  <1>5. Used = A \cup B
    BY DEF Used
  <1> HIDE DEF A, B
  <1>6. IsFiniteSet(Used) /\ Cardinality(Used) < N
    <2>1. IsFiniteSet(A \cup B) /\ IsFiniteSet(A \cap B)
          /\ Cardinality(A \cup B) = Cardinality(A) + Cardinality(B) - Cardinality(A \cap B)
      BY <1>3, <1>4, FS_Union, FS_Intersection
    <2>2. Cardinality(A) \in Nat /\ Cardinality(B) \in Nat /\ Cardinality(A \cap B) \in Nat
      BY <1>3, <1>4, <2>1, FS_CardinalityType
    <2> QED BY <1>2, <1>3, <1>4, <1>5, <2>1, <2>2
  <1>7. \E i \in 1..N : i \notin Used
    <2> SUFFICES ASSUME 1..N \subseteq Used PROVE FALSE
      OBVIOUS
    <2>0. N \in Nat /\ N >= 1
      BY <1>2
    <2> HIDE DEF N
    <2>1. N \in Nat /\ IsFiniteSet(1..N) /\ Cardinality(1..N) = N
      BY <2>0, FS_Interval
    <2>2. Cardinality(1..N) <= Cardinality(Used)
      BY <1>6, FS_Subset
    <2> QED BY <1>6, <2>1, <2>2, FS_CardinalityType
  <1>8. NewId \in 1..N /\ NewId \notin Used
    BY <1>7 DEF NewId
  <1> QED BY <1>2, <1>8

\* The friendships, and what the requests about them know, are what they should be.
Friendships ==
    /\ rows \in [Pairs -> Friendship] /\ willing \subseteq Pairs /\ FriendsAreWilling /\ Rows

\* No friendship changes.
LEMMA RowsStay ==
    ASSUME CommunityInv, RequestsMove, UNCHANGED <<rows, willing>>
    PROVE  Friendships'
  <1>1. Friendships
    BY DEF CommunityInv, TypeOK, Friendships
  <1>2. ASSUME NEW r \in Requests, req'[r].pc = "accept", NEW p \in Pairs, rows[p].id = req'[r].id
        PROVE  p = <<req'[r].who, req'[r].by>>
    <2>1. CASE req'[r] = req[r]
      BY <1>1, <1>2, <2>1 DEF Friendships, Rows
    <2>2. CASE req'[r] # req[r]
      <3>1. /\ <<req'[r].who, req'[r].by>> \in Pairs
            /\ rows[<<req'[r].who, req'[r].by>>].id = req'[r].id
        BY <1>2, <2>2 DEF RequestsMove
      <3>2. req'[r].id # 0
        BY <1>2 DEF RequestsMove, GoodRequest
      <3> QED BY <1>1, <1>2, <3>1, <3>2 DEF Friendships, Rows
    <2> QED BY <2>1, <2>2
  <1> QED BY <1>1, <1>2 DEF Friendships, Rows, FriendsAreWilling

\* Rows go, and with them nobody's will but that of those who had them.
LEMMA RowsGo ==
    ASSUME CommunityInv, RequestsMove, NEW S \in SUBSET Pairs,
           rows' = [p \in Pairs |-> IF p \in S THEN NoRow ELSE rows[p]],
           willing' \subseteq willing,
           \A p \in Pairs \ S : {p, <<p[2], p[1]>>} \cap willing \subseteq willing'
    PROVE  Friendships'
  <1>1. Friendships
    BY DEF CommunityInv, TypeOK, Friendships
  <1>2. rows' \in [Pairs -> Friendship] /\ willing' \subseteq Pairs
    BY <1>1 DEF Friendships, Friendship, NoRow
  <1>3. \A p \in Pairs : \/ p \notin S /\ rows'[p] = rows[p]
                         \/ rows'[p].id = 0 /\ rows'[p].status = "NONE"
    BY DEF NoRow
  <1>4. (\A p \in Pairs : rows[p].status = "NONE" <=> rows[p].id = 0)'
    BY <1>1, <1>3 DEF Friendships, Rows
  <1>5. (\A p, q \in Pairs : rows[p].id = rows[q].id /\ rows[p].id # 0 => p = q)'
    BY <1>1, <1>3 DEF Friendships, Rows
  <1>6. ASSUME NEW r \in Requests, req'[r].pc = "accept", NEW p \in Pairs, rows'[p].id = req'[r].id
        PROVE  p = <<req'[r].who, req'[r].by>>
    <2>1. req'[r].id # 0 /\ rows[p].id = req'[r].id
      BY <1>3, <1>6 DEF RequestsMove, GoodRequest
    <2>2. CASE req'[r] = req[r]
      BY <1>1, <1>6, <2>1, <2>2 DEF Friendships, Rows
    <2>3. CASE req'[r] # req[r]
      <3>1. /\ <<req'[r].who, req'[r].by>> \in Pairs
            /\ rows[<<req'[r].who, req'[r].by>>].id = req'[r].id
        BY <1>6, <2>3 DEF RequestsMove
      <3> QED BY <1>1, <2>1, <3>1 DEF Friendships, Rows
    <2> QED BY <2>2, <2>3
  <1>7. (\A p \in Pairs : rows[p].status = "PENDING" => p \in willing)'
    BY <1>1, <1>3 DEF Friendships, Rows
  <1>8. FriendsAreWilling'
    BY <1>1, <1>3 DEF Friendships, FriendsAreWilling
  <1> QED BY <1>2, <1>4, <1>5, <1>6, <1>7, <1>8 DEF Friendships, Rows

LEMMA DeletedRows ==
    ASSUME CommunityInv, RequestsMove, NEW u \in Users, DeleteUsers({u})
    PROVE  Friendships'
  <1> DEFINE S == {p \in Pairs : p[1] = u \/ p[2] = u}
  <1>1. rows' = [p \in Pairs |-> IF p \in S THEN NoRow ELSE rows[p]]
    BY DEF DeleteUsers
  <1>2. willing' \subseteq willing /\ \A p \in willing : p[1] # u /\ p[2] # u => p \in willing'
    BY DEF DeleteUsers
  <1>3. \A p \in Pairs \ S : {p, <<p[2], p[1]>>} \cap willing \subseteq willing'
    BY <1>2
  <1>4. S \in SUBSET Pairs
    OBVIOUS
  <1> HIDE DEF S
  <1> QED BY <1>1, <1>2, <1>3, <1>4, RowsGo

\* A request to be friends makes a row that its sender wants, with an id of its own.
LEMMA SentRow ==
    ASSUME CommunityInv, RequestsMove, NEW r \in Requests, SendCreate(r)
    PROVE  Friendships'
  <1> DEFINE p == <<req[r].by, req[r].who>>
             new == [status |-> "PENDING", id |-> NewId]
  <1>1. Friendships /\ req \in [Requests -> GoodRequest] /\ day \in 1..MaxDay
    BY DEF CommunityInv, TypeOK, Friendships
  <1>2. p \in Pairs /\ At(r, "send", "create")
    BY <1>1 DEF SendCreate, At, GoodRequest, Steps, Pairs
  <1>3. CASE UNCHANGED <<rows, willing>>
    BY <1>3, RowsStay
  <1>4. CASE rows' = [rows EXCEPT ![p] = new] /\ willing' = willing \cup {p}
    <2>1. NewId \in Nat /\ NewId # 0 /\ (\A q \in Pairs : rows[q].id # NewId)
          /\ \A t \in Requests : req[t].id # NewId
      BY IdsRemain DEF Used
    <2>2. new \in Friendship /\ new.id = NewId /\ new.status = "PENDING"
      BY <2>1 DEF Friendship
    <2> HIDE DEF p, new
    <2>3. /\ rows' \in [Pairs -> Friendship] /\ rows'[p] = new
          /\ \A q \in Pairs \ {p} : rows'[q] = rows[q]
      BY <1>1, <1>2, <1>4, <2>2 DEF Friendships
    <2>4. willing' \subseteq Pairs /\ willing \subseteq willing' /\ p \in willing'
      BY <1>1, <1>2, <1>4 DEF Friendships
    <2>5. \A t \in Requests : req'[t].pc = "accept" => req'[t] = req[t] /\ req[t].pc = "accept"
      <3>1. Goto(r, "ok") \/ Goto(r, "failed")
        BY DEF SendCreate
      <3>2. req'[r].pc \in Final /\ \A t \in Requests \ {r} : req'[t] = req[t]
        BY <1>1, <3>1, Goes DEF Final
      <3> QED BY <3>2 DEF Final
    <2>6. (\A q \in Pairs : rows[q].status = "NONE" <=> rows[q].id = 0)'
      BY <1>1, <2>1, <2>2, <2>3 DEF Friendships, Rows
    <2>7. (\A q, t \in Pairs : rows[q].id = rows[t].id /\ rows[q].id # 0 => q = t)'
      BY <1>1, <2>1, <2>2, <2>3 DEF Friendships, Rows
    <2>8. ASSUME NEW t \in Requests, req'[t].pc = "accept", NEW q \in Pairs, rows'[q].id = req'[t].id
          PROVE  q = <<req'[t].who, req'[t].by>>
      <3>1. req'[t] = req[t] /\ req[t].pc = "accept"
        BY <2>5, <2>8
      <3>2. q # p
        BY <2>1, <2>2, <2>3, <2>8, <3>1
      <3> QED BY <1>1, <2>3, <2>8, <3>1, <3>2 DEF Friendships, Rows
    <2>9. (\A q \in Pairs : rows[q].status = "PENDING" => q \in willing)'
      BY <1>1, <2>3, <2>4 DEF Friendships, Rows
    <2>10. FriendsAreWilling'
      BY <1>1, <2>2, <2>3, <2>4 DEF Friendships, FriendsAreWilling
    <2> QED BY <2>3, <2>4, <2>6, <2>7, <2>8, <2>9, <2>10 DEF Friendships, Rows
  <1> QED BY <1>3, <1>4 DEF SendCreate

\* The row that is accepted is the one that the other user has sent.
LEMMA AcceptedRow ==
    ASSUME CommunityInv, RequestsMove, NEW r \in Requests, AcceptWrite(r)
    PROVE  Friendships'
  <1> DEFINE p == <<req[r].who, req[r].by>>
             found == WithId(req[r].id)
  <1>1. Friendships /\ req \in [Requests -> GoodRequest] /\ day \in 1..MaxDay
    BY DEF CommunityInv, TypeOK, Friendships
  <1>2. /\ p \in Pairs /\ <<req[r].by, req[r].who>> \in Pairs /\ req[r].pc = "accept" /\ req[r].id # 0
        /\ p[1] = req[r].who /\ p[2] = req[r].by
    BY <1>1 DEF AcceptWrite, GoodRequest, Steps, Pairs
  <1>3. found \subseteq {p} /\ \A q \in found : rows[q].id # 0
    BY <1>1, <1>2 DEF WithId, Friendships, Rows
  <1>4. CASE found = {}
    BY <1>4, RowsStay DEF AcceptWrite
  <1>5. CASE found # {}
    <2>1. found = {p}
      BY <1>3, <1>5
    <2>2. /\ rows' = [q \in Pairs |-> IF q \in found THEN [rows[q] EXCEPT !.status = "ACCEPTED"]
                                      ELSE rows[q]]
          /\ willing' = willing \cup {<<req[r].by, req[r].who>>}
      BY <1>5 DEF AcceptWrite
    <2>3. rows[p] \in Friendship /\ rows[p].id # 0 /\ rows[p].status # "NONE"
      BY <1>1, <1>2, <1>3, <2>1 DEF Friendships, Rows
    <2>4. /\ rows'[p] = [rows[p] EXCEPT !.status = "ACCEPTED"]
          /\ \A q \in Pairs \ {p} : rows'[q] = rows[q]
      BY <1>2, <2>1, <2>2
    <2>5. rows'[p] \in Friendship /\ rows'[p].id = rows[p].id /\ rows'[p].status = "ACCEPTED"
      BY <2>3, <2>4 DEF Friendship
    <2>6. rows' \in [Pairs -> Friendship]
      BY <1>1, <2>2, <2>4, <2>5 DEF Friendships
    <2>7. /\ willing' \subseteq Pairs /\ willing \subseteq willing'
          /\ <<p[2], p[1]>> \in willing'
      BY <1>1, <1>2, <2>2 DEF Friendships
    <2>8. p \in willing
      BY <1>1, <1>2, <2>3 DEF Friendships, Rows, FriendsAreWilling, Friendship
    <2>9. \A t \in Requests : req'[t].pc = "accept" => req'[t] = req[t]
      <3>1. Goto(r, "ok") \/ Goto(r, "failed")
        BY DEF AcceptWrite
      <3>2. req'[r].pc \in Final /\ \A t \in Requests \ {r} : req'[t] = req[t]
        BY <1>1, <3>1, Goes DEF Final
      <3> QED BY <3>2 DEF Final
    <2> HIDE DEF p, found
    <2>10. (\A q \in Pairs : rows[q].status = "NONE" <=> rows[q].id = 0)'
      BY <1>1, <2>3, <2>4, <2>5 DEF Friendships, Rows
    <2>11. \A q \in Pairs : rows'[q].id = rows[q].id
      BY <2>4, <2>5
    <2>12. (\A q, t \in Pairs : rows[q].id = rows[t].id /\ rows[q].id # 0 => q = t)'
      BY <1>1, <2>11 DEF Friendships, Rows
    <2>13. (\A t \in Requests : req[t].pc = "accept" =>
               \A q \in Pairs : rows[q].id = req[t].id => q = <<req[t].who, req[t].by>>)'
      BY <1>1, <2>9, <2>11 DEF Friendships, Rows
    <2>14. (\A q \in Pairs : rows[q].status = "PENDING" => q \in willing)'
      BY <1>1, <2>4, <2>5, <2>7 DEF Friendships, Rows
    <2>15. FriendsAreWilling'
      BY <1>1, <2>4, <2>5, <2>7, <2>8 DEF Friendships, FriendsAreWilling
    <2> QED BY <2>6, <2>7, <2>10, <2>12, <2>13, <2>14, <2>15 DEF Friendships, Rows
  <1> QED BY <1>4, <1>5

LEMMA FriendshipsStep == CommunityInv /\ [Next]_vars => Friendships'
  <1> SUFFICES ASSUME CommunityInv, [Next]_vars PROVE Friendships'
    OBVIOUS
  <1>1. RequestsMove /\ TablesMove
    BY Moves, Tables
  <1>2. CASE \E u \in Users : DeleteUsers({u})
    BY <1>1, <1>2, DeletedRows
  <1>3. CASE UNCHANGED <<rows, willing>>
    BY <1>1, <1>3, RowsStay
  <1>4. ASSUME NEW r \in Requests, EraseWrite(r)
        PROVE  Friendships'
    <2>1. /\ WithId(req[r].id) \in SUBSET Pairs /\ willing' = willing
          /\ rows' = [p \in Pairs |-> IF p \in WithId(req[r].id) THEN NoRow ELSE rows[p]]
      BY <1>4 DEF EraseWrite, WithId, history
    <2> QED BY <1>1, <2>1, RowsGo
  <1>5. ASSUME NEW r \in Requests, BlockWrite(r)
        PROVE  Friendships'
    <2> DEFINE p == <<req[r].by, req[r].who>>
               both == {p, <<p[2], p[1]>>}
    <2>1. CASE /\ rows' = [q \in Pairs |-> IF q \in both THEN NoRow ELSE rows[q]]
               /\ willing' = willing \ both
      <3>1. both \in SUBSET Pairs
        BY <1>5 DEF BlockWrite, At, CommunityInv, GoodRequest, Steps, Pairs
      <3>2. \A q \in Pairs \ both : <<q[2], q[1]>> \notin both
        BY DEF Pairs
      <3>3. \A q \in Pairs \ both : {q, <<q[2], q[1]>>} \cap willing \subseteq willing'
        BY <2>1, <3>2
      <3> HIDE DEF both
      <3> QED BY <1>1, <2>1, <3>1, <3>3, RowsGo
    <2> QED BY <1>3, <1>5, <2>1 DEF BlockWrite
  <1> QED BY <1>1, <1>2, <1>3, <1>4, <1>5, SentRow, AcceptedRow DEF TablesMove, RowStep

-----------------------------------------------------------------------------
(* The invariant                                                           *)

\* Who holds a session, a friendship or a block is still there.
Referred ==
    /\ sessions \subseteq {u \in Users : There(u)} /\ blocks \subseteq Pairs
    /\ \A p \in Pairs : rows[p].id # 0 \/ p \in blocks => There(p[1]) /\ There(p[2])

LEMMA DeletedReferred ==
    ASSUME CommunityInv, NEW u \in Users, DeleteUsers({u})
    PROVE  Referred'
  <1>1. Referred
    BY DEF CommunityInv, TypeOK, Referred
  <1>2. \A v \in Users \ {u} : user'[v] = user[v]
    BY DEF DeleteUsers
  <1>3. \A v \in Users \ {u} : There(v) => There(v)'
    BY <1>2 DEF There
  <1>4. sessions' \subseteq {v \in Users : There(v)}' /\ blocks' \subseteq Pairs
    <2>1. sessions' \subseteq sessions \ {u} /\ blocks' \subseteq blocks
      BY DEF DeleteUsers
    <2> QED BY <1>1, <1>3, <2>1 DEF Referred
  <1>5. ASSUME NEW p \in Pairs, rows'[p].id # 0 \/ p \in blocks'
        PROVE  There(p[1])' /\ There(p[2])'
    <2>1. p[1] # u /\ p[2] # u
      BY <1>5 DEF DeleteUsers, NoRow
    <2>2. rows'[p].id # 0 => rows[p].id # 0
      BY <2>1 DEF DeleteUsers
    <2>3. p \in blocks' => p \in blocks
      BY DEF DeleteUsers
    <2>4. There(p[1]) /\ There(p[2])
      BY <1>1, <1>5, <2>2, <2>3 DEF Referred
    <2>5. p[1] \in Users /\ p[2] \in Users
      BY DEF Pairs
    <2> QED BY <1>3, <2>1, <2>4, <2>5
  <1> QED BY <1>4, <1>5 DEF Referred

LEMMA ReferredStep == CommunityInv /\ [Next]_vars => Referred'
  <1> SUFFICES ASSUME CommunityInv, [Next]_vars PROVE Referred'
    OBVIOUS
  <1>1. UsersMove /\ TablesMove /\ Referred /\ req \in [Requests -> GoodRequest]
    BY Accounts, Tables DEF CommunityInv, TypeOK, Referred
  <1>2. CASE \E u \in Users : DeleteUsers({u})
    BY <1>2, DeletedReferred
  <1>3. CASE ~\E u \in Users : DeleteUsers({u})
    <2>1. \A u : There(u) => There(u)'
      BY <1>1, <1>3 DEF UsersMove, There
    <2>2. sessions' \subseteq {u \in Users : There(u)}'
      BY <1>1, <1>3, <2>1 DEF TablesMove, Referred
    <2> DEFINE Older ==
                  /\ blocks' \subseteq Pairs
                  /\ \A p \in Pairs : rows'[p].id # 0 \/ p \in blocks' =>
                         \/ rows[p].id # 0 \/ p \in blocks
                         \/ (There(p[1]) /\ There(p[2]))
    <2>3. Older
      <3>1. CASE UNCHANGED <<rows, willing>> /\ blocks' \subseteq blocks
        BY <1>1, <3>1 DEF Referred
      <3>2. ASSUME NEW r \in Requests, SendCreate(r)
            PROVE  Older
        <4> DEFINE p == <<req[r].by, req[r].who>>
                   new == [status |-> "PENDING", id |-> NewId]
        <4>1. p \in Pairs /\ blocks' = blocks
          BY <1>1, <3>2 DEF SendCreate, At, GoodRequest, Steps, Pairs
        <4>2. \/ rows' = rows
              \/ (rows' = [rows EXCEPT ![p] = new] /\ There(p[1]) /\ There(p[2]))
          BY <3>2 DEF SendCreate
        <4> HIDE DEF p, new
        <4>3. \A q \in Pairs : rows'[q] = rows[q] \/ (There(q[1]) /\ There(q[2]))
          BY <4>1, <4>2 DEF CommunityInv, TypeOK
        <4> QED BY <1>1, <4>1, <4>3 DEF Referred
      <3>3. ASSUME NEW r \in Requests, AcceptWrite(r)
            PROVE  Older
        <4>1. blocks' = blocks /\ \A p \in Pairs : rows'[p] = rows[p] \/ rows[p].id = req[r].id
          BY <3>3 DEF AcceptWrite, WithId
        <4>2. req[r].id # 0
          BY <1>1, <3>3 DEF AcceptWrite, GoodRequest
        <4> QED BY <1>1, <4>1, <4>2 DEF Referred
      <3>4. ASSUME NEW r \in Requests, EraseWrite(r)
            PROVE  Older
        <4>1. blocks' = blocks /\ \A p \in Pairs : rows'[p] = rows[p] \/ rows'[p].id = 0
          BY <3>4 DEF EraseWrite, NoRow
        <4> QED BY <1>1, <4>1 DEF Referred
      <3>5. ASSUME NEW r \in Requests, BlockWrite(r)
            PROVE  Older
        <4> DEFINE p == <<req[r].by, req[r].who>>
        <4>1. p \in Pairs
          BY <1>1, <3>5 DEF BlockWrite, At, GoodRequest, Steps, Pairs
        <4>2. \A q \in Pairs : rows'[q] = rows[q] \/ rows'[q].id = 0
          BY <3>5 DEF BlockWrite, NoRow
        <4>3. \/ blocks' = blocks
              \/ (blocks' = blocks \cup {p} /\ There(p[1]) /\ There(p[2]))
          BY <3>5 DEF BlockWrite
        <4> HIDE DEF p
        <4> QED BY <1>1, <4>1, <4>2, <4>3 DEF Referred
      <3> QED BY <1>1, <1>3, <3>1, <3>2, <3>3, <3>4, <3>5 DEF TablesMove, RowStep
    <2>4. \A p \in Pairs : rows'[p].id # 0 \/ p \in blocks' => There(p[1])' /\ There(p[2])'
      BY <1>1, <2>1, <2>3 DEF Referred
    <2> QED BY <2>2, <2>3, <2>4 DEF Referred
  <1> QED BY <1>2, <1>3

\* What the job and the purges know are accounts.
LEMMA KnownStep == CommunityInv /\ [Next]_vars => vip' \subseteq Users /\ overdue' \subseteq Users
  <1> SUFFICES ASSUME CommunityInv, [Next]_vars PROVE vip' \subseteq Users /\ overdue' \subseteq Users
    OBVIOUS
  <1>0. vip \subseteq Users /\ overdue \subseteq Users
    BY DEF CommunityInv, TypeOK
  <1>1. vip' \subseteq Users
    <2>1. CASE VipFind \/ \E u \in Users : VipDemote(u)
      BY <1>0, <2>1 DEF VipFind, VipDemote
    <2>2. CASE ~VipJob
      <3>1. UNCHANGED vip
        BY <2>2 DEF Next, vars, AccountCall, AccountStep, FriendCall, FriendStep, DeleteLoad,
             DeleteWrite, ReactivateLoad, ReactivateWrite, CancelReactivation, LoginCheck, LoginCreate,
             BanLoad, BanWrite, BanRevoke, UnbanLoad, UnbanWrite, SanctionLoad, SanctionWrite, RoleLoad,
             RemoveLoad, CountAdmins, RoleWrite, RemoveWrite, TierLoad, TierWrite,
             PurgeFind, PurgeDelete, SendLoad, SendCreate, AcceptLoad, AcceptWrite, EraseLoad, EraseWrite,
             BlockLoad, BlockWrite, Unblock, Tick
      <3> QED BY <1>0, <3>1
    <2> QED BY <2>1, <2>2 DEF VipJob
  <1>2. overdue' \subseteq Users
    <2>1. CASE \E r \in Requests : PurgeFind(r)
      BY <1>0, <2>1 DEF PurgeFind
    <2>2. CASE ~\E r \in Requests : PurgeFind(r)
      <3>1. UNCHANGED overdue
        BY <2>2 DEF Next, vars, AccountCall, AccountStep, FriendCall, FriendStep, VipJob, DeleteLoad,
             DeleteWrite, ReactivateLoad, ReactivateWrite, CancelReactivation, LoginCheck, LoginCreate,
             BanLoad, BanWrite, BanRevoke, UnbanLoad, UnbanWrite, SanctionLoad, SanctionWrite, RoleLoad,
             RemoveLoad, CountAdmins, RoleWrite, RemoveWrite, TierLoad, TierWrite, VipFind, VipDemote,
             PurgeDelete, SendLoad, SendCreate, AcceptLoad, AcceptWrite, EraseLoad, EraseWrite,
             BlockLoad, BlockWrite, Unblock, Tick, history
      <3> QED BY <1>0, <3>1
    <2> QED BY <2>1, <2>2
  <1> QED BY <1>1, <1>2

\* A tier ends when a grant that was read before, or one that was made, lets it end.
LEMMA TierStep == CommunityInv /\ [Next]_vars => TierWithinGrants'
  <1> SUFFICES ASSUME CommunityInv, [Next]_vars, NEW u \in Users
               PROVE  user'[u].expires <= day' + granted'[u]
    BY DEF TierWithinGrants
  <1>1. /\ user \in [Users -> Account] /\ user' \in [Users -> Account] /\ Change(u)
        /\ req \in [Requests -> GoodRequest]
    BY Accounts DEF UsersMove, CommunityInv, TypeOK
  <1>2. /\ day \in Nat /\ day' \in Nat /\ day <= day'
        /\ granted[u] \in Nat /\ granted'[u] \in Nat /\ granted[u] <= granted'[u]
    BY Granted DEF GrantsMove, CommunityInv, TypeOK
  <1>3. user[u].expires <= day + granted[u]
    BY DEF CommunityInv, TierWithinGrants
  <1>4. MaxDay + MaxDays * Cardinality(Requests) \in Nat
    BY CommunityBounds, FS_CardinalityType, Product
  <1>5. \A d \in Later : d \in Nat
    BY <1>4 DEF Later
  <1>6. user[u].expires \in Nat /\ user'[u].expires \in Nat
    BY <1>1, <1>5 DEF Account
  <1>7. CASE user'[u].expires \in {user[u].expires, 0}
    BY <1>2, <1>3, <1>6, <1>7
  <1>8. ASSUME NEW r \in Requests, Handler(r, "tier"), req[r].who = u, user'[u].expires = req[r].date,
               granted'[u] = granted[u] + req[r].days
        PROVE  user'[u].expires <= day' + granted'[u]
    <2>1. req[r].date <= day + granted[u] + req[r].days
      BY <1>8 DEF CommunityInv, Grants, Handler
    <2>2. req[r].days \in Nat
      BY <1>1 DEF GoodRequest, Request
    <2> QED BY <1>2, <1>6, <1>8, <2>1, <2>2
  <1> QED BY <1>1, <1>7, <1>8, FirstTyped DEF Change

LEMMA GrantsStep == CommunityInv /\ [Next]_vars => Grants'
  <1> SUFFICES ASSUME CommunityInv, [Next]_vars PROVE Grants'
    OBVIOUS
  <1>1. GrantsMove /\ RequestsMove /\ day \in Nat /\ granted \in [Users -> Nat]
    BY Granted, Moves DEF CommunityInv, TypeOK
  <1>2. ASSUME NEW r \in Requests, At(r, "tier", "write")'
        PROVE  req'[r].date <= day' + granted'[req'[r].who] + req'[r].days
    <2>1. req'[r] \in GoodRequest /\ req'[r] \in Request /\ req'[r].who \in Users
      BY <1>1, <1>2 DEF RequestsMove, GoodRequest, At, Steps
    <2>2. req'[r].date <= day + granted[req'[r].who] + req'[r].days
      BY <1>1, <1>2 DEF RequestsMove, CommunityInv, Grants, At
    <2>3. /\ day' \in Nat /\ day <= day' /\ req'[r].days \in Nat
          /\ granted[req'[r].who] \in Nat /\ granted'[req'[r].who] \in Nat
          /\ granted[req'[r].who] <= granted'[req'[r].who]
      BY <1>1, <2>1 DEF GrantsMove, Request
    <2>4. req'[r].date \in Nat
      <3>1. MaxDay + MaxDays * Cardinality(Requests) \in Nat
        BY CommunityBounds, FS_CardinalityType, Product
      <3> QED BY <2>1, <3>1 DEF Request, Later
    <2> QED BY <1>1, <2>2, <2>3, <2>4
  <1> QED BY <1>1, <1>2 DEF GrantsMove, Grants

LEMMA DeletionsStep == CommunityInv /\ [Next]_vars => Deletions'
  <1> SUFFICES ASSUME CommunityInv, [Next]_vars PROVE Deletions'
    OBVIOUS
  <1>1. ASSUME NEW u \in Users, user'[u].status = "PENDING_DELETION"
        PROVE  user'[u].due # 0
    <2>1. Change(u)
      BY Accounts DEF UsersMove
    <2>2. user[u].status = "PENDING_DELETION" => user[u].due # 0
      BY DEF CommunityInv, Deletions
    <2> QED BY <1>1, <2>1, <2>2, FirstTyped DEF Change
  <1> QED BY <1>1, Moves DEF Deletions, RequestsMove

LEMMA CommunityStep == CommunityInv /\ [Next]_vars => CommunityInv'
  <1> SUFFICES ASSUME CommunityInv, [Next]_vars PROVE CommunityInv'
    OBVIOUS
  <1>1. UsersMove /\ GrantsMove /\ RequestsMove /\ Friendships' /\ Referred'
        /\ vip' \subseteq Users /\ overdue' \subseteq Users
    BY Accounts, Granted, Moves, FriendshipsStep, ReferredStep, KnownStep
  <1>2. req' \in [Requests -> Request]
    BY <1>1 DEF RequestsMove, GoodRequest
  <1>3. TypeOK'
    BY <1>1, <1>2 DEF UsersMove, GrantsMove, Friendships, Referred, TypeOK
  <1> QED BY <1>1, <1>3, TierStep, GrantsStep, DeletionsStep
          DEF RequestsMove, Friendships, CommunityInv

LEMMA CommunityInit == Init => CommunityInv
  <1> SUFFICES ASSUME Init PROVE CommunityInv
    OBVIOUS
  <1>0. /\ MaxDay \in Nat /\ MaxDays \in Nat /\ MaxDay >= 1 /\ Cardinality(Requests) \in Nat
    BY CommunityBounds, FS_CardinalityType
  <1>1. 0 \in Later
    BY <1>0, Product DEF Later
  <1>2. \A u \in Users : /\ FirstAccount(u) \in Account /\ FirstAccount(u).there
                         /\ FirstAccount(u).expires = 0 /\ FirstAccount(u).status = "ACTIVE"
    BY <1>1 DEF FirstAccount, Account, Roles, UserStatus, Tiers
  <1>3. NewRequest \in GoodRequest /\ NewRequest \in Request /\ NewRequest.pc = "new"
    BY <1>1 DEF NewRequest, GoodRequest, Request, Steps
  <1>4. /\ NoRow \in Friendship /\ NoRow.id = 0 /\ NoRow.status = "NONE"
    BY DEF NoRow, Friendship
  <1> HIDE DEF FirstAccount, NewRequest, NoRow
  <1>5. \A r \in Requests : req[r] = NewRequest
    BY DEF Init
  <1>6. \A u \in Users : There(u)
    BY <1>2 DEF Init, There
  <1>7. TypeOK
    <2>1. day \in 1..MaxDay /\ granted \in [Users -> Nat]
      BY <1>0 DEF Init
    <2>2. /\ user \in [Users -> Account] /\ sessions \subseteq {u \in Users : There(u)}
          /\ req \in [Requests -> Request] /\ rows \in [Pairs -> Friendship]
      BY <1>2, <1>3, <1>4, <1>6 DEF Init
    <2>3. \A p \in Pairs : rows[p].id = 0 /\ p \notin blocks
      BY <1>4 DEF Init
    <2> QED BY <2>1, <2>2, <2>3 DEF TypeOK, Init
  <1>8. Grants
    <2>1. Done = {}
      BY <1>3, <1>5 DEF Done, Final
    <2>2. Cardinality(Done) = 0 /\ MaxDays * 0 = 0
      BY <1>0, <2>1, FS_EmptySet
    <2>3. \A u \in Users : granted[u] <= MaxDays * Cardinality(Done)
      BY <2>2 DEF Init
    <2>4. \A r \in Requests : ~At(r, "tier", "write")
      BY <1>3, <1>5 DEF At
    <2> QED BY <2>3, <2>4 DEF Grants
  <1>9. TierWithinGrants
    BY <1>2 DEF TierWithinGrants, Init
  <1>10. Deletions /\ FriendsAreWilling /\ Rows
    BY <1>2, <1>3, <1>4, <1>5 DEF Deletions, FriendsAreWilling, Rows, At, Init
  <1>11. req \in [Requests -> GoodRequest]
    BY <1>3 DEF Init
  <1> QED BY <1>7, <1>8, <1>9, <1>10, <1>11 DEF CommunityInv

LEMMA CommunityInvHolds == Spec => []CommunityInv
  BY CommunityInit, CommunityStep, PTL DEF Spec

-----------------------------------------------------------------------------
(* Theorems                                                                *)

\* Accounts, friendships and requests keep their types; no session, friendship or block is
\* left of an account that was removed or purged, although the request that makes one may
\* have looked before (onDelete: Cascade, and the keys of the rows).
THEOREM TypesHold == Spec => []TypeOK
  <1>1. CommunityInv => TypeOK
    BY DEF CommunityInv
  <1> QED BY <1>1, CommunityInvHolds, PTL

\* However grants, extensions, withdrawals and the VIP job cross, nobody has a paid tier for
\* longer than the days that administrators gave him (updateTier).
THEOREM TiersAreGranted == Spec => []TierWithinGrants
  <1>1. CommunityInv => TierWithinGrants
    BY DEF CommunityInv
  <1> QED BY <1>1, CommunityInvHolds, PTL

\* Friends have both asked or accepted since one of them last blocked the other: the row that
\* an acceptance finds by its id is the one that was sent to who accepts, or it is gone
\* (sendFriendRequest, acceptFriendRequest, blockUser).
THEOREM FriendsAgree == Spec => []FriendsAreWilling
  <1>1. CommunityInv => FriendsAreWilling
    BY DEF CommunityInv
  <1> QED BY <1>1, CommunityInvHolds, PTL

\* Only administrators lift a ban that has not expired (banUser, unbanUser, and the login of
\* the admin plugin).
THEOREM BansHold == Spec => BanHolds
  <1> DEFINE Step(u) == user[u].banned /\ ~Lapsed(u) /\ There(u)' =>
                            \/ user'[u].banned
                            \/ \E r \in Requests : At(r, "unban", "write") /\ req[r].who = u
  <1>1. CommunityInv /\ [Next]_vars => [\A u \in Users : Step(u)]_vars
    <2> SUFFICES ASSUME CommunityInv, [Next]_vars, NEW u \in Users PROVE Step(u)
      OBVIOUS
    <2>1. Change(u)
      BY Accounts DEF UsersMove
    <2> QED BY <2>1, FirstTyped DEF Change, Handler, There
  <1> QED BY <1>1, CommunityInvHolds, PTL DEF Spec, BanHolds

\* A purge of all deletes only accounts that a purge has found past their date
\* (purgeScheduledDeletions); any other deletion is an administrator's (deleteUser).
THEOREM PurgesWait == Spec => PurgedWhenDue
  <1> DEFINE Step(u) == There(u) /\ ~There(u)' =>
                            \/ u \in overdue
                            \/ \E r \in Requests : At(r, "remove", "write") /\ req[r].who = u
  <1>1. CommunityInv /\ [Next]_vars => [\A u \in Users : Step(u)]_vars
    <2> SUFFICES ASSUME CommunityInv, [Next]_vars, NEW u \in Users PROVE Step(u)
      OBVIOUS
    <2>1. Change(u)
      BY Accounts DEF UsersMove
    <2> QED BY <2>1 DEF Change, Handler, There
  <1> QED BY <1>1, CommunityInvHolds, PTL DEF Spec, PurgedWhenDue

=============================================================================
