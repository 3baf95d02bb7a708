------------------------------ MODULE UserStore ------------------------------
(***************************************************************************)
(* The rows of users, sessions, friendships and user_blocks, and the       *)
(* requests that work on them.  A request takes one step per awaited       *)
(* query; it checks what it read and then writes by id.                    *)
(***************************************************************************)
EXTENDS Integers, FiniteSets

CONSTANTS
    Users,       \* the accounts
    FirstAdmins, \* those with the role ADMIN at first
    NoUser,      \* SQL NULL
    MaxDay,      \* the clock's bound
    MaxDays,     \* longest grant of a tier
    Requests,    \* the requests; each runs once
    Calls        \* the operations that each request may be

AccountOps == {"delete", "reactivate", "stayDeleted", "login", "ban", "unban", "remove",
               "role", "sanction", "tier", "purge"}
FriendOps == {"send", "accept", "reject", "cancel", "unfriend", "block", "unblock"}
Operations == AccountOps \cup FriendOps

ASSUME CommunityBounds ==
    /\ FirstAdmins \subseteq Users /\ NoUser \notin Users /\ IsFiniteSet(Users)
    /\ MaxDay \in Nat \ {0} /\ MaxDays \in Nat \ {0}
    /\ IsFiniteSet(Requests) /\ Calls \in [Requests -> SUBSET Operations]

VARIABLES
    day,        \* the date, in units of the delays of the code
    user,       \* users
    sessions,   \* users who hold a session
    rows,       \* friendships, by <<sender, receiver>>; id 0 without a row
    blocks,     \* user_blocks, <<blocker, blocked>>
    req,        \* the requests
    vip,        \* users that the VIP job has still to demote
    granted,    \* history: days of tier granted to each user
    willing,    \* history, <<u, v>> : u asked or accepted v since they last blocked
    overdue     \* history: users found past their deletion date by a purge

tables == <<user, sessions, rows, blocks>>
history == <<granted, willing, overdue>>
vars == <<day, tables, req, vip, history>>

Roles == {"ADMIN", "USER"}
UserStatus == {"ACTIVE", "SUSPENDED", "BANNED", "PENDING_DELETION"}
Tiers == {"FREE", "VIP", "PREMIUM"}
Later == 0 .. (MaxDay + MaxDays * Cardinality(Requests))
\* Dates are 0 for NULL: until is banExpires, due is deletionScheduledAt, expires
\* is tierExpiresAt.
Account == [there : BOOLEAN, role : Roles, status : UserStatus, banned : BOOLEAN,
            until : Later, due : Later, tier : Tiers, expires : Later]
FirstAccount(u) ==
    [there |-> TRUE, role |-> IF u \in FirstAdmins THEN "ADMIN" ELSE "USER",
     status |-> "ACTIVE", banned |-> FALSE, until |-> 0, due |-> 0, tier |-> "FREE",
     expires |-> 0]

Pairs == {p \in Users \X Users : p[1] # p[2]}
NoRow == [status |-> "NONE", id |-> 0]
Friendship == [status : {"NONE", "PENDING", "ACCEPTED"}, id : Nat]

Final == {"ok", "failed"}
Steps == {"write", "count", "revoke", "create", "accept", "erase", "block"}
Request == [op : Operations \cup {"none"}, pc : {"new"} \cup Steps \cup Final,
            by : Users \cup {NoUser}, who : Users \cup {NoUser}, id : Nat,
            kind : {"none"} \cup Roles \cup Tiers \cup UserStatus, date : Later, days : Nat,
            found : SUBSET Users]
NewRequest == [op |-> "none", pc |-> "new", by |-> NoUser, who |-> NoUser, id |-> 0,
               kind |-> "none", date |-> 0, days |-> 0, found |-> {}]

Init ==
    /\ day = 1 /\ user = [u \in Users |-> FirstAccount(u)] /\ sessions = Users
    /\ rows = [p \in Pairs |-> NoRow] /\ blocks = {}
    /\ req = [r \in Requests |-> NewRequest]
    /\ vip = {} /\ granted = [u \in Users |-> 0] /\ willing = {} /\ overdue = {}

There(u) == u \in Users /\ user[u].there
\* AuthGuard and RolesGuard let a request through that comes with a session.
Signed(u) == There(u) /\ u \in sessions
AsAdmin(u) == Signed(u) /\ user[u].role = "ADMIN"

New(op, pc, by, who) == [NewRequest EXCEPT !.op = op, !.pc = pc, !.by = by, !.who = who]
Ended(op, pc) == [NewRequest EXCEPT !.pc = pc]
Begin(r, new) ==
    /\ req[r].pc = "new" /\ new.op \in Calls[r]
    /\ req' = [req EXCEPT ![r] = IF new.pc \in Final THEN Ended(new.op, new.pc) ELSE new]
At(r, op, pc) == req[r].op = op /\ req[r].pc = pc
Goto(r, pc) ==
    req' = [req EXCEPT ![r] = IF pc \in Final THEN Ended(@.op, pc) ELSE [@ EXCEPT !.pc = pc]]

\* An update by id fails when the row is gone.
UpdateUser(r, new, pc) ==
    LET u == req[r].who IN
    IF There(u) THEN user' = [user EXCEPT ![u] = new] /\ Goto(r, pc)
    ELSE UNCHANGED user /\ Goto(r, "failed")
\* What refers to a user goes with him (onDelete: Cascade).
DeleteUsers(S) ==
    /\ user' = [u \in Users |-> IF u \in S THEN [FirstAccount(u) EXCEPT !.there = FALSE]
                                ELSE user[u]]
    /\ sessions' = sessions \ S
    /\ rows' = [p \in Pairs |-> IF p[1] \in S \/ p[2] \in S THEN NoRow ELSE rows[p]]
    /\ blocks' = {p \in blocks : p[1] \notin S /\ p[2] \notin S}
    /\ willing' = {p \in willing : p[1] \notin S /\ p[2] \notin S}
=============================================================================
