------------------------------- MODULE Account -------------------------------
(***************************************************************************)
(* Life cycle of an account: users.service.ts (deletion after a delay,     *)
(* reactivation, purge), admin-users.service.ts (bans, roles, tiers,       *)
(* removal), the sanctions of moderation.service.ts and the job of         *)
(* vip-expiration.scheduler.ts.                                            *)
(***************************************************************************)
EXTENDS UserStore

-----------------------------------------------------------------------------
(* Plausible bugs, for the mutation check of the properties.               *)

\* A new grant starts where the previous one ended, though it is over or another tier.
NewExpiryChained(seen, days, asked) ==
    IF days = 0 THEN 0 ELSE IF seen.expires # 0 THEN seen.expires + days + 1 ELSE day + days
\* Only what expires today is looked for.
VipExpiredToday(u) == user[u].tier = "VIP" /\ user[u].expires = day
\* The date is not looked at.
PurgeableNow(u) == There(u) /\ user[u].status = "PENDING_DELETION"
\* A suspension takes the place of a ban.
SanctionedAnew(seen, kind) ==
    [seen EXCEPT !.status = kind, !.banned = (kind = "BANNED"),
                 !.until = IF kind = "SUSPENDED" THEN day + 1 ELSE 0]

-----------------------------------------------------------------------------
(* deleteAccount, reactivateAccount, cancelReactivation                    *)

DeleteLoad(r) ==
    /\ \E u \in Users : Signed(u) /\ Begin(r, New("delete", "write", u, u))
    /\ UNCHANGED <<day, tables, vip, history>>
DeleteWrite(r) ==
    LET u == req[r].who IN
    /\ At(r, "delete", "write")
    /\ UpdateUser(r, [user[u] EXCEPT !.status = "PENDING_DELETION", !.due = day + 1], "ok")
    /\ sessions' = sessions \ {u}
    /\ UNCHANGED <<day, rows, blocks, vip, history>>
ReactivateLoad(r) ==
    /\ \E u \in Users : /\ Signed(u)
                        /\ Begin(r, New("reactivate", IF user[u].status = "PENDING_DELETION"
                                                      THEN "write" ELSE "ok", u, u))
    /\ UNCHANGED <<day, tables, vip, history>>
ReactivateWrite(r) ==
    /\ At(r, "reactivate", "write")
    /\ UpdateUser(r, [user[req[r].who] EXCEPT !.status = "ACTIVE", !.due = 0], "ok")
    /\ UNCHANGED <<day, sessions, rows, blocks, vip, history>>
CancelReactivation(r) ==
    /\ \E u \in Users : /\ Signed(u) /\ Begin(r, New("stayDeleted", "ok", u, u))
                        /\ sessions' = sessions \ {u}
    /\ UNCHANGED <<day, user, rows, blocks, vip, history>>

-----------------------------------------------------------------------------
(* Sessions are better-auth's: its admin plugin refuses a banned user and  *)
(* lifts a ban that has expired.  It does not know users.status.           *)

Lapsed(u) == user[u].banned /\ user[u].until # 0 /\ user[u].until <= day
LoginCheck(r) ==
    /\ \E u \in Users :
          /\ Begin(r, New("login", IF There(u) /\ (~user[u].banned \/ Lapsed(u))
                                   THEN "create" ELSE "failed", u, u))
          /\ user' = IF There(u) /\ Lapsed(u)
                     THEN [user EXCEPT ![u].banned = FALSE, ![u].until = 0] ELSE user
    /\ UNCHANGED <<day, sessions, rows, blocks, vip, history>>
LoginCreate(r) ==
    LET u == req[r].who IN
    /\ At(r, "login", "create")
    /\ sessions' = sessions \cup {v \in {u} : There(v)}
    /\ Goto(r, IF There(u) THEN "ok" ELSE "failed")
    /\ UNCHANGED <<day, user, rows, blocks, vip, history>>

-----------------------------------------------------------------------------
(* banUser, unbanUser, resolveReport                                       *)

\* Not oneself, nor another administrator; for ever or for a time
BanLoad(r) ==
    /\ \E by, u \in Users, days \in {0, 1} :
          /\ AsAdmin(by)
          /\ Begin(r, [New("ban", IF by # u /\ There(u) /\ user[u].role # "ADMIN"
                                  THEN "write" ELSE "failed", by, u) EXCEPT !.days = days])
    /\ UNCHANGED <<day, tables, vip, history>>
BanWrite(r) ==
    LET u == req[r].who IN
    /\ At(r, "ban", "write")
    /\ UpdateUser(r, [user[u] EXCEPT !.banned = TRUE,
                                     !.until = IF req[r].days = 0 THEN 0 ELSE day + req[r].days],
                  "revoke")
    /\ UNCHANGED <<day, sessions, rows, blocks, vip, history>>
BanRevoke(r) ==
    /\ At(r, "ban", "revoke")
    /\ sessions' = sessions \ {req[r].who} /\ Goto(r, "ok")
    /\ UNCHANGED <<day, user, rows, blocks, vip, history>>
UnbanLoad(r) ==
    /\ \E by, u \in Users :
          AsAdmin(by) /\ Begin(r, New("unban", IF There(u) THEN "write" ELSE "failed", by, u))
    /\ UNCHANGED <<day, tables, vip, history>>
UnbanWrite(r) ==
    /\ At(r, "unban", "write")
    /\ UpdateUser(r, [user[req[r].who] EXCEPT !.banned = FALSE, !.until = 0], "ok")
    /\ UNCHANGED <<day, sessions, rows, blocks, vip, history>>
\* A suspension sets the date of a ban, and not the ban.
Sanctioned(seen, kind) ==
    IF kind = "SUSPENDED" THEN [seen EXCEPT !.status = kind, !.until = day + 1]
    ELSE [seen EXCEPT !.status = kind, !.banned = TRUE, !.until = 0]
SanctionLoad(r) ==
    /\ \E by, u \in Users, kind \in {"SUSPENDED", "BANNED"} :
          /\ AsAdmin(by)
          /\ Begin(r, [New("sanction", IF There(u) THEN "write" ELSE "ok", by, u)
                          EXCEPT !.kind = kind])
    /\ UNCHANGED <<day, tables, vip, history>>
SanctionWrite(r) ==
    LET u == req[r].who IN
    /\ At(r, "sanction", "write")
    /\ UpdateUser(r, Sanctioned(user[u], req[r].kind), "ok")
    /\ sessions' = sessions \ {u}
    /\ UNCHANGED <<day, rows, blocks, vip, history>>

-----------------------------------------------------------------------------
(* updateRole, deleteUser                                                  *)

\* The role of another user; losing an administrator asks for a count first.
RoleLoad(r) ==
    /\ \E by, u \in Users, role \in Roles :
          /\ AsAdmin(by)
          /\ Begin(r, [New("role", CASE by = u \/ ~There(u) -> "failed"
                                     [] by # u /\ There(u) /\ user[u].role = "ADMIN"
                                        /\ role # "ADMIN" -> "count"
                                     [] OTHER -> "write", by, u) EXCEPT !.kind = role])
    /\ UNCHANGED <<day, tables, vip, history>>
RemoveLoad(r) ==
    /\ \E by, u \in Users :
          /\ AsAdmin(by)
          /\ Begin(r, New("remove", CASE by = u \/ ~There(u) -> "failed"
                                      [] by # u /\ There(u) /\ user[u].role = "ADMIN" -> "count"
                                      [] OTHER -> "write", by, u))
    /\ UNCHANGED <<day, tables, vip, history>>
Administrators == {u \in Users : There(u) /\ user[u].role = "ADMIN"}
CountAdmins(r) ==
    /\ req[r].pc = "count"
    /\ Goto(r, IF Cardinality(Administrators) <= 1 THEN "failed" ELSE "write")
    /\ UNCHANGED <<day, tables, vip, history>>
RoleWrite(r) ==
    /\ At(r, "role", "write")
    /\ UpdateUser(r, [user[req[r].who] EXCEPT !.role = req[r].kind], "ok")
    /\ UNCHANGED <<day, sessions, rows, blocks, vip, history>>
RemoveWrite(r) ==
    LET u == req[r].who IN
    /\ At(r, "remove", "write")
    /\ DeleteUsers({u}) /\ Goto(r, IF There(u) THEN "ok" ELSE "failed")
    /\ UNCHANGED <<day, vip, granted, overdue>>

-----------------------------------------------------------------------------
(* updateTier and the VIP job                                              *)

\* A grant of the tier the user already has extends it; days = 0 is for ever.
NewExpiry(seen, days, asked) ==
    CASE days = 0 -> 0
      [] days # 0 /\ seen.tier = asked /\ seen.expires > day -> seen.expires + days
      [] OTHER -> day + days
TierLoad(r) ==
    /\ \E by, u \in Users, tier \in Tiers, days \in 0..MaxDays :
          /\ AsAdmin(by) /\ (tier = "FREE" => days = 0)
          /\ Begin(r, [New("tier", IF There(u) THEN "write" ELSE "failed", by, u)
                          EXCEPT !.kind = tier, !.days = days,
                                 !.date = IF There(u) THEN NewExpiry(user[u], days, tier) ELSE 0])
    /\ UNCHANGED <<day, tables, vip, history>>
TierWrite(r) ==
    LET u == req[r].who IN
    /\ At(r, "tier", "write")
    /\ UpdateUser(r, [user[u] EXCEPT !.tier = req[r].kind, !.expires = req[r].date], "ok")
    /\ granted' = [granted EXCEPT ![u] = @ + req[r].days]
    /\ UNCHANGED <<day, sessions, rows, blocks, vip, willing, overdue>>

VipExpired(u) == user[u].tier = "VIP" /\ user[u].expires # 0 /\ user[u].expires <= day
VipFind ==
    /\ vip = {}
    /\ vip' = {u \in Users : There(u) /\ VipExpired(u)}
    /\ UNCHANGED <<day, tables, req, history>>
VipDemote(u) ==
    /\ u \in vip /\ vip' = vip \ {u}
    /\ user' = IF There(u) THEN [user EXCEPT ![u].tier = "FREE", ![u].expires = 0] ELSE user
    /\ UNCHANGED <<day, sessions, rows, blocks, req, history>>

-----------------------------------------------------------------------------
(* purgeScheduledDeletions: of one user, or of all whose date has passed.  *)
(* Nothing in the repository calls it; a request stands for an operator.   *)

Purgeable(u) == There(u) /\ user[u].status = "PENDING_DELETION" /\ user[u].due <= day
PurgeFind(r) ==
    LET found == {u \in Users : Purgeable(u)} IN
    /\ Begin(r, [New("purge", IF found = {} THEN "ok" ELSE "write", NoUser, NoUser)
                    EXCEPT !.found = found])
    /\ overdue' = overdue \cup {u \in Users : user[u].due # 0 /\ user[u].due <= day}
    /\ UNCHANGED <<day, tables, vip, granted, willing>>
\* One transaction for each user found, by id
PurgeDelete(r, u) ==
    LET left == req[r].found \ {u} IN
    /\ At(r, "purge", "write") /\ u \in req[r].found
    /\ DeleteUsers({u})
    /\ req' = [req EXCEPT ![r] = IF left = {} THEN Ended("purge", "ok")
                                 ELSE [@ EXCEPT !.found = left]]
    /\ UNCHANGED <<day, vip, granted, overdue>>

-----------------------------------------------------------------------------
AccountCall(r) == \/ DeleteLoad(r) \/ ReactivateLoad(r) \/ CancelReactivation(r) \/ LoginCheck(r)
                  \/ BanLoad(r) \/ UnbanLoad(r) \/ SanctionLoad(r)
                  \/ RoleLoad(r) \/ RemoveLoad(r) \/ TierLoad(r) \/ PurgeFind(r)
AccountStep(r) == \/ DeleteWrite(r) \/ ReactivateWrite(r) \/ LoginCreate(r)
                  \/ BanWrite(r) \/ BanRevoke(r) \/ UnbanWrite(r) \/ SanctionWrite(r)
                  \/ CountAdmins(r) \/ RoleWrite(r) \/ RemoveWrite(r) \/ TierWrite(r)
                  \/ \E u \in Users : PurgeDelete(r, u)
VipJob == VipFind \/ \E u \in Users : VipDemote(u)
=============================================================================
