------------------------------ MODULE Community ------------------------------
(***************************************************************************)
(* The accounts and their friendships together: an account that is deleted *)
(* or banned while requests about it are on their way.                     *)
(***************************************************************************)
EXTENDS Account, Friends

Tick ==
    /\ day < MaxDay /\ day' = day + 1
    /\ UNCHANGED <<tables, req, vip, history>>
Next ==
    \/ \E r \in Requests : \/ AccountCall(r) \/ AccountStep(r)
                           \/ FriendCall(r) \/ FriendStep(r)
    \/ VipJob \/ Tick

Spec == Init /\ [][Next]_vars
\* The daily job of the VIP accounts runs again and again, and goes on.
FairSpec == Spec /\ WF_vars(VipJob)

-----------------------------------------------------------------------------
(* Properties                                                              *)

\* Accounts, friendships and requests keep their types, and nothing refers to an
\* account that is gone.
TypeOK ==
    /\ day \in 1..MaxDay /\ user \in [Users -> Account]
    /\ sessions \subseteq {u \in Users : There(u)}
    /\ rows \in [Pairs -> Friendship] /\ blocks \subseteq Pairs
    /\ \A p \in Pairs : rows[p].id # 0 \/ p \in blocks => There(p[1]) /\ There(p[2])
    /\ req \in [Requests -> Request] /\ vip \subseteq Users
    /\ granted \in [Users -> Nat] /\ willing \subseteq Pairs /\ overdue \subseteq Users

\* However grants, extensions, withdrawals and the job cross, nobody has a paid
\* tier longer than the days that administrators gave him (444-470).
TierWithinGrants == \A u \in Users : user[u].expires <= day + granted[u]

\* A VIP whose date has passed loses the tier, although the job may have been late
\* by days (vip-expiration.scheduler.ts:123-165).
ExpiredVipEnds ==
    \A u \in Users :
        user[u].tier = "VIP" /\ user[u].expires # 0 /\ user[u].expires <= day
            ~> ~(user[u].tier = "VIP" /\ user[u].expires # 0 /\ user[u].expires <= day)

\* A purge without a target deletes only accounts that a purge has found past
\* their date, whatever was requested or cancelled in between (1101-1128).
PurgedWhenDue ==
    [][\A u \in Users : There(u) /\ ~There(u)' =>
          \/ u \in overdue
          \/ \E r \in Requests : At(r, "remove", "write") /\ req[r].who = u]_vars

\* A ban that has not expired is lifted by administrators only: a deletion, its
\* cancellation, a tier, a role or a login do not (582-710, 1035-1065).
BanHolds ==
    [][\A u \in Users : user[u].banned /\ ~Lapsed(u) /\ There(u)' =>
          \/ user'[u].banned
          \/ \E r \in Requests : At(r, "unban", "write") /\ req[r].who = u]_vars

\* Friends have both asked or accepted since one of them last blocked the other: no
\* acceptance that was on its way survives a block (1262-1285).
FriendsAreWilling ==
    \A p \in Pairs : rows[p].status = "ACCEPTED" => {p, <<p[2], p[1]>>} \subseteq willing

-----------------------------------------------------------------------------
(* What comments of the code promise, and races or omissions break: TLC    *)
(* refutes each on the instance that README.md gives.                      *)

\* An account whose deletion was requested is deleted after the delay (994).
ScheduledIsPurged ==
    \A u \in Users : user[u].due # 0 /\ user[u].due <= day ~> user[u].due = 0 \/ user[u].due > day

\* "Vous pouvez annuler cette démarche à tout moment" (995)
ReactivatedIsKept ==
    [][\A u \in Users : There(u) /\ user[u].status # "PENDING_DELETION" =>
          There(u)' \/ \E r \in Requests : At(r, "remove", "write")]_vars

\* Sanctions take effect: a suspended user has no session until his date
\* (moderation.service.ts:213).
SuspendedIsOut ==
    \A u \in Users : user[u].status = "SUSPENDED" /\ user[u].until > day => u \notin sessions

\* "Bannissement définitif" (moderation.service.ts:254): a date is not given to it later.
BannedForEver ==
    [][\A u \in Users : user[u].status = "BANNED" /\ user[u].banned /\ user[u].until = 0
          /\ user'[u].banned => user'[u].until = 0]_vars

\* The last administrator is neither removed nor demoted (admin-users.service.ts:335).
AdministratorRemains == FirstAdmins # {} => Administrators # {}

\* A tier that was extended until later is not taken away by the job.
TierKept ==
    [][\A u \in vip : user[u].expires > day /\ There(u)' => user'[u].tier = user[u].tier]_vars

\* "retrait mutuel" (424): after a removal the two are not friends.
RemovedIsApart ==
    [][\A r \in Requests : At(r, "unfriend", "erase") /\ req'[r].pc = "ok" =>
          \A p \in {<<req[r].by, req[r].who>>, <<req[r].who, req[r].by>>} :
              rows'[p].status # "ACCEPTED"]_vars

\* A block breaks any relation (1240), and no new one begins under it.
BlockedIsApart == \A p \in blocks : rows[p].id = 0 /\ rows[<<p[2], p[1]>>].id = 0
=============================================================================
