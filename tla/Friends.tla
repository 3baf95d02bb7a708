------------------------------- MODULE Friends -------------------------------
(***************************************************************************)
(* friends.service.ts, and the blocks of users.service.ts: requests,       *)
(* acceptances and removals of two users.  A pair of users may have two    *)
(* friendships rows, one for each sender.                                  *)
(***************************************************************************)
EXTENDS UserStore

\* Between two users, in either direction
Between(u, v) == {p \in {<<u, v>>, <<v, u>>} : rows[p].id # 0}
\* The id of a new row was never used.
Used == {rows[p].id : p \in Pairs} \cup {req[r].id : r \in Requests}
NewId == CHOOSE i \in 1 .. (Cardinality(Pairs) + Cardinality(Requests) + 1) : i \notin Used
WithId(i) == {p \in Pairs : rows[p].id = i}

-----------------------------------------------------------------------------
(* Plausible bugs, for the mutation check of the properties.               *)

\* The acceptance does not look for the row again.
AcceptUpsert(r) ==
    LET i == req[r].id
        p == <<req[r].who, req[r].by>> IN
    /\ req[r].pc = "accept"
    /\ IF There(p[1]) /\ There(p[2])
       THEN /\ rows' = [rows EXCEPT ![p] = [status |-> "ACCEPTED", id |-> i]]
            /\ willing' = willing \cup {<<p[2], p[1]>>} /\ Goto(r, "ok")
       ELSE UNCHANGED <<rows, willing>> /\ Goto(r, "failed")
    /\ UNCHANGED <<day, user, sessions, blocks, vip, granted, overdue>>

-----------------------------------------------------------------------------
(* sendFriendRequest, acceptFriendRequest                                  *)

\* The first row found decides; a request of the other user is accepted.
AfterFirst(by, p) ==
    CASE rows[p].status = "ACCEPTED" \/ p[1] = by -> "failed"
      [] OTHER -> "accept"
SendLoad(r) ==
    /\ \E p \in Pairs :
          /\ Signed(p[1])
          /\ IF There(p[2]) /\ Between(p[1], p[2]) # {}
             THEN \E q \in Between(p[1], p[2]) :
                     Begin(r, [New("send", AfterFirst(p[1], q), p[1], p[2])
                                  EXCEPT !.id = rows[q].id])
             ELSE Begin(r, New("send", IF There(p[2]) THEN "create" ELSE "failed", p[1], p[2]))
    /\ UNCHANGED <<day, tables, vip, history>>
\* One row for a sender and a receiver
SendCreate(r) ==
    LET p == <<req[r].by, req[r].who>> IN
    /\ At(r, "send", "create")
    /\ IF rows[p].id = 0 /\ There(p[1]) /\ There(p[2])
       THEN /\ rows' = [rows EXCEPT ![p] = [status |-> "PENDING", id |-> NewId]]
            /\ willing' = willing \cup {p} /\ Goto(r, "ok")
       ELSE UNCHANGED <<rows, willing>> /\ Goto(r, "failed")
    /\ UNCHANGED <<day, user, sessions, blocks, vip, granted, overdue>>
\* The row that the user received
AcceptLoad(r) ==
    /\ \E p \in Pairs :
          /\ Signed(p[2])
          /\ Begin(r, [New("accept", CASE rows[p].status = "NONE" -> "failed"
                                       [] rows[p].status = "ACCEPTED" -> "ok"
                                       [] rows[p].status = "PENDING" -> "accept", p[2], p[1])
                          EXCEPT !.id = rows[p].id])
    /\ UNCHANGED <<day, tables, vip, history>>
AcceptWrite(r) ==
    LET found == WithId(req[r].id) IN
    /\ req[r].pc = "accept"
    /\ IF found = {} THEN UNCHANGED <<rows, willing>> /\ Goto(r, "failed")
       ELSE /\ rows' = [p \in Pairs |-> IF p \in found THEN [rows[p] EXCEPT !.status = "ACCEPTED"]
                                        ELSE rows[p]]
            /\ willing' = willing \cup {<<req[r].by, req[r].who>>}
            /\ Goto(r, "ok")
    /\ UNCHANGED <<day, user, sessions, blocks, vip, granted, overdue>>

-----------------------------------------------------------------------------
(* rejectFriendRequest, cancelFriendRequest, removeFriend                  *)

\* A received row, whatever its status; a request sent that is pending; the
\* first accepted row in either direction
EraseLoad(r) ==
    /\ \E op \in {"reject", "cancel", "unfriend"}, by \in Users, p \in Pairs :
          /\ Signed(by)
          /\ CASE op = "reject" -> by = p[2]
               [] op = "cancel" -> by = p[1]
               [] op = "unfriend" -> by \in {p[1], p[2]}
          /\ Begin(r, [New(op, IF \/ op = "reject" /\ rows[p].id # 0
                                  \/ op = "cancel" /\ rows[p].status = "PENDING"
                                  \/ op = "unfriend" /\ rows[p].status = "ACCEPTED"
                               THEN "erase" ELSE "failed", p[1], p[2]) EXCEPT !.id = rows[p].id])
    /\ UNCHANGED <<day, tables, vip, history>>
EraseWrite(r) ==
    LET found == WithId(req[r].id) IN
    /\ req[r].pc = "erase"
    /\ rows' = [p \in Pairs |-> IF p \in found THEN NoRow ELSE rows[p]]
    /\ Goto(r, IF found = {} THEN "failed" ELSE "ok")
    /\ UNCHANGED <<day, user, sessions, blocks, vip, history>>

-----------------------------------------------------------------------------
(* blockUser, unblockUser                                                  *)

BlockLoad(r) ==
    /\ \E p \in Pairs : /\ Signed(p[1])
                        /\ Begin(r, New("block", IF There(p[2]) THEN "block" ELSE "failed",
                                        p[1], p[2]))
    /\ UNCHANGED <<day, tables, vip, history>>
BlockWrite(r) ==
    LET p == <<req[r].by, req[r].who>>
        both == {p, <<p[2], p[1]>>} IN
    /\ At(r, "block", "block")
    /\ IF There(p[1]) /\ There(p[2])
       THEN /\ rows' = [q \in Pairs |-> IF q \in both THEN NoRow ELSE rows[q]]
            /\ blocks' = blocks \cup {p} /\ willing' = willing \ both /\ Goto(r, "ok")
       ELSE UNCHANGED <<rows, blocks, willing>> /\ Goto(r, "failed")
    /\ UNCHANGED <<day, user, sessions, vip, granted, overdue>>
Unblock(r) ==
    /\ \E p \in Pairs : /\ Signed(p[1]) /\ Begin(r, New("unblock", "ok", p[1], p[2]))
                        /\ blocks' = blocks \ {p}
    /\ UNCHANGED <<day, user, sessions, rows, vip, history>>

-----------------------------------------------------------------------------
FriendCall(r) == SendLoad(r) \/ AcceptLoad(r) \/ EraseLoad(r) \/ BlockLoad(r) \/ Unblock(r)
FriendStep(r) == SendCreate(r) \/ AcceptWrite(r) \/ EraseWrite(r) \/ BlockWrite(r)
=============================================================================
