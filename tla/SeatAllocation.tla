---------------------------- MODULE SeatAllocation ----------------------------
(***************************************************************************)
(* What the registration of an event promises: seats are given while there *)
(* are some, whoever comes later waits, and a seat that is given back goes *)
(* to somebody who waits in the same step.                                 *)
(***************************************************************************)
EXTENDS Integers, FiniteSets

CONSTANTS
    Users,
    Seats,  \* number of seats; 0 stands for no limit
    Places  \* places on the waiting list; 0 stands for no limit

VARIABLES
    seated,  \* users who hold a seat
    waiting  \* users on the waiting list

AllTaken == Seats # 0 /\ Cardinality(seated) = Seats

Init == seated = {} /\ waiting = {}

Seat(u) ==
    /\ u \notin seated \cup waiting /\ ~AllTaken /\ waiting = {}
    /\ seated' = seated \cup {u} /\ UNCHANGED waiting
Wait(u) ==
    /\ u \notin seated \cup waiting /\ AllTaken
    /\ Places # 0 => Cardinality(waiting) < Places
    /\ waiting' = waiting \cup {u} /\ UNCHANGED seated
Leave(u) ==
    /\ u \in seated /\ waiting = {}
    /\ seated' = seated \ {u} /\ UNCHANGED waiting
HandOver(u, v) ==
    /\ u \in seated /\ v \in waiting
    /\ seated' = (seated \ {u}) \cup {v} /\ waiting' = waiting \ {v}
GiveUp(u) ==
    /\ u \in waiting
    /\ waiting' = waiting \ {u} /\ UNCHANGED seated

Next == \E u \in Users : \/ Seat(u) \/ Wait(u) \/ Leave(u) \/ GiveUp(u)
                         \/ \E v \in Users : HandOver(u, v)
Spec == Init /\ [][Next]_<<seated, waiting>>
=============================================================================
