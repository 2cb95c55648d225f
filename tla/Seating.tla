-------------------------------- MODULE Seating --------------------------------
(***************************************************************************)
(* What the deal promises, with no threads in it: desks are opened one     *)
(* after the other, a player takes a seat only at the newest desk and only *)
(* once at each desk, and may leave at any time.                           *)
(***************************************************************************)
EXTENDS Naturals

CONSTANTS
    Players,
    MaxDesks    \* bound: desks opened in one behaviour

VARIABLES
    newest,     \* the number of the desk opened last, 0 before the first
    seat,       \* per player: the desk it sits at, 0 for none
    sat         \* per desk: everybody who ever took a seat there

vars == <<newest, seat, sat>>

Init ==
    /\ newest = 0
    /\ seat = [p \in Players |-> 0]
    /\ sat = [d \in 1 .. MaxDesks |-> {}]

Open ==
    /\ newest < MaxDesks
    /\ newest' = newest + 1
    /\ UNCHANGED <<seat, sat>>

Sit(p) ==
    /\ newest > 0
    /\ p \notin sat[newest]
    /\ seat' = [seat EXCEPT ![p] = newest]
    /\ sat' = [sat EXCEPT ![newest] = @ \cup {p}]
    /\ UNCHANGED newest

Leave(p) ==
    /\ seat' = [seat EXCEPT ![p] = 0]
    /\ UNCHANGED <<newest, sat>>

Next == Open \/ \E p \in Players : Sit(p) \/ Leave(p)

Spec == Init /\ [][Next]_vars
=============================================================================
