------------------------------- MODULE ThreeSeats -------------------------------
(***************************************************************************)
(* What newPlayerJoined of Calc24v1 promises, with no threads and no       *)
(* pointers in it: whoever comes is given one seat, once, at the newest    *)
(* desk of three or at a new one, and a seat only changes hands when its   *)
(* player has gone.                                                        *)
(***************************************************************************)
EXTENDS Naturals, Sequences

CONSTANTS Players, NoPlayer

VARIABLES
    desks,      \* who was put on each seat, desk by desk
    came,       \* everybody who was ever given a seat
    gone        \* those of them who have gone for good

vars == <<desks, came, gone>>

Seats == 1 .. 3
Newest == Len(desks)

Init == desks = << >> /\ came = {} /\ gone = {}

Comes(p) ==
    /\ p \notin came
    /\ came' = came \cup {p}
    /\ UNCHANGED gone

Sit(p, s) ==
    /\ Comes(p)
    /\ desks # << >>
    /\ desks[Newest][s] \in gone \cup {NoPlayer}
    /\ desks' = [desks EXCEPT ![Newest][s] = p]

Open(p) ==
    /\ Comes(p)
    /\ desks' = Append(desks, [s \in Seats |-> IF s = 1 THEN p ELSE NoPlayer])

\* Several may be found to have gone at once.
Leave ==
    /\ gone \subseteq gone' /\ gone' \subseteq came
    /\ UNCHANGED <<desks, came>>

Next == Leave \/ \E p \in Players : Open(p) \/ \E s \in Seats : Sit(p, s)

Spec == Init /\ [][Next]_vars
=============================================================================
