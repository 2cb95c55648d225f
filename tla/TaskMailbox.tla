------------------------------ MODULE TaskMailbox ------------------------------
(***************************************************************************)
(* What EventLoop::addTask promises to the other threads: their tasks are  *)
(* run by the loop, each once, in the order in which they were added.      *)
(***************************************************************************)
EXTENDS Sequences

CONSTANT Tasks

VARIABLE queue      \* added and not yet run, oldest first

Init == queue = << >>

Add(t) == queue' = Append(queue, t)

Run == queue # << >> /\ queue' = Tail(queue)

Next == Run \/ \E t \in Tasks : Add(t)

Spec == Init /\ [][Next]_queue
=============================================================================
