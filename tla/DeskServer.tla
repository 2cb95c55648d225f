------------------------------- MODULE DeskServer ------------------------------
(***************************************************************************)
(* The Calc24v1 server (the side of the conflict in its TCPServer.cpp that *)
(* has an implementation): the main thread accepts clients, seats them at  *)
(* desks of three and deals when a third seat is taken; every player has a *)
(* detached thread of its own.  They share the Player and Desk objects and *)
(* m_players, and only the threads take m_mutexForPlayers.                 *)
(*                                                                         *)
(* A Player object closes its descriptor when its last shared_ptr goes, so *)
(* no two objects have one descriptor and m_players, which maps them to    *)
(* the objects, is a set here.  Its unlocked writes are single steps.      *)
(***************************************************************************)
EXTENDS Integers, Sequences

CONSTANTS
    MaxPlayers,     \* bound: clients accepted; they are named by their order
    Leavers,        \* bound: the clients that may leave
    Talkers,        \* bound: the clients that send lines
    MaxLines        \* bound: lines each of these sends

Players == 1 .. MaxPlayers

ASSUME DeskAssumption ==
    /\ MaxPlayers \in Nat \ {0} /\ MaxLines \in Nat
    /\ Leavers \subseteq Players /\ Talkers \subseteq Players

NoPlayer == 0
NoDesk == 0
Seats == 1 .. 3

VARIABLES
    pc,             \* where the main thread is in start and newPlayerJoined
    joined,         \* clients accepted; the newest is spCurrentPlayer
    seat,           \* the seat newPlayerJoined is at
    m_deskInfo,     \* the desks: who was put on each seat (weak pointers)
    sendCards,      \* per desk: the hands in its sendCards string
    locked,         \* the players that the main thread's sp1, sp2, sp3 hold
    m_players,
    m_ready,
    m_spDesk,       \* per player: the desk set last, or NoDesk
    thread,         \* where clientThreadFunc is, per player
    m_cardsSent,
    lines,          \* per player: complete lines in m_recvBuf
    ended,          \* history: threads that ended before main inserted them
    hands,          \* history: the hands each player was sent
    here,           \* per client: has it not closed the connection?
    toSend,         \* per client: lines it may still send
    running         \* the process has not ended, by a signal or with main

mainVars == <<pc, joined, seat, m_deskInfo, sendCards, locked>>
sharedVars == <<m_players, m_ready, m_spDesk>>
threadVars == <<thread, m_cardsSent, lines, ended, hands>>
clientVars == <<here, toSend>>
vars == <<mainVars, sharedVars, threadVars, clientVars, running>>

TypeOK ==
    /\ pc \in {"accept", "look", "newDesk", "ready", "desk", "cards", "spawn", "insert"}
    /\ joined \in 0 .. MaxPlayers
    /\ seat \in Seats
    /\ m_deskInfo \in Seq([Seats -> Players \cup {NoPlayer}])
    /\ sendCards \in Seq(Nat) /\ Len(sendCards) = Len(m_deskInfo)
    /\ locked \subseteq Players
    /\ m_players \subseteq Players
    /\ m_ready \in [Players -> BOOLEAN]
    /\ m_spDesk \in [Players -> NoDesk .. Len(m_deskInfo)]
    /\ thread \in [Players -> {"none", "welcome", "loop", "cards", "recv", "handle",
                               "erase", "ended"}]
    /\ m_cardsSent \in [Players -> BOOLEAN]
    /\ lines \in [Players -> 0 .. MaxLines]
    /\ ended \subseteq Players
    /\ hands \in [Players -> Nat]
    /\ here \in [Players -> BOOLEAN]
    /\ toSend \in [Players -> 0 .. MaxLines]
    /\ running \in BOOLEAN

Init ==
    /\ pc = "accept" /\ joined = 0 /\ seat = 1
    /\ m_deskInfo = << >> /\ sendCards = << >> /\ locked = {}
    /\ m_players = {}
    /\ m_ready = [p \in Players |-> FALSE]
    /\ m_spDesk = [p \in Players |-> NoDesk]
    /\ thread = [p \in Players |-> "none"]
    /\ m_cardsSent = [p \in Players |-> FALSE]
    /\ lines = [p \in Players |-> 0]
    /\ ended = {}
    /\ hands = [p \in Players |-> 0]
    /\ here = [p \in Players |-> TRUE]
    /\ toSend = [p \in Players |-> IF p \in Talkers THEN MaxLines ELSE 0]
    /\ running = TRUE

-----------------------------------------------------------------------------
(* The main thread.                                                        *)

Current == joined

\* The clientThreadFunc of p holds its player.
Running(p) == thread[p] \notin {"none", "ended"}

\* Somebody has a shared_ptr to the player.
Held(p) ==
    /\ p # NoPlayer
    /\ p \in m_players \cup locked \/ Running(p) \/ (p = Current /\ pc # "accept")

Expired(p) == ~ Held(p)

\* m_deskInfo.rbegin(): no other desk is looked at again.
LastDesk == Len(m_deskInfo)
Sitting == m_deskInfo[LastDesk][seat]

NextSeat == IF seat = 3 THEN 1 ELSE seat + 1

Accept ==
    /\ pc = "accept" /\ joined < MaxPlayers
    /\ joined' = joined + 1
    /\ pc' = IF m_deskInfo = << >> THEN "newDesk" ELSE "look"
    /\ UNCHANGED <<seat, m_deskInfo, sendCards, locked, sharedVars, threadVars,
                   clientVars, running>>

\* Whatever accept4 fails for, start returns and main with it.
AcceptFails ==
    /\ pc = "accept"
    /\ running' = FALSE
    /\ UNCHANGED <<mainVars, sharedVars, threadVars, clientVars>>

SeatTaken ==
    /\ pc = "look" /\ Held(Sitting)
    /\ seat' = NextSeat
    /\ pc' = IF seat = 3 THEN "newDesk" ELSE "look"
    /\ UNCHANGED <<joined, m_deskInfo, sendCards, locked, sharedVars, threadVars,
                   clientVars, running>>

\* Mutant: the seats are tested by ifs, not by else ifs.
TakeSeat_IfIf ==
    /\ pc = "look" /\ Expired(Sitting)
    /\ m_deskInfo' = [m_deskInfo EXCEPT ![LastDesk] =
                        [s \in Seats |-> IF Expired(@[s]) THEN Current ELSE @[s]]]
    /\ seat' = 1
    /\ pc' = IF seat = 3 THEN "ready" ELSE "spawn"
    /\ UNCHANGED <<joined, sendCards, locked, sharedVars, threadVars, clientVars,
                   running>>

\* Only the third seat makes the desk full, and the first two get no setDesk.
TakeSeat ==
    /\ pc = "look" /\ Expired(Sitting)
    /\ m_deskInfo' = [m_deskInfo EXCEPT ![LastDesk][seat] = Current]
    /\ seat' = 1
    /\ pc' = IF seat = 3 THEN "ready" ELSE "spawn"
    /\ UNCHANGED <<joined, sendCards, locked, sharedVars, threadVars, clientVars,
                   running>>

NewDesk ==
    /\ pc = "newDesk"
    /\ m_deskInfo' = Append(m_deskInfo, [s \in Seats |-> IF s = 1 THEN Current
                                                        ELSE NoPlayer])
    /\ sendCards' = Append(sendCards, 0)
    /\ m_spDesk' = [m_spDesk EXCEPT ![Current] = LastDesk + 1]
    /\ pc' = "spawn"
    /\ UNCHANGED <<joined, seat, locked, m_players, m_ready, threadVars,
                   clientVars, running>>

\* A seat whose player has gone meanwhile is passed over.
LockFails ==
    /\ pc = "ready" /\ Expired(Sitting)
    /\ seat' = NextSeat
    /\ pc' = IF seat = 3 THEN "cards" ELSE "ready"
    /\ UNCHANGED <<joined, m_deskInfo, sendCards, locked, sharedVars, threadVars,
                   clientVars, running>>

SetReady ==
    /\ pc = "ready" /\ Held(Sitting)
    /\ locked' = locked \cup {Sitting}
    /\ m_ready' = [m_ready EXCEPT ![Sitting] = TRUE]
    /\ pc' = "desk"
    /\ UNCHANGED <<joined, seat, m_deskInfo, sendCards, m_players, m_spDesk,
                   threadVars, clientVars, running>>

SetDesk ==
    /\ pc = "desk"
    /\ m_spDesk' = [m_spDesk EXCEPT ![Sitting] = LastDesk]
    /\ seat' = NextSeat
    /\ pc' = IF seat = 3 THEN "cards" ELSE "ready"
    /\ UNCHANGED <<joined, m_deskInfo, sendCards, locked, m_players, m_ready,
                   threadVars, clientVars, running>>

\* A hand is appended; then the block ends and sp1, sp2 and sp3 with it.
GenerateCards ==
    /\ pc = "cards"
    /\ sendCards' = [sendCards EXCEPT ![LastDesk] = @ + 1]
    /\ locked' = {}
    /\ pc' = "spawn"
    /\ UNCHANGED <<joined, seat, m_deskInfo, sharedVars, threadVars, clientVars,
                   running>>

Spawn ==
    /\ pc = "spawn"
    /\ thread' = [thread EXCEPT ![Current] = "welcome"]
    /\ pc' = "insert"
    /\ UNCHANGED <<joined, seat, m_deskInfo, sendCards, locked, sharedVars,
                   m_cardsSent, lines, ended, hands, clientVars, running>>

\* The thread runs already, and the mutex is not taken.
Insert ==
    /\ pc = "insert"
    /\ m_players' = m_players \cup {Current}
    /\ pc' = "accept"
    /\ UNCHANGED <<joined, seat, m_deskInfo, sendCards, locked, m_ready, m_spDesk,
                   threadVars, clientVars, running>>

MainStep ==
    \/ Accept \/ SeatTaken \/ TakeSeat \/ NewDesk \/ LockFails \/ SetReady
    \/ SetDesk \/ GenerateCards \/ Spawn \/ Insert

-----------------------------------------------------------------------------
(* clientThreadFunc of player p.                                           *)

Goto(p, from, to) ==
    /\ thread[p] = from
    /\ thread' = [thread EXCEPT ![p] = to]
    /\ UNCHANGED <<mainVars, clientVars>>

\* A send to a client that has closed may succeed, fail or raise SIGPIPE.
SendTo(clients) == running' \in {TRUE} \cup {here[q] : q \in clients}

Welcome(p) ==
    /\ \/ Goto(p, "welcome", "loop")
       \/ ~ here[p] /\ Goto(p, "welcome", "erase")
    /\ SendTo({p})
    /\ UNCHANGED <<sharedVars, m_cardsSent, lines, ended, hands>>

\* Mutant: the test is the wrong way round.
CheckReady_Reversed(p) ==
    /\ Goto(p, "loop", IF m_ready[p] /\ ~ m_cardsSent[p] THEN "recv" ELSE "cards")
    /\ UNCHANGED <<sharedVars, m_cardsSent, lines, ended, hands, running>>

CheckReady(p) ==
    /\ Goto(p, "loop", IF m_ready[p] /\ ~ m_cardsSent[p] THEN "cards" ELSE "recv")
    /\ UNCHANGED <<sharedVars, m_cardsSent, lines, ended, hands, running>>

\* sendCards finds no desk, and the player is thrown out.
NoDeskYet(p) ==
    /\ m_spDesk[p] = NoDesk
    /\ Goto(p, "cards", "erase")
    /\ UNCHANGED <<sharedVars, m_cardsSent, lines, ended, hands, running>>

\* The string may be empty still; sending nothing succeeds.
SendCards(p) ==
    /\ m_spDesk[p] # NoDesk
    /\ Goto(p, "cards", "recv")
    /\ m_cardsSent' = [m_cardsSent EXCEPT ![p] = TRUE]
    /\ hands' = [hands EXCEPT ![p] = sendCards[m_spDesk[p]]]
    /\ SendTo({p})
    /\ UNCHANGED <<sharedVars, lines, ended>>

\* The window is full or the client gone.
SendCardsFails(p) ==
    /\ m_spDesk[p] # NoDesk /\ sendCards[m_spDesk[p]] > 0
    /\ Goto(p, "cards", "erase")
    /\ UNCHANGED <<sharedVars, m_cardsSent, lines, ended, hands, running>>

\* recvData: nothing, or no whole line.
RecvNothing(p) ==
    /\ here[p]
    /\ Goto(p, "recv", "loop")
    /\ UNCHANGED <<sharedVars, m_cardsSent, lines, ended, hands, running>>

RecvLines(p) ==
    /\ \E n \in 1 .. toSend[p] :
         /\ lines' = [lines EXCEPT ![p] = n]
         /\ toSend' = [toSend EXCEPT ![p] = @ - n]
    /\ thread[p] = "recv"
    /\ thread' = [thread EXCEPT ![p] = "handle"]
    /\ UNCHANGED <<mainVars, sharedVars, m_cardsSent, ended, hands, here, running>>

\* Mutant: a closed connection is taken for one without data.
RecvClosed_Again(p) ==
    /\ ~ here[p]
    /\ Goto(p, "recv", "loop")
    /\ UNCHANGED <<sharedVars, m_cardsSent, lines, ended, hands, running>>

RecvClosed(p) ==
    /\ ~ here[p]
    /\ Goto(p, "recv", "erase")
    /\ UNCHANGED <<sharedVars, m_cardsSent, lines, ended, hands, running>>

\* handleClientMsg cuts off a line; sendMsgToOtherClients, under the lock,
\* sends it to all others and goes on where a send fails.
Forward(p) ==
    /\ lines[p] > 0
    /\ Goto(p, "handle", "handle")
    /\ lines' = [lines EXCEPT ![p] = @ - 1]
    /\ SendTo(m_players \ {p})
    /\ UNCHANGED <<sharedVars, m_cardsSent, ended, hands>>

NoMoreLines(p) ==
    /\ lines[p] = 0
    /\ Goto(p, "handle", "loop")
    /\ UNCHANGED <<sharedVars, m_cardsSent, lines, ended, hands, running>>

\* Mutant: the thread of a player nobody could be sent to leaves it behind.
End_KeepsGone(p) ==
    /\ Goto(p, "erase", "ended")
    /\ m_players' = IF here[p] THEN m_players \ {p} ELSE m_players
    /\ ended' = IF p \in m_players THEN ended ELSE ended \cup {p}
    /\ UNCHANGED <<m_ready, m_spDesk, m_cardsSent, lines, hands, running>>

\* The entry is erased under the lock and the thread's own pointers go.
End(p) ==
    /\ Goto(p, "erase", "ended")
    /\ m_players' = m_players \ {p}
    /\ ended' = IF p \in m_players THEN ended ELSE ended \cup {p}
    /\ UNCHANGED <<m_ready, m_spDesk, m_cardsSent, lines, hands, running>>

PlayerStep(p) ==
    \/ Welcome(p) \/ CheckReady(p) \/ NoDeskYet(p) \/ SendCards(p) \/ SendCardsFails(p)
    \/ RecvNothing(p) \/ RecvLines(p) \/ RecvClosed(p) \/ Forward(p)
    \/ NoMoreLines(p) \/ End(p)

\* A client that has connected closes the connection.
Leave(p) ==
    /\ p \in Leavers /\ p <= joined /\ here[p]
    /\ here' = [here EXCEPT ![p] = FALSE]
    /\ UNCHANGED <<mainVars, sharedVars, threadVars, toSend, running>>

Next ==
    /\ running
    /\ MainStep \/ AcceptFails \/ \E p \in Players : PlayerStep(p) \/ Leave(p)

Spec == Init /\ [][Next]_vars

\* The threads run; nobody has to connect, send or leave, no accept to fail.
Fairness ==
    /\ WF_vars(running /\ MainStep /\ ~ Accept)
    /\ \A p \in Players : WF_vars(running /\ PlayerStep(p))

FairSpec == Spec /\ Fairness

-----------------------------------------------------------------------------
(* Properties.                                                             *)

\* The player is on a seat once newPlayerJoined has found it one.
HasSeat(p) == p < joined \/ (p = joined /\ pc \notin {"look", "newDesk"})

\* Nobody is put on the seat of a player who is still there, however its
\* thread, m_players and the main thread's pointers come and go: each such
\* player has one seat at one desk.
LivePlayersKeepSeats ==
    \A p \in Players :
        HasSeat(p) /\ Held(p) =>
          \E d \in DOMAIN m_deskInfo, s \in Seats :
            /\ m_deskInfo[d][s] = p
            /\ \A e \in DOMAIN m_deskInfo, t \in Seats :
                 m_deskInfo[e][t] = p => e = d /\ t = s

\* newPlayerJoined implements ThreeSeats, though it looks at one seat after the
\* other while players go: only an expired player's seat at the newest desk is
\* given away, nobody gets a second one, and no other desk ever changes.
Desks == INSTANCE ThreeSeats WITH
            desks <- m_deskInfo,
            came <- {p \in Players : HasSeat(p)},
            gone <- {p \in Players : HasSeat(p) /\ Expired(p)}

ImplementsThreeSeats == Desks!Spec

\* The player who fills a desk starts with cards to be sent: its thread never
\* finds it ready at no desk, or the string empty.
LastPlayerHasCards ==
    \A d \in DOMAIN m_deskInfo :
        LET p == m_deskInfo[d][3] IN
          p # NoPlayer /\ thread[p] # "none" =>
            /\ m_ready[p] /\ m_spDesk[p] = d /\ sendCards[d] > 0
            /\ m_cardsSent[p] => hands[p] > 0

\* A player nobody serves stays in m_players only when its thread had ended
\* before the main thread put it there.
OnlyEarlyEndsStay ==
    \A p \in m_players : thread[p] = "ended" => p \in ended

\* The main thread has let go of a ready player (the hand is in the desk's
\* string), whose thread has not looked too early: has neither sent the empty
\* string nor thrown the player out for having no desk.
AwaitsHand(p) ==
    /\ m_ready[p] /\ p \notin locked
    /\ ~ m_cardsSent[p] /\ thread[p] \notin {"erase", "ended"}

\* A ready player whose hand is in its desk's string is sent a hand, and an
\* empty string does not count, unless its thread or the process ends.  A
\* thread that looks while the main thread is still between setReady and
\* generateCards is not covered: its player gets nothing, or is thrown out.
ReadyAreServed ==
    \A p \in Players :
        AwaitsHand(p) ~> (hands[p] > 0 \/ thread[p] = "ended" \/ ~ running)

\* A client that leaves frees its seat, unless its thread ended early.
LeaversFreeSeats ==
    \A p \in Leavers :
        ~ here[p] ~> (Expired(p) \/ p \in ended \/ ~ running)
=============================================================================
