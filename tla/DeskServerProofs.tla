---------------------------- MODULE DeskServerProofs ---------------------------
(***************************************************************************)
(* Theorems about DeskServer, for every number of players and lines.       *)
(***************************************************************************)
EXTENDS DeskServer, TLAPS

-----------------------------------------------------------------------------
(* Types.                                                                  *)

LEMMA CurrentPlayer == ASSUME TypeOK, joined > 0 PROVE Current \in Players
  BY DeskAssumption DEF TypeOK, Current, Players

LEMMA NextSeatType == ASSUME seat \in Seats PROVE NextSeat \in Seats
  BY DEF NextSeat, Seats

\* The main thread has accepted somebody wherever it is but in accept, and
\* looks at a desk that is there.
MainInv ==
    /\ pc # "accept" => joined > 0
    /\ pc \in {"look", "ready", "desk", "cards"} => m_deskInfo # << >>

LEMMA LastDeskIs ==
  ASSUME TypeOK, m_deskInfo # << >>
  PROVE  /\ LastDesk \in 1 .. Len(m_deskInfo)
         /\ m_deskInfo[LastDesk] \in [Seats -> Players \cup {NoPlayer}]
         /\ Sitting \in Players \cup {NoPlayer}
         /\ sendCards[LastDesk] \in Nat
  <1> DEFINE P == [Seats -> Players \cup {NoPlayer}]
  <1>1. m_deskInfo \in Seq(P) /\ sendCards \in Seq(Nat)
        /\ Len(sendCards) = Len(m_deskInfo) /\ seat \in Seats
    BY DEF TypeOK
  <1> HIDE DEF P
  <1>2. LastDesk \in 1 .. Len(m_deskInfo) /\ m_deskInfo[LastDesk] \in P
        /\ sendCards[LastDesk] \in Nat
    BY <1>1 DEF LastDesk
  <1> QED  BY <1>1, <1>2 DEF P, Sitting

LEMMA TypeAccept == ASSUME TypeOK, MainInv, Accept PROVE TypeOK' /\ MainInv'
  <1>1. joined' \in 0 .. MaxPlayers /\ joined' > 0
    BY DeskAssumption DEF TypeOK, Accept
  <1>2. pc' \in {"newDesk", "look"} /\ (pc' = "look" => m_deskInfo # << >>)
    BY DEF Accept
  <1>3. UNCHANGED <<seat, m_deskInfo, sendCards, locked, sharedVars, threadVars,
                   clientVars, running>>
    BY DEF Accept
  <1> QED  BY <1>1, <1>2, <1>3, ZenonT(60)
           DEF TypeOK, MainInv, sharedVars, threadVars, clientVars

\* The main thread goes on to another seat or line.
LEMMA TypeMoves ==
  ASSUME TypeOK, MainInv, pc' \in {"newDesk", "look", "ready", "cards"}, pc # "accept",
         seat' \in Seats, pc' # "newDesk" => m_deskInfo # << >>,
         UNCHANGED <<joined, m_deskInfo, sendCards, locked, sharedVars, threadVars,
                     clientVars, running>>
  PROVE  TypeOK' /\ MainInv'
  BY ZenonT(60) DEF TypeOK, MainInv, sharedVars, threadVars, clientVars

LEMMA TypeSeatTaken == ASSUME TypeOK, MainInv, SeatTaken PROVE TypeOK' /\ MainInv'
  <1>1. seat' \in Seats
    BY NextSeatType DEF TypeOK, SeatTaken
  <1>2. pc' \in {"newDesk", "look"} /\ pc = "look"
    BY DEF SeatTaken
  <1> QED  BY <1>1, <1>2, TypeMoves DEF SeatTaken, MainInv

LEMMA TypeLockFails == ASSUME TypeOK, MainInv, LockFails PROVE TypeOK' /\ MainInv'
  <1>1. seat' \in Seats
    BY NextSeatType DEF TypeOK, LockFails
  <1>2. pc' \in {"ready", "cards"} /\ pc = "ready"
    BY DEF LockFails
  <1> QED  BY <1>1, <1>2, TypeMoves DEF LockFails, MainInv

LEMMA TypeTakeSeat == ASSUME TypeOK, MainInv, TakeSeat PROVE TypeOK' /\ MainInv'
  <1> DEFINE P == [Seats -> Players \cup {NoPlayer}]
  <1>1. pc = "look" /\ m_deskInfo # << >> /\ joined > 0
    BY DEF TakeSeat, MainInv
  <1>2. m_deskInfo' = [m_deskInfo EXCEPT ![LastDesk] =
                         [m_deskInfo[LastDesk] EXCEPT ![seat] = Current]]
    BY DEF TakeSeat
  <1>3. [m_deskInfo[LastDesk] EXCEPT ![seat] = Current] \in P
    BY <1>1, LastDeskIs, CurrentPlayer
  <1>4. m_deskInfo \in Seq(P)
    BY DEF TypeOK
  <1> HIDE DEF P
  <1>5. m_deskInfo' \in Seq(P) /\ Len(m_deskInfo') = Len(m_deskInfo)
        /\ m_deskInfo' # << >>
    BY <1>1, <1>2, <1>3, <1>4, LastDeskIs
  <1>6. seat' \in Seats /\ pc' \in {"ready", "spawn"}
    BY DEF TakeSeat, Seats
  <1>7. UNCHANGED <<joined, sendCards, locked, sharedVars, threadVars, clientVars,
                   running>>
    BY DEF TakeSeat
  <1> QED  BY <1>1, <1>5, <1>6, <1>7, ZenonT(60)
           DEF TypeOK, MainInv, sharedVars, threadVars, clientVars, P

LEMMA TypeNewDesk == ASSUME TypeOK, MainInv, NewDesk PROVE TypeOK' /\ MainInv'
  <1> DEFINE P == [Seats -> Players \cup {NoPlayer}]
             D == [s \in Seats |-> IF s = 1 THEN Current ELSE NoPlayer]
  <1>1. pc = "newDesk" /\ joined > 0 /\ pc' = "spawn"
    BY DEF NewDesk, MainInv
  <1>2. m_deskInfo' = Append(m_deskInfo, D) /\ sendCards' = Append(sendCards, 0)
        /\ m_spDesk' = [m_spDesk EXCEPT ![Current] = Len(m_deskInfo) + 1]
    BY DEF NewDesk, LastDesk
  <1>3. D \in P
    BY <1>1, CurrentPlayer
  <1>4. m_deskInfo \in Seq(P) /\ sendCards \in Seq(Nat)
        /\ Len(sendCards) = Len(m_deskInfo)
        /\ m_spDesk \in [Players -> NoDesk .. Len(m_deskInfo)]
    BY DEF TypeOK
  <1> HIDE DEF P, D
  <1>5. m_deskInfo' \in Seq(P) /\ sendCards' \in Seq(Nat)
        /\ Len(sendCards') = Len(m_deskInfo') /\ Len(m_deskInfo') = Len(m_deskInfo) + 1
    BY <1>2, <1>3, <1>4
  <1>6. m_spDesk' \in [Players -> NoDesk .. Len(m_deskInfo')]
    <2>1. NoDesk .. Len(m_deskInfo) \subseteq NoDesk .. Len(m_deskInfo')
          /\ Len(m_deskInfo) + 1 \in NoDesk .. Len(m_deskInfo')
      BY <1>4, <1>5 DEF NoDesk
    <2> QED  BY <1>2, <1>4, <2>1
  <1>7. UNCHANGED <<joined, seat, locked, m_players, m_ready, threadVars, clientVars,
                   running>>
    BY DEF NewDesk
  <1> QED  BY <1>1, <1>5, <1>6, <1>7, ZenonT(60)
           DEF TypeOK, MainInv, threadVars, clientVars, P

LEMMA TypeSetReady == ASSUME TypeOK, MainInv, SetReady PROVE TypeOK' /\ MainInv'
  <1>1. pc = "ready" /\ pc' = "desk" /\ m_deskInfo # << >>
    BY DEF SetReady, MainInv
  <1>2. Sitting \in Players
    BY <1>1, LastDeskIs DEF SetReady, Held
  <1>3. locked' \subseteq Players /\ m_ready' \in [Players -> BOOLEAN]
    BY <1>2 DEF TypeOK, SetReady
  <1>4. UNCHANGED <<joined, seat, m_deskInfo, sendCards, m_players, m_spDesk,
                   threadVars, clientVars, running>>
    BY DEF SetReady
  <1> QED  BY <1>1, <1>3, <1>4, ZenonT(60)
           DEF TypeOK, MainInv, threadVars, clientVars

LEMMA TypeSetDesk == ASSUME TypeOK, MainInv, SetDesk PROVE TypeOK' /\ MainInv'
  <1>1. pc = "desk" /\ m_deskInfo # << >>
    BY DEF SetDesk, MainInv
  <1>2. LastDesk \in NoDesk .. Len(m_deskInfo)
    BY <1>1, LastDeskIs DEF NoDesk
  <1>3. m_spDesk' \in [Players -> NoDesk .. Len(m_deskInfo)]
    BY <1>2 DEF TypeOK, SetDesk
  <1>4. seat' \in Seats
    BY NextSeatType DEF TypeOK, SetDesk
  <1>5. pc' \in {"cards", "ready"}
    BY DEF SetDesk
  <1>6. UNCHANGED <<joined, m_deskInfo, sendCards, locked, m_players, m_ready,
                   threadVars, clientVars, running>>
    BY DEF SetDesk
  <1> QED  BY <1>1, <1>3, <1>4, <1>5, <1>6, ZenonT(60)
           DEF TypeOK, MainInv, threadVars, clientVars

LEMMA TypeGenerateCards ==
  ASSUME TypeOK, MainInv, GenerateCards PROVE TypeOK' /\ MainInv'
  <1>1. pc = "cards" /\ pc' = "spawn" /\ m_deskInfo # << >>
    BY DEF GenerateCards, MainInv
  <1>2. sendCards' \in Seq(Nat) /\ Len(sendCards') = Len(sendCards)
    BY <1>1, LastDeskIs, SMTT(40) DEF TypeOK, GenerateCards
  <1>3. locked' \subseteq Players
    BY DEF GenerateCards
  <1>4. UNCHANGED <<joined, seat, m_deskInfo, sharedVars, threadVars, clientVars,
                   running>>
    BY DEF GenerateCards
  <1> QED  BY <1>1, <1>2, <1>3, <1>4, ZenonT(60)
           DEF TypeOK, MainInv, sharedVars, threadVars, clientVars

LEMMA TypeSpawn == ASSUME TypeOK, MainInv, Spawn PROVE TypeOK' /\ MainInv'
  <1>1. pc = "spawn" /\ pc' = "insert"
    BY DEF Spawn
  <1>2. thread' \in [Players -> {"none", "welcome", "loop", "cards", "recv", "handle",
                                 "erase", "ended"}]
    BY DEF TypeOK, Spawn
  <1>3. UNCHANGED <<joined, seat, m_deskInfo, sendCards, locked, sharedVars,
                   m_cardsSent, lines, ended, hands, clientVars, running>>
    BY DEF Spawn
  <1> QED  BY <1>1, <1>2, <1>3, ZenonT(60) DEF TypeOK, MainInv, sharedVars, clientVars

LEMMA TypeInsert == ASSUME TypeOK, MainInv, Insert PROVE TypeOK' /\ MainInv'
  <1>1. pc = "insert" /\ pc' = "accept" /\ joined > 0
    BY DEF Insert, MainInv
  <1>2. m_players' \subseteq Players
    BY <1>1, CurrentPlayer DEF TypeOK, Insert
  <1>3. UNCHANGED <<joined, seat, m_deskInfo, sendCards, locked, m_ready, m_spDesk,
                   threadVars, clientVars, running>>
    BY DEF Insert
  <1> QED  BY <1>1, <1>2, <1>3, ZenonT(60) DEF TypeOK, MainInv, threadVars, clientVars

LEMMA MainTypes == ASSUME TypeOK, MainInv, MainStep PROVE TypeOK' /\ MainInv'
  BY TypeAccept, TypeSeatTaken, TypeTakeSeat, TypeNewDesk, TypeLockFails, TypeSetReady,
     TypeSetDesk, TypeGenerateCards, TypeSpawn, TypeInsert DEF MainStep

-----------------------------------------------------------------------------
(* What the threads do to the types.                                       *)

ThreadAt == {"none", "welcome", "loop", "cards", "recv", "handle", "erase", "ended"}

LEMMA GotoTypes ==
  ASSUME TypeOK, MainInv, NEW p \in Players, NEW from, NEW to \in ThreadAt,
         Goto(p, from, to)
  PROVE  /\ thread' \in [Players -> ThreadAt]
         /\ UNCHANGED <<pc, joined, seat, m_deskInfo, sendCards, locked, here, toSend>>
         /\ MainInv'
  BY DEF TypeOK, Goto, ThreadAt, mainVars, clientVars, MainInv

LEMMA SendToType ==
  ASSUME TypeOK, NEW clients \in SUBSET Players, SendTo(clients) PROVE running' \in BOOLEAN
  BY DEF TypeOK, SendTo

\* A step of p's thread that only goes on, and may send.
LEMMA TypeGoes ==
  ASSUME TypeOK, MainInv, NEW p \in Players, NEW from, NEW to \in ThreadAt,
         Goto(p, from, to), running' \in BOOLEAN,
         UNCHANGED <<sharedVars, m_cardsSent, lines, ended, hands>>
  PROVE  TypeOK' /\ MainInv'
  <1>1. /\ thread' \in [Players -> ThreadAt] /\ MainInv'
        /\ UNCHANGED <<pc, joined, seat, m_deskInfo, sendCards, locked, here, toSend>>
    BY GotoTypes
  <1> QED  BY <1>1, ZenonT(60) DEF TypeOK, sharedVars, ThreadAt

LEMMA PlayerTypes ==
  ASSUME TypeOK, MainInv, NEW p \in Players, PlayerStep(p) PROVE TypeOK' /\ MainInv'
  <1>r. running \in BOOLEAN /\ (UNCHANGED running => running' \in BOOLEAN)
    BY DEF TypeOK
  <1>1. CASE Welcome(p)
    <2>1. running' \in BOOLEAN
      BY <1>1, SendToType DEF Welcome
    <2>2. CASE Goto(p, "welcome", "loop")
      BY <1>1, <2>1, <2>2, TypeGoes DEF Welcome, ThreadAt
    <2>3. CASE Goto(p, "welcome", "erase")
      BY <1>1, <2>1, <2>3, TypeGoes DEF Welcome, ThreadAt
    <2> QED  BY <1>1, <2>2, <2>3 DEF Welcome
  <1>2. CASE CheckReady(p)
    <2>1. (IF m_ready[p] /\ ~ m_cardsSent[p] THEN "cards" ELSE "recv") \in ThreadAt
      BY Zenon DEF ThreadAt
    <2> QED  BY <1>r, <1>2, <2>1, TypeGoes, Zenon DEF CheckReady
  <1>3. CASE NoDeskYet(p)
    BY <1>r, <1>3, TypeGoes DEF NoDeskYet, ThreadAt
  <1>4. CASE SendCards(p)
    <2>1. "recv" \in ThreadAt
      BY DEF ThreadAt
    <2>2. /\ thread' \in [Players -> ThreadAt] /\ MainInv'
          /\ UNCHANGED <<pc, joined, seat, m_deskInfo, sendCards, locked, here, toSend>>
      BY <1>4, <2>1, GotoTypes DEF SendCards
    <2>3. running' \in BOOLEAN
      BY <1>4, SendToType DEF SendCards
    <2>4. m_cardsSent' \in [Players -> BOOLEAN]
      BY <1>4, Zenon DEF TypeOK, SendCards
    <2>5. sendCards[m_spDesk[p]] \in Nat
      BY <1>4 DEF TypeOK, SendCards, NoDesk
    <2>6. hands' \in [Players -> Nat]
      BY <1>4, <2>5 DEF TypeOK, SendCards
    <2>7. UNCHANGED <<sharedVars, lines, ended>>
      BY <1>4 DEF SendCards
    <2> QED  BY <2>2, <2>3, <2>4, <2>6, <2>7, ZenonT(60) DEF TypeOK, sharedVars, ThreadAt
  <1>5. CASE SendCardsFails(p)
    BY <1>r, <1>5, TypeGoes DEF SendCardsFails, ThreadAt
  <1>6. CASE RecvNothing(p)
    BY <1>r, <1>6, TypeGoes DEF RecvNothing, ThreadAt
  <1>7. CASE RecvLines(p)
    <2>1. PICK n \in 1 .. toSend[p] : /\ lines' = [lines EXCEPT ![p] = n]
                                     /\ toSend' = [toSend EXCEPT ![p] = @ - n]
      BY <1>7 DEF RecvLines
    <2>2. toSend[p] \in 0 .. MaxLines
      BY DEF TypeOK
    <2>3. n \in 0 .. MaxLines /\ toSend[p] - n \in 0 .. MaxLines
      BY <2>2, DeskAssumption
    <2>4. lines' \in [Players -> 0 .. MaxLines] /\ toSend' \in [Players -> 0 .. MaxLines]
      BY <2>1, <2>3 DEF TypeOK
    <2>5. thread' \in [Players -> ThreadAt]
      BY <1>7 DEF TypeOK, RecvLines, ThreadAt
    <2>6. UNCHANGED <<mainVars, sharedVars, m_cardsSent, ended, hands, here, running>>
      BY <1>7 DEF RecvLines
    <2> QED  BY <2>4, <2>5, <2>6, ZenonT(60)
             DEF TypeOK, MainInv, mainVars, sharedVars, ThreadAt
  <1>8. CASE RecvClosed(p)
    BY <1>r, <1>8, TypeGoes DEF RecvClosed, ThreadAt
  <1>9. CASE Forward(p)
    <2>1. "handle" \in ThreadAt
      BY DEF ThreadAt
    <2>2. /\ thread' \in [Players -> ThreadAt] /\ MainInv'
          /\ UNCHANGED <<pc, joined, seat, m_deskInfo, sendCards, locked, here, toSend>>
      BY <1>9, <2>1, GotoTypes DEF Forward
    <2>3. m_players \ {p} \in SUBSET Players
      BY DEF TypeOK
    <2>4. running' \in BOOLEAN
      BY <1>9, <2>3, SendToType DEF Forward
    <2>5. lines[p] \in 0 .. MaxLines /\ lines[p] > 0
      BY <1>9 DEF TypeOK, Forward
    <2>6. lines[p] - 1 \in 0 .. MaxLines
      BY <2>5, DeskAssumption
    <2>7. lines' \in [Players -> 0 .. MaxLines]
      BY <1>9, <2>6 DEF TypeOK, Forward
    <2>8. UNCHANGED <<sharedVars, m_cardsSent, ended, hands>>
      BY <1>9 DEF Forward
    <2> QED  BY <2>2, <2>4, <2>7, <2>8, ZenonT(60) DEF TypeOK, sharedVars, ThreadAt
  <1>10. CASE NoMoreLines(p)
    BY <1>r, <1>10, TypeGoes DEF NoMoreLines, ThreadAt
  <1>11. CASE End(p)
    <2>1. "ended" \in ThreadAt
      BY DEF ThreadAt
    <2>2. /\ thread' \in [Players -> ThreadAt] /\ MainInv'
          /\ UNCHANGED <<pc, joined, seat, m_deskInfo, sendCards, locked, here, toSend>>
      BY <1>11, <2>1, GotoTypes DEF End
    <2>3. m_players' \subseteq Players /\ ended' \subseteq Players
      BY <1>11 DEF TypeOK, End
    <2>4. UNCHANGED <<m_ready, m_spDesk, m_cardsSent, lines, hands, running>>
      BY <1>11 DEF End
    <2> QED  BY <2>2, <2>3, <2>4, ZenonT(60) DEF TypeOK, ThreadAt
  <1> QED  BY <1>1, <1>2, <1>3, <1>4, <1>5, <1>6, <1>7, <1>8, <1>9, <1>10, <1>11
           DEF PlayerStep

LEMMA LeaveTypes ==
  ASSUME TypeOK, MainInv, NEW p \in Players, Leave(p) PROVE TypeOK' /\ MainInv'
  <1>1. here' \in [Players -> BOOLEAN]
    BY Zenon DEF TypeOK, Leave
  <1>2. UNCHANGED <<mainVars, sharedVars, threadVars, toSend, running>>
    BY DEF Leave
  <1> QED  BY <1>1, <1>2, ZenonT(60)
           DEF TypeOK, MainInv, mainVars, sharedVars, threadVars

LEMMA StutterTypes == ASSUME TypeOK, MainInv, UNCHANGED vars PROVE TypeOK' /\ MainInv'
  BY ZenonT(60) DEF TypeOK, MainInv, vars, mainVars, sharedVars, threadVars, clientVars

LEMMA InitTypes == ASSUME Init PROVE TypeOK /\ MainInv
  BY DeskAssumption DEF Init, TypeOK, MainInv, Players, Seats, NoDesk

LEMMA FailsTypes == ASSUME TypeOK, MainInv, AcceptFails PROVE TypeOK' /\ MainInv'
  BY ZenonT(60)
     DEF AcceptFails, TypeOK, MainInv, mainVars, sharedVars, threadVars, clientVars

LEMMA TypeStep == ASSUME TypeOK, MainInv, [Next]_vars PROVE TypeOK' /\ MainInv'
  BY MainTypes, FailsTypes, PlayerTypes, LeaveTypes, StutterTypes DEF Next

\* The types are kept; the main thread only looks at desks that are there.
THEOREM DeskTypeOK == Spec => [](TypeOK /\ MainInv)
  BY InitTypes, TypeStep, PTL DEF Spec


-----------------------------------------------------------------------------
(* Who stays in m_players.                                                 *)

\* The player being seated is not in m_players, nor anybody to come; a thread
\* that has ended before its player got there is known.
EarlyInv ==
    /\ OnlyEarlyEndsStay
    /\ \A p \in Players : p > joined => p \notin m_players
    /\ pc # "accept" => Current \notin m_players
    /\ pc = "insert" /\ thread[Current] = "ended" => Current \in ended

LEMMA EarlyMain == ASSUME TypeOK, MainInv, EarlyInv, MainStep PROVE EarlyInv'
  <1>t. joined \in Nat /\ (pc # "accept" => Current \in Players)
    BY CurrentPlayer, DeskAssumption DEF TypeOK, MainInv
  <1>1. CASE Accept
    <2>1. joined' = joined + 1 /\ pc' \notin {"accept", "insert"}
          /\ UNCHANGED <<m_players, thread, ended>> /\ joined + 1 \in Players
      BY <1>1, DeskAssumption DEF Accept, sharedVars, threadVars, Players, TypeOK
    <2> QED  BY <1>t, <2>1 DEF EarlyInv, OnlyEarlyEndsStay, Current, Players
  <1>2. CASE Spawn
    BY <1>2, <1>t DEF EarlyInv, OnlyEarlyEndsStay, Spawn, Current, sharedVars, TypeOK
  <1>3. CASE Insert
    BY <1>3, <1>t DEF EarlyInv, OnlyEarlyEndsStay, Insert, Current, threadVars
  <1>4. CASE MainStep /\ ~ Accept /\ ~ Spawn /\ ~ Insert
    <2>1. pc # "accept" /\ pc' # "insert" /\ UNCHANGED <<joined, m_players, thread, ended>>
      BY <1>4 DEF MainStep, SeatTaken, TakeSeat, NewDesk, LockFails, SetReady, SetDesk,
                  GenerateCards, sharedVars, threadVars
    <2> QED  BY <2>1 DEF EarlyInv, OnlyEarlyEndsStay, Current
  <1> QED  BY <1>1, <1>2, <1>3, <1>4

LEMMA EarlyPlayer ==
  ASSUME TypeOK, MainInv, EarlyInv, NEW p \in Players, PlayerStep(p) PROVE EarlyInv'
  <1>t. thread \in [Players -> ThreadAt]
    BY DEF TypeOK, ThreadAt
  <1>1. CASE End(p)
    BY <1>1, <1>t DEF EarlyInv, OnlyEarlyEndsStay, End, Goto, mainVars, Current
  <1>2. CASE PlayerStep(p) /\ ~ End(p)
    <2>1. UNCHANGED <<pc, joined, m_players, ended>>
      BY <1>2 DEF PlayerStep, Welcome, CheckReady, NoDeskYet, SendCards, SendCardsFails,
                  RecvNothing, RecvLines, RecvClosed, Forward, NoMoreLines, Goto,
                  mainVars, sharedVars
    <2>2. \A q \in Players : thread'[q] = "ended" => thread[q] = "ended"
      BY <1>2, <1>t
         DEF PlayerStep, Welcome, CheckReady, NoDeskYet, SendCards, SendCardsFails,
             RecvNothing, RecvLines, RecvClosed, Forward, NoMoreLines, Goto
    <2>3. pc = "insert" => Current \in Players
      BY CurrentPlayer DEF MainInv
    <2> QED  BY <2>1, <2>2, <2>3 DEF EarlyInv, OnlyEarlyEndsStay, Current, TypeOK
  <1> QED  BY <1>1, <1>2

LEMMA EarlyStep ==
  ASSUME TypeOK, MainInv, EarlyInv, [Next]_vars PROVE EarlyInv'
  <1>1. CASE \E p \in Players : Leave(p)
    BY <1>1 DEF Leave, EarlyInv, OnlyEarlyEndsStay, Current, mainVars, sharedVars, threadVars
  <1>2. CASE AcceptFails \/ UNCHANGED vars
    BY <1>2 DEF AcceptFails, vars, EarlyInv, OnlyEarlyEndsStay, Current, mainVars,
                sharedVars, threadVars
  <1> QED  BY <1>1, <1>2, EarlyMain, EarlyPlayer DEF Next

\* Only a player whose thread had ended before the main thread inserted it
\* stays in m_players unserved.
THEOREM OnlyEarlyEndsStayAlways == Spec => []OnlyEarlyEndsStay
  <1>1. Init => EarlyInv
    BY DEF Init, EarlyInv, OnlyEarlyEndsStay
  <1>2. EarlyInv => OnlyEarlyEndsStay
    BY DEF EarlyInv
  <1> QED  BY <1>1, <1>2, EarlyStep, DeskTypeOK, PTL DEF Spec


-----------------------------------------------------------------------------
(* Who sits where.                                                         *)

\* Every player sits at one place at most, gone ones included.
OnePlace ==
    \A d, e \in DOMAIN m_deskInfo, s, t \in Seats :
        m_deskInfo[d][s] = m_deskInfo[e][t] /\ m_deskInfo[d][s] # NoPlayer
          => d = e /\ s = t

\* Those not accepted yet are nowhere; the newest has no thread before Spawn
\* and no seat before it is given one.
NewcomerInv ==
    /\ \A p \in Players : p > joined => thread[p] = "none" /\ p \notin m_players \cup locked
    /\ pc \notin {"accept", "insert"} => thread[Current] = "none"
    /\ \A d \in DOMAIN m_deskInfo, s \in Seats :
         /\ m_deskInfo[d][s] <= joined
         /\ pc \in {"look", "newDesk"} => m_deskInfo[d][s] # joined

SeatedInv ==
    \A p \in Players :
        HasSeat(p) /\ Held(p) => \E d \in DOMAIN m_deskInfo, s \in Seats : m_deskInfo[d][s] = p

\* The newest player has the third seat of a full desk, and what the deal has
\* done for it so far.
InDeal == pc \in {"ready", "desk", "cards"}

Served(d, p) ==
    /\ m_ready[p] /\ m_spDesk[p] = d /\ sendCards[d] > 0
    /\ m_cardsSent[p] => hands[p] > 0

DesksServed ==
    \A d \in DOMAIN m_deskInfo :
        m_deskInfo[d][3] # NoPlayer =>
          \/ InDeal /\ d = LastDesk
          \/ Served(d, m_deskInfo[d][3])

DealInv ==
    /\ \A p \in Players : thread[p] = "none" => ~ m_cardsSent[p]
    /\ InDeal => m_deskInfo[LastDesk][3] = Current
    /\ pc = "desk" => Sitting # NoPlayer /\ m_ready[Sitting]
    /\ pc = "cards" => m_ready[Current] /\ m_spDesk[Current] = LastDesk
    /\ DesksServed

SeatInv == OnePlace /\ NewcomerInv /\ SeatedInv

\* The steps that seat nobody and accept nobody.
LEMMA HeldBefore ==
  ASSUME TypeOK, MainInv, [Next]_vars, ~ Accept, NEW p \in Players, Held(p)'
  PROVE  Held(p)
  <1>t. thread \in [Players -> ThreadAt]
    BY DEF TypeOK, ThreadAt
  <1>1. CASE MainStep
    BY <1>1, <1>t, CurrentPlayer
       DEF MainStep, SeatTaken, TakeSeat, NewDesk, LockFails, SetReady, SetDesk,
           GenerateCards, Spawn, Insert, Held, Running, Current, sharedVars, threadVars
  <1>2. CASE \E q \in Players : PlayerStep(q)
    <2>1. PICK q \in Players : PlayerStep(q)
      BY <1>2
    <2>2. UNCHANGED <<pc, joined, locked>> /\ m_players' \subseteq m_players
      BY <2>1 DEF PlayerStep, Welcome, CheckReady, NoDeskYet, SendCards, SendCardsFails,
                  RecvNothing, RecvLines, RecvClosed, Forward, NoMoreLines, End, Goto,
                  mainVars, sharedVars
    <2>3. Running(p)' => Running(p)
      BY <2>1, <1>t
         DEF PlayerStep, Welcome, CheckReady, NoDeskYet, SendCards, SendCardsFails,
             RecvNothing, RecvLines, RecvClosed, Forward, NoMoreLines, End, Goto, Running
    <2> QED  BY <2>2, <2>3 DEF Held, Current
  <1>3. CASE \E q \in Players : Leave(q)
    BY <1>3 DEF Leave, Held, Running, Current, mainVars, sharedVars, threadVars
  <1>4. CASE AcceptFails \/ UNCHANGED vars
    BY <1>4 DEF AcceptFails, vars, Held, Running, Current, mainVars, sharedVars, threadVars
  <1> QED  BY <1>1, <1>2, <1>3, <1>4 DEF Next

LEMMA SameDesks ==
  ASSUME TypeOK, MainInv, [Next]_vars, ~ Accept, SeatInv,
         UNCHANGED <<m_deskInfo, joined>>,
         pc \in {"look", "newDesk"} <=> pc' \in {"look", "newDesk"}
  PROVE  OnePlace' /\ SeatedInv'
  <1>1. OnePlace'
    BY DEF SeatInv, OnePlace
  <1>2. \A p \in Players : HasSeat(p)' => HasSeat(p)
    BY DEF HasSeat
  <1> QED  BY <1>1, <1>2, HeldBefore DEF SeatInv, SeatedInv

LEMMA NewcomersStay ==
  ASSUME TypeOK, MainInv, NewcomerInv, [Next]_vars, ~ Accept,
         UNCHANGED <<m_deskInfo, joined>>,
         pc' \in {"look", "newDesk"} => pc \in {"look", "newDesk"}
  PROVE  NewcomerInv'
  <1>t. /\ thread \in [Players -> ThreadAt] /\ joined \in Nat
        /\ pc # "accept" => Current \in Players
    BY CurrentPlayer, DeskAssumption DEF TypeOK, ThreadAt, MainInv
  <1>d. \A d \in DOMAIN m_deskInfo', s \in Seats :
          /\ m_deskInfo'[d][s] <= joined'
          /\ pc' \in {"look", "newDesk"} => m_deskInfo'[d][s] # joined'
    BY DEF NewcomerInv
  <1>1. CASE MainStep /\ ~ Spawn
    <2>1. UNCHANGED thread /\ (pc' \notin {"accept", "insert"} => pc \notin {"accept", "insert"})
      BY <1>1 DEF MainStep, SeatTaken, TakeSeat, NewDesk, LockFails, SetReady, SetDesk,
                  GenerateCards, Insert, sharedVars, threadVars
    <2>2. pc' \notin {"accept", "insert"} => thread'[Current'] = "none"
      BY <2>1 DEF NewcomerInv, Current
    <2>3. \A p \in Players : p > joined => Expired(p)
      BY <1>t DEF NewcomerInv, Expired, Held, Running, Current
    <2>4. \A p \in Players : p > joined => p \notin m_players' \cup locked'
      BY <1>1, <1>t, <2>3 DEF MainStep, SeatTaken, TakeSeat, NewDesk, LockFails, SetReady,
         SetDesk, GenerateCards, Insert, sharedVars, Expired, NewcomerInv, Current
    <2> QED  BY <1>d, <2>1, <2>2, <2>4 DEF NewcomerInv
  <1>2. CASE Spawn
    <2>1. pc' = "insert" /\ UNCHANGED <<m_players, locked>>
          /\ \A p \in Players : p > joined => thread'[p] = thread[p]
      BY <1>2, <1>t DEF Spawn, sharedVars, Current
    <2> QED  BY <1>d, <2>1 DEF NewcomerInv
  <1>3. CASE \E q \in Players : PlayerStep(q)
    <2>1. PICK q \in Players : PlayerStep(q)
      BY <1>3
    <2>2. UNCHANGED <<pc, locked>> /\ m_players' \subseteq m_players
      BY <2>1 DEF PlayerStep, Welcome, CheckReady, NoDeskYet, SendCards, SendCardsFails,
                  RecvNothing, RecvLines, RecvClosed, Forward, NoMoreLines, End, Goto,
                  mainVars, sharedVars
    <2>3. \A p \in Players : thread[p] = "none" => thread'[p] = "none"
      BY <2>1, <1>t
         DEF PlayerStep, Welcome, CheckReady, NoDeskYet, SendCards, SendCardsFails,
             RecvNothing, RecvLines, RecvClosed, Forward, NoMoreLines, End, Goto
    <2> QED  BY <1>d, <1>t, <2>2, <2>3 DEF NewcomerInv, Current
  <1>4. CASE \E q \in Players : Leave(q)
    BY <1>4, <1>d DEF Leave, NewcomerInv, Current, mainVars, sharedVars, threadVars
  <1>5. CASE AcceptFails \/ UNCHANGED vars
    BY <1>5, <1>d DEF AcceptFails, vars, NewcomerInv, Current, mainVars, sharedVars, threadVars
  <1> QED  BY <1>1, <1>2, <1>3, <1>4, <1>5 DEF Next

LEMMA SeatAccept == ASSUME TypeOK, MainInv, SeatInv, Accept PROVE SeatInv'
  <1>1. /\ pc = "accept" /\ joined' = joined + 1 /\ pc' \in {"newDesk", "look"}
        /\ UNCHANGED <<m_deskInfo, m_players, locked, thread>> /\ joined \in Nat
        /\ joined + 1 \in Players
    BY DeskAssumption DEF Accept, sharedVars, threadVars, TypeOK, Players
  <1>2. OnePlace'
    BY <1>1 DEF SeatInv, OnePlace
  <1>3. \A d \in DOMAIN m_deskInfo, s \in Seats : m_deskInfo[d][s] \in Int
    <2>1. m_deskInfo \in Seq([Seats -> Players \cup {NoPlayer}])
      BY DEF TypeOK
    <2>2. \A d \in DOMAIN m_deskInfo : m_deskInfo[d] \in [Seats -> Players \cup {NoPlayer}]
      BY <2>1
    <2> QED  BY <2>2 DEF Players, NoPlayer
  <1>4. NewcomerInv'
    BY <1>1, <1>3 DEF SeatInv, NewcomerInv, Current, Players
  <1>5. \A p \in Players : HasSeat(p)' /\ Held(p)' => HasSeat(p) /\ Held(p)
    BY <1>1 DEF HasSeat, Held, Running, Current, Players
  <1>6. SeatedInv'
    BY <1>1, <1>5 DEF SeatInv, SeatedInv
  <1> QED  BY <1>2, <1>4, <1>6 DEF SeatInv


LEMMA SeatTakeSeat == ASSUME TypeOK, MainInv, SeatInv, TakeSeat PROVE SeatInv'
  <1>1. /\ pc = "look" /\ m_deskInfo # << >> /\ Expired(Sitting) /\ joined > 0
        /\ seat \in Seats /\ pc' \in {"ready", "spawn"}
        /\ UNCHANGED <<joined, m_players, locked, thread>>
    BY DEF TakeSeat, MainInv, TypeOK, sharedVars, threadVars
  <1>2. /\ LastDesk \in 1 .. Len(m_deskInfo) /\ DOMAIN m_deskInfo = 1 .. Len(m_deskInfo)
        /\ Current \in Players /\ Current = joined /\ Current # NoPlayer /\ joined \in Nat
    BY <1>1, LastDeskIs, CurrentPlayer DEF TypeOK, Current, NoPlayer, Players
  <1>3. \A d \in DOMAIN m_deskInfo : m_deskInfo[d] \in [Seats -> Players \cup {NoPlayer}]
    BY DEF TypeOK
  <1>4. /\ DOMAIN m_deskInfo' = DOMAIN m_deskInfo
        /\ \A d \in DOMAIN m_deskInfo, s \in Seats :
             m_deskInfo'[d][s] = IF d = LastDesk /\ s = seat THEN Current
                                 ELSE m_deskInfo[d][s]
    BY <1>1, <1>2, <1>3 DEF TakeSeat
  <1>5. \A d \in DOMAIN m_deskInfo, s \in Seats : m_deskInfo[d][s] # Current
    BY <1>1, <1>2 DEF SeatInv, NewcomerInv
  <1>6. OnePlace'
    BY <1>4, <1>5 DEF SeatInv, OnePlace
  <1>7. NewcomerInv'
    <2>1. \A d \in DOMAIN m_deskInfo, s \in Seats : m_deskInfo'[d][s] <= joined
      BY <1>1, <1>2, <1>4 DEF SeatInv, NewcomerInv
    <2> QED  BY <1>1, <1>2, <1>4, <2>1 DEF SeatInv, NewcomerInv, Current
  <1>8. ASSUME NEW p \in Players, HasSeat(p)', Held(p)'
        PROVE  \E d \in DOMAIN m_deskInfo', s \in Seats : m_deskInfo'[d][s] = p
    <2>1. CASE p = Current
      BY <1>1, <1>2, <1>4, <2>1
    <2>2. CASE p # Current
      <3>1. HasSeat(p) /\ Held(p)
        BY <1>1, <1>2, <1>8, <2>2 DEF HasSeat, Held, Running, Current
      <3>2. PICK d \in DOMAIN m_deskInfo, s \in Seats : m_deskInfo[d][s] = p
        BY <3>1 DEF SeatInv, SeatedInv
      <3>3. ~ (d = LastDesk /\ s = seat)
        BY <1>1, <3>1, <3>2 DEF Sitting, Expired
      <3> QED  BY <1>4, <3>2, <3>3
    <2> QED  BY <2>1, <2>2
  <1> QED  BY <1>6, <1>7, <1>8 DEF SeatInv, SeatedInv

LEMMA SeatNewDesk == ASSUME TypeOK, MainInv, SeatInv, NewDesk PROVE SeatInv'
  <1> DEFINE n == Len(m_deskInfo) + 1
  <1>1. /\ pc = "newDesk" /\ joined > 0 /\ pc' = "spawn"
        /\ UNCHANGED <<joined, m_players, locked, thread>>
    BY DEF NewDesk, MainInv, threadVars
  <1>2. /\ DOMAIN m_deskInfo = 1 .. Len(m_deskInfo) /\ Len(m_deskInfo) \in Nat
        /\ Current \in Players /\ Current = joined /\ Current # NoPlayer /\ joined \in Nat
    BY <1>1, CurrentPlayer DEF TypeOK, Current, NoPlayer, Players
  <1>3. \A d \in DOMAIN m_deskInfo : m_deskInfo[d] \in [Seats -> Players \cup {NoPlayer}]
    BY DEF TypeOK
  <1>4. /\ DOMAIN m_deskInfo' = 1 .. n
        /\ \A d \in DOMAIN m_deskInfo, s \in Seats : m_deskInfo'[d][s] = m_deskInfo[d][s]
        /\ \A s \in Seats : m_deskInfo'[n][s] = IF s = 1 THEN Current ELSE NoPlayer
    BY <1>2 DEF NewDesk, TypeOK
  <1>5. \A d \in 1 .. n : d \in DOMAIN m_deskInfo \/ d = n
    BY <1>2
  <1>6. \A d \in DOMAIN m_deskInfo, s \in Seats : m_deskInfo[d][s] # Current
    BY <1>1, <1>2 DEF SeatInv, NewcomerInv
  <1>7. OnePlace'
    BY <1>4, <1>5, <1>6 DEF SeatInv, OnePlace
  <1>8. NewcomerInv'
    <2>1. \A d \in 1 .. n, s \in Seats : m_deskInfo'[d][s] <= joined
      BY <1>1, <1>2, <1>4, <1>5 DEF SeatInv, NewcomerInv, NoPlayer
    <2> QED  BY <1>1, <1>4, <2>1 DEF SeatInv, NewcomerInv, Current
  <1>9. ASSUME NEW p \in Players, HasSeat(p)', Held(p)'
        PROVE  \E d \in DOMAIN m_deskInfo', s \in Seats : m_deskInfo'[d][s] = p
    <2>1. CASE p = Current
      <3>1. 1 \in Seats /\ n \in 1 .. n
        BY <1>2 DEF Seats
      <3> QED  BY <1>4, <2>1, <3>1
    <2>2. CASE p # Current
      <3>1. HasSeat(p) /\ Held(p)
        BY <1>1, <1>2, <1>9, <2>2 DEF HasSeat, Held, Running, Current
      <3>2. PICK d \in DOMAIN m_deskInfo, s \in Seats : m_deskInfo[d][s] = p
        BY <3>1 DEF SeatInv, SeatedInv
      <3> QED  BY <1>2, <1>4, <3>2
    <2> QED  BY <2>1, <2>2
  <1> QED  BY <1>7, <1>8, <1>9 DEF SeatInv, SeatedInv

LEMMA SeatStep == ASSUME TypeOK, MainInv, SeatInv, [Next]_vars PROVE SeatInv'
  <1>1. CASE ~ Accept /\ ~ TakeSeat /\ ~ NewDesk
    <2>1. /\ UNCHANGED <<m_deskInfo, joined>>
          /\ pc \in {"look", "newDesk"} <=> pc' \in {"look", "newDesk"}
      BY <1>1 DEF Next, MainStep, SeatTaken, LockFails, SetReady, SetDesk, GenerateCards,
         Spawn, Insert, PlayerStep, Welcome, CheckReady, NoDeskYet, SendCards,
         SendCardsFails, RecvNothing, RecvLines, RecvClosed, Forward, NoMoreLines, End,
         Goto, Leave, AcceptFails, mainVars, vars
    <2> QED  BY <1>1, <2>1, SameDesks, NewcomersStay DEF SeatInv
  <1> QED  BY <1>1, SeatAccept, SeatTakeSeat, SeatNewDesk

LEMMA InitSeat == Init => SeatInv
  BY DEF Init, SeatInv, OnePlace, NewcomerInv, SeatedInv, Held, Running, Current

\* Nobody is put on the seat of a player who is still there.
THEOREM LivePlayersKeepSeatsAlways == Spec => []LivePlayersKeepSeats
  <1>1. TypeOK /\ SeatInv => LivePlayersKeepSeats
    <2> SUFFICES ASSUME TypeOK, SeatInv, NEW p \in Players, HasSeat(p), Held(p)
                 PROVE  \E d \in DOMAIN m_deskInfo, s \in Seats :
                          /\ m_deskInfo[d][s] = p
                          /\ \A e \in DOMAIN m_deskInfo, t \in Seats :
                               m_deskInfo[e][t] = p => e = d /\ t = s
      BY DEF LivePlayersKeepSeats
    <2>1. PICK d \in DOMAIN m_deskInfo, s \in Seats : m_deskInfo[d][s] = p
      BY DEF SeatInv, SeatedInv
    <2>2. p # NoPlayer
      BY DEF Held
    <2> QED  BY <2>1, <2>2 DEF SeatInv, OnePlace
  <1> QED  BY <1>1, InitSeat, SeatStep, DeskTypeOK, PTL DEF Spec


-----------------------------------------------------------------------------
(* The deal.                                                               *)

LEMMA DealAccept == ASSUME TypeOK, DealInv, Accept PROVE DealInv'
  BY DEF Accept, DealInv, DesksServed, InDeal, Served, sharedVars, threadVars

LEMMA DealSeatTaken == ASSUME TypeOK, DealInv, SeatTaken PROVE DealInv'
  BY DEF SeatTaken, DealInv, DesksServed, InDeal, Served, sharedVars, threadVars

LEMMA DealTakeSeat == ASSUME TypeOK, MainInv, DealInv, TakeSeat PROVE DealInv'
  <1>1. /\ pc = "look" /\ m_deskInfo # << >> /\ pc' \in {"ready", "spawn"}
        /\ (pc' = "ready" <=> seat = 3) /\ seat \in Seats /\ 3 \in Seats
        /\ UNCHANGED <<joined, sendCards, m_ready, m_spDesk, thread, m_cardsSent, hands>>
    BY DEF TakeSeat, MainInv, sharedVars, threadVars, TypeOK, Seats
  <1>2. LastDesk \in DOMAIN m_deskInfo
    BY <1>1, LastDeskIs DEF TypeOK
  <1>3. \A d \in DOMAIN m_deskInfo : m_deskInfo[d] \in [Seats -> Players \cup {NoPlayer}]
    BY DEF TypeOK
  <1>4. /\ DOMAIN m_deskInfo' = DOMAIN m_deskInfo /\ LastDesk' = LastDesk
        /\ \A d \in DOMAIN m_deskInfo :
             m_deskInfo'[d][3] = IF d = LastDesk /\ seat = 3 THEN Current
                                 ELSE m_deskInfo[d][3]
    BY <1>1, <1>2, <1>3 DEF TakeSeat, TypeOK, LastDesk
  <1> QED  BY <1>1, <1>2, <1>4 DEF DealInv, DesksServed, InDeal, Served, Current

LEMMA DealNewDesk == ASSUME TypeOK, MainInv, SeatInv, DealInv, NewDesk PROVE DealInv'
  <1> DEFINE n == Len(m_deskInfo) + 1
  <1>1. /\ pc = "newDesk" /\ joined > 0 /\ pc' = "spawn" /\ 3 \in Seats
        /\ UNCHANGED <<joined, m_ready, thread, m_cardsSent, hands>>
        /\ m_spDesk' = [m_spDesk EXCEPT ![Current] = LastDesk + 1]
        /\ m_spDesk \in [Players -> NoDesk .. Len(m_deskInfo)]
    BY DEF NewDesk, MainInv, threadVars, TypeOK, Seats
  <1>2. /\ DOMAIN m_deskInfo' = 1 .. n /\ m_deskInfo'[n][3] = NoPlayer
        /\ \A d \in 1 .. n : d \in DOMAIN m_deskInfo \/ d = n
        /\ \A d \in DOMAIN m_deskInfo : m_deskInfo'[d][3] = m_deskInfo[d][3]
                                      /\ sendCards'[d] = sendCards[d]
    BY <1>1 DEF NewDesk, TypeOK
  <1>3. \A d \in DOMAIN m_deskInfo :
          m_deskInfo[d] \in [Seats -> Players \cup {NoPlayer}]
          /\ m_deskInfo[d][3] # Current
    BY <1>1 DEF SeatInv, NewcomerInv, Current, TypeOK
  <1>4. \A d \in DOMAIN m_deskInfo :
          m_deskInfo[d][3] # NoPlayer => Served(d, m_deskInfo[d][3])'
    <2> SUFFICES ASSUME NEW d \in DOMAIN m_deskInfo, m_deskInfo[d][3] # NoPlayer
                 PROVE  Served(d, m_deskInfo[d][3])'
      OBVIOUS
    <2>1. Served(d, m_deskInfo[d][3])
      BY <1>1 DEF DealInv, DesksServed, InDeal
    <2>2. m_deskInfo[d][3] \in Players /\ m_deskInfo[d][3] # Current
      BY <1>1, <1>3
    <2>3. m_spDesk'[m_deskInfo[d][3]] = m_spDesk[m_deskInfo[d][3]]
      BY <1>1, <2>2
    <2>4. UNCHANGED <<m_ready, m_cardsSent, hands>> /\ m_deskInfo'[d][3] = m_deskInfo[d][3]
          /\ sendCards'[d] = sendCards[d]
      BY <1>1, <1>2
    <2> QED  BY <2>1, <2>3, <2>4 DEF Served
  <1> QED  BY <1>1, <1>2, <1>4 DEF DealInv, DesksServed, InDeal, Served

\* The newest player is there, so its seat is not passed over.
LEMMA DealLockFails ==
  ASSUME TypeOK, MainInv, DealInv, LockFails PROVE DealInv'
  <1>1. /\ pc = "ready" /\ Expired(Sitting) /\ Current \in Players
        /\ m_deskInfo[LastDesk][3] = Current
    BY CurrentPlayer DEF LockFails, MainInv, DealInv, DesksServed, InDeal
  <1>2. Held(Current)
    BY <1>1 DEF Held, Players, NoPlayer
  <1>3. seat # 3
    BY <1>1, <1>2 DEF Sitting, Expired
  <1>4. pc' = "ready" /\ UNCHANGED <<joined, m_deskInfo, sendCards, sharedVars, threadVars>>
    BY <1>3 DEF LockFails
  <1> QED  BY <1>1, <1>4
           DEF DealInv, DesksServed, InDeal, Served, Current, LastDesk, sharedVars, threadVars

LEMMA DealSetReady == ASSUME TypeOK, MainInv, DealInv, SetReady PROVE DealInv'
  <1>1. /\ pc = "ready" /\ pc' = "desk" /\ Held(Sitting) /\ m_deskInfo # << >>
        /\ UNCHANGED <<joined, seat, m_deskInfo, sendCards, m_spDesk, threadVars>>
        /\ m_ready' = [m_ready EXCEPT ![Sitting] = TRUE]
    BY DEF SetReady, MainInv
  <1>2. Sitting \in Players /\ Sitting # NoPlayer
    BY <1>1, LastDeskIs DEF Held
  <1>3. m_ready'[Sitting] /\ \A p \in Players : m_ready[p] => m_ready'[p]
    BY <1>1, <1>2, Zenon DEF TypeOK
  <1>4. \A d \in DOMAIN m_deskInfo : m_deskInfo[d][3] \in Players \cup {NoPlayer}
    BY DEF TypeOK, Seats
  <1>5. DesksServed'
    BY <1>1, <1>3, <1>4
       DEF DesksServed, DealInv, InDeal, Served, LastDesk, threadVars
  <1>6. \A p \in Players : thread'[p] = "none" => ~ m_cardsSent'[p]
    BY <1>1 DEF DealInv, DesksServed, threadVars
  <1>7. m_deskInfo'[LastDesk'][3] = Current'
    BY <1>1 DEF DealInv, DesksServed, InDeal, LastDesk, Current
  <1>8. Sitting' # NoPlayer /\ m_ready'[Sitting']
    BY <1>1, <1>2, <1>3 DEF Sitting, LastDesk
  <1> QED  BY <1>1, <1>5, <1>6, <1>7, <1>8 DEF DealInv, DesksServed

LEMMA DealSetDesk == ASSUME TypeOK, MainInv, SeatInv, DealInv, SetDesk PROVE DealInv'
  <1>1. /\ pc = "desk" /\ pc' = (IF seat = 3 THEN "cards" ELSE "ready")
        /\ m_deskInfo # << >> /\ Sitting # NoPlayer /\ m_ready[Sitting]
        /\ UNCHANGED <<joined, m_deskInfo, sendCards, m_ready, threadVars>>
        /\ m_spDesk' = [m_spDesk EXCEPT ![Sitting] = LastDesk]
    BY DEF SetDesk, MainInv, DealInv, DesksServed
  <1>2. Sitting \in Players /\ LastDesk \in DOMAIN m_deskInfo /\ seat \in Seats
        /\ 3 \in Seats
    BY <1>1, LastDeskIs DEF TypeOK, Seats
  <1>3. \A p \in Players : m_spDesk'[p] = IF p = Sitting THEN LastDesk ELSE m_spDesk[p]
    BY <1>1 DEF TypeOK
  <1>4. \A d \in DOMAIN m_deskInfo : m_deskInfo[d][3] \in Players \cup {NoPlayer}
    BY DEF TypeOK, Seats
  <1>5. \A d \in DOMAIN m_deskInfo : m_deskInfo[d][3] = Sitting => d = LastDesk
    BY <1>1, <1>2 DEF SeatInv, OnePlace, Sitting
  <1>6. DesksServed'
    BY <1>1, <1>3, <1>4, <1>5
       DEF DesksServed, DealInv, InDeal, Served, LastDesk, threadVars
  <1>7. m_deskInfo[LastDesk][3] = Current
    BY <1>1 DEF DealInv, DesksServed, InDeal
  <1>8. seat = 3 => m_ready[Current] /\ m_spDesk'[Current] = LastDesk
    BY <1>1, <1>2, <1>3, <1>7 DEF Sitting
  <1>9. \A p \in Players : thread'[p] = "none" => ~ m_cardsSent'[p]
    BY <1>1 DEF DealInv, DesksServed, threadVars
  <1> QED  BY <1>1, <1>6, <1>7, <1>8, <1>9 DEF DealInv, DesksServed, InDeal, Current, LastDesk

LEMMA DealGenerateCards ==
  ASSUME TypeOK, MainInv, SeatInv, DealInv, GenerateCards PROVE DealInv'
  <1>1. /\ pc = "cards" /\ pc' = "spawn" /\ m_deskInfo # << >> /\ Current \in Players
        /\ m_ready[Current] /\ m_spDesk[Current] = LastDesk
        /\ m_deskInfo[LastDesk][3] = Current /\ thread[Current] = "none"
        /\ UNCHANGED <<joined, m_deskInfo, sharedVars, threadVars>>
    BY CurrentPlayer
       DEF GenerateCards, MainInv, DealInv, DesksServed, InDeal, SeatInv, NewcomerInv
  <1>2. ~ m_cardsSent[Current]
    BY <1>1 DEF DealInv, DesksServed
  <1>3. \A d \in DOMAIN m_deskInfo : sendCards'[d] = sendCards[d] + (IF d = LastDesk THEN 1 ELSE 0)
                                   /\ sendCards[d] \in Nat
    BY LastDeskIs, <1>1 DEF GenerateCards, TypeOK
  <1>4. DesksServed'
    <2> SUFFICES ASSUME NEW d \in DOMAIN m_deskInfo, m_deskInfo[d][3] # NoPlayer
                 PROVE  Served(d, m_deskInfo[d][3])'
      BY <1>1 DEF DesksServed
    <2>1. sendCards[d] > 0 => sendCards'[d] > 0
      BY <1>3
    <2>2. sendCards'[LastDesk] > 0
      <3>1. LastDesk \in DOMAIN m_deskInfo
        BY <1>1, LastDeskIs, SMTT(40) DEF TypeOK
      <3> QED  BY <1>3, <3>1
    <2>3. CASE d = LastDesk
      BY <1>1, <1>2, <2>2, <2>3 DEF Served, sharedVars, threadVars
    <2>4. CASE d # LastDesk
      BY <1>1, <2>1, <2>4 DEF DealInv, DesksServed, InDeal, Served, sharedVars, threadVars
    <2> QED  BY <2>3, <2>4
  <1> QED  BY <1>1, <1>4 DEF DealInv, DesksServed, InDeal, threadVars

LEMMA DealSpawn == ASSUME TypeOK, DealInv, Spawn PROVE DealInv'
  <1>1. \A p \in Players : thread'[p] = "none" => thread[p] = "none"
    BY DEF Spawn, TypeOK
  <1>2. /\ pc = "spawn" /\ pc' = "insert"
        /\ UNCHANGED <<joined, m_deskInfo, sendCards, m_ready, m_spDesk, m_cardsSent, hands>>
    BY DEF Spawn, sharedVars
  <1> QED  BY <1>1, <1>2 DEF DealInv, DesksServed, InDeal, Served

LEMMA DealInsert == ASSUME TypeOK, DealInv, Insert PROVE DealInv'
  BY DEF Insert, DealInv, DesksServed, InDeal, Served, threadVars

LEMMA DealPlayer ==
  ASSUME TypeOK, DealInv, NEW q \in Players, PlayerStep(q) PROVE DealInv'
  <1>t. thread \in [Players -> ThreadAt] /\ m_cardsSent \in [Players -> BOOLEAN]
        /\ hands \in [Players -> Nat]
    BY DEF TypeOK, ThreadAt
  <1>1. UNCHANGED <<pc, joined, seat, m_deskInfo, sendCards, m_ready, m_spDesk>>
    BY DEF PlayerStep, Welcome, CheckReady, NoDeskYet, SendCards, SendCardsFails,
           RecvNothing, RecvLines, RecvClosed, Forward, NoMoreLines, End, Goto,
           mainVars, sharedVars
  <1>2. \A p \in Players : thread'[p] = "none" => thread[p] = "none" /\ p # q
    BY <1>t DEF PlayerStep, Welcome, CheckReady, NoDeskYet, SendCards, SendCardsFails,
           RecvNothing, RecvLines, RecvClosed, Forward, NoMoreLines, End, Goto
  <1>3. \A p \in Players : p # q => m_cardsSent'[p] = m_cardsSent[p] /\ hands'[p] = hands[p]
    BY <1>t DEF PlayerStep, Welcome, CheckReady, NoDeskYet, SendCards, SendCardsFails,
           RecvNothing, RecvLines, RecvClosed, Forward, NoMoreLines, End
  <1>4. \/ m_cardsSent'[q] = m_cardsSent[q] /\ hands'[q] = hands[q]
        \/ hands'[q] = sendCards[m_spDesk[q]]
    BY <1>t DEF PlayerStep, Welcome, CheckReady, NoDeskYet, SendCards, SendCardsFails,
           RecvNothing, RecvLines, RecvClosed, Forward, NoMoreLines, End
  <1>5. \A p \in Players : thread'[p] = "none" => ~ m_cardsSent'[p]
    BY <1>2, <1>3, Zenon DEF DealInv, DesksServed
  <1>6. \A d \in DOMAIN m_deskInfo : m_deskInfo[d][3] \in Players \cup {NoPlayer}
    BY DEF TypeOK, Seats
  <1>7. ASSUME NEW d, NEW p \in Players, Served(d, p)
        PROVE  m_ready'[p] /\ m_spDesk'[p] = d /\ sendCards'[d] > 0
               /\ (m_cardsSent'[p] => hands'[p] > 0)
    <2>1. m_ready'[p] /\ m_spDesk'[p] = d /\ sendCards'[d] > 0
      BY <1>1, <1>7 DEF Served
    <2>2. CASE p # q
      BY <1>3, <1>7, <2>1, <2>2 DEF Served
    <2>3. CASE p = q
      BY <1>1, <1>4, <1>7, <2>1, <2>3 DEF Served
    <2> QED  BY <2>1, <2>2, <2>3
  <1>8. DesksServed'
    BY <1>1, <1>6, <1>7 DEF DealInv, DesksServed, InDeal, Served, LastDesk
  <1> QED  BY <1>1, <1>5, <1>8, Zenon
           DEF DealInv, DesksServed, InDeal, LastDesk, Current, Sitting

LEMMA DealStep ==
  ASSUME TypeOK, MainInv, SeatInv, DealInv, [Next]_vars PROVE DealInv'
  <1>1. CASE \E p \in Players : Leave(p)
    BY <1>1 DEF Leave, DealInv, DesksServed, InDeal, Served, Sitting, LastDesk, Current, mainVars,
                sharedVars, threadVars
  <1>2. CASE AcceptFails \/ UNCHANGED vars
    BY <1>2 DEF AcceptFails, vars, DealInv, DesksServed, InDeal, Served, Sitting, LastDesk,
                Current, mainVars, sharedVars, threadVars
  <1> QED  BY <1>1, <1>2, DealAccept, DealSeatTaken, DealTakeSeat, DealNewDesk,
              DealLockFails, DealSetReady, DealSetDesk, DealGenerateCards, DealSpawn,
              DealInsert, DealPlayer DEF Next, MainStep

\* The player who fills a desk finds cards to be sent from its first step on.
THEOREM LastPlayerHasCardsAlways == Spec => []LastPlayerHasCards
  <1>1. Init => DealInv
    BY DEF Init, DealInv, DesksServed, InDeal
  <1>2. TypeOK /\ MainInv /\ SeatInv /\ DealInv => LastPlayerHasCards
    <2> SUFFICES ASSUME TypeOK, MainInv, SeatInv, DealInv, NEW d \in DOMAIN m_deskInfo,
                        m_deskInfo[d][3] # NoPlayer, thread[m_deskInfo[d][3]] # "none"
                 PROVE  Served(d, m_deskInfo[d][3])
      BY Zenon DEF LastPlayerHasCards, Served
    <2>1. InDeal /\ d = LastDesk => thread[m_deskInfo[d][3]] = "none"
      BY DEF DealInv, DesksServed, InDeal, SeatInv, NewcomerInv
    <2> QED  BY <2>1 DEF DealInv, DesksServed
  <1> QED  BY <1>1, <1>2, InitSeat, SeatStep, DealStep, DeskTypeOK, PTL DEF Spec


-----------------------------------------------------------------------------
(* DeskServer implements ThreeSeats.                                       *)

Came == {p \in Players : HasSeat(p)}
Gone == {p \in Players : HasSeat(p) /\ Expired(p)}

\* Who has been given a seat, and gone, does not come back.
LEMMA GoneStay ==
  ASSUME TypeOK, MainInv, [Next]_vars, ~ TakeSeat, ~ NewDesk
  PROVE  Came' = Came /\ Gone \subseteq Gone'
  <1>t. joined \in Nat /\ \A p \in Players : p \in Nat
    BY DeskAssumption DEF TypeOK, Players
  <1>1. CASE Accept
    <2>1. /\ pc = "accept" /\ pc' \in {"look", "newDesk"} /\ joined' = joined + 1
          /\ UNCHANGED <<m_players, locked, thread>>
      BY <1>1 DEF Accept, sharedVars, threadVars
    <2>2. \A p \in Players : HasSeat(p)' <=> HasSeat(p)
      BY <1>t, <2>1 DEF HasSeat
    <2>3. \A p \in Players : HasSeat(p) /\ Held(p)' => Held(p)
      BY <1>t, <2>1 DEF HasSeat, Held, Running, Current
    <2> QED  BY <2>2, <2>3 DEF Came, Gone, Expired
  <1>2. CASE ~ Accept
    <2>1. /\ UNCHANGED joined
          /\ pc \in {"look", "newDesk"} <=> pc' \in {"look", "newDesk"}
      BY <1>2 DEF Next, MainStep, SeatTaken, LockFails, SetReady, SetDesk, GenerateCards,
         Spawn, Insert, PlayerStep, Welcome, CheckReady, NoDeskYet, SendCards,
         SendCardsFails, RecvNothing, RecvLines, RecvClosed, Forward, NoMoreLines, End,
         Goto, Leave, AcceptFails, mainVars, vars
    <2>2. \A p \in Players : HasSeat(p)' <=> HasSeat(p)
      BY <2>1 DEF HasSeat
    <2>3. \A p \in Players : Held(p)' => Held(p)
      BY <1>2, HeldBefore
    <2> QED  BY <2>2, <2>3 DEF Came, Gone, Expired
  <1> QED  BY <1>1, <1>2

\* The newcomer has its first seat after TakeSeat and NewDesk, which nobody
\* leaves by.
LEMMA NewcomerComes ==
  ASSUME TypeOK, MainInv, TakeSeat \/ NewDesk
  PROVE  /\ Current \in Players /\ Current \notin Came
         /\ Came' = Came \cup {Current} /\ Gone' = Gone
  <1>1. /\ pc \in {"look", "newDesk"} /\ pc' \in {"ready", "spawn"} /\ joined > 0
        /\ UNCHANGED <<joined, m_players, locked, thread>>
    BY DEF TakeSeat, NewDesk, MainInv, sharedVars, threadVars
  <1>2. /\ Current \in Players /\ Current = joined
        /\ joined \in Nat /\ \A p \in Players : p \in Nat
    BY <1>1, CurrentPlayer, DeskAssumption DEF TypeOK, Players, Current
  <1>3. \A p \in Players : HasSeat(p)' <=> HasSeat(p) \/ p = Current
    BY <1>1, <1>2 DEF HasSeat
  <1>4. \A p \in Players : p = Current => ~ HasSeat(p) /\ Held(p)'
    BY <1>1, <1>2 DEF HasSeat, Held, Current, NoPlayer
  <1>5. \A p \in Players : Held(p)' <=> Held(p)
    BY <1>1, <1>2 DEF Held, Running, Current, NoPlayer
  <1>6. Came' = Came \cup {Current} /\ Current \notin Came
    BY <1>2, <1>3, <1>4 DEF Came
  <1>7. \A p \in Players : HasSeat(p)' /\ Expired(p)' <=> HasSeat(p) /\ Expired(p)
    <2> TAKE p \in Players
    <2>1. CASE p = Current
      BY <1>4, <2>1, Zenon DEF Expired
    <2>2. CASE p # Current
      BY <1>3, <1>5, <2>2, Zenon DEF Expired
    <2> QED  BY <2>1, <2>2
  <1>8. Gone' = Gone
    BY <1>7, Zenon DEF Gone
  <1> QED  BY <1>2, <1>6, <1>8

LEMMA StepSeats ==
  ASSUME TypeOK, MainInv, SeatInv, [Next]_vars
  PROVE  [Desks!Next]_(Desks!vars)
  <1> SUFFICES Desks!Next \/ UNCHANGED <<m_deskInfo, Came, Gone>>
    BY DEF Desks!vars, Came, Gone
  <1>1. CASE TakeSeat
    <2>1. /\ pc = "look" /\ m_deskInfo # << >> /\ Expired(Sitting) /\ seat \in Seats
          /\ m_deskInfo' = [m_deskInfo EXCEPT ![LastDesk][seat] = Current]
      BY <1>1 DEF TakeSeat, MainInv, TypeOK
    <2>2. Current \in Players /\ Desks!Comes(Current)
      BY <1>1, NewcomerComes DEF Desks!Comes, Came, Gone
    <2>3. Sitting \in Gone \cup {NoPlayer}
      <3>1. LastDesk \in DOMAIN m_deskInfo /\ Sitting \in Players \cup {NoPlayer}
        BY <2>1, LastDeskIs DEF TypeOK
      <3>2. Sitting <= joined /\ Sitting # joined
        BY <2>1, <3>1 DEF SeatInv, NewcomerInv, Sitting
      <3>3. Sitting \in Players => HasSeat(Sitting)
        BY <3>2, DeskAssumption DEF HasSeat, TypeOK, Players
      <3> QED  BY <2>1, <3>1, <3>3 DEF Gone
    <2>4. Desks!Sit(Current, seat)
      BY <2>1, <2>2, <2>3 DEF Desks!Sit, Desks!Newest, Sitting, LastDesk, Gone
    <2> QED  BY <2>1, <2>2, <2>4 DEF Desks!Next, Desks!Seats, Seats
  <1>2. CASE NewDesk
    <2>1. m_deskInfo' = Append(m_deskInfo, [s \in Seats |-> IF s = 1 THEN Current
                                                           ELSE NoPlayer])
      BY <1>2 DEF NewDesk
    <2>2. Current \in Players /\ Desks!Comes(Current)
      BY <1>2, NewcomerComes DEF Desks!Comes, Came, Gone
    <2> QED  BY <2>1, <2>2 DEF Desks!Next, Desks!Open, Desks!Seats, Seats
  <1>3. CASE ~ TakeSeat /\ ~ NewDesk
    <2>1. Came' = Came /\ Gone \subseteq Gone' /\ Gone' \subseteq Came'
      BY <1>3, GoneStay DEF Came, Gone
    <2>2. UNCHANGED m_deskInfo
      BY <1>3 DEF Next, MainStep, Accept, SeatTaken, LockFails, SetReady, SetDesk,
         GenerateCards, Spawn, Insert, PlayerStep, Welcome, CheckReady, NoDeskYet,
         SendCards, SendCardsFails, RecvNothing, RecvLines, RecvClosed, Forward,
         NoMoreLines, End, Goto, Leave, AcceptFails, mainVars, vars
    <2> QED  BY <2>1, <2>2 DEF Desks!Next, Desks!Leave, Came, Gone
  <1> QED  BY <1>1, <1>2, <1>3

\* However players come and go while newPlayerJoined looks for a seat, desks
\* are filled as ThreeSeats has it, for any number of them.
THEOREM DeskServerImplementsThreeSeats == Spec => ImplementsThreeSeats
  <1>1. Init => Desks!Init
    <2> SUFFICES ASSUME Init PROVE Came = {} /\ Gone = {} /\ m_deskInfo = << >>
      BY DEF Desks!Init, Came, Gone
    <2>1. \A p \in Players : ~ HasSeat(p)
      BY DeskAssumption DEF Init, HasSeat, Players
    <2> QED  BY <2>1 DEF Init, Came, Gone
  <1>2. TypeOK /\ MainInv /\ SeatInv /\ [Next]_vars => [Desks!Next]_(Desks!vars)
    BY StepSeats
  <1> QED  BY <1>1, <1>2, InitSeat, SeatStep, DeskTypeOK, PTL
           DEF Spec, ImplementsThreeSeats, Desks!Spec
=============================================================================
