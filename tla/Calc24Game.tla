------------------------------ MODULE Calc24Game ------------------------------
(***************************************************************************)
(* The game layer of Calc24v2: Calc24Server and Calc24Session.             *)
(*                                                                         *)
(* One base thread accepts connections and, from a one second timer, deals *)
(* cards to every session that is READY.  NumLoops worker threads handle   *)
(* the lines of the sessions assigned to them.  The threads share          *)
(* m_sessions, a plain unordered_map without a lock, and the atomics       *)
(* m_status and m_deskID of every session.  A step of this module is one   *)
(* access to that shared state; a thread's position inside a handler is    *)
(* its frame (base, worker[l]).                                            *)
(*                                                                         *)
(* A range-for over m_sessions visits the elements in any order.  Changing *)
(* the map during somebody's loop is a data race: such a loop is "torn",   *)
(* it may end early, and an insertion (which may rehash) may make it visit *)
(* again what it has already seen.  The outcome "the process dies" is a    *)
(* behaviour that stops, which every safety property covers already.       *)
(***************************************************************************)
EXTENDS Naturals, FiniteSets

CONSTANTS
    Sessions,   \* the clients that ever connect, one session object each
    Nobody,     \* no session: the empty cursor of a loop
    NumLoops,   \* threadNum: the worker loops of the thread pool
    MaxDesks,   \* bound: desks opened in one behaviour
    Leavers,    \* the clients whose connection may end
    Lines       \* the kinds of line the clients send, a subset of LineKinds
                \* (any other command only gets a "wrong answer" reply)

LineKinds == {"ready", "answer", "chat"}

ASSUME GameAssumption ==
    /\ Nobody \notin Sessions
    /\ NumLoops \in Nat \ {0}
    /\ MaxDesks \in Nat
    /\ Leavers \subseteq Sessions
    /\ Lines \subseteq LineKinds

Loops == 0 .. NumLoops - 1
Desks == 1 .. MaxDesks
NoDesk == 0                     \* m_deskID of a session at no desk
DeskIDs == Desks \cup {NoDesk}
Status == {"IDLE", "READY", "IN_GAME"}
REQUIRED_MIN_READY_COUNT == 2

VARIABLES
    conn,               \* per session: is its socket open and registered?
    loopOf,             \* per session: the loop its connection lives on
    m_lastEventLoopNo,  \* the loop the next connection gets
    m_sessions,         \* keys of Calc24Server::m_sessions
    m_status, m_deskID, \* per session: its two atomics
    m_baseId,           \* the last desk number handed out
    dealt,              \* history, per desk: the sessions sent its cards
    heard,              \* history, per desk: sessions sent a desk message
    base,               \* frame of the base thread
    worker              \* frames of the worker threads

connVars == <<conn, loopOf, m_lastEventLoopNo>>
gameVars == <<m_status, m_deskID, m_baseId>>
history == <<dealt, heard>>
vars == <<connVars, m_sessions, gameVars, history, base, worker>>

-----------------------------------------------------------------------------
(* Frames.  seen is the set of sessions the current loop has visited, cur   *)
(* the one it is working on, torn whether the map changed under the loop.  *)

IdleBase == [pc |-> "idle", seen |-> {}, torn |-> FALSE, ready |-> 0,
             desk |-> NoDesk, cur |-> Nobody]
IdleWorker == [pc |-> "idle", line |-> "ready", self |-> Nobody,
               status |-> "IDLE", desk |-> NoDesk, seen |-> {},
               torn |-> FALSE, cur |-> Nobody]

BasePc == {"idle", "emplace", "count", "deal", "seat", "start"}
WorkerPc == {"idle", "args", "argDesk", "argStatus", "sendAll",
             "reset", "clear", "release"}

BaseFrame == [pc : BasePc, seen : SUBSET Sessions, torn : BOOLEAN,
              ready : Nat, desk : DeskIDs, cur : Sessions \cup {Nobody}]
WorkerFrame == [pc : WorkerPc, line : LineKinds, self : Sessions \cup {Nobody},
                status : Status, desk : DeskIDs, seen : SUBSET Sessions,
                torn : BOOLEAN, cur : Sessions \cup {Nobody}]

TypeOK ==
    /\ conn \in [Sessions -> {"fresh", "open", "closed"}]
    /\ loopOf \in [Sessions -> Loops]
    /\ m_lastEventLoopNo \in Loops
    /\ m_sessions \subseteq Sessions
    /\ m_status \in [Sessions -> Status]
    /\ m_deskID \in [Sessions -> DeskIDs]
    /\ m_baseId \in DeskIDs
    /\ dealt \in [Desks -> SUBSET Sessions]
    /\ heard \in [Desks -> SUBSET Sessions]
    /\ base \in BaseFrame
    /\ worker \in [Loops -> WorkerFrame]

Init ==
    /\ conn = [s \in Sessions |-> "fresh"]
    /\ loopOf = [s \in Sessions |-> 0]
    /\ m_lastEventLoopNo = 0
    /\ m_sessions = {}
    /\ m_status = [s \in Sessions |-> "IDLE"]
    /\ m_deskID = [s \in Sessions |-> NoDesk]
    /\ m_baseId = 0
    /\ dealt = [d \in Desks |-> {}]
    /\ heard = [d \in Desks |-> {}]
    /\ base = IdleBase
    /\ worker = [l \in Loops |-> IdleWorker]

-----------------------------------------------------------------------------
(* The map, and what changing it does to the loops in progress.            *)

BaseLooping == base.pc \in {"count", "deal", "seat", "start"}
WorkerLooping(l) == worker[l].pc \in {"sendAll", "reset", "clear", "release"}

\* The range-for of a thread may end: nothing unseen, or the map moved.
LoopDone(frame) == frame.torn \/ m_sessions \subseteq frame.seen

\* What its next iteration may reach: an unseen element and, in a torn
\* loop, the node of a session that was erased meanwhile.
NextInLoop(frame) ==
    (m_sessions \cup {s \in Sessions : frame.torn /\ conn[s] = "closed"})
        \ frame.seen

TornBase(b) == IF BaseLooping THEN [b EXCEPT !.torn = TRUE] ELSE b
TornWorker(l) == IF WorkerLooping(l) THEN [worker[l] EXCEPT !.torn = TRUE]
                                     ELSE worker[l]

\* TCPConnection::onClose of s, run by its own loop: the session leaves the
\* map, if it is there.  The moving thread l goes on with frame f.
CloseSession(s, l, f) ==
    LET erased == s \in m_sessions IN
    /\ s \in Leavers
    /\ conn' = [conn EXCEPT ![s] = "closed"]
    /\ m_sessions' = m_sessions \ {s}
    /\ base' = IF erased THEN TornBase(base) ELSE base
    /\ worker' = [k \in Loops |->
                    IF k = l THEN f
                    ELSE IF erased THEN TornWorker(k) ELSE worker[k]]

\* Thread l goes on with frame f and leaves the connections alone.
Continue(l, f) ==
    /\ worker' = [worker EXCEPT ![l] = f]
    /\ UNCHANGED <<conn, m_sessions, base>>

-----------------------------------------------------------------------------
(* The base thread: connecting.                                            *)

\* Mutant: the wrap-around comes one loop too early.
NextLoop_WrapEarly ==
    IF m_lastEventLoopNo + 1 >= NumLoops - 1 THEN 0 ELSE m_lastEventLoopNo + 1

\* ThreadPoll::getNextEventLoop, after the choice of m_lastEventLoopNo
NextLoop ==
    IF m_lastEventLoopNo + 1 >= NumLoops THEN 0 ELSE m_lastEventLoopNo + 1

\* Acceptor::onRead, TCPServer::onAccept and onConnected up to the emplace.
\* startRead registers the socket first, so its lines count from here on.
\* (m_pendingToDeleteSessions, which is cleared here, only ends lifetimes:
\* it is modelled in TCPConnection.)
Accept(s) ==
    /\ base.pc = "idle"
    /\ conn[s] = "fresh"
    /\ conn' = [conn EXCEPT ![s] = "open"]
    /\ loopOf' = [loopOf EXCEPT ![s] = m_lastEventLoopNo]
    /\ m_lastEventLoopNo' = NextLoop
    /\ base' = [IdleBase EXCEPT !.pc = "emplace", !.cur = s]
    /\ UNCHANGED <<m_sessions, gameVars, history, worker>>

\* m_sessions.emplace: a concurrent loop is torn and may revisit anything.
Emplace ==
    /\ base.pc = "emplace"
    /\ m_sessions' = m_sessions \cup {base.cur}
    /\ base' = IdleBase
    /\ \E again \in [Loops -> SUBSET Sessions] :
         worker' = [l \in Loops |->
                     IF WorkerLooping(l)
                     THEN [TornWorker(l) EXCEPT !.seen = @ \ again[l]]
                     ELSE worker[l]]
    /\ UNCHANGED <<connVars, gameVars, history>>

-----------------------------------------------------------------------------
(* The base thread: the deal timer.                                        *)

\* Bound: the timer fires no more once MaxDesks desks are open.
StartCount ==
    /\ base.pc = "idle"
    /\ m_baseId < MaxDesks
    /\ base' = [IdleBase EXCEPT !.pc = "count"]
    /\ UNCHANGED <<connVars, m_sessions, gameVars, history, worker>>

CountSession(s) ==
    /\ base.pc = "count"
    /\ s \in NextInLoop(base)
    /\ base' = [base EXCEPT !.seen = @ \cup {s},
                            !.ready = IF m_status[s] = "READY" THEN @ + 1 ELSE @]
    /\ UNCHANGED <<connVars, m_sessions, gameVars, history, worker>>


TooFewReady ==
    /\ base.pc = "count"
    /\ LoopDone(base)
    /\ base.ready < REQUIRED_MIN_READY_COUNT
    /\ base' = IdleBase
    /\ UNCHANGED <<connVars, m_sessions, gameVars, history, worker>>

\* Mutant: the second desk gets the first one's number (m_baseId++ from 1).
GenerateCards_PostIncrement ==
    /\ base.pc = "count"
    /\ LoopDone(base)
    /\ base.ready >= REQUIRED_MIN_READY_COUNT
    /\ m_baseId' = m_baseId + 1
    /\ base' = [IdleBase EXCEPT !.pc = "deal",
                               !.desk = IF m_baseId = 0 THEN 1 ELSE m_baseId]
    /\ UNCHANGED <<connVars, m_sessions, m_status, m_deskID, history, worker>>

\* generateCards and generateDeskID, then the second loop begins.
GenerateCards ==
    /\ base.pc = "count"
    /\ LoopDone(base)
    /\ base.ready >= REQUIRED_MIN_READY_COUNT
    /\ m_baseId' = m_baseId + 1
    /\ base' = [IdleBase EXCEPT !.pc = "deal", !.desk = m_baseId + 1]
    /\ UNCHANGED <<connVars, m_sessions, m_status, m_deskID, history, worker>>

DealSkips(s) ==
    /\ base.pc = "deal"
    /\ s \in NextInLoop(base)
    /\ m_status[s] # "READY"
    /\ base' = [base EXCEPT !.seen = @ \cup {s}]
    /\ UNCHANGED <<connVars, m_sessions, gameVars, history, worker>>

\* Mutant: the desk is written without a send before it.
DealCards_NotSent(s) ==
    /\ base.pc = "deal"
    /\ s \in NextInLoop(base)
    /\ m_status[s] = "READY"
    /\ base' = [base EXCEPT !.pc = "seat", !.cur = s]
    /\ UNCHANGED <<connVars, m_sessions, gameVars, history, worker>>

\* isReady(), then the send at the head of sendCards.
DealCards(s) ==
    /\ base.pc = "deal"
    /\ s \in NextInLoop(base)
    /\ m_status[s] = "READY"
    /\ dealt' = [dealt EXCEPT ![base.desk] = @ \cup {s}]
    /\ base' = [base EXCEPT !.pc = "seat", !.cur = s]
    /\ UNCHANGED <<connVars, m_sessions, gameVars, heard, worker>>

\* m_deskID = deskID
SetDesk ==
    /\ base.pc = "seat"
    /\ m_deskID' = [m_deskID EXCEPT ![base.cur] = base.desk]
    /\ base' = [base EXCEPT !.pc = "start"]
    /\ UNCHANGED <<connVars, m_sessions, m_status, m_baseId, history, worker>>

\* m_status = SESSION_STATUS_IN_GAME
SetInGame ==
    /\ base.pc = "start"
    /\ m_status' = [m_status EXCEPT ![base.cur] = "IN_GAME"]
    /\ base' = [base EXCEPT !.pc = "deal", !.cur = Nobody,
                            !.seen = @ \cup {base.cur}]
    /\ UNCHANGED <<connVars, m_sessions, m_deskID, m_baseId, history, worker>>

EndDeal ==
    /\ base.pc = "deal"
    /\ LoopDone(base)
    /\ base' = IdleBase
    /\ UNCHANGED <<connVars, m_sessions, gameVars, history, worker>>

-----------------------------------------------------------------------------
(* The worker threads: a line of session s arrives on its loop.            *)

Receives(l, s, line) ==
    /\ line \in Lines
    /\ worker[l].pc = "idle"
    /\ \/ conn[s] = "open" /\ loopOf[s] = l
       \/ worker[l].self = s   \* the rest of a read that closed s midway

\* The handler of a line of s returns to onRead: when s was closed by a
\* failing send, the lines read together with this one still follow.
Returned(s) ==
    [IdleWorker EXCEPT !.self = IF conn[s] = "closed" THEN s ELSE Nobody]

\* !ready, whatever the session was doing before
Ready(l, s) ==
    /\ Receives(l, s, "ready")
    /\ m_status' = [m_status EXCEPT ![s] = "READY"]
    /\ Continue(l, Returned(s))
    /\ UNCHANGED <<loopOf, m_lastEventLoopNo, m_deskID, m_baseId, history>>

Chat(l, s) ==
    /\ Receives(l, s, "chat")
    /\ Continue(l, [IdleWorker EXCEPT !.pc = "args", !.line = "chat", !.self = s])
    /\ UNCHANGED <<loopOf, m_lastEventLoopNo, gameVars, history>>

\* !xyz: the congratulation is sent at once and, when that send fails, the
\* connection is closed; the handler goes on either way.
Answer(l, s) ==
    LET f == [IdleWorker EXCEPT !.pc = "args", !.line = "answer", !.self = s] IN
    /\ Receives(l, s, "answer")
    /\ Continue(l, f) \/ CloseSession(s, l, f)
    /\ UNCHANGED <<loopOf, m_lastEventLoopNo, gameVars, history>>

\* The loads of m_status and m_deskID for the arguments of sendAll: C++
\* leaves their order open.
LoadArg(l) ==
    /\ worker[l].pc = "args"
    /\ \/ Continue(l, [worker[l] EXCEPT !.pc = "argDesk",
                                        !.status = m_status[worker[l].self]])
       \/ Continue(l, [worker[l] EXCEPT !.pc = "argStatus",
                                        !.desk = m_deskID[worker[l].self]])
    /\ UNCHANGED <<loopOf, m_lastEventLoopNo, gameVars, history>>

LoadLastArg(l) ==
    /\ \/ /\ worker[l].pc = "argDesk"
          /\ Continue(l, [worker[l] EXCEPT !.pc = "sendAll",
                                           !.desk = m_deskID[worker[l].self]])
       \/ /\ worker[l].pc = "argStatus"
          /\ Continue(l, [worker[l] EXCEPT !.pc = "sendAll",
                                           !.status = m_status[worker[l].self]])
    /\ UNCHANGED <<loopOf, m_lastEventLoopNo, gameVars, history>>

-----------------------------------------------------------------------------
(* The worker threads: Calc24Server::sendAll.                              *)

\* Mutant: the desks are not compared.
Matches_AnyDesk(l, s) ==
    /\ s # worker[l].self
    /\ m_status[s] = worker[l].status

\* The sender is left out (includeSelf is always false) and so is whoever
\* does not match; the two loads of one comparison are one step.
Matches(l, s) ==
    /\ s # worker[l].self
    /\ m_status[s] = worker[l].status
    /\ m_deskID[s] = worker[l].desk

SendSkips(l, s) ==
    /\ worker[l].pc = "sendAll"
    /\ s \in NextInLoop(worker[l])
    /\ ~ Matches(l, s)
    /\ Continue(l, [worker[l] EXCEPT !.seen = @ \cup {s}])
    /\ UNCHANGED <<loopOf, m_lastEventLoopNo, gameVars, history>>

\* sendMsg: a session of this loop is written to directly, and a failing
\* write closes it under the loop's feet; any other gets a task.
SendMsg(l, s) ==
    LET f == [worker[l] EXCEPT !.seen = @ \cup {s}] IN
    /\ worker[l].pc = "sendAll"
    /\ s \in NextInLoop(worker[l])
    /\ Matches(l, s)
    /\ heard' = IF worker[l].desk = NoDesk THEN heard
                ELSE [heard EXCEPT ![worker[l].desk] = @ \cup {s}]
    /\ \/ Continue(l, f)
       \/ loopOf[s] = l /\ CloseSession(s, l, [f EXCEPT !.torn = TRUE])
    /\ UNCHANGED <<loopOf, m_lastEventLoopNo, gameVars, dealt>>

EndChat(l) ==
    /\ worker[l].pc = "sendAll"
    /\ worker[l].line = "chat"
    /\ LoopDone(worker[l])
    /\ Continue(l, Returned(worker[l].self))
    /\ UNCHANGED <<loopOf, m_lastEventLoopNo, gameVars, history>>

\* m_deskID is loaded a second time, for resetSessionToIdle.
StartReset(l) ==
    /\ worker[l].pc = "sendAll"
    /\ worker[l].line = "answer"
    /\ LoopDone(worker[l])
    /\ Continue(l, [IdleWorker EXCEPT !.pc = "reset", !.line = "answer",
                                      !.self = worker[l].self,
                                      !.desk = m_deskID[worker[l].self]])
    /\ UNCHANGED <<loopOf, m_lastEventLoopNo, gameVars, history>>

-----------------------------------------------------------------------------
(* The worker threads: resetSessionToIdle and resetToIdle.                 *)

ResetSkips(l, s) ==
    /\ worker[l].pc = "reset"
    /\ s \in NextInLoop(worker[l])
    /\ m_deskID[s] # worker[l].desk
    /\ Continue(l, [worker[l] EXCEPT !.seen = @ \cup {s}])
    /\ UNCHANGED <<loopOf, m_lastEventLoopNo, gameVars, history>>

ResetSession(l, s) ==
    /\ worker[l].pc = "reset"
    /\ s \in NextInLoop(worker[l])
    /\ m_deskID[s] = worker[l].desk
    /\ Continue(l, [worker[l] EXCEPT !.pc = "clear", !.cur = s])
    /\ UNCHANGED <<loopOf, m_lastEventLoopNo, gameVars, history>>

\* m_deskID = 0
ClearDesk(l) ==
    /\ worker[l].pc = "clear"
    /\ m_deskID' = [m_deskID EXCEPT ![worker[l].cur] = NoDesk]
    /\ Continue(l, [worker[l] EXCEPT !.pc = "release"])
    /\ UNCHANGED <<loopOf, m_lastEventLoopNo, m_status, m_baseId, history>>

\* Mutant: the loop over the sessions returns after the first it resets.
SetIdle_Return(l) ==
    /\ worker[l].pc = "release"
    /\ m_status' = [m_status EXCEPT ![worker[l].cur] = "IDLE"]
    /\ Continue(l, IdleWorker)
    /\ UNCHANGED <<loopOf, m_lastEventLoopNo, m_deskID, m_baseId, history>>

\* m_status = SESSION_STATUS_IDLE
SetIdle(l) ==
    /\ worker[l].pc = "release"
    /\ m_status' = [m_status EXCEPT ![worker[l].cur] = "IDLE"]
    /\ Continue(l, [worker[l] EXCEPT !.pc = "reset", !.cur = Nobody,
                                     !.seen = @ \cup {worker[l].cur}])
    /\ UNCHANGED <<loopOf, m_lastEventLoopNo, m_deskID, m_baseId, history>>

EndReset(l) ==
    /\ worker[l].pc = "reset"
    /\ LoopDone(worker[l])
    /\ Continue(l, Returned(worker[l].self))
    /\ UNCHANGED <<loopOf, m_lastEventLoopNo, gameVars, history>>

-----------------------------------------------------------------------------
(* The peer leaves, a line is too long, or a send outside sendAll fails    *)
(* (which a session can meet again after it was closed).  When that is the *)
(* reply to a wrong answer, the lines read together with it still follow.  *)

Disconnect(l, s) ==
    /\ worker[l].pc = "idle"
    /\ conn[s] # "fresh"
    /\ loopOf[s] = l
    /\ \E self \in {Nobody, s} :
         CloseSession(s, l, [IdleWorker EXCEPT !.self = self])
    /\ UNCHANGED <<loopOf, m_lastEventLoopNo, gameVars, history>>

BaseStep ==
    \/ Emplace
    \/ StartCount \/ TooFewReady \/ GenerateCards
    \/ \E s \in Sessions : CountSession(s) \/ DealSkips(s) \/ DealCards(s)
    \/ SetDesk \/ SetInGame \/ EndDeal

HandlerStep(l) ==
    \/ LoadArg(l) \/ LoadLastArg(l)
    \/ \E s \in Sessions : SendSkips(l, s) \/ SendMsg(l, s)
    \/ EndChat(l) \/ StartReset(l)
    \/ \E s \in Sessions : ResetSkips(l, s) \/ ResetSession(l, s)
    \/ ClearDesk(l) \/ SetIdle(l) \/ EndReset(l)

ClientStep(l, s) ==
    Ready(l, s) \/ Chat(l, s) \/ Answer(l, s) \/ Disconnect(l, s)

Next ==
    \/ BaseStep
    \/ \E s \in Sessions : Accept(s)
    \/ \E l \in Loops : HandlerStep(l)
    \/ \E l \in Loops, s \in Sessions : ClientStep(l, s)

Spec == Init /\ [][Next]_vars

\* The operating system runs every thread, and the deal timer repeats;
\* nothing makes a client connect, speak or leave.
Fairness == WF_vars(BaseStep) /\ \A l \in Loops : WF_vars(HandlerStep(l))

FairSpec == Spec /\ Fairness

-----------------------------------------------------------------------------
(* Properties.                                                             *)

\* Whoever sits at a desk was sent that desk's cards: sendCards writes
\* m_deskID after the send, and nothing else seats a session.
SeatedWereDealt ==
    \A s \in Sessions :
        m_deskID[s] # NoDesk => s \in dealt[m_deskID[s]]

\* The inductive invariant behind the theorems: what the frames of the
\* threads guarantee between two steps.
Dealing == base.pc \in {"deal", "seat", "start"}

FramesOK ==
    /\ base.pc \in {"emplace", "seat", "start"} => base.cur \in Sessions
    /\ base.pc = "count" => m_baseId < MaxDesks
    /\ Dealing => base.desk = m_baseId /\ m_baseId # NoDesk
    /\ \A l \in Loops :
         /\ worker[l].pc # "idle" => worker[l].self \in Sessions
         /\ worker[l].pc \in {"clear", "release"} => worker[l].cur \in Sessions

\* Each desk is dealt to a session at most once, and only while it is the
\* newest: the deal's own loop has seen whoever has the newest desk's cards.
DealtOnce ==
    /\ base.pc = "deal" => dealt[base.desk] \subseteq base.seen
    /\ base.pc \in {"seat", "start"} =>
         /\ dealt[base.desk] \subseteq base.seen \cup {base.cur}
         /\ base.cur \in dealt[base.desk]
    /\ base.pc = "seat" => base.cur \notin base.seen
    /\ \A d \in Desks : d > m_baseId => dealt[d] = {}

GameInv == TypeOK /\ FramesOK /\ DealtOnce /\ SeatedWereDealt

\* A desk's messages reach only sessions that were dealt its cards, however
\* the deal and the resets move players while sendAll walks the map.
HeardAtDesk == \A d \in Desks : heard[d] \subseteq dealt[d]

\* getNextEventLoop deals the connections out evenly: no loop ever got two
\* connections more than another.
LoadBalanced ==
    LET Load(l) == Cardinality({s \in Sessions : conn[s] # "fresh" /\ loopOf[s] = l})
    IN  \A k, l \in Loops : Load(k) <= Load(l) + 1

\* The deal implements Seating: a seat is taken at the write of m_deskID, so
\* a session whose cards are sent but whose desk is not written has no seat.
S == INSTANCE Seating WITH
        Players <- Sessions,
        newest <- m_baseId,
        seat <- m_deskID,
        sat <- [d \in Desks |->
                  IF base.pc = "seat" /\ d = base.desk
                  THEN dealt[d] \ {base.cur} ELSE dealt[d]]

ImplementsSeating == S!Spec

\* As many sessions as the code asks for (it asks for two, the README for
\* three), and in the map.
EnoughReady(team) ==
    /\ Cardinality(team) = REQUIRED_MIN_READY_COUNT
    /\ team \subseteq m_sessions
    /\ \A s \in team : m_status[s] = "READY"


\* When a right answer starts the reset of desk d, whoever sits there, is in
\* the map and is still ahead of the loop gets up, unless the map moves under
\* the loop.  (Whom the deal seats behind the loop stays at the desk.)
ResetReaches ==
    \A l \in Loops, s \in Sessions, d \in Desks :
        (worker[l].pc = "reset" /\ worker[l].desk = d /\ s \notin worker[l].seen
           /\ s \in m_sessions /\ m_deskID[s] = d)
          ~> (m_deskID[s] # d \/ s \notin m_sessions \/ worker[l].torn)

\* README: the first to compute the result wins; two sessions of one desk
\* are never both telling the others that they won.
OneWinner ==
    \A k, l \in Loops :
        (k # l /\ worker[k].pc = "sendAll" /\ worker[l].pc = "sendAll"
           /\ worker[k].line = "answer" /\ worker[l].line = "answer"
           /\ worker[k].desk = worker[l].desk)
          => worker[k].desk = NoDesk
=============================================================================
