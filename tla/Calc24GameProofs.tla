---------------------------- MODULE Calc24GameProofs ----------------------------
(***************************************************************************)
(* Theorems about Calc24Game, for every number of sessions, loops, desks.  *)
(***************************************************************************)
EXTENDS Calc24Game, FiniteSetTheorems, TLAPS

USE GameAssumption DEF NoDesk

-----------------------------------------------------------------------------
(* Lemmas about the frames.                                                *)

\* What tearing a loop may change in a frame: the flag and nothing else.
SameBase(f, g) ==
    /\ g \in BaseFrame
    /\ g.pc = f.pc /\ g.desk = f.desk /\ g.cur = f.cur
    /\ g.seen = f.seen

\* A worker frame that has what FramesOK asks of it.
WorkerOK(f) ==
    /\ f \in WorkerFrame
    /\ f.pc # "idle" => f.self \in Sessions
    /\ f.pc \in {"clear", "release"} => f.cur \in Sessions

\* The frames of a state that FramesOK describes are all WorkerOK.
LEMMA WorkersOK ==
    ASSUME TypeOK, FramesOK
    PROVE  \A l \in Loops : WorkerOK(worker[l])
  BY DEF TypeOK, FramesOK, WorkerOK

\* Tearing the base thread's loop keeps its position.
LEMMA TornBaseSame ==
    ASSUME NEW b \in BaseFrame
    PROVE  SameBase(b, TornBase(b))
  <1>1. CASE BaseLooping
    <2> DEFINE t == [b EXCEPT !.torn = TRUE]
    <2>1. TornBase(b) = t
      BY <1>1 DEF TornBase
    <2>2. t \in BaseFrame
      BY DEF BaseFrame
    <2>3. t.pc = b.pc /\ t.desk = b.desk /\ t.cur = b.cur /\ t.seen = b.seen
      BY DEF BaseFrame
    <2> QED  BY <2>1, <2>2, <2>3 DEF SameBase
  <1>2. CASE ~ BaseLooping
    BY <1>2 DEF TornBase, SameBase
  <1> QED  BY <1>1, <1>2

\* Tearing a worker's loop keeps its frame in order.
LEMMA TornWorkerOK ==
    ASSUME NEW l \in Loops, WorkerOK(worker[l])
    PROVE  WorkerOK(TornWorker(l))
  <1>1. CASE WorkerLooping(l)
    <2> DEFINE f == worker[l]
               t == [f EXCEPT !.torn = TRUE]
    <2>1. TornWorker(l) = t
      BY <1>1 DEF TornWorker
    <2>2. t \in WorkerFrame
      BY DEF WorkerFrame, WorkerOK
    <2>3. t.pc = f.pc /\ t.self = f.self /\ t.cur = f.cur
      BY DEF WorkerFrame, WorkerOK
    <2> QED  BY <2>1, <2>2, <2>3 DEF WorkerOK
  <1>2. CASE ~ WorkerLooping(l)
    BY <1>2 DEF TornWorker
  <1> QED  BY <1>1, <1>2

\* The idle frames are frames.
LEMMA IdleFrames ==
    IdleBase \in BaseFrame /\ WorkerOK(IdleWorker)
  BY DEF IdleBase, IdleWorker, BaseFrame, WorkerFrame, BasePc, WorkerPc,
         LineKinds, Status, DeskIDs, WorkerOK

\* So is the frame of a worker between two lines.
LEMMA ReturnedOK ==
    ASSUME NEW s \in Sessions
    PROVE  WorkerOK(Returned(s))
  BY IdleFrames DEF Returned, WorkerOK, WorkerFrame, IdleWorker

\* What closing a connection while thread l goes on with frame f leaves of
\* the invariant's concerns: the base thread's position, and good frames.
LEMMA CloseKeeps ==
    ASSUME TypeOK, FramesOK, NEW s \in Sessions, NEW l \in Loops, NEW f,
           WorkerOK(f), CloseSession(s, l, f)
    PROVE  /\ conn' \in [Sessions -> {"fresh", "open", "closed"}]
           /\ m_sessions' \subseteq Sessions
           /\ SameBase(base, base')
           /\ worker' \in [Loops -> WorkerFrame]
           /\ \A k \in Loops : WorkerOK(worker'[k])
  <1>1. conn' \in [Sessions -> {"fresh", "open", "closed"}] /\ m_sessions' \subseteq Sessions
    BY DEF CloseSession, TypeOK
  <1>2. SameBase(base, base')
    <2>1. base \in BaseFrame
      BY DEF TypeOK
    <2>2. SameBase(base, base) /\ SameBase(base, TornBase(base))
      BY <2>1, TornBaseSame DEF SameBase
    <2>3. base' = base \/ base' = TornBase(base)
      BY DEF CloseSession
    <2> QED  BY <2>2, <2>3
  <1>3. \A k \in Loops : WorkerOK(worker'[k])
    <2> TAKE k \in Loops
    <2>1. WorkerOK(worker[k])
      BY WorkersOK
    <2>2. WorkerOK(TornWorker(k))
      BY <2>1, TornWorkerOK
    <2>3. worker'[k] \in {f, worker[k], TornWorker(k)}
      BY DEF CloseSession
    <2> QED  BY <2>1, <2>2, <2>3
  <1>4. worker' \in [Loops -> WorkerFrame]
    <2>1. worker' = [k \in Loops |-> worker'[k]]
      BY DEF CloseSession
    <2> QED  BY <2>1, <1>3 DEF WorkerOK
  <1> QED  BY <1>1, <1>2, <1>3, <1>4

\* The same when thread l goes on and the connections stay.
LEMMA ContinueKeeps ==
    ASSUME TypeOK, FramesOK, NEW l \in Loops, NEW f,
           WorkerOK(f), Continue(l, f)
    PROVE  /\ conn' \in [Sessions -> {"fresh", "open", "closed"}]
           /\ m_sessions' \subseteq Sessions
           /\ SameBase(base, base')
           /\ worker' \in [Loops -> WorkerFrame]
           /\ \A k \in Loops : WorkerOK(worker'[k])
  <1>1. \A k \in Loops : WorkerOK(worker[k])
    BY WorkersOK
  <1>2. worker' = [worker EXCEPT ![l] = f] /\ worker \in [Loops -> WorkerFrame]
    BY DEF Continue, TypeOK
  <1>3. f \in WorkerFrame
    BY DEF WorkerOK
  <1>4. worker' \in [Loops -> WorkerFrame]
    BY <1>2, <1>3
  <1>5. \A k \in Loops : WorkerOK(worker'[k])
    <2> TAKE k \in Loops
    <2>1. worker'[k] = IF k = l THEN f ELSE worker[k]
      BY <1>2
    <2> QED  BY <2>1, <1>1
  <1>6. SameBase(base, base') /\ m_sessions' \subseteq Sessions
        /\ conn' \in [Sessions -> {"fresh", "open", "closed"}]
    BY DEF Continue, TypeOK, SameBase
  <1> QED  BY <1>4, <1>5, <1>6

-----------------------------------------------------------------------------
(* GameInv is inductive: the initial states and the worker threads.        *)

LEMMA InitGameInv == Init => GameInv
  <1> SUFFICES ASSUME Init PROVE GameInv
    OBVIOUS
  <1>1. TypeOK
    BY IdleFrames DEF Init, TypeOK, Loops, DeskIDs, Status, Desks, WorkerOK
  <1>2. FramesOK
    BY DEF Init, FramesOK, IdleBase, IdleWorker, Dealing, Loops
  <1>3. DealtOnce
    BY DEF Init, DealtOnce, IdleBase, Desks
  <1>4. SeatedWereDealt
    BY DEF Init, SeatedWereDealt
  <1> QED  BY <1>1, <1>2, <1>3, <1>4 DEF GameInv

\* A step that leaves the base thread's position and the deal's history
\* alone, keeps the workers' frames in order and at most empties a seat,
\* keeps the invariant.
LEMMA OtherThreadKeeps ==
    ASSUME GameInv,
           SameBase(base, base'),
           worker' \in [Loops -> WorkerFrame], \A k \in Loops : WorkerOK(worker'[k]),
           conn' \in [Sessions -> {"fresh", "open", "closed"}],
           m_sessions' \subseteq Sessions,
           UNCHANGED <<loopOf, m_lastEventLoopNo, m_baseId, dealt>>,
           m_status' \in [Sessions -> Status],
           m_deskID' \in [Sessions -> DeskIDs],
           \A s \in Sessions : m_deskID'[s] \in {m_deskID[s], NoDesk},
           heard' \in [Desks -> SUBSET Sessions]
    PROVE  GameInv'
  <1>1. TypeOK'
    BY DEF GameInv, TypeOK, SameBase
  <1>2. FramesOK'
    BY DEF GameInv, FramesOK, SameBase, Dealing, WorkerOK
  <1>3. DealtOnce'
    BY DEF GameInv, DealtOnce, SameBase
  <1>4. SeatedWereDealt'
    BY DEF GameInv, SeatedWereDealt
  <1> QED  BY <1>1, <1>2, <1>3, <1>4 DEF GameInv

\* The same for a step of thread l that goes on with a good frame f and may
\* close a connection, and changes no status, seat or history.
LEMMA QuietWorkerKeeps ==
    ASSUME GameInv, NEW l \in Loops, NEW f, WorkerOK(f),
           Continue(l, f) \/ \E s \in Sessions : CloseSession(s, l, f),
           UNCHANGED <<loopOf, m_lastEventLoopNo, gameVars, dealt>>,
           heard' \in [Desks -> SUBSET Sessions]
    PROVE  GameInv'
  <1>1. TypeOK /\ FramesOK
    BY DEF GameInv
  <1>2. /\ conn' \in [Sessions -> {"fresh", "open", "closed"}]
        /\ m_sessions' \subseteq Sessions
        /\ SameBase(base, base')
        /\ worker' \in [Loops -> WorkerFrame]
        /\ \A k \in Loops : WorkerOK(worker'[k])
    BY <1>1, ContinueKeeps, CloseKeeps
  <1>3. /\ m_status' \in [Sessions -> Status]
        /\ m_deskID' \in [Sessions -> DeskIDs]
        /\ m_deskID' = m_deskID /\ m_baseId' = m_baseId
    BY <1>1 DEF gameVars, TypeOK
  <1> QED  BY <1>2, <1>3, OtherThreadKeeps

\* Every step of a handler keeps the invariant.
LEMMA HandlerKeeps ==
    ASSUME GameInv, NEW l \in Loops, HandlerStep(l)
    PROVE  GameInv'
  <1> DEFINE w == worker[l]
  <1>1. WorkerOK(w) /\ TypeOK /\ heard' \in [Desks -> SUBSET Sessions]
    <2>1. TypeOK /\ WorkerOK(w)
      BY WorkersOK DEF GameInv
    <2>2. heard \in [Desks -> SUBSET Sessions]
      BY <2>1 DEF TypeOK
    <2>3. ASSUME NEW s \in Sessions, SendMsg(l, s)
          PROVE  heard' \in [Desks -> SUBSET Sessions]
      <3>1. heard' = heard \/ heard' = [heard EXCEPT ![w.desk] = @ \cup {s}]
        BY <2>3 DEF SendMsg
      <3> QED  BY <2>2, <3>1
    <2>4. heard' = heard \/ \E s \in Sessions : SendMsg(l, s)
      BY DEF HandlerStep, LoadArg, LoadLastArg, SendSkips, EndChat, StartReset,
             ResetSkips, ResetSession, ClearDesk, SetIdle, EndReset, history
    <2> QED  BY <2>1, <2>2, <2>3, <2>4
  <1>2. CASE LoadArg(l)
    <2>1. w.self \in Sessions
      BY <1>1, <1>2 DEF LoadArg, WorkerOK
    <2> DEFINE f1 == [w EXCEPT !.pc = "argDesk", !.status = m_status[w.self]]
               f2 == [w EXCEPT !.pc = "argStatus", !.desk = m_deskID[w.self]]
    <2>2. WorkerOK(f1) /\ WorkerOK(f2)
      BY <1>1, <2>1 DEF WorkerOK, WorkerFrame, WorkerPc, TypeOK
    <2> HIDE DEF f1, f2
    <2>3. (Continue(l, f1) \/ Continue(l, f2)) /\ UNCHANGED <<loopOf, m_lastEventLoopNo, gameVars, dealt>>
      BY <1>2 DEF LoadArg, history, f1, f2
    <2> QED  BY <1>1, <2>2, <2>3, QuietWorkerKeeps
  <1>3. CASE LoadLastArg(l)
    <2>1. w.self \in Sessions
      BY <1>1, <1>3 DEF LoadLastArg, WorkerOK
    <2> DEFINE f1 == [w EXCEPT !.pc = "sendAll", !.status = m_status[w.self]]
               f2 == [w EXCEPT !.pc = "sendAll", !.desk = m_deskID[w.self]]
    <2>2. WorkerOK(f1) /\ WorkerOK(f2)
      BY <1>1, <2>1 DEF WorkerOK, WorkerFrame, WorkerPc, TypeOK
    <2> HIDE DEF f1, f2
    <2>3. (Continue(l, f1) \/ Continue(l, f2)) /\ UNCHANGED <<loopOf, m_lastEventLoopNo, gameVars, dealt>>
      BY <1>3 DEF LoadLastArg, history, f1, f2
    <2> QED  BY <1>1, <2>2, <2>3, QuietWorkerKeeps
  <1>4. ASSUME NEW s \in Sessions, SendSkips(l, s) \/ ResetSkips(l, s) PROVE GameInv'
    <2> DEFINE f == [w EXCEPT !.seen = @ \cup {s}]
    <2>1. WorkerOK(f)
      BY <1>1 DEF WorkerOK, WorkerFrame
    <2> HIDE DEF f
    <2>2. Continue(l, f) /\ UNCHANGED <<loopOf, m_lastEventLoopNo, gameVars, dealt>>
      BY <1>4 DEF SendSkips, ResetSkips, history, f
    <2> QED  BY <1>1, <2>1, <2>2, QuietWorkerKeeps
  <1>5. ASSUME NEW s \in Sessions, SendMsg(l, s) PROVE GameInv'
    <2> DEFINE f == [w EXCEPT !.seen = @ \cup {s}]
               g == [f EXCEPT !.torn = TRUE]
    <2>1. WorkerOK(f) /\ WorkerOK(g)
      BY <1>1 DEF WorkerOK, WorkerFrame
    <2>2. UNCHANGED <<loopOf, m_lastEventLoopNo, gameVars, dealt>>
      BY <1>5 DEF SendMsg
    <2>3. Continue(l, f) \/ CloseSession(s, l, g)
      BY <1>5 DEF SendMsg
    <2> HIDE DEF f, g
    <2> QED  BY <1>1, <2>1, <2>2, <2>3, QuietWorkerKeeps
  <1>6. CASE EndChat(l) \/ EndReset(l)
    <2> DEFINE f == Returned(w.self)
    <2>1. w.self \in Sessions
      BY <1>1, <1>6 DEF EndChat, EndReset, WorkerOK
    <2>2. WorkerOK(f)
      BY <2>1, ReturnedOK
    <2>3. Continue(l, f) /\ UNCHANGED <<loopOf, m_lastEventLoopNo, gameVars, dealt>>
      BY <1>6 DEF EndChat, EndReset, history
    <2> HIDE DEF f
    <2> QED  BY <1>1, <2>2, <2>3, QuietWorkerKeeps
  <1>7. CASE StartReset(l)
    <2> DEFINE f == [IdleWorker EXCEPT !.pc = "reset", !.line = "answer",
                                       !.self = w.self, !.desk = m_deskID[w.self]]
    <2>1. w.self \in Sessions
      BY <1>1, <1>7 DEF StartReset, WorkerOK
    <2>2. WorkerOK(f)
      BY <1>1, <2>1, IdleFrames DEF WorkerOK, WorkerFrame, WorkerPc, TypeOK, LineKinds
    <2> HIDE DEF f
    <2>3. Continue(l, f) /\ UNCHANGED <<loopOf, m_lastEventLoopNo, gameVars, dealt>>
      BY <1>7 DEF StartReset, history, f
    <2> QED  BY <1>1, <2>2, <2>3, QuietWorkerKeeps
  <1>8. ASSUME NEW s \in Sessions, ResetSession(l, s) PROVE GameInv'
    <2> DEFINE f == [w EXCEPT !.pc = "clear", !.cur = s]
    <2>1. w.self \in Sessions
      BY <1>1, <1>8 DEF ResetSession, WorkerOK
    <2>2. WorkerOK(f)
      BY <1>1, <2>1 DEF WorkerOK, WorkerFrame, WorkerPc
    <2> HIDE DEF f
    <2>3. Continue(l, f) /\ UNCHANGED <<loopOf, m_lastEventLoopNo, gameVars, dealt>>
      BY <1>8 DEF ResetSession, history, f
    <2> QED  BY <1>1, <2>2, <2>3, QuietWorkerKeeps
  <1>9. CASE ClearDesk(l)
    <2> DEFINE f == [w EXCEPT !.pc = "release"]
    <2>1. w.self \in Sessions /\ w.cur \in Sessions
      BY <1>1, <1>9 DEF ClearDesk, WorkerOK
    <2>2. WorkerOK(f)
      BY <1>1, <2>1 DEF WorkerOK, WorkerFrame, WorkerPc
    <2> HIDE DEF f
    <2>3. Continue(l, f) /\ UNCHANGED <<loopOf, m_lastEventLoopNo, m_baseId, m_status, dealt>>
      BY <1>9 DEF ClearDesk, history, f
    <2>4. m_deskID' = [m_deskID EXCEPT ![w.cur] = NoDesk]
      BY <1>9 DEF ClearDesk
    <2>5. /\ m_deskID' \in [Sessions -> DeskIDs]
          /\ \A s \in Sessions : m_deskID'[s] \in {m_deskID[s], NoDesk}
      BY <2>4, <1>1 DEF TypeOK, DeskIDs
    <2>6. m_status' \in [Sessions -> Status]
      BY <2>3, <1>1 DEF TypeOK
    <2>7. TypeOK /\ FramesOK
      BY DEF GameInv
    <2> QED  BY <1>1, <2>2, <2>3, <2>5, <2>6, <2>7, ContinueKeeps, OtherThreadKeeps
  <1>10. CASE SetIdle(l)
    <2> DEFINE f == [w EXCEPT !.pc = "reset", !.cur = Nobody, !.seen = @ \cup {w.cur}]
    <2>1. w.self \in Sessions /\ w.cur \in Sessions
      BY <1>1, <1>10 DEF SetIdle, WorkerOK
    <2>2. WorkerOK(f)
      BY <1>1, <2>1 DEF WorkerOK, WorkerFrame, WorkerPc
    <2> HIDE DEF f
    <2>3. Continue(l, f) /\ UNCHANGED <<loopOf, m_lastEventLoopNo, m_baseId, m_deskID, dealt>>
      BY <1>10 DEF SetIdle, history, f
    <2>4. m_status' \in [Sessions -> Status]
      BY <1>10, <1>1 DEF SetIdle, TypeOK, Status
    <2>5. m_deskID' \in [Sessions -> DeskIDs]
      BY <2>3, <1>1 DEF TypeOK
    <2>6. \A s \in Sessions : m_deskID'[s] \in {m_deskID[s], NoDesk}
      BY <2>3
    <2>7. TypeOK /\ FramesOK
      BY DEF GameInv
    <2> QED  BY <1>1, <2>2, <2>3, <2>4, <2>5, <2>6, <2>7, ContinueKeeps, OtherThreadKeeps
  <1> QED  BY <1>2, <1>3, <1>4, <1>5, <1>6, <1>7, <1>8, <1>9, <1>10 DEF HandlerStep

\* A line that arrives, or a peer that leaves, keeps the invariant.
LEMMA ClientKeeps ==
    ASSUME GameInv, NEW l \in Loops, NEW s \in Sessions, ClientStep(l, s)
    PROVE  GameInv'
  <1>1. WorkerOK(worker[l]) /\ TypeOK /\ FramesOK /\ heard \in [Desks -> SUBSET Sessions]
    BY WorkersOK DEF GameInv, TypeOK
  <1>2. CASE Ready(l, s)
    <2>1. m_status' \in [Sessions -> Status]
      BY <1>1, <1>2 DEF Ready, TypeOK, Status
    <2>2. /\ Continue(l, Returned(s))
          /\ UNCHANGED <<loopOf, m_lastEventLoopNo, m_deskID, m_baseId, dealt, heard>>
      BY <1>2 DEF Ready, history
    <2>3. m_deskID' \in [Sessions -> DeskIDs] /\ heard' \in [Desks -> SUBSET Sessions]
      BY <1>1, <2>2 DEF TypeOK
    <2>4. \A r \in Sessions : m_deskID'[r] \in {m_deskID[r], NoDesk}
      BY <2>2
    <2> QED  BY <1>1, <2>1, <2>2, <2>3, <2>4, ReturnedOK, ContinueKeeps, OtherThreadKeeps
  <1>3. CASE Chat(l, s) \/ Answer(l, s)
    <2> DEFINE f == [IdleWorker EXCEPT !.pc = "args", !.line = "chat", !.self = s]
               g == [IdleWorker EXCEPT !.pc = "args", !.line = "answer", !.self = s]
    <2>1. WorkerOK(f) /\ WorkerOK(g)
      BY IdleFrames DEF WorkerOK, WorkerFrame, WorkerPc, LineKinds
    <2> HIDE DEF f, g
    <2>2. /\ Continue(l, f) \/ Continue(l, g) \/ CloseSession(s, l, g)
          /\ UNCHANGED <<loopOf, m_lastEventLoopNo, gameVars, dealt, heard>>
      BY <1>3 DEF Chat, Answer, history, f, g
    <2> QED  BY <1>1, <2>1, <2>2, QuietWorkerKeeps
  <1>4. CASE Disconnect(l, s)
    <2>1. PICK self \in {Nobody, s} :
            CloseSession(s, l, [IdleWorker EXCEPT !.self = self])
      BY <1>4 DEF Disconnect
    <2>2. UNCHANGED <<loopOf, m_lastEventLoopNo, gameVars, dealt, heard>>
      BY <1>4 DEF Disconnect, history
    <2> DEFINE f == [IdleWorker EXCEPT !.self = self]
    <2>3. WorkerOK(f)
      BY IdleFrames DEF WorkerOK, WorkerFrame, IdleWorker
    <2> HIDE DEF f
    <2>4. CloseSession(s, l, f)
      BY <2>1 DEF f
    <2> QED  BY <1>1, <2>2, <2>3, <2>4, QuietWorkerKeeps
  <1> QED  BY <1>2, <1>3, <1>4 DEF ClientStep

-----------------------------------------------------------------------------
(* GameInv is inductive: the base thread.                                  *)

\* A base step that leaves seats, desks and history alone: good as soon as
\* the new frame is.
LEMMA QuietBaseKeeps ==
    ASSUME GameInv, base' \in BaseFrame,
           base'.pc \in {"emplace", "seat", "start"} => base'.cur \in Sessions,
           base'.pc \in {"idle", "emplace", "count"}
             \/ (base'.pc = "deal" /\ base.pc = "deal" /\ base'.desk = base.desk
                   /\ base.seen \subseteq base'.seen),
           base'.pc = "count" => m_baseId < MaxDesks,
           conn' \in [Sessions -> {"fresh", "open", "closed"}],
           loopOf' \in [Sessions -> Loops], m_lastEventLoopNo' \in Loops,
           m_sessions' \subseteq Sessions,
           worker' \in [Loops -> WorkerFrame], \A k \in Loops : WorkerOK(worker'[k]),
           UNCHANGED <<gameVars, history>>
    PROVE  GameInv'
  <1>1. UNCHANGED <<m_status, m_deskID, m_baseId, dealt, heard>>
    BY DEF gameVars, history
  <1>2. TypeOK'
    BY <1>1 DEF GameInv, TypeOK
  <1>3. FramesOK'
    BY <1>1 DEF GameInv, FramesOK, Dealing, WorkerOK
  <1>4. DealtOnce'
    BY <1>1 DEF GameInv, DealtOnce
  <1>5. SeatedWereDealt'
    BY <1>1 DEF GameInv, SeatedWereDealt
  <1> QED  BY <1>2, <1>3, <1>4, <1>5 DEF GameInv

\* A connection is accepted.
LEMMA AcceptKeeps ==
    ASSUME GameInv, NEW s \in Sessions, Accept(s)
    PROVE  GameInv'
  <1>1. TypeOK /\ \A k \in Loops : WorkerOK(worker[k])
    BY WorkersOK DEF GameInv
  <1> DEFINE b == [IdleBase EXCEPT !.pc = "emplace", !.cur = s]
  <1>2. b \in BaseFrame /\ b.pc = "emplace" /\ b.cur = s
    BY IdleFrames DEF BaseFrame, BasePc, IdleBase
  <1>3. /\ loopOf' \in [Sessions -> Loops]
        /\ conn' \in [Sessions -> {"fresh", "open", "closed"}]
    BY <1>1 DEF Accept, TypeOK
  <1>4. m_lastEventLoopNo' \in Loops
    BY <1>1 DEF Accept, NextLoop, TypeOK, Loops
  <1>5. base' = b /\ UNCHANGED <<m_sessions, gameVars, history, worker>>
    BY DEF Accept
  <1>6. m_sessions' \subseteq Sessions /\ worker' \in [Loops -> WorkerFrame]
    BY <1>1, <1>5 DEF TypeOK
  <1> HIDE DEF b
  <1> QED  BY <1>1, <1>2, <1>3, <1>4, <1>5, <1>6, QuietBaseKeeps

\* The session of an accepted connection enters the map.
LEMMA EmplaceKeeps ==
    ASSUME GameInv, Emplace
    PROVE  GameInv'
  <1>1. TypeOK /\ \A k \in Loops : WorkerOK(worker[k])
    BY WorkersOK DEF GameInv
  <1>2. base.cur \in Sessions
    BY DEF GameInv, FramesOK, Emplace
  <1>3. PICK again \in [Loops -> SUBSET Sessions] :
          worker' = [l \in Loops |->
                      IF WorkerLooping(l)
                      THEN [TornWorker(l) EXCEPT !.seen = @ \ again[l]]
                      ELSE worker[l]]
    BY DEF Emplace
  <1>4. \A k \in Loops : WorkerOK(worker'[k])
    <2> TAKE k \in Loops
    <2> DEFINE t == TornWorker(k)
               u == [t EXCEPT !.seen = @ \ again[k]]
    <2>1. WorkerOK(t)
      BY <1>1, TornWorkerOK
    <2> HIDE DEF t
    <2>2. WorkerOK(u)
      BY <2>1 DEF WorkerOK, WorkerFrame
    <2>3. worker'[k] = u \/ worker'[k] = worker[k]
      BY <1>3 DEF t
    <2> QED  BY <1>1, <2>2, <2>3
  <1>5. worker' \in [Loops -> WorkerFrame]
    BY <1>3, <1>4 DEF WorkerOK
  <1>6. base' = IdleBase /\ m_sessions' \subseteq Sessions
        /\ UNCHANGED <<conn, loopOf, m_lastEventLoopNo, gameVars, history>>
    BY <1>1, <1>2 DEF Emplace, TypeOK, connVars
  <1>7. IdleBase.pc = "idle" /\ IdleBase \in BaseFrame
    BY IdleFrames DEF IdleBase
  <1>8. /\ conn' \in [Sessions -> {"fresh", "open", "closed"}]
        /\ loopOf' \in [Sessions -> Loops] /\ m_lastEventLoopNo' \in Loops
    BY <1>1, <1>6 DEF TypeOK
  <1> QED  BY <1>4, <1>5, <1>6, <1>7, <1>8, QuietBaseKeeps

\* The steps of the deal timer that only move through the map.
LEMMA CountKeeps ==
    ASSUME GameInv,
           \/ StartCount \/ TooFewReady \/ EndDeal
           \/ \E s \in Sessions : CountSession(s) \/ DealSkips(s)
    PROVE  GameInv'
  <1>1. TypeOK /\ \A k \in Loops : WorkerOK(worker[k])
    BY WorkersOK DEF GameInv
  <1>2. UNCHANGED <<conn, loopOf, m_lastEventLoopNo, m_sessions, gameVars, history, worker>>
    BY DEF StartCount, TooFewReady, EndDeal, CountSession, DealSkips, connVars
  <1>3. /\ base' \in BaseFrame
        /\ \/ base'.pc = "idle"
           \/ base'.pc = "count" /\ m_baseId < MaxDesks
           \/ /\ base'.pc = "deal" /\ base.pc = "deal" /\ base'.desk = base.desk
              /\ base.seen \subseteq base'.seen
    <2>1. base \in BaseFrame
      BY <1>1 DEF TypeOK
    <2>2. CASE StartCount
      BY <2>2, IdleFrames DEF StartCount, BaseFrame, BasePc, IdleBase
    <2>3. CASE TooFewReady \/ EndDeal
      <3>1. base' = IdleBase
        BY <2>3 DEF TooFewReady, EndDeal
      <3>2. IdleBase.pc = "idle"
        BY DEF IdleBase
      <3> QED  BY <3>1, <3>2, IdleFrames
    <2>4. ASSUME NEW s \in Sessions, CountSession(s)
          PROVE  base' \in BaseFrame /\ base'.pc = "count" /\ m_baseId < MaxDesks
      <3>1. m_baseId < MaxDesks /\ base.pc = "count"
        BY <2>4 DEF GameInv, FramesOK, CountSession
      <3> DEFINE n == IF m_status[s] = "READY" THEN base.ready + 1 ELSE base.ready
      <3>2. base' = [base EXCEPT !.seen = base.seen \cup {s}, !.ready = n]
        BY <2>4 DEF CountSession
      <3>3. n \in Nat
        BY <2>1 DEF BaseFrame
      <3> HIDE DEF n
      <3> QED  BY <2>1, <3>1, <3>2, <3>3 DEF BaseFrame
    <2>5. ASSUME NEW s \in Sessions, DealSkips(s)
          PROVE  /\ base' \in BaseFrame /\ base'.pc = "deal" /\ base.pc = "deal"
                 /\ base'.desk = base.desk /\ base.seen \subseteq base'.seen
      BY <2>1, <2>5 DEF DealSkips, BaseFrame
    <2> QED  BY <2>2, <2>3, <2>4, <2>5
  <1>4. /\ conn' \in [Sessions -> {"fresh", "open", "closed"}]
        /\ loopOf' \in [Sessions -> Loops] /\ m_lastEventLoopNo' \in Loops
        /\ m_sessions' \subseteq Sessions /\ worker' \in [Loops -> WorkerFrame]
        /\ \A k \in Loops : WorkerOK(worker'[k])
    BY <1>1, <1>2 DEF TypeOK
  <1> QED  BY <1>2, <1>3, <1>4, QuietBaseKeeps

\* A new desk is opened: nobody has been dealt its cards.
LEMMA GenerateCardsKeeps ==
    ASSUME GameInv, GenerateCards
    PROVE  GameInv'
  <1>1. TypeOK /\ FramesOK /\ DealtOnce
    BY DEF GameInv
  <1>2. m_baseId \in Nat /\ m_baseId + 1 \in Desks /\ m_baseId < MaxDesks
    BY <1>1 DEF TypeOK, FramesOK, GenerateCards, Desks, DeskIDs
  <1>3. /\ m_baseId' = m_baseId + 1
        /\ UNCHANGED <<conn, loopOf, m_lastEventLoopNo, m_sessions, m_status,
                       m_deskID, dealt, heard, worker>>
    BY DEF GenerateCards, connVars, history
  <1>4. /\ base' \in BaseFrame
        /\ base'.pc = "deal" /\ base'.desk = m_baseId + 1
    <2> DEFINE b == [IdleBase EXCEPT !.pc = "deal", !.desk = m_baseId + 1]
    <2>1. b \in BaseFrame /\ b.pc = "deal" /\ b.desk = m_baseId + 1
      BY <1>2, IdleFrames DEF BaseFrame, BasePc, DeskIDs, IdleBase
    <2>2. base' = b
      BY DEF GenerateCards
    <2> QED  BY <2>1, <2>2
  <1>5. dealt[m_baseId + 1] = {} /\ \A d \in Desks : d > m_baseId + 1 => dealt[d] = {}
    BY <1>1, <1>2 DEF DealtOnce, Desks
  <1>6. TypeOK'
    BY <1>1, <1>2, <1>3, <1>4 DEF TypeOK, DeskIDs
  <1>7. FramesOK'
    BY <1>1, <1>2, <1>3, <1>4 DEF FramesOK, Dealing
  <1>8. DealtOnce'
    BY <1>3, <1>4, <1>5 DEF DealtOnce
  <1>9. SeatedWereDealt'
    BY <1>3 DEF GameInv, SeatedWereDealt
  <1> QED  BY <1>6, <1>7, <1>8, <1>9 DEF GameInv

\* The head of sendCards: the session it serves was not served before.
LEMMA DealCardsKeeps ==
    ASSUME GameInv, NEW s \in Sessions, DealCards(s)
    PROVE  GameInv'
  <1>1. TypeOK /\ FramesOK /\ DealtOnce /\ SeatedWereDealt
    BY DEF GameInv
  <1>2. /\ base \in BaseFrame /\ base.pc = "deal" /\ base.desk = m_baseId
        /\ m_baseId \in Desks /\ s \notin base.seen
        /\ dealt[base.desk] \subseteq base.seen
        /\ dealt \in [Desks -> SUBSET Sessions]
    BY <1>1 DEF TypeOK, FramesOK, DealtOnce, Dealing, DealCards, NextInLoop, DeskIDs
  <1>3. /\ dealt' = [dealt EXCEPT ![base.desk] = @ \cup {s}]
        /\ UNCHANGED <<conn, loopOf, m_lastEventLoopNo, m_sessions, m_status,
                       m_deskID, m_baseId, heard, worker>>
    BY DEF DealCards, connVars, gameVars
  <1>4. /\ base' \in BaseFrame /\ base'.pc = "seat" /\ base'.cur = s
        /\ base'.desk = base.desk /\ base'.seen = base.seen
    <2> DEFINE b == [base EXCEPT !.pc = "seat", !.cur = s]
    <2>1. /\ b \in BaseFrame /\ b.pc = "seat" /\ b.cur = s
          /\ b.desk = base.desk /\ b.seen = base.seen
      BY <1>2 DEF BaseFrame, BasePc
    <2>2. base' = b
      BY DEF DealCards
    <2> QED  BY <2>1, <2>2
  <1>5. /\ dealt' \in [Desks -> SUBSET Sessions]
        /\ dealt'[base.desk] = dealt[base.desk] \cup {s}
        /\ \A d \in Desks : d # base.desk => dealt'[d] = dealt[d]
        /\ \A d \in Desks : dealt[d] \subseteq dealt'[d]
    BY <1>2, <1>3
  <1>6. TypeOK'
    BY <1>1, <1>3, <1>4, <1>5 DEF TypeOK
  <1>7. FramesOK'
    BY <1>1, <1>2, <1>3, <1>4 DEF FramesOK, Dealing
  <1>8. DealtOnce'
    <2>1. \A d \in Desks : d > m_baseId' => dealt'[d] = {}
      BY <1>1, <1>2, <1>3, <1>5 DEF DealtOnce, Desks
    <2> QED  BY <2>1, <1>2, <1>4, <1>5 DEF DealtOnce
  <1>9. SeatedWereDealt'
    BY <1>1, <1>3, <1>5 DEF SeatedWereDealt, TypeOK, DeskIDs
  <1> QED  BY <1>6, <1>7, <1>8, <1>9 DEF GameInv

\* The rest of sendCards: the desk, then the status.
LEMMA SendCardsKeeps ==
    ASSUME GameInv, SetDesk \/ SetInGame
    PROVE  GameInv'
  <1>1. TypeOK /\ FramesOK /\ DealtOnce /\ SeatedWereDealt
    BY DEF GameInv
  <1>2. /\ base \in BaseFrame /\ base.pc \in {"seat", "start"}
        /\ base.cur \in Sessions /\ base.desk = m_baseId /\ m_baseId \in Desks
        /\ base.cur \in dealt[base.desk]
        /\ dealt[base.desk] \subseteq base.seen \cup {base.cur}
    BY <1>1 DEF TypeOK, FramesOK, DealtOnce, Dealing, SetDesk, SetInGame, DeskIDs
  <1>3. UNCHANGED <<conn, loopOf, m_lastEventLoopNo, m_sessions, m_baseId,
                    dealt, heard, worker>>
    BY DEF SetDesk, SetInGame, connVars, history
  <1>4. /\ base' \in BaseFrame /\ base'.desk = base.desk
        /\ \/ base'.pc = "start" /\ base'.cur = base.cur /\ base'.seen = base.seen
           \/ base'.pc = "deal" /\ base'.seen = base.seen \cup {base.cur}
    <2> DEFINE b == [base EXCEPT !.pc = "start"]
               c == [base EXCEPT !.pc = "deal", !.cur = Nobody,
                                 !.seen = @ \cup {base.cur}]
    <2>1. /\ b \in BaseFrame /\ b.desk = base.desk /\ b.pc = "start"
          /\ b.cur = base.cur /\ b.seen = base.seen
      BY <1>2 DEF BaseFrame, BasePc
    <2>2. /\ c \in BaseFrame /\ c.desk = base.desk /\ c.pc = "deal"
          /\ c.seen = base.seen \cup {base.cur}
      BY <1>2 DEF BaseFrame, BasePc
    <2>3. base' = b \/ base' = c
      BY DEF SetDesk, SetInGame
    <2> QED  BY <2>1, <2>2, <2>3
  <1>5. /\ m_status' \in [Sessions -> Status]
        /\ m_deskID' \in [Sessions -> DeskIDs]
        /\ \A s \in Sessions : \/ m_deskID'[s] = m_deskID[s]
                               \/ s = base.cur /\ m_deskID'[s] = base.desk
    BY <1>1, <1>2 DEF SetDesk, SetInGame, TypeOK, Status, DeskIDs
  <1>6. TypeOK'
    BY <1>1, <1>3, <1>4, <1>5 DEF TypeOK
  <1>7. FramesOK'
    BY <1>1, <1>2, <1>3, <1>4 DEF FramesOK, Dealing
  <1>8. DealtOnce'
    BY <1>1, <1>2, <1>3, <1>4 DEF DealtOnce
  <1>9. SeatedWereDealt'
    BY <1>1, <1>2, <1>3, <1>5 DEF SeatedWereDealt
  <1> QED  BY <1>6, <1>7, <1>8, <1>9 DEF GameInv

-----------------------------------------------------------------------------
(* The theorems.                                                           *)

\* Every step keeps the invariant.
LEMMA NextGameInv == GameInv /\ [Next]_vars => GameInv'
  <1> SUFFICES ASSUME GameInv, [Next]_vars PROVE GameInv'
    OBVIOUS
  <1>1. CASE BaseStep
    BY <1>1, EmplaceKeeps, CountKeeps, GenerateCardsKeeps, DealCardsKeeps,
       SendCardsKeeps DEF BaseStep
  <1>2. CASE \E s \in Sessions : Accept(s)
    BY <1>2, AcceptKeeps
  <1>3. CASE \E l \in Loops : HandlerStep(l)
    BY <1>3, HandlerKeeps
  <1>4. CASE \E l \in Loops, s \in Sessions : ClientStep(l, s)
    BY <1>4, ClientKeeps
  <1>5. CASE UNCHANGED vars
    <2>1. TypeOK' /\ FramesOK'
      BY <1>5 DEF GameInv, TypeOK, FramesOK, Dealing, vars, connVars, gameVars, history
    <2>2. DealtOnce' /\ SeatedWereDealt'
      BY <1>5 DEF GameInv, DealtOnce, SeatedWereDealt, vars, gameVars, history
    <2> QED  BY <2>1, <2>2 DEF GameInv
  <1> QED  BY <1>1, <1>2, <1>3, <1>4, <1>5 DEF Next

\* The invariant holds of every behaviour of the game.
THEOREM GameInvariant == Spec => []GameInv
  BY InitGameInv, NextGameInv, PTL DEF Spec

\* Whoever sits at a desk was sent its cards, whatever the threads do.
THEOREM SeatedWereDealtAlways == Spec => []SeatedWereDealt
  <1>1. GameInv => SeatedWereDealt
    BY DEF GameInv
  <1> QED  BY <1>1, GameInvariant, PTL

\* A desk's messages reach only sessions that were dealt its cards.
THEOREM HeardAtDeskAlways == Spec => []HeardAtDesk
  <1>1. Init => HeardAtDesk
    BY DEF Init, HeardAtDesk
  <1>2. GameInv /\ HeardAtDesk /\ [Next]_vars => HeardAtDesk'
    <2> SUFFICES ASSUME GameInv, HeardAtDesk, [Next]_vars PROVE HeardAtDesk'
      OBVIOUS
    <2>1. /\ dealt \in [Desks -> SUBSET Sessions]
          /\ heard \in [Desks -> SUBSET Sessions]
          /\ m_deskID \in [Sessions -> DeskIDs]
      BY DEF GameInv, TypeOK
    <2>2. ASSUME NEW l \in Loops, NEW s \in Sessions, SendMsg(l, s) PROVE HeardAtDesk'
      <3>1. m_deskID[s] = worker[l].desk /\ dealt' = dealt
        BY <2>2 DEF SendMsg, Matches
      <3>2. worker[l].desk # NoDesk => s \in dealt[worker[l].desk]
        BY <3>1 DEF GameInv, SeatedWereDealt
      <3>3. heard' = heard \/ (worker[l].desk # NoDesk
                                 /\ heard' = [heard EXCEPT ![worker[l].desk] = @ \cup {s}])
        BY <2>2 DEF SendMsg
      <3> QED  BY <2>1, <3>1, <3>2, <3>3 DEF HeardAtDesk
    <2>3. ASSUME NEW s \in Sessions, DealCards(s) PROVE HeardAtDesk'
      BY <2>1, <2>3 DEF DealCards, HeardAtDesk
    <2>4. CASE UNCHANGED history
      BY <2>4 DEF history, HeardAtDesk
    <2>5. \/ UNCHANGED history
          \/ \E s \in Sessions : DealCards(s)
          \/ \E l \in Loops, s \in Sessions : SendMsg(l, s)
      BY DEF Next, BaseStep, HandlerStep, ClientStep, vars, Accept, Emplace,
             StartCount, CountSession, TooFewReady, GenerateCards, DealSkips,
             SetDesk, SetInGame, EndDeal, Ready, Chat, Answer, LoadArg,
             LoadLastArg, SendSkips, EndChat, StartReset, ResetSkips,
             ResetSession, ClearDesk, SetIdle, EndReset, Disconnect
    <2> QED  BY <2>2, <2>3, <2>4, <2>5
  <1> QED  BY <1>1, <1>2, GameInvariant, PTL DEF Spec

-----------------------------------------------------------------------------
(* The deal implements Seating.                                            *)

\* sat of Seating, as ImplementsSeating maps it.
Sat == [d \in Desks |->
          IF base.pc = "seat" /\ d = base.desk
          THEN dealt[d] \ {base.cur} ELSE dealt[d]]

\* A worker moves the base thread's frame at most by tearing its loop.
LEMMA WorkerLeavesBase ==
    ASSUME GameInv, NEW l \in Loops,
           HandlerStep(l) \/ \E s \in Sessions : ClientStep(l, s)
    PROVE  SameBase(base, base') /\ UNCHANGED <<m_baseId, dealt>>
  <1>1. base \in BaseFrame
    BY DEF GameInv, TypeOK
  <1>2. base' = base \/ base' = TornBase(base)
    BY DEF HandlerStep, ClientStep, Ready, Chat, Answer, LoadArg, LoadLastArg,
           SendSkips, SendMsg, EndChat, StartReset, ResetSkips, ResetSession,
           ClearDesk, SetIdle, EndReset, Disconnect, Continue, CloseSession
  <1>3. UNCHANGED <<m_baseId, dealt>>
    BY DEF HandlerStep, ClientStep, Ready, Chat, Answer, LoadArg, LoadLastArg,
           SendSkips, SendMsg, EndChat, StartReset, ResetSkips, ResetSession,
           ClearDesk, SetIdle, EndReset, Disconnect, gameVars, history
  <1> QED  BY <1>1, <1>2, <1>3, TornBaseSame DEF SameBase

\* Every step of the game is a step of Seating, or changes nothing there.
LEMMA StepSeating == GameInv /\ [Next]_vars => [S!Next]_(S!vars)
  <1> SUFFICES ASSUME GameInv, [Next]_vars
               PROVE  S!Next \/ UNCHANGED <<m_baseId, m_deskID, Sat>>
    BY DEF S!vars, Sat
  <1>1. TypeOK /\ FramesOK /\ DealtOnce
    BY DEF GameInv
  <1>2. CASE Emplace \/ StartCount \/ TooFewReady \/ EndDeal \/ SetInGame
    <2>1. UNCHANGED <<m_baseId, m_deskID, dealt>>
      BY <1>2 DEF Emplace, StartCount, TooFewReady, EndDeal, SetInGame, gameVars, history
    <2>2. base.pc # "seat" /\ base'.pc # "seat"
      <3>1. base \in BaseFrame
        BY <1>1 DEF TypeOK
      <3>2. IdleBase.pc = "idle" /\ [IdleBase EXCEPT !.pc = "count"].pc = "count"
        BY DEF IdleBase
      <3>3. CASE SetInGame
        BY <3>1, <3>3 DEF SetInGame, BaseFrame
      <3> QED  BY <1>2, <3>2, <3>3 DEF Emplace, StartCount, TooFewReady, EndDeal
    <2> QED  BY <2>1, <2>2 DEF Sat
  <1>3. ASSUME NEW s \in Sessions, CountSession(s) \/ DealSkips(s) \/ Accept(s)
        PROVE  UNCHANGED <<m_baseId, m_deskID, Sat>>
    <2>1. UNCHANGED <<m_baseId, m_deskID, dealt>>
      BY <1>3 DEF CountSession, DealSkips, Accept, gameVars, history
    <2>2. base.pc # "seat" /\ base'.pc # "seat"
      <3>1. base \in BaseFrame
        BY <1>1 DEF TypeOK
      <3>2. [IdleBase EXCEPT !.pc = "emplace", !.cur = s].pc = "emplace"
        BY DEF IdleBase
      <3>3. base'.pc \in {base.pc, "emplace"}
        BY <1>3, <3>1, <3>2 DEF CountSession, DealSkips, Accept, BaseFrame
      <3> QED  BY <1>3, <3>3 DEF CountSession, DealSkips, Accept
    <2> QED  BY <2>1, <2>2 DEF Sat
  <1>4. CASE GenerateCards
    <2>1. /\ m_baseId < MaxDesks /\ m_baseId' = m_baseId + 1
          /\ m_deskID' = m_deskID /\ dealt' = dealt /\ base.pc = "count"
      BY <1>1, <1>4 DEF FramesOK, GenerateCards, history
    <2>2. base'.pc = "deal"
      BY <1>4 DEF GenerateCards, IdleBase
    <2>3. Sat' = Sat
      BY <2>1, <2>2 DEF Sat
    <2> QED  BY <2>1, <2>3 DEF S!Next, S!Open, Sat
  <1>5. ASSUME NEW s \in Sessions, DealCards(s)
        PROVE  UNCHANGED <<m_baseId, m_deskID, Sat>>
    <2>1. /\ base \in BaseFrame /\ base.pc = "deal" /\ base.desk \in Desks
          /\ s \notin base.seen /\ dealt[base.desk] \subseteq base.seen
          /\ dealt \in [Desks -> SUBSET Sessions]
      BY <1>1, <1>5 DEF TypeOK, FramesOK, DealtOnce, Dealing, DealCards, NextInLoop, DeskIDs
    <2>2. base'.pc = "seat" /\ base'.cur = s /\ base'.desk = base.desk
      BY <2>1, <1>5 DEF DealCards, BaseFrame
    <2>3. dealt' = [dealt EXCEPT ![base.desk] = @ \cup {s}]
      BY <1>5 DEF DealCards
    <2>4. Sat = dealt
      BY <2>1 DEF Sat
    <2>5. ASSUME NEW d \in Desks
          PROVE  (IF d = base.desk THEN dealt'[d] \ {s} ELSE dealt'[d]) = dealt[d]
      BY <2>1, <2>3
    <2>6. Sat' = [d \in Desks |-> dealt[d]]
      BY <2>2, <2>5 DEF Sat
    <2> QED  BY <2>1, <2>4, <2>6, <1>5 DEF DealCards, gameVars
  <1>6. CASE SetDesk
    <2>1. /\ base \in BaseFrame /\ base.pc = "seat" /\ base.desk = m_baseId
          /\ m_baseId \in Desks /\ base.cur \in Sessions
          /\ base.cur \in dealt[m_baseId]
          /\ dealt \in [Desks -> SUBSET Sessions]
      BY <1>1, <1>6 DEF TypeOK, FramesOK, DealtOnce, Dealing, SetDesk, DeskIDs
    <2>2. base'.pc = "start" /\ dealt' = dealt /\ m_baseId' = m_baseId
          /\ m_deskID' = [m_deskID EXCEPT ![base.cur] = m_baseId]
      BY <2>1, <1>6 DEF SetDesk, BaseFrame, history
    <2>3. Sat' = dealt
      BY <2>1, <2>2 DEF Sat
    <2>4. Sat[m_baseId] = dealt[m_baseId] \ {base.cur}
      BY <2>1 DEF Sat
    <2>5. dealt = [Sat EXCEPT ![m_baseId] = Sat[m_baseId] \cup {base.cur}]
      <3>1. \A d \in Desks : d # m_baseId => Sat[d] = dealt[d]
        BY <2>1 DEF Sat
      <3>2. dealt[m_baseId] = Sat[m_baseId] \cup {base.cur}
        BY <2>1, <2>4
      <3>3. dealt = [d \in Desks |-> dealt[d]] /\ DOMAIN Sat = Desks
        BY <2>1 DEF Sat
      <3> QED  BY <3>1, <3>2, <3>3
    <2>6. base.cur \notin Sat[m_baseId] /\ m_baseId > 0
      BY <2>1, <2>4 DEF Desks
    <2>7. Sat' = [Sat EXCEPT ![m_baseId] = Sat[m_baseId] \cup {base.cur}]
      BY <2>3, <2>5
    <2> QED  BY <2>1, <2>2, <2>6, <2>7 DEF S!Next, S!Sit, Sat
  <1>7. ASSUME NEW l \in Loops,
               HandlerStep(l) \/ \E s \in Sessions : ClientStep(l, s)
        PROVE  S!Next \/ UNCHANGED <<m_baseId, m_deskID, Sat>>
    <2>1. UNCHANGED <<m_baseId, Sat>>
      BY <1>7, WorkerLeavesBase DEF SameBase, Sat
    <2>2. CASE ClearDesk(l)
      <3>1. worker[l].cur \in Sessions
        BY <1>1, <2>2 DEF FramesOK, ClearDesk
      <3>2. m_deskID' = [m_deskID EXCEPT ![worker[l].cur] = 0]
        BY <2>2 DEF ClearDesk
      <3> QED  BY <2>1, <3>1, <3>2 DEF S!Next, S!Leave, Sat
    <2>3. CASE ~ ClearDesk(l)
      BY <1>7, <2>1, <2>3 DEF HandlerStep, ClientStep, Ready, Chat, Answer, LoadArg,
         LoadLastArg, SendSkips, SendMsg, EndChat, StartReset, ResetSkips,
         ResetSession, SetIdle, EndReset, Disconnect, gameVars
    <2> QED  BY <2>2, <2>3
  <1>8. CASE UNCHANGED vars
    BY <1>8 DEF vars, gameVars, history, Sat
  <1> QED  BY <1>2, <1>3, <1>4, <1>5, <1>6, <1>7, <1>8 DEF Next, BaseStep

\* Calc24Game implements Seating: the deal hands out desks in order, seats a
\* player only at the newest one and at most once, and empties seats freely.
THEOREM GameImplementsSeating == Spec => ImplementsSeating
  <1>1. Init => S!Init
    BY DEF Init, S!Init, IdleBase, Desks
  <1> QED  BY <1>1, StepSeating, GameInvariant, PTL DEF Spec, ImplementsSeating, S!Spec

-----------------------------------------------------------------------------
(* The connections are spread evenly.                                      *)

\* Whatever a thread has in hand has been accepted.
AcceptedInv ==
    /\ \A s \in m_sessions : conn[s] # "fresh"
    /\ base.pc = "emplace" => conn[base.cur] # "fresh"
    /\ \A l \in Loops : worker[l].self # Nobody => conn[worker[l].self] # "fresh"

\* What a step other than an accept keeps of it.
SameAccepted ==
    /\ conn' \in [Sessions -> {"fresh", "open", "closed"}]
    /\ \A s \in Sessions : conn'[s] = "fresh" <=> conn[s] = "fresh"
    /\ UNCHANGED <<loopOf, m_lastEventLoopNo>>

LEMMA CloseAccepted ==
    ASSUME TypeOK, FramesOK, AcceptedInv, NEW l \in Loops, NEW s \in Sessions, NEW f,
           CloseSession(s, l, f), conn[s] # "fresh", UNCHANGED <<loopOf, m_lastEventLoopNo>>,
           WorkerOK(f), f.self # Nobody => conn[f.self] # "fresh"
    PROVE  AcceptedInv' /\ SameAccepted
  <1>1. conn' = [conn EXCEPT ![s] = "closed"] /\ m_sessions' = m_sessions \ {s}
    BY DEF CloseSession
  <1>2. SameAccepted
    BY <1>1 DEF SameAccepted, TypeOK
  <1>3. base'.pc = base.pc /\ base'.cur = base.cur
    BY TornBaseSame DEF CloseSession, SameBase, TypeOK
  <1>4. \A k \in Loops : k # l => worker'[k].self = worker[k].self
    <2> SUFFICES ASSUME NEW k \in Loops, k # l PROVE worker'[k].self = worker[k].self
      OBVIOUS
    <2>1. worker'[k] = TornWorker(k) \/ worker'[k] = worker[k]
      BY DEF CloseSession
    <2>2. TornWorker(k).self = worker[k].self
      BY DEF TornWorker, TypeOK, WorkerFrame
    <2> QED  BY <2>1, <2>2
  <1>5. worker'[l] = f
    BY DEF CloseSession
  <1>6. \A k \in Loops : worker[k].self \in Sessions \cup {Nobody}
    BY DEF TypeOK, WorkerFrame
  <1>7. f.self \in Sessions \cup {Nobody}
    BY DEF WorkerOK, WorkerFrame
  <1>8. base.pc = "emplace" => base.cur \in Sessions
    BY DEF FramesOK
  <1> QED  BY <1>1, <1>2, <1>3, <1>4, <1>5, <1>6, <1>7, <1>8
           DEF AcceptedInv, SameAccepted, TypeOK

LEMMA ContinueAccepted ==
    ASSUME TypeOK, AcceptedInv, NEW l \in Loops, NEW f, Continue(l, f),
           UNCHANGED <<loopOf, m_lastEventLoopNo>>,
           f.self # Nobody => conn[f.self] # "fresh"
    PROVE  AcceptedInv' /\ SameAccepted
  <1>1. UNCHANGED <<conn, m_sessions, base>>
    BY DEF Continue
  <1>2. worker'[l] = f /\ \A k \in Loops : k # l => worker'[k] = worker[k]
    BY DEF Continue, TypeOK
  <1> QED  BY <1>1, <1>2 DEF AcceptedInv, SameAccepted, TypeOK

\* A line is handled for a session that was accepted.
LEMMA ReceiverAccepted ==
    ASSUME AcceptedInv, NEW l \in Loops, NEW s \in Sessions, NEW line,
           Receives(l, s, line)
    PROVE  conn[s] # "fresh"
  BY DEF Receives, AcceptedInv

LEMMA HandlerAccepted ==
    ASSUME TypeOK, FramesOK, AcceptedInv, NEW l \in Loops, HandlerStep(l)
    PROVE  AcceptedInv' /\ SameAccepted
  <1> DEFINE w == worker[l]
  <1>1. w \in WorkerFrame /\ WorkerOK(w) /\ (w.self # Nobody => conn[w.self] # "fresh")
    BY WorkersOK DEF TypeOK, AcceptedInv
  <1>2. UNCHANGED <<loopOf, m_lastEventLoopNo>>
    BY DEF HandlerStep, LoadArg, LoadLastArg, SendSkips, SendMsg, EndChat, StartReset,
           ResetSkips, ResetSession, ClearDesk, SetIdle, EndReset
  <1>3. ASSUME NEW f, Continue(l, f), f.self # Nobody => conn[f.self] # "fresh"
        PROVE  AcceptedInv' /\ SameAccepted
    BY <1>2, <1>3, ContinueAccepted
  <1>4. \A s \in Sessions : Returned(s).self # Nobody => conn[Returned(s).self] # "fresh"
    BY DEF Returned, IdleWorker
  <1>5. CASE EndChat(l) \/ EndReset(l)
    <2>1. w.self \in Sessions /\ Continue(l, Returned(w.self))
      BY <1>1, <1>5 DEF EndChat, EndReset, WorkerOK
    <2> QED  BY <1>3, <1>4, <2>1
  <1>6. CASE StartReset(l)
    <2> DEFINE f == [IdleWorker EXCEPT !.pc = "reset", !.line = "answer",
                                       !.self = w.self, !.desk = m_deskID[w.self]]
    <2>1. Continue(l, f) /\ f.self = w.self
      BY <1>6 DEF StartReset, IdleWorker
    <2> HIDE DEF f
    <2> QED  BY <1>1, <1>3, <2>1
  <1>7. CASE \E s \in Sessions : SendMsg(l, s)
    <2>1. PICK s \in Sessions : SendMsg(l, s)
      BY <1>7
    <2> DEFINE f == [w EXCEPT !.seen = @ \cup {s}]
               g == [f EXCEPT !.torn = TRUE]
    <2>2. conn[s] # "fresh"
      BY <2>1 DEF SendMsg, NextInLoop, AcceptedInv
    <2>3. f.self = w.self /\ g.self = w.self /\ WorkerOK(g)
      BY <1>1 DEF WorkerFrame, WorkerOK
    <2>4. Continue(l, f) \/ CloseSession(s, l, g)
      BY <2>1 DEF SendMsg
    <2> HIDE DEF f, g
    <2> QED  BY <1>1, <1>2, <1>3, <2>2, <2>3, <2>4, CloseAccepted
  <1>8. ASSUME NEW f, Continue(l, f), f.self = w.self
        PROVE  AcceptedInv' /\ SameAccepted
    BY <1>1, <1>3, <1>8
  <1>9. CASE LoadArg(l)
    <2> DEFINE f == [w EXCEPT !.pc = "argDesk", !.status = m_status[w.self]]
               g == [w EXCEPT !.pc = "argStatus", !.desk = m_deskID[w.self]]
    <2>1. f.self = w.self /\ g.self = w.self
      BY <1>1 DEF WorkerFrame
    <2>2. Continue(l, f) \/ Continue(l, g)
      BY <1>9 DEF LoadArg
    <2> HIDE DEF f, g
    <2> QED  BY <1>8, <2>1, <2>2
  <1>10. CASE LoadLastArg(l)
    <2> DEFINE f == [w EXCEPT !.pc = "sendAll", !.desk = m_deskID[w.self]]
               g == [w EXCEPT !.pc = "sendAll", !.status = m_status[w.self]]
    <2>1. f.self = w.self /\ g.self = w.self
      BY <1>1 DEF WorkerFrame
    <2>2. Continue(l, f) \/ Continue(l, g)
      BY <1>10 DEF LoadLastArg
    <2> HIDE DEF f, g
    <2> QED  BY <1>8, <2>1, <2>2
  <1>11. CASE ClearDesk(l) \/ SetIdle(l)
    <2> DEFINE f == [w EXCEPT !.pc = "release"]
               g == [w EXCEPT !.pc = "reset", !.cur = Nobody, !.seen = @ \cup {w.cur}]
    <2>1. f.self = w.self /\ g.self = w.self
      BY <1>1 DEF WorkerFrame
    <2>2. Continue(l, f) \/ Continue(l, g)
      BY <1>11 DEF ClearDesk, SetIdle
    <2> HIDE DEF f, g
    <2> QED  BY <1>8, <2>1, <2>2
  <1>12. CASE \E s \in Sessions : SendSkips(l, s) \/ ResetSkips(l, s) \/ ResetSession(l, s)
    <2>1. PICK s \in Sessions : SendSkips(l, s) \/ ResetSkips(l, s) \/ ResetSession(l, s)
      BY <1>12
    <2> DEFINE f == [w EXCEPT !.seen = @ \cup {s}]
               g == [w EXCEPT !.pc = "clear", !.cur = s]
    <2>2. f.self = w.self /\ g.self = w.self
      BY <1>1 DEF WorkerFrame
    <2>3. Continue(l, f) \/ Continue(l, g)
      BY <2>1 DEF SendSkips, ResetSkips, ResetSession
    <2> HIDE DEF f, g
    <2> QED  BY <1>8, <2>2, <2>3
  <1> QED  BY <1>5, <1>6, <1>7, <1>9, <1>10, <1>11, <1>12 DEF HandlerStep

LEMMA ClientAccepted ==
    ASSUME TypeOK, FramesOK, AcceptedInv, NEW l \in Loops, NEW s \in Sessions,
           ClientStep(l, s)
    PROVE  AcceptedInv' /\ SameAccepted
  <1> DEFINE f == [IdleWorker EXCEPT !.pc = "args", !.line = "chat", !.self = s]
             g == [IdleWorker EXCEPT !.pc = "args", !.line = "answer", !.self = s]
  <1>1. UNCHANGED <<loopOf, m_lastEventLoopNo>> /\ conn[s] # "fresh"
    BY ReceiverAccepted DEF ClientStep, Ready, Chat, Answer, Disconnect
  <1>2. f.self = s /\ g.self = s /\ WorkerOK(g) /\ WorkerOK(IdleWorker)
        /\ IdleWorker.self = Nobody
    BY IdleFrames DEF IdleWorker, WorkerOK, WorkerFrame, WorkerPc, LineKinds
  <1>3. Returned(s).self # Nobody => conn[Returned(s).self] # "fresh"
    BY DEF Returned, IdleWorker
  <1>4. CASE Ready(l, s) \/ Chat(l, s) \/ Answer(l, s)
    <2>1. \/ Continue(l, Returned(s)) \/ Continue(l, f) \/ Continue(l, g)
          \/ CloseSession(s, l, g)
      BY <1>4 DEF Ready, Chat, Answer
    <2> HIDE DEF f, g
    <2> QED  BY <1>1, <1>2, <1>3, <2>1, ContinueAccepted, CloseAccepted
  <1>5. CASE Disconnect(l, s)
    <2>1. PICK self \in {Nobody, s} :
            CloseSession(s, l, [IdleWorker EXCEPT !.self = self])
      BY <1>5 DEF Disconnect
    <2> DEFINE h == [IdleWorker EXCEPT !.self = self]
    <2>2. WorkerOK(h) /\ h.self \in {Nobody, s}
      BY IdleFrames DEF WorkerOK, WorkerFrame, IdleWorker
    <2> HIDE DEF h
    <2>3. CloseSession(s, l, h)
      BY <2>1 DEF h
    <2> QED  BY <1>1, <2>2, <2>3, CloseAccepted
  <1> QED  BY <1>4, <1>5 DEF ClientStep

LEMMA BaseAccepted ==
    ASSUME TypeOK, FramesOK, AcceptedInv, BaseStep
    PROVE  AcceptedInv' /\ SameAccepted
  <1>1. UNCHANGED connVars
    BY DEF BaseStep, Emplace, StartCount, TooFewReady, GenerateCards, CountSession,
           DealSkips, DealCards, SetDesk, SetInGame, EndDeal
  <1>2. base'.pc # "emplace"
    <2>1. base \in BaseFrame /\ IdleBase.pc = "idle"
      BY DEF TypeOK, IdleBase
    <2>2. CASE Emplace \/ TooFewReady \/ EndDeal
      BY <2>1, <2>2 DEF Emplace, TooFewReady, EndDeal
    <2>3. CASE StartCount \/ GenerateCards
      BY <2>3 DEF StartCount, GenerateCards, IdleBase
    <2>4. CASE SetDesk \/ SetInGame
      BY <2>1, <2>4 DEF SetDesk, SetInGame, BaseFrame
    <2>5. CASE \E s \in Sessions : CountSession(s) \/ DealSkips(s) \/ DealCards(s)
      BY <2>1, <2>5 DEF CountSession, DealSkips, DealCards, BaseFrame
    <2> QED  BY <2>2, <2>3, <2>4, <2>5 DEF BaseStep
  <1>3. CASE Emplace
    <2>1. PICK again \in [Loops -> SUBSET Sessions] :
            worker' = [l \in Loops |->
                        IF WorkerLooping(l)
                        THEN [TornWorker(l) EXCEPT !.seen = @ \ again[l]]
                        ELSE worker[l]]
      BY <1>3 DEF Emplace
    <2>2. ASSUME NEW k \in Loops
          PROVE  worker'[k].self = worker[k].self
      <3> DEFINE t == TornWorker(k)
                 u == [t EXCEPT !.seen = @ \ again[k]]
      <3> DEFINE x == [worker[k] EXCEPT !.torn = TRUE]
      <3>1. worker[k] \in WorkerFrame
        BY DEF TypeOK
      <3>2. x \in WorkerFrame /\ x.self = worker[k].self
        BY <3>1 DEF WorkerFrame
      <3>3. t \in WorkerFrame /\ t.self = worker[k].self
        BY <3>1, <3>2 DEF TornWorker
      <3>4. u.self = t.self
        BY <3>3 DEF WorkerFrame
      <3>5. worker'[k] = u \/ worker'[k] = worker[k]
        BY <2>1
      <3> HIDE DEF t, u
      <3> QED  BY <3>3, <3>4, <3>5
    <2> QED  BY <1>1, <1>2, <1>3, <2>2 DEF Emplace, AcceptedInv, SameAccepted, connVars, TypeOK
  <1>4. CASE ~ Emplace
    <2>1. UNCHANGED <<m_sessions, worker>>
      BY <1>4 DEF BaseStep, StartCount, TooFewReady, GenerateCards, CountSession,
         DealSkips, DealCards, SetDesk, SetInGame, EndDeal
    <2> QED  BY <1>1, <1>2, <2>1 DEF AcceptedInv, SameAccepted, connVars, TypeOK
  <1> QED  BY <1>3, <1>4

LEMMA AcceptAccepted ==
    ASSUME TypeOK, AcceptedInv, NEW s \in Sessions, Accept(s)
    PROVE  AcceptedInv'
  <1>1. /\ conn' = [conn EXCEPT ![s] = "open"] /\ UNCHANGED <<m_sessions, worker>>
        /\ base'.cur = s
    BY DEF Accept, IdleBase
  <1>2. \A k \in Loops : worker[k].self \in Sessions \cup {Nobody}
    BY DEF TypeOK, WorkerFrame
  <1> QED  BY <1>1, <1>2 DEF AcceptedInv, TypeOK

LEMMA NextAccepted ==
    ASSUME TypeOK, FramesOK, AcceptedInv, [Next]_vars
    PROVE  AcceptedInv' /\ (SameAccepted \/ \E s \in Sessions : Accept(s))
  <1>1. CASE UNCHANGED vars
    BY <1>1 DEF vars, connVars, AcceptedInv, SameAccepted, TypeOK
  <1>2. CASE \E s \in Sessions : Accept(s)
    BY <1>2, AcceptAccepted
  <1> QED  BY <1>1, <1>2, BaseAccepted, HandlerAccepted, ClientAccepted DEF Next

\* The sessions given to a loop so far.
Given(l) == {s \in Sessions : conn[s] # "fresh" /\ loopOf[s] = l}

\* The round: every loop below the next one has one connection more than the
\* loops from there on.
Round(q) ==
    \A l \in Loops :
        /\ IsFiniteSet(Given(l))
        /\ Cardinality(Given(l)) = IF l < m_lastEventLoopNo THEN q + 1 ELSE q

BalanceInv == AcceptedInv /\ \E q \in Nat : Round(q)

LEMMA AcceptBalances ==
    ASSUME TypeOK, NEW s \in Sessions, Accept(s), NEW q \in Nat, Round(q)
    PROVE  \E r \in Nat : Round(r)'
  <1> DEFINE last == m_lastEventLoopNo
  <1>1. /\ conn[s] = "fresh" /\ conn' = [conn EXCEPT ![s] = "open"]
        /\ loopOf' = [loopOf EXCEPT ![s] = last] /\ last \in Loops /\ last' = NextLoop
    BY DEF Accept, TypeOK
  <1>2. \A l \in Loops : Given(l)' = IF l = last THEN Given(l) \cup {s} ELSE Given(l)
    BY <1>1 DEF Given, TypeOK
  <1>3. s \notin Given(last)
    BY <1>1 DEF Given
  <1>4. ASSUME NEW l \in Loops
        PROVE  /\ IsFiniteSet(Given(l)')
               /\ Cardinality(Given(l)') = IF l <= last THEN q + 1 ELSE q
    <2>1. /\ IsFiniteSet(Given(l))
          /\ Cardinality(Given(l)) = IF l < last THEN q + 1 ELSE q
      BY DEF Round
    <2>2. CASE l = last
      BY <1>1, <1>2, <1>3, <2>1, <2>2, FS_AddElement, GameAssumption DEF Loops
    <2>3. CASE l # last
      BY <1>1, <1>2, <2>1, <2>3, GameAssumption DEF Loops
    <2> QED  BY <2>2, <2>3
  <1>5. CASE last + 1 >= NumLoops
    <2>1. last' = 0
      BY <1>1, <1>5 DEF NextLoop
    <2>2. \A l \in Loops : l <= last /\ ~ (l < 0)
      BY <1>1, <1>5, GameAssumption DEF Loops
    <2>3. Round(q + 1)'
      BY <1>4, <2>1, <2>2 DEF Round
    <2> QED  BY <2>3
  <1>6. CASE ~ (last + 1 >= NumLoops)
    <2>1. last' = last + 1
      BY <1>1, <1>6 DEF NextLoop
    <2>2. \A l \in Loops : l <= last <=> l < last'
      BY <1>1, <2>1, GameAssumption DEF Loops
    <2>3. Round(q)'
      BY <1>4, <2>2 DEF Round
    <2> QED  BY <2>3
  <1> QED  BY <1>5, <1>6

LEMMA BalanceInvariant == Spec => []BalanceInv
  <1>1. Init => BalanceInv
    <2> SUFFICES ASSUME Init PROVE BalanceInv
      OBVIOUS
    <2>1. AcceptedInv
      BY DEF Init, AcceptedInv, IdleBase, IdleWorker
    <2>2. \A l \in Loops : Given(l) = {} /\ ~ (l < m_lastEventLoopNo)
      BY GameAssumption DEF Init, Given, Loops
    <2>3. Round(0)
      BY <2>2, FS_EmptySet DEF Round
    <2> QED  BY <2>1, <2>3 DEF BalanceInv
  <1>2. TypeOK /\ FramesOK /\ BalanceInv /\ [Next]_vars => BalanceInv'
    <2> SUFFICES ASSUME TypeOK, FramesOK, BalanceInv, [Next]_vars
                 PROVE  BalanceInv'
      OBVIOUS
    <2>1. AcceptedInv' /\ (SameAccepted \/ \E s \in Sessions : Accept(s))
      BY NextAccepted DEF BalanceInv
    <2>2. PICK q \in Nat : Round(q)
      BY DEF BalanceInv
    <2>3. CASE SameAccepted
      <3>1. \A l \in Loops : Given(l)' = Given(l)
        BY <2>3 DEF SameAccepted, Given
      <3>2. Round(q)'
        BY <2>2, <2>3, <3>1 DEF SameAccepted, Round
      <3> QED  BY <2>1, <3>2 DEF BalanceInv
    <2>4. CASE \E s \in Sessions : Accept(s)
      BY <2>1, <2>2, <2>4, AcceptBalances DEF BalanceInv
    <2> QED  BY <2>1, <2>3, <2>4
  <1>3. GameInv => TypeOK /\ FramesOK
    BY DEF GameInv
  <1> QED  BY <1>1, <1>2, <1>3, GameInvariant, PTL DEF Spec

\* However many sessions connect and whatever closes, no loop was ever given
\* two connections more than another: getNextEventLoop goes round.
THEOREM LoadBalancedAlways == Spec => []LoadBalanced
  <1>1. BalanceInv => LoadBalanced
    <2> SUFFICES ASSUME BalanceInv, NEW k \in Loops, NEW l \in Loops
                 PROVE  Cardinality(Given(k)) <= Cardinality(Given(l)) + 1
      BY DEF LoadBalanced, Given
    <2>1. PICK q \in Nat : Round(q)
      BY DEF BalanceInv
    <2>2. /\ Cardinality(Given(k)) \in {q, q + 1}
          /\ Cardinality(Given(l)) \in {q, q + 1}
      BY <2>1 DEF Round
    <2> QED  BY <2>2
  <1> QED  BY <1>1, BalanceInvariant, PTL

=============================================================================
