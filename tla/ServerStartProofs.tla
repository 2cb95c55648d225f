---------------------------- MODULE ServerStartProofs ---------------------------
(***************************************************************************)
(* Theorems about ServerStart, for every ThreadNum and number of clients.  *)
(***************************************************************************)
EXTENDS ServerStart, TLAPS

-----------------------------------------------------------------------------
(* The inductive invariant.                                                *)

\* Whatever init is asked for, there is a thread.
LEMMA SomeThreads == NumThreads \in Nat \ {0}
  BY StartAssumption DEF NumThreads, MAX_THREAD_NUM, DEFAULT_THREAD_NUM

LEMMA LoopsAre == /\ Base \in Loops /\ Base \notin Workers
                  /\ Workers \subseteq Loops /\ Loops = Workers \cup {Base}
                  /\ \A w \in Workers : w \in Nat /\ w < NumThreads
                  /\ \A n \in Nat : n < NumThreads => n \in Workers
                  /\ 0 \in Workers
  BY SomeThreads DEF Workers, Base, Loops

\* How far main's thread has come in ThreadPoll::start: which loops are made,
\* which threads run, and which loops know theirs.
PoolInv ==
    /\ pc \in {"inits", "spawn", "setId"} => i < NumThreads
    /\ \A w \in Workers :
         /\ (IF pc = "inits" THEN w < i ELSE TRUE) => m_running[w] \/ failed
         /\ CASE pc = "inits" -> at[w] = "none"
              [] pc = "spawn" -> (w >= i => at[w] = "none") /\ (w < i => m_threadId[w])
              [] pc = "setId" -> (w > i => at[w] = "none") /\ (w < i => m_threadId[w])
              [] OTHER -> m_threadId[w]

\* The base loop runs last of all, with its thread known and the callback set.
BaseInv ==
    /\ at[Base] \in {"none", "poll", "events", "tasks"}
    /\ at[Base] # "none" => pc = "loop"
    /\ pc = "loop" => m_threadId[Base]
    /\ pc \in {"timer", "start", "loop"} => m_acceptCallback
    /\ pc \in {"listen", "callback", "timer", "start", "loop"} => m_running[Base] \/ failed
    /\ \A w \in Workers :
         m_customTasks[w] # << >> \/ tasks[w] # << >> => pc = "loop"
    /\ uinit # "none" => pc = "loop"
    /\ ~ running => failed

\* A worker that has entered run() never leaves it.
JoinInv ==
    /\ \A w \in entered : at[w] \in {"poll", "events", "tasks"}
    /\ \A w \in Workers : w < joined => at[w] = "ended"
    /\ joined > 0 => uinit # "none"
    /\ uinit \in {"stop", "join"} => joined < NumThreads

StartInv == TypeOK /\ PoolInv /\ BaseInv /\ JoinInv

-----------------------------------------------------------------------------
(* Types.                                                                  *)

LEMMA AddTaskType ==
  ASSUME TypeOK, NEW l \in Loops, NEW task \in Task, AddTask(l, task)
  PROVE  m_customTasks' \in [Loops -> Seq(Task)] /\ running' \in BOOLEAN
  <1>1. m_customTasks \in [Loops -> Seq(Task)] /\ m_customTasks[l] \in Seq(Task)
    BY DEF TypeOK
  <1>2. Append(m_customTasks[l], task) \in Seq(Task)
    BY <1>1
  <1>3. m_customTasks' \in [Loops -> Seq(Task)]
    BY <1>1, <1>2 DEF AddTask
  <1>4. running' \in BOOLEAN
    BY ZenonT(30) DEF TypeOK, AddTask
  <1> QED  BY <1>3, <1>4

LEMMA NextLoopType == ASSUME TypeOK PROVE NextLoopNo \in Workers
  <1>1. m_lastEventLoopNo \in Workers
    BY DEF TypeOK
  <1> QED  BY <1>1, LoopsAre, SomeThreads DEF NextLoopNo, Workers

\* A thread moves within its loop, or main's thread within init.
LEMMA TypeMoves ==
  ASSUME TypeOK, at' \in [Loops -> {"none", "test", "poll", "events", "tasks", "ended"}],
         pc' \in {"inits", "spawn", "setId", "base", "listen", "callback", "timer",
                  "start", "loop"},
         i' \in 0 .. NumThreads,
         m_running' \in [Loops -> BOOLEAN], m_threadId' \in [Loops -> BOOLEAN],
         entered' \subseteq Workers, failed' \in BOOLEAN, running' \in BOOLEAN,
         UNCHANGED <<taskVars, clientVars, dealTimers, stopVars>>
  PROVE  TypeOK'
  BY ZenonT(60) DEF TypeOK, taskVars, clientVars, stopVars

LEMMA TypeMain ==
  ASSUME StartInv, MainStep
  PROVE  TypeOK'
  <1> USE DEF StartInv
  <1>0. /\ TypeOK /\ i \in 0 .. NumThreads /\ NumThreads \in Nat
        /\ m_running \in [Loops -> BOOLEAN] /\ m_threadId \in [Loops -> BOOLEAN]
        /\ at \in [Loops -> {"none", "test", "poll", "events", "tasks", "ended"}]
        /\ entered \subseteq Workers /\ failed \in BOOLEAN /\ running \in BOOLEAN
    BY SomeThreads DEF TypeOK
  <1>1. ASSUME NEW ok \in BOOLEAN, InitLoop(ok) PROVE TypeOK'
    <2>1. m_running' \in [Loops -> BOOLEAN]
      BY <1>0, <1>1 DEF InitLoop
    <2>2. i' \in 0 .. NumThreads /\ pc' \in {"inits", "spawn"}
      BY <1>0, <1>1 DEF InitLoop
    <2>3. failed' \in BOOLEAN
      BY <1>0, <1>1, ZenonT(30) DEF InitLoop
    <2> QED  BY <1>0, <1>1, <2>1, <2>2, <2>3, TypeMoves DEF InitLoop
  <1>2. CASE Spawn
    <2>1. at' \in [Loops -> {"none", "test", "poll", "events", "tasks", "ended"}]
      BY <1>0, <1>2 DEF Spawn
    <2> QED  BY <1>0, <1>2, <2>1, TypeMoves DEF Spawn, poolVars, history
  <1>3. CASE SetThreadId
    <2>1. m_threadId' \in [Loops -> BOOLEAN]
      BY <1>0, <1>3 DEF SetThreadId
    <2>2. i' \in 0 .. NumThreads /\ pc' \in {"spawn", "base"}
      BY <1>0, <1>3 DEF SetThreadId, PoolInv
    <2> QED  BY <1>0, <1>3, <2>1, <2>2, TypeMoves DEF SetThreadId, history
  <1>4. ASSUME NEW ok \in BOOLEAN, InitBaseLoop(ok) PROVE TypeOK'
    <2>1. m_running' \in [Loops -> BOOLEAN]
      BY <1>0, <1>4 DEF InitBaseLoop
    <2>3. failed' \in BOOLEAN
      BY <1>0, <1>4, ZenonT(30) DEF InitBaseLoop
    <2> QED  BY <1>0, <1>4, <2>1, <2>3, TypeMoves DEF InitBaseLoop
  <1>5. CASE ListenFails
    BY <1>0, <1>5, TypeMoves DEF ListenFails, poolVars, TypeOK
  <1>6. CASE StartListen
    BY <1>0, <1>6, TypeMoves DEF StartListen, poolVars, history
  <1>7. CASE SetAcceptCallback
    <2>1. m_acceptCallback' \in BOOLEAN /\ pc' = "timer"
      BY <1>7 DEF SetAcceptCallback
    <2> QED  BY <1>0, <1>7, <2>1, ZenonT(60)
             DEF SetAcceptCallback, TypeOK, poolVars, taskVars, stopVars, history
  <1>8. CASE AddDealTimer
    <2>1. Base \in Loops /\ [op |-> "addDeal"] \in Task
      BY LoopsAre DEF Task
    <2>2. m_customTasks' \in [Loops -> Seq(Task)] /\ running' \in BOOLEAN
      BY <1>0, <1>8, <2>1, AddTaskType DEF AddDealTimer
    <2>3. pc' = "start"
      BY <1>8 DEF AddDealTimer
    <2> QED  BY <1>0, <1>8, <2>2, <2>3, ZenonT(60)
             DEF AddDealTimer, TypeOK, poolVars, clientVars, stopVars, history
  <1>9. CASE Start
    <2>1. m_threadId' \in [Loops -> BOOLEAN]
          /\ at' \in [Loops -> {"none", "test", "poll", "events", "tasks", "ended"}]
      BY <1>0, <1>9 DEF Start
    <2> QED  BY <1>0, <1>9, <2>1, TypeMoves DEF Start, history
  <1> QED  BY <1>1, <1>2, <1>3, <1>4, <1>5, <1>6, <1>7, <1>8, <1>9 DEF MainStep

LEMMA TypeLoop ==
  ASSUME StartInv, NEW l \in Loops, LoopStep(l)
  PROVE  TypeOK'
  <1> USE DEF StartInv
  <1>0. /\ TypeOK
        /\ at \in [Loops -> {"none", "test", "poll", "events", "tasks", "ended"}]
        /\ tasks \in [Loops -> Seq(Task)] /\ m_customTasks \in [Loops -> Seq(Task)]
        /\ entered \subseteq Workers /\ dealTimers \in Nat /\ welcomed \subseteq Clients
    BY DEF TypeOK
  <1>1. CASE EnterRun(l)
    <2>1. l \in Workers
      BY <1>1, LoopsAre DEF EnterRun, BaseInv
    <2>2. at' \in [Loops -> {"none", "test", "poll", "events", "tasks", "ended"}]
      BY <1>0, <1>1 DEF EnterRun
    <2>3. entered' \subseteq Workers
      BY <1>0, <1>1, <2>1 DEF EnterRun
    <2> QED  BY <1>0, <1>1, <2>2, <2>3, ZenonT(60)
             DEF EnterRun, TypeOK, poolVars, taskVars, clientVars, stopVars
  <1>2. CASE EndThread(l) \/ Poll(l) \/ EndTasks(l)
    <2>1. at' \in [Loops -> {"none", "test", "poll", "events", "tasks", "ended"}]
      BY <1>0, <1>2 DEF EndThread, Poll, EndTasks
    <2>2. UNCHANGED <<pc, poolVars, taskVars, clientVars, dealTimers, stopVars, history,
                      running>>
      BY <1>2 DEF EndThread, Poll, EndTasks
    <2> QED  BY <1>0, <2>1, <2>2, ZenonT(60)
             DEF TypeOK, poolVars, taskVars, clientVars, stopVars, history
  <1>3. CASE TakeTasks(l)
    <2>1. at' \in [Loops -> {"none", "test", "poll", "events", "tasks", "ended"}]
      BY <1>0, <1>3 DEF TakeTasks
    <2>2. tasks' \in [Loops -> Seq(Task)] /\ m_customTasks' \in [Loops -> Seq(Task)]
      BY <1>0, <1>3 DEF TakeTasks
    <2>3. UNCHANGED <<pc, poolVars, clientVars, dealTimers, stopVars, history, running>>
      BY <1>3 DEF TakeTasks
    <2> QED  BY <1>0, <2>1, <2>2, <2>3, ZenonT(60)
             DEF TypeOK, poolVars, clientVars, stopVars, history
  <1>4. CASE RunTask(l)
    <2> DEFINE task == Head(tasks[l])
    <2>1. task \in Task /\ tasks' \in [Loops -> Seq(Task)]
      <3>1. tasks[l] \in Seq(Task) /\ tasks[l] # << >>
        BY <1>0, <1>4 DEF RunTask
      <3>2. Head(tasks[l]) \in Task /\ Tail(tasks[l]) \in Seq(Task)
        BY <3>1
      <3> QED  BY <1>0, <1>4, <3>2 DEF RunTask
    <2>2. CASE m_threadId[l]
      <3>1. Do(task)
        BY <1>4, <2>2 DEF RunTask
      <3>2. welcomed' \subseteq Clients
        BY <1>0, <2>1, <3>1 DEF Do, Task
      <3>3. dealTimers' \in Nat
        <4>1. CASE task.op = "addDeal"
          BY <1>0, <3>1, <4>1 DEF Do
        <4>2. CASE task.op = "removeDeal" /\ dealTimers > 0
          BY <1>0, <3>1, <4>2 DEF Do
        <4>3. CASE ~ (task.op = "addDeal") /\ ~ (task.op = "removeDeal" /\ dealTimers > 0)
          BY <1>0, <3>1, <4>3 DEF Do
        <4> QED  BY <4>1, <4>2, <4>3
      <3>4. UNCHANGED <<m_customTasks, running, pc, poolVars, at, m_acceptCallback,
                        connected, accepted, m_lastEventLoopNo, stopVars, history>>
        BY <1>4, <3>1 DEF RunTask, Do
      <3> QED  BY <1>0, <2>1, <3>2, <3>3, <3>4, ZenonT(60)
               DEF TypeOK, poolVars, stopVars, history
    <2>3. CASE ~ m_threadId[l]
      <3>1. AddTask(l, task) /\ UNCHANGED <<welcomed, dealTimers>>
        BY <1>4, <2>3 DEF RunTask
      <3>2. m_customTasks' \in [Loops -> Seq(Task)] /\ running' \in BOOLEAN
        BY <1>0, <2>1, <3>1, AddTaskType
      <3>3. UNCHANGED <<pc, poolVars, at, m_acceptCallback, connected, accepted,
                        m_lastEventLoopNo, stopVars, history>>
        BY <1>4 DEF RunTask
      <3> QED  BY <1>0, <2>1, <3>1, <3>2, <3>3, ZenonT(60)
               DEF TypeOK, poolVars, stopVars, history
    <2> QED  BY <2>2, <2>3
  <1> QED  BY <1>1, <1>2, <1>3, <1>4 DEF LoopStep

LEMMA TypeClients ==
  ASSUME StartInv, AcceptClient \/ Connect
  PROVE  TypeOK'
  <1> USE DEF StartInv
  <1>0. /\ TypeOK /\ MaxClients \in Nat
        /\ connected \in 0 .. MaxClients /\ accepted \in 0 .. connected
        /\ m_lastEventLoopNo \in Workers /\ m_lastEventLoopNo \in Loops
    BY StartAssumption, LoopsAre DEF TypeOK
  <1>1. CASE AcceptClient
    <2>1. accepted' \in 0 .. connected /\ accepted + 1 \in Clients
      BY <1>0, <1>1 DEF AcceptClient, Clients
    <2>2. [op |-> "welcome", client |-> accepted + 1] \in Task
      BY <2>1 DEF Task
    <2>3. /\ m_customTasks' \in [Loops -> Seq(Task)] /\ running' \in BOOLEAN
          /\ m_lastEventLoopNo' \in Workers
      <3>1. CASE m_acceptCallback
        BY <1>0, <1>1, <2>2, <3>1, AddTaskType, NextLoopType DEF AcceptClient
      <3>2. CASE ~ m_acceptCallback
        BY <1>0, <1>1, <3>2 DEF AcceptClient, TypeOK
      <3> QED  BY <3>1, <3>2
    <2>4. UNCHANGED <<pc, poolVars, at, tasks, m_acceptCallback, connected, welcomed,
                      dealTimers, stopVars, history>>
      BY <1>1 DEF AcceptClient
    <2> QED  BY <1>0, <2>1, <2>3, <2>4, ZenonT(60) DEF TypeOK, poolVars, stopVars, history
  <1>2. CASE Connect
    <2>1. connected' \in 0 .. MaxClients /\ accepted \in 0 .. connected'
      BY <1>0, <1>2 DEF Connect
    <2>2. UNCHANGED <<pc, poolVars, at, taskVars, m_acceptCallback, accepted,
                      m_lastEventLoopNo, welcomed, dealTimers, stopVars, history, running>>
      BY <1>2 DEF Connect
    <2> QED  BY <1>0, <2>1, <2>2, ZenonT(60)
             DEF TypeOK, poolVars, taskVars, stopVars, history
  <1> QED  BY <1>1, <1>2

LEMMA TypeUinit ==
  ASSUME StartInv, UinitRemove \/ UinitStop \/ Join
  PROVE  TypeOK'
  <1> USE DEF StartInv
  <1>0. TypeOK
    OBVIOUS
  <1>1. CASE UinitRemove
    <2>1. Base \in Loops /\ [op |-> "removeDeal"] \in Task
      BY LoopsAre DEF Task
    <2>2. m_customTasks' \in [Loops -> Seq(Task)] /\ running' \in BOOLEAN
      BY <1>1, <2>1, AddTaskType DEF UinitRemove
    <2>3. uinit' = "stop"
      BY <1>1 DEF UinitRemove
    <2> QED  BY <1>0, <1>1, <2>2, <2>3, ZenonT(60)
             DEF UinitRemove, TypeOK, poolVars, clientVars, history
  <1>2. CASE UinitStop
    <2>1. m_stop' \in BOOLEAN /\ uinit' = "join"
      BY <1>2 DEF UinitStop
    <2> QED  BY <1>0, <1>2, <2>1, ZenonT(60)
             DEF UinitStop, TypeOK, poolVars, taskVars, clientVars, history
  <1>3. CASE Join
    <2>1. joined' \in 0 .. NumThreads
      BY <1>3, SomeThreads DEF Join, JoinInv, TypeOK
    <2>2. uinit' \in {"join", "done"}
      BY <1>3 DEF Join
    <2> QED  BY <1>0, <1>3, <2>1, <2>2, ZenonT(60)
             DEF Join, TypeOK, poolVars, taskVars, clientVars, history
  <1> QED  BY <1>1, <1>2, <1>3

LEMMA TypeNext == ASSUME StartInv, Next PROVE TypeOK'
  BY TypeMain, TypeLoop, TypeClients, TypeUinit DEF Next

-----------------------------------------------------------------------------
(* The other parts of the invariant.                                       *)

\* What PoolInv speaks of is left alone by every step but those of main's
\* thread, and a thread that runs is not unmade.
LEMMA PoolStays ==
  ASSUME PoolInv, UNCHANGED <<pc, i, m_running, m_threadId>>, failed => failed',
         \A w \in Workers : at[w] = "none" => at'[w] = "none"
  PROVE  PoolInv'
  BY DEF PoolInv

LEMMA PoolMain ==
  ASSUME StartInv, MainStep
  PROVE  PoolInv'
  <1>0. /\ PoolInv /\ i \in 0 .. NumThreads /\ NumThreads \in Nat \ {0}
        /\ m_running \in [Loops -> BOOLEAN] /\ m_threadId \in [Loops -> BOOLEAN]
        /\ at \in [Loops -> {"none", "test", "poll", "events", "tasks", "ended"}]
        /\ \A w \in Workers : w \in Loops /\ w \in Nat /\ w < NumThreads /\ w # Base
    BY SomeThreads, LoopsAre DEF StartInv, TypeOK
  <1>1. ASSUME NEW ok \in BOOLEAN, InitLoop(ok) PROVE PoolInv'
    <2>1. pc = "inits" /\ i < NumThreads /\ at' = at /\ (failed => failed')
      BY <1>0, <1>1 DEF InitLoop, PoolInv
    <2>2. ASSUME NEW w \in Workers, w <= i PROVE m_running'[w] \/ failed'
      <3>1. CASE w = i
        <4>1. m_running'[i] = ok
          BY <1>0, <1>1, <3>1 DEF InitLoop
        <4>2. ~ ok => failed'
          BY <1>1 DEF InitLoop
        <4> QED  BY <3>1, <4>1, <4>2
      <3>2. CASE w < i
        <4>1. m_running'[w] = m_running[w]
          BY <1>0, <1>1, <3>2 DEF InitLoop
        <4>2. m_running[w] \/ failed
          BY <1>0, <2>1, <3>2 DEF PoolInv
        <4> QED  BY <2>1, <4>1, <4>2
      <3> QED  BY <1>0, <2>2, <3>1, <3>2
    <2>3. \A w \in Workers : at'[w] = "none"
      BY <1>0, <2>1 DEF PoolInv
    <2>4. CASE i + 1 < NumThreads
      <3>1. i' = i + 1 /\ pc' = "inits"
        BY <1>1, <2>1, <2>4 DEF InitLoop
      <3> QED  BY <1>0, <2>2, <2>3, <2>4, <3>1 DEF PoolInv
    <2>5. CASE ~ (i + 1 < NumThreads)
      <3>1. i' = 0 /\ pc' = "spawn"
        BY <1>1, <2>5 DEF InitLoop
      <3>2. \A w \in Workers : w <= i
        BY <1>0, <2>5
      <3> QED  BY <1>0, <2>2, <2>3, <3>1, <3>2 DEF PoolInv
    <2> QED  BY <2>4, <2>5
  <1>2. CASE Spawn
    BY <1>0, <1>2 DEF Spawn, PoolInv, poolVars, history
  <1>3. CASE SetThreadId
    BY <1>0, <1>3 DEF SetThreadId, PoolInv, history
  <1>4. ASSUME NEW ok \in BOOLEAN, InitBaseLoop(ok) PROVE PoolInv'
    <2>1. \A w \in Workers : m_running'[w] = m_running[w]
      BY <1>0, <1>4 DEF InitBaseLoop
    <2>2. failed => failed'
      BY <1>4 DEF InitBaseLoop
    <2>3. pc = "base" /\ pc' = "listen" /\ UNCHANGED <<i, m_threadId, at>>
      BY <1>4 DEF InitBaseLoop
    <2> QED  BY <1>0, <2>1, <2>2, <2>3 DEF PoolInv
  <1>5. CASE ListenFails
    BY <1>0, <1>5 DEF ListenFails, PoolInv, poolVars
  <1>6. CASE StartListen \/ SetAcceptCallback \/ AddDealTimer
    <2>1. /\ pc \in {"listen", "callback", "timer"} /\ pc' \in {"callback", "timer", "start"}
          /\ UNCHANGED <<i, m_running, m_threadId, at, failed>>
      BY <1>6 DEF StartListen, SetAcceptCallback, AddDealTimer, poolVars, history
    <2> QED  BY <1>0, <2>1 DEF PoolInv
  <1>7. CASE Start
    <2>1. \A w \in Workers : m_threadId'[w] = m_threadId[w] /\ at'[w] = at[w]
      BY <1>0, <1>7 DEF Start
    <2>2. pc = "start" /\ pc' = "loop" /\ UNCHANGED <<i, m_running, failed>>
      BY <1>7 DEF Start, history
    <2> QED  BY <1>0, <2>1, <2>2 DEF PoolInv
  <1> QED  BY <1>1, <1>2, <1>3, <1>4, <1>5, <1>6, <1>7 DEF MainStep

LEMMA PoolNext == ASSUME StartInv, Next PROVE PoolInv'
  <1>0. PoolInv /\ at \in [Loops -> {"none", "test", "poll", "events", "tasks", "ended"}]
    BY DEF StartInv, TypeOK
  <1>1. ASSUME NEW l \in Loops, LoopStep(l) PROVE PoolInv'
    <2>1. \A w \in Workers : at[w] = "none" => at'[w] = "none"
      BY <1>0, <1>1, LoopsAre
         DEF LoopStep, EnterRun, EndThread, Poll, TakeTasks, RunTask, EndTasks
    <2>2. UNCHANGED <<pc, i, m_running, m_threadId, failed>>
      BY <1>1 DEF LoopStep, EnterRun, EndThread, Poll, TakeTasks, RunTask, EndTasks,
                  poolVars, history
    <2> QED  BY <1>0, <2>1, <2>2, PoolStays
  <1>2. CASE AcceptClient \/ Connect \/ UinitRemove \/ UinitStop \/ Join
    <2>1. UNCHANGED <<pc, i, m_running, m_threadId, at, failed>>
      BY <1>2 DEF AcceptClient, Connect, UinitRemove, UinitStop, Join, poolVars, history
    <2> QED  BY <1>0, <2>1, PoolStays
  <1> QED  BY <1>1, <1>2, PoolMain DEF Next

\* A task is posted to a loop whose init succeeded, or a call had failed.
LEMMA AddTaskRuns ==
  ASSUME NEW l \in Loops, NEW task, AddTask(l, task), m_running[l] \/ failed,
         UNCHANGED failed
  PROVE  ~ running' => failed'
  BY DEF AddTask

LEMMA BaseMain ==
  ASSUME StartInv, running, MainStep
  PROVE  BaseInv'
  <1>0. /\ BaseInv /\ PoolInv /\ running
        /\ m_running \in [Loops -> BOOLEAN] /\ m_threadId \in [Loops -> BOOLEAN]
        /\ at \in [Loops -> {"none", "test", "poll", "events", "tasks", "ended"}]
        /\ i \in 0 .. NumThreads /\ NumThreads \in Nat \ {0}
        /\ m_customTasks \in [Loops -> Seq(Task)]
    BY SomeThreads DEF StartInv, TypeOK
  <1>1. ASSUME NEW ok \in BOOLEAN, InitLoop(ok) PROVE BaseInv'
    BY <1>0, <1>1 DEF InitLoop, BaseInv, taskVars, clientVars, stopVars
  <1>2. CASE Spawn
    <2>1. at'[Base] = at[Base]
      BY <1>0, <1>2, LoopsAre DEF Spawn, PoolInv, Base
    <2> QED  BY <1>0, <1>2, <2>1 DEF Spawn, BaseInv, poolVars, taskVars, clientVars, stopVars,
                                     history
  <1>3. CASE SetThreadId
    BY <1>0, <1>3 DEF SetThreadId, BaseInv, taskVars, clientVars, stopVars, history
  <1>4. ASSUME NEW ok \in BOOLEAN, InitBaseLoop(ok) PROVE BaseInv'
    <2>1. m_running'[Base] \/ failed'
      BY <1>0, <1>4, LoopsAre DEF InitBaseLoop
    <2> QED  BY <1>0, <1>4, <2>1 DEF InitBaseLoop, BaseInv, taskVars, clientVars, stopVars
  <1>5. CASE ListenFails
    BY <1>0, <1>5 DEF ListenFails, BaseInv, poolVars, taskVars, clientVars, stopVars
  <1>6. CASE StartListen
    BY <1>0, <1>6 DEF StartListen, BaseInv, poolVars, taskVars, clientVars, stopVars, history
  <1>7. CASE SetAcceptCallback
    BY <1>0, <1>7 DEF SetAcceptCallback, BaseInv, poolVars, taskVars, stopVars, history
  <1>8. CASE AddDealTimer
    <2>1. pc = "timer" /\ AddTask(Base, [op |-> "addDeal"]) /\ pc' = "start"
          /\ UNCHANGED <<poolVars, at, tasks, clientVars, stopVars, history>>
      BY <1>8 DEF AddDealTimer
    <2>2. ~ running' => failed'
      BY <1>0, <2>1, LoopsAre, AddTaskRuns DEF BaseInv, history
    <2>3. \A w \in Workers : m_customTasks'[w] = m_customTasks[w]
      BY <1>0, <2>1, LoopsAre DEF AddTask
    <2> QED  BY <1>0, <2>1, <2>2, <2>3 DEF BaseInv, poolVars, clientVars, stopVars, history
  <1>9. CASE Start
    <2>1. at'[Base] = "poll" /\ m_threadId'[Base]
      BY <1>0, <1>9, LoopsAre DEF Start
    <2> QED  BY <1>0, <1>9, <2>1 DEF Start, BaseInv, taskVars, clientVars, stopVars, history
  <1> QED  BY <1>1, <1>2, <1>3, <1>4, <1>5, <1>6, <1>7, <1>8, <1>9 DEF MainStep

\* A loop whose thread is at its tasks, with one to run, knows its thread.
LEMMA KnowsItsThread ==
  ASSUME StartInv, NEW l \in Loops, at[l] = "tasks", tasks[l] # << >>
  PROVE  m_threadId[l]
  <1>1. CASE l = Base
    BY <1>1 DEF StartInv, BaseInv
  <1>2. CASE l \in Workers
    BY <1>2 DEF StartInv, BaseInv, PoolInv
  <1> QED  BY <1>1, <1>2, LoopsAre

LEMMA BaseLoop ==
  ASSUME StartInv, running, NEW l \in Loops, LoopStep(l)
  PROVE  BaseInv'
  <1>0. /\ BaseInv /\ PoolInv /\ running
        /\ at \in [Loops -> {"none", "test", "poll", "events", "tasks", "ended"}]
        /\ m_customTasks \in [Loops -> Seq(Task)] /\ tasks \in [Loops -> Seq(Task)]
    BY DEF StartInv, TypeOK
  <1>1. CASE EnterRun(l) \/ EndThread(l) \/ Poll(l) \/ EndTasks(l)
    <2>1. UNCHANGED <<pc, m_running, m_threadId, m_customTasks, tasks, m_acceptCallback,
                      uinit, failed, running>>
      BY <1>1 DEF EnterRun, EndThread, Poll, EndTasks, poolVars, taskVars, clientVars,
                  stopVars, history
    <2>2. /\ at'[Base] \in {"none", "poll", "events", "tasks"}
          /\ at'[Base] # "none" => at[Base] # "none"
      BY <1>0, <1>1, LoopsAre DEF EnterRun, EndThread, Poll, EndTasks, BaseInv
    <2> QED  BY <1>0, <2>1, <2>2 DEF BaseInv
  <1>2. CASE TakeTasks(l)
    <2>1. UNCHANGED <<pc, m_running, m_threadId, m_acceptCallback, uinit, failed, running>>
      BY <1>2 DEF TakeTasks, poolVars, clientVars, stopVars, history
    <2>2. /\ at'[Base] \in {"none", "poll", "events", "tasks"}
          /\ at'[Base] # "none" => at[Base] # "none"
      BY <1>0, <1>2, LoopsAre DEF TakeTasks, BaseInv
    <2>3. \A w \in Workers : m_customTasks'[w] # << >> \/ tasks'[w] # << >> =>
                               m_customTasks[w] # << >> \/ tasks[w] # << >>
      BY <1>0, <1>2, LoopsAre DEF TakeTasks
    <2> QED  BY <1>0, <2>1, <2>2, <2>3 DEF BaseInv
  <1>3. CASE RunTask(l)
    <2>1. m_threadId[l]
      BY <1>3, KnowsItsThread DEF RunTask
    <2>2. UNCHANGED <<pc, m_running, m_threadId, at, m_acceptCallback, uinit, failed, running,
                      m_customTasks>>
      BY <1>3, <2>1 DEF RunTask, Do, poolVars, stopVars, history
    <2>3. \A w \in Workers : tasks'[w] # << >> => tasks[w] # << >>
      BY <1>0, <1>3, LoopsAre DEF RunTask
    <2> QED  BY <1>0, <2>2, <2>3 DEF BaseInv
  <1> QED  BY <1>1, <1>2, <1>3 DEF LoopStep

LEMMA BaseNext == ASSUME StartInv, Next PROVE BaseInv'
  <1>0. /\ BaseInv /\ PoolInv /\ TypeOK
        /\ m_customTasks \in [Loops -> Seq(Task)] /\ m_lastEventLoopNo \in Workers
    BY DEF StartInv, TypeOK
  <1>1. running
    BY DEF Next
  <1>2. CASE AcceptClient
    <2>1. pc = "loop" /\ m_acceptCallback
      BY <1>0, <1>2 DEF AcceptClient, BaseInv
    <2>2. AddTask(m_lastEventLoopNo, [op |-> "welcome", client |-> accepted + 1])
      BY <1>2, <2>1 DEF AcceptClient
    <2>3. UNCHANGED <<pc, m_running, m_threadId, at, tasks, m_acceptCallback, uinit, failed>>
      BY <1>2 DEF AcceptClient, poolVars, stopVars, history
    <2>4. m_running[m_lastEventLoopNo] \/ failed
      BY <1>0, <2>1 DEF PoolInv
    <2>5. ~ running' => failed'
      BY <1>0, <2>2, <2>3, <2>4, LoopsAre, AddTaskRuns
    <2> QED  BY <1>0, <2>1, <2>3, <2>5 DEF BaseInv
  <1>3. CASE UinitRemove
    <2>1. pc = "loop" /\ AddTask(Base, [op |-> "removeDeal"])
          /\ UNCHANGED <<pc, m_running, m_threadId, at, tasks, m_acceptCallback, failed>>
      BY <1>3 DEF UinitRemove, poolVars, clientVars, history
    <2>2. ~ running' => failed'
      BY <1>0, <2>1, LoopsAre, AddTaskRuns DEF BaseInv
    <2> QED  BY <1>0, <2>1, <2>2 DEF BaseInv
  <1>4. CASE Connect \/ UinitStop \/ Join
    <2>1. /\ UNCHANGED <<pc, m_running, m_threadId, at, m_customTasks, tasks,
                         m_acceptCallback, failed, running>>
          /\ uinit' # "none" => uinit # "none"
      BY <1>4 DEF Connect, UinitStop, Join, poolVars, taskVars, clientVars, stopVars, history
    <2> QED  BY <1>0, <2>1 DEF BaseInv
  <1> QED  BY <1>1, <1>2, <1>3, <1>4, BaseMain, BaseLoop DEF Next

LEMMA JoinNext == ASSUME StartInv, Next PROVE JoinInv'
  <1>0. /\ JoinInv /\ PoolInv /\ BaseInv
        /\ at \in [Loops -> {"none", "test", "poll", "events", "tasks", "ended"}]
        /\ i \in 0 .. NumThreads /\ joined \in 0 .. NumThreads
        /\ entered \subseteq Workers /\ NumThreads \in Nat \ {0}
        /\ \A w \in Workers : w \in Loops /\ w \in Nat /\ w < NumThreads /\ w # Base
    BY SomeThreads, LoopsAre DEF StartInv, TypeOK
  <1>1. CASE MainStep
    <2>1. UNCHANGED <<entered, uinit, joined>>
      BY <1>1 DEF MainStep, InitLoop, Spawn, SetThreadId, InitBaseLoop, ListenFails,
                  StartListen, SetAcceptCallback, AddDealTimer, Start, stopVars, history
    <2>2. \A w \in Workers : at[w] # "none" => at'[w] = at[w]
      <3>1. CASE Spawn
        <4>1. pc = "spawn" /\ at' = [at EXCEPT ![i] = "test"] /\ i \in Workers
          BY <1>0, <3>1, LoopsAre DEF Spawn, PoolInv
        <4>2. at[i] = "none"
          BY <1>0, <4>1 DEF PoolInv
        <4> QED  BY <1>0, <4>1, <4>2
      <3>2. CASE ~ Spawn
        BY <1>0, <1>1, <3>2 DEF MainStep, InitLoop, SetThreadId, InitBaseLoop, ListenFails,
                  StartListen, SetAcceptCallback, AddDealTimer, Start
      <3> QED  BY <3>1, <3>2
    <2> QED  BY <1>0, <2>1, <2>2 DEF JoinInv
  <1>2. ASSUME NEW l \in Loops, LoopStep(l) PROVE JoinInv'
    <2>1. UNCHANGED <<uinit, joined>>
      BY <1>2 DEF LoopStep, EnterRun, EndThread, Poll, TakeTasks, RunTask, EndTasks, stopVars
    <2>2. \A w \in Workers : at[w] = "ended" => at'[w] = "ended"
      BY <1>0, <1>2 DEF LoopStep, EnterRun, EndThread, Poll, TakeTasks, RunTask, EndTasks
    <2>3. \A w \in entered' : at'[w] \in {"poll", "events", "tasks"}
      BY <1>0, <1>2 DEF LoopStep, EnterRun, EndThread, Poll, TakeTasks, RunTask, EndTasks,
                        JoinInv, history
    <2> QED  BY <1>0, <2>1, <2>2, <2>3 DEF JoinInv
  <1>3. CASE AcceptClient \/ Connect \/ UinitRemove
    BY <1>0, <1>3 DEF AcceptClient, Connect, UinitRemove, stopVars, history, JoinInv
  <1>4. CASE UinitStop
    BY <1>0, <1>4 DEF UinitStop, history, JoinInv
  <1>5. CASE Join
    BY <1>0, <1>5 DEF Join, history, JoinInv
  <1> QED  BY <1>1, <1>2, <1>3, <1>4, <1>5 DEF Next

-----------------------------------------------------------------------------
(* The tasks of the loops.                                                 *)

\* A loop's tasks are swapped in only where those before have all run.
SwapInv == \A l \in Loops : tasks[l] # << >> => at[l] = "tasks"

\* NoClientLost, in parts a step can be held against: the tasks q that wait,
\* the clients they are of, that each has one, and their order.
QueuesOK(q) == q \in [Loops -> Seq(Task)]

WaitsOK(q, acc, wel) ==
    \A l \in Loops : \A n \in DOMAIN q[l] :
      IF l \in Workers
      THEN q[l][n].op = "welcome" /\ q[l][n].client <= acc /\ q[l][n].client \notin wel
      ELSE q[l][n].op # "welcome"

HasTaskOK(q, acc, wel) ==
    /\ \A c \in wel : c <= acc
    /\ \A c \in Clients : c <= acc /\ c \notin wel =>
         \E l \in Loops : \E n \in DOMAIN q[l] : q[l][n] = [op |-> "welcome", client |-> c]

OneTaskOK(q) ==
    \A l, m \in Loops : \A n \in DOMAIN q[l] : \A k \in DOMAIN q[m] :
      /\ q[l][n].op = "welcome" /\ q[m][k].op = "welcome" /\ q[l][n].client = q[m][k].client
      => l = m /\ n = k

OrderOK(q) ==
    \A l \in Loops : \A n, k \in DOMAIN q[l] :
      q[l][n].op = "welcome" /\ q[l][k].op = "welcome" /\ n < k
      => q[l][n].client < q[l][k].client

ClientsOK(q, acc, wel) ==
    QueuesOK(q) /\ WaitsOK(q, acc, wel) /\ HasTaskOK(q, acc, wel) /\ OneTaskOK(q) /\ OrderOK(q)

Queues == [l \in Loops |-> Posted(l)]

ClientInv == SwapInv /\ ClientsOK(Queues, accepted, welcomed)

\* A connection's task is posted behind the others of a worker ...
LEMMA PostWelcome ==
  ASSUME NEW q, NEW r, NEW acc \in Nat, NEW wel \in SUBSET Clients,
         ClientsOK(q, acc, wel), NEW w \in Workers, acc + 1 \in Clients,
         r = [q EXCEPT ![w] = Append(q[w], [op |-> "welcome", client |-> acc + 1])]
  PROVE  ClientsOK(r, acc + 1, wel)
  <1> DEFINE t == [op |-> "welcome", client |-> acc + 1]
  <1>1. /\ w \in Loops /\ q \in [Loops -> Seq(Task)] /\ t \in Task
        /\ t.op = "welcome" /\ t.client = acc + 1 /\ Clients \subseteq Nat
    BY LoopsAre, StartAssumption DEF ClientsOK, QueuesOK, Task, Clients
  <1> HIDE DEF t
  <1>2. /\ r[w] = Append(q[w], t) /\ \A l \in Loops : l # w => r[l] = q[l]
        /\ r \in [Loops -> Seq(Task)]
    BY <1>1 DEF t
  <1>3. /\ DOMAIN r[w] = 1 .. Len(q[w]) + 1 /\ DOMAIN q[w] = 1 .. Len(q[w])
        /\ Len(q[w]) \in Nat /\ r[w][Len(q[w]) + 1] = t
        /\ \A n \in 1 .. Len(q[w]) : r[w][n] = q[w][n]
    BY <1>1, <1>2
  <1>4. \A l \in Loops : \A n \in DOMAIN r[l] :
          \/ n \in DOMAIN q[l] /\ r[l][n] = q[l][n]
          \/ l = w /\ n = Len(q[w]) + 1 /\ r[l][n] = t
    BY <1>1, <1>2, <1>3
  <1>5. \A l \in Loops : \A n \in DOMAIN q[l] : n \in DOMAIN r[l] /\ r[l][n] = q[l][n]
    BY <1>1, <1>2, <1>3
  <1>6. \A l \in Loops : \A n \in DOMAIN q[l] : q[l][n].op = "welcome" =>
          q[l][n].client \in Clients /\ q[l][n].client <= acc
    BY <1>1 DEF ClientsOK, WaitsOK, Task
  <1>7. WaitsOK(r, acc + 1, wel)
    <2>1. acc + 1 \notin wel
      BY DEF ClientsOK, HasTaskOK
    <2>2. ASSUME NEW l \in Loops, NEW n \in DOMAIN r[l]
          PROVE  IF l \in Workers
                 THEN /\ r[l][n].op = "welcome" /\ r[l][n].client <= acc + 1
                      /\ r[l][n].client \notin wel
                 ELSE r[l][n].op # "welcome"
      <3>1. CASE n \in DOMAIN q[l] /\ r[l][n] = q[l][n]
        <4>1. IF l \in Workers
              THEN q[l][n].op = "welcome" /\ q[l][n].client \notin wel
              ELSE q[l][n].op # "welcome"
          BY <3>1 DEF ClientsOK, WaitsOK
        <4>2. q[l][n].op = "welcome" => q[l][n].client \in Nat /\ q[l][n].client <= acc
          BY <1>1, <1>6, <3>1
        <4> QED  BY <3>1, <4>1, <4>2
      <3>2. CASE l = w /\ r[l][n] = t
        BY <1>1, <2>1, <3>2
      <3> QED  BY <1>4, <3>1, <3>2
    <2> QED  BY <2>2 DEF WaitsOK
  <1>8. HasTaskOK(r, acc + 1, wel)
    <2>1. \A c \in wel : c <= acc
      BY DEF ClientsOK, HasTaskOK
    <2>2. ASSUME NEW c \in Clients, c <= acc + 1, c \notin wel
          PROVE  \E l \in Loops : \E n \in DOMAIN r[l] :
                   r[l][n] = [op |-> "welcome", client |-> c]
      <3>1. CASE c = acc + 1
        BY <1>1, <1>3, <3>1 DEF t
      <3>2. CASE c <= acc
        BY <1>5, <2>2, <3>2 DEF ClientsOK, HasTaskOK
      <3> QED  BY <1>1, <2>2, <3>1, <3>2
    <2>3. \A c \in wel : c <= acc + 1
      BY <1>1, <2>1
    <2> QED  BY <2>2, <2>3 DEF HasTaskOK
  <1>9. OneTaskOK(r)
    BY <1>1, <1>4, <1>6 DEF ClientsOK, OneTaskOK
  <1>10. OrderOK(r)
    <2> SUFFICES ASSUME NEW l \in Loops, NEW n \in DOMAIN r[l], NEW k \in DOMAIN r[l],
                        r[l][n].op = "welcome", r[l][k].op = "welcome", n < k
                 PROVE  r[l][n].client < r[l][k].client
      BY DEF OrderOK
    <2>1. n \in DOMAIN q[l] /\ r[l][n] = q[l][n]
      BY <1>2, <1>3, <1>4
    <2>2. q[l][n].client \in Nat /\ q[l][n].client <= acc
      BY <1>1, <1>6, <2>1
    <2>3. CASE k \in DOMAIN q[l] /\ r[l][k] = q[l][k]
      BY <2>1, <2>3 DEF ClientsOK, OrderOK
    <2>4. CASE r[l][k] = t
      BY <1>1, <2>1, <2>2, <2>4
    <2> QED  BY <1>4, <2>3, <2>4
  <1> QED  BY <1>2, <1>7, <1>8, <1>9, <1>10 DEF ClientsOK, QueuesOK

\* ... any other task behind those of the base loop ...
LEMMA PostOther ==
  ASSUME NEW q, NEW r, NEW acc, NEW wel, ClientsOK(q, acc, wel),
         NEW b \in Loops \ Workers, NEW t \in Task, t.op # "welcome",
         r = [q EXCEPT ![b] = Append(q[b], t)]
  PROVE  ClientsOK(r, acc, wel)
  <1>1. q \in [Loops -> Seq(Task)]
    BY DEF ClientsOK, QueuesOK
  <1>2. /\ r[b] = Append(q[b], t) /\ \A l \in Loops : l # b => r[l] = q[l]
        /\ r \in [Loops -> Seq(Task)]
    BY <1>1
  <1>3. /\ DOMAIN r[b] = 1 .. Len(q[b]) + 1 /\ DOMAIN q[b] = 1 .. Len(q[b])
        /\ Len(q[b]) \in Nat /\ r[b][Len(q[b]) + 1] = t
        /\ \A n \in 1 .. Len(q[b]) : r[b][n] = q[b][n]
    BY <1>1, <1>2
  <1>4. \A l \in Loops : \A n \in DOMAIN r[l] :
          \/ n \in DOMAIN q[l] /\ r[l][n] = q[l][n]
          \/ l \notin Workers /\ r[l][n].op # "welcome"
    BY <1>1, <1>2, <1>3
  <1>5. \A l \in Loops : \A n \in DOMAIN q[l] : n \in DOMAIN r[l] /\ r[l][n] = q[l][n]
    BY <1>1, <1>2, <1>3
  <1>6. WaitsOK(r, acc, wel)
    BY <1>4 DEF ClientsOK, WaitsOK
  <1>7. HasTaskOK(r, acc, wel)
    BY <1>5 DEF ClientsOK, HasTaskOK
  <1>8. OneTaskOK(r)
    BY <1>4 DEF ClientsOK, OneTaskOK
  <1>9. OrderOK(r)
    BY <1>4 DEF ClientsOK, OrderOK
  <1> QED  BY <1>2, <1>6, <1>7, <1>8, <1>9 DEF ClientsOK, QueuesOK

\* ... and a loop takes its first.
LEMMA TakeWelcome ==
  ASSUME NEW q, NEW r, NEW acc \in Nat, NEW wel, NEW wel1, ClientsOK(q, acc, wel),
         NEW l0 \in Loops, q[l0] # << >>, r = [q EXCEPT ![l0] = Tail(q[l0])],
         wel1 = IF Head(q[l0]).op = "welcome" THEN wel \cup {Head(q[l0]).client} ELSE wel
  PROVE  ClientsOK(r, acc, wel1)
  <1>1. /\ q \in [Loops -> Seq(Task)] /\ q[l0] \in Seq(Task)
        /\ \A t \in Task : t.op = "welcome" =>
             t.client \in Clients /\ t = [op |-> "welcome", client |-> t.client]
    BY DEF ClientsOK, QueuesOK, Task
  <1>2. /\ Len(q[l0]) \in Nat \ {0} /\ DOMAIN q[l0] = 1 .. Len(q[l0])
        /\ Head(q[l0]) = q[l0][1] /\ 1 \in DOMAIN q[l0] /\ q[l0][1] \in Task
    BY <1>1
  <1>3. /\ r[l0] = Tail(q[l0]) /\ r[l0] \in Seq(Task)
        /\ DOMAIN r[l0] = 1 .. Len(q[l0]) - 1
        /\ \A n \in DOMAIN r[l0] : r[l0][n] = q[l0][n + 1]
    BY <1>1, <1>2
  <1>4. /\ \A l \in Loops : l # l0 => r[l] = q[l]
        /\ r \in [Loops -> Seq(Task)]
    BY <1>1, <1>3
  <1> DEFINE was(l, n) == IF l = l0 THEN n + 1 ELSE n
  <1>5. \A l \in Loops : \A n \in DOMAIN r[l] :
          /\ n \in Int /\ was(l, n) \in DOMAIN q[l] /\ r[l][n] = q[l][was(l, n)]
          /\ ~ (l = l0 /\ was(l, n) = 1)
    BY <1>1, <1>2, <1>3, <1>4
  <1>6. \A l \in Loops : \A n \in DOMAIN q[l] : (l = l0 /\ n = 1)
          \/ \E k \in DOMAIN r[l] : r[l][k] = q[l][n]
    <2> TAKE l \in Loops
    <2>1. CASE l = l0
      <3> SUFFICES ASSUME NEW n \in DOMAIN q[l0], n # 1
                   PROVE  n - 1 \in DOMAIN r[l0] /\ r[l0][n - 1] = q[l0][n]
        BY <2>1
      <3> QED  BY <1>2, <1>3
    <2>2. CASE l # l0
      BY <1>4, <2>2
    <2> QED  BY <2>1, <2>2
  <1>7. WaitsOK(r, acc, wel1)
    <2>1. ASSUME NEW l \in Loops, NEW n \in DOMAIN r[l]
          PROVE  IF l \in Workers
                 THEN /\ r[l][n].op = "welcome" /\ r[l][n].client <= acc
                      /\ r[l][n].client \notin wel1
                 ELSE r[l][n].op # "welcome"
      <3>1. /\ was(l, n) \in DOMAIN q[l] /\ r[l][n] = q[l][was(l, n)]
            /\ ~ (l = l0 /\ was(l, n) = 1)
        BY <1>5
      <3>2. IF l \in Workers
            THEN r[l][n].op = "welcome" /\ r[l][n].client <= acc /\ r[l][n].client \notin wel
            ELSE r[l][n].op # "welcome"
        BY <3>1 DEF ClientsOK, WaitsOK
      <3>3. Head(q[l0]).op = "welcome" /\ r[l][n].op = "welcome" =>
              r[l][n].client # Head(q[l0]).client
        BY <1>2, <3>1 DEF ClientsOK, OneTaskOK
      <3> QED  BY <3>2, <3>3
    <2> QED  BY <2>1 DEF WaitsOK
  <1>8. HasTaskOK(r, acc, wel1)
    <2>1. \A c \in wel1 : c <= acc
      BY <1>2 DEF ClientsOK, WaitsOK, HasTaskOK
    <2>2. ASSUME NEW c \in Clients, c <= acc, c \notin wel1
          PROVE  \E l \in Loops : \E n \in DOMAIN r[l] :
                   r[l][n] = [op |-> "welcome", client |-> c]
      <3>1. c \notin wel
        BY <2>2
      <3>2. PICK l \in Loops : \E n \in DOMAIN q[l] :
                   q[l][n] = [op |-> "welcome", client |-> c]
        BY <2>2, <3>1 DEF ClientsOK, HasTaskOK
      <3>3. PICK n \in DOMAIN q[l] : q[l][n] = [op |-> "welcome", client |-> c]
        BY <3>2
      <3>4. ~ (l = l0 /\ n = 1)
        BY <1>2, <2>2, <3>3
      <3> QED  BY <1>6, <3>3, <3>4
    <2> QED  BY <2>1, <2>2 DEF HasTaskOK
  <1>9. OneTaskOK(r)
    <2> SUFFICES ASSUME NEW l \in Loops, NEW m \in Loops, NEW n \in DOMAIN r[l],
                        NEW k \in DOMAIN r[m], r[l][n].op = "welcome",
                        r[m][k].op = "welcome", r[l][n].client = r[m][k].client
                 PROVE  l = m /\ n = k
      BY DEF OneTaskOK
    <2>1. was(l, n) \in DOMAIN q[l] /\ r[l][n] = q[l][was(l, n)] /\ n \in Int
      BY <1>5
    <2>2. was(m, k) \in DOMAIN q[m] /\ r[m][k] = q[m][was(m, k)] /\ k \in Int
      BY <1>5
    <2> HIDE DEF was
    <2>3. l = m /\ was(l, n) = was(m, k)
      BY <2>1, <2>2 DEF ClientsOK, OneTaskOK
    <2> QED  BY <2>1, <2>2, <2>3 DEF was
  <1>10. OrderOK(r)
    <2> SUFFICES ASSUME NEW l \in Loops, NEW n \in DOMAIN r[l], NEW k \in DOMAIN r[l],
                        r[l][n].op = "welcome", r[l][k].op = "welcome", n < k
                 PROVE  r[l][n].client < r[l][k].client
      BY DEF OrderOK
    <2>1. was(l, n) < was(l, k)
      BY <1>5
    <2> QED  BY <1>5, <2>1 DEF ClientsOK, OrderOK
  <1> QED  BY <1>4, <1>7, <1>8, <1>9, <1>10 DEF ClientsOK, QueuesOK

\* A task behind the second of two queues, one behind a single one, and the
\* first of the first.
LEMMA AppendBehind ==
  ASSUME NEW S, NEW a \in Seq(S), NEW b \in Seq(S), NEW e \in S
  PROVE  a \o Append(b, e) = Append(a \o b, e)
  <1>1. /\ a \o Append(b, e) \in Seq(S) /\ Append(a \o b, e) \in Seq(S)
        /\ Len(a \o Append(b, e)) = Len(a) + Len(b) + 1
        /\ Len(Append(a \o b, e)) = Len(a) + Len(b) + 1
    OBVIOUS
  <1>2. \A n \in 1 .. Len(a) + Len(b) + 1 :
          (a \o Append(b, e))[n] = Append(a \o b, e)[n]
    OBVIOUS
  <1> QED  BY <1>1, <1>2

LEMMA BehindOne == ASSUME NEW e, NEW f PROVE Append(<<e>>, f) = <<e, f>>
  <1>1. /\ <<e>> \in Seq({e, f}) /\ Len(<<e>>) = 1 /\ <<e>>[1] = e
        /\ <<e, f>> \in Seq({e, f}) /\ Len(<<e, f>>) = 2 /\ <<e, f>>[1] = e /\ <<e, f>>[2] = f
    OBVIOUS
  <1>2. /\ Append(<<e>>, f) \in Seq({e, f}) /\ Len(Append(<<e>>, f)) = 2
        /\ Append(<<e>>, f)[1] = e /\ Append(<<e>>, f)[2] = f
    BY <1>1
  <1>3. \A s, t \in Seq({e, f}) :
          Len(s) = 2 /\ Len(t) = 2 /\ s[1] = t[1] /\ s[2] = t[2] => s = t
    <2> SUFFICES ASSUME NEW s \in Seq({e, f}), NEW t \in Seq({e, f}),
                        Len(s) = 2, Len(t) = 2, s[1] = t[1], s[2] = t[2]
                 PROVE  s = t
      OBVIOUS
    <2>1. \A n \in 1 .. 2 : s[n] = t[n]
      OBVIOUS
    <2> QED  BY <2>1
  <1> QED  BY <1>1, <1>2, <1>3

LEMMA TakeFirst ==
  ASSUME NEW S, NEW a \in Seq(S), NEW b \in Seq(S), a # << >>
  PROVE  a \o b # << >> /\ Head(a \o b) = Head(a) /\ Tail(a \o b) = Tail(a) \o b
  <1>1. /\ a \o b \in Seq(S) /\ Len(a \o b) = Len(a) + Len(b) /\ Len(a) \in Nat \ {0}
        /\ Len(b) \in Nat /\ (a \o b)[1] = a[1]
    OBVIOUS
  <1>2. /\ Tail(a \o b) \in Seq(S) /\ Tail(a) \in Seq(S) /\ Tail(a) \o b \in Seq(S)
        /\ Len(Tail(a \o b)) = Len(a) + Len(b) - 1
        /\ Len(Tail(a) \o b) = Len(a) + Len(b) - 1
    BY <1>1
  <1>3. \A n \in 1 .. Len(a) + Len(b) - 1 : Tail(a \o b)[n] = (Tail(a) \o b)[n]
    BY <1>1, <1>2
  <1>4. Tail(a \o b) = Tail(a) \o b
    BY <1>1, <1>2, <1>3
  <1> QED  BY <1>1, <1>4

\* What AddTask posts goes behind the tasks of that loop.
LEMMA AddTaskPosts ==
  ASSUME TypeOK, NEW l \in Loops, NEW task \in Task, AddTask(l, task), UNCHANGED tasks
  PROVE  Queues' = [Queues EXCEPT ![l] = Append(Queues[l], task)]
  <1>1. /\ tasks[l] \in Seq(Task) /\ m_customTasks[l] \in Seq(Task)
        /\ m_customTasks'[l] = Append(m_customTasks[l], task)
        /\ \A m \in Loops : m # l => m_customTasks'[m] = m_customTasks[m]
    BY DEF TypeOK, AddTask
  <1>2. tasks[l] \o Append(m_customTasks[l], task) = Append(tasks[l] \o m_customTasks[l], task)
    <2>1. \A a, b \in Seq(Task) : a \o Append(b, task) = Append(a \o b, task)
      BY AppendBehind
    <2> QED  BY <1>1, <2>1
  <1> QED  BY <1>1, <1>2 DEF Queues, Posted

\* The swap neither loses nor reorders a task.
LEMMA TakeTasksKeeps ==
  ASSUME TypeOK, SwapInv, NEW l \in Loops, TakeTasks(l)
  PROVE  SwapInv' /\ Queues' = Queues
  <1>1. /\ tasks[l] = << >> /\ m_customTasks[l] \in Seq(Task)
        /\ tasks'[l] = m_customTasks[l] /\ m_customTasks'[l] = << >> /\ at'[l] = "tasks"
        /\ \A m \in Loops : m # l => /\ tasks'[m] = tasks[m] /\ at'[m] = at[m]
                                     /\ m_customTasks'[m] = m_customTasks[m]
    BY DEF TypeOK, SwapInv, TakeTasks
  <1>2. << >> \o m_customTasks[l] = m_customTasks[l] /\ m_customTasks[l] \o << >> = m_customTasks[l]
    BY <1>1
  <1>3. SwapInv'
    BY <1>1 DEF SwapInv
  <1> QED  BY <1>1, <1>2, <1>3 DEF Queues, Posted

\* A task that runs is the first of its loop's, and runs to its end.
LEMMA RunTaskTakes ==
  ASSUME StartInv, SwapInv, NEW l \in Loops, RunTask(l)
  PROVE  /\ Queues[l] # << >> /\ Queues' = [Queues EXCEPT ![l] = Tail(Queues[l])]
         /\ Do(Head(Queues[l])) /\ UNCHANGED <<at, accepted, pc, uinit>> /\ SwapInv'
  <1>1. /\ at[l] = "tasks" /\ tasks[l] # << >> /\ m_threadId[l]
        /\ tasks[l] \in Seq(Task) /\ m_customTasks[l] \in Seq(Task)
    BY KnowsItsThread DEF StartInv, TypeOK, RunTask
  <1>2. /\ Do(Head(tasks[l])) /\ UNCHANGED <<m_customTasks, at, accepted, pc, uinit>>
        /\ tasks'[l] = Tail(tasks[l]) /\ \A m \in Loops : m # l => tasks'[m] = tasks[m]
    BY <1>1 DEF StartInv, TypeOK, RunTask, Do, stopVars
  <1>3. /\ tasks[l] \o m_customTasks[l] # << >>
        /\ Head(tasks[l] \o m_customTasks[l]) = Head(tasks[l])
        /\ Tail(tasks[l] \o m_customTasks[l]) = Tail(tasks[l]) \o m_customTasks[l]
    BY <1>1, TakeFirst
  <1>4. SwapInv'
    BY <1>1, <1>2 DEF SwapInv
  <1>5. Queues[l] = tasks[l] \o m_customTasks[l]
    BY DEF Queues, Posted
  <1>6. Queues' = [Queues EXCEPT ![l] = Tail(Queues[l])]
    BY <1>2, <1>3 DEF Queues, Posted
  <1> QED  BY <1>2, <1>3, <1>4, <1>5, <1>6

\* The deal timer in the base loop's tasks: main's thread posts its addition,
\* uinit its removal, and they run in that order.
AddTimer == [op |-> "addDeal"]
RemoveTimer == [op |-> "removeDeal"]

DealTimerInv ==
    \/ pc \notin {"start", "loop"} /\ Queues[Base] = << >> /\ dealTimers = 0
    \/ /\ pc \in {"start", "loop"} /\ uinit = "none"
       /\ \/ Queues[Base] = <<AddTimer>> /\ dealTimers = 0
          \/ Queues[Base] = << >> /\ dealTimers = 1
    \/ /\ pc = "loop" /\ uinit # "none"
       /\ \/ Queues[Base] = <<AddTimer, RemoveTimer>> /\ dealTimers = 0
          \/ Queues[Base] = <<RemoveTimer>> /\ dealTimers = 1
          \/ Queues[Base] = << >> /\ dealTimers = 0

\* What a step does with the tasks: nothing, ...
TasksStay ==
    /\ Queues' = Queues /\ UNCHANGED <<accepted, welcomed, dealTimers>>
    /\ pc \in {"start", "loop"} <=> pc' \in {"start", "loop"}
    /\ pc = "loop" => pc' = "loop"
    /\ uinit = "none" <=> uinit' = "none"

\* ... post one behind the others of its loop, ...
Posts(l, task) ==
    /\ Queues' = [Queues EXCEPT ![l] = Append(Queues[l], task)]
    /\ UNCHANGED <<welcomed, dealTimers>>

PostsWelcome ==
    /\ Posts(m_lastEventLoopNo, [op |-> "welcome", client |-> accepted + 1])
    /\ accepted + 1 \in Clients /\ accepted' = accepted + 1 /\ UNCHANGED <<pc, uinit>>

PostsTimer ==
    \/ Posts(Base, AddTimer) /\ pc = "timer" /\ pc' = "start" /\ UNCHANGED <<accepted, uinit>>
    \/ /\ Posts(Base, RemoveTimer) /\ uinit = "none" /\ uinit' = "stop" /\ pc = "loop"
       /\ UNCHANGED <<accepted, pc>>

\* ... or run the first of a loop.
RunsFirst(l) ==
    /\ Queues[l] # << >> /\ Queues' = [Queues EXCEPT ![l] = Tail(Queues[l])]
    /\ Do(Head(Queues[l])) /\ UNCHANGED <<accepted, pc, uinit>>

LEMMA StepTasks ==
  ASSUME StartInv, SwapInv, Next
  PROVE  /\ SwapInv'
         /\ TasksStay \/ PostsWelcome \/ PostsTimer \/ \E l \in Loops : RunsFirst(l)
  <1>0. /\ TypeOK /\ at \in [Loops -> {"none", "test", "poll", "events", "tasks", "ended"}]
        /\ tasks \in [Loops -> Seq(Task)] /\ BaseInv /\ JoinInv /\ running
        /\ m_lastEventLoopNo \in Loops
    BY LoopsAre DEF StartInv, TypeOK, Next
  <1>1. CASE MainStep /\ ~ AddDealTimer
    <2>1. /\ UNCHANGED <<tasks, m_customTasks, accepted, welcomed, dealTimers, uinit>>
          /\ pc \in {"start", "loop"} <=> pc' \in {"start", "loop"}
          /\ pc # "loop"
      BY <1>1 DEF MainStep, InitLoop, Spawn, SetThreadId, InitBaseLoop, ListenFails,
         StartListen, SetAcceptCallback, Start, taskVars, clientVars, stopVars
    <2>2. \A l \in Loops : tasks[l] # << >> => at'[l] = at[l]
      <3>1. \A l \in Loops : at[l] = "none" => tasks[l] = << >>
        BY <1>0 DEF SwapInv
      <3>2. \A l \in Loops : at[l] # "none" => at'[l] = at[l]
        <4>1. CASE Spawn
          <5>1. at' = [at EXCEPT ![i] = "test"] /\ i \in Workers /\ at[i] = "none"
            BY <4>1, LoopsAre, SomeThreads DEF Spawn, StartInv, PoolInv, TypeOK
          <5> QED  BY <1>0, <5>1, LoopsAre
        <4>2. CASE Start
          BY <1>0, <4>2, LoopsAre DEF Start, BaseInv
        <4>3. CASE ~ Spawn /\ ~ Start
          BY <1>1, <4>3 DEF MainStep, InitLoop, SetThreadId, InitBaseLoop, ListenFails,
             StartListen, SetAcceptCallback
        <4> QED  BY <4>1, <4>2, <4>3
      <3> QED  BY <3>1, <3>2
    <2>3. SwapInv'
      BY <2>1, <2>2 DEF SwapInv
    <2>4. Queues' = Queues
      BY <2>1 DEF Queues, Posted
    <2> QED  BY <2>1, <2>3, <2>4 DEF TasksStay
  <1>2. CASE AddDealTimer
    <2>1. /\ pc = "timer" /\ pc' = "start" /\ AddTask(Base, AddTimer)
          /\ UNCHANGED <<tasks, at, accepted, welcomed, dealTimers, uinit>>
      BY <1>2 DEF AddDealTimer, AddTimer, clientVars, stopVars
    <2>2. Base \in Loops /\ AddTimer \in Task
      BY LoopsAre DEF AddTimer, Task
    <2>3. Queues' = [Queues EXCEPT ![Base] = Append(Queues[Base], AddTimer)]
      BY <1>0, <2>1, <2>2, AddTaskPosts
    <2>4. SwapInv'
      BY <2>1 DEF SwapInv
    <2> QED  BY <2>1, <2>3, <2>4 DEF PostsTimer, Posts
  <1>3. CASE UinitRemove
    <2>1. /\ pc = "loop" /\ uinit = "none" /\ uinit' = "stop" /\ AddTask(Base, RemoveTimer)
          /\ UNCHANGED <<tasks, at, accepted, welcomed, dealTimers, pc>>
      BY <1>3 DEF UinitRemove, RemoveTimer, clientVars
    <2>2. Base \in Loops /\ RemoveTimer \in Task
      BY LoopsAre DEF RemoveTimer, Task
    <2>3. Queues' = [Queues EXCEPT ![Base] = Append(Queues[Base], RemoveTimer)]
      BY <1>0, <2>1, <2>2, AddTaskPosts
    <2>4. SwapInv'
      BY <2>1 DEF SwapInv
    <2> QED  BY <2>1, <2>3, <2>4 DEF PostsTimer, Posts
  <1>4. CASE AcceptClient
    <2> DEFINE task == [op |-> "welcome", client |-> accepted + 1]
    <2>1. /\ AddTask(m_lastEventLoopNo, task) /\ accepted' = accepted + 1
          /\ UNCHANGED <<tasks, at, welcomed, dealTimers, pc, uinit>>
      BY <1>0, <1>4 DEF AcceptClient, BaseInv, stopVars
    <2>2. accepted + 1 \in Clients
      BY <1>0, <1>4, StartAssumption DEF AcceptClient, TypeOK, Clients
    <2>3. task \in Task
      BY <2>2 DEF Task
    <2>4. Queues' = [Queues EXCEPT ![m_lastEventLoopNo] = Append(Queues[m_lastEventLoopNo], task)]
      BY <1>0, <2>1, <2>3, AddTaskPosts
    <2>5. SwapInv'
      BY <2>1 DEF SwapInv
    <2> QED  BY <2>1, <2>2, <2>4, <2>5 DEF PostsWelcome, Posts
  <1>5. CASE Connect \/ UinitStop \/ Join
    <2>1. /\ UNCHANGED <<tasks, m_customTasks, at, accepted, welcomed, dealTimers, pc>>
          /\ uinit = "none" <=> uinit' = "none"
      <3>1. CASE Connect
        BY <3>1 DEF Connect, taskVars, stopVars
      <3>2. CASE UinitStop
        BY <3>2 DEF UinitStop, taskVars, clientVars
      <3>3. CASE Join
        <4>1. uinit = "join" /\ uinit' \in {"join", "done"}
          BY <3>3 DEF Join
        <4> QED  BY <3>3, <4>1 DEF Join, taskVars, clientVars
      <3> QED  BY <1>5, <3>1, <3>2, <3>3
    <2>2. Queues' = Queues /\ SwapInv'
      BY <2>1 DEF Queues, Posted, SwapInv
    <2> QED  BY <2>1, <2>2 DEF TasksStay
  <1>6. ASSUME NEW l \in Loops, EnterRun(l) \/ EndThread(l) \/ Poll(l) \/ EndTasks(l)
        PROVE  TasksStay /\ SwapInv'
    <2>1. /\ UNCHANGED <<tasks, m_customTasks, accepted, welcomed, dealTimers, pc, uinit>>
          /\ \A m \in Loops : m # l => at'[m] = at[m]
          /\ at[l] = "tasks" => tasks[l] = << >>
      BY <1>0, <1>6 DEF EnterRun, EndThread, Poll, EndTasks, taskVars, clientVars, stopVars
    <2>2. Queues' = Queues
      BY <2>1 DEF Queues, Posted
    <2>3. SwapInv'
      BY <2>1 DEF SwapInv
    <2> QED  BY <2>1, <2>2, <2>3 DEF TasksStay
  <1>7. ASSUME NEW l \in Loops, TakeTasks(l)
        PROVE  TasksStay /\ SwapInv'
    <2>1. UNCHANGED <<accepted, welcomed, dealTimers, pc, uinit>>
      BY <1>7 DEF TakeTasks, clientVars, stopVars
    <2> QED  BY <1>0, <1>7, <2>1, TakeTasksKeeps DEF TasksStay
  <1>8. ASSUME NEW l \in Loops, RunTask(l)
        PROVE  RunsFirst(l) /\ SwapInv'
    BY <1>8, RunTaskTakes DEF RunsFirst
  <1> QED  BY <1>1, <1>2, <1>3, <1>4, <1>5, <1>6, <1>7, <1>8 DEF Next, LoopStep

LEMMA ClientStep ==
  ASSUME StartInv, ClientInv, Next
  PROVE  ClientInv'
  <1>0. /\ accepted \in Nat /\ welcomed \in SUBSET Clients /\ m_lastEventLoopNo \in Workers
        /\ ClientsOK(Queues, accepted, welcomed)
    BY StartAssumption DEF StartInv, TypeOK, ClientInv
  <1>1. SwapInv'
    BY StepTasks DEF ClientInv
  <1>2. CASE TasksStay
    BY <1>0, <1>1, <1>2 DEF TasksStay, ClientInv
  <1>3. CASE PostsWelcome
    <2>1. ClientsOK(Queues', accepted + 1, welcomed)
      BY <1>0, <1>3, PostWelcome DEF PostsWelcome, Posts
    <2> QED  BY <1>1, <1>3, <2>1 DEF PostsWelcome, Posts, ClientInv
  <1>4. CASE PostsTimer
    <2>1. PICK t \in {AddTimer, RemoveTimer} : Posts(Base, t) /\ UNCHANGED accepted
      BY <1>4 DEF PostsTimer
    <2>2. t \in Task /\ t.op # "welcome" /\ Base \in Loops \ Workers
      BY LoopsAre DEF AddTimer, RemoveTimer, Task
    <2>3. ClientsOK(Queues', accepted, welcomed)
      BY <1>0, <2>1, <2>2, PostOther DEF Posts
    <2> QED  BY <1>1, <2>1, <2>3 DEF Posts, ClientInv
  <1>5. ASSUME NEW l \in Loops, RunsFirst(l) PROVE ClientInv'
    <2>1. /\ Queues[l] # << >> /\ Queues' = [Queues EXCEPT ![l] = Tail(Queues[l])]
          /\ welcomed' = IF Head(Queues[l]).op = "welcome"
                         THEN welcomed \cup {Head(Queues[l]).client} ELSE welcomed
          /\ accepted' = accepted
      BY <1>5 DEF RunsFirst, Do
    <2>2. \A r, wel : r = [Queues EXCEPT ![l] = Tail(Queues[l])] /\
            wel = (IF Head(Queues[l]).op = "welcome"
                   THEN welcomed \cup {Head(Queues[l]).client} ELSE welcomed) =>
            ClientsOK(r, accepted, wel)
      BY <1>0, <2>1, TakeWelcome
    <2>3. ClientsOK(Queues', accepted, welcomed')
      BY <2>1, <2>2, Zenon
    <2> QED  BY <1>1, <2>1, <2>3 DEF ClientInv
  <1> QED  BY <1>2, <1>3, <1>4, <1>5, StepTasks DEF ClientInv

LEMMA DealTimerStep ==
  ASSUME StartInv, ClientInv, DealTimerInv, Next
  PROVE  DealTimerInv'
  <1>0. /\ Base \in Loops /\ Base \notin Workers /\ Queues \in [Loops -> Seq(Task)]
        /\ m_lastEventLoopNo \in Workers /\ (uinit # "none" => pc = "loop")
        /\ AddTimer.op = "addDeal" /\ RemoveTimer.op = "removeDeal"
    BY LoopsAre DEF StartInv, TypeOK, BaseInv, ClientInv, ClientsOK, QueuesOK, AddTimer, RemoveTimer
  <1>1. CASE TasksStay
    BY <1>0, <1>1 DEF TasksStay, DealTimerInv
  <1>2. CASE PostsWelcome
    <2>1. Queues'[Base] = Queues[Base]
      BY <1>0, <1>2 DEF PostsWelcome, Posts
    <2> QED  BY <1>2, <2>1 DEF PostsWelcome, Posts, DealTimerInv
  <1>3. CASE Posts(Base, AddTimer) /\ pc = "timer" /\ pc' = "start" /\ UNCHANGED uinit
    <2>1. Queues[Base] = << >> /\ dealTimers = 0 /\ uinit = "none"
      BY <1>0, <1>3 DEF DealTimerInv
    <2>2. Queues'[Base] = <<AddTimer>> /\ dealTimers' = 0
      BY <1>0, <1>3, <2>1 DEF Posts
    <2> QED  BY <1>3, <2>1, <2>2 DEF DealTimerInv
  <1>4. CASE /\ Posts(Base, RemoveTimer) /\ uinit = "none" /\ uinit' = "stop"
             /\ pc = "loop" /\ UNCHANGED pc
    <2>1. \/ Queues[Base] = <<AddTimer>> /\ dealTimers = 0
          \/ Queues[Base] = << >> /\ dealTimers = 1
      BY <1>4 DEF DealTimerInv
    <2>2. Queues'[Base] = Append(Queues[Base], RemoveTimer) /\ dealTimers' = dealTimers
      BY <1>0, <1>4 DEF Posts
    <2>3. \/ Queues'[Base] = <<AddTimer, RemoveTimer>> /\ dealTimers' = 0
          \/ Queues'[Base] = <<RemoveTimer>> /\ dealTimers' = 1
      <3>1. CASE Queues[Base] = <<AddTimer>> /\ dealTimers = 0
        <4>1. Append(<<AddTimer>>, RemoveTimer) = <<AddTimer, RemoveTimer>>
          BY BehindOne
        <4> QED  BY <2>2, <3>1, <4>1
      <3>2. CASE Queues[Base] = << >> /\ dealTimers = 1
        <4>1. Append(<< >>, RemoveTimer) = <<RemoveTimer>>
          OBVIOUS
        <4> QED  BY <2>2, <3>2, <4>1
      <3> QED  BY <2>1, <3>1, <3>2
    <2> QED  BY <1>4, <2>3 DEF DealTimerInv
  <1>5. ASSUME NEW l \in Loops, RunsFirst(l) PROVE DealTimerInv'
    <2>1. CASE l # Base
      <3>1. Queues'[Base] = Queues[Base]
        BY <1>0, <1>5, <2>1 DEF RunsFirst
      <3>2. Head(Queues[l]).op = "welcome"
        <4>1. l \in Workers /\ Len(Queues[l]) # 0 /\ Queues[l] \in Seq(Task)
          BY <1>0, <1>5, <2>1, LoopsAre DEF RunsFirst
        <4>2. 1 \in DOMAIN Queues[l] /\ Head(Queues[l]) = Queues[l][1]
          BY <4>1
        <4> QED  BY <4>1, <4>2 DEF ClientInv, ClientsOK, WaitsOK
      <3> QED  BY <1>5, <3>1, <3>2 DEF RunsFirst, Do, DealTimerInv
    <2>2. CASE l = Base
      <3>1. CASE Queues[Base] = <<AddTimer>>
        BY <1>0, <1>5, <2>2, <3>1 DEF RunsFirst, Do, DealTimerInv
      <3>2. CASE Queues[Base] = <<AddTimer, RemoveTimer>>
        BY <1>0, <1>5, <2>2, <3>2 DEF RunsFirst, Do, DealTimerInv
      <3>3. CASE Queues[Base] = <<RemoveTimer>>
        BY <1>0, <1>5, <2>2, <3>3 DEF RunsFirst, Do, DealTimerInv
      <3> QED  BY <1>5, <2>2, <3>1, <3>2, <3>3 DEF RunsFirst, DealTimerInv
    <2> QED  BY <2>1, <2>2
  <1> QED  BY <1>1, <1>2, <1>3, <1>4, <1>5, StepTasks DEF PostsTimer, ClientInv

-----------------------------------------------------------------------------
(* The theorems.                                                           *)

LEMMA StartInvInit == ASSUME Init PROVE StartInv
  <1>1. TypeOK
    <2>1. << >> \in Seq(Task)
      OBVIOUS
    <2>2. /\ m_customTasks \in [Loops -> Seq(Task)] /\ tasks \in [Loops -> Seq(Task)]
          /\ m_running \in [Loops -> BOOLEAN] /\ m_threadId \in [Loops -> BOOLEAN]
          /\ at \in [Loops -> {"none", "test", "poll", "events", "tasks", "ended"}]
      BY <2>1 DEF Init
    <2>3. /\ i \in 0 .. NumThreads /\ connected \in 0 .. MaxClients
          /\ accepted \in 0 .. connected /\ joined \in 0 .. NumThreads /\ dealTimers \in Nat
      BY SomeThreads, StartAssumption DEF Init
    <2> QED  BY <2>2, <2>3, LoopsAre, ZenonT(60) DEF Init, TypeOK
  <1>2. PoolInv
    BY SomeThreads, LoopsAre DEF Init, PoolInv
  <1>3. BaseInv
    BY LoopsAre DEF Init, BaseInv
  <1>4. JoinInv
    BY LoopsAre DEF Init, JoinInv
  <1> QED  BY <1>1, <1>2, <1>3, <1>4 DEF StartInv

LEMMA StartInvStays == ASSUME StartInv, [Next]_vars PROVE StartInv'
  <1>1. CASE Next
    BY <1>1, TypeNext, PoolNext, BaseNext, JoinNext DEF StartInv
  <1>2. CASE UNCHANGED vars
    <2>1. UNCHANGED <<pc, i, m_running, m_threadId, at, m_customTasks, tasks,
                      m_acceptCallback, connected, accepted, m_lastEventLoopNo, welcomed,
                      dealTimers, m_stop, uinit, joined, entered, failed, running>>
      BY <1>2 DEF vars, poolVars, taskVars, clientVars, stopVars, history
    <2>2. TypeOK'
      BY <2>1, ZenonT(60) DEF StartInv, TypeOK
    <2>3. PoolInv' /\ BaseInv' /\ JoinInv'
      BY <2>1 DEF StartInv, PoolInv, BaseInv, JoinInv
    <2> QED  BY <2>2, <2>3 DEF StartInv
  <1> QED  BY <1>1, <1>2

LEMMA StartInvAlways == Spec => []StartInv
  BY StartInvInit, StartInvStays, PTL DEF Spec

\* The variables of the start keep their types, whatever fails: no counter of
\* ThreadPoll leaves its array.
THEOREM StartTypeOK == Spec => []TypeOK
  <1>1. StartInv => TypeOK
    BY DEF StartInv
  <1> QED  BY <1>1, StartInvAlways, PTL

\* addTimerInternal, removeTimerInternal and send never find themselves on a
\* loop that does not know its thread: no task posts itself again.
THEOREM TasksFindTheirThreadAlways == Spec => []TasksFindTheirThread
  <1>1. StartInv => TasksFindTheirThread
    BY KnowsItsThread DEF TasksFindTheirThread
  <1> QED  BY <1>1, StartInvAlways, PTL

\* Without a failed call of the system the server comes up and stays up,
\* however the clients' connections fall into its start.
THEOREM EndsOnlyOfFailureAlways == Spec => []EndsOnlyOfFailure
  <1>1. StartInv => EndsOnlyOfFailure
    BY DEF StartInv, BaseInv, EndsOnlyOfFailure
  <1> QED  BY <1>1, StartInvAlways, PTL

LEMMA ClientInvInit == ASSUME Init PROVE ClientInv /\ DealTimerInv
  <1>1. \A l \in Loops : tasks[l] = << >> /\ m_customTasks[l] = << >>
    BY DEF Init
  <1>2. Queues = [l \in Loops |-> << >>]
    <2>1. << >> \o << >> = << >>
      OBVIOUS
    <2> QED  BY <1>1, <2>1 DEF Queues, Posted
  <1>3. QueuesOK(Queues) /\ DOMAIN << >> = {}
    <2>1. << >> \in Seq(Task) /\ DOMAIN << >> = {}
      OBVIOUS
    <2> QED  BY <1>2, <2>1 DEF QueuesOK
  <1>4. SwapInv
    BY <1>1 DEF SwapInv
  <1>5. accepted = 0 /\ welcomed = {} /\ pc = "inits" /\ dealTimers = 0 /\ Base \in Loops
    BY LoopsAre DEF Init
  <1>6. \A l \in Loops : DOMAIN Queues[l] = {}
    BY <1>2, <1>3
  <1>7. /\ WaitsOK(Queues, accepted, welcomed) /\ HasTaskOK(Queues, accepted, welcomed)
        /\ OneTaskOK(Queues) /\ OrderOK(Queues)
    <2>1. HasTaskOK(Queues, accepted, welcomed)
      BY <1>5, StartAssumption DEF HasTaskOK, Clients
    <2> QED  BY <1>6, <2>1 DEF WaitsOK, OneTaskOK, OrderOK
  <1> QED  BY <1>2, <1>3, <1>4, <1>5, <1>7 DEF ClientInv, ClientsOK, DealTimerInv

LEMMA ClientInvAlways == Spec => [](ClientInv /\ DealTimerInv)
  <1>1. StartInv /\ ClientInv /\ DealTimerInv /\ [Next]_vars => (ClientInv /\ DealTimerInv)'
    <2> SUFFICES ASSUME StartInv, ClientInv, DealTimerInv, UNCHANGED vars
                 PROVE  ClientInv' /\ DealTimerInv'
      BY ClientStep, DealTimerStep
    <2>1. UNCHANGED <<pc, tasks, m_customTasks, at, accepted, welcomed, dealTimers, uinit>>
      BY DEF vars, taskVars, clientVars, stopVars
    <2>2. Queues' = Queues /\ SwapInv'
      BY <2>1 DEF Queues, Posted, ClientInv, SwapInv
    <2> QED  BY <2>1, <2>2 DEF ClientInv, DealTimerInv
  <1> QED  BY <1>1, ClientInvInit, StartInvAlways, PTL DEF Spec

\* No accepted client is lost, welcomed twice or before another that its
\* worker got first, for any number of workers and of clients.
THEOREM NoClientLostAlways == Spec => []NoClientLost
  <1>1. StartInv /\ ClientInv => NoClientLost
    <2> SUFFICES ASSUME StartInv, ClientInv PROVE NoClientLost
      OBVIOUS
    <2>1. \A l \in Loops : Posted(l) = Queues[l]
      BY DEF Queues
    <2>2. \A c \in Clients : c \in Nat
      BY StartAssumption DEF Clients
    <2>3. ASSUME NEW c \in Clients, NEW l \in Loops, NEW n \in DOMAIN Posted(l), Awaits(c, l, n)
          PROVE  /\ n \in DOMAIN Queues[l] /\ Queues[l][n].op = "welcome"
                 /\ Queues[l][n].client = c /\ l \in Workers /\ c <= accepted /\ c \notin welcomed
      BY <2>1, <2>3 DEF Awaits, ClientInv, ClientsOK, WaitsOK
    <2>4. ASSUME NEW c \in Clients, c <= accepted, c \notin welcomed
          PROVE  \E w \in Workers : \E n \in DOMAIN Posted(w) :
                   /\ Awaits(c, w, n)
                   /\ \A l \in Loops : \A k \in DOMAIN Posted(l) :
                        Awaits(c, l, k) => l = w /\ k = n
      <3>1. PICK w \in Loops : \E n \in DOMAIN Queues[w] :
                   Queues[w][n] = [op |-> "welcome", client |-> c]
        BY <2>4 DEF ClientInv, ClientsOK, HasTaskOK
      <3>2. PICK n \in DOMAIN Queues[w] : Queues[w][n] = [op |-> "welcome", client |-> c]
        BY <3>1
      <3>3. n \in DOMAIN Posted(w) /\ Awaits(c, w, n)
        BY <2>1, <3>2 DEF Awaits
      <3>4. w \in Workers /\ Queues[w][n].op = "welcome" /\ Queues[w][n].client = c
        BY <2>3, <3>3
      <3>5. \A l \in Loops : \A k \in DOMAIN Posted(l) : Awaits(c, l, k) => l = w /\ k = n
        BY <2>3, <3>4 DEF ClientInv, ClientsOK, OneTaskOK
      <3> QED  BY <3>3, <3>4, <3>5
    <2>5. \A c \in Clients : ~ (c <= accepted /\ c \notin welcomed) =>
            \A l \in Loops : \A k \in DOMAIN Posted(l) : ~ Awaits(c, l, k)
      BY <2>3
    <2>6. \A c \in welcomed : c <= accepted
      BY DEF ClientInv, ClientsOK, HasTaskOK
    <2>7. \A l \in Loops : \A c, d \in Clients : \A n, k \in DOMAIN Posted(l) :
            Awaits(c, l, n) /\ Awaits(d, l, k) /\ n < k => c < d
      <3> SUFFICES ASSUME NEW l \in Loops, NEW c \in Clients, NEW d \in Clients,
                          NEW n \in DOMAIN Posted(l), NEW k \in DOMAIN Posted(l),
                          Awaits(c, l, n), Awaits(d, l, k), n < k
                   PROVE  c < d
        OBVIOUS
      <3>1. /\ n \in DOMAIN Queues[l] /\ Queues[l][n].op = "welcome" /\ Queues[l][n].client = c
            /\ k \in DOMAIN Queues[l] /\ Queues[l][k].op = "welcome" /\ Queues[l][k].client = d
        BY <2>3
      <3> QED  BY <3>1 DEF ClientInv, ClientsOK, OrderOK
    <2> QED  BY <2>4, <2>5, <2>6, <2>7 DEF NoClientLost
  <1> QED  BY <1>1, StartInvAlways, ClientInvAlways, PTL

\* The deal timer that init posts before the base loop has a thread is
\* installed once, and removed once where uinit posts that.
THEOREM OneDealTimerAlways == Spec => []OneDealTimer
  <1>1. StartInv /\ DealTimerInv => OneDealTimer
    <2> SUFFICES ASSUME StartInv, DealTimerInv PROVE OneDealTimer
      OBVIOUS
    <2>1. Posted(Base) = Queues[Base] /\ (uinit # "none" => pc = "loop")
      BY LoopsAre DEF Queues, StartInv, BaseInv
    <2>2. <<AddTimer, RemoveTimer>> # << >> /\ <<RemoveTimer>> # << >> /\ <<AddTimer>> # << >>
      OBVIOUS
    <2>3. dealTimers \in {0, 1} /\ (uinit # "none" /\ Queues[Base] = << >> => dealTimers = 0)
      BY <2>1, <2>2, Zenon DEF DealTimerInv
    <2> QED  BY <2>1, <2>3 DEF OneDealTimer
  <1> QED  BY <1>1, StartInvAlways, ClientInvAlways, PTL

\* ThreadPoll::stop never joins a thread that entered run().
THEOREM JoinedNeverRanAlways == Spec => []JoinedNeverRan
  <1>1. StartInv => JoinedNeverRan
    BY DEF StartInv, JoinInv, JoinedNeverRan
  <1> QED  BY <1>1, StartInvAlways, PTL
=============================================================================
