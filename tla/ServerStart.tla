------------------------------- MODULE ServerStart ------------------------------
(***************************************************************************)
(* How the Calc24v2 server comes up: main's thread makes and starts the    *)
(* thread pool, listens, posts the deal timer and becomes the base loop,   *)
(* while the workers already run, clients already connect, and any of the  *)
(* calls may fail.  Every task of a loop (a send, addTimerInternal,        *)
(* removeTimerInternal) asks whether it is on the thread of m_threadId and *)
(* posts itself again where it is not.  uinit is here too, although the    *)
(* repository's main never calls it: another thread may, once.             *)
(***************************************************************************)
EXTENDS Integers, Sequences

CONSTANTS
    ThreadNum,      \* the argument of init
    MaxClients      \* bound: clients that connect, named by their order

ASSUME StartAssumption == ThreadNum \in Int /\ MaxClients \in Nat

MAX_THREAD_NUM == 20
DEFAULT_THREAD_NUM == 5

NumThreads == IF ThreadNum <= 0 \/ ThreadNum > MAX_THREAD_NUM
              THEN DEFAULT_THREAD_NUM ELSE ThreadNum

Workers == 0 .. NumThreads - 1
Base == NumThreads              \* the loop of main's thread
Loops == Workers \cup {Base}
Clients == 1 .. MaxClients

Task == [op : {"welcome"}, client : Clients] \cup [op : {"addDeal", "removeDeal"}]

VARIABLES
    pc,                 \* where main's thread is in init
    i,                  \* its loop counter in ThreadPoll::start
    m_running,          \* per loop: its init has succeeded
    m_threadId,         \* per loop: has setThreadId been called?
    at,                 \* per loop: where its thread is
    m_customTasks, tasks,
    m_acceptCallback,   \* is it set?
    connected,          \* clients that have connected to the listening socket
    accepted,           \* those of them that accept4 returned
    m_lastEventLoopNo,
    welcomed,           \* clients sent the welcome message
    dealTimers,         \* the deal timers in the base loop's m_timers
    m_stop,
    uinit,              \* where the thread that called uinit is
    joined,             \* threads it has joined
    entered,            \* history: workers that have entered run()
    failed,             \* history: a call of the system has failed
    running             \* the process has not ended

poolVars == <<i, m_running, m_threadId>>
taskVars == <<m_customTasks, tasks>>
clientVars == <<m_acceptCallback, connected, accepted, m_lastEventLoopNo, welcomed>>
stopVars == <<m_stop, uinit, joined>>
history == <<entered, failed>>
vars == <<pc, poolVars, at, taskVars, clientVars, dealTimers, stopVars, history,
          running>>

TypeOK ==
    /\ pc \in {"inits", "spawn", "setId", "base", "listen", "callback", "timer",
               "start", "loop"}
    /\ i \in 0 .. NumThreads
    /\ m_running \in [Loops -> BOOLEAN] /\ m_threadId \in [Loops -> BOOLEAN]
    /\ at \in [Loops -> {"none", "test", "poll", "events", "tasks", "ended"}]
    /\ m_customTasks \in [Loops -> Seq(Task)] /\ tasks \in [Loops -> Seq(Task)]
    /\ m_acceptCallback \in BOOLEAN
    /\ connected \in 0 .. MaxClients /\ accepted \in 0 .. connected
    /\ m_lastEventLoopNo \in Workers
    /\ welcomed \subseteq Clients
    /\ dealTimers \in Nat
    /\ m_stop \in BOOLEAN /\ uinit \in {"none", "stop", "join", "done"}
    /\ joined \in 0 .. NumThreads
    /\ entered \subseteq Workers
    /\ failed \in BOOLEAN /\ running \in BOOLEAN

Init ==
    /\ pc = "inits" /\ i = 0
    /\ m_running = [l \in Loops |-> FALSE] /\ m_threadId = [l \in Loops |-> FALSE]
    /\ at = [l \in Loops |-> "none"]
    /\ m_customTasks = [l \in Loops |-> << >>] /\ tasks = [l \in Loops |-> << >>]
    /\ m_acceptCallback = FALSE
    /\ connected = 0 /\ accepted = 0 /\ m_lastEventLoopNo = 0 /\ welcomed = {}
    /\ dealTimers = 0
    /\ m_stop = FALSE /\ uinit = "none" /\ joined = 0
    /\ entered = {} /\ failed = FALSE
    /\ running = TRUE

\* addTask; the wakeup ends the process in a loop without a dispatcher.
AddTask(l, task) ==
    /\ m_customTasks' = [m_customTasks EXCEPT ![l] = Append(@, task)]
    /\ running' = m_running[l]

-----------------------------------------------------------------------------
(* Main's thread: ThreadPoll::start.                                       *)

\* The loops are made first; what EventLoop::init returns is not looked at.
InitLoop(ok) ==
    /\ pc = "inits"
    /\ m_running' = [m_running EXCEPT ![i] = ok]
    /\ failed' = (failed \/ ~ ok)
    /\ IF i + 1 < NumThreads THEN i' = i + 1 /\ UNCHANGED pc
                             ELSE i' = 0 /\ pc' = "spawn"
    /\ UNCHANGED <<m_threadId, at, taskVars, clientVars, dealTimers, stopVars,
                   entered, running>>

\* The thread runs from here on ...
Spawn ==
    /\ pc = "spawn"
    /\ at' = [at EXCEPT ![i] = "test"]
    /\ pc' = "setId"
    /\ UNCHANGED <<poolVars, taskVars, clientVars, dealTimers, stopVars, history,
                   running>>

\* Mutant: the second loop of start is one short.
SetThreadId_OneShort ==
    /\ pc = "setId"
    /\ m_threadId' = [m_threadId EXCEPT ![i] = TRUE]
    /\ i' = i + 1
    /\ pc' = IF i + 2 < NumThreads THEN "spawn" ELSE "base"
    /\ UNCHANGED <<m_running, at, taskVars, clientVars, dealTimers, stopVars, history,
                   running>>

\* ... and its loop is told whose it is afterwards.
SetThreadId ==
    /\ pc = "setId"
    /\ m_threadId' = [m_threadId EXCEPT ![i] = TRUE]
    /\ i' = i + 1
    /\ pc' = IF i + 1 < NumThreads THEN "spawn" ELSE "base"
    /\ UNCHANGED <<m_running, at, taskVars, clientVars, dealTimers, stopVars, history,
                   running>>

-----------------------------------------------------------------------------
(* Main's thread: the rest of TCPServer::init and of Calc24Server::init.   *)

InitBaseLoop(ok) ==
    /\ pc = "base"
    /\ m_running' = [m_running EXCEPT ![Base] = ok]
    /\ failed' = (failed \/ ~ ok)
    /\ pc' = "listen"
    /\ UNCHANGED <<i, m_threadId, at, taskVars, clientVars, dealTimers, stopVars,
                   entered, running>>

\* init returns false to main, which returns: the threads of the pool are
\* joinable when they are destroyed, which is std::terminate.
ListenFails ==
    /\ pc = "listen"
    /\ failed' = TRUE /\ running' = FALSE
    /\ UNCHANGED <<pc, poolVars, at, taskVars, clientVars, dealTimers, stopVars, entered>>

\* Mutant: the callback is forgotten.
StartListen_Only ==
    /\ pc = "listen"
    /\ pc' = "timer"
    /\ UNCHANGED <<poolVars, at, taskVars, clientVars, dealTimers, stopVars, history,
                   running>>

\* The socket listens and is registered; now clients can connect.
StartListen ==
    /\ pc = "listen"
    /\ pc' = "callback"
    /\ UNCHANGED <<poolVars, at, taskVars, clientVars, dealTimers, stopVars, history,
                   running>>

SetAcceptCallback ==
    /\ pc = "callback"
    /\ m_acceptCallback' = TRUE
    /\ pc' = "timer"
    /\ UNCHANGED <<poolVars, at, taskVars, connected, accepted, m_lastEventLoopNo,
                   welcomed, dealTimers, stopVars, history, running>>

\* The deal timer: the base loop has no thread yet, so it becomes a task.
AddDealTimer ==
    /\ pc = "timer"
    /\ AddTask(Base, [op |-> "addDeal"])
    /\ pc' = "start"
    /\ UNCHANGED <<poolVars, at, tasks, clientVars, dealTimers, stopVars, history>>

\* Mutant: the base loop is not told its thread.
Start_NoThreadId ==
    /\ pc = "start"
    /\ at' = [at EXCEPT ![Base] = "poll"]
    /\ pc' = "loop"
    /\ UNCHANGED <<poolVars, taskVars, clientVars, dealTimers, stopVars, history,
                   running>>

Start ==
    /\ pc = "start"
    /\ m_threadId' = [m_threadId EXCEPT ![Base] = TRUE]
    /\ at' = [at EXCEPT ![Base] = "poll"]
    /\ pc' = "loop"
    /\ UNCHANGED <<i, m_running, taskVars, clientVars, dealTimers, stopVars, history,
                   running>>

MainStep ==
    \/ Spawn \/ SetThreadId \/ StartListen \/ ListenFails \/ SetAcceptCallback
    \/ AddDealTimer \/ Start
    \/ \E ok \in BOOLEAN : InitLoop(ok) \/ InitBaseLoop(ok)

-----------------------------------------------------------------------------
(* The threads: threadFunc, run, and Acceptor::onRead on the base thread.  *)

\* One without m_running comes back at once, to be tried again.
EnterRun(l) ==
    /\ at[l] = "test" /\ ~ m_stop /\ m_running[l]
    /\ at' = [at EXCEPT ![l] = "poll"]
    /\ entered' = entered \cup {l}
    /\ UNCHANGED <<pc, poolVars, taskVars, clientVars, dealTimers, stopVars, failed,
                   running>>

EndThread(l) ==
    /\ at[l] = "test" /\ m_stop
    /\ at' = [at EXCEPT ![l] = "ended"]
    /\ UNCHANGED <<pc, poolVars, taskVars, clientVars, dealTimers, stopVars, history,
                   running>>

Poll(l) ==
    /\ at[l] = "poll"
    /\ at' = [at EXCEPT ![l] = "events"]
    /\ UNCHANGED <<pc, poolVars, taskVars, clientVars, dealTimers, stopVars, history,
                   running>>

NextLoopNo ==
    IF m_lastEventLoopNo + 1 >= NumThreads THEN 0 ELSE m_lastEventLoopNo + 1

\* onAccept: the connection goes to the next loop, and onConnected sends it
\* the welcome message, which is a task there.  (Its timer is in Reminder.)
AcceptClient ==
    /\ at[Base] = "events" /\ accepted < connected
    /\ accepted' = accepted + 1
    /\ IF m_acceptCallback
       THEN /\ AddTask(m_lastEventLoopNo, [op |-> "welcome", client |-> accepted + 1])
            /\ m_lastEventLoopNo' = NextLoopNo
       ELSE running' = FALSE /\ UNCHANGED <<m_customTasks, m_lastEventLoopNo>>
    /\ UNCHANGED <<pc, poolVars, at, tasks, m_acceptCallback, connected, welcomed,
                   dealTimers, stopVars, history>>

\* The acceptor returns where nobody waits or accept4 fails; doOtherTask
\* swaps its queue.
TakeTasks(l) ==
    /\ at[l] = "events"
    /\ at' = [at EXCEPT ![l] = "tasks"]
    /\ tasks' = [tasks EXCEPT ![l] = m_customTasks[l]]
    /\ m_customTasks' = [m_customTasks EXCEPT ![l] = << >>]
    /\ UNCHANGED <<pc, poolVars, clientVars, dealTimers, stopVars, history, running>>

\* What the task does where it is on its own thread.
Do(task) ==
    /\ welcomed' = IF task.op = "welcome" THEN welcomed \cup {task.client} ELSE welcomed
    /\ dealTimers' = CASE task.op = "addDeal" -> dealTimers + 1
                       [] task.op = "removeDeal" /\ dealTimers > 0 -> dealTimers - 1
                       [] OTHER -> dealTimers
    /\ UNCHANGED <<m_customTasks, running>>

\* Mutant: the deal timer is always added by way of a task.
RunTask_AddsAgain(l) ==
    /\ at[l] = "tasks" /\ tasks[l] # << >>
    /\ tasks' = [tasks EXCEPT ![l] = Tail(@)]
    /\ IF m_threadId[l] /\ Head(tasks[l]).op # "addDeal" THEN Do(Head(tasks[l]))
       ELSE AddTask(l, Head(tasks[l])) /\ UNCHANGED <<welcomed, dealTimers>>
    /\ UNCHANGED <<pc, poolVars, at, m_acceptCallback, connected, accepted,
                   m_lastEventLoopNo, stopVars, history>>

RunTask(l) ==
    /\ at[l] = "tasks" /\ tasks[l] # << >>
    /\ tasks' = [tasks EXCEPT ![l] = Tail(@)]
    /\ IF m_threadId[l] THEN Do(Head(tasks[l]))
       ELSE AddTask(l, Head(tasks[l])) /\ UNCHANGED <<welcomed, dealTimers>>
    /\ UNCHANGED <<pc, poolVars, at, m_acceptCallback, connected, accepted,
                   m_lastEventLoopNo, stopVars, history>>

\* Mutant: doOtherTask returns after any of the tasks.
EndTasks_Early(l) ==
    /\ at[l] = "tasks"
    /\ at' = [at EXCEPT ![l] = "poll"]
    /\ UNCHANGED <<pc, poolVars, taskVars, clientVars, dealTimers, stopVars, history,
                   running>>

\* run goes on: nothing clears m_running.
EndTasks(l) ==
    /\ at[l] = "tasks" /\ tasks[l] = << >>
    /\ at' = [at EXCEPT ![l] = "poll"]
    /\ UNCHANGED <<pc, poolVars, taskVars, clientVars, dealTimers, stopVars, history,
                   running>>

LoopStep(l) == EnterRun(l) \/ EndThread(l) \/ Poll(l) \/ TakeTasks(l) \/ RunTask(l)
                 \/ EndTasks(l)

-----------------------------------------------------------------------------
(* Clients, and a thread that calls uinit.                                 *)

Connect ==
    /\ pc \in {"callback", "timer", "start", "loop"} /\ connected < MaxClients
    /\ connected' = connected + 1
    /\ UNCHANGED <<pc, poolVars, at, taskVars, m_acceptCallback, accepted,
                   m_lastEventLoopNo, welcomed, dealTimers, stopVars, history, running>>

\* The deal timer is removed, by way of a task.
UinitRemove ==
    /\ pc = "loop" /\ uinit = "none"
    /\ AddTask(Base, [op |-> "removeDeal"])
    /\ uinit' = "stop"
    /\ UNCHANGED <<pc, poolVars, at, tasks, clientVars, dealTimers, m_stop, joined,
                   history>>

UinitStop ==
    /\ uinit = "stop"
    /\ m_stop' = TRUE
    /\ uinit' = "join"
    /\ UNCHANGED <<pc, poolVars, at, taskVars, clientVars, dealTimers, joined, history,
                   running>>

Join ==
    /\ uinit = "join" /\ at[joined] = "ended"
    /\ joined' = joined + 1
    /\ uinit' = IF joined + 1 = NumThreads THEN "done" ELSE "join"
    /\ UNCHANGED <<pc, poolVars, at, taskVars, clientVars, dealTimers, m_stop, history,
                   running>>

Next ==
    /\ running
    /\ \/ MainStep \/ AcceptClient \/ Connect \/ UinitRemove \/ UinitStop \/ Join
       \/ \E l \in Loops : LoopStep(l)

Spec == Init /\ [][Next]_vars

\* The threads run, and accept4 does not fail for ever.
Fairness ==
    /\ WF_vars(running /\ MainStep)
    /\ SF_vars(running /\ AcceptClient)
    /\ \A l \in Loops : WF_vars(running /\ LoopStep(l))

FairSpec == Spec /\ Fairness

-----------------------------------------------------------------------------
(* Properties.                                                             *)

\* Although the threads run before their loops know it, no loop ever runs a
\* task before it has been told its thread, so none posts itself again.
TasksFindTheirThread ==
    \A l \in Loops : at[l] = "tasks" /\ tasks[l] # << >> => m_threadId[l]

\* Coming up, the process ends only because a call of the system failed: no
\* client is accepted before the callback, no task posted to a loop without
\* its wakeup dispatcher.
EndsOnlyOfFailure == ~ running => failed

\* The tasks of a loop that it has not run, in the order it will.
Posted(l) == tasks[l] \o m_customTasks[l]
Awaits(c, l, n) == n \in DOMAIN Posted(l) /\ Posted(l)[n] = [op |-> "welcome", client |-> c]

\* Between the base thread's queue of tasks and the worker that swaps it no
\* client gets lost: whoever was accepted is welcomed, or will be by just one
\* task of one worker, and nobody else is.  A worker welcomes in the order of
\* the connections.
NoClientLost ==
    /\ \A c \in Clients :
         IF c <= accepted /\ c \notin welcomed
         THEN \E w \in Workers : \E n \in DOMAIN Posted(w) :
                /\ Awaits(c, w, n)
                /\ \A l \in Loops : \A k \in DOMAIN Posted(l) :
                     Awaits(c, l, k) => l = w /\ k = n
         ELSE \A l \in Loops : \A k \in DOMAIN Posted(l) : ~ Awaits(c, l, k)
    /\ \A c \in welcomed : c <= accepted
    /\ \A l \in Loops : \A c, d \in Clients : \A n, k \in DOMAIN Posted(l) :
         Awaits(c, l, n) /\ Awaits(d, l, k) /\ n < k => c < d

\* There are never two deal timers, and none once the removal that uinit
\* posts has run, whatever else the base loop was doing.
OneDealTimer ==
    /\ dealTimers <= 1
    /\ uinit # "none" /\ Posted(Base) = << >> => dealTimers = 0

\* uinit returns only where no worker had entered run() before m_stop: the
\* threads that had are joined for ever.
JoinedNeverRan == \A w \in Workers : w < joined => w \notin entered

\* The deal timer, a task of a loop without a thread, gets installed, and a
\* removal that uinit posts ends it.
DealTimerRuns ==
    /\ pc = "loop" ~> (dealTimers = 1 \/ uinit # "none" \/ ~ running)
    /\ uinit # "none" ~> [](dealTimers = 0 \/ ~ running)

\* Whoever connects, even before the server accepts, is welcomed, unless the
\* process ended or uinit was called.
ClientsAreWelcomed ==
    \A c \in Clients :
        c <= connected ~> (c \in welcomed \/ ~ running \/ m_stop)
=============================================================================
