------------------------------- MODULE EventLoop -------------------------------
(***************************************************************************)
(* One EventLoop of Calc24v2: its timers, its task queue, its wakeup fd.   *)
(*                                                                         *)
(* The loop's own thread goes round: timers, poll, events, tasks.  Other   *)
(* threads share only m_customTasks (under m_mutexTasks), the eventfd and  *)
(* the counter of Timer's ids.  addTimer, removeTimer and send do their    *)
(* work at once on the loop's own thread and through a task from any other.*)
(* The events are handlers that may call the loop.  Time is the system's   *)
(* clock, which somebody may set.                                          *)
(*                                                                         *)
(* geneateTimerID is baseID++ and then a read that may see another         *)
(* thread's ++ as well, so two timers can be given one id.  A timer is     *)
(* named here by the value its own ++ produced, which the code throws      *)
(* away; m_id is what it then read.  The timers of other loops, which use  *)
(* the same counter, would leave gaps in the numbers and no more.          *)
(***************************************************************************)
EXTENDS Integers, SequencesExt

CONSTANTS
    Others,         \* the other threads that call this loop
    OwnThread,      \* the loop's thread
    MaxTimers,      \* bound: timers created in one behaviour
    MaxTasks,       \* bound: tasks waiting at one time
    MaxPending,     \* bound: calls made by timer callbacks
    CallbackCalls,  \* what timer callbacks call, a subset of {"add", "remove"}
    Interval,       \* the interval of this loop's timers
    FixedDelay,     \* the timers made with TimerModeFixedDelay, the others
                    \* having TimerModeFixedInterval
    NotRepeated,    \* the timers made with repeated = false
    MaxNow          \* bound: the latest time

Threads == Others \cup {OwnThread}
Timers == 1 .. MaxTimers
TimerIDs == 1 .. MaxTimers
None == 0

ASSUME LoopAssumption ==
    /\ OwnThread \notin Others
    /\ MaxTimers \in Nat /\ MaxTasks \in Nat /\ MaxPending \in Nat
    /\ CallbackCalls \subseteq {"add", "remove"}
    /\ Interval \in Nat \ {0} /\ MaxNow \in Nat
    /\ FixedDelay \subseteq Timers /\ NotRepeated \subseteq Timers

Task == [op : {"add"}, timer : Timers] \cup [op : {"remove"}, id : TimerIDs]
          \cup {[op |-> "send"]}

Adding(t) == [op |-> "add", timer |-> t]
Removing(id) == [op |-> "remove", id |-> id]

VARIABLES
    pc,                     \* where run() is
    m_timers,               \* the installed timers
    m_isCheckTimers,
    iter,                   \* checkAndDoTimers' position in m_timers
    m_pendingAddTimers,
    m_pendingRemoveTimers,  \* ids
    baseID,                 \* Timer::baseID
    making,                 \* per thread: the timer it makes and has not yet
                            \* handed to addTimerInternal, or None
    m_id,                   \* per timer: its id, None before it is read
    now,                    \* the system's clock
    nowMs,                  \* what checkAndDoTimers took it to be
    m_nextTriggeredTimeMs,  \* per timer
    created,                \* history: when each timer was made
    m_customTasks,          \* added tasks
    tasks,                  \* the swapped-out tasks doOtherTask is running
    m_wakeupfd,             \* value of the eventfd counter
    woken,                  \* did the last poll report the eventfd?
    posting                 \* per other thread: {the task it has pushed and not
                            \* yet called wakeup for}, or {}

clockVars == <<now, nowMs>>
idVars == <<baseID, making, m_id>>
madeVars == <<idVars, m_nextTriggeredTimeMs, created>>
timerVars == <<m_timers, m_isCheckTimers, iter, m_pendingAddTimers,
               m_pendingRemoveTimers>>
taskVars == <<m_customTasks, tasks, posting>>
pollVars == <<m_wakeupfd, woken>>
vars == <<pc, clockVars, madeVars, timerVars, taskVars, pollVars>>

TypeOK ==
    /\ pc \in {"start", "check", "callbackAdds", "pending", "poll", "events",
               "handlerAdds", "tasks"}
    /\ m_timers \in Seq(Timers)
    /\ m_isCheckTimers \in BOOLEAN
    /\ iter \in Nat \ {0}
    /\ m_pendingAddTimers \in Seq(Timers)
    /\ m_pendingRemoveTimers \in Seq(TimerIDs)
    /\ baseID \in 0 .. MaxTimers
    /\ making \in [Threads -> Timers \cup {None}]
    /\ m_id \in [Timers -> TimerIDs \cup {None}]
    /\ now \in Nat /\ nowMs \in Nat
    /\ m_nextTriggeredTimeMs \in [Timers -> Nat]
    /\ created \in [Timers -> Nat]
    /\ m_customTasks \in Seq(Task)
    /\ tasks \in Seq(Task)
    /\ m_wakeupfd \in Nat
    /\ woken \in BOOLEAN
    /\ posting \in [Others -> SUBSET Task]

Init ==
    /\ pc = "start"
    /\ m_timers = << >>
    /\ m_isCheckTimers = FALSE
    /\ iter = 1
    /\ m_pendingAddTimers = << >>
    /\ m_pendingRemoveTimers = << >>
    /\ baseID = 0
    /\ making = [th \in Threads |-> None]
    /\ m_id = [t \in Timers |-> None]
    /\ now = 0 /\ nowMs = 0
    /\ m_nextTriggeredTimeMs = [t \in Timers |-> 0]
    /\ created = [t \in Timers |-> 0]
    /\ m_customTasks = << >>
    /\ tasks = << >>
    /\ m_wakeupfd = 0
    /\ woken = FALSE
    /\ posting = [o \in Others |-> {}]

-----------------------------------------------------------------------------
(* Timer: its constructor, on whatever thread calls addTimer, and doTimer. *)

\* geneateTimerID's baseID++.  Bound: MaxTimers timers.
NewTimer(th) ==
    /\ making[th] = None
    /\ baseID < MaxTimers
    /\ baseID' = baseID + 1
    /\ making' = [making EXCEPT ![th] = baseID + 1]
    /\ UNCHANGED m_id

\* The id is read and the time of the first call set.
ReadID(t) ==
    /\ m_id' = [m_id EXCEPT ![t] = baseID]
    /\ m_nextTriggeredTimeMs' = [m_nextTriggeredTimeMs EXCEPT ![t] = now + Interval]
    /\ created' = [created EXCEPT ![t] = now]
    /\ UNCHANGED baseID

AfterCall(t) ==
    IF t \in NotRepeated THEN m_nextTriggeredTimeMs[t]
    ELSE IF t \in FixedDelay THEN nowMs + Interval
    ELSE m_nextTriggeredTimeMs[t] + Interval

-----------------------------------------------------------------------------
(* addTimerInternal and removeTimerInternal on the loop's own thread.      *)

\* Mutant: m_timers grows whether or not it is being walked.
AddTimerInternal_Direct(t) ==
    /\ m_timers' = Append(m_timers, t)
    /\ UNCHANGED m_pendingAddTimers

AddTimerInternal(t) ==
    IF m_isCheckTimers
    THEN /\ m_pendingAddTimers' = Append(m_pendingAddTimers, t)
         /\ UNCHANGED m_timers
    ELSE /\ m_timers' = Append(m_timers, t)
         /\ UNCHANGED m_pendingAddTimers

\* m_timers.erase of the first timer with that id.
Erased(id) == RemoveFirstMatch(m_timers, LAMBDA t : m_id[t] = id)

RemoveTimerInternal(id) ==
    IF m_isCheckTimers
    THEN /\ m_pendingRemoveTimers' = Append(m_pendingRemoveTimers, id)
         /\ UNCHANGED m_timers
    ELSE /\ m_timers' = Erased(id)
         /\ UNCHANGED m_pendingRemoveTimers

\* An id is known once an addTimer that made a timer of that id has returned.
Known(id) ==
    \E t \in 1 .. baseID :
        /\ m_id[t] = id
        /\ \A th \in Threads : making[th] # t
        /\ \A o \in Others : Adding(t) \notin posting[o]

-----------------------------------------------------------------------------
(* The other threads: addTask pushes under the lock, then wakes the loop.  *)

\* Mutant: the newest task is run first.
Push_Front(o, task) ==
    /\ posting[o] = {}
    /\ Len(m_customTasks) + Len(tasks) < MaxTasks
    /\ m_customTasks' = <<task>> \o m_customTasks
    /\ posting' = [posting EXCEPT ![o] = {task}]
    /\ UNCHANGED <<pc, clockVars, timerVars, tasks, pollVars>>

Push(o, task) ==
    /\ posting[o] = {}
    /\ Len(m_customTasks) + Len(tasks) < MaxTasks
    /\ m_customTasks' = Append(m_customTasks, task)
    /\ posting' = [posting EXCEPT ![o] = {task}]
    /\ UNCHANGED <<pc, clockVars, timerVars, tasks, pollVars>>

OtherNewTimer(o) ==
    /\ posting[o] = {}
    /\ NewTimer(o)
    /\ UNCHANGED <<pc, clockVars, m_nextTriggeredTimeMs, created, timerVars,
                   taskVars, pollVars>>

OtherReadsID(o) ==
    /\ making[o] # None /\ m_id[making[o]] = None
    /\ ReadID(making[o])
    /\ UNCHANGED <<pc, clockVars, making, timerVars, taskVars, pollVars>>

OtherAddsTimer(o) ==
    /\ making[o] # None /\ m_id[making[o]] # None
    /\ Push(o, Adding(making[o]))
    /\ making' = [making EXCEPT ![o] = None]
    /\ UNCHANGED <<baseID, m_id, m_nextTriggeredTimeMs, created>>

OtherRemovesTimer(o, id) ==
    /\ making[o] = None
    /\ Known(id)
    /\ Push(o, Removing(id))
    /\ UNCHANGED madeVars

OtherSends(o) ==
    /\ making[o] = None
    /\ Push(o, [op |-> "send"])
    /\ UNCHANGED madeVars

\* WakeupEventDispatcher::wakeup adds dummyDate to the eventfd: zero.
DummyDate == 0

Wakeup(o) ==
    /\ posting[o] # {}
    /\ posting' = [posting EXCEPT ![o] = {}]
    /\ m_wakeupfd' = m_wakeupfd + DummyDate
    /\ UNCHANGED <<pc, clockVars, madeVars, timerVars, m_customTasks, tasks, woken>>

-----------------------------------------------------------------------------
(* The loop: checkAndDoTimers.                                             *)

StartCheck ==
    /\ pc = "start"
    /\ pc' = "check"
    /\ nowMs' = now
    /\ m_isCheckTimers' = TRUE
    /\ iter' = 1
    /\ UNCHANGED <<now, madeVars, m_timers, m_pendingAddTimers,
                   m_pendingRemoveTimers, taskVars, pollVars>>

AtTimer == pc = "check" /\ iter <= Len(m_timers)

Due == nowMs >= m_nextTriggeredTimeMs[m_timers[iter]]

PassTimer ==
    /\ AtTimer /\ ~ Due
    /\ iter' = iter + 1
    /\ UNCHANGED <<pc, clockVars, madeVars, m_timers, m_isCheckTimers,
                   m_pendingAddTimers, m_pendingRemoveTimers, taskVars, pollVars>>

\* doTimer advances the time and calls.
\* It is an if and no while: a timer that is late is called once a turn.
DoTimer ==
    /\ AtTimer /\ Due
    /\ m_nextTriggeredTimeMs' =
         [m_nextTriggeredTimeMs EXCEPT ![m_timers[iter]] = AfterCall(m_timers[iter])]
    /\ UNCHANGED <<clockVars, created, m_isCheckTimers, taskVars, pollVars>>

\* The callback calls nothing here.
CallbackReturns ==
    /\ DoTimer
    /\ iter' = iter + 1
    /\ UNCHANGED <<pc, idVars, m_timers, m_pendingAddTimers, m_pendingRemoveTimers>>

\* The callback, which is given its timer's id, removes that or, closing its
\* session, another one.
CallbackRemoves(id) ==
    /\ "remove" \in CallbackCalls
    /\ Len(m_pendingRemoveTimers) < MaxPending
    /\ DoTimer
    /\ Known(id) \/ id = m_id[m_timers[iter]]
    /\ RemoveTimerInternal(id)
    /\ iter' = iter + 1
    /\ UNCHANGED <<pc, idVars, m_pendingAddTimers>>

\* The callback adds a timer.
CallbackNewTimer ==
    /\ "add" \in CallbackCalls
    /\ Len(m_pendingAddTimers) < MaxPending
    /\ DoTimer
    /\ NewTimer(OwnThread)
    /\ pc' = "callbackAdds"
    /\ UNCHANGED <<m_timers, iter, m_pendingAddTimers, m_pendingRemoveTimers>>

\* The loop's own thread reads the id and hands the timer over.
OwnAddsTimer ==
    /\ ReadID(making[OwnThread])
    /\ AddTimerInternal(making[OwnThread])
    /\ making' = [making EXCEPT ![OwnThread] = None]

CallbackAdds ==
    /\ pc = "callbackAdds"
    /\ OwnAddsTimer
    /\ pc' = "check"
    /\ iter' = iter + 1
    /\ UNCHANGED <<clockVars, m_isCheckTimers, m_pendingRemoveTimers, taskVars,
                   pollVars>>

\* The walk is over: now what the callbacks asked for is done.
EndWalk ==
    /\ pc = "check" /\ iter > Len(m_timers)
    /\ pc' = "pending"
    /\ m_isCheckTimers' = FALSE
    /\ iter' = 1
    /\ UNCHANGED <<clockVars, madeVars, m_timers, m_pendingAddTimers,
                   m_pendingRemoveTimers, taskVars, pollVars>>

\* Mutant: a removal is left out behind the one before it.
RemovePending_Skips ==
    /\ pc = "pending" /\ iter <= Len(m_pendingRemoveTimers)
    /\ RemoveTimerInternal(m_pendingRemoveTimers[iter])
    /\ iter' = iter + 2
    /\ UNCHANGED <<pc, clockVars, madeVars, m_isCheckTimers, m_pendingAddTimers,
                   taskVars, pollVars>>

RemovePending ==
    /\ pc = "pending" /\ iter <= Len(m_pendingRemoveTimers)
    /\ RemoveTimerInternal(m_pendingRemoveTimers[iter])
    /\ iter' = iter + 1
    /\ UNCHANGED <<pc, clockVars, madeVars, m_isCheckTimers, m_pendingAddTimers,
                   taskVars, pollVars>>

\* Mutant: the lists are emptied once they have been carried out.
EndCheck_Emptied ==
    /\ pc = "pending" /\ iter > Len(m_pendingRemoveTimers)
    /\ pc' = "poll"
    /\ m_timers' = m_timers \o m_pendingAddTimers
    /\ m_pendingAddTimers' = << >> /\ m_pendingRemoveTimers' = << >>
    /\ iter' = 1 /\ nowMs' = 0
    /\ UNCHANGED <<now, madeVars, m_isCheckTimers, taskVars, pollVars>>

\* The additions come after the removals.  Neither list is emptied.
EndCheck ==
    /\ pc = "pending" /\ iter > Len(m_pendingRemoveTimers)
    /\ pc' = "poll"
    /\ m_timers' = m_timers \o m_pendingAddTimers
    /\ iter' = 1 /\ nowMs' = 0
    /\ UNCHANGED <<now, madeVars, m_isCheckTimers, m_pendingAddTimers,
                   m_pendingRemoveTimers, taskVars, pollVars>>

-----------------------------------------------------------------------------
(* The loop: poll and the events.                                          *)

\* epoll_wait returns with what is ready, or with nothing after 500 ms.
Poll ==
    /\ pc = "poll"
    /\ pc' = "events"
    /\ woken' = (m_wakeupfd > 0)
    /\ UNCHANGED <<clockVars, madeVars, timerVars, taskVars, m_wakeupfd>>

\* A handler calls addTimer: resetToIdle of a session of this loop.
HandlerNewTimer ==
    /\ pc = "events"
    /\ NewTimer(OwnThread)
    /\ pc' = "handlerAdds"
    /\ UNCHANGED <<clockVars, m_nextTriggeredTimeMs, created, timerVars, taskVars,
                   pollVars>>

HandlerAddsTimer ==
    /\ pc = "handlerAdds"
    /\ OwnAddsTimer
    /\ pc' = "events"
    /\ UNCHANGED <<clockVars, m_isCheckTimers, iter, m_pendingRemoveTimers, taskVars,
                   pollVars>>

\* A handler calls removeTimer: Calc24Session::onClose.
HandlerRemovesTimer(id) ==
    /\ pc = "events"
    /\ Known(id)
    /\ RemoveTimerInternal(id)
    /\ UNCHANGED <<pc, clockVars, madeVars, m_isCheckTimers, iter,
                   m_pendingAddTimers, taskVars, pollVars>>

-----------------------------------------------------------------------------
(* The loop: doOtherTask.                                                  *)

\* Mutant: the queue is copied instead of swapped.
TakeTasks_Copy ==
    /\ pc = "events"
    /\ pc' = "tasks"
    /\ tasks' = m_customTasks
    /\ m_wakeupfd' = IF woken THEN 0 ELSE m_wakeupfd
    /\ UNCHANGED <<clockVars, madeVars, timerVars, m_customTasks, posting, woken>>

\* Mutant: the tasks are taken only after the wakeup fd was reported.
TakeTasks_WhenWoken ==
    /\ pc = "events"
    /\ pc' = "tasks"
    /\ tasks' = IF woken THEN m_customTasks ELSE << >>
    /\ m_customTasks' = IF woken THEN << >> ELSE m_customTasks
    /\ m_wakeupfd' = IF woken THEN 0 ELSE m_wakeupfd
    /\ UNCHANGED <<clockVars, madeVars, timerVars, posting, woken>>

\* The last handler returns (the eventfd's own handler has read it), and the
\* queue is swapped under the lock.
TakeTasks ==
    /\ pc = "events"
    /\ pc' = "tasks"
    /\ tasks' = m_customTasks
    /\ m_customTasks' = << >>
    /\ m_wakeupfd' = IF woken THEN 0 ELSE m_wakeupfd
    /\ UNCHANGED <<clockVars, madeVars, timerVars, posting, woken>>

\* doOtherTask runs the first of the tasks it has taken.
RunTask(op) ==
    /\ pc = "tasks" /\ tasks # << >> /\ Head(tasks).op = op
    /\ tasks' = Tail(tasks)
    /\ UNCHANGED <<pc, clockVars, madeVars, m_isCheckTimers, iter, m_customTasks,
                   posting, pollVars>>

RunAdd ==
    /\ RunTask("add")
    /\ AddTimerInternal(Head(tasks).timer)
    /\ UNCHANGED m_pendingRemoveTimers

RunRemove ==
    /\ RunTask("remove")
    /\ RemoveTimerInternal(Head(tasks).id)
    /\ UNCHANGED m_pendingAddTimers

\* A send runs; a failing one closes its session, which removes its timer.
RunSend ==
    /\ RunTask("send")
    /\ \/ UNCHANGED <<m_timers, m_pendingRemoveTimers>>
       \/ \E id \in TimerIDs : Known(id) /\ RemoveTimerInternal(id)
    /\ UNCHANGED m_pendingAddTimers

EndTasks ==
    /\ pc = "tasks" /\ tasks = << >>
    /\ pc' = "start"
    /\ UNCHANGED <<clockVars, madeVars, timerVars, taskVars, pollVars>>

-----------------------------------------------------------------------------

\* std::chrono::system_clock goes on, or is set to another time.
Clock ==
    /\ now' \in 0 .. MaxNow
    /\ UNCHANGED <<pc, nowMs, madeVars, timerVars, taskVars, pollVars>>

LoopStep ==
    \/ StartCheck \/ PassTimer \/ CallbackReturns \/ CallbackNewTimer \/ CallbackAdds
    \/ EndWalk \/ RemovePending \/ EndCheck
    \/ Poll \/ HandlerNewTimer \/ HandlerAddsTimer
    \/ \E id \in TimerIDs : CallbackRemoves(id) \/ HandlerRemovesTimer(id)
    \/ TakeTasks \/ RunAdd \/ RunRemove \/ RunSend \/ EndTasks

OtherStep(o) ==
    \/ OtherNewTimer(o) \/ OtherReadsID(o) \/ OtherAddsTimer(o)
    \/ OtherSends(o) \/ Wakeup(o)
    \/ \E id \in TimerIDs : OtherRemovesTimer(o, id)

Next == LoopStep \/ Clock \/ \E o \in Others : OtherStep(o)

Spec == Init /\ [][Next]_vars

\* The loop's thread runs; it stays in no phase for ever, since handlers are
\* finitely many and the poll has a timeout.
Fairness ==
    /\ WF_vars(StartCheck \/ PassTimer \/ CallbackReturns \/ EndWalk
                 \/ RemovePending \/ EndCheck)
    /\ WF_vars(CallbackAdds \/ HandlerAddsTimer)
    /\ WF_vars(Poll) /\ WF_vars(TakeTasks)
    /\ WF_vars(RunAdd \/ RunRemove \/ RunSend \/ EndTasks)

FairSpec == Spec /\ Fairness

-----------------------------------------------------------------------------
(* Properties.                                                             *)

Waiting == tasks \o m_customTasks

\* addTask, the swap of doOtherTask and its loop are a mailbox: every task
\* is run, once, in the order of the pushes, and none is lost in the swap.
Mailbox == INSTANCE TaskMailbox WITH Tasks <- Task, queue <- Waiting

ImplementsMailbox == Mailbox!Spec

\* A timer is in one place once: installed, or in one task that will install
\* it, whatever ids were read; only those that a callback added are installed
\* again and again.  (So any other timer that is erased never comes back.)
NoDuplicateTimer ==
    /\ \A i, j \in DOMAIN m_timers :
         m_timers[i] = m_timers[j] /\ m_timers[i] \notin ToSet(m_pendingAddTimers)
           => i = j
    /\ \A i \in DOMAIN Waiting :
         Waiting[i].op = "add" =>
           /\ Waiting[i].timer \notin ToSet(m_timers)
           /\ \A j \in DOMAIN Waiting : Waiting[j] = Waiting[i] => i = j

\* When the loop goes to poll, each id that a timer callback removed has cost
\* a timer of that id its place, if not the one it was meant for, or that one
\* is not installed yet.
PendingRemovalsDone ==
    pc = "poll" =>
      \A id \in ToSet(m_pendingRemoveTimers) :
        \E t \in 1 .. baseID :
          /\ m_id[t] = id
          /\ t \notin ToSet(m_timers) \/ t \in ToSet(m_pendingAddTimers)

\* What callbacks remove is in the end gone, every timer of that id, also one
\* whose task to install it is overtaken: the list is carried out every turn.
PendingRemovalsLast ==
    \A id \in TimerIDs :
        id \in ToSet(m_pendingRemoveTimers)
          ~> [](\A t \in ToSet(m_timers) \ ToSet(m_pendingAddTimers) : m_id[t] # id)

\* The vector of timers is never changed under checkAndDoTimers' iterator,
\* whatever the callbacks call.
CheckKeepsTimers ==
    [][m_isCheckTimers /\ m_isCheckTimers' => UNCHANGED m_timers]_vars

\* Although nothing wakes the poll, its timeout lets every added task run.
TasksRun ==
    /\ m_customTasks # << >> ~> tasks # << >>
    /\ tasks # << >> ~> tasks = << >>

\* A timer is gone when it is neither being made nor installed nor on its way
\* into m_timers.
Gone(t) ==
    /\ \A th \in Threads : making[th] # t
    /\ t \notin ToSet(m_timers) \cup ToSet(m_pendingAddTimers)
    /\ Adding(t) \notin ToSet(Waiting)

\* The step that makes it so: a removal posted by another thread finds a timer
\* of its id already added, unless that is gone before, and nothing adds a
\* timer once it is gone.
RemovedIsGone ==
    [][/\ \A t \in 1 .. baseID : Gone(t) => Gone(t)'
       /\ RunRemove =>
            \E t \in 1 .. baseID :
              m_id[t] = Head(tasks).id /\ (t \in ToSet(m_pendingAddTimers) \/ Gone(t)')
      ]_vars

\* However late the loop is and however the clock is set, the due times of a
\* repeated fixed-interval timer stay whole intervals from its creation.
NoDrift ==
    \A t \in Timers \ (FixedDelay \cup NotRepeated) :
        m_id[t] # None => (m_nextTriggeredTimeMs[t] - created[t]) % Interval = 0

\* Timer.cpp:31: of a fixed-interval timer all missed calls are made up for,
\* so that after checkAndDoTimers' walk none is due.
MissedAreMadeUp ==
    pc = "pending" =>
      \A t \in ToSet(m_timers) \ (FixedDelay \cup NotRepeated) :
        m_nextTriggeredTimeMs[t] > nowMs
=============================================================================
