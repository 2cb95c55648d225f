-------------------------------- MODULE Reminder --------------------------------
(***************************************************************************)
(* The reminder of a Calc24v2 session ("please hand up!"): the repeated    *)
(* timer that notifyUserToBeReady adds to the session's loop.              *)
(*                                                                         *)
(* Three threads are at it: the base thread, which connects sessions and   *)
(* deals, the loop of the sessions, and a worker, whose sessions' answers  *)
(* reset these sessions too.  They share m_status, m_timerID, m_sessions,  *)
(* the counter of the timer ids and the loop's tasks.  EventLoop has the   *)
(* operations of the loop; here any timer may be due in any walk.          *)
(*                                                                         *)
(* A session is IDLE or busy, READY and IN_GAME being one.  The memory of  *)
(* a closed session is taken to stay; TCPConnection has what happens else. *)
(***************************************************************************)
EXTENDS Integers, SequencesExt

CONSTANTS
    NumSessions,    \* bound: sessions of this loop; named by their order
    Leavers,        \* bound: those that may close
    MaxTimers       \* bound: timers made

Sessions == 1 .. NumSessions

ASSUME ReminderAssumption ==
    /\ NumSessions \in Nat \ {0} /\ MaxTimers \in Nat
    /\ Leavers \subseteq Sessions

TimerIDs == 1 .. MaxTimers
Threads == {"base", "loop", "worker"}
Unset == 0          \* m_timerID before its first assignment: any number

Timer == [id : TimerIDs, s : Sessions]
Idle == [at |-> "none"]
Frame == {Idle} \cup [at : {"reset", "ids", "deal", "emplace"}, s : Sessions]
           \cup [at : {"read"}, s : Sessions]
           \cup [at : {"add", "assign"}, s : Sessions, id : TimerIDs]

VARIABLES
    pc,             \* where the loop is
    iter,           \* checkAndDoTimers' position in m_timers
    m_timers, m_pendingRemoveTimers,
    removing,       \* what is left of the removals after the walk
    m_customTasks,  \* additions posted to the loop
    tasks,          \* the swapped-out additions that doOtherTask is running
    baseID,         \* of geneateTimerID
    m_sessions,     \* sessions in the server's map
    m_status,       \* per session: "idle" or "busy"
    m_timerID,
    frame,          \* per thread: where in its handler it is
    made,           \* history: per session, the ids its timers were given
    shared,         \* history: ids given twice, or removed by mistake
    closed,         \* history: sessions whose onClose ran
    early,          \* history: those of them that were not in m_sessions yet
    settled         \* history: those whose only timer was installed by then,
                    \* and known to them

loopVars == <<pc, iter>>
timerVars == <<m_timers, m_pendingRemoveTimers, removing>>
taskVars == <<m_customTasks, tasks>>
idVars == <<baseID, made, shared>>
closeVars == <<closed, early, settled>>
vars == <<loopVars, timerVars, taskVars, idVars, m_sessions, m_status, m_timerID,
          frame, closeVars>>

TypeOK ==
    /\ pc \in {"check", "send", "remove", "ends", "events", "tasks"}
    /\ iter \in Nat \ {0}
    /\ m_timers \in Seq(Timer) /\ m_pendingRemoveTimers \subseteq TimerIDs
    /\ removing \subseteq TimerIDs
    /\ m_customTasks \in Seq(Timer) /\ tasks \in Seq(Timer)
    /\ baseID \in 0 .. MaxTimers
    /\ m_sessions \subseteq Sessions
    /\ m_status \in [Sessions -> {"idle", "busy"}]
    /\ m_timerID \in [Sessions -> TimerIDs \cup {Unset}]
    /\ frame \in [Threads -> Frame]
    /\ made \in [Sessions -> SUBSET TimerIDs] /\ shared \subseteq TimerIDs
    /\ closed \subseteq Sessions /\ early \subseteq closed /\ settled \subseteq closed

Init ==
    /\ pc = "check" /\ iter = 1
    /\ m_timers = << >> /\ m_pendingRemoveTimers = {} /\ removing = {}
    /\ m_customTasks = << >> /\ tasks = << >>
    /\ baseID = 0
    /\ m_sessions = {}
    /\ m_status = [s \in Sessions |-> "idle"]
    /\ m_timerID = [s \in Sessions |-> Unset]
    /\ frame = [w \in Threads |-> Idle]
    /\ made = [s \in Sessions |-> {}] /\ shared = {}
    /\ closed = {} /\ early = {} /\ settled = {}

-----------------------------------------------------------------------------
(* Frames.                                                                 *)

At(w, at) == frame[w].at = at
GoTo(w, f) == frame' = [frame EXCEPT ![w] = f]

\* The object of s exists, its callbacks are set and its socket is read.
Connected(s) ==
    s \in m_sessions \cup closed \/ (~ At("base", "none") /\ frame["base"].s = s)

InstalledFor(s) == \E i \in DOMAIN m_timers : m_timers[i].s = s
PostedFor(s) == \E i \in DOMAIN (tasks \o m_customTasks) :
                    (tasks \o m_customTasks)[i].s = s

\* The loop's thread can take the next event or task.
Handling == pc \in {"events", "tasks"} /\ At("loop", "none")

-----------------------------------------------------------------------------
(* notifyUserToBeReady(s) on thread w.                                     *)

\* geneateTimerID: baseID++ ...
IncrementID(w) ==
    /\ At(w, "ids")
    /\ baseID' = baseID + 1
    /\ GoTo(w, [at |-> "read", s |-> frame[w].s])
    /\ UNCHANGED <<loopVars, timerVars, taskVars, made, shared, m_sessions,
                   m_status, m_timerID, closeVars>>

\* ... and the read, which sees what others have added meanwhile.
ReadID(w) ==
    /\ At(w, "read")
    /\ LET s == frame[w].s IN
         /\ made' = [made EXCEPT ![s] = @ \cup {baseID}]
         /\ shared' = IF \E t \in Sessions : baseID \in made[t]
                      THEN shared \cup {baseID} ELSE shared
         /\ GoTo(w, [at |-> "add", s |-> s, id |-> baseID])
    /\ UNCHANGED <<loopVars, timerVars, taskVars, baseID, m_sessions, m_status,
                   m_timerID, closeVars>>

\* Mutant: no timer is added for a session that has one.
AddTimer_UnlessInstalled(w) ==
    /\ At(w, "add")
    /\ LET timer == [id |-> frame[w].id, s |-> frame[w].s] IN
         IF InstalledFor(frame[w].s) THEN UNCHANGED <<m_timers, m_customTasks>>
         ELSE IF w = "loop"
         THEN m_timers' = Append(m_timers, timer) /\ UNCHANGED m_customTasks
         ELSE m_customTasks' = Append(m_customTasks, timer) /\ UNCHANGED m_timers
    /\ GoTo(w, [frame[w] EXCEPT !.at = "assign"])
    /\ UNCHANGED <<loopVars, m_pendingRemoveTimers, removing, tasks, idVars, m_sessions,
                   m_status, m_timerID, closeVars>>

\* addTimerInternal: at once on the loop's thread, which is not walking, and
\* as a task from the others.
AddTimer(w) ==
    /\ At(w, "add")
    /\ LET timer == [id |-> frame[w].id, s |-> frame[w].s] IN
         IF w = "loop"
         THEN m_timers' = Append(m_timers, timer) /\ UNCHANGED m_customTasks
         ELSE m_customTasks' = Append(m_customTasks, timer) /\ UNCHANGED m_timers
    /\ GoTo(w, [frame[w] EXCEPT !.at = "assign"])
    /\ UNCHANGED <<loopVars, m_pendingRemoveTimers, removing, tasks, idVars, m_sessions,
                   m_status, m_timerID, closeVars>>

AssignTimerID(w) ==
    /\ At(w, "assign")
    /\ m_timerID' = [m_timerID EXCEPT ![frame[w].s] = frame[w].id]
    /\ GoTo(w, IF w = "base" THEN [at |-> "emplace", s |-> frame[w].s] ELSE Idle)
    /\ UNCHANGED <<loopVars, timerVars, taskVars, idVars, m_sessions, m_status,
                   closeVars>>

\* The bound leaves room for another timer, besides those that the threads are
\* about to make.
Claims == {w \in Threads : frame[w].at \in {"reset", "ids"}}
Room == baseID + Cardinality(Claims) < MaxTimers

NotifyUserToBeReady(w) ==
    IncrementID(w) \/ ReadID(w) \/ AddTimer(w) \/ AssignTimerID(w)

-----------------------------------------------------------------------------
(* The base thread: onConnected, and the deal to a session that is READY.  *)

Connect(s) ==
    /\ At("base", "none") /\ ~ Connected(s) /\ \A t \in 1 .. s - 1 : Connected(t)
    /\ Room
    /\ GoTo("base", [at |-> "ids", s |-> s])
    /\ UNCHANGED <<loopVars, timerVars, taskVars, idVars, m_sessions, m_status,
                   m_timerID, closeVars>>

Emplace ==
    /\ At("base", "emplace")
    /\ m_sessions' = m_sessions \cup {frame["base"].s}
    /\ GoTo("base", Idle)
    /\ UNCHANGED <<loopVars, timerVars, taskVars, idVars, m_status, m_timerID,
                   closeVars>>

\* The deal has seen the session READY and sends it cards ...
Deal(s) ==
    /\ At("base", "none") /\ s \in m_sessions /\ m_status[s] = "busy"
    /\ GoTo("base", [at |-> "deal", s |-> s])
    /\ UNCHANGED <<loopVars, timerVars, taskVars, idVars, m_sessions, m_status,
                   m_timerID, closeVars>>

\* ... before it sets it IN_GAME.
SetInGame ==
    /\ At("base", "deal")
    /\ m_status' = [m_status EXCEPT ![frame["base"].s] = "busy"]
    /\ GoTo("base", Idle)
    /\ UNCHANGED <<loopVars, timerVars, taskVars, idVars, m_sessions, m_timerID,
                   closeVars>>

-----------------------------------------------------------------------------
(* Handlers of the loop and of the worker.                                 *)

\* "!ready", which the session's own loop reads.
Ready(s) ==
    /\ pc = "events" /\ Handling /\ Connected(s) /\ s \notin closed
    /\ m_status' = [m_status EXCEPT ![s] = "busy"]
    /\ UNCHANGED <<loopVars, timerVars, taskVars, idVars, m_sessions, m_timerID,
                   frame, closeVars>>

\* An answer: resetToIdle of a session of the map, at the winner's desk or,
\* where the winner has none, at none.
Reset(w, s) ==
    /\ w \in {"loop", "worker"} /\ At(w, "none") /\ s \in m_sessions
    /\ w = "loop" => pc = "events"
    /\ Room
    /\ GoTo(w, [at |-> "reset", s |-> s])
    /\ UNCHANGED <<loopVars, timerVars, taskVars, idVars, m_sessions, m_status,
                   m_timerID, closeVars>>

SetIdle(w) ==
    /\ At(w, "reset")
    /\ m_status' = [m_status EXCEPT ![frame[w].s] = "idle"]
    /\ GoTo(w, [at |-> "ids", s |-> frame[w].s])
    /\ UNCHANGED <<loopVars, timerVars, taskVars, idVars, m_sessions, m_timerID,
                   closeVars>>

Erase(timers, id) == RemoveFirstMatch(timers, LAMBDA timer : timer.id = id)

\* Mutant: during the walk the removal is left out.
RemoveTimer_OutsideWalk(s, checking) ==
    /\ m_timers' = IF checking THEN m_timers ELSE Erase(m_timers, m_timerID[s])
    /\ UNCHANGED <<m_pendingRemoveTimers, shared>>

\* removeTimer(m_timerID): during checkAndDoTimers it waits for the end of the
\* walk.  Where m_timerID is not set, any timer or none may be meant.
RemoveTimer(s, checking) ==
    \E id \in IF m_timerID[s] = Unset THEN TimerIDs \cup {Unset} ELSE {m_timerID[s]} :
      /\ IF checking
         THEN /\ m_pendingRemoveTimers' = m_pendingRemoveTimers \cup ({id} \ {Unset})
              /\ UNCHANGED m_timers
         ELSE m_timers' = Erase(m_timers, id) /\ UNCHANGED m_pendingRemoveTimers
      /\ shared' = IF m_timerID[s] = Unset THEN shared \cup ({id} \ {Unset}) ELSE shared

\* Mutant: a session that is busy stays in the map.
OnDisconnected_IdleOnly(s) ==
    m_sessions' = IF m_status[s] = "idle" THEN m_sessions \ {s} ELSE m_sessions

OnDisconnected(s) == m_sessions' = m_sessions \ {s}

OnClose(s, checking) ==
    /\ s \in Leavers
    /\ RemoveTimer(s, checking)
    /\ OnDisconnected(s)
    /\ closed' = closed \cup {s}
    /\ early' = IF s \in closed \cup m_sessions THEN early ELSE early \cup {s}
    /\ settled' = IF s \notin closed /\ InstalledFor(s) /\ made[s] = {m_timerID[s]}
                  THEN settled \cup {s} ELSE settled
    /\ UNCHANGED <<removing, taskVars, baseID, made, m_status, m_timerID, frame>>

\* The client has gone, or a send to it has failed, perhaps after onClose.
Close(s) == Handling /\ Connected(s) /\ OnClose(s, FALSE) /\ UNCHANGED loopVars

-----------------------------------------------------------------------------
(* The loop: timers, events, tasks.                                        *)

AtTimer == pc = "check" /\ iter <= Len(m_timers)
This == m_timers[iter]

PassTimer ==
    /\ AtTimer
    /\ iter' = iter + 1
    /\ UNCHANGED <<pc, timerVars, taskVars, idVars, m_sessions, m_status, m_timerID,
                   frame, closeVars>>

\* The timer is due, and its callback loads m_status.
Callback ==
    /\ AtTimer
    /\ pc' = IF m_status[This.s] = "idle" THEN "send" ELSE "remove"
    /\ UNCHANGED <<iter, timerVars, taskVars, idVars, m_sessions, m_status, m_timerID,
                   frame, closeVars>>

BackToWalk == pc' = "check" /\ iter' = iter + 1

CallbackSends ==
    /\ pc = "send"
    /\ BackToWalk
    /\ UNCHANGED <<timerVars, taskVars, idVars, m_sessions, m_status, m_timerID,
                   frame, closeVars>>

CallbackSendFails ==
    pc = "send" /\ BackToWalk /\ OnClose(This.s, TRUE)

\* The removal waits for the end of the walk.
CallbackRemoves ==
    /\ pc = "remove"
    /\ BackToWalk
    /\ m_pendingRemoveTimers' = m_pendingRemoveTimers \cup {This.id}
    /\ UNCHANGED <<m_timers, removing, taskVars, idVars, m_sessions, m_status,
                   m_timerID, frame, closeVars>>

\* After the walk all the removals there ever were are made, the list being
\* never emptied.  (It is a set here: with a repeated entry the second of two
\* timers of one id would go now and not with the next walk.)
EndWalk ==
    /\ pc = "check" /\ iter > Len(m_timers)
    /\ pc' = "ends" /\ iter' = 1
    /\ removing' = m_pendingRemoveTimers
    /\ UNCHANGED <<m_timers, m_pendingRemoveTimers, taskVars, idVars, m_sessions,
                   m_status, m_timerID, frame, closeVars>>

RemovePending(id) ==
    /\ pc = "ends" /\ id \in removing
    /\ m_timers' = Erase(m_timers, id)
    /\ removing' = removing \ {id}
    /\ UNCHANGED <<loopVars, m_pendingRemoveTimers, taskVars, idVars, m_sessions,
                   m_status, m_timerID, frame, closeVars>>

EndCheck ==
    /\ pc = "ends" /\ removing = {}
    /\ pc' = "events"
    /\ UNCHANGED <<iter, timerVars, taskVars, idVars, m_sessions, m_status, m_timerID,
                   frame, closeVars>>

TakeTasks ==
    /\ pc = "events" /\ Handling
    /\ pc' = "tasks"
    /\ tasks' = m_customTasks /\ m_customTasks' = << >>
    /\ UNCHANGED <<iter, timerVars, idVars, m_sessions, m_status, m_timerID, frame,
                   closeVars>>

RunAdd ==
    /\ pc = "tasks" /\ tasks # << >>
    /\ m_timers' = Append(m_timers, Head(tasks))
    /\ tasks' = Tail(tasks)
    /\ UNCHANGED <<loopVars, m_pendingRemoveTimers, removing, m_customTasks, idVars, m_sessions,
                   m_status, m_timerID, frame, closeVars>>

EndTasks ==
    /\ pc = "tasks" /\ tasks = << >>
    /\ pc' = "check"
    /\ UNCHANGED <<iter, timerVars, taskVars, idVars, m_sessions, m_status, m_timerID,
                   frame, closeVars>>

Turn == PassTimer \/ Callback \/ CallbackSends \/ CallbackSendFails
          \/ CallbackRemoves \/ EndWalk \/ (\E id \in TimerIDs : RemovePending(id))
          \/ EndCheck \/ TakeTasks \/ RunAdd \/ EndTasks

Next ==
    \/ \E w \in Threads : NotifyUserToBeReady(w) \/ SetIdle(w)
    \/ \E s \in Sessions : Connect(s) \/ Deal(s) \/ Ready(s) \/ Close(s)
                             \/ \E w \in Threads : Reset(w, s)
    \/ Emplace \/ SetInGame
    \/ Turn

Spec == Init /\ [][Next]_vars

-----------------------------------------------------------------------------
(* Properties.                                                             *)

\* Some thread is about to add a timer for s.
Notifying(s) ==
    \E w \in Threads : frame[w].at \in {"ids", "read", "add"} /\ frame[w].s = s

\* However resets on two threads, "!ready" and the callbacks' removals race,
\* a session that is IDLE keeps a reminder, unless ids were mixed up: two
\* timers got one id, or a session closed before it was told its own.
IdleIsReminded ==
    \A s \in m_sessions \ closed :
        m_status[s] = "idle" =>
            \/ InstalledFor(s) \/ PostedFor(s) \/ Notifying(s)
            \/ made[s] \cap shared # {}

\* A session whose one timer was installed and known to it when it closed
\* leaves none behind, even if it closed in the middle of the walk.
SettledStaySilent ==
    \A s \in settled :
        pc \notin {"check", "send", "remove", "ends"} /\ made[s] \cap shared = {}
        /\ Cardinality(made[s]) = 1
          => ~ InstalledFor(s)

\* A closed session stays in the map, where the deal and the resets find it,
\* only when it closed before the base thread put it there.
GhostsWereEarly == m_sessions \cap closed \subseteq early
=============================================================================
