---------------------------- MODULE EventLoopProofs ----------------------------
(***************************************************************************)
(* Theorems about EventLoop, for every number of threads, timers, tasks,   *)
(* every interval, every mode of the timers and whatever callbacks call.   *)
(***************************************************************************)
EXTENDS EventLoop, WellFoundedInduction, TLAPS

-----------------------------------------------------------------------------
(* What erasing the first timer of an id does to the vector.               *)

\* A set of natural numbers that is not empty has a least element.
LEMMA LeastOfSet ==
    ASSUME NEW I \in SUBSET Nat, I # {}
    PROVE  \E m \in I : \A n \in I : m <= n
  <1> DEFINE R == {ss \in Nat \X Nat : ss[1] < ss[2]}
  <1>1. IsWellFoundedOn(R, Nat)
    BY NatLessThanWellFounded DEF OpToRel
  <1> HIDE DEF R
  <1>2. PICK x \in I : \A y \in I : ~ (<<y, x>> \in R)
    BY <1>1, WFMin
  <1>3. \A n \in I : ~ (n < x)
    BY <1>2 DEF R
  <1> QED  BY <1>3

\* Either there is none and nothing changes, or the timers behind move up.
LEMMA ErasedIs ==
    ASSUME m_timers \in Seq(Timers), NEW id
    PROVE  /\ Erased(id) \in Seq(Timers)
           /\ \/ Erased(id) = m_timers /\ \A i \in DOMAIN m_timers : m_id[m_timers[i]] # id
              \/ \E k \in DOMAIN m_timers :
                   /\ m_id[m_timers[k]] = id
                   /\ Len(Erased(id)) = Len(m_timers) - 1
                   /\ \A i \in 1 .. Len(m_timers) - 1 :
                        Erased(id)[i] = IF i < k THEN m_timers[i] ELSE m_timers[i + 1]
  <1> DEFINE s == m_timers
             I == {i \in 1 .. Len(s) : m_id[s[i]] = id}
             k == SelectInSeq(s, LAMBDA t : m_id[t] = id)
  <1>1. CASE I = {}
    <2>1. ~ \E i \in 1 .. Len(s) : m_id[s[i]] = id
      BY <1>1
    <2>2. Erased(id) = s
      BY <2>1 DEF Erased, RemoveFirstMatch
    <2> QED  BY <2>1, <2>2
  <1>2. CASE I # {}
    <2>1. PICK m \in I : \A n \in I : m <= n
      <3>1. I \in SUBSET Nat
        OBVIOUS
      <3> HIDE DEF I
      <3> QED  BY <1>2, <3>1, LeastOfSet
    <2>2. k \in 1 .. Len(s) /\ m_id[s[k]] = id
      BY <1>2, <2>1 DEF SelectInSeq, Min
    <2>3. Erased(id) = SubSeq(s, 1, k - 1) \o SubSeq(s, k + 1, Len(s))
      BY <1>2 DEF Erased, RemoveFirstMatch, RemoveAt
    <2> HIDE DEF k
    <2> DEFINE a == SubSeq(s, 1, k - 1)
               b == SubSeq(s, k + 1, Len(s))
    <2>4. /\ a \in Seq(Timers) /\ Len(a) = k - 1 /\ \A i \in 1 .. k - 1 : a[i] = s[i]
          /\ b \in Seq(Timers) /\ Len(b) = Len(s) - k
          /\ \A i \in 1 .. Len(s) - k : b[i] = s[k + i]
      BY <2>2, SMTT(40)
    <2>5. /\ a \o b \in Seq(Timers) /\ Len(a \o b) = Len(s) - 1
          /\ \A i \in 1 .. Len(s) - 1 :
               (a \o b)[i] = IF i < k THEN a[i] ELSE b[i - (k - 1)]
      <3> HIDE DEF a, b
      <3>1. /\ k \in Nat /\ Len(s) \in Nat /\ a \in Seq(Timers) /\ b \in Seq(Timers)
            /\ Len(a) = k - 1 /\ Len(b) = Len(s) - k
        BY <2>2, <2>4
      <3>2. a \o b \in Seq(Timers) /\ Len(a \o b) = Len(s) - 1
        BY <3>1, SMTT(40)
      <3>3. ASSUME NEW i \in 1 .. Len(s) - 1
            PROVE  (a \o b)[i] = IF i < k THEN a[i] ELSE b[i - (k - 1)]
        <4>1. CASE i < k
          BY <3>1, <4>1
        <4>2. CASE ~ (i < k)
          BY <3>1, <4>2
        <4> QED  BY <4>1, <4>2
      <3> QED  BY <3>2, <3>3
    <2>6. \A i \in 1 .. Len(s) - 1 : (a \o b)[i] = IF i < k THEN s[i] ELSE s[i + 1]
      <3> SUFFICES ASSUME NEW i \in 1 .. Len(s) - 1
                   PROVE  (a \o b)[i] = IF i < k THEN s[i] ELSE s[i + 1]
        OBVIOUS
      <3> HIDE DEF a, b
      <3>1. CASE i < k
        BY <3>1, <2>2, <2>4, <2>5
      <3>2. CASE ~ (i < k)
        <4>1. i - (k - 1) \in 1 .. Len(s) - k /\ k + (i - (k - 1)) = i + 1
          BY <3>2, <2>2
        <4> QED  BY <3>2, <4>1, <2>4, <2>5
      <3> QED  BY <3>1, <3>2
    <2> HIDE DEF a, b
    <2>7. Erased(id) = a \o b
      BY <2>3 DEF a, b
    <2>8. /\ Erased(id) \in Seq(Timers)
          /\ Len(Erased(id)) = Len(s) - 1
          /\ \A i \in 1 .. Len(s) - 1 :
               Erased(id)[i] = IF i < k THEN s[i] ELSE s[i + 1]
      BY <2>5, <2>6, <2>7
    <2>9. k \in DOMAIN s
      BY <2>2
    <2> QED  BY <2>2, <2>8, <2>9
  <1> QED  BY <1>1, <1>2

\* No timer of X is installed twice.
Unique(ts, X) == \A i, j \in DOMAIN ts : ts[i] = ts[j] /\ ts[i] \in X => i = j

\* Erasing adds no timer and doubles none; where one of the id is installed,
\* one of the id is taken, and is gone unless it was there twice.
LEMMA ErasedTakes ==
    ASSUME m_timers \in Seq(Timers), NEW id, NEW X, Unique(m_timers, X)
    PROVE  /\ ToSet(Erased(id)) \subseteq ToSet(m_timers)
           /\ Unique(Erased(id), X)
           /\ \/ \A t \in ToSet(m_timers) : m_id[t] # id
              \/ \E t \in ToSet(m_timers) :
                   m_id[t] = id /\ (t \in X => t \notin ToSet(Erased(id)))
  <1> DEFINE r == Erased(id)
  <1>1. CASE r = m_timers /\ \A i \in DOMAIN m_timers : m_id[m_timers[i]] # id
    BY <1>1 DEF ToSet
  <1>2. ASSUME NEW k \in DOMAIN m_timers, m_id[m_timers[k]] = id,
               Len(r) = Len(m_timers) - 1,
               \A i \in 1 .. Len(m_timers) - 1 :
                 r[i] = IF i < k THEN m_timers[i] ELSE m_timers[i + 1]
        PROVE  /\ ToSet(r) \subseteq ToSet(m_timers)
               /\ Unique(r, X)
               /\ m_timers[k] \in X => m_timers[k] \notin ToSet(r)
    <2>1. r \in Seq(Timers)
      BY ErasedIs
    <2> DEFINE old(i) == IF i < k THEN i ELSE i + 1
    <2> HIDE DEF r
    <2>2. \A i \in DOMAIN r : r[i] = m_timers[old(i)] /\ old(i) \in DOMAIN m_timers /\ old(i) # k
      BY <1>2, <2>1
    <2>3. \A i, j \in DOMAIN r : old(i) = old(j) => i = j
      BY <2>1
    <2> HIDE DEF old
    <2>4. ToSet(r) \subseteq ToSet(m_timers)
      BY <2>2 DEF ToSet
    <2>5. Unique(r, X)
      BY <2>2, <2>3 DEF Unique
    <2>6. m_timers[k] \in X => m_timers[k] \notin ToSet(r)
      BY <1>2, <2>2 DEF Unique, ToSet
    <2> QED  BY <2>4, <2>5, <2>6
  <1>3. \A k \in DOMAIN m_timers : m_timers[k] \in ToSet(m_timers)
    BY DEF ToSet
  <1> HIDE DEF r
  <1>4. \/ r = m_timers /\ \A i \in DOMAIN m_timers : m_id[m_timers[i]] # id
        \/ \E k \in DOMAIN m_timers :
             /\ m_id[m_timers[k]] = id
             /\ Len(r) = Len(m_timers) - 1
             /\ \A i \in 1 .. Len(m_timers) - 1 :
                  r[i] = IF i < k THEN m_timers[i] ELSE m_timers[i + 1]
    BY ErasedIs DEF r
  <1>5. CASE \E k \in DOMAIN m_timers :
               /\ m_id[m_timers[k]] = id
               /\ Len(r) = Len(m_timers) - 1
               /\ \A i \in 1 .. Len(m_timers) - 1 :
                    r[i] = IF i < k THEN m_timers[i] ELSE m_timers[i + 1]
    <2>1. PICK k \in DOMAIN m_timers :
               /\ m_id[m_timers[k]] = id
               /\ Len(r) = Len(m_timers) - 1
               /\ \A i \in 1 .. Len(m_timers) - 1 :
                    r[i] = IF i < k THEN m_timers[i] ELSE m_timers[i + 1]
      BY <1>5
    <2>2. /\ ToSet(r) \subseteq ToSet(m_timers) /\ Unique(r, X)
          /\ m_timers[k] \in X => m_timers[k] \notin ToSet(r)
      BY <1>2, <2>1
    <2> QED  BY <1>3, <2>1, <2>2 DEF r
  <1> QED  BY <1>1, <1>4, <1>5 DEF r

-----------------------------------------------------------------------------
(* Types.                                                                  *)

\* A thread that is to hand over a timer has one, and its own ++ counted it.
MakingInv ==
    /\ pc \in {"callbackAdds", "handlerAdds"} => making[OwnThread] # None
    /\ \A th \in Threads : making[th] <= baseID

\* addTimerInternal and removeTimerInternal keep the types.
LEMMA InternalTypes ==
    ASSUME TypeOK, NEW t \in Timers, NEW id \in TimerIDs
    PROVE  /\ AddTimerInternal(t) =>
                m_timers' \in Seq(Timers) /\ m_pendingAddTimers' \in Seq(Timers)
           /\ RemoveTimerInternal(id) =>
                m_timers' \in Seq(Timers) /\ m_pendingRemoveTimers' \in Seq(TimerIDs)
  <1>1. /\ m_timers \in Seq(Timers) /\ m_pendingAddTimers \in Seq(Timers)
        /\ m_pendingRemoveTimers \in Seq(TimerIDs)
    BY DEF TypeOK
  <1>2. /\ Erased(id) \in Seq(Timers)
        /\ Append(m_timers, t) \in Seq(Timers)
        /\ Append(m_pendingAddTimers, t) \in Seq(Timers)
        /\ Append(m_pendingRemoveTimers, id) \in Seq(TimerIDs)
    BY <1>1, ErasedIs
  <1> QED  BY <1>1, <1>2, Zenon DEF AddTimerInternal, RemoveTimerInternal

\* baseID++ keeps the types.
LEMMA NewTimerTypes ==
    ASSUME TypeOK, MakingInv, NEW th \in Threads, NewTimer(th)
    PROVE  /\ baseID' = baseID + 1 /\ baseID' \in 0 .. MaxTimers
           /\ making' \in [Threads -> Timers \cup {None}]
           /\ making'[th] = baseID + 1 /\ baseID + 1 # None
           /\ \A o \in Threads : making'[o] <= baseID'
           /\ \A o \in Threads \ {th} : making'[o] = making[o]
           /\ m_id' = m_id
  <1>1. /\ baseID \in 0 .. MaxTimers /\ baseID < MaxTimers /\ MaxTimers \in Nat
        /\ making \in [Threads -> Timers \cup {None}] /\ baseID' = baseID + 1
        /\ making' = [making EXCEPT ![th] = baseID + 1] /\ m_id' = m_id
    BY LoopAssumption DEF TypeOK, NewTimer
  <1>2. baseID + 1 \in Timers /\ baseID + 1 \in 0 .. MaxTimers /\ baseID + 1 # None
    BY <1>1 DEF Timers, None
  <1>3. \A o \in Threads : making[o] \in Nat /\ making[o] <= baseID
    BY <1>1 DEF MakingInv, Timers, None
  <1> QED  BY <1>1, <1>2, <1>3

\* Reading the id keeps the types.
LEMMA ReadIDTypes ==
    ASSUME TypeOK, MakingInv, NEW th \in Threads, making[th] # None,
           ReadID(making[th])
    PROVE  /\ making[th] \in Timers
           /\ m_id' \in [Timers -> TimerIDs \cup {None}]
           /\ m_nextTriggeredTimeMs' \in [Timers -> Nat]
           /\ created' \in [Timers -> Nat]
           /\ baseID' = baseID
  <1>1. /\ making[th] \in Timers /\ baseID \in 0 .. MaxTimers /\ making[th] <= baseID
    BY DEF TypeOK, MakingInv
  <1>2. baseID \in TimerIDs
    BY <1>1, LoopAssumption DEF Timers, TimerIDs
  <1>3. now \in Nat /\ now + Interval \in Nat
    BY LoopAssumption DEF TypeOK
  <1> QED  BY <1>1, <1>2, <1>3 DEF TypeOK, ReadID

LEMMA OwnAddsTypes ==
    ASSUME TypeOK, MakingInv, OwnAddsTimer, making[OwnThread] # None
    PROVE  /\ making[OwnThread] \in Timers
           /\ m_id' \in [Timers -> TimerIDs \cup {None}]
           /\ m_nextTriggeredTimeMs' \in [Timers -> Nat]
           /\ created' \in [Timers -> Nat]
           /\ m_timers' \in Seq(Timers) /\ m_pendingAddTimers' \in Seq(Timers)
           /\ making' \in [Threads -> Timers \cup {None}]
           /\ baseID' = baseID
  <1>1. OwnThread \in Threads
    BY DEF Threads
  <1>2. ReadID(making[OwnThread]) /\ AddTimerInternal(making[OwnThread])
    BY DEF OwnAddsTimer
  <1>3. making[OwnThread] \in Timers
    BY <1>1, <1>2, ReadIDTypes
  <1>4. making' \in [Threads -> Timers \cup {None}]
    BY DEF OwnAddsTimer, TypeOK
  <1>5. m_timers' \in Seq(Timers) /\ m_pendingAddTimers' \in Seq(Timers)
    <2>1. TimerIDs # {}
      BY <1>3 DEF TimerIDs, Timers
    <2> QED  BY <1>2, <1>3, <2>1, InternalTypes
  <1> QED  BY <1>1, <1>2, <1>3, <1>4, <1>5, ReadIDTypes

\* doTimer keeps the types.
LEMMA DoTimerTypes ==
    ASSUME TypeOK, AtTimer
    PROVE  /\ m_timers[iter] \in Timers
           /\ AfterCall(m_timers[iter]) \in Nat
  <1>1. m_timers[iter] \in Timers
    BY DEF TypeOK, AtTimer
  <1>2. nowMs + Interval \in Nat
    BY LoopAssumption DEF TypeOK
  <1>3. /\ m_nextTriggeredTimeMs[m_timers[iter]] \in Nat
        /\ m_nextTriggeredTimeMs[m_timers[iter]] + Interval \in Nat
    <2>1. m_nextTriggeredTimeMs \in [Timers -> Nat]
      BY DEF TypeOK
    <2>2. \A t \in Timers : m_nextTriggeredTimeMs[t] \in Nat
      BY <2>1
    <2>3. \A n \in Nat : n + Interval \in Nat
      BY LoopAssumption
    <2> QED  BY <1>1, <2>2, <2>3, Zenon
  <1> QED  BY <1>1, <1>2, <1>3, Zenon DEF AfterCall

LEMMA LoopStepTypes == TypeOK /\ MakingInv /\ LoopStep => TypeOK'
  <1> SUFFICES ASSUME TypeOK, MakingInv, LoopStep PROVE TypeOK'
    OBVIOUS
  <1>1. CASE StartCheck
    BY <1>1 DEF TypeOK, StartCheck, taskVars, madeVars, idVars, pollVars
  <1>2. CASE PassTimer
    BY <1>2 DEF TypeOK, PassTimer, taskVars, madeVars, idVars, pollVars, clockVars
  <1>3. ASSUME DoTimer
        PROVE  /\ m_nextTriggeredTimeMs' \in [Timers -> Nat] /\ iter + 1 \in Nat \ {0}
               /\ UNCHANGED <<clockVars, created, m_isCheckTimers, taskVars, pollVars>>
    BY <1>3, DoTimerTypes DEF TypeOK, DoTimer
  <1>4. CASE CallbackReturns
    BY <1>3, <1>4 DEF TypeOK, CallbackReturns, idVars, taskVars, pollVars, clockVars
  <1>5. ASSUME NEW id \in TimerIDs, CallbackRemoves(id)
        PROVE  TypeOK'
    <2>1. m_timers' \in Seq(Timers) /\ m_pendingRemoveTimers' \in Seq(TimerIDs)
      BY <1>5, DoTimerTypes, InternalTypes DEF CallbackRemoves, DoTimer
    <2> QED  BY <1>3, <1>5, <2>1
             DEF TypeOK, CallbackRemoves, idVars, taskVars, pollVars, clockVars
  <1>6. CASE CallbackNewTimer
    <2>1. OwnThread \in Threads /\ NewTimer(OwnThread)
      BY <1>6 DEF CallbackNewTimer, Threads
    <2>2. /\ baseID' \in 0 .. MaxTimers /\ m_id' = m_id
          /\ making' \in [Threads -> Timers \cup {None}]
      BY <2>1, NewTimerTypes
    <2> QED  BY <1>3, <1>6, <2>2
             DEF TypeOK, CallbackNewTimer, taskVars, pollVars, clockVars
  <1>7. CASE CallbackAdds
    <2>1. OwnAddsTimer /\ making[OwnThread] # None
      BY <1>7 DEF CallbackAdds, MakingInv
    <2>2. iter' \in Nat \ {0} /\ pc' = "check"
      BY <1>7 DEF CallbackAdds, TypeOK
    <2> QED  BY <1>7, <2>1, <2>2, OwnAddsTypes
             DEF TypeOK, CallbackAdds, taskVars, pollVars, clockVars
  <1>8. CASE EndWalk
    <2>1. /\ pc' = "pending" /\ iter' \in Nat \ {0}
          /\ m_isCheckTimers' \in BOOLEAN
      <3>1. pc' = "pending" /\ iter' = 1
        BY <1>8 DEF EndWalk
      <3>2. m_isCheckTimers' \in BOOLEAN
        BY <1>8, Zenon DEF EndWalk
      <3> QED  BY <3>1, <3>2
    <2>2. UNCHANGED <<clockVars, madeVars, m_timers, m_pendingAddTimers,
                      m_pendingRemoveTimers, taskVars, pollVars>>
      BY <1>8 DEF EndWalk
    <2> QED  BY <2>1, <2>2 DEF TypeOK, taskVars, madeVars, idVars, pollVars, clockVars
  <1>9. CASE RemovePending
    <2>1. m_pendingRemoveTimers[iter] \in TimerIDs
      BY <1>9 DEF RemovePending, TypeOK
    <2>2. m_timers' \in Seq(Timers) /\ m_pendingRemoveTimers' \in Seq(TimerIDs)
      <3>1. Timers # {}
        BY <2>1 DEF TimerIDs, Timers
      <3> QED  BY <1>9, <2>1, <3>1, InternalTypes DEF RemovePending
    <2>3. iter' \in Nat \ {0} /\ pc' = pc
      BY <1>9 DEF RemovePending, TypeOK
    <2> QED  BY <1>9, <2>2, <2>3
             DEF TypeOK, RemovePending, taskVars, madeVars, idVars, pollVars, clockVars
  <1>10. CASE EndCheck
    <2>1. m_timers' \in Seq(Timers) /\ iter' \in Nat \ {0} /\ nowMs' \in Nat
      BY <1>10 DEF EndCheck, TypeOK
    <2> QED  BY <1>10, <2>1 DEF TypeOK, EndCheck, taskVars, madeVars, idVars, pollVars
  <1>11. CASE Poll
    BY <1>11 DEF TypeOK, Poll, taskVars, madeVars, idVars, timerVars, clockVars
  <1>12. CASE HandlerNewTimer
    <2>1. OwnThread \in Threads /\ NewTimer(OwnThread)
      BY <1>12 DEF HandlerNewTimer, Threads
    <2>2. /\ baseID' \in 0 .. MaxTimers /\ m_id' = m_id
          /\ making' \in [Threads -> Timers \cup {None}]
      BY <2>1, NewTimerTypes
    <2> QED  BY <1>12, <2>2
             DEF TypeOK, HandlerNewTimer, timerVars, taskVars, pollVars, clockVars
  <1>13. CASE HandlerAddsTimer
    <2>1. OwnAddsTimer /\ making[OwnThread] # None
      BY <1>13 DEF HandlerAddsTimer, MakingInv
    <2> QED  BY <1>13, <2>1, OwnAddsTypes
             DEF TypeOK, HandlerAddsTimer, taskVars, pollVars, clockVars
  <1>14. ASSUME NEW id \in TimerIDs, RemoveTimerInternal(id)
         PROVE  m_timers' \in Seq(Timers) /\ m_pendingRemoveTimers' \in Seq(TimerIDs)
    <2>1. Timers # {}
      BY DEF TimerIDs, Timers
    <2> QED  BY <1>14, <2>1, InternalTypes
  <1>15. ASSUME NEW id \in TimerIDs, HandlerRemovesTimer(id)
         PROVE  TypeOK'
    BY <1>15, <1>14
       DEF TypeOK, HandlerRemovesTimer, taskVars, madeVars, idVars, pollVars, clockVars
  <1>16. CASE TakeTasks
    BY <1>16 DEF TypeOK, TakeTasks, madeVars, idVars, timerVars, clockVars
  <1>17. ASSUME NEW op, RunTask(op)
         PROVE  /\ Head(tasks) \in Task /\ tasks' \in Seq(Task)
                /\ Head(tasks).op = "add" => Head(tasks).timer \in Timers
                /\ Head(tasks).op = "remove" => Head(tasks).id \in TimerIDs
                /\ UNCHANGED <<pc, clockVars, madeVars, m_isCheckTimers, iter,
                               m_customTasks, posting, pollVars>>
    BY <1>17 DEF TypeOK, RunTask, Task
  <1>18. CASE RunAdd
    <2>1. /\ RunTask("add") /\ Head(tasks).timer \in Timers
          /\ AddTimerInternal(Head(tasks).timer)
      BY <1>17, <1>18 DEF RunAdd, RunTask
    <2>2. m_timers' \in Seq(Timers) /\ m_pendingAddTimers' \in Seq(Timers)
      <3>1. TimerIDs # {}
        BY <2>1 DEF TimerIDs, Timers
      <3> QED  BY <2>1, <3>1, InternalTypes
    <2> QED  BY <1>17, <1>18, <2>1, <2>2
             DEF TypeOK, RunAdd, madeVars, idVars, pollVars, clockVars
  <1>19. CASE RunRemove
    <2>1. /\ RunTask("remove") /\ Head(tasks).id \in TimerIDs
          /\ RemoveTimerInternal(Head(tasks).id)
      BY <1>17, <1>19 DEF RunRemove, RunTask
    <2>2. m_timers' \in Seq(Timers) /\ m_pendingRemoveTimers' \in Seq(TimerIDs)
      BY <2>1, <1>14
    <2> QED  BY <1>17, <1>19, <2>1, <2>2
             DEF TypeOK, RunRemove, madeVars, idVars, pollVars, clockVars
  <1>20. CASE RunSend
    <2>1. m_timers' \in Seq(Timers) /\ m_pendingRemoveTimers' \in Seq(TimerIDs)
      BY <1>20, <1>14 DEF RunSend, TypeOK
    <2> QED  BY <1>17, <1>20, <2>1
             DEF TypeOK, RunSend, madeVars, idVars, pollVars, clockVars
  <1>21. CASE EndTasks
    BY <1>21 DEF TypeOK, EndTasks, timerVars, taskVars, madeVars, idVars, pollVars, clockVars
  <1> QED  BY <1>1, <1>2, <1>4, <1>5, <1>6, <1>7, <1>8, <1>9, <1>10, <1>11, <1>12,
              <1>13, <1>15, <1>16, <1>18, <1>19, <1>20, <1>21, Zenon DEF LoopStep


\* What another thread adds is a task.
LEMMA AddedIsTask ==
    ASSUME TypeOK, NEW o \in Others, OtherStep(o)
    PROVE  /\ UNCHANGED <<pc, clockVars, timerVars, tasks, woken>>
           /\ m_wakeupfd' = m_wakeupfd
           /\ \/ UNCHANGED m_customTasks /\ UNCHANGED posting
              \/ UNCHANGED <<m_customTasks, madeVars>>
                   /\ posting' = [posting EXCEPT ![o] = {}]
              \/ \E t \in Task : /\ m_customTasks' = Append(m_customTasks, t)
                                 /\ posting' = [posting EXCEPT ![o] = {t}]
                                 /\ t.op # "add" => UNCHANGED madeVars
                                 /\ t.op = "add" => OtherAddsTimer(o) /\ t = Adding(making[o])
                                 /\ t.op = "remove" => Known(t.id)
  <1>1. ASSUME NEW t, Push(o, t)
        PROVE  /\ UNCHANGED <<pc, clockVars, timerVars, tasks, woken>>
               /\ m_wakeupfd' = m_wakeupfd
               /\ m_customTasks' = Append(m_customTasks, t)
               /\ posting' = [posting EXCEPT ![o] = {t}]
    BY <1>1 DEF Push, pollVars
  <1>2. CASE OtherNewTimer(o) \/ OtherReadsID(o)
    BY <1>2 DEF OtherNewTimer, OtherReadsID, taskVars, pollVars
  <1>3. CASE OtherAddsTimer(o)
    <2>1. Adding(making[o]) \in Task /\ Adding(making[o]).op = "add"
      <3>1. making[o] \in Timers
        BY <1>3 DEF OtherAddsTimer, TypeOK, Threads
      <3> QED  BY <3>1 DEF Adding, Task
    <2>2. Push(o, Adding(making[o]))
      BY <1>3 DEF OtherAddsTimer
    <2> QED  BY <1>1, <1>3, <2>1, <2>2
  <1>4. CASE OtherSends(o)
    <2>1. [op |-> "send"] \in Task /\ [op |-> "send"].op = "send"
      BY DEF Task
    <2> QED  BY <1>1, <1>4, <2>1 DEF OtherSends
  <1>5. ASSUME NEW id \in TimerIDs, OtherRemovesTimer(o, id)
        PROVE  /\ UNCHANGED <<pc, clockVars, timerVars, tasks, woken>>
               /\ m_wakeupfd' = m_wakeupfd
               /\ \E t \in Task : /\ m_customTasks' = Append(m_customTasks, t)
                                  /\ posting' = [posting EXCEPT ![o] = {t}]
                                  /\ t.op # "add" /\ UNCHANGED madeVars
                                  /\ t.op = "remove" => Known(t.id)
    <2>1. /\ Removing(id) \in Task /\ Removing(id).op = "remove" /\ Removing(id).id = id
      BY DEF Removing, Task
    <2> QED  BY <1>1, <1>5, <2>1 DEF OtherRemovesTimer
  <1>6. CASE Wakeup(o)
    BY <1>6 DEF Wakeup, DummyDate, TypeOK
  <1> QED  BY <1>2, <1>3, <1>4, <1>5, <1>6 DEF OtherStep

LEMMA OtherStepTypes ==
    ASSUME TypeOK, MakingInv, NEW o \in Others, OtherStep(o)
    PROVE  TypeOK'
  <1>1. /\ m_customTasks' \in Seq(Task) /\ posting' \in [Others -> SUBSET Task]
        /\ UNCHANGED <<pc, clockVars, timerVars, tasks, woken>>
        /\ m_wakeupfd' = m_wakeupfd
    <2>1. m_customTasks \in Seq(Task) /\ posting \in [Others -> SUBSET Task]
      BY DEF TypeOK
    <2>2. \A t \in Task : Append(m_customTasks, t) \in Seq(Task)
      BY <2>1
    <2>3. \A ts \in SUBSET Task : [posting EXCEPT ![o] = ts] \in [Others -> SUBSET Task]
      BY <2>1
    <2>4. {} \in SUBSET Task /\ \A t \in Task : {t} \in SUBSET Task
      OBVIOUS
    <2>5. /\ UNCHANGED <<pc, clockVars, timerVars, tasks, woken>>
          /\ m_wakeupfd' = m_wakeupfd
          /\ \/ m_customTasks' = m_customTasks
             \/ \E t \in Task : m_customTasks' = Append(m_customTasks, t)
          /\ \/ posting' = posting
             \/ \E ts \in SUBSET Task : posting' = [posting EXCEPT ![o] = ts]
      BY <2>4, AddedIsTask, Zenon
    <2> QED  BY <2>1, <2>2, <2>3, <2>5
  <1>2. o \in Threads
    BY DEF Threads
  <1>3. /\ baseID' \in 0 .. MaxTimers
        /\ making' \in [Threads -> Timers \cup {None}]
        /\ m_id' \in [Timers -> TimerIDs \cup {None}]
        /\ m_nextTriggeredTimeMs' \in [Timers -> Nat] /\ created' \in [Timers -> Nat]
    <2>1. CASE OtherNewTimer(o)
      <3>1. NewTimer(o) /\ UNCHANGED <<m_nextTriggeredTimeMs, created>>
        BY <2>1 DEF OtherNewTimer
      <3> QED  BY <1>2, <3>1, NewTimerTypes DEF TypeOK
    <2>2. CASE OtherReadsID(o)
      <3>1. making[o] # None /\ ReadID(making[o]) /\ UNCHANGED making
        BY <2>2 DEF OtherReadsID
      <3> QED  BY <1>2, <3>1, ReadIDTypes DEF TypeOK
    <2>3. CASE OtherAddsTimer(o)
      BY <2>3 DEF OtherAddsTimer, TypeOK
    <2>4. CASE UNCHANGED madeVars
      BY <2>4 DEF TypeOK, madeVars, idVars
    <2> QED  BY <2>1, <2>2, <2>3, <2>4
             DEF OtherStep, OtherSends, OtherRemovesTimer, Wakeup
  <1> QED  BY <1>1, <1>3 DEF TypeOK, clockVars, timerVars

\* What a step does to the timers that are made and to their times.
LEMMA MadeSteps ==
    ASSUME TypeOK, MakingInv, [Next]_vars
    PROVE  \/ /\ \/ UNCHANGED idVars
                 \/ \E th \in Threads : NewTimer(th)
              /\ UNCHANGED <<m_nextTriggeredTimeMs, created>> \/ DoTimer
           \/ \E th \in Threads :
                /\ making[th] # None /\ ReadID(making[th])
                /\ UNCHANGED making \/ making' = [making EXCEPT ![th] = None]
           \/ \E o \in Others : OtherAddsTimer(o)
  <1>1. CASE UNCHANGED vars \/ Clock
    BY <1>1 DEF vars, madeVars, Clock
  <1>2. ASSUME NEW o \in Others, OtherStep(o)
        PROVE  \/ /\ UNCHANGED idVars \/ NewTimer(o)
                  /\ UNCHANGED <<m_nextTriggeredTimeMs, created>>
               \/ making[o] # None /\ ReadID(making[o]) /\ UNCHANGED making
               \/ OtherAddsTimer(o)
    BY <1>2 DEF OtherStep, OtherNewTimer, OtherReadsID, OtherRemovesTimer, OtherSends,
       Wakeup, madeVars
  <1>3. OwnThread \in Threads /\ Others \subseteq Threads
    BY DEF Threads
  <1>4. CASE LoopStep
    <2>1. CASE CallbackAdds \/ HandlerAddsTimer
      BY <2>1, <1>3 DEF CallbackAdds, HandlerAddsTimer, OwnAddsTimer, MakingInv
    <2>2. CASE CallbackNewTimer \/ HandlerNewTimer
      BY <2>2, <1>3 DEF CallbackNewTimer, HandlerNewTimer
    <2>3. CASE CallbackReturns \/ \E id \in TimerIDs : CallbackRemoves(id)
      BY <2>3 DEF CallbackReturns, CallbackRemoves
    <2>4. CASE ~ (\/ CallbackAdds \/ HandlerAddsTimer \/ CallbackNewTimer \/ HandlerNewTimer
                  \/ CallbackReturns \/ \E id \in TimerIDs : CallbackRemoves(id))
      <3>1. UNCHANGED madeVars
        BY <1>4, <2>4 DEF LoopStep, StartCheck, PassTimer, EndWalk, RemovePending, EndCheck,
           Poll, HandlerRemovesTimer, TakeTasks, RunAdd, RunRemove, RunSend, RunTask, EndTasks
      <3> QED  BY <3>1 DEF madeVars
    <2> QED  BY <2>1, <2>2, <2>3, <2>4
  <1> QED  BY <1>1, <1>2, <1>3, <1>4 DEF Next

LEMMA MakingSteps ==
    ASSUME TypeOK, MakingInv, [Next]_vars
    PROVE  MakingInv'
  <1>1. /\ making \in [Threads -> Timers \cup {None}]
        /\ Others \subseteq Threads /\ OwnThread \in Threads /\ OwnThread \notin Others
    BY LoopAssumption DEF TypeOK, Threads
  <1>2. \A th \in Threads : making'[th] <= baseID'
    <2>1. ASSUME NEW th \in Threads, NewTimer(th)
          PROVE  \A o \in Threads : making'[o] <= baseID'
      BY <2>1, NewTimerTypes
    <2>2. CASE UNCHANGED idVars
      BY <2>2 DEF idVars, MakingInv
    <2>3. ASSUME NEW th \in Threads, making[th] # None, ReadID(making[th]),
                 UNCHANGED making \/ making' = [making EXCEPT ![th] = None]
          PROVE  \A o \in Threads : making'[o] <= baseID'
      <3>1. baseID' = baseID /\ baseID \in Nat
        BY <2>3, LoopAssumption DEF ReadID, TypeOK
      <3>2. \A o \in Threads : making'[o] \in {making[o], None}
        BY <2>3, <1>1
      <3> QED  BY <3>1, <3>2 DEF MakingInv, None
    <2>4. ASSUME NEW o \in Others, OtherAddsTimer(o)
          PROVE  \A th \in Threads : making'[th] <= baseID'
      <3>1. baseID' = baseID /\ baseID \in Nat
        BY <2>4, LoopAssumption DEF OtherAddsTimer, TypeOK
      <3>2. \A th \in Threads : making'[th] \in {making[th], None}
        BY <2>4, <1>1 DEF OtherAddsTimer
      <3> QED  BY <3>1, <3>2 DEF MakingInv, None
    <2> QED  BY <2>1, <2>2, <2>3, <2>4, MadeSteps
  <1>3. pc' \in {"callbackAdds", "handlerAdds"} => making'[OwnThread] # None
    <2> SUFFICES ASSUME pc' \in {"callbackAdds", "handlerAdds"}
                 PROVE  making'[OwnThread] # None
      OBVIOUS
    <2>1. CASE CallbackNewTimer \/ HandlerNewTimer
      <3>1. NewTimer(OwnThread)
        BY <2>1 DEF CallbackNewTimer, HandlerNewTimer
      <3> QED  BY <1>1, <3>1, NewTimerTypes
    <2>2. ASSUME NEW o \in Others, OtherStep(o)
          PROVE  making'[OwnThread] = making[OwnThread] /\ pc' = pc
      BY <1>1, <2>2, AddedIsTask DEF OtherStep, OtherNewTimer, NewTimer, OtherReadsID,
         OtherAddsTimer, OtherRemovesTimer, OtherSends, Wakeup, madeVars, idVars
    <2>3. CASE UNCHANGED vars \/ Clock
      BY <2>3 DEF vars, Clock, madeVars, idVars, MakingInv
    <2>4. CASE LoopStep /\ ~ (CallbackNewTimer \/ HandlerNewTimer)
      <3>1. FALSE
        BY <2>4 DEF LoopStep, StartCheck, PassTimer, AtTimer, CallbackReturns, DoTimer,
           CallbackAdds, CallbackRemoves, EndWalk, RemovePending, EndCheck, Poll,
           HandlerAddsTimer, HandlerRemovesTimer, TakeTasks, RunAdd, RunRemove, RunSend,
           RunTask, EndTasks
      <3> QED  BY <3>1
    <2> QED  BY <2>1, <2>2, <2>3, <2>4 DEF Next, MakingInv
  <1> QED  BY <1>2, <1>3 DEF MakingInv

LEMMA LoopTypes == Spec => [](TypeOK /\ MakingInv)
  <1>1. Init => TypeOK /\ MakingInv
    <2> SUFFICES ASSUME Init PROVE TypeOK /\ MakingInv
      OBVIOUS
    <2>1. /\ baseID \in 0 .. MaxTimers /\ iter \in Nat \ {0}
          /\ now \in Nat /\ nowMs \in Nat /\ m_wakeupfd \in Nat
      BY LoopAssumption DEF Init
    <2>2. posting \in [Others -> SUBSET Task]
      BY DEF Init
    <2>3. << >> \in Seq(Task) /\ << >> \in Seq(TimerIDs) /\ << >> \in Seq(Timers)
      OBVIOUS
    <2>4. /\ m_nextTriggeredTimeMs \in [Timers -> Nat]
          /\ created \in [Timers -> Nat]
      BY DEF Init
    <2>5. /\ making \in [Threads -> Timers \cup {None}]
          /\ m_id \in [Timers -> TimerIDs \cup {None}]
      BY DEF Init
    <2>6. MakingInv
      BY DEF Init, MakingInv, None
    <2> QED  BY <2>1, <2>2, <2>3, <2>4, <2>5, <2>6 DEF Init, TypeOK
  <1>2. TypeOK /\ MakingInv /\ [Next]_vars => TypeOK'
    <2> SUFFICES ASSUME TypeOK, MakingInv, [Next]_vars PROVE TypeOK'
      OBVIOUS
    <2>1. CASE LoopStep
      BY <2>1, LoopStepTypes
    <2>2. CASE \E o \in Others : OtherStep(o)
      BY <2>2, OtherStepTypes
    <2>3. CASE Clock
      BY <2>3, LoopAssumption
         DEF TypeOK, Clock, madeVars, idVars, timerVars, taskVars, pollVars
    <2>4. CASE UNCHANGED vars
      BY <2>4 DEF TypeOK, vars, clockVars, madeVars, idVars, timerVars, taskVars, pollVars
    <2> QED  BY <2>1, <2>2, <2>3, <2>4 DEF Next
  <1>3. TypeOK /\ MakingInv /\ [Next]_vars => MakingInv'
    BY MakingSteps
  <1> QED  BY <1>1, <1>2, <1>3, PTL DEF Spec

\* Type correctness, for every bound, interval and mode, and whatever the
\* callbacks call.
THEOREM LoopTypeOK == Spec => []TypeOK
  BY LoopTypes, PTL

-----------------------------------------------------------------------------
(* The timers under checkAndDoTimers.                                      *)

\* The flag is up in the walk, its callbacks included, and nowhere else.
FlagInv == m_isCheckTimers = (pc = "check" \/ pc = "callbackAdds")

LEMMA FlagInvariant == Spec => []FlagInv
  <1>1. Init => FlagInv
    BY DEF Init, FlagInv
  <1>2. FlagInv /\ [Next]_vars => FlagInv'
    <2> SUFFICES ASSUME FlagInv, [Next]_vars PROVE FlagInv'
      OBVIOUS
    <2>1. CASE UNCHANGED <<pc, m_isCheckTimers>>
      BY <2>1 DEF FlagInv
    <2>2. CASE StartCheck
      BY <2>2 DEF StartCheck, FlagInv
    <2>3. CASE EndWalk
      BY <2>3 DEF EndWalk, FlagInv
    <2>4. CASE EndCheck \/ Poll \/ HandlerNewTimer \/ HandlerAddsTimer \/ TakeTasks \/ EndTasks
      BY <2>4 DEF EndCheck, Poll, HandlerNewTimer, HandlerAddsTimer, TakeTasks, EndTasks,
         FlagInv, timerVars
    <2>5. CASE CallbackNewTimer \/ CallbackAdds
      BY <2>5 DEF CallbackNewTimer, CallbackAdds, DoTimer, AtTimer, FlagInv
    <2>6. CASE ~ (StartCheck \/ EndWalk \/ EndCheck \/ Poll \/ HandlerNewTimer
                  \/ HandlerAddsTimer \/ TakeTasks \/ EndTasks \/ CallbackNewTimer
                  \/ CallbackAdds)
      <3>1. UNCHANGED <<pc, m_isCheckTimers>>
        BY <2>6 DEF Next, LoopStep, OtherStep, PassTimer, CallbackReturns,
           RemovePending, CallbackRemoves, DoTimer,
           HandlerRemovesTimer, RunAdd, RunRemove, RunSend, RunTask, OtherNewTimer,
           OtherReadsID, OtherAddsTimer,
           OtherSends, OtherRemovesTimer, Push, Wakeup, Clock, vars, timerVars
      <3> QED  BY <2>1, <3>1
    <2> QED  BY <2>2, <2>3, <2>4, <2>5, <2>6
  <1> QED  BY <1>1, <1>2, PTL DEF Spec

\* The vector of timers is never changed while checkAndDoTimers walks it:
\* both internal operations look at m_isCheckTimers first, and the deferred
\* calls are made after the flag is cleared.
THEOREM CheckKeepsTimersAlways == Spec => CheckKeepsTimers
  <1>1. FlagInv /\ [Next]_vars => (m_isCheckTimers /\ m_isCheckTimers' => UNCHANGED m_timers)
    <2> SUFFICES ASSUME FlagInv, [Next]_vars, m_isCheckTimers, m_isCheckTimers'
                 PROVE  UNCHANGED m_timers
      OBVIOUS
    <2>1. pc \in {"check", "callbackAdds"} /\ ~ EndWalk
      BY DEF FlagInv, EndWalk
    <2>2. ASSUME NEW t, AddTimerInternal(t) \/ RemoveTimerInternal(t)
          PROVE  UNCHANGED m_timers
      BY <2>2 DEF AddTimerInternal, RemoveTimerInternal
    <2>3. CASE LoopStep
      BY <2>1, <2>2, <2>3 DEF LoopStep, StartCheck, PassTimer, CallbackReturns,
         CallbackNewTimer, CallbackAdds, OwnAddsTimer, RemovePending, EndCheck, Poll,
         HandlerNewTimer, HandlerAddsTimer, CallbackRemoves,
         HandlerRemovesTimer, TakeTasks, RunAdd, RunRemove, RunSend, RunTask, EndTasks
    <2>4. CASE \E o \in Others : OtherStep(o)
      BY <2>4 DEF OtherStep, OtherNewTimer, OtherReadsID, OtherAddsTimer, OtherSends,
         OtherRemovesTimer, Wakeup, Push, timerVars
    <2>5. CASE Clock \/ UNCHANGED vars
      BY <2>5 DEF Clock, vars, timerVars
    <2> QED  BY <2>3, <2>4, <2>5 DEF Next
  <1> QED  BY <1>1, FlagInvariant, PTL DEF Spec, CheckKeepsTimers

-----------------------------------------------------------------------------
(* The times of fixed-interval timers.                                     *)

LEMMA ProductAtLeast ==
    ASSUME NEW d \in Int, NEW I \in Nat \ {0}, d >= 1
    PROVE  d * I >= I
  OBVIOUS

\* One interval more leaves a whole number of intervals.
LEMMA WholeIntervals ==
    ASSUME NEW x \in Int, NEW I \in Nat \ {0}, x % I = 0
    PROVE  (x + I) % I = 0
  <1> DEFINE d == x \div I + 1 - (x + I) \div I
             r == (x + I) % I
  <1>1. x = (x \div I) * I /\ x \div I \in Int
    OBVIOUS
  <1>2. /\ x + I = ((x + I) \div I) * I + r /\ r \in 0 .. I - 1
        /\ (x + I) \div I \in Int
    OBVIOUS
  <1>3. r = d * I /\ d \in Int
    BY <1>1, <1>2
  <1> HIDE DEF d, r
  <1>4. ~ (d >= 1)
    BY <1>2, <1>3, ProductAtLeast
  <1>5. ~ (-d >= 1)
    <2>1. -d \in Int /\ (-d) * I = -r
      BY <1>2, <1>3
    <2>2. -d >= 1 => (-d) * I >= I
      BY <2>1, ProductAtLeast
    <2> QED  BY <1>2, <2>1, <2>2
  <1>6. d = 0
    BY <1>3, <1>4, <1>5
  <1> QED  BY <1>3, <1>6 DEF r

\* For one timer: its due time is whole intervals from its creation.
InStep(t) == (m_nextTriggeredTimeMs[t] - created[t]) % Interval = 0

LEMMA NewInStep ==
    ASSUME TypeOK, NEW t \in Timers,
           m_nextTriggeredTimeMs'[t] = now + Interval, created'[t] = now
    PROVE  InStep(t)'
  <1>1. (now + Interval) - now = Interval /\ Interval \in Nat \ {0}
    BY LoopAssumption DEF TypeOK
  <1>2. Interval % Interval = 0
    BY <1>1
  <1> QED  BY <1>1, <1>2 DEF InStep

LEMMA CalledInStep ==
    ASSUME TypeOK, NEW t \in Timers \ (FixedDelay \cup NotRepeated), InStep(t),
           m_nextTriggeredTimeMs'[t] = AfterCall(t), created'[t] = created[t]
    PROVE  InStep(t)'
  <1> DEFINE x == m_nextTriggeredTimeMs[t] - created[t]
  <1>1. x \in Int /\ Interval \in Nat \ {0} /\ x % Interval = 0
    BY LoopAssumption DEF TypeOK, InStep
  <1>2. m_nextTriggeredTimeMs'[t] - created'[t] = x + Interval
    BY LoopAssumption DEF AfterCall, TypeOK
  <1> HIDE DEF x
  <1> QED  BY <1>1, <1>2, WholeIntervals DEF InStep

\* However late the loop is and however the clock is set, a fixed-interval
\* timer that repeats stays in step with its creation.
THEOREM NoDriftAlways == Spec => []NoDrift
  <1>1. Init => NoDrift
    BY DEF Init, NoDrift
  <1>2. TypeOK /\ MakingInv /\ NoDrift /\ [Next]_vars => NoDrift'
    <2> SUFFICES ASSUME TypeOK, MakingInv, NoDrift, [Next]_vars,
                        NEW t \in Timers \ (FixedDelay \cup NotRepeated),
                        m_id'[t] # None
                 PROVE  InStep(t)'
      BY DEF NoDrift, InStep
    <2>1. m_id[t] # None => InStep(t)
      BY DEF NoDrift, InStep
    <2>2. CASE UNCHANGED <<m_id, m_nextTriggeredTimeMs, created>>
      BY <2>1, <2>2 DEF InStep
    <2>3. CASE DoTimer /\ UNCHANGED m_id
      <3>1. InStep(t) /\ created'[t] = created[t]
        BY <2>1, <2>3 DEF DoTimer
      <3>2. CASE t = m_timers[iter]
        BY <2>3, <3>1, <3>2, CalledInStep DEF DoTimer, TypeOK
      <3>3. CASE t # m_timers[iter]
        BY <2>3, <3>1, <3>3 DEF DoTimer, TypeOK, InStep
      <3> QED  BY <3>2, <3>3
    <2>4. ASSUME NEW th \in Threads, making[th] # None, ReadID(making[th])
          PROVE  InStep(t)'
      <3>1. CASE t = making[th]
        BY <2>4, <3>1, NewInStep DEF ReadID, TypeOK
      <3>2. CASE t # making[th]
        BY <2>1, <2>4, <3>2 DEF ReadID, TypeOK, InStep
      <3> QED  BY <3>1, <3>2
    <2> QED  BY <2>2, <2>3, <2>4, MadeSteps DEF idVars, NewTimer, OtherAddsTimer
  <1> QED  BY <1>1, <1>2, LoopTypes, PTL DEF Spec

-----------------------------------------------------------------------------
(* The task queue.                                                         *)

\* What the mailbox rests on: the vector doOtherTask works on is empty
\* whenever it is about to be filled.
MailboxInv == TypeOK /\ MakingInv /\ (pc # "tasks" => tasks = << >>)

\* A step of the loop takes the whole queue when it has run all it took, or
\* runs the first task, or leaves the tasks alone.
LEMMA LoopTakesOrRuns ==
    ASSUME MailboxInv, LoopStep
    PROVE  \/ TakeTasks
           \/ \E op : RunTask(op)
           \/ /\ UNCHANGED <<tasks, m_customTasks>>
              /\ pc' = "tasks" => pc = "tasks"
              /\ pc = "tasks" => tasks = << >>
  BY DEF LoopStep, StartCheck, PassTimer, CallbackReturns, CallbackNewTimer, CallbackAdds,
     EndWalk, RemovePending, EndCheck, Poll, HandlerNewTimer, HandlerAddsTimer,
     CallbackRemoves, DoTimer, AtTimer,
     HandlerRemovesTimer, RunAdd, RunRemove, RunSend, EndTasks, MailboxInv, taskVars

LEMMA MailboxInvariant == Spec => []MailboxInv
  <1>1. Init => (pc # "tasks" => tasks = << >>)
    BY DEF Init
  <1>2. TypeOK /\ MailboxInv /\ [Next]_vars => (pc # "tasks" => tasks = << >>)'
    <2> SUFFICES ASSUME MailboxInv, [Next]_vars, pc' # "tasks" PROVE tasks' = << >>
      OBVIOUS
    <2>1. CASE LoopStep
      BY <2>1, LoopTakesOrRuns DEF MailboxInv, TakeTasks, RunTask
    <2>2. CASE \E o \in Others : OtherStep(o)
      BY <2>2, AddedIsTask DEF MailboxInv
    <2>3. CASE Clock \/ UNCHANGED vars
      BY <2>3 DEF MailboxInv, Clock, vars, taskVars
    <2> QED  BY <2>1, <2>2, <2>3 DEF Next
  <1> QED  BY <1>1, <1>2, LoopTypes, PTL DEF Spec, MailboxInv

\* What a step does to the tasks that wait.
LEMMA WaitingSteps ==
    ASSUME MailboxInv, [Next]_vars
    PROVE  /\ Waiting \in Seq(Task)
           /\ \/ Waiting' = Waiting
              \/ /\ \E op : RunTask(op)
                 /\ Waiting # << >> /\ Head(Waiting) = Head(tasks)
                 /\ Waiting' = Tail(Waiting)
              \/ \E o \in Others, t \in Task :
                   OtherStep(o) /\ m_customTasks' = Append(m_customTasks, t)
                                /\ Waiting' = Append(Waiting, t)
  <1>1. m_customTasks \in Seq(Task) /\ tasks \in Seq(Task)
    BY DEF MailboxInv, TypeOK
  <1>2. Waiting \in Seq(Task)
    BY <1>1 DEF Waiting
  <1>3. CASE LoopStep
    <2>1. CASE TakeTasks
      BY <1>1, <2>1 DEF MailboxInv, TakeTasks, Waiting
    <2>2. CASE \E op : RunTask(op)
      BY <1>1, <2>2 DEF RunTask, Waiting
    <2>3. CASE UNCHANGED <<tasks, m_customTasks>>
      BY <1>1, <2>3 DEF Waiting
    <2> QED  BY <1>3, <2>1, <2>2, <2>3, LoopTakesOrRuns
  <1>4. ASSUME NEW o \in Others, OtherStep(o)
        PROVE  \/ Waiting' = Waiting
               \/ \E t \in Task : m_customTasks' = Append(m_customTasks, t)
                                  /\ Waiting' = Append(Waiting, t)
    <2>1. tasks' = tasks
      BY <1>4, AddedIsTask DEF MailboxInv
    <2>2. ASSUME NEW t \in Task, m_customTasks' = Append(m_customTasks, t)
          PROVE  Waiting' = Append(Waiting, t)
      BY <1>1, <2>1, <2>2 DEF Waiting
    <2> QED  BY <1>4, <2>1, <2>2, AddedIsTask DEF MailboxInv, Waiting
  <1>5. CASE Clock \/ UNCHANGED vars
    <2>1. UNCHANGED <<tasks, m_customTasks>>
      BY <1>5 DEF Clock, vars, taskVars
    <2>2. Waiting' = Waiting
      BY <2>1 DEF Waiting
    <2> QED  BY <1>2, <2>2
  <1> QED  BY <1>2, <1>3, <1>4, <1>5 DEF Next

\* addTask and doOtherTask implement TaskMailbox: between the lock of the
\* push and the swap no task is lost, run twice or overtaken.
THEOREM LoopImplementsMailbox == Spec => ImplementsMailbox
  <1>1. Init => Mailbox!Init
    BY DEF Init, Mailbox!Init, Waiting
  <1>2. MailboxInv /\ [Next]_vars => [Mailbox!Next]_Waiting
    BY WaitingSteps DEF Mailbox!Next, Mailbox!Run, Mailbox!Add
  <1> QED  BY <1>1, <1>2, MailboxInvariant, PTL DEF Spec, ImplementsMailbox, Mailbox!Spec

-----------------------------------------------------------------------------
(* Where the timers are: being made, on their way in a task, or installed. *)

\* What a step does to them: nothing but an erasure,
Stays ==
    /\ UNCHANGED <<idVars, m_pendingAddTimers, Waiting>>
    /\ UNCHANGED m_timers \/ \E id : m_timers' = Erased(id)
\* a thread's ++,
Makes(th) ==
    NewTimer(th) /\ UNCHANGED <<m_timers, m_pendingAddTimers, Waiting>>
\* another thread's reading of an id,
Reads(th) ==
    /\ making[th] # None /\ ReadID(making[th])
    /\ UNCHANGED <<making, m_timers, m_pendingAddTimers, Waiting>>
\* a thread's handing over of the timer it made,
Places(th) ==
    /\ making[th] # None /\ making' = [making EXCEPT ![th] = None]
    /\ baseID' = baseID
    /\ \A t \in Timers \ {making[th]} : m_id'[t] = m_id[t]
    /\ \/ /\ Waiting' = Append(Waiting, Adding(making[th]))
          /\ UNCHANGED <<m_timers, m_pendingAddTimers>>
       \/ /\ m_timers' = Append(m_timers, making[th])
          /\ UNCHANGED <<m_pendingAddTimers, Waiting>>
       \/ /\ m_pendingAddTimers' = Append(m_pendingAddTimers, making[th])
          /\ UNCHANGED <<m_timers, Waiting>>
\* another task,
Posts ==
    /\ UNCHANGED <<idVars, m_timers, m_pendingAddTimers>>
    /\ \E t \in Task : /\ Waiting' = Append(Waiting, t) /\ t.op # "add"
                       /\ t.op = "remove" => Known(t.id)
\* the first task's run,
Runs ==
    /\ UNCHANGED <<idVars, m_pendingAddTimers>>
    /\ Waiting # << >> /\ Waiting' = Tail(Waiting)
    /\ \/ /\ Head(Waiting).op = "add"
          /\ m_timers' = Append(m_timers, Head(Waiting).timer)
       \/ /\ Head(Waiting).op # "add"
          /\ UNCHANGED m_timers \/ \E id : m_timers' = Erased(id)
\* or the installing, once more, of all that callbacks ever added.
Repeats ==
    /\ UNCHANGED <<idVars, m_pendingAddTimers, Waiting>>
    /\ m_timers' = m_timers \o m_pendingAddTimers

LEMMA PlaceSteps ==
    ASSUME MailboxInv, FlagInv, [Next]_vars
    PROVE  \/ Stays \/ Posts \/ Runs \/ Repeats
           \/ \E th \in Threads : Makes(th) \/ Reads(th) \/ Places(th)
  <1>0. /\ OwnThread \in Threads /\ Others \subseteq Threads
        /\ TypeOK /\ MakingInv
    BY DEF Threads, MailboxInv
  <1>1. CASE UNCHANGED vars \/ Clock
    BY <1>1 DEF vars, Clock, madeVars, timerVars, taskVars, Waiting, Stays
  <1>2. ASSUME NEW o \in Others, OtherStep(o)
        PROVE  Stays \/ Posts \/ Makes(o) \/ Reads(o) \/ Places(o)
    <2>1. m_customTasks \in Seq(Task) /\ tasks \in Seq(Task)
      BY <1>0 DEF TypeOK
    <2>2. UNCHANGED <<tasks, m_timers, m_pendingAddTimers>>
      BY <1>0, <1>2, AddedIsTask DEF timerVars
    <2>3. ASSUME NEW t \in Task, m_customTasks' = Append(m_customTasks, t)
          PROVE  Waiting' = Append(Waiting, t)
      BY <2>1, <2>2, <2>3 DEF Waiting
    <2>4. CASE OtherNewTimer(o)
      BY <2>2, <2>4 DEF OtherNewTimer, taskVars, Waiting, Makes
    <2>5. CASE OtherReadsID(o)
      BY <2>2, <2>5 DEF OtherReadsID, taskVars, Waiting, Reads
    <2>6. CASE OtherAddsTimer(o)
      <3>1. making[o] \in Timers
        BY <1>0, <2>6 DEF OtherAddsTimer, TypeOK
      <3>2. Adding(making[o]) \in Task
        BY <3>1 DEF Adding, Task
      <3>3. Waiting' = Append(Waiting, Adding(making[o]))
        BY <2>3, <2>6, <3>2 DEF OtherAddsTimer, Push
      <3> QED  BY <2>2, <2>6, <3>3 DEF OtherAddsTimer, Places
    <2>7. CASE Wakeup(o)
      BY <2>2, <2>7 DEF Wakeup, madeVars, Waiting, Stays
    <2>8. CASE OtherSends(o)
      <3>1. [op |-> "send"] \in Task /\ [op |-> "send"].op = "send"
        BY DEF Task
      <3> QED  BY <2>2, <2>3, <2>8, <3>1 DEF OtherSends, Push, madeVars, Posts
    <2>9. ASSUME NEW id \in TimerIDs, OtherRemovesTimer(o, id)
          PROVE  Posts
      <3>1. Removing(id) \in Task /\ Removing(id).op = "remove" /\ Removing(id).id = id
        BY DEF Removing, Task
      <3> QED  BY <2>2, <2>3, <2>9, <3>1 DEF OtherRemovesTimer, Push, madeVars, Posts
    <2> QED  BY <1>2, <2>4, <2>5, <2>6, <2>7, <2>8, <2>9 DEF OtherStep
  <1>3. ASSUME NEW op, RunTask(op)
        PROVE  /\ Waiting # << >> /\ Waiting' = Tail(Waiting) /\ UNCHANGED idVars
               /\ Head(Waiting) = Head(tasks) /\ Head(Waiting).op = op
               /\ ~ m_isCheckTimers
    <2>1. m_customTasks \in Seq(Task) /\ tasks \in Seq(Task)
      BY <1>0 DEF TypeOK
    <2>2. ~ m_isCheckTimers
      BY <1>3 DEF RunTask, FlagInv
    <2> QED  BY <1>3, <2>1, <2>2 DEF RunTask, madeVars, Waiting
  <1>4. CASE RunAdd
    BY <1>3, <1>4 DEF RunAdd, AddTimerInternal, Runs
  <1>5. ASSUME NEW id, RemoveTimerInternal(id), ~ m_isCheckTimers
        PROVE  m_timers' = Erased(id)
    BY <1>5 DEF RemoveTimerInternal
  <1>6. CASE RunRemove
    BY <1>3, <1>5, <1>6 DEF RunRemove, Runs
  <1>7. CASE RunSend
    BY <1>3, <1>5, <1>7 DEF RunSend, Runs
  <1>8. CASE TakeTasks
    <2>1. Waiting' = Waiting
      BY <1>8 DEF TakeTasks, MailboxInv, TypeOK, Waiting
    <2> QED  BY <1>8, <2>1 DEF TakeTasks, timerVars, madeVars, Stays
  <1>9. CASE StartCheck \/ PassTimer \/ EndWalk \/ Poll \/ EndTasks \/ CallbackReturns
    BY <1>9 DEF StartCheck, PassTimer, EndWalk, Poll, EndTasks, CallbackReturns, DoTimer,
       timerVars, taskVars, madeVars, Waiting, Stays
  <1>10. ASSUME NEW id, CallbackRemoves(id)
         PROVE  Stays
    <2>1. m_isCheckTimers
      BY <1>10 DEF CallbackRemoves, DoTimer, AtTimer, FlagInv
    <2> QED  BY <1>10, <2>1
             DEF CallbackRemoves, DoTimer, RemoveTimerInternal, taskVars, Waiting, Stays
  <1>11. CASE CallbackNewTimer \/ HandlerNewTimer
    BY <1>0, <1>11 DEF CallbackNewTimer, DoTimer, HandlerNewTimer, timerVars, taskVars,
       Waiting, Makes
  <1>12. CASE CallbackAdds \/ HandlerAddsTimer
    <2>1. /\ OwnAddsTimer /\ making[OwnThread] # None /\ UNCHANGED Waiting
      BY <1>0, <1>12 DEF CallbackAdds, HandlerAddsTimer, MakingInv, taskVars, Waiting
    <2>2. /\ ReadID(making[OwnThread]) /\ AddTimerInternal(making[OwnThread])
          /\ making' = [making EXCEPT ![OwnThread] = None]
      BY <2>1 DEF OwnAddsTimer
    <2>3. /\ baseID' = baseID
          /\ \A t \in Timers \ {making[OwnThread]} : m_id'[t] = m_id[t]
      BY <1>0, <2>2 DEF ReadID, TypeOK
    <2> QED  BY <1>0, <2>1, <2>2, <2>3 DEF AddTimerInternal, Places
  <1>13. CASE RemovePending
    <2>1. ~ m_isCheckTimers
      BY <1>13 DEF RemovePending, FlagInv
    <2> QED  BY <1>5, <1>13, <2>1
             DEF RemovePending, taskVars, madeVars, Waiting, Stays
  <1>14. CASE EndCheck
    BY <1>14 DEF EndCheck, taskVars, madeVars, Waiting, Repeats
  <1>15. ASSUME NEW id, HandlerRemovesTimer(id)
         PROVE  Stays
    <2>1. ~ m_isCheckTimers
      BY <1>15 DEF HandlerRemovesTimer, FlagInv
    <2> QED  BY <1>5, <1>15, <2>1
             DEF HandlerRemovesTimer, taskVars, madeVars, Waiting, Stays
  <1> QED
    BY <1>0, <1>1, <1>2, <1>4, <1>6, <1>7, <1>8, <1>9, <1>10, <1>11, <1>12, <1>13,
       <1>14, <1>15, Zenon DEF Next, LoopStep

\* What appending, taking the first and joining do to the elements.
LEMMA ToSetFacts ==
    ASSUME NEW S, NEW s \in Seq(S), NEW e \in S
    PROVE  /\ ToSet(Append(s, e)) = ToSet(s) \cup {e}
           /\ \A r \in Seq(S) : ToSet(s \o r) = ToSet(s) \cup ToSet(r)
           /\ s # << >> => /\ Head(s) \in ToSet(s)
                           /\ ToSet(Tail(s)) \subseteq ToSet(s)
  <1>1. ToSet(Append(s, e)) = ToSet(s) \cup {e}
    <2> DEFINE r == Append(s, e)
    <2>1. /\ DOMAIN r = DOMAIN s \cup {Len(s) + 1} /\ r[Len(s) + 1] = e
          /\ \A i \in DOMAIN s : r[i] = s[i]
      OBVIOUS
    <2> HIDE DEF r
    <2>2. ToSet(r) = ToSet(s) \cup {e}
      BY <2>1 DEF ToSet
    <2> QED  BY <2>2 DEF r
  <1>2. ASSUME NEW r \in Seq(S)
        PROVE  ToSet(s \o r) = ToSet(s) \cup ToSet(r)
    <2> DEFINE q == s \o r
    <2>1. /\ Len(q) = Len(s) + Len(r) /\ q \in Seq(S)
          /\ \A i \in 1 .. Len(q) : q[i] = IF i <= Len(s) THEN s[i] ELSE r[i - Len(s)]
      BY SMTT(30)
    <2> HIDE DEF q
    <2>2. ToSet(q) \subseteq ToSet(s) \cup ToSet(r)
      <3>1. \A i \in DOMAIN q :
              \/ (i \in DOMAIN s /\ q[i] = s[i])
              \/ (i - Len(s) \in DOMAIN r /\ q[i] = r[i - Len(s)])
        BY <2>1
      <3> QED  BY <3>1 DEF ToSet
    <2>3. \A i \in DOMAIN s : i \in DOMAIN q /\ q[i] = s[i]
      BY <2>1
    <2>4. \A i \in DOMAIN r : i + Len(s) \in DOMAIN q /\ q[i + Len(s)] = r[i]
      BY <2>1
    <2>5. ToSet(s) \cup ToSet(r) \subseteq ToSet(q)
      BY <2>3, <2>4 DEF ToSet
    <2>6. ToSet(q) = ToSet(s) \cup ToSet(r)
      BY <2>2, <2>5
    <2> QED  BY <2>6 DEF q
  <1>3. ASSUME s # << >>
        PROVE  Head(s) \in ToSet(s) /\ ToSet(Tail(s)) \subseteq ToSet(s)
    <2>1. 1 \in DOMAIN s /\ Head(s) = s[1]
      BY <1>3
    <2>2. \A i \in DOMAIN Tail(s) : i + 1 \in DOMAIN s /\ Tail(s)[i] = s[i + 1]
      BY <1>3
    <2> QED  BY <2>1, <2>2 DEF ToSet
  <1> QED  BY <1>1, <1>2, <1>3

\* Appending one that is not there doubles none.
LEMMA AppendUnique ==
    ASSUME NEW S, NEW s \in Seq(S), NEW e \in S, NEW X, e \notin ToSet(s), Unique(s, X)
    PROVE  Unique(Append(s, e), X)
  <1> DEFINE r == Append(s, e)
  <1>1. /\ DOMAIN r = DOMAIN s \cup {Len(s) + 1} /\ r[Len(s) + 1] = e
        /\ \A i \in DOMAIN s : r[i] = s[i] /\ s[i] # e
    BY DEF ToSet
  <1> HIDE DEF r
  <1>2. Unique(r, X)
    BY <1>1 DEF Unique
  <1> QED  BY <1>2 DEF r

\* Joining what is not in X doubles none of X.
LEMMA JoinUnique ==
    ASSUME NEW S, NEW s \in Seq(S), NEW r \in Seq(S), NEW X, Unique(s, X),
           \A i \in DOMAIN r : r[i] \notin X
    PROVE  Unique(s \o r, X)
  <1> DEFINE q == s \o r
  <1>1. /\ Len(q) = Len(s) + Len(r) /\ q \in Seq(S)
        /\ \A i \in 1 .. Len(q) : q[i] = IF i <= Len(s) THEN s[i] ELSE r[i - Len(s)]
    BY SMTT(30)
  <1> HIDE DEF q
  <1>2. \A i \in DOMAIN q : q[i] \in X => i \in DOMAIN s /\ q[i] = s[i]
    BY <1>1
  <1>3. Unique(q, X)
    BY <1>2 DEF Unique
  <1> QED  BY <1>3 DEF q

\* The timers that a thread has handed over, and those on their way in a task.
Made == {t \in 1 .. baseID : \A th \in Threads : making[th] # t}
Coming == {t \in Timers : Adding(t) \in ToSet(Waiting)}
Pending == ToSet(m_pendingAddTimers)
Placed == ToSet(m_timers) \cup Pending

\* No timer is at two of these places, or twice at one.
PlacesInv ==
    /\ Placed \cup Coming \subseteq Made
    /\ Placed \cap Coming = {}
    /\ \A a, b \in Threads : making[a] = making[b] /\ making[a] # None => a = b
    /\ Unique(m_timers, Timers \ Pending)
    /\ \A i, j \in DOMAIN Waiting :
         Waiting[i].op = "add" /\ Waiting[j] = Waiting[i] => i = j

LEMMA PlaceTypes ==
    ASSUME MailboxInv
    PROVE  /\ m_timers \in Seq(Timers) /\ m_pendingAddTimers \in Seq(Timers)
           /\ Waiting \in Seq(Task) /\ baseID \in Nat
           /\ making \in [Threads -> Timers \cup {None}]
           /\ m_id \in [Timers -> TimerIDs \cup {None}]
           /\ 1 .. baseID \subseteq Timers /\ None \notin Timers
           /\ \A th \in Threads : making[th] # None => making[th] \in 1 .. baseID
           /\ Placed \subseteq Timers
  <1>1. /\ m_timers \in Seq(Timers) /\ m_pendingAddTimers \in Seq(Timers)
        /\ making \in [Threads -> Timers \cup {None}]
        /\ m_id \in [Timers -> TimerIDs \cup {None}]
        /\ baseID \in 0 .. MaxTimers
    BY DEF MailboxInv, TypeOK
  <1>2. Waiting \in Seq(Task)
    BY DEF MailboxInv, TypeOK, Waiting
  <1>3. baseID \in Nat /\ 1 .. baseID \subseteq Timers /\ None \notin Timers
    BY <1>1, LoopAssumption DEF Timers, None
  <1>4. \A th \in Threads : making[th] # None => making[th] \in 1 .. baseID
    BY <1>1, <1>3 DEF MailboxInv, MakingInv, Timers
  <1>5. Placed \subseteq Timers
    BY <1>1 DEF Placed, Pending, ToSet
  <1> QED  BY <1>1, <1>2, <1>3, <1>4, <1>5

LEMMA AddingIs ==
    /\ \A t, u : Adding(t) = Adding(u) => t = u
    /\ \A t : Adding(t).op = "add" /\ Adding(t).timer = t
    /\ \A k \in Task : k.op = "add" => k.timer \in Timers /\ k = Adding(k.timer)
    /\ \A t \in Timers : Adding(t) \in Task
  <1>1. \A t : Adding(t).op = "add" /\ Adding(t).timer = t
    BY DEF Adding
  <1>2. ASSUME NEW k \in Task, k.op = "add"
        PROVE  k.timer \in Timers /\ k = Adding(k.timer)
    BY <1>2 DEF Adding, Task
  <1>3. \A t \in Timers : Adding(t) \in Task
    BY DEF Adding, Task
  <1>4. \A t, u : Adding(t) = Adding(u) => t = u
    BY <1>1
  <1> QED  BY <1>1, <1>2, <1>3, <1>4

\* What was handed over keeps its id, and what is made is made by one thread.
LEMMA MadeGrows ==
    ASSUME MailboxInv, FlagInv, PlacesInv, [Next]_vars
    PROVE  /\ Made \subseteq Made'
           /\ \A t \in Made : m_id'[t] = m_id[t]
           /\ \A a, b \in Threads : making'[a] = making'[b] /\ making'[a] # None => a = b
           /\ \A th \in Threads : Places(th) =>
                making[th] \in Made' /\ making[th] \notin Made /\ making[th] \in Timers
  <1>1. /\ making \in [Threads -> Timers \cup {None}] /\ None \notin Timers
        /\ m_id \in [Timers -> TimerIDs \cup {None}]
        /\ baseID \in Nat /\ 1 .. baseID \subseteq Timers
        /\ \A th \in Threads : making[th] # None => making[th] \in 1 .. baseID
    BY PlaceTypes
  <1>2. \A a, b \in Threads : making[a] = making[b] /\ making[a] # None => a = b
    BY DEF PlacesInv
  <1>3. ASSUME UNCHANGED idVars
        PROVE  /\ Made' = Made /\ m_id' = m_id /\ making' = making
    BY <1>3 DEF idVars, Made
  <1>4. ASSUME NEW th \in Threads, Makes(th)
        PROVE  /\ Made \subseteq Made' /\ m_id' = m_id
               /\ \A a, b \in Threads : making'[a] = making'[b] /\ making'[a] # None => a = b
    <2>1. /\ baseID' = baseID + 1 /\ making'[th] = baseID + 1 /\ m_id' = m_id
          /\ \A o \in Threads \ {th} : making'[o] = making[o]
      BY <1>4, NewTimerTypes DEF Makes, MailboxInv
    <2>2. \A o \in Threads : making[o] # baseID + 1
      <3>1. None # baseID + 1 /\ baseID + 1 \notin 1 .. baseID
        BY <1>1 DEF None
      <3> QED  BY <1>1, <3>1
    <2>3. Made \subseteq Made'
      <3>1. 1 .. baseID \subseteq 1 .. baseID' /\ baseID + 1 \notin 1 .. baseID
        BY <1>1, <2>1
      <3> QED  BY <2>1, <3>1 DEF Made
    <2> QED  BY <1>1, <1>2, <2>1, <2>2, <2>3
  <1>5. ASSUME NEW th \in Threads, Reads(th)
        PROVE  /\ Made \subseteq Made' /\ \A t \in Made : m_id'[t] = m_id[t]
               /\ UNCHANGED making
    <2>1. /\ baseID' = baseID /\ making' = making
          /\ \A t \in Timers \ {making[th]} : m_id'[t] = m_id[t]
      BY <1>1, <1>5 DEF Reads, ReadID
    <2> QED  BY <1>1, <2>1 DEF Made
  <1>6. ASSUME NEW th \in Threads, Places(th)
        PROVE  /\ Made \subseteq Made' /\ \A t \in Made : m_id'[t] = m_id[t]
               /\ \A a, b \in Threads : making'[a] = making'[b] /\ making'[a] # None => a = b
               /\ making[th] \in Made' /\ making[th] \notin Made /\ making[th] \in Timers
    <2>1. /\ making[th] # None /\ baseID' = baseID
          /\ \A t \in Timers \ {making[th]} : m_id'[t] = m_id[t]
          /\ making'[th] = None /\ \A o \in Threads \ {th} : making'[o] = making[o]
      BY <1>1, <1>6 DEF Places
    <2>2. making[th] \in 1 .. baseID /\ making[th] \in Timers
      BY <1>1, <2>1
    <2>3. making[th] \in Made' /\ making[th] \notin Made
      BY <1>2, <2>1, <2>2 DEF Made
    <2>4. Made \subseteq Made'
      BY <1>1, <2>1 DEF Made
    <2>5. \A t \in Made : m_id'[t] = m_id[t]
      BY <1>1, <2>1 DEF Made
    <2> QED  BY <1>2, <2>1, <2>2, <2>3, <2>4, <2>5
  <1>7. \/ UNCHANGED idVars
        \/ \E th \in Threads : Makes(th) \/ Reads(th) \/ Places(th)
    BY PlaceSteps DEF Stays, Posts, Runs, Repeats
  <1>8. /\ Made \subseteq Made' /\ \A t \in Made : m_id'[t] = m_id[t]
        /\ \A a, b \in Threads : making'[a] = making'[b] /\ making'[a] # None => a = b
    <2>1. CASE UNCHANGED idVars
      BY <1>2, <1>3, <2>1
    <2>2. CASE \E th \in Threads : Makes(th)
      BY <1>4, <2>2
    <2>3. CASE \E th \in Threads : Reads(th)
      <3>1. UNCHANGED making
        BY <1>5, <2>3
      <3> QED  BY <1>2, <1>5, <2>3, <3>1
    <2>4. CASE \E th \in Threads : Places(th)
      BY <1>6, <2>4
    <2> QED  BY <1>7, <2>1, <2>2, <2>3, <2>4
  <1> QED  BY <1>6, <1>8

\* An erasure, or none.
LEMMA ErasedPlaces ==
    ASSUME MailboxInv, PlacesInv, UNCHANGED m_pendingAddTimers,
           UNCHANGED m_timers \/ \E id : m_timers' = Erased(id)
    PROVE  /\ Pending' = Pending /\ Placed' \subseteq Placed
           /\ Unique(m_timers', Timers \ Pending')
  <1>1. m_timers \in Seq(Timers) /\ Unique(m_timers, Timers \ Pending)
    BY PlaceTypes DEF PlacesInv
  <1>2. Pending' = Pending
    BY DEF Pending
  <1>3. ToSet(m_timers') \subseteq ToSet(m_timers) /\ Unique(m_timers', Timers \ Pending)
    BY <1>1, ErasedTakes
  <1> QED  BY <1>2, <1>3 DEF Placed

\* A task is added.
LEMMA PostedPlaces ==
    ASSUME MailboxInv, PlacesInv, NEW k \in Task, Waiting' = Append(Waiting, k),
           k.op = "add" => k.timer \notin Coming
    PROVE  /\ Coming' = Coming \cup (IF k.op = "add" THEN {k.timer} ELSE {})
           /\ \A i, j \in DOMAIN Waiting' :
                Waiting'[i].op = "add" /\ Waiting'[j] = Waiting'[i] => i = j
  <1>1. Waiting \in Seq(Task)
    BY PlaceTypes
  <1>2. ToSet(Waiting') = ToSet(Waiting) \cup {k}
    BY <1>1, ToSetFacts
  <1>3. Coming' = Coming \cup (IF k.op = "add" THEN {k.timer} ELSE {})
    <2>1. \A t : Adding(t) = k <=> k.op = "add" /\ k.timer = t
      BY AddingIs
    <2>2. k.op = "add" => k.timer \in Timers
      BY AddingIs
    <2> QED  BY <1>2, <2>1, <2>2 DEF Coming
  <1>4. \A i, j \in DOMAIN Waiting' :
          Waiting'[i].op = "add" /\ Waiting'[j] = Waiting'[i] => i = j
    <2>1. /\ DOMAIN Waiting' = DOMAIN Waiting \cup {Len(Waiting) + 1}
          /\ Waiting'[Len(Waiting) + 1] = k
          /\ \A i \in DOMAIN Waiting : Waiting'[i] = Waiting[i]
      BY <1>1
    <2>2. k.op = "add" => \A i \in DOMAIN Waiting : Waiting[i] # k
      <3> SUFFICES ASSUME k.op = "add", NEW i \in DOMAIN Waiting, Waiting[i] = k
                   PROVE  FALSE
        OBVIOUS
      <3>1. k.timer \in Timers /\ k = Adding(k.timer) /\ k \in ToSet(Waiting)
        BY AddingIs DEF ToSet
      <3> QED  BY <3>1 DEF Coming
    <2> QED  BY <2>1, <2>2 DEF PlacesInv
  <1> QED  BY <1>3, <1>4

\* The first task is taken off.
LEMMA RunPlaces ==
    ASSUME MailboxInv, PlacesInv, Waiting # << >>, Waiting' = Tail(Waiting)
    PROVE  /\ Head(Waiting) \in Task
           /\ Coming' \subseteq Coming
           /\ Head(Waiting).op = "add" =>
                Head(Waiting).timer \in Coming /\ Head(Waiting).timer \notin Coming'
           /\ \A i, j \in DOMAIN Waiting' :
                Waiting'[i].op = "add" /\ Waiting'[j] = Waiting'[i] => i = j
  <1>1. Waiting \in Seq(Task)
    BY PlaceTypes
  <1>2. /\ \A i \in DOMAIN Waiting' : /\ i + 1 \in DOMAIN Waiting
                                      /\ Waiting'[i] = Waiting[i + 1] /\ i + 1 # 1
        /\ \A i, j \in DOMAIN Waiting' : i + 1 = j + 1 => i = j
        /\ 1 \in DOMAIN Waiting /\ Head(Waiting) = Waiting[1] /\ Head(Waiting) \in Task
    BY <1>1
  <1>3. Coming' \subseteq Coming
    BY <1>2 DEF Coming, ToSet
  <1>4. ASSUME Head(Waiting).op = "add"
        PROVE  Head(Waiting).timer \in Coming /\ Head(Waiting).timer \notin Coming'
    <2>1. Head(Waiting).timer \in Timers /\ Head(Waiting) = Adding(Head(Waiting).timer)
      BY <1>2, <1>4, AddingIs
    <2>2. Head(Waiting) \in ToSet(Waiting)
      BY <1>2 DEF ToSet
    <2>3. Head(Waiting) \notin ToSet(Waiting')
      BY <1>2, <1>4 DEF PlacesInv, ToSet
    <2> QED  BY <2>1, <2>2, <2>3 DEF Coming
  <1>5. \A i, j \in DOMAIN Waiting' :
          Waiting'[i].op = "add" /\ Waiting'[j] = Waiting'[i] => i = j
    BY <1>2 DEF PlacesInv
  <1> QED  BY <1>2, <1>3, <1>4, <1>5

\* One timer that was at no place is installed.
LEMMA InstalledPlaces ==
    ASSUME MailboxInv, PlacesInv, UNCHANGED m_pendingAddTimers, NEW t \in Timers,
           t \notin Placed, m_timers' = Append(m_timers, t)
    PROVE  /\ Pending' = Pending /\ Placed' = Placed \cup {t}
           /\ Unique(m_timers', Timers \ Pending')
  <1>1. m_timers \in Seq(Timers) /\ Unique(m_timers, Timers \ Pending)
    BY PlaceTypes DEF PlacesInv
  <1>2. Pending' = Pending
    BY DEF Pending
  <1>3. ToSet(m_timers') = ToSet(m_timers) \cup {t}
    BY <1>1, ToSetFacts
  <1>4. t \notin ToSet(m_timers)
    BY DEF Placed
  <1>5. Unique(m_timers', Timers \ Pending)
    BY <1>1, <1>4, AppendUnique
  <1> QED  BY <1>2, <1>3, <1>5 DEF Placed

LEMMA PlacesKept ==
    ASSUME MailboxInv, FlagInv, PlacesInv, [Next]_vars
    PROVE  PlacesInv'
  <1>1. /\ Made \subseteq Made'
        /\ \A a, b \in Threads : making'[a] = making'[b] /\ making'[a] # None => a = b
        /\ \A th \in Threads : Places(th) =>
             making[th] \in Made' /\ making[th] \notin Made /\ making[th] \in Timers
    BY MadeGrows
  <1>2. /\ Placed \cup Coming \subseteq Made /\ Placed \cap Coming = {}
        /\ Unique(m_timers, Timers \ Pending)
        /\ \A i, j \in DOMAIN Waiting :
             Waiting[i].op = "add" /\ Waiting[j] = Waiting[i] => i = j
    BY DEF PlacesInv
  <1>3. ASSUME UNCHANGED Waiting
        PROVE  /\ Coming' = Coming
               /\ \A i, j \in DOMAIN Waiting' :
                    Waiting'[i].op = "add" /\ Waiting'[j] = Waiting'[i] => i = j
    BY <1>2, <1>3 DEF Coming
  <1>4. ASSUME UNCHANGED <<m_timers, m_pendingAddTimers>>
        PROVE  Pending' = Pending /\ Placed' = Placed /\ Unique(m_timers', Timers \ Pending')
    BY <1>2, <1>4 DEF Pending, Placed
  <1>5. CASE Stays
    BY <1>1, <1>2, <1>3, <1>5, ErasedPlaces DEF Stays, PlacesInv
  <1>6. CASE \E th \in Threads : Makes(th) \/ Reads(th)
    <2>1. UNCHANGED <<m_timers, m_pendingAddTimers, Waiting>>
      BY <1>6 DEF Makes, Reads
    <2> QED  BY <1>1, <1>2, <1>3, <1>4, <2>1 DEF PlacesInv
  <1>7. ASSUME NEW th \in Threads, Places(th)
        PROVE  PlacesInv'
    <2> DEFINE t == making[th]
    <2>1. t \in Made' /\ t \in Timers /\ t \notin Placed /\ t \notin Coming
      BY <1>1, <1>2, <1>7
    <2> HIDE DEF t
    <2>2. CASE Waiting' = Append(Waiting, Adding(t))
                 /\ UNCHANGED <<m_timers, m_pendingAddTimers>>
      <3>1. Adding(t) \in Task /\ Adding(t).op = "add" /\ Adding(t).timer = t
        BY <2>1, AddingIs
      <3>2. /\ Coming' = Coming \cup {t}
            /\ \A i, j \in DOMAIN Waiting' :
                 Waiting'[i].op = "add" /\ Waiting'[j] = Waiting'[i] => i = j
        BY <2>1, <2>2, <3>1, PostedPlaces
      <3> QED  BY <1>1, <1>2, <1>4, <2>1, <2>2, <3>2 DEF PlacesInv
    <2>3. CASE m_timers' = Append(m_timers, t) /\ UNCHANGED <<m_pendingAddTimers, Waiting>>
      <3>1. /\ Pending' = Pending /\ Placed' = Placed \cup {t}
            /\ Unique(m_timers', Timers \ Pending')
        BY <2>1, <2>3, InstalledPlaces
      <3> QED  BY <1>1, <1>2, <1>3, <2>1, <2>3, <3>1 DEF PlacesInv
    <2>4. CASE m_pendingAddTimers' = Append(m_pendingAddTimers, t)
                 /\ UNCHANGED <<m_timers, Waiting>>
      <3>1. Pending' = Pending \cup {t}
        BY <2>1, <2>4, PlaceTypes, ToSetFacts DEF Pending
      <3>2. Placed' = Placed \cup {t}
        BY <2>4, <3>1 DEF Placed
      <3>3. Unique(m_timers', Timers \ Pending')
        BY <1>2, <2>4, <3>1 DEF Unique
      <3> QED  BY <1>1, <1>2, <1>3, <2>1, <2>4, <3>2, <3>3 DEF PlacesInv
    <2> QED  BY <1>7, <2>2, <2>3, <2>4 DEF Places, t
  <1>8. CASE Posts
    <2>1. PICK k \in Task : Waiting' = Append(Waiting, k) /\ k.op # "add"
      BY <1>8 DEF Posts
    <2>2. /\ Coming' = Coming
          /\ \A i, j \in DOMAIN Waiting' :
               Waiting'[i].op = "add" /\ Waiting'[j] = Waiting'[i] => i = j
      BY <2>1, PostedPlaces
    <2> QED  BY <1>1, <1>2, <1>4, <1>8, <2>2 DEF Posts, PlacesInv
  <1>9. CASE Runs
    <2>1. /\ Head(Waiting) \in Task /\ Coming' \subseteq Coming
          /\ Head(Waiting).op = "add" =>
               Head(Waiting).timer \in Coming /\ Head(Waiting).timer \notin Coming'
          /\ \A i, j \in DOMAIN Waiting' :
               Waiting'[i].op = "add" /\ Waiting'[j] = Waiting'[i] => i = j
      BY <1>9, RunPlaces DEF Runs
    <2>2. CASE Head(Waiting).op = "add" /\ m_timers' = Append(m_timers, Head(Waiting).timer)
      <3>1. Head(Waiting).timer \in Timers /\ Head(Waiting).timer \notin Placed
        BY <1>2, <2>1, <2>2, AddingIs
      <3>2. /\ Pending' = Pending /\ Placed' = Placed \cup {Head(Waiting).timer}
            /\ Unique(m_timers', Timers \ Pending')
        BY <1>9, <2>2, <3>1, InstalledPlaces DEF Runs
      <3> QED  BY <1>1, <1>2, <2>1, <2>2, <3>2 DEF PlacesInv
    <2>3. CASE UNCHANGED m_timers \/ \E id : m_timers' = Erased(id)
      <3>1. /\ Pending' = Pending /\ Placed' \subseteq Placed
            /\ Unique(m_timers', Timers \ Pending')
        BY <1>9, <2>3, ErasedPlaces DEF Runs
      <3> QED  BY <1>1, <1>2, <2>1, <3>1 DEF PlacesInv
    <2> QED  BY <1>9, <2>2, <2>3 DEF Runs
  <1>10. CASE Repeats
    <2>1. m_timers \in Seq(Timers) /\ m_pendingAddTimers \in Seq(Timers)
      BY PlaceTypes
    <2>2. UNCHANGED Waiting /\ m_timers' = m_timers \o m_pendingAddTimers /\ Pending' = Pending
      BY <1>10 DEF Repeats, Pending
    <2>3. Placed' = Placed
      <3>1. CASE Timers = {}
        <4>1. m_timers = << >> /\ m_pendingAddTimers = << >>
          BY <2>1, <3>1
        <4>2. m_timers' = m_timers
          BY <2>2, <4>1
        <4> QED  BY <2>2, <4>2 DEF Placed
      <3>2. CASE Timers # {}
        <4>1. ToSet(m_timers') = ToSet(m_timers) \cup Pending
          BY <2>1, <2>2, <3>2, ToSetFacts DEF Pending
        <4> QED  BY <2>2, <4>1 DEF Placed
      <3> QED  BY <3>1, <3>2
    <2>4. Unique(m_timers', Timers \ Pending')
      <3>1. \A i \in DOMAIN m_pendingAddTimers : m_pendingAddTimers[i] \notin Timers \ Pending
        BY DEF Pending, ToSet
      <3> QED  BY <1>2, <2>1, <2>2, <3>1, JoinUnique
    <2> QED  BY <1>1, <1>2, <1>3, <2>2, <2>3, <2>4 DEF PlacesInv
  <1> QED  BY <1>5, <1>6, <1>7, <1>8, <1>9, <1>10, PlaceSteps

LEMMA PlacesInvariant == Spec => []PlacesInv
  <1>1. Init => PlacesInv
    <2> SUFFICES ASSUME Init PROVE PlacesInv
      OBVIOUS
    <2>1. Waiting = << >> /\ m_timers = << >> /\ m_pendingAddTimers = << >>
      BY DEF Init, Waiting
    <2>2. Placed = {} /\ Coming = {}
      BY <2>1 DEF Placed, Pending, Coming, ToSet
    <2>3. \A th \in Threads : making[th] = None
      BY DEF Init
    <2> QED  BY <2>1, <2>2, <2>3 DEF PlacesInv, Unique
  <1>2. MailboxInv /\ FlagInv /\ PlacesInv /\ [Next]_vars => PlacesInv'
    BY PlacesKept
  <1> QED  BY <1>1, <1>2, MailboxInvariant, FlagInvariant, PTL DEF Spec

\* No timer is installed twice, or installed and on its way, whatever ids were
\* read and whatever callbacks call, but for those that a callback added.
THEOREM NoDuplicateTimerAlways == Spec => []NoDuplicateTimer
  <1>1. MailboxInv /\ PlacesInv => NoDuplicateTimer
    <2> SUFFICES ASSUME MailboxInv, PlacesInv PROVE NoDuplicateTimer
      OBVIOUS
    <2>1. m_timers \in Seq(Timers) /\ Waiting \in Seq(Task)
      BY PlaceTypes
    <2>2. \A i, j \in DOMAIN m_timers :
            m_timers[i] = m_timers[j] /\ m_timers[i] \notin ToSet(m_pendingAddTimers)
              => i = j
      BY <2>1 DEF PlacesInv, Unique, Pending
    <2>3. ASSUME NEW i \in DOMAIN Waiting, Waiting[i].op = "add"
          PROVE  Waiting[i].timer \notin ToSet(m_timers)
      <3>1. Waiting[i] \in Task /\ Waiting[i] \in ToSet(Waiting)
        BY <2>1 DEF ToSet
      <3>2. Waiting[i].timer \in Coming
        BY <2>3, <3>1, AddingIs DEF Coming
      <3> QED  BY <3>2 DEF PlacesInv, Placed
    <2> QED  BY <2>2, <2>3 DEF NoDuplicateTimer, PlacesInv
  <1> QED  BY <1>1, MailboxInvariant, PlacesInvariant, PTL

-----------------------------------------------------------------------------
(* What is removed.                                                        *)

\* One of the timers of this id, which was handed over, is not installed, or
\* was added by a callback.
Done(id) ==
    \E t \in Made : m_id[t] = id /\ (t \notin ToSet(m_timers) \/ t \in Pending)

\* Erasing takes one, if it is there.
LEMMA ErasedIsDone ==
    ASSUME MailboxInv, PlacesInv, NEW id, \E t \in Made : m_id[t] = id
    PROVE  \E t \in Made : m_id[t] = id /\ (t \notin ToSet(Erased(id)) \/ t \in Pending)
  <1>1. m_timers \in Seq(Timers) /\ Unique(m_timers, Timers \ Pending)
    BY PlaceTypes DEF PlacesInv
  <1>2. ToSet(m_timers) \subseteq Made /\ ToSet(m_timers) \subseteq Timers
    BY PlaceTypes DEF PlacesInv, Placed
  <1>3. /\ ToSet(Erased(id)) \subseteq ToSet(m_timers)
        /\ \/ \A t \in ToSet(m_timers) : m_id[t] # id
           \/ \E t \in ToSet(m_timers) :
                m_id[t] = id /\ (t \in Timers \ Pending => t \notin ToSet(Erased(id)))
    BY <1>1, ErasedTakes
  <1> QED  BY <1>2, <1>3

\* Every id that callbacks removed is that of a timer, and those before iter
\* have been carried out.
RemovedSoFar ==
    /\ \A j \in DOMAIN m_pendingRemoveTimers :
         \E t \in Made : m_id[t] = m_pendingRemoveTimers[j]
    /\ pc = "pending" =>
         \A j \in DOMAIN m_pendingRemoveTimers :
            j < iter => Done(m_pendingRemoveTimers[j])
    /\ pc = "poll" =>
         \A j \in DOMAIN m_pendingRemoveTimers : Done(m_pendingRemoveTimers[j])

\* What was handed over stays so, with its id.
LEMMA DoneStays ==
    ASSUME MailboxInv, FlagInv, PlacesInv, [Next]_vars, NEW id
    PROVE  /\ (\E t \in Made : m_id[t] = id) => \E t \in Made' : m_id'[t] = id
           /\ Done(id) /\ UNCHANGED <<m_timers, m_pendingAddTimers>> => Done(id)'
  BY MadeGrows DEF Done, Pending

LEMMA RemovedIdIsMade ==
    ASSUME MailboxInv, FlagInv, PlacesInv, NEW id, CallbackRemoves(id)
    PROVE  /\ \E t \in Made : m_id[t] = id
           /\ m_pendingRemoveTimers' = Append(m_pendingRemoveTimers, id)
           /\ pc' = "check"
  <1>1. pc = "check" /\ pc' = pc /\ m_isCheckTimers
    BY DEF CallbackRemoves, DoTimer, AtTimer, FlagInv
  <1>2. m_pendingRemoveTimers' = Append(m_pendingRemoveTimers, id)
    BY <1>1 DEF CallbackRemoves, RemoveTimerInternal
  <1>3. CASE Known(id)
    BY <1>1, <1>2, <1>3 DEF Known, Made
  <1>4. CASE id = m_id[m_timers[iter]]
    <2>1. m_timers[iter] \in ToSet(m_timers)
      BY PlaceTypes DEF CallbackRemoves, DoTimer, AtTimer, ToSet, MailboxInv, TypeOK
    <2> QED  BY <1>1, <1>2, <1>4, <2>1 DEF PlacesInv, Placed
  <1> QED  BY <1>1, <1>2, <1>3, <1>4 DEF CallbackRemoves

\* The steps that do not concern the removals.
LEMMA RemovalSteps ==
    ASSUME MailboxInv, FlagInv, [Next]_vars,
           ~ (EndWalk \/ RemovePending \/ EndCheck \/ \E id : CallbackRemoves(id))
    PROVE  /\ UNCHANGED m_pendingRemoveTimers
           /\ \/ UNCHANGED <<pc, iter, m_timers, m_pendingAddTimers>>
              \/ pc' \notin {"pending", "poll"}
  <1>1. CASE UNCHANGED vars \/ Clock
    BY <1>1 DEF vars, Clock, timerVars
  <1>2. ASSUME NEW o \in Others, OtherStep(o)
        PROVE  UNCHANGED <<pc, timerVars>>
    BY <1>2, AddedIsTask DEF MailboxInv
  <1>3. \A id : ~ m_isCheckTimers /\ RemoveTimerInternal(id) => UNCHANGED m_pendingRemoveTimers
    BY DEF RemoveTimerInternal
  <1>4. CASE RunAdd \/ RunRemove \/ RunSend
    <2>1. pc' = "tasks" /\ ~ m_isCheckTimers
      BY <1>4 DEF RunAdd, RunRemove, RunSend, RunTask, FlagInv
    <2> QED  BY <1>3, <1>4, <2>1 DEF RunAdd, RunRemove, RunSend
  <1>5. ASSUME NEW id, HandlerRemovesTimer(id)
        PROVE  pc' = "events" /\ UNCHANGED m_pendingRemoveTimers
    <2>1. pc' = "events" /\ ~ m_isCheckTimers /\ RemoveTimerInternal(id)
      BY <1>5 DEF HandlerRemovesTimer, FlagInv
    <2> QED  BY <1>3, <2>1
  <1>6. CASE StartCheck \/ PassTimer \/ CallbackReturns \/ CallbackNewTimer \/ CallbackAdds
             \/ Poll \/ HandlerNewTimer \/ HandlerAddsTimer \/ TakeTasks \/ EndTasks
    BY <1>6 DEF StartCheck, PassTimer, CallbackReturns, CallbackNewTimer, CallbackAdds,
       DoTimer, AtTimer, Poll, HandlerNewTimer, HandlerAddsTimer, TakeTasks, EndTasks,
       timerVars
  <1> QED  BY <1>1, <1>2, <1>4, <1>5, <1>6 DEF Next, LoopStep, timerVars

\* When the loop goes to poll, each id that callbacks removed has cost a timer
\* of that id its place, whatever ids were read and whatever callbacks add.
THEOREM PendingRemovalsAlwaysDone == Spec => []PendingRemovalsDone
  <1>1. Init => RemovedSoFar
    BY DEF Init, RemovedSoFar
  <1>2. MailboxInv /\ FlagInv /\ PlacesInv /\ RemovedSoFar /\ [Next]_vars => RemovedSoFar'
    <2> SUFFICES ASSUME MailboxInv, FlagInv, PlacesInv, RemovedSoFar, [Next]_vars
                 PROVE  RemovedSoFar'
      OBVIOUS
    <2>0. /\ m_pendingRemoveTimers \in Seq(TimerIDs) /\ iter \in Nat
          /\ m_timers \in Seq(Timers) /\ m_pendingAddTimers \in Seq(Timers)
      BY DEF MailboxInv, TypeOK
    <2>1. \A id : (\E t \in Made : m_id[t] = id) => \E t \in Made' : m_id'[t] = id
      BY DoneStays
    <2>2. \A id : Done(id) /\ UNCHANGED <<m_timers, m_pendingAddTimers>> => Done(id)'
      BY DoneStays
    <2>3. \A j \in DOMAIN m_pendingRemoveTimers :
            \E t \in Made : m_id[t] = m_pendingRemoveTimers[j]
      BY DEF RemovedSoFar
    <2>4. CASE EndWalk
      <3>1. /\ pc' = "pending" /\ iter' = 1
            /\ m_pendingRemoveTimers' = m_pendingRemoveTimers
        BY <2>4 DEF EndWalk
      <3>2. \A j \in DOMAIN m_pendingRemoveTimers : ~ (j < 1)
        BY <2>0
      <3> QED  BY <2>1, <2>3, <3>1, <3>2 DEF RemovedSoFar
    <2>5. CASE RemovePending
      <3>0. ~ m_isCheckTimers /\ pc = "pending"
        BY <2>5 DEF RemovePending, FlagInv
      <3>1. /\ m_timers' = Erased(m_pendingRemoveTimers[iter]) /\ iter' = iter + 1
            /\ UNCHANGED <<pc, m_pendingRemoveTimers, m_pendingAddTimers, madeVars>>
        BY <2>5, <3>0 DEF RemovePending, RemoveTimerInternal
      <3>2. iter \in DOMAIN m_pendingRemoveTimers
        BY <2>0, <2>5 DEF RemovePending, MailboxInv, TypeOK
      <3>3. Made' = Made /\ m_id' = m_id /\ Pending' = Pending
        BY <3>1 DEF Made, madeVars, idVars, Pending
      <3>4. ASSUME NEW id, id = m_pendingRemoveTimers[iter]
            PROVE  Done(id)'
        BY <2>3, <3>1, <3>2, <3>3, <3>4, ErasedIsDone DEF Done
      <3>5. ToSet(m_timers') \subseteq ToSet(m_timers)
        <4>1. m_timers \in Seq(Timers) /\ Unique(m_timers, {})
          BY <2>0 DEF Unique
        <4> QED  BY <3>1, <4>1, ErasedTakes
      <3>6. \A id : Done(id) => Done(id)'
        BY <3>3, <3>5 DEF Done
      <3>7. \A j \in DOMAIN m_pendingRemoveTimers : j < iter + 1 => j < iter \/ j = iter
        BY <2>0
      <3>8. \A j \in DOMAIN m_pendingRemoveTimers :
              \A id : j < iter + 1 /\ id = m_pendingRemoveTimers[j] => Done(id)'
        BY <3>0, <3>4, <3>6, <3>7 DEF RemovedSoFar
      <3>9. /\ pc' = "pending" /\ m_pendingRemoveTimers' = m_pendingRemoveTimers
            /\ iter' = iter + 1
        BY <3>0, <3>1
      <3> QED  BY <2>1, <2>3, <3>8, <3>9 DEF RemovedSoFar, Done
    <2>6. CASE EndCheck
      <3>1. /\ pc = "pending" /\ pc' = "poll" /\ m_timers' = m_timers \o m_pendingAddTimers
            /\ UNCHANGED <<m_pendingRemoveTimers, m_pendingAddTimers, madeVars>>
            /\ \A j \in DOMAIN m_pendingRemoveTimers : j < iter
        BY <2>0, <2>6 DEF EndCheck
      <3>2. Made' = Made /\ m_id' = m_id /\ Pending' = Pending
        BY <3>1 DEF Made, madeVars, idVars, Pending
      <3>3. ASSUME NEW t \in Made, t \notin ToSet(m_timers), t \notin Pending
            PROVE  t \notin ToSet(m_timers')
        <4>1. t \in Timers
          BY PlaceTypes DEF Made
        <4> QED  BY <2>0, <3>1, <3>3, <4>1, ToSetFacts DEF Pending
      <3>4. \A id : Done(id) => Done(id)'
        BY <3>2, <3>3 DEF Done
      <3> QED  BY <2>1, <3>1, <3>4 DEF RemovedSoFar
    <2>7. ASSUME NEW id, CallbackRemoves(id)
          PROVE  RemovedSoFar'
      <3>1. /\ \E t \in Made : m_id[t] = id
            /\ m_pendingRemoveTimers' = Append(m_pendingRemoveTimers, id) /\ pc' = "check"
        BY <2>7, RemovedIdIsMade
      <3>2. \A j \in DOMAIN m_pendingRemoveTimers' :
              \/ (j \in DOMAIN m_pendingRemoveTimers
                   /\ m_pendingRemoveTimers'[j] = m_pendingRemoveTimers[j])
              \/ m_pendingRemoveTimers'[j] = id
        BY <2>0, <3>1
      <3>3. \A j \in DOMAIN m_pendingRemoveTimers' :
              \E t \in Made : m_id[t] = m_pendingRemoveTimers'[j]
        BY <2>3, <3>1, <3>2
      <3> QED  BY <2>1, <3>1, <3>3 DEF RemovedSoFar
    <2>8. CASE ~ (EndWalk \/ RemovePending \/ EndCheck \/ \E id : CallbackRemoves(id))
      <3>1. /\ UNCHANGED m_pendingRemoveTimers
            /\ \/ UNCHANGED <<pc, iter, m_timers, m_pendingAddTimers>>
               \/ pc' \notin {"pending", "poll"}
        BY <2>8, RemovalSteps
      <3> QED  BY <2>1, <2>2, <3>1 DEF RemovedSoFar
    <2> QED  BY <2>4, <2>5, <2>6, <2>7, <2>8
  <1>3. RemovedSoFar => PendingRemovalsDone
    BY DEF RemovedSoFar, PendingRemovalsDone, Done, Made, Pending, ToSet
  <1> QED  BY <1>1, <1>2, <1>3, MailboxInvariant, FlagInvariant, PlacesInvariant, PTL
           DEF Spec

\* No task adds a timer that the removal before it was meant for: who posts a
\* removal has the id from an addTimer that has returned.
OrderInv ==
    \A j \in DOMAIN Waiting : Waiting[j].op = "remove" =>
      \E t \in Made :
        /\ m_id[t] = Waiting[j].id
        /\ \A i \in DOMAIN Waiting : Waiting[i] = Adding(t) => i < j

LEMMA OrderStep ==
    ASSUME MailboxInv, FlagInv, PlacesInv, OrderInv, [Next]_vars
    PROVE  OrderInv'
  <1>1. Waiting \in Seq(Task)
    BY PlaceTypes
  <1>2. Made \subseteq Made' /\ \A t \in Made : m_id'[t] = m_id[t]
    BY MadeGrows
  <1>3. CASE UNCHANGED Waiting
    BY <1>2, <1>3 DEF OrderInv
  <1>4. CASE Runs
    <2>1. /\ \A i \in DOMAIN Waiting' :
               i \in Nat /\ i + 1 \in DOMAIN Waiting /\ Waiting'[i] = Waiting[i + 1]
      BY <1>1, <1>4 DEF Runs
    <2>2. ASSUME NEW j \in DOMAIN Waiting', Waiting'[j].op = "remove"
          PROVE  \E t \in Made' :
                   /\ m_id'[t] = Waiting'[j].id
                   /\ \A i \in DOMAIN Waiting' : Waiting'[i] = Adding(t) => i < j
      <3>1. PICK t \in Made :
              /\ m_id[t] = Waiting[j + 1].id
              /\ \A i \in DOMAIN Waiting : Waiting[i] = Adding(t) => i < j + 1
        BY <2>1, <2>2 DEF OrderInv
      <3>2. \A i \in DOMAIN Waiting' : Waiting'[i] = Adding(t) => i + 1 < j + 1
        BY <2>1, <3>1
      <3>3. \A i \in DOMAIN Waiting' : Waiting'[i] = Adding(t) => i < j
        BY <2>1, <3>2
      <3> QED  BY <1>2, <2>1, <3>1, <3>3
    <2> QED  BY <2>2 DEF OrderInv
  <1>5. ASSUME NEW k \in Task, Waiting' = Append(Waiting, k),
               k.op = "remove" => \E t \in Made : m_id[t] = k.id,
               \A t \in Made : k # Adding(t)
        PROVE  OrderInv'
    <2> DEFINE n == Len(Waiting) + 1
    <2>1. /\ DOMAIN Waiting' = DOMAIN Waiting \cup {n} /\ Waiting'[n] = k
          /\ \A i \in DOMAIN Waiting : Waiting'[i] = Waiting[i] /\ i < n
      BY <1>1, <1>5
    <2> HIDE DEF n
    <2>2. ASSUME NEW j \in DOMAIN Waiting', Waiting'[j].op = "remove"
          PROVE  \E t \in Made :
                   /\ m_id[t] = Waiting'[j].id
                   /\ \A i \in DOMAIN Waiting' : Waiting'[i] = Adding(t) => i < j
      <3>1. CASE j = n
        BY <1>5, <2>1, <2>2, <3>1
      <3>2. CASE j \in DOMAIN Waiting
        <4>1. PICK t \in Made :
                /\ m_id[t] = Waiting[j].id
                /\ \A i \in DOMAIN Waiting : Waiting[i] = Adding(t) => i < j
          BY <2>1, <2>2, <3>2 DEF OrderInv
        <4> QED  BY <1>5, <2>1, <3>2, <4>1
      <3> QED  BY <2>1, <3>1, <3>2
    <2> QED  BY <1>2, <2>2 DEF OrderInv
  <1>6. CASE Posts
    <2>1. PICK k \in Task : /\ Waiting' = Append(Waiting, k) /\ k.op # "add"
                            /\ k.op = "remove" => Known(k.id)
      BY <1>6 DEF Posts
    <2>2. k.op = "remove" => \E t \in Made : m_id[t] = k.id
      BY <2>1 DEF Known, Made
    <2>3. \A t : k # Adding(t)
      BY <2>1, AddingIs
    <2> QED  BY <1>5, <2>1, <2>2, <2>3
  <1>7. ASSUME NEW th \in Threads, Places(th), Waiting' = Append(Waiting, Adding(making[th]))
        PROVE  OrderInv'
    <2>1. making[th] \notin Made /\ making[th] \in Timers
      BY <1>7, MadeGrows
    <2>2. /\ Adding(making[th]) \in Task /\ Adding(making[th]).op # "remove"
          /\ \A t \in Made : Adding(making[th]) # Adding(t)
      BY <2>1, AddingIs
    <2> QED  BY <1>5, <1>7, <2>2
  <1> QED  BY <1>3, <1>4, <1>6, <1>7, PlaceSteps
           DEF Stays, Repeats, Makes, Reads, Places

LEMMA GoneIs == ASSUME MailboxInv, NEW t \in 1 .. baseID
                PROVE  Gone(t) <=> t \in Made /\ t \notin Placed /\ t \notin Coming
  BY PlaceTypes DEF Gone, Made, Placed, Pending, Coming

\* A timer that was handed over and is gone stays gone.
LEMMA GoneStays ==
    ASSUME MailboxInv, MailboxInv', FlagInv, PlacesInv, [Next]_vars,
           NEW t \in 1 .. baseID, Gone(t)
    PROVE  Gone(t)'
  <1>1. t \in Made /\ t \notin Placed /\ t \notin Coming /\ t \in Timers
    BY GoneIs, PlaceTypes
  <1>2. t \in Made' /\ \A th \in Threads : Places(th) => making[th] # t
    BY <1>1, MadeGrows
  <1>3. /\ m_timers \in Seq(Timers) /\ m_pendingAddTimers \in Seq(Timers)
        /\ Waiting \in Seq(Task) /\ Timers # {}
    BY <1>1, PlaceTypes
  <1>4. t \notin Placed' /\ t \notin Coming' => Gone(t)'
    BY <1>1, <1>2 DEF Gone, Made, Placed, Pending, Coming
  <1>5. UNCHANGED <<m_timers, m_pendingAddTimers>> => t \notin Placed'
    BY <1>1 DEF Placed, Pending
  <1>6. UNCHANGED Waiting => t \notin Coming'
    BY <1>1 DEF Coming
  <1>7. ASSUME UNCHANGED m_pendingAddTimers,
               UNCHANGED m_timers \/ \E id : m_timers' = Erased(id)
        PROVE  t \notin Placed'
    BY <1>1, <1>7, ErasedPlaces
  <1>8. ASSUME NEW k \in Task, Waiting' = Append(Waiting, k), k # Adding(t)
        PROVE  t \notin Coming'
    BY <1>1, <1>3, <1>8, ToSetFacts DEF Coming
  <1>9. ASSUME NEW e \in Timers, e # t, UNCHANGED m_pendingAddTimers,
               m_timers' = Append(m_timers, e)
        PROVE  t \notin Placed'
    BY <1>1, <1>3, <1>9, ToSetFacts DEF Placed, Pending
  <1>10. CASE Stays
    BY <1>4, <1>6, <1>7, <1>10 DEF Stays
  <1>11. CASE \E th \in Threads : Makes(th) \/ Reads(th)
    BY <1>4, <1>5, <1>6, <1>11 DEF Makes, Reads
  <1>12. ASSUME NEW th \in Threads, Places(th)
         PROVE  Gone(t)'
    <2>1. making[th] # t /\ making[th] \in Timers
      BY <1>2, <1>12, MadeGrows
    <2>2. Adding(making[th]) \in Task /\ Adding(making[th]) # Adding(t)
      BY <2>1, AddingIs
    <2>3. CASE Waiting' = Append(Waiting, Adding(making[th]))
                 /\ UNCHANGED <<m_timers, m_pendingAddTimers>>
      BY <1>4, <1>5, <1>8, <2>2, <2>3
    <2>4. CASE m_timers' = Append(m_timers, making[th])
                 /\ UNCHANGED <<m_pendingAddTimers, Waiting>>
      BY <1>4, <1>6, <1>9, <2>1, <2>4
    <2>5. CASE m_pendingAddTimers' = Append(m_pendingAddTimers, making[th])
                 /\ UNCHANGED <<m_timers, Waiting>>
      <3>1. t \notin Placed'
        BY <1>1, <1>3, <2>1, <2>5, ToSetFacts DEF Placed, Pending
      <3> QED  BY <1>4, <1>6, <2>5, <3>1
    <2> QED  BY <1>12, <2>3, <2>4, <2>5 DEF Places
  <1>13. CASE Posts
    <2>1. PICK k \in Task : Waiting' = Append(Waiting, k) /\ k.op # "add"
      BY <1>13 DEF Posts
    <2>2. k # Adding(t)
      BY <2>1, AddingIs
    <2> QED  BY <1>4, <1>5, <1>8, <1>13, <2>1, <2>2 DEF Posts
  <1>14. CASE Runs
    <2>1. /\ Head(Waiting) \in Task /\ Coming' \subseteq Coming
          /\ Head(Waiting).op = "add" => Head(Waiting).timer \in Coming
      BY <1>14, RunPlaces DEF Runs
    <2>2. CASE Head(Waiting).op = "add" /\ m_timers' = Append(m_timers, Head(Waiting).timer)
      <3>1. Head(Waiting).timer \in Timers /\ Head(Waiting).timer # t
        BY <1>1, <2>1, <2>2, AddingIs
      <3> QED  BY <1>1, <1>4, <1>9, <1>14, <2>1, <2>2, <3>1 DEF Runs
    <2>3. CASE UNCHANGED m_timers \/ \E id : m_timers' = Erased(id)
      BY <1>1, <1>4, <1>7, <1>14, <2>1, <2>3 DEF Runs
    <2> QED  BY <1>14, <2>2, <2>3 DEF Runs
  <1>15. CASE Repeats
    <2>1. t \notin Placed'
      BY <1>1, <1>3, <1>15, ToSetFacts DEF Repeats, Placed, Pending
    <2> QED  BY <1>4, <1>6, <1>15, <2>1 DEF Repeats
  <1> QED  BY <1>10, <1>11, <1>12, <1>13, <1>14, <1>15, PlaceSteps

\* The task that removes an id takes a timer of that id away for good, unless a
\* callback added that.
LEMMA RemovalTakes ==
    ASSUME MailboxInv, FlagInv, PlacesInv, OrderInv, RunRemove
    PROVE  \E t \in 1 .. baseID : /\ m_id[t] = Head(tasks).id
                                  /\ t \in ToSet(m_pendingAddTimers) \/ Gone(t)'
  <1> DEFINE id == Head(tasks).id
  <1>1. ~ m_isCheckTimers
    BY DEF RunRemove, RunTask, FlagInv
  <1>2. /\ m_customTasks \in Seq(Task) /\ tasks \in Seq(Task)
        /\ m_timers \in Seq(Timers)
    BY DEF MailboxInv, TypeOK
  <1>3. /\ tasks # << >> /\ Head(tasks).op = "remove" /\ tasks' = Tail(tasks)
        /\ UNCHANGED <<m_customTasks, m_pendingAddTimers, madeVars>>
        /\ m_timers' = Erased(id)
    BY <1>1 DEF RunRemove, RunTask, RemoveTimerInternal
  <1>4. /\ Waiting # << >> /\ Waiting' = Tail(Waiting)
        /\ 1 \in DOMAIN Waiting /\ Waiting[1] = Head(tasks)
    <2>1. Waiting # << >> /\ Head(Waiting) = Head(tasks)
      BY <1>2, <1>3 DEF Waiting
    <2>2. Waiting' = Tail(Waiting)
      BY <1>2, <1>3 DEF Waiting
    <2>3. 1 \in DOMAIN Waiting /\ Waiting[1] = Head(Waiting)
      BY <2>1, PlaceTypes
    <2> QED  BY <2>1, <2>2, <2>3
  <1>5. Made' = Made /\ Pending' = Pending
    BY <1>3 DEF Made, Pending, madeVars, idVars
  <1>6. Coming' \subseteq Coming
    BY <1>4, RunPlaces
  <1>7. \A t \in Made : t \notin ToSet(m_timers') /\ t \notin Pending /\ t \notin Coming'
                        => Gone(t)'
    <2>1. \A t \in Made : t \in Timers
      BY PlaceTypes DEF Made
    <2> QED  BY <1>5, <2>1 DEF Gone, Made, Pending, Coming
  <1>8. PICK t \in Made :
          /\ m_id[t] = id
          /\ \A i \in DOMAIN Waiting : Waiting[i] = Adding(t) => i < 1
    BY <1>3, <1>4 DEF OrderInv
  <1>9. t \notin Coming
    <2>1. \A i \in DOMAIN Waiting : ~ (i < 1)
      BY PlaceTypes
    <2> QED  BY <1>8, <2>1 DEF Coming, ToSet
  <1>10. m_timers \in Seq(Timers) /\ Unique(m_timers, Timers \ Pending)
    BY <1>2 DEF PlacesInv
  <1> HIDE DEF id
  <1>11. /\ ToSet(m_timers') \subseteq ToSet(m_timers)
         /\ \/ \A u \in ToSet(m_timers) : m_id[u] # id
            \/ \E u \in ToSet(m_timers) :
                 m_id[u] = id /\ (u \in Timers \ Pending => u \notin ToSet(m_timers'))
    BY <1>3, <1>10, ErasedTakes DEF id
  <1>12. CASE \A u \in ToSet(m_timers) : m_id[u] # id
    <2>1. t \notin ToSet(m_timers') /\ t \notin Coming'
      BY <1>6, <1>8, <1>9, <1>11, <1>12
    <2> QED  BY <1>7, <1>8, <2>1 DEF Made, Pending, id
  <1>13. CASE \E u \in ToSet(m_timers) :
                m_id[u] = id /\ (u \in Timers \ Pending => u \notin ToSet(m_timers'))
    <2>1. PICK u \in ToSet(m_timers) :
                m_id[u] = id /\ (u \in Timers \ Pending => u \notin ToSet(m_timers'))
      BY <1>13
    <2>2. u \in Made /\ u \in Timers /\ u \notin Coming
      BY PlaceTypes DEF PlacesInv, Placed
    <2> QED  BY <1>6, <1>7, <2>1, <2>2 DEF Made, Pending, id
  <1> QED  BY <1>11, <1>12, <1>13

\* The removal that another thread posts finds a timer of its id, takes one
\* away if no callback added it, and nothing ever adds that timer again; whatever
\* ids were read and whatever callbacks call.
THEOREM RemovedAlwaysGone == Spec => RemovedIsGone
  <1>1. Init => OrderInv
    BY DEF Init, OrderInv, Waiting
  <1>2. MailboxInv /\ FlagInv /\ PlacesInv /\ OrderInv /\ [Next]_vars => OrderInv'
    BY OrderStep
  <1>3. Spec => []OrderInv
    BY <1>1, <1>2, MailboxInvariant, FlagInvariant, PlacesInvariant, PTL DEF Spec
  <1>4. /\ MailboxInv /\ MailboxInv' /\ FlagInv /\ PlacesInv /\ OrderInv /\ [Next]_vars
        => [/\ \A t \in 1 .. baseID : Gone(t) => Gone(t)'
            /\ RunRemove =>
                 \E t \in 1 .. baseID :
                   m_id[t] = Head(tasks).id /\ (t \in ToSet(m_pendingAddTimers) \/ Gone(t)')
           ]_vars
    BY GoneStays, RemovalTakes
  <1> QED  BY <1>3, <1>4, MailboxInvariant, FlagInvariant, PlacesInvariant, PTL
           DEF Spec, RemovedIsGone
=============================================================================
