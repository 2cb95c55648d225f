------------------------------ MODULE ReminderProofs ------------------------------
(***************************************************************************)
(* Theorems about Reminder, for every number of sessions and timers.       *)
(***************************************************************************)
EXTENDS Reminder, FiniteSetTheorems, SequenceTheorems, WellFoundedInduction, TLAPS

-----------------------------------------------------------------------------
(* Frames, and the sequences of timers.                                    *)

LEMMA FrameFields ==
    ASSUME NEW f \in Frame
    PROVE  /\ f.at \in {"none", "reset", "ids", "deal", "emplace", "read", "add", "assign"}
           /\ f.at # "none" => f.s \in Sessions
           /\ f.at \in {"add", "assign"} =>
                f \in [at : {"add", "assign"}, s : Sessions, id : TimerIDs]
  <1>1. CASE f = Idle
    BY <1>1 DEF Idle
  <1>2. CASE f \in [at : {"reset", "ids", "deal", "emplace"}, s : Sessions]
    BY <1>2
  <1>3. CASE f \in [at : {"read"}, s : Sessions]
    BY <1>3
  <1>4. CASE f \in [at : {"add", "assign"}, s : Sessions, id : TimerIDs]
    BY <1>4
  <1> QED  BY <1>1, <1>2, <1>3, <1>4 DEF Frame

\* The frames that the steps go to.
LEMMA FrameValues ==
    ASSUME NEW s \in Sessions
    PROVE  /\ Idle \in Frame /\ Idle.at = "none"
           /\ [at |-> "reset", s |-> s] \in Frame /\ [at |-> "ids", s |-> s] \in Frame
           /\ [at |-> "deal", s |-> s] \in Frame /\ [at |-> "emplace", s |-> s] \in Frame
           /\ [at |-> "read", s |-> s] \in Frame
           /\ \A id \in TimerIDs : /\ [at |-> "add", s |-> s, id |-> id] \in Frame
                                   /\ [at |-> "assign", s |-> s, id |-> id] \in Frame
  BY DEF Frame, Idle

LEMMA GoesTo ==
    ASSUME frame \in [Threads -> Frame], NEW w \in Threads, NEW f \in Frame, GoTo(w, f)
    PROVE  /\ frame' \in [Threads -> Frame] /\ frame'[w] = f
           /\ \A v \in Threads : v # w => frame'[v] = frame[v]
  BY DEF GoTo

LEMMA LeastOfSet ==
    ASSUME NEW I \in SUBSET Nat, I # {}
    PROVE  \E m \in I : \A n \in I : m <= n
  <1> DEFINE R == {ss \in Nat \X Nat : ss[1] < ss[2]}
  <1>1. IsWellFoundedOn(R, Nat)
    BY NatLessThanWellFounded DEF OpToRel
  <1> HIDE DEF R
  <1>2. PICK x \in I : \A y \in I : ~ (<<y, x>> \in R)
    BY <1>1, WFMin
  <1>3. \A n \in I : ~ (n < x)
    BY <1>2 DEF R
  <1> QED  BY <1>3

\* The removal takes out the first timer of that id, if there is one.
LEMMA EraseIs ==
    ASSUME NEW timers \in Seq(Timer), NEW id
    PROVE  LET r == Erase(timers, id) IN
           /\ r \in Seq(Timer)
           /\ \/ r = timers /\ \A i \in DOMAIN timers : timers[i].id # id
              \/ \E k \in DOMAIN timers :
                   /\ timers[k].id = id /\ Len(r) = Len(timers) - 1
                   /\ \A i \in 1 .. Len(timers) - 1 :
                        r[i] = IF i < k THEN timers[i] ELSE timers[i + 1]
  <1> DEFINE I == {i \in 1 .. Len(timers) : timers[i].id = id}
             k == SelectInSeq(timers, LAMBDA timer : timer.id = id)
  <1>1. CASE I = {}
    <2>1. ~ \E i \in 1 .. Len(timers) : timers[i].id = id
      BY <1>1
    <2>2. Erase(timers, id) = timers
      BY <2>1 DEF Erase, RemoveFirstMatch
    <2> QED  BY <2>1, <2>2
  <1>2. CASE I # {}
    <2>1. PICK m \in I : \A n \in I : m <= n
      <3>1. I \in SUBSET Nat
        OBVIOUS
      <3> HIDE DEF I
      <3> QED  BY <1>2, <3>1, LeastOfSet
    <2>2. k \in 1 .. Len(timers) /\ timers[k].id = id
      BY <1>2, <2>1 DEF SelectInSeq, Min
    <2>3. Erase(timers, id) = SubSeq(timers, 1, k - 1) \o SubSeq(timers, k + 1, Len(timers))
      BY <1>2 DEF Erase, RemoveFirstMatch, RemoveAt
    <2> HIDE DEF k
    <2> DEFINE a == SubSeq(timers, 1, k - 1)
               b == SubSeq(timers, k + 1, Len(timers))
    <2>4. /\ a \in Seq(Timer) /\ Len(a) = k - 1 /\ \A i \in 1 .. k - 1 : a[i] = timers[i]
          /\ b \in Seq(Timer) /\ Len(b) = Len(timers) - k
          /\ \A i \in 1 .. Len(timers) - k : b[i] = timers[k + i]
      BY <2>2
    <2>5. /\ a \o b \in Seq(Timer) /\ Len(a \o b) = Len(timers) - 1
          /\ \A i \in 1 .. Len(timers) - 1 :
               (a \o b)[i] = IF i < k THEN a[i] ELSE b[i - (k - 1)]
      <3> HIDE DEF a, b
      <3>1. /\ k \in Nat /\ Len(timers) \in Nat /\ a \in Seq(Timer) /\ b \in Seq(Timer)
            /\ Len(a) = k - 1 /\ Len(b) = Len(timers) - k
        BY <2>2, <2>4
      <3>2. a \o b \in Seq(Timer) /\ Len(a \o b) = Len(timers) - 1
        BY <3>1
      <3>3. ASSUME NEW i \in 1 .. Len(timers) - 1
            PROVE  (a \o b)[i] = IF i < k THEN a[i] ELSE b[i - (k - 1)]
        <4>1. CASE i < k
          BY <3>1, <4>1
        <4>2. CASE ~ (i < k)
          BY <3>1, <4>2
        <4> QED  BY <4>1, <4>2
      <3> QED  BY <3>2, <3>3
    <2>6. ASSUME NEW i \in 1 .. Len(timers) - 1
          PROVE  (a \o b)[i] = IF i < k THEN timers[i] ELSE timers[i + 1]
      <3> HIDE DEF a, b
      <3>1. CASE i < k
        BY <3>1, <2>2, <2>4, <2>5
      <3>2. CASE ~ (i < k)
        BY <3>2, <2>2, <2>4, <2>5
      <3> QED  BY <3>1, <3>2
    <2>7. Erase(timers, id) = a \o b
      BY <2>3
    <2>8. /\ Erase(timers, id) \in Seq(Timer)
          /\ Len(Erase(timers, id)) = Len(timers) - 1
          /\ \A i \in 1 .. Len(timers) - 1 :
               Erase(timers, id)[i] = IF i < k THEN timers[i] ELSE timers[i + 1]
      <3> HIDE DEF a, b
      <3> QED  BY <2>5, <2>6, <2>7
    <2>9. k \in DOMAIN timers
      BY <2>2
    <2> HIDE DEF a, b
    <2> QED  BY <2>2, <2>8, <2>9
  <1> QED  BY <1>1, <1>2

\* What is in a sequence of timers.
In(timer, timers) == \E i \in DOMAIN timers : timers[i] = timer

LEMMA EraseKeepsOthers ==
    ASSUME NEW timers \in Seq(Timer), NEW id, NEW timer
    PROVE  /\ In(timer, Erase(timers, id)) => In(timer, timers)
           /\ In(timer, timers) /\ timer.id # id => In(timer, Erase(timers, id))
  <1> DEFINE r == Erase(timers, id)
  <1>1. CASE r = timers
    BY <1>1
  <1>2. ASSUME NEW k \in DOMAIN timers, timers[k].id = id, Len(r) = Len(timers) - 1,
               r \in Seq(Timer),
               \A i \in 1 .. Len(timers) - 1 :
                  r[i] = IF i < k THEN timers[i] ELSE timers[i + 1]
        PROVE  /\ In(timer, r) => In(timer, timers)
               /\ In(timer, timers) /\ timer.id # id => In(timer, r)
    <2> HIDE DEF r
    <2>1. \A i \in DOMAIN r : r[i] = timers[i] \/ (r[i] = timers[i + 1] /\ i + 1 \in DOMAIN timers)
      BY <1>2
    <2>2. ASSUME NEW j \in DOMAIN timers, j # k
          PROVE  \E i \in DOMAIN r : r[i] = timers[j]
      <3>1. CASE j < k
        <4>1. j \in DOMAIN r /\ r[j] = timers[j]
          BY <1>2, <3>1
        <4> QED  BY <4>1
      <3>2. CASE ~ (j < k)
        <4>1. j - 1 \in DOMAIN r /\ r[j - 1] = timers[j]
          BY <1>2, <2>2, <3>2
        <4> QED  BY <4>1
      <3> QED  BY <3>1, <3>2
    <2>3. DOMAIN r \subseteq DOMAIN timers
      BY <1>2
    <2> QED  BY <1>2, <2>1, <2>2, <2>3 DEF In
  <1> QED  BY <1>1, <1>2, EraseIs

-----------------------------------------------------------------------------
(* Types.                                                                  *)

\* The ids that were and will be given stay within the bound.
IdsInv ==
    /\ baseID + Cardinality(Claims) <= MaxTimers
    /\ \A w \in Threads : frame[w].at = "read" => baseID > 0

\* The timer whose callback runs is in m_timers, and the swapped-out tasks
\* are run before the loop goes on.
WalkInv ==
    /\ pc \in {"send", "remove"} => iter \in DOMAIN m_timers
    /\ pc # "tasks" => tasks = << >>

TypeInv == TypeOK /\ IdsInv /\ WalkInv

LEMMA ClaimsFinite == IsFiniteSet(Claims) /\ Cardinality(Claims) \in Nat
  <1>1. IsFiniteSet({"base", "loop", "worker"})
    <2>1. IsFiniteSet({} \cup {"base"})
      BY FS_EmptySet, FS_AddElement
    <2>2. IsFiniteSet(({} \cup {"base"}) \cup {"loop"})
      BY <2>1, FS_AddElement
    <2>3. IsFiniteSet((({} \cup {"base"}) \cup {"loop"}) \cup {"worker"})
      BY <2>2, FS_AddElement
    <2>4. {"base", "loop", "worker"} = (({} \cup {"base"}) \cup {"loop"}) \cup {"worker"}
      OBVIOUS
    <2> QED  BY <2>3, <2>4
  <1>2. Claims \subseteq {"base", "loop", "worker"}
    BY DEF Claims, Threads
  <1> QED  BY <1>1, <1>2, FS_Subset, FS_CardinalityType

\* What a step of thread w does to the number of claims.
LEMMA ClaimsStep ==
    ASSUME frame \in [Threads -> Frame], NEW w \in Threads, NEW f \in Frame, GoTo(w, f)
    PROVE  /\ (f.at \in {"reset", "ids"}) = (frame[w].at \in {"reset", "ids"}) =>
                Claims' = Claims
           /\ f.at \in {"reset", "ids"} /\ frame[w].at \notin {"reset", "ids"} =>
                Cardinality(Claims') = Cardinality(Claims) + 1
           /\ f.at \notin {"reset", "ids"} /\ frame[w].at \in {"reset", "ids"} =>
                Cardinality(Claims') = Cardinality(Claims) - 1
  <1>1. frame'[w] = f /\ \A v \in Threads : v # w => frame'[v] = frame[v]
    BY GoesTo
  <1>2. ASSUME (f.at \in {"reset", "ids"}) = (frame[w].at \in {"reset", "ids"})
        PROVE  Claims' = Claims
    BY <1>1, <1>2 DEF Claims
  <1>3. ASSUME f.at \in {"reset", "ids"}, frame[w].at \notin {"reset", "ids"}
        PROVE  Cardinality(Claims') = Cardinality(Claims) + 1
    <2>1. Claims' = Claims \cup {w} /\ w \notin Claims
      BY <1>1, <1>3 DEF Claims
    <2> QED  BY <2>1, ClaimsFinite, FS_AddElement
  <1>4. ASSUME f.at \notin {"reset", "ids"}, frame[w].at \in {"reset", "ids"}
        PROVE  Cardinality(Claims') = Cardinality(Claims) - 1
    <2>1. Claims' = Claims \ {w} /\ w \in Claims
      BY <1>1, <1>4 DEF Claims
    <2> QED  BY <2>1, ClaimsFinite, FS_RemoveElement
  <1> QED  BY <1>2, <1>3, <1>4

\* A thread goes on in its handler without giving an id or claiming one.
LEMMA GoesOn ==
    ASSUME TypeInv, NEW w \in Threads, NEW f \in Frame, GoTo(w, f), baseID' = baseID,
           f.at # "read",
           (f.at \in {"reset", "ids"}) = (frame[w].at \in {"reset", "ids"})
    PROVE  frame' \in [Threads -> Frame] /\ IdsInv'
  <1>1. frame' \in [Threads -> Frame] /\ Claims' = Claims
    BY GoesTo, ClaimsStep DEF TypeInv, TypeOK
  <1>2. \A v \in Threads : frame'[v].at = "read" => baseID > 0
    BY GoesTo DEF TypeInv, TypeOK, IdsInv
  <1> QED  BY <1>1, <1>2 DEF TypeInv, IdsInv

\* A thread claims an id, for which there is room.
LEMMA ClaimsOne ==
    ASSUME TypeInv, NEW w \in Threads, NEW f \in Frame, GoTo(w, f), baseID' = baseID,
           Room, f.at \in {"reset", "ids"}, frame[w].at \notin {"reset", "ids"}
    PROVE  frame' \in [Threads -> Frame] /\ IdsInv'
  <1>1. frame' \in [Threads -> Frame] /\ Cardinality(Claims') = Cardinality(Claims) + 1
    BY GoesTo, ClaimsStep DEF TypeInv, TypeOK
  <1>2. \A v \in Threads : frame'[v].at = "read" => baseID > 0
    BY GoesTo DEF TypeInv, TypeOK, IdsInv
  <1>3. baseID + (Cardinality(Claims) + 1) <= MaxTimers
    BY ClaimsFinite, ReminderAssumption DEF Room, TypeInv, TypeOK
  <1> QED  BY <1>1, <1>2, <1>3 DEF IdsInv

\* The operations that change m_timers keep its type.
LEMMA TimersTypes ==
    ASSUME TypeOK
    PROVE  /\ \A id : Erase(m_timers, id) \in Seq(Timer)
           /\ \A timer \in Timer : /\ Append(m_timers, timer) \in Seq(Timer)
                                   /\ Append(m_customTasks, timer) \in Seq(Timer)
           /\ tasks # << >> => Head(tasks) \in Timer /\ Tail(tasks) \in Seq(Timer)
           /\ AtTimer => iter \in DOMAIN m_timers
           /\ iter \in DOMAIN m_timers => This \in Timer /\ This.s \in Sessions
                                                        /\ This.id \in TimerIDs
  <1>1. \A timer \in Timer : timer.s \in Sessions /\ timer.id \in TimerIDs
    BY DEF Timer
  <1>2. /\ \A id : Erase(m_timers, id) \in Seq(Timer)
        /\ tasks # << >> => Head(tasks) \in Timer /\ Tail(tasks) \in Seq(Timer)
    BY EraseIs DEF TypeOK
  <1>3. iter \in DOMAIN m_timers => This \in Timer
    BY DEF TypeOK, This
  <1>4. AtTimer => iter \in DOMAIN m_timers
    BY DEF AtTimer, TypeOK
  <1>5. \A timer \in Timer : /\ Append(m_timers, timer) \in Seq(Timer)
                             /\ Append(m_customTasks, timer) \in Seq(Timer)
    BY DEF TypeOK
  <1> QED  BY <1>1, <1>2, <1>3, <1>4, <1>5

LEMMA NotifyTypes ==
    ASSUME TypeInv, NEW w \in Threads, NotifyUserToBeReady(w)
    PROVE  TypeInv'
  <1> DEFINE s == frame[w].s
  <1>1. TypeOK /\ IdsInv /\ WalkInv
    BY DEF TypeInv
  <1>2. frame[w].at \in {"ids", "read", "add", "assign"} /\ s \in Sessions
        /\ (frame[w].at \in {"add", "assign"} => frame[w].id \in TimerIDs)
    <2>1. frame[w].at \in {"ids", "read", "add", "assign"}
      BY DEF NotifyUserToBeReady, IncrementID, ReadID, AddTimer, AssignTimerID, At
    <2>2. frame[w] \in Frame
      BY <1>1 DEF TypeOK
    <2> QED  BY <2>1, <2>2, FrameFields
  <1>3. CASE IncrementID(w)
    <2> DEFINE f == [at |-> "read", s |-> s]
    <2>1. f \in Frame /\ f.at = "read" /\ frame[w].at = "ids" /\ GoTo(w, f)
          /\ baseID' = baseID + 1
      BY <1>2, <1>3, FrameValues DEF IncrementID, At
    <2>2. frame' \in [Threads -> Frame] /\ Cardinality(Claims') = Cardinality(Claims) - 1
      BY <1>1, <2>1, GoesTo, ClaimsStep DEF TypeOK
    <2>3. Cardinality(Claims) \in Nat /\ Cardinality(Claims) # 0
      <3>1. w \in Claims
        BY <2>1 DEF Claims
      <3> QED  BY <3>1, ClaimsFinite, FS_EmptySet
    <2>4. IdsInv' /\ baseID' \in 0 .. MaxTimers
      BY <1>1, <2>1, <2>2, <2>3, ReminderAssumption DEF IdsInv, TypeOK
    <2> QED  BY <1>1, <1>3, <2>2, <2>4 DEF IncrementID, TypeInv, TypeOK, WalkInv, loopVars,
             timerVars, taskVars, closeVars
  <1>4. CASE ReadID(w)
    <2> DEFINE f == [at |-> "add", s |-> s, id |-> baseID]
    <2>1. baseID \in TimerIDs
      BY <1>1, <1>4, ReminderAssumption DEF ReadID, At, IdsInv, TypeOK, TimerIDs
    <2>2. f \in Frame /\ f.at = "add" /\ GoTo(w, f) /\ baseID' = baseID
          /\ frame[w].at = "read"
      BY <1>2, <1>4, <2>1, FrameValues DEF ReadID, At
    <2>3. frame' \in [Threads -> Frame] /\ IdsInv'
      BY <2>2, GoesOn
    <2>4. made' \in [Sessions -> SUBSET TimerIDs] /\ shared' \subseteq TimerIDs
      BY <1>1, <1>2, <1>4, <2>1 DEF ReadID, TypeOK
    <2> QED  BY <1>1, <1>4, <2>3, <2>4 DEF ReadID, TypeInv, TypeOK, WalkInv, loopVars,
             timerVars, taskVars, closeVars
  <1>5. CASE AddTimer(w)
    <2> DEFINE f == [frame[w] EXCEPT !.at = "assign"]
               timer == [id |-> frame[w].id, s |-> s]
    <2>1. frame[w] \in [at : {"add", "assign"}, s : Sessions, id : TimerIDs]
          /\ frame[w].at = "add"
      BY <1>1, <1>5, FrameFields DEF AddTimer, At, TypeOK
    <2>2. f \in [at : {"add", "assign"}, s : Sessions, id : TimerIDs] /\ f.at = "assign"
      BY <2>1
    <2>3. f \in Frame /\ GoTo(w, f) /\ baseID' = baseID
      BY <1>5, <2>2 DEF AddTimer, Frame, idVars
    <2>4. frame' \in [Threads -> Frame] /\ IdsInv'
      BY <2>1, <2>2, <2>3, GoesOn
    <2>5. timer \in Timer
      BY <2>1 DEF Timer
    <2>6. /\ m_timers' \in {m_timers, Append(m_timers, timer)}
          /\ m_customTasks' \in {m_customTasks, Append(m_customTasks, timer)}
      BY <1>5 DEF AddTimer
    <2>7. /\ m_timers' \in Seq(Timer) /\ m_customTasks' \in Seq(Timer)
          /\ DOMAIN m_timers \subseteq DOMAIN m_timers'
      <3> HIDE DEF timer
      <3>1. m_timers \in Seq(Timer) /\ m_customTasks \in Seq(Timer)
        BY <1>1 DEF TypeOK
      <3>2. /\ Append(m_timers, timer) \in Seq(Timer)
            /\ Append(m_customTasks, timer) \in Seq(Timer)
            /\ DOMAIN m_timers \subseteq DOMAIN Append(m_timers, timer)
        BY <2>5, <3>1
      <3> QED  BY <2>6, <3>1, <3>2
    <2> HIDE DEF f, timer
    <2> QED  BY <1>1, <1>5, <2>4, <2>7 DEF AddTimer, TypeInv, TypeOK, WalkInv, loopVars,
             idVars, closeVars
  <1>6. CASE AssignTimerID(w)
    <2> DEFINE f == IF w = "base" THEN [at |-> "emplace", s |-> s] ELSE Idle
    <2>1. f \in Frame /\ f.at \in {"emplace", "none"} /\ GoTo(w, f) /\ baseID' = baseID
      BY <1>2, <1>6, FrameValues DEF AssignTimerID, idVars
    <2>2. frame[w].at = "assign"
      BY <1>6 DEF AssignTimerID, At
    <2>3. frame' \in [Threads -> Frame] /\ IdsInv'
      <3> HIDE DEF f
      <3> QED  BY <2>1, <2>2, GoesOn
    <2>4. m_timerID' \in [Sessions -> TimerIDs \cup {Unset}]
      BY <1>1, <1>2, <1>6, <2>2 DEF AssignTimerID, TypeOK
    <2> QED  BY <1>1, <1>6, <2>3, <2>4 DEF AssignTimerID, TypeInv, TypeOK, WalkInv,
             loopVars, timerVars, taskVars, idVars, closeVars
  <1> QED  BY <1>3, <1>4, <1>5, <1>6 DEF NotifyUserToBeReady

LEMMA HandlerTypes ==
    ASSUME TypeInv,
           \/ \E w \in Threads : SetIdle(w)
           \/ \E s \in Sessions : \/ Connect(s) \/ Deal(s) \/ Ready(s)
                                  \/ \E w \in Threads : Reset(w, s)
           \/ Emplace \/ SetInGame
    PROVE  TypeInv'
  <1>1. TypeOK /\ IdsInv /\ WalkInv /\ "base" \in Threads
    BY DEF TypeInv, Threads
  <1> USE DEF loopVars, timerVars, taskVars, idVars, closeVars, At
  <1>2. ASSUME NEW w \in Threads, SetIdle(w) PROVE TypeInv'
    <2> DEFINE f == [at |-> "ids", s |-> frame[w].s]
    <2>1. frame[w].s \in Sessions /\ frame[w].at = "reset"
      BY <1>1, <1>2, FrameFields DEF SetIdle, TypeOK
    <2>2. f \in Frame /\ f.at = "ids" /\ GoTo(w, f) /\ baseID' = baseID
      BY <1>2, <2>1, FrameValues DEF SetIdle
    <2>3. frame' \in [Threads -> Frame] /\ IdsInv'
      BY <2>1, <2>2, GoesOn
    <2> QED  BY <1>1, <1>2, <2>1, <2>3 DEF SetIdle, TypeInv, TypeOK, WalkInv
  <1>3. ASSUME NEW s \in Sessions, Connect(s) PROVE TypeInv'
    <2> DEFINE f == [at |-> "ids", s |-> s]
    <2>1. f \in Frame /\ f.at = "ids" /\ GoTo("base", f) /\ baseID' = baseID
          /\ frame["base"].at = "none" /\ Room
      BY <1>3, FrameValues DEF Connect
    <2>2. frame' \in [Threads -> Frame] /\ IdsInv'
      BY <1>1, <2>1, ClaimsOne
    <2> QED  BY <1>1, <1>3, <2>2 DEF Connect, TypeInv, TypeOK, WalkInv
  <1>4. ASSUME NEW s \in Sessions, NEW w \in Threads, Reset(w, s) PROVE TypeInv'
    <2> DEFINE f == [at |-> "reset", s |-> s]
    <2>1. f \in Frame /\ f.at = "reset" /\ GoTo(w, f) /\ baseID' = baseID
          /\ frame[w].at = "none" /\ Room
      BY <1>4, FrameValues DEF Reset
    <2>2. frame' \in [Threads -> Frame] /\ IdsInv'
      BY <1>1, <2>1, ClaimsOne
    <2> QED  BY <1>1, <1>4, <2>2 DEF Reset, TypeInv, TypeOK, WalkInv
  <1>5. ASSUME NEW s \in Sessions, Deal(s) PROVE TypeInv'
    <2> DEFINE f == [at |-> "deal", s |-> s]
    <2>1. f \in Frame /\ f.at = "deal" /\ GoTo("base", f) /\ baseID' = baseID
          /\ frame["base"].at = "none"
      BY <1>5, FrameValues DEF Deal
    <2>2. frame' \in [Threads -> Frame] /\ IdsInv'
      BY <1>1, <2>1, GoesOn
    <2> QED  BY <1>1, <1>5, <2>2 DEF Deal, TypeInv, TypeOK, WalkInv
  <1>6. ASSUME NEW s \in Sessions, Ready(s) PROVE TypeInv'
    BY <1>1, <1>6 DEF Ready, TypeInv, TypeOK, WalkInv, IdsInv, Claims
  <1>7. CASE Emplace \/ SetInGame
    <2>1. frame["base"].s \in Sessions /\ frame["base"].at \in {"emplace", "deal"}
      BY <1>1, <1>7, FrameFields DEF Emplace, SetInGame, TypeOK
    <2>2. Idle \in Frame /\ Idle.at = "none" /\ GoTo("base", Idle) /\ baseID' = baseID
      BY <1>7, <2>1, FrameValues DEF Emplace, SetInGame
    <2>3. frame' \in [Threads -> Frame] /\ IdsInv'
      BY <1>1, <2>1, <2>2, GoesOn
    <2> QED  BY <1>1, <1>7, <2>1, <2>3 DEF Emplace, SetInGame, TypeInv, TypeOK, WalkInv
  <1> QED  BY <1>2, <1>3, <1>4, <1>5, <1>6, <1>7

\* A close, whether or not the walk is on.
LEMMA CloseTypes ==
    ASSUME TypeInv, NEW s \in Sessions, NEW checking \in BOOLEAN, OnClose(s, checking),
           pc' \notin {"send", "remove"}, pc' = "tasks" \/ tasks = << >>,
           pc' \in {"check", "events", "tasks"}, iter' \in Nat \ {0}
    PROVE  TypeInv'
  <1>1. TypeOK /\ IdsInv /\ WalkInv
    BY DEF TypeInv
  <1>2. /\ m_timers' \in Seq(Timer) /\ m_pendingRemoveTimers' \subseteq TimerIDs
        /\ shared' \subseteq TimerIDs
    BY <1>1, TimersTypes DEF OnClose, RemoveTimer, TypeOK
  <1>3. early' \subseteq closed' /\ settled' \subseteq closed' /\ closed' \subseteq Sessions
    BY <1>1 DEF OnClose, TypeOK
  <1> QED  BY <1>1, <1>2, <1>3 DEF OnClose, OnDisconnected, TypeInv, TypeOK, IdsInv, Claims,
           WalkInv, taskVars

LEMMA LoopTypes ==
    ASSUME TypeInv, Turn \/ \E s \in Sessions : Close(s)
    PROVE  TypeInv'
  <1>1. TypeOK /\ IdsInv /\ WalkInv /\ iter \in Nat \ {0} /\ iter + 1 \in Nat \ {0}
    BY DEF TypeInv, TypeOK
  <1> USE DEF loopVars, timerVars, taskVars, idVars, closeVars
  <1>2. CASE \E s \in Sessions : Close(s)
    <2>1. PICK s \in Sessions : Close(s)
      BY <1>2
    <2>2. OnClose(s, FALSE) /\ UNCHANGED <<pc, iter>> /\ pc \in {"events", "tasks"}
      BY <2>1 DEF Close, Handling
    <2> QED  BY <1>1, <2>2, CloseTypes DEF WalkInv
  <1>3. CASE CallbackSendFails
    <2>1. This.s \in Sessions /\ pc = "send" /\ pc' = "check" /\ iter' = iter + 1
      BY <1>1, <1>3, TimersTypes DEF CallbackSendFails, BackToWalk, WalkInv
    <2> QED  BY <1>1, <1>3, <2>1, CloseTypes DEF CallbackSendFails, WalkInv
  <1>4. CASE PassTimer \/ Callback \/ CallbackSends
    BY <1>1, <1>4, TimersTypes
       DEF PassTimer, Callback, CallbackSends, BackToWalk, AtTimer, TypeInv, TypeOK, IdsInv,
           Claims, WalkInv
  <1>5. CASE CallbackRemoves
    BY <1>1, <1>5, TimersTypes
       DEF CallbackRemoves, BackToWalk, TypeInv, TypeOK, IdsInv, Claims, WalkInv
  <1>6. CASE EndWalk \/ EndCheck \/ TakeTasks \/ EndTasks
    <2>1. << >> \in Seq(Timer) /\ 1 \in Nat \ {0}
      BY EmptySeq
    <2>2. CASE EndWalk \/ EndCheck
      BY <1>1, <2>1, <2>2 DEF EndWalk, EndCheck, TypeInv, TypeOK, IdsInv, Claims, WalkInv
    <2>3. CASE TakeTasks \/ EndTasks
      BY <1>1, <2>1, <2>3 DEF TakeTasks, EndTasks, TypeInv, TypeOK, IdsInv, Claims, WalkInv
    <2> QED  BY <1>6, <2>2, <2>3
  <1>7. CASE RunAdd
    BY <1>1, <1>7, TimersTypes
       DEF RunAdd, TypeInv, TypeOK, IdsInv, Claims, WalkInv
  <1>8. CASE \E id \in TimerIDs : RemovePending(id)
    BY <1>1, <1>8, TimersTypes
       DEF RemovePending, TypeInv, TypeOK, IdsInv, Claims, WalkInv
  <1> QED  BY <1>2, <1>3, <1>4, <1>5, <1>6, <1>7, <1>8 DEF Turn

LEMMA TypeInvariant == Spec => []TypeInv
  <1>1. Init => TypeInv
    <2> SUFFICES ASSUME Init PROVE TypeInv
      OBVIOUS
    <2>1. frame \in [Threads -> Frame] /\ \A w \in Threads : frame[w].at = "none"
      BY DEF Init, Frame, Idle
    <2>2. Claims = {}
      BY <2>1 DEF Claims
    <2>3. IdsInv
      BY <2>1, <2>2, FS_EmptySet, ReminderAssumption DEF Init, IdsInv
    <2>4. << >> \in Seq(Timer)
      BY EmptySeq
    <2>5. TypeOK /\ WalkInv
      BY <2>1, <2>4, ReminderAssumption DEF Init, TypeOK, WalkInv, Unset
    <2> QED  BY <2>3, <2>5 DEF TypeInv
  <1>2. TypeInv /\ [Next]_vars => TypeInv'
    <2> SUFFICES ASSUME TypeInv, [Next]_vars PROVE TypeInv'
      OBVIOUS
    <2>1. CASE UNCHANGED vars
      BY <2>1 DEF vars, loopVars, timerVars, taskVars, idVars, closeVars, TypeInv, TypeOK,
         IdsInv, Claims, WalkInv
    <2> QED  BY <2>1, NotifyTypes, HandlerTypes, LoopTypes DEF Next
  <1> QED  BY <1>1, <1>2, PTL DEF Spec

\* Types, for every number of sessions and timers; no more ids are made than
\* the bound.
THEOREM ReminderTypeOK == Spec => []TypeOK
  <1>1. TypeInv => TypeOK
    BY DEF TypeInv
  <1> QED  BY <1>1, TypeInvariant, PTL

-----------------------------------------------------------------------------
(* Ghosts: closed sessions in the map.                                     *)

\* The session that the base thread is connecting.
Connecting(s) ==
    frame["base"].at \in {"ids", "read", "add", "assign", "emplace"} /\ frame["base"].s = s

\* It is not in the map yet, so if it is closed already, it was early; and
\* what is closed later is taken out of the map.
GhostInv ==
    /\ frame["base"].at # "reset"
    /\ \A s \in Sessions : Connecting(s) => s \notin m_sessions /\ (s \in closed => s \in early)
    /\ GhostsWereEarly

\* A step of a thread other than the base thread, or one of that thread that
\* connects the same session as before or none, leaves the map alone.
LEMMA GhostStays ==
    ASSUME GhostInv, UNCHANGED <<m_sessions, closeVars>>, frame'["base"].at # "reset",
           \A s \in Sessions : Connecting(s)' => Connecting(s)
    PROVE  GhostInv'
  BY DEF GhostInv, GhostsWereEarly, closeVars

\* notifyUserToBeReady stays with its session and, at the end of the base
\* thread's connecting, goes on to the emplace.
LEMMA NotifyMoves ==
    ASSUME TypeInv, NEW w \in Threads, NotifyUserToBeReady(w)
    PROVE  \E f \in Frame :
             /\ GoTo(w, f) /\ f.at \in {"read", "add", "assign", "emplace", "none"}
             /\ f.at # "none" => f.s = frame[w].s
             /\ frame[w].at \in {"ids", "read", "add", "assign"}
  <1>1. frame[w] \in Frame
    BY DEF TypeInv, TypeOK
  <1>2. CASE IncrementID(w)
    <2> DEFINE f == [at |-> "read", s |-> frame[w].s]
    <2>1. f \in Frame
      BY <1>1, <1>2, FrameFields, FrameValues DEF IncrementID, At
    <2> QED  BY <1>2, <2>1 DEF IncrementID, At
  <1>3. CASE ReadID(w)
    <2> DEFINE f == [at |-> "add", s |-> frame[w].s, id |-> baseID]
    <2>1. baseID \in TimerIDs
      BY <1>3, ReminderAssumption DEF ReadID, At, TypeInv, IdsInv, TypeOK, TimerIDs
    <2>2. f \in Frame
      BY <1>1, <1>3, <2>1, FrameFields, FrameValues DEF ReadID, At
    <2> QED  BY <1>3, <2>2 DEF ReadID, At
  <1>4. CASE AddTimer(w)
    <2> DEFINE f == [frame[w] EXCEPT !.at = "assign"]
    <2>1. frame[w] \in [at : {"add", "assign"}, s : Sessions, id : TimerIDs]
      BY <1>1, <1>4, FrameFields DEF AddTimer, At
    <2>2. f \in [at : {"add", "assign"}, s : Sessions, id : TimerIDs]
          /\ f.s = frame[w].s /\ f.at = "assign"
      BY <2>1
    <2> QED  BY <1>4, <2>2 DEF AddTimer, At, Frame
  <1>5. CASE AssignTimerID(w)
    <2>1. frame[w].s \in Sessions /\ frame[w].at = "assign"
      BY <1>1, <1>5, FrameFields DEF AssignTimerID, At
    <2>2. CASE w = "base"
      BY <1>5, <2>1, <2>2, FrameValues DEF AssignTimerID
    <2>3. CASE w # "base"
      BY <1>5, <2>1, <2>3, FrameValues DEF AssignTimerID
    <2> QED  BY <2>2, <2>3
  <1> QED  BY <1>2, <1>3, <1>4, <1>5 DEF NotifyUserToBeReady

LEMMA GhostNotify ==
    ASSUME TypeInv, GhostInv, NEW w \in Threads, NotifyUserToBeReady(w)
    PROVE  GhostInv'
  <1>1. UNCHANGED <<m_sessions, closeVars>>
    BY DEF NotifyUserToBeReady, IncrementID, ReadID, AddTimer, AssignTimerID
  <1>2. PICK f \in Frame :
          /\ GoTo(w, f) /\ f.at \in {"read", "add", "assign", "emplace", "none"}
          /\ f.at # "none" => f.s = frame[w].s
          /\ frame[w].at \in {"ids", "read", "add", "assign"}
    BY NotifyMoves
  <1>3. CASE w = "base"
    BY <1>1, <1>2, <1>3, GoesTo, GhostStays DEF Connecting, TypeInv, TypeOK
  <1>4. CASE w # "base"
    <2>1. frame'["base"] = frame["base"]
      BY <1>2, <1>4, GoesTo DEF TypeInv, TypeOK, Threads
    <2> QED  BY <1>1, <2>1, GhostStays DEF Connecting, GhostInv
  <1> QED  BY <1>3, <1>4

\* The base thread's other steps, and the first ones of a reset.
LEMMA GhostFrames ==
    ASSUME TypeInv, GhostInv,
           \/ \E s \in Sessions : Connect(s) \/ Deal(s) \/ \E w \in Threads : Reset(w, s)
           \/ Emplace \/ SetInGame \/ \E w \in Threads : SetIdle(w)
    PROVE  GhostInv'
  <1>1. frame \in [Threads -> Frame] /\ "base" \in Threads /\ frame["base"].at # "reset"
    BY DEF TypeInv, TypeOK, Threads, GhostInv
  <1>2. ASSUME NEW s \in Sessions, Connect(s) PROVE GhostInv'
    <2> DEFINE f == [at |-> "ids", s |-> s]
    <2>1. s \notin m_sessions \cup closed /\ UNCHANGED <<m_sessions, closeVars>>
      BY <1>2 DEF Connect, Connected
    <2>2. frame'["base"] = f
      BY <1>1, <1>2, FrameValues, GoesTo DEF Connect
    <2> QED  BY <2>1, <2>2 DEF GhostInv, GhostsWereEarly, Connecting, closeVars
  <1>3. ASSUME NEW s \in Sessions, Deal(s) PROVE GhostInv'
    <2> DEFINE f == [at |-> "deal", s |-> s]
    <2>1. frame'["base"] = f
      BY <1>1, <1>3, FrameValues, GoesTo DEF Deal
    <2> QED  BY <1>3, <2>1, GhostStays DEF Deal, Connecting
  <1>4. ASSUME NEW s \in Sessions, NEW w \in Threads, Reset(w, s) PROVE GhostInv'
    <2>1. frame'["base"] = frame["base"]
      BY <1>1, <1>4, FrameValues, GoesTo DEF Reset
    <2> QED  BY <1>1, <1>4, <2>1, GhostStays DEF Reset, Connecting
  <1>5. CASE Emplace
    <2> DEFINE s == frame["base"].s
    <2>1. s \in Sessions /\ Connecting(s)
      BY <1>1, <1>5, FrameFields DEF Emplace, At, Connecting
    <2>2. frame'["base"] = Idle /\ Idle.at = "none"
      BY <1>1, <1>5, <2>1, FrameValues, GoesTo DEF Emplace
    <2>3. s \in closed => s \in early
      BY <2>1 DEF GhostInv
    <2>4. m_sessions' = m_sessions \cup {s} /\ UNCHANGED closeVars
      BY <1>5 DEF Emplace
    <2> HIDE DEF s
    <2> QED  BY <2>2, <2>3, <2>4 DEF GhostInv, GhostsWereEarly, Connecting, closeVars
  <1>6. CASE SetInGame
    <2>1. frame'["base"] = Idle /\ Idle.at = "none"
      BY <1>1, <1>6, GoesTo DEF SetInGame, Frame, Idle
    <2> QED  BY <1>6, <2>1, GhostStays DEF SetInGame, Connecting
  <1>7. ASSUME NEW w \in Threads, SetIdle(w) PROVE GhostInv'
    <2> DEFINE f == [at |-> "ids", s |-> frame[w].s]
    <2>1. w # "base" /\ frame[w].s \in Sessions
      BY <1>1, <1>7, FrameFields DEF SetIdle, At
    <2>2. frame'["base"] = frame["base"]
      BY <1>1, <1>7, <2>1, FrameValues, GoesTo DEF SetIdle
    <2> QED  BY <1>1, <1>7, <2>2, GhostStays DEF SetIdle, Connecting
  <1> QED  BY <1>2, <1>3, <1>4, <1>5, <1>6, <1>7

\* A session that closes leaves the map, or was not in it yet.
LEMMA GhostClose ==
    ASSUME GhostInv, NEW s \in Sessions, NEW checking \in BOOLEAN, OnClose(s, checking)
    PROVE  GhostInv'
  <1>1. /\ m_sessions' = m_sessions \ {s} /\ closed' = closed \cup {s}
        /\ early' = IF s \in closed \cup m_sessions THEN early ELSE early \cup {s}
        /\ UNCHANGED frame
    BY DEF OnClose, OnDisconnected
  <1> QED  BY <1>1 DEF GhostInv, GhostsWereEarly, Connecting

\* The closed sessions of the map are ghosts that the base thread put there.
THEOREM GhostsAlwaysWereEarly == Spec => []GhostsWereEarly
  <1>1. Init => GhostInv
    <2>1. Idle.at = "none" /\ "base" \in Threads
      BY DEF Idle, Threads
    <2> QED  BY <2>1 DEF Init, GhostInv, GhostsWereEarly, Connecting
  <1>2. TypeInv /\ GhostInv /\ [Next]_vars => GhostInv'
    <2> SUFFICES ASSUME TypeInv, GhostInv, [Next]_vars PROVE GhostInv'
      OBVIOUS
    <2>1. ASSUME UNCHANGED <<frame, m_sessions, closeVars>> PROVE GhostInv'
      BY <2>1, GhostStays DEF Connecting, GhostInv
    <2>2. CASE \E s \in Sessions : Ready(s)
      BY <2>1, <2>2 DEF Ready
    <2>3. CASE \E s \in Sessions : Close(s)
      BY <2>3, GhostClose DEF Close
    <2>4. CASE CallbackSendFails
      <3>1. This.s \in Sessions
        BY <2>4, ReminderAssumption DEF CallbackSendFails, OnClose
      <3> QED  BY <2>4, <3>1, GhostClose DEF CallbackSendFails
    <2>5. CASE Turn /\ ~ CallbackSendFails
      BY <2>1, <2>5 DEF Turn, PassTimer, Callback, CallbackSends, CallbackRemoves, EndWalk,
                        RemovePending, EndCheck, TakeTasks, RunAdd, EndTasks
    <2>6. CASE UNCHANGED vars
      BY <2>1, <2>6 DEF vars
    <2> QED  BY <2>2, <2>3, <2>4, <2>5, <2>6, GhostNotify, GhostFrames DEF Next
  <1>3. GhostInv => GhostsWereEarly
    BY DEF GhostInv
  <1> QED  BY <1>1, <1>2, <1>3, TypeInvariant, PTL DEF Spec

-----------------------------------------------------------------------------
(* Who knows which id.                                                     *)

LEMMA AppendKeeps ==
    ASSUME NEW timers \in Seq(Timer), NEW new \in Timer
    PROVE  /\ DOMAIN Append(timers, new) = DOMAIN timers \cup {Len(timers) + 1}
           /\ Append(timers, new)[Len(timers) + 1] = new
           /\ \A i \in DOMAIN timers : Append(timers, new)[i] = timers[i]
  OBVIOUS

LEMMA AppendIn ==
    ASSUME NEW timers \in Seq(Timer), NEW new \in Timer, NEW timer
    PROVE  In(timer, Append(timers, new)) <=> In(timer, timers) \/ timer = new
  BY AppendKeeps DEF In

LEMMA HeadIn ==
    ASSUME NEW timers \in Seq(Timer), timers # << >>, NEW timer
    PROVE  In(timer, timers) <=> timer = Head(timers) \/ In(timer, Tail(timers))
  <1>1. /\ Len(timers) \in Nat /\ Len(timers) > 0 /\ Head(timers) = timers[1]
        /\ Len(Tail(timers)) = Len(timers) - 1
        /\ \A i \in 1 .. Len(timers) - 1 : Tail(timers)[i] = timers[i + 1]
    BY EmptySeq, HeadTailProperties
  <1>2. \A i \in DOMAIN timers : i = 1 \/ (i - 1 \in DOMAIN Tail(timers)
                                            /\ Tail(timers)[i - 1] = timers[i])
    BY <1>1
  <1>3. \A i \in DOMAIN Tail(timers) : i + 1 \in DOMAIN timers
                                         /\ Tail(timers)[i] = timers[i + 1]
    BY <1>1
  <1>4. 1 \in DOMAIN timers
    BY <1>1
  <1> QED  BY <1>1, <1>2, <1>3, <1>4 DEF In

\* The timers that are installed or on their way.
Held(timer) == In(timer, m_timers) \/ In(timer, tasks) \/ In(timer, m_customTasks)

\* Every id in use was given, and to whom it says; where two sessions were
\* given one id, it is shared.
MadeInv ==
    /\ \A timer \in Timer : Held(timer) => timer.id \in made[timer.s]
    /\ \A w \in Threads : frame[w].at \in {"add", "assign"} =>
                            frame[w].id \in made[frame[w].s]
    /\ \A s \in Sessions : m_timerID[s] # Unset => m_timerID[s] \in made[s]
    /\ \A id \in m_pendingRemoveTimers \cup removing :
         id \in shared \/ \E s \in Sessions : id \in made[s]
    /\ \A s, t \in Sessions : s # t => made[s] \cap made[t] \subseteq shared

\* An id whose timer is about to be added is known to nobody else.
FreshInv ==
    \A w \in Threads : frame[w].at = "add" /\ frame[w].id \notin shared =>
        /\ \A timer \in Timer : Held(timer) => timer.id # frame[w].id
        /\ frame[w].id \notin m_pendingRemoveTimers \cup removing
        /\ \A s \in Sessions : m_timerID[s] # frame[w].id
        /\ \A v \in Threads : v # w /\ frame[v].at \in {"add", "assign"} =>
                                frame[v].id # frame[w].id

KnownInv == MadeInv /\ FreshInv

\* The steps in which no id is given and no timer added.
LEMMA KnownStays ==
    ASSUME TypeInv, KnownInv, UNCHANGED <<made, m_timerID>>, shared \subseteq shared',
           \A w \in Threads : frame'[w] = frame[w] \/ frame'[w].at \notin {"add", "assign"},
           \A timer \in Timer : Held(timer)' => Held(timer),
           \A id \in (m_pendingRemoveTimers \cup removing)' :
             \/ id \in m_pendingRemoveTimers \cup removing \cup shared'
             \/ \E timer \in Timer : Held(timer) /\ timer.id = id
             \/ id # Unset /\ \E s \in Sessions : m_timerID[s] = id
    PROVE  KnownInv'
  <1>1. \A timer \in Timer : timer.s \in Sessions
    BY DEF Timer
  <1>2. MadeInv'
    <2>1. ASSUME NEW id \in (m_pendingRemoveTimers \cup removing)'
          PROVE  id \in shared' \/ \E s \in Sessions : id \in made[s]
      BY <1>1 DEF KnownInv, MadeInv
    <2>2. \A s, t \in Sessions : s # t => made'[s] \cap made'[t] \subseteq shared'
      BY DEF KnownInv, MadeInv
    <2>3. \A w \in Threads : frame'[w].at \in {"add", "assign"} =>
                               frame'[w].id \in made'[frame'[w].s]
      BY DEF KnownInv, MadeInv
    <2> QED  BY <2>1, <2>2, <2>3 DEF KnownInv, MadeInv
  <1>3. FreshInv'
    <2> SUFFICES ASSUME NEW w \in Threads, frame'[w].at = "add", frame'[w].id \notin shared'
                 PROVE  /\ \A timer \in Timer : Held(timer)' => timer.id # frame[w].id
                        /\ frame[w].id \notin (m_pendingRemoveTimers \cup removing)'
                        /\ \A s \in Sessions : m_timerID[s] # frame[w].id
                        /\ \A v \in Threads : v # w /\ frame'[v].at \in {"add", "assign"} =>
                                                frame'[v].id # frame[w].id
                        /\ frame'[w] = frame[w]
      BY DEF FreshInv
    <2>1. frame'[w] = frame[w] /\ frame[w].at = "add" /\ frame[w].id \notin shared
      OBVIOUS
    <2>2. /\ \A timer \in Timer : Held(timer) => timer.id # frame[w].id
          /\ frame[w].id \notin m_pendingRemoveTimers \cup removing
          /\ \A s \in Sessions : m_timerID[s] # frame[w].id
          /\ \A v \in Threads : v # w /\ frame[v].at \in {"add", "assign"} =>
                                  frame[v].id # frame[w].id
      BY <2>1 DEF KnownInv, FreshInv
    <2> QED  BY <2>1, <2>2
  <1> QED  BY <1>2, <1>3 DEF KnownInv

LEMMA KnownRead ==
    ASSUME TypeInv, KnownInv, NEW w \in Threads, ReadID(w)
    PROVE  KnownInv'
  <1> DEFINE s0 == frame[w].s
             f == [at |-> "add", s |-> s0, id |-> baseID]
  <1>1. s0 \in Sessions /\ baseID \in TimerIDs /\ frame \in [Threads -> Frame]
    <2>1. frame[w] \in Frame /\ frame[w].at = "read"
      BY DEF ReadID, At, TypeInv, TypeOK
    <2> QED  BY <2>1, FrameFields, ReminderAssumption
             DEF TypeInv, TypeOK, IdsInv, TimerIDs
  <1>2. /\ frame'[w] = f /\ \A v \in Threads : v # w => frame'[v] = frame[v]
        /\ f.at = "add" /\ f.id = baseID /\ f.s = s0
    BY <1>1, FrameValues, GoesTo DEF ReadID
  <1>3. /\ made \in [Sessions -> SUBSET TimerIDs]
        /\ made' = [made EXCEPT ![s0] = @ \cup {baseID}]
        /\ shared' = IF \E t \in Sessions : baseID \in made[t]
                     THEN shared \cup {baseID} ELSE shared
        /\ UNCHANGED <<m_timers, tasks, m_customTasks, m_pendingRemoveTimers, removing,
                       m_timerID>>
    BY DEF ReadID, timerVars, taskVars, TypeInv, TypeOK
  <1>4. /\ made'[s0] = made[s0] \cup {baseID}
        /\ \A s \in Sessions : s # s0 => made'[s] = made[s]
    BY <1>1, <1>3
  <1>5. \A timer \in Timer : timer.s \in Sessions /\ (Held(timer)' = Held(timer))
    BY <1>3 DEF Timer, Held
  <1>6. \A v \in Threads : frame[v].at \in {"add", "assign"} => frame[v].s \in Sessions
    BY <1>1, FrameFields
  <1> HIDE DEF f, s0
  <1>7. MadeInv'
    <2>1. \A timer \in Timer : Held(timer)' => timer.id \in made'[timer.s]
      BY <1>4, <1>5 DEF KnownInv, MadeInv
    <2>2. \A v \in Threads : frame'[v].at \in {"add", "assign"} =>
                               frame'[v].id \in made'[frame'[v].s]
      BY <1>2, <1>4, <1>6 DEF KnownInv, MadeInv
    <2>3. \A s \in Sessions : m_timerID'[s] # Unset => m_timerID'[s] \in made'[s]
      BY <1>3, <1>4 DEF KnownInv, MadeInv
    <2>4. \A id \in (m_pendingRemoveTimers \cup removing)' :
            id \in shared' \/ \E s \in Sessions : id \in made'[s]
      BY <1>3, <1>4 DEF KnownInv, MadeInv
    <2>5. ASSUME NEW s \in Sessions, NEW t \in Sessions, s # t
          PROVE  made'[s] \cap made'[t] \subseteq shared'
      BY <1>3, <1>4, <2>5 DEF KnownInv, MadeInv
    <2> QED  BY <2>1, <2>2, <2>3, <2>4, <2>5 DEF MadeInv
  <1>8. FreshInv'
    <2> SUFFICES ASSUME NEW v \in Threads, frame'[v].at = "add", frame'[v].id \notin shared'
                 PROVE  /\ \A timer \in Timer : Held(timer)' => timer.id # frame'[v].id
                        /\ frame'[v].id \notin (m_pendingRemoveTimers \cup removing)'
                        /\ \A s \in Sessions : m_timerID'[s] # frame'[v].id
                        /\ \A u \in Threads : u # v /\ frame'[u].at \in {"add", "assign"} =>
                                                frame'[u].id # frame'[v].id
      BY DEF FreshInv
    <2>1. CASE v = w
      <3>1. \A t \in Sessions : baseID \notin made[t]
        BY <1>2, <1>3, <2>1
      <3>2. baseID \notin shared
        BY <1>2, <1>3, <2>1
      <3>3. baseID # Unset
        BY <1>1, ReminderAssumption DEF TimerIDs, Unset
      <3> QED  BY <1>2, <1>3, <1>5, <1>6, <2>1, <3>1, <3>2, <3>3 DEF KnownInv, MadeInv
    <2>2. CASE v # w
      <3>1. frame'[v] = frame[v] /\ frame[v].id \notin shared /\ frame[v].id \in made[frame[v].s]
            /\ frame[v].s \in Sessions
        BY <1>2, <1>3, <1>6, <2>2 DEF KnownInv, MadeInv
      <3>2. frame[v].id # baseID
        BY <1>3, <3>1
      <3> QED  BY <1>2, <1>3, <1>5, <2>2, <3>1, <3>2 DEF KnownInv, FreshInv
    <2> QED  BY <2>1, <2>2
  <1> QED  BY <1>7, <1>8 DEF KnownInv

\* What AddTimer does, on any thread.
LEMMA AddEffect ==
    ASSUME TypeInv, NEW w \in Threads, AddTimer(w)
    PROVE  LET new == [id |-> frame[w].id, s |-> frame[w].s]
               f == [frame[w] EXCEPT !.at = "assign"] IN
           /\ frame[w].at = "add" /\ new \in Timer /\ new.id = frame[w].id /\ new.s = frame[w].s
           /\ \A timer : Held(timer)' <=> Held(timer) \/ timer = new
           /\ frame'[w].at = "assign" /\ frame'[w].id = frame[w].id
           /\ frame'[w].s = frame[w].s
           /\ \A v \in Threads : v # w => frame'[v] = frame[v]
           /\ \A i \in DOMAIN m_timers : i \in DOMAIN m_timers' /\ m_timers'[i] = m_timers[i]
  <1> DEFINE new == [id |-> frame[w].id, s |-> frame[w].s]
             f == [frame[w] EXCEPT !.at = "assign"]
  <1>1. frame[w] \in [at : {"add", "assign"}, s : Sessions, id : TimerIDs]
        /\ frame[w].at = "add"
    BY FrameFields DEF AddTimer, At, TypeInv, TypeOK
  <1>2. new \in Timer /\ new.id = frame[w].id /\ new.s = frame[w].s
    BY <1>1 DEF Timer
  <1>3. /\ f.at = "assign" /\ f.id = frame[w].id /\ f.s = frame[w].s
        /\ f \in [at : {"add", "assign"}, s : Sessions, id : TimerIDs]
    BY <1>1
  <1>4. frame'[w] = f /\ \A v \in Threads : v # w => frame'[v] = frame[v]
    BY <1>3, GoesTo DEF AddTimer, Frame, TypeInv, TypeOK
  <1>5. /\ UNCHANGED tasks
        /\ \/ m_timers' = Append(m_timers, new) /\ UNCHANGED m_customTasks
           \/ m_customTasks' = Append(m_customTasks, new) /\ UNCHANGED m_timers
    BY DEF AddTimer
  <1>6. m_timers \in Seq(Timer) /\ m_customTasks \in Seq(Timer)
    BY DEF TypeInv, TypeOK
  <1> HIDE DEF new, f
  <1>7. ASSUME NEW timer PROVE Held(timer)' <=> Held(timer) \/ timer = new
    <2>1. CASE m_timers' = Append(m_timers, new) /\ UNCHANGED m_customTasks
      <3>1. In(timer, m_timers') <=> In(timer, m_timers) \/ timer = new
        BY <1>2, <1>6, <2>1, AppendIn
      <3> QED  BY <1>5, <2>1, <3>1 DEF Held
    <2>2. CASE m_customTasks' = Append(m_customTasks, new) /\ UNCHANGED m_timers
      <3>1. In(timer, m_customTasks') <=> In(timer, m_customTasks) \/ timer = new
        BY <1>2, <1>6, <2>2, AppendIn
      <3> QED  BY <1>5, <2>2, <3>1 DEF Held
    <2> QED  BY <1>5, <2>1, <2>2
  <1>8. ASSUME NEW i \in DOMAIN m_timers
        PROVE  i \in DOMAIN m_timers' /\ m_timers'[i] = m_timers[i]
    <2>1. CASE m_timers' = Append(m_timers, new)
      BY <1>2, <1>6, <2>1, AppendKeeps
    <2> QED  BY <1>5, <2>1
  <1> USE DEF new, f
  <1> QED  BY <1>1, <1>2, <1>3, <1>4, <1>7, <1>8

LEMMA KnownAdd ==
    ASSUME TypeInv, KnownInv, NEW w \in Threads, AddTimer(w)
    PROVE  KnownInv'
  <1> DEFINE new == [id |-> frame[w].id, s |-> frame[w].s]
  <1>1. /\ frame[w].at = "add" /\ new \in Timer /\ new.id = frame[w].id /\ new.s = frame[w].s
        /\ \A timer : Held(timer)' <=> Held(timer) \/ timer = new
        /\ frame'[w].at = "assign" /\ frame'[w].id = frame[w].id
        /\ frame'[w].s = frame[w].s
        /\ \A v \in Threads : v # w => frame'[v] = frame[v]
    BY AddEffect
  <1>2. UNCHANGED <<made, shared, m_timerID, m_pendingRemoveTimers, removing>>
    BY DEF AddTimer, idVars
  <1> HIDE DEF new
  <1>3. MadeInv'
    <2>1. \A timer \in Timer : Held(timer)' => timer.id \in made'[timer.s]
      BY <1>1, <1>2 DEF KnownInv, MadeInv
    <2>2. \A v \in Threads : frame'[v].at \in {"add", "assign"} =>
                               frame'[v].id \in made'[frame'[v].s]
      BY <1>1, <1>2 DEF KnownInv, MadeInv
    <2> QED  BY <1>2, <2>1, <2>2 DEF KnownInv, MadeInv
  <1>4. FreshInv'
    <2> SUFFICES ASSUME NEW v \in Threads, frame'[v].at = "add", frame'[v].id \notin shared'
                 PROVE  /\ \A timer \in Timer : Held(timer)' => timer.id # frame'[v].id
                        /\ frame'[v].id \notin (m_pendingRemoveTimers \cup removing)'
                        /\ \A s \in Sessions : m_timerID'[s] # frame'[v].id
                        /\ \A u \in Threads : u # v /\ frame'[u].at \in {"add", "assign"} =>
                                                frame'[u].id # frame'[v].id
      BY DEF FreshInv
    <2>1. v # w /\ frame'[v] = frame[v]
      BY <1>1
    <2>2. frame[v].id # frame[w].id
      BY <1>1, <1>2, <2>1 DEF KnownInv, FreshInv
    <2> QED  BY <1>1, <1>2, <2>1, <2>2 DEF KnownInv, FreshInv
  <1> QED  BY <1>3, <1>4 DEF KnownInv

LEMMA KnownAssign ==
    ASSUME TypeInv, KnownInv, NEW w \in Threads, AssignTimerID(w)
    PROVE  KnownInv'
  <1> DEFINE f == IF w = "base" THEN [at |-> "emplace", s |-> frame[w].s] ELSE Idle
  <1>1. /\ frame[w].at = "assign" /\ frame[w].s \in Sessions
        /\ m_timerID \in [Sessions -> TimerIDs \cup {Unset}]
    BY FrameFields DEF AssignTimerID, At, TypeInv, TypeOK
  <1>2. f \in Frame /\ f.at \in {"emplace", "none"}
    BY <1>1, FrameValues
  <1>3. frame'[w] = f /\ \A v \in Threads : v # w => frame'[v] = frame[v]
    BY <1>2, GoesTo DEF AssignTimerID, TypeInv, TypeOK
  <1>4. /\ m_timerID' = [m_timerID EXCEPT ![frame[w].s] = frame[w].id]
        /\ UNCHANGED <<made, shared, m_timers, tasks, m_customTasks, m_pendingRemoveTimers,
                       removing>>
    BY DEF AssignTimerID, idVars, timerVars, taskVars
  <1>5. \A timer \in Timer : Held(timer)' = Held(timer)
    BY <1>4 DEF Held
  <1> HIDE DEF f
  <1>6. MadeInv'
    <2>1. \A s \in Sessions : m_timerID'[s] # Unset => m_timerID'[s] \in made'[s]
      BY <1>1, <1>4 DEF KnownInv, MadeInv
    <2>2. \A v \in Threads : frame'[v].at \in {"add", "assign"} =>
                               frame'[v].id \in made'[frame'[v].s]
      BY <1>2, <1>3, <1>4 DEF KnownInv, MadeInv
    <2> QED  BY <1>4, <1>5, <2>1, <2>2 DEF KnownInv, MadeInv
  <1>7. FreshInv'
    <2> SUFFICES ASSUME NEW v \in Threads, frame'[v].at = "add", frame'[v].id \notin shared'
                 PROVE  /\ \A timer \in Timer : Held(timer)' => timer.id # frame'[v].id
                        /\ frame'[v].id \notin (m_pendingRemoveTimers \cup removing)'
                        /\ \A s \in Sessions : m_timerID'[s] # frame'[v].id
                        /\ \A u \in Threads : u # v /\ frame'[u].at \in {"add", "assign"} =>
                                                frame'[u].id # frame'[v].id
      BY DEF FreshInv
    <2>1. v # w /\ frame'[v] = frame[v] /\ frame[v].id \notin shared
      BY <1>2, <1>3, <1>4
    <2>2. frame[w].id # frame[v].id
      BY <1>1, <2>1 DEF KnownInv, FreshInv
    <2>3. \A s \in Sessions : m_timerID'[s] # frame[v].id
      BY <1>1, <1>4, <2>1, <2>2 DEF KnownInv, FreshInv
    <2>4. \A u \in Threads : u # v /\ frame'[u].at \in {"add", "assign"} =>
                               frame'[u].id # frame[v].id
      BY <1>2, <1>3, <2>1 DEF KnownInv, FreshInv
    <2> QED  BY <1>4, <1>5, <2>1, <2>3, <2>4 DEF KnownInv, FreshInv
  <1> QED  BY <1>6, <1>7 DEF KnownInv

\* A close removes the session's own timer, or one that counts as shared.
LEMMA KnownClose ==
    ASSUME TypeInv, KnownInv, NEW s \in Sessions, NEW checking \in BOOLEAN,
           OnClose(s, checking)
    PROVE  KnownInv'
  <1>1. PICK id \in IF m_timerID[s] = Unset THEN TimerIDs \cup {Unset} ELSE {m_timerID[s]} :
          /\ \/ /\ m_pendingRemoveTimers' = m_pendingRemoveTimers \cup ({id} \ {Unset})
                /\ UNCHANGED m_timers
             \/ m_timers' = Erase(m_timers, id) /\ UNCHANGED m_pendingRemoveTimers
          /\ shared' = IF m_timerID[s] = Unset THEN shared \cup ({id} \ {Unset})
                       ELSE shared
    BY DEF OnClose, RemoveTimer
  <1>2. UNCHANGED <<made, m_timerID, frame, removing, tasks, m_customTasks>>
        /\ m_timers \in Seq(Timer)
    BY DEF OnClose, taskVars, TypeInv, TypeOK
  <1>3. \A timer \in Timer : Held(timer)' => Held(timer)
    BY <1>1, <1>2, EraseKeepsOthers DEF Held
  <1>4. ASSUME NEW i \in (m_pendingRemoveTimers \cup removing)'
        PROVE  \/ i \in m_pendingRemoveTimers \cup removing \cup shared'
               \/ \E timer \in Timer : Held(timer) /\ timer.id = i
               \/ i # Unset /\ \E t \in Sessions : m_timerID[t] = i
    BY <1>1, <1>2
  <1>5. shared \subseteq shared'
    BY <1>1
  <1> QED  BY <1>2, <1>3, <1>4, <1>5, KnownStays

LEMMA KnownFrames ==
    ASSUME TypeInv, KnownInv,
           \/ \E w \in Threads : IncrementID(w) \/ SetIdle(w)
           \/ \E s \in Sessions : \/ Connect(s) \/ Deal(s) \/ Ready(s)
                                  \/ \E w \in Threads : Reset(w, s)
           \/ Emplace \/ SetInGame
    PROVE  KnownInv'
  <1>1. frame \in [Threads -> Frame] /\ "base" \in Threads
    BY DEF TypeInv, TypeOK, Threads
  <1>2. /\ UNCHANGED <<made, m_timerID, shared, m_timers, tasks, m_customTasks,
                       m_pendingRemoveTimers, removing>>
    BY DEF IncrementID, SetIdle, Connect, Deal, Ready, Reset, Emplace, SetInGame,
           timerVars, taskVars, idVars
  <1>3. \A w \in Threads : frame'[w] = frame[w] \/ frame'[w].at \notin {"add", "assign"}
    <2>1. ASSUME NEW w \in Threads, NEW f, GoTo(w, f), f.at \notin {"add", "assign"}
          PROVE  \A v \in Threads : frame'[v] = frame[v]
                                      \/ frame'[v].at \notin {"add", "assign"}
      BY <1>1, <2>1 DEF GoTo
    <2>2. CASE \E w \in Threads : IncrementID(w)
      <3>1. PICK w \in Threads : IncrementID(w)
        BY <2>2
      <3>2. GoTo(w, [at |-> "read", s |-> frame[w].s])
        BY <3>1 DEF IncrementID
      <3> QED  BY <2>1, <3>2
    <2>3. CASE \E w \in Threads : SetIdle(w)
      <3>1. PICK w \in Threads : SetIdle(w)
        BY <2>3
      <3>2. GoTo(w, [at |-> "ids", s |-> frame[w].s])
        BY <3>1 DEF SetIdle
      <3> QED  BY <2>1, <3>2
    <2>4. CASE \E s \in Sessions : Connect(s)
      <3>1. PICK s \in Sessions : Connect(s)
        BY <2>4
      <3>2. GoTo("base", [at |-> "ids", s |-> s])
        BY <3>1 DEF Connect
      <3> QED  BY <1>1, <2>1, <3>2
    <2>5. CASE \E s \in Sessions : Deal(s)
      <3>1. PICK s \in Sessions : Deal(s)
        BY <2>5
      <3>2. GoTo("base", [at |-> "deal", s |-> s])
        BY <3>1 DEF Deal
      <3> QED  BY <1>1, <2>1, <3>2
    <2>6. CASE \E s \in Sessions, w \in Threads : Reset(w, s)
      <3>1. PICK s \in Sessions, w \in Threads : Reset(w, s)
        BY <2>6
      <3>2. GoTo(w, [at |-> "reset", s |-> s])
        BY <3>1 DEF Reset
      <3> QED  BY <2>1, <3>2
    <2>7. CASE Emplace \/ SetInGame
      <3>1. GoTo("base", Idle)
        BY <2>7 DEF Emplace, SetInGame
      <3>2. Idle.at \notin {"add", "assign"}
        BY DEF Idle
      <3> QED  BY <1>1, <2>1, <3>1, <3>2
    <2>8. CASE \E s \in Sessions : Ready(s)
      BY <2>8 DEF Ready
    <2> QED  BY <2>2, <2>3, <2>4, <2>5, <2>6, <2>7, <2>8
  <1>4. \A timer \in Timer : Held(timer)' = Held(timer)
    BY <1>2 DEF Held
  <1> QED  BY <1>2, <1>3, <1>4, KnownStays

\* The loop moves the timers about, and removes those that it holds.
LEMMA HeldMoves ==
    ASSUME TypeInv
    PROVE  /\ TakeTasks \/ RunAdd => \A timer \in Timer : Held(timer)' <=> Held(timer)
           /\ iter \in DOMAIN m_timers => This \in Timer /\ Held(This)
  <1>1. m_timers \in Seq(Timer) /\ tasks \in Seq(Timer)
    BY DEF TypeInv, TypeOK
  <1>2. \A timer : ~ In(timer, << >>)
    BY DEF In
  <1>3. ASSUME TakeTasks, NEW timer \in Timer PROVE Held(timer)' <=> Held(timer)
    BY <1>2, <1>3 DEF TakeTasks, timerVars, Held, TypeInv, WalkInv
  <1>4. ASSUME RunAdd, NEW timer \in Timer PROVE Held(timer)' <=> Held(timer)
    <2>1. tasks # << >> /\ Head(tasks) \in Timer
      BY <1>1, <1>4 DEF RunAdd
    <2>2. In(timer, m_timers') <=> In(timer, m_timers) \/ timer = Head(tasks)
      BY <1>1, <1>4, <2>1, AppendIn DEF RunAdd
    <2>3. In(timer, tasks) <=> timer = Head(tasks) \/ In(timer, Tail(tasks))
      BY <1>1, <2>1, HeadIn
    <2> QED  BY <1>4, <2>2, <2>3 DEF RunAdd, Held
  <1>5. iter \in DOMAIN m_timers => This \in Timer /\ Held(This)
    BY <1>1 DEF This, Held, In
  <1> QED  BY <1>3, <1>4, <1>5

LEMMA KnownLoop ==
    ASSUME TypeInv, KnownInv, Turn, ~ CallbackSendFails
    PROVE  KnownInv'
  <1>1. UNCHANGED <<made, m_timerID, shared, frame>>
    BY DEF Turn, PassTimer, Callback, CallbackSends, CallbackRemoves, EndWalk, RemovePending,
           EndCheck, TakeTasks, RunAdd, EndTasks, idVars
  <1>2. ASSUME \A timer \in Timer : Held(timer)' => Held(timer),
               (m_pendingRemoveTimers \cup removing)' \subseteq
                 m_pendingRemoveTimers \cup removing
        PROVE  KnownInv'
    BY <1>1, <1>2, KnownStays
  <1>3. CASE PassTimer \/ Callback \/ CallbackSends \/ EndWalk \/ EndCheck \/ EndTasks
    <2>1. \A timer \in Timer : Held(timer)' = Held(timer)
      BY <1>3 DEF PassTimer, Callback, CallbackSends, EndWalk, EndCheck, EndTasks,
                  timerVars, taskVars, Held
    <2>2. (m_pendingRemoveTimers \cup removing)' \subseteq m_pendingRemoveTimers \cup removing
      BY <1>3 DEF PassTimer, Callback, CallbackSends, EndWalk, EndCheck, EndTasks, timerVars
    <2> QED  BY <1>2, <2>1, <2>2
  <1>4. CASE TakeTasks \/ RunAdd
    BY <1>2, <1>4, HeldMoves DEF TakeTasks, RunAdd, timerVars
  <1>5. CASE CallbackRemoves
    <2>1. This \in Timer /\ Held(This)
      BY <1>5, HeldMoves DEF CallbackRemoves, TypeInv, WalkInv
    <2>2. m_pendingRemoveTimers' = m_pendingRemoveTimers \cup {This.id}
          /\ UNCHANGED <<m_timers, removing, taskVars>>
      BY <1>5 DEF CallbackRemoves
    <2>3. \A timer \in Timer : Held(timer)' = Held(timer)
      BY <2>2 DEF Held, taskVars
    <2> QED  BY <1>1, <2>1, <2>2, <2>3, KnownStays
  <1>6. CASE \E id \in TimerIDs : RemovePending(id)
    <2>1. PICK id \in TimerIDs : RemovePending(id)
      BY <1>6
    <2>2. /\ m_timers' = Erase(m_timers, id) /\ removing' = removing \ {id}
          /\ UNCHANGED <<m_pendingRemoveTimers, tasks, m_customTasks>>
          /\ m_timers \in Seq(Timer)
      BY <2>1 DEF RemovePending, taskVars, TypeInv, TypeOK
    <2>3. \A timer \in Timer : Held(timer)' => Held(timer)
      BY <2>2, EraseKeepsOthers DEF Held
    <2> QED  BY <1>2, <2>2, <2>3
  <1> QED  BY <1>3, <1>4, <1>5, <1>6 DEF Turn

LEMMA KnownNext ==
    ASSUME TypeInv, KnownInv, [Next]_vars
    PROVE  KnownInv'
  <1>1. CASE UNCHANGED vars
    <2>1. UNCHANGED <<made, m_timerID, shared, frame, m_timers, tasks, m_customTasks,
                      m_pendingRemoveTimers, removing>>
      BY <1>1 DEF vars, timerVars, taskVars, idVars
    <2>2. \A timer \in Timer : Held(timer)' = Held(timer)
      BY <2>1 DEF Held
    <2> QED  BY <2>1, <2>2, KnownStays
  <1>2. CASE \E s \in Sessions : Close(s)
    BY <1>2, KnownClose DEF Close
  <1>3. CASE CallbackSendFails
    <2>1. This.s \in Sessions
      BY <1>3, ReminderAssumption DEF CallbackSendFails, OnClose
    <2> QED  BY <1>3, <2>1, KnownClose DEF CallbackSendFails
  <1>4. CASE Turn /\ ~ CallbackSendFails
    BY <1>4, KnownLoop
  <1>5. CASE \E w \in Threads : ReadID(w) \/ AddTimer(w) \/ AssignTimerID(w)
    BY <1>5, KnownRead, KnownAdd, KnownAssign
  <1> QED  BY <1>1, <1>2, <1>3, <1>4, <1>5, KnownFrames DEF Next, NotifyUserToBeReady

LEMMA KnownInvariant == Spec => []KnownInv
  <1>1. Init => KnownInv
    <2> SUFFICES ASSUME Init PROVE KnownInv
      OBVIOUS
    <2>1. \A timer : ~ In(timer, << >>)
      BY DEF In
    <2>2. \A timer : ~ Held(timer)
      BY <2>1 DEF Init, Held
    <2>3. \A w \in Threads : frame[w].at = "none"
      BY DEF Init, Idle
    <2>4. MadeInv
      BY <2>2, <2>3 DEF Init, MadeInv
    <2>5. FreshInv
      BY <2>3 DEF FreshInv
    <2> QED  BY <2>4, <2>5 DEF KnownInv
  <1> QED  BY <1>1, TypeInvariant, KnownNext, PTL DEF Spec

-----------------------------------------------------------------------------
(* An idle session keeps its reminder.                                     *)

\* One of the timers of s, installed or on its way, is not to be removed.
Kept(s, id) ==
    /\ id \in made[s] /\ Held([id |-> id, s |-> s])
    /\ id \notin m_pendingRemoveTimers \cup removing
    /\ ~ (pc = "remove" /\ This.id = id)

KeepsReminder(s) ==
    \/ Notifying(s)
    \/ made[s] \cap shared # {}
    \/ \E id \in TimerIDs : Kept(s, id)

Owed(s) == Connected(s) /\ s \notin closed /\ m_status[s] = "idle"

RemindedInv == \A s \in Sessions : Owed(s) => KeepsReminder(s)

LEMMA MadeIDs ==
    ASSUME TypeInv, NEW s \in Sessions
    PROVE  made[s] \subseteq TimerIDs
  BY DEF TypeInv, TypeOK

\* The steps that take no timer away from s.
LEMMA KeepsStays ==
    ASSUME TypeInv, NEW s \in Sessions, KeepsReminder(s), Notifying(s) => Notifying(s)',
           made[s] \subseteq made'[s], shared \subseteq shared',
           \A timer \in Timer : Held(timer) => Held(timer)',
           (m_pendingRemoveTimers \cup removing)' \subseteq m_pendingRemoveTimers \cup removing,
           pc' = "remove" => pc = "remove" /\ This' = This
    PROVE  KeepsReminder(s)'
  <1>1. ASSUME NEW id \in TimerIDs, Kept(s, id) PROVE Kept(s, id)'
    <2>1. [id |-> id, s |-> s] \in Timer
      BY DEF Timer
    <2> QED  BY <1>1, <2>1 DEF Kept
  <1>2. CASE Notifying(s)
    BY <1>2 DEF KeepsReminder
  <1>3. CASE made[s] \cap shared # {}
    BY <1>3 DEF KeepsReminder
  <1> QED  BY <1>1, <1>2, <1>3 DEF KeepsReminder

\* A session that is being notified keeps its reminder.
LEMMA NotifyingKeeps ==
    ASSUME NEW w \in Threads, NEW s, frame'[w].at \in {"ids", "read", "add"},
           frame'[w].s = s
    PROVE  KeepsReminder(s)'
  BY DEF KeepsReminder, Notifying

LEMMA RemindedNotify ==
    ASSUME TypeInv, KnownInv, RemindedInv, NEW w \in Threads, NotifyUserToBeReady(w)
    PROVE  RemindedInv'
  <1>1. /\ frame \in [Threads -> Frame] /\ frame[w].s \in Sessions
        /\ frame[w].at \in {"ids", "read", "add", "assign"}
    BY FrameFields
       DEF TypeInv, TypeOK, NotifyUserToBeReady, IncrementID, ReadID, AddTimer,
           AssignTimerID, At
  <1>2. UNCHANGED <<pc, iter, closed, m_status, m_sessions, m_pendingRemoveTimers, removing>>
    BY DEF NotifyUserToBeReady, IncrementID, ReadID, AddTimer, AssignTimerID, loopVars,
           timerVars, closeVars
  <1>3. \A v \in Threads : v # w => frame'[v] = frame[v]
    BY <1>1 DEF NotifyUserToBeReady, IncrementID, ReadID, AddTimer, AssignTimerID, GoTo
  <1>4. \/ frame'[w].at # "none" /\ frame'[w].s = frame[w].s
        \/ w # "base" /\ frame'[w] = Idle
    <2>1. CASE IncrementID(w) \/ ReadID(w) \/ AssignTimerID(w)
      BY <1>1, <2>1 DEF IncrementID, ReadID, AssignTimerID, GoTo
    <2>2. CASE AddTimer(w)
      BY <2>2, AddEffect
    <2> QED  BY <2>1, <2>2 DEF NotifyUserToBeReady
  <1>5. ASSUME NEW s \in Sessions, Owed(s)' PROVE Owed(s)
    <2>1. "base" \in Threads /\ Idle.at = "none"
      BY DEF Threads, Idle
    <2>2. CASE w = "base"
      <3>1. frame'["base"].s = frame["base"].s /\ frame["base"].at # "none"
        BY <1>1, <1>4, <2>2
      <3> QED  BY <1>2, <1>5, <3>1 DEF Owed, Connected, At
    <2>3. CASE w # "base"
      <3>1. frame'["base"] = frame["base"]
        BY <1>3, <2>1, <2>3
      <3> QED  BY <1>2, <1>5, <3>1 DEF Owed, Connected, At
    <2> QED  BY <2>2, <2>3
  <1>6. ASSUME NEW s \in Sessions, Owed(s) PROVE KeepsReminder(s)'
    <2>0. KeepsReminder(s)
      BY <1>6 DEF RemindedInv
    <2>1. CASE IncrementID(w) \/ ReadID(w)
      <3>1. frame'[w].at \in {"read", "add"} /\ frame'[w].s = frame[w].s
        BY <1>1, <2>1 DEF IncrementID, ReadID, GoTo
      <3>2. Notifying(s) => Notifying(s)'
        BY <1>3, <3>1 DEF Notifying
      <3>3. made[s] \subseteq made'[s] /\ shared \subseteq shared'
        BY <2>1 DEF IncrementID, ReadID, TypeInv, TypeOK
      <3>4. \A timer \in Timer : Held(timer)' = Held(timer)
        BY <2>1 DEF IncrementID, ReadID, timerVars, taskVars, Held
      <3>5. UNCHANGED m_timers
        BY <2>1 DEF IncrementID, ReadID, timerVars
      <3> QED  BY <1>2, <2>0, <3>2, <3>3, <3>4, <3>5, KeepsStays DEF This
    <2>2. CASE AssignTimerID(w)
      <3>1. frame[w].at = "assign"
        BY <2>2 DEF AssignTimerID, At
      <3>2. Notifying(s) => Notifying(s)'
        BY <1>3, <3>1 DEF Notifying
      <3>3. UNCHANGED <<made, shared, m_timers, tasks, m_customTasks>>
        BY <2>2 DEF AssignTimerID, idVars, timerVars, taskVars
      <3>4. \A timer \in Timer : Held(timer)' = Held(timer)
        BY <3>3 DEF Held
      <3> QED  BY <1>2, <2>0, <3>2, <3>3, <3>4, KeepsStays DEF This
    <2>3. CASE AddTimer(w)
      <3> DEFINE new == [id |-> frame[w].id, s |-> frame[w].s]
      <3>1. /\ frame[w].at = "add" /\ new \in Timer /\ new.id = frame[w].id
            /\ new.s = frame[w].s
            /\ \A timer : Held(timer)' <=> Held(timer) \/ timer = new
            /\ \A i \in DOMAIN m_timers : i \in DOMAIN m_timers' /\ m_timers'[i] = m_timers[i]
        BY <2>3, AddEffect
      <3>2. UNCHANGED <<made, shared>>
        BY <2>3 DEF AddTimer, idVars
      <3>3. pc = "remove" => This' = This /\ This \in Timer /\ Held(This)
        BY <1>2, <3>1, HeldMoves DEF This, TypeInv, WalkInv
      <3>4. CASE s = frame[w].s
        <4>1. frame[w].id \in made[s] /\ frame[w].id \in TimerIDs
          BY <3>1, <3>4, MadeIDs DEF KnownInv, MadeInv
        <4>2. CASE frame[w].id \in shared
          BY <3>2, <4>1, <4>2 DEF KeepsReminder
        <4>3. CASE frame[w].id \notin shared
          <5>1. /\ \A timer \in Timer : Held(timer) => timer.id # frame[w].id
                /\ frame[w].id \notin m_pendingRemoveTimers \cup removing
            BY <3>1, <4>3 DEF KnownInv, FreshInv
          <5>2. PICK id \in TimerIDs : id = frame[w].id
            BY <4>1
          <5>3. Held([id |-> id, s |-> s])'
            BY <3>1, <3>4, <5>2
          <5>4. ~ (pc' = "remove" /\ This'.id = id)
            <6>1. CASE pc = "remove"
              BY <3>3, <5>1, <5>2, <6>1
            <6> QED  BY <1>2, <6>1
          <5>5. Kept(s, id)'
            <6> HIDE DEF new
            <6> QED  BY <1>2, <3>2, <4>1, <5>1, <5>2, <5>3, <5>4 DEF Kept
          <5> QED  BY <5>5 DEF KeepsReminder
        <4> QED  BY <4>2, <4>3
      <3>5. CASE s # frame[w].s
        <4>1. Notifying(s) => Notifying(s)'
          BY <1>3, <3>5 DEF Notifying
        <4> HIDE DEF new
        <4> QED  BY <1>2, <2>0, <3>1, <3>2, <3>3, <4>1, KeepsStays
      <3> QED  BY <3>4, <3>5
    <2> QED  BY <2>1, <2>2, <2>3 DEF NotifyUserToBeReady
  <1> QED  BY <1>5, <1>6 DEF RemindedInv

LEMMA RemindedFrames ==
    ASSUME TypeInv, RemindedInv,
           \/ \E w \in Threads : SetIdle(w)
           \/ \E s \in Sessions : \/ Connect(s) \/ Deal(s) \/ Ready(s)
                                  \/ \E w \in Threads : Reset(w, s)
           \/ Emplace \/ SetInGame
    PROVE  RemindedInv'
  <1>1. frame \in [Threads -> Frame] /\ "base" \in Threads
        /\ m_status \in [Sessions -> {"idle", "busy"}]
    BY DEF TypeInv, TypeOK, Threads
  <1>2. UNCHANGED <<pc, iter, closed, made, shared, m_timers, tasks, m_customTasks,
                    m_pendingRemoveTimers, removing>>
    BY DEF SetIdle, Connect, Deal, Ready, Reset, Emplace, SetInGame,
           loopVars, timerVars, taskVars, idVars, closeVars
  <1>3. \A timer \in Timer : Held(timer)' = Held(timer)
    BY <1>2 DEF Held
  <1>4. ASSUME NEW s \in Sessions, Owed(s), Notifying(s) => Notifying(s)'
        PROVE  KeepsReminder(s)'
    BY <1>2, <1>3, <1>4, KeepsStays DEF RemindedInv, This
  <1>5. ASSUME NEW w \in Threads, SetIdle(w) PROVE RemindedInv'
    <2>1. frame[w].at = "reset" /\ frame[w].s \in Sessions
      BY <1>1, <1>5, FrameFields DEF SetIdle, At
    <2>2. frame'[w].at = "ids" /\ frame'[w].s = frame[w].s
          /\ \A v \in Threads : v # w => frame'[v] = frame[v]
      BY <1>1, <1>5 DEF SetIdle, GoTo
    <2>3. \A s \in Sessions : Notifying(s) => Notifying(s)'
      BY <2>1, <2>2 DEF Notifying
    <2>4. \A s \in Sessions : s = frame[w].s => KeepsReminder(s)'
      BY <2>2, NotifyingKeeps
    <2>5. \A s \in Sessions : s # frame[w].s /\ Owed(s)' => Owed(s)
      BY <1>1, <1>2, <1>5, <2>1, <2>2 DEF SetIdle, Owed, Connected, At
    <2> QED  BY <1>4, <2>3, <2>4, <2>5 DEF RemindedInv
  <1>6. ASSUME NEW t \in Sessions, Connect(t) PROVE RemindedInv'
    <2>1. frame["base"].at = "none" /\ frame'["base"].at = "ids" /\ frame'["base"].s = t
          /\ \A v \in Threads : v # "base" => frame'[v] = frame[v]
      BY <1>1, <1>6 DEF Connect, GoTo, At
    <2>2. \A s \in Sessions : Notifying(s) => Notifying(s)'
      BY <2>1 DEF Notifying
    <2>3. KeepsReminder(t)'
      BY <1>1, <2>1, NotifyingKeeps
    <2>4. \A s \in Sessions : s # t /\ Owed(s)' => Owed(s)
      BY <1>2, <1>6, <2>1 DEF Connect, Owed, Connected, At
    <2> QED  BY <1>4, <2>2, <2>3, <2>4 DEF RemindedInv
  <1>7. ASSUME NEW t \in Sessions, Deal(t) PROVE RemindedInv'
    <2>1. frame["base"].at = "none" /\ frame'["base"].s = t /\ t \in m_sessions
          /\ \A v \in Threads : v # "base" => frame'[v] = frame[v]
      BY <1>1, <1>7 DEF Deal, GoTo, At
    <2>2. \A s \in Sessions : Notifying(s) => Notifying(s)'
      BY <2>1 DEF Notifying
    <2>3. \A s \in Sessions : Owed(s)' => Owed(s)
      BY <1>2, <1>7, <2>1 DEF Deal, Owed, Connected, At
    <2> QED  BY <1>4, <2>2, <2>3 DEF RemindedInv
  <1>8. ASSUME NEW t \in Sessions, Ready(t) PROVE RemindedInv'
    <2>1. \A s \in Sessions : (Notifying(s) => Notifying(s)') /\ (Owed(s)' => Owed(s))
      BY <1>1, <1>2, <1>8 DEF Ready, Notifying, Owed, Connected, At
    <2> QED  BY <1>4, <2>1 DEF RemindedInv
  <1>9. ASSUME NEW t \in Sessions, NEW w \in Threads, Reset(w, t) PROVE RemindedInv'
    <2>1. w # "base" /\ frame[w].at = "none"
          /\ \A v \in Threads : v # w => frame'[v] = frame[v]
      BY <1>1, <1>9 DEF Reset, GoTo, At
    <2>2. \A s \in Sessions : Notifying(s) => Notifying(s)'
      BY <2>1 DEF Notifying
    <2>3. \A s \in Sessions : Owed(s)' => Owed(s)
      BY <1>1, <1>2, <1>9, <2>1 DEF Reset, Owed, Connected, At
    <2> QED  BY <1>4, <2>2, <2>3 DEF RemindedInv
  <1>10. CASE Emplace \/ SetInGame
    <2>1. frame["base"].at \in {"emplace", "deal"} /\ frame["base"].s \in Sessions
      BY <1>1, <1>10, FrameFields DEF Emplace, SetInGame, At
    <2>2. frame'["base"].at = "none" /\ \A v \in Threads : v # "base" => frame'[v] = frame[v]
      BY <1>1, <1>10 DEF Emplace, SetInGame, GoTo, Idle
    <2>3. \A s \in Sessions : Notifying(s) => Notifying(s)'
      BY <2>1, <2>2 DEF Notifying
    <2>4. \A s \in Sessions : Owed(s)' => Owed(s)
      <3>1. \A s \in Sessions : s \in m_sessions' => s \in m_sessions \/ s = frame["base"].s
        BY <1>10 DEF Emplace, SetInGame
      <3>2. \A s \in Sessions : m_status'[s] = "idle" => m_status[s] = "idle"
        BY <1>1, <1>10 DEF Emplace, SetInGame
      <3> QED  BY <1>2, <2>1, <2>2, <3>1, <3>2 DEF Owed, Connected, At
    <2> QED  BY <1>4, <2>3, <2>4 DEF RemindedInv
  <1> QED  BY <1>5, <1>6, <1>7, <1>8, <1>9, <1>10

\* A session that closes takes no timer from another, unless by a shared id.
LEMMA RemindedClose ==
    ASSUME TypeInv, KnownInv, RemindedInv, NEW t \in Sessions, NEW checking \in BOOLEAN,
           OnClose(t, checking), pc' # "remove"
    PROVE  RemindedInv'
  <1>1. PICK id \in IF m_timerID[t] = Unset THEN TimerIDs \cup {Unset} ELSE {m_timerID[t]} :
          /\ \/ /\ m_pendingRemoveTimers' = m_pendingRemoveTimers \cup ({id} \ {Unset})
                /\ UNCHANGED m_timers
             \/ m_timers' = Erase(m_timers, id) /\ UNCHANGED m_pendingRemoveTimers
          /\ shared' = IF m_timerID[t] = Unset THEN shared \cup ({id} \ {Unset})
                       ELSE shared
    BY DEF OnClose, RemoveTimer
  <1>2. /\ UNCHANGED <<made, m_timerID, frame, removing, tasks, m_customTasks, m_status>>
        /\ m_timers \in Seq(Timer)
        /\ m_sessions' = m_sessions \ {t} /\ closed' = closed \cup {t}
    BY DEF OnClose, OnDisconnected, taskVars, TypeInv, TypeOK
  <1> SUFFICES ASSUME NEW s \in Sessions, Owed(s)' PROVE KeepsReminder(s)'
    BY DEF RemindedInv
  <1>3. s # t /\ KeepsReminder(s)
    BY <1>2 DEF Owed, Connected, At, RemindedInv
  <1>4. CASE Notifying(s)
    BY <1>2, <1>4 DEF Notifying, KeepsReminder
  <1>5. CASE made[s] \cap shared # {}
    BY <1>1, <1>2, <1>5 DEF KeepsReminder
  <1>6. ASSUME NEW i \in TimerIDs, Kept(s, i) PROVE KeepsReminder(s)'
    <2>1. i # Unset /\ i \in made[s] /\ Held([id |-> i, s |-> s])
          /\ i \notin m_pendingRemoveTimers \cup removing
      BY <1>6, ReminderAssumption DEF Kept, TimerIDs, Unset
    <2>2. CASE i = id
      <3>1. i \in shared'
        <4>1. CASE m_timerID[t] = Unset
          BY <1>1, <2>1, <2>2, <4>1
        <4>2. CASE m_timerID[t] # Unset
          BY <1>1, <1>3, <2>1, <2>2, <4>2 DEF KnownInv, MadeInv
        <4> QED  BY <4>1, <4>2
      <3> QED  BY <1>2, <2>1, <3>1 DEF KeepsReminder
    <2>3. CASE i # id
      <3> DEFINE timer == [id |-> i, s |-> s]
      <3>1. timer.id = i
        OBVIOUS
      <3> HIDE DEF timer
      <3>2. In(timer, m_timers) => In(timer, m_timers')
        BY <1>1, <1>2, <2>3, <3>1, EraseKeepsOthers
      <3>3. Held(timer) => Held(timer)'
        BY <1>2, <3>2 DEF Held
      <3> USE DEF timer
      <3>4. Kept(s, i)'
        BY <1>1, <1>2, <2>1, <2>3, <3>3 DEF Kept
      <3> QED  BY <3>4 DEF KeepsReminder
    <2> QED  BY <2>2, <2>3
  <1> QED  BY <1>3, <1>4, <1>5, <1>6 DEF KeepsReminder

LEMMA RemindedLoop ==
    ASSUME TypeInv, KnownInv, RemindedInv, Turn, ~ CallbackSendFails
    PROVE  RemindedInv'
  <1>1. UNCHANGED <<made, m_timerID, shared, frame, m_status, m_sessions, closed>>
    BY DEF Turn, PassTimer, Callback, CallbackSends, CallbackRemoves, EndWalk, RemovePending,
           EndCheck, TakeTasks, RunAdd, EndTasks, idVars, closeVars
  <1> SUFFICES ASSUME NEW s \in Sessions, Owed(s)' PROVE KeepsReminder(s)'
    BY DEF RemindedInv
  <1>2. Owed(s) /\ KeepsReminder(s) /\ m_status[s] = "idle"
    BY <1>1 DEF Owed, Connected, At, RemindedInv
  <1>3. Notifying(s) => Notifying(s)'
    BY <1>1 DEF Notifying
  <1>4. CASE PassTimer \/ CallbackSends \/ EndWalk \/ EndCheck \/ EndTasks
    <2>1. \A timer \in Timer : Held(timer)' = Held(timer)
      BY <1>4 DEF PassTimer, CallbackSends, EndWalk, EndCheck, EndTasks, timerVars,
                  taskVars, Held
    <2>2. (m_pendingRemoveTimers \cup removing)' \subseteq m_pendingRemoveTimers \cup removing
          /\ pc' # "remove"
      BY <1>4 DEF PassTimer, CallbackSends, EndWalk, EndCheck, EndTasks, timerVars,
                  BackToWalk, AtTimer
    <2> QED  BY <1>1, <1>2, <1>3, <2>1, <2>2, KeepsStays
  <1>5. CASE TakeTasks \/ RunAdd
    <2>1. (m_pendingRemoveTimers \cup removing)' = m_pendingRemoveTimers \cup removing
          /\ pc' # "remove"
      BY <1>5 DEF TakeTasks, RunAdd, timerVars, loopVars
    <2> QED  BY <1>1, <1>2, <1>3, <1>5, <2>1, HeldMoves, KeepsStays
  <1>6. CASE Callback
    <2>1. UNCHANGED <<iter, timerVars, taskVars>> /\ iter \in DOMAIN m_timers
      BY <1>6, TimersTypes DEF Callback, TypeInv
    <2>2. \A timer \in Timer : Held(timer)' = Held(timer)
      BY <2>1 DEF timerVars, taskVars, Held
    <2>3. CASE pc' # "remove"
      BY <1>1, <1>2, <1>3, <2>1, <2>2, <2>3, KeepsStays DEF timerVars
    <2>4. CASE pc' = "remove"
      <3>1. This.s # s /\ This' = This /\ This.s \in Sessions
        BY <1>2, <1>6, <2>1, <2>4, TimersTypes DEF Callback, This, timerVars, TypeInv
      <3>2. This.id \in made[This.s]
        BY <2>1, HeldMoves DEF KnownInv, MadeInv
      <3>3. CASE Notifying(s) \/ made[s] \cap shared # {}
        BY <1>1, <1>3, <3>3 DEF KeepsReminder
      <3>4. ASSUME NEW id \in TimerIDs, Kept(s, id) PROVE KeepsReminder(s)'
        <4>1. CASE This.id = id
          <5>1. id \in made[s] /\ id \in made[This.s]
            BY <3>2, <3>4, <4>1 DEF Kept
          <5>2. id \in shared
            BY <3>1, <5>1 DEF KnownInv, MadeInv
          <5> QED  BY <1>1, <5>1, <5>2 DEF KeepsReminder
        <4>2. CASE This.id # id
          <5>1. [id |-> id, s |-> s] \in Timer
            BY DEF Timer
          <5>2. Kept(s, id)'
            BY <1>1, <2>1, <2>2, <3>1, <3>4, <4>2, <5>1 DEF Kept, timerVars
          <5> QED  BY <5>2 DEF KeepsReminder
        <4> QED  BY <4>1, <4>2
      <3> QED  BY <1>2, <3>3, <3>4 DEF KeepsReminder
    <2> QED  BY <2>3, <2>4
  <1>7. CASE CallbackRemoves
    <2>1. /\ pc = "remove" /\ pc' = "check"
          /\ m_pendingRemoveTimers' = m_pendingRemoveTimers \cup {This.id}
          /\ UNCHANGED <<m_timers, removing, tasks, m_customTasks>>
      BY <1>7 DEF CallbackRemoves, BackToWalk, taskVars
    <2>2. ASSUME NEW id \in TimerIDs, Kept(s, id) PROVE Kept(s, id)'
      BY <1>1, <2>1, <2>2 DEF Kept, Held
    <2> QED  BY <1>1, <1>2, <1>3, <2>2 DEF KeepsReminder
  <1>8. CASE \E id \in TimerIDs : RemovePending(id)
    <2>1. PICK id \in TimerIDs : RemovePending(id)
      BY <1>8
    <2>2. /\ m_timers' = Erase(m_timers, id) /\ removing' = removing \ {id}
          /\ id \in removing /\ pc' = "ends"
          /\ UNCHANGED <<m_pendingRemoveTimers, tasks, m_customTasks>>
          /\ m_timers \in Seq(Timer)
      BY <2>1 DEF RemovePending, taskVars, loopVars, TypeInv, TypeOK
    <2>3. ASSUME NEW i \in TimerIDs, Kept(s, i) PROVE Kept(s, i)'
      <3> DEFINE timer == [id |-> i, s |-> s]
      <3>1. timer.id = i /\ i # id
        BY <2>2, <2>3 DEF Kept
      <3> HIDE DEF timer
      <3>2. In(timer, m_timers) => In(timer, m_timers')
        BY <2>2, <3>1, EraseKeepsOthers
      <3>3. Held(timer) => Held(timer)'
        BY <2>2, <3>2 DEF Held
      <3> USE DEF timer
      <3> QED  BY <1>1, <2>2, <2>3, <3>3 DEF Kept
    <2> QED  BY <1>1, <1>2, <1>3, <2>3 DEF KeepsReminder
  <1> QED  BY <1>4, <1>5, <1>6, <1>7, <1>8 DEF Turn

LEMMA RemindedNext ==
    ASSUME TypeInv, KnownInv, RemindedInv, [Next]_vars
    PROVE  RemindedInv'
  <1>1. CASE UNCHANGED vars
    <2>1. UNCHANGED <<made, shared, frame, m_timers, tasks, m_customTasks, pc, iter, closed,
                      m_sessions, m_status, m_pendingRemoveTimers, removing>>
      BY <1>1 DEF vars, loopVars, timerVars, taskVars, idVars, closeVars
    <2> QED  BY <2>1 DEF RemindedInv, Owed, Connected, At, KeepsReminder, Notifying, Kept,
                         Held, This
  <1>2. CASE \E s \in Sessions : Close(s)
    BY <1>2, RemindedClose DEF Close, Handling, loopVars
  <1>3. CASE CallbackSendFails
    <2>1. This.s \in Sessions
      BY <1>3, ReminderAssumption DEF CallbackSendFails, OnClose
    <2> QED  BY <1>3, <2>1, RemindedClose DEF CallbackSendFails, BackToWalk
  <1>4. CASE Turn /\ ~ CallbackSendFails
    BY <1>4, RemindedLoop
  <1> QED  BY <1>1, <1>2, <1>3, <1>4, RemindedNotify, RemindedFrames DEF Next

\* However the three threads interleave, an idle session keeps a reminder,
\* unless ids were mixed up.
THEOREM IdleAlwaysReminded == Spec => []IdleIsReminded
  <1>1. Init => RemindedInv
    <2>1. Init => \A w \in Threads : frame[w].at = "none"
      BY DEF Idle, Init
    <2> QED  BY <2>1 DEF Init, RemindedInv, Owed, Connected, At, Threads
  <1>2. TypeInv /\ RemindedInv => IdleIsReminded
    <2> SUFFICES ASSUME TypeInv, RemindedInv, NEW s \in m_sessions \ closed,
                        m_status[s] = "idle", ~ Notifying(s), made[s] \cap shared = {}
                 PROVE  InstalledFor(s) \/ PostedFor(s)
      BY DEF IdleIsReminded
    <2>1. s \in Sessions /\ tasks \in Seq(Timer) /\ m_customTasks \in Seq(Timer)
      BY DEF TypeInv, TypeOK
    <2>2. PICK id \in TimerIDs : Kept(s, id)
      BY <2>1 DEF RemindedInv, Owed, Connected, KeepsReminder
    <2> DEFINE timer == [id |-> id, s |-> s]
    <2>3. Held(timer) /\ timer.s = s
      BY <2>2 DEF Kept
    <2> HIDE DEF timer
    <2>4. CASE In(timer, m_timers)
      BY <2>3, <2>4 DEF In, InstalledFor
    <2>5. CASE In(timer, tasks)
      <3>1. PICK i \in DOMAIN tasks : tasks[i] = timer
        BY <2>5 DEF In
      <3>2. i \in DOMAIN (tasks \o m_customTasks) /\ (tasks \o m_customTasks)[i] = timer
        BY <2>1, <3>1
      <3> QED  BY <2>3, <3>2 DEF PostedFor
    <2>6. CASE In(timer, m_customTasks)
      <3>1. PICK i \in DOMAIN m_customTasks : m_customTasks[i] = timer
        BY <2>6 DEF In
      <3>2. Len(tasks) + i \in DOMAIN (tasks \o m_customTasks)
            /\ (tasks \o m_customTasks)[Len(tasks) + i] = timer
        BY <2>1, <3>1
      <3> QED  BY <2>3, <3>2 DEF PostedFor
    <2> QED  BY <2>3, <2>4, <2>5, <2>6 DEF Held
  <1> QED  BY <1>1, <1>2, TypeInvariant, KnownInvariant, RemindedNext, PTL DEF Spec

-----------------------------------------------------------------------------
(* What closed in order stays silent.                                      *)

\* No two timers have an id that is not shared.
Uniq(timers) ==
    \A i, j \in DOMAIN timers :
        timers[i].id = timers[j].id => i = j \/ timers[i].id \in shared
Apart(timers, others) ==
    \A i \in DOMAIN timers : \A j \in DOMAIN others :
        timers[i].id = others[j].id => timers[i].id \in shared

UniqueInv ==
    /\ Uniq(m_timers) /\ Uniq(tasks) /\ Uniq(m_customTasks)
    /\ Apart(m_timers, tasks) /\ Apart(m_timers, m_customTasks)
    /\ Apart(tasks, m_customTasks)

LEMMA UniqueAppend ==
    ASSUME NEW timers \in Seq(Timer), NEW new \in Timer, NEW others \in Seq(Timer),
           \A i \in DOMAIN timers : timers[i].id = new.id => new.id \in shared,
           \A i \in DOMAIN others : others[i].id = new.id => new.id \in shared
    PROVE  /\ Uniq(timers) => Uniq(Append(timers, new))
           /\ Apart(timers, others) => Apart(Append(timers, new), others)
           /\ Apart(others, timers) => Apart(others, Append(timers, new))
  <1> DEFINE r == Append(timers, new)
  <1>1. /\ DOMAIN r = DOMAIN timers \cup {Len(timers) + 1} /\ r[Len(timers) + 1] = new
        /\ \A i \in DOMAIN timers : r[i] = timers[i]
    BY AppendKeeps
  <1> HIDE DEF r
  <1>2. ASSUME Uniq(timers) PROVE Uniq(r)
    BY <1>1, <1>2 DEF Uniq
  <1>3. ASSUME Apart(timers, others) PROVE Apart(r, others)
    BY <1>1, <1>3 DEF Apart
  <1>4. ASSUME Apart(others, timers) PROVE Apart(others, r)
    BY <1>1, <1>4 DEF Apart
  <1> QED  BY <1>2, <1>3, <1>4 DEF r

LEMMA UniqueTail ==
    ASSUME NEW timers \in Seq(Timer), timers # << >>, NEW others \in Seq(Timer)
    PROVE  /\ Uniq(timers) => /\ Uniq(Tail(timers))
                              /\ \A i \in DOMAIN Tail(timers) :
                                   Tail(timers)[i].id = Head(timers).id =>
                                     Head(timers).id \in shared
           /\ Apart(others, timers) => /\ Apart(others, Tail(timers))
                                       /\ \A i \in DOMAIN others :
                                            others[i].id = Head(timers).id =>
                                              Head(timers).id \in shared
           /\ Apart(timers, others) => /\ Apart(Tail(timers), others)
                                       /\ \A i \in DOMAIN others :
                                            others[i].id = Head(timers).id =>
                                              Head(timers).id \in shared
  <1> DEFINE r == Tail(timers)
  <1>1. /\ Len(timers) \in Nat /\ Len(timers) > 0 /\ Head(timers) = timers[1]
        /\ Len(r) = Len(timers) - 1 /\ r \in Seq(Timer)
        /\ \A i \in 1 .. Len(timers) - 1 : r[i] = timers[i + 1]
    BY EmptySeq, HeadTailProperties
  <1>2. /\ DOMAIN r \subseteq Int /\ 1 \in DOMAIN timers
        /\ \A i \in DOMAIN r : i + 1 \in DOMAIN timers /\ r[i] = timers[i + 1] /\ i + 1 # 1
    BY <1>1
  <1> HIDE DEF r
  <1>3. ASSUME Uniq(timers)
        PROVE  Uniq(r) /\ \A i \in DOMAIN r : r[i].id = Head(timers).id =>
                                                Head(timers).id \in shared
    <2>1. ASSUME NEW i \in DOMAIN r, NEW j \in DOMAIN r, r[i].id = r[j].id
          PROVE  i = j \/ r[i].id \in shared
      <3>1. i + 1 = j + 1 \/ timers[i + 1].id \in shared
        BY <1>2, <1>3, <2>1 DEF Uniq
      <3> QED  BY <1>2, <3>1
    <2>2. ASSUME NEW i \in DOMAIN r, r[i].id = Head(timers).id
          PROVE  Head(timers).id \in shared
      BY <1>1, <1>2, <1>3, <2>2 DEF Uniq
    <2> QED  BY <2>1, <2>2 DEF Uniq
  <1>4. ASSUME Apart(others, timers)
        PROVE  Apart(others, r) /\ \A i \in DOMAIN others :
                                     others[i].id = Head(timers).id => Head(timers).id \in shared
    BY <1>1, <1>2, <1>4 DEF Apart
  <1>5. ASSUME Apart(timers, others)
        PROVE  Apart(r, others) /\ \A i \in DOMAIN others :
                                     others[i].id = Head(timers).id => Head(timers).id \in shared
    BY <1>1, <1>2, <1>5 DEF Apart
  <1> QED  BY <1>3, <1>4, <1>5 DEF r

\* A removal leaves no timer of an id that is not shared.
LEMMA UniqueErase ==
    ASSUME NEW timers \in Seq(Timer), NEW others \in Seq(Timer), NEW id
    PROVE  /\ Uniq(timers) => /\ Uniq(Erase(timers, id))
                              /\ id \notin shared =>
                                   \A i \in DOMAIN Erase(timers, id) :
                                     Erase(timers, id)[i].id # id
           /\ Apart(timers, others) => Apart(Erase(timers, id), others)
  <1> DEFINE r == Erase(timers, id)
  <1>1. CASE r = timers /\ \A i \in DOMAIN timers : timers[i].id # id
    BY <1>1
  <1>2. ASSUME NEW k \in DOMAIN timers, r \in Seq(Timer), timers[k].id = id,
               Len(r) = Len(timers) - 1,
               \A i \in 1 .. Len(timers) - 1 :
                 r[i] = IF i < k THEN timers[i] ELSE timers[i + 1]
        PROVE  /\ Uniq(timers) => /\ Uniq(r)
                                  /\ id \notin shared => \A i \in DOMAIN r : r[i].id # id
               /\ Apart(timers, others) => Apart(r, others)
    <2> DEFINE at(i) == IF i < k THEN i ELSE i + 1
    <2>1. k \in Nat /\ DOMAIN r = 1 .. Len(timers) - 1 /\ DOMAIN timers = 1 .. Len(timers)
          /\ Len(timers) \in Nat
      BY <1>2
    <2>2. \A i \in DOMAIN r : at(i) \in DOMAIN timers /\ r[i] = timers[at(i)] /\ at(i) # k
      BY <1>2, <2>1
    <2>3. \A i, j \in DOMAIN r : at(i) = at(j) => i = j
      BY <2>1
    <2> HIDE DEF at, r
    <2>4. Uniq(timers) => Uniq(r)
      BY <2>2, <2>3 DEF Uniq
    <2>5. ASSUME Uniq(timers), id \notin shared, NEW i \in DOMAIN r PROVE r[i].id # id
      BY <1>2, <2>2, <2>5 DEF Uniq
    <2>6. Apart(timers, others) => Apart(r, others)
      BY <2>2 DEF Apart
    <2> QED  BY <2>4, <2>5, <2>6
  <1> QED  BY <1>1, <1>2, EraseIs

LEMMA UniqueStays ==
    ASSUME UniqueInv, shared \subseteq shared', UNCHANGED <<m_timers, tasks, m_customTasks>>
    PROVE  UniqueInv'
  BY DEF UniqueInv, Uniq, Apart


LEMMA UniqueClose ==
    ASSUME TypeInv, UniqueInv, NEW s \in Sessions, NEW checking \in BOOLEAN,
           OnClose(s, checking)
    PROVE  UniqueInv'
  <1>1. PICK id : /\ \/ UNCHANGED m_timers
                     \/ m_timers' = Erase(m_timers, id)
                  /\ shared \subseteq shared'
    BY DEF OnClose, RemoveTimer
  <1>2. /\ UNCHANGED <<tasks, m_customTasks>> /\ m_timers \in Seq(Timer)
        /\ tasks \in Seq(Timer) /\ m_customTasks \in Seq(Timer)
    BY DEF OnClose, taskVars, TypeInv, TypeOK
  <1>3. /\ Uniq(m_timers') /\ Apart(m_timers', tasks) /\ Apart(m_timers', m_customTasks)
    BY <1>1, <1>2, UniqueErase DEF UniqueInv
  <1> QED  BY <1>1, <1>2, <1>3 DEF UniqueInv, Uniq, Apart

LEMMA UniqueNext ==
    ASSUME TypeInv, KnownInv, UniqueInv, [Next]_vars
    PROVE  UniqueInv'
  <1>0. m_timers \in Seq(Timer) /\ tasks \in Seq(Timer) /\ m_customTasks \in Seq(Timer)
    BY DEF TypeInv, TypeOK
  <1>1. CASE UNCHANGED vars
    BY <1>1, UniqueStays DEF vars, timerVars, taskVars, idVars
  <1>2. CASE \E s \in Sessions : Close(s)
    BY <1>2, UniqueClose DEF Close
  <1>3. CASE CallbackSendFails
    <2>1. This.s \in Sessions
      BY <1>3, ReminderAssumption DEF CallbackSendFails, OnClose
    <2> QED  BY <1>3, <2>1, UniqueClose DEF CallbackSendFails
  <1>4. CASE \E w \in Threads : IncrementID(w) \/ ReadID(w) \/ AssignTimerID(w) \/ SetIdle(w)
    BY <1>4, UniqueStays
       DEF IncrementID, ReadID, AssignTimerID, SetIdle, timerVars, taskVars, idVars
  <1>5. ASSUME NEW w \in Threads, AddTimer(w) PROVE UniqueInv'
    <2> DEFINE new == [id |-> frame[w].id, s |-> frame[w].s]
    <2>1. frame[w].at = "add" /\ new \in Timer /\ new.id = frame[w].id
      BY <1>5, AddEffect
    <2>2. /\ UNCHANGED <<tasks, shared>>
          /\ \/ m_timers' = Append(m_timers, new) /\ UNCHANGED m_customTasks
             \/ m_customTasks' = Append(m_customTasks, new) /\ UNCHANGED m_timers
      BY <1>5 DEF AddTimer, idVars
    <2>3. \A timer \in Timer : Held(timer) /\ timer.id = new.id => new.id \in shared
      BY <2>1 DEF KnownInv, FreshInv
    <2>4. /\ \A i \in DOMAIN m_timers : m_timers[i].id = new.id => new.id \in shared
          /\ \A i \in DOMAIN tasks : tasks[i].id = new.id => new.id \in shared
          /\ \A i \in DOMAIN m_customTasks :
               m_customTasks[i].id = new.id => new.id \in shared
      <3> HIDE DEF new
      <3> QED  BY <1>0, <2>3 DEF Held, In
    <2> HIDE DEF new
    <2>5. /\ Uniq(m_timers') /\ Uniq(m_customTasks') /\ Apart(m_timers', tasks)
          /\ Apart(m_timers', m_customTasks') /\ Apart(tasks, m_customTasks')
      BY <1>0, <2>1, <2>2, <2>4, UniqueAppend DEF UniqueInv
    <2> QED  BY <2>2, <2>5 DEF UniqueInv, Uniq, Apart
  <1>6. CASE \/ \E s \in Sessions : \/ Connect(s) \/ Deal(s) \/ Ready(s)
                                    \/ \E w \in Threads : Reset(w, s)
             \/ Emplace \/ SetInGame
    BY <1>6, UniqueStays
       DEF Connect, Deal, Ready, Reset, Emplace, SetInGame, timerVars, taskVars, idVars
  <1>7. CASE PassTimer \/ Callback \/ CallbackSends \/ CallbackRemoves \/ EndWalk
             \/ EndCheck \/ EndTasks
    BY <1>7, UniqueStays
       DEF PassTimer, Callback, CallbackSends, CallbackRemoves, EndWalk, EndCheck, EndTasks,
           timerVars, taskVars, idVars
  <1>8. CASE TakeTasks
    BY <1>8 DEF TakeTasks, timerVars, idVars, UniqueInv, Uniq, Apart
  <1>9. CASE RunAdd
    <2>1. /\ tasks # << >> /\ Head(tasks) \in Timer
          /\ m_timers' = Append(m_timers, Head(tasks)) /\ tasks' = Tail(tasks)
          /\ Tail(tasks) \in Seq(Timer) /\ UNCHANGED <<m_customTasks, shared>>
      BY <1>0, <1>9, TimersTypes DEF RunAdd, idVars, TypeInv
    <2>2. /\ Uniq(tasks') /\ Apart(m_timers, tasks') /\ Apart(tasks', m_customTasks)
          /\ \A i \in DOMAIN tasks' : tasks'[i].id = Head(tasks).id =>
                                        Head(tasks).id \in shared
          /\ \A i \in DOMAIN m_timers : m_timers[i].id = Head(tasks).id =>
                                        Head(tasks).id \in shared
          /\ \A i \in DOMAIN m_customTasks : m_customTasks[i].id = Head(tasks).id =>
                                        Head(tasks).id \in shared
      BY <1>0, <2>1, UniqueTail DEF UniqueInv
    <2>3. /\ Uniq(m_timers') /\ Apart(m_timers', tasks') /\ Apart(m_timers', m_customTasks)
      BY <1>0, <2>1, <2>2, UniqueAppend DEF UniqueInv
    <2> QED  BY <2>1, <2>2, <2>3 DEF UniqueInv, Uniq, Apart
  <1>10. CASE \E id \in TimerIDs : RemovePending(id)
    <2>1. PICK id : /\ m_timers' = Erase(m_timers, id)
                    /\ UNCHANGED <<tasks, m_customTasks, shared>>
      BY <1>10 DEF RemovePending, taskVars, idVars
    <2>2. /\ Uniq(m_timers') /\ Apart(m_timers', tasks) /\ Apart(m_timers', m_customTasks)
      BY <1>0, <2>1, UniqueErase DEF UniqueInv
    <2> QED  BY <2>1, <2>2 DEF UniqueInv, Uniq, Apart
  <1> QED  BY <1>1, <1>2, <1>3, <1>4, <1>5, <1>6, <1>7, <1>8, <1>9, <1>10
           DEF Next, NotifyUserToBeReady, Turn

LEMMA UniqueInvariant == Spec => []UniqueInv
  <1>1. Init => UniqueInv
    BY DEF Init, UniqueInv, Uniq, Apart
  <1> QED  BY <1>1, TypeInvariant, KnownInvariant, UniqueNext, PTL DEF Spec

\* The one id that s was given is its own.
Alone(s) == made[s] \cap shared = {} /\ \E x \in TimerIDs : made[s] = {x}

\* Nothing more is added for a session that closed in order, and its timer, if
\* it is still there, is about to be removed.
Silent(s) ==
    /\ \A timer \in Timer : timer.s = s => ~ In(timer, tasks) /\ ~ In(timer, m_customTasks)
    /\ \A w \in Threads : frame[w].at = "add" => frame[w].s # s
    /\ InstalledFor(s) =>
         \/ pc \in {"check", "send", "remove"} /\ made[s] \subseteq m_pendingRemoveTimers
         \/ pc = "ends" /\ made[s] \subseteq removing

SilentInv == \A s \in settled : made[s] # {} /\ (Alone(s) => Silent(s))

\* Ids are only added: who is alone was so before.
LEMMA AloneBefore ==
    ASSUME TypeInv, NEW s \in Sessions, made[s] # {}, made[s] \subseteq made'[s],
           shared \subseteq shared', Alone(s)'
    PROVE  Alone(s) /\ made'[s] = made[s]
  <1>1. PICK x \in TimerIDs : made'[s] = {x}
    BY DEF Alone
  <1>2. made[s] = {x}
    BY <1>1
  <1> QED  BY <1>1, <1>2 DEF Alone

\* The steps that add no timer and do not end the walk.
LEMMA SilentStays ==
    ASSUME TypeInv, SilentInv, NEW s \in settled,
           UNCHANGED <<made, m_customTasks, removing>>, shared \subseteq shared',
           Alone(s)',
           m_pendingRemoveTimers \subseteq m_pendingRemoveTimers',
           \A timer \in Timer : /\ In(timer, m_timers') => In(timer, m_timers)
                                /\ In(timer, tasks') => In(timer, tasks),
           m_timers' \in Seq(Timer),
           \A w \in Threads : frame'[w] = frame[w] \/ frame'[w].at # "add",
           \/ pc' = pc
           \/ pc \in {"check", "send", "remove"} /\ pc' \in {"check", "send", "remove"}
           \/ ~ InstalledFor(s)
    PROVE  Silent(s)'
  <1>0. s \in Sessions
    BY DEF TypeInv, TypeOK
  <1>1. Alone(s) /\ Silent(s)
    BY <1>0, AloneBefore DEF SilentInv
  <1>2. \A timer \in Timer : timer.s = s => ~ In(timer, tasks') /\ ~ In(timer, m_customTasks')
    BY <1>1 DEF Silent
  <1>3. \A w \in Threads : frame'[w].at = "add" => frame'[w].s # s
    BY <1>1 DEF Silent
  <1>4. InstalledFor(s)' => InstalledFor(s)
    <2> SUFFICES ASSUME InstalledFor(s)' PROVE InstalledFor(s)
      OBVIOUS
    <2>1. PICK i \in DOMAIN m_timers' : m_timers'[i].s = s
      BY DEF InstalledFor
    <2>2. m_timers'[i] \in Timer /\ In(m_timers'[i], m_timers')
      BY <2>1 DEF In
    <2>3. In(m_timers'[i], m_timers)
      BY <2>2
    <2> QED  BY <2>1, <2>3 DEF In, InstalledFor
  <1>5. InstalledFor(s)' =>
          \/ pc' \in {"check", "send", "remove"} /\ made'[s] \subseteq m_pendingRemoveTimers'
          \/ pc' = "ends" /\ made'[s] \subseteq removing'
    BY <1>1, <1>4 DEF Silent
  <1> QED  BY <1>2, <1>3, <1>5 DEF Silent

\* Where a timer of that id is erased, no other of the session is left.
LEMMA EraseSilences ==
    ASSUME TypeInv, KnownInv, UniqueInv, NEW s \in Sessions, NEW id,
           made[s] = {id}, id \notin shared, m_timers' = Erase(m_timers, id)
    PROVE  ~ InstalledFor(s)'
  <1>1. m_timers \in Seq(Timer) /\ m_timers' \in Seq(Timer)
    BY EraseIs DEF TypeInv, TypeOK
  <1>2. \A i \in DOMAIN m_timers' : m_timers'[i].id # id
    BY <1>1, UniqueErase DEF UniqueInv
  <1>3. ASSUME NEW i \in DOMAIN m_timers', m_timers'[i].s = s PROVE FALSE
    <2>1. m_timers'[i] \in Timer /\ In(m_timers'[i], m_timers')
      BY <1>1, <1>3 DEF In
    <2>2. Held(m_timers'[i])
      BY <1>1, <2>1, EraseKeepsOthers DEF Held
    <2>3. m_timers'[i].id \in made[s]
      BY <1>3, <2>1, <2>2 DEF KnownInv, MadeInv
    <2> QED  BY <1>2, <1>3, <2>3
  <1> QED  BY <1>3 DEF InstalledFor

LEMMA SilentClose ==
    ASSUME TypeInv, KnownInv, UniqueInv, SilentInv, NEW t \in Sessions,
           NEW checking \in BOOLEAN, OnClose(t, checking),
           IF checking THEN pc = "send" /\ pc' = "check" ELSE pc' = pc
    PROVE  SilentInv'
  <1>1. PICK id \in IF m_timerID[t] = Unset THEN TimerIDs \cup {Unset} ELSE {m_timerID[t]} :
          /\ IF checking
             THEN /\ m_pendingRemoveTimers' = m_pendingRemoveTimers \cup ({id} \ {Unset})
                  /\ UNCHANGED m_timers
             ELSE m_timers' = Erase(m_timers, id) /\ UNCHANGED m_pendingRemoveTimers
          /\ shared' = IF m_timerID[t] = Unset THEN shared \cup ({id} \ {Unset})
                       ELSE shared
    BY DEF OnClose, RemoveTimer
  <1>2. /\ UNCHANGED <<made, frame, removing, tasks, m_customTasks>>
        /\ m_timers \in Seq(Timer) /\ m_timers' \in Seq(Timer)
        /\ settled' = IF t \notin closed /\ InstalledFor(t) /\ made[t] = {m_timerID[t]}
                      THEN settled \cup {t} ELSE settled
        /\ settled \subseteq closed /\ closed \subseteq Sessions
    BY <1>1, EraseIs DEF OnClose, taskVars, TypeInv, TypeOK
  <1>3. ASSUME NEW s \in settled, Alone(s)' PROVE Silent(s)'
    <2>1. \A timer \in Timer : In(timer, m_timers') => In(timer, m_timers)
      BY <1>1, <1>2, EraseKeepsOthers
    <2>2. /\ m_pendingRemoveTimers \subseteq m_pendingRemoveTimers' /\ shared \subseteq shared'
          /\ \/ pc' = pc
             \/ pc \in {"check", "send", "remove"} /\ pc' \in {"check", "send", "remove"}
      BY <1>1
    <2> QED  BY <1>2, <1>3, <2>1, <2>2, SilentStays
  <1>4. ASSUME t \notin settled, t \in settled', Alone(t)' PROVE Silent(t)'
    <2>1. InstalledFor(t) /\ made[t] = {m_timerID[t]}
      BY <1>2, <1>4
    <2>2. m_timerID[t] \in TimerIDs /\ m_timerID[t] # Unset
      <3>1. m_timerID[t] \in TimerIDs
        BY <2>1, MadeIDs
      <3> QED  BY <3>1, ReminderAssumption DEF TimerIDs, Unset
    <2>3. id = m_timerID[t] /\ shared' = shared /\ id \notin shared /\ id # Unset
          /\ made[t] = {id}
      BY <1>1, <1>2, <1>4, <2>1, <2>2 DEF Alone
    <2>4. PICK i \in DOMAIN m_timers : m_timers[i].s = t
      BY <2>1 DEF InstalledFor
    <2>5. m_timers[i] \in Timer /\ Held(m_timers[i]) /\ m_timers[i].id = id
      <3>1. m_timers[i] \in Timer /\ Held(m_timers[i])
        BY <1>2, <2>4 DEF Held, In
      <3> QED  BY <2>3, <2>4, <3>1 DEF KnownInv, MadeInv
    <2>6. ASSUME NEW timer \in Timer, timer.s = t, In(timer, tasks) \/ In(timer, m_customTasks)
          PROVE  FALSE
      <3>1. timer.id = id
        BY <2>3, <2>6 DEF KnownInv, MadeInv, Held
      <3>2. CASE In(timer, tasks)
        BY <2>3, <2>5, <3>1, <3>2 DEF In, UniqueInv, Apart
      <3>3. CASE In(timer, m_customTasks)
        BY <2>3, <2>5, <3>1, <3>3 DEF In, UniqueInv, Apart
      <3> QED  BY <2>6, <3>2, <3>3
    <2>7. ASSUME NEW w \in Threads, frame[w].at = "add", frame[w].s = t PROVE FALSE
      <3>1. frame[w].id = id
        BY <2>3, <2>7 DEF KnownInv, MadeInv
      <3> QED  BY <2>3, <2>5, <2>7, <3>1 DEF KnownInv, FreshInv
    <2>8. InstalledFor(t)' => pc' = "check" /\ made'[t] \subseteq m_pendingRemoveTimers'
      <3>1. CASE checking
        BY <1>1, <1>2, <2>3, <3>1
      <3>2. CASE ~ checking
        BY <1>1, <2>3, <3>2, EraseSilences
      <3> QED  BY <3>1, <3>2
    <2> QED  BY <1>2, <2>6, <2>7, <2>8 DEF Silent
  <1>5. \A s \in settled' : made'[s] # {}
    BY <1>2 DEF SilentInv
  <1> QED  BY <1>2, <1>3, <1>4, <1>5 DEF SilentInv

LEMMA SilentNotify ==
    ASSUME TypeInv, SilentInv, NEW w \in Threads, NotifyUserToBeReady(w)
    PROVE  SilentInv'
  <1>1. /\ frame \in [Threads -> Frame] /\ frame[w].s \in Sessions
        /\ m_timers \in Seq(Timer) /\ m_customTasks \in Seq(Timer)
        /\ made \in [Sessions -> SUBSET TimerIDs] /\ settled \subseteq Sessions
    BY FrameFields
       DEF TypeInv, TypeOK, NotifyUserToBeReady, IncrementID, ReadID, AddTimer,
           AssignTimerID, At
  <1>2. UNCHANGED <<pc, settled, tasks, m_pendingRemoveTimers, removing>>
    BY DEF NotifyUserToBeReady, IncrementID, ReadID, AddTimer, AssignTimerID, loopVars,
           timerVars, taskVars, closeVars
  <1>3. CASE IncrementID(w) \/ AssignTimerID(w)
    <2>1. UNCHANGED <<made, shared, m_timers, m_customTasks>>
      BY <1>3 DEF IncrementID, AssignTimerID, idVars, timerVars, taskVars
    <2>2. \A v \in Threads : frame'[v] = frame[v] \/ frame'[v].at # "add"
      BY <1>1, <1>3 DEF IncrementID, AssignTimerID, GoTo, Idle
    <2>3. ASSUME NEW s \in settled, Alone(s)' PROVE Silent(s)'
      BY <1>1, <1>2, <2>1, <2>2, <2>3, SilentStays
    <2> QED  BY <1>2, <2>1, <2>3 DEF SilentInv
  <1>4. CASE ReadID(w)
    <2> DEFINE s0 == frame[w].s
    <2>1. /\ made' = [made EXCEPT ![s0] = @ \cup {baseID}]
          /\ shared' = IF \E t \in Sessions : baseID \in made[t]
                       THEN shared \cup {baseID} ELSE shared
          /\ UNCHANGED <<m_timers, m_customTasks>>
      BY <1>4 DEF ReadID, timerVars, taskVars
    <2>2. /\ frame'[w].s = s0 /\ \A v \in Threads : v # w => frame'[v] = frame[v]
      BY <1>1, <1>4 DEF ReadID, GoTo
    <2>3. /\ made'[s0] = made[s0] \cup {baseID}
          /\ \A s \in Sessions : s # s0 => made'[s] = made[s]
      BY <1>1, <2>1
    <2> HIDE DEF s0
    <2>4. ASSUME NEW s \in settled PROVE made'[s] # {} /\ (Alone(s)' => Silent(s)')
      <3>1. s \in Sessions /\ made[s] # {} /\ made[s] \subseteq made'[s]
        BY <1>1, <2>3 DEF SilentInv
      <3>2. ASSUME Alone(s)' PROVE Silent(s)'
        <4>1. Alone(s) /\ made'[s] = made[s]
          BY <2>1, <3>1, <3>2, AloneBefore
        <4>2. s # s0
          <5> SUFFICES ASSUME s = s0 PROVE FALSE
            OBVIOUS
          <5>1. baseID \in made'[s] /\ baseID \in made[s]
            BY <2>3, <4>1
          <5>2. baseID \in shared'
            BY <2>1, <3>1, <5>1
          <5> QED  BY <3>2, <5>1, <5>2 DEF Alone
        <4>3. Silent(s)
          BY <4>1 DEF SilentInv
        <4>4. \A v \in Threads : frame'[v].at = "add" => frame'[v].s # s
          BY <2>2, <4>2, <4>3 DEF Silent
        <4> QED  BY <1>2, <2>1, <4>1, <4>3, <4>4 DEF Silent, InstalledFor
      <3> QED  BY <3>1, <3>2
    <2> QED  BY <1>2, <2>4 DEF SilentInv
  <1>5. CASE AddTimer(w)
    <2> DEFINE new == [id |-> frame[w].id, s |-> frame[w].s]
    <2>1. /\ frame[w].at = "add" /\ new \in Timer /\ new.s = frame[w].s
          /\ frame'[w].at = "assign"
          /\ \A v \in Threads : v # w => frame'[v] = frame[v]
      BY <1>5, AddEffect
    <2>2. /\ UNCHANGED <<made, shared>>
          /\ \/ m_timers' = Append(m_timers, new) /\ UNCHANGED m_customTasks
             \/ m_customTasks' = Append(m_customTasks, new) /\ UNCHANGED m_timers
      BY <1>5 DEF AddTimer, idVars
    <2> HIDE DEF new
    <2>3. ASSUME NEW s \in settled, Alone(s)' PROVE Silent(s)'
      <3>1. Alone(s) /\ Silent(s)
        BY <2>2, <2>3 DEF Alone, SilentInv
      <3>2. new.s # s
        BY <2>1, <3>1 DEF Silent
      <3>3. InstalledFor(s)' => InstalledFor(s)
        <4>1. CASE m_timers' = Append(m_timers, new)
          BY <1>1, <2>1, <3>2, <4>1, AppendKeeps DEF InstalledFor
        <4> QED  BY <2>2, <4>1 DEF InstalledFor
      <3>4. \A timer \in Timer : timer.s = s => ~ In(timer, tasks') /\ ~ In(timer, m_customTasks')
        <4>1. CASE m_customTasks' = Append(m_customTasks, new)
          BY <1>1, <1>2, <2>1, <3>1, <3>2, <4>1, AppendIn DEF Silent
        <4> QED  BY <1>2, <2>2, <3>1, <4>1 DEF Silent
      <3>5. \A v \in Threads : frame'[v].at = "add" => frame'[v].s # s
        BY <2>1, <3>1 DEF Silent
      <3> QED  BY <1>2, <2>2, <3>1, <3>3, <3>4, <3>5 DEF Silent
    <2> QED  BY <1>2, <2>2, <2>3 DEF SilentInv
  <1> QED  BY <1>3, <1>4, <1>5 DEF NotifyUserToBeReady

LEMMA SilentLoop ==
    ASSUME TypeInv, KnownInv, UniqueInv, SilentInv, Turn, ~ CallbackSendFails
    PROVE  SilentInv'
  <1>1. UNCHANGED <<made, m_timerID, shared, frame, settled>>
    BY DEF Turn, PassTimer, Callback, CallbackSends, CallbackRemoves, EndWalk, RemovePending,
           EndCheck, TakeTasks, RunAdd, EndTasks, idVars, closeVars
  <1>2. settled \subseteq Sessions /\ m_timers \in Seq(Timer) /\ tasks \in Seq(Timer)
    BY DEF TypeInv, TypeOK
  <1> SUFFICES ASSUME NEW s \in settled, Alone(s)' PROVE Silent(s)'
    BY <1>1 DEF SilentInv
  <1>3. Alone(s) /\ Silent(s) /\ s \in Sessions
    BY <1>1, <1>2 DEF Alone, SilentInv
  <1>4. CASE PassTimer \/ Callback \/ CallbackSends \/ CallbackRemoves
    BY <1>1, <1>2, <1>4, SilentStays
       DEF PassTimer, Callback, CallbackSends, CallbackRemoves, BackToWalk, AtTimer,
           timerVars, taskVars
  <1>5. CASE EndWalk
    BY <1>1, <1>3, <1>5 DEF EndWalk, taskVars, Silent, InstalledFor
  <1>6. CASE EndCheck
    <2>1. made[s] # {} /\ removing = {} /\ pc = "ends"
      BY <1>6 DEF EndCheck, SilentInv
    <2>2. ~ InstalledFor(s)
      BY <1>3, <2>1 DEF Silent
    <2> QED  BY <1>1, <1>2, <1>6, <2>2, SilentStays DEF EndCheck, timerVars, taskVars
  <1>7. CASE TakeTasks
    <2>1. ~ InstalledFor(s)
      BY <1>3, <1>7 DEF TakeTasks, Silent
    <2>2. \A timer : ~ In(timer, << >>)
      BY DEF In
    <2> QED  BY <1>1, <1>3, <1>7, <2>1, <2>2 DEF TakeTasks, timerVars, Silent, InstalledFor
  <1>8. CASE RunAdd
    <2>1. /\ tasks # << >> /\ Head(tasks) \in Timer /\ pc = "tasks" /\ pc' = pc
          /\ m_timers' = Append(m_timers, Head(tasks)) /\ tasks' = Tail(tasks)
          /\ UNCHANGED <<m_customTasks, m_pendingRemoveTimers, removing>>
      BY <1>8, TimersTypes DEF RunAdd, loopVars, TypeInv
    <2>2. Head(tasks).s # s
      <3>1. In(Head(tasks), tasks)
        BY <1>2, <2>1, HeadIn
      <3> QED  BY <1>3, <2>1, <3>1 DEF Silent
    <2>3. ~ InstalledFor(s)'
      <3>1. ~ InstalledFor(s)
        BY <1>3, <2>1 DEF Silent
      <3> QED  BY <1>2, <2>1, <2>2, <3>1, AppendKeeps DEF InstalledFor
    <2>4. \A timer \in Timer : In(timer, tasks') => In(timer, tasks)
      BY <1>2, <2>1, HeadIn
    <2> QED  BY <1>1, <1>3, <2>1, <2>3, <2>4 DEF Silent
  <1>9. CASE EndTasks
    <2>1. ~ InstalledFor(s)
      BY <1>3, <1>9 DEF EndTasks, Silent
    <2> QED  BY <1>1, <1>2, <1>9, <2>1, SilentStays DEF EndTasks, timerVars, taskVars
  <1>10. CASE \E id \in TimerIDs : RemovePending(id)
    <2>1. PICK id \in TimerIDs : RemovePending(id)
      BY <1>10
    <2>2. /\ m_timers' = Erase(m_timers, id) /\ removing' = removing \ {id}
          /\ pc = "ends" /\ pc' = "ends"
          /\ UNCHANGED <<m_pendingRemoveTimers, tasks, m_customTasks>>
      BY <2>1 DEF RemovePending, taskVars, loopVars
    <2>3. PICK x \in TimerIDs : made[s] = {x} /\ x \notin shared
      BY <1>3 DEF Alone
    <2>4. CASE x = id
      <3>1. ~ InstalledFor(s)'
        BY <1>3, <2>2, <2>3, <2>4, EraseSilences
      <3> QED  BY <1>1, <1>3, <2>2, <3>1 DEF Silent
    <2>5. CASE x # id
      <3>1. InstalledFor(s)' => InstalledFor(s)
        <4> SUFFICES ASSUME InstalledFor(s)' PROVE InstalledFor(s)
          OBVIOUS
        <4>1. PICK i \in DOMAIN m_timers' : m_timers'[i].s = s
          BY DEF InstalledFor
        <4>2. In(m_timers'[i], m_timers)
          BY <1>2, <2>2, <4>1, EraseKeepsOthers DEF In
        <4> QED  BY <4>1, <4>2 DEF In, InstalledFor
      <3> QED  BY <1>1, <1>3, <2>2, <2>3, <2>5, <3>1 DEF Silent
    <2> QED  BY <2>4, <2>5
  <1> QED  BY <1>4, <1>5, <1>6, <1>7, <1>8, <1>9, <1>10 DEF Turn

LEMMA SilentNext ==
    ASSUME TypeInv, KnownInv, UniqueInv, SilentInv, [Next]_vars
    PROVE  SilentInv'
  <1>0. m_timers \in Seq(Timer) /\ frame \in [Threads -> Frame] /\ "base" \in Threads
        /\ settled \subseteq Sessions
    BY DEF TypeInv, TypeOK, Threads
  <1>1. ASSUME UNCHANGED <<made, shared, pc, m_timers, tasks, m_customTasks,
                           m_pendingRemoveTimers, removing, settled>>,
               \A w \in Threads : frame'[w] = frame[w] \/ frame'[w].at # "add"
        PROVE  SilentInv'
    <2>1. ASSUME NEW s \in settled, Alone(s)' PROVE Silent(s)'
      BY <1>0, <1>1, <2>1, SilentStays
    <2> QED  BY <1>1, <2>1 DEF SilentInv
  <1>2. CASE UNCHANGED vars
    BY <1>1, <1>2 DEF vars, loopVars, timerVars, taskVars, idVars, closeVars
  <1>3. CASE \E s \in Sessions : Close(s)
    BY <1>3, SilentClose DEF Close, loopVars
  <1>4. CASE CallbackSendFails
    <2>1. This.s \in Sessions
      BY <1>4, ReminderAssumption DEF CallbackSendFails, OnClose
    <2> QED  BY <1>4, <2>1, SilentClose DEF CallbackSendFails, BackToWalk
  <1>5. CASE \/ \E w \in Threads : SetIdle(w)
             \/ \E s \in Sessions : \/ Connect(s) \/ Deal(s) \/ Ready(s)
                                    \/ \E w \in Threads : Reset(w, s)
             \/ Emplace \/ SetInGame
    <2>1. UNCHANGED <<made, shared, pc, m_timers, tasks, m_customTasks,
                      m_pendingRemoveTimers, removing, settled>>
      BY <1>5 DEF SetIdle, Connect, Deal, Ready, Reset, Emplace, SetInGame, loopVars,
                  timerVars, taskVars, idVars, closeVars
    <2>2. \A w \in Threads : frame'[w] = frame[w] \/ frame'[w].at # "add"
      BY <1>0, <1>5 DEF SetIdle, Connect, Deal, Ready, Reset, Emplace, SetInGame, GoTo, Idle
    <2> QED  BY <1>1, <2>1, <2>2
  <1>6. CASE Turn /\ ~ CallbackSendFails
    BY <1>6, SilentLoop
  <1> QED  BY <1>2, <1>3, <1>4, <1>5, <1>6, SilentNotify DEF Next

\* A session that closed with its one timer installed and known to it leaves
\* none behind, even from within the walk.
THEOREM SettledAlwaysSilent == Spec => []SettledStaySilent
  <1>1. Init => SilentInv
    BY DEF Init, SilentInv
  <1>2. TypeInv /\ SilentInv => SettledStaySilent
    <2> SUFFICES ASSUME TypeInv, SilentInv, NEW s \in settled, made[s] \cap shared = {},
                        pc \notin {"check", "send", "remove", "ends"},
                        Cardinality(made[s]) = 1
                 PROVE  ~ InstalledFor(s)
      BY DEF SettledStaySilent
    <2>1. s \in Sessions
      BY DEF TypeInv, TypeOK
    <2>2. made[s] # {} /\ made[s] \subseteq TimerIDs /\ IsFiniteSet(made[s])
      <3>1. made[s] \subseteq 1 .. MaxTimers
        BY <2>1, MadeIDs DEF TimerIDs
      <3>2. IsFiniteSet(1 .. MaxTimers)
        BY FS_Interval, ReminderAssumption
      <3> QED  BY <3>1, <3>2, FS_Subset DEF SilentInv, TimerIDs
    <2>3. PICK x : made[s] = {x}
      BY <2>2, FS_Singleton
    <2>4. Alone(s)
      BY <2>2, <2>3 DEF Alone
    <2> QED  BY <2>4 DEF SilentInv, Silent
  <1> QED  BY <1>1, <1>2, TypeInvariant, KnownInvariant, UniqueInvariant, SilentNext, PTL
           DEF Spec

=============================================================================
