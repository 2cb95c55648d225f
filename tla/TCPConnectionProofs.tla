-------------------------- MODULE TCPConnectionProofs --------------------------
(***************************************************************************)
(* Theorems about TCPConnection, for all lengths, windows and bounds.      *)
(***************************************************************************)
EXTENDS TCPConnection, SequenceTheorems, TLAPS

-----------------------------------------------------------------------------
(* Epoll.                                                                  *)

\* The kernel knows no event that Epoll has not recorded.  The converse is
\* false: the destructor leaves the record behind.
RecordCovers ==
    /\ m_fdEventFlags \subseteq {"EPOLLIN"}
    /\ registered \subseteq m_fdEventFlags
    /\ failure # "add"

LEMMA RegisterKeepsRecord == RecordCovers /\ RegisterReadEvent => RecordCovers'
  <1>1. CASE "EPOLLIN" \in m_fdEventFlags
    BY <1>1 DEF RecordCovers, RegisterReadEvent, epollVars
  <1>2. CASE "EPOLLIN" \notin m_fdEventFlags
    BY <1>2 DEF RecordCovers, RegisterReadEvent
  <1> QED  BY <1>1, <1>2

LEMMA CloseKeepsRecord == RecordCovers /\ OnClose => RecordCovers'
  <1> SUFFICES ASSUME RecordCovers, OnClose PROVE RecordCovers'
    OBVIOUS
  <1>1. m_fdEventFlags' = {} /\ (failure' = "del" \/ failure' = failure)
    BY DEF OnClose, UnregisterReadWriteEvent
  <1>2. registered' = {}
    BY DEF RecordCovers, OnClose, UnregisterReadWriteEvent
  <1> QED  BY <1>1, <1>2 DEF RecordCovers

\* epoll_ctl never adds a descriptor twice.
THEOREM AddNeverFailsAlways == Spec => []AddNeverFails
  <1>1. Init => RecordCovers
    BY DEF Init, RecordCovers
  <1>2. RecordCovers /\ [Next]_vars => RecordCovers'
    <2> SUFFICES ASSUME RecordCovers, [Next]_vars PROVE RecordCovers'
      OBVIOUS
    <2>1. CASE Connect \/ SendBlocked
      BY <2>1, RegisterKeepsRecord DEF Connect, SendBlocked, RegisterWriteEvent
    <2>2. CASE SendFails \/ OnReadEnd
      BY <2>2, CloseKeepsRecord DEF SendFails, OnReadEnd
    <2>3. CASE ReadReturns
      <3>1. CASE OnClose
        BY <3>1, CloseKeepsRecord
      <3>2. CASE UNCHANGED <<sessionVars, epollVars, failure>>
        BY <3>2 DEF RecordCovers, epollVars
      <3> QED  BY <2>3, <3>1, <3>2 DEF ReadReturns
    <2>4. CASE ClearPending
      BY <2>4 DEF ClearPending, RecordCovers
    <2>5. CASE OnReadUnset \/ UseFreed
      BY <2>5 DEF OnReadUnset, UseFreed, RecordCovers, epollVars
    <2>6. CASE MakeSession \/ Emplace \/ RunTask \/ OnRead \/ PeerReads \/ PeerLeaves
      BY <2>6 DEF MakeSession, Emplace, RunTask, OnRead, PeerReads, PeerLeaves,
         RecordCovers, epollVars
    <2>7. CASE \E len \in Lengths : SendWelcomeMsg(len) \/ Post(len) \/ OwnSend(len)
      BY <2>7 DEF SendWelcomeMsg, Post, OwnSend, RecordCovers, epollVars
    <2>8. CASE \E n \in 1 .. Window : SendSome(n)
      BY <2>8 DEF SendSome, RecordCovers, epollVars
    <2>9. CASE UNCHANGED vars
      BY <2>9 DEF vars, RecordCovers, epollVars
    <2> QED
      BY <2>1, <2>2, <2>3, <2>4, <2>5, <2>6, <2>7, <2>8, <2>9 DEF Next, SendStep
  <1>3. RecordCovers => AddNeverFails
    BY DEF RecordCovers, AddNeverFails
  <1> QED  BY <1>1, <1>2, <1>3, PTL DEF Spec

-----------------------------------------------------------------------------
(* The stream.                                                             *)

\* The numbers of bytes; kept folded, so that a sequence of them is a sequence
\* over some set.
Number == Nat

Message == [conn : Nat, len : Nat]

StreamInv ==
    /\ handed \in Nat
    /\ m_sendBuf \in Seq(Number) /\ kernel \in Seq(Number) /\ got \in Seq(Number)
    /\ conns \in Nat /\ tasks \in Seq(Message)
    /\ StreamIntact

\* Numbers that continue a count continue the sequence of it.
LEMMA CountOn ==
    ASSUME NEW m \in Nat, NEW len \in Nat
    PROVE  [i \in 1 .. m |-> i] \o [i \in 1 .. len |-> m + i] = [i \in 1 .. m + len |-> i]
  <1> DEFINE s == [i \in 1 .. m |-> i]
             t == [i \in 1 .. len |-> m + i]
             u == [i \in 1 .. m + len |-> i]
  <1>1. s \in Seq(Nat) /\ t \in Seq(Nat) /\ u \in Seq(Nat)
    OBVIOUS
  <1>2. Len(s) = m /\ Len(t) = len /\ Len(u) = m + len
    OBVIOUS
  <1>3. s \o t \in Seq(Nat) /\ Len(s \o t) = m + len
    BY <1>1, <1>2, ConcatProperties
  <1>4. ASSUME NEW i \in 1 .. m + len PROVE (s \o t)[i] = u[i]
    <2>1. (s \o t)[i] = IF i <= m THEN s[i] ELSE t[i - m]
      BY <1>1, <1>2, ConcatProperties
    <2> QED  BY <2>1
  <1> HIDE DEF s, t, u
  <1>5. s \o t = u
    BY <1>1, <1>2, <1>3, <1>4, SeqEqual
  <1> QED  BY <1>5 DEF s, t, u

\* A sequence is its first n elements and the others.
LEMMA Split ==
    ASSUME NEW s \in Seq(Number), NEW n \in 1 .. Len(s)
    PROVE  /\ SubSeq(s, 1, n) \in Seq(Number) /\ SubSeq(s, n + 1, Len(s)) \in Seq(Number)
           /\ SubSeq(s, 1, n) \o SubSeq(s, n + 1, Len(s)) = s
  <1>1. SubSeq(s, 1, n) \in Seq(Number) /\ SubSeq(s, n + 1, Len(s)) \in Seq(Number)
    BY SubSeqProperties, ElementOfSeq
  <1>2. SubSeq(s, 1, n) \o SubSeq(s, n + 1, Len(s)) = SubSeq(s, 1, Len(s))
    BY ConcatAdjacentSubSeq
  <1> QED  BY <1>1, <1>2, SubSeqFull

\* Concatenation may be regrouped.
LEMMA Regroup3 ==
    ASSUME NEW a \in Seq(Number), NEW b \in Seq(Number), NEW c \in Seq(Number)
    PROVE  (a \o b) \o c = a \o (b \o c)
  OBVIOUS

\* A message that is handed over lengthens the stream by its bytes.
LEMMA StartSendKeepsStream ==
    ASSUME StreamInv, NEW len \in Nat, StartSend(len), UNCHANGED conns, tasks' \in Seq(Message)
    PROVE  StreamInv'
  <1> DEFINE text == [i \in 1 .. len |-> handed + i]
  <1>1. text \in Seq(Number) /\ handed' \in Nat
    BY DEF StreamInv, StartSend, Number
  <1>2. m_sendBuf' = m_sendBuf \o text /\ UNCHANGED <<kernel, got>>
    BY DEF StartSend
  <1>3. [i \in 1 .. handed |-> i] \o text = [i \in 1 .. handed' |-> i]
    BY CountOn DEF StreamInv, StartSend
  <1> HIDE DEF text
  <1>4. got \o kernel \o (m_sendBuf \o text) = (got \o kernel \o m_sendBuf) \o text
    <2> DEFINE sent == got \o kernel
    <2>1. sent \in Seq(Number) /\ m_sendBuf \in Seq(Number)
      BY ConcatProperties DEF StreamInv
    <2> HIDE DEF sent
    <2>2. sent \o (m_sendBuf \o text) = (sent \o m_sendBuf) \o text
      BY <1>1, <2>1, Regroup3
    <2> QED  BY <2>2 DEF sent
  <1>5. StreamIntact'
    BY <1>2, <1>3, <1>4 DEF StreamInv, StreamIntact
  <1>6. m_sendBuf' \in Seq(Number)
    BY <1>1, <1>2, ConcatProperties DEF StreamInv
  <1> QED  BY <1>1, <1>2, <1>5, <1>6 DEF StreamInv

\* What ::send takes moves from m_sendBuf to the kernel.
LEMMA SendSomeKeepsStream ==
    ASSUME StreamInv, NEW n \in 1 .. Window, SendSome(n)
    PROVE  StreamInv'
  <1> DEFINE head == SubSeq(m_sendBuf, 1, n)
             rest == SubSeq(m_sendBuf, n + 1, Len(m_sendBuf))
  <1>1. head \in Seq(Number) /\ rest \in Seq(Number) /\ head \o rest = m_sendBuf
    <2>1. n \in 1 .. Len(m_sendBuf) /\ m_sendBuf \in Seq(Number)
      BY ConnAssumption DEF StreamInv, SendSome
    <2> QED  BY <2>1, Split
  <1>2. kernel' = kernel \o head /\ m_sendBuf' = rest /\ UNCHANGED <<handed, got, tasks, conns>>
    BY DEF SendSome, baseVars
  <1> HIDE DEF head, rest
  <1>3. got \o (kernel \o head) \o rest = got \o kernel \o (head \o rest)
    <2> DEFINE sent == got \o kernel
    <2>1. got \in Seq(Number) /\ kernel \in Seq(Number)
      BY DEF StreamInv
    <2>2. got \o (kernel \o head) = sent \o head
      BY <1>1, <2>1, Regroup3
    <2>3. sent \in Seq(Number)
      BY <2>1, ConcatProperties
    <2> HIDE DEF sent
    <2>4. (sent \o head) \o rest = sent \o (head \o rest)
      BY <1>1, <2>3, Regroup3
    <2> QED  BY <2>2, <2>4 DEF sent
  <1>4. StreamIntact'
    BY <1>1, <1>2, <1>3 DEF StreamInv, StreamIntact
  <1>5. kernel' \in Seq(Number)
    BY <1>1, <1>2, ConcatProperties DEF StreamInv
  <1> QED  BY <1>1, <1>2, <1>4, <1>5 DEF StreamInv

\* What the client reads moves from the kernel to the client.
LEMMA PeerReadsKeepsStream ==
    ASSUME StreamInv, PeerReads
    PROVE  StreamInv'
  <1>1. /\ Head(kernel) \in Number /\ Tail(kernel) \in Seq(Number)
        /\ <<Head(kernel)>> \o Tail(kernel) = kernel
    BY HeadTailProperties DEF StreamInv, PeerReads
  <1>2. /\ got' = got \o <<Head(kernel)>> /\ kernel' = Tail(kernel)
        /\ UNCHANGED <<handed, m_sendBuf, tasks, conns>>
    BY <1>1 DEF StreamInv, PeerReads, baseVars
  <1>3. <<Head(kernel)>> \in Seq(Number)
    BY <1>1
  <1>4. (got \o <<Head(kernel)>>) \o Tail(kernel) = got \o kernel
    <2>1. kernel \in Seq(Number) /\ got \in Seq(Number)
      BY DEF StreamInv
    <2>2. (got \o <<Head(kernel)>>) \o Tail(kernel) = got \o (<<Head(kernel)>> \o Tail(kernel))
      BY <1>1, <1>3, <2>1, Regroup3
    <2> QED  BY <1>1, <2>2
  <1>5. StreamIntact'
    BY <1>2, <1>4 DEF StreamInv, StreamIntact
  <1>6. got' \in Seq(Number)
    BY <1>2, <1>3, ConcatProperties DEF StreamInv
  <1> QED  BY <1>1, <1>2, <1>5, <1>6 DEF StreamInv

\* StreamInv is inductive; so the client's bytes are always in order.
THEOREM StreamAlwaysIntact == Spec => []StreamIntact
  <1>1. Init => StreamInv
    BY DEF Init, StreamInv, StreamIntact
  <1>2. StreamInv /\ [Next]_vars => StreamInv'
    <2> SUFFICES ASSUME StreamInv, [Next]_vars PROVE StreamInv'
      OBVIOUS
    <2>1. CASE Connect
      BY <2>1 DEF Connect, StreamInv, StreamIntact
    <2>2. ASSUME NEW len \in Lengths, OwnSend(len) PROVE StreamInv'
      BY <2>2, ConnAssumption, StartSendKeepsStream DEF OwnSend, StreamInv, baseVars
    <2>3. CASE RunTask
      <3>1. Head(tasks) \in Message /\ Tail(tasks) \in Seq(Message)
        BY <2>3, HeadTailProperties DEF RunTask, StreamInv
      <3>2. Head(tasks).len \in Nat
        BY <3>1 DEF Message
      <3> QED  BY <2>3, <3>1, <3>2, StartSendKeepsStream DEF RunTask, baseVars
    <2>4. ASSUME NEW n \in 1 .. Window, SendSome(n) PROVE StreamInv'
      BY <2>4, SendSomeKeepsStream
    <2>5. CASE PeerReads
      BY <2>5, PeerReadsKeepsStream
    <2>6. CASE MakeSession \/ Emplace \/ ClearPending \/ SendBlocked \/ SendFails
      BY <2>6 DEF MakeSession, Emplace, ClearPending, SendBlocked, SendFails,
         StreamInv, StreamIntact, byteVars, baseVars
    <2>7. CASE OnRead \/ OnReadEnd \/ OnReadUnset \/ ReadReturns \/ UseFreed \/ PeerLeaves
      BY <2>7 DEF OnRead, OnReadEnd, OnReadUnset, ReadReturns, UseFreed, PeerLeaves,
         StreamInv, StreamIntact, byteVars, baseVars
    <2>8. CASE UNCHANGED vars
      BY <2>8 DEF vars, StreamInv, StreamIntact, byteVars, baseVars
    <2>9. ASSUME NEW len \in Lengths, SendWelcomeMsg(len) \/ Post(len) PROVE StreamInv'
      <3>1. [conn |-> conns, len |-> len] \in Message
        BY ConnAssumption DEF StreamInv, Message
      <3>2. tasks' = Append(tasks, [conn |-> conns, len |-> len]) /\ UNCHANGED conns
        BY <2>9 DEF SendWelcomeMsg, Post, AddTask, baseVars
      <3>3. UNCHANGED byteVars
        BY <2>9 DEF SendWelcomeMsg, Post
      <3> QED  BY <3>1, <3>2, <3>3 DEF StreamInv, StreamIntact, byteVars
    <2> QED
      BY <2>1, <2>2, <2>3, <2>4, <2>5, <2>6, <2>7, <2>8, <2>9 DEF Next, SendStep
  <1>3. StreamInv => StreamIntact
    BY DEF StreamInv
  <1> QED  BY <1>1, <1>2, <1>3, PTL DEF Spec

-----------------------------------------------------------------------------
(* Types, and what is known before the second client of the descriptor.    *)

\* Before the first client nothing has happened; an open connection is
\* recorded, and the first one is registered as well.
FirstInv ==
    /\ conns = 0 => /\ m_fdEventFlags = {} /\ registered = {} /\ life = "none"
                    /\ pc = "idle" /\ ~ inRead /\ base = "idle" /\ ~ inMap
    /\ life = "open" => "EPOLLIN" \in m_fdEventFlags /\ conns # 0
    /\ conns = 1 /\ life = "open" => "EPOLLIN" \in registered

LEMMA RegisterType ==
  ASSUME TypeOK, RegisterReadEvent
  PROVE  /\ m_fdEventFlags' \subseteq Events /\ registered' \subseteq Events
         /\ failure' \in {"no", "add", "del", "callback", "freed"}
         /\ "EPOLLIN" \in m_fdEventFlags'
  BY DEF TypeOK, RegisterReadEvent, Events, epollVars

LEMMA CloseType ==
  ASSUME TypeOK, OnClose
  PROVE  /\ m_fdEventFlags' \subseteq Events /\ registered' \subseteq Events
         /\ failure' \in {"no", "add", "del", "callback", "freed"}
         /\ life' = "closed" /\ pending' \in BOOLEAN /\ inMap' = FALSE
  <1>1. m_fdEventFlags' = {} /\ registered' \in {registered, {}}
        /\ failure' \in {"del", failure} /\ life' = "closed" /\ inMap' = FALSE
    BY DEF OnClose, UnregisterReadWriteEvent
  <1>2. pending' \in BOOLEAN
    BY ZenonT(30) DEF TypeOK, OnClose
  <1> QED  BY <1>1, <1>2 DEF TypeOK

LEMMA StartSendType ==
  ASSUME TypeOK, NEW len \in Nat, StartSend(len)
  PROVE  handed' \in 0 .. MaxBytes /\ m_sendBuf' \in Seq(Byte) /\ pc' = "sending"
  <1> DEFINE text == [i \in 1 .. len |-> handed + i]
  <1>1. handed \in 0 .. MaxBytes /\ handed + len <= MaxBytes /\ MaxBytes \in Nat
        /\ m_sendBuf \in Seq(Byte)
    BY ConnAssumption DEF TypeOK, StartSend
  <1>2. text \in Seq(Byte)
    BY <1>1 DEF Byte
  <1>3. m_sendBuf' = m_sendBuf \o text
    BY DEF StartSend
  <1> HIDE DEF text
  <1>4. m_sendBuf' \in Seq(Byte)
    BY <1>1, <1>2, <1>3, ConcatProperties
  <1> QED  BY <1>1, <1>4 DEF StartSend

LEMMA PostType ==
  ASSUME TypeOK, conns # 0, NEW len \in Lengths, AddTask(len)
  PROVE  tasks' \in Seq(Task)
  <1>1. [conn |-> conns, len |-> len] \in Task
    BY ConnAssumption DEF TypeOK, Task
  <1> QED  BY <1>1 DEF TypeOK, AddTask

\* The base thread and the posted sends.
LEMMA TypeBase ==
  ASSUME TypeOK, FirstInv,
         Connect \/ MakeSession \/ Emplace \/ ClearPending
           \/ \E len \in Lengths : SendWelcomeMsg(len) \/ Post(len)
  PROVE  TypeOK' /\ FirstInv'
  <1>0. /\ conns \in 0 .. MaxConns /\ MaxConns \in Nat /\ MaxBytes \in Nat
        /\ m_fdEventFlags \subseteq Events /\ registered \subseteq Events
    BY ConnAssumption DEF TypeOK
  <1>1. CASE Connect
    <2>1. /\ m_fdEventFlags' \subseteq Events /\ registered' \subseteq Events
          /\ failure' \in {"no", "add", "del", "callback", "freed"}
          /\ "EPOLLIN" \in m_fdEventFlags'
      BY <1>1, RegisterType DEF Connect
    <2>2. conns' \in 0 .. MaxConns /\ conns' = conns + 1 /\ conns' # 0
      BY <1>0, <1>1 DEF Connect
    <2>3. /\ life' = "open" /\ base' = "accepted" /\ callbacks' = FALSE /\ handed' = 0
          /\ handed' \in 0 .. MaxBytes
          /\ m_sendBuf' = << >> /\ kernel' = << >> /\ got' = << >> /\ peer' = "here"
          /\ UNCHANGED <<inMap, pending, tasks, pc, inRead>>
      BY <1>0, <1>1 DEF Connect
    <2>4. m_sendBuf' \in Seq(Byte) /\ kernel' \in Seq(Byte) /\ got' \in Seq(Byte)
      BY <2>3
    <2>5. TypeOK'
      BY <2>1, <2>2, <2>3, <2>4, ZenonT(60) DEF TypeOK
    <2>6. conns' = 1 => "EPOLLIN" \in registered'
      BY <1>0, <1>1, <2>2 DEF Connect, RegisterReadEvent, FirstInv
    <2> QED  BY <2>1, <2>2, <2>3, <2>5, <2>6 DEF FirstInv
  <1>2. CASE MakeSession
    <2>1. UNCHANGED <<conns, sessionVars, epollVars, tasks, pc, inRead, byteVars, peer,
                      failure>> /\ base' = "session" /\ callbacks' = TRUE /\ base # "idle"
      BY <1>2 DEF MakeSession
    <2>2. TypeOK'
      BY <2>1, ZenonT(60) DEF TypeOK, sessionVars, epollVars, byteVars
    <2> QED  BY <2>1, <2>2 DEF FirstInv, sessionVars, epollVars
  <1>3. CASE Emplace
    <2>1. UNCHANGED <<conns, callbacks, life, pending, epollVars, tasks, pc, inRead,
                      byteVars, peer, failure>> /\ base' = "idle" /\ inMap' = TRUE
          /\ base # "idle"
      BY <1>3 DEF Emplace
    <2>2. TypeOK'
      BY <2>1, ZenonT(60) DEF TypeOK, epollVars, byteVars
    <2> QED  BY <2>1, <2>2 DEF FirstInv, epollVars
  <1>4. CASE ClearPending
    <2>1. /\ UNCHANGED <<conns, base, callbacks, inMap, m_fdEventFlags, tasks, pc, inRead,
                         byteVars, peer>>
          /\ life' = "none" /\ pending' = FALSE /\ registered' = {}
          /\ failure' \in {"freed", failure}
      BY <1>4 DEF ClearPending, baseVars
    <2>2. registered' \subseteq Events
          /\ failure' \in {"no", "add", "del", "callback", "freed"}
      BY <2>1 DEF TypeOK
    <2>3. TypeOK'
      BY <2>1, <2>2, ZenonT(60) DEF TypeOK, byteVars
    <2> QED  BY <2>1, <2>3 DEF FirstInv
  <1>5. ASSUME NEW len \in Lengths, SendWelcomeMsg(len) \/ Post(len)
        PROVE  TypeOK' /\ FirstInv'
    <2>1. conns # 0 /\ AddTask(len)
      BY <1>5 DEF SendWelcomeMsg, Post, FirstInv
    <2>2. tasks' \in Seq(Task)
      BY <2>1, PostType
    <2>3. /\ UNCHANGED <<conns, callbacks, sessionVars, epollVars, pc, inRead, byteVars,
                         peer, failure>>
          /\ base' \in {base, "welcomed"}
      BY <1>5 DEF SendWelcomeMsg, Post, baseVars
    <2>4. base' \in {"idle", "accepted", "session", "welcomed"}
      BY <2>3 DEF TypeOK
    <2>5. TypeOK'
      BY <2>2, <2>3, <2>4, ZenonT(60) DEF TypeOK, sessionVars, epollVars, byteVars
    <2> QED  BY <2>1, <2>3, <2>5 DEF FirstInv, sessionVars, epollVars
  <1> QED  BY <1>1, <1>2, <1>3, <1>4, <1>5

\* The loop's thread, sending.
LEMMA TypeSend ==
  ASSUME TypeOK, FirstInv, RunTask \/ SendStep \/ \E len \in Lengths : OwnSend(len)
  PROVE  TypeOK' /\ FirstInv'
  <1>1. ASSUME NEW len \in Nat, StartSend(len), life # "none", tasks' \in Seq(Task),
               UNCHANGED <<baseVars, sessionVars, epollVars, inRead, peer, failure>>
        PROVE  TypeOK' /\ FirstInv'
    <2>1. handed' \in 0 .. MaxBytes /\ m_sendBuf' \in Seq(Byte) /\ pc' = "sending"
          /\ UNCHANGED <<kernel, got>>
      BY <1>1, StartSendType DEF StartSend
    <2>2. TypeOK'
      BY <1>1, <2>1, ZenonT(60) DEF TypeOK, baseVars, sessionVars, epollVars
    <2> QED  BY <1>1, <2>2 DEF FirstInv, baseVars, sessionVars, epollVars
  <1>2. CASE RunTask
    <2>1. Head(tasks) \in Task /\ Tail(tasks) \in Seq(Task)
      BY <1>2, HeadTailProperties DEF RunTask, TypeOK
    <2>2. Head(tasks).len \in Nat
      BY <2>1, ConnAssumption DEF Task
    <2> QED  BY <1>1, <1>2, <2>1, <2>2 DEF RunTask
  <1>3. ASSUME NEW len \in Lengths, OwnSend(len) PROVE TypeOK' /\ FirstInv'
    <2>1. len \in Nat /\ tasks' \in Seq(Task)
      BY <1>3, ConnAssumption DEF OwnSend, TypeOK
    <2> QED  BY <1>1, <1>3, <2>1 DEF OwnSend
  <1>4. CASE SendBlocked
    <2>1. /\ m_fdEventFlags' \subseteq Events /\ registered' \subseteq Events
          /\ failure' \in {"no", "add", "del", "callback", "freed"}
          /\ "EPOLLIN" \in m_fdEventFlags'
      BY <1>4, RegisterType DEF SendBlocked, RegisterWriteEvent
    <2>2. pc' = "idle" /\ pc = "sending"
          /\ UNCHANGED <<baseVars, sessionVars, tasks, inRead, byteVars, peer>>
      BY <1>4 DEF SendBlocked
    <2>3. TypeOK'
      BY <2>1, <2>2, ZenonT(60) DEF TypeOK, baseVars, sessionVars, byteVars
    <2>4. life = "open" => UNCHANGED epollVars
      BY <1>4 DEF SendBlocked, RegisterWriteEvent, RegisterReadEvent, FirstInv
    <2> QED  BY <2>1, <2>2, <2>3, <2>4 DEF FirstInv, baseVars, sessionVars, epollVars
  <1>5. CASE SendFails
    <2>1. /\ m_fdEventFlags' \subseteq Events /\ registered' \subseteq Events
          /\ failure' \in {"no", "add", "del", "callback", "freed"}
          /\ life' = "closed" /\ pending' \in BOOLEAN /\ inMap' = FALSE
      BY <1>5, CloseType DEF SendFails
    <2>2. pc' = "idle" /\ pc = "sending"
          /\ UNCHANGED <<baseVars, tasks, inRead, byteVars, peer>>
      BY <1>5 DEF SendFails
    <2>3. TypeOK'
      BY <2>1, <2>2, ZenonT(60) DEF TypeOK, baseVars, byteVars
    <2> QED  BY <2>1, <2>2, <2>3 DEF FirstInv, baseVars
  <1>6. ASSUME NEW n \in 1 .. Window, SendSome(n) PROVE TypeOK' /\ FirstInv'
    <2>1. n \in 1 .. Len(m_sendBuf) /\ m_sendBuf \in Seq(Byte) /\ kernel \in Seq(Byte)
      BY <1>6, ConnAssumption DEF TypeOK, SendSome
    <2>2. SubSeq(m_sendBuf, 1, n) \in Seq(Byte)
          /\ SubSeq(m_sendBuf, n + 1, Len(m_sendBuf)) \in Seq(Byte)
      BY <2>1, SubSeqProperties, ElementOfSeq
    <2>3. kernel' \in Seq(Byte) /\ m_sendBuf' \in Seq(Byte)
      BY <1>6, <2>1, <2>2, ConcatProperties DEF SendSome
    <2>4. pc' \in {"idle", "sending"} /\ pc = "sending"
          /\ UNCHANGED <<baseVars, sessionVars, epollVars, tasks, inRead, handed, got, peer,
                         failure>>
      BY <1>6 DEF SendSome
    <2>5. TypeOK'
      BY <2>3, <2>4, ZenonT(60) DEF TypeOK, baseVars, sessionVars, epollVars
    <2> QED  BY <2>4, <2>5 DEF FirstInv, baseVars, sessionVars, epollVars
  <1> QED  BY <1>2, <1>3, <1>4, <1>5, <1>6 DEF SendStep

\* The loop's thread, reading, and the client.
LEMMA TypeRead ==
  ASSUME TypeOK, FirstInv,
         OnRead \/ OnReadEnd \/ OnReadUnset \/ ReadReturns \/ UseFreed \/ PeerReads
           \/ PeerLeaves
  PROVE  TypeOK' /\ FirstInv'
  <1>1. CASE OnRead
    <2>1. inRead' = TRUE /\ "EPOLLIN" \in registered
          /\ UNCHANGED <<baseVars, sessionVars, epollVars, tasks, pc, byteVars, peer, failure>>
      BY <1>1 DEF OnRead, Readable
    <2>2. TypeOK'
      BY <2>1, ZenonT(60) DEF TypeOK, baseVars, sessionVars, epollVars, byteVars
    <2> QED  BY <2>1, <2>2 DEF FirstInv, baseVars, sessionVars, epollVars
  <1>2. ASSUME OnClose, conns # 0, inRead' \in BOOLEAN,
               UNCHANGED <<baseVars, tasks, pc, byteVars, peer>>
        PROVE  TypeOK' /\ FirstInv'
    <2>1. /\ m_fdEventFlags' \subseteq Events /\ registered' \subseteq Events
          /\ failure' \in {"no", "add", "del", "callback", "freed"}
          /\ life' = "closed" /\ pending' \in BOOLEAN /\ inMap' = FALSE
      BY <1>2, CloseType
    <2>2. TypeOK'
      BY <1>2, <2>1, ZenonT(60) DEF TypeOK, baseVars, byteVars
    <2> QED  BY <1>2, <2>1, <2>2 DEF FirstInv, baseVars
  <1>3. CASE OnReadEnd
    <2>1. conns # 0
      BY <1>3 DEF OnReadEnd, Readable, FirstInv
    <2>2. inRead' \in BOOLEAN
      BY <1>3 DEF OnReadEnd, TypeOK
    <2> QED  BY <1>2, <1>3, <2>1, <2>2 DEF OnReadEnd
  <1>4. CASE ReadReturns
    <2>1. conns # 0 /\ inRead' = FALSE
      BY <1>4 DEF ReadReturns, FirstInv
    <2>2. CASE OnClose
      BY <1>2, <1>4, <2>1, <2>2 DEF ReadReturns
    <2>3. CASE UNCHANGED <<sessionVars, epollVars, failure>>
      <3>1. UNCHANGED <<baseVars, tasks, pc, byteVars, peer>>
        BY <1>4 DEF ReadReturns
      <3>2. TypeOK'
        BY <2>1, <2>3, <3>1, ZenonT(60) DEF TypeOK, baseVars, sessionVars, epollVars, byteVars
      <3> QED  BY <2>1, <2>3, <3>1, <3>2 DEF FirstInv, baseVars, sessionVars, epollVars
    <2> QED  BY <1>4, <2>2, <2>3 DEF ReadReturns
  <1>5. CASE OnReadUnset \/ UseFreed
    <2>1. failure' \in {"callback", "freed"}
          /\ UNCHANGED <<baseVars, sessionVars, epollVars, tasks, pc, inRead, byteVars, peer>>
      BY <1>5 DEF OnReadUnset, UseFreed
    <2>2. failure' \in {"no", "add", "del", "callback", "freed"}
      BY <2>1
    <2>3. TypeOK'
      BY <2>1, <2>2, ZenonT(60) DEF TypeOK, baseVars, sessionVars, epollVars, byteVars
    <2> QED  BY <2>1, <2>3 DEF FirstInv, baseVars, sessionVars, epollVars
  <1>6. CASE PeerReads
    <2>1. Head(kernel) \in Byte /\ Tail(kernel) \in Seq(Byte)
      BY <1>6, HeadTailProperties DEF PeerReads, TypeOK
    <2>2. got' \in Seq(Byte) /\ kernel' \in Seq(Byte)
      BY <1>6, <2>1 DEF PeerReads, TypeOK
    <2>3. UNCHANGED <<baseVars, sessionVars, epollVars, tasks, pc, inRead, handed, m_sendBuf,
                      peer, failure>>
      BY <1>6 DEF PeerReads
    <2>4. TypeOK'
      BY <2>2, <2>3, ZenonT(60) DEF TypeOK, baseVars, sessionVars, epollVars
    <2> QED  BY <2>3, <2>4 DEF FirstInv, baseVars, sessionVars, epollVars
  <1>7. CASE PeerLeaves
    <2>1. peer' = "gone" /\ UNCHANGED <<baseVars, sessionVars, epollVars, tasks, pc, inRead,
                                        byteVars, failure>>
      BY <1>7 DEF PeerLeaves
    <2>2. TypeOK'
      BY <2>1, ZenonT(60) DEF TypeOK, baseVars, sessionVars, epollVars, byteVars
    <2> QED  BY <2>1, <2>2 DEF FirstInv, baseVars, sessionVars, epollVars
  <1> QED  BY <1>1, <1>3, <1>4, <1>5, <1>6, <1>7

LEMMA TypeAndFirst == Spec => [](TypeOK /\ FirstInv)
  <1>1. ASSUME Init PROVE TypeOK /\ FirstInv
    <2>1. conns \in 0 .. MaxConns /\ handed \in 0 .. MaxBytes
      BY <1>1, ConnAssumption DEF Init
    <2>2. << >> \in Seq(Task) /\ << >> \in Seq(Byte)
      OBVIOUS
    <2>3. TypeOK
      BY <1>1, <2>1, <2>2, ZenonT(60) DEF Init, TypeOK
    <2> QED  BY <1>1, <2>3 DEF Init, FirstInv
  <1>2. TypeOK /\ FirstInv /\ [Next]_vars => TypeOK' /\ FirstInv'
    <2> SUFFICES ASSUME TypeOK, FirstInv, [Next]_vars PROVE TypeOK' /\ FirstInv'
      OBVIOUS
    <2>1. CASE Next
      BY <2>1, TypeBase, TypeSend, TypeRead DEF Next
    <2>2. CASE UNCHANGED vars
      <3>1. TypeOK'
        BY <2>2, ZenonT(60) DEF TypeOK, vars, baseVars, sessionVars, epollVars, byteVars
      <3> QED  BY <2>2, <3>1 DEF FirstInv, vars, baseVars, sessionVars, epollVars
    <2> QED  BY <2>1, <2>2
  <1> QED  BY <1>1, <1>2, PTL DEF Spec

\* The variables keep their types; a posted send names a connection there was.
THEOREM ConnTypeOK == Spec => []TypeOK
  BY TypeAndFirst, PTL

\* Only a client whose descriptor had been another's is ever left unread, and
\* only on account of a record that says it is registered.
THEOREM UnreadAlwaysHasStaleRecord == Spec => []UnreadHasStaleRecord
  <1>1. TypeOK /\ FirstInv => UnreadHasStaleRecord
    BY DEF TypeOK, FirstInv, UnreadHasStaleRecord
  <1> QED  BY <1>1, TypeAndFirst, PTL

-----------------------------------------------------------------------------
(* Removing a descriptor.                                                  *)

\* The loop's thread is inside no handler of a connection that was freed, and
\* of the first connection Epoll's record says what the kernel knows.
RecordInv ==
    /\ failure = "no" /\ life = "none" => registered = {} /\ pc = "idle" /\ ~ inRead
    /\ conns <= 1 /\ life # "none" => (m_fdEventFlags = {} <=> registered = {})
    /\ RemovalFailsOnReused

\* Closing leaves neither a record nor a registration, where both were there.
LEMMA CloseRemoves ==
  ASSUME RecordInv, OnClose, life # "none", failure = "no", UNCHANGED conns, conns \in Nat
  PROVE  RecordInv'
  <1>1. life' = "closed" /\ m_fdEventFlags' = {}
    BY DEF OnClose, UnregisterReadWriteEvent
  <1>2. conns <= 1 => registered' = {} /\ failure' = "no"
    BY DEF OnClose, UnregisterReadWriteEvent, RecordInv
  <1> QED  BY <1>1, <1>2 DEF RecordInv, RemovalFailsOnReused

\* Whatever a posted or resumed send registers after the close, and whoever is
\* inside a handler then, only a later connection of the descriptor meets a
\* record that the kernel does not have.
THEOREM RemovalFailsOnReusedAlways == Spec => []RemovalFailsOnReused
  <1>1. Init => RecordInv
    BY DEF Init, RecordInv, RemovalFailsOnReused
  <1>2. TypeOK /\ FirstInv /\ RecordInv /\ [Next]_vars => RecordInv'
    <2> SUFFICES ASSUME TypeOK, FirstInv, RecordInv, [Next]_vars PROVE RecordInv'
      OBVIOUS
    <2>0. conns \in Nat
      BY ConnAssumption DEF TypeOK
    <2> USE DEF baseVars, sessionVars, epollVars
    <2>1. CASE Connect
      <3>1. /\ failure = "no" /\ conns' = conns + 1 /\ life' = "open" /\ failure' # "del"
            /\ m_fdEventFlags' # {}
        BY <2>1 DEF Connect, RegisterReadEvent
      <3>2. conns' <= 1 => registered' # {}
        BY <2>0, <2>1, <3>1 DEF Connect, RegisterReadEvent, FirstInv
      <3> QED  BY <3>1, <3>2 DEF RecordInv, RemovalFailsOnReused
    <2>2. CASE MakeSession \/ Emplace \/ PeerReads \/ PeerLeaves
                 \/ \E len \in Lengths : SendWelcomeMsg(len) \/ Post(len)
      <3>1. UNCHANGED <<conns, life, m_fdEventFlags, registered, pc, inRead, failure>>
        BY <2>2 DEF MakeSession, Emplace, PeerReads, PeerLeaves, SendWelcomeMsg, Post
      <3> QED  BY <3>1 DEF RecordInv, RemovalFailsOnReused
    <2>3. CASE ClearPending
      <3>1. /\ failure = "no" /\ life' = "none" /\ registered' = {} /\ UNCHANGED <<pc, inRead>>
            /\ failure' = IF inRead \/ pc = "sending" THEN "freed" ELSE failure
        BY <2>3 DEF ClearPending
      <3>2. pc \in {"idle", "sending"}
        BY DEF TypeOK
      <3> QED  BY <3>1, <3>2 DEF RecordInv, RemovalFailsOnReused
    <2>4. CASE RunTask \/ \E len \in Lengths : OwnSend(len)
      BY <2>4 DEF RunTask, OwnSend, RecordInv, RemovalFailsOnReused
    <2>5. CASE \E n \in 1 .. Window : SendSome(n)
      BY <2>5 DEF SendSome, RecordInv, RemovalFailsOnReused
    <2>6. CASE SendBlocked
      BY <2>6 DEF SendBlocked, RegisterWriteEvent, RegisterReadEvent, RecordInv,
                  RemovalFailsOnReused
    <2>7. CASE SendFails
      <3>1. life # "none" /\ failure = "no" /\ OnClose /\ UNCHANGED conns
        BY <2>7 DEF SendFails, RecordInv
      <3> QED  BY <2>0, <3>1, CloseRemoves
    <2>8. CASE OnReadEnd
      <3>1. life # "none" /\ failure = "no" /\ OnClose /\ UNCHANGED conns
        BY <2>8 DEF OnReadEnd, Readable, RecordInv
      <3> QED  BY <2>0, <3>1, CloseRemoves
    <2>9. CASE ReadReturns
      <3>1. life # "none" /\ failure = "no" /\ UNCHANGED conns
        BY <2>9 DEF ReadReturns, RecordInv
      <3>2. CASE OnClose
        BY <2>0, <3>1, <3>2, CloseRemoves
      <3>3. CASE UNCHANGED <<sessionVars, epollVars, failure>>
        BY <3>1, <3>3 DEF RecordInv, RemovalFailsOnReused
      <3> QED  BY <2>9, <3>2, <3>3 DEF ReadReturns
    <2>10. CASE OnRead
      BY <2>10 DEF OnRead, Readable, RecordInv, RemovalFailsOnReused
    <2>11. CASE OnReadUnset \/ UseFreed
      BY <2>11 DEF OnReadUnset, UseFreed, RecordInv, RemovalFailsOnReused
    <2>12. CASE UNCHANGED vars
      BY <2>12 DEF vars, RecordInv, RemovalFailsOnReused
    <2> QED  BY <2>1, <2>2, <2>3, <2>4, <2>5, <2>6, <2>7, <2>8, <2>9, <2>10, <2>11, <2>12
             DEF Next, SendStep
  <1>3. RecordInv => RemovalFailsOnReused
    BY DEF RecordInv
  <1> QED  BY <1>1, <1>2, <1>3, TypeAndFirst, PTL DEF Spec
=============================================================================
