----------------------------- MODULE TCPConnection -----------------------------
(***************************************************************************)
(* TCPConnection and Epoll of Calc24v2: the connections that have, one     *)
(* after the other, the same file descriptor of one loop.                  *)
(*                                                                         *)
(* The loop's thread reads, sends and closes.  The base thread registers a *)
(* new connection, makes its session, and frees the sessions that wait in  *)
(* m_pendingToDeleteSessions when the next client connects.  Any thread    *)
(* may post a send, which carries the raw pointer of the connection.       *)
(*                                                                         *)
(* The bytes of a connection are numbered in the order in which they are   *)
(* handed to sendInternal.  EINTR, which only repeats the call, is left    *)
(* out.  Once freed memory has been used anything may happen: the model    *)
(* stops there, as it does where the program crashes.                      *)
(***************************************************************************)
EXTENDS Naturals, Sequences

CONSTANTS
    Lengths,    \* the lengths of the messages
    Window,     \* what the kernel holds for a peer that does not read
    MaxConns,   \* bound: connections on the descriptor
    MaxBytes,   \* bound: bytes handed to one connection
    MaxTasks    \* bound: posted sends at a time

ASSUME ConnAssumption ==
    /\ Lengths \subseteq Nat \ {0}
    /\ Window \in Nat \ {0}
    /\ MaxConns \in Nat /\ MaxBytes \in Nat /\ MaxTasks \in Nat

Byte == 1 .. MaxBytes
Task == [conn : 1 .. MaxConns, len : Lengths]
Events == {"EPOLLIN", "EPOLLOUT"}

VARIABLES
    conns,              \* the number of the present or last connection
    life,               \* "none", "open", "closed": by onClose, not yet freed
    base,               \* how far onAccept and onConnected are
    callbacks,          \* has the session set the callbacks?
    inMap,              \* is the session in m_sessions?
    pending,            \* is it in m_pendingToDeleteSessions?
    m_fdEventFlags,     \* Epoll's record for the descriptor, {} if absent
    registered,         \* what the kernel's epoll knows of it
    tasks,              \* the posted sends
    pc,                 \* is the loop's thread inside sendInternal?
    inRead,             \* is it inside onRead?
    handed,             \* bytes handed to sendInternal
    m_sendBuf, kernel, got,     \* where they are
    peer,               \* is the client still there?
    failure             \* how the program went wrong, "no" if it did not

epollVars == <<m_fdEventFlags, registered>>
baseVars == <<conns, base, callbacks>>
sessionVars == <<life, inMap, pending>>
byteVars == <<handed, m_sendBuf, kernel, got>>
vars == <<baseVars, sessionVars, epollVars, tasks, pc, inRead, byteVars, peer,
          failure>>

TypeOK ==
    /\ conns \in 0 .. MaxConns
    /\ life \in {"none", "open", "closed"}
    /\ base \in {"idle", "accepted", "session", "welcomed"}
    /\ callbacks \in BOOLEAN /\ inMap \in BOOLEAN /\ pending \in BOOLEAN
    /\ m_fdEventFlags \subseteq Events /\ registered \subseteq Events
    /\ tasks \in Seq(Task)
    /\ pc \in {"idle", "sending"}
    /\ inRead \in BOOLEAN
    /\ handed \in 0 .. MaxBytes
    /\ m_sendBuf \in Seq(Byte) /\ kernel \in Seq(Byte) /\ got \in Seq(Byte)
    /\ peer \in {"here", "gone"}
    /\ failure \in {"no", "add", "del", "callback", "freed"}

Init ==
    /\ conns = 0
    /\ life = "none"
    /\ base = "idle"
    /\ callbacks = FALSE /\ inMap = FALSE /\ pending = FALSE
    /\ m_fdEventFlags = {} /\ registered = {}
    /\ tasks = << >>
    /\ pc = "idle" /\ inRead = FALSE
    /\ handed = 0 /\ m_sendBuf = << >> /\ kernel = << >> /\ got = << >>
    /\ peer = "here"
    /\ failure = "no"

-----------------------------------------------------------------------------
(* Epoll.  EPOLL_CTL_ADD fails on a descriptor the kernel knows already and *)
(* EPOLL_CTL_DEL on one it does not know; both are answered by crash().     *)

\* Mutant: the recorded flags are not looked at.
RegisterReadEvent_Always ==
    /\ m_fdEventFlags' = m_fdEventFlags \cup {"EPOLLIN"}
    /\ registered' = IF registered = {} THEN m_fdEventFlags' ELSE registered
    /\ failure' = IF registered = {} THEN failure ELSE "add"

\* Mutant: only a descriptor that is recorded is handed to epoll_ctl.
RegisterReadEvent_Recorded ==
    /\ m_fdEventFlags' = m_fdEventFlags \cup {"EPOLLIN"}
    /\ registered' = IF m_fdEventFlags = {} THEN registered ELSE m_fdEventFlags'
    /\ UNCHANGED failure

RegisterReadEvent ==
    IF "EPOLLIN" \in m_fdEventFlags
    THEN UNCHANGED <<epollVars, failure>>
    ELSE /\ m_fdEventFlags' = m_fdEventFlags \cup {"EPOLLIN"}
         /\ registered' = IF registered = {} THEN m_fdEventFlags' ELSE registered
         /\ failure' = IF registered = {} THEN failure ELSE "add"

\* EventLoop::registerWriteEvent calls Epoll's registerReadEvent.
RegisterWriteEvent == RegisterReadEvent

UnregisterReadWriteEvent ==
    /\ m_fdEventFlags' = {}
    /\ registered' = IF m_fdEventFlags = {} THEN registered ELSE {}
    /\ failure' = IF m_fdEventFlags # {} /\ registered = {} THEN "del" ELSE failure

\* TCPConnection::onClose and, through the callback, onDisconnected: a
\* session that is not in the map (any more, or yet) is left as it is.
OnClose ==
    /\ UnregisterReadWriteEvent
    /\ life' = "closed"
    /\ pending' = (pending \/ inMap)
    /\ inMap' = FALSE

-----------------------------------------------------------------------------
(* The base thread and the posted sends.                                   *)

\* A client is accepted: startRead, before there is a session.
Connect ==
    /\ failure = "no"
    /\ base = "idle" /\ life = "none"
    /\ conns < MaxConns
    /\ conns' = conns + 1
    /\ life' = "open"
    /\ base' = "accepted"
    /\ callbacks' = FALSE
    /\ RegisterReadEvent
    /\ handed' = 0 /\ m_sendBuf' = << >> /\ kernel' = << >> /\ got' = << >>
    /\ peer' = "here"
    /\ UNCHANGED <<inMap, pending, tasks, pc, inRead>>

\* onConnected: the constructor of the session sets the callbacks.
MakeSession ==
    /\ failure = "no"
    /\ base = "accepted"
    /\ base' = "session"
    /\ callbacks' = TRUE
    /\ UNCHANGED <<conns, sessionVars, epollVars, tasks, pc, inRead, byteVars,
                   peer, failure>>

\* Called on another thread than the loop's, send only posts itself.
AddTask(len) ==
    /\ Len(tasks) < MaxTasks
    /\ tasks' = Append(tasks, [conn |-> conns, len |-> len])

SendWelcomeMsg(len) ==
    /\ failure = "no"
    /\ base = "session"
    /\ base' = "welcomed"
    /\ AddTask(len)
    /\ UNCHANGED <<conns, callbacks, sessionVars, epollVars, pc, inRead,
                   byteVars, peer, failure>>

Emplace ==
    /\ failure = "no"
    /\ base = "welcomed"
    /\ base' = "idle"
    /\ inMap' = TRUE
    /\ UNCHANGED <<conns, callbacks, life, pending, epollVars, tasks, pc,
                   inRead, byteVars, peer, failure>>

\* The deal, or sendAll on another loop.
Post(len) ==
    /\ failure = "no"
    /\ inMap
    /\ AddTask(len)
    /\ UNCHANGED <<baseVars, sessionVars, epollVars, pc, inRead, byteVars, peer,
                   failure>>

\* Another client connects: the sessions waiting to be deleted are freed and
\* the connection's destructor closes the descriptor, which makes the kernel
\* forget its registration but not Epoll's record.  The loop's thread may be
\* inside a handler of that connection, whose rest then uses freed memory.
ClearPending ==
    /\ failure = "no"
    /\ base = "idle" /\ pending
    /\ pending' = FALSE
    /\ life' = "none"
    /\ registered' = {}
    /\ failure' = IF inRead \/ pc = "sending" THEN "freed" ELSE failure
    /\ UNCHANGED <<baseVars, inMap, m_fdEventFlags, tasks, pc, inRead, byteVars,
                   peer>>

-----------------------------------------------------------------------------
(* The loop's thread: sending.                                             *)

\* Mutant: the message does not queue up behind what is left over.
StartSend_Bypass(len) ==
    /\ handed + len <= MaxBytes
    /\ handed' = handed + len
    /\ m_sendBuf' = [i \in 1 .. len |-> handed + i] \o m_sendBuf
    /\ pc' = "sending"
    /\ UNCHANGED <<kernel, got>>

\* sendInternal appends the message to what earlier sends left over.
StartSend(len) ==
    /\ handed + len <= MaxBytes
    /\ handed' = handed + len
    /\ m_sendBuf' = m_sendBuf \o [i \in 1 .. len |-> handed + i]
    /\ pc' = "sending"
    /\ UNCHANGED <<kernel, got>>

\* A send by a handler of this loop: an answer to a line that was read, the
\* timer, or sendAll.
OwnSend(len) ==
    /\ failure = "no"
    /\ pc = "idle" /\ life # "none"
    /\ inRead \/ inMap
    /\ StartSend(len)
    /\ UNCHANGED <<baseVars, sessionVars, epollVars, tasks, inRead, peer, failure>>

\* doOtherTask runs a posted send.
RunTask ==
    /\ failure = "no"
    /\ pc = "idle" /\ ~ inRead /\ tasks # << >>
    /\ Head(tasks).conn = conns /\ life # "none"
    /\ StartSend(Head(tasks).len)
    /\ tasks' = Tail(tasks)
    /\ UNCHANGED <<baseVars, sessionVars, epollVars, inRead, peer, failure>>

\* Mutant: the loop is left only by an error or a full window.
SendSome_NoEmptyTest(n) ==
    /\ failure = "no"
    /\ pc = "sending"
    /\ n <= Len(m_sendBuf) /\ Len(kernel) + n <= Window
    /\ kernel' = kernel \o SubSeq(m_sendBuf, 1, n)
    /\ m_sendBuf' = SubSeq(m_sendBuf, n + 1, Len(m_sendBuf))
    /\ UNCHANGED <<pc, baseVars, sessionVars, epollVars, tasks, inRead, handed,
                   got, peer, failure>>

\* ::send takes n bytes; the loop goes on while any are left.
SendSome(n) ==
    /\ failure = "no"
    /\ pc = "sending"
    /\ n <= Len(m_sendBuf) /\ Len(kernel) + n <= Window
    /\ kernel' = kernel \o SubSeq(m_sendBuf, 1, n)
    /\ m_sendBuf' = SubSeq(m_sendBuf, n + 1, Len(m_sendBuf))
    /\ pc' = IF n = Len(m_sendBuf) THEN "idle" ELSE "sending"
    /\ UNCHANGED <<baseVars, sessionVars, epollVars, tasks, inRead, handed, got,
                   peer, failure>>

\* EAGAIN: registerWriteEvent, and the bytes stay in m_sendBuf.
SendBlocked ==
    /\ failure = "no"
    /\ pc = "sending" /\ Len(kernel) = Window
    /\ pc' = "idle"
    /\ RegisterWriteEvent
    /\ UNCHANGED <<baseVars, sessionVars, tasks, inRead, byteVars, peer>>

SendFails ==
    /\ failure = "no"
    /\ pc = "sending" /\ peer = "gone"
    /\ pc' = "idle"
    /\ OnClose
    /\ UNCHANGED <<baseVars, tasks, inRead, byteVars, peer>>

-----------------------------------------------------------------------------
(* The loop's thread: reading.                                             *)

Readable ==
    /\ failure = "no"
    /\ pc = "idle" /\ ~ inRead
    /\ "EPOLLIN" \in registered

\* Something is read: on to the session, which has a loop over its lines.
OnRead ==
    /\ Readable /\ callbacks
    /\ inRead' = TRUE
    /\ UNCHANGED <<baseVars, sessionVars, epollVars, tasks, pc, byteVars, peer,
                   failure>>

\* End of file.  What is left in m_recvBuf holds no line, so what follows
\* onClose does at most close again.
OnReadEnd ==
    /\ Readable /\ callbacks /\ peer = "gone"
    /\ OnClose
    /\ UNCHANGED <<baseVars, tasks, pc, inRead, byteVars, peer>>

\* The callbacks are called although they are not set yet: they throw.
OnReadUnset ==
    /\ Readable /\ ~ callbacks
    /\ failure' = "callback"
    /\ UNCHANGED <<baseVars, sessionVars, epollVars, tasks, pc, inRead, byteVars,
                   peer>>

\* The session wants more data, or has too much without a line's end and
\* closes the connection.
ReadReturns ==
    /\ failure = "no"
    /\ inRead /\ pc = "idle"
    /\ inRead' = FALSE
    /\ \/ UNCHANGED <<sessionVars, epollVars, failure>>
       \/ OnClose
    /\ UNCHANGED <<baseVars, tasks, pc, byteVars, peer>>

\* A posted send of a connection that has been freed.
UseFreed ==
    /\ failure = "no"
    /\ pc = "idle" /\ ~ inRead /\ tasks # << >>
    /\ Head(tasks).conn # conns \/ life = "none"
    /\ failure' = "freed"
    /\ UNCHANGED <<baseVars, sessionVars, epollVars, tasks, pc, inRead, byteVars,
                   peer>>

-----------------------------------------------------------------------------
(* The client.                                                             *)

PeerReads ==
    /\ failure = "no"
    /\ peer = "here" /\ kernel # << >>
    /\ got' = Append(got, Head(kernel))
    /\ kernel' = Tail(kernel)
    /\ UNCHANGED <<baseVars, sessionVars, epollVars, tasks, pc, inRead, handed,
                   m_sendBuf, peer, failure>>

PeerLeaves ==
    /\ failure = "no"
    /\ life = "open" /\ peer = "here"
    /\ peer' = "gone"
    /\ UNCHANGED <<baseVars, sessionVars, epollVars, tasks, pc, inRead, byteVars,
                   failure>>

-----------------------------------------------------------------------------

SendStep == SendBlocked \/ SendFails \/ \E n \in 1 .. Window : SendSome(n)

Next ==
    \/ Connect \/ MakeSession \/ Emplace \/ ClearPending
    \/ \E len \in Lengths : SendWelcomeMsg(len) \/ Post(len) \/ OwnSend(len)
    \/ RunTask \/ SendStep
    \/ OnRead \/ OnReadEnd \/ OnReadUnset \/ ReadReturns \/ UseFreed
    \/ PeerReads \/ PeerLeaves

Spec == Init /\ [][Next]_vars

\* The thread inside sendInternal runs.
FairSpec == Spec /\ WF_vars(SendStep)

-----------------------------------------------------------------------------
(* Properties.                                                             *)

\* Whatever sends are cut short, resumed or posted, the client gets, without
\* gap, repetition or exchange, the bytes in the order in which sendInternal
\* was given them.
StreamIntact == got \o kernel \o m_sendBuf = [i \in 1 .. handed |-> i]

\* No descriptor is added to the kernel's epoll twice, so registering never
\* makes the program crash, not even with a record that is out of date.
AddNeverFails == failure # "add"

\* The endless loop of sendInternal ends, whatever the client does.
SendReturns == pc = "sending" ~> pc = "idle" \/ failure # "no"

\* A client that was not closed is read from.  Where it is not, its descriptor
\* had been another's, and a send to that one after its close had left a
\* record behind; the first client of a descriptor is never left unread.
UnreadHasStaleRecord ==
    (failure = "no" /\ life = "open" /\ "EPOLLIN" \notin registered)
      => conns > 1 /\ "EPOLLIN" \in m_fdEventFlags

\* Removing a descriptor from the kernel's epoll fails, and the program
\* crashes, only where the descriptor had been another connection's: the
\* record that the first client leaves behind harms a later one, never itself,
\* however its sends, reads and closes fall together.
RemovalFailsOnReused == failure = "del" => conns > 1

\* The comment in Calc24Session::onClose has the destruction delayed as long
\* as the object is of use: nobody uses it afterwards.
NothingFreedIsUsed == failure # "freed"
=============================================================================
