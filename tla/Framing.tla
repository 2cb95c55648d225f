-------------------------------- MODULE Framing --------------------------------
(* How the bytes of a client become packages: TCPConnection::onRead appends   *)
(* what recv returns to m_recvBuf and calls Calc24Session::onRead, whose loop *)
(* calls decodePackage until the buffer holds no line end. A package is what  *)
(* processPackage is given: a line with its '\n'. Everything here runs on the *)
(* loop that owns the connection; how the bytes are cut into reads is not the *)
(* server's to choose, and the handling of a package may close the connection *)
(* under the loop that decodes it (a send in it fails). That a closed session *)
(* may be freed while it decodes is in TCPConnection; here it is not freed.   *)
EXTENDS Naturals, Sequences

CONSTANTS
  Bytes,           \* what a client may send
  LF,              \* the byte '\n'
  MAX_MSG_LENGTH,  \* 64 in Calc24Session.cpp
  ChunkSize,       \* 1024, the size of buf in TCPConnection::onRead
  MaxBytes         \* bound: bytes the client sends

ASSUME FramingAssumption ==
  /\ LF \in Bytes
  /\ MAX_MSG_LENGTH \in Nat /\ MaxBytes \in Nat
  /\ ChunkSize \in Nat \ {0}

VARIABLES
  received,    \* history: all bytes that recv has returned
  m_recvBuf,
  handed,      \* history: the packages given to processPackage, joined
  ends,        \* history: where in handed a package ends
  pc,          \* "idle", or "decoding" within Calc24Session::onRead
  ended,       \* has the client closed its end?
  registered,  \* does epoll call onRead?
  closed,      \* history: TCPConnection::onClose has been called,
  closedAgain, \* and once more after that
  sendFailed,  \* history: a send to the client has failed
  reopened,    \* history: a send has registered the closed connection again
  refused      \* history: decodePackage has failed

streamVars == <<received, m_recvBuf, handed, ends>>
connVars == <<registered, closed, closedAgain>>
vars == <<streamVars, pc, ended, connVars, sendFailed, reopened, refused>>

LineEnds(s) == {i \in DOMAIN s : s[i] = LF}

Init ==
  /\ received = <<>> /\ m_recvBuf = <<>> /\ handed = <<>> /\ ends = {}
  /\ pc = "idle" /\ ended = FALSE
  /\ registered = TRUE /\ closed = FALSE /\ closedAgain = FALSE
  /\ sendFailed = FALSE /\ reopened = FALSE /\ refused = FALSE

\* Mutant: the events stay registered after a refusal.
OnClose_StaysRegistered ==
  /\ registered' = (pc = "decoding")
  /\ closed' = TRUE
  /\ closedAgain' = (closedAgain \/ closed)

(* TCPConnection::onClose: unregisterAllEvent, then the close callback. *)
OnClose ==
  /\ registered' = FALSE
  /\ closed' = TRUE
  /\ closedAgain' = (closedAgain \/ closed)

(* What a send to the client does to the connection (sendInternal): nothing;  *)
(* it fails and closes it; the window is full and it is registered, which it  *)
(* is already unless it has been closed.                                      *)
SendOutcome ==
  \/ UNCHANGED <<connVars, sendFailed, reopened>>
  \/ OnClose /\ sendFailed' = TRUE /\ UNCHANGED reopened
  \/ /\ registered' = TRUE
     /\ reopened' = (reopened \/ closed)
     /\ UNCHANGED <<closed, closedAgain, sendFailed>>

(* A send while the loop is not in onRead of this connection: the handler of  *)
(* another session's package, a timer or a posted task.                       *)
Send ==
  /\ pc = "idle"
  /\ SendOutcome
  /\ UNCHANGED <<streamVars, pc, ended, refused>>

(* recv returns n > 0 bytes, which may be any cut of what the client sends. *)
OnRead ==
  /\ pc = "idle" /\ registered /\ ~ended
  /\ \E n \in 1 .. ChunkSize :
       /\ Len(received) + n <= MaxBytes
       /\ \E chunk \in [1 .. n -> Bytes] :
            /\ received' = received \o chunk
            /\ m_recvBuf' = m_recvBuf \o chunk
  /\ pc' = "decoding"
  /\ UNCHANGED <<handed, ends, ended, connVars, sendFailed, reopened, refused>>

(* recv returns 0: onClose, and without a return the read callback still runs. *)
OnReadEnd ==
  /\ pc = "idle" /\ registered
  /\ ended' = TRUE
  /\ OnClose
  /\ pc' = "decoding"
  /\ UNCHANGED <<streamVars, sendFailed, reopened, refused>>

(* position + 1 of fiindLF: n is the place of the first line end. *)
FirstLF(n) == n \in LineEnds(m_recvBuf) /\ \A j \in LineEnds(m_recvBuf) : n <= j

\* Mutant: retrieve(position); retrieve(0) is the whole buffer.
Retrieve_WithoutLF(n) ==
  LET m == IF n = 1 THEN Len(m_recvBuf) ELSE n - 1 IN
  /\ handed' = handed \o SubSeq(m_recvBuf, 1, m)
  /\ m_recvBuf' = SubSeq(m_recvBuf, m + 1, Len(m_recvBuf))

(* ByteBuffer::retrieve of the first n bytes; a moved-from string is empty. *)
Retrieve(n) ==
  /\ handed' = handed \o SubSeq(m_recvBuf, 1, n)
  /\ m_recvBuf' = SubSeq(m_recvBuf, n + 1, Len(m_recvBuf))

\* Mutant: onRead returns after one package.
AfterPackage_Return == pc' = "idle"

(* What follows a package: `continue with the next one'. *)
AfterPackage == pc' = "decoding"

(* decodePackage succeeds: the package is handled, a send in processPackage   *)
(* may close the connection, and the loop goes on whatever happened.          *)
DecodeLine ==
  /\ pc = "decoding"
  /\ \E n \in DOMAIN m_recvBuf : FirstLF(n) /\ Retrieve(n)
  /\ ends' = ends \union {Len(handed')}
  /\ SendOutcome
  /\ AfterPackage
  /\ UNCHANGED <<received, ended, refused>>

\* Mutant: the limit is one too small.
TooLong_AtLimit == Len(m_recvBuf) >= MAX_MSG_LENGTH

TooLong == Len(m_recvBuf) > MAX_MSG_LENGTH

(* DecodePackageWantMoreData. *)
WantMoreData ==
  /\ pc = "decoding" /\ LineEnds(m_recvBuf) = {}
  /\ ~TooLong
  /\ pc' = "idle"
  /\ UNCHANGED <<streamVars, ended, connVars, sendFailed, reopened, refused>>

(* DecodePackageFailed: forceClose, which is onClose. *)
DecodeFailed ==
  /\ pc = "decoding" /\ LineEnds(m_recvBuf) = {}
  /\ TooLong
  /\ OnClose
  /\ refused' = TRUE
  /\ pc' = "idle"
  /\ UNCHANGED <<streamVars, ended, sendFailed, reopened>>

Decode == DecodeLine \/ WantMoreData \/ DecodeFailed
Next == OnRead \/ OnReadEnd \/ Decode \/ Send

Spec == Init /\ [][Next]_vars

(* The loop of onRead has no reason to stop; a client need not send anything. *)
FairSpec == Spec /\ WF_vars(Decode)

--------------------------------------------------------------------------------
(* The packages are the lines of the stream, however the client's bytes were  *)
(* cut into reads: handled and buffered bytes together are what was received, *)
(* packages end exactly at the line ends, and no line stays in the buffer     *)
(* when onRead returns (decodePackage, ByteBuffer::retrieve and append).      *)
PackagesAreLines ==
  /\ handed \o m_recvBuf = received
  /\ ends = LineEnds(handed)
  /\ handed # <<>> => Len(handed) \in ends
  /\ pc = "idle" => LineEnds(m_recvBuf) = {}

(* onRead, decodePackage and the buffer implement a reader of lines: each time *)
(* the next line of the stream, whole, is handled, whatever the cuts into      *)
(* reads, sends that fail and onClose do in between.                           *)
Lines == INSTANCE LineReader WITH stream <- received, taken <- handed

ImplementsLineReader == Lines!Spec

(* A client is refused only for more than MAX_MSG_LENGTH bytes in a row        *)
(* without a line end: however its short lines are cut into reads or run       *)
(* together in one, none of them closes the connection (decodePackage).        *)
OnlyLongLinesRefused ==
  refused => \E i \in 0 .. Len(received) :
               /\ i + MAX_MSG_LENGTH + 1 <= Len(received)
               /\ \A j \in 1 .. MAX_MSG_LENGTH + 1 : received[i + j] # LF

(* The limit is tested only when no line end is in the buffer, so a package    *)
(* may be longer than it, but never by more than one read: what is left over  *)
(* after a read is within the limit and recv returns at most ChunkSize bytes.  *)
(* Only a closed connection that a send has registered again reads on with    *)
(* what it was refused for.                                                   *)
PackageBounded ==
  ~reopened =>
    \A e \in ends :
      \E b \in ends \union {0} : b < e /\ e - b <= MAX_MSG_LENGTH + ChunkSize

(* The read callback that runs after the client has left does not close the   *)
(* connection a second time: what is in the buffer then is within the limit.  *)
(* Only sends that fail, or that register the closed connection again, lead   *)
(* to a second onClose (TCPConnection::onRead, Calc24Session::forceClose).    *)
ClosedOnce == ~sendFailed /\ ~reopened => ~closedAgain

(* Every line end that was received ends a package, if need be after the      *)
(* connection was closed by the handling of an earlier package of the read.   *)
LinesAreHandled ==
  \A i \in 1 .. MaxBytes : (i \in LineEnds(received)) ~> (i \in ends)
================================================================================
