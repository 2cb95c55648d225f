----------------------------- MODULE FramingProofs -----------------------------
(* Theorems about Framing, for all bytes, limits and sizes of a read.         *)
EXTENDS Framing, SequenceTheorems, TLAPS

TypeOK ==
  /\ received \in Seq(Bytes) /\ m_recvBuf \in Seq(Bytes) /\ handed \in Seq(Bytes)
  /\ pc \in {"idle", "decoding"}
  /\ registered \in BOOLEAN /\ closed \in BOOLEAN /\ closedAgain \in BOOLEAN
  /\ sendFailed \in BOOLEAN /\ reopened \in BOOLEAN /\ refused \in BOOLEAN

(* What the limit leaves in the buffer of a connection that is not registered  *)
(* again after it was closed.  The second conjunct is for the callback that    *)
(* runs after the client has left.                                             *)
BufferBounded ==
  /\ Len(m_recvBuf) <= MAX_MSG_LENGTH + ChunkSize
  /\ (pc = "idle" \/ (closed /\ ~sendFailed)) /\ ~refused =>
       Len(m_recvBuf) <= MAX_MSG_LENGTH /\ LineEnds(m_recvBuf) = {}
  /\ refused => pc = "idle"

(* Who may still be read.                                                      *)
ReadWhileOpen == (closed => ~registered) /\ (refused => closed)

FrameInv ==
  /\ TypeOK
  /\ PackagesAreLines
  /\ ~reopened => BufferBounded /\ ReadWhileOpen
  /\ PackageBounded
  /\ ClosedOnce
  /\ OnlyLongLinesRefused

--------------------------------------------------------------------------------
(* Lemmas about sequences of bytes.                                           *)

\* Concatenation may be regrouped.
LEMMA Regroup ==
  ASSUME NEW a \in Seq(Bytes), NEW b \in Seq(Bytes), NEW c \in Seq(Bytes)
  PROVE  (a \o b) \o c = a \o (b \o c)
  BY ConcatAssociative

\* Where the line ends of a concatenation are.
LEMMA LineEndsOfConcat ==
  ASSUME NEW S, NEW a \in Seq(S), NEW b \in Seq(S)
  PROVE  LineEnds(a \o b) = LineEnds(a) \union {Len(a) + i : i \in LineEnds(b)}
  <1>1. a \o b \in Seq(S) /\ Len(a \o b) = Len(a) + Len(b)
    BY ConcatProperties
  <1>2. DOMAIN (a \o b) = 1 .. Len(a) + Len(b) /\ DOMAIN a = 1 .. Len(a) /\ DOMAIN b = 1 .. Len(b)
    BY <1>1, LenProperties
  <1>3. \A i \in 1 .. Len(a) + Len(b) :
          (a \o b)[i] = IF i <= Len(a) THEN a[i] ELSE b[i - Len(a)]
    BY ConcatProperties
  <1>4. Len(a) \in Nat /\ Len(b) \in Nat
    BY LenProperties
  <1>5. ASSUME NEW i \in LineEnds(a \o b)
        PROVE  i \in LineEnds(a) \union {Len(a) + j : j \in LineEnds(b)}
    <2>1. i \in 1 .. Len(a) + Len(b) /\ (a \o b)[i] = LF
      BY <1>2 DEF LineEnds
    <2>2. CASE i <= Len(a)
      BY <1>2, <1>3, <1>4, <2>1, <2>2 DEF LineEnds
    <2>3. CASE ~ (i <= Len(a))
      <3>1. i - Len(a) \in 1 .. Len(b) /\ b[i - Len(a)] = LF /\ i = Len(a) + (i - Len(a))
        BY <1>3, <1>4, <2>1, <2>3
      <3>2. i - Len(a) \in LineEnds(b)
        BY <1>2, <3>1 DEF LineEnds
      <3> QED  BY <3>1, <3>2
    <2> QED  BY <2>2, <2>3
  <1>6. ASSUME NEW i \in LineEnds(a) PROVE i \in LineEnds(a \o b)
    BY <1>2, <1>3, <1>4 DEF LineEnds
  <1>7. ASSUME NEW j \in LineEnds(b) PROVE Len(a) + j \in LineEnds(a \o b)
    <2>1. j \in 1 .. Len(b) /\ b[j] = LF
      BY <1>2 DEF LineEnds
    <2>2. Len(a) + j \in 1 .. Len(a) + Len(b) /\ ~ (Len(a) + j <= Len(a)) /\ (Len(a) + j) - Len(a) = j
      BY <1>4, <2>1
    <2>3. (a \o b)[Len(a) + j] = b[j]
      BY <1>3, <2>2
    <2> QED  BY <1>2, <2>1, <2>2, <2>3 DEF LineEnds
  <1> QED  BY <1>5, <1>6, <1>7

\* A package has one line end, its last byte, and with what is kept it makes
\* up the buffer.
LEMMA PackageOfBuffer ==
  ASSUME NEW S, NEW s \in Seq(S), NEW n \in LineEnds(s), \A j \in LineEnds(s) : n <= j
  PROVE  /\ n \in 1 .. Len(s)
         /\ SubSeq(s, 1, n) \in Seq(S) /\ SubSeq(s, n + 1, Len(s)) \in Seq(S)
         /\ Len(SubSeq(s, 1, n)) = n
         /\ Len(SubSeq(s, n + 1, Len(s))) = Len(s) - n
         /\ SubSeq(s, 1, n) \o SubSeq(s, n + 1, Len(s)) = s
         /\ LineEnds(SubSeq(s, 1, n)) = {n}
  <1>1. DOMAIN s = 1 .. Len(s) /\ Len(s) \in Nat
    BY LenProperties
  <1>2. n \in 1 .. Len(s) /\ s[n] = LF
    BY <1>1 DEF LineEnds
  <1>3. \A i \in 1 .. n : s[i] \in S
    BY <1>1, <1>2, ElementOfSeq
  <1>4. /\ SubSeq(s, 1, n) \in Seq(S) /\ Len(SubSeq(s, 1, n)) = n
        /\ \A i \in 1 .. n : SubSeq(s, 1, n)[i] = s[i]
    BY <1>1, <1>2, <1>3, SubSeqProperties
  <1>5. SubSeq(s, n + 1, Len(s)) \in Seq(S) /\ Len(SubSeq(s, n + 1, Len(s))) = Len(s) - n
    <2>1. \A i \in n + 1 .. Len(s) : s[i] \in S
      BY <1>1, <1>2, ElementOfSeq
    <2>2. n + 1 \in Int /\ Len(s) \in Int
      BY <1>1, <1>2
    <2>3. /\ SubSeq(s, n + 1, Len(s)) \in Seq(S)
          /\ Len(SubSeq(s, n + 1, Len(s))) = IF n + 1 <= Len(s) THEN Len(s) - (n + 1) + 1 ELSE 0
      BY <2>1, <2>2, SubSeqProperties
    <2> DEFINE kept == SubSeq(s, n + 1, Len(s))
    <2>4. kept \in Seq(S) /\ Len(kept) = IF n + 1 <= Len(s) THEN Len(s) - (n + 1) + 1 ELSE 0
      BY <2>3
    <2> HIDE DEF kept
    <2>5. Len(kept) = Len(s) - n
      <3>1. n \in Nat /\ Len(s) \in Nat /\ n <= Len(s)
        BY <1>1, <1>2
      <3>2. CASE n = Len(s)
        BY <2>4, <3>1, <3>2
      <3>3. CASE n # Len(s)
        BY <2>4, <3>1, <3>3
      <3> QED  BY <3>2, <3>3
    <2> QED  BY <2>4, <2>5 DEF kept
  <1>6. SubSeq(s, 1, n) \o SubSeq(s, n + 1, Len(s)) = s
    <2>1. 1 \in 1 .. Len(s) + 1 /\ n \in 1 - 1 .. Len(s) /\ Len(s) \in n .. Len(s)
      BY <1>1, <1>2
    <2>2. SubSeq(s, 1, n) \o SubSeq(s, n + 1, Len(s)) = SubSeq(s, 1, Len(s))
      BY <2>1, ConcatAdjacentSubSeq
    <2> QED  BY <2>2, SubSeqFull
  <1>7. LineEnds(SubSeq(s, 1, n)) = {n}
    <2>1. DOMAIN SubSeq(s, 1, n) = 1 .. n
      BY <1>4, LenProperties
    <2>2. ASSUME NEW i \in 1 .. n, s[i] = LF PROVE i = n
      <3>1. i \in LineEnds(s)
        BY <1>1, <1>2, <2>2 DEF LineEnds
      <3> QED  BY <1>2, <3>1
    <2> QED  BY <1>2, <1>4, <2>1, <2>2 DEF LineEnds
  <1> QED  BY <1>2, <1>4, <1>5, <1>6, <1>7
--------------------------------------------------------------------------------
(* The actions.                                                               *)

\* A refusal's reason stays in what has been received.
LEMMA RefusalStays ==
  ASSUME TypeOK, OnlyLongLinesRefused, UNCHANGED refused,
         received' \in Seq(Bytes), Len(received') >= Len(received),
         \A k \in 1 .. Len(received) : received'[k] = received[k]
  PROVE  OnlyLongLinesRefused'
  <1> SUFFICES ASSUME refused
               PROVE  \E i \in 0 .. Len(received') :
                        /\ i + MAX_MSG_LENGTH + 1 <= Len(received')
                        /\ \A j \in 1 .. MAX_MSG_LENGTH + 1 : received'[i + j] # LF
    BY DEF OnlyLongLinesRefused
  <1>1. PICK i \in 0 .. Len(received) :
          /\ i + MAX_MSG_LENGTH + 1 <= Len(received)
          /\ \A j \in 1 .. MAX_MSG_LENGTH + 1 : received[i + j] # LF
    BY DEF OnlyLongLinesRefused
  <1>2. Len(received) \in Nat /\ Len(received') \in Nat
    BY LenProperties DEF TypeOK
  <1>3. \A j \in 1 .. MAX_MSG_LENGTH + 1 : i + j \in 1 .. Len(received)
    BY <1>1, <1>2, FramingAssumption
  <1>4. \A j \in 1 .. MAX_MSG_LENGTH + 1 : received'[i + j] # LF
    BY <1>1, <1>3
  <1>5. i \in 0 .. Len(received') /\ i + MAX_MSG_LENGTH + 1 <= Len(received')
    BY <1>1, <1>2, FramingAssumption
  <1> QED  BY <1>4, <1>5

\* What is read goes to the end of the stream and of the buffer.
LEMMA OnReadKeeps ==
  ASSUME FrameInv, OnRead
  PROVE  FrameInv'
  <1>0. PICK n \in 1 .. ChunkSize : \E chunk \in [1 .. n -> Bytes] :
          received' = received \o chunk /\ m_recvBuf' = m_recvBuf \o chunk
    BY DEF OnRead
  <1>1. PICK chunk \in [1 .. n -> Bytes] :
          received' = received \o chunk /\ m_recvBuf' = m_recvBuf \o chunk
    BY <1>0
  <1>2. chunk \in Seq(Bytes) /\ Len(chunk) = n
    BY FramingAssumption, <1>1
  <1>3. /\ UNCHANGED <<handed, ends, registered, closed, closedAgain>>
        /\ UNCHANGED <<sendFailed, reopened, refused>>
        /\ pc = "idle" /\ pc' = "decoding" /\ registered
    BY DEF OnRead, connVars
  <1>4. received \in Seq(Bytes) /\ m_recvBuf \in Seq(Bytes) /\ handed \in Seq(Bytes)
    BY DEF FrameInv, TypeOK
  <1>5. TypeOK'
    <2>1. received' \in Seq(Bytes) /\ m_recvBuf' \in Seq(Bytes) /\ handed' \in Seq(Bytes)
      BY <1>1, <1>2, <1>3, <1>4, ConcatProperties
    <2> QED  BY <1>3, <2>1 DEF FrameInv, TypeOK
  <1>6. PackagesAreLines'
    <2>1. handed \o (m_recvBuf \o chunk) = (handed \o m_recvBuf) \o chunk
      BY <1>2, <1>4, Regroup
    <2> QED  BY <1>1, <1>3, <2>1 DEF FrameInv, PackagesAreLines
  <1>7. ~reopened => BufferBounded' /\ ReadWhileOpen'
    <2> SUFFICES ASSUME ~reopened PROVE BufferBounded' /\ ReadWhileOpen'
      OBVIOUS
    <2>1. ~closed /\ ~refused
      BY <1>3 DEF FrameInv, ReadWhileOpen
    <2>2. Len(m_recvBuf) <= MAX_MSG_LENGTH
      BY <1>3, <2>1 DEF FrameInv, BufferBounded
    <2>3. Len(m_recvBuf') = Len(m_recvBuf) + n
      BY <1>1, <1>2, <1>4, ConcatProperties
    <2>4. Len(m_recvBuf) \in Nat
      BY <1>4, LenProperties
    <2>5. Len(m_recvBuf') <= MAX_MSG_LENGTH + ChunkSize
      BY FramingAssumption, <2>2, <2>3, <2>4
    <2> QED  BY <1>3, <2>1, <2>5 DEF BufferBounded, ReadWhileOpen
  <1>8. OnlyLongLinesRefused'
    <2>1. /\ Len(received') = Len(received) + n
          /\ \A k \in 1 .. Len(received) + n :
               received'[k] = IF k <= Len(received) THEN received[k] ELSE chunk[k - Len(received)]
      BY <1>1, <1>2, <1>4, ConcatProperties
    <2>2. Len(received) \in Nat
      BY <1>4, LenProperties
    <2>3. Len(received') >= Len(received) /\ \A k \in 1 .. Len(received) : received'[k] = received[k]
      BY <2>1, <2>2
    <2> QED  BY <1>3, <1>5, <2>3, RefusalStays DEF FrameInv, TypeOK
  <1> QED  BY <1>3, <1>5, <1>6, <1>7, <1>8 DEF FrameInv, PackageBounded, ClosedOnce

\* What a send leaves of the flags.
LEMMA SendOutcomeKeeps ==
  ASSUME FrameInv, SendOutcome
  PROVE  /\ registered' \in BOOLEAN /\ closed' \in BOOLEAN /\ closedAgain' \in BOOLEAN
         /\ sendFailed' \in BOOLEAN /\ reopened' \in BOOLEAN
         /\ ~reopened' => ~reopened
         /\ ~reopened' => (closed' => ~registered') /\ (closed => closed')
         /\ ~sendFailed' => ~sendFailed /\ closed' = closed
         /\ ClosedOnce'
  <1>1. CASE UNCHANGED <<connVars, sendFailed, reopened>>
    <2>1. UNCHANGED <<registered, closed, closedAgain>> /\ UNCHANGED <<sendFailed, reopened>>
      BY <1>1 DEF connVars
    <2> QED  BY <2>1, Zenon DEF FrameInv, TypeOK, ReadWhileOpen, ClosedOnce
  <1>2. CASE OnClose /\ sendFailed' = TRUE /\ UNCHANGED reopened
    <2>1. /\ registered' = FALSE /\ closed' = TRUE /\ closedAgain' = (closedAgain \/ closed)
          /\ sendFailed' = TRUE /\ reopened' = reopened
      BY <1>2 DEF OnClose
    <2> QED  BY <2>1, Zenon DEF FrameInv, TypeOK, ClosedOnce
  <1>3. CASE /\ registered' = TRUE /\ reopened' = (reopened \/ closed)
             /\ UNCHANGED <<closed, closedAgain, sendFailed>>
    <2>1. closed' = closed /\ closedAgain' = closedAgain /\ sendFailed' = sendFailed
      BY <1>3
    <2>2. registered' = TRUE /\ reopened' \in BOOLEAN
      BY <1>3
    <2>3. ~reopened' => ~reopened /\ ~closed
      BY <1>3
    <2>4. ClosedOnce'
      BY <2>1, <2>3, Zenon DEF FrameInv, ClosedOnce
    <2> QED  BY <2>1, <2>2, <2>3, <2>4, Zenon DEF FrameInv, TypeOK
  <1> QED  BY <1>1, <1>2, <1>3 DEF SendOutcome

\* A package goes from the buffer to the end of what was handled.
LEMMA DecodeLineKeeps ==
  ASSUME FrameInv, DecodeLine
  PROVE  FrameInv'
  <1>1. PICK n \in DOMAIN m_recvBuf : FirstLF(n) /\ Retrieve(n)
    BY DEF DecodeLine
  <1> DEFINE package == SubSeq(m_recvBuf, 1, n)
             kept == SubSeq(m_recvBuf, n + 1, Len(m_recvBuf))
  <1>2. received \in Seq(Bytes) /\ m_recvBuf \in Seq(Bytes) /\ handed \in Seq(Bytes)
    BY DEF FrameInv, TypeOK
  <1>3. /\ n \in 1 .. Len(m_recvBuf)
        /\ package \in Seq(Bytes) /\ kept \in Seq(Bytes)
        /\ Len(package) = n /\ Len(kept) = Len(m_recvBuf) - n
        /\ package \o kept = m_recvBuf
        /\ LineEnds(package) = {n}
    BY <1>1, <1>2, PackageOfBuffer DEF FirstLF
  <1>4. handed' = handed \o package /\ m_recvBuf' = kept
    BY <1>1 DEF Retrieve
  <1> HIDE DEF package, kept
  <1>5. /\ ends' = ends \union {Len(handed')} /\ pc = "decoding" /\ pc' = "decoding"
        /\ UNCHANGED <<received, refused>>
        /\ SendOutcome
    BY DEF DecodeLine, AfterPackage
  <1>6. Len(handed) \in Nat /\ Len(m_recvBuf) \in Nat
    BY <1>2, LenProperties
  <1>7. handed' \in Seq(Bytes) /\ Len(handed') = Len(handed) + n
    BY <1>2, <1>3, <1>4, ConcatProperties
  <1>8. TypeOK'
    <2>1. received' \in Seq(Bytes) /\ m_recvBuf' \in Seq(Bytes) /\ handed' \in Seq(Bytes)
      BY <1>2, <1>3, <1>4, <1>5, <1>7
    <2>2. pc' \in {"idle", "decoding"}
      BY <1>5
    <2>3. refused' \in BOOLEAN
      BY <1>5, Zenon DEF FrameInv, TypeOK
    <2> QED  BY <1>5, <2>1, <2>2, <2>3, SendOutcomeKeeps DEF TypeOK
  <1>9. PackagesAreLines'
    <2>1. (handed \o package) \o kept = handed \o m_recvBuf
      BY <1>2, <1>3, Regroup
    <2>2. LineEnds(handed') = LineEnds(handed) \union {Len(handed) + i : i \in {n}}
      BY <1>2, <1>3, <1>4, LineEndsOfConcat
    <2>3. LineEnds(handed') = ends'
      BY <1>5, <1>7, <2>2 DEF FrameInv, PackagesAreLines
    <2> QED  BY <1>4, <1>5, <2>1, <2>3 DEF FrameInv, PackagesAreLines
  <1>10. ~reopened' => BufferBounded' /\ ReadWhileOpen'
    <2> SUFFICES ASSUME ~reopened' PROVE BufferBounded' /\ ReadWhileOpen'
      OBVIOUS
    <2>1. ~reopened /\ BufferBounded /\ ReadWhileOpen
      BY <1>5, SendOutcomeKeeps DEF FrameInv
    <2>2. n \in LineEnds(m_recvBuf)
      BY <1>1 DEF FirstLF
    <2>3. ~refused /\ (closed => sendFailed)
      BY <1>5, <2>1, <2>2 DEF BufferBounded
    <2>4. ~refused' /\ (closed' => sendFailed')
      BY <1>5, <2>3, SendOutcomeKeeps
    <2>5. Len(m_recvBuf') <= MAX_MSG_LENGTH + ChunkSize
      BY <1>3, <1>4, <1>6, <2>1, FramingAssumption DEF BufferBounded
    <2> QED  BY <1>5, <2>4, <2>5, SendOutcomeKeeps DEF BufferBounded, ReadWhileOpen
  <1>11. PackageBounded'
    <2> SUFFICES ASSUME ~reopened'
                 PROVE  \A e \in ends' : \E b \in ends' \union {0} :
                          b < e /\ e - b <= MAX_MSG_LENGTH + ChunkSize
      BY DEF PackageBounded
    <2>1. ~reopened /\ BufferBounded
      BY <1>5, SendOutcomeKeeps DEF FrameInv
    <2>2. Len(handed) \in ends \union {0}
      <3>1. CASE handed = <<>>
        BY <3>1
      <3>2. CASE handed # <<>>
        BY <3>2 DEF FrameInv, PackagesAreLines
      <3> QED  BY <3>1, <3>2
    <2>3. n <= MAX_MSG_LENGTH + ChunkSize
      BY <1>3, <1>6, <2>1, FramingAssumption DEF BufferBounded
    <2>4. Len(handed) < Len(handed') /\ Len(handed') - Len(handed) <= MAX_MSG_LENGTH + ChunkSize
      BY <1>3, <1>6, <1>7, <2>3
    <2> QED  BY <1>5, <2>1, <2>2, <2>4 DEF FrameInv, PackageBounded
  <1>12. OnlyLongLinesRefused'
    BY <1>5 DEF FrameInv, OnlyLongLinesRefused
  <1> QED  BY <1>5, <1>8, <1>9, <1>10, <1>11, <1>12, SendOutcomeKeeps DEF FrameInv

\* A send between the reads.
LEMMA SendKeeps ==
  ASSUME FrameInv, Send
  PROVE  FrameInv'
  <1>1. SendOutcome /\ pc = "idle"
    BY DEF Send
  <1>2. UNCHANGED <<received, m_recvBuf, handed, ends>> /\ UNCHANGED <<pc, refused>>
    BY DEF Send, streamVars
  <1>3. TypeOK'
    BY <1>1, <1>2, SendOutcomeKeeps, Zenon DEF FrameInv, TypeOK
  <1>4. PackagesAreLines' /\ OnlyLongLinesRefused'
    BY <1>2 DEF FrameInv, PackagesAreLines, OnlyLongLinesRefused
  <1>5. ~reopened' => BufferBounded' /\ ReadWhileOpen'
    <2> SUFFICES ASSUME ~reopened' PROVE BufferBounded' /\ ReadWhileOpen'
      OBVIOUS
    <2>1. BufferBounded /\ ReadWhileOpen
      BY <1>1, SendOutcomeKeeps DEF FrameInv
    <2>2. BufferBounded'
      BY <1>1, <1>2, <2>1 DEF BufferBounded
    <2>3. ReadWhileOpen'
      BY <1>1, <1>2, <2>1, SendOutcomeKeeps, Zenon DEF ReadWhileOpen
    <2> QED  BY <2>2, <2>3
  <1>6. PackageBounded'
    BY <1>1, <1>2, SendOutcomeKeeps DEF FrameInv, PackageBounded
  <1> QED  BY <1>1, <1>3, <1>4, <1>5, <1>6, SendOutcomeKeeps DEF FrameInv

\* decodePackage wants more data.
LEMMA WantMoreDataKeeps ==
  ASSUME FrameInv, WantMoreData
  PROVE  FrameInv'
  <1>1. /\ UNCHANGED <<received, m_recvBuf, handed, ends>>
        /\ UNCHANGED <<registered, closed, closedAgain>>
        /\ UNCHANGED <<sendFailed, reopened, refused>>
        /\ LineEnds(m_recvBuf) = {} /\ pc' = "idle"
    BY DEF WantMoreData, streamVars, connVars
  <1>2. Len(m_recvBuf) <= MAX_MSG_LENGTH
    <2>1. Len(m_recvBuf) \in Nat
      BY LenProperties DEF FrameInv, TypeOK
    <2> QED  BY <2>1, FramingAssumption DEF WantMoreData, TooLong
  <1>3. TypeOK'
    BY <1>1, Zenon DEF FrameInv, TypeOK
  <1>4. PackagesAreLines' /\ OnlyLongLinesRefused'
    BY <1>1 DEF FrameInv, PackagesAreLines, OnlyLongLinesRefused
  <1>5. ~reopened' => BufferBounded' /\ ReadWhileOpen'
    BY <1>1, <1>2 DEF FrameInv, BufferBounded, ReadWhileOpen
  <1> QED  BY <1>1, <1>3, <1>4, <1>5 DEF FrameInv, PackageBounded, ClosedOnce

\* decodePackage fails.
LEMMA DecodeFailedKeeps ==
  ASSUME FrameInv, DecodeFailed
  PROVE  FrameInv'
  <1>1. /\ UNCHANGED <<received, m_recvBuf, handed, ends>>
        /\ UNCHANGED <<sendFailed, reopened>>
        /\ LineEnds(m_recvBuf) = {} /\ pc = "decoding" /\ pc' = "idle" /\ refused' = TRUE
        /\ registered' = FALSE /\ closed' = TRUE /\ closedAgain' = (closedAgain \/ closed)
    BY DEF DecodeFailed, OnClose, streamVars
  <1>2. Len(m_recvBuf) > MAX_MSG_LENGTH
    BY DEF DecodeFailed, TooLong
  <1>3. /\ handed \in Seq(Bytes) /\ m_recvBuf \in Seq(Bytes) /\ received = handed \o m_recvBuf
    BY DEF FrameInv, TypeOK, PackagesAreLines
  <1>4. Len(handed) \in Nat /\ Len(m_recvBuf) \in Nat /\ DOMAIN m_recvBuf = 1 .. Len(m_recvBuf)
    BY <1>3, LenProperties
  <1>5. TypeOK'
    BY <1>1, Zenon DEF FrameInv, TypeOK
  <1>6. PackagesAreLines'
    BY <1>1 DEF FrameInv, PackagesAreLines
  <1>7. ~reopened' => BufferBounded' /\ ReadWhileOpen'
    BY <1>1 DEF FrameInv, BufferBounded, ReadWhileOpen
  <1>8. ClosedOnce'
    <2> SUFFICES ASSUME ~sendFailed, ~reopened PROVE ~closed /\ ~closedAgain
      BY <1>1 DEF ClosedOnce
    <2>1. ~refused
      BY <1>1 DEF FrameInv, BufferBounded
    <2>2. ~closed
      BY <1>2, <1>4, <2>1, FramingAssumption DEF FrameInv, BufferBounded
    <2> QED  BY <2>2 DEF FrameInv, ClosedOnce
  <1>9. OnlyLongLinesRefused'
    <2>1. /\ Len(received) = Len(handed) + Len(m_recvBuf)
          /\ \A k \in 1 .. Len(handed) + Len(m_recvBuf) :
               received[k] = IF k <= Len(handed) THEN handed[k] ELSE m_recvBuf[k - Len(handed)]
      BY <1>3, ConcatProperties
    <2>2. ASSUME NEW j \in 1 .. MAX_MSG_LENGTH + 1 PROVE received[Len(handed) + j] # LF
      <3>1. /\ Len(handed) + j \in 1 .. Len(handed) + Len(m_recvBuf)
            /\ ~ (Len(handed) + j <= Len(handed)) /\ (Len(handed) + j) - Len(handed) = j
            /\ j \in 1 .. Len(m_recvBuf)
        BY <1>2, <1>4, FramingAssumption
      <3>2. received[Len(handed) + j] = m_recvBuf[j]
        BY <2>1, <3>1
      <3>3. m_recvBuf[j] # LF
        BY <1>1, <1>4, <3>1 DEF LineEnds
      <3> QED  BY <3>2, <3>3
    <2>3. Len(handed) \in 0 .. Len(received) /\ Len(handed) + MAX_MSG_LENGTH + 1 <= Len(received)
      BY <1>2, <1>4, <2>1, FramingAssumption
    <2>4. \E i \in 0 .. Len(received) :
            /\ i + MAX_MSG_LENGTH + 1 <= Len(received)
            /\ \A j \in 1 .. MAX_MSG_LENGTH + 1 : received[i + j] # LF
      BY <2>2, <2>3
    <2> QED  BY <1>1, <2>4 DEF OnlyLongLinesRefused
  <1> QED  BY <1>1, <1>5, <1>6, <1>7, <1>8, <1>9 DEF FrameInv, PackageBounded

\* The end of the stream.
LEMMA OnReadEndKeeps ==
  ASSUME FrameInv, OnReadEnd
  PROVE  FrameInv'
  <1>1. /\ UNCHANGED <<received, m_recvBuf, handed, ends>>
        /\ UNCHANGED <<sendFailed, reopened, refused>>
        /\ pc = "idle" /\ pc' = "decoding" /\ registered
        /\ registered' = FALSE /\ closed' = TRUE /\ closedAgain' = (closedAgain \/ closed)
    BY DEF OnReadEnd, OnClose, streamVars
  <1>2. TypeOK'
    BY <1>1, Zenon DEF FrameInv, TypeOK
  <1>3. PackagesAreLines' /\ OnlyLongLinesRefused'
    BY <1>1 DEF FrameInv, PackagesAreLines, OnlyLongLinesRefused
  <1>4. ~reopened => ~closed /\ ~refused
    BY <1>1 DEF FrameInv, ReadWhileOpen
  <1>5. ~reopened' => BufferBounded' /\ ReadWhileOpen'
    BY <1>1, <1>4 DEF FrameInv, BufferBounded, ReadWhileOpen
  <1>6. ClosedOnce'
    BY <1>1, <1>4 DEF FrameInv, ClosedOnce
  <1> QED  BY <1>1, <1>2, <1>3, <1>5, <1>6 DEF FrameInv, PackageBounded

\* FrameInv holds in every state: Init establishes it and each action keeps it.
THEOREM FrameInvariant == Spec => []FrameInv
  <1>1. Init => FrameInv
    <2> SUFFICES ASSUME Init PROVE FrameInv
      OBVIOUS
    <2>1. TypeOK
      BY EmptySeq DEF Init, TypeOK
    <2>2. LineEnds(<<>>) = {} /\ Len(<<>>) = 0 /\ <<>> \o <<>> = <<>>
      BY DEF LineEnds
    <2>3. PackagesAreLines
      BY <2>2 DEF Init, PackagesAreLines
    <2>4. BufferBounded /\ ReadWhileOpen
      BY <2>2, FramingAssumption DEF Init, BufferBounded, ReadWhileOpen
    <2>5. PackageBounded /\ ClosedOnce /\ OnlyLongLinesRefused
      BY DEF Init, PackageBounded, ClosedOnce, OnlyLongLinesRefused
    <2> QED  BY <2>1, <2>3, <2>4, <2>5 DEF FrameInv
  <1>2. FrameInv /\ UNCHANGED vars => FrameInv'
    BY DEF vars, streamVars, connVars, FrameInv, TypeOK, PackagesAreLines, BufferBounded,
       ReadWhileOpen, PackageBounded, ClosedOnce, OnlyLongLinesRefused
  <1>3. FrameInv /\ [Next]_vars => FrameInv'
    BY <1>2, OnReadKeeps, OnReadEndKeeps, DecodeLineKeeps, WantMoreDataKeeps,
       DecodeFailedKeeps, SendKeeps DEF Next, Decode
  <1> QED  BY <1>1, <1>3, PTL DEF Spec

\* However a client's bytes are cut into reads, its packages are its lines.
THEOREM PackagesAlwaysLines == Spec => []PackagesAreLines
  BY FrameInvariant, PTL DEF FrameInv

\* No package is longer than the limit and one read together.
THEOREM PackageAlwaysBounded == Spec => []PackageBounded
  BY FrameInvariant, PTL DEF FrameInv

\* The callback after the client has left closes nothing a second time.
THEOREM AlwaysClosedOnce == Spec => []ClosedOnce
  BY FrameInvariant, PTL DEF FrameInv

\* A client that is refused did send a run of too many bytes.
THEOREM OnlyLongLinesAlwaysRefused == Spec => []OnlyLongLinesRefused
  BY FrameInvariant, PTL DEF FrameInv
--------------------------------------------------------------------------------
(* Framing implements LineReader.                                             *)

\* What recv returns arrives.
LEMMA ReadReceives ==
  ASSUME FrameInv, FrameInv', OnRead
  PROVE  Lines!Receive
  <1>1. PICK n \in 1 .. ChunkSize : \E chunk \in [1 .. n -> Bytes] :
          received' = received \o chunk
    BY DEF OnRead
  <1>2. PICK chunk \in [1 .. n -> Bytes] : received' = received \o chunk
    BY <1>1
  <1>3. chunk \in Seq(Bytes) /\ Len(chunk) = n
    BY FramingAssumption, <1>2
  <1>4. received \in Seq(Bytes) /\ received' \in Seq(Bytes)
    BY DEF FrameInv, TypeOK
  <1>5. /\ Len(received') = Len(received) + n
        /\ \A i \in 1 .. Len(received) + n :
             received'[i] = IF i <= Len(received) THEN received[i] ELSE chunk[i - Len(received)]
    BY <1>2, <1>3, <1>4, ConcatProperties
  <1>6. Len(received) \in Nat
    BY <1>4, LenProperties
  <1>7. Len(received) <= Len(received') /\ \A i \in 1 .. Len(received) : received'[i] = received[i]
    BY <1>5, <1>6
  <1>8. UNCHANGED handed
    BY DEF OnRead
  <1> QED  BY <1>4, <1>7, <1>8 DEF Lines!Receive

\* What decodePackage cuts off is the next line of the stream.
LEMMA DecodeTakes ==
  ASSUME FrameInv, DecodeLine
  PROVE  Lines!Take
  <1>1. PICK n \in DOMAIN m_recvBuf : FirstLF(n) /\ Retrieve(n)
    BY DEF DecodeLine
  <1> DEFINE package == SubSeq(m_recvBuf, 1, n)
             kept == SubSeq(m_recvBuf, n + 1, Len(m_recvBuf))
             end == Len(handed) + n
  <1>2. /\ received = handed \o m_recvBuf
        /\ m_recvBuf \in Seq(Bytes) /\ handed \in Seq(Bytes)
    BY DEF FrameInv, TypeOK, PackagesAreLines
  <1>3. /\ n \in 1 .. Len(m_recvBuf) /\ Len(package) = n
        /\ package \in Seq(Bytes) /\ kept \in Seq(Bytes)
        /\ package \o kept = m_recvBuf
    BY <1>1, <1>2, PackageOfBuffer DEF FirstLF
  <1>4. handed' = handed \o package /\ UNCHANGED received
    BY <1>1 DEF Retrieve, DecodeLine
  <1> HIDE DEF package, kept
  <1>5. Len(handed) \in Nat /\ Len(m_recvBuf) \in Nat /\ DOMAIN m_recvBuf = 1 .. Len(m_recvBuf)
    BY <1>2, LenProperties
  <1>6. /\ Len(received) = Len(handed) + Len(m_recvBuf)
        /\ \A i \in 1 .. Len(handed) + Len(m_recvBuf) :
             received[i] = IF i <= Len(handed) THEN handed[i] ELSE m_recvBuf[i - Len(handed)]
    BY <1>2, ConcatProperties
  <1>7. end \in Len(handed) + 1 .. Len(received)
    BY <1>3, <1>5, <1>6
  <1>8. \A m \in Len(handed) + 1 .. Len(received) :
          m - Len(handed) \in 1 .. Len(m_recvBuf) /\ received[m] = m_recvBuf[m - Len(handed)]
    BY <1>5, <1>6
  <1>9. received[end] = LF
    <2>1. end - Len(handed) = n
      BY <1>3, <1>5
    <2> QED  BY <1>1, <1>7, <1>8, <2>1 DEF FirstLF, LineEnds
  <1>10. ASSUME NEW m \in Len(handed) + 1 .. end - 1
         PROVE  received[m] # LF
    <2>1. /\ m \in Len(handed) + 1 .. Len(received)
          /\ m - Len(handed) \in 1 .. Len(m_recvBuf) /\ ~ (n <= m - Len(handed))
      BY <1>3, <1>5, <1>6
    <2>2. m - Len(handed) \notin LineEnds(m_recvBuf)
      BY <1>1, <2>1 DEF FirstLF
    <2> QED  BY <1>5, <1>8, <2>1, <2>2 DEF LineEnds
  <1>11. handed' = SubSeq(received, 1, end)
    <2>1. handed' \in Seq(Bytes) /\ Len(handed') = end
      BY <1>2, <1>3, <1>4, ConcatProperties
    <2>2. received = handed' \o kept
      BY <1>2, <1>3, <1>4, Regroup
    <2>3. 1 \in 1 .. Len(handed') /\ Len(handed') \in 1 .. Len(handed')
      BY <1>3, <1>5, <2>1
    <2>4. SubSeq(handed' \o kept, 1, Len(handed')) = SubSeq(handed', 1, Len(handed'))
      BY <1>3, <2>1, <2>3, SubSeqOfConcat1
    <2> QED  BY <2>1, <2>2, <2>4, SubSeqFull
  <1>12. Lines!NextEnd(end)
    BY <1>7, <1>9, <1>10 DEF Lines!NextEnd
  <1> HIDE DEF end
  <1> QED  BY <1>4, <1>7, <1>11, <1>12 DEF Lines!Take

\* Every step of Framing takes the next line, receives, or does neither.
LEMMA StepReads == FrameInv /\ FrameInv' /\ [Next]_vars => [Lines!Next]_(Lines!vars)
  <1> SUFFICES ASSUME FrameInv, FrameInv', [Next]_vars
               PROVE  Lines!Next \/ UNCHANGED <<received, handed>>
    BY DEF Lines!vars
  <1>1. CASE OnReadEnd \/ WantMoreData \/ DecodeFailed \/ Send \/ UNCHANGED vars
    BY <1>1 DEF OnReadEnd, WantMoreData, DecodeFailed, Send, vars, streamVars
  <1> QED  BY <1>1, ReadReceives, DecodeTakes DEF Next, Decode, Lines!Next

\* For every stream and every way to cut it into reads, what is handled is
\* what a reader takes that gets the next whole line each time.
THEOREM FramingImplementsLineReader == Spec => ImplementsLineReader
  <1>1. Init => Lines!Init
    BY DEF Init, Lines!Init
  <1> QED  BY <1>1, StepReads, FrameInvariant, PTL DEF Spec, ImplementsLineReader, Lines!Spec
================================================================================
