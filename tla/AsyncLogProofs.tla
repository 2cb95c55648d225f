----------------------------- MODULE AsyncLogProofs -----------------------------
(***************************************************************************)
(* Theorems about AsyncLog, for all lengths, roll sizes, numbers of lines  *)
(* and seconds, with or without failures and FATAL lines.                  *)
(***************************************************************************)
EXTENDS AsyncLog, SequenceTheorems, TLAPS

-----------------------------------------------------------------------------
(* The invariant of the queue.                                             *)

\* The write thread has a line exactly from TakeLine to WriteLine; if it
\* returns in between, the line is never written.
HoldsLine ==
    /\ writer = "write" => strLine # << >>
    /\ strLine # << >> => writer \in {"write", "failed"}

\* The unwritten lines are numbered upwards, and no number is above made.
Numbered ==
    /\ \A j \in 1 .. Len(Unwritten) : Unwritten[j].id \in 1 .. made
    /\ \A j \in 1 .. Len(Unwritten) : \A i \in 1 .. j - 1 :
         Unwritten[i].id < Unwritten[j].id
    /\ \A n \in Seconds : \A i \in 1 .. Len(files[n]) : files[n][i].id <= made

LogInv == TypeOK /\ HoldsLine /\ Numbered /\ FilesInOrder

\* What a step does to the queue and the files, seen from outside: a line is
\* appended to the queue,
Appends ==
    /\ made < MaxLines /\ made' = made + 1
    /\ \E len \in Lengths :
         Unwritten' = Append(Unwritten, [id |-> made + 1, len |-> len])
    /\ UNCHANGED files

\* or the first line leaves it, for a file or for the console only,
Removes ==
    /\ UNCHANGED made
    /\ Unwritten # << >> /\ Unwritten' = Tail(Unwritten)
    /\ \/ UNCHANGED files
       \/ \E n \in Seconds :
            files' = [files EXCEPT ![n] = Append(@, Unwritten[1])]

\* or a file is emptied or gets the FATAL line, or nothing happens.
Keeps ==
    /\ UNCHANGED <<made, Unwritten>>
    /\ \/ UNCHANGED files
       \/ \E n \in Seconds : files' = [files EXCEPT ![n] = << >>]
       \/ \E n \in Seconds, len \in Lengths :
            files' = [files EXCEPT ![n] = Append(@, [id |-> 0, len |-> len])]

\* The line in hand is one line or none, so the unwritten lines are a
\* sequence of lines.
LEMMA UnwrittenSeq ==
    ASSUME NEW hand \in Seq(Line), Len(hand) \in {0, 1}, NEW queue \in Seq(Line)
    PROVE  /\ hand \o queue \in Seq(Line)
           /\ hand = << >> => hand \o queue = queue
           /\ hand # << >> =>
                /\ hand[1] \in Line
                /\ hand \o queue # << >>
                /\ (hand \o queue)[1] = hand[1]
                /\ Tail(hand \o queue) = queue
  <1>1. CASE hand = << >>
    BY <1>1
  <1>2. CASE hand # << >>
    <2>1. Len(hand) = 1 /\ hand[1] \in Line
      <3>1. Len(hand) \in Nat /\ Len(hand) # 0
        BY <1>2, EmptySeq
      <3>2. Len(hand) = 1
        BY <3>1
      <3>3. hand[1] \in Line
        <4>1. 1 \in 1 .. Len(hand)
          BY <3>2
        <4> QED  BY <4>1, ElementOfSeq
      <3> QED  BY <3>2, <3>3
    <2>2. /\ hand \o queue \in Seq(Line) /\ Len(hand \o queue) = Len(queue) + 1
          /\ (hand \o queue)[1] = hand[1]
          /\ \A i \in 1 .. Len(queue) : (hand \o queue)[i + 1] = queue[i]
      BY <2>1, ConcatProperties
    <2>3. /\ Tail(hand \o queue) \in Seq(Line)
          /\ Len(Tail(hand \o queue)) = Len(queue)
          /\ \A i \in 1 .. Len(queue) : Tail(hand \o queue)[i] = queue[i]
      BY <2>2, HeadTailProperties
    <2>4. Tail(hand \o queue) = queue
      BY <2>3, SeqEqual
    <2> QED  BY <2>1, <2>2, <2>4
  <1> QED  BY <1>1, <1>2

\* UnwrittenSeq for the two variables.
LEMMA UnwrittenType ==
    ASSUME TypeOK
    PROVE  /\ Unwritten \in Seq(Line)
           /\ strLine = << >> => Unwritten = m_listLinesToWrite
           /\ strLine # << >> =>
                /\ strLine[1] \in Line
                /\ Unwritten # << >>
                /\ Unwritten[1] = strLine[1]
                /\ Tail(Unwritten) = m_listLinesToWrite
  BY UnwrittenSeq DEF TypeOK, Unwritten

-----------------------------------------------------------------------------
(* Types, and the effect of every step.                                    *)

\* writeToFile writes lines where lines are.
LEMMA WriteType ==
    ASSUME TypeOK, NEW line \in Line, WriteToFile(line)
    PROVE  files' \in [Seconds -> Seq(Line)] /\ size' \in [Seconds -> Nat]
  <1>1. line.len \in Nat
    BY LogAssumption DEF Line
  <1>2. m_hLogFile.open => m_hLogFile.name \in Seconds
    BY DEF TypeOK, Handle, NULL
  <1>3. CASE m_hLogFile.open
    <2>1. /\ files' = [files EXCEPT ![m_hLogFile.name] = Append(@, line)]
          /\ size' = [size EXCEPT ![m_hLogFile.name] = @ + line.len]
      BY <1>3 DEF WriteToFile
    <2> QED  BY <1>1, <1>2, <1>3, <2>1 DEF TypeOK
  <1>4. CASE ~ m_hLogFile.open
    BY <1>4 DEF WriteToFile, disk, TypeOK
  <1> QED  BY <1>3, <1>4

\* TypeOK and HoldsLine are inductive together.
LEMMA TypeStep ==
    ASSUME TypeOK, HoldsLine, [Next]_vars
    PROVE  TypeOK' /\ HoldsLine'
  <1> USE LogAssumption DEF TypeOK, HoldsLine, queueVars, writerVars, fileVars, disk
  <1>1. ASSUME NEW len \in Lengths, Output(len) PROVE TypeOK' /\ HoldsLine'
    <2>1. [id |-> made + 1, len |-> len] \in Line
      BY <1>1 DEF Output, Line
    <2> QED  BY <1>1, <2>1 DEF Output, Notify
  <1>2. CASE UninitStep
    BY <1>2 DEF UninitStep, UninitFlag, UninitNotify, UninitJoin, Notify
  <1>3. CASE Tick
    BY <1>3, SMTT(40) DEF Tick, Seconds
  <1>4. CASE FatalOutput
    BY <1>4 DEF FatalOutput
  <1>5. ASSUME OpenFile \/ OpenFails
        PROVE  /\ m_hLogFile' \in Handle \cup {NULL}
               /\ files' \in [Seconds -> Seq(Line)] /\ size' \in [Seconds -> Nat]
    <2>1. CASE OpenFile
      <3>1. m_hLogFile' \in Handle
        BY <2>1 DEF OpenFile, Handle
      <3>2. files' \in [Seconds -> Seq(Line)] /\ size' \in [Seconds -> Nat]
        BY <2>1 DEF OpenFile
      <3> QED  BY <3>1, <3>2
    <2>2. CASE OpenFails
      BY <2>2 DEF OpenFails
    <2> QED  BY <1>5, <2>1, <2>2
  <1>6. CASE FatalCreate
    BY <1>5, <1>6 DEF FatalCreate
  <1>7. CASE FatalWrite
    <2>1. \A len \in Lengths : [id |-> 0, len |-> len] \in Line
      BY DEF Line
    <2>2. files' \in [Seconds -> Seq(Line)] /\ size' \in [Seconds -> Nat]
      BY <1>7, <2>1, WriteType DEF FatalWrite
    <2> QED  BY <1>7, <2>2 DEF FatalWrite
  <1>8. CASE Crash
    BY <1>8 DEF Crash
  <1>9. CASE Start \/ SameFile
    BY <1>9 DEF Start, SameFile, WriterPc
  <1>10. CASE FindEmpty
    BY <1>10 DEF FindEmpty, WriterPc
  <1>11. CASE WriteFails
    BY <1>11 DEF WriteFails, WriterPc
  <1>12. CASE Wait \/ WakeUp \/ WakeSpuriously
    <2>1. CASE Wait
      BY <2>1 DEF Wait, WriterPc
    <2>2. CASE WakeUp
      BY <2>2 DEF WakeUp, WriterPc
    <2>3. CASE WakeSpuriously
      BY <2>3 DEF WakeSpuriously, WriterPc
    <2> QED  BY <1>12, <2>1, <2>2, <2>3
  <1>13. CASE Roll
    <2>1. m_hLogFile' \in Handle \cup {NULL}
      BY <1>13 DEF Roll, Handle
    <2> QED  BY <1>13, <2>1 DEF Roll, WriterPc
  <1>14. CASE OpenNewFile
    BY <1>5, <1>14 DEF OpenNewFile, WriterPc
  <1>15. CASE TakeLine
    BY <1>15 DEF TakeLine, WriterPc
  <1>16. CASE WriteLine
    <2>1. strLine[1] \in Line /\ strLine[1].len \in Nat
      <3>1. strLine # << >>
        BY <1>16 DEF WriteLine
      <3> QED  BY <3>1, UnwrittenType DEF Line
    <2>2. files' \in [Seconds -> Seq(Line)] /\ size' \in [Seconds -> Nat]
      <3>1. CASE toFile
        <4>1. WriteToFile(strLine[1])
          BY <1>16, <3>1 DEF WriteLine
        <4> QED  BY <2>1, <4>1, WriteType
      <3>2. CASE ~ toFile
        BY <1>16, <3>2 DEF WriteLine
      <3> QED  BY <3>1, <3>2
    <2>3. /\ writer' = "top" /\ strLine' = << >> /\ m_nCurrentWrittenSize' \in Nat
          /\ UNCHANGED <<toFile, m_listLinesToWrite, made, notified, m_bRunning,
                         m_bExit, uninit, fatal, m_hLogFile, now>>
      BY <1>16, <2>1 DEF WriteLine
    <2>4. << >> \in Seq(Line) /\ Len(<< >>) \in {0, 1}
      BY EmptySeq
    <2> QED  BY <2>2, <2>3, <2>4 DEF WriterPc
  <1>17. CASE UNCHANGED vars
    BY <1>17 DEF vars
  <1> QED
    BY <1>1, <1>2, <1>3, <1>4, <1>5, <1>6, <1>7, <1>8, <1>9,
       <1>10, <1>11, <1>12, <1>13, <1>14, <1>15, <1>16, <1>17
    DEF Next, FatalStep, WriterStep

\* Every step of the program is one of the three.
LEMMA StepEffect ==
    ASSUME TypeOK, HoldsLine, [Next]_vars
    PROVE  Appends \/ Removes \/ Keeps
  <1> USE DEF queueVars, writerVars, fileVars, disk
  <1>1. ASSUME NEW len \in Lengths, Output(len) PROVE Appends
    <2>1. Unwritten' = Append(Unwritten, [id |-> made + 1, len |-> len])
      <3>1. strLine \in Seq(Line) /\ m_listLinesToWrite \in Seq(Line)
        BY DEF TypeOK
      <3> QED  BY <1>1, <3>1 DEF Output, Unwritten
    <2> QED  BY <1>1, <2>1 DEF Output, Appends
  <1>2. CASE UninitStep \/ Tick \/ FatalOutput \/ Crash
    BY <1>2 DEF UninitStep, UninitFlag, UninitNotify, UninitJoin, Tick, FatalOutput,
       Crash, Keeps, Unwritten
  <1>3. CASE FatalCreate
    BY <1>3 DEF FatalCreate, OpenFile, OpenFails, Keeps, Unwritten, TypeOK
  <1>4. CASE FatalWrite
    <2>1. m_hLogFile.open => m_hLogFile.name \in Seconds
      BY DEF TypeOK, Handle, NULL
    <2> QED  BY <1>4, <2>1 DEF FatalWrite, WriteToFile, Keeps, Unwritten
  <1>5. CASE Start \/ SameFile \/ Roll \/ FindEmpty \/ Wait \/ WakeUp
             \/ WakeSpuriously \/ WriteFails
    BY <1>5 DEF Start, SameFile, Roll, FindEmpty, Wait, WakeUp, WakeSpuriously,
       WriteFails, Keeps, Unwritten
  <1>6. CASE OpenNewFile
    BY <1>6 DEF OpenNewFile, OpenFile, OpenFails, Keeps, Unwritten, TypeOK
  <1>7. CASE TakeLine
    <2>1. strLine = << >> /\ m_listLinesToWrite # << >>
      BY <1>7 DEF TakeLine, HoldsLine
    <2>2. Unwritten' = <<Head(m_listLinesToWrite)>> \o Tail(m_listLinesToWrite)
      BY <1>7 DEF TakeLine, Unwritten
    <2>3. <<Head(m_listLinesToWrite)>> \o Tail(m_listLinesToWrite) = m_listLinesToWrite
      BY <2>1 DEF TypeOK
    <2> QED  BY <1>7, <2>1, <2>2, <2>3, UnwrittenType DEF TakeLine, Keeps
  <1>8. CASE WriteLine
    <2>1. strLine # << >>
      BY <1>8 DEF WriteLine, HoldsLine
    <2>2. Unwritten' = Tail(Unwritten)
      <3>1. Unwritten' = << >> \o m_listLinesToWrite
        BY <1>8 DEF WriteLine, Unwritten
      <3> QED  BY <2>1, <3>1, UnwrittenType DEF TypeOK
    <2>3. m_hLogFile.open => m_hLogFile.name \in Seconds
      BY DEF TypeOK, Handle, NULL
    <2> QED  BY <1>8, <2>1, <2>2, <2>3, UnwrittenType DEF WriteLine, WriteToFile, Removes
  <1>9. CASE UNCHANGED vars
    BY <1>9 DEF vars, Keeps, Unwritten
  <1> QED
    BY <1>1, <1>2, <1>3, <1>4, <1>5, <1>6, <1>7, <1>8, <1>9 DEF Next, FatalStep, WriterStep

-----------------------------------------------------------------------------
(* The order of the lines.                                                 *)

\* The numbering and the order in the files survive every step.
LEMMA OrderStep ==
    ASSUME LogInv, TypeOK', Unwritten' \in Seq(Line), Appends \/ Removes \/ Keeps
    PROVE  Numbered' /\ FilesInOrder'
  <1>1. /\ Unwritten \in Seq(Line) /\ Unwritten' \in Seq(Line)
        /\ made \in Nat /\ made' \in Nat /\ files \in [Seconds -> Seq(Line)]
        /\ \A line \in Line : line.id \in Nat
    <2>1. Unwritten \in Seq(Line)
      BY UnwrittenType DEF LogInv
    <2>2. \A line \in Line : line.id \in Nat
      BY DEF Line
    <2> QED  BY <2>1, <2>2, LogAssumption DEF LogInv, TypeOK
  <1>2. /\ Len(Unwritten) \in Nat
        /\ \A i \in 1 .. Len(Unwritten) : Unwritten[i].id \in Nat
        /\ \A n \in Seconds : /\ Len(files[n]) \in Nat
                              /\ \A i \in 1 .. Len(files[n]) : files[n][i].id \in Nat
    BY <1>1
  <1>3. CASE Appends
    <2>1. PICK len \in Lengths : Unwritten' = Append(Unwritten, [id |-> made + 1, len |-> len])
      BY <1>3 DEF Appends
    <2>2. /\ made' = made + 1 /\ files' = files /\ Len(Unwritten') = Len(Unwritten) + 1
          /\ \A j \in 1 .. Len(Unwritten) : Unwritten'[j] = Unwritten[j]
          /\ Unwritten'[Len(Unwritten) + 1].id = made + 1
      BY <1>1, <1>3, <2>1 DEF Appends
    <2>3. \A j \in 1 .. Len(Unwritten') : j \in 1 .. Len(Unwritten) \/ j = Len(Unwritten) + 1
      BY <1>2, <2>2
    <2>4. \A j \in 1 .. Len(Unwritten) : Unwritten[j].id \in Nat /\ Unwritten[j].id <= made
      BY <1>2 DEF LogInv, Numbered
    <2>5. Numbered'
      <3>1. \A j \in 1 .. Len(Unwritten') : Unwritten'[j].id \in 1 .. made'
        BY <1>1, <2>2, <2>3 DEF LogInv, Numbered
      <3>2. \A j \in 1 .. Len(Unwritten') : \A i \in 1 .. j - 1 :
              Unwritten'[i].id < Unwritten'[j].id
        <4> SUFFICES ASSUME NEW j \in 1 .. Len(Unwritten'), NEW i \in 1 .. j - 1
                     PROVE  Unwritten'[i].id < Unwritten'[j].id
          OBVIOUS
        <4>1. i \in 1 .. Len(Unwritten) /\ Unwritten'[i] = Unwritten[i]
          BY <1>2, <2>2
        <4>2. CASE j \in 1 .. Len(Unwritten)
          BY <2>2, <4>1, <4>2 DEF LogInv, Numbered
        <4>3. CASE j = Len(Unwritten) + 1
          BY <1>1, <2>2, <2>4, <4>1, <4>3
        <4> QED  BY <2>3, <4>2, <4>3
      <3>3. \A n \in Seconds : \A i \in 1 .. Len(files'[n]) : files'[n][i].id <= made'
        BY <1>1, <1>2, <2>2 DEF LogInv, Numbered
      <3> QED  BY <3>1, <3>2, <3>3 DEF Numbered
    <2>6. FilesInOrder'
      <3> SUFFICES ASSUME NEW n \in Seconds, NEW i \in 1 .. Len(files[n]), files[n][i].id > 0
                   PROVE  /\ \A j \in 1 .. i - 1 : files[n][j].id < files[n][i].id
                          /\ \A j \in 1 .. Len(Unwritten') : files[n][i].id < Unwritten'[j].id
        BY <2>2 DEF FilesInOrder
      <3>1. /\ \A j \in 1 .. i - 1 : files[n][j].id < files[n][i].id
            /\ \A j \in 1 .. Len(Unwritten) : files[n][i].id < Unwritten[j].id
            /\ files[n][i].id \in Nat /\ files[n][i].id <= made
        BY <1>2 DEF LogInv, FilesInOrder, Numbered
      <3> QED  BY <1>1, <2>2, <2>3, <3>1
    <2> QED  BY <2>5, <2>6
  <1>4. CASE Removes
    <2>1. /\ Len(Unwritten) > 0 /\ Len(Unwritten') = Len(Unwritten) - 1
          /\ \A j \in 1 .. Len(Unwritten') : Unwritten'[j] = Unwritten[j + 1]
      BY <1>1, <1>4, EmptySeq, HeadTailProperties DEF Removes
    <2>2. ASSUME NEW j \in 1 .. Len(Unwritten')
          PROVE  /\ j + 1 \in 1 .. Len(Unwritten)
                 /\ Unwritten'[j].id \in 1 .. made
                 /\ Unwritten[1].id < Unwritten'[j].id
                 /\ \A i \in 1 .. j - 1 : Unwritten'[i].id < Unwritten'[j].id
      <3>1. j + 1 \in 1 .. Len(Unwritten) /\ Unwritten'[j] = Unwritten[j + 1]
        BY <1>2, <2>1
      <3>2. \A i \in 1 .. (j + 1) - 1 : Unwritten[i].id < Unwritten[j + 1].id
        BY <3>1 DEF LogInv, Numbered
      <3>3. \A i \in 1 .. j - 1 : /\ i + 1 \in 1 .. (j + 1) - 1
                                  /\ Unwritten'[i] = Unwritten[i + 1]
        BY <1>2, <2>1, SMTT(40)
      <3>4. 1 \in 1 .. (j + 1) - 1
        BY <3>1
      <3>5. Unwritten[j + 1].id \in 1 .. made
        BY <3>1 DEF LogInv, Numbered
      <3> QED  BY <3>1, <3>2, <3>3, <3>4, <3>5
    <2>3. 1 \in 1 .. Len(Unwritten) /\ Unwritten[1].id \in 1 .. made
      <3>1. 1 \in 1 .. Len(Unwritten)
        BY <1>2, <2>1
      <3> QED  BY <3>1 DEF LogInv, Numbered
    <2>4. ASSUME NEW n \in Seconds, NEW i \in 1 .. Len(files[n]), files[n][i].id > 0
          PROVE  /\ files[n][i].id < Unwritten[1].id
                 /\ \A j \in 1 .. Len(Unwritten') : files[n][i].id < Unwritten'[j].id
      <3>1. \A j \in 1 .. Len(Unwritten) : files[n][i].id < Unwritten[j].id
        BY <2>4 DEF LogInv, FilesInOrder
      <3>2. \A j \in 1 .. Len(Unwritten') :
              j + 1 \in 1 .. Len(Unwritten) /\ Unwritten'[j] = Unwritten[j + 1]
        BY <2>1, <2>2
      <3> QED  BY <2>3, <3>1, <3>2
    <2>5. CASE UNCHANGED files
      <3>1. Numbered'
        BY <1>4, <2>2, <2>5 DEF Removes, LogInv, Numbered
      <3>2. FilesInOrder'
        BY <2>4, <2>5 DEF LogInv, FilesInOrder
      <3> QED  BY <3>1, <3>2
    <2>6. ASSUME NEW n \in Seconds,
                 files' = [files EXCEPT ![n] = Append(@, Unwritten[1])]
          PROVE  Numbered' /\ FilesInOrder'
      <3>1. /\ \A m \in Seconds \ {n} : files'[m] = files[m]
            /\ files'[n] = Append(files[n], Unwritten[1])
        BY <1>1, <2>6
      <3>2. /\ Len(files'[n]) = Len(files[n]) + 1
            /\ files'[n][Len(files[n]) + 1] = Unwritten[1]
            /\ \A i \in 1 .. Len(files[n]) : files'[n][i] = files[n][i]
        <4>1. files[n] \in Seq(Line) /\ Unwritten[1] \in Line
          BY <1>1, <2>3
        <4> QED  BY <3>1, <4>1
      <3>3. \A i \in 1 .. Len(files[n]) : files[n][i].id < Unwritten[1].id
        BY <1>2, <2>3, <2>4
      <3>4. Numbered'
        <4>1. ASSUME NEW m \in Seconds, NEW i \in 1 .. Len(files'[m])
              PROVE  files'[m][i].id <= made'
          <5>1. CASE m # n
            BY <1>4, <3>1, <5>1 DEF Removes, LogInv, Numbered
          <5>2. CASE m = n /\ i \in 1 .. Len(files[n])
            BY <1>4, <3>2, <5>2 DEF Removes, LogInv, Numbered
          <5>3. CASE m = n /\ i = Len(files[n]) + 1
            BY <1>4, <2>3, <3>2, <5>3 DEF Removes
          <5> QED  BY <1>2, <3>2, <5>1, <5>2, <5>3
        <4> QED  BY <1>4, <2>2, <4>1 DEF Removes, Numbered
      <3>5. ASSUME NEW m \in Seconds, NEW i \in 1 .. Len(files'[m]),
                   files'[m][i].id > 0
            PROVE  /\ \A j \in 1 .. i - 1 : files'[m][j].id < files'[m][i].id
                   /\ \A j \in 1 .. Len(Unwritten') : files'[m][i].id < Unwritten'[j].id
        <4>1. CASE m # n
          BY <2>4, <3>1, <3>5, <4>1 DEF LogInv, FilesInOrder
        <4>2. CASE m = n /\ i \in 1 .. Len(files[n])
          <5>1. files'[n][i] = files[n][i] /\ files[n][i].id > 0
            BY <3>2, <3>5, <4>2
          <5>2. \A j \in 1 .. i - 1 : files[n][j].id < files[n][i].id
            BY <4>2, <5>1 DEF LogInv, FilesInOrder
          <5>3. \A j \in 1 .. i - 1 : files'[n][j] = files[n][j]
            BY <1>2, <3>2, <4>2
          <5> QED  BY <2>4, <4>2, <5>1, <5>2, <5>3
        <4>3. CASE m = n /\ i = Len(files[n]) + 1
          <5>1. \A j \in 1 .. i - 1 : j \in 1 .. Len(files[n])
            BY <1>2, <4>3
          <5> QED  BY <2>2, <3>2, <3>3, <4>3, <5>1
        <4>4. Len(files[n]) \in Nat
          BY <1>2
        <4>5. m = n => i \in 1 .. Len(files[n]) \/ i = Len(files[n]) + 1
          BY <3>2, <4>4
        <4> QED  BY <4>1, <4>2, <4>3, <4>5
      <3>6. FilesInOrder'
        BY <3>5 DEF FilesInOrder
      <3> QED  BY <3>4, <3>6
    <2> QED  BY <1>4, <2>5, <2>6 DEF Removes
  <1>5. CASE Keeps
    <2>1. CASE UNCHANGED files
      BY <1>5, <2>1 DEF Keeps, LogInv, Numbered, FilesInOrder
    <2>2. ASSUME NEW n \in Seconds, files' = [files EXCEPT ![n] = << >>]
          PROVE  Numbered' /\ FilesInOrder'
      <3>1. \A m \in Seconds : files'[m] = IF m = n THEN << >> ELSE files[m]
        BY <1>1, <2>2
      <3> QED  BY <1>5, <3>1 DEF Keeps, LogInv, Numbered, FilesInOrder
    <2>3. ASSUME NEW n \in Seconds, NEW len \in Lengths,
                 files' = [files EXCEPT ![n] = Append(@, [id |-> 0, len |-> len])]
          PROVE  Numbered' /\ FilesInOrder'
      <3>1. /\ \A m \in Seconds \ {n} : files'[m] = files[m]
            /\ files'[n] = Append(files[n], [id |-> 0, len |-> len])
        BY <1>1, <2>3
      <3>2. /\ Len(files'[n]) = Len(files[n]) + 1
            /\ files'[n][Len(files[n]) + 1].id = 0
            /\ \A i \in 1 .. Len(files[n]) : files'[n][i] = files[n][i]
        <4>1. files[n] \in Seq(Line)
          BY <1>1
        <4> QED  BY <3>1, <4>1
      <3>3. ASSUME NEW m \in Seconds, NEW i \in 1 .. Len(files'[m])
            PROVE  \/ files'[m][i].id = 0
                   \/ /\ i \in 1 .. Len(files[m])
                      /\ files'[m][i] = files[m][i]
                      /\ \A j \in 1 .. i - 1 : files'[m][j] = files[m][j]
        <4>1. CASE m # n
          <5>1. files'[m] = files[m]
            BY <3>1, <4>1
          <5>2. \A j \in 1 .. i - 1 : files'[m][j] = files[m][j]
            BY <5>1
          <5> QED  BY <5>1, <5>2
        <4>2. CASE m = n /\ i \in 1 .. Len(files[n])
          <5>1. \A j \in 1 .. i - 1 : j \in 1 .. Len(files[n])
            BY <1>2, <4>2
          <5> QED  BY <3>2, <4>2, <5>1
        <4>3. CASE m = n /\ i = Len(files[n]) + 1
          BY <3>2, <4>3
        <4> QED  BY <1>2, <3>2, <4>1, <4>2, <4>3
      <3>4. Numbered'
        <4>1. ASSUME NEW m \in Seconds, NEW i \in 1 .. Len(files'[m])
              PROVE  files'[m][i].id <= made'
          <5>1. made' = made /\ 0 <= made
            BY <1>1, <1>5 DEF Keeps
          <5>2. CASE files'[m][i].id = 0
            BY <5>1, <5>2
          <5>3. CASE i \in 1 .. Len(files[m]) /\ files'[m][i] = files[m][i]
            BY <5>1, <5>3 DEF LogInv, Numbered
          <5> QED  BY <3>3, <5>2, <5>3
        <4> QED  BY <1>5, <4>1 DEF Keeps, LogInv, Numbered
      <3>5. FilesInOrder'
        <4>1. ASSUME NEW m \in Seconds, NEW i \in 1 .. Len(files'[m]),
                     files'[m][i].id > 0
              PROVE  /\ \A j \in 1 .. i - 1 : files'[m][j].id < files'[m][i].id
                     /\ \A j \in 1 .. Len(Unwritten') : files'[m][i].id < Unwritten'[j].id
          <5>1. /\ i \in 1 .. Len(files[m]) /\ files'[m][i] = files[m][i]
                /\ \A j \in 1 .. i - 1 : files'[m][j] = files[m][j]
            BY <3>3, <4>1
          <5> QED  BY <1>5, <4>1, <5>1 DEF Keeps, LogInv, FilesInOrder
        <4> QED  BY <4>1 DEF FilesInOrder
      <3> QED  BY <3>4, <3>5
    <2> QED  BY <1>5, <2>1, <2>2, <2>3 DEF Keeps
  <1> QED  BY <1>3, <1>4, <1>5

\* LogInv is inductive.
LEMMA LogInvariant == Spec => []LogInv
  <1>1. Init => LogInv
    <2> SUFFICES ASSUME Init PROVE LogInv
      OBVIOUS
    <2>1. TypeOK
      <3>1. 1 \in Seconds
        BY LogAssumption DEF Seconds
      <3>2. [n \in Seconds |-> << >>] \in [Seconds -> Seq(Line)]
        OBVIOUS
      <3>3. 0 \in 0 .. MaxLines /\ [n \in Seconds |-> 0] \in [Seconds -> Nat]
        BY LogAssumption
      <3>4. << >> \in Seq(Line) /\ Len(<< >>) \in {0, 1}
        BY EmptySeq
      <3> QED  BY <3>1, <3>2, <3>3, <3>4 DEF Init, TypeOK, WriterPc
    <2>2. Unwritten = << >> /\ \A n \in Seconds : files[n] = << >>
      BY DEF Init, Unwritten
    <2>3. HoldsLine /\ Numbered /\ FilesInOrder
      BY <2>2 DEF Init, HoldsLine, Numbered, FilesInOrder
    <2> QED  BY <2>1, <2>3 DEF LogInv
  <1>2. LogInv /\ [Next]_vars => LogInv'
    <2> SUFFICES ASSUME LogInv, [Next]_vars PROVE LogInv'
      OBVIOUS
    <2>1. TypeOK' /\ HoldsLine'
      BY TypeStep DEF LogInv
    <2>2. Unwritten' \in Seq(Line)
      BY <2>1, UnwrittenSeq DEF TypeOK, Unwritten
    <2> QED  BY <2>1, <2>2, StepEffect, OrderStep DEF LogInv
  <1> QED  BY <1>1, <1>2, PTL DEF Spec

\* Types, for every instance.
THEOREM LogTypeOK == Spec => []TypeOK
  BY LogInvariant, PTL DEF LogInv

\* In no file, over rolls, failures and FATAL lines, does a line stand before
\* one that was output earlier.
THEOREM FilesAlwaysInOrder == Spec => []FilesInOrder
  BY LogInvariant, PTL DEF LogInv

\* The queue and the write thread implement TaskMailbox: no line is lost,
\* written twice or overtaken between push, pop and write.
THEOREM LogImplementsMailbox == Spec => ImplementsMailbox
  <1>1. Init => Mailbox!Init
    BY DEF Init, Mailbox!Init, Unwritten
  <1>2. LogInv /\ [Next]_vars => [Mailbox!Next]_Unwritten
    <2> SUFFICES ASSUME LogInv, [Next]_vars PROVE [Mailbox!Next]_Unwritten
      OBVIOUS
    <2>1. CASE Appends
      <3>1. PICK len \in Lengths : Unwritten' = Append(Unwritten, [id |-> made + 1, len |-> len])
        BY <2>1 DEF Appends
      <3>2. [id |-> made + 1, len |-> len] \in Line
        BY <2>1, LogAssumption DEF Appends, LogInv, TypeOK, Line
      <3> QED  BY <3>1, <3>2 DEF Mailbox!Next, Mailbox!Add
    <2>2. CASE Removes
      BY <2>2 DEF Removes, Mailbox!Next, Mailbox!Run
    <2>3. CASE Keeps
      BY <2>3 DEF Keeps
    <2> QED  BY <2>1, <2>2, <2>3, StepEffect DEF LogInv
  <1> QED  BY <1>1, <1>2, LogInvariant, PTL DEF Spec, ImplementsMailbox, Mailbox!Spec

-----------------------------------------------------------------------------
(* The file of the write thread.                                           *)

\* Without FATAL lines only the write thread closes the file, and uninit once
\* the thread has returned.
OnlyWriterCloses ==
    fatal = "off" =>
        /\ uninit = "closed" => WriterGone
        /\ toFile /\ writer \in {"start", "top"} /\ m_hLogFile # NULL
             => m_hLogFile.open
        /\ toFile /\ writer \in {"lock", "empty", "waiting", "write"}
             => m_hLogFile.open

LEMMA WriterCloses == Spec => []OnlyWriterCloses
  <1>1. Init => OnlyWriterCloses
    BY DEF Init, OnlyWriterCloses
  <1>2. TypeOK /\ OnlyWriterCloses /\ [Next]_vars => OnlyWriterCloses'
    <2> SUFFICES ASSUME TypeOK, OnlyWriterCloses, [Next]_vars, fatal' = "off"
                 PROVE  OnlyWriterCloses'
      BY DEF OnlyWriterCloses
    <2> USE DEF OnlyWriterCloses, queueVars, writerVars, fileVars, disk, WriterGone
    <2>1. CASE \E len \in Lengths : Output(len)
      BY <2>1 DEF Output
    <2>2. CASE UninitStep
      BY <2>2 DEF UninitStep, UninitFlag, UninitNotify, UninitJoin
    <2>3. CASE Tick \/ FatalOutput \/ FatalStep
      BY <2>3 DEF Tick, FatalOutput, FatalStep, FatalCreate, FatalWrite, Crash
    <2>4. CASE Start \/ SameFile \/ Roll \/ OpenNewFile
      BY <2>4 DEF Start, SameFile, NeedsFile, Roll, OpenNewFile, OpenFile, OpenFails
    <2>5. CASE TakeLine \/ FindEmpty \/ Wait \/ WakeUp \/ WakeSpuriously
      BY <2>5 DEF TakeLine, FindEmpty, Wait, WakeUp, WakeSpuriously
    <2>6. CASE WriteLine \/ WriteFails
      BY <2>6 DEF WriteLine, WriteToFile, WriteFails
    <2>7. CASE UNCHANGED vars
      BY <2>7 DEF vars
    <2> QED  BY <2>1, <2>2, <2>3, <2>4, <2>5, <2>6, <2>7 DEF Next, WriterStep
  <1> QED  BY <1>1, <1>2, LogTypeOK, PTL DEF Spec

\* The write thread never writes through a closed or dangling handle.
THEOREM WriterAlwaysHasFile == Spec => []WriterHasFile
  <1>1. OnlyWriterCloses => WriterHasFile
    BY DEF OnlyWriterCloses, WriterHasFile
  <1> QED  BY <1>1, WriterCloses, PTL

\* Without FATAL lines a line that the write thread is done with is the last of
\* the file it had open, as it was output.
THEOREM LinesAlwaysReachFile == Spec => LinesReachFile
  <1> DEFINE Reaches ==
        fatal = "off" /\ toFile /\ strLine # << >> /\ strLine' = << >> =>
          /\ m_hLogFile.open
          /\ files' = [files EXCEPT ![m_hLogFile.name] = Append(@, strLine[1])]
  <1>1. TypeOK /\ OnlyWriterCloses /\ [Next]_vars => Reaches
    <2> SUFFICES ASSUME TypeOK, OnlyWriterCloses, [Next]_vars, fatal = "off", toFile,
                        strLine # << >>, strLine' = << >>
                 PROVE  /\ m_hLogFile.open
                        /\ files' = [files EXCEPT ![m_hLogFile.name] = Append(@, strLine[1])]
      OBVIOUS
    <2>1. CASE WriteLine
      <3>1. m_hLogFile.open /\ WriteToFile(strLine[1])
        BY <2>1 DEF WriteLine, OnlyWriterCloses
      <3> QED  BY <3>1 DEF WriteToFile
    <2>2. CASE ~ WriteLine
      <3>1. strLine' = strLine \/ strLine' # << >>
        BY <2>2 DEF Next, Output, UninitStep, UninitFlag, UninitNotify, UninitJoin, Tick,
           FatalOutput, FatalStep, FatalCreate, FatalWrite, Crash, WriterStep, Start,
           SameFile, Roll, OpenNewFile, TakeLine, FindEmpty, Wait, WakeUp, WriteFails,
           WakeSpuriously, writerVars, vars
      <3> QED  BY <3>1
    <2> QED  BY <2>1, <2>2
  <1>2. TypeOK /\ OnlyWriterCloses /\ [Next]_vars => [Reaches]_vars
    BY <1>1
  <1>3. Spec => [][Reaches]_vars
    BY <1>2, LogTypeOK, WriterCloses, PTL DEF Spec
  <1> QED  BY <1>3 DEF LinesReachFile

-----------------------------------------------------------------------------
(* The notification.                                                       *)

\* The lock is held from finding the queue empty to the wait, so that nothing
\* is pushed in between; what is pushed later is notified.
NotifiedInv ==
    /\ writer = "empty" => m_listLinesToWrite = << >>
    /\ NeverSleepsOnLines

\* However many threads output, the write thread does not wait, not yet
\* notified, while a line is in the queue.
THEOREM NeverSleepsOnLinesAlways == Spec => []NeverSleepsOnLines
  <1>1. Init => NotifiedInv
    BY DEF Init, NotifiedInv, NeverSleepsOnLines
  <1>2. TypeOK /\ NotifiedInv /\ [Next]_vars => NotifiedInv'
    <2> SUFFICES ASSUME TypeOK, NotifiedInv, [Next]_vars PROVE NotifiedInv'
      OBVIOUS
    <2> USE DEF NotifiedInv, NeverSleepsOnLines, queueVars, writerVars
    <2>1. CASE \E len \in Lengths : Output(len)
      BY <2>1 DEF Output, Notify
    <2>2. CASE UninitStep
      BY <2>2 DEF UninitStep, UninitFlag, UninitNotify, UninitJoin, Notify
    <2>3. CASE Tick \/ FatalOutput \/ FatalStep
      BY <2>3 DEF Tick, FatalOutput, FatalStep, FatalCreate, FatalWrite, Crash
    <2>4. CASE Start \/ SameFile \/ Roll \/ OpenNewFile \/ WriteLine \/ WriteFails
      BY <2>4 DEF Start, SameFile, Roll, OpenNewFile, WriteLine, WriteFails
    <2>5. CASE TakeLine \/ FindEmpty \/ Wait \/ WakeUp \/ WakeSpuriously
      BY <2>5 DEF TakeLine, FindEmpty, Wait, WakeUp, WakeSpuriously
    <2>6. CASE UNCHANGED vars
      BY <2>6 DEF vars
    <2> QED  BY <2>1, <2>2, <2>3, <2>4, <2>5, <2>6 DEF Next, WriterStep
  <1>3. NotifiedInv => NeverSleepsOnLines
    BY DEF NotifiedInv
  <1> QED  BY <1>1, <1>2, <1>3, LogTypeOK, PTL DEF Spec

-----------------------------------------------------------------------------
(* The length of the files.                                                *)

\* m_nCurrentWrittenSize is the length of the file it stands for, and the
\* write thread goes on with a file only while that is below the roll size.
SizeCounted ==
    fatal = "off" =>
        /\ toFile /\ m_hLogFile.open => size[m_hLogFile.name] = m_nCurrentWrittenSize
        /\ writer = "open" => m_nCurrentWrittenSize = 0
        /\ toFile /\ writer \in {"lock", "empty", "waiting", "write"}
             => m_nCurrentWrittenSize < RollSize
        /\ m_hLogFile = NULL => m_nCurrentWrittenSize = 0 \/ WriterGone
        /\ ~ toFile => \A n \in Seconds : files[n] = << >>

SizeInv == SizeCounted /\ FileBounded

\* No file exceeds the roll size by as much as the line that filled it, for all
\* lengths of lines, and also when two rolls in a second reuse a name.
THEOREM FileAlwaysBounded == Spec => []FileBounded
  <1>1. Init => SizeInv
    BY LogAssumption DEF Init, SizeInv, SizeCounted, FileBounded, NULL
  <1>2. LogInv /\ LogInv' /\ OnlyWriterCloses /\ SizeInv /\ [Next]_vars => SizeInv'
    <2> SUFFICES ASSUME LogInv, TypeOK', OnlyWriterCloses, SizeInv, [Next]_vars,
                        fatal' = "off"
                 PROVE  SizeInv'
      BY DEF LogInv, SizeInv, SizeCounted, FileBounded
    <2> USE DEF SizeInv, queueVars, writerVars, fileVars, disk, WriterGone
    <2>0. TypeOK
      BY DEF LogInv
    <2>1. CASE \E len \in Lengths : Output(len)
      BY <2>1 DEF Output, SizeCounted, FileBounded
    <2>2. CASE UninitFlag \/ UninitNotify
      BY <2>2 DEF UninitFlag, UninitNotify, SizeCounted, FileBounded
    <2>3. CASE UninitJoin
      BY <2>3 DEF UninitJoin, SizeCounted, FileBounded, NULL
    <2>4. CASE Tick \/ FatalOutput \/ FatalStep
      BY <2>4 DEF Tick, FatalOutput, FatalStep, FatalCreate, FatalWrite, Crash,
         SizeCounted, FileBounded
    <2>5. CASE Start \/ SameFile
      <3>1. CASE Start
        BY <3>1 DEF Start, SizeCounted, FileBounded
      <3>2. CASE SameFile
        <4>1. toFile => m_nCurrentWrittenSize < RollSize
          BY <2>0, <3>2, LogAssumption DEF SameFile, NeedsFile, TypeOK
        <4> QED  BY <3>2, <4>1 DEF SameFile, SizeCounted, FileBounded
      <3> QED  BY <2>5, <3>1, <3>2
    <2>6. CASE Roll
      <3>1. /\ writer' = "open" /\ m_nCurrentWrittenSize' = 0
            /\ ~ m_hLogFile'.open
            /\ UNCHANGED <<files, size, toFile, fatal>>
        <4>1. CASE m_hLogFile = NULL
          BY <2>6, <4>1 DEF Roll, NULL
        <4>2. CASE m_hLogFile # NULL
          BY <2>0, <2>6, <4>2 DEF Roll, TypeOK, Handle
        <4> QED  BY <4>1, <4>2
      <3>2. SizeCounted'
        BY <3>1 DEF SizeCounted
      <3>3. FileBounded'
        BY <3>1 DEF FileBounded
      <3> QED  BY <3>2, <3>3
    <2>7. CASE OpenNewFile /\ OpenFile
      <3>1. /\ files' = [files EXCEPT ![now] = << >>] /\ size' = [size EXCEPT ![now] = 0]
            /\ m_hLogFile' = [name |-> now, open |-> TRUE] /\ now \in Seconds
            /\ m_nCurrentWrittenSize' = 0 /\ fatal = "off" /\ UNCHANGED toFile
        BY <2>0, <2>7 DEF OpenFile, OpenNewFile, SizeCounted, TypeOK
      <3>2. SizeCounted'
        BY <2>0, <2>7, <3>1, LogAssumption DEF OpenNewFile, SizeCounted, NULL, TypeOK
      <3>3. FileBounded'
        BY <2>0, <3>1 DEF FileBounded, TypeOK
      <3> QED  BY <3>2, <3>3
    <2>8. CASE OpenNewFile /\ ~ OpenFile
      BY <2>8 DEF OpenNewFile, OpenFails, SizeCounted, FileBounded, NULL
    <2>9. CASE TakeLine \/ FindEmpty \/ Wait \/ WakeUp \/ WakeSpuriously
      BY <2>9 DEF TakeLine, FindEmpty, Wait, WakeUp, WakeSpuriously, SizeCounted,
         FileBounded
    <2>10. CASE WriteFails
      BY <2>10 DEF WriteFails, SizeCounted, FileBounded
    <2>11. CASE WriteLine
      <3> DEFINE line == strLine[1]
                 n == m_hLogFile.name
      <3>1. line \in Line /\ line.len \in Nat \ {0}
        <4>1. strLine # << >>
          BY <2>11 DEF WriteLine, LogInv, HoldsLine
        <4>2. line \in Line
          BY <2>0, <4>1, UnwrittenType
        <4> QED  BY <4>2, LogAssumption DEF Line
      <3>2. CASE ~ toFile
        BY <2>11, <3>2 DEF WriteLine, SizeCounted, FileBounded
      <3>3. CASE toFile
        <4>1. m_hLogFile.open /\ n \in Seconds /\ fatal = "off"
          BY <2>0, <2>11, <3>3 DEF WriteLine, OnlyWriterCloses, TypeOK, Handle, NULL
        <4>2. /\ files' = [files EXCEPT ![n] = Append(@, line)]
              /\ size' = [size EXCEPT ![n] = @ + line.len]
              /\ m_nCurrentWrittenSize' = m_nCurrentWrittenSize + line.len
              /\ UNCHANGED <<toFile, m_hLogFile>> /\ writer = "write" /\ writer' = "top"
          BY <2>11, <3>3, <4>1 DEF WriteLine, WriteToFile
        <4>3. size[n] = m_nCurrentWrittenSize /\ size[n] < RollSize /\ size[n] \in Nat
          BY <2>0, <3>3, <4>1, <4>2 DEF SizeCounted, TypeOK
        <4>4. SizeCounted'
          BY <2>0, <3>3, <4>1, <4>2, <4>3, SMTT(40) DEF SizeCounted, NULL, TypeOK
        <4>5. files[n] \in Seq(Line)
          BY <2>0, <4>1 DEF TypeOK
        <4>6. files'[n][Len(files'[n])] = line /\ size'[n] = size[n] + line.len
          BY <2>0, <3>1, <4>1, <4>2, <4>5, SMTT(40) DEF TypeOK
        <4>7. \A m \in Seconds \ {n} : files'[m] = files[m] /\ size'[m] = size[m]
          BY <2>0, <4>2 DEF TypeOK
        <4>8. size'[n] - line.len < RollSize
          BY <3>1, <4>3, <4>6
        <4>9. FileBounded'
          BY <4>1, <4>6, <4>7, <4>8 DEF FileBounded
        <4> QED  BY <4>4, <4>9
      <3> QED  BY <3>2, <3>3
    <2>12. CASE UNCHANGED vars
      BY <2>12 DEF vars, SizeCounted, FileBounded
    <2> QED  BY <2>1, <2>2, <2>3, <2>4, <2>5, <2>6, <2>7, <2>8, <2>9, <2>10, <2>11,
                <2>12 DEF Next, UninitStep, WriterStep
  <1>3. LogInv => TypeOK
    BY DEF LogInv
  <1> QED  BY <1>1, <1>2, <1>3, LogInvariant, WriterCloses, PTL DEF Spec, SizeInv

=============================================================================
