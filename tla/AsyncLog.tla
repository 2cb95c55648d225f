-------------------------------- MODULE AsyncLog --------------------------------
(***************************************************************************)
(* CAsyncLog of Calc24v2: a queue of lines filled by every thread, one     *)
(* write thread that empties it into log files, and uninit.                *)
(*                                                                         *)
(* The queue is guarded by m_mutexWrite.  m_bExit, m_hLogFile and the size *)
(* are not.  A FATAL line goes past the queue: its thread writes the file  *)
(* itself and then makes the program crash.  Lines below the current level *)
(* are dropped before any of this state is touched and are left out, as is *)
(* the text of the lines: a line is its number and its length.             *)
(***************************************************************************)
EXTENDS Integers, SequencesExt

CONSTANTS
    Lengths,        \* the lengths a line can have
    RollSize,       \* m_nFileRollSize
    MaxLines,       \* bound: lines output in one behaviour
    MaxSeconds,     \* bound: readings of the clock that names the files
    CanFail,        \* may fopen and fwrite fail?
    CanFatal        \* may a thread output a FATAL line? (bound: one)

ASSUME LogAssumption ==
    /\ Lengths \subseteq Nat \ {0}
    /\ RollSize \in Nat \ {0}
    /\ MaxLines \in Nat
    /\ MaxSeconds \in Nat \ {0}
    /\ CanFail \in BOOLEAN /\ CanFatal \in BOOLEAN

Seconds == 1 .. MaxSeconds
Line == [id : 0 .. MaxLines, len : Lengths]
Handle == [name : Seconds, open : BOOLEAN]  \* of a FILE*, closed: it dangles
NULL == [name |-> 0, open |-> FALSE]

VARIABLES
    toFile,                 \* is m_strFileName non-empty?
    m_listLinesToWrite,
    m_bExit, m_bRunning,
    m_hLogFile,
    m_nCurrentWrittenSize,
    writer,                 \* where writeThreadProc is
    strLine,                \* <<the line it took>> or << >>
    notified,               \* has its wait on m_cvWrite been notified?
    uninit,                 \* where uninit is
    fatal,                  \* where the output of a FATAL line is
    files,                  \* per second: the lines in the file of that name
    size,                   \* history, per second: the length of those lines
    now,                    \* the clock
    made                    \* lines output so far

queueVars == <<m_listLinesToWrite, made>>
writerVars == <<writer, strLine, notified, m_bRunning>>
disk == <<files, size>>
fileVars == <<m_hLogFile, m_nCurrentWrittenSize, disk>>
vars == <<toFile, queueVars, writerVars, m_bExit, uninit, fatal, fileVars, now>>

WriterPc == {"start", "top", "open", "lock", "empty", "waiting", "write",
             "exited", "failed"}

TypeOK ==
    /\ toFile \in BOOLEAN
    /\ m_listLinesToWrite \in Seq(Line)
    /\ m_bExit \in BOOLEAN /\ m_bRunning \in BOOLEAN
    /\ m_hLogFile \in Handle \cup {NULL}
    /\ m_nCurrentWrittenSize \in Nat
    /\ writer \in WriterPc
    /\ strLine \in Seq(Line) /\ Len(strLine) \in {0, 1}
    /\ notified \in BOOLEAN
    /\ uninit \in {"off", "flagged", "joining", "closed"}
    /\ fatal \in {"off", "create", "write", "crash", "returned", "crashed"}
    /\ files \in [Seconds -> Seq(Line)]
    /\ size \in [Seconds -> Nat]
    /\ now \in Seconds
    /\ made \in 0 .. MaxLines

\* After init(): the write thread is started.
Init ==
    /\ toFile \in BOOLEAN
    /\ m_listLinesToWrite = << >>
    /\ m_bExit = FALSE /\ m_bRunning = FALSE
    /\ m_hLogFile = NULL
    /\ m_nCurrentWrittenSize = 0
    /\ writer = "start"
    /\ strLine = << >>
    /\ notified = FALSE
    /\ uninit = "off"
    /\ fatal = "off"
    /\ files = [n \in Seconds |-> << >>]
    /\ size = [n \in Seconds |-> 0]
    /\ now = 1
    /\ made = 0

Alive == fatal # "crashed"
WriterGone == writer \in {"exited", "failed"}

-----------------------------------------------------------------------------
(* The other threads.                                                      *)

\* notify_one reaches the write thread only if it is waiting.
Notify == notified' = (notified \/ writer = "waiting")

\* Mutant: the push does not notify.
Output_NoNotify(len) ==
    /\ Alive
    /\ made < MaxLines
    /\ writer # "empty"
    /\ made' = made + 1
    /\ m_listLinesToWrite' = Append(m_listLinesToWrite, [id |-> made + 1, len |-> len])
    /\ UNCHANGED <<toFile, writerVars, m_bExit, uninit, fatal, fileVars, now>>

\* output and outputBinary: push and notify, both under the lock (which the
\* write thread holds from finding the queue empty until it waits).
Output(len) ==
    /\ Alive
    /\ made < MaxLines
    /\ writer # "empty"
    /\ made' = made + 1
    /\ m_listLinesToWrite' = Append(m_listLinesToWrite, [id |-> made + 1, len |-> len])
    /\ Notify
    /\ UNCHANGED <<toFile, writer, strLine, m_bRunning, m_bExit, uninit, fatal,
                   fileVars, now>>

\* uninit: the flag is set without the lock,
UninitFlag ==
    /\ Alive
    /\ uninit = "off"
    /\ m_bExit' = TRUE
    /\ uninit' = "flagged"
    /\ UNCHANGED <<toFile, queueVars, writerVars, fatal, fileVars, now>>

\* then the write thread is notified, without the lock too,
UninitNotify ==
    /\ Alive
    /\ uninit = "flagged"
    /\ Notify
    /\ uninit' = "joining"
    /\ UNCHANGED <<toFile, queueVars, writer, strLine, m_bRunning, m_bExit, fatal,
                   fileVars, now>>

\* Mutant: the file is closed without the join.
UninitJoin_NoJoin ==
    /\ Alive
    /\ uninit = "joining"
    /\ m_hLogFile' = NULL
    /\ uninit' = "closed"
    /\ UNCHANGED <<toFile, queueVars, writerVars, m_bExit, fatal,
                   m_nCurrentWrittenSize, disk, now>>

\* then joined, and the file is closed.
UninitJoin ==
    /\ Alive
    /\ uninit = "joining"
    /\ WriterGone
    /\ m_hLogFile' = NULL
    /\ uninit' = "closed"
    /\ UNCHANGED <<toFile, queueVars, writerVars, m_bExit, fatal,
                   m_nCurrentWrittenSize, disk, now>>

\* A second passes: a new file would get a new name.
Tick ==
    /\ Alive
    /\ now < MaxSeconds
    /\ now' = now + 1
    /\ UNCHANGED <<toFile, queueVars, writerVars, m_bExit, uninit, fatal, fileVars>>

-----------------------------------------------------------------------------
(* createNewFile, and the FATAL line.                                      *)

\* fopen(..., "w+") of the file named after this second: it is emptied.
OpenFile ==
    /\ m_hLogFile' = [name |-> now, open |-> TRUE]
    /\ files' = [files EXCEPT ![now] = << >>]
    /\ size' = [size EXCEPT ![now] = 0]

OpenFails ==
    /\ CanFail
    /\ m_hLogFile' = NULL
    /\ UNCHANGED disk

\* fwrite through m_hLogFile; through a handle that another thread has closed
\* the line goes nowhere.
WriteToFile(line) ==
    IF m_hLogFile.open
    THEN /\ files' = [files EXCEPT ![m_hLogFile.name] = Append(@, line)]
         /\ size' = [size EXCEPT ![m_hLogFile.name] = @ + line.len]
    ELSE UNCHANGED disk

FatalOutput ==
    /\ Alive
    /\ CanFatal
    /\ fatal = "off"
    /\ fatal' = IF ~ toFile THEN "crash"
                ELSE IF m_hLogFile = NULL THEN "create" ELSE "write"
    /\ UNCHANGED <<toFile, queueVars, writerVars, m_bExit, uninit, fileVars, now>>

\* When no file can be opened, output returns without crashing.
FatalCreate ==
    /\ fatal = "create"
    /\ \/ OpenFile /\ fatal' = "write"
       \/ OpenFails /\ fatal' = "returned"
    /\ UNCHANGED <<toFile, queueVars, writerVars, m_bExit, uninit,
                   m_nCurrentWrittenSize, now>>

FatalWrite ==
    /\ fatal = "write"
    /\ fatal' = "crash"
    /\ \/ \E len \in Lengths : WriteToFile([id |-> 0, len |-> len])
       \/ CanFail /\ UNCHANGED disk
    /\ UNCHANGED <<toFile, queueVars, writerVars, m_bExit, uninit, m_hLogFile,
                   m_nCurrentWrittenSize, now>>

\* crash(): the whole process is gone.
Crash ==
    /\ fatal = "crash"
    /\ fatal' = "crashed"
    /\ UNCHANGED <<toFile, queueVars, writerVars, m_bExit, uninit, fileVars, now>>

-----------------------------------------------------------------------------
(* The write thread.                                                       *)

Start ==
    /\ Alive
    /\ writer = "start"
    /\ writer' = "top"
    /\ m_bRunning' = TRUE
    /\ UNCHANGED <<toFile, queueVars, strLine, notified, m_bExit, uninit, fatal,
                   fileVars, now>>

\* Mutant: the file is rolled only when it is over the limit.
NeedsFile_Over ==
    toFile /\ (m_hLogFile = NULL \/ m_nCurrentWrittenSize > RollSize)

NeedsFile ==
    toFile /\ (m_hLogFile = NULL \/ m_nCurrentWrittenSize >= RollSize)

SameFile ==
    /\ Alive
    /\ writer = "top"
    /\ ~ NeedsFile
    /\ writer' = "lock"
    /\ UNCHANGED <<toFile, queueVars, strLine, notified, m_bRunning, m_bExit,
                   uninit, fatal, fileVars, now>>

\* The size is reset and the old file closed; the handle dangles,
Roll ==
    /\ Alive
    /\ writer = "top"
    /\ NeedsFile
    /\ writer' = "open"
    /\ m_nCurrentWrittenSize' = 0
    /\ m_hLogFile' = IF m_hLogFile = NULL THEN NULL
                     ELSE [m_hLogFile EXCEPT !.open = FALSE]
    /\ UNCHANGED <<toFile, queueVars, strLine, notified, m_bRunning, m_bExit,
                   uninit, fatal, disk, now>>

\* until the new file is open.
OpenNewFile ==
    /\ Alive
    /\ writer = "open"
    /\ \/ OpenFile /\ writer' = "lock"
       \/ OpenFails /\ writer' = "failed"
    /\ UNCHANGED <<toFile, queueVars, strLine, notified, m_bRunning, m_bExit,
                   uninit, fatal, m_nCurrentWrittenSize, now>>

\* Mutant: the line at the back is taken.
TakeLine_Newest ==
    /\ Alive
    /\ writer = "lock"
    /\ m_listLinesToWrite # << >>
    /\ strLine' = <<Last(m_listLinesToWrite)>>
    /\ m_listLinesToWrite' = Front(m_listLinesToWrite)
    /\ writer' = "write"
    /\ UNCHANGED <<toFile, made, notified, m_bRunning, m_bExit, uninit, fatal,
                   fileVars, now>>

\* Mutant: front() without pop_front().
TakeLine_NotPopped ==
    /\ Alive
    /\ writer = "lock"
    /\ m_listLinesToWrite # << >>
    /\ strLine' = <<Head(m_listLinesToWrite)>>
    /\ UNCHANGED m_listLinesToWrite
    /\ writer' = "write"
    /\ UNCHANGED <<toFile, made, notified, m_bRunning, m_bExit, uninit, fatal,
                   fileVars, now>>

TakeLine ==
    /\ Alive
    /\ writer = "lock"
    /\ m_listLinesToWrite # << >>
    /\ strLine' = <<Head(m_listLinesToWrite)>>
    /\ m_listLinesToWrite' = Tail(m_listLinesToWrite)
    /\ writer' = "write"
    /\ UNCHANGED <<toFile, made, notified, m_bRunning, m_bExit, uninit, fatal,
                   fileVars, now>>

\* Mutant: the flag is tested once, before the thread ever waits.
FindEmpty_NoExit ==
    /\ Alive
    /\ writer = "lock"
    /\ m_listLinesToWrite = << >>
    /\ writer' = "empty"
    /\ UNCHANGED <<toFile, queueVars, strLine, notified, m_bRunning, m_bExit,
                   uninit, fatal, fileVars, now>>

\* m_bExit is read with the lock held; uninit writes it without.
FindEmpty ==
    /\ Alive
    /\ writer = "lock"
    /\ m_listLinesToWrite = << >>
    /\ writer' = IF m_bExit THEN "exited" ELSE "empty"
    /\ UNCHANGED <<toFile, queueVars, strLine, notified, m_bRunning, m_bExit,
                   uninit, fatal, fileVars, now>>

Wait ==
    /\ Alive
    /\ writer = "empty"
    /\ writer' = "waiting"
    /\ notified' = FALSE
    /\ UNCHANGED <<toFile, queueVars, strLine, m_bRunning, m_bExit, uninit,
                   fatal, fileVars, now>>

\* The wait returns when notified,
WakeUp ==
    /\ Alive
    /\ writer = "waiting"
    /\ notified
    /\ writer' = "lock"
    /\ notified' = FALSE
    /\ UNCHANGED <<toFile, queueVars, strLine, m_bRunning, m_bExit, uninit,
                   fatal, fileVars, now>>

\* and may return by itself.
WakeSpuriously ==
    /\ Alive
    /\ writer = "waiting"
    /\ ~ notified
    /\ writer' = "lock"
    /\ UNCHANGED <<toFile, queueVars, strLine, notified, m_bRunning, m_bExit,
                   uninit, fatal, fileVars, now>>

\* The console, then writeToFile and the size.  Through a handle that the
\* FATAL thread has replaced the line goes to that file.
WriteLine ==
    /\ Alive
    /\ writer = "write"
    /\ writer' = "top"
    /\ strLine' = << >>
    /\ IF toFile THEN WriteToFile(strLine[1]) ELSE UNCHANGED disk
    /\ m_nCurrentWrittenSize' = IF toFile THEN m_nCurrentWrittenSize + strLine[1].len
                                ELSE m_nCurrentWrittenSize
    /\ UNCHANGED <<toFile, queueVars, notified, m_bRunning, m_bExit, uninit,
                   fatal, m_hLogFile, now>>

\* fwrite fails: the write thread returns.
WriteFails ==
    /\ Alive
    /\ writer = "write"
    /\ toFile /\ (CanFail \/ ~ m_hLogFile.open)
    /\ writer' = "failed"
    /\ UNCHANGED <<toFile, queueVars, strLine, notified, m_bRunning, m_bExit,
                   uninit, fatal, fileVars, now>>

WriterStep ==
    \/ Start \/ SameFile \/ Roll \/ OpenNewFile \/ TakeLine \/ FindEmpty
    \/ Wait \/ WakeUp \/ WriteLine \/ WriteFails

UninitStep == UninitFlag \/ UninitNotify \/ UninitJoin

FatalStep == FatalCreate \/ FatalWrite \/ Crash

Next ==
    \/ \E len \in Lengths : Output(len)
    \/ UninitStep \/ Tick
    \/ FatalOutput \/ FatalStep
    \/ WriterStep \/ WakeSpuriously

Spec == Init /\ [][Next]_vars

\* Every thread runs; nothing makes anybody output a line, call uninit or
\* wake the wait spuriously.
Fairness ==
    /\ WF_vars(WriterStep)
    /\ WF_vars(UninitNotify \/ UninitJoin)
    /\ WF_vars(FatalStep)

FairSpec == Spec /\ Fairness

-----------------------------------------------------------------------------
(* Properties.                                                             *)

Unwritten == strLine \o m_listLinesToWrite

\* output, m_listLinesToWrite and writeThreadProc are a mailbox: every line
\* is written once and in the order of the pushes, or not at all.
Mailbox == INSTANCE TaskMailbox WITH Tasks <- Line, queue <- Unwritten

ImplementsMailbox == Mailbox!Spec

\* Every file has its lines in the order in which they were output, and what
\* is still to be written comes after all of them, over rolls, failures and
\* the FATAL line (number 0).
FilesInOrder ==
    \A n \in Seconds : \A i \in 1 .. Len(files[n]) : files[n][i].id > 0 =>
        /\ \A j \in 1 .. i - 1 : files[n][j].id < files[n][i].id
        /\ \A j \in 1 .. Len(Unwritten) : files[n][i].id < Unwritten[j].id

\* As long as no FATAL line is output, the write thread's file is open between
\* two rolls: nobody else closes it, although m_hLogFile is not guarded.
WriterHasFile ==
    fatal = "off" /\ toFile /\ writer \in {"lock", "empty", "waiting", "write"}
      => m_hLogFile.open

\* The bound that the code does keep, which is not m_nFileRollSize itself (the
\* size is tested before the line is taken): without its last line a file is
\* below the roll size, also when its name was used twice.  A FATAL line is not
\* counted.
FileBounded ==
    fatal = "off" => \A n \in Seconds :
        files[n] # << >> => size[n] - files[n][Len(files[n])].len < RollSize

\* A line goes to the file as it was output: none is dropped between the queue
\* and a file that is open, by a roll or by uninit.
LinesReachFile ==
    [][fatal = "off" /\ toFile /\ strLine # << >> /\ strLine' = << >> =>
         /\ m_hLogFile.open
         /\ files' = [files EXCEPT ![m_hLogFile.name] = Append(@, strLine[1])]]_vars

\* The write thread never sleeps on a line: who pushes either finds it waiting
\* and notifies it, or it has yet to look at the queue before it waits.
NeverSleepsOnLines ==
    writer = "waiting" /\ m_listLinesToWrite # << >> => notified

\* Every line in the queue is written, unless the write thread has returned
\* or the program has crashed: no notification is lost on output's side.
LinesWritten ==
    m_listLinesToWrite # << >>
      ~> m_listLinesToWrite = << >> \/ WriterGone \/ ~ Alive

\* When uninit's notification finds the write thread waiting or busy (and
\* not between its test of m_bExit and its wait), uninit returns.
UninitReturnsUnlessMissed ==
    (uninit = "joining" /\ (notified \/ writer \notin {"empty", "waiting"}))
      ~> (uninit = "closed" \/ ~ Alive)
=============================================================================
