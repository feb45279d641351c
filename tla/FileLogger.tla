------------------------------ MODULE FileLogger ------------------------------
(***************************************************************************)
(* FileLogger: one log file shared by all threads of the app.  logEvent is *)
(* synchronized; closeLogFile, called by GeoFlowService.onDestroy on the   *)
(* main thread while the service's looper goes on logging, is not: only    *)
(* the logEvent inside it is.                                              *)
(*                                                                         *)
(* Every use of activePrintWriter reads the static field again, and        *)
(* closeLogFile can come between two of them.  Uses are joined in a step   *)
(* where the same properties see the parts: the last line and the close of *)
(* a rotation (Rotate), and the two prints and the flush that end a line   *)
(* (LineEnd).  A PrintWriter that is closed swallows what is printed to    *)
(* it.  A delayed sight of the unlocked store of null is the same as a     *)
(* later step CloseNull.                                                   *)
(*                                                                         *)
(* A line is its number and its event.  A file is named by the second of   *)
(* the wall clock it is opened in, and opening a name again truncates the  *)
(* file; its age is taken from another clock, System.nanoTime.             *)
(***************************************************************************)
EXTENDS Integers, Sequences, FiniteSets

CONSTANTS
    Threads,      \* threads that log; "main" also closes
    FlushEvery,   \* 10 in the code
    MaxAge,       \* maxDurationInSeconds
    MaxSec,       \* bound on the wall clock
    MaxEvents,    \* bound on calls of logEvent from outside
    MaxCloses     \* bound on calls of closeLogFile

ASSUME FileLoggerAssumption ==
    /\ "main" \in Threads /\ "free" \notin Threads
    /\ FlushEvery \in Nat \ {0} /\ MaxAge \in Nat /\ MaxSec \in Nat
    /\ MaxEvents \in Nat /\ MaxCloses \in Nat

VARIABLES
    now,              \* the wall clock, in seconds
    age,              \* seconds since the last open by nanoTime, at most MaxAge + 1
    setBack,          \* history: "yes" once the wall clock fell behind nanoTime
    lock,             \* the monitor of logEvent
    th,               \* per thread: [pc, ev, stack, met]
    closing,          \* main's place in closeLogFile
    activePrintWriter,\* "null", "open" or "closed"
    activeFile,       \* name of the file of activePrintWriter
    sequenceNumber,
    buf,              \* lines printed and not flushed
    files,            \* name -> lines on disk
    damage,           \* history: lines swallowed, cut or ended by an exception
    events, closes    \* counters for the bounds

clocks == <<now, age, setBack>>
vars == <<now, age, setBack, lock, th, closing, activePrintWriter, activeFile,
          sequenceNumber, buf, files, damage, events, closes>>

Idle == [pc |-> "idle", ev |-> "none", stack |-> <<>>, met |-> "no"]

Init ==
    /\ now = 0 /\ age = 0 /\ setBack = "no" /\ lock = "free" /\ closing = "no"
    /\ th = [t \in Threads |-> Idle]
    /\ activePrintWriter = "null" /\ activeFile = 0 /\ sequenceNumber = 0
    /\ buf = <<>> /\ files = [s \in 0..MaxSec |-> <<>>]
    /\ damage = {} /\ events = 0 /\ closes = 0

\* openLogFile is under way in a call of thread t.
Nested(t) == th[t].stack # <<>>

\* d seconds pass, and the wall clock shows s: the user, the network or the end of
\* summer time may set it.  No file is MaxAge old before openLogFile is through
\* with it.
Tick == \E s \in 0..MaxSec, d \in {0, 1} :
        /\ age + d <= MaxAge \/ \A t \in Threads : ~Nested(t)
        /\ now' = s
        /\ age' = IF age > MaxAge THEN age ELSE age + d
        /\ setBack' = IF s < now + d THEN "yes" ELSE setBack
        /\ UNCHANGED <<lock, th, closing, activePrintWriter, activeFile,
                       sequenceNumber, buf, files, damage, events, closes>>

-----------------------------------------------------------------------------
(* logEvent.  pc: check -> (open) -> age -> (rotate) -> reopen -> (open)   *)
(* -> head -> tail (LineStart, LineEnd).  openLogFile calls logEvent: the  *)
(* calls of it that wait for such a nested one are on the stack, each with *)
(* its event and the place it goes on from.                                *)

Goto(t, pc) == th' = [th EXCEPT ![t].pc = pc]

\* The outermost call ends, normally or by an exception, and releases the monitor.
Return(t) == lock' = "free" /\ th' = [th EXCEPT ![t] = Idle]

\* A call ends: the one it was nested in, stack's first, goes on.
End(t, stack) ==
    \/ /\ stack = <<>> /\ Return(t)
    \/ /\ stack # <<>> /\ UNCHANGED lock
       /\ th' = [th EXCEPT ![t] = [pc |-> Head(stack).after, ev |-> Head(stack).ev,
                                   stack |-> Tail(stack), met |-> @.met]]

\* An exception of a nested call is caught, and ends the call around it too.
Throw(t) == End(t, IF Nested(t) THEN Tail(th[t].stack) ELSE <<>>)

Begin(t, ev) ==
    /\ lock = "free"
    /\ lock' = t
    /\ th' = [th EXCEPT ![t] = [pc |-> "check", ev |-> ev, stack |-> <<>>,
                                met |-> IF closing = "null" THEN "yes" ELSE "no"]]

logEvent(t) ==
    /\ th[t].pc = "idle" /\ (t = "main" => closing = "no")
    /\ events < MaxEvents /\ events' = events + 1
    /\ Begin(t, "EVENT")
    /\ UNCHANGED <<clocks, closing, activePrintWriter, activeFile, sequenceNumber,
                   buf, files, damage, closes>>

\* Mutant: numbering goes on in the new file.
OpenedNumber_KeepsOn == sequenceNumber

OpenedNumber == 0

\* openLogFile, at the start and again after the age check.  It ends with a nested
\* logEvent, which opens the log once more when closeLogFile has come between; when
\* it fails the event is dropped.
openLogFile(t, next) ==
    \/ /\ activePrintWriter # "null" /\ Goto(t, next)
       /\ UNCHANGED <<age, lock, activePrintWriter, activeFile, sequenceNumber, buf, files>>
    \/ /\ activePrintWriter = "null"
       /\ activePrintWriter' = "open" /\ activeFile' = now /\ age' = 0
       /\ sequenceNumber' = OpenedNumber
       /\ buf' = <<>> /\ files' = [files EXCEPT ![now] = <<>>]
       /\ th' = [th EXCEPT ![t] = [pc |-> "check", ev |-> "FULL_FILENAME",
                    stack |-> <<[ev |-> @.ev, after |-> next]>> \o @.stack, met |-> @.met]]
       /\ UNCHANGED lock
    \/ /\ activePrintWriter = "null" /\ End(t, th[t].stack)
       /\ UNCHANGED <<age, activePrintWriter, activeFile, sequenceNumber, buf, files>>

Check(t) ==
    /\ \/ th[t].pc = "check"  /\ openLogFile(t, "age")
       \/ th[t].pc = "reopen" /\ openLogFile(t, "head")
    /\ UNCHANGED <<now, setBack, closing, damage, events, closes>>

Line(ev, part) == [n |-> sequenceNumber, ev |-> ev, part |-> part]
Damaged(t) == damage' = damage \cup {th[t].met}

\* Mutant: the buffer is only written out by close.
Flushes_Never(n) == FALSE

Flushes(n) == n % FlushEvery = 0

\* What a complete line does to the number, the buffer and the file.
Printed(b) ==
    LET n == sequenceNumber + 1 IN
    /\ sequenceNumber' = n
    /\ buf' = IF Flushes(n) THEN <<>> ELSE b
    /\ files' = IF Flushes(n) THEN [files EXCEPT ![activeFile] = @ \o b] ELSE files

\* Mutant: the unit of the limit is taken for nanoseconds.
TooOld_Always == TRUE

TooOld == age > MaxAge

Age(t) ==
    /\ th[t].pc = "age"
    /\ Goto(t, IF activePrintWriter # "null" /\ TooOld THEN "rotate" ELSE "reopen")
    /\ UNCHANGED <<clocks, lock, closing, activePrintWriter, activeFile,
                   sequenceNumber, buf, files, damage, events, closes>>

\* Mutant: the closed writer stays the active one.
Rotated_Kept == "closed"

Rotated == "null"

\* The last line, "Time exceeded", then close.
Rotate(t) ==
    /\ th[t].pc = "rotate"
    /\ CASE activePrintWriter = "open" ->
              /\ files' = [files EXCEPT ![activeFile] = @ \o Append(buf, Line("TIME_EXCEEDED", "whole"))]
              /\ buf' = <<>> /\ UNCHANGED damage
         [] OTHER -> Damaged(t) /\ UNCHANGED <<files, buf>>
    /\ IF activePrintWriter = "null"
       THEN Throw(t) /\ UNCHANGED activePrintWriter
       ELSE Goto(t, "reopen") /\ activePrintWriter' = Rotated /\ UNCHANGED lock
    /\ UNCHANGED <<clocks, closing, activeFile, sequenceNumber, events, closes>>

\* The common part of the line.
LineStart(t) ==
    /\ th[t].pc = "head"
    /\ CASE activePrintWriter = "open"   -> buf' = Append(buf, Line(th[t].ev, "cut")) /\ UNCHANGED damage
         [] OTHER                        -> Damaged(t) /\ UNCHANGED buf
    /\ IF activePrintWriter = "null" THEN Throw(t) ELSE Goto(t, "tail") /\ UNCHANGED lock
    /\ UNCHANGED <<clocks, closing, activePrintWriter, activeFile, sequenceNumber,
                   files, events, closes>>

\* The rest of the line, its number and the flush.
LineEnd(t) ==
    /\ th[t].pc = "tail"
    /\ CASE activePrintWriter = "open"   -> Printed([buf EXCEPT ![Len(buf)].part = "whole"]) /\ UNCHANGED damage
         [] activePrintWriter = "closed" -> sequenceNumber' = sequenceNumber + 1 /\ Damaged(t) /\ UNCHANGED <<buf, files>>
         [] OTHER                        -> Damaged(t) /\ UNCHANGED <<sequenceNumber, buf, files>>
    /\ IF activePrintWriter = "null" THEN Throw(t) ELSE End(t, th[t].stack)
    /\ UNCHANGED <<clocks, closing, activePrintWriter, activeFile, events, closes>>

-----------------------------------------------------------------------------
(* closeLogFile, on the main thread.                                       *)

\* A call of logEvent under way during the unlocked part remembers it.
Meet == th' = [t \in Threads |-> IF lock = t THEN [th[t] EXCEPT !.met = "yes"] ELSE th[t]]

CloseTest ==
    /\ closing = "no" /\ th["main"].pc = "idle" /\ activePrintWriter # "null"
    /\ closes < MaxCloses /\ closes' = closes + 1
    /\ closing' = "test"
    /\ UNCHANGED <<clocks, lock, th, activePrintWriter, activeFile, sequenceNumber,
                   buf, files, damage, events>>

CloseLog ==
    /\ closing = "test" /\ closing' = "close"
    /\ Begin("main", "CLOSING_FILE")
    /\ UNCHANGED <<clocks, activePrintWriter, activeFile, sequenceNumber, buf,
                   files, damage, events, closes>>

\* The field can be null again: onDestroy catches the exception.
CloseClose ==
    /\ closing = "close" /\ th["main"].pc = "idle"
    /\ IF activePrintWriter = "null"
       THEN closing' = "no" /\ UNCHANGED <<th, activePrintWriter, buf, files>>
       ELSE /\ closing' = "null" /\ activePrintWriter' = "closed"
            /\ files' = [files EXCEPT ![activeFile] = @ \o buf] /\ buf' = <<>>
            /\ Meet
    /\ UNCHANGED <<clocks, lock, activeFile, sequenceNumber, damage, events, closes>>

CloseNull ==
    /\ closing = "null" /\ closing' = "no"
    /\ activePrintWriter' = "null"
    /\ Meet
    /\ UNCHANGED <<clocks, lock, activeFile, sequenceNumber, buf, files, damage,
                   events, closes>>

-----------------------------------------------------------------------------
Step(t) == Check(t) \/ Age(t) \/ Rotate(t) \/ LineStart(t) \/ LineEnd(t)

Next == \/ Tick
        \/ \E t \in Threads : logEvent(t) \/ Step(t)
        \/ CloseTest \/ CloseLog \/ CloseClose \/ CloseNull

Spec == Init /\ [][Next]_vars

-----------------------------------------------------------------------------
LogLine == [n : Nat, ev : {"EVENT", "FULL_FILENAME", "CLOSING_FILE", "TIME_EXCEEDED"},
            part : {"cut", "whole"}]

\* Type correctness, and the monitor is held by the one thread inside logEvent.
TypeOK ==
    /\ now \in 0..MaxSec /\ age \in 0..(MaxAge + 1) /\ activeFile \in 0..MaxSec /\ sequenceNumber \in Nat
    /\ lock \in Threads \cup {"free"}
    /\ \A t \in Threads : lock = t <=> th[t].pc # "idle"
    /\ closing \in {"no", "test", "close", "null"}
    /\ activePrintWriter \in {"null", "open", "closed"}
    /\ \A i \in DOMAIN buf : buf[i] \in LogLine
    /\ \A s \in 0..MaxSec : \A i \in DOMAIN files[s] : files[s][i] \in LogLine
    /\ damage \subseteq {"yes", "no"}

\* What file s holds once its buffer is written out.
Content(s) == IF s = activeFile THEN files[s] \o buf ELSE files[s]

\* Whatever closes, rotates or reopens the log, a file starts with its FULL_FILENAME
\* line, and holds one more only right after it (when closeLogFile takes the writer
\* away from openLogFile, whose logEvent opens another); its lines are numbered
\* 0, 1, 2, ... without a gap, and only the last one is cut.
FilesWellFormed ==
    \A s \in 0..MaxSec : \A i \in DOMAIN Content(s) :
       LET l == Content(s)[i] IN
         /\ l.n = i - 1
         /\ i = 1 => l.ev = "FULL_FILENAME"
         /\ l.ev = "FULL_FILENAME" => i <= 2
         /\ l.part = "cut" => i = Len(Content(s))

\* A line is swallowed or cut, or a call of logEvent ends in a null pointer, only
\* when the call overlaps the unlocked end of closeLogFile; rotation, which holds
\* the monitor, never costs a line.
DamageOnlyByClose == "no" \notin damage

\* A crash of the process loses fewer than FlushEvery complete lines.
FewLinesUnflushed ==
    Cardinality({i \in DOMAIN buf : buf[i].part = "whole"}) < FlushEvery

IsRotated(s) == \E i \in DOMAIN files[s] : files[s][i].ev = "TIME_EXCEEDED"

\* Step by step, file s keeps the lines it has on disk.
Grows(s) == /\ Len(files[s]) <= Len(files'[s])
            /\ \A i \in DOMAIN files[s] : files'[s][i] = files[s][i]

\* As long as the wall clock that names the files keeps up with the one that ages
\* them, a file ended by rotation is never written or truncated again, and any other
\* loses lines only when the log is closed and opened again in the second it was
\* opened in.
FilesKept ==
    [][setBack = "no" => \A s \in 0..MaxSec :
          /\ IsRotated(s) => files'[s] = files[s]
          /\ Grows(s) \/ (s = activeFile /\ s = now)]_vars
=============================================================================
