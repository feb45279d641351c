-------------------------- MODULE FileLogger_proofs --------------------------
(***************************************************************************)
(* Proofs about the log file for every number of threads, flush interval,  *)
(* age limit, wall clock and number of events and closes.                  *)
(***************************************************************************)
EXTENDS FileLogger, FiniteSetTheorems, SequenceTheorems, TLAPS

Pcs == {"idle", "check", "age", "rotate", "reopen", "head", "tail"}
Evs == {"EVENT", "CLOSING_FILE", "FULL_FILENAME"}
Frame == [ev : Evs, after : {"age", "head"}]

\* The calls that wait for a nested one: at most two, of which only the outermost logs
\* an event of its own.
StackOK(s) ==
    /\ s \in Seq(Frame) /\ Len(s) <= 2
    /\ \A i \in 1..Len(s) : s[i].ev = "FULL_FILENAME" <=> i < Len(s)

Calls == [pc : Pcs, ev : Evs \cup {"none"}, stack : {s \in Seq(Frame) : StackOK(s)},
          met : {"yes", "no"}]

\* What a call c of logEvent under way may rely on.  Without the unlocked end of
\* closeLogFile the writer is open from the first check on, but for the moment between
\* rotation and reopening.  That end takes the writer away from a nested call once at
\* most, for the closing thread needs the monitor before it comes again.
CallInv(c) ==
    /\ c.stack # <<>> <=> c.ev = "FULL_FILENAME"
    /\ c.ev # "none"
    /\ closing = "null" => c.met = "yes"
    /\ c.met = "no" /\ (c.stack # <<>> \/ c.pc \in {"age", "rotate", "head", "tail"})
          => activePrintWriter = "open"
    /\ c.stack # <<>> => /\ age <= MaxAge /\ c.pc # "rotate"
                         /\ activePrintWriter = "null" => closing \in {"no", "test"}
    /\ Len(c.stack) = 2 => closing \in {"no", "test"} /\ activePrintWriter = "open"
    /\ c.pc = "rotate" => age > MaxAge

MonitorInv ==
    /\ now \in 0..MaxSec /\ activeFile \in 0..MaxSec /\ age \in Nat
    /\ setBack \in {"yes", "no"}
    /\ lock \in Threads \cup {"free"}
    /\ th \in [Threads -> Calls]
    /\ \A t \in Threads : lock = t <=> th[t].pc # "idle"
    /\ \A t \in Threads : th[t].pc = "idle" => th[t].stack = <<>>
    /\ \A t \in Threads : th[t].pc # "idle" => CallInv(th[t])
    /\ closing \in {"no", "test", "close", "null"}
    /\ activePrintWriter \in {"null", "open", "closed"}
    /\ activePrintWriter = "closed" => closing = "null"
    /\ damage \subseteq {"yes"}

-----------------------------------------------------------------------------
(* The stack of calls.                                                     *)

LEMMA StackEmpty == StackOK(<<>>) /\ Len(<<>>) = 0
BY DEF StackOK

LEMMA StackLen ==
    ASSUME NEW s, StackOK(s)
    PROVE  Len(s) \in {0, 1, 2} /\ (s = <<>> <=> Len(s) = 0)
<1>1. s \in Seq(Frame) /\ Len(s) <= 2 /\ Len(s) \in Nat
  BY DEF StackOK
<1>2. s = <<>> <=> Len(s) = 0
  BY <1>1, EmptySeq
<1>3. \A n \in Nat : n <= 2 => n = 0 \/ n = 1 \/ n = 2
  OBVIOUS
<1> QED
  BY <1>1, <1>2, <1>3

LEMMA StackTail ==
    ASSUME NEW s, StackOK(s), s # <<>>
    PROVE  /\ StackOK(Tail(s)) /\ Len(Tail(s)) = Len(s) - 1 /\ Len(s) \in {1, 2}
           /\ Head(s).ev \in Evs /\ Head(s).after \in {"age", "head"}
           /\ Tail(s) # <<>> <=> Head(s).ev = "FULL_FILENAME"
<1>1. s \in Seq(Frame) /\ Len(s) \in {1, 2}
  BY StackLen DEF StackOK
<1>2. Tail(s) \in Seq(Frame) /\ Len(Tail(s)) = Len(s) - 1
  BY <1>1
<1>3. \A i \in 1..Len(Tail(s)) : Tail(s)[i] = s[i + 1]
  BY <1>1
<1>4. Head(s) = s[1] /\ s[1] \in Frame
  BY <1>1
<1>5. \A i \in 1..Len(Tail(s)) : Tail(s)[i].ev = "FULL_FILENAME" <=> i < Len(Tail(s))
  BY <1>1, <1>2, <1>3 DEF StackOK
<1>6. Tail(s) # <<>> <=> 1 < Len(s)
  <2>1. Tail(s) # <<>> <=> Len(Tail(s)) # 0
    BY <1>2, EmptySeq
  <2> QED
    BY <1>1, <1>2, <2>1
<1>7. s[1].ev = "FULL_FILENAME" <=> 1 < Len(s)
  BY <1>1 DEF StackOK
<1>8. StackOK(Tail(s))
  BY <1>1, <1>2, <1>5 DEF StackOK
<1> QED
  BY <1>1, <1>2, <1>4, <1>6, <1>7, <1>8 DEF Frame

LEMMA StackPush ==
    ASSUME NEW s, StackOK(s), Len(s) # 2, NEW f \in Frame,
           s # <<>> <=> f.ev = "FULL_FILENAME"
    PROVE  StackOK(<<f>> \o s) /\ Len(<<f>> \o s) = Len(s) + 1 /\ <<f>> \o s # <<>>
<1>1. s \in Seq(Frame) /\ Len(s) \in {0, 1} /\ (s = <<>> <=> Len(s) = 0)
  BY StackLen DEF StackOK
<1>2. <<f>> \in Seq(Frame) /\ Len(<<f>>) = 1 /\ <<f>>[1] = f
  OBVIOUS
<1>3. /\ <<f>> \o s \in Seq(Frame) /\ Len(<<f>> \o s) = Len(s) + 1
      /\ \A i \in 1..(Len(s) + 1) : (<<f>> \o s)[i] = IF i <= 1 THEN f ELSE s[i - 1]
  BY <1>1, <1>2
<1>4. \A i \in 1..(Len(s) + 1) : (<<f>> \o s)[i].ev = "FULL_FILENAME" <=> i < Len(s) + 1
  BY <1>1, <1>3 DEF StackOK
<1> QED
  BY <1>1, <1>3, <1>4 DEF StackOK

-----------------------------------------------------------------------------
(* The monitor.                                                            *)

LEMMA InitMonitor == Init => MonitorInv
<1>1. Idle \in Calls /\ Idle.pc = "idle" /\ Idle.stack = <<>>
  BY StackEmpty DEF Idle, Calls, Pcs, Evs
<1> HIDE DEF Idle
<1> QED
  BY <1>1, FileLoggerAssumption DEF Init, MonitorInv

\* A call that goes on inside logEvent as c.
LEMMA CallMonitor ==
    ASSUME MonitorInv, NEW t \in Threads, th[t].pc # "idle",
           NEW c \in Calls, c.pc # "idle", th' = [th EXCEPT ![t] = c],
           UNCHANGED <<now, setBack, lock, closing>>,
           activeFile' \in 0..MaxSec, age' \in Nat,
           activePrintWriter' \in {"null", "open", "closed"},
           activePrintWriter' = "closed" => closing = "null",
           damage' \subseteq {"yes"}, CallInv(c)'
    PROVE  MonitorInv'
<1>1. /\ th' \in [Threads -> Calls] /\ th'[t] = c
      /\ \A u \in Threads \ {t} : th'[u] = th[u]
  BY DEF MonitorInv
<1>2. lock = t /\ \A u \in Threads \ {t} : th[u].pc = "idle"
  BY DEF MonitorInv
<1>3. CallInv(th[t])'
  BY <1>1 DEF CallInv
<1>4. ASSUME NEW u \in Threads
      PROVE  /\ lock' = u <=> th'[u].pc # "idle"
             /\ th'[u].pc = "idle" => th'[u].stack = <<>>
             /\ th'[u].pc # "idle" => CallInv(th[u])'
  <2>1. CASE u = t
    BY <1>1, <1>2, <1>3, <2>1 DEF CallInv
  <2>2. CASE u # t
    BY <1>1, <1>2, <2>2 DEF MonitorInv
  <2> QED
    BY <2>1, <2>2
<1> QED
  BY <1>1, <1>4 DEF MonitorInv

\* The same call at another place.
LEMMA GotoCall ==
    ASSUME MonitorInv, NEW t \in Threads, NEW pc \in Pcs, Goto(t, pc)
    PROVE  \E c \in Calls : /\ th' = [th EXCEPT ![t] = c] /\ c.pc = pc /\ c.ev = th[t].ev
                            /\ c.stack = th[t].stack /\ c.met = th[t].met
<1> DEFINE c == [th[t] EXCEPT !.pc = pc]
<1>1. th[t] \in Calls
  BY DEF MonitorInv
<1>2. c \in Calls /\ c.pc = pc /\ c.ev = th[t].ev /\ c.stack = th[t].stack /\ c.met = th[t].met
  BY <1>1 DEF Calls
<1>3. th' = [th EXCEPT ![t] = c]
  BY DEF Goto
<1> QED
  BY <1>2, <1>3

LEMMA GotoMonitor ==
    ASSUME MonitorInv, NEW t \in Threads, th[t].pc # "idle",
           NEW pc \in Pcs \ {"idle"}, Goto(t, pc),
           UNCHANGED <<now, age, setBack, lock, closing, activeFile>>,
           activePrintWriter' = activePrintWriter
             \/ (activePrintWriter' = "null" /\ pc = "reopen" /\ th[t].stack = <<>>),
           th[t].met = "no" /\ pc \in {"age", "rotate", "head", "tail"} => activePrintWriter' = "open",
           pc = "rotate" => age > MaxAge /\ th[t].stack = <<>>,
           damage' \subseteq {"yes"}
    PROVE  MonitorInv'
<1>1. PICK c \in Calls : /\ th' = [th EXCEPT ![t] = c] /\ c.pc = pc /\ c.ev = th[t].ev
                         /\ c.stack = th[t].stack /\ c.met = th[t].met
  BY GotoCall
<1>2. CallInv(th[t])
  BY DEF MonitorInv
<1>3. /\ now \in 0..MaxSec /\ activeFile \in 0..MaxSec /\ age \in Nat
      /\ activePrintWriter \in {"null", "open", "closed"}
      /\ activePrintWriter = "closed" => closing = "null"
  BY DEF MonitorInv
<1>4. th[t].stack = <<>> => Len(th[t].stack) # 2
  BY StackEmpty
<1>5. CallInv(c)'
  BY <1>1, <1>2, <1>3, <1>4 DEF CallInv
<1> QED
  BY <1>1, <1>3, <1>5, CallMonitor

\* A call that returns.
LEMMA ReturnMonitor ==
    ASSUME MonitorInv, NEW t \in Threads, th[t].pc # "idle", Return(t),
           UNCHANGED <<now, age, setBack, closing, activeFile, activePrintWriter>>,
           damage' \subseteq {"yes"}
    PROVE  MonitorInv'
<1>0. Idle \in Calls /\ Idle.pc = "idle" /\ Idle.stack = <<>>
  BY StackEmpty DEF Idle, Calls, Pcs, Evs
<1> HIDE DEF Idle
<1>1. /\ th' \in [Threads -> Calls] /\ th'[t] = Idle
      /\ \A u \in Threads \ {t} : th'[u] = th[u]
  BY <1>0 DEF MonitorInv, Return
<1>2. lock = t /\ \A u \in Threads \ {t} : th[u].pc = "idle"
  BY DEF MonitorInv
<1>3. lock' = "free" /\ "free" \notin Threads
  BY FileLoggerAssumption DEF Return
<1>4. ASSUME NEW u \in Threads PROVE th'[u].pc = "idle" /\ th'[u].stack = <<>>
  BY <1>0, <1>1, <1>2 DEF MonitorInv
<1> QED
  BY <1>1, <1>3, <1>4 DEF MonitorInv

\* A call that ends, its caller or the caller of that going on.
LEMMA EndMonitor ==
    ASSUME MonitorInv, NEW t \in Threads, th[t].pc # "idle",
           NEW s, StackOK(s), End(t, s), Len(s) <= Len(th[t].stack),
           s # <<>> => Len(s) = 1 \/ activePrintWriter = "open",
           UNCHANGED <<now, age, setBack, closing, activeFile, activePrintWriter>>,
           damage' \subseteq {"yes"}
    PROVE  MonitorInv'
<1>1. CASE s = <<>>
  BY <1>1, ReturnMonitor DEF End
<1>2. CASE s # <<>>
  <2>0. PICK c : c = [pc |-> Head(s).after, ev |-> Head(s).ev, stack |-> Tail(s), met |-> th[t].met]
    OBVIOUS
  <2>1. th' = [th EXCEPT ![t] = c] /\ UNCHANGED lock
    BY <1>2, <2>0 DEF End
  <2>2. /\ StackOK(Tail(s)) /\ Len(Tail(s)) = Len(s) - 1 /\ Len(s) \in {1, 2}
        /\ Head(s).ev \in Evs /\ Head(s).after \in {"age", "head"}
        /\ Tail(s) # <<>> <=> Head(s).ev = "FULL_FILENAME"
    BY <1>2, StackTail
  <2>3. th[t] \in Calls /\ StackOK(th[t].stack) /\ CallInv(th[t])
    BY DEF MonitorInv, Calls
  <2>4. c \in Calls /\ c.pc \in {"age", "head"}
    BY <2>0, <2>2, <2>3 DEF Calls, Pcs, StackOK
  <2>5. th[t].stack # <<>>
    BY <2>2, <2>3, StackEmpty
  <2>6. c.pc = Head(s).after /\ c.ev = Head(s).ev /\ c.stack = Tail(s) /\ c.met = th[t].met
    BY <2>0
  <2>7. Len(c.stack) # 2 /\ (c.stack # <<>> => activePrintWriter = "open")
    <3>1. c.stack # <<>> <=> Len(c.stack) # 0
      BY <2>2, <2>6, StackLen
    <3>2. CASE Len(s) = 1
      BY <2>2, <2>6, <3>1, <3>2
    <3>3. CASE Len(s) = 2
      BY <1>2, <2>2, <2>6, <3>3
    <3> QED
      BY <2>2, <3>2, <3>3
  <2>8. CallInv(c)'
    BY <2>2, <2>3, <2>4, <2>5, <2>6, <2>7 DEF CallInv, Evs
  <2>9. /\ now \in 0..MaxSec /\ activeFile \in 0..MaxSec /\ age \in Nat
        /\ activePrintWriter \in {"null", "open", "closed"}
        /\ activePrintWriter = "closed" => closing = "null"
    BY DEF MonitorInv
  <2> QED
    BY <2>1, <2>4, <2>8, <2>9, CallMonitor
<1> QED
  BY <1>1, <1>2

LEMMA ThrowMonitor ==
    ASSUME MonitorInv, NEW t \in Threads, th[t].pc # "idle", Throw(t),
           UNCHANGED <<now, age, setBack, closing, activeFile, activePrintWriter>>,
           damage' \subseteq {"yes"}
    PROVE  MonitorInv'
<1>1. StackOK(th[t].stack)
  BY DEF MonitorInv, Calls
<1>2. CASE ~Nested(t)
  BY <1>1, <1>2, EndMonitor, StackEmpty DEF Throw, Nested
<1>3. CASE Nested(t)
  <2>1. StackOK(Tail(th[t].stack)) /\ Len(Tail(th[t].stack)) = Len(th[t].stack) - 1
        /\ Len(th[t].stack) \in {1, 2}
    BY <1>1, <1>3, StackTail DEF Nested
  <2>2. Tail(th[t].stack) # <<>> => Len(Tail(th[t].stack)) = 1
    <3>1. Tail(th[t].stack) = <<>> <=> Len(Tail(th[t].stack)) = 0
      BY <2>1, StackLen
    <3> QED
      BY <2>1, <3>1
  <2>3. Len(Tail(th[t].stack)) <= Len(th[t].stack)
    BY <2>1
  <2>4. End(t, Tail(th[t].stack))
    BY <1>3 DEF Throw
  <2> QED
    BY <2>1, <2>2, <2>3, <2>4, EndMonitor
<1> QED
  BY <1>2, <1>3

\* A call that begins: when closing is at its last step the call has met it.
LEMMA BeginMonitor ==
    ASSUME MonitorInv, NEW t \in Threads, NEW ev \in {"EVENT", "CLOSING_FILE"}, Begin(t, ev),
           UNCHANGED <<now, age, setBack, activeFile, activePrintWriter, damage>>,
           closing' = closing \/ (closing = "test" /\ closing' = "close")
    PROVE  MonitorInv'
<1> DEFINE c == [pc |-> "check", ev |-> ev, stack |-> <<>>,
                 met |-> IF closing = "null" THEN "yes" ELSE "no"]
<1>1. c \in Calls /\ c.pc = "check" /\ c.ev = ev /\ c.stack = <<>>
      /\ (closing = "null" => c.met = "yes")
  BY StackEmpty DEF Calls, Pcs, Evs
<1>2. th' = [th EXCEPT ![t] = c]
  BY DEF Begin
<1> HIDE DEF c
<1>3. /\ th' \in [Threads -> Calls] /\ th'[t] = c
      /\ \A u \in Threads \ {t} : th'[u] = th[u]
  BY <1>1, <1>2 DEF MonitorInv
<1>4. lock' = t /\ \A u \in Threads : th[u].pc = "idle" /\ th[u].stack = <<>>
  BY FileLoggerAssumption DEF MonitorInv, Begin
<1>5. activePrintWriter = "closed" => closing = "null"
  BY DEF MonitorInv
<1>6. CallInv(th[t])'
  BY <1>1, <1>3, StackEmpty DEF CallInv
<1> QED
  BY <1>1, <1>3, <1>4, <1>5, <1>6 DEF MonitorInv

\* openLogFile: a new file is opened for its nested call, or the call goes on or ends.
LEMMA OpenMonitor ==
    ASSUME MonitorInv, NEW t \in Threads, NEW next \in {"age", "head"},
           th[t].pc \in {"check", "reopen"}, openLogFile(t, next),
           UNCHANGED <<now, setBack, closing, damage>>
    PROVE  MonitorInv'
<1>0. /\ activePrintWriter \in {"null", "open", "closed"} /\ damage \subseteq {"yes"}
      /\ activePrintWriter = "closed" => closing = "null" /\ th[t].met # "no"
      /\ th[t] \in Calls /\ StackOK(th[t].stack) /\ CallInv(th[t])
      /\ now \in 0..MaxSec
  BY DEF MonitorInv, Calls, CallInv
<1>1. CASE activePrintWriter # "null"
  BY <1>0, <1>1, GotoMonitor DEF openLogFile, Pcs
<1>2. CASE /\ activePrintWriter = "null" /\ activePrintWriter' = "open" /\ activeFile' = now /\ age' = 0
           /\ th' = [th EXCEPT ![t] = [pc |-> "check", ev |-> "FULL_FILENAME",
                    stack |-> <<[ev |-> @.ev, after |-> next]>> \o @.stack, met |-> @.met]]
           /\ UNCHANGED lock
  <2>0. PICK f, c : /\ f = [ev |-> th[t].ev, after |-> next]
                   /\ c = [pc |-> "check", ev |-> "FULL_FILENAME", stack |-> <<f>> \o th[t].stack,
                           met |-> th[t].met]
    OBVIOUS
  <2>1. th' = [th EXCEPT ![t] = c]
    BY <1>2, <2>0
  <2>2. /\ f \in Frame /\ Len(th[t].stack) # 2
        /\ th[t].stack # <<>> <=> f.ev = "FULL_FILENAME"
    BY <1>0, <1>2, <2>0 DEF CallInv, Calls, Frame
  <2>3. /\ StackOK(<<f>> \o th[t].stack) /\ Len(<<f>> \o th[t].stack) = Len(th[t].stack) + 1
        /\ <<f>> \o th[t].stack # <<>>
    BY <1>0, <2>2, StackPush
  <2>4. /\ c \in Calls /\ c.pc = "check" /\ c.ev = "FULL_FILENAME" /\ c.stack = <<f>> \o th[t].stack
        /\ c.met = th[t].met
    BY <1>0, <2>0, <2>3 DEF Calls, Pcs, Evs, StackOK
  <2>5. Len(c.stack) = 2 => closing \in {"no", "test"}
    <3>1. Len(c.stack) = 2 => th[t].stack # <<>>
      BY <2>3, <2>4, StackEmpty
    <3> QED
      BY <1>0, <1>2, <3>1 DEF CallInv
  <2>6. MaxAge \in Nat
    BY FileLoggerAssumption
  <2>7. CallInv(c)'
    BY <1>0, <1>2, <2>3, <2>4, <2>5, <2>6 DEF CallInv
  <2> QED
    BY <1>0, <1>2, <2>1, <2>4, <2>7, CallMonitor
<1>3. CASE /\ activePrintWriter = "null" /\ End(t, th[t].stack)
           /\ UNCHANGED <<age, activePrintWriter, activeFile>>
  <2>1. Len(th[t].stack) # 2 /\ Len(th[t].stack) \in Nat /\ Len(th[t].stack) <= 2
    BY <1>0, <1>3 DEF CallInv, StackOK
  <2>2. th[t].stack # <<>> => Len(th[t].stack) = 1
    BY <1>0, <2>1, StackLen
  <2> QED
    BY <1>0, <1>3, <2>1, <2>2, EndMonitor
<1> QED
  BY <1>1, <1>2, <1>3 DEF openLogFile

\* The steps of a call.
LEMMA StepMonitor ==
    ASSUME MonitorInv, NEW t \in Threads, Step(t)
    PROVE  MonitorInv'
<1>0. /\ activePrintWriter \in {"null", "open", "closed"} /\ damage \subseteq {"yes"}
      /\ activePrintWriter = "closed" => closing = "null"
      /\ th[t].met \in {"yes", "no"} /\ StackOK(th[t].stack)
  BY DEF MonitorInv, Calls
<1>1. CASE Check(t)
  BY <1>1, OpenMonitor DEF Check
<1>2. th[t].pc # "idle" => CallInv(th[t])
  BY DEF MonitorInv
<1>3. CASE Age(t)
  <2>1. CASE activePrintWriter # "null" /\ TooOld
    <3>1. age > MaxAge /\ th[t].stack = <<>>
      <4>1. age \in Nat /\ MaxAge \in Nat
        BY FileLoggerAssumption DEF MonitorInv
      <4> QED
        BY <1>2, <1>3, <2>1, <4>1 DEF TooOld, CallInv, Age
    <3> QED
      BY <1>0, <1>2, <1>3, <2>1, <3>1, GotoMonitor DEF Age, Pcs, CallInv, clocks
  <2>2. CASE ~(activePrintWriter # "null" /\ TooOld)
    BY <1>0, <1>3, <2>2, GotoMonitor DEF Age, Pcs, clocks
  <2> QED
    BY <2>1, <2>2
<1>4. CASE Rotate(t)
  <2>1. damage' \subseteq {"yes"}
    BY <1>0, <1>2, <1>4 DEF Rotate, Damaged, CallInv
  <2>2. CASE activePrintWriter = "null"
    BY <1>4, <2>1, <2>2, ThrowMonitor DEF Rotate, clocks
  <2>3. CASE activePrintWriter # "null"
    <3>1. th[t].stack = <<>>
      BY <1>2, <1>4 DEF Rotate, CallInv
    <3> QED
      BY <1>0, <1>4, <2>1, <2>3, <3>1, GotoMonitor DEF Rotate, Rotated, Pcs, clocks
  <2> QED
    BY <2>2, <2>3
<1>5. CASE LineStart(t)
  <2>1. damage' \subseteq {"yes"}
    BY <1>0, <1>2, <1>5 DEF LineStart, Damaged, CallInv
  <2>2. CASE activePrintWriter = "null"
    BY <1>5, <2>1, <2>2, ThrowMonitor DEF LineStart, clocks
  <2>3. CASE activePrintWriter # "null"
    BY <1>0, <1>2, <1>5, <2>1, <2>3, GotoMonitor DEF LineStart, Pcs, clocks, CallInv
  <2> QED
    BY <2>2, <2>3
<1>6. CASE LineEnd(t)
  <2>1. damage' \subseteq {"yes"}
    BY <1>0, <1>2, <1>6 DEF LineEnd, Damaged, CallInv
  <2>2. CASE activePrintWriter = "null"
    BY <1>6, <2>1, <2>2, ThrowMonitor DEF LineEnd, clocks
  <2>3. CASE activePrintWriter # "null"
    <3>1. Len(th[t].stack) \in Nat /\ Len(th[t].stack) <= 2
      BY <1>0 DEF StackOK
    <3>2. th[t].stack # <<>> => Len(th[t].stack) = 1 \/ activePrintWriter = "open"
      BY <1>0, <1>2, <1>6, <3>1, StackLen DEF CallInv, LineEnd
    <3> QED
      BY <1>0, <1>6, <2>1, <2>3, <3>1, <3>2, EndMonitor DEF LineEnd, clocks
  <2> QED
    BY <2>2, <2>3
<1> QED
  BY <1>1, <1>3, <1>4, <1>5, <1>6 DEF Step

\* The unlocked steps of closeLogFile.  A nested call that waits for its caller is at
\* most one deep here, as closing has not been to the monitor since.
LEMMA MeetMonitor ==
    ASSUME MonitorInv, Meet, UNCHANGED <<now, age, setBack, lock, activeFile, damage>>,
           \/ closing = "close" /\ closing' = "null" /\ activePrintWriter' = "closed"
           \/ closing = "null" /\ closing' = "no" /\ activePrintWriter' = "null"
    PROVE  MonitorInv'
<1>1. th' \in [Threads -> Calls]
  BY DEF MonitorInv, Meet, Calls
<1>2. ASSUME NEW u \in Threads
      PROVE  /\ th'[u].pc = th[u].pc /\ th'[u].ev = th[u].ev /\ th'[u].stack = th[u].stack
             /\ th[u].pc # "idle" => th'[u].met = "yes"
  BY DEF MonitorInv, Meet, Calls
<1>3. ASSUME NEW u \in Threads, th'[u].pc # "idle" PROVE CallInv(th[u])'
  <2>1. CallInv(th[u])
    BY <1>2, <1>3 DEF MonitorInv
  <2> QED
    BY <1>2, <1>3, <2>1 DEF CallInv
<1> QED
  BY <1>1, <1>2, <1>3 DEF MonitorInv

LEMMA TickMonitor == MonitorInv /\ Tick => MonitorInv'
<1> SUFFICES ASSUME MonitorInv, Tick PROVE MonitorInv'
  OBVIOUS
<1>1. PICK s \in 0..MaxSec, d \in {0, 1} :
        /\ age + d <= MaxAge \/ \A t \in Threads : ~Nested(t)
        /\ now' = s
        /\ age' = IF age > MaxAge THEN age ELSE age + d
        /\ setBack' = IF s < now + d THEN "yes" ELSE setBack
  BY DEF Tick
<1>2. age \in Nat /\ MaxAge \in Nat /\ age' \in Nat /\ age <= age'
  BY <1>1, FileLoggerAssumption DEF MonitorInv
<1>3. ASSUME NEW u \in Threads, th[u].pc # "idle" PROVE CallInv(th[u])'
  <2>1. CallInv(th[u])
    BY <1>3 DEF MonitorInv
  <2>2. th[u].stack # <<>> => age' <= MaxAge
    BY <1>1, <1>2, <2>1 DEF CallInv, Nested
  <2>3. th[u].pc = "rotate" => age' > MaxAge
    BY <1>2, <2>1 DEF CallInv
  <2> QED
    BY <2>1, <2>2, <2>3 DEF CallInv, Tick
<1>4. now' \in 0..MaxSec /\ setBack' \in {"yes", "no"}
  BY <1>1 DEF MonitorInv
<1> QED
  BY <1>2, <1>3, <1>4 DEF MonitorInv, Tick

LEMMA NextMonitor == MonitorInv /\ [Next]_vars => MonitorInv'
<1> SUFFICES ASSUME MonitorInv, [Next]_vars PROVE MonitorInv'
  OBVIOUS
<1>1. CASE Tick
  BY <1>1, TickMonitor
<1>2. ASSUME NEW t \in Threads, logEvent(t) PROVE MonitorInv'
  BY <1>2, BeginMonitor DEF logEvent, clocks
<1>3. ASSUME NEW t \in Threads, Step(t) PROVE MonitorInv'
  BY <1>3, StepMonitor
<1>4. CASE CloseTest
  BY <1>4 DEF CloseTest, MonitorInv, CallInv, clocks
<1>5. CASE CloseLog
  BY <1>5, BeginMonitor, FileLoggerAssumption DEF CloseLog, clocks
<1>6. CASE CloseClose
  <2>1. CASE activePrintWriter = "null"
    BY <1>6, <2>1 DEF CloseClose, MonitorInv, CallInv, clocks
  <2>2. CASE activePrintWriter # "null"
    BY <1>6, <2>2, MeetMonitor DEF CloseClose, clocks
  <2> QED
    BY <2>1, <2>2
<1>7. CASE CloseNull
  BY <1>7, MeetMonitor DEF CloseNull, clocks
<1>8. CASE UNCHANGED vars
  BY <1>8 DEF vars, MonitorInv, CallInv
<1> QED
  BY <1>1, <1>2, <1>3, <1>4, <1>5, <1>6, <1>7, <1>8 DEF Next

\* A line is only lost or cut, and logEvent only meets a null writer, in a call that
\* overlaps the unlocked end of closeLogFile; never by rotation or by another thread.
THEOREM DamageByCloseOnly == Spec => []DamageOnlyByClose
<1>1. MonitorInv => DamageOnlyByClose
  BY DEF MonitorInv, DamageOnlyByClose
<1> QED
  BY InitMonitor, NextMonitor, <1>1, PTL DEF Spec

-----------------------------------------------------------------------------
(* The content of the files.                                               *)

\* c is the content of a file: its name first and at most twice, lines numbered from 0,
\* only the last cut.
WellFormed(c) ==
    \A i \in 1..Len(c) :
       /\ c[i].n = i - 1
       /\ i = 1 => c[i].ev = "FULL_FILENAME"
       /\ c[i].ev = "FULL_FILENAME" => i <= 2
       /\ c[i].part = "cut" => i = Len(c)

Whole(c) == \A i \in 1..Len(c) : c[i].part = "whole"

At(pc) == \E t \in Threads : th[t].pc = pc

\* The open file with its buffer, and how far it is: in lines and in lines since the
\* last flush, in the middle of a line and between lines.  It is only empty during the
\* nested call that prints its name, and nested calls come before the third line.
Open == files[activeFile] \o buf
OpenCut == /\ Len(Open) = sequenceNumber + 1
           /\ Len(buf) = (sequenceNumber % FlushEvery) + 1
           /\ buf[Len(buf)].part = "cut"
OpenWhole == /\ Len(Open) = sequenceNumber
             /\ Len(buf) = sequenceNumber % FlushEvery
             /\ Whole(Open)
NameFirst == /\ sequenceNumber = 0 => \E t \in Threads : th[t].stack # <<>>
             /\ \A t \in Threads : th[t].stack # <<>> => sequenceNumber + Len(th[t].stack) <= 2

ContentInv ==
    /\ sequenceNumber \in Nat
    /\ buf \in Seq(LogLine)
    /\ files \in [0..MaxSec -> Seq(LogLine)]
    /\ \A s \in 0..MaxSec : WellFormed(files[s])
    /\ WellFormed(Open)
    /\ FewLinesUnflushed
    /\ activePrintWriter = "open" =>
          /\ At("tail") => OpenCut
          /\ ~At("tail") => OpenWhole
          /\ NameFirst

\* Division with rest.
LEMMA DivMod ==
    ASSUME NEW f \in Nat \ {0}, NEW n \in Nat
    PROVE  n = f * (n \div f) + (n % f) /\ n \div f \in Nat /\ n % f \in 0..(f - 1)
OBVIOUS

LEMMA QuotientUnique ==
    ASSUME NEW f \in Nat \ {0}, NEW q \in Int, NEW p \in Int,
           NEW r \in 0..(f - 1), NEW s \in 0..(f - 1), f * q + r = f * p + s
    PROVE  q = p
<1>1. CASE q > p
  <2>1. q - p >= 1 /\ f * (q - p) = s - r
    BY <1>1
  <2>2. f * (q - p) >= f
    BY <2>1
  <2> QED
    BY <2>1, <2>2
<1>2. CASE q < p
  <2>1. p - q >= 1 /\ f * (p - q) = r - s
    BY <1>2
  <2>2. f * (p - q) >= f
    BY <2>1
  <2> QED
    BY <2>1, <2>2
<1> QED
  BY <1>1, <1>2

\* The count since the last flush goes up by one until it is zero again.
LEMMA ModStep ==
    ASSUME NEW f \in Nat \ {0}, NEW n \in Nat
    PROVE  (n + 1) % f = IF (n % f) + 1 = f THEN 0 ELSE (n % f) + 1
<1> DEFINE q == n \div f
           r == n % f
           p == (n + 1) \div f
           s == (n + 1) % f
<1>1. n = f * q + r /\ q \in Int /\ r \in 0..(f - 1)
  BY DivMod
<1>2. n + 1 = f * p + s /\ p \in Int /\ s \in 0..(f - 1)
  BY DivMod
<1> HIDE DEF q, r, p, s
<1>3. CASE r + 1 = f
  <2>1. f * (q + 1) + 0 = f * p + s
    BY <1>1, <1>2, <1>3
  <2>2. q + 1 = p
    BY <1>1, <1>2, <2>1, QuotientUnique
  <2>3. s = 0
    BY <1>1, <1>2, <2>1, <2>2
  <2> QED
    BY <1>3, <2>3 DEF r, s
<1>4. CASE r + 1 # f
  <2>1. f * q + (r + 1) = f * p + s /\ r + 1 \in 0..(f - 1)
    BY <1>1, <1>2, <1>4
  <2>2. q = p
    BY <1>1, <1>2, <2>1, QuotientUnique
  <2>3. s = r + 1
    BY <1>1, <1>2, <2>1, <2>2
  <2> QED
    BY <1>4, <2>3 DEF r, s
<1> QED
  BY <1>3, <1>4

\* Joined sequences, element by element.
LEMMA Joined ==
    ASSUME NEW c \in Seq(LogLine), NEW d \in Seq(LogLine)
    PROVE  /\ c \o d \in Seq(LogLine)
           /\ Len(c \o d) = Len(c) + Len(d)
           /\ \A i \in 1..Len(c) : (c \o d)[i] = c[i]
           /\ \A i \in 1..Len(d) : (c \o d)[Len(c) + i] = d[i]
<1>1. /\ c \o d \in Seq(LogLine) /\ Len(c \o d) = Len(c) + Len(d)
      /\ \A i \in 1..(Len(c) + Len(d)) : (c \o d)[i] = IF i <= Len(c) THEN c[i] ELSE d[i - Len(c)]
  BY ConcatProperties, Zenon
<1>2. Len(c) \in Nat /\ Len(d) \in Nat
  OBVIOUS
<1>3. ASSUME NEW i \in 1..Len(c) PROVE (c \o d)[i] = c[i]
  BY <1>1, <1>2
<1>4. ASSUME NEW i \in 1..Len(d) PROVE (c \o d)[Len(c) + i] = d[i]
  <2>1. Len(c) + i \in 1..(Len(c) + Len(d)) /\ ~(Len(c) + i <= Len(c)) /\ (Len(c) + i) - Len(c) = i
    BY <1>2
  <2> QED
    BY <1>1, <2>1
<1> QED
  BY <1>1, <1>3, <1>4

\* What was written out of a well-formed file is well formed.
LEMMA PrefixWellFormed ==
    ASSUME NEW c \in Seq(LogLine), NEW d \in Seq(LogLine), WellFormed(c \o d)
    PROVE  WellFormed(c)
<1>1. Len(c) \in Nat /\ Len(d) \in Nat /\ Len(c \o d) = Len(c) + Len(d)
  BY Joined
<1> SUFFICES ASSUME NEW i \in 1..Len(c)
             PROVE  /\ c[i].n = i - 1
                    /\ i = 1 => c[i].ev = "FULL_FILENAME"
                    /\ c[i].ev = "FULL_FILENAME" => i <= 2
                    /\ c[i].part = "cut" => i = Len(c)
  BY DEF WellFormed
<1>2. i \in 1..Len(c \o d) /\ (c \o d)[i] = c[i]
  BY <1>1, Joined
<1> QED
  BY <1>1, <1>2 DEF WellFormed

\* A further line of a file whose lines are whole.
LEMMA LineAdded ==
    ASSUME NEW c \in Seq(LogLine), NEW d \in Seq(LogLine), NEW l \in LogLine,
           WellFormed(c \o d), Whole(c \o d), l.n = Len(c \o d),
           Len(c \o d) = 0 => l.ev = "FULL_FILENAME",
           l.ev = "FULL_FILENAME" => Len(c \o d) <= 1
    PROVE  /\ WellFormed(c \o Append(d, l))
           /\ Len(c \o Append(d, l)) = Len(c \o d) + 1
           /\ l.part = "whole" => Whole(c \o Append(d, l))
<1> DEFINE a == c \o d
           b == c \o Append(d, l)
<1>1. Append(d, l) \in Seq(LogLine) /\ Len(Append(d, l)) = Len(d) + 1
  OBVIOUS
<1>2. /\ Len(c) \in Nat /\ Len(d) \in Nat
      /\ Len(a) = Len(c) + Len(d) /\ Len(b) = Len(a) + 1
  BY <1>1, Joined
<1>3. ASSUME NEW i \in 1..Len(a) PROVE b[i] = a[i]
  <2>1. CASE i <= Len(c)
    BY <1>1, <1>2, <2>1, Joined
  <2>2. CASE ~(i <= Len(c))
    <3>1. i - Len(c) \in 1..Len(d) /\ Len(c) + (i - Len(c)) = i
      BY <1>2, <2>2
    <3>2. Append(d, l)[i - Len(c)] = d[i - Len(c)]
      BY <3>1
    <3>3. a[i] = d[i - Len(c)]
      BY <3>1, Joined
    <3>4. b[i] = Append(d, l)[i - Len(c)]
      BY <1>1, <1>2, <3>1, Joined
    <3> QED
      BY <3>2, <3>3, <3>4
  <2> QED
    BY <2>1, <2>2
<1>4. b[Len(a) + 1] = l
  <2>1. Len(d) + 1 \in 1..Len(Append(d, l)) /\ Len(c) + (Len(d) + 1) = Len(a) + 1
    BY <1>1, <1>2
  <2>2. Append(d, l)[Len(d) + 1] = l
    OBVIOUS
  <2>3. b[Len(c) + (Len(d) + 1)] = Append(d, l)[Len(d) + 1]
    BY <1>1, <2>1, Joined
  <2> QED
    BY <2>1, <2>2, <2>3
<1> HIDE DEF a, b
<1>5. WellFormed(a) /\ Whole(a) /\ l.n = Len(a)
      /\ (Len(a) = 0 => l.ev = "FULL_FILENAME") /\ (l.ev = "FULL_FILENAME" => Len(a) <= 1)
  BY DEF a
<1>6. WellFormed(b)
  <2> SUFFICES ASSUME NEW i \in 1..Len(b)
               PROVE  /\ b[i].n = i - 1
                      /\ i = 1 => b[i].ev = "FULL_FILENAME"
                      /\ b[i].ev = "FULL_FILENAME" => i <= 2
                      /\ b[i].part = "cut" => i = Len(b)
    BY DEF WellFormed
  <2>1. CASE i = Len(a) + 1
    BY <1>2, <1>4, <1>5, <2>1
  <2>2. CASE i # Len(a) + 1
    <3>1. i \in 1..Len(a)
      <4>1. Len(a) \in Nat /\ i \in 1..(Len(a) + 1)
        BY <1>2
      <4> QED
        BY <2>2, <4>1
    <3> QED
      BY <1>3, <1>5, <3>1 DEF WellFormed, Whole
  <2> QED
    BY <2>1, <2>2
<1>7. ASSUME l.part = "whole" PROVE Whole(b)
  BY <1>2, <1>3, <1>4, <1>5, <1>7 DEF Whole
<1> QED
  BY <1>2, <1>6, <1>7 DEF a, b

\* The cut line at the end of the buffer made whole.
LEMMA LineCompleted ==
    ASSUME NEW c \in Seq(LogLine), NEW d \in Seq(LogLine), d # <<>>, WellFormed(c \o d),
           NEW e, e = [d EXCEPT ![Len(d)].part = "whole"]
    PROVE  /\ e \in Seq(LogLine) /\ Len(e) = Len(d)
           /\ WellFormed(c \o e) /\ Whole(c \o e)
           /\ \A i \in 1..Len(d) : e[i].ev = d[i].ev
<1>1. /\ Len(c) \in Nat /\ Len(d) \in Nat \ {0}
  OBVIOUS
<1> DEFINE l == [d[Len(d)] EXCEPT !.part = "whole"]
<1>2. d[Len(d)] \in LogLine
  BY <1>1
<1>3. l \in LogLine /\ l.n = d[Len(d)].n /\ l.ev = d[Len(d)].ev /\ l.part = "whole"
  BY <1>2 DEF LogLine
<1>4. e = [d EXCEPT ![Len(d)] = l]
  OBVIOUS
<1> HIDE DEF l
<1>5. e \in Seq(LogLine) /\ Len(e) = Len(d)
  <2>1. Len(d) \in 1..Len(d)
    BY <1>1
  <2>2. /\ [d EXCEPT ![Len(d)] = l] \in Seq(LogLine)
        /\ Len([d EXCEPT ![Len(d)] = l]) = Len(d)
    BY <1>3, <2>1, ExceptSeq
  <2> QED
    BY <1>4, <2>2
<1>6. e[Len(d)] = l /\ \A i \in 1..(Len(d) - 1) : e[i] = d[i]
  BY <1>1, <1>4
<1> DEFINE a == c \o d
           b == c \o e
<1>7. /\ Len(a) = Len(c) + Len(d) /\ Len(b) = Len(a)
      /\ \A i \in 1..Len(c) : a[i] = c[i] /\ b[i] = c[i]
      /\ \A i \in 1..Len(d) : a[Len(c) + i] = d[i] /\ b[Len(c) + i] = e[i]
  BY <1>5, Joined
<1>8. a \in Seq(LogLine)
  BY Joined
<1> HIDE DEF a, b
<1>9. ASSUME NEW i \in 1..(Len(a) - 1) PROVE b[i] = a[i]
  <2>1. CASE i <= Len(c)
    BY <1>1, <1>7, <2>1
  <2>2. CASE ~(i <= Len(c))
    <3>1. i - Len(c) \in 1..(Len(d) - 1) /\ Len(c) + (i - Len(c)) = i /\ i - Len(c) \in 1..Len(d)
      BY <1>1, <1>7, <2>2
    <3> QED
      BY <1>6, <1>7, <3>1
  <2> QED
    BY <2>1, <2>2
<1>10. a[Len(a)] = d[Len(d)] /\ b[Len(a)] = l
  <2>1. Len(d) \in 1..Len(d)
    BY <1>1
  <2>2. a[Len(c) + Len(d)] = d[Len(d)] /\ b[Len(c) + Len(d)] = e[Len(d)]
    BY <1>7, <2>1
  <2> QED
    BY <1>6, <1>7, <2>2
<1>11. WellFormed(a)
  BY DEF a
<1>12. WellFormed(b) /\ Whole(b)
  <2> SUFFICES ASSUME NEW i \in 1..Len(b)
               PROVE  /\ b[i].n = i - 1
                      /\ i = 1 => b[i].ev = "FULL_FILENAME"
                      /\ b[i].ev = "FULL_FILENAME" => i <= 2
                      /\ b[i].part = "whole"
    BY DEF WellFormed, Whole
  <2>0. Len(a) \in Nat \ {0} /\ i \in 1..Len(a)
    BY <1>1, <1>7
  <2>1. CASE i = Len(a)
    BY <1>3, <1>10, <1>11, <2>0, <2>1 DEF WellFormed
  <2>2. CASE i # Len(a)
    <3>1. i \in 1..(Len(a) - 1)
      BY <2>0, <2>2
    <3>2. a[i] \in LogLine /\ a[i].part \in {"cut", "whole"}
      <4>1. a[i] \in LogLine
        BY <1>8, <2>0
      <4> QED
        BY <4>1 DEF LogLine
    <3> QED
      BY <1>9, <1>11, <2>0, <2>2, <3>1, <3>2 DEF WellFormed
  <2> QED
    BY <2>1, <2>2
<1>13. \A i \in 1..Len(d) : e[i].ev = d[i].ev
  BY <1>1, <1>3, <1>6
<1> QED
  BY <1>5, <1>12, <1>13 DEF b

\* A buffer of fewer than FlushEvery lines, not counting a cut one at its end.
LEMMA FewLines ==
    ASSUME NEW b \in Seq(LogLine), NEW k \in 0..(FlushEvery - 1),
           Len(b) = k \/ (Len(b) = k + 1 /\ b[Len(b)].part = "cut")
    PROVE  Cardinality({i \in DOMAIN b : b[i].part = "whole"}) < FlushEvery
<1> DEFINE W == {i \in DOMAIN b : b[i].part = "whole"}
<1>0. FlushEvery \in Nat \ {0} /\ k \in Nat
  BY FileLoggerAssumption
<1>1. W \subseteq 1..k
  <2>1. DOMAIN b = 1..Len(b) /\ Len(b) \in Nat
    OBVIOUS
  <2>2. ASSUME NEW i \in W PROVE i \in 1..k
    <3>1. i \in 1..Len(b) /\ b[i].part = "whole"
      BY <2>1
    <3>2. CASE Len(b) = k
      BY <3>1, <3>2
    <3>3. CASE Len(b) = k + 1 /\ b[Len(b)].part = "cut"
      <4>1. i # Len(b)
        BY <3>1, <3>3
      <4> QED
        BY <1>0, <3>1, <3>3, <4>1
    <3> QED
      BY <3>2, <3>3
  <2> QED
    BY <2>2
<1>2. IsFiniteSet(1..k) /\ Cardinality(1..k) = k
  BY <1>0, FS_Interval
<1>3. IsFiniteSet(W) /\ Cardinality(W) <= k /\ Cardinality(W) \in Nat
  BY <1>1, <1>2, FS_Subset, FS_CardinalityType
<1> QED
  BY <1>0, <1>3

\* At most one call of logEvent is under way, and At tells where it is.
LEMMA AtCall ==
    ASSUME MonitorInv, NEW t \in Threads, th[t].pc # "idle", NEW pc, pc # "idle"
    PROVE  At(pc) <=> th[t].pc = pc
BY DEF MonitorInv, At

LEMMA AtNone ==
    ASSUME MonitorInv, lock = "free", NEW pc, pc # "idle"
    PROVE  ~At(pc)
BY FileLoggerAssumption DEF MonitorInv, At

LEMMA InitContent == Init => ContentInv
<1> SUFFICES ASSUME Init PROVE ContentInv
  OBVIOUS
<1>1. /\ sequenceNumber = 0 /\ buf = <<>> /\ activePrintWriter = "null" /\ activeFile = 0
      /\ files = [s \in 0..MaxSec |-> <<>>] /\ 0 \in 0..MaxSec
  BY FileLoggerAssumption DEF Init
<1>2. <<>> \in Seq(LogLine) /\ WellFormed(<<>>)
  BY DEF WellFormed
<1>3. Open = <<>>
  BY <1>1 DEF Open
<1>4. FewLinesUnflushed
  <2>1. 0 \in 0..(FlushEvery - 1) /\ Len(buf) = 0
    BY <1>1, FileLoggerAssumption
  <2> QED
    BY <1>1, <1>2, <2>1, FewLines DEF FewLinesUnflushed
<1> QED
  BY <1>1, <1>2, <1>3, <1>4 DEF ContentInv

\* Steps that do not touch the log.
LEMMA SameContent ==
    ASSUME ContentInv,
           UNCHANGED <<activePrintWriter, activeFile, sequenceNumber, buf, files>>,
           At("tail")' <=> At("tail"), activePrintWriter = "open" => NameFirst'
    PROVE  ContentInv'
BY DEF ContentInv, FewLinesUnflushed, Open, OpenCut, OpenWhole

\* Steps with a writer that is not open: what is printed is lost.
LEMMA ClosedContent ==
    ASSUME ContentInv, UNCHANGED <<activeFile, buf, files>>, sequenceNumber' \in Nat,
           activePrintWriter' # "open"
    PROVE  ContentInv'
BY DEF ContentInv, FewLinesUnflushed, Open

\* Steps that write lines out to the active file and leave no buffer.
LEMMA WrittenContent ==
    ASSUME MonitorInv, ContentInv, UNCHANGED <<activeFile, sequenceNumber>>,
           NEW b \in Seq(LogLine), WellFormed(files[activeFile] \o b),
           files' = [files EXCEPT ![activeFile] = @ \o b], buf' = <<>>,
           activePrintWriter' # "open"
    PROVE  ContentInv'
<1>1. activeFile \in 0..MaxSec /\ files \in [0..MaxSec -> Seq(LogLine)]
  BY FileLoggerAssumption DEF MonitorInv, ContentInv
<1>2. files[activeFile] \in Seq(LogLine) /\ files[activeFile] \o b \in Seq(LogLine)
  BY <1>1, Joined
<1>3. files' \in [0..MaxSec -> Seq(LogLine)] /\ files'[activeFile] = files[activeFile] \o b
  BY <1>1, <1>2
<1>4. \A s \in 0..MaxSec : WellFormed(files'[s])
  BY <1>1, <1>3 DEF ContentInv
<1>5. Open' = files[activeFile] \o b
  BY <1>2, <1>3 DEF Open
<1>6. FewLinesUnflushed'
  <2>1. 0 \in 0..(FlushEvery - 1) /\ Len(buf') = 0 /\ buf' \in Seq(LogLine)
    BY FileLoggerAssumption
  <2> QED
    BY <2>1, FewLines DEF FewLinesUnflushed
<1> QED
  BY <1>3, <1>4, <1>5, <1>6 DEF ContentInv

\* A new file.
LEMMA NewFileContent ==
    ASSUME MonitorInv, MonitorInv', ContentInv, activeFile' = now, sequenceNumber' = 0,
           buf' = <<>>, files' = [files EXCEPT ![now] = <<>>], ~At("tail")', NameFirst'
    PROVE  ContentInv'
<1>1. now \in 0..MaxSec /\ files \in [0..MaxSec -> Seq(LogLine)]
  BY DEF MonitorInv, ContentInv
<1>2. files' \in [0..MaxSec -> Seq(LogLine)] /\ files'[now] = <<>>
  BY <1>1
<1>3. WellFormed(<<>>)
  BY DEF WellFormed
<1>4. \A s \in 0..MaxSec : WellFormed(files'[s])
  BY <1>1, <1>2, <1>3 DEF ContentInv
<1>5. Open' = <<>>
  BY <1>2 DEF Open
<1>6. FewLinesUnflushed'
  <2>1. 0 \in 0..(FlushEvery - 1) /\ Len(buf') = 0 /\ buf' \in Seq(LogLine)
    BY FileLoggerAssumption
  <2> QED
    BY <2>1, FewLines DEF FewLinesUnflushed
<1>7. OpenWhole'
  <2>1. 0 % FlushEvery = 0
    BY FileLoggerAssumption
  <2> QED
    BY <1>5, <2>1 DEF OpenWhole, Whole
<1> QED
  BY <1>2, <1>3, <1>4, <1>5, <1>6, <1>7 DEF ContentInv

\* A line is complete.
LEMMA PrintedContent ==
    ASSUME MonitorInv, ContentInv, UNCHANGED <<activeFile, activePrintWriter>>,
           NEW b \in Seq(LogLine), WellFormed(files[activeFile] \o b), Whole(files[activeFile] \o b),
           Len(files[activeFile] \o b) = sequenceNumber + 1,
           Len(b) = (sequenceNumber % FlushEvery) + 1,
           Printed(b), ~At("tail")', NameFirst'
    PROVE  ContentInv'
<1>1. /\ activeFile \in 0..MaxSec /\ files \in [0..MaxSec -> Seq(LogLine)]
      /\ sequenceNumber \in Nat /\ FlushEvery \in Nat \ {0}
  BY FileLoggerAssumption DEF MonitorInv, ContentInv
<1> DEFINE c == files[activeFile] \o b
           n == sequenceNumber + 1
<1>2. files[activeFile] \in Seq(LogLine) /\ c \in Seq(LogLine)
  BY <1>1, Joined
<1>3. n % FlushEvery = IF Len(b) = FlushEvery THEN 0 ELSE Len(b)
  BY <1>1, ModStep
<1>4. n % FlushEvery \in 0..(FlushEvery - 1)
  <2>1. n \in Nat
    BY <1>1
  <2> HIDE DEF n
  <2> QED
    BY <1>1, <2>1, DivMod
<1>5. /\ files' \in [0..MaxSec -> Seq(LogLine)] /\ buf' \in Seq(LogLine)
      /\ \A s \in 0..MaxSec : WellFormed(files'[s])
      /\ Open' = c /\ Len(buf') = n % FlushEvery
  <2>1. CASE Flushes(n)
    <3>1. n % FlushEvery = 0
      BY <2>1 DEF Flushes
    <3>2. files' = [files EXCEPT ![activeFile] = c] /\ buf' = <<>>
      BY <2>1 DEF Printed
    <3> HIDE DEF c
    <3>3. files' \in [0..MaxSec -> Seq(LogLine)] /\ files'[activeFile] = c
      BY <1>1, <1>2, <3>2
    <3>4. \A s \in 0..MaxSec : WellFormed(files'[s])
      <4>1. WellFormed(c)
        BY DEF c
      <4> QED
        BY <1>1, <3>2, <4>1 DEF ContentInv
    <3>5. Open' = c
      BY <1>2, <3>2, <3>3 DEF Open
    <3> QED
      BY <3>1, <3>2, <3>3, <3>4, <3>5
  <2>2. CASE ~Flushes(n)
    <3>1. n % FlushEvery = Len(b)
      BY <1>3, <2>2 DEF Flushes
    <3>2. files' = files /\ buf' = b
      BY <2>2 DEF Printed
    <3> QED
      BY <1>1, <3>1, <3>2 DEF Open, ContentInv
  <2> QED
    BY <2>1, <2>2
<1>6. FewLinesUnflushed'
  BY <1>4, <1>5, FewLines DEF FewLinesUnflushed
<1>7. sequenceNumber' = n /\ n \in Nat
  BY <1>1 DEF Printed
<1> HIDE DEF n
<1>8. OpenWhole'
  BY <1>5, <1>7 DEF OpenWhole, n
<1> QED
  BY <1>5, <1>6, <1>7, <1>8 DEF ContentInv

\* The names in the file when the call under way is the only one that waits for others.
LEMMA NameFirstCall ==
    ASSUME MonitorInv, NEW t \in Threads, th[t].pc # "idle"
    PROVE  NameFirst <=> /\ sequenceNumber = 0 => th[t].stack # <<>>
                         /\ th[t].stack # <<>> => sequenceNumber + Len(th[t].stack) <= 2
BY DEF MonitorInv, NameFirst

\* After End: the caller goes on, one call less waits.
LEMMA EndCall ==
    ASSUME MonitorInv, MonitorInv', NEW t \in Threads, th[t].pc # "idle", NEW s, StackOK(s), End(t, s)
    PROVE  /\ ~At("tail")' /\ ~At("rotate")'
           /\ s = <<>> => \A u \in Threads : th'[u].stack = <<>>
           /\ s # <<>> => th'[t].pc # "idle" /\ th'[t].stack = Tail(s) /\ Len(Tail(s)) = Len(s) - 1
<1>1. CASE s = <<>>
  <2>1. \A u \in Threads : th'[u].pc = "idle"
    BY <1>1, FileLoggerAssumption DEF End, Return, MonitorInv
  <2> QED
    BY <1>1, <2>1 DEF At, MonitorInv
<1>2. CASE s # <<>>
  <2>1. /\ Head(s).after \in {"age", "head"} /\ Len(Tail(s)) = Len(s) - 1
    BY <1>2, StackTail
  <2>2. th'[t].pc = Head(s).after /\ th'[t].stack = Tail(s)
    BY <1>2 DEF End, MonitorInv
  <2>3. \A u \in Threads \ {t} : th'[u].pc = "idle"
    BY <2>1, <2>2 DEF MonitorInv
  <2> QED
    BY <1>2, <2>1, <2>2, <2>3 DEF At
<1> QED
  BY <1>1, <1>2

\* The steps of a call.
LEMMA StepContent ==
    ASSUME MonitorInv, MonitorInv', ContentInv, NEW t \in Threads, Step(t)
    PROVE  ContentInv'
<1>1. th[t].pc # "idle"
  BY DEF Step, Check, Age, Rotate, LineStart, LineEnd
<1>2. /\ th \in [Threads -> Calls] /\ activeFile \in 0..MaxSec
      /\ files \in [0..MaxSec -> Seq(LogLine)] /\ buf \in Seq(LogLine)
      /\ sequenceNumber \in Nat /\ WellFormed(Open)
  BY FileLoggerAssumption DEF MonitorInv, ContentInv
<1>3. files[activeFile] \in Seq(LogLine) /\ Open \in Seq(LogLine)
  BY <1>2, Joined DEF Open
<1>4. At("tail") <=> th[t].pc = "tail"
  BY <1>1, AtCall
<1>5. ASSUME NEW pc \in Pcs \ {"idle"}, Goto(t, pc)
      PROVE  /\ At("tail")' <=> pc = "tail"
             /\ UNCHANGED sequenceNumber => (NameFirst' <=> NameFirst)
  <2>1. th'[t].pc = pc /\ th'[t].stack = th[t].stack
    BY <1>2, <1>5 DEF Goto, Calls
  <2>2. \A u \in Threads : th'[u].stack = th[u].stack
    BY <1>2, <1>5 DEF Goto, Calls
  <2> QED
    BY <2>1, <2>2 DEF MonitorInv, At, Pcs, NameFirst
<1>6. StackOK(th[t].stack) /\ CallInv(th[t])
  BY <1>1 DEF MonitorInv, Calls
<1>7. CASE Check(t)
  <2>1. PICK next \in {"age", "head"} : openLogFile(t, next)
    BY <1>7 DEF Check
  <2>2. th[t].pc \in {"check", "reopen"} /\ UNCHANGED now
    BY <1>7 DEF Check
  <2>3. CASE activePrintWriter # "null"
    BY <1>4, <1>5, <2>1, <2>2, <2>3, SameContent DEF openLogFile, Pcs, ContentInv
  <2>4. CASE /\ activePrintWriter = "null"
             /\ UNCHANGED <<activePrintWriter, activeFile, sequenceNumber, buf, files>>
    BY <1>2, <2>4, ClosedContent
  <2>5. CASE /\ activePrintWriter = "null" /\ activeFile' = now /\ sequenceNumber' = OpenedNumber
             /\ buf' = <<>> /\ files' = [files EXCEPT ![now] = <<>>]
             /\ th' = [th EXCEPT ![t] = [pc |-> "check", ev |-> "FULL_FILENAME",
                    stack |-> <<[ev |-> @.ev, after |-> next]>> \o @.stack, met |-> @.met]]
    <3>1. th'[t].pc = "check" /\ th'[t].stack # <<>>
      <4>1. th'[t].pc = "check" /\ th'[t].ev = "FULL_FILENAME"
        BY <1>2, <2>5
      <4> QED
        BY <4>1 DEF MonitorInv, CallInv
    <3>2. ~At("tail")'
      BY <3>1 DEF MonitorInv, At
    <3>3. Len(th'[t].stack) \in Nat /\ Len(th'[t].stack) <= 2 /\ sequenceNumber' = 0
      BY <2>5 DEF MonitorInv, Calls, StackOK, OpenedNumber
    <3>4. NameFirst'
      BY <3>1, <3>3 DEF MonitorInv, NameFirst
    <3> QED
      BY <2>5, <3>2, <3>4, NewFileContent DEF OpenedNumber
  <2> QED
    BY <2>1, <2>3, <2>4, <2>5 DEF openLogFile
<1>9. CASE Age(t)
  <2>1. PICK pc \in {"rotate", "reopen"} : Goto(t, pc)
    BY <1>9 DEF Age
  <2> QED
    BY <1>4, <1>5, <1>9, <2>1, SameContent DEF Age, Pcs, ContentInv
<1>10. CASE Rotate(t)
  <2>1. CASE activePrintWriter = "open"
    <3> DEFINE l == Line("TIME_EXCEEDED", "whole")
    <3>1. OpenWhole
      BY <1>4, <1>10, <2>1 DEF ContentInv, Rotate
    <3>0. sequenceNumber # 0
      <4>1. th[t].stack = <<>>
        BY <1>6, <1>10 DEF Rotate, CallInv
      <4> QED
        BY <1>1, <2>1, <4>1, NameFirstCall DEF ContentInv
    <3>2. l \in LogLine /\ l.n = Len(Open) /\ l.ev # "FULL_FILENAME" /\ Len(Open) # 0
      BY <1>2, <3>0, <3>1 DEF Line, LogLine, OpenWhole
    <3> HIDE DEF l
    <3>3. WellFormed(files[activeFile] \o Append(buf, l))
      BY <1>2, <1>3, <3>1, <3>2, LineAdded DEF Open, OpenWhole
    <3>4. Append(buf, l) \in Seq(LogLine)
      BY <1>2, <3>2
    <3>5. /\ files' = [files EXCEPT ![activeFile] = @ \o Append(buf, l)] /\ buf' = <<>>
          /\ activePrintWriter' # "open" /\ UNCHANGED <<activeFile, sequenceNumber>>
      BY <1>10, <2>1 DEF Rotate, Rotated, l
    <3> QED
      BY <3>3, <3>4, <3>5, WrittenContent
  <2>2. CASE activePrintWriter # "open"
    BY <1>2, <1>10, <2>2, ClosedContent DEF Rotate, Rotated
  <2> QED
    BY <2>1, <2>2
<1>11. CASE LineStart(t)
  <2>1. CASE activePrintWriter = "open"
    <3> DEFINE l == Line(th[t].ev, "cut")
    <3>1. OpenWhole
      BY <1>4, <1>11, <2>1 DEF ContentInv, LineStart
    <3>2. /\ th[t].ev \in Evs
          /\ sequenceNumber = 0 => th[t].ev = "FULL_FILENAME"
          /\ th[t].ev = "FULL_FILENAME" => sequenceNumber <= 1
      <4>1. th[t].ev \in Evs /\ (th[t].stack # <<>> <=> th[t].ev = "FULL_FILENAME")
        BY <1>2, <1>6 DEF CallInv, Calls
      <4>2. /\ sequenceNumber = 0 => th[t].stack # <<>>
            /\ th[t].stack # <<>> => sequenceNumber + Len(th[t].stack) <= 2
        BY <1>1, <2>1, NameFirstCall DEF ContentInv
      <4>3. th[t].stack # <<>> => Len(th[t].stack) >= 1
        BY <1>6, StackLen
      <4>4. Len(th[t].stack) \in Nat
        BY <1>6, StackLen
      <4> QED
        BY <1>2, <4>1, <4>2, <4>3, <4>4
    <3>3. /\ l \in LogLine /\ l.n = Len(Open) /\ l.part = "cut"
          /\ Len(Open) = 0 => l.ev = "FULL_FILENAME"
          /\ l.ev = "FULL_FILENAME" => Len(Open) <= 1
      BY <1>2, <3>1, <3>2 DEF Line, LogLine, OpenWhole, Evs
    <3>4. buf' = Append(buf, l) /\ UNCHANGED <<activePrintWriter, activeFile, sequenceNumber, files>>
      BY <1>11, <2>1 DEF LineStart
    <3> HIDE DEF l
    <3>5. WellFormed(Open') /\ Len(Open') = Len(Open) + 1
      BY <1>2, <1>3, <3>1, <3>3, <3>4, LineAdded DEF Open, OpenWhole
    <3>6. /\ buf' \in Seq(LogLine) /\ Len(buf') = Len(buf) + 1 /\ buf'[Len(buf')] = l
      BY <1>2, <3>3, <3>4
    <3>7. OpenCut'
      BY <3>1, <3>3, <3>4, <3>5, <3>6 DEF OpenCut, OpenWhole
    <3>8. FewLinesUnflushed'
      <4>1. sequenceNumber % FlushEvery \in 0..(FlushEvery - 1)
        BY <1>2, DivMod, FileLoggerAssumption
      <4> QED
        BY <3>1, <3>3, <3>6, <4>1, FewLines DEF FewLinesUnflushed, OpenWhole
    <3>9. At("tail")' /\ NameFirst'
      <4>1. Goto(t, "tail")
        BY <1>11, <2>1 DEF LineStart
      <4> QED
        BY <1>5, <2>1, <3>4, <4>1 DEF Pcs, ContentInv
    <3> QED
      BY <3>4, <3>5, <3>6, <3>7, <3>8, <3>9 DEF ContentInv
  <2>2. CASE activePrintWriter # "open"
    BY <1>2, <1>11, <2>2, ClosedContent DEF LineStart
  <2> QED
    BY <2>1, <2>2
<1>12. CASE LineEnd(t)
  <2>1. CASE activePrintWriter = "open"
    <3> DEFINE b == [buf EXCEPT ![Len(buf)].part = "whole"]
    <3>1. OpenCut
      BY <1>4, <1>12, <2>1 DEF ContentInv, LineEnd
    <3>2. buf # <<>> /\ Len(buf) \in Nat
      <4>1. sequenceNumber % FlushEvery \in Nat
        BY <1>2, DivMod, FileLoggerAssumption
      <4> QED
        BY <1>2, <3>1, <4>1 DEF OpenCut
    <3>3. /\ b \in Seq(LogLine) /\ Len(b) = Len(buf)
          /\ WellFormed(files[activeFile] \o b) /\ Whole(files[activeFile] \o b)
      BY <1>2, <1>3, <3>2, LineCompleted DEF Open
    <3>4. Printed(b) /\ End(t, th[t].stack) /\ UNCHANGED <<activeFile, activePrintWriter>>
      BY <1>12, <2>1 DEF LineEnd
    <3> HIDE DEF b
    <3>5. Len(files[activeFile] \o b) = Len(Open)
      <4>1. Len(files[activeFile] \o b) = Len(files[activeFile]) + Len(b)
        BY <1>3, <3>3, Joined
      <4>2. Len(Open) = Len(files[activeFile]) + Len(buf)
        BY <1>2, <1>3, Joined DEF Open
      <4> QED
        BY <3>3, <4>1, <4>2
    <3>6. ~At("tail")' /\ NameFirst'
      <4>1. /\ ~At("tail")'
            /\ th[t].stack = <<>> => \A u \in Threads : th'[u].stack = <<>>
            /\ th[t].stack # <<>> => /\ th'[t].pc # "idle" /\ th'[t].stack = Tail(th[t].stack)
                                    /\ Len(Tail(th[t].stack)) = Len(th[t].stack) - 1
        BY <1>1, <1>6, <3>4, EndCall
      <4>2. sequenceNumber' = sequenceNumber + 1 /\ sequenceNumber' # 0
        BY <1>2, <3>4 DEF Printed
      <4>3. th[t].stack # <<>> => sequenceNumber + Len(th[t].stack) <= 2
        BY <1>1, <2>1, NameFirstCall DEF ContentInv
      <4>4. CASE th[t].stack = <<>>
        BY <4>1, <4>2, <4>4 DEF NameFirst
      <4>5. CASE th[t].stack # <<>>
        <5>1. \A u \in Threads \ {t} : th'[u].stack = <<>>
          BY <4>1, <4>5 DEF MonitorInv
        <5>2. Len(th[t].stack) \in Nat
          BY <1>6, StackLen
        <5>3. Len(th'[t].stack) = Len(th[t].stack) - 1
          BY <4>1, <4>5
        <5>4. \A m, k \in Nat : m + k <= 2 => (m + 1) + (k - 1) <= 2
          OBVIOUS
        <5>5. sequenceNumber' + Len(th'[t].stack) <= 2
          BY <1>2, <4>2, <4>3, <4>5, <5>2, <5>3, <5>4
        <5>6. \A u \in Threads : th'[u].stack # <<>> => sequenceNumber' + Len(th'[u].stack) <= 2
          BY <5>1, <5>5
        <5> QED
          BY <4>1, <4>2, <5>6 DEF NameFirst
      <4> QED
        BY <4>1, <4>4, <4>5
    <3> QED
      BY <3>1, <3>3, <3>4, <3>5, <3>6, PrintedContent DEF OpenCut
  <2>2. CASE activePrintWriter # "open"
    BY <1>2, <1>12, <2>2, ClosedContent DEF LineEnd, MonitorInv
  <2> QED
    BY <2>1, <2>2
<1> QED
  BY <1>7, <1>9, <1>10, <1>11, <1>12 DEF Step

LEMMA NextContent ==
    ASSUME MonitorInv, MonitorInv', ContentInv, [Next]_vars
    PROVE  ContentInv'
<1>1. ASSUME th' = th, UNCHANGED <<activePrintWriter, activeFile, sequenceNumber, buf, files>>
      PROVE  ContentInv'
  BY <1>1, SameContent DEF At, NameFirst, ContentInv
<1>2. ASSUME NEW t \in Threads, NEW ev, Begin(t, ev),
             UNCHANGED <<activePrintWriter, activeFile, sequenceNumber, buf, files>>
      PROVE  ContentInv'
  <2>1. ~At("tail")
    BY <1>2, AtNone DEF Begin
  <2>2. th'[t].pc = "check" /\ th'[t].stack = <<>>
    BY <1>2 DEF Begin, MonitorInv
  <2>3. ~At("tail")' /\ \A u \in Threads : th'[u].stack = <<>>
    BY <2>2 DEF MonitorInv, At
  <2>4. \A u \in Threads : th[u].stack = <<>>
    BY <1>2, FileLoggerAssumption DEF Begin, MonitorInv
  <2>5. NameFirst' <=> NameFirst
    BY <1>2, <2>3, <2>4 DEF NameFirst
  <2> QED
    BY <1>2, <2>1, <2>3, <2>5, SameContent DEF ContentInv
<1>3. CASE Tick \/ CloseTest
  BY <1>1, <1>3 DEF Tick, CloseTest
<1>4. ASSUME NEW t \in Threads, logEvent(t) PROVE ContentInv'
  BY <1>2, <1>4 DEF logEvent
<1>5. ASSUME NEW t \in Threads, Step(t) PROVE ContentInv'
  BY <1>5, StepContent
<1>6. CASE CloseLog
  BY <1>2, <1>6, FileLoggerAssumption DEF CloseLog
<1>7. CASE CloseClose
  <2>1. CASE activePrintWriter = "null"
    BY <1>7, <2>1, ClosedContent DEF CloseClose, ContentInv
  <2>2. CASE activePrintWriter # "null"
    <3>1. /\ files' = [files EXCEPT ![activeFile] = @ \o buf] /\ buf' = <<>>
          /\ activePrintWriter' # "open" /\ UNCHANGED <<activeFile, sequenceNumber>>
      BY <1>7, <2>2 DEF CloseClose
    <3>2. buf \in Seq(LogLine) /\ WellFormed(files[activeFile] \o buf)
      BY DEF ContentInv, Open
    <3> QED
      BY <3>1, <3>2, WrittenContent
  <2> QED
    BY <2>1, <2>2
<1>8. CASE CloseNull
  BY <1>8, ClosedContent DEF CloseNull, ContentInv
<1>9. CASE UNCHANGED vars
  BY <1>1, <1>9 DEF vars
<1> QED
  BY <1>3, <1>4, <1>5, <1>6, <1>7, <1>8, <1>9 DEF Next

LEMMA ContentImplies == ContentInv => FilesWellFormed
<1> SUFFICES ASSUME ContentInv, NEW s \in 0..MaxSec, NEW i \in DOMAIN Content(s)
             PROVE  LET l == Content(s)[i] IN
                      /\ l.n = i - 1
                      /\ i = 1 => l.ev = "FULL_FILENAME"
                      /\ l.ev = "FULL_FILENAME" => i <= 2
                      /\ l.part = "cut" => i = Len(Content(s))
  BY DEF FilesWellFormed
<1>1. WellFormed(Content(s)) /\ Content(s) \in Seq(LogLine)
  BY Joined DEF ContentInv, Content, Open
<1>2. i \in 1..Len(Content(s))
  BY <1>1
<1> QED
  BY <1>1, <1>2 DEF WellFormed

\* However logEvent, rotation and closeLogFile interleave, every file starts with its
\* name and numbers its lines without a gap, and only its last line is cut.
THEOREM WellFormedFiles == Spec => []FilesWellFormed
<1>1. Init => MonitorInv /\ ContentInv
  BY InitMonitor, InitContent
<1>2. MonitorInv /\ ContentInv /\ [Next]_vars => (MonitorInv /\ ContentInv)'
  BY NextMonitor, NextContent
<1> QED
  BY <1>1, <1>2, ContentImplies, PTL DEF Spec

\* At any moment a death of the process loses fewer than FlushEvery complete lines of
\* the file being written (the counter of logEvent and its flush).
THEOREM FewUnflushed == Spec => []FewLinesUnflushed
<1>1. Init => MonitorInv /\ ContentInv
  BY InitMonitor, InitContent
<1>2. MonitorInv /\ ContentInv /\ [Next]_vars => (MonitorInv /\ ContentInv)'
  BY NextMonitor, NextContent
<1>3. ContentInv => FewLinesUnflushed
  BY DEF ContentInv
<1> QED
  BY <1>1, <1>2, <1>3, PTL DEF Spec

-----------------------------------------------------------------------------
(* Rotation.                                                               *)

TimeExceeded(c) == \E i \in 1..Len(c) : c[i].ev = "TIME_EXCEEDED"

\* Until the wall clock is set back, no file has a later name than the active one, which
\* is as old by its name as by nanoTime; a file with its last line is older than the
\* clock and not the one of a writer.
RotateInv ==
    /\ ~TimeExceeded(buf)
    /\ setBack = "no" =>
          /\ activeFile + age <= now
          /\ \A s \in 0..MaxSec : s > activeFile => files[s] = <<>>
          /\ \A s \in 0..MaxSec : TimeExceeded(files[s]) =>
                s < now /\ (s = activeFile => activePrintWriter = "null")

Extends(c, d) == Len(c) <= Len(d) /\ \A i \in 1..Len(c) : d[i] = c[i]

Kept == setBack = "no" => \A s \in 0..MaxSec :
            /\ TimeExceeded(files[s]) => files'[s] = files[s]
            /\ Extends(files[s], files'[s]) \/ (s = activeFile /\ s = now)

LEMMA InitRotate == Init => RotateInv
BY FileLoggerAssumption DEF Init, RotateInv, TimeExceeded

LEMMA SameExtends == \A c \in Seq(LogLine) : Extends(c, c)
BY DEF Extends

LEMMA JoinedExtends ==
    ASSUME NEW c \in Seq(LogLine), NEW d \in Seq(LogLine)
    PROVE  Extends(c, c \o d)
<1>1. Len(c \o d) = Len(c) + Len(d) /\ \A i \in 1..Len(c) : (c \o d)[i] = c[i]
  BY Joined
<1>2. Len(c) \in Nat /\ Len(d) \in Nat
  OBVIOUS
<1> QED
  BY <1>1, <1>2 DEF Extends

\* Steps that do not write.
LEMMA SameRotate ==
    ASSUME MonitorInv, ContentInv, RotateInv, UNCHANGED <<activeFile, files>>, ~TimeExceeded(buf'),
           \/ UNCHANGED <<now, age, setBack>>
           \/ now' \in Nat /\ (setBack' = "no" => setBack = "no" /\ now' >= now
                                                  /\ activeFile + age' <= now'),
           activePrintWriter' = activePrintWriter \/ activePrintWriter' = "null"
              \/ activePrintWriter # "null"
    PROVE  RotateInv' /\ Kept
<1>1. now \in Nat /\ activeFile \in Nat /\ files \in [0..MaxSec -> Seq(LogLine)]
  BY FileLoggerAssumption DEF MonitorInv, ContentInv
<1>2. Kept
  BY <1>1, SameExtends DEF Kept
<1>3. ASSUME setBack' = "no"
      PROVE  setBack = "no" /\ now <= now' /\ now' \in Nat /\ activeFile + age' <= now'
  BY <1>1, <1>3 DEF RotateInv
<1>4. ASSUME setBack' = "no", NEW s \in 0..MaxSec, TimeExceeded(files'[s])
      PROVE  s < now' /\ (s = activeFile' => activePrintWriter' = "null")
  BY <1>1, <1>3, <1>4 DEF RotateInv
<1> QED
  BY <1>2, <1>3, <1>4 DEF RotateInv

\* Steps that write lines to the file of a writer, of which only rotation writes the last.
LEMMA WriteRotate ==
    ASSUME MonitorInv, ContentInv, RotateInv, UNCHANGED <<now, age, setBack, activeFile>>,
           activePrintWriter # "null",
           NEW b \in Seq(LogLine), files' = [files EXCEPT ![activeFile] = @ \o b],
           ~TimeExceeded(b) \/ (age > MaxAge /\ activePrintWriter' = "null"),
           buf' = <<>>
    PROVE  RotateInv' /\ Kept
<1>1. activeFile \in 0..MaxSec /\ files \in [0..MaxSec -> Seq(LogLine)]
  BY FileLoggerAssumption DEF MonitorInv, ContentInv
<1>2. setBack = "no" => ~TimeExceeded(files[activeFile])
  BY <1>1 DEF RotateInv
<1> DEFINE c == files[activeFile]
<1>3. c \in Seq(LogLine) /\ files'[activeFile] = c \o b
  BY <1>1
<1>4. \A s \in (0..MaxSec) \ {activeFile} : files'[s] = files[s]
  BY <1>1
<1>5. \A s \in 0..MaxSec : Extends(files[s], files'[s])
  <2>1. Extends(c, c \o b)
    BY <1>3, JoinedExtends
  <2> HIDE DEF c
  <2> QED
    BY <1>1, <1>3, <1>4, <2>1, SameExtends DEF c
<1>6. Kept
  BY <1>2, <1>4, <1>5 DEF Kept
<1>7. ~TimeExceeded(buf')
  BY DEF TimeExceeded
<1>8. ASSUME setBack = "no", NEW s \in 0..MaxSec, TimeExceeded(files'[s])
      PROVE  s < now' /\ (s = activeFile' => activePrintWriter' = "null")
  <2>1. CASE s # activeFile
    BY <1>4, <1>8, <2>1 DEF RotateInv
  <2>2. CASE s = activeFile
    <3>2. PICK i \in 1..Len(c \o b) : (c \o b)[i].ev = "TIME_EXCEEDED"
      BY <1>3, <1>8, <2>2 DEF TimeExceeded
    <3>3. Len(c) \in Nat /\ Len(b) \in Nat /\ Len(c \o b) = Len(c) + Len(b)
      BY <1>3, Joined
    <3> HIDE DEF c
    <3>4. CASE i <= Len(c)
      <4>1. i \in 1..Len(c) /\ (c \o b)[i] = c[i]
        BY <1>3, <3>3, <3>4, Joined
      <4> QED
        BY <1>2, <1>8, <3>2, <4>1 DEF TimeExceeded, c
    <3>5. CASE ~(i <= Len(c))
      <4>1. i - Len(c) \in 1..Len(b) /\ Len(c) + (i - Len(c)) = i
        BY <3>3, <3>5
      <4>2. (c \o b)[i] = b[i - Len(c)]
        BY <1>3, <4>1, Joined
      <4>3. TimeExceeded(b)
        BY <3>2, <4>1, <4>2 DEF TimeExceeded
      <4>4. activeFile < now
        <5>1. activeFile + age <= now /\ age > MaxAge
          BY <1>8, <4>3 DEF RotateInv
        <5> QED
          BY <5>1, FileLoggerAssumption DEF MonitorInv
      <4> QED
        BY <2>2, <4>3, <4>4
    <3> QED
      BY <3>3, <3>4, <3>5
  <2> QED
    BY <2>1, <2>2
<1>9. setBack = "no" => \A s \in 0..MaxSec : s > activeFile => files'[s] = <<>>
  <2>1. \A s \in 0..MaxSec : s > activeFile => s # activeFile
    BY <1>1
  <2> QED
    BY <1>4, <2>1 DEF RotateInv
<1> QED
  BY <1>6, <1>7, <1>8, <1>9 DEF RotateInv

\* The lines logEvent prints are not the last of their file.
LEMMA OrdinaryLines ==
    ASSUME MonitorInv, ContentInv, RotateInv, NEW t \in Threads
    PROVE  /\ \A l \in LogLine : l.ev # "TIME_EXCEEDED" => ~TimeExceeded(Append(buf, l))
           /\ buf # <<>> => ~TimeExceeded([buf EXCEPT ![Len(buf)].part = "whole"])
<1>1. buf \in Seq(LogLine) /\ ~TimeExceeded(buf) /\ Len(buf) \in Nat
  BY DEF ContentInv, RotateInv
<1>2. ASSUME NEW l \in LogLine, l.ev # "TIME_EXCEEDED" PROVE ~TimeExceeded(Append(buf, l))
  <2>1. /\ Len(Append(buf, l)) = Len(buf) + 1 /\ Append(buf, l)[Len(buf) + 1] = l
        /\ \A i \in 1..Len(buf) : Append(buf, l)[i] = buf[i]
    BY <1>1
  <2> QED
    BY <1>1, <1>2, <2>1 DEF TimeExceeded
<1>3. ASSUME buf # <<>> PROVE ~TimeExceeded([buf EXCEPT ![Len(buf)].part = "whole"])
  <2> DEFINE e == [buf EXCEPT ![Len(buf)].part = "whole"]
  <2>1. <<>> \in Seq(LogLine) /\ <<>> \o buf = buf
    BY <1>1
  <2>2. activeFile \in 0..MaxSec /\ files[activeFile] \in Seq(LogLine) /\ WellFormed(files[activeFile] \o buf)
    BY FileLoggerAssumption DEF MonitorInv, ContentInv, Open
  <2>3. Len(e) = Len(buf) /\ \A i \in 1..Len(buf) : e[i].ev = buf[i].ev
    BY <1>1, <1>3, <2>2, LineCompleted
  <2> HIDE DEF e
  <2>4. ~TimeExceeded(e)
    BY <1>1, <2>3 DEF TimeExceeded
  <2> QED
    BY <2>4 DEF e
<1> QED
  BY <1>2, <1>3

\* A complete line.
LEMMA PrintedRotate ==
    ASSUME MonitorInv, ContentInv, RotateInv,
           UNCHANGED <<now, age, setBack, activeFile, activePrintWriter>>,
           activePrintWriter = "open", NEW b \in Seq(LogLine), ~TimeExceeded(b), Printed(b)
    PROVE  RotateInv' /\ Kept
<1>1. CASE Flushes(sequenceNumber + 1)
  BY <1>1, WriteRotate DEF Printed
<1>2. CASE ~Flushes(sequenceNumber + 1)
  BY <1>2, SameRotate DEF Printed
<1> QED
  BY <1>1, <1>2

\* The steps of a call.
LEMMA StepRotate ==
    ASSUME MonitorInv, ContentInv, RotateInv, NEW t \in Threads, Step(t)
    PROVE  RotateInv' /\ Kept
<1>1. th[t].pc # "idle"
  BY DEF Step, Check, Age, Rotate, LineStart, LineEnd
<1>2. /\ th \in [Threads -> Calls] /\ now \in Nat /\ activeFile \in 0..MaxSec /\ activeFile \in Nat
      /\ now \in 0..MaxSec /\ files \in [0..MaxSec -> Seq(LogLine)] /\ age \in Nat
      /\ buf \in Seq(LogLine) /\ sequenceNumber \in Nat /\ ~TimeExceeded(buf)
  BY FileLoggerAssumption DEF MonitorInv, ContentInv, RotateInv
<1>3. CallInv(th[t]) /\ th[t] \in Calls
  BY <1>1 DEF MonitorInv
<1>4. CASE Check(t)
  <2>0. PICK next \in {"age", "head"} : openLogFile(t, next)
    BY <1>4 DEF Check
  <2>1. UNCHANGED <<now, setBack>>
    BY <1>4 DEF Check
  <2>2. CASE UNCHANGED <<age, activePrintWriter, activeFile, sequenceNumber, buf, files>>
    BY <1>2, <2>1, <2>2, SameRotate
  <2>3. CASE /\ activePrintWriter' = "open" /\ activeFile' = now /\ age' = 0
             /\ buf' = <<>> /\ files' = [files EXCEPT ![now] = <<>>]
    <3>1. ~TimeExceeded(buf') /\ ~TimeExceeded(<<>>)
      BY <2>3 DEF TimeExceeded
    <3>2. files'[now] = <<>> /\ \A s \in (0..MaxSec) \ {now} : files'[s] = files[s]
      BY <1>2, <2>3
    <3>3. setBack = "no" => activeFile <= now /\ ~TimeExceeded(files[now])
      BY <1>2 DEF RotateInv
    <3>4. Extends(<<>>, <<>>)
      BY DEF Extends
    <3>5. setBack = "no" => Extends(files[now], files'[now]) \/ now = activeFile
      <4>1. CASE activeFile = now
        BY <4>1
      <4>2. CASE activeFile # now
        BY <1>2, <3>2, <3>3, <3>4, <4>2 DEF RotateInv
      <4> QED
        BY <4>1, <4>2
    <3>6. Kept
      BY <1>2, <3>2, <3>3, <3>5, SameExtends DEF Kept
    <3>7. ASSUME setBack = "no", NEW s \in 0..MaxSec, TimeExceeded(files'[s])
          PROVE  s < now' /\ s # activeFile'
      <4>1. s # now
        BY <3>1, <3>2, <3>7
      <4> QED
        BY <2>1, <2>3, <3>2, <3>7, <4>1 DEF RotateInv
    <3>8. ASSUME setBack = "no", NEW s \in 0..MaxSec, s > now PROVE files'[s] = <<>>
      BY <1>2, <3>2, <3>3, <3>8 DEF RotateInv
    <3>9. activeFile' + age' <= now'
      BY <1>2, <2>1, <2>3
    <3> QED
      BY <2>1, <2>3, <3>1, <3>6, <3>7, <3>8, <3>9 DEF RotateInv
  <2> QED
    BY <2>0, <2>2, <2>3 DEF openLogFile
<1>5. CASE Age(t)
  BY <1>2, <1>5, SameRotate DEF Age, clocks
<1>6. CASE Rotate(t)
  <2>1. CASE activePrintWriter = "open"
    <3> DEFINE b == Append(buf, Line("TIME_EXCEEDED", "whole"))
    <3>1. Line("TIME_EXCEEDED", "whole") \in LogLine
      BY <1>2 DEF Line, LogLine
    <3>2. b \in Seq(LogLine)
      BY <1>2, <3>1
    <3>3. /\ files' = [files EXCEPT ![activeFile] = @ \o b] /\ buf' = <<>>
          /\ activePrintWriter' = "null" /\ UNCHANGED <<now, age, setBack, activeFile>>
      BY <1>6, <2>1 DEF Rotate, Rotated, clocks
    <3>4. age > MaxAge
      BY <1>3, <1>6 DEF Rotate, CallInv
    <3> HIDE DEF b
    <3> QED
      BY <2>1, <3>2, <3>3, <3>4, WriteRotate
  <2>2. CASE activePrintWriter # "open"
    BY <1>2, <1>6, <2>2, SameRotate DEF Rotate, Rotated, clocks
  <2> QED
    BY <2>1, <2>2
<1>7. CASE LineStart(t)
  <2>1. CASE activePrintWriter = "open"
    <3> DEFINE l == Line(th[t].ev, "cut")
    <3>1. l \in LogLine /\ l.ev # "TIME_EXCEEDED"
      BY <1>2, <1>3 DEF Line, LogLine, Calls, CallInv, Evs
    <3>2. buf' = Append(buf, l) /\ UNCHANGED <<now, age, setBack, activePrintWriter, activeFile, files>>
      BY <1>7, <2>1 DEF LineStart, clocks
    <3> HIDE DEF l
    <3>3. ~TimeExceeded(buf')
      BY <3>1, <3>2, OrdinaryLines
    <3> QED
      BY <3>2, <3>3, SameRotate
  <2>2. CASE activePrintWriter # "open"
    BY <1>2, <1>7, <2>2, SameRotate DEF LineStart, clocks
  <2> QED
    BY <2>1, <2>2
<1>8. CASE LineEnd(t)
  <2>1. CASE activePrintWriter = "open"
    <3> DEFINE b == [buf EXCEPT ![Len(buf)].part = "whole"]
    <3>1. OpenCut
      BY <1>1, <1>8, <2>1, AtCall DEF ContentInv, LineEnd
    <3>2. buf # <<>>
      <4>1. sequenceNumber % FlushEvery \in Nat
        BY <1>2, DivMod, FileLoggerAssumption
      <4> QED
        BY <1>2, <3>1, <4>1 DEF OpenCut
    <3>3. b \in Seq(LogLine)
      <4>1. files[activeFile] \in Seq(LogLine) /\ WellFormed(files[activeFile] \o buf)
        BY <1>2, FileLoggerAssumption DEF MonitorInv, ContentInv, Open
      <4> QED
        BY <1>2, <3>2, <4>1, LineCompleted
    <3>4. ~TimeExceeded(b)
      BY <3>2, OrdinaryLines
    <3>5. Printed(b) /\ UNCHANGED <<now, age, setBack, activeFile, activePrintWriter>>
      BY <1>8, <2>1 DEF LineEnd, clocks
    <3> HIDE DEF b
    <3> QED
      BY <2>1, <3>3, <3>4, <3>5, PrintedRotate
  <2>2. CASE activePrintWriter # "open"
    BY <1>2, <1>8, <2>2, SameRotate DEF LineEnd, MonitorInv, clocks
  <2> QED
    BY <2>1, <2>2
<1> QED
  BY <1>4, <1>5, <1>6, <1>7, <1>8 DEF Step

LEMMA NextRotate ==
    ASSUME MonitorInv, ContentInv, RotateInv, [Next]_vars
    PROVE  RotateInv' /\ Kept
<1>0. ~TimeExceeded(buf)
  BY DEF RotateInv
<1>1. CASE Tick
  <2>1. PICK s \in 0..MaxSec, d \in {0, 1} :
          /\ now' = s
          /\ age' = IF age > MaxAge THEN age ELSE age + d
          /\ setBack' = IF s < now + d THEN "yes" ELSE setBack
    BY <1>1 DEF Tick
  <2>2. /\ now \in Nat /\ now' \in Nat /\ activeFile \in Nat /\ age \in Nat /\ age' \in Nat
        /\ age' <= age + d /\ d \in Nat
    BY <2>1, FileLoggerAssumption DEF MonitorInv
  <2>3. ASSUME setBack' = "no"
        PROVE  setBack = "no" /\ now' >= now /\ activeFile + age' <= now'
    <3>1. setBack = "no" /\ now' >= now + d
      BY <2>1, <2>2, <2>3
    <3>2. activeFile + age <= now
      BY <3>1 DEF RotateInv
    <3>3. \A a, b, e, m, n \in Nat : a + b <= m /\ n >= m + d /\ e <= b + d => a + e <= n /\ n >= m
      BY <2>2
    <3> QED
      BY <2>2, <3>1, <3>2, <3>3
  <2> QED
    BY <1>0, <1>1, <2>2, <2>3, SameRotate DEF Tick
<1>2. ASSUME NEW t \in Threads, logEvent(t) PROVE RotateInv' /\ Kept
  BY <1>0, <1>2, SameRotate DEF logEvent, clocks
<1>3. ASSUME NEW t \in Threads, Step(t) PROVE RotateInv' /\ Kept
  BY <1>3, StepRotate
<1>4. CASE CloseTest
  BY <1>0, <1>4, SameRotate DEF CloseTest, clocks
<1>5. CASE CloseLog
  BY <1>0, <1>5, SameRotate DEF CloseLog, clocks
<1>6. CASE CloseClose
  <2>1. CASE activePrintWriter = "null"
    BY <1>0, <1>6, <2>1, SameRotate DEF CloseClose, clocks
  <2>2. CASE activePrintWriter # "null"
    <3>1. /\ files' = [files EXCEPT ![activeFile] = @ \o buf] /\ buf' = <<>>
          /\ UNCHANGED <<now, age, setBack, activeFile>>
      BY <1>6, <2>2 DEF CloseClose, clocks
    <3>2. buf \in Seq(LogLine)
      BY DEF ContentInv
    <3> QED
      BY <1>0, <2>2, <3>1, <3>2, WriteRotate
  <2> QED
    BY <2>1, <2>2
<1>7. CASE CloseNull
  BY <1>0, <1>7, SameRotate DEF CloseNull, clocks
<1>8. CASE UNCHANGED vars
  BY <1>0, <1>8, SameRotate DEF vars
<1> QED
  BY <1>1, <1>2, <1>3, <1>4, <1>5, <1>6, <1>7, <1>8 DEF Next

\* While the wall clock keeps up with nanoTime, a file that rotation has ended is never
\* written or truncated again, in particular not by a new file of the same name or by a
\* late closeLogFile, and any other file only loses lines to one opened in its second.
THEOREM LinesKept == Spec => FilesKept
<1> DEFINE Inv == MonitorInv /\ ContentInv /\ RotateInv
<1>1. Init => Inv
  BY InitMonitor, InitContent, InitRotate
<1>2. Inv /\ [Next]_vars => Inv'
  BY NextMonitor, NextContent, NextRotate
<1>3. Inv /\ [Next]_vars =>
        [setBack = "no" => \A s \in 0..MaxSec :
            /\ IsRotated(s) => files'[s] = files[s]
            /\ Grows(s) \/ (s = activeFile /\ s = now)]_vars
  <2> SUFFICES ASSUME Inv, [Next]_vars, setBack = "no", NEW s \in 0..MaxSec
               PROVE  /\ IsRotated(s) => files'[s] = files[s]
                      /\ Grows(s) \/ (s = activeFile /\ s = now)
    OBVIOUS
  <2>1. Kept
    BY NextRotate
  <2>2. files[s] \in Seq(LogLine) /\ DOMAIN files[s] = 1..Len(files[s])
    BY DEF ContentInv
  <2>3. IsRotated(s) => TimeExceeded(files[s])
    BY <2>2 DEF TimeExceeded, IsRotated
  <2>4. Extends(files[s], files'[s]) => Grows(s)
    BY <2>2 DEF Extends, Grows
  <2> QED
    BY <2>1, <2>3, <2>4 DEF Kept
<1> HIDE DEF Inv
<1> QED
  BY <1>1, <1>2, <1>3, PTL DEF Spec, FilesKept
==============================================================================
