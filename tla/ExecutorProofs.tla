---------------------------- MODULE ExecutorProofs ----------------------------
(***************************************************************************)
(* Proofs about script runs, for any number of lines, of cancellations and *)
(* any size of the pipes, in whatever order the tasks run.                 *)
(***************************************************************************)
EXTENDS ExecutorProps, TLAPS

\* Which outcome, exit code and streams go with a phase.
Stages ==
    /\ gen \notin {"gathering", "over"} => outcome = "none"
    /\ gen = "gathering" => outcome = "cancelled"
    /\ script = "none" => open = {} /\ gen \in {"starting", "over"}
    /\ gen = "starting" => script = "none"
    /\ (code = "none") <=> (script # "exited")
    /\ gen \in {"starting", "feeding"} => \A s \in Stream : pump[s] = "off"
    /\ gen = "reaping" \/ outcome \in Code => remaining = {}
    /\ outcome \in Code => gen = "over" /\ script = "exited" /\ outcome = code

\* A run that was cancelled once, with its script fed, has seen it exit.
Deaths ==
    /\ gen \in {"starting", "feeding", "draining", "reaping"} => cancels = 0
    /\ gen \in {"terminating", "killing"} => cancels = 1
    /\ outcome = "cancelled" /\ cancels = 1 /\ pump["stdout"] # "off"
          => script = "exited"

\* What is between the script and the engine, for a stream s: the queue holds
\* exactly the lines that were taken and not delivered, in order, and after
\* them the sentinel of a pump that has read all there will be.
InOrder(s) == delivered[s] = [i \in 1 .. Len(delivered[s]) |-> i]
Counted(s) == Len(delivered[s]) <= taken[s] /\ taken[s] <= written[s]
Queued(s) ==
    \A i \in 1 .. Len(queue) :
        queue[i].from = s /\ queue[i].no # Eof
            => Len(delivered[s]) < queue[i].no /\ queue[i].no <= taken[s]
Sorted(s) ==
    \A i, j \in 1 .. Len(queue) :
        i < j /\ queue[i].from = s /\ queue[j].from = s
            => queue[i].no # Eof /\ (queue[j].no # Eof => queue[i].no < queue[j].no)
NoneLost(s) ==
    \A n \in Nat : Len(delivered[s]) < n /\ n <= taken[s] =>
        \E i \in 1 .. Len(queue) : queue[i].from = s /\ queue[i].no = n
Ended(s) ==
    /\ pump[s] = "ended" => taken[s] = written[s] /\ s \notin open
    /\ \A i \in 1 .. Len(queue) :
          queue[i].from = s /\ queue[i].no = Eof => pump[s] = "ended"
    /\ s \notin remaining =>
          pump[s] = "ended" /\ \A i \in 1 .. Len(queue) : queue[i].from # s

Flow ==
    \A s \in Stream : /\ InOrder(s) /\ Counted(s) /\ Queued(s)
                      /\ Sorted(s) /\ NoneLost(s) /\ Ended(s)

RunInv == TypeOK /\ Stages /\ Deaths /\ Flow

-----------------------------------------------------------------------------

LEMMA InitRunInv == Init => RunInv
<1> SUFFICES ASSUME Init PROVE RunInv
  OBVIOUS
<1>1. /\ \A s \in Stream : written[s] = 0 /\ taken[s] = 0 /\ delivered[s] = << >>
                             /\ pump[s] = "off"
      /\ queue = << >> /\ Len(queue) = 0 /\ Len(<< >>) = 0
  BY DEF Init
<1>2. TypeOK
  <2>1. << >> \in Seq(Nat) /\ << >> \in Seq(Item)
    OBVIOUS
  <2>2. delivered \in [Stream -> Seq(Nat)] /\ queue \in Seq(Item)
    BY <2>1 DEF Init
  <2>3. written \in [Stream -> Nat] /\ taken \in [Stream -> Nat]
        /\ pump \in [Stream -> {"off", "reading", "ended", "broken", "cancelled"}]
    BY DEF Init
  <2> QED BY <2>2, <2>3 DEF Init, TypeOK, Outcome, GenPhase
<1>3. Stages /\ Deaths
  <2>1. Stages
    BY <1>1 DEF Init, Stages, Code
  <2>2. Deaths
    BY DEF Init, Deaths
  <2> QED BY <2>1, <2>2
<1>4. ASSUME NEW s \in Stream
      PROVE  InOrder(s) /\ Counted(s) /\ Queued(s) /\ Sorted(s) /\ NoneLost(s) /\ Ended(s)
  <2>1. InOrder(s)
    BY <1>1 DEF InOrder
  <2>2. Counted(s) /\ NoneLost(s)
    BY <1>1 DEF Counted, NoneLost
  <2>3. Queued(s) /\ Sorted(s) /\ Ended(s)
    BY <1>1 DEF Queued, Sorted, Ended, Init
  <2> QED BY <2>1, <2>2, <2>3
<1> QED BY <1>2, <1>3, <1>4 DEF RunInv, Flow

LEMMA TypesKept == TypeOK /\ [Next]_vars => TypeOK'
<1> SUFFICES ASSUME TypeOK, [Next]_vars PROVE TypeOK'
  OBVIOUS
<1> USE DEF TypeOK, process, tasks
<1>1. CASE Processes
  <2>1. CASE ReadText
    BY <2>1 DEF ReadText
  <2>2. ASSUME NEW c \in Code, Exit(c) PROVE TypeOK'
    BY <2>2 DEF Exit
  <2>3. ASSUME NEW s \in Stream, Write(s) PROVE TypeOK'
    BY <2>3 DEF Write
  <2>4. ASSUME NEW s \in Stream, Close(s) PROVE TypeOK'
    BY <2>4 DEF Close
  <2> QED BY <1>1, <2>1, <2>2, <2>3, <2>4 DEF Processes
<1>2. ASSUME NEW s \in Stream, Pump(s) PROVE TypeOK'
  <2>1. CASE PumpLine(s)
    <3>1. taken[s] + 1 \in Nat /\ [from |-> s, no |-> taken[s] + 1] \in Item
      BY DEF Item
    <3> QED BY <2>1, <3>1 DEF PumpLine
  <2>2. CASE PumpEof(s)
    <3>1. [from |-> s, no |-> Eof] \in Item
      BY DEF Item, Eof
    <3> QED BY <2>2, <3>1 DEF PumpEof
  <2>3. CASE PumpBreaks(s)
    BY <2>3 DEF PumpBreaks
  <2> QED BY <1>2, <2>1, <2>2, <2>3 DEF Pump
<1>3. CASE Generator
  <2>1. CASE Start \/ Feed \/ FeedRaises
    BY <2>1 DEF Start, Feed, FeedRaises, GenPhase, Outcome
  <2>2. ASSUME queue # << >>
        PROVE  /\ Head(queue) \in Item /\ Tail(queue) \in Seq(Item)
               /\ Head(queue).from \in Stream /\ Head(queue).no \in Nat
    <3>1. Head(queue) \in Item /\ Tail(queue) \in Seq(Item)
      BY <2>2
    <3> QED BY <3>1 DEF Item
  <2>3. CASE GetLine
    <3>1. Append(delivered[Head(queue).from], Head(queue).no) \in Seq(Nat)
      BY <2>2, <2>3 DEF GetLine
    <3> QED BY <2>2, <2>3, <3>1 DEF GetLine
  <2>4. CASE GetEof
    BY <2>2, <2>4 DEF GetEof, GenPhase
  <2>5. CASE ReportExit \/ GracePasses \/ Reaped \/ Gather
    BY <2>5 DEF ReportExit, GracePasses, Reaped, Gather, GenPhase, Outcome
  <2> QED BY <1>3, <2>1, <2>3, <2>4, <2>5 DEF Generator
<1>4. CASE Cancel
  BY <1>4 DEF Cancel, CancelEarly, CancelRunning, CancelAgain, GenPhase, Outcome
<1>5. CASE UNCHANGED vars
  BY <1>5 DEF vars
<1> QED BY <1>1, <1>2, <1>3, <1>4, <1>5 DEF Next

LEMMA StagesKept == TypeOK /\ Stages /\ [Next]_vars => Stages'
<1> SUFFICES ASSUME TypeOK, Stages, [Next]_vars PROVE Stages'
  OBVIOUS
<1> USE DEF TypeOK, Stages, Stream, Code, Outcome, GenPhase, process, tasks
<1>1. CASE Processes
  BY <1>1 DEF Processes, ReadText, Exit, Write, Close
<1>2. ASSUME NEW s \in Stream, Pump(s) PROVE Stages'
  BY <1>2 DEF Pump, PumpLine, PumpEof, PumpBreaks
<1>3. CASE Generator
  BY <1>3 DEF Generator, Start, Feed, FeedRaises, GetLine, GetEof, ReportExit,
              GracePasses, Reaped, Gather
<1>4. CASE Cancel
  BY <1>4 DEF Cancel, CancelEarly, CancelRunning, CancelAgain
<1>5. CASE UNCHANGED vars
  BY <1>5 DEF vars
<1> QED BY <1>1, <1>2, <1>3, <1>4, <1>5 DEF Next

LEMMA DeathsKept == TypeOK /\ Stages /\ Deaths /\ [Next]_vars => Deaths'
<1> SUFFICES ASSUME TypeOK, Stages, Deaths, [Next]_vars PROVE Deaths'
  OBVIOUS
<1> USE DEF TypeOK, Stages, Deaths, Stream, Code, Outcome, GenPhase, process, tasks
<1>1. CASE Processes
  BY <1>1 DEF Processes, ReadText, Exit, Write, Close
<1>2. ASSUME NEW s \in Stream, Pump(s) PROVE Deaths'
  BY <1>2 DEF Pump, PumpLine, PumpEof, PumpBreaks
<1>3. CASE Generator
  BY <1>3 DEF Generator, Start, Feed, FeedRaises, GetLine, GetEof, ReportExit,
              GracePasses, Reaped, Gather
<1>4. CASE Cancel
  BY <1>4 DEF Cancel, CancelEarly, CancelRunning, CancelAgain
<1>5. CASE UNCHANGED vars
  BY <1>5 DEF vars
<1> QED BY <1>1, <1>2, <1>3, <1>4, <1>5 DEF Next

\* What an item at the end of the queue, or one less at its head, does to the
\* places of the others.
LEMMA AppendPlaces ==
    ASSUME NEW T, NEW q \in Seq(T), NEW x \in T
    PROVE  /\ Len(Append(q, x)) = Len(q) + 1 /\ Len(q) \in Nat
           /\ \A i \in 1 .. Len(q) : Append(q, x)[i] = q[i] /\ q[i] \in T
           /\ Append(q, x)[Len(q) + 1] = x
OBVIOUS

LEMMA TailPlaces ==
    ASSUME NEW T, NEW q \in Seq(T), q # << >>
    PROVE  /\ Len(Tail(q)) = Len(q) - 1 /\ Len(q) \in Nat /\ Len(q) > 0
           /\ Head(q) = q[1] /\ Head(q) \in T
           /\ \A i \in 1 .. Len(Tail(q)) : Tail(q)[i] = q[i + 1]
OBVIOUS

\* A line goes from the pipe of stream p into the queue.
LEMMA PumpLineFlow ==
    ASSUME TypeOK, Flow, NEW p \in Stream, PumpLine(p)
    PROVE  Flow'
<1> DEFINE item == [from |-> p, no |-> taken[p] + 1]
<1>1. taken \in [Stream -> Nat] /\ written \in [Stream -> Nat]
      /\ queue \in Seq(Item) /\ delivered \in [Stream -> Seq(Nat)]
      /\ pump[p] = "reading" /\ taken[p] < written[p]
  BY DEF TypeOK, PumpLine
<1>2. item \in Item /\ item.from = p /\ item.no = taken[p] + 1 /\ item.no # Eof
  BY <1>1 DEF Item, Eof
<1>3. /\ queue' = Append(queue, item)
      /\ taken' = [taken EXCEPT ![p] = taken[p] + 1]
      /\ UNCHANGED <<delivered, written, pump, open, remaining>>
  BY DEF PumpLine, process
<1>4. /\ Len(queue') = Len(queue) + 1 /\ Len(queue) \in Nat
      /\ \A i \in 1 .. Len(queue) : queue'[i] = queue[i] /\ queue[i] \in Item
      /\ queue'[Len(queue) + 1] = item
  <2> HIDE DEF item
  <2> QED BY <1>1, <1>2, <1>3, AppendPlaces
<1>5. ASSUME NEW i \in 1 .. Len(queue')
      PROVE  \/ i \in 1 .. Len(queue) /\ queue'[i] = queue[i]
             \/ i = Len(queue) + 1 /\ queue'[i] = item
  BY <1>4
<1>6. \A i \in 1 .. Len(queue) : queue[i].from \in Stream /\ queue[i].no \in Nat
  BY <1>4 DEF Item
<1> HIDE DEF item
<1> SUFFICES ASSUME NEW s \in Stream
             PROVE  (InOrder(s) /\ Counted(s) /\ Queued(s)
                     /\ Sorted(s) /\ NoneLost(s) /\ Ended(s))'
  BY DEF Flow
<1>7. InOrder(s) /\ Counted(s) /\ Queued(s) /\ Sorted(s) /\ NoneLost(s) /\ Ended(s)
      /\ Len(delivered[s]) \in Nat /\ taken[s] \in Nat /\ written[s] \in Nat
  BY <1>1 DEF Flow
<1>8. s # p => taken'[s] = taken[s]
  BY <1>1, <1>3
<1>9. s = p => taken'[s] = taken[s] + 1
  BY <1>1, <1>3
<1>10. InOrder(s)' /\ Counted(s)'
  BY <1>1, <1>3, <1>7, <1>8, <1>9 DEF InOrder, Counted
<1>11. Queued(s)'
  BY <1>2, <1>3, <1>5, <1>6, <1>7, <1>8, <1>9 DEF Queued, Counted
<1>12. Sorted(s)'
  <2>1. SUFFICES ASSUME NEW i \in 1 .. Len(queue'), NEW j \in 1 .. Len(queue'),
                        i < j, queue'[i].from = s, queue'[j].from = s
                 PROVE  queue'[i].no # Eof
                        /\ (queue'[j].no # Eof => queue'[i].no < queue'[j].no)
    BY DEF Sorted
  <2>2. i \in 1 .. Len(queue) /\ queue'[i] = queue[i]
    BY <1>4, <1>5, <2>1
  <2>3. CASE j \in 1 .. Len(queue) /\ queue'[j] = queue[j]
    BY <1>7, <2>1, <2>2, <2>3 DEF Sorted
  <2>4. CASE j = Len(queue) + 1 /\ queue'[j] = item
    <3>1. s = p /\ queue'[j].no = taken[s] + 1
      BY <1>2, <2>1, <2>4
    <3>2. queue[i].no # Eof
      BY <1>1, <1>7, <2>1, <2>2, <3>1 DEF Ended
    <3> QED BY <1>6, <1>7, <2>1, <2>2, <3>1, <3>2 DEF Queued
  <2> QED BY <1>5, <2>3, <2>4
<1>13. NoneLost(s)'
  <2>1. SUFFICES ASSUME NEW n \in Nat, Len(delivered'[s]) < n, n <= taken'[s]
                 PROVE  \E i \in 1 .. Len(queue') : queue'[i].from = s /\ queue'[i].no = n
    BY DEF NoneLost
  <2>2. CASE n <= taken[s]
    BY <1>3, <1>4, <1>7, <2>1, <2>2 DEF NoneLost
  <2>3. CASE s = p /\ n = taken[s] + 1
    BY <1>2, <1>4, <2>3
  <2> QED BY <1>7, <1>8, <1>9, <2>1, <2>2, <2>3
<1>14. Ended(s)'
  BY <1>1, <1>2, <1>3, <1>5, <1>7, <1>8 DEF Ended
<1> QED BY <1>10, <1>11, <1>12, <1>13, <1>14

\* The sentinel of stream p follows its lines.
LEMMA PumpEofFlow ==
    ASSUME TypeOK, Flow, NEW p \in Stream, PumpEof(p)
    PROVE  Flow'
<1> DEFINE item == [from |-> p, no |-> Eof]
<1>1. /\ taken \in [Stream -> Nat] /\ written \in [Stream -> Nat]
      /\ pump \in [Stream -> {"off", "reading", "ended", "broken", "cancelled"}]
      /\ queue \in Seq(Item) /\ delivered \in [Stream -> Seq(Nat)]
      /\ pump[p] = "reading" /\ taken[p] = written[p] /\ p \notin open
  BY DEF TypeOK, PumpEof
<1>2. item \in Item /\ item.from = p /\ item.no = Eof
  BY DEF Item, Eof
<1>3. /\ queue' = Append(queue, item)
      /\ pump' = [pump EXCEPT ![p] = "ended"]
      /\ UNCHANGED <<delivered, written, taken, open, remaining>>
  BY DEF PumpEof, process
<1>4. /\ Len(queue') = Len(queue) + 1 /\ Len(queue) \in Nat
      /\ \A i \in 1 .. Len(queue) : queue'[i] = queue[i] /\ queue[i] \in Item
      /\ queue'[Len(queue) + 1] = item
  <2> HIDE DEF item
  <2> QED BY <1>1, <1>2, <1>3, AppendPlaces
<1>5. ASSUME NEW i \in 1 .. Len(queue')
      PROVE  \/ i \in 1 .. Len(queue) /\ queue'[i] = queue[i]
             \/ i = Len(queue) + 1 /\ queue'[i] = item
  BY <1>4
<1> HIDE DEF item
<1> SUFFICES ASSUME NEW s \in Stream
             PROVE  (InOrder(s) /\ Counted(s) /\ Queued(s)
                     /\ Sorted(s) /\ NoneLost(s) /\ Ended(s))'
  BY DEF Flow
<1>6. InOrder(s) /\ Counted(s) /\ Queued(s) /\ Sorted(s) /\ NoneLost(s) /\ Ended(s)
  BY DEF Flow
<1>7. InOrder(s)' /\ Counted(s)'
  BY <1>3, <1>6 DEF InOrder, Counted
<1>8. Queued(s)'
  BY <1>2, <1>3, <1>5, <1>6 DEF Queued
<1>9. Sorted(s)'
  <2>1. SUFFICES ASSUME NEW i \in 1 .. Len(queue'), NEW j \in 1 .. Len(queue'),
                        i < j, queue'[i].from = s, queue'[j].from = s
                 PROVE  queue'[i].no # Eof
                        /\ (queue'[j].no # Eof => queue'[i].no < queue'[j].no)
    BY DEF Sorted
  <2>2. i \in 1 .. Len(queue) /\ queue'[i] = queue[i]
    BY <1>4, <1>5, <2>1
  <2>3. CASE j \in 1 .. Len(queue) /\ queue'[j] = queue[j]
    BY <1>6, <2>1, <2>2, <2>3 DEF Sorted
  <2>4. CASE j = Len(queue) + 1 /\ queue'[j] = item
    <3>1. s = p /\ queue'[j].no = Eof
      BY <1>2, <2>1, <2>4
    <3>2. queue[i].no # Eof
      BY <1>1, <1>6, <2>1, <2>2, <3>1 DEF Ended
    <3> QED BY <2>2, <3>1, <3>2
  <2> QED BY <1>5, <2>3, <2>4
<1>10. NoneLost(s)'
  <2>1. SUFFICES ASSUME NEW n \in Nat, Len(delivered[s]) < n, n <= taken[s]
                 PROVE  \E i \in 1 .. Len(queue') : queue'[i].from = s /\ queue'[i].no = n
    BY <1>3 DEF NoneLost
  <2>2. PICK i \in 1 .. Len(queue) : queue[i].from = s /\ queue[i].no = n
    BY <1>6, <2>1 DEF NoneLost
  <2> QED BY <1>4, <2>2
<1>11. Ended(s)'
  <2>1. s = p => pump'[s] = "ended"
    BY <1>1, <1>3
  <2>2. s # p => pump'[s] = pump[s]
    BY <1>1, <1>3
  <2>3. s = p => s \in remaining
    BY <1>1, <1>6 DEF Ended
  <2> QED BY <1>1, <1>2, <1>3, <1>5, <1>6, <2>1, <2>2, <2>3 DEF Ended
<1> QED BY <1>7, <1>8, <1>9, <1>10, <1>11

\* A line reaches the engine.
LEMMA GetLineFlow ==
    ASSUME TypeOK, Flow, GetLine
    PROVE  Flow'
<1> DEFINE p == Head(queue).from
           line == Head(queue).no
<1>1. /\ taken \in [Stream -> Nat] /\ written \in [Stream -> Nat]
      /\ queue \in Seq(Item) /\ queue # << >> /\ delivered \in [Stream -> Seq(Nat)]
      /\ line # Eof
  BY DEF TypeOK, GetLine
<1>2. /\ queue' = Tail(queue)
      /\ delivered' = [delivered EXCEPT ![p] = Append(delivered[p], line)]
      /\ UNCHANGED <<written, taken, pump, open, remaining>>
  BY DEF GetLine, process
<1>3. /\ Len(queue') = Len(queue) - 1 /\ Len(queue) \in Nat /\ Len(queue) > 0
      /\ Head(queue) = queue[1] /\ Head(queue) \in Item
      /\ \A i \in 1 .. Len(queue') : queue'[i] = queue[i + 1]
  BY <1>1, <1>2, TailPlaces
<1>4. p \in Stream /\ line \in Nat /\ queue[1].from = p /\ queue[1].no = line
  BY <1>3 DEF Item
<1> HIDE DEF p, line
<1>5. /\ Len(delivered[p]) \in Nat /\ taken[p] \in Nat
      /\ InOrder(p) /\ Counted(p) /\ Queued(p) /\ Sorted(p) /\ NoneLost(p)
  BY <1>1, <1>4 DEF Flow
<1>6. line = Len(delivered[p]) + 1
  <2>1. Len(delivered[p]) < line /\ line <= taken[p]
    BY <1>1, <1>3, <1>4, <1>5 DEF Queued
  <2>2. PICK i \in 1 .. Len(queue) :
            queue[i].from = p /\ queue[i].no = Len(delivered[p]) + 1
    <3>1. /\ Len(delivered[p]) + 1 \in Nat /\ Len(delivered[p]) < Len(delivered[p]) + 1
          /\ Len(delivered[p]) + 1 <= taken[p]
      BY <1>4, <1>5, <2>1
    <3> QED BY <1>5, <3>1 DEF NoneLost
  <2>3. CASE i = 1
    BY <1>4, <2>2, <2>3
  <2>4. CASE i # 1
    <3>1. queue[i].no # Eof
      BY <1>5, <2>2 DEF Eof
    <3>2. line < queue[i].no
      BY <1>3, <1>4, <1>5, <2>2, <2>4, <3>1 DEF Sorted
    <3> QED BY <1>4, <1>5, <2>1, <2>2, <3>2
  <2> QED BY <2>3, <2>4
<1>7. /\ delivered'[p] = Append(delivered[p], line)
      /\ Len(delivered'[p]) = Len(delivered[p]) + 1
  BY <1>1, <1>2, <1>4
<1> SUFFICES ASSUME NEW s \in Stream
             PROVE  (InOrder(s) /\ Counted(s) /\ Queued(s)
                     /\ Sorted(s) /\ NoneLost(s) /\ Ended(s))'
  BY DEF Flow
<1>8. /\ InOrder(s) /\ Counted(s) /\ Queued(s) /\ Sorted(s) /\ NoneLost(s) /\ Ended(s)
      /\ Len(delivered[s]) \in Nat /\ taken[s] \in Nat /\ written[s] \in Nat
  BY <1>1 DEF Flow
<1>9. s # p => delivered'[s] = delivered[s]
  BY <1>1, <1>2
<1>10. InOrder(s)'
  <2>1. CASE s = p
    <3>1. delivered[p] = [i \in 1 .. Len(delivered[p]) |-> i]
      BY <1>5 DEF InOrder
    <3>2. Append(delivered[p], Len(delivered[p]) + 1)
             = [i \in 1 .. Len(delivered[p]) + 1 |-> i]
      BY <1>5, <3>1
    <3> QED BY <1>6, <1>7, <2>1, <3>2 DEF InOrder
  <2>2. CASE s # p
    BY <1>8, <1>9, <2>2 DEF InOrder
  <2> QED BY <2>1, <2>2
<1>11. Counted(s)'
  <2>1. line <= taken[p]
    BY <1>1, <1>3, <1>4, <1>5 DEF Queued
  <2> QED BY <1>2, <1>6, <1>7, <1>8, <1>9, <2>1 DEF Counted
<1>12. Queued(s)'
  <2>1. SUFFICES ASSUME NEW i \in 1 .. Len(queue'),
                        queue'[i].from = s, queue'[i].no # Eof
                 PROVE  Len(delivered'[s]) < queue'[i].no /\ queue'[i].no <= taken[s]
    BY <1>2 DEF Queued
  <2>2. i + 1 \in 1 .. Len(queue) /\ queue'[i] = queue[i + 1] /\ 1 < i + 1
        /\ 1 \in 1 .. Len(queue)
    BY <1>3
  <2>3. Len(delivered[s]) < queue[i + 1].no /\ queue[i + 1].no <= taken[s]
    BY <1>8, <2>1, <2>2 DEF Queued
  <2>4. CASE s = p
    <3>1. line < queue[i + 1].no
      BY <1>4, <1>5, <2>1, <2>2, <2>4 DEF Sorted
    <3> QED BY <1>6, <1>7, <2>2, <2>3, <2>4, <3>1
  <2> QED BY <1>9, <2>2, <2>3, <2>4
<1>13. Sorted(s)'
  <2>1. SUFFICES ASSUME NEW i \in 1 .. Len(queue'), NEW j \in 1 .. Len(queue'),
                        i < j, queue'[i].from = s, queue'[j].from = s
                 PROVE  queue'[i].no # Eof
                        /\ (queue'[j].no # Eof => queue'[i].no < queue'[j].no)
    BY DEF Sorted
  <2>2. /\ i + 1 \in 1 .. Len(queue) /\ queue'[i] = queue[i + 1]
        /\ j + 1 \in 1 .. Len(queue) /\ queue'[j] = queue[j + 1] /\ i + 1 < j + 1
    BY <1>3, <2>1
  <2> QED BY <1>8, <2>1, <2>2 DEF Sorted
<1>14. NoneLost(s)'
  <2>1. SUFFICES ASSUME NEW n \in Nat, Len(delivered'[s]) < n, n <= taken[s]
                 PROVE  \E i \in 1 .. Len(queue') : queue'[i].from = s /\ queue'[i].no = n
    BY <1>2 DEF NoneLost
  <2>2. Len(delivered[s]) < n /\ (s = p => n # line)
    BY <1>5, <1>6, <1>7, <1>8, <1>9, <2>1
  <2>3. PICK i \in 1 .. Len(queue) : queue[i].from = s /\ queue[i].no = n
    BY <1>8, <2>1, <2>2 DEF NoneLost
  <2>4. i # 1
    BY <1>4, <2>2, <2>3
  <2>5. i - 1 \in 1 .. Len(queue') /\ queue'[i - 1] = queue[(i - 1) + 1] /\ (i - 1) + 1 = i
    BY <1>3, <2>4
  <2> QED BY <2>3, <2>5
<1>15. Ended(s)'
  <2>1. ASSUME NEW i \in 1 .. Len(queue')
        PROVE  i + 1 \in 1 .. Len(queue) /\ queue'[i] = queue[i + 1]
    BY <1>3
  <2> QED BY <1>2, <1>8, <2>1 DEF Ended
<1> QED BY <1>10, <1>11, <1>12, <1>13, <1>14, <1>15

\* The sentinel of a stream is the last the generator gets of it.
LEMMA GetEofFlow ==
    ASSUME TypeOK, Flow, GetEof
    PROVE  Flow'
<1> DEFINE p == Head(queue).from
<1>1. /\ queue \in Seq(Item) /\ queue # << >> /\ Head(queue).no = Eof
      /\ delivered \in [Stream -> Seq(Nat)] /\ remaining \subseteq Stream
  BY DEF TypeOK, GetEof
<1>2. /\ queue' = Tail(queue)
      /\ remaining' = remaining \ {p}
      /\ UNCHANGED <<delivered, written, taken, pump, open>>
  BY DEF GetEof, process
<1>3. /\ Len(queue') = Len(queue) - 1 /\ Len(queue) \in Nat /\ Len(queue) > 0
      /\ Head(queue) = queue[1]
      /\ \A i \in 1 .. Len(queue') : queue'[i] = queue[i + 1]
  BY <1>1, <1>2, TailPlaces
<1>4. queue[1].from = p /\ queue[1].no = Eof /\ 1 \in 1 .. Len(queue)
  BY <1>1, <1>3
<1> HIDE DEF p
<1>5. ASSUME NEW i \in 1 .. Len(queue')
      PROVE  i + 1 \in 1 .. Len(queue) /\ queue'[i] = queue[i + 1] /\ 1 < i + 1
  BY <1>3
<1> SUFFICES ASSUME NEW s \in Stream
             PROVE  (InOrder(s) /\ Counted(s) /\ Queued(s)
                     /\ Sorted(s) /\ NoneLost(s) /\ Ended(s))'
  BY DEF Flow
<1>6. /\ InOrder(s) /\ Counted(s) /\ Queued(s) /\ Sorted(s) /\ NoneLost(s) /\ Ended(s)
      /\ Len(delivered[s]) \in Nat
  BY <1>1 DEF Flow
<1>7. InOrder(s)' /\ Counted(s)'
  BY <1>2, <1>6 DEF InOrder, Counted
<1>8. Queued(s)'
  BY <1>2, <1>5, <1>6 DEF Queued
<1>9. Sorted(s)'
  <2>1. SUFFICES ASSUME NEW i \in 1 .. Len(queue'), NEW j \in 1 .. Len(queue'),
                        i < j, queue'[i].from = s, queue'[j].from = s
                 PROVE  queue'[i].no # Eof
                        /\ (queue'[j].no # Eof => queue'[i].no < queue'[j].no)
    BY DEF Sorted
  <2>2. /\ i + 1 \in 1 .. Len(queue) /\ queue'[i] = queue[i + 1]
        /\ j + 1 \in 1 .. Len(queue) /\ queue'[j] = queue[j + 1] /\ i + 1 < j + 1
    BY <1>3, <2>1
  <2> QED BY <1>6, <2>1, <2>2 DEF Sorted
<1>10. NoneLost(s)'
  <2>1. SUFFICES ASSUME NEW n \in Nat, Len(delivered[s]) < n, n <= taken[s]
                 PROVE  \E i \in 1 .. Len(queue') : queue'[i].from = s /\ queue'[i].no = n
    BY <1>2 DEF NoneLost
  <2>2. PICK i \in 1 .. Len(queue) : queue[i].from = s /\ queue[i].no = n
    BY <1>6, <2>1 DEF NoneLost
  <2>3. i # 1
    BY <1>4, <1>6, <2>1, <2>2 DEF Eof
  <2>4. i - 1 \in 1 .. Len(queue') /\ queue'[i - 1] = queue[(i - 1) + 1] /\ (i - 1) + 1 = i
    BY <1>3, <2>3
  <2> QED BY <2>2, <2>4
<1>11. Ended(s)'
  <2>1. s = p => pump[s] = "ended" /\ \A i \in 1 .. Len(queue') : queue'[i].from # s
    <3>1. SUFFICES ASSUME s = p
                   PROVE  pump[s] = "ended" /\ \A i \in 1 .. Len(queue') : queue'[i].from # s
      OBVIOUS
    <3>2. pump[s] = "ended"
      BY <1>4, <1>6, <3>1 DEF Ended
    <3>3. ASSUME NEW i \in 1 .. Len(queue'), queue'[i].from = s
          PROVE  FALSE
      BY <1>4, <1>5, <1>6, <3>1, <3>3 DEF Sorted
    <3> QED BY <3>2, <3>3
  <2> QED BY <1>2, <1>5, <1>6, <2>1 DEF Ended
<1> QED BY <1>7, <1>8, <1>9, <1>10, <1>11

\* What leaves counters, queue and deliveries alone, and at most ends a pump
\* otherwise than by a sentinel, or closes a stream.
LEMMA OtherFlow ==
    ASSUME TypeOK, Flow, UNCHANGED <<delivered, taken, written, queue, remaining>>,
           open' \subseteq open,
           \A s \in Stream : (pump[s] = "ended") <=> (pump'[s] = "ended")
    PROVE  Flow'
BY DEF Flow, InOrder, Counted, Queued, Sorted, NoneLost, Ended

LEMMA FlowKept == TypeOK /\ Stages /\ Flow /\ [Next]_vars => Flow'
<1> SUFFICES ASSUME TypeOK, Stages, Flow, [Next]_vars PROVE Flow'
  OBVIOUS
<1> USE DEF process, tasks
<1>1. CASE Processes
  <2>1. CASE ReadText
    BY <2>1, OtherFlow DEF ReadText
  <2>2. ASSUME NEW c \in Code, Exit(c) PROVE Flow'
    BY <2>2, OtherFlow DEF Exit
  <2>3. ASSUME NEW s \in Stream, Close(s) PROVE Flow'
    BY <2>3, OtherFlow DEF Close
  <2>4. ASSUME NEW p \in Stream, Write(p) PROVE Flow'
    <3>1. /\ p \in open /\ written' = [written EXCEPT ![p] = written[p] + 1]
          /\ UNCHANGED <<delivered, taken, pump, queue, remaining, open>>
      BY <2>4 DEF Write
    <3>2. written \in [Stream -> Nat] /\ taken \in [Stream -> Nat]
          /\ \A s \in Stream : Len(delivered[s]) \in Nat
      BY DEF TypeOK
    <3> SUFFICES ASSUME NEW s \in Stream
                 PROVE  (InOrder(s) /\ Counted(s) /\ Queued(s)
                         /\ Sorted(s) /\ NoneLost(s) /\ Ended(s))'
      BY DEF Flow
    <3>3. InOrder(s) /\ Counted(s) /\ Queued(s) /\ Sorted(s) /\ NoneLost(s) /\ Ended(s)
      BY DEF Flow
    <3>4. written'[s] = written[s] \/ (s = p /\ written'[s] = written[s] + 1)
      BY <3>1, <3>2
    <3>5. Counted(s)'
      BY <3>1, <3>2, <3>3, <3>4 DEF Counted
    <3>6. Ended(s)'
      BY <3>1, <3>3, <3>4 DEF Ended
    <3> QED BY <3>1, <3>3, <3>5, <3>6 DEF InOrder, Queued, Sorted, NoneLost
  <2> QED BY <1>1, <2>1, <2>2, <2>3, <2>4 DEF Processes
<1>2. ASSUME NEW p \in Stream, Pump(p) PROVE Flow'
  <2>1. CASE PumpBreaks(p)
    <3>1. \A s \in Stream : (pump[s] = "ended") <=> (pump'[s] = "ended")
      BY <2>1 DEF PumpBreaks, TypeOK
    <3> QED BY <2>1, <3>1, OtherFlow DEF PumpBreaks
  <2> QED BY <1>2, <2>1, PumpLineFlow, PumpEofFlow DEF Pump
<1>3. CASE Generator
  <2>1. CASE Start
    <3>1. gen = "starting" /\ UNCHANGED <<delivered, taken, written, queue, remaining, pump>>
      BY <2>1 DEF Start
    <3>2. \A s \in Stream : pump[s] # "ended"
      BY <3>1 DEF Stages
    <3> QED BY <3>1, <3>2 DEF Flow, InOrder, Counted, Queued, Sorted, NoneLost, Ended
  <2>2. CASE Feed
    <3>1. \A s \in Stream : pump[s] # "ended" /\ pump'[s] # "ended"
      BY <2>2 DEF Feed, Stages
    <3> QED BY <2>2, <3>1, OtherFlow DEF Feed
  <2>3. CASE FeedRaises \/ ReportExit \/ GracePasses \/ Reaped
    BY <2>3, OtherFlow DEF FeedRaises, ReportExit, GracePasses, Reaped
  <2>4. CASE Gather
    <3>1. \A s \in Stream : (pump[s] = "ended") <=> (pump'[s] = "ended")
      BY <2>4 DEF Gather, TypeOK
    <3> QED BY <2>4, <3>1, OtherFlow DEF Gather
  <2> QED BY <1>3, <2>1, <2>2, <2>3, <2>4, GetLineFlow, GetEofFlow DEF Generator
<1>4. CASE Cancel
  <2>1. UNCHANGED <<delivered, taken, written, queue, remaining, open, pump>>
    BY <1>4 DEF Cancel, CancelEarly, CancelRunning, CancelAgain
  <2> QED BY <2>1, OtherFlow
<1>5. CASE UNCHANGED vars
  BY <1>5, OtherFlow DEF vars
<1> QED BY <1>1, <1>2, <1>3, <1>4, <1>5 DEF Next

LEMMA RunInvariant == Spec => []RunInv
<1>1. RunInv /\ [Next]_vars => RunInv'
  BY TypesKept, StagesKept, DeathsKept, FlowKept DEF RunInv
<1> QED BY InitRunInv, <1>1, PTL DEF Spec

-----------------------------------------------------------------------------

\* Types of a script run.
THEOREM ExecutorTypeCorrect == Spec => []TypeOK
<1>1. RunInv => TypeOK
  BY DEF RunInv
<1> QED BY RunInvariant, <1>1, PTL

\* With both sentinels taken, nothing is between the script and the engine.
LEMMA NothingLeft ==
    ASSUME RunInv, remaining = {}
    PROVE  /\ open = {}
           /\ \A s \in Stream : /\ Len(delivered[s]) = written[s]
                                /\ delivered[s] = [i \in 1 .. written[s] |-> i]
<1>1. ASSUME NEW s \in Stream
      PROVE  /\ s \notin open
             /\ Len(delivered[s]) = written[s]
             /\ delivered[s] = [i \in 1 .. written[s] |-> i]
  <2>1. /\ InOrder(s) /\ Counted(s) /\ NoneLost(s) /\ Ended(s)
        /\ Len(delivered[s]) \in Nat /\ taken[s] \in Nat /\ written[s] \in Nat
    BY DEF RunInv, Flow, TypeOK
  <2>2. /\ taken[s] = written[s] /\ s \notin open
        /\ \A i \in 1 .. Len(queue) : queue[i].from # s
    BY <2>1 DEF Ended
  <2>3. Len(delivered[s]) = taken[s]
    <3>1. SUFFICES ASSUME Len(delivered[s]) < taken[s] PROVE FALSE
      BY <2>1 DEF Counted
    <3> QED BY <2>1, <2>2, <3>1 DEF NoneLost
  <2> QED BY <2>1, <2>2, <2>3 DEF InOrder
<1>2. open \subseteq Stream
  BY DEF RunInv, TypeOK
<1> QED BY <1>1, <1>2

\* Every line of both streams precedes the exit code, which is the script's.
THEOREM ExitComesLast == Spec => []ExitIsLast
<1>1. RunInv => ExitIsLast
  BY NothingLeft DEF RunInv, Stages, ExitIsLast
<1> QED BY RunInvariant, <1>1, PTL

\* A run cancelled once, with its script fed, leaves no script behind.
THEOREM CancelledRunsAreDead == Spec => []CancelledIsDead
<1>1. RunInv => CancelledIsDead
  BY DEF RunInv, Deaths, CancelledIsDead
<1> QED BY RunInvariant, <1>1, PTL

-----------------------------------------------------------------------------
(* The transcript *)

Shut == script # "none" /\ open = {}

LEMMA PromiseInit == Init => Promise!Init
BY DEF Init, Promise!Init

\* A line that the generator takes is the next the engine has to hear.
LEMMA HearsNext ==
    ASSUME RunInv, GetLine
    PROVE  Promise!Next
<1> DEFINE p == Head(queue).from
           line == Head(queue).no
<1>1. /\ queue \in Seq(Item) /\ queue # << >> /\ delivered \in [Stream -> Seq(Nat)]
      /\ gen = "draining" /\ line # Eof
      /\ delivered' = [delivered EXCEPT ![p] = Append(delivered[p], line)]
      /\ UNCHANGED <<written, open, script, code, outcome>>
  BY DEF RunInv, TypeOK, GetLine, process
<1>2. outcome = "none"
  BY <1>1 DEF RunInv, Stages
<1>3. /\ Head(queue) \in Item /\ Head(queue) = queue[1]
      /\ 1 \in 1 .. Len(queue)
  BY <1>1, TailPlaces
<1>4. p \in Stream /\ line \in Nat /\ queue[1].from = p /\ queue[1].no = line
  BY <1>3 DEF Item
<1> HIDE DEF p, line
<1>5. Flow'
  BY GetLineFlow DEF RunInv
<1>6. PICK s \in Stream : s = p
  BY <1>4
<1>7. InOrder(s)' /\ Counted(s)'
  BY <1>5 DEF Flow
<1>8. delivered'[s] = Append(delivered[s], line)
  BY <1>1, <1>6
<1>9. Len(delivered[s]) \in Nat /\ Len(delivered'[s]) = Len(delivered[s]) + 1
  BY <1>1, <1>4, <1>8
<1>10. line = Len(delivered[s]) + 1
  BY <1>1, <1>4, <1>7, <1>8, <1>9 DEF InOrder
<1>11. Len(delivered[s]) < written[s]
  <2>1. taken'[s] = taken[s] /\ written'[s] = written[s]
        /\ taken[s] \in Nat /\ written[s] \in Nat
    BY DEF RunInv, TypeOK, GetLine, process
  <2> QED BY <1>7, <1>9, <2>1 DEF Counted
<1>12. Promise!Hear(s)
  BY <1>1, <1>2, <1>6, <1>10, <1>11 DEF Promise!Hear
<1> QED BY <1>12 DEF Promise!Next

LEMMA PromiseStep ==
    ASSUME RunInv, [Next]_vars
    PROVE  [Promise!Next]_(Promise!vars)
<1> USE DEF process, tasks, Promise!vars
<1>1. TypeOK /\ Stages
  BY DEF RunInv
<1>2. CASE Processes
  <2>1. CASE ReadText
    BY <2>1 DEF ReadText
  <2>2. ASSUME NEW c \in Code, Exit(c) PROVE Promise!End
    <3>1. /\ script = "running" /\ script' = "exited" /\ code' = c
          /\ open' \in {{}, open}
          /\ UNCHANGED <<written, delivered, outcome>>
      BY <2>2 DEF Exit
    <3>2. code = "none"
      BY <1>1, <3>1 DEF Stages
    <3>3. Shut' \in {Shut, TRUE}
      BY <3>1 DEF Shut
    <3> QED BY <3>1, <3>2, <3>3 DEF Promise!End, Shut
  <2>3. ASSUME NEW s \in Stream, Write(s) PROVE Promise!Say(s)
    BY <2>3 DEF Write, Promise!Say
  <2>4. ASSUME NEW s \in Stream, Close(s) PROVE [Promise!Next]_(Promise!vars)
    <3>1. /\ s \in open /\ open' = open \ {s}
          /\ UNCHANGED <<script, code, written, delivered, outcome>>
      BY <2>4 DEF Close
    <3>2. script # "none"
      BY <1>1, <3>1 DEF Stages
    <3>3. CASE open' = {}
      BY <3>1, <3>2, <3>3 DEF Promise!Next, Promise!CloseAll
    <3>4. CASE open' # {}
      BY <3>1, <3>4
    <3> QED BY <3>3, <3>4
  <2> QED BY <1>2, <2>1, <2>2, <2>3, <2>4 DEF Processes, Promise!Next
<1>3. ASSUME NEW s \in Stream, Pump(s) PROVE UNCHANGED Promise!vars
  BY <1>3 DEF Pump, PumpLine, PumpEof, PumpBreaks
<1>4. CASE Generator
  <2>1. CASE Start
    <3>1. gen = "starting" /\ outcome = "none" /\ script = "none" /\ open = {}
      BY <1>1, <2>1 DEF Start, Stages
    <3>2. CASE script' = "running" /\ open' = Stream /\ UNCHANGED outcome
      <4>1. Stream # {}
        BY DEF Stream
      <4> QED BY <2>1, <3>1, <3>2, <4>1 DEF Start
    <3>3. CASE outcome' = "error" /\ UNCHANGED <<script, open>>
      BY <2>1, <3>1, <3>3 DEF Start, Promise!Next, Promise!GiveUp
    <3> QED BY <2>1, <3>2, <3>3 DEF Start
  <2>2. CASE Feed \/ GetEof \/ GracePasses \/ Gather
    BY <2>2 DEF Feed, GetEof, GracePasses, Gather
  <2>3. CASE FeedRaises \/ Reaped
    BY <1>1, <2>3 DEF FeedRaises, Reaped, Stages, Promise!Next, Promise!GiveUp
  <2>4. CASE ReportExit
    <3>1. /\ gen = "reaping" /\ script = "exited" /\ outcome' = code
          /\ UNCHANGED <<process, delivered>>
      BY <2>4 DEF ReportExit
    <3>2. outcome = "none" /\ code # "none" /\ remaining = {}
      BY <1>1, <3>1 DEF Stages
    <3>3. open = {} /\ \A s \in Stream : Len(delivered[s]) = written[s]
      BY <3>2, NothingLeft
    <3>4. Promise!Report
      BY <3>1, <3>2, <3>3 DEF Promise!Report
    <3> QED BY <3>4 DEF Promise!Next
  <2> QED BY <1>4, <2>1, <2>2, <2>3, <2>4, HearsNext DEF Generator
<1>5. CASE Cancel
  <2>1. CASE CancelRunning
    BY <1>5, <2>1 DEF Cancel, CancelRunning
  <2>2. CASE CancelEarly \/ CancelAgain
    <3>1. outcome = "none" /\ outcome' = "cancelled"
      BY <1>1, <2>2 DEF CancelEarly, CancelAgain, Stages
    <3> QED BY <1>5, <3>1 DEF Cancel, Promise!Next, Promise!GiveUp
  <2> QED BY <1>5, <2>1, <2>2 DEF Cancel
<1>6. CASE UNCHANGED vars
  BY <1>6 DEF vars
<1> QED BY <1>2, <1>3, <1>4, <1>5, <1>6 DEF Next

\* The generator, the pumps and the script implement the transcript.
THEOREM TranscriptImplemented == Spec => ImplementsTranscript
BY PromiseInit, PromiseStep, RunInvariant, PTL DEF Spec, Promise!Spec, ImplementsTranscript
=============================================================================
