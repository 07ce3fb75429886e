------------------------------- MODULE Executor -------------------------------
(***************************************************************************)
(* One script run: Executor.run of executor.py with the process it starts  *)
(* and the two pump tasks that read its streams, consumed by _run_script   *)
(* of engine.py, and cancelled by the progress screen or Ctrl-C.           *)
(*                                                                         *)
(* The tasks of the event loop interleave at their awaits, with each other *)
(* and with the script.  The lines of a stream are numbered; what is in a  *)
(* pipe, or in its reader's buffer, are the lines between two counters.    *)
(***************************************************************************)
EXTENDS Naturals, Sequences

CONSTANTS
    PipeCap,    \* the lines a pipe and its reader's buffer hold
    TooLong,    \* the numbers of the lines beyond the reader's limit (64 KiB)
    LargeText,  \* whether the script text outgrows its pipe and write buffer
    MaxLines, MaxCancels    \* exploration bounds

ASSUME ExecutorAssumption ==
    /\ PipeCap \in Nat \ {0} /\ TooLong \subseteq Nat /\ LargeText \in BOOLEAN
    /\ MaxLines \in Nat /\ MaxCancels \in Nat

Stream == {"stdout", "stderr"}
Code == {"zero", "nonzero"}
Outcome == Code \cup {"none", "error", "cancelled"}
GenPhase == {"starting", "feeding", "draining", "reaping", "terminating",
             "killing", "gathering", "over"}

\* A queue item: a line of a stream, or the sentinel its pump ends with.
Eof == 0
Item == [from : Stream, no : Nat]

VARIABLES
    script,     \* none, running, exited
    code,       \* the exit code of the script, none before
    signal,     \* the last signal it was sent: none, term, kill
    textRead,   \* the script has read enough of its text for the rest to fit
    open,       \* the streams that some process can still write to
    written,    \* stream -> lines written to it
    taken,      \* stream -> lines its pump has read
    pump,       \* stream -> off, reading, ended, broken, cancelled
    queue,      \* the items between the pumps and the generator
    remaining,  \* the pumps whose sentinel the generator waits for
    gen,        \* the phase of the generator
    delivered,  \* stream -> the lines yielded to the engine
    outcome,    \* what the engine takes the run for
    cancels     \* how often the consuming task was cancelled

process == <<script, code, signal, textRead, open, written>>
tasks == <<taken, pump, queue, remaining, gen>>
vars == <<process, tasks, delivered, outcome, cancels>>

TypeOK ==
    /\ script \in {"none", "running", "exited"}
    /\ code \in Code \cup {"none"}
    /\ signal \in {"none", "term", "kill"}
    /\ textRead \in BOOLEAN
    /\ open \subseteq Stream
    /\ written \in [Stream -> Nat] /\ taken \in [Stream -> Nat]
    /\ pump \in [Stream -> {"off", "reading", "ended", "broken", "cancelled"}]
    /\ queue \in Seq(Item)
    /\ remaining \subseteq Stream
    /\ gen \in GenPhase
    /\ delivered \in [Stream -> Seq(Nat)]
    /\ outcome \in Outcome
    /\ cancels \in Nat

Init ==
    /\ script = "none" /\ code = "none" /\ signal = "none" /\ textRead = FALSE
    /\ open = {} /\ written = [s \in Stream |-> 0]
    /\ taken = [s \in Stream |-> 0] /\ pump = [s \in Stream |-> "off"]
    /\ queue = << >> /\ remaining = Stream /\ gen = "starting"
    /\ delivered = [s \in Stream |-> << >>]
    /\ outcome = "none" /\ cancels = 0

-----------------------------------------------------------------------------
(* The script, and what it leaves running in the background *)

\* A process writes a line; a full pipe blocks it.
Write(s) ==
    /\ s \in open
    /\ written[s] < MaxLines /\ written[s] - taken[s] < PipeCap
    /\ written' = [written EXCEPT ![s] = @ + 1]
    /\ UNCHANGED <<script, code, signal, textRead, open, tasks, delivered,
                   outcome, cancels>>

\* bash reads its text as it goes.
ReadText ==
    /\ script = "running" /\ ~ textRead
    /\ textRead' = TRUE
    /\ UNCHANGED <<script, code, signal, open, written, tasks, delivered,
                   outcome, cancels>>

\* A bug: the exit code of a killed script is its signal.
ExitBySignal(c) ==
    /\ script = "running"
    /\ script' = "exited" /\ code' = IF signal = "none" THEN c ELSE signal
    /\ open' \in {{}, open}
    /\ UNCHANGED <<signal, textRead, written, tasks, delivered, outcome, cancels>>

\* The script exits.  Processes it started may keep its streams open.
Exit(c) ==
    /\ script = "running"
    /\ script' = "exited" /\ code' = c
    /\ open' \in {{}, open}
    /\ UNCHANGED <<signal, textRead, written, tasks, delivered, outcome, cancels>>

\* The last process that had a stream open closes it.
Close(s) ==
    /\ s \in open
    /\ open' = open \ {s}
    /\ UNCHANGED <<script, code, signal, textRead, written, tasks, delivered,
                   outcome, cancels>>

-----------------------------------------------------------------------------
(* Starting *)

\* The script is read and the process created, or that raises.
Start ==
    /\ gen = "starting"
    /\ \/ /\ script' = "running" /\ open' = Stream /\ gen' = "feeding"
          /\ UNCHANGED outcome
       \/ /\ outcome' = "error" /\ gen' = "over"
          /\ UNCHANGED <<script, open>>
    /\ UNCHANGED <<code, signal, textRead, written, taken, pump, queue,
                   remaining, delivered, cancels>>

\* A bug: stderr is to be read after stdout.
FeedOneStream ==
    /\ gen = "feeding"
    /\ LargeText => textRead
    /\ gen' = "draining" /\ pump' = [pump EXCEPT !["stdout"] = "reading"]
    /\ UNCHANGED <<process, taken, queue, remaining, delivered, outcome, cancels>>

\* drain returns once what is left of the text fits the buffers, and the
\* pumps start.
Feed ==
    /\ gen = "feeding"
    /\ LargeText => textRead
    /\ gen' = "draining" /\ pump' = [s \in Stream |-> "reading"]
    /\ UNCHANGED <<process, taken, queue, remaining, delivered, outcome, cancels>>

\* The script was gone before its text was written: drain raises.
FeedRaises ==
    /\ gen = "feeding" /\ script = "exited"
    /\ outcome' = "error" /\ gen' = "over"
    /\ UNCHANGED <<process, taken, pump, queue, remaining, delivered, cancels>>

-----------------------------------------------------------------------------
(* The pumps.  The queue is unbounded, so that putting never waits. *)

PumpLine(s) ==
    /\ pump[s] = "reading" /\ taken[s] < written[s]
    /\ taken[s] + 1 \notin TooLong
    /\ taken' = [taken EXCEPT ![s] = @ + 1]
    /\ queue' = Append(queue, [from |-> s, no |-> taken[s] + 1])
    /\ UNCHANGED <<process, pump, remaining, gen, delivered, outcome, cancels>>

\* A bug: the end of the script is taken for the end of its output.
PumpEofAtExit(s) ==
    /\ pump[s] = "reading" /\ script = "exited"
    /\ pump' = [pump EXCEPT ![s] = "ended"]
    /\ queue' = Append(queue, [from |-> s, no |-> Eof])
    /\ UNCHANGED <<process, taken, remaining, gen, delivered, outcome, cancels>>

\* A bug: the pump just returns.
PumpEofSilently(s) ==
    /\ pump[s] = "reading" /\ taken[s] = written[s] /\ s \notin open
    /\ pump' = [pump EXCEPT ![s] = "ended"]
    /\ UNCHANGED <<process, taken, queue, remaining, gen, delivered, outcome,
                   cancels>>

\* An empty read: the sentinel.
PumpEof(s) ==
    /\ pump[s] = "reading" /\ taken[s] = written[s] /\ s \notin open
    /\ pump' = [pump EXCEPT ![s] = "ended"]
    /\ queue' = Append(queue, [from |-> s, no |-> Eof])
    /\ UNCHANGED <<process, taken, remaining, gen, delivered, outcome, cancels>>

\* readline raises ValueError for a line beyond its limit: the task ends
\* without a sentinel.
PumpBreaks(s) ==
    /\ pump[s] = "reading" /\ taken[s] < written[s]
    /\ taken[s] + 1 \in TooLong
    /\ pump' = [pump EXCEPT ![s] = "broken"]
    /\ UNCHANGED <<process, taken, queue, remaining, gen, delivered, outcome,
                   cancels>>

-----------------------------------------------------------------------------
(* The generator *)

\* A line goes to _run_script, which logs it and yields an event.
GetLine ==
    /\ gen = "draining" /\ queue # << >> /\ Head(queue).no # Eof
    /\ delivered' = [delivered EXCEPT ![Head(queue).from] = Append(@, Head(queue).no)]
    /\ queue' = Tail(queue)
    /\ UNCHANGED <<process, taken, pump, remaining, gen, outcome, cancels>>

\* The code counts sentinels; a pump sends at most one.
GetEof ==
    /\ gen = "draining" /\ queue # << >> /\ Head(queue).no = Eof
    /\ queue' = Tail(queue)
    /\ remaining' = remaining \ {Head(queue).from}
    /\ gen' = IF remaining' = {} THEN "reaping" ELSE "draining"
    /\ UNCHANGED <<process, taken, pump, delivered, outcome, cancels>>

\* The exit event: both pumps have ended, so that closing the generator
\* later has nothing to do.
ReportExit ==
    /\ gen = "reaping" /\ script = "exited"
    /\ outcome' = code /\ gen' = "over"
    /\ UNCHANGED <<process, taken, pump, queue, remaining, delivered, cancels>>

-----------------------------------------------------------------------------
(* Cancellation of the consuming task: the Abort button, quitting, Ctrl-C *)

\* Before the try: a process still being created is killed by its
\* transport, one that is being fed its text is left alone.  drain only
\* waits for a text that does not fit, or for a pipe that broke.
CancelEarly ==
    /\ \/ gen = "starting"
       \/ gen = "feeding" /\ (LargeText \/ script = "exited")
    /\ outcome' = "cancelled" /\ gen' = "over"
    /\ UNCHANGED <<signal, pump>>

\* The handler sends SIGTERM and waits for five seconds.
CancelRunning ==
    /\ gen \in {"draining", "reaping"}
    /\ signal' = IF script = "running" THEN "term" ELSE signal
    /\ gen' = "terminating"
    /\ UNCHANGED <<outcome, pump>>

\* A second cancellation interrupts the handler's own waiting.
CancelAgain ==
    /\ gen \in {"terminating", "killing"}
    /\ outcome' = "cancelled" /\ gen' = "gathering"
    /\ UNCHANGED <<signal, pump>>

Cancel ==
    /\ cancels < MaxCancels /\ cancels' = cancels + 1
    /\ CancelEarly \/ CancelRunning \/ CancelAgain
    /\ UNCHANGED <<script, code, textRead, open, written, taken, queue,
                   remaining, delivered>>

\* A bug: the handler does not wait for a script that takes its time.
GracePassesUnkilled ==
    /\ gen = "terminating" /\ script = "running"
    /\ gen' = "gathering" /\ outcome' = "cancelled"
    /\ UNCHANGED <<process, taken, pump, queue, remaining, delivered, cancels>>

\* Five seconds later: SIGKILL.
GracePasses ==
    /\ gen = "terminating" /\ script = "running"
    /\ signal' = "kill" /\ gen' = "killing"
    /\ UNCHANGED <<script, code, textRead, open, written, taken, pump, queue,
                   remaining, delivered, outcome, cancels>>

\* proc.wait returns, and the exception is raised again.
Reaped ==
    /\ gen \in {"terminating", "killing"} /\ script = "exited"
    /\ gen' = "gathering" /\ outcome' = "cancelled"
    /\ UNCHANGED <<process, taken, pump, queue, remaining, delivered, cancels>>

\* The finally clause cancels the pumps that still read, and waits for them.
Gather ==
    /\ gen = "gathering"
    /\ gen' = "over"
    /\ pump' = [s \in Stream |-> IF pump[s] = "reading" THEN "cancelled" ELSE pump[s]]
    /\ UNCHANGED <<process, taken, queue, remaining, delivered, outcome, cancels>>

-----------------------------------------------------------------------------

Processes ==
    \/ ReadText
    \/ \E c \in Code : Exit(c)
    \/ \E s \in Stream : Write(s) \/ Close(s)

Pump(s) == PumpLine(s) \/ PumpEof(s) \/ PumpBreaks(s)

Generator ==
    \/ Start \/ Feed \/ FeedRaises
    \/ GetLine \/ GetEof \/ ReportExit
    \/ GracePasses \/ Reaped \/ Gather

Next == Processes \/ (\E s \in Stream : Pump(s)) \/ Generator \/ Cancel

Spec == Init /\ [][Next]_vars

\* The event loop runs every task that is ready, and a killed script dies.
\* Nothing is assumed of scripts otherwise.
Fairness ==
    /\ WF_vars(Generator)
    /\ \A s \in Stream : WF_vars(Pump(s))
    /\ WF_vars(signal = "kill" /\ \E c \in Code : Exit(c))

FairSpec == Spec /\ Fairness
=============================================================================
