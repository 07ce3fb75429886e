---------------------------- MODULE ExecutorProps -----------------------------
(***************************************************************************)
(* What a script run must and must not do.                                 *)
(***************************************************************************)
EXTENDS Executor

\* An exit code that reaches the engine is the script's, and by then every
\* line of both streams has been delivered in order and no more can come,
\* however the two pumps, the generator and the script interleave.
ExitIsLast ==
    outcome \in Code =>
        /\ script = "exited" /\ outcome = code /\ open = {}
        /\ \A s \in Stream : delivered[s] = [i \in 1 .. written[s] |-> i]

\* One cancellation after the script got its text leaves no script behind:
\* it has exited before the exception goes on, even if it ignores SIGTERM.
CancelledIsDead ==
    gen = "over" /\ outcome = "cancelled" /\ cancels = 1 /\ pump["stdout"] # "off"
        => script = "exited"

Promise == INSTANCE Transcript
    WITH said <- written, heard <- delivered,
         closed <- (script # "none" /\ open = {})

\* The generator implements the transcript.
ImplementsTranscript == Promise!Spec

\* Once the script is over and its streams are closed, the run ends, but for a
\* line that a pump cannot take; and a cancelled run ends, whatever the script
\* does.
Finishes ==
    /\ (script = "exited" /\ open = {})
          ~> (gen = "over" \/ \E s \in Stream : pump[s] = "broken")
    /\ cancels > 0 ~> gen = "over"

\* While the run reads, a script blocked on a full pipe does not stay blocked:
\* no stream waits for the other, nor for the consumer.
Unblocked ==
    \A s \in Stream :
        (gen = "draining" /\ written[s] - taken[s] = PipeCap)
            ~> (written[s] - taken[s] < PipeCap \/ gen = "over" \/ pump[s] = "broken")

-----------------------------------------------------------------------------
(* Claims of the comments *)

\* The final yield is always the exit event: a script that is over, with its
\* streams closed, ends the run.
FinalYieldIsExit == (script = "exited" /\ open = {}) ~> gen = "over"
=============================================================================
