------------------------------ MODULE Transcript ------------------------------
(***************************************************************************)
(* What Executor.run promises: the lines of each stream, in the order they *)
(* were written and none of them left out, then the exit code of a script  *)
(* that is over, or else an error or a cancellation; and nothing after it. *)
(***************************************************************************)
EXTENDS Naturals, Sequences

CONSTANTS Stream, Code

VARIABLES said,     \* stream -> the number of lines written
          closed,   \* no process writes any more
          code,     \* the exit code of the script, or none
          heard,    \* stream -> the lines yielded
          outcome

vars == <<said, closed, code, heard, outcome>>

Init ==
    /\ said = [s \in Stream |-> 0] /\ closed = FALSE /\ code = "none"
    /\ heard = [s \in Stream |-> << >>] /\ outcome = "none"

Say(s) ==
    /\ ~ closed
    /\ said' = [said EXCEPT ![s] = @ + 1]
    /\ UNCHANGED <<closed, code, heard, outcome>>

\* The script ends, and its streams with it or later.
End ==
    /\ code = "none" /\ code' \in Code
    /\ closed' \in {closed, TRUE}
    /\ UNCHANGED <<said, heard, outcome>>

CloseAll ==
    /\ closed' = TRUE
    /\ UNCHANGED <<said, code, heard, outcome>>

Hear(s) ==
    /\ outcome = "none" /\ Len(heard[s]) < said[s]
    /\ heard' = [heard EXCEPT ![s] = Append(@, Len(@) + 1)]
    /\ UNCHANGED <<said, closed, code, outcome>>

Report ==
    /\ outcome = "none" /\ code # "none" /\ closed
    /\ \A s \in Stream : Len(heard[s]) = said[s]
    /\ outcome' = code
    /\ UNCHANGED <<said, closed, code, heard>>

GiveUp ==
    /\ outcome = "none" /\ outcome' \in {"error", "cancelled"}
    /\ UNCHANGED <<said, closed, code, heard>>

Next ==
    \/ \E s \in Stream : Say(s) \/ Hear(s)
    \/ End \/ CloseAll \/ Report \/ GiveUp

Spec == Init /\ [][Next]_vars
=============================================================================
