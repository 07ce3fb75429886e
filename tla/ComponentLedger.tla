--------------------------- MODULE ComponentLedger ---------------------------
(***************************************************************************)
(* What the installer promises about its state file: a component is only   *)
(* ever recorded as what its script has just brought onto the host, and a  *)
(* record only disappears because the component was given up.              *)
(***************************************************************************)
CONSTANTS Comp, Entry, None, Unknown

VARIABLES
    record,     \* component -> the entry in the state file, or None
    effect      \* component -> what a finished script left, or Unknown

Init ==
    /\ record = [c \in Comp |-> None]
    /\ effect = [c \in Comp |-> None]

\* A script starts on the component and may leave it in any condition.
Begin(c) ==
    /\ effect' = [effect EXCEPT ![c] = Unknown]
    /\ UNCHANGED record

\* The script ends well, having applied an entry or removed the component.
Finish(c) ==
    /\ effect[c] = Unknown
    /\ \E e \in Entry \cup {None} : effect' = [effect EXCEPT ![c] = e]
    /\ UNCHANGED record

\* The ledger takes over what is on the host.
Record(c) ==
    /\ effect[c] # Unknown
    /\ record' = [record EXCEPT ![c] = effect[c]]
    /\ UNCHANGED effect

\* The operator gives up a component that has no script to remove it.
Forget(c) ==
    /\ record' = [record EXCEPT ![c] = None]
    /\ UNCHANGED effect

Next == \E c \in Comp : Begin(c) \/ Finish(c) \/ Record(c) \/ Forget(c)

Spec == Init /\ [][Next]_<<record, effect>>
=============================================================================
