------------------------------- MODULE KbSync -------------------------------
(***************************************************************************)
(* The knowledge base of one source and its copy in the central kb-repo,   *)
(* kept alike by the hub: pull (kb_source.py) when the source's hash has   *)
(* changed, then write-back (write_back.py) when the copy differs from     *)
(* what was last pushed.  The source's side is the router of               *)
(* stackwiz_kb_serve.                                                      *)
(*                                                                         *)
(* People edit files on both sides at any time, between any two calls of   *)
(* the hub.  A tree stands for its own hash.  Sources do not affect one    *)
(* another but for the state file they share, so there is one.             *)
(***************************************************************************)
EXTENDS Naturals

CONSTANTS
    File,       \* the files of the source
    Absent,     \* the content of a file that is not there
    None,       \* no tree, no hash
    Push,       \* whether the source advertises a push endpoint
    Fresh,      \* whether no edit brings back a tree that was there before
    TornTrees,  \* whether removing the old tree may fail half-way
    MaxEdits, MaxFaults, MaxRestarts    \* exploration bounds

Content == 0 .. MaxEdits
Tree == [File -> Content \cup {Absent}]

ASSUME KbAssumption ==
    /\ Absent \notin Nat /\ None \notin Tree
    /\ {Push, Fresh, TornTrees} \subseteq BOOLEAN
    /\ {MaxEdits, MaxFaults, MaxRestarts} \subseteq Nat

VARIABLES
    source,     \* the tree the source serves
    central,    \* _sources/<name> in the kb-repo
    \* the hub
    pc,         \* the next call of the cycle
    lastHash,   \* _last_hash, in memory
    remote,     \* the hash that health returned
    current,    \* the hash of central that write-back compared
    tar,        \* the tree under way, in either direction
    anchor,     \* .hub-writeback-state.json: the tree last pushed
    \* history, read by properties only
    pulled,     \* the tree that the last pull put into central
    touched,    \* the files of central edited since
    \* exploration counters
    edits, faults, restarts

trees == <<source, central>>
hub == <<pc, lastHash, remote, current, tar, anchor>>
history == <<pulled, touched>>
counters == <<edits, faults, restarts>>
vars == <<trees, hub, history, counters>>

HubPhase == {"idle", "snapshot", "replace", "rename", "writeback", "pack",
             "post", "save"}

TypeOK ==
    /\ source \in Tree /\ central \in Tree \cup {None}
    /\ pc \in HubPhase
    /\ {lastHash, remote, current, tar, anchor, pulled} \subseteq Tree \cup {None}
    /\ touched \subseteq File
    /\ edits \in 0 .. MaxEdits /\ faults \in 0 .. MaxFaults
    /\ restarts \in 0 .. MaxRestarts

Init ==
    /\ source \in [File -> {0, Absent}] /\ central = None
    /\ pc = "idle" /\ lastHash = None /\ remote = None /\ current = None
    /\ tar = None /\ anchor = None
    /\ pulled = None /\ touched = {}
    /\ edits = 0 /\ faults = 0 /\ restarts = 0

Ok == UNCHANGED faults
Fault == faults < MaxFaults /\ faults' = faults + 1

-----------------------------------------------------------------------------
(* Edits *)

\* What an edit may leave in a file; Absent: the edit deletes it.  With Fresh
\* it is new content, and only the files that the source started with, whose
\* content is 0, are deleted, and only at the source.
Written == IF Fresh THEN {edits + 1} ELSE Content \cup {Absent}

EditSource(f) ==
    /\ edits < MaxEdits /\ edits' = edits + 1
    /\ \E c \in Written \cup (IF source[f] = 0 THEN {Absent} ELSE {}) :
          source' = [source EXCEPT ![f] = c]
    /\ UNCHANGED <<central, hub, history, faults, restarts>>

EditCentral(f) ==
    /\ central # None
    /\ edits < MaxEdits /\ edits' = edits + 1
    /\ \E c \in Written : central' = [central EXCEPT ![f] = c]
    /\ touched' = touched \cup {f}
    /\ UNCHANGED <<source, hub, pulled, faults, restarts>>

-----------------------------------------------------------------------------
(* Pull *)

\* remote_hash, and whether it is the cached one.
Health ==
    /\ pc = "idle"
    /\ \/ /\ Ok /\ remote' = source
          /\ pc' = IF lastHash = source THEN "writeback" ELSE "snapshot"
       \/ Fault /\ pc' = "writeback" /\ UNCHANGED remote
    /\ UNCHANGED <<trees, lastHash, current, tar, anchor, history, edits, restarts>>

Snapshot ==
    /\ pc = "snapshot"
    /\ \/ Ok /\ tar' = source /\ pc' = "replace"
       \/ Fault /\ pc' = "writeback" /\ UNCHANGED tar
    /\ UNCHANGED <<trees, lastHash, remote, current, anchor, history, edits, restarts>>

\* What an rmtree that fails can leave.
Remnants(t) ==
    IF TornTrees /\ t # None
    THEN {[f \in File |-> IF f \in gone THEN Absent ELSE t[f]] : gone \in SUBSET File}
    ELSE {t}

\* _replace_tree_from_tar, up to and with the removal of the old tree.
RemoveOld ==
    /\ pc = "replace"
    /\ \/ Ok /\ central' = None /\ pc' = "rename"
       \/ Fault /\ pc' = "writeback" /\ central' \in Remnants(central)
    /\ UNCHANGED <<source, lastHash, remote, current, tar, anchor, history, edits, restarts>>

\* A bug: the hash is noted down whether or not the tree arrived.
RenameNewAlwaysNoted ==
    /\ pc = "rename" /\ pc' = "writeback"
    /\ lastHash' = remote
    /\ \/ Ok /\ central' = tar /\ pulled' = tar /\ touched' = {}
       \/ Fault /\ UNCHANGED <<central, history>>
    /\ UNCHANGED <<source, remote, current, tar, anchor, edits, restarts>>

\* The staging tree takes its place; only now the hash is cached.
RenameNew ==
    /\ pc = "rename" /\ pc' = "writeback"
    /\ \/ /\ Ok /\ central' = tar /\ lastHash' = remote
          /\ pulled' = tar /\ touched' = {}
       \/ Fault /\ UNCHANGED <<central, lastHash, history>>
    /\ UNCHANGED <<source, remote, current, tar, anchor, edits, restarts>>

-----------------------------------------------------------------------------
(* Write-back *)

\* maybe_push up to the comparison of the hashes.
Compare ==
    /\ pc = "writeback"
    /\ IF ~ Push \/ central \in {None, anchor}
       THEN pc' = "idle" /\ UNCHANGED current
       ELSE pc' = "pack" /\ current' = central
    /\ UNCHANGED <<trees, lastHash, remote, tar, anchor, history, counters>>

\* _tar_tree reads the copy once more.
Pack ==
    /\ pc = "pack" /\ pc' = "post"
    /\ tar' = central
    /\ UNCHANGED <<trees, lastHash, remote, current, anchor, history, counters>>

\* The tarball is extracted over the tree: files that it lacks stay.
Extract(tree, t, fs) ==
    [f \in File |-> IF f \in fs /\ t[f] # Absent THEN t[f] ELSE tree[f]]

\* A bug: the status of the answer is not looked at.
PostUnchecked ==
    /\ pc = "post" /\ pc' = "save"
    /\ \/ Ok /\ source' = Extract(source, tar, File)
       \/ Fault /\ \E fs \in SUBSET File : source' = Extract(source, tar, fs)
    /\ UNCHANGED <<central, lastHash, remote, current, tar, anchor, history, edits, restarts>>

\* A bug: the source's tree is removed before the tarball is extracted.
PostReplaces ==
    /\ pc = "post"
    /\ \/ Ok /\ source' = tar /\ pc' = "save"
       \/ Fault /\ source' = None /\ pc' = "idle"
    /\ UNCHANGED <<central, lastHash, remote, current, tar, anchor, history, edits, restarts>>

\* The POST.  A failed one may have reached the source, in part or entirely.
Post ==
    /\ pc = "post"
    /\ \/ Ok /\ source' = Extract(source, tar, File) /\ pc' = "save"
       \/ Fault /\ pc' = "idle" /\ \E fs \in SUBSET File : source' = Extract(source, tar, fs)
    /\ UNCHANGED <<central, lastHash, remote, current, tar, anchor, history, edits, restarts>>

\* A bug: the anchor of a successful push is not saved.
SaveAnchorForgets ==
    /\ pc = "save" /\ pc' = "idle"
    /\ UNCHANGED <<trees, lastHash, remote, current, tar, anchor, history, counters>>

\* _save_state, whose failure is a warning.
SaveAnchor ==
    /\ pc = "save" /\ pc' = "idle"
    /\ \/ Ok /\ anchor' = current
       \/ Fault /\ anchor' \in {anchor, None}
    /\ UNCHANGED <<trees, lastHash, remote, current, tar, history, edits, restarts>>

-----------------------------------------------------------------------------

\* The hub stops or is killed and starts again.  A state file cut short does
\* not load.
Restart ==
    /\ restarts < MaxRestarts /\ restarts' = restarts + 1
    /\ pc' = "idle" /\ lastHash' = None /\ remote' = None /\ current' = None
    /\ tar' = None
    /\ anchor' \in {anchor} \cup (IF pc = "save" THEN {None, current} ELSE {})
    /\ UNCHANGED <<trees, history, edits, faults>>

Edit == \E f \in File : EditSource(f) \/ EditCentral(f)

Cycle ==
    \/ Health \/ Snapshot \/ RemoveOld \/ RenameNew
    \/ Compare \/ Pack \/ Post \/ SaveAnchor

Next == Edit \/ Cycle \/ Restart

Spec == Init /\ [][Next]_vars

\* The hub's loop goes on; nobody has to edit anything.
FairSpec == Spec /\ WF_vars(Cycle)
=============================================================================
