------------------------------ MODULE CertBackup ------------------------------
(***************************************************************************)
(* backup-cert and restore-cert (cert_backup.py) on one host, whose        *)
(* certificates are issued and renewed by others, with crashes and failing *)
(* writes at any point.                                                    *)
(*                                                                         *)
(* A tree is a function from entries to contents.  An entry is a place and *)
(* a file: <<>> is the directory itself, <<s, t>> the directory            *)
(* .before-restore-t in .before-restore-s, which only bind mounts have.    *)
(* Stamps are numbered in the order of the restores.  Links, and the       *)
(* directories below a path, are not told apart from files.                *)
(***************************************************************************)
EXTENDS Naturals, Sequences

CONSTANTS
    Path,       \* CERT_PATHS
    Mount,      \* those that are bind mounts in the container of the tool
    Tls,        \* /etc/stackwiz/tls
    File,       \* the files of a path
    Keys,       \* those called *.key
    MaxRuns, MaxIssues, MaxFaults   \* exploration bounds

ASSUME CertAssumption ==
    /\ Mount \subseteq Path /\ Tls \in Path \ Mount /\ Keys \subseteq File
    /\ MaxRuns \in Nat /\ MaxIssues \in Nat /\ MaxFaults \in Nat

VARIABLES
    there,      \* the paths that exist
    tree,       \* what is in them
    siblings,   \* path -> stamp -> the tree at <path>.before-restore-<stamp>
    tar,        \* the last backup that was completed: path -> tree
    work,       \* what a backup has copied so far
    pc,         \* where the tool is
    todo, cur, left, failed,    \* its paths, and the entries of the current one
    force, stamp,               \* of the last restore
    before, restored,           \* the trees it found, and the paths it restored
    runs, issues, faults

disk == <<there, tree, siblings>>
tool == <<todo, cur, left, failed>>
run == <<force, stamp, before, restored>>
bounds == <<runs, issues, faults>>
vars == <<disk, tar, work, pc, tool, run, bounds>>

Entry == Seq(Nat) \X File
\* The version of what a file holds, 0 if it was cut short, and whether others
\* may read it.
Content == [of : Nat, open : BOOLEAN]
Torn == [of |-> 0, open |-> TRUE]
Empty == [e \in {} |-> Torn]

\* t with x holding c.
Put(t, x, c) == [y \in DOMAIN t \cup {x} |-> IF y = x THEN c ELSE t[y]]

IsTree(t) ==
    /\ t = [e \in DOMAIN t |-> t[e]] /\ DOMAIN t \subseteq Entry
    /\ \A e \in DOMAIN t : t[e] \in Content

IsTrees(ts) == ts = [x \in DOMAIN ts |-> ts[x]] /\ \A x \in DOMAIN ts : IsTree(ts[x])

TypeOK ==
    /\ there \subseteq Path
    /\ DOMAIN tree = Path /\ IsTrees(tree) /\ DOMAIN before = Path /\ IsTrees(before)
    /\ DOMAIN siblings = Path /\ siblings = [p \in Path |-> siblings[p]]
    /\ \A p \in Path : IsTrees(siblings[p])
    /\ DOMAIN tar \subseteq Path /\ IsTrees(tar)
    /\ DOMAIN work \subseteq Path /\ IsTrees(work)
    /\ pc \in {"idle", "backup", "restore", "move", "mkdir", "lay", "done"}
    /\ todo \subseteq Path /\ cur \in Path /\ left \subseteq Entry
    /\ failed \in BOOLEAN /\ force \in BOOLEAN /\ restored \subseteq Path
    /\ stamp \in Nat /\ runs \in Nat /\ issues \in Nat /\ faults \in Nat
    /\ pc = "backup" /\ left # {} => cur \in DOMAIN work /\ left \subseteq DOMAIN tree[cur]
    /\ pc \in {"move", "mkdir", "lay"} => cur \in DOMAIN tar
    /\ pc = "lay" => left \subseteq DOMAIN tar[cur]

Idle == pc \in {"idle", "done"}

-----------------------------------------------------------------------------
(* backup-cert *)

BeginBackup ==
    /\ Idle /\ there # {} /\ runs < MaxRuns
    /\ pc' = "backup" /\ todo' = there /\ left' = {} /\ work' = Empty /\ runs' = runs + 1
    /\ UNCHANGED <<disk, tar, cur, failed, run, issues, faults>>

OpenPath ==
    /\ pc = "backup" /\ left = {}
    /\ \E p \in todo :
          /\ cur' = p /\ todo' = todo \ {p} /\ left' = DOMAIN tree[p]
          /\ work' = Put(work, p, Empty)
    /\ UNCHANGED <<disk, tar, pc, failed, run, bounds>>

CopyEntry ==
    /\ pc = "backup"
    /\ \E e \in left :
          /\ work' = [work EXCEPT ![cur] = Put(@, e, tree[cur][e])]
          /\ left' = left \ {e}
    /\ UNCHANGED <<disk, tar, pc, todo, cur, failed, run, bounds>>

\* A tarball that is cut short is none: restore-cert fails while unpacking it.
WriteTar ==
    /\ pc = "backup" /\ left = {} /\ todo = {}
    /\ tar' = work /\ pc' = "idle"
    /\ UNCHANGED <<disk, work, tool, run, bounds>>

-----------------------------------------------------------------------------
(* restore-cert *)

Existing(p) == p \in there /\ DOMAIN tree[p] # {}

BeginRestore ==
    /\ Idle /\ DOMAIN tar # {} /\ runs < MaxRuns
    /\ force' \in BOOLEAN /\ stamp' = stamp + 1
    /\ before' = tree /\ restored' = {}
    /\ pc' = "restore" /\ todo' = Path /\ runs' = runs + 1
    /\ UNCHANGED <<disk, tar, work, cur, left, failed, issues, faults>>

\* The next path, in any order: each is treated by itself.
Take(p) == pc = "restore" /\ p \in todo /\ todo' = todo \ {p}

\* Nothing of it was backed up, or it is there and must not be replaced.
Skip ==
    /\ \E p \in todo : /\ Take(p)
                       /\ p \notin DOMAIN tar \/ (Existing(p) /\ ~ force)
    /\ UNCHANGED <<disk, tar, work, pc, cur, left, failed, run, bounds>>

\* A bug: the tarball is not asked.
FreshUnchecked ==
    /\ \E p \in todo : Take(p) /\ ~ Existing(p) /\ cur' = p
    /\ pc' = "mkdir"
    /\ UNCHANGED <<disk, tar, work, left, failed, run, bounds>>

Fresh ==
    /\ \E p \in todo \cap DOMAIN tar : Take(p) /\ ~ Existing(p) /\ cur' = p
    /\ pc' = "mkdir"
    /\ UNCHANGED <<disk, tar, work, left, failed, run, bounds>>

\* A bug: the name of the sibling is always the same.
RenameAsideSameName ==
    /\ \E p \in (todo \cap DOMAIN tar) \ Mount :
          /\ Take(p) /\ Existing(p) /\ force /\ cur' = p
          /\ siblings' = [siblings EXCEPT ![p] = Put(@, 0, tree[p])]
          /\ tree' = [tree EXCEPT ![p] = Empty] /\ there' = there \ {p}
    /\ pc' = "mkdir"
    /\ UNCHANGED <<tar, work, left, failed, run, bounds>>

\* _move_aside where a rename is possible.
RenameAside ==
    /\ \E p \in (todo \cap DOMAIN tar) \ Mount :
          /\ Take(p) /\ Existing(p) /\ force /\ cur' = p
          /\ siblings' = [siblings EXCEPT ![p] = Put(@, stamp, tree[p])]
          /\ tree' = [tree EXCEPT ![p] = Empty] /\ there' = there \ {p}
    /\ pc' = "mkdir"
    /\ UNCHANGED <<tar, work, left, failed, run, bounds>>

\* _move_aside for a bind mount: what is in it goes, child by child, into a
\* new directory in it.
BeginMove ==
    /\ \E p \in todo \cap DOMAIN tar \cap Mount :
          Take(p) /\ Existing(p) /\ force /\ cur' = p
    /\ pc' = "move"
    /\ UNCHANGED <<disk, tar, work, left, failed, run, bounds>>

Aside(e) == e[1] # <<>> /\ Head(e[1]) = stamp
Into(e) == << <<stamp>> \o e[1], e[2]>>
OutOf(e) == <<Tail(e[1]), e[2]>>

\* The entries of the child that e is or is in.
Child(t, e) ==
    {d \in DOMAIN t : d = e \/ (d[1] # <<>> /\ e[1] # <<>> /\ Head(d[1]) = Head(e[1]))}

Moved(t, child) ==
    [e \in (DOMAIN t \ child) \cup {Into(d) : d \in child} |->
        IF e \in DOMAIN t \ child THEN t[e] ELSE t[OutOf(e)]]

MoveChild ==
    /\ pc = "move"
    /\ \E e \in DOMAIN tree[cur] :
          /\ ~ Aside(e)
          /\ tree' = [tree EXCEPT ![cur] = Moved(@, Child(@, e))]
    /\ UNCHANGED <<there, siblings, tar, work, pc, tool, run, bounds>>

\* A bug: only files are moved.
MovedAllFiles ==
    /\ pc = "move" /\ \A e \in DOMAIN tree[cur] : e[1] # <<>>
    /\ pc' = "mkdir"
    /\ UNCHANGED <<disk, tar, work, tool, run, bounds>>

MovedAll ==
    /\ pc = "move" /\ \A e \in DOMAIN tree[cur] : Aside(e)
    /\ pc' = "mkdir"
    /\ UNCHANGED <<disk, tar, work, tool, run, bounds>>

MakeDir ==
    /\ pc = "mkdir" /\ pc' = "lay"
    /\ there' = there \cup {cur} /\ left' = DOMAIN tar[cur] /\ failed' = FALSE
    /\ UNCHANGED <<tree, siblings, tar, work, todo, cur, run, bounds>>

\* copytree, entry by entry.
LayEntry ==
    /\ pc = "lay"
    /\ \E e \in left :
          /\ tree' = [tree EXCEPT ![cur] = Put(@, e, tar[cur][e])]
          /\ left' = left \ {e}
    /\ UNCHANGED <<there, siblings, tar, work, pc, todo, cur, failed, run, bounds>>

Cut(e) == tree' = [tree EXCEPT ![cur] = Put(@, e, Torn)]

\* A write fails; copytree goes on and raises at the end.
LayFails ==
    /\ pc = "lay" /\ faults < MaxFaults /\ faults' = faults + 1
    /\ \E e \in left : (UNCHANGED tree \/ Cut(e)) /\ left' = left \ {e}
    /\ failed' = TRUE
    /\ UNCHANGED <<there, siblings, tar, work, pc, todo, cur, run, runs, issues>>

\* A bug: failed writes are passed over.
LaidDownAnyway ==
    /\ pc = "lay" /\ left = {}
    /\ pc' = "restore" /\ restored' = restored \cup {cur}
    /\ UNCHANGED <<disk, tar, work, tool, force, stamp, before, bounds>>

LaidDown ==
    /\ pc = "lay" /\ left = {}
    /\ IF failed THEN pc' = "idle" /\ UNCHANGED restored
       ELSE pc' = "restore" /\ restored' = restored \cup {cur}
    /\ UNCHANGED <<disk, tar, work, tool, force, stamp, before, bounds>>

\* _reassert_private_key_perms: every key below the TLS path is private again,
\* and every certificate is not.
Reassert ==
    /\ pc = "restore" /\ todo = {} /\ pc' = "done"
    /\ tree' = [tree EXCEPT ![Tls] =
                   [e \in DOMAIN @ |-> [@[e] EXCEPT !.open = e[2] \notin Keys]]]
    /\ UNCHANGED <<there, siblings, tar, work, tool, run, bounds>>

-----------------------------------------------------------------------------
(* What else happens *)

\* The tool dies, perhaps in the middle of a file.
Crash ==
    /\ ~ Idle /\ faults < MaxFaults /\ faults' = faults + 1 /\ pc' = "idle"
    /\ UNCHANGED tree \/ (pc = "lay" /\ \E e \in left : Cut(e))
    /\ UNCHANGED <<there, siblings, tar, work, tool, run, runs, issues>>

\* The files of a path are issued or renewed, also while a backup is made.
Issue ==
    /\ Idle \/ pc = "backup"
    /\ issues < MaxIssues /\ issues' = issues + 1
    /\ \E p \in Path :
          /\ there' = there \cup {p}
          /\ tree' = [tree EXCEPT ![p] =
                         [e \in DOMAIN @ \cup ({<<>>} \X File) |->
                             IF e[1] = <<>>
                             THEN [of |-> issues + 1, open |-> e[2] \notin Keys]
                             ELSE @[e]]]
    /\ pc' = IF pc = "done" THEN "idle" ELSE pc
    /\ UNCHANGED <<siblings, tar, work, tool, run, runs, faults>>

\* The tarball passes through something that does not keep modes.
Loosen ==
    /\ Idle /\ DOMAIN tar # {}
    /\ tar' = [p \in DOMAIN tar |-> [e \in DOMAIN tar[p] |-> [tar[p][e] EXCEPT !.open = TRUE]]]
    /\ UNCHANGED <<disk, work, pc, tool, run, bounds>>

-----------------------------------------------------------------------------
Init ==
    /\ there \in {s \in SUBSET Path : Mount \subseteq s} /\ tree = [p \in Path |-> Empty]
    /\ siblings = [p \in Path |-> Empty]
    /\ tar = Empty /\ work = Empty
    /\ pc = "idle" /\ todo = {} /\ cur = Tls /\ left = {} /\ failed = FALSE
    /\ force = FALSE /\ stamp = 0 /\ before = tree /\ restored = {}
    /\ runs = 0 /\ issues = 0 /\ faults = 0

Next ==
    \/ BeginBackup \/ OpenPath \/ CopyEntry \/ WriteTar
    \/ BeginRestore \/ Skip \/ Fresh \/ RenameAside \/ BeginMove \/ MoveChild \/ MovedAll
    \/ MakeDir \/ LayEntry \/ LayFails \/ LaidDown \/ Reassert
    \/ Crash \/ Issue \/ Loosen

Spec == Init /\ [][Next]_vars

=============================================================================
