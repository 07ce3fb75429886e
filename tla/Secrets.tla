------------------------------- MODULE Secrets -------------------------------
(***************************************************************************)
(* The secrets of one stack: what Engine.install does to Vault's key-value *)
(* store before its first step, and what a full uninstall does.  A run     *)
(* seeds the key pair all stacks share (vault_client.py), uploads what the *)
(* operator filled into .stackwiz.secrets.env (engine.py, secrets_env.py), *)
(* then reads, moves or generates every secret of the manifest             *)
(* (secrets.py).  Each call to Vault is a step, and a run may end between  *)
(* any two.  Values are numbered as they are made up; a path that holds    *)
(* nothing, an empty line of the file and an empty value are None.         *)
(***************************************************************************)
EXTENDS Naturals, FiniteSets

CONSTANTS
    Secret,     \* the secrets of the manifest, by what they are for
    Generated,  \* those with generate: true; the operator supplies the others
    Optional,   \* the supplied ones that may be left empty
    Immutable,  \* those with immutable: true
    None,
    MaxValues, MaxRuns, MaxFaults   \* exploration bounds

ASSUME SecretsAssumption ==
    /\ Generated \subseteq Secret /\ Immutable \subseteq Secret
    /\ Optional \subseteq Secret \ Generated
    /\ None \notin Nat /\ None \notin Secret
    /\ {MaxValues, MaxRuns, MaxFaults} \subseteq Nat

Supplied == Secret \ Generated
Seeder == {"own", "other"}      \* this installer, and one of another stack

VARIABLES
    \* Vault
    now,        \* secret -> the value at its path
    old,        \* secret -> the value at the path of its previous id
    private, public,    \* the shared key pair
    \* the repository on disk
    renamed,    \* the secrets whose id the manifest has changed
    file,       \* secret -> the operator's line for it
    stray,      \* secret -> a line for its previous id
    \* the run
    pc,         \* idle, seed, upload, next, migrate, drop, read, generate, sweep
    todo,       \* the secrets still to upload, materialize or delete
    uploaded,   \* the secrets uploaded by this run
    cur,        \* the secret being materialized
    result,     \* secret -> the value for this run's scripts
    seeding,    \* seeder -> no, key, pub: the key it is about to put
    pair,       \* seeder -> the pair it has made
    \* history
    given,      \* secret -> what scripts were last given, and still use
    wanted,     \* secret -> the operator's last word on it
    misread,    \* the secrets whose value a failed read hid from a run, since
                \* scripts were last given their values
    misnamed,   \* the secrets whose last line had become one for a previous id
    clash,      \* whether seeders have been at work at once, or one because a
                \* failed read hid the pair
    values, runs, faults

vault == <<now, old, private, public>>
disk == <<renamed, file, stray>>
work == <<todo, uploaded, cur, result>>
seeds == <<seeding, pair, clash>>
history == <<given, wanted, misread, misnamed>>
vars == <<vault, disk, pc, work, seeds, history, values, runs, faults>>

Value == 1 .. MaxValues
MaybeValue == Value \cup {None}

TypeOK ==
    /\ {now, old, file, stray, result, given, wanted} \subseteq [Secret -> MaybeValue]
    /\ {private, public} \subseteq MaybeValue
    /\ renamed \subseteq Secret /\ todo \subseteq Secret /\ uploaded \subseteq Supplied
    /\ pc \in {"idle", "seed", "upload", "next", "migrate", "drop", "read",
               "generate", "sweep"}
    /\ cur \in IF pc \in {"migrate", "drop", "read", "generate"} THEN Secret ELSE {None}
    /\ seeding \in [Seeder -> {"no", "key", "pub"}]
    /\ pair \in [Seeder -> MaybeValue]
    /\ misread \subseteq Secret /\ misnamed \subseteq Secret /\ clash \in BOOLEAN
    /\ values \in 0 .. MaxValues /\ runs \in 0 .. MaxRuns /\ faults \in 0 .. MaxFaults

Nothing == [s \in Secret |-> None]

Init ==
    /\ now = Nothing /\ old = Nothing /\ private = None /\ public = None
    /\ renamed = {} /\ file = Nothing /\ stray = Nothing
    /\ pc = "idle" /\ todo = {} /\ uploaded = {} /\ cur = None /\ result = Nothing
    /\ seeding = [i \in Seeder |-> "no"] /\ pair = [i \in Seeder |-> None]
    /\ given = Nothing /\ wanted = Nothing
    /\ misread = {} /\ misnamed = {} /\ clash = FALSE
    /\ values = 0 /\ runs = 0 /\ faults = 0

Fault == faults < MaxFaults /\ faults' = faults + 1

\* A value nobody has seen before.
Fresh == values + 1
MakeUp == values < MaxValues /\ values' = Fresh

\* kv_get returns None for an absent path, and for any error of Vault.
Seen(v) == {v, None}

\* A read of the current secret that hid a value is a failed call.
ReadOutcome(hid) ==
    IF hid
    THEN Fault /\ misread' = misread \cup {cur}
    ELSE UNCHANGED <<faults, misread>>

\* The run is over, or over with this part.
Finish ==
    /\ pc' = "idle" /\ todo' = {} /\ uploaded' = {} /\ cur' = None
    /\ result' = Nothing

-----------------------------------------------------------------------------
(* ensure_shared_kb_sync_keypair, of this installer and of another *)

\* How the seeding of a pair goes on for this run: with the upload.
SeedStep(i, phase) ==
    /\ seeding' = [seeding EXCEPT ![i] = phase]
    /\ IF i = "own" /\ phase = "no"
       THEN pc' = "upload" /\ todo' = {s \in Supplied : file[s] # None}
       ELSE UNCHANGED <<pc, todo>>

\* Anything but an absent public key ends it.
SeedCheck(i) ==
    /\ seeding[i] = "no" /\ (i = "own" => pc = "seed")
    /\ \E seen \in Seen(public) :
          /\ SeedStep(i, IF seen = None THEN "key" ELSE "no")
          /\ IF seen = public THEN UNCHANGED faults ELSE Fault
          /\ clash' = (clash \/ seen # public
                        \/ (seen = None /\ \E j \in Seeder \ {i} : seeding[j] # "no"))
    /\ UNCHANGED <<vault, disk, uploaded, cur, result, pair, history, values, runs>>

\* A bug: a private key that is there already is left.
SeedKeyOnce(i) ==
    /\ seeding[i] = "key" /\ MakeUp
    /\ private' = IF private = None THEN Fresh ELSE private
    /\ pair' = [pair EXCEPT ![i] = Fresh]
    /\ SeedStep(i, "pub")
    /\ UNCHANGED <<now, old, public, disk, uploaded, cur, result, clash,
                   history, runs, faults>>

\* A new pair: the private key first.
SeedKey(i) ==
    /\ seeding[i] = "key" /\ MakeUp
    /\ private' = Fresh /\ pair' = [pair EXCEPT ![i] = Fresh]
    /\ SeedStep(i, "pub")
    /\ UNCHANGED <<now, old, public, disk, uploaded, cur, result, clash,
                   history, runs, faults>>

SeedPub(i) ==
    /\ seeding[i] = "pub"
    /\ public' = pair[i]
    /\ SeedStep(i, "no")
    /\ UNCHANGED <<now, old, private, disk, uploaded, cur, result, pair, clash,
                   history, values, runs, faults>>

\* A call raises, which costs a warning; or the other installer dies.
SeedFails(i) ==
    /\ seeding[i] # "no" /\ Fault
    /\ SeedStep(i, "no")
    /\ UNCHANGED <<vault, disk, uploaded, cur, result, pair, clash, history,
                   values, runs>>

-----------------------------------------------------------------------------
(* Starting a run, _upload_user_secrets *)

Start ==
    /\ pc = "idle" /\ runs < MaxRuns /\ runs' = runs + 1
    /\ pc' = "seed"
    /\ UNCHANGED <<vault, disk, work, seeds, history, values, faults>>

\* A filled line is put into Vault, or that fails with a warning.
Upload(s) ==
    /\ pc = "upload" /\ s \in todo
    /\ todo' = todo \ {s}
    /\ \/ /\ now' = [now EXCEPT ![s] = file[s]]
          /\ uploaded' = uploaded \cup {s}
          /\ UNCHANGED faults
       \/ Fault /\ UNCHANGED <<now, uploaded>>
    /\ UNCHANGED <<old, private, public, disk, pc, cur, result, seeds, history,
                   values, runs>>

\* A bug: every line is taken out of the file.
StripAll ==
    /\ pc = "upload" /\ todo = {}
    /\ file' = IF uploaded # {} THEN Nothing ELSE file
    /\ stray' = IF uploaded # {} THEN Nothing ELSE stray
    /\ pc' = "next" /\ todo' = Secret /\ uploaded' = {}
    /\ UNCHANGED <<vault, renamed, cur, result, seeds, history, values, runs, faults>>

\* A bug: nothing is taken out of the file.
StripNone ==
    /\ pc = "upload" /\ todo = {}
    /\ pc' = "next" /\ todo' = Secret /\ uploaded' = {}
    /\ UNCHANGED <<vault, disk, cur, result, seeds, history, values, runs, faults>>

\* rewrite_after_upload, if anything was: the file keeps the lines of the
\* secrets that were not uploaded, and no line of any other key.
Strip ==
    /\ pc = "upload" /\ todo = {}
    /\ file' = [s \in Secret |-> IF s \in uploaded THEN None ELSE file[s]]
    /\ stray' = IF uploaded # {} THEN Nothing ELSE stray
    /\ pc' = "next" /\ todo' = Secret /\ uploaded' = {}
    /\ UNCHANGED <<vault, renamed, cur, result, seeds, history, values, runs, faults>>

\* A kill between the truncation of the file and the write of what is left to
\* supply.  When nothing is left the file is deleted, in one piece.
StripTorn ==
    /\ pc = "upload" /\ todo = {} /\ uploaded \notin {{}, Supplied}
    /\ Fault
    /\ file' = Nothing /\ stray' = Nothing
    /\ Finish
    /\ UNCHANGED <<vault, renamed, seeds, history, values, runs>>

-----------------------------------------------------------------------------
(* materialize_secrets.  Nothing depends on the order of the manifest. *)

Pick(s) ==
    /\ pc = "next" /\ s \in todo
    /\ todo' = todo \ {s} /\ cur' = s
    /\ pc' = IF s \in renamed THEN "migrate" ELSE "read"
    /\ UNCHANGED <<vault, disk, uploaded, result, seeds, history, values, runs, faults>>

\* A bug: a renamed secret starts afresh.
MigrateNever ==
    /\ pc = "migrate" /\ pc' = "read"
    /\ UNCHANGED <<vault, disk, work, seeds, history, values, runs, faults>>

\* A bug: a secret that was moved counts as done, without a value for the run.
MigrateOnly ==
    /\ pc = "migrate"
    /\ IF now[cur] = None /\ old[cur] # None
       THEN now' = [now EXCEPT ![cur] = old[cur]] /\ pc' = "next"
       ELSE UNCHANGED now /\ pc' = "read"
    /\ UNCHANGED <<old, private, public, disk, work, seeds, history, values, runs, faults>>

\* _migrate_previous_ids: nothing to do if there is a value in place, else
\* the value at the old path, which is read only then, is put in place.
Migrate ==
    /\ pc = "migrate"
    /\ \E value \in Seen(now[cur]), old_value \in Seen(old[cur]) :
          /\ value # None => old_value = old[cur]
          /\ ReadOutcome(value # now[cur] \/ old_value # old[cur])
          /\ IF value = None /\ old_value # None
             THEN now' = [now EXCEPT ![cur] = old_value] /\ pc' = "drop"
             ELSE UNCHANGED now /\ pc' = "read"
    /\ UNCHANGED <<old, private, public, disk, work, seeds, given, wanted,
                   misnamed, values, runs>>

\* kv_delete_metadata says nothing when Vault refuses.
Drop ==
    /\ pc = "drop" /\ pc' = "read"
    /\ \/ old' = [old EXCEPT ![cur] = None] /\ UNCHANGED faults
       \/ Fault /\ UNCHANGED old
    /\ UNCHANGED <<now, private, public, disk, work, seeds, history, values, runs>>

\* A value is taken as it is; without one a secret is generated, left empty,
\* or missing, which ends the run.
Read ==
    /\ pc = "read"
    /\ \E value \in Seen(now[cur]) :
          /\ ReadOutcome(value # now[cur])
          /\ \/ /\ value # None \/ cur \in Optional
                /\ result' = [result EXCEPT ![cur] = value]
                /\ pc' = "next" /\ cur' = None /\ UNCHANGED <<todo, uploaded>>
             \/ /\ value = None /\ cur \in Generated
                /\ pc' = "generate" /\ UNCHANGED work
             \/ /\ value = None /\ cur \notin Generated \cup Optional
                /\ Finish
    /\ UNCHANGED <<vault, disk, seeds, given, wanted, misnamed, values, runs>>

Generate ==
    /\ pc = "generate" /\ MakeUp
    /\ now' = [now EXCEPT ![cur] = Fresh]
    /\ result' = [result EXCEPT ![cur] = Fresh]
    /\ pc' = "next" /\ cur' = None
    /\ UNCHANGED <<old, private, public, disk, todo, uploaded, seeds, history,
                   runs, faults>>

\* The steps of the run pass the values to their scripts.
Give ==
    /\ pc = "next" /\ todo = {}
    /\ given' = [s \in Secret |-> IF result[s] # None THEN result[s] ELSE given[s]]
    /\ misread' = {}
    /\ Finish
    /\ UNCHANGED <<vault, disk, seeds, wanted, misnamed, values, runs, faults>>

\* The process dies, or a call raises where nobody expects it.
Crash ==
    /\ pc # "idle" /\ Fault
    /\ Finish
    /\ seeding' = [seeding EXCEPT !["own"] = "no"]
    /\ UNCHANGED <<vault, disk, pair, clash, history, values, runs>>

-----------------------------------------------------------------------------
(* A full uninstall: delete_secrets, when nothing uses them any more *)

BeginSweep ==
    /\ pc = "idle" /\ runs < MaxRuns /\ runs' = runs + 1
    /\ pc' = "sweep" /\ todo' = Secret \ Immutable
    /\ given' = [s \in Secret |-> IF s \in Immutable THEN given[s] ELSE None]
    /\ wanted' = [s \in Secret |->
                     IF s \in Immutable \/ wanted[s] \in {file[s], stray[s]}
                     THEN wanted[s] ELSE None]
    /\ UNCHANGED <<vault, disk, uploaded, cur, result, seeds, misread, misnamed,
                   values, faults>>

\* Vault may refuse here as well.
Sweep(s) ==
    /\ pc = "sweep" /\ s \in todo
    /\ todo' = todo \ {s}
    /\ \/ now' = [now EXCEPT ![s] = None] /\ UNCHANGED faults
       \/ Fault /\ UNCHANGED now
    /\ UNCHANGED <<old, private, public, disk, pc, uploaded, cur, result, seeds,
                   history, values, runs>>

EndSweep ==
    /\ pc = "sweep" /\ todo = {}
    /\ Finish
    /\ UNCHANGED <<vault, disk, seeds, history, values, runs, faults>>

-----------------------------------------------------------------------------
(* The operator and the authors of the stack, between runs *)

Fill(s) ==
    /\ pc = "idle" /\ s \in Supplied /\ MakeUp
    /\ file' = [file EXCEPT ![s] = Fresh]
    /\ wanted' = [wanted EXCEPT ![s] = Fresh] /\ misnamed' = misnamed \ {s}
    /\ UNCHANGED <<vault, renamed, stray, pc, work, seeds, given, misread, runs, faults>>

\* A manifest that calls the secret otherwise and lists the id it had in
\* previous_ids.  No run reads a line for that id again.
Rename(s) ==
    /\ pc = "idle" /\ s \notin renamed
    /\ renamed' = renamed \cup {s}
    /\ old' = [old EXCEPT ![s] = now[s]] /\ now' = [now EXCEPT ![s] = None]
    /\ stray' = [stray EXCEPT ![s] = file[s]] /\ file' = [file EXCEPT ![s] = None]
    /\ misnamed' = IF file[s] = None THEN misnamed ELSE misnamed \cup {s}
    /\ UNCHANGED <<private, public, pc, work, seeds, given, wanted, misread,
                   values, runs, faults>>

-----------------------------------------------------------------------------

Seed(i) == SeedCheck(i) \/ SeedKey(i) \/ SeedPub(i) \/ SeedFails(i)

Run ==
    \/ Start \/ Strip \/ StripTorn
    \/ \E s \in Secret : Upload(s) \/ Pick(s)
    \/ Migrate \/ Drop \/ Read \/ Generate \/ Give
    \/ Crash

Uninstall == BeginSweep \/ (\E s \in Secret : Sweep(s)) \/ EndSweep

Next ==
    \/ Run \/ Uninstall
    \/ \E i \in Seeder : Seed(i)
    \/ \E s \in Secret : Fill(s) \/ Rename(s)

Spec == Init /\ [][Next]_vars
=============================================================================
