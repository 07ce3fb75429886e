------------------------------ MODULE Installer ------------------------------
(***************************************************************************)
(* One stack's installer: Engine.install and Engine.uninstall of           *)
(* engine.py, the step pipeline of pipeline.py, the state file and the     *)
(* planner of state.py, and the backends (Consul, Vault) the steps touch.  *)
(*                                                                         *)
(* A run reads the state file, plans one action per component and walks    *)
(* the components in topological order (uninstall: in reverse), each       *)
(* through the phases prepare, script, revoke, adopt, publish, persist.    *)
(* The process may be killed between any two phases.  Runs of one stack    *)
(* are sequential here.                                                    *)
(***************************************************************************)
EXTENDS Naturals, Sequences, FiniteSets

CONSTANTS
    Order,          \* the manifest's components in topological order
    Depends,        \* component -> the components it declares in depends:
    Configs,        \* the effective configurations an operator may run with
    MaxVersion,     \* a component's manifest version is in 1..MaxVersion
    Repeatable,     \* the components declared repeatable: true
    Uninstallable,  \* the components that ship an uninstall script
    Service,        \* component -> its Consul service name, or None
    Needs,          \* component -> the names it discovers with required: true
    Runtime,        \* the components with a runtime Vault token (vault_runtime)
    Foreign,        \* service names that other nodes have in the catalog
    Consul, Vault,  \* the ids "consul" and "vault"
    External,       \* the backends some other stack runs, up from the start
    None,           \* no value: not installed, no configuration
    Unknown,        \* a host on which a script started and has not succeeded
    TornWrites,     \* whether a crash may truncate the state file
    MaxRuns, MaxFaults, MaxScriptFailures   \* exploration bounds

Comp == {Order[i] : i \in DOMAIN Order}
Backends == {Consul, Vault}
Action == {"install", "upgrade", "reconfigure", "refresh", "uninstall", "noop"}
Phase == {"idle", "step", "script", "exited", "failed",
          "adopt", "publish", "persist"}

\* What installed.yaml records of a component and what a successful script
\* leaves on the host.  component_config_hash digests the version, the
\* version's env and the whole configuration, so the pair stands for the hash.
Entry == [version : 1 .. MaxVersion, cfg : Configs]

ASSUME OrderAssumption ==
    /\ Order \in Seq(Comp) /\ Order # << >>
    /\ \A i, j \in DOMAIN Order : Order[i] = Order[j] => i = j
    /\ Depends \in [Comp -> SUBSET Comp]
    /\ \A i, j \in DOMAIN Order : Order[j] \in Depends[Order[i]] => j < i

ASSUME ConstantAssumption ==
    /\ MaxVersion \in Nat \ {0}
    /\ {Repeatable, Uninstallable, Runtime} \subseteq SUBSET Comp
    /\ DOMAIN Service = Comp /\ DOMAIN Needs = Comp
    /\ External \subseteq Backends \ Comp /\ Consul # Vault
    /\ None \notin Entry /\ None \notin Configs /\ Unknown \notin Entry
    /\ None # Unknown
    /\ TornWrites \in BOOLEAN
    /\ {MaxRuns, MaxFaults, MaxScriptFailures} \subseteq Nat

VARIABLES
    \* the state directory
    installed,  \* installed.yaml, and the running engine's copy of it
    cfgFile,    \* config.yaml
    \* the host and the stack's repository
    version,    \* the versions in the manifest on disk
    host,       \* the entry last applied by a script that exited 0, or Unknown
    live,       \* components whose data an operator expects to keep
    up,         \* the backends that answer
    \* Consul and Vault
    catalog,    \* the components whose service this node has registered
    policies,   \* <<component, kind>> of the per-component Vault policies
    orphans,    \* components with a valid install token nobody will revoke
    \* the engine process
    pc,         \* the phase of the current step, or idle: no process
    mode,       \* installing or uninstalling
    cfg,        \* the configuration of this run
    plan,       \* component -> its action
    pos,        \* the position in the order
    client,     \* the backends the run has a client for
    held,       \* the install token of this step, while it is valid
    \* exploration counters
    runs, faults, scriptFailures

disk == <<installed, cfgFile>>
world == <<version, host, live, up>>
backend == <<catalog, policies, orphans>>
engine == <<pc, mode, cfg, plan, pos, client, held>>
counters == <<runs, faults, scriptFailures>>
vars == <<disk, world, backend, engine, counters>>

TypeOK ==
    /\ installed \in [Comp -> Entry \cup {None}]
    /\ cfgFile \in Configs \cup {None}
    /\ version \in [Comp -> 1 .. MaxVersion]
    /\ host \in [Comp -> Entry \cup {None, Unknown}]
    /\ live \subseteq Comp
    /\ up \subseteq Backends
    /\ catalog \subseteq Comp
    /\ policies \subseteq Comp \X {"install", "service"}
    /\ orphans \subseteq Comp
    /\ pc \in Phase
    /\ mode \in {"install", "uninstall"}
    /\ cfg \in Configs \cup {None}
    /\ plan \in [Comp -> Action]
    /\ pos \in 0 .. Len(Order) + 1
    /\ client \subseteq Backends
    /\ held \subseteq Comp
    /\ runs \in 0 .. MaxRuns
    /\ faults \in 0 .. MaxFaults
    /\ scriptFailures \in 0 .. MaxScriptFailures

Init ==
    /\ installed = [c \in Comp |-> None] /\ cfgFile = None
    /\ version = [c \in Comp |-> 1]
    /\ host = [c \in Comp |-> None] /\ live = {}
    /\ up = External
    /\ catalog = {} /\ policies = {} /\ orphans = {}
    /\ pc = "idle" /\ mode = "install" /\ cfg = None
    /\ plan = [c \in Comp |-> "noop"]
    /\ pos = 0 /\ client = {} /\ held = {}
    /\ runs = 0 /\ faults = 0 /\ scriptFailures = 0

-----------------------------------------------------------------------------
(* Helpers *)

Cur == Order[pos]
Target(c) == [version |-> version[c], cfg |-> cfg]
Registers(c) == Service[c] # None

\* A backend call of the running engine can succeed.
Reaches(b) == b \in client /\ b \in up

\* discover(name): the catalog holds some instance of the name, whichever
\* node or component registered it.
Discovers(name) ==
    name \in Foreign \/ \E c \in catalog : Service[c] = name

\* A call of a step fails, or the process is killed.
Fault == faults < MaxFaults /\ faults' = faults + 1
FaultIf(b) == IF b THEN Fault ELSE UNCHANGED faults

\* _register_component_services without force, over the components of a set
\* in order: a component is skipped when its service name is discovered, so
\* one registration serves every later component with the same name.
MissingInverted(cs) == {c \in cs : Registers(c) /\ Discovers(Service[c])}  \* a bug
Missing(cs) == {c \in cs : Registers(c) /\ ~ Discovers(Service[c])}
First(cs) == {c \in cs : \A i, j \in DOMAIN Order :
    Order[i] = c /\ Order[j] \in cs /\ Service[Order[j]] = Service[c] => i <= j}
RegisterMissing(cs, failed) ==
    catalog' = catalog \cup First(Missing(cs) \ failed)

\* A token the engine still holds when it lets go of a step stays valid.
Abandoned == orphans \cup held

\* The process ends: by returning, by an exception or by a kill.
Exit ==
    /\ pc' = "idle" /\ mode' = "install" /\ cfg' = None
    /\ plan' = [c \in Comp |-> "noop"]
    /\ pos' = 0 /\ client' = {} /\ held' = {}

NextPos == IF mode = "install" THEN pos + 1 ELSE pos - 1

\* The pipeline's for loop: on to the next component, or off the end.
Advance ==
    /\ orphans' = Abandoned
    /\ IF NextPos \in DOMAIN Order
       THEN /\ pc' = "step" /\ pos' = NextPos /\ held' = {}
            /\ UNCHANGED <<mode, cfg, plan, client>>
       ELSE Exit

-----------------------------------------------------------------------------
(* Starting a run *)

\* A bug: a forced component is planned as if it was not there.
PlanActionForcedAnew(c, selected, values, forced) ==
    IF c \in selected /\ (installed[c] = None \/ c \in forced)
    THEN "install" ELSE "noop"

\* State.plan_actions
PlanAction(c, selected, values, forced) ==
    LET entry == installed[c]
        current == [version |-> version[c], cfg |-> values]
    IN  IF c \notin selected THEN "noop"
        ELSE IF entry = None THEN "install"
        ELSE IF entry.version # version[c] THEN "upgrade"
        ELSE IF entry # current THEN "reconfigure"
        ELSE IF c \in forced \cup Repeatable THEN "refresh"
        ELSE "noop"

\* Engine.install up to its first step: write config.yaml, plan, then heal
\* the registrations and policies of what is already installed.  There is a
\* client for each backend whose probe answered; the healing calls that
\* failed cost a warning each.
StartInstall(selected, values, forced, found, failed) ==
    /\ pc = "idle"
    /\ found \subseteq up /\ client' = found
    /\ FaultIf(found # up \/ failed # {})
    /\ cfgFile' = values
    /\ mode' = "install" /\ cfg' = values
    /\ plan' = [c \in Comp |-> PlanAction(c, selected, values, forced)]
    /\ LET healed == {c \in Comp : installed[c] # None /\ Registers(c)}
       IN  /\ failed \subseteq healed
           /\ IF Consul \in found
              THEN RegisterMissing(healed, failed) ELSE UNCHANGED catalog
           /\ policies' = IF Vault \in found
                          THEN policies \cup ((healed \ failed) \X {"service"})
                          ELSE policies
    /\ pc' = "step" /\ pos' = 1 /\ held' = {}
    /\ UNCHANGED <<installed, world, orphans>>

\* materialize_secrets raises for a user secret that is neither in Vault nor
\* in the file: Engine.install ends before its first step.
SecretsMissing ==
    /\ pc = "step" /\ mode = "install" /\ pos = 1
    /\ Reaches(Vault) /\ Fault
    /\ Exit
    /\ UNCHANGED <<disk, world, backend, runs, scriptFailures>>

\* Engine.uninstall: plan_uninstall, then the components in reverse.
StartUninstall(selected, found) ==
    /\ pc = "idle"
    /\ found \subseteq up /\ client' = found /\ FaultIf(found # up)
    /\ mode' = "uninstall" /\ UNCHANGED cfg
    /\ plan' = [c \in Comp |-> IF c \in selected /\ installed[c] # None
                               THEN "uninstall" ELSE "noop"]
    /\ pc' = "step" /\ pos' = Len(Order) /\ held' = {}
    /\ UNCHANGED <<disk, world, backend>>

-----------------------------------------------------------------------------
(* The phases of a step *)

\* step.skip
Skip ==
    /\ pc = "step" /\ plan[Cur] = "noop"
    /\ Advance
    /\ UNCHANGED <<disk, world, catalog, policies, counters>>

\* The policies that step.prepare writes: one for the token of the script, but
\* for Vault itself, and the service policy of a component that keeps a token.
Granted ==
    (({Cur} \ {Vault}) \X {"install"}) \cup (({Cur} \cap Runtime) \X {"service"})

\* _mint_install_token and _mint_runtime_token.  What a failing call skips or
\* only half does is some part of this; no token without its policy.
MintTokens(token, failing) ==
    \E written \in SUBSET Granted :
        /\ token \subseteq {c \in {Cur} : <<c, "install">> \in written}
        /\ ~ Reaches(Vault) => written = {}
        /\ Reaches(Vault) /\ ~ failing => written = Granted /\ token = {Cur} \ {Vault}
        /\ policies' = policies \cup written

\* The required targets that _component_env does not find.
Undiscovered == {name \in Needs[Cur] : ~ Discovers(name)}

\* step.prepare, then the script starts; an install script may wipe what
\* data it finds.
Prepare ==
    /\ pc = "step" /\ mode = "install" /\ plan[Cur] # "noop"
    /\ ~ (Consul \in client /\ Undiscovered # {})
    /\ \E token \in SUBSET {Cur}, failing \in BOOLEAN :
        /\ MintTokens(token, failing) /\ FaultIf(failing)
        /\ failing => Reaches(Vault)
        /\ held' = token
    /\ pc' = "script"
    /\ host' = [host EXCEPT ![Cur] = Unknown]
    /\ live' = IF plan[Cur] = "install" THEN live \ {Cur} ELSE live
    /\ UNCHANGED <<disk, version, up, catalog, orphans, mode, cfg, plan,
                   pos, client, runs, scriptFailures>>

\* step.prepare raises after the tokens were minted and outside the try whose
\* finally revokes: a required target is not in the catalog, or a lookup or a
\* minting call breaks.
PrepareRaises ==
    /\ pc = "step" /\ mode = "install" /\ plan[Cur] # "noop"
    /\ \E token \in SUBSET {Cur}, failing \in BOOLEAN :
        /\ MintTokens(token, failing) /\ FaultIf(failing)
        /\ orphans' = orphans \cup token
        /\ \/ Consul \in client /\ Undiscovered # {}
           \/ failing /\ ((Consul \in client /\ Needs[Cur] # {}) \/ Reaches(Vault))
    /\ Exit
    /\ UNCHANGED <<disk, world, catalog, runs, scriptFailures>>

\* An uninstall step runs its script without a token, or has no script.
BeginRemoval ==
    /\ pc = "step" /\ mode = "uninstall" /\ plan[Cur] # "noop"
    /\ IF Cur \in Uninstallable
       THEN /\ pc' = "script"
            /\ host' = [host EXCEPT ![Cur] = Unknown]
            /\ live' = live \ {Cur}
       ELSE pc' = "adopt" /\ UNCHANGED <<host, live>>
    /\ UNCHANGED <<disk, version, up, backend, mode, cfg, plan, pos, client,
                   held, counters>>

\* The script exits 0: the host is as the step wants it.  Removing a backend
\* takes what it stores with it.
ScriptSucceeds ==
    /\ pc = "script"
    /\ pc' = "exited"
    /\ IF mode = "install"
       THEN /\ host' = [host EXCEPT ![Cur] = Target(Cur)]
            /\ up' = up \cup ({Cur} \cap Backends)
            /\ UNCHANGED backend
       ELSE /\ host' = [host EXCEPT ![Cur] = None]
            /\ up' = up \ {Cur}
            /\ catalog' = IF Cur = Consul THEN {} ELSE catalog
            /\ policies' = IF Cur = Vault THEN {} ELSE policies
            /\ orphans' = IF Cur = Vault THEN {} ELSE orphans
    /\ UNCHANGED <<disk, version, live, mode, cfg, plan, pos, client, held,
                   counters>>

\* A backend's script that stops half-way may leave the backend up or down.
HalfDone == {up, up \ {Cur}, up \cup ({Cur} \cap Backends)}

\* A bug: the exit code is dropped.
ScriptFailsUnnoticed ==
    /\ pc = "script" /\ scriptFailures < MaxScriptFailures
    /\ scriptFailures' = scriptFailures + 1
    /\ pc' = "exited"
    /\ up' \in HalfDone
    /\ UNCHANGED <<disk, version, host, live, backend, mode, cfg, plan, pos,
                   client, held, runs, faults>>

\* The script exits non-zero, or the executor raises: FAILED.
ScriptFails ==
    /\ pc = "script" /\ scriptFailures < MaxScriptFailures
    /\ scriptFailures' = scriptFailures + 1
    /\ pc' = "failed"
    /\ up' \in HalfDone
    /\ UNCHANGED <<disk, version, host, live, backend, mode, cfg, plan, pos,
                   client, held, runs, faults>>

\* The finally clause.  revoke_token is silent when Vault refuses it; when the
\* connection breaks it raises, which ends the run as in Crash.
Revoke ==
    \/ (held = {} \/ Reaches(Vault)) /\ UNCHANGED <<orphans, faults>>
    \/ held # {} /\ Fault /\ orphans' = Abandoned

\* A bug: the component is recorded as soon as its script has ended.
FinishScriptRecords ==
    /\ pc = "exited" /\ mode = "install"
    /\ Revoke /\ held' = {}
    /\ installed' = [installed EXCEPT ![Cur] = Target(Cur)]
    /\ pc' = "adopt"
    /\ UNCHANGED <<cfgFile, world, catalog, policies, mode, cfg, plan, pos,
                   client, runs, scriptFailures>>

FinishScript ==
    /\ pc = "exited"
    /\ Revoke /\ held' = {}
    /\ pc' = "adopt"
    /\ UNCHANGED <<disk, world, catalog, policies, mode, cfg, plan, pos,
                   client, runs, scriptFailures>>

\* A bug: the run goes on with the next component.
AbortContinues ==
    /\ pc = "failed"
    /\ Advance
    /\ UNCHANGED <<disk, world, catalog, policies, counters>>

\* A bug: the token is only revoked after a script that succeeded.
AbortKeepsToken ==
    /\ pc = "failed"
    /\ orphans' = Abandoned /\ Exit
    /\ UNCHANGED <<disk, world, catalog, policies, counters>>

\* A failed script ends the run: no later step starts.
Abort ==
    /\ pc = "failed"
    /\ Revoke
    /\ Exit
    /\ UNCHANGED <<disk, world, catalog, policies, runs, scriptFailures>>

\* post_execute: after its own step, a backend the run has no client for is
\* probed and adopted.  Adopting Consul registers every component before it.
Adopts == mode = "install" /\ Cur \in Backends \ client

Adopt ==
    /\ pc = "adopt" /\ Adopts
    /\ \/ /\ client' = client \cup {Cur}
          /\ \E failed \in SUBSET {Order[i] : i \in 1 .. pos - 1} :
                /\ FaultIf(failed # {})
                /\ IF Cur = Consul
                   THEN RegisterMissing({Order[i] : i \in 1 .. pos - 1}, failed)
                   ELSE failed = {} /\ UNCHANGED catalog
       \/ Fault /\ UNCHANGED <<client, catalog>>
    /\ pc' = "publish"
    /\ UNCHANGED <<disk, world, policies, orphans, mode, cfg, plan, pos,
                   held, runs, scriptFailures>>

NothingToAdopt ==
    /\ pc = "adopt" /\ ~ Adopts
    /\ pc' = "publish"
    /\ UNCHANGED <<disk, world, backend, mode, cfg, plan, pos, client, held,
                   counters>>

\* _post_component_publish: deregister and register again, then the policy.
Publish ==
    /\ pc = "publish" /\ mode = "install"
    /\ LET wanted == {Cur} \cap {c \in Comp : Registers(c)}
           service == {<<c, "service">> : c \in wanted}
       IN  \/ /\ catalog' = IF Reaches(Consul) THEN catalog \cup wanted ELSE catalog
              /\ policies' = IF Reaches(Vault) THEN policies \cup service ELSE policies
              /\ UNCHANGED faults
           \/ /\ client # {} /\ Fault
              /\ catalog' \in {catalog} \cup
                    (IF Reaches(Consul) THEN {catalog \ wanted, catalog \cup wanted} ELSE {})
              /\ policies' \in {policies} \cup
                    (IF Reaches(Vault) THEN {policies \cup service} ELSE {})
    /\ pc' = "persist"
    /\ UNCHANGED <<disk, world, orphans, mode, cfg, plan, pos, client, held,
                   runs, scriptFailures>>

\* A bug: only the policies are cleaned up.
UnpublishPoliciesOnly ==
    /\ pc = "publish" /\ mode = "uninstall"
    /\ policies' = policies \ {<<Cur, "service">>, <<Cur, "install">>}
    /\ pc' = "persist"
    /\ UNCHANGED <<disk, world, catalog, orphans, mode, cfg, plan, pos, client,
                   held, counters>>

\* _cleanup_backends: deregister, then drop both policies; each may fail.
Unpublish ==
    /\ pc = "publish" /\ mode = "uninstall"
    /\ LET own == {<<Cur, "service">>, <<Cur, "install">>}
       IN  \/ /\ catalog' = IF Reaches(Consul) THEN catalog \ {Cur} ELSE catalog
              /\ policies' = IF Reaches(Vault) THEN policies \ own ELSE policies
              /\ UNCHANGED faults
           \/ /\ client # {} /\ Fault
              /\ catalog' \in {catalog} \cup (IF Reaches(Consul) THEN {catalog \ {Cur}} ELSE {})
              /\ policies' \in {policies} \cup
                    (IF Reaches(Vault) THEN {policies \ gone : gone \in SUBSET own} ELSE {})
    /\ pc' = "persist"
    /\ UNCHANGED <<disk, world, orphans, mode, cfg, plan, pos, client, held,
                   runs, scriptFailures>>

\* mark_installed: the hash of the configuration this run was started with.
MarkInstalled ==
    /\ pc = "persist" /\ mode = "install"
    /\ installed' = [installed EXCEPT ![Cur] = Target(Cur)]
    /\ live' = live \cup {Cur}
    /\ Advance
    /\ UNCHANGED <<cfgFile, version, host, up, catalog, policies, counters>>

\* A bug: the removed component is saved like an installed one.
MarkUninstalledSaves ==
    /\ pc = "persist" /\ mode = "uninstall"
    /\ installed' = [installed EXCEPT ![Cur] = Target(Cur)]
    /\ live' = live \ {Cur}
    /\ Advance
    /\ UNCHANGED <<cfgFile, version, host, up, catalog, policies, counters>>

\* mark_uninstalled: the operator has given the component and its data up.
MarkUninstalled ==
    /\ pc = "persist" /\ mode = "uninstall"
    /\ installed' = [installed EXCEPT ![Cur] = None]
    /\ live' = live \ {Cur}
    /\ Advance
    /\ UNCHANGED <<cfgFile, version, host, up, catalog, policies, counters>>

-----------------------------------------------------------------------------
(* The environment *)

\* The process is killed, or an exception that nobody handles ends the run.  A
\* kill between the truncation and the write of _save_installed leaves an
\* empty file, which loads as no components.
Crash ==
    /\ pc # "idle" /\ Fault
    /\ orphans' = Abandoned
    /\ Exit
    /\ up' \in IF pc = "script" THEN HalfDone ELSE {up}
    /\ installed' \in {installed} \cup
          (IF TornWrites /\ pc = "persist" THEN {[c \in Comp |-> None]} ELSE {})
    /\ UNCHANGED <<cfgFile, version, host, live, catalog, policies, runs,
                   scriptFailures>>

\* The operator pulls a manifest that bumps a component.
BumpVersion(c) ==
    /\ pc = "idle" /\ version[c] < MaxVersion
    /\ version' = [version EXCEPT ![c] = @ + 1]
    /\ UNCHANGED <<disk, host, live, up, backend, engine, counters>>

\* A token left behind ends with its two-hour lease.
LeaseEnds(c) ==
    /\ c \in orphans
    /\ orphans' = orphans \ {c}
    /\ UNCHANGED <<disk, world, catalog, policies, engine, counters>>

-----------------------------------------------------------------------------

Start ==
    /\ runs < MaxRuns /\ runs' = runs + 1 /\ UNCHANGED scriptFailures
    /\ \E selected \in SUBSET Comp, found \in SUBSET Backends :
        \/ \E values \in Configs, forced \in {{}, selected}, failed \in SUBSET Comp :
              StartInstall(selected, values, forced, found, failed)
        \/ StartUninstall(selected, found)

Step ==
    \/ Skip \/ Prepare \/ PrepareRaises \/ BeginRemoval
    \/ ScriptSucceeds \/ ScriptFails
    \/ FinishScript \/ Abort
    \/ Adopt \/ NothingToAdopt \/ Publish \/ Unpublish
    \/ MarkInstalled \/ MarkUninstalled

Environment ==
    \/ SecretsMissing \/ Crash
    \/ \E c \in Comp : BumpVersion(c) \/ LeaseEnds(c)

Next == Start \/ Step \/ Environment

Spec == Init /\ [][Next]_vars
=============================================================================
