---------------------------- MODULE InstallerProps ----------------------------
(***************************************************************************)
(* What a run of the installer must and must not do.                       *)
(***************************************************************************)
EXTENDS Installer

InFlight == pc \in {"script", "exited", "failed", "adopt", "publish", "persist"}

\* While the script of a component runs in an install, every dependency that
\* the same run set out to change has been changed: its last script succeeded
\* with this run's version and configuration and the state file says so.  One
\* failure ends the run, so no script ever builds on a failed dependency.
DependenciesFirst ==
    pc = "script" /\ mode = "install" =>
        \A d \in Depends[Cur] :
            plan[d] # "noop" => host[d] = Target(d) /\ installed[d] = Target(d)

\* While a component is being removed, every dependent that the same run
\* removes is already off the state file.
DependentsGoneFirst ==
    InFlight /\ mode = "uninstall" =>
        \A d \in Comp :
            Cur \in Depends[d] /\ plan[d] # "noop" => installed[d] = None

\* Until the whole step of an install, upgrade or reconfigure is over, the
\* state file does not show the step's target: wherever the run dies, the next
\* run of the same manifest and configuration plans the component again.
InterruptedIsRetried ==
    InFlight /\ plan[Cur] \in {"install", "upgrade", "reconfigure"} =>
        installed[Cur] # Target(Cur)

\* An install-mode run never runs a script as "install", which may wipe what
\* it finds, on a component that is in use and that nobody uninstalled.
DataSurvives == [][mode = "install" => live \subseteq live']_vars

\* Between runs of a stack that discovers nothing, if no call failed and no
\* process was killed, no install token is valid: the step that minted one
\* revoked it however its script ended.
StepsRevokeTokens ==
    pc = "idle" /\ faults = 0 /\ (\A c \in Comp : Needs[c] = {}) => orphans = {}

\* Between runs, if no call failed and no process was killed, and with Consul
\* and Vault up all along, the catalog has exactly the services of the
\* recorded components, after scripts that failed and removals too.  Every
\* recorded component has its service policy; one that is not recorded has it
\* only if it keeps a runtime token, whose policy precedes the script, and its
\* last script has not succeeded or it has targets that may not be found.
BackendsMatchRecord ==
    pc = "idle" /\ faults = 0 /\ External = Backends =>
        LET recorded == {c \in Comp : installed[c] # None}
            services == {c \in recorded : Registers(c)}
            kept == services \cup (recorded \cap Runtime)
            begun == {c \in Runtime : host[c] = Unknown \/ Needs[c] # {}}
            granted == {c \in Comp : <<c, "service">> \in policies}
        IN  catalog = services /\ kept \subseteq granted /\ granted \ kept \subseteq begun

\* When a step of an install looks its targets up, and while its script runs,
\* the services of all components this run has been through before can be
\* found, including those that ran before Consul itself was there.
SameRunDiscovery ==
    pc \in {"step", "script"} /\ mode = "install" /\ Consul \in client /\ faults = 0 =>
        \A i \in 1 .. pos - 1 :
            plan[Order[i]] # "noop" /\ Registers(Order[i])
                => Discovers(Service[Order[i]])

Ledger == INSTANCE ComponentLedger WITH record <- installed, effect <- host

\* The installer implements the ledger: no interleaving of plans, phases,
\* failures and kills records what a script did not just apply.
ImplementsLedger == Ledger!Spec

-----------------------------------------------------------------------------
(* Convergence *)

\* An operator, or a CI job, who keeps applying the whole manifest with one
\* configuration, whatever else was run before.
Reapply(values) ==
    \E found \in SUBSET Backends, failed \in SUBSET Comp :
        /\ StartInstall(Comp, values, {}, found, failed)
        /\ UNCHANGED <<runs, scriptFailures>>

\* The operator comes back, and a started run goes on by itself: a script
\* ends.  Nothing makes a script fail, a call fail or the process die, and
\* the counters bound how often they do.
ReapplyFairness(values) == WF_vars(Reapply(values)) /\ WF_vars(Step)

\* No backend of the stack is down although the state file has it: its script
\* was not interrupted on the way, or repeated since.
BackendsIntact == \A b \in Backends \cap Comp : installed[b] # None => b \in up

\* From some moment on, unless an interrupted script has left a recorded
\* backend down, every component is recorded, for good, with that manifest and
\* configuration, and its service can be found.
Converges(values) ==
    <>[](BackendsIntact =>
            \A c \in Comp :
                /\ installed[c] = [version |-> version[c], cfg |-> values]
                /\ Registers(c) => c \in catalog)
=============================================================================
