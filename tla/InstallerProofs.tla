--------------------------- MODULE InstallerProofs ---------------------------
(***************************************************************************)
(* Proofs about Installer for every manifest, every set of configurations  *)
(* and all bounds, and about the order that Manifest gives a manifest.     *)
(***************************************************************************)
EXTENDS InstallerProps, Manifest, FiniteSetTheorems, SequenceTheorems,
        WellFoundedInduction, TLAPS


\* The positions of the order are those of a sequence of components.
LEMMA OrderFacts ==
    /\ Len(Order) \in Nat \ {0}
    /\ DOMAIN Order = 1 .. Len(Order)
    /\ \A i \in 1 .. Len(Order) : Order[i] \in Comp
<1>1. Len(Order) \in Nat /\ DOMAIN Order = 1 .. Len(Order)
  BY OrderAssumption
<1>2. Len(Order) # 0
  BY OrderAssumption
<1>3. \A i \in 1 .. Len(Order) : Order[i] \in Comp
  BY <1>1 DEF Comp
<1> QED
  BY <1>1, <1>2, <1>3

\* Types, and what the phases of a step rely on: a step has a component, and
\* an install run has a configuration.
Typed ==
    /\ TypeOK
    /\ pc # "idle" => pos \in 1 .. Len(Order)
    /\ pc # "idle" /\ mode = "install" => cfg \in Configs

LEMMA ExitTyped ==
    ASSUME Typed, Exit
    PROVE  /\ pc' = "idle" /\ mode' = "install" /\ cfg' = None
           /\ plan' \in [Comp -> Action] /\ pos' \in 0 .. Len(Order) + 1
           /\ client' \subseteq Backends /\ held' \subseteq Comp
<1>2. pos' \in 0 .. Len(Order) + 1
  BY OrderFacts DEF Exit
<1>3. plan' \in [Comp -> Action]
  BY DEF Exit, Action
<1> QED
  BY <1>2, <1>3 DEF Exit

LEMMA AdvanceTyped ==
    ASSUME Typed, Advance, pc # "idle"
    PROVE  /\ orphans' \subseteq Comp
           /\ pc' \in Phase
           /\ mode' \in {"install", "uninstall"} /\ cfg' \in Configs \cup {None}
           /\ plan' \in [Comp -> Action] /\ pos' \in 0 .. Len(Order) + 1
           /\ client' \subseteq Backends /\ held' \subseteq Comp
           /\ pc' # "idle" => pos' \in 1 .. Len(Order)
           /\ pc' # "idle" /\ mode' = "install" => cfg' \in Configs
<1>1. orphans' \subseteq Comp
  BY OrderFacts DEF Advance, Abandoned, Cur, Typed, TypeOK
<1>2. CASE NextPos \in DOMAIN Order
  BY <1>1, <1>2, OrderFacts DEF Advance, Typed, TypeOK, Phase
<1>3. CASE NextPos \notin DOMAIN Order
  BY <1>1, <1>3, ExitTyped DEF Advance, Phase
<1> QED
  BY <1>2, <1>3

LEMMA CurTyped ==
    ASSUME Typed, pc # "idle"
    PROVE  Cur \in Comp
  BY OrderFacts DEF Typed, Cur

LEMMA TargetTyped ==
    ASSUME Typed, pc # "idle", mode = "install", NEW c \in Comp
    PROVE  Target(c) \in Entry
  BY DEF Typed, TypeOK, Target, Entry

LEMMA FaultTyped ==
    ASSUME TypeOK, Fault \/ UNCHANGED faults
    PROVE  faults' \in 0 .. MaxFaults
  BY ConstantAssumption DEF TypeOK, Fault

LEMMA InitTyped == Init => Typed
<1> SUFFICES ASSUME Init PROVE Typed
  OBVIOUS
<1>1. installed \in [Comp -> Entry \cup {None}] /\ host \in [Comp -> Entry \cup {None, Unknown}]
  BY DEF Init
<1>2. version \in [Comp -> 1 .. MaxVersion] /\ plan \in [Comp -> Action]
  BY ConstantAssumption DEF Init, Action
<1>3. /\ pos \in 0 .. Len(Order) + 1
      /\ runs \in 0 .. MaxRuns /\ faults \in 0 .. MaxFaults
      /\ scriptFailures \in 0 .. MaxScriptFailures
  BY ConstantAssumption, OrderFacts DEF Init
<1> QED
  BY <1>1, <1>2, <1>3, ConstantAssumption DEF Init, Typed, TypeOK, Phase

LEMMA StartInstallTyped ==
    ASSUME Typed,
           NEW selected \in SUBSET Comp, NEW values \in Configs,
           NEW forced \in SUBSET Comp, NEW found \in SUBSET Backends,
           NEW failed \in SUBSET Comp,
           StartInstall(selected, values, forced, found, failed),
           runs' \in 0 .. MaxRuns, UNCHANGED scriptFailures
    PROVE  Typed'
<1>1. \A c \in Comp : PlanAction(c, selected, values, forced) \in Action
  BY DEF PlanAction, Action
<1>2. plan' \in [Comp -> Action]
  BY <1>1 DEF StartInstall
<1>3. catalog' \subseteq Comp
  BY DEF StartInstall, RegisterMissing, First, Missing, Typed, TypeOK
<1>4. policies' \subseteq Comp \X {"install", "service"}
  BY DEF StartInstall, Typed, TypeOK
<1>5. faults' \in 0 .. MaxFaults
  BY FaultTyped DEF StartInstall, FaultIf, Typed
<1>6. pos' \in 1 .. Len(Order)
  BY OrderFacts DEF StartInstall
<1>7. pos' \in 0 .. Len(Order) + 1
  BY <1>6, OrderFacts
<1> QED
  BY <1>2, <1>3, <1>4, <1>5, <1>6, <1>7
  DEF StartInstall, Typed, TypeOK, Phase, world

LEMMA StartUninstallTyped ==
    ASSUME Typed, NEW selected \in SUBSET Comp, NEW found \in SUBSET Backends,
           StartUninstall(selected, found),
           runs' \in 0 .. MaxRuns, UNCHANGED scriptFailures
    PROVE  Typed'
<1>1. plan' \in [Comp -> Action]
  BY DEF StartUninstall, Action
<1>2. faults' \in 0 .. MaxFaults
  BY FaultTyped DEF StartUninstall, FaultIf, Typed
<1>3. pos' \in 1 .. Len(Order) /\ pos' \in 0 .. Len(Order) + 1
  BY OrderFacts DEF StartUninstall
<1> QED
  BY <1>1, <1>2, <1>3 DEF StartUninstall, Typed, TypeOK, Phase, disk, world, backend

\* What minting writes, whether or not a call of it fails.
LEMMA MintWrites ==
    ASSUME Typed, Cur \in Comp, NEW token \in SUBSET {Cur}, NEW failing \in BOOLEAN,
           MintTokens(token, failing)
    PROVE  /\ policies' \subseteq Comp \X {"install", "service"}
           /\ token \subseteq Comp
           /\ token # {} => token = {Cur} /\ Cur # Vault /\ Reaches(Vault)
<1>1. Granted \subseteq Comp \X {"install", "service"} /\ policies \subseteq Comp \X {"install", "service"}
  BY DEF Granted, Typed, TypeOK
<1>2. PICK written \in SUBSET Granted :
          /\ token \subseteq {c \in {Cur} : <<c, "install">> \in written}
          /\ ~ Reaches(Vault) => written = {}
          /\ policies' = policies \cup written
  BY DEF MintTokens
<1>3. policies' \subseteq Comp \X {"install", "service"}
  BY <1>1, <1>2
<1>4. ASSUME token # {}
      PROVE  token = {Cur} /\ Cur # Vault /\ Reaches(Vault)
  <2>1. token = {Cur} /\ <<Cur, "install">> \in written
    BY <1>2, <1>4
  <2>2. <<Cur, "install">> \in Granted /\ written # {}
    BY <1>2, <2>1
  <2> QED
    BY <1>2, <2>1, <2>2 DEF Granted
<1> QED
  BY <1>3, <1>4

\* What becomes of the token of a step whose preparation ends, and of one
\* whose preparation raises.
LEMMA Prepared ==
    ASSUME Typed, Prepare \/ PrepareRaises
    PROVE  /\ Cur \in Comp /\ policies' \subseteq Comp \X {"install", "service"}
           /\ Fault \/ UNCHANGED faults
           /\ Prepare => held' \subseteq Comp /\ (held' # {} => Cur # Vault /\ Reaches(Vault))
           /\ PrepareRaises => orphans' \subseteq Comp
<1>1. Cur \in Comp
  BY CurTyped DEF Prepare, PrepareRaises
<1>2. CASE Prepare
  <2>1. PICK token \in SUBSET {Cur}, failing \in BOOLEAN :
            MintTokens(token, failing) /\ FaultIf(failing) /\ held' = token
    BY <1>2 DEF Prepare
  <2>2. ~ PrepareRaises
    BY <1>2 DEF Prepare, PrepareRaises, Exit
  <2> QED
    BY <1>1, <2>1, <2>2, MintWrites DEF FaultIf
<1>3. CASE PrepareRaises
  <2>1. PICK token \in SUBSET {Cur}, failing \in BOOLEAN :
            MintTokens(token, failing) /\ FaultIf(failing) /\ orphans' = orphans \cup token
    BY <1>3 DEF PrepareRaises
  <2>2. ~ Prepare /\ orphans \subseteq Comp
    BY <1>3 DEF Prepare, PrepareRaises, Exit, Typed, TypeOK
  <2> QED
    BY <1>1, <2>1, <2>2, MintWrites DEF FaultIf
<1> QED
  BY <1>2, <1>3

\* Every step of a run, and every step of its environment, keeps the types.
LEMMA StepTyped ==
    ASSUME Typed, Step \/ Environment
    PROVE  Typed'
<1> USE DEF disk, world, backend, counters
<1>1. CASE Skip
  BY <1>1, AdvanceTyped DEF Skip, Typed, TypeOK
<1>2. CASE Prepare
  <2>1. /\ policies' \subseteq Comp \X {"install", "service"}
        /\ held' \subseteq Comp
        /\ Fault \/ UNCHANGED faults
    BY <1>2, Prepared
  <2>2. host' \in [Comp -> Entry \cup {None, Unknown}] /\ live' \subseteq Comp
    BY <1>2, CurTyped DEF Prepare, Typed, TypeOK
  <2> QED
    BY <1>2, <2>1, <2>2, FaultTyped DEF Prepare, Typed, TypeOK, Phase
<1>3. CASE PrepareRaises
  <2>1. /\ policies' \subseteq Comp \X {"install", "service"}
        /\ orphans' \subseteq Comp
        /\ Fault \/ UNCHANGED faults
    BY <1>3, Prepared
  <2> QED
    BY <1>3, <2>1, FaultTyped, ExitTyped DEF PrepareRaises, Typed, TypeOK, Phase
<1>4. CASE BeginRemoval
  <2>1. host' \in [Comp -> Entry \cup {None, Unknown}] /\ live' \subseteq Comp
    BY <1>4, CurTyped DEF BeginRemoval, Typed, TypeOK
  <2> QED
    BY <1>4, <2>1 DEF BeginRemoval, Typed, TypeOK, Phase
<1>5. CASE ScriptSucceeds
  <2>1. host' \in [Comp -> Entry \cup {None, Unknown}]
    BY <1>5, CurTyped, TargetTyped DEF ScriptSucceeds, Typed, TypeOK
  <2>2. /\ up' \subseteq Backends /\ catalog' \subseteq Comp
        /\ policies' \subseteq Comp \X {"install", "service"}
        /\ orphans' \subseteq Comp
    BY <1>5 DEF ScriptSucceeds, Typed, TypeOK
  <2> QED
    BY <1>5, <2>1, <2>2 DEF ScriptSucceeds, Typed, TypeOK, Phase
<1>6. CASE ScriptFails
  <2>1. up' \subseteq Backends
    BY <1>6 DEF ScriptFails, HalfDone, Typed, TypeOK
  <2>2. scriptFailures' \in 0 .. MaxScriptFailures
    BY <1>6, ConstantAssumption DEF ScriptFails, Typed, TypeOK
  <2> QED
    BY <1>6, <2>1, <2>2 DEF ScriptFails, Typed, TypeOK, Phase
<1>7. CASE FinishScript \/ Abort
  <2>1. orphans' \subseteq Comp /\ (Fault \/ UNCHANGED faults)
    BY <1>7 DEF FinishScript, Abort, Revoke, Abandoned, Typed, TypeOK
  <2>2. CASE FinishScript
    BY <2>1, <2>2, FaultTyped DEF FinishScript, Typed, TypeOK, Phase
  <2>3. CASE Abort
    BY <2>1, <2>3, FaultTyped, ExitTyped DEF Abort, Typed, TypeOK, Phase
  <2> QED
    BY <1>7, <2>2, <2>3
<1>8. CASE Adopt
  <2>1. /\ catalog' \subseteq Comp /\ client' \subseteq Backends
        /\ Fault \/ UNCHANGED faults
    <3>1. {Order[i] : i \in 1 .. pos - 1} \subseteq Comp
      BY <1>8, OrderFacts DEF Adopt, Typed
    <3> QED
      BY <1>8, <3>1
      DEF Adopt, Adopts, FaultIf, RegisterMissing, First, Missing, Typed, TypeOK
  <2> QED
    BY <1>8, <2>1, FaultTyped DEF Adopt, Typed, TypeOK, Phase
<1>9. CASE NothingToAdopt
  BY <1>9 DEF NothingToAdopt, Typed, TypeOK, Phase
<1>10. CASE Publish \/ Unpublish
  <2>1. /\ catalog' \subseteq Comp
        /\ policies' \subseteq Comp \X {"install", "service"}
        /\ Fault \/ UNCHANGED faults
    BY <1>10, CurTyped DEF Publish, Unpublish, Typed, TypeOK
  <2> QED
    BY <1>10, <2>1, FaultTyped DEF Publish, Unpublish, Typed, TypeOK, Phase
<1>11. CASE MarkInstalled \/ MarkUninstalled
  <2>1. installed' \in [Comp -> Entry \cup {None}] /\ live' \subseteq Comp
    BY <1>11, CurTyped, TargetTyped
    DEF MarkInstalled, MarkUninstalled, Typed, TypeOK
  <2> QED
    BY <1>11, <2>1, AdvanceTyped DEF MarkInstalled, MarkUninstalled, Typed, TypeOK
<1>12. CASE SecretsMissing
  BY <1>12, FaultTyped, ExitTyped DEF SecretsMissing, Typed, TypeOK, Phase
<1>13. CASE Crash
  <2>1. /\ installed' \in [Comp -> Entry \cup {None}]
        /\ up' \subseteq Backends /\ orphans' \subseteq Comp
    BY <1>13 DEF Crash, HalfDone, Abandoned, Typed, TypeOK
  <2>2. Exit /\ Fault /\ UNCHANGED <<cfgFile, version, host, live, catalog, policies, runs,
                                    scriptFailures>>
    BY <1>13 DEF Crash
  <2> QED
    BY <2>1, <2>2, FaultTyped, ExitTyped DEF Typed, TypeOK, Phase
<1>14. ASSUME NEW c \in Comp, BumpVersion(c)
       PROVE  Typed'
  <2>1. version' \in [Comp -> 1 .. MaxVersion]
    BY <1>14, ConstantAssumption DEF BumpVersion, Typed, TypeOK
  <2> QED
    BY <1>14, <2>1 DEF BumpVersion, engine, Typed, TypeOK
<1>15. ASSUME NEW c \in Comp, LeaseEnds(c)
       PROVE  Typed'
  BY <1>15 DEF LeaseEnds, engine, Typed, TypeOK
<1> QED
  BY <1>1, <1>2, <1>3, <1>4, <1>5, <1>6, <1>7, <1>8, <1>9, <1>10, <1>11,
     <1>12, <1>13, <1>14, <1>15 DEF Step, Environment

LEMMA NextTyped == Typed /\ [Next]_vars => Typed'
<1> SUFFICES ASSUME Typed, [Next]_vars PROVE Typed'
  OBVIOUS
<1>1. CASE Start
  <2>1. runs' \in 0 .. MaxRuns
    BY <1>1, ConstantAssumption DEF Start, Typed, TypeOK
  <2> QED
    BY <1>1, <2>1, StartInstallTyped, StartUninstallTyped DEF Start
<1>2. CASE Step \/ Environment
  BY <1>2, StepTyped
<1>3. CASE UNCHANGED vars
  BY <1>3 DEF vars, disk, world, backend, engine, counters, Typed, TypeOK
<1> QED
  BY <1>1, <1>2, <1>3 DEF Next

\* Every state of the installer is well-typed, whatever the manifest and the
\* number of runs, failures and kills.
THEOREM TypeCorrect == Spec => []TypeOK
<1>1. Typed => TypeOK
  BY DEF Typed
<1> QED
  BY InitTyped, NextTyped, <1>1, PTL DEF Spec

-----------------------------------------------------------------------------
(* The order of a run.  The invariant divides the manifest at the current    *)
(* component: what the run has been through is done, what lies ahead is as   *)
(* the plan found it.                                                        *)

DoneBehind ==
    pc # "idle" /\ mode = "install" =>
        \A i \in 1 .. pos - 1 : plan[Order[i]] # "noop" =>
            /\ host[Order[i]] = Target(Order[i])
            /\ installed[Order[i]] = Target(Order[i])

OpenAhead ==
    pc # "idle" /\ mode = "install" =>
        \A i \in pos .. Len(Order) :
            /\ plan[Order[i]] \in {"install", "upgrade", "reconfigure"}
                  => installed[Order[i]] # Target(Order[i])
            /\ plan[Order[i]] = "install" => installed[Order[i]] = None

GoneBehind ==
    pc # "idle" /\ mode = "uninstall" =>
        /\ \A c \in Comp : plan[c] \in {"uninstall", "noop"}
        /\ \A i \in pos + 1 .. Len(Order) :
              plan[Order[i]] # "noop" => installed[Order[i]] = None

CurrentStep ==
    /\ InFlight => plan[Cur] # "noop"
    /\ pc = "script" => host[Cur] = Unknown
    /\ pc \in {"exited", "adopt", "publish", "persist"} /\ mode = "install"
          => host[Cur] = Target(Cur)

Ordered == Typed /\ DoneBehind /\ OpenAhead /\ GoneBehind /\ CurrentStep

\* Nothing is claimed of a process that has ended.
LEMMA IdleOrdered ==
    ASSUME Typed', pc' = "idle"
    PROVE  Ordered'
  BY DEF Ordered, DoneBehind, OpenAhead, GoneBehind, CurrentStep, InFlight

\* A phase that touches neither the state file nor the host.
LEMMA QuietPhase ==
    ASSUME Ordered, Typed', pc # "idle",
           UNCHANGED <<installed, host, version, mode, cfg, plan, pos>>
    PROVE  DoneBehind' /\ OpenAhead' /\ GoneBehind'
  BY DEF Ordered, DoneBehind, OpenAhead, GoneBehind, Target

\* The loop moves on from a component that is done, or that is not in the plan.
LEMMA AdvanceOrdered ==
    ASSUME Ordered, Typed', pc # "idle", Advance, UNCHANGED <<host, version>>,
           \A c \in Comp \ {Cur} : installed'[c] = installed[c],
           plan[Cur] = "noop" => installed'[Cur] = installed[Cur],
           plan[Cur] # "noop" /\ mode = "install" =>
                host[Cur] = Target(Cur) /\ installed'[Cur] = Target(Cur),
           plan[Cur] # "noop" /\ mode = "uninstall" => installed'[Cur] = None
    PROVE  Ordered'
<1>1. CASE NextPos \notin DOMAIN Order
  BY <1>1, IdleOrdered DEF Advance, Exit
<1>2. CASE NextPos \in DOMAIN Order
  <2>1. /\ pc' = "step" /\ pos' = NextPos
        /\ UNCHANGED <<mode, cfg, plan, host, version>>
    BY <1>2 DEF Advance
  <2>2. pos \in 1 .. Len(Order) /\ pos' \in 1 .. Len(Order)
    BY <2>1, <1>2, OrderFacts DEF Ordered, Typed
  <2>3. \A i \in 1 .. Len(Order) : i # pos => Order[i] \in Comp \ {Cur}
    BY <2>2, OrderFacts, OrderAssumption DEF Cur
  <2>4. DoneBehind'
    BY <2>1, <2>2, <2>3, OrderFacts
    DEF Ordered, DoneBehind, NextPos, Cur, Target
  <2>5. OpenAhead'
    BY <2>1, <2>2, <2>3, OrderFacts
    DEF Ordered, OpenAhead, NextPos, Cur, Target
  <2>6. GoneBehind'
    <3>1. /\ GoneBehind /\ mode \in {"install", "uninstall"}
          /\ pos' = IF mode = "install" THEN pos + 1 ELSE pos - 1
      BY <2>1 DEF Ordered, Typed, TypeOK, NextPos
    <3> QED
      BY <2>1, <2>2, <2>3, <3>1, OrderFacts DEF GoneBehind, Cur
  <2> QED
    BY <2>1, <2>4, <2>5, <2>6 DEF Ordered, CurrentStep, InFlight
<1> QED
  BY <1>1, <1>2

LEMMA StartOrdered ==
    ASSUME Typed', Start
    PROVE  Ordered'
<1>1. ASSUME NEW selected \in SUBSET Comp, NEW values \in Configs,
             NEW forced \in SUBSET Comp, NEW found \in SUBSET Backends,
             NEW failed \in SUBSET Comp,
             StartInstall(selected, values, forced, found, failed)
      PROVE  Ordered'
  <2>1. \A c \in Comp :
          /\ plan'[c] \in {"install", "upgrade", "reconfigure"}
                => installed'[c] # Target(c)'
          /\ plan'[c] = "install" => installed'[c] = None
    <3> SUFFICES ASSUME NEW c \in Comp
                 PROVE  /\ plan'[c] \in {"install", "upgrade", "reconfigure"}
                              => installed'[c] # Target(c)'
                        /\ plan'[c] = "install" => installed'[c] = None
      OBVIOUS
    <3>1. /\ plan'[c] = PlanAction(c, selected, values, forced)
          /\ installed' = installed /\ version' = version /\ cfg' = values
      BY <1>1 DEF StartInstall, world
    <3>2. Target(c)' = [version |-> version[c], cfg |-> values]
      BY <3>1 DEF Target
    <3>3. Target(c)' \in Entry
      BY <3>1, <3>2 DEF Entry, Typed, TypeOK
    <3> QED
      BY <3>1, <3>2, <3>3, ConstantAssumption DEF PlanAction
  <2>2. pc' = "step" /\ mode' = "install" /\ pos' = 1
    BY <1>1 DEF StartInstall
  <2> QED
    BY <2>1, <2>2, OrderFacts
    DEF Ordered, DoneBehind, OpenAhead, GoneBehind, CurrentStep, InFlight
<1>2. ASSUME NEW selected \in SUBSET Comp, NEW found \in SUBSET Backends,
             StartUninstall(selected, found)
      PROVE  Ordered'
  BY <1>2, OrderFacts
  DEF StartUninstall, Ordered, DoneBehind, OpenAhead, GoneBehind, CurrentStep, InFlight
<1> QED
  BY <1>1, <1>2 DEF Start

\* A script runs on the current component alone.
LEMMA ScriptOrdered ==
    ASSUME Ordered, Typed', pc # "idle",
           UNCHANGED <<installed, version, mode, cfg, plan, pos>>,
           \A c \in Comp \ {Cur} : host'[c] = host[c]
    PROVE  DoneBehind' /\ OpenAhead' /\ GoneBehind'
<1>1. \A i \in 1 .. pos - 1 : Order[i] \in Comp \ {Cur}
  BY OrderFacts, OrderAssumption DEF Cur, Ordered, Typed
<1> QED
  BY <1>1 DEF Ordered, DoneBehind, OpenAhead, GoneBehind, Target

LEMMA StepOrdered ==
    ASSUME Ordered, Typed', Step \/ Environment
    PROVE  Ordered'
<1> USE DEF disk, world, backend, counters
<1>1. CASE Skip
  BY <1>1, AdvanceOrdered DEF Skip
<1>2. CASE Prepare \/ (BeginRemoval /\ Cur \in Uninstallable)
  <2>1. /\ host' = [host EXCEPT ![Cur] = Unknown] /\ pc' = "script" /\ pc # "idle"
        /\ plan[Cur] # "noop"
        /\ UNCHANGED <<installed, version, mode, cfg, plan, pos>>
    BY <1>2 DEF Prepare, BeginRemoval
  <2>2. Cur \in Comp /\ Cur' = Cur /\ host \in [Comp -> Entry \cup {None, Unknown}]
    BY <2>1, CurTyped DEF Ordered, Typed, TypeOK, Cur
  <2>3. CurrentStep'
    BY <2>1, <2>2 DEF CurrentStep
  <2> QED
    BY <2>1, <2>2, <2>3, ScriptOrdered DEF Ordered
<1>3. CASE BeginRemoval /\ Cur \notin Uninstallable
  <2>1. CurrentStep'
    BY <1>3 DEF BeginRemoval, CurrentStep, Cur
  <2> QED
    BY <1>3, <2>1, QuietPhase DEF BeginRemoval, Ordered
<1>4. CASE ScriptSucceeds
  <2>1. /\ host' = [host EXCEPT ![Cur] = IF mode = "install" THEN Target(Cur) ELSE None]
        /\ pc = "script" /\ pc' = "exited"
        /\ UNCHANGED <<installed, version, mode, cfg, plan, pos>>
    BY <1>4 DEF ScriptSucceeds
  <2>2. Cur \in Comp /\ Cur' = Cur /\ host \in [Comp -> Entry \cup {None, Unknown}]
    BY <2>1, CurTyped DEF Ordered, Typed, TypeOK, Cur
  <2>3. CurrentStep'
    BY <2>1, <2>2 DEF CurrentStep, Ordered, InFlight, Target
  <2> QED
    BY <2>1, <2>2, <2>3, ScriptOrdered DEF Ordered
<1>5. CASE ScriptFails
  <2>1. CurrentStep'
    BY <1>5 DEF ScriptFails, CurrentStep, Ordered, InFlight, Cur
  <2> QED
    BY <1>5, <2>1, QuietPhase DEF ScriptFails, Ordered
<1>6. CASE FinishScript \/ Adopt \/ NothingToAdopt \/ Publish \/ Unpublish
  <2>1. /\ pc \in {"exited", "adopt", "publish"}
        /\ pc' \in {"adopt", "publish", "persist"}
        /\ UNCHANGED <<installed, host, version, mode, cfg, plan, pos>>
    BY <1>6 DEF FinishScript, Adopt, NothingToAdopt, Publish, Unpublish
  <2>2. CurrentStep'
    BY <2>1 DEF CurrentStep, Ordered, InFlight, Cur, Target
  <2> QED
    BY <2>1, <2>2, QuietPhase DEF Ordered
<1>7. CASE PrepareRaises \/ Abort \/ SecretsMissing \/ Crash
  BY <1>7, IdleOrdered DEF PrepareRaises, Abort, SecretsMissing, Crash, Exit
<1>8. CASE MarkInstalled
  <2>1. plan[Cur] # "noop" /\ host[Cur] = Target(Cur) /\ Cur \in Comp
    BY <1>8, CurTyped DEF MarkInstalled, Ordered, CurrentStep, InFlight
  <2>2. installed \in [Comp -> Entry \cup {None}]
    BY DEF Ordered, Typed, TypeOK
  <2> QED
    BY <1>8, <2>1, <2>2, AdvanceOrdered DEF MarkInstalled
<1>9. CASE MarkUninstalled
  <2>1. plan[Cur] # "noop" /\ Cur \in Comp
    BY <1>9, CurTyped DEF MarkUninstalled, Ordered, CurrentStep, InFlight
  <2>2. installed \in [Comp -> Entry \cup {None}]
    BY DEF Ordered, Typed, TypeOK
  <2> QED
    BY <1>9, <2>1, <2>2, AdvanceOrdered DEF MarkUninstalled
<1>10. ASSUME NEW c \in Comp, BumpVersion(c)
       PROVE  Ordered'
  BY <1>10, IdleOrdered DEF BumpVersion, engine
<1>11. ASSUME NEW c \in Comp, LeaseEnds(c)
       PROVE  Ordered'
  BY <1>11
  DEF LeaseEnds, engine, Ordered, DoneBehind, OpenAhead, GoneBehind, CurrentStep,
      InFlight, Cur, Target
<1> QED
  BY <1>1, <1>2, <1>3, <1>4, <1>5, <1>6, <1>7, <1>8, <1>9, <1>10, <1>11
  DEF Step, Environment

LEMMA NextOrdered == Ordered /\ [Next]_vars => Ordered'
<1> SUFFICES ASSUME Ordered, [Next]_vars PROVE Ordered'
  OBVIOUS
<1>1. Typed'
  BY NextTyped DEF Ordered
<1>2. CASE Next
  BY <1>1, <1>2, StartOrdered, StepOrdered DEF Next
<1>3. CASE UNCHANGED vars
  BY <1>1, <1>3
  DEF vars, disk, world, backend, engine, counters, Ordered, DoneBehind,
      OpenAhead, GoneBehind, CurrentStep, InFlight, Cur, Target
<1> QED
  BY <1>2, <1>3

LEMMA OrderedInvariant == Spec => []Ordered
<1>1. Init => Ordered
  <2> SUFFICES ASSUME Init PROVE Ordered
    OBVIOUS
  <2>1. Typed /\ pc = "idle"
    BY InitTyped DEF Init
  <2> QED
    BY <2>1 DEF Ordered, DoneBehind, OpenAhead, GoneBehind, CurrentStep, InFlight
<1> QED
  BY <1>1, NextOrdered, PTL DEF Spec

\* An install script only ever runs on dependencies that the same run has
\* finished with: for every manifest in topological order.
THEOREM DependenciesComeFirst == Spec => []DependenciesFirst
<1>1. Ordered => DependenciesFirst
  <2> SUFFICES ASSUME Ordered, pc = "script", mode = "install",
                      NEW d \in Depends[Cur], plan[d] # "noop"
               PROVE  host[d] = Target(d) /\ installed[d] = Target(d)
    BY DEF DependenciesFirst
  <2>1. Cur \in Comp /\ pos \in 1 .. Len(Order)
    BY CurTyped DEF Ordered, Typed
  <2>2. PICK j \in DOMAIN Order : d = Order[j]
    BY <2>1, OrderAssumption DEF Comp
  <2>3. j \in 1 .. pos - 1
    BY <2>1, <2>2, OrderFacts, OrderAssumption DEF Cur
  <2> QED
    BY <2>2, <2>3 DEF Ordered, DoneBehind
<1> QED
  BY <1>1, OrderedInvariant, PTL

\* A component is only removed when every dependent that the same run removes
\* is off the state file.
THEOREM DependentsGoFirst == Spec => []DependentsGoneFirst
<1>1. Ordered => DependentsGoneFirst
  <2> SUFFICES ASSUME Ordered, InFlight, mode = "uninstall", NEW d \in Comp,
                      Cur \in Depends[d], plan[d] # "noop"
               PROVE  installed[d] = None
    BY DEF DependentsGoneFirst
  <2>1. pos \in 1 .. Len(Order) /\ pc # "idle"
    BY DEF Ordered, Typed, InFlight
  <2>2. PICK j \in DOMAIN Order : d = Order[j]
    BY DEF Comp
  <2>3. j \in pos + 1 .. Len(Order)
    BY <2>1, <2>2, OrderFacts, OrderAssumption DEF Cur
  <2> QED
    BY <2>1, <2>2, <2>3 DEF Ordered, GoneBehind
<1> QED
  BY <1>1, OrderedInvariant, PTL

\* Wherever a run dies in the middle of an install, upgrade or reconfigure, the
\* state file still asks for it.
THEOREM InterruptedStepsAreRetried == Spec => []InterruptedIsRetried
<1>1. Ordered => InterruptedIsRetried
  <2> SUFFICES ASSUME Ordered, InFlight,
                      plan[Cur] \in {"install", "upgrade", "reconfigure"}
               PROVE  installed[Cur] # Target(Cur)
    BY DEF InterruptedIsRetried
  <2>1. pos \in pos .. Len(Order) /\ pc # "idle" /\ Cur \in Comp
    BY CurTyped, OrderFacts DEF Ordered, Typed, InFlight
  <2>2. mode = "install"
    BY <2>1 DEF Ordered, GoneBehind, Typed, TypeOK
  <2> QED
    BY <2>1, <2>2 DEF Ordered, OpenAhead, Cur
<1> QED
  BY <1>1, OrderedInvariant, PTL

-----------------------------------------------------------------------------
(* What holds as long as the state file is written in one piece.             *)

\* Data in use belongs to a component in the state file.
Kept == \A c \in live : installed[c] # None

\* Starting a run leaves the state file and the host alone.
LEMMA StartQuiet ==
    ASSUME Start
    PROVE  UNCHANGED <<installed, host, live>>
<1>1. PICK selected \in SUBSET Comp, found \in SUBSET Backends :
        \/ \E values \in Configs, forced \in {{}, selected}, failed \in SUBSET Comp :
              StartInstall(selected, values, forced, found, failed)
        \/ StartUninstall(selected, found)
  BY DEF Start
<1>2. ASSUME NEW values \in Configs, NEW forced \in {{}, selected},
             NEW failed \in SUBSET Comp,
             StartInstall(selected, values, forced, found, failed)
      PROVE  UNCHANGED <<installed, world>>
  BY <1>2 DEF StartInstall
<1>3. CASE StartUninstall(selected, found)
  BY <1>3 DEF StartUninstall, disk, world
<1> QED
  BY <1>1, <1>2, <1>3 DEF world

\* With atomic saves the environment leaves the state file and data alone.
LEMMA EnvironmentQuiet ==
    ASSUME ~ TornWrites, Environment
    PROVE  UNCHANGED <<installed, host, live>>
<1>1. CASE SecretsMissing
  BY <1>1 DEF SecretsMissing, disk, world
<1>2. CASE Crash
  BY <1>2 DEF Crash
<1>3. CASE \E c \in Comp : BumpVersion(c) \/ LeaseEnds(c)
  BY <1>3 DEF BumpVersion, LeaseEnds, disk, world
<1> QED
  BY <1>1, <1>2, <1>3 DEF Environment

LEMMA NextKept ==
    ASSUME ~ TornWrites, Ordered, Kept, [Next]_vars
    PROVE  Kept'
<1> USE DEF disk, world, backend, engine, counters
<1>1. CASE MarkInstalled
  <2>1. /\ Cur \in Comp /\ Target(Cur) \in Entry
        /\ installed \in [Comp -> Entry \cup {None}] /\ live \subseteq Comp
    BY <1>1, CurTyped, TargetTyped DEF MarkInstalled, Ordered, Typed, TypeOK
  <2>2. /\ installed' = [installed EXCEPT ![Cur] = Target(Cur)]
        /\ live' = live \cup {Cur}
    BY <1>1 DEF MarkInstalled
  <2> QED
    BY <2>1, <2>2, ConstantAssumption DEF Kept
<1>2. CASE MarkUninstalled
  <2>1. Cur \in Comp /\ installed \in [Comp -> Entry \cup {None}] /\ live \subseteq Comp
    BY <1>2, CurTyped DEF MarkUninstalled, Ordered, Typed, TypeOK
  <2>2. /\ installed' = [installed EXCEPT ![Cur] = None]
        /\ live' = live \ {Cur}
    BY <1>2 DEF MarkUninstalled
  <2> QED
    BY <2>1, <2>2 DEF Kept
<1>3. CASE (Step /\ ~ MarkInstalled /\ ~ MarkUninstalled) \/ UNCHANGED vars
  <2>1. installed' = installed /\ live' \subseteq live
    BY <1>3
    DEF Step, vars, Skip, Prepare, PrepareRaises, BeginRemoval, ScriptSucceeds, ScriptFails,
        FinishScript, Abort, Adopt, NothingToAdopt, Publish, Unpublish
  <2> QED
    BY <2>1 DEF Kept
<1>4. CASE Start \/ Environment
  BY <1>4, StartQuiet, EnvironmentQuiet DEF Kept
<1> QED
  BY <1>1, <1>2, <1>3, <1>4 DEF Next

LEMMA KeptInvariant ==
    ASSUME ~ TornWrites
    PROVE  Spec => [](Ordered /\ Kept)
<1>1. Init => Kept
  BY DEF Init, Kept
<1>2. Ordered /\ Kept /\ [Next]_vars => Kept'
  BY NextKept
<1> QED
  BY <1>1, <1>2, OrderedInvariant, PTL DEF Spec

\* No install-mode run starts a script as "install" on a component in use.
THEOREM InstallKeepsData ==
    ASSUME ~ TornWrites
    PROVE  Spec => DataSurvives
<1>1. Ordered /\ Kept /\ [Next]_vars => [mode = "install" => live \subseteq live']_vars
  <2> SUFFICES ASSUME Ordered, Kept, Next, mode = "install"
               PROVE  live \subseteq live'
    BY DEF vars
  <2> USE DEF disk, world, backend, engine, counters
  <2>1. CASE Prepare
    <3>1. pos \in pos .. Len(Order) /\ pc # "idle" /\ Cur \in Comp
      BY <2>1, CurTyped, OrderFacts DEF Prepare, Ordered, Typed
    <3>2. plan[Cur] = "install" => Cur \notin live
      BY <3>1 DEF Ordered, OpenAhead, Kept, Cur
    <3> QED
      BY <2>1, <3>2 DEF Prepare
  <2>2. CASE Start \/ Environment
    BY <2>2, StartQuiet, EnvironmentQuiet
  <2>3. CASE Step /\ ~ Prepare
    BY <2>3
    DEF Step, Skip, PrepareRaises, BeginRemoval, ScriptSucceeds, ScriptFails,
        FinishScript, Abort, Adopt, NothingToAdopt, Publish, Unpublish,
        MarkInstalled, MarkUninstalled
  <2> QED
    BY <2>1, <2>2, <2>3 DEF Next
<1> QED
  BY <1>1, KeptInvariant, PTL DEF Spec, DataSurvives

\* Every step of the installer is a step of the ledger, or leaves the state
\* file and the host alone.
THEOREM LedgerImplemented ==
    ASSUME ~ TornWrites
    PROVE  Spec => ImplementsLedger
<1>1. Init => Ledger!Init
  BY DEF Init, Ledger!Init
<1>2. Ordered /\ [Next]_vars => [Ledger!Next]_<<installed, host>>
  <2> SUFFICES ASSUME Ordered, Next
               PROVE  [Ledger!Next]_<<installed, host>>
    BY DEF vars, disk, world
  <2> USE DEF disk, world, backend, engine, counters
  <2>1. CASE Prepare \/ (BeginRemoval /\ Cur \in Uninstallable)
    <3>1. Cur \in Comp
      BY <2>1, CurTyped DEF Prepare, BeginRemoval, Ordered
    <3>2. Ledger!Begin(Cur)
      BY <2>1 DEF Prepare, BeginRemoval, Ledger!Begin
    <3> QED
      BY <3>1, <3>2 DEF Ledger!Next
  <2>2. CASE ScriptSucceeds
    <3>1. Cur \in Comp /\ host[Cur] = Unknown /\ mode \in {"install", "uninstall"}
      BY <2>2, CurTyped DEF ScriptSucceeds, Ordered, CurrentStep, Typed, TypeOK
    <3>2. PICK e \in Entry \cup {None} : host' = [host EXCEPT ![Cur] = e]
      BY <2>2, <3>1, TargetTyped DEF ScriptSucceeds, Ordered
    <3>3. Ledger!Finish(Cur)
      BY <2>2, <3>1, <3>2 DEF ScriptSucceeds, Ledger!Finish
    <3> QED
      BY <3>1, <3>3 DEF Ledger!Next
  <2>3. CASE MarkInstalled
    <3>1. Cur \in Comp /\ host[Cur] = Target(Cur) /\ Target(Cur) \in Entry
      BY <2>3, CurTyped, TargetTyped DEF MarkInstalled, Ordered, CurrentStep
    <3>2. Ledger!Record(Cur)
      BY <2>3, <3>1, ConstantAssumption DEF MarkInstalled, Ledger!Record
    <3> QED
      BY <3>1, <3>2 DEF Ledger!Next
  <2>4. CASE MarkUninstalled
    <3>1. Cur \in Comp
      BY <2>4, CurTyped DEF MarkUninstalled, Ordered
    <3>2. Ledger!Forget(Cur)
      BY <2>4 DEF MarkUninstalled, Ledger!Forget
    <3> QED
      BY <3>1, <3>2 DEF Ledger!Next
  <2>5. CASE Start \/ Environment
    BY <2>5, StartQuiet, EnvironmentQuiet
  <2>6. CASE \/ Skip \/ PrepareRaises \/ (BeginRemoval /\ Cur \notin Uninstallable)
             \/ ScriptFails \/ FinishScript \/ Abort
             \/ Adopt \/ NothingToAdopt \/ Publish \/ Unpublish
    BY <2>6
    DEF Skip, PrepareRaises, BeginRemoval, ScriptFails, FinishScript, Abort,
        Adopt, NothingToAdopt, Publish, Unpublish
  <2> QED
    BY <2>1, <2>2, <2>3, <2>4, <2>5, <2>6 DEF Next, Step
<1> QED
  BY <1>1, <1>2, OrderedInvariant, PTL DEF Spec, ImplementsLedger, Ledger!Spec


-----------------------------------------------------------------------------
(* What a run leaves in Consul and Vault when no call failed                 *)

\* What the start of a run changes, of either kind.
Starts ==
    /\ pc' = "step" /\ held' = {} /\ (mode' = "install" => pos' = 1)
    /\ client' \subseteq up /\ UNCHANGED <<world, orphans>>
    /\ \/ Fault
       \/ client' = up /\ UNCHANGED faults

LEMMA StartChanges ==
    ASSUME Start
    PROVE  Starts
<1>1. ASSUME NEW selected, NEW values, NEW forced, NEW found, NEW failed,
             StartInstall(selected, values, forced, found, failed)
      PROVE  Starts
  <2>1. /\ found \subseteq up /\ client' = found /\ FaultIf(found # up \/ failed # {})
        /\ pc' = "step" /\ held' = {} /\ pos' = 1 /\ UNCHANGED <<world, orphans>>
    BY <1>1 DEF StartInstall
  <2> QED
    BY <2>1 DEF FaultIf, Starts
<1>2. ASSUME NEW selected, NEW found, StartUninstall(selected, found)
      PROVE  Starts
  <2>1. /\ found \subseteq up /\ client' = found /\ FaultIf(found # up)
        /\ pc' = "step" /\ held' = {} /\ mode' = "uninstall"
        /\ UNCHANGED <<world, orphans>>
    BY <1>2 DEF StartUninstall, backend
  <2> QED
    BY <2>1 DEF FaultIf, Starts
<1> QED
  BY <1>1, <1>2 DEF Start

\* The count of failed calls never goes back.
LEMMA FaultsGrow ==
    ASSUME Typed, [Next]_vars, faults' = 0
    PROVE  faults = 0 /\ ~ Fault
<1>1. ~ Fault
  BY DEF Fault, Typed, TypeOK
<1>2. UNCHANGED faults
  <2>1. CASE Start
    BY <2>1, <1>1, StartChanges DEF Starts
  <2>2. CASE Step
    BY <2>2, <1>1
    DEF Step, Skip, Prepare, PrepareRaises, BeginRemoval,
        ScriptSucceeds, ScriptFails, FinishScript, Abort, Revoke, Adopt, FaultIf,
        NothingToAdopt, Publish, Unpublish, MarkInstalled, MarkUninstalled, counters
  <2>3. CASE Environment
    BY <2>3, <1>1 DEF Environment, SecretsMissing, Crash, BumpVersion, LeaseEnds, counters
  <2>4. CASE UNCHANGED vars
    BY <2>4 DEF vars, counters
  <2> QED
    BY <2>1, <2>2, <2>3, <2>4 DEF Next
<1> QED
  BY <1>1, <1>2

\* Only an install step holds a token, from its start until its script is
\* over, and as long as it does Vault can be reached to revoke it.
Holding ==
    held # {} =>
        /\ pc \in {"script", "exited", "failed"} /\ mode = "install"
        /\ Cur # Vault /\ Reaches(Vault)

\* Without a failed call or a failed lookup nothing leaves a token behind.
NoneLeft ==
    faults = 0 /\ (\A c \in Comp : Needs[c] = {}) => orphans = {}

LEMMA NextHolding ==
    ASSUME Typed, Holding, [Next]_vars
    PROVE  Holding'
<1> USE DEF disk, world, backend, engine, counters
<1>1. CASE Prepare
  <2>1. /\ pc' = "script" /\ mode' = "install"
        /\ UNCHANGED <<up, client, pos>>
        /\ held' # {} => Cur # Vault /\ Reaches(Vault)
    BY <1>1, Prepared DEF Prepare
  <2> QED
    BY <2>1 DEF Holding, Reaches, Cur
<1>2. CASE ScriptSucceeds
  BY <1>2 DEF ScriptSucceeds, Holding, Reaches, Cur
<1>3. CASE ScriptFails
  BY <1>3 DEF ScriptFails, HalfDone, Holding, Reaches, Cur
<1>4. CASE BeginRemoval \/ NothingToAdopt \/ Adopt \/ Publish \/ Unpublish
  BY <1>4 DEF BeginRemoval, NothingToAdopt, Adopt, Publish, Unpublish, Holding
<1>5. CASE FinishScript \/ Abort \/ Crash \/ SecretsMissing \/ PrepareRaises
  BY <1>5 DEF FinishScript, Abort, Crash, SecretsMissing, PrepareRaises, Exit, Holding
<1>6. CASE Skip \/ MarkInstalled \/ MarkUninstalled
  BY <1>6 DEF Skip, MarkInstalled, MarkUninstalled, Advance, Exit, Holding
<1>7. CASE Start
  BY <1>7, StartChanges DEF Starts, Holding
<1>8. CASE \E c \in Comp : BumpVersion(c) \/ LeaseEnds(c)
  BY <1>8 DEF BumpVersion, LeaseEnds, Holding, Reaches, Cur
<1>9. CASE UNCHANGED vars
  BY <1>9 DEF vars, Holding, Reaches, Cur
<1> QED
  BY <1>1, <1>2, <1>3, <1>4, <1>5, <1>6, <1>7, <1>8, <1>9
  DEF Next, Step, Environment

LEMMA NextNoneLeft ==
    ASSUME Typed, Holding, NoneLeft, [Next]_vars
    PROVE  NoneLeft'
<1> SUFFICES ASSUME faults' = 0, \A c \in Comp : Needs[c] = {}
             PROVE  orphans' = {}
  BY DEF NoneLeft
<1>1. faults = 0 /\ ~ Fault /\ orphans = {}
  BY FaultsGrow DEF NoneLeft
<1> USE DEF disk, world, backend, engine, counters
<1>2. CASE Skip \/ MarkInstalled \/ MarkUninstalled
  BY <1>1, <1>2 DEF Skip, MarkInstalled, MarkUninstalled, Advance, Abandoned, Holding
<1>3. CASE FinishScript \/ Abort
  BY <1>1, <1>3 DEF FinishScript, Abort, Revoke
<1>4. CASE PrepareRaises
  <2>1. Cur \in Comp
    BY <1>4, CurTyped DEF PrepareRaises
  <2>2. ASSUME NEW failing \in BOOLEAN, FaultIf(failing)
        PROVE  failing = FALSE
    BY <1>1, <2>2 DEF FaultIf
  <2>3. Undiscovered # {}
    BY <1>4, <2>2 DEF PrepareRaises
  <2> QED
    BY <2>1, <2>3 DEF Undiscovered
<1>5. CASE Crash \/ SecretsMissing
  BY <1>1, <1>5 DEF Crash, SecretsMissing
<1>6. CASE Start
  BY <1>1, <1>6, StartChanges DEF Starts
<1>7. CASE \/ Prepare \/ BeginRemoval \/ ScriptSucceeds \/ ScriptFails
           \/ Adopt \/ NothingToAdopt \/ Publish \/ Unpublish
  BY <1>1, <1>7
  DEF Prepare, BeginRemoval, ScriptSucceeds, ScriptFails, Adopt, NothingToAdopt,
      Publish, Unpublish
<1>8. CASE (\E c \in Comp : BumpVersion(c) \/ LeaseEnds(c)) \/ UNCHANGED vars
  BY <1>1, <1>8 DEF BumpVersion, LeaseEnds, vars
<1> QED
  BY <1>2, <1>3, <1>4, <1>5, <1>6, <1>7, <1>8 DEF Next, Step, Environment

\* However the scripts of a run end, no install token outlives its step unless
\* a call failed or the process died, for every manifest that discovers nothing.
THEOREM StepsAlwaysRevoke == Spec => []StepsRevokeTokens
<1> DEFINE IInv == Typed /\ Holding /\ NoneLeft
<1>1. Init => IInv
  BY InitTyped DEF Init, Holding, NoneLeft
<1>2. IInv /\ [Next]_vars => IInv'
  BY NextTyped, NextHolding, NextNoneLeft
<1>3. IInv => StepsRevokeTokens
  BY DEF NoneLeft, StepsRevokeTokens
<1> QED
  BY <1>1, <1>2, <1>3, PTL DEF Spec

-----------------------------------------------------------------------------
(* Catalog and policies against the state file                               *)

\* Both backends are of another stack, and no call has failed.
Steady == faults = 0 /\ External = Backends

Recorded == {c \in Comp : installed[c] # None /\ Registers(c)}
Own == {c \in {Cur} : Registers(c)}

\* The components whose services the catalog should show: those of the state
\* file, and between publication and record the current component as it will be.
Shown ==
    IF pc # "persist" THEN Recorded
    ELSE IF mode = "install" THEN Recorded \cup Own
    ELSE Recorded \ {Cur}

Reachable == Steady => up = Backends /\ (pc # "idle" => client = Backends)
Matched == Steady => catalog = Shown

\* The same for the service policies, component by component: the ones that
\* should be there, and the ones that may be there before they should.
Owed(c) ==
    /\ Registers(c) \/ c \in Runtime
    /\ IF pc = "persist" /\ c = Cur THEN mode = "install" ELSE installed[c] # None
Underway(c) == c = Cur /\ pc \in {"script", "exited", "failed", "adopt", "publish"}
Begun(c) == c \in Runtime /\ (host[c] = Unknown \/ Needs[c] # {} \/ Underway(c))
HasPolicy(c) == <<c, "service">> \in policies

GrantedWell(c) ==
    /\ Owed(c) => HasPolicy(c)
    /\ HasPolicy(c) => Owed(c) \/ Begun(c)
    /\ Underway(c) /\ mode = "install" /\ c \in Runtime => HasPolicy(c)
    /\ c = Cur /\ pc \in {"script", "failed"} => host[c] = Unknown

PoliciesMatch == Steady => \A c \in Comp : GrantedWell(c)

\* No component of the stack is a backend, so no script takes one down.
LEMMA NextReachable ==
    ASSUME Typed, Reachable, [Next]_vars
    PROVE  Reachable'
<1> SUFFICES ASSUME faults' = 0, External = Backends
             PROVE  up' = Backends /\ (pc' # "idle" => client' = Backends)
  BY DEF Reachable, Steady
<1>1. faults = 0 /\ ~ Fault /\ up = Backends /\ (pc # "idle" => client = Backends)
  BY FaultsGrow DEF Reachable, Steady
<1>2. Comp \cap Backends = {}
  BY ConstantAssumption
<1> USE DEF disk, world, backend, engine, counters
<1>3. CASE Start
  BY <1>1, <1>3, StartChanges DEF Starts
<1>4. CASE ScriptSucceeds \/ ScriptFails
  <2>1. Cur \in Comp
    BY <1>4, CurTyped DEF ScriptSucceeds, ScriptFails
  <2> QED
    BY <1>1, <1>2, <1>4, <2>1 DEF ScriptSucceeds, ScriptFails, HalfDone
<1>5. CASE Skip \/ MarkInstalled \/ MarkUninstalled
  BY <1>1, <1>5 DEF Skip, MarkInstalled, MarkUninstalled, Advance, Exit
<1>6. CASE Abort \/ PrepareRaises
  BY <1>1, <1>6 DEF Abort, PrepareRaises, Exit
<1>7. CASE Crash \/ SecretsMissing
  BY <1>1, <1>7 DEF Crash, SecretsMissing
<1>8. CASE Adopt
  <2>1. Cur \in Comp
    BY <1>8, CurTyped DEF Adopt
  <2> QED
    BY <1>2, <1>8, <2>1 DEF Adopt, Adopts
<1>9. CASE Prepare \/ BeginRemoval \/ FinishScript \/ NothingToAdopt \/ Publish \/ Unpublish
  BY <1>1, <1>9
  DEF Prepare, BeginRemoval, FinishScript, NothingToAdopt, Publish, Unpublish
<1>10. CASE (\E c \in Comp : BumpVersion(c) \/ LeaseEnds(c)) \/ UNCHANGED vars
  BY <1>1, <1>10 DEF BumpVersion, LeaseEnds, vars
<1> QED
  BY <1>3, <1>4, <1>5, <1>6, <1>7, <1>8, <1>9, <1>10 DEF Next, Step, Environment

\* A phase that leaves the state file and the catalog.
LEMMA QuietMatched ==
    ASSUME catalog = Recorded, pc' # "persist", UNCHANGED <<installed, catalog>>
    PROVE  catalog' = Shown'
<1>1. Shown' = Recorded
  BY DEF Shown, Recorded, Registers
<1> QED
  BY <1>1

\* The loop moves on to a component, or ends, with the record up to date.
LEMMA AdvanceMatched ==
    ASSUME Advance, UNCHANGED catalog, catalog = Shown, Recorded' = Shown
    PROVE  catalog' = Shown'
<1>1. pc' # "persist"
  BY DEF Advance, Exit
<1> QED
  BY <1>1 DEF Shown

LEMMA NextMatched ==
    ASSUME Typed, Typed', Reachable, Matched, [Next]_vars
    PROVE  Matched'
<1> SUFFICES ASSUME faults' = 0, External = Backends
             PROVE  catalog' = Shown'
  BY DEF Matched, Steady
<1>1. /\ faults = 0 /\ ~ Fault /\ up = Backends /\ (pc # "idle" => client = Backends)
      /\ catalog = Shown
  BY FaultsGrow DEF Reachable, Matched, Steady
<1>2. Comp \cap Backends = {}
  BY ConstantAssumption
<1>3. pc # "persist" => catalog = Recorded
  BY <1>1 DEF Shown
<1> USE DEF disk, world, backend, engine, counters
<1>4. ASSUME NEW selected \in SUBSET Comp, NEW values \in Configs,
             NEW forced \in SUBSET Comp, NEW found \in SUBSET Backends,
             NEW failed \in SUBSET Comp,
             StartInstall(selected, values, forced, found, failed)
      PROVE  catalog' = Shown'
  <2>1. /\ found = up /\ failed = {} /\ pc = "idle" /\ pc' = "step"
        /\ UNCHANGED installed
    BY <1>1, <1>4 DEF StartInstall, FaultIf
  <2>2. catalog' = catalog \cup First(Missing(Recorded) \ {})
    BY <1>1, <1>4, <2>1 DEF StartInstall, RegisterMissing, Recorded, Backends
  <2>3. Missing(Recorded) = {}
    BY <1>3, <2>1 DEF Missing, Discovers
  <2>4. catalog' = catalog
    BY <2>2, <2>3 DEF First
  <2> QED
    BY <1>3, <2>1, <2>4, QuietMatched
<1>5. ASSUME NEW selected \in SUBSET Comp, NEW found \in SUBSET Backends,
             StartUninstall(selected, found)
      PROVE  catalog' = Shown'
  BY <1>3, <1>5, QuietMatched DEF StartUninstall
<1>6. CASE Skip
  BY <1>1, <1>3, <1>6, AdvanceMatched DEF Skip, Recorded, Registers, Shown
<1>7. CASE Prepare
  BY <1>3, <1>7, QuietMatched DEF Prepare
<1>8. CASE PrepareRaises
  BY <1>3, <1>8, QuietMatched DEF PrepareRaises, Exit
<1>9. CASE ScriptSucceeds
  <2>1. Cur \in Comp
    BY <1>9, CurTyped DEF ScriptSucceeds
  <2>2. UNCHANGED <<installed, catalog>> /\ pc = "script" /\ pc' = "exited"
    BY <1>2, <1>9, <2>1 DEF ScriptSucceeds, Backends
  <2> QED
    BY <1>3, <2>2, QuietMatched
<1>10. CASE BeginRemoval \/ ScriptFails \/ FinishScript \/ NothingToAdopt \/ Abort
  BY <1>3, <1>10, QuietMatched
  DEF BeginRemoval, ScriptFails, FinishScript, NothingToAdopt, Abort, Exit
<1>11. CASE Adopt
  <2>1. Cur \in Comp
    BY <1>11, CurTyped DEF Adopt
  <2> QED
    BY <1>2, <1>11, <2>1 DEF Adopt, Adopts
<1>12. CASE Publish
  <2>1. Cur \in Comp /\ Cur' = Cur /\ client = Backends
    BY <1>1, <1>12, CurTyped DEF Publish, Cur
  <2>2. catalog' = catalog \cup Own
    <3>1. {Cur} \cap {c \in Comp : Registers(c)} = Own
      BY <2>1 DEF Own
    <3> QED
      BY <1>1, <1>12, <2>1, <3>1 DEF Publish, Reaches, Backends
  <2>3. Shown' = Recorded \cup Own
    BY <1>12, <2>1 DEF Publish, Shown, Recorded, Own, Registers
  <2> QED
    BY <1>3, <1>12, <2>2, <2>3 DEF Publish
<1>13. CASE Unpublish
  <2>1. Cur \in Comp /\ Cur' = Cur /\ client = Backends
    BY <1>1, <1>13, CurTyped DEF Unpublish, Cur
  <2>2. catalog' = catalog \ {Cur}
    BY <1>1, <1>13, <2>1 DEF Unpublish, Reaches, Backends
  <2>3. Shown' = Recorded \ {Cur}
    BY <1>13, <2>1 DEF Unpublish, Shown, Recorded, Registers
  <2> QED
    BY <1>3, <1>13, <2>2, <2>3 DEF Unpublish
<1>14. CASE MarkInstalled
  <2>1. /\ Cur \in Comp /\ Target(Cur) \in Entry
        /\ installed \in [Comp -> Entry \cup {None}]
    BY <1>14, CurTyped, TargetTyped DEF MarkInstalled, Typed, TypeOK
  <2>2. Recorded' = Recorded \cup Own
    BY <1>14, <2>1, ConstantAssumption DEF MarkInstalled, Recorded, Own, Registers
  <2> QED
    BY <1>1, <1>14, <2>2, AdvanceMatched DEF MarkInstalled, Shown
<1>15. CASE MarkUninstalled
  <2>1. Cur \in Comp /\ installed \in [Comp -> Entry \cup {None}]
    BY <1>15, CurTyped DEF MarkUninstalled, Typed, TypeOK
  <2>2. Recorded' = Recorded \ {Cur}
    BY <1>15, <2>1 DEF MarkUninstalled, Recorded, Registers
  <2> QED
    BY <1>1, <1>15, <2>2, AdvanceMatched DEF MarkUninstalled, Shown
<1>16. CASE Crash \/ SecretsMissing
  BY <1>1, <1>16 DEF Crash, SecretsMissing
<1>17. CASE \E c \in Comp : BumpVersion(c)
  BY <1>3, <1>17, QuietMatched DEF BumpVersion
<1>18. CASE (\E c \in Comp : LeaseEnds(c)) \/ UNCHANGED vars
  BY <1>1, <1>18 DEF LeaseEnds, vars, Shown, Recorded, Own, Registers, Cur
<1> QED
  BY <1>4, <1>5, <1>6, <1>7, <1>8, <1>9, <1>10, <1>11, <1>12, <1>13, <1>14,
     <1>15, <1>16, <1>17, <1>18
  DEF Next, Start, Step, Environment

\* A phase that leaves the policies, the record and the host, and either goes
\* on with the same component or has nothing of its own under way.
LEMMA QuietGranted ==
    ASSUME NEW c \in Comp, GrantedWell(c), UNCHANGED <<policies, installed, host>>,
           pc # "persist", pc' # "persist",
           \/ UNCHANGED <<pos, mode>> /\ ~ (pc' \in {"script", "failed"} /\ pc # "script")
              /\ (pc \in {"script", "exited", "failed", "adopt", "publish"}
                  <=> pc' \in {"script", "exited", "failed", "adopt", "publish"})
           \/ pc \in {"idle", "step", "failed"} /\ pc' \in {"idle", "step"}
    PROVE  GrantedWell(c)'
<1>1. (Owed(c)' <=> Owed(c)) /\ (HasPolicy(c)' <=> HasPolicy(c))
  BY DEF Owed, HasPolicy, Registers
<1>2. CASE UNCHANGED pos
  BY <1>1, <1>2 DEF GrantedWell, Begun, Underway, Cur
<1>3. CASE pc \in {"idle", "step", "failed"} /\ pc' \in {"idle", "step"}
  BY <1>1, <1>3 DEF GrantedWell, Begun, Underway
<1> QED
  BY <1>2, <1>3

\* The loop moves on with the policies, the host and what is recorded as the
\* step left them.
LEMMA AdvanceGranted ==
    ASSUME NEW c \in Comp, GrantedWell(c), Advance, pc \in {"step", "persist"},
           UNCHANGED <<policies, host>>,
           installed'[c] # None <=>
               IF pc = "persist" /\ c = Cur THEN mode = "install" ELSE installed[c] # None
    PROVE  GrantedWell(c)'
<1>1. pc' \in {"step", "idle"}
  BY DEF Advance, Exit
<1>2. (Owed(c)' <=> Owed(c)) /\ (HasPolicy(c)' <=> HasPolicy(c))
  BY <1>1 DEF Owed, HasPolicy, Registers
<1> QED
  BY <1>1, <1>2 DEF GrantedWell, Begun, Underway

LEMMA NextGranted ==
    ASSUME Typed, Reachable, PoliciesMatch, [Next]_vars
    PROVE  PoliciesMatch'
<1> SUFFICES ASSUME faults' = 0, External = Backends, NEW c \in Comp
             PROVE  GrantedWell(c)'
  BY DEF PoliciesMatch, Steady
<1>1. /\ ~ Fault /\ up = Backends /\ (pc # "idle" => client = Backends)
      /\ GrantedWell(c)
  BY FaultsGrow DEF Reachable, PoliciesMatch, Steady
<1> USE DEF disk, world, backend, engine, counters
<1>2. ASSUME NEW selected \in SUBSET Comp, NEW values \in Configs,
             NEW forced \in SUBSET Comp, NEW found \in SUBSET Backends,
             NEW failed \in SUBSET Comp,
             StartInstall(selected, values, forced, found, failed)
      PROVE  GrantedWell(c)'
  <2>1. /\ pc = "idle" /\ pc' = "step" /\ UNCHANGED <<installed, host>>
        /\ \/ policies' = policies
           \/ \E cs \in SUBSET Recorded : policies' = policies \cup (cs \X {"service"})
    BY <1>2 DEF StartInstall, Recorded
  <2>2. Owed(c)' <=> Owed(c)
    BY <2>1 DEF Owed, Registers
  <2>3. HasPolicy(c)' <=> HasPolicy(c)
    BY <1>1, <2>1 DEF HasPolicy, GrantedWell, Owed, Recorded
  <2> QED
    BY <1>1, <2>1, <2>2, <2>3 DEF GrantedWell, Begun, Underway
<1>3. ASSUME NEW selected \in SUBSET Comp, NEW found \in SUBSET Backends,
             StartUninstall(selected, found)
      PROVE  GrantedWell(c)'
  BY <1>1, <1>3, QuietGranted DEF StartUninstall
<1>4. CASE Skip
  BY <1>1, <1>4, AdvanceGranted DEF Skip
<1>5. CASE Prepare \/ PrepareRaises
  <2>1. /\ Cur \in Comp /\ mode = "install" /\ pc = "step" /\ UNCHANGED installed
        /\ client = Backends
    BY <1>1, <1>5, CurTyped DEF Prepare, PrepareRaises
  <2>2. policies' = policies \cup Granted
    <3>1. PICK token \in SUBSET {Cur}, failing \in BOOLEAN :
              MintTokens(token, failing) /\ FaultIf(failing)
      <4>1. CASE Prepare
        BY <4>1 DEF Prepare
      <4>2. CASE PrepareRaises
        BY <4>2 DEF PrepareRaises
      <4> QED
        BY <1>5, <4>1, <4>2
    <3>2. failing = FALSE /\ Reaches(Vault)
      BY <1>1, <2>1, <3>1 DEF FaultIf, Reaches, Backends
    <3> QED
      BY <3>1, <3>2 DEF MintTokens
  <2>3. /\ c # Cur => (HasPolicy(c)' <=> HasPolicy(c))
        /\ c = Cur => (HasPolicy(c)' <=> HasPolicy(c) \/ c \in Runtime)
    BY <2>1, <2>2 DEF HasPolicy, Granted
  <2>4. CASE Prepare
    <3>1. /\ pc' = "script" /\ UNCHANGED <<pos, mode>>
          /\ host' = [host EXCEPT ![Cur] = Unknown] /\ host \in [Comp -> Entry \cup {None, Unknown}]
      BY <2>4 DEF Prepare, Typed, TypeOK
    <3>2. Cur' = Cur /\ (Owed(c)' <=> Owed(c))
      BY <2>1, <3>1 DEF Cur, Owed, Registers
    <3> QED
      BY <1>1, <2>1, <2>3, <3>1, <3>2 DEF GrantedWell, Begun, Underway
  <2>5. CASE PrepareRaises
    <3>1. pc' = "idle" /\ UNCHANGED host
      BY <2>5 DEF PrepareRaises, Exit
    <3>2. Needs[Cur] # {}
      BY <1>1, <2>5 DEF PrepareRaises, FaultIf, Undiscovered
    <3>3. Owed(c)' <=> Owed(c)
      BY <2>1, <3>1 DEF Owed, Registers
    <3> QED
      BY <1>1, <2>1, <2>3, <3>1, <3>2, <3>3 DEF GrantedWell, Begun, Underway
  <2> QED
    BY <1>5, <2>4, <2>5
<1>6. CASE BeginRemoval
  <2>1. /\ pc = "step" /\ mode = "uninstall" /\ UNCHANGED <<installed, policies, pos, mode>>
        /\ \/ pc' = "script" /\ host' = [host EXCEPT ![Cur] = Unknown]
           \/ pc' = "adopt" /\ UNCHANGED host
        /\ host \in [Comp -> Entry \cup {None, Unknown}]
    BY <1>6 DEF BeginRemoval, Typed, TypeOK
  <2>2. Cur' = Cur /\ (Owed(c)' <=> Owed(c)) /\ (HasPolicy(c)' <=> HasPolicy(c))
    BY <2>1 DEF Cur, Owed, HasPolicy, Registers
  <2> QED
    BY <1>1, <2>1, <2>2 DEF GrantedWell, Begun, Underway
<1>7. CASE ScriptSucceeds
  <2>1. Cur \in Comp
    BY <1>7, CurTyped DEF ScriptSucceeds
  <2>2. /\ pc = "script" /\ pc' = "exited" /\ UNCHANGED <<installed, policies, pos, mode>>
        /\ c # Cur => host'[c] = host[c]
    BY <1>7, <2>1, ConstantAssumption DEF ScriptSucceeds, Backends, Typed, TypeOK
  <2>3. Cur' = Cur /\ (Owed(c)' <=> Owed(c)) /\ (HasPolicy(c)' <=> HasPolicy(c))
    BY <2>2 DEF Cur, Owed, HasPolicy, Registers
  <2> QED
    BY <1>1, <2>2, <2>3 DEF GrantedWell, Begun, Underway
<1>8. CASE ScriptFails \/ FinishScript \/ NothingToAdopt \/ Adopt
  BY <1>1, <1>8, QuietGranted DEF ScriptFails, FinishScript, NothingToAdopt, Adopt
<1>9. CASE Abort
  BY <1>1, <1>9, QuietGranted DEF Abort, Exit
<1>10. CASE Publish
  <2>1. /\ Cur \in Comp /\ client = Backends /\ pc = "publish" /\ mode = "install"
        /\ pc' = "persist" /\ UNCHANGED <<installed, host, pos, mode>>
    BY <1>1, <1>10, CurTyped DEF Publish
  <2>2. policies' = policies \cup {<<a, "service">> : a \in {Cur} \cap {a \in Comp : Registers(a)}}
    BY <1>1, <1>10, <2>1 DEF Publish, Reaches, Backends
  <2>3. HasPolicy(c)' <=> HasPolicy(c) \/ (c = Cur /\ Registers(c))
    BY <2>1, <2>2 DEF HasPolicy
  <2>4. Cur' = Cur /\ (Owed(c)' <=> IF c = Cur THEN Registers(c) \/ c \in Runtime ELSE Owed(c))
    BY <2>1 DEF Cur, Owed, Registers
  <2> QED
    BY <1>1, <2>1, <2>3, <2>4 DEF GrantedWell, Begun, Underway, Owed
<1>11. CASE Unpublish
  <2>1. /\ Cur \in Comp /\ client = Backends /\ pc = "publish" /\ mode = "uninstall"
        /\ pc' = "persist" /\ UNCHANGED <<installed, host, pos, mode>>
    BY <1>1, <1>11, CurTyped DEF Unpublish
  <2>2. policies' = policies \ {<<Cur, "service">>, <<Cur, "install">>}
    BY <1>1, <1>11, <2>1 DEF Unpublish, Reaches, Backends
  <2>3. HasPolicy(c)' <=> HasPolicy(c) /\ c # Cur
    BY <2>1, <2>2 DEF HasPolicy
  <2>4. Cur' = Cur /\ (Owed(c)' <=> Owed(c) /\ c # Cur)
    BY <2>1 DEF Cur, Owed, Registers
  <2> QED
    BY <1>1, <2>1, <2>3, <2>4 DEF GrantedWell, Begun, Underway
<1>12. CASE MarkInstalled
  <2>1. /\ Cur \in Comp /\ Target(Cur) \in Entry
        /\ installed \in [Comp -> Entry \cup {None}]
    BY <1>12, CurTyped, TargetTyped DEF MarkInstalled, Typed, TypeOK
  <2> QED
    BY <1>1, <1>12, <2>1, AdvanceGranted, ConstantAssumption DEF MarkInstalled
<1>13. CASE MarkUninstalled
  <2>1. Cur \in Comp /\ installed \in [Comp -> Entry \cup {None}]
    BY <1>13, CurTyped DEF MarkUninstalled, Typed, TypeOK
  <2> QED
    BY <1>1, <1>13, <2>1, AdvanceGranted DEF MarkUninstalled
<1>14. CASE Crash \/ SecretsMissing
  BY <1>1, <1>14 DEF Crash, SecretsMissing
<1>15. CASE (\E a \in Comp : BumpVersion(a) \/ LeaseEnds(a)) \/ UNCHANGED vars
  <2>1. UNCHANGED <<policies, installed, host, pc, pos, mode>>
    BY <1>15 DEF BumpVersion, LeaseEnds, vars
  <2> QED
    BY <1>1, <2>1 DEF GrantedWell, Begun, Underway, Owed, HasPolicy, Registers, Cur
<1> QED
  BY <1>2, <1>3, <1>4, <1>5, <1>6, <1>7, <1>8, <1>9, <1>10, <1>11, <1>12, <1>13,
     <1>14, <1>15
  DEF Next, Start, Step, Environment

\* With Consul and Vault of another stack up all along, what a run leaves in
\* them is what the state file says, for every manifest: service names that
\* components share, failed scripts and removals included; only the policy of
\* a runtime token may be there before its component is recorded.
THEOREM BackendsAlwaysMatch == Spec => []BackendsMatchRecord
<1> DEFINE IInv == Typed /\ Reachable /\ Matched /\ PoliciesMatch
<1>1. Init => IInv
  <2> SUFFICES ASSUME Init PROVE Reachable /\ Matched /\ PoliciesMatch
    BY InitTyped
  <2>1. Reachable
    BY DEF Init, Reachable, Steady
  <2>2. Matched
    BY DEF Init, Matched, Steady, Shown, Recorded
  <2>3. PoliciesMatch
    BY DEF Init, PoliciesMatch, GrantedWell, Owed, HasPolicy, Underway
  <2> QED
    BY <2>1, <2>2, <2>3
<1>2. IInv /\ [Next]_vars => IInv'
  BY NextTyped, NextReachable, NextMatched, NextGranted
<1>3. IInv => BackendsMatchRecord
  <2> SUFFICES ASSUME Matched, PoliciesMatch, pc = "idle", faults = 0, External = Backends
               PROVE  BackendsMatchRecord
    BY DEF BackendsMatchRecord
  <2>1. catalog = Recorded
    BY DEF Matched, Steady, Shown
  <2>2. \A c \in Comp :
            /\ installed[c] # None /\ (Registers(c) \/ c \in Runtime) => HasPolicy(c)
            /\ HasPolicy(c) =>
                  \/ installed[c] # None /\ (Registers(c) \/ c \in Runtime)
                  \/ c \in Runtime /\ (host[c] = Unknown \/ Needs[c] # {})
    BY DEF PoliciesMatch, Steady, GrantedWell, Owed, Begun, Underway
  <2> QED
    BY <2>1, <2>2 DEF BackendsMatchRecord, Recorded, HasPolicy
<1> QED
  BY <1>1, <1>2, <1>3, PTL DEF Spec

-----------------------------------------------------------------------------
(* Discovery within one run                                                  *)

LEMMA LeastNumber ==
    ASSUME NEW S, S \subseteq Nat, S # {}
    PROVE  \E m \in S : \A k \in S : m <= k
<1>1. PICK m \in S : \A k \in S : <<k, m>> \notin OpToRel(<, Nat)
  BY WFMin, NatLessThanWellFounded, Zenon
<1>2. \A k \in S : ~ (k < m)
  BY <1>1 DEF OpToRel
<1> QED
  BY <1>2

\* Registering what is missing makes every service of the set discoverable,
\* although components that share a name are registered once.
LEMMA RegisteredAreFound ==
    ASSUME NEW cs, cs \subseteq Comp, RegisterMissing(cs, {}),
           NEW c \in cs, Registers(c)
    PROVE  Discovers(Service[c])'
<1>1. CASE Discovers(Service[c])
  BY <1>1 DEF Discovers, RegisterMissing
<1>2. CASE ~ Discovers(Service[c])
  <2> DEFINE S == {i \in DOMAIN Order :
                     Order[i] \in Missing(cs) /\ Service[Order[i]] = Service[c]}
  <2>1. S # {}
    BY <1>2 DEF Missing, Comp
  <2>2. S \subseteq Nat
    BY OrderFacts
  <2> HIDE DEF S
  <2>3. PICK m \in S : \A k \in S : m <= k
    BY <2>1, <2>2, LeastNumber
  <2>4. Order[m] \in Missing(cs) /\ Service[Order[m]] = Service[c] /\ m \in DOMAIN Order
    BY <2>3 DEF S
  <2>5. ASSUME NEW i \in DOMAIN Order, NEW j \in DOMAIN Order,
               Order[i] = Order[m], Order[j] \in Missing(cs),
               Service[Order[j]] = Service[Order[m]]
        PROVE  i <= j
    <3>1. i = m /\ j \in S
      BY <2>4, <2>5, OrderAssumption DEF S
    <3> QED
      BY <2>3, <3>1
  <2>6. Order[m] \in First(Missing(cs) \ {})
    BY <2>4, <2>5 DEF First
  <2>7. Order[m] \in catalog'
    BY <2>6 DEF RegisterMissing
  <2> QED
    BY <2>4, <2>7 DEF Discovers
<1> QED
  BY <1>1, <1>2

\* While no call has failed, an install run finds what it has been through,
\* as soon as it has a client for Consul; Consul then answers, too.
Findable ==
    faults = 0 /\ mode = "install" /\ pc \notin {"idle", "failed"} =>
        /\ pc \in {"exited", "adopt"} /\ Cur \in Backends => Cur \in up
        /\ Consul \in client =>
              /\ Consul \in up
              /\ \A i \in 1 .. pos - 1 :
                    plan[Order[i]] # "noop" /\ Registers(Order[i])
                        => Discovers(Service[Order[i]])
              /\ pc = "persist" /\ Registers(Cur) => Discovers(Service[Cur])

LEMMA AdvanceFindable ==
    ASSUME Typed, Findable, faults' = 0, faults = 0, pc \notin {"idle", "failed"},
           Advance, UNCHANGED <<up, catalog>>,
           pc = "persist" \/ plan[Cur] = "noop"
    PROVE  Findable'
<1>1. CASE pc' = "idle"
  BY <1>1 DEF Findable
<1>2. CASE pc' # "idle"
  <2>1. pc' = "step" /\ pos' = NextPos /\ UNCHANGED <<mode, plan, client>>
    BY <1>2 DEF Advance, Exit
  <2> SUFFICES ASSUME mode = "install", Consul \in client
               PROVE  /\ Consul \in up
                      /\ \A i \in 1 .. pos' - 1 :
                            plan[Order[i]] # "noop" /\ Registers(Order[i])
                                => Discovers(Service[Order[i]])
    <3>1. \A name : Discovers(name)' <=> Discovers(name)
      BY DEF Discovers
    <3> QED
      BY <2>1, <3>1 DEF Findable, Registers
  <2>2. pos' = pos + 1 /\ pos \in 1 .. Len(Order)
    BY <2>1 DEF NextPos, Typed
  <2>3. plan[Cur] # "noop" /\ Registers(Cur) => Discovers(Service[Cur])
    BY DEF Findable
  <2>4. \A i \in 1 .. pos' - 1 : i \in 1 .. pos - 1 \/ Order[i] = Cur
    BY <2>2, OrderFacts DEF Cur
  <2> QED
    BY <2>3, <2>4 DEF Findable
<1> QED
  BY <1>1, <1>2

LEMMA NextFindable ==
    ASSUME Typed, Typed', Findable, [Next]_vars
    PROVE  Findable'
<1> SUFFICES ASSUME faults' = 0, mode' = "install", pc' \notin {"idle", "failed"}
             PROVE  Findable'
  BY DEF Findable
<1>1. faults = 0 /\ ~ Fault
  BY FaultsGrow
<1> USE DEF disk, world, backend, engine, counters
<1>2. CASE Start
  BY <1>2, StartChanges DEF Starts, Findable
<1>3. CASE Skip \/ MarkInstalled \/ MarkUninstalled
  BY <1>1, <1>3, AdvanceFindable DEF Skip, MarkInstalled, MarkUninstalled
<1>4. CASE Prepare \/ ScriptSucceeds \/ FinishScript \/ NothingToAdopt \/ BeginRemoval
  <2>1. /\ pc \in {"step", "script", "exited", "adopt"}
        /\ pc' \in {"script", "exited", "adopt", "publish"} /\ mode = "install"
        /\ UNCHANGED <<mode, plan, pos, client>>
    BY <1>4 DEF Prepare, ScriptSucceeds, FinishScript, NothingToAdopt, BeginRemoval
  <2>2. UNCHANGED catalog /\ up \subseteq up'
    BY <1>4, <2>1 DEF Prepare, ScriptSucceeds, FinishScript, NothingToAdopt, BeginRemoval
  <2>3. pc' \in {"exited", "adopt"} /\ Cur \in Backends => Cur \in up'
    BY <1>1, <1>4, <2>1, <2>2
    DEF Findable, Prepare, ScriptSucceeds, FinishScript, NothingToAdopt, BeginRemoval
  <2>4. Cur' = Cur /\ \A name : Discovers(name)' <=> Discovers(name)
    BY <2>1, <2>2 DEF Cur, Discovers
  <2> QED
    BY <1>1, <2>1, <2>2, <2>3, <2>4 DEF Findable, Registers
<1>5. CASE Adopt
  <2>1. /\ pc = "adopt" /\ pc' = "publish" /\ mode = "install" /\ Cur \in Backends
        /\ client' = client \cup {Cur} /\ UNCHANGED <<up, plan, pos>>
        /\ IF Cur = Consul
           THEN RegisterMissing({Order[i] : i \in 1 .. pos - 1}, {})
           ELSE UNCHANGED catalog
    BY <1>1, <1>5 DEF Adopt, Adopts, FaultIf
  <2> SUFFICES ASSUME Consul \in client'
               PROVE  /\ Consul \in up
                      /\ \A i \in 1 .. pos - 1 :
                            plan[Order[i]] # "noop" /\ Registers(Order[i])
                                => Discovers(Service[Order[i]])'
    BY <2>1 DEF Findable, Registers
  <2>2. CASE Cur = Consul
    <3>1. {Order[i] : i \in 1 .. pos - 1} \subseteq Comp
      BY <2>1, OrderFacts DEF Typed
    <3>2. \A i \in 1 .. pos - 1 : Registers(Order[i]) => Discovers(Service[Order[i]])'
      BY <2>1, <2>2, <3>1, RegisteredAreFound
    <3> QED
      BY <1>1, <2>1, <2>2, <3>2 DEF Findable
  <2>3. CASE Cur # Consul
    <3>1. \A name : Discovers(name)' <=> Discovers(name)
      BY <2>1, <2>3 DEF Discovers
    <3> QED
      BY <1>1, <2>1, <2>3, <3>1 DEF Findable
  <2> QED
    BY <2>2, <2>3
<1>6. CASE Publish
  <2>1. /\ pc = "publish" /\ pc' = "persist" /\ mode = "install"
        /\ UNCHANGED <<up, plan, pos, client>>
    BY <1>6 DEF Publish
  <2>2. Cur \in Comp /\ Cur' = Cur
    BY <2>1, CurTyped DEF Cur
  <2>3. /\ catalog \subseteq catalog'
        /\ Reaches(Consul) /\ Registers(Cur) => Cur \in catalog'
    <3>1. catalog' = IF Reaches(Consul)
                     THEN catalog \cup ({Cur} \cap {c \in Comp : Registers(c)})
                     ELSE catalog
      BY <1>1, <1>6 DEF Publish
    <3> QED
      BY <2>2, <3>1
  <2>4. \A name : Discovers(name) => Discovers(name)'
    BY <2>3 DEF Discovers
  <2>5. Reaches(Consul) /\ Registers(Cur) => Discovers(Service[Cur])'
    BY <2>2, <2>3 DEF Discovers
  <2> QED
    BY <1>1, <2>1, <2>2, <2>4, <2>5 DEF Findable, Registers, Reaches
<1>7. CASE Unpublish \/ ScriptFails \/ PrepareRaises \/ Abort
  BY <1>7 DEF Unpublish, ScriptFails, PrepareRaises, Abort, Exit
<1>8. CASE Crash \/ SecretsMissing \/ \E c \in Comp : BumpVersion(c)
  BY <1>1, <1>8 DEF Crash, SecretsMissing, BumpVersion
<1>9. CASE (\E c \in Comp : LeaseEnds(c)) \/ UNCHANGED vars
  BY <1>9 DEF LeaseEnds, vars, Findable, Discovers, Registers, Cur
<1> QED
  BY <1>2, <1>3, <1>4, <1>5, <1>6, <1>7, <1>8, <1>9 DEF Next, Step, Environment

\* When a step of an install looks up what it needs, the services of all the
\* components the run has been through are found: for every manifest, wherever
\* in it Consul is, and however many components share a service name.
THEOREM RunsFindTheirOwn == Spec => []SameRunDiscovery
<1> DEFINE IInv == Typed /\ Findable
<1>1. Init => IInv
  BY InitTyped DEF Init, Findable
<1>2. IInv /\ [Next]_vars => IInv'
  BY NextTyped, NextFindable
<1>3. IInv => SameRunDiscovery
  BY DEF Findable, SameRunDiscovery
<1> QED
  BY <1>1, <1>2, <1>3, PTL DEF Spec

------------------------------------------------------------------------------

\* Induction up to n over a set.
LEMMA Induction ==
    ASSUME NEW n \in Nat, NEW T, 0 \in T, \A i \in 1 .. n : i - 1 \in T => i \in T
    PROVE  0 .. n \subseteq T
<1> DEFINE S == {i \in 0 .. n : i \notin T}
<1> SUFFICES ASSUME S # {} PROVE FALSE
  OBVIOUS
<1>1. S \subseteq Nat
  OBVIOUS
<1> HIDE DEF S
<1>2. PICK m \in S : \A k \in S : <<k, m>> \notin OpToRel(<, Nat)
  BY <1>1, WFMin, NatLessThanWellFounded, Zenon
<1>3. m \in 0 .. n /\ m \notin T
  BY <1>2 DEF S
<1>4. m # 0 /\ m - 1 \in Nat /\ m - 1 < m
  BY <1>3
<1>5. m - 1 \notin S
  BY <1>1, <1>2, <1>4 DEF OpToRel
<1> QED
  BY <1>3, <1>4, <1>5 DEF S

Iterates(u, n, a, step) ==
    u[0] = a /\ \A i \in 1 .. n : u[i] = step[i][u[i - 1]]

\* A recursion over 0 .. n has a solution.
LEMMA Iteration ==
    ASSUME NEW n \in Nat, NEW A, NEW a \in A, NEW step \in [1 .. n -> [A -> A]]
    PROVE  \E u \in [0 .. n -> A] : Iterates(u, n, a, step)
<1> DEFINE Good(u, m) == u[0] = a /\ \A i \in 1 .. m : u[i] = step[i][u[i - 1]]
           T == {m \in 0 .. n : \E u \in [0 .. m -> A] : Good(u, m)}
<1>1. 0 \in T
  <2>1. [i \in 0 .. 0 |-> a] \in [0 .. 0 -> A] /\ Good([i \in 0 .. 0 |-> a], 0)
    OBVIOUS
  <2> HIDE DEF Good
  <2>2. \E u \in [0 .. 0 -> A] : Good(u, 0)
    BY <2>1
  <2> QED
    BY <2>2
<1>2. ASSUME NEW i \in 1 .. n, i - 1 \in T
      PROVE  i \in T
  <2>1. PICK u \in [0 .. i - 1 -> A] : Good(u, i - 1)
    BY <1>2
  <2> DEFINE v == [j \in 0 .. i |-> IF j = i THEN step[i][u[i - 1]] ELSE u[j]]
  <2>2. i \in Nat /\ i - 1 \in 0 .. i - 1 /\ i - 1 \in 0 .. i
    OBVIOUS
  <2>3. v \in [0 .. i -> A]
    BY <2>2
  <2>4. v[0] = a
    BY <2>1, <2>2
  <2>5. ASSUME NEW j \in 1 .. i PROVE v[j] = step[j][v[j - 1]]
    BY <2>1, <2>2
  <2>6. Good(v, i)
    BY <2>4, <2>5
  <2> HIDE DEF Good, v
  <2>7. \E w \in [0 .. i -> A] : Good(w, i)
    BY <2>3, <2>6
  <2> QED
    BY <2>7
<1> HIDE DEF T
<1>3. \A i \in 1 .. n : i - 1 \in T => i \in T
  BY <1>2
<1>4. n \in T
  BY <1>1, <1>3, Induction, n \in 0 .. n, Zenon
<1> QED
  BY <1>4 DEF T, Iterates

\* The functions of searches that visit gives for each id.
Visits(ids) == [ids -> [Searches(ids) -> Searches(ids)]]

\* Visiting one id after another goes from search to search.
LEMMA ThroughSteps ==
    ASSUME NEW ids, NEW visit \in Visits(ids), NEW search \in Searches(ids),
           NEW cs \in Seq(ids)
    PROVE  \E u \in [0 .. Len(cs) -> Searches(ids)] :
              /\ u[0] = search /\ u[Len(cs)] = Through(visit, search, cs)
              /\ \A i \in 1 .. Len(cs) : u[i] = visit[cs[i]][u[i - 1]]
<1> DEFINE n == Len(cs)
           A == Searches(ids)
           step == [i \in 1 .. n |-> visit[cs[i]]]
           Fixed(f) == f = [i \in 0 .. n |-> IF i = 0 THEN search ELSE visit[cs[i]][f[i - 1]]]
           upTo == CHOOSE f : Fixed(f)
<1>1. n \in Nat /\ \A i \in 1 .. n : cs[i] \in ids
  OBVIOUS
<1>2. visit \in [ids -> [A -> A]] /\ search \in A
  BY DEF Visits
<1> HIDE DEF A, n
<1>3. step \in [1 .. n -> [A -> A]] /\ \A i \in 1 .. n : step[i] = visit[cs[i]]
  BY <1>1, <1>2
<1> HIDE DEF step
<1>4. PICK u \in [0 .. n -> A] : Iterates(u, n, search, step)
  BY <1>1, <1>2, <1>3, Iteration, Zenon
<1>5. u[0] = search /\ \A i \in 1 .. n : u[i] = visit[cs[i]][u[i - 1]]
  BY <1>3, <1>4 DEF Iterates
<1>6. Fixed(u)
  BY <1>1, <1>5
<1>7. Fixed(upTo)
  <2> HIDE DEF Fixed
  <2> QED
    BY <1>6
<1>8. Through(visit, search, cs) = upTo[n]
  BY Zenon DEF Through, n
<1>9. upTo[n] = u[n]
  <2> HIDE DEF upTo
  <2> DEFINE T == {i \in 0 .. n : upTo[i] = u[i]}
  <2>1. 0 \in T
    BY <1>1, <1>5, <1>7
  <2>2. \A i \in 1 .. n : i - 1 \in T => i \in T
    <3> TAKE i \in 1 .. n
    <3>1. i \in 0 .. n /\ i # 0
      BY <1>1
    <3>2. upTo[i] = visit[cs[i]][upTo[i - 1]]
      BY <1>7, <3>1
    <3> QED
      BY <1>5, <3>1, <3>2
  <2> HIDE DEF T
  <2>3. n \in T
    BY <1>1, <2>1, <2>2, Induction, n \in 0 .. n, Zenon
  <2> QED
    BY <2>3 DEF T
<1> QED
  BY <1>4, <1>5, <1>8, <1>9 DEF n, A

LEMMA ThroughType ==
    ASSUME NEW ids, NEW visit \in Visits(ids), NEW search \in Searches(ids),
           NEW cs \in Seq(ids)
    PROVE  Through(visit, search, cs) \in Searches(ids)
BY ThroughSteps

\* The steps of a search.
LEMMA Entering ==
    ASSUME NEW ids, NEW s \in Searches(ids), NEW c \in ids
    PROVE  /\ Enter(s, c) \in Searches(ids) /\ Enter(s, c).gray = s.gray \cup {c}
           /\ Enter(s, c).order = s.order /\ Enter(s, c).cyclic = s.cyclic
BY DEF Enter, Searches

LEMMA Leaving ==
    ASSUME NEW ids, NEW s \in Searches(ids), NEW c \in ids
    PROVE  /\ Leave(s, c) \in Searches(ids) /\ Leave(s, c).gray = s.gray \ {c}
           /\ Leave(s, c).order = Append(s.order, c) /\ Leave(s, c).cyclic = s.cyclic
<1>1. /\ s.gray \ {c} \in SUBSET ids /\ Append(s.order, c) \in Seq(ids)
  BY DEF Searches
<1> DEFINE o == Append(s.order, c)
<1>2. o \in Seq(ids)
  BY <1>1
<1>3. Leave(s, c) = [s EXCEPT !.gray = @ \ {c}, !.order = o]
  BY DEF Leave
<1> HIDE DEF o
<1>4. /\ Leave(s, c) \in Searches(ids) /\ Leave(s, c).gray = s.gray \ {c}
           /\ Leave(s, c).order = o /\ Leave(s, c).cyclic = s.cyclic
  BY <1>2, <1>3, <1>1 DEF Searches
<1> QED
  BY <1>4 DEF o

LEMMA Stopping ==
    ASSUME NEW ids, NEW s \in Searches(ids)
    PROVE  /\ Stop(s) \in Searches(ids) /\ Stop(s).cyclic = TRUE
BY DEF Stop, Searches

\* The cases of Follow.
LEMMA FollowCases ==
    ASSUME NEW visit, NEW depends, NEW s, NEW c
    PROVE  LET below == Through(visit, Enter(s, c), depends[c])
               r == Follow(visit, depends, s, c)
               seen == s.cyclic \/ c \in ToSet(s.order)
           IN  /\ seen => r = s
               /\ ~ seen /\ c \in s.gray => r = Stop(s)
               /\ ~ seen /\ c \notin s.gray =>
                     r = IF below.cyclic THEN below ELSE Leave(below, c)
BY Zenon DEF Follow

LEMMA FollowType ==
    ASSUME NEW ids, NEW visit \in Visits(ids), NEW depends \in [ids -> Seq(ids)],
           NEW s \in Searches(ids), NEW c \in ids
    PROVE  Follow(visit, depends, s, c) \in Searches(ids)
<1> DEFINE below == Through(visit, Enter(s, c), depends[c])
           r == Follow(visit, depends, s, c)
<1>1. below \in Searches(ids)
  BY Entering, ThroughType
<1>2. r = s \/ r = Stop(s) \/ r = below \/ r = Leave(below, c)
  BY Zenon DEF Follow
<1> HIDE DEF r, below
<1>3. Leave(below, c) \in Searches(ids) /\ Stop(s) \in Searches(ids)
  BY <1>1, Leaving, Stopping
<1>4. r \in Searches(ids)
  BY <1>1, <1>2, <1>3
<1> QED
  BY <1>4 DEF r

\* What visiting does with n ids left to go down to, and with none.
Deepest(ids) == [c \in ids |-> [s \in Searches(ids) |-> Stop(s)]]
Deeper(ids, depends, visit) ==
    [c \in ids |-> [s \in Searches(ids) |-> Follow(visit, depends, s, c)]]

LEMMA VisitSteps ==
    ASSUME NEW ids, NEW depends \in [ids -> Seq(ids)], IsFiniteSet(ids)
    PROVE  \E u \in [0 .. Cardinality(ids) -> Visits(ids)] :
              /\ u[0] = Deepest(ids) /\ u[Cardinality(ids)] = Visit(ids, depends)
              /\ \A n \in 1 .. Cardinality(ids) : u[n] = Deeper(ids, depends, u[n - 1])
<1> DEFINE N == Cardinality(ids)
           A == Visits(ids)
           step == [n \in 1 .. N |-> [visit \in A |-> Deeper(ids, depends, visit)]]
           Fixed(f) == f = [n \in 0 .. N |->
                              [c \in ids |-> [s \in Searches(ids) |->
                                 IF n = 0 THEN Stop(s)
                                 ELSE Follow(f[n - 1], depends, s, c)]]]
           deep == CHOOSE f : Fixed(f)
<1>1. N \in Nat
  BY FS_CardinalityType
<1>2. Deepest(ids) \in A
  <2>1. \A s \in Searches(ids) : Stop(s) \in Searches(ids)
    BY Stopping
  <2> QED
    BY <2>1 DEF Deepest, Visits
<1>3. \A visit \in A : Deeper(ids, depends, visit) \in A
  BY FollowType DEF Deeper, Visits
<1> HIDE DEF A, N
<1>4. /\ step \in [1 .. N -> [A -> A]]
      /\ \A n \in 1 .. N : \A visit \in A : step[n][visit] = Deeper(ids, depends, visit)
  BY <1>3
<1> HIDE DEF step
<1>5. PICK u \in [0 .. N -> A] : Iterates(u, N, Deepest(ids), step)
  BY <1>1, <1>2, <1>4, Iteration, Zenon
<1>6. \A n \in 1 .. N : u[n - 1] \in A /\ u[n] = Deeper(ids, depends, u[n - 1])
  <2> TAKE n \in 1 .. N
  <2>1. n - 1 \in 0 .. N
    BY <1>1
  <2>2. u[n] = step[n][u[n - 1]]
    BY <1>5 DEF Iterates
  <2> QED
    BY <1>4, <2>1, <2>2
<1>7. u[0] = Deepest(ids)
  BY <1>5 DEF Iterates
<1>8. ASSUME NEW f, NEW n \in 0 .. N
      PROVE  [c \in ids |-> [s \in Searches(ids) |->
                 IF n = 0 THEN Stop(s)
                 ELSE Follow(f[n - 1], depends, s, c)]]
             = IF n = 0 THEN Deepest(ids) ELSE Deeper(ids, depends, f[n - 1])
  BY DEF Deepest, Deeper
<1>9. ASSUME NEW f
      PROVE  Fixed(f) <=> f = [n \in 0 .. N |-> IF n = 0 THEN Deepest(ids)
                                                ELSE Deeper(ids, depends, f[n - 1])]
  BY <1>8
<1> HIDE DEF Fixed
<1>10. Fixed(u)
  <2>1. \A n \in 0 .. N : u[n] = IF n = 0 THEN Deepest(ids) ELSE Deeper(ids, depends, u[n - 1])
    BY <1>1, <1>6, <1>7
  <2>2. u = [n \in 0 .. N |-> IF n = 0 THEN Deepest(ids) ELSE Deeper(ids, depends, u[n - 1])]
    BY <2>1
  <2> QED
    BY <1>9, <2>2
<1>11. Fixed(deep)
  BY <1>10
<1>12. Visit(ids, depends) = deep[N]
  BY Zenon DEF Visit, Fixed, N
<1> HIDE DEF deep
<1>13. \A n \in 0 .. N : deep[n] = IF n = 0 THEN Deepest(ids)
                                   ELSE Deeper(ids, depends, deep[n - 1])
  <2>1. deep = [n \in 0 .. N |-> IF n = 0 THEN Deepest(ids)
                                 ELSE Deeper(ids, depends, deep[n - 1])]
    BY <1>9, <1>11
  <2> QED
    BY <2>1
<1> DEFINE T == {n \in 0 .. N : deep[n] = u[n]}
<1>14. 0 \in T
  BY <1>1, <1>7, <1>13
<1>15. \A n \in 1 .. N : n - 1 \in T => n \in T
  BY <1>1, <1>6, <1>13
<1> HIDE DEF T
<1>16. N \in T
  BY <1>1, <1>14, <1>15, Induction, N \in 0 .. N, Zenon
<1> QED
  BY <1>5, <1>6, <1>7, <1>12, <1>16 DEF T, N, A

\* What a search that has found no cycle keeps true: an id is done once,
\* after all that it depends on, and not while it is on the stack.
Sorted(depends, order) ==
    \A i \in 1 .. Len(order) : \A d \in ToSet(depends[order[i]]) :
        \E j \in 1 .. i - 1 : order[j] = d
Sound(depends, search) ==
    ~ search.cyclic =>
        /\ Sorted(depends, search.order) /\ IsInjective(search.order)
        /\ search.gray \cap ToSet(search.order) = {}

\* From search, result has done the ids cs, unless it has found a cycle.
Does(depends, search, cs, result) ==
    ~ result.cyclic =>
        /\ ~ search.cyclic /\ result.gray = search.gray
        /\ Sound(depends, result)
        /\ ToSet(search.order) \subseteq ToSet(result.order)
        /\ cs \subseteq ToSet(result.order)
DoesEach(ids, depends, visit) ==
    \A c \in ids : \A s \in Searches(ids) :
        Sound(depends, s) => Does(depends, s, {c}, visit[c][s])

LEMMA ThroughDoes ==
    ASSUME NEW ids, NEW depends, NEW visit \in Visits(ids), NEW s \in Searches(ids),
           NEW cs \in Seq(ids), DoesEach(ids, depends, visit), Sound(depends, s)
    PROVE  Does(depends, s, ToSet(cs), Through(visit, s, cs))
<1> DEFINE n == Len(cs)
           Upto(i) == {cs[k] : k \in 1 .. i}
<1>1. PICK u \in [0 .. n -> Searches(ids)] :
         /\ u[0] = s /\ u[n] = Through(visit, s, cs)
         /\ \A i \in 1 .. n : u[i] = visit[cs[i]][u[i - 1]]
  BY ThroughSteps
<1> DEFINE T == {i \in 0 .. n : Does(depends, s, Upto(i), u[i])}
<1>2. n \in Nat /\ (\A i \in 1 .. n : cs[i] \in ids) /\ ToSet(cs) = Upto(n)
  BY DEF ToSet
<1>3. 0 \in T
  <2>1. Does(depends, s, {}, s)
    BY DEF Does
  <2>2. Upto(0) = {}
    OBVIOUS
  <2> HIDE DEF Upto
  <2> QED
    BY <1>1, <1>2, <2>1, <2>2
<1>4. ASSUME NEW i \in 1 .. n, i - 1 \in T
      PROVE  i \in T
  <2> DEFINE a == u[i - 1]
             b == u[i]
  <2>1. i - 1 \in 0 .. n /\ i \in 0 .. n
    BY <1>2
  <2>2. Does(depends, s, Upto(i - 1), a)
    BY <1>4
  <2>3. a \in Searches(ids) /\ cs[i] \in ids /\ b = visit[cs[i]][a]
    BY <1>1, <1>2, <2>1
  <2>4. Upto(i) = Upto(i - 1) \cup {cs[i]}
    BY <1>2
  <2> HIDE DEF a, b, Upto
  <2>5. Sound(depends, a)
    BY <2>2 DEF Does, Sound
  <2>6. Does(depends, a, {cs[i]}, b)
    BY <2>3, <2>5 DEF DoesEach
  <2>7. Does(depends, s, Upto(i), b)
    BY <2>2, <2>4, <2>6 DEF Does
  <2> QED
    BY <2>1, <2>7 DEF b
<1> HIDE DEF T, Upto
<1>5. \A i \in 1 .. n : i - 1 \in T => i \in T
  BY <1>4
<1>6. n \in T
  <2> HIDE DEF n
  <2> QED
    BY <1>2, <1>3, <1>5, Induction, n \in 0 .. n, Zenon
<1> QED
  BY <1>1, <1>2, <1>6 DEF T

\* An id that is done last.
LEMMA AppendedOrder ==
    ASSUME NEW ids, NEW order \in Seq(ids), NEW c \in ids, NEW depends,
           c \notin ToSet(order), Sorted(depends, order), IsInjective(order),
           ToSet(depends[c]) \subseteq ToSet(order)
    PROVE  /\ Sorted(depends, Append(order, c)) /\ IsInjective(Append(order, c))
           /\ ToSet(Append(order, c)) = ToSet(order) \cup {c}
<1> DEFINE n == Len(order)
           longer == Append(order, c)
<1>1. /\ n \in Nat /\ DOMAIN order = 1 .. n /\ longer \in Seq(ids)
      /\ Len(longer) = n + 1 /\ DOMAIN longer = 1 .. n + 1
      /\ longer[n + 1] = c /\ \A i \in 1 .. n : longer[i] = order[i]
  OBVIOUS
<1>2. \A i \in 1 .. n + 1 : i \in 1 .. n \/ i = n + 1
  BY <1>1
<1> HIDE DEF n, longer
<1>3. ToSet(longer) = ToSet(order) \cup {c}
  BY <1>1, <1>2 DEF ToSet
<1>4. IsInjective(longer)
  BY <1>1, <1>2 DEF ToSet, IsInjective
<1>5. Sorted(depends, longer)
  <2>1. ASSUME NEW i \in 1 .. n + 1, NEW d \in ToSet(depends[longer[i]])
        PROVE  \E j \in 1 .. i - 1 : longer[j] = d
    <3>1. CASE i \in 1 .. n
      <4>1. PICK j \in 1 .. i - 1 : order[j] = d
        BY <1>1, <3>1 DEF Sorted, n
      <4>2. j \in 1 .. n
        BY <1>1, <3>1
      <4> QED
        BY <1>1, <4>1, <4>2
    <3>2. CASE i = n + 1
      <4>1. d \in ToSet(order)
        BY <1>1, <3>2
      <4>2. PICK j \in 1 .. n : order[j] = d
        BY <1>1, <4>1 DEF ToSet
      <4> QED
        BY <1>1, <3>2, <4>2
    <3> QED
      BY <1>2, <3>1, <3>2
  <2> QED
    BY <1>1, <2>1 DEF Sorted
<1> QED
  BY <1>3, <1>4, <1>5 DEF longer

LEMMA FollowDoes ==
    ASSUME NEW ids, NEW depends \in [ids -> Seq(ids)], NEW visit \in Visits(ids),
           NEW s \in Searches(ids), NEW c \in ids,
           DoesEach(ids, depends, visit), Sound(depends, s)
    PROVE  Does(depends, s, {c}, Follow(visit, depends, s, c))
<1> DEFINE e == Enter(s, c)
           below == Through(visit, e, depends[c])
           r == Follow(visit, depends, s, c)
<1>1. SUFFICES ASSUME ~ r.cyclic
               PROVE  Does(depends, s, {c}, r)
  BY DEF Does
<1>2. e \in Searches(ids) /\ below \in Searches(ids) /\ depends[c] \in Seq(ids)
  BY Entering, ThroughType
<1>3. CASE s.cyclic \/ c \in ToSet(s.order)
  <2>1. r = s
    BY <1>3, Zenon DEF Follow
  <2> QED
    BY <1>1, <1>3, <2>1 DEF Does
<1>4. CASE ~ (s.cyclic \/ c \in ToSet(s.order)) /\ c \in s.gray
  <2>1. r = Stop(s)
    BY <1>4, Zenon DEF Follow
  <2> QED
    BY <1>1, <2>1, Stopping
<1>5. CASE ~ (s.cyclic \/ c \in ToSet(s.order)) /\ c \notin s.gray
  <2>1. r = IF below.cyclic THEN below ELSE Leave(below, c)
    BY <1>5, Zenon DEF Follow
  <2> HIDE DEF r
  <2>2. ~ below.cyclic /\ r = Leave(below, c)
    BY <1>1, <2>1
  <2>3. e.gray = s.gray \cup {c} /\ e.order = s.order /\ e.cyclic = s.cyclic
    BY Entering
  <2> HIDE DEF e
  <2>4. Sound(depends, e)
    BY <1>5, <2>3 DEF Sound
  <2>5. Does(depends, e, ToSet(depends[c]), below)
    BY <1>2, <2>4, ThroughDoes
  <2> HIDE DEF below
  <2>6. /\ below.gray = s.gray \cup {c} /\ Sorted(depends, below.order)
        /\ IsInjective(below.order) /\ below.gray \cap ToSet(below.order) = {}
        /\ ToSet(s.order) \subseteq ToSet(below.order)
        /\ ToSet(depends[c]) \subseteq ToSet(below.order)
    BY <2>2, <2>3, <2>5 DEF Does, Sound
  <2>7. /\ r.gray = below.gray \ {c} /\ r.order = Append(below.order, c)
        /\ below.order \in Seq(ids)
    <3>1. below.order \in Seq(ids)
      BY <1>2 DEF Searches
    <3>2. /\ Leave(below, c).gray = below.gray \ {c}
          /\ Leave(below, c).order = Append(below.order, c)
      <4>1. below \in Searches(ids)
        BY <1>2
      <4> QED
        BY <4>1, Leaving
    <3> QED
      BY <2>2, <3>1, <3>2
  <2>8. /\ Sorted(depends, r.order) /\ IsInjective(r.order)
        /\ ToSet(r.order) = ToSet(below.order) \cup {c}
    <3>1. c \notin ToSet(below.order)
      BY <2>6
    <3> QED
      BY <2>6, <2>7, <3>1, AppendedOrder
  <2>9. r.gray = s.gray /\ ToSet(s.order) \subseteq ToSet(r.order) /\ c \in ToSet(r.order)
    BY <1>5, <2>6, <2>7, <2>8
  <2>10. r.gray \cap ToSet(r.order) = {}
    BY <2>6, <2>7, <2>8
  <2> QED
    BY <1>5, <2>8, <2>9, <2>10 DEF Does, Sound
<1> QED
  BY <1>3, <1>4, <1>5

LEMMA VisitDoes ==
    ASSUME NEW ids, NEW depends \in [ids -> Seq(ids)], IsFiniteSet(ids)
    PROVE  /\ Visit(ids, depends) \in Visits(ids)
           /\ DoesEach(ids, depends, Visit(ids, depends))
<1> DEFINE N == Cardinality(ids)
<1>1. PICK u \in [0 .. N -> Visits(ids)] :
         /\ u[0] = Deepest(ids) /\ u[N] = Visit(ids, depends)
         /\ \A n \in 1 .. N : u[n] = Deeper(ids, depends, u[n - 1])
  BY VisitSteps
<1>2. N \in Nat
  BY FS_CardinalityType
<1> HIDE DEF N
<1> DEFINE T == {n \in 0 .. N : DoesEach(ids, depends, u[n])}
<1>3. 0 \in T
  <2>1. ASSUME NEW c \in ids, NEW s \in Searches(ids)
        PROVE  Does(depends, s, {c}, Deepest(ids)[c][s])
    <3>1. Deepest(ids)[c][s] = Stop(s)
      BY DEF Deepest
    <3> QED
      BY <3>1, Stopping DEF Does
  <2>2. DoesEach(ids, depends, u[0])
    BY <1>1, <2>1 DEF DoesEach
  <2> QED
    BY <1>2, <2>2
<1>4. ASSUME NEW n \in 1 .. N, n - 1 \in T
      PROVE  n \in T
  <2>1. n - 1 \in 0 .. N /\ n \in 0 .. N
    BY <1>2
  <2>2. u[n - 1] \in Visits(ids) /\ DoesEach(ids, depends, u[n - 1])
    BY <1>1, <1>4, <2>1
  <2>3. ASSUME NEW c \in ids, NEW s \in Searches(ids), Sound(depends, s)
        PROVE  Does(depends, s, {c}, u[n][c][s])
    <3>1. u[n] = Deeper(ids, depends, u[n - 1])
      BY <1>1
    <3>2. u[n][c][s] = Follow(u[n - 1], depends, s, c)
      BY <3>1 DEF Deeper
    <3> QED
      BY <2>2, <2>3, <3>2, FollowDoes
  <2>4. DoesEach(ids, depends, u[n])
    BY <2>3 DEF DoesEach
  <2> QED
    BY <2>1, <2>4
<1> HIDE DEF T
<1>5. \A n \in 1 .. N : n - 1 \in T => n \in T
  BY <1>4
<1>6. N \in T
  BY <1>2, <1>3, <1>5, Induction, N \in 0 .. N, Zenon
<1> QED
  BY <1>1, <1>2, <1>6 DEF T

\* A stack is a path: each id on it depends on one on it, or on the id that
\* comes next.
Path(depends, gray, c) ==
    \A g \in gray : ToSet(depends[g]) \cap (gray \cup {c}) # {}

Paths(depends, gray, cs) == \A c \in ToSet(cs) : Path(depends, gray, c)

\* From search, result has found no cycle and left the stack as it was.
FoundNone(search, result) == ~ result.cyclic /\ result.gray = search.gray

\* Without cycles, visiting finds none from a path with at most n ids left.
FindsNone(ids, depends, visit, n) ==
    \A c \in ids : \A s \in Searches(ids) :
        ~ s.cyclic /\ Path(depends, s.gray, c) /\ Cardinality(ids \ s.gray) <= n =>
            FoundNone(s, visit[c][s])

\* Without cycles, no id that a path comes to is on it.
LEMMA PathsAreOpen ==
    ASSUME NEW ids, NEW depends \in [ids -> Seq(ids)], Acyclic(depends),
           NEW gray \in SUBSET ids, NEW c \in ids, Path(depends, gray, c)
    PROVE  c \notin gray
<1>1. SUFFICES ASSUME c \in gray PROVE FALSE
  OBVIOUS
<1>2. gray \in (SUBSET DOMAIN depends) \ {{}} /\ gray \cup {c} = gray
  BY <1>1
<1>3. PICK g \in gray : ToSet(depends[g]) \cap gray = {}
  BY <1>2, Zenon DEF Acyclic
<1> QED
  BY <1>2, <1>3 DEF Path

LEMMA ThroughFindsNone ==
    ASSUME NEW ids, NEW depends, NEW visit \in Visits(ids), NEW n \in Nat,
           NEW s \in Searches(ids), NEW cs \in Seq(ids),
           FindsNone(ids, depends, visit, n), ~ s.cyclic,
           Paths(depends, s.gray, cs), Cardinality(ids \ s.gray) <= n
    PROVE  FoundNone(s, Through(visit, s, cs))
<1> DEFINE m == Len(cs)
<1>1. PICK u \in [0 .. m -> Searches(ids)] :
         /\ u[0] = s /\ u[m] = Through(visit, s, cs)
         /\ \A i \in 1 .. m : u[i] = visit[cs[i]][u[i - 1]]
  BY ThroughSteps
<1> DEFINE T == {i \in 0 .. m : FoundNone(s, u[i])}
<1>2. m \in Nat /\ \A i \in 1 .. m : cs[i] \in ids /\ cs[i] \in ToSet(cs)
  BY DEF ToSet
<1> HIDE DEF m
<1>3. 0 \in T
  BY <1>1, <1>2 DEF FoundNone
<1>4. ASSUME NEW i \in 1 .. m, i - 1 \in T
      PROVE  i \in T
  <2> DEFINE a == u[i - 1]
  <2>1. i - 1 \in 0 .. m /\ i \in 0 .. m
    BY <1>2
  <2>2. /\ a \in Searches(ids) /\ cs[i] \in ids /\ u[i] = visit[cs[i]][a]
        /\ ~ a.cyclic /\ a.gray = s.gray
    BY <1>1, <1>2, <1>4, <2>1 DEF FoundNone
  <2> HIDE DEF a
  <2>3. Path(depends, a.gray, cs[i]) /\ Cardinality(ids \ a.gray) <= n
    BY <1>2, <2>2 DEF Paths
  <2>4. FoundNone(a, visit[cs[i]][a])
    BY <2>2, <2>3 DEF FindsNone
  <2>5. FoundNone(s, u[i])
    BY <2>2, <2>4 DEF FoundNone
  <2> QED
    BY <2>1, <2>5
<1> HIDE DEF T
<1>5. \A i \in 1 .. m : i - 1 \in T => i \in T
  BY <1>4
<1>6. m \in T
  BY <1>2, <1>3, <1>5, Induction, m \in 0 .. m, Zenon
<1> QED
  BY <1>1, <1>6 DEF T

LEMMA DeeperFindsNone ==
    ASSUME NEW ids, NEW depends \in [ids -> Seq(ids)], NEW visit \in Visits(ids),
           NEW n \in Nat, IsFiniteSet(ids), Acyclic(depends),
           FindsNone(ids, depends, visit, n)
    PROVE  FindsNone(ids, depends, Deeper(ids, depends, visit), n + 1)
<1> SUFFICES ASSUME NEW c \in ids, NEW s \in Searches(ids), ~ s.cyclic,
                    Path(depends, s.gray, c), Cardinality(ids \ s.gray) <= n + 1
             PROVE  FoundNone(s, Follow(visit, depends, s, c))
  BY DEF FindsNone, Deeper
<1> DEFINE e == Enter(s, c)
           needed == depends[c]
           below == Through(visit, e, needed)
           r == Follow(visit, depends, s, c)
<1>1. s.gray \in SUBSET ids
  BY DEF Searches
<1>2. c \notin s.gray
  BY <1>1, PathsAreOpen
<1>3. e \in Searches(ids) /\ below \in Searches(ids) /\ needed \in Seq(ids)
  BY Entering, ThroughType
<1>4. CASE c \in ToSet(s.order)
  <2>1. r = s
    BY <1>4, Zenon DEF Follow
  <2> QED
    BY <2>1 DEF FoundNone
<1>5. CASE c \notin ToSet(s.order)
  <2>1. r = IF below.cyclic THEN below ELSE Leave(below, c)
    BY <1>2, <1>5, Zenon DEF Follow
  <2> HIDE DEF r
  <2>2. e.gray = s.gray \cup {c} /\ e.cyclic = s.cyclic
    BY Entering
  <2> HIDE DEF e
  <2>3. Paths(depends, e.gray, needed)
    BY <2>2 DEF Paths, Path
  <2>4. Cardinality(ids \ e.gray) <= n
    <3> DEFINE left == ids \ s.gray
    <3>1. IsFiniteSet(left) /\ c \in left /\ ids \ e.gray = left \ {c}
      BY <1>2, <2>2, FS_Subset
    <3> HIDE DEF left
    <3>2. /\ Cardinality(left) \in Nat
          /\ Cardinality(left \ {c}) = Cardinality(left) - 1
      BY <3>1, FS_CardinalityType, FS_RemoveElement
    <3>3. Cardinality(left) <= n + 1
      BY DEF left
    <3>4. Cardinality(left \ {c}) <= n
      BY <3>2, <3>3
    <3> QED
      BY <3>1, <3>4
  <2>5. FoundNone(e, below)
    <3> HIDE DEF needed
    <3>1. e \in Searches(ids) /\ needed \in Seq(ids) /\ ~ e.cyclic
      BY <1>3, <2>2
    <3> QED
      BY <2>3, <2>4, <3>1, ThroughFindsNone
  <2> HIDE DEF below
  <2>6. r = Leave(below, c)
    BY <2>1, <2>5 DEF FoundNone
  <2>7. r.cyclic = below.cyclic /\ r.gray = below.gray \ {c}
    BY <1>3, <2>6, Leaving
  <2> QED
    BY <1>2, <2>2, <2>5, <2>7 DEF FoundNone, r
<1> QED
  BY <1>4, <1>5

LEMMA VisitFindsNone ==
    ASSUME NEW ids, NEW depends \in [ids -> Seq(ids)], IsFiniteSet(ids), Acyclic(depends)
    PROVE  FindsNone(ids, depends, Visit(ids, depends), Cardinality(ids))
<1> DEFINE N == Cardinality(ids)
<1>1. PICK u \in [0 .. N -> Visits(ids)] :
         /\ u[0] = Deepest(ids) /\ u[N] = Visit(ids, depends)
         /\ \A n \in 1 .. N : u[n] = Deeper(ids, depends, u[n - 1])
  BY VisitSteps
<1>2. N \in Nat
  BY FS_CardinalityType
<1> HIDE DEF N
<1> DEFINE T == {n \in 0 .. N : FindsNone(ids, depends, u[n], n)}
<1>3. 0 \in T
  <2>1. ASSUME NEW c \in ids, NEW s \in Searches(ids),
               Path(depends, s.gray, c), Cardinality(ids \ s.gray) <= 0
        PROVE  FALSE
    <3>1. s.gray \in SUBSET ids
      BY DEF Searches
    <3>2. c \notin s.gray
      BY <2>1, <3>1, PathsAreOpen
    <3>3. IsFiniteSet(ids \ s.gray) /\ ids \ s.gray # {}
      BY <3>2, FS_Subset
    <3>4. Cardinality(ids \ s.gray) \in Nat /\ Cardinality(ids \ s.gray) # 0
      BY <3>3, FS_CardinalityType, FS_EmptySet
    <3> QED
      BY <2>1, <3>4
  <2>2. FindsNone(ids, depends, u[0], 0)
    BY <2>1 DEF FindsNone
  <2> QED
    BY <1>2, <2>2
<1>4. ASSUME NEW n \in 1 .. N, n - 1 \in T
      PROVE  n \in T
  <2>1. n - 1 \in 0 .. N /\ n \in 0 .. N /\ n - 1 \in Nat /\ (n - 1) + 1 = n
    BY <1>2
  <2>2. u[n - 1] \in Visits(ids) /\ FindsNone(ids, depends, u[n - 1], n - 1)
    BY <1>1, <1>4, <2>1
  <2>3. u[n] = Deeper(ids, depends, u[n - 1])
    BY <1>1
  <2> DEFINE v == u[n - 1]
             m == n - 1
  <2>4. m \in Nat /\ v \in Visits(ids) /\ FindsNone(ids, depends, v, m)
    BY <2>1, <2>2
  <2>5. u[n] = Deeper(ids, depends, v) /\ n = m + 1
    BY <2>1, <2>3
  <2> HIDE DEF v, m
  <2>6. FindsNone(ids, depends, u[n], n)
    BY <2>4, <2>5, DeeperFindsNone
  <2> QED
    BY <2>1, <2>6
<1> HIDE DEF T
<1>5. \A n \in 1 .. N : n - 1 \in T => n \in T
  BY <1>4
<1>6. N \in T
  BY <1>2, <1>3, <1>5, Induction, N \in 0 .. N, Zenon
<1> QED
  BY <1>1, <1>6 DEF T, N

\* Ids that are sorted have no cycle: the first of a set of them depends on
\* none of the set.
LEMMA SortedIsAcyclic ==
    ASSUME NEW ids, NEW depends \in [ids -> Seq(ids)], NEW order \in Seq(ids),
           ids \subseteq ToSet(order), Sorted(depends, order)
    PROVE  Acyclic(depends)
<1>1. SUFFICES ASSUME NEW cs \in SUBSET ids, cs # {},
                      \A c \in cs : ToSet(depends[c]) \cap cs # {}
               PROVE  FALSE
  BY DEF Acyclic
<1> DEFINE n == Len(order)
           T == {i \in 0 .. n : \A k \in 1 .. i : order[k] \notin cs}
<1>2. n \in Nat /\ DOMAIN order = 1 .. n
  OBVIOUS
<1>3. 0 \in T
  BY <1>2
<1>4. ASSUME NEW i \in 1 .. n, i - 1 \in T
      PROVE  i \in T
  <2>1. \A k \in 1 .. i - 1 : order[k] \notin cs
    BY <1>4
  <2>2. order[i] \notin cs
    <3>1. SUFFICES ASSUME order[i] \in cs PROVE FALSE
      OBVIOUS
    <3>2. PICK d \in ToSet(depends[order[i]]) : d \in cs
      BY <1>1, <3>1
    <3>3. PICK j \in 1 .. i - 1 : order[j] = d
      BY DEF Sorted
    <3> QED
      BY <2>1, <3>2, <3>3
  <2>3. \A k \in 1 .. i : k \in 1 .. i - 1 \/ k = i
    BY <1>2
  <2>4. \A k \in 1 .. i : order[k] \notin cs
    BY <2>1, <2>2, <2>3
  <2>5. i \in 0 .. n
    BY <1>2
  <2> QED
    BY <2>4, <2>5
<1> HIDE DEF T
<1>5. \A i \in 1 .. n : i - 1 \in T => i \in T
  BY <1>4
<1>6. n \in T
  <2> HIDE DEF n
  <2> QED
    BY <1>2, <1>3, <1>5, Induction, n \in 0 .. n, Zenon
<1>7. PICK c \in cs : c \in ToSet(order)
  BY <1>1
<1>8. PICK i \in 1 .. n : order[i] = c
  BY <1>2, <1>7 DEF ToSet
<1> QED
  BY <1>6, <1>8 DEF T

\* What the search of a manifest ends with.
LEMMA TopoSortDoes ==
    ASSUME NEW ids, NEW declared \in Seq(ids), ids = ToSet(declared),
           NEW depends \in [ids -> Seq(ids)]
    PROVE  LET r == TopoSort(declared, depends)
               order == TopoOrder(declared, depends)
           IN  /\ r.cyclic <=> ~ Acyclic(depends)
               /\ order \in Seq(ids) /\ ToSet(order) \subseteq ids
               /\ ~ r.cyclic => /\ Sorted(depends, order) /\ IsInjective(order)
                                /\ ids \subseteq ToSet(order)
<1> DEFINE visit == Visit(ids, depends)
           r == TopoSort(declared, depends)
           order == TopoOrder(declared, depends)
<1>1. IsFiniteSet(ids)
  <2>1. Len(declared) \in Nat /\ DOMAIN declared = 1 .. Len(declared)
    OBVIOUS
  <2>2. declared \in Surjection(1 .. Len(declared), ids)
    BY <2>1 DEF Surjection, ToSet
  <2> QED
    BY <2>1, <2>2, FS_Interval, FS_Surjection
<1>2. visit \in Visits(ids) /\ DoesEach(ids, depends, visit)
  BY <1>1, VisitDoes
<1>3. Unvisited \in Searches(ids) /\ Sound(depends, Unvisited)
      /\ ~ Unvisited.cyclic /\ Unvisited.gray = {}
  BY DEF Unvisited, Searches, Sound, Sorted, IsInjective
<1>4. r = Through(visit, Unvisited, declared) /\ order = r.order
  BY DEF TopoSort, TopoOrder
<1> HIDE DEF visit, r, order
<1>5. r \in Searches(ids) /\ Does(depends, Unvisited, ids, r)
  BY <1>2, <1>3, <1>4, ThroughDoes, ThroughType
<1>6. order \in Seq(ids) /\ ToSet(order) \subseteq ids
  <2>1. order \in Seq(ids)
    BY <1>4, <1>5 DEF Searches
  <2> QED
    BY <2>1 DEF ToSet
<1>7. ~ r.cyclic => /\ Sorted(depends, order) /\ IsInjective(order)
                    /\ ids \subseteq ToSet(order)
  BY <1>4, <1>5 DEF Does, Sound
<1>8. ~ r.cyclic => Acyclic(depends)
  BY <1>6, <1>7, SortedIsAcyclic
<1>9. ASSUME Acyclic(depends)
      PROVE  ~ r.cyclic
  <2>1. FindsNone(ids, depends, visit, Cardinality(ids))
    BY <1>1, <1>9, VisitFindsNone DEF visit
  <2>2. ids \ Unvisited.gray = ids
    BY <1>3
  <2>3. Cardinality(ids) \in Nat /\ Cardinality(ids) <= Cardinality(ids)
    <3>1. Cardinality(ids) \in Nat
      BY <1>1, FS_CardinalityType
    <3> QED
      BY <3>1
  <2>4. Paths(depends, Unvisited.gray, declared)
    BY <1>3 DEF Paths, Path
  <2>5. FoundNone(Unvisited, r)
    BY <1>2, <1>3, <1>4, <2>1, <2>2, <2>3, <2>4, ThroughFindsNone
  <2> QED
    BY <2>5 DEF FoundNone
<1> QED
  BY <1>6, <1>7, <1>8, <1>9 DEF r, order

\* For every manifest whose components depend on components of it: the
\* search accepts it if and only if it has no cycle, and then gives every
\* component once, after all that it depends on (_topo_sort).
THEOREM ManifestOrder ==
    ASSUME NEW ids, NEW declared \in Seq(ids), ids = ToSet(declared),
           NEW depends \in [ids -> Seq(ids)]
    PROVE  SortsTopologically(declared, depends)
<1> DEFINE r == TopoSort(declared, depends)
           order == TopoOrder(declared, depends)
<1>1. /\ r.cyclic <=> ~ Acyclic(depends)
      /\ order \in Seq(ids) /\ ToSet(order) \subseteq ids
      /\ ~ r.cyclic => /\ Sorted(depends, order) /\ IsInjective(order)
                       /\ ids \subseteq ToSet(order)
  BY TopoSortDoes, Zenon
<1>2. \A c \in ids : ToSet(depends[c]) \subseteq ids
  BY DEF ToSet
<1>3. Accepted(declared, depends) <=> Acyclic(depends)
  BY <1>1, <1>2 DEF Accepted
<1> HIDE DEF r, order
<1>4. ASSUME Acyclic(depends)
      PROVE  \A i, j \in DOMAIN order : order[j] \in ToSet(depends[order[i]]) => j < i
  <2> TAKE i, j \in DOMAIN order
  <2>1. HAVE order[j] \in ToSet(depends[order[i]])
  <2>2. DOMAIN order = 1 .. Len(order) /\ Len(order) \in Nat
    BY <1>1
  <2>3. PICK k \in 1 .. i - 1 : order[k] = order[j]
    BY <1>1, <1>4, <2>1, <2>2 DEF Sorted
  <2>4. k \in DOMAIN order
    BY <2>2, <2>3
  <2>5. k = j
    BY <1>1, <1>4, <2>3, <2>4 DEF IsInjective
  <2> QED
    BY <2>2, <2>3, <2>5
<1>5. Acyclic(depends) => ToSet(order) = ids /\ IsInjective(order)
  BY <1>1
<1> QED
  BY <1>3, <1>4, <1>5 DEF SortsTopologically, order

\* The order of an accepted manifest is all that OrderAssumption says of the
\* one that an installer works by, for its components and their dependencies.
THEOREM AcceptedIsAssumed ==
    ASSUME NEW ids, NEW declared \in Seq(ids), ids = ToSet(declared), ids # {},
           NEW depends \in [ids -> Seq(ids)], Accepted(declared, depends)
    PROVE  LET order == TopoOrder(declared, depends)
               needed == [c \in ids |-> ToSet(depends[c])]
           IN  /\ order \in Seq(ToSet(order)) /\ order # << >>
               /\ \A i, j \in DOMAIN order : order[i] = order[j] => i = j
               /\ needed \in [ToSet(order) -> SUBSET ToSet(order)]
               /\ \A i, j \in DOMAIN order : order[j] \in needed[order[i]] => j < i
<1> DEFINE order == TopoOrder(declared, depends)
           needed == [c \in ids |-> ToSet(depends[c])]
<1>1. order \in Seq(ids)
  BY TopoSortDoes, Zenon
<1>2. SortsTopologically(declared, depends)
  BY ManifestOrder
<1>3. /\ ToSet(order) = ids /\ IsInjective(order)
      /\ \A i, j \in DOMAIN order : order[j] \in ToSet(depends[order[i]]) => j < i
  BY <1>2 DEF SortsTopologically
<1> HIDE DEF order
<1>4. order # << >>
  BY <1>3 DEF ToSet
<1>5. needed \in [ids -> SUBSET ids]
  BY DEF ToSet
<1>6. \A i \in DOMAIN order : order[i] \in ids
  BY <1>1
<1> QED
  BY <1>1, <1>3, <1>4, <1>5, <1>6 DEF IsInjective, order
=============================================================================
