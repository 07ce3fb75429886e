----------------------------- MODULE HubProofs -----------------------------
(***************************************************************************)
(* Proofs about Hub for any set of entries and all bounds.                 *)
(***************************************************************************)
EXTENDS HubProps, TLAPS

\* Types, and who the second call of a pair is about.
Typed ==
    /\ TypeOK
    /\ pc \in {"token", "post"} => cur \in Name /\ resolved[cur] \in Server
    /\ pc \in {"upsert", "post"} => todo \subseteq Desired

LEMMA FaultTyped ==
    ASSUME TypeOK, Fault \/ Ok
    PROVE  faults' \in 0 .. MaxFaults
  BY HubAssumption DEF TypeOK, Fault, Ok

LEMMA EngineTyped ==
    ASSUME Typed, Engine
    PROVE  Typed'
<1>1. PICK n \in Name :
         \/ PublishConfig(n) \/ PublishToken(n) \/ PublishPointer(n)
         \/ UnpublishPointer(n) \/ UnpublishConfig(n) \/ UnpublishToken(n)
  BY DEF Engine
<1>2. UNCHANGED <<servers, hub, restarts>> /\ (Fault \/ Ok)
  BY <1>1
  DEF PublishConfig, PublishToken, PublishPointer, UnpublishPointer,
      UnpublishConfig, UnpublishToken
<1>3. job' \in [Name -> Job]
  BY <1>1
  DEF PublishConfig, PublishToken, PublishPointer, UnpublishPointer,
      UnpublishConfig, UnpublishToken, Goto, Job, Typed, TypeOK
<1>4. /\ config' \in [Name -> Value \cup {None}]
      /\ token' \in [Name -> Value \cup {None}]
      /\ pointer' \subseteq Name /\ installed' \subseteq Name
  BY <1>1
  DEF PublishConfig, PublishToken, PublishPointer, UnpublishPointer,
      UnpublishConfig, UnpublishToken, Typed, TypeOK
<1>5. writes' \in 0 .. MaxWrites
  BY <1>1, HubAssumption
  DEF PublishConfig, PublishToken, PublishPointer, UnpublishPointer,
      UnpublishConfig, UnpublishToken, Typed, TypeOK
<1> QED
  BY <1>2, <1>3, <1>4, <1>5, FaultTyped DEF hub, Typed, TypeOK, Desired

LEMMA CycleTyped ==
    ASSUME Typed, Cycle
    PROVE  Typed'
<1> USE DEF registry, engines, counters, HubPhase
<1>1. CASE Fetch
  BY <1>1 DEF Fetch, Typed, TypeOK
<1>2. ASSUME NEW n \in Name, ReadConfig(n) PROVE Typed'
  <2>1. config[n] # None => [url |-> config[n], bearer |-> None] \in Server
    BY DEF Typed, TypeOK, Server
  <2> QED
    BY <1>2, <2>1, FaultTyped DEF ReadConfig, Typed, TypeOK
<1>3. CASE ReadToken
  <2>1. [resolved[cur] EXCEPT !.bearer = token[cur]] \in Server
    BY <1>3 DEF ReadToken, Typed, TypeOK, Server
  <2> QED
    BY <1>3, <2>1, FaultTyped DEF ReadToken, Typed, TypeOK
<1>4. CASE BeginPrune
  BY <1>4 DEF BeginPrune, Typed, TypeOK
<1>5. ASSUME NEW n \in Name, Prune(n) PROVE Typed'
  BY <1>5, FaultTyped DEF Prune, Typed, TypeOK
<1>6. CASE BeginUpsert
  BY <1>6 DEF BeginUpsert, Desired, Typed, TypeOK
<1>7. ASSUME NEW n \in Name, UpsertDelete(n) PROVE Typed'
  <2>1. resolved[n] \in Server
    BY <1>7 DEF UpsertDelete, Desired, Typed, TypeOK
  <2> QED
    BY <1>7, <2>1, FaultTyped DEF UpsertDelete, Desired, Typed, TypeOK
<1>8. CASE UpsertPost
  BY <1>8, FaultTyped DEF UpsertPost, Desired, Typed, TypeOK
<1>9. CASE EndCycle
  BY <1>9 DEF EndCycle, Typed, TypeOK
<1> QED
  BY <1>1, <1>2, <1>3, <1>4, <1>5, <1>6, <1>7, <1>8, <1>9 DEF Cycle

LEMMA NextTyped == Typed /\ [Next]_vars => Typed'
<1> SUFFICES ASSUME Typed, [Next]_vars PROVE Typed'
  OBVIOUS
<1>1. CASE Restart
  BY <1>1, HubAssumption
  DEF Restart, registry, engines, Typed, TypeOK, HubPhase
<1>2. CASE UNCHANGED vars
  BY <1>2 DEF vars, registry, engines, hub, counters, Typed, TypeOK, Desired
<1> QED
  BY <1>1, <1>2, EngineTyped, CycleTyped DEF Next

LEMMA InitTyped == Init => Typed
  BY HubAssumption DEF Init, Typed, TypeOK, Job, HubPhase

\* Every state of the registry and the hub is well-typed.
THEOREM HubTypeCorrect == Spec => []TypeOK
<1>1. Typed => TypeOK
  BY DEF Typed
<1> QED
  BY InitTyped, NextTyped, <1>1, PTL DEF Spec

-----------------------------------------------------------------------------
(* The registry *)

\* A publication under way is one of an installed component, a withdrawal one
\* of a component that is gone and whose pointer is gone.
Publications ==
    faults = 0 => \A n \in Name :
        /\ job[n] \in {"token", "pointer"} => n \in installed
        /\ job[n] \in {"configGone", "tokenGone"} => n \notin installed /\ n \notin pointer
        /\ job[n] = "none" =>
              /\ n \in pointer => n \in installed
              /\ n \in installed /\ (\A m \in Name : n \notin Longer[m]) => n \in pointer

\* For any entries, of whatever names: whenever no engine is at work on an
\* entry, it has no pointer if its component is gone, and has it if its
\* component is installed and no other entry's name is at the start of its.
THEOREM RegistryCorrect == Spec => []RegistryMatchesRecord
<1>1. Init => Publications
  BY DEF Init, Publications
<1>2. Typed /\ Publications /\ [Next]_vars => Publications'
  <2> SUFFICES ASSUME Typed, Publications, [Next]_vars, faults' = 0
               PROVE  Publications'
    BY DEF Publications
  <2>1. faults = 0 /\ ~ Fault
    <3>1. ~ Fault
      BY DEF Fault, Typed, TypeOK
    <3>2. UNCHANGED faults
      BY <3>1
      DEF Next, Engine, Cycle, Restart, vars, counters,
          PublishConfig, PublishToken, PublishPointer, UnpublishPointer,
          UnpublishConfig, UnpublishToken, Fetch, ReadConfig, ReadToken,
          BeginPrune, Prune, BeginUpsert, UpsertDelete, UpsertPost, EndCycle, Ok
    <3> QED
      BY <3>1, <3>2
  <2>2. ASSUME NEW n \in Name,
               \/ PublishConfig(n) \/ PublishToken(n) \/ PublishPointer(n)
               \/ UnpublishPointer(n) \/ UnpublishConfig(n) \/ UnpublishToken(n)
        PROVE  Publications'
    BY <2>1, <2>2
    DEF PublishConfig, PublishToken, PublishPointer, UnpublishPointer,
        UnpublishConfig, UnpublishToken, Goto, Publications, Typed, TypeOK
  <2>3. CASE Cycle \/ Restart \/ UNCHANGED vars
    <3>1. UNCHANGED <<job, installed, pointer>>
      BY <2>3
      DEF Cycle, Restart, vars, registry, engines, Fetch, ReadConfig, ReadToken,
          BeginPrune, Prune, BeginUpsert, UpsertDelete, UpsertPost, EndCycle
    <3> QED
      BY <2>1, <3>1 DEF Publications
  <2> QED
    BY <2>2, <2>3 DEF Next, Engine
<1>3. Publications => RegistryMatchesRecord
  BY DEF Publications, RegistryMatchesRecord
<1> QED
  BY <1>1, <1>2, <1>3, InitTyped, NextTyped, PTL DEF Spec

-----------------------------------------------------------------------------
(* The mirror *)

Registered == {n \in Name : servers[n] # None}

\* Without failures and restarts the hub knows every server there is: in the
\* first half of a cycle by the names of the last one, in the second half,
\* when the stale ones are gone, by those of this one.
Reading ==
    pc \in {"idle", "resolve", "token"} => Registered \subseteq known

Pruning ==
    pc = "prune" => /\ Registered \subseteq fresh \cup todo
                    /\ fresh \subseteq Desired

Upserting ==
    pc \in {"upsert", "post"} =>
        /\ Registered \subseteq fresh
        /\ fresh \subseteq Desired
        /\ \A n \in Desired \ todo :
              \/ servers[n] = resolved[n] /\ n \in fresh
              \/ pc = "post" /\ n = cur
        /\ pc = "post" => servers[cur] = None /\ cur \in Desired \ todo

Undisturbed == faults = 0 /\ restarts = 0

Tracked ==
    Undisturbed => /\ Reading /\ Pruning /\ Upserting
                   /\ pc = "idle" => servers = resolved

LEMMA StaysUndisturbed ==
    ASSUME Typed, [Next]_vars, Undisturbed'
    PROVE  Undisturbed /\ Ok /\ ~ Fault /\ ~ Restart
<1>1. ~ Fault /\ ~ Restart
  BY DEF Fault, Restart, Undisturbed, Typed, TypeOK
<1> QED
  BY <1>1
  DEF Next, Engine, Cycle, vars, counters, Undisturbed,
      PublishConfig, PublishToken, PublishPointer, UnpublishPointer,
      UnpublishConfig, UnpublishToken, Fetch, ReadConfig, ReadToken,
      BeginPrune, Prune, BeginUpsert, UpsertDelete, UpsertPost, EndCycle, Ok

LEMMA NextTracked == Typed /\ Tracked /\ [Next]_vars => Tracked'
<1> SUFFICES ASSUME Typed, Tracked, [Next]_vars, Undisturbed'
             PROVE  (Reading /\ Pruning /\ Upserting)' /\ (pc = "idle" => servers = resolved)'
  BY DEF Tracked
<1>1. /\ Undisturbed /\ ~ Fault /\ ~ Restart
      /\ Reading /\ Pruning /\ Upserting
      /\ pc = "idle" => servers = resolved
  BY StaysUndisturbed DEF Tracked
<1> USE DEF Reading, Pruning, Upserting, Registered
<1>2. CASE Fetch
  BY <1>1, <1>2 DEF Fetch
<1>3. CASE ReadToken \/ \E n \in Name : ReadConfig(n)
  BY <1>1, <1>3 DEF ReadToken, ReadConfig
<1>4. CASE BeginPrune
  BY <1>1, <1>4 DEF BeginPrune, Desired
<1>5. ASSUME NEW n \in Name, Prune(n)
      PROVE  (Reading /\ Pruning /\ Upserting)' /\ (pc = "idle" => servers = resolved)'
  BY <1>1, <1>5 DEF Prune, Desired, Typed, TypeOK
<1>6. CASE BeginUpsert
  BY <1>1, <1>6 DEF BeginUpsert, Desired
<1>7. ASSUME NEW n \in Name, UpsertDelete(n)
      PROVE  (Reading /\ Pruning /\ Upserting)' /\ (pc = "idle" => servers = resolved)'
  BY <1>1, <1>7 DEF UpsertDelete, Desired, Typed, TypeOK
<1>8. CASE UpsertPost
  <2>1. /\ servers' = [servers EXCEPT ![cur] = resolved[cur]]
        /\ fresh' = fresh \cup {cur} /\ pc' = "upsert" /\ UNCHANGED <<todo, resolved>>
    BY <1>1, <1>8 DEF UpsertPost
  <2> QED
    BY <1>1, <1>8, <2>1 DEF UpsertPost, Desired, Typed, TypeOK
<1>9. CASE EndCycle
  <2>1. \A n \in Name : servers[n] = resolved[n]
    BY <1>1, <1>9 DEF EndCycle, Desired
  <2>2. servers = resolved
    BY <2>1 DEF Typed, TypeOK
  <2> QED
    BY <1>1, <1>9, <2>2 DEF EndCycle
<1>10. CASE Engine \/ UNCHANGED vars
  BY <1>1, <1>10
  DEF Engine, vars, hub, counters, Desired,
      PublishConfig, PublishToken, PublishPointer, UnpublishPointer,
      UnpublishConfig, UnpublishToken
<1> QED
  BY <1>1, <1>2, <1>3, <1>4, <1>5, <1>6, <1>7, <1>8, <1>9, <1>10 DEF Next, Cycle

\* Without failures and restarts MCPJungle is, between two cycles, exactly
\* what the last cycle read, for any number of entries and of interleavings
\* with the engines.
THEOREM MirrorCorrect == Spec => []MirrorsCycle
<1>1. Init => Tracked
  BY DEF Init, Tracked, Reading, Pruning, Upserting, Registered
<1>2. Tracked => MirrorsCycle
  BY DEF Tracked, Undisturbed, MirrorsCycle
<1> QED
  BY <1>1, <1>2, NextTracked, InitTyped, NextTyped, PTL DEF Spec
=============================================================================
