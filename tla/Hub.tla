-------------------------------- MODULE Hub --------------------------------
(***************************************************************************)
(* The registry of MCP servers and the hub that mirrors it into MCPJungle. *)
(*                                                                         *)
(* An engine publishes an entry as a config document and a token in Vault  *)
(* and a pointer in Consul, one call after the other, and unpublishes it   *)
(* the other way round (engine.py).  The hub repeats one cycle             *)
(* (reconciler.py): fetch the pointers, read each entry from Vault, delete *)
(* the servers it knows and no longer finds, then delete and post every    *)
(* server it found.  What it knows it only has in memory.                  *)
(*                                                                         *)
(* The calls of engines and hub interleave one by one.  When the hub's     *)
(* fetch returns is left open: the blocking query wakes it on a change and *)
(* a timer wakes it in any case.                                           *)
(***************************************************************************)
EXTENDS Naturals

CONSTANTS
    Name,       \* the names of registry entries of kind mcp-server
    Value,      \* contents of a document or a token
    Secured,    \* the entries with a bearer_secret
    Longer,     \* name -> the other names it is a prefix of
    None,       \* no document, token or server
    MaxWrites, MaxFaults, MaxRestarts   \* exploration bounds

ASSUME HubAssumption ==
    /\ Secured \subseteq Name /\ Longer \in [Name -> SUBSET Name]
    /\ None \notin Value
    /\ None \notin [url : Value, bearer : Value \cup {None}]
    /\ {MaxWrites, MaxFaults, MaxRestarts} \subseteq Nat

VARIABLES
    \* Vault and Consul
    config,     \* name -> its config document
    token,      \* name -> its token
    pointer,    \* the names with a pointer
    \* the engines
    installed,  \* the names whose component is installed
    job,        \* name -> the next call of the publication under way
    \* MCPJungle
    servers,    \* name -> the server registered under it
    \* the hub
    pc,         \* the next phase of the cycle
    todo,       \* the names the phase has still to deal with
    cur,        \* the name whose second call is due
    seen,       \* the pointers of this cycle's fetch
    resolved,   \* name -> the server this cycle read from Vault
    known,      \* _known_mcp_names
    fresh,      \* new_known
    \* exploration counters
    writes, faults, restarts

registry == <<config, token, pointer>>
hub == <<pc, todo, cur, seen, resolved, known, fresh>>
engines == <<installed, job>>
counters == <<writes, faults, restarts>>
vars == <<registry, engines, servers, hub, counters>>

Server == [url : Value, bearer : Value \cup {None}]
Job == {"none", "token", "pointer", "configGone", "tokenGone"}
HubPhase == {"idle", "resolve", "token", "prune", "upsert", "post"}

TypeOK ==
    /\ config \in [Name -> Value \cup {None}]
    /\ token \in [Name -> Value \cup {None}]
    /\ pointer \subseteq Name
    /\ installed \subseteq Name /\ job \in [Name -> Job]
    /\ servers \in [Name -> Server \cup {None}]
    /\ pc \in HubPhase
    /\ todo \subseteq Name /\ seen \subseteq Name
    /\ known \subseteq Name /\ fresh \subseteq Name
    /\ cur \in Name \cup {None}
    /\ resolved \in [Name -> Server \cup {None}]
    /\ writes \in 0 .. MaxWrites /\ faults \in 0 .. MaxFaults
    /\ restarts \in 0 .. MaxRestarts

Init ==
    /\ config = [n \in Name |-> None] /\ token = [n \in Name |-> None]
    /\ pointer = {} /\ installed = {} /\ job = [n \in Name |-> "none"]
    /\ servers = [n \in Name |-> None]
    /\ pc = "idle" /\ todo = {} /\ cur = None /\ seen = {}
    /\ resolved = [n \in Name |-> None] /\ known = {} /\ fresh = {}
    /\ writes = 0 /\ faults = 0 /\ restarts = 0

Fault == faults < MaxFaults /\ faults' = faults + 1
Ok == UNCHANGED faults

-----------------------------------------------------------------------------
(* An engine publishes and unpublishes an entry *)

Goto(n, stage) == job' = [job EXCEPT ![n] = stage]

\* _publish_registry: a failed write to Vault gives the entry up; an engine
\* that could not make out Vault, and has no client, goes on to the pointer.
PublishConfig(n) ==
    /\ job[n] = "none" /\ writes < MaxWrites /\ writes' = writes + 1
    /\ installed' = installed \cup {n}
    /\ \/ /\ Ok
          /\ \E v \in Value : config' = [config EXCEPT ![n] = v]
          /\ Goto(n, IF n \in Secured THEN "token" ELSE "pointer")
       \/ Fault /\ (Goto(n, "none") \/ Goto(n, "pointer")) /\ UNCHANGED config
    /\ UNCHANGED <<token, pointer, servers, hub, restarts>>

PublishToken(n) ==
    /\ job[n] = "token"
    /\ \/ /\ Ok
          /\ \E v \in Value : token' = [token EXCEPT ![n] = v]
          /\ Goto(n, "pointer")
       \/ Fault /\ Goto(n, "none") /\ UNCHANGED token
    /\ UNCHANGED <<config, pointer, installed, servers, hub, writes, restarts>>

PublishPointer(n) ==
    /\ job[n] = "pointer" /\ Goto(n, "none")
    /\ \/ Ok /\ pointer' = pointer \cup {n}
       \/ Fault /\ UNCHANGED pointer
    /\ UNCHANGED <<config, token, installed, servers, hub, writes, restarts>>

\* A bug: the pointer stays behind when an entry is unpublished.
UnpublishPointerLeft(n) ==
    /\ job[n] = "none" /\ n \in installed /\ installed' = installed \ {n}
    /\ writes < MaxWrites /\ writes' = writes + 1
    /\ Goto(n, "configGone") /\ Ok
    /\ UNCHANGED <<config, token, pointer, servers, hub, restarts>>

\* _post_component_unpublish: each call is tried whatever became of the others.
\* kv_delete_tree deletes every key that starts with the pointer's.
UnpublishPointer(n) ==
    /\ job[n] = "none" /\ n \in installed /\ installed' = installed \ {n}
    /\ writes < MaxWrites /\ writes' = writes + 1
    /\ Goto(n, "configGone")
    /\ \/ Ok /\ pointer' = pointer \ ({n} \cup Longer[n])
       \/ Fault /\ UNCHANGED pointer
    /\ UNCHANGED <<config, token, servers, hub, restarts>>

UnpublishConfig(n) ==
    /\ job[n] = "configGone" /\ Goto(n, "tokenGone")
    /\ \/ Ok /\ config' = [config EXCEPT ![n] = None]
       \/ Fault /\ UNCHANGED config
    /\ UNCHANGED <<token, pointer, installed, servers, hub, writes, restarts>>

UnpublishToken(n) ==
    /\ job[n] = "tokenGone" /\ Goto(n, "none")
    /\ \/ Ok /\ token' = [token EXCEPT ![n] = None]
       \/ Fault /\ UNCHANGED token
    /\ UNCHANGED <<config, pointer, installed, servers, hub, writes, restarts>>

-----------------------------------------------------------------------------
(* One cycle of the hub *)

\* ConsulWatcher.fetch.  A failed one starts over, which changes nothing.
Fetch ==
    /\ pc = "idle"
    /\ pc' = "resolve" /\ seen' = pointer /\ todo' = pointer
    /\ resolved' = [n \in Name |-> None]
    /\ UNCHANGED <<registry, engines, servers, cur, known, fresh, counters>>

\* A bug: a missing document is not noticed.
ReadConfigMissing(n) ==
    /\ pc = "resolve" /\ n \in todo /\ todo' = todo \ {n}
    /\ resolved' = [resolved EXCEPT ![n] = [url |-> config[n], bearer |-> None]]
    /\ UNCHANGED <<registry, engines, servers, pc, cur, seen, known, fresh, counters>>

\* read_registry_config: a missing document and a failed call are the same
\* None, and the entry is left out of this cycle.
ReadConfig(n) ==
    /\ pc = "resolve" /\ n \in todo /\ todo' = todo \ {n}
    /\ \/ /\ config[n] # None /\ Ok
          /\ resolved' = [resolved EXCEPT ![n] = [url |-> config[n], bearer |-> None]]
          /\ IF n \in Secured THEN pc' = "token" /\ cur' = n ELSE UNCHANGED <<pc, cur>>
       \/ config[n] = None /\ Ok /\ UNCHANGED <<resolved, pc, cur>>
       \/ Fault /\ UNCHANGED <<resolved, pc, cur>>
    /\ UNCHANGED <<registry, engines, servers, seen, known, fresh, writes, restarts>>

\* read_token: a failed call leaves the entry without its bearer.
ReadToken ==
    /\ pc = "token"
    /\ pc' = "resolve" /\ cur' = None
    /\ \/ Ok /\ resolved' = [resolved EXCEPT ![cur].bearer = token[cur]]
       \/ Fault /\ UNCHANGED resolved
    /\ UNCHANGED <<registry, engines, servers, todo, seen, known, fresh, writes, restarts>>

Desired == {n \in Name : resolved[n] # None}

BeginPruneSwapped ==     \* a bug: the difference is taken the wrong way round
    /\ pc = "resolve" /\ todo = {}
    /\ pc' = "prune" /\ todo' = Desired \ known /\ fresh' = known \cap Desired
    /\ UNCHANGED <<registry, engines, servers, cur, seen, resolved, known, counters>>

BeginPrune ==
    /\ pc = "resolve" /\ todo = {}
    /\ pc' = "prune" /\ todo' = known \ Desired /\ fresh' = known \cap Desired
    /\ UNCHANGED <<registry, engines, servers, cur, seen, resolved, known, counters>>

\* delete_server: the name is forgotten whether or not the call worked.
Prune(n) ==
    /\ pc = "prune" /\ n \in todo /\ todo' = todo \ {n}
    /\ \/ Ok /\ servers' = [servers EXCEPT ![n] = None]
       \/ Fault /\ servers' \in {servers, [servers EXCEPT ![n] = None]}
    /\ UNCHANGED <<registry, engines, pc, cur, seen, resolved, known, fresh, writes, restarts>>

\* A bug: servers that are known are not posted again.
BeginUpsertNewOnly ==
    /\ pc = "prune" /\ todo = {}
    /\ pc' = "upsert" /\ todo' = Desired \ known
    /\ UNCHANGED <<registry, engines, servers, cur, seen, resolved, known, fresh, counters>>

BeginUpsert ==
    /\ pc = "prune" /\ todo = {}
    /\ pc' = "upsert" /\ todo' = Desired
    /\ UNCHANGED <<registry, engines, servers, cur, seen, resolved, known, fresh, counters>>

\* upsert_server, first call.  An error answer is ignored; an exception ends
\* the upsert.
UpsertDelete(n) ==
    /\ pc = "upsert" /\ n \in todo /\ todo' = todo \ {n}
    /\ \/ Ok /\ servers' = [servers EXCEPT ![n] = None] /\ pc' = "post" /\ cur' = n
       \/ Fault /\ UNCHANGED servers /\ pc' = "post" /\ cur' = n
       \/ Fault /\ UNCHANGED <<pc, cur>>
          /\ servers' \in {servers, [servers EXCEPT ![n] = None]}
    /\ UNCHANGED <<registry, engines, seen, resolved, known, fresh, writes, restarts>>

\* A bug: a server that was posted is not remembered.
UpsertPostForgets ==
    /\ pc = "post" /\ pc' = "upsert" /\ cur' = None
    /\ servers[cur] = None /\ servers' = [servers EXCEPT ![cur] = resolved[cur]]
    /\ UNCHANGED <<registry, engines, todo, seen, resolved, known, fresh, counters>>

\* Second call: refused for a name that is taken; the answer may be lost.
UpsertPost ==
    /\ pc = "post" /\ pc' = "upsert" /\ cur' = None
    /\ \/ servers[cur] = None /\ Ok
          /\ servers' = [servers EXCEPT ![cur] = resolved[cur]]
          /\ fresh' = fresh \cup {cur}
       \/ servers[cur] # None /\ Ok /\ UNCHANGED <<servers, fresh>>
       \/ servers[cur] = None /\ Fault /\ UNCHANGED fresh
          /\ servers' \in {servers, [servers EXCEPT ![cur] = resolved[cur]]}
    /\ UNCHANGED <<registry, engines, todo, seen, resolved, known, writes, restarts>>

EndCycle ==
    /\ pc = "upsert" /\ todo = {}
    /\ pc' = "idle" /\ known' = fresh
    /\ UNCHANGED <<registry, engines, servers, todo, cur, seen, resolved, fresh, counters>>

\* The hub is stopped or killed and starts again with an empty memory,
\* whatever MCPJungle holds.
Restart ==
    /\ restarts < MaxRestarts /\ restarts' = restarts + 1
    /\ pc' = "idle" /\ todo' = {} /\ cur' = None /\ seen' = {}
    /\ resolved' = [n \in Name |-> None] /\ known' = {} /\ fresh' = {}
    /\ UNCHANGED <<registry, engines, servers, writes, faults>>

-----------------------------------------------------------------------------

Engine ==
    \E n \in Name :
        \/ PublishConfig(n) \/ PublishToken(n) \/ PublishPointer(n)
        \/ UnpublishPointer(n) \/ UnpublishConfig(n) \/ UnpublishToken(n)

Cycle ==
    \/ Fetch \/ ReadToken \/ BeginPrune \/ BeginUpsert \/ UpsertPost \/ EndCycle
    \/ \E n \in Name : ReadConfig(n) \/ Prune(n) \/ UpsertDelete(n)

Next == Engine \/ Cycle \/ Restart

Spec == Init /\ [][Next]_vars

\* The hub's loop goes on.  Engines need not finish what they publish.
FairSpec == Spec /\ WF_vars(Cycle)
=============================================================================
