------------------------------- MODULE Backends -------------------------------
(***************************************************************************)
(* How runs of the stacks of one host find Consul and Vault, trust them and *)
(* come by their tokens: the probes (discovery.py), the token files of the  *)
(* stacks' state directories (tokens.py), and the adoption of a Consul or   *)
(* Vault that the run itself has installed (engine.py).                     *)
(*                                                                          *)
(* The network says what answers at each url: under which certificate, and  *)
(* what.  A url is a host and a door: the native port over TLS, the proxy   *)
(* on 443, the native port in the clear, or an address without a scheme.    *)
(* "named" is the name in the run's domain, "default" that in the           *)
(* manifest's.  The probes of a run, and the reads of one resolution, are a *)
(* step; the rest of two runs interleaves.                                  *)
(***************************************************************************)
EXTENDS Naturals, SequencesExt

CONSTANTS
    StackOrder,     \* the state directories, as sorted()
    Token,          \* what token files and variables hold
    Readers,        \* Vault tokens that may read shared/consul_bootstrap_token
    Nets,           \* the states of the network
    Envs,           \* the environments runs are started in
    None,
    MaxRuns, MaxChanges, MaxFaults      \* exploration bounds

Stack == ToSet(StackOrder)
Host == {"named", "default", "loopback"}
Url == Host \X {"native", "proxy", "plain"}
Policy == {"system", "bundle", "off"}
TokenFile == Token \cup {None}

\* What a url answers: certificate "own" is signed by this deployment's CA, and
\* "none" means no TLS; Vault's health is "json".
Answer == [cert : {"none", "own", "public"}, says : {"nothing", "json", "other"}]

Client == [addr : Url, token : TokenFile, verify : Policy]
ConsulClient == [addr : Url, token : TokenFile]
Run == [env : Envs, vault : Client \cup {None}, consul : ConsulClient \cup {None}]

ASSUME BackendsAssumption ==
    /\ MaxRuns \in Nat /\ MaxChanges \in Nat /\ MaxFaults \in Nat
    /\ StackOrder \in Seq(Stack) /\ Readers \subseteq Token 
    /\ None \notin Token \cup Url \cup Client \cup ConsulClient \cup Run
    /\ \A n \in Nets :
          /\ n.resolves \in [Host -> BOOLEAN]
          /\ n.vault \in [Url -> Answer] /\ n.consul \in [Url -> Answer]
          /\ \A u \in Url : u[2] = "plain" => "none" = n.vault[u].cert
    /\ \A e \in Envs :
          /\ e.vaultToken \in TokenFile /\ e.consulToken \in TokenFile
          /\ e.vaultAddr \in {None} \cup (Host \X {"native", "proxy", "plain", "bare"})
          /\ e.consulAddr \in {None} \cup (Host \X {"proxy", "plain", "bare"})
          /\ e.policy \in Policy

VARIABLES
    net,
    kv,         \* Vault's shared/consul_bootstrap_token
    files,      \* stack -> its vault-token and consul-http-token
    scoped,     \* stack -> the token for it in a sibling's stackwiz-tokens
    at,         \* stack -> where its run is
    run,        \* stack -> the run's environment and clients
    had,        \* stack -> the Consul token it last got
    runs, changes, faults

disk == <<files, scoped>>
bounds == <<runs, changes, faults>>
vars == <<net, kv, disk, at, run, had, bounds>>

TypeOK ==
    /\ net \in Nets /\ kv \in TokenFile
    /\ files \in [Stack -> [vault : TokenFile, consul : TokenFile]]
    /\ scoped \in [Stack -> TokenFile]
    /\ at \in [Stack -> {"off", "tokens", "cache", "run", "consul up", "vault up"}]
    /\ run \in [Stack -> Run \cup {None}]
    /\ had \in [Stack -> TokenFile]
    /\ runs \in 0 .. MaxRuns /\ changes \in 0 .. MaxChanges /\ faults \in 0 .. MaxFaults

-----------------------------------------------------------------------------
(* Probes *)

\* resolve_verify, and what a connection under it accepts.
Accepts(policy, cert) ==
    \/ policy = "off" \/ cert = "none"
    \/ <<policy, cert>> \in {<<"system", "public">>, <<"bundle", "own">>}

\* _vault_http_ok: Vault's own answer, not that of a proxy or of a TLS port.
VaultOk(n, url, policy) == n.vault[url].says = "json" /\ Accepts(policy, n.vault[url].cert)

\* _http_ok: any answer below 500.
ConsulOk(n, url) == n.consul[url].says # "nothing" /\ Accepts("system", n.consul[url].cert)

\* _normalize_addr: http, unless the address says otherwise.
Normalize(addr) == <<addr[1], IF addr[2] = "bare" THEN "plain" ELSE addr[2]>>

If(condition, seq) == IF condition THEN seq ELSE <<>>

\* The first element of a sequence at one of the good places.
First(seq, good) == IF good = {} THEN None ELSE seq[Min(good)]

\* The doors of a host; the one in the clear only if no token is in VAULT_TOKEN.
VaultDoors(env, host) ==
    << <<host, "native">> >> \o If(host # "loopback", << <<host, "proxy">> >>)
        \o If(env.vaultToken = None, << <<host, "plain">> >>)

ProbeVault(n, env, host, policy) ==
    LET urls == If(env.vaultAddr # None, <<Normalize(env.vaultAddr)>>)
                  \o If(n.resolves[host], VaultDoors(env, host)) \o VaultDoors(env, "loopback")
    IN  First(urls, {i \in DOMAIN urls : VaultOk(n, urls[i], policy)})

ProbeConsul(n, env, host) ==
    LET urls == If(env.consulAddr # None, <<Normalize(env.consulAddr)>>)
                  \o If(n.resolves[host], << <<host, "plain">>, <<host, "proxy">> >>)
                  \o << <<"loopback", "plain">> >>
    IN  First(urls, {i \in DOMAIN urls : ConsulOk(n, urls[i])})

-----------------------------------------------------------------------------
(* Tokens *)

FirstOf(tokens) == First(tokens, {i \in DOMAIN tokens : tokens[i] # None})

\* read_sibling_state_token.
OfSiblings(s, kind) ==
    LET found == [i \in DOMAIN StackOrder |-> files[StackOrder[i]][kind]]
    IN  First(found, {i \in DOMAIN found : StackOrder[i] # s /\ found[i] # None})

ResolveVaultToken(s, env) ==
    FirstOf(<<files[s].vault, env.vaultToken, scoped[s], OfSiblings(s, "vault")>>)

\* kv_get by this client now: None if it is refused or fails.
Shared(client) ==
    IF client.token \in Readers /\ VaultOk(net, client.addr, client.verify) THEN kv ELSE None

\* The run's Vault first, then VAULT_TOKEN at VAULT_ADDR or at that Vault; an
\* address without a scheme is no url.
FromVault(r) ==
    LET addr == IF r.env.vaultAddr # None THEN r.env.vaultAddr
                ELSE IF r.vault # None THEN r.vault.addr ELSE None
        other == [addr |-> addr, token |-> r.env.vaultToken, verify |-> r.env.policy]
    IN  FirstOf(<<IF r.vault # None THEN Shared(r.vault) ELSE None,
                  IF addr # None /\ r.env.vaultToken # None /\ addr[2] # "bare"
                  THEN Shared(other) ELSE None>>)

-----------------------------------------------------------------------------
(* build_backends, for a run of the installer or of info *)

Consul(s, client) == run' = [run EXCEPT ![s].consul = client]
Vault(s, client) == run' = [run EXCEPT ![s].vault = client]
Goto(s, place) == at' = [at EXCEPT ![s] = place]

\* Both are probed, Consul first; Vault's client has its token from the start.
FindBackends(s) ==
    /\ at[s] = "off" /\ runs < MaxRuns /\ runs' = runs + 1
    /\ \E env \in Envs :
          LET consul == ProbeConsul(net, env, "named")
              vault == ProbeVault(net, env, "named", env.policy)
              token == ResolveVaultToken(s, env)
          IN  /\ run' = [run EXCEPT ![s] =
                    [env |-> env,
                     consul |-> IF consul = None THEN None
                                ELSE [addr |-> consul, token |-> None],
                     vault |-> IF vault = None THEN None
                               ELSE [addr |-> vault, token |-> token, verify |-> env.policy]]]
              /\ Goto(s, IF consul = None THEN "run" ELSE "tokens")
    /\ UNCHANGED <<net, kv, disk, had, changes, faults>>

Keep(s, token) == had' = [had EXCEPT ![s] = token]

\* resolve_consul_token: the own file counts; a token found elsewhere is written
\* to it, which truncates it first; or writing fails, and the run goes on.
ResolveConsulToken(s) ==
    /\ at[s] = "tokens"
    /\ LET found == FirstOf(<<run[s].env.consulToken, OfSiblings(s, "consul"), FromVault(run[s])>>)
           token == FirstOf(<<files[s].consul, found>>)
       IN  /\ Consul(s, [run[s].consul EXCEPT !.token = token])
           /\ IF token = None \/ files[s].consul # None
              THEN Goto(s, "run") /\ Keep(s, token) /\ UNCHANGED faults
              ELSE /\ UNCHANGED had
                   /\ \/ Goto(s, "cache") /\ UNCHANGED faults
                      \/ Goto(s, "run") /\ faults < MaxFaults /\ faults' = faults + 1
    /\ UNCHANGED <<net, kv, disk, runs, changes>>

\* A bug: only what came from the environment is written.
CacheEnvOnly(s) ==
    /\ at[s] = "cache" /\ Goto(s, "run") /\ Keep(s, run[s].consul.token)
    /\ files' = IF run[s].env.consulToken = None THEN files
                ELSE [files EXCEPT ![s].consul = run[s].consul.token]
    /\ UNCHANGED <<net, kv, scoped, run, bounds>>

Cache(s) ==
    /\ at[s] = "cache" /\ Goto(s, "run") /\ Keep(s, run[s].consul.token)
    /\ files' = [files EXCEPT ![s].consul = run[s].consul.token]
    /\ UNCHANGED <<net, kv, scoped, run, bounds>>

-----------------------------------------------------------------------------
(* Adoption *)

Change == changes < MaxChanges /\ changes' = changes + 1

\* The script of the vault component: a Vault comes up, with a root token.
InstallVault(s) ==
    /\ at[s] = "run" /\ Goto(s, "vault up") /\ Change
    /\ net' \in Nets
    /\ \E t \in Readers : files' = [files EXCEPT ![s].vault = t]
    /\ UNCHANGED <<kv, scoped, run, had, runs, faults>>

\* A bug: the client is built under the run's policy in any case.
AdoptVaultStrictly(s) ==
    /\ at[s] = "vault up" /\ Goto(s, "run")
    /\ LET env == run[s].env
           strict == ProbeVault(net, env, "named", env.policy)
           addr == IF strict = None /\ files[s].vault # None
                   THEN ProbeVault(net, env, "named", "off") ELSE strict
       IN  IF addr = None THEN UNCHANGED run
           ELSE Vault(s, [addr |-> addr, verify |-> env.policy,
                          token |-> FirstOf(<<files[s].vault, env.vaultToken>>)])
    /\ UNCHANGED <<net, kv, disk, had, bounds>>

\* _adopt_vault_after_install: a second probe, without verification, if the
\* first fails and there is a token file; and the client without it if there is.
AdoptVault(s) ==
    /\ at[s] = "vault up" /\ Goto(s, "run")
    /\ LET env == run[s].env
           own == files[s].vault # None
           strict == ProbeVault(net, env, "named", env.policy)
           addr == IF strict = None /\ own THEN ProbeVault(net, env, "named", "off") ELSE strict
       IN  IF addr = None THEN UNCHANGED run
           ELSE Vault(s, [addr |-> addr, verify |-> IF own THEN "off" ELSE env.policy,
                          token |-> FirstOf(<<files[s].vault, env.vaultToken>>)])
    /\ UNCHANGED <<net, kv, disk, had, bounds>>

\* The script of the consul component; it hands its token on through the file
\* and, if the run has a Vault, through that.
InstallConsul(s) ==
    /\ at[s] = "run" /\ Goto(s, "consul up") /\ Change
    /\ net' \in Nets
    /\ \E t \in Token :
          /\ files' = [files EXCEPT ![s].consul = t]
          /\ Keep(s, t)
          /\ kv' \in IF run[s].vault # None THEN {kv, t} ELSE {kv}
    /\ UNCHANGED <<scoped, run, runs, faults>>

\* A bug: an address of the environment is believed, as it is written.
AdoptConsulBlindly(s) ==
    /\ at[s] = "consul up" /\ Goto(s, "run")
    /\ LET env == run[s].env
           addr == IF env.consulAddr # None THEN env.consulAddr
                   ELSE ProbeConsul(net, env, "default")
       IN  IF addr = None THEN UNCHANGED run
           ELSE Consul(s, [addr |-> addr, token |-> files[s].consul])
    /\ UNCHANGED <<net, kv, disk, had, bounds>>

\* _adopt_consul_after_install: in the manifest's domain, with the own file only.
AdoptConsul(s) ==
    /\ at[s] = "consul up" /\ Goto(s, "run")
    /\ LET addr == ProbeConsul(net, run[s].env, "default") IN
       IF addr = None THEN UNCHANGED run
       ELSE Consul(s, [addr |-> addr, token |-> files[s].consul])
    /\ UNCHANGED <<net, kv, disk, had, bounds>>

EndRun(s) ==
    /\ at[s] = "run" /\ Goto(s, "off") /\ run' = [run EXCEPT ![s] = None]
    /\ UNCHANGED <<net, kv, disk, had, bounds>>

-----------------------------------------------------------------------------
(* What else happens *)

\* The run dies, perhaps with its token file empty.
Crash(s) ==
    /\ at[s] # "off" /\ Goto(s, "off") /\ faults < MaxFaults /\ faults' = faults + 1
    /\ run' = [run EXCEPT ![s] = None]
    /\ UNCHANGED <<net, kv, disk, had, runs, changes>>

\* Servers, names and certificates change.
Rewire ==
    /\ Change /\ net' \in Nets \ {net}
    /\ UNCHANGED <<kv, disk, at, run, had, runs, faults>>

\* A sibling's state directory gets a token for this stack.
GiveScoped(s) ==
    /\ Change /\ \E t \in Token : scoped' = [scoped EXCEPT ![s] = t]
    /\ UNCHANGED <<net, kv, files, at, run, had, runs, faults>>

\* The stack is purged, with its state directory.
Purge(s) ==
    /\ Change /\ at[s] = "off"
    /\ files' = [files EXCEPT ![s] = [vault |-> None, consul |-> None]]
    /\ Keep(s, None)
    /\ UNCHANGED <<net, kv, scoped, at, run, runs, faults>>

-----------------------------------------------------------------------------
Init ==
    /\ net \in Nets /\ kv = None
    /\ files = [s \in Stack |-> [vault |-> None, consul |-> None]]
    /\ scoped = [s \in Stack |-> None]
    /\ at = [s \in Stack |-> "off"]
    /\ run = [s \in Stack |-> None] /\ had = [s \in Stack |-> None]
    /\ runs = 0 /\ changes = 0 /\ faults = 0

Next ==
    \/ \E s \in Stack :
          \/ FindBackends(s) \/ ResolveConsulToken(s) \/ Cache(s)
          \/ InstallVault(s) \/ AdoptVault(s) \/ InstallConsul(s) \/ AdoptConsul(s)
          \/ EndRun(s) \/ Crash(s) \/ GiveScoped(s) \/ Purge(s)
    \/ Rewire

Spec == Init /\ [][Next]_vars

=============================================================================
