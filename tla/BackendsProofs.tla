---------------------------- MODULE BackendsProofs -----------------------------
(***************************************************************************)
(* Proofs about discovery and tokens, for any network, environments and     *)
(* stacks, and any number of runs, changes and faults.                     *)
(***************************************************************************)
EXTENDS BackendsProps, WellFoundedInduction, TLAPS

\* A run has the clients that its place asks for.
Running ==
    \A s \in Stack :
        /\ at[s] # "off" => run[s] # None
        /\ at[s] \in {"tokens", "cache"} => run[s].consul # None

\* The token a stack last got is in its file; one that is about to be written
\* is the first.
Held ==
    \A s \in Stack :
        /\ had[s] # None => files[s].consul = had[s]
        /\ at[s] = "cache" => had[s] = None

IInv == TypeOK /\ Running /\ Held

\* A step from which a run has a Vault client that can be used.
GetsUsable ==
    \A s \in Stack :
        /\ run'[s] # None /\ run'[s].vault # None
        /\ run[s] = None \/ run[s].vault # run'[s].vault
        => VaultOk(net', run'[s].vault.addr, run'[s].vault.verify)

-----------------------------------------------------------------------------
(* The first of a sequence *)

LEMMA Pairs == ASSUME NEW i \in Nat, NEW j \in Nat, i < j PROVE <<i, j>> \in OpToRel(<, Nat)
  BY DEF OpToRel

LEMMA MinIsLeast ==
    ASSUME NEW S \in SUBSET Nat, S # {}
    PROVE  Min(S) \in S /\ \A i \in S : Min(S) <= i
<1>1. PICK m \in S : \A i \in S : ~ (<<i, m>> \in OpToRel(<, Nat))
  BY NatLessThanWellFounded, WFMin
<1>2. ASSUME NEW i \in S
      PROVE  m <= i
  <2>1. SUFFICES ASSUME i < m
                 PROVE  FALSE
    OBVIOUS
  <2>2. <<i, m>> \in OpToRel(<, Nat)
    BY <2>1, Pairs
  <2> QED BY <2>2, <1>1
<1> QED BY <1>2 DEF Min

LEMMA FirstIsGood ==
    ASSUME NEW T, NEW seq \in Seq(T), NEW good \in SUBSET DOMAIN seq
    PROVE  /\ good = {} => First(seq, good) = None
           /\ good # {} => \E i \in good : First(seq, good) = seq[i] /\ seq[i] \in T
<1>1. good \subseteq Nat
  OBVIOUS
<1> QED BY <1>1, MinIsLeast DEF First

LEMMA FirstTokenType ==
    ASSUME NEW tokens \in Seq(TokenFile)
    PROVE  FirstOf(tokens) \in TokenFile
  BY FirstIsGood DEF FirstOf, TokenFile

LEMMA FirstOfTwo ==
    ASSUME NEW a \in TokenFile, NEW b \in TokenFile
    PROVE  FirstOf(<<a, b>>) = IF a # None THEN a ELSE b
<1> DEFINE good == {i \in DOMAIN <<a, b>> : <<a, b>>[i] # None}
<1>1. good = {i \in {1, 2} : <<a, b>>[i] # None}
  OBVIOUS
<1>2. good \subseteq Nat
  BY <1>1
<1>3. CASE a # None
  <2>1. 1 \in good
    BY <1>1, <1>3
  <2>2. Min(good) = 1
    BY <2>1, <1>1, <1>2, MinIsLeast
  <2> QED BY <2>1, <2>2, <1>3 DEF FirstOf, First
<1>4. CASE a = None /\ b # None
  <2>1. good = {2}
    BY <1>1, <1>4
  <2>2. Min(good) = 2
    BY <2>1, MinIsLeast
  <2> QED BY <2>1, <2>2, <1>4 DEF FirstOf, First
<1>5. CASE a = None /\ b = None
  <2>1. good = {}
    BY <1>1, <1>5
  <2> QED BY <2>1, <1>5 DEF FirstOf, First
<1> QED BY <1>3, <1>4, <1>5
LEMMA FirstOfMore ==
    ASSUME NEW a \in TokenFile, NEW b \in TokenFile, NEW c \in TokenFile, NEW d \in TokenFile
    PROVE  FirstOf(<<a, b, c>>) \in TokenFile /\ FirstOf(<<a, b, c, d>>) \in TokenFile
<1>1. <<a, b, c>> \in Seq(TokenFile) /\ <<a, b, c, d>> \in Seq(TokenFile)
  OBVIOUS
<1> QED BY <1>1, FirstTokenType

-----------------------------------------------------------------------------
(* Types *)

LEMMA ProbedVaultIsUrl ==
    ASSUME NEW n \in Nets, NEW env \in Envs, NEW host \in Host, NEW policy \in Policy
    PROVE  LET url == ProbeVault(n, env, host, policy)
           IN  url = None \/ (url \in Url /\ VaultOk(n, url, policy))
<1> DEFINE doors(h) == VaultDoors(env, h)
           own == If(env.vaultAddr # None, <<Normalize(env.vaultAddr)>>)
           named == If(n.resolves[host], doors(host))
           urls == own \o named \o doors("loopback")
           good == {i \in DOMAIN urls : VaultOk(n, urls[i], policy)}
<1>1. ASSUME NEW h \in Host
      PROVE  doors(h) \in Seq(Url)
  <2>1. << <<h, "native">> >> \in Seq(Url) /\ << <<h, "proxy">> >> \in Seq(Url)
        /\ << <<h, "plain">> >> \in Seq(Url) /\ <<>> \in Seq(Url)
    BY DEF Url
  <2> QED BY <2>1 DEF VaultDoors, If
<1>2. own \in Seq(Url)
  BY BackendsAssumption DEF If, Normalize, Url
<1>3. named \in Seq(Url) /\ doors("loopback") \in Seq(Url)
  <2>1. "loopback" \in Host /\ <<>> \in Seq(Url)
    BY DEF Host
  <2> QED BY <2>1, <1>1 DEF If
<1>4. urls \in Seq(Url)
  <2> HIDE DEF own, named, doors
  <2> QED BY <1>2, <1>3
<1>5. ProbeVault(n, env, host, policy) = First(urls, good)
  BY DEF ProbeVault
<1> HIDE DEF urls
<1>6. good = {} \/ \E i \in good : First(urls, good) = urls[i] /\ urls[i] \in Url
  BY <1>4, FirstIsGood
<1> QED BY <1>4, <1>5, <1>6, FirstIsGood

LEMMA ProbedConsulIsUrl ==
    ASSUME NEW n \in Nets, NEW env \in Envs, NEW host \in Host
    PROVE  ProbeConsul(n, env, host) \in Url \cup {None}
<1> DEFINE own == If(env.consulAddr # None, <<Normalize(env.consulAddr)>>)
           named == If(n.resolves[host], << <<host, "plain">>, <<host, "proxy">> >>)
           urls == own \o named \o << <<"loopback", "plain">> >>
           good == {i \in DOMAIN urls : ConsulOk(n, urls[i])}
<1>1. own \in Seq(Url)
  BY BackendsAssumption DEF If, Normalize, Url
<1>2. named \in Seq(Url)
  <2>1. << <<host, "plain">>, <<host, "proxy">> >> \in Seq(Url) /\ <<>> \in Seq(Url)
    BY DEF Url
  <2> QED BY <2>1 DEF If
<1>3. << <<"loopback", "plain">> >> \in Seq(Url)
  BY DEF Url, Host
<1>4. urls \in Seq(Url)
  <2> HIDE DEF own, named
  <2> QED BY <1>1, <1>2, <1>3
<1>5. ProbeConsul(n, env, host) = First(urls, good)
  BY DEF ProbeConsul
<1> HIDE DEF urls
<1> QED BY <1>4, <1>5, FirstIsGood

LEMMA SiblingsToken ==
    ASSUME TypeOK, NEW s \in Stack, NEW kind \in {"vault", "consul"}
    PROVE  OfSiblings(s, kind) \in TokenFile
<1> DEFINE found == [i \in DOMAIN StackOrder |-> files[StackOrder[i]][kind]]
           good == {i \in DOMAIN found : StackOrder[i] # s /\ found[i] # None}
<1>1. found \in Seq(TokenFile)
  <2>1. StackOrder \in Seq(Stack)
    BY BackendsAssumption
  <2>2. \A r \in Stack : files[r][kind] \in TokenFile
    BY DEF TypeOK
  <2> QED BY <2>1, <2>2
<1>2. OfSiblings(s, kind) = First(found, good)
  BY DEF OfSiblings
<1> HIDE DEF found
<1> QED BY <1>1, <1>2, FirstIsGood DEF TokenFile

LEMMA VaultToken ==
    ASSUME TypeOK, NEW s \in Stack, NEW env \in Envs
    PROVE  ResolveVaultToken(s, env) \in TokenFile
<1>1. files[s].vault \in TokenFile /\ scoped[s] \in TokenFile
  BY DEF TypeOK
<1>2. env.vaultToken \in TokenFile /\ OfSiblings(s, "vault") \in TokenFile
  BY SiblingsToken, BackendsAssumption
<1> QED BY <1>1, <1>2, FirstOfMore DEF ResolveVaultToken

LEMMA SharedToken ==
    ASSUME TypeOK, NEW r, r.env \in Envs
    PROVE  FromVault(r) \in TokenFile
<1>1. \A client : Shared(client) \in TokenFile
  BY DEF Shared, TypeOK, TokenFile
<1>2. None \in TokenFile
  BY DEF TokenFile
<1> QED BY <1>1, <1>2, FirstOfTwo DEF FromVault

LEMMA ConsulToken ==
    ASSUME TypeOK, NEW s \in Stack, run[s] # None
    PROVE  FirstOf(<<run[s].env.consulToken, OfSiblings(s, "consul"), FromVault(run[s])>>)
               \in TokenFile
<1>1. run[s].env \in Envs
  BY DEF TypeOK, Run
<1>2. run[s].env.consulToken \in TokenFile
  BY <1>1, BackendsAssumption
<1>3. OfSiblings(s, "consul") \in TokenFile /\ FromVault(run[s]) \in TokenFile
  BY <1>1, SiblingsToken, SharedToken
<1> QED BY <1>2, <1>3, FirstOfMore

LEMMA InitInv == Init => IInv
  BY BackendsAssumption DEF Init, IInv, TypeOK, Running, Held, TokenFile

LEMMA FindBackendsInv ==
    ASSUME IInv, NEW s \in Stack, FindBackends(s)
    PROVE  IInv' /\ GetsUsable
<1> USE DEF IInv
<1> DEFINE Consuls(env) == ProbeConsul(net, env, "named")
           Vaults(env) == ProbeVault(net, env, "named", env.policy)
           Started(env) ==
               [env |-> env,
                consul |-> IF Consuls(env) = None THEN None
                           ELSE [addr |-> Consuls(env), token |-> None],
                vault |-> IF Vaults(env) = None THEN None
                          ELSE [addr |-> Vaults(env), token |-> ResolveVaultToken(s, env),
                                verify |-> env.policy]]
<1>1. PICK env \in Envs :
        /\ run' = [run EXCEPT ![s] = Started(env)]
        /\ at' = [at EXCEPT ![s] = IF Consuls(env) = None THEN "run" ELSE "tokens"]
  BY DEF FindBackends, Goto
<1>2. env.policy \in Policy /\ "named" \in Host /\ net \in Nets
  BY BackendsAssumption DEF Host, TypeOK
<1>3. Vaults(env) = None \/ (Vaults(env) \in Url /\ VaultOk(net, Vaults(env), env.policy))
  BY <1>2, ProbedVaultIsUrl
<1>4. Consuls(env) \in Url \cup {None}
  BY <1>2, ProbedConsulIsUrl
<1>5. ResolveVaultToken(s, env) \in TokenFile /\ None \in TokenFile
  BY VaultToken DEF TokenFile
<1> HIDE DEF Consuls, Vaults
<1>6. /\ Started(env) \in Run
      /\ Consuls(env) # None => Started(env).consul # None
      /\ Started(env).vault # None =>
             VaultOk(net, Started(env).vault.addr, Started(env).vault.verify)
  <2>1. Consuls(env) # None =>
            [addr |-> Consuls(env), token |-> None] \in ConsulClient
    BY <1>4, <1>5 DEF ConsulClient
  <2>2. Vaults(env) # None =>
            [addr |-> Vaults(env), token |-> ResolveVaultToken(s, env), verify |-> env.policy]
                \in Client
    BY <1>2, <1>3, <1>5 DEF Client
  <2>3. Started(env) \in Run
    BY <2>1, <2>2 DEF Run
  <2>4. Started(env).vault # None =>
            VaultOk(net, Started(env).vault.addr, Started(env).vault.verify)
    BY <1>3
  <2> QED BY <2>1, <2>3, <2>4, BackendsAssumption
<1>7. Started(env) # None
  BY <1>6, BackendsAssumption
<1> HIDE DEF Started
<1>8. TypeOK'
  <2>1. runs' \in 0 .. MaxRuns
    <3>1. runs \in 0 .. MaxRuns /\ runs < MaxRuns /\ runs' = runs + 1 /\ MaxRuns \in Nat
      BY BackendsAssumption DEF TypeOK, FindBackends
    <3> QED BY <3>1
  <2>2. run' \in [Stack -> Run \cup {None}]
    BY <1>1, <1>6 DEF TypeOK
  <2>3. at' \in [Stack -> {"off", "tokens", "cache", "run", "consul up", "vault up"}]
    BY <1>1 DEF TypeOK
  <2> QED BY <2>1, <2>2, <2>3 DEF TypeOK, FindBackends, disk
<1>9. Running'
  BY <1>1, <1>6, <1>7 DEF Running, TypeOK
<1>10. Held'
  BY <1>1 DEF Held, TypeOK, FindBackends, disk
<1>11. GetsUsable
  BY <1>1, <1>6 DEF GetsUsable, TypeOK, FindBackends
<1> QED BY <1>8, <1>9, <1>10, <1>11

LEMMA FaultCounts ==
    ASSUME TypeOK, faults < MaxFaults, faults' = faults + 1
    PROVE  faults' \in 0 .. MaxFaults
<1>1. faults \in 0 .. MaxFaults /\ MaxFaults \in Nat
  BY BackendsAssumption DEF TypeOK
<1> QED BY <1>1

LEMMA ChangeCounts ==
    ASSUME TypeOK, Change
    PROVE  changes' \in 0 .. MaxChanges
<1>1. changes \in 0 .. MaxChanges /\ MaxChanges \in Nat
  BY BackendsAssumption DEF TypeOK
<1> QED BY <1>1 DEF Change

LEMMA ClientIsKept ==
    ASSUME TypeOK, NEW s \in Stack, run[s] # None, NEW c,
           \/ c \in ConsulClient /\ run' = [run EXCEPT ![s].consul = c]
           \/ c \in Client /\ run' = [run EXCEPT ![s].vault = c]
    PROVE  /\ run' \in [Stack -> Run \cup {None}]
           /\ run'[s] # None
           /\ run[s].consul # None => run'[s].consul # None
           /\ run' = [run EXCEPT ![s].consul = c] => run'[s].vault = run[s].vault
           /\ \A r \in Stack \ {s} : run'[r] = run[r]
<1>1. run[s] \in Run
  BY DEF TypeOK
<1>2. CASE c \in ConsulClient /\ run' = [run EXCEPT ![s].consul = c]
  <2>1. run'[s] = [run[s] EXCEPT !.consul = c]
    BY <1>2 DEF TypeOK
  <2>2. run'[s] \in Run /\ run'[s].consul = c
    BY <1>1, <1>2, <2>1 DEF Run
  <2>3. run' \in [Stack -> Run \cup {None}] /\ \A r \in Stack \ {s} : run'[r] = run[r]
    BY <1>2, <2>2 DEF TypeOK
  <2>4. run'[s].vault = run[s].vault
    BY <1>1, <2>1 DEF Run
  <2> QED BY <1>2, <2>2, <2>3, <2>4, BackendsAssumption
<1>3. CASE c \in Client /\ run' = [run EXCEPT ![s].vault = c]
  <2>1. run'[s] = [run[s] EXCEPT !.vault = c]
    BY <1>3 DEF TypeOK
  <2>2. run'[s] \in Run /\ run'[s].consul = run[s].consul
    BY <1>1, <1>3, <2>1 DEF Run
  <2>3. run' \in [Stack -> Run \cup {None}] /\ \A r \in Stack \ {s} : run'[r] = run[r]
    BY <1>3, <2>2 DEF TypeOK
  <2>4. ASSUME run' = [run EXCEPT ![s].consul = c]
        PROVE  run'[s].vault = run[s].vault
    <3>1. run'[s] = [run[s] EXCEPT !.consul = c]
      BY <2>4 DEF TypeOK
    <3> QED BY <1>1, <3>1 DEF Run
  <2> QED BY <2>2, <2>3, <2>4, BackendsAssumption
<1> QED BY <1>2, <1>3

LEMMA ResolveInv ==
    ASSUME IInv, NEW s \in Stack, ResolveConsulToken(s)
    PROVE  IInv' /\ GetsUsable
<1> USE DEF IInv
<1> DEFINE found == FirstOf(<<run[s].env.consulToken, OfSiblings(s, "consul"),
                              FromVault(run[s])>>)
           token == FirstOf(<<files[s].consul, found>>)
           client == [run[s].consul EXCEPT !.token = token]
<1>1. /\ run' = [run EXCEPT ![s].consul = client] /\ at[s] = "tokens"
      /\ \/ /\ token = None \/ files[s].consul # None
            /\ at' = [at EXCEPT ![s] = "run"] /\ had' = [had EXCEPT ![s] = token]
            /\ UNCHANGED faults
         \/ /\ token # None /\ files[s].consul = None /\ UNCHANGED had
            /\ \/ at' = [at EXCEPT ![s] = "cache"] /\ UNCHANGED faults
               \/ /\ at' = [at EXCEPT ![s] = "run"]
                  /\ faults < MaxFaults /\ faults' = faults + 1
  BY DEF ResolveConsulToken, Goto, Keep, Consul
<1>2. UNCHANGED <<net, kv, files, scoped, runs, changes>>
  BY DEF ResolveConsulToken, disk
<1>3. run[s] # None /\ run[s].consul # None
  BY <1>1 DEF Running
<1>4. found \in TokenFile /\ files[s].consul \in TokenFile
  BY <1>3, ConsulToken DEF TypeOK
<1> HIDE DEF found
<1>5. token = IF files[s].consul # None THEN files[s].consul ELSE found
  BY <1>4, FirstOfTwo
<1> HIDE DEF token
<1>6. client \in ConsulClient
  <2>1. run[s].consul \in ConsulClient
    BY <1>3 DEF TypeOK, Run
  <2> QED BY <2>1, <1>4, <1>5 DEF ConsulClient
<1> HIDE DEF client
<1>7. /\ run' \in [Stack -> Run \cup {None}] /\ run'[s] # None
      /\ run'[s].consul # None /\ run'[s].vault = run[s].vault
      /\ \A r \in Stack \ {s} : run'[r] = run[r]
  BY <1>1, <1>3, <1>6, ClientIsKept
<1>8. TypeOK'
  <2>1. faults' \in 0 .. MaxFaults
    BY <1>1, FaultCounts DEF TypeOK
  <2>2. had' \in [Stack -> TokenFile]
        /\ at' \in [Stack -> {"off", "tokens", "cache", "run", "consul up", "vault up"}]
    BY <1>1, <1>4, <1>5 DEF TypeOK
  <2> QED BY <2>1, <2>2, <1>2, <1>7 DEF TypeOK
<1>9. Running'
  BY <1>1, <1>7 DEF Running, TypeOK
<1>10. Held'
  BY <1>1, <1>2, <1>5 DEF Held, TypeOK
<1>11. GetsUsable
  BY <1>3, <1>7 DEF GetsUsable
<1> QED BY <1>8, <1>9, <1>10, <1>11

LEMMA AdoptVaultInv ==
    ASSUME IInv, NEW s \in Stack, AdoptVault(s)
    PROVE  IInv' /\ GetsUsable
<1> USE DEF IInv
<1> DEFINE env == run[s].env
           own == files[s].vault # None
           strict == ProbeVault(net, env, "named", env.policy)
           lenient == ProbeVault(net, env, "named", "off")
           addr == IF strict = None /\ own THEN lenient ELSE strict
           token == FirstOf(<<files[s].vault, env.vaultToken>>)
           client == [addr |-> addr, verify |-> IF own THEN "off" ELSE env.policy,
                      token |-> token]
<1>1. /\ at[s] = "vault up" /\ at' = [at EXCEPT ![s] = "run"]
      /\ IF addr = None THEN UNCHANGED run ELSE run' = [run EXCEPT ![s].vault = client]
  BY DEF AdoptVault, Goto, Vault
<1>2. UNCHANGED <<net, kv, files, scoped, had, runs, changes, faults>>
  BY DEF AdoptVault, disk, bounds
<1>3. run[s] \in Run /\ run[s] # None
  BY <1>1 DEF Running, TypeOK
<1>4. env \in Envs /\ net \in Nets /\ "named" \in Host /\ "off" \in Policy
  BY <1>3 DEF Run, TypeOK, Host, Policy
<1>5. env.policy \in Policy /\ env.vaultToken \in TokenFile /\ files[s].vault \in TokenFile
  BY <1>4, BackendsAssumption DEF TypeOK
<1>6. strict = None \/ (strict \in Url /\ VaultOk(net, strict, env.policy))
  BY <1>4, <1>5, ProbedVaultIsUrl
<1>7. lenient = None \/ (lenient \in Url /\ VaultOk(net, lenient, "off"))
  BY <1>4, ProbedVaultIsUrl
<1>8. token \in TokenFile
  BY <1>5, FirstOfTwo
<1> HIDE DEF env, strict, lenient, token
<1>9. CASE addr = None
  <2>1. run' = run
    BY <1>1, <1>9
  <2>2. TypeOK'
    BY <1>1, <1>2, <2>1 DEF TypeOK
  <2>3. Running' /\ Held'
    BY <1>1, <1>2, <2>1 DEF Running, Held, TypeOK
  <2>4. GetsUsable
    BY <2>1 DEF GetsUsable
  <2> QED BY <2>2, <2>3, <2>4
<1>10. CASE addr # None
  <2>1. client \in Client
    BY <1>4, <1>5, <1>6, <1>7, <1>8, <1>10 DEF Client
  <2>2. VaultOk(net, client.addr, client.verify)
    BY <1>6, <1>7, <1>10 DEF VaultOk, Accepts
  <2>3. run' = [run EXCEPT ![s].vault = client]
    BY <1>1, <1>10
  <2> HIDE DEF client, addr
  <2>4. run'[s].vault = client
    BY <1>3, <2>3 DEF TypeOK, Run
  <2>5. /\ run' \in [Stack -> Run \cup {None}] /\ run'[s] # None
        /\ \A r \in Stack \ {s} : run'[r] = run[r]
    BY <1>3, <2>1, <2>3, ClientIsKept
  <2>6. TypeOK'
    BY <1>1, <1>2, <2>5 DEF TypeOK
  <2>7. Running' /\ Held'
    BY <1>1, <1>2, <2>5 DEF Running, Held, TypeOK
  <2>8. GetsUsable
    BY <1>2, <2>2, <2>4, <2>5 DEF GetsUsable
  <2> QED BY <2>6, <2>7, <2>8
<1> QED BY <1>9, <1>10

LEMMA AdoptConsulInv ==
    ASSUME IInv, NEW s \in Stack, AdoptConsul(s)
    PROVE  IInv' /\ GetsUsable
<1> USE DEF IInv
<1> DEFINE addr == ProbeConsul(net, run[s].env, "default")
           client == [addr |-> addr, token |-> files[s].consul]
<1>1. /\ at[s] = "consul up" /\ at' = [at EXCEPT ![s] = "run"]
      /\ IF addr = None THEN UNCHANGED run ELSE run' = [run EXCEPT ![s].consul = client]
  BY DEF AdoptConsul, Goto, Consul
<1>2. UNCHANGED <<net, kv, files, scoped, had, runs, changes, faults>>
  BY DEF AdoptConsul, disk, bounds
<1>3. run[s] \in Run /\ run[s] # None
  BY <1>1 DEF Running, TypeOK
<1>4. run[s].env \in Envs /\ net \in Nets /\ "default" \in Host
  BY <1>3 DEF Run, TypeOK, Host
<1>5. addr \in Url \cup {None}
  BY <1>4, ProbedConsulIsUrl
<1> HIDE DEF addr
<1>6. /\ run' \in [Stack -> Run \cup {None}] /\ run'[s] # None
      /\ run'[s].vault = run[s].vault /\ \A r \in Stack \ {s} : run'[r] = run[r]
  <2>1. CASE addr = None
    BY <1>1, <1>3, <2>1 DEF TypeOK
  <2>2. CASE addr # None
    <3>1. client \in ConsulClient
      BY <1>5, <2>2 DEF ConsulClient, TypeOK
    <3>2. run' = [run EXCEPT ![s].consul = client]
      BY <1>1, <2>2
    <3> HIDE DEF client
    <3> QED BY <1>3, <3>1, <3>2, ClientIsKept
  <2> QED BY <2>1, <2>2
<1>7. TypeOK'
  BY <1>1, <1>2, <1>6 DEF TypeOK
<1>8. Running' /\ Held'
  BY <1>1, <1>2, <1>6 DEF Running, Held, TypeOK
<1>9. GetsUsable
  BY <1>3, <1>6 DEF GetsUsable
<1> QED BY <1>7, <1>8, <1>9

LEMMA CacheInv ==
    ASSUME IInv, NEW s \in Stack, Cache(s)
    PROVE  IInv' /\ GetsUsable
<1> USE DEF IInv
<1>1. /\ at[s] = "cache" /\ at' = [at EXCEPT ![s] = "run"]
      /\ had' = [had EXCEPT ![s] = run[s].consul.token]
      /\ files' = [files EXCEPT ![s].consul = run[s].consul.token]
      /\ UNCHANGED <<net, kv, scoped, run, runs, changes, faults>>
  BY DEF Cache, Goto, Keep, bounds
<1>2. run[s].consul.token \in TokenFile
  BY <1>1 DEF TypeOK, Running, Run, ConsulClient
<1>3. TypeOK'
  BY <1>1, <1>2 DEF TypeOK
<1>4. Running' /\ Held'
  BY <1>1, <1>2 DEF Running, Held, TypeOK
<1>5. GetsUsable
  BY <1>1 DEF GetsUsable
<1> QED BY <1>3, <1>4, <1>5

LEMMA InstallInv ==
    ASSUME IInv, NEW s \in Stack, InstallVault(s) \/ InstallConsul(s)
    PROVE  IInv' /\ GetsUsable
<1> USE DEF IInv
<1>1. Readers \subseteq TokenFile /\ Token \subseteq TokenFile
  BY BackendsAssumption DEF TokenFile
<1>2. changes' \in 0 .. MaxChanges
  BY ChangeCounts DEF InstallVault, InstallConsul
<1>3. GetsUsable
  BY DEF GetsUsable, InstallVault, InstallConsul
<1>4. CASE InstallVault(s)
  <2>1. TypeOK'
    BY <1>1, <1>2, <1>4 DEF TypeOK, InstallVault, Goto
  <2>2. Running' /\ Held'
    BY <1>4 DEF Running, Held, TypeOK, InstallVault, Goto
  <2> QED BY <1>3, <2>1, <2>2
<1>5. CASE InstallConsul(s)
  <2>1. TypeOK'
    <3>1. PICK t \in Token : /\ files' = [files EXCEPT ![s].consul = t]
                             /\ had' = [had EXCEPT ![s] = t] /\ kv' \in {kv, t}
      BY <1>5 DEF InstallConsul, Keep
    <3>2. t \in TokenFile /\ kv \in TokenFile
      BY <1>1 DEF TypeOK
    <3>3. /\ files' \in [Stack -> [vault : TokenFile, consul : TokenFile]]
          /\ had' \in [Stack -> TokenFile] /\ kv' \in TokenFile
      BY <3>1, <3>2 DEF TypeOK
    <3> QED BY <1>2, <1>5, <3>3 DEF TypeOK, InstallConsul, Goto
  <2>2. Running' /\ Held'
    BY <1>5 DEF Running, Held, TypeOK, InstallConsul, Goto, Keep
  <2> QED BY <1>3, <2>1, <2>2
<1> QED BY <1>4, <1>5

LEMMA StopInv ==
    ASSUME IInv, NEW s \in Stack, EndRun(s) \/ Crash(s)
    PROVE  IInv' /\ GetsUsable
<1> USE DEF IInv
<1>1. /\ at' = [at EXCEPT ![s] = "off"] /\ run' = [run EXCEPT ![s] = None]
      /\ UNCHANGED <<net, kv, files, scoped, had, runs, changes>>
      /\ faults' \in 0 .. MaxFaults
  BY FaultCounts DEF EndRun, Crash, Goto, disk, bounds, TypeOK
<1>2. TypeOK'
  BY <1>1 DEF TypeOK
<1>3. Running' /\ Held'
  BY <1>1 DEF Running, Held, TypeOK
<1>4. GetsUsable
  BY <1>1 DEF GetsUsable, TypeOK
<1> QED BY <1>2, <1>3, <1>4

LEMMA OutsideInv ==
    ASSUME IInv, Rewire \/ \E s \in Stack : GiveScoped(s) \/ Purge(s)
    PROVE  IInv' /\ GetsUsable
<1> USE DEF IInv
<1>1. Token \subseteq TokenFile /\ None \in TokenFile
  BY DEF TokenFile
<1>2. changes' \in 0 .. MaxChanges
  BY ChangeCounts DEF Rewire, GiveScoped, Purge
<1>3. GetsUsable
  BY DEF GetsUsable, Rewire, GiveScoped, Purge
<1>4. CASE Rewire
  BY <1>2, <1>3, <1>4 DEF TypeOK, Running, Held, Rewire, disk
<1>5. ASSUME NEW s \in Stack, GiveScoped(s)
      PROVE  IInv'
  BY <1>1, <1>2, <1>5 DEF TypeOK, Running, Held, GiveScoped
<1>6. ASSUME NEW s \in Stack, Purge(s)
      PROVE  IInv'
  <2>1. TypeOK'
    BY <1>1, <1>2, <1>6 DEF TypeOK, Purge, Keep
  <2>2. Running' /\ Held'
    BY <1>6 DEF Running, Held, TypeOK, Purge, Keep
  <2> QED BY <2>1, <2>2
<1> QED BY <1>3, <1>4, <1>5, <1>6

LEMMA StepInv == IInv /\ [Next]_vars => IInv' /\ [GetsUsable]_vars
<1> SUFFICES ASSUME IInv, [Next]_vars
             PROVE  IInv' /\ [GetsUsable]_vars
  OBVIOUS
<1>1. CASE UNCHANGED vars
  BY <1>1 DEF IInv, TypeOK, Running, Held, vars, disk, bounds
<1>2. CASE Rewire
  BY <1>2, OutsideInv
<1>3. ASSUME NEW s \in Stack,
             \/ FindBackends(s) \/ ResolveConsulToken(s) \/ Cache(s)
             \/ InstallVault(s) \/ AdoptVault(s) \/ InstallConsul(s) \/ AdoptConsul(s)
             \/ EndRun(s) \/ Crash(s) \/ GiveScoped(s) \/ Purge(s)
      PROVE  IInv' /\ GetsUsable
  <2>1. CASE FindBackends(s)
    BY <2>1, FindBackendsInv
  <2>2. CASE ResolveConsulToken(s)
    BY <2>2, ResolveInv
  <2>3. CASE Cache(s)
    BY <2>3, CacheInv
  <2>4. CASE InstallVault(s) \/ InstallConsul(s)
    BY <2>4, InstallInv
  <2>5. CASE AdoptVault(s)
    BY <2>5, AdoptVaultInv
  <2>6. CASE AdoptConsul(s)
    BY <2>6, AdoptConsulInv
  <2>7. CASE EndRun(s) \/ Crash(s)
    BY <2>7, StopInv
  <2>8. CASE GiveScoped(s) \/ Purge(s)
    BY <2>8, OutsideInv
  <2> QED BY <1>3, <2>1, <2>2, <2>3, <2>4, <2>5, <2>6, <2>7, <2>8
<1> QED BY <1>1, <1>2, <1>3 DEF Next

-----------------------------------------------------------------------------
(* Theorems *)

\* Types of every reachable state, for any network and stacks.
THEOREM BackendsTypeCorrect == Spec => []TypeOK
<1>1. IInv => TypeOK
  BY DEF IInv
<1> QED BY <1>1, InitInv, StepInv, PTL DEF Spec

\* The Vault clients that runs get can talk to what was found.
THEOREM VaultsAreUsable == Spec => Usable
<1>1. GetsUsable =>
        \A s \in Stack :
          /\ run'[s] # None /\ run'[s].vault # None
          /\ run[s] = None \/ run[s].vault # run'[s].vault
          => VaultOk(net', run'[s].vault.addr, run'[s].vault.verify)
  BY DEF GetsUsable
<1> QED BY <1>1, InitInv, StepInv, PTL DEF Spec, Usable

LEMMA GoesOn ==
    IInv /\ [Next]_vars =>
        [\A s \in Stack :
            /\ at[s] \in {"tokens", "cache"} /\ at'[s] = "run" /\ had[s] # None
            => run'[s].consul.token = had[s]]_vars
<1> SUFFICES ASSUME IInv, Next, NEW s \in Stack,
                    at[s] \in {"tokens", "cache"}, at'[s] = "run", had[s] # None
             PROVE  run'[s].consul.token = had[s]
  OBVIOUS
<1>1. at[s] = "tokens" /\ files[s].consul = had[s] /\ run[s] \in Run /\ run[s].consul # None
  BY DEF IInv, Held, Running, TypeOK
<1>2. ResolveConsulToken(s)
  <2>1. at'[s] # at[s]
    BY <1>1
  <2>2. \A r \in Stack \ {s} : \A place : at' # [at EXCEPT ![r] = place]
    BY <2>1 DEF IInv, TypeOK
  <2>3. PICK r \in Stack :
          \/ FindBackends(r) \/ ResolveConsulToken(r) \/ Cache(r)
          \/ InstallVault(r) \/ AdoptVault(r) \/ InstallConsul(r) \/ AdoptConsul(r)
          \/ EndRun(r) \/ Crash(r)
    BY <2>1 DEF Next, GiveScoped, Purge, Rewire
  <2>4. \E place : at' = [at EXCEPT ![r] = place]
    BY <2>3 DEF FindBackends, ResolveConsulToken, Cache, InstallVault, AdoptVault,
           InstallConsul, AdoptConsul, EndRun, Crash, Goto
  <2>5. r = s
    BY <2>2, <2>4
  <2>6. ~ Crash(s)
    BY DEF Crash, Goto, IInv, TypeOK
  <2> QED BY <1>1, <2>3, <2>5, <2>6 DEF FindBackends, Cache, InstallVault, AdoptVault,
             InstallConsul, AdoptConsul, EndRun
<1> DEFINE found == FirstOf(<<run[s].env.consulToken, OfSiblings(s, "consul"),
                              FromVault(run[s])>>)
           token == FirstOf(<<files[s].consul, found>>)
<1>3. found \in TokenFile /\ files[s].consul \in TokenFile
  BY <1>1, ConsulToken, BackendsAssumption DEF IInv, TypeOK
<1>4. token = had[s]
  <2> HIDE DEF found
  <2> QED BY <1>1, <1>3, FirstOfTwo
<1>5. run' = [run EXCEPT ![s].consul = [run[s].consul EXCEPT !.token = token]]
  BY <1>2 DEF ResolveConsulToken, Consul
<1> HIDE DEF token
<1>6. run[s].consul \in ConsulClient
  BY <1>1 DEF Run
<1> QED BY <1>1, <1>4, <1>5, <1>6 DEF IInv, TypeOK, Run, ConsulClient

\* A stack goes on with the token it last got.
THEOREM StacksStayAuthenticated == Spec => StaysAuthenticated
  BY InitInv, StepInv, GoesOn, PTL DEF Spec, StaysAuthenticated

=============================================================================
