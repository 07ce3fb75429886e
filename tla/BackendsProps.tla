----------------------------- MODULE BackendsProps ----------------------------
(***************************************************************************)
(* What runs may rely on about the backends they have found.               *)
(***************************************************************************)
EXTENDS Backends

\* A Vault client that a run gets can talk to the Vault that was found: the
\* connection of the client accepts what the probe accepted, whether the Vault
\* was there at the start or was installed by the run, and what answers is Vault.
Usable ==
    [][\A s \in Stack :
          /\ run'[s] # None /\ run'[s].vault # None
          /\ run[s] = None \/ run[s].vault # run'[s].vault
          => VaultOk(net', run'[s].vault.addr, run'[s].vault.verify)]_vars

\* A stack that got a token for Consul, from wherever, has that token in every
\* later run that finds Consul: without the variable, after the sibling that
\* had it is purged, with another environment, without a Vault, and after runs
\* that died (tokens.py:113-116).
StaysAuthenticated ==
    [][\A s \in Stack :
          /\ at[s] \in {"tokens", "cache"} /\ at'[s] = "run" /\ had[s] # None
          => run'[s].consul.token = had[s]]_vars

=============================================================================
