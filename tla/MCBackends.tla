------------------------------ MODULE MCBackends ------------------------------
(* Small instances of Backends: a host with nothing, with its own Vault and  *)
(* Consul behind self-signed certificates, with those of a central host      *)
(* behind a proxy, with a Vault in the clear.                                *)
EXTENDS BackendsProps, TLC

CONSTANTS root, acl

MCStackOrder == <<"kb", "mail">>

Silent == [cert |-> "none", says |-> "nothing"]
Nowhere == [u \in Url |-> Silent]
Clear(says) == [cert |-> "none", says |-> says]
Tls(cert, says) == [cert |-> cert, says |-> says]
Named == [h \in Host |-> h # "default"]

Bare == [resolves |-> [h \in Host |-> h = "loopback"], vault |-> Nowhere, consul |-> Nowhere]

\* Vault's TLS port answers a request in the clear, but not as Vault.
Here ==
    [resolves |-> Named,
     vault |-> [u \in Url |-> CASE u[1] = "default" -> Silent
                               [] u[2] = "native" -> Tls("own", "json")
                               [] u[2] = "plain" -> Clear("other")
                               [] OTHER -> Silent],
     consul |-> [u \in Url |-> IF u = <<"loopback", "plain">> THEN Clear("json") ELSE Silent]]

Central ==
    [resolves |-> Named,
     vault |-> [u \in Url |-> IF u = <<"named", "proxy">> THEN Tls("public", "json") ELSE Silent],
     consul |-> [u \in Url |-> IF u = <<"named", "proxy">> THEN Tls("public", "json") ELSE Silent]]

\* The proxy answers for a Vault that is down; another serves the host in the clear.
InTheClear ==
    [resolves |-> Named,
     vault |-> [u \in Url |-> CASE u = <<"named", "proxy">> -> Tls("public", "other")
                               [] u = <<"loopback", "plain">> -> Clear("json")
                               [] OTHER -> Silent],
     consul |-> [u \in Url |-> IF u[1] # "default" /\ u[2] = "plain"
                               THEN Clear("json") ELSE Silent]]

MCNets == {Bare, Here, Central, InTheClear}

NoEnv == [vaultToken |-> None, consulToken |-> None, vaultAddr |-> None,
          consulAddr |-> None, policy |-> "system"]
MCEnvs ==
    {NoEnv,
     [NoEnv EXCEPT !.consulToken = acl, !.policy = "bundle"],
     [NoEnv EXCEPT !.vaultToken = root, !.vaultAddr = <<"loopback", "bare">>,
                   !.consulAddr = <<"loopback", "bare">>]}
=============================================================================
