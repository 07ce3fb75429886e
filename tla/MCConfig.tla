------------------------------- MODULE MCConfig -------------------------------
(* Small instances of Config.  The url is made of the host that follows it *)
(* in the manifest, and the host of the domain; the second release freezes *)
(* the url, makes the host of the dn and has no default for the mode.      *)
EXTENDS ConfigProps

MCWords ==
    {"None", "auto", "domain", "domain_dn", "url", "host", "node_ip", "mode", "https",
     "auth", "sso", "dn", "d1", "d2", "m1", "m3", "m4", "typed", "a1"}
MCFieldOrder == <<"url", "host", "node_ip", "mode">>

MCManifests ==
    {[domain |-> Text("d1"),
      default |-> [url |-> <<Lit("https"), Ref("host")>>, host |-> <<Lit("auth"), Ref("domain")>>,
                   node_ip |-> AutoIp, mode |-> Text("m1")],
      derived |-> [f \in Field |-> "auto"]],
     [domain |-> Text("d1"),
      default |-> [url |-> <<Lit("https"), Ref("host")>>,
                   host |-> <<Lit("dn"), Ref("domain_dn")>>, node_ip |-> AutoIp,
                   mode |-> Unset],
      derived |-> [f \in Field |-> IF f = "url" THEN "no" ELSE "auto"]]}

MCWrites ==
    [domain |-> {Text("d2")}, host |-> {<<Lit("sso"), Ref("domain")>>},
     node_ip |-> {AutoIp}, mode |-> {Text("m3")}]

MCTypes == [host |-> {Text("typed")}, mode |-> {Text("m4")}]
MCAddresses == {Text("a1"), <<>>}
MCDomains == {Text("d2")}

\* The instance is one that the theorems are about.
ASSUME InstanceIsResolvable == Resolvable
=============================================================================
