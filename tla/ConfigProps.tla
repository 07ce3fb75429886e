----------------------------- MODULE ConfigProps ------------------------------
(***************************************************************************)
(* What the values of the runs have to do with each other and with the     *)
(* operator's file.                                                        *)
(***************************************************************************)
EXTENDS Config

(***************************************************************************)
(* What makes a configuration one that four passes resolve completely.     *)
(***************************************************************************)

\* A text that stands for itself, in a field that may hold it.
Plain(k, v) == Refs(v) = {} /\ (k \in IpField \/ v # <<>>)

\* The keys that have a value in every run and keep it when "auto" becomes an
\* address.
Mentionable(m) == {"domain", "domain_dn"} \cup {f \in Field \ IpField : m.default[f] # Unset}

\* A text for k that only refers to keys of a smaller rank.
Fits(m, rank, k, v) ==
    /\ \A j \in Refs(v) : j \in Mentionable(m) /\ rank[j] < rank[k]
    /\ k \in IpField \cup {"domain"} => Refs(v) = {}
    /\ k \notin IpField => v # <<>>

\* In every release the texts refer to each other over at most four levels, and
\* neither the domain nor an address refers to anything or is derived.
Resolvable ==
    /\ "domain_dn" \notin Field /\ "domain" \notin IpField
    /\ \A m \in Manifests :
          /\ \E rank \in [Key -> 0 .. 4] :
                /\ Fits(m, rank, "domain", m.domain)
                /\ \A f \in Field : Fits(m, rank, f, m.default[f])
                /\ \A k \in DOMAIN Writes : \A v \in Writes[k] : Fits(m, rank, k, v)
          /\ \A f \in Field \cap (IpField \cup {"domain"}) : ~ IsDerived(m, f)
    /\ \A f \in DOMAIN Types : \A v \in Types[f] : Plain(f, v) /\ (f \in IpField => v # AutoIp)
    /\ \A d \in Domains : Plain("domain", d)
    /\ \A a \in Addresses : Refs(a) = {} /\ a # AutoIp

-----------------------------------------------------------------------------
\* What a run worked with, as far as a text can refer to it.
Known(run) ==
    run.values ++ Entry("domain", run.domain) ++ Entry("domain_dn", DomainToDn(run.domain))

\* A derived field that the operator did not set is the manifest's text over
\* the values of the same run, whatever was cached from a run with another
\* domain or of another release: no hostname of the old domain stays behind.
Rederived(run) ==
    \A f \in Field :
        /\ IsDerived(run.manifest, f)
        /\ f \notin DOMAIN run.file \cup run.typed
        /\ \A k \in run.typed : k \notin Refs(run.manifest.default[f])
        => run.values[f] = Interpolate(run.manifest.default[f], Known(run))

\* A run works with values that fit each other.
Consistent == last # NoRun => Rederived(last)

\* A headless run keeps what the run before it came to for every field that is
\* neither derived nor in the file, across releases with other defaults, edits
\* of the file and moves of the node.  A save of config.yaml that was cut short
\* leaves nothing to keep, and the run after it is left out.
Kept ==
    [][last' # last /\ last # NoRun /\ last'.by = "headless" /\ ~ torn =>
          \A f \in (Field \ DOMAIN last'.file) \cap DOMAIN cache :
              ~ IsDerived(last'.manifest, f) => last'.values[f] = last.values[f]]_vars

\* A headless run that finds the release, the file and the node of the headless
\* run before it comes to the same values, so that it plans nothing anew, if
\* the domain is a field or in the file: otherwise a headless run takes the
\* manifest's, whatever was typed on the screens.
Repeats ==
    [][/\ last' # last /\ last # NoRun /\ last.by = "headless" /\ last'.by = "headless"
       /\ ~ torn /\ "domain" \in Field \cup DOMAIN last.file
       /\ last'.manifest = last.manifest /\ last'.file = last.file
       /\ last'.node = last.node
       => last'.values = last.values /\ last'.domain = last.domain]_vars
=============================================================================
