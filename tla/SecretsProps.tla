----------------------------- MODULE SecretsProps -----------------------------
(***************************************************************************)
(* What runs must and must not do to the secrets of a stack.               *)
(***************************************************************************)
EXTENDS Secrets

\* What scripts were given of a generated secret they are given again, across
\* crashes, puts and deletes that fail, renames, and for an immutable secret
\* even full uninstalls: a database keeps the password it was set up with.
\* The one exception is a secret whose value a failed read has hidden: kv_get
\* calls every error of Vault an absent path, and a new value takes its place.
NeverRotated ==
    [][\A s \in Generated :
          given[s] # None /\ given'[s] # None /\ s \notin misread
              => given'[s] = given[s]]_vars

\* The operator's last value is somewhere: in the file, be it under an id the
\* manifest has given up, or in Vault.
Kept(s) == wanted[s] \in {file[s], stray[s], now[s], old[s]}
Loses(s) == wanted[s] # None /\ wanted'[s] = wanted[s] /\ Kept(s) /\ ~ Kept(s)'

\* A value the operator supplied, and did not replace or uninstall, gets lost
\* in three ways only: a kill in the middle of the rewrite of the file takes a
\* line that was not uploaded, a rewrite drops a line whose secret was
\* renamed, and a failed read lets an old value be moved over a newer one.  No
\* failed upload, no failed delete, no other crash and no rename loses one.
NothingLost ==
    [][\A s \in Supplied : Loses(s) =>
          \/ StripTorn /\ s \notin uploaded
          \/ Strip /\ s \in misnamed
          \/ Migrate /\ cur = s /\ now[s] # None /\ faults' # faults]_vars

\* When a run materializes secrets and no call failed, the operator's last
\* values are in place, unless their lines were for an id the manifest had
\* given up, and are on the disk no longer.
FileEmptied ==
    pc \in {"next", "generate"} /\ faults = 0 =>
        \A s \in Supplied :
            /\ file[s] = None
            /\ wanted[s] # None /\ s \notin misnamed => wanted[s] \in {now[s], old[s]}

\* The two halves of the shared key pair belong together, whichever run died
\* between them, unless two installers have seeded at the same time or a read
\* that failed made one seed a pair anew.
PairMatches == ~ clash /\ public # None => public = private
=============================================================================
