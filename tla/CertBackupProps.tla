--------------------------- MODULE CertBackupProps ----------------------------
(***************************************************************************)
(* What backups and restores must and must not do to the certificates.     *)
(***************************************************************************)
EXTENDS CertBackup, Functions

\* The versions of files that are on the host in one piece: in the path, in
\* what was moved aside within it, or beside it.
Whole(p) ==
    {x \in File \X (1 .. MaxIssues) :
        \/ \E e \in DOMAIN tree[p] : x = <<e[2], tree[p][e].of>>
        \/ \E s \in DOMAIN siblings[p] : \E e \in DOMAIN siblings[p][s] :
              x = <<e[2], siblings[p][s][e].of>>}

\* No backup, no restore, forced or not, and no crash or failing write in one,
\* however often it is repeated, takes the last copy of a certificate or key
\* off the host: cert_backup.py:24-26.
NothingLost == [][issues' = issues => \A p \in Path : Whole(p) \subseteq Whole(p)']_vars

Versions(t) == [e \in DOMAIN t |-> t[e].of]
InPlace(t) == Restrict(t, {e \in DOMAIN t : ~ Aside(e)})

\* What the last restore moved aside of a path.
MovedAside(p) ==
    IF p \in Mount
    THEN [e \in {OutOf(d) : d \in {d \in DOMAIN tree[p] : Aside(d)}} |-> tree[p][Into(e)]]
    ELSE IF stamp \in DOMAIN siblings[p] THEN siblings[p][stamp] ELSE Empty

\* A restore that ends well has put exactly the backup in the place of each
\* path it restored, whatever crashed restores had left there: no file of the
\* old tree among the new ones.  With --force that is each path of the backup.
RestoredIsBackup ==
    pc = "done" =>
        /\ \A p \in restored : Versions(InPlace(tree[p])) = Versions(tar[p])
        /\ force => restored = DOMAIN tar

\* It can be rolled back: what it found in a path is aside, complete, or still
\* in its place if it did not restore it: docs backup-restore-certs.md:120-122.
CanRollBack ==
    pc = "done" =>
        \A p \in Path : /\ p \in restored => MovedAside(p) = before[p]
                        /\ p \notin restored => Versions(tree[p]) = Versions(before[p])

\* After it no private key below the TLS path can be read by others, whatever
\* the tarball says and whatever a crashed restore left.
KeysPrivate ==
    pc = "done" => \A e \in DOMAIN tree[Tls] : e[2] \in Keys => ~ tree[Tls][e].open
=============================================================================
