----------------------------- MODULE MCInstaller -----------------------------
(* Small instances of Installer.                                           *)
EXTENDS InstallerProps, Manifest, TLC

CONSTANTS db, app, consul, vault, c1, c2

\* A database and the application that depends on it and discovers it.
TwoOrder == <<db, app>>
TwoDepends == (db :> {} @@ app :> {db})
TwoService == (db :> "db" @@ app :> "app")
TwoNeeds == (db :> {} @@ app :> {"db"})
NoNeeds == (db :> {} @@ app :> {})

\* A stack that brings its own Consul after its database.
ThreeOrder == <<db, consul, app>>
ThreeDepends == (db :> {} @@ consul :> {} @@ app :> {db, consul})
ThreeService == (db :> "db" @@ consul :> None @@ app :> "app")
ThreeNeeds == (db :> {} @@ consul :> {} @@ app :> {"db"})

\* What Installer assumes of Order holds of the order of every manifest of
\* three components, whatever each depends on and in whatever order; those of
\* the instances come out of manifests that list the application first.
Listings(S) == UNION {SetToSeqs(T) : T \in SUBSET S}

ASSUME OrderIsTopological ==
    /\ \A depends \in [1 .. 3 -> Listings(1 .. 3)] :
            SortsTopologically(<<1, 2, 3>>, depends)
    /\ TwoOrder = TopoOrder(<<app, db>>, (db :> << >> @@ app :> <<db>>))
    /\ ThreeOrder = TopoOrder(<<app, consul, db>>,
                      (db :> << >> @@ consul :> << >> @@ app :> <<db, consul>>))

ReapplyOne == Init /\ [][Next \/ Reapply(c1)]_vars /\ ReapplyFairness(c1)
ConvergesToOne == Converges(c1)
=============================================================================
