---------------------------- MODULE KbSyncProofs ----------------------------
(***************************************************************************)
(* Proofs about a source and its copy, for any files and any number of     *)
(* edits, failing calls and restarts.                                      *)
(***************************************************************************)
EXTENDS KbSyncProps, TLAPS

\* File f of tree t is later than that of tree s: written since, or deleted
\* although it was there from the start.  With Fresh nothing ever leads back.
Later(s, t, f) ==
    \/ t[f] # Absent /\ t[f] # 0 /\ (s[f] = Absent \/ s[f] < t[f])
    \/ t[f] = Absent /\ s[f] = 0

\* Every file of t is that of s, or later.
Follows(s, t) == \A f \in File : t[f] = s[f] \/ Later(s, t, f)

\* The contents of a tree have been written by now.
Past(t) == t # None => \A f \in File : t[f] = Absent \/ t[f] <= edits

\* Contents are old enough for the next edit to be later than all of them.
AllPast == Past(source) /\ Past(central) /\ Past(lastHash) /\ Past(remote) /\ Past(tar)

\* The trees that hold content later than the cached hash.
Cached ==
    lastHash # None =>
        /\ Follows(lastHash, source)
        /\ central # None => Follows(lastHash, central)
        /\ pc = "post" => Follows(lastHash, tar)

\* A pull has only begun, and the copy is only gone, if the source has moved
\* on from the cached hash.
Outdated ==
    lastHash # None /\ (central = None \/ pc \in {"snapshot", "replace", "rename"})
        => \E f \in File : Later(lastHash, source, f)

\* If the copy is not what the cached hash says, being the snapshot of a later
\* moment, then the source has a later file too, and it is the copy's.
Ahead ==
    lastHash # None /\ central # None /\ touched = {} /\ central # lastHash
        => \E f \in File : Later(lastHash, central, f) /\ Later(lastHash, source, f)

\* What is under way: health came before the snapshot, that before now.
UnderWay ==
    /\ pc \in {"snapshot", "replace", "rename"} => remote # None /\ Follows(remote, source)
    /\ pc \in {"replace", "rename"} =>
          /\ tar # None /\ Follows(remote, tar)
          /\ tar # remote =>
                \E f \in File : Later(remote, tar, f) /\ Later(remote, source, f)
    /\ pc \in {"pack", "post"} => central # None
    /\ pc = "post" => tar # None /\ (touched = {} => tar = central)
    /\ pc = "rename" => central = None

KbInv == TypeOK /\ AllPast /\ Cached /\ Outdated /\ Ahead /\ UnderWay

\* The part of it that the types need.
Typed ==
    /\ TypeOK
    /\ pc \in {"pack", "post"} => central # None
    /\ pc = "post" => tar # None

-----------------------------------------------------------------------------
(* The operators *)

\* A later content is another content.
LEMMA LaterDiffers ==
    ASSUME NEW s \in Tree, NEW t \in Tree, NEW f \in File, Later(s, t, f)
    PROVE  t[f] # s[f]
BY KbAssumption DEF Later, Tree, Content

\* An edit that writes new content, or deletes an original file, keeps a tree
\* at or after an older one, and what was later stays later.
LEMMA EditFollows ==
    ASSUME NEW s \in Tree, NEW t \in Tree, NEW f \in File, NEW c, NEW n \in Nat,
           \A g \in File : s[g] = Absent \/ s[g] <= n,
           c = n + 1 \/ (c = Absent /\ t[f] = 0)
    PROVE  LET u == [t EXCEPT ![f] = c]
           IN  /\ Follows(s, t) => Follows(s, u)
               /\ \A g \in File : Later(s, t, g) => Later(s, u, g)
<1> DEFINE u == [t EXCEPT ![f] = c]
<1>1. \A g \in File : u[g] = IF g = f THEN c ELSE t[g]
  BY DEF Tree
<1>2. s \in [File -> Content \cup {Absent}] /\ t \in [File -> Content \cup {Absent}]
  BY DEF Tree
<1>3. \A g \in File : Later(s, t, g) => Later(s, u, g)
  BY <1>1, <1>2, KbAssumption DEF Later, Content
<1>4. ASSUME Follows(s, t) PROVE Follows(s, u)
  <2> SUFFICES ASSUME NEW g \in File PROVE u[g] = s[g] \/ Later(s, u, g)
    BY DEF Follows
  <2>1. t[g] = s[g] \/ Later(s, t, g)
    BY <1>4 DEF Follows
  <2>2. CASE g = f
    BY <2>1, <2>2, <1>1, <1>2, KbAssumption DEF Later, Content
  <2>3. CASE g # f
    BY <2>1, <2>3, <1>1 DEF Later
  <2> QED BY <2>2, <2>3
<1> QED BY <1>3, <1>4

\* Extracting one tree over another gives a tree, at or after whatever both
\* are at or after, and later where both are.
LEMMA ExtractFollows ==
    ASSUME NEW s \in Tree, NEW t \in Tree, NEW u \in Tree, NEW fs \in SUBSET File
    PROVE  /\ Extract(t, u, fs) \in Tree
           /\ Follows(s, t) /\ Follows(s, u) => Follows(s, Extract(t, u, fs))
           /\ \A f \in File : Later(s, t, f) /\ Later(s, u, f)
                  => Later(s, Extract(t, u, fs), f)
<1> DEFINE e == Extract(t, u, fs)
<1>1. e \in Tree /\ \A f \in File : e[f] = t[f] \/ e[f] = u[f]
  BY DEF Extract, Tree
<1> QED BY <1>1 DEF Follows, Later

-----------------------------------------------------------------------------
(* Types *)

\* Types are kept by every step.
LEMMA TypedStep == Typed /\ [Next]_vars => Typed'
<1> USE KbAssumption
<1> SUFFICES ASSUME Typed, [Next]_vars PROVE Typed'
  OBVIOUS
<1>1. ASSUME NEW f \in File, EditSource(f) PROVE Typed'
  BY <1>1 DEF Typed, TypeOK, EditSource, Written, Content, Tree, hub, history
<1>2. ASSUME NEW f \in File, EditCentral(f) PROVE Typed'
  BY <1>2 DEF Typed, TypeOK, EditCentral, Written, Content, Tree, hub
<1>3. CASE Health
  BY <1>3 DEF Typed, TypeOK, Health, Ok, Fault, HubPhase, trees, history
<1>4. CASE Snapshot
  BY <1>4 DEF Typed, TypeOK, Snapshot, Ok, Fault, HubPhase, trees, history
<1>5. CASE RemoveOld
  <2>1. central' \in Tree \cup {None}
    BY <1>5 DEF Typed, TypeOK, RemoveOld, Remnants, Tree
  <2> QED BY <1>5, <2>1 DEF Typed, TypeOK, RemoveOld, Ok, Fault, HubPhase, history
<1>6. CASE RenameNew
  BY <1>6 DEF Typed, TypeOK, RenameNew, Ok, Fault, HubPhase, history
<1>7. CASE Compare
  BY <1>7 DEF Typed, TypeOK, Compare, HubPhase, trees, history, counters
<1>8. CASE Pack
  BY <1>8 DEF Typed, TypeOK, Pack, HubPhase, trees, history, counters
<1>9. CASE Post
  <2>1. source' \in Tree
    BY <1>9, ExtractFollows DEF Typed, TypeOK, Post
  <2> QED BY <1>9, <2>1 DEF Typed, TypeOK, Post, Ok, Fault, HubPhase, history
<1>10. CASE SaveAnchor
  BY <1>10 DEF Typed, TypeOK, SaveAnchor, Ok, Fault, HubPhase, trees, history
<1>11. CASE Restart
  BY <1>11 DEF Typed, TypeOK, Restart, HubPhase, trees, history
<1>12. CASE UNCHANGED vars
  BY <1>12 DEF Typed, TypeOK, vars, trees, hub, history, counters
<1> QED
  BY <1>1, <1>2, <1>3, <1>4, <1>5, <1>6, <1>7, <1>8, <1>9, <1>10, <1>11, <1>12
  DEF Next, Edit, Cycle

\* Trees, hashes and counters keep their types, whatever fails.
THEOREM KbTypeCorrect == Spec => []TypeOK
<1>1. Init => Typed
  BY KbAssumption DEF Init, Typed, TypeOK, Tree, Content, HubPhase
<1>2. Typed => TypeOK
  BY DEF Typed
<1> QED BY <1>1, <1>2, TypedStep, PTL DEF Spec

-----------------------------------------------------------------------------
(* The copy is up to date when the hub takes it for up to date *)

\* An edit at the source.
LEMMA EditSourceStep ==
    ASSUME Fresh, KbInv, NEW f \in File, EditSource(f)
    PROVE  AllPast' /\ Cached' /\ Outdated' /\ Ahead' /\ UnderWay'
<1> USE KbAssumption
<1>1. PICK c : (c = edits + 1 \/ (c = Absent /\ source[f] = 0))
               /\ source' = [source EXCEPT ![f] = c]
  BY DEF EditSource, Written
<1>2. /\ edits \in Nat /\ edits' = edits + 1 /\ source \in Tree
      /\ UNCHANGED <<central, pc, lastHash, remote, current, tar, anchor, touched>>
  BY DEF KbInv, TypeOK, EditSource, hub, history
<1>3. ASSUME NEW t \in Tree, Past(t)
      PROVE  /\ Follows(t, source) => Follows(t, source')
             /\ \A g \in File : Later(t, source, g) => Later(t, source', g)
  <2>1. t # None
    OBVIOUS
  <2> QED BY <1>1, <1>2, <1>3, <2>1, EditFollows DEF Past
<1>4. {central, lastHash, remote, tar} \subseteq Tree \cup {None}
  BY DEF KbInv, TypeOK
<1>5. AllPast'
  <2>1. ASSUME NEW t \in Tree \cup {None}, Past(t) PROVE (Past(t))'
    BY <1>2, <2>1 DEF Past, Tree, Content
  <2> QED BY <1>1, <1>2, <1>4, <2>1 DEF KbInv, AllPast, Past, Tree, Content
<1>6. Cached'
  BY <1>2, <1>3, <1>4 DEF KbInv, AllPast, Cached
<1>7. Outdated'
  BY <1>2, <1>3, <1>4 DEF KbInv, AllPast, Outdated
<1>8. Ahead'
  BY <1>2, <1>3, <1>4 DEF KbInv, AllPast, Ahead
<1>9. UnderWay'
  BY <1>2, <1>3, <1>4 DEF KbInv, AllPast, UnderWay
<1> QED BY <1>5, <1>6, <1>7, <1>8, <1>9

\* An edit of the copy.
LEMMA EditCentralStep ==
    ASSUME Fresh, KbInv, NEW f \in File, EditCentral(f)
    PROVE  AllPast' /\ Cached' /\ Outdated' /\ Ahead' /\ UnderWay'
<1> USE KbAssumption
<1>1. central # None /\ central \in Tree /\ central' = [central EXCEPT ![f] = edits + 1]
  BY DEF KbInv, TypeOK, EditCentral, Written
<1>2. /\ edits \in Nat /\ edits' = edits + 1 /\ touched' # {}
      /\ UNCHANGED <<source, pc, lastHash, remote, current, tar, anchor>>
  BY DEF KbInv, TypeOK, EditCentral, hub, history
<1>3. {source, lastHash, remote, tar} \subseteq Tree \cup {None}
  BY DEF KbInv, TypeOK
<1>4. central' # None
  <2>1. edits + 1 \in Content
    BY <1>2 DEF EditCentral, Content
  <2>2. central' \in Tree
    BY <1>1, <2>1 DEF Tree
  <2> QED BY <2>2
<1>5. AllPast'
  <2>1. ASSUME NEW t \in Tree \cup {None}, Past(t) PROVE (Past(t))'
    BY <1>2, <2>1 DEF Past, Tree, Content
  <2> QED BY <1>1, <1>2, <1>3, <2>1 DEF KbInv, AllPast, Past, Tree, Content
<1>6. Cached'
  <2>1. lastHash # None => Follows(lastHash, central')
    BY <1>1, <1>2, <1>3, EditFollows DEF KbInv, AllPast, Past, Cached
  <2> QED BY <1>2, <2>1 DEF KbInv, Cached
<1>7. Outdated'
  BY <1>2, <1>4 DEF KbInv, Outdated
<1>8. Ahead'
  BY <1>2 DEF Ahead
<1>9. UnderWay'
  BY <1>1, <1>2, <1>4 DEF KbInv, UnderWay
<1> QED BY <1>5, <1>6, <1>7, <1>8, <1>9

\* Two trees of which one follows the other have a later file or are the same.
LEMMA SameOrLater ==
    ASSUME NEW s \in Tree, NEW t \in Tree, Follows(s, t), s # t
    PROVE  \E f \in File : Later(s, t, f)
BY DEF Follows, Tree

\* A push.
LEMMA PostStep ==
    ASSUME KbInv, TypeOK', Post
    PROVE  AllPast' /\ Cached' /\ Outdated' /\ Ahead' /\ UnderWay'
<1>1. PICK fs \in SUBSET File : source' = Extract(source, tar, fs)
  BY DEF Post
<1>2. /\ source \in Tree /\ tar \in Tree /\ lastHash \in Tree \cup {None}
      /\ pc = "post" /\ pc' \in {"idle", "save"}
      /\ central # None /\ (touched = {} => tar = central)
      /\ UNCHANGED <<central, lastHash, remote, tar, touched, edits>>
  BY DEF KbInv, TypeOK, Post, UnderWay, history
<1>3. AllPast'
  <2>1. \A f \in File : source'[f] = source[f] \/ source'[f] = tar[f]
    BY <1>1 DEF Extract
  <2>2. Past(source) /\ Past(tar) /\ source # None /\ tar # None
    BY <1>2, KbAssumption DEF KbInv, AllPast
  <2> QED BY <1>2, <2>1, <2>2 DEF KbInv, AllPast, Past
<1>4. Cached'
  BY <1>1, <1>2, ExtractFollows DEF KbInv, Cached
<1>5. Outdated'
  BY <1>2 DEF Outdated
<1>6. Ahead'
  BY <1>1, <1>2, ExtractFollows DEF KbInv, Ahead
<1>7. UnderWay'
  BY <1>2 DEF UnderWay
<1> QED BY <1>3, <1>4, <1>5, <1>6, <1>7

\* Every step keeps the invariant.
LEMMA KbInvStep ==
    ASSUME Fresh, ~ TornTrees
    PROVE  KbInv /\ [Next]_vars => KbInv'
<1> USE KbAssumption
<1> SUFFICES ASSUME KbInv, [Next]_vars PROVE KbInv'
  OBVIOUS
<1> DEFINE Rest == AllPast /\ Cached /\ Outdated /\ Ahead /\ UnderWay
<1>1. TypeOK'
  BY TypedStep DEF KbInv, Typed, UnderWay
<1>2. /\ source \in Tree /\ central \in Tree \cup {None} /\ lastHash \in Tree \cup {None}
      /\ remote \in Tree \cup {None} /\ tar \in Tree \cup {None}
  BY DEF KbInv, TypeOK
<1>3. ASSUME NEW f \in File, EditSource(f) PROVE Rest'
  BY <1>3, EditSourceStep
<1>4. ASSUME NEW f \in File, EditCentral(f) PROVE Rest'
  BY <1>4, EditCentralStep
<1>5. CASE Health
  <2>1. Follows(source, source)
    BY DEF Follows
  <2>2. pc' = "snapshot" /\ lastHash # None => \E f \in File : Later(lastHash, source, f)
    BY <1>2, <1>5, SameOrLater DEF Health, KbInv, Cached
  <2>3. Outdated'
    BY <1>2, <1>5, <2>2 DEF Health, KbInv, Outdated, trees
  <2>4. UnderWay'
    BY <1>2, <1>5, <2>1 DEF Health, KbInv, UnderWay, trees, Ok
  <2> QED BY <1>1, <1>2, <1>5, <2>3, <2>4
          DEF Health, KbInv, AllPast, Past, Cached, Ahead, trees, history
<1>6. CASE Snapshot
  <2>1. remote # source => \E f \in File : Later(remote, source, f)
    BY <1>2, <1>6, SameOrLater DEF Snapshot, KbInv, UnderWay
  <2>2. UnderWay'
    BY <1>2, <1>6, <2>1 DEF Snapshot, KbInv, UnderWay, trees
  <2> QED BY <1>1, <1>2, <1>6, <2>2
          DEF Snapshot, KbInv, AllPast, Past, Cached, Outdated, Ahead, trees, history
<1>7. CASE RemoveOld
  <2>1. central' \in {central, None}
    BY <1>7 DEF RemoveOld, Remnants
  <2> QED BY <1>1, <1>2, <1>7, <2>1
          DEF RemoveOld, Remnants, KbInv, AllPast, Past, Cached, Outdated, Ahead, UnderWay,
              history
<1>8. CASE RenameNew
  BY <1>1, <1>2, <1>8
  DEF RenameNew, KbInv, AllPast, Past, Cached, Outdated, Ahead, UnderWay, history
<1>9. CASE Compare
  BY <1>1, <1>2, <1>9
  DEF Compare, KbInv, AllPast, Past, Cached, Outdated, Ahead, UnderWay, trees, history, counters
<1>10. CASE Pack
  BY <1>1, <1>2, <1>10
  DEF Pack, KbInv, AllPast, Past, Cached, Outdated, Ahead, UnderWay, trees, history, counters
<1>11. CASE Post
  BY <1>1, <1>11, PostStep DEF KbInv
<1>12. CASE SaveAnchor
  BY <1>1, <1>12
  DEF SaveAnchor, KbInv, AllPast, Past, Cached, Outdated, Ahead, UnderWay, trees, history
<1>13. CASE Restart
  BY <1>1, <1>13
  DEF Restart, KbInv, AllPast, Past, Cached, Outdated, Ahead, UnderWay, trees, history
<1>14. CASE UNCHANGED vars
  BY <1>1, <1>14
  DEF vars, KbInv, AllPast, Past, Cached, Outdated, Ahead, UnderWay, trees, hub, history,
      counters
<1> QED
  BY <1>1, <1>3, <1>4, <1>5, <1>6, <1>7, <1>8, <1>9, <1>10, <1>11, <1>12, <1>13, <1>14
  DEF KbInv, Next, Edit, Cycle

\* As long as no removal of a tree fails half-way, a copy that the hub takes
\* for up to date is the source's tree: pulls and pushes may fail and the hub
\* may be killed at any point, and people may edit in between.
THEOREM UpToDateCorrect ==
    ASSUME ~ TornTrees
    PROVE  Spec => []UpToDateIsAlike
<1>1. CASE Fresh
  <2>1. Init => KbInv
    BY KbAssumption
    DEF Init, KbInv, TypeOK, Tree, Content, HubPhase, AllPast, Past, Cached, Outdated, Ahead,
        UnderWay
  <2>2. KbInv /\ [Next]_vars => KbInv'
    BY <1>1, KbInvStep
  <2>3. KbInv => UpToDateIsAlike
    <3> SUFFICES ASSUME KbInv, pc = "idle", lastHash = source, touched = {}
                 PROVE  central = source
      BY DEF UpToDateIsAlike
    <3>1. source \in Tree /\ source # None
      BY KbAssumption DEF KbInv, TypeOK
    <3>2. ~ \E f \in File : Later(lastHash, source, f)
      BY <3>1, LaterDiffers
    <3> QED BY <3>1, <3>2 DEF KbInv, Outdated, Ahead
  <2> QED BY <2>1, <2>2, <2>3, PTL DEF Spec
<1>2. CASE ~ Fresh
  <2>1. UpToDateIsAlike
    BY <1>2 DEF UpToDateIsAlike
  <2> QED BY <2>1, PTL
<1> QED BY <1>1, <1>2
=============================================================================
