-------------------------- MODULE CertBackupProofs ----------------------------
(***************************************************************************)
(* Proofs about backups and restores, for any paths and files and any      *)
(* number of runs, renewals, crashes and failing writes.                   *)
(***************************************************************************)
EXTENDS CertBackupProps, SequenceTheorems, TLAPS

Restoring == pc \in {"restore", "move", "mkdir", "lay"}

\* Where entries are: at or under the place of the last restore, and before
\* the running restore has come to them, under it.
Upto(e) == e[1] # <<>> => Head(e[1]) \in 0 .. stamp
Under(e) == e[1] # <<>> => Head(e[1]) \in 0 .. stamp /\ Head(e[1]) # stamp

Places ==
    /\ \A p \in Path : DOMAIN tree[p] # {} => p \in there
    /\ \A p \in Path : \A e \in DOMAIN tree[p] : Upto(e)
    /\ \A p \in DOMAIN tar : \A e \in DOMAIN tar[p] : Upto(e)
    /\ \A p \in DOMAIN work : \A e \in DOMAIN work[p] : Upto(e)
    /\ \A p \in Path : DOMAIN siblings[p] \subseteq 0 .. stamp

\* What the running restore has still before it.
Ahead ==
    /\ Restoring => \A p \in DOMAIN tar : \A e \in DOMAIN tar[p] : Under(e)
    /\ Restoring => \A p \in todo : /\ \A e \in DOMAIN tree[p] : Under(e)
                                    /\ stamp \notin DOMAIN siblings[p]
    /\ pc \in {"move", "mkdir", "lay"} => cur \notin todo
    /\ pc = "move" => \A e \in DOMAIN tree[cur] :
                         Aside(e) => OutOf(e) \notin DOMAIN tree[cur] \/ Aside(OutOf(e))
    /\ pc = "mkdir" => \A e \in DOMAIN tree[cur] : Aside(e)
    /\ pc = "lay" => cur \in there /\ \A e \in left : e \notin DOMAIN tree[cur]

IInv == TypeOK /\ Places /\ Ahead

-----------------------------------------------------------------------------
(* Trees *)

LEMMA PutTree ==
    ASSUME NEW t, IsTree(t), NEW x \in Entry, NEW c \in Content
    PROVE  IsTree(Put(t, x, c)) /\ DOMAIN Put(t, x, c) = DOMAIN t \cup {x}
  BY DEF IsTree, Put

LEMMA PutTrees ==
    ASSUME NEW ts, IsTrees(ts), NEW x, NEW t, IsTree(t)
    PROVE  IsTrees(Put(ts, x, t)) /\ DOMAIN Put(ts, x, t) = DOMAIN ts \cup {x}
  BY DEF IsTrees, Put

LEMMA ExceptTrees ==
    ASSUME NEW ts, IsTrees(ts), NEW x \in DOMAIN ts, NEW t, IsTree(t)
    PROVE  IsTrees([ts EXCEPT ![x] = t])
  BY DEF IsTrees

LEMMA NoTree == IsTree(Empty) /\ IsTrees(Empty) /\ Torn \in Content /\ DOMAIN Empty = {}
  BY DEF IsTree, IsTrees, Empty, Torn, Content

LEMMA CutKeeps ==
    ASSUME IsTrees(tree), cur \in DOMAIN tree, left \subseteq Entry,
           UNCHANGED tree \/ \E e \in left : Cut(e)
    PROVE  IsTrees(tree') /\ DOMAIN tree' = DOMAIN tree
  <1>1. CASE UNCHANGED tree
    BY <1>1
  <1>2. ASSUME NEW e \in left, Cut(e)
        PROVE  IsTrees(tree') /\ DOMAIN tree' = DOMAIN tree
    <2>1. IsTree(Put(tree[cur], e, Torn))
      BY NoTree, PutTree DEF IsTrees
    <2> QED
      BY <1>2, <2>1, ExceptTrees DEF Cut
  <1> QED
    BY <1>1, <1>2

\* What a renewal makes of a path.
Issued(p) ==
    [e \in DOMAIN tree[p] \cup ({<<>>} \X File) |->
        IF e[1] = <<>> THEN [of |-> issues + 1, open |-> e[2] \notin Keys] ELSE tree[p][e]]

\* Moving into the new directory and out of it again leads to the same entry.
LEMMA IntoOut ==
    ASSUME NEW e \in Entry, stamp \in Nat
    PROVE  /\ Into(e) \in Entry /\ Aside(Into(e)) /\ OutOf(Into(e)) = e
           /\ Into(e)[1] # <<>> /\ Head(Into(e)[1]) = stamp /\ Into(e)[2] = e[2]
  <1> DEFINE l == e[1]
             m == <<stamp>> \o l
  <1>1. l \in Seq(Nat) /\ e[2] \in File /\ e = <<l, e[2]>>
    BY DEF Entry
  <1>2. m \in Seq(Nat) /\ Len(m) = Len(l) + 1 /\ m[1] = stamp /\ m # <<>> /\ Head(m) = stamp
    BY <1>1
  <1>3. \A i \in 1 .. Len(l) : m[i + 1] = l[i]
    BY <1>1
  <1>4. Tail(m) \in Seq(Nat) /\ Len(Tail(m)) = Len(l)
    BY <1>1, <1>2
  <1>5. \A i \in 1 .. Len(l) : Tail(m)[i] = l[i]
    BY <1>1, <1>2, <1>3
  <1>6. Tail(m) = l
    BY <1>1, <1>4, <1>5, SeqEqual
  <1> QED
    BY <1>1, <1>2, <1>6 DEF Entry, Into, OutOf, Aside

LEMMA ChildIsInPlace ==
    ASSUME NEW t, NEW e \in DOMAIN t, ~ Aside(e)
    PROVE  /\ Child(t, e) \subseteq DOMAIN t /\ e \in Child(t, e)
           /\ \A d \in Child(t, e) : ~ Aside(d)
  BY DEF Child, Aside

\* What moves keeps its content, and so does what stays.
LEMMA MovedKeeps ==
    ASSUME NEW t, IsTree(t), stamp \in Nat, NEW C \in SUBSET DOMAIN t,
           \A e \in C : ~ Aside(e),
           \A e \in DOMAIN t : Aside(e) => OutOf(e) \notin DOMAIN t \/ Aside(OutOf(e))
    PROVE  /\ IsTree(Moved(t, C))
           /\ DOMAIN Moved(t, C) = (DOMAIN t \ C) \cup {Into(d) : d \in C}
           /\ \A e \in DOMAIN t \ C : Moved(t, C)[e] = t[e]
           /\ \A e \in C : Moved(t, C)[Into(e)] = t[e]
  <1>1. \A e \in C : e \in Entry /\ Into(e) \in Entry /\ OutOf(Into(e)) = e /\ Aside(Into(e))
    BY IntoOut DEF IsTree
  <1>2. DOMAIN Moved(t, C) = (DOMAIN t \ C) \cup {Into(d) : d \in C}
    BY DEF Moved
  <1>3. \A e \in DOMAIN t \ C : Moved(t, C)[e] = t[e]
    BY DEF Moved
  <1>4. \A e \in C : Into(e) \notin DOMAIN t
    BY <1>1
  <1>5. \A e \in C : Moved(t, C)[Into(e)] = t[e]
    BY <1>1, <1>4 DEF Moved
  <1>6. IsTree(Moved(t, C))
    <2>1. Moved(t, C) = [e \in DOMAIN Moved(t, C) |-> Moved(t, C)[e]]
      BY DEF Moved
    <2>2. DOMAIN Moved(t, C) \subseteq Entry
      BY <1>1, <1>2 DEF IsTree
    <2>3. \A e \in DOMAIN Moved(t, C) : Moved(t, C)[e] \in Content
      BY <1>2, <1>3, <1>5 DEF IsTree
    <2> QED
      BY <2>1, <2>2, <2>3 DEF IsTree
  <1> QED
    BY <1>2, <1>3, <1>5, <1>6

-----------------------------------------------------------------------------
(* Types *)

LEMMA Initially == Init => IInv
  <1> SUFFICES ASSUME Init PROVE IInv
    OBVIOUS
  <1>1. DOMAIN tree = Path /\ IsTrees(tree) /\ \A p \in Path : tree[p] = Empty
    BY NoTree DEF Init, IsTrees
  <1>2. /\ DOMAIN siblings = Path /\ siblings = [p \in Path |-> siblings[p]]
        /\ \A p \in Path : siblings[p] = Empty
    BY DEF Init
  <1>3. TypeOK
    BY <1>1, <1>2, NoTree, CertAssumption DEF Init, TypeOK
  <1>4. Places /\ Ahead
    BY <1>1, <1>2, NoTree DEF Init, Places, Ahead, Restoring
  <1> QED
    BY <1>3, <1>4 DEF IInv

LEMMA TypeStep == IInv /\ [Next]_vars => TypeOK'
  <1> SUFFICES ASSUME IInv, [Next]_vars PROVE TypeOK'
    OBVIOUS
  <1> USE CertAssumption DEF disk, tool, run, bounds
  <1>0. /\ TypeOK /\ Places /\ Ahead
        /\ DOMAIN tree = Path /\ \A p \in Path : IsTree(tree[p])
        /\ \A p \in DOMAIN tar : IsTree(tar[p])
        /\ \A p \in DOMAIN work : IsTree(work[p])
    BY DEF IInv, TypeOK, IsTrees
  <1>1. CASE BeginBackup
    BY <1>0, <1>1, NoTree DEF TypeOK, BeginBackup, Take
  <1>2. CASE OpenPath
    <2>1. PICK p \in todo : /\ cur' = p /\ todo' = todo \ {p} /\ left' = DOMAIN tree[p]
                            /\ work' = Put(work, p, Empty)
      BY <1>2 DEF OpenPath
    <2>2. p \in Path /\ IsTree(tree[p])
      BY <1>0, <2>1 DEF TypeOK
    <2>3. DOMAIN work' \subseteq Path /\ IsTrees(work') /\ cur' \in DOMAIN work'
      <3>1. IsTrees(work) /\ IsTree(Empty) /\ DOMAIN work \subseteq Path
        BY <1>0, NoTree DEF TypeOK
      <3>2. IsTrees(Put(work, p, Empty)) /\ DOMAIN Put(work, p, Empty) = DOMAIN work \cup {p}
        BY <3>1, PutTrees
      <3> QED
        BY <2>1, <2>2, <3>1, <3>2
    <2>4. left' \subseteq Entry /\ left' \subseteq DOMAIN tree'[cur']
      BY <1>2, <2>1, <2>2 DEF OpenPath, IsTree
    <2> QED
      BY <1>0, <1>2, <2>1, <2>2, <2>3, <2>4 DEF TypeOK, OpenPath
  <1>3. CASE CopyEntry
    <2>1. PICK e \in left : /\ work' = [work EXCEPT ![cur] = Put(work[cur], e, tree[cur][e])]
                            /\ left' = left \ {e}
      BY <1>3 DEF CopyEntry
    <2>2. cur \in DOMAIN work /\ IsTree(work[cur]) /\ e \in Entry /\ tree[cur][e] \in Content
      BY <1>0, <1>3, <2>1 DEF TypeOK, CopyEntry, IsTree
    <2>3. IsTrees(work') /\ DOMAIN work' = DOMAIN work
      BY <1>0, <2>1, <2>2, PutTree, ExceptTrees DEF TypeOK
    <2> QED
      BY <1>0, <1>3, <2>1, <2>3 DEF TypeOK, CopyEntry
  <1>4. CASE WriteTar
    BY <1>0, <1>4, NoTree DEF TypeOK, WriteTar, Take
  <1>5. CASE BeginRestore
    BY <1>0, <1>5, NoTree DEF TypeOK, BeginRestore, Take
  <1>6. CASE Skip
    BY <1>0, <1>6, NoTree DEF TypeOK, Skip, Take
  <1>7. CASE Fresh
    BY <1>0, <1>7, NoTree DEF TypeOK, Fresh, Take
  <1>8. CASE RenameAside
    <2>1. PICK p \in (todo \cap DOMAIN tar) \ Mount :
             /\ todo' = todo \ {p} /\ cur' = p
             /\ siblings' = [siblings EXCEPT ![p] = Put(siblings[p], stamp, tree[p])]
             /\ tree' = [tree EXCEPT ![p] = Empty] /\ there' = there \ {p}
      BY <1>8 DEF RenameAside, Take
    <2>2. p \in Path /\ IsTrees(siblings[p]) /\ IsTree(tree[p])
      BY <1>0, <2>1 DEF TypeOK
    <2>3. IsTrees(tree') /\ DOMAIN tree' = Path
      BY <1>0, <2>1, <2>2, NoTree, ExceptTrees DEF TypeOK
    <2>4. /\ DOMAIN siblings' = Path /\ siblings' = [q \in Path |-> siblings'[q]]
          /\ \A q \in Path : IsTrees(siblings'[q])
      BY <1>0, <2>1, <2>2, PutTrees DEF TypeOK
    <2> QED
      BY <1>0, <1>8, <2>1, <2>3, <2>4 DEF TypeOK, RenameAside
  <1>9. CASE BeginMove
    BY <1>0, <1>9, NoTree DEF TypeOK, BeginMove, Take
  <1>10. CASE MoveChild
    <2>1. PICK e \in DOMAIN tree[cur] :
             ~ Aside(e) /\ tree' = [tree EXCEPT ![cur] = Moved(tree[cur], Child(tree[cur], e))]
      BY <1>10 DEF MoveChild
    <2>2. IsTree(Moved(tree[cur], Child(tree[cur], e)))
      BY <1>0, <1>10, <2>1, ChildIsInPlace, MovedKeeps DEF TypeOK, Ahead, MoveChild
    <2>3. IsTrees(tree') /\ DOMAIN tree' = Path
      BY <1>0, <2>1, <2>2, ExceptTrees DEF TypeOK
    <2> QED
      BY <1>0, <1>10, <2>3 DEF TypeOK, MoveChild
  <1>11. CASE MovedAll
    BY <1>0, <1>11, NoTree DEF TypeOK, MovedAll, Take
  <1>12. CASE MakeDir
    <2>1. DOMAIN tar[cur] \subseteq Entry
      BY <1>0, <1>12 DEF TypeOK, MakeDir, IsTree
    <2> QED
      BY <1>0, <1>12, <2>1 DEF TypeOK, MakeDir
  <1>13. CASE LayEntry
    <2>1. PICK e \in left : /\ tree' = [tree EXCEPT ![cur] = Put(tree[cur], e, tar[cur][e])]
                            /\ left' = left \ {e}
      BY <1>13 DEF LayEntry
    <2>2. e \in Entry /\ tar[cur][e] \in Content
      BY <1>0, <1>13, <2>1 DEF TypeOK, LayEntry, IsTree
    <2>3. IsTrees(tree') /\ DOMAIN tree' = Path
      BY <1>0, <2>1, <2>2, PutTree, ExceptTrees DEF TypeOK
    <2> QED
      BY <1>0, <1>13, <2>1, <2>3 DEF TypeOK, LayEntry
  <1>14. CASE LayFails
    <2>1. PICK e \in left : (UNCHANGED tree \/ Cut(e)) /\ left' = left \ {e}
      BY <1>14 DEF LayFails
    <2>2. IsTrees(tree') /\ DOMAIN tree' = Path
      BY <1>0, <2>1, CutKeeps DEF TypeOK
    <2> QED
      BY <1>0, <1>14, <2>1, <2>2 DEF TypeOK, LayFails
  <1>15. CASE LaidDown
    BY <1>0, <1>15, NoTree DEF TypeOK, LaidDown, Take
  <1>16. CASE Reassert
    <2> DEFINE t == [e \in DOMAIN tree[Tls] |-> [tree[Tls][e] EXCEPT !.open = e[2] \notin Keys]]
    <2>1. IsTree(t)
      <3>1. IsTree(tree[Tls])
        BY <1>0
      <3> QED
        BY <3>1 DEF IsTree, Content
    <2>2. tree' = [tree EXCEPT ![Tls] = t]
      BY <1>16 DEF Reassert
    <2>3. IsTrees(tree') /\ DOMAIN tree' = Path
      BY <1>0, <2>1, <2>2, ExceptTrees DEF TypeOK
    <2> QED
      BY <1>0, <1>16, <2>3 DEF TypeOK, Reassert
  <1>17. CASE Crash
    <2>1. UNCHANGED tree \/ \E e \in left : Cut(e)
      BY <1>17 DEF Crash
    <2>2. IsTrees(tree') /\ DOMAIN tree' = Path
      BY <1>0, <2>1, CutKeeps DEF TypeOK
    <2> QED
      BY <1>0, <1>17, <2>2 DEF TypeOK, Crash
  <1>18. CASE Issue
    <2>1. PICK p \in Path : /\ there' = there \cup {p}
                            /\ tree' = [tree EXCEPT ![p] = Issued(p)]
      BY <1>18 DEF Issue, Issued
    <2>2. IsTree(Issued(p)) /\ DOMAIN tree[p] \subseteq DOMAIN Issued(p)
      <3>0. issues + 1 \in Nat /\ <<>> \in Seq(Nat)
        BY <1>0 DEF TypeOK
      <3>1. issues + 1 \in Nat /\ \A f \in File : << <<>>, f>> \in Entry
        BY <3>0 DEF Entry
      <3>2. DOMAIN Issued(p) \subseteq Entry
        BY <1>0, <3>1 DEF Issued, IsTree
      <3>3. \A e \in DOMAIN Issued(p) : Issued(p)[e] \in Content
        BY <1>0, <3>1 DEF Issued, IsTree, Content
      <3> QED
        BY <3>2, <3>3 DEF IsTree, Issued
    <2>3. /\ IsTrees(tree') /\ DOMAIN tree' = Path
          /\ \A q \in Path : DOMAIN tree[q] \subseteq DOMAIN tree'[q]
      BY <1>0, <2>1, <2>2, ExceptTrees DEF TypeOK
    <2>4. pc' = "backup" /\ left # {} => cur \in DOMAIN work /\ left \subseteq DOMAIN tree'[cur]
      BY <1>0, <1>18, <2>3 DEF TypeOK, Issue, Idle
    <2>5. pc' \in {"idle", "backup"} /\ UNCHANGED <<siblings, tar, work, tool, run, runs, faults>>
      BY <1>18 DEF Issue, Idle
    <2>6. issues' \in Nat /\ there' \subseteq Path
      BY <1>0, <1>18, <2>1 DEF TypeOK, Issue
    <2> QED
      BY <1>0, <2>3, <2>4, <2>5, <2>6 DEF TypeOK
  <1>19. CASE Loosen
    <2> DEFINE open(p) == [e \in DOMAIN tar[p] |-> [tar[p][e] EXCEPT !.open = TRUE]]
    <2>1. ASSUME NEW p \in DOMAIN tar
          PROVE  IsTree(open(p)) /\ DOMAIN open(p) = DOMAIN tar[p]
      BY <1>0, <2>1 DEF IsTree, Content
    <2>2. tar' = [p \in DOMAIN tar |-> open(p)]
      BY <1>19 DEF Loosen
    <2>3. IsTrees(tar') /\ DOMAIN tar' = DOMAIN tar
      BY <2>1, <2>2 DEF IsTrees
    <2> QED
      BY <1>0, <1>19, <2>3 DEF TypeOK, Loosen, Idle
  <1>20. CASE UNCHANGED vars
    BY <1>20 DEF IInv, TypeOK, vars
  <1> QED
    BY <1>1, <1>2, <1>3, <1>4, <1>5, <1>6, <1>7, <1>8, <1>9, <1>10, <1>11, <1>12, <1>13, <1>14, <1>15, <1>16, <1>17, <1>18, <1>19, <1>20 DEF Next

LEMMA PlacesStep == IInv /\ [Next]_vars => Places'
  <1> SUFFICES ASSUME IInv, [Next]_vars PROVE Places'
    OBVIOUS
  <1> USE CertAssumption DEF disk, tool, run, bounds
  <1>0. /\ TypeOK /\ Places /\ Ahead
        /\ DOMAIN tree = Path /\ \A p \in Path : IsTree(tree[p])
        /\ \A p \in DOMAIN tar : IsTree(tar[p])
        /\ \A p \in DOMAIN work : IsTree(work[p])
    BY DEF IInv, TypeOK, IsTrees
  <1>1. CASE BeginBackup
    BY <1>0, <1>1, NoTree DEF TypeOK, Places, Ahead, Upto, Under, Restoring, Idle, Aside, BeginBackup, Take, Cut, Put
  <1>2. CASE OpenPath
    BY <1>0, <1>2, NoTree DEF TypeOK, Places, Ahead, Upto, Under, Restoring, Idle, Aside, OpenPath, Take, Cut, Put
  <1>3. CASE CopyEntry
    BY <1>0, <1>3, NoTree DEF TypeOK, Places, Ahead, Upto, Under, Restoring, Idle, Aside, CopyEntry, Take, Cut, Put
  <1>4. CASE WriteTar
    BY <1>0, <1>4, NoTree DEF TypeOK, Places, Ahead, Upto, Under, Restoring, Idle, Aside, WriteTar, Take, Cut, Put
  <1>5. CASE BeginRestore
    BY <1>0, <1>5, NoTree DEF TypeOK, Places, Ahead, Upto, Under, Restoring, Idle, Aside, BeginRestore, Take, Cut, Put
  <1>6. CASE Skip
    BY <1>0, <1>6, NoTree DEF TypeOK, Places, Ahead, Upto, Under, Restoring, Idle, Aside, Skip, Take, Cut, Put
  <1>7. CASE Fresh
    BY <1>0, <1>7, NoTree DEF TypeOK, Places, Ahead, Upto, Under, Restoring, Idle, Aside, Fresh, Take, Cut, Put
  <1>8. CASE RenameAside
    BY <1>0, <1>8, NoTree DEF TypeOK, Places, Ahead, Upto, Under, Restoring, Idle, Aside, RenameAside, Take, Cut, Put
  <1>9. CASE BeginMove
    BY <1>0, <1>9, NoTree DEF TypeOK, Places, Ahead, Upto, Under, Restoring, Idle, Aside, BeginMove, Take, Cut, Put
  <1>10. CASE MoveChild
    <2>1. PICK e \in DOMAIN tree[cur] :
             ~ Aside(e) /\ tree' = [tree EXCEPT ![cur] = Moved(tree[cur], Child(tree[cur], e))]
      BY <1>10 DEF MoveChild
    <2> DEFINE C == Child(tree[cur], e)
    <2>2. /\ C \subseteq DOMAIN tree[cur] /\ e \in C /\ \A d \in C : ~ Aside(d)
          /\ DOMAIN Moved(tree[cur], C) = (DOMAIN tree[cur] \ C) \cup {Into(d) : d \in C}
      BY <1>0, <1>10, <2>1, ChildIsInPlace, MovedKeeps DEF TypeOK, Ahead, MoveChild
    <2>3. /\ cur \in Path /\ DOMAIN tree' = Path
          /\ DOMAIN tree'[cur] = (DOMAIN tree[cur] \ C) \cup {Into(d) : d \in C}
          /\ \A p \in Path \ {cur} : tree'[p] = tree[p]
      BY <1>0, <2>1, <2>2 DEF TypeOK
    <2>4. \A d \in C : /\ Into(d)[1] # <<>> /\ Head(Into(d)[1]) = stamp /\ OutOf(Into(d)) = d
                       /\ d \in Entry
      BY <1>0, <2>2, IntoOut DEF TypeOK, IsTree
    <2>5. \A d \in DOMAIN tree'[cur] : Upto(d)
      BY <1>0, <2>3, <2>4 DEF TypeOK, Places, Upto
    <2>6. DOMAIN tree'[cur] # {} => cur \in there
      BY <1>0, <2>1, <2>3 DEF Places
    <2> QED
      BY <1>0, <1>10, <2>3, <2>5, <2>6 DEF Places, MoveChild, Upto
  <1>11. CASE MovedAll
    BY <1>0, <1>11, NoTree DEF TypeOK, Places, Ahead, Upto, Under, Restoring, Idle, Aside, MovedAll, Take, Cut, Put
  <1>12. CASE MakeDir
    BY <1>0, <1>12, NoTree DEF TypeOK, Places, Ahead, Upto, Under, Restoring, Idle, Aside, MakeDir, Take, Cut, Put
  <1>13. CASE LayEntry
    BY <1>0, <1>13, NoTree DEF TypeOK, Places, Ahead, Upto, Under, Restoring, Idle, Aside, LayEntry, Take, Cut, Put
  <1>14. CASE LayFails
    BY <1>0, <1>14, NoTree DEF TypeOK, Places, Ahead, Upto, Under, Restoring, Idle, Aside, LayFails, Take, Cut, Put
  <1>15. CASE LaidDown
    BY <1>0, <1>15, NoTree DEF TypeOK, Places, Ahead, Upto, Under, Restoring, Idle, Aside, LaidDown, Take, Cut, Put
  <1>16. CASE Reassert
    BY <1>0, <1>16, NoTree DEF TypeOK, Places, Ahead, Upto, Under, Restoring, Idle, Aside, Reassert, Take, Cut, Put
  <1>17. CASE Crash
    <2>1. UNCHANGED tree \/ (pc = "lay" /\ \E e \in left : Cut(e))
      BY <1>17 DEF Crash
    <2>2. CASE UNCHANGED tree
      BY <1>0, <1>17, <2>2 DEF Crash, Places, Upto
    <2>3. ASSUME pc = "lay", NEW e \in left, Cut(e)
          PROVE  Places'
      <3>1. cur \in there /\ cur \in Path /\ Upto(e)
        BY <1>0, <2>3 DEF TypeOK, Ahead, Restoring, Under, Upto
      <3>2. /\ \A q \in Path \ {cur} : tree'[q] = tree[q]
            /\ DOMAIN tree'[cur] = DOMAIN tree[cur] \cup {e}
        BY <1>0, <2>3, <3>1 DEF Cut, Put
      <3> QED
        BY <1>0, <1>17, <3>1, <3>2 DEF Crash, Places, Upto
    <2> QED
      BY <2>1, <2>2, <2>3
  <1>18. CASE Issue
    BY <1>0, <1>18, NoTree DEF TypeOK, Places, Ahead, Upto, Under, Restoring, Idle, Aside, Issue, Take, Cut, Put
  <1>19. CASE Loosen
    BY <1>0, <1>19, NoTree DEF TypeOK, Places, Ahead, Upto, Under, Restoring, Idle, Aside, Loosen, Take, Cut, Put
  <1>20. CASE UNCHANGED vars
    BY <1>0, <1>20 DEF Places, Ahead, Upto, Under, Restoring, Idle, Aside, vars
  <1> QED
    BY <1>1, <1>2, <1>3, <1>4, <1>5, <1>6, <1>7, <1>8, <1>9, <1>10, <1>11, <1>12, <1>13, <1>14, <1>15, <1>16, <1>17, <1>18, <1>19, <1>20 DEF Next


LEMMA AheadStep == IInv /\ [Next]_vars => Ahead'
  <1> SUFFICES ASSUME IInv, [Next]_vars PROVE Ahead'
    OBVIOUS
  <1> USE CertAssumption DEF disk, tool, run, bounds
  <1>0. /\ TypeOK /\ Places /\ Ahead
        /\ DOMAIN tree = Path /\ \A p \in Path : IsTree(tree[p])
        /\ \A p \in DOMAIN tar : IsTree(tar[p])
        /\ \A p \in DOMAIN work : IsTree(work[p])
    BY DEF IInv, TypeOK, IsTrees
  <1>1. CASE BeginBackup
    BY <1>0, <1>1, NoTree DEF TypeOK, Places, Ahead, Upto, Under, Restoring, Idle, Aside, Existing, BeginBackup, Take, Cut, Put
  <1>2. CASE OpenPath
    BY <1>0, <1>2, NoTree DEF TypeOK, Places, Ahead, Upto, Under, Restoring, Idle, Aside, Existing, OpenPath, Take, Cut, Put
  <1>3. CASE CopyEntry
    BY <1>0, <1>3, NoTree DEF TypeOK, Places, Ahead, Upto, Under, Restoring, Idle, Aside, Existing, CopyEntry, Take, Cut, Put
  <1>4. CASE WriteTar
    BY <1>0, <1>4, NoTree DEF TypeOK, Places, Ahead, Upto, Under, Restoring, Idle, Aside, Existing, WriteTar, Take, Cut, Put
  <1>5. CASE BeginRestore
    BY <1>0, <1>5, NoTree DEF TypeOK, Places, Ahead, Upto, Under, Restoring, Idle, Aside, Existing, BeginRestore, Take, Cut, Put
  <1>6. CASE Skip
    BY <1>0, <1>6, NoTree DEF TypeOK, Places, Ahead, Upto, Under, Restoring, Idle, Aside, Existing, Skip, Take, Cut, Put
  <1>7. CASE Fresh
    BY <1>0, <1>7, NoTree DEF TypeOK, Places, Ahead, Upto, Under, Restoring, Idle, Aside, Existing, Fresh, Take, Cut, Put
  <1>8. CASE RenameAside
    BY <1>0, <1>8, NoTree DEF TypeOK, Places, Ahead, Upto, Under, Restoring, Idle, Aside, Existing, RenameAside, Take, Cut, Put
  <1>9. CASE BeginMove
    BY <1>0, <1>9, NoTree DEF TypeOK, Places, Ahead, Upto, Under, Restoring, Idle, Aside, Existing, BeginMove, Take, Cut, Put
  <1>10. CASE MoveChild
    <2>1. PICK e \in DOMAIN tree[cur] :
             ~ Aside(e) /\ tree' = [tree EXCEPT ![cur] = Moved(tree[cur], Child(tree[cur], e))]
      BY <1>10 DEF MoveChild
    <2> DEFINE C == Child(tree[cur], e)
    <2>2. /\ C \subseteq DOMAIN tree[cur] /\ e \in C /\ \A d \in C : ~ Aside(d)
          /\ DOMAIN Moved(tree[cur], C) = (DOMAIN tree[cur] \ C) \cup {Into(d) : d \in C}
      BY <1>0, <1>10, <2>1, ChildIsInPlace, MovedKeeps DEF TypeOK, Ahead, MoveChild
    <2>3. /\ cur \in Path /\ DOMAIN tree' = Path
          /\ DOMAIN tree'[cur] = (DOMAIN tree[cur] \ C) \cup {Into(d) : d \in C}
          /\ \A p \in Path \ {cur} : tree'[p] = tree[p]
      BY <1>0, <2>1, <2>2 DEF TypeOK
    <2>4. \A d \in C : /\ Into(d)[1] # <<>> /\ Head(Into(d)[1]) = stamp /\ OutOf(Into(d)) = d
                       /\ d \in Entry
      BY <1>0, <2>2, IntoOut DEF TypeOK, IsTree
    <2>5. pc' = "move" /\ cur' = cur /\ stamp' = stamp /\ todo' = todo /\ siblings' = siblings
          /\ tar' = tar /\ Restoring
      BY <1>10 DEF MoveChild, Restoring
    <2>6. \A d \in DOMAIN tree'[cur] :
             Aside(d) => OutOf(d) \notin DOMAIN tree'[cur] \/ Aside(OutOf(d))
      BY <1>0, <1>10, <2>2, <2>3, <2>4 DEF Ahead, MoveChild, Aside
    <2>7. cur \notin todo
      BY <1>0, <1>10 DEF Ahead, MoveChild
    <2> QED
      BY <1>0, <2>3, <2>5, <2>6, <2>7 DEF TypeOK, Ahead, Under, Aside, Restoring
  <1>11. CASE MovedAll
    BY <1>0, <1>11, NoTree DEF TypeOK, Places, Ahead, Upto, Under, Restoring, Idle, Aside, Existing, MovedAll, Take, Cut, Put
  <1>12. CASE MakeDir
    BY <1>0, <1>12, NoTree DEF TypeOK, Places, Ahead, Upto, Under, Restoring, Idle, Aside, Existing, MakeDir, Take, Cut, Put
  <1>13. CASE LayEntry
    <2>1. PICK e \in left : /\ left' = left \ {e}
                            /\ \A q \in Path \ {cur} : tree'[q] = tree[q]
                            /\ DOMAIN tree'[cur] \subseteq DOMAIN tree[cur] \cup {e}
      BY <1>0, <1>13 DEF TypeOK, LayEntry, Put
    <2>2. cur \in there /\ cur \notin todo /\ \A d \in left : d \notin DOMAIN tree[cur]
      BY <1>0, <1>13 DEF Ahead, LayEntry
    <2> QED
      BY <1>0, <1>13, <2>1, <2>2 DEF TypeOK, Ahead, Under, Restoring, LayEntry
  <1>14. CASE LayFails
    <2>1. PICK e \in left : /\ left' = left \ {e}
                            /\ \A q \in Path \ {cur} : tree'[q] = tree[q]
                            /\ DOMAIN tree'[cur] \subseteq DOMAIN tree[cur] \cup {e}
      BY <1>0, <1>14 DEF TypeOK, LayFails, Cut, Put
    <2>2. cur \in there /\ cur \notin todo /\ \A d \in left : d \notin DOMAIN tree[cur]
      BY <1>0, <1>14 DEF Ahead, LayFails
    <2> QED
      BY <1>0, <1>14, <2>1, <2>2 DEF TypeOK, Ahead, Under, Restoring, LayFails
  <1>15. CASE LaidDown
    BY <1>0, <1>15, NoTree DEF TypeOK, Places, Ahead, Upto, Under, Restoring, Idle, Aside, Existing, LaidDown, Take, Cut, Put
  <1>16. CASE Reassert
    BY <1>0, <1>16, NoTree DEF TypeOK, Places, Ahead, Upto, Under, Restoring, Idle, Aside, Existing, Reassert, Take, Cut, Put
  <1>17. CASE Crash
    BY <1>0, <1>17, NoTree DEF TypeOK, Places, Ahead, Upto, Under, Restoring, Idle, Aside, Existing, Crash, Take, Cut, Put
  <1>18. CASE Issue
    BY <1>0, <1>18, NoTree DEF TypeOK, Places, Ahead, Upto, Under, Restoring, Idle, Aside, Existing, Issue, Take, Cut, Put
  <1>19. CASE Loosen
    BY <1>0, <1>19, NoTree DEF TypeOK, Places, Ahead, Upto, Under, Restoring, Idle, Aside, Existing, Loosen, Take, Cut, Put
  <1>20. CASE UNCHANGED vars
    BY <1>0, <1>20 DEF Places, Ahead, Upto, Under, Restoring, Idle, Aside, Existing, vars
  <1> QED
    BY <1>1, <1>2, <1>3, <1>4, <1>5, <1>6, <1>7, <1>8, <1>9, <1>10, <1>11, <1>12, <1>13, <1>14, <1>15, <1>16, <1>17, <1>18, <1>19, <1>20 DEF Next

-----------------------------------------------------------------------------
(* Nothing is lost *)

\* x is what an entry of t holds, in one piece.
Holds(t, x) == \E e \in DOMAIN t : x = <<e[2], t[e].of>>

\* Writing where nothing is loses nothing.
LEMMA CutLosesNothing ==
    ASSUME IInv, pc = "lay", NEW e \in left, Cut(e) \/ tree' = [tree EXCEPT ![cur] = Put(@, e, tar[cur][e])],
           NEW q \in Path, NEW x, Holds(tree[q], x)
    PROVE  Holds(tree'[q], x)
  <1>1. cur \in Path /\ DOMAIN tree = Path /\ e \notin DOMAIN tree[cur]
    BY DEF IInv, TypeOK, Ahead
  <1>2. \A d \in DOMAIN tree[q] : d \in DOMAIN tree'[q] /\ tree'[q][d] = tree[q][d]
    BY <1>1 DEF Cut, Put
  <1> QED
    BY <1>2 DEF Holds

LEMMA StepLosesNothing ==
    ASSUME IInv, [Next]_vars, issues' = issues, NEW q \in Path
    PROVE  Whole(q) \subseteq Whole(q)'
  <1> USE DEF disk, tool, run, bounds
  <1>0. /\ TypeOK /\ Places /\ Ahead
        /\ DOMAIN tree = Path /\ \A r \in Path : IsTree(tree[r])
    BY DEF IInv, TypeOK, IsTrees
  <1>1. SUFFICES ASSUME NEW x, Holds(tree[q], x) \/ \E s \in DOMAIN siblings[q] : Holds(siblings[q][s], x)
                 PROVE  \/ Holds(tree'[q], x)
                        \/ \E s \in DOMAIN siblings'[q] : Holds(siblings'[q][s], x)
    BY DEF Whole, Holds
  <1>2. CASE UNCHANGED <<tree, siblings>>
    BY <1>1, <1>2
  <1>3. CASE RenameAside
    <2>1. PICK p \in (todo \cap DOMAIN tar) \ Mount :
             /\ pc = "restore" /\ p \in todo
             /\ siblings' = [siblings EXCEPT ![p] = Put(siblings[p], stamp, tree[p])]
             /\ tree' = [tree EXCEPT ![p] = Empty]
      BY <1>3 DEF RenameAside, Take
    <2>2. p \in Path /\ stamp \notin DOMAIN siblings[p] /\ DOMAIN siblings = Path
      BY <1>0, <2>1 DEF TypeOK, Ahead, Restoring
    <2>3. CASE q = p
      <3>1. siblings'[q] = Put(siblings[q], stamp, tree[q])
        BY <2>1, <2>2, <2>3
      <3>2. /\ stamp \in DOMAIN siblings'[q] /\ siblings'[q][stamp] = tree[q]
            /\ \A s \in DOMAIN siblings[q] :
                  s \in DOMAIN siblings'[q] /\ siblings'[q][s] = siblings[q][s]
        BY <2>2, <2>3, <3>1 DEF Put
      <3> QED
        BY <1>1, <3>2
    <2>4. CASE q # p
      BY <1>0, <1>1, <2>1, <2>2, <2>4
    <2> QED
      BY <2>3, <2>4
  <1>4. CASE MoveChild
    <2>1. PICK e \in DOMAIN tree[cur] :
             ~ Aside(e) /\ tree' = [tree EXCEPT ![cur] = Moved(tree[cur], Child(tree[cur], e))]
      BY <1>4 DEF MoveChild
    <2> DEFINE C == Child(tree[cur], e)
    <2>2. /\ C \subseteq DOMAIN tree[cur]
          /\ DOMAIN Moved(tree[cur], C) = (DOMAIN tree[cur] \ C) \cup {Into(d) : d \in C}
          /\ \A d \in DOMAIN tree[cur] \ C : Moved(tree[cur], C)[d] = tree[cur][d]
          /\ \A d \in C : Moved(tree[cur], C)[Into(d)] = tree[cur][d]
      <3>1. /\ IsTree(tree[cur]) /\ stamp \in Nat
            /\ \A d \in DOMAIN tree[cur] :
                  Aside(d) => OutOf(d) \notin DOMAIN tree[cur] \/ Aside(OutOf(d))
        BY <1>0, <1>4 DEF TypeOK, Ahead, MoveChild
      <3>2. C \in SUBSET DOMAIN tree[cur] /\ \A d \in C : ~ Aside(d)
        BY <2>1, ChildIsInPlace
      <3> QED
        BY <3>1, <3>2, MovedKeeps
    <2>3. \A d \in C : Into(d)[2] = d[2]
      BY DEF Into
    <2>4. ASSUME NEW y, Holds(tree[cur], y) PROVE Holds(Moved(tree[cur], C), y)
      BY <2>2, <2>3, <2>4 DEF Holds
    <2>5. UNCHANGED siblings
      BY <1>4 DEF MoveChild
    <2> QED
      BY <1>0, <1>1, <2>1, <2>4, <2>5 DEF TypeOK
  <1>5. ASSUME LayEntry \/ LayFails \/ Crash
        PROVE  \/ Holds(tree'[q], x)
               \/ \E s \in DOMAIN siblings'[q] : Holds(siblings'[q][s], x)
    <2>1. \/ UNCHANGED tree
          \/ pc = "lay" /\ \E e \in left :
                Cut(e) \/ tree' = [tree EXCEPT ![cur] = Put(@, e, tar[cur][e])]
      BY <1>5 DEF LayEntry, LayFails, Crash
    <2>2. UNCHANGED siblings
      BY <1>5 DEF LayEntry, LayFails, Crash
    <2> QED
      BY <1>1, <2>1, <2>2, CutLosesNothing
  <1>6. CASE Reassert
    <2>1. ASSUME NEW r \in Path
          PROVE  /\ DOMAIN tree'[r] = DOMAIN tree[r]
                 /\ \A d \in DOMAIN tree[r] : tree'[r][d].of = tree[r][d].of
      <3>1. \A d \in DOMAIN tree[r] : tree[r][d] \in [of : Nat, open : BOOLEAN]
        BY <1>0 DEF IsTree, Content
      <3> QED
        BY <1>0, <1>6, <3>1 DEF Reassert
    <2>2. UNCHANGED siblings
      BY <1>6 DEF Reassert
    <2> QED
      BY <1>1, <2>1, <2>2 DEF Holds
  <1>7. CASE Issue
    BY <1>0, <1>7 DEF Issue, TypeOK
  <1> QED
    BY <1>2, <1>3, <1>4, <1>5, <1>6, <1>7 DEF Next, vars, BeginBackup, OpenPath, CopyEntry,
       WriteTar, BeginRestore, Skip, Fresh, BeginMove, MovedAll, MakeDir, LaidDown, Loosen

-----------------------------------------------------------------------------
(* Theorems *)

LEMMA IInvAlways == Spec => []IInv
  <1>1. IInv /\ [Next]_vars => IInv'
    BY TypeStep, PlacesStep, AheadStep DEF IInv
  <1> QED
    BY Initially, <1>1, PTL DEF Spec

\* The types, and what a running backup or restore works on is there.
THEOREM CertBackupTypeCorrect == Spec => []TypeOK
  BY IInvAlways, PTL DEF IInv

\* Whatever is restored over whatever, and wherever a restore dies, the last
\* copy of no certificate or key leaves the host: cert_backup.py:53-85, 243-254.
THEOREM CertificatesAreKept == Spec => NothingLost
  <1>1. IInv /\ [Next]_vars =>
           [issues' = issues => \A p \in Path : Whole(p) \subseteq Whole(p)']_vars
    BY StepLosesNothing
  <1> QED
    BY IInvAlways, <1>1, PTL DEF NothingLost, Spec

\* A restore that ended well leaves no key below the TLS path readable, for as
\* long as nothing else is done: cert_backup.py:279-301.
THEOREM KeysStayPrivate == Spec => []KeysPrivate
  <1>1. Init => KeysPrivate
    BY DEF Init, KeysPrivate
  <1>2. ASSUME IInv, KeysPrivate, [Next]_vars
        PROVE  KeysPrivate'
    <2>1. CASE Reassert
      <3>1. /\ Tls \in DOMAIN tree
            /\ \A e \in DOMAIN tree[Tls] : tree[Tls][e] \in [of : Nat, open : BOOLEAN]
        <4>1. Tls \in DOMAIN tree /\ IsTree(tree[Tls])
          BY <1>2, CertAssumption DEF IInv, TypeOK, IsTrees
        <4> QED
          BY <4>1 DEF IsTree, Content
      <3>2. tree' = [tree EXCEPT ![Tls] = [e \in DOMAIN tree[Tls] |->
                                              [tree[Tls][e] EXCEPT !.open = e[2] \notin Keys]]]
        BY <2>1 DEF Reassert
      <3> QED
        BY <3>1, <3>2 DEF KeysPrivate
    <2>2. CASE UNCHANGED <<pc, tree>>
      BY <1>2, <2>2 DEF KeysPrivate
    <2>3. CASE pc' # "done"
      BY <2>3 DEF KeysPrivate
    <2> QED
      BY <1>2, <2>1, <2>2, <2>3 DEF Next, vars, disk, tool, run, bounds, Idle, BeginBackup,
         OpenPath, CopyEntry, WriteTar, BeginRestore, Skip, Fresh, RenameAside, BeginMove,
         MoveChild, MovedAll, MakeDir, LayEntry, LayFails, LaidDown, Crash, Issue, Loosen
  <1> QED
    BY IInvAlways, <1>1, <1>2, PTL DEF Spec

-----------------------------------------------------------------------------
(* What a restore does *)

Working == pc \in {"move", "mkdir", "lay"}

\* What is in place is the backup, and what was there is aside.
Replaced(p) ==
    /\ \A e \in DOMAIN tree[p] :
          ~ Aside(e) => e \in DOMAIN tar[p] /\ tree[p][e].of = tar[p][e].of
    /\ \A e \in DOMAIN tar[p] : e \in DOMAIN tree[p] /\ ~ Aside(e)
    /\ MovedAside(p) = before[p]

AsBefore(p) ==
    /\ DOMAIN tree[p] = DOMAIN before[p]
    /\ \A e \in DOMAIN before[p] : tree[p][e].of = before[p][e].of

\* Each path is as it was found, or in work, or restored.
Stages ==
    Restoring \/ pc = "done" =>
        /\ restored \subseteq DOMAIN tar /\ restored \cap todo = {}
        /\ Working => cur \notin restored
        /\ \A p \in restored : Replaced(p)
        /\ \A p \in Path \ restored : \/ Working /\ p = cur
                                      \/ Restoring /\ tree[p] = before[p]
                                      \/ pc = "done" /\ AsBefore(p)
        /\ force => \A p \in DOMAIN tar : p \in todo \/ p \in restored \/ (Working /\ p = cur)
        /\ pc = "done" => todo = {}

\* The path in work: what has moved and what has not are what was found.
Current ==
    /\ pc = "move" =>
          /\ \A e \in DOMAIN tree[cur] :
                 IF Aside(e) THEN OutOf(e) \in DOMAIN before[cur]
                 ELSE e \in DOMAIN before[cur] /\ tree[cur][e] = before[cur][e]
          /\ \A e \in DOMAIN before[cur] :
                 \/ e \in DOMAIN tree[cur] /\ ~ Aside(e)
                 \/ Into(e) \in DOMAIN tree[cur] /\ tree[cur][Into(e)] = before[cur][e]
          /\ cur \in Mount
    /\ pc \in {"mkdir", "lay"} => MovedAside(cur) = before[cur]
    /\ pc = "lay" /\ ~ failed =>
          /\ \A e \in DOMAIN tree[cur] :
                 ~ Aside(e) => e \in DOMAIN tar[cur] \ left /\ tree[cur][e].of = tar[cur][e].of
          /\ \A e \in DOMAIN tar[cur] \ left : e \in DOMAIN tree[cur]

LEMMA OutInto ==
    ASSUME NEW e \in Entry, stamp \in Nat, Aside(e)
    PROVE  Into(OutOf(e)) = e /\ OutOf(e) \in Entry
  <1> DEFINE l == e[1]
             m == <<stamp>> \o Tail(l)
  <1>1. l \in Seq(Nat) /\ e[2] \in File /\ e = <<l, e[2]>> /\ l # <<>> /\ Head(l) = stamp
    BY DEF Entry, Aside
  <1>2. Tail(l) \in Seq(Nat) /\ Len(l) = Len(Tail(l)) + 1 /\ l[1] = stamp
    BY <1>1
  <1>3. m \in Seq(Nat) /\ Len(m) = Len(l)
    BY <1>2
  <1>4. \A i \in 1 .. Len(l) : m[i] = l[i]
    BY <1>1, <1>2
  <1>5. m = l
    BY <1>1, <1>3, <1>4, SeqEqual
  <1> QED
    BY <1>1, <1>2, <1>5 DEF Entry, Into, OutOf

\* A path that a step does not touch.
LEMMA Untouched ==
    ASSUME NEW p, tree'[p] = tree[p], siblings'[p] = siblings[p], tar'[p] = tar[p],
           stamp' = stamp, before' = before
    PROVE  /\ MovedAside(p)' = MovedAside(p)
           /\ Replaced(p)' <=> Replaced(p)
           /\ AsBefore(p)' <=> AsBefore(p)
  <1>1. MovedAside(p)' = MovedAside(p)
    BY DEF MovedAside, Aside, Into, OutOf
  <1> QED
    BY <1>1 DEF Replaced, AsBefore, Aside

LEMMA NothingAside ==
    ASSUME NEW t, IsTree(t), DOMAIN t = {}
    PROVE  t = Empty
  BY DEF IsTree, Empty

\* What is laid down does not touch what was moved aside.
LEMMA LaidBesides ==
    ASSUME IInv, pc = "lay", NEW e \in left, NEW c, stamp' = stamp, cur' = cur,
           tree' = [tree EXCEPT ![cur] = Put(@, e, c)], siblings' = siblings
    PROVE  MovedAside(cur)' = MovedAside(cur) /\ ~ Aside(e)
  <1>0. /\ cur \in Path /\ DOMAIN tree = Path /\ stamp \in Nat
        /\ DOMAIN tree[cur] \subseteq Entry
    BY DEF IInv, TypeOK, IsTrees, IsTree
  <1>1. ~ Aside(e)
    BY DEF IInv, TypeOK, Ahead, Restoring, Under, Aside
  <1>2. tree'[cur] = Put(tree[cur], e, c)
    BY <1>0
  <1> DEFINE A == {d \in DOMAIN tree[cur] : Aside(d)}
             B == {d \in DOMAIN tree'[cur] : Aside(d)}
  <1>3. A = B
    BY <1>1, <1>2 DEF Put
  <1>4. \A d \in A : Into(OutOf(d)) = d
    BY <1>0, OutInto
  <1>5. \A d \in A : tree'[cur][d] = tree[cur][d]
    BY <1>1, <1>2 DEF Put
  <1>6. [x \in {OutOf(d) : d \in A} |-> tree[cur][Into(x)]]
           = [x \in {OutOf(d) : d \in B} |-> tree'[cur][Into(x)]]
    BY <1>3, <1>4, <1>5
  <1> QED
    BY <1>1, <1>6 DEF MovedAside, Aside, Into, OutOf

\* Steps after which no restore is running and none has ended well.
LEMMA Otherwise ==
    ASSUME pc' \in {"idle", "backup"}
    PROVE  Stages' /\ Current'
  BY DEF Stages, Current, Restoring, Working

LEMMA RunStep ==
    ASSUME IInv, Stages, Current, [Next]_vars
    PROVE  Stages' /\ Current'
  <1> USE CertAssumption DEF disk, tool, run, bounds
  <1>0. /\ TypeOK /\ Places /\ Ahead
        /\ DOMAIN tree = Path /\ \A p \in Path : IsTree(tree[p])
        /\ \A p \in Path : IsTree(before[p])
        /\ cur \in Path /\ stamp \in Nat
    BY DEF IInv, TypeOK, IsTrees
  <1>1. CASE BeginBackup \/ OpenPath \/ CopyEntry \/ WriteTar \/ Crash \/ Issue
    BY <1>1, Otherwise DEF BeginBackup, OpenPath, CopyEntry, WriteTar, Crash, Issue, Idle
  <1>2. CASE BeginRestore
    BY <1>0, <1>2 DEF BeginRestore, Stages, Current, Restoring, Working, TypeOK
  <1>3. ASSUME NEW p \in Path, tree'[p] = tree[p], UNCHANGED <<siblings, tar, stamp, before>>
        PROVE  /\ MovedAside(p)' = MovedAside(p)
               /\ Replaced(p)' <=> Replaced(p)
               /\ AsBefore(p)' <=> AsBefore(p)
    BY <1>3, Untouched
  <1>4. CASE Skip
    <2>1. UNCHANGED <<tree, siblings, tar, stamp, before, restored, force, pc, cur>> /\ pc = "restore"
      BY <1>4 DEF Skip, Take
    <2>2. PICK p \in todo : todo' = todo \ {p} /\ (p \notin DOMAIN tar \/ ~ force)
      BY <1>4 DEF Skip, Take
    <2> QED
      BY <1>0, <1>3, <2>1, <2>2 DEF Stages, Current, Restoring, Working, TypeOK
  <1>5. CASE Fresh
    <2>1. UNCHANGED <<tree, siblings, tar, stamp, before, restored, force>> /\ pc = "restore"
          /\ pc' = "mkdir"
      BY <1>5 DEF Fresh, Take
    <2>2. PICK p \in todo \cap DOMAIN tar : todo' = todo \ {p} /\ cur' = p /\ ~ Existing(p)
      BY <1>5 DEF Fresh, Take
    <2>3. p \in Path /\ DOMAIN tree[p] = {} /\ stamp \notin DOMAIN siblings[p]
      BY <1>0, <2>1, <2>2 DEF TypeOK, Places, Ahead, Restoring, Existing
    <2>4. tree[p] = before[p] /\ p \notin restored /\ tree[p] = Empty
      BY <1>0, <2>1, <2>2, <2>3, NothingAside DEF Stages, Restoring, Working
    <2>5. MovedAside(p) = Empty
      BY <2>3 DEF MovedAside, Empty
    <2> QED
      BY <1>0, <1>3, <2>1, <2>2, <2>3, <2>4, <2>5 DEF Stages, Current, Restoring, Working, TypeOK
  <1>6. CASE BeginMove
    <2>1. UNCHANGED <<tree, siblings, tar, stamp, before, restored, force>> /\ pc = "restore"
          /\ pc' = "move"
      BY <1>6 DEF BeginMove, Take
    <2>2. PICK p \in todo \cap DOMAIN tar \cap Mount : todo' = todo \ {p} /\ cur' = p
      BY <1>6 DEF BeginMove, Take
    <2>3. tree[p] = before[p] /\ p \in Path /\ p \notin restored
          /\ \A e \in DOMAIN tree[p] : ~ Aside(e)
      BY <1>0, <2>1, <2>2 DEF Stages, Restoring, Working, TypeOK, Ahead, Under, Aside
    <2>4. Stages'
      BY <1>0, <1>3, <2>1, <2>2, <2>3 DEF Stages, Restoring, Working, TypeOK
    <2>5. Current'
      BY <2>1, <2>2, <2>3 DEF Current, Aside
    <2> QED
      BY <2>4, <2>5
  <1>7. CASE MovedAll
    <2>1. UNCHANGED <<tree, siblings, tar, stamp, before, restored, force, todo, cur>> /\ pc = "move"
          /\ pc' = "mkdir" /\ \A e \in DOMAIN tree[cur] : Aside(e)
      BY <1>7 DEF MovedAll
    <2>2. MovedAside(cur) = before[cur]
      <3> DEFINE D == {OutOf(d) : d \in {d \in DOMAIN tree[cur] : Aside(d)}}
      <3>1. cur \in Mount /\ MovedAside(cur) = [e \in D |-> tree[cur][Into(e)]]
        BY <2>1 DEF Current, MovedAside
      <3>2. D \subseteq DOMAIN before[cur]
        BY <2>1 DEF Current
      <3>3. \A e \in DOMAIN before[cur] :
               Into(e) \in DOMAIN tree[cur] /\ tree[cur][Into(e)] = before[cur][e] /\ OutOf(Into(e)) = e
        BY <1>0, <2>1, IntoOut DEF Current, IsTree
      <3>4. DOMAIN before[cur] \subseteq D
        BY <2>1, <3>3
      <3>5. before[cur] = [e \in DOMAIN before[cur] |-> before[cur][e]]
        BY <1>0 DEF IsTree
      <3> QED
        BY <3>1, <3>2, <3>3, <3>4, <3>5
    <2> QED
      BY <1>0, <1>3, <2>1, <2>2 DEF Stages, Current, Restoring, Working, TypeOK
  <1>8. CASE MakeDir
    <2>1. UNCHANGED <<tree, siblings, tar, stamp, before, restored, force, todo, cur>> /\ pc = "mkdir"
          /\ pc' = "lay" /\ left' = DOMAIN tar[cur]
      BY <1>8 DEF MakeDir
    <2>2. \A e \in DOMAIN tree[cur] : Aside(e)
      BY <1>0, <2>1 DEF Ahead
    <2>3. Stages'
      BY <1>0, <1>3, <2>1 DEF Stages, Restoring, Working, TypeOK
    <2>4. Current'
      BY <1>0, <1>3, <2>1, <2>2 DEF Current, Aside
    <2> QED
      BY <2>3, <2>4
  <1>9. CASE LaidDown
    <2>1. UNCHANGED <<tree, siblings, tar, stamp, before, force, todo, cur>> /\ pc = "lay" /\ left = {}
      BY <1>9 DEF LaidDown
    <2>2. CASE failed
      BY <1>9, <2>2, Otherwise DEF LaidDown
    <2>3. CASE ~ failed
      <3>1. pc' = "restore" /\ restored' = restored \cup {cur}
        BY <1>9, <2>3 DEF LaidDown
      <3>2. Replaced(cur)
        BY <1>0, <2>1, <2>3 DEF Current, Replaced, Ahead, Restoring, Under, Aside, TypeOK
      <3>3. cur \in DOMAIN tar /\ cur \notin todo
        BY <1>0, <2>1 DEF TypeOK, Ahead
      <3>4. Stages'
        BY <1>0, <1>3, <2>1, <3>1, <3>2, <3>3 DEF Stages, Restoring, Working, TypeOK
      <3> QED
        BY <3>1, <3>4 DEF Current
    <2> QED
      BY <1>0, <2>2, <2>3 DEF TypeOK
  <1>10. CASE Loosen
    <2>1. UNCHANGED <<tree, siblings, stamp, before, restored, force, todo, cur, pc>> /\ Idle
      BY <1>10 DEF Loosen
    <2>2. DOMAIN tar' = DOMAIN tar
          /\ \A p \in DOMAIN tar : /\ DOMAIN tar'[p] = DOMAIN tar[p]
                                   /\ \A e \in DOMAIN tar[p] : tar'[p][e].of = tar[p][e].of
      BY <1>0, <1>10 DEF Loosen, TypeOK, IsTrees, IsTree, Content
    <2>3. \A p \in Path : MovedAside(p)' = MovedAside(p) /\ (AsBefore(p)' <=> AsBefore(p))
      BY <2>1 DEF MovedAside, AsBefore, Aside, Into, OutOf
    <2>4. \A p \in DOMAIN tar : Replaced(p) => Replaced(p)'
      BY <1>0, <2>1, <2>2, <2>3 DEF Replaced, Aside, TypeOK
    <2> QED
      BY <1>0, <2>1, <2>2, <2>3, <2>4 DEF Stages, Current, Restoring, Working, Idle
  <1>11. CASE RenameAside
    <2>1. UNCHANGED <<tar, stamp, before, restored, force>> /\ pc = "restore" /\ pc' = "mkdir"
      BY <1>11 DEF RenameAside, Take
    <2>2. PICK p \in (todo \cap DOMAIN tar) \ Mount :
             /\ todo' = todo \ {p} /\ cur' = p
             /\ siblings' = [siblings EXCEPT ![p] = Put(siblings[p], stamp, tree[p])]
             /\ tree' = [tree EXCEPT ![p] = Empty]
      BY <1>11 DEF RenameAside, Take
    <2>3. /\ p \in Path /\ DOMAIN siblings = Path /\ tree[p] = before[p] /\ p \notin restored
      BY <1>0, <2>1, <2>2 DEF Stages, Restoring, Working, TypeOK
    <2>4. MovedAside(p)' = before[p]
      BY <2>1, <2>2, <2>3 DEF MovedAside, Put
    <2>5. \A q \in Path \ {p} : tree'[q] = tree[q] /\ siblings'[q] = siblings[q]
      BY <1>0, <2>2, <2>3
    <2>6. \A q \in Path \ {p} : Replaced(q)' <=> Replaced(q)
      BY <2>1, <2>5, Untouched
    <2>7. Stages'
      BY <1>0, <2>1, <2>2, <2>3, <2>5, <2>6 DEF Stages, Restoring, Working, TypeOK
    <2> QED
      BY <2>1, <2>2, <2>4, <2>7 DEF Current
  <1>12. ASSUME /\ Working /\ Working' /\ UNCHANGED <<siblings, tar, stamp, before, restored, force, todo, cur>>
                /\ \A q \in Path \ {cur} : tree'[q] = tree[q]
         PROVE  Stages'
    <2>1. \A q \in Path \ {cur} : Replaced(q)' <=> Replaced(q)
      BY <1>12, Untouched
    <2> QED
      BY <1>0, <1>12, <2>1 DEF Stages, Restoring, Working, TypeOK
  <1>13. CASE MoveChild
    <2>1. PICK e \in DOMAIN tree[cur] :
             ~ Aside(e) /\ tree' = [tree EXCEPT ![cur] = Moved(tree[cur], Child(tree[cur], e))]
      BY <1>13 DEF MoveChild
    <2> DEFINE C == Child(tree[cur], e)
               t == Moved(tree[cur], C)
    <2>2. UNCHANGED <<siblings, tar, stamp, before, restored, force, todo, cur, pc>> /\ pc = "move"
      BY <1>13 DEF MoveChild
    <2>3. tree'[cur] = t /\ \A q \in Path \ {cur} : tree'[q] = tree[q]
      BY <1>0, <2>1
    <2>4. C \in SUBSET DOMAIN tree[cur] /\ \A d \in C : ~ Aside(d)
      BY <2>1, ChildIsInPlace
    <2>5. /\ IsTree(tree[cur])
          /\ \A d \in DOMAIN tree[cur] :
                Aside(d) => OutOf(d) \notin DOMAIN tree[cur] \/ Aside(OutOf(d))
      BY <1>0, <2>2 DEF Ahead
    <2>6. /\ DOMAIN t = (DOMAIN tree[cur] \ C) \cup {Into(d) : d \in C}
          /\ \A d \in DOMAIN tree[cur] \ C : t[d] = tree[cur][d]
          /\ \A d \in C : t[Into(d)] = tree[cur][d]
      BY <1>0, <2>4, <2>5, MovedKeeps
    <2>7. \A d \in C : Aside(Into(d)) /\ OutOf(Into(d)) = d
      BY <1>0, <2>4, <2>5, IntoOut DEF IsTree
    <2>8. \A d \in DOMAIN before[cur] : Into(d) \notin C
      BY <1>0, <2>4, IntoOut DEF IsTree
    <2> HIDE DEF t, C
    <2>9. \A d \in DOMAIN t :
             IF Aside(d) THEN OutOf(d) \in DOMAIN before[cur]
             ELSE d \in DOMAIN before[cur] /\ t[d] = before[cur][d]
      BY <2>2, <2>4, <2>6, <2>7 DEF Current
    <2>10. \A d \in DOMAIN before[cur] :
              (d \in DOMAIN t /\ ~ Aside(d)) \/ (Into(d) \in DOMAIN t /\ t[Into(d)] = before[cur][d])
      BY <2>2, <2>4, <2>6, <2>8 DEF Current
    <2>11. Current'
      BY <2>2, <2>3, <2>9, <2>10 DEF Current, Aside, Into, OutOf
    <2> QED
      BY <1>12, <2>2, <2>3, <2>11 DEF Working
  <1>14. CASE LayEntry
    <2>1. PICK e \in left : tree' = [tree EXCEPT ![cur] = Put(tree[cur], e, tar[cur][e])]
                            /\ left' = left \ {e}
      BY <1>14 DEF LayEntry
    <2>2. UNCHANGED <<siblings, tar, stamp, before, restored, force, todo, cur, pc, failed>> /\ pc = "lay"
      BY <1>14 DEF LayEntry
    <2>3. MovedAside(cur)' = MovedAside(cur) /\ ~ Aside(e)
      BY <2>1, <2>2, LaidBesides
    <2>4. tree'[cur] = Put(tree[cur], e, tar[cur][e]) /\ \A q \in Path \ {cur} : tree'[q] = tree[q]
      BY <1>0, <2>1
    <2>5. left \subseteq DOMAIN tar[cur]
      BY <1>0, <2>2 DEF TypeOK
    <2>6. Current'
      BY <2>1, <2>2, <2>3, <2>4, <2>5 DEF Current, Aside, Put
    <2> QED
      BY <1>12, <2>2, <2>4, <2>6 DEF Working
  <1>15. CASE LayFails
    <2>1. PICK e \in left : UNCHANGED tree \/ Cut(e)
      BY <1>15 DEF LayFails
    <2>2. UNCHANGED <<siblings, tar, stamp, before, restored, force, todo, cur, pc>> /\ pc = "lay" /\ failed'
      BY <1>15 DEF LayFails
    <2>3. MovedAside(cur)' = MovedAside(cur)
      BY <1>0, <1>3, <2>1, <2>2, LaidBesides DEF Cut
    <2>4. \A q \in Path \ {cur} : tree'[q] = tree[q]
      BY <1>0, <2>1 DEF Cut
    <2>5. Current'
      BY <2>2, <2>3 DEF Current
    <2> QED
      BY <1>12, <2>2, <2>4, <2>5 DEF Working
  <1>16. CASE Reassert
    <2>1. UNCHANGED <<siblings, tar, stamp, before, restored, force, todo, cur>> /\ pc = "restore"
          /\ todo = {} /\ pc' = "done"
      BY <1>16 DEF Reassert
    <2>2. ASSUME NEW p \in Path
          PROVE  /\ DOMAIN tree'[p] = DOMAIN tree[p]
                 /\ \A e \in DOMAIN tree[p] : tree'[p][e].of = tree[p][e].of
                 /\ p # Tls => tree'[p] = tree[p]
      <3>1. \A e \in DOMAIN tree[p] : tree[p][e] \in [of : Nat, open : BOOLEAN]
        BY <1>0 DEF IsTree, Content
      <3> QED
        BY <1>0, <1>16, <3>1 DEF Reassert
    <2>3. \A p \in Path : MovedAside(p)' = MovedAside(p)
      BY <2>1, <2>2 DEF MovedAside, Aside, Into, OutOf
    <2>4. \A p \in Path : Replaced(p) => Replaced(p)'
      BY <2>1, <2>2, <2>3 DEF Replaced, Aside
    <2>5. \A p \in Path : tree[p] = before[p] => AsBefore(p)'
      BY <2>1, <2>2 DEF AsBefore
    <2> QED
      BY <1>0, <2>1, <2>4, <2>5 DEF Stages, Current, Restoring, Working, TypeOK
  <1>17. CASE UNCHANGED vars
    <2>1. UNCHANGED <<tree, siblings, tar, stamp, before, restored, force, todo, cur, pc, left, failed>>
      BY <1>17 DEF vars
    <2>2. Stages'
      BY <1>0, <1>3, <2>1 DEF Stages, Restoring, Working, TypeOK
    <2>3. Current'
      BY <1>0, <1>3, <2>1 DEF Current, Aside, Into, OutOf
    <2> QED
      BY <2>2, <2>3
  <1> QED
    BY <1>1, <1>2, <1>4, <1>5, <1>6, <1>7, <1>8, <1>9, <1>10, <1>11, <1>13, <1>14, <1>15, <1>16,
       <1>17 DEF Next

LEMMA RunAlways == Spec => [](IInv /\ Stages /\ Current)
  <1>1. Init => Stages /\ Current
    BY Otherwise DEF Init, Stages, Current, Restoring, Working
  <1>2. IInv /\ Stages /\ Current /\ [Next]_vars => Stages' /\ Current'
    BY RunStep
  <1> QED
    BY IInvAlways, <1>1, <1>2, PTL DEF Spec

\* A restore that ends well has replaced what it restored by the backup, file
\* for file, whatever it found there: cert_backup.py:239-256.
THEOREM RestoresTheBackup == Spec => []RestoredIsBackup
  <1>1. IInv /\ Stages /\ Current => RestoredIsBackup
    <2> SUFFICES ASSUME IInv, Stages, pc = "done" PROVE RestoredIsBackup
      BY DEF RestoredIsBackup
    <2>1. /\ \A p \in restored : Replaced(p)
          /\ force => \A p \in DOMAIN tar : p \in restored
          /\ restored \subseteq DOMAIN tar
      BY DEF Stages, Working
    <2>2. ASSUME NEW p \in restored
          PROVE  Versions(InPlace(tree[p])) = Versions(tar[p])
      <3>1. DOMAIN InPlace(tree[p]) = DOMAIN tar[p]
        BY <2>1 DEF Replaced, InPlace, Restrict
      <3>2. \A e \in DOMAIN tar[p] : InPlace(tree[p])[e].of = tar[p][e].of
        BY <2>1 DEF Replaced, InPlace, Restrict
      <3> QED
        BY <3>1, <3>2 DEF Versions
    <2> QED
      BY <2>1, <2>2 DEF RestoredIsBackup
  <1> QED
    BY RunAlways, <1>1, PTL

\* What it found is aside or in its place, so that the restore can be undone:
\* cert_backup.py:53-85, 243-248.
THEOREM RestoresCanBeUndone == Spec => []CanRollBack
  <1>1. IInv /\ Stages /\ Current => CanRollBack
    <2> SUFFICES ASSUME IInv, Stages, pc = "done" PROVE CanRollBack
      BY DEF CanRollBack
    <2>1. /\ \A p \in restored : Replaced(p)
          /\ \A p \in Path \ restored : AsBefore(p)
      BY DEF Stages, Working, Restoring
    <2>2. \A p \in Path \ restored : Versions(tree[p]) = Versions(before[p])
      BY <2>1 DEF AsBefore, Versions
    <2> QED
      BY <2>1, <2>2 DEF CanRollBack, Replaced
  <1> QED
    BY RunAlways, <1>1, PTL

=============================================================================
