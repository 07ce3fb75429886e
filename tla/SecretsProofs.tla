--------------------------- MODULE SecretsProofs ---------------------------
(***************************************************************************)
(* Proofs about the secrets of a stack, for every manifest and any number  *)
(* of runs, of crashes and of failing calls.                               *)
(***************************************************************************)
EXTENDS SecretsProps, TLAPS

Materializing == {"migrate", "drop", "read", "generate"}

\* What a phase of the run knows of the run's own variables.
Stages ==
    /\ seeding["own"] # "no" => pc = "seed"
    /\ pc = "upload" => \A s \in todo : s \in Supplied /\ file[s] # None
    /\ pc # "upload" => uploaded = {}
    /\ pc = "sweep" => todo \cap Immutable = {}
    /\ pc = "generate" => cur \in Generated
    /\ cur \notin todo
    /\ pc \in {"idle", "seed", "upload", "sweep"} => result = Nothing

-----------------------------------------------------------------------------
(* Types *)

LEMMA TypeInit == Init => TypeOK /\ Stages
  <1> SUFFICES ASSUME Init PROVE TypeOK /\ Stages
    OBVIOUS
  <1>1. Nothing \in [Secret -> MaybeValue]
    BY DEF Nothing, MaybeValue
  <1>2. TypeOK
    <2>1. {MaxValues, MaxRuns, MaxFaults} \subseteq Nat
      BY SecretsAssumption
    <2>2. /\ {now, old, file, stray, result, given, wanted} \subseteq [Secret -> MaybeValue]
          /\ {private, public} \subseteq MaybeValue
      BY <1>1 DEF Init, MaybeValue
    <2>3. values \in 0 .. MaxValues /\ runs \in 0 .. MaxRuns /\ faults \in 0 .. MaxFaults
      BY <2>1 DEF Init
    <2>4. seeding \in [Seeder -> {"no", "key", "pub"}] /\ pair \in [Seeder -> MaybeValue]
      BY DEF Init, MaybeValue
    <2> QED
      BY <2>2, <2>3, <2>4 DEF Init, TypeOK
  <1>3. Stages
    BY DEF Init, Stages, Seeder
  <1> QED
    BY <1>2, <1>3

LEMMA TypeStep == TypeOK /\ Stages /\ [Next]_vars => TypeOK'
  <1> SUFFICES ASSUME TypeOK, Stages, [Next]_vars
               PROVE  TypeOK'
    OBVIOUS
  <1> USE SecretsAssumption
  <1>1. CASE Start
    BY <1>1 DEF Start, vault, disk, work, seeds, history, TypeOK, Stages,
       Nothing, MaybeValue, Value, Supplied, Seeder
  <1>2. CASE Strip
    BY <1>2 DEF Strip, vault, disk, work, seeds, history, TypeOK, Stages,
       Nothing, MaybeValue, Value, Supplied, Seeder
  <1>3. ASSUME NEW s \in Secret, Upload(s)
        PROVE  TypeOK'
    BY <1>3 DEF Upload, Fault, vault, disk, work, seeds, history, TypeOK,
       Stages, Nothing, MaybeValue, Value, Supplied, Seeder
  <1>4. ASSUME NEW s \in Secret, Pick(s)
        PROVE  TypeOK'
    BY <1>4 DEF Pick, vault, disk, work, seeds, history, TypeOK, Stages,
       Nothing, MaybeValue, Value, Supplied, Seeder
  <1>5. CASE Migrate
    BY <1>5 DEF Migrate, ReadOutcome, Fault, Seen, vault, disk, work, seeds, history, TypeOK,
       Stages, Nothing, MaybeValue, Value, Supplied, Seeder
  <1>6. CASE Drop
    BY <1>6 DEF Drop, Fault, vault, disk, work, seeds, history, TypeOK, Stages,
       Nothing, MaybeValue, Value, Supplied, Seeder
  <1>7. CASE Read
    BY <1>7 DEF Read, ReadOutcome, Fault, Finish, Seen, vault, disk, work, seeds, history, TypeOK,
       Stages, Nothing, MaybeValue, Value, Supplied, Seeder
  <1>8. CASE Generate
    BY <1>8 DEF Generate, MakeUp, Fresh, vault, disk, work, seeds, history,
       TypeOK, Stages, Nothing, MaybeValue, Value, Supplied, Seeder
  <1>9. CASE Give
    BY <1>9 DEF Give, Finish, vault, disk, work, seeds, history, TypeOK, Stages,
       Nothing, MaybeValue, Value, Supplied, Seeder
  <1>10. CASE Crash
    BY <1>10 DEF Crash, Fault, Finish, vault, disk, work, seeds, history,
       TypeOK, Stages, Nothing, MaybeValue, Value, Supplied, Seeder
  <1>11. CASE BeginSweep
    BY <1>11 DEF BeginSweep, vault, disk, work, seeds, history, TypeOK, Stages,
       Nothing, MaybeValue, Value, Supplied, Seeder
  <1>12. ASSUME NEW s \in Secret, Sweep(s)
        PROVE  TypeOK'
    BY <1>12 DEF Sweep, Fault, vault, disk, work, seeds, history, TypeOK,
       Stages, Nothing, MaybeValue, Value, Supplied, Seeder
  <1>13. CASE EndSweep
    BY <1>13 DEF EndSweep, Finish, vault, disk, work, seeds, history, TypeOK,
       Stages, Nothing, MaybeValue, Value, Supplied, Seeder
  <1>14. ASSUME NEW i \in Seeder, SeedCheck(i)
        PROVE  TypeOK'
    BY <1>14 DEF SeedCheck, SeedStep, Fault, Seen, vault, disk, work, seeds, history,
       TypeOK, Stages, Nothing, MaybeValue, Value, Supplied, Seeder
  <1>15. ASSUME NEW i \in Seeder, SeedKey(i)
        PROVE  TypeOK'
    BY <1>15 DEF SeedKey, MakeUp, Fresh, SeedStep, vault, disk, work, seeds,
       history, TypeOK, Stages, Nothing, MaybeValue, Value, Supplied, Seeder
  <1>16. ASSUME NEW i \in Seeder, SeedPub(i)
        PROVE  TypeOK'
    BY <1>16 DEF SeedPub, SeedStep, vault, disk, work, seeds, history, TypeOK,
       Stages, Nothing, MaybeValue, Value, Supplied, Seeder
  <1>17. ASSUME NEW i \in Seeder, SeedFails(i)
        PROVE  TypeOK'
    BY <1>17 DEF SeedFails, SeedStep, Fault, vault, disk, work, seeds, history,
       TypeOK, Stages, Nothing, MaybeValue, Value, Supplied, Seeder
  <1>18. ASSUME NEW s \in Secret, Fill(s)
        PROVE  TypeOK'
    BY <1>18 DEF Fill, MakeUp, Fresh, vault, disk, work, seeds, history, TypeOK,
       Stages, Nothing, MaybeValue, Value, Supplied, Seeder
  <1>19. ASSUME NEW s \in Secret, Rename(s)
        PROVE  TypeOK'
    BY <1>19 DEF Rename, vault, disk, work, seeds, history, TypeOK, Stages,
       Nothing, MaybeValue, Value, Supplied, Seeder
  <1>20. CASE UNCHANGED vars
    BY <1>20 DEF vars, vault, disk, work, seeds, history, TypeOK, Stages,
       Nothing, MaybeValue, Value, Supplied, Seeder
  <1>21. CASE StripTorn
    BY <1>21 DEF StripTorn, Fault, Finish, vault, disk, work, seeds,
       history, TypeOK, Stages, Nothing, MaybeValue, Value, Supplied, Seeder
  <1> QED
    BY <1>1, <1>2, <1>3, <1>4, <1>5, <1>6, <1>7, <1>8, <1>9, <1>10, <1>11,
       <1>12, <1>13, <1>14, <1>15, <1>16, <1>17, <1>18, <1>19, <1>20, <1>21
    DEF Next, Run, Uninstall, Seed

LEMMA StagesStep == TypeOK /\ Stages /\ [Next]_vars => Stages'
  <1> SUFFICES ASSUME TypeOK, Stages, [Next]_vars
               PROVE  Stages'
    OBVIOUS
  <1> USE SecretsAssumption
  <1>1. CASE Start
    BY <1>1 DEF Start, vault, disk, work, seeds, history, TypeOK, Stages,
       Nothing, MaybeValue, Value, Supplied, Seeder
  <1>2. CASE Strip
    BY <1>2 DEF Strip, vault, disk, work, seeds, history, TypeOK, Stages,
       Nothing, MaybeValue, Value, Supplied, Seeder
  <1>3. ASSUME NEW s \in Secret, Upload(s)
        PROVE  Stages'
    BY <1>3 DEF Upload, Fault, vault, disk, work, seeds, history, TypeOK,
       Stages, Nothing, MaybeValue, Value, Supplied, Seeder
  <1>4. ASSUME NEW s \in Secret, Pick(s)
        PROVE  Stages'
    BY <1>4 DEF Pick, vault, disk, work, seeds, history, TypeOK, Stages,
       Nothing, MaybeValue, Value, Supplied, Seeder
  <1>5. CASE Migrate
    BY <1>5 DEF Migrate, ReadOutcome, Fault, Seen, vault, disk, work, seeds, history, TypeOK,
       Stages, Nothing, MaybeValue, Value, Supplied, Seeder
  <1>6. CASE Drop
    BY <1>6 DEF Drop, Fault, vault, disk, work, seeds, history, TypeOK, Stages,
       Nothing, MaybeValue, Value, Supplied, Seeder
  <1>7. CASE Read
    BY <1>7 DEF Read, ReadOutcome, Fault, Finish, Seen, vault, disk, work, seeds, history, TypeOK,
       Stages, Nothing, MaybeValue, Value, Supplied, Seeder
  <1>8. CASE Generate
    BY <1>8 DEF Generate, MakeUp, Fresh, vault, disk, work, seeds, history,
       TypeOK, Stages, Nothing, MaybeValue, Value, Supplied, Seeder
  <1>9. CASE Give
    BY <1>9 DEF Give, Finish, vault, disk, work, seeds, history, TypeOK, Stages,
       Nothing, MaybeValue, Value, Supplied, Seeder
  <1>10. CASE Crash
    BY <1>10 DEF Crash, Fault, Finish, vault, disk, work, seeds, history,
       TypeOK, Stages, Nothing, MaybeValue, Value, Supplied, Seeder
  <1>11. CASE BeginSweep
    BY <1>11 DEF BeginSweep, vault, disk, work, seeds, history, TypeOK, Stages,
       Nothing, MaybeValue, Value, Supplied, Seeder
  <1>12. ASSUME NEW s \in Secret, Sweep(s)
        PROVE  Stages'
    BY <1>12 DEF Sweep, Fault, vault, disk, work, seeds, history, TypeOK,
       Stages, Nothing, MaybeValue, Value, Supplied, Seeder
  <1>13. CASE EndSweep
    BY <1>13 DEF EndSweep, Finish, vault, disk, work, seeds, history, TypeOK,
       Stages, Nothing, MaybeValue, Value, Supplied, Seeder
  <1>14. ASSUME NEW i \in Seeder, SeedCheck(i)
        PROVE  Stages'
    BY <1>14 DEF SeedCheck, SeedStep, Fault, Seen, vault, disk, work, seeds, history,
       TypeOK, Stages, Nothing, MaybeValue, Value, Supplied, Seeder
  <1>15. ASSUME NEW i \in Seeder, SeedKey(i)
        PROVE  Stages'
    BY <1>15 DEF SeedKey, MakeUp, Fresh, SeedStep, vault, disk, work, seeds,
       history, TypeOK, Stages, Nothing, MaybeValue, Value, Supplied, Seeder
  <1>16. ASSUME NEW i \in Seeder, SeedPub(i)
        PROVE  Stages'
    BY <1>16 DEF SeedPub, SeedStep, vault, disk, work, seeds, history, TypeOK,
       Stages, Nothing, MaybeValue, Value, Supplied, Seeder
  <1>17. ASSUME NEW i \in Seeder, SeedFails(i)
        PROVE  Stages'
    BY <1>17 DEF SeedFails, SeedStep, Fault, vault, disk, work, seeds, history,
       TypeOK, Stages, Nothing, MaybeValue, Value, Supplied, Seeder
  <1>18. ASSUME NEW s \in Secret, Fill(s)
        PROVE  Stages'
    BY <1>18 DEF Fill, MakeUp, Fresh, vault, disk, work, seeds, history, TypeOK,
       Stages, Nothing, MaybeValue, Value, Supplied, Seeder
  <1>19. ASSUME NEW s \in Secret, Rename(s)
        PROVE  Stages'
    BY <1>19 DEF Rename, vault, disk, work, seeds, history, TypeOK, Stages,
       Nothing, MaybeValue, Value, Supplied, Seeder
  <1>20. CASE UNCHANGED vars
    BY <1>20 DEF vars, vault, disk, work, seeds, history, TypeOK, Stages,
       Nothing, MaybeValue, Value, Supplied, Seeder
  <1>21. CASE StripTorn
    BY <1>21 DEF StripTorn, Fault, Finish, vault, disk, work, seeds,
       history, TypeOK, Stages, Nothing, MaybeValue, Value, Supplied, Seeder
  <1> QED
    BY <1>1, <1>2, <1>3, <1>4, <1>5, <1>6, <1>7, <1>8, <1>9, <1>10, <1>11,
       <1>12, <1>13, <1>14, <1>15, <1>16, <1>17, <1>18, <1>19, <1>20, <1>21
    DEF Next, Run, Uninstall, Seed

\* No step takes a failed call back.
LEMMA FaultsGrow ==
    ASSUME TypeOK, [Next]_vars, faults' = 0
    PROVE  faults = 0 /\ faults' = faults
  <1>1. faults' = faults \/ Fault
    BY DEF Next, Run, Uninstall, Seed, Start, Strip, StripTorn, Upload, Pick,
       Migrate, ReadOutcome, Drop, Read, Generate, Give, Crash, BeginSweep,
       Sweep, EndSweep, SeedCheck, SeedKey, SeedPub, SeedFails, Fill, Rename, vars
  <1> QED
    BY <1>1 DEF Fault, TypeOK

-----------------------------------------------------------------------------
(* The operator's values *)

\* Until a secret is renamed nothing is at the old path; between the two
\* halves of a move the value is at both.
Moves ==
    /\ \A s \in Secret : s \notin renamed => old[s] = None
    /\ pc = "drop" => now[cur] = old[cur]

\* A line of the file is the operator's last word; one for a previous id is so
\* only of a misnamed secret; what is uploaded is in place; and what is swept
\* is not wanted any more, unless it is in the file.
Words ==
    /\ \A s \in Secret : file[s] # None => wanted[s] = file[s] /\ file[s] \in 0 .. values
    /\ \A s \in Secret : stray[s] # None =>
          /\ s \in renamed /\ stray[s] \in 0 .. values
          /\ stray[s] = wanted[s] => s \in misnamed
    /\ \A s \in uploaded : now[s] = wanted[s]
    /\ pc = "sweep" => \A s \in todo :
          wanted[s] # None => wanted[s] \in {file[s], stray[s]}

\* A value that is made up is one that no line has had.
LEMMA MakeUpGrows ==
    ASSUME TypeOK, MakeUp
    PROVE  /\ Fresh \in Nat /\ values' = Fresh
           /\ 0 .. values \subseteq 0 .. values' /\ Fresh \in (0 .. values') \ (0 .. values)
  <1>1. values \in Nat
    BY SecretsAssumption DEF TypeOK
  <1> QED
    BY <1>1 DEF MakeUp, Fresh

LEMMA MovesStep == TypeOK /\ Stages /\ Moves /\ [Next]_vars => Moves'
  <1> SUFFICES ASSUME TypeOK, Stages, Moves, [Next]_vars
               PROVE  Moves'
    OBVIOUS
  <1>1. CASE Start
    BY <1>1 DEF Start, vault, disk, work, seeds, history, TypeOK, Stages, Moves
  <1>2. CASE Strip
    BY <1>2 DEF Strip, vault, disk, work, seeds, history, TypeOK, Stages, Moves
  <1>3. ASSUME NEW s \in Secret, Upload(s)
        PROVE  Moves'
    BY <1>3 DEF Upload, Fault, vault, disk, work, seeds, history, TypeOK,
       Stages, Moves
  <1>4. ASSUME NEW s \in Secret, Pick(s)
        PROVE  Moves'
    BY <1>4 DEF Pick, vault, disk, work, seeds, history, TypeOK, Stages, Moves
  <1>5. CASE Migrate
    BY <1>5 DEF Migrate, ReadOutcome, Fault, Seen, vault, disk, work, seeds, history, TypeOK,
       Stages, Moves
  <1>6. CASE Drop
    BY <1>6 DEF Drop, Fault, vault, disk, work, seeds, history, TypeOK, Stages,
       Moves
  <1>7. CASE Read
    BY <1>7 DEF Read, ReadOutcome, Fault, Finish, Seen, vault, disk, work, seeds, history, TypeOK,
       Stages, Moves
  <1>8. CASE Generate
    BY <1>8 DEF Generate, MakeUp, Fresh, vault, disk, work, seeds, history,
       TypeOK, Stages, Moves
  <1>9. CASE Give
    BY <1>9 DEF Give, Finish, vault, disk, work, seeds, history, TypeOK, Stages,
       Moves
  <1>10. CASE Crash
    BY <1>10 DEF Crash, Fault, Finish, vault, disk, work, seeds, history,
       TypeOK, Stages, Moves
  <1>11. CASE BeginSweep
    BY <1>11 DEF BeginSweep, vault, disk, work, seeds, history, TypeOK, Stages,
       Moves
  <1>12. ASSUME NEW s \in Secret, Sweep(s)
        PROVE  Moves'
    BY <1>12 DEF Sweep, Fault, vault, disk, work, seeds, history, TypeOK,
       Stages, Moves
  <1>13. CASE EndSweep
    BY <1>13 DEF EndSweep, Finish, vault, disk, work, seeds, history, TypeOK,
       Stages, Moves
  <1>14. ASSUME NEW i \in Seeder, SeedCheck(i)
        PROVE  Moves'
    BY <1>14 DEF SeedCheck, SeedStep, Fault, Seen, vault, disk, work, seeds, history,
       TypeOK, Stages, Moves
  <1>15. ASSUME NEW i \in Seeder, SeedKey(i)
        PROVE  Moves'
    BY <1>15 DEF SeedKey, MakeUp, Fresh, SeedStep, vault, disk, work, seeds,
       history, TypeOK, Stages, Moves
  <1>16. ASSUME NEW i \in Seeder, SeedPub(i)
        PROVE  Moves'
    BY <1>16 DEF SeedPub, SeedStep, vault, disk, work, seeds, history, TypeOK,
       Stages, Moves
  <1>17. ASSUME NEW i \in Seeder, SeedFails(i)
        PROVE  Moves'
    BY <1>17 DEF SeedFails, SeedStep, Fault, vault, disk, work, seeds, history,
       TypeOK, Stages, Moves
  <1>18. ASSUME NEW s \in Secret, Fill(s)
        PROVE  Moves'
    BY <1>18 DEF Fill, MakeUp, Fresh, vault, disk, work, seeds, history, TypeOK,
       Stages, Moves
  <1>19. ASSUME NEW s \in Secret, Rename(s)
        PROVE  Moves'
    BY <1>19 DEF Rename, vault, disk, work, seeds, history, TypeOK, Stages,
       Moves
  <1>20. CASE UNCHANGED vars
    BY <1>20 DEF vars, vault, disk, work, seeds, history, TypeOK, Stages, Moves
  <1>21. CASE StripTorn
    BY <1>21 DEF StripTorn, Fault, Finish, vault, disk, work, seeds,
       history, TypeOK, Stages, Moves
  <1> QED
    BY <1>1, <1>2, <1>3, <1>4, <1>5, <1>6, <1>7, <1>8, <1>9, <1>10, <1>11,
       <1>12, <1>13, <1>14, <1>15, <1>16, <1>17, <1>18, <1>19, <1>20, <1>21
    DEF Next, Run, Uninstall, Seed

LEMMA WordsStep == TypeOK /\ Stages /\ Moves /\ Words /\ [Next]_vars => Words'
  <1> SUFFICES ASSUME TypeOK, Stages, Moves, Words, [Next]_vars
               PROVE  Words'
    OBVIOUS
  <1> USE SecretsAssumption
  <1>1. CASE Start
    BY <1>1 DEF Start, vault, disk, work, seeds, history, TypeOK, Stages, Moves,
       Words, Supplied
  <1>2. CASE Strip
    <2>1. \A s \in Secret : /\ file'[s] # None => file'[s] = file[s]
                            /\ stray'[s] # None => stray'[s] = stray[s]
      BY <1>2 DEF Strip, TypeOK, Nothing
    <2> QED
      BY <1>2, <2>1 DEF Strip, vault, history, Words
  <1>3. ASSUME NEW s \in Secret, Upload(s)
        PROVE  Words'
    BY <1>3 DEF Upload, Fault, vault, disk, work, seeds, history, TypeOK,
       Stages, Moves, Words, Supplied
  <1>4. ASSUME NEW s \in Secret, Pick(s)
        PROVE  Words'
    BY <1>4 DEF Pick, vault, disk, work, seeds, history, TypeOK, Stages, Moves,
       Words, Supplied
  <1>5. CASE Migrate
    BY <1>5 DEF Migrate, ReadOutcome, Fault, Seen, vault, disk, work, seeds, history, TypeOK,
       Stages, Moves, Words, Supplied
  <1>6. CASE Drop
    BY <1>6 DEF Drop, Fault, vault, disk, work, seeds, history, TypeOK, Stages,
       Moves, Words, Supplied
  <1>7. CASE Read
    BY <1>7 DEF Read, ReadOutcome, Fault, Finish, Seen, vault, disk, work, seeds, history, TypeOK,
       Stages, Moves, Words, Supplied
  <1>8. CASE Generate
    <2>1. cur \notin Supplied /\ uploaded = {}
      BY <1>8 DEF Generate, Stages, Supplied
    <2> QED
      BY <1>8, <2>1, MakeUpGrows DEF Generate, disk, history, Stages, Words
  <1>9. CASE Give
    BY <1>9 DEF Give, Finish, vault, disk, work, seeds, history, TypeOK, Stages,
       Moves, Words, Supplied
  <1>10. CASE Crash
    BY <1>10 DEF Crash, Fault, Finish, vault, disk, work, seeds, history,
       TypeOK, Stages, Moves, Words, Supplied
  <1>11. CASE BeginSweep
    BY <1>11 DEF BeginSweep, vault, disk, work, seeds, history, TypeOK, Stages,
       Moves, Words, Supplied
  <1>12. ASSUME NEW s \in Secret, Sweep(s)
        PROVE  Words'
    BY <1>12 DEF Sweep, Fault, vault, disk, work, seeds, history, TypeOK,
       Stages, Moves, Words, Supplied
  <1>13. CASE EndSweep
    BY <1>13 DEF EndSweep, Finish, vault, disk, work, seeds, history, TypeOK,
       Stages, Moves, Words, Supplied
  <1>14. ASSUME NEW i \in Seeder, SeedCheck(i)
        PROVE  Words'
    BY <1>14 DEF SeedCheck, SeedStep, Fault, Seen, vault, disk, work, seeds, history,
       TypeOK, Stages, Moves, Words, Supplied
  <1>15. ASSUME NEW i \in Seeder, SeedKey(i)
        PROVE  Words'
    BY <1>15, MakeUpGrows DEF SeedKey, SeedStep, disk, history, Stages, Words
  <1>16. ASSUME NEW i \in Seeder, SeedPub(i)
        PROVE  Words'
    BY <1>16 DEF SeedPub, SeedStep, vault, disk, work, seeds, history, TypeOK,
       Stages, Moves, Words, Supplied
  <1>17. ASSUME NEW i \in Seeder, SeedFails(i)
        PROVE  Words'
    BY <1>17 DEF SeedFails, SeedStep, Fault, vault, disk, work, seeds, history,
       TypeOK, Stages, Moves, Words, Supplied
  <1>18. ASSUME NEW s \in Secret, Fill(s)
        PROVE  Words'
    <2>1. Fresh # None
      BY <1>18, MakeUpGrows DEF Fill
    <2>2. ASSUME NEW r \in Secret, r # s
          PROVE  /\ file'[r] = file[r] /\ wanted'[r] = wanted[r]
                 /\ r \in misnamed => r \in misnamed'
      BY <1>18, <2>2 DEF Fill, TypeOK
    <2>3. file'[s] = Fresh /\ wanted'[s] = Fresh
      BY <1>18 DEF Fill, TypeOK
    <2>4. uploaded = {} /\ pc = "idle"
      BY <1>18 DEF Fill, Stages
    <2>5. UNCHANGED <<stray, renamed, uploaded, pc>> /\ MakeUp
      BY <1>18 DEF Fill, work
    <2>6. \A r \in Secret : file'[r] # None =>
             wanted'[r] = file'[r] /\ file'[r] \in 0 .. values'
      BY <2>2, <2>3, <2>5, MakeUpGrows DEF Words
    <2>7. ASSUME NEW r \in Secret, stray'[r] # None
          PROVE  /\ r \in renamed' /\ stray'[r] \in 0 .. values'
                 /\ stray'[r] = wanted'[r] => r \in misnamed'
      <3>1. stray[r] \in 0 .. values /\ r \in renamed
        BY <2>5, <2>7 DEF Words
      <3>2. r = s => stray'[r] # wanted'[r]
        BY <2>3, <2>5, <3>1, MakeUpGrows
      <3> QED
        BY <2>2, <2>5, <2>7, <3>1, <3>2, MakeUpGrows DEF Words
    <2> QED
      BY <2>4, <2>5, <2>6, <2>7 DEF Words
  <1>19. ASSUME NEW s \in Secret, Rename(s)
        PROVE  Words'
    BY <1>19 DEF Rename, vault, disk, work, seeds, history, TypeOK, Stages,
       Moves, Words, Supplied
  <1>20. CASE UNCHANGED vars
    BY <1>20 DEF vars, vault, disk, work, seeds, history, TypeOK, Stages, Moves,
       Words, Supplied
  <1>21. CASE StripTorn
    BY <1>21 DEF StripTorn, Finish, Nothing, Words
  <1> QED
    BY <1>1, <1>2, <1>3, <1>4, <1>5, <1>6, <1>7, <1>8, <1>9, <1>10, <1>11,
       <1>12, <1>13, <1>14, <1>15, <1>16, <1>17, <1>18, <1>19, <1>20, <1>21
    DEF Next, Run, Uninstall, Seed

\* The ways a value the operator supplied gets lost in a step.
MayLose(s) ==
    \/ StripTorn /\ s \notin uploaded
    \/ Strip /\ s \in misnamed
    \/ Migrate /\ cur = s /\ now[s] # None /\ faults' # faults

\* A step that leaves the file and the paths of a secret alone loses nothing.
LEMMA QuietLoss ==
    ASSUME NEW s, UNCHANGED <<file, stray>>,
           UNCHANGED <<now[s], old[s]>> \/ (now'[s] = old[s] /\ UNCHANGED old /\ now[s] = None)
    PROVE  ~ Loses(s)
  BY DEF Loses, Kept

LEMMA LossStep ==
    ASSUME TypeOK, Stages, Moves, Words, [Next]_vars, NEW s \in Supplied
    PROVE  Loses(s) => MayLose(s)
  <1> USE DEF vault, disk, work, seeds, history
  <1>0. s \in Secret /\ s \notin Generated
    BY DEF Supplied
  <1>1. ASSUME UNCHANGED <<now, old, file, stray>>
        PROVE  ~ Loses(s)
    BY <1>1, QuietLoss
  <1>2. CASE Strip
    BY <1>0, <1>2 DEF Strip, Words, Loses, Kept, MayLose
  <1>3. CASE StripTorn
    BY <1>0, <1>3 DEF StripTorn, Words, Loses, Kept, MayLose
  <1>4. ASSUME NEW r \in Secret, Upload(r)
        PROVE  ~ Loses(s)
    <2>1. CASE r = s
      <3>1. file[s] = wanted[s] /\ file' = file
        BY <1>4, <2>1 DEF Upload, Stages, Words
      <3> QED
        BY <3>1 DEF Loses, Kept
    <2>2. CASE r # s
      BY <1>0, <1>4, <2>2, QuietLoss DEF Upload, TypeOK
    <2> QED
      BY <2>1, <2>2
  <1>5. CASE Migrate
    <2>1. PICK value \in Seen(now[cur]), old_value \in Seen(old[cur]) :
             /\ ReadOutcome(value # now[cur] \/ old_value # old[cur])
             /\ IF value = None /\ old_value # None
                THEN now' = [now EXCEPT ![cur] = old_value] /\ pc' = "drop"
                ELSE UNCHANGED now /\ pc' = "read"
      BY <1>5 DEF Migrate
    <2>2. UNCHANGED <<old, file, stray>>
      BY <1>5 DEF Migrate
    <2>3. CASE value = None /\ old_value # None /\ cur = s
      <3>1. old_value = old[s] /\ now'[s] = old[s]
        BY <1>0, <2>1, <2>3 DEF Seen, TypeOK
      <3>2. CASE now[s] = None
        BY <2>2, <3>1, <3>2, QuietLoss
      <3>3. CASE now[s] # None
        <4>1. faults' # faults
          BY <2>1, <2>3, <3>3 DEF ReadOutcome, Fault, TypeOK
        <4> QED
          BY <1>5, <2>3, <3>3, <4>1 DEF MayLose
      <3> QED
        BY <3>2, <3>3
    <2>4. CASE ~ (value = None /\ old_value # None /\ cur = s)
      <3>1. now'[s] = now[s]
        BY <1>0, <2>1, <2>4 DEF TypeOK
      <3> QED
        BY <2>2, <3>1, QuietLoss
    <2> QED
      BY <2>3, <2>4
  <1>6. CASE Drop
    BY <1>0, <1>6 DEF Drop, Moves, Loses, Kept, TypeOK
  <1>7. CASE Generate
    BY <1>0, <1>7, QuietLoss DEF Generate, Stages, TypeOK
  <1>8. ASSUME NEW r \in Secret, Sweep(r)
        PROVE  ~ Loses(s)
    <2>1. CASE r = s
      BY <1>8, <2>1 DEF Sweep, Words, Loses, Kept
    <2>2. CASE r # s
      BY <1>0, <1>8, <2>2, QuietLoss DEF Sweep, TypeOK
    <2> QED
      BY <2>1, <2>2
  <1>9. ASSUME NEW r \in Secret, Fill(r)
        PROVE  ~ Loses(s)
    BY <1>0, <1>9 DEF Fill, Loses, Kept, TypeOK
  <1>10. ASSUME NEW r \in Secret, Rename(r)
        PROVE  ~ Loses(s)
    BY <1>0, <1>10 DEF Rename, Moves, Words, Loses, Kept, TypeOK
  <1>11. CASE Start \/ Read \/ Give \/ Crash
    BY <1>1, <1>11 DEF Start, Read, Give, Crash
  <1>12. ASSUME NEW r \in Secret, Pick(r)
        PROVE  ~ Loses(s)
    BY <1>1, <1>12 DEF Pick
  <1>13. CASE BeginSweep \/ EndSweep
    BY <1>1, <1>13 DEF BeginSweep, EndSweep
  <1>14. ASSUME NEW i \in Seeder, Seed(i)
         PROVE  ~ Loses(s)
    BY <1>1, <1>14 DEF Seed, SeedCheck, SeedKey, SeedPub, SeedFails
  <1>15. CASE UNCHANGED vars
    BY <1>1, <1>15 DEF vars
  <1> QED
    BY <1>2, <1>3, <1>4, <1>5, <1>6, <1>7, <1>8, <1>9, <1>10, <1>11, <1>12,
       <1>13, <1>14, <1>15 DEF Next, Run, Uninstall

-----------------------------------------------------------------------------
(* Generated values *)

\* What scripts use is in Vault, at the old path as long as nothing is in
\* place, and a new value is only made up when both are empty, for as long as
\* no read has hidden the value.  A run ends with a value of each generated
\* secret, the one in place.
Keeps ==
    /\ \A s \in Generated \ misread : given[s] # None =>
          given[s] = IF now[s] # None THEN now[s] ELSE old[s]
    /\ \A s \in Secret : result[s] # None => result[s] = now[s] /\ s \notin todo \cup {cur}
    /\ pc \in {"next"} \cup Materializing =>
          \A s \in Generated : s \in todo \cup {cur} \/ result[s] # None
    /\ pc = "sweep" => \A s \in todo : given[s] = None
    /\ pc \in {"read", "generate"} /\ cur \notin misread /\ now[cur] = None =>
          old[cur] = None
    /\ pc = "generate" /\ cur \notin misread => now[cur] = None

LEMMA KeepsStep == TypeOK /\ Stages /\ Moves /\ Keeps /\ [Next]_vars => Keeps'
  <1> SUFFICES ASSUME TypeOK, Stages, Moves, Keeps, [Next]_vars
               PROVE  Keeps'
    OBVIOUS
  <1> USE SecretsAssumption
  <1>1. CASE Start
    BY <1>1 DEF Start, vault, disk, work, seeds, history, TypeOK, Stages, Moves,
       Keeps, Materializing, Nothing, Supplied
  <1>2. CASE Strip
    BY <1>2 DEF Strip, vault, disk, work, seeds, history, TypeOK, Stages, Moves,
       Keeps, Materializing, Nothing, Supplied
  <1>3. ASSUME NEW s \in Secret, Upload(s)
        PROVE  Keeps'
    BY <1>3 DEF Upload, Fault, vault, disk, work, seeds, history, TypeOK,
       Stages, Moves, Keeps, Materializing, Nothing, Supplied
  <1>4. ASSUME NEW s \in Secret, Pick(s)
        PROVE  Keeps'
    BY <1>4 DEF Pick, vault, disk, work, seeds, history, TypeOK, Stages, Moves,
       Keeps, Materializing, Nothing, Supplied
  <1>5. CASE Migrate
    BY <1>5 DEF Migrate, ReadOutcome, Fault, Seen, vault, disk, work, seeds, history, TypeOK,
       Stages, Moves, Keeps, Materializing, Nothing, Supplied
  <1>6. CASE Drop
    BY <1>6 DEF Drop, Fault, vault, disk, work, seeds, history, TypeOK, Stages,
       Moves, Keeps, Materializing, Nothing, Supplied
  <1>7. CASE Read
    <2>1. PICK value \in Seen(now[cur]) :
             /\ ReadOutcome(value # now[cur])
             /\ \/ /\ result' = [result EXCEPT ![cur] = value]
                   /\ value # None \/ cur \in Optional
                   /\ pc' = "next" /\ cur' = None /\ UNCHANGED <<todo, uploaded>>
                \/ value = None /\ cur \in Generated /\ pc' = "generate" /\ UNCHANGED work
                \/ Finish
      BY <1>7 DEF Read
    <2>2. /\ UNCHANGED <<now, old, given>> /\ pc = "read" /\ cur \in Secret
          /\ misread' = IF value # now[cur] THEN misread \cup {cur} ELSE misread
      BY <1>7, <2>1 DEF Read, ReadOutcome, vault, TypeOK
    <2>3. \A s \in Generated \ misread' : given'[s] # None =>
             given'[s] = IF now'[s] # None THEN now'[s] ELSE old'[s]
      BY <2>2 DEF Keeps
    <2>4. CASE /\ result' = [result EXCEPT ![cur] = value]
               /\ value # None \/ cur \in Optional
               /\ pc' = "next" /\ cur' = None /\ UNCHANGED <<todo, uploaded>>
      <3>1. cur \notin todo /\ None \notin Secret /\ Generated \cap Optional = {}
        BY <2>2 DEF Keeps, Stages
      <3>2. value = None \/ value = now[cur]
        BY DEF Seen
      <3>3. result'[cur] = value /\ \A s \in Secret : s # cur => result'[s] = result[s]
        BY <2>2, <2>4 DEF TypeOK
      <3> QED
        BY <2>2, <2>3, <2>4, <3>1, <3>2, <3>3 DEF Keeps, Materializing
    <2>5. CASE value = None /\ cur \in Generated /\ pc' = "generate" /\ UNCHANGED work
      BY <2>2, <2>3, <2>5 DEF Keeps, Materializing, work
    <2>6. CASE Finish
      BY <2>2, <2>3, <2>6 DEF Finish, Keeps, Materializing, Nothing
    <2> QED
      BY <2>1, <2>4, <2>5, <2>6
  <1>8. CASE Generate
    <2>1. /\ pc = "generate" /\ cur \in Generated /\ cur \in Secret /\ Fresh # None
          /\ pc' = "next" /\ cur' = None /\ UNCHANGED <<old, given, misread, todo>>
      BY <1>8 DEF Generate, MakeUp, Fresh, Stages, TypeOK, history
    <2>2. /\ now' = [now EXCEPT ![cur] = Fresh]
          /\ result' = [result EXCEPT ![cur] = Fresh]
      BY <1>8 DEF Generate
    <2>3. /\ now'[cur] = Fresh /\ result'[cur] = Fresh
          /\ \A s \in Secret : s # cur => now'[s] = now[s] /\ result'[s] = result[s]
      BY <2>1, <2>2 DEF TypeOK
    <2>4. cur \notin todo
      BY <2>1 DEF Stages
    <2>5. cur \notin misread => given[cur] = None
      BY <2>1 DEF Keeps
    <2>6. Generated \subseteq Secret /\ None \notin Secret
      OBVIOUS
    <2> QED
      BY <2>1, <2>3, <2>4, <2>5, <2>6 DEF Keeps, Materializing
  <1>9. CASE Give
    BY <1>9 DEF Give, Finish, vault, disk, work, seeds, history, TypeOK, Stages,
       Moves, Keeps, Materializing, Nothing, Supplied
  <1>10. CASE Crash
    BY <1>10 DEF Crash, Fault, Finish, vault, disk, work, seeds, history,
       TypeOK, Stages, Moves, Keeps, Materializing, Nothing, Supplied
  <1>11. CASE BeginSweep
    BY <1>11 DEF BeginSweep, vault, disk, work, seeds, history, TypeOK, Stages,
       Moves, Keeps, Materializing, Nothing, Supplied
  <1>12. ASSUME NEW s \in Secret, Sweep(s)
        PROVE  Keeps'
    BY <1>12 DEF Sweep, Fault, vault, disk, work, seeds, history, TypeOK,
       Stages, Moves, Keeps, Materializing, Nothing, Supplied
  <1>13. CASE EndSweep
    BY <1>13 DEF EndSweep, Finish, vault, disk, work, seeds, history, TypeOK,
       Stages, Moves, Keeps, Materializing, Nothing, Supplied
  <1>14. ASSUME NEW i \in Seeder, SeedCheck(i)
        PROVE  Keeps'
    BY <1>14 DEF SeedCheck, SeedStep, Fault, Seen, vault, disk, work, seeds, history,
       TypeOK, Stages, Moves, Keeps, Materializing, Nothing, Supplied
  <1>15. ASSUME NEW i \in Seeder, SeedKey(i)
        PROVE  Keeps'
    BY <1>15 DEF SeedKey, MakeUp, Fresh, SeedStep, vault, disk, work, seeds,
       history, TypeOK, Stages, Moves, Keeps, Materializing, Nothing, Supplied
  <1>16. ASSUME NEW i \in Seeder, SeedPub(i)
        PROVE  Keeps'
    BY <1>16 DEF SeedPub, SeedStep, vault, disk, work, seeds, history, TypeOK,
       Stages, Moves, Keeps, Materializing, Nothing, Supplied
  <1>17. ASSUME NEW i \in Seeder, SeedFails(i)
        PROVE  Keeps'
    BY <1>17 DEF SeedFails, SeedStep, Fault, vault, disk, work, seeds, history,
       TypeOK, Stages, Moves, Keeps, Materializing, Nothing, Supplied
  <1>18. ASSUME NEW s \in Secret, Fill(s)
        PROVE  Keeps'
    BY <1>18 DEF Fill, MakeUp, Fresh, vault, disk, work, seeds, history, TypeOK,
       Stages, Moves, Keeps, Materializing, Nothing, Supplied
  <1>19. ASSUME NEW s \in Secret, Rename(s)
        PROVE  Keeps'
    BY <1>19 DEF Rename, vault, disk, work, seeds, history, TypeOK, Stages,
       Moves, Keeps, Materializing, Nothing, Supplied
  <1>20. CASE UNCHANGED vars
    BY <1>20 DEF vars, vault, disk, work, seeds, history, TypeOK, Stages, Moves,
       Keeps, Materializing, Nothing, Supplied
  <1>21. CASE StripTorn
    BY <1>21 DEF StripTorn, Fault, Finish, vault, disk, work, seeds,
       history, TypeOK, Stages, Moves, Keeps, Materializing, Nothing, Supplied
  <1> QED
    BY <1>1, <1>2, <1>3, <1>4, <1>5, <1>6, <1>7, <1>8, <1>9, <1>10, <1>11,
       <1>12, <1>13, <1>14, <1>15, <1>16, <1>17, <1>18, <1>19, <1>20, <1>21
    DEF Next, Run, Uninstall, Seed

-----------------------------------------------------------------------------
(* The shared key pair *)

\* A lone seeder works on an absent pair, and its private key is in place
\* before it puts the public one.
Pairing ==
    ~ clash =>
        /\ \A i \in Seeder : seeding[i] # "no" =>
              public = None /\ \A j \in Seeder \ {i} : seeding[j] = "no"
        /\ \A i \in Seeder : seeding[i] = "pub" => pair[i] = private
        /\ public # None => public = private

LEMMA PairingStep == TypeOK /\ Pairing /\ [Next]_vars => Pairing'
  <1> SUFFICES ASSUME TypeOK, Pairing, [Next]_vars
               PROVE  Pairing'
    OBVIOUS
  <1>1. CASE Start
    BY <1>1 DEF Start, vault, disk, work, seeds, history, TypeOK, Pairing,
       Seeder
  <1>2. CASE Strip
    BY <1>2 DEF Strip, vault, disk, work, seeds, history, TypeOK, Pairing,
       Seeder
  <1>3. ASSUME NEW s \in Secret, Upload(s)
        PROVE  Pairing'
    BY <1>3 DEF Upload, Fault, vault, disk, work, seeds, history, TypeOK,
       Pairing, Seeder
  <1>4. ASSUME NEW s \in Secret, Pick(s)
        PROVE  Pairing'
    BY <1>4 DEF Pick, vault, disk, work, seeds, history, TypeOK, Pairing, Seeder
  <1>5. CASE Migrate
    BY <1>5 DEF Migrate, ReadOutcome, Fault, Seen, vault, disk, work, seeds, history, TypeOK,
       Pairing, Seeder
  <1>6. CASE Drop
    BY <1>6 DEF Drop, Fault, vault, disk, work, seeds, history, TypeOK, Pairing,
       Seeder
  <1>7. CASE Read
    BY <1>7 DEF Read, ReadOutcome, Fault, Finish, Seen, vault, disk, work, seeds, history, TypeOK,
       Pairing, Seeder
  <1>8. CASE Generate
    BY <1>8 DEF Generate, MakeUp, Fresh, vault, disk, work, seeds, history,
       TypeOK, Pairing, Seeder
  <1>9. CASE Give
    BY <1>9 DEF Give, Finish, vault, disk, work, seeds, history, TypeOK,
       Pairing, Seeder
  <1>10. CASE Crash
    BY <1>10 DEF Crash, Fault, Finish, vault, disk, work, seeds, history,
       TypeOK, Pairing, Seeder
  <1>11. CASE BeginSweep
    BY <1>11 DEF BeginSweep, vault, disk, work, seeds, history, TypeOK, Pairing,
       Seeder
  <1>12. ASSUME NEW s \in Secret, Sweep(s)
        PROVE  Pairing'
    BY <1>12 DEF Sweep, Fault, vault, disk, work, seeds, history, TypeOK,
       Pairing, Seeder
  <1>13. CASE EndSweep
    BY <1>13 DEF EndSweep, Finish, vault, disk, work, seeds, history, TypeOK,
       Pairing, Seeder
  <1>14. ASSUME NEW i \in Seeder, SeedCheck(i)
        PROVE  Pairing'
    <2>1. public' = public /\ private' = private /\ pair' = pair
      BY <1>14 DEF SeedCheck, vault
    <2>2. PICK seen \in Seen(public) :
             /\ SeedStep(i, IF seen = None THEN "key" ELSE "no")
             /\ clash' = (clash \/ seen # public
                           \/ (seen = None /\ \E j \in Seeder \ {i} : seeding[j] # "no"))
      BY <1>14 DEF SeedCheck
    <2> SUFFICES ASSUME ~ clash'
                 PROVE  Pairing'
      BY DEF Pairing
    <2>3. ~ clash /\ seen = public
      BY <2>2
    <2>4. CASE seen = None
      <3>1. \A j \in Seeder \ {i} : seeding[j] = "no"
        BY <2>2, <2>4
      <3>2. seeding' = [seeding EXCEPT ![i] = "key"]
        BY <2>2, <2>4 DEF SeedStep
      <3> QED
        BY <2>1, <2>3, <2>4, <3>1, <3>2 DEF Pairing, TypeOK
    <2>5. CASE seen # None
      <3>1. seeding' = [seeding EXCEPT ![i] = "no"]
        BY <2>2, <2>5 DEF SeedStep
      <3> QED
        BY <2>1, <2>3, <3>1 DEF Pairing, TypeOK
    <2> QED
      BY <2>4, <2>5
  <1>15. ASSUME NEW i \in Seeder, SeedKey(i)
        PROVE  Pairing'
    BY <1>15 DEF SeedKey, MakeUp, Fresh, SeedStep, vault, disk, work, seeds,
       history, TypeOK, Pairing, Seeder
  <1>16. ASSUME NEW i \in Seeder, SeedPub(i)
        PROVE  Pairing'
    BY <1>16 DEF SeedPub, SeedStep, vault, disk, work, seeds, history, TypeOK,
       Pairing, Seeder
  <1>17. ASSUME NEW i \in Seeder, SeedFails(i)
        PROVE  Pairing'
    BY <1>17 DEF SeedFails, SeedStep, Fault, vault, disk, work, seeds, history,
       TypeOK, Pairing, Seeder
  <1>18. ASSUME NEW s \in Secret, Fill(s)
        PROVE  Pairing'
    BY <1>18 DEF Fill, MakeUp, Fresh, vault, disk, work, seeds, history, TypeOK,
       Pairing, Seeder
  <1>19. ASSUME NEW s \in Secret, Rename(s)
        PROVE  Pairing'
    BY <1>19 DEF Rename, vault, disk, work, seeds, history, TypeOK, Pairing,
       Seeder
  <1>20. CASE UNCHANGED vars
    BY <1>20 DEF vars, vault, disk, work, seeds, history, TypeOK, Pairing,
       Seeder
  <1>21. CASE StripTorn
    BY <1>21 DEF StripTorn, Fault, Finish, vault, disk, work, seeds,
       history, TypeOK, Pairing, Seeder
  <1> QED
    BY <1>1, <1>2, <1>3, <1>4, <1>5, <1>6, <1>7, <1>8, <1>9, <1>10, <1>11,
       <1>12, <1>13, <1>14, <1>15, <1>16, <1>17, <1>18, <1>19, <1>20, <1>21
    DEF Next, Run, Uninstall, Seed

-----------------------------------------------------------------------------
(* The operator's file, when no call failed *)

\* A filled line waits for its upload or has had it; after the rewrite there
\* is none.
Emptying ==
    faults = 0 =>
        /\ pc = "upload" => \A s \in Supplied : file[s] # None => s \in todo \cup uploaded
        /\ pc \in {"next", "migrate", "drop", "read", "generate"} =>
              \A s \in Supplied : file[s] = None

\* A step that leaves the file alone, after its rewrite or outside of a run.
LEMMA QuietEmptying ==
    ASSUME Emptying, faults' = 0 => faults = 0, UNCHANGED file,
           \/ pc' \in {"idle", "seed", "sweep"}
           \/ /\ pc \in {"next", "migrate", "drop", "read", "generate"}
              /\ pc' # "upload"
           \/ UNCHANGED <<pc, todo, uploaded>>
    PROVE  Emptying'
  BY DEF Emptying

LEMMA EmptyingStep == TypeOK /\ Emptying /\ [Next]_vars => Emptying'
  <1> SUFFICES ASSUME TypeOK, Emptying, [Next]_vars
               PROVE  Emptying'
    OBVIOUS
  <1> USE DEF vault, disk, work, seeds, history
  <1>0. faults' = 0 => faults = 0
    BY FaultsGrow
  <1>1. CASE Strip
    <2>1. \A s \in Supplied : s \in Secret
      BY DEF Supplied
    <2> QED
      BY <1>1, <2>1 DEF Strip, Emptying
  <1>2. ASSUME NEW s \in Secret, Upload(s)
        PROVE  Emptying'
    <2>1. faults' = 0 => faults = 0 /\ todo' = todo \ {s} /\ uploaded' = uploaded \cup {s}
      BY <1>2 DEF Upload, Fault, TypeOK
    <2> QED
      BY <1>2, <2>1 DEF Upload, Emptying
  <1>3. ASSUME NEW s \in Secret, Pick(s)
        PROVE  Emptying'
    BY <1>3, QuietEmptying DEF Pick
  <1>4. CASE Migrate \/ Generate \/ Give
    BY <1>0, <1>4, QuietEmptying DEF Migrate, Generate, Give, Finish
  <1>5. CASE Drop
    BY <1>0, <1>5, QuietEmptying DEF Drop
  <1>6. CASE Read
    BY <1>0, <1>6, QuietEmptying DEF Read, Finish
  <1>7. CASE Crash \/ StripTorn
    BY <1>7 DEF Crash, StripTorn, Fault, Finish, TypeOK, Emptying
  <1>8. CASE Start \/ BeginSweep \/ EndSweep
    BY <1>8, QuietEmptying DEF Start, BeginSweep, EndSweep, Finish
  <1>9. ASSUME NEW s \in Secret, Sweep(s)
        PROVE  Emptying'
    BY <1>9 DEF Sweep, Emptying
  <1>10. ASSUME NEW i \in Seeder, NEW phase, SeedStep(i, phase), UNCHANGED <<file, uploaded>>,
                faults' = 0 => faults = 0
         PROVE  Emptying'
    <2>1. CASE i = "own" /\ phase = "no"
      BY <1>10, <2>1 DEF SeedStep, Emptying
    <2>2. CASE ~ (i = "own" /\ phase = "no")
      BY <1>10, <2>2, QuietEmptying DEF SeedStep
    <2> QED
      BY <2>1, <2>2
  <1>11. ASSUME NEW i \in Seeder, SeedCheck(i)
         PROVE  Emptying'
    BY <1>0, <1>10, <1>11 DEF SeedCheck
  <1>12. ASSUME NEW i \in Seeder, SeedKey(i) \/ SeedPub(i)
         PROVE  Emptying'
    BY <1>10, <1>12 DEF SeedKey, SeedPub
  <1>13. ASSUME NEW i \in Seeder, SeedFails(i)
         PROVE  Emptying'
    BY <1>0, <1>10, <1>13 DEF SeedFails
  <1>14. ASSUME NEW s \in Secret, Fill(s) \/ Rename(s)
         PROVE  Emptying'
    BY <1>14 DEF Fill, Rename, Emptying
  <1>15. CASE UNCHANGED vars
    BY <1>15, QuietEmptying DEF vars
  <1> QED
    BY <1>1, <1>2, <1>3, <1>4, <1>5, <1>6, <1>7, <1>8, <1>9, <1>11, <1>12, <1>13,
       <1>14, <1>15 DEF Next, Run, Uninstall, Seed

\* Without a failed call the last value of a secret is in the file or in
\* Vault, unless its line was for an id the manifest has given up.
Filed ==
    faults = 0 =>
        \A s \in Supplied : wanted[s] # None /\ s \notin misnamed =>
            wanted[s] \in {file[s], now[s], old[s]}

\* What the operator is taken to want changes with a new line, or a sweep.
LEMMA WordChange ==
    ASSUME TypeOK, [Next]_vars, NEW s \in Secret
    PROVE  \/ Fill(s)
           \/ BeginSweep /\ wanted'[s] = None
           \/ wanted'[s] = wanted[s] /\ (s \in misnamed => s \in misnamed')
  <1> USE DEF history
  <1>1. CASE BeginSweep
    BY <1>1 DEF BeginSweep
  <1>2. ASSUME NEW r \in Secret, Fill(r), r # s
        PROVE  wanted'[s] = wanted[s] /\ (s \in misnamed => s \in misnamed')
    BY <1>2 DEF Fill, TypeOK
  <1>3. ASSUME NEW r \in Secret, Rename(r)
        PROVE  wanted'[s] = wanted[s] /\ (s \in misnamed => s \in misnamed')
    BY <1>3 DEF Rename
  <1>4. CASE UNCHANGED <<wanted, misnamed>>
    BY <1>4
  <1> QED
    BY <1>1, <1>2, <1>3, <1>4
    DEF Next, Run, Uninstall, Seed, Start, Strip, StripTorn, Upload, Pick,
        Migrate, Drop, Read, Generate, Give, Crash, Sweep, EndSweep,
        SeedCheck, SeedKey, SeedPub, SeedFails, vars

LEMMA FiledStep ==
    TypeOK /\ Stages /\ Moves /\ Words /\ Words' /\ Filed /\ [Next]_vars => Filed'
  <1> SUFFICES ASSUME TypeOK, Stages, Moves, Words, Words', Filed, [Next]_vars,
                      faults' = 0, NEW s \in Supplied,
                      wanted'[s] # None, s \notin misnamed'
               PROVE  wanted'[s] \in {file'[s], now'[s], old'[s]}
    BY DEF Filed
  <1>1. s \in Secret
    BY DEF Supplied
  <1>2. faults = 0 /\ faults' = faults
    BY FaultsGrow
  <1>3. CASE Fill(s)
    BY <1>1, <1>3 DEF Fill, TypeOK
  <1>4. CASE wanted'[s] = wanted[s] /\ s \notin misnamed
    <2>1. Kept(s)
      BY <1>2, <1>4 DEF Filed, Kept
    <2>2. ~ MayLose(s)
      BY <1>2, <1>4 DEF MayLose, StripTorn, Fault
    <2>3. Kept(s)'
      BY <1>4, <2>1, <2>2, LossStep DEF Loses
    <2>4. wanted'[s] # stray'[s]
      BY <1>1 DEF Words
    <2> QED
      BY <2>3, <2>4 DEF Kept
  <1> QED
    BY <1>1, <1>3, <1>4, WordChange

-----------------------------------------------------------------------------
(* The theorems *)

\* Every state is well-typed, whatever crashes and whichever calls fail.
THEOREM SecretsTypeCorrect == Spec => []TypeOK
  <1>1. Spec => [](TypeOK /\ Stages)
    BY TypeInit, TypeStep, StagesStep, PTL DEF Spec
  <1> QED
    BY <1>1, PTL

\* What the operator supplied is lost in none but the three ways, for every
\* manifest, through crashes, failing calls, renames and uninstalls.
THEOREM NothingIsLost == Spec => NothingLost
  <1> DEFINE IInv == TypeOK /\ Stages /\ Moves /\ Words
             Loss == \E s \in Supplied : Loses(s) /\ ~ MayLose(s)
  <1>1. Init => IInv
    BY TypeInit DEF Init, Moves, Words, Nothing
  <1>2. IInv /\ [Next]_vars => IInv'
    BY TypeStep, StagesStep, MovesStep, WordsStep
  <1>3. IInv /\ [Next]_vars => [~ Loss]_vars
    BY LossStep
  <1>4. ~ Loss <=> \A s \in Supplied : Loses(s) =>
            \/ StripTorn /\ s \notin uploaded
            \/ Strip /\ s \in misnamed
            \/ Migrate /\ cur = s /\ now[s] # None /\ faults' # faults
    BY DEF MayLose
  <1> QED
    BY <1>1, <1>2, <1>3, <1>4, PTL DEF Spec, NothingLost

\* No script is ever given another value of a generated secret than before,
\* unless a read hid it, for every manifest and whatever else fails.
THEOREM GeneratedValuesStay == Spec => NeverRotated
  <1> DEFINE IInv == TypeOK /\ Stages /\ Moves /\ Keeps
             Rotates == ~ \A s \in Generated :
                 given[s] # None /\ given'[s] # None /\ s \notin misread
                     => given'[s] = given[s]
  <1>1. Init => IInv
    BY TypeInit, SecretsAssumption DEF Init, Moves, Keeps, Materializing, Nothing
  <1>2. IInv /\ [Next]_vars => IInv'
    BY TypeStep, StagesStep, MovesStep, KeepsStep
  <1>3. IInv /\ [Next]_vars => [~ Rotates]_vars
    <2> SUFFICES ASSUME IInv, Next
                 PROVE  ~ Rotates
      BY DEF vars
    <2>1. CASE Give
      <3> SUFFICES ASSUME NEW s \in Generated, given[s] # None, s \notin misread
                   PROVE  given'[s] = given[s]
        OBVIOUS
      <3>1. s \in Secret
        BY SecretsAssumption
      <3>2. given'[s] = IF result[s] # None THEN result[s] ELSE given[s]
        BY <2>1, <3>1 DEF Give
      <3>3. result[s] # None => now[s] # None /\ result[s] = now[s]
        BY <3>1 DEF Keeps
      <3> QED
        BY <3>2, <3>3 DEF Keeps
    <2>2. CASE BeginSweep
      BY <2>2, SecretsAssumption DEF BeginSweep, TypeOK
    <2>3. CASE UNCHANGED given
      BY <2>3
    <2> QED
      BY <2>1, <2>2, <2>3 DEF Next, Run, Uninstall, Seed, Start, Strip, StripTorn,
         Upload, Pick, Migrate, Drop, Read, Generate, Crash, Sweep, EndSweep,
         SeedCheck, SeedKey, SeedPub, SeedFails, Fill, Rename, history
  <1> QED
    BY <1>1, <1>2, <1>3, PTL DEF Spec, NeverRotated

\* The halves of the shared key pair fit, after any number of crashes of
\* either installer, unless two of them seeded at once or a read hid the pair.
THEOREM PairAlwaysMatches == Spec => []PairMatches
  <1> DEFINE IInv == TypeOK /\ Stages /\ Pairing
  <1>1. Init => IInv
    BY TypeInit DEF Init, Pairing
  <1>2. IInv /\ [Next]_vars => IInv'
    BY TypeStep, StagesStep, PairingStep
  <1>3. IInv => PairMatches
    BY DEF Pairing, PairMatches
  <1> QED
    BY <1>1, <1>2, <1>3, PTL DEF Spec

\* When a run without a failed call materializes secrets, the operator's file
\* holds none any more, and what it held last is in Vault: for every manifest.
THEOREM FileIsEmptied == Spec => []FileEmptied
  <1> DEFINE IInv == TypeOK /\ Stages /\ Moves /\ Words /\ Emptying /\ Filed
  <1>1. Init => IInv
    BY TypeInit DEF Init, Moves, Words, Emptying, Filed, Nothing, Supplied
  <1>2. IInv /\ [Next]_vars => IInv'
    BY TypeStep, StagesStep, MovesStep, WordsStep, EmptyingStep, FiledStep
  <1>3. IInv => FileEmptied
    BY DEF Filed, Emptying, FileEmptied
  <1> QED
    BY <1>1, <1>2, <1>3, PTL DEF Spec
=============================================================================
