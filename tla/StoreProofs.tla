---------------------------- MODULE StoreProofs ----------------------------
(***************************************************************************)
(* Theorems about StateStore: for any number of processes, kills and power *)
(* losses the file is readable, and saves implement an atomic register.    *)
(***************************************************************************)
EXTENDS StateStore, FiniteSetTheorems, TLAPS

-----------------------------------------------------------------------------
(* The inductive invariant.                                                *)

\* What the invariant needs of the types.
StoreTypes ==
    /\ file \in Files \cup {None}
    /\ older \subseteq Files \cup {None}
    /\ temp \in [Processes -> Files \cup {None}]
    /\ memory \in [Processes -> States \cup {None}]
    /\ pc \in [Processes -> {"off", "reading", "up"} \cup Saving]
    /\ result \in [Processes -> {"none", "saved", "raised", "lost"}]

\* What the name stands for, or stood for, is on the disk and whole.
NamesFlushed ==
    \A f \in older \cup {file} : f # None => f.flushed /\ f.content \in States

\* A save has a state, and its temporary file holds as much of it as the step
\* says, unless the directory was removed.
TempGrows ==
    \A p \in Processes :
        /\ pc[p] \in Saving => memory[p] \in States
        /\ pc[p] \in {"syncing", "replacing"} /\ temp[p] # None
             => temp[p].content = memory[p]
        /\ pc[p] = "replacing" /\ temp[p] # None => temp[p].flushed

DaemonHasState == pc[Daemon] = "up" => memory[Daemon] \in States

StoreInv == StoreTypes /\ NamesFlushed /\ TempGrows /\ DaemonHasState

LEMMA StoreInit == Init => StoreInv
  BY StoreAssumption
  DEF Init, StoreInv, StoreTypes, NamesFlushed, TempGrows, DaemonHasState,
      Saving, Processes

\* One step of a save keeps the invariant when the temporary file it leaves
\* holds what the next step counts on.
LEMMA SaveStep ==
    ASSUME StoreInv, NEW p \in Processes,
           NEW from \in Saving, NEW to \in Saving, NEW f \in Files \cup {None},
           SaveGoes(p, from, to, f),
           to \in {"syncing", "replacing"} /\ f # None => f.content = memory[p],
           to = "replacing" /\ f # None => f.flushed
    PROVE  StoreInv'
<1> USE DEF SaveGoes, shared
<1>1. temp' = [temp EXCEPT ![p] = f] /\ pc' = [pc EXCEPT ![p] = to]
  OBVIOUS
<1>2. UNCHANGED <<file, older, memory, result>>
  OBVIOUS
<1>3. StoreTypes'
  BY <1>1, <1>2 DEF StoreInv, StoreTypes
<1>4. NamesFlushed'
  BY <1>2 DEF StoreInv, NamesFlushed
<1>5. memory[p] \in States
  BY DEF StoreInv, TempGrows
<1>6. TempGrows'
  <2> SUFFICES ASSUME NEW q \in Processes
               PROVE  /\ pc'[q] \in Saving => memory[q] \in States
                      /\ pc'[q] \in {"syncing", "replacing"} /\ temp'[q] # None
                           => temp'[q].content = memory[q]
                      /\ pc'[q] = "replacing" /\ temp'[q] # None
                           => temp'[q].flushed
    BY <1>2 DEF TempGrows
  <2>1. CASE q = p
    BY <2>1, <1>1, <1>5 DEF StoreInv, StoreTypes
  <2>2. CASE q # p
    <3>1. pc'[q] = pc[q] /\ temp'[q] = temp[q]
      BY <2>2, <1>1 DEF StoreInv, StoreTypes
    <3> QED
      BY <3>1 DEF StoreInv, TempGrows
  <2> QED
    BY <2>1, <2>2
<1>7. DaemonHasState'
  BY <1>1, <1>2 DEF StoreInv, StoreTypes, DaemonHasState, Saving, Processes
<1> QED
  BY <1>3, <1>4, <1>6, <1>7 DEF StoreInv

LEMMA StoreStep == StoreInv /\ [Next]_vars => StoreInv'
<1> SUFFICES ASSUME StoreInv, [Next]_vars
             PROVE  StoreInv'
  OBVIOUS
<1> USE StoreAssumption
    DEF StoreInv, StoreTypes, NamesFlushed, TempGrows, DaemonHasState, Saving,
        Processes, shared
<1>1. CASE LookUp
  BY <1>1 DEF LookUp
<1>2. CASE ReadState
  BY <1>2 DEF ReadState, Readable, Files
<1>3. CASE ReadCorrupted
  BY <1>3 DEF ReadCorrupted
<1>4. CASE ChangeRecord
  <2>1. PICK v \in Versions \cup {None} :
               BeginSave(Daemon, [memory[Daemon] EXCEPT !.pending = v])
    BY <1>4 DEF ChangeRecord
  <2>2. [memory[Daemon] EXCEPT !.pending = v] \in States
    BY <1>4 DEF ChangeRecord, States
  <2> QED
    BY <2>1, <2>2 DEF BeginSave
<1>5. CASE Quit
  BY <1>5 DEF Quit
<1>6. ASSUME NEW p \in Enrollers, Enroll(p)
      PROVE  StoreInv'
  <2>1. PICK e \in Enrolments :
               BeginSave(p, [enrolment |-> e, pending |-> None])
    BY <1>6 DEF Enroll
  <2>2. [enrolment |-> e, pending |-> None] \in States
    BY DEF States
  <2> QED
    BY <2>1, <2>2, <1>6 DEF BeginSave
<1>7. ASSUME NEW p \in Processes, MakeTemp(p)
      PROVE  StoreInv'
  <2>1. [content |-> Torn, flushed |-> FALSE] \in Files
    BY DEF Files
  <2> QED
    BY <2>1, <1>7, SaveStep DEF MakeTemp
<1>8. ASSUME NEW p \in Processes, WriteTemp(p)
      PROVE  StoreInv'
  <2> DEFINE f == IF temp[p] = None THEN None
                  ELSE [content |-> memory[p], flushed |-> FALSE]
  <2>1. memory[p] \in States
    BY <1>8 DEF WriteTemp, SaveGoes
  <2>2. f \in Files \cup {None} /\ (f # None => f.content = memory[p])
    BY <2>1 DEF Files
  <2>3. SaveGoes(p, "writing", "syncing", f)
    BY <1>8 DEF WriteTemp
  <2> HIDE DEF f
  <2> QED
    BY <2>2, <2>3, SaveStep
<1>9. ASSUME NEW p \in Processes, SyncTemp(p)
      PROVE  StoreInv'
  <2> DEFINE f == IF temp[p] = None THEN None
                  ELSE [temp[p] EXCEPT !.flushed = TRUE]
  <2>1. temp[p] # None => temp[p] \in Files /\ temp[p].content = memory[p]
    BY <1>9 DEF SyncTemp, SaveGoes
  <2>2. f \in Files \cup {None} /\ (f # None => f.content = memory[p] /\ f.flushed)
    BY <2>1 DEF Files
  <2>3. SaveGoes(p, "syncing", "replacing", f)
    BY <1>9 DEF SyncTemp
  <2> HIDE DEF f
  <2> QED
    BY <2>2, <2>3, SaveStep
<1>10. ASSUME NEW p \in Processes, Replace(p)
       PROVE  StoreInv'
  BY <1>10 DEF Replace, EndSave
<1>11. ASSUME NEW p \in Processes, SaveRaises(p)
       PROVE  StoreInv'
  BY <1>11 DEF SaveRaises, EndSave
<1>12. ASSUME NEW p \in Processes, Kill(p)
       PROVE  StoreInv'
  BY <1>12 DEF Kill, Killed
<1>13. CASE PowerLoss
  BY <1>13 DEF PowerLoss, Killed, Survivor
<1>14. CASE Writeback
  <2>1. file' = None \/ (file # None /\ file' = [file EXCEPT !.flushed = TRUE])
    BY <1>14 DEF Writeback
  <2>2. file' \in Files \cup {None}
    BY <2>1 DEF Files
  <2>3. file' # None => file'.flushed /\ file'.content \in States
    BY <2>1 DEF Files
  <2>4. older' = {}
    BY <1>14 DEF Writeback
  <2>5. StoreTypes'
    BY <1>14, <2>2, <2>4 DEF Writeback
  <2>6. NamesFlushed'
    BY <2>3, <2>4
  <2>7. TempGrows' /\ DaemonHasState'
    BY <1>14 DEF Writeback
  <2> QED
    BY <2>5, <2>6, <2>7
<1>15. CASE RemoveDirectory
  BY <1>15 DEF RemoveDirectory
<1>16. CASE UNCHANGED vars
  BY <1>16 DEF vars
<1> QED
  BY <1>1, <1>2, <1>3, <1>4, <1>5, <1>6, <1>7, <1>8, <1>9, <1>10, <1>11, <1>12,
     <1>13, <1>14, <1>15, <1>16 DEF Next

\* The invariant holds in every state of every run.
THEOREM StoreInvariant == Spec => []StoreInv
  BY StoreInit, StoreStep, PTL DEF Spec

-----------------------------------------------------------------------------
(* What follows from it.                                                   *)

\* Whatever a power loss leaves under the name can be read.
THEOREM StoreIsReadable == Spec => []AlwaysReadable
<1>1. StoreInv => AlwaysReadable
  BY DEF StoreInv, NamesFlushed, AlwaysReadable, Survivor
<1> QED
  BY <1>1, StoreInvariant, PTL

\* The counters are numbers.
CountersInv == left \in Nat /\ outages \in Nat

LEMMA CountersStep == CountersInv /\ [Next]_vars => CountersInv'
<1> SUFFICES ASSUME CountersInv, [Next]_vars
             PROVE  CountersInv'
  OBVIOUS
<1>1. CASE \E p \in Processes : Kill(p)
  BY <1>1 DEF CountersInv, Kill, Killed
<1>2. CASE PowerLoss
  <2>1. PICK n : left' \in left..n
    BY <1>2 DEF PowerLoss
  <2>2. left' \in Nat
    BY <2>1 DEF CountersInv
  <2>3. outages' = outages + 1
    BY <1>2 DEF PowerLoss, Killed
  <2> QED
    BY <2>2, <2>3 DEF CountersInv
<1>3. CASE RemoveDirectory
  BY <1>3 DEF CountersInv, RemoveDirectory
<1>4. CASE UNCHANGED <<left, outages>>
  BY <1>4 DEF CountersInv
<1> QED
  BY <1>1, <1>2, <1>3, <1>4
  DEF Next, LookUp, ReadState, ReadCorrupted, ChangeRecord, BeginSave, Quit,
      Enroll, MakeTemp, WriteTemp, SyncTemp, SaveGoes, Replace, SaveRaises,
      EndSave, Writeback, vars

\* A load never finds a file invalid.
NeverInvalid == loaded # "invalid"

\* Before the first outage nothing takes a saved file away.
SavedIsThere ==
    outages = 0 /\ (\E p \in Processes : result[p] = "saved") => file # None

LEMMA NeverInvalidStep ==
  ASSUME StoreInv, NeverInvalid, [Next]_vars
  PROVE  NeverInvalid'
<1>1. CASE ReadCorrupted
  BY <1>1, StoreAssumption
  DEF ReadCorrupted, Readable, StoreInv, NamesFlushed, NeverInvalid
<1>2. CASE LookUp \/ ReadState
  BY <1>2 DEF LookUp, ReadState, NeverInvalid
<1>3. CASE UNCHANGED loaded
  BY <1>3 DEF NeverInvalid
<1> QED
  BY <1>1, <1>2, <1>3
  DEF Next, ChangeRecord, BeginSave, Quit, Enroll, MakeTemp, WriteTemp, SyncTemp,
      SaveGoes, Replace, SaveRaises, EndSave, Kill, Killed, PowerLoss, Writeback,
      RemoveDirectory, vars

LEMMA SavedIsThereStep ==
  ASSUME StoreInv, CountersInv, SavedIsThere, [Next]_vars
  PROVE  SavedIsThere'
<1>1. ASSUME NEW p \in Processes, Replace(p)
      PROVE  file' # None
  BY <1>1 DEF Replace
<1>2. CASE (\E p \in Processes : Kill(p)) \/ PowerLoss \/ RemoveDirectory
  <2>1. outages' = outages + 1
    BY <1>2 DEF Kill, Killed, PowerLoss, RemoveDirectory
  <2> QED
    BY <2>1 DEF CountersInv, SavedIsThere
<1>3. ASSUME NEW p \in Processes, SaveRaises(p)
      PROVE  SavedIsThere'
  BY <1>3 DEF SaveRaises, EndSave, shared, SavedIsThere, StoreInv, StoreTypes
<1>4. ASSUME NEW p \in Processes, NEW s, BeginSave(p, s)
      PROVE  SavedIsThere'
  BY <1>4 DEF BeginSave, shared, SavedIsThere, StoreInv, StoreTypes
<1>5. CASE Writeback
  <2>1. file # None => file' # None
    BY <1>5, StoreAssumption DEF Writeback, StoreInv, StoreTypes, Files
  <2> QED
    BY <1>5, <2>1 DEF Writeback, SavedIsThere
<1>6. CASE UNCHANGED <<file, result, outages>>
  BY <1>6 DEF SavedIsThere
<1> QED
  BY <1>1, <1>2, <1>3, <1>4, <1>5, <1>6
  DEF Next, LookUp, ReadState, ReadCorrupted, ChangeRecord, Enroll, Quit, MakeTemp,
      WriteTemp, SyncTemp, SaveGoes, shared, vars, SavedIsThere, Processes

\* However a load races with the saves of others it never finds a file invalid,
\* and it finds one wherever a save has succeeded and no outage has come.
THEOREM LoadIsTruthful == Spec => []LoadFindsState
<1>1. Init => NeverInvalid /\ SavedIsThere /\ CountersInv
  BY DEF Init, NeverInvalid, SavedIsThere, CountersInv
<1>2. NeverInvalid /\ SavedIsThere => LoadFindsState
  BY DEF NeverInvalid, SavedIsThere, LoadFindsState
<1> QED
  BY <1>1, <1>2, StoreInvariant, CountersStep, NeverInvalidStep, SavedIsThereStep,
     PTL DEF Spec

\* A save leaves no temporary file behind unless it was cut off.
THEOREM SavesCleanUp == Spec => LeftOnlyByOutages
<1>1. Init => CountersInv
  BY DEF Init, CountersInv
<1>2. CountersInv /\ [Next]_vars => (left' > left => outages' > outages)
  <2> SUFFICES ASSUME CountersInv, [Next]_vars, left' > left
               PROVE  outages' > outages
    OBVIOUS
  <2>1. \/ UNCHANGED left
        \/ outages' = outages + 1
    BY DEF Next, LookUp, ReadState, ReadCorrupted, ChangeRecord, BeginSave, Quit,
           Enroll, MakeTemp, WriteTemp, SyncTemp, SaveGoes, Replace, SaveRaises,
           EndSave, Kill, Killed, PowerLoss, Writeback, RemoveDirectory, vars
  <2> QED
    BY <2>1 DEF CountersInv
<1> QED
  BY <1>1, <1>2, CountersStep, PTL DEF Spec, LeftOnlyByOutages

-----------------------------------------------------------------------------
(* Types.                                                                  *)

\* An outage cuts each process off in at most one save, so that it leaves at
\* most one temporary file of each behind.
LeftBounded ==
    /\ outages \in 0..MaxOutages
    /\ left \in Nat
    /\ left <= outages * Cardinality(Processes)
    /\ loaded \in {"none", "state", "absent", "unread", "invalid"}

LEMMA FiniteProcesses ==
    /\ IsFiniteSet(Processes)
    /\ Cardinality(Processes) \in Nat \ {0}
    /\ \A S \in SUBSET Processes :
         Cardinality(S) \in Nat /\ Cardinality(S) <= Cardinality(Processes)
<1>1. IsFiniteSet(Processes)
  BY StoreAssumption, FS_Singleton, FS_Union DEF Processes
<1>2. Cardinality(Processes) # 0
  BY <1>1, FS_EmptySet DEF Processes
<1> QED
  BY <1>1, <1>2, FS_CardinalityType, FS_Subset

\* One outage more, and up to one file more of each process.
LEMMA BoundGrows ==
    ASSUME LeftBounded, outages < MaxOutages, outages' = outages + 1,
           loaded' = loaded,
           NEW n \in Nat, n <= Cardinality(Processes), left' \in left..(left + n)
    PROVE  LeftBounded'
<1> DEFINE C == Cardinality(Processes)
<1>1. C \in Nat
  BY FiniteProcesses
<1> HIDE DEF C
<1>2. outages \in Nat /\ left \in Nat /\ left <= outages * C
  BY DEF LeftBounded, C
<1>3. (outages + 1) * C = outages * C + C
  BY <1>1, <1>2
<1>4. left' <= outages * C + C
  <2>1. n <= C /\ outages * C \in Nat
    BY <1>1, <1>2 DEF C
  <2> DEFINE oc == outages * C
  <2> HIDE DEF oc
  <2> QED
    BY <1>1, <1>2, <2>1 DEF oc
<1>5. left' <= outages' * C
  BY <1>3, <1>4
<1> QED
  BY <1>2, <1>5, StoreAssumption DEF LeftBounded, C

LEMMA BoundStep == LeftBounded /\ [Next]_vars => LeftBounded'
<1> SUFFICES ASSUME LeftBounded, [Next]_vars
             PROVE  LeftBounded'
  OBVIOUS
<1>1. CASE \E p \in Processes : Kill(p)
  <2>1. left' \in left..(left + 1)
    BY <1>1 DEF Kill, LeftBounded
  <2>2. 1 <= Cardinality(Processes)
    BY FiniteProcesses
  <2> QED
    BY <1>1, <2>1, <2>2, BoundGrows DEF Kill, Killed
<1>2. CASE PowerLoss
  <2> DEFINE cut == {p \in Processes : temp[p] # None}
  <2>1. Cardinality(cut) \in Nat /\ Cardinality(cut) <= Cardinality(Processes)
    BY FiniteProcesses
  <2>2. left' \in left..(left + Cardinality(cut))
    BY <1>2 DEF PowerLoss
  <2> QED
    BY <1>2, <2>1, <2>2, BoundGrows DEF PowerLoss, Killed
<1>3. CASE RemoveDirectory
  <2>1. left' = 0 /\ outages' = outages + 1 /\ outages < MaxOutages /\ loaded' = loaded
    BY <1>3 DEF RemoveDirectory
  <2>2. outages' \in Nat /\ Cardinality(Processes) \in Nat
    BY <2>1, FiniteProcesses DEF LeftBounded
  <2>3. outages' * Cardinality(Processes) \in Nat
    BY <2>2
  <2> QED
    BY <2>1, <2>2, <2>3, StoreAssumption DEF LeftBounded
<1>4. CASE UNCHANGED <<left, outages>>
           /\ loaded' \in {"none", "state", "absent", "unread", "invalid"}
  BY <1>4 DEF LeftBounded
<1> QED
  BY <1>1, <1>2, <1>3, <1>4
  DEF LeftBounded, Next, LookUp, ReadState, ReadCorrupted, ChangeRecord, BeginSave,
      Quit, Enroll, MakeTemp, WriteTemp, SyncTemp, SaveGoes, Replace, SaveRaises,
      EndSave, Writeback, vars

\* The variables have their types, and there are at most as many temporary
\* files left behind as outages times processes (state.py, save).
THEOREM StoreTypeCorrect == Spec => []STypeOK
<1>1. Init => LeftBounded
  <2>1. 0 * Cardinality(Processes) = 0
    BY FiniteProcesses
  <2> QED
    BY <2>1, StoreAssumption DEF Init, LeftBounded
<1>2. StoreInv /\ LeftBounded => STypeOK
  <2> SUFFICES ASSUME StoreInv, LeftBounded
               PROVE  STypeOK
    OBVIOUS
  <2> DEFINE C == Cardinality(Processes)
  <2>1. outages * C <= MaxOutages * C
    <3>1. C \in Nat /\ outages \in Nat /\ MaxOutages - outages \in Nat
      BY FiniteProcesses, StoreAssumption DEF LeftBounded
    <3>2. MaxOutages * C = outages * C + (MaxOutages - outages) * C
      BY <3>1, StoreAssumption
    <3>3. (MaxOutages - outages) * C >= 0
      BY <3>1
    <3> QED
      BY <3>1, <3>2, <3>3, StoreAssumption
  <2>2. left \in 0..(MaxOutages * C)
    <3>1. outages * C \in Int /\ MaxOutages * C \in Int
      BY FiniteProcesses, StoreAssumption DEF LeftBounded
    <3> DEFINE oc == outages * C
               mc == MaxOutages * C
    <3>2. left \in Nat /\ left <= oc
      BY DEF LeftBounded
    <3> HIDE DEF oc, mc
    <3>3. oc \in Int /\ mc \in Int /\ oc <= mc
      BY <2>1, <3>1 DEF oc, mc
    <3>4. left \in 0..mc
      BY <3>2, <3>3
    <3> QED
      BY <3>4 DEF mc
  <2> QED
    BY <2>2 DEF STypeOK, StoreInv, StoreTypes, LeftBounded
<1> QED
  BY <1>1, <1>2, BoundStep, StoreInvariant, PTL DEF Spec

-----------------------------------------------------------------------------
(* Saves implement Register.                                               *)

\* Files that are on the disk and whole are read as what they hold.
LEMMA ContentOfFlushed ==
  ASSUME NEW f, f # None, f.flushed
  PROVE  Content(f) = f.content
  BY DEF Content, Survivor

LEMMA RegisterInit == Init => Store!Init
  BY DEF Init, Store!Init, Content, Asked, Saving

\* A save that moves on inside its steps, and everything a daemon does with
\* the file but save, is no step of the register.
LEMMA RegisterStep == StoreInv /\ [Next]_vars => [Store!Next]_(Store!vars)
<1> SUFFICES ASSUME StoreInv, [Next]_vars
             PROVE  [Store!Next]_(Store!vars)
  OBVIOUS
<1> USE StoreAssumption DEF shared
<1>1. ASSUME file' = file, older' = older, result' = result,
             \A p \in Processes : Asked(p)' = Asked(p)
      PROVE  UNCHANGED Store!vars
  <2>1. {Content(f) : f \in older}' = {Content(f) : f \in older}
    BY <1>1 DEF Content, Survivor
  <2>2. Content(file)' = Content(file)
    BY <1>1 DEF Content, Survivor
  <2> QED
    BY <1>1, <2>1, <2>2 DEF Store!vars
<1>2. CASE LookUp
  <2>1. \A p \in Processes : Asked(p)' = Asked(p)
    BY <1>2 DEF LookUp, Asked, Saving, StoreInv, StoreTypes
  <2> QED
    BY <1>1, <1>2, <2>1 DEF LookUp
<1>3. CASE ReadState
  <2>1. \A p \in Processes : Asked(p)' = Asked(p)
    BY <1>3 DEF ReadState, Asked, Saving, StoreInv, StoreTypes
  <2> QED
    BY <1>1, <1>3, <2>1 DEF ReadState
<1>4. CASE ReadCorrupted
  <2>1. \A p \in Processes : Asked(p)' = Asked(p)
    BY <1>4 DEF ReadCorrupted, Asked, Saving, StoreInv, StoreTypes
  <2> QED
    BY <1>1, <1>4, <2>1 DEF ReadCorrupted
<1>5. CASE Quit
  <2>1. \A p \in Processes : Asked(p)' = Asked(p)
    BY <1>5 DEF Quit, Asked, Saving, StoreInv, StoreTypes
  <2> QED
    BY <1>1, <1>5, <2>1 DEF Quit
<1>6. ASSUME NEW p \in Processes, NEW s \in States, pc[p] \notin Saving,
             BeginSave(p, s)
      PROVE  Store!Ask(p, s)
  <2>1. [q \in Processes |-> Asked(q)]'
          = [[q \in Processes |-> Asked(q)] EXCEPT ![p] = s]
    BY <1>6 DEF BeginSave, Asked, Saving, StoreInv, StoreTypes
  <2>2. UNCHANGED <<Content(file), {Content(f) : f \in older}>>
    BY <1>6 DEF BeginSave, Content, Survivor
  <2> QED
    BY <1>6, <2>1, <2>2 DEF BeginSave, Asked, Store!Ask
<1>7. CASE ChangeRecord
  <2>1. PICK v \in Versions \cup {None} :
               BeginSave(Daemon, [memory[Daemon] EXCEPT !.pending = v])
    BY <1>7 DEF ChangeRecord
  <2>2. [memory[Daemon] EXCEPT !.pending = v] \in States
    BY <1>7 DEF ChangeRecord, States, StoreInv, DaemonHasState
  <2>3. pc[Daemon] \notin Saving
    BY <1>7 DEF ChangeRecord, Saving
  <2> QED
    BY <1>6, <2>1, <2>2, <2>3 DEF Store!Next, Processes
<1>8. ASSUME NEW p \in Enrollers, Enroll(p)
      PROVE  Store!Next
  <2>1. PICK e \in Enrolments :
               BeginSave(p, [enrolment |-> e, pending |-> None])
    BY <1>8 DEF Enroll
  <2>2. [enrolment |-> e, pending |-> None] \in States
    BY DEF States
  <2>3. pc[p] \notin Saving
    BY <1>8 DEF Enroll, Saving
  <2> QED
    BY <1>6, <2>1, <2>2, <2>3 DEF Store!Next, Processes
<1>9. ASSUME NEW p \in Processes, MakeTemp(p) \/ WriteTemp(p) \/ SyncTemp(p)
      PROVE  UNCHANGED Store!vars
  <2>1. \A q \in Processes : Asked(q)' = Asked(q)
    BY <1>9 DEF MakeTemp, WriteTemp, SyncTemp, SaveGoes, Asked, Saving, StoreInv,
                StoreTypes
  <2> QED
    BY <1>1, <1>9, <2>1 DEF MakeTemp, WriteTemp, SyncTemp, SaveGoes
<1>10. ASSUME NEW p \in Processes, Replace(p)
       PROVE  Store!Take(p)
  <2>1. Asked(p) = memory[p] /\ memory[p] \in States
    BY <1>10 DEF Replace, Asked, Saving, StoreInv, TempGrows
  <2>2. Content(temp[p]) = memory[p]
    BY <1>10, ContentOfFlushed DEF Replace, StoreInv, TempGrows
  <2>3. Content(file)' = Asked(p)
    BY <1>10, <2>1, <2>2 DEF Replace, Content, Survivor
  <2>4. {Content(f) : f \in older}' = {Content(f) : f \in older} \cup {Content(file)}
    BY <1>10 DEF Replace, Content, Survivor
  <2>5. [q \in Processes |-> Asked(q)]'
          = [[q \in Processes |-> Asked(q)] EXCEPT ![p] = None]
    BY <1>10 DEF Replace, EndSave, Asked, Saving, StoreInv, StoreTypes
  <2> QED
    BY <1>10, <2>1, <2>3, <2>4, <2>5 DEF Replace, EndSave, Store!Take
<1>11. ASSUME NEW p \in Processes, SaveRaises(p)
       PROVE  Store!Refuse(p)
  <2>1. Asked(p) # None
    BY <1>11 DEF SaveRaises, Asked, StoreInv, TempGrows
  <2>2. [q \in Processes |-> Asked(q)]'
          = [[q \in Processes |-> Asked(q)] EXCEPT ![p] = None]
    BY <1>11 DEF SaveRaises, EndSave, Asked, Saving, StoreInv, StoreTypes
  <2>3. UNCHANGED <<Content(file), {Content(f) : f \in older}>>
    BY <1>11 DEF SaveRaises, Content, Survivor
  <2> QED
    BY <1>11, <2>1, <2>2, <2>3 DEF SaveRaises, EndSave, Store!Refuse
<1>12. ASSUME NEW p \in Processes, Kill(p)
       PROVE  Store!Refuse(p) \/ UNCHANGED Store!vars
  <2>1. CASE pc[p] \in Saving
    <3>1. Asked(p) # None
      BY <2>1 DEF Asked, StoreInv, TempGrows
    <3>2. [q \in Processes |-> Asked(q)]'
            = [[q \in Processes |-> Asked(q)] EXCEPT ![p] = None]
      BY <1>12 DEF Kill, Killed, Asked, Saving, StoreInv, StoreTypes
    <3>3. result' = [result EXCEPT ![p] = "lost"]
      BY <1>12, <2>1 DEF Kill, Killed, StoreInv, StoreTypes
    <3>4. UNCHANGED <<Content(file), {Content(f) : f \in older}>>
      BY <1>12 DEF Kill, Content, Survivor
    <3> QED
      BY <3>1, <3>2, <3>3, <3>4 DEF Store!Refuse
  <2>2. CASE pc[p] \notin Saving
    <3>1. \A q \in Processes : Asked(q)' = Asked(q)
      BY <1>12, <2>2 DEF Kill, Killed, Asked, Saving, StoreInv, StoreTypes
    <3>2. result' = result
      BY <1>12, <2>2 DEF Kill, Killed, StoreInv, StoreTypes
    <3> QED
      BY <1>1, <1>12, <3>1, <3>2 DEF Kill
  <2> QED
    BY <2>1, <2>2
<1>13. CASE PowerLoss
  <2>1. \A f \in older \cup {file} : Survivor(f) = f
    BY DEF StoreInv, NamesFlushed, Survivor
  <2>2. PICK f \in older \cup {file} : file' = f
    BY <1>13, <2>1 DEF PowerLoss
  <2>3. Content(file)' = Content(f)
    BY <2>2 DEF Content, Survivor
  <2>4. {Content(g) : g \in older}' = {}
    BY <1>13 DEF PowerLoss
  <2>5. \A q \in Processes : Asked(q)' = None
    BY <1>13 DEF PowerLoss, Killed, Asked, Saving
  <2>6. result' = [q \in Processes |->
                     IF Asked(q) # None THEN "lost" ELSE result[q]]
    BY <1>13 DEF PowerLoss, Killed, Asked, StoreInv, TempGrows
  <2> QED
    BY <2>3, <2>4, <2>5, <2>6 DEF Store!PowerLoss, Store!Next
<1>14. CASE Writeback
  <2>1. Content(file)' = Content(file)
    BY <1>14 DEF Writeback, Content, Survivor, StoreInv, StoreTypes, NamesFlushed,
                 Files
  <2>2. {Content(f) : f \in older}' = {}
    BY <1>14 DEF Writeback
  <2>3. UNCHANGED <<[q \in Processes |-> Asked(q)], result>>
    BY <1>14 DEF Writeback, Asked
  <2> QED
    BY <2>1, <2>2, <2>3 DEF Store!Writeback, Store!Next
<1>15. CASE RemoveDirectory
  <2>1. Content(file)' = None
    BY <1>15 DEF RemoveDirectory, Content
  <2>2. {Content(f) : f \in older}' = {Content(f) : f \in older} \cup {Content(file)}
    BY <1>15 DEF RemoveDirectory, Content, Survivor
  <2>3. UNCHANGED <<[q \in Processes |-> Asked(q)], result>>
    BY <1>15 DEF RemoveDirectory, Asked
  <2> QED
    BY <2>1, <2>2, <2>3 DEF Store!Remove, Store!Next
<1>16. CASE UNCHANGED vars
  BY <1>1, <1>16 DEF vars, Asked
<1> QED
  BY <1>2, <1>3, <1>4, <1>5, <1>7, <1>8, <1>9, <1>10, <1>11, <1>12, <1>13, <1>14,
     <1>15, <1>16 DEF Next, Store!Next

\* Every save takes effect once or not at all, its process is told which, and
\* a power loss brings back a saved state or none.
THEOREM SavesImplementRegister == Spec => SavesAtomically
  BY StoreInvariant, RegisterInit, RegisterStep, PTL
  DEF Spec, SavesAtomically, Store!Spec
=============================================================================
