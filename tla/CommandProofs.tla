--------------------------- MODULE CommandProofs ---------------------------
(***************************************************************************)
(* Theorems about Command: it is StateStore with enrolments that come from *)
(* the server, and what it says of them is true, for any number of tokens, *)
(* of enrolls at the same time, and of kills and power losses.             *)
(***************************************************************************)
EXTENDS Command, StoreProofs

-----------------------------------------------------------------------------
(* The inductive invariant.                                                *)

CommandTypes ==
    /\ spent \subseteq Enrolments
    /\ asks \in [Enrollers -> Enrolments \cup {None}]
    /\ reply \in [Enrollers -> Replies \cup {None}]
    /\ made \in [Enrollers -> Enrolments \cup {None}]
    /\ DOMAIN ended = Processes

\* An enroll asks, then saves what was made for it, and then is over.
Phase(p) ==
    /\ pc[p] \in {"off"} \cup Saving
    /\ asks[p] # None => pc[p] = "off" /\ ended[p] = None
    /\ reply[p] # None => asks[p] # None
    /\ reply[p] = None /\ asks[p] # None => made[p] = None
    /\ reply[p] # None /\ reply[p].ok => made[p] = asks[p]
    /\ made[p] # None => made[p] \in spent
    /\ pc[p] = "off" => memory[p] = None
    /\ pc[p] \in Saving => /\ ended[p] = None
                           /\ made[p] # None
                           /\ memory[p].enrolment = made[p]

Phases == \A p \in Enrollers : Phase(p)

\* The server makes an enrolment once.
Apart ==
    \A p, q \in Enrollers : p # q /\ made[p] # None => made[p] # made[q]

InFile(e) == \E f \in (older \cup {file}) \ {None} : f.content.enrolment = e

InMemory(p, e) == memory[p] # None /\ memory[p].enrolment = e

Real ==
    \A e : InFile(e) \/ (\E p \in Processes : InMemory(p, e)) => e \in spent

\* Until it is renamed into place, the enrolment of an enroll is nowhere but in
\* its own memory; nor is it later, if the enroll failed.
Unsaved(p) ==
    made[p] # None /\ (asks[p] # None \/ pc[p] \in Saving \/ Failed(p))

Hidden ==
    \A p \in Enrollers : Unsaved(p) =>
        /\ ~InFile(made[p])
        /\ \A q \in Processes \ {p} : ~InMemory(q, made[p])

CommandInv == CommandTypes /\ Phases /\ Apart /\ Real /\ Hidden

-----------------------------------------------------------------------------
LEMMA CommandInitially == CommandInit => Init /\ StoreInv /\ CommandInv
<1> SUFFICES ASSUME CommandInit
             PROVE  CommandInv
  BY StoreInit DEF CommandInit
<1> QED
  BY StoreAssumption
  DEF CommandInit, Init, CommandInv, CommandTypes, Phases, Phase, Apart, Real, Hidden,
      Unsaved, InFile, InMemory, Saving, Processes

\* The steps of enroll before its save.
LEMMA RequestStep ==
    ASSUME StoreInv, CommandInv, NEW p \in Enrollers,
           \/ EnrollWithoutUrl(p)
           \/ \E token \in Enrolments : SendEnroll(p, token)
           \/ HandleEnroll(p)
           \/ RequestFails(p)
           \/ EnrollRaises(p)
    PROVE  UNCHANGED vars /\ CommandInv'
<1>1. UNCHANGED vars
  BY DEF EnrollWithoutUrl, SendEnroll, HandleEnroll, RequestFails, EnrollRaises
<1>2. /\ \A e : InFile(e)' <=> InFile(e)
      /\ \A q, e : InMemory(q, e)' <=> InMemory(q, e)
      /\ UNCHANGED <<pc, memory, file, older>>
  BY <1>1 DEF vars, InFile, InMemory
<1>3. p \in Processes
  BY DEF Processes
<1>4. CASE EnrollWithoutUrl(p)
  BY <1>1, <1>2, <1>3, <1>4
  DEF EnrollWithoutUrl, Idle, Ends, CommandInv, CommandTypes, Phases, Phase, Apart, Real,
      Hidden, Unsaved, Failed, Saving
<1>5. ASSUME NEW token \in Enrolments, SendEnroll(p, token)
      PROVE  CommandInv'
  BY <1>1, <1>2, <1>3, <1>5
  DEF SendEnroll, Idle, Ends, CommandInv, CommandTypes, Phases, Phase, Apart, Real,
      Hidden, Unsaved, Failed, Saving
<1>6. CASE HandleEnroll(p)
  <2>1. PICK r \in Replies :
          /\ r.ok => asks[p] \notin spent
          /\ reply' = [reply EXCEPT ![p] = r]
          /\ made' = [made EXCEPT ![p] = IF r.ok THEN asks[p] ELSE @]
          /\ spent' = IF r.ok THEN spent \cup {asks[p]} ELSE spent
    BY <1>6 DEF HandleEnroll
  <2>2. asks[p] \in Enrolments /\ asks[p] # None /\ reply[p] = None /\ made[p] = None
    BY <1>6 DEF HandleEnroll, CommandInv, CommandTypes, Phases, Phase
  <2>3. UNCHANGED <<asks, ended, pc, memory>>
    BY <1>2, <1>6 DEF HandleEnroll
  <2>4. CommandTypes'
    BY <2>1, <2>2, <2>3 DEF CommandInv, CommandTypes
  <2>5. Phases'
    <3> SUFFICES ASSUME NEW q \in Enrollers
                 PROVE  Phase(q)'
      BY DEF Phases
    <3>1. CASE q = p
      <4>1. /\ reply'[p] = r /\ r # None
            /\ made'[p] = IF r.ok THEN asks[p] ELSE None
            /\ made'[p] # None => made'[p] \in spent'
        BY <2>1, <2>2, CommandAssumption DEF CommandInv, CommandTypes
      <4> QED
        BY <2>2, <2>3, <3>1, <4>1 DEF CommandInv, Phases, Phase, Saving
    <3>2. CASE q # p
      BY <2>1, <2>2, <2>3, <3>2 DEF CommandInv, CommandTypes, Phases, Phase, Saving
    <3> QED
      BY <3>1, <3>2
  <2>6. Apart'
    BY <2>1, <2>2, <2>3 DEF CommandInv, CommandTypes, Phases, Phase, Apart
  <2>7. Real'
    BY <1>2, <2>1 DEF CommandInv, Real
  <2>8. r.ok => /\ ~InFile(asks[p])
                /\ \A q \in Processes : ~InMemory(q, asks[p])
    BY <2>1 DEF CommandInv, Real
  <2>9. ASSUME NEW q \in Enrollers, Unsaved(q)'
        PROVE  /\ ~InFile(made'[q])
               /\ \A o \in Processes \ {q} : ~InMemory(o, made'[q])
    <3>1. CASE q = p
      <4>1. r.ok /\ made'[p] = asks[p]
        BY <2>1, <2>2, <2>9, <3>1 DEF CommandInv, CommandTypes, Unsaved
      <4> QED
        BY <2>8, <3>1, <4>1
    <3>2. CASE q # p
      <4>1. made'[q] = made[q] /\ Unsaved(q)
        BY <2>1, <2>3, <2>9, <3>2 DEF CommandInv, CommandTypes, Unsaved, Failed
      <4> QED
        BY <4>1 DEF CommandInv, Hidden
    <3> QED
      BY <3>1, <3>2
  <2>10. Hidden'
    <3>1. ASSUME NEW q \in Enrollers, Unsaved(q)'
          PROVE  /\ ~InFile(made[q])'
                 /\ \A o \in Processes \ {q} : ~InMemory(o, made[q])'
      BY <1>2, <2>9, <3>1 DEF InFile, InMemory
    <3> QED
      BY <3>1 DEF Hidden
  <2> QED
    BY <1>1, <2>4, <2>5, <2>6, <2>7, <2>10 DEF CommandInv
<1>7. CASE RequestFails(p)
  BY <1>1, <1>2, <1>3, <1>7
  DEF RequestFails, CloseRequest, Ends, CommandInv, CommandTypes, Phases, Phase, Apart,
      Real, Hidden, Unsaved, Failed, Saving
<1>8. CASE EnrollRaises(p)
  BY <1>1, <1>2, <1>3, <1>8
  DEF EnrollRaises, CloseRequest, Ends, CommandInv, CommandTypes, Phases, Phase, Apart,
      Real, Hidden, Unsaved, Failed, Saving
<1> QED
  BY <1>1, <1>4, <1>5, <1>6, <1>7, <1>8

\* What happens to an enroll whose state is put under the name.
Placed(p) ==
    /\ pc[p] = "replacing"
    /\ p \in Enrollers =>
         pc'[p] = "off" /\ ended'[p] \in {"return", "KeyboardInterrupt"}

\* What a step of StateStore other than enroll's does to the enrolments: a file
\* gets the one of a save that ends, the daemon's memory the one of the file.
LEMMA StoreMoves ==
    ASSUME StoreInv, CommandTypes, NEW e,
           \/ LoadStep \/ DaemonStep \/ MachineStep
           \/ \E p \in Processes : SavesOn(p) \/ CutOff(p)
    PROVE  /\ InFile(e)' => InFile(e) \/ \E p \in Processes : Placed(p) /\ InMemory(p, e)
           /\ \A q \in Processes :
                InMemory(q, e)' => InMemory(q, e) \/ (q = Daemon /\ InFile(e))
<1> USE StoreAssumption DEF shared, Processes
<1>0. /\ file \in Files \cup {None} /\ older \subseteq Files \cup {None}
      /\ memory \in [Processes -> States \cup {None}]
      /\ \A f \in older \cup {file} : f # None => f.flushed /\ f.content \in States
  BY DEF StoreInv, StoreTypes, NamesFlushed
<1>1. CASE LoadStep
  BY <1>0, <1>1 DEF LoadStep, LookUp, ReadState, Readable, ReadCorrupted, InFile, InMemory
<1>2. CASE DaemonStep
  <2>1. CASE Quit
    BY <1>0, <2>1 DEF Quit, InFile, InMemory
  <2>2. CASE ChangeRecord
    <3>1. PICK v : BeginSave(Daemon, [memory[Daemon] EXCEPT !.pending = v])
      BY <2>2 DEF ChangeRecord
    <3>2. memory[Daemon] \in States
      BY <2>2 DEF ChangeRecord, StoreInv, DaemonHasState
    <3>3. [memory[Daemon] EXCEPT !.pending = v].enrolment = memory[Daemon].enrolment
      BY <3>2 DEF States
    <3> QED
      BY <1>0, <3>1, <3>2, <3>3 DEF BeginSave, InFile, InMemory
  <2> QED
    BY <1>2, <2>1, <2>2 DEF DaemonStep
<1>3. ASSUME NEW p \in Processes, SavesOn(p)
      PROVE  /\ InFile(e)' => InFile(e) \/ \E q \in Processes : Placed(q) /\ InMemory(q, e)
             /\ \A q \in Processes : InMemory(q, e)' => InMemory(q, e)
  <2>1. CASE MakeTemp(p) \/ WriteTemp(p) \/ SyncTemp(p)
    BY <2>1 DEF MakeTemp, WriteTemp, SyncTemp, SaveGoes, InFile, InMemory
  <2>2. CASE Replace(p)
    <3>1. /\ pc[p] = "replacing" /\ temp[p] # None
          /\ file' = temp[p] /\ older' = older \cup {file}
          /\ memory' = [memory EXCEPT ![p] = IF p = Daemon THEN @ ELSE None]
      BY <2>2 DEF Replace, EndSave
    <3>2. temp[p].content = memory[p] /\ memory[p] \in States
      BY <3>1 DEF StoreInv, TempGrows, Saving
    <3>3. InFile(e)' => InFile(e) \/ InMemory(p, e)
      BY <3>1, <3>2 DEF InFile, InMemory
    <3>4. \A q \in Processes : InMemory(q, e)' => InMemory(q, e)
      BY <1>0, <3>1 DEF InMemory
    <3>5. Placed(p)
      BY <1>3, <2>2
      DEF SavesOn, Replace, MakeTemp, WriteTemp, SyncTemp, SaveGoes, SaveRaises, EndSave,
          Ends, Placed, StoreInv, StoreTypes, CommandTypes
    <3> QED
      BY <3>3, <3>4, <3>5
  <2>3. CASE SaveRaises(p)
    BY <1>0, <2>3 DEF SaveRaises, EndSave, InFile, InMemory
  <2> QED
    BY <1>3, <2>1, <2>2, <2>3 DEF SavesOn
<1>4. ASSUME NEW p \in Processes, CutOff(p)
      PROVE  /\ InFile(e)' => InFile(e)
             /\ \A q \in Processes : InMemory(q, e)' => InMemory(q, e)
  BY <1>0, <1>4 DEF CutOff, Kill, Killed, InFile, InMemory
<1>5. CASE MachineStep
  <2>1. CASE PowerLoss
    <3>1. \A f \in older \cup {file} : Survivor(f) = f
      BY <1>0 DEF Survivor
    <3>2. file' \in older \cup {file} /\ older' = {}
      BY <2>1, <3>1 DEF PowerLoss
    <3>3. \A q \in Processes : memory'[q] = None
      BY <2>1 DEF PowerLoss, Killed
    <3> QED
      BY <3>2, <3>3 DEF InFile, InMemory
  <2>2. CASE Writeback
    <3>1. file' = None \/ (file # None /\ file' = [file EXCEPT !.flushed = TRUE])
      BY <2>2 DEF Writeback
    <3>2. file' # None => file # None /\ file'.content = file.content
      BY <1>0, <3>1 DEF Files
    <3>3. older' = {} /\ memory' = memory
      BY <2>2 DEF Writeback
    <3> QED
      BY <3>2, <3>3 DEF InFile, InMemory
  <2>3. CASE RemoveDirectory
    BY <2>3 DEF RemoveDirectory, InFile, InMemory
  <2> QED
    BY <1>5, <2>1, <2>2, <2>3 DEF MachineStep
<1> QED
  BY <1>1, <1>2, <1>3, <1>4, <1>5

\* enroll has its answer: the enrolment made for it goes to its own memory.
LEMMA AnsweredStep ==
    ASSUME StoreInv, CommandInv, NEW p \in Enrollers, EnrollAnswered(p)
    PROVE  Enroll(p) /\ CommandInv'
<1> USE StoreAssumption DEF Processes
<1>1. /\ pc[p] = "off" /\ reply[p] # None
      /\ BeginSave(p, [enrolment |-> made[p], pending |-> None])
      /\ asks' = [asks EXCEPT ![p] = None] /\ reply' = [reply EXCEPT ![p] = None]
      /\ UNCHANGED <<spent, made, ended>>
  BY DEF EnrollAnswered, CloseRequest
<1>2. reply[p].ok
  BY <1>1, CommandAssumption
  DEF EnrollAnswered, EnrollOutcome, RequestJson, Replies, CommandInv, CommandTypes
<1>3. asks[p] # None /\ made[p] = asks[p] /\ ended[p] = None
  BY <1>1, <1>2 DEF CommandInv, Phases, Phase
<1>4. made[p] \in Enrolments /\ made[p] # None
  BY <1>3 DEF CommandInv, CommandTypes
<1>5. Enroll(p)
  BY <1>1, <1>4 DEF Enroll
<1> DEFINE s == [enrolment |-> made[p], pending |-> None]
<1>6. s \in States /\ s.enrolment = made[p] /\ s # None
  BY <1>4 DEF States
<1>7. /\ memory' = [memory EXCEPT ![p] = s] /\ pc' = [pc EXCEPT ![p] = "making"]
      /\ UNCHANGED <<file, older>>
  BY <1>1 DEF BeginSave, shared
<1> HIDE DEF s
<1>8. /\ memory'[p] = s /\ pc'[p] = "making"
      /\ \A q \in Processes \ {p} : memory'[q] = memory[q] /\ pc'[q] = pc[q]
  BY <1>7 DEF StoreInv, StoreTypes
<1>9. CommandTypes'
  BY <1>1 DEF CommandInv, CommandTypes
<1>10. Phases'
  <2> SUFFICES ASSUME NEW q \in Enrollers
               PROVE  Phase(q)'
    BY DEF Phases
  <2>1. Phase(q)
    BY DEF CommandInv, Phases
  <2>2. CASE q = p
    BY <1>1, <1>3, <1>4, <1>6, <1>8, <2>1, <2>2
    DEF Phase, CommandInv, CommandTypes, Saving
  <2>3. CASE q # p
    BY <1>1, <1>8, <2>1, <2>3 DEF Phase, CommandInv, CommandTypes, Saving
  <2> QED
    BY <2>2, <2>3
<1>11. Apart'
  BY <1>1 DEF CommandInv, Apart
<1>12. \A e : InFile(e)' <=> InFile(e)
  BY <1>7 DEF InFile
<1>13. Real'
  <2> SUFFICES ASSUME NEW e, InFile(e)' \/ \E q \in Processes : InMemory(q, e)'
               PROVE  e \in spent
    BY <1>1 DEF Real
  <2>1. CASE InFile(e)'
    BY <1>12, <2>1 DEF CommandInv, Real
  <2>2. ASSUME NEW q \in Processes, InMemory(q, e)'
        PROVE  e \in spent
    <3>1. CASE q = p
      BY <1>4, <1>6, <1>8, <2>2, <3>1 DEF InMemory, CommandInv, Phases, Phase
    <3>2. CASE q # p
      BY <1>8, <2>2, <3>2 DEF InMemory, CommandInv, Real
    <3> QED
      BY <3>1, <3>2
  <2> QED
    BY <2>1, <2>2
<1>14. Hidden'
  <2> SUFFICES ASSUME NEW q \in Enrollers, Unsaved(q)', NEW o \in Processes \ {q}
               PROVE  ~InFile(made[q])' /\ ~InMemory(o, made[q])'
    BY <1>1, <1>7 DEF Hidden, InFile, InMemory
  <2>1. Unsaved(q)
    BY <1>1, <1>3, <1>8 DEF Unsaved, Failed, CommandInv, CommandTypes
  <2>2. ~InFile(made[q]) /\ ~InMemory(o, made[q]) /\ made[q] # None
    BY <2>1 DEF CommandInv, Hidden, Unsaved
  <2>3. ~InFile(made[q])'
    BY <1>1, <1>7, <2>2 DEF InFile
  <2>4. ~InMemory(o, made[q])'
    <3>1. CASE o = p
      <4>1. made[p] # made[q]
        BY <1>4, <3>1 DEF CommandInv, Apart
      <4> QED
        BY <1>1, <1>6, <1>8, <3>1, <4>1 DEF InMemory
    <3>2. CASE o # p
      BY <1>1, <1>8, <2>2, <3>2 DEF InMemory
    <3> QED
      BY <3>1, <3>2
  <2> QED
    BY <2>3, <2>4
<1> QED
  BY <1>5, <1>9, <1>10, <1>11, <1>13, <1>14 DEF CommandInv

\* A command, a save or an outage that is not a step of enroll's own.
Move ==
    \/ LoadStep \/ DaemonStep \/ MachineStep
    \/ \E p \in Processes : SavesOn(p) \/ CutOff(p)

\* What a move leaves of an enroll: it asks no more than before, it saves only
\* what it was saving, and it fails only before the end.
LEMMA MovePhases ==
    ASSUME StoreInv, CommandInv, Move
    PROVE  /\ CommandTypes'
           /\ Phases'
           /\ UNCHANGED <<spent, made>>
           /\ \A p \in Enrollers :
                Unsaved(p)' => Unsaved(p) /\ ~Placed(p)
<1> USE StoreAssumption DEF Processes
<1>0. /\ CommandTypes /\ Phases
      /\ memory \in [Processes -> States \cup {None}]
      /\ pc \in [Processes -> {"off", "reading", "up"} \cup Saving]
  BY DEF CommandInv, StoreInv, StoreTypes
<1> DEFINE Kept(p) == Unsaved(p)' => Unsaved(p) /\ ~Placed(p)
           Goal == /\ CommandTypes' /\ Phases' /\ UNCHANGED <<spent, made>>
                   /\ \A p \in Enrollers : Kept(p)
<1>1. ASSUME UNCHANGED request, DOMAIN ended' = Processes,
             \A p \in Enrollers : /\ pc'[p] = pc[p] /\ memory'[p] = memory[p]
                                  /\ ended'[p] = ended[p]
      PROVE  Goal
  <2>1. CommandTypes'
    BY <1>0, <1>1 DEF CommandTypes, request
  <2>2. Phases'
    BY <1>0, <1>1 DEF Phases, Phase, request
  <2>3. \A p \in Enrollers : Kept(p)
    BY <1>0, <1>1 DEF Unsaved, Failed, request, Placed
  <2> QED
    BY <1>1, <2>1, <2>2, <2>3 DEF request
<1>2. CASE LoadStep
  BY <1>0, <1>1, <1>2 DEF LoadStep, LookUp, ReadState, ReadCorrupted, Ends, CommandTypes
<1>3. CASE DaemonStep
  BY <1>0, <1>1, <1>3 DEF DaemonStep, ChangeRecord, BeginSave, Quit, Ends, CommandTypes
<1>4. ASSUME NEW p \in Processes, SavesOn(p) \/ CutOff(p)
      PROVE  Goal
  <2>1. /\ UNCHANGED request /\ DOMAIN ended' = Processes
        /\ \A q \in Processes \ {p} : /\ pc'[q] = pc[q] /\ memory'[q] = memory[q]
                                      /\ ended'[q] = ended[q]
    BY <1>0, <1>4
    DEF SavesOn, CutOff, Ends, MakeTemp, WriteTemp, SyncTemp, SaveGoes, Replace,
        SaveRaises, EndSave, Kill, Killed, CommandTypes
  <2>2. CASE p = Daemon
    BY <1>1, <2>1, <2>2
  <2>3. CASE p \in Enrollers
    <3>1. /\ pc[p] \in Saving
          /\ \/ pc'[p] \in Saving /\ memory'[p] = memory[p] /\ ended'[p] = ended[p]
                  /\ pc'[p] # "off"
             \/ pc'[p] = "off" /\ memory'[p] = None
                  /\ (Failed(p)' => ~Placed(p))
      BY <1>0, <1>4, <2>3
      DEF SavesOn, CutOff, Ends, MakeTemp, WriteTemp, SyncTemp, SaveGoes, Replace,
          SaveRaises, EndSave, Kill, Killed, CommandTypes, Phases, Phase, Saving, Failed,
          Status, Placed
    <3>2. CommandTypes'
      BY <1>0, <2>1 DEF CommandTypes, request
    <3>3. Phases'
      BY <1>0, <2>1, <3>1 DEF Phases, Phase, Saving, request
    <3>4. asks[p] = None
      BY <1>0, <2>3, <3>1 DEF Phases, Phase, Saving
    <3>5. Kept(p)
      BY <2>1, <2>3, <3>1, <3>4 DEF Unsaved, Placed, Saving, request
    <3>6. \A q \in Enrollers \ {p} : Kept(q)
      BY <1>0, <2>1 DEF Unsaved, Failed, request, Placed
    <3> QED
      BY <2>1, <3>2, <3>3, <3>5, <3>6 DEF request
  <2> QED
    BY <2>2, <2>3
<1>5. CASE MachineStep
  <2>1. ASSUME PowerLoss,
               asks' = [p \in Enrollers |-> None], reply' = [p \in Enrollers |-> None],
               ended' = [p \in Processes |->
                           IF pc[p] # "off" \/ (p # Daemon /\ asks[p] # None)
                           THEN "killed" ELSE ended[p]],
               UNCHANGED <<spent, made>>
        PROVE  Goal
    <3>1. \A p \in Processes : pc'[p] = "off" /\ memory'[p] = None
      BY <2>1 DEF PowerLoss, Killed
    <3>2. CommandTypes'
      BY <1>0, <2>1 DEF CommandTypes
    <3>3. Phases'
      BY <1>0, <2>1, <3>1 DEF Phases, Phase, Saving
    <3>4. ASSUME NEW p \in Enrollers, Unsaved(p)'
          PROVE  Unsaved(p) /\ ~Placed(p)
      <4>1. Failed(p)'
        BY <2>1, <3>1, <3>4 DEF Unsaved, Saving
      <4>2. ended'[p] # "killed"
        BY <4>1 DEF Failed, Status
      <4> QED
        BY <2>1, <3>4, <4>1, <4>2 DEF Unsaved, Failed, Placed
    <3> QED
      BY <2>1, <3>2, <3>3, <3>4
  <2>2. CASE (Writeback \/ RemoveDirectory) /\ UNCHANGED <<request, ended>>
    BY <1>0, <1>1, <2>2 DEF Writeback, RemoveDirectory, CommandTypes
  <2> QED
    BY <1>5, <2>1, <2>2 DEF MachineStep
<1> QED
  BY <1>2, <1>3, <1>4, <1>5 DEF Move

LEMMA MoveStep ==
    ASSUME StoreInv, CommandInv, Move
    PROVE  CommandInv'
<1>1. CommandTypes' /\ Phases' /\ UNCHANGED <<spent, made>>
  BY MovePhases
<1>2. \A e : /\ InFile(e)' => InFile(e) \/ \E p \in Processes : Placed(p) /\ InMemory(p, e)
             /\ \A q \in Processes :
                  InMemory(q, e)' => InMemory(q, e) \/ (q = Daemon /\ InFile(e))
  BY StoreMoves DEF Move, CommandInv
<1>3. Apart'
  BY <1>1 DEF CommandInv, Apart
<1>4. Real'
  <2> SUFFICES ASSUME NEW e, InFile(e)' \/ \E p \in Processes : InMemory(p, e)'
               PROVE  e \in spent
    BY <1>1 DEF Real
  <2>1. InFile(e) \/ \E p \in Processes : InMemory(p, e)
    BY <1>2
  <2> QED
    BY <2>1 DEF CommandInv, Real
<1>5. Hidden'
  <2> SUFFICES ASSUME NEW p \in Enrollers, Unsaved(p)'
               PROVE  /\ ~InFile(made[p])'
                      /\ \A q \in Processes \ {p} : ~InMemory(q, made[p])'
    BY DEF Hidden
  <2>1. Unsaved(p) /\ ~Placed(p)
    BY MovePhases
  <2>2. /\ ~InFile(made[p])
        /\ \A q \in Processes \ {p} : ~InMemory(q, made[p])
    BY <2>1 DEF CommandInv, Hidden
  <2> DEFINE e == made[p]
  <2>3. /\ InFile(e)' => InFile(e) \/ \E q \in Processes : Placed(q) /\ InMemory(q, e)
        /\ \A q \in Processes :
             InMemory(q, e)' => InMemory(q, e) \/ (q = Daemon /\ InFile(e))
    <3>1. \A x : x = e =>
            /\ InFile(x)' => InFile(x) \/ \E q \in Processes : Placed(q) /\ InMemory(q, x)
            /\ \A q \in Processes :
                 InMemory(q, x)' => InMemory(q, x) \/ (q = Daemon /\ InFile(x))
      BY <1>2
    <3>2. e' = e
      BY <1>1
    <3> QED
      BY <3>1, <3>2 DEF InFile, InMemory
  <2> QED
    BY <2>1, <2>2, <2>3
<1> QED
  BY <1>1, <1>3, <1>4, <1>5 DEF CommandInv

\* Every step is one of StateStore, or none, and keeps the invariant.
LEMMA CommandStep ==
    StoreInv /\ CommandInv /\ [CommandNext]_commandVars => [Next]_vars /\ CommandInv'
<1> SUFFICES ASSUME StoreInv, CommandInv, [CommandNext]_commandVars
             PROVE  [Next]_vars /\ CommandInv'
  OBVIOUS
<1>1. ASSUME NEW p \in Enrollers,
             \/ EnrollWithoutUrl(p)
             \/ \E token \in Enrolments : SendEnroll(p, token)
             \/ HandleEnroll(p)
             \/ RequestFails(p)
             \/ EnrollRaises(p)
      PROVE  [Next]_vars /\ CommandInv'
  BY <1>1, RequestStep
<1>2. ASSUME NEW p \in Enrollers, EnrollAnswered(p)
      PROVE  [Next]_vars /\ CommandInv'
  BY <1>2, AnsweredStep DEF Next
<1>3. CASE RunWithoutUrl
  <2>1. UNCHANGED <<vars, request>> /\ Ends(Daemon, "RuntimeError")
    BY <1>3 DEF RunWithoutUrl
  <2>2. \A p \in Enrollers : ended'[p] = ended[p]
    BY <2>1, StoreAssumption DEF Ends, CommandInv, CommandTypes, Processes
  <2>3. CommandTypes'
    BY <2>1 DEF request, Ends, CommandInv, CommandTypes
  <2>4. CommandInv'
    BY <2>1, <2>2, <2>3
    DEF vars, request, CommandInv, Phases, Phase, Apart, Real, Hidden, Unsaved, Failed,
        InFile, InMemory
  <2> QED
    BY <2>1, <2>4
<1>4. CASE Move
  <2>1. [Next]_vars
    BY <1>4
    DEF Move, LoadStep, DaemonStep, MachineStep, SavesOn, CutOff, Next
  <2> QED
    BY <1>4, <2>1, MoveStep
<1>5. CASE UNCHANGED commandVars
  <2>1. UNCHANGED <<vars, request, ended>>
    BY <1>5 DEF commandVars, request
  <2>2. CommandInv'
    BY <2>1
    DEF vars, request, CommandInv, CommandTypes, Phases, Phase, Apart, Real, Hidden,
        Unsaved, Failed, InFile, InMemory
  <2> QED
    BY <2>1, <2>2
<1> QED
  BY <1>1, <1>2, <1>3, <1>4, <1>5 DEF CommandNext, Move

\* The commands do with the state file what StateStore says: every theorem
\* about it holds of the enrolments the server makes.
THEOREM CommandImplementsStore == CommandSpec => Spec /\ [](StoreInv /\ CommandInv)
<1>1. StoreInv /\ CommandInv /\ [CommandNext]_commandVars
        => [Next]_vars /\ StoreInv' /\ CommandInv'
  BY CommandStep, StoreStep
<1> QED
  BY <1>1, CommandInitially, PTL DEF CommandSpec, Spec

-----------------------------------------------------------------------------
(* What follows from it.                                                   *)

\* Whatever answers are lost, garbled or refused, an agent has no enrolment
\* that the server did not make for it (cli.py, the answer before the save).
THEOREM OnlyRealEnrolments == CommandSpec => []EnrolmentsAreReal
<1>1. StoreInv /\ CommandInv => EnrolmentsAreReal
  BY DEF CommandInv, Real, InFile, InMemory, EnrolmentsAreReal, Held
<1> QED
  BY <1>1, CommandImplementsStore, PTL

\* An enroll that reports a failure has left its enrolment nowhere, for any
\* number of enrolls and daemons' saves around it (cli.py and state.save).
THEOREM FailureLeavesNothing == CommandSpec => []FailedEnrollLeavesNothing
<1>1. StoreInv /\ CommandInv => FailedEnrollLeavesNothing
  <2> SUFFICES ASSUME StoreInv, CommandInv, NEW p \in Enrollers, Failed(p),
                      made[p] # None
               PROVE  made[p] \notin Held
    BY DEF FailedEnrollLeavesNothing
  <2>1. /\ ~InFile(made[p])
        /\ \A q \in Processes \ {p} : ~InMemory(q, made[p])
    BY DEF CommandInv, Hidden, Unsaved
  <2>2. memory[p] = None
    BY DEF CommandInv, Phases, Phase, Failed
  <2> QED
    BY <2>1, <2>2 DEF Held, InFile, InMemory
<1> QED
  BY <1>1, CommandImplementsStore, PTL

\* Exit status 0 of an enroll that was not interrupted means that its
\* enrolment has been put under the name (cli.py, save before the return).
THEOREM ZeroMeansSaved == CommandSpec => SuccessIsSaved
<1> DEFINE Told(p) ==
      ended[p] = None /\ ended'[p] # None /\ Status(ended'[p]) = 0 =>
        \/ ended'[p] = "KeyboardInterrupt"
        \/ file' # None /\ file'.content.enrolment = made[p]
<1>1. StoreInv /\ CommandInv /\ [CommandNext]_commandVars
        => \A p \in Enrollers : Told(p)
  <2> SUFFICES ASSUME StoreInv, CommandInv, [CommandNext]_commandVars,
                      NEW p \in Enrollers,
                      ended[p] = None, ended'[p] # None, Status(ended'[p]) = 0,
                      ended'[p] # "KeyboardInterrupt"
               PROVE  file' # None /\ file'.content.enrolment = made[p]
    OBVIOUS
  <2>1. p \in Processes /\ p # Daemon /\ DOMAIN ended = Processes
    BY StoreAssumption DEF Processes, CommandInv, CommandTypes
  <2>2. ended'[p] = "return"
    BY DEF Status
  <2>3. Replace(p)
    BY <2>1, <2>2, CommandAssumption
    DEF CommandNext, EnrollWithoutUrl, SendEnroll, HandleEnroll, RequestFails,
        EnrollRaises, EnrollAnswered, RunWithoutUrl, LoadStep, DaemonStep, SavesOn,
        CutOff, MachineStep, Ends, commandVars
  <2>4. temp[p] # None /\ file' = temp[p] /\ pc[p] = "replacing"
    BY <2>3 DEF Replace
  <2>5. temp[p].content = memory[p] /\ memory[p].enrolment = made[p]
    BY <2>1, <2>4 DEF StoreInv, TempGrows, CommandInv, Phases, Phase, Saving
  <2> QED
    BY <2>4, <2>5
<1> QED
  BY <1>1, CommandImplementsStore, PTL DEF CommandSpec, SuccessIsSaved
=============================================================================
