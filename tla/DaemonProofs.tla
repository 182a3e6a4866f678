---------------------------- MODULE DaemonProofs ----------------------------
(***************************************************************************)
(* Theorems about Daemon: it is a SelfUpdate, so that what is proved there *)
(* holds of the whole daemon; and a process that says goodbye sends        *)
(* nothing after it.                                                       *)
(***************************************************************************)
EXTENDS Daemon, SelfUpdateProofs

-----------------------------------------------------------------------------
(* Every step of the daemon is a step of the update, or none of its own.   *)

LEMMA DaemonStep == [DNext]_dvars => [Next]_vars
<1> SUFFICES ASSUME [DNext]_dvars
             PROVE  [Next]_vars
  OBVIOUS
<1> USE DEF Next, HeartbeatStep, WatchdogStep, ProcessStep
<1>1. CASE HeartbeatTask
  BY <1>1 DEF HeartbeatTask, DBeatFails, DBeatAnswered, DNextBeat,
       DBeginRemoval, DRemovalFails, DRemovalHandedOff, DHeartbeatRaises
<1>2. CASE MainTask
  BY <1>2 DEF MainTask, HandleSignal, MainLeaves, GoodbyeEnds, DExit
<1>3. CASE UpdateStep
  BY <1>3 DEF UpdateStep
<1>4. CASE DStart \/ DDie \/ DBoot \/ DCrash \/ SignalAtBoot \/ DExec
  BY <1>4 DEF DStart, DDie, DBoot, DCrash, SignalAtBoot, DExec
<1>5. CASE Signal \/ Submit \/ SubmitEnds \/ CleanupLost \/ CleanupDone
  BY <1>5 DEF Signal, Submit, SubmitEnds, CleanupLost, CleanupDone
<1>6. ASSUME NEW r \in Requests, Handle(r) \/ HandleLate(r) \/ Lose(r)
      PROVE  UNCHANGED vars
  BY <1>6 DEF Handle, HandleLate, Lose
<1>7. CASE UNCHANGED dvars
  BY <1>7 DEF dvars
<1> QED
  BY <1>1, <1>2, <1>3, <1>4, <1>5, <1>6, <1>7 DEF DNext, ProcessGoes

\* Signals, the goodbye, the inventory and a removal leave the self-update as
\* SelfUpdate describes it.
THEOREM DaemonUpdatesItself == DSpec => UpdatesItself
<1>1. DInit => Init
  BY DEF DInit
<1> QED
  BY <1>1, DaemonStep, PTL DEF DSpec, Spec, UpdatesItself

\* So the daemon, whatever stops, removes or crashes it, keeps a binary that
\* has reached the server, as long as no failed revert has cost it one.
THEOREM DaemonKeepsFallback == DSpec => []FallbackKept
<1>1. DSpec => Spec
  BY DaemonUpdatesItself DEF UpdatesItself
<1> QED
  BY <1>1, FallbackIsKept, PTL

-----------------------------------------------------------------------------
(* Types.                                                                  *)

Flags == removed \in BOOLEAN /\ sigterm \in BOOLEAN

Places ==
    /\ main \in {"off", "waiting", "goodbye", "done"}
    /\ inv \in {"off", "submitting", "waiting"}
    /\ net \subseteq Requests
    /\ late \subseteq Lingering
    /\ served \subseteq Requests
    /\ view \in {"running", "removed", "stopped"}
    /\ unit \in {"none", "running", "finished"}

LEMMA FlagsStep == Flags /\ [DNext]_dvars => Flags'
<1> SUFFICES ASSUME Flags, [DNext]_dvars
             PROVE  Flags'
  OBVIOUS
<1> USE DEF Flags, around, Vanish
<1>1. CASE HeartbeatTask
  BY <1>1 DEF HeartbeatTask, DBeatFails, DBeatAnswered, DNextBeat,
       DBeginRemoval, DRemovalFails, DRemovalHandedOff, DHeartbeatRaises
<1>2. CASE MainTask
  BY <1>2 DEF MainTask, HandleSignal, MainLeaves, GoodbyeEnds, DExit
<1>3. CASE UpdateStep
  BY <1>3 DEF UpdateStep
<1>4. CASE DStart \/ DDie \/ DBoot \/ DCrash \/ SignalAtBoot \/ DExec
  BY <1>4 DEF DStart, DDie, DBoot, DCrash, SignalAtBoot, DExec
<1>5. CASE Signal \/ Submit \/ SubmitEnds \/ CleanupLost \/ CleanupDone
  BY <1>5 DEF Signal, Submit, SubmitEnds, CleanupLost, CleanupDone
<1>6. ASSUME NEW r \in Requests, Handle(r) \/ HandleLate(r) \/ Lose(r)
      PROVE  Flags'
  BY <1>6 DEF Handle, HandleLate, Lose
<1>7. CASE UNCHANGED dvars
  BY <1>7 DEF dvars
<1> QED
  BY <1>1, <1>2, <1>3, <1>4, <1>5, <1>6, <1>7 DEF DNext, ProcessGoes

LEMMA PlacesInit == DInit => Places
  BY DEF DInit, Places

LEMMA PlacesStep == Places /\ [DNext]_dvars => Places'
<1> SUFFICES ASSUME Places, [DNext]_dvars
             PROVE  Places'
  OBVIOUS
<1> USE LingeringAssumption
    DEF Places, Requests, around, outside, Vanish, Send, GiveUp, Abandoned, Told
<1>1. CASE HeartbeatTask
  BY <1>1 DEF HeartbeatTask, DBeatFails, DBeatAnswered, DNextBeat,
       DBeginRemoval, DRemovalFails, DRemovalHandedOff, DHeartbeatRaises
<1>2. CASE MainTask
  BY <1>2 DEF MainTask, HandleSignal, MainLeaves, GoodbyeEnds, DExit, Leave
<1>3. CASE UpdateStep
  BY <1>3 DEF UpdateStep
<1>4. CASE DStart \/ DDie \/ DBoot \/ DCrash \/ SignalAtBoot \/ DExec
  BY <1>4 DEF DStart, DDie, DBoot, DCrash, SignalAtBoot, DExec
<1>5. CASE Signal \/ Submit \/ SubmitEnds \/ CleanupLost \/ CleanupDone
  BY <1>5 DEF Signal, Submit, SubmitEnds, CleanupLost, CleanupDone
<1>6. ASSUME NEW r \in Requests, Handle(r) \/ HandleLate(r) \/ Lose(r)
      PROVE  Places'
  BY <1>6 DEF Handle, HandleLate, Lose
<1>7. CASE UNCHANGED dvars
  BY <1>7 DEF dvars
<1> QED
  BY <1>1, <1>2, <1>3, <1>4, <1>5, <1>6, <1>7 DEF DNext, ProcessGoes

\* The daemon's own variables have their types, and those of the update by
\* way of the refinement.
THEOREM DaemonTypeCorrect == DSpec => []DTypeOK
<1>1. DInit => Flags
  BY DEF DInit, Flags
<1>2. DSpec => []TypeOK
  BY DaemonUpdatesItself, TypeCorrect, PTL DEF UpdatesItself
<1>3. TypeOK /\ Flags /\ Places => DTypeOK
  BY DEF Flags, Places, DTypeOK
<1> QED
  BY <1>1, <1>2, <1>3, FlagsStep, PlacesInit, PlacesStep, PTL DEF DSpec

-----------------------------------------------------------------------------
(* The goodbye.                                                            *)

\* When run() has left its wait, its tasks have ended.
TasksEnded == main \in {"goodbye", "done"} => hb = "ended"

LEMMA TasksEndedInit == DInit => TasksEnded
  BY DEF DInit, TasksEnded

LEMMA TasksEndedStep == TasksEnded /\ [DNext]_dvars => TasksEnded'
<1> SUFFICES ASSUME TasksEnded, [DNext]_dvars
             PROVE  TasksEnded'
  OBVIOUS
<1> USE DEF TasksEnded, around, outside, Vanish
<1>1. CASE HeartbeatTask
  BY <1>1, FaultAssumption DEF HeartbeatTask, DBeatFails, DBeatAnswered,
       DNextBeat, DBeginRemoval, DRemovalFails, DRemovalHandedOff,
       DHeartbeatRaises, BeatFails, BeatAnswered, NextBeat, BeginRemoval,
       RemovalFails, RemovalHandedOff, HeartbeatTaskRaises, HeartbeatGoes,
       HeartbeatBusy
<1>2. CASE MainTask
  BY <1>2 DEF MainTask, HandleSignal, MainLeaves, GoodbyeEnds, DExit, Leave,
       CancelTasks, vars
<1>3. CASE UpdateStep
  BY <1>3 DEF UpdateStep, ConfirmSaves, DropBackup, PassOver, StageBinary,
       FetchFails, Fetched, RejectStaged, AcceptStaged, CopyDone, SwapIn,
       Record, WatchdogFires, WatchdogFindsConfirmed, RevertSaves,
       RevertRestores, WatchdogTaskRaises, HeartbeatGoes
<1>4. CASE DStart \/ DDie \/ DBoot \/ DCrash \/ SignalAtBoot \/ DExec
  BY <1>4 DEF DStart, DDie, DBoot, DCrash, SignalAtBoot, DExec, Start, Boot
<1>5. CASE Signal \/ Submit \/ SubmitEnds \/ CleanupLost \/ CleanupDone
  BY <1>5 DEF Signal, Submit, SubmitEnds, CleanupLost, CleanupDone, vars
<1>6. ASSUME NEW r \in Requests, Handle(r) \/ HandleLate(r) \/ Lose(r)
      PROVE  UNCHANGED <<main, hb>>
  BY <1>6 DEF Handle, HandleLate, Lose, vars
<1>7. CASE UNCHANGED dvars
  BY <1>7 DEF dvars, vars
<1> QED
  BY <1>1, <1>2, <1>3, <1>4, <1>5, <1>6, <1>7 DEF DNext, ProcessGoes

\* Once it has begun to say goodbye, a process puts no request on the wire.
THEOREM GoodbyeIsTheLastRequest == DSpec => GoodbyeIsLast
<1> DEFINE Silent == (main \in {"goodbye", "done"}) => net' \subseteq net
<1>1. TasksEnded /\ [DNext]_dvars => [Silent]_dvars
  <2> SUFFICES ASSUME TasksEnded, DNext, main \in {"goodbye", "done"}
               PROVE  net' \subseteq net
    OBVIOUS
  <2>1. hb = "ended"
    BY DEF TasksEnded
  <2>2. CASE HeartbeatTask
    BY <2>1, <2>2, FaultAssumption DEF HeartbeatTask, DBeatFails, DBeatAnswered,
         DNextBeat, DBeginRemoval, DRemovalFails, DRemovalHandedOff,
         DHeartbeatRaises, BeatFails, BeatAnswered, NextBeat, BeginRemoval,
         RemovalFails, RemovalHandedOff, HeartbeatTaskRaises, HeartbeatGoes,
         HeartbeatBusy
  <2>3. CASE MainTask
    BY <2>3 DEF MainTask, HandleSignal, MainLeaves, GoodbyeEnds, DExit, Leave,
         Vanish, GiveUp
  <2>4. CASE DStart \/ DDie \/ DBoot \/ DCrash \/ SignalAtBoot \/ DExec
    BY <2>1, <2>4 DEF DStart, DDie, DBoot, DCrash, SignalAtBoot, DExec, Boot,
         outside, Vanish, GiveUp
  <2>5. CASE Signal \/ Submit \/ SubmitEnds \/ CleanupLost \/ CleanupDone \/ UpdateStep
    BY <2>1, <2>5 DEF Signal, Submit, SubmitEnds, CleanupLost, CleanupDone, UpdateStep,
         LoopIsFree, outside, GiveUp
  <2>6. ASSUME NEW r \in Requests, Handle(r) \/ HandleLate(r) \/ Lose(r)
        PROVE  net' \subseteq net
    BY <2>6 DEF Handle, HandleLate, Lose
  <2> QED
    BY <2>2, <2>3, <2>4, <2>5, <2>6 DEF DNext, ProcessGoes
<1>3. DSpec => [][Silent]_dvars
  BY <1>1, TasksEndedInit, TasksEndedStep, PTL DEF DSpec
<1> QED
  BY <1>3 DEF GoodbyeIsLast

-----------------------------------------------------------------------------
(* The last word.                                                          *)

\* What is in net has a client that waits for it; the tasks run while run()
\* waits, a hand-off ends them, and the cleanup has finished without a process.
InFlight ==
    /\ "running" \in net => hb = "beat"
    /\ "removed" \in net => hb = "removing"
    /\ "stopped" \in net => main = "goodbye"
    /\ hb \notin {"down", "boot", "ended"} => main = "waiting"
    /\ hb \in {"down", "boot"} => net = {} /\ inv = "off"
    /\ removed => hb = "ended" /\ main \in {"waiting", "done"}
    /\ unit = "finished" => hb = "down"

LEMMA InFlightStep ==
  ASSUME Places, TasksEnded, InFlight, [DNext]_dvars
  PROVE  InFlight'
<1> USE DEF InFlight, Requests, Places, around, outside, Vanish, Send, GiveUp
<1>1. CASE HeartbeatTask
  BY <1>1, FaultAssumption DEF HeartbeatTask, DBeatFails, DBeatAnswered,
       DNextBeat, DBeginRemoval, DRemovalFails, DRemovalHandedOff,
       DHeartbeatRaises, BeatFails, BeatAnswered, NextBeat, BeginRemoval,
       RemovalFails, RemovalHandedOff, HeartbeatTaskRaises, HeartbeatGoes,
       HeartbeatBusy
<1>2. CASE HandleSignal
  BY <1>2 DEF HandleSignal, CancelTasks, LoopRuns, Leave
<1>3. CASE MainLeaves \/ GoodbyeEnds \/ DExit
  <2>1. CASE MainLeaves
    BY <2>1 DEF MainLeaves, Leave, vars
  <2>2. CASE GoodbyeEnds
    BY <2>2 DEF GoodbyeEnds, vars
  <2>3. CASE DExit
    BY <2>3 DEF DExit, Exit, Halt
  <2> QED
    BY <1>3, <2>1, <2>2, <2>3
<1>4. CASE UpdateStep
  BY <1>4 DEF UpdateStep, ConfirmSaves, DropBackup, PassOver, StageBinary,
       FetchFails, Fetched, RejectStaged, AcceptStaged, CopyDone, SwapIn,
       Record, WatchdogFires, WatchdogFindsConfirmed, RevertSaves,
       RevertRestores, WatchdogTaskRaises, HeartbeatGoes
<1>5. CASE DStart \/ DBoot
  <2>1. CASE DStart
    BY <2>1 DEF DStart, Start
  <2>2. CASE DBoot
    BY <2>2 DEF DBoot, Boot
  <2> QED
    BY <1>5, <2>1, <2>2
<1>6. CASE DDie \/ DCrash \/ SignalAtBoot \/ DExec
  <2>1. hb # "down" /\ hb' \in {"down", "boot"}
    BY <1>6 DEF DDie, DCrash, SignalAtBoot, DieAtStart, Crash, Halt, DExec, Exec,
         RevertExecs, ExecCurrent, LoopRuns
  <2>2. removed' = FALSE /\ net' = {} /\ inv' = "off"
    BY <1>6 DEF DDie, DCrash, SignalAtBoot, DExec
  <2>3. unit' # "finished"
    BY <1>6, <2>1 DEF DDie, DCrash, SignalAtBoot, DExec
  <2> QED
    BY <2>1, <2>2, <2>3
<1>7. CASE Signal \/ Submit \/ SubmitEnds \/ CleanupLost \/ CleanupDone
  <2>1. CASE Submit
    BY <2>1 DEF Submit, vars
  <2>2. CASE SubmitEnds
    BY <2>2 DEF SubmitEnds, vars
  <2>3. CASE Signal
    BY <2>3 DEF Signal, vars
  <2>4. CASE CleanupLost \/ CleanupDone
    <3>1. UNCHANGED <<hb, main, inv, removed, net>> /\ hb = "down"
      BY <2>4 DEF CleanupLost, CleanupDone, vars
    <3> QED
      BY <3>1
  <2> QED
    BY <1>7, <2>1, <2>2, <2>3, <2>4
<1>8. ASSUME NEW r \in Requests, Handle(r) \/ HandleLate(r) \/ Lose(r)
      PROVE  InFlight'
  <2>1. net' \subseteq net
    BY <1>8 DEF Handle, HandleLate, Lose
  <2>2. UNCHANGED <<vars, around, unit>>
    BY <1>8 DEF Handle, HandleLate, Lose
  <2> QED
    BY <2>1, <2>2 DEF vars
<1>9. CASE UNCHANGED dvars
  BY <1>9 DEF dvars, vars
<1> QED
  BY <1>1, <1>2, <1>3, <1>4, <1>5, <1>6, <1>7, <1>8, <1>9
  DEF DNext, ProcessGoes, MainTask

LEMMA InFlightInit == DInit => InFlight
  BY DEF DInit, Init, InFlight

\* Only what the server handles changes what it was told.
LEMMA ViewIsHandled ==
  ASSUME DNext, view' # view
  PROVE  \/ view' \in net \ {"inventory"}
         \/ view' \in late \ late'
<1> USE DEF around, outside, Vanish
<1>1. ~HeartbeatTask
  BY DEF HeartbeatTask, DBeatFails, DBeatAnswered, DNextBeat, DBeginRemoval,
       DRemovalFails, DRemovalHandedOff, DHeartbeatRaises
<1>2. ~MainTask
  BY DEF MainTask, HandleSignal, MainLeaves, GoodbyeEnds, DExit, Leave
<1>3. ~UpdateStep
  BY DEF UpdateStep
<1>4. ~(DStart \/ DDie \/ DBoot \/ DCrash \/ SignalAtBoot \/ DExec)
  BY DEF DStart, DDie, DBoot, DCrash, SignalAtBoot, DExec
<1>5. ~(Signal \/ Submit \/ SubmitEnds \/ CleanupLost \/ CleanupDone)
  BY DEF Signal, Submit, SubmitEnds, CleanupLost, CleanupDone
<1>6. PICK r \in Requests : Handle(r) \/ HandleLate(r) \/ Lose(r)
  BY <1>1, <1>2, <1>3, <1>4, <1>5 DEF DNext, ProcessGoes
<1> QED
  BY <1>6 DEF Handle, HandleLate, Lose, Told

\* A removal report is taken back by an agent that goes on or starts again, or
\* by a request that was given up, and by nothing else.
THEOREM RemovalStandsFirm == DSpec => RemovalStands
<1> DEFINE Stands ==
      view = "removed" /\ view' # "removed" =>
        \/ view' \in late \ late'
        \/ ~removed /\ hb \notin {"down", "boot"} /\ unit # "finished"
<1>1. Places /\ InFlight /\ [DNext]_dvars => [Stands]_dvars
  BY ViewIsHandled DEF InFlight, Places, Requests
<1> QED
  BY <1>1, InFlightInit, InFlightStep, TasksEndedInit, TasksEndedStep,
     PlacesInit, PlacesStep, PTL DEF DSpec, RemovalStands

\* A goodbye is overtaken by no heartbeat of the process that says it, except
\* one that was still under way when the process gave it up.
THEOREM StopIsKnown == DSpec => StoppedUntilStarted
<1> DEFINE Known ==
      view = "stopped" /\ view' = "running" =>
        main = "waiting" \/ "running" \in late \ late'
<1>1. InFlight /\ [DNext]_dvars => [Known]_dvars
  BY ViewIsHandled DEF InFlight
<1> QED
  BY <1>1, InFlightInit, InFlightStep, TasksEndedInit, TasksEndedStep,
     PlacesInit, PlacesStep, PTL DEF DSpec, StoppedUntilStarted
=============================================================================
