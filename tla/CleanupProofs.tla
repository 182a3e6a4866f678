--------------------------- MODULE CleanupProofs ---------------------------
(***************************************************************************)
(* Theorems about Cleanup, for every set of files that `rm' may fail on:   *)
(* to the daemon the script is one step, no process of the agent is ever   *)
(* short of a file, and what the script has passed is gone.                *)
(***************************************************************************)
EXTENDS Cleanup, DaemonProofs

Complete ==
    /\ Placed \ {"state"} \subseteq files
    /\ files \cap {"state", "newstate"} # {}

\* Past its first command the script works on a host whose service is disabled
\* and down, and no file is gone before that; the unit is at its first command
\* for as long as the daemon knows it to run.
CInv ==
    /\ files \subseteq Placed \cup {"newstate"}
    /\ line \in 0..Done
    /\ unit = "running" => line = 1
    /\ unit = "finished" => ~enabled
    /\ line > 1 => hb = "down" /\ ~enabled
    /\ Complete \/ (hb = "down" /\ ~enabled)

LEMMA ScriptIs ==
    /\ Done = 7
    /\ DOMAIN Script = 1..6
    /\ Script[1] = "disable"
    /\ Script[2] = "unitfile"
    /\ Script[3] = "envfile"
    /\ Script[4] = "envdir"
    /\ Script[5] = "state"
    /\ Script[6] = "binary"
  BY DEF Script, Done

\* Without a process nothing of the daemon moves, and only a removal starts
\* the unit.
LEMMA ProcessKeeps ==
  ASSUME ProcessGoes
  PROVE  /\ hb = "down" => hb' = "down" /\ unit' = unit
         /\ unit' # unit => unit' = "running"
<1> USE DEF around, outside, vars, Vanish
<1>1. CASE HeartbeatTask
  BY <1>1, FaultAssumption DEF HeartbeatTask, DBeatFails, DBeatAnswered,
       DNextBeat, DBeginRemoval, DRemovalFails, DRemovalHandedOff,
       DHeartbeatRaises, BeatFails, BeatAnswered, NextBeat, BeginRemoval,
       RemovalFails, RemovalHandedOff, HeartbeatTaskRaises, HeartbeatGoes,
       HeartbeatBusy
<1>2. CASE MainTask
  BY <1>2 DEF MainTask, HandleSignal, MainLeaves, GoodbyeEnds, DExit, Leave,
       CancelTasks, LoopRuns, Exit, Halt
<1>3. CASE UpdateStep
  BY <1>3 DEF UpdateStep, ConfirmSaves, DropBackup, PassOver, StageBinary,
       FetchFails, Fetched, RejectStaged, AcceptStaged, CopyDone, SwapIn,
       Record, WatchdogFires, WatchdogFindsConfirmed, RevertSaves,
       RevertRestores, WatchdogTaskRaises, HeartbeatGoes, WatchdogGoes,
       LoopRuns
<1>4. CASE DDie \/ DBoot \/ SignalAtBoot
  BY <1>4 DEF DDie, DBoot, SignalAtBoot, DieAtStart, Boot
<1>5. CASE DExec
  BY <1>5 DEF DExec, Exec, RevertExecs, LoopRuns
<1>6. CASE Signal \/ Submit \/ SubmitEnds
  BY <1>6 DEF Signal, Submit, SubmitEnds
<1>7. ASSUME NEW r \in Requests, Handle(r) \/ HandleLate(r) \/ Lose(r)
      PROVE  UNCHANGED <<hb, unit>>
  BY <1>7 DEF Handle, HandleLate, Lose
<1> QED
  BY <1>1, <1>2, <1>3, <1>4, <1>5, <1>6, <1>7 DEF ProcessGoes

LEMMA CleanupInit == CInit => CInv
  BY ScriptIs DEF CInit, CInv, DInit, Complete, Placed

LEMMA CleanupStep == CInv /\ [CNext]_cvars => CInv'
<1> SUFFICES ASSUME CInv, [CNext]_cvars
             PROVE  CInv'
  OBVIOUS
<1> USE ScriptIs DEF CInv, Complete, Placed
<1>1. CASE Beside(ProcessGoes)
  BY <1>1, ProcessKeeps DEF Beside
<1>2. CASE ServiceStarts
  BY <1>2 DEF ServiceStarts, Start, host, outside
<1>3. CASE ServiceCrashes
  BY <1>3 DEF ServiceCrashes, DCrash, Crash, Halt
<1>4. CASE ScriptGoes
  <2>1. CASE Disable
    BY <1>4, <2>1 DEF Disable, dvars, vars, outside
  <2>2. CASE Stopped
    BY <2>2 DEF Stopped, Runs, CleanupDone, vars
  <2>3. ASSUME NEW piece \in Placed, Remove(piece)
        PROVE  CInv'
    <3>1. line > 1 /\ line \in 1..6
      BY <2>3 DEF Remove, Runs
    <3> QED
      BY <2>3, <3>1 DEF Remove, dvars, vars, outside
  <2> QED
    BY <1>4, <2>1, <2>2, <2>3 DEF ScriptGoes
<1>5. CASE PowerLost
  BY <1>5 DEF PowerLost, CleanupLost, dvars, vars, outside
<1>6. CASE Enrol \/ EnrolSaves \/ EnrolFails
  <2>1. UNCHANGED <<enabled, line, hb, unit>>
    BY <1>6 DEF Enrol, EnrolSaves, EnrolFails, dvars, vars, outside
  <2>2. files' \in {files, (files \ {"state"}) \cup {"newstate"}}
    BY <1>6 DEF Enrol, EnrolSaves, EnrolFails
  <2> QED
    BY <2>1, <2>2
<1>7. CASE UNCHANGED cvars
  BY <1>7 DEF cvars, dvars, vars, outside, host
<1> QED
  BY <1>1, <1>2, <1>3, <1>4, <1>5, <1>6, <1>7 DEF CNext

\* No file is gone, and no process starts again, before the service is down
\* and disabled.
THEOREM CleanupInvariant == CSpec => []CInv
  BY CleanupInit, CleanupStep, PTL DEF CSpec

\* The script is at its first command for as long as the daemon knows it to
\* run.
THEOREM CleanupTypeCorrect == CSpec => []CTypeOK
<1> DEFINE Switches == enabled \in BOOLEAN /\ enrol \in BOOLEAN
<1>1. CInit => Switches
  BY DEF CInit
<1>2. Switches /\ [CNext]_cvars => Switches'
  BY DEF CNext, Beside, ServiceStarts, ServiceCrashes, ScriptGoes, Disable,
    Stopped, Remove, PowerLost, Enrol, EnrolSaves, EnrolFails, cvars, host
<1>3. CInv /\ Switches => CTypeOK
  BY DEF CInv, CTypeOK
<1> QED
  BY <1>1, <1>2, <1>3, CleanupInvariant, PTL DEF CSpec

-----------------------------------------------------------------------------
(* The daemon in its host.                                                 *)

\* The commands of the script are one step of the daemon's world, taken when
\* its process is down; what a power loss leaves of it is a unit that is gone.
THEOREM CleanupRunsDaemon == CSpec => RunsDaemon
<1>1. CInit => DInit
  BY DEF CInit
<1>2. CInv /\ [CNext]_cvars => [DNext]_dvars
  <2> SUFFICES ASSUME CInv, [CNext]_cvars
               PROVE  [DNext]_dvars
    OBVIOUS
  <2> USE DEF DNext
  <2>1. CASE Beside(ProcessGoes)
    BY <2>1 DEF Beside
  <2>2. CASE ServiceStarts
    BY <2>2 DEF ServiceStarts, DStart, CInv
  <2>3. CASE ServiceCrashes
    BY <2>3 DEF ServiceCrashes
  <2>4. CASE ScriptGoes
    BY <2>4 DEF ScriptGoes, Disable, Stopped, Remove
  <2>5. CASE PowerLost
    BY <2>5 DEF PowerLost
  <2>6. CASE Enrol \/ EnrolSaves \/ EnrolFails
    BY <2>6 DEF Enrol, EnrolSaves, EnrolFails
  <2>7. CASE UNCHANGED cvars
    BY <2>7 DEF cvars
  <2> QED
    BY <2>1, <2>2, <2>3, <2>4, <2>5, <2>6, <2>7 DEF CNext
<1> QED
  BY <1>1, <1>2, CleanupInvariant, PTL DEF CSpec, DSpec, RunsDaemon

\* Nothing is deleted under a process, and no process starts on a host that is
\* half clean, however often the script is cut off.
THEOREM ProcessHasItsFiles == CSpec => []DaemonHasFiles
<1>1. CInv => DaemonHasFiles
  BY DEF CInv, Complete, DaemonHasFiles
<1> QED
  BY <1>1, CleanupInvariant, PTL

\* Whatever fails, a command that the script has passed has done its work or
\* is excused for it.
THEOREM ScriptIsUndoing == CSpec => []ScriptUndoes
<1>1. CInit => ScriptUndoes
  BY DEF CInit, ScriptUndoes
<1>2. CInv /\ ScriptUndoes /\ [CNext]_cvars => ScriptUndoes'
  <2> SUFFICES ASSUME CInv, ScriptUndoes, [CNext]_cvars,
                      NEW i \in 1..(line' - 1), Script[i] \in files'
               PROVE  Script[i] \in Leftover
    BY DEF ScriptUndoes, Leftover
  <2> USE ScriptIs DEF CInv
  <2>1. line' # 0 /\ line' # 1
    OBVIOUS
  <2>2. CASE UNCHANGED <<files, line>>
    BY <2>2 DEF ScriptUndoes
  <2>3. CASE Stopped
    <3>1. line = 1 /\ line' = 2 /\ files' = files
      BY <2>3 DEF Stopped, Runs
    <3> QED
      BY <3>1 DEF Placed
  <2>4. CASE EnrolSaves
    BY <2>4 DEF EnrolSaves, ScriptUndoes, Leftover
  <2>5. ASSUME NEW piece \in Placed, Remove(piece)
        PROVE  Script[i] \in Leftover
    <3>1. line \in 2..6 /\ Script[line] = piece /\ line' = line + 1
      BY <2>5, ScriptIs DEF Remove, Runs, Placed
    <3>2. files' \subseteq files
      BY <2>5 DEF Remove
    <3>3. CASE i < line
      <4>1. i \in 1..(line - 1)
        BY <3>1, <3>3
      <4> QED
        BY <3>2, <4>1 DEF ScriptUndoes
    <3>4. CASE i = line /\ piece \in MayFail
      BY <3>1, <3>4 DEF Leftover
    <3>5. CASE i = line /\ piece \notin MayFail
      <4>1. piece = "envdir" /\ "envfile" \in files
        BY <2>5, <3>1, <3>5 DEF Remove, Target
      <4>2. 3 \in 1..(line - 1)
        BY <3>1, <4>1, ScriptIs
      <4>3. "envfile" \in Leftover
        BY <4>1, <4>2, ScriptIs DEF ScriptUndoes
      <4>4. "envfile" \in MayFail
        BY <4>3 DEF Leftover
      <4> QED
        BY <3>1, <3>5, <4>1, <4>4 DEF Leftover
    <3> QED
      BY <3>1, <3>3, <3>4, <3>5
  <2> QED
    BY <2>1, <2>2, <2>3, <2>4, <2>5 DEF CNext, Beside, ServiceStarts, ServiceCrashes,
      ScriptGoes, Disable, PowerLost, Enrol, EnrolFails, cvars, host
<1> QED
  BY <1>1, <1>2, CleanupInvariant, PTL DEF CSpec
=============================================================================
