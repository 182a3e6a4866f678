-------------------------- MODULE SelfUpdateProofs --------------------------
(***************************************************************************)
(* Theorems about SelfUpdate, for every set of versions, every set of      *)
(* points where an exception may escape, the save of the watchdog's revert *)
(* among them, and every number of crashes.                                *)
(***************************************************************************)
EXTENDS SelfUpdate, TLAPS

-----------------------------------------------------------------------------
(* Types.                                                                  *)

\* Where an update is on its way it is the signed one of the response, once
\* the download is over there is a staged file, from the copy on the file is
\* the one the directive names, and a process has a version.
UpdateAtHand ==
    /\ hb \in {"fetching", "verifying", "copying", "swapping", "recording"}
         => answer.update # None /\ answer.update.signed
    /\ hb \in {"verifying", "copying", "swapping"} => staged # None
    /\ hb \in {"copying", "swapping"} => Verified
    /\ hb # "down" => running # None

TypeInv == TypeOK /\ UpdateAtHand

LEMMA TypeInit == Init => TypeInv
<1> SUFFICES ASSUME Init PROVE TypeInv
  OBVIOUS
<1>1. NoAnswer \in Answers
  BY DEF NoAnswer, Answers
<1>2. forfeited \in BOOLEAN
  BY DEF Init
<1> QED
  BY <1>1, <1>2, VersionAssumption, FaultAssumption
  DEF Init, TypeInv, TypeOK, UpdateAtHand

LEMMA TypeStep == TypeInv /\ [Next]_vars => TypeInv'
<1> SUFFICES ASSUME TypeInv, [Next]_vars
             PROVE  TypeInv'
  OBVIOUS
<1> USE VersionAssumption, FaultAssumption
    DEF TypeInv, TypeOK, UpdateAtHand, Verified, Answers, Updates, NoAnswer,
        HeartbeatBusy, HeartbeatAwaits, WatchdogBusy, disk, memory, history
<1>1. CASE HeartbeatStep
  <2>1. CASE BeatFails
    BY <2>1 DEF BeatFails, HeartbeatGoes
  <2>2. ASSUME NEW a \in Answers, BeatAnswered(a)
        PROVE  TypeInv'
    BY <2>2 DEF BeatAnswered, HeartbeatGoes
  <2>3. CASE ConfirmSaves
    BY <2>3 DEF ConfirmSaves, HeartbeatGoes
  <2>4. CASE DropBackup
    BY <2>4 DEF DropBackup, HeartbeatGoes
  <2>5. CASE BeginRemoval
    BY <2>5 DEF BeginRemoval, HeartbeatGoes
  <2>6. CASE RemovalFails
    BY <2>6 DEF RemovalFails, HeartbeatGoes
  <2>7. CASE RemovalHandedOff
    BY <2>7 DEF RemovalHandedOff, HeartbeatGoes
  <2>8. CASE NextBeat
    BY <2>8 DEF NextBeat, HeartbeatGoes
  <2>9. CASE PassOver
    BY <2>9 DEF PassOver, HeartbeatGoes
  <2>10. CASE StageBinary
    BY <2>10 DEF StageBinary, HeartbeatGoes, Installable
  <2>11. CASE FetchFails
    BY <2>11 DEF FetchFails, HeartbeatGoes
  <2>12. ASSUME NEW v \in Versions, Fetched(v)
        PROVE  TypeInv'
    BY <2>12 DEF Fetched, HeartbeatGoes
  <2>13. CASE RejectStaged
    BY <2>13 DEF RejectStaged, HeartbeatGoes
  <2>14. CASE AcceptStaged
    BY <2>14 DEF AcceptStaged, HeartbeatGoes, Verified
  <2>15. CASE CopyDone
    BY <2>15 DEF CopyDone, HeartbeatGoes
  <2>16. CASE SwapIn
    BY <2>16 DEF SwapIn, HeartbeatGoes
  <2>17. CASE Record
    BY <2>17 DEF Record, HeartbeatGoes
  <2>18. CASE Exec
    BY <2>18 DEF Exec, ExecCurrent
  <2>19. CASE HeartbeatTaskRaises
    BY <2>19 DEF HeartbeatTaskRaises
  <2> QED
    BY <1>1, <2>1, <2>2, <2>3, <2>4, <2>5, <2>6, <2>7, <2>8, <2>9, <2>10,
        <2>11, <2>12, <2>13, <2>14, <2>15, <2>16, <2>17, <2>18, <2>19 DEF
        HeartbeatStep
<1>2. CASE WatchdogStep
  <2>1. CASE WatchdogFires
    BY <2>1 DEF WatchdogFires, WatchdogGoes
  <2>2. CASE WatchdogFindsConfirmed
    BY <2>2 DEF WatchdogFindsConfirmed, WatchdogGoes
  <2>3. CASE RevertSaves
    BY <2>3 DEF RevertSaves, WatchdogGoes
  <2>4. CASE RevertRestores
    BY <2>4 DEF RevertRestores, WatchdogGoes
  <2>5. CASE RevertExecs
    BY <2>5 DEF RevertExecs, ExecCurrent, LoopRuns
  <2>6. CASE WatchdogTaskRaises
    BY <2>6 DEF WatchdogTaskRaises, LoopRuns
  <2> QED
    BY <1>2, <2>1, <2>2, <2>3, <2>4, <2>5, <2>6 DEF WatchdogStep
<1>3. CASE ProcessStep
  <2>1. CASE Start
    BY <2>1 DEF Start
  <2>2. CASE DieAtStart
    BY <2>2 DEF DieAtStart, Halt
  <2>3. CASE Boot
    BY <2>3 DEF Boot
  <2>4. CASE CancelTasks
    BY <2>4 DEF CancelTasks, LoopRuns
  <2>5. CASE Exit
    BY <2>5 DEF Exit, Halt
  <2>6. CASE Crash
    BY <2>6 DEF Crash, Halt
  <2> QED
    BY <1>3, <2>1, <2>2, <2>3, <2>4, <2>5, <2>6 DEF ProcessStep
<1>4. CASE UNCHANGED vars
  BY <1>4 DEF vars
<1> QED
  BY <1>1, <1>2, <1>3, <1>4 DEF Next

\* The types of SelfUpdate are kept by every step, whatever raises or crashes.
THEOREM TypeCorrect == Spec => []TypeOK
<1>1. TypeInv => TypeOK
  BY DEF TypeInv
<1> QED
  BY <1>1, TypeInit, TypeStep, PTL DEF Spec

-----------------------------------------------------------------------------
(* The inductive invariant of the update.  What the code keeps whatever    *)
(* fails comes first; the rest is what it keeps until the promise is       *)
(* forfeited, with the promised properties among it.                       *)

\* Only one task stands between two statements, and a process that is not
\* running its loop has no watchdog, nor a record in memory before it loads.
OneTaskActs ==
    /\ hb \in HeartbeatBusy => wd \notin WatchdogBusy
    /\ ~LoopRuns => wd = "off"
    /\ hb \in {"down", "boot"} => pending = None

\* A response is acted on without a trial in memory, by a version that has
\* been answered; what is left on disk then is a record that a failed revert
\* has lost.  The swap is prepared with a copy of the installed binary.
UpdateInvariant ==
    /\ hb \in HeartbeatBusy \cup {"removing", "fetching"} => running \in proven
    /\ hb \in (HeartbeatBusy \cup {"removing", "fetching"})
              \ {"recording", "execing"} => pending = None
    /\ hb = "dropping" => stored = None
    /\ hb \in {"handling", "removing", "fetching", "verifying", "copying",
               "swapping", "recording"} => stored = None \/ wd = "failed"
    /\ hb = "swapping" => backup = current
    /\ hb = "recording" => pending = current
    /\ hb = "execing" => pending = stored /\ pending = current

\* A watchdog that reverts has cleared the record, and the heartbeat task is
\* waiting for an answer or for the next beat, or is gone.
RevertInvariant ==
    /\ wd \in WatchdogBusy => pending = None /\ hb \in {"beat", "idle", "failed"}
    /\ wd \in {"restoring", "execing"} => stored = None

\* A record whose version was never answered is about the installed binary,
\* and that binary is the one that runs.
UnansweredRuns ==
    stored # None /\ stored \notin proven =>
      /\ current = stored
      /\ hb = "boot" \/ hb \in (HeartbeatAwaits \cup HeartbeatBusy) \ {"execing"}
           => running = stored

\* The binary on disk is the one that runs, or one that worked; a record is
\* about the one that runs.
RunningKnown ==
    /\ hb = "boot" => running = current
    /\ hb \in (HeartbeatAwaits \cup HeartbeatBusy) \ {"recording", "execing"}
         => current = running \/ current \in proven
    /\ hb \in (HeartbeatAwaits \cup HeartbeatBusy) \ {"execing"} /\ stored # None
         => stored = running

\* A swap is prepared and recorded without another trial on disk, and what
\* the copy or the revert moves is a binary that worked.
CopiesKnown ==
    /\ hb \in {"copying", "swapping", "recording"} => stored = None
    /\ hb = "recording" => backup \in proven
    /\ hb = "failed" /\ pending # None => backup \in proven
    /\ wd \in {"saving", "restoring"} => backup \in proven
    /\ wd = "execing" => current \in proven

\* What the code keeps whatever fails.
AlwaysInv ==
    /\ TypeInv
    /\ OneTaskActs
    /\ UpdateInvariant
    /\ RevertInvariant
    /\ MemoryMatchesDisk
    /\ TrialIsWatched
    /\ UnansweredRuns

\* What it keeps as long as no failed revert has cost a record its backup.
KeptInv ==
    ~forfeited =>
      /\ RunningKnown
      /\ CopiesKnown
      /\ BinaryIntact
      /\ FallbackKept
      /\ RecordDescribesDisk
      /\ RevertHasBackup

IInv == AlwaysInv /\ KeptInv

LEMMA InvInit == Init => IInv
<1> SUFFICES ASSUME Init PROVE IInv
  OBVIOUS
<1>1. TypeInv
  BY TypeInit
<1> QED
  BY <1>1, VersionAssumption
  DEF Init, IInv, AlwaysInv, KeptInv, BinaryIntact,
      FallbackKept, RecordDescribesDisk, RevertHasBackup, MemoryMatchesDisk,
      TrialIsWatched, OneTaskActs, UpdateInvariant, RevertInvariant,
      UnansweredRuns, RunningKnown, CopiesKnown, LoopRuns, HeartbeatBusy,
      HeartbeatAwaits, WatchdogBusy

LEMMA AlwaysStep ==
  ASSUME AlwaysInv, [Next]_vars
  PROVE  AlwaysInv'
<1>a. TypeInv'
  BY TypeStep DEF AlwaysInv
<1> USE <1>a, VersionAssumption, FaultAssumption
    DEF AlwaysInv, TypeInv, TypeOK, UpdateAtHand, MemoryMatchesDisk,
        TrialIsWatched, OneTaskActs, UpdateInvariant, RevertInvariant,
        UnansweredRuns, Verified, LoopRuns, HeartbeatTurn, WatchdogTurn,
        HeartbeatBusy, HeartbeatAwaits, WatchdogBusy, disk, memory, history
<1>1. CASE HeartbeatStep
  <2>1. CASE BeatFails
    BY <2>1 DEF BeatFails, HeartbeatGoes
  <2>2. ASSUME NEW a \in Answers, BeatAnswered(a)
        PROVE  AlwaysInv'
    BY <2>2 DEF BeatAnswered, HeartbeatGoes
  <2>3. CASE ConfirmSaves
    BY <2>3 DEF ConfirmSaves, HeartbeatGoes
  <2>4. CASE DropBackup
    BY <2>4 DEF DropBackup, HeartbeatGoes
  <2>5. CASE BeginRemoval
    BY <2>5 DEF BeginRemoval, HeartbeatGoes
  <2>6. CASE RemovalFails
    BY <2>6 DEF RemovalFails, HeartbeatGoes
  <2>7. CASE RemovalHandedOff
    BY <2>7 DEF RemovalHandedOff, HeartbeatGoes
  <2>8. CASE NextBeat
    BY <2>8 DEF NextBeat, HeartbeatGoes
  <2>9. CASE PassOver
    BY <2>9 DEF PassOver, HeartbeatGoes
  <2>10. CASE StageBinary
    BY <2>10 DEF StageBinary, HeartbeatGoes, Installable
  <2>11. CASE FetchFails
    BY <2>11 DEF FetchFails, HeartbeatGoes
  <2>12. ASSUME NEW v \in Versions, Fetched(v)
        PROVE  AlwaysInv'
    BY <2>12 DEF Fetched, HeartbeatGoes
  <2>13. CASE RejectStaged
    BY <2>13 DEF RejectStaged, HeartbeatGoes
  <2>14. CASE AcceptStaged
    BY <2>14 DEF AcceptStaged, HeartbeatGoes, Verified
  <2>15. CASE CopyDone
    BY <2>15 DEF CopyDone, HeartbeatGoes
  <2>16. CASE SwapIn
    BY <2>16 DEF SwapIn, HeartbeatGoes
  <2>17. CASE Record
    BY <2>17 DEF Record, HeartbeatGoes
  <2>18. CASE Exec
    BY <2>18 DEF Exec, ExecCurrent
  <2>19. CASE HeartbeatTaskRaises
    BY <2>19 DEF HeartbeatTaskRaises
  <2> QED
    BY <1>1, <2>1, <2>2, <2>3, <2>4, <2>5, <2>6, <2>7, <2>8, <2>9, <2>10,
        <2>11, <2>12, <2>13, <2>14, <2>15, <2>16, <2>17, <2>18, <2>19 DEF
        HeartbeatStep
<1>2. CASE WatchdogStep
  <2>1. CASE WatchdogFires
    BY <2>1 DEF WatchdogFires, WatchdogGoes
  <2>2. CASE WatchdogFindsConfirmed
    BY <2>2 DEF WatchdogFindsConfirmed, WatchdogGoes
  <2>3. CASE RevertSaves
    BY <2>3 DEF RevertSaves, WatchdogGoes
  <2>4. CASE RevertRestores
    BY <2>4 DEF RevertRestores, WatchdogGoes
  <2>5. CASE RevertExecs
    BY <2>5 DEF RevertExecs, ExecCurrent, LoopRuns
  <2>6. CASE WatchdogTaskRaises
    BY <2>6 DEF WatchdogTaskRaises, LoopRuns
  <2> QED
    BY <1>2, <2>1, <2>2, <2>3, <2>4, <2>5, <2>6 DEF WatchdogStep
<1>3. CASE ProcessStep
  <2>1. CASE Start
    BY <2>1 DEF Start
  <2>2. CASE DieAtStart
    BY <2>2 DEF DieAtStart, Halt
  <2>3. CASE Boot
    BY <2>3 DEF Boot
  <2>4. CASE CancelTasks
    BY <2>4 DEF CancelTasks, LoopRuns
  <2>5. CASE Exit
    BY <2>5 DEF Exit, Halt
  <2>6. CASE Crash
    BY <2>6 DEF Crash, Halt
  <2> QED
    BY <1>3, <2>1, <2>2, <2>3, <2>4, <2>5, <2>6 DEF ProcessStep
<1>4. CASE UNCHANGED vars
  BY <1>4 DEF vars
<1> QED
  BY <1>1, <1>2, <1>3, <1>4 DEF Next

LEMMA KeptStep ==
  ASSUME AlwaysInv, KeptInv, [Next]_vars
  PROVE  KeptInv'
<1>a. /\ UpdateAtHand
      /\ stored \in Versions \cup {None}
      /\ pending \in Versions \cup {None}
      /\ running \in Versions \cup {None}
      /\ staged \in Versions \cup {None}
      /\ hb \in {"down", "boot", "ended", "failed"} \cup HeartbeatAwaits
                  \cup HeartbeatBusy
      /\ proven \subseteq Versions
  BY DEF AlwaysInv, TypeInv, TypeOK
<1>b. /\ OneTaskActs
      /\ UpdateInvariant
      /\ RevertInvariant
      /\ MemoryMatchesDisk
      /\ UnansweredRuns
  BY DEF AlwaysInv
<1> USE <1>a, <1>b, VersionAssumption, FaultAssumption
    DEF KeptInv, RunningKnown, CopiesKnown, BinaryIntact,
        FallbackKept, RecordDescribesDisk, RevertHasBackup, UpdateAtHand,
        MemoryMatchesDisk, OneTaskActs, UpdateInvariant, RevertInvariant,
        UnansweredRuns, Verified, LoopRuns, HeartbeatTurn, WatchdogTurn,
        HeartbeatBusy, HeartbeatAwaits, WatchdogBusy, disk, memory, history
<1>1. CASE HeartbeatStep
  <2>1. CASE BeatFails
    BY <2>1 DEF BeatFails, HeartbeatGoes
  <2>2. ASSUME NEW a \in Answers, BeatAnswered(a)
        PROVE  KeptInv'
    BY <2>2 DEF BeatAnswered, HeartbeatGoes
  <2>3. CASE ConfirmSaves
    BY <2>3 DEF ConfirmSaves, HeartbeatGoes
  <2>4. CASE DropBackup
    BY <2>4 DEF DropBackup, HeartbeatGoes
  <2>5. CASE BeginRemoval
    BY <2>5 DEF BeginRemoval, HeartbeatGoes
  <2>6. CASE RemovalFails
    BY <2>6 DEF RemovalFails, HeartbeatGoes
  <2>7. CASE RemovalHandedOff
    BY <2>7 DEF RemovalHandedOff, HeartbeatGoes
  <2>8. CASE NextBeat
    BY <2>8 DEF NextBeat, HeartbeatGoes
  <2>9. CASE PassOver
    BY <2>9 DEF PassOver, HeartbeatGoes
  <2>10. CASE StageBinary
    BY <2>10 DEF StageBinary, HeartbeatGoes, Installable
  <2>11. CASE FetchFails
    BY <2>11 DEF FetchFails, HeartbeatGoes
  <2>12. ASSUME NEW v \in Versions, Fetched(v)
        PROVE  KeptInv'
    BY <2>12 DEF Fetched, HeartbeatGoes
  <2>13. CASE RejectStaged
    BY <2>13 DEF RejectStaged, HeartbeatGoes
  <2>14. CASE AcceptStaged
    BY <2>14 DEF AcceptStaged, HeartbeatGoes, Verified
  <2>15. CASE CopyDone
    BY <2>15 DEF CopyDone, HeartbeatGoes
  <2>16. CASE SwapIn
    BY <2>16 DEF SwapIn, HeartbeatGoes
  <2>17. CASE Record
    BY <2>17 DEF Record, HeartbeatGoes
  <2>18. CASE Exec
    BY <2>18 DEF Exec, ExecCurrent
  <2>19. CASE HeartbeatTaskRaises
    BY <2>19 DEF HeartbeatTaskRaises
  <2> QED
    BY <1>1, <2>1, <2>2, <2>3, <2>4, <2>5, <2>6, <2>7, <2>8, <2>9, <2>10,
        <2>11, <2>12, <2>13, <2>14, <2>15, <2>16, <2>17, <2>18, <2>19 DEF
        HeartbeatStep
<1>2. CASE WatchdogStep
  <2>1. CASE WatchdogFires
    BY <2>1 DEF WatchdogFires, WatchdogGoes
  <2>2. CASE WatchdogFindsConfirmed
    BY <2>2 DEF WatchdogFindsConfirmed, WatchdogGoes
  <2>3. CASE RevertSaves
    BY <2>3 DEF RevertSaves, WatchdogGoes
  <2>4. CASE RevertRestores
    BY <2>4 DEF RevertRestores, WatchdogGoes
  <2>5. CASE RevertExecs
    BY <2>5 DEF RevertExecs, ExecCurrent, LoopRuns
  <2>6. CASE WatchdogTaskRaises
    BY <2>6 DEF WatchdogTaskRaises, LoopRuns
  <2> QED
    BY <1>2, <2>1, <2>2, <2>3, <2>4, <2>5, <2>6 DEF WatchdogStep
<1>3. CASE ProcessStep
  <2>1. CASE Start
    BY <2>1 DEF Start
  <2>2. CASE DieAtStart
    BY <2>2 DEF DieAtStart, Halt
  <2>3. CASE Boot
    BY <2>3 DEF Boot
  <2>4. CASE CancelTasks
    BY <2>4 DEF CancelTasks, LoopRuns
  <2>5. CASE Exit
    BY <2>5 DEF Exit, Halt
  <2>6. CASE Crash
    BY <2>6 DEF Crash, Halt
  <2> QED
    BY <1>3, <2>1, <2>2, <2>3, <2>4, <2>5, <2>6 DEF ProcessStep
<1>4. CASE UNCHANGED vars
  BY <1>4 DEF vars
<1> QED
  BY <1>1, <1>2, <1>3, <1>4 DEF Next

\* The invariant holds in every run, whatever raises or crashes.
THEOREM InvariantHolds == Spec => []IInv
<1>1. IInv /\ [Next]_vars => IInv'
  BY AlwaysStep, KeptStep DEF IInv
<1> QED
  BY <1>1, InvInit, PTL DEF Spec

-----------------------------------------------------------------------------
(* What the invariant gives.                                               *)

\* A torn copy is never moved into place of the binary, wherever copy2, the
\* swap or the process fails; ForfeitIsAFailedRevert, below, names the one case
\* that is set apart here and in the next three theorems.
THEOREM BinaryStaysIntact == Spec => []BinaryIntact
<1>1. IInv => BinaryIntact
  BY DEF IInv, KeptInv, BinaryIntact
<1> QED
  BY <1>1, InvariantHolds, PTL

\* Until the installed binary has been answered, one that was lies beside it.
THEOREM FallbackIsKept == Spec => []FallbackKept
<1>1. IInv => FallbackKept
  BY DEF IInv, KeptInv, FallbackKept
<1> QED
  BY <1>1, InvariantHolds, PTL

\* A record on disk is about the installed binary, and its backup is good.
THEOREM RecordIsTrue == Spec => []RecordDescribesDisk
<1>1. IInv => RecordDescribesDisk
  BY DEF IInv, KeptInv, RecordDescribesDisk
<1> QED
  BY <1>1, InvariantHolds, PTL

\* A revert that has cleared the record finds the binary it restores.
THEOREM RevertFindsBackup == Spec => []RevertHasBackup
<1>1. IInv => RevertHasBackup
  BY DEF IInv, KeptInv, RevertHasBackup
<1> QED
  BY <1>1, InvariantHolds, PTL

\* The record a task reads in memory is the one a restart would load, or none
\* in a process whose revert has failed.
THEOREM MemoryIsDisk == Spec => []MemoryMatchesDisk
<1>1. IInv => MemoryMatchesDisk
  BY DEF IInv, AlwaysInv
<1> QED
  BY <1>1, InvariantHolds, PTL

\* While a trial lasts, the watchdog is there to end it.
THEOREM TrialAlwaysWatched == Spec => []TrialIsWatched
<1>1. IInv => TrialIsWatched
  BY DEF IInv, AlwaysInv
<1> QED
  BY <1>1, InvariantHolds, PTL

\* Nothing is installed that the signature, the checksum and the smoke test
\* did not let through, except the backup.
THEOREM InstalledIsVerified == Spec => OnlyVerifiedInstalled
<1> DEFINE Allowed ==
      current' # current =>
        \/ current' = backup
        \/ /\ answer.update # None
           /\ answer.update.signed
           /\ current' = answer.update.sha
           /\ current' = answer.update.target
<1>1. TypeInv /\ [Next]_vars => [Allowed]_vars
  <2> SUFFICES ASSUME TypeInv, Next
               PROVE  Allowed
    OBVIOUS
  <2>1. CASE SwapIn
    BY <2>1 DEF SwapIn, HeartbeatGoes, TypeInv, UpdateAtHand, Verified
  <2>2. CASE RevertRestores
    BY <2>2 DEF RevertRestores
  <2>3. CASE HeartbeatStep /\ ~SwapIn
    BY <2>3 DEF HeartbeatStep, BeatFails, BeatAnswered, ConfirmSaves,
         DropBackup, BeginRemoval, RemovalFails, RemovalHandedOff, NextBeat,
         PassOver, StageBinary, FetchFails, Fetched, RejectStaged,
         AcceptStaged, CopyDone, Record, Exec, ExecCurrent,
         HeartbeatTaskRaises, disk, history
  <2>4. CASE WatchdogStep /\ ~RevertRestores
    BY <2>4 DEF WatchdogStep, WatchdogFires, WatchdogFindsConfirmed,
         RevertSaves, RevertExecs, ExecCurrent, WatchdogTaskRaises, disk
  <2>5. CASE ProcessStep
    BY <2>5 DEF ProcessStep, Start, DieAtStart, Boot, CancelTasks, Exit,
         Crash, Halt, disk
  <2> QED
    BY <2>1, <2>2, <2>3, <2>4, <2>5 DEF Next
<1>2. Spec => []TypeInv
  BY TypeInit, TypeStep, PTL DEF Spec
<1>3. Spec => [][Allowed]_vars
  BY <1>1, <1>2, PTL DEF Spec
<1> QED
  BY <1>3 DEF OnlyVerifiedInstalled

\* A record ends by the verdict on its binary: an answered heartbeat, or the
\* revert of the watchdog.
THEOREM RecordNeedsVerdict == Spec => RecordEndsByVerdict
<1> DEFINE Verdict ==
      stored # None /\ stored' # stored =>
        \/ stored \in proven /\ hb \in {"confirming", "recording"}
        \/ wd = "saving"
<1>1. IInv /\ [Next]_vars => [Verdict]_vars
  <2> SUFFICES ASSUME IInv, Next
               PROVE  Verdict
    OBVIOUS
  <2>1. CASE ConfirmSaves
    BY <2>1 DEF ConfirmSaves, HeartbeatGoes, IInv, AlwaysInv, UnansweredRuns,
         UpdateInvariant, HeartbeatBusy
  <2>2. CASE Record
    BY <2>2 DEF Record, HeartbeatGoes, IInv, AlwaysInv, UnansweredRuns,
         UpdateInvariant, HeartbeatBusy
  <2>3. CASE RevertSaves
    BY <2>3 DEF RevertSaves, WatchdogGoes
  <2>4. CASE HeartbeatStep /\ ~ConfirmSaves /\ ~Record
    BY <2>4 DEF HeartbeatStep, BeatFails, BeatAnswered, DropBackup,
         BeginRemoval, RemovalFails, RemovalHandedOff, NextBeat, PassOver,
         StageBinary, FetchFails, Fetched, RejectStaged, AcceptStaged,
         CopyDone, SwapIn, Exec, ExecCurrent, HeartbeatTaskRaises, disk
  <2>5. CASE WatchdogStep /\ ~RevertSaves
    BY <2>5 DEF WatchdogStep, WatchdogFires, WatchdogFindsConfirmed,
         RevertRestores, RevertExecs, ExecCurrent, WatchdogTaskRaises, disk
  <2>6. CASE ProcessStep
    BY <2>6 DEF ProcessStep, Start, DieAtStart, Boot, CancelTasks, Exit,
         Crash, Halt, disk
  <2> QED
    BY <2>1, <2>2, <2>3, <2>4, <2>5, <2>6 DEF Next
<1>2. Spec => [][Verdict]_vars
  BY <1>1, InvariantHolds, PTL DEF Spec
<1> QED
  BY <1>2 DEF RecordEndsByVerdict

\* The promise is forfeited by one step only, the copy of another update in a
\* process whose revert has failed to save: without that failure it is kept.
THEOREM ForfeitIsAFailedRevert == Spec => ForfeitNeedsFailure
<1> DEFINE Failed ==
      forfeited' # forfeited =>
        wd = "failed" /\ pending = None /\ stored \in proven
<1>1. IInv /\ [Next]_vars => [Failed]_vars
  <2> SUFFICES ASSUME IInv, Next
               PROVE  Failed
    OBVIOUS
  <2>1. CASE AcceptStaged
    BY <2>1 DEF AcceptStaged, HeartbeatGoes, IInv, AlwaysInv, TypeInv, TypeOK,
         UnansweredRuns, UpdateInvariant, HeartbeatBusy
  <2>2. CASE HeartbeatStep /\ ~AcceptStaged
    BY <2>2 DEF HeartbeatStep, BeatFails, BeatAnswered, ConfirmSaves,
         DropBackup, BeginRemoval, RemovalFails, RemovalHandedOff, NextBeat,
         PassOver, StageBinary, FetchFails, Fetched, RejectStaged, CopyDone,
         SwapIn, Record, Exec, ExecCurrent, HeartbeatTaskRaises, history
  <2>3. CASE WatchdogStep
    BY <2>3 DEF WatchdogStep, WatchdogFires, WatchdogFindsConfirmed,
         RevertSaves, RevertRestores, RevertExecs, ExecCurrent,
         WatchdogTaskRaises, history
  <2>4. CASE ProcessStep
    BY <2>4 DEF ProcessStep, Start, DieAtStart, Boot, CancelTasks, Exit,
         Crash, Halt, history
  <2> QED
    BY <2>1, <2>2, <2>3, <2>4 DEF Next
<1>2. Spec => [][Failed]_vars
  BY <1>1, InvariantHolds, PTL DEF Spec
<1> QED
  BY <1>2 DEF ForfeitNeedsFailure

-----------------------------------------------------------------------------
(* SelfUpdate implements Failover.                                         *)

LEMMA PromiseInit == Init => Promise!Init
  BY DEF Init, Promise!Init, fallback

LEMMA PromiseStep ==
  ASSUME IInv, IInv', [Next]_vars
  PROVE  [Promise!Next]_(Promise!vars)
<1> USE VersionAssumption, FaultAssumption
    DEF IInv, AlwaysInv, KeptInv, TypeInv, TypeOK, UpdateAtHand, FallbackKept,
        RecordDescribesDisk, MemoryMatchesDisk, OneTaskActs, UpdateInvariant,
        RevertInvariant, UnansweredRuns, RunningKnown,
        CopiesKnown, Verified, LoopRuns, HeartbeatTurn, WatchdogTurn,
        HeartbeatBusy, HeartbeatAwaits, WatchdogBusy, Updates, disk, memory,
        history, fallback, Promise!Next, Promise!Keep, Promise!Try,
        Promise!Accept, Promise!Settle, Promise!RollBack, Promise!Forfeit,
        Promise!Drift, Promise!vars
<1>1. CASE HeartbeatStep
  <2>1. CASE BeatFails
    BY <2>1 DEF BeatFails, HeartbeatGoes
  <2>2. ASSUME NEW a \in Answers, BeatAnswered(a)
        PROVE  [Promise!Next]_(Promise!vars)
    BY <2>2 DEF BeatAnswered, HeartbeatGoes
  <2>3. CASE ConfirmSaves
    BY <2>3 DEF ConfirmSaves, HeartbeatGoes
  <2>4. CASE DropBackup
    BY <2>4 DEF DropBackup, HeartbeatGoes
  <2>5. CASE BeginRemoval
    BY <2>5 DEF BeginRemoval, HeartbeatGoes
  <2>6. CASE RemovalFails
    BY <2>6 DEF RemovalFails, HeartbeatGoes
  <2>7. CASE RemovalHandedOff
    BY <2>7 DEF RemovalHandedOff, HeartbeatGoes
  <2>8. CASE NextBeat
    BY <2>8 DEF NextBeat, HeartbeatGoes
  <2>9. CASE PassOver
    BY <2>9 DEF PassOver, HeartbeatGoes
  <2>10. CASE StageBinary
    BY <2>10 DEF StageBinary, HeartbeatGoes, Installable
  <2>11. CASE FetchFails
    BY <2>11 DEF FetchFails, HeartbeatGoes
  <2>12. ASSUME NEW v \in Versions, Fetched(v)
        PROVE  [Promise!Next]_(Promise!vars)
    BY <2>12 DEF Fetched, HeartbeatGoes
  <2>13. CASE RejectStaged
    BY <2>13 DEF RejectStaged, HeartbeatGoes
  <2>14. CASE AcceptStaged
    BY <2>14 DEF AcceptStaged, HeartbeatGoes, Verified
  <2>15. CASE CopyDone
    BY <2>15 DEF CopyDone, HeartbeatGoes
  <2>16. CASE SwapIn
    BY <2>16 DEF SwapIn, HeartbeatGoes
  <2>17. CASE Record
    BY <2>17 DEF Record, HeartbeatGoes
  <2>18. CASE Exec
    BY <2>18 DEF Exec, ExecCurrent
  <2>19. CASE HeartbeatTaskRaises
    BY <2>19 DEF HeartbeatTaskRaises
  <2> QED
    BY <1>1, <2>1, <2>2, <2>3, <2>4, <2>5, <2>6, <2>7, <2>8, <2>9, <2>10,
        <2>11, <2>12, <2>13, <2>14, <2>15, <2>16, <2>17, <2>18, <2>19 DEF
        HeartbeatStep
<1>2. CASE WatchdogStep
  <2>1. CASE WatchdogFires
    BY <2>1 DEF WatchdogFires, WatchdogGoes
  <2>2. CASE WatchdogFindsConfirmed
    BY <2>2 DEF WatchdogFindsConfirmed, WatchdogGoes
  <2>3. CASE RevertSaves
    BY <2>3 DEF RevertSaves, WatchdogGoes
  <2>4. CASE RevertRestores
    BY <2>4 DEF RevertRestores, WatchdogGoes
  <2>5. CASE RevertExecs
    BY <2>5 DEF RevertExecs, ExecCurrent, LoopRuns
  <2>6. CASE WatchdogTaskRaises
    BY <2>6 DEF WatchdogTaskRaises, LoopRuns
  <2> QED
    BY <1>2, <2>1, <2>2, <2>3, <2>4, <2>5, <2>6 DEF WatchdogStep
<1>3. CASE ProcessStep
  <2>1. CASE Start
    BY <2>1 DEF Start
  <2>2. CASE DieAtStart
    BY <2>2 DEF DieAtStart, Halt
  <2>3. CASE Boot
    BY <2>3 DEF Boot
  <2>4. CASE CancelTasks
    BY <2>4 DEF CancelTasks, LoopRuns
  <2>5. CASE Exit
    BY <2>5 DEF Exit, Halt
  <2>6. CASE Crash
    BY <2>6 DEF Crash, Halt
  <2> QED
    BY <1>3, <2>1, <2>2, <2>3, <2>4, <2>5, <2>6 DEF ProcessStep
<1>4. CASE UNCHANGED vars
  BY <1>4 DEF vars
<1> QED
  BY <1>1, <1>2, <1>3, <1>4 DEF Next

\* Every run of the update, crashes and raised exceptions included, is a run
\* of Failover: a trial starts from an answered version and keeps it, and what
\* is rolled back to is that version.
THEOREM UpdateImplementsFailover == Spec => KeepsPromise
<1>1. IInv /\ IInv' /\ [Next]_vars => [Promise!Next]_(Promise!vars)
  BY PromiseStep
<1>2. Spec => []IInv
  BY InvariantHolds
<1> QED
  BY <1>1, <1>2, PromiseInit, PTL DEF Spec, KeepsPromise, Promise!Spec
=============================================================================
