----------------------------- MODULE SelfUpdate -----------------------------
(***************************************************************************)
(* The self-update of the agent, from a directive on a heartbeat response  *)
(* to the swapped binary, its trial and its confirmation or fail-over:     *)
(* updater.py and the heartbeat and watchdog tasks of runner.py.           *)
(*                                                                         *)
(* One process runs at a time.  Its two tasks share one event loop: a task *)
(* yields only where it awaits, so a step of one is never taken while the  *)
(* other stands between two statements (HeartbeatTurn, WatchdogTurn).  The *)
(* process may die between any two file operations (Crash), and what is    *)
(* on disk is what the next process starts from.                           *)
(*                                                                         *)
(* A binary is its version: `sum-agent version' prints it.  The binary of  *)
(* a version in Dead passes that smoke test and dies in `sum-agent run';   *)
(* one of a version in Mute runs, and none of its heartbeats succeeds.     *)
(***************************************************************************)
EXTENDS Naturals

CONSTANTS
    Versions,          \* the binaries the server can name or send
    Initial,           \* the version the installer put in place
    Dead,              \* versions whose `run' exits at start-up
    Mute,              \* versions that run and never reach the server
    None,              \* no record, no file, no process
    Torn,              \* a half-written backup file
    Frozen,            \* the program is the single-file binary
    SelfUpdateEnabled, \* settings.self_update_enabled
    HeartbeatRaises,   \* points of the heartbeat task where an exception escapes
    WatchdogRaises,    \* points of the watchdog where one escapes
    MaxOutages         \* bound on crashes and on stops

\* Where the heartbeat task stands between two statements of its own.
HeartbeatBusy ==
    {"confirming", "dropping", "handling", "verifying", "copying", "swapping",
     "recording", "execing"}

\* Where it awaits: the request, the wait for the next beat, the removal
\* report, the download.
HeartbeatAwaits == {"beat", "idle", "removing", "fetching"}

WatchdogBusy == {"saving", "restoring", "execing"}

ASSUME VersionAssumption ==
    /\ Initial \in Versions
    /\ Initial \notin Dead \cup Mute
    /\ None \notin Versions
    /\ Torn \notin Versions
    /\ None # Torn

ASSUME FaultAssumption ==
    /\ Frozen \in BOOLEAN
    /\ SelfUpdateEnabled \in BOOLEAN
    /\ HeartbeatRaises \subseteq
         (HeartbeatBusy \ {"dropping"}) \cup {"beat", "removing"}
    /\ WatchdogRaises \subseteq WatchdogBusy
    /\ MaxOutages \in Nat

VARIABLES
    current,  \* content of the installed binary
    backup,   \* content of the .bak file beside it
    stored,   \* target_version of pending_verify in state.json, or None
    running,  \* version of the process, None when there is none
    pending,  \* state.pending_verify in its memory
    staged,   \* content of the downloaded temporary file
    answer,   \* the heartbeat response being handled
    hb,       \* where the heartbeat task is
    wd,       \* where the watchdog task is
    proven,   \* history: the versions that had a heartbeat answered
    forfeited,\* history: a record on disk had its backup written over
    outages   \* crashes and stops so far, at most MaxOutages

vars == <<current, backup, stored, running, pending, staged, answer, hb, wd,
          proven, forfeited, outages>>

\* The files that outlive the process, and what a crash forgets.
disk == <<current, backup, stored>>
memory == <<running, pending, staged, answer>>
history == <<proven, forfeited>>

Updates == [target : Versions, sha : Versions, signed : BOOLEAN]

\* `remove' stands for a removal directive that verifies, in an agent whose
\* self_uninstall_enabled is on: any other one is logged and skipped.
Answers == [remove : BOOLEAN, update : Updates \cup {None}]

NoAnswer == [remove |-> FALSE, update |-> None]

TypeOK ==
    /\ current \in Versions \cup {Torn}
    /\ backup \in Versions \cup {Torn, None}
    /\ stored \in Versions \cup {None}
    /\ running \in Versions \cup {None}
    /\ pending \in Versions \cup {None}
    /\ staged \in Versions \cup {None}
    /\ answer \in Answers
    /\ hb \in {"down", "boot", "ended", "failed"} \cup HeartbeatAwaits
                \cup HeartbeatBusy
    /\ wd \in {"off", "armed", "failed"} \cup WatchdogBusy
    /\ proven \subseteq Versions
    /\ forfeited \in BOOLEAN
    /\ outages \in 0..MaxOutages

Init ==
    /\ current = Initial
    /\ backup = None
    /\ stored = None
    /\ running = None
    /\ pending = None
    /\ staged = None
    /\ answer = NoAnswer
    /\ hb = "down"
    /\ wd = "off"
    /\ proven = {Initial}
    /\ forfeited = FALSE
    /\ outages = 0

-----------------------------------------------------------------------------
(* The process: started by systemd, replaced by execv, killed or stopped.  *)

HeartbeatTurn == wd \notin WatchdogBusy
WatchdogTurn == hb \notin HeartbeatBusy

\* runner.run has made its tasks and not yet cancelled them.
LoopRuns == hb \notin {"down", "boot", "ended"}

Start ==
    /\ hb = "down"
    /\ current \in Versions
    /\ running' = current
    /\ hb' = "boot"
    /\ UNCHANGED <<disk, pending, staged, answer, wd, history, outages>>

\* What is left of the process when it is gone.
Halt ==
    /\ hb' = "down"
    /\ wd' = "off"
    /\ running' = None
    /\ pending' = None
    /\ staged' = None
    /\ answer' = NoAnswer
    /\ UNCHANGED <<disk, history>>

\* The new image fails before runner.run: nothing of the agent has run yet
\* that could look at pending_verify.
DieAtStart ==
    /\ hb = "boot"
    /\ running \in Dead
    /\ Halt
    /\ UNCHANGED outages

\* Mutant of Boot: the watchdog is only started by the process that swapped.
BootUnwatched ==
    /\ hb = "boot"
    /\ running \notin Dead
    /\ pending' = stored
    /\ hb' = "beat"
    /\ wd' = "off"
    /\ UNCHANGED <<disk, running, staged, answer, history, outages>>

\* _cmd_run loads the state, run() makes the tasks: the watchdog only if the
\* loaded state has a pending update.
Boot ==
    /\ hb = "boot"
    /\ running \notin Dead
    /\ pending' = stored
    /\ hb' = "beat"
    /\ wd' = IF stored = None THEN "off" ELSE "armed"
    /\ UNCHANGED <<disk, running, staged, answer, history, outages>>

\* os.execv: same process, new image.  A file that is not a binary raises.
ExecCurrent ==
    /\ current \in Versions
    /\ running' = current
    /\ pending' = None
    /\ staged' = None
    /\ answer' = NoAnswer
    /\ hb' = "boot"
    /\ wd' = "off"
    /\ UNCHANGED <<disk, history, outages>>

\* Mutant of CancelTasks: a clean stop writes the state without the record.
CancelClearsRecord ==
    /\ LoopRuns
    /\ HeartbeatTurn
    /\ WatchdogTurn
    /\ outages < MaxOutages
    /\ outages' = outages + 1
    /\ hb' = "ended"
    /\ wd' = "off"
    /\ stored' = None
    /\ UNCHANGED <<current, backup, memory, history>>

\* The signal handler sets stop, and the next turn of the loop is run()'s,
\* which cancels its tasks where they await: none of them acts in between,
\* and one that would looks at stop first and ends too.
CancelTasks ==
    /\ LoopRuns
    /\ HeartbeatTurn
    /\ WatchdogTurn
    /\ outages < MaxOutages
    /\ outages' = outages + 1
    /\ hb' = "ended"
    /\ wd' = "off"
    /\ UNCHANGED <<disk, memory, history>>

\* run() returns after its goodbye.
Exit ==
    /\ hb = "ended"
    /\ Halt
    /\ UNCHANGED outages

Crash ==
    /\ hb # "down"
    /\ outages < MaxOutages
    /\ outages' = outages + 1
    /\ Halt

-----------------------------------------------------------------------------
(* _heartbeat_loop up to the update: the beat, the confirmation, removal.  *)

\* A step of the heartbeat task that only moves it on.
HeartbeatGoes(from, to) ==
    /\ hb = from
    /\ HeartbeatTurn
    /\ hb' = to

\* Mutant of BeatFails: confirm() is called after the try, answered or not.
ConfirmAnyway ==
    /\ HeartbeatGoes("beat", IF pending = None THEN "idle" ELSE "confirming")
    /\ pending' = None
    /\ UNCHANGED <<disk, running, staged, answer, wd, history, outages>>

\* ServerError or TransportError: logged, then the wait for the next beat.
BeatFails ==
    /\ HeartbeatGoes("beat", "idle")
    /\ UNCHANGED <<disk, memory, wd, history, outages>>

\* The response arrives.  confirm() clears the record in memory first.
BeatAnswered(a) ==
    /\ HeartbeatGoes("beat", IF pending = None THEN "handling" ELSE "confirming")
    /\ running \notin Mute
    /\ pending' = None
    /\ answer' = a
    /\ proven' = proven \cup {running}
    /\ UNCHANGED <<disk, running, staged, wd, forfeited, outages>>

\* Mutant of ConfirmSaves: confirm() clears the record in memory only.
ConfirmInMemory ==
    /\ HeartbeatGoes("confirming", "dropping")
    /\ UNCHANGED <<disk, memory, wd, history, outages>>

ConfirmSaves ==
    /\ HeartbeatGoes("confirming", "dropping")
    /\ stored' = pending
    /\ UNCHANGED <<current, backup, memory, wd, history, outages>>

\* The unlink of the backup; an OSError is suppressed and the file stays.
DropBackup ==
    /\ HeartbeatGoes("dropping", "handling")
    /\ backup' \in {None, backup}
    /\ UNCHANGED <<current, stored, memory, wd, history, outages>>

BeginRemoval ==
    /\ HeartbeatGoes("handling", "removing")
    /\ answer.remove
    /\ UNCHANGED <<disk, memory, wd, history, outages>>

\* The cleanup was not handed off: the same response may still hold an update.
RemovalFails ==
    /\ HeartbeatGoes("removing", "handling")
    /\ answer' = [answer EXCEPT !.remove = FALSE]
    /\ UNCHANGED <<disk, running, pending, staged, wd, history, outages>>

\* removed and stop are set: the task returns, and the watchdog, which looks
\* at stop before it acts, is over too.
RemovalHandedOff ==
    /\ Frozen
    /\ HeartbeatGoes("removing", "ended")
    /\ wd' = "off"
    /\ UNCHANGED <<disk, memory, history, outages>>

NextBeat ==
    /\ HeartbeatGoes("idle", "beat")
    /\ UNCHANGED <<disk, memory, wd, history, outages>>

-----------------------------------------------------------------------------
(* updater.apply: stage_binary, swap_in, execv.                            *)

\* The guards between the response and the download.
Installable ==
    /\ SelfUpdateEnabled
    /\ Frozen
    /\ pending = None
    /\ answer.update # None
    /\ answer.update.target # running
    /\ answer.update.signed

PassOver ==
    /\ HeartbeatGoes("handling", "idle")
    /\ ~answer.remove
    /\ ~Installable
    /\ UNCHANGED <<disk, memory, wd, history, outages>>

StageBinary ==
    /\ HeartbeatGoes("handling", "fetching")
    /\ ~answer.remove
    /\ Installable
    /\ UNCHANGED <<disk, memory, wd, history, outages>>

\* Any exception of the download becomes an UpdateError.
FetchFails ==
    /\ HeartbeatGoes("fetching", "idle")
    /\ UNCHANGED <<disk, memory, wd, history, outages>>

\* Mutant of Fetched: the stream is written to its final name as it arrives.
FetchedInPart(v) ==
    /\ HeartbeatGoes("fetching", "verifying")
    /\ staged' \in {v, Torn}
    /\ UNCHANGED <<disk, running, pending, answer, wd, history, outages>>

Fetched(v) ==
    /\ HeartbeatGoes("fetching", "verifying")
    /\ staged' = v
    /\ UNCHANGED <<disk, running, pending, answer, wd, history, outages>>

\* The checksum differs, or the smoke test fails; it may also time out.
RejectStaged ==
    /\ HeartbeatGoes("verifying", "idle")
    /\ staged' = None
    /\ UNCHANGED <<disk, running, pending, answer, wd, history, outages>>

\* Mutant of Verified: the smoke test alone.
SmokeTested == staged = answer.update.target

\* The hash is the signed one and the binary prints the target version.
Verified ==
    /\ staged = answer.update.sha
    /\ staged = answer.update.target

\* copy2 has opened the backup: until it ends the file is not a binary.  A
\* record that is on disk now is one that memory has lost, and names that file.
AcceptStaged ==
    /\ HeartbeatGoes("verifying", "copying")
    /\ Verified
    /\ backup' = Torn
    /\ forfeited' = (forfeited \/ stored # None)
    /\ UNCHANGED <<current, stored, memory, wd, proven, outages>>

\* Mutant of CopyDone: the swap does not wait for the copy to end.
CopyUnfinished ==
    /\ HeartbeatGoes("copying", "swapping")
    /\ UNCHANGED <<disk, memory, wd, history, outages>>

\* Mutant of CopyDone: the arguments of copy2 are exchanged.
CopyOfStaged ==
    /\ HeartbeatGoes("copying", "swapping")
    /\ backup' = staged
    /\ UNCHANGED <<current, stored, memory, wd, history, outages>>

CopyDone ==
    /\ HeartbeatGoes("copying", "swapping")
    /\ backup' = current
    /\ UNCHANGED <<current, stored, memory, wd, history, outages>>

\* os.replace, then the record in memory; the save is the next step.
SwapIn ==
    /\ HeartbeatGoes("swapping", "recording")
    /\ current' = staged
    /\ staged' = None
    /\ pending' = answer.update.target
    /\ UNCHANGED <<backup, stored, running, answer, wd, history, outages>>

\* Mutant of Record: the record is left in memory, and execv forgets it.
RecordInMemory ==
    /\ HeartbeatGoes("recording", "execing")
    /\ UNCHANGED <<disk, memory, wd, history, outages>>

Record ==
    /\ HeartbeatGoes("recording", "execing")
    /\ stored' = pending
    /\ UNCHANGED <<current, backup, memory, wd, history, outages>>

Exec ==
    /\ hb = "execing"
    /\ HeartbeatTurn
    /\ ExecCurrent

\* An exception neither the task nor apply's caller catches: a response that
\* is not JSON, to a beat or to the removal report; an OSError of a file
\* operation or of execv.  Of what is done with a response only mkstemp can
\* raise, when there is an update to install.  The task is over and nobody
\* looks at it; what was done on disk stays.
HeartbeatTaskRaises ==
    /\ hb \in HeartbeatRaises
    /\ hb = "handling" => ~answer.remove /\ Installable
    /\ HeartbeatTurn
    /\ hb' = "failed"
    /\ staged' = None
    /\ UNCHANGED <<disk, running, pending, answer, wd, history, outages>>

-----------------------------------------------------------------------------
(* _pending_verify_watchdog and revert.                                    *)

WatchdogGoes(from, to) ==
    /\ wd = from
    /\ WatchdogTurn
    /\ LoopRuns
    /\ wd' = to

\* The deadline passed with the record still there: revert() clears it first.
WatchdogFires ==
    /\ WatchdogGoes("armed", "saving")
    /\ pending # None
    /\ pending' = None
    /\ UNCHANGED <<disk, running, staged, answer, hb, history, outages>>

WatchdogFindsConfirmed ==
    /\ WatchdogGoes("armed", "off")
    /\ pending = None
    /\ UNCHANGED <<disk, memory, hb, history, outages>>

\* Mutant of RevertSaves: revert() clears the record in memory only.
RevertInMemory ==
    /\ WatchdogGoes("saving", "restoring")
    /\ UNCHANGED <<disk, memory, hb, history, outages>>

RevertSaves ==
    /\ WatchdogGoes("saving", "restoring")
    /\ stored' = pending
    /\ UNCHANGED <<current, backup, memory, hb, history, outages>>

\* os.replace of the backup.  Without a backup the task would just return:
\* RevertHasBackup says that this never happens.
RevertRestores ==
    /\ WatchdogGoes("restoring", "execing")
    /\ Frozen
    /\ backup # None
    /\ current' = backup
    /\ backup' = None
    /\ UNCHANGED <<stored, memory, hb, history, outages>>

\* Mutant of RevertExecs: the binary is restored, and the process stays.
RevertWithoutExec ==
    /\ WatchdogGoes("execing", "off")
    /\ UNCHANGED <<disk, memory, hb, history, outages>>

RevertExecs ==
    /\ wd = "execing"
    /\ WatchdogTurn
    /\ LoopRuns
    /\ ExecCurrent

\* An OSError of the save, of os.replace or of execv: revert() has no except
\* clause, the task is over, and the heartbeat task goes on.
WatchdogTaskRaises ==
    /\ wd \in WatchdogRaises
    /\ LoopRuns
    /\ WatchdogTurn
    /\ wd' = "failed"
    /\ UNCHANGED <<disk, memory, hb, history, outages>>

-----------------------------------------------------------------------------
HeartbeatStep ==
    \/ BeatFails
    \/ \E a \in Answers : BeatAnswered(a)
    \/ ConfirmSaves
    \/ DropBackup
    \/ BeginRemoval
    \/ RemovalFails
    \/ RemovalHandedOff
    \/ NextBeat
    \/ PassOver
    \/ StageBinary
    \/ FetchFails
    \/ \E v \in Versions : Fetched(v)
    \/ RejectStaged
    \/ AcceptStaged
    \/ CopyDone
    \/ SwapIn
    \/ Record
    \/ Exec
    \/ HeartbeatTaskRaises

WatchdogStep ==
    \/ WatchdogFires
    \/ WatchdogFindsConfirmed
    \/ RevertSaves
    \/ RevertRestores
    \/ RevertExecs
    \/ WatchdogTaskRaises

ProcessStep ==
    \/ Start
    \/ DieAtStart
    \/ Boot
    \/ CancelTasks
    \/ Exit
    \/ Crash

Next == HeartbeatStep \/ WatchdogStep \/ ProcessStep

Spec == Init /\ [][Next]_vars

\* systemd starts the service, the image comes up or dies, the event loop
\* runs every task that is ready, and every timer goes off.  Stops and crashes
\* are not fair: they need not happen.
Fairness ==
    /\ WF_vars(Start)
    /\ WF_vars(DieAtStart \/ Boot)
    /\ WF_vars(Exit)
    /\ WF_vars(HeartbeatStep)
    /\ WF_vars(WatchdogStep)

FairSpec == Spec /\ Fairness

-----------------------------------------------------------------------------
(* Safety.                                                                 *)
(*                                                                         *)
(* The promise of the update is forfeited when an update is copied over    *)
(* the backup that a record on disk still names: a later revert restores   *)
(* what has become of it.  ForfeitNeedsFailure says when it comes to that. *)

\* A torn copy is never moved into place.
BinaryIntact == ~forfeited => current \in Versions

\* As long as the installed binary has not reached the server, the backup
\* beside it is one that has: there is always a binary to fall back to.
FallbackKept == ~forfeited /\ current \notin proven => backup \in proven

\* A record in state.json names the installed binary, and what it would
\* restore is a binary that worked.
RecordDescribesDisk ==
    ~forfeited /\ stored # None => current = stored /\ backup \in proven

\* When the revert has cleared the record, the file it goes on to restore is
\* there, whole, and a binary that worked.
RevertHasBackup == ~forfeited /\ wd = "restoring" => backup \in proven

\* A task that runs sees the record that is on disk, except inside the
\* statement pairs that change memory first and the file next; where the
\* watchdog has failed it may have lost it, but never sees another.
MemoryMatchesDisk ==
    (hb \in HeartbeatAwaits \cup (HeartbeatBusy \ {"confirming", "recording"})
       /\ wd # "saving")
      => pending = stored \/ (wd = "failed" /\ pending = None)

\* A trial is never unattended: while the heartbeat task waits with a record
\* in memory, the watchdog is armed.
TrialIsWatched ==
    hb \in HeartbeatAwaits /\ pending # None => wd = "armed"

\* A process that has not reached the server yet knows that it is on trial.
TrialIsRecorded ==
    hb \in {"beat", "idle"} /\ running \notin proven /\ wd \notin WatchdogBusy
      => pending # None

\* The heartbeat task outlives every failed update.
HeartbeatSurvives == hb # "failed"

\* What is installed changes only to a binary that is the one the server
\* signed, that hashed and printed so, or back to the backup.
OnlyVerifiedInstalled ==
    [][current' # current =>
         \/ current' = backup
         \/ /\ answer.update # None
            /\ answer.update.signed
            /\ current' = answer.update.sha
            /\ current' = answer.update.target]_vars

\* The record of a binary that was never answered leaves state.json by the
\* revert only, and that of another one by a confirmation or for the record of
\* a new update: a restart, a stop or a raise never loses it.
RecordEndsByVerdict ==
    [][stored # None /\ stored' # stored =>
         \/ stored \in proven /\ hb \in {"confirming", "recording"}
         \/ wd = "saving"]_vars

\* The promise is forfeited in one way only: the save of a revert has raised,
\* and the same process, answered after all, goes on to another update.
ForfeitNeedsFailure ==
    [][forfeited' # forfeited =>
         wd = "failed" /\ pending = None /\ stored \in proven]_vars

-----------------------------------------------------------------------------
(* Liveness.                                                               *)

\* A trial ends: confirmed or reverted, the record goes.
TrialEnds == stored # None ~> stored = None

\* A binary that cannot reach the server and knows that it is on trial is
\* replaced by one that can, once crashes and stops are over.
FailsOver ==
    running \in Mute /\ pending # None /\ outages = MaxOutages
      ~> running \in Versions \ Mute

-----------------------------------------------------------------------------
(* What all of it promises: see Failover.                                  *)

\* The backup counts as the fallback while a trial is on, from the swap to the
\* verdict, and for as long as the installed binary has not been answered.  A
\* watchdog armed for an earlier trial still looks at the record of an update
\* whose save or execv raised, and reverts it.
fallback ==
    IF \/ stored # None
       \/ current \notin proven
       \/ hb = "recording"
       \/ hb = "failed" /\ pending # None
       \/ wd \in {"saving", "restoring"}
    THEN backup
    ELSE None

Promise == INSTANCE Failover WITH active <- current, accepted <- proven

\* Every step of the update, any crash or raised exception included, is a step
\* of Failover or none at all.
KeepsPromise == Promise!Spec
=============================================================================
