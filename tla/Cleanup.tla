------------------------------ MODULE Cleanup ------------------------------
(***************************************************************************)
(* The cleanup of a removed host: the script of uninstaller.py, command by *)
(* command, in its transient unit, around the daemon that handed it over.  *)
(* systemd may start the daemon again meanwhile, `sum-agent enroll' may    *)
(* write a new state, a command may fail, and the power may go between two *)
(* commands, which takes the transient unit and leaves the files.          *)
(*                                                                         *)
(* The steps of the daemon are those of Daemon, to which the whole script  *)
(* is one step.                                                            *)
(***************************************************************************)
EXTENDS Daemon, Sequences, Functions

CONSTANT
    MayFail  \* what `rm' may fail to remove: every command has its `|| true'

\* What the installer and the first enrolment put on the host.
Placed == {"unitfile", "envfile", "envdir", "state", "binary"}

ASSUME FailAssumption == MayFail \subseteq Placed

VARIABLES
    enabled,  \* systemd starts the service
    files,    \* what is on the host; "newstate" is the state of an enrolment
    line,     \* the command of the script that is next, 0 without a script
    enrol     \* a `sum-agent enroll' is under way

host == <<enabled, files, line, enrol>>
cvars == <<dvars, host>>

\* Mutant of Script: the directory goes before the file in it.
ScriptDirectoryFirst ==
    <<"disable", "unitfile", "envdir", "envfile", "state", "binary">>

\* Mutant of Script: the service is stopped last.
ScriptDisablesLast ==
    <<"unitfile", "envfile", "envdir", "state", "binary", "disable">>

\* daemon-reload and reset-failed leave no trace in this model.
Script ==
    <<"disable", "unitfile", "envfile", "envdir", "state", "binary">>

Done == Len(Script) + 1

CTypeOK ==
    /\ enabled \in BOOLEAN
    /\ files \subseteq Placed \cup {"newstate"}
    /\ line \in 0..Done
    /\ enrol \in BOOLEAN
    /\ unit = "running" => line = 1

CInit ==
    /\ DInit
    /\ enabled = TRUE
    /\ files = Placed
    /\ line = 0
    /\ enrol = FALSE

-----------------------------------------------------------------------------
(* The daemon and its service.                                             *)

\* A step of the process; if it starts the unit, the script begins.
Beside(Step) ==
    /\ Step
    /\ line' = IF unit' = unit THEN line ELSE 1
    /\ UNCHANGED <<enabled, files, enrol>>

\* At boot, after a failure, or by hand as long as the service is enabled.
\* `systemctl start' of a disabled one, in mid-script, is left out.
ServiceStarts ==
    /\ Start
    /\ enabled
    /\ {"unitfile", "binary"} \subseteq files
    /\ UNCHANGED <<around, outside, host>>

ServiceCrashes ==
    /\ DCrash
    /\ line' = IF unit' = unit THEN line ELSE 0
    /\ enrol' \in {FALSE, enrol}
    /\ UNCHANGED <<enabled, files>>

-----------------------------------------------------------------------------
(* The script.                                                             *)

Runs(command) ==
    /\ line \in DOMAIN Script
    /\ Script[line] = command

\* Mutant of Disable: `disable' without `--now', nothing is stopped.
DisableOnly ==
    /\ Runs("disable")
    /\ enabled' = FALSE
    /\ line' = line + 1
    /\ UNCHANGED <<dvars, files, enrol>>

\* `systemctl disable --now': not started again, then stopped.
Disable ==
    /\ Runs("disable")
    /\ enabled
    /\ enabled' = FALSE
    /\ UNCHANGED <<dvars, files, line, enrol>>

\* Mutant of Stopped: systemctl does not wait for the stop.
StopQueued ==
    /\ Runs("disable")
    /\ ~enabled
    /\ unit' = "finished"
    /\ line' = line + 1
    /\ UNCHANGED <<vars, around, net, late, served, view, enabled, files, enrol>>

\* systemctl returns when the service is down.
Stopped ==
    /\ Runs("disable")
    /\ ~enabled
    /\ CleanupDone
    /\ line' = line + 1
    /\ UNCHANGED <<enabled, files, enrol>>

\* The stop job: a process that is still there gets its SIGTERM.
StopJob ==
    /\ Runs("disable")
    /\ ~enabled
    /\ Beside(Signal \/ SignalAtBoot)

\* What a command removes: rmdir nothing but an empty directory, `rm -rf' of
\* the state directory whatever is in it.
Target(piece) ==
    IF piece = "envdir" /\ "envfile" \in files THEN {}
    ELSE IF piece = "state" THEN {"state", "newstate"}
    ELSE {piece}

Remove(piece) ==
    /\ Runs(piece)
    /\ files' \in {files \ Target(piece)}
                    \cup (IF piece \in MayFail THEN {files} ELSE {})
    /\ line' = line + 1
    /\ UNCHANGED <<dvars, enabled, enrol>>

\* External: the power goes while the daemon is down.
PowerLost ==
    /\ line \in DOMAIN Script
    /\ IF unit = "running" THEN CleanupLost ELSE hb = "down" /\ UNCHANGED dvars
    /\ line' = 0
    /\ enrol' = FALSE
    /\ UNCHANGED <<enabled, files>>

-----------------------------------------------------------------------------
(* `sum-agent enroll'.                                                     *)

Enrol ==
    /\ ~enrol
    /\ "binary" \in files
    /\ enrol' = TRUE
    /\ UNCHANGED <<dvars, enabled, files, line>>

\* The server has answered; the save makes the state directory again.
EnrolSaves ==
    /\ enrol
    /\ enrol' = FALSE
    /\ files' = (files \ {"state"}) \cup {"newstate"}
    /\ UNCHANGED <<dvars, enabled, line>>

\* An error of the server, of the network, or of the save.
EnrolFails ==
    /\ enrol
    /\ enrol' = FALSE
    /\ UNCHANGED <<dvars, enabled, files, line>>

-----------------------------------------------------------------------------
ScriptGoes ==
    \/ Disable
    \/ Stopped
    \/ \E piece \in Placed : Remove(piece)

CNext ==
    \/ Beside(ProcessGoes)
    \/ ServiceStarts
    \/ ServiceCrashes
    \/ ScriptGoes
    \/ PowerLost
    \/ Enrol
    \/ EnrolSaves
    \/ EnrolFails

CSpec == CInit /\ [][CNext]_cvars

\* That of Daemon, the unit runs its script, and systemd its stop job.
CFairness ==
    /\ WF_cvars(Beside(DDie \/ DBoot))
    /\ WF_cvars(Beside(HeartbeatTask))
    /\ WF_cvars(Beside(DExec))
    /\ WF_cvars(Beside(UpdateStep))
    /\ WF_cvars(Beside(MainTask))
    /\ WF_cvars(ScriptGoes)
    /\ WF_cvars(StopJob)

CFairSpec == CSpec /\ CFairness

-----------------------------------------------------------------------------
(* Properties.                                                             *)

\* For the daemon the cleanup is one step, taken when the process is down, and
\* systemd does not start it after that.
RunsDaemon == DSpec

\* A process of the agent has all of its files, whatever was cut off and
\* started again: nothing is deleted under it, and none starts on a host that
\* is half clean.
DaemonHasFiles ==
    hb # "down" =>
        /\ Placed \ {"state"} \subseteq files
        /\ files \cap {"state", "newstate"} # {}

\* What a piece left on the host is due to: a command that failed, the file in
\* the directory, or an enrolment.
Leftover ==
    MayFail \cup {"newstate"}
      \cup (IF "envfile" \in MayFail THEN {"envdir"} ELSE {})

\* What the script has passed is gone; at its end, all of it.
ScriptUndoes ==
    \A i \in 1..(line - 1) : Script[i] \in files => Script[i] \in Leftover

\* A process that has handed its removal off ends, and the script comes to its
\* end unless the power goes or the process crashed or was stopped by others.
HandOffCleansUp ==
    removed ~> hb = "down" /\ (line \in {0, Done} \/ outages = MaxOutages)
=============================================================================
