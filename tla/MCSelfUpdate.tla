---------------------------- MODULE MCSelfUpdate ----------------------------
(***************************************************************************)
(* Instances of SelfUpdate for TLC.  The points where an exception may     *)
(* escape are named here, so that the configurations can choose among them.*)
(***************************************************************************)
EXTENDS SelfUpdate

\* Every point of the heartbeat task that can raise.
EveryHeartbeatPoint ==
    {"beat", "removing", "confirming", "handling", "verifying", "copying", "swapping",
     "recording", "execing"}

\* Its file operations: making the temporary file, hashing and marking it,
\* copy2, os.replace, the save of the record, execv.
FileOperations ==
    {"handling", "verifying", "copying", "swapping", "recording", "execing"}

\* Every point of the watchdog that can raise.
EveryWatchdogPoint == {"saving", "restoring", "execing"}

Nowhere == {}

\* The heartbeat task may die of an odd response only.
OddResponse == {"beat", "removing"}
=============================================================================
