------------------------------ MODULE MCDaemon ------------------------------
(***************************************************************************)
(* Instances of Daemon for TLC: two versions let an update race with a     *)
(* stop or a removal, and a third is one that dies at start-up.            *)
(***************************************************************************)
EXTENDS Daemon

\* The replace of the binary in a revert may fail.
Restoring == {"restoring"}

Nowhere == {}

\* A heartbeat or a removal report may come late.
BeatAndReport == {"running", "removed"}

\* The heartbeat task may die of an odd response or of a full disk.
OddResponseOrDisk == {"beat", "removing", "copying"}
=============================================================================
