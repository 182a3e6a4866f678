----------------------------- MODULE MCCleanup -----------------------------
(***************************************************************************)
(* Instance of Cleanup for TLC: no update, late and lost requests, one     *)
(* stop or crash, any number of power losses during the script.            *)
(***************************************************************************)
EXTENDS Cleanup

Nowhere == {}

\* Every request that says something of the state of the host may come late.
Reports == {"running", "removed", "stopped"}

\* The heartbeat task may die of an odd response.
OddResponse == {"beat", "removing"}

\* A unit file that cannot be removed.
UnitFile == {"unitfile"}
=============================================================================
