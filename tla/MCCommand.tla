----------------------------- MODULE MCCommand -----------------------------
(***************************************************************************)
(* Instance of Command for TLC: enrolments that race with a daemon over    *)
(* two tokens, and two outages.                                            *)
(***************************************************************************)
EXTENDS Command
=============================================================================
