---------------------------- MODULE MCPowerLoss ----------------------------
(***************************************************************************)
(* Instance of PowerLoss for TLC: one power loss, and no exception.        *)
(***************************************************************************)
EXTENDS PowerLoss

Nowhere == {}
=============================================================================
