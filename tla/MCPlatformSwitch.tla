-------------------------- MODULE MCPlatformSwitch --------------------------
(***************************************************************************)
(* PlatformSwitch for TLC.  Connections, helper processes and GameCube     *)
(* profiles are interchangeable; the symmetry is used by the runs that     *)
(* check no liveness.                                                      *)
(***************************************************************************)
EXTENDS PlatformSwitch, TLC

Symmetry ==
    Permutations(Session) \cup Permutations(Slot) \cup Permutations(GameCube)
=============================================================================
