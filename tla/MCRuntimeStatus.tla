--------------------------- MODULE MCRuntimeStatus ---------------------------
(***************************************************************************)
(* Instances of RuntimeStatus for TLC.                                     *)
(***************************************************************************)
EXTENDS RuntimeStatus

CONSTANTS hub, app1, app2
=============================================================================
