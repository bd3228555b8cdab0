---------------------------- MODULE MCDesktopAgent ----------------------------
(***************************************************************************)
(* Model-checking instances of DesktopAgent.                               *)
(***************************************************************************)
EXTENDS DesktopAgent
=============================================================================
