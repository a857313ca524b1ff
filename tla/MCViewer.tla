------------------------------ MODULE MCViewer ------------------------------
(* Instance of Viewer for TLC. *)
EXTENDS Viewer, TLC
=============================================================================
