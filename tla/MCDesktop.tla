------------------------------- MODULE MCDesktop -------------------------------
(* An instance of the desktop service for TLC. *)
EXTENDS DesktopProperties
================================================================================
