-------------------------------- MODULE MCInput --------------------------------
(* An instance of the input devices and their handlers for TLC. *)
EXTENDS InputProperties
================================================================================
