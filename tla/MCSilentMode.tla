---------------------------- MODULE MCSilentMode ----------------------------
(* Instances of SilentMode for TLC. *)
EXTENDS SilentMode

CONSTANTS c1
==============================================================================
