---------------------------- MODULE MCSelfUpdate ----------------------------
(* Instances of SelfUpdate. *)
EXTENDS SelfUpdate

CONSTANTS v1, v2
=============================================================================
