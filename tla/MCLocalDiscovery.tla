-------------------------- MODULE MCLocalDiscovery --------------------------
(* Instances of LocalDiscovery for TLC. *)
EXTENDS LocalDiscovery
=============================================================================
