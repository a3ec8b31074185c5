----------------------------- MODULE MCTrayLink -----------------------------
(* Names of the tray and the site of an instance of TrayLink. *)
EXTENDS TrayLink

CONSTANTS t1, s1
=============================================================================
