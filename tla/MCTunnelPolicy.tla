--------------------------- MODULE MCTunnelPolicy ---------------------------
(* Instances of TunnelPolicy for TLC. *)
EXTENDS TunnelPolicy

CONSTANTS own, other

Sites == {own, other}

\* Auto-VPN at home with the config of an earlier run, and a first start away
\* without.
TwoStarts == {[auto |-> TRUE, conf |-> Local, home |-> TRUE],
              [auto |-> FALSE, conf |-> None, home |-> FALSE]}
=============================================================================
