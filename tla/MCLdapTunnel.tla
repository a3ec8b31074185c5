---------------------------- MODULE MCLdapTunnel ----------------------------
(* Instances of LdapTunnel for TLC. *)
EXTENDS LdapTunnel, TLC

CONSTANTS c1, c2

\* Two connections whose conn_ids are made at different readings of the clock.
FineClock == [k \in Clients |-> IF k = c1 THEN 1 ELSE 2]

One == [k \in Clients |-> 1]
\* The second is answered more than its buffer holds.
SecondTwice == [k \in Clients |-> IF k = c1 THEN 0 ELSE 2]
=============================================================================
