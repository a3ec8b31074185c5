------------------------- MODULE MCServiceRegistry -------------------------
(* Instances of ServiceRegistry. *)
EXTENDS ServiceRegistry

CONSTANTS nginx, c1

Doc(plain, control, flush) ==
  [Empty EXCEPT !.plain = plain, !.control = control, !.flush = flush,
                !.rest = TRUE, !.readable = TRUE]

\* As install.sh and the agent write it: service_control on one line.
Installed == {Doc({}, {}, FALSE), Doc({nginx}, {}, FALSE)}
=============================================================================
