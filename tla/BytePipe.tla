------------------------------ MODULE BytePipe ------------------------------
(***************************************************************************)
(* What the LDAP byte pump promises (PROTOCOL.md 2.1: "a pure byte pump"): *)
(* every local connection is a pair of byte streams of its own.  Bytes come*)
(* out in the order they went in, none twice, none of another connection's;*)
(* a connection may end at any time, and then its client gets no more.     *)
(***************************************************************************)
EXTENDS Naturals, Sequences

CONSTANT Clients

VARIABLES
    sentUp,     \* client -> bytes the local client has written
    gotUp,      \* client -> bytes its relay at the directory has received
    sentDown,   \* client -> bytes its relay has answered
    gotDown,    \* client -> bytes the client has read
    ended       \* clients whose socket has been closed by the agent

pipeVars == <<sentUp, gotUp, sentDown, gotDown, ended>>

Prefixes(s) == {SubSeq(s, 1, n) : n \in 0..Len(s)}

PipeInit ==
    /\ sentUp = [k \in Clients |-> <<>>] /\ gotUp = [k \in Clients |-> <<>>]
    /\ sentDown = [k \in Clients |-> <<>>] /\ gotDown = [k \in Clients |-> <<>>]
    /\ ended = {}

\* A stream grows by bytes of its own connection only.
Send(k) ==
    /\ sentUp' = [sentUp EXCEPT ![k] = Append(@, <<k, Len(@) + 1>>)]
    /\ UNCHANGED <<gotUp, sentDown, gotDown, ended>>

Answer(k) ==
    /\ sentDown' = [sentDown EXCEPT ![k] = Append(@, <<k, Len(@) + 1>>)]
    /\ UNCHANGED <<sentUp, gotUp, gotDown, ended>>

DeliverUp(k) ==
    /\ \E more \in Prefixes(sentUp[k]) :
          /\ Len(more) > Len(gotUp[k])
          /\ gotUp' = [gotUp EXCEPT ![k] = more]
    /\ UNCHANGED <<sentUp, sentDown, gotDown, ended>>

DeliverDown(k) ==
    /\ k \notin ended
    /\ \E more \in Prefixes(sentDown[k]) :
          /\ Len(more) > Len(gotDown[k])
          /\ gotDown' = [gotDown EXCEPT ![k] = more]
    /\ UNCHANGED <<sentUp, gotUp, sentDown, ended>>

End(k) ==
    /\ k \notin ended
    /\ ended' = ended \union {k}
    /\ UNCHANGED <<sentUp, gotUp, sentDown, gotDown>>

PipeNext == \E k \in Clients :
    Send(k) \/ Answer(k) \/ DeliverUp(k) \/ DeliverDown(k) \/ End(k)

PipeSpec == PipeInit /\ [][PipeNext]_pipeVars
=============================================================================
