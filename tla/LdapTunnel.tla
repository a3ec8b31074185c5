----------------------------- MODULE LdapTunnel -----------------------------
(***************************************************************************)
(* The local LDAP socket (ldap_tunnel.go) over successive WebSocket        *)
(* sessions.  Each session has its own ldapTunnel: a listener goroutine,   *)
(* one handleConn goroutine per local connection that pumps bytes up, and  *)
(* handleMessage, called by the session's read loop, that writes the       *)
(* directory's answers down.  The goroutines of a session that has ended   *)
(* live on beside those of the next one.                                   *)
(*                                                                         *)
(* The local clients (SSSD), their kernel sockets and the directory's      *)
(* relay into OpenLDAP are external.                                       *)
(***************************************************************************)
EXTENDS Naturals, Sequences, FiniteSets

CONSTANTS
    Clients,        \* local LDAP connections
    UnixNano,       \* client -> what time.Now().UnixNano() reads in newConnID
    MaxSessions,    \* bound: WebSocket sessions
    MaxUp,          \* bound: client -> bytes it sends
    MaxDown,        \* bound: client -> bytes it is answered
    SocketBuffer    \* bytes a client's receive buffer holds

ASSUME TunnelConstants ==
    /\ IsFiniteSet(Clients)
    /\ UnixNano \in [Clients -> Nat]
    /\ MaxSessions \in Nat
    /\ MaxUp \in [Clients -> Nat] /\ MaxDown \in [Clients -> Nat]
    /\ SocketBuffer \in Nat \ {0}

Sessions == 1..MaxSessions
Bytes == UNION {{k} \X ((1..MaxUp[k]) \union (1..MaxDown[k])) : k \in Clients}
ConnIDs == {UnixNano[k] : k \in Clients} \X (0..Cardinality(Clients))
NoID == <<0, 0>>

VARIABLES
    session,    \* number of the latest session
    wire,       \* its WebSocket: "down", "up", "broken" (not noticed yet)
    listener,   \* session -> its listener
    sockPath,   \* session whose listener the socket path leads to, 0: none
    connCounter,\* the counter of newConnID
    pc,         \* client -> where its handleConn stands
    owner,      \* client -> session that accepted it
    connID,     \* client -> its conn_id
    chunk,      \* client -> buf[:n], read and not yet sent
    conns,      \* t.conns of every session
    upWire,     \* frames on their way to the directory
    downWire,   \* frames on their way to the agent
    inSock,     \* client -> bytes written to the socket and not read
    outSock,    \* client -> bytes written back and not read by the client
    hungUp,     \* clients that have closed their end
    ended,      \* clients whose connection the agent has closed
    relay,      \* directory: conn_id -> "none", "open", "closed"
    relayGot,   \* directory: conn_id -> bytes relayed into OpenLDAP
    sentUp, sentDown, gotDown   \* streams, as in BytePipe

serverVars == <<session, wire, listener, sockPath>>
pumpVars == <<connCounter, pc, owner, connID, chunk, conns>>
frameVars == <<upWire, downWire>>
sockVars == <<inSock, outSock, hungUp, ended>>
relayVars == <<relay, relayGot>>
streamVars == <<sentUp, sentDown, gotDown>>
vars == <<serverVars, pumpVars, frameVars, sockVars, relayVars, streamVars>>

PCs == {"outside", "accepted", "counting", "reading", "sending", "closing",
        "removing", "gone"}
Frame == [id : ConnIDs, data : Seq(Bytes), close : BOOLEAN]
Entry == [session : Sessions, id : ConnIDs, client : Clients]

Prefixes(s) == {SubSeq(s, 1, n) : n \in 1..Len(s)}

Init ==
    /\ session = 0 /\ wire = "down"
    /\ listener = [s \in Sessions |-> "none"] /\ sockPath = 0
    /\ connCounter = 0
    /\ pc = [k \in Clients |-> "outside"]
    /\ owner = [k \in Clients |-> 0]
    /\ connID = [k \in Clients |-> NoID]
    /\ chunk = [k \in Clients |-> <<>>]
    /\ conns = {}
    /\ upWire = <<>> /\ downWire = <<>>
    /\ inSock = [k \in Clients |-> <<>>] /\ outSock = [k \in Clients |-> <<>>]
    /\ hungUp = {} /\ ended = {}
    /\ relay = [id \in ConnIDs |-> "none"]
    /\ relayGot = [id \in ConnIDs |-> <<>>]
    /\ sentUp = [k \in Clients |-> <<>>]
    /\ sentDown = [k \in Clients |-> <<>>] /\ gotDown = [k \in Clients |-> <<>>]

-----------------------------------------------------------------------------
(* The session *)

Connect ==
    /\ wire = "down" /\ session < MaxSessions
    /\ session' = session + 1
    /\ wire' = "up"
    /\ UNCHANGED <<listener, sockPath, pumpVars, frameVars, sockVars, relayVars, streamVars>>

\* The network or the directory fails: what is on its way up is lost, of what is
\* on its way down only a part has arrived, and the directory closes the relays
\* of this session.
Break ==
    /\ wire = "up"
    /\ wire' = "broken"
    /\ upWire' = <<>>
    /\ \E n \in 0..Len(downWire) : downWire' = SubSeq(downWire, 1, n)
    /\ relay' = [id \in ConnIDs |-> IF relay[id] = "open" THEN "closed" ELSE relay[id]]
    /\ UNCHANGED <<session, listener, sockPath, pumpVars, sockVars, relayGot, streamVars>>

\* The read loop has worked off what had arrived, and ReadMessage fails.
Disconnect ==
    /\ wire = "broken" /\ downWire = <<>>
    /\ wire' = "down"
    /\ UNCHANGED <<session, listener, sockPath, pumpVars, frameVars, sockVars,
                   relayVars, streamVars>>

Stopped(s) == s < session \/ wire = "down"

\* go tunnel.start: the path is removed and bound anew.
Listen(s) ==
    /\ s = session /\ wire # "down"
    /\ listener[s] = "none"
    /\ listener' = [listener EXCEPT ![s] = "open"]
    /\ sockPath' = s
    /\ UNCHANGED <<session, wire, pumpVars, frameVars, sockVars, relayVars, streamVars>>

\* stopCh is closed; closing a unix listener unlinks the path it was bound to,
\* which may be the next session's by then.
CloseListener(s) ==
    /\ Stopped(s) /\ listener[s] = "open"
    /\ listener' = [listener EXCEPT ![s] = "closed"]
    /\ sockPath' = 0
    /\ UNCHANGED <<session, wire, pumpVars, frameVars, sockVars, relayVars, streamVars>>

-----------------------------------------------------------------------------
(* handleConn, one goroutine per local connection *)

Accept(k) ==
    /\ pc[k] = "outside" /\ sockPath # 0
    /\ pc' = [pc EXCEPT ![k] = "accepted"]
    /\ owner' = [owner EXCEPT ![k] = sockPath]
    /\ UNCHANGED <<serverVars, connCounter, connID, chunk, conns, frameVars,
                   sockVars, relayVars, streamVars>>

\* mutant: the conn_id is the counter alone
ReadCounterOnly(k) ==
    /\ pc[k] = "accepted"
    /\ pc' = [pc EXCEPT ![k] = "counting"]
    /\ connID' = [connID EXCEPT ![k] = <<UnixNano[CHOOSE j \in Clients : TRUE], connCounter + 1>>]
    /\ UNCHANGED <<serverVars, connCounter, owner, chunk, conns, frameVars,
                   sockVars, relayVars, streamVars>>

\* mutant: the counter is advanced twice
ReadCounterTwice(k) ==
    /\ pc[k] = "accepted"
    /\ pc' = [pc EXCEPT ![k] = "counting"]
    /\ connID' = [connID EXCEPT ![k] = <<UnixNano[k], connCounter + 2>>]
    /\ UNCHANGED <<serverVars, connCounter, owner, chunk, conns, frameVars,
                   sockVars, relayVars, streamVars>>

\* connCounter++ is not synchronized: the read of the counter ...
ReadCounter(k) ==
    /\ pc[k] = "accepted"
    /\ pc' = [pc EXCEPT ![k] = "counting"]
    /\ connID' = [connID EXCEPT ![k] = <<UnixNano[k], connCounter + 1>>]
    /\ UNCHANGED <<serverVars, connCounter, owner, chunk, conns, frameVars,
                   sockVars, relayVars, streamVars>>

\* ... and its write; then the connection is entered in t.conns.
Register(k) ==
    /\ pc[k] = "counting"
    /\ pc' = [pc EXCEPT ![k] = "reading"]
    /\ connCounter' = connID[k][2]
    /\ conns' = {e \in conns : ~(e.session = owner[k] /\ e.id = connID[k])}
                  \union {[session |-> owner[k], id |-> connID[k], client |-> k]}
    /\ UNCHANGED <<serverVars, owner, connID, chunk, frameVars, sockVars, relayVars, streamVars>>

\* conn.Read returns some of the bytes that are there.
ReadChunk(k) ==
    /\ pc[k] = "reading" /\ k \notin ended
    /\ \E data \in Prefixes(inSock[k]) :
          /\ chunk' = [chunk EXCEPT ![k] = data]
          /\ inSock' = [inSock EXCEPT ![k] = SubSeq(@, Len(data) + 1, Len(@))]
    /\ pc' = [pc EXCEPT ![k] = "sending"]
    /\ UNCHANGED <<serverVars, connCounter, owner, connID, conns, frameVars,
                   outSock, hungUp, ended, relayVars, streamVars>>

ReadError(k) ==
    /\ pc[k] = "reading"
    /\ k \in ended \/ (k \in hungUp /\ inSock[k] = <<>>)
    /\ pc' = [pc EXCEPT ![k] = "closing"]
    /\ UNCHANGED <<serverVars, connCounter, owner, connID, chunk, conns, frameVars,
                   sockVars, relayVars, streamVars>>

\* t.send through the session's safeWriter: one frame at a time; an error once
\* the socket is closed, and either that or a lost frame while it is broken.
Sent(k, frame) ==
    \/ owner[k] = session /\ wire = "up" /\ upWire' = Append(upWire, frame)
    \/ owner[k] = session /\ wire = "broken" /\ UNCHANGED upWire
SendError(k) ==
    (Stopped(owner[k]) \/ wire = "broken") /\ UNCHANGED upWire

SendChunk(k) ==
    /\ pc[k] = "sending"
    /\ \/ /\ Sent(k, [id |-> connID[k], data |-> chunk[k], close |-> FALSE])
          /\ pc' = [pc EXCEPT ![k] = "reading"]
       \/ SendError(k) /\ pc' = [pc EXCEPT ![k] = "closing"]
    /\ chunk' = [chunk EXCEPT ![k] = <<>>]
    /\ UNCHANGED <<serverVars, connCounter, owner, connID, conns, downWire,
                   sockVars, relayVars, streamVars>>

SendClose(k) ==
    /\ pc[k] = "closing"
    /\ \/ Sent(k, [id |-> connID[k], data |-> <<>>, close |-> TRUE])
       \/ SendError(k)
    /\ pc' = [pc EXCEPT ![k] = "removing"]
    /\ UNCHANGED <<serverVars, connCounter, owner, connID, chunk, conns, downWire,
                   sockVars, relayVars, streamVars>>

\* mutant: the connection is closed and its entry kept
RemoveKeepingEntry(k) ==
    /\ pc[k] = "removing"
    /\ pc' = [pc EXCEPT ![k] = "gone"]
    /\ ended' = ended \union {k}
    /\ UNCHANGED <<serverVars, connCounter, owner, connID, chunk, conns, frameVars,
                   inSock, outSock, hungUp, relayVars, streamVars>>

\* delete(t.conns, connID) under t.mu, then conn.Close().
Remove(k) ==
    /\ pc[k] = "removing"
    /\ pc' = [pc EXCEPT ![k] = "gone"]
    /\ conns' = {e \in conns : ~(e.session = owner[k] /\ e.id = connID[k])}
    /\ ended' = ended \union {k}
    /\ UNCHANGED <<serverVars, connCounter, owner, connID, chunk, frameVars,
                   inSock, outSock, hungUp, relayVars, streamVars>>

-----------------------------------------------------------------------------
(* handleMessage, called by the read loop for every ldap_tunnel frame *)

Entries(id) == {e \in conns : e.session = session /\ e.id = id}

HandleClose ==
    /\ downWire # <<>> /\ Head(downWire).close
    /\ LET found == Entries(Head(downWire).id)
       IN  /\ conns' = conns \ found
           /\ ended' = ended \union {e.client : e \in found}
    /\ downWire' = Tail(downWire)
    /\ UNCHANGED <<serverVars, connCounter, pc, owner, connID, chunk, upWire,
                   inSock, outSock, hungUp, relayVars, streamVars>>

\* mutant: a write that would block is given up
HandleDataDropping ==
    /\ downWire # <<>> /\ ~Head(downWire).close
    /\ LET data == Head(downWire).data
           open == {e.client : e \in Entries(Head(downWire).id)} \ (ended \union hungUp)
       IN  outSock' = [k \in Clients |->
                IF k \in open /\ Len(outSock[k]) + Len(data) <= SocketBuffer
                THEN outSock[k] \o data ELSE outSock[k]]
    /\ downWire' = Tail(downWire)
    /\ UNCHANGED <<serverVars, pumpVars, upWire, inSock, hungUp, ended, relayVars, streamVars>>

\* conn.Write blocks the read loop while the client's buffer is full; it fails,
\* and the bytes are dropped, when either end of the socket is closed.
HandleData ==
    /\ downWire # <<>> /\ ~Head(downWire).close
    /\ LET data == Head(downWire).data
           open == {e.client : e \in Entries(Head(downWire).id)} \ (ended \union hungUp)
       IN  /\ \A k \in open : Len(outSock[k]) + Len(data) <= SocketBuffer
           /\ outSock' = [k \in Clients |-> IF k \in open THEN outSock[k] \o data
                                                          ELSE outSock[k]]
    /\ downWire' = Tail(downWire)
    /\ UNCHANGED <<serverVars, pumpVars, upWire, inSock, hungUp, ended, relayVars, streamVars>>

-----------------------------------------------------------------------------
(* The local clients and the directory's relay (external) *)

Talking(k) == pc[k] # "outside" /\ k \notin hungUp

ClientWrite(k) ==
    /\ Talking(k) /\ k \notin ended
    /\ Len(sentUp[k]) < MaxUp[k]
    /\ sentUp' = [sentUp EXCEPT ![k] = Append(@, <<k, Len(@) + 1>>)]
    /\ inSock' = [inSock EXCEPT ![k] = Append(@, <<k, Len(sentUp[k]) + 1>>)]
    /\ UNCHANGED <<serverVars, pumpVars, frameVars, outSock, hungUp, ended,
                   relayVars, sentDown, gotDown>>

ClientRead(k) ==
    /\ Talking(k) /\ outSock[k] # <<>>
    /\ gotDown' = [gotDown EXCEPT ![k] = @ \o outSock[k]]
    /\ outSock' = [outSock EXCEPT ![k] = <<>>]
    /\ UNCHANGED <<serverVars, pumpVars, frameVars, inSock, hungUp, ended,
                   relayVars, sentUp, sentDown>>

ClientClose(k) ==
    /\ Talking(k)
    /\ hungUp' = hungUp \union {k}
    /\ UNCHANGED <<serverVars, pumpVars, frameVars, inSock, outSock, ended,
                   relayVars, streamVars>>

RelayReceive ==
    /\ wire = "up" /\ upWire # <<>>
    /\ LET f == Head(upWire)
       IN  IF f.close
           THEN /\ relay' = [relay EXCEPT ![f.id] = "closed"]
                /\ UNCHANGED relayGot
           ELSE /\ relay' = [relay EXCEPT ![f.id] = "open"]
                /\ relayGot' = [relayGot EXCEPT ![f.id] = @ \o f.data]
    /\ upWire' = Tail(upWire)
    /\ UNCHANGED <<serverVars, pumpVars, downWire, sockVars, streamVars>>

\* OpenLDAP answers the connection whose bytes it got first.
Asker(id) == Head(relayGot[id])[1]

RelayAnswer(id) ==
    /\ wire = "up" /\ relay[id] = "open"
    /\ LET k == Asker(id)
           byte == <<k, Len(sentDown[k]) + 1>>
       IN  /\ Len(sentDown[k]) < MaxDown[k]
           /\ sentDown' = [sentDown EXCEPT ![k] = Append(@, byte)]
           /\ downWire' = Append(downWire, [id |-> id, data |-> <<byte>>, close |-> FALSE])
    /\ UNCHANGED <<serverVars, pumpVars, upWire, sockVars, relayVars, sentUp, gotDown>>

RelayClose(id) ==
    /\ wire = "up" /\ relay[id] = "open"
    /\ relay' = [relay EXCEPT ![id] = "closed"]
    /\ downWire' = Append(downWire, [id |-> id, data |-> <<>>, close |-> TRUE])
    /\ UNCHANGED <<serverVars, pumpVars, upWire, sockVars, relayGot, streamVars>>

-----------------------------------------------------------------------------
Pump(k) ==
    \/ ReadCounter(k) \/ Register(k) \/ ReadChunk(k) \/ ReadError(k)
    \/ SendChunk(k) \/ SendClose(k) \/ Remove(k)
Client(k) == Accept(k) \/ ClientWrite(k) \/ ClientRead(k) \/ ClientClose(k)
Relay == RelayReceive \/ \E id \in ConnIDs : RelayAnswer(id) \/ RelayClose(id)
ReadLoop == HandleClose \/ HandleData \/ Disconnect

Next ==
    \/ Connect \/ Break \/ ReadLoop \/ Relay
    \/ \E s \in Sessions : Listen(s) \/ CloseListener(s)
    \/ \E k \in Clients : Pump(k) \/ Client(k)

Spec == Init /\ [][Next]_vars

\* Goroutines run, the directory reads its socket, and a client reads the answers
\* it is sent.  Nobody has to hang up, connect, or connect again.
Fairness ==
    /\ WF_vars(ReadLoop) /\ WF_vars(RelayReceive)
    /\ \A k \in Clients : WF_vars(Pump(k)) /\ WF_vars(ClientRead(k))

FairSpec == Spec /\ Fairness

-----------------------------------------------------------------------------
(* Properties *)

TypeOK ==
    /\ session \in 0..MaxSessions /\ wire \in {"down", "up", "broken"}
    /\ listener \in [Sessions -> {"none", "open", "closed"}]
    /\ sockPath \in 0..MaxSessions
    /\ connCounter \in 0..Cardinality(Clients)
    /\ pc \in [Clients -> PCs] /\ owner \in [Clients -> 0..MaxSessions]
    /\ connID \in [Clients -> ConnIDs \union {NoID}]
    /\ chunk \in [Clients -> Seq(Bytes)]
    /\ conns \subseteq Entry
    /\ upWire \in Seq(Frame) /\ downWire \in Seq(Frame)
    /\ inSock \in [Clients -> Seq(Bytes)] /\ outSock \in [Clients -> Seq(Bytes)]
    /\ hungUp \subseteq Clients /\ ended \subseteq Clients
    /\ relay \in [ConnIDs -> {"none", "open", "closed"}]
    /\ relayGot \in [ConnIDs -> Seq(Bytes)]
    /\ sentUp \in [Clients -> Seq(Bytes)] /\ sentDown \in [Clients -> Seq(Bytes)]
    /\ gotDown \in [Clients -> Seq(Bytes)]

\* What the relay of a connection has received, and what the agent has
\* written to its socket.
Relayed(k) == IF pc[k] \in {"outside", "accepted", "counting"}
              THEN <<>> ELSE relayGot[connID[k]]
Written(k) == gotDown[k] \o outSock[k]

\* The tunnel implements the byte pipes of BytePipe: what the relay of a
\* conn_id receives is the stream of the one connection that has this conn_id
\* (handleConn), and what handleMessage writes is what that relay answered.
Pipe == INSTANCE BytePipe WITH
    gotUp <- [k \in Clients |-> Relayed(k)],
    gotDown <- [k \in Clients |-> Written(k)]
PureBytePump == Pipe!PipeSpec

\* What handleConn still owes a client is the rest of what the client wrote, what
\* handleMessage owes a client that listens is the rest of the answers.
UpOwed(k) == sentUp[k] # Relayed(k)
DownOwed(k) == sentDown[k] # Written(k) /\ k \notin hungUp

\* Whatever the order of frames, ends and new sessions, nothing stays owed: what a
\* client writes reaches the directory, and what the directory answers reaches a
\* client that reads, however full its buffer is meanwhile, unless the session or
\* the connection ends first.  A connection whose session has ended ends as soon
\* as its client writes again (the send error of handleConn).
NothingOwed ==
    <>[](\A k \in Clients \ ended :
            IF Stopped(owner[k]) THEN pc[k] # "sending"
            ELSE wire = "up" => ~UpOwed(k) /\ ~DownOwed(k))

\* t.conns forgets every connection that has ended: no entry outlives its
\* handleConn, and no live handleConn of the session is without an entry unless
\* the directory closed it.
NoStaleEntry ==
    /\ \A e \in conns : pc[e.client] \in {"reading", "sending", "closing", "removing"}
    /\ \A k \in Clients :
          (pc[k] \in {"reading", "sending"} /\ k \notin ended)
             => \E e \in conns : e.client = k /\ e.id = connID[k] /\ e.session = owner[k]
=============================================================================
