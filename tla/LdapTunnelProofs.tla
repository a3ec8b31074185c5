-------------------------- MODULE LdapTunnelProofs --------------------------
(***************************************************************************)
(* What is proved of LdapTunnel for every set of connections, number of    *)
(* sessions and amount of traffic: type correctness, that t.conns neither  *)
(* keeps an ended connection nor loses a live one, and that the tunnel     *)
(* implements the byte pipes of BytePipe.                                  *)
(*                                                                         *)
(* The last two hold as long as no two connections read the same           *)
(* nanosecond in newConnID (FineGrainedClock): its counter is not          *)
(* synchronized, and two connections with one conn_id would share a relay. *)
(*                                                                         *)
(* The inductive invariant follows every byte: a Run is a stretch of a     *)
(* connection's stream, and a Flow says that the frames of a connection    *)
(* on a wire carry its stream from the byte its far end has got to the     *)
(* byte its near end has sent, whatever other frames lie between them.     *)
(***************************************************************************)
EXTENDS LdapTunnel, FiniteSetTheorems, SequenceTheorems, TLAPS

(* Streams of numbered bytes. *)

\* The bytes of k that follow its byte a, in order.
Run(s, k, a) == \A i \in 1..Len(s) : s[i] = <<k, a + i>>

\* The frames of a connection on a wire carry its stream from byte a to byte b:
\* there is a position between any two frames, and each frame of the connection
\* takes the stream on from one to the next.
Flow(w, id, k, a, b) ==
  \E pos \in [1..(Len(w) + 1) -> 0..b] :
    /\ pos[1] = a /\ pos[Len(w) + 1] = b
    /\ \A i \in 1..Len(w) :
         IF w[i].id = id
         THEN Run(w[i].data, k, pos[i]) /\ pos[i + 1] = pos[i] + Len(w[i].data)
         ELSE pos[i + 1] = pos[i]

----------------------------------------------------------------------------
(* The inductive invariant *)

\* A connection handleConn has entered in t.conns, at some time.
Registered(k) == pc[k] \notin {"outside", "accepted", "counting"}
Regs == {k \in Clients : Registered(k)}

\* The unsynchronized counter never runs ahead of the connections counted.
Counted ==
  /\ connCounter <= Cardinality(Regs)
  /\ \A k \in Clients : pc[k] = "counting" => connID[k][2] <= Cardinality(Regs) + 1

\* Whose connection is whose.
Named ==
  /\ sockPath <= session
  /\ \A k \in Clients :
       /\ owner[k] <= session
       /\ pc[k] # "outside" => owner[k] # 0
       /\ pc[k] \notin {"outside", "accepted"} => connID[k] = <<UnixNano[k], connID[k][2]>>
                                                 /\ connID[k] \in ConnIDs
       /\ pc[k] = "gone" => k \in ended
       /\ k \in ended => Registered(k)

\* An entry of t.conns is that of a registered connection that has not ended ...
Listed ==
  \A e \in conns :
    /\ Registered(e.client) /\ e.client \notin ended
    /\ e.id = connID[e.client] /\ e.session = owner[e.client]

\* ... and every such connection has one.
Findable ==
  \A k \in Clients : Registered(k) /\ k \notin ended =>
    [session |-> owner[k], id |-> connID[k], client |-> k] \in conns

\* A connection of the session the directory sees.
Present(k) == Registered(k) /\ owner[k] = session

\* Frames and relays belong to connections of the current session.
Ours(f) ==
  /\ \E k \in Clients : Present(k) /\ f.id = connID[k]
  /\ f.close <=> f.data = <<>>

\* Frames travel while the socket is there, between connections of this session.
UpFramed == \A i \in 1..Len(upWire) : wire = "up" /\ Ours(upWire[i])
DownFramed == \A i \in 1..Len(downWire) : wire # "down" /\ Ours(downWire[i])

\* A relay is open while the session is, for a connection that has sent bytes.
Relaying ==
  \A id \in ConnIDs :
    /\ relay[id] = "open" => /\ wire = "up" /\ relayGot[id] # <<>>
                             /\ \E k \in Clients : Present(k) /\ connID[k] = id
    /\ relayGot[id] # <<>> => \E k \in Clients : Registered(k) /\ connID[k] = id

\* handleConn holds bytes exactly when it is about to send them.
Chunked == \A k \in Clients : pc[k] = "sending" <=> chunk[k] # <<>>

Framed == UpFramed /\ DownFramed /\ Relaying /\ Chunked

\* Where the bytes of a client are.
Start(k) == Len(sentUp[k]) - Len(inSock[k]) - Len(chunk[k])

\* What has come out of the two streams of a connection is the beginning of what
\* went in, and the bytes in between lie in order in chunk and socket.
Streams(k) ==
  /\ Run(sentUp[k], k, 0) /\ Run(sentDown[k], k, 0)
  /\ Run(Relayed(k), k, 0) /\ Len(Relayed(k)) <= Len(sentUp[k])
  /\ Run(Written(k), k, 0) /\ Len(Written(k)) <= Len(sentDown[k])
  /\ Start(k) >= 0
  /\ Run(chunk[k], k, Start(k))
  /\ Run(inSock[k], k, Len(sentUp[k]) - Len(inSock[k]))
  /\ ~Registered(k) => Start(k) = 0 /\ sentDown[k] = <<>>

\* While the session is up, the frames on their way up close the gap between
\* what the relay has received and what handleConn has sent.
UpFlow(k) == Present(k) /\ wire = "up" =>
  Flow(upWire, connID[k], k, Len(relayGot[connID[k]]), Start(k))

\* Likewise down, for a connection that is still written to; when the socket has
\* broken, together with the frames that were lost behind those that arrived.
DownFlow(k) == Present(k) /\ k \notin ended \cup hungUp =>
  \E lost \in Seq(Frame) :
    /\ wire = "up" => lost = <<>>
    /\ Flow(downWire \o lost, connID[k], k, Len(Written(k)), Len(sentDown[k]))

Flows == \A k \in Clients : Streams(k) /\ UpFlow(k) /\ DownFlow(k)

\* What newConnID returns is a conn_id as long as the counter is in range.
LEMMA ConnIDType ==
  /\ Cardinality(Clients) \in Nat
  /\ \A k \in Clients : UnixNano[k] \in Nat
  /\ \A k \in Clients, n \in 0..Cardinality(Clients) : <<UnixNano[k], n>> \in ConnIDs
  /\ \A id \in ConnIDs : id = <<id[1], id[2]>> /\ id[1] \in Nat /\ id[2] \in 0..Cardinality(Clients)
<1>1. Cardinality(Clients) \in Nat
  BY TunnelConstants, FS_CardinalityType
<1>2. \A k \in Clients : UnixNano[k] \in Nat
  BY TunnelConstants
<1> QED
  BY <1>1, <1>2 DEF ConnIDs

\* No more connections are registered than there are.
LEMMA RegsAtMost ==
  ASSUME TypeOK
  PROVE  /\ IsFiniteSet(Regs) /\ Cardinality(Regs) \in Nat
         /\ Cardinality(Regs) <= Cardinality(Clients)
         /\ \A k \in Clients \ Regs : Cardinality(Regs) < Cardinality(Clients)
<1>1. Regs \subseteq Clients
  BY DEF Regs
<1>2. /\ IsFiniteSet(Regs) /\ Cardinality(Regs) <= Cardinality(Clients)
      /\ Cardinality(Clients) = Cardinality(Regs) => Clients = Regs
  <2>1. IsFiniteSet(Clients) /\ Regs \in SUBSET Clients
    BY <1>1, TunnelConstants
  <2> QED
    BY <2>1, FS_Subset
<1>3. Cardinality(Regs) \in Nat /\ Cardinality(Clients) \in Nat
  BY <1>2, TunnelConstants, FS_CardinalityType
<1> QED
  BY <1>2, <1>3

\* The bytes of a connection, and whose a byte is.
LEMMA BytesOf ==
  /\ \A k \in Clients : \A n \in 1..MaxUp[k] : <<k, n>> \in Bytes
  /\ \A k \in Clients : \A n \in 1..MaxDown[k] : <<k, n>> \in Bytes
  /\ \A b \in Bytes : b[1] \in Clients
<1> USE TunnelConstants DEF Bytes
<1> DEFINE N(k) == (1..MaxUp[k]) \union (1..MaxDown[k])
<1>1. ASSUME NEW k \in Clients, NEW n \in N(k) PROVE <<k, n>> \in Bytes
  <2>1. <<k, n>> \in {k} \X N(k)
    OBVIOUS
  <2> QED
    BY <2>1
<1>2. \A b \in Bytes : b[1] \in Clients
  OBVIOUS
<1> QED
  BY <1>1, <1>2

\* Head and tail of a sequence.
LEMMA HeadTail ==
  ASSUME NEW S, NEW s \in Seq(S), s # <<>>
  PROVE  /\ Head(s) \in S /\ Head(s) = s[1] /\ Len(s) >= 1
         /\ Tail(s) \in Seq(S) /\ Len(Tail(s)) = Len(s) - 1
         /\ \A i \in 1..Len(s) - 1 : Tail(s)[i] = s[i + 1]
OBVIOUS

\* The initial state is of the right type.
LEMMA TypeInit == Init => TypeOK
<1> SUFFICES ASSUME Init PROVE TypeOK
  OBVIOUS
<1>1. Cardinality(Clients) \in Nat
  BY ConnIDType
<1>2. <<>> \in Seq(Bytes) /\ <<>> \in Seq(Frame)
  OBVIOUS
<1> QED
  BY <1>1, <1>2, TunnelConstants DEF Init, TypeOK, PCs, NoID

\* No step leaves the types: the counter of newConnID and the conn_ids stay in
\* range, an answer is a byte of the connection that asked.
LEMMA TypeStep ==
  ASSUME TypeOK, Counted, Named, Framed, [Next]_vars
  PROVE  TypeOK'
<1>0. Cardinality(Clients) \in Nat
  BY ConnIDType
<1>1. CASE Connect
  BY <1>1, TunnelConstants DEF Connect, TypeOK, pumpVars, frameVars, sockVars, relayVars, streamVars
<1>2. CASE Break
  <2>1. <<>> \in Seq(Frame)
    OBVIOUS
  <2>2. downWire' \in Seq(Frame)
    <3>1. downWire \in Seq(Frame)
      BY DEF TypeOK
    <3>2. PICK n \in 0..Len(downWire) : downWire' = SubSeq(downWire, 1, n)
      BY <1>2 DEF Break
    <3> QED
      BY <3>1, <3>2
  <2> QED
    BY <1>2, <2>1, <2>2 DEF Break, TypeOK, pumpVars, sockVars, streamVars
<1>3. CASE Disconnect
  BY <1>3 DEF Disconnect, TypeOK, pumpVars, frameVars, sockVars, relayVars, streamVars
<1>4. CASE HandleClose
  <2>1. {e.client : e \in Entries(Head(downWire).id)} \subseteq Clients
    BY DEF Entries, TypeOK, Entry
  <2>2. Tail(downWire) \in Seq(Frame)
    BY <1>4 DEF HandleClose, TypeOK
  <2> QED
    BY <1>4, <2>1, <2>2 DEF HandleClose, TypeOK, serverVars, relayVars, streamVars
<1>5. CASE HandleData
  <2>1. Tail(downWire) \in Seq(Frame) /\ Head(downWire).data \in Seq(Bytes)
    <3>1. downWire \in Seq(Frame) /\ downWire # <<>>
      BY <1>5 DEF HandleData, TypeOK
    <3>2. Tail(downWire) \in Seq(Frame) /\ Head(downWire) \in Frame
      BY <3>1, HeadTail
    <3> QED
      BY <3>2 DEF Frame
  <2>2. PICK open : outSock' = [k \in Clients |-> IF k \in open THEN outSock[k] \o Head(downWire).data
                                                   ELSE outSock[k]]
    BY <1>5 DEF HandleData
  <2>3. \A k \in Clients : outSock[k] \o Head(downWire).data \in Seq(Bytes)
    BY <2>1 DEF TypeOK
  <2>4. outSock' \in [Clients -> Seq(Bytes)]
    BY <2>2, <2>3 DEF TypeOK
  <2> QED
    BY <1>5, <2>1, <2>4 DEF HandleData, TypeOK, serverVars, pumpVars, relayVars, streamVars
<1>6. CASE RelayReceive
  <2>1. /\ Tail(upWire) \in Seq(Frame) /\ Head(upWire).data \in Seq(Bytes)
        /\ Head(upWire).id \in ConnIDs
    <3>1. upWire \in Seq(Frame) /\ upWire # <<>>
      BY <1>6 DEF RelayReceive, TypeOK
    <3>2. Tail(upWire) \in Seq(Frame) /\ Head(upWire) \in Frame
      BY <3>1, HeadTail
    <3> QED
      BY <3>2 DEF Frame
  <2>2. relayGot[Head(upWire).id] \o Head(upWire).data \in Seq(Bytes)
    BY <2>1 DEF TypeOK
  <2>3. relay' \in [ConnIDs -> {"none", "open", "closed"}]
    BY <1>6 DEF RelayReceive, TypeOK
  <2>4. relayGot' \in [ConnIDs -> Seq(Bytes)]
    BY <1>6, <2>1, <2>2 DEF RelayReceive, TypeOK, relayVars
  <2> QED
    BY <1>6, <2>1, <2>3, <2>4 DEF RelayReceive, TypeOK, serverVars, pumpVars, sockVars, streamVars
<1>7. ASSUME NEW id \in ConnIDs, RelayAnswer(id) PROVE TypeOK'
  <2> DEFINE k == Asker(id)
             byte == <<k, Len(sentDown[k]) + 1>>
  <2>1. relayGot[id] # <<>> /\ relayGot[id] \in Seq(Bytes)
    BY <1>7 DEF RelayAnswer, Framed, Relaying, TypeOK
  <2>2. k \in Clients
    BY <2>1, BytesOf DEF Asker
  <2>3. byte \in Bytes
    <3>1. Len(sentDown[k]) + 1 \in 1..MaxDown[k]
      <4>1. Len(sentDown[k]) < MaxDown[k]
        BY <1>7 DEF RelayAnswer
      <4>2. Len(sentDown[k]) \in Nat /\ MaxDown[k] \in Nat
        <5>1. sentDown[k] \in Seq(Bytes)
          BY <2>2 DEF TypeOK
        <5> QED
          BY <2>2, <5>1, TunnelConstants
      <4> HIDE DEF k
      <4> QED
        BY <4>1, <4>2
    <3> QED
      BY <2>2, <3>1, BytesOf
  <2>4. [id |-> id, data |-> <<byte>>, close |-> FALSE] \in Frame
    BY <2>3 DEF Frame
  <2> HIDE DEF byte, k
  <2>5. Append(sentDown[k], byte) \in Seq(Bytes)
    BY <2>2, <2>3 DEF TypeOK
  <2>6. /\ sentDown' = [sentDown EXCEPT ![k] = Append(@, byte)]
        /\ downWire' = Append(downWire, [id |-> id, data |-> <<byte>>, close |-> FALSE])
    BY <1>7 DEF RelayAnswer, k, byte
  <2>7. sentDown' \in [Clients -> Seq(Bytes)] /\ downWire' \in Seq(Frame)
    BY <2>2, <2>4, <2>5, <2>6 DEF TypeOK
  <2> QED
    BY <1>7, <2>7 DEF RelayAnswer, TypeOK, serverVars, pumpVars, sockVars, relayVars
<1>8. ASSUME NEW id \in ConnIDs, RelayClose(id) PROVE TypeOK'
  <2>1. [id |-> id, data |-> <<>>, close |-> TRUE] \in Frame
    BY DEF Frame
  <2>2. downWire' \in Seq(Frame)
    BY <2>1, <1>8 DEF RelayClose, TypeOK
  <2>3. relay' \in [ConnIDs -> {"none", "open", "closed"}]
    BY <1>8 DEF RelayClose, TypeOK
  <2> QED
    BY <1>8, <2>2, <2>3 DEF RelayClose, TypeOK, serverVars, pumpVars, sockVars, streamVars
<1>9. ASSUME NEW s \in Sessions, Listen(s) \/ CloseListener(s) PROVE TypeOK'
  <2>1. sockPath' \in {s, 0} /\ sockPath' \in 0..MaxSessions
    BY <1>9, TunnelConstants DEF Listen, CloseListener, Sessions
  <2>2. listener' \in [Sessions -> {"none", "open", "closed"}]
    BY <1>9 DEF Listen, CloseListener, TypeOK
  <2> QED
    BY <1>9, <2>1, <2>2 DEF Listen, CloseListener, TypeOK, pumpVars, frameVars, sockVars, relayVars, streamVars
<1>10. ASSUME NEW k \in Clients, Accept(k) PROVE TypeOK'
  BY <1>10 DEF Accept, TypeOK, PCs, serverVars, frameVars, sockVars, relayVars, streamVars
<1>11. ASSUME NEW k \in Clients, ReadCounter(k) PROVE TypeOK'
  <2>1. k \notin Regs
    BY <1>11 DEF ReadCounter, Regs, Registered
  <2>2. connCounter + 1 \in 0..Cardinality(Clients)
    BY <2>1, <1>0, RegsAtMost DEF Counted, TypeOK
  <2>3. <<UnixNano[k], connCounter + 1>> \in ConnIDs
    BY <2>2, ConnIDType
  <2> QED
    BY <1>11, <2>3 DEF ReadCounter, TypeOK, PCs, serverVars, frameVars, sockVars, relayVars, streamVars
<1>12. ASSUME NEW k \in Clients, Register(k) PROVE TypeOK'
  <2>1. connID[k] \in ConnIDs
    BY <1>12 DEF Register, Named
  <2>2. connID[k][2] \in 0..Cardinality(Clients)
    BY <2>1, ConnIDType
  <2>3. owner[k] \in Sessions
    BY <1>12 DEF Register, Named, TypeOK, Sessions
  <2>4. [session |-> owner[k], id |-> connID[k], client |-> k] \in Entry
    BY <2>1, <2>3 DEF Entry
  <2>5. conns' \subseteq Entry
    BY <2>4, <1>12 DEF Register, TypeOK
  <2> QED
    BY <1>12, <2>2, <2>5 DEF Register, TypeOK, PCs, serverVars, frameVars, sockVars, relayVars, streamVars
<1>13. ASSUME NEW k \in Clients, ReadChunk(k) PROVE TypeOK'
  <2>1. PICK n \in 1..Len(inSock[k]) :
          /\ chunk' = [chunk EXCEPT ![k] = SubSeq(inSock[k], 1, n)]
          /\ inSock' = [inSock EXCEPT ![k] = SubSeq(@, Len(SubSeq(inSock[k], 1, n)) + 1, Len(@))]
    BY <1>13 DEF ReadChunk, Prefixes
  <2>2. SubSeq(inSock[k], 1, n) \in Seq(Bytes) /\ Len(SubSeq(inSock[k], 1, n)) = n
    BY DEF TypeOK
  <2>3. SubSeq(inSock[k], n + 1, Len(inSock[k])) \in Seq(Bytes)
    BY DEF TypeOK
  <2>4. chunk' \in [Clients -> Seq(Bytes)] /\ inSock' \in [Clients -> Seq(Bytes)]
    BY <2>1, <2>2, <2>3 DEF TypeOK
  <2> QED
    BY <1>13, <2>4 DEF ReadChunk, TypeOK, PCs, serverVars, frameVars, relayVars, streamVars
<1>14. ASSUME NEW k \in Clients, ReadError(k) PROVE TypeOK'
  BY <1>14 DEF ReadError, TypeOK, PCs, serverVars, frameVars, sockVars, relayVars, streamVars
<1>15. ASSUME NEW k \in Clients, SendChunk(k) PROVE TypeOK'
  <2>1. connID[k] \in ConnIDs
    BY <1>15 DEF SendChunk, Named
  <2>2. [id |-> connID[k], data |-> chunk[k], close |-> FALSE] \in Frame
    BY <2>1 DEF Frame, TypeOK
  <2>3. upWire' \in Seq(Frame)
    <3>1. upWire \in Seq(Frame)
      BY DEF TypeOK
    <3>2. \/ upWire' = upWire
          \/ upWire' = Append(upWire, [id |-> connID[k], data |-> chunk[k], close |-> FALSE])
      BY <1>15 DEF SendChunk, Sent, SendError
    <3> QED
      BY <2>2, <3>1, <3>2
  <2>4. chunk' \in [Clients -> Seq(Bytes)]
    <3>1. <<>> \in Seq(Bytes)
      OBVIOUS
    <3> QED
      BY <3>1, <1>15 DEF SendChunk, TypeOK
  <2>5. pc' \in [Clients -> PCs]
    BY <1>15 DEF SendChunk, TypeOK, PCs
  <2> QED
    BY <1>15, <2>3, <2>4, <2>5 DEF SendChunk, TypeOK, serverVars, sockVars, relayVars, streamVars
<1>16. ASSUME NEW k \in Clients, SendClose(k) PROVE TypeOK'
  <2>1. connID[k] \in ConnIDs
    BY <1>16 DEF SendClose, Named
  <2>2. [id |-> connID[k], data |-> <<>>, close |-> TRUE] \in Frame
    BY <2>1 DEF Frame
  <2>3. upWire' \in Seq(Frame)
    <3>1. upWire \in Seq(Frame)
      BY DEF TypeOK
    <3>2. \/ upWire' = upWire
          \/ upWire' = Append(upWire, [id |-> connID[k], data |-> <<>>, close |-> TRUE])
      BY <1>16 DEF SendClose, Sent, SendError
    <3> QED
      BY <2>2, <3>1, <3>2
  <2> QED
    BY <1>16, <2>3 DEF SendClose, TypeOK, PCs, serverVars, sockVars, relayVars, streamVars
<1>17. ASSUME NEW k \in Clients, Remove(k) PROVE TypeOK'
  BY <1>17 DEF Remove, TypeOK, PCs, serverVars, frameVars, relayVars, streamVars
<1>18. ASSUME NEW k \in Clients, ClientWrite(k) PROVE TypeOK'
  <2>1. Len(sentUp[k]) + 1 \in 1..MaxUp[k]
    <3>1. Len(sentUp[k]) < MaxUp[k] /\ MaxUp[k] \in Nat
      BY <1>18, TunnelConstants DEF ClientWrite
    <3>2. sentUp[k] \in Seq(Bytes)
      BY DEF TypeOK
    <3> QED
      BY <3>1, <3>2
  <2>2. <<k, Len(sentUp[k]) + 1>> \in Bytes
    BY <2>1, BytesOf
  <2>3. Append(sentUp[k], <<k, Len(sentUp[k]) + 1>>) \in Seq(Bytes)
        /\ Append(inSock[k], <<k, Len(sentUp[k]) + 1>>) \in Seq(Bytes)
    BY <2>2 DEF TypeOK
  <2>4. sentUp' \in [Clients -> Seq(Bytes)] /\ inSock' \in [Clients -> Seq(Bytes)]
    BY <2>3, <1>18 DEF ClientWrite, TypeOK
  <2> QED
    BY <1>18, <2>4 DEF ClientWrite, TypeOK, serverVars, pumpVars, frameVars, relayVars
<1>19. ASSUME NEW k \in Clients, ClientRead(k) PROVE TypeOK'
  <2>1. gotDown[k] \o outSock[k] \in Seq(Bytes) /\ <<>> \in Seq(Bytes)
    BY DEF TypeOK
  <2>2. gotDown' \in [Clients -> Seq(Bytes)] /\ outSock' \in [Clients -> Seq(Bytes)]
    BY <2>1, <1>19 DEF ClientRead, TypeOK
  <2> QED
    BY <1>19, <2>2 DEF ClientRead, TypeOK, serverVars, pumpVars, frameVars, relayVars
<1>20. ASSUME NEW k \in Clients, ClientClose(k) PROVE TypeOK'
  BY <1>20 DEF ClientClose, TypeOK, serverVars, pumpVars, frameVars, relayVars, streamVars
<1>21. CASE UNCHANGED vars
  BY <1>21 DEF TypeOK, vars, serverVars, pumpVars, frameVars, sockVars, relayVars, streamVars
<1> QED
  BY <1>1, <1>2, <1>3, <1>4, <1>5, <1>6, <1>7, <1>8, <1>9, <1>10, <1>11, <1>12, <1>13, <1>14,
     <1>15, <1>16, <1>17, <1>18, <1>19, <1>20, <1>21
     DEF Next, ReadLoop, Relay, Pump, Client

\* At the start nobody has been counted.
LEMMA CountedInit == Init => Counted
<1> SUFFICES ASSUME Init PROVE Counted
  OBVIOUS
<1>1. Regs = {}
  BY DEF Init, Regs, Registered
<1> QED
  BY <1>1, FS_EmptySet DEF Init, Counted

\* The counter of newConnID, lost updates included, never exceeds the number of
\* registered connections.
LEMMA CountedStep ==
  ASSUME TypeOK, Counted, Named, [Next]_vars
  PROVE  Counted'
<1> DEFINE Quiet == UNCHANGED <<connCounter, connID, Regs>> /\ \A k \in Clients : pc'[k] = "counting" => pc[k] = "counting"
<1>0. /\ Cardinality(Regs) \in Nat /\ IsFiniteSet(Regs)
      /\ connCounter \in Nat
  BY RegsAtMost, ConnIDType DEF TypeOK
<1>1. ASSUME Quiet PROVE Counted'
  BY <1>1 DEF Counted
<1>2. ASSUME UNCHANGED <<connCounter, connID, pc>> PROVE Quiet
  BY <1>2 DEF Regs, Registered
<1>3. ASSUME NEW k \in Clients, Accept(k) PROVE Quiet
  <2>1. \A j \in Clients : Registered(j)' <=> Registered(j)
    BY <1>3 DEF Accept, TypeOK, Registered
  <2>2. \A j \in Clients : pc'[j] = "counting" => pc[j] = "counting"
    BY <1>3 DEF Accept, TypeOK
  <2> QED
    BY <1>3, <2>1, <2>2 DEF Accept, Regs
<1>4. ASSUME NEW k \in Clients, ReadChunk(k) \/ ReadError(k) \/ SendChunk(k) \/ SendClose(k) \/ Remove(k)
      PROVE  Quiet
  <2>1. \A j \in Clients : Registered(j)' <=> Registered(j)
    BY <1>4 DEF ReadChunk, ReadError, SendChunk, SendClose, Remove, TypeOK, Registered
  <2>2. \A j \in Clients : pc'[j] = "counting" => pc[j] = "counting"
    BY <1>4 DEF ReadChunk, ReadError, SendChunk, SendClose, Remove, TypeOK
  <2>3. UNCHANGED <<connCounter, connID>>
    BY <1>4 DEF ReadChunk, ReadError, SendChunk, SendClose, Remove
  <2> QED
    BY <2>1, <2>2, <2>3 DEF Regs
<1>5. ASSUME NEW k \in Clients, ReadCounter(k) PROVE Counted'
  <2>1. \A j \in Clients : Registered(j)' <=> Registered(j)
    BY <1>5 DEF ReadCounter, TypeOK, Registered
  <2>2. Regs' = Regs
    BY <2>1 DEF Regs
  <2>3. connCounter' = connCounter
    BY <1>5 DEF ReadCounter
  <2>4. ASSUME NEW j \in Clients, pc'[j] = "counting"
        PROVE  connID'[j][2] <= Cardinality(Regs) + 1
    <3>1. CASE j = k
      <4>1. connID'[j] = <<UnixNano[k], connCounter + 1>>
        BY <1>5, <3>1 DEF ReadCounter, TypeOK
      <4> QED
        BY <4>1, <1>0 DEF Counted
    <3>2. CASE j # k
      <4>1. connID'[j] = connID[j] /\ pc[j] = "counting"
        BY <1>5, <3>2, <2>4 DEF ReadCounter, TypeOK
      <4> QED
        BY <4>1 DEF Counted
    <3> QED
      BY <3>1, <3>2
  <2> QED
    BY <2>2, <2>3, <2>4 DEF Counted
<1>6. ASSUME NEW k \in Clients, Register(k) PROVE Counted'
  <2>1. k \notin Regs
    BY <1>6 DEF Register, Regs, Registered
  <2>2. \A j \in Clients : Registered(j)' <=> Registered(j) \/ j = k
    BY <1>6 DEF Register, TypeOK, Registered
  <2>3. Regs' = Regs \cup {k}
    BY <2>2 DEF Regs
  <2>4. Cardinality(Regs') = Cardinality(Regs) + 1
    BY <2>1, <2>3, <1>0, FS_AddElement
  <2>5. connCounter' <= Cardinality(Regs')
    BY <2>4, <1>6 DEF Register, Counted
  <2>6. ASSUME NEW j \in Clients, pc'[j] = "counting"
        PROVE  connID'[j][2] <= Cardinality(Regs') + 1
    <3>1. pc[j] = "counting" /\ connID'[j] = connID[j]
      BY <1>6, <2>6 DEF Register, TypeOK
    <3>2. connID[j][2] <= Cardinality(Regs) + 1
      BY <3>1 DEF Counted
    <3>3. connID[j][2] \in Nat
      BY <3>1, ConnIDType DEF Named
    <3> QED
      BY <3>1, <3>2, <3>3, <2>4, <1>0
  <2> QED
    BY <2>5, <2>6 DEF Counted
<1>7. ASSUME NEW k \in Clients, ClientWrite(k) \/ ClientRead(k) \/ ClientClose(k) PROVE Quiet
  <2>1. UNCHANGED <<connCounter, connID, pc>>
    BY <1>7 DEF ClientWrite, ClientRead, ClientClose, pumpVars
  <2> QED
    BY <1>2, <2>1
<1>8. ASSUME NEW id \in ConnIDs, RelayAnswer(id) \/ RelayClose(id) PROVE Quiet
  <2>1. UNCHANGED <<connCounter, connID, pc>>
    BY <1>8 DEF RelayAnswer, RelayClose, pumpVars
  <2> QED
    BY <1>2, <2>1
<1>9. ASSUME NEW s \in Sessions, Listen(s) \/ CloseListener(s) PROVE Quiet
  <2>1. UNCHANGED <<connCounter, connID, pc>>
    BY <1>9 DEF Listen, CloseListener, pumpVars
  <2> QED
    BY <1>2, <2>1
<1>10. CASE Connect \/ Break \/ ReadLoop \/ RelayReceive \/ UNCHANGED vars
  <2>1. UNCHANGED <<connCounter, connID, pc>>
    BY <1>10 DEF Connect, Break, ReadLoop, HandleClose, HandleData, Disconnect, RelayReceive, pumpVars, vars
  <2> QED
    BY <1>1, <1>2, <2>1
<1> HIDE DEF Quiet
<1> QED
  BY <1>1, <1>3, <1>4, <1>5, <1>6, <1>7, <1>8, <1>9, <1>10 DEF Next, Relay, Pump, Client

\* The conn_id newConnID makes is within the type.
LEMMA FreshID ==
  ASSUME TypeOK, Counted, NEW k \in Clients, ReadCounter(k)
  PROVE  <<UnixNano[k], connCounter + 1>> \in ConnIDs
<1>1. k \notin Regs
  BY DEF ReadCounter, Regs, Registered
<1>0. Cardinality(Clients) \in Nat
  BY ConnIDType
<1>2. connCounter + 1 \in 0..Cardinality(Clients)
  BY <1>0, <1>1, RegsAtMost DEF Counted, TypeOK
<1> QED
  BY <1>2, ConnIDType

\* A connection keeps the session and the conn_id it got (handleConn).
LEMMA NamedStep ==
  ASSUME TypeOK, Counted, Named, Listed, [Next]_vars
  PROVE  Named'
<1> DEFINE Quiet == /\ UNCHANGED <<sockPath, owner, connID, pc, ended>>
                    /\ session' = session
<1>1. ASSUME Quiet PROVE Named'
  BY <1>1 DEF Named, Registered
<1>2. ASSUME NEW k \in Clients, ClientWrite(k) \/ ClientRead(k) \/ ClientClose(k) PROVE Quiet
  BY <1>2 DEF ClientWrite, ClientRead, ClientClose, pumpVars, serverVars
<1>3. ASSUME NEW id \in ConnIDs, RelayAnswer(id) \/ RelayClose(id) PROVE Quiet
  BY <1>3 DEF RelayAnswer, RelayClose, pumpVars, serverVars, sockVars
<1>4. ASSUME NEW s \in Sessions, Listen(s) \/ CloseListener(s) PROVE Named'
  <2>1. UNCHANGED <<owner, connID, pc, ended, session>>
    BY <1>4 DEF Listen, CloseListener, pumpVars, sockVars
  <2>2. sockPath' <= session
    BY <1>4 DEF Listen, CloseListener, TypeOK, Sessions
  <2> QED
    BY <2>1, <2>2 DEF Named, Registered
<1>5. ASSUME Break \/ HandleData \/ Disconnect \/ RelayReceive \/ UNCHANGED vars PROVE Quiet
  BY <1>5 DEF Break, HandleData, Disconnect, RelayReceive, pumpVars, serverVars, sockVars, vars
<1>6. CASE Connect
  <2>1. UNCHANGED <<owner, connID, pc, ended, sockPath>>
    BY <1>6 DEF Connect, pumpVars, sockVars
  <2>2. session' >= session /\ session' \in Nat /\ session \in Nat
    BY <1>6 DEF Connect, TypeOK
  <2>3. sockPath \in Nat /\ \A k \in Clients : owner[k] \in Nat
    BY TunnelConstants DEF TypeOK
  <2> QED
    BY <2>1, <2>2, <2>3 DEF Named, Registered
<1>7. CASE HandleClose
  <2>1. UNCHANGED <<owner, connID, pc, session, sockPath>>
    BY <1>7 DEF HandleClose, serverVars
  <2>2. \A k \in Clients : (k \in ended => k \in ended') /\ (k \in ended' => Registered(k))
    <3> TAKE k \in Clients
    <3>1. ended' = ended \cup {e.client : e \in Entries(Head(downWire).id)}
      BY <1>7 DEF HandleClose
    <3>2. \A e \in conns : Registered(e.client)
      BY DEF Listed
    <3> QED
      BY <3>1, <3>2 DEF Entries, Named
  <2> QED
    BY <2>1, <2>2 DEF Named, Registered
<1>8. ASSUME NEW k \in Clients, Accept(k) PROVE Named'
  <2>1. UNCHANGED <<connID, ended, session, sockPath>>
    BY <1>8 DEF Accept, serverVars, sockVars
  <2>2. sockPath # 0 /\ sockPath <= session
    BY <1>8 DEF Accept, Named
  <2>3. \A j \in Clients : /\ owner'[j] = IF j = k THEN sockPath ELSE owner[j]
                           /\ pc'[j] = IF j = k THEN "accepted" ELSE pc[j]
    BY <1>8 DEF Accept, TypeOK
  <2>4. k \notin ended
    BY <1>8 DEF Accept, Named, Registered
  <2> QED
    BY <2>1, <2>2, <2>3, <2>4 DEF Named, Registered
<1>9. ASSUME NEW k \in Clients, ReadCounter(k) PROVE Named'
  <2>1. UNCHANGED <<owner, ended, session, sockPath>>
    BY <1>9 DEF ReadCounter, serverVars, sockVars
  <2>2. \A j \in Clients : /\ connID'[j] = IF j = k THEN <<UnixNano[k], connCounter + 1>> ELSE connID[j]
                           /\ pc'[j] = IF j = k THEN "counting" ELSE pc[j]
    BY <1>9 DEF ReadCounter, TypeOK
  <2>3. pc[k] = "accepted" /\ k \notin ended
    BY <1>9 DEF ReadCounter, Named, Registered
  <2>4. <<UnixNano[k], connCounter + 1>> \in ConnIDs
    BY <1>9, FreshID
  <2> QED
    BY <2>1, <2>2, <2>3, <2>4 DEF Named, Registered
<1>10. ASSUME NEW k \in Clients,
              Register(k) \/ ReadChunk(k) \/ ReadError(k) \/ SendChunk(k) \/ SendClose(k)
       PROVE  Named'
  <2>1. UNCHANGED <<owner, connID, ended, session, sockPath>>
    BY <1>10 DEF Register, ReadChunk, ReadError, SendChunk, SendClose, serverVars, sockVars
  <2>2. /\ \A j \in Clients \ {k} : pc'[j] = pc[j]
        /\ pc[k] \notin {"outside", "accepted"} /\ pc'[k] # "gone"
        /\ pc'[k] \notin {"outside", "accepted", "counting"}
    BY <1>10 DEF Register, ReadChunk, ReadError, SendChunk, SendClose, TypeOK
  <2> QED
    BY <2>1, <2>2 DEF Named, Registered
<1>11. ASSUME NEW k \in Clients, Remove(k) PROVE Named'
  <2>1. UNCHANGED <<owner, connID, session, sockPath>>
    BY <1>11 DEF Remove, serverVars
  <2>2. /\ \A j \in Clients \ {k} : pc'[j] = pc[j]
        /\ pc[k] = "removing" /\ pc'[k] = "gone" /\ ended' = ended \cup {k}
    BY <1>11 DEF Remove, TypeOK
  <2> QED
    BY <2>1, <2>2 DEF Named, Registered
<1> HIDE DEF Quiet
<1> QED
  BY <1>1, <1>2, <1>3, <1>4, <1>5, <1>6, <1>7, <1>8, <1>9, <1>10, <1>11
     DEF Next, ReadLoop, Relay, Pump, Client

(* The entries of t.conns.  Two connections of a session have two conn_ids as  *)
(* long as no two read the same nanosecond.                                    *)
FineGrainedClock == \A j, k \in Clients : UnixNano[j] = UnixNano[k] => j = k

\* No two connections have one conn_id.
LEMMA OneConnectionPerID ==
  ASSUME FineGrainedClock, Named, NEW j \in Clients, NEW k \in Clients,
         pc[j] \notin {"outside", "accepted"}, pc[k] \notin {"outside", "accepted"},
         connID[j] = connID[k]
  PROVE  j = k
<1>1. connID[j] = <<UnixNano[j], connID[j][2]>> /\ connID[k] = <<UnixNano[k], connID[k][2]>>
  BY DEF Named
<1>2. UnixNano[j] = UnixNano[k]
  BY <1>1
<1> QED
  BY <1>2 DEF FineGrainedClock

\* t.conns holds no stranger: register, Remove and HandleClose take an entry out
\* in the step that ends its connection.
LEMMA ListedStep ==
  ASSUME TypeOK, Named, Listed, [Next]_vars
  PROVE  Listed'
<1> DEFINE Quiet == UNCHANGED <<conns, owner, connID, pc, ended>>
<1>0. \A e \in conns : e.client \in Clients
  BY DEF TypeOK, Entry
<1>1. ASSUME Quiet PROVE Listed'
  BY <1>1 DEF Listed, Registered
<1>2. ASSUME NEW k \in Clients, ClientWrite(k) \/ ClientRead(k) \/ ClientClose(k) PROVE Quiet
  BY <1>2 DEF ClientWrite, ClientRead, ClientClose, pumpVars
<1>3. ASSUME NEW id \in ConnIDs, RelayAnswer(id) \/ RelayClose(id) PROVE Quiet
  BY <1>3 DEF RelayAnswer, RelayClose, pumpVars, sockVars
<1>4. ASSUME NEW s \in Sessions, Listen(s) \/ CloseListener(s) PROVE Quiet
  BY <1>4 DEF Listen, CloseListener, pumpVars, sockVars
<1>5. ASSUME Connect \/ Break \/ HandleData \/ Disconnect \/ RelayReceive \/ UNCHANGED vars PROVE Quiet
  BY <1>5 DEF Connect, Break, HandleData, Disconnect, RelayReceive, pumpVars, sockVars, vars
<1>6. CASE HandleClose
  <2> DEFINE found == Entries(Head(downWire).id)
  <2>1. /\ UNCHANGED <<owner, connID, pc>>
        /\ conns' = conns \ found /\ ended' = ended \cup {e.client : e \in found}
    BY <1>6 DEF HandleClose
  <2>2. \A e, f \in conns : e.client = f.client => e = f
    <3> SUFFICES ASSUME NEW e \in conns, NEW f \in conns, e.client = f.client PROVE e = f
      OBVIOUS
    <3>1. e.id = f.id /\ e.session = f.session
      BY DEF Listed
    <3>2. e \in Entry /\ f \in Entry
      BY DEF TypeOK
    <3> QED
      BY <3>1, <3>2 DEF Entry
  <2>3. found \subseteq conns
    BY DEF Entries
  <2> HIDE DEF found
  <2>4. \A e \in conns' : Registered(e.client) /\ e.client \notin ended'
                          /\ e.id = connID[e.client] /\ e.session = owner[e.client]
    BY <2>1, <2>2, <2>3 DEF Listed
  <2>5. \A j \in Clients : Registered(j)' <=> Registered(j)
    BY <2>1 DEF Registered
  <2>6. \A e \in conns' : e.client \in Clients
    BY <1>0, <2>1
  <2>7. \A e \in conns' : Registered(e.client)'
    BY <2>4, <2>5, <2>6
  <2> QED
    BY <2>1, <2>4, <2>7 DEF Listed
<1>7. ASSUME NEW k \in Clients,
             Accept(k) \/ ReadCounter(k) \/ ReadChunk(k) \/ ReadError(k) \/ SendChunk(k) \/ SendClose(k)
      PROVE  Listed'
  <2>1. UNCHANGED <<conns, ended>>
    BY <1>7 DEF Accept, ReadCounter, ReadChunk, ReadError, SendChunk, SendClose, sockVars
  <2>2. \A j \in Clients : (Registered(j)' <=> Registered(j))
    BY <1>7 DEF Accept, ReadCounter, ReadChunk, ReadError, SendChunk, SendClose, TypeOK, Registered
  <2>3. \A j \in Clients : Registered(j) => owner'[j] = owner[j] /\ connID'[j] = connID[j]
    BY <1>7 DEF Accept, ReadCounter, ReadChunk, ReadError, SendChunk, SendClose, TypeOK, Registered
  <2>4. \A e \in conns' : Registered(e.client)' /\ e.client \notin ended'
                          /\ e.id = connID'[e.client] /\ e.session = owner'[e.client]
    BY <1>0, <2>1, <2>2, <2>3 DEF Listed
  <2> QED
    BY <2>4 DEF Listed
<1>8. ASSUME NEW k \in Clients, Register(k) PROVE Listed'
  <2> DEFINE new == [session |-> owner[k], id |-> connID[k], client |-> k]
  <2>1. k \notin ended /\ Registered(k)' /\ ended' = ended /\ UNCHANGED <<owner, connID>>
    BY <1>8 DEF Register, Registered, Named, TypeOK, sockVars
  <2>2. conns' \subseteq conns \cup {new}
    BY <1>8 DEF Register
  <2>3. \A j \in Clients : Registered(j) => Registered(j)'
    BY <1>8 DEF Register, Registered, TypeOK
  <2>4. new.client = k /\ new.id = connID[k] /\ new.session = owner[k]
    OBVIOUS
  <2> HIDE DEF new
  <2>5. \A e \in conns' : Registered(e.client)' /\ e.client \notin ended'
                           /\ e.id = connID'[e.client] /\ e.session = owner'[e.client]
    BY <1>0, <2>1, <2>2, <2>3, <2>4 DEF Listed
  <2> QED
    BY <2>5 DEF Listed
<1>9. ASSUME NEW k \in Clients, Remove(k) PROVE Listed'
  <2>1. ended' = ended \cup {k} /\ UNCHANGED <<owner, connID>>
    BY <1>9 DEF Remove
  <2>2. conns' = {e \in conns : ~(e.session = owner[k] /\ e.id = connID[k])}
    BY <1>9 DEF Remove
  <2>3. \A e \in conns' : e.client # k
    BY <2>2 DEF Listed
  <2>4. \A j \in Clients : Registered(j) => Registered(j)'
    BY <1>9 DEF Remove, Registered, TypeOK
  <2>5. \A e \in conns' : Registered(e.client)' /\ e.client \notin ended'
                           /\ e.id = connID'[e.client] /\ e.session = owner'[e.client]
    BY <1>0, <2>1, <2>2, <2>3, <2>4 DEF Listed
  <2> QED
    BY <2>5 DEF Listed
<1> HIDE DEF Quiet
<1> QED
  BY <1>1, <1>2, <1>3, <1>4, <1>5, <1>6, <1>7, <1>8, <1>9
     DEF Next, ReadLoop, Relay, Pump, Client

\* t.conns loses nobody: registering or removing a connection leaves the entries
\* of the others alone.
LEMMA FindableStep ==
  ASSUME FineGrainedClock, TypeOK, Named, Listed, Findable, [Next]_vars
  PROVE  Findable'
<1> DEFINE Quiet == UNCHANGED <<conns, owner, connID, pc, ended>>
           entry(k) == [session |-> owner[k], id |-> connID[k], client |-> k]
<1>0. \A k \in Clients : Registered(k) /\ k \notin ended => entry(k) \in conns
  BY DEF Findable
<1>1. ASSUME Quiet PROVE Findable'
  BY <1>1 DEF Findable, Registered
<1>2. ASSUME NEW k \in Clients, ClientWrite(k) \/ ClientRead(k) \/ ClientClose(k) PROVE Quiet
  BY <1>2 DEF ClientWrite, ClientRead, ClientClose, pumpVars
<1>3. ASSUME NEW id \in ConnIDs, RelayAnswer(id) \/ RelayClose(id) PROVE Quiet
  BY <1>3 DEF RelayAnswer, RelayClose, pumpVars, sockVars
<1>4. ASSUME NEW s \in Sessions, Listen(s) \/ CloseListener(s) PROVE Quiet
  BY <1>4 DEF Listen, CloseListener, pumpVars, sockVars
<1>5. ASSUME Connect \/ Break \/ HandleData \/ Disconnect \/ RelayReceive \/ UNCHANGED vars PROVE Quiet
  BY <1>5 DEF Connect, Break, HandleData, Disconnect, RelayReceive, pumpVars, sockVars, vars
<1>6. CASE HandleClose
  <2> DEFINE found == Entries(Head(downWire).id)
  <2>1. /\ UNCHANGED <<owner, connID, pc>>
        /\ conns' = conns \ found /\ ended' = ended \cup {e.client : e \in found}
    BY <1>6 DEF HandleClose
  <2> HIDE DEF found
  <2>2. \A k \in Clients : Registered(k) /\ k \notin ended' => entry(k) \in conns'
    <3> SUFFICES ASSUME NEW k \in Clients, Registered(k), k \notin ended' PROVE entry(k) \in conns'
      OBVIOUS
    <3>1. entry(k) \in conns /\ entry(k).client = k
      BY <1>0, <2>1
    <3> HIDE DEF entry
    <3> QED
      BY <2>1, <3>1
  <2> QED
    BY <2>1, <2>2 DEF Findable, Registered
<1>7. ASSUME NEW k \in Clients,
             Accept(k) \/ ReadCounter(k) \/ ReadChunk(k) \/ ReadError(k) \/ SendChunk(k) \/ SendClose(k)
      PROVE  Findable'
  <2>1. UNCHANGED <<conns, ended>>
    BY <1>7 DEF Accept, ReadCounter, ReadChunk, ReadError, SendChunk, SendClose, sockVars
  <2>2. \A j \in Clients : (Registered(j)' <=> Registered(j))
    BY <1>7 DEF Accept, ReadCounter, ReadChunk, ReadError, SendChunk, SendClose, TypeOK, Registered
  <2>3. \A j \in Clients : Registered(j) => owner'[j] = owner[j] /\ connID'[j] = connID[j]
    BY <1>7 DEF Accept, ReadCounter, ReadChunk, ReadError, SendChunk, SendClose, TypeOK, Registered
  <2> QED
    BY <2>1, <2>2, <2>3 DEF Findable
<1>8. ASSUME NEW k \in Clients, Register(k) \/ Remove(k), NEW e \in conns, e.client # k
      PROVE  e.id # connID[k]
  <2> SUFFICES ASSUME e.id = connID[k] PROVE FALSE
    OBVIOUS
  <2>1. e.client \in Clients /\ e.id = connID[e.client] /\ Registered(e.client)
    BY DEF Listed, TypeOK, Entry
  <2>2. pc[e.client] \notin {"outside", "accepted"}
    BY <2>1 DEF Registered
  <2>3. pc[k] \notin {"outside", "accepted"}
    BY <1>8 DEF Register, Remove
  <2> QED
    BY <1>8, <2>1, <2>2, <2>3, OneConnectionPerID
<1>9. ASSUME NEW k \in Clients, Register(k) PROVE Findable'
  <2>1. ended' = ended /\ UNCHANGED <<owner, connID>>
    BY <1>9 DEF Register, sockVars
  <2>2. conns' = {e \in conns : ~(e.session = owner[k] /\ e.id = connID[k])} \cup {entry(k)}
    BY <1>9 DEF Register
  <2>3. \A j \in Clients \ {k} : Registered(j)' <=> Registered(j)
    BY <1>9 DEF Register, TypeOK, Registered
  <2>4. ASSUME NEW j \in Clients, Registered(j)', j \notin ended PROVE entry(j) \in conns'
    <3>1. CASE j = k
      BY <3>1, <2>2
    <3>2. CASE j # k
      <4>1. entry(j) \in conns /\ entry(j).client # k
        BY <1>0, <2>3, <2>4, <3>2
      <4> HIDE DEF entry
      <4> QED
        BY <1>8, <1>9, <2>2, <4>1
    <3> QED
      BY <3>1, <3>2
  <2> QED
    BY <2>1, <2>4 DEF Findable
<1>10. ASSUME NEW k \in Clients, Remove(k) PROVE Findable'
  <2>1. ended' = ended \cup {k} /\ UNCHANGED <<owner, connID>>
    BY <1>10 DEF Remove
  <2>2. conns' = {e \in conns : ~(e.session = owner[k] /\ e.id = connID[k])}
    BY <1>10 DEF Remove
  <2>3. \A j \in Clients \ {k} : Registered(j)' <=> Registered(j)
    BY <1>10 DEF Remove, TypeOK, Registered
  <2>4. ASSUME NEW j \in Clients, Registered(j)', j \notin ended' PROVE entry(j) \in conns'
    <3>1. j # k
      BY <2>1, <2>4
    <3>2. entry(j) \in conns /\ entry(j).client # k
      BY <1>0, <2>1, <2>3, <2>4, <3>1
    <3> HIDE DEF entry
    <3> QED
      BY <1>8, <1>10, <2>2, <3>2
  <2> QED
    BY <2>1, <2>4 DEF Findable
<1> HIDE DEF Quiet
<1> QED
  BY <1>1, <1>2, <1>3, <1>4, <1>5, <1>6, <1>7, <1>9, <1>10
     DEF Next, ReadLoop, Relay, Pump, Client

\* A step of the session that leaves the registered connections as they are.
Kept ==
  /\ session' = session
  /\ \A k \in Clients : Registered(k) =>
       Registered(k)' /\ owner'[k] = owner[k] /\ connID'[k] = connID[k]

\* What a step does to a wire: nothing, one frame taken off, one frame put on, or
\* the end of it lost.
Same(w, v) == v = w
Taken(w, v) == w # <<>> /\ v = Tail(w)
Cut(w, v) == \E n \in 0..Len(w) : v = SubSeq(w, 1, n)
Put(w, v, f) == v = Append(w, f)

\* A frame of the session stays one.
LEMMA OursKept ==
  ASSUME Kept
  PROVE  /\ \A k \in Clients : Present(k) => Present(k)' /\ connID'[k] = connID[k]
         /\ \A f \in Frame : Ours(f) => Ours(f)'
<1>1. \A k \in Clients : Present(k) => Present(k)' /\ connID'[k] = connID[k]
  BY DEF Kept, Present
<1> QED
  BY <1>1 DEF Ours

\* What holds of every frame of a wire still does after a frame has been taken
\* off or put on, or the end lost.
LEMMA WireFrames ==
  ASSUME NEW w \in Seq(Frame), NEW v, NEW P,
         Same(w, v) \/ Taken(w, v) \/ Cut(w, v) \/ \E f \in Frame : Put(w, v, f) /\ f \in P,
         \A i \in 1..Len(w) : w[i] \in P
  PROVE  v \in Seq(Frame) /\ \A i \in 1..Len(v) : v[i] \in P
<1>1. CASE Same(w, v)
  BY <1>1 DEF Same
<1>2. CASE Taken(w, v)
  <2>1. v \in Seq(Frame) /\ Len(v) = Len(w) - 1 /\ Len(w) \in Nat
        /\ \A i \in 1..Len(w) - 1 : v[i] = w[i + 1]
    BY <1>2, HeadTail DEF Taken
  <2> QED
    BY <2>1
<1>3. ASSUME NEW f \in Frame, Put(w, v, f), f \in P
      PROVE  v \in Seq(Frame) /\ \A i \in 1..Len(v) : v[i] \in P
  <2>1. v \in Seq(Frame) /\ Len(v) = Len(w) + 1 /\ Len(w) \in Nat /\ v[Len(w) + 1] = f
        /\ \A i \in 1..Len(w) : v[i] = w[i]
    BY <1>3 DEF Put
  <2>2. \A i \in 1..Len(v) : i \in 1..Len(w) \/ i = Len(w) + 1
    BY <2>1
  <2> QED
    BY <1>3, <2>1, <2>2
<1>4. CASE Cut(w, v)
  <2>1. PICK n \in 0..Len(w) : v = SubSeq(w, 1, n)
    BY <1>4 DEF Cut
  <2>2. v \in Seq(Frame) /\ Len(v) = n /\ \A i \in 1..n : v[i] = w[i]
    BY <2>1
  <2> QED
    BY <2>2
<1> QED
  BY <1>1, <1>2, <1>3, <1>4

\* The frames on their way up stay the session's.
LEMMA UpKept ==
  ASSUME Kept, wire' = wire, UpFramed, upWire \in Seq(Frame),
         \/ Same(upWire, upWire') \/ Taken(upWire, upWire')
         \/ \E f \in Frame : Put(upWire, upWire', f) /\ wire = "up" /\ Ours(f)
  PROVE  UpFramed'
<1> DEFINE P == {f \in Frame : wire = "up" /\ Ours(f)}
<1>1. \A i \in 1..Len(upWire) : upWire[i] \in P
  BY DEF UpFramed
<1>2. \/ Same(upWire, upWire') \/ Taken(upWire, upWire')
      \/ \E f \in Frame : Put(upWire, upWire', f) /\ f \in P
  OBVIOUS
<1>3. \A f \in P : f \in Frame /\ wire = "up" /\ Ours(f)
  OBVIOUS
<1> HIDE DEF P
<1>4. \A i \in 1..Len(upWire') : upWire'[i] \in P
  BY <1>1, <1>2, WireFrames
<1>5. \A f \in P : wire' = "up" /\ Ours(f)'
  BY <1>3, OursKept
<1> QED
  BY <1>4, <1>5 DEF UpFramed

\* The frames on their way down stay the session's.
LEMMA DownKept ==
  ASSUME Kept, wire' = wire \/ wire' = "broken", DownFramed, downWire \in Seq(Frame),
         \/ Same(downWire, downWire') \/ Taken(downWire, downWire') \/ Cut(downWire, downWire')
         \/ \E f \in Frame : Put(downWire, downWire', f) /\ wire # "down" /\ Ours(f)
  PROVE  DownFramed'
<1> DEFINE P == {f \in Frame : wire # "down" /\ Ours(f)}
<1>1. \A i \in 1..Len(downWire) : downWire[i] \in P
  BY DEF DownFramed
<1>2. \/ Same(downWire, downWire') \/ Taken(downWire, downWire') \/ Cut(downWire, downWire')
      \/ \E f \in Frame : Put(downWire, downWire', f) /\ f \in P
  OBVIOUS
<1>3. \A f \in P : f \in Frame /\ wire # "down" /\ Ours(f)
  OBVIOUS
<1> HIDE DEF P
<1>4. \A i \in 1..Len(downWire') : downWire'[i] \in P
  BY <1>1, <1>2, WireFrames
<1>5. \A f \in P : wire' # "down" /\ Ours(f)'
  BY <1>3, OursKept
<1> QED
  BY <1>4, <1>5 DEF DownFramed

\* The relays stay the session's.
LEMMA RelaysKept ==
  ASSUME Kept, wire' = wire, Relaying,
         \A id \in ConnIDs : relayGot'[id] = relayGot[id]
                             /\ (relay'[id] = "open" => relay[id] = "open")
  PROVE  Relaying'
BY OursKept DEF Kept, Relaying

\* An answer is a byte of the connection that asked.
LEMMA AnswerByte ==
  ASSUME TypeOK, Relaying, NEW id \in ConnIDs, RelayAnswer(id)
  PROVE  Asker(id) \in Clients /\ <<Asker(id), Len(sentDown[Asker(id)]) + 1>> \in Bytes
<1>1. relayGot[id] # <<>> /\ relayGot[id] \in Seq(Bytes)
  BY DEF RelayAnswer, Relaying, TypeOK
<1>2. Asker(id) \in Clients
  BY <1>1, BytesOf DEF Asker
<1>3. Len(sentDown[Asker(id)]) < MaxDown[Asker(id)]
  BY DEF RelayAnswer
<1> DEFINE k == Asker(id)
<1> HIDE DEF k
<1>4. k \in Clients /\ Len(sentDown[k]) < MaxDown[k]
  BY <1>2, <1>3 DEF k
<1>5. Len(sentDown[k]) \in Nat /\ MaxDown[k] \in Nat
  <2>1. sentDown[k] \in Seq(Bytes)
    BY <1>4 DEF TypeOK
  <2> QED
    BY <1>4, <2>1, TunnelConstants
<1>6. <<k, Len(sentDown[k]) + 1>> \in Bytes
  BY <1>4, <1>5, BytesOf
<1> QED
  BY <1>2, <1>6 DEF k

\* Frames and relays stay those of the session: a broken socket loses the ones on
\* their way up, and the read loop empties the ones on their way down first.
LEMMA FramedStep ==
  ASSUME TypeOK, Named, Framed, [Next]_vars
  PROVE  Framed'
<1>0. /\ UpFramed /\ DownFramed /\ Relaying /\ Chunked
      /\ upWire \in Seq(Frame) /\ downWire \in Seq(Frame)
  BY DEF Framed, TypeOK
<1>1. ASSUME UNCHANGED <<session, pc, owner, connID>> PROVE Kept
  BY <1>1 DEF Kept, Registered
<1>2. ASSUME UNCHANGED <<pc, chunk>> PROVE Chunked'
  BY <1>0, <1>2 DEF Chunked
<1>3. ASSUME NEW k \in Clients, ClientWrite(k) \/ ClientRead(k) \/ ClientClose(k) PROVE Framed'
  <2>1. UNCHANGED <<serverVars, pumpVars, frameVars, relayVars>>
    BY <1>3 DEF ClientWrite, ClientRead, ClientClose
  <2> QED
    BY <1>0, <1>1, <1>2, <2>1, UpKept, DownKept, RelaysKept
       DEF Framed, Same, serverVars, pumpVars, frameVars, relayVars
<1>4. ASSUME NEW s \in Sessions, Listen(s) \/ CloseListener(s) PROVE Framed'
  <2>1. UNCHANGED <<session, wire, pumpVars, frameVars, relayVars>>
    BY <1>4 DEF Listen, CloseListener
  <2> QED
    BY <1>0, <1>1, <1>2, <2>1, UpKept, DownKept, RelaysKept
       DEF Framed, Same, pumpVars, frameVars, relayVars
<1>5. CASE UNCHANGED vars
  <2>1. UNCHANGED <<serverVars, pumpVars, frameVars, relayVars>>
    BY <1>5 DEF vars
  <2> QED
    BY <1>0, <1>1, <1>2, <2>1, UpKept, DownKept, RelaysKept
       DEF Framed, Same, serverVars, pumpVars, frameVars, relayVars
<1>6. CASE Connect \/ Disconnect
  <2>1. UNCHANGED <<pumpVars, frameVars, relayVars>>
    BY <1>6 DEF Connect, Disconnect
  <2>2. wire # "up" /\ (wire = "down" \/ downWire = <<>>)
    BY <1>6 DEF Connect, Disconnect
  <2>3. upWire = <<>> /\ downWire = <<>>
    <3>1. \A i \in 1..Len(upWire) : FALSE
      BY <1>0, <2>2 DEF UpFramed
    <3>2. downWire = <<>> \/ \A i \in 1..Len(downWire) : FALSE
      BY <1>0, <2>2 DEF DownFramed
    <3>3. Len(upWire) \in Nat /\ Len(downWire) \in Nat
      BY <1>0
    <3>4. Len(upWire) = 0 /\ (downWire = <<>> \/ Len(downWire) = 0)
      BY <3>1, <3>2, <3>3
    <3> QED
      BY <1>0, <3>4
  <2>4. UpFramed' /\ DownFramed'
    BY <2>1, <2>3 DEF UpFramed, DownFramed, frameVars
  <2>5. \A id \in ConnIDs : relay[id] # "open"
    BY <1>0, <2>2 DEF Relaying
  <2>6. Relaying'
    BY <1>0, <2>1, <2>5 DEF Relaying, Registered, pumpVars, relayVars
  <2> QED
    BY <1>2, <2>1, <2>4, <2>6 DEF Framed, pumpVars
<1>7. CASE Break
  <2>1. /\ UNCHANGED <<session, pumpVars, relayGot>> /\ wire' = "broken" /\ upWire' = <<>>
        /\ Cut(downWire, downWire')
    BY <1>7 DEF Break, Cut
  <2>2. \A id \in ConnIDs : relay'[id] # "open"
    BY <1>7 DEF Break
  <2>3. UpFramed'
    BY <2>1 DEF UpFramed
  <2>4. Kept
    BY <1>1, <2>1 DEF pumpVars
  <2>5. DownFramed'
    BY <1>0, <2>1, <2>4, DownKept
  <2>6. Relaying'
    BY <1>0, <2>1, <2>2 DEF Relaying, Registered, pumpVars
  <2> QED
    BY <1>2, <2>1, <2>3, <2>5, <2>6 DEF Framed, pumpVars
<1>8. CASE HandleClose \/ HandleData
  <2>1. UNCHANGED <<session, wire, pc, owner, connID, chunk, upWire, relay, relayGot>>
    BY <1>8 DEF HandleClose, HandleData, serverVars, pumpVars, relayVars
  <2>2. Taken(downWire, downWire')
    BY <1>8 DEF HandleClose, HandleData, Taken
  <2> QED
    BY <1>0, <1>1, <1>2, <2>1, <2>2, UpKept, DownKept, RelaysKept DEF Framed, Same
<1>9. CASE RelayReceive
  <2> DEFINE f == Head(upWire)
  <2>1. UNCHANGED <<serverVars, pumpVars, downWire>> /\ Taken(upWire, upWire') /\ wire = "up"
    BY <1>9 DEF RelayReceive, Taken
  <2>2. Kept
    BY <1>1, <2>1 DEF pumpVars, serverVars
  <2>3. upWire # <<>> /\ f = upWire[1] /\ 1 \in 1..Len(upWire) /\ f \in Frame
    BY <1>0, <1>9, HeadTail DEF RelayReceive
  <2>4. Ours(f)
    BY <1>0, <2>3 DEF UpFramed
  <2>5. PICK k \in Clients : Present(k) /\ f.id = connID[k]
    BY <2>4 DEF Ours
  <2>6. /\ ~f.close => f.data # <<>>
        /\ f.id \in ConnIDs /\ f.data \in Seq(Bytes) /\ relayGot[f.id] \in Seq(Bytes)
    BY <2>3, <2>4 DEF Ours, Frame, TypeOK
  <2>7. /\ f.close => /\ relay' = [relay EXCEPT ![f.id] = "closed"]
                      /\ relayGot' = relayGot
        /\ ~f.close => /\ relay' = [relay EXCEPT ![f.id] = "open"]
                       /\ relayGot' = [relayGot EXCEPT ![f.id] = @ \o f.data]
    BY <1>9 DEF RelayReceive, relayVars
  <2> HIDE DEF f
  <2>8. relayGot[f.id] \o f.data # <<>> \/ f.data = <<>>
    BY <2>6, ConcatEqualIffEmpty
  <2>9. Present(k)' /\ Registered(k)' /\ connID'[k] = f.id /\ wire' = "up"
    BY <2>1, <2>2, <2>5, OursKept DEF Present, serverVars
  <2>10. Relaying'
    <3>1. CASE f.close
      <4>1. \A id \in ConnIDs : relayGot'[id] = relayGot[id]
                                /\ (relay'[id] = "open" => relay[id] = "open")
        BY <3>1, <2>7 DEF TypeOK
      <4> QED
        BY <4>1, <1>0, <2>1, <2>2, RelaysKept DEF serverVars
    <3>2. CASE ~f.close
      <4>1. ASSUME NEW id \in ConnIDs, id # f.id
            PROVE  relay'[id] = relay[id] /\ relayGot'[id] = relayGot[id]
        BY <3>2, <2>7, <4>1 DEF TypeOK
      <4>2. relay'[f.id] = "open" /\ relayGot'[f.id] # <<>>
        BY <3>2, <2>6, <2>7, <2>8 DEF TypeOK
      <4> SUFFICES ASSUME NEW id \in ConnIDs
                   PROVE  /\ relay'[id] = "open" => /\ wire' = "up" /\ relayGot'[id] # <<>>
                                /\ \E j \in Clients : Present(j)' /\ connID'[j] = id
                          /\ relayGot'[id] # <<>> => \E j \in Clients : Registered(j)' /\ connID'[j] = id
        BY DEF Relaying
      <4>3. CASE id = f.id
        BY <4>2, <4>3, <2>9
      <4>4. CASE id # f.id
        BY <4>1, <4>4, <1>0, <2>1, <2>2, OursKept DEF Relaying, Kept, serverVars
      <4> QED
        BY <4>3, <4>4
    <3> QED
      BY <3>1, <3>2
  <2> QED
    BY <1>0, <1>2, <2>1, <2>2, <2>10, UpKept, DownKept DEF Framed, Same, serverVars, pumpVars
<1>10. ASSUME NEW id \in ConnIDs, RelayAnswer(id) \/ RelayClose(id) PROVE Framed'
  <2>1. /\ UNCHANGED <<session, wire, pc, owner, connID, chunk, upWire, relayGot>>
        /\ wire = "up" /\ relay[id] = "open"
    BY <1>10 DEF RelayAnswer, RelayClose, serverVars, pumpVars, relayVars
  <2>2. \A i \in ConnIDs : relay'[i] = "open" => relay[i] = "open"
    BY <1>10 DEF RelayAnswer, RelayClose, relayVars, TypeOK
  <2>3. ASSUME RelayAnswer(id)
        PROVE  \E f \in Frame : Put(downWire, downWire', f) /\ wire # "down" /\ Ours(f)
    <3> DEFINE byte == <<Asker(id), Len(sentDown[Asker(id)]) + 1>>
               f == [id |-> id, data |-> <<byte>>, close |-> FALSE]
    <3>1. downWire' = Append(downWire, f)
      BY <2>3 DEF RelayAnswer
    <3>2. byte \in Bytes
      BY <2>3, <1>0, AnswerByte
    <3> HIDE DEF byte
    <3>3. f \in Frame
      BY <3>2 DEF Frame
    <3>4. Ours(f)
      BY <1>0, <2>1 DEF Ours, Relaying
    <3> QED
      BY <2>1, <3>1, <3>3, <3>4 DEF Put
  <2>4. ASSUME RelayClose(id)
        PROVE  \E f \in Frame : Put(downWire, downWire', f) /\ wire # "down" /\ Ours(f)
    <3> DEFINE f == [id |-> id, data |-> <<>>, close |-> TRUE]
    <3>1. downWire' = Append(downWire, f)
      BY <2>4 DEF RelayClose
    <3>2. f \in Frame
      BY DEF Frame
    <3>3. Ours(f)
      BY <1>0, <2>1 DEF Ours, Relaying
    <3> QED
      BY <2>1, <3>1, <3>2, <3>3 DEF Put
  <2> QED
    BY <1>0, <1>1, <1>2, <1>10, <2>1, <2>2, <2>3, <2>4, UpKept, DownKept, RelaysKept DEF Framed, Same
<1>11. ASSUME NEW k \in Clients,
              \/ Accept(k) \/ ReadCounter(k) \/ Register(k) \/ ReadChunk(k) \/ ReadError(k)
              \/ SendChunk(k) \/ SendClose(k) \/ Remove(k)
       PROVE  Kept /\ UNCHANGED <<session, wire, downWire, relay, relayGot>>
  <2>1. UNCHANGED <<session, wire, downWire, relay, relayGot>>
    BY <1>11 DEF Accept, ReadCounter, Register, ReadChunk, ReadError, SendChunk, SendClose, Remove,
                serverVars, frameVars, relayVars
  <2>2. \A j \in Clients : Registered(j) =>
          Registered(j)' /\ owner'[j] = owner[j] /\ connID'[j] = connID[j]
    BY <1>11 DEF Accept, ReadCounter, Register, ReadChunk, ReadError, SendChunk, SendClose, Remove,
                TypeOK, Registered
  <2> QED
    BY <2>1, <2>2 DEF Kept
<1>12. ASSUME NEW k \in Clients,
              Accept(k) \/ ReadCounter(k) \/ Register(k) \/ ReadError(k) \/ Remove(k)
       PROVE  Framed'
  <2>1. UNCHANGED <<upWire, chunk>>
    BY <1>12 DEF Accept, ReadCounter, Register, ReadError, Remove, frameVars
  <2>2. \A j \in Clients : pc'[j] = "sending" <=> pc[j] = "sending"
    BY <1>12 DEF Accept, ReadCounter, Register, ReadError, Remove, TypeOK
  <2>3. Chunked'
    BY <1>0, <2>1, <2>2 DEF Chunked
  <2> QED
    BY <1>0, <1>11, <1>12, <2>1, <2>3, UpKept, DownKept, RelaysKept DEF Framed, Same
<1>13. ASSUME NEW k \in Clients, ReadChunk(k) PROVE Framed'
  <2>1. upWire' = upWire
    BY <1>13 DEF ReadChunk, frameVars
  <2>2. PICK n \in 1..Len(inSock[k]) : chunk' = [chunk EXCEPT ![k] = SubSeq(inSock[k], 1, n)]
    BY <1>13 DEF ReadChunk, Prefixes
  <2>3. SubSeq(inSock[k], 1, n) # <<>>
    <3>1. inSock[k] \in Seq(Bytes)
      BY DEF TypeOK
    <3>2. Len(SubSeq(inSock[k], 1, n)) = n
      BY <3>1
    <3> QED
      BY <3>2
  <2>4. \A j \in Clients : /\ pc'[j] = IF j = k THEN "sending" ELSE pc[j]
                           /\ chunk'[j] = IF j = k THEN SubSeq(inSock[k], 1, n) ELSE chunk[j]
    BY <2>2, <1>13 DEF ReadChunk, TypeOK
  <2>5. Chunked'
    BY <1>0, <2>3, <2>4 DEF Chunked
  <2> QED
    BY <1>0, <1>11, <1>13, <2>1, <2>5, UpKept, DownKept, RelaysKept DEF Framed, Same
<1>14. ASSUME NEW k \in Clients, SendChunk(k) PROVE Framed'
  <2> DEFINE f == [id |-> connID[k], data |-> chunk[k], close |-> FALSE]
  <2>1. Registered(k) /\ connID[k] \in ConnIDs /\ chunk[k] # <<>> /\ chunk[k] \in Seq(Bytes)
    BY <1>0, <1>14 DEF SendChunk, Registered, Named, Chunked, TypeOK
  <2>2. f \in Frame
    BY <2>1 DEF Frame
  <2>3. \/ Same(upWire, upWire')
        \/ Put(upWire, upWire', f) /\ wire = "up" /\ owner[k] = session
    BY <1>14 DEF SendChunk, Sent, SendError, Same, Put
  <2>4. owner[k] = session => Ours(f)
    BY <2>1 DEF Ours, Present
  <2> HIDE DEF f
  <2>5. UpFramed'
    BY <1>0, <1>11, <1>14, <2>2, <2>3, <2>4, UpKept
  <2>6. \A j \in Clients : /\ pc'[j] = "sending" <=> (j # k /\ pc[j] = "sending")
                           /\ chunk'[j] = IF j = k THEN <<>> ELSE chunk[j]
    BY <1>14 DEF SendChunk, TypeOK
  <2>7. Chunked'
    BY <1>0, <2>6 DEF Chunked
  <2> QED
    BY <1>0, <1>11, <1>14, <2>5, <2>7, DownKept, RelaysKept DEF Framed, Same
<1>15. ASSUME NEW k \in Clients, SendClose(k) PROVE Framed'
  <2> DEFINE f == [id |-> connID[k], data |-> <<>>, close |-> TRUE]
  <2>1. Registered(k) /\ connID[k] \in ConnIDs
    BY <1>15 DEF SendClose, Registered, Named
  <2>2. f \in Frame
    BY <2>1 DEF Frame
  <2>3. \/ Same(upWire, upWire')
        \/ Put(upWire, upWire', f) /\ wire = "up" /\ owner[k] = session
    BY <1>15 DEF SendClose, Sent, SendError, Same, Put
  <2>4. owner[k] = session => Ours(f)
    BY <2>1 DEF Ours, Present
  <2> HIDE DEF f
  <2>5. UpFramed'
    BY <1>0, <1>11, <1>15, <2>2, <2>3, <2>4, UpKept
  <2>6. \A j \in Clients : pc'[j] = "sending" <=> pc[j] = "sending"
    BY <1>15 DEF SendClose, TypeOK
  <2>7. Chunked'
    BY <1>0, <1>15, <2>6 DEF Chunked, SendClose
  <2> QED
    BY <1>0, <1>11, <1>15, <2>5, <2>7, DownKept, RelaysKept DEF Framed, Same
<1> QED
  BY <1>3, <1>4, <1>5, <1>6, <1>7, <1>8, <1>9, <1>10, <1>12, <1>13, <1>14, <1>15
     DEF Next, ReadLoop, Relay, Pump, Client

\* What holds of connections, entries and frames whatever the clock reads.
ConnInv == TypeOK /\ Counted /\ Named /\ Listed /\ Framed

\* It holds at the start.
LEMMA ConnInit == Init => ConnInv /\ Findable
<1> SUFFICES ASSUME Init PROVE ConnInv /\ Findable
  OBVIOUS
<1>1. Named /\ Listed /\ Findable
  BY DEF Init, Named, Listed, Findable, Registered
<1>2. Framed
  <2>1. UpFramed /\ DownFramed
    BY DEF Init, UpFramed, DownFramed
  <2>2. Relaying /\ Chunked
    BY DEF Init, Relaying, Chunked
  <2> QED
    BY <2>1, <2>2 DEF Framed
<1> QED
  BY <1>1, <1>2, TypeInit, CountedInit DEF ConnInv

\* Every step keeps it.
LEMMA ConnStep ==
  ASSUME ConnInv, [Next]_vars
  PROVE  ConnInv'
BY TypeStep, CountedStep, NamedStep, ListedStep, FramedStep DEF ConnInv

\* The connections, their entries and their frames stay consistent.
THEOREM ConnInvHolds == Spec => []ConnInv
<1>1. Init => ConnInv
  BY ConnInit
<1>2. ConnInv /\ [Next]_vars => ConnInv'
  BY ConnStep
<1> QED
  BY <1>1, <1>2, PTL DEF Spec

\* Every variable of the tunnel has its type, the counter of newConnID and the
\* conn_ids made from it included.
THEOREM TypeCorrect == Spec => []TypeOK
<1>1. ConnInv => TypeOK
  BY DEF ConnInv
<1> QED
  BY <1>1, ConnInvHolds, PTL

\* t.conns holds the live connections and no other: no entry outlives its
\* handleConn, and no live handleConn is without one.
THEOREM NoStaleEntryHolds ==
  ASSUME FineGrainedClock
  PROVE  Spec => []NoStaleEntry
<1>1. Init => ConnInv /\ Findable
  BY ConnInit
<1>2. ConnInv /\ Findable /\ [Next]_vars => (ConnInv /\ Findable)'
  BY ConnStep, FindableStep DEF ConnInv
<1>3. ConnInv /\ Findable => NoStaleEntry
  <2> SUFFICES ASSUME ConnInv, Findable PROVE NoStaleEntry
    OBVIOUS
  <2>1. \A e \in conns : pc[e.client] \in {"reading", "sending", "closing", "removing"}
    BY DEF ConnInv, Listed, Named, TypeOK, Entry, PCs, Registered
  <2>2. ASSUME NEW k \in Clients, pc[k] \in {"reading", "sending"}, k \notin ended
        PROVE  \E e \in conns : e.client = k /\ e.id = connID[k] /\ e.session = owner[k]
    BY <2>2 DEF Findable, Registered
  <2> QED
    BY <2>1, <2>2 DEF NoStaleEntry
<1> QED
  BY <1>1, <1>2, <1>3, PTL DEF Spec

\* A run grows by its next byte ...
LEMMA RunAppend ==
  ASSUME NEW S, NEW s \in Seq(S), NEW k, NEW a \in Nat, Run(s, k, a), <<k, a + Len(s) + 1>> \in S
  PROVE  Run(Append(s, <<k, a + Len(s) + 1>>), k, a)
<1> DEFINE t == Append(s, <<k, a + Len(s) + 1>>)
<1>1. Len(t) = Len(s) + 1 /\ \A i \in 1..Len(s) : t[i] = s[i]
  OBVIOUS
<1>2. t[Len(s) + 1] = <<k, a + Len(s) + 1>>
  OBVIOUS
<1>3. \A i \in 1..Len(t) : t[i] = <<k, a + i>>
  <2> SUFFICES ASSUME NEW i \in 1..Len(t) PROVE t[i] = <<k, a + i>>
    OBVIOUS
  <2>1. CASE i = Len(s) + 1
    <3>1. a + Len(s) + 1 = a + i
      BY <2>1
    <3> QED
      BY <1>2, <2>1, <3>1
  <2>2. CASE i # Len(s) + 1
    <3>1. i \in 1..Len(s)
      BY <2>2, <1>1
    <3> QED
      BY <1>1, <3>1 DEF Run
  <2> QED
    BY <2>1, <2>2
<1> QED
  BY <1>3 DEF Run

\* ... or by the run that follows it,
LEMMA RunConcat ==
  ASSUME NEW S, NEW s \in Seq(S), NEW t \in Seq(S), NEW k, NEW a \in Nat,
         Run(s, k, a), Run(t, k, a + Len(s))
  PROVE  Run(s \o t, k, a)
<1>1. /\ Len(s \o t) = Len(s) + Len(t) /\ Len(s) \in Nat /\ Len(t) \in Nat
      /\ \A i \in 1..Len(s) : (s \o t)[i] = s[i]
      /\ \A i \in 1..Len(t) : (s \o t)[Len(s) + i] = t[i]
  OBVIOUS
<1>2. ASSUME NEW i \in 1..Len(s \o t) PROVE (s \o t)[i] = <<k, a + i>>
  <2>1. CASE i <= Len(s)
    <3>1. i \in 1..Len(s)
      BY <1>1, <2>1
    <3> QED
      BY <1>1, <3>1 DEF Run
  <2>2. CASE ~(i <= Len(s))
    <3> DEFINE m == i - Len(s)
    <3>1. m \in 1..Len(t) /\ i = Len(s) + m /\ (a + Len(s)) + m = a + i
      BY <1>1, <2>2
    <3> HIDE DEF m
    <3>2. (s \o t)[i] = t[m] /\ t[m] = <<k, (a + Len(s)) + m>>
      BY <1>1, <3>1 DEF Run
    <3> QED
      BY <3>1, <3>2
  <2> QED
    BY <2>1, <2>2
<1> QED
  BY <1>2 DEF Run

\* is cut into two runs,
LEMMA RunSplit ==
  ASSUME NEW S, NEW s \in Seq(S), NEW k, NEW a \in Nat, NEW n \in 1..Len(s), Run(s, k, a)
  PROVE  /\ Run(SubSeq(s, 1, n), k, a) /\ Run(SubSeq(s, n + 1, Len(s)), k, a + n)
         /\ Len(SubSeq(s, 1, n)) = n /\ Len(SubSeq(s, n + 1, Len(s))) = Len(s) - n
<1> DEFINE u == SubSeq(s, 1, n)
           v == SubSeq(s, n + 1, Len(s))
<1>1. Len(u) = n /\ \A i \in 1..n : u[i] = s[i]
  OBVIOUS
<1>2. Len(v) = Len(s) - n /\ \A i \in 1..(Len(s) - n) : v[i] = s[n + i]
  OBVIOUS
<1>3. Run(u, k, a)
  BY <1>1 DEF Run
<1>4. ASSUME NEW i \in 1..Len(v) PROVE v[i] = <<k, (a + n) + i>>
  <2>1. i \in 1..(Len(s) - n) /\ n + i \in 1..Len(s) /\ a + (n + i) = (a + n) + i
    BY <1>2
  <2>2. v[i] = s[n + i] /\ s[n + i] = <<k, a + (n + i)>>
    BY <1>2, <2>1 DEF Run
  <2> QED
    BY <2>1, <2>2
<1>5. Run(v, k, a + n)
  BY <1>4 DEF Run
<1> QED
  BY <1>1, <1>2, <1>3, <1>5

\* and is the beginning of every longer run from the same byte.
LEMMA RunPrefix ==
  ASSUME NEW S, NEW s \in Seq(S), NEW t \in Seq(S), NEW k, Run(s, k, 0), Run(t, k, 0),
         Len(s) <= Len(t)
  PROVE  s = SubSeq(t, 1, Len(s))
<1> DEFINE u == SubSeq(t, 1, Len(s))
<1>1. Len(u) = Len(s) /\ u \in Seq(S) /\ \A i \in 1..Len(s) : u[i] = t[i]
  OBVIOUS
<1> HIDE DEF u
<1>2. ASSUME NEW i \in 1..Len(s) PROVE s[i] = u[i]
  <2>1. i \in 1..Len(t)
    OBVIOUS
  <2>2. s[i] = <<k, 0 + i>> /\ t[i] = <<k, 0 + i>>
    BY <2>1 DEF Run
  <2> QED
    BY <1>1, <2>2
<1>3. s = u
  BY <1>1, <1>2
<1> QED
  BY <1>3 DEF u

\* A wire without frames of a connection takes its stream nowhere.
LEMMA FlowNone ==
  ASSUME NEW F, NEW w \in Seq(F), NEW id, NEW k, NEW n \in Nat,
         \A i \in 1..Len(w) : w[i].id # id
  PROVE  Flow(w, id, k, n, n)
<1> DEFINE pos == [i \in 1..(Len(w) + 1) |-> n]
<1>1. pos \in [1..(Len(w) + 1) -> 0..n] /\ Len(w) \in Nat
  OBVIOUS
<1>2. \A i \in 1..(Len(w) + 1) : pos[i] = n
  OBVIOUS
<1>3. \A i \in 1..Len(w) : i \in 1..(Len(w) + 1) /\ i + 1 \in 1..(Len(w) + 1)
  BY <1>1
<1>4. 1 \in 1..(Len(w) + 1) /\ Len(w) + 1 \in 1..(Len(w) + 1)
  BY <1>1
<1> HIDE DEF pos
<1> QED
  BY <1>1, <1>2, <1>3, <1>4 DEF Flow

\* A wire takes another frame: one of another connection changes nothing ...
LEMMA FlowAppendOther ==
  ASSUME NEW F, NEW w \in Seq(F), NEW f \in F, NEW id, NEW k, NEW a \in Nat, NEW b \in Nat,
         Flow(w, id, k, a, b), f.id # id
  PROVE  Flow(Append(w, f), id, k, a, b)
<1> DEFINE v == Append(w, f)
           n == Len(w)
<1>1. PICK pos \in [1..(n + 1) -> 0..b] :
        /\ pos[1] = a /\ pos[n + 1] = b
        /\ \A i \in 1..n :
             IF w[i].id = id
             THEN Run(w[i].data, k, pos[i]) /\ pos[i + 1] = pos[i] + Len(w[i].data)
             ELSE pos[i + 1] = pos[i]
  BY DEF Flow
<1> DEFINE new == [i \in 1..(n + 2) |-> IF i = n + 2 THEN b ELSE pos[i]]
<1>2. n \in Nat /\ Len(v) = n + 1 /\ (\A i \in 1..n : v[i] = w[i]) /\ v[n + 1] = f
  OBVIOUS
<1> HIDE DEF v, n
<1>3. new \in [1..(n + 2) -> 0..b]
  BY <1>1, <1>2
<1>4. new[1] = a /\ new[n + 2] = b /\ new[n + 1] = b /\ \A i \in 1..(n + 1) : new[i] = pos[i]
  BY <1>1, <1>2
<1> HIDE DEF new
<1>5. ASSUME NEW i \in 1..(n + 1)
      PROVE  IF v[i].id = id
             THEN Run(v[i].data, k, new[i]) /\ new[i + 1] = new[i] + Len(v[i].data)
             ELSE new[i + 1] = new[i]
  <2>1. CASE i = n + 1
    <3>1. v[i] = f /\ new[i] = b /\ new[i + 1] = b
      BY <1>2, <1>4, <2>1
    <3> QED
      BY <3>1
  <2>2. CASE i # n + 1
    <3>1. i \in 1..n /\ i + 1 \in 1..(n + 1)
      BY <1>2, <2>2
    <3>2. v[i] = w[i] /\ new[i] = pos[i] /\ new[i + 1] = pos[i + 1]
      BY <1>2, <1>4, <3>1
    <3> QED
      BY <1>1, <3>1, <3>2
  <2> QED
    BY <2>1, <2>2
<1>6. Len(v) + 1 = n + 2
  BY <1>2
<1>7. Flow(v, id, k, a, b)
  <2>1. new \in [1..(Len(v) + 1) -> 0..b] /\ new[1] = a /\ new[Len(v) + 1] = b
    BY <1>3, <1>4, <1>6
  <2>2. \A i \in 1..Len(v) : IF v[i].id = id
             THEN Run(v[i].data, k, new[i]) /\ new[i + 1] = new[i] + Len(v[i].data)
             ELSE new[i + 1] = new[i]
    BY <1>2, <1>5
  <2> QED
    BY <2>1, <2>2 DEF Flow
<1> QED
  BY <1>7 DEF v

\* ... one of the connection takes its stream on.
LEMMA FlowAppendMine ==
  ASSUME NEW F, NEW w \in Seq(F), NEW f \in F, NEW id, NEW k, NEW a \in Nat, NEW b \in Nat,
         Flow(w, id, k, a, b), f.id = id, Len(f.data) \in Nat, Run(f.data, k, b)
  PROVE  Flow(Append(w, f), id, k, a, b + Len(f.data))
<1> DEFINE v == Append(w, f)
           n == Len(w)
           c == b + Len(f.data)
<1>1. PICK pos \in [1..(n + 1) -> 0..b] :
        /\ pos[1] = a /\ pos[n + 1] = b
        /\ \A i \in 1..n :
             IF w[i].id = id
             THEN Run(w[i].data, k, pos[i]) /\ pos[i + 1] = pos[i] + Len(w[i].data)
             ELSE pos[i + 1] = pos[i]
  BY DEF Flow
<1> DEFINE new == [i \in 1..(n + 2) |-> IF i = n + 2 THEN c ELSE pos[i]]
<1>2. n \in Nat /\ Len(v) = n + 1 /\ (\A i \in 1..n : v[i] = w[i]) /\ v[n + 1] = f
  OBVIOUS
<1>8. c \in Nat /\ b <= c /\ c = b + Len(f.data)
  OBVIOUS
<1> HIDE DEF v, n, c
<1>3. new \in [1..(n + 2) -> 0..c]
  BY <1>1, <1>2, <1>8
<1>4. new[1] = a /\ new[n + 2] = c /\ new[n + 1] = b /\ \A i \in 1..(n + 1) : new[i] = pos[i]
  BY <1>1, <1>2
<1> HIDE DEF new
<1>5. ASSUME NEW i \in 1..(n + 1)
      PROVE  IF v[i].id = id
             THEN Run(v[i].data, k, new[i]) /\ new[i + 1] = new[i] + Len(v[i].data)
             ELSE new[i + 1] = new[i]
  <2>1. CASE i = n + 1
    <3>1. v[i] = f /\ new[i] = b /\ new[i + 1] = c
      BY <1>2, <1>4, <2>1
    <3> QED
      BY <3>1, <1>8
  <2>2. CASE i # n + 1
    <3>1. i \in 1..n /\ i + 1 \in 1..(n + 1)
      BY <1>2, <2>2
    <3>2. v[i] = w[i] /\ new[i] = pos[i] /\ new[i + 1] = pos[i + 1]
      BY <1>2, <1>4, <3>1
    <3> QED
      BY <1>1, <3>1, <3>2
  <2> QED
    BY <2>1, <2>2
<1>6. Len(v) + 1 = n + 2
  BY <1>2
<1>7. Flow(v, id, k, a, c)
  <2>1. new \in [1..(Len(v) + 1) -> 0..c] /\ new[1] = a /\ new[Len(v) + 1] = c
    BY <1>3, <1>4, <1>6
  <2>2. \A i \in 1..Len(v) : IF v[i].id = id
             THEN Run(v[i].data, k, new[i]) /\ new[i + 1] = new[i] + Len(v[i].data)
             ELSE new[i + 1] = new[i]
    BY <1>2, <1>5
  <2> QED
    BY <2>1, <2>2 DEF Flow
<1> QED
  BY <1>7 DEF v, c

\* The first frame is taken off a wire.
LEMMA FlowTail ==
  ASSUME NEW F, NEW w \in Seq(F), w # <<>>, NEW id, NEW k, NEW a \in Nat, NEW b \in Nat,
         Len(Head(w).data) \in Nat, Flow(w, id, k, a, b)
  PROVE  /\ Head(w).id # id => Flow(Tail(w), id, k, a, b)
         /\ Head(w).id = id => /\ Run(Head(w).data, k, a) /\ a + Len(Head(w).data) <= b
                               /\ Flow(Tail(w), id, k, a + Len(Head(w).data), b)
<1> DEFINE v == Tail(w)
           n == Len(w)
           f == Head(w)
<1>1. PICK pos \in [1..(n + 1) -> 0..b] :
        /\ pos[1] = a /\ pos[n + 1] = b
        /\ \A i \in 1..n :
             IF w[i].id = id
             THEN Run(w[i].data, k, pos[i]) /\ pos[i + 1] = pos[i] + Len(w[i].data)
             ELSE pos[i + 1] = pos[i]
  BY DEF Flow
<1> DEFINE new == [i \in 1..n |-> pos[i + 1]]
<1>2. /\ n \in Nat /\ n >= 1 /\ Len(v) = n - 1 /\ f = w[1]
      /\ \A i \in 1..(n - 1) : v[i] = w[i + 1]
  OBVIOUS
<1> HIDE DEF v, n, f
<1>3. \A i \in 1..n : i + 1 \in 1..(n + 1)
  BY <1>2
<1>4. new \in [1..n -> 0..b]
  BY <1>1, <1>3
<1>5. \A i \in 1..n : new[i] = pos[i + 1]
  OBVIOUS
<1> HIDE DEF new
<1>6. new[1] = pos[2] /\ new[n] = b
  BY <1>1, <1>2, <1>5
<1>7. ASSUME NEW i \in 1..(n - 1)
      PROVE  IF v[i].id = id
             THEN Run(v[i].data, k, new[i]) /\ new[i + 1] = new[i] + Len(v[i].data)
             ELSE new[i + 1] = new[i]
  <2>1. i \in 1..n /\ i + 1 \in 1..n
    BY <1>2
  <2>2. v[i] = w[i + 1] /\ new[i] = pos[i + 1] /\ new[i + 1] = pos[(i + 1) + 1]
    BY <1>2, <1>5, <2>1
  <2> QED
    BY <1>1, <2>1, <2>2
<1>8. Len(v) + 1 = n /\ 1..Len(v) = 1..(n - 1)
  BY <1>2
<1>9. Flow(v, id, k, pos[2], b)
  <2>1. new \in [1..(Len(v) + 1) -> 0..b] /\ new[1] = pos[2] /\ new[Len(v) + 1] = b
    BY <1>4, <1>6, <1>8
  <2>2. \A i \in 1..Len(v) : IF v[i].id = id
             THEN Run(v[i].data, k, new[i]) /\ new[i + 1] = new[i] + Len(v[i].data)
             ELSE new[i + 1] = new[i]
    BY <1>7, <1>8
  <2> QED
    BY <2>1, <2>2 DEF Flow
<1>10. 1 \in 1..n /\ 2 \in 1..(n + 1)
  BY <1>2
<1>11. CASE f.id # id
  <2>1. pos[1 + 1] = pos[1]
    BY <1>1, <1>2, <1>10, <1>11
  <2>2. Flow(v, id, k, a, b)
    BY <1>1, <1>9, <2>1
  <2> QED
    BY <1>11, <2>2 DEF v, f
<1>12. CASE f.id = id
  <2>1. Run(f.data, k, a) /\ pos[1 + 1] = a + Len(f.data)
    BY <1>1, <1>2, <1>10, <1>12
  <2>2. pos[2] \in 0..b
    BY <1>1, <1>10
  <2>3. Flow(v, id, k, a + Len(f.data), b) /\ a + Len(f.data) <= b
    BY <1>9, <2>1, <2>2
  <2> QED
    BY <1>12, <2>1, <2>3 DEF v, f
<1> QED
  BY <1>11, <1>12 DEF f

\* The front of a wire is that of its first part, ...
LEMMA ConcatFront ==
  ASSUME NEW S, NEW s \in Seq(S), NEW t \in Seq(S), s # <<>>
  PROVE  /\ s \o t \in Seq(S) /\ s \o t # <<>>
         /\ Head(s \o t) = Head(s) /\ Tail(s \o t) = Tail(s) \o t
<1> DEFINE u == s \o t
           l == Tail(u)
           m == Tail(s) \o t
<1>1. /\ Len(s) \in Nat /\ Len(t) \in Nat /\ Len(s) >= 1
      /\ u \in Seq(S) /\ Len(u) = Len(s) + Len(t)
      /\ \A i \in 1..Len(s) : u[i] = s[i]
      /\ \A i \in 1..Len(t) : u[Len(s) + i] = t[i]
  OBVIOUS
<1>2. u # <<>> /\ Head(u) = Head(s)
  BY <1>1
<1>3. /\ l \in Seq(S) /\ Len(l) = Len(s) + Len(t) - 1
      /\ \A i \in 1..(Len(s) + Len(t) - 1) : l[i] = u[i + 1]
  BY <1>1, <1>2, HeadTail
<1>4. /\ Tail(s) \in Seq(S) /\ Len(Tail(s)) = Len(s) - 1
      /\ \A i \in 1..(Len(s) - 1) : Tail(s)[i] = s[i + 1]
  BY <1>1, HeadTail
<1>5. /\ m \in Seq(S) /\ Len(m) = Len(s) - 1 + Len(t)
      /\ \A i \in 1..(Len(s) - 1) : m[i] = s[i + 1]
      /\ \A i \in 1..Len(t) : m[Len(s) - 1 + i] = t[i]
  BY <1>1, <1>4
<1> HIDE DEF u, l, m
<1>6. ASSUME NEW i \in 1..Len(l) PROVE l[i] = m[i]
  <2>1. CASE i <= Len(s) - 1
    BY <1>1, <1>3, <1>5, <2>1
  <2>2. CASE i > Len(s) - 1
    <3>1. PICK n \in 1..Len(t) : i = Len(s) - 1 + n
      <4>1. i - (Len(s) - 1) \in 1..Len(t) /\ i = Len(s) - 1 + (i - (Len(s) - 1))
        BY <1>1, <1>3, <2>2
      <4> QED
        BY <4>1
    <3>2. i + 1 = Len(s) + n
      BY <1>1, <3>1
    <3> QED
      BY <1>1, <1>3, <1>5, <3>1, <3>2
  <2> QED
    BY <1>1, <1>3, <2>1, <2>2
<1>7. l = m
  <2>1. l \in Seq(S) /\ m \in Seq(S) /\ Len(l) = Len(m)
    BY <1>1, <1>3, <1>5
  <2> QED
    BY <1>6, <2>1, SeqEqual
<1> QED
  BY <1>1, <1>2, <1>7 DEF u, l, m

\* ... and what is cut off its end makes it whole again.
LEMMA CutWhole ==
  ASSUME NEW E, NEW w \in Seq(E), NEW v \in Seq(E), NEW m \in 0..Len(w)
  PROVE  \E r \in Seq(E) : SubSeq(w, 1, m) \o r = w \o v
<1> DEFINE p == SubSeq(w, 1, m)
           q == SubSeq(w, m + 1, Len(w))
<1>1. /\ p \in Seq(E) /\ Len(p) = m /\ \A i \in 1..m : p[i] = w[i]
      /\ Len(w) \in Nat
  OBVIOUS
<1>2. q \in Seq(E) /\ Len(q) = Len(w) - m /\ \A i \in 1..(Len(w) - m) : q[i] = w[m + i]
  OBVIOUS
<1> HIDE DEF p, q
<1>3. p \o q = w
  <2> DEFINE u == p \o q
  <2>1. /\ u \in Seq(E) /\ Len(u) = Len(w)
        /\ \A i \in 1..m : u[i] = p[i]
        /\ \A i \in 1..(Len(w) - m) : u[m + i] = q[i]
    BY <1>1, <1>2
  <2> HIDE DEF u
  <2>2. ASSUME NEW i \in 1..Len(w) PROVE u[i] = w[i]
    <3>1. CASE i <= m
      BY <1>1, <2>1, <3>1
    <3>2. CASE i > m
      <4>1. i - m \in 1..(Len(w) - m) /\ m + (i - m) = i
        BY <1>1, <3>2
      <4> QED
        BY <1>2, <2>1, <4>1
    <3> QED
      BY <1>1, <3>1, <3>2
  <2>3. u = w
    BY <2>1, <2>2
  <2> QED
    BY <2>3 DEF u
<1>4. q \o v \in Seq(E)
  BY <1>2
<1>5. p \o (q \o v) = (p \o q) \o v
  <2>1. p \in Seq(E) /\ q \in Seq(E)
    BY <1>1, <1>2
  <2>2. (p \o q) \o v = p \o (q \o v)
    BY <2>1, ConcatAssociative
  <2> QED
    BY <2>2
<1> QED
  BY <1>3, <1>4, <1>5 DEF p, q

\* Types of what the invariant says of a connection.
LEMMA StreamTypes ==
  ASSUME TypeOK, Named, NEW k \in Clients
  PROVE  /\ sentUp[k] \in Seq(Bytes) /\ sentDown[k] \in Seq(Bytes)
         /\ inSock[k] \in Seq(Bytes) /\ chunk[k] \in Seq(Bytes)
         /\ gotDown[k] \in Seq(Bytes) /\ outSock[k] \in Seq(Bytes)
         /\ Relayed(k) \in Seq(Bytes) /\ Written(k) \in Seq(Bytes)
         /\ Registered(k) => Relayed(k) = relayGot[connID[k]] /\ connID[k] \in ConnIDs
         /\ ~Registered(k) => Relayed(k) = <<>>
<1>1. /\ sentUp[k] \in Seq(Bytes) /\ sentDown[k] \in Seq(Bytes)
      /\ inSock[k] \in Seq(Bytes) /\ chunk[k] \in Seq(Bytes)
      /\ gotDown[k] \in Seq(Bytes) /\ outSock[k] \in Seq(Bytes)
  BY DEF TypeOK
<1>2. Written(k) \in Seq(Bytes)
  BY <1>1 DEF Written
<1>3. Registered(k) => Relayed(k) = relayGot[connID[k]] /\ connID[k] \in ConnIDs
  BY DEF Registered, Relayed, Named
<1>4. ~Registered(k) => Relayed(k) = <<>>
  BY DEF Registered, Relayed
<1>5. <<>> \in Seq(Bytes)
  OBVIOUS
<1>6. Relayed(k) \in Seq(Bytes)
  BY <1>3, <1>4, <1>5 DEF TypeOK
<1> QED
  BY <1>1, <1>2, <1>3, <1>4, <1>6

\* Lengths of what the invariant says of a connection.
LEMMA StreamLengths ==
  ASSUME TypeOK, Named, NEW k \in Clients
  PROVE  /\ Len(sentUp[k]) \in Nat /\ Len(sentDown[k]) \in Nat
         /\ Len(inSock[k]) \in Nat /\ Len(chunk[k]) \in Nat
         /\ Len(Relayed(k)) \in Nat /\ Len(Written(k)) \in Nat
         /\ Start(k) \in Int
         /\ Streams(k) => Start(k) \in Nat /\ Len(sentUp[k]) - Len(inSock[k]) \in Nat
<1>1. /\ Len(sentUp[k]) \in Nat /\ Len(sentDown[k]) \in Nat
      /\ Len(inSock[k]) \in Nat /\ Len(chunk[k]) \in Nat
      /\ Len(Relayed(k)) \in Nat /\ Len(Written(k)) \in Nat
  BY StreamTypes
<1>2. Start(k) \in Int
  BY <1>1 DEF Start
<1>3. Streams(k) => Start(k) \in Nat /\ Len(sentUp[k]) - Len(inSock[k]) \in Nat
  <2>1. Streams(k) => Start(k) >= 0
    BY Zenon DEF Streams
  <2>2. Start(k) = Len(sentUp[k]) - Len(inSock[k]) - Len(chunk[k])
    BY DEF Start
  <2> DEFINE a == Len(sentUp[k])
             b == Len(inSock[k])
             c == Len(chunk[k])
  <2>3. a \in Nat /\ b \in Nat /\ c \in Nat /\ Start(k) = a - b - c
    BY <1>1, <2>2
  <2> HIDE DEF a, b, c
  <2>4. Start(k) >= 0 => Start(k) \in Nat /\ a - b \in Nat
    BY <2>3
  <2>5. Start(k) >= 0 => Start(k) \in Nat /\ Len(sentUp[k]) - Len(inSock[k]) \in Nat
    BY Zenon, <2>4 DEF a, b
  <2> QED
    BY Zenon, <2>1, <2>5
<1> QED
  BY <1>1, <1>2, <1>3

\* The connection a frame on its way down is for.
LEMMA Targets ==
  ASSUME FineGrainedClock, ConnInv, Findable, downWire # <<>>
  PROVE  \E k \in Clients :
           /\ Present(k) /\ Head(downWire).id = connID[k]
           /\ {e.client : e \in Entries(Head(downWire).id)} = {k} \ ended
<1> DEFINE h == Head(downWire)
<1>1. h = downWire[1] /\ 1 \in 1..Len(downWire)
  BY HeadTail DEF ConnInv, TypeOK
<1>2. Ours(h)
  BY <1>1 DEF ConnInv, Framed, DownFramed
<1> HIDE DEF h
<1>3. PICK k \in Clients : Present(k) /\ h.id = connID[k]
  BY <1>2 DEF Ours
<1>4. ASSUME NEW e \in Entries(h.id) PROVE e.client \in {k} \ ended
  <2>1. e \in conns /\ e.id = h.id
    BY DEF Entries
  <2>2. /\ e.client \in Clients /\ Registered(e.client) /\ e.client \notin ended
        /\ connID[e.client] = connID[k]
    BY <1>3, <2>1 DEF ConnInv, TypeOK, Entry, Listed
  <2>3. pc[e.client] \notin {"outside", "accepted"} /\ pc[k] \notin {"outside", "accepted"}
    BY <1>3, <2>2 DEF Registered, Present
  <2> QED
    BY <2>2, <2>3, OneConnectionPerID DEF ConnInv
<1>5. ASSUME k \notin ended PROVE k \in {e.client : e \in Entries(h.id)}
  <2> DEFINE e == [session |-> owner[k], id |-> connID[k], client |-> k]
  <2>1. e \in conns /\ e.session = session /\ e.id = h.id /\ e.client = k
    BY <1>3, <1>5 DEF Findable, Present
  <2> HIDE DEF e
  <2> QED
    BY <2>1 DEF Entries
<1>6. {e.client : e \in Entries(h.id)} = {k} \ ended
  BY <1>4, <1>5
<1> QED
  BY <1>3, <1>6 DEF h

\* Nothing is on its way to or from a connection that is not registered.
LEMMA Unheard ==
  ASSUME FineGrainedClock, ConnInv, NEW k \in Clients, pc[k] = "counting"
  PROVE  /\ relayGot[connID[k]] = <<>>
         /\ \A i \in 1..Len(upWire) : upWire[i].id # connID[k]
         /\ \A i \in 1..Len(downWire) : downWire[i].id # connID[k]
<1>1. ASSUME NEW j \in Clients, Registered(j), connID[j] = connID[k] PROVE FALSE
  <2>1. pc[j] \notin {"outside", "accepted"} /\ j # k
    BY <1>1 DEF Registered
  <2> QED
    BY <1>1, <2>1, OneConnectionPerID DEF ConnInv
<1>2. relayGot[connID[k]] = <<>>
  <2>1. connID[k] \in ConnIDs
    BY DEF ConnInv, Named
  <2> QED
    BY <1>1, <2>1 DEF ConnInv, Framed, Relaying
<1>3. \A i \in 1..Len(upWire) : upWire[i].id # connID[k]
  BY <1>1 DEF ConnInv, Framed, UpFramed, Ours, Present
<1>4. \A i \in 1..Len(downWire) : downWire[i].id # connID[k]
  BY <1>1 DEF ConnInv, Framed, DownFramed, Ours, Present
<1> QED
  BY <1>2, <1>3, <1>4

\* A step that leaves a connection's bytes where they are keeps its streams.
LEMMA StreamsSame ==
  ASSUME NEW j \in Clients, Streams(j),
         sentUp'[j] = sentUp[j], sentDown'[j] = sentDown[j],
         inSock'[j] = inSock[j], chunk'[j] = chunk[j],
         Relayed(j)' = Relayed(j), Written(j)' = Written(j),
         Registered(j) => Registered(j)'
  PROVE  Streams(j)' /\ Start(j)' = Start(j)
BY DEF Streams, Start

\* No bytes are a run from anywhere.
LEMMA NoBytes == \A k, a : Run(<<>>, k, a)
BY DEF Run

\* A single byte is a run.
LEMMA OneByte == \A k : \A a \in Nat : Run(<< <<k, a + 1>> >>, k, a)
<1> SUFFICES ASSUME NEW k, NEW a \in Nat PROVE Run(<< <<k, a + 1>> >>, k, a)
  OBVIOUS
<1> DEFINE s == << <<k, a + 1>> >>
<1>1. Len(s) = 1 /\ s[1] = <<k, a + 1>>
  OBVIOUS
<1> HIDE DEF s
<1>2. \A i \in 1..Len(s) : s[i] = <<k, a + i>>
  BY <1>1
<1> QED
  BY <1>2 DEF Run, s

\* The connection a frame on its way up is from.
LEMMA Sender ==
  ASSUME FineGrainedClock, ConnInv, upWire # <<>>
  PROVE  /\ wire = "up" /\ Head(upWire) \in Frame
         /\ Head(upWire).close <=> Head(upWire).data = <<>>
         /\ \E k \in Clients :
              /\ Present(k) /\ Head(upWire).id = connID[k]
              /\ \A j \in Clients \ {k} : Registered(j) => connID[j] # Head(upWire).id
<1> DEFINE h == Head(upWire)
<1>1. h = upWire[1] /\ 1 \in 1..Len(upWire) /\ h \in Frame
  BY HeadTail DEF ConnInv, TypeOK
<1>2. wire = "up" /\ Ours(h)
  BY <1>1 DEF ConnInv, Framed, UpFramed
<1> HIDE DEF h
<1>3. PICK k \in Clients : Present(k) /\ h.id = connID[k]
  BY <1>2 DEF Ours
<1>4. ASSUME NEW j \in Clients \ {k}, Registered(j), connID[j] = h.id PROVE FALSE
  BY <1>3, <1>4, OneConnectionPerID DEF ConnInv, Registered, Present
<1>5. h.close <=> h.data = <<>>
  BY <1>2 DEF Ours
<1> QED
  BY <1>1, <1>2, <1>3, <1>4, <1>5 DEF h

\* What the relay of a connection is given next.
LEMMA Received ==
  ASSUME FineGrainedClock, ConnInv, Flows, RelayReceive
  PROVE  \E k \in Clients :
           /\ Present(k) /\ Head(upWire).id = connID[k] /\ Head(upWire).data \in Seq(Bytes)
           /\ (Head(upWire).close <=> Head(upWire).data = <<>>)
           /\ Relayed(k)' = Relayed(k) \o Head(upWire).data
           /\ \A j \in Clients \ {k} : Relayed(j)' = Relayed(j) /\ (Registered(j) => connID[j] # connID[k])
           /\ Run(Head(upWire).data, k, Len(Relayed(k)))
           /\ Len(Relayed(k)) + Len(Head(upWire).data) <= Start(k)
           /\ Flow(Tail(upWire), connID[k], k, Len(Relayed(k)) + Len(Head(upWire).data), Start(k))
<1> DEFINE h == Head(upWire)
<1>1. upWire # <<>> /\ upWire \in Seq(Frame) /\ UNCHANGED <<pc, connID>>
  BY DEF RelayReceive, ConnInv, TypeOK, pumpVars
<1>2. wire = "up" /\ h \in Frame /\ (h.close <=> h.data = <<>>)
  BY <1>1, Sender
<1>3. PICK k \in Clients : /\ Present(k) /\ h.id = connID[k]
                           /\ \A j \in Clients \ {k} : Registered(j) => connID[j] # h.id
  BY <1>1, Sender
<1>4. h.data \in Seq(Bytes) /\ Len(h.data) \in Nat /\ h.id \in ConnIDs
  BY <1>2 DEF Frame
<1>5. relayGot' = [relayGot EXCEPT ![h.id] = @ \o h.data]
  <2>1. CASE ~h.close
    BY <2>1 DEF RelayReceive
  <2>2. CASE h.close
    <3>1. relayGot' = relayGot /\ h.data = <<>>
      BY <1>2, <2>2 DEF RelayReceive
    <3>2. relayGot[h.id] \o h.data = relayGot[h.id]
      <4>1. relayGot[h.id] \in Seq(Bytes)
        BY <1>4 DEF ConnInv, TypeOK
      <4> HIDE DEF h
      <4> QED
        BY <1>4, <3>1, <4>1, ConcatEqualIffEmpty
    <3> QED
      BY <1>4, <3>1, <3>2 DEF ConnInv, TypeOK
  <2> QED
    BY <2>1, <2>2
<1> HIDE DEF h
<1>6. Registered(k) /\ connID[k] \in ConnIDs
  BY <1>3, <1>4 DEF Present
<1>7. Relayed(k)' = Relayed(k) \o h.data
  BY <1>1, <1>3, <1>4, <1>5, <1>6 DEF Relayed, Registered, ConnInv, TypeOK
<1>8. \A j \in Clients \ {k} : Relayed(j)' = Relayed(j)
  <2> SUFFICES ASSUME NEW j \in Clients \ {k} PROVE Relayed(j)' = Relayed(j)
    OBVIOUS
  <2>1. CASE Registered(j)
    <3>1. connID[j] # h.id /\ connID[j] \in ConnIDs
      BY <1>3, <2>1 DEF Registered, ConnInv, Named
    <3>2. relayGot'[connID[j]] = relayGot[connID[j]]
      BY <1>4, <1>5, <3>1 DEF ConnInv, TypeOK
    <3> QED
      BY <1>1, <3>2 DEF Relayed
  <2>2. CASE ~Registered(j)
    BY <1>1, <2>2 DEF Registered, Relayed
  <2> QED
    BY <2>1, <2>2
<1>9. Flow(upWire, connID[k], k, Len(Relayed(k)), Start(k))
  <2>1. Relayed(k) = relayGot[connID[k]]
    BY <1>6, StreamTypes DEF ConnInv
  <2> QED
    BY <1>2, <1>3, <2>1 DEF Flows, UpFlow
<1>10. Len(Relayed(k)) \in Nat /\ Start(k) \in Nat
  BY StreamLengths DEF ConnInv, Flows
<1>11. /\ Run(h.data, k, Len(Relayed(k))) /\ Len(Relayed(k)) + Len(h.data) <= Start(k)
       /\ Flow(Tail(upWire), connID[k], k, Len(Relayed(k)) + Len(h.data), Start(k))
  <2>1. Head(upWire).id = connID[k] /\ Len(Head(upWire).data) \in Nat
    BY <1>3, <1>4 DEF h
  <2> QED
    BY <1>1, <1>9, <1>10, <2>1, FlowTail DEF h
<1> QED
  BY <1>2, <1>3, <1>4, <1>7, <1>8, <1>11 DEF h

\* What the read loop writes next.
LEMMA Delivered ==
  ASSUME FineGrainedClock, ConnInv, Findable, Flows, HandleData
  PROVE  \E k \in Clients :
           /\ Present(k) /\ Head(downWire).id = connID[k]
           /\ Head(downWire).data \in Seq(Bytes) /\ Head(downWire).data # <<>>
           /\ \A j \in Clients \ {k} : Written(j)' = Written(j) /\ (Registered(j) => connID[j] # connID[k])
           /\ k \in ended \cup hungUp => Written(k)' = Written(k)
           /\ k \notin ended \cup hungUp =>
                /\ Written(k)' = Written(k) \o Head(downWire).data
                /\ Run(Head(downWire).data, k, Len(Written(k)))
                /\ Len(Written(k)) + Len(Head(downWire).data) <= Len(sentDown[k])
                /\ \E lost \in Seq(Frame) :
                     /\ wire = "up" => lost = <<>>
                     /\ Flow(Tail(downWire) \o lost, connID[k], k,
                             Len(Written(k)) + Len(Head(downWire).data), Len(sentDown[k]))
<1> DEFINE h == Head(downWire)
<1>1. downWire # <<>> /\ downWire \in Seq(Frame) /\ ~h.close /\ UNCHANGED gotDown
  BY DEF HandleData, ConnInv, TypeOK, streamVars
<1>2. h = downWire[1] /\ 1 \in 1..Len(downWire) /\ h \in Frame
  BY <1>1, HeadTail
<1>3. h.data # <<>>
  BY <1>1, <1>2 DEF ConnInv, Framed, DownFramed, Ours
<1>4. PICK k \in Clients : /\ Present(k) /\ h.id = connID[k]
                           /\ {e.client : e \in Entries(h.id)} = {k} \ ended
  BY <1>1, Targets
<1>5. h.data \in Seq(Bytes) /\ Len(h.data) \in Nat
  BY <1>2 DEF Frame
<1>6. outSock' = [j \in Clients |-> IF j \in ({k} \ ended) \ (ended \cup hungUp)
                                    THEN outSock[j] \o h.data ELSE outSock[j]]
  BY <1>4 DEF HandleData
<1>7. ASSUME NEW j \in Clients \ {k}
      PROVE  Written(j)' = Written(j) /\ (Registered(j) => connID[j] # connID[k])
  <2>1. Registered(j) => connID[j] # connID[k]
    BY <1>4, OneConnectionPerID DEF ConnInv, Registered, Present
  <2>2. outSock'[j] = outSock[j]
    BY <1>6
  <2> QED
    BY <1>1, <2>1, <2>2 DEF Written
<1>8. ASSUME k \in ended \cup hungUp PROVE Written(k)' = Written(k)
  BY <1>1, <1>6, <1>8 DEF Written
<1>9. ASSUME k \notin ended \cup hungUp
      PROVE  /\ Written(k)' = Written(k) \o h.data
             /\ Run(h.data, k, Len(Written(k))) /\ Len(Written(k)) + Len(h.data) <= Len(sentDown[k])
             /\ \E lost \in Seq(Frame) :
                  /\ wire = "up" => lost = <<>>
                  /\ Flow(Tail(downWire) \o lost, connID[k], k,
                          Len(Written(k)) + Len(h.data), Len(sentDown[k]))
  <2>1. outSock'[k] = outSock[k] \o h.data
    BY <1>6, <1>9
  <2>2. Written(k)' = Written(k) \o h.data
    <3>1. gotDown[k] \in Seq(Bytes) /\ outSock[k] \in Seq(Bytes)
      BY DEF ConnInv, TypeOK
    <3>2. gotDown[k] \o (outSock[k] \o h.data) = (gotDown[k] \o outSock[k]) \o h.data
      <4>1. \A p, q, r \in Seq(Bytes) : p \o (q \o r) = (p \o q) \o r
        BY ConcatAssociative
      <4> QED
        BY <1>5, <3>1, <4>1
    <3> QED
      BY <1>1, <2>1, <3>2 DEF Written
  <2>3. PICK lost \in Seq(Frame) :
          /\ wire = "up" => lost = <<>>
          /\ Flow(downWire \o lost, connID[k], k, Len(Written(k)), Len(sentDown[k]))
    BY <1>4, <1>9 DEF Flows, DownFlow
  <2>4. Len(Written(k)) \in Nat /\ Len(sentDown[k]) \in Nat
    BY StreamLengths DEF ConnInv
  <2>5. /\ downWire \o lost \in Seq(Frame) /\ downWire \o lost # <<>>
        /\ Head(downWire \o lost) = h /\ Tail(downWire \o lost) = Tail(downWire) \o lost
    BY <1>1, ConcatFront
  <2>6. h.id = connID[k] /\ Len(h.data) \in Nat
    BY <1>4, <1>5
  <2> HIDE DEF h
  <2>7. /\ Run(h.data, k, Len(Written(k))) /\ Len(Written(k)) + Len(h.data) <= Len(sentDown[k])
        /\ Flow(Tail(downWire) \o lost, connID[k], k, Len(Written(k)) + Len(h.data), Len(sentDown[k]))
    BY <2>3, <2>4, <2>5, <2>6, FlowTail
  <2> QED
    BY <2>2, <2>3, <2>7
<1> HIDE DEF h
<1> QED
  BY <1>3, <1>4, <1>5, <1>7, <1>8, <1>9 DEF h

\* Whom the directory answers.
LEMMA Answered ==
  ASSUME FineGrainedClock, ConnInv, Flows, NEW id \in ConnIDs, RelayAnswer(id)
  PROVE  /\ Asker(id) \in Clients /\ Present(Asker(id)) /\ connID[Asker(id)] = id
         /\ \A j \in Clients \ {Asker(id)} : Registered(j) => connID[j] # id
<1>1. relay[id] = "open"
  BY DEF RelayAnswer
<1>2. relayGot[id] # <<>> /\ relayGot[id] \in Seq(Bytes)
  BY <1>1 DEF ConnInv, Framed, Relaying, TypeOK
<1>3. PICK k \in Clients : Present(k) /\ connID[k] = id
  BY <1>1 DEF ConnInv, Framed, Relaying
<1>4. Relayed(k) = relayGot[id]
  BY <1>3, StreamTypes DEF ConnInv, Present
<1>5. Head(relayGot[id]) = relayGot[id][1] /\ 1 \in 1..Len(relayGot[id])
  BY <1>2, HeadTail
<1>6. Run(relayGot[id], k, 0)
  BY <1>4 DEF Flows, Streams
<1>7. relayGot[id][1] = <<k, 0 + 1>>
  BY <1>5, <1>6 DEF Run
<1>8. Asker(id) = k
  BY <1>5, <1>7 DEF Asker
<1>9. \A j \in Clients \ {k} : Registered(j) => connID[j] # id
  BY <1>3, OneConnectionPerID DEF ConnInv, Registered, Present
<1> QED
  BY <1>3, <1>8, <1>9

\* Every step keeps the streams of every connection.
LEMMA StreamsStep ==
  ASSUME FineGrainedClock, ConnInv, Findable, Flows, [Next]_vars, NEW j \in Clients
  PROVE  Streams(j)'
<1>0. TypeOK /\ Named /\ Framed /\ Streams(j) /\ Chunked
  BY DEF ConnInv, Flows, Framed
<1> DEFINE Quiet == UNCHANGED <<sentUp, sentDown, inSock, chunk, gotDown, outSock>>
           Steady == /\ \A i \in Clients : Registered(i)' <=> Registered(i)
                     /\ \A i \in Clients : Registered(i) => connID'[i] = connID[i]
                     /\ relayGot' = relayGot
<1>1. ASSUME Steady PROVE Relayed(j)' = Relayed(j)
  BY <1>1 DEF Registered, Relayed
<1>2. ASSUME UNCHANGED <<pc, connID, relayGot>> PROVE Steady
  BY <1>2 DEF Registered
<1>3. ASSUME Quiet, Steady PROVE Streams(j)'
  <2>1. Written(j)' = Written(j)
    BY <1>3 DEF Written
  <2> QED
    BY <1>0, <1>1, <1>3, <2>1, StreamsSame
<1>4. CASE Connect \/ Break \/ Disconnect \/ HandleClose \/ UNCHANGED vars
  <2>1. Quiet
    BY <1>4 DEF Connect, Break, Disconnect, HandleClose, vars, pumpVars, sockVars, streamVars
  <2>2. UNCHANGED <<pc, connID, relayGot>>
    BY <1>4 DEF Connect, Break, Disconnect, HandleClose, vars, pumpVars, relayVars
  <2> QED
    BY <1>2, <1>3, <2>1, <2>2
<1>5. ASSUME NEW s \in Sessions, Listen(s) \/ CloseListener(s) PROVE Streams(j)'
  <2>1. Quiet /\ UNCHANGED <<pc, connID, relayGot>>
    BY <1>5 DEF Listen, CloseListener, pumpVars, sockVars, streamVars, relayVars
  <2> QED
    BY <1>2, <1>3, <2>1
<1>6. ASSUME NEW id \in ConnIDs, RelayClose(id) PROVE Streams(j)'
  <2>1. Quiet /\ UNCHANGED <<pc, connID, relayGot>>
    BY <1>6 DEF RelayClose, pumpVars, sockVars, streamVars
  <2> QED
    BY <1>2, <1>3, <2>1
<1>7. ASSUME NEW k \in Clients, ClientClose(k) PROVE Streams(j)'
  <2>1. Quiet /\ UNCHANGED <<pc, connID, relayGot>>
    BY <1>7 DEF ClientClose, pumpVars, streamVars, relayVars
  <2> QED
    BY <1>2, <1>3, <2>1
<1>8. ASSUME NEW k \in Clients,
             Accept(k) \/ ReadCounter(k) \/ ReadError(k) \/ SendClose(k) \/ Remove(k)
      PROVE  Streams(j)'
  <2>1. Quiet
    BY <1>8 DEF Accept, ReadCounter, ReadError, SendClose, Remove, sockVars, streamVars
  <2>2. Steady
    BY <1>0, <1>8 DEF Accept, ReadCounter, ReadError, SendClose, Remove, relayVars, Registered, TypeOK
  <2> QED
    BY <1>3, <2>1, <2>2
<1>9. ASSUME NEW k \in Clients, ClientRead(k) PROVE Streams(j)'
  <2>1. Steady /\ UNCHANGED <<sentUp, sentDown, inSock, chunk>>
    BY <1>2, <1>9 DEF ClientRead, pumpVars, relayVars
  <2>2. Written(j)' = Written(j)
    <3>1. gotDown[k] \in Seq(Bytes) /\ outSock[k] \in Seq(Bytes)
      BY <1>0 DEF TypeOK
    <3>2. (gotDown[k] \o outSock[k]) \o <<>> = gotDown[k] \o outSock[k]
      BY <3>1
    <3>3. CASE j = k
      BY <1>0, <1>9, <3>2, <3>3 DEF ClientRead, Written, TypeOK
    <3>4. CASE j # k
      BY <1>0, <1>9, <3>4 DEF ClientRead, Written, TypeOK
    <3> QED
      BY <3>3, <3>4
  <2> QED
    BY <1>0, <1>1, <2>1, <2>2, StreamsSame
<1>10. ASSUME NEW k \in Clients, Register(k) PROVE Streams(j)'
  <2>1. Quiet /\ UNCHANGED <<connID, relayGot>>
    BY <1>10 DEF Register, sockVars, streamVars, relayVars
  <2>2. pc[k] = "counting"
    BY <1>10 DEF Register
  <2>3. Written(j)' = Written(j)
    BY <2>1 DEF Written
  <2>4. Registered(j) => Registered(j)'
    BY <1>0, <1>10 DEF Register, Registered, TypeOK
  <2>5. Relayed(j)' = Relayed(j)
    <3>1. CASE j = k
      <4>1. Relayed(j) = <<>> /\ relayGot[connID[k]] = <<>>
        BY <2>2, <3>1, Unheard DEF Relayed
      <4>2. Relayed(j)' = relayGot[connID[k]]
        BY <1>0, <1>10, <2>1, <3>1 DEF Register, Relayed, TypeOK
      <4> QED
        BY <4>1, <4>2
    <3>2. CASE j # k
      BY <1>0, <1>10, <2>1, <3>2 DEF Register, Relayed, TypeOK
    <3> QED
      BY <3>1, <3>2
  <2> QED
    BY <1>0, <2>1, <2>3, <2>4, <2>5, StreamsSame
<1>11. ASSUME NEW k \in Clients, ReadChunk(k) PROVE Streams(j)'
  <2>1. UNCHANGED <<sentUp, sentDown, gotDown, outSock>>
    BY <1>11 DEF ReadChunk, streamVars
  <2>2. Steady
    BY <1>0, <1>11 DEF ReadChunk, relayVars, Registered, TypeOK
  <2>3. Written(j)' = Written(j)
    BY <2>1 DEF Written
  <2>4. PICK n \in 1..Len(inSock[k]) :
          /\ chunk' = [chunk EXCEPT ![k] = SubSeq(inSock[k], 1, n)]
          /\ inSock' = [inSock EXCEPT ![k] = SubSeq(@, Len(SubSeq(inSock[k], 1, n)) + 1, Len(@))]
    BY <1>11 DEF ReadChunk, Prefixes
  <2>5. CASE j # k
    BY <1>0, <1>1, <2>1, <2>2, <2>3, <2>4, <2>5, StreamsSame DEF TypeOK
  <2>6. CASE j = k
    <3> DEFINE a == Len(sentUp[j]) - Len(inSock[j])
    <3>1. chunk[j] = <<>> /\ Registered(j)
      BY <1>0, <1>11, <2>6 DEF ReadChunk, Chunked, Registered
    <3>2. a \in Nat /\ Run(inSock[j], j, a) /\ inSock[j] \in Seq(Bytes)
      BY <1>0, StreamLengths, StreamTypes DEF Streams
    <3>3. /\ Run(SubSeq(inSock[j], 1, n), j, a)
          /\ Run(SubSeq(inSock[j], n + 1, Len(inSock[j])), j, a + n)
          /\ Len(SubSeq(inSock[j], 1, n)) = n
          /\ Len(SubSeq(inSock[j], n + 1, Len(inSock[j]))) = Len(inSock[j]) - n
      <4> HIDE DEF a
      <4> QED
        BY <2>6, <3>2, RunSplit
    <3>4. chunk'[j] = SubSeq(inSock[j], 1, n) /\ inSock'[j] = SubSeq(inSock[j], n + 1, Len(inSock[j]))
      BY <1>0, <2>4, <2>6, <3>3 DEF TypeOK
    <3>5. /\ Len(chunk'[j]) = n /\ Len(inSock'[j]) = Len(inSock[j]) - n
          /\ Run(chunk'[j], j, a) /\ Run(inSock'[j], j, a + n)
      BY <3>3, <3>4
    <3>6. /\ Len(sentUp[j]) \in Nat /\ Len(inSock[j]) \in Nat /\ n \in Nat
          /\ a = Len(sentUp[j]) - Len(inSock[j])
      BY <1>0, StreamLengths
    <3> HIDE DEF a
    <3>7. Start(j)' = a /\ Len(sentUp'[j]) - Len(inSock'[j]) = a + n
      BY <2>1, <3>5, <3>6 DEF Start
    <3>8. Start(j)' >= 0 /\ Run(chunk'[j], j, Start(j)')
          /\ Run(inSock'[j], j, Len(sentUp'[j]) - Len(inSock'[j]))
      <4>1. Start(j)' >= 0
        BY <3>2, <3>7
      <4>2. Run(chunk'[j], j, Start(j)')
        BY <3>5, <3>7
      <4>3. Run(inSock'[j], j, Len(sentUp'[j]) - Len(inSock'[j]))
        BY <3>5, <3>7
      <4> QED
        BY <4>1, <4>2, <4>3
    <3>9. Relayed(j)' = Relayed(j) /\ Registered(j)'
      BY <1>1, <2>2, <3>1
    <3> QED
      BY <1>0, <2>1, <2>3, <3>8, <3>9 DEF Streams
  <2> QED
    BY <2>5, <2>6
<1>12. ASSUME NEW k \in Clients, SendChunk(k) PROVE Streams(j)'
  <2>1. Steady /\ UNCHANGED <<sentUp, sentDown, inSock, gotDown, outSock>>
    BY <1>0, <1>12 DEF SendChunk, sockVars, streamVars, relayVars, Registered, TypeOK
  <2>2. Written(j)' = Written(j)
    BY <2>1 DEF Written
  <2>3. CASE j # k
    <3>1. chunk'[j] = chunk[j]
      BY <1>0, <1>12, <2>3 DEF SendChunk, TypeOK
    <3> QED
      BY <1>0, <1>1, <2>1, <2>2, <3>1, StreamsSame
  <2>4. CASE j = k
    <3>1. chunk'[j] = <<>> /\ Len(chunk'[j]) = 0
      BY <1>0, <1>12, <2>4 DEF SendChunk, TypeOK
    <3>2. Registered(j) /\ Registered(j)'
      BY <1>12, <2>1, <2>4 DEF SendChunk, Registered
    <3> DEFINE a == Len(sentUp[j])
               b == Len(inSock[j])
    <3>3. a \in Nat /\ b \in Nat /\ a - b \in Nat
      BY <1>0, StreamLengths
    <3>4. Start(j)' = a - b - 0
      BY <2>1, <3>1 DEF Start
    <3> HIDE DEF a, b
    <3>5. Start(j)' >= 0
      BY <3>3, <3>4
    <3>6. Run(chunk'[j], j, Start(j)')
      BY <3>1, NoBytes
    <3>7. Relayed(j)' = Relayed(j)
      BY <1>1, <2>1
    <3> QED
      BY <1>0, <2>1, <2>2, <3>2, <3>5, <3>6, <3>7 DEF Streams
  <2> QED
    BY <2>3, <2>4
<1>13. ASSUME NEW k \in Clients, ClientWrite(k) PROVE Streams(j)'
  <2>1. Steady /\ UNCHANGED <<sentDown, gotDown, outSock, chunk>>
    BY <1>2, <1>13 DEF ClientWrite, pumpVars, relayVars
  <2>2. Written(j)' = Written(j)
    BY <2>1 DEF Written
  <2>3. CASE j # k
    <3>1. sentUp'[j] = sentUp[j] /\ inSock'[j] = inSock[j]
      BY <1>0, <1>13, <2>3 DEF ClientWrite, TypeOK
    <3> QED
      BY <1>0, <1>1, <2>1, <2>2, <3>1, StreamsSame
  <2>4. CASE j = k
    <3> DEFINE a == Len(sentUp[j])
               b == Len(inSock[j])
               c == Len(chunk[j])
               s == sentUp[j]
               r == inSock[j]
    <3>1. sentUp'[j] = Append(s, <<j, 0 + Len(s) + 1>>) /\ inSock'[j] = Append(r, <<j, a + 1>>)
      <4>1. sentUp'[j] = Append(s, <<j, Len(s) + 1>>) /\ inSock'[j] = Append(r, <<j, Len(s) + 1>>)
        BY <1>0, <1>13, <2>4 DEF ClientWrite, TypeOK
      <4>2. Len(s) \in Nat
        BY <1>0, StreamLengths
      <4>3. 0 + Len(s) + 1 = Len(s) + 1
        BY <4>2
      <4> QED
        BY <4>1, <4>3
    <3>2. a \in Nat /\ b \in Nat /\ c \in Nat /\ a - b \in Nat /\ Start(j) = a - b - c /\ Start(j) \in Nat
      BY <1>0, StreamLengths DEF Start
    <3>3. s \in Seq(Bytes) /\ r \in Seq(Bytes) /\ Run(s, j, 0) /\ Run(r, j, a - b)
      BY <1>0, StreamTypes DEF Streams
    <3>4. <<j, a + 1>> \in Bytes
      <4>1. a < MaxUp[j]
        BY <1>13, <2>4 DEF ClientWrite
      <4>2. MaxUp[j] \in Nat
        BY TunnelConstants
      <4> HIDE DEF a
      <4>3. a + 1 \in 1..MaxUp[j]
        BY <3>2, <4>1, <4>2
      <4> QED
        BY <4>3, BytesOf
    <3>5. 0 + Len(s) + 1 = a + 1 /\ (a - b) + Len(r) + 1 = a + 1 /\ Len(r) = b /\ Len(s) = a
      <4>1. Len(s) = a /\ Len(r) = b
        OBVIOUS
      <4> HIDE DEF a, b, s, r
      <4> QED
        BY <4>1, <3>2
    <3> HIDE DEF a, b, c, s, r
    <3>6. Run(Append(s, <<j, 0 + Len(s) + 1>>), j, 0)
      BY <3>3, <3>4, <3>5, RunAppend
    <3>7. Run(Append(r, <<j, (a - b) + Len(r) + 1>>), j, a - b)
      BY <3>2, <3>3, <3>4, <3>5, RunAppend
    <3>8. Len(sentUp'[j]) = a + 1 /\ Len(inSock'[j]) = b + 1 /\ Len(chunk'[j]) = c
      BY <2>1, <3>1, <3>3, <3>5 DEF c
    <3>9. Start(j)' = (a + 1) - (b + 1) - c
      BY <3>8 DEF Start
    <3>10. Start(j)' = Start(j)
      BY <3>2, <3>9
    <3>11. Run(inSock'[j], j, Len(sentUp'[j]) - Len(inSock'[j]))
      <4>1. Len(sentUp'[j]) - Len(inSock'[j]) = a - b
        BY <3>2, <3>8
      <4> QED
        BY <3>1, <3>5, <3>7, <4>1
    <3>12. Run(sentUp'[j], j, 0)
      BY <3>1, <3>6
    <3>13. Relayed(j)' = Relayed(j) /\ (Registered(j)' <=> Registered(j))
      BY <1>1, <2>1
    <3>14. Len(Relayed(j)) \in Nat /\ Len(Relayed(j)) <= a /\ Len(Relayed(j)) <= Len(sentUp'[j])
      <4>1. Len(Relayed(j)) \in Nat /\ Len(Relayed(j)) <= a
        BY <1>0, StreamLengths DEF Streams, a
      <4> QED
        BY <3>2, <3>8, <4>1
    <3>15. Start(j)' >= 0 /\ Run(chunk'[j], j, Start(j)')
      BY <1>0, <2>1, <3>10 DEF Streams
    <3>16. ~Registered(j)' => Start(j)' = 0 /\ sentDown'[j] = <<>>
      BY <1>0, <2>1, <3>10, <3>13 DEF Streams
    <3>17. /\ Run(sentDown'[j], j, 0) /\ Run(Relayed(j)', j, 0) /\ Run(Written(j)', j, 0)
           /\ Len(Relayed(j)') <= Len(sentUp'[j]) /\ Len(Written(j)') <= Len(sentDown'[j])
      BY <1>0, <2>1, <2>2, <3>13, <3>14 DEF Streams
    <3> QED
      BY <3>11, <3>12, <3>15, <3>16, <3>17 DEF Streams
  <2> QED
    BY <2>3, <2>4
<1>14. CASE HandleData
  <2>1. Steady /\ UNCHANGED <<sentUp, sentDown, inSock, chunk>>
    BY <1>2, <1>14 DEF HandleData, pumpVars, relayVars, streamVars
  <2>2. PICK k \in Clients :
           /\ Head(downWire).data \in Seq(Bytes)
           /\ \A i \in Clients \ {k} : Written(i)' = Written(i)
           /\ k \in ended \cup hungUp => Written(k)' = Written(k)
           /\ k \notin ended \cup hungUp =>
                /\ Written(k)' = Written(k) \o Head(downWire).data
                /\ Run(Head(downWire).data, k, Len(Written(k)))
                /\ Len(Written(k)) + Len(Head(downWire).data) <= Len(sentDown[k])
    BY <1>14, Delivered
  <2>3. CASE Written(j)' = Written(j)
    BY <1>0, <1>1, <2>1, <2>3, StreamsSame
  <2>4. CASE Written(j)' # Written(j)
    <3> DEFINE d == Head(downWire).data
    <3>1. /\ j = k /\ k \notin ended \cup hungUp
      BY <2>2, <2>4
    <3>2. /\ Written(j)' = Written(j) \o d /\ Run(d, j, Len(Written(j))) /\ d \in Seq(Bytes)
          /\ Len(Written(j)) + Len(d) <= Len(sentDown[j])
      BY <2>2, <3>1
    <3>3. /\ Written(j) \in Seq(Bytes) /\ Len(Written(j)) \in Nat
          /\ Run(Written(j), j, 0)
      BY <1>0, StreamLengths, StreamTypes DEF Streams
    <3> DEFINE w == Written(j)
    <3> HIDE DEF d, w
    <3>4. 0 + Len(w) = Len(w) /\ w \in Seq(Bytes) /\ Run(w, j, 0) /\ Run(d, j, Len(w))
          /\ d \in Seq(Bytes) /\ Len(w) + Len(d) <= Len(sentDown[j])
      BY <3>2, <3>3 DEF w
    <3>5. Run(w \o d, j, 0) /\ Len(w \o d) = Len(w) + Len(d)
      BY <3>4, RunConcat
    <3>6. Run(Written(j)', j, 0) /\ Len(Written(j)') <= Len(sentDown'[j])
      BY <2>1, <3>2, <3>4, <3>5 DEF w
    <3>7. Relayed(j)' = Relayed(j) /\ (Registered(j)' <=> Registered(j)) /\ Start(j)' = Start(j)
      BY <1>1, <2>1 DEF Start
    <3> QED
      BY <1>0, <2>1, <3>6, <3>7 DEF Streams
  <2> QED
    BY <2>3, <2>4
<1>15. CASE RelayReceive
  <2>1. UNCHANGED <<sentUp, sentDown, inSock, chunk, gotDown, outSock, pc>>
    BY <1>15 DEF RelayReceive, pumpVars, sockVars, streamVars
  <2>2. PICK k \in Clients :
           /\ Head(upWire).data \in Seq(Bytes)
           /\ Relayed(k)' = Relayed(k) \o Head(upWire).data
           /\ \A i \in Clients \ {k} : Relayed(i)' = Relayed(i)
           /\ Run(Head(upWire).data, k, Len(Relayed(k)))
           /\ Len(Relayed(k)) + Len(Head(upWire).data) <= Start(k)
    BY <1>15, Received
  <2>3. Written(j)' = Written(j) /\ Start(j)' = Start(j) /\ (Registered(j)' <=> Registered(j))
    BY <2>1 DEF Written, Start, Registered
  <2>4. CASE j # k
    BY <1>0, <2>1, <2>2, <2>3, <2>4, StreamsSame
  <2>5. CASE j = k
    <3> DEFINE d == Head(upWire).data
               w == Relayed(j)
    <3>1. /\ Relayed(j)' = w \o d /\ d \in Seq(Bytes) /\ Run(d, j, Len(w))
          /\ Len(w) + Len(d) <= Start(j)
      BY <2>2, <2>5
    <3>2. w \in Seq(Bytes) /\ Len(w) \in Nat /\ Run(w, j, 0)
      BY <1>0, StreamLengths, StreamTypes DEF Streams
    <3> HIDE DEF d, w
    <3>3. 0 + Len(w) = Len(w) /\ Len(w \o d) = Len(w) + Len(d) /\ Len(d) \in Nat
      BY <3>1, <3>2
    <3>4. Run(w \o d, j, 0)
      BY <3>1, <3>2, <3>3, RunConcat
    <3>5. Start(j) <= Len(sentUp[j]) /\ Start(j) \in Nat /\ Len(sentUp[j]) \in Nat
      <4> DEFINE a == Len(sentUp[j])
                 b == Len(inSock[j])
                 c == Len(chunk[j])
      <4>1. a \in Nat /\ b \in Nat /\ c \in Nat /\ Start(j) \in Nat /\ Start(j) = a - b - c
        BY <1>0, StreamLengths DEF Start
      <4> HIDE DEF a, b, c
      <4>2. Start(j) <= a
        BY <4>1
      <4> QED
        BY <4>1, <4>2 DEF a
    <3>6. Run(Relayed(j)', j, 0) /\ Len(Relayed(j)') <= Len(sentUp'[j])
      BY <2>1, <3>1, <3>2, <3>3, <3>4, <3>5
    <3> QED
      BY <1>0, <2>1, <2>3, <3>6 DEF Streams
  <2> QED
    BY <2>4, <2>5
<1>16. ASSUME NEW id \in ConnIDs, RelayAnswer(id) PROVE Streams(j)'
  <2>1. Steady /\ UNCHANGED <<sentUp, inSock, chunk, gotDown, outSock>>
    BY <1>2, <1>16 DEF RelayAnswer, pumpVars, sockVars, relayVars
  <2>2. Written(j)' = Written(j) /\ Relayed(j)' = Relayed(j) /\ Start(j)' = Start(j)
    BY <1>1, <2>1 DEF Written, Start
  <2> DEFINE k == Asker(id)
  <2>3. k \in Clients /\ Registered(k)
    BY <1>16, Answered DEF Present
  <2>4. <<k, Len(sentDown[k]) + 1>> \in Bytes
    BY <1>0, <1>16, AnswerByte DEF Framed
  <2>5. sentDown' = [sentDown EXCEPT ![k] = Append(@, <<k, Len(sentDown[k]) + 1>>)]
    BY <1>16 DEF RelayAnswer
  <2> HIDE DEF k
  <2>6. CASE j # k
    BY <1>0, <2>1, <2>2, <2>3, <2>5, <2>6, StreamsSame DEF TypeOK
  <2>7. CASE j = k
    <3> DEFINE s == sentDown[j]
    <3>1. /\ s \in Seq(Bytes) /\ Len(s) \in Nat /\ Run(s, j, 0)
          /\ Len(Written(j)) \in Nat /\ Len(Written(j)) <= Len(s)
      BY <1>0, StreamLengths, StreamTypes DEF Streams
    <3>2. sentDown'[j] = Append(s, <<j, Len(s) + 1>>) /\ <<j, Len(s) + 1>> \in Bytes
      BY <1>0, <2>4, <2>5, <2>7 DEF TypeOK
    <3> HIDE DEF s
    <3>3. 0 + Len(s) + 1 = Len(s) + 1
      BY <3>1
    <3>4. Run(sentDown'[j], j, 0) /\ Len(sentDown'[j]) = Len(s) + 1
      BY <3>1, <3>2, <3>3, RunAppend
    <3>5. Len(Written(j)') <= Len(sentDown'[j])
      BY <2>2, <3>1, <3>4
    <3>6. Registered(j)'
      BY <2>1, <2>3, <2>7
    <3> QED
      BY <1>0, <2>1, <2>2, <3>4, <3>5, <3>6 DEF Streams
  <2> QED
    BY <2>6, <2>7
<1> HIDE DEF Quiet, Steady
<1> QED
  BY <1>4, <1>5, <1>6, <1>7, <1>8, <1>9, <1>10, <1>11, <1>12, <1>13, <1>14, <1>15, <1>16
     DEF Next, ReadLoop, Relay, Pump, Client

\* Every step keeps the frames on their way up in order.
LEMMA UpFlowStep ==
  ASSUME FineGrainedClock, ConnInv, Findable, Flows, [Next]_vars, NEW j \in Clients
  PROVE  UpFlow(j)'
<1>0. TypeOK /\ Named /\ Framed /\ Streams(j) /\ UpFlow(j)
  BY DEF ConnInv, Flows
<1> SUFFICES ASSUME Present(j)', wire' = "up"
             PROVE  Flow(upWire', connID'[j], j, Len(relayGot'[connID'[j]]), Start(j)')
  BY DEF UpFlow
<1>1. ASSUME Present(j), wire = "up", connID'[j] = connID[j], upWire' = upWire,
             relayGot' = relayGot, Start(j)' = Start(j)
      PROVE  Flow(upWire', connID'[j], j, Len(relayGot'[connID'[j]]), Start(j)')
  BY <1>0, <1>1 DEF UpFlow
<1> DEFINE Still == UNCHANGED <<session, wire, pc, owner, connID, upWire, relayGot>>
<1>2. ASSUME Still, Start(j)' = Start(j)
      PROVE  Flow(upWire', connID'[j], j, Len(relayGot'[connID'[j]]), Start(j)')
  <2>1. Present(j) /\ wire = "up"
    BY <1>2 DEF Present, Registered
  <2> QED
    BY <1>1, <1>2, <2>1
<1>3. ASSUME UNCHANGED <<sentUp, inSock, chunk>> PROVE Start(j)' = Start(j)
  BY <1>3 DEF Start
<1>4. CASE HandleClose \/ HandleData \/ UNCHANGED vars
  <2>1. Still /\ UNCHANGED <<sentUp, inSock, chunk>>
    BY <1>4 DEF HandleClose, HandleData, vars, serverVars, pumpVars, sockVars, relayVars, streamVars,
                frameVars
  <2> QED
    BY <1>2, <1>3, <2>1
<1>5. ASSUME NEW s \in Sessions, Listen(s) \/ CloseListener(s) PROVE Still /\ Start(j)' = Start(j)
  BY <1>3, <1>5 DEF Listen, CloseListener, pumpVars, sockVars, streamVars, relayVars, frameVars
<1>6. ASSUME NEW id \in ConnIDs, RelayAnswer(id) \/ RelayClose(id) PROVE Still /\ Start(j)' = Start(j)
  BY <1>3, <1>6 DEF RelayAnswer, RelayClose, serverVars, pumpVars, sockVars, streamVars, relayVars
<1>7. ASSUME NEW k \in Clients, ClientClose(k) \/ ClientRead(k) PROVE Still /\ Start(j)' = Start(j)
  BY <1>3, <1>7 DEF ClientClose, ClientRead, serverVars, pumpVars, streamVars, relayVars, frameVars
<1>8. ASSUME NEW k \in Clients, ClientWrite(k) PROVE Still /\ Start(j)' = Start(j)
  <2>1. Still
    BY <1>8 DEF ClientWrite, serverVars, pumpVars, relayVars, frameVars
  <2>2. CASE j # k
    <3>1. sentUp'[j] = sentUp[j] /\ inSock'[j] = inSock[j] /\ chunk'[j] = chunk[j]
      BY <1>0, <1>8, <2>2 DEF ClientWrite, TypeOK, pumpVars
    <3> QED
      BY <2>1, <3>1 DEF Start
  <2>3. CASE j = k
    <3> DEFINE a == Len(sentUp[j])
               b == Len(inSock[j])
               c == Len(chunk[j])
    <3>1. a \in Nat /\ b \in Nat /\ c \in Nat /\ Start(j) = a - b - c
      BY <1>0, StreamLengths DEF Start
    <3>2. Len(sentUp'[j]) = a + 1 /\ Len(inSock'[j]) = b + 1 /\ Len(chunk'[j]) = c
      <4>1. sentUp[j] \in Seq(Bytes) /\ inSock[j] \in Seq(Bytes)
        BY <1>0, StreamTypes
      <4>2. /\ sentUp'[j] = Append(sentUp[j], <<j, Len(sentUp[j]) + 1>>)
            /\ inSock'[j] = Append(inSock[j], <<j, Len(sentUp[j]) + 1>>)
            /\ chunk'[j] = chunk[j]
        BY <1>0, <1>8, <2>3 DEF ClientWrite, TypeOK, pumpVars
      <4> QED
        BY <4>1, <4>2
    <3> HIDE DEF a, b, c
    <3>3. Start(j)' = (a + 1) - (b + 1) - c
      BY <3>2 DEF Start
    <3> QED
      BY <2>1, <3>1, <3>3
  <2> QED
    BY <2>2, <2>3
<1>9. CASE Connect
  <2>1. owner'[j] = owner[j] /\ owner[j] <= session /\ session' = session + 1
        /\ owner[j] \in Nat /\ session \in Nat
    BY <1>0, <1>9, TunnelConstants DEF Connect, Named, TypeOK, pumpVars
  <2>2. owner'[j] # session'
    BY <2>1
  <2> QED
    BY <2>2 DEF Present
<1>10. CASE Break \/ Disconnect
  BY <1>10 DEF Break, Disconnect
<1>11. ASSUME NEW k \in Clients,
             Accept(k) \/ ReadCounter(k) \/ ReadError(k) \/ Remove(k)
       PROVE  Flow(upWire', connID'[j], j, Len(relayGot'[connID'[j]]), Start(j)')
  <2>1. UNCHANGED <<session, wire, upWire, relayGot, sentUp, inSock, chunk>>
    BY <1>11 DEF Accept, ReadCounter, ReadError, Remove, serverVars, frameVars, sockVars, relayVars, streamVars
  <2>2. Registered(j)' <=> Registered(j)
    BY <1>0, <1>11 DEF Accept, ReadCounter, ReadError, Remove, Registered, TypeOK
  <2>3. Registered(j) => owner'[j] = owner[j] /\ connID'[j] = connID[j]
    BY <1>0, <1>11 DEF Accept, ReadCounter, ReadError, Remove, Registered, TypeOK
  <2> QED
    BY <1>1, <1>3, <2>1, <2>2, <2>3 DEF Present
<1>12. ASSUME NEW k \in Clients, Register(k)
       PROVE  Flow(upWire', connID'[j], j, Len(relayGot'[connID'[j]]), Start(j)')
  <2>1. UNCHANGED <<session, wire, upWire, relayGot, sentUp, inSock, chunk, owner, connID>>
    BY <1>12 DEF Register, serverVars, frameVars, sockVars, relayVars, streamVars
  <2>2. Start(j)' = Start(j)
    BY <1>3, <2>1
  <2>3. CASE j # k
    <3>1. pc'[j] = pc[j]
      BY <1>0, <1>12, <2>3 DEF Register, TypeOK
    <3> QED
      BY <1>1, <2>1, <2>2, <3>1 DEF Present, Registered
  <2>4. CASE j = k
    <3>1. pc[j] = "counting" /\ ~Registered(j)
      BY <1>12, <2>4 DEF Register, Registered
    <3>2. Start(j) = 0
      BY <1>0, <3>1 DEF Streams
    <3>3. /\ Len(relayGot[connID[j]]) = 0 /\ upWire \in Seq(Frame)
          /\ \A i \in 1..Len(upWire) : upWire[i].id # connID[j]
      BY <1>0, <3>1, Unheard DEF TypeOK
    <3>4. Flow(upWire, connID[j], j, 0, 0)
      BY <3>3, FlowNone
    <3> QED
      BY <2>1, <2>2, <3>2, <3>3, <3>4
  <2> QED
    BY <2>3, <2>4
<1>13. ASSUME NEW k \in Clients, ReadChunk(k)
       PROVE  Flow(upWire', connID'[j], j, Len(relayGot'[connID'[j]]), Start(j)')
  <2>1. UNCHANGED <<session, wire, upWire, relayGot, sentUp, owner, connID>>
    BY <1>13 DEF ReadChunk, serverVars, frameVars, relayVars, streamVars
  <2>2. Registered(j)' <=> Registered(j)
    BY <1>0, <1>13 DEF ReadChunk, Registered, TypeOK
  <2>3. Start(j)' = Start(j)
    <3>1. PICK n \in 1..Len(inSock[k]) :
          /\ chunk' = [chunk EXCEPT ![k] = SubSeq(inSock[k], 1, n)]
          /\ inSock' = [inSock EXCEPT ![k] = SubSeq(@, Len(SubSeq(inSock[k], 1, n)) + 1, Len(@))]
      BY <1>13 DEF ReadChunk, Prefixes
    <3>2. CASE j # k
      <4>1. inSock'[j] = inSock[j] /\ chunk'[j] = chunk[j]
        BY <1>0, <3>1, <3>2 DEF TypeOK
      <4> QED
        BY <2>1, <4>1 DEF Start
    <3>3. CASE j = k
      <4> DEFINE a == Len(sentUp[j])
                 b == Len(inSock[j])
      <4>1. chunk[j] = <<>> /\ Len(chunk[j]) = 0
        BY <1>0, <1>13, <3>3 DEF ReadChunk, Framed, Chunked
      <4>2. a \in Nat /\ b \in Nat /\ Start(j) = a - b - 0
        BY <1>0, <4>1, StreamLengths DEF Start
      <4>3. inSock[j] \in Seq(Bytes)
        BY <1>0, StreamTypes
      <4>4. /\ Len(SubSeq(inSock[j], 1, n)) = n /\ n \in Nat
            /\ Len(SubSeq(inSock[j], n + 1, Len(inSock[j]))) = Len(inSock[j]) - n
        BY <3>1, <3>3, <4>3
      <4>5. Len(chunk'[j]) = n /\ Len(inSock'[j]) = b - n
        BY <1>0, <3>1, <3>3, <4>4 DEF TypeOK
      <4> HIDE DEF a, b
      <4>6. Start(j)' = a - (b - n) - n
        BY <2>1, <4>5 DEF Start, a
      <4> QED
        BY <4>2, <4>4, <4>6
    <3> QED
      BY <3>2, <3>3
  <2> QED
    BY <1>1, <2>1, <2>2, <2>3 DEF Present
<1>14. ASSUME NEW k \in Clients, SendChunk(k) \/ SendClose(k)
       PROVE  Flow(upWire', connID'[j], j, Len(relayGot'[connID'[j]]), Start(j)')
  <2>1. UNCHANGED <<session, wire, relayGot, sentUp, inSock, owner, connID>>
    BY <1>14 DEF SendChunk, SendClose, serverVars, sockVars, relayVars, streamVars
  <2>2. Registered(j)' <=> Registered(j)
    BY <1>0, <1>14 DEF SendChunk, SendClose, Registered, TypeOK
  <2>3. Present(j) /\ wire = "up" /\ pc[j] \notin {"outside", "accepted"}
    BY <2>1, <2>2 DEF Present, Registered
  <2> DEFINE id == connID[j]
             a == Len(relayGot[id])
             b == Start(j)
  <2>4. Flow(upWire, id, j, a, b) /\ upWire \in Seq(Frame)
    BY <1>0, <2>3 DEF UpFlow, TypeOK
  <2>5. a \in Nat /\ b \in Nat
    <3>1. relayGot[id] = Relayed(j)
      BY <1>0, <2>3, StreamTypes DEF Present
    <3> QED
      BY <1>0, <3>1, StreamLengths
  <2>6. PICK c \in BOOLEAN :
          /\ (c <=> SendClose(k))
          /\ ~c => SendChunk(k)
    BY <1>14
  <2> DEFINE d == IF c THEN <<>> ELSE chunk[k]
             f == [id |-> connID[k], data |-> d, close |-> c]
  <2>7. d \in Seq(Bytes) /\ f \in Frame /\ f.id = connID[k] /\ f.data = d
    <3>1. <<>> \in Seq(Bytes) /\ chunk[k] \in Seq(Bytes)
      BY <1>0, StreamTypes
    <3>2. connID[k] \in ConnIDs
      BY <1>0, <1>14 DEF SendChunk, SendClose, Named
    <3> QED
      BY <3>1, <3>2 DEF Frame
  <2>8. chunk' = [chunk EXCEPT ![k] = IF c THEN @ ELSE <<>>]
    <3>1. CASE c
      BY <1>0, <2>6, <3>1 DEF SendClose, TypeOK
    <3>2. CASE ~c
      BY <2>6, <3>2 DEF SendChunk
    <3> QED
      BY <3>1, <3>2
  <2>9. \/ upWire' = Append(upWire, f)
        \/ upWire' = upWire /\ (Stopped(owner[k]) \/ wire = "broken")
    <3>1. CASE c
      BY <2>6, <3>1 DEF SendClose, Sent, SendError
    <3>2. CASE ~c
      BY <2>6, <3>2 DEF SendChunk, Sent, SendError
    <3> QED
      BY <3>1, <3>2
  <2> HIDE DEF d, f
  <2>10. CASE j # k
    <3>1. connID[k] # id
      <4>1. pc[k] \notin {"outside", "accepted"}
        BY <1>14 DEF SendChunk, SendClose
      <4> QED
        BY <2>3, <2>10, <4>1, OneConnectionPerID DEF ConnInv
    <3>2. chunk'[j] = chunk[j]
      BY <1>0, <2>8, <2>10 DEF TypeOK
    <3>3. Start(j)' = b
      BY <2>1, <3>2 DEF Start
    <3>4. Flow(upWire', id, j, a, b)
      <4> HIDE DEF id, a, b
      <4>1. CASE upWire' = upWire
        BY <2>4, <4>1
      <4>2. CASE upWire' = Append(upWire, f)
        BY <2>4, <2>5, <2>7, <3>1, <4>2, FlowAppendOther
      <4> QED
        BY <2>9, <4>1, <4>2
    <3> QED
      BY <2>1, <3>3, <3>4
  <2>11. CASE j = k
    <3>1. upWire' = Append(upWire, f)
      <4>1. owner[k] = session /\ session \in Nat
        BY <1>0, <2>3, <2>11 DEF Present, TypeOK
      <4>2. ~Stopped(owner[k])
        BY <2>3, <4>1 DEF Stopped
      <4> QED
        BY <2>3, <2>9, <4>2
    <3>2. Run(d, j, b)
      <4>1. CASE c
        BY <4>1, NoBytes DEF d
      <4>2. CASE ~c
        BY <1>0, <2>11, <4>2 DEF Streams, d
      <4> QED
        BY <4>1, <4>2
    <3>3. Flow(Append(upWire, f), id, j, a, b + Len(f.data))
      <4>1. f.id = id /\ Len(f.data) \in Nat /\ Run(f.data, j, b)
        BY <2>7, <2>11, <3>2
      <4> HIDE DEF id, a, b
      <4> QED
        BY <2>4, <2>5, <2>7, <4>1, FlowAppendMine
    <3>4. Start(j)' = b + Len(f.data)
      <4> DEFINE x == Len(sentUp[j])
                 y == Len(inSock[j])
                 z == Len(chunk[j])
      <4>1. x \in Nat /\ y \in Nat /\ z \in Nat /\ b = x - y - z
        BY <1>0, StreamLengths DEF Start
      <4>2. Start(j)' = x - y - Len(chunk'[j])
        BY <2>1 DEF Start
      <4>3. CASE c
        <5>1. chunk'[j] = chunk[j] /\ Len(f.data) = 0
          BY <1>0, <2>7, <2>8, <2>11, <4>3 DEF TypeOK, d
        <5>2. Start(j)' = x - y - z
          BY <4>2, <5>1
        <5> HIDE DEF b, x, y, z
        <5> QED
          BY <4>1, <5>1, <5>2
      <4>4. CASE ~c
        <5>1. Len(chunk'[j]) = 0 /\ Len(f.data) = z
          BY <1>0, <2>7, <2>8, <2>11, <4>4 DEF TypeOK, d
        <5>2. Start(j)' = x - y - 0
          BY <4>2, <5>1
        <5> HIDE DEF b, x, y, z
        <5> QED
          BY <4>1, <5>1, <5>2
      <4> QED
        BY <4>3, <4>4
    <3> QED
      BY <2>1, <3>1, <3>3, <3>4
  <2> QED
    BY <2>10, <2>11
<1>15. CASE RelayReceive
  <2>1. UNCHANGED <<session, wire, pc, owner, connID, sentUp, inSock, chunk>> /\ upWire' = Tail(upWire)
        /\ upWire # <<>>
    BY <1>15 DEF RelayReceive, serverVars, pumpVars, sockVars, streamVars
  <2>2. Present(j) /\ wire = "up" /\ Registered(j) /\ Registered(j)'
    BY <2>1 DEF Present, Registered
  <2>3. relayGot'[connID'[j]] = Relayed(j)' /\ relayGot[connID[j]] = Relayed(j)
    BY <2>2 DEF Relayed, Registered
  <2>4. PICK k \in Clients :
           /\ Head(upWire).id = connID[k] /\ Head(upWire).data \in Seq(Bytes)
           /\ Relayed(k)' = Relayed(k) \o Head(upWire).data
           /\ \A i \in Clients \ {k} : Relayed(i)' = Relayed(i) /\ (Registered(i) => connID[i] # connID[k])
           /\ Flow(Tail(upWire), connID[k], k, Len(Relayed(k)) + Len(Head(upWire).data), Start(k))
    BY <1>15, Received
  <2>5. Start(j)' = Start(j)
    BY <1>3, <2>1
  <2> SUFFICES Flow(Tail(upWire), connID[j], j, Len(Relayed(j)'), Start(j))
    BY <2>1, <2>3, <2>5
  <2>6. CASE j = k
    <3>1. Len(Relayed(j)') = Len(Relayed(j)) + Len(Head(upWire).data)
      BY <1>0, <2>4, <2>6, StreamTypes
    <3> QED
      BY <2>4, <2>6, <3>1
  <2>7. CASE j # k
    <3>1. Head(upWire).id # connID[j] /\ Relayed(j)' = Relayed(j) /\ Len(Head(upWire).data) \in Nat
      BY <2>2, <2>4, <2>7
    <3>2. Flow(upWire, connID[j], j, Len(Relayed(j)), Start(j))
      BY <1>0, <2>2, <2>3 DEF UpFlow
    <3>3. upWire \in Seq(Frame) /\ Len(Relayed(j)) \in Nat /\ Start(j) \in Nat
      BY <1>0, StreamLengths DEF TypeOK
    <3>4. Flow(Tail(upWire), connID[j], j, Len(Relayed(j)), Start(j))
      BY <2>1, <3>1, <3>2, <3>3, FlowTail
    <3> QED
      BY <3>1, <3>4
  <2> QED
    BY <2>6, <2>7
<1> HIDE DEF Still
<1> QED
  BY <1>2, <1>4, <1>5, <1>6, <1>7, <1>8, <1>9, <1>10, <1>11, <1>12, <1>13, <1>14, <1>15
     DEF Next, ReadLoop, Relay, Pump, Client

\* Every step keeps the frames on their way down in order.
LEMMA DownFlowStep ==
  ASSUME FineGrainedClock, ConnInv, Findable, Flows, [Next]_vars, NEW j \in Clients
  PROVE  DownFlow(j)'
<1>0. TypeOK /\ Named /\ Framed /\ Streams(j) /\ DownFlow(j)
  BY DEF ConnInv, Flows
<1> DEFINE Goal == \E lost \in Seq(Frame) :
                     /\ wire' = "up" => lost = <<>>
                     /\ Flow(downWire' \o lost, connID'[j], j, Len(Written(j)'), Len(sentDown'[j]))
<1> SUFFICES ASSUME Registered(j)', owner'[j] = session', j \notin ended' \cup hungUp'
             PROVE  Goal
  BY DEF DownFlow, Present
<1>1. ASSUME Registered(j), owner'[j] = owner[j], session' = session, wire' = "up" => wire = "up",
             ended \subseteq ended', hungUp \subseteq hungUp', connID'[j] = connID[j],
             downWire' = downWire, Written(j)' = Written(j), sentDown'[j] = sentDown[j]
      PROVE  Goal
  BY <1>0, <1>1 DEF DownFlow, Present
<1> DEFINE Still == /\ UNCHANGED <<session, owner, pc, connID, downWire, sentDown, outSock, gotDown>>
                    /\ wire' = "up" => wire = "up"
                    /\ ended \subseteq ended' /\ hungUp \subseteq hungUp'
<1>2. ASSUME Still PROVE Goal
  <2>1. Registered(j) /\ Written(j)' = Written(j)
    BY <1>2 DEF Registered, Written
  <2> QED
    BY <1>1, <1>2, <2>1
<1>3. CASE Disconnect \/ RelayReceive \/ UNCHANGED vars
  <2>1. Still
    BY <1>3 DEF Disconnect, RelayReceive, vars, serverVars, pumpVars, sockVars, streamVars, frameVars
  <2> QED
    BY <1>2, <2>1
<1>12. CASE Connect
  <2>1. session' = session + 1 /\ owner' = owner
    BY <1>12 DEF Connect, pumpVars
  <2>2. owner[j] <= session /\ owner[j] \in Nat /\ session \in Nat
    BY <1>0 DEF Named, TypeOK
  <2> QED
    BY <2>1, <2>2
<1>13. CASE Break
  <2>1. UNCHANGED <<session, owner, pc, connID, sentDown, gotDown, outSock, hungUp, ended>>
    BY <1>13 DEF Break, pumpVars, sockVars, streamVars
  <2>2. Written(j)' = Written(j) /\ Present(j) /\ j \notin ended \cup hungUp /\ wire' = "broken"
    BY <1>13, <2>1 DEF Break, Written, Registered, Present
  <2>3. PICK n \in 0..Len(downWire) : downWire' = SubSeq(downWire, 1, n)
    BY <1>13 DEF Break
  <2>4. PICK lost \in Seq(Frame) :
          Flow(downWire \o lost, connID[j], j, Len(Written(j)), Len(sentDown[j]))
    BY <1>0, <2>2 DEF DownFlow
  <2> HIDE DEF Goal, Still
  <2>5. PICK more \in Seq(Frame) : downWire' \o more = downWire \o lost
    <3>1. downWire \in Seq(Frame)
      BY <1>0 DEF TypeOK
    <3>2. \A w, v \in Seq(Frame) : \A m \in 0..Len(w) :
            \E r \in Seq(Frame) : SubSeq(w, 1, m) \o r = w \o v
      BY CutWhole
    <3> QED
      BY <2>3, <3>1, <3>2
  <2> QED
    BY <2>1, <2>2, <2>4, <2>5 DEF Goal
<1>4. ASSUME NEW s \in Sessions, Listen(s) \/ CloseListener(s) PROVE Still
  BY <1>4 DEF Listen, CloseListener, pumpVars, sockVars, streamVars, frameVars
<1>5. ASSUME NEW k \in Clients, ClientClose(k) \/ ClientWrite(k) PROVE Still
  BY <1>5 DEF ClientClose, ClientWrite, serverVars, pumpVars, streamVars, frameVars
<1>6. ASSUME NEW k \in Clients,
             \/ Accept(k) \/ ReadCounter(k) \/ ReadChunk(k) \/ ReadError(k)
             \/ SendChunk(k) \/ SendClose(k) \/ Remove(k)
       PROVE  Goal
  <2>1. UNCHANGED <<session, wire, downWire, sentDown, gotDown, outSock, hungUp>> /\ ended \subseteq ended'
    BY <1>6 DEF Accept, ReadCounter, ReadChunk, ReadError, SendChunk, SendClose, Remove,
                serverVars, frameVars, sockVars, streamVars
  <2>2. Registered(j)' <=> Registered(j)
    BY <1>0, <1>6 DEF Accept, ReadCounter, ReadChunk, ReadError, SendChunk, SendClose, Remove,
                Registered, TypeOK
  <2>3. Registered(j) => connID'[j] = connID[j] /\ owner'[j] = owner[j]
    BY <1>0, <1>6 DEF Accept, ReadCounter, ReadChunk, ReadError, SendChunk, SendClose, Remove,
                Registered, TypeOK
  <2>4. Written(j)' = Written(j)
    BY <2>1 DEF Written
  <2> QED
    BY <1>1, <2>1, <2>2, <2>3, <2>4
<1>7. ASSUME NEW k \in Clients, ClientRead(k) PROVE Goal
  <2>1. UNCHANGED <<session, wire, owner, pc, connID, downWire, sentDown, ended, hungUp>>
    BY <1>7 DEF ClientRead, serverVars, pumpVars, frameVars
  <2>2. Written(j)' = Written(j)
    <3>1. gotDown[k] \in Seq(Bytes) /\ outSock[k] \in Seq(Bytes)
      BY <1>0 DEF TypeOK
    <3>2. (gotDown[k] \o outSock[k]) \o <<>> = gotDown[k] \o outSock[k]
      BY <3>1
    <3>3. CASE j = k
      BY <1>0, <1>7, <3>2, <3>3 DEF ClientRead, Written, TypeOK
    <3>4. CASE j # k
      BY <1>0, <1>7, <3>4 DEF ClientRead, Written, TypeOK
    <3> QED
      BY <3>3, <3>4
  <2>3. Registered(j)
    BY <2>1 DEF Registered
  <2> QED
    BY <1>1, <2>1, <2>2, <2>3
<1>8. ASSUME NEW k \in Clients, Register(k) PROVE Goal
  <2>1. UNCHANGED <<session, wire, owner, downWire, sentDown, gotDown, outSock, connID, ended, hungUp>>
    BY <1>8 DEF Register, serverVars, frameVars, sockVars, streamVars
  <2>2. Written(j)' = Written(j)
    BY <2>1 DEF Written
  <2>3. CASE j # k
    <3>1. pc'[j] = pc[j]
      BY <1>0, <1>8, <2>3 DEF Register, TypeOK
    <3>2. Registered(j)
      BY <3>1 DEF Registered
    <3> QED
      BY <1>1, <2>1, <2>2, <3>2
  <2>4. CASE j = k
    <3>1. pc[j] = "counting" /\ ~Registered(j)
      BY <1>8, <2>4 DEF Register, Registered
    <3>2. Len(sentDown[j]) = 0 /\ Len(Written(j)) = 0
      <4>1. sentDown[j] = <<>> /\ Len(Written(j)) <= Len(sentDown[j]) /\ Len(Written(j)) \in Nat
        BY <1>0, <3>1, StreamLengths DEF Streams
      <4> QED
        BY <4>1
    <3>3. downWire \in Seq(Frame) /\ \A i \in 1..Len(downWire) : downWire[i].id # connID[j]
      BY <1>0, <3>1, Unheard DEF TypeOK
    <3>4. Flow(downWire, connID[j], j, 0, 0) /\ downWire \o <<>> = downWire /\ <<>> \in Seq(Frame)
      BY <3>3, FlowNone
    <3> QED
      BY <2>1, <2>2, <3>2, <3>4
  <2> QED
    BY <2>3, <2>4
<1>9. CASE HandleClose
  <2>1. /\ UNCHANGED <<session, wire, owner, pc, connID, sentDown, gotDown, outSock, hungUp>>
        /\ downWire # <<>> /\ downWire' = Tail(downWire)
        /\ ended' = ended \cup {e.client : e \in Entries(Head(downWire).id)}
    BY <1>9 DEF HandleClose, serverVars, streamVars
  <2>2. Written(j)' = Written(j) /\ Registered(j) /\ Present(j) /\ j \notin ended \cup hungUp
    BY <2>1 DEF Written, Registered, Present
  <2>3. PICK k \in Clients : /\ Present(k) /\ Head(downWire).id = connID[k]
                             /\ {e.client : e \in Entries(Head(downWire).id)} = {k} \ ended
    BY <2>1, Targets
  <2>4. j # k
    BY <2>1, <2>2, <2>3
  <2>5. Head(downWire).id # connID[j]
    BY <2>2, <2>3, <2>4, OneConnectionPerID DEF ConnInv, Registered, Present
  <2>6. /\ downWire \in Seq(Frame) /\ Len(Written(j)) \in Nat /\ Len(sentDown[j]) \in Nat
        /\ Len(Head(downWire).data) \in Nat
    <3>1. downWire \in Seq(Frame) /\ Head(downWire) \in Frame
      BY <1>0, <2>1, HeadTail DEF TypeOK
    <3> QED
      BY <1>0, <3>1, StreamLengths DEF Frame
  <2>7. PICK lost \in Seq(Frame) :
          /\ wire = "up" => lost = <<>>
          /\ Flow(downWire \o lost, connID[j], j, Len(Written(j)), Len(sentDown[j]))
    BY <1>0, <2>2 DEF DownFlow
  <2>8. /\ downWire \o lost \in Seq(Frame) /\ downWire \o lost # <<>>
        /\ Head(downWire \o lost) = Head(downWire)
        /\ Tail(downWire \o lost) = Tail(downWire) \o lost
    BY <2>1, <2>6, ConcatFront
  <2>9. Flow(Tail(downWire) \o lost, connID[j], j, Len(Written(j)), Len(sentDown[j]))
    <3> DEFINE w == downWire \o lost
    <3>1. /\ w \in Seq(Frame) /\ w # <<>> /\ Head(w).id # connID[j]
          /\ Len(Head(w).data) \in Nat
          /\ Flow(w, connID[j], j, Len(Written(j)), Len(sentDown[j]))
      BY <2>5, <2>6, <2>7, <2>8
    <3> HIDE DEF w
    <3>2. Flow(Tail(w), connID[j], j, Len(Written(j)), Len(sentDown[j]))
      BY <2>6, <3>1, FlowTail
    <3> QED
      BY <2>8, <3>2 DEF w
  <2> QED
    BY <2>1, <2>2, <2>7, <2>9
<1>10. CASE HandleData
  <2>1. /\ UNCHANGED <<session, wire, owner, pc, connID, sentDown, hungUp, ended>>
        /\ downWire # <<>> /\ downWire' = Tail(downWire)
    BY <1>10 DEF HandleData, serverVars, pumpVars, streamVars
  <2>2. Registered(j) /\ Present(j) /\ j \notin ended \cup hungUp
    BY <2>1 DEF Registered, Present
  <2>3. PICK k \in Clients :
           /\ Head(downWire).id = connID[k] /\ Head(downWire).data \in Seq(Bytes)
           /\ \A i \in Clients \ {k} : Written(i)' = Written(i) /\ (Registered(i) => connID[i] # connID[k])
           /\ k \notin ended \cup hungUp =>
                /\ Written(k)' = Written(k) \o Head(downWire).data
                /\ \E lost \in Seq(Frame) :
                     /\ wire = "up" => lost = <<>>
                     /\ Flow(Tail(downWire) \o lost, connID[k], k,
                             Len(Written(k)) + Len(Head(downWire).data), Len(sentDown[k]))
    BY <1>10, Delivered
  <2>4. CASE j = k
    <3>1. Len(Written(j)') = Len(Written(j)) + Len(Head(downWire).data)
      BY <1>0, <2>2, <2>3, <2>4, StreamTypes
    <3> QED
      BY <2>1, <2>2, <2>3, <2>4, <3>1
  <2>5. CASE j # k
    <3>1. Head(downWire).id # connID[j] /\ Written(j)' = Written(j) /\ Len(Head(downWire).data) \in Nat
      BY <2>2, <2>3, <2>5
    <3>2. PICK lost \in Seq(Frame) :
            /\ wire = "up" => lost = <<>>
            /\ Flow(downWire \o lost, connID[j], j, Len(Written(j)), Len(sentDown[j]))
      BY <1>0, <2>2 DEF DownFlow
    <3>3. downWire \in Seq(Frame) /\ Len(Written(j)) \in Nat /\ Len(sentDown[j]) \in Nat
      BY <1>0, StreamLengths DEF TypeOK
    <3>4. /\ downWire \o lost \in Seq(Frame) /\ downWire \o lost # <<>>
          /\ Head(downWire \o lost) = Head(downWire)
          /\ Tail(downWire \o lost) = Tail(downWire) \o lost
      BY <2>1, <3>3, ConcatFront
    <3>5. Flow(Tail(downWire) \o lost, connID[j], j, Len(Written(j)), Len(sentDown[j]))
      <4> DEFINE w == downWire \o lost
      <4>1. /\ w \in Seq(Frame) /\ w # <<>> /\ Head(w).id # connID[j]
            /\ Len(Head(w).data) \in Nat
            /\ Flow(w, connID[j], j, Len(Written(j)), Len(sentDown[j]))
        BY <3>1, <3>2, <3>4
      <4> HIDE DEF w
      <4>2. Flow(Tail(w), connID[j], j, Len(Written(j)), Len(sentDown[j]))
        BY <3>3, <4>1, FlowTail
      <4> QED
        BY <3>4, <4>2 DEF w
    <3> QED
      BY <2>1, <3>1, <3>2, <3>5
  <2> QED
    BY <2>4, <2>5
<1>11. ASSUME NEW id \in ConnIDs, RelayAnswer(id) \/ RelayClose(id) PROVE Goal
  <2>1. UNCHANGED <<session, wire, owner, pc, connID, gotDown, outSock, hungUp, ended>> /\ wire = "up"
    BY <1>11 DEF RelayAnswer, RelayClose, serverVars, pumpVars, sockVars, streamVars
  <2>2. Written(j)' = Written(j) /\ Registered(j) /\ Present(j) /\ j \notin ended \cup hungUp
    BY <2>1 DEF Written, Registered, Present
  <2> DEFINE a == Len(Written(j))
             b == Len(sentDown[j])
             c == connID[j]
  <2>3. Flow(downWire, c, j, a, b) /\ downWire \in Seq(Frame) /\ a \in Nat /\ b \in Nat
    <3>1. downWire \in Seq(Frame) /\ downWire \o <<>> = downWire
      BY <1>0 DEF TypeOK
    <3>2. Flow(downWire \o <<>>, c, j, a, b)
      BY <1>0, <2>1, <2>2 DEF DownFlow
    <3> QED
      BY <1>0, <3>1, <3>2, StreamLengths
  <2>6. ASSUME downWire' \in Seq(Frame),
               Flow(downWire', connID'[j], j, Len(Written(j)'), Len(sentDown'[j]))
        PROVE  Goal
    <3>1. downWire' \o <<>> = downWire' /\ <<>> \in Seq(Frame)
      BY <2>6
    <3> QED
      BY <2>6, <3>1
  <2>4. ASSUME RelayClose(id) PROVE Goal
    <3> DEFINE f == [id |-> id, data |-> <<>>, close |-> TRUE]
    <3>1. downWire' = Append(downWire, f) /\ sentDown' = sentDown
      BY <2>4 DEF RelayClose, streamVars
    <3>2. f \in Frame /\ f.id = id /\ f.data = <<>> /\ Len(f.data) = 0
      BY DEF Frame
    <3> HIDE DEF a, b, c, f
    <3>3. Run(f.data, j, b) /\ Len(f.data) \in Nat /\ b + Len(f.data) = b
      BY <2>3, <3>2, NoBytes
    <3>4. Flow(Append(downWire, f), c, j, a, b)
      <4>1. CASE c = id
        BY <2>3, <3>2, <3>3, <4>1, FlowAppendMine
      <4>2. CASE c # id
        BY <2>3, <3>2, <4>2, FlowAppendOther
      <4> QED
        BY <4>1, <4>2
    <3>5. Append(downWire, f) \in Seq(Frame)
      BY <2>3, <3>2
    <3> HIDE DEF Goal
    <3> QED
      BY <2>1, <2>2, <2>6, <3>1, <3>4, <3>5 DEF a, b, c
  <2>5. ASSUME RelayAnswer(id) PROVE Goal
    <3> DEFINE k == Asker(id)
               byte == <<k, Len(sentDown[k]) + 1>>
               f == [id |-> id, data |-> <<byte>>, close |-> FALSE]
    <3>1. downWire' = Append(downWire, f) /\ sentDown' = [sentDown EXCEPT ![k] = Append(@, byte)]
      BY <2>5 DEF RelayAnswer
    <3>2. k \in Clients /\ connID[k] = id /\ \A i \in Clients \ {k} : Registered(i) => connID[i] # id
      BY <2>5, Answered
    <3>3. byte \in Bytes
      BY <1>0, <2>5, AnswerByte DEF Framed
    <3> DEFINE d == <<byte>>
    <3>4. d \in Seq(Bytes) /\ Len(d) = 1
      BY <3>3
    <3>5. f.id = id /\ f.data = d
      OBVIOUS
    <3>6. f \in Frame
      <4> HIDE DEF d, byte
      <4>1. f = [id |-> id, data |-> d, close |-> FALSE]
        BY DEF d
      <4> QED
        BY <3>4, <4>1 DEF Frame
    <3>9. downWire' \in Seq(Frame)
      <4> HIDE DEF f
      <4> QED
        BY <2>3, <3>1, <3>6
    <3> HIDE DEF Goal
    <3>7. CASE j # k
      <4>1. c # id /\ sentDown'[j] = sentDown[j]
        BY <1>0, <2>2, <3>1, <3>2, <3>7 DEF TypeOK
      <4> HIDE DEF a, b, c, f, k, byte
      <4>2. Flow(Append(downWire, f), c, j, a, b)
        BY <2>3, <3>5, <3>6, <4>1, FlowAppendOther
      <4> QED
        BY <2>1, <2>2, <2>6, <3>1, <3>9, <4>1, <4>2 DEF a, b, c
    <3>8. CASE j = k
      <4>1. c = id /\ Len(sentDown'[j]) = b + 1
        <5>1. sentDown[j] \in Seq(Bytes) /\ sentDown'[j] = Append(sentDown[j], byte)
          BY <1>0, <3>1, <3>2, <3>8 DEF TypeOK
        <5> QED
          BY <3>2, <3>3, <3>8, <5>1
      <4>2. Run(d, j, b)
        <5>1. d = << <<j, b + 1>> >>
          BY <3>8
        <5> HIDE DEF d, b
        <5> QED
          BY <2>3, <5>1, OneByte
      <4> HIDE DEF a, b, c, d, f, k, byte
      <4>5. f.id = c /\ Len(f.data) \in Nat /\ Run(f.data, j, b)
        BY <3>4, <3>5, <4>1, <4>2
      <4>3. Flow(Append(downWire, f), c, j, a, b + Len(f.data))
        BY <2>3, <3>6, <4>5, FlowAppendMine
      <4>4. Flow(Append(downWire, f), c, j, a, b + 1)
        BY <3>4, <3>5, <4>3
      <4> QED
        BY <2>1, <2>2, <2>6, <3>1, <3>9, <4>1, <4>4 DEF a, b, c
    <3> QED
      BY <3>7, <3>8
  <2> QED
    BY <1>11, <2>4, <2>5
<1> HIDE DEF Still, Goal
<1> QED
  BY <1>2, <1>3, <1>4, <1>5, <1>6, <1>7, <1>8, <1>9, <1>10, <1>11, <1>12, <1>13
     DEF Next, ReadLoop, Relay, Pump, Client

\* The inductive invariant of the refinement.
TunnelInv == ConnInv /\ Findable /\ Flows

\* It holds at the start.
LEMMA TunnelInit == Init => TunnelInv
<1> SUFFICES ASSUME Init PROVE TunnelInv
  OBVIOUS
<1>1. ConnInv /\ Findable
  BY ConnInit
<1>2. ASSUME NEW k \in Clients PROVE Streams(k) /\ UpFlow(k) /\ DownFlow(k)
  <2>1. /\ sentUp[k] = <<>> /\ sentDown[k] = <<>> /\ inSock[k] = <<>> /\ chunk[k] = <<>>
        /\ gotDown[k] = <<>> /\ outSock[k] = <<>> /\ pc[k] = "outside"
    BY DEF Init
  <2>2. ~Registered(k) /\ Relayed(k) = <<>> /\ Written(k) = <<>>
    <3>1. <<>> \o <<>> = <<>>
      OBVIOUS
    <3> QED
      BY <2>1, <3>1 DEF Registered, Relayed, Written
  <2>3. Start(k) = 0 /\ Len(sentUp[k]) - Len(inSock[k]) = 0
    <3>1. Len(sentUp[k]) = 0 /\ Len(inSock[k]) = 0 /\ Len(chunk[k]) = 0
      BY <2>1
    <3>2. 0 - 0 = 0 /\ 0 - 0 - 0 = 0
      OBVIOUS
    <3> QED
      BY <3>1, <3>2 DEF Start
  <2>4. Streams(k)
    <3>1. Run(<<>>, k, 0) /\ Len(<<>>) = 0
      BY NoBytes
    <3>2. Run(chunk[k], k, Start(k)) /\ Run(inSock[k], k, Len(sentUp[k]) - Len(inSock[k]))
      BY <2>1, NoBytes
    <3> QED
      BY <2>1, <2>2, <2>3, <3>1, <3>2 DEF Streams
  <2> QED
    BY <2>2, <2>4 DEF UpFlow, DownFlow, Present
<1> QED
  BY <1>1, <1>2 DEF TunnelInv, Flows

\* Every step keeps it.
LEMMA TunnelStep ==
  ASSUME FineGrainedClock, TunnelInv, [Next]_vars
  PROVE  TunnelInv'
<1>1. ConnInv' /\ Findable'
  BY ConnStep, FindableStep DEF TunnelInv, ConnInv
<1>2. ASSUME NEW k \in Clients PROVE Streams(k)' /\ UpFlow(k)' /\ DownFlow(k)'
  BY StreamsStep, UpFlowStep, DownFlowStep DEF TunnelInv
<1> QED
  BY <1>1, <1>2 DEF TunnelInv, Flows

\* Every byte is where its connection's stream says.
THEOREM TunnelInvHolds ==
  ASSUME FineGrainedClock
  PROVE  Spec => []TunnelInv
<1>1. Init => TunnelInv
  BY TunnelInit
<1>2. TunnelInv /\ [Next]_vars => TunnelInv'
  BY TunnelStep
<1> QED
  BY <1>1, <1>2, PTL DEF Spec

\* What has come out of a stream is a prefix of what went in.
LEMMA StreamPrefixes ==
  ASSUME TypeOK, Named, NEW k \in Clients, Streams(k)
  PROVE  /\ Relayed(k) \in Pipe!Prefixes(sentUp[k])
         /\ Written(k) \in Pipe!Prefixes(sentDown[k])
<1>1. /\ Relayed(k) \in Seq(Bytes) /\ Written(k) \in Seq(Bytes)
      /\ sentUp[k] \in Seq(Bytes) /\ sentDown[k] \in Seq(Bytes)
  BY StreamTypes
<1>2. Relayed(k) = SubSeq(sentUp[k], 1, Len(Relayed(k))) /\ Len(Relayed(k)) \in 0..Len(sentUp[k])
  <2>1. Run(Relayed(k), k, 0) /\ Run(sentUp[k], k, 0) /\ Len(Relayed(k)) <= Len(sentUp[k])
    BY DEF Streams
  <2>2. Relayed(k) = SubSeq(sentUp[k], 1, Len(Relayed(k)))
    BY <1>1, <2>1, RunPrefix
  <2> QED
    BY <1>1, <2>1, <2>2
<1>3. Written(k) = SubSeq(sentDown[k], 1, Len(Written(k))) /\ Len(Written(k)) \in 0..Len(sentDown[k])
  <2>1. Run(Written(k), k, 0) /\ Run(sentDown[k], k, 0) /\ Len(Written(k)) <= Len(sentDown[k])
    BY DEF Streams
  <2>2. Written(k) = SubSeq(sentDown[k], 1, Len(Written(k)))
    BY <1>1, <2>1, RunPrefix
  <2> QED
    BY <1>1, <2>1, <2>2
<1> QED
  BY <1>2, <1>3 DEF Pipe!Prefixes

\* What has come out of a stream is a prefix of what went in, for every connection.
Prefixed ==
  \A k \in Clients : /\ Relayed(k) \in Pipe!Prefixes(sentUp[k])
                    /\ Written(k) \in Pipe!Prefixes(sentDown[k])

\* Whatever breaks, what a relay has received is the beginning of what its client
\* sent, and what a client has been written the beginning of what its relay sent
\* (HandleData, handleConn).
THEOREM PrefixedHolds ==
  ASSUME FineGrainedClock
  PROVE  Spec => []Prefixed
<1>1. TunnelInv => Prefixed
  BY StreamPrefixes DEF TunnelInv, ConnInv, Flows, Prefixed
<1> QED
  BY <1>1, TunnelInvHolds, PTL

\* The tunnel implements BytePipe (PROTOCOL.md 2.1, "a pure byte pump"): what a
\* relay receives and what a client is written are the beginnings of what the
\* other end sent, in order, nothing twice, nothing of another connection's, over
\* any number of sessions, breaks and connections.
THEOREM PureBytePumpHolds ==
  ASSUME FineGrainedClock
  PROVE  Spec => PureBytePump
<1>1. Init => Pipe!PipeInit
  <2> SUFFICES ASSUME Init PROVE Pipe!PipeInit
    OBVIOUS
  <2>1. \A k \in Clients : Relayed(k) = <<>> /\ Written(k) = <<>>
    <3>1. <<>> \o <<>> = <<>>
      OBVIOUS
    <3> QED
      BY <3>1 DEF Init, Relayed, Written
  <2> QED
    BY <2>1 DEF Init, Pipe!PipeInit
<1>2. TunnelInv /\ Prefixed' /\ [Next]_vars => [Pipe!PipeNext]_(Pipe!pipeVars)
  <2> SUFFICES ASSUME TunnelInv, Prefixed', [Next]_vars
               PROVE  Pipe!PipeNext \/ UNCHANGED Pipe!pipeVars
    OBVIOUS
  <2>0. /\ ConnInv /\ Findable /\ Flows /\ TypeOK /\ Named
    BY DEF TunnelInv, ConnInv, Flows
  <2> DEFINE up == [j \in Clients |-> Relayed(j)]
             down == [j \in Clients |-> Written(j)]
             Stutter == /\ UNCHANGED <<sentUp, sentDown, ended>>
                        /\ \A j \in Clients : Relayed(j)' = Relayed(j) /\ Written(j)' = Written(j)
  <2>1. ASSUME \A j \in Clients : Relayed(j)' = Relayed(j) PROVE up' = up
    BY <2>1
  <2>2. ASSUME \A j \in Clients : Written(j)' = Written(j) PROVE down' = down
    BY <2>2
  <2>3. ASSUME Stutter PROVE UNCHANGED Pipe!pipeVars
    BY <2>1, <2>2, <2>3 DEF Pipe!pipeVars
  <2>4. ASSUME UNCHANGED <<pc, connID, relayGot>> PROVE \A j \in Clients : Relayed(j)' = Relayed(j)
    BY <2>4 DEF Relayed
  <2>5. ASSUME UNCHANGED <<gotDown, outSock>> PROVE \A j \in Clients : Written(j)' = Written(j)
    BY <2>5 DEF Written
  <2>6. CASE Connect \/ Break \/ Disconnect \/ UNCHANGED vars
    <3>1. Stutter
      BY <2>4, <2>5, <2>6 DEF Connect, Break, Disconnect, vars, pumpVars, relayVars, sockVars, streamVars
    <3> QED
      BY <2>3, <3>1
  <2>7. ASSUME NEW s \in Sessions, Listen(s) \/ CloseListener(s) PROVE Stutter
    BY <2>4, <2>5, <2>7 DEF Listen, CloseListener, pumpVars, relayVars, sockVars, streamVars
  <2>8. ASSUME NEW id \in ConnIDs, RelayClose(id) PROVE Stutter
    BY <2>4, <2>5, <2>8 DEF RelayClose, pumpVars, sockVars, streamVars
  <2>9. ASSUME NEW k \in Clients, ClientClose(k) PROVE Stutter
    BY <2>4, <2>5, <2>9 DEF ClientClose, pumpVars, relayVars, streamVars
  <2>10. ASSUME NEW k \in Clients, ClientRead(k) PROVE Stutter
    <3>1. UNCHANGED <<pc, connID, relayGot, sentUp, sentDown, ended>>
      BY <2>10 DEF ClientRead, pumpVars, relayVars
    <3>2. ASSUME NEW j \in Clients PROVE Written(j)' = Written(j)
      <4>1. gotDown[k] \in Seq(Bytes) /\ outSock[k] \in Seq(Bytes)
        BY <2>0 DEF TypeOK
      <4>2. (gotDown[k] \o outSock[k]) \o <<>> = gotDown[k] \o outSock[k]
        BY <4>1
      <4>3. CASE j = k
        BY <2>0, <2>10, <4>2, <4>3 DEF ClientRead, Written, TypeOK
      <4>4. CASE j # k
        BY <2>0, <2>10, <4>4 DEF ClientRead, Written, TypeOK
      <4> QED
        BY <4>3, <4>4
    <3> QED
      BY <2>4, <3>1, <3>2
  <2>11. ASSUME NEW k \in Clients,
                \/ Accept(k) \/ ReadCounter(k) \/ ReadChunk(k) \/ ReadError(k)
                \/ SendChunk(k) \/ SendClose(k) \/ Remove(k)
         PROVE  UNCHANGED <<sentUp, sentDown>> /\ \A j \in Clients : Relayed(j)' = Relayed(j)
                                                                    /\ Written(j)' = Written(j)
    <3>1. UNCHANGED <<sentUp, sentDown, gotDown, outSock, relayGot>>
      BY <2>11 DEF Accept, ReadCounter, ReadChunk, ReadError, SendChunk, SendClose, Remove,
                  relayVars, sockVars, streamVars
    <3>2. ASSUME NEW j \in Clients PROVE Relayed(j)' = Relayed(j)
      <4>1. Registered(j)' <=> Registered(j)
        BY <2>0, <2>11 DEF Accept, ReadCounter, ReadChunk, ReadError, SendChunk, SendClose, Remove,
                          Registered, TypeOK
      <4>2. Registered(j) => connID'[j] = connID[j]
        BY <2>0, <2>11 DEF Accept, ReadCounter, ReadChunk, ReadError, SendChunk, SendClose, Remove,
                          Registered, TypeOK
      <4> QED
        BY <3>1, <4>1, <4>2 DEF Relayed, Registered
    <3> QED
      BY <2>5, <3>1, <3>2
  <2>12. ASSUME NEW k \in Clients,
                Accept(k) \/ ReadCounter(k) \/ ReadChunk(k) \/ ReadError(k) \/ SendChunk(k) \/ SendClose(k)
         PROVE  Stutter
    <3>1. ended' = ended
      BY <2>12 DEF Accept, ReadCounter, ReadChunk, ReadError, SendChunk, SendClose, sockVars
    <3> QED
      BY <2>11, <2>12, <3>1
  <2>13. ASSUME NEW k \in Clients, Register(k) PROVE Stutter
    <3>1. UNCHANGED <<sentUp, sentDown, ended, gotDown, outSock, relayGot, connID>> /\ pc[k] = "counting"
      BY <2>13 DEF Register, relayVars, sockVars, streamVars
    <3>2. ASSUME NEW j \in Clients PROVE Relayed(j)' = Relayed(j)
      <4>1. CASE j = k
        <5>1. Relayed(j) = <<>> /\ relayGot[connID[k]] = <<>>
          BY <2>0, <3>1, <4>1, Unheard DEF Relayed
        <5> QED
          BY <2>0, <2>13, <3>1, <4>1, <5>1 DEF Register, Relayed, TypeOK
      <4>2. CASE j # k
        BY <2>0, <2>13, <3>1, <4>2 DEF Register, Relayed, TypeOK
      <4> QED
        BY <4>1, <4>2
    <3> QED
      BY <2>5, <3>1, <3>2
  <2>14. ASSUME NEW k \in Clients, Remove(k) PROVE Stutter \/ Pipe!PipeNext
    <3>1. ended' = ended \cup {k}
      BY <2>14 DEF Remove
    <3>2. CASE k \in ended
      BY <2>11, <2>14, <3>1, <3>2
    <3>3. CASE k \notin ended
      <4>1. UNCHANGED <<sentUp, sentDown>> /\ up' = up /\ down' = down
        BY <2>1, <2>2, <2>11, <2>14
      <4> QED
        BY <3>1, <3>3, <4>1 DEF Pipe!PipeNext, Pipe!End
    <3> QED
      BY <3>2, <3>3
  <2>15. CASE HandleClose
    <3>1. /\ UNCHANGED <<pc, connID, relayGot, gotDown, outSock, sentUp, sentDown>> /\ downWire # <<>>
          /\ ended' = ended \cup {e.client : e \in Entries(Head(downWire).id)}
      BY <2>15 DEF HandleClose, relayVars, streamVars
    <3>2. PICK k \in Clients : ended' = ended \cup ({k} \ ended)
      BY <2>0, <3>1, Targets
    <3>3. up' = up /\ down' = down
      BY <2>1, <2>2, <2>4, <2>5, <3>1
    <3>4. CASE k \in ended
      BY <2>3, <2>4, <2>5, <3>1, <3>2, <3>4
    <3>5. CASE k \notin ended
      <4>1. ended' = ended \cup {k}
        BY <3>2, <3>5
      <4> QED
        BY <3>1, <3>3, <3>5, <4>1 DEF Pipe!PipeNext, Pipe!End
    <3> QED
      BY <3>4, <3>5
  <2>16. ASSUME NEW k \in Clients, ClientWrite(k) PROVE Pipe!PipeNext
    <3>1. UNCHANGED <<pc, connID, relayGot, gotDown, outSock, sentDown, ended>>
      BY <2>16 DEF ClientWrite, pumpVars, relayVars
    <3>2. up' = up /\ down' = down
      BY <2>1, <2>2, <2>4, <2>5, <3>1
    <3>3. sentUp' = [sentUp EXCEPT ![k] = Append(@, <<k, Len(@) + 1>>)]
      BY <2>16 DEF ClientWrite
    <3> QED
      BY <3>1, <3>2, <3>3 DEF Pipe!PipeNext, Pipe!Send
  <2>17. ASSUME NEW id \in ConnIDs, RelayAnswer(id) PROVE Pipe!PipeNext
    <3>1. UNCHANGED <<pc, connID, relayGot, gotDown, outSock, sentUp, ended>>
      BY <2>17 DEF RelayAnswer, pumpVars, sockVars, relayVars
    <3>2. up' = up /\ down' = down
      BY <2>1, <2>2, <2>4, <2>5, <3>1
    <3> DEFINE k == Asker(id)
    <3>3. k \in Clients
      BY <2>0, <2>17, Answered
    <3>4. sentDown' = [sentDown EXCEPT ![k] = Append(@, <<k, Len(sentDown[k]) + 1>>)]
      BY <2>17 DEF RelayAnswer
    <3> HIDE DEF k
    <3>5. sentDown' = [sentDown EXCEPT ![k] = Append(@, <<k, Len(@) + 1>>)]
      BY <3>4
    <3> QED
      BY <3>1, <3>2, <3>3, <3>5 DEF Pipe!PipeNext, Pipe!Answer
  <2>18. CASE RelayReceive
    <3>1. UNCHANGED <<gotDown, outSock, sentUp, sentDown, ended>>
      BY <2>18 DEF RelayReceive, sockVars, streamVars
    <3>2. PICK k \in Clients :
           /\ Head(upWire).data \in Seq(Bytes)
           /\ Relayed(k)' = Relayed(k) \o Head(upWire).data
           /\ \A j \in Clients \ {k} : Relayed(j)' = Relayed(j)
      BY <2>0, <2>18, Received
    <3> DEFINE d == Head(upWire).data
    <3>3. down' = down
      BY <2>2, <2>5, <3>1
    <3>4. CASE d = <<>>
      <4>1. Relayed(k) \o <<>> = Relayed(k)
        BY <2>0, StreamTypes
      <4>2. \A j \in Clients : Relayed(j)' = Relayed(j)
        BY <3>2, <3>4, <4>1
      <4> QED
        BY <2>3, <2>5, <3>1, <4>2
    <3>5. CASE d # <<>>
      <4> DEFINE more == Relayed(k)'
      <4>1. Len(more) > Len(Relayed(k))
        <5>1. Relayed(k) \in Seq(Bytes)
          BY <2>0, StreamTypes
        <5> QED
          BY <3>2, <3>5, <5>1
      <4>2. more \in Pipe!Prefixes(sentUp[k])
        BY <3>1 DEF Prefixed
      <4>3. up' = [up EXCEPT ![k] = more]
        BY <3>2
      <4>4. Pipe!DeliverUp(k)
        BY <3>1, <3>3, <4>1, <4>2, <4>3 DEF Pipe!DeliverUp
      <4> QED
        BY <4>4 DEF Pipe!PipeNext
    <3> QED
      BY <3>4, <3>5
  <2>19. CASE HandleData
    <3>1. UNCHANGED <<pc, connID, relayGot, sentUp, sentDown, ended>>
      BY <2>19 DEF HandleData, pumpVars, relayVars, streamVars
    <3>2. up' = up
      BY <2>1, <2>4, <3>1
    <3>3. PICK k \in Clients :
           /\ Head(downWire).data \in Seq(Bytes) /\ Head(downWire).data # <<>>
           /\ \A j \in Clients \ {k} : Written(j)' = Written(j)
           /\ k \in ended \cup hungUp => Written(k)' = Written(k)
           /\ k \notin ended \cup hungUp => Written(k)' = Written(k) \o Head(downWire).data
      BY <2>0, <2>19, Delivered
    <3>4. CASE k \in ended \cup hungUp
      <4>1. \A j \in Clients : Written(j)' = Written(j)
        BY <3>3, <3>4
      <4> QED
        BY <2>3, <2>4, <3>1, <4>1
    <3>5. CASE k \notin ended \cup hungUp
      <4> DEFINE more == Written(k)'
      <4>1. Len(more) > Len(Written(k))
        <5>1. Written(k) \in Seq(Bytes)
          BY <2>0, StreamTypes
        <5> QED
          BY <3>3, <3>5, <5>1
      <4>2. more \in Pipe!Prefixes(sentDown[k])
        BY <3>1 DEF Prefixed
      <4>3. down' = [down EXCEPT ![k] = more]
        BY <3>3
      <4>4. Pipe!DeliverDown(k)
        BY <3>1, <3>2, <3>5, <4>1, <4>2, <4>3 DEF Pipe!DeliverDown
      <4> QED
        BY <4>4 DEF Pipe!PipeNext
    <3> QED
      BY <3>4, <3>5
  <2> HIDE DEF Stutter, up, down
  <2> QED
    BY <2>3, <2>6, <2>7, <2>8, <2>9, <2>10, <2>12, <2>13, <2>14, <2>15, <2>16, <2>17, <2>18, <2>19
       DEF Next, ReadLoop, Relay, Pump, Client
<1>3. Spec => []TunnelInv
  BY TunnelInvHolds
<1>4. Spec => []Prefixed
  BY PrefixedHolds
<1> QED
  BY <1>1, <1>2, <1>3, <1>4, PTL DEF Spec, PureBytePump, Pipe!PipeSpec
=============================================================================
