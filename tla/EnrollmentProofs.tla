-------------------------- MODULE EnrollmentProofs --------------------------
(* Theorems about Enrollment, for every set of tokens, every environment the *)
(* hypotheses allow and every bound on its moves.                            *)
EXTENDS Enrollment, TLAPS

\* What the edits of agent.yml make of a configuration is a configuration.
LEMMA ConfigEdits ==
    ASSUME NEW file \in Config, NEW mem \in Config
    PROVE  /\ Cleared(file, mem) \in Config
           /\ [file EXCEPT !.join = JoinKey] \in Config
           /\ \A token \in Tokens : [file EXCEPT !.auth = token] \in Config
           /\ Credential(file) \in Tokens \union {JoinKey, None}
  BY EnrollmentConstants DEF Config, MaybeToken, Cleared, Credential

FileTyped == disk \in Config /\ seen \in BOOLEAN /\ fresh \in [Loaders -> BOOLEAN] /\ held \subseteq Tokens

\* Writing a configuration keeps the file and what is recorded of it typed.
LEMMA WriteType ==
    ASSUME TypeOK, NEW file \in Config, Write(file)
    PROVE  FileTyped'
<1>1. file.auth \in MaybeToken
  BY DEF Config
<1>2. held' \subseteq Tokens
  BY <1>1 DEF Write, TypeOK, MaybeToken
<1>3. disk' \in Config
  BY DEF Write
<1>4. seen' \in BOOLEAN
  BY Zenon DEF Write
<1>5. fresh' \in [Loaders -> BOOLEAN]
  BY Zenon DEF Write
<1> QED
  BY <1>2, <1>3, <1>4, <1>5 DEF FileTyped

\* So does every outcome of a Persist method.
LEMMA PersistType ==
    ASSUME TypeOK, NEW file \in Config, Persist(file)
    PROVE  FileTyped' /\ cur' \in Config
<1>1. CASE Write(file) /\ cur' \in {cur, file}
  BY <1>1, WriteType DEF TypeOK
<1>2. CASE UNCHANGED <<fileVars, cur>>
  BY <1>2 DEF FileTyped, TypeOK, fileVars
<1> QED
  BY <1>1, <1>2 DEF Persist

\* Every step keeps the state well typed.
LEMMA TypeStep == TypeOK /\ [Next]_vars => TypeOK'
<1> SUFFICES ASSUME TypeOK, [Next]_vars PROVE TypeOK'
  OBVIOUS
<1> USE EnrollmentConstants
<1> USE DEF TypeOK, fileVars, loadVars, dirVars, Loaders, Loads
<1>1. CASE UNCHANGED vars
  BY <1>1 DEF vars
<1>2. CASE Session
  <2>1. CASE BeginDial
    BY <2>1, ConfigEdits DEF BeginDial, Config, MaybeToken, Credential
  <2>2. CASE NoCredential
    BY <2>2 DEF NoCredential
  <2>3. CASE DialRejected \/ SyncUnchanged \/ Retry
    BY <2>3 DEF DialRejected, SyncUnchanged, Retry
  <2>9. CASE DialOk
    BY <2>9 DEF DialOk
  <2>4. CASE DialError
    BY <2>4 DEF DialError, Move
  <2>10. CASE Drop
    BY <2>10 DEF Drop, Move, Hangup
  <2>5. CASE SyncLoad
    BY <2>5 DEF SyncLoad, BeginLoad
  <2>6. CASE ReceiveConfig
    BY <2>6 DEF ReceiveConfig, Arrived
  <2>11. CASE ReceiveClose
    BY <2>11 DEF ReceiveClose, Arrived, Hangup
  <2>7. CASE ReceiveEnrolled
    <3>1. Head(inbox) \in Frame /\ inbox' \in Seq(Frame)
      BY <2>7 DEF ReceiveEnrolled, Arrived
    <3>2. Enrolled(disk, Head(inbox).token) \in Config
      BY <3>1 DEF Frame, Config, Enrolled, MaybeToken
    <3>3. FileTyped' /\ cur' \in Config
      BY <2>7, <3>2, PersistType DEF ReceiveEnrolled
    <3> QED
      BY <2>7, <3>1, <3>3 DEF ReceiveEnrolled, FileTyped
  <2>8. CASE ReceiveReload
    BY <2>8 DEF ReceiveReload, BeginLoad, Arrived
  <2> QED
    BY <1>2, <2>1, <2>2, <2>3, <2>4, <2>5, <2>6, <2>7, <2>8, <2>9, <2>10, <2>11 DEF Session
<1>3. CASE Others
  <2>1. ASSUME NEW p \in {"session", "ticker"}, Install(p) PROVE TypeOK'
    BY <2>1 DEF Install, EndLoad, NoConfig, Config, MaybeToken
  <2>2. CASE TickReload
    BY <2>2 DEF TickReload, BeginLoad
  <2>3. CASE TrayReinit
    BY <2>3 DEF TrayReinit, Move
  <2>10. CASE TrayClear
    <3>1. FileTyped' /\ cur' \in Config
      BY <2>10, PersistType, ConfigEdits DEF TrayClear
    <3> QED
      BY <2>10, <3>1 DEF TrayClear, FileTyped
  <2>4. CASE TrayAutoVPN
    <3>1. FileTyped' /\ cur' \in Config
      BY <2>4, PersistType DEF TrayAutoVPN
    <3> QED
      BY <2>4, <3>1 DEF TrayAutoVPN, FileTyped, Move
  <2>5. ASSUME NEW op \in {"reset", "setJoin"}, CliBegin(op) PROVE TypeOK'
    BY <2>5 DEF CliBegin, BeginLoad, Move
  <2>6. CASE CliReset
    <3>1. FileTyped'
      BY <2>6, WriteType, ConfigEdits DEF CliReset, FileTyped
    <3>2. loading' \in [Loaders -> Loads] /\ snap' \in [Loaders -> Config]
      BY <2>6 DEF CliReset, EndLoad, NoConfig, Config, MaybeToken
    <3> QED
      BY <2>6, <3>1, <3>2 DEF CliReset, EndLoad, FileTyped
  <2>7. CASE CliSetJoin
    <3>1. FileTyped'
      BY <2>7, WriteType, ConfigEdits DEF CliSetJoin
    <3>2. loading' \in [Loaders -> Loads] /\ snap' \in [Loaders -> Config]
      BY <2>7 DEF CliSetJoin, EndLoad, NoConfig, Config, MaybeToken
    <3> QED
      BY <2>7, <3>1, <3>2 DEF CliSetJoin, EndLoad, FileTyped
  <2>8. CASE OperatorToken
    <3>1. registered \in Tokens
      BY <2>8 DEF OperatorToken, MaybeToken
    <3>2. FileTyped'
      BY <2>8, <3>1, WriteType, ConfigEdits DEF OperatorToken
    <3> QED
      BY <2>8, <3>2 DEF OperatorToken, FileTyped, Move
  <2>9. CASE Restart
    <3>1. NoConfig \in Config
      BY DEF NoConfig, Config, MaybeToken
    <3>2. snap' \in [Loaders -> Config] /\ loading' \in [Loaders -> Loads]
      BY <2>9, <3>1 DEF Restart
    <3>3. seen' \in BOOLEAN /\ fresh' \in [Loaders -> BOOLEAN]
      BY <2>9 DEF Restart
    <3>4. inbox' \in Seq(Frame) /\ cur' \in Config /\ moves' \in 0..MaxMoves
      BY <2>9 DEF Restart, Move, Hangup
    <3> QED
      BY <2>9, <3>2, <3>3, <3>4 DEF Restart, Hangup
  <2> QED
    BY <1>3, <2>1, <2>2, <2>3, <2>4, <2>5, <2>6, <2>7, <2>8, <2>9, <2>10 DEF Others
<1>4. CASE Directory
  <2>0. ASSUME NEW kind \in {"config", "enrolled", "reload", "close"},
               NEW token \in MaybeToken, NEW code \in CloseCodes \union {0},
               Send(kind, token, code)
        PROVE  inbox' \in Seq(Frame)
    BY <2>0 DEF Send, Frame
  <2> USE DEF CloseCodes, MaybeToken
  <2>1. CASE Admit
    BY <2>0, <2>1 DEF Admit
  <2>2. ASSUME NEW token \in Tokens, Enroll(token) PROVE TypeOK'
    BY <2>0, <2>2 DEF Enroll
  <2>3. CASE Refuse
    BY <2>0, <2>3 DEF Refuse
  <2>4. ASSUME NEW code \in CloseCodes, Kick(code)
        PROVE  inbox' \in Seq(Frame) /\ shook' \in {"pending", "in", "out"}
    BY <2>0, <2>4 DEF Kick
  <2>5. ASSUME NEW token \in Tokens, AdminMint(token) PROVE TypeOK'
    BY <2>4, <2>5 DEF AdminMint, Move
  <2>6. CASE AdminDelete
    BY <2>4, <2>6 DEF AdminDelete, Move
  <2>7. CASE Supersede
    BY <2>4, <2>7 DEF Supersede, Move
  <2>8. CASE SendReload
    BY <2>0, <2>8 DEF SendReload, Move
  <2> QED
    BY <1>4, <2>1, <2>2, <2>3, <2>5, <2>6, <2>7, <2>8 DEF Directory
<1> QED
  BY <1>1, <1>2, <1>3, <1>4 DEF Next

\* The initial state is well typed.
LEMMA InitType == Init => TypeOK
<1> SUFFICES ASSUME Init PROVE TypeOK
  OBVIOUS
<1>1. NoConfig \in Config /\ disk \in Config
  BY StartConfigsAssumption DEF Init, Config, NoConfig, MaybeToken
<1>2. seen \in BOOLEAN /\ reinit \in BOOLEAN /\ fresh \in [Loaders -> BOOLEAN]
  BY Zenon DEF Init
<1>3. disk.auth \in MaybeToken
  BY <1>1 DEF Config
<1> QED
  BY <1>1, <1>2, <1>3, EnrollmentConstants
       DEF Init, TypeOK, MaybeToken, Loaders, Loads

\* The variables of the daemon, of its file and of the directory keep their
\* types: every configuration written to agent.yml is one the loader accepts.
THEOREM TypeCorrect == Spec => []TypeOK
  BY InitType, TypeStep, PTL DEF Spec


-----------------------------------------------------------------------------
(* The inductive invariant *)

\* The part of the invariant that the frames in flight do not occur in.
HostInv ==
    LoadsCurrent /\ CopyLags /\ GuardHolds /\ ProofSpent /\ KnownTokens /\ ContinuityProof

hostVars == <<disk, cur, loading, snap, reinit, held, registered, issued>>

\* A step that leaves the host's files and the directory's record alone.
LEMMA HostQuiet == HostInv /\ UNCHANGED hostVars => HostInv'
  BY DEF HostInv, hostVars, LoadsCurrent, CopyLags, GuardHolds, ProofSpent,
         KnownTokens, ContinuityProof

\* A step that leaves the frames in flight alone.
LEMMA InFlightQuiet ==
    InFlight /\ UNCHANGED <<shook, inbox, issued, registered, held>> => InFlight'
  BY DEF InFlight

\* A new or a closed connection has no frame in flight.
LEMMA InFlightEmpty == inbox' = <<>> => InFlight'
  BY DEF InFlight

\* Once a frame has been taken from the inbox no enrollment is left in it.
LEMMA InFlightTail ==
    ASSUME TypeOK, InFlight, inbox # <<>>, inbox' = Tail(inbox), shook' = shook
    PROVE  InFlight'
<1>1. inbox \in Seq(Frame) /\ inbox' \in Seq(Frame)
  BY DEF TypeOK
<1>2. \A i \in 1..Len(inbox') : /\ i + 1 \in 1..Len(inbox)
                                /\ inbox'[i] = inbox[i + 1]
  BY <1>1
<1>3. \A i \in 1..Len(inbox') : inbox'[i].kind # "enrolled"
  BY <1>2 DEF InFlight
<1>4. shook' # "pending"
  BY DEF InFlight
<1> QED
  BY <1>3, <1>4 DEF InFlight

\* A frame that enrolls nobody joins the inbox of an admitted connection.
LEMMA InFlightSend ==
    ASSUME TypeOK, InFlight,
           NEW kind \in {"config", "reload", "close"}, NEW token, NEW code,
           Send(kind, token, code), shook' # "pending",
           UNCHANGED <<issued, registered, held>>
    PROVE  InFlight'
<1>1. inbox \in Seq(Frame)
  BY DEF TypeOK
<1> DEFINE new == [kind |-> kind, token |-> token, code |-> code]
<1>2. Len(inbox') = Len(inbox) + 1 /\ inbox'[Len(inbox) + 1] = new
  BY <1>1 DEF Send
<1>3. \A i \in 1..Len(inbox) : inbox'[i] = inbox[i]
  BY <1>1 DEF Send
<1>4. new.kind # "enrolled"
  OBVIOUS
<1>5. ASSUME NEW i \in 1..Len(inbox'), inbox'[i].kind = "enrolled"
      PROVE  i \in 1..Len(inbox) /\ inbox'[i] = inbox[i]
  BY <1>1, <1>2, <1>3, <1>4, <1>5
<1> QED
  BY <1>5 DEF InFlight

\* A load of agent.yml begins.
LEMMA HostBeginLoad ==
    ASSUME Serialised, TypeOK, HostInv, NEW p \in Loaders, NEW kind \in Loads,
           Alone(p), BeginLoad(p, kind),
           UNCHANGED <<disk, cur, held, registered, issued>>
    PROVE  HostInv'
<1>1. \A q \in Loaders : loading[q] = "none"
  BY DEF Serialised, Alone, BeginLoad
<1>5. GuardHolds'
  BY DEF Serialised, Alone, BeginLoad, GuardHolds
<1>2. \A q \in Loaders : loading'[q] # "none" => q = p
  BY <1>1 DEF BeginLoad, TypeOK
<1>3. snap'[p] = disk
  BY DEF BeginLoad, TypeOK
<1>4. LoadsCurrent'
  BY <1>2, <1>3 DEF LoadsCurrent
<1> QED
  BY <1>4, <1>5 DEF HostInv, CopyLags, ProofSpent, KnownTokens, ContinuityProof

\* ClearEnrollment keeps a usable proof and whatever join key there is.
LEMMA ClearedKeepsProof ==
    ASSUME TypeOK, CopyLags, ProofSpent, ContinuityProof, registered \in held
    PROVE  Cleared(disk, cur).prev = registered
<1>1. None \notin held /\ registered # None
  BY EnrollmentConstants DEF TypeOK
<1>2. Cleared(disk, cur).prev = IF cur.auth # None THEN cur.auth ELSE cur.prev
  BY DEF Cleared, TypeOK, Config
<1> QED
  BY <1>1, <1>2 DEF CopyLags, ProofSpent, ContinuityProof

\* A Persist method writes a file that still proves the host's identity.
LEMMA HostPersist ==
    ASSUME Serialised, TypeOK, HostInv, NEW file \in Config, Persist(file),
           \A q \in Loaders : loading[q] = "none",
           UNCHANGED <<loading, snap, registered, issued>>, ~reinit',
           file.auth # None => file.prev = None /\ file.auth \in issued,
           registered \in held \union ({file.auth} \ {None})
              => registered \in {file.auth, file.prev}
    PROVE  HostInv'
<1>1. CASE UNCHANGED <<fileVars, cur>>
  BY <1>1 DEF fileVars, HostInv, LoadsCurrent, CopyLags, GuardHolds, ProofSpent,
              KnownTokens, ContinuityProof
<1>2. CASE Write(file) /\ cur' = file
  <2>1. disk' = file /\ cur' = file /\ held' = held \union ({file.auth} \ {None})
    BY <1>2 DEF Write
  <2>2. LoadsCurrent'
    BY DEF LoadsCurrent
  <2>4. GuardHolds'
    BY DEF GuardHolds
  <2>3. CopyLags' /\ ProofSpent' /\ KnownTokens' /\ ContinuityProof'
    BY <2>1 DEF HostInv, CopyLags, ProofSpent, KnownTokens, ContinuityProof
  <2> QED
    BY <2>2, <2>3, <2>4 DEF HostInv
<1> QED
  BY <1>1, <1>2 DEF Persist, Serialised

\* Every step of a serialised environment keeps the invariant.
LEMMA InvStep ==
    ASSUME Serialised, EnrollmentInv, [Next]_vars
    PROVE  EnrollmentInv'
<1>1. TypeOK /\ HostInv /\ InFlight
  BY DEF EnrollmentInv, HostInv
<1>2. TypeOK'
  BY <1>1, TypeStep
<1> SUFFICES HostInv' /\ InFlight'
  BY <1>2 DEF EnrollmentInv, HostInv
<1> USE <1>1 DEF fileVars, loadVars, dirVars
<1>3. CASE UNCHANGED vars
  BY <1>3, HostQuiet, InFlightQuiet DEF vars, hostVars
<1>4. CASE Session
  <2>1. CASE BeginDial
    BY <2>1, HostQuiet, InFlightQuiet DEF BeginDial, hostVars
  <2>2. CASE NoCredential
    BY <2>2, HostQuiet, InFlightQuiet DEF NoCredential, hostVars
  <2>3. CASE DialRejected
    BY <2>3, HostQuiet, InFlightQuiet DEF DialRejected, hostVars
  <2>4. CASE DialError
    BY <2>4, HostQuiet, InFlightQuiet DEF DialError, hostVars
  <2>5. CASE DialOk
    BY <2>5, HostQuiet, InFlightEmpty DEF DialOk, hostVars
  <2>6. CASE SyncUnchanged
    BY <2>6, HostQuiet, InFlightQuiet DEF SyncUnchanged, hostVars
  <2>7. CASE SyncLoad
    BY <2>7, HostBeginLoad, InFlightQuiet DEF SyncLoad, Loaders, Loads
  <2>8. CASE ReceiveConfig
    BY <2>8, HostQuiet, InFlightTail DEF ReceiveConfig, Arrived, hostVars
  <2>9. CASE ReceiveEnrolled
    <3>1. /\ inbox # <<>> /\ Head(inbox) = inbox[1] /\ 1 \in 1..Len(inbox)
          /\ Head(inbox) \in Frame
      BY <2>9 DEF ReceiveEnrolled, Arrived, TypeOK
    <3> DEFINE t == Head(inbox).token
    <3>2. t \in issued /\ (t = registered \/ registered \notin held)
      BY <2>9, <3>1 DEF InFlight, ReceiveEnrolled, Arrived
    <3>3. t \in Tokens /\ t # None
      BY <3>2, EnrollmentConstants DEF TypeOK
    <3> HIDE DEF t
    <3>4. Enrolled(disk, t) = [auth |-> t, join |-> None, prev |-> None]
      BY DEF Enrolled
    <3>5. Enrolled(disk, t) \in Config
      BY <3>3, <3>4 DEF Config, MaybeToken
    <3>6. ~reinit' /\ \A q \in Loaders : loading[q] = "none"
      BY <2>9 DEF ReceiveEnrolled, Arrived, Reading, Alone, Serialised
    <3>7. Persist(Enrolled(disk, t)) /\ UNCHANGED <<loading, snap, registered, issued>>
      BY <2>9 DEF ReceiveEnrolled, t
    <3>8. HostInv'
      BY <3>2, <3>3, <3>4, <3>5, <3>6, <3>7, HostPersist
    <3> QED
      BY <2>9, <3>1, <3>8, InFlightTail DEF ReceiveEnrolled
  <2>10. CASE ReceiveReload
    BY <2>10, HostBeginLoad, InFlightTail DEF ReceiveReload, Arrived, Loaders, Loads
  <2>11. CASE ReceiveClose
    BY <2>11, HostQuiet, InFlightEmpty DEF ReceiveClose, Hangup, hostVars
  <2>12. CASE Drop
    BY <2>12, HostQuiet, InFlightEmpty DEF Drop, Hangup, hostVars
  <2>13. CASE Retry
    BY <2>13, HostQuiet, InFlightQuiet DEF Retry, hostVars
  <2> QED
    BY <1>4, <2>1, <2>2, <2>3, <2>4, <2>5, <2>6, <2>7, <2>8, <2>9, <2>10,
       <2>11, <2>12, <2>13 DEF Session
<1>5. CASE Others
  <2>1. ASSUME NEW p \in {"session", "ticker"}, Install(p)
        PROVE  HostInv' /\ InFlight'
    <3>1. cur' = disk /\ p \in Loaders
      BY <2>1 DEF Install, HostInv, LoadsCurrent, Loaders
    <3>2. \A q \in Loaders : loading'[q] = "none"
      BY <2>1, <3>1 DEF Install, EndLoad, HostInv, LoadsCurrent, TypeOK
    <3>3. UNCHANGED <<disk, held, registered, issued, shook, inbox>>
      BY <2>1 DEF Install
    <3>4. GuardHolds'
      BY <2>1, <3>1 DEF Install, EndLoad, HostInv, GuardHolds
    <3> QED
      BY <3>1, <3>2, <3>3, <3>4, InFlightQuiet
         DEF HostInv, LoadsCurrent, CopyLags, ProofSpent, KnownTokens, ContinuityProof
  <2>2. CASE TickReload
    BY <2>2, HostBeginLoad, InFlightQuiet DEF TickReload, Loaders, Loads
  <2>3. CASE TrayReinit
    <3>1. GuardHolds'
      BY <2>3 DEF TrayReinit, Alone, Serialised, Loaders, GuardHolds, MayClear
    <3>2. UNCHANGED <<disk, cur, loading, snap, held, registered, issued, shook, inbox>>
      BY <2>3 DEF TrayReinit
    <3> QED
      BY <3>1, <3>2, InFlightQuiet
         DEF HostInv, LoadsCurrent, CopyLags, ProofSpent, KnownTokens, ContinuityProof
  <2>10. CASE TrayClear
    <3>1. ~reinit' /\ \A q \in Loaders : loading[q] = "none"
      BY <2>10 DEF TrayClear, HostInv, GuardHolds
    <3> DEFINE file == Cleared(disk, cur)
    <3>2. file \in Config
      BY ConfigEdits DEF TypeOK
    <3>3. file.auth = None
      BY DEF Cleared, TypeOK, Config
    <3>4. registered \in held => registered = file.prev
      BY ClearedKeepsProof DEF HostInv
    <3>5. Persist(file) /\ UNCHANGED <<loading, snap, registered, issued>>
      BY <2>10 DEF TrayClear
    <3> HIDE DEF file
    <3>6. HostInv'
      BY <3>1, <3>2, <3>3, <3>4, <3>5, HostPersist
    <3>7. held' = held
      BY <3>3, <3>5 DEF Persist, Write
    <3> QED
      BY <2>10, <3>6, <3>7, InFlightQuiet DEF TrayClear
  <2>4. CASE TrayAutoVPN
    <3>1. ~reinit' /\ \A q \in Loaders : loading[q] = "none"
      BY <2>4 DEF TrayAutoVPN, Alone, Serialised, Loaders
    <3>2. Persist(disk) /\ UNCHANGED <<loading, snap, registered, issued>>
      BY <2>4 DEF TrayAutoVPN
    <3>3. HostInv'
      BY <3>1, <3>2, HostPersist
         DEF HostInv, ProofSpent, KnownTokens, ContinuityProof, TypeOK
    <3>4. held' = held
      BY <3>2 DEF Persist, Write, HostInv, KnownTokens
    <3> QED
      BY <2>4, <3>3, <3>4, InFlightQuiet DEF TrayAutoVPN
  <2>5. ASSUME NEW op \in {"reset", "setJoin"}, CliBegin(op)
        PROVE  HostInv' /\ InFlight'
    BY <2>5, HostBeginLoad, InFlightQuiet DEF CliBegin, Loaders, Loads
  <2>6. CASE CliReset
    <3>1. snap["cli"] = disk /\ "cli" \in Loaders
      BY <2>6 DEF CliReset, HostInv, LoadsCurrent, Loaders
    <3>2. \A q \in Loaders : loading'[q] = "none"
      BY <2>6, <3>1 DEF CliReset, EndLoad, HostInv, LoadsCurrent, TypeOK
    <3>3. UNCHANGED <<cur, registered, issued, shook, inbox>>
      BY <2>6 DEF CliReset
    <3>6. GuardHolds'
      BY <2>6, <3>1 DEF CliReset, EndLoad, HostInv, GuardHolds
    <3>4. CASE UNCHANGED fileVars
      BY <3>2, <3>3, <3>4, <3>6, InFlightQuiet
         DEF HostInv, LoadsCurrent, CopyLags, ProofSpent, KnownTokens, ContinuityProof
    <3>5. CASE Write(Cleared(disk, disk))
      <4>1. /\ Cleared(disk, disk).auth = None
            /\ Cleared(disk, disk).join = disk.join
            /\ Cleared(disk, disk).prev = IF disk.auth # None THEN disk.auth ELSE disk.prev
        BY DEF Cleared, TypeOK, Config
      <4>2. /\ disk'.auth = None /\ disk'.join = disk.join
            /\ disk'.prev = IF disk.auth # None THEN disk.auth ELSE disk.prev
            /\ held' = held
        <5>1. disk' = Cleared(disk, disk)
          BY <3>5 DEF Write
        <5>2. held' = held \union ({Cleared(disk, disk).auth} \ {None})
          BY <3>5 DEF Write
        <5>3. Cleared(disk, disk).auth = None
          BY <4>1
        <5> QED
          BY <4>1, <5>1, <5>2, <5>3
      <4>3. CopyLags' /\ ProofSpent' /\ KnownTokens'
        BY <3>3, <4>2 DEF HostInv, CopyLags, ProofSpent, KnownTokens
      <4>4. None \notin held
        BY EnrollmentConstants DEF TypeOK
      <4>5. ContinuityProof'
        BY <3>3, <4>2, <4>4 DEF HostInv, ContinuityProof, ProofSpent
      <4>6. LoadsCurrent'
        BY <3>2 DEF LoadsCurrent
      <4> QED
        BY <3>3, <3>6, <4>2, <4>3, <4>5, <4>6, InFlightQuiet DEF HostInv
    <3> QED
      BY <2>6, <3>1, <3>4, <3>5 DEF CliReset
  <2>7. CASE CliSetJoin
    <3>1. snap["cli"] = disk /\ "cli" \in Loaders
      BY <2>7 DEF CliSetJoin, HostInv, LoadsCurrent, Loaders
    <3>2. \A q \in Loaders : loading'[q] = "none"
      BY <2>7, <3>1 DEF CliSetJoin, EndLoad, HostInv, LoadsCurrent, TypeOK
    <3>3. UNCHANGED <<cur, registered, issued, shook, inbox>>
      BY <2>7 DEF CliSetJoin
    <3>4. disk'.auth = disk.auth /\ disk'.prev = disk.prev /\ disk'.join = JoinKey
      BY <2>7, <3>1 DEF CliSetJoin, Write, TypeOK, Config
    <3>5. held' = held
      BY <2>7, <3>1, <3>4 DEF CliSetJoin, Write, HostInv, KnownTokens
    <3>6. LoadsCurrent'
      BY <3>2 DEF LoadsCurrent
    <3>7. GuardHolds'
      BY <2>7, <3>1 DEF CliSetJoin, EndLoad, HostInv, GuardHolds
    <3> QED
      BY <3>3, <3>4, <3>5, <3>6, <3>7, InFlightQuiet
         DEF HostInv, CopyLags, ProofSpent, KnownTokens, ContinuityProof
  <2>8. CASE OperatorToken
    BY <2>8 DEF OperatorToken, Serialised
  <2>9. CASE Restart
    <3>1. UNCHANGED <<disk, held, registered, issued>> /\ cur' = disk /\ inbox' = <<>>
      BY <2>9 DEF Restart, Hangup
    <3>2. \A q \in Loaders : loading'[q] # "none"
                             => loading[q] # "none" /\ snap'[q] = snap[q]
      BY <2>9 DEF Restart, TypeOK, Loaders
    <3>3. LoadsCurrent'
      BY <3>1, <3>2 DEF HostInv, LoadsCurrent
    <3>5. GuardHolds'
      BY <2>9 DEF Restart, GuardHolds
    <3>4. HostInv'
      BY <3>1, <3>3, <3>5 DEF HostInv, CopyLags, ProofSpent, KnownTokens, ContinuityProof
    <3> QED
      BY <3>1, <3>4, InFlightEmpty
  <2> QED
    BY <1>5, <2>1, <2>2, <2>3, <2>4, <2>5, <2>6, <2>7, <2>8, <2>9, <2>10 DEF Others
<1>6. CASE Directory
  <2>0. ASSUME NEW token \in Tokens, token \notin issued, registered' = token,
               issued' = issued \union {token},
               UNCHANGED <<disk, cur, loading, snap, reinit, held>>
        PROVE  HostInv' /\ registered' \notin held'
    BY <2>0 DEF HostInv, LoadsCurrent, CopyLags, GuardHolds, ProofSpent, KnownTokens,
                ContinuityProof
  <2>1. CASE Admit
    BY <2>1, HostQuiet, InFlightSend DEF Admit, hostVars
  <2>2. ASSUME NEW token \in Tokens, Enroll(token) PROVE HostInv' /\ InFlight'
    <3>1. HostInv'
      BY <2>0, <2>2 DEF Enroll
    <3>2. inbox' = <<[kind |-> "enrolled", token |-> token, code |-> 0]>>
      BY <2>2 DEF Enroll, Send, InFlight
    <3>3. shook' = "in" /\ registered' = token /\ token \in issued'
      BY <2>2 DEF Enroll
    <3>4. \A i \in 1..Len(inbox') : i = 1 /\ inbox'[i].token = token
      BY <3>2
    <3> QED
      BY <3>1, <3>3, <3>4 DEF InFlight
  <2>3. CASE Refuse
    BY <2>3, HostQuiet, InFlightSend DEF Refuse, hostVars
  <2>4. ASSUME NEW code, Kick(code), registered' \notin held', issued \subseteq issued'
        PROVE  InFlight'
    <3>1. CASE Send("close", None, code) /\ shook' = "out"
      <4>1. inbox \in Seq(Frame)
        BY DEF TypeOK
      <4> DEFINE new == [kind |-> "close", token |-> None, code |-> code]
      <4>2. Len(inbox') = Len(inbox) + 1 /\ inbox'[Len(inbox) + 1] = new
        BY <3>1, <4>1 DEF Send
      <4>3. \A i \in 1..Len(inbox) : inbox'[i] = inbox[i]
        BY <3>1, <4>1 DEF Send
      <4>4. new.kind # "enrolled"
        OBVIOUS
      <4>5. ASSUME NEW i \in 1..Len(inbox'), inbox'[i].kind = "enrolled"
            PROVE  i \in 1..Len(inbox) /\ inbox'[i] = inbox[i]
        BY <4>1, <4>2, <4>3, <4>4, <4>5
      <4> QED
        BY <2>4, <3>1, <4>5 DEF InFlight
    <3>2. CASE UNCHANGED <<inbox, shook>>
      BY <2>4, <3>2 DEF InFlight
    <3> QED
      BY <2>4, <3>1, <3>2 DEF Kick
  <2>5. ASSUME NEW token \in Tokens, AdminMint(token) PROVE HostInv' /\ InFlight'
    <3>1. HostInv' /\ registered' \notin held'
      BY <2>0, <2>5 DEF AdminMint
    <3> QED
      BY <2>4, <2>5, <3>1 DEF AdminMint
  <2>6. CASE AdminDelete
    <3>1. registered' \notin held'
      BY <2>6, EnrollmentConstants DEF AdminDelete, TypeOK
    <3>2. HostInv'
      BY <2>6, <3>1 DEF AdminDelete, HostInv, LoadsCurrent, CopyLags, GuardHolds,
                        ProofSpent, KnownTokens, ContinuityProof
    <3> QED
      BY <2>4, <2>6, <3>1, <3>2 DEF AdminDelete
  <2>7. CASE Supersede
    BY <2>7, HostQuiet, InFlightSend DEF Supersede, Kick, hostVars
  <2>8. CASE SendReload
    BY <2>8, HostQuiet, InFlightSend DEF SendReload, hostVars
  <2> QED
    BY <1>6, <2>1, <2>2, <2>3, <2>5, <2>6, <2>7, <2>8 DEF Directory
<1> QED
  BY <1>3, <1>4, <1>5, <1>6 DEF Next

\* A host starts in a state that satisfies the invariant.
LEMMA InvInit == Init => EnrollmentInv
<1> SUFFICES ASSUME Init PROVE EnrollmentInv
  OBVIOUS
<1>1. TypeOK
  BY InitType
<1>2. disk.prev = None
  BY StartConfigsAssumption DEF Init
<1>3. inbox = <<>> /\ cur = disk /\ shook = "out" /\ registered = disk.auth
      /\ issued = held /\ held = {disk.auth} \ {None}
  BY DEF Init
<1>4. LoadsCurrent
  BY DEF Init, LoadsCurrent
<1>5. GuardHolds
  BY DEF Init, GuardHolds
<1> QED
  BY <1>1, <1>2, <1>3, <1>4, <1>5
     DEF EnrollmentInv, CopyLags, ProofSpent, InFlight, KnownTokens, ContinuityProof

\* The invariant EnrollmentInv holds in every state of a host whose agent.yml is
\* edited by one party at a time (PersistEnrollment, ClearEnrollment, Reload).
THEOREM InvHolds == ASSUME Serialised PROVE Spec => []EnrollmentInv
<1>1. EnrollmentInv /\ [Next]_vars => EnrollmentInv'
  BY InvStep
<1> QED
  BY <1>1, InvInit, PTL DEF Spec

\* With edits of agent.yml one at a time (Serialised), a host the directory
\* still knows under a token it once held never loses the means to prove it:
\* reset-enrollment, the tray's reinit, restarts, lost frames and failed
\* writes included.
THEOREM ContinuityHolds == ASSUME Serialised PROVE Spec => []ContinuityProof
<1>1. EnrollmentInv => ContinuityProof
  BY DEF EnrollmentInv
<1> QED
  BY <1>1, InvHolds, PTL

\* A configuration that is cleared behind the guard of reinit keeps a
\* credential, although the guard looks at cm.current and not at the file.
LEMMA ClearedNotStranded ==
    ASSUME TypeOK, CopyLags, NEW mem \in Config,
           mem = cur \/ mem = disk, MayClear(mem), Credential(disk) # None
    PROVE  Credential(Cleared(disk, mem)) # None
<1>1. Cleared(disk, mem).auth = None /\ Cleared(disk, mem).join = disk.join
  BY DEF Cleared, TypeOK, Config
<1>2. disk.join # None
  BY EnrollmentConstants DEF MayClear, CopyLags, Credential, TypeOK, Config
<1> QED
  BY <1>1, <1>2 DEF Credential

\* No step of a serialised environment removes the last credential.
LEMMA StrandedStep ==
    ASSUME Serialised, EnrollmentInv, [Next]_vars, Credential(disk) # None
    PROVE  Credential(disk') # None
<1> USE DEF fileVars
<1>0. TypeOK /\ CopyLags /\ LoadsCurrent /\ GuardHolds /\ InFlight /\ disk \in Config /\ cur \in Config
  BY DEF EnrollmentInv, TypeOK
<1>1. CASE UNCHANGED vars
  BY <1>1 DEF vars
<1>2. CASE Session
  <2>1. CASE ReceiveEnrolled
    <3>1. Head(inbox) = inbox[1] /\ 1 \in 1..Len(inbox)
      BY <1>0, <2>1 DEF ReceiveEnrolled, Arrived, TypeOK
    <3>2. Head(inbox).token # None
      BY <1>0, <2>1, <3>1, EnrollmentConstants
         DEF InFlight, ReceiveEnrolled, Arrived, TypeOK
    <3>3. disk' = disk \/ disk' = Enrolled(disk, Head(inbox).token)
      BY <2>1 DEF ReceiveEnrolled, Persist, Write
    <3> QED
      BY <3>2, <3>3 DEF Credential, Enrolled
  <2>2. CASE ~ReceiveEnrolled
    <3>1. disk' = disk
      BY <1>2, <2>2 DEF Session, BeginDial, NoCredential, DialOk, DialRejected,
         DialError, SyncUnchanged, SyncLoad, ReceiveConfig, ReceiveReload,
         ReceiveClose, Drop, Retry
    <3> QED
      BY <3>1
  <2> QED
    BY <2>1, <2>2
<1>3. CASE Others
  <2>1. CASE TrayClear
    <3>1. disk' = disk \/ disk' = Cleared(disk, cur)
      BY <2>1 DEF TrayClear, Persist, Write
    <3> QED
      BY <1>0, <2>1, <3>1, ClearedNotStranded DEF TrayClear, GuardHolds
  <2>2. CASE CliReset
    <3>1. snap["cli"] = disk
      BY <1>0, <2>2 DEF CliReset, LoadsCurrent, Loaders
    <3>2. disk' = disk \/ (disk' = Cleared(disk, disk) /\ MayClear(disk))
      BY <2>2, <3>1 DEF CliReset, Write
    <3> QED
      BY <1>0, <3>2, ClearedNotStranded
  <2>3. CASE CliSetJoin
    <3>1. disk'.join = JoinKey
      BY <1>0, <2>3 DEF CliSetJoin, Write, TypeOK, Config, Loaders
    <3> QED
      BY <3>1, EnrollmentConstants DEF Credential
  <2>4. CASE ~(TrayClear \/ CliReset \/ CliSetJoin)
    <3>1. disk' = disk
      BY <1>3, <2>4 DEF Others, Install, TickReload, TrayReinit, TrayAutoVPN, Persist, Write,
         CliBegin, OperatorToken, Restart, Serialised
    <3> QED
      BY <3>1
  <2> QED
    BY <2>1, <2>2, <2>3, <2>4
<1>4. CASE Directory
  <2>1. disk' = disk
    BY <1>4 DEF Directory, Admit, Enroll, Refuse, AdminMint, AdminDelete,
                Supersede, SendReload
  <2> QED
    BY <2>1
<1> QED
  BY <1>1, <1>2, <1>3, <1>4 DEF Next

\* With edits of agent.yml one at a time, no step takes a host's last
\* credential away: not reset-enrollment, not reinit behind a stale
\* cm.current, not an enrollment whose answer is late.
THEOREM NeverStrandedHolds == ASSUME Serialised PROVE Spec => NeverStranded
<1>1. EnrollmentInv /\ [Next]_vars
        => [Credential(disk) # None => Credential(disk') # None]_vars
  BY StrandedStep
<1> QED
  BY <1>1, InvHolds, PTL DEF Spec, NeverStranded

-----------------------------------------------------------------------------
(* No stale copy is taken for the file.                                      *)

Watchers == {"session", "ticker"}

\* The half of ConfigConverges that is safety: a copy that differs from agent.yml
\* is never taken for current, so that the next tick loads the file, whatever
\* loads, commands and failing writes have met (ReloadIfChanged, Persist...).
StaleNoticed == cur # disk => ~seen

\* A load by ReloadIfChanged that would be recorded has read the present file.
FreshLoads ==
    /\ \A p \in Watchers : loading[p] \in {"none", "ifChanged", "always"}
    /\ \A p \in Watchers : loading[p] = "ifChanged" /\ fresh[p] => snap[p] = disk

\* What a load by Reload has read is still the file.
AlwaysCurrent == \A p \in Watchers : loading[p] = "always" => snap[p] = disk

\* One reason for that: nobody sends reload_config.
NoReload ==
    /\ \A i \in 1..Len(inbox) : inbox[i].kind # "reload"
    /\ \A p \in Watchers : loading[p] # "always"

\* The other one: nobody is at the file together with anybody else.
OneAtFile == LoadsCurrent /\ (reinit => \A p \in Loaders : loading[p] = "none")

fileAndCopies == <<disk, seen, fresh, held, cur, loading, snap, reinit>>

\* Every step that is not one of these leaves the file and its copies alone.
FileSteps ==
    \/ SyncLoad \/ ReceiveEnrolled \/ ReceiveReload
    \/ \E p \in Watchers : Install(p)
    \/ TickReload \/ TrayReinit \/ TrayClear \/ TrayAutoVPN
    \/ \E op \in {"reset", "setJoin"} : CliBegin(op)
    \/ CliReset \/ CliSetJoin \/ OperatorToken \/ Restart

\* Nothing else reads or writes agent.yml or the copies of it.
LEMMA FileLeftAlone == [Next]_vars => FileSteps \/ UNCHANGED fileAndCopies
<1> USE DEF fileVars, loadVars, fileAndCopies
<1>1. CASE UNCHANGED vars
  BY <1>1 DEF vars
<1>2. CASE Session
  BY <1>2 DEF Session, FileSteps, BeginDial, NoCredential, DialOk, DialRejected, DialError,
              SyncUnchanged, ReceiveConfig, ReceiveClose, Drop, Retry
<1>3. CASE Others
  BY <1>3 DEF Others, FileSteps, Watchers
<1>4. CASE Directory
  BY <1>4 DEF Directory, Admit, Enroll, AdminMint, Refuse, AdminDelete, Supersede, SendReload
<1> QED
  BY <1>1, <1>2, <1>3, <1>4 DEF Next

\* A load that begins has read the file.
LEMMA BeginNoticed ==
    ASSUME TypeOK, FreshLoads, NEW p \in Loaders, NEW kind \in Loads, BeginLoad(p, kind),
           p \in Watchers => kind \in {"ifChanged", "always"}, UNCHANGED disk
    PROVE  FreshLoads'
<1>1. \A q \in Loaders : /\ loading'[q] = IF q = p THEN kind ELSE loading[q]
                         /\ snap'[q] = IF q = p THEN disk ELSE snap[q]
                         /\ fresh'[q] = IF q = p THEN TRUE ELSE fresh[q]
  BY DEF BeginLoad, TypeOK
<1> QED
  BY <1>1 DEF FreshLoads, Watchers, Loaders

\* The loads of the others go on when one has ended.
LEMMA EndNoticed ==
    ASSUME TypeOK, FreshLoads, NEW p \in Loaders, EndLoad(p), UNCHANGED disk,
           \A q \in Loaders : fresh'[q] => fresh[q]
    PROVE  FreshLoads'
<1>1. \A q \in Loaders : /\ loading'[q] = IF q = p THEN "none" ELSE loading[q]
                         /\ q # p => snap'[q] = snap[q]
  BY DEF EndLoad, TypeOK
<1> QED
  BY <1>1 DEF FreshLoads, Watchers, Loaders

\* Writing the file makes every load stale, and every copy one to be compared.
LEMMA WriteNoticed ==
    ASSUME FreshLoads, NEW file, Write(file),
           \A q \in Watchers : loading'[q] \in {loading[q], "none"}
    PROVE  FreshLoads' /\ StaleNoticed'
<1>1. seen' = FALSE /\ \A q \in Loaders : fresh'[q] = FALSE
  BY DEF Write
<1>2. \A q \in Watchers : q \in Loaders
  BY DEF Watchers, Loaders
<1> QED
  BY <1>1, <1>2, Zenon DEF FreshLoads, StaleNoticed

\* A Persist method writes and loads, writes only, or does nothing.
LEMMA PersistNoticed ==
    ASSUME FreshLoads, StaleNoticed, NEW file, Persist(file), UNCHANGED <<loading, snap>>
    PROVE  FreshLoads' /\ StaleNoticed'
<1>1. CASE Write(file)
  BY <1>1, WriteNoticed
<1>2. CASE UNCHANGED <<fileVars, cur>>
  BY <1>2 DEF fileVars, FreshLoads, StaleNoticed
<1> QED
  BY <1>1, <1>2 DEF Persist

\* No step lets a stale copy pass for the file if Reload installs none.
LEMMA NoticedStep ==
    ASSUME TypeOK, FreshLoads, StaleNoticed, AlwaysCurrent, [Next]_vars
    PROVE  FreshLoads' /\ StaleNoticed'
<1> USE DEF fileVars, loadVars
<1>1. CASE UNCHANGED fileAndCopies
  BY <1>1 DEF fileAndCopies, FreshLoads, StaleNoticed
<1>2. CASE SyncLoad \/ TickReload \/ ReceiveReload
  <2>1. PICK p \in Loaders, kind \in {"ifChanged", "always"} : BeginLoad(p, kind)
    BY <1>2 DEF SyncLoad, TickReload, ReceiveReload, Loaders
  <2>2. UNCHANGED <<disk, seen, cur>>
    BY <1>2 DEF SyncLoad, TickReload, ReceiveReload
  <2> QED
    BY <2>1, <2>2, BeginNoticed DEF StaleNoticed, Loads
<1>3. ASSUME NEW op \in {"reset", "setJoin"}, CliBegin(op) PROVE FreshLoads' /\ StaleNoticed'
  BY <1>3, BeginNoticed DEF CliBegin, StaleNoticed, Loads, Loaders, Watchers
<1>4. ASSUME NEW p \in Watchers, Install(p) PROVE FreshLoads' /\ StaleNoticed'
  <2>1. p \in Loaders /\ UNCHANGED disk /\ cur' = snap[p] /\ EndLoad(p)
        /\ fresh' = [fresh EXCEPT ![p] = FALSE]
    BY <1>4 DEF Install, Watchers, Loaders
  <2>2. FreshLoads'
    BY <2>1, EndNoticed DEF TypeOK
  <2>3. CASE loading[p] = "ifChanged"
    <3>1. seen' => fresh[p]
      BY <1>4, <2>3, Zenon DEF Install
    <3>2. fresh[p] => cur' = disk'
      BY <2>1, <2>3 DEF FreshLoads
    <3> QED
      BY <2>2, <3>1, <3>2 DEF StaleNoticed
  <2>4. CASE loading[p] = "always"
    <3>1. cur' = disk'
      BY <2>1, <2>4 DEF AlwaysCurrent
    <3> QED
      BY <2>2, <3>1 DEF StaleNoticed
  <2> QED
    BY <1>4, <2>3, <2>4 DEF Install
<1>5. CASE TrayReinit
  BY <1>5 DEF TrayReinit, FreshLoads, StaleNoticed
<1>6. CASE ReceiveEnrolled \/ TrayClear \/ TrayAutoVPN
  BY <1>6, PersistNoticed DEF ReceiveEnrolled, TrayClear, TrayAutoVPN
<1>7. CASE CliReset \/ CliSetJoin
  <2>1. EndLoad("cli") /\ UNCHANGED cur /\ "cli" \in Loaders
    BY <1>7 DEF CliReset, CliSetJoin, Loaders
  <2>2. \A q \in Watchers : loading'[q] \in {loading[q], "none"}
    BY <2>1 DEF EndLoad, TypeOK, Watchers, Loaders
  <2>3. CASE UNCHANGED fileVars
    BY <2>1, <2>3, EndNoticed DEF StaleNoticed
  <2>4. ASSUME NEW file, Write(file) PROVE FreshLoads' /\ StaleNoticed'
    BY <2>2, <2>4, WriteNoticed
  <2> QED
    BY <1>7, <2>3, <2>4 DEF CliReset, CliSetJoin
<1>8. CASE OperatorToken
  BY <1>8, WriteNoticed DEF OperatorToken
<1>9. CASE Restart
  BY <1>9 DEF Restart, TypeOK, FreshLoads, StaleNoticed, Watchers, Loaders
<1> QED
  BY <1>1, <1>2, <1>3, <1>4, <1>5, <1>6, <1>7, <1>8, <1>9, FileLeftAlone DEF FileSteps

\* Without "reloadCommand" no reload_config arrives.
LEMMA NoReloadStep ==
    ASSUME "reloadCommand" \notin Env, TypeOK, NoReload, [Next]_vars
    PROVE  NoReload'
<1> USE DEF fileVars, loadVars, dirVars
<1>1. ASSUME inbox' = Tail(inbox), inbox # <<>>
      PROVE  \A i \in 1..Len(inbox') : inbox'[i].kind # "reload"
  BY <1>1 DEF TypeOK, NoReload
<1>2. ASSUME NEW kind, NEW token, NEW code, Send(kind, token, code), kind # "reload"
      PROVE  \A i \in 1..Len(inbox') : inbox'[i].kind # "reload"
  BY <1>2 DEF Send, TypeOK, NoReload
<1>3. \A i \in 1..Len(inbox') : inbox'[i].kind # "reload"
  <2>1. CASE inbox' = inbox \/ inbox' = <<>>
    BY <2>1 DEF NoReload
  <2>2. CASE inbox # <<>> /\ inbox' = Tail(inbox)
    BY <1>1, <2>2
  <2>3. CASE \E kind \in {"config", "enrolled", "close"} :
               \E token, code : Send(kind, token, code)
    BY <1>2, <2>3
  <2>4. CASE UNCHANGED vars
    BY <2>1, <2>4 DEF vars
  <2>5. CASE Session
    BY <2>1, <2>2, <2>5 DEF Session, BeginDial, NoCredential, DialOk, DialRejected, DialError,
       SyncUnchanged, SyncLoad, ReceiveConfig, ReceiveEnrolled, ReceiveReload, ReceiveClose,
       Drop, Retry, Hangup, Arrived
  <2>6. CASE Others
    BY <2>1, <2>6 DEF Others, Install, TickReload, TrayReinit, TrayClear, TrayAutoVPN, CliBegin,
       CliReset, CliSetJoin, OperatorToken, Restart, Hangup
  <2>7. CASE Directory
    BY <2>1, <2>3, <2>7 DEF Directory, Admit, Enroll, AdminMint, Refuse, AdminDelete, Supersede,
       SendReload, Kick
  <2> QED
    BY <2>4, <2>5, <2>6, <2>7 DEF Next
<1>4. ASSUME NEW p \in Loaders, NEW kind \in {"ifChanged", "reset", "setJoin"},
             BeginLoad(p, kind)
      PROVE  \A q \in Watchers : loading'[q] # "always"
  BY <1>4 DEF BeginLoad, TypeOK, NoReload, Watchers, Loaders
<1>5. ASSUME NEW p \in Loaders, EndLoad(p)
      PROVE  \A q \in Watchers : loading'[q] # "always"
  BY <1>5 DEF EndLoad, TypeOK, NoReload, Watchers, Loaders
<1>6. \A q \in Watchers : loading'[q] # "always"
  <2>1. CASE UNCHANGED loading
    BY <2>1 DEF NoReload
  <2>2. CASE SyncLoad \/ TickReload \/ \E op \in {"reset", "setJoin"} : CliBegin(op)
    BY <1>4, <2>2 DEF SyncLoad, TickReload, CliBegin, Loaders
  <2>3. ~ReceiveReload
    <3>1. inbox # <<>> => Len(inbox) \in Nat \ {0} /\ Head(inbox) = inbox[1]
      BY DEF TypeOK
    <3> QED
      BY <3>1 DEF ReceiveReload, Arrived, NoReload
  <2>4. CASE (\E p \in Watchers : Install(p)) \/ CliReset \/ CliSetJoin
    BY <1>5, <2>4 DEF Install, CliReset, CliSetJoin, Watchers, Loaders
  <2>5. CASE Restart
    BY <2>5 DEF Restart, TypeOK, Watchers, Loaders
  <2>6. CASE ReceiveEnrolled \/ TrayReinit \/ TrayClear \/ TrayAutoVPN \/ OperatorToken
    BY <2>1, <2>6 DEF ReceiveEnrolled, TrayReinit, TrayClear, TrayAutoVPN, OperatorToken
  <2>7. CASE UNCHANGED fileAndCopies
    BY <2>1, <2>7 DEF fileAndCopies
  <2> QED
    BY <2>2, <2>3, <2>4, <2>5, <2>6, <2>7, FileLeftAlone DEF FileSteps
<1> QED
  BY <1>3, <1>6 DEF NoReload

\* Without "overlap" no two parties are at the file, even when writes fail half-way.
LEMMA OneAtFileStep ==
    ASSUME "overlap" \notin Env, TypeOK, OneAtFile, [Next]_vars
    PROVE  OneAtFile'
<1> USE DEF fileVars, loadVars
<1>1. CASE UNCHANGED fileAndCopies
  BY <1>1 DEF fileAndCopies, OneAtFile, LoadsCurrent
<1>2. ASSUME NEW p \in Loaders, NEW kind, Alone(p), BeginLoad(p, kind), UNCHANGED disk
      PROVE  OneAtFile'
  <2>1. ~reinit /\ \A q \in Loaders : loading[q] = "none"
    BY <1>2 DEF Alone, BeginLoad
  <2>2. snap'[p] = disk /\ \A q \in Loaders \ {p} : loading'[q] = "none"
    BY <1>2, <2>1 DEF BeginLoad, TypeOK
  <2>3. ~reinit'
    BY <1>2, <2>1 DEF BeginLoad
  <2> QED
    BY <1>2, <2>2, <2>3 DEF OneAtFile, LoadsCurrent
<1>3. ASSUME NEW p \in Loaders, loading[p] # "none", EndLoad(p) PROVE OneAtFile'
  <2>1. ~reinit /\ \A q \in Loaders \ {p} : loading[q] = "none"
    BY <1>3 DEF OneAtFile, LoadsCurrent
  <2>2. \A q \in Loaders : loading'[q] = "none"
    BY <1>3, <2>1 DEF EndLoad, TypeOK
  <2> QED
    BY <2>2 DEF OneAtFile, LoadsCurrent
<1>4. ASSUME \A q \in Loaders : loading[q] = "none", UNCHANGED loading PROVE OneAtFile'
  BY <1>4 DEF OneAtFile, LoadsCurrent
<1>5. CASE SyncLoad \/ TickReload \/ ReceiveReload \/ \E op \in {"reset", "setJoin"} : CliBegin(op)
  BY <1>2, <1>5 DEF SyncLoad, TickReload, ReceiveReload, CliBegin, Loaders
<1>6. CASE (\E p \in Watchers : Install(p)) \/ CliReset \/ CliSetJoin
  BY <1>3, <1>6 DEF Install, CliReset, CliSetJoin, Watchers, Loaders
<1>7. CASE TrayReinit \/ TrayAutoVPN \/ OperatorToken
  <2>1. \A q \in Loaders : loading[q] = "none"
    BY <1>7 DEF TrayReinit, TrayAutoVPN, OperatorToken, Alone, Loaders
  <2> QED
    BY <1>4, <1>7, <2>1 DEF TrayReinit, TrayAutoVPN, OperatorToken
<1>8. CASE TrayClear
  BY <1>4, <1>8 DEF TrayClear, OneAtFile
<1>9. CASE ReceiveEnrolled
  <2>1. \A q \in Loaders : loading[q] = "none"
    BY <1>9 DEF ReceiveEnrolled, Arrived, Reading, Alone
  <2> QED
    BY <1>4, <1>9, <2>1 DEF ReceiveEnrolled
<1>10. CASE Restart
  <2>1. loading'["cli"] = loading["cli"] /\ snap'["cli"] = snap["cli"]
        /\ \A q \in Watchers : loading'[q] = "none"
    BY <1>10 DEF Restart, TypeOK, Watchers, Loaders
  <2>2. \A q \in Loaders : q = "cli" \/ loading'[q] = "none"
    BY <2>1 DEF Watchers, Loaders
  <2>3. ~reinit' /\ disk' = disk
    BY <1>10 DEF Restart
  <2> QED
    BY <2>1, <2>2, <2>3 DEF OneAtFile, LoadsCurrent, Loaders
<1> QED
  BY <1>1, <1>5, <1>6, <1>7, <1>8, <1>9, <1>10, FileLeftAlone DEF FileSteps

\* However loads, commands, operators and failing writes interleave, the daemon
\* never takes a stale copy for agent.yml, unless reload_config may overlap with
\* them: Reload installs what it has read without recording or comparing it
\* (config.go, Reload, ReloadIfChanged).
THEOREM StaleNoticedHolds ==
    ASSUME ~({"overlap", "reloadCommand"} \subseteq Env)
    PROVE  Spec => []StaleNoticed
<1>1. Init => TypeOK /\ FreshLoads /\ StaleNoticed /\ NoReload /\ OneAtFile
  BY InitType DEF Init, FreshLoads, StaleNoticed, NoReload, OneAtFile, LoadsCurrent,
                  Watchers, Loaders
<1>2. CASE "reloadCommand" \notin Env
  <2>1. NoReload => AlwaysCurrent
    BY DEF NoReload, AlwaysCurrent
  <2>2. /\ TypeOK /\ FreshLoads /\ StaleNoticed /\ NoReload /\ [Next]_vars
        => (TypeOK /\ FreshLoads /\ StaleNoticed /\ NoReload)'
    BY <1>2, <2>1, TypeStep, NoticedStep, NoReloadStep
  <2> QED
    BY <1>1, <2>2, PTL DEF Spec
<1>3. CASE "overlap" \notin Env
  <2>1. OneAtFile => AlwaysCurrent
    BY DEF OneAtFile, LoadsCurrent, AlwaysCurrent, Watchers, Loaders
  <2>2. /\ TypeOK /\ FreshLoads /\ StaleNoticed /\ OneAtFile /\ [Next]_vars
        => (TypeOK /\ FreshLoads /\ StaleNoticed /\ OneAtFile)'
    BY <1>3, <2>1, TypeStep, NoticedStep, OneAtFileStep
  <2> QED
    BY <1>1, <2>2, PTL DEF Spec
<1> QED
  BY <1>2, <1>3
=============================================================================
