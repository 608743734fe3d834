---- MODULE Listener_proofs ----
(***************************************************************************)
(* Proofs about Listener for every set of addresses and session ids, every *)
(* number of connections and every capacity of acceptCh.                   *)
(***************************************************************************)
EXTENDS Listener, SequenceTheorems, TLAPS

\* NewListener starts without connections
LEMMA InitHolds == Init => IInv
<1> SUFFICES ASSUME Init PROVE IInv
  OBVIOUS
<1>0. AnyAddr \in Addrs /\ AnyId \in Ids
  BY ListenerAssumption DEF AnyAddr, AnyId
<1> USE <1>0, ListenerAssumption DEF Init, None
<1>1. TypeOK
  <2>1. acceptCh \in Seq(Conns) /\ Len(acceptCh) <= AcceptCap
    OBVIOUS
  <2>2. /\ connections \in [Addrs -> Conns \cup {None}] /\ sessions \in [Ids -> Conns \cup {None}]
        /\ cur \in Conns \cup {None} /\ closing \in Conns \cup {None}
    OBVIOUS
  <2>3. /\ remoteAddr \in [Conns -> Addrs] /\ sessionID \in [Conns -> Ids]
        /\ onClose \in [Conns -> BOOLEAN] /\ target \in [Conns -> Conns \cup {None}]
        /\ targetAddr \in [Conns -> Addrs]
        /\ life \in [Conns -> {"none", "new", "open", "closing", "found", "located", "closed"}]
    OBVIOUS
  <2>4. migrations \in 0..MaxMigrations /\ created \in 0..MaxConns
    OBVIOUS
  <2>5. accepted \subseteq Conns /\ conns \subseteq Conns /\ addr \in Addrs /\ id \in Ids
        /\ oldAddr \in Addrs /\ crashed \in BOOLEAN
    OBVIOUS
  <2> QED
    BY <2>1, <2>2, <2>3, <2>4, <2>5 DEF TypeOK
<1>2. Registration
  BY DEF Registration
<1>3. RoutesAgree
  BY DEF RoutesAgree
<1> QED
  BY <1>1, <1>2, <1>3 DEF IInv

\* The address and the id that stand for none are an address and an id (readLoop)
LEMMA NewAddr == AnyAddr \in Addrs /\ AnyId \in Ids
BY ListenerAssumption DEF AnyAddr, AnyId

-----------------------------------------------------------------------------
\* The steps of readLoop outside newMTPConn and handleMigration change neither map of
\* addresses nor an address, except that sessions learns the new connection
LEMMA RegisterStep ==
    ASSUME IInv,
           StopReading \/ LookUp \/ RegisterSession \/ StartWorkers \/ OfferConn \/ Dropped
    PROVE  IInv'
<1> USE ListenerAssumption, NewAddr DEF IInv, None, Conns, Goto, NextDatagram
<1>1. CASE StopReading
  BY <1>1 DEF StopReading, TypeOK, Registration, RoutesAgree, connVars, removeVars, shutVars
<1>2. CASE LookUp
  BY <1>2, SMTT(60) DEF LookUp, NextFor, TypeOK, Registration, RoutesAgree, connVars, removeVars, shutVars
<1>3. CASE RegisterSession
  BY <1>3 DEF RegisterSession, TypeOK, Registration, RoutesAgree, connVars, removeVars, shutVars
<1>4. CASE StartWorkers
  <2>1. cur \in Conns /\ reader = "start"
    BY <1>4 DEF StartWorkers, TypeOK, Registration
  <2>2. /\ reader' \in {"accept", "read"} /\ cur' \in {cur, None}
        /\ reader' = "accept" => cur' = cur
        /\ addr' \in Addrs /\ id' \in Ids /\ oldAddr' \in Addrs /\ unannounced' \subseteq Conns
    BY <1>4, <2>1 DEF StartWorkers, Announce, TypeOK
  <2>3. /\ onClose' \in [Conns -> BOOLEAN]
        /\ life' \in [Conns -> {"none", "new", "open", "closing", "found", "located", "closed"}]
        /\ \A c \in Conns : life'[c] \in {"found", "located"} => life[c] \in {"found", "located"}
        /\ UNCHANGED <<connections, sessions, acceptCh, accepted, migrations, created,
                       remoteAddr, sessionID, removeVars, shutVars, crashed>>
    BY <1>4, <2>1 DEF StartWorkers, TypeOK
  <2>4. TypeOK'
    BY <2>2, <2>3 DEF TypeOK, removeVars, shutVars
  <2>5. Registration'
    BY <2>1, <2>2, <2>3 DEF TypeOK, Registration, removeVars
  <2>6. RoutesAgree'
    BY <2>1, <2>2, <2>3 DEF RoutesAgree
  <2> QED
    BY <2>4, <2>5, <2>6
<1>5. CASE OfferConn
  <2>0. cur \in Conns /\ acceptCh \in Seq(Conns) /\ Len(acceptCh) <= AcceptCap
    BY <1>5 DEF OfferConn, TypeOK, Registration
  <2>1. acceptCh' \in Seq(Conns) /\ Len(acceptCh') <= AcceptCap
    <3>1. CASE Len(acceptCh) < AcceptCap /\ acceptCh' = Append(acceptCh, cur)
      <4>1. acceptCh' \in Seq(Conns) /\ Len(acceptCh') = Len(acceptCh) + 1 /\ Len(acceptCh) \in Nat
        BY <2>0, <3>1
      <4> QED
        BY <3>1, <4>1
    <3>2. CASE acceptCh' = acceptCh
      BY <2>0, <3>2
    <3> QED
      BY <1>5, <3>1, <3>2 DEF OfferConn
  <2>2. /\ life' \in [Conns -> {"none", "new", "open", "closing", "found", "located", "closed"}]
        /\ \A c \in Conns : life'[c] \in {"found", "located"} => life[c] \in {"found", "located"}
    BY <1>5 DEF OfferConn, TypeOK
  <2>3. /\ crashed' \in BOOLEAN /\ cur' \in {cur, None} /\ reader' \in {"read", "drop", reader}
        /\ cur' = None => reader' = "read"
        /\ addr' \in Addrs /\ id' \in Ids /\ oldAddr' \in Addrs
        /\ UNCHANGED <<connections, sessions, accepted, unannounced, migrations, connVars,
                       removeVars, shutVars>>
    <3>1. crashed' \in BOOLEAN
      BY <1>5, Zenon DEF OfferConn, TypeOK
    <3>2. /\ cur' \in {cur, None} /\ reader' \in {"read", "drop", reader}
          /\ cur' = None => reader' = "read"
      BY <1>5, <2>0 DEF OfferConn
    <3>3. UNCHANGED <<connections, sessions, accepted, unannounced, migrations, connVars,
                      removeVars, shutVars>>
      BY <1>5 DEF OfferConn
    <3>4. addr' \in Addrs /\ id' \in Ids /\ oldAddr' \in Addrs
      BY <1>5 DEF OfferConn, TypeOK
    <3> QED
      BY <3>1, <3>2, <3>3, <3>4
  <2>4. TypeOK'
    BY <2>1, <2>2, <2>3 DEF TypeOK, connVars, removeVars, shutVars
  <2>5. reader = "accept" /\ Registration'
    <3>1. reader = "accept" /\ reader' \notin {"create", "find", "move", "reroute"} /\ created \in Nat
      BY <1>5, <2>3 DEF OfferConn, TypeOK
    <3>2. cur' <= created' /\ (reader' \in {"session", "start", "accept", "drop"} => cur' # None)
      BY <2>0, <2>3, <3>1 DEF Registration, connVars
    <3>3. \A c \in Conns : life'[c] \in {"found", "located"} => target'[c] # None
      BY <2>2, <2>3 DEF Registration, removeVars
    <3> QED
      BY <2>3, <3>1, <3>2, <3>3 DEF Registration, connVars
  <2>6. RoutesAgree'
    BY <2>3, <2>5 DEF RoutesAgree, connVars
  <2> QED
    BY <2>4, <2>5, <2>6
<1>6. CASE Dropped
  BY <1>6 DEF Dropped, TypeOK, Registration, RoutesAgree, connVars, removeVars, shutVars
<1> QED
  BY <1>1, <1>2, <1>3, <1>4, <1>5, <1>6

\* A new connection has a fresh number, so that only its own address routes to it
\* (handleSYN)
LEMMA CreateStep ==
    ASSUME IInv, HandleSYN
    PROVE  IInv'
<1> USE ListenerAssumption DEF IInv, None, Conns, HandleSYN, Goto
<1>1. TypeOK'
  BY DEF TypeOK, removeVars, shutVars
<1>2. Registration'
  <2>1. /\ cur' = created + 1 /\ created' = created + 1 /\ created \in Nat /\ reader' = "session"
        /\ \A a \in Addrs : connections'[a] \in {connections[a], cur'}
        /\ \A i \in Ids : sessions'[i] = sessions[i]
        /\ \A c \in Conns : life'[c] \in {"found", "located"} => life[c] \in {"found", "located"}
        /\ target' = target
    BY DEF TypeOK, removeVars
  <2>2. /\ connections \in [Addrs -> Conns \cup {None}] /\ sessions \in [Ids -> Conns \cup {None}]
        /\ \A a \in Addrs : connections[a] <= created
        /\ \A i \in Ids : sessions[i] <= created
        /\ \A c \in Conns : life[c] \in {"found", "located"} => target[c] # None
    BY DEF TypeOK, Registration
  <2>3. /\ \A a \in Addrs : connections'[a] <= created'
        /\ \A i \in Ids : sessions'[i] <= created'
    BY <2>1, <2>2
  <2> QED
    BY <2>1, <2>2, <2>3 DEF Registration
<1>3. RoutesAgree'
  BY DEF TypeOK, Registration, RoutesAgree
<1> QED
  BY <1>1, <1>2, <1>3

\* A migration moves the one entry of the connection to the address it now answers to
\* (handleMigration)
LEMMA MigrateStep ==
    ASSUME IInv, HandleMigration \/ MoveAddr \/ Reroute
    PROVE  IInv'
<1> USE ListenerAssumption, NewAddr DEF IInv, None, Conns, Goto, NextDatagram
<1>1. CASE HandleMigration
  <2>1. CASE sessions[id] = None
    BY <1>1, <2>1 DEF HandleMigration, TypeOK, Registration, RoutesAgree, connVars, removeVars,
       shutVars
  <2>2. CASE sessions[id] # None
    <3>1. /\ cur' = sessions[id] /\ cur' \in Conns /\ oldAddr' = remoteAddr[cur'] /\ oldAddr' \in Addrs
          /\ reader' = "move" /\ reader = "find" /\ connections[addr] = None /\ cur' <= created
      BY <1>1, <2>2 DEF HandleMigration, TypeOK, Registration
    <3>2. TypeOK'
      BY <1>1, <3>1 DEF HandleMigration, TypeOK, connVars, removeVars, shutVars
    <3>3. Registration'
      BY <1>1, <3>1 DEF HandleMigration, Registration, connVars, removeVars
    <3>4. RoutesAgree'
      BY <1>1, <3>1 DEF HandleMigration, RoutesAgree, connVars
    <3> QED
      BY <3>2, <3>3, <3>4
  <2> QED
    BY <2>1, <2>2
<1>2. CASE MoveAddr
  BY <1>2 DEF MoveAddr, TypeOK, Registration, RoutesAgree, removeVars, shutVars
<1>3. CASE Reroute
  <2>1. /\ connections' \in [Addrs -> Conns \cup {None}]
        /\ \A a \in Addrs : connections'[a] =
              IF a = addr THEN cur ELSE IF a = oldAddr THEN None ELSE connections[a]
    BY <1>3 DEF Reroute, Moved, TypeOK
  <2>2. TypeOK'
    BY <1>3, <2>1 DEF Reroute, TypeOK, connVars, removeVars, shutVars
  <2>3. Registration'
    BY <1>3, <2>1 DEF Reroute, TypeOK, Registration, connVars, removeVars
  <2>4. RoutesAgree'
    BY <1>3, <2>1 DEF Reroute, TypeOK, Registration, RoutesAgree, connVars
  <2> QED
    BY <2>2, <2>3, <2>4
<1> QED
  BY <1>1, <1>2, <1>3

\* Closing a connection only ever takes entries away (RemoveConnection)
LEMMA RemoveStep ==
    ASSUME IInv, NEW c \in Conns, CloseConn(c) \/ Hang(c) \/ Remove(c)
    PROVE  IInv'
<1> USE ListenerAssumption, NewAddr DEF IInv, None, Conns
<1>1. CASE CloseConn(c)
  BY <1>1 DEF CloseConn, TypeOK, Registration, RoutesAgree, readerVars, connVars, removeVars,
     shutVars
<1>2. CASE RemoveSession(c)
  <2>1. CASE onClose[c] /\ sessions[sessionID[c]] # None
    <3>1. /\ target' = [target EXCEPT ![c] = sessions[sessionID[c]]]
          /\ sessions' = [sessions EXCEPT ![sessionID[c]] = None]
          /\ life' = [life EXCEPT ![c] = "found"]
          /\ UNCHANGED <<connections, acceptCh, accepted, unannounced, readerVars, connVars,
                         targetAddr, hung, shutVars, crashed>>
      BY <1>2, <2>1 DEF RemoveSession
    <3>2. TypeOK'
      BY <3>1 DEF TypeOK, readerVars, connVars, shutVars
    <3>3. Registration'
      <4>1. \A i \in Ids : sessions'[i] \in {sessions[i], None} /\ created \in Nat
        BY <3>1 DEF TypeOK
      <4>2. \A i \in Ids : sessions'[i] <= created
        BY <4>1 DEF Registration
      <4>3. \A k \in Conns : life'[k] \in {"found", "located"} => target'[k] # None
        BY <2>1, <3>1 DEF TypeOK, Registration
      <4> QED
        BY <3>1, <4>2, <4>3 DEF Registration, readerVars, connVars
    <3>4. RoutesAgree'
      BY <3>1 DEF RoutesAgree, readerVars, connVars
    <3> QED
      BY <3>2, <3>3, <3>4
  <2>2. CASE ~(onClose[c] /\ sessions[sessionID[c]] # None)
    <3>1. /\ life' = [life EXCEPT ![c] = "closed"]
          /\ UNCHANGED <<target, sessions, connections, acceptCh, accepted, unannounced,
                         readerVars, connVars, targetAddr, hung, shutVars, crashed>>
      BY <1>2, <2>2 DEF RemoveSession
    <3>2. TypeOK'
      BY <3>1 DEF TypeOK, readerVars, connVars, shutVars
    <3>3. Registration'
      BY <3>1 DEF TypeOK, Registration, readerVars, connVars
    <3>4. RoutesAgree'
      BY <3>1 DEF RoutesAgree, readerVars, connVars
    <3> QED
      BY <3>2, <3>3, <3>4
  <2> QED
    BY <2>1, <2>2
<1>3. CASE ReadAddr(c)
  <2>1. target[c] \in Conns
    BY <1>3 DEF ReadAddr, TypeOK, Registration
  <2>2. TypeOK'
    BY <1>3, <2>1 DEF ReadAddr, TypeOK, readerVars, connVars, shutVars
  <2>3. Registration'
    BY <1>3 DEF ReadAddr, TypeOK, Registration, readerVars, connVars
  <2>4. RoutesAgree'
    BY <1>3 DEF ReadAddr, RoutesAgree, readerVars, connVars
  <2> QED
    BY <2>2, <2>3, <2>4
<1>4. CASE RemoveRoute(c)
  BY <1>4 DEF RemoveRoute, TypeOK, Registration, RoutesAgree, readerVars, connVars, removeVars,
     shutVars
<1>5. CASE Hang(c)
  BY <1>5 DEF Hang, TypeOK, Registration, RoutesAgree, readerVars, connVars, shutVars
<1> QED
  BY <1>1, <1>2, <1>3, <1>4, <1>5 DEF Remove

\* Close of the listener leaves both maps to the connections it closes (Close)
LEMMA ShutStep ==
    ASSUME IInv, Shut \/ CloseListener
    PROVE  IInv'
<1> USE ListenerAssumption DEF IInv, None, Conns
<1>1. CASE Shut \/ LockConnMu \/ Collect \/ CloseReturns \/ AllClosed
  <2>1. /\ shutdown' \in {"open", "shut", "collecting", "closing", "done"}
        /\ conns' \subseteq Conns /\ closing' \in Conns \cup {None}
        /\ UNCHANGED <<connections, sessions, acceptCh, accepted, unannounced, readerVars,
                       connVars, life, removeVars, crashed>>
    BY <1>1 DEF Shut, LockConnMu, Collect, CloseReturns, AllClosed, TypeOK
  <2> QED
    BY <2>1 DEF TypeOK, Registration, RoutesAgree, readerVars, connVars, removeVars
<1>2. ASSUME NEW c \in Conns, CloseNext(c) PROVE IInv'
  BY <1>2 DEF CloseNext, TypeOK, Registration, RoutesAgree, readerVars, connVars, removeVars
<1> QED
  BY <1>1, <1>2 DEF CloseListener

\* Every other step: a datagram is read, Accept returns, nothing happens (readLoop, Accept)
LEMMA OtherStep ==
    ASSUME IInv,
           \/ \E kind \in {"syn", "migrate"}, a \in Addrs, i \in Ids : Receive(kind, a, i)
           \/ Accept \/ UNCHANGED vars
    PROVE  IInv'
<1> USE ListenerAssumption DEF IInv, None, Conns
<1>1. ASSUME NEW kind \in {"syn", "migrate"}, NEW a \in Addrs, NEW i \in Ids, Receive(kind, a, i)
      PROVE  IInv'
  BY <1>1 DEF Receive, TypeOK, Registration, RoutesAgree, connVars, removeVars, shutVars
<1>2. CASE Accept
  <2>1. /\ Head(acceptCh) \in Conns /\ Tail(acceptCh) \in Seq(Conns)
        /\ Len(Tail(acceptCh)) <= AcceptCap
    BY <1>2, HeadTailProperties DEF Accept, TypeOK
  <2>2. IInv'
    <3>1. TypeOK'
      BY <1>2, <2>1 DEF Accept, TypeOK, readerVars, connVars, removeVars, shutVars
    <3>2. Registration' /\ RoutesAgree'
      BY <1>2 DEF Accept, Registration, RoutesAgree, readerVars, connVars, removeVars
    <3> QED
      BY <3>1, <3>2
  <2> QED
    BY <2>2
<1>3. CASE UNCHANGED vars
  BY <1>3 DEF vars, TypeOK, Registration, RoutesAgree, readerVars, connVars, removeVars, shutVars
<1> QED
  BY <1>1, <1>2, <1>3

-----------------------------------------------------------------------------
\* The maps of the listener stay consistent, whoever closes, migrates and connects
THEOREM Invariance == Spec => []IInv
<1>1. IInv /\ [Next]_vars => IInv'
  BY RegisterStep, CreateStep, MigrateStep, RemoveStep, ShutStep, OtherStep DEF Next, ReadLoop
<1> QED
  BY InitHolds, <1>1, PTL DEF Spec

\* The variables keep their types; connMu is held by Close of the listener or by nobody
THEOREM TypeCorrect == Spec => []TypeOK
<1>1. IInv => TypeOK
  BY DEF IInv
<1> QED
  BY Invariance, <1>1, PTL

\* A datagram is only routed to a connection that answers to its address, open or already
\* closed, or was just told to answer to another, with migrations, removals and registrations
\* in any order (readLoop, handleMigration, RemoveConnection)
THEOREM Routing == Spec => []RoutesAgree
<1>1. IInv => RoutesAgree
  BY DEF IInv
<1> QED
  BY Invariance, <1>1, PTL

\* No connection is replaced at its address: the entry goes first (handleSYN,
\* handleMigration, which both ask connections before)
THEOREM AddressKept == Spec => AddressNotTaken
<1>1. IInv /\ [Next]_vars =>
        [\A a \in Addrs : connections[a] # None => connections'[a] \in {connections[a], None}]_vars
  <2> SUFFICES ASSUME IInv, Next, NEW a \in Addrs, connections[a] # None
               PROVE  connections'[a] \in {connections[a], None}
    BY DEF vars
  <2>1. connections \in [Addrs -> Conns \cup {None}] /\ addr \in Addrs /\ oldAddr \in Addrs
    BY DEF IInv, TypeOK
  <2>2. CASE HandleSYN
    BY <2>1, <2>2 DEF HandleSYN, IInv, Registration
  <2>3. CASE Reroute
    BY <2>1, <2>3 DEF Reroute, Moved, IInv, Registration
  <2>4. ASSUME NEW c \in Conns, RemoveRoute(c) PROVE connections'[a] \in {connections[a], None}
    BY <2>1, <2>4 DEF RemoveRoute
  <2>5. CASE UNCHANGED connections
    BY <2>5
  <2>6. ASSUME ~HandleSYN, ~Reroute, \A c \in Conns : ~RemoveRoute(c) PROVE UNCHANGED connections
    BY <2>6 DEF Next, Receive, ReadLoop, StopReading, LookUp, NextFor, Goto, NextDatagram,
       Announce, RegisterSession, StartWorkers,
       OfferConn, Dropped, HandleMigration, MoveAddr, Accept, CloseConn, Hang, Remove,
       RemoveSession,
       ReadAddr, Shut, CloseListener, LockConnMu, Collect, CloseNext, CloseReturns, AllClosed
  <2> QED
    BY <2>2, <2>3, <2>4, <2>5, <2>6
<1> QED
  BY Invariance, <1>1, PTL DEF Spec, AddressNotTaken

-----------------------------------------------------------------------------
(* Nobody is forgotten.  An open connection is in somebody's hands, and    *)
(* whoever lets go of it passes it on or closes it.                        *)

Held(c) ==
    \/ c \in accepted \/ \E k \in 1..Len(acceptCh) : acceptCh[k] = c
    \/ c = cur /\ reader = "accept"
    \/ c \in unannounced

\* readLoop puts the connection it has in hand into acceptCh, where the others stay
\* (handleSYN)
LEMMA OfferHolds ==
    ASSUME IInv, NobodyForgotten, OfferConn
    PROVE  NobodyForgotten'
<1> SUFFICES ASSUME shutdown = "open", NEW c \in Conns, life'[c] = "open"
             PROVE  Held(c)'
  BY DEF NobodyForgotten, Held, OfferConn, shutVars
<1>1. cur \in Conns /\ acceptCh \in Seq(Conns) /\ life \in [Conns -> {"none", "new", "open",
          "closing", "found", "located", "closed"}]
  BY ListenerAssumption DEF IInv, TypeOK, Registration, OfferConn
<1>2. life[c] = "open"
  BY <1>1 DEF OfferConn
<1>0. unannounced' = unannounced
  BY DEF OfferConn
<1>3. Held(c)
  BY <1>2 DEF NobodyForgotten, Held
<1>4. CASE acceptCh' = Append(acceptCh, cur) /\ accepted' = accepted
  <2>1. /\ Len(acceptCh) \in Nat /\ Len(acceptCh') = Len(acceptCh) + 1
        /\ acceptCh'[Len(acceptCh) + 1] = cur
        /\ \A k \in 1..Len(acceptCh) : acceptCh'[k] = acceptCh[k]
    BY <1>1, <1>4, AppendProperties, LenProperties
  <2>2. CASE c = cur
    <3>1. Len(acceptCh) + 1 \in 1..Len(acceptCh')
      BY <2>1
    <3> QED
      BY <2>1, <2>2, <3>1 DEF Held
  <2>3. ASSUME NEW k \in 1..Len(acceptCh), acceptCh[k] = c PROVE Held(c)'
    <3>1. k \in 1..Len(acceptCh') /\ acceptCh'[k] = c
      BY <2>1, <2>3
    <3> QED
      BY <3>1 DEF Held
  <2> QED
    BY <1>0, <1>3, <1>4, <2>2, <2>3 DEF Held
<1>5. CASE acceptCh' = acceptCh /\ life' = [life EXCEPT ![cur] = IF @ = "open" THEN "closing" ELSE @]
           /\ accepted' = accepted
  <2>1. c # cur
    BY <1>1, <1>2, <1>5
  <2> QED
    BY <1>0, <1>3, <1>5, <2>1 DEF Held
<1> QED
  BY <1>4, <1>5 DEF OfferConn

\* Accept takes the first connection of acceptCh and leaves the rest (Accept)
LEMMA AcceptHolds ==
    ASSUME IInv, NobodyForgotten, Accept
    PROVE  NobodyForgotten'
<1> SUFFICES ASSUME shutdown = "open", NEW c \in Conns, life[c] = "open"
             PROVE  Held(c)'
  BY DEF NobodyForgotten, Held, Accept, shutVars
<1>1. acceptCh \in Seq(Conns) /\ acceptCh # << >>
  BY DEF IInv, TypeOK, Accept
<1>2. Held(c)
  BY DEF NobodyForgotten, Held
<1>3. /\ Len(acceptCh) \in Nat /\ Head(acceptCh) = acceptCh[1]
      /\ acceptCh' = Tail(acceptCh) /\ Len(acceptCh') = Len(acceptCh) - 1
      /\ \A k \in 1..Len(acceptCh') : acceptCh'[k] = acceptCh[k + 1]
      /\ accepted' = accepted \cup {Head(acceptCh)}
  BY <1>1, HeadTailProperties, LenProperties DEF Accept
<1>4. ASSUME NEW k \in 1..Len(acceptCh), acceptCh[k] = c PROVE Held(c)'
  <2>1. CASE k = 1
    BY <1>3, <1>4, <2>1 DEF Held
  <2>2. CASE k # 1
    <3>1. k - 1 \in 1..Len(acceptCh') /\ (k - 1) + 1 = k
      BY <1>3, <2>2
    <3>2. acceptCh'[k - 1] = c
      BY <1>3, <1>4, <3>1
    <3> QED
      BY <3>1, <3>2 DEF Held
  <2> QED
    BY <2>1, <2>2
<1>5. cur' = cur /\ reader' = reader /\ unannounced' = unannounced
  BY DEF Accept, readerVars
<1> QED
  BY <1>2, <1>3, <1>4, <1>5 DEF Held

\* No other step opens a connection but StartWorkers, and readLoop then has it in hand; and
\* none but the two above takes one out of somebody's hands
LEMMA OthersHold ==
    ASSUME IInv, NobodyForgotten, [Next]_vars, ~OfferConn, ~Accept
    PROVE  NobodyForgotten'
<1> SUFFICES ASSUME shutdown' = "open", NEW c \in Conns, life'[c] = "open"
             PROVE  Held(c)'
  BY DEF NobodyForgotten, Held
<1>1. life \in [Conns -> {"none", "new", "open", "closing", "found", "located", "closed"}]
  BY DEF IInv, TypeOK
<1>2. shutdown = "open" /\ accepted' = accepted /\ acceptCh' = acceptCh
  BY DEF Next, Receive, ReadLoop, StopReading, LookUp, NextFor, Goto, NextDatagram, Announce,
     HandleSYN, RegisterSession,
     StartWorkers, Dropped, HandleMigration, MoveAddr, Reroute, CloseConn, Hang, Remove,
     RemoveSession,
     ReadAddr, RemoveRoute, Shut, CloseListener, LockConnMu, Collect, CloseNext, CloseReturns,
     AllClosed, shutVars, vars
<1>3. CASE StartWorkers
  <2>1. /\ c # cur => life[c] = "open"
        /\ \/ cur' = cur /\ reader' = "accept" /\ unannounced' = unannounced
           \/ unannounced' = unannounced \cup {cur}
        /\ reader = "start"
    BY <1>1, <1>3 DEF StartWorkers, Announce, Goto, NextDatagram
  <2>2. CASE c = cur
    BY <2>1, <2>2 DEF Held
  <2>3. CASE c # cur
    BY <1>2, <2>1, <2>3 DEF NobodyForgotten, Held
  <2> QED
    BY <2>2, <2>3
<1>4. CASE ~StartWorkers
  <2>1. life[c] = "open" /\ (reader = "accept" => UNCHANGED <<cur, reader>>)
        /\ unannounced' = unannounced
    BY <1>1, <1>4 DEF Next, Receive, ReadLoop, StopReading, LookUp, NextFor, Goto, NextDatagram,
       Announce, HandleSYN,
       RegisterSession, Dropped, HandleMigration, MoveAddr, Reroute, CloseConn, Hang, Remove,
       RemoveSession, ReadAddr, RemoveRoute, Shut, CloseListener, LockConnMu, Collect, CloseNext,
       CloseReturns, AllClosed, readerVars, vars
  <2> QED
    BY <1>2, <2>1 DEF NobodyForgotten, Held
<1> QED
  BY <1>3, <1>4

\* While the listener is open every open connection has been accepted, will be, or is in the
\* hands of readLoop, unless its SYN-ACK could not be encoded; one that finds acceptCh full is
\* closed (handleSYN, Accept)
THEOREM NoneForgotten == Spec => []NobodyForgotten
<1>1. Init => NobodyForgotten
  BY DEF Init, NobodyForgotten
<1>2. IInv /\ NobodyForgotten /\ [Next]_vars => NobodyForgotten'
  BY OfferHolds, AcceptHolds, OthersHold
<1> QED
  BY Invariance, <1>1, <1>2, PTL DEF Spec

-----------------------------------------------------------------------------
(* While nobody migrates.  A connection keeps its address then, and its    *)
(* entry goes only by the one RemoveConnection that found it, so that a    *)
(* client that shares its session id with nobody removes itself.           *)

Quiet == migrations = 0 /\ shutdown = "open"

Removing(c) == life[c] \in {"found", "located"}

\* The life of a connection follows readLoop until its workers start
Lives ==
    /\ reader \in {"read", "syn", "create", "session", "start", "accept", "drop"}
    /\ \A c \in Conns :
        /\ life[c] = "none" <=> c > created
        /\ life[c] = "new" <=> c = cur /\ reader \in {"session", "start"}
        /\ life[c] \notin {"none", "new"} => onClose[c]

\* The entry of c is in the table
Routed(c) == connections[remoteAddr[c]] = c

\* A connection that a session names or that a removal found has its entry, and a removal
\* that found one is the only one to have it
Named ==
    /\ reader \in {"session", "start"} => id = sessionID[cur]
    /\ reader = "session" => Routed(cur) /\ \A i \in Ids : sessions[i] # cur
    /\ \A i \in Ids : sessions[i] # None => sessionID[sessions[i]] = i /\ Routed(sessions[i])
    /\ \A d \in Conns : Removing(d) =>
        /\ target[d] \in 1..created /\ sessionID[target[d]] = sessionID[d]
        /\ Routed(target[d]) /\ \A i \in Ids : sessions[i] # target[d]
        /\ reader = "session" => target[d] # cur
        /\ life[d] = "located" => targetAddr[d] = remoteAddr[target[d]]
        /\ \A f \in Conns : Removing(f) /\ f # d => target[f] # target[d]

\* The session of a client that is alone names its connection until its own removal
Single ==
    \A c \in 1..created : Alone(c) =>
        /\ life[c] \in {"open", "closing"} \/ (c = cur /\ reader = "start") =>
               sessions[sessionID[c]] = c
        /\ Removing(c) => target[c] = c
        /\ life[c] = "closed" => \A a \in Addrs : connections[a] # c

QInv == Quiet => Lives /\ Named /\ Single

\* What the proofs of the steps use of the types
LEMMA Types ==
    ASSUME IInv
    PROVE  /\ created \in 0..MaxConns /\ created \in Nat /\ MaxConns \in Nat
           /\ connections \in [Addrs -> Conns \cup {None}]
           /\ sessions \in [Ids -> Conns \cup {None}]
           /\ remoteAddr \in [Conns -> Addrs] /\ sessionID \in [Conns -> Ids]
           /\ onClose \in [Conns -> BOOLEAN] /\ target \in [Conns -> Conns \cup {None}]
           /\ targetAddr \in [Conns -> Addrs] /\ cur \in Conns \cup {None}
           /\ addr \in Addrs /\ id \in Ids
           /\ life \in [Conns -> {"none", "new", "open", "closing", "found", "located", "closed"}]
           /\ \A a \in Addrs : connections[a] <= created
           /\ \A i \in Ids : sessions[i] <= created
           /\ cur <= created
BY ListenerAssumption DEF IInv, TypeOK, Registration

\* Nobody has migrated and the listener is open only if it was so before
LEMMA QuietBefore ==
    ASSUME IInv, [Next]_vars, Quiet'
    PROVE  Quiet
<1>1. migrations \in Nat
  BY ListenerAssumption DEF IInv, TypeOK
<1>2. migrations' = migrations \/ migrations' = migrations + 1
  BY DEF Next, Receive, ReadLoop, StopReading, LookUp, NextFor, Goto, NextDatagram, Announce,
     HandleSYN, RegisterSession,
     StartWorkers, OfferConn, Dropped, HandleMigration, MoveAddr, Reroute, CloseConn, Hang, Remove,
     RemoveSession, ReadAddr, RemoveRoute, Shut, CloseListener, LockConnMu, Collect, CloseNext,
     CloseReturns, AllClosed, Accept, readerVars, vars
<1>3. shutdown' = "open" => shutdown = "open"
  BY DEF Next, Receive, ReadLoop, StopReading, LookUp, NextFor, Goto, NextDatagram, Announce,
     HandleSYN, RegisterSession,
     StartWorkers, OfferConn, Dropped, HandleMigration, MoveAddr, Reroute, CloseConn, Hang, Remove,
     RemoveSession, ReadAddr, RemoveRoute, Shut, CloseListener, LockConnMu, Collect, CloseNext,
     CloseReturns, AllClosed, Accept, shutVars, vars
<1> QED
  BY <1>1, <1>2, <1>3 DEF Quiet

\* A step that touches no map, address or target, and ends no connection
Aside ==
    /\ UNCHANGED <<connections, sessions, remoteAddr, sessionID, created, target,
                   targetAddr>>
    /\ \A c \in Conns :
        /\ Removing(c)' => Removing(c) /\ life'[c] = life[c]
        /\ life'[c] \in {"open", "closing"} =>
               life[c] \in {"open", "closing"} \/ (c = cur /\ reader = "start")
        /\ life'[c] = "closed" => life[c] = "closed"
    /\ reader' \in {"session", "start"} => UNCHANGED <<reader, cur, id>>

\* What does not touch tables, removals and readLoop's hands leaves names and lone clients alone
LEMMA AsideKeeps ==
    ASSUME IInv, Named, Single, Aside
    PROVE  Named' /\ Single'
<1>1. Named'
  BY Types DEF Named, Aside, Removing, Routed
<1>2. Single'
  <2> SUFFICES ASSUME NEW c \in 1..created, Alone(c)
               PROVE  /\ life'[c] \in {"open", "closing"} \/ (c = cur' /\ reader' = "start") =>
                            sessions[sessionID[c]] = c
                      /\ Removing(c)' => target[c] = c
                      /\ life'[c] = "closed" => \A a \in Addrs : connections[a] # c
    BY DEF Single, Aside, Alone
  <2>1. c \in Conns
    BY Types DEF Conns
  <2> QED
    BY <2>1 DEF Single, Aside
<1> QED
  BY <1>1, <1>2

\* A datagram is read or dispatched, the workers start, the connection is offered, a
\* connection begins to close, Accept returns (readLoop, handleSYN, Accept, Close)
LEMMA QuietAside ==
    ASSUME IInv, Quiet, Quiet', Lives, Named, Single,
           \/ \E kind \in {"syn", "migrate"}, a \in Addrs, i \in Ids : Receive(kind, a, i)
           \/ LookUp \/ StartWorkers \/ OfferConn \/ Dropped \/ Accept \/ CloseReturns
           \/ UNCHANGED vars
           \/ \E c \in Conns : CloseConn(c) \/ Hang(c)
    PROVE  (Lives /\ Named /\ Single)'
<1>1. Lives' /\ Aside
  <2>1. ASSUME NEW kind \in {"syn", "migrate"}, NEW a \in Addrs, NEW i \in Ids, Receive(kind, a, i)
        PROVE  Lives' /\ Aside
    <3>1. kind = "syn"
      BY <2>1 DEF Receive, Quiet
    <3> QED
      BY <2>1, <3>1 DEF Receive, Lives, Aside, Removing, connVars, removeVars
  <2>2. CASE LookUp \/ Dropped
    <3>1. /\ reader' \in {"read", "create"} /\ reader \in {"syn", "drop"}
          /\ UNCHANGED <<connVars, connections, sessions, life, removeVars>>
      BY <2>2 DEF LookUp, NextFor, Goto, NextDatagram, Dropped, Lives
    <3> QED
      BY <3>1 DEF Lives, Aside, Removing, connVars, removeVars
  <2>3. CASE Accept \/ CloseReturns \/ UNCHANGED vars
    <3>1. UNCHANGED <<readerVars, connVars, connections, sessions, life, removeVars>>
      BY <2>3 DEF Accept, CloseReturns, vars
    <3> QED
      BY <3>1 DEF Lives, Aside, Removing, readerVars, connVars, removeVars
  <2>4. CASE StartWorkers
    <3>1. cur \in Conns /\ life[cur] = "new"
      BY <2>4, Types DEF StartWorkers, IInv, Registration, Lives
    <3>2. /\ life' = [life EXCEPT ![cur] = "open"] /\ onClose' = [onClose EXCEPT ![cur] = TRUE]
          /\ reader = "start" /\ reader' \in {"accept", "read"}
          /\ UNCHANGED <<connections, sessions, created, remoteAddr, sessionID, target,
                         targetAddr>>
      BY <2>4, <3>1 DEF StartWorkers, Announce, Goto, NextDatagram, removeVars
    <3> QED
      BY <3>1, <3>2, Types DEF Lives, Aside, Removing
  <2>5. CASE OfferConn
    <3>1. cur \in Conns /\ reader = "accept"
      BY <2>5, Types DEF OfferConn, IInv, Registration
    <3>2. /\ \/ life' = life
             \/ life' = [life EXCEPT ![cur] = IF @ = "open" THEN "closing" ELSE @]
          /\ reader' \in {"read", "drop"}
          /\ UNCHANGED <<connections, sessions, connVars, removeVars>>
      BY <2>5 DEF OfferConn, Goto, NextDatagram, Quiet
    <3>3. \A c \in Conns : \/ life'[c] = life[c]
                           \/ life[c] = "open" /\ life'[c] = "closing"
      BY <3>1, <3>2, Types
    <3> QED
      BY <3>1, <3>2, <3>3, Types DEF Lives, Aside, Removing, connVars, removeVars
  <2>6. ASSUME NEW c \in Conns, CloseConn(c) PROVE Lives' /\ Aside
    <3>1. \A d \in Conns : \/ life'[d] = life[d]
                           \/ life[d] = "open" /\ life'[d] = "closing"
      BY <2>6, Types DEF CloseConn
    <3> QED
      BY <2>6, <3>1, Types DEF CloseConn, Lives, Aside, Removing, readerVars, connVars, removeVars
  <2>7. ASSUME NEW c \in Conns, Hang(c) PROVE Lives' /\ Aside
    <3>1. UNCHANGED <<readerVars, connVars, connections, sessions, life, target, targetAddr>>
      BY <2>7 DEF Hang
    <3> QED
      BY <3>1 DEF Lives, Aside, Removing, readerVars, connVars
  <2> QED
    BY <2>1, <2>2, <2>3, <2>4, <2>5, <2>6, <2>7
<1> QED
  BY <1>1, AsideKeeps

\* A new connection has a number that no map and no removal knows (handleSYN)
LEMMA QuietCreate ==
    ASSUME IInv, Quiet, Lives, Named, Single, HandleSYN
    PROVE  (Lives /\ Named /\ Single)'
<1>1. /\ created' = created + 1 /\ cur' = created' /\ cur' \in Conns /\ reader' = "session"
      /\ connections[addr] = None /\ addr \in Addrs /\ id \in Ids /\ reader = "create" /\ id' = id
      /\ connections' = [connections EXCEPT ![addr] = cur']
      /\ remoteAddr' = [remoteAddr EXCEPT ![cur'] = addr]
      /\ sessionID' = [sessionID EXCEPT ![cur'] = id]
      /\ life' = [life EXCEPT ![cur'] = "new"]
      /\ UNCHANGED <<sessions, onClose, target, targetAddr>>
  BY Types DEF HandleSYN, Goto, IInv, Registration, removeVars, Conns
<1>2. /\ cur' > created /\ life[cur'] = "none"
      /\ \A a \in Addrs : connections[a] # cur'
      /\ \A i \in Ids : sessions[i] # cur'
  BY <1>1, Types DEF Lives, Conns, None
<1>3. \A c \in Conns : c # cur' => /\ remoteAddr'[c] = remoteAddr[c]
                                   /\ sessionID'[c] = sessionID[c] /\ life'[c] = life[c]
  BY <1>1, Types
<1>4. life'[cur'] = "new" /\ remoteAddr'[cur'] = addr /\ sessionID'[cur'] = id
  BY <1>1, Types
<1>5. \A c \in Conns : Routed(c) => Routed(c)'
  BY <1>1, <1>2, <1>3, Types DEF Routed, Conns, None
<1>6. Lives'
  BY <1>1, <1>2, <1>3, <1>4, Types DEF Lives, Conns
<1>7. Named'
  <2>1. id' = sessionID'[cur'] /\ Routed(cur)' /\ \A i \in Ids : sessions'[i] # cur'
    BY <1>1, <1>2, <1>4, Types DEF Routed
  <2>2. \A i \in Ids : sessions'[i] # None =>
            sessionID'[sessions'[i]] = i /\ (connections'[remoteAddr'[sessions'[i]]] = sessions'[i])
    <3>1. \A i \in Ids : sessions[i] # None => sessions[i] \in Conns /\ sessions[i] # cur'
      BY <1>2, Types
    <3> QED
      BY <1>1, <1>3, <1>5, <3>1 DEF Named, Routed
  <2>3. ASSUME NEW d \in Conns, Removing(d)'
        PROVE  /\ target[d] \in 1..created' /\ sessionID'[target[d]] = sessionID'[d]
               /\ connections'[remoteAddr'[target[d]]] = target[d]
               /\ \A i \in Ids : sessions'[i] # target[d]
               /\ target[d] # cur'
               /\ life'[d] = "located" => targetAddr[d] = remoteAddr'[target[d]]
               /\ \A f \in Conns : Removing(f)' /\ f # d => target[f] # target[d]
    <3>1. d # cur' /\ Removing(d) /\ \A f \in Conns : Removing(f)' => Removing(f)
      BY <1>3, <1>4, <2>3 DEF Removing
    <3>2. target[d] \in Conns /\ target[d] # cur' /\ target[d] \in 1..created'
      BY <1>1, <1>2, <3>1, Types DEF Named, Conns
    <3> QED
      BY <1>1, <1>3, <1>5, <3>1, <3>2 DEF Named, Routed
  <2> QED
    BY <1>1, <2>1, <2>2, <2>3 DEF Named, Routed
<1>8. Single'
  <2> SUFFICES ASSUME NEW c \in 1..created', Alone(c)'
               PROVE  (/\ life[c] \in {"open", "closing"} \/ (c = cur /\ reader = "start") =>
                            sessions[sessionID[c]] = c
                       /\ Removing(c) => target[c] = c
                       /\ life[c] = "closed" => \A a \in Addrs : connections[a] # c)'
    BY DEF Single
  <2>1. c \in Conns
    BY <1>1, Types DEF Conns
  <2>2. CASE c = cur'
    BY <1>1, <1>4, <2>2 DEF Removing
  <2>3. CASE c # cur'
    <3>1. c \in 1..created /\ created \in Nat
      BY <1>1, <2>3, Types
    <3>2. Alone(c)
      <4> SUFFICES ASSUME NEW d \in 1..created, d # c PROVE sessionID[d] # sessionID[c]
        BY DEF Alone
      <4>1. d \in 1..created' /\ d \in Conns /\ d # cur'
        BY <1>1, <1>2, <3>1, Types DEF Conns
      <4> QED
        BY <1>3, <2>1, <2>3, <4>1 DEF Alone
    <3> QED
      BY <1>1, <1>3, <2>1, <2>3, <3>1, <3>2, Types DEF Single, Removing
  <2> QED
    BY <2>2, <2>3
<1> QED
  BY <1>6, <1>7, <1>8

\* The session id names the new connection from now on, in the place of any other
\* (handleSYN)
LEMMA QuietRegister ==
    ASSUME IInv, Quiet, Lives, Named, Single, RegisterSession
    PROVE  (Lives /\ Named /\ Single)'
<1>1. /\ cur \in Conns /\ id \in Ids /\ id = sessionID[cur] /\ reader = "session" /\ reader' = "start"
      /\ sessions' = [sessions EXCEPT ![id] = cur] /\ cur \in 1..created
      /\ UNCHANGED <<connections, cur, id, connVars, life, removeVars>>
  BY Types DEF RegisterSession, Goto, IInv, Registration, Named, Conns, None
<1>2. sessions'[id] = cur /\ \A i \in Ids : i # id => sessions'[i] = sessions[i]
  BY <1>1, Types
<1>3. Lives'
  BY <1>1 DEF Lives, connVars
<1>4. Named'
  <2>1. \A i \in Ids : sessions'[i] # None =>
            sessionID[sessions'[i]] = i /\ Routed(sessions'[i])
    BY <1>1, <1>2 DEF Named
  <2>2. \A d \in Conns : Removing(d) => \A i \in Ids : sessions'[i] # target[d]
    BY <1>1, <1>2 DEF Named
  <2> QED
    BY <1>1, <2>1, <2>2 DEF Named, Removing, Routed, connVars, removeVars
<1>5. Single'
  <2> SUFFICES ASSUME NEW c \in 1..created, Alone(c)
               PROVE  /\ life[c] \in {"open", "closing"} \/ c = cur => sessions'[sessionID[c]] = c
                      /\ Removing(c) => target[c] = c
                      /\ life[c] = "closed" => \A a \in Addrs : connections[a] # c
    BY <1>1 DEF Single, Alone, Removing, connVars, removeVars
  <2>0. c \in Conns
    BY Types DEF Conns
  <2>1. c \in Conns /\ sessionID[c] \in Ids
    BY <2>0, Types
  <2>2. c # cur => sessionID[c] # id
    BY <1>1 DEF Alone
  <2> QED
    BY <1>1, <1>2, <2>1, <2>2 DEF Single
<1> QED
  BY <1>3, <1>4, <1>5

\* RemoveConnection takes the entry it found and no other: the session id, then the address,
\* which the connection still has (RemoveConnection)
LEMMA QuietRemove ==
    ASSUME IInv, IInv', Quiet, Lives, Named, Single, NEW c \in Conns, Remove(c)
    PROVE  (Lives /\ Named /\ Single)'
<1>0. /\ UNCHANGED <<readerVars, connVars>> /\ life[c] \in {"closing", "found", "located"}
      /\ life'[c] \in {"found", "located", "closed"}
      /\ \A d \in Conns : d # c => life'[d] = life[d]
      /\ c \in 1..created
  <2>1. /\ UNCHANGED <<readerVars, connVars>> /\ life[c] \in {"closing", "found", "located"}
        /\ life'[c] \in {"found", "located", "closed"}
        /\ \A d \in Conns : d # c => life'[d] = life[d]
    BY Types DEF Remove, RemoveSession, ReadAddr, RemoveRoute
  <2> QED
    BY <2>1, Types DEF Lives, Conns
<1>1. Lives'
  BY <1>0 DEF Lives, readerVars, connVars
<1>2. ASSUME RemoveSession(c), sessions[sessionID[c]] # None
      PROVE  (Named /\ Single)'
  <2> DEFINE i0 == sessionID[c]
             e == sessions[i0]
  <2>1. /\ i0 \in Ids /\ e \in Conns /\ e \in 1..created /\ sessionID[e] = i0 /\ Routed(e)
        /\ target' = [target EXCEPT ![c] = e] /\ sessions' = [sessions EXCEPT ![i0] = None]
        /\ life'[c] = "found" /\ life[c] = "closing"
        /\ UNCHANGED <<connections, targetAddr>>
    BY <1>0, <1>2, Types DEF RemoveSession, Lives, Named, Conns, None
  <2>2. /\ target'[c] = e /\ sessions'[i0] = None
        /\ \A d \in Conns : d # c => target'[d] = target[d]
        /\ \A i \in Ids : i # i0 => sessions'[i] = sessions[i]
        /\ \A i \in Ids : sessions'[i] # e
    <3>1. \A i \in Ids : sessions[i] = e => i = i0
      BY <2>1 DEF Named, Conns, None
    <3> HIDE DEF i0
    <3> QED
      BY <1>2, <2>1, <3>1, Types DEF Conns, None
  <2>3. \A d \in Conns : Removing(d)' => d = c \/ Removing(d)
    BY <1>0 DEF Removing
  <2> HIDE DEF i0
  <2>4. Named'
    <3>1. \A i \in Ids : sessions'[i] # None => sessionID[sessions'[i]] = i /\ Routed(sessions'[i])
      BY <2>2 DEF Named
    <3>2. /\ reader \in {"session", "start"} => id = sessionID[cur]
          /\ reader = "session" => Routed(cur) /\ \A i \in Ids : sessions'[i] # cur
      <4>1. reader = "session" => cur # None
        BY DEF IInv, Registration
      <4> QED
        BY <2>1, <2>2, <4>1 DEF Named
    <3>3. ASSUME NEW d \in Conns, Removing(d)'
          PROVE  /\ target'[d] \in 1..created /\ sessionID[target'[d]] = sessionID[d]
                 /\ Routed(target'[d]) /\ \A i \in Ids : sessions'[i] # target'[d]
                 /\ reader = "session" => target'[d] # cur
                 /\ life'[d] = "located" => targetAddr[d] = remoteAddr[target'[d]]
                 /\ \A f \in Conns : Removing(f)' /\ f # d => target'[f] # target'[d]
      <4>1. CASE d = c
        <5>1. /\ target'[d] = e /\ life'[d] = "found"
              /\ \A f \in Conns : Removing(f)' /\ f # d => target'[f] # e
          BY <2>1, <2>2, <2>3, <4>1 DEF Named
        <5>2. reader = "session" => e # cur
          BY <2>1 DEF Named
        <5> QED
          BY <2>1, <2>2, <4>1, <5>1, <5>2 DEF i0
      <4>2. CASE d # c
        <5>1. Removing(d) /\ target'[d] = target[d] /\ life'[d] = life[d] /\ target[d] # e
          BY <1>0, <2>1, <2>2, <2>3, <3>3, <4>2 DEF Named
        <5>2. target[d] # None
          BY <5>1 DEF IInv, Registration, Removing
        <5>3. \A i \in Ids : sessions'[i] # target[d]
          BY <2>2, <5>1, <5>2 DEF Named
        <5>4. \A f \in Conns : Removing(f)' /\ f # d => target'[f] # target'[d]
          BY <2>2, <2>3, <4>2, <5>1 DEF Named
        <5> QED
          BY <5>1, <5>3, <5>4 DEF Named
      <4> QED
        BY <4>1, <4>2
    <3> QED
      BY <1>0, <2>1, <3>1, <3>2, <3>3 DEF Named, Removing, Routed, readerVars, connVars
  <2>5. Single'
    <3> SUFFICES ASSUME NEW x \in 1..created, Alone(x)
                 PROVE  /\ life'[x] \in {"open", "closing"} \/ (x = cur /\ reader = "start") =>
                              sessions'[sessionID[x]] = x
                        /\ Removing(x)' => target'[x] = x
                        /\ life'[x] = "closed" => \A a \in Addrs : connections[a] # x
      BY <1>0, <2>1 DEF Single, Alone, readerVars, connVars
    <3>1. x \in Conns /\ sessionID[x] \in Ids
      BY Types DEF Conns
    <3>2. CASE x = c
      <4>1. e = c
        BY <2>1, <3>2 DEF Single, i0
      <4>2. ~(x = cur /\ reader = "start")
        BY <2>1, <3>2 DEF Lives
      <4> QED
        BY <2>1, <2>2, <3>2, <4>1, <4>2
    <3>3. CASE x # c
      <4>1. sessionID[x] # i0 /\ life'[x] = life[x] /\ target'[x] = target[x]
        BY <1>0, <2>2, <3>1, <3>3 DEF Alone, i0
      <4> QED
        BY <2>2, <3>1, <4>1 DEF Single, Removing
    <3> QED
      BY <3>2, <3>3
  <2> QED
    BY <2>4, <2>5
<1>3. ASSUME RemoveSession(c), sessions[sessionID[c]] = None
      PROVE  (Named /\ Single)'
  <2>1. /\ life'[c] = "closed" /\ life[c] = "closing"
        /\ UNCHANGED <<connections, sessions, removeVars>>
    BY <1>3, Types DEF RemoveSession, removeVars
  <2>2. \A d \in Conns : Removing(d)' => Removing(d) /\ life'[d] = life[d]
    BY <1>0, <2>1 DEF Removing
  <2>3. Named'
    <3>1. ASSUME NEW d \in Conns, Removing(d)'
          PROVE  /\ target[d] \in 1..created /\ sessionID[target[d]] = sessionID[d]
                 /\ Routed(target[d]) /\ \A i \in Ids : sessions[i] # target[d]
                 /\ reader = "session" => target[d] # cur
                 /\ life'[d] = "located" => targetAddr[d] = remoteAddr[target[d]]
                 /\ \A f \in Conns : Removing(f)' /\ f # d => target[f] # target[d]
      BY <2>2, <3>1 DEF Named
    <3> QED
      BY <1>0, <2>1, <3>1 DEF Named, Routed, readerVars, connVars, removeVars
  <2>4. Single'
    <3> SUFFICES ASSUME NEW x \in 1..created, Alone(x)
                 PROVE  /\ life'[x] \in {"open", "closing"} \/ (x = cur /\ reader = "start") =>
                              sessions[sessionID[x]] = x
                        /\ Removing(x)' => target[x] = x
                        /\ life'[x] = "closed" => \A a \in Addrs : connections[a] # x
      BY <1>0, <2>1 DEF Single, Alone, readerVars, connVars, removeVars
    <3>1. x \in Conns
      BY Types DEF Conns
    <3>2. x # c
      BY <1>3, <2>1 DEF Single, None
    <3> QED
      BY <1>0, <2>2, <3>1, <3>2 DEF Single
  <2> QED
    BY <2>3, <2>4
<1>4. ASSUME ReadAddr(c) PROVE (Named /\ Single)'
  <2>1. /\ life'[c] = "located" /\ life[c] = "found" /\ targetAddr'[c] = remoteAddr[target[c]]
        /\ \A d \in Conns : d # c => targetAddr'[d] = targetAddr[d]
        /\ UNCHANGED <<connections, sessions, target>>
    BY <1>4, Types DEF ReadAddr
  <2>2. \A d \in Conns : Removing(d)' <=> Removing(d)
    BY <1>0, <2>1 DEF Removing
  <2>3. Named'
    <3>1. ASSUME NEW d \in Conns, Removing(d)
          PROVE  life'[d] = "located" => targetAddr'[d] = remoteAddr[target[d]]
      BY <1>0, <2>1, <3>1 DEF Named
    <3> QED
      BY <1>0, <2>1, <2>2, <3>1, ZenonT(60) DEF Named, Routed, readerVars, connVars
  <2>4. Single'
    <3> SUFFICES ASSUME NEW x \in 1..created, Alone(x)
                 PROVE  /\ life'[x] \in {"open", "closing"} \/ (x = cur /\ reader = "start") =>
                              sessions[sessionID[x]] = x
                        /\ Removing(x)' => target[x] = x
                        /\ life'[x] = "closed" => \A a \in Addrs : connections[a] # x
      BY <1>0, <2>1 DEF Single, Alone, readerVars, connVars
    <3>1. x \in Conns
      BY Types DEF Conns
    <3> QED
      BY <1>0, <2>1, <2>2, <3>1 DEF Single
  <2> QED
    BY <2>3, <2>4
<1>5. ASSUME RemoveRoute(c) PROVE (Named /\ Single)'
  <2> DEFINE e == target[c]
             a0 == targetAddr[c]
  <2>1. /\ life'[c] = "closed" /\ life[c] = "located" /\ Removing(c)
        /\ e \in Conns /\ e \in 1..created /\ a0 = remoteAddr[e] /\ a0 \in Addrs /\ connections[a0] = e
        /\ connections' = [connections EXCEPT ![a0] = None]
        /\ sessions' = sessions
        /\ \A d \in Conns : d # c => target'[d] = target[d] /\ targetAddr'[d] = targetAddr[d]
    BY <1>5, Types DEF RemoveRoute, Removing, Named, Routed, Conns
  <2>2. /\ connections'[a0] = None
        /\ \A a \in Addrs : a # a0 => connections'[a] = connections[a]
    BY <2>1, Types
  <2>3. \A d \in Conns : Removing(d)' => d # c /\ Removing(d) /\ life'[d] = life[d]
    BY <1>0, <2>1 DEF Removing
  <2> HIDE DEF a0
  <2>4. \A k \in Conns : Routed(k) /\ k # e => connections'[remoteAddr[k]] = k
    BY <2>1, <2>2, Types DEF Routed
  <2>5. Named'
    <3>1. \A i \in Ids : sessions[i] # None =>
              sessionID[sessions[i]] = i /\ connections'[remoteAddr[sessions[i]]] = sessions[i]
      <4>1. \A i \in Ids : sessions[i] # e
        BY <2>1 DEF Named
      <4> QED
        BY <2>4, <4>1, Types DEF Named
    <3>2. reader = "session" => connections'[remoteAddr[cur]] = cur
      <4>1. reader = "session" => e # cur /\ cur # None
        BY <2>1 DEF Named, IInv, Registration
      <4> QED
        BY <2>4, <4>1, Types DEF Named
    <3>3. ASSUME NEW d \in Conns, Removing(d)' PROVE connections'[remoteAddr[target'[d]]] = target'[d]
      <4>1. target'[d] # e /\ Routed(target'[d]) /\ target'[d] \in Conns
        BY <2>1, <2>3, <3>3, Types DEF Named, Conns
      <4> QED
        BY <2>4, <4>1
    <3> QED
      BY <1>0, <2>1, <2>3, <3>1, <3>2, <3>3 DEF Named, Routed, readerVars, connVars
  <2>6. Single'
    <3> SUFFICES ASSUME NEW x \in 1..created, Alone(x)
                 PROVE  /\ life'[x] \in {"open", "closing"} \/ (x = cur /\ reader = "start") =>
                              sessions[sessionID[x]] = x
                        /\ Removing(x)' => target'[x] = x
                        /\ life'[x] = "closed" => \A a \in Addrs : connections'[a] # x
      BY <1>0, <2>1 DEF Single, Alone, readerVars, connVars
    <3>1. x \in Conns /\ x # None
      BY Types DEF Conns, None
    <3>2. CASE x = c
      <4>1. e = x
        BY <2>1, <3>2 DEF Single
      <4>2. \A a \in Addrs : connections[a] = x => a = a0
        <5>1. reader # "reroute"
          BY DEF Lives
        <5> QED
          BY <2>1, <3>1, <4>1, <5>1 DEF IInv, RoutesAgree
      <4>3. \A a \in Addrs : connections'[a] # x
        BY <2>2, <3>1, <4>2
      <4>4. ~(x = cur /\ reader = "start")
        BY <2>1, <3>2 DEF Lives
      <4> QED
        BY <2>1, <2>3, <3>2, <4>3, <4>4
    <3>3. CASE x # c
      <4>1. \A a \in Addrs : connections'[a] \in {connections[a], None}
        BY <2>2
      <4> QED
        BY <1>0, <2>1, <2>3, <3>1, <3>3, <4>1 DEF Single
    <3> QED
      BY <3>2, <3>3
  <2> QED
    BY <2>5, <2>6
<1> QED
  BY <1>1, <1>2, <1>3, <1>4, <1>5 DEF Remove

\* What is known of the time without migrations is inductive
THEOREM QuietInvariance == Spec => []QInv
<1>1. Init => QInv
  <2> SUFFICES ASSUME Init PROVE Lives /\ Named /\ Single
    BY DEF QInv
  <2>1. /\ \A c \in Conns : life[c] = "none" /\ c > created
        /\ \A i \in Ids : sessions[i] = None
        /\ reader = "read" /\ 1..created = {}
    BY ListenerAssumption DEF Init, Conns
  <2> QED
    BY <2>1 DEF Lives, Named, Single, Removing
<1>2. IInv /\ IInv' /\ QInv /\ [Next]_vars => QInv'
  <2> SUFFICES ASSUME IInv, IInv', QInv, [Next]_vars, Quiet'
               PROVE  (Lives /\ Named /\ Single)'
    BY DEF QInv
  <2>1. Quiet /\ Lives /\ Named /\ Single
    BY QuietBefore DEF QInv
  <2>2. CASE \/ \E kind \in {"syn", "migrate"}, a \in Addrs, i \in Ids : Receive(kind, a, i)
             \/ LookUp \/ StartWorkers \/ OfferConn \/ Dropped \/ Accept \/ CloseReturns
             \/ UNCHANGED vars
             \/ \E c \in Conns : CloseConn(c) \/ Hang(c)
    BY <2>1, <2>2, QuietAside
  <2>3. CASE HandleSYN \/ RegisterSession \/ \E c \in Conns : Remove(c)
    BY <2>1, <2>3, QuietCreate, QuietRegister, QuietRemove
  <2>4. /\ ~StopReading /\ ~HandleMigration /\ ~MoveAddr /\ ~Reroute /\ ~Shut /\ ~LockConnMu
        /\ ~Collect /\ ~AllClosed /\ \A c \in Conns : ~CloseNext(c)
    BY <2>1 DEF Quiet, Lives, StopReading, HandleMigration, MoveAddr, Reroute, Shut, LockConnMu,
                Collect, AllClosed, CloseNext
  <2> QED
    BY <2>2, <2>3, <2>4 DEF Next, ReadLoop, CloseListener
<1> QED
  BY <1>1, <1>2, Invariance, PTL DEF Spec

\* As long as nobody migrates, a client that shares its session id with nobody is in the table
\* exactly while its connection is not closed, whatever other clients do meanwhile: no
\* removal of another connection deletes its entry, and its own does (handleSYN,
\* RemoveConnection)
THEOREM TrackedAlone == Spec => []AloneIsTracked
<1>1. IInv /\ QInv => AloneIsTracked
  <2> SUFFICES ASSUME IInv, QInv, Quiet, reader = "read", NEW c \in 1..created, Alone(c)
               PROVE  /\ life[c] = "open" => \E a \in Addrs : connections[a] = c
                      /\ life[c] = "closed" => \A a \in Addrs : connections[a] # c
    BY DEF AloneIsTracked, Quiet
  <2>1. Lives /\ Named /\ Single
    BY DEF QInv
  <2>2. c \in Conns /\ c # None
    BY Types DEF Conns, None
  <2>3. ASSUME life[c] = "open" PROVE \E a \in Addrs : connections[a] = c
    <3>1. sessionID[c] \in Ids /\ sessions[sessionID[c]] = c
      BY <2>1, <2>2, <2>3, Types DEF Single
    <3>2. Routed(c) /\ remoteAddr[c] \in Addrs
      BY <2>1, <2>2, <3>1, Types DEF Named
    <3> QED
      BY <3>2 DEF Routed
  <2> QED
    BY <2>1, <2>3 DEF Single
<1> QED
  BY <1>1, Invariance, QuietInvariance, PTL
====
