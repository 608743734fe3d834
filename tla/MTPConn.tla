---- MODULE MTPConn ----
(***************************************************************************)
(* A client's MTPConns (pkg/mtp/conn.go) against the listener and its      *)
(* connections: the handshake, the migration to a new socket, keepalive    *)
(* and close, with packets that are lost, reordered, and repeated by the   *)
(* attempts of a handshake, and the connection ids that every codec rotates*)
(* by its own clock.                                                       *)
(*                                                                         *)
(* The client uses one connection at a time and dials again when it has    *)
(* none; all its connections have one session id, because the id is the    *)
(* secret.  A socket is a number and stands for its address too.  The      *)
(* listener's steps are whole here; module Listener has their interleaving.*)
(* A packet that waits in recvCh of its connection counts as in flight.    *)
(* Bug... is a mutated form of the definition after it.                    *)
(***************************************************************************)
EXTENDS PacketCodec, FiniteSets

CONSTANTS
    MaxSockets,   \* bound: sockets of the client, numbered from 1
    MaxConns,     \* bound: connections the listener makes, numbered from 1
    MaxTries,     \* attempts of a handshake (5)
    QuietLimit,   \* keepalive ticks without reception before a close (60s / 10s)
    Interval,     \* ticks between two rotations of a connection id
    MaxTime,      \* bound: ticks of the clock
    MaxNet,       \* bound: packets in flight; what does not fit is lost
    Payloads,     \* payloads to encode and decode
    MinSize,      \* the configured size below which nothing is compressed
    IdLen         \* length of the session id, the secret

ASSUME MTPConnAssumption ==
    /\ MaxSockets \in Nat /\ MaxConns \in Nat /\ MaxTries \in Nat \ {0}
    /\ QuietLimit \in Nat /\ Interval \in Nat \ {0, 1}
    /\ MaxTime \in Nat /\ MaxNet \in Nat /\ MinSize \in Nat /\ IdLen \in Nat
    /\ \A p \in Payloads : p.len \in Nat /\ p.zlen \in Nat /\ p = Payload(p.len, p.zlen)

Sockets == 1..MaxSockets
Conns == 1..MaxConns
None == 0

VARIABLES
    now,          \* the clock, in ticks much longer than a handshake
    net,          \* packets in flight
    \* the client and its connection
    state,        \* "none", "dialing", "up", "closed", "failed"
    sockets,      \* sockets the client ever opened
    open,         \* and those that are open
    dial,         \* the socket the connection was dialled from, its identity
    sock,         \* udpConn
    start,        \* when its codec was made
    tries, began, \* attempts of the handshake in progress, and since when
    quiet,        \* keepalive ticks since the last packet came
    mig, msock,   \* Migrate: "idle" or "waiting", and its new socket
    mrev,         \* revision its request was encoded with
    abandoned,    \* history: a migration of this connection failed
    leaked,       \* history: sockets that Migrate gave to a connection already closed
    \* the server
    connections,  \* socket (address) -> connection
    session,      \* sessions[id], the one id there is
    created,      \* connections so far
    life,         \* "none", "open", "closed"
    born, sstart, \* the socket whose SYN it answers, and when its codec was made
    addr,         \* remoteAddr
    squiet,
    stray         \* history: a request was obeyed that the client does not wait for any more

migVars == <<mig, msock, mrev, abandoned, leaked>>
clientVars == <<state, sockets, open, dial, sock, start, tries, began, quiet, migVars>>
serverVars == <<connections, session, created, life, born, sstart, addr, squiet>>
vars == <<now, net, clientVars, serverVars, stray>>

Init ==
    /\ now = 0 /\ net = {}
    /\ state = "none" /\ sockets = 0 /\ open = {} /\ dial = None /\ sock = None
    /\ start = 0 /\ tries = 0 /\ began = 0 /\ quiet = 0
    /\ mig = "idle" /\ msock = None /\ mrev = 0 /\ abandoned = FALSE /\ leaked = {}
    /\ connections = [s \in Sockets |-> None] /\ session = None /\ created = 0
    /\ life = [k \in Conns |-> "none"] /\ born = [k \in Conns |-> None]
    /\ sstart = [k \in Conns |-> 0] /\ addr = [k \in Conns |-> None]
    /\ squiet = [k \in Conns |-> 0]
    /\ stray = FALSE

-----------------------------------------------------------------------------
(* Codecs, and the network.                                                *)

\* rotateDCID: the revision of a codec made at time t
Revision(t) == (now - t) \div Interval
Config(enable) == [enable |-> enable, minSize |-> MinSize]

\* The packets below carry too little to be compressed, whatever the configuration
Plain == Config(FALSE)

\* A control packet: AUTH:id, MIGRATE:id, the id, or nothing
Packet(type) ==
    LET n == CASE type = "SYN" -> 5 + IdLen
               [] type = "MIGRATE" -> 8 + IdLen
               [] type = "SYNACK" -> IdLen
               [] OTHER -> 0
    IN  [type |-> type, payload |-> Payload(n, n)]

\* A packet of the client's connection, and of connection k, and of the listener (whose
\* codec was made at time 0)
FromClient(s, rev, pkt) ==
    [to |-> "server", sock |-> s, wire |-> Encode(Plain, rev, pkt)]
FromConn(k, type) ==
    [to |-> "client", sock |-> addr[k],
     wire |-> Encode(Plain, Revision(sstart[k]), Packet(type))]
FromListener(s, pkt) ==
    [to |-> "client", sock |-> s, wire |-> Encode(Plain, Revision(0), pkt)]
FakeResponse(s) == [to |-> "client", sock |-> s, wire |-> Decoy]

\* Packets ps are sent into network n; what is for a socket that is closed is lost
With(n, ps) ==
    LET all == {m \in n \cup ps : m.to = "client" => m.sock \in open}
    IN  IF Cardinality(all) <= MaxNet THEN all ELSE all \cap n

Send(ps) == net' = With(net, ps)

\* Packet m is taken from the network, and ps are sent
Receive(m, ps) == net' = With(net \ {m}, ps)

Lose(m) ==
    /\ net' = net \ {m}
    /\ UNCHANGED <<now, clientVars, serverVars, stray>>

\* No packet and no attempt of a handshake is as old as a tick is long
Tick ==
    /\ now < MaxTime
    /\ state = "dialing" \/ mig = "waiting" => now = began
    /\ now' = now + 1
    /\ net' = {}
    /\ UNCHANGED <<clientVars, serverVars, stray>>

-----------------------------------------------------------------------------
(* The client: DialWithConfig and handshakeClient.                         *)

\* The SYN is encoded once, with the first revision
Syn(s) == FromClient(s, 0, Packet("SYN"))

Dial ==
    /\ state \in {"none", "closed", "failed"} /\ mig = "idle" /\ sockets < MaxSockets
    /\ sockets' = sockets + 1 /\ dial' = sockets' /\ sock' = sockets'
    /\ open' = open \cup {sockets'}
    /\ state' = "dialing" /\ start' = now /\ began' = now /\ tries' = 1 /\ quiet' = 0
    /\ abandoned' = FALSE
    /\ Send({Syn(sockets')})
    /\ UNCHANGED <<now, mig, msock, mrev, leaked, serverVars, stray>>

HandshakeOver == tries' = 0 /\ began' = 0

BugDialAgain == UNCHANGED <<tries, began, state, open>>
\* The next attempt, or the end of the last one
DialAgain ==
    \/ tries < MaxTries /\ tries' = tries + 1 /\ UNCHANGED <<began, state, open>>
    \/ tries = MaxTries /\ HandshakeOver /\ state' = "failed" /\ open' = open \ {sock}

NextSyn == IF tries < MaxTries THEN {Syn(sock)} ELSE {}

DialTimeout ==
    /\ state = "dialing"
    /\ DialAgain /\ Send(NextSyn)
    /\ UNCHANGED <<now, sockets, dial, sock, start, quiet, migVars,
                   serverVars, stray>>

\* What the client's codec makes of packet m
Decoded(m) == Decode(Plain, Revision(start), m.wire)

\* Anything but a SYN-ACK, decodable or not, uses up the attempt without further waiting
DialReceive(m) ==
    /\ state = "dialing" /\ m.to = "client" /\ m.sock = sock
    /\ \/ Decoded(m).type = "SYNACK" /\ state' = "up" /\ HandshakeOver
          /\ Receive(m, {}) /\ UNCHANGED open
       \/ Decoded(m).type # "SYNACK" /\ DialAgain /\ Receive(m, NextSyn)
    /\ UNCHANGED <<now, sockets, dial, sock, start, quiet, migVars,
                   serverVars, stray>>

-----------------------------------------------------------------------------
(* The client: the connection in use.                                      *)

Control(type) == FromClient(sock, Revision(start), Packet(type))

\* Close: FIN, and the socket that is current.  Nobody reads lastRecv any more.
CloseClient == state' = "closed" /\ open' = open \ {sock} /\ quiet' = 0

\* recvLoopDirect and processIncoming
ClientReceive(m) ==
    /\ state = "up" /\ m.to = "client" /\ m.sock = sock
    /\ quiet' = 0
    /\ \/ /\ Decoded(m).type = "PING"
          /\ Receive(m, {Control("PONG")}) /\ UNCHANGED <<state, open>>
       \/ Decoded(m).type = "FIN" /\ CloseClient /\ Receive(m, {Control("FINACK"), Control("FIN")})
       \/ Decoded(m).type = "FINACK" /\ CloseClient /\ Receive(m, {Control("FIN")})
       \/ /\ Decoded(m).type \notin {"PING", "FIN", "FINACK"}
          /\ Receive(m, {}) /\ UNCHANGED <<state, open>>
    /\ UNCHANGED <<now, sockets, dial, sock, start, tries, began, migVars,
                   serverVars, stray>>

BugClientKeepalive ==
    /\ state = "up"
    /\ quiet' \in {quiet + 1, QuietLimit} /\ quiet' <= QuietLimit
    /\ Send({Control("PING")}) /\ UNCHANGED <<state, open>>
    /\ UNCHANGED <<now, sockets, dial, sock, start, tries, began, migVars,
                   serverVars, stray>>
\* keepaliveLoop
ClientKeepalive ==
    /\ state = "up"
    /\ \/ /\ quiet < QuietLimit
          /\ quiet' = quiet + 1 /\ Send({Control("PING")}) /\ UNCHANGED <<state, open>>
       \/ quiet = QuietLimit /\ CloseClient /\ Send({Control("FIN")})
    /\ UNCHANGED <<now, sockets, dial, sock, start, tries, began, migVars,
                   serverVars, stray>>

ClientClose ==
    /\ state = "up"
    /\ CloseClient /\ Send({Control("FIN")})
    /\ UNCHANGED <<now, sockets, dial, sock, start, tries, began, migVars,
                   serverVars, stray>>

-----------------------------------------------------------------------------
(* The client: Migrate.  The receive loop and keepalive go on meanwhile.   *)

MigrateSyn == FromClient(msock, mrev, Packet("MIGRATE"))

\* Nothing keeps Migrate from a connection that is closed already
Migrate ==
    /\ state \in {"up", "closed"} /\ mig = "idle" /\ sockets < MaxSockets
    /\ sockets' = sockets + 1 /\ msock' = sockets' /\ open' = open \cup {sockets'}
    /\ mig' = "waiting" /\ mrev' = Revision(start) /\ tries' = 1 /\ began' = now
    /\ Send({FromClient(sockets', Revision(start), Packet("MIGRATE"))})
    /\ UNCHANGED <<now, state, dial, sock, start, quiet, abandoned, leaked,
                   serverVars, stray>>

MigrateOver == mig' = "idle" /\ msock' = None /\ mrev' = 0 /\ HandshakeOver
KeepTrying == tries' = tries + 1 /\ UNCHANGED <<mig, msock, mrev, began, open, abandoned>>

BugGiveUp == MigrateOver /\ abandoned' = TRUE /\ UNCHANGED open
GiveUp == MigrateOver /\ open' = open \ {msock} /\ abandoned' = TRUE

MigrateAgain == \/ tries < MaxTries /\ KeepTrying
                \/ tries = MaxTries /\ GiveUp

NextMigrateSyn == IF tries < MaxTries THEN {MigrateSyn} ELSE {}

MigrateTimeout ==
    /\ mig = "waiting"
    /\ MigrateAgain /\ Send(NextMigrateSyn)
    /\ UNCHANGED <<now, state, sockets, dial, sock, start, quiet, leaked, serverVars, stray>>

BugMigrated ==
    /\ MigrateOver /\ open' = open \ {msock}
    /\ UNCHANGED <<sock, abandoned, leaked>>
\* The socket is replaced, whether or not the connection was closed meanwhile
Migrated ==
    /\ MigrateOver /\ sock' = msock /\ open' = open \ {sock}
    /\ leaked' = (leaked \ {sock}) \cup (IF state = "closed" THEN {msock} ELSE {})
    /\ UNCHANGED abandoned

MigrateReceive(m) ==
    /\ mig = "waiting" /\ m.to = "client" /\ m.sock = msock
    /\ \/ Decoded(m).type = "SYNACK" /\ Migrated /\ Receive(m, {})
       \/ /\ Decoded(m).type # "SYNACK"
          /\ MigrateAgain /\ Receive(m, NextMigrateSyn)
          /\ UNCHANGED <<sock, leaked>>
    /\ UNCHANGED <<now, state, sockets, dial, start, quiet, serverVars, stray>>

-----------------------------------------------------------------------------
(* The listener and its connections.                                       *)

\* RemoveConnection forgets whichever connection the session id leads to
Forget(routes) ==
    /\ session' = None
    /\ connections' = IF session = None THEN routes
                      ELSE [routes EXCEPT ![addr[session]] = None]

CloseConn(k) ==
    /\ life' = [life EXCEPT ![k] = "closed"] /\ squiet' = [squiet EXCEPT ![k] = 0]
    /\ Forget(connections)

\* DispatchPacket and processIncoming, for a packet from an address that is known
ConnReceive(k, m) ==
    LET pkt == Decode(Plain, Revision(sstart[k]), m.wire)
    IN  /\ m.to = "server" /\ connections[m.sock] = k
        /\ life[k] = "open"
        /\ squiet' = [squiet EXCEPT ![k] = 0]
        /\ \/ pkt.type = "PING" /\ Receive(m, {FromConn(k, "PONG")})
              /\ UNCHANGED <<life, session, connections>>
           \/ pkt.type \in {"SYN", "MIGRATE"} /\ Receive(m, {FromConn(k, "SYNACK")})
              /\ UNCHANGED <<life, session, connections>>
           \/ pkt.type = "FIN" /\ CloseConn(k)
              /\ Receive(m, {FromConn(k, "FINACK"), FromConn(k, "FIN")})
           \/ pkt.type = "FINACK" /\ CloseConn(k) /\ Receive(m, {FromConn(k, "FIN")})
           \/ pkt.type \in {"none", "PONG", "DATA"} /\ Receive(m, {})
              /\ UNCHANGED <<life, session, connections>>
        /\ UNCHANGED <<now, clientVars, created, born, sstart, addr, stray>>

\* A closed connection that is still in the table drops what comes
DropDispatched(k, m) ==
    /\ m.to = "server" /\ connections[m.sock] = k /\ life[k] = "closed"
    /\ Receive(m, {})
    /\ UNCHANGED <<now, clientVars, serverVars, stray>>

\* What the listener's codec makes of a packet from an unknown address
ListenerDecoded(m) == Decode(Plain, Revision(0), m.wire)

FromUnknown(m, type) ==
    m.to = "server" /\ connections[m.sock] = None /\ ListenerDecoded(m).type = type

\* Not decodable or not a SYN: the sender is taken for a scanner
FakeAnswer(m) ==
    /\ \E type \in {"none", "PING", "PONG", "FIN", "FINACK", "DATA"} : FromUnknown(m, type)
    /\ Receive(m, {FakeResponse(m.sock)})
    /\ UNCHANGED <<now, clientVars, serverVars, stray>>

BugMakeConn(k, s) ==
    /\ k = created + 1 /\ created' = k
    /\ born' = [born EXCEPT ![k] = s] /\ addr' = [addr EXCEPT ![k] = s]
    /\ UNCHANGED <<sstart, squiet>>
MakeConn(k, s) ==
    /\ k = created + 1 /\ created' = k
    /\ born' = [born EXCEPT ![k] = s] /\ addr' = [addr EXCEPT ![k] = s]
    /\ sstart' = [sstart EXCEPT ![k] = now]
    /\ squiet' = [squiet EXCEPT ![k] = 0]

\* handleSYN: a new connection, under its address and the session id
HandleSYN(k, m) ==
    /\ FromUnknown(m, "SYN")
    /\ MakeConn(k, m.sock)
    /\ life' = [life EXCEPT ![k] = "open"]
    /\ session' = k
    /\ connections' = [connections EXCEPT ![m.sock] = k]
    /\ Receive(m, {FromListener(m.sock, Packet("SYNACK"))})
    /\ stray' = (stray \/ ~(state = "dialing" /\ m.sock = sock))
    /\ UNCHANGED <<now, clientVars>>

\* ... which the accept queue has no room for: closed, and found under the id itself
RefuseSYN(k, m) ==
    /\ FromUnknown(m, "SYN")
    /\ MakeConn(k, m.sock)
    /\ life' = [life EXCEPT ![k] = "closed"]
    /\ session' = None
    /\ Receive(m, {FromListener(m.sock, Packet("SYNACK")),
                   [to |-> "client", sock |-> m.sock,
                    wire |-> Encode(Plain, 0, Packet("FIN"))]})
    /\ UNCHANGED <<now, clientVars, connections, stray>>

\* The answer to a migration says OK
Moved == [type |-> "SYNACK", payload |-> Payload(2, 2)]

\* handleMigration: the connection of the id moves, whoever asks
HandleMigration(m) ==
    /\ FromUnknown(m, "MIGRATE") /\ session # None
    /\ addr' = [addr EXCEPT ![session] = m.sock]
    /\ connections' = [connections EXCEPT ![addr[session]] = None, ![m.sock] = session]
    /\ Receive(m, {FromListener(m.sock, Moved)})
    /\ stray' = (stray \/ ~(mig = "waiting" /\ m.sock = msock))
    /\ UNCHANGED <<now, clientVars, session, created, life, born, sstart, squiet>>

\* A session that is not known: no answer
IgnoreMigration(m) ==
    /\ FromUnknown(m, "MIGRATE") /\ session = None
    /\ Receive(m, {})
    /\ UNCHANGED <<now, clientVars, serverVars, stray>>

BugConnKeepalive(k) ==
    /\ life[k] = "open"
    /\ Send({FromConn(k, "PING")}) /\ UNCHANGED <<squiet, life, session, connections>>
    /\ UNCHANGED <<now, clientVars, created, born, sstart, addr, stray>>
\* keepaliveLoop
ConnKeepalive(k) ==
    /\ life[k] = "open"
    /\ \/ /\ squiet[k] < QuietLimit
          /\ squiet' = [squiet EXCEPT ![k] = @ + 1] /\ Send({FromConn(k, "PING")})
          /\ UNCHANGED <<life, session, connections>>
       \/ /\ squiet[k] = QuietLimit
          /\ CloseConn(k) /\ Send({FromConn(k, "FIN")})
    /\ UNCHANGED <<now, clientVars, created, born, sstart, addr, stray>>

\* The server's session above ends
ConnClose(k) ==
    /\ life[k] = "open"
    /\ CloseConn(k) /\ Send({FromConn(k, "FIN")})
    /\ UNCHANGED <<now, clientVars, created, born, sstart, addr, stray>>

Next ==
    \/ Tick \/ Dial \/ DialTimeout
    \/ ClientKeepalive \/ ClientClose \/ Migrate \/ MigrateTimeout
    \/ \E m \in net :
          \/ Lose(m) \/ DialReceive(m) \/ ClientReceive(m) \/ MigrateReceive(m)
          \/ FakeAnswer(m) \/ HandleMigration(m) \/ IgnoreMigration(m)
          \/ \E k \in Conns : \/ ConnReceive(k, m) \/ DropDispatched(k, m)
                              \/ HandleSYN(k, m) \/ RefuseSYN(k, m)
    \/ \E k \in Conns : ConnKeepalive(k) \/ ConnClose(k)

Spec == Init /\ [][Next]_vars

(* Timers of handshakes and keepalive tickers fire.  Nothing is assumed of *)
(* the network or of the programs above the connections.                   *)
Fairness ==
    /\ WF_vars(DialTimeout) /\ WF_vars(MigrateTimeout) /\ WF_vars(ClientKeepalive)
    /\ \A k \in Conns : WF_vars(ConnKeepalive(k))

FairSpec == Spec /\ Fairness

-----------------------------------------------------------------------------
\* Types, and the network holds no more than its bound (conn.go, listener.go).
TypeOK ==
    /\ now \in 0..MaxTime
    /\ Cardinality(net) <= MaxNet
    /\ state \in {"none", "dialing", "up", "closed", "failed"}
    /\ sockets \in 0..MaxSockets /\ open \subseteq 1..sockets
    /\ dial \in 0..sockets /\ sock \in 0..sockets /\ msock \in 0..sockets
    /\ start \in 0..now /\ began \in 0..now /\ tries \in 0..MaxTries /\ quiet \in 0..QuietLimit
    /\ mig \in {"idle", "waiting"} /\ mrev \in Nat /\ abandoned \in BOOLEAN
    /\ leaked \subseteq 1..sockets
    /\ created \in 0..MaxConns /\ session \in 0..created
    /\ connections \in [Sockets -> 0..created]
    /\ life \in [Conns -> {"none", "open", "closed"}]
    /\ born \in [Conns -> 0..sockets] /\ addr \in [Conns -> 0..sockets]
    /\ sstart \in [Conns -> 0..now] /\ squiet \in [Conns -> 0..QuietLimit]
    /\ stray \in BOOLEAN

\* The connections the listener made for the dial of the client's connection
Peers == {k \in Conns : life[k] # "none" /\ born[k] = dial}

\* A dial succeeds only against a connection that the listener made for its socket: neither
\* a decoy, nor an old answer, nor one for another socket is taken for the SYN-ACK
\* (handshakeClient).
UpHasPeer == state = "up" => Peers # {}

\* While no migration was given up and no late request was obeyed, the connection that the
\* session id leads to, if it is the client's, sends to the socket the client listens on, or
\* to the one its Migrate waits on: the two ends never move apart (Migrate, handleMigration).
Agree ==
    state = "up" /\ ~abandoned /\ ~stray /\ session \in Peers =>
        addr[session] = sock \/ (mig = "waiting" /\ addr[session] = msock)

\* What the address table leads to sends to that address, and what the session id leads to is
\* found under its address: handleSYN, handleMigration and RemoveConnection keep both tables
\* and the connection's remoteAddr in step.
Routed ==
    /\ \A s \in Sockets : connections[s] # None => addr[connections[s]] = s
    /\ session # None => connections[addr[session]] = session

\* The two ends of a connection rotate their ids by different clocks, and are at most one
\* revision apart, the client ahead, however long the handshake took and whatever the
\* revision of the listener (rotateDCID).
CodecsInStep ==
    state = "up" => \A k \in Peers : Revision(start) - Revision(sstart[k]) \in {0, 1}

\* Every socket the client has open is the one in use, the one Migrate waits on, or one that
\* Migrate gave to a connection which Close had already left: no other way to lose a socket.
SocketsAccounted ==
    open = leaked \cup (IF state \in {"dialing", "up"} THEN {sock} ELSE {})
                  \cup (IF mig = "waiting" THEN {msock} ELSE {})

\* A packet that the client's codec encodes and the server's decodes, each with its setting
\* of compression and its revision
Through(c, d, rev, srev, pkt) == Decode(Config(d), srev, Encode(Config(c), rev, pkt))

\* The server compresses if the client does, and a long header has enough to carry
Suits(c, d, pkt) == (c => d) /\ (pkt.type = "SYNACK" => ~c /\ pkt.payload.len >= 11)

\* A payload comes out of the server's codec as it went into the client's, whenever their
\* revisions agree and the server compresses if the client does: what became shorter is
\* flagged, and nothing else is taken for compressed (compressPayload, Encode, Decode).  In a
\* long header that is so for payloads of 11 bytes and more.
PayloadIntact ==
    \A k \in Peers : Revision(start) = Revision(sstart[k]) =>
        \A c, d \in BOOLEAN, pkt \in [type : {"DATA", "SYNACK"}, payload : Payloads] :
            Suits(c, d, pkt) => Through(c, d, Revision(start), Revision(sstart[k]), pkt) = pkt

\* A dial and a migration end, whatever the network does to their packets.
HandshakesEnd ==
    /\ state = "dialing" ~> state # "dialing"
    /\ mig = "waiting" ~> mig = "idle"

\* A client that hears nothing closes its connection, or hears something (keepaliveLoop).
SilenceNoticed == (state = "up" /\ quiet = QuietLimit) ~> (quiet = 0 \/ state # "up")

\* A connection that the client has left is closed by the server some day, even when every
\* packet of the client's Close is lost (keepaliveLoop of the server's MTPConn).
ServerForgets ==
    \A k \in Conns : (life[k] = "open" /\ (born[k] # dial \/ state \in {"closed", "failed"}))
                        ~> life[k] = "closed"

\* Neither end waits for the other for ever, in a handshake, in a migration or up, although
\* any packet may be lost (handshakeClient, Migrate, keepaliveLoop).
NobodyWaitsForever == HandshakesEnd /\ SilenceNoticed /\ ServerForgets

\* sendFakeResponse is for "active probing scanners", the fallback for what is "Not a valid
\* MTP packet" (listener.go): it never answers the SYN of a client that has the secret.
DecoysForScannersOnly ==
    [][\A m \in net : FakeAnswer(m) => m.wire.type # "SYN"]_vars
====
