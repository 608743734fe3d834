---- MODULE MTPConn_proofs ----
(***************************************************************************)
(* Proofs about MTPConn and PacketCodec for any number of sockets,         *)
(* connections and packets, any clock and any payloads.                    *)
(***************************************************************************)
EXTENDS MTPConn, FiniteSetTheorems, TLAPS

-----------------------------------------------------------------------------
(* The codec.                                                              *)

\* A codec keeps the type of what it encodes, and decodes no packet to another type
LEMMA TypesOnWire ==
    /\ \A cfg, rev, pkt : Encode(cfg, rev, pkt).type = pkt.type
    /\ \A cfg, rev, wire : Decode(cfg, rev, wire).type \in {wire.type, "none"}
    /\ \A type : Packet(type).type = type
BY DEF Encode, Decode, Undecodable, Packet

\* The two forms of a header, and what a payload is made of, survive the way through a codec
\* with the same revision: what became shorter is flagged and wrapped, and what is not
\* flagged was not touched (compressPayload, Encode, Decode)
LEMMA RoundTrip ==
    ASSUME NEW c \in BOOLEAN, NEW d \in BOOLEAN, NEW rev,
           NEW pkt \in [type : {"DATA", "SYNACK"}, payload : Payloads], Suits(c, d, pkt)
    PROVE  Through(c, d, rev, rev, pkt) = pkt
<1> DEFINE p == pkt.payload
           n == p.len
           q == CompressPayload(Config(c), p)
           wire == Encode(Config(c), rev, pkt)
<1>1. /\ n \in Nat /\ p = [form |-> "plain", len |-> n, zlen |-> p.zlen] /\ p.zlen \in Nat
      /\ WireLen(p) = n
  BY MTPConnAssumption DEF Payload, WireLen
<1>2. /\ wire.dcid = rev /\ wire.type = pkt.type /\ wire.payload = q
      /\ wire.compressed <=> WireLen(q) < n
      /\ wire.long <=> pkt.type = "SYNACK"
  BY DEF Encode
<1>3. q = p \/ (c /\ q = CompressWithHeader(p) /\ ~(WireLen(q) >= n))
  <2>1. Config(c).enable <=> c
    BY DEF Config
  <2> HIDE DEF p
  <2> QED
    BY <2>1 DEF CompressPayload
<1>4. CompressWithHeader(p) \in {[p EXCEPT !.form = "stored"], [p EXCEPT !.form = "zstd"]}
  BY DEF CompressWithHeader
<1>5. DecompressPayload(Config(d), CompressWithHeader(p)) = IF d THEN p ELSE CompressWithHeader(p)
  BY <1>1, <1>4 DEF DecompressPayload, DecompressWithHeader, Config
<1>6. WireLen(CompressWithHeader(p)) \in Nat
  BY <1>1, <1>4 DEF WireLen, HeaderLen
<1>7. Decode(Config(d), rev, wire) = pkt
  <2> HIDE DEF p, n, q, wire
  <2>1. CASE q = p
    <3>1. /\ wire.dcid = rev /\ wire.type = pkt.type /\ wire.payload = p /\ ~wire.compressed
          /\ wire.long <=> pkt.type = "SYNACK"
      BY <1>1, <1>2, <2>1
    <3>2. pkt.type = "SYNACK" => Remaining(p) >= 64
      BY <1>1 DEF Remaining, Suits, p, n
    <3> QED
      BY <3>1, <3>2 DEF Decode, LengthReadable, p
  <2>2. CASE c /\ q = CompressWithHeader(p) /\ ~(WireLen(q) >= n)
    <3>1. WireLen(q) < n
      BY <1>1, <1>6, <2>2
    <3>2. pkt.type = "DATA" /\ d
      BY <2>2 DEF Suits
    <3>3. /\ wire.dcid = rev /\ wire.type = pkt.type /\ wire.payload = q /\ wire.compressed
          /\ ~wire.long
      BY <1>2, <3>1, <3>2
    <3>4. DecompressPayload(Config(d), q) = p
      BY <1>5, <2>2, <3>2
    <3> QED
      BY <3>3, <3>4 DEF Decode, LengthReadable, p
  <2> QED
    BY <1>3, <2>1, <2>2
<1> QED
  BY <1>7 DEF Through

\* A payload comes out of the peer's codec as it went in, whatever its length and however
\* well it compresses (packet.go, compression.go)
THEOREM CodecsAgree == Spec => []PayloadIntact
<1>1. PayloadIntact
  BY RoundTrip DEF PayloadIntact
<1> QED
  BY <1>1, PTL

-----------------------------------------------------------------------------
(* The inductive invariant.                                                *)

Made(k) == life[k] # "none"

\* The client's sockets are fresh when it opens them, and a handshake in progress is one of a
\* dial or of a migration
ClientInv ==
    /\ state # "none" => dial \in 1..sockets /\ sock \in 1..sockets
    /\ state = "dialing" => mig = "idle" /\ sock = dial /\ began = start /\ now <= start + 1
    /\ mig = "waiting" => /\ state \in {"up", "closed"}
                          /\ msock \in 1..sockets /\ msock \notin leaked \cup {sock, dial}
    /\ state \in {"dialing", "up"} => sock \notin leaked
    /\ SocketsAccounted

\* The server's connections are numbered as they are made, and its tables are in step
ServerInv ==
    /\ \A k \in Conns : Made(k) <=> k <= created
    /\ \A k \in Conns : Made(k) => born[k] \in 1..sockets /\ addr[k] \in 1..sockets
    /\ Routed

\* Only the SYN of the present dial makes a peer, and within a tick of it; a connection
\* that sends to the socket of a migration is the one its session id leads to
PeerInv ==
    /\ UpHasPeer
    /\ \A k \in Peers : sstart[k] \in {start, start + 1}
    /\ \A k \in Conns : Made(k) /\ addr[k] = dial => born[k] = dial
    /\ ~abandoned /\ ~stray /\ session \in Peers =>
           /\ state = "dialing" => addr[session] = sock
           /\ mig = "waiting" => \A k \in Conns : Made(k) /\ addr[k] = msock => session = k
    /\ Agree

\* What a packet in flight says of its past: a SYN of this dial is no older than a tick, and
\* whoever is sent a SYN-ACK has a connection that sends to it
GoodMsg(m) ==
    /\ m.sock \in 1..sockets
    /\ m.to = "server" /\ m.sock = dial =>
           m.wire.type # "MIGRATE" /\ (m.wire.type = "SYN" => now <= start + 1)
    /\ m.to = "client" /\ m.wire.type = "SYNACK" =>
           /\ m.sock = dial => Peers # {}
           /\ mig = "waiting" /\ m.sock = msock /\ ~abandoned /\ ~stray /\ session \in Peers =>
                  addr[session] = msock

NetInv == IsFiniteSet(net) /\ \A m \in net : GoodMsg(m)

IInv == TypeOK /\ ClientInv /\ ServerInv /\ PeerInv /\ NetInv

-----------------------------------------------------------------------------
(* The network.                                                            *)

\* Packets ps may come into the network, and it stays within its bound
NetGrows(ps) == IsFiniteSet(net') /\ Cardinality(net') <= MaxNet /\ net' \subseteq net \cup ps

\* Sending packets keeps the network within its bound, adds only those packets, and drops what
\* is addressed to a socket that was closed (With)
LEMMA WithGrows ==
    ASSUME NEW n, IsFiniteSet(n), Cardinality(n) <= MaxNet, NEW ps, IsFiniteSet(ps)
    PROVE  /\ IsFiniteSet(With(n, ps)) /\ Cardinality(With(n, ps)) <= MaxNet
           /\ With(n, ps) \subseteq n \cup ps
<1> DEFINE all == {m \in n \cup ps : m.to = "client" => m.sock \in open}
<1>1. IsFiniteSet(all) /\ all \subseteq n \cup ps
  BY FS_Union, FS_Subset
<1>2. IsFiniteSet(all \cap n) /\ Cardinality(all \cap n) <= MaxNet
  <2>1. IsFiniteSet(all \cap n) /\ Cardinality(all \cap n) <= Cardinality(n)
    BY FS_Subset
  <2>2. Cardinality(all \cap n) \in Nat /\ Cardinality(n) \in Nat
    BY <2>1, FS_CardinalityType
  <2> QED
    BY <2>1, <2>2, MTPConnAssumption
<1> HIDE DEF all
<1>3. With(n, ps) = IF Cardinality(all) <= MaxNet THEN all ELSE all \cap n
  BY DEF With, all
<1> QED
  BY <1>1, <1>2, <1>3

\* A packet sent, a packet received, one taken for another
LEMMA Growth ==
    ASSUME IsFiniteSet(net), Cardinality(net) <= MaxNet, NEW ps, IsFiniteSet(ps)
    PROVE  /\ Send(ps) => NetGrows(ps)
           /\ \A m \in net : Receive(m, ps) => NetGrows(ps)
<1>1. Send(ps) => NetGrows(ps)
  BY WithGrows DEF Send, NetGrows
<1>2. ASSUME NEW m \in net, Receive(m, ps)
      PROVE  NetGrows(ps)
  <2> DEFINE n == net \ {m}
  <2>1. IsFiniteSet(n) /\ Cardinality(n) <= Cardinality(net) /\ n \subseteq net
    BY FS_Subset
  <2>2. Cardinality(n) <= MaxNet
    BY <2>1, FS_CardinalityType, MTPConnAssumption
  <2>3. net' = With(n, ps)
    BY <1>2 DEF Receive
  <2> HIDE DEF n
  <2>4. /\ IsFiniteSet(net') /\ Cardinality(net') <= MaxNet
        /\ net' \subseteq n \cup ps
    BY <2>1, <2>2, <2>3, WithGrows
  <2> QED
    BY <2>1, <2>4 DEF NetGrows
<1> QED
  BY <1>1, <1>2

\* The sets of packets that the actions send are finite
LEMMA FewPackets ==
    /\ IsFiniteSet({})
    /\ \A x, y : IsFiniteSet({x}) /\ IsFiniteSet({x, y})
<1>1. ASSUME NEW x, NEW y PROVE IsFiniteSet({x}) /\ IsFiniteSet({x, y})
  <2>1. IsFiniteSet({x}) /\ IsFiniteSet({y}) /\ {x, y} = {x} \cup {y}
    BY FS_Singleton
  <2> QED
    BY <2>1, FS_Union, Zenon
<1> QED
  BY <1>1, FS_EmptySet

\* What the client sends names its socket, and is a SYN or MIGRATE only when it says so
LEMMA ClientPacket ==
    ASSUME NEW s, NEW rev, NEW type
    PROVE  LET x == FromClient(s, rev, Packet(type))
           IN  x.to = "server" /\ x.sock = s /\ x.wire.type = type
BY TypesOnWire DEF FromClient

-----------------------------------------------------------------------------
(* Steps of the client.                                                    *)

\* A client's step leaves the server and what it knows of its peer alone: what there is to
\* see is its new sockets, and the packets it sends
LEMMA ClientFrame ==
    ASSUME IInv, UNCHANGED <<now, start, dial, serverVars, stray>>,
           sockets' \in {sockets, sockets + 1}, abandoned => abandoned',
           mig' = "waiting" => (mig = "waiting" /\ msock' = msock) \/ msock' = sockets + 1,
           state' = "dialing" => state = "dialing" /\ sock' = sock,
           NEW ps, NetGrows(ps),
           \A x \in ps : /\ x.to = "server" /\ x.sock \in 1..sockets'
                         /\ x.sock = dial => x.wire.type # "MIGRATE"
                                             /\ (x.wire.type = "SYN" => now <= start + 1),
           UpHasPeer', Agree'
    PROVE  ServerInv' /\ PeerInv' /\ NetInv'
<1>1. /\ sockets \in Nat /\ 1..sockets \subseteq 1..sockets' /\ sockets + 1 \notin 1..sockets
      /\ Peers' = Peers /\ \A k : Made(k)' <=> Made(k)
  BY MTPConnAssumption DEF IInv, TypeOK, Peers, Made, serverVars
<1>2. ServerInv'
  BY <1>1 DEF IInv, ServerInv, Routed, serverVars
<1>3. PeerInv'
  <2>1. /\ \A k \in Peers' : sstart'[k] \in {start', start' + 1}
        /\ \A k \in Conns : Made(k)' /\ addr'[k] = dial' => born'[k] = dial'
    BY <1>1 DEF IInv, PeerInv, serverVars
  <2>2. ASSUME ~abandoned', ~stray', session' \in Peers'
        PROVE  /\ state' = "dialing" => addr'[session'] = sock'
               /\ mig' = "waiting" =>
                    \A k \in Conns : Made(k)' /\ addr'[k] = msock' => session' = k
    BY <1>1, <2>2 DEF IInv, PeerInv, ServerInv, serverVars
  <2> QED
    BY <2>1, <2>2 DEF PeerInv
<1>4. ASSUME NEW x \in net' PROVE GoodMsg(x)'
  <2>1. CASE x \in net
    <3>1. GoodMsg(x)
      BY <2>1 DEF IInv, NetInv
    <3> QED
      BY <1>1, <3>1 DEF GoodMsg, serverVars
  <2>2. CASE x \in ps
    BY <2>2 DEF GoodMsg
  <2> QED
    BY <1>4, <2>1, <2>2 DEF NetGrows
<1> QED
  BY <1>2, <1>3, <1>4 DEF NetInv, NetGrows

\* Another attempt of a dial, or its failure (handshakeClient)
LEMMA DialAttempt ==
    ASSUME IInv, state = "dialing", DialAgain, NetGrows(NextSyn),
           UNCHANGED <<now, sockets, dial, sock, start, quiet, migVars, serverVars, stray>>
    PROVE  IInv'
<1>1. /\ tries \in 0..MaxTries /\ MaxTries \in Nat /\ began \in 0..now /\ now \in Nat
      /\ dial \in 1..sockets /\ sock = dial /\ now <= start + 1 /\ mig = "idle"
  BY MTPConnAssumption DEF IInv, TypeOK, ClientInv
<1>2. \/ state' = "dialing" /\ UNCHANGED <<began, open>>
      \/ state' = "failed" /\ open' = open \ {sock}
  BY DEF DialAgain
<1>3. tries' \in 0..MaxTries /\ began' \in 0..now
  BY <1>1 DEF DialAgain, HandshakeOver
<1>4. TypeOK'
  BY <1>2, <1>3 DEF IInv, TypeOK, NetGrows, migVars, serverVars
<1>5. ClientInv'
  BY <1>2 DEF IInv, ClientInv, SocketsAccounted, migVars
<1>6. \A x \in NextSyn : x.to = "server" /\ x.sock = sock /\ x.wire.type = "SYN"
  BY ClientPacket DEF NextSyn, Syn
<1>7. UpHasPeer' /\ Agree'
  BY <1>2 DEF UpHasPeer, Agree
<1>8. ServerInv' /\ PeerInv' /\ NetInv'
  BY <1>1, <1>2, <1>6, <1>7, ClientFrame DEF migVars
<1> QED
  BY <1>4, <1>5, <1>8 DEF IInv

\* The client's handshake: a repetition, a failure, or an answer that is accepted or not (Dial)
LEMMA DialStep ==
    ASSUME IInv, DialTimeout \/ \E m \in net : DialReceive(m)
    PROVE  IInv'
<1>1. IsFiniteSet(net) /\ Cardinality(net) <= MaxNet /\ IsFiniteSet(NextSyn)
  BY FewPackets DEF IInv, TypeOK, NetInv, NextSyn
<1>2. CASE DialTimeout
  BY <1>1, <1>2, Growth, DialAttempt DEF DialTimeout
<1>3. ASSUME NEW m \in net, DialReceive(m) PROVE IInv'
  <2>1. CASE DialAgain /\ Receive(m, NextSyn)
    BY <1>1, <1>3, <2>1, Growth, DialAttempt DEF DialReceive
  <2>2. CASE Decoded(m).type = "SYNACK" /\ state' = "up" /\ HandshakeOver /\ Receive(m, {})
             /\ UNCHANGED open
    <3>1. /\ state = "dialing" /\ m.to = "client" /\ m.sock = sock
          /\ UNCHANGED <<now, sockets, dial, sock, start, quiet, migVars, serverVars, stray>>
      BY <1>3 DEF DialReceive
    <3>2. NetGrows({})
      BY <1>1, <2>2, Growth, FewPackets
    <3>3. m.wire.type = "SYNACK"
      BY <2>2, TypesOnWire DEF Decoded
    <3>4. mig = "idle" /\ sock = dial /\ GoodMsg(m)
      BY <3>1 DEF IInv, ClientInv, NetInv
    <3>5. TypeOK'
      BY <2>2, <3>1, <3>2, MTPConnAssumption
      DEF IInv, TypeOK, NetGrows, migVars, serverVars, HandshakeOver
    <3>6. ClientInv'
      BY <2>2, <3>1, <3>4 DEF IInv, ClientInv, SocketsAccounted, migVars
    <3>7. UpHasPeer'
      BY <3>1, <3>3, <3>4 DEF GoodMsg, UpHasPeer, Peers, serverVars
    <3>8. Agree'
      BY <3>1 DEF IInv, PeerInv, Agree, Peers, migVars, serverVars
    <3>9. ServerInv' /\ PeerInv' /\ NetInv'
      BY <2>2, <3>1, <3>2, <3>4, <3>7, <3>8, ClientFrame DEF migVars
    <3> QED
      BY <3>5, <3>6, <3>9 DEF IInv
  <2> QED
    BY <1>3, <2>1, <2>2 DEF DialReceive
<1> QED
  BY <1>2, <1>3

\* The connection in use answers, pings or closes (processIncoming, keepaliveLoop, Close)
LEMMA InUse ==
    ASSUME IInv, state = "up", quiet' \in 0..QuietLimit,
           (state' = "up" /\ UNCHANGED open) \/ (state' = "closed" /\ open' = open \ {sock}),
           UNCHANGED <<now, sockets, dial, sock, start, tries, began, migVars, serverVars, stray>>,
           NEW types, NEW ps, ps \subseteq {Control(type) : type \in types}, NetGrows(ps),
           "SYN" \notin types, "MIGRATE" \notin types
    PROVE  IInv'
<1>1. TypeOK'
  BY DEF IInv, TypeOK, NetGrows, migVars, serverVars
<1>2. ClientInv'
  BY DEF IInv, ClientInv, SocketsAccounted, migVars
<1>3. \A x \in ps : /\ x.to = "server" /\ x.sock = sock
                    /\ x.wire.type # "SYN" /\ x.wire.type # "MIGRATE"
  BY ClientPacket DEF Control
<1>4. UpHasPeer' /\ Agree'
  BY DEF IInv, PeerInv, UpHasPeer, Agree, Peers, migVars, serverVars
<1>5. sock \in 1..sockets
  BY DEF IInv, ClientInv
<1>6. ServerInv' /\ PeerInv' /\ NetInv'
  BY <1>3, <1>4, <1>5, ClientFrame DEF migVars
<1> QED
  BY <1>1, <1>2, <1>6 DEF IInv

\* A connected client: keepalive, Close, and the packets its readLoop takes (clientReadLoop)
LEMMA UseStep ==
    ASSUME IInv, ClientKeepalive \/ ClientClose \/ \E m \in net : ClientReceive(m)
    PROVE  IInv'
<1> DEFINE types == {"PING", "PONG", "FIN", "FINACK"}
           packets == {Control(type) : type \in types}
<1>1. /\ IsFiniteSet(net) /\ Cardinality(net) <= MaxNet
      /\ QuietLimit \in Nat /\ quiet \in 0..QuietLimit
      /\ "SYN" \notin types /\ "MIGRATE" \notin types
  BY MTPConnAssumption DEF IInv, TypeOK, NetInv
<1>2. ASSUME NEW type1 \in types, NEW type2 \in types
      PROVE  /\ {} \subseteq packets /\ IsFiniteSet({})
             /\ {Control(type1)} \subseteq packets /\ IsFiniteSet({Control(type1)})
             /\ {Control(type1), Control(type2)} \subseteq packets
             /\ IsFiniteSet({Control(type1), Control(type2)})
  BY FewPackets
<1>3. \E ps : /\ ps \subseteq packets /\ NetGrows(ps)
  <2>1. ASSUME NEW ps, ps \subseteq packets, IsFiniteSet(ps),
               Send(ps) \/ \E m \in net : Receive(m, ps)
        PROVE  \E qs : qs \subseteq packets /\ NetGrows(qs)
    BY <1>1, <2>1, Growth
  <2>2. CASE ClientKeepalive \/ ClientClose
    BY <1>2, <2>1, <2>2 DEF ClientKeepalive, ClientClose
  <2>3. ASSUME NEW m \in net, ClientReceive(m)
        PROVE  \E qs : qs \subseteq packets /\ NetGrows(qs)
    BY <1>2, <2>1, <2>3 DEF ClientReceive
  <2> QED
    BY <2>2, <2>3
<1>4. /\ state = "up" /\ quiet' \in 0..QuietLimit
      /\ (state' = "up" /\ UNCHANGED open) \/ (state' = "closed" /\ open' = open \ {sock})
      /\ UNCHANGED <<now, sockets, dial, sock, start, tries, began, migVars, serverVars,
                     stray>>
  BY <1>1 DEF ClientKeepalive, ClientClose, ClientReceive, CloseClient
<1> HIDE DEF types
<1> QED
  BY <1>1, <1>3, <1>4, InUse

\* A revision is a number
LEMMA RevisionType ==
    ASSUME NEW t \in 0..now, now \in Nat
    PROVE  Revision(t) \in Nat
<1>1. now - t \in Nat /\ Interval \in Nat \ {0}
  BY MTPConnAssumption
<1> QED
  BY <1>1 DEF Revision

\* Migrate opens its socket: nobody has a connection for it yet
LEMMA MigrateStep ==
    ASSUME IInv, Migrate
    PROVE  IInv'
<1>1. /\ state \in {"up", "closed"} /\ mig = "idle" /\ sockets \in 0..MaxSockets /\ sockets < MaxSockets
      /\ MaxSockets \in Nat /\ MaxTries \in Nat \ {0} /\ sockets' = sockets + 1
      /\ sock \in 1..sockets /\ dial \in 1..sockets /\ leaked \subseteq 1..sockets
      /\ now \in Nat /\ start \in 0..now
  BY MTPConnAssumption DEF Migrate, IInv, TypeOK, ClientInv
<1>2. sockets' \in 0..MaxSockets /\ 1..sockets \subseteq 1..sockets'
      /\ 0..sockets \subseteq 0..sockets' /\ sockets' \in 1..sockets'
      /\ sockets' \notin leaked \cup {sock, dial}
  BY <1>1
<1>3. NetGrows({FromClient(sockets', Revision(start), Packet("MIGRATE"))})
  BY Growth, FewPackets DEF Migrate, IInv, TypeOK, NetInv
<1>4. TypeOK'
  <2>1. mrev' \in Nat /\ tries' \in 0..MaxTries /\ began' \in 0..now
    BY <1>1, RevisionType DEF Migrate
  <2> QED
    BY <1>2, <1>3, <2>1 DEF Migrate, IInv, TypeOK, NetGrows, serverVars
<1>5. ClientInv'
  BY <1>1, <1>2 DEF Migrate, IInv, ClientInv, SocketsAccounted
<1>6. UpHasPeer' /\ Agree'
  BY <1>1 DEF Migrate, IInv, PeerInv, UpHasPeer, Agree, Peers, serverVars
<1>7. ServerInv' /\ PeerInv' /\ NetInv'
  <2> DEFINE x == FromClient(sockets', Revision(start), Packet("MIGRATE"))
  <2>1. x.to = "server" /\ x.sock = sockets' /\ x.wire.type = "MIGRATE"
    BY ClientPacket
  <2> HIDE DEF x
  <2>2. NetGrows({x})
    BY <1>3 DEF x
  <2> QED
    BY <1>1, <1>2, <1>6, <2>1, <2>2, ClientFrame DEF Migrate
<1> QED
  BY <1>4, <1>5, <1>7 DEF IInv

\* Another attempt of a migration, or the end of it (Migrate)
LEMMA MigrateAttempt ==
    ASSUME IInv, mig = "waiting", MigrateAgain, NetGrows(NextMigrateSyn),
           UNCHANGED <<now, state, sockets, dial, sock, start, quiet, leaked, serverVars, stray>>
    PROVE  IInv'
<1>1. /\ tries \in 0..MaxTries /\ MaxTries \in Nat /\ began \in 0..now /\ now \in Nat
      /\ state \in {"up", "closed"} /\ msock \in 1..sockets /\ msock \notin leaked \cup {sock, dial}
  BY MTPConnAssumption DEF IInv, TypeOK, ClientInv
<1>2. \/ UNCHANGED <<mig, msock, mrev, began, open, abandoned>>
      \/ mig' = "idle" /\ msock' = None /\ abandoned' = TRUE /\ open' = open \ {msock}
  BY DEF MigrateAgain, KeepTrying, GiveUp, MigrateOver
<1>3. tries' \in 0..MaxTries /\ began' \in 0..now /\ mrev' \in Nat
  BY <1>1 DEF MigrateAgain, KeepTrying, GiveUp, MigrateOver, HandshakeOver, IInv, TypeOK
<1>4. TypeOK'
  <2>1. msock' \in 0..sockets /\ sockets \in Nat
    BY <1>1, <1>2, MTPConnAssumption DEF None, IInv, TypeOK
  <2> QED
    BY <1>2, <1>3, <2>1 DEF IInv, TypeOK, NetGrows, serverVars
<1>5. ClientInv'
  BY <1>1, <1>2 DEF IInv, ClientInv, SocketsAccounted
<1>6. \A x \in NextMigrateSyn : x.to = "server" /\ x.sock = msock /\ x.wire.type = "MIGRATE"
  BY ClientPacket DEF NextMigrateSyn, MigrateSyn
<1>7. UpHasPeer' /\ Agree'
  BY <1>2 DEF IInv, PeerInv, UpHasPeer, Agree, Peers, serverVars
<1>8. ServerInv' /\ PeerInv' /\ NetInv'
  BY <1>1, <1>2, <1>6, <1>7, ClientFrame
<1> QED
  BY <1>4, <1>5, <1>8 DEF IInv

\* The socket is replaced: the connection the session id leads to sends to the new one
\* already, as nobody is sent a SYN-ACK before (Migrate, handleMigration)
LEMMA MigratedStep ==
    ASSUME IInv, NEW m \in net, mig = "waiting", m.to = "client", m.sock = msock,
           Decoded(m).type = "SYNACK", Migrated, Receive(m, {}),
           UNCHANGED <<now, state, sockets, dial, start, quiet, serverVars, stray>>
    PROVE  IInv'
<1>1. /\ state \in {"up", "closed"} /\ msock \in 1..sockets /\ msock \notin leaked \cup {sock, dial}
      /\ state = "up" => sock \notin leaked
      /\ sockets \in Nat /\ now \in Nat /\ MaxTries \in Nat
  BY MTPConnAssumption DEF IInv, TypeOK, ClientInv
<1>2. /\ mig' = "idle" /\ msock' = None /\ mrev' = 0 /\ tries' = 0 /\ began' = 0
      /\ sock' = msock /\ open' = open \ {sock}
      /\ leaked' = (leaked \ {sock}) \cup (IF state = "closed" THEN {msock} ELSE {})
      /\ abandoned' = abandoned
  BY DEF Migrated, MigrateOver, HandshakeOver
<1>3. NetGrows({})
  BY Growth, FewPackets DEF IInv, TypeOK, NetInv
<1>4. TypeOK'
  <2>1. 0 \in 0..MaxTries /\ 0 \in 0..now /\ 0 \in 0..sockets /\ msock \in 0..sockets
    BY <1>1
  <2>2. leaked' \subseteq 1..sockets
    BY <1>1, <1>2 DEF IInv, TypeOK
  <2> QED
    BY <1>2, <1>3, <2>1, <2>2 DEF None, IInv, TypeOK, NetGrows, serverVars
<1>5. ClientInv'
  <2>1. SocketsAccounted'
    BY <1>1, <1>2 DEF IInv, ClientInv, SocketsAccounted
  <2> QED
    BY <1>1, <1>2, <2>1 DEF IInv, ClientInv
<1>6. m.wire.type = "SYNACK" /\ GoodMsg(m)
  BY TypesOnWire DEF Decoded, IInv, NetInv
<1>7. UpHasPeer' /\ Agree'
  BY <1>2, <1>6 DEF IInv, PeerInv, UpHasPeer, Agree, GoodMsg, Peers, serverVars
<1>8. ServerInv' /\ PeerInv' /\ NetInv'
  BY <1>1, <1>2, <1>3, <1>7, ClientFrame
<1> QED
  BY <1>4, <1>5, <1>8 DEF IInv

\* A migration: a repetition, its failure, or the answer that moves the socket (Migrate)
LEMMA MigrationStep ==
    ASSUME IInv, MigrateTimeout \/ \E m \in net : MigrateReceive(m)
    PROVE  IInv'
<1>1. IsFiniteSet(net) /\ Cardinality(net) <= MaxNet /\ IsFiniteSet(NextMigrateSyn)
  BY FewPackets DEF IInv, TypeOK, NetInv, NextMigrateSyn
<1>2. CASE MigrateTimeout
  BY <1>1, <1>2, Growth, MigrateAttempt DEF MigrateTimeout
<1>3. ASSUME NEW m \in net, MigrateReceive(m) PROVE IInv'
  BY <1>1, <1>3, Growth, MigrateAttempt, MigratedStep DEF MigrateReceive
<1> QED
  BY <1>2, <1>3

\* A dial begins on a socket of which the server has not heard (DialWithConfig)
LEMMA FreshDial ==
    ASSUME IInv, Dial
    PROVE  IInv'
<1> DEFINE x == Syn(sockets')
<1>1. /\ state \in {"none", "closed", "failed"} /\ mig = "idle" /\ MaxTries \in Nat \ {0}
      /\ sockets \in 0..MaxSockets /\ sockets < MaxSockets /\ sockets' = sockets + 1
      /\ MaxSockets \in Nat /\ now \in Nat /\ leaked \subseteq 1..sockets /\ open = leaked
      /\ UNCHANGED <<now, mig, msock, mrev, leaked, serverVars, stray>>
      /\ QuietLimit \in Nat
  BY MTPConnAssumption DEF Dial, IInv, TypeOK, ClientInv, SocketsAccounted
<1>2. /\ sockets' \in 0..MaxSockets /\ 1..sockets \subseteq 1..sockets' /\ sockets' \in 1..sockets'
      /\ 0..sockets \subseteq 0..sockets' /\ sockets' \in 0..sockets' /\ sockets' \notin 1..sockets
      /\ 1 \in 0..MaxTries /\ now \in 0..now /\ 0 \in 0..QuietLimit
  BY <1>1
<1>3. NetGrows({x})
  BY Growth, FewPackets DEF Dial, IInv, TypeOK, NetInv
<1>4. x.to = "server" /\ x.sock = sockets' /\ x.wire.type = "SYN"
  BY ClientPacket DEF Syn
<1>5. TypeOK'
  <2>1. /\ state' \in {"none", "dialing", "up", "closed", "failed"} /\ open' \subseteq 1..sockets'
        /\ dial' \in 0..sockets' /\ sock' \in 0..sockets' /\ msock' \in 0..sockets'
        /\ start' \in 0..now /\ began' \in 0..now /\ tries' \in 0..MaxTries
        /\ quiet' \in 0..QuietLimit /\ abandoned' \in BOOLEAN /\ leaked' \subseteq 1..sockets'
    BY <1>1, <1>2 DEF Dial, IInv, TypeOK
  <2>2. born' \in [Conns -> 0..sockets'] /\ addr' \in [Conns -> 0..sockets']
    BY <1>1, <1>2 DEF IInv, TypeOK, serverVars
  <2> QED
    BY <1>1, <1>2, <1>3, <2>1, <2>2 DEF IInv, TypeOK, NetGrows, serverVars
<1>6. ClientInv'
  BY <1>1, <1>2 DEF Dial, IInv, ClientInv, SocketsAccounted
<1>7. ServerInv'
  BY <1>1, <1>2 DEF IInv, ServerInv, Routed, Made, serverVars
<1>8. Peers' = {} /\ \A k \in Conns : Made(k)' => addr'[k] # dial'
  BY <1>1, <1>2 DEF Dial, IInv, ServerInv, Peers, Made, serverVars
<1>9. PeerInv'
  BY <1>1, <1>8 DEF Dial, PeerInv, UpHasPeer, Agree
<1>10. ASSUME NEW y \in net' PROVE GoodMsg(y)'
  <2>1. CASE y \in net
    <3>1. y.sock \in 1..sockets
      BY <2>1 DEF IInv, NetInv, GoodMsg
    <3> QED
      BY <1>1, <1>2, <1>8, <3>1 DEF Dial, GoodMsg
  <2>2. CASE y = x
    <3> HIDE DEF x
    <3> QED
      BY <1>1, <1>2, <1>4, <2>2 DEF Dial, GoodMsg
  <2> QED
    BY <1>3, <1>10, <2>1, <2>2 DEF NetGrows
<1> QED
  BY <1>3, <1>5, <1>6, <1>7, <1>9, <1>10 DEF IInv, NetInv, NetGrows

\* Time passes, and no packet is left (Tick), or a packet is lost
LEMMA TickStep ==
    ASSUME IInv, Tick \/ \E m \in net : Lose(m)
    PROVE  IInv'
<1>1. CASE Tick
  <2>1. /\ now \in 0..MaxTime /\ now < MaxTime /\ MaxTime \in Nat /\ now' = now + 1 /\ net' = {}
        /\ UNCHANGED <<clientVars, serverVars, stray>> /\ MaxNet \in Nat
        /\ state = "dialing" => now = began
    BY <1>1, MTPConnAssumption DEF Tick, IInv, TypeOK
  <2>2. 0..now \subseteq 0..now' /\ now' \in 0..MaxTime
    BY <2>1
  <2>3. IsFiniteSet(net') /\ Cardinality(net') <= MaxNet
    BY <2>1, FS_EmptySet
  <2>4. TypeOK'
    <3>1. start' \in 0..now' /\ began' \in 0..now' /\ sstart' \in [Conns -> 0..now']
      BY <2>1, <2>2 DEF IInv, TypeOK, clientVars, serverVars
    <3> QED
      BY <2>1, <2>2, <2>3, <3>1 DEF IInv, TypeOK, clientVars, migVars, serverVars
  <2>5. ClientInv'
    <3>1. state = "dialing" => now' <= start + 1
      BY <2>1 DEF IInv, ClientInv
    <3> QED
      BY <2>1, <3>1 DEF IInv, ClientInv, SocketsAccounted, clientVars, migVars
  <2>6. ServerInv' /\ PeerInv'
    BY <2>1 DEF IInv, ServerInv, PeerInv, Routed, UpHasPeer, Agree, Peers, Made,
                clientVars, migVars, serverVars
  <2> QED
    BY <2>1, <2>3, <2>4, <2>5, <2>6 DEF IInv, NetInv
<1>2. ASSUME NEW m \in net, Lose(m) PROVE IInv'
  <2>1. net' \subseteq net /\ IsFiniteSet(net') /\ Cardinality(net') <= MaxNet
    <3>1. /\ net' = net \ {m} /\ IsFiniteSet(net) /\ Cardinality(net) <= MaxNet
          /\ net \ {m} \in SUBSET net
      BY <1>2 DEF Lose, IInv, TypeOK, NetInv
    <3>2. IsFiniteSet(net') /\ Cardinality(net') <= Cardinality(net)
      BY <3>1, FS_Subset
    <3> QED
      BY <3>1, <3>2, FS_CardinalityType, MTPConnAssumption
  <2>2. UNCHANGED <<now, clientVars, serverVars, stray>>
    BY <1>2 DEF Lose
  <2> QED
    BY <2>1, <2>2 DEF IInv, TypeOK, ClientInv, ServerInv, PeerInv, NetInv, GoodMsg, Routed,
                      SocketsAccounted, UpHasPeer, Agree, Peers, Made,
                      clientVars, migVars, serverVars
<1> QED
  BY <1>1, <1>2

-----------------------------------------------------------------------------
(* Steps of the server.                                                    *)

\* What a connection sends goes to its address
LEMMA ServerPacket ==
    /\ \A k, type : /\ FromConn(k, type).to = "client" /\ FromConn(k, type).sock = addr[k]
                    /\ FromConn(k, type).wire.type = type
    /\ \A s, pkt : /\ FromListener(s, pkt).to = "client" /\ FromListener(s, pkt).sock = s
                   /\ FromListener(s, pkt).wire.type = pkt.type
    /\ \A s : /\ FakeResponse(s).to = "client" /\ FakeResponse(s).sock = s
              /\ FakeResponse(s).wire.type = "none"
BY TypesOnWire DEF FromConn, FromListener, FakeResponse, Decoy

\* A connection that answers or ends, and what the listener does with a packet that changes
\* no table: a SYN-ACK is sent only to the address of a connection (processIncoming, Close)
LEMMA ServerQuiet ==
    ASSUME IInv, UNCHANGED <<now, clientVars, created, born, sstart, addr, stray>>,
           squiet' \in [Conns -> 0..QuietLimit],
           \/ UNCHANGED <<life, session, connections>>
           \/ \E k \in Conns : /\ Made(k) /\ life' = [life EXCEPT ![k] = "closed"]
                               /\ Forget(connections),
           NEW ps, NetGrows(ps),
           \A x \in ps : /\ x.to = "client" /\ x.sock \in 1..sockets
                         /\ x.wire.type = "SYNACK" =>
                                \E k \in Conns : Made(k) /\ x.sock = addr[k]
    PROVE  IInv'
<1>1. /\ life' \in [Conns -> {"none", "open", "closed"}] /\ \A k \in Conns : Made(k)' <=> Made(k)
      /\ session' \in 0..created /\ connections' \in [Sockets -> 0..created]
      /\ session' = session \/ session' = None
  <2>1. 0 \in 0..created /\ created \in Nat
    BY MTPConnAssumption DEF IInv, TypeOK
  <2> QED
    BY <2>1 DEF Forget, None, Made, IInv, TypeOK
<1>2. Peers' = Peers /\ None \notin Peers
  BY <1>1 DEF Peers, Made, clientVars, Conns, None
<1>3. TypeOK'
  BY <1>1 DEF IInv, TypeOK, NetGrows, clientVars, migVars
<1>4. ClientInv'
  BY DEF IInv, ClientInv, SocketsAccounted, clientVars, migVars
<1>5. ServerInv'
  <2>1. Routed'
    <3>1. CASE UNCHANGED <<session, connections>>
      BY <3>1 DEF IInv, ServerInv, Routed
    <3>2. CASE Forget(connections)
      <4>1. /\ session' = None
            /\ \A s \in Sockets : connections'[s] = connections[s] \/ connections'[s] = None
        BY <3>2 DEF Forget, IInv, TypeOK
      <4> QED
        BY <4>1 DEF IInv, ServerInv, Routed
    <3> QED
      BY <3>1, <3>2
  <2> QED
    BY <1>1, <2>1 DEF IInv, ServerInv, clientVars
<1>6. PeerInv'
  BY <1>1, <1>2 DEF IInv, PeerInv, UpHasPeer, Agree, clientVars, migVars
<1>7. ASSUME NEW y \in net' PROVE GoodMsg(y)'
  <2>1. CASE y \in net
    <3>1. GoodMsg(y)
      BY <2>1 DEF IInv, NetInv
    <3> QED
      BY <1>1, <1>2, <3>1 DEF GoodMsg, clientVars, migVars
  <2>2. CASE y \in ps
    <3>1. y.to = "client" /\ y.sock \in 1..sockets
      BY <2>2
    <3>2. CASE y.wire.type # "SYNACK"
      BY <3>1, <3>2 DEF GoodMsg, clientVars, migVars
    <3>3. ASSUME NEW k \in Conns, Made(k), y.sock = addr[k] PROVE GoodMsg(y)'
      <4>1. y.sock = dial => k \in Peers
        BY <3>3 DEF IInv, PeerInv, Peers, Made
      <4>2. ~abandoned /\ ~stray /\ session \in Peers /\ mig = "waiting" /\ y.sock = msock =>
                session = k
        BY <3>3 DEF IInv, PeerInv
      <4> QED
        BY <1>1, <1>2, <3>1, <3>3, <4>1, <4>2 DEF GoodMsg, clientVars, migVars
    <3> QED
      BY <2>2, <3>2, <3>3
  <2> QED
    BY <1>7, <2>1, <2>2 DEF NetGrows
<1> QED
  BY <1>3, <1>4, <1>5, <1>6, <1>7 DEF IInv, NetInv, NetGrows

\* What comes from an unknown address comes from a socket of the client
LEMMA Unknown ==
    ASSUME IInv, NEW m \in net, NEW type, type # "none", FromUnknown(m, type)
    PROVE  /\ m.to = "server" /\ m.wire.type = type /\ connections[m.sock] = None
           /\ m.sock \in 1..sockets /\ m.sock \in Sockets /\ GoodMsg(m)
<1>1. m.to = "server" /\ m.wire.type = type /\ connections[m.sock] = None
  BY TypesOnWire DEF FromUnknown, ListenerDecoded
<1>2. GoodMsg(m) /\ m.sock \in 1..sockets /\ sockets \in 0..MaxSockets
  BY DEF IInv, NetInv, GoodMsg, TypeOK
<1> QED
  BY <1>1, <1>2, MTPConnAssumption DEF Sockets

\* A connection receives, pings, is closed by the server's session, or drops what comes when
\* it is closed; the listener answers a scanner and ignores a migration of no session
LEMMA QuietStep ==
    ASSUME IInv,
           \/ \E k \in Conns : ConnKeepalive(k) \/ ConnClose(k)
           \/ \E m \in net, k \in Conns : ConnReceive(k, m) \/ DropDispatched(k, m)
           \/ \E m \in net : FakeAnswer(m) \/ IgnoreMigration(m)
    PROVE  IInv'
<1> DEFINE Answer(x) == /\ x.to = "client" /\ x.sock \in 1..sockets
                        /\ x.wire.type = "SYNACK" => \E k \in Conns : Made(k) /\ x.sock = addr[k]
<1>1. /\ IsFiniteSet(net) /\ Cardinality(net) <= MaxNet /\ QuietLimit \in Nat
      /\ squiet \in [Conns -> 0..QuietLimit] /\ 0 \in 0..QuietLimit
  BY MTPConnAssumption DEF IInv, TypeOK, NetInv
<1>2. ASSUME NEW k \in Conns, life[k] = "open", NEW type, NEW type2
      PROVE  /\ Made(k) /\ \A x \in {FromConn(k, type), FromConn(k, type2)} : Answer(x)
             /\ \A x \in {FromConn(k, type)} : Answer(x)
  BY <1>2, ServerPacket DEF IInv, ServerInv, Made
<1>3. ASSUME NEW ps, IsFiniteSet(ps), Send(ps) \/ \E m \in net : Receive(m, ps)
      PROVE  NetGrows(ps)
  BY <1>1, <1>3, Growth
<1> HIDE DEF Answer
<1>4. ASSUME NEW k \in Conns, ConnKeepalive(k) \/ ConnClose(k) PROVE IInv'
  <2>1. /\ life[k] = "open" /\ squiet[k] \in 0..QuietLimit
        /\ UNCHANGED <<now, clientVars, created, born, sstart, addr, stray>>
    BY <1>1, <1>4 DEF ConnKeepalive, ConnClose
  <2>2. squiet' \in [Conns -> 0..QuietLimit]
    BY <1>1, <1>4, <2>1 DEF ConnKeepalive, ConnClose, CloseConn
  <2>3. \/ UNCHANGED <<life, session, connections>>
        \/ life' = [life EXCEPT ![k] = "closed"] /\ Forget(connections)
    BY <1>4 DEF ConnKeepalive, ConnClose, CloseConn
  <2>4. PICK type : Send({FromConn(k, type)})
    BY <1>4 DEF ConnKeepalive, ConnClose
  <2>5. NetGrows({FromConn(k, type)}) /\ \A x \in {FromConn(k, type)} : Answer(x)
    BY <1>2, <1>3, <2>1, <2>4, FewPackets
  <2> QED
    BY <1>2, <2>1, <2>2, <2>3, <2>5, ServerQuiet DEF Answer
<1>5. ASSUME NEW m \in net, NEW k \in Conns, ConnReceive(k, m) PROVE IInv'
  <2>1. /\ life[k] = "open" /\ squiet' = [squiet EXCEPT ![k] = 0]
        /\ UNCHANGED <<now, clientVars, created, born, sstart, addr, stray>>
    BY <1>5 DEF ConnReceive
  <2>2. squiet' \in [Conns -> 0..QuietLimit]
    BY <1>1, <2>1
  <2>3. \/ UNCHANGED <<life, session, connections>>
        \/ life' = [life EXCEPT ![k] = "closed"] /\ Forget(connections)
    BY <1>5 DEF ConnReceive, CloseConn
  <2>4. \E ps : /\ IsFiniteSet(ps) /\ Receive(m, ps) /\ \A x \in ps : Answer(x)
    <3>1. \/ Receive(m, {})
          \/ \E type : Receive(m, {FromConn(k, type)})
          \/ \E type, type2 : Receive(m, {FromConn(k, type), FromConn(k, type2)})
      BY <1>5 DEF ConnReceive
    <3>2. CASE Receive(m, {})
      BY <3>2, FewPackets
    <3>3. ASSUME NEW type, Receive(m, {FromConn(k, type)})
          PROVE  \E ps : /\ IsFiniteSet(ps) /\ Receive(m, ps) /\ \A x \in ps : Answer(x)
      <4> DEFINE qs == {FromConn(k, type)}
      <4>1. IsFiniteSet(qs) /\ Receive(m, qs) /\ \A x \in qs : Answer(x)
        BY <1>2, <2>1, <3>3, FewPackets
      <4> HIDE DEF qs
      <4> QED
        BY <4>1
    <3>4. ASSUME NEW type, NEW type2, Receive(m, {FromConn(k, type), FromConn(k, type2)})
          PROVE  \E ps : /\ IsFiniteSet(ps) /\ Receive(m, ps) /\ \A x \in ps : Answer(x)
      <4> DEFINE qs == {FromConn(k, type), FromConn(k, type2)}
      <4>1. IsFiniteSet(qs) /\ Receive(m, qs) /\ \A x \in qs : Answer(x)
        BY <1>2, <2>1, <3>4, FewPackets
      <4> HIDE DEF qs
      <4> QED
        BY <4>1
    <3> QED
      BY <3>1, <3>2, <3>3, <3>4
  <2>5. PICK ps : NetGrows(ps) /\ \A x \in ps : Answer(x)
    BY <1>3, <2>4
  <2> QED
    BY <1>2, <2>1, <2>2, <2>3, <2>5, ServerQuiet DEF Answer
<1>6. ASSUME NEW m \in net, FakeAnswer(m) PROVE IInv'
  <2>1. UNCHANGED <<now, clientVars, serverVars, stray>> /\ Receive(m, {FakeResponse(m.sock)})
    BY <1>6 DEF FakeAnswer
  <2>2. NetGrows({FakeResponse(m.sock)})
    BY <1>3, <2>1, FewPackets
  <2>3. \A x \in {FakeResponse(m.sock)} : Answer(x)
    BY ServerPacket DEF Answer, IInv, NetInv, GoodMsg
  <2> QED
    BY <1>1, <2>1, <2>2, <2>3, ServerQuiet DEF Answer, serverVars
<1>7. ASSUME NEW m \in net, IgnoreMigration(m) \/ \E k \in Conns : DropDispatched(k, m)
      PROVE  IInv'
  <2>1. UNCHANGED <<now, clientVars, serverVars, stray>> /\ Receive(m, {})
    BY <1>7 DEF IgnoreMigration, DropDispatched
  <2>2. NetGrows({})
    BY <1>3, <2>1, FewPackets
  <2> QED
    BY <1>1, <2>1, <2>2, ServerQuiet DEF serverVars
<1> QED
  BY <1>4, <1>5, <1>6, <1>7

\* The connection a SYN makes is the one its session id leads to, and it is the client's
\* peer if the SYN is of the present dial (handleSYN)
LEMMA SynStep ==
    ASSUME IInv, NEW m \in net, NEW k \in Conns, HandleSYN(k, m) \/ RefuseSYN(k, m)
    PROVE  IInv'
<1>1. /\ m.to = "server" /\ m.wire.type = "SYN" /\ connections[m.sock] = None
      /\ m.sock \in 1..sockets /\ m.sock \in Sockets /\ GoodMsg(m)
  BY Unknown DEF HandleSYN, RefuseSYN
<1>2. /\ k = created + 1 /\ created' = k /\ UNCHANGED <<now, clientVars>>
      /\ born' = [born EXCEPT ![k] = m.sock] /\ addr' = [addr EXCEPT ![k] = m.sock]
      /\ sstart' = [sstart EXCEPT ![k] = now] /\ squiet' = [squiet EXCEPT ![k] = 0]
      /\ created \in Nat /\ MaxConns \in Nat /\ k \in 1..MaxConns /\ ~Made(k)
      /\ 0 \in 0..QuietLimit /\ now \in Nat /\ start \in 0..now
  <2>1. MakeConn(k, m.sock) /\ UNCHANGED <<now, clientVars>>
    BY DEF HandleSYN, RefuseSYN
  <2>2. /\ created \in 0..MaxConns /\ MaxConns \in Nat /\ now \in 0..MaxTime /\ MaxTime \in Nat
        /\ start \in 0..now /\ k \in 1..MaxConns /\ QuietLimit \in Nat
    BY MTPConnAssumption DEF IInv, TypeOK, Conns
  <2>3. k = created + 1
    BY <2>1 DEF MakeConn
  <2>4. ~Made(k)
    BY <2>2, <2>3 DEF IInv, ServerInv
  <2> QED
    BY <2>1, <2>2, <2>3, <2>4 DEF MakeConn
<1>3. /\ \/ life' = [life EXCEPT ![k] = "open"] \/ life' = [life EXCEPT ![k] = "closed"]
      /\ \/ /\ session' = k /\ connections' = [connections EXCEPT ![m.sock] = k]
            /\ ~stray' => ~stray /\ state = "dialing" /\ m.sock = sock
         \/ session' = None /\ connections' = connections /\ (~stray' => ~stray)
      /\ stray' \in BOOLEAN
  BY DEF HandleSYN, RefuseSYN, IInv, TypeOK
<1>4. /\ Made(k)' /\ \A j \in Conns \ {k} : Made(j)' <=> Made(j)
      /\ \A j \in Conns \ {k} : /\ born'[j] = born[j] /\ addr'[j] = addr[j]
                                /\ sstart'[j] = sstart[j]
      /\ born'[k] = m.sock /\ addr'[k] = m.sock /\ sstart'[k] = now
  BY <1>2, <1>3 DEF Made, IInv, TypeOK
<1>5. Peers' = Peers \cup (IF m.sock = dial THEN {k} ELSE {})
      /\ k \notin Peers /\ None \notin Peers /\ k # None
  BY <1>2, <1>4 DEF Peers, Made, clientVars, Conns, None
<1>6. \E ps : /\ NetGrows(ps) /\ \A x \in ps : x.to = "client" /\ x.sock = m.sock
  <2>1. \E ps : /\ Receive(m, ps) /\ IsFiniteSet(ps)
                /\ \A x \in ps : x.to = "client" /\ x.sock = m.sock
    <3>1. CASE HandleSYN(k, m)
      <4> DEFINE ack == FromListener(m.sock, Packet("SYNACK"))
                 qs == {ack}
      <4>1. Receive(m, {ack})
        BY <3>1 DEF HandleSYN
      <4>2. ack.to = "client" /\ ack.sock = m.sock
        BY ServerPacket
      <4> HIDE DEF ack
      <4>3. Receive(m, qs) /\ IsFiniteSet(qs) /\ \A x \in qs : x.to = "client" /\ x.sock = m.sock
        BY <4>1, <4>2, FewPackets
      <4> HIDE DEF qs
      <4> QED
        BY <4>3
    <3>2. CASE RefuseSYN(k, m)
      <4> DEFINE fin == [to |-> "client", sock |-> m.sock, wire |-> Encode(Plain, 0,
      Packet("FIN"))]
                 ack == FromListener(m.sock, Packet("SYNACK"))
      <4>1. Receive(m, {ack, fin})
        BY <3>2 DEF RefuseSYN
      <4>2. fin.to = "client" /\ fin.sock = m.sock /\ ack.to = "client" /\ ack.sock = m.sock
        BY ServerPacket
      <4> HIDE DEF fin, ack
      <4> DEFINE qs == {ack, fin}
      <4>3. Receive(m, qs) /\ IsFiniteSet(qs) /\ \A x \in qs : x.to = "client" /\ x.sock = m.sock
        BY <4>1, <4>2, FewPackets
      <4> HIDE DEF qs
      <4> QED
        BY <4>3
    <3> QED
      BY <3>1, <3>2
  <2> QED
    BY <2>1, Growth DEF IInv, TypeOK, NetInv
<1>7. TypeOK'
  <2>1. /\ created' \in 0..MaxConns /\ 0..created \subseteq 0..created' /\ session' \in 0..created'
        /\ k \in 0..created' /\ m.sock \in 0..sockets
    BY <1>1, <1>2, <1>3, MTPConnAssumption DEF None, IInv, TypeOK
  <2>2. /\ connections' \in [Sockets -> 0..created']
        /\ life' \in [Conns -> {"none", "open", "closed"}]
        /\ born' \in [Conns -> 0..sockets] /\ addr' \in [Conns -> 0..sockets]
        /\ sstart' \in [Conns -> 0..now] /\ squiet' \in [Conns -> 0..QuietLimit]
    BY <1>2, <1>3, <2>1 DEF IInv, TypeOK
  <2> QED
    BY <1>2, <1>3, <1>6, <2>1, <2>2 DEF IInv, TypeOK, NetGrows, clientVars, migVars
<1>8. ClientInv'
  BY <1>2 DEF IInv, ClientInv, SocketsAccounted, clientVars, migVars
<1>9. ServerInv'
  <2>1. \A j \in Conns : Made(j)' <=> j <= created'
    BY <1>2, <1>4 DEF IInv, ServerInv, Conns
  <2>2. \A j \in Conns : Made(j)' => born'[j] \in 1..sockets' /\ addr'[j] \in 1..sockets'
    BY <1>1, <1>2, <1>4 DEF IInv, ServerInv, clientVars
  <2>3. Routed'
    <3>1. /\ \A s \in Sockets : connections[s] \in 0..created
          /\ \A j \in 0..created : j # None => j \in Conns /\ j # k
      BY <1>2 DEF IInv, TypeOK, None, Conns
    <3>4. \A s \in Sockets : connections'[s] # None => addr'[connections'[s]] = s
      BY <1>1, <1>3, <1>4, <3>1 DEF IInv, TypeOK, ServerInv, Routed
    <3>5. session' # None => connections'[addr'[session']] = session'
      BY <1>1, <1>3, <1>4 DEF IInv, TypeOK
    <3> QED
      BY <3>4, <3>5 DEF Routed
  <2> QED
    BY <2>1, <2>2, <2>3 DEF ServerInv
<1>10. PeerInv'
  <2>1. \A j \in Peers' : sstart'[j] \in {start, start + 1}
    <3>1. m.sock = dial => now \in {start, start + 1}
      BY <1>1, <1>2 DEF GoodMsg
    <3> QED
      BY <1>4, <1>5, <3>1 DEF IInv, PeerInv, Peers
  <2>2. \A j \in Conns : Made(j)' /\ addr'[j] = dial => born'[j] = dial
    BY <1>4 DEF IInv, PeerInv
  <2>3. ASSUME ~abandoned, ~stray', session' \in Peers'
        PROVE  session' = k /\ state = "dialing" /\ m.sock = sock /\ m.sock = dial /\ mig # "waiting"
    BY <1>3, <1>5, <2>3 DEF IInv, ClientInv
  <2>4. UpHasPeer'
    BY <1>2, <1>5 DEF IInv, PeerInv, UpHasPeer, clientVars
  <2>5. Agree'
    BY <1>2, <2>3 DEF Agree, clientVars, migVars
  <2> QED
    BY <1>2, <1>4, <2>1, <2>2, <2>3, <2>4, <2>5 DEF PeerInv, clientVars, migVars
<1>11. ASSUME NEW y \in net' PROVE GoodMsg(y)'
  <2>1. ~abandoned /\ ~stray' /\ session' \in Peers' => mig # "waiting"
    BY <1>3, <1>5 DEF IInv, ClientInv
  <2>2. CASE y \in net
    <3>1. GoodMsg(y)
      BY <2>2 DEF IInv, NetInv
    <3> QED
      BY <1>2, <1>5, <2>1, <3>1 DEF GoodMsg, clientVars, migVars
  <2>3. CASE y.to = "client" /\ y.sock = m.sock
    BY <1>1, <1>2, <1>5, <2>1, <2>3 DEF GoodMsg, clientVars, migVars
  <2> QED
    BY <1>6, <1>11, <2>2, <2>3 DEF NetGrows
<1> QED
  BY <1>6, <1>7, <1>8, <1>9, <1>10, <1>11 DEF IInv, NetInv, NetGrows

\* The connection of the session id moves to the address of the request: nobody else is sent
\* to that address, and if the client waits for this it is the one it waits on
\* (handleMigration)
LEMMA MoveStep ==
    ASSUME IInv, NEW m \in net, HandleMigration(m)
    PROVE  IInv'
<1>1. /\ m.to = "server" /\ m.wire.type = "MIGRATE" /\ connections[m.sock] = None
      /\ m.sock \in 1..sockets /\ m.sock \in Sockets /\ m.sock # dial
  <2>1. FromUnknown(m, "MIGRATE")
    BY DEF HandleMigration
  <2>2. /\ m.to = "server" /\ m.wire.type = "MIGRATE" /\ connections[m.sock] = None
        /\ m.sock \in 1..sockets /\ m.sock \in Sockets /\ GoodMsg(m)
    BY <2>1, Unknown
  <2> QED
    BY <2>2 DEF GoodMsg
<1>2. /\ UNCHANGED <<now, clientVars, session, created, life, born, sstart, squiet>>
      /\ addr' = [addr EXCEPT ![session] = m.sock]
      /\ connections' = [connections EXCEPT ![addr[session]] = None, ![m.sock] = session]
      /\ session \in Conns /\ session # None /\ session \in 0..created /\ Made(session)
      /\ addr[session] \in Sockets /\ connections[addr[session]] = session
  <2>1. /\ session # None /\ session \in 0..created /\ created \in 0..MaxConns
    BY DEF HandleMigration, IInv, TypeOK
  <2>2. session \in Conns /\ session <= created
    BY <2>1, MTPConnAssumption DEF None, Conns
  <2>3. Made(session) /\ addr[session] \in 1..sockets /\ sockets \in 0..MaxSockets
    BY <2>2 DEF IInv, ServerInv, TypeOK
  <2>4. addr[session] \in Sockets
    BY <2>3, MTPConnAssumption DEF Sockets
  <2> QED
    BY <2>1, <2>2, <2>3, <2>4 DEF HandleMigration, IInv, ServerInv, Routed
<1>3. stray' \in BOOLEAN /\ (~stray' => ~stray /\ mig = "waiting" /\ m.sock = msock)
  BY DEF HandleMigration, IInv, TypeOK
<1>4. Peers' = Peers /\ (\A k : Made(k)' <=> Made(k))
      /\ addr'[session] = m.sock /\ (\A k \in Conns \ {session} : addr'[k] = addr[k])
  BY <1>2 DEF Peers, Made, clientVars, IInv, TypeOK
<1>5. \E ps : NetGrows(ps) /\ \A x \in ps : x.to = "client" /\ x.sock = m.sock
  <2> DEFINE ack == FromListener(m.sock, Moved)
             qs == {ack}
  <2>1. Receive(m, {ack})
    BY DEF HandleMigration
  <2>2. ack.to = "client" /\ ack.sock = m.sock
    BY ServerPacket
  <2> HIDE DEF ack
  <2>3. Receive(m, qs) /\ IsFiniteSet(qs) /\ \A x \in qs : x.to = "client" /\ x.sock = m.sock
    BY <2>1, <2>2, FewPackets
  <2> HIDE DEF qs
  <2>4. NetGrows(qs)
    BY <2>3, Growth DEF IInv, TypeOK, NetInv
  <2> QED
    BY <2>3, <2>4
<1>6. TypeOK'
  <2>1. m.sock \in 0..sockets /\ None \in 0..created
    BY <1>1, MTPConnAssumption DEF None, IInv, TypeOK
  <2>2. addr' \in [Conns -> 0..sockets] /\ connections' \in [Sockets -> 0..created]
    BY <1>2, <2>1 DEF IInv, TypeOK
  <2> QED
    BY <1>2, <1>3, <1>5, <2>2 DEF IInv, TypeOK, NetGrows, clientVars, migVars
<1>7. ClientInv'
  BY <1>2 DEF IInv, ClientInv, SocketsAccounted, clientVars, migVars
<1>8. ServerInv'
  <2>1. \A k \in Conns : Made(k)' => born'[k] \in 1..sockets' /\ addr'[k] \in 1..sockets'
    BY <1>1, <1>2, <1>4 DEF IInv, ServerInv, clientVars
  <2>2. connections'[m.sock] = session /\ m.sock # addr[session]
    BY <1>1, <1>2 DEF IInv, TypeOK
  <2>3. ASSUME NEW s \in Sockets, connections'[s] # None PROVE addr'[connections'[s]] = s
    <3>1. CASE s = m.sock
      BY <1>4, <2>2, <3>1
    <3>2. CASE s # m.sock
      <4>1. s # addr[session] /\ connections'[s] = connections[s] /\ connections[s] # None
        BY <1>2, <2>3, <3>2 DEF IInv, TypeOK
      <4>2. addr[connections[s]] = s
        BY <4>1 DEF IInv, ServerInv, Routed
      <4>3. connections[s] \in 0..created /\ created \in 0..MaxConns
        BY DEF IInv, TypeOK
      <4>4. connections[s] \in Conns \ {session}
        BY <4>1, <4>2, <4>3, MTPConnAssumption DEF None, Conns
      <4> QED
        BY <1>4, <4>1, <4>2, <4>4
    <3> QED
      BY <3>1, <3>2
  <2>4. Routed'
    BY <1>2, <1>4, <2>2, <2>3 DEF Routed
  <2> QED
    BY <1>2, <1>4, <2>1, <2>4 DEF IInv, ServerInv
<1>9. PeerInv'
  <2>1. \A k \in Conns : Made(k)' /\ addr'[k] = dial' => born'[k] = dial'
    BY <1>1, <1>2, <1>4 DEF IInv, PeerInv, clientVars
  <2>2. \A k \in Peers' : sstart'[k] \in {start', start' + 1}
    BY <1>2, <1>4 DEF IInv, PeerInv, clientVars
  <2>3. ASSUME ~abandoned', ~stray', session' \in Peers'
        PROVE  /\ state' # "dialing"
               /\ \A k \in Conns : Made(k)' /\ addr'[k] = msock' => session' = k
               /\ addr'[session'] = msock' /\ mig' = "waiting"
    BY <1>2, <1>3, <1>4, <2>3 DEF IInv, ClientInv, PeerInv, clientVars, migVars
  <2>4. UpHasPeer'
    BY <1>2, <1>4 DEF IInv, PeerInv, UpHasPeer, clientVars
  <2>5. Agree'
    BY <2>3 DEF Agree
  <2> QED
    BY <2>1, <2>2, <2>3, <2>4, <2>5 DEF PeerInv
<1>10. ASSUME NEW y \in net' PROVE GoodMsg(y)'
  <2>1. ~stray' => addr'[session'] = msock'
    BY <1>2, <1>3, <1>4 DEF clientVars, migVars
  <2>2. CASE y \in net
    <3>1. GoodMsg(y)
      BY <2>2 DEF IInv, NetInv
    <3> QED
      BY <1>2, <1>4, <2>1, <3>1 DEF GoodMsg, clientVars, migVars
  <2>3. CASE y.to = "client" /\ y.sock = m.sock
    BY <1>1, <1>2, <2>1, <2>3 DEF GoodMsg, clientVars, migVars
  <2> QED
    BY <1>5, <1>10, <2>2, <2>3 DEF NetGrows
<1> QED
  BY <1>5, <1>6, <1>7, <1>8, <1>9, <1>10 DEF IInv, NetInv, NetGrows

-----------------------------------------------------------------------------
(* The theorems.                                                           *)

\* A packet of no network, a connection of no server: the invariant to begin with
LEMMA InvInit == Init => IInv
<1> SUFFICES ASSUME Init PROVE IInv
  OBVIOUS
<1>1. /\ MaxSockets \in Nat /\ MaxConns \in Nat /\ MaxTries \in Nat /\ QuietLimit \in Nat
      /\ MaxTime \in Nat /\ MaxNet \in Nat
  BY MTPConnAssumption
<1>2. IsFiniteSet(net) /\ Cardinality(net) = 0
  BY FS_EmptySet DEF Init
<1>3. TypeOK
  <2>1. /\ 0 \in 0..MaxSockets /\ 0 \in 0..MaxConns /\ 0 \in 0..MaxTries /\ 0 \in 0..QuietLimit
        /\ 0 \in 0..MaxTime /\ 0 <= MaxNet /\ 0 \in 0..0 /\ 0 \in Nat
    BY <1>1
  <2> QED
    BY <1>2, <2>1 DEF Init, TypeOK, None
<1>4. ClientInv
  BY DEF Init, ClientInv, SocketsAccounted
<1>5. Peers = {} /\ \A k \in Conns : ~Made(k) /\ ~(k <= created)
  BY <1>1 DEF Init, Peers, Made, Conns
<1>6. ServerInv
  BY <1>5 DEF Init, ServerInv, Routed
<1>7. PeerInv
  BY <1>5 DEF Init, PeerInv, UpHasPeer, Agree
<1>8. NetInv
  BY <1>2 DEF Init, NetInv
<1> QED
  BY <1>3, <1>4, <1>6, <1>7, <1>8 DEF IInv

\* The strengthening that the theorems below rest on: it is inductive
THEOREM Invariance == Spec => []IInv
<1>1. IInv /\ [Next]_vars => IInv'
  <2>1. IInv /\ UNCHANGED vars => IInv'
    BY DEF IInv, TypeOK, ClientInv, ServerInv, PeerInv, NetInv, GoodMsg, Routed,
           SocketsAccounted, UpHasPeer, Agree, Peers, Made, vars, clientVars, migVars, serverVars
  <2> QED
    BY <2>1, TickStep, FreshDial, DialStep, UseStep, MigrateStep, MigrationStep, QuietStep,
       SynStep, MoveStep DEF Next
<1> QED
  BY <1>1, InvInit, PTL DEF Spec

\* Every variable of the client, the server and the network keeps its type (conn.go, listener.go)
THEOREM TypeCorrect == Spec => []TypeOK
<1>1. IInv => TypeOK
  BY DEF IInv
<1> QED
  BY <1>1, Invariance, PTL

\* A dial succeeds only against a connection made for its socket, however packets are lost
\* or late and however often the handshake repeats them (handshakeClient)
THEOREM UpIsAnswered == Spec => []UpHasPeer
<1>1. IInv => UpHasPeer
  BY DEF IInv, PeerInv
<1> QED
  BY <1>1, Invariance, PTL

\* The two ends move together: a migration that the client completes is one that the server
\* has completed (Migrate, handleMigration)
THEOREM MovedTogether == Spec => []Agree
<1>1. IInv => Agree
  BY DEF IInv, PeerInv
<1> QED
  BY <1>1, Invariance, PTL

\* The tables of the listener and the addresses of its connections never come apart
\* (handleSYN, handleMigration, RemoveConnection)
THEOREM TablesInStep == Spec => []Routed
<1>1. IInv => Routed
  BY DEF IInv, ServerInv
<1> QED
  BY <1>1, Invariance, PTL

\* The client loses no socket but those that Migrate gives to a connection already closed
\* (DialWithConfig, Migrate, Close)
THEOREM NoSocketLost == Spec => []SocketsAccounted
<1>1. IInv => SocketsAccounted
  BY DEF IInv, ClientInv
<1> QED
  BY <1>1, Invariance, PTL

\* A clock that is one tick behind is at most one revision behind
LEMMA OneTickApart ==
    ASSUME NEW a \in Nat, NEW b \in Nat, b = a \/ b + 1 = a
    PROVE  (a \div Interval) - (b \div Interval) \in {0, 1}
<1> DEFINE q == a \div Interval
           p == b \div Interval
<1>1. Interval \in Nat /\ Interval >= 2
  BY MTPConnAssumption
<1>2. /\ q \in Nat /\ p \in Nat
      /\ Interval * q <= a /\ a < Interval * (q + 1)
      /\ Interval * p <= b /\ b < Interval * (p + 1)
  BY <1>1
<1> HIDE DEF q, p
<1>3. p <= q
  <2> SUFFICES ASSUME q + 1 <= p PROVE FALSE
    BY <1>2
  <2>1. Interval * (q + 1) <= Interval * p
    BY <1>1, <1>2
  <2> QED
    BY <1>1, <1>2, <2>1
<1>4. q <= p + 1
  <2> SUFFICES ASSUME p + 2 <= q PROVE FALSE
    BY <1>2
  <2>1. Interval * (p + 2) <= Interval * q
    BY <1>1, <1>2
  <2>2. Interval * (p + 2) = Interval * (p + 1) + Interval
    BY <1>1, <1>2
  <2> QED
    BY <1>1, <1>2, <2>1, <2>2
<1> QED
  BY <1>2, <1>3, <1>4 DEF q, p

\* The ids of the two ends are at most one revision apart, the client ahead, whatever the
\* rotation interval and however long the handshake took (rotateDCID)
THEOREM RevisionsInStep == Spec => []CodecsInStep
<1>1. IInv => CodecsInStep
  <2> SUFFICES ASSUME IInv, NEW k \in Peers
               PROVE  Revision(start) - Revision(sstart[k]) \in {0, 1}
    BY DEF CodecsInStep
  <2>1. /\ sstart[k] \in {start, start + 1} /\ sstart[k] \in 0..now /\ start \in 0..now
        /\ now \in 0..MaxTime /\ MaxTime \in Nat
    BY MTPConnAssumption DEF IInv, TypeOK, PeerInv, Peers
  <2>2. /\ now - start \in Nat /\ now - sstart[k] \in Nat
        /\ now - sstart[k] = now - start \/ (now - sstart[k]) + 1 = now - start
    BY <2>1
  <2> QED
    BY <2>2, OneTickApart DEF Revision
<1> QED
  BY <1>1, Invariance, PTL
====
