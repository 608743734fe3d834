# Mimic-Protocol in TLA+

Mimic-Protocol tunnels proxy traffic over MTP, a reliable and encrypted
transport on top of UDP. A client opens one MTP connection, multiplexes streams
over it with yamux, and changes the UDP socket below while it runs ("rotation");
the server accepts connections, keeps one yamux session per session id and swaps
the connection below it when the client comes back ("roaming").

This directory models the parts of it where concurrency, failure and ordering
decide whether the program is right. The repository's Go code is the reference:
each definition is translated from it, and `PROJECT.json` ("map") names the
lines.

## 1. The system

| Component | State | Operations | Talks to |
|---|---|---|---|
| ARQ engine (`pkg/mtp/arq.go`) | sequence numbers, window, `unacked`, `recvBuf`, `delivered` channel, delayed-ACK timer, `closed`; two locks (`sendMu`, `recvMu`) | Send, HandlePacket (DATA, ACK), retransmission loop, timer callback, Close | connection (`sendRaw`, `Delivered()`), FEC, pacer, codec |
| FEC (`pkg/mtp/fec.go`) | shards and counters of the current group, configuration, a channel of capacity 1 with a goroutine behind it | Reconfigure, AddDataPacket, flush timer, configLoop | called by the engine with `sendMu` held |
| MTPConn (`pkg/mtp/conn.go`) | socket and peer address, read buffer, `recvCh`, `closed`, `closeOnce`, time of the last reception | Read, Write, Close, Dial, Migrate, receive loop, keepalive | engine, listener, VirtualConn |
| Listener (`pkg/mtp/listener.go`) | `connections` by address (`connMu`), `sessions` by id (`sessMu`), `acceptCh` | readLoop, handleSYN, handleMigration, Accept, RemoveConnection, Close | MTPConn (callback `onClose`), server |
| VirtualConn (`pkg/transport/virtual_conn.go`) | current connection (`mutex`), swap flag and buffer (`swapMu`) | Read, Write, SwapConnectionSeamless, Close | yamux above, MTPConn below |
| Transport manager (`pkg/transport/manager.go`) | session, connections, domains | StartSession, RotateTransport, Shutdown | VirtualConn, MTPConn |
| Server (`cmd/server/main.go`) | `sessions` by id (`mutex`) | handleMTPConnection, accept loop, removeSession, stream relays | Listener, VirtualConn, yamux |
| Codec (`pkg/mtp/packet.go`, `pkg/compression`) | key, connection id and its revision, time of the last rotation | Encode, Decode, rotateDCID; compress and decompress | everybody that sends |
| Client (`pkg/client/client.go`) | status, session, manager, proxies, tunnel, context | Start, Stop, Reconnect, health loop, rotation loop, proxies | manager, MTPConn, proxies, tunnel |
| Tunnel (`pkg/tunnel/tunnel.go`) | running flag, command, descriptor | Start, Stop, Restart, process monitor | an external process |
| Proxies (`pkg/proxy/socks5.go`, `http.go`) | one connection of an application, and a far one: a TCP connection or a yamux stream | handleConn, relay, forwarding of a plain request | router, yamux session, server |
| UDP proxy (`pkg/proxy/udp.go`) | one association: a TCP and a UDP socket, one buffer, a goroutine per datagram | read loop, send, answer | router, yamux session, server |
| Router (`pkg/routing/router.go`) | an ordered list of rules | Route | proxies |
| Stream handlers (`cmd/server/main.go`) | one stream and the target's connection | handleStream, handleProxyStream, handleUDPStream | yamux session, target |
| DNS cache, presets, configuration, pacer, legacy protocol, WebSocket | a cache, tables, or local to a call | | |

What makes each hard, and what makes it correct:

* **ARQ engine.** Packets and ACKs are lost, repeated and reordered; Send waits
  for the window without the lock; a stale timer callback competes with the ACK
  that was just sent; Close overtakes handlers. Correct: no packet is forgotten
  without a trace, ACKs say only what is true, the reader sees packets in order
  and once, every packet and every blocked Send is resolved.
* **FEC.** A two-step replacement on a channel that another goroutine drains and
  a third one closes. Correct: a configuration that was handed over is not lost,
  nobody blocks or panics, and a group never outgrows its slice.
* **Listener.** Two tables under two locks, changed by the reading goroutine and
  by the callback of every connection that closes. Correct: a datagram goes to
  the connection of its address, an address is not taken over, connections leave
  the tables when (and only when) they close.
* **VirtualConn.** Writes are buffered while the connection is replaced;
  replacements overlap, and connections refuse a write in its middle. Correct: each
  write is sent once, in order, and the write path is open at the end.
* **Server sessions.** Lookup and swap are separate, and sessions end meanwhile.
  Correct: a running session is reachable, a roaming connection joins a session
  that runs, and an old connection does not end the session that left it.
* **MTPConn and codec.** Handshakes are retried over a network that loses,
  and delays; the server may obey what the client has given up; every
  codec rotates its connection id by its own clock; sockets change hands while
  Close runs. Correct: both ends of a connection that is up know each other and
  move together, payloads survive, every socket has an owner, and silence is
  noticed.
* **Client.** Several goroutines read and set the same status without a common
  lock, across Stop, Start and reconnection. Correct: one session at most, and a
  dead one is replaced.
* **Tunnel.** The goroutine that waits for a process writes the flag that the
  next start sets, and Restart is three steps. Correct: the flag is that of the
  process that runs, and Stop can kill it.
* **Proxies and stream handlers.** Two copies on either side of a stream, three
  connections that are closed in any order, openings and answers that come after
  their deadline, and writes that wait for room while nobody reads. Correct: nothing
  is said that is not so, data arrives in order and whole, and a connection that has
  ended is let go of on every side.
* **UDP proxy.** Goroutines keep slices of a buffer that the loop reads into.
  Correct: a datagram goes out, and is answered, with its own payload and header.

`PROJECT.json` ("hazards") lists every one of these at its line.

## 2. Modules

| Module | Models | State and actions |
|---|---|---|
| `OrderedStream` | what a direction of a connection promises its reader | packets accepted, lost, emitted in order |
| `FifoStream`, `WriteLog` | what a stream without losses promises its reader, and a write path its writer while transports are replaced | written and received units; calls, a log per transport, what is lost |
| `ARQ` | send half of an engine, receive half of its peer, UDP between them | `unacked` is a function from sequence number to retries; goroutines in Send have a `pc`; `sendLock` says whether a Reconfigure keeps `sendMu` or has ended the process; one action per critical section |
| `ARQ_proofs` | theorems of `ARQ` and of `FecReconfig` | |
| `FecReconfig` | both coders' configuration channels and loops, the two callers of Reconfigure, the encoder's group | `at[p]` is the place of a caller inside Reconfigure; `loop[x]` that of a configLoop |
| `Listener`, `Listener_proofs` | readLoop, RemoveConnection of each connection, Close | `reader` is the place of readLoop, `life[c]` the state of a connection including the steps of its removal; `hung` has the connections whose `sendMu` nobody gets |
| `VirtualConn`, `VirtualConn_proofs` | the write path under either kind of rotation (`kind`: the server swaps, the client migrates) | writes are numbered; `rotator[r]` is the place of a rotation and how it ended; `torn` has the writes of which a part went out |
| `Roaming`, `Roaming_proofs` | sessions of the server, with the read path of VirtualConn and what is used of yamux | a session is named by the connection it began with |
| `Client`, `Client_proofs` | Start, Stop and the health loops of an SDK client | a session is a number; `loop[l]` is the place of the health loop that start `l` left behind |
| `PacketCodec` | compression, Encode and Decode, connection ids | operators over packets that keep of a payload its length, its compressed length and its form; no state |
| `MTPConn`, `MTPConn_proofs` | a client's connections against the listener: Dial, Migrate, keepalive, Close, dispatch | `net` has the packets in flight; a socket is a number and an address; `dial` names a connection; one action per packet received or timer; uses `PacketCodec` for every packet |
| `Relay`, `Relay_proofs` | one TCP connection of an application through SOCKS5 or HTTP to its target, dialled by the client or by the server; the router | `data`, `fin`, `dead` are six pipes, one per direction of each connection, with room for `Window` units each; `handler`, `opener`, `server`, `copy` are the places of the goroutines, `copy[c] = "write"` that of a copy whose write waits for room |
| `UdpRelay` (theorems in `Relay_proofs`) | one UDP association and the server's end of its streams | `buffer` is cells that say what was written there last; `pc[d]` is the place of the goroutine of datagram `d`; reads and writes of the buffer are steps of their own |
| `Tunnel`, `Tunnel_proofs` | Start, Stop, Restart and monitors of tun2socks | a process is the number of its start; `held[m]` is the process a monitor waits for |
| `MC_ARQ`, `MC_FecReconfig`, `MC_MTPConn`, `MC_Relay` | instances for TLC | symmetry of the senders; shard counts, payload sizes and the compressor's threshold scaled down; rules and targets |

A definition called `Bug...` stands before the definition it mutates and differs
from it by a plausible mistake. Nothing uses it; `PROJECT.json` ("mutants")
pairs it with the property that would notice. `FecReconfig` and `UdpRelay` share a
module of proofs with `ARQ` and `Relay`; their `Init`, `Next`, `Spec`, `TypeOK` and
fairness carry the prefix `Fec` and `Udp`, so that one module can extend both.

### How the code maps to actions

*Locks.* What runs under one hold of a lock is one action; where the code
releases a lock and continues, the rest is another action. `DrainRecvBuf` is the
exception: the loop of handleDATA holds `recvMu`, but Read and Close do not need
that lock and can run between two turns of the loop. The two locks of a VirtualConn
and the two of the listener are never held together, so their holders need no
variable; only Close of the listener holds `connMu` over two steps
(`LockConnMu`, `Collect`).

*Time.* A timer that is armed may fire at any moment; a packet in flight may be
"older than rto" at any moment. This contains every real schedule.

*Network.* `dataNet` and `ackNet` of `ARQ` are sets. A handler may leave the packet it
handles in the set, which is duplication; it may take any member, which is
reordering; `LoseDATA` and `LoseACK` lose one. An ACK sent to a full `ackNet`
is lost.

In `MTPConn` a packet that was received is gone: what comes twice is what the
attempts of a handshake send twice.

*The lock that is not given back.* handleACK and SetFECConfig call Reconfigure with
`sendMu` held, and `FecReconfig` shows that it can wait for ever there, or panic on a
closed channel. The other modules take that as it is: in `ARQ` it may happen in
`HandleACK` and `ReconfigureBySet` at any time, after which nothing that needs `sendMu` moves;
in `Listener` it may befall any connection that is being closed (`Hang`).

*Room.* A pipe of `Relay` holds `Window` units, which stands for the buffers of TCP and
the window of yamux. A copy that has read a unit and finds no room holds it and reads
nothing more until there is room or the write fails.

*Closing.* `closed` is tested outside the lock that the handler needs.
`straggler` in `ARQ` stands for the handler that passed the test before Close,
and `at["ack"] = "checked"` in `FecReconfig` for the ACK handler that did.

*Yamux* is external. Of it `Roaming` assumes that its receive goroutine blocks
in Read of the VirtualConn, that an error of Read or Write ends the session, and
that the end of a session closes the VirtualConn and makes Accept fail;
`VirtualConn` that one goroutine writes; and `Relay` that a stream whose own side
was closed gives nothing more to its reader, that the peer may write on until the
stream is reset, and that data, close and reset arrive in the order of the stream.

*How modules meet.* `MTPConn` takes the listener's handlers as whole steps, and
`Listener` has their interleaving; `Roaming` and `VirtualConn` begin where
`MTPConn` has delivered a connection or moved it. `MTPConn` contains
`PacketCodec`: every packet it sends is encoded with the sender's revision and
decoded with the receiver's. `Relay` contains the router, the client's and the
server's end of a stream, and the two programs that talk.

*Data.* Units of a stream are numbered in `Relay`, writes in `VirtualConn`,
packets in `ARQ`. `MTPConn` counts a clock whose ticks are keepalive intervals;
a rotation of the connection id is due every `Interval` of them.

## 3. Runs

All runs set `CHECK_DEADLOCK FALSE`: bounded packets, connections, rotations or
starts are used up in the end, and closed engines, sessions and connections stop.

A run checks what TLC alone can show and the properties that say most. Every invariant
that a passing run checks is also proved for all values of the constants (Section 4), together
with others that need no run. Properties that
speak of the same hazard are conjuncts of one (`SendersServed`, `NothingHangs`,
`NobodyWaitsForever`, `HandlersEnd`, `DatagramsIntact`, `EverythingEnds`, `ExitsHandled`).
`HandlersEnd` is of the form []<>: each of its conjuncts is an implication whose
condition, once true, stays true until what it demands is done, so that to hold again and
again is to be done in the end.

| Run | Shows | Bounds |
|---|---|---|
| `ARQ_safety` | nothing is silently lost, the window is respected by senders that compete for it, and the engines implement `OrderedStream` | 2 senders, 3 packets, window 1, channel of 1, 1 retry, every packet acknowledged at once or late, 1 ACK in the network |
| `ARQ_liveness` | packets leave the flight and a blocked Send returns unless a Reconfigure keeps `sendMu` (`SendersServed`), received packets are acknowledged | 1 sender, 2 packets, window 1..2, ACK every 2 packets |
| `Fec` | a configuration handed over survives every race; shard indices fit; Close ends the loops and `sendMu` comes free except in the known wait (`NothingHangs`) | 2 packets, 1 SetFECConfig with one of 3 configurations, one that does not adjust itself and one that reedsolomon.New refuses among them, all 6 tiers for `GetAdjusted` |
| `Listener` | routes agree with the connections, no address is taken over, no connection is forgotten but one whose SYN-ACK cannot be encoded, a client alone with its id is tracked exactly while it is open, Close returns unless it meets a `sendMu` that is kept | 2 addresses, 2 ids, 2 connections, 1 migration, accept queue of 1 |
| `MTPConn` | the two ends move together; connection ids stay within one rotation; sockets have owners; payloads survive; handshakes and migrations end, silence and a lost Close are noticed (`NobodyWaitsForever`) | 2 sockets, 2 connections, 2 attempts, 2 packets in flight, 2 ticks with a rotation after 2, 1 silent tick, 4 payloads |
| `MTPConn_rotation` | expects a violation, see below | the same, without payloads |
| `VirtualConn` | each write is in one place; the path is restored; replays are in order; the path implements `WriteLog`; a buffered write is sent in the end, or a failure or an overlap is the cause that it is not (`BufferedIsSent`) | 3 rotations of either kind, 3 writes |
| `Roaming` | a running session is listed under its id, an ended one is removed | 2 ids, 4 connections |
| `Client` | one start leads to at most one open session; a dead session is noticed; Stop ends the health loops | 2 starts, 2 stops, 4 sessions |
| `Relay` | success is said only of the target that was asked for, dialled with success (of an address of 256 bytes or more: of the wrong one); a blocked target is left alone; data comes in order, and whole if nobody refuses it; the response implements `FifoStream`; far connections are let go of; who asked is answered and handlers end with their application unless a write waits for room (`HandlersEnd`) | 3 kinds of application, 4 targets, 3 rules, pipes of 1 unit, 2 units up, 2 down |
| `UdpRelay` | what is sent has its length, and undisturbed goroutines send and answer what they should (`DatagramsIntact`); associations and goroutines end (`EverythingEnds`) | 2 datagrams, headers of 1 and 2 cells, payloads of 1, answers of 1 and 2, a buffer of 3 that the larger answers do not fit |
| `Tunnel` | a running process is the one Stop kills, or a monitor was misled; an exit is noticed, and no zombie is left by a monitor that had its process (`ExitsHandled`) | 3 starts, 2 callers in Restart |

The bounds are the smallest at which each case of the code happens. Three
packets and a channel of one give a gap, a buffered packet that is drained, a
full channel and a duplicate at the same time; a window of one is what two senders
can see free at once (`ARQ_safety`), and one between 1 and 2 brings
every branch of the window arithmetic to a limit (`ARQ_liveness`). Two connections with two ids
and two addresses are the two clients that share an id, or do not, one of which
is replaced, migrated or removed while the other one registers, and the second
one finds an accept queue of one full. Two packets fill the smallest FEC group.
Three rotations are two that overlap and one that comes after them, and three writes
one before, one that is buffered and one that overtakes it.
Two starts leave two health loops that watch one session.

Two sockets are a dial and a migration, or two dials of which the first failed;
two attempts are a first one and a repetition, two packets in flight one that is
old and one that answers. Two ticks with an interval of two bring one rotation,
between any two events of a connection. The compressor's threshold, the configured
one and the payloads of `MC_MTPConn` lie on each side of each other: a payload
that is compressed, one that is wrapped and not worth it, one too small, and one
of the 11 bytes from which a long header can be decoded. The four targets of
`MC_Relay` are a blocked one with a later rule that allows it, a direct one, one
that no rule names, and one whose address is longer than its byte can say. Two
units of data in each direction, with pipes of one, give an order to get wrong, a
unit that is on its way when the other direction ends, and a write that waits. Two datagrams are the one in the buffer and the one it is
overwritten with. Three starts are a process whose monitor is late, its successor,
and one that is started although the flag should say no. Larger amounts of data,
sockets, starts and callers are what the theorems of Section 4 are for.

### Where the code does not do what it says

One run expects a violation. `MTPConn_rotation` checks what `listener.go` says of
its decoys: that they answer scanners and what is no packet of a client. TLC's
counterexample lets the clock reach one rotation before anybody dials. The
listener's codec, made when the server started, then has revision 1 of the
connection id; the codec of a client that dials begins with revision 0. The
listener cannot decode the SYN, takes it for a probe and answers with a decoy, now
and for every client from then on. `PROJECT.json` ("findings") quotes the
sentences.

The models contain more behaviour that a reader of the code may not expect. It
has no run of its own; histories, flags and the conditions of the properties tell
it from everything else. In the transport:

* the "forced" exit from a stalled Send after 30 s leaves the `select` only, and
  the loop around it goes on (arq.go:253-256);
* Reconfigure may wait for ever with `sendMu` held, when configLoop has emptied
  the channel between its two selects (`Wedged` in `FecReconfig`, fec.go:76-77). Its own
  configuration is then never handed over, no Send, ACK or retransmission of the
  connection goes on, and Close of the connection, and of the listener that has it, hangs
  (`sendLock` in `ARQ`, `Hang` in `Listener`);
* with two connections of one session id, the end of one removes the other, and
  the closed one stays in the table (listener.go:313-316); a connection that is removed
  while it migrates stays there as well, for good (`Reroute` after `RemoveRoute`), and a
  client that uses its address gets no answer. `RoutesAgree` allows both;
* a connection whose SYN-ACK cannot be encoded is left in the tables with its workers
  running, and nobody accepts it (`unannounced`, listener.go:245-248);
* the comments promise that no data is lost when the transport is replaced: "buffered
  seamless swap to prevent data loss" (virtual_conn.go:11; manager.go:148 and :179 say the
  same), "Writes during the swap are captured and replayed on the new connection"
  (virtual_conn.go:39), "the data will be retransmitted by upper layers" after a replay that
  failed (manager.go:210), "zero data loss" (README.en.md:40). The code has told yamux by then that these writes are done, yamux
  does not repeat them, and they are discarded when Migrate fails, when a replay fails, and
  when two swaps share the buffer and the second one empties it (`dropped` in
  `VirtualConn`, virtual_conn.go:44). `BufferedIsSent` says that they are lost in no other
  case, and `LossHasCause` proves it. A replay that fails in the middle of a write leaves
  its beginning on the wire (`torn`), which garbles the yamux stream;
* a connection that was replaced ends its session when it ends itself, because
  Read hands its error up (`ReadFails` in `Roaming`, virtual_conn.go:76);
* the answer "OK" to a MIGRATE is shorter than the long header's length field
  expects, and cannot be decoded (packet.go:511-549, listener.go:300): a migration
  needs its second attempt, which the moved connection answers. For the same
  reason a client whose secret has less than 11 bytes never connects
  (`PayloadIntact`);
* Migrate that succeeds after Close has left the connection installs a socket that
  nobody closes (`leaked`, conn.go:585), and a dial that fails leaves the goroutines
  of its engine and codec;
* the server obeys a MIGRATE that the client has given up, and the ends part
  (`abandoned`, `stray`: conditions of `Agree`);
* a packet that meets a full `delivered` channel is dropped, then acknowledged
  (`overflowed`, arq.go:507-511), and a packet is given up while the connection
  stays open, with a hole in its stream (`abandoned`, arq.go:577-581);
* Reconfigure may send on a channel that Close has closed (`Panic` in
  `FecReconfig`, fec.go:74), and readLoop on the closed `acceptCh` (`OfferConn`,
  listener.go:256): the process panics (`crashed`);
* every packet covered by a cumulative ACK counts as lost (`lost`, arq.go:360);
* a removal that overlaps a migration deletes the entry of the old address, which
  may belong to another client by then (listener.go:322-327): this is why
  `AloneIsTracked` is stated for the time before the first MIGRATE;
* a new write may overtake those that are being replayed (`Replay` takes no lock);
* Stop leaves the session open, because there is always a manager and the manager
  never has a session (`StopManager`, client.go:301-309), and a health loop that is
  reconnecting sets the status of a stopped client to connected; after one failed
  reconnection nobody tries again (`Tick`, client.go:502); two health loops may
  both replace a dead session. `OneOpenSession` and `DisconnectedIsIdle` are stated
  for a client that is started once;
* a connection may be swapped below a session that has ended (`Swap` in
  `Roaming` has no guard on the session).

In the proxies and the tunnel:

* the server hands the end of the target's data on to nobody (main.go:394): a
  response is there as a whole, but its end is not seen through the server, and a
  plain HTTP request waits for ever with the server's handler waiting for it
  (`DirectEnd` and `ServerHandlerEnds` are stated without these);
* an application of SOCKS5, or of HTTP through a stream, that closes its sending
  side ends the response too (`UpEnds`); a direct CONNECT that the application
  leaves waits for its target (`ClientHandlerEnds` excludes it);
* what comes in one read with the request is lost (`early`);
* the length of the target's address is sent as one byte (socks5.go:298): with 256
  bytes and more the server dials another target and sends it the rest of the
  address (`dialled = "wrong"`), and the application is told of success although its
  target was never dialled: `SuccessMeansConnected` says what was dialled in either case.
  A datagram's address is cut the same way (`"cut"`, udp.go:192);
* when a target does not read and the windows are full, the copy to it waits in Write and
  reads nothing: the application's departure goes unnoticed and the handler does not
  end (`ClientHandlerEnds` excludes it). When both windows of a stream are full, and the
  copy that would drain the other direction has ended at either end, the proxy waits for
  the server and the server for the proxy (`ServerHandlerEnds` excludes it,
  main.go:384-394);
* a stream that opens after the 30 s is nobody's, and stays until yamux resets it;
* an application with a plain request learns nothing of a header that could not be
  written (`OpenFails`);
* the goroutines of a UDP association send and answer what the buffer holds by
  then, which may belong to a later datagram (`clean` in `UdpRelay`); an answer that does
  not fit the buffer moves to one of its own (`BuildAside`), and session.Open has no
  deadline there;
* a monitor that comes late clears the flag of a newer process, so that Stop
  refuses and another process can be started beside it (`misled` in `Tunnel`,
  tunnel.go:278); one that finds `cmd` empty leaves a process that Stop killed a zombie;
  or it waits for the newer process and leaves its own a zombie; Restart
  of a tunnel that was never started uses descriptor 0, and Restart forgets the
  configuration.

### Fairness

Weak fairness is assumed of goroutines that can run (the Go scheduler is fair to
runnable goroutines, and its mutexes do not starve a waiter) and of armed timers.
That is what `MTPConn` (timeouts of handshakes, keepalive tickers), `Relay` (the
proxy's and the server's goroutines, whose dials, openings and waits have
deadlines in the code, and reads from an application that is gone), `UdpRelay`
(goroutines and their deadlines, not session.Open) and `Tunnel` (monitors, and
the exit of a process that was killed) assume, and nothing else. In `Relay` a
stream is reset in the end if one side closed it and the other did not (yamux does so
after five minutes), and need not be otherwise.
Strong fairness is assumed of steps that wait for a lock which others take
again and again (`LoopApply` of `FecReconfig`, `RemoveRoute` of `Listener`,
`StoreSession` of `Client`), and of `LoopEnds` of `Client`, one case of a select
that chooses at random among those that are ready.
Nothing is assumed of the network, of clients, applications and targets, of
callers of Send, Read, Write, Accept, Start, Stop or Close. In `ARQ` and `Listener`
nothing is assumed of a Reconfigure either: what needs the lock it keeps is not enabled
then, and the properties name that case (`SendLockGone`, `hung`). `ARQ_liveness` thus shows what holds when every packet is lost:
packets leave the window because retransmission gives up, not because they
arrive.

## 4. Proofs

TLC shows the properties on the instances above; the theorems hold for every
value of the constants that the modules' assumptions allow. `TypeCorrect`, in each
of the modules, is the type invariant; `Invariance` is that of the inductive
invariant the others follow from.

* `ARQ_proofs`: `Spec => []IInv`, and from it `TypeOK`, `NoSilentLoss`,
  `AcksAreTrue`, `RecvBufAhead`, `DeliveredInOrder`, `PendingAckHasTimer`,
  `InFlightBounded` and the refinement `Spec => Stream!Spec`. None of the properties
  is inductive alone. `NoSilentLoss` needs `AcksAreTrue` (an ACK removes what it
  covers from `unacked`, which is right only if the receiver has it), which needs
  that received packets stay received; `DeliveredInOrder` needs `RecvBufAhead` (what
  is drained is next) and `OnlySentPackets`; the window bound needs that `unacked`
  is finite, and follows directly as an induction over the window test. The
  refinement maps accepted to `sendSeq`, read to `nextRead` and lost to
  `overflowed`: a Read emits the first packet of the channel, and
  `DeliveredInOrder` says that what lies before it was thrown away.
* `ARQ_proofs`, second part (`FecReconfig`): `FecInv` adds to `FecTypeOK`,
  `LatestConfigNotLost` and `ShardsFit` what sendMu protects (`UnderLock`: who is
  inside Reconfigure holds it, Close does not come in between, and the channel that
  was emptied stays empty) and that no more packets are lost than were sent
  (`Counted`, for the table of `GetAdjusted`). `LatestConfigKept` is about what Reconfigure last returned with: it follows by the place
  of each caller, since a caller throws away what is in the channel only to put its own in
  its place, and sendMu keeps the other caller out meanwhile. A caller that configLoop beats
  to the channel hands over nothing. `WedgedForever` is an action property: no step
  ends the wait in which Reconfigure holds sendMu; `OnlyWedgeBlocks` says that there is
  no second such wait, and `ReconfigureExcludesClose` that only a Reconfigure that begins
  after Close panics.
* `Listener_proofs`: `IInv` adds `Registration` (a migration started from the
  address the connection had, its target is still free) to `RoutesAgree`; only
  readLoop adds entries, so what it found free stays free. `AddressNotTaken` is
  the action property that follows. `NobodyForgotten` is inductive beside it: whoever
  has an open connection in hand passes it on or closes it. `TrackedAlone` has an
  invariant of its own for the time before the first MIGRATE: an entry of the table then
  stands at the address its connection was made with, and a removal that is under way has
  found the entry of its own connection, because the id it looked up is nobody else's.
* `VirtualConn_proofs`: while `swapping` is set, some rotation is going to reset
  it; while it is not set, the buffer is empty. So the last rotation leaves the
  path open, however many overlap (`Restored`). A second invariant, `OInv`, has
  the shared buffer in order, because a write is numbered when it is made and goes
  to the end; a rotation takes the buffer as a whole and sends from its front, so
  what it replays is in order (`ReplayInOrder`). For `WrittenOnce` the places of a write
  are sites (the writer, the shared buffer, the rotations, the connections, what was
  discarded): `PInv` says that the sites partition the writes and that no queue has a
  write twice, and each step moves a set of writes from one site to another
  (`MoveKeeps`). That a write has one place is then a cardinality of one. The same
  invariant shows that the path implements `WriteLog` (`RotationsInvisible`): what a step
  sends or discards came from a site that is neither a connection nor the discarded, so it
  was pending (`HeldIsPending`). For `LossHasCause`, a buffer that is not
  empty has a rotation that is buffering, so a swap that empties it has begun during another;
  the other steps that discard are those of rotations that fail.
* `Roaming_proofs`: until its accept loop has removed a session, the table holds
  it under its id, because no other session starts while the entry exists.
* `Client_proofs`: `IInv` adds to the types where the one Start or its health loop
  stands (`SoleStart`) and which status that implies (`SoleStatus`); a dial only
  begins when nothing is open. Besides `OneOpenSession` this gives
  `DisconnectedIsIdle`: a client that says it is disconnected hides no session, and
  the action property `FailureIsFinal`: until Start or Stop is called, it stays so.
* `MTPConn_proofs`: `IInv` is what the client knows of its sockets (`ClientInv`),
  what the server's tables say (`ServerInv`), what the two ends know of each other
  (`PeerInv`), and what a packet in flight says of its past (`NetInv`): a SYN of the
  present dial is at most a tick old, and whoever is sent a SYN-ACK has a connection
  that sends to it. `NetInv` is why an answer that was delayed or reordered does no
  harm. From it follow `UpHasPeer` (neither a decoy nor an old answer completes a
  handshake), `Agree`, `Routed`, `SocketsAccounted` and, since both clocks start
  within one tick, `CodecsInStep`. `PayloadIntact` needs no invariant: it goes
  through the cases of the flag and of the header, for payloads of any length.
* `Relay_proofs`: `Control` says of the places of handleConn and handleStream what
  one implies for the other, `Success` that who says yes has the target that the length
  of the address lets it dial, `Released`
  that the copy which used the far connection has closed it. `BlockedStays` needs
  that the least index of the rules that match exists, which is an argument by the
  well-foundedness of strict inclusion (`LeastIndex`, `RouteFirst`). For `InOrder`,
  what was received and what is in the three pipes on the way form one line that is
  always the units sent, in order: a copy moves a unit along the line, the sender
  extends it, and nothing else changes it (`Along`, `AtEnd`, `Order`). `WholeResponse`
  is about ends: `Closes` says who may close which side of which pipe, `Kept` that a copy
  from the target ends, as long as nobody refused anything (`Clean`), only when the pipes
  before it are empty; so when the application reads the end, the line is what it has.
  `ResponseIsStream` maps written to the units 1..`tsent` and received to `got`: of all
  the steps of the two programs only the target's write and the application's read are
  seen, and `InOrder` in the next state says that the read gave the right unit.
* `Relay_proofs`, second part (`UdpRelay`): `UdpInv` says of each datagram how far it has
  come (`Stage`), that its slices lie in the part of the buffer that was written (`Room`)
  and whose cells they hold as long as nobody else has written (`Own`). The buffer never
  becomes shorter, which gives `InBounds` and the lengths; a write of anybody else ends
  what `Own` says of a datagram, and with it the condition of `Undisturbed`, so the race
  needs no further cases.
* `Tunnel_proofs`: `RunningIsStarted` and `NoOrphan` are inductive together: a
  process is launched only while the flag is down, when nothing runs, or a monitor
  was misled. `Watched` adds where the monitor of the process in `cmd` stands
  (`ProcessIsWatched`): `cmd` never goes back to an earlier process, so a monitor cannot
  be taken away from the process it was made for while that one can still exit unseen.

Constants are assumed to be what the code has: positive limits, an initial window
between its floor and its ceiling, finitely many senders, an interval of rotation
longer than a handshake, payloads of the form that `PacketCodec` gives them, rules
by name or by address, descriptors above zero (`ConstantsAssumption`,
`ListenerAssumption`, `RoamingAssumption`, `VirtualConnAssumption`,
`ClientAssumption`, `CodecAssumption`, `MTPConnAssumption`, `RelayAssumption`,
`TunnelAssumption`, `FecAssumption`, `UdpRelayAssumption`). The bounds on packets, writes,
starts and datagrams are constants too, so the theorems hold whatever they are.

Only model-checked: the liveness properties, because fairness and ENABLED are out of the
prover's reach (`SendersServed`, `ReceivedIsAcknowledged`, `NothingHangs`,
`ListenerCloseReturns`, `NobodyWaitsForever`, `BufferedIsSent`, `EndedIsRemoved`,
`DeadIsNoticed`, `StopEndsLoops`, `HandlersEnd`, `EverythingEnds`, `ExitsHandled`). Several
have a safety part that is proved: that there is a timer for every packet that waits for
its acknowledgement (`AckIsPending`), that nothing but the one wait blocks a Reconfigure
(`OnlyWedgeBlocks`), that the last rotation leaves no buffered write behind
(`WritePathRestored`) and what may discard one (`LossHasCause`), that the process in `cmd`
has its monitor (`ProcessIsWatched`). And
`DecoysForScannersOnly`, which is false.

## 5. Not modelled

* The inside of cryptography, zstd, Reed-Solomon and mimicry: conversions without
  state. Of zstd `PacketCodec` keeps the length it reaches, of the cipher that it
  finds every change.
* RTT, RTO and bandwidth arithmetic: it chooses among the moments and window targets
  that `ARQ` leaves open. The wrap-around of 32-bit sequence numbers, noted as a
  hazard: an instance in which it happens would need narrower numbers than the code's.
* The groups of the FEC decoder: no FEC packet reaches it in this program.
* Pacer, DNS cache and protected dialer: they delay a step or choose an address.
* The read buffer of MTPConn and its deadlines, and the splitting of a Write into
  packets, but for a Write that fails after a part of them went out (`torn`): yamux reads
  and writes with one goroutine each.
* Packets that the network itself repeats, in `MTPConn`: `ARQ` has them.
* StartSession of the manager, which nobody calls, and the client's rotation loop,
  which changes nothing that others read.
* Start and shutdown of the processes, accept loops of the proxies, statistics.
* Configuration and links, presets, the legacy protocol, the WebSocket transport,
  version and scripts.

## 6. Plan

Done: `OrderedStream`, `FifoStream`, `WriteLog`, `ARQ`, `FecReconfig`, `Listener`,
`VirtualConn`, `Roaming`, `Client`, `PacketCodec` with `MTPConn`, `Relay` (with the
router), `UdpRelay` and `Tunnel`, with their runs and their theorems. Next, in this order:

1. `MTPConn` over the steps of `Listener`: the whole handlers of the first shown to be what
   the second's steps amount to when no removal overlaps a migration.
2. `ReadBuffer`: Read, copyPayload and deadlines of MTPConn, refining a byte stream,
   with two readers and a Close while data is undelivered.
3. `FecGroups`: encoder and decoder groups against an abstract erasure code, should
   FEC packets be routed to the decoder.
4. `DnsCache` and `Pacer`: small modules with clocks.
