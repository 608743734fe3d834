---- MODULE Listener ----
(***************************************************************************)
(* The server's Listener (pkg/mtp/listener.go): readLoop, which is the     *)
(* only goroutine that registers and migrates connections, the goroutines  *)
(* that close a connection and then call RemoveConnection, and Close of    *)
(* the listener itself.  Every lock is held for one step at a time, so the *)
(* steps of handleSYN, handleMigration and RemoveConnection interleave.    *)
(*                                                                         *)
(* Clients are the datagrams they send: a SYN that authenticates with a    *)
(* session id, or a SYN that asks to migrate one, from any address.  Other *)
(* datagrams do not change the listener: dispatched, or answered as a      *)
(* scanner.  Of a connection's engine only one thing matters here: Close   *)
(* of the connection needs its sendMu, which a Reconfigure may keep for    *)
(* ever (module FecReconfig).  An operator named Bug... is a mutated form  *)
(* of the definition that follows it.                                      *)
(***************************************************************************)
EXTENDS Integers, Sequences

CONSTANTS
    Addrs,        \* remote addresses
    Ids,          \* session ids clients authenticate with
    MaxConns,     \* bound: MTPConns ever created, numbered from 1
    MaxMigrations,\* bound: MIGRATE requests
    AcceptCap     \* capacity of acceptCh (64)

ASSUME ListenerAssumption ==
    /\ Addrs # {} /\ Ids # {}
    /\ MaxConns \in Nat /\ MaxMigrations \in Nat /\ AcceptCap \in Nat

Conns == 1..MaxConns
None == 0                  \* no MTPConn

VARIABLES
    connections,   \* address -> MTPConn, under connMu
    sessions,      \* session id -> MTPConn, under sessMu
    acceptCh,      \* connections that Accept has not taken
    accepted,      \* history: connections that Accept returned
    \* readLoop
    reader,        \* where readLoop stands
    addr, id,      \* address and session id of the datagram in its hands
    cur, oldAddr,  \* the connection it registers or migrates, and from where
    migrations,    \* MIGRATE requests so far
    \* the MTPConns
    created,       \* MTPConns created so far
    remoteAddr, sessionID,
    onClose,       \* the cleanup callback is set
    life,          \* "none", "new" (no workers yet), "open", "closing", then the
                   \* steps of RemoveConnection "found" and "located", "closed"
    target,        \* the connection that RemoveConnection found under the id
    targetAddr,    \* and the address it read from it
    hung,          \* connections whose sendMu nobody gets any more
    unannounced,   \* history: connections whose SYN-ACK could not be encoded
    \* Close of the listener
    shutdown,      \* "open", "shut", "collecting" (connMu held), "closing", "done"
    conns, closing,\* the connections collected, and the one being closed
    crashed        \* the process panicked

readerVars == <<reader, addr, id, cur, oldAddr, migrations>>
connVars == <<created, remoteAddr, sessionID, onClose>>
removeVars == <<target, targetAddr, hung>>
shutVars == <<shutdown, conns, closing>>
vars == <<connections, sessions, acceptCh, accepted, unannounced, readerVars, connVars, life,
          removeVars, shutVars, crashed>>

AnyAddr == CHOOSE a \in Addrs : TRUE
AnyId == CHOOSE i \in Ids : TRUE

Init ==
    /\ connections = [a \in Addrs |-> None] /\ sessions = [i \in Ids |-> None]
    /\ acceptCh = << >> /\ accepted = {} /\ unannounced = {} /\ hung = {}
    /\ reader = "read" /\ addr = AnyAddr /\ id = AnyId /\ cur = None
    /\ oldAddr = AnyAddr /\ migrations = 0
    /\ created = 0 /\ remoteAddr = [c \in Conns |-> AnyAddr]
    /\ sessionID = [c \in Conns |-> AnyId] /\ onClose = [c \in Conns |-> FALSE]
    /\ life = [c \in Conns |-> "none"]
    /\ target = [c \in Conns |-> None] /\ targetAddr = [c \in Conns |-> AnyAddr]
    /\ shutdown = "open" /\ conns = {} /\ closing = None /\ crashed = FALSE

BugConnMuFree == shutdown \notin {"collecting", "closing"}
\* Close of the listener is the only one to hold connMu over more than one step
ConnMuFree == shutdown # "collecting"

-----------------------------------------------------------------------------
(* readLoop: a datagram from an address.                                   *)

\* readLoop goes on with the same datagram
Goto(place) == reader' = place /\ UNCHANGED <<addr, id, oldAddr>>

\* or is done with it, and its local variables are gone
NextDatagram ==
    /\ reader' = "read" /\ cur' = None
    /\ addr' = AnyAddr /\ id' = AnyId /\ oldAddr' = AnyAddr

Receive(kind, a, i) ==
    /\ reader = "read" /\ shutdown = "open"
    /\ IF kind = "migrate" THEN migrations < MaxMigrations ELSE created < MaxConns
    /\ reader' = kind /\ addr' = a /\ id' = i
    /\ migrations' = IF kind = "migrate" THEN migrations + 1 ELSE migrations
    /\ UNCHANGED <<connections, sessions, acceptCh, accepted, unannounced, cur, oldAddr,
                   connVars, life, removeVars, shutVars, crashed>>

\* ReadFromUDP fails and the listener is closed
StopReading ==
    /\ reader = "read" /\ shutdown # "open"
    /\ reader' = "stopped"
    /\ UNCHANGED <<connections, sessions, acceptCh, accepted, unannounced, addr, id, cur,
                   oldAddr, migrations, connVars, life, removeVars, shutVars, crashed>>

BugNextFor(kind) == IF kind = "syn" THEN "create" ELSE "find"
\* What follows the look-up of the address.  With a connection: DispatchPacket, which
\* answers a repeated SYN and drops everything once the connection is closed
NextFor(kind) ==
    CASE connections[addr] # None -> "read"
      [] connections[addr] = None /\ kind = "syn" -> "create"
      [] connections[addr] = None /\ kind = "migrate" -> "find"

\* readLoop looks the address up and releases connMu before it acts on the answer
LookUp ==
    /\ reader \in {"syn", "migrate"} /\ ConnMuFree
    /\ \/ NextFor(reader) = "read" /\ NextDatagram
       \/ NextFor(reader) # "read" /\ Goto(NextFor(reader)) /\ UNCHANGED cur
    /\ UNCHANGED <<connections, sessions, acceptCh, accepted, unannounced, migrations,
                   connVars, life, removeVars, shutVars, crashed>>

\* handleSYN, of an address without a connection: newMTPConn, entered in connections
HandleSYN ==
    /\ reader = "create" /\ ConnMuFree
    /\ created < MaxConns
    /\ created' = created + 1 /\ cur' = created'
    /\ remoteAddr' = [remoteAddr EXCEPT ![cur'] = addr]
    /\ sessionID' = [sessionID EXCEPT ![cur'] = id]
    /\ life' = [life EXCEPT ![cur'] = "new"]
    /\ connections' = [connections EXCEPT ![addr] = cur']
    /\ Goto("session")
    /\ UNCHANGED <<sessions, acceptCh, accepted, unannounced, migrations, onClose,
                   removeVars, shutVars, crashed>>

\* l.sessions[sessionID] = conn
RegisterSession ==
    /\ reader = "session"
    /\ sessions' = [sessions EXCEPT ![id] = cur]
    /\ Goto("start")
    /\ UNCHANGED <<connections, acceptCh, accepted, unannounced, cur, migrations, connVars,
                   life, removeVars, shutVars, crashed>>

\* The SYN-ACK is sent, or cannot be encoded and handleSYN returns
Announce ==
    \/ Goto("accept") /\ UNCHANGED <<cur, unannounced>>
    \/ NextDatagram /\ unannounced' = unannounced \cup {cur}

BugStartWorkers ==
    /\ reader = "start"
    /\ life' = [life EXCEPT ![cur] = IF @ = "new" THEN "open" ELSE @]
    /\ Announce
    /\ UNCHANGED <<connections, sessions, acceptCh, accepted, migrations, connVars,
                   removeVars, shutVars, crashed>>
\* onClose is set, startWorkers, SYN-ACK
StartWorkers ==
    /\ reader = "start"
    /\ onClose' = [onClose EXCEPT ![cur] = TRUE]
    /\ life' = [life EXCEPT ![cur] = IF @ = "new" THEN "open" ELSE @]
    /\ Announce
    /\ UNCHANGED <<connections, sessions, acceptCh, accepted, migrations, created,
                   remoteAddr, sessionID, removeVars, shutVars, crashed>>

BugOfferConn ==
    /\ reader = "accept" /\ shutdown = "open"
    /\ acceptCh' = IF Len(acceptCh) < AcceptCap THEN Append(acceptCh, cur) ELSE acceptCh
    /\ NextDatagram
    /\ UNCHANGED <<connections, sessions, accepted, unannounced, migrations, connVars, life,
                   removeVars, shutVars, crashed>>
\* The select on acceptCh: deliver, close the connection when the channel is full,
\* panic when the listener closed the channel
OfferConn ==
    /\ reader = "accept"
    /\ \/ /\ shutdown = "open" /\ Len(acceptCh) < AcceptCap
          /\ acceptCh' = Append(acceptCh, cur)
          /\ NextDatagram
          /\ UNCHANGED <<life, crashed>>
       \/ /\ shutdown = "open" /\ Len(acceptCh) >= AcceptCap
          /\ life' = [life EXCEPT ![cur] = IF @ = "open" THEN "closing" ELSE @]
          /\ Goto("drop")
          /\ UNCHANGED <<acceptCh, cur, crashed>>
       \/ /\ shutdown # "open"
          /\ crashed' = TRUE
          /\ Goto(reader) /\ UNCHANGED <<acceptCh, cur, life>>
    /\ UNCHANGED <<connections, sessions, accepted, unannounced, migrations, connVars,
                   removeVars, shutVars>>

\* conn.Close of the dropped connection returned (closeOnce: whoever runs it)
Dropped ==
    /\ reader = "drop" /\ life[cur] = "closed"
    /\ NextDatagram
    /\ UNCHANGED <<connections, sessions, acceptCh, accepted, unannounced, migrations,
                   connVars, life, removeVars, shutVars, crashed>>

-----------------------------------------------------------------------------
(* handleMigration, for an address without a connection.                   *)

\* The session is looked up under sessMu, then the address its connection has
HandleMigration ==
    /\ reader = "find"
    /\ \/ /\ sessions[id] = None
          /\ NextDatagram
       \/ /\ sessions[id] # None
          /\ cur' = sessions[id] /\ oldAddr' = remoteAddr[cur']
          /\ reader' = "move" /\ UNCHANGED <<addr, id>>
    /\ UNCHANGED <<connections, sessions, acceptCh, accepted, unannounced, migrations,
                   connVars, life, removeVars, shutVars, crashed>>

\* existingConn.remoteAddr = newAddr
MoveAddr ==
    /\ reader = "move"
    /\ remoteAddr' = [remoteAddr EXCEPT ![cur] = addr]
    /\ Goto("reroute")
    /\ UNCHANGED <<connections, sessions, acceptCh, accepted, unannounced, cur, migrations,
                   created, sessionID, onClose, life, removeVars, shutVars, crashed>>

BugMoved == [connections EXCEPT ![addr] = cur]
\* The entry moves from the old address to the new one
Moved == [connections EXCEPT ![oldAddr] = None, ![addr] = cur]

\* connections is updated under one hold of connMu, then SYN-ACK
Reroute ==
    /\ reader = "reroute" /\ ConnMuFree
    /\ connections' = Moved
    /\ NextDatagram
    /\ UNCHANGED <<sessions, acceptCh, accepted, unannounced, migrations, connVars, life,
                   removeVars, shutVars, crashed>>

-----------------------------------------------------------------------------
(* Accept, Close of a connection, RemoveConnection.                        *)

\* A closed acceptCh still yields what it holds
Accept ==
    /\ acceptCh # << >>
    /\ accepted' = accepted \cup {Head(acceptCh)}
    /\ acceptCh' = Tail(acceptCh)
    /\ UNCHANGED <<connections, sessions, unannounced, readerVars, connVars, life,
                   removeVars, shutVars, crashed>>

\* FIN, FINACK, 60s of silence, or the server: the first caller of Close wins
CloseConn(c) ==
    /\ life[c] = "open"
    /\ life' = [life EXCEPT ![c] = "closing"]
    /\ UNCHANGED <<connections, sessions, acceptCh, accepted, unannounced, readerVars,
                   connVars, removeVars, shutVars, crashed>>

\* A Reconfigure of the connection's engine waits for ever with sendMu held: nobody but
\* Close notices here
Hang(c) ==
    /\ life[c] = "closing" /\ c \notin hung
    /\ hung' = hung \cup {c}
    /\ UNCHANGED <<connections, sessions, acceptCh, accepted, unannounced, readerVars,
                   connVars, life, target, targetAddr, shutVars, crashed>>

\* arq.Close got sendMu, then RemoveConnection(sessionID): whichever connection the id
\* names goes
RemoveSession(c) ==
    /\ life[c] = "closing" /\ c \notin hung
    /\ \/ /\ onClose[c] /\ sessions[sessionID[c]] # None
          /\ target' = [target EXCEPT ![c] = sessions[sessionID[c]]]
          /\ sessions' = [sessions EXCEPT ![sessionID[c]] = None]
          /\ life' = [life EXCEPT ![c] = "found"]
       \/ /\ ~onClose[c] \/ sessions[sessionID[c]] = None
          /\ life' = [life EXCEPT ![c] = "closed"]
          /\ UNCHANGED <<target, sessions>>
    /\ UNCHANGED <<connections, acceptCh, accepted, unannounced, readerVars, connVars,
                   targetAddr, hung, shutVars, crashed>>

\* addrKey := conn.remoteAddr.String(), under no lock
ReadAddr(c) ==
    /\ life[c] = "found"
    /\ targetAddr' = [targetAddr EXCEPT ![c] = remoteAddr[target[c]]]
    /\ life' = [life EXCEPT ![c] = "located"]
    /\ UNCHANGED <<connections, sessions, acceptCh, accepted, unannounced, readerVars,
                   connVars, target, hung, shutVars, crashed>>

\* delete(l.connections, addrKey)
RemoveRoute(c) ==
    /\ life[c] = "located" /\ ConnMuFree
    /\ connections' = [connections EXCEPT ![targetAddr[c]] = None]
    /\ life' = [life EXCEPT ![c] = "closed"]
    /\ target' = [target EXCEPT ![c] = None]
    /\ targetAddr' = [targetAddr EXCEPT ![c] = AnyAddr]
    /\ UNCHANGED <<sessions, acceptCh, accepted, unannounced, readerVars, connVars, hung,
                   shutVars, crashed>>

-----------------------------------------------------------------------------
(* Close of the listener, by one goroutine; a second call returns at once.  *)

\* closed, closeCh, acceptCh and the UDP socket
Shut ==
    /\ shutdown = "open"
    /\ shutdown' = "shut"
    /\ UNCHANGED <<connections, sessions, acceptCh, accepted, unannounced, readerVars,
                   connVars, life, removeVars, conns, closing, crashed>>

\* The connections are collected under connMu, to be closed outside it
LockConnMu ==
    /\ shutdown = "shut"
    /\ shutdown' = "collecting"
    /\ UNCHANGED <<connections, sessions, acceptCh, accepted, unannounced, readerVars,
                   connVars, life, removeVars, conns, closing, crashed>>

Collect ==
    /\ shutdown = "collecting"
    /\ conns' = {c \in Conns : \E a \in Addrs : connections[a] = c}
    /\ shutdown' = "closing"
    /\ UNCHANGED <<connections, sessions, acceptCh, accepted, unannounced, readerVars,
                   connVars, life, removeVars, closing, crashed>>

\* conn.Close, one at a time; it returns when the connection is closed, and a
\* connection without its callback is closed without RemoveConnection
CloseNext(c) ==
    /\ shutdown = "closing" /\ closing = None /\ c \in conns
    /\ closing' = c /\ conns' = conns \ {c}
    /\ life' = [life EXCEPT ![c] = IF @ \in {"new", "open"} THEN "closing" ELSE @]
    /\ UNCHANGED <<connections, sessions, acceptCh, accepted, unannounced, readerVars,
                   connVars, removeVars, shutdown, crashed>>

CloseReturns ==
    /\ closing # None /\ life[closing] = "closed"
    /\ closing' = None
    /\ UNCHANGED <<connections, sessions, acceptCh, accepted, unannounced, readerVars,
                   connVars, life, removeVars, shutdown, conns, crashed>>

AllClosed ==
    /\ shutdown = "closing" /\ closing = None /\ conns = {}
    /\ shutdown' = "done"
    /\ UNCHANGED <<connections, sessions, acceptCh, accepted, unannounced, readerVars,
                   connVars, life, removeVars, conns, closing, crashed>>

ReadLoop ==
    \/ StopReading \/ LookUp \/ HandleSYN \/ RegisterSession \/ StartWorkers
    \/ OfferConn \/ Dropped \/ HandleMigration \/ MoveAddr \/ Reroute

Remove(c) == RemoveSession(c) \/ ReadAddr(c) \/ RemoveRoute(c)

CloseListener ==
    LockConnMu \/ Collect \/ (\E c \in Conns : CloseNext(c)) \/ CloseReturns \/ AllClosed

Next ==
    /\ ~crashed
    /\ \/ \E kind \in {"syn", "migrate"}, a \in Addrs, i \in Ids : Receive(kind, a, i)
       \/ ReadLoop
       \/ Accept
       \/ \E c \in Conns : CloseConn(c) \/ Hang(c) \/ Remove(c)
       \/ Shut \/ CloseListener

Spec == Init /\ [][Next]_vars

(* The scheduler runs readLoop, a goroutine inside conn.Close and one inside *)
(* Close of the listener; clients send, Accept is called and connections    *)
(* are closed at nobody's obligation.                                      *)
Fairness ==
    /\ WF_vars(~crashed /\ ReadLoop)
    /\ \A c \in Conns : WF_vars(~crashed /\ RemoveSession(c)) /\ WF_vars(~crashed /\ ReadAddr(c))
                        /\ SF_vars(~crashed /\ RemoveRoute(c))
    /\ WF_vars(~crashed /\ CloseListener)

FairSpec == Spec /\ Fairness

-----------------------------------------------------------------------------
(* Properties.                                                             *)

\* The variables keep their types (listener.go)
TypeOK ==
    /\ connections \in [Addrs -> Conns \cup {None}]
    /\ sessions \in [Ids -> Conns \cup {None}]
    /\ acceptCh \in Seq(Conns) /\ Len(acceptCh) <= AcceptCap /\ accepted \subseteq Conns
    /\ reader \in {"read", "syn", "create", "session", "start", "accept", "drop",
                   "migrate", "find", "move", "reroute", "stopped"}
    /\ unannounced \subseteq Conns /\ hung \subseteq Conns
    /\ addr \in Addrs /\ id \in Ids /\ cur \in Conns \cup {None} /\ oldAddr \in Addrs
    /\ migrations \in 0..MaxMigrations
    /\ created \in 0..MaxConns /\ remoteAddr \in [Conns -> Addrs]
    /\ sessionID \in [Conns -> Ids] /\ onClose \in [Conns -> BOOLEAN]
    /\ life \in [Conns -> {"none", "new", "open", "closing", "found", "located", "closed"}]
    /\ target \in [Conns -> Conns \cup {None}] /\ targetAddr \in [Conns -> Addrs]
    /\ shutdown \in {"open", "shut", "collecting", "closing", "done"}
    /\ conns \subseteq Conns /\ closing \in Conns \cup {None} /\ crashed \in BOOLEAN

\* However migrations and removals overlap, a datagram is only routed to a connection that
\* answers to its address, or was just told to answer to another.  That connection may be
\* closed: a migration that overlaps with its removal enters it again, for good
\* (handleMigration, RemoveConnection)
RoutesAgree ==
    \A a \in Addrs : connections[a] # None =>
        \/ remoteAddr[connections[a]] = a
        \/ reader = "reroute" /\ cur = connections[a] /\ a = oldAddr

\* A repeated or late SYN or MIGRATE never takes an address from the connection it
\* belongs to: an entry is removed before another connection can have it (readLoop)
AddressNotTaken ==
    [][\A a \in Addrs : connections[a] # None => connections'[a] \in {connections[a], None}]_vars

\* No connection runs that nobody holds: while the listener is open, Accept has or
\* will return it, or readLoop is still busy with it; only one whose SYN-ACK could not be
\* encoded is left to its own keepalive (handleSYN)
NobodyForgotten ==
    shutdown = "open" =>
        \A c \in Conns : life[c] = "open" =>
            \/ c \in accepted \/ \E k \in 1..Len(acceptCh) : acceptCh[k] = c
            \/ c = cur /\ reader = "accept"
            \/ c \in unannounced

Alone(c) == \A d \in 1..created : d # c => sessionID[d] # sessionID[c]

\* As long as nobody migrates, the connection of a client that shares its session id with
\* nobody is in the table exactly while it is not closed, whatever becomes of the others: a
\* removal between two MIGRATE steps may delete the entry of a stranger who took the old
\* address (handleSYN, RemoveConnection)
AloneIsTracked ==
    reader = "read" /\ shutdown = "open" /\ migrations = 0 =>
        \A c \in 1..created : Alone(c) =>
            /\ life[c] = "open" => \E a \in Addrs : connections[a] = c
            /\ life[c] = "closed" => \A a \in Addrs : connections[a] # c

\* listener.go:104: the connections are closed outside the lock "to avoid deadlock";
\* Close returns, against connections that are being closed by others as well, unless it
\* comes to close one whose sendMu is held for ever (Reconfigure)
ListenerCloseReturns == shutdown = "shut" ~> (shutdown = "done" \/ crashed \/ closing \in hung)

\* What the routes rest on: numbers name connections that exist, a connection is only
\* migrated from the address it had, to an address that is still free
Registration ==
    /\ \A a \in Addrs : connections[a] <= created
    /\ \A i \in Ids : sessions[i] <= created
    /\ cur <= created
    /\ reader \in {"session", "start", "accept", "drop", "move", "reroute"} => cur # None
    /\ reader \in {"create", "find", "move", "reroute"} => connections[addr] = None
    /\ reader = "move" => oldAddr = remoteAddr[cur]
    /\ reader = "reroute" => remoteAddr[cur] = addr
    /\ \A c \in Conns : life[c] \in {"found", "located"} => target[c] # None

\* The invariant that is inductive
IInv == TypeOK /\ Registration /\ RoutesAgree
====
