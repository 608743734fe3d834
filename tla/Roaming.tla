---- MODULE Roaming ----
(***************************************************************************)
(* The sessions of the server (cmd/server/main.go): each connection that   *)
(* Accept returns is handled by a goroutine of its own, which starts a     *)
(* yamux session or swaps the connection below the existing one, and each  *)
(* session has an accept loop that removes it when yamux has ended.        *)
(*                                                                         *)
(* A connection is its number; a session is named by the connection it was *)
(* started with.  Of yamux only this is used: its receive goroutine blocks *)
(* in Read of the VirtualConn, an error of Read or Write ends the session, *)
(* and the end of the session closes the VirtualConn and fails Accept.     *)
(* Bug... is a mutated form of the definition after it.                    *)
(***************************************************************************)
EXTENDS Integers

CONSTANTS
    Ids,          \* session ids
    MaxConns      \* bound: connections accepted, numbered from 1

ASSUME RoamingAssumption == MaxConns \in Nat /\ Ids # {}

Conns == 1..MaxConns
None == 0

VARIABLES
    sessions,    \* id -> session, under s.mutex
    id,          \* of a connection
    open,        \* the connections that are not closed
    handler,     \* of a connection: "none", "start", "swap" (s.mutex released), "done"
    session,     \* the session its handler found
    yamux,       \* of a session: "none", "running", "ended", "removed"
    current,     \* v.conn of its VirtualConn
    reading      \* the connection its receive goroutine reads from

handlerVars == <<id, handler, session>>
vars == <<sessions, open, handlerVars, yamux, current, reading>>

Init ==
    /\ sessions = [i \in Ids |-> None]
    /\ id = [c \in Conns |-> CHOOSE i \in Ids : TRUE]
    /\ open = {}
    /\ handler = [c \in Conns |-> "none"]
    /\ session = [c \in Conns |-> None]
    /\ yamux = [c \in Conns |-> "none"]
    /\ current = [c \in Conns |-> None]
    /\ reading = [c \in Conns |-> None]

-----------------------------------------------------------------------------
(* handleMTPConnection, in a goroutine per accepted connection.            *)

Accept(c, i) ==
    /\ handler[c] = "none"
    /\ id' = [id EXCEPT ![c] = i]
    /\ open' = open \cup {c}
    /\ handler' = [handler EXCEPT ![c] = "start"]
    /\ UNCHANGED <<sessions, session, yamux, current, reading>>

BugReusable(i) == sessions[i] # None /\ yamux[sessions[i]] = "running"
\* exists
Reusable(i) == sessions[i] # None

\* s.mutex is held from the lookup to the entry of the new session, and released before
\* the swap.  A connection that yamux.Server refuses is closed
Lookup(c) ==
    /\ handler[c] = "start"
    /\ \/ /\ Reusable(id[c])
          /\ session' = [session EXCEPT ![c] = sessions[id[c]]]
          /\ handler' = [handler EXCEPT ![c] = "swap"]
          /\ UNCHANGED <<sessions, open, yamux, current, reading>>
       \/ /\ ~Reusable(id[c])
          /\ sessions' = [sessions EXCEPT ![id[c]] = c]
          /\ yamux' = [yamux EXCEPT ![c] = "running"]
          /\ current' = [current EXCEPT ![c] = c]
          /\ reading' = [reading EXCEPT ![c] = c]
          /\ handler' = [handler EXCEPT ![c] = "done"]
          /\ UNCHANGED <<open, session>>
       \/ /\ ~Reusable(id[c])
          /\ open' = open \ {c}
          /\ handler' = [handler EXCEPT ![c] = "done"]
          /\ UNCHANGED <<sessions, session, yamux, current, reading>>
    /\ UNCHANGED id

\* SwapConnectionSeamless (its write path is module VirtualConn)
Swap(c) ==
    /\ handler[c] = "swap"
    /\ current' = [current EXCEPT ![session[c]] = c]
    /\ handler' = [handler EXCEPT ![c] = "done"]
    /\ UNCHANGED <<sessions, id, open, session, yamux, reading>>

-----------------------------------------------------------------------------
(* Connections and yamux sessions.                                         *)

\* FIN of the peer or 60s of silence
CloseConn(c) ==
    /\ c \in open
    /\ open' = open \ {c}
    /\ UNCHANGED <<sessions, handlerVars, yamux, current, reading>>

\* Read returned data; the next call reads from the connection that is current then
ReadReturns(s) ==
    /\ yamux[s] = "running" /\ reading[s] \in open
    /\ reading' = [reading EXCEPT ![s] = current[s]]
    /\ UNCHANGED <<sessions, open, handlerVars, yamux, current>>

\* The session ends and closes the VirtualConn, which closes the current connection
EndSession(s) ==
    /\ yamux[s] = "running"
    /\ yamux' = [yamux EXCEPT ![s] = "ended"]
    /\ open' = open \ {current[s]}
    /\ UNCHANGED <<sessions, handlerVars, current, reading>>

\* An error of Read, on the connection that the receive goroutine captured
ReadFails(s) == reading[s] \notin open /\ EndSession(s)

\* An error of Write, on the current connection
WriteFails(s) == current[s] \notin open /\ EndSession(s)

BugRemoveSession(s) ==
    /\ yamux[s] = "ended"
    /\ yamux' = [yamux EXCEPT ![s] = "removed"]
    /\ UNCHANGED <<sessions, open, handlerVars, current, reading>>
\* Accept fails: removeSession deletes what the id names by now
RemoveSession(s) ==
    /\ yamux[s] = "ended"
    /\ sessions' = [sessions EXCEPT ![id[s]] = None]
    /\ yamux' = [yamux EXCEPT ![s] = "removed"]
    /\ UNCHANGED <<open, handlerVars, current, reading>>

Next ==
    \/ \E c \in Conns, i \in Ids : Accept(c, i)
    \/ \E c \in Conns : Lookup(c) \/ Swap(c) \/ CloseConn(c)
    \/ \E s \in Conns : ReadReturns(s) \/ ReadFails(s) \/ WriteFails(s) \/ RemoveSession(s)

Spec == Init /\ [][Next]_vars

(* Goroutines that can run do run, and a Read from a closed connection      *)
(* returns its error; nothing is assumed of the clients.                   *)
Fairness ==
    \A c \in Conns : /\ WF_vars(Lookup(c)) /\ WF_vars(Swap(c))
                     /\ WF_vars(ReadFails(c)) /\ WF_vars(RemoveSession(c))

FairSpec == Spec /\ Fairness

-----------------------------------------------------------------------------
(* Properties.                                                             *)

\* The variables keep their types, and only sessions have a VirtualConn (main.go)
TypeOK ==
    /\ sessions \in [Ids -> Conns \cup {None}] /\ id \in [Conns -> Ids] /\ open \subseteq Conns
    /\ handler \in [Conns -> {"none", "start", "swap", "done"}]
    /\ session \in [Conns -> Conns \cup {None}]
    /\ yamux \in [Conns -> {"none", "running", "ended", "removed"}]
    /\ current \in [Conns -> Conns \cup {None}] /\ reading \in [Conns -> Conns \cup {None}]
    /\ \A s \in Conns : yamux[s] = "none" <=> current[s] = None

\* A running session stays reachable under its id, and no other session has its id:
\* removeSession, which only knows the id, never hits a session that was started after
\* the one that ended (handleMTPConnection, removeSession)
RunningIsListed ==
    \A s \in Conns : yamux[s] = "running" => sessions[id[s]] = s

\* The table and the sessions name each other until the accept loop is through, and a
\* connection only becomes a session when its handler runs
TableAgrees ==
    /\ \A s \in Conns : yamux[s] \in {"running", "ended"} => sessions[id[s]] = s
    /\ \A i \in Ids : sessions[i] # None =>
          yamux[sessions[i]] \in {"running", "ended"} /\ id[sessions[i]] = i
    /\ \A c \in Conns : handler[c] \in {"none", "start", "swap"} => yamux[c] = "none"
    /\ \A c \in Conns : handler[c] = "swap" =>
          session[c] # None /\ yamux[session[c]] # "none"

\* The invariant that is inductive
IInv == TypeOK /\ TableAgrees

\* A session whose connections are closed leaves the table, so that the next connection of
\* the client starts a new one (the accept loop)
EndedIsRemoved ==
    \A s \in Conns : yamux[s] = "ended" ~> yamux[s] = "removed" /\ sessions[id[s]] # s
====
