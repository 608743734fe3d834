---- MODULE Client ----
(***************************************************************************)
(* The life of an SDK client (pkg/client/client.go): Start holds c.mu      *)
(* while it dials, each successful Start leaves a sessionHealthLoop behind *)
(* that dials again when the yamux session has ended, and Stop cancels the *)
(* context of the client, which is made once.  The status is atomic and    *)
(* read and set by all of them without a common lock.                      *)
(*                                                                         *)
(* A session is its number and stands for its connection as well.  The     *)
(* manager never has a session or a connection of its own here: StartSession *)
(* is not called, so that RotateTransport fails and Shutdown finds nothing. *)
(* Bug... is a mutated form of the definition after it.                    *)
(***************************************************************************)
EXTENDS Integers

CONSTANTS
    MaxStarts,     \* bound: calls of Start, numbered from 1
    MaxStops,      \* bound: calls of Stop
    MaxSessions    \* bound: sessions, numbered from 1

ASSUME ClientAssumption == MaxStarts \in Nat /\ MaxStops \in Nat /\ MaxSessions \in Nat

Loops == 1..MaxStarts      \* the health loop that a Start leaves behind
None == 0                  \* no session

VARIABLES
    status,     \* atomic: "disconnected", "connecting", "connected", "reconnecting"
    mu,         \* c.mu: "free", or held by "start" (the others hold it for one step)
    cancelled,  \* c.ctx is done
    manager,    \* c.transportManager is set
    session,    \* c.session
    created,    \* sessions so far
    open,       \* the sessions that are not closed
    starts, starter,  \* calls of Start; where the last one stands: "idle", "dial", "dialed"
    stops, stopper,   \* calls of Stop; "idle", "proxies", "manager", "status"
    loop,       \* per health loop: "none", "wait", "check", "dead", "dial", "dialed",
                \* "stored", "ended"
    dialed      \* per health loop: the session in its hands

startVars == <<starts, starter>>
stopVars == <<stops, stopper>>
sessionVars == <<session, created, open>>
loopVars == <<loop, dialed>>
vars == <<status, mu, cancelled, manager, sessionVars, startVars, stopVars, loopVars>>

Init ==
    /\ status = "disconnected" /\ mu = "free" /\ cancelled = FALSE /\ manager = FALSE
    /\ session = None /\ created = 0 /\ open = {}
    /\ starts = 0 /\ starter = "idle" /\ stops = 0 /\ stopper = "idle"
    /\ loop = [l \in Loops |-> "none"] /\ dialed = [l \in Loops |-> None]

\* DialWithConfig and yamux.Client: a session that nobody else has
NewSession ==
    /\ created < MaxSessions
    /\ created' = created + 1
    /\ open' = open \cup {created'}

\* The connection fails, or the server ends the session
SessionEnds(s) ==
    /\ s \in open
    /\ open' = open \ {s}
    /\ UNCHANGED <<status, mu, cancelled, manager, session, created, startVars, stopVars, loopVars>>

-----------------------------------------------------------------------------
(* Start, with c.mu held from here to its return.  Nothing in it looks at  *)
(* the context of the client.                                              *)

Start ==
    /\ starter = "idle" /\ mu = "free" /\ starts < MaxStarts
    /\ status # "connected"
    /\ status' = "connecting" /\ mu' = "start"
    /\ starts' = starts + 1 /\ starter' = "dial"
    /\ UNCHANGED <<cancelled, manager, sessionVars, stopVars, loopVars>>

\* The tunnel does not start, before the manager is set, or the dial fails after it
StartFails ==
    /\ starter = "dial"
    /\ status' = "disconnected" /\ mu' = "free"
    /\ manager' \in {manager, TRUE}
    /\ starter' = "idle"
    /\ UNCHANGED <<cancelled, sessionVars, starts, stopVars, loopVars>>

\* c.session is replaced, whatever it was
StartDials ==
    /\ starter = "dial"
    /\ NewSession
    /\ session' = created'
    /\ manager' = TRUE
    /\ starter' = "dialed"
    /\ UNCHANGED <<status, mu, cancelled, starts, stopVars, loopVars>>

\* The background goroutines start, a health loop in addition to earlier ones
StartReturns ==
    /\ starter = "dialed"
    /\ status' = "connected" /\ mu' = "free"
    /\ starter' = "idle"
    /\ loop' = [loop EXCEPT ![starts] = "wait"]
    /\ UNCHANGED <<cancelled, manager, sessionVars, starts, stopVars, dialed>>

-----------------------------------------------------------------------------
(* sessionHealthLoop and reconnectSession.                                 *)

LoopStep(l, from, to) == loop[l] = from /\ loop' = [loop EXCEPT ![l] = to]

\* The ticker; every other status is skipped.  select may choose it over a done context
Tick(l) ==
    /\ LoopStep(l, "wait", "check")
    /\ status = "connected"
    /\ UNCHANGED <<status, mu, cancelled, manager, sessionVars, startVars, stopVars, dialed>>

BugDead == session = None
\* session == nil || session.IsClosed()
Dead == session = None \/ session \notin open

Check(l) ==
    /\ \/ Dead /\ LoopStep(l, "check", "dead")
       \/ ~Dead /\ LoopStep(l, "check", "wait")
    /\ UNCHANGED <<status, mu, cancelled, manager, sessionVars, startVars, stopVars, dialed>>

BeginReconnect(l) ==
    /\ LoopStep(l, "dead", "dial")
    /\ status' = "reconnecting"
    /\ UNCHANGED <<mu, cancelled, manager, sessionVars, startVars, stopVars, dialed>>

LoopDials(l) ==
    /\ LoopStep(l, "dial", "dialed")
    /\ NewSession
    /\ dialed' = [dialed EXCEPT ![l] = created']
    /\ UNCHANGED <<status, mu, cancelled, manager, session, startVars, stopVars>>

\* The dial fails, or yamux does and the connection is closed again
LoopFails(l) ==
    /\ LoopStep(l, "dial", "wait")
    /\ status' = "disconnected"
    /\ UNCHANGED <<mu, cancelled, manager, sessionVars, startVars, stopVars, dialed>>

BugStoreSession(l) ==
    /\ mu = "free"
    /\ LoopStep(l, "dialed", "stored")
    /\ UNCHANGED <<status, mu, cancelled, manager, sessionVars, startVars, stopVars, dialed>>
\* The locked end of reconnectSession
StoreSession(l) ==
    /\ mu = "free"
    /\ LoopStep(l, "dialed", "stored")
    /\ session' = dialed[l]
    /\ UNCHANGED <<status, mu, cancelled, manager, created, open, startVars, stopVars, dialed>>

Reconnected(l) ==
    /\ LoopStep(l, "stored", "wait")
    /\ status' = "connected"
    /\ UNCHANGED <<mu, cancelled, manager, sessionVars, startVars, stopVars, dialed>>

BugLoopEnds(l) ==
    /\ cancelled /\ status = "connected"
    /\ LoopStep(l, "wait", "ended")
    /\ UNCHANGED <<status, mu, cancelled, manager, sessionVars, startVars, stopVars, dialed>>
\* The context is done
LoopEnds(l) ==
    /\ cancelled
    /\ LoopStep(l, "wait", "ended")
    /\ UNCHANGED <<status, mu, cancelled, manager, sessionVars, startVars, stopVars, dialed>>

Reconnecting(l) ==
    Check(l) \/ BeginReconnect(l) \/ LoopDials(l) \/ LoopFails(l) \/ Reconnected(l)

-----------------------------------------------------------------------------
(* Stop.  Reconnect is Stop and then Start.                                *)

Stop ==
    /\ stopper = "idle" /\ stops < MaxStops
    /\ stops' = stops + 1
    /\ cancelled' = TRUE
    /\ stopper' = "proxies"
    /\ UNCHANGED <<status, mu, manager, sessionVars, startVars, loopVars>>

\* The proxies are closed under c.mu
StopProxies ==
    /\ stopper = "proxies" /\ mu = "free"
    /\ stopper' = "manager"
    /\ UNCHANGED <<status, mu, cancelled, manager, sessionVars, startVars, stops, loopVars>>

\* Shutdown of the manager; the session is only closed when there is none
StopManager ==
    /\ stopper = "manager"
    /\ open' = IF manager THEN open ELSE open \ {session}
    /\ stopper' = "status"
    /\ UNCHANGED <<status, mu, cancelled, manager, session, created, startVars, stops, loopVars>>

StopReturns ==
    /\ stopper = "status" /\ mu = "free"
    /\ status' = "disconnected"
    /\ stopper' = "idle"
    /\ UNCHANGED <<mu, cancelled, manager, sessionVars, startVars, stops, loopVars>>

Next ==
    \/ Start \/ StartFails \/ StartDials \/ StartReturns
    \/ \E l \in Loops : Tick(l) \/ Reconnecting(l) \/ StoreSession(l) \/ LoopEnds(l)
    \/ Stop \/ StopProxies \/ StopManager \/ StopReturns
    \/ \E s \in 1..MaxSessions : SessionEnds(s)

Spec == Init /\ [][Next]_vars

(* Start, a reconnection and the ticker go on, dials end with a timeout.    *)
(* Strong fairness: c.mu is not starved (sync.RWMutex), and a select whose  *)
(* cases are both ready chooses at random.  Nobody has to call Start or Stop. *)
Fairness ==
    /\ WF_vars(StartFails \/ StartDials \/ StartReturns)
    /\ \A l \in Loops : /\ WF_vars(Tick(l)) /\ WF_vars(Reconnecting(l))
                        /\ SF_vars(StoreSession(l)) /\ SF_vars(LoopEnds(l))

FairSpec == Spec /\ Fairness

-----------------------------------------------------------------------------
(* Properties.                                                             *)

\* Types, and Start gives c.mu back on every path (client.go)
TypeOK ==
    /\ status \in {"disconnected", "connecting", "connected", "reconnecting"}
    /\ mu = IF starter = "idle" THEN "free" ELSE "start"
    /\ cancelled \in BOOLEAN /\ manager \in BOOLEAN
    /\ created \in 0..MaxSessions /\ session \in 0..created /\ open \subseteq 1..created
    /\ starts \in 0..MaxStarts /\ starter \in {"idle", "dial", "dialed"}
    /\ stops \in 0..MaxStops /\ stopper \in {"idle", "proxies", "manager", "status"}
    /\ loop \in [Loops -> {"none", "wait", "check", "dead", "dial", "dialed", "stored", "ended"}]
    /\ dialed \in [Loops -> 0..created]

\* A client that is started once never has two open sessions, however often sessions end
\* and wherever Stop interrupts a reconnection.  A second Start runs a second health loop,
\* and the two may reconnect both (Start, sessionHealthLoop, reconnectSession)
OneOpenSession ==
    starts <= 1 => \A s, t \in open : s = t

\* Until it is started again or stopped, a client that reports to be disconnected has no
\* session open behind the caller's back (the error paths of Start and sessionHealthLoop)
DisconnectedIsIdle ==
    starts <= 1 /\ stops = 0 /\ status = "disconnected" => open = {}

\* A client that reports to be connected over a dead session notices it, while it is not
\* stopped, also with several health loops (sessionHealthLoop)
DeadIsNoticed ==
    (status = "connected" /\ session \notin open)
        ~> (status # "connected" \/ session \in open \/ cancelled)

\* After Stop every health loop ends, in the middle of a reconnection or started by a
\* Start that came too late (Stop, Start, sessionHealthLoop)
StopEndsLoops == \A l \in Loops : (cancelled /\ loop[l] # "none") ~> loop[l] = "ended"

\* What a client that is started once holds: its place tells which session can be open,
\* and, as long as it is not stopped, what the status is
SoleStart ==
    starts <= 1 =>
        /\ starts = 0 => starter = "idle"
        /\ \A l \in Loops : loop[l] # "none" => l = 1 /\ starts = 1 /\ starter = "idle"
        /\ (\A l \in Loops : loop[l] = "none") /\ starter # "dialed" => open = {}
        /\ starter = "dialed" => open \subseteq {session}
        /\ \A l \in Loops :
              /\ loop[l] \in {"dead", "dial"} => open = {}
              /\ loop[l] = "dialed" => open \subseteq {dialed[l]}
              /\ loop[l] \in {"wait", "check", "stored", "ended"} => open \subseteq {session}

SoleStatus ==
    starts <= 1 /\ stops = 0 =>
        /\ ~cancelled /\ stopper = "idle"
        /\ starter # "idle" => status = "connecting"
        /\ \A l \in Loops :
              /\ loop[l] \in {"check", "dead"} => status = "connected"
              /\ loop[l] \in {"dial", "dialed", "stored"} => status = "reconnecting"

\* The invariant that is inductive
IInv == TypeOK /\ SoleStart /\ SoleStatus /\ DisconnectedIsIdle
====
