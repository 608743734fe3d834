---- MODULE Client_proofs ----
(***************************************************************************)
(* Proofs about Client for any number of starts, stops and sessions.       *)
(***************************************************************************)
EXTENDS Client, TLAPS

\* Start changes what the client holds only with its mutex held (Start)
LEMMA StartStep ==
    ASSUME IInv, Start \/ StartFails \/ StartDials \/ StartReturns
    PROVE  IInv'
<1> USE ClientAssumption DEF IInv, TypeOK, SoleStart, SoleStatus, DisconnectedIsIdle, Loops, None,
        sessionVars, startVars, stopVars, loopVars
<1>1. CASE Start
  BY <1>1 DEF Start
<1>2. CASE StartFails
  BY <1>2 DEF StartFails
<1>3. CASE StartDials
  BY <1>3 DEF StartDials, NewSession
<1>4. CASE StartReturns
  BY <1>4 DEF StartReturns
<1> QED
  BY <1>1, <1>2, <1>3, <1>4

\* A health loop dials only over a dead session, and gives a new one to nobody else before
\* it is stored (sessionHealthLoop, reconnectSession)
LEMMA LoopStepInv ==
    ASSUME IInv, NEW l \in Loops, Tick(l) \/ Reconnecting(l) \/ StoreSession(l) \/ LoopEnds(l)
    PROVE  IInv'
<1> USE ClientAssumption DEF IInv, TypeOK, SoleStart, SoleStatus, DisconnectedIsIdle, Loops, None,
        LoopStep, sessionVars, startVars, stopVars, loopVars
<1>1. CASE Tick(l)
  BY <1>1 DEF Tick
<1>2. CASE Check(l)
  BY <1>2, SMTT(60) DEF Check, Dead
<1>3. CASE BeginReconnect(l)
  BY <1>3 DEF BeginReconnect
<1>4. CASE LoopDials(l)
  BY <1>4 DEF LoopDials, NewSession
<1>5. CASE LoopFails(l)
  BY <1>5 DEF LoopFails
<1>6. CASE StoreSession(l)
  BY <1>6 DEF StoreSession
<1>7. CASE Reconnected(l)
  BY <1>7 DEF Reconnected
<1>8. CASE LoopEnds(l)
  BY <1>8 DEF LoopEnds
<1> QED
  BY <1>1, <1>2, <1>3, <1>4, <1>5, <1>6, <1>7, <1>8 DEF Reconnecting

\* Stop and the end of a session open nothing (Stop)
LEMMA OtherStep ==
    ASSUME IInv,
           \/ Stop \/ StopProxies \/ StopManager \/ StopReturns
           \/ \E s \in 1..MaxSessions : SessionEnds(s)
           \/ UNCHANGED vars
    PROVE  IInv'
<1> USE ClientAssumption DEF IInv, TypeOK, SoleStart, SoleStatus, DisconnectedIsIdle, Loops, None,
        sessionVars, startVars, stopVars, loopVars
<1>1. CASE Stop
  BY <1>1 DEF Stop
<1>2. CASE StopProxies
  BY <1>2 DEF StopProxies
<1>3. CASE StopManager
  BY <1>3 DEF StopManager
<1>4. CASE StopReturns
  BY <1>4 DEF StopReturns
<1>5. ASSUME NEW s \in 1..MaxSessions, SessionEnds(s) PROVE IInv'
  BY <1>5 DEF SessionEnds
<1>6. CASE UNCHANGED vars
  BY <1>6 DEF vars
<1> QED
  BY <1>1, <1>2, <1>3, <1>4, <1>5, <1>6

\* The inductive invariant holds, for any interleaving of Start, Stop and health loops
\* (client.go)
THEOREM Invariance == Spec => []IInv
<1>1. Init => IInv
  <2> SUFFICES ASSUME Init PROVE IInv
    OBVIOUS
  <2>1. /\ loop \in [Loops -> {"none", "wait", "check", "dead", "dial", "dialed", "stored",
                             "ended"}]
        /\ dialed \in [Loops -> 0..created]
    BY DEF Init, None
  <2>2. /\ created \in 0..MaxSessions /\ session \in 0..created /\ open \subseteq 1..created
        /\ starts \in 0..MaxStarts /\ stops \in 0..MaxStops
    BY ClientAssumption DEF Init, None
  <2>3. TypeOK
    BY <2>1, <2>2 DEF Init, TypeOK
  <2> QED
    BY <2>3 DEF Init, IInv, SoleStart, SoleStatus, DisconnectedIsIdle
<1>2. IInv /\ [Next]_vars => IInv'
  BY StartStep, LoopStepInv, OtherStep DEF Next
<1> QED
  BY <1>1, <1>2, PTL DEF Spec

\* A client that is started once holds at most one open session: a reconnection only begins
\* when the one before is dead (Start, sessionHealthLoop, reconnectSession)
THEOREM SingleSession == Spec => []OneOpenSession
<1>1. IInv => OneOpenSession
  <2>1. SUFFICES ASSUME IInv, starts <= 1, NEW s \in open, NEW t \in open PROVE s = t
    BY DEF OneOpenSession
  <2>2. CASE \A l \in Loops : loop[l] = "none"
    BY <2>1, <2>2 DEF IInv, SoleStart
  <2>3. ASSUME NEW l \in Loops, loop[l] # "none" PROVE s = t
    <3>1. loop[l] \in {"wait", "check", "dead", "dial", "dialed", "stored", "ended"}
      BY <2>1, <2>3 DEF IInv, TypeOK
    <3>2. CASE loop[l] \in {"dead", "dial"}
      BY <2>1, <3>2 DEF IInv, SoleStart
    <3>3. CASE loop[l] = "dialed"
      <4>1. open \subseteq {dialed[l]}
        BY <2>1, <3>3 DEF IInv, SoleStart
      <4> QED
        BY <2>1, <4>1
    <3>4. CASE loop[l] \in {"wait", "check", "stored", "ended"}
      <4>1. open \subseteq {session}
        BY <2>1, <3>4 DEF IInv, SoleStart
      <4> QED
        BY <2>1, <4>1
    <3> QED
      BY <3>1, <3>2, <3>3, <3>4
  <2> QED
    BY <2>2, <2>3
<1> QED
  BY <1>1, Invariance, PTL

\* A client that was started once and not stopped has no session open while it reports to be
\* disconnected (the error paths of Start and sessionHealthLoop)
THEOREM IdleWhenDisconnected == Spec => []DisconnectedIsIdle
<1>1. IInv => DisconnectedIsIdle
  BY DEF IInv
<1> QED
  BY <1>1, Invariance, PTL

\* The types of the client, and its mutex is held exactly while Start runs (Start)
THEOREM TypeCorrect == Spec => []TypeOK
<1>1. IInv => TypeOK
  BY DEF IInv
<1> QED
  BY <1>1, Invariance, PTL

\* A client that was started once, and whose reconnection failed, is disconnected for good: until
\* Start or Stop is called no step changes its status, for the ticker skips a client that is
\* not connected (sessionHealthLoop, client.go:502)
THEOREM FailureIsFinal ==
    Spec => [][starts' = starts /\ starts <= 1 /\ stops' = 0 /\ status = "disconnected"
                  => status' = "disconnected" /\ open' = {}]_vars
<1>1. ASSUME IInv, IInv', Next, starts' = starts, starts <= 1, stops' = 0, status = "disconnected"
      PROVE  status' = "disconnected" /\ open' = {}
  <2>1. stops \in Nat /\ starts \in Nat
    BY <1>1, ClientAssumption DEF IInv, TypeOK
  <2>2. stops = 0
    <3>1. stops' = stops \/ Stop
      BY <1>1 DEF Next, Start, StartFails, StartDials, StartReturns, Tick, Reconnecting, Check,
         BeginReconnect, LoopDials, LoopFails, Reconnected, StoreSession, LoopEnds, StopProxies,
         StopManager, StopReturns, SessionEnds, stopVars
    <3> QED
      BY <1>1, <2>1, <3>1 DEF Stop
  <2>3. stopper = "idle" /\ starter = "idle"
    BY <1>1, <2>2 DEF IInv, SoleStatus
  <2>4. ~Stop /\ ~StopProxies /\ ~StopManager /\ ~StopReturns
    BY <1>1, <2>2, <2>3 DEF Stop, StopProxies, StopManager, StopReturns
  <2>5. ~Start /\ ~StartFails /\ ~StartDials /\ ~StartReturns
    BY <1>1, <2>1, <2>3 DEF Start, StartFails, StartDials, StartReturns
  <2>6. \A l \in Loops : loop[l] \notin {"check", "dead", "dial", "dialed", "stored"}
    BY <1>1, <2>2 DEF IInv, SoleStatus
  <2>7. \/ \E l \in Loops : Tick(l) \/ LoopEnds(l)
        \/ \E s \in 1..MaxSessions : SessionEnds(s)
    BY <1>1, <2>4, <2>5, <2>6 DEF Next, Reconnecting, Check, BeginReconnect, LoopDials, LoopFails,
       Reconnected, StoreSession, LoopStep, IInv, TypeOK
  <2>8. status' = "disconnected"
    BY <1>1, <2>7 DEF Tick, LoopEnds, SessionEnds
  <2> QED
    BY <1>1, <2>8 DEF IInv, DisconnectedIsIdle
<1>2. IInv /\ IInv' /\ [Next]_vars
        => [starts' = starts /\ starts <= 1 /\ stops' = 0 /\ status = "disconnected"
              => status' = "disconnected" /\ open' = {}]_vars
  BY <1>1
<1> QED
  BY Invariance, <1>2, PTL DEF Spec
====
