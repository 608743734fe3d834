---- MODULE Roaming_proofs ----
(***************************************************************************)
(* Proofs about Roaming for any number of connections and session ids.     *)
(***************************************************************************)
EXTENDS Roaming, TLAPS

\* A server starts without sessions
LEMMA InitHolds == Init => IInv
<1> SUFFICES ASSUME Init PROVE IInv
  OBVIOUS
<1>1. (CHOOSE i \in Ids : TRUE) \in Ids
  BY RoamingAssumption
<1> QED
  BY <1>1 DEF Init, IInv, TypeOK, TableAgrees, None

\* A connection is handled: a session is started under s.mutex, or a swap is prepared and
\* made after s.mutex was released (handleMTPConnection)
LEMMA HandlerStep ==
    ASSUME IInv, NEW c \in Conns, (\E i \in Ids : Accept(c, i)) \/ Lookup(c) \/ Swap(c)
    PROVE  IInv'
<1>0. None \notin Conns
  BY DEF None, Conns
<1>1. ASSUME NEW i \in Ids, Accept(c, i) PROVE IInv'
  <2>1. TypeOK'
    BY <1>1 DEF Accept, IInv, TypeOK
  <2>2. TableAgrees'
    BY <1>1 DEF Accept, IInv, TypeOK, TableAgrees
  <2> QED
    BY <2>1, <2>2 DEF IInv
<1>2. CASE Lookup(c) /\ Reusable(id[c])
  <2>1. /\ session' = [session EXCEPT ![c] = sessions[id[c]]]
        /\ handler' = [handler EXCEPT ![c] = "swap"] /\ handler[c] = "start"
        /\ UNCHANGED <<sessions, yamux, current, reading, id, open>>
        /\ sessions[id[c]] \in Conns
    BY <1>2 DEF Lookup, Reusable, IInv, TypeOK
  <2>2. TypeOK'
    BY <2>1 DEF IInv, TypeOK
  <2>3. TableAgrees'
    BY <1>0, <2>1 DEF IInv, TypeOK, TableAgrees
  <2> QED
    BY <2>2, <2>3 DEF IInv
<1>3. CASE Lookup(c) /\ ~Reusable(id[c]) /\ UNCHANGED sessions
  <2>0. None # c
    BY <1>0
  <2>1. /\ open' = open \ {c} /\ handler' = [handler EXCEPT ![c] = "done"]
        /\ handler[c] = "start"
        /\ UNCHANGED <<sessions, session, id, yamux, current, reading>>
    BY <1>3, <2>0 DEF Lookup, Reusable, IInv, TypeOK
  <2>2. TypeOK'
    BY <2>1 DEF IInv, TypeOK
  <2>3. TableAgrees'
    BY <2>1 DEF IInv, TypeOK, TableAgrees
  <2> QED
    BY <2>2, <2>3 DEF IInv
<1>4. CASE Lookup(c) /\ ~Reusable(id[c]) /\ ~UNCHANGED sessions
  <2>1. /\ sessions[id[c]] = None /\ handler[c] = "start"
        /\ sessions' = [sessions EXCEPT ![id[c]] = c]
        /\ yamux' = [yamux EXCEPT ![c] = "running"]
        /\ current' = [current EXCEPT ![c] = c] /\ reading' = [reading EXCEPT ![c] = c]
        /\ handler' = [handler EXCEPT ![c] = "done"]
        /\ UNCHANGED <<session, id, open>>
    BY <1>4 DEF Lookup, Reusable
  <2>2. TypeOK'
    BY <1>0, <2>1 DEF IInv, TypeOK
  <2>3. TableAgrees'
    BY <1>0, <2>1 DEF IInv, TypeOK, TableAgrees
  <2> QED
    BY <2>2, <2>3 DEF IInv
<1>5. CASE Swap(c)
  <2>1. session[c] \in Conns /\ yamux[session[c]] # "none"
    BY <1>5 DEF Swap, IInv, TypeOK, TableAgrees
  <2>2. TypeOK'
    BY <1>0, <1>5, <2>1 DEF Swap, IInv, TypeOK
  <2>3. TableAgrees'
    BY <1>5 DEF Swap, IInv, TypeOK, TableAgrees
  <2> QED
    BY <2>2, <2>3 DEF IInv
<1> QED
  BY <1>1, <1>2, <1>3, <1>4, <1>5

\* Connections close, yamux reads and ends, the accept loop removes the session by its id
\* (removeSession)
LEMMA SessionStep ==
    ASSUME IInv, NEW s \in Conns,
           CloseConn(s) \/ ReadReturns(s) \/ ReadFails(s) \/ WriteFails(s) \/ RemoveSession(s)
    PROVE  IInv'
<1>1. CASE CloseConn(s) \/ ReadReturns(s)
  <2>1. TypeOK'
    BY <1>1 DEF CloseConn, ReadReturns, handlerVars, IInv, TypeOK
  <2>2. TableAgrees'
    BY <1>1 DEF CloseConn, ReadReturns, handlerVars, IInv, TableAgrees
  <2> QED
    BY <2>1, <2>2 DEF IInv
<1>2. CASE EndSession(s)
  <2>1. TypeOK'
    BY <1>2 DEF EndSession, handlerVars, IInv, TypeOK
  <2>2. TableAgrees'
    BY <1>2 DEF EndSession, handlerVars, IInv, TypeOK, TableAgrees
  <2> QED
    BY <2>1, <2>2 DEF IInv
<1>3. CASE RemoveSession(s)
  <2>1. TypeOK'
    BY <1>3 DEF RemoveSession, handlerVars, IInv, TypeOK
  <2>2. TableAgrees'
    BY <1>3 DEF RemoveSession, handlerVars, IInv, TypeOK, TableAgrees
  <2> QED
    BY <2>1, <2>2 DEF IInv
<1> QED
  BY <1>1, <1>2, <1>3 DEF ReadFails, WriteFails

\* Every handler and every session keeps what IInv says (handleMTPConnection, removeSession)
THEOREM Invariance == Spec => []IInv
<1>1. ASSUME IInv, UNCHANGED vars PROVE IInv'
  BY <1>1 DEF vars, handlerVars, IInv, TypeOK, TableAgrees
<1>2. IInv /\ [Next]_vars => IInv'
  BY <1>1, HandlerStep, SessionStep DEF Next
<1> QED
  BY InitHolds, <1>2, PTL DEF Spec

\* The variables keep their types
THEOREM TypeCorrect == Spec => []TypeOK
<1>1. IInv => TypeOK
  BY DEF IInv
<1> QED
  BY Invariance, <1>1, PTL

\* A running session is always found under its id: removal by id takes the session that
\* ended and never a later one (handleMTPConnection, removeSession)
THEOREM RunningSessionListed == Spec => []RunningIsListed
<1>1. IInv => RunningIsListed
  BY DEF IInv, TableAgrees, RunningIsListed
<1> QED
  BY Invariance, <1>1, PTL
====
