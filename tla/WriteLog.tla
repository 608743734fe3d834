---- MODULE WriteLog ----
(***************************************************************************)
(* What the write path of a connection promises its writer while the       *)
(* transports below it are replaced: a call of Write reaches one transport *)
(* once, or is known to be lost, and what has become of it does not change *)
(* any more.  Nothing is promised of the order among several calls that    *)
(* are pending at the same time.                                           *)
(***************************************************************************)
EXTENDS Integers, Sequences

CONSTANT Transports

VARIABLES
    calls,     \* calls of Write so far
    log,       \* per transport: what was written on it
    lost,      \* calls whose data is given up
    cut        \* those of them of which a transport has the beginning

logVars == <<calls, log, lost, cut>>

Init == calls = 0 /\ log = [t \in Transports |-> << >>] /\ lost = {} /\ cut = {}

OnTransport(w) == \E t \in Transports : \E i \in 1..Len(log[t]) : log[t][i] = w

\* Calls of which nothing has become yet
Pending == {w \in 1..calls : w \notin lost /\ ~OnTransport(w)}

Call ==
    /\ calls' = calls + 1
    /\ UNCHANGED <<log, lost, cut>>

Transmit(w, t) ==
    /\ w \in Pending
    /\ log' = [log EXCEPT ![t] = Append(@, w)]
    /\ UNCHANGED <<calls, lost, cut>>

\* Of the calls that are given up together, one may have been on its way
GiveUp(S) ==
    /\ S \subseteq Pending
    /\ lost' = lost \cup S
    /\ cut' \in {cut} \cup {cut \cup {w} : w \in S}
    /\ UNCHANGED <<calls, log>>

Next ==
    \/ Call
    \/ \E w \in Pending, t \in Transports : Transmit(w, t)
    \/ \E S \in SUBSET Pending : GiveUp(S)

Spec == Init /\ [][Next]_logVars
====
