---- MODULE OrderedStream ----
(***************************************************************************)
(* What one direction of an MTP connection promises the goroutine that     *)
(* reads it, whatever the network does: packets come out in the order in   *)
(* which Send accepted them, each at most once, and the reader only skips  *)
(* packets that are known to be lost.  A reader may also never see the     *)
(* next packet: the promise is one of order, not of delivery.              *)
(***************************************************************************)
EXTENDS Integers

VARIABLES
    accepted,    \* packets that Send accepted: 0 .. accepted - 1
    nextOut,     \* one past the last packet the reader got
    lost         \* packets that the reader will skip

streamVars == <<accepted, nextOut, lost>>

Init == accepted = 0 /\ nextOut = 0 /\ lost = {}

Accept ==
    /\ accepted' = accepted + 1
    /\ UNCHANGED <<nextOut, lost>>

\* A packet that was not read can still be lost
Lose(s) ==
    /\ s \in nextOut..(accepted - 1)
    /\ lost' = lost \cup {s}
    /\ UNCHANGED <<accepted, nextOut>>

\* The reader gets the oldest packet that is not lost
Emit(s) ==
    /\ s \in nextOut..(accepted - 1) /\ s \notin lost
    /\ nextOut..(s - 1) \subseteq lost
    /\ nextOut' = s + 1
    /\ UNCHANGED <<accepted, lost>>

Next ==
    \/ Accept
    \/ \E s \in nextOut..(accepted - 1) : Lose(s) \/ Emit(s)

Spec == Init /\ [][Next]_streamVars
====
