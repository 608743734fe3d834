---- MODULE FifoStream ----
(***************************************************************************)
(* What a connection promises the program that reads it as long as nothing *)
(* fails visibly: the units that were written, in the order in which they  *)
(* were written, each once and none left out.  The reader may stop before  *)
(* the end: the promise is one of content, not of delivery.                *)
(***************************************************************************)
EXTENDS Integers, Sequences

CONSTANT Unit

VARIABLES
    written,     \* what the writer has written
    received     \* what the reader has got of it

fifoVars == <<written, received>>

Init == written = <<>> /\ received = <<>>

Write(x) ==
    /\ written' = Append(written, x)
    /\ UNCHANGED received

\* The reader gets the unit after those it has
Read ==
    /\ Len(received) < Len(written)
    /\ received' = Append(received, written[Len(received) + 1])
    /\ UNCHANGED written

Next == Read \/ \E x \in Unit : Write(x)

Spec == Init /\ [][Next]_fifoVars
====
