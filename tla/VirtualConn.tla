---- MODULE VirtualConn ----
(***************************************************************************)
(* The write path of a VirtualConn (pkg/transport/virtual_conn.go) while   *)
(* its transport is replaced: by SwapConnectionSeamless on the server,     *)
(* where every connection that roams to the session runs it in a goroutine *)
(* of its own, or by RotateTransport on the client                         *)
(* (pkg/transport/manager.go), which holds the manager's mutex.            *)
(*                                                                         *)
(* The writer is the one send goroutine of the yamux session; its writes   *)
(* are numbered.  Bug... is a mutated form of the definition after it.     *)
(***************************************************************************)
EXTENDS Integers, Sequences, FiniteSets, SequencesExt

CONSTANTS
    Rotators,      \* the goroutines that replace the transport, each once
    MaxWrites      \* bound: calls of Write

ASSUME VirtualConnAssumption == MaxWrites \in Nat

Original == "original"                \* the connection NewVirtualConn was given
ConnSet == Rotators \cup {Original}   \* a rotator brings a connection of its own

VARIABLES
    kind,       \* how this one rotates: "swap" (SwapConnectionSeamless), "migrate"
    conn,       \* v.conn
    swapping,   \* under swapMu
    swapBuf,    \* under swapMu
    writes,     \* calls of Write so far; the last one may still run
    writer,     \* "idle", "direct" (not buffered), "send" (connection captured)
    captured,   \* the connection Write captured
    rotator,    \* per rotator: "idle", "buffering", "moved", "failed", "replay", and how it
                \* ended: "done", "aborted" (Migrate failed), "refused" (a replay failed)
    buffered,   \* per rotator: the writes it took and has to replay
    wire,       \* per connection: the writes that went out on it
    dropped,    \* history: writes that were discarded, or failed
    torn,       \* history: those of them of which the beginning went out
    overlapped  \* history: a swap began while another one was buffering

writerVars == <<writes, writer, captured>>
lossVars == <<dropped, torn>>
vars == <<kind, conn, swapping, swapBuf, writerVars, rotator, buffered, wire, lossVars,
          overlapped>>

States == {"idle", "buffering", "moved", "failed", "replay", "done", "aborted", "refused"}

Init ==
    /\ kind \in {"swap", "migrate"}
    /\ conn = Original /\ swapping = FALSE /\ swapBuf = << >>
    /\ writes = 0 /\ writer = "idle" /\ captured = Original
    /\ rotator = [r \in Rotators |-> "idle"]
    /\ buffered = [r \in Rotators |-> << >>]
    /\ wire = [c \in ConnSet |-> << >>]
    /\ dropped = {} /\ torn = {} /\ overlapped = FALSE

-----------------------------------------------------------------------------
(* Write.                                                                  *)

BugWrite ==
    /\ writer = "idle" /\ writes < MaxWrites
    /\ writes' = writes + 1
    /\ \/ /\ swapping
          /\ swapBuf' = << writes' >> \o swapBuf
          /\ UNCHANGED writer
       \/ /\ ~swapping
          /\ writer' = "direct"
          /\ UNCHANGED swapBuf
    /\ UNCHANGED <<kind, conn, swapping, captured, rotator, buffered, wire, lossVars,
                   overlapped>>
\* A write during the swap is buffered and returns
Write ==
    /\ writer = "idle" /\ writes < MaxWrites
    /\ writes' = writes + 1
    /\ \/ /\ swapping
          /\ swapBuf' = Append(swapBuf, writes')
          /\ UNCHANGED writer
       \/ /\ ~swapping
          /\ writer' = "direct"
          /\ UNCHANGED swapBuf
    /\ UNCHANGED <<kind, conn, swapping, captured, rotator, buffered, wire, lossVars,
                   overlapped>>

\* conn := v.conn
Capture ==
    /\ writer = "direct"
    /\ captured' = conn
    /\ writer' = "send"
    /\ UNCHANGED <<kind, conn, swapping, swapBuf, writes, rotator, buffered, wire, lossVars,
                   overlapped>>

\* conn.Write, outside every lock: all of it goes out
Send ==
    /\ writer = "send"
    /\ wire' = [wire EXCEPT ![captured] = Append(@, writes)]
    /\ writer' = "idle"
    /\ UNCHANGED <<kind, conn, swapping, swapBuf, writes, captured, rotator, buffered,
                   lossVars, overlapped>>

\* conn.Write fails, perhaps after a part of the data went out
SendFails ==
    /\ writer = "send"
    /\ dropped' = dropped \cup {writes}
    /\ torn' \in {torn, torn \cup {writes}}
    /\ writer' = "idle"
    /\ UNCHANGED <<kind, conn, swapping, swapBuf, writes, captured, rotator, buffered, wire,
                   overlapped>>

-----------------------------------------------------------------------------
(* SwapConnectionSeamless and RotateTransport.                             *)

Active(r) == rotator[r] \notin {"idle", "done", "aborted", "refused"}

\* The rotations that buffer writes
Buffering(r) == rotator[r] \in {"buffering", "moved", "failed"}

\* swapBuf = nil
DiscardBuffer == swapBuf' = << >> /\ dropped' = dropped \cup ToSet(swapBuf) /\ UNCHANGED torn

\* Buffering starts with an empty buffer
Begin(r) ==
    /\ rotator[r] = "idle"
    /\ kind = "migrate" => \A q \in Rotators : ~Active(q)
    /\ swapping' = TRUE
    /\ DiscardBuffer
    /\ overlapped' = (overlapped \/ \E q \in Rotators : Buffering(q))
    /\ rotator' = [rotator EXCEPT ![r] = "buffering"]
    /\ UNCHANGED <<kind, conn, writerVars, buffered, wire>>

\* v.conn = newConn, or Migrate, which moves the socket below the connection or fails
Move(r) ==
    /\ rotator[r] = "buffering"
    /\ \/ /\ kind = "swap"
          /\ conn' = r
          /\ rotator' = [rotator EXCEPT ![r] = "moved"]
       \/ /\ kind = "migrate"
          /\ \E outcome \in {"moved", "failed"} :
                rotator' = [rotator EXCEPT ![r] = outcome]
          /\ UNCHANGED conn
    /\ UNCHANGED <<kind, swapping, swapBuf, writerVars, buffered, wire, lossVars,
                   overlapped>>

BugAbort(r) ==
    /\ rotator[r] = "failed"
    /\ DiscardBuffer
    /\ rotator' = [rotator EXCEPT ![r] = "aborted"]
    /\ UNCHANGED <<kind, conn, swapping, writerVars, buffered, wire, overlapped>>
\* A failed migration restores the write path
Abort(r) ==
    /\ rotator[r] = "failed"
    /\ swapping' = FALSE
    /\ DiscardBuffer
    /\ rotator' = [rotator EXCEPT ![r] = "aborted"]
    /\ UNCHANGED <<kind, conn, writerVars, buffered, wire, overlapped>>

BugTake(r) ==
    /\ rotator[r] = "moved"
    /\ swapping' = FALSE
    /\ buffered' = [buffered EXCEPT ![r] = swapBuf]
    /\ rotator' = [rotator EXCEPT ![r] = "replay"]
    /\ UNCHANGED <<kind, conn, swapBuf, writerVars, wire, lossVars, overlapped>>
\* Buffering ends; what was buffered is replayed after swapMu is released
Take(r) ==
    /\ rotator[r] = "moved"
    /\ swapping' = FALSE
    /\ buffered' = [buffered EXCEPT ![r] = swapBuf]
    /\ swapBuf' = << >>
    /\ rotator' = [rotator EXCEPT ![r] = "replay"]
    /\ UNCHANGED <<kind, conn, writerVars, wire, lossVars, overlapped>>

\* newConn.Write, or v.conn.Write after a migration
ReplayConn(r) == IF kind = "swap" THEN r ELSE conn

Replay(r) ==
    /\ rotator[r] = "replay" /\ buffered[r] # << >>
    /\ wire' = [wire EXCEPT ![ReplayConn(r)] = Append(@, Head(buffered[r]))]
    /\ buffered' = [buffered EXCEPT ![r] = Tail(@)]
    /\ UNCHANGED <<kind, conn, swapping, swapBuf, writerVars, rotator, lossVars, overlapped>>

BugReplayFails(r) ==
    /\ rotator[r] = "replay" /\ buffered[r] # << >>
    /\ dropped' = dropped \cup {Head(buffered[r])} /\ UNCHANGED torn
    /\ UNCHANGED <<kind, conn, swapping, swapBuf, writerVars, rotator, buffered, wire,
                   overlapped>>
\* The connection refuses, perhaps in the middle of a write: the rotation ends and the rest
\* of the buffer is not sent
ReplayFails(r) ==
    /\ rotator[r] = "replay" /\ buffered[r] # << >>
    /\ dropped' = dropped \cup ToSet(buffered[r])
    /\ torn' \in {torn, torn \cup {Head(buffered[r])}}
    /\ buffered' = [buffered EXCEPT ![r] = << >>]
    /\ rotator' = [rotator EXCEPT ![r] = "refused"]
    /\ UNCHANGED <<kind, conn, swapping, swapBuf, writerVars, wire, overlapped>>

Finish(r) ==
    /\ rotator[r] = "replay" /\ buffered[r] = << >>
    /\ rotator' = [rotator EXCEPT ![r] = "done"]
    /\ UNCHANGED <<kind, conn, swapping, swapBuf, writerVars, buffered, wire, lossVars,
                   overlapped>>

Rotate(r) == Move(r) \/ Abort(r) \/ Take(r) \/ Replay(r) \/ ReplayFails(r) \/ Finish(r)

Next ==
    \/ Write \/ Capture \/ Send \/ SendFails
    \/ \E r \in Rotators : Begin(r) \/ Rotate(r)

Spec == Init /\ [][Next]_vars

(* A Write and a rotation that have begun go on; Migrate ends with its       *)
(* timeouts.  Nobody has to write or to rotate.                            *)
Fairness == WF_vars(Capture \/ Send \/ SendFails) /\ \A r \in Rotators : WF_vars(Rotate(r))

FairSpec == Spec /\ Fairness

-----------------------------------------------------------------------------
(* Properties.                                                             *)

\* The variables keep their types (virtual_conn.go, manager.go)
TypeOK ==
    /\ kind \in {"swap", "migrate"}
    /\ conn \in ConnSet /\ swapping \in BOOLEAN /\ swapBuf \in Seq(1..writes)
    /\ writes \in 0..MaxWrites /\ writer \in {"idle", "direct", "send"} /\ captured \in ConnSet
    /\ rotator \in [Rotators -> States] /\ overlapped \in BOOLEAN
    /\ buffered \in [Rotators -> Seq(1..writes)] /\ wire \in [ConnSet -> Seq(1..writes)]
    /\ dropped \subseteq 1..writes /\ torn \subseteq dropped

\* The positions of write w in a queue, and all the places where it is
At(q, w) == {k \in 1..Len(q) : q[k] = w}
Places(w) ==
    ({"buffer"} \X At(swapBuf, w))
    \cup (UNION {{<<"replay", r>>} \X At(buffered[r], w) : r \in Rotators})
    \cup (UNION {{<<"wire", c>>} \X At(wire[c], w) : c \in ConnSet})
    \cup {p \in {"writer"} : writer # "idle" /\ w = writes}
    \cup {p \in {"dropped"} : w \in dropped}

\* Every write is in exactly one place, however rotations overlap: with the writer, in a
\* buffer, whole on one connection, or discarded; none is doubled and none vanishes
EachWriteOnce == \A w \in 1..writes : Cardinality(Places(w)) = 1

\* Seen by yamux, the path is a log of writes: a rotation is no more than a delay, or a loss of
\* what was buffered and is not yet on a connection, of which one write at most is cut in its
\* middle (Write, SwapConnectionSeamless, RotateTransport)
Log == INSTANCE WriteLog WITH
    Transports <- ConnSet, calls <- writes, log <- wire, lost <- dropped, cut <- torn

ImplementsLog == Log!Spec

\* When no rotation is under way the write path is open and nothing is left in the buffer,
\* whichever of two overlapping rotations ended first (SwapConnectionSeamless)
Restored == (\A r \in Rotators : ~Active(r)) => ~swapping /\ swapBuf = << >>

Ascending(q) == \A j, k \in 1..Len(q) : j < k => q[j] < q[k]

\* What a rotation replays, it replays in the order of the calls of Write, although the
\* buffer may be shared with another rotation (Write, SwapConnectionSeamless)
ReplayInOrder == \A r \in Rotators : Ascending(buffered[r])

\* What may cost a write that was buffered and reported as done
Cause == overlapped \/ \E r \in Rotators : rotator[r] \in {"aborted", "refused"}

\* A buffered write is sent in the end: it is only discarded after a Migrate that failed, a
\* replay that failed, or a swap that began during another one (virtual_conn.go:39: "Writes
\* during the swap are captured and replayed on the new connection")
BufferedIsSent ==
    \A w \in 1..MaxWrites :
        w \in ToSet(swapBuf) ~>
            \/ \E c \in ConnSet : w \in ToSet(wire[c])
            \/ w \in dropped /\ Cause
====
