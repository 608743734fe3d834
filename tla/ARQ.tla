---- MODULE ARQ ----
(***************************************************************************)
(* One direction of the MTP reliability layer (pkg/mtp/arq.go): the send   *)
(* half of one ARQEngine, the receive half of the engine of its peer, and  *)
(* the UDP network between them.  An engine holds both halves, but they    *)
(* share nothing except the closed flag: handleDATA never looks at the     *)
(* AckNum a DATA packet carries, so a connection is two independent copies *)
(* of this system.                                                         *)
(*                                                                         *)
(* A packet is its sequence number.  Time is abstracted: a packet "older   *)
(* than rto" is any packet in flight, and a timer fires at any moment      *)
(* while it is armed.  Pacing and the RTT and bandwidth estimates influence *)
(* only when things happen and which window target is computed.  Of FEC    *)
(* this module keeps what it does to sendMu: a Reconfigure that returns,   *)
(* waits for ever or panics (module FecReconfig shows when).               *)
(*                                                                         *)
(* An operator whose name starts with Bug is a mutated form of the         *)
(* definition that follows it, kept to show what the properties exclude.   *)
(***************************************************************************)
EXTENDS Integers, Sequences, FiniteSets

CONSTANTS
    Senders,              \* goroutines that call Send concurrently
    MaxSeq,               \* bound: packets ever sent (below 2^32: no wrap-around)
    InitWindow,           \* sendWindow of NewARQEngine (256)
    InitSsthresh,         \* ssthresh of NewARQEngine (1024)
    MinWindow,            \* floor of the congestion window (16)
    MaxWindow,            \* MaxWindowSize (2048)
    GrowStep,             \* smallest increase towards the BBR target (16)
    ShrinkStep,           \* smallest decrease towards the BBR target (8)
    MaxRetransmissions,   \* (8)
    DelayedACKThreshold,  \* (32)
    DeliverCap,           \* capacity of the delivered channel (4096)
    SACKLimit,            \* SACK blocks one ACK holds at most (32)
    StallLimit,           \* sleeps of 50ms in the 30s after which Send warns (600)
    MaxAcks,              \* bound: ACKs the network holds, a further one is lost
    MaxCallbacks          \* bound: delayed-ACK callbacks waiting for recvMu

ASSUME ConstantsAssumption ==
    /\ IsFiniteSet(Senders)
    /\ MaxSeq \in Nat /\ MaxAcks \in Nat /\ MaxCallbacks \in Nat \ {0}
    /\ MinWindow \in Nat \ {0} /\ MaxWindow \in Nat
    /\ InitWindow \in MinWindow..MaxWindow
    /\ InitSsthresh \in MinWindow..MaxWindow
    /\ GrowStep \in Nat \ {0} /\ ShrinkStep \in Nat \ {0}
    /\ MaxRetransmissions \in Nat
    /\ DelayedACKThreshold \in Nat \ {0}
    /\ DeliverCap \in Nat /\ SACKLimit \in Nat /\ StallLimit \in Nat

Seqs == 0..(MaxSeq - 1)
Window == MinWindow..MaxWindow

VARIABLES
    \* the sending engine, under sendMu
    sendSeq,          \* next sequence number to assign
    sendWindow,       \* congestion window
    ssthresh,         \* slow-start threshold
    unacked,          \* sequence number -> retries, for the packets in flight
    estimated,        \* minRTT > 0 /\ btlBw > 0: a sample set the BBR estimate
    senderClosed,     \* closed, of the sending engine
    sendLock,         \* sendMu: "free", "wedged" by a Reconfigure that never returns, or
                      \* "panicked": the process of the sending engine has ended
    \* the goroutines inside Send
    pc,               \* "idle", "waiting" for window, "transmit" outside the lock
    held,             \* the sequence number a goroutine is about to transmit
    naps,             \* 50ms sleeps of the current wait, up to StallLimit + 1
    \* the network
    dataNet,          \* DATA packets in the network
    ackNet,           \* ACK packets in the network
    \* the receiving engine, under recvMu
    recvNext,         \* next sequence number expected
    recvBuf,          \* packets received out of order
    draining,         \* handleDATA is inside its loop over recvBuf
    delivered,        \* the channel Read takes from
    unackedRecv,      \* packets received since the last ACK
    delayedACKTimer,  \* "nil", "armed", or "fired" and not yet cleared
    callbacks,        \* timer callbacks that wait for recvMu
    receiver,         \* "open", "closing" (closed is set), "closed"
    straggler,        \* a handler tested closed before Close set it, and goes on
    \* history
    nextRead,         \* one past the last packet Read returned
    overflowed,       \* packets that deliverPacket threw away
    abandoned         \* packets the retransmission loop gave up on

sendVars  == <<sendSeq, sendWindow, ssthresh, unacked, estimated, senderClosed,
              sendLock>>
procVars  == <<pc, held, naps>>
recvVars  == <<recvNext, recvBuf, draining, delivered, overflowed, receiver,
              straggler>>
ackVars   == <<unackedRecv, delayedACKTimer, callbacks>>
vars == <<sendVars, procVars, dataNet, ackNet, recvVars, ackVars,
          nextRead, abandoned>>

AckRecords == [ack : 0..MaxSeq, sack : SUBSET Seqs]

InFlight == DOMAIN unacked

Smaller(a, b) == IF a < b THEN a ELSE b
Larger(a, b)  == IF a > b THEN a ELSE b

Init ==
    /\ sendSeq = 0
    /\ sendWindow = InitWindow
    /\ ssthresh = InitSsthresh
    /\ unacked = [s \in {} |-> 0]
    /\ estimated = FALSE
    /\ senderClosed = FALSE /\ sendLock = "free"
    /\ pc = [t \in Senders |-> "idle"]
    /\ held = [t \in Senders |-> 0]
    /\ naps = [t \in Senders |-> 0]
    /\ dataNet = {} /\ ackNet = {}
    /\ recvNext = 0
    /\ recvBuf = {}
    /\ draining = FALSE
    /\ delivered = << >>
    /\ unackedRecv = 0
    /\ delayedACKTimer = "nil"
    /\ callbacks = 0
    /\ receiver = "open" /\ straggler = FALSE
    /\ nextRead = 0
    /\ overflowed = {} /\ abandoned = {}

-----------------------------------------------------------------------------
(* Send.  The window is tested under sendMu; a goroutine that finds it full *)
(* releases the lock, sleeps 50ms and tests again.  Past 30s the loop logs  *)
(* "forcing proceed", but the break after it leaves the select only, so the *)
(* loop condition decides as before.                                        *)

BugWindowFull ==
    Cardinality(InFlight) >= sendWindow /\ \A t \in Senders : naps[t] <= StallLimit
\* A packet enters unacked only once it is transmitted, after the lock was released
BugUnregistered ==
    Cardinality(InFlight \ {held[t] : t \in {u \in Senders : pc[u] = "transmit"}}) >= sendWindow
WindowFull == Cardinality(InFlight) >= sendWindow

\* unacked[seq] = inf
Register(s) ==
    [q \in InFlight \cup {s} |-> IF q = s THEN 0 ELSE unacked[q]]

\* seq := sendSeq++, registered in unacked before the lock is released
Assign(t) ==
    /\ ~WindowFull
    /\ unacked' = Register(sendSeq)
    /\ sendSeq' = sendSeq + 1
    /\ pc' = [pc EXCEPT ![t] = "transmit"]
    /\ held' = [held EXCEPT ![t] = sendSeq]
    /\ naps' = [naps EXCEPT ![t] = 0]

BlockedSenders == {t \in Senders : pc[t] = "waiting"}

\* Send is called, on an open engine (on a closed one it returns an error)
Send(t) ==
    /\ pc[t] = "idle" /\ sendLock = "free" /\ ~senderClosed
    /\ sendSeq + Cardinality(BlockedSenders) < MaxSeq
    /\ \/ Assign(t)
       \/ /\ WindowFull
          /\ pc' = [pc EXCEPT ![t] = "waiting"]
          /\ UNCHANGED <<sendSeq, unacked, held, naps>>
    /\ UNCHANGED <<sendWindow, ssthresh, estimated, senderClosed, sendLock, dataNet, ackNet,
                   recvVars, ackVars, nextRead, abandoned>>

\* The goroutine wakes up from its sleep and holds sendMu again
Recheck(t) ==
    /\ pc[t] = "waiting" /\ sendLock = "free"
    /\ \/ /\ ~senderClosed /\ sendSeq < MaxSeq
          /\ Assign(t)
       \/ /\ ~senderClosed /\ WindowFull
          /\ naps' = [naps EXCEPT ![t] = Smaller(@ + 1, StallLimit + 1)]
          /\ UNCHANGED <<sendSeq, unacked, pc, held>>
       \/ /\ senderClosed
          /\ pc' = [pc EXCEPT ![t] = "idle"]
          /\ naps' = [naps EXCEPT ![t] = 0]
          /\ UNCHANGED <<sendSeq, unacked, held>>
    /\ UNCHANGED <<sendWindow, ssthresh, estimated, senderClosed, sendLock, dataNet, ackNet,
                   recvVars, ackVars, nextRead, abandoned>>

\* pacer.Wait and sendFunc, after the lock is released; sendRaw refuses to
\* write once the connection is closed
Transmit(t) ==
    /\ pc[t] = "transmit" /\ sendLock # "panicked"
    /\ pc' = [pc EXCEPT ![t] = "idle"]
    /\ held' = [held EXCEPT ![t] = 0]
    /\ dataNet' = IF senderClosed THEN dataNet ELSE dataNet \cup {held[t]}
    /\ UNCHANGED <<sendVars, naps, ackNet, recvVars, ackVars, nextRead, abandoned>>

-----------------------------------------------------------------------------
(* The ACK handler.                                                        *)

BugCovered(a) == {s \in InFlight : s <= a.ack \/ s \in a.sack}
\* The packets the cumulative number and the SACK blocks remove from unacked
Covered(a) == {s \in InFlight : s < a.ack \/ s \in a.sack}

Shrunk == Larger(sendWindow - Larger(sendWindow \div 20, ShrinkStep), MinWindow)
Grown  == Smaller(sendWindow + Larger(sendWindow \div 10, GrowStep), MaxWindow)

\* Slow start until the bandwidth is estimated, then towards a BBR target
AdaptWindow ==
    \/ /\ estimated'
       /\ \E target \in Window :
             sendWindow' = CASE sendWindow < target -> Grown
                             [] sendWindow > target -> Shrunk
                             [] OTHER -> sendWindow
    \/ /\ ~estimated'
       /\ sendWindow' = Smaller(IF sendWindow < ssthresh THEN sendWindow * 2
                                                         ELSE sendWindow + 1,
                                MaxWindow)

\* Only a packet that was never retransmitted gives an RTT sample.  A new loss rate may
\* call for Reconfigure, which comes before the window and may never return
HandleACK(a) ==
    /\ a \in ackNet /\ sendLock = "free" /\ ~senderClosed
    /\ unacked' = [s \in InFlight \ Covered(a) |-> unacked[s]]
    /\ estimated' = (estimated \/ \E s \in Covered(a) : unacked[s] = 0)
    /\ \/ AdaptWindow /\ UNCHANGED sendLock
       \/ sendLock' = "wedged" /\ UNCHANGED sendWindow
    /\ ackNet' \in {ackNet, ackNet \ {a}}
    /\ UNCHANGED <<sendSeq, ssthresh, senderClosed, procVars, dataNet, recvVars,
                   ackVars, nextRead, abandoned>>

\* SetFECConfig on an open engine, when its Reconfigure does not return; one that returns
\* changes nothing here.  On a closed engine, which it does not look at, Reconfigure sends
\* on a closed channel; so does that of an ACK that tested closed before Close and finds
\* unacked empty
ReconfigureBySet ==
    /\ sendLock = "free"
    /\ sendLock' = IF senderClosed THEN "panicked" ELSE "wedged"
    /\ UNCHANGED <<sendSeq, sendWindow, ssthresh, unacked, estimated, senderClosed, procVars,
                   dataNet, ackNet, recvVars, ackVars, nextRead, abandoned>>

-----------------------------------------------------------------------------
(* One pass of the retransmission loop over the packets older than rto.    *)

BugRetried(late) == unacked
\* One more retry for each late packet; one over the limit leaves the map
Retried(late) ==
    [s \in {q \in InFlight : ~(q \in late /\ unacked[q] = MaxRetransmissions)} |->
        IF s \in late THEN unacked[s] + 1 ELSE unacked[s]]

BugLossWindow == (sendWindow * 85) \div 100
LossWindow == Larger((sendWindow * 85) \div 100, MinWindow)

\* Any late packet shrinks the window, once per pass
Retransmit(late) ==
    /\ sendLock = "free" /\ ~senderClosed
    /\ late \subseteq InFlight /\ late # {}
    /\ unacked' = Retried(late)
    /\ abandoned' = abandoned \cup (late \ DOMAIN unacked')
    /\ dataNet' = dataNet \cup (late \cap DOMAIN unacked')
    /\ ssthresh' = LossWindow
    /\ sendWindow' = ssthresh'
    /\ UNCHANGED <<sendSeq, estimated, senderClosed, sendLock, procVars, ackNet, recvVars,
                   ackVars, nextRead>>

\* Close of the sending engine, which needs sendMu: unacked = nil
CloseSender ==
    /\ sendLock = "free" /\ ~senderClosed
    /\ senderClosed' = TRUE
    /\ unacked' = [s \in {} |-> 0]
    /\ UNCHANGED <<sendSeq, sendWindow, ssthresh, estimated, sendLock, procVars, dataNet,
                   ackNet, recvVars, ackVars, nextRead, abandoned>>

-----------------------------------------------------------------------------
(* The receiving engine.                                                   *)

\* What sendACK reports: recvNext, and up to SACKLimit members of the buffer
\* in the random order of a Go map
AcksFor(next, buf) ==
    {[ack |-> next, sack |-> S] : S \in {B \in SUBSET buf :
        Cardinality(B) = Smaller(Cardinality(buf), SACKLimit)}}

\* sendACK through sendRaw, which refuses on a closed connection
SendACK(next, buf) ==
    \E a \in AcksFor(next, buf) :
        ackNet' = IF receiver = "open" /\ Cardinality(ackNet) < MaxAcks
                  THEN ackNet \cup {a} ELSE ackNet

\* flushACK: Stop does not recall a callback that already waits for recvMu
FlushACK(next, buf) ==
    delayedACKTimer' = "nil" /\ unackedRecv' = 0 /\ SendACK(next, buf)

AckDue(outOfOrder) == unackedRecv + 1 >= DelayedACKThreshold \/ outOfOrder

BugAckOrArm(next, buf, outOfOrder) ==
    \/ AckDue(outOfOrder) /\ FlushACK(next, buf)
    \/ /\ ~AckDue(outOfOrder)
       /\ unackedRecv' = unackedRecv + 1
       /\ UNCHANGED <<delayedACKTimer, ackNet>>
\* The end of handleDATA: acknowledge at the threshold or on a gap, otherwise
\* make sure that the delayed-ACK timer runs
AckOrArm(next, buf, outOfOrder) ==
    \/ AckDue(outOfOrder) /\ FlushACK(next, buf)
    \/ /\ ~AckDue(outOfOrder)
       /\ unackedRecv' = unackedRecv + 1
       /\ delayedACKTimer' = IF delayedACKTimer = "nil" THEN "armed" ELSE delayedACKTimer
       /\ UNCHANGED ackNet

\* deliverPacket: a non-blocking send on the channel.  When the channel is full
\* or the engine is closed the packet is gone
Deliver(s) ==
    IF receiver = "open" /\ Len(delivered) < DeliverCap
    THEN delivered' = Append(delivered, s) /\ UNCHANGED overflowed
    ELSE overflowed' = overflowed \cup {s} /\ UNCHANGED delivered

BugAdvance(buf) ==
    LET next == IF buf = {} THEN recvNext + 1 ELSE CHOOSE q \in buf : \A p \in buf : q <= p
    IN  /\ recvNext' = next
        /\ recvBuf' = buf
        /\ draining' = (next \in buf)
        /\ IF next \in buf THEN UNCHANGED <<unackedRecv, delayedACKTimer, ackNet>>
                          ELSE AckOrArm(next, buf, FALSE)
\* Advance recvNext past the packet just delivered.  While recvBuf holds the next
\* one the handler stays in its loop, with recvMu held; Read is not excluded by
\* recvMu and may take from the channel meanwhile
Advance(buf) ==
    /\ recvNext' = recvNext + 1
    /\ recvBuf' = buf
    /\ draining' = (recvNext + 1 \in buf)
    /\ IF recvNext + 1 \in buf
       THEN UNCHANGED <<unackedRecv, delayedACKTimer, ackNet>>
       ELSE AckOrArm(recvNext + 1, buf, FALSE)

\* seq < recvNext
IsDuplicate(s) == s < recvNext

\* HandlePacket tests closed before it waits for recvMu
HandleDATA(s) ==
    /\ s \in dataNet /\ ~draining /\ (receiver = "open" \/ straggler)
    /\ straggler' = FALSE
    /\ \/ /\ s = recvNext
          /\ Deliver(s)
          /\ Advance(recvBuf)
       \/ /\ s # recvNext /\ ~IsDuplicate(s)
          /\ recvBuf' = recvBuf \cup {s}
          /\ AckOrArm(recvNext, recvBuf \cup {s}, TRUE)
          /\ UNCHANGED <<recvNext, draining, delivered, overflowed>>
       \/ /\ IsDuplicate(s)
          /\ AckOrArm(recvNext, recvBuf, FALSE)
          /\ UNCHANGED <<recvNext, recvBuf, draining, delivered, overflowed>>
    /\ dataNet' \in {dataNet, dataNet \ {s}}
    /\ UNCHANGED <<sendVars, procVars, callbacks, receiver, nextRead, abandoned>>

\* One turn of the loop that empties recvBuf
DrainRecvBuf ==
    /\ draining
    /\ Deliver(recvNext)
    /\ Advance(recvBuf \ {recvNext})
    /\ UNCHANGED <<sendVars, procVars, dataNet, callbacks, receiver, straggler, nextRead,
                   abandoned>>

\* The runtime starts the callback of the timer, which has to wait for recvMu
TimerFires ==
    /\ delayedACKTimer = "armed" /\ callbacks < MaxCallbacks
    /\ delayedACKTimer' = "fired"
    /\ callbacks' = callbacks + 1
    /\ UNCHANGED <<sendVars, procVars, dataNet, ackNet, recvVars, unackedRecv,
                   nextRead, abandoned>>

\* The callback holds recvMu: flushACK, whichever timer is current by then
DelayedACK ==
    /\ callbacks > 0 /\ ~draining
    /\ callbacks' = callbacks - 1
    /\ FlushACK(recvNext, recvBuf)
    /\ UNCHANGED <<sendVars, procVars, dataNet, recvVars, nextRead, abandoned>>

\* Close of the receiving engine sets closed under that engine's sendMu, so that it can
\* overtake a handler that holds recvMu; it may also never get that lock ...
CloseReceiver ==
    /\ receiver = "open"
    /\ receiver' = "closing"
    /\ straggler' \in {FALSE, ~draining}
    /\ UNCHANGED <<sendVars, procVars, dataNet, ackNet, recvNext, recvBuf, draining,
                   delivered, overflowed, ackVars, nextRead, abandoned>>

\* ... and stops the delayed-ACK timer under recvMu
CloseTimer ==
    /\ receiver = "closing" /\ ~draining
    /\ receiver' = "closed"
    /\ delayedACKTimer' = "nil"
    /\ UNCHANGED <<sendVars, procVars, dataNet, ackNet, recvNext, recvBuf, draining,
                   delivered, overflowed, straggler, unackedRecv, callbacks, nextRead,
                   abandoned>>

\* A receive on the delivered channel; a closed channel still yields its contents
Read ==
    /\ delivered # << >>
    /\ nextRead' = Head(delivered) + 1
    /\ delivered' = Tail(delivered)
    /\ UNCHANGED <<sendVars, procVars, dataNet, ackNet, recvNext, recvBuf, draining,
                   overflowed, receiver, straggler, ackVars, abandoned>>

-----------------------------------------------------------------------------
(* The network: packets are lost, reordered and duplicated.  A packet a     *)
(* handler leaves in the network is a packet that arrives once more.        *)

LoseDATA(s) ==
    /\ s \in dataNet
    /\ dataNet' = dataNet \ {s}
    /\ UNCHANGED <<sendVars, procVars, ackNet, recvVars, ackVars, nextRead, abandoned>>

LoseACK(a) ==
    /\ a \in ackNet
    /\ ackNet' = ackNet \ {a}
    /\ UNCHANGED <<sendVars, procVars, dataNet, recvVars, ackVars, nextRead, abandoned>>

Next ==
    \/ \E t \in Senders : Send(t) \/ Recheck(t) \/ Transmit(t)
    \/ \E a \in ackNet : HandleACK(a) \/ LoseACK(a)
    \/ \E late \in SUBSET InFlight : Retransmit(late)
    \/ \E s \in dataNet : HandleDATA(s) \/ LoseDATA(s)
    \/ DrainRecvBuf \/ TimerFires \/ DelayedACK
    \/ ReconfigureBySet \/ CloseSender \/ CloseReceiver \/ CloseTimer
    \/ Read

Spec == Init /\ [][Next]_vars

(* The runtime runs every goroutine that can run and every timer that is    *)
(* due; the loop period is rto / 4 and rto at most 5s, so a packet that     *)
(* stays in flight is late in the end, and a holder of sendMu that returns  *)
(* does so in the step that took it.  Nothing is assumed of the network, of *)
(* the callers of Send, Read, SetFECConfig or Close, or of Reconfigure.     *)
Fairness ==
    /\ \A t \in Senders : WF_vars(Recheck(t)) /\ WF_vars(Transmit(t))
    /\ \A s \in Seqs : WF_vars(\E late \in SUBSET InFlight : s \in late /\ Retransmit(late))
    /\ WF_vars(DrainRecvBuf) /\ WF_vars(TimerFires) /\ WF_vars(DelayedACK)

FairSpec == Spec /\ Fairness

-----------------------------------------------------------------------------
(* Properties.                                                             *)

\* Every variable keeps its type; a window never leaves [16, 2048] and the
\* channel never exceeds its capacity (arq.go)
TypeOK ==
    /\ sendSeq \in 0..MaxSeq
    /\ sendWindow \in Window /\ ssthresh \in Window
    /\ InFlight \subseteq 0..(sendSeq - 1)
    /\ unacked \in [InFlight -> 0..MaxRetransmissions]
    /\ estimated \in BOOLEAN /\ senderClosed \in BOOLEAN
    /\ sendLock \in {"free", "wedged", "panicked"}
    /\ pc \in [Senders -> {"idle", "waiting", "transmit"}]
    /\ held \in [Senders -> 0..MaxSeq]
    /\ naps \in [Senders -> 0..(StallLimit + 1)]
    /\ dataNet \subseteq Seqs
    /\ ackNet \subseteq AckRecords
    /\ recvNext \in 0..MaxSeq
    /\ recvBuf \subseteq Seqs
    /\ draining \in BOOLEAN
    /\ delivered \in Seq(Seqs) /\ Len(delivered) <= DeliverCap
    /\ unackedRecv \in Nat
    /\ delayedACKTimer \in {"nil", "armed", "fired"}
    /\ callbacks \in 0..MaxCallbacks
    /\ receiver \in {"open", "closing", "closed"} /\ straggler \in BOOLEAN
    /\ nextRead \in 0..MaxSeq
    /\ overflowed \subseteq Seqs /\ abandoned \subseteq Seqs

\* What the receiving engine has taken over
Received == {s \in Seqs : s < recvNext \/ s \in recvBuf}

\* A packet that Send accepted is in flight, received, or was given up after
\* MaxRetransmissions; no interleaving of late, repeated and reordered ACKs
\* makes handleACK forget one that did not arrive
NoSilentLoss ==
    ~senderClosed =>
        \A s \in 0..(sendSeq - 1) : s \in InFlight \cup Received \cup abandoned

\* No ACK in the network claims a packet that the receiver does not have (sendACK)
AcksAreTrue == \A a \in ackNet : \A s \in Seqs : s < a.ack \/ s \in a.sack => s \in Received

\* The reorder buffer holds packets ahead of the gap only, and a gap that was
\* filled is drained before the lock is released (handleDATA)
RecvBufAhead ==
    /\ \A s \in recvBuf : s >= recvNext
    /\ draining <=> recvNext \in recvBuf

\* The channel holds packets in order, past what was read; each packet between the
\* reader and recvNext is in the channel or was thrown away, never both
DeliveredInOrder ==
    /\ \A i \in 1..Len(delivered) :
          /\ delivered[i] \in nextRead..(recvNext - 1) /\ delivered[i] \notin overflowed
          /\ \A j \in 1..(i - 1) : delivered[j] < delivered[i]
    /\ \A s \in nextRead..(recvNext - 1) :
          s \in overflowed \/ \E i \in 1..Len(delivered) : delivered[i] = s

\* A packet not yet acknowledged is never left without a timer, even when a stale
\* callback clears the timer of a later packet (handleDATA, flushACK)
PendingAckHasTimer ==
    /\ receiver = "open" /\ ~draining /\ unackedRecv > 0 => delayedACKTimer # "nil"
    /\ delayedACKTimer = "fired" => callbacks > 0

\* Nothing is received, buffered or about to be sent that Send did not number
OnlySentPackets ==
    /\ \A t \in Senders : pc[t] = "transmit" => held[t] < sendSeq
    /\ dataNet \cup recvBuf \subseteq 0..(sendSeq - 1)
    /\ nextRead <= recvNext /\ recvNext <= sendSeq
    /\ overflowed \subseteq 0..(recvNext - 1)

\* The invariant that is inductive: the conjuncts above support each other
IInv ==
    /\ TypeOK /\ OnlySentPackets /\ AcksAreTrue /\ RecvBufAhead
    /\ DeliveredInOrder /\ PendingAckHasTimer /\ NoSilentLoss

\* What the reader sees is an ordered stream: processes, windows, ACKs and
\* retransmissions are its implementation
Stream == INSTANCE OrderedStream WITH
              accepted <- sendSeq, nextOut <- nextRead, lost <- overflowed

\* The engines implement the ordered stream (Send, deliverPacket, Read)
ImplementsStream == Stream!Spec

\* Concurrent senders that saw the window full, slept and all find room once an ACK or a
\* timeout has made some never bring more packets in flight than the largest window (Send)
InFlightBounded == Cardinality(InFlight) <= MaxWindow

\* Nobody gets sendMu any more (Reconfigure)
SendLockGone == sendLock # "free"

\* Every packet leaves the window: acknowledged or given up, whatever is lost
InFlightResolved == \A s \in Seqs : s \in InFlight ~> (s \notin InFlight \/ SendLockGone)

\* A Send that waits for window space returns, whatever is lost
BlockedSendReturns ==
    \A t \in Senders : pc[t] = "waiting" ~> (pc[t] # "waiting" \/ SendLockGone)

\* With every ACK lost, and with a window that losses cut down, the flight still empties and
\* makes room for the Send that waits, unless a Reconfigure keeps sendMu for ever or ends the
\* process (retransmissionLoop, Send)
SendersServed == InFlightResolved /\ BlockedSendReturns

\* A received packet is acknowledged, unless the engine closes
ReceivedIsAcknowledged == unackedRecv > 0 ~> (unackedRecv = 0 \/ receiver # "open")
====
