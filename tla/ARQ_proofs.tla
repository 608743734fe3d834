---- MODULE ARQ_proofs ----
(***************************************************************************)
(* Proofs about one ARQEngine for every value of the constants: module ARQ *)
(* first, whose IInv is shown inductive one conjunct at a time, each in a  *)
(* lemma of its own, then the engine's FEC coders, module FecReconfig.     *)
(***************************************************************************)
EXTENDS ARQ, FecReconfig, FiniteSetTheorems, SequenceTheorems, TLAPS

\* The goroutines that wait in Send are finitely many
LEMMA BlockedFinite ==
    ASSUME TypeOK
    PROVE  Cardinality(BlockedSenders) \in Nat
<1>1. IsFiniteSet(BlockedSenders)
  BY ConstantsAssumption, FS_Subset DEF BlockedSenders
<1> QED
  BY <1>1, FS_CardinalityType

\* The new window of handleACK stays between the floor and the ceiling
LEMMA AdaptWindowType ==
    ASSUME sendWindow \in Window, AdaptWindow
    PROVE  sendWindow' \in Window
<1> USE ConstantsAssumption DEF Window
<1>1. Shrunk \in Window /\ Grown \in Window
  BY DEF Shrunk, Grown, Larger, Smaller
<1>2. Smaller(sendWindow * 2, MaxWindow) \in Window
  BY DEF Smaller
<1>3. Smaller(sendWindow + 1, MaxWindow) \in Window
  BY DEF Smaller
<1>4. CASE estimated'
  BY <1>1, <1>4 DEF AdaptWindow
<1>5. CASE ~estimated'
  BY <1>2, <1>3, <1>5 DEF AdaptWindow
<1> QED
  BY <1>4, <1>5

\* Send and the end of its wait number a packet only below the bound
LEMMA AssignType ==
    ASSUME TypeOK, NEW t \in Senders, Assign(t), sendSeq < MaxSeq
    PROVE  /\ sendSeq' \in 0..MaxSeq
           /\ InFlight' \subseteq 0..(sendSeq' - 1)
           /\ unacked' \in [InFlight' -> 0..MaxRetransmissions]
           /\ pc' \in [Senders -> {"idle", "waiting", "transmit"}]
           /\ held' \in [Senders -> 0..MaxSeq]
           /\ naps' \in [Senders -> 0..(StallLimit + 1)]
<1>1. InFlight' = InFlight \cup {sendSeq}
  BY DEF Assign, Register, InFlight
<1>2. sendSeq \in Nat /\ sendSeq' = sendSeq + 1 /\ sendSeq' \in 0..MaxSeq
  BY ConstantsAssumption DEF TypeOK, Assign
<1>3. InFlight' \subseteq 0..(sendSeq' - 1)
  BY <1>1, <1>2 DEF TypeOK
<1>4. unacked' \in [InFlight' -> 0..MaxRetransmissions]
  <2>1. unacked' = [q \in InFlight' |-> IF q = sendSeq THEN 0 ELSE unacked[q]]
    BY <1>1 DEF Assign, Register
  <2>2. \A q \in InFlight' : q # sendSeq => unacked[q] \in 0..MaxRetransmissions
    BY <1>1 DEF TypeOK
  <2> QED
    BY <2>1, <2>2, ConstantsAssumption
<1>5. naps' \in [Senders -> 0..(StallLimit + 1)] /\ held' \in [Senders -> 0..MaxSeq]
  BY <1>2, ConstantsAssumption DEF Assign, TypeOK
<1>6. pc' \in [Senders -> {"idle", "waiting", "transmit"}]
  BY DEF Assign, TypeOK
<1> QED
  BY <1>2, <1>3, <1>4, <1>5, <1>6

\* An ACK sent by flushACK is a well-formed ACK and clears timer and counter
LEMMA FlushType ==
    ASSUME NEW next \in 0..MaxSeq, NEW buf \in SUBSET Seqs, FlushACK(next, buf),
           ackNet \subseteq AckRecords
    PROVE  /\ delayedACKTimer' = "nil" /\ unackedRecv' = 0
           /\ ackNet' \subseteq AckRecords
<1>1. AcksFor(next, buf) \subseteq AckRecords
  BY DEF AcksFor, AckRecords
<1> QED
  BY <1>1 DEF FlushACK, SendACK

\* The end of handleDATA, flush or arm, keeps the timer, the counter and the ACKs typed
LEMMA AckOrArmType ==
    ASSUME NEW next \in 0..MaxSeq, NEW buf \in SUBSET Seqs, NEW gap \in BOOLEAN,
           AckOrArm(next, buf, gap), TypeOK
    PROVE  /\ delayedACKTimer' \in {"nil", "armed", "fired"}
           /\ unackedRecv' \in Nat
           /\ ackNet' \subseteq AckRecords
<1>1. CASE FlushACK(next, buf)
  BY <1>1, FlushType DEF TypeOK
<1>2. CASE /\ unackedRecv' = unackedRecv + 1
           /\ delayedACKTimer' = IF delayedACKTimer = "nil" THEN "armed" ELSE delayedACKTimer
           /\ UNCHANGED ackNet
  BY <1>2 DEF TypeOK
<1> QED
  BY <1>1, <1>2 DEF AckOrArm

\* deliverPacket never exceeds the capacity of the delivered channel
LEMMA DeliverType ==
    ASSUME TypeOK, NEW s \in Seqs, Deliver(s)
    PROVE  /\ delivered' \in Seq(Seqs) /\ Len(delivered') <= DeliverCap
           /\ overflowed' \subseteq Seqs
<1>1. CASE receiver = "open" /\ Len(delivered) < DeliverCap
  <2>1. delivered \in Seq(Seqs) /\ delivered' = Append(delivered, s) /\ overflowed' = overflowed
    BY <1>1 DEF Deliver, TypeOK
  <2>2. delivered' \in Seq(Seqs) /\ Len(delivered') = Len(delivered) + 1
    BY <2>1
  <2> QED
    BY <1>1, <2>1, <2>2, ConstantsAssumption DEF TypeOK
<1>2. CASE ~(receiver = "open" /\ Len(delivered) < DeliverCap)
  BY <1>2 DEF Deliver, TypeOK
<1> QED
  BY <1>1, <1>2

\* Moving recvNext past a delivered packet keeps the receive half typed (handleDATA)
LEMMA AdvanceType ==
    ASSUME TypeOK, NEW buf \in SUBSET Seqs, Advance(buf), recvNext \in Seqs
    PROVE  /\ recvNext' \in 0..MaxSeq /\ recvBuf' \subseteq Seqs /\ draining' \in BOOLEAN
           /\ delayedACKTimer' \in {"nil", "armed", "fired"}
           /\ unackedRecv' \in Nat
           /\ ackNet' \subseteq AckRecords
<1>1. recvNext + 1 \in 0..MaxSeq
  BY ConstantsAssumption DEF Seqs
<1>2. CASE recvNext + 1 \in buf
  BY <1>1, <1>2 DEF Advance, TypeOK
<1>3. CASE recvNext + 1 \notin buf
  <2>1. AckOrArm(recvNext + 1, buf, FALSE)
    BY <1>3, Zenon DEF Advance
  <2>3. recvNext' = recvNext + 1 /\ recvBuf' = buf /\ draining' \in BOOLEAN
    BY DEF Advance
  <2>2. /\ delayedACKTimer' \in {"nil", "armed", "fired"} /\ unackedRecv' \in Nat
        /\ ackNet' \subseteq AckRecords
    BY <1>1, <2>1, AckOrArmType, Zenon
  <2> QED
    BY <1>1, <2>2, <2>3
<1> QED
  BY <1>2, <1>3

-----------------------------------------------------------------------------
\* Type correctness is preserved by every step (all of arq.go)
LEMMA TypeStep ==
    ASSUME IInv, [Next]_vars
    PROVE  TypeOK'
<1> USE DEF IInv
<1>1. ASSUME NEW t \in Senders, Send(t) PROVE TypeOK'
  <2>1. CASE Assign(t)
    <3>1. sendSeq < MaxSeq
      <4>1. sendSeq + Cardinality(BlockedSenders) < MaxSeq
        BY <1>1 DEF Send
      <4>2. Cardinality(BlockedSenders) \in Nat /\ sendSeq \in Nat
        BY BlockedFinite DEF TypeOK
      <4> QED
        BY <4>1, <4>2, ConstantsAssumption
    <3>2. UNCHANGED <<sendWindow, ssthresh, estimated, senderClosed, sendLock, dataNet, ackNet,
                      recvVars, ackVars, nextRead, abandoned>>
      BY <1>1 DEF Send
    <3> QED
      BY <2>1, <3>1, <3>2, AssignType, SMTT(60) DEF recvVars, ackVars, TypeOK
  <2>2. CASE pc' = [pc EXCEPT ![t] = "waiting"] /\ UNCHANGED <<sendSeq, unacked, held, naps>>
    BY <1>1, <2>2 DEF Send, recvVars, ackVars, TypeOK, InFlight
  <2> QED
    BY <1>1, <2>1, <2>2 DEF Send
<1>2. ASSUME NEW t \in Senders, Recheck(t) PROVE TypeOK'
  <2>1. CASE sendSeq < MaxSeq /\ Assign(t)
    BY <1>2, <2>1, AssignType DEF Recheck, recvVars, ackVars, TypeOK
  <2>2. CASE /\ naps' = [naps EXCEPT ![t] = Smaller(@ + 1, StallLimit + 1)]
             /\ UNCHANGED <<sendSeq, unacked, pc, held>>
    <3>1. naps' \in [Senders -> 0..(StallLimit + 1)]
      BY <2>2, ConstantsAssumption DEF TypeOK, Smaller
    <3> QED
      BY <1>2, <2>2, <3>1 DEF Recheck, recvVars, ackVars, TypeOK, InFlight
  <2>3. CASE /\ pc' = [pc EXCEPT ![t] = "idle"]
             /\ naps' = [naps EXCEPT ![t] = 0]
             /\ UNCHANGED <<sendSeq, unacked, held>>
    <3>1. naps' \in [Senders -> 0..(StallLimit + 1)]
      BY <2>3, ConstantsAssumption DEF TypeOK
    <3> QED
      BY <1>2, <2>3, <3>1 DEF Recheck, recvVars, ackVars, TypeOK, InFlight
  <2> QED
    BY <1>2, <2>1, <2>2, <2>3 DEF Recheck
<1>3. ASSUME NEW t \in Senders, Transmit(t) PROVE TypeOK'
  <2>1. held[t] \in Seqs
    BY <1>3, ConstantsAssumption DEF Transmit, TypeOK, OnlySentPackets, Seqs
  <2>2. held' \in [Senders -> 0..MaxSeq] /\ dataNet' \subseteq Seqs
    BY <1>3, <2>1, ConstantsAssumption DEF Transmit, TypeOK
  <2> QED
    BY <1>3, <2>2 DEF Transmit, sendVars, recvVars, ackVars, TypeOK, InFlight
<1>4. ASSUME NEW a \in ackNet, HandleACK(a) PROVE TypeOK'
  <2>1. sendWindow' \in Window
    BY <1>4, AdaptWindowType DEF HandleACK, TypeOK
  <2>2. /\ InFlight' \subseteq 0..(sendSeq - 1)
        /\ unacked' \in [InFlight' -> 0..MaxRetransmissions]
    BY <1>4 DEF HandleACK, TypeOK, InFlight
  <2> QED
    BY <1>4, <2>1, <2>2 DEF HandleACK, procVars, recvVars, ackVars, TypeOK
<1>5. ASSUME NEW late \in SUBSET InFlight, Retransmit(late) PROVE TypeOK'
  <2>1. ssthresh' \in Window /\ sendWindow' \in Window
    BY <1>5, ConstantsAssumption DEF Retransmit, LossWindow, TypeOK, Window, Larger
  <2>2. /\ InFlight' \subseteq InFlight
        /\ unacked' \in [InFlight' -> 0..MaxRetransmissions]
    <3>1. InFlight' = {q \in InFlight : ~(q \in late /\ unacked[q] = MaxRetransmissions)}
      BY <1>5 DEF Retransmit, Retried, InFlight
    <3>2. unacked' = [s \in InFlight' |-> IF s \in late THEN unacked[s] + 1 ELSE unacked[s]]
      BY <1>5, <3>1 DEF Retransmit, Retried
    <3>3. ASSUME NEW s \in InFlight'
          PROVE  (IF s \in late THEN unacked[s] + 1 ELSE unacked[s]) \in 0..MaxRetransmissions
      BY <3>1, <3>3, ConstantsAssumption DEF TypeOK
    <3> QED
      BY <3>1, <3>2, <3>3
  <2>3. InFlight \subseteq Seqs
    BY ConstantsAssumption DEF TypeOK, Seqs
  <2>4. dataNet' \subseteq Seqs /\ abandoned' \subseteq Seqs
    BY <1>5, <2>3 DEF Retransmit, TypeOK
  <2> QED
    BY <1>5, <2>1, <2>2, <2>4 DEF Retransmit, procVars, recvVars, ackVars, TypeOK
<1>6. ASSUME CloseSender \/ ReconfigureBySet PROVE TypeOK'
  BY <1>6 DEF CloseSender, ReconfigureBySet, procVars, recvVars, ackVars, TypeOK, InFlight
<1>7. ASSUME NEW s \in dataNet, HandleDATA(s) PROVE TypeOK'
  <2>1. s \in Seqs
    BY DEF TypeOK
  <2>2. /\ recvNext' \in 0..MaxSeq /\ recvBuf' \subseteq Seqs /\ draining' \in BOOLEAN
        /\ delivered' \in Seq(Seqs) /\ Len(delivered') <= DeliverCap
        /\ overflowed' \subseteq Seqs
        /\ delayedACKTimer' \in {"nil", "armed", "fired"}
        /\ unackedRecv' \in Nat
        /\ ackNet' \subseteq AckRecords
    <3>1. CASE s = recvNext /\ Deliver(s) /\ Advance(recvBuf)
      BY <2>1, <3>1, DeliverType, AdvanceType DEF TypeOK
    <3>2. CASE /\ recvBuf' = recvBuf \cup {s}
               /\ AckOrArm(recvNext, recvBuf \cup {s}, TRUE)
               /\ UNCHANGED <<recvNext, draining, delivered, overflowed>>
      <4>1. recvNext \in 0..MaxSeq /\ recvBuf \cup {s} \in SUBSET Seqs
        BY <2>1 DEF TypeOK
      <4>2. /\ delayedACKTimer' \in {"nil", "armed", "fired"} /\ unackedRecv' \in Nat
            /\ ackNet' \subseteq AckRecords
        BY <3>2, <4>1, AckOrArmType, Zenon
      <4> QED
        BY <3>2, <4>1, <4>2 DEF TypeOK
    <3>3. CASE /\ AckOrArm(recvNext, recvBuf, FALSE)
               /\ UNCHANGED <<recvNext, recvBuf, draining, delivered, overflowed>>
      <4>1. recvNext \in 0..MaxSeq /\ recvBuf \in SUBSET Seqs
        BY DEF TypeOK
      <4>2. /\ delayedACKTimer' \in {"nil", "armed", "fired"} /\ unackedRecv' \in Nat
            /\ ackNet' \subseteq AckRecords
        BY <3>3, <4>1, AckOrArmType, Zenon
      <4> QED
        BY <3>3, <4>1, <4>2 DEF TypeOK
    <3> QED
      BY <1>7, <3>1, <3>2, <3>3, Zenon DEF HandleDATA
  <2>3. /\ dataNet' \subseteq Seqs /\ straggler' = FALSE
        /\ UNCHANGED <<sendVars, procVars, callbacks, receiver, nextRead, abandoned>>
    BY <1>7 DEF HandleDATA, TypeOK
  <2> QED
    BY <2>2, <2>3 DEF sendVars, procVars, TypeOK, InFlight
<1>8. ASSUME DrainRecvBuf PROVE TypeOK'
  <2>1. recvNext \in Seqs /\ recvBuf \ {recvNext} \in SUBSET Seqs
    BY <1>8 DEF DrainRecvBuf, RecvBufAhead, TypeOK
  <2>2. Deliver(recvNext) /\ Advance(recvBuf \ {recvNext})
    BY <1>8 DEF DrainRecvBuf
  <2>3. /\ recvNext' \in 0..MaxSeq /\ recvBuf' \subseteq Seqs /\ draining' \in BOOLEAN
        /\ delayedACKTimer' \in {"nil", "armed", "fired"}
        /\ unackedRecv' \in Nat
        /\ ackNet' \subseteq AckRecords
    BY <2>1, <2>2, AdvanceType
  <2>4. /\ delivered' \in Seq(Seqs) /\ Len(delivered') <= DeliverCap
        /\ overflowed' \subseteq Seqs
    BY <2>1, <2>2, DeliverType
  <2> QED
    BY <1>8, <2>3, <2>4 DEF DrainRecvBuf, sendVars, procVars, TypeOK, InFlight
<1>9. ASSUME TimerFires PROVE TypeOK'
  <2>1. callbacks' \in 0..MaxCallbacks
    BY <1>9, ConstantsAssumption DEF TimerFires, TypeOK
  <2> QED
    BY <1>9, <2>1 DEF TimerFires, sendVars, procVars, recvVars, TypeOK, InFlight
<1>10. ASSUME DelayedACK PROVE TypeOK'
  <2>1. recvNext \in 0..MaxSeq /\ recvBuf \in SUBSET Seqs /\ ackNet \subseteq AckRecords
    BY DEF TypeOK
  <2>2. /\ delayedACKTimer' = "nil" /\ unackedRecv' = 0 /\ ackNet' \subseteq AckRecords
    BY <1>10, <2>1, FlushType DEF DelayedACK
  <2>3. callbacks' \in 0..MaxCallbacks
    BY <1>10, ConstantsAssumption DEF DelayedACK, TypeOK
  <2> QED
    BY <1>10, <2>2, <2>3 DEF DelayedACK, sendVars, procVars, recvVars, TypeOK, InFlight
<1>11. ASSUME CloseReceiver \/ CloseTimer PROVE TypeOK'
  BY <1>11 DEF CloseReceiver, CloseTimer, sendVars, procVars, ackVars, TypeOK, InFlight
<1>12. ASSUME Read PROVE TypeOK'
  <2>1. Head(delivered) \in Seqs /\ Tail(delivered) \in Seq(Seqs)
        /\ Len(Tail(delivered)) <= DeliverCap
    <3>1. delivered \in Seq(Seqs) /\ delivered # << >> /\ Len(delivered) <= DeliverCap
      BY <1>12 DEF Read, TypeOK
    <3>2. Head(delivered) \in Seqs /\ Tail(delivered) \in Seq(Seqs)
          /\ Len(Tail(delivered)) = Len(delivered) - 1 /\ Len(delivered) \in Nat
      BY <3>1, HeadTailProperties
    <3> QED
      BY <3>1, <3>2, ConstantsAssumption
  <2>2. Head(delivered) + 1 \in 0..MaxSeq
    BY <2>1, ConstantsAssumption DEF Seqs
  <2> QED
    BY <1>12, <2>1, <2>2 DEF Read, sendVars, procVars, ackVars, TypeOK, InFlight
<1>13. ASSUME NEW s \in dataNet, LoseDATA(s) PROVE TypeOK'
  BY <1>13 DEF LoseDATA, sendVars, procVars, recvVars, ackVars, TypeOK, InFlight
<1>14. ASSUME NEW a \in ackNet, LoseACK(a) PROVE TypeOK'
  BY <1>14 DEF LoseACK, sendVars, procVars, recvVars, ackVars, TypeOK, InFlight
<1>15. ASSUME UNCHANGED vars PROVE TypeOK'
  BY <1>15 DEF vars, sendVars, procVars, recvVars, ackVars, TypeOK, InFlight
<1> QED
  BY <1>1, <1>2, <1>3, <1>4, <1>5, <1>6, <1>7, <1>8, <1>9, <1>10, <1>11, <1>12,
     <1>13, <1>14, <1>15, Zenon DEF Next

-----------------------------------------------------------------------------
\* What the receive half does with one packet, as a relation between states:
\* it takes recvNext and leaves the rest of the buffer
LEMMA AdvanceEffect ==
    ASSUME TypeOK, NEW buf, Advance(buf)
    PROVE  recvNext' = recvNext + 1 /\ recvBuf' = buf /\ draining' = (recvNext + 1 \in buf)
  BY DEF Advance

\* An ACK that is sent reports the values it is given
LEMMA FlushEffect ==
    ASSUME NEW next, NEW buf, FlushACK(next, buf), NEW a \in ackNet', a \notin ackNet
    PROVE  a.ack = next /\ a.sack \subseteq buf
<1>1. PICK b \in AcksFor(next, buf) : ackNet' \in {ackNet, ackNet \cup {b}}
  BY DEF FlushACK, SendACK
<1>2. a = b
  BY <1>1
<1> QED
  BY <1>1, <1>2 DEF AcksFor

\* A new ACK after the end of handleDATA reports the values handleDATA hands to sendACK
LEMMA AckOrArmEffect ==
    ASSUME NEW next, NEW buf, NEW gap \in BOOLEAN, AckOrArm(next, buf, gap),
           NEW a \in ackNet', a \notin ackNet
    PROVE  a.ack = next /\ a.sack \subseteq buf
<1>1. FlushACK(next, buf)
  BY DEF AckOrArm
<1> QED
  BY <1>1, FlushEffect

\* The ACK sent when recvBuf is drained reports recvNext and recvBuf as they are then
\* (handleDATA)
LEMMA AdvanceAcks ==
    ASSUME NEW buf, Advance(buf), NEW a \in ackNet', a \notin ackNet
    PROVE  a.ack = recvNext' /\ a.sack \subseteq recvBuf'
<1>1. AckOrArm(recvNext + 1, buf, FALSE)
  BY Zenon DEF Advance
<1>2. a.ack = recvNext + 1 /\ a.sack \subseteq buf
  BY <1>1, AckOrArmEffect, Zenon
<1> QED
  BY <1>2 DEF Advance

\* The three ways a step changes what the receiver has (handleDATA)
LEMMA ReceiveSteps ==
    ASSUME IInv, [Next]_vars
    PROVE  \/ /\ recvNext \in Seqs /\ recvNext < sendSeq
              /\ \E buf \in {recvBuf, recvBuf \ {recvNext}} :
                    (draining => buf # recvBuf) /\ Advance(buf)
              /\ Deliver(recvNext) /\ nextRead' = nextRead
              /\ UNCHANGED <<sendVars, procVars, receiver, callbacks, abandoned>>
           \/ /\ UNCHANGED <<recvNext, draining, delivered, overflowed, nextRead>>
              /\ ~draining
              /\ \E s \in dataNet : s > recvNext /\ recvBuf' = recvBuf \cup {s}
                    /\ AckOrArm(recvNext, recvBuf \cup {s}, TRUE)
              /\ UNCHANGED <<sendVars, procVars, receiver, callbacks, abandoned>>
           \/ UNCHANGED <<recvNext, recvBuf, draining, overflowed>>
<1> USE DEF IInv
<1>1. CASE DrainRecvBuf
  <2>1. draining /\ recvNext \in recvBuf
    BY <1>1 DEF DrainRecvBuf, RecvBufAhead
  <2>2. recvNext \in Seqs /\ recvNext < sendSeq
    BY <2>1 DEF TypeOK, OnlySentPackets
  <2>3. recvBuf \ {recvNext} # recvBuf
    BY <2>1
  <2> QED
    BY <1>1, <2>2, <2>3 DEF DrainRecvBuf
<1>2. ASSUME NEW s \in dataNet, HandleDATA(s)
      PROVE  \/ /\ recvNext \in Seqs /\ recvNext < sendSeq /\ ~draining
                /\ Advance(recvBuf) /\ Deliver(recvNext) /\ nextRead' = nextRead
                /\ UNCHANGED <<sendVars, procVars, receiver, callbacks, abandoned>>
             \/ /\ UNCHANGED <<recvNext, draining, delivered, overflowed, nextRead>>
                /\ ~draining
                /\ s > recvNext /\ recvBuf' = recvBuf \cup {s}
                /\ AckOrArm(recvNext, recvBuf \cup {s}, TRUE)
                /\ UNCHANGED <<sendVars, procVars, receiver, callbacks, abandoned>>
             \/ UNCHANGED <<recvNext, recvBuf, draining, overflowed>>
  <2>1. s \in Seqs /\ s < sendSeq /\ recvNext \in 0..MaxSeq
    BY DEF TypeOK, OnlySentPackets
  <2>2. CASE s = recvNext /\ Deliver(s) /\ Advance(recvBuf)
    BY <1>2, <2>1, <2>2, Zenon DEF HandleDATA
  <2>3. CASE /\ s # recvNext /\ ~IsDuplicate(s)
             /\ recvBuf' = recvBuf \cup {s}
             /\ AckOrArm(recvNext, recvBuf \cup {s}, TRUE)
             /\ UNCHANGED <<recvNext, draining, delivered, overflowed>>
    <3>1. s > recvNext
      BY <2>1, <2>3, ConstantsAssumption DEF IsDuplicate, Seqs
    <3> QED
      BY <1>2, <2>3, <3>1, Zenon DEF HandleDATA
  <2>4. CASE UNCHANGED <<recvNext, recvBuf, draining, delivered, overflowed>>
    BY <2>4
  <2> QED
    BY <1>2, <2>2, <2>3, <2>4, Zenon DEF HandleDATA
<1>3. CASE UNCHANGED <<recvNext, recvBuf, draining, overflowed>>
  BY <1>3
<1>4. ASSUME [Next]_vars, ~DrainRecvBuf, \A s \in dataNet : ~HandleDATA(s)
      PROVE  UNCHANGED <<recvNext, recvBuf, draining, overflowed>>
  BY <1>4 DEF Next, vars, Send, Recheck, Transmit, HandleACK, LoseACK, Retransmit, LoseDATA,
     TimerFires, DelayedACK, CloseSender, ReconfigureBySet, CloseReceiver, CloseTimer, Read,
     recvVars
<1>5. CASE \E s \in dataNet : HandleDATA(s)
  <2>1. PICK s \in dataNet : HandleDATA(s)
    BY <1>5
  <2> QED
    BY <1>2, <2>1, Zenon
<1> QED
  BY <1>1, <1>4, <1>5

-----------------------------------------------------------------------------
\* The receiver never gives back a packet it has taken over
LEMMA ReceivedGrows ==
    ASSUME IInv, [Next]_vars
    PROVE  Received \subseteq Received'
<1>0. recvNext \in 0..MaxSeq /\ recvBuf \subseteq Seqs /\ MaxSeq \in Nat
  BY ConstantsAssumption DEF IInv, TypeOK
<1>1. ASSUME NEW buf \in {recvBuf, recvBuf \ {recvNext}}, Advance(buf)
      PROVE  Received \subseteq Received'
  <2>1. recvNext' = recvNext + 1 /\ recvBuf' = buf
    BY <1>1 DEF Advance
  <2> QED
    BY <1>0, <1>1, <2>1 DEF Received, Seqs
<1>2. ASSUME NEW s \in dataNet, recvNext' = recvNext, recvBuf' = recvBuf \cup {s}
      PROVE  Received \subseteq Received'
  BY <1>2 DEF Received
<1>3. CASE UNCHANGED <<recvNext, recvBuf, draining, overflowed>>
  BY <1>3 DEF Received
<1> QED
  BY <1>1, <1>2, <1>3, ReceiveSteps, Zenon

\* What handleACK may remove from unacked
LEMMA CoveredReceived ==
    ASSUME IInv, NEW a \in ackNet
    PROVE  Covered(a) \subseteq Received
<1>1. InFlight \subseteq Seqs
  BY ConstantsAssumption DEF IInv, TypeOK, Seqs
<1> QED
  BY <1>1 DEF IInv, AcksAreTrue, Covered

\* A packet leaves unacked only for an ACK that is true or for the retry limit (handleACK,
\* retransmissionLoop), and what is received stays received (handleDATA)
LEMMA NoSilentLossStep ==
    ASSUME IInv, [Next]_vars
    PROVE  NoSilentLoss'
<1>0. Received \subseteq Received' /\ sendSeq \in Nat
  BY ReceivedGrows DEF IInv, TypeOK
<1>1. SUFFICES ASSUME ~senderClosed', NEW s \in 0..(sendSeq' - 1)
               PROVE  s \in InFlight' \cup Received' \cup abandoned'
  BY DEF NoSilentLoss
<1>2. ASSUME ~senderClosed, sendSeq' = sendSeq, abandoned \subseteq abandoned',
             InFlight \subseteq InFlight' \cup Received \cup abandoned'
      PROVE  s \in InFlight' \cup Received' \cup abandoned'
  BY <1>0, <1>1, <1>2 DEF IInv, NoSilentLoss
<1>3. ASSUME NEW t \in Senders, Assign(t), ~senderClosed, abandoned' = abandoned
      PROVE  s \in InFlight' \cup Received' \cup abandoned'
  <2>1. sendSeq' = sendSeq + 1 /\ InFlight' = InFlight \cup {sendSeq}
    BY <1>3 DEF Assign, Register, InFlight
  <2>2. CASE s = sendSeq
    BY <2>1, <2>2
  <2>3. CASE s \in 0..(sendSeq - 1)
    BY <1>0, <1>3, <2>1, <2>3 DEF IInv, NoSilentLoss
  <2> QED
    BY <1>0, <2>1, <2>2, <2>3
<1>4. ASSUME NEW t \in Senders, Send(t) \/ Recheck(t)
      PROVE  s \in InFlight' \cup Received' \cup abandoned'
  <2>1. senderClosed' = senderClosed /\ abandoned' = abandoned
    BY <1>4 DEF Send, Recheck
  <2>2. CASE Assign(t)
    BY <1>1, <1>3, <2>1, <2>2
  <2>3. CASE UNCHANGED <<sendSeq, unacked>>
    BY <1>1, <1>2, <2>1, <2>3 DEF InFlight
  <2> QED
    BY <1>4, <2>2, <2>3 DEF Send, Recheck
<1>5. ASSUME NEW a \in ackNet, HandleACK(a)
      PROVE  s \in InFlight' \cup Received' \cup abandoned'
  <2>1. InFlight' = InFlight \ Covered(a)
    BY <1>5 DEF HandleACK, InFlight
  <2> QED
    BY <1>2, <1>5, <2>1, CoveredReceived DEF HandleACK
<1>6. ASSUME NEW late \in SUBSET InFlight, Retransmit(late)
      PROVE  s \in InFlight' \cup Received' \cup abandoned'
  <2>1. InFlight' \subseteq InFlight /\ InFlight \ InFlight' \subseteq late
    BY <1>6 DEF Retransmit, Retried, InFlight
  <2>2. abandoned' = abandoned \cup (late \ InFlight')
    BY <1>6 DEF Retransmit, InFlight
  <2> QED
    BY <1>2, <1>6, <2>1, <2>2 DEF Retransmit
<1>7. CASE CloseSender
  BY <1>1, <1>7 DEF CloseSender
<1>10. CASE ReconfigureBySet
  BY <1>1, <1>2, <1>10 DEF ReconfigureBySet, InFlight
<1>8. CASE UNCHANGED <<sendVars, abandoned>>
  BY <1>1, <1>2, <1>8 DEF sendVars, InFlight
<1>9. ASSUME [Next]_vars, ~CloseSender, ~ReconfigureBySet,
             \A t \in Senders : ~(Send(t) \/ Recheck(t)),
             \A a \in ackNet : ~HandleACK(a),
             \A late \in SUBSET InFlight : ~Retransmit(late)
      PROVE  UNCHANGED <<sendVars, abandoned>>
  BY <1>9 DEF Next, vars, Transmit, LoseACK, LoseDATA, HandleDATA, DrainRecvBuf,
     TimerFires, DelayedACK, CloseReceiver, CloseTimer, Read
<1> QED
  BY <1>4, <1>5, <1>6, <1>7, <1>8, <1>9, <1>10

\* New ACKs are true when sent, old ones stay true since the receiver forgets nothing
\* (sendACK, handleDATA)
LEMMA AcksAreTrueStep ==
    ASSUME IInv, [Next]_vars
    PROVE  AcksAreTrue'
<1>1. ASSUME NEW a \in ackNet', a \notin ackNet
      PROVE  a.ack = recvNext' /\ a.sack \subseteq recvBuf'
  <2>1. CASE \E buf : Advance(buf)
    BY <1>1, <2>1, AdvanceAcks
  <2>2. ASSUME NEW s \in dataNet, HandleDATA(s)
        PROVE  a.ack = recvNext' /\ a.sack \subseteq recvBuf'
    <3>1. CASE recvNext' = recvNext /\ recvBuf' = recvBuf \cup {s}
               /\ AckOrArm(recvNext, recvBuf \cup {s}, TRUE)
      BY <1>1, <3>1, AckOrArmEffect, Zenon
    <3>2. CASE recvNext' = recvNext /\ recvBuf' = recvBuf
               /\ AckOrArm(recvNext, recvBuf, FALSE)
      BY <1>1, <3>2, AckOrArmEffect, Zenon
    <3>3. \/ \E buf : Advance(buf)
          \/ recvNext' = recvNext /\ recvBuf' = recvBuf \cup {s}
               /\ AckOrArm(recvNext, recvBuf \cup {s}, TRUE)
          \/ recvNext' = recvNext /\ recvBuf' = recvBuf
               /\ AckOrArm(recvNext, recvBuf, FALSE)
      BY <2>2, Zenon DEF HandleDATA
    <3> QED
      BY <2>1, <3>1, <3>2, <3>3, Zenon
  <2>3. CASE DelayedACK
    <3>1. FlushACK(recvNext, recvBuf) /\ UNCHANGED <<recvNext, recvBuf>>
      BY <2>3 DEF DelayedACK, recvVars
    <3> QED
      BY <1>1, <3>1, FlushEffect, Zenon
  <2>4. CASE DrainRecvBuf
    BY <2>1, <2>4 DEF DrainRecvBuf
  <2>5. ASSUME ~DrainRecvBuf, ~DelayedACK, \A s \in dataNet : ~HandleDATA(s)
        PROVE  ackNet' \subseteq ackNet
    BY <2>5 DEF Next, vars, Send, Recheck, Transmit, HandleACK, LoseACK, Retransmit, LoseDATA,
       TimerFires, CloseSender, ReconfigureBySet, CloseReceiver, CloseTimer, Read
  <2> QED
    BY <1>1, <2>2, <2>3, <2>4, <2>5
<1>2. ASSUME NEW a \in ackNet', NEW s \in Seqs, s < a.ack \/ s \in a.sack
      PROVE  s \in Received'
  <2>1. CASE a \in ackNet
    BY <1>2, <2>1, ReceivedGrows DEF IInv, AcksAreTrue
  <2>2. CASE a \notin ackNet
    BY <1>1, <1>2, <2>2 DEF Received
  <2> QED
    BY <2>1, <2>2
<1> QED
  BY <1>2 DEF AcksAreTrue

\* The reorder buffer stays ahead of recvNext: handleDATA puts only later packets in it and
\* removes each one that it delivers
LEMMA RecvBufAheadStep ==
    ASSUME IInv, [Next]_vars
    PROVE  RecvBufAhead'
<1>0. recvNext \in Nat /\ recvBuf \subseteq Seqs /\ Seqs \subseteq Nat
  BY ConstantsAssumption DEF IInv, TypeOK, Seqs
<1>1. ASSUME NEW buf \in {recvBuf, recvBuf \ {recvNext}}, draining => buf # recvBuf,
             Advance(buf)
      PROVE  RecvBufAhead'
  <2>1. recvNext' = recvNext + 1 /\ recvBuf' = buf /\ (draining' <=> recvNext + 1 \in buf)
    BY <1>1, Zenon DEF Advance
  <2>2. recvNext \notin buf
    BY <1>1 DEF IInv, RecvBufAhead
  <2>3. \A s \in buf : s >= recvNext + 1
    BY <1>0, <1>1, <2>2 DEF IInv, RecvBufAhead
  <2> QED
    BY <2>1, <2>3 DEF RecvBufAhead
<1>2. ASSUME NEW s \in dataNet, s > recvNext, recvBuf' = recvBuf \cup {s}, ~draining,
             UNCHANGED <<recvNext, draining>>
      PROVE  RecvBufAhead'
  <2>1. s \in Nat
    BY <1>0 DEF IInv, TypeOK
  <2> QED
    BY <1>0, <1>2, <2>1 DEF IInv, RecvBufAhead
<1>3. CASE UNCHANGED <<recvNext, recvBuf, draining, overflowed>>
  BY <1>3 DEF IInv, RecvBufAhead
<1> QED
  BY <1>1, <1>2, <1>3, ReceiveSteps, Zenon

\* The packets numbered so far are still numbered when sendSeq grows (Send)
LEMMA IntervalGrows ==
    ASSUME NEW m \in Nat, NEW n \in Nat, m <= n
    PROVE  0..(m - 1) \subseteq 0..(n - 1)
  OBVIOUS

\* No step invents a packet: what Send numbered is all that is transmitted, retransmitted,
\* buffered and delivered (Send, retransmissionLoop, handleDATA, Read)
LEMMA OnlySentPacketsStep ==
    ASSUME IInv, [Next]_vars
    PROVE  OnlySentPackets'
<1>0. /\ recvNext \in Nat /\ sendSeq \in Nat /\ sendSeq' \in Nat /\ sendSeq <= sendSeq'
      /\ dataNet \subseteq Nat /\ recvBuf \subseteq Nat
      /\ nextRead \in Nat /\ overflowed \subseteq Nat
  <2>1. sendSeq' = sendSeq \/ \E t \in Senders : Assign(t)
    BY DEF Next, vars, sendVars, Send, Recheck, Transmit, HandleACK, LoseACK, Retransmit, LoseDATA,
       HandleDATA, DrainRecvBuf, TimerFires, DelayedACK, CloseSender, ReconfigureBySet,
       CloseReceiver, CloseTimer, Read
  <2> QED
    BY <2>1, ConstantsAssumption DEF IInv, TypeOK, Assign, Seqs
<1>a. 0..(sendSeq - 1) \subseteq 0..(sendSeq' - 1)
  <2>1. sendSeq \in Nat /\ sendSeq' \in Nat /\ sendSeq <= sendSeq'
    BY <1>0
  <2> QED
    BY <2>1, IntervalGrows
<1>1. \A t \in Senders : pc'[t] = "transmit" => held'[t] < sendSeq'
  <2>1. ASSUME NEW t \in Senders, NEW u \in Senders, Send(u) \/ Recheck(u), pc'[t] = "transmit"
        PROVE  held'[t] < sendSeq'
    <3>1. CASE Assign(u)
      BY <1>0, <2>1, <3>1 DEF Assign, IInv, TypeOK, OnlySentPackets
    <3>2. CASE /\ pc' \in {pc, [pc EXCEPT ![u] = "waiting"], [pc EXCEPT ![u] = "idle"]}
               /\ UNCHANGED held
      BY <1>0, <2>1, <3>2 DEF IInv, TypeOK, OnlySentPackets
    <3> QED
      BY <2>1, <3>1, <3>2 DEF Send, Recheck
  <2>2. ASSUME NEW t \in Senders, NEW u \in Senders, Transmit(u), pc'[t] = "transmit"
        PROVE  held'[t] < sendSeq'
    BY <1>0, <2>2 DEF Transmit, IInv, TypeOK, OnlySentPackets, sendVars
  <2>3. CASE UNCHANGED <<pc, held>>
    BY <1>0, <2>3 DEF IInv, TypeOK, OnlySentPackets
  <2>4. ASSUME \A u \in Senders : ~(Send(u) \/ Recheck(u)) /\ ~Transmit(u)
        PROVE  UNCHANGED <<pc, held>>
    BY <2>4 DEF Next, vars, procVars, HandleACK, LoseACK, Retransmit, LoseDATA,
       HandleDATA, DrainRecvBuf, TimerFires, DelayedACK, CloseSender, ReconfigureBySet,
       CloseReceiver, CloseTimer, Read
  <2> QED
    BY <2>1, <2>2, <2>3, <2>4
<1>2. dataNet' \subseteq 0..(sendSeq' - 1)
  <2>1. dataNet \subseteq 0..(sendSeq' - 1)
    BY <1>a DEF IInv, OnlySentPackets
  <2>2. ASSUME NEW t \in Senders, Transmit(t) PROVE dataNet' \subseteq 0..(sendSeq' - 1)
    <3>1. held[t] \in 0..(sendSeq' - 1)
      BY <1>0, <2>2 DEF Transmit, IInv, TypeOK, OnlySentPackets
    <3> QED
      BY <2>1, <2>2, <3>1 DEF Transmit
  <2>3. ASSUME NEW late \in SUBSET InFlight, Retransmit(late)
        PROVE  dataNet' \subseteq 0..(sendSeq' - 1)
    <3>1. late \subseteq 0..(sendSeq' - 1)
      BY <1>a DEF IInv, TypeOK
    <3> QED
      BY <2>1, <2>3, <3>1 DEF Retransmit
  <2>4. ASSUME \A t \in Senders : ~Transmit(t), \A late \in SUBSET InFlight : ~Retransmit(late)
        PROVE  dataNet' \subseteq dataNet
    BY <2>4 DEF Next, vars, Send, Recheck, HandleACK, LoseACK, LoseDATA,
       HandleDATA, DrainRecvBuf, TimerFires, DelayedACK, CloseSender, ReconfigureBySet,
       CloseReceiver, CloseTimer, Read
  <2> QED
    BY <2>1, <2>2, <2>3, <2>4
<1>3. /\ recvBuf' \subseteq 0..(sendSeq' - 1)
      /\ recvNext <= recvNext' /\ recvNext' \in Nat /\ recvNext' <= sendSeq'
      /\ overflowed' \subseteq 0..(recvNext' - 1)
  <2>1. ASSUME NEW buf \in {recvBuf, recvBuf \ {recvNext}}, Advance(buf), Deliver(recvNext),
               recvNext < sendSeq, sendSeq' = sendSeq
        PROVE  <1>3!:
    <3>1. recvNext' = recvNext + 1 /\ recvBuf' = buf
      BY <2>1 DEF Advance
    <3>2. overflowed' \subseteq overflowed \cup {recvNext}
      BY <2>1 DEF Deliver
    <3>3. recvNext \in Nat /\ overflowed \subseteq 0..(recvNext - 1)
          /\ recvBuf \subseteq 0..(sendSeq - 1)
      BY <1>0 DEF IInv, OnlySentPackets
    <3>4. sendSeq \in Nat
      BY <1>0
    <3>5. recvBuf' \subseteq 0..(sendSeq' - 1)
      BY <2>1, <3>1, <3>3
    <3>6. recvNext <= recvNext' /\ recvNext' \in Nat /\ recvNext' <= sendSeq'
      BY <2>1, <3>1, <3>3, <3>4
    <3>7. overflowed' \subseteq 0..(recvNext' - 1)
      BY <3>1, <3>2, <3>3
    <3> QED
      BY <3>5, <3>6, <3>7
  <2>2. ASSUME NEW s \in dataNet, recvBuf' = recvBuf \cup {s}, UNCHANGED <<recvNext, overflowed>>
        PROVE  <1>3!:
    <3>1. recvBuf' \subseteq 0..(sendSeq' - 1)
      BY <1>a, <2>2 DEF IInv, OnlySentPackets
    <3>2. recvNext' = recvNext /\ recvNext' \in Nat /\ recvNext' <= sendSeq'
      BY <1>0, <2>2 DEF IInv, OnlySentPackets
    <3>3. overflowed' \subseteq 0..(recvNext' - 1)
      BY <2>2 DEF IInv, OnlySentPackets
    <3> QED
      BY <3>1, <3>2, <3>3
  <2>3. CASE UNCHANGED <<recvNext, recvBuf, draining, overflowed>>
    <3>1. recvBuf' \subseteq 0..(sendSeq' - 1)
      BY <1>a, <2>3 DEF IInv, OnlySentPackets
    <3>2. recvNext' = recvNext /\ recvNext' \in Nat /\ recvNext' <= sendSeq'
      BY <1>0, <2>3 DEF IInv, OnlySentPackets
    <3>3. overflowed' \subseteq 0..(recvNext' - 1)
      BY <2>3 DEF IInv, OnlySentPackets
    <3> QED
      BY <3>1, <3>2, <3>3
  <2> QED
    BY <2>1, <2>2, <2>3, ReceiveSteps, Zenon DEF sendVars
<1>4. nextRead' <= recvNext'
  <2>1. CASE Read
    <3>1. delivered \in Seq(Seqs) /\ delivered # << >>
      BY <2>1 DEF Read, IInv, TypeOK
    <3>2. 1 \in 1..Len(delivered) /\ Head(delivered) = delivered[1]
      BY <3>1
    <3> QED
      BY <1>0, <2>1, <3>1, <3>2 DEF Read, IInv, DeliveredInOrder
  <2>2. ASSUME ~Read PROVE nextRead' = nextRead
    BY <2>2 DEF Next, vars, Send, Recheck, Transmit, HandleACK, LoseACK, Retransmit, LoseDATA,
       HandleDATA, DrainRecvBuf, TimerFires, DelayedACK, CloseSender, ReconfigureBySet,
         CloseReceiver, CloseTimer
  <2> QED
    BY <1>0, <1>3, <2>1, <2>2 DEF IInv, OnlySentPackets
<1> QED
  BY <1>1, <1>2, <1>3, <1>4 DEF OnlySentPackets

\* The order of the channel survives one more packet, kept or thrown away
\* (deliverPacket)
LEMMA DeliverKeepsOrder ==
    ASSUME IInv, Deliver(recvNext), recvNext' = recvNext + 1, nextRead' = nextRead
    PROVE  DeliveredInOrder'
<1>0. /\ recvNext \in Nat /\ nextRead \in Nat /\ nextRead <= recvNext
      /\ delivered \in Seq(Seqs) /\ Len(delivered) \in Nat
      /\ \A s \in overflowed : s < recvNext
  BY DEF IInv, TypeOK, OnlySentPackets
<1>1. \A i \in 1..Len(delivered) :
          /\ delivered[i] \in nextRead..(recvNext - 1) /\ delivered[i] \notin overflowed
          /\ \A j \in 1..(i - 1) : delivered[j] < delivered[i]
  BY DEF IInv, DeliveredInOrder
<1>2. \A s \in nextRead..(recvNext - 1) :
          s \in overflowed \/ \E i \in 1..Len(delivered) : delivered[i] = s
  BY DEF IInv, DeliveredInOrder
<1>3. CASE delivered' = Append(delivered, recvNext) /\ overflowed' = overflowed
  <2>1. /\ Len(delivered') = Len(delivered) + 1
        /\ \A i \in 1..Len(delivered) : delivered'[i] = delivered[i]
        /\ delivered'[Len(delivered) + 1] = recvNext
    BY <1>0, <1>3
  <2>2. ASSUME NEW i \in 1..Len(delivered')
        PROVE  /\ delivered'[i] \in nextRead'..(recvNext' - 1) /\ delivered'[i] \notin overflowed'
               /\ \A j \in 1..(i - 1) : delivered'[j] < delivered'[i]
    <3>1. CASE i \in 1..Len(delivered)
      BY <1>0, <1>1, <1>3, <2>1, <3>1
    <3>2. CASE i = Len(delivered) + 1
      BY <1>0, <1>1, <1>3, <2>1, <3>2
    <3> QED
      BY <1>0, <2>1, <3>1, <3>2
  <2>3. ASSUME NEW s \in nextRead'..(recvNext' - 1)
        PROVE  s \in overflowed' \/ \E i \in 1..Len(delivered') : delivered'[i] = s
    <3>1. CASE s = recvNext
      BY <1>0, <2>1, <3>1
    <3>2. CASE s \in nextRead..(recvNext - 1)
      BY <1>0, <1>2, <1>3, <2>1, <3>2
    <3> QED
      BY <1>0, <3>1, <3>2
  <2> QED
    BY <2>2, <2>3 DEF DeliveredInOrder
<1>4. CASE delivered' = delivered /\ overflowed' = overflowed \cup {recvNext}
  <2>2. ASSUME NEW i \in 1..Len(delivered')
        PROVE  /\ delivered'[i] \in nextRead'..(recvNext' - 1) /\ delivered'[i] \notin overflowed'
               /\ \A j \in 1..(i - 1) : delivered'[j] < delivered'[i]
    BY <1>0, <1>1, <1>4
  <2>3. ASSUME NEW s \in nextRead'..(recvNext' - 1)
        PROVE  s \in overflowed' \/ \E i \in 1..Len(delivered') : delivered'[i] = s
    BY <1>0, <1>2, <1>4
  <2> QED
    BY <2>2, <2>3 DEF DeliveredInOrder
<1> QED
  BY <1>3, <1>4 DEF Deliver

\* A read takes the oldest packet of the channel (Read)
LEMMA ReadKeepsOrder ==
    ASSUME IInv, Read
    PROVE  /\ DeliveredInOrder'
           /\ Head(delivered) \in nextRead..(recvNext - 1) /\ Head(delivered) \notin overflowed
           /\ nextRead..(Head(delivered) - 1) \subseteq overflowed
<1>0. /\ recvNext \in Nat /\ nextRead \in Nat
      /\ delivered \in Seq(Seqs) /\ delivered # << >>
      /\ recvNext' = recvNext /\ overflowed' = overflowed
      /\ delivered' = Tail(delivered) /\ nextRead' = Head(delivered) + 1
  BY DEF IInv, TypeOK, Read
<1>1. \A i \in 1..Len(delivered) :
          /\ delivered[i] \in nextRead..(recvNext - 1) /\ delivered[i] \notin overflowed
          /\ \A j \in 1..(i - 1) : delivered[j] < delivered[i]
  BY DEF IInv, DeliveredInOrder
<1>2. \A s \in nextRead..(recvNext - 1) :
          s \in overflowed \/ \E i \in 1..Len(delivered) : delivered[i] = s
  BY DEF IInv, DeliveredInOrder
<1>3. /\ Len(delivered) \in Nat \ {0} /\ Head(delivered) = delivered[1]
      /\ Len(delivered') = Len(delivered) - 1
      /\ \A i \in 1..Len(delivered') : delivered'[i] = delivered[i + 1]
  BY <1>0, HeadTailProperties
<1>4. ASSUME NEW i \in 2..Len(delivered) PROVE delivered[1] < delivered[i]
  BY <1>1, <1>3
<1>5. ASSUME NEW i \in 1..Len(delivered')
      PROVE  /\ delivered'[i] \in nextRead'..(recvNext' - 1) /\ delivered'[i] \notin overflowed'
             /\ \A j \in 1..(i - 1) : delivered'[j] < delivered'[i]
  <2>1. i + 1 \in 2..Len(delivered) /\ i + 1 \in 1..Len(delivered)
    BY <1>3
  <2>2. delivered[i + 1] \in nextRead..(recvNext - 1) /\ delivered[i + 1] \notin overflowed
        /\ delivered[1] < delivered[i + 1] /\ delivered[1] \in nextRead..(recvNext - 1)
    BY <1>1, <1>3, <1>4, <2>1
  <2>3. ASSUME NEW j \in 1..(i - 1) PROVE delivered'[j] < delivered'[i]
    BY <1>1, <1>3, <2>1, SMTT(60)
  <2> QED
    BY <1>0, <1>3, <2>2, <2>3
<1>6. ASSUME NEW s \in nextRead'..(recvNext' - 1)
      PROVE  s \in overflowed' \/ \E i \in 1..Len(delivered') : delivered'[i] = s
  <2>1. s \in nextRead..(recvNext - 1) /\ s > delivered[1]
    BY <1>0, <1>1, <1>3
  <2>2. ASSUME NEW i \in 1..Len(delivered), delivered[i] = s
        PROVE  i - 1 \in 1..Len(delivered') /\ delivered'[i - 1] = s
    BY <1>3, <2>1, <2>2
  <2> QED
    BY <1>0, <1>2, <2>1, <2>2
<1>7. /\ Head(delivered) \in nextRead..(recvNext - 1) /\ Head(delivered) \notin overflowed
  BY <1>1, <1>3
<1>8. ASSUME NEW s \in nextRead..(Head(delivered) - 1) PROVE s \in overflowed
  <2>1. s \in nextRead..(recvNext - 1)
    BY <1>0, <1>7, <1>8
  <2>2. ASSUME NEW i \in 1..Len(delivered) PROVE delivered[i] # s
    BY <1>1, <1>3, <1>4, <1>8
  <2> QED
    BY <1>2, <2>1, <2>2
<1> QED
  BY <1>5, <1>6, <1>7, <1>8 DEF DeliveredInOrder

\* deliverPacket appends the packet recvNext points to, Read takes the oldest one, and no
\* other step touches the channel (handleDATA, Read)
LEMMA DeliveredInOrderStep ==
    ASSUME IInv, [Next]_vars
    PROVE  DeliveredInOrder'
<1>1. CASE Read
  BY <1>1, ReadKeepsOrder
<1>2. CASE UNCHANGED <<recvNext, delivered, overflowed, nextRead>>
  BY <1>2 DEF IInv, DeliveredInOrder
<1>3. ASSUME NEW buf, Advance(buf), Deliver(recvNext), nextRead' = nextRead
      PROVE  DeliveredInOrder'
  BY <1>3, DeliverKeepsOrder DEF Advance
<1>4. CASE UNCHANGED <<recvNext, recvBuf, draining, overflowed>> /\ ~Read
  <2>1. ASSUME NEW s \in dataNet, HandleDATA(s)
        PROVE  UNCHANGED <<recvNext, delivered, overflowed, nextRead>>
    <3>1. recvNext \in Nat /\ recvNext' = recvNext
      BY <1>4 DEF IInv, TypeOK
    <3>2. ASSUME NEW buf, Advance(buf) PROVE FALSE
      BY <3>1, <3>2 DEF Advance
    <3>3. UNCHANGED <<recvNext, delivered, overflowed>> /\ nextRead' = nextRead
      BY <2>1, <3>2 DEF HandleDATA
    <3> QED
      BY <3>3
  <2>2. ~DrainRecvBuf
    BY <1>4 DEF DrainRecvBuf, Advance, IInv, TypeOK
  <2>3. ASSUME \A s \in dataNet : ~HandleDATA(s)
        PROVE  UNCHANGED <<recvNext, delivered, overflowed, nextRead>>
    BY <1>4, <2>2, <2>3 DEF Next, vars, recvVars, Send, Recheck, Transmit, HandleACK, LoseACK,
       Retransmit, LoseDATA, TimerFires, DelayedACK, CloseSender, ReconfigureBySet,
       CloseReceiver, CloseTimer
  <2> QED
    BY <1>2, <2>1, <2>3
<1> QED
  BY <1>1, <1>2, <1>3, <1>4, ReceiveSteps, Zenon

\* flushACK and the timer of handleDATA
LEMMA PendingAckHasTimerStep ==
    ASSUME IInv, [Next]_vars
    PROVE  PendingAckHasTimer'
<1>0. unackedRecv \in Nat /\ callbacks \in Nat
  BY DEF IInv, TypeOK
<1>1. ASSUME NEW next, NEW buf, NEW gap \in BOOLEAN, AckOrArm(next, buf, gap),
             callbacks' = callbacks
      PROVE  PendingAckHasTimer'
  BY <1>0, <1>1 DEF AckOrArm, FlushACK, IInv, PendingAckHasTimer
<1>2. ASSUME NEW buf, Advance(buf), callbacks' = callbacks
      PROVE  PendingAckHasTimer'
  <2>1. CASE recvNext + 1 \in buf
    BY <1>0, <1>2, <2>1 DEF Advance, IInv, PendingAckHasTimer
  <2>2. CASE recvNext + 1 \notin buf
    <3>1. AckOrArm(recvNext + 1, buf, FALSE)
      BY <1>2, <2>2, Zenon DEF Advance
    <3> QED
      BY <1>1, <1>2, <3>1, Zenon
  <2> QED
    BY <2>1, <2>2
<1>3. ASSUME NEW s \in dataNet, HandleDATA(s) PROVE PendingAckHasTimer'
  BY <1>1, <1>2, <1>3, Zenon DEF HandleDATA
<1>4. CASE DrainRecvBuf
  BY <1>2, <1>4 DEF DrainRecvBuf
<1>5. CASE TimerFires
  BY <1>0, <1>5 DEF TimerFires, recvVars, IInv, PendingAckHasTimer
<1>6. CASE DelayedACK
  BY <1>6 DEF DelayedACK, FlushACK, PendingAckHasTimer
<1>7. CASE CloseReceiver \/ CloseTimer
  BY <1>7 DEF CloseReceiver, CloseTimer, ackVars, IInv, PendingAckHasTimer
<1>8. CASE UNCHANGED <<receiver, draining, ackVars>>
  BY <1>8 DEF ackVars, IInv, PendingAckHasTimer
<1>9. ASSUME ~DrainRecvBuf, ~TimerFires, ~DelayedACK, ~CloseReceiver, ~CloseTimer,
             \A s \in dataNet : ~HandleDATA(s)
      PROVE  UNCHANGED <<receiver, draining, ackVars>>
  BY <1>9 DEF Next, vars, recvVars, Send, Recheck, Transmit, HandleACK, LoseACK, Retransmit,
     LoseDATA, CloseSender, ReconfigureBySet, Read
<1> QED
  BY <1>3, <1>4, <1>5, <1>6, <1>7, <1>8, <1>9

\* The two engines NewARQEngine creates satisfy the invariant
LEMMA InitHolds == Init => IInv
<1> SUFFICES ASSUME Init PROVE IInv
  OBVIOUS
<1> USE ConstantsAssumption DEF Init
<1>1. TypeOK
  <2>1. InFlight = {} /\ unacked \in [InFlight -> 0..MaxRetransmissions]
    BY DEF InFlight
  <2>2. delivered \in Seq(Seqs) /\ Len(delivered) <= DeliverCap /\ unackedRecv \in Nat
    OBVIOUS
  <2>3. sendSeq \in 0..MaxSeq /\ sendWindow \in Window /\ ssthresh \in Window
    BY DEF Window
  <2>4. /\ pc \in [Senders -> {"idle", "waiting", "transmit"}]
        /\ held \in [Senders -> 0..MaxSeq]
        /\ naps \in [Senders -> 0..(StallLimit + 1)]
    OBVIOUS
  <2>5. callbacks \in 0..MaxCallbacks /\ recvNext \in 0..MaxSeq /\ nextRead \in 0..MaxSeq
    OBVIOUS
  <2> QED
    BY <2>1, <2>2, <2>3, <2>4, <2>5 DEF TypeOK
<1>2. OnlySentPackets /\ AcksAreTrue /\ RecvBufAhead /\ DeliveredInOrder /\ PendingAckHasTimer
  BY DEF OnlySentPackets, AcksAreTrue, RecvBufAhead, DeliveredInOrder, PendingAckHasTimer
<1>3. NoSilentLoss
  BY DEF NoSilentLoss
<1> QED
  BY <1>1, <1>2, <1>3 DEF IInv

-----------------------------------------------------------------------------
\* The inductive invariant holds in every reachable state: whatever the callers of
\* Send and Read, the network and the two calls of Close do
THEOREM Invariance == Spec => []IInv
<1>1. IInv /\ [Next]_vars => IInv'
  BY TypeStep, OnlySentPacketsStep, AcksAreTrueStep, RecvBufAheadStep, DeliveredInOrderStep,
     PendingAckHasTimerStep, NoSilentLossStep DEF IInv
<1> QED
  BY InitHolds, <1>1, PTL DEF Spec

\* The variables keep their types; the congestion window stays in [MinWindow,
\* MaxWindow] under every mixture of ACKs and timeouts (handleACK, retransmissionLoop)
THEOREM TypeCorrect == Spec => []TypeOK
<1>1. IInv => TypeOK
  BY DEF IInv
<1> QED
  BY Invariance, <1>1, PTL

\* A packet leaves unacked only because the peer has it or because it was given up
\* (handleACK, retransmissionLoop)
THEOREM NothingSilentlyLost == Spec => []NoSilentLoss
<1>1. IInv => NoSilentLoss
  BY DEF IInv
<1> QED
  BY Invariance, <1>1, PTL

\* The channel to Read is in order, without duplicates, and skips only what
\* deliverPacket threw away (handleDATA, deliverPacket, Read)
THEOREM DeliveryInOrder == Spec => []DeliveredInOrder
<1>1. IInv => DeliveredInOrder
  BY DEF IInv
<1> QED
  BY Invariance, <1>1, PTL

\* A packet that was received and not yet acknowledged always has a timer, stale
\* callbacks included (handleDATA, flushACK)
THEOREM AckIsPending == Spec => []PendingAckHasTimer
<1>1. IInv => PendingAckHasTimer
  BY DEF IInv
<1> QED
  BY Invariance, <1>1, PTL

\* An ACK on its way says nothing that is not so: what lies below its number or in its SACK
\* blocks has been received, however old it is (sendACK)
THEOREM AcksTrue == Spec => []AcksAreTrue
<1>1. IInv => AcksAreTrue
  BY DEF IInv
<1> QED
  BY Invariance, <1>1, PTL

\* The reorder buffer never holds what was delivered or comes next (handleDATA)
THEOREM ReorderBuffer == Spec => []RecvBufAhead
<1>1. IInv => RecvBufAhead
  BY DEF IInv
<1> QED
  BY Invariance, <1>1, PTL

\* unacked is a finite map, so that the window test of Send counts it
LEMMA InFlightFinite == TypeOK => IsFiniteSet(InFlight)
<1> SUFFICES ASSUME TypeOK PROVE IsFiniteSet(InFlight)
  OBVIOUS
<1>1. sendSeq - 1 \in Int /\ InFlight \subseteq 0..(sendSeq - 1)
  BY DEF TypeOK
<1>2. IsFiniteSet(0..(sendSeq - 1))
  BY <1>1, FS_Interval
<1> QED
  BY <1>1, <1>2, FS_Subset

\* No interleaving of Sends that wait for the window overfills it (Send)
THEOREM WindowRespected == Spec => []InFlightBounded
<1>1. Init => InFlightBounded
  <2>1. ASSUME Init PROVE InFlight = {}
    BY <2>1 DEF Init, InFlight
  <2> QED
    BY <2>1, FS_EmptySet, ConstantsAssumption DEF InFlightBounded
<1>2. InFlightBounded /\ IInv /\ [Next]_vars => InFlightBounded'
  <2> SUFFICES ASSUME InFlightBounded, IInv, [Next]_vars PROVE InFlightBounded'
    OBVIOUS
  <2>1. IsFiniteSet(InFlight) /\ Cardinality(InFlight) \in Nat /\ MaxWindow \in Nat
    BY InFlightFinite, FS_CardinalityType, ConstantsAssumption DEF IInv
  <2>2. ASSUME NEW t \in Senders, Assign(t) PROVE InFlightBounded'
    <3>1. InFlight' = InFlight \cup {sendSeq}
      BY <2>2 DEF Assign, Register, InFlight
    <3>2. Cardinality(InFlight) < sendWindow /\ sendWindow \in Nat /\ sendWindow <= MaxWindow
      BY <2>1, <2>2, ConstantsAssumption DEF Assign, WindowFull, IInv, TypeOK, Window
    <3>3. Cardinality(InFlight \cup {sendSeq}) <= Cardinality(InFlight) + 1
      BY <2>1, FS_AddElement
    <3>4. IsFiniteSet(InFlight \cup {sendSeq})
      BY <2>1, FS_AddElement
    <3> QED
      BY <2>1, <3>1, <3>2, <3>3, <3>4, FS_CardinalityType DEF InFlightBounded
  <2>3. CASE InFlight' \subseteq InFlight
    BY <2>1, <2>3, FS_Subset, FS_CardinalityType DEF InFlightBounded
  <2>4. ASSUME \A t \in Senders : ~Assign(t) PROVE InFlight' \subseteq InFlight
    BY <2>4 DEF Next, vars, sendVars, Send, Recheck, Transmit, HandleACK, LoseACK, Retransmit,
       Retried, LoseDATA, HandleDATA, DrainRecvBuf, TimerFires, DelayedACK, CloseSender,
       ReconfigureBySet, CloseReceiver, CloseTimer, Read, InFlight
  <2> QED
    BY <2>2, <2>3, <2>4
<1> QED
  BY <1>1, <1>2, Invariance, PTL DEF Spec

\* The engines implement the ordered stream: Send accepts, deliverPacket loses, Read
\* emits, and every other step of arq.go is invisible to the reader
THEOREM Refinement == Spec => ImplementsStream
<1>1. Init => Stream!Init
  BY DEF Init, Stream!Init
<1>2. IInv /\ [Next]_vars => [Stream!Next]_(Stream!streamVars)
  <2> SUFFICES ASSUME IInv, [Next]_vars PROVE [Stream!Next]_(Stream!streamVars)
    OBVIOUS
  <2>0. /\ sendSeq \in Nat /\ recvNext \in Nat /\ nextRead \in Nat
        /\ nextRead <= recvNext /\ recvNext <= sendSeq
    BY DEF IInv, TypeOK, OnlySentPackets
  <2>1. CASE Read
    <3>1. /\ Head(delivered) \in nextRead..(sendSeq - 1) /\ Head(delivered) \notin overflowed
          /\ nextRead..(Head(delivered) - 1) \subseteq overflowed
      BY <2>0, <2>1, ReadKeepsOrder
    <3>2. nextRead' = Head(delivered) + 1 /\ sendSeq' = sendSeq /\ overflowed' = overflowed
      BY <2>1 DEF Read, sendVars
    <3> QED
      BY <3>1, <3>2 DEF Stream!Next, Stream!Emit
  <2>2. ASSUME Deliver(recvNext), recvNext < sendSeq, nextRead' = nextRead, sendSeq' = sendSeq
        PROVE  [Stream!Next]_(Stream!streamVars)
    <3>1. CASE overflowed' = overflowed
      BY <2>2, <3>1 DEF Stream!streamVars
    <3>2. CASE overflowed' = overflowed \cup {recvNext}
      BY <2>0, <2>2, <3>2 DEF Stream!Next, Stream!Lose
    <3> QED
      BY <2>2, <3>1, <3>2 DEF Deliver
  <2>3. CASE overflowed' = overflowed /\ ~Read
    <3>1. nextRead' = nextRead
      BY <2>3 DEF Next, vars, Send, Recheck, Transmit, HandleACK, LoseACK, Retransmit,
         LoseDATA, HandleDATA, DrainRecvBuf, TimerFires, DelayedACK, CloseSender, ReconfigureBySet,
         CloseReceiver, CloseTimer
    <3>2. sendSeq' = sendSeq \/ sendSeq' = sendSeq + 1
      BY DEF Next, vars, sendVars, Send, Recheck, Assign, Transmit, HandleACK, LoseACK, Retransmit,
         LoseDATA, HandleDATA, DrainRecvBuf, TimerFires, DelayedACK, CloseSender, ReconfigureBySet,
         CloseReceiver, CloseTimer, Read
    <3> QED
      BY <2>3, <3>1, <3>2 DEF Stream!Next, Stream!Accept, Stream!streamVars
  <2> QED
    BY <2>1, <2>2, <2>3, ReceiveSteps DEF sendVars
<1> QED
  BY <1>1, <1>2, Invariance, PTL DEF Spec, ImplementsStream, Stream!Spec

-----------------------------------------------------------------------------
(* The FEC coders (module FecReconfig).                                    *)

\* The counters of GetAdjusted: what was lost or is in flight was sent
Counted == lost + inFlight <= sent /\ toAdd <= sent

\* sendMu is held by the caller that is inside Reconfigure and by nobody else; Close, which
\* needs sendMu, cannot close a channel between two steps of a Reconfigure; and nobody fills
\* the channel again that Reconfigure has emptied
UnderLock ==
    \A p \in Callers :
        /\ at[p] \in {"offer", "take", "put"} <=> sendMu = p
        /\ at[p] \in {"take", "put"} => ~closed
        /\ at[p] = "put" => configCh[coder[p]] = << >>

FecInv == FecTypeOK /\ Counted /\ UnderLock /\ LatestConfigNotLost /\ ShardsFit

\* What a configuration channel holds is one configuration (the channel of capacity one)
LEMMA ChannelHolds ==
    ASSUME FecTypeOK, NEW x \in Coders, configCh[x] # << >>
    PROVE  Head(configCh[x]) \in Configs
<1>1. PICK c \in Configs : configCh[x] = << c >>
  BY DEF FecTypeOK
<1> QED
  BY <1>1

\* GetAdjusted answers with one of its five tiers or with the configuration itself
LEMMA AdjustedConfig ==
    ASSUME NEW c \in Configs, NEW l \in Nat, NEW n \in Nat
    PROVE  Adjusted(c, l, n) \in Configs
<1>1. Adjusted(c, l, n) \in {c, 1, 2, 3, 4, 5}
  BY DEF Adjusted
<1> QED
  BY <1>1, FecAssumption DEF Tiers

\* The engine starts with the tier of NewFECConfig in both coders and an empty group
LEMMA FecStarts == FecInit => FecInv
<1> SUFFICES ASSUME FecInit PROVE FecInv
  OBVIOUS
<1>1. FecTypeOK
  <2>1. 0 \in Configs /\ 0 \in Valid /\ MaxSent \in Nat /\ MaxSet \in Nat
    BY FecAssumption DEF Tiers
  <2>2. configCh \in [Coders -> {<< >>} \cup {<< c >> : c \in Configs}]
    BY DEF FecInit
  <2>3. /\ at \in [Callers -> {"idle", "checked", "offer", "take", "put"}]
        /\ coder \in [Callers -> Coders]
        /\ loop \in [Coders -> {"recv", "apply", "done"}]
    BY DEF FecInit, Coders
  <2>4. sent \in 0..MaxSent /\ inFlight \in 0..sent /\ lost \in 0..sent /\ calls \in 0..MaxSet
        /\ toAdd \in 0..MaxSent
    BY <2>1 DEF FecInit
  <2> QED
    BY <2>1, <2>2, <2>3, <2>4 DEF FecInit, FecTypeOK
<1>2. Counted /\ UnderLock
  BY DEF FecInit, Counted, UnderLock, Callers
<1>3. LatestConfigNotLost
  BY DEF FecInit, LatestConfigNotLost, Newest, SameShards
<1>4. ShardsFit
  BY DEF FecInit, ShardsFit
<1> QED
  BY <1>1, <1>2, <1>3, <1>4 DEF FecInv

\* Send and the encoder: a group's first packet allocates the shards its last one needs
\* (AddDataPacket, flushLocked)
LEMMA GroupStep ==
    ASSUME FecInv, SendLocked \/ AddDataPacket \/ FlushTimer \/ ParitySent
    PROVE  FecInv'
<1> USE DEF lockVars, statVars, chanVars, loopVars
<1>1. Data[config["enc"]] \in Nat \ {0} /\ Parity[config["enc"]] \in Nat
  BY FecAssumption DEF FecInv, FecTypeOK, Coders
<1>2. UNCHANGED <<sendMu, at, coder, closed, configCh, handedOver, loop, got, config>>
  BY DEF SendLocked, AddDataPacket, FlushTimer, ParitySent
<1>3. UnderLock'
  BY <1>2 DEF FecInv, UnderLock
<1>4. LatestConfigNotLost'
  BY <1>2 DEF FecInv, LatestConfigNotLost, Newest
<1>5. CASE SendLocked
  <2>0. /\ sent' \in 0..MaxSent /\ inFlight' \in 0..sent' /\ lost' \in 0..sent'
        /\ toAdd' \in 0..MaxSent /\ Counted'
    <3>1. /\ MaxSent \in Nat /\ sent \in Nat /\ sent < MaxSent /\ inFlight \in Nat
          /\ lost \in Nat /\ toAdd \in Nat
      BY <1>5, FecAssumption DEF SendLocked, FecInv, FecTypeOK
    <3>2. lost + inFlight <= sent /\ toAdd <= sent
      BY DEF FecInv, Counted
    <3>3. sent' = sent + 1 /\ inFlight' = inFlight + 1 /\ toAdd' = toAdd + 1 /\ lost' = lost
      BY <1>5 DEF SendLocked
    <3> QED
      BY <3>1, <3>2, <3>3 DEF Counted
  <2>1. FecTypeOK' /\ Counted'
    BY <1>5, <2>0 DEF SendLocked, FecInv, FecTypeOK
  <2>2. ShardsFit'
    BY <1>5 DEF SendLocked, FecInv, ShardsFit, GroupSize
  <2> QED
    BY <1>3, <1>4, <2>1, <2>2 DEF FecInv
<1>6. CASE AddDataPacket
  <2>1. GroupSize \in Nat /\ dataCount \in Nat
    BY <1>1 DEF GroupSize, FecInv, FecTypeOK
  <2>2. /\ toAdd' \in 0..MaxSent /\ dataCount' \in Nat /\ shards' \in Nat
        /\ encMu' \in {"free", "parity"} /\ Counted'
    BY <1>6, <2>1, FecAssumption DEF AddDataPacket, FecInv, FecTypeOK, Counted
  <2>3. FecTypeOK'
    BY <1>6, <2>2 DEF AddDataPacket, FecInv, FecTypeOK
  <2>4. ShardsFit'
    BY <1>1, <1>6, <2>1 DEF AddDataPacket, FecInv, ShardsFit, GroupSize
  <2> QED
    BY <1>3, <1>4, <2>2, <2>3, <2>4 DEF FecInv
<1>7. CASE FlushTimer \/ ParitySent
  <2>1. GroupSize \in Nat /\ dataCount \in Nat
    BY <1>1 DEF GroupSize, FecInv, FecTypeOK
  <2>2. FecTypeOK' /\ Counted'
    BY <1>7, <2>1 DEF FlushTimer, ParitySent, FecInv, FecTypeOK, Counted
  <2>3. ShardsFit'
    BY <1>1, <1>7, <2>1 DEF FlushTimer, ParitySent, FecInv, ShardsFit, GroupSize
  <2> QED
    BY <1>3, <1>4, <2>2, <2>3 DEF FecInv
<1> QED
  BY <1>5, <1>6, <1>7

\* handleACK and SetFECConfig take sendMu and choose a tier before they call Reconfigure
LEMMA ChooseStep ==
    ASSUME FecInv,
           \/ HandlePacket
           \/ \E c, s \in 0..inFlight : FecHandleACK(c, s)
           \/ \E c \in Chosen : SetFECConfig(c)
    PROVE  FecInv'
<1> USE DEF lockVars, statVars, chanVars, loopVars, groupVars
<1>1. "ack" \in Callers /\ "set" \in Callers /\ "enc" \in Coders /\ "free" \notin Callers
  BY DEF Callers, Coders
<1>2. UNCHANGED <<closed, crashed, configCh, handedOver, loop, got, config, toAdd, encMu,
                  dataCount, shards, sent>>
  BY DEF HandlePacket, FecHandleACK, SetFECConfig
<1>3. ShardsFit'
  BY <1>2 DEF FecInv, ShardsFit, GroupSize
<1>4. CASE HandlePacket
  <2>1. FecTypeOK' /\ Counted'
    BY <1>1, <1>4 DEF HandlePacket, FecInv, FecTypeOK, Counted
  <2>2. UnderLock'
    BY <1>1, <1>4 DEF HandlePacket, FecInv, FecTypeOK, UnderLock
  <2>3. LatestConfigNotLost'
    BY <1>1, <1>4 DEF HandlePacket, FecInv, FecTypeOK, LatestConfigNotLost, Newest
  <2> QED
    BY <1>3, <2>1, <2>2, <2>3 DEF FecInv
<1>5. ASSUME NEW c \in 0..inFlight, NEW s \in 0..inFlight, FecHandleACK(c, s)
      PROVE  FecInv'
  <2>1. /\ inFlight \in Nat /\ lost \in Nat /\ sent \in Nat /\ c \in Nat /\ s \in Nat
        /\ lost + inFlight <= sent
    BY <1>5 DEF FecInv, FecTypeOK, Counted
  <2>2. /\ inFlight' = inFlight - c - s /\ lost' = lost + c /\ c + s <= inFlight
        /\ UNCHANGED calls
    BY <1>5 DEF FecHandleACK
  <2>3. inFlight' \in 0..sent' /\ lost' \in 0..sent' /\ Counted'
    BY <1>2, <2>1, <2>2 DEF FecInv, Counted
  <2>4. Adjusted(fecConfig, lost', sent) \in Configs
    BY <2>1, <2>2, AdjustedConfig, SMTT(60) DEF FecInv, FecTypeOK
  <2>5. CASE at' = [at EXCEPT !["ack"] = "offer"]
    <3>1. /\ fecConfig' = Adjusted(fecConfig, lost', sent) /\ sendMu' = "ack" /\ sendMu = "free"
          /\ coder' = [coder EXCEPT !["ack"] = "enc"]
      BY <1>1, <1>5, <2>5 DEF FecHandleACK, FecInv, FecTypeOK
    <3>2. FecTypeOK'
      BY <1>1, <1>2, <2>2, <2>3, <2>4, <2>5, <3>1 DEF FecInv, FecTypeOK
    <3>3. UnderLock'
      BY <1>1, <1>2, <2>5, <3>1 DEF FecInv, FecTypeOK, UnderLock
    <3>4. LatestConfigNotLost'
      BY <1>1, <1>2, <1>5, <2>5, <3>1
         DEF FecHandleACK, FecInv, FecTypeOK, LatestConfigNotLost, Newest
    <3> QED
      BY <1>3, <2>3, <3>2, <3>3, <3>4 DEF FecInv
  <2>6. CASE at' = [at EXCEPT !["ack"] = "idle"]
    <3>1. UNCHANGED <<fecConfig, sendMu, coder>> /\ at["ack"] = "checked"
      BY <1>1, <1>5, <2>6 DEF FecHandleACK, FecInv, FecTypeOK
    <3>2. FecTypeOK'
      BY <1>1, <1>2, <2>2, <2>3, <2>6, <3>1 DEF FecInv, FecTypeOK
    <3>3. UnderLock'
      BY <1>1, <1>2, <2>6, <3>1 DEF FecInv, FecTypeOK, UnderLock
    <3>4. LatestConfigNotLost'
      BY <1>1, <1>2, <2>6, <3>1 DEF FecInv, FecTypeOK, LatestConfigNotLost, Newest
    <3> QED
      BY <1>3, <2>3, <3>2, <3>3, <3>4 DEF FecInv
  <2> QED
    BY <1>5, <2>5, <2>6 DEF FecHandleACK
<1>6. ASSUME NEW c \in Chosen, SetFECConfig(c) PROVE FecInv'
  <2>1. c \in Configs /\ calls + 1 \in 0..MaxSet
    BY <1>6, FecAssumption DEF SetFECConfig, FecInv, FecTypeOK
  <2>2. FecTypeOK' /\ Counted'
    BY <1>1, <1>2, <1>6, <2>1 DEF SetFECConfig, FecInv, FecTypeOK, Counted
  <2>3. UnderLock'
    BY <1>1, <1>2, <1>6 DEF SetFECConfig, FecInv, FecTypeOK, UnderLock
  <2>4. LatestConfigNotLost'
    BY <1>1, <1>2, <1>6 DEF SetFECConfig, FecInv, FecTypeOK, LatestConfigNotLost, Newest
  <2> QED
    BY <1>3, <2>2, <2>3, <2>4 DEF FecInv
<1> QED
  BY <1>4, <1>5, <1>6

\* Reconfigure: when it returns, the configuration it was given is the newest one of its
\* coder, and the other coder's is as it was
LEMMA ReconfigureStep ==
    ASSUME FecInv, NEW p \in Callers, Offer(p) \/ Take(p) \/ Put(p) \/ Panic(p)
    PROVE  FecInv'
<1> USE DEF lockVars, statVars, chanVars, loopVars, groupVars
<1> DEFINE x == coder[p]
<1>1. x \in Coders /\ fecConfig \in Configs /\ "free" \notin Callers
  BY DEF FecInv, FecTypeOK, Callers
<1>2. UNCHANGED <<closed, statVars, calls, loopVars, groupVars>>
  BY DEF Offer, Take, Put, Panic
<1>3. ShardsFit' /\ Counted'
  BY <1>2 DEF FecInv, ShardsFit, GroupSize, Counted
<1>4. CASE Panic(p)
  <2>1. FecTypeOK' /\ UnderLock' /\ LatestConfigNotLost'
    BY <1>4 DEF Panic, FecInv, FecTypeOK, UnderLock, LatestConfigNotLost, Newest
  <2> QED
    BY <1>3, <2>1 DEF FecInv
<1>5. CASE (Offer(p) \/ Put(p)) /\ Return(p)
  <2>1. /\ at[p] \in {"offer", "put"} /\ ~closed
        /\ configCh' = [configCh EXCEPT ![x] = << fecConfig >>]
        /\ UNCHANGED crashed
    BY <1>5 DEF Offer, Put, Return, FecInv, FecTypeOK, Coders
  <2>2. handedOver' = [handedOver EXCEPT ![x] = fecConfig]
    BY <1>5 DEF Return
  <2>3. /\ sendMu' \in Callers \cup {"free"}
        /\ at' \in [Callers -> {"idle", "checked", "offer", "take", "put"}]
        /\ coder' \in [Callers -> Coders]
    BY <1>5 DEF Return, FecInv, FecTypeOK, Coders
  <2>4. FecTypeOK'
    BY <1>1, <1>2, <2>1, <2>2, <2>3 DEF FecInv, FecTypeOK
  <2>5. sendMu = p
    BY <2>1 DEF FecInv, UnderLock
  <2>6. UnderLock'
    BY <1>1, <1>2, <1>5, <2>1, <2>5 DEF Return, FecInv, FecTypeOK, UnderLock
  <2>7. ASSUME NEW y \in Coders, handedOver'[y] \in Valid
        PROVE  SameShards(Newest(y), handedOver[y])'
    <3>1. CASE y = x
      <4>1. configCh'[y] = << fecConfig >> /\ handedOver'[y] = fecConfig
        BY <2>1, <2>2, <3>1 DEF FecInv, FecTypeOK
      <4> QED
        BY <4>1 DEF Newest, SameShards
    <3>2. CASE y # x
      <4>1. configCh'[y] = configCh[y] /\ handedOver'[y] = handedOver[y]
        BY <2>1, <2>2, <3>2 DEF FecInv, FecTypeOK
      <4>2. \A q \in Callers : at[q] = "put" => q = p
        BY <2>5 DEF FecInv, UnderLock
      <4>3. SameShards(Newest(y), handedOver[y])
        BY <2>7, <3>2, <4>1, <4>2 DEF FecInv, LatestConfigNotLost
      <4> QED
        BY <1>2, <4>1, <4>3 DEF Newest, SameShards
    <3> QED
      BY <3>1, <3>2
  <2>8. LatestConfigNotLost'
    BY <2>7 DEF LatestConfigNotLost
  <2> QED
    BY <1>3, <2>4, <2>6, <2>8 DEF FecInv
<1>6. CASE (Offer(p) \/ Take(p)) /\ ~Return(p)
  <2>1. /\ at[p] \in {"offer", "take"} /\ UNCHANGED <<sendMu, coder, crashed, handedOver>>
        /\ \/ at' = [at EXCEPT ![p] = "take"] /\ configCh' = configCh
           \/ at' = [at EXCEPT ![p] = "put"] /\ configCh' = [configCh EXCEPT ![x] = << >>]
    BY <1>6 DEF Offer, Take
  <2>2. ~closed
    BY <1>6 DEF Offer, Take, FecInv, UnderLock
  <2>3. FecTypeOK'
    BY <1>1, <1>2, <2>1 DEF FecInv, FecTypeOK
  <2>4. UnderLock'
    <3>1. sendMu = p /\ \A q \in Callers \ {p} : at[q] \notin {"offer", "take", "put"}
      BY <2>1 DEF FecInv, UnderLock
    <3>2. at'[p] \in {"take", "put"} /\ (at'[p] = "put" => configCh'[x] = << >>)
          /\ \A q \in Callers \ {p} : at'[q] = at[q]
      BY <1>1, <2>1 DEF FecInv, FecTypeOK
    <3> QED
      BY <1>2, <2>1, <2>2, <3>1, <3>2 DEF UnderLock
  <2>5. ASSUME NEW y \in Coders, handedOver'[y] \in Valid,
               \A q \in Callers : at'[q] = "put" => coder'[q] # y
        PROVE  SameShards(Newest(y), handedOver[y])'
    <3>1. configCh'[y] = configCh[y] /\ handedOver'[y] = handedOver[y]
      BY <2>1, <2>5 DEF FecInv, FecTypeOK
    <3>2. \A q \in Callers : at[q] = "put" => coder[q] # y
      BY <2>1, <2>5 DEF FecInv, FecTypeOK
    <3>3. SameShards(Newest(y), handedOver[y])
      BY <2>5, <3>1, <3>2 DEF FecInv, LatestConfigNotLost
    <3> QED
      BY <1>2, <3>1, <3>3 DEF Newest, SameShards
  <2>6. LatestConfigNotLost'
    BY <2>5 DEF LatestConfigNotLost
  <2> QED
    BY <1>3, <2>3, <2>4, <2>6 DEF FecInv
<1>7. CASE Take(p) /\ Return(p)
  BY <1>7 DEF Take, Return, FecInv, FecTypeOK, Coders
<1> QED
  BY <1>4, <1>5, <1>6, <1>7 DEF Put

\* configLoop takes the configuration out of the channel and into use; the encoder forgets the
\* group it was filling before its shard counts change
LEMMA LoopStep ==
    ASSUME FecInv, NEW x \in Coders, LoopRecv(x) \/ LoopApply(x) \/ LoopEnd(x)
    PROVE  FecInv'
<1> USE DEF lockVars, statVars, chanVars, loopVars, groupVars
<1>1. UNCHANGED <<lockVars, closed, crashed, statVars, handedOver, toAdd, encMu>>
  BY DEF LoopRecv, LoopApply, LoopEnd
<1>2. Counted' /\ UnderLock'
  <2>1. configCh' = configCh \/ configCh' = [configCh EXCEPT ![x] = << >>]
    BY DEF LoopRecv, LoopApply, LoopEnd
  <2>2. \A y \in Coders : configCh[y] = << >> => configCh'[y] = << >>
    BY <2>1 DEF FecInv, FecTypeOK
  <2>3. \A p \in Callers : coder[p] \in Coders
    BY DEF FecInv, FecTypeOK
  <2> QED
    BY <1>1, <2>2, <2>3 DEF FecInv, Counted, UnderLock
<1>3. CASE LoopRecv(x)
  <2>1. Head(configCh[x]) \in Configs
    BY <1>3, ChannelHolds DEF LoopRecv, FecInv
  <2>2. FecTypeOK'
    BY <1>1, <1>3, <2>1 DEF LoopRecv, FecInv, FecTypeOK
  <2>3. \A y \in Coders : Newest(y)' = Newest(y)
    BY <1>3 DEF LoopRecv, Newest, FecInv, FecTypeOK
  <2>4. LatestConfigNotLost'
    BY <1>1, <2>3 DEF FecInv, LatestConfigNotLost, SameShards
  <2>5. ShardsFit'
    BY <1>3 DEF LoopRecv, FecInv, ShardsFit, GroupSize
  <2> QED
    BY <1>2, <2>2, <2>4, <2>5 DEF FecInv
<1>4. CASE LoopApply(x)
  <2>1. FecTypeOK'
    BY <1>1, <1>4 DEF LoopApply, ResetGroup, Accepted, FecInv, FecTypeOK
  <2>2. ASSUME NEW y \in Coders, handedOver'[y] \in Valid,
               \A q \in Callers : at'[q] = "put" => coder'[q] # y
        PROVE  SameShards(Newest(y), handedOver[y])'
    <3>1. handedOver[y] \in Valid /\ SameShards(Newest(y), handedOver[y])
      BY <1>1, <2>2 DEF FecInv, LatestConfigNotLost
    <3>2. Newest(y) \in Configs
      BY ChannelHolds, FecAssumption DEF Newest, FecInv, FecTypeOK
    <3>3. Newest(y) \in Valid
      BY <3>1, <3>2, FecAssumption DEF SameShards
    <3>4. Newest(y)' = Newest(y)
      BY <1>1, <1>4, <3>3 DEF LoopApply, Newest, Accepted, FecInv, FecTypeOK
    <3> QED
      BY <1>1, <3>1, <3>4 DEF SameShards
  <2>3. LatestConfigNotLost'
    BY <2>2 DEF LatestConfigNotLost
  <2>4. ShardsFit'
    <3>1. CASE dataCount' = 0
      BY <3>1 DEF ShardsFit
    <3>2. CASE dataCount' # 0
      <4>1. /\ UNCHANGED <<dataCount, shards>>
            /\ x = "enc" => SameShards(got[x], config[x]) \/ ~Accepted(x)
        BY <1>4, <3>2 DEF LoopApply, ResetGroup
      <4>2. /\ Data[config'["enc"]] = Data[config["enc"]]
            /\ Parity[config'["enc"]] = Parity[config["enc"]]
        BY <1>4, <4>1 DEF LoopApply, SameShards, FecInv, FecTypeOK, Coders
      <4> QED
        BY <1>1, <4>1, <4>2 DEF FecInv, ShardsFit, GroupSize
    <3> QED
      BY <3>1, <3>2
  <2> QED
    BY <1>2, <2>1, <2>3, <2>4 DEF FecInv
<1>5. CASE LoopEnd(x)
  <2>1. FecTypeOK'
    BY <1>1, <1>5 DEF LoopEnd, FecInv, FecTypeOK
  <2>2. \A y \in Coders : Newest(y)' = Newest(y)
    BY <1>5 DEF LoopEnd, Newest, FecInv, FecTypeOK
  <2>3. LatestConfigNotLost'
    BY <1>1, <2>2 DEF FecInv, LatestConfigNotLost, SameShards
  <2>4. ShardsFit'
    BY <1>5 DEF LoopEnd, FecInv, ShardsFit, GroupSize
  <2> QED
    BY <1>2, <2>1, <2>3, <2>4 DEF FecInv
<1> QED
  BY <1>3, <1>4, <1>5

\* ARQEngine.Close closes the channels with sendMu held, so inside no Reconfigure
LEMMA CloseStep ==
    ASSUME FecInv, Close
    PROVE  FecInv'
<1> USE DEF lockVars, statVars, chanVars, loopVars, groupVars
<1>1. FecTypeOK' /\ Counted'
  BY DEF Close, FecInv, FecTypeOK, Counted
<1>2. UnderLock'
  BY DEF Close, FecInv, UnderLock, Callers
<1>3. LatestConfigNotLost' /\ ShardsFit'
  BY DEF Close, FecInv, LatestConfigNotLost, Newest, ShardsFit, GroupSize
<1> QED
  BY <1>1, <1>2, <1>3 DEF FecInv

\* Every caller, both loops, the encoder and Close keep FecInv
THEOREM FecInvariance == FecSpec => []FecInv
<1>1. ASSUME FecInv, UNCHANGED fecVars PROVE FecInv'
  BY <1>1 DEF fecVars, lockVars, statVars, chanVars, loopVars, groupVars, FecInv, FecTypeOK,
     Counted, UnderLock, LatestConfigNotLost, Newest, ShardsFit, GroupSize
<1>2. FecInv /\ [FecNext]_fecVars => FecInv'
  BY <1>1, GroupStep, ChooseStep, ReconfigureStep, LoopStep, CloseStep DEF FecNext
<1> QED
  BY FecStarts, <1>2, PTL DEF FecSpec

\* The variables keep their types, and no configuration channel holds more than one entry
THEOREM FecTypeCorrect == FecSpec => []FecTypeOK
<1>1. FecInv => FecTypeOK
  BY DEF FecInv
<1> QED
  BY FecInvariance, <1>1, PTL

\* What Reconfigure returned with is what its coder has or will have, unless reedsolomon.New
\* refuses it or a caller that has just discarded it puts a newer one in its place; so a
\* Reconfigure that waits for ever (WedgedForever) leaves its coder with the one handed over
\* before it (Reconfigure, configLoop)
THEOREM LatestConfigKept == FecSpec => []LatestConfigNotLost
<1>1. FecInv => LatestConfigNotLost
  BY DEF FecInv
<1> QED
  BY FecInvariance, <1>1, PTL

\* The encoder indexes inside its shard slice for whatever shard counts, however configLoop,
\* the senders and the flush timer interleave (AddDataPacket, flushLocked)
THEOREM ShardsAlwaysFit == FecSpec => []ShardsFit
<1>1. FecInv => ShardsFit
  BY DEF FecInv
<1> QED
  BY FecInvariance, <1>1, PTL

\* A Reconfigure that waits for a channel only it could fill waits for ever, with sendMu held
\* and the engine open: no step of the loops, of another caller, of Send or of Close, all of
\* which need sendMu or find the channel empty, gets it out (the wait Wedged names)
THEOREM WedgedForever ==
    FecSpec => [][\A p \in Callers :
                      Wedged(p) => Wedged(p)' /\ sendMu = p /\ sendMu' = p]_fecVars
<1> USE DEF lockVars, chanVars
<1>1. ASSUME FecInv, FecNext, NEW p \in Callers, Wedged(p)
      PROVE  Wedged(p)' /\ sendMu = p /\ sendMu' = p
  <2>1. /\ at[p] = "take" /\ configCh[coder[p]] = << >> /\ ~closed
        /\ sendMu = p /\ sendMu # "free" /\ coder[p] \in Coders
    BY <1>1 DEF Wedged, FecInv, FecTypeOK, UnderLock, Callers
  <2>2. ASSUME NEW q \in Callers, Offer(q) \/ Take(q) \/ Put(q) \/ Panic(q)
        PROVE  FALSE
    <3>1. q = p
      BY <1>1, <2>1, <2>2 DEF Offer, Take, Put, Panic, FecInv, UnderLock
    <3> QED
      BY <2>1, <2>2, <3>1 DEF Offer, Take, Put, Panic
  <2>3. \/ AddDataPacket \/ FlushTimer \/ ParitySent \/ HandlePacket
        \/ \E x \in Coders : LoopRecv(x) \/ LoopApply(x) \/ LoopEnd(x)
    BY <1>1, <2>1, <2>2 DEF FecNext, SendLocked, FecHandleACK, SetFECConfig, Close
  <2>4. /\ UNCHANGED <<sendMu, coder, closed>> /\ at'[p] = at[p]
        /\ configCh' = configCh \/ \E x \in Coders : configCh' = [configCh EXCEPT ![x] = << >>]
    BY <1>1, <2>1, <2>3 DEF AddDataPacket, FlushTimer, ParitySent, HandlePacket, LoopRecv,
       LoopApply, LoopEnd, FecInv, FecTypeOK
  <2>5. configCh'[coder[p]] = << >>
    BY <1>1, <2>1, <2>4 DEF FecInv, FecTypeOK
  <2> QED
    BY <2>1, <2>4, <2>5 DEF Wedged
<1>2. FecInv /\ [FecNext]_fecVars
        => [\A p \in Callers : Wedged(p) => Wedged(p)' /\ sendMu = p /\ sendMu' = p]_fecVars
  BY <1>1
<1> QED
  BY FecInvariance, <1>2, PTL DEF FecSpec

\* Everywhere else Reconfigure has a step to take: its first select falls through or finds the
\* channel closed, and the channel it has emptied stays empty until its second send
THEOREM OnlyWedgeBlocks ==
    FecSpec => [](\A p \in Callers : sendMu = p =>
                     \/ at[p] = "offer"
                     \/ at[p] = "take" /\ (configCh[coder[p]] # << >> \/ Wedged(p))
                     \/ at[p] = "put" /\ ~closed /\ configCh[coder[p]] = << >>)
<1>1. FecInv => \A p \in Callers : sendMu = p =>
                     \/ at[p] = "offer"
                     \/ at[p] = "take" /\ (configCh[coder[p]] # << >> \/ Wedged(p))
                     \/ at[p] = "put" /\ ~closed /\ configCh[coder[p]] = << >>
  BY DEF FecInv, UnderLock, Wedged
<1> QED
  BY FecInvariance, <1>1, PTL

\* Reconfigure runs with sendMu held, and once its first select found the channel open Close
\* does not come in between: the panic strikes a Reconfigure that began after Close, never one
\* that Close overtook (handleACK, SetFECConfig, Close)
THEOREM ReconfigureExcludesClose == FecSpec => []UnderLock
<1>1. FecInv => UnderLock
  BY DEF FecInv
<1> QED
  BY FecInvariance, <1>1, PTL
====
