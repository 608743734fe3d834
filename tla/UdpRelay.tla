---- MODULE UdpRelay ----
(***************************************************************************)
(* A UDP association of the SOCKS5 proxy (pkg/proxy/udp.go) and the        *)
(* server's end of its streams (handleUDPStream, cmd/server/main.go).  One *)
(* buffer serves every datagram of an association: the loop reads into it, *)
(* and the goroutines it starts keep slices of it, for the payload they    *)
(* send and for the header they put before the answer; append puts the     *)
(* answer into the buffer too, if there is room.  Nothing orders these     *)
(* accesses: the steps below are the copies, each taken as whole.          *)
(* A datagram is the number of its arrival; its length and that of its     *)
(* header are counted in cells.  Init, Next and the like carry the prefix  *)
(* Udp, so that Relay_proofs extends both modules.                         *)
(* Bug... is a mutated form of the definition after it.                    *)
(***************************************************************************)
EXTENDS Integers, Sequences

CONSTANTS
    MaxDatagrams,    \* bound: datagrams of the association
    HeadLens,        \* lengths of a header (10 for IPv4, 22 for IPv6, a name's)
    DataLens, AnswerLens,
    BufferSize       \* cells of the buffer (65535)

Datagrams == 1..MaxDatagrams

ASSUME UdpRelayAssumption ==
    /\ MaxDatagrams \in Nat /\ BufferSize \in Nat
    /\ HeadLens \cup DataLens \cup AnswerLens \subseteq Nat
    /\ \A h \in HeadLens, n \in DataLens : h + n <= BufferSize

\* What becomes of a datagram: malformed or fragmented, or what the router says; "cut" is a
\* proxied one with an address of 256 bytes or more, whose length loses its upper bits
Verdicts == {"invalid", "block", "direct", "proxy", "cut"}

VARIABLES
    tcp,          \* the association's TCP connection: "open" or "closed"
    udp,          \* its UDP socket
    loop,         \* relayUDP: "read" or "done"
    buffer,       \* the shared buffer: what each cell has
    arrived,      \* datagrams read so far
    shape,        \* per datagram: [head, data: its lengths, policy]
    pc,           \* its goroutine: "none", "start", "opened", "sent", "answered", "built", "done"
    out,          \* the payload that went out
    answerLen,    \* the length of the answer
    sentBack,     \* what was sent back
    writes,       \* history: writes into the buffer
    stamp,        \* history: how many there were when the datagram was in it
    clean         \* history: the goroutine saw the buffer as it was then, and as it left it

udpVars == <<tcp, udp, loop, buffer, arrived, shape, pc, out, answerLen, sentBack,
          writes, stamp, clean>>

None == 0

\* Cells of datagram d: of its header, which holds the target's address, of its payload, and
\* of the answer to it
Cells(part, d, n) == [i \in 1..n |-> <<part, d, i>>]

UdpInit ==
    /\ tcp = "open" /\ udp = "open" /\ loop = "read"
    /\ buffer = <<>> /\ arrived = 0
    /\ shape = [d \in Datagrams |-> [head |-> 0, data |-> 0, policy |-> "none"]]
    /\ pc = [d \in Datagrams |-> "none"]
    /\ out = [d \in Datagrams |-> <<>>] /\ answerLen = [d \in Datagrams |-> 0]
    /\ sentBack = [d \in Datagrams |-> <<>>]
    /\ writes = 0 /\ stamp = [d \in Datagrams |-> 0] /\ clean = [d \in Datagrams |-> TRUE]

\* Cells c are written over the buffer's, from cell i on
Overwrite(i, c) ==
    [j \in 1..(IF i + Len(c) - 1 > Len(buffer) THEN i + Len(c) - 1 ELSE Len(buffer)) |->
        IF j \in i..(i + Len(c) - 1) THEN c[j - i + 1] ELSE buffer[j]]

-----------------------------------------------------------------------------
(* The association.                                                        *)

TcpCloses ==
    /\ tcp = "open" /\ tcp' = "closed"
    /\ UNCHANGED <<udp, loop, buffer, arrived, shape, pc, out, answerLen, sentBack, writes,
                   stamp, clean>>

\* The goroutine that waits for the end of the TCP connection
CloseUdp ==
    /\ tcp = "closed" /\ udp = "open" /\ udp' = "closed"
    /\ UNCHANGED <<tcp, loop, buffer, arrived, shape, pc, out, answerLen, sentBack, writes,
                   stamp, clean>>

BugLoopEnds == loop = "read" /\ udp = "closed" /\ UNCHANGED udpVars
\* Any error of a read ends the loop, and handleUDPAssociate and handleConn close what they have
LoopEnds ==
    /\ loop = "read" /\ loop' = "done"
    /\ udp' = "closed" /\ tcp' = "closed"
    /\ UNCHANGED <<buffer, arrived, shape, pc, out, answerLen, sentBack, writes, stamp,
                   clean>>

\* The address is parsed before the goroutine starts, the rest is not copied.  What is
\* malformed, fragmented or blocked goes no further.
ReadDatagram(h, n, policy) ==
    LET d == arrived + 1
    IN  /\ loop = "read" /\ udp = "open" /\ d \in Datagrams
        /\ arrived' = d
        /\ buffer' = Overwrite(1, Cells("head", d, h) \o Cells("data", d, n))
        /\ writes' = writes + 1 /\ stamp' = [stamp EXCEPT ![d] = writes']
        /\ shape' = [shape EXCEPT ![d] = [head |-> h, data |-> n, policy |-> policy]]
        /\ \/ policy \in {"invalid", "block"} /\ pc' = [pc EXCEPT ![d] = "done"]
           \/ policy \in {"proxy", "cut"} /\ pc' = [pc EXCEPT ![d] = "start"]
           \/ policy = "direct" /\ pc' = [pc EXCEPT ![d] = "opened"]
        /\ UNCHANGED <<tcp, udp, loop, out, answerLen, sentBack, clean>>

-----------------------------------------------------------------------------
(* relayUDPDirect and relayUDPProxy.                                       *)

\* session.Open, with no limit of time: a stream, or an error
Open(d) ==
    /\ pc[d] = "start"
    /\ \E to \in {"opened", "done"} : pc' = [pc EXCEPT ![d] = to]
    /\ UNCHANGED <<tcp, udp, loop, buffer, arrived, shape, out, answerLen, sentBack, writes,
                   stamp, clean>>

\* buf[from:to] as it is now
Slice(from, to) == SubSeq(buffer, from, to)

BugSend(d) ==
    /\ pc[d] = "opened"
    /\ out' = [out EXCEPT ![d] = Slice(1, shape[d].head + shape[d].data)]
    /\ clean' = [clean EXCEPT ![d] = (writes = stamp[d])]
    /\ pc' = [pc EXCEPT ![d] = "sent"]
    /\ UNCHANGED <<tcp, udp, loop, buffer, arrived, shape, answerLen, sentBack, writes,
                   stamp>>
\* The payload goes to the target, or with its address into the stream
Send(d) ==
    /\ pc[d] = "opened" /\ shape[d].policy # "cut"
    /\ out' = [out EXCEPT ![d] = Slice(shape[d].head + 1, shape[d].head + shape[d].data)]
    /\ clean' = [clean EXCEPT ![d] = (writes = stamp[d])]
    /\ pc' = [pc EXCEPT ![d] = "sent"]
    /\ UNCHANGED <<tcp, udp, loop, buffer, arrived, shape, answerLen, sentBack, writes,
                   stamp>>

\* With the length of the address cut to a byte, the server takes some of the address for the
\* target and for the length of the payload: what it sends, if anything, is not the datagram
SendCut(d) ==
    /\ pc[d] = "opened" /\ shape[d].policy = "cut"
    /\ pc' = [pc EXCEPT ![d] = "sent"]
    /\ UNCHANGED <<tcp, udp, loop, buffer, arrived, shape, out, answerLen, sentBack, writes,
                   stamp, clean>>

\* The answer comes, through handleUDPStream or not
Answer(d, n) ==
    /\ pc[d] = "sent"
    /\ answerLen' = [answerLen EXCEPT ![d] = n]
    /\ pc' = [pc EXCEPT ![d] = "answered"]
    /\ UNCHANGED <<tcp, udp, loop, buffer, arrived, shape, out, sentBack, writes, stamp,
                   clean>>

BugFail(d) == pc[d] = "sent" /\ udp = "open" /\ pc' = [pc EXCEPT ![d] = "done"]
              /\ UNCHANGED <<tcp, udp, loop, buffer, arrived, shape, out, answerLen,
                             sentBack, writes, stamp, clean>>

\* A write fails, the address cannot be resolved, or nothing comes within 10s
Fail(d) ==
    /\ pc[d] \in {"opened", "sent"}
    /\ pc' = [pc EXCEPT ![d] = "done"]
    /\ UNCHANGED <<tcp, udp, loop, buffer, arrived, shape, out, answerLen, sentBack, writes,
                   stamp, clean>>

Fits(d) == shape[d].head + answerLen[d] <= BufferSize

\* append(socksHeader, ...): if there is room the answer goes into the buffer itself
Build(d) ==
    /\ pc[d] = "answered" /\ Fits(d)
    /\ buffer' = Overwrite(shape[d].head + 1, Cells("answer", d, answerLen[d]))
    /\ writes' = writes + 1
    /\ clean' = [clean EXCEPT ![d] = @ /\ writes = stamp[d]]
    /\ pc' = [pc EXCEPT ![d] = "built"]
    /\ UNCHANGED <<tcp, udp, loop, arrived, shape, out, answerLen, sentBack, stamp>>

\* Otherwise append takes a copy of the header, and the reply is the goroutine's own
BuildAside(d) ==
    /\ pc[d] = "answered" /\ ~Fits(d)
    /\ sentBack' = [sentBack EXCEPT ![d] =
                      IF udp = "open"
                      THEN Slice(1, shape[d].head) \o Cells("answer", d, answerLen[d])
                      ELSE <<>>]
    /\ clean' = [clean EXCEPT ![d] = @ /\ writes = stamp[d]]
    /\ pc' = [pc EXCEPT ![d] = "done"]
    /\ UNCHANGED <<tcp, udp, loop, buffer, arrived, shape, out, answerLen, writes, stamp>>

BugReply(d) ==
    /\ pc[d] = "built"
    /\ sentBack' = [sentBack EXCEPT ![d] =
                      IF udp = "open" THEN Slice(1, shape[d].head + shape[d].data) ELSE <<>>]
    /\ clean' = [clean EXCEPT ![d] = @ /\ writes = stamp[d] + 1]
    /\ pc' = [pc EXCEPT ![d] = "done"]
    /\ UNCHANGED <<tcp, udp, loop, buffer, arrived, shape, out, answerLen, writes, stamp>>
\* WriteToUDP, unless the association is over
Reply(d) ==
    /\ pc[d] = "built"
    /\ sentBack' = [sentBack EXCEPT ![d] =
                      IF udp = "open" THEN Slice(1, shape[d].head + answerLen[d]) ELSE <<>>]
    /\ clean' = [clean EXCEPT ![d] = @ /\ writes = stamp[d] + 1]
    /\ pc' = [pc EXCEPT ![d] = "done"]
    /\ UNCHANGED <<tcp, udp, loop, buffer, arrived, shape, out, answerLen, writes, stamp>>

UdpNext ==
    \/ TcpCloses \/ CloseUdp \/ LoopEnds
    \/ \E h \in HeadLens, n \in DataLens, policy \in Verdicts : ReadDatagram(h, n, policy)
    \/ \E d \in Datagrams :
          \/ Open(d) \/ Send(d) \/ SendCut(d) \/ Fail(d)
          \/ Build(d) \/ BuildAside(d) \/ Reply(d)
          \/ \E n \in AnswerLens : Answer(d, n)

UdpSpec == UdpInit /\ [][UdpNext]_udpVars

(* Goroutines run and deadlines pass.  session.Open need not return.       *)
UdpFairness ==
    /\ WF_udpVars(CloseUdp) /\ WF_udpVars(LoopEnds /\ udp = "closed")
    /\ \A d \in Datagrams :
          WF_udpVars(Fail(d)) /\ WF_udpVars(Build(d) \/ BuildAside(d)) /\ WF_udpVars(Reply(d))

UdpFairSpec == UdpSpec /\ UdpFairness

-----------------------------------------------------------------------------
\* Types, and no goroutine uses a part of the buffer that was never read (relayUDP).
UdpTypeOK ==
    /\ tcp \in {"open", "closed"} /\ udp \in {"open", "closed"} /\ loop \in {"read", "done"}
    /\ arrived \in 0..MaxDatagrams
    /\ \A d \in Datagrams :
          /\ pc[d] \in {"none", "start", "opened", "sent", "answered", "built", "done"}
          /\ Len(out[d]) <= shape[d].data
          /\ shape[d].head + shape[d].data <= Len(buffer)
          /\ stamp[d] <= writes

\* A goroutine that had the buffer to itself, from the arrival of its datagram to the end of
\* its last use of it, sent the whole payload and nothing else, unless the length of the
\* address was cut, and answered with the header of its datagram and the answer that came.
Undisturbed ==
    \A d \in Datagrams :
        /\ clean[d] /\ pc[d] \in {"sent", "answered", "built"} /\ shape[d].policy # "cut" =>
              out[d] = Cells("data", d, shape[d].data)
        /\ clean[d] /\ sentBack[d] # <<>> =>
              sentBack[d] = Cells("head", d, shape[d].head) \o Cells("answer", d, answerLen[d])

\* However disturbed, what is sent has the length it should have, and no cell of it was
\* never written: the goroutines stay inside the part of the buffer that was read.
InBounds ==
    \A d \in Datagrams :
        /\ pc[d] \in {"sent", "answered", "built"} /\ shape[d].policy # "cut" =>
              Len(out[d]) = shape[d].data
        /\ sentBack[d] # <<>> => Len(sentBack[d]) = shape[d].head + answerLen[d]

\* The race for the buffer can change what a datagram says, never how long it is, and not even
\* that for a goroutine nobody overtook (relayUDP).
DatagramsIntact == InBounds /\ Undisturbed

\* The association ends with its TCP connection (handleUDPAssociate).
AssociationEnds == tcp = "closed" ~> loop = "done"

\* Once its stream is open, or with none, a goroutine comes to its end.
GoroutinesEnd == \A d \in Datagrams : pc[d] = "opened" ~> pc[d] = "done"

\* Neither the association nor what it started outlives its use, except for a goroutine
\* whose stream does not open (handleUDPAssociate, relayUDP).
EverythingEnds == AssociationEnds /\ GoroutinesEnd
====
