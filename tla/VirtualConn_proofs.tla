---- MODULE VirtualConn_proofs ----
(***************************************************************************)
(* Proofs about VirtualConn for any number of overlapping rotations.       *)
(***************************************************************************)
EXTENDS VirtualConn, SequenceTheorems, FiniteSetTheorems, TLAPS

\* While writes are buffered some rotation is going to stop it, and nothing is in the
\* buffer while they are not
IInv ==
    /\ rotator \in [Rotators -> States]
    /\ swapping => \E r \in Rotators : Buffering(r)
    /\ ~swapping => swapBuf = << >>

\* A rotation that starts buffers, and the one that ends opens the write path again
\* (SwapConnectionSeamless, RotateTransport)
LEMMA RotationStep ==
    ASSUME IInv, NEW r \in Rotators, Begin(r) \/ Rotate(r)
    PROVE  IInv'
<1>1. CASE Begin(r)
  BY <1>1 DEF Begin, IInv, Buffering, States
<1>2. CASE Move(r)
  <2>1. /\ rotator' \in [Rotators -> States]
        /\ \A q \in Rotators : Buffering(q) => Buffering(q)'
        /\ UNCHANGED <<swapping, swapBuf>>
    BY <1>2 DEF Move, IInv, Buffering, States
  <2> QED
    BY <2>1 DEF IInv
<1>3. CASE Abort(r) \/ Take(r)
  <2>1. /\ rotator' \in [Rotators -> States]
        /\ swapping' = FALSE /\ swapBuf' = << >>
    BY <1>3 DEF Abort, Take, DiscardBuffer, IInv, States
  <2> QED
    BY <2>1 DEF IInv
<1>4. CASE Replay(r) \/ ReplayFails(r) \/ Finish(r)
  <2>1. /\ rotator' \in [Rotators -> States]
        /\ \A q \in Rotators : Buffering(q) => Buffering(q)'
        /\ UNCHANGED <<swapping, swapBuf>>
    BY <1>4 DEF Replay, ReplayFails, Finish, IInv, Buffering, States
  <2> QED
    BY <2>1 DEF IInv
<1> QED
  BY <1>1, <1>2, <1>3, <1>4 DEF Rotate

\* A write is buffered only while the swap is on (Write)
LEMMA WriteStep ==
    ASSUME IInv, Write \/ Capture \/ Send \/ SendFails \/ UNCHANGED vars
    PROVE  IInv'
<1>1. UNCHANGED <<swapping, rotator>>
  BY DEF Write, Capture, Send, SendFails, vars
<1>2. ~swapping => swapBuf' = swapBuf
  BY DEF Write, Capture, Send, SendFails, vars
<1> QED
  BY <1>1, <1>2 DEF IInv, Buffering

\* The strengthening is inductive: at first nothing is buffered
LEMMA WritePath == Spec => []IInv
<1>1. Init => IInv
  BY DEF Init, IInv, States
<1>2. IInv /\ [Next]_vars => IInv'
  BY RotationStep, WriteStep DEF Next
<1> QED
  BY <1>1, <1>2, PTL DEF Spec

\* However many connections roam to a session at once, the last rotation to end leaves the
\* write path open and the buffer empty: no write waits for a rotation that is over
\* (SwapConnectionSeamless, RotateTransport)
THEOREM WritePathRestored == Spec => []Restored
<1>1. IInv => Restored
  BY DEF IInv, Restored, Buffering, Active
<1> QED
  BY WritePath, <1>1, PTL

-----------------------------------------------------------------------------
(* Types, and the order of what a rotation replays.                        *)

\* The writer has a write in hand exactly when it has been counted
HasWrite == writer # "idle" => writes >= 1

\* The shared buffer holds the writes in the order of their calls, and each rotation took it
\* as it was
OInv == TypeOK /\ HasWrite /\ Ascending(swapBuf) /\ ReplayInOrder

\* A new write goes to the end of an ordered queue (Write)
LEMMA AppendKeepsOrder ==
    ASSUME NEW n \in Nat, NEW q \in Seq(1..n), Ascending(q)
    PROVE  Append(q, n + 1) \in Seq(1..(n + 1)) /\ Ascending(Append(q, n + 1))
<1> DEFINE a == Append(q, n + 1)
<1>1. 1..n \subseteq 1..(n + 1) /\ n + 1 \in 1..(n + 1)
  OBVIOUS
<1>2. q \in Seq(1..(n + 1))
  BY <1>1, SeqMonotonic
<1>3. /\ a \in Seq(1..(n + 1)) /\ Len(a) = Len(q) + 1 /\ a[Len(q) + 1] = n + 1
      /\ \A i \in 1..Len(q) : a[i] = q[i]
  BY <1>1, <1>2, AppendProperties
<1>4. Len(q) \in Nat /\ \A i \in 1..Len(q) : q[i] \in 1..n
  BY LenProperties, ElementOfSeq
<1>5. ASSUME NEW j \in 1..Len(a), NEW k \in 1..Len(a), j < k PROVE a[j] < a[k]
  <2>1. j \in 1..Len(q) /\ (k \in 1..Len(q) \/ k = Len(q) + 1)
    BY <1>3, <1>4, <1>5
  <2>2. CASE k \in 1..Len(q)
    BY <1>3, <1>5, <2>1, <2>2 DEF Ascending
  <2>3. CASE k = Len(q) + 1
    BY <1>3, <1>4, <2>1, <2>3
  <2> QED
    BY <2>1, <2>2, <2>3
<1> HIDE DEF a
<1>6. Ascending(a)
  BY <1>5 DEF Ascending
<1> QED
  BY <1>3, <1>6 DEF a

\* A queue without its first write is in order (the replay loop)
LEMMA TailKeepsOrder ==
    ASSUME NEW n \in Nat, NEW q \in Seq(1..n), Ascending(q), q # << >>
    PROVE  Head(q) \in 1..n /\ Tail(q) \in Seq(1..n) /\ Ascending(Tail(q))
<1>1. /\ Head(q) \in 1..n /\ Tail(q) \in Seq(1..n) /\ Len(Tail(q)) = Len(q) - 1
      /\ \A i \in 1..Len(Tail(q)) : Tail(q)[i] = q[i + 1]
  BY HeadTailProperties
<1>2. Len(q) \in Nat
  BY LenProperties
<1> QED
  BY <1>1, <1>2 DEF Ascending

\* A queue gives up exactly its first write
LEMMA TailHolds ==
    ASSUME NEW n \in Nat, NEW q \in Seq(1..n), Ascending(q), q # << >>
    PROVE  Head(q) \in ToSet(q) /\ ToSet(Tail(q)) = ToSet(q) \ {Head(q)}
<1>1. /\ Len(q) \in Nat /\ Len(q) >= 1 /\ Head(q) = q[1] /\ Len(Tail(q)) = Len(q) - 1
      /\ \A i \in 1..Len(Tail(q)) : Tail(q)[i] = q[i + 1]
  BY HeadTailProperties, LenProperties, EmptySeq
<1>2. \A i \in 1..Len(q) : q[i] \in 1..n
  BY ElementOfSeq
<1>3. ASSUME NEW i \in 1..Len(q), i # 1
      PROVE  q[i] # q[1] /\ i - 1 \in 1..Len(Tail(q)) /\ Tail(q)[i - 1] = q[i]
  <2>1. q[1] < q[i]
    BY <1>1, <1>3 DEF Ascending
  <2>2. i - 1 \in 1..Len(Tail(q)) /\ (i - 1) + 1 = i
    BY <1>1, <1>3
  <2> QED
    BY <1>1, <1>2, <1>3, <2>1, <2>2
<1>4. \A i \in 1..Len(Tail(q)) : i + 1 \in 1..Len(q) /\ i + 1 # 1
  BY <1>1
<1>5. ToSet(Tail(q)) \subseteq ToSet(q) \ {Head(q)}
  BY <1>1, <1>3, <1>4 DEF ToSet
<1>6. ToSet(q) \ {Head(q)} \subseteq ToSet(Tail(q))
  <2> SUFFICES ASSUME NEW i \in 1..Len(q), q[i] # q[1] PROVE q[i] \in ToSet(Tail(q))
    BY <1>1 DEF ToSet
  <2>1. i - 1 \in 1..Len(Tail(q)) /\ Tail(q)[i - 1] = q[i]
    BY <1>3
  <2>2. DOMAIN Tail(q) = 1..Len(Tail(q))
    BY HeadTailProperties, LenProperties
  <2> QED
    BY <2>1, <2>2 DEF ToSet
<1>7. Head(q) \in ToSet(q)
  BY <1>1 DEF ToSet
<1> QED
  BY <1>5, <1>6, <1>7

\* Nothing is in order
LEMMA EmptyIsOrdered == \A S : << >> \in Seq(S) /\ Ascending(<< >>)
BY EmptySeq DEF Ascending

\* What is discarded has been written (SwapConnectionSeamless, RotateTransport)
LEMMA DiscardType ==
    ASSUME NEW n \in Nat, NEW q \in Seq(1..n)
    PROVE  ToSet(q) \subseteq 1..n
BY ElementOfSeq DEF ToSet

\* Write numbers its calls: the buffer grows at its end by the latest (Write)
LEMMA OrderWrite ==
    ASSUME OInv, Write
    PROVE  OInv'
<1>1. writes \in Nat /\ writes' = writes + 1 /\ writes' \in 0..MaxWrites
  BY VirtualConnAssumption DEF Write, OInv, TypeOK
<1>2. 1..writes \subseteq 1..writes'
  BY <1>1
<1>3. \A q \in Seq(1..writes) : q \in Seq(1..writes')
  BY <1>2, SeqMonotonic
<1>4. swapBuf' \in Seq(1..writes') /\ Ascending(swapBuf')
  <2>1. CASE swapping
    BY <1>1, <2>1, AppendKeepsOrder DEF Write, OInv, TypeOK
  <2>2. CASE ~swapping
    BY <1>3, <2>2 DEF Write, OInv, TypeOK
  <2> QED
    BY <2>1, <2>2
<1>5. /\ buffered' \in [Rotators -> Seq(1..writes')] /\ wire' \in [ConnSet -> Seq(1..writes')]
      /\ dropped' \subseteq 1..writes' /\ torn' \subseteq dropped'
  BY <1>2, <1>3 DEF Write, lossVars, OInv, TypeOK
<1>6. writer' \in {"idle", "direct", "send"} /\ HasWrite'
  BY <1>1 DEF Write, OInv, TypeOK, HasWrite
<1>7. ReplayInOrder'
  BY DEF Write, OInv, ReplayInOrder
<1> QED
  BY <1>1, <1>4, <1>5, <1>6, <1>7 DEF Write, OInv, TypeOK

\* A direct write goes to the connection it captured, or fails (Write)
LEMMA OrderSend ==
    ASSUME OInv, Capture \/ Send \/ SendFails
    PROVE  OInv'
<1>1. CASE Capture
  BY <1>1 DEF Capture, lossVars, OInv, TypeOK, HasWrite, ReplayInOrder
<1>2. CASE Send
  <2>1. writes \in 1..writes /\ captured \in ConnSet
    BY <1>2 DEF Send, OInv, TypeOK, HasWrite
  <2>2. wire' \in [ConnSet -> Seq(1..writes)]
    BY <1>2, <2>1, AppendProperties DEF Send, OInv, TypeOK
  <2> QED
    BY <1>2, <2>2 DEF Send, lossVars, OInv, TypeOK, HasWrite, ReplayInOrder
<1>3. CASE SendFails
  <2>1. writes \in 1..writes
    BY <1>3 DEF SendFails, OInv, TypeOK, HasWrite
  <2> QED
    BY <1>3, <2>1 DEF SendFails, OInv, TypeOK, HasWrite, ReplayInOrder
<1> QED
  BY <1>1, <1>2, <1>3

\* A rotation empties the buffer, takes it whole or replays from its front
\* (SwapConnectionSeamless, RotateTransport)
LEMMA OrderRotation ==
    ASSUME OInv, NEW r \in Rotators, Begin(r) \/ Rotate(r)
    PROVE  OInv'
<1>1. /\ UNCHANGED <<kind, writes, writer, captured>>
      /\ writes \in Nat /\ HasWrite'
  BY DEF Begin, Rotate, Move, Abort, Take, Replay, ReplayFails, Finish, writerVars,
         OInv, TypeOK, HasWrite
<1>2. conn' \in ConnSet /\ swapping' \in BOOLEAN /\ rotator' \in [Rotators -> States]
      /\ overlapped' \in BOOLEAN
  <2>1. conn' \in ConnSet
    BY DEF Begin, Rotate, Move, Abort, Take, Replay, ReplayFails, Finish, OInv, TypeOK, ConnSet
  <2>2. swapping' \in BOOLEAN
    BY DEF Begin, Rotate, Move, Abort, Take, Replay, ReplayFails, Finish, OInv, TypeOK
  <2>3. rotator' \in [Rotators -> States]
    BY DEF Begin, Rotate, Move, Abort, Take, Replay, ReplayFails, Finish, OInv, TypeOK, States
  <2>4. overlapped' \in BOOLEAN
    BY DEF Begin, Rotate, Move, Abort, Take, Replay, ReplayFails, Finish, OInv, TypeOK
  <2> QED
    BY <2>1, <2>2, <2>3, <2>4
<1>3. swapBuf' \in Seq(1..writes) /\ Ascending(swapBuf')
  <2>1. swapBuf' = swapBuf \/ swapBuf' = << >>
    BY DEF Begin, Rotate, Move, Abort, Take, Replay, ReplayFails, Finish, DiscardBuffer
  <2> QED
    BY <2>1, EmptyIsOrdered DEF OInv, TypeOK
<1>4. buffered' \in [Rotators -> Seq(1..writes)] /\ ReplayInOrder'
  <2>1. CASE buffered' = buffered
    BY <2>1 DEF OInv, TypeOK, ReplayInOrder
  <2>2. ASSUME NEW q \in Seq(1..writes), Ascending(q), buffered' = [buffered EXCEPT ![r] = q]
        PROVE  buffered' \in [Rotators -> Seq(1..writes)] /\ ReplayInOrder'
    BY <2>2 DEF OInv, TypeOK, ReplayInOrder
  <2>3. CASE Take(r)
    BY <2>2, <2>3 DEF Take, OInv, TypeOK
  <2>4. CASE Replay(r)
    <3>1. buffered[r] \in Seq(1..writes) /\ Ascending(buffered[r]) /\ buffered[r] # << >>
      BY <2>4 DEF Replay, OInv, TypeOK, ReplayInOrder
    <3>2. Tail(buffered[r]) \in Seq(1..writes) /\ Ascending(Tail(buffered[r]))
      BY <1>1, <3>1, TailKeepsOrder
    <3> QED
      BY <2>2, <2>4, <3>2 DEF Replay
  <2>5. CASE ReplayFails(r)
    BY <2>2, <2>5, EmptyIsOrdered DEF ReplayFails
  <2> QED
    BY <2>1, <2>3, <2>4, <2>5 DEF Begin, Rotate, Move, Abort, Finish
<1>5. wire' \in [ConnSet -> Seq(1..writes)]
  <2>1. CASE Replay(r)
    <3>1. buffered[r] \in Seq(1..writes) /\ Ascending(buffered[r]) /\ buffered[r] # << >>
      BY <2>1 DEF Replay, OInv, TypeOK, ReplayInOrder
    <3>2. Head(buffered[r]) \in 1..writes
      BY <1>1, <3>1, TailKeepsOrder
    <3>3. ReplayConn(r) \in ConnSet
      BY DEF ReplayConn, ConnSet, OInv, TypeOK
    <3>4. Append(wire[ReplayConn(r)], Head(buffered[r])) \in Seq(1..writes)
      BY <3>2, <3>3, AppendProperties DEF OInv, TypeOK
    <3> QED
      BY <2>1, <3>4 DEF Replay, OInv, TypeOK
  <2>2. CASE ~Replay(r)
    BY <2>2 DEF Begin, Rotate, Move, Abort, Take, ReplayFails, Finish, OInv, TypeOK
  <2> QED
    BY <2>1, <2>2
<1>6. dropped' \subseteq 1..writes /\ torn' \subseteq dropped'
  <2>0. buffered[r] # << >> => Head(buffered[r]) \in ToSet(buffered[r])
    BY <1>1, TailHolds DEF OInv, TypeOK, ReplayInOrder
  <2>1. ToSet(swapBuf) \subseteq 1..writes /\ ToSet(buffered[r]) \subseteq 1..writes
    BY <1>1, DiscardType DEF OInv, TypeOK
  <2> QED
    BY <2>0, <2>1 DEF Begin, Rotate, Move, Abort, Take, Replay, ReplayFails, Finish,
       DiscardBuffer, lossVars, OInv, TypeOK
<1> QED
  BY <1>1, <1>2, <1>3, <1>4, <1>5, <1>6 DEF OInv, TypeOK

\* The strengthening of the two theorems that follow: it is inductive
THEOREM OrderInvariance == Spec => []OInv
<1>1. Init => OInv
  <2> SUFFICES ASSUME Init PROVE OInv
    OBVIOUS
  <2>1. << >> \in Seq(1..0) /\ Ascending(<< >>)
    BY EmptyIsOrdered
  <2>2. writes = 0 /\ 0 \in 0..MaxWrites
    BY VirtualConnAssumption DEF Init
  <2>3. TypeOK
    BY <2>1, <2>2 DEF Init, TypeOK, ConnSet, States
  <2>4. HasWrite /\ Ascending(swapBuf) /\ ReplayInOrder
    BY <2>1 DEF Init, HasWrite, ReplayInOrder
  <2> QED
    BY <2>3, <2>4 DEF OInv
<1>2. OInv /\ [Next]_vars => OInv'
  <2>1. OInv /\ UNCHANGED vars => OInv'
    BY DEF vars, writerVars, lossVars, OInv, TypeOK, HasWrite, ReplayInOrder, Ascending
  <2> QED
    BY <2>1, OrderWrite, OrderSend, OrderRotation DEF Next
<1> QED
  BY <1>1, <1>2, PTL DEF Spec

\* Every variable of the write path keeps its type (virtual_conn.go, manager.go)
THEOREM TypeCorrect == Spec => []TypeOK
<1>1. OInv => TypeOK
  BY DEF OInv
<1> QED
  BY <1>1, OrderInvariance, PTL

\* What a rotation replays are writes in the order of their calls, however many rotations
\* share the buffer (Write, SwapConnectionSeamless)
THEOREM ReplayOrdered == Spec => []ReplayInOrder
<1>1. OInv => ReplayInOrder
  BY DEF OInv
<1> QED
  BY <1>1, OrderInvariance, PTL

-----------------------------------------------------------------------------
(* No write is doubled and none vanishes.                                  *)

\* Where a write can be, whatever its position there
Buffer == <<"buffer", Original>>
WriterHand == <<"writer", Original>>
Discarded == <<"dropped", Original>>
ReplayOf(r) == <<"replay", r>>
WireOf(c) == <<"wire", c>>
Site == {"buffer", "writer", "dropped", "replay", "wire"} \X ConnSet

HeldAt(tag, c) ==
    CASE tag = "buffer" -> IF c = Original THEN ToSet(swapBuf) ELSE {}
      [] tag = "writer" -> IF c = Original /\ writer # "idle" THEN {writes} ELSE {}
      [] tag = "dropped" -> IF c = Original THEN dropped ELSE {}
      [] tag = "replay" -> IF c \in Rotators THEN ToSet(buffered[c]) ELSE {}
      [] tag = "wire" -> ToSet(wire[c])
Held == [s \in Site |-> HeldAt(s[1], s[2])]

\* Each of the first n writes is at one site
Partition(h, n) ==
    \A w \in 1..n : \E s \in Site : w \in h[s] /\ \A t \in Site : w \in h[t] => t = s

\* No queue holds a write twice
Once(q) == \A j, k \in 1..Len(q) : q[j] = q[k] => j = k

\* A rotation holds writes only while it replays; no connection has a write twice; each write
\* is at one site
PInv ==
    /\ OInv
    /\ \A r \in Rotators : rotator[r] # "replay" => buffered[r] = << >>
    /\ \A c \in ConnSet : Once(wire[c])
    /\ Partition(Held, writes)

\* A set of writes that goes from one site to another leaves each write at one site
LEMMA MoveKeeps ==
    ASSUME NEW n, NEW h, NEW g, Partition(h, n),
           NEW s \in Site, NEW t \in Site, s # t,
           NEW moved, moved \subseteq h[s],
           g[s] = h[s] \ moved, g[t] = h[t] \cup moved,
           \A u \in Site \ {s, t} : g[u] = h[u]
    PROVE  Partition(g, n)
<1> SUFFICES ASSUME NEW w \in 1..n
             PROVE  \E u \in Site : w \in g[u] /\ \A v \in Site : w \in g[v] => v = u
  BY DEF Partition
<1>1. PICK u \in Site : w \in h[u] /\ \A v \in Site : w \in h[v] => v = u
  BY DEF Partition
<1>2. CASE w \in moved
  <2>1. u = s
    BY <1>1, <1>2
  <2>2. w \in g[t] /\ \A v \in Site : w \in g[v] => v = t
    BY <1>1, <1>2, <2>1
  <2> QED
    BY <2>2
<1>3. CASE w \notin moved
  <2>1. w \in g[u] /\ \A v \in Site : w \in g[v] => v = u
    BY <1>1, <1>3
  <2> QED
    BY <2>1
<1> QED
  BY <1>2, <1>3

\* A write that is counted and put at one site is there only
LEMMA AddKeeps ==
    ASSUME NEW n \in Nat, NEW h, NEW g, Partition(h, n),
           \A u \in Site : h[u] \subseteq 1..n,
           NEW t \in Site,
           g[t] = h[t] \cup {n + 1},
           \A u \in Site \ {t} : g[u] = h[u]
    PROVE  Partition(g, n + 1)
<1> SUFFICES ASSUME NEW w \in 1..(n + 1)
             PROVE  \E u \in Site : w \in g[u] /\ \A v \in Site : w \in g[v] => v = u
  BY DEF Partition
<1>1. CASE w = n + 1
  <2>1. w \in g[t] /\ \A v \in Site : w \in g[v] => v = t
    BY <1>1
  <2> QED
    BY <2>1
<1>2. CASE w \in 1..n
  <2>1. PICK u \in Site : w \in h[u] /\ \A v \in Site : w \in h[v] => v = u
    BY <1>2 DEF Partition
  <2>2. w # n + 1
    BY <1>2
  <2>3. w \in g[u] /\ \A v \in Site : w \in g[v] => v = u
    BY <2>1, <2>2
  <2> QED
    BY <2>3
<1> QED
  BY <1>1, <1>2

\* What the queues hold when they grow at the end, and when their front is taken
LEMMA AppendHolds ==
    ASSUME NEW n, NEW q \in Seq(1..n), NEW e
    PROVE  /\ ToSet(Append(q, e)) = ToSet(q) \cup {e}
           /\ Once(q) /\ e \notin ToSet(q) => Once(Append(q, e))
<1> DEFINE a == Append(q, e)
<1>1. /\ Len(q) \in Nat /\ Len(a) = Len(q) + 1 /\ a[Len(q) + 1] = e
      /\ \A i \in 1..Len(q) : a[i] = q[i]
  <2>1. q \in Seq(1..n \cup {e}) /\ e \in 1..n \cup {e}
    BY SeqMonotonic
  <2> QED
    BY <2>1, AppendProperties, LenProperties
<1> HIDE DEF a
<1>2. 1..Len(a) = 1..Len(q) \cup {Len(q) + 1}
  BY <1>1
<1>3. ToSet(a) = ToSet(q) \cup {e}
  BY <1>1, <1>2 DEF ToSet
<1>4. ASSUME Once(q), e \notin ToSet(q) PROVE Once(a)
  <2> SUFFICES ASSUME NEW j \in 1..Len(a), NEW k \in 1..Len(a), a[j] = a[k] PROVE j = k
    BY DEF Once
  <2> QED
    BY <1>1, <1>2, <1>4 DEF Once, ToSet
<1> QED
  BY <1>3, <1>4 DEF a

\* Nothing holds nothing, once
LEMMA EmptyHolds == ToSet(<< >>) = {} /\ Once(<< >>)
BY EmptySeq DEF ToSet, Once

\* What is held where
LEMMA HeldIs ==
    /\ {Buffer, WriterHand, Discarded} \subseteq Site
    /\ Held[Buffer] = ToSet(swapBuf) /\ Held[Discarded] = dropped
    /\ Held[WriterHand] = IF writer # "idle" THEN {writes} ELSE {}
    /\ \A r \in Rotators : ReplayOf(r) \in Site /\ Held[ReplayOf(r)] = ToSet(buffered[r])
    /\ \A c \in ConnSet : WireOf(c) \in Site /\ Held[WireOf(c)] = ToSet(wire[c])
BY DEF Buffer, WriterHand, Discarded, ReplayOf, WireOf, Site, Held, HeldAt, ConnSet

\* A call of Write is buffered or stays with the writer (Write)
LEMMA OnceWrite ==
    ASSUME PInv, Write
    PROVE  PInv'
<1>1. OInv'
  BY OrderWrite DEF PInv
<1>2. writes \in Nat /\ writes' = writes + 1 /\ writer = "idle" /\ swapBuf \in Seq(1..writes)
  BY VirtualConnAssumption DEF Write, PInv, OInv, TypeOK
<1>3. \A u \in Site : Held[u] \subseteq 1..writes
  <2>1. \A c \in ConnSet : ToSet(wire[c]) \subseteq 1..writes
    BY <1>2, DiscardType DEF PInv, OInv, TypeOK
  <2>2. \A r \in Rotators : ToSet(buffered[r]) \subseteq 1..writes
    BY <1>2, DiscardType DEF PInv, OInv, TypeOK
  <2>3. ToSet(swapBuf) \subseteq 1..writes /\ dropped \subseteq 1..writes
    BY <1>2, DiscardType DEF PInv, OInv, TypeOK
  <2> QED
    BY <1>2, <2>1, <2>2, <2>3 DEF Site, Held, HeldAt
<1>4. Partition(Held', writes')
  <2>1. ASSUME NEW t \in {Buffer, WriterHand},
               Held'[t] = Held[t] \cup {writes + 1},
               \A u \in Site \ {t} : Held'[u] = Held[u]
        PROVE  Partition(Held', writes')
    <3> HIDE DEF Buffer, WriterHand
    <3> QED
      BY <1>2, <1>3, <2>1, AddKeeps, HeldIs DEF PInv
  <2>2. CASE swapping
    <3>1. ToSet(swapBuf') = ToSet(swapBuf) \cup {writes + 1}
      BY <1>2, <2>2, AppendHolds DEF Write
    <3>2. /\ Held'[Buffer] = Held[Buffer] \cup {writes + 1}
          /\ \A u \in Site \ {Buffer} : Held'[u] = Held[u]
      BY <1>2, <2>2, <3>1 DEF Write, lossVars, Held, HeldAt, Site, Buffer, ConnSet
    <3> QED
      BY <2>1, <3>2
  <2>3. CASE ~swapping
    <3>1. /\ Held'[WriterHand] = Held[WriterHand] \cup {writes + 1}
          /\ \A u \in Site \ {WriterHand} : Held'[u] = Held[u]
      BY <1>2, <2>3 DEF Write, lossVars, Held, HeldAt, Site, WriterHand, ConnSet
    <3> QED
      BY <2>1, <3>1
  <2> QED
    BY <2>2, <2>3
<1> QED
  BY <1>1, <1>4 DEF Write, PInv

\* A direct write leaves the writer for the connection it captured, or is lost (Write)
LEMMA OnceSend ==
    ASSUME PInv, Capture \/ Send \/ SendFails
    PROVE  PInv'
<1>1. OInv'
  BY OrderSend DEF PInv
<1>2. CASE Capture
  <2>1. Held' = Held
    BY <1>2 DEF Capture, lossVars, Held, HeldAt
  <2> QED
    BY <1>1, <1>2, <2>1 DEF Capture, PInv
<1>3. CASE Send
  <2>1. /\ writes \in 1..writes /\ captured \in ConnSet /\ wire[captured] \in Seq(1..writes)
        /\ wire \in [ConnSet -> Seq(1..writes)] /\ writer # "idle"
    BY <1>3 DEF Send, PInv, OInv, TypeOK, HasWrite
  <2>2. /\ WriterHand \in Site /\ WireOf(captured) \in Site /\ WriterHand # WireOf(captured)
        /\ Held[WriterHand] = {writes} /\ Held[WireOf(captured)] = ToSet(wire[captured])
    BY <2>1, HeldIs DEF WriterHand, WireOf
  <2>3. writes \notin ToSet(wire[captured])
    BY <2>1, <2>2 DEF PInv, Partition
  <2>4. /\ ToSet(wire'[captured]) = ToSet(wire[captured]) \cup {writes}
        /\ Once(wire'[captured])
        /\ \A c \in ConnSet \ {captured} : wire'[c] = wire[c]
    BY <1>3, <2>1, <2>3, AppendHolds DEF Send, PInv
  <2>5. /\ Held'[WriterHand] = {} /\ Held'[WireOf(captured)] = Held[WireOf(captured)] \cup {writes}
        /\ \A u \in Site \ {WriterHand, WireOf(captured)} : Held'[u] = Held[u]
    BY <1>3, <2>1, <2>4 DEF Send, lossVars, Held, HeldAt, Site, WriterHand, WireOf, ConnSet
  <2>6. Partition(Held', writes)
    <3>1. {writes} \subseteq Held[WriterHand] /\ Held'[WriterHand] = Held[WriterHand] \ {writes}
      BY <2>2, <2>5
    <3>2. Partition(Held, writes)
      BY DEF PInv
    <3> QED
      BY <2>2, <2>5, <3>1, <3>2, MoveKeeps
  <2> QED
    BY <1>1, <1>3, <2>4, <2>6 DEF Send, PInv
<1>4. CASE SendFails
  <2>1. /\ WriterHand \in Site /\ Discarded \in Site /\ WriterHand # Discarded
        /\ Held[WriterHand] = {writes} /\ Held[Discarded] = dropped
    BY <1>4, HeldIs DEF SendFails, WriterHand, Discarded
  <2>2. /\ Held'[WriterHand] = {} /\ Held'[Discarded] = Held[Discarded] \cup {writes}
        /\ \A u \in Site \ {WriterHand, Discarded} : Held'[u] = Held[u]
    BY <1>4, <2>1 DEF SendFails, Held, HeldAt, Site, WriterHand, Discarded, ConnSet
  <2>3. Partition(Held', writes)
    <3>1. {writes} \subseteq Held[WriterHand] /\ Held'[WriterHand] = Held[WriterHand] \ {writes}
      BY <2>1, <2>2
    <3>2. Partition(Held, writes)
      BY DEF PInv
    <3> QED
      BY <2>1, <2>2, <3>1, <3>2, MoveKeeps
  <2> QED
    BY <1>1, <1>4, <2>3 DEF SendFails, PInv
<1> QED
  BY <1>2, <1>3, <1>4

\* A rotation passes whole sets of writes on: the buffer is discarded or taken, the front of
\* what was taken is replayed, or the rest of it is discarded (SwapConnectionSeamless,
\* RotateTransport)
LEMMA OnceRotation ==
    ASSUME PInv, NEW r \in Rotators, Begin(r) \/ Rotate(r)
    PROVE  PInv'
<1> DEFINE Passed(s, t, moved) ==
       /\ s \in Site /\ t \in Site /\ s # t /\ moved \subseteq Held[s]
       /\ Held'[s] = Held[s] \ moved /\ Held'[t] = Held[t] \cup moved
       /\ \A u \in Site \ {s, t} : Held'[u] = Held[u]
<1>1. /\ OInv' /\ writes' = writes
      /\ rotator \in [Rotators -> States]
      /\ buffered \in [Rotators -> Seq(1..writes)] /\ wire \in [ConnSet -> Seq(1..writes)]
      /\ writes \in Nat /\ r \in ConnSet
  <2>1. OInv /\ OInv'
    BY OrderRotation DEF PInv
  <2>2. writes' = writes
    BY DEF Begin, Rotate, Move, Abort, Take, Replay, ReplayFails, Finish, writerVars
  <2>3. writes \in Nat
    BY <2>1, VirtualConnAssumption DEF OInv, TypeOK
  <2> QED
    BY <2>1, <2>2, <2>3 DEF OInv, TypeOK, ConnSet
<1>2. \A s, t, moved : Passed(s, t, moved) => Partition(Held', writes)
  <2> SUFFICES ASSUME NEW s, NEW t, NEW moved, Passed(s, t, moved)
               PROVE  Partition(Held', writes)
    OBVIOUS
  <2>1. Partition(Held, writes)
    BY DEF PInv
  <2> QED
    BY <2>1, MoveKeeps
<1> HIDE DEF Passed
<1>3. CASE Move(r) \/ Finish(r)
  <2>1. Held' = Held
    <3>1. UNCHANGED <<swapBuf, writes, writer, buffered, wire, dropped>>
      BY <1>3 DEF Move, Finish, writerVars, lossVars
    <3> QED
      BY <3>1 DEF Held, HeldAt
  <2>2. \A q \in Rotators : rotator'[q] # "replay" => buffered'[q] = << >>
    BY <1>1, <1>3 DEF Move, Finish, PInv
  <2> QED
    BY <1>1, <1>3, <2>1, <2>2 DEF Move, Finish, PInv
<1>4. CASE Begin(r) \/ Abort(r)
  <2>1. Passed(Buffer, Discarded, ToSet(swapBuf))
    <3>1. /\ ToSet(swapBuf') = {} /\ dropped' = dropped \cup ToSet(swapBuf)
          /\ UNCHANGED <<writes, writer, buffered, wire>>
      BY <1>4, EmptyHolds DEF Begin, Abort, DiscardBuffer, writerVars, lossVars
    <3> QED
      BY <3>1 DEF Passed, Held, HeldAt, Site, Buffer, Discarded, ConnSet
  <2>2. \A q \in Rotators : rotator'[q] # "replay" => buffered'[q] = << >>
    BY <1>1, <1>4 DEF Begin, Abort, PInv
  <2>3. wire' = wire
    BY <1>4 DEF Begin, Abort
  <2> QED
    BY <1>1, <1>2, <2>1, <2>2, <2>3 DEF PInv
<1>5. CASE Take(r)
  <2>1. ToSet(buffered[r]) = {}
    BY <1>5, EmptyHolds DEF Take, PInv
  <2>2. Passed(Buffer, ReplayOf(r), ToSet(swapBuf))
    BY <1>1, <1>5, <2>1, EmptyHolds DEF Take, writerVars, lossVars, Passed, Held, HeldAt, Site,
       Buffer,
                                   ReplayOf, ConnSet
  <2>3. \A q \in Rotators : rotator'[q] # "replay" => buffered'[q] = << >>
    BY <1>1, <1>5 DEF Take, PInv
  <2>4. wire' = wire
    BY <1>5 DEF Take
  <2> QED
    BY <1>1, <1>2, <2>2, <2>3, <2>4 DEF PInv
<1>6. CASE Replay(r)
  <2> DEFINE c == ReplayConn(r)
             w == Head(buffered[r])
  <2>1. c \in ConnSet
    BY DEF ReplayConn, ConnSet, PInv, OInv, TypeOK
  <2>2. /\ w \in 1..writes /\ w \in ToSet(buffered[r])
        /\ ToSet(Tail(buffered[r])) = ToSet(buffered[r]) \ {w}
    <3>1. buffered[r] \in Seq(1..writes) /\ Ascending(buffered[r]) /\ buffered[r] # << >>
      BY <1>1, <1>6 DEF Replay, PInv, OInv, ReplayInOrder
    <3> QED
      BY <1>1, <3>1, TailHolds, TailKeepsOrder
  <2>3. w \notin ToSet(wire[c])
    <3>1. w \in Held[ReplayOf(r)] /\ Held[WireOf(c)] = ToSet(wire[c])
      BY <2>1, <2>2, HeldIs
    <3>2. ReplayOf(r) # WireOf(c) /\ ReplayOf(r) \in Site /\ WireOf(c) \in Site
      BY <2>1, HeldIs DEF ReplayOf, WireOf
    <3> QED
      BY <2>2, <3>1, <3>2 DEF PInv, Partition
  <2>4. /\ ToSet(wire'[c]) = ToSet(wire[c]) \cup {w} /\ Once(wire'[c])
        /\ \A d \in ConnSet \ {c} : wire'[d] = wire[d]
    <3>1. wire[c] \in Seq(1..writes) /\ Once(wire[c])
      BY <1>1, <2>1 DEF PInv
    <3> HIDE DEF w
    <3>2. ToSet(Append(wire[c], w)) = ToSet(wire[c]) \cup {w} /\ Once(Append(wire[c], w))
      BY <2>3, <3>1, AppendHolds
    <3> QED
      BY <1>1, <1>6, <2>1, <3>2 DEF Replay, w
  <2>5. Passed(ReplayOf(r), WireOf(c), {w})
    <3> HIDE DEF c, w
    <3>1. /\ ReplayOf(r) # WireOf(c) /\ {w} \subseteq Held[ReplayOf(r)]
          /\ ReplayOf(r) \in Site /\ WireOf(c) \in Site
      BY <2>1, <2>2, HeldIs DEF ReplayOf, WireOf
    <3>2. /\ ToSet(buffered'[r]) = ToSet(buffered[r]) \ {w}
          /\ \A q \in Rotators \ {r} : buffered'[q] = buffered[q]
          /\ UNCHANGED <<swapBuf, writes, writer, dropped>>
      BY <1>1, <1>6, <2>2 DEF Replay, writerVars, lossVars
    <3>3. /\ Held'[ReplayOf(r)] = Held[ReplayOf(r)] \ {w}
          /\ Held'[WireOf(c)] = Held[WireOf(c)] \cup {w}
      BY <1>1, <2>1, <2>4, <3>2 DEF Held, HeldAt, Site, ReplayOf, WireOf, ConnSet
    <3>4. \A u \in Site \ {ReplayOf(r), WireOf(c)} : Held'[u] = Held[u]
      BY <1>1, <2>1, <2>4, <3>2 DEF Held, HeldAt, Site, ReplayOf, WireOf, ConnSet
    <3> QED
      BY <3>1, <3>3, <3>4 DEF Passed
  <2>6. \A q \in Rotators : rotator'[q] # "replay" => buffered'[q] = << >>
    BY <1>1, <1>6 DEF Replay, PInv
  <2>7. \A d \in ConnSet : Once(wire'[d])
    BY <2>4 DEF PInv
  <2> QED
    BY <1>1, <1>2, <2>5, <2>6, <2>7 DEF PInv
<1>7. CASE ReplayFails(r)
  <2>1. Passed(ReplayOf(r), Discarded, ToSet(buffered[r]))
    BY <1>1, <1>7, EmptyHolds DEF ReplayFails, writerVars, Passed, Held, HeldAt, Site, ReplayOf,
                                  Discarded, ConnSet
  <2>2. \A q \in Rotators : rotator'[q] # "replay" => buffered'[q] = << >>
    BY <1>1, <1>7 DEF ReplayFails, PInv
  <2>3. wire' = wire
    BY <1>7 DEF ReplayFails
  <2> QED
    BY <1>1, <1>2, <2>1, <2>2, <2>3 DEF PInv
<1> QED
  BY <1>3, <1>4, <1>5, <1>6, <1>7 DEF Rotate

\* The strengthening is inductive: at first no write has been made
THEOREM PlaceInvariance == Spec => []PInv
<1>1. Init => PInv
  <2> SUFFICES ASSUME Init PROVE PInv
    OBVIOUS
  <2>1. OInv
    <3>1. << >> \in Seq(1..0) /\ Ascending(<< >>)
      BY EmptyIsOrdered
    <3>2. writes = 0 /\ 0 \in 0..MaxWrites
      BY VirtualConnAssumption DEF Init
    <3> QED
      BY <3>1, <3>2 DEF Init, OInv, TypeOK, HasWrite, ReplayInOrder, ConnSet, States
  <2>2. 1..writes = {}
    BY DEF Init
  <2> QED
    BY <2>1, <2>2, EmptyHolds DEF Init, PInv, Partition
<1>2. PInv /\ [Next]_vars => PInv'
  <2>1. ASSUME PInv, UNCHANGED vars PROVE PInv'
    <3>1. Held' = Held /\ writes' = writes
      BY <2>1 DEF vars, writerVars, lossVars, Held, HeldAt
    <3>2. OInv'
      BY <2>1 DEF vars, writerVars, lossVars, PInv, OInv, TypeOK, HasWrite, ReplayInOrder,
         Ascending
    <3>3. UNCHANGED <<rotator, buffered, wire>>
      BY <2>1 DEF vars
    <3> QED
      BY <2>1, <3>1, <3>2, <3>3 DEF PInv
  <2> QED
    BY <2>1, OnceWrite, OnceSend, OnceRotation DEF Next
<1> QED
  BY <1>1, <1>2, PTL DEF Spec

\* A write that a queue holds once has one position in it
LEMMA OnePosition ==
    ASSUME NEW n, NEW q \in Seq(1..n), Once(q), NEW w \in ToSet(q)
    PROVE  \E k : At(q, w) = {k}
<1>1. DOMAIN q = 1..Len(q)
  OBVIOUS
<1>2. PICK k \in 1..Len(q) : q[k] = w
  BY <1>1 DEF ToSet
<1>3. At(q, w) = {k}
  BY <1>2 DEF At, Once
<1> QED
  BY <1>3

\* A write that a queue does not hold has no position in it
LEMMA NoPosition ==
    ASSUME NEW n, NEW q \in Seq(1..n), NEW w, w \notin ToSet(q)
    PROVE  At(q, w) = {}
<1>1. DOMAIN q = 1..Len(q)
  OBVIOUS
<1> QED
  BY <1>1 DEF At, ToSet

\* However many rotations overlap and fail, every write is in exactly one place: with the
\* writer, in a buffer, on one connection, or discarded by a rotation; none is doubled and
\* none vanishes (Write, SwapConnectionSeamless, RotateTransport)
THEOREM WrittenOnce == Spec => []EachWriteOnce
<1>1. PInv => EachWriteOnce
  <2> SUFFICES ASSUME PInv, NEW w \in 1..writes
               PROVE  Cardinality(Places(w)) = 1
    BY DEF EachWriteOnce
  <2> DEFINE inBuffer == {"buffer"} \X At(swapBuf, w)
             inReplay == UNION {{<<"replay", r>>} \X At(buffered[r], w) : r \in Rotators}
             inWire == UNION {{<<"wire", c>>} \X At(wire[c], w) : c \in ConnSet}
             inHand == {p \in {"writer"} : writer # "idle" /\ w = writes}
             inDropped == {p \in {"dropped"} : w \in dropped}
  <2>1. /\ writes \in Nat /\ swapBuf \in Seq(1..writes) /\ Once(swapBuf)
        /\ \A r \in Rotators : buffered[r] \in Seq(1..writes) /\ Once(buffered[r])
        /\ \A c \in ConnSet : wire[c] \in Seq(1..writes) /\ Once(wire[c])
    <3>1. TypeOK /\ Ascending(swapBuf) /\ \A r \in Rotators : Ascending(buffered[r])
      BY DEF PInv, OInv, ReplayInOrder
    <3>2. writes \in Nat
      BY <3>1, VirtualConnAssumption DEF TypeOK
    <3>3. ASSUME NEW q \in Seq(1..writes), Ascending(q) PROVE Once(q)
      <4>1. Len(q) \in Nat /\ \A i \in 1..Len(q) : q[i] \in 1..writes
        BY LenProperties, ElementOfSeq
      <4> QED
        BY <3>2, <3>3, <4>1 DEF Once, Ascending
    <3> QED
      BY <3>1, <3>2, <3>3 DEF PInv, TypeOK
  <2>2. PICK s \in Site : w \in Held[s] /\ \A t \in Site : w \in Held[t] => t = s
    BY DEF PInv, Partition
  <2>3. /\ s # Buffer => At(swapBuf, w) = {}
        /\ \A r \in Rotators : s # ReplayOf(r) => At(buffered[r], w) = {}
        /\ \A c \in ConnSet : s # WireOf(c) => At(wire[c], w) = {}
        /\ s # WriterHand => ~(writer # "idle" /\ w = writes)
        /\ s # Discarded => w \notin dropped
    <3>1. s # Buffer => w \notin ToSet(swapBuf)
      BY <2>2, HeldIs
    <3>2. \A r \in Rotators : s # ReplayOf(r) => w \notin ToSet(buffered[r])
      BY <2>2, HeldIs
    <3>3. \A c \in ConnSet : s # WireOf(c) => w \notin ToSet(wire[c])
      BY <2>2, HeldIs
    <3>4. /\ s # WriterHand => ~(writer # "idle" /\ w = writes)
          /\ s # Discarded => w \notin dropped
      BY <2>2, HeldIs
    <3>5. /\ s # Buffer => At(swapBuf, w) = {}
          /\ \A r \in Rotators : s # ReplayOf(r) => At(buffered[r], w) = {}
      BY <2>1, <3>1, <3>2, NoPosition
    <3>6. \A c \in ConnSet : s # WireOf(c) => At(wire[c], w) = {}
      BY <2>1, <3>3, NoPosition
    <3> QED
      BY <3>4, <3>5, <3>6
  <2>4. \E p : Places(w) = {p}
    <3>0. Places(w) = inBuffer \cup inReplay \cup inWire \cup inHand \cup inDropped
      BY DEF Places
    <3>1. CASE s = Buffer
      <4>1. inReplay = {} /\ inWire = {} /\ inHand = {} /\ inDropped = {}
        BY <2>3, <3>1 DEF Buffer, ReplayOf, WireOf, WriterHand, Discarded
      <4>2. PICK k : At(swapBuf, w) = {k}
        <5>1. swapBuf \in Seq(1..writes) /\ Once(swapBuf) /\ w \in ToSet(swapBuf)
          BY <2>1, <2>2, <3>1, HeldIs
        <5> QED
          BY <5>1, OnePosition
      <4>3. inBuffer = {<<"buffer", k>>}
        BY <4>2
      <4> QED
        BY <3>0, <4>1, <4>3
    <3>2. ASSUME NEW r \in Rotators, s = ReplayOf(r) PROVE \E p : Places(w) = {p}
      <4>1. /\ inBuffer = {} /\ inWire = {} /\ inHand = {} /\ inDropped = {}
            /\ \A q \in Rotators : q # r => At(buffered[q], w) = {}
        BY <2>3, <3>2 DEF Buffer, ReplayOf, WireOf, WriterHand, Discarded
      <4>2. PICK k : At(buffered[r], w) = {k}
        <5>1. buffered[r] \in Seq(1..writes) /\ Once(buffered[r]) /\ w \in ToSet(buffered[r])
          BY <2>1, <2>2, <3>2, HeldIs
        <5> QED
          BY <5>1, OnePosition
      <4>3. inReplay = {<< <<"replay", r>>, k>>}
        BY <4>1, <4>2
      <4> QED
        BY <3>0, <4>1, <4>3
    <3>3. ASSUME NEW c \in ConnSet, s = WireOf(c) PROVE \E p : Places(w) = {p}
      <4>1. /\ inBuffer = {} /\ inReplay = {} /\ inHand = {} /\ inDropped = {}
            /\ \A d \in ConnSet : d # c => At(wire[d], w) = {}
        BY <2>3, <3>3 DEF Buffer, ReplayOf, WireOf, WriterHand, Discarded
      <4>2. PICK k : At(wire[c], w) = {k}
        <5>1. wire[c] \in Seq(1..writes) /\ Once(wire[c]) /\ w \in ToSet(wire[c])
          BY <2>1, <2>2, <3>3, HeldIs
        <5> QED
          BY <5>1, OnePosition
      <4>3. inWire = {<< <<"wire", c>>, k>>}
        BY <4>1, <4>2
      <4> QED
        BY <3>0, <4>1, <4>3
    <3>4. CASE s = WriterHand
      <4>1. inBuffer = {} /\ inReplay = {} /\ inWire = {} /\ inDropped = {}
        BY <2>3, <3>4 DEF Buffer, ReplayOf, WireOf, WriterHand, Discarded
      <4>2. inHand = {"writer"}
        BY <2>2, <3>4, HeldIs
      <4> QED
        BY <3>0, <4>1, <4>2
    <3>5. CASE s = Discarded
      <4>1. inBuffer = {} /\ inReplay = {} /\ inWire = {} /\ inHand = {}
        BY <2>3, <3>5 DEF Buffer, ReplayOf, WireOf, WriterHand, Discarded
      <4>2. inDropped = {"dropped"}
        BY <2>2, <3>5, HeldIs
      <4> QED
        BY <3>0, <4>1, <4>2
    <3>6. \/ s \in {Buffer, WriterHand, Discarded}
          \/ \E r \in Rotators : s = ReplayOf(r)
          \/ \E c \in ConnSet : s = WireOf(c)
      BY <2>2 DEF Site, Held, HeldAt, Buffer, WriterHand, Discarded, ReplayOf, WireOf
    <3> QED
      BY <3>1, <3>2, <3>3, <3>4, <3>5, <3>6
  <2> QED
    BY <2>4, FS_Singleton
<1> QED
  BY <1>1, PlaceInvariance, PTL

-----------------------------------------------------------------------------
(* Why a buffered write is lost.                                           *)

\* What is in the buffer, or with a rotation that replays it
Kept(w) == w \in ToSet(swapBuf) \/ \E r \in Rotators : w \in ToSet(buffered[r])

\* A write that was buffered, and reported as done, is only discarded for a cause
DiscardedForCause == [][\A w \in 1..writes : Kept(w) /\ w \in dropped' => Cause']_vars

\* What is kept was not discarded before and is not in the hands of the writer
LEMMA KeptIsNowhereElse ==
    ASSUME PInv, NEW w \in 1..writes, Kept(w)
    PROVE  w \notin dropped /\ (writer # "idle" => w # writes)
<1>1. PICK s \in Site : w \in Held[s] /\ \A t \in Site : w \in Held[t] => t = s
  BY DEF PInv, Partition
<1>2. s = Buffer \/ \E r \in Rotators : s = ReplayOf(r)
  BY <1>1, HeldIs DEF Kept
<1>3. s # Discarded /\ s # WriterHand
  BY <1>2 DEF Buffer, ReplayOf, Discarded, WriterHand
<1> QED
  BY <1>1, <1>3, HeldIs

\* With any number of rotations, a write that was buffered is only discarded by a Migrate that
\* failed, by a replay that failed, or by a swap that began while another one was buffering
\* (SwapConnectionSeamless, RotateTransport)
THEOREM LossHasCause == Spec => DiscardedForCause
<1>1. IInv /\ PInv /\ [Next]_vars =>
        [\A w \in 1..writes : Kept(w) /\ w \in dropped' => Cause']_vars
  <2> SUFFICES ASSUME IInv, PInv, Next, NEW w \in 1..writes, Kept(w), w \in dropped'
               PROVE  Cause'
    BY DEF vars
  <2>1. w \notin dropped /\ (writer # "idle" => w # writes)
    BY KeptIsNowhereElse
  <2>2. CASE Write \/ Capture \/ Send \/ SendFails
    BY <2>1, <2>2 DEF Write, Capture, Send, SendFails, lossVars
  <2>3. ASSUME NEW r \in Rotators, Begin(r) PROVE Cause'
    <3>1. swapBuf # << >>
      BY <2>1, <2>3, EmptyHolds DEF Begin, DiscardBuffer
    <3>2. \E q \in Rotators : Buffering(q)
      BY <3>1 DEF IInv
    <3> QED
      BY <2>3, <3>2 DEF Begin, Cause
  <2>4. ASSUME NEW r \in Rotators, Abort(r) \/ ReplayFails(r) PROVE Cause'
    BY <2>4 DEF Abort, ReplayFails, IInv, Cause
  <2>5. ASSUME NEW r \in Rotators, Move(r) \/ Take(r) \/ Replay(r) \/ Finish(r) PROVE Cause'
    BY <2>1, <2>5 DEF Move, Take, Replay, Finish, lossVars
  <2> QED
    BY <2>2, <2>3, <2>4, <2>5 DEF Next, Rotate
<1> QED
  BY WritePath, PlaceInvariance, <1>1, PTL DEF Spec, DiscardedForCause

-----------------------------------------------------------------------------
(* The write path implements WriteLog.                                     *)

\* What the writer, the buffer or a rotation has is on no connection and was not discarded
LEMMA HeldIsPending ==
    ASSUME PInv, NEW s \in Site, NEW w \in 1..writes, w \in Held[s],
           s # Discarded, \A c \in ConnSet : s # WireOf(c)
    PROVE  w \in Log!Pending
<1>1. w \notin dropped /\ \A c \in ConnSet : w \notin ToSet(wire[c])
  BY HeldIs DEF PInv, Partition
<1>2. \A c \in ConnSet : DOMAIN wire[c] = 1..Len(wire[c])
  BY DEF PInv, OInv, TypeOK
<1>3. ~Log!OnTransport(w)
  BY <1>1, <1>2 DEF Log!OnTransport, ToSet
<1> QED
  BY <1>1, <1>3 DEF Log!Pending

\* A direct write is transmitted on the connection the writer captured (Write)
LEMMA SendTransmits ==
    ASSUME PInv, Send
    PROVE  Log!Next
<1>1. writes \in 1..writes /\ captured \in ConnSet /\ writer # "idle"
  BY DEF Send, PInv, OInv, TypeOK, HasWrite
<1>2. writes \in Log!Pending
  BY <1>1, HeldIs, HeldIsPending DEF WriterHand, Discarded, WireOf
<1>3. Log!Transmit(writes, captured)
  BY <1>2 DEF Send, lossVars, Log!Transmit
<1> QED
  BY <1>1, <1>2, <1>3 DEF Log!Next

\* A direct write that fails is given up, whole or cut (Write)
LEMMA FailureGivesUp ==
    ASSUME PInv, SendFails
    PROVE  Log!Next
<1>1. writes \in 1..writes /\ writer # "idle"
  BY DEF SendFails, PInv, OInv, TypeOK, HasWrite
<1>2. {writes} \subseteq Log!Pending
  BY <1>1, HeldIs, HeldIsPending DEF WriterHand, Discarded, WireOf
<1>3. Log!GiveUp({writes})
  BY <1>2 DEF SendFails, Log!GiveUp
<1> QED
  BY <1>2, <1>3 DEF Log!Next

\* A rotation transmits a write, gives up a set of them, or does nothing yamux could see
LEMMA RotationLogs ==
    ASSUME PInv, NEW r \in Rotators, Begin(r) \/ Rotate(r)
    PROVE  [Log!Next]_(Log!logVars)
<1>1. /\ TypeOK /\ writes \in Nat /\ r \in ConnSet
      /\ swapBuf \in Seq(1..writes) /\ buffered[r] \in Seq(1..writes)
  BY VirtualConnAssumption DEF PInv, OInv, TypeOK, ConnSet
<1>2. CASE Begin(r) \/ Abort(r)
  <2>1. ToSet(swapBuf) \subseteq 1..writes
    BY <1>1, DiscardType DEF TypeOK
  <2>2. ToSet(swapBuf) \subseteq Log!Pending
    BY <2>1, HeldIs, HeldIsPending DEF Buffer, Discarded, WireOf
  <2>3. Log!GiveUp(ToSet(swapBuf))
    BY <1>2, <2>2 DEF Begin, Abort, DiscardBuffer, writerVars, Log!GiveUp
  <2> QED
    BY <2>2, <2>3 DEF Log!Next
<1>3. CASE Move(r) \/ Take(r) \/ Finish(r)
  BY <1>3 DEF Move, Take, Finish, writerVars, lossVars, Log!logVars
<1>4. CASE Replay(r)
  <2> DEFINE w == Head(buffered[r])
  <2>1. w \in ToSet(buffered[r]) /\ w \in 1..writes /\ ReplayConn(r) \in ConnSet
    <3>1. Ascending(buffered[r]) /\ buffered[r] # << >>
      BY <1>4 DEF Replay, PInv, OInv, ReplayInOrder
    <3> QED
      BY <1>1, <3>1, TailHolds, TailKeepsOrder DEF ReplayConn, TypeOK
  <2>2. w \in Log!Pending
    <3> HIDE DEF w
    <3> QED
      BY <2>1, HeldIs, HeldIsPending DEF ReplayOf, Discarded, WireOf
  <2>3. Log!Transmit(w, ReplayConn(r))
    BY <1>4, <2>2 DEF Replay, writerVars, lossVars, Log!Transmit
  <2> QED
    BY <2>1, <2>2, <2>3 DEF Log!Next
<1>5. CASE ReplayFails(r)
  <2>1. ToSet(buffered[r]) \subseteq 1..writes
    BY <1>1, DiscardType DEF TypeOK
  <2>2. ToSet(buffered[r]) \subseteq Log!Pending
    BY <2>1, HeldIs, HeldIsPending DEF ReplayOf, Discarded, WireOf
  <2>3. Log!GiveUp(ToSet(buffered[r]))
    <3>1. Head(buffered[r]) \in ToSet(buffered[r])
      BY <1>1, <1>5, TailHolds DEF ReplayFails, PInv, OInv, ReplayInOrder
    <3> QED
      BY <1>5, <2>2, <3>1 DEF ReplayFails, writerVars, Log!GiveUp
  <2> QED
    BY <2>2, <2>3 DEF Log!Next
<1> QED
  BY <1>2, <1>3, <1>4, <1>5 DEF Rotate

\* With any number of rotations of either kind, the write path is a log of writes: what was sent
\* is not sent again nor discarded later, and what was discarded is never sent (Write,
\* SwapConnectionSeamless, RotateTransport)
THEOREM RotationsInvisible == Spec => ImplementsLog
<1>1. Init => Log!Init
  BY DEF Init, Log!Init
<1>2. PInv /\ [Next]_vars => [Log!Next]_(Log!logVars)
  <2> SUFFICES ASSUME PInv, [Next]_vars PROVE [Log!Next]_(Log!logVars)
    OBVIOUS
  <2>1. CASE Write
    BY <2>1 DEF Write, lossVars, Log!Next, Log!Call
  <2>2. CASE Capture \/ UNCHANGED vars
    BY <2>2 DEF Capture, vars, writerVars, lossVars, Log!logVars
  <2>3. CASE Send
    BY <2>3, SendTransmits
  <2>4. CASE SendFails
    BY <2>4, FailureGivesUp
  <2> QED
    BY <2>1, <2>2, <2>3, <2>4, RotationLogs DEF Next
<1> QED
  BY <1>1, <1>2, PlaceInvariance, PTL DEF Spec, ImplementsLog, Log!Spec
====
