---- MODULE Relay_proofs ----
(***************************************************************************)
(* Proofs about the proxied connection and its router (module Relay), for  *)
(* any rules, targets and amounts of data, and about the UDP association   *)
(* (module UdpRelay), for any number of datagrams of any lengths.          *)
(***************************************************************************)
EXTENDS Relay, UdpRelay, FiniteSetTheorems, SequenceTheorems, TLAPS

-----------------------------------------------------------------------------
(* The router.                                                             *)

\* A set of indices has a least one: the one whose interval 1..i contains no other
LEMMA LeastIndex ==
    ASSUME NEW n \in Nat, NEW T, T \subseteq 1..n, T # {}
    PROVE  Min(T) \in T /\ \A i \in T : Min(T) <= i
<1> DEFINE F == FiniteSubsetsOf(1..n)
           R == StrictSubsetOrdering(1..n)
           I == {1..i : i \in T}
<1>1. IsWellFoundedOn(R, F)
  BY FS_StrictSubsetOrderingWellFounded
<1>2. I \subseteq F /\ I # {}
  <2>1. \A i \in T : 1..i \subseteq 1..n /\ IsFiniteSet(1..i)
    BY FS_Interval
  <2> QED
    BY <2>1 DEF FiniteSubsetsOf
<1> HIDE DEF F
<1>3. \E X \in I : \A Y \in I : ~ (<<Y, X>> \in R)
  BY <1>1, <1>2, WFMin
<1>4. PICK x \in T : \A y \in T : ~ (<<1..y, 1..x>> \in R)
  BY <1>3
<1>5. ASSUME NEW y \in T PROVE x <= y
  <2> SUFFICES ASSUME y < x PROVE FALSE
    OBVIOUS
  <2>1. 1..y \subseteq 1..x /\ x \in 1..x /\ x \notin 1..y
    OBVIOUS
  <2>2. 1..y \in SUBSET (1..n) /\ 1..x \in SUBSET (1..n)
    OBVIOUS
  <2>3. 1..y # 1..x
    BY <2>1
  <2>4. <<1..y, 1..x>> \in R
    BY <2>1, <2>2, <2>3 DEF StrictSubsetOrdering
  <2> QED
    BY <1>4, <2>4
<1>6. \E z \in T : \A y \in T : z <= y
  BY <1>5
<1> QED
  BY <1>6 DEF Min

\* A target that is let through was let through by a rule before each one that blocks it
\* (Route)
LEMMA RouteFirst ==
    ASSUME NEW t, Route(t) # "block", NEW i \in DOMAIN Rules, Matches(Rules[i], t),
           Rules[i].policy = "block"
    PROVE  \E j \in 1..(i - 1) : Matches(Rules[j], t) /\ Rules[j].policy # "block"
<1> DEFINE hits == {k \in DOMAIN Rules : Matches(Rules[k], t)}
<1>1. DOMAIN Rules = 1..Len(Rules) /\ Len(Rules) \in Nat
  BY RelayAssumption, LenProperties
<1>2. i \in hits /\ hits \subseteq 1..Len(Rules)
  BY <1>1
<1> HIDE DEF hits
<1>3. Min(hits) \in hits /\ Min(hits) <= i
  BY <1>1, <1>2, LeastIndex
<1>4. Rules[Min(hits)].policy # "block"
  BY <1>2 DEF Route, hits
<1>5. Min(hits) # i
  BY <1>4
<1> QED
  BY <1>1, <1>2, <1>3, <1>4, <1>5 DEF hits

\* The address that is dialled, by the client or by the server (SuccessMeansConnected)
Meant == IF Direct \/ dest.len < 256 THEN "right" ELSE "wrong"

\* A blocked target is out of bounds for client and server alike, which is what the places
\* of handleConn and handleStream say of one another (with Direct for the router's answer)
Control ==
    /\ dialled # "none" \/ opener # "none" => Route(dest) # "block"
    /\ opener # "none" \/ header => ~Direct
    /\ server # "none" => opener \in {"ready", "failed"}
    /\ handler \in {"request", "dialing"} => opener = "none"
    /\ handler \in {"opening", "waiting"} => opener # "none"
    /\ handler = "dialing" => Direct
    /\ handler \in {"request", "dialing", "opening"} => ~header
    /\ handler \in {"request", "dialing"} /\ Direct => dialled = "none"
    /\ server \in {"none", "header", "dialing"} => answer = "none"
    /\ answer = "yes" => target # "none" /\ dialled = Meant

\* Who says yes, or is about to, has a target: its own or one the server has said yes for
Success ==
    reply = "ok" \/ handler \in {"connected", "relay", "forward"} =>
        target # "none" /\ dialled = Meant /\ (Direct \/ answer = "yes")

\* The way to the far end is closed by the copy that used it, or by the handler
Released ==
    /\ copy["up"] = "done" => fin["client>far"]
    /\ handler = "idle" => fin["client>far"]
    /\ FarReleased

IInv == TypeOK /\ Control /\ Success /\ Released

-----------------------------------------------------------------------------
(* Types.                                                                  *)

\* Closing connections marks pipes as ended and never takes a mark back (Close)
LEMMA CloseType ==
    ASSUME NEW P, NEW Q, fin \in [Pipes -> BOOLEAN], dead \in [Pipes -> BOOLEAN], Close(P, Q)
    PROVE  /\ fin' \in [Pipes -> BOOLEAN] /\ dead' \in [Pipes -> BOOLEAN]
           /\ \A p \in Pipes : fin[p] => fin'[p]
           /\ \A p \in Pipes : p \in Q => fin'[p]
BY DEF Close

\* A copy moves units, or starts to wait, and changes no types (io.Copy)
LEMMA CopyDataType ==
    ASSUME NEW c \in Copies, NEW p \in Pipes, NEW q \in Pipes, TypeOK, p # q, CopyData(c, p, q)
    PROVE  /\ data' \in [Pipes -> Seq(Nat)]
           /\ copy' \in [Copies -> {"off", "copy", "write", "done"}]
           /\ \A d \in Copies : d # c => copy'[d] = copy[d]
           /\ copy[c] \in {"copy", "write"} /\ copy'[c] \in {"copy", "write"}
           /\ UNCHANGED data \/ Move(p, q)
<1>1. data[p] \in Seq(Nat) /\ data[q] \in Seq(Nat) /\ data[p] # <<>>
  BY DEF TypeOK, CopyData
<1>2. Head(data[p]) \in Nat /\ Tail(data[p]) \in Seq(Nat)
  BY <1>1, HeadTailProperties
<1>3. Append(data[q], Head(data[p])) \in Seq(Nat)
  BY <1>1, <1>2, AppendProperties
<1>4. UNCHANGED data \/ Move(p, q)
  BY DEF CopyData
<1>5. data' \in [Pipes -> Seq(Nat)]
  BY <1>2, <1>3, <1>4 DEF TypeOK, Move
<1>6. /\ \E w \in {"copy", "write"} : copy' = [copy EXCEPT ![c] = w]
      /\ copy[c] \in {"copy", "write"}
  BY DEF CopyData
<1> QED
  BY <1>4, <1>5, <1>6 DEF TypeOK

\* A write of n to the pipe q
LEMMA PutType ==
    ASSUME NEW q \in Pipes, NEW n \in Nat, data \in [Pipes -> Seq(Nat)],
           data' = [data EXCEPT ![q] = Append(@, n)]
    PROVE  data' \in [Pipes -> Seq(Nat)]
<1>1. Append(data[q], n) \in Seq(Nat)
  BY AppendProperties
<1> QED
  BY <1>1

\* A read of the first unit of p into the sequence s
LEMMA TakeType ==
    ASSUME NEW p \in Pipes, NEW s \in Seq(Nat), data \in [Pipes -> Seq(Nat)], data[p] # <<>>
    PROVE  /\ [data EXCEPT ![p] = Tail(@)] \in [Pipes -> Seq(Nat)]
           /\ Append(s, Head(data[p])) \in Seq(Nat)
<1>1. data[p] \in Seq(Nat)
  OBVIOUS
<1>2. Head(data[p]) \in Nat /\ Tail(data[p]) \in Seq(Nat)
  BY <1>1, HeadTailProperties
<1>3. Append(s, Head(data[p])) \in Seq(Nat)
  BY <1>2, AppendProperties
<1> QED
  BY <1>2, <1>3

\* The reply of the proxy and the start of its copies, or the request (handleConn)
LEMMA ConnectedType ==
    ASSUME TypeOK, Connect \/ SendRequest
    PROVE  TypeOK'
<1> USE DEF envVars, appVars, targetVars, clientVars, serverVars, pipeVars
<1>1. CASE Connect
  <2>1. copy' \in [Copies -> {"off", "copy", "write", "done"}]
    BY <1>1 DEF Connect, TypeOK
  <2>2. /\ UNCHANGED <<envVars, appVars, targetVars, dialled, opener, early, serverVars, header,
                       pipeVars, reset>>
        /\ reply' = "ok" /\ handler' = "relay"
    BY <1>1 DEF Connect
  <2> QED
    BY <2>1, <2>2 DEF TypeOK
<1>2. CASE SendRequest
  <2>1. "client>far" \in Pipes /\ sent' \in 0..(MaxUp + 1)
    BY <1>2, RelayAssumption DEF Pipes, StreamPipes, SendRequest
  <2>2. data' = [data EXCEPT !["client>far"] = Append(@, 1)]
    BY <1>2 DEF SendRequest
  <2>3. data' \in [Pipes -> Seq(Nat)]
    BY <2>1, <2>2, PutType DEF TypeOK
  <2> QED
    BY <1>2, <2>1, <2>3 DEF SendRequest, TypeOK
<1> QED
  BY <1>1, <1>2

\* The ends of the server's copies
ServerCopyEnds == ServerUpEnds \/ ServerDownEnds

\* The server's actions
ServerNext ==
    ReadHeader \/ ServerDial \/ ServerUpData \/ ServerDownData \/ ServerCopyEnds \/ ServerEnds

\* The steps of the server's end of the stream keep the types (handleStream)
LEMMA ServerTypeStep == TypeOK /\ ServerNext => TypeOK'
<1> SUFFICES ASSUME TypeOK, ServerNext PROVE TypeOK'
  OBVIOUS
<1> USE DEF vars, envVars, appVars, targetVars, clientVars, serverVars, pipeVars
<1>p. Pipes = {"client>far", "far>client", "app>client", "client>app", "server>target",
               "target>server"}
  BY DEF Pipes, StreamPipes
<1>t. data \in [Pipes -> Seq(Nat)] /\ fin \in [Pipes -> BOOLEAN] /\ dead \in [Pipes -> BOOLEAN]
  BY DEF TypeOK
<1>c. ASSUME NEW P, NEW Q, Close(P, Q)
      PROVE  fin' \in [Pipes -> BOOLEAN] /\ dead' \in [Pipes -> BOOLEAN]
  BY <1>t, <1>c, CloseType
<1>k. ASSUME NEW c, NEW p, NEW q, CopyEnds(c, p, q)
      PROVE  copy' \in [Copies -> {"off", "copy", "write", "done"}]
  BY <1>k DEF CopyEnds, TypeOK
<1>1. CASE ReadHeader
  <2>1. fin' \in [Pipes -> BOOLEAN] /\ dead' \in [Pipes -> BOOLEAN]
    BY <1>1, <1>c, <1>t DEF ReadHeader, ServerReturn
  <2>2. server' \in {"dialing", "done"}
    BY <1>1 DEF ReadHeader, ServerReturn
  <2> QED
    BY <1>1, <2>1, <2>2 DEF ReadHeader, TypeOK
<1>2. CASE ServerDial
  <2>1. fin' \in [Pipes -> BOOLEAN] /\ dead' \in [Pipes -> BOOLEAN]
    BY <1>2, <1>c, <1>t DEF ServerDial, ServerReturn
  <2>2. /\ server' \in {"relay", "done"} /\ answer' \in {"none", "yes", "no"}
        /\ target' \in {"none", "open", "fin", "gone"}
    BY <1>2 DEF ServerDial, ServerReturn, TypeOK
  <2>3. dialled' \in {"none", "right", "wrong"}
    BY <1>2 DEF ServerDial, TypeOK
  <2>4. copy' \in [Copies -> {"off", "copy", "write", "done"}]
    BY <1>2 DEF ServerDial, TypeOK
  <2>5. data' \in [Pipes -> Seq(Nat)]
    <3>1. <<0>> \in Seq(Nat) /\ data["client>far"] \in Seq(Nat)
      BY <1>p, <1>t
    <3>2. <<0>> \o data["client>far"] \in Seq(Nat)
      BY <3>1, ConcatProperties
    <3>3. data' = data \/ data' = [data EXCEPT !["client>far"] = <<0>> \o @]
      BY <1>2 DEF ServerDial
    <3> QED
      BY <3>2, <3>3, <1>p, <1>t
  <2>6. UNCHANGED <<envVars, appVars, tsent, tgot, clientVars, header, reset>>
    BY <1>2 DEF ServerDial
  <2> QED
    BY <2>1, <2>2, <2>3, <2>4, <2>5, <2>6 DEF TypeOK
<1>3. CASE ServerUpData
  <2>1. /\ data' \in [Pipes -> Seq(Nat)]
        /\ copy' \in [Copies -> {"off", "copy", "write", "done"}]
    BY <1>3, <1>p, CopyDataType DEF ServerUpData, Copies
  <2>2. UNCHANGED <<envVars, appVars, targetVars, dialled, clientVars, serverVars, header,
                    fin, dead, reset>>
    BY <1>3 DEF ServerUpData, CopyData
  <2> QED
    BY <2>1, <2>2 DEF TypeOK
<1>4. CASE ServerDownData
  <2>1. /\ data' \in [Pipes -> Seq(Nat)]
        /\ copy' \in [Copies -> {"off", "copy", "write", "done"}]
    BY <1>4, <1>p, CopyDataType DEF ServerDownData, Copies
  <2>2. UNCHANGED <<envVars, appVars, targetVars, dialled, clientVars, serverVars, header,
                    fin, dead, reset>>
    BY <1>4 DEF ServerDownData, CopyData
  <2> QED
    BY <2>1, <2>2 DEF TypeOK
<1>5. CASE ServerCopyEnds
  <2>1. copy' \in [Copies -> {"off", "copy", "write", "done"}]
    BY <1>5, <1>k DEF ServerCopyEnds, ServerUpEnds, ServerDownEnds
  <2>2. UNCHANGED <<envVars, appVars, targetVars, dialled, clientVars, serverVars, header, pipeVars,
                    reset>>
    BY <1>5 DEF ServerCopyEnds, ServerUpEnds, ServerDownEnds
  <2> QED
    BY <2>1, <2>2 DEF TypeOK
<1>6. CASE ServerEnds
  <2>1. fin' \in [Pipes -> BOOLEAN] /\ dead' \in [Pipes -> BOOLEAN] /\ server' = "done"
    BY <1>6, <1>c DEF ServerEnds, ServerReturn
  <2>2. UNCHANGED <<envVars, appVars, targetVars, dialled, clientVars, answer, header, copy, data,
                    reset>>
    BY <1>6 DEF ServerEnds
  <2> QED
    BY <2>1, <2>2 DEF TypeOK
<1> QED
  BY <1>1, <1>2, <1>3, <1>4, <1>5, <1>6 DEF ServerNext

\* Every step keeps the types
LEMMA TypeStep == TypeOK /\ [Next]_vars => TypeOK'
<1> SUFFICES ASSUME TypeOK, [Next]_vars PROVE TypeOK'
  OBVIOUS
<1> USE DEF vars, envVars, appVars, targetVars, clientVars, serverVars, pipeVars
<1>p. Pipes = {"client>far", "far>client", "app>client", "client>app", "server>target",
               "target>server"}
  BY DEF Pipes, StreamPipes
<1>d. ToTarget \in Pipes /\ FromTarget \in Pipes
  BY <1>p DEF ToTarget, FromTarget
<1>n. MaxUp \in Nat /\ MaxDown \in Nat
  BY RelayAssumption
<1>t. /\ data \in [Pipes -> Seq(Nat)] /\ fin \in [Pipes -> BOOLEAN] /\ dead \in [Pipes -> BOOLEAN]
      /\ got \in Seq(Nat) /\ tgot \in Seq(Nat)
  BY DEF TypeOK
<1>c. ASSUME NEW P, NEW Q, Close(P, Q)
      PROVE  fin' \in [Pipes -> BOOLEAN] /\ dead' \in [Pipes -> BOOLEAN]
  BY <1>t, <1>c, CloseType
<1>k. ASSUME NEW c, NEW p, NEW q, CopyEnds(c, p, q)
      PROVE  copy' \in [Copies -> {"off", "copy", "write", "done"}]
  BY <1>k DEF CopyEnds, TypeOK
<1>1. CASE AppSend
  <2>1. sent' \in 0..(MaxUp + 1)
    BY <1>1, <1>n DEF AppSend, TypeOK
  <2>2. data' \in [Pipes -> Seq(Nat)]
    BY <1>1, <1>p, <1>t, <2>1, PutType DEF AppSend
  <2> QED
    BY <1>1, <2>1, <2>2 DEF AppSend, TypeOK
<1>2. CASE AppReceive
  <2>1. got' \in Seq(Nat) /\ data' \in [Pipes -> Seq(Nat)]
    BY <1>2, <1>p, <1>t, TakeType DEF AppReceive
  <2> QED
    BY <1>2, <2>1 DEF AppReceive, TypeOK
<1>3. CASE AppClose
  <2>1. fin' \in [Pipes -> BOOLEAN] /\ dead' \in [Pipes -> BOOLEAN]
    BY <1>3, <1>c DEF AppClose
  <2> QED
    BY <1>3, <2>1 DEF AppClose, TypeOK
<1>4. CASE TargetSend
  <2>1. tsent' \in 0..MaxDown
    BY <1>4, <1>n DEF TargetSend, TypeOK
  <2>2. data' \in [Pipes -> Seq(Nat)]
    BY <1>4, <1>d, <1>t, <2>1, PutType DEF TargetSend
  <2> QED
    BY <1>4, <2>1, <2>2 DEF TargetSend, TypeOK
<1>5. CASE TargetReceive
  <2>1. tgot' \in Seq(Nat) /\ data' \in [Pipes -> Seq(Nat)]
    BY <1>5, <1>d, <1>t, TakeType DEF TargetReceive
  <2> QED
    BY <1>5, <2>1 DEF TargetReceive, TypeOK
<1>6. CASE TargetClose
  <2>1. fin' \in [Pipes -> BOOLEAN] /\ dead' \in [Pipes -> BOOLEAN]
    BY <1>6, <1>c DEF TargetClose
  <2> QED
    BY <1>6, <2>1 DEF TargetClose, TypeOK
<1>7. CASE RequestFails
  <2>1. fin' \in [Pipes -> BOOLEAN] /\ dead' \in [Pipes -> BOOLEAN]
    BY <1>7, <1>c DEF RequestFails, Return
  <2> QED
    BY <1>7, <2>1 DEF RequestFails, Return, TypeOK
<1>8. CASE ReadRequest
  <2>1. fin' \in [Pipes -> BOOLEAN] /\ dead' \in [Pipes -> BOOLEAN]
    BY <1>8, <1>c, <1>t DEF ReadRequest, Return
  <2>2. data' \in [Pipes -> Seq(Nat)]
    <3>1. <<>> \in Seq(Nat)
      OBVIOUS
    <3> QED
      BY <1>8, <1>t, <3>1 DEF ReadRequest
  <2>3. /\ handler' \in {"request", "dialing", "opening", "done"}
        /\ reply' \in {"none", "ok", "error"} /\ opener' \in {"none", "pending", "ready", "failed"}
    BY <1>8 DEF ReadRequest, Return, TypeOK
  <2>4. early' \in BOOLEAN
    BY <1>8 DEF ReadRequest
  <2> QED
    BY <1>8, <2>1, <2>2, <2>3, <2>4 DEF ReadRequest, TypeOK
<1>9. CASE DialDirect
  <2>1. fin' \in [Pipes -> BOOLEAN] /\ dead' \in [Pipes -> BOOLEAN]
    BY <1>9, <1>c, <1>t DEF DialDirect, Return
  <2>2. /\ handler' \in {"connected", "done"} /\ reply' \in {"none", "ok", "error"}
        /\ target' \in {"none", "open", "fin", "gone"} /\ dialled' \in {"none", "right", "wrong"}
    BY <1>9 DEF DialDirect, Return, TypeOK
  <2> QED
    BY <1>9, <2>1, <2>2 DEF DialDirect, TypeOK
<1>10. CASE SessionOpen
  BY <1>10 DEF SessionOpen, TypeOK
<1>11. CASE Opened
  BY <1>11 DEF Opened, TypeOK
<1>12. CASE OpenFails
  <2>1. fin' \in [Pipes -> BOOLEAN] /\ dead' \in [Pipes -> BOOLEAN] /\ handler' = "done"
    BY <1>12, <1>c DEF OpenFails, Return
  <2>2. reply' \in {"none", "ok", "error"}
    BY <1>12 DEF OpenFails, TypeOK
  <2> QED
    BY <1>12, <2>1, <2>2 DEF OpenFails, TypeOK
<1>13. CASE OpenTimeout
  <2>1. fin' \in [Pipes -> BOOLEAN] /\ dead' \in [Pipes -> BOOLEAN] /\ handler' = "done"
    BY <1>13, <1>c DEF OpenTimeout, Return
  <2> QED
    BY <1>13, <2>1 DEF OpenTimeout, TypeOK
<1>14. CASE Accepted
  BY <1>14 DEF Accepted, TypeOK
<1>15. CASE Rejected
  <2>1. fin' \in [Pipes -> BOOLEAN] /\ dead' \in [Pipes -> BOOLEAN] /\ handler' = "done"
    BY <1>15, <1>c DEF Rejected, Return
  <2> QED
    BY <1>15, <2>1 DEF Rejected, TypeOK
<1>16. CASE UpData
  <2>1. /\ data' \in [Pipes -> Seq(Nat)]
        /\ copy' \in [Copies -> {"off", "copy", "write", "done"}]
    BY <1>16, <1>p, CopyDataType DEF UpData, Copies
  <2> QED
    BY <1>16, <2>1 DEF UpData, CopyData, TypeOK
<1>17. CASE DownData
  <2>1. /\ data' \in [Pipes -> Seq(Nat)]
        /\ copy' \in [Copies -> {"off", "copy", "write", "done"}]
    BY <1>17, <1>p, CopyDataType DEF DownData, Copies
  <2> QED
    BY <1>17, <2>1 DEF DownData, CopyData, TypeOK
<1>18. CASE UpEnds
  <2>1. fin' \in [Pipes -> BOOLEAN] /\ dead' \in [Pipes -> BOOLEAN]
    BY <1>18, <1>c DEF UpEnds
  <2>2. copy' \in [Copies -> {"off", "copy", "write", "done"}]
    BY <1>18, <1>k DEF UpEnds
  <2> QED
    BY <1>18, <2>1, <2>2 DEF UpEnds, TypeOK
<1>19. CASE DownEnds
  <2>1. fin' \in [Pipes -> BOOLEAN] /\ dead' \in [Pipes -> BOOLEAN]
    BY <1>19, <1>c DEF DownEnds
  <2>2. copy' \in [Copies -> {"off", "copy", "write", "done"}]
    BY <1>19, <1>k DEF DownEnds
  <2> QED
    BY <1>19, <2>1, <2>2 DEF DownEnds, TypeOK
<1>20. CASE RelayEnds
  <2>1. fin' \in [Pipes -> BOOLEAN] /\ dead' \in [Pipes -> BOOLEAN] /\ handler' = "done"
    BY <1>20, <1>c DEF RelayEnds, Return
  <2> QED
    BY <1>20, <2>1 DEF RelayEnds, TypeOK
<1>21. CASE Forward
  <2>1. fin' \in [Pipes -> BOOLEAN] /\ dead' \in [Pipes -> BOOLEAN]
    BY <1>21, <1>c DEF Forward
  <2>2. reply' \in {"none", "ok", "error"}
    BY <1>21 DEF Forward, TypeOK
  <2>3. data' \in [Pipes -> Seq(Nat)]
    <3>1. CASE UNCHANGED data
      BY <3>1, <1>t
    <3>2. CASE ~UNCHANGED data
      <4> DEFINE p == "far>client"
                 put == Append(data["client>app"], Head(data[p]))
      <4>1. data[p] # <<>> /\ data' = [data EXCEPT !["client>app"] = put, ![p] = Tail(@)]
        BY <1>21, <3>2 DEF Forward
      <4>2. put \in Seq(Nat) /\ [data EXCEPT ![p] = Tail(@)] \in [Pipes -> Seq(Nat)]
        BY <4>1, <1>p, <1>t, TakeType
      <4>3. Tail(data[p]) \in Seq(Nat)
        BY <4>2, <1>p, <1>t
      <4> HIDE DEF put
      <4> QED
        BY <4>1, <4>2, <4>3, <1>p, <1>t
    <3> QED
      BY <3>1, <3>2
  <2> QED
    BY <1>21, <2>1, <2>2, <2>3 DEF Forward, TypeOK
<1>22. CASE ServerNext
  BY <1>22, ServerTypeStep
<1>23. CASE StreamReset
  BY <1>23 DEF StreamReset, TypeOK
<1>24. CASE UNCHANGED vars
  BY <1>24 DEF TypeOK
<1>25. CASE Connect \/ SendRequest
  BY <1>25, ConnectedType
<1>26. CASE ConnectFails
  <2>1. fin' \in [Pipes -> BOOLEAN] /\ dead' \in [Pipes -> BOOLEAN] /\ handler' = "done"
    BY <1>26, <1>c DEF ConnectFails, Return
  <2> QED
    BY <1>26, <2>1 DEF ConnectFails, TypeOK
<1> QED
  BY <1>1, <1>2, <1>3, <1>4, <1>5, <1>6, <1>7, <1>8, <1>9, <1>10, <1>11, <1>12, <1>13, <1>14,
     <1>15, <1>16, <1>17, <1>18, <1>19, <1>20, <1>21, <1>22, <1>23, <1>24, <1>25, <1>26
  DEF Next, ServerNext, ServerCopyEnds

-----------------------------------------------------------------------------
(* Control.                                                                *)

\* What a sending side has closed stays closed
LEMMA FinGrows ==
    ASSUME TypeOK, [Next]_vars
    PROVE  \A p \in Pipes : fin[p] => fin'[p]
<1> USE DEF vars, envVars, appVars, targetVars, clientVars, serverVars, pipeVars
<1>t. fin \in [Pipes -> BOOLEAN] /\ dead \in [Pipes -> BOOLEAN]
  BY DEF TypeOK
<1>c. ASSUME NEW P, NEW Q, Close(P, Q)
      PROVE  \A p \in Pipes : fin[p] => fin'[p]
  BY <1>t, <1>c, CloseType
<1>1. CASE UNCHANGED fin
  BY <1>1
<1>2. CASE \E P, Q : Close(P, Q)
  BY <1>2, <1>c
<1>3. CASE \/ AppSend \/ AppReceive \/ TargetSend \/ TargetReceive
           \/ SessionOpen \/ Opened \/ Accepted \/ Connect \/ SendRequest
  BY <1>1, <1>3 DEF AppSend, AppReceive, TargetSend, TargetReceive, SessionOpen, Opened, Accepted,
     Connect, SendRequest
<1>4. CASE UpData \/ DownData \/ ServerUpData \/ ServerDownData \/ ServerCopyEnds \/ StreamReset
  BY <1>1, <1>4 DEF UpData, DownData, ServerUpData, ServerDownData, CopyData, ServerCopyEnds,
     ServerUpEnds, ServerDownEnds, StreamReset
<1>5. CASE \/ AppClose \/ TargetClose
           \/ RequestFails \/ OpenFails \/ OpenTimeout \/ Rejected \/ ConnectFails
  <2>1. CASE AppClose \/ TargetClose
    BY <1>c, <2>1 DEF AppClose, TargetClose
  <2>2. CASE RequestFails \/ OpenFails \/ OpenTimeout \/ Rejected \/ ConnectFails
    BY <1>c, <2>2 DEF RequestFails, OpenFails, OpenTimeout, Rejected, ConnectFails, Return
  <2> QED
    BY <1>5, <2>1, <2>2
<1>6. CASE UpEnds \/ DownEnds \/ RelayEnds \/ Forward \/ ServerEnds
  BY <1>2, <1>6 DEF UpEnds, DownEnds, RelayEnds, Forward, ServerEnds, Return, ServerReturn
<1>7. CASE ReadRequest \/ DialDirect
  BY <1>1, <1>2, <1>7 DEF ReadRequest, DialDirect, Return
<1>8. CASE ReadHeader \/ ServerDial
  BY <1>1, <1>2, <1>8 DEF ReadHeader, ServerDial, ServerReturn
<1> QED
  BY <1>1, <1>3, <1>4, <1>5, <1>6, <1>7, <1>8 DEF Next, ServerCopyEnds

\* handleConn returns, or closes its side of the far connection
LEMMA ClosesFar ==
    ASSUME TypeOK, NEW P, NEW Q, Close(P, Q), "client>far" \in Q
    PROVE  fin'["client>far"]
BY CloseType DEF TypeOK, Pipes, StreamPipes

\* The steps that concern neither handler nor server
Elsewhere ==
    \/ AppSend \/ AppReceive \/ AppClose \/ TargetSend \/ TargetReceive \/ TargetClose
    \/ UpData \/ DownData \/ DownEnds \/ ServerUpData \/ ServerDownData \/ ServerCopyEnds
    \/ StreamReset \/ UNCHANGED vars

\* What application, target and network do leaves the places of the two handlers alone
LEMMA ElsewhereFrame ==
    ASSUME TypeOK, Elsewhere
    PROVE  /\ UNCHANGED <<dest, dialled, handler, reply, opener, server, header, answer>>
           /\ target # "none" => target' # "none"
           /\ copy'["up"] = "done" => copy["up"] = "done"
<1> USE DEF vars, envVars, appVars, targetVars, clientVars, serverVars, pipeVars
<1>1. CASE AppSend \/ AppReceive \/ AppClose \/ StreamReset \/ UNCHANGED vars
  BY <1>1 DEF AppSend, AppReceive, AppClose, StreamReset
<1>2. CASE TargetSend \/ TargetReceive \/ TargetClose
  BY <1>2 DEF TargetSend, TargetReceive, TargetClose
<1>3. CASE UpData \/ DownData \/ ServerUpData \/ ServerDownData
  <2>1. UNCHANGED <<dest, target, dialled, handler, reply, opener, server, header, answer>>
    BY <1>3 DEF UpData, DownData, ServerUpData, ServerDownData, CopyData
  <2>2. copy'["up"] = "done" => copy["up"] = "done"
    BY <1>3 DEF UpData, DownData, ServerUpData, ServerDownData, CopyData, TypeOK, Copies
  <2> QED
    BY <2>1, <2>2
<1>4. CASE DownEnds \/ ServerCopyEnds
  BY <1>4 DEF DownEnds, ServerCopyEnds, ServerUpEnds, ServerDownEnds, CopyEnds, TypeOK, Copies
<1> QED
  BY <1>1, <1>2, <1>3, <1>4 DEF Elsewhere

\* Every step keeps what the places of handleConn and handleStream imply for one another
LEMMA ControlStep == TypeOK /\ Control /\ Success /\ [Next]_vars => Control' /\ Success'
<1> SUFFICES ASSUME TypeOK, Control, Success, [Next]_vars PROVE Control' /\ Success'
  OBVIOUS
<1> USE DEF envVars, appVars, targetVars, clientVars, serverVars, pipeVars, Direct, Meant
<1>1. CASE Elsewhere
  BY <1>1, ElsewhereFrame DEF Control, Success
<1>2. CASE RequestFails
  BY <1>2 DEF RequestFails, Return, Control, Success
<1>3. CASE ReadRequest
  BY <1>3 DEF ReadRequest, Return, Control, Success
<1>4. CASE DialDirect
  <2>1. handler' \in {"connected", "done"} /\ handler = "dialing" /\ Direct
    BY <1>4 DEF DialDirect, Return, Control
  <2>2. UNCHANGED <<dest, opener, server, header, answer>>
    BY <1>4 DEF DialDirect
  <2>3. /\ target # "none" \/ dialled' # "none" => target' # "none"
        /\ reply' = "ok" \/ handler' # "done" => target' # "none" /\ dialled' = "right"
    BY <1>4, <2>1 DEF DialDirect, Return, Success, Control, Meant
  <2> QED
    BY <2>1, <2>2, <2>3 DEF Control, Success, Meant
<1>5. CASE SessionOpen
  BY <1>5 DEF SessionOpen, Control, Success
<1>6. CASE Opened
  BY <1>6 DEF Opened, Control, Success
<1>7. CASE OpenFails
  <2>1. handler' = "done" /\ (reply' = "ok" => reply = "ok")
    BY <1>7 DEF OpenFails, Return
  <2>2. UNCHANGED <<dest, target, dialled, opener, server, header, answer>>
    BY <1>7 DEF OpenFails
  <2> QED
    BY <2>1, <2>2 DEF Control, Success
<1>8. CASE OpenTimeout
  BY <1>8 DEF OpenTimeout, Return, Control, Success
<1>9. CASE Accepted \/ Connect \/ SendRequest \/ ConnectFails
  <2>1. /\ (handler = "waiting" /\ answer = "yes") \/ handler = "connected"
        /\ handler' \in {"connected", "relay", "forward", "done"}
    BY <1>9 DEF Accepted, Connect, SendRequest, ConnectFails, Return
  <2>2. UNCHANGED <<dest, target, dialled, opener, server, header, answer>>
    BY <1>9 DEF Accepted, Connect, SendRequest, ConnectFails
  <2> QED
    BY <2>1, <2>2 DEF Control, Success, Meant
<1>10. CASE Rejected
  BY <1>10 DEF Rejected, Return, Control, Success
<1>11. CASE UpEnds
  BY <1>11 DEF UpEnds, Control, Success
<1>12. CASE RelayEnds
  BY <1>12 DEF RelayEnds, Return, Control, Success
<1>13. CASE Forward
  BY <1>13 DEF Forward, Control, Success
<1>14. CASE ReadHeader
  <2>1. server' \in {"dialing", "done"} /\ server = "header"
    BY <1>14 DEF ReadHeader, ServerReturn
  <2>2. UNCHANGED <<dest, target, dialled, handler, reply, opener, header, answer>>
    BY <1>14 DEF ReadHeader
  <2> QED
    BY <2>1, <2>2 DEF Control, Success
<1>15. CASE ServerDial
  <2>1. server' \in {"relay", "done"} /\ server = "dialing"
    BY <1>15 DEF ServerDial, ServerReturn
  <2>2. opener # "none" /\ ~Direct /\ Route(dest) # "block"
    BY <2>1 DEF Control
  <2>3. /\ answer' \in {"yes", "no"}
        /\ answer' = "yes" => target' # "none" /\ dialled' = Meant
    <3>1. dest.len \in Nat
      BY RelayAssumption DEF TypeOK
    <3>2. Meant = IF dest.len < 256 THEN "right" ELSE "wrong"
      BY <2>2
    <3>3. /\ answer' \in {"yes", "no"}
          /\ answer' = "yes" => /\ target' = "open"
                                /\ \/ dest.len < 256 /\ dialled' = "right"
                                   \/ dest.len >= 256 /\ dialled' = "wrong"
      BY <1>15 DEF ServerDial
    <3>4. ~(dest.len < 256 /\ dest.len >= 256)
      BY <3>1
    <3> HIDE DEF Meant, Direct
    <3> QED
      BY <3>2, <3>3, <3>4
  <2>4. UNCHANGED <<dest, handler, reply, opener, header>>
    BY <1>15 DEF ServerDial
  <2>5. ~(reply = "ok" \/ handler \in {"connected", "relay", "forward"})
    BY <2>1, <2>2 DEF Control, Success
  <2> QED
    BY <2>1, <2>2, <2>3, <2>4, <2>5 DEF Control, Success
<1>16. CASE ServerEnds
  BY <1>16 DEF ServerEnds, ServerReturn, Control, Success
<1> QED
  BY <1>1, <1>2, <1>3, <1>4, <1>5, <1>6, <1>7, <1>8, <1>9, <1>10, <1>11, <1>12, <1>13, <1>14,
     <1>15, <1>16 DEF Next, Elsewhere, ServerCopyEnds

\* Every step keeps that a copy that is done has closed its side (handleConn)
LEMMA ReleasedStep == TypeOK /\ Control /\ Released /\ [Next]_vars => Released'
<1> SUFFICES ASSUME TypeOK, Control, Released, [Next]_vars PROVE Released'
  OBVIOUS
<1> USE DEF envVars, appVars, targetVars, clientVars, serverVars, pipeVars, Direct
<1> DEFINE stays == fin["client>far"] => fin'["client>far"]
<1>f. stays
  BY FinGrows DEF Pipes, StreamPipes
<1> HIDE DEF stays
<1>c. ASSUME NEW P, NEW Q, Close(P, Q), "client>far" \in Q
      PROVE  fin'["client>far"]
  BY <1>c, ClosesFar
<1>1. CASE Elsewhere
  <2>1. /\ UNCHANGED <<dest, dialled, handler, header>>
        /\ copy'["up"] = "done" => copy["up"] = "done"
    BY <1>1, ElsewhereFrame
  <2> QED
    BY <1>f, <2>1 DEF Released, FarReleased, stays
<1>2. CASE RequestFails
  BY <1>2, <1>f DEF RequestFails, Return, Control, Released, FarReleased, stays
<1>3. CASE ReadRequest
  BY <1>3, <1>f DEF ReadRequest, Return, Control, Released, FarReleased, stays
<1>4. CASE DialDirect
  <2>1. copy'["up"] = "done" => copy["up"] = "done"
    BY <1>4 DEF DialDirect
  <2>2. \/ handler' = "connected"
        \/ handler' = "done" /\ UNCHANGED dialled
    BY <1>4 DEF DialDirect, Return
  <2>3. UNCHANGED <<dest, header>> /\ handler = "dialing"
    BY <1>4 DEF DialDirect
  <2> QED
    BY <1>f, <2>1, <2>2, <2>3 DEF Control, Released, FarReleased, stays
<1>5. CASE SessionOpen
  BY <1>5, <1>f DEF SessionOpen, Released, FarReleased, stays
<1>6. CASE Opened
  BY <1>6, <1>f DEF Opened, Released, FarReleased, stays
<1>7. CASE OpenFails
  <2>1. UNCHANGED <<dest, dialled, header, copy>> /\ handler = "opening" /\ handler' = "done"
    BY <1>7 DEF OpenFails, Return
  <2> QED
    BY <1>f, <2>1 DEF Control, Released, FarReleased, stays
<1>8. CASE OpenTimeout
  BY <1>8, <1>f DEF OpenTimeout, Return, Control, Released, FarReleased, stays
<1>9. CASE Accepted \/ Connect \/ SendRequest
  <2>1. copy'["up"] = "done" => copy["up"] = "done"
    BY <1>9 DEF Accepted, Connect, SendRequest, TypeOK, Copies
  <2>2. handler' \in {"connected", "relay", "forward"}
    BY <1>9 DEF Accepted, Connect, SendRequest
  <2> QED
    BY <1>f, <2>1, <2>2 DEF Released, FarReleased, stays
<1>10. CASE Rejected
  <2>1. fin'["client>far"]
    BY <1>10, <1>c DEF Rejected, Return
  <2> QED
    BY <2>1 DEF Released, FarReleased
<1>11. CASE UpEnds
  <2>1. fin'["client>far"]
    BY <1>11, <1>c DEF UpEnds
  <2> QED
    BY <2>1 DEF Released, FarReleased
<1>12. CASE RelayEnds
  BY <1>12, <1>f DEF RelayEnds, Return, Released, FarReleased, stays
<1>13. CASE Forward
  <2>1. fin'["client>far"]
    BY <1>13, <1>c DEF Forward
  <2> QED
    BY <2>1 DEF Released, FarReleased
<1>14. CASE ReadHeader
  BY <1>14, <1>f DEF ReadHeader, Released, FarReleased, stays
<1>15. CASE ServerDial
  <2>1. copy'["up"] = "done" => copy["up"] = "done"
    BY <1>15 DEF ServerDial, TypeOK, Copies
  <2>2. UNCHANGED <<dest, handler, header>> /\ server = "dialing"
    BY <1>15 DEF ServerDial
  <2> QED
    BY <1>f, <2>1, <2>2 DEF Control, Released, FarReleased, stays
<1>16. CASE ServerEnds
  BY <1>16, <1>f DEF ServerEnds, Released, FarReleased, stays
<1>17. CASE ConnectFails
  <2>1. fin'["client>far"]
    BY <1>17, <1>c DEF ConnectFails, Return
  <2> QED
    BY <2>1 DEF Released, FarReleased
<1> QED
  BY <1>1, <1>2, <1>3, <1>4, <1>5, <1>6, <1>7, <1>8, <1>9, <1>10, <1>11, <1>12, <1>13, <1>14,
     <1>15, <1>16, <1>17 DEF Next, Elsewhere, ServerCopyEnds

\* A connection that was just accepted satisfies the invariant
LEMMA Initially == Init => IInv
<1> SUFFICES ASSUME Init PROVE IInv
  OBVIOUS
<1>1. TypeOK
  <2>1. MaxUp \in Nat /\ MaxDown \in Nat /\ 0 \in 0..MaxDown /\ 0 \in 0..(MaxUp + 1)
    BY RelayAssumption
  <2>2. <<>> \in Seq(Nat)
    OBVIOUS
  <2>3. /\ copy \in [Copies -> {"off", "copy", "write", "done"}] /\ data \in [Pipes -> Seq(Nat)]
        /\ fin \in [Pipes -> BOOLEAN] /\ dead \in [Pipes -> BOOLEAN]
    BY <2>2 DEF Init
  <2> QED
    BY <2>1, <2>2, <2>3, Zenon DEF Init, TypeOK
<1>2. Control /\ Success
  BY DEF Init, Control, Success
<1>3. Released
  BY DEF Init, Released, FarReleased, Copies
<1> QED
  BY <1>1, <1>2, <1>3 DEF IInv

\* What the proofs below rest on, in every reachable state of handleConn and handleStream
THEOREM Invariance == Spec => []IInv
<1>1. IInv /\ [Next]_vars => IInv'
  BY TypeStep, ControlStep, ReleasedStep DEF IInv
<1> QED
  BY Initially, <1>1, PTL DEF Spec

\* Every variable keeps its type (TypeOK)
THEOREM TypeCorrect == Spec => []TypeOK
<1>1. IInv => TypeOK
  BY DEF IInv
<1> QED
  BY Invariance, <1>1, PTL

\* The proxy tells an application of success only when the target it asked for has been
\* dialled with success, by the client or by the server that has said so; with an address of
\* 256 bytes or more, which only the server cuts, another one (handleConn, handleProxyStream)
THEOREM SuccessIsTrue == Spec => []SuccessMeansConnected
<1>1. IInv => SuccessMeansConnected
  BY DEF IInv, Control, Success, Meant, SuccessMeansConnected
<1> QED
  BY Invariance, <1>1, PTL

\* With any list of rules, a target that a rule blocks and no earlier rule lets through is
\* neither dialled nor asked of the server (Route, handleConn)
THEOREM BlockedIsBlocked == Spec => []BlockedStays
<1>1. IInv => BlockedStays
  BY RouteFirst DEF IInv, Control, BlockedStays
<1> QED
  BY Invariance, <1>1, PTL

\* handleConn leaves no far connection open behind it (relay, Close of stream and connection)
THEOREM FarConnReleased == Spec => []FarReleased
<1>1. IInv => FarReleased
  BY DEF IInv, Released
<1> QED
  BY Invariance, <1>1, PTL

-----------------------------------------------------------------------------
(* Order.  What has been received, and what is in the three pipes on the   *)
(* way, is one line of units: every step moves one unit along, appends     *)
(* one at its end, or leaves it as it is.                                  *)

\* A sequence is its head followed by its tail
LEMMA HeadThenTail ==
    ASSUME NEW s \in Seq(Nat), s # <<>>
    PROVE  /\ Head(s) \in Nat /\ <<Head(s)>> \in Seq(Nat) /\ Tail(s) \in Seq(Nat)
           /\ <<Head(s)>> \o Tail(s) = s
<1>1. Head(s) \in Nat /\ Tail(s) \in Seq(Nat) /\ Len(Tail(s)) = Len(s) - 1
      /\ \A i \in 1 .. Len(Tail(s)) : Tail(s)[i] = s[i+1]
  BY HeadTailProperties
<1>2. <<Head(s)>> \in Seq(Nat) /\ Len(<<Head(s)>>) = 1 /\ <<Head(s)>>[1] = s[1]
  BY <1>1
<1>3. Len(s) \in Nat \ {0}
  BY EmptySeq
<1> DEFINE t == <<Head(s)>> \o Tail(s)
<1>4. t \in Seq(Nat) /\ Len(t) = Len(s)
  BY <1>1, <1>2, <1>3, ConcatProperties
<1>5. ASSUME NEW i \in 1 .. Len(s) PROVE t[i] = s[i]
  <2>1. t[i] = IF i <= 1 THEN <<Head(s)>>[i] ELSE Tail(s)[i - 1]
    BY <1>1, <1>2, <1>3, ConcatProperties
  <2> HIDE DEF t
  <2>2. CASE i = 1
    BY <1>2, <2>1, <2>2
  <2>3. CASE i # 1
    <3>1. i - 1 \in 1 .. Len(Tail(s)) /\ (i - 1) + 1 = i /\ ~(i <= 1)
      BY <1>1, <1>3, <2>3
    <3> QED
      BY <1>1, <2>1, <3>1
  <2> QED
    BY <2>2, <2>3
<1> HIDE DEF t
<1>6. t = s
  BY <1>4, <1>5, SeqEqual
<1> QED
  BY <1>1, <1>2, <1>6 DEF t

\* Concatenation of units is associative
LEMMA Associative ==
    ASSUME NEW s \in Seq(Nat), NEW t \in Seq(Nat), NEW u \in Seq(Nat)
    PROVE  (s \o t) \o u = s \o (t \o u)
BY ConcatAssociative, SMTT(60)

\* A unit moves from the front of t to the end of s
LEMMA Along ==
    ASSUME NEW s \in Seq(Nat), NEW t \in Seq(Nat), NEW u \in Seq(Nat), t # <<>>
    PROVE  Append(s, Head(t)) \o (Tail(t) \o u) = s \o (t \o u)
<1> DEFINE h == <<Head(t)>>
           r == Tail(t)
<1>1. h \in Seq(Nat) /\ r \in Seq(Nat) /\ h \o r = t
  BY HeadThenTail
<1>2. Append(s, Head(t)) = s \o h
  BY HeadThenTail, AppendIsConcat
<1> HIDE DEF h, r
<1>3. r \o u \in Seq(Nat)
  BY <1>1, ConcatProperties
<1>4. \A v \in Seq(Nat) : (s \o h) \o v = s \o (h \o v)
  BY <1>1, Associative
<1>5. h \o (r \o u) = (h \o r) \o u
  BY <1>1, Associative, ZenonT(60)
<1> QED
  BY <1>1, <1>2, <1>3, <1>4, <1>5 DEF r

\* Appending to what follows is appending to the whole
LEMMA AtEnd ==
    ASSUME NEW s \in Seq(Nat), NEW t \in Seq(Nat), NEW x \in Nat
    PROVE  s \o Append(t, x) = Append(s \o t, x)
<1>1. Append(t, x) = t \o <<x>> /\ s \o t \in Seq(Nat) /\ <<x>> \in Seq(Nat)
  BY AppendIsConcat, ConcatProperties
<1>2. Append(s \o t, x) = (s \o t) \o <<x>>
  BY <1>1, AppendIsConcat
<1> QED
  BY <1>1, <1>2, ConcatAssociative

Line(s, a, b, c) == s \o (a \o (b \o c))

\* A line of pipes is a sequence of units
LEMMA LineType ==
    ASSUME NEW s \in Seq(Nat), NEW a \in Seq(Nat), NEW b \in Seq(Nat), NEW c \in Seq(Nat)
    PROVE  Line(s, a, b, c) \in Seq(Nat) /\ b \o c \in Seq(Nat) /\ a \o (b \o c) \in Seq(Nat)
BY ConcatProperties DEF Line

\* The first pipe gives a unit to the receiver; the line stays the same
LEMMA FirstMoves ==
    ASSUME NEW s \in Seq(Nat), NEW a \in Seq(Nat), NEW b \in Seq(Nat), NEW c \in Seq(Nat),
           a # <<>>
    PROVE  Line(Append(s, Head(a)), Tail(a), b, c) = Line(s, a, b, c)
<1>1. b \o c \in Seq(Nat)
  BY LineType
<1> QED
  BY <1>1, Along DEF Line

\* The second pipe gives its first unit to the first
LEMMA SecondMoves ==
    ASSUME NEW s \in Seq(Nat), NEW a \in Seq(Nat), NEW b \in Seq(Nat), NEW c \in Seq(Nat),
           b # <<>>
    PROVE  Line(s, Append(a, Head(b)), Tail(b), c) = Line(s, a, b, c)
BY Along DEF Line

\* The third pipe gives its first unit to the second
LEMMA ThirdMoves ==
    ASSUME NEW s \in Seq(Nat), NEW a \in Seq(Nat), NEW b \in Seq(Nat), NEW c \in Seq(Nat),
           c # <<>>
    PROVE  Line(s, a, Append(b, Head(c)), Tail(c)) = Line(s, a, b, c)
<1>1. Tail(c) \in Seq(Nat) /\ <<>> \in Seq(Nat)
  BY HeadThenTail
<1>2. Append(b, Head(c)) \o (Tail(c) \o <<>>) = b \o (c \o <<>>)
  BY <1>1, Along
<1>3. Tail(c) \o <<>> = Tail(c) /\ c \o <<>> = c
  BY <1>1, ConcatEmptySeq
<1> QED
  BY <1>2, <1>3 DEF Line

\* The second pipe gives to the receiver when the first is not there
LEMMA SecondSkips ==
    ASSUME NEW s \in Seq(Nat), NEW b \in Seq(Nat), NEW c \in Seq(Nat), b # <<>>
    PROVE  Line(Append(s, Head(b)), <<>>, Tail(b), c) = Line(s, <<>>, b, c)
<1>1. Tail(b) \in Seq(Nat) /\ b \o c \in Seq(Nat)
  BY HeadThenTail, LineType
<1>2. <<>> \o (Tail(b) \o c) = Tail(b) \o c /\ <<>> \o (b \o c) = b \o c
  BY <1>1, ConcatProperties, ConcatEmptySeq
<1>3. Append(s, Head(b)) \o (Tail(b) \o c) = s \o (b \o c)
  BY Along
<1> QED
  BY <1>2, <1>3 DEF Line

Put(s, x) == Append(s, x)

\* A unit comes into the third pipe, or into the second before an empty third
LEMMA ThirdGrows ==
    ASSUME NEW s \in Seq(Nat), NEW a \in Seq(Nat), NEW b \in Seq(Nat), NEW c \in Seq(Nat),
           NEW x \in Nat
    PROVE  Line(s, a, b, Put(c, x)) = Put(Line(s, a, b, c), x)
<1>1. b \o c \in Seq(Nat) /\ a \o (b \o c) \in Seq(Nat)
  BY LineType
<1>2. b \o Append(c, x) = Append(b \o c, x)
  BY AtEnd
<1> DEFINE t == b \o c
<1>3. t \in Seq(Nat) /\ a \o t \in Seq(Nat)
  BY <1>1
<1> HIDE DEF t
<1>4. a \o Append(t, x) = Append(a \o t, x)
  BY <1>3, AtEnd
<1>5. s \o Append(a \o t, x) = Append(s \o (a \o t), x)
  BY <1>3, AtEnd
<1> QED
  BY <1>2, <1>4, <1>5 DEF Line, Put, t

\* A sender that writes into the second pipe, the last one there, extends the line
LEMMA SecondGrows ==
    ASSUME NEW s \in Seq(Nat), NEW a \in Seq(Nat), NEW b \in Seq(Nat), NEW x \in Nat
    PROVE  Line(s, a, Put(b, x), <<>>) = Put(Line(s, a, b, <<>>), x)
<1>1. b \o <<>> = b /\ <<>> \in Seq(Nat)
  BY ConcatEmptySeq, EmptySeq
<1>2. Put(b, x) \o <<>> = Put(b, x)
  BY AppendProperties, ConcatEmptySeq DEF Put
<1>3. b \o Put(<<>>, x) = Put(b \o <<>>, x)
  BY <1>1, AtEnd DEF Put
<1> DEFINE p == Put(b, x) \o <<>>
           q == b \o Put(<<>>, x)
<1>4. p = q
  BY <1>1, <1>2, <1>3
<1>5. Line(s, a, Put(b, x), <<>>) = s \o (a \o p)
  BY DEF Line
<1>6. Line(s, a, b, Put(<<>>, x)) = s \o (a \o q)
  BY DEF Line
<1> HIDE DEF p, q
<1>7. Line(s, a, b, Put(<<>>, x)) = Put(Line(s, a, b, <<>>), x)
  <2> DEFINE e == <<>>
  <2>1. e \in Seq(Nat)
    BY <1>1
  <2> HIDE DEF e
  <2>2. Line(s, a, b, Put(e, x)) = Put(Line(s, a, b, e), x)
    BY <2>1, ThirdGrows
  <2> QED
    BY <2>2 DEF e
<1> QED
  BY <1>4, <1>5, <1>6, <1>7

\* The units 1..n
Units(n) == [i \in 1..n |-> i]

\* The units sent, with the next one, are the units sent then
LEMMA UnitsGrow ==
    ASSUME NEW n \in Nat
    PROVE  Units(n) \in Seq(Nat) /\ Append(Units(n), n + 1) = Units(n + 1)
<1>1. Units(n) \in Seq(Nat) /\ Len(Units(n)) = n /\ Units(n + 1) \in Seq(Nat)
      /\ Len(Units(n + 1)) = n + 1
  BY DEF Units
<1>2. Append(Units(n), n + 1) \in Seq(Nat) /\ Len(Append(Units(n), n + 1)) = n + 1
  BY <1>1, AppendProperties
<1>3. \A i \in 1..(n + 1) : Append(Units(n), n + 1)[i] = Units(n + 1)[i]
  BY <1>1, AppendProperties DEF Units
<1> QED
  BY <1>1, <1>2, <1>3, SeqEqual

\* What was received is the beginning of the line
LEMMA Received ==
    ASSUME NEW s \in Seq(Nat), NEW t \in Seq(Nat)
    PROVE  IsPrefix(s, s \o t)
<1>1. /\ s \o t \in Seq(Nat) /\ Len(s \o t) = Len(s) + Len(t) /\ Len(s) \in Nat /\ Len(t) \in Nat
      /\ \A i \in 1..Len(s) : (s \o t)[i] = s[i]
  BY ConcatProperties, LenProperties
<1>2. SubSeq(s, 1, Len(s)) = s
  BY SubSeqFull
<1>3. SubSeq(s \o t, 1, Len(s)) = s
  <2>1. CASE Len(s) = 0
    BY <2>1, <1>1, <1>2, SubSeqEmpty
  <2>2. CASE Len(s) # 0
    BY <2>2, <1>1, <1>2, SubSeqOfConcat1
  <2> QED
    BY <2>1, <2>2
<1> QED
  BY <1>1, <1>2, <1>3 DEF IsPrefix

\* To the application, and to the target
Down == Line(got, data["client>app"], data["far>client"], data["target>server"])
Up == Line(tgot, data["server>target"], data["client>far"], data["app>client"])

\* The proxy has neither replied nor sent the request on
Starting == handler \in {"request", "dialing", "opening", "waiting", "connected"}

Order ==
    /\ Down = Units(tsent)
    /\ ~early /\ dest.len < 256 => Up = Units(sent)
    /\ Direct => /\ data["server>target"] = <<>> /\ data["target>server"] = <<>>
                 /\ copy["server up"] = "off" /\ copy["server down"] = "off"
    /\ handler = "request" => ~early
    /\ kind = "plain" => data["app>client"] = <<>>
    /\ kind = "plain" /\ Starting => sent = 0

\* The steps that move no data
LEMMA QuietStep ==
    ASSUME Order, UNCHANGED <<kind, dest, early, data, got, tgot, sent, tsent>>,
           handler' = "request" => handler = "request",
           Starting' => Starting,
           Direct => /\ copy'["server up"] = copy["server up"]
                     /\ copy'["server down"] = copy["server down"]
    PROVE  Order'
<1>1. Down' = Down /\ Up' = Up /\ Units(tsent)' = Units(tsent) /\ Units(sent)' = Units(sent)
  BY DEF Down, Up, Line, Units
<1>2. Direct' <=> Direct
  BY DEF Direct
<1> QED
  BY <1>1, <1>2 DEF Order

\* The steps that move data, and change nothing else that Order speaks of
LEMMA FlowStep ==
    ASSUME Order, UNCHANGED <<kind, dest, early, handler>>, Down' = Units(tsent)',
           Direct => UNCHANGED <<copy["server up"], copy["server down"]>>,
           ~early /\ dest.len < 256 => Up' = Units(sent)',
           Direct => data'["server>target"] = <<>> /\ data'["target>server"] = <<>>,
           kind = "plain" => data'["app>client"] = <<>>,
           kind = "plain" => UNCHANGED sent
    PROVE  Order'
<1>1. (Direct' <=> Direct) /\ (Starting' <=> Starting)
  BY DEF Direct, Starting
<1> QED
  BY <1>1 DEF Order

\* A move takes the first unit of one pipe to the end of another, and touches no third
LEMMA MovedData ==
    ASSUME TypeOK, NEW p \in Pipes, NEW q \in Pipes, p # q, Move(p, q)
    PROVE  /\ data'[p] = Tail(data[p]) /\ data'[q] = Append(data[q], Head(data[p]))
           /\ \A r \in Pipes : r # p /\ r # q => data'[r] = data[r]
BY DEF Move, TypeOK

\* The six pipes, by name, hold units
LEMMA PipesAre ==
    /\ Pipes = {"client>far", "far>client", "app>client", "client>app", "server>target",
                "target>server"}
    /\ TypeOK => \A p \in Pipes : data[p] \in Seq(Nat)
BY DEF Pipes, StreamPipes, TypeOK

\* What a copy changes that Order speaks of: it moves a unit, or moves none and waits
LEMMA CopyMoves ==
    ASSUME TypeOK, Order, NEW c \in Copies, NEW p \in Pipes, NEW q \in Pipes, p # q,
           CopyData(c, p, q)
    PROVE  /\ UNCHANGED <<kind, dest, early, handler, got, tgot, sent, tsent>>
           /\ Direct => UNCHANGED <<copy["server up"], copy["server down"]>>
           /\ c \in {"server up", "server down"} => ~Direct
           /\ \/ Order'
              \/ /\ data[p] # <<>> /\ data'[p] = Tail(data[p])
                 /\ data'[q] = Append(data[q], Head(data[p]))
                 /\ \A r \in Pipes : r # p /\ r # q => data'[r] = data[r]
<1>1. UNCHANGED <<kind, dest, early, handler, got, tgot, sent, tsent>>
  BY DEF CopyData, envVars, appVars, targetVars, clientVars
<1>2. copy[c] # "off" /\ \A d \in Copies : d # c => copy'[d] = copy[d]
  BY CopyDataType
<1>3. c \in {"server up", "server down"} => ~Direct
  BY <1>2 DEF Order
<1>4. Direct => UNCHANGED <<copy["server up"], copy["server down"]>>
  BY <1>2, <1>3 DEF Copies
<1>5. CASE UNCHANGED data
  BY <1>1, <1>3, <1>4, <1>5, QuietStep DEF Starting
<1>6. CASE Move(p, q)
  <2>1. data[p] # <<>>
    BY DEF CopyData
  <2> QED
    BY <1>1, <1>3, <1>4, <1>6, <2>1, MovedData
<1> QED
  BY <1>1, <1>3, <1>4, <1>5, <1>6, CopyDataType

\* The copies: of the proxy up and down, and of the server, which there is for a stream only
LEMMA CopyStep ==
    ASSUME TypeOK, Order, UpData \/ DownData \/ ServerUpData \/ ServerDownData
    PROVE  Order'
<1>1. got \in Seq(Nat) /\ tgot \in Seq(Nat)
  BY DEF TypeOK
<1>2. CASE UpData
  <2>1. CopyData("up", "app>client", "client>far")
    BY <1>2 DEF UpData
  <2>2. /\ UNCHANGED <<kind, dest, early, handler, got, tgot, sent, tsent>>
        /\ Direct => UNCHANGED <<copy["server up"], copy["server down"]>>
        /\ "up" \in {"server up", "server down"} => ~Direct
        /\ \/ Order'
           \/ /\ data["app>client"] # <<>>
              /\ data'["app>client"] = Tail(data["app>client"])
              /\ data'["client>far"] = Append(data["client>far"], Head(data["app>client"]))
              /\ \A r \in Pipes : r # "app>client" /\ r # "client>far" => data'[r] = data[r]
    BY <2>1, PipesAre, CopyMoves DEF Copies
  <2> SUFFICES ASSUME data["app>client"] # <<>>,
                      data'["app>client"] = Tail(data["app>client"]),
                      data'["client>far"] = Append(data["client>far"], Head(data["app>client"])),
                      \A r \in Pipes : r # "app>client" /\ r # "client>far" => data'[r] = data[r]
               PROVE  Order'
    BY <2>2
  <2>3. Down' = Down
    BY <2>2, PipesAre DEF Down
  <2>4. Up' = Up
    <3> DEFINE a == data["server>target"]
               b == data["client>far"]
               c == data["app>client"]
    <3>1. a \in Seq(Nat) /\ b \in Seq(Nat) /\ c \in Seq(Nat) /\ c # <<>>
      BY PipesAre
    <3>2. Up' = Line(tgot, a, Append(b, Head(c)), Tail(c)) /\ Up = Line(tgot, a, b, c)
      BY <2>2, PipesAre DEF Up
    <3> HIDE DEF a, b, c
    <3> QED
      BY <1>1, <3>1, <3>2, ThirdMoves
  <2> QED
    BY <2>2, <2>3, <2>4, PipesAre, FlowStep DEF Order
<1>3. CASE DownData
  <2>1. CopyData("down", "far>client", "client>app")
    BY <1>3 DEF DownData
  <2>2. /\ UNCHANGED <<kind, dest, early, handler, got, tgot, sent, tsent>>
        /\ Direct => UNCHANGED <<copy["server up"], copy["server down"]>>
        /\ "down" \in {"server up", "server down"} => ~Direct
        /\ \/ Order'
           \/ /\ data["far>client"] # <<>>
              /\ data'["far>client"] = Tail(data["far>client"])
              /\ data'["client>app"] = Append(data["client>app"], Head(data["far>client"]))
              /\ \A r \in Pipes : r # "far>client" /\ r # "client>app" => data'[r] = data[r]
    BY <2>1, PipesAre, CopyMoves DEF Copies
  <2> SUFFICES ASSUME data["far>client"] # <<>>,
                      data'["far>client"] = Tail(data["far>client"]),
                      data'["client>app"] = Append(data["client>app"], Head(data["far>client"])),
                      \A r \in Pipes : r # "far>client" /\ r # "client>app" => data'[r] = data[r]
               PROVE  Order'
    BY <2>2
  <2>3. Up' = Up
    BY <2>2, PipesAre DEF Up
  <2>4. Down' = Down
    <3> DEFINE a == data["client>app"]
               b == data["far>client"]
               c == data["target>server"]
    <3>1. a \in Seq(Nat) /\ b \in Seq(Nat) /\ c \in Seq(Nat) /\ b # <<>>
      BY PipesAre
    <3>2. Down' = Line(got, Append(a, Head(b)), Tail(b), c) /\ Down = Line(got, a, b, c)
      BY <2>2, PipesAre DEF Down
    <3> HIDE DEF a, b, c
    <3> QED
      BY <1>1, <3>1, <3>2, SecondMoves
  <2> QED
    BY <2>2, <2>3, <2>4, PipesAre, FlowStep DEF Order
<1>4. CASE ServerUpData
  <2>1. CopyData("server up", "client>far", "server>target")
    BY <1>4 DEF ServerUpData
  <2>2. /\ UNCHANGED <<kind, dest, early, handler, got, tgot, sent, tsent>>
        /\ Direct => UNCHANGED <<copy["server up"], copy["server down"]>>
        /\ "server up" \in {"server up", "server down"} => ~Direct
        /\ \/ Order'
           \/ /\ data["client>far"] # <<>>
              /\ data'["client>far"] = Tail(data["client>far"])
              /\ data'["server>target"] = Append(data["server>target"], Head(data["client>far"]))
              /\ \A r \in Pipes : r # "client>far" /\ r # "server>target" => data'[r] = data[r]
    BY <2>1, PipesAre, CopyMoves DEF Copies
  <2> SUFFICES ASSUME data["client>far"] # <<>>,
                      data'["client>far"] = Tail(data["client>far"]),
                      data'["server>target"] = Append(data["server>target"], Head(data["client>far"])),
                      \A r \in Pipes : r # "client>far" /\ r # "server>target" => data'[r] = data[r]
               PROVE  Order'
    BY <2>2
  <2>3. Down' = Down
    BY <2>2, PipesAre DEF Down
  <2>4. Up' = Up
    <3> DEFINE a == data["server>target"]
               b == data["client>far"]
               c == data["app>client"]
    <3>1. a \in Seq(Nat) /\ b \in Seq(Nat) /\ c \in Seq(Nat) /\ b # <<>>
      BY PipesAre
    <3>2. Up' = Line(tgot, Append(a, Head(b)), Tail(b), c) /\ Up = Line(tgot, a, b, c)
      BY <2>2, PipesAre DEF Up
    <3> HIDE DEF a, b, c
    <3> QED
      BY <1>1, <3>1, <3>2, SecondMoves
  <2> QED
    BY <2>2, <2>3, <2>4, PipesAre, FlowStep DEF Order
<1>5. CASE ServerDownData
  <2>1. CopyData("server down", "target>server", "far>client")
    BY <1>5 DEF ServerDownData
  <2>2. /\ UNCHANGED <<kind, dest, early, handler, got, tgot, sent, tsent>>
        /\ Direct => UNCHANGED <<copy["server up"], copy["server down"]>>
        /\ "server down" \in {"server up", "server down"} => ~Direct
        /\ \/ Order'
           \/ /\ data["target>server"] # <<>>
              /\ data'["target>server"] = Tail(data["target>server"])
              /\ data'["far>client"] = Append(data["far>client"], Head(data["target>server"]))
              /\ \A r \in Pipes : r # "target>server" /\ r # "far>client" => data'[r] = data[r]
    BY <2>1, PipesAre, CopyMoves DEF Copies
  <2> SUFFICES ASSUME data["target>server"] # <<>>,
                      data'["target>server"] = Tail(data["target>server"]),
                      data'["far>client"] = Append(data["far>client"], Head(data["target>server"])),
                      \A r \in Pipes : r # "target>server" /\ r # "far>client" => data'[r] = data[r]
               PROVE  Order'
    BY <2>2
  <2>3. Up' = Up
    BY <2>2, PipesAre DEF Up
  <2>4. Down' = Down
    <3> DEFINE a == data["client>app"]
               b == data["far>client"]
               c == data["target>server"]
    <3>1. a \in Seq(Nat) /\ b \in Seq(Nat) /\ c \in Seq(Nat) /\ c # <<>>
      BY PipesAre
    <3>2. Down' = Line(got, a, Append(b, Head(c)), Tail(c)) /\ Down = Line(got, a, b, c)
      BY <2>2, PipesAre DEF Down
    <3> HIDE DEF a, b, c
    <3> QED
      BY <1>1, <3>1, <3>2, ThirdMoves
  <2> QED
    BY <2>2, <2>3, <2>4, PipesAre, FlowStep DEF Order
<1> QED
  BY <1>2, <1>3, <1>4, <1>5

\* The application and the target send and receive
LEMMA EndsStep ==
    ASSUME TypeOK, Order, AppSend \/ AppReceive \/ TargetSend \/ TargetReceive
    PROVE  Order'
<1> DEFINE a == data["app>client"]
           b == data["client>far"]
           c == data["server>target"]
           x == data["client>app"]
           y == data["far>client"]
           z == data["target>server"]
<1>t. /\ a \in Seq(Nat) /\ b \in Seq(Nat) /\ c \in Seq(Nat)
      /\ x \in Seq(Nat) /\ y \in Seq(Nat) /\ z \in Seq(Nat)
  BY PipesAre
<1>g. got \in Seq(Nat) /\ tgot \in Seq(Nat) /\ sent \in Nat /\ tsent \in Nat
  <2>1. MaxUp \in Nat /\ MaxDown \in Nat
    BY RelayAssumption
  <2> QED
    BY <2>1 DEF TypeOK
<1>u. Up = Line(tgot, c, b, a) /\ Down = Line(got, x, y, z)
  BY DEF Up, Down
<1>1. CASE AppSend
  <2>1. data'["app>client"] = Append(a, sent + 1)
        /\ \A r \in Pipes : r # "app>client" => data'[r] = data[r]
    BY <1>1, PipesAre DEF AppSend, TypeOK
  <2>2. /\ UNCHANGED <<kind, dest, early, handler, copy, got, tgot, tsent>>
        /\ sent' = sent + 1 /\ kind # "plain"
    BY <1>1 DEF AppSend, envVars, targetVars, clientVars
  <2>3. Down' = Down
    BY <2>1, <2>2, PipesAre DEF Down
  <2>4. Up' = Line(tgot, c, b, Append(a, sent + 1))
    BY <2>1, <2>2, PipesAre DEF Up
  <2>5. Up' = Append(Up, sent + 1)
    <3> DEFINE n == sent + 1
    <3>1. n \in Nat
      BY <1>g
    <3> HIDE DEF a, b, c, x, y, z, n
    <3>2. Line(tgot, c, b, Put(a, n)) = Put(Line(tgot, c, b, a), n)
      BY <1>t, <1>g, <3>1, ThirdGrows
    <3> QED
      BY <1>u, <2>4, <3>2 DEF n, Put
  <2>6. ~early /\ dest.len < 256 => Up' = Units(sent)'
    BY <1>g, <2>2, <2>5, UnitsGrow DEF Order
  <2> QED
    BY <2>1, <2>2, <2>3, <2>6, PipesAre, FlowStep DEF Order
<1>2. CASE AppReceive
  <2>1. /\ data'["client>app"] = Tail(x) /\ x # <<>> /\ got' = Append(got, Head(x))
        /\ \A r \in Pipes : r # "client>app" => data'[r] = data[r]
    BY <1>2, PipesAre DEF AppReceive, TypeOK
  <2>2. UNCHANGED <<kind, dest, early, handler, copy, tgot, sent, tsent>>
    BY <1>2 DEF AppReceive, envVars, targetVars, clientVars
  <2>3. Up' = Up
    BY <2>1, <2>2, PipesAre DEF Up
  <2>4. Down' = Line(Append(got, Head(x)), Tail(x), y, z)
    BY <2>1, <2>2, PipesAre DEF Down
  <2>5. Down' = Down
    <3> HIDE DEF a, b, c, x, y, z
    <3> QED
      BY <1>t, <1>g, <1>u, <2>1, <2>4, FirstMoves
  <2> QED
    BY <2>1, <2>2, <2>3, <2>5, PipesAre, FlowStep DEF Order
<1>3. CASE TargetSend
  <2>1. /\ UNCHANGED <<kind, dest, early, handler, copy, got, tgot, sent>> /\ tsent' = tsent + 1
        /\ data' = [data EXCEPT ![FromTarget] = Append(@, tsent + 1)]
    BY <1>3 DEF TargetSend, envVars, appVars, clientVars
  <2>2. /\ FromTarget \in Pipes /\ data'[FromTarget] = Append(data[FromTarget], tsent + 1)
        /\ \A r \in Pipes : r # FromTarget => data'[r] = data[r]
    BY <2>1, PipesAre DEF FromTarget, TypeOK
  <2>3. Up' = Up
    BY <2>1, <2>2, PipesAre DEF Up, FromTarget
  <2>4. Down' = Append(Down, tsent + 1)
    <3>1. CASE Direct
      <4>1. Down' = Line(got, x, Append(y, tsent + 1), z) /\ z = <<>>
        BY <2>1, <2>2, <3>1, PipesAre DEF Down, FromTarget, Order
      <4> DEFINE n == tsent + 1
      <4>2. n \in Nat
        BY <1>g
      <4> HIDE DEF a, b, c, x, y, z, n
      <4>3. Line(got, x, Put(y, n), <<>>) = Put(Line(got, x, y, <<>>), n)
        BY <1>t, <1>g, <4>1, <4>2, SecondGrows
      <4> QED
        BY <1>u, <4>1, <4>3 DEF n, Put
    <3>2. CASE ~Direct
      <4>1. Down' = Line(got, x, y, Append(z, tsent + 1))
        BY <2>1, <2>2, <3>2, PipesAre DEF Down, FromTarget
      <4> DEFINE n == tsent + 1
      <4>2. n \in Nat
        BY <1>g
      <4> HIDE DEF a, b, c, x, y, z, n
      <4>3. Line(got, x, y, Put(z, n)) = Put(Line(got, x, y, z), n)
        BY <1>t, <1>g, <4>1, <4>2, ThirdGrows
      <4> QED
        BY <1>u, <4>1, <4>3 DEF n, Put
    <3> QED
      BY <3>1, <3>2
  <2>5. Down' = Units(tsent)'
    BY <1>g, <2>1, <2>4, UnitsGrow DEF Order
  <2>6. Direct => data'["server>target"] = <<>> /\ data'["target>server"] = <<>>
    BY <2>2, PipesAre DEF Order, FromTarget
  <2>7. kind = "plain" => data'["app>client"] = <<>>
    BY <2>2, PipesAre DEF Order, FromTarget
  <2>8. ~early /\ dest.len < 256 => Up' = Units(sent)'
    BY <2>1, <2>3 DEF Order
  <2> QED
    BY <2>1, <2>5, <2>6, <2>7, <2>8, FlowStep
<1>4. CASE TargetReceive
  <2>1. /\ UNCHANGED <<kind, dest, early, handler, copy, got, tsent, sent>>
        /\ tgot' = Append(tgot, Head(data[ToTarget])) /\ data[ToTarget] # <<>>
        /\ data' = [data EXCEPT ![ToTarget] = Tail(@)]
    BY <1>4 DEF TargetReceive, envVars, appVars, clientVars
  <2>2. /\ ToTarget \in Pipes /\ data'[ToTarget] = Tail(data[ToTarget])
        /\ \A r \in Pipes : r # ToTarget => data'[r] = data[r]
    BY <2>1, PipesAre DEF ToTarget, TypeOK
  <2>3. Down' = Down
    BY <2>1, <2>2, PipesAre DEF Down, ToTarget
  <2>4. Up' = Up
    <3>1. CASE Direct
      <4>1. Up' = Line(Append(tgot, Head(b)), c, Tail(b), a) /\ c = <<>> /\ b # <<>>
        BY <2>1, <2>2, <3>1, PipesAre DEF Up, ToTarget, Order
      <4> HIDE DEF a, b, c, x, y, z
      <4>2. Line(Append(tgot, Head(b)), <<>>, Tail(b), a) = Line(tgot, <<>>, b, a)
        BY <1>t, <1>g, <4>1, SecondSkips
      <4> QED
        BY <1>u, <4>1, <4>2
    <3>2. CASE ~Direct
      <4>1. Up' = Line(Append(tgot, Head(c)), Tail(c), b, a) /\ c # <<>>
        BY <2>1, <2>2, <3>2, PipesAre DEF Up, ToTarget
      <4> HIDE DEF a, b, c, x, y, z
      <4> QED
        BY <1>t, <1>g, <1>u, <4>1, FirstMoves
    <3> QED
      BY <3>1, <3>2
  <2>5. Direct => data'["server>target"] = <<>> /\ data'["target>server"] = <<>>
    BY <2>2, PipesAre DEF Order, ToTarget
  <2>6. kind = "plain" => data'["app>client"] = <<>>
    BY <2>2, PipesAre DEF Order, ToTarget
  <2>7. /\ ~early /\ dest.len < 256 => Up' = Units(sent)'
        /\ Down' = Units(tsent)'
    BY <2>1, <2>3, <2>4 DEF Order
  <2> QED
    BY <2>1, <2>5, <2>6, <2>7, FlowStep
<1> QED
  BY <1>1, <1>2, <1>3, <1>4

\* A plain request goes out: the first and only unit
LEMMA RequestStep ==
    ASSUME TypeOK, Order, SendRequest
    PROVE  Order'
<1>1. /\ UNCHANGED <<kind, dest, early, got, tgot, tsent, copy>> /\ (Direct' <=> Direct)
      /\ kind = "plain" /\ handler = "connected" /\ handler' = "forward"
  BY DEF SendRequest, Direct, envVars, targetVars, clientVars
<1> DEFINE b == data["client>far"]
           c == data["server>target"]
<1>2. sent = 0 /\ sent' = 1 /\ data["app>client"] = <<>>
  BY DEF SendRequest, Order, Starting
<1>3. /\ data'["client>far"] = Append(b, 1)
      /\ \A r \in Pipes : r # "client>far" => data'[r] = data[r]
  BY PipesAre DEF SendRequest, TypeOK
<1>4. Down' = Units(tsent)'
  BY <1>1, <1>3, PipesAre DEF Down, Order
<1>5. Up' = Line(tgot, c, Append(b, 1), <<>>) /\ Up = Line(tgot, c, b, <<>>)
  BY <1>1, <1>2, <1>3, PipesAre DEF Up
<1>6. Up' = Append(Up, 1)
  <2>1. b \in Seq(Nat) /\ c \in Seq(Nat) /\ tgot \in Seq(Nat)
    BY PipesAre DEF TypeOK
  <2> DEFINE n == 1
  <2>2. n \in Nat
    OBVIOUS
  <2> HIDE DEF b, c, n
  <2>3. Line(tgot, c, Put(b, n), <<>>) = Put(Line(tgot, c, b, <<>>), n)
    BY <2>1, <2>2, SecondGrows
  <2> QED
    BY <1>5, <2>3 DEF n, Put
<1>7. ~early' /\ dest'.len < 256 => Up' = Units(sent)'
  <2>1. Append(Units(0), 0 + 1) = Units(0 + 1)
    BY UnitsGrow
  <2>2. Append(Units(0), 1) = Units(1)
    BY <2>1
  <2>3. ~early /\ dest.len < 256 => Up = Units(0)
    BY <1>2 DEF Order
  <2>4. Units(sent)' = Units(1)
    BY <1>2 DEF Units
  <2> QED
    BY <1>1, <1>6, <2>2, <2>3, <2>4
<1>8. Direct' => /\ data'["server>target"] = <<>> /\ data'["target>server"] = <<>>
                 /\ copy'["server up"] = "off" /\ copy'["server down"] = "off"
  BY <1>1, <1>3, PipesAre DEF Order
<1>9. data'["app>client"] = <<>>
  BY <1>2, <1>3, PipesAre
<1> QED
  BY <1>1, <1>4, <1>7, <1>8, <1>9 DEF Order, Starting

\* Every step keeps the line from sender to receiver in order
LEMMA OrderStep == TypeOK /\ Control /\ Order /\ [Next]_vars => Order'
<1> SUFFICES ASSUME TypeOK, Control, Order, [Next]_vars PROVE Order'
  OBVIOUS
<1> USE DEF vars, envVars, appVars, targetVars, clientVars, serverVars, pipeVars, Starting
<1>1. CASE AppSend \/ AppReceive \/ TargetSend \/ TargetReceive
  BY <1>1, EndsStep
<1>2. CASE UpData \/ DownData \/ ServerUpData \/ ServerDownData
  BY <1>2, CopyStep
<1>3. CASE AppClose \/ TargetClose \/ StreamReset \/ UNCHANGED vars
  BY <1>3, QuietStep DEF AppClose, TargetClose, StreamReset
<1>4. CASE RequestFails \/ OpenTimeout \/ Rejected \/ RelayEnds
  BY <1>4, QuietStep DEF RequestFails, OpenTimeout, Rejected, RelayEnds, Return
<1>5. CASE SessionOpen \/ Opened
  BY <1>5, QuietStep DEF SessionOpen, Opened
<1>6. CASE OpenFails
  <2>1. UNCHANGED <<kind, dest, early, data, got, tgot, sent, tsent, copy>> /\ handler' = "done"
    BY <1>6 DEF OpenFails, Return
  <2> QED
    BY <2>1, QuietStep
<1>7. CASE ReadHeader \/ ServerEnds
  <2>1. UNCHANGED <<kind, dest, early, data, got, tgot, sent, tsent, copy, handler>>
    BY <1>7 DEF ReadHeader, ServerEnds
  <2> QED
    BY <2>1, QuietStep
<1>8. CASE UpEnds \/ DownEnds
  <2>1. UNCHANGED <<kind, dest, early, data, got, tgot, sent, tsent, handler>>
    BY <1>8 DEF UpEnds, DownEnds
  <2>2. copy'["server up"] = copy["server up"] /\ copy'["server down"] = copy["server down"]
    BY <1>8 DEF UpEnds, DownEnds, CopyEnds, TypeOK, Copies
  <2> QED
    BY <2>1, <2>2, QuietStep
<1>9. CASE ServerCopyEnds
  <2>1. UNCHANGED <<kind, dest, early, data, got, tgot, sent, tsent, handler>>
    BY <1>9 DEF ServerCopyEnds, ServerUpEnds, ServerDownEnds
  <2>2. ~Direct
    BY <1>9 DEF ServerCopyEnds, ServerUpEnds, ServerDownEnds, CopyEnds, Order
  <2> QED
    BY <2>1, <2>2, QuietStep
<1>10. CASE ReadRequest
  <2>1. /\ handler = "request" /\ handler' # "request" /\ early' = (data["app>client"] # <<>>)
        /\ UNCHANGED <<kind, dest, got, tgot, sent, tsent, copy>>
    BY <1>10 DEF ReadRequest, Return
  <2>2. /\ data'["app>client"] = <<>>
        /\ \A r \in Pipes : r # "app>client" => data'[r] = data[r]
    BY <1>10, PipesAre DEF ReadRequest, TypeOK
  <2>3. Down' = Units(tsent)' /\ (Direct' <=> Direct)
    BY <2>1, <2>2, PipesAre DEF Down, Order, Direct
  <2>4. ~early' => Up' = Up
    BY <2>1, <2>2, PipesAre DEF Up
  <2>5. ~early' /\ dest'.len < 256 => Up' = Units(sent)'
    BY <2>1, <2>4 DEF Order
  <2>6. Direct => data'["server>target"] = <<>> /\ data'["target>server"] = <<>>
    BY <2>2, PipesAre DEF Order
  <2> QED
    BY <2>1, <2>2, <2>3, <2>5, <2>6 DEF Order
<1>11. CASE DialDirect \/ Accepted \/ ConnectFails
  <2>1. /\ UNCHANGED <<kind, dest, early, data, got, tgot, sent, tsent, copy>>
        /\ Starting /\ handler' # "request"
    BY <1>11 DEF DialDirect, Accepted, ConnectFails, Return, Starting
  <2> QED
    BY <2>1, QuietStep
<1>12. CASE Connect
  <2>1. UNCHANGED <<kind, dest, early, data, got, tgot, sent, tsent>> /\ handler' = "relay"
    BY <1>12 DEF Connect
  <2>2. copy'["server up"] = copy["server up"] /\ copy'["server down"] = copy["server down"]
    BY <1>12 DEF Connect, TypeOK, Copies
  <2> QED
    BY <2>1, <2>2, QuietStep DEF Starting
<1>15. CASE SendRequest
  BY <1>15, RequestStep
<1>13. CASE Forward
  <2> DEFINE x == data["client>app"]
             y == data["far>client"]
             z == data["target>server"]
  <2>1. UNCHANGED <<kind, dest, early, got, tgot, sent, tsent, copy>> /\ handler' = "idle"
    BY <1>13 DEF Forward
  <2>2. CASE UNCHANGED data
    BY <2>1, <2>2, QuietStep
  <2>3. CASE ~UNCHANGED data
    <3>1. /\ y # <<>> /\ data'["far>client"] = Tail(y) /\ data'["client>app"] = Append(x, Head(y))
          /\ \A r \in Pipes : r # "far>client" /\ r # "client>app" => data'[r] = data[r]
      BY <1>13, <2>3, PipesAre DEF Forward, TypeOK
    <3>2. Down' = Line(got, Append(x, Head(y)), Tail(y), z) /\ Down = Line(got, x, y, z)
      BY <2>1, <3>1, PipesAre DEF Down
    <3>3. x \in Seq(Nat) /\ y \in Seq(Nat) /\ z \in Seq(Nat) /\ got \in Seq(Nat)
      BY PipesAre DEF TypeOK
    <3>4. Down' = Down
      <4> HIDE DEF x, y, z
      <4> QED
        BY <3>1, <3>2, <3>3, SecondMoves
    <3>5. Up' = Up
      BY <2>1, <3>1, PipesAre DEF Up
    <3>6. Direct' <=> Direct
      BY <2>1 DEF Direct
    <3>7. /\ data'["server>target"] = data["server>target"]
          /\ data'["target>server"] = data["target>server"]
          /\ data'["app>client"] = data["app>client"]
      BY <3>1, PipesAre
    <3> QED
      BY <2>1, <3>4, <3>5, <3>6, <3>7 DEF Order
  <2> QED
    BY <2>2, <2>3
<1>14. CASE ServerDial
  <2>1. /\ UNCHANGED <<kind, dest, early, handler, got, tgot, sent, tsent>>
        /\ server = "dialing" /\ (Direct' <=> Direct)
    BY <1>14 DEF ServerDial, Direct
  <2>2. ~Direct
    BY <2>1 DEF Control
  <2>3. CASE dest.len >= 256 /\ ~UNCHANGED data
    <3>1. \A r \in Pipes : r # "client>far" => data'[r] = data[r]
      BY <1>14, <2>3, PipesAre DEF ServerDial, TypeOK
    <3>2. Down' = Down /\ data'["app>client"] = data["app>client"]
      BY <2>1, <3>1, PipesAre DEF Down
    <3>3. ~(dest.len < 256)
      BY <2>3, RelayAssumption DEF TypeOK
    <3> QED
      BY <2>1, <2>2, <3>2, <3>3 DEF Order
  <2>4. CASE UNCHANGED data
    BY <2>1, <2>2, <2>4, QuietStep
  <2> QED
    BY <1>14, <2>3, <2>4 DEF ServerDial
<1> QED
  BY <1>1, <1>2, <1>3, <1>4, <1>5, <1>6, <1>7, <1>8, <1>9, <1>10, <1>11, <1>12, <1>13, <1>14,
     <1>15 DEF Next, ServerCopyEnds

\* A new connection has nothing in its pipes
LEMMA InitialOrder == Init => Order
<1> SUFFICES ASSUME Init PROVE Order
  OBVIOUS
<1>1. \A p \in Pipes : data[p] = <<>>
  BY DEF Init
<1>2. Down = <<>> /\ Up = <<>>
  BY <1>1, PipesAre DEF Down, Up, Line, Init
<1>3. Units(0) = <<>>
  BY DEF Units
<1> QED
  BY <1>1, <1>2, <1>3, PipesAre DEF Init, Order, Starting, Copies

\* What either end receives is the beginning of what the other sent (the copies of handleConn,
\* relay, forwardHTTPResponse and handleProxyStream), whoever closes what and when
THEOREM ReceivedInOrder == Spec => []InOrder
<1>1. (IInv /\ Order) /\ [Next]_vars => (IInv /\ Order)'
  BY TypeStep, ControlStep, ReleasedStep, OrderStep DEF IInv
<1>2. IInv /\ Order => InOrder
  <2> SUFFICES ASSUME IInv, Order PROVE InOrder
    OBVIOUS
  <2>1. /\ got \in Seq(Nat) /\ tgot \in Seq(Nat)
        /\ \A p \in Pipes : data[p] \in Seq(Nat)
    BY DEF IInv, TypeOK
  <2>2. IsPrefix(got, Down)
    <3>1. data["client>app"] \o (data["far>client"] \o data["target>server"]) \in Seq(Nat)
      BY <2>1, PipesAre, LineType
    <3> QED
      BY <2>1, <3>1, Received DEF Down, Line
  <2>3. IsPrefix(tgot, Up)
    <3>1. data["server>target"] \o (data["client>far"] \o data["app>client"]) \in Seq(Nat)
      BY <2>1, PipesAre, LineType
    <3> QED
      BY <2>1, <3>1, Received DEF Up, Line
  <2> QED
    BY <2>2, <2>3 DEF Order, InOrder, Units
<1> QED
  BY Initially, InitialOrder, <1>1, <1>2, PTL DEF Spec

\* The response implements a stream without losses: the target's write extends it, the
\* application's read gives the next unit, and no copy, close, timeout or reset is seen in
\* between (relay, handleProxyStream, forwardHTTPResponse)
THEOREM ResponseIsStream == Spec => ImplementsResponse
<1>1. Init => Response!Init
  BY DEF Init, Response!Init
<1>2. ASSUME IInv, InOrder, InOrder', [Next]_vars
      PROVE  [Response!Next]_(Response!fifoVars)
  <2>1. /\ got \in Seq(Nat) /\ Len(got) \in Nat /\ tsent \in Nat
        /\ Units(tsent) \in Seq(Nat) /\ Len(Units(tsent)) = tsent
        /\ \A i \in 1..tsent : Units(tsent)[i] = i
    BY <1>2 DEF IInv, TypeOK, Units
  <2>2. CASE AppReceive
    <3> DEFINE h == Head(data["client>app"])
    <3>1. h \in Nat /\ got' = Append(got, h) /\ tsent' = tsent
      BY <1>2, <2>2, PipesAre, HeadThenTail DEF AppReceive, targetVars, IInv, TypeOK
    <3> HIDE DEF h
    <3>2. got' \in Seq(Nat) /\ Len(got') = Len(got) + 1 /\ got'[Len(got) + 1] = h
      BY <2>1, <3>1, AppendProperties
    <3>3. IsPrefix(got', Units(tsent))
      BY <1>2, <3>1 DEF InOrder, Units
    <3>4. Len(got) + 1 <= tsent /\ h = Len(got) + 1
      BY <2>1, <3>2, <3>3 DEF IsPrefix
    <3>5. Len(got) < Len(Units(tsent)) /\ got' = Append(got, Units(tsent)[Len(got) + 1])
      BY <2>1, <3>1, <3>4
    <3> QED
      BY <3>1, <3>5 DEF Response!Next, Response!Read, Units
  <2>3. CASE TargetSend
    <3>1. got' = got /\ tsent' = tsent + 1 /\ tsent + 1 \in 1..MaxDown
      BY <2>1, <2>3, RelayAssumption DEF TargetSend, appVars
    <3>2. Units(tsent') = Append(Units(tsent), tsent + 1)
      BY <2>1, <3>1, UnitsGrow
    <3> QED
      BY <3>1, <3>2 DEF Response!Next, Response!Write, Units
  <2>4. CASE ~AppReceive /\ ~TargetSend
    <3>1. UNCHANGED <<got, tsent>>
      BY <1>2, <2>4 DEF Next, vars, appVars, targetVars, AppSend, AppClose, TargetReceive,
         TargetClose, RequestFails, ReadRequest, DialDirect, SessionOpen, Opened, OpenFails,
         OpenTimeout, Accepted, Rejected, UpData, DownData, CopyData, UpEnds, DownEnds,
         RelayEnds, Forward, ReadHeader, ServerDial, ServerUpData, ServerDownData,
         Connect, SendRequest, ConnectFails, ServerUpEnds, ServerDownEnds, ServerEnds, StreamReset
    <3> QED
      BY <3>1 DEF Response!fifoVars
  <2> QED
    BY <2>2, <2>3, <2>4
<1>3. IInv /\ InOrder /\ InOrder' /\ [Next]_vars => [Response!Next]_(Response!fifoVars)
  BY <1>2
<1> QED
  BY <1>1, <1>3, Invariance, ReceivedInOrder, PTL DEF Spec, ImplementsResponse, Response!Spec

-----------------------------------------------------------------------------
(* The whole response.  Order says that what the target sent is received   *)
(* or still in a pipe on the way; it remains to see that a pipe on the way *)
(* is closed, and the copy that reads it ends, only when it is empty.      *)

\* Who closes which side: nothing before the reply but by its return, the application its own,
\* the target its own, and the server the stream when both its copies have ended
Closes ==
    /\ Starting => /\ reply # "ok" /\ ~fin["client>app"] /\ ~fin["client>far"]
                   /\ ~dead["app>client"] /\ ~dead["far>client"]
                   /\ copy["up"] = "off" /\ copy["down"] = "off"
    /\ handler = "forward" => kind = "plain"
    /\ kind # "plain" /\ reply = "ok" => handler \in {"relay", "done"}
    /\ kind # "plain" /\ reply = "ok" /\ handler = "done" => copy["down"] = "done"
    /\ app = "open" => ~fin["app>client"] /\ ~dead["client>app"]
    /\ sent = 0 => data["app>client"] = <<>> /\ copy["up"] # "write"
    /\ Direct /\ handler \in {"request", "dialing"} => target = "none"
    /\ Direct /\ dead["client>far"] => target = "gone"
    /\ ~Direct /\ fin["far>client"] => server = "done"
    /\ answer = "yes" => server \in {"relay", "done"}
    /\ answer = "yes" /\ server = "done" => copy["server down"] = "done"
    /\ copy["server down"] # "off" => server \in {"relay", "done"}
    /\ copy["server down"] \in {"copy", "write"} => server = "relay"
    /\ dead["target>server"] => server = "done"

\* The application has closed nothing and the target refuses none of its data
Clean ==
    /\ app = "open" /\ kind # "plain" /\ reply = "ok" /\ ~reset
    /\ target # "gone" \/ sent = 0

\* A copy from the target that has ended has left nothing, and nothing can follow
Kept ==
    /\ ~reset /\ copy["server down"] = "done" =>
           data["target>server"] = <<>> /\ fin["target>server"]
    /\ Clean =>
        /\ fin["client>app"] \/ fin["client>far"] \/ dead["app>client"] \/ dead["far>client"] =>
               copy["down"] = "done"
        /\ copy["down"] = "done" =>
               /\ data["far>client"] = <<>>
               /\ Direct => fin["far>client"]
               /\ ~Direct => copy["server down"] = "done"

\* What a Close does to each pipe
LEMMA CloseAt ==
    ASSUME TypeOK, NEW P, NEW Q, Close(P, Q)
    PROVE  \A p \in Pipes : /\ fin'[p] <=> fin[p] \/ p \in Q
                            /\ dead'[p] <=> dead[p] \/ p \in P
BY DEF Close, TypeOK

\* The steps that move data and close nothing: what is in a pipe on the way to the
\* application is put there by the target, or by a copy that has not ended
LEMMA WholeFlow ==
    ASSUME TypeOK, Order, Closes, Kept,
           \/ AppSend \/ AppReceive \/ TargetSend \/ TargetReceive
           \/ UpData \/ DownData \/ ServerUpData \/ ServerDownData
    PROVE  Closes' /\ Kept'
<1> USE DEF envVars, appVars, targetVars, clientVars, serverVars
<1>1. /\ UNCHANGED <<kind, dest, app, target, handler, reply, server, answer, fin, dead, reset>>
      /\ sent' = sent \/ (sent' = sent + 1 /\ target' = target)
      /\ sent \in Nat
  <2>1. UNCHANGED <<kind, dest, app, target, handler, reply, server, answer, fin, dead, reset>>
    BY DEF AppSend, AppReceive, TargetSend, TargetReceive, UpData, DownData, ServerUpData,
           ServerDownData, CopyData
  <2>2. sent' = sent \/ sent' = sent + 1
    BY DEF AppSend, AppReceive, TargetSend, TargetReceive, UpData, DownData, ServerUpData,
           ServerDownData, CopyData
  <2>3. sent \in Nat
    BY RelayAssumption DEF TypeOK
  <2> QED
    BY <2>1, <2>2, <2>3
<1>k. /\ \A c \in Copies : /\ copy'[c] \in {"off", "copy", "write", "done"}
                             /\ copy[c] \in {"off", "copy", "write", "done"}
                             /\ (copy'[c] = "off" <=> copy[c] = "off")
                             /\ (copy'[c] = "done" <=> copy[c] = "done")
      /\ sent' = 0 => copy'["up"] # "write"
  <2>1. CASE AppSend \/ AppReceive \/ TargetSend \/ TargetReceive
    <3>1. copy' = copy
      BY <2>1 DEF AppSend, AppReceive, TargetSend, TargetReceive
    <3>2. sent' = 0 => sent = 0
      BY <1>1
    <3> QED
      BY <3>1, <3>2 DEF Closes, TypeOK
  <2>2. ASSUME NEW c \in Copies, NEW p \in Pipes, NEW q \in Pipes, p # q, CopyData(c, p, q),
               c = "up" => p = "app>client"
        PROVE  /\ \A d \in Copies : /\ copy'[d] \in {"off", "copy", "write", "done"}
                                    /\ copy[d] \in {"off", "copy", "write", "done"}
                                    /\ (copy'[d] = "off" <=> copy[d] = "off")
                                    /\ (copy'[d] = "done" <=> copy[d] = "done")
               /\ sent' = 0 => copy'["up"] # "write"
    <3>1. /\ copy' \in [Copies -> {"off", "copy", "write", "done"}]
          /\ \A d \in Copies : d # c => copy'[d] = copy[d]
          /\ copy[c] \in {"copy", "write"} /\ copy'[c] \in {"copy", "write"}
      BY <2>2, CopyDataType
    <3>2. sent' = sent /\ data[p] # <<>>
      BY <2>2 DEF CopyData
    <3>3. sent = 0 => copy'["up"] # "write"
      BY <2>2, <3>1, <3>2 DEF Closes, Copies
    <3> QED
      BY <3>1, <3>2, <3>3 DEF TypeOK
  <2>3. CASE UpData \/ DownData
    BY <2>2, <2>3, PipesAre DEF UpData, DownData, Copies
  <2>4. CASE ServerUpData \/ ServerDownData
    BY <2>2, <2>4, PipesAre DEF ServerUpData, ServerDownData, Copies
  <2> QED
    BY <2>1, <2>3, <2>4
<1>2. /\ Direct' <=> Direct
      /\ Clean' => Clean
  BY <1>1 DEF Direct, Clean
<1>3. sent' = 0 => data'["app>client"] = <<>>
  <2>1. CASE AppSend
    BY <1>1, <2>1 DEF AppSend
  <2>2. CASE ~AppSend
    <3>1. data["app>client"] = <<>> => data'["app>client"] = <<>>
      <4>1. CASE AppReceive \/ TargetSend \/ TargetReceive
        BY <4>1, PipesAre DEF AppReceive, TargetSend, TargetReceive, FromTarget, ToTarget, TypeOK
      <4>2. CASE UpData \/ DownData \/ ServerUpData \/ ServerDownData
        BY <4>2, PipesAre DEF UpData, DownData, ServerUpData, ServerDownData, CopyData, Move,
           TypeOK
      <4> QED
        BY <2>2, <4>1, <4>2
    <3>2. sent' = 0 => sent = 0
      BY <1>1
    <3>3. sent = 0 => data["app>client"] = <<>>
      BY DEF Closes
    <3> QED
      BY <3>1, <3>2, <3>3
  <2> QED
    BY <2>1, <2>2
<1>4. ~reset /\ copy["server down"] = "done" => data'["target>server"] = <<>>
  <2> SUFFICES ASSUME ~reset, copy["server down"] = "done", data["target>server"] = <<>>,
                      fin["target>server"]
               PROVE  data'["target>server"] = data["target>server"]
    BY DEF Kept
  <2>1. CASE AppSend \/ AppReceive \/ TargetReceive
    BY <2>1, PipesAre DEF AppSend, AppReceive, TargetReceive, ToTarget, TypeOK
  <2>2. CASE TargetSend
    BY <2>2, PipesAre DEF TargetSend, WriteFails, FromTarget, TypeOK
  <2>3. CASE UpData \/ DownData \/ ServerUpData
    BY <2>3, PipesAre DEF UpData, DownData, ServerUpData, CopyData, Move, TypeOK
  <2>4. ~ServerDownData
    BY DEF ServerDownData, CopyData
  <2> QED
    BY <2>1, <2>2, <2>3, <2>4
<1>5. Clean /\ copy["down"] = "done" => data'["far>client"] = <<>>
  <2> SUFFICES ASSUME Clean, copy["down"] = "done", data["far>client"] = <<>>,
                      Direct => fin["far>client"],
                      ~Direct => copy["server down"] = "done"
               PROVE  data'["far>client"] = data["far>client"]
    BY DEF Kept
  <2>1. CASE AppSend \/ AppReceive \/ TargetReceive
    BY <2>1, PipesAre DEF AppSend, AppReceive, TargetReceive, ToTarget, TypeOK
  <2>2. CASE TargetSend
    BY <2>2, PipesAre DEF TargetSend, WriteFails, FromTarget, TypeOK
  <2>3. CASE UpData \/ ServerUpData
    BY <2>3, PipesAre DEF UpData, ServerUpData, CopyData, Move, TypeOK
  <2>4. ~DownData
    BY DEF DownData, CopyData
  <2>5. ~ServerDownData
    BY DEF ServerDownData, CopyData, Order
  <2> QED
    BY <2>1, <2>2, <2>3, <2>4, <2>5
<1>6. Closes'
  BY <1>1, <1>k, <1>2, <1>3 DEF Closes, Starting, Copies
<1>7. Kept'
  BY <1>1, <1>k, <1>2, <1>4, <1>5 DEF Kept, Copies
<1> QED
  BY <1>6, <1>7

\* The application and the target close their own side
LEMMA WholeEnds ==
    ASSUME TypeOK, Closes, Kept, AppClose \/ TargetClose
    PROVE  Closes' /\ Kept'
<1> USE DEF envVars, appVars, targetVars, clientVars, serverVars
<1>1. CASE AppClose
  <2>1. /\ UNCHANGED <<kind, dest, sent, target, handler, reply, server, answer, copy, data, reset>>
        /\ app' # "open"
        /\ \A p \in Pipes : p # "app>client" => (fin'[p] <=> fin[p])
        /\ \A p \in Pipes : p # "client>app" => (dead'[p] <=> dead[p])
    BY <1>1, CloseAt DEF AppClose
  <2> QED
    BY <2>1, PipesAre, ZenonT(60) DEF Closes, Kept, Clean, Starting, Direct
<1>2. CASE TargetClose
  <2>1. /\ UNCHANGED <<kind, dest, app, sent, handler, reply, server, answer, copy, data, reset>>
        /\ target # "none" /\ target # "gone" /\ target' # "none"
        /\ \A p \in Pipes : p # FromTarget => (fin'[p] <=> fin[p])
        /\ \A p \in Pipes : fin[p] => fin'[p]
        /\ \A p \in Pipes : p # ToTarget => (dead'[p] <=> dead[p])
        /\ dead'[ToTarget] => dead[ToTarget] \/ target' = "gone"
    BY <1>2, CloseAt, PipesAre DEF TargetClose, ToTarget
  <2>2. (Direct' <=> Direct) /\ (Clean' => Clean) /\ (Starting' <=> Starting)
    BY <2>1 DEF Direct, Clean, Starting
  <2>3. Closes'
    <3>1. CASE Direct
      <4>1. /\ \A p \in Pipes : p # "far>client" => (fin'[p] <=> fin[p])
            /\ \A p \in Pipes : p # "client>far" => (dead'[p] <=> dead[p])
            /\ dead'["client>far"] => target' = "gone"
        BY <2>1, <3>1, PipesAre DEF FromTarget, ToTarget, Closes
      <4> QED
        BY <2>1, <2>2, <3>1, <4>1, PipesAre DEF Closes
    <3>2. CASE ~Direct
      <4>1. /\ \A p \in Pipes : p # "target>server" => (fin'[p] <=> fin[p])
            /\ \A p \in Pipes : p # "server>target" => (dead'[p] <=> dead[p])
        BY <2>1, <3>2, PipesAre DEF FromTarget, ToTarget
      <4> QED
        BY <2>1, <2>2, <3>2, <4>1, PipesAre DEF Closes
    <3> QED
      BY <3>1, <3>2
  <2>4. Kept'
    <3>1. /\ fin'["client>app"] <=> fin["client>app"]
          /\ fin'["client>far"] <=> fin["client>far"]
          /\ dead'["app>client"] <=> dead["app>client"]
          /\ dead'["far>client"] <=> dead["far>client"]
      BY <2>1, PipesAre DEF FromTarget, ToTarget
    <3> QED
      BY <2>1, <2>2, <3>1, PipesAre DEF Kept
  <2> QED
    BY <2>3, <2>4
<1> QED
  BY <1>1, <1>2

\* Until the reply a return of handleConn is the only one to close a side; it is no success
LEMMA WholeStart ==
    ASSUME TypeOK, Control, Closes, Kept,
           \/ RequestFails \/ ReadRequest \/ OpenFails \/ OpenTimeout \/ Rejected
           \/ ConnectFails
    PROVE  Closes' /\ Kept'
<1> USE DEF envVars, appVars, targetVars, clientVars, serverVars
<1>1. /\ UNCHANGED <<kind, dest, app, sent, target, server, answer, copy, reset>>
      /\ Starting \/ handler = "idle"
      /\ reply' = "ok" => reply = "ok"
      /\ kind # "plain" => reply' # "ok"
  <2>1. /\ UNCHANGED <<kind, dest, app, sent, target, server, answer, copy, reset>>
        /\ Starting \/ handler = "idle"
        /\ reply' = "ok" => reply = "ok"
    BY DEF RequestFails, ReadRequest, OpenFails, OpenTimeout, Rejected, ConnectFails, Return,
       Starting
  <2>2. kind # "plain" => reply # "ok"
    BY <2>1 DEF Closes
  <2> QED
    BY <2>1, <2>2
<1>2. /\ data'["app>client"] = data["app>client"] \/ data'["app>client"] = <<>>
      /\ \A p \in Pipes : p # "app>client" => data'[p] = data[p]
  BY PipesAre DEF RequestFails, ReadRequest, OpenFails, OpenTimeout, Rejected, ConnectFails, TypeOK
<1>3. \/ handler' = "done"
      \/ /\ handler = "request" /\ handler' \in {"dialing", "opening"} /\ UNCHANGED <<fin, dead>>
         /\ handler' = "dialing" => Direct
         /\ handler' = "opening" => ~Direct
  BY DEF RequestFails, ReadRequest, OpenFails, OpenTimeout, Rejected, ConnectFails, Return, Direct
<1>4. /\ \A p \in {"app>client", "far>client", "target>server"} : fin'[p] <=> fin[p]
      /\ \A p \in {"client>app", "client>far", "target>server"} : dead'[p] <=> dead[p]
  <2>1. ASSUME NEW P, NEW Q, Close(P, Q),
               P \subseteq {"app>client", "far>client"}, Q \subseteq {"client>app", "client>far"}
        PROVE  /\ \A p \in {"app>client", "far>client", "target>server"} : fin'[p] <=> fin[p]
               /\ \A p \in {"client>app", "client>far", "target>server"} : dead'[p] <=> dead[p]
    BY <2>1, CloseAt, PipesAre
  <2>2. CASE RequestFails \/ OpenTimeout
    BY <2>1, <2>2 DEF RequestFails, OpenTimeout, Return, AppConn, ToApp
  <2>3. CASE ReadRequest
    BY <2>1, <2>3 DEF ReadRequest, Return, AppConn, ToApp
  <2>4. CASE OpenFails
    BY <2>1, <2>4 DEF OpenFails, Return, AppConn, ToApp
  <2>5. CASE Rejected
    BY <2>1, <2>5 DEF Rejected, Return, AppConn, ToApp
  <2>6. CASE ConnectFails
    BY <2>1, <2>6 DEF ConnectFails, Return, AppConn, ToApp
  <2> QED
    BY <2>2, <2>3, <2>4, <2>5, <2>6
<1>5. (Direct' <=> Direct) /\ ~Clean'
  BY <1>1 DEF Direct, Clean
<1>6. Closes'
  <2>1. /\ Starting' => /\ reply' # "ok" /\ ~fin'["client>app"] /\ ~fin'["client>far"]
                        /\ ~dead'["app>client"] /\ ~dead'["far>client"]
                        /\ copy'["up"] = "off" /\ copy'["down"] = "off"
        /\ handler' # "forward"
    BY <1>1, <1>3 DEF Closes, Starting
  <2>2. Direct' /\ handler' \in {"request", "dialing"} => target' = "none"
    BY <1>1, <1>3, <1>5 DEF Closes
  <2>3. sent' = 0 => data'["app>client"] = <<>>
    BY <1>1, <1>2 DEF Closes
  <2> QED
    BY <1>1, <1>4, <1>5, <2>1, <2>2, <2>3 DEF Closes
<1>7. Kept'
  BY <1>1, <1>2, <1>4, <1>5, PipesAre DEF Kept
<1> QED
  BY <1>6, <1>7

\* The far connection is there, and no side has been closed yet
LEMMA WholeFar ==
    ASSUME TypeOK, Control, Closes, Kept, DialDirect \/ Accepted
    PROVE  Closes' /\ Kept'
<1> USE DEF envVars, appVars, targetVars, clientVars, serverVars
<1>1. /\ UNCHANGED <<kind, dest, app, sent, server, answer, copy, data, reset>>
      /\ (Direct' <=> Direct) /\ Starting /\ (handler = "dialing" => Direct)
      /\ handler \in {"dialing", "waiting"}
  <2>1. /\ UNCHANGED <<kind, dest, app, sent, server, answer, copy, data, reset>>
        /\ handler \in {"dialing", "waiting"}
    BY DEF DialDirect, Accepted, pipeVars
  <2>2. handler = "dialing" => Direct
    BY DEF Control
  <2> QED
    BY <2>1, <2>2 DEF Direct, Starting
<1>2. CASE handler' = "connected" /\ UNCHANGED <<reply, fin, dead>>
  <2>1. target' = target \/ (target' = "open" /\ Direct /\ target = "none")
    BY <1>1 DEF DialDirect, Accepted, Closes
  <2>2. Direct' /\ dead'["client>far"] => target' = "gone"
    BY <1>1, <1>2, <2>1 DEF Closes
  <2>3. Starting' /\ (Clean' => Clean) /\ ~Clean
    BY <1>1, <1>2 DEF Closes, Clean, Starting
  <2> QED
    BY <1>1, <1>2, <2>2, <2>3 DEF Closes, Kept
<1>3. CASE Return({}, {}) /\ reply' = "error" /\ UNCHANGED target
  <2>1. /\ handler' = "done"
        /\ \A p \in Pipes : p # "client>app" => (fin'[p] <=> fin[p])
        /\ \A p \in Pipes : p # "app>client" => (dead'[p] <=> dead[p])
    BY <1>3, CloseAt DEF Return, AppConn, ToApp
  <2>2. ~Clean' /\ ~Starting'
    BY <1>3, <2>1 DEF Clean, Starting
  <2> QED
    BY <1>1, <1>3, <2>1, <2>2, PipesAre DEF Closes, Kept
<1> QED
  BY <1>2, <1>3 DEF DialDirect, Accepted, pipeVars

\* With the reply the copies start; no side has been closed yet
LEMMA WholeConnect ==
    ASSUME TypeOK, Closes, Kept, Connect \/ SendRequest
    PROVE  Closes' /\ Kept'
<1> USE DEF envVars, appVars, targetVars, clientVars, serverVars
<1>1. /\ UNCHANGED <<kind, dest, app, target, server, answer, fin, dead, reset>>
      /\ (Direct' <=> Direct) /\ Starting /\ ~Starting'
  BY DEF Connect, SendRequest, Direct, Starting, pipeVars
<1>2. /\ kind # "plain" => handler' = "relay" /\ copy'["down"] = "copy"
      /\ kind = "plain" => handler' = "forward" /\ reply' = reply
      /\ \A c \in {"server up", "server down"} : copy'[c] = copy[c]
      /\ copy'["up"] # "write"
      /\ \A p \in Pipes : p # "client>far" => data'[p] = data[p]
      /\ sent' = 0 => sent = 0
  <2>1. CASE Connect
    <3>1. /\ handler' = "relay" /\ kind # "plain"
          /\ UNCHANGED <<sent, data>>
      BY <2>1 DEF Connect, pipeVars
    <3>2. /\ copy'["down"] = "copy" /\ copy'["up"] = "copy"
          /\ \A c \in {"server up", "server down"} : copy'[c] = copy[c]
      BY <2>1 DEF Connect, TypeOK, Copies
    <3> QED
      BY <3>1, <3>2
  <2>2. CASE SendRequest
    <3>1. /\ handler' = "forward" /\ kind = "plain" /\ sent' = 1
          /\ UNCHANGED <<reply, copy>>
      BY <2>2 DEF SendRequest
    <3>2. \A p \in Pipes : p # "client>far" => data'[p] = data[p]
      BY <2>2 DEF SendRequest, TypeOK
    <3>3. copy["up"] = "off"
      BY <2>2 DEF SendRequest, Closes, Starting
    <3> QED
      BY <3>1, <3>2, <3>3
  <2> QED
    BY <2>1, <2>2
<1>3. Closes'
  BY <1>1, <1>2, PipesAre DEF Closes
<1>4. Kept'
  <2>1. ~reset' /\ copy'["server down"] = "done" =>
            data'["target>server"] = <<>> /\ fin'["target>server"]
    BY <1>1, <1>2, PipesAre DEF Kept
  <2>2. Clean' => /\ ~fin'["client>app"] /\ ~fin'["client>far"] /\ ~dead'["app>client"]
                  /\ ~dead'["far>client"] /\ copy'["down"] = "copy"
    BY <1>1, <1>2 DEF Closes, Clean
  <2> QED
    BY <2>1, <2>2 DEF Kept
<1> QED
  BY <1>3, <1>4

\* The stream is opened, or reset
LEMMA WholeAside ==
    ASSUME TypeOK, Control, Closes, Kept,
           SessionOpen \/ Opened \/ StreamReset \/ UNCHANGED vars
    PROVE  Closes' /\ Kept'
<1> USE DEF envVars, appVars, targetVars, clientVars, serverVars, pipeVars, vars
<1>1. /\ UNCHANGED <<kind, dest, app, sent, target, reply, answer, copy, data, fin, dead>>
      /\ reset => reset'
      /\ server' = server \/ (server = "none" /\ server' = "header")
  <2>1. SessionOpen => server \in {"none", "header", "dialing", "relay", "done"} /\ server = "none"
    BY DEF SessionOpen, Control, TypeOK
  <2> QED
    BY <2>1 DEF SessionOpen, Opened, StreamReset
<1>2. handler' = handler \/ (handler = "opening" /\ handler' = "waiting")
  BY DEF SessionOpen, Opened, StreamReset
<1>3. (Direct' <=> Direct) /\ (Clean' => Clean) /\ (Starting' <=> Starting)
  BY <1>1, <1>2 DEF Direct, Clean, Starting
<1>4. Closes'
  <2>1. Direct' /\ handler' \in {"request", "dialing"} => target' = "none"
    BY <1>1, <1>2, <1>3 DEF Closes
  <2>2. kind' # "plain" /\ reply' = "ok" =>
            handler' \in {"relay", "done"} /\ (handler' = "done" => copy'["down"] = "done")
    BY <1>1, <1>2 DEF Closes, SessionOpen, Opened, StreamReset
  <2>3. copy' = copy /\ (handler' = "forward" => handler = "forward")
    BY <1>2 DEF SessionOpen, Opened, StreamReset
  <2> QED
    BY <1>1, <1>3, <2>1, <2>2, <2>3 DEF Closes
<1>5. Kept'
  BY <1>1, <1>3 DEF Kept
<1> QED
  BY <1>4, <1>5

\* The copy to the application ends only when the way from the target is empty and closed, and
\* the other one not before it (handleConn, relay)
LEMMA WholeRelay ==
    ASSUME TypeOK, Control, Success, Order, Closes, Kept, UpEnds \/ DownEnds \/ RelayEnds
    PROVE  Closes' /\ Kept'
<1> USE DEF envVars, appVars, targetVars, clientVars, serverVars
<1>1. /\ UNCHANGED <<kind, dest, app, sent, target, reply, server, answer, data, reset>>
      /\ ~Starting /\ ~Starting'
      /\ handler' = handler \/ (handler = "relay" /\ handler' = "done")
      /\ (Direct' <=> Direct) /\ (Clean' <=> Clean)
  <2>1. /\ UNCHANGED <<kind, dest, app, sent, target, reply, server, answer, data, reset>>
        /\ ~Starting
        /\ handler' = handler \/ (handler = "relay" /\ handler' = "done")
    BY DEF UpEnds, DownEnds, RelayEnds, CopyEnds, Return, Starting, Closes
  <2>2. ~Starting'
    BY <2>1 DEF Starting
  <2> QED
    BY <2>1, <2>2 DEF Direct, Clean
<1>2. CASE UpEnds
  <2>1. /\ \A p \in Pipes : p # "client>far" => (fin'[p] <=> fin[p])
        /\ \A p \in Pipes : p # "far>client" => (dead'[p] <=> dead[p])
    BY <1>2, CloseAt DEF UpEnds
  <2>2. /\ handler' = handler /\ copy'["up"] = "done"
        /\ \A c \in Copies : c # "up" => copy'[c] = copy[c]
        /\ \/ copy["up"] = "copy" /\ ReadEnds("app>client")
           \/ data["app>client"] # <<>> /\ WriteFails("client>far")
           \/ copy["up"] = "write" /\ WriteFails("client>far")
    BY <1>2 DEF UpEnds, CopyEnds, TypeOK, Copies
  <2>3. Clean => copy["down"] = "done"
    <3> SUFFICES ASSUME Clean, copy["down"] # "done" PROVE FALSE
      OBVIOUS
    <3>1. /\ ~fin["client>app"] /\ ~fin["client>far"] /\ ~dead["app>client"] /\ ~dead["far>client"]
          /\ ~fin["app>client"] /\ ~reset
          /\ target # "gone" \/ (data["app>client"] = <<>> /\ copy["up"] # "write")
          /\ (Direct /\ dead["client>far"] => target = "gone")
      BY DEF Kept, Closes, Clean
    <3>2. ~ReadEnds("app>client")
      BY <3>1 DEF ReadEnds
    <3>3. WriteFails("client>far") => target = "gone"
      BY <3>1 DEF WriteFails, InStream, StreamPipes
    <3> QED
      BY <2>2, <3>1, <3>2, <3>3
  <2>4. Closes'
    BY <1>1, <2>1, <2>2, PipesAre DEF Closes, Copies
  <2>5. Kept'
    BY <1>1, <2>1, <2>2, <2>3, PipesAre DEF Kept, Copies
  <2> QED
    BY <2>4, <2>5
<1>3. CASE DownEnds
  <2>1. /\ \A p \in Pipes : p # "client>app" => (fin'[p] <=> fin[p])
        /\ \A p \in Pipes : p # "app>client" => (dead'[p] <=> dead[p])
    BY <1>3, CloseAt DEF DownEnds, AppConn, ToApp
  <2>2. /\ copy["down"] # "done" /\ copy'["down"] = "done" /\ handler' = handler
        /\ \A c \in Copies : c # "down" => copy'[c] = copy[c]
        /\ ReadEnds("far>client") \/ WriteFails("client>app")
    BY <1>3 DEF DownEnds, CopyEnds, TypeOK, Copies
  <2>3. Clean => /\ data["far>client"] = <<>> /\ fin["far>client"]
                 /\ ~Direct => copy["server down"] = "done"
    <3> SUFFICES ASSUME Clean
                 PROVE  /\ data["far>client"] = <<>> /\ fin["far>client"]
                        /\ ~Direct => copy["server down"] = "done"
      OBVIOUS
    <3>1. /\ ~fin["client>app"] /\ ~dead["far>client"] /\ ~dead["client>app"] /\ ~reset
      BY <2>2 DEF Kept, Closes, Clean
    <3>2. ~WriteFails("client>app")
      BY <3>1 DEF WriteFails
    <3>3. data["far>client"] = <<>> /\ fin["far>client"]
      BY <2>2, <3>1, <3>2 DEF ReadEnds
    <3>4. ~Direct => answer = "yes" /\ server = "done"
      BY <3>3 DEF Closes, Success, Clean
    <3> QED
      BY <3>3, <3>4 DEF Closes
  <2>4. Closes'
    BY <1>1, <2>1, <2>2, PipesAre DEF Closes, Copies
  <2>5. Kept'
    BY <1>1, <2>1, <2>2, <2>3, PipesAre DEF Kept, Copies
  <2> QED
    BY <2>4, <2>5
<1>4. CASE RelayEnds
  <2>1. /\ copy' = copy /\ copy["down"] = "done"
        /\ \A p \in Pipes : p # "client>app" => (fin'[p] <=> fin[p])
        /\ \A p \in Pipes : p # "app>client" => (dead'[p] <=> dead[p])
    BY <1>4, CloseAt DEF RelayEnds, Return, AppConn, ToApp
  <2>2. Closes'
    BY <1>1, <2>1, PipesAre DEF Closes
  <2>3. Kept'
    BY <1>1, <2>1, PipesAre DEF Kept
  <2> QED
    BY <2>2, <2>3
<1> QED
  BY <1>2, <1>3, <1>4

\* A plain request is over with its response (forwardHTTPResponse)
LEMMA WholeForward ==
    ASSUME TypeOK, Closes, Kept, Forward
    PROVE  Closes' /\ Kept'
<1> USE DEF envVars, appVars, targetVars, clientVars, serverVars
<1>1. /\ UNCHANGED <<kind, dest, app, sent, target, server, answer, copy, reset>>
      /\ handler' = "idle" /\ kind = "plain" /\ (Direct' <=> Direct)
      /\ \A p \in Pipes : p # "client>far" => (fin'[p] <=> fin[p])
      /\ \A p \in Pipes : p # "far>client" => (dead'[p] <=> dead[p])
      /\ data'["app>client"] = data["app>client"]
      /\ data'["target>server"] = data["target>server"]
  <2>1. /\ UNCHANGED <<kind, dest, app, sent, target, server, answer, copy, reset>>
        /\ handler' = "idle" /\ kind = "plain"
    BY DEF Forward, Closes
  <2>2. /\ \A p \in Pipes : p # "client>far" => (fin'[p] <=> fin[p])
        /\ \A p \in Pipes : p # "far>client" => (dead'[p] <=> dead[p])
    BY CloseAt DEF Forward
  <2>3. /\ data'["app>client"] = data["app>client"]
        /\ data'["target>server"] = data["target>server"]
    BY PipesAre DEF Forward, TypeOK
  <2> QED
    BY <2>1, <2>2, <2>3 DEF Direct
<1>2. ~Starting' /\ ~Clean'
  BY <1>1 DEF Starting, Clean
<1> QED
  BY <1>1, <1>2, PipesAre DEF Closes, Kept

\* The server closes the stream when both its copies have ended, and the one from the target
\* ends when there is nothing left of it (handleStream, handleProxyStream)
LEMMA WholeServer ==
    ASSUME TypeOK, Control, Success, Order, Closes, Kept,
           ReadHeader \/ ServerDial \/ ServerCopyEnds \/ ServerEnds
    PROVE  Closes' /\ Kept'
<1> USE DEF envVars, appVars, targetVars, clientVars, serverVars
<1>1. /\ UNCHANGED <<kind, dest, app, sent, handler, reply, reset>> /\ (Direct' <=> Direct)
      /\ (Starting' <=> Starting) /\ ~Direct
  <2>1. UNCHANGED <<kind, dest, app, sent, handler, reply, reset>>
    BY DEF ReadHeader, ServerDial, ServerCopyEnds, ServerUpEnds, ServerDownEnds, ServerEnds
  <2>2. ~Direct
    BY DEF ReadHeader, ServerDial, ServerCopyEnds, ServerUpEnds, ServerDownEnds, ServerEnds,
       CopyEnds, Control, Order
  <2> QED
    BY <2>1, <2>2 DEF Direct, Starting
<1>2. CASE ReadHeader \/ ServerEnds
  <2>1. /\ UNCHANGED <<target, answer, copy, data>>
        /\ \/ server' = "done" \/ (server = "header" /\ server' = "dialing" /\ UNCHANGED <<fin, dead>>)
        /\ server \in {"header", "relay"}
        /\ answer = "yes" => copy["server down"] = "done"
        /\ server = "header" => copy["server down"] = "off" /\ answer = "none"
    BY <1>2 DEF ReadHeader, ServerEnds, ServerReturn, Closes, Control
  <2>2. /\ \A p \in Pipes : fin[p] => fin'[p]
        /\ \A p \in Pipes : p \notin {"far>client", "server>target"} => (fin'[p] <=> fin[p])
        /\ \A p \in Pipes : p \notin {"client>far", "target>server"} => (dead'[p] <=> dead[p])
    <3>1. ASSUME NEW P, NEW Q, Close(P, Q), P \subseteq {"client>far", "target>server"},
                 Q \subseteq {"far>client", "server>target"}
          PROVE  /\ \A p \in Pipes : fin[p] => fin'[p]
                 /\ \A p \in Pipes : p \notin {"far>client", "server>target"} => (fin'[p] <=> fin[p])
                 /\ \A p \in Pipes : p \notin {"client>far", "target>server"} => (dead'[p] <=> dead[p])
      BY <3>1, CloseAt
    <3>2. \/ UNCHANGED <<fin, dead>> \/ Close({"client>far"} \cup {}, {"far>client"} \cup {})
          \/ Close({"client>far"} \cup {"target>server"}, {"far>client"} \cup {"server>target"})
      BY <1>2 DEF ReadHeader, ServerEnds, ServerReturn
    <3> QED
      BY <3>1, <3>2
  <2>3. Clean' <=> Clean
    BY <1>1, <2>1 DEF Clean
  <2>4. copy["server down"] \notin {"copy", "write"}
    BY <1>2, <2>1 DEF ReadHeader, ServerEnds
  <2>5. copy["server down"] # "off" => server' = "done"
    BY <2>1
  <2>6. dead'["target>server"] => server' = "done"
    BY <2>1, <2>2, PipesAre DEF Closes
  <2>7. Closes'
    BY <1>1, <2>1, <2>2, <2>4, <2>5, <2>6, PipesAre DEF Closes
  <2>8. Kept'
    BY <1>1, <2>1, <2>2, <2>3, PipesAre DEF Kept
  <2> QED
    BY <2>7, <2>8
<1>3. CASE ServerDial
  <2>1. /\ server = "dialing" /\ answer = "none" /\ reply # "ok"
        /\ \A p \in Pipes : p # "client>far" => data'[p] = data[p]
        /\ \A c \in {"up", "down"} : copy'[c] = copy[c]
    BY <1>1, <1>3, PipesAre DEF ServerDial, Control, Success, TypeOK, Copies
  <2>2. \/ /\ server' = "relay" /\ answer' = "yes" /\ copy'["server down"] = "copy"
           /\ UNCHANGED <<fin, dead>>
        \/ /\ server' = "done" /\ answer' = "no" /\ copy' = copy /\ copy["server down"] = "off"
           /\ \A p \in Pipes : p # "far>client" => (fin'[p] <=> fin[p])
           /\ \A p \in Pipes : p # "client>far" => (dead'[p] <=> dead[p])
    <3>1. CASE answer' = "yes" /\ server' = "relay" /\ UNCHANGED <<fin, dead>>
      BY <1>3, <2>1, <3>1 DEF ServerDial, TypeOK, Copies
    <3>2. CASE answer' = "no" /\ ServerReturn({}, {}) /\ UNCHANGED copy
      <4>1. Close({"client>far"} \cup {}, {"far>client"} \cup {}) /\ server' = "done"
        BY <3>2 DEF ServerReturn
      <4>2. /\ \A p \in Pipes : p # "far>client" => (fin'[p] <=> fin[p])
            /\ \A p \in Pipes : p # "client>far" => (dead'[p] <=> dead[p])
        BY <4>1, CloseAt
      <4>3. copy["server down"] = "off"
        BY <2>1 DEF Closes
      <4> QED
        BY <3>2, <4>1, <4>2, <4>3
    <3> QED
      BY <1>3, <3>1, <3>2 DEF ServerDial
  <2>3. ~Clean'
    BY <1>1, <2>1 DEF Clean
  <2>4. Closes'
    BY <1>1, <2>1, <2>2, PipesAre DEF Closes
  <2>5. Kept'
    BY <2>2, <2>3 DEF Kept
  <2> QED
    BY <2>4, <2>5
<1>4. CASE ServerCopyEnds
  <2>1. /\ UNCHANGED <<target, server, answer, data, fin, dead>>
        /\ \A c \in Copies : c \notin {"server up", "server down"} => copy'[c] = copy[c]
        /\ copy'["server down"] \in {copy["server down"], "done"}
    BY <1>4 DEF ServerCopyEnds, ServerUpEnds, ServerDownEnds, CopyEnds, pipeVars, TypeOK, Copies
  <2>2. copy'["server down"] # copy["server down"] =>
            /\ server = "relay"
            /\ ~reset => data["target>server"] = <<>> /\ fin["target>server"]
    <3> SUFFICES ASSUME copy'["server down"] # copy["server down"]
                 PROVE  /\ server = "relay"
                        /\ ~reset => data["target>server"] = <<>> /\ fin["target>server"]
      OBVIOUS
    <3>1. CopyEnds("server down", "target>server", "far>client")
      BY <1>4 DEF ServerCopyEnds, ServerUpEnds, ServerDownEnds, CopyEnds, TypeOK, Copies
    <3>2. server = "relay" /\ ~dead["target>server"] /\ ~fin["far>client"]
      BY <1>1, <3>1 DEF CopyEnds, Closes
    <3>3. ~reset => ~WriteFails("far>client")
      BY <1>1, <3>2 DEF WriteFails, InStream, StreamPipes
    <3>4. ~reset => data["target>server"] = <<>> /\ fin["target>server"]
      BY <3>1, <3>2, <3>3 DEF CopyEnds, ReadEnds
    <3> QED
      BY <3>2, <3>4
  <2>3. Clean' <=> Clean
    BY <1>1, <2>1 DEF Clean
  <2>4. Closes'
    BY <1>1, <2>1, <2>2 DEF Closes, Copies
  <2>5. Kept'
    BY <1>1, <2>1, <2>2, <2>3 DEF Kept, Copies
  <2> QED
    BY <2>4, <2>5
<1> QED
  BY <1>2, <1>3, <1>4

\* An application that closes nothing itself, and whose target refuses none of its data, has
\* all that the target sent when it reads the end: no copy ends, and nobody closes, before
\* what is on the way has been handed on (relay, handleConn, handleProxyStream)
THEOREM WholeResponse == Spec => []Whole
<1> DEFINE Inv == IInv /\ Order /\ Closes /\ Kept
<1>1. Init => Inv
  <2> SUFFICES ASSUME Init PROVE Closes /\ Kept
    BY Initially, InitialOrder
  <2>1. /\ handler = "request" /\ reply = "none" /\ target = "none" /\ answer = "none"
        /\ \A c \in Copies : copy[c] = "off"
        /\ \A p \in Pipes : data[p] = <<>> /\ ~fin[p] /\ ~dead[p]
    BY DEF Init
  <2> QED
    BY <2>1, PipesAre DEF Closes, Kept, Clean, Starting, Copies
<1>2. Inv /\ [Next]_vars => Inv'
  <2> SUFFICES ASSUME IInv, Order, Closes, Kept, [Next]_vars PROVE Inv'
    OBVIOUS
  <2>1. TypeOK /\ Control /\ Success /\ Released
    BY DEF IInv
  <2>2. IInv' /\ Order'
    BY <2>1, TypeStep, ControlStep, ReleasedStep, OrderStep DEF IInv
  <2>3. Closes' /\ Kept'
    BY <2>1, WholeFlow, WholeEnds, WholeStart, WholeFar, WholeConnect, WholeAside, WholeRelay,
       WholeForward, WholeServer DEF Next, ServerCopyEnds
  <2> QED
    BY <2>2, <2>3
<1>3. Inv => Whole
  <2> SUFFICES ASSUME IInv, Order, Closes, Kept, Clean, fin["client>app"],
                      data["client>app"] = <<>>
               PROVE  got = Units(tsent)
    BY DEF Whole, Clean, Units
  <2>1. data["far>client"] = <<>> /\ data["target>server"] = <<>>
    BY DEF Kept, Clean, Order
  <2>2. got \in Seq(Nat) /\ <<>> \in Seq(Nat)
    BY DEF IInv, TypeOK
  <2>3. Line(got, <<>>, <<>>, <<>>) = got
    BY <2>2 DEF Line
  <2> QED
    BY <2>1, <2>3 DEF Order, Down
<1> QED
  BY <1>1, <1>2, <1>3, PTL DEF Spec

-----------------------------------------------------------------------------
(* The UDP association (module UdpRelay).                                  *)

Cell == {"head", "data", "answer"} \X Datagrams \X Nat
Policy == Verdicts \cup {"none"}

UdpTypes ==
    /\ tcp \in {"open", "closed"} /\ udp \in {"open", "closed"} /\ loop \in {"read", "done"}
    /\ arrived \in 0..MaxDatagrams
    /\ buffer \in Seq(Cell)
    /\ shape \in [Datagrams -> [head : Nat, data : Nat, policy : Policy]]
    /\ pc \in [Datagrams -> {"none", "start", "opened", "sent", "answered", "built", "done"}]
    /\ out \in [Datagrams -> Seq(Cell)] /\ sentBack \in [Datagrams -> Seq(Cell)]
    /\ answerLen \in [Datagrams -> Nat]
    /\ writes \in Nat /\ stamp \in [Datagrams -> Nat] /\ clean \in [Datagrams -> BOOLEAN]

\* How far datagram d has come: it has a payload once it is sent, and an answer at its end
Stage(d) ==
    /\ d > arrived <=> pc[d] = "none"
    /\ pc[d] \in {"none", "start", "opened"} => out[d] = <<>>
    /\ pc[d] # "done" => sentBack[d] = <<>>

\* What its goroutine slices lies inside the part of the buffer that was written
Room(d) ==
    /\ shape[d].head + shape[d].data <= Len(buffer)
    /\ pc[d] = "built" => shape[d].head + answerLen[d] <= Len(buffer)
    /\ Len(out[d]) <= shape[d].data
    /\ pc[d] \in {"sent", "answered", "built"} /\ shape[d].policy # "cut" =>
          Len(out[d]) = shape[d].data
    /\ sentBack[d] # <<>> => Len(sentBack[d]) = shape[d].head + answerLen[d]

\* The buffer has the n cells of a part of datagram d, from cell i + 1 on
Holds(part, d, i, n) == \A j \in 1..n : buffer[i + j] = <<part, d, j>>

\* As long as nobody else wrote, the buffer has the datagram, and then the answer to it
Own(d) ==
    /\ stamp[d] <= writes
    /\ pc[d] = "built" => stamp[d] < writes
    /\ pc[d] \in {"start", "opened", "sent", "answered"} /\ writes = stamp[d] =>
          /\ Holds("head", d, 0, shape[d].head)
          /\ Holds("data", d, shape[d].head, shape[d].data)
    /\ pc[d] = "built" /\ clean[d] /\ writes = stamp[d] + 1 =>
          /\ Holds("head", d, 0, shape[d].head)
          /\ Holds("answer", d, shape[d].head, answerLen[d])

\* What Undisturbed says of one datagram
Intact(d) ==
    /\ clean[d] /\ pc[d] \in {"sent", "answered", "built"} /\ shape[d].policy # "cut" =>
          out[d] = Cells("data", d, shape[d].data)
    /\ clean[d] /\ sentBack[d] # <<>> =>
          sentBack[d] = Cells("head", d, shape[d].head) \o Cells("answer", d, answerLen[d])

Relayed(d) == Stage(d) /\ Room(d) /\ Own(d) /\ Intact(d)

UdpInv == UdpTypes /\ \A d \in Datagrams : Relayed(d)

\* The cells of a part of a datagram
LEMMA CellsAre ==
    ASSUME NEW part \in {"head", "data", "answer"}, NEW d \in Datagrams, NEW n \in Nat
    PROVE  /\ Cells(part, d, n) \in Seq(Cell) /\ Len(Cells(part, d, n)) = n
           /\ \A i \in 1..n : Cells(part, d, n)[i] = <<part, d, i>>
<1>1. Cells(part, d, n) \in [1..n -> Cell]
  BY DEF Cells, Cell
<1>2. Cells(part, d, n) \in Seq(Cell)
  BY <1>1, SeqDef
<1>3. DOMAIN Cells(part, d, n) = 1..n /\ DOMAIN Cells(part, d, n) = 1..Len(Cells(part, d, n))
      /\ Len(Cells(part, d, n)) \in Nat
  BY <1>1, <1>2, LenProperties
<1>4. Len(Cells(part, d, n)) = n
  BY <1>3
<1>5. \A i \in 1..n : Cells(part, d, n)[i] = <<part, d, i>>
  BY DEF Cells
<1> QED
  BY <1>2, <1>4, <1>5

\* A write into the buffer leaves it a sequence of cells, no shorter than it was, that has the
\* new cells where they were written and the old ones elsewhere (ReadFromUDP, append)
LEMMA Overwritten ==
    ASSUME buffer \in Seq(Cell), NEW i \in 1..(Len(buffer) + 1), NEW c \in Seq(Cell)
    PROVE  /\ Overwrite(i, c) \in Seq(Cell)
           /\ Len(Overwrite(i, c)) >= Len(buffer) /\ Len(Overwrite(i, c)) >= i + Len(c) - 1
           /\ \A j \in 1..(i - 1) : Overwrite(i, c)[j] = buffer[j]
           /\ \A j \in 1..Len(c) : Overwrite(i, c)[i + j - 1] = c[j]
<1> DEFINE n == IF i + Len(c) - 1 > Len(buffer) THEN i + Len(c) - 1 ELSE Len(buffer)
           w == Overwrite(i, c)
<1>1. Len(buffer) \in Nat /\ Len(c) \in Nat
  BY LenProperties
<1>2. n \in Nat /\ n >= Len(buffer) /\ n >= i + Len(c) - 1
  BY <1>1
<1>3. w = [j \in 1..n |-> IF j \in i..(i + Len(c) - 1) THEN c[j - i + 1] ELSE buffer[j]]
  BY DEF Overwrite
<1>4. w \in [1..n -> Cell]
  <2>1. ASSUME NEW j \in 1..n PROVE w[j] \in Cell
    <3>1. CASE j \in i..(i + Len(c) - 1)
      <4>1. j - i + 1 \in 1..Len(c)
        BY <1>1, <3>1
      <4>2. c[j - i + 1] \in Cell
        BY <4>1, ElementOfSeq
      <4> QED
        BY <1>3, <3>1, <4>2
    <3>2. CASE j \notin i..(i + Len(c) - 1)
      <4>1. j \in 1..Len(buffer)
        BY <1>1, <3>2
      <4>2. buffer[j] \in Cell
        BY <4>1, ElementOfSeq
      <4> QED
        BY <1>3, <3>2, <4>2
    <3> QED
      BY <3>1, <3>2
  <2> HIDE DEF n
  <2> QED
    BY <1>3, <2>1
<1>5. w \in Seq(Cell)
  <2> HIDE DEF n, w
  <2> QED
    BY <1>2, <1>4, SeqDef
<1>6. Len(w) \in Nat /\ DOMAIN w = 1..Len(w)
  BY <1>5, LenProperties
<1>7. Len(w) = n
  <2> HIDE DEF n, w
  <2> QED
    BY <1>2, <1>4, <1>6
<1>8. \A j \in 1..(i - 1) : w[j] = buffer[j]
  BY <1>1, <1>2, <1>3
<1>9. \A j \in 1..Len(c) : w[i + j - 1] = c[j]
  <2> SUFFICES ASSUME NEW j \in 1..Len(c) PROVE w[i + j - 1] = c[j]
    OBVIOUS
  <2>1. i + j - 1 \in 1..n /\ i + j - 1 \in i..(i + Len(c) - 1) /\ (i + j - 1) - i + 1 = j
    BY <1>1, <1>2
  <2> HIDE DEF n
  <2> QED
    BY <1>3, <2>1
<1> QED
  BY <1>2, <1>5, <1>7, <1>8, <1>9

\* A slice inside the buffer has its length, and the cells the buffer has there
LEMMA Sliced ==
    ASSUME buffer \in Seq(Cell), NEW i \in Nat, NEW n \in Nat, i + n <= Len(buffer)
    PROVE  /\ Slice(i + 1, i + n) \in Seq(Cell) /\ Len(Slice(i + 1, i + n)) = n
           /\ \A j \in 1..n : Slice(i + 1, i + n)[j] = buffer[i + j]
<1>1. Len(buffer) \in Nat
  BY LenProperties
<1>2. \A j \in (i + 1)..(i + n) : buffer[j] \in Cell
  BY <1>1, ElementOfSeq
<1>3. /\ SubSeq(buffer, i + 1, i + n) \in Seq(Cell)
      /\ Len(SubSeq(buffer, i + 1, i + n)) = IF i + 1 <= i + n THEN (i + n) - (i + 1) + 1 ELSE 0
      /\ \A j \in 1..((i + n) - (i + 1) + 1) :
            SubSeq(buffer, i + 1, i + n)[j] = buffer[(i + 1) + j - 1]
  BY <1>2, SubSeqProperties
<1>4. (i + n) - (i + 1) + 1 = n /\ (i + 1 <= i + n \/ n = 0)
  OBVIOUS
<1>5. \A j \in 1..n : (i + 1) + j - 1 = i + j
  OBVIOUS
<1> QED
  BY <1>3, <1>4, <1>5 DEF Slice

\* What is set aside by a step of somebody else: d's own state is as it was, and the buffer
\* either is, too, or was written to once more and is no shorter
Untouched(d) ==
    /\ shape'[d] = shape[d] /\ pc'[d] = pc[d] /\ out'[d] = out[d]
    /\ answerLen'[d] = answerLen[d] /\ sentBack'[d] = sentBack[d]
    /\ stamp'[d] = stamp[d] /\ clean'[d] = clean[d]
    /\ arrived' = arrived \/ (arrived' = arrived + 1 /\ d # arrived')
    /\ \/ UNCHANGED <<buffer, writes>>
       \/ writes' = writes + 1 /\ Len(buffer') \in Nat /\ Len(buffer') >= Len(buffer)

\* A write by one goroutine, or by the loop, spoils the buffer for the others, who then no
\* longer count as undisturbed, and shortens it for nobody
LEMMA OthersRelayed ==
    ASSUME UdpInv, NEW d \in Datagrams, Untouched(d)
    PROVE  Relayed(d)'
<1>1. /\ d \in Nat /\ arrived \in Nat /\ Len(buffer) \in Nat /\ writes \in Nat
      /\ stamp[d] \in Nat /\ shape[d].head \in Nat /\ shape[d].data \in Nat
      /\ answerLen[d] \in Nat /\ Relayed(d)
  BY UdpRelayAssumption, LenProperties DEF UdpInv, UdpTypes, Datagrams
<1>2. Stage(d)'
  BY <1>1 DEF Untouched, Relayed, Stage
<1>3. Room(d)'
  BY <1>1, SMTT(60) DEF Untouched, Relayed, Room
<1>4. Own(d)'
  <2>1. CASE UNCHANGED <<buffer, writes>>
    BY <1>1, <2>1 DEF Untouched, Relayed, Own, Holds
  <2>2. CASE writes' = writes + 1
    BY <1>1, <2>2 DEF Untouched, Relayed, Own
  <2> QED
    BY <2>1, <2>2 DEF Untouched
<1>5. Intact(d)'
  BY <1>1 DEF Untouched, Relayed, Intact, Cells
<1> QED
  BY <1>2, <1>3, <1>4, <1>5 DEF Relayed

\* An association starts with an empty buffer and no datagram (handleUDPAssociate)
LEMMA UdpStarts == UdpInit => UdpInv
<1> SUFFICES ASSUME UdpInit PROVE UdpInv
  OBVIOUS
<1>1. <<>> \in Seq(Cell) /\ Len(<<>>) = 0 /\ MaxDatagrams \in Nat
  BY EmptySeq, UdpRelayAssumption
<1>2. UdpTypes
  BY <1>1 DEF UdpInit, UdpTypes, Policy, None
<1>3. ASSUME NEW d \in Datagrams PROVE Relayed(d)
  <2>1. d > 0
    BY <1>1 DEF Datagrams
  <2>2. Stage(d) /\ Room(d) /\ Own(d) /\ Intact(d)
    BY <1>1, <2>1 DEF UdpInit, Stage, Room, Own, Intact
  <2> QED
    BY <2>2 DEF Relayed
<1> QED
  BY <1>2, <1>3 DEF UdpInv

\* The end of the association touches no datagram (the goroutine that waits for the TCP
\* connection, the end of relayUDP's loop)
LEMMA AssociationStep ==
    ASSUME UdpInv, TcpCloses \/ CloseUdp \/ LoopEnds \/ UNCHANGED udpVars
    PROVE  UdpInv'
<1>1. UdpTypes'
  BY DEF TcpCloses, CloseUdp, LoopEnds, udpVars, UdpInv, UdpTypes
<1>2. \A d \in Datagrams : Untouched(d)
  BY DEF TcpCloses, CloseUdp, LoopEnds, udpVars, Untouched
<1> QED
  BY <1>1, <1>2, OthersRelayed DEF UdpInv

\* relayUDP reads a datagram over whatever the buffer held and starts its goroutine with the
\* address already parsed
LEMMA ReadStep ==
    ASSUME UdpInv, NEW h \in HeadLens, NEW n \in DataLens,
           NEW policy \in Verdicts, ReadDatagram(h, n, policy)
    PROVE  UdpInv'
<1>0. PICK d \in Datagrams : d = arrived + 1
  BY DEF ReadDatagram
<1> DEFINE whole == Cells("head", d, h) \o Cells("data", d, n)
<1>1. /\ h \in Nat /\ n \in Nat /\ d \in Datagrams /\ d \in Nat
      /\ arrived \in Nat /\ d = arrived + 1 /\ arrived' = d
      /\ writes \in Nat /\ Len(buffer) \in Nat /\ buffer \in Seq(Cell) /\ policy \in Policy
      /\ d \in 0..MaxDatagrams
  BY <1>0, UdpRelayAssumption, LenProperties
     DEF ReadDatagram, UdpInv, UdpTypes, Datagrams, Policy
<1>2. /\ buffer' = Overwrite(1, whole) /\ writes' = writes + 1
      /\ stamp' = [stamp EXCEPT ![d] = writes']
      /\ shape' = [shape EXCEPT ![d] = [head |-> h, data |-> n, policy |-> policy]]
      /\ UNCHANGED <<tcp, udp, loop, out, answerLen, sentBack, clean>>
      /\ \E w \in {"start", "opened", "done"} : pc' = [pc EXCEPT ![d] = w]
  BY <1>0 DEF ReadDatagram
<1>3. /\ whole \in Seq(Cell) /\ Len(whole) = h + n
      /\ \A i \in 1..h : whole[i] = <<"head", d, i>>
      /\ \A i \in 1..n : whole[h + i] = <<"data", d, i>>
  <2>1. /\ Cells("head", d, h) \in Seq(Cell) /\ Len(Cells("head", d, h)) = h
        /\ \A i \in 1..h : Cells("head", d, h)[i] = <<"head", d, i>>
    BY <1>1, CellsAre
  <2>2. /\ Cells("data", d, n) \in Seq(Cell) /\ Len(Cells("data", d, n)) = n
        /\ \A i \in 1..n : Cells("data", d, n)[i] = <<"data", d, i>>
    BY <1>1, CellsAre
  <2>3. /\ whole \in Seq(Cell) /\ Len(whole) = h + n
        /\ \A i \in 1..(h + n) :
              whole[i] = IF i <= h THEN Cells("head", d, h)[i] ELSE Cells("data", d, n)[i - h]
    <3> DEFINE a == Cells("head", d, h)
               b == Cells("data", d, n)
    <3>1. a \in Seq(Cell) /\ b \in Seq(Cell) /\ Len(a) = h /\ Len(b) = n
      BY <2>1, <2>2
    <3> HIDE DEF a, b
    <3>2. /\ a \o b \in Seq(Cell) /\ Len(a \o b) = Len(a) + Len(b)
          /\ \A i \in 1..(Len(a) + Len(b)) :
                (a \o b)[i] = IF i <= Len(a) THEN a[i] ELSE b[i - Len(a)]
      BY <3>1, ConcatProperties
    <3> QED
      BY <3>1, <3>2 DEF a, b
  <2>4. \A i \in 1..h : i \in 1..(h + n) /\ i <= h
    BY <1>1
  <2>5. \A i \in 1..n : h + i \in 1..(h + n) /\ ~(h + i <= h) /\ (h + i) - h = i
    BY <1>1
  <2> HIDE DEF whole
  <2> QED
    BY <2>1, <2>2, <2>3, <2>4, <2>5
<1> HIDE DEF whole
<1>4. /\ buffer' \in Seq(Cell) /\ Len(buffer') \in Nat /\ Len(buffer') >= Len(buffer)
      /\ Len(buffer') >= h + n /\ \A j \in 1..(h + n) : buffer'[j] = whole[j]
  <2>1. /\ Overwrite(1, whole) \in Seq(Cell) /\ Len(Overwrite(1, whole)) >= Len(buffer)
        /\ Len(Overwrite(1, whole)) >= 1 + Len(whole) - 1
        /\ \A j \in 1..Len(whole) : Overwrite(1, whole)[1 + j - 1] = whole[j]
    <3>1. 1 \in 1..(Len(buffer) + 1)
      BY <1>1
    <3> QED
      BY <1>1, <1>3, <3>1, Overwritten
  <2>2. Len(Overwrite(1, whole)) \in Nat
    BY <2>1, LenProperties
  <2>3. \A j \in 1..(h + n) : 1 + j - 1 = j
    BY <1>1
  <2> QED
    BY <1>1, <1>2, <1>3, <2>1, <2>2, <2>3
<1>5. UdpTypes'
  <2>1. [head |-> h, data |-> n, policy |-> policy] \in [head : Nat, data : Nat, policy : Policy]
    BY <1>1
  <2>2. /\ shape' \in [Datagrams -> [head : Nat, data : Nat, policy : Policy]]
        /\ writes' \in Nat /\ stamp' \in [Datagrams -> Nat]
    BY <1>1, <1>2, <2>1 DEF UdpInv, UdpTypes
  <2>3. pc' \in [Datagrams -> {"none", "start", "opened", "sent", "answered", "built", "done"}]
    BY <1>2 DEF UdpInv, UdpTypes
  <2>4. arrived' \in 0..MaxDatagrams /\ buffer' \in Seq(Cell)
    BY <1>1, <1>4
  <2> QED
    BY <1>2, <2>2, <2>3, <2>4 DEF UdpInv, UdpTypes
<1>6. ASSUME NEW e \in Datagrams, e # d PROVE Relayed(e)'
  <2>1. Untouched(e)
    BY <1>1, <1>2, <1>4, <1>6 DEF Untouched, UdpInv, UdpTypes
  <2> QED
    BY <2>1, OthersRelayed
<1>7. Relayed(d)'
  <2>1. pc[d] = "none" /\ out[d] = <<>> /\ sentBack[d] = <<>>
    BY <1>1 DEF UdpInv, Relayed, Stage
  <2>2. /\ shape'[d].head = h /\ shape'[d].data = n /\ stamp'[d] = writes'
        /\ out'[d] = <<>> /\ sentBack'[d] = <<>>
        /\ pc'[d] \in {"start", "opened", "done"}
    BY <1>1, <1>2, <2>1 DEF UdpInv, UdpTypes
  <2>3. Stage(d)'
    BY <1>1, <2>2 DEF Stage
  <2>4. Room(d)'
    BY <1>1, <1>4, <2>2, EmptySeq DEF Room
  <2>5. Own(d)'
    <3>1. Holds("head", d, 0, h)'
      <4>1. \A j \in 1..h : j \in 1..(h + n) /\ 0 + j = j
        BY <1>1
      <4> QED
        BY <1>3, <1>4, <4>1 DEF Holds
    <3>2. Holds("data", d, h, n)'
      <4>1. \A j \in 1..n : h + j \in 1..(h + n)
        BY <1>1
      <4> QED
        BY <1>3, <1>4, <4>1 DEF Holds
    <3> QED
      BY <1>1, <1>2, <2>2, <3>1, <3>2 DEF Own, Holds
  <2>6. Intact(d)'
    BY <2>2 DEF Intact
  <2> QED
    BY <2>3, <2>4, <2>5, <2>6 DEF Relayed
<1> QED
  BY <1>5, <1>6, <1>7 DEF UdpInv

\* The steps of a goroutine that leave the buffer alone: the stream opens or not, the answer
\* comes, or the goroutine gives up (relayUDPDirect, relayUDPProxy)
LEMMA GoroutineStep ==
    ASSUME UdpInv, NEW d \in Datagrams, Open(d) \/ SendCut(d) \/ Fail(d) \/ \E n \in AnswerLens : Answer(d, n)
    PROVE  UdpInv'
<1>1. /\ UNCHANGED <<tcp, udp, loop, buffer, arrived, shape, out, sentBack, writes, stamp, clean>>
      /\ \E w \in {"opened", "sent", "done", "answered"} :
            /\ pc' = [pc EXCEPT ![d] = w]
            /\ w = "opened" => pc[d] = "start" /\ UNCHANGED answerLen
            /\ w = "sent" => pc[d] = "opened" /\ shape[d].policy = "cut" /\ UNCHANGED answerLen
            /\ w = "done" => pc[d] # "none" /\ UNCHANGED answerLen
            /\ w = "answered" => pc[d] = "sent"
                                 /\ \E n \in AnswerLens : answerLen' = [answerLen EXCEPT ![d] = n]
      /\ pc[d] \in {"start", "opened", "sent"}
  BY DEF Open, SendCut, Fail, Answer
<1>2. UdpTypes'
  BY <1>1, UdpRelayAssumption DEF UdpInv, UdpTypes
<1>3. ASSUME NEW e \in Datagrams, e # d PROVE Relayed(e)'
  <2>1. Untouched(e)
    BY <1>1, <1>3 DEF Untouched, UdpInv, UdpTypes
  <2> QED
    BY <2>1, OthersRelayed
<1>4. Relayed(d)'
  <2>1. /\ pc'[d] \in {"opened", "sent", "done", "answered"} /\ Relayed(d)
        /\ pc'[d] = "opened" => pc[d] = "start"
        /\ pc'[d] = "sent" => pc[d] = "opened" /\ shape[d].policy = "cut"
        /\ pc'[d] = "answered" => pc[d] = "sent"
        /\ pc[d] \in {"start", "opened", "sent"}
    BY <1>1 DEF UdpInv, UdpTypes
  <2>2. Stage(d)'
    BY <1>1, <2>1 DEF Relayed, Stage
  <2>3. Room(d)'
    BY <1>1, <2>1 DEF Relayed, Stage, Room
  <2>4. Own(d)'
    BY <1>1, <2>1 DEF Relayed, Own, Holds
  <2>5. Intact(d)'
    BY <1>1, <2>1 DEF Relayed, Stage, Intact, Cells
  <2> QED
    BY <2>2, <2>3, <2>4, <2>5 DEF Relayed
<1> QED
  BY <1>2, <1>3, <1>4 DEF UdpInv

\* The payload is sliced from the buffer as it is by then: always of the right length, and the
\* datagram's own if nobody wrote since it was read
LEMMA SendStep ==
    ASSUME UdpInv, NEW d \in Datagrams, Send(d)
    PROVE  UdpInv'
<1> DEFINE h == shape[d].head
           n == shape[d].data
<1>1. /\ h \in Nat /\ n \in Nat /\ buffer \in Seq(Cell) /\ Relayed(d) /\ h + n <= Len(buffer)
      /\ pc[d] = "opened" /\ pc' = [pc EXCEPT ![d] = "sent"]
      /\ out' = [out EXCEPT ![d] = Slice(h + 1, h + n)]
      /\ clean' = [clean EXCEPT ![d] = (writes = stamp[d])]
      /\ UNCHANGED <<tcp, udp, loop, buffer, arrived, shape, answerLen, sentBack, writes,
                     stamp>>
  BY DEF Send, UdpInv, UdpTypes, Relayed, Room
<1>2. /\ Slice(h + 1, h + n) \in Seq(Cell) /\ Len(Slice(h + 1, h + n)) = n
      /\ \A j \in 1..n : Slice(h + 1, h + n)[j] = buffer[h + j]
  BY <1>1, Sliced
<1> HIDE DEF h, n
<1>3. UdpTypes'
  BY <1>1, <1>2 DEF UdpInv, UdpTypes
<1>4. ASSUME NEW e \in Datagrams, e # d PROVE Relayed(e)'
  <2>1. Untouched(e)
    BY <1>1, <1>4 DEF Untouched, UdpInv, UdpTypes
  <2> QED
    BY <2>1, OthersRelayed
<1>5. Relayed(d)'
  <2>1. /\ pc'[d] = "sent" /\ out'[d] = Slice(h + 1, h + n) /\ clean'[d] = (writes = stamp[d])
        /\ sentBack[d] = <<>>
    BY <1>1 DEF UdpInv, UdpTypes, Relayed, Stage
  <2>2. Stage(d)'
    BY <1>1, <2>1 DEF Relayed, Stage
  <2>3. Room(d)'
    BY <1>1, <1>2, <2>1 DEF Relayed, Room, h, n
  <2>4. Own(d)'
    BY <1>1, <2>1 DEF Relayed, Own, Holds
  <2>5. ASSUME writes = stamp[d] PROVE Slice(h + 1, h + n) = Cells("data", d, n)
    <3>1. \A j \in 1..n : buffer[h + j] = <<"data", d, j>>
      BY <1>1, <2>5 DEF Relayed, Own, Holds, h, n
    <3>2. /\ Cells("data", d, n) \in Seq(Cell) /\ Len(Cells("data", d, n)) = n
          /\ \A j \in 1..n : Cells("data", d, n)[j] = <<"data", d, j>>
      BY <1>1, CellsAre
    <3> QED
      BY <1>2, <3>1, <3>2, SeqEqual
  <2>6. Intact(d)'
    <3>1. clean'[d] => out'[d] = Cells("data", d, n)
      BY <2>1, <2>5
    <3>2. sentBack'[d] = <<>> /\ shape'[d].data = n
      BY <1>1, <2>1 DEF n
    <3> QED
      BY <3>1, <3>2 DEF Intact, Cells
  <2> QED
    BY <2>2, <2>3, <2>4, <2>6 DEF Relayed
<1> QED
  BY <1>3, <1>4, <1>5 DEF UdpInv

\* append puts the answer behind the header, into the buffer itself
LEMMA BuildStep ==
    ASSUME UdpInv, NEW d \in Datagrams, Build(d)
    PROVE  UdpInv'
<1> DEFINE h == shape[d].head
           n == answerLen[d]
           c == Cells("answer", d, n)
<1>1. /\ h \in Nat /\ n \in Nat /\ buffer \in Seq(Cell) /\ Len(buffer) \in Nat /\ Relayed(d)
      /\ shape[d].data \in Nat /\ writes \in Nat /\ stamp[d] \in Nat
  BY LenProperties DEF UdpInv, UdpTypes
<1>2. /\ pc[d] = "answered" /\ pc' = [pc EXCEPT ![d] = "built"]
      /\ buffer' = Overwrite(h + 1, c) /\ writes' = writes + 1
      /\ clean' = [clean EXCEPT ![d] = clean[d] /\ writes = stamp[d]]
      /\ UNCHANGED <<tcp, udp, loop, arrived, shape, out, answerLen, sentBack, stamp>>
  BY DEF Build
<1>3. /\ c \in Seq(Cell) /\ Len(c) = n /\ \A j \in 1..n : c[j] = <<"answer", d, j>>
  BY <1>1, CellsAre
<1> HIDE DEF h, n, c
<1>4. h + 1 \in 1..(Len(buffer) + 1)
  BY <1>1 DEF Relayed, Room, h
<1>5. /\ buffer' \in Seq(Cell) /\ Len(buffer') \in Nat /\ Len(buffer') >= Len(buffer)
      /\ Len(buffer') >= h + n
      /\ \A j \in 1..h : buffer'[j] = buffer[j]
      /\ \A j \in 1..n : buffer'[h + j] = c[j]
  <2>1. /\ buffer' \in Seq(Cell) /\ Len(buffer') >= Len(buffer)
        /\ Len(buffer') >= (h + 1) + Len(c) - 1
        /\ \A j \in 1..((h + 1) - 1) : buffer'[j] = buffer[j]
        /\ \A j \in 1..Len(c) : buffer'[(h + 1) + j - 1] = c[j]
    BY <1>1, <1>2, <1>3, <1>4, Overwritten
  <2>2. Len(buffer') \in Nat
    BY <2>1, LenProperties
  <2>3. (h + 1) + n - 1 = h + n /\ (h + 1) - 1 = h /\ \A j \in 1..n : (h + 1) + j - 1 = h + j
    BY <1>1
  <2> QED
    BY <1>3, <2>1, <2>2, <2>3
<1>6. UdpTypes'
  <2>1. /\ pc' \in [Datagrams -> {"none", "start", "opened", "sent", "answered", "built", "done"}]
        /\ clean' \in [Datagrams -> BOOLEAN]
    BY <1>2 DEF UdpInv, UdpTypes
  <2>2. writes' \in Nat /\ buffer' \in Seq(Cell)
    BY <1>1, <1>2, <1>5
  <2> QED
    BY <1>2, <2>1, <2>2 DEF UdpInv, UdpTypes
<1>7. ASSUME NEW e \in Datagrams, e # d PROVE Relayed(e)'
  <2>1. Untouched(e)
    BY <1>2, <1>5, <1>7 DEF Untouched, UdpInv, UdpTypes
  <2> QED
    BY <2>1, OthersRelayed
<1>8. Relayed(d)'
  <2>1. /\ pc'[d] = "built" /\ clean'[d] = (clean[d] /\ writes = stamp[d])
        /\ shape'[d].head = h /\ answerLen'[d] = n /\ sentBack'[d] = <<>>
    BY <1>1, <1>2 DEF UdpInv, UdpTypes, Relayed, Stage, h, n
  <2>2. Stage(d)'
    BY <1>1, <1>2, <2>1 DEF Relayed, Stage
  <2>3. Room(d)'
    BY <1>1, <1>2, <1>5, <2>1, SMTT(60) DEF Relayed, Room, h
  <2>4. Own(d)'
    <3>1. stamp[d] <= writes
      BY <1>1 DEF Relayed, Own
    <3>2. ASSUME clean'[d]
          PROVE  /\ \A j \in 1..h : buffer'[0 + j] = <<"head", d, j>>
                 /\ \A j \in 1..n : buffer'[h + j] = <<"answer", d, j>>
      <4>1. \A j \in 1..h : buffer[0 + j] = <<"head", d, j>>
        BY <1>1, <1>2, <2>1, <3>2 DEF Relayed, Own, Holds, h
      <4>2. \A j \in 1..h : 0 + j = j
        BY <1>1
      <4>3. \A j \in 1..h : buffer'[0 + j] = <<"head", d, j>>
        BY <1>5, <4>1, <4>2
      <4> QED
        BY <1>3, <1>5, <4>3
    <3>3. stamp'[d] = stamp[d] /\ stamp'[d] <= writes' /\ stamp'[d] < writes'
      BY <1>1, <1>2, <3>1
    <3> QED
      BY <2>1, <3>2, <3>3 DEF Own, Holds
  <2>5. Intact(d)'
    BY <1>1, <1>2, <2>1 DEF Relayed, Intact, Cells
  <2> QED
    BY <2>2, <2>3, <2>4, <2>5 DEF Relayed
<1> QED
  BY <1>6, <1>7, <1>8 DEF UdpInv

\* WriteToUDP sends the header and the answer as the buffer has them by then
LEMMA ReplyStep ==
    ASSUME UdpInv, NEW d \in Datagrams, Reply(d)
    PROVE  UdpInv'
<1> DEFINE h == shape[d].head
           n == answerLen[d]
           s == Slice(1, h + n)
<1>1. /\ h \in Nat /\ n \in Nat /\ buffer \in Seq(Cell) /\ Relayed(d)
      /\ h + n <= Len(buffer) /\ pc[d] = "built" /\ pc' = [pc EXCEPT ![d] = "done"]
      /\ \E r \in {s, <<>>} : sentBack' = [sentBack EXCEPT ![d] = r]
      /\ clean' = [clean EXCEPT ![d] = clean[d] /\ writes = stamp[d] + 1]
      /\ UNCHANGED <<tcp, udp, loop, buffer, arrived, shape, out, answerLen, writes, stamp>>
  BY DEF Reply, UdpInv, UdpTypes, Relayed, Room
<1>2. /\ s \in Seq(Cell) /\ Len(s) = h + n /\ \A j \in 1..(h + n) : s[j] = buffer[j]
  <2> DEFINE k == h + n
  <2>1. k \in Nat /\ k <= Len(buffer) /\ 0 + k = k /\ 0 + 1 = 1 /\ \A j \in 1..k : 0 + j = j
    BY <1>1
  <2> HIDE DEF k
  <2>2. /\ Slice(0 + 1, 0 + k) \in Seq(Cell) /\ Len(Slice(0 + 1, 0 + k)) = k
        /\ \A j \in 1..k : Slice(0 + 1, 0 + k)[j] = buffer[0 + j]
    BY <1>1, <2>1, Sliced
  <2> QED
    BY <2>1, <2>2 DEF k
<1>3. ASSUME clean[d], writes = stamp[d] + 1
      PROVE  s = Cells("head", d, h) \o Cells("answer", d, n)
  <2>1. /\ \A j \in 1..h : buffer[0 + j] = <<"head", d, j>>
        /\ \A j \in 1..n : buffer[h + j] = <<"answer", d, j>>
    BY <1>1, <1>3 DEF Relayed, Own, Holds
  <2> HIDE DEF h, n, s
  <2>2. /\ Cells("head", d, h) \in Seq(Cell) /\ Len(Cells("head", d, h)) = h
        /\ \A i \in 1..h : Cells("head", d, h)[i] = <<"head", d, i>>
    BY <1>1, CellsAre
  <2>3. /\ Cells("answer", d, n) \in Seq(Cell) /\ Len(Cells("answer", d, n)) = n
        /\ \A i \in 1..n : Cells("answer", d, n)[i] = <<"answer", d, i>>
    BY <1>1, CellsAre
  <2> DEFINE t == Cells("head", d, h) \o Cells("answer", d, n)
  <2>4. /\ t \in Seq(Cell) /\ Len(t) = h + n
        /\ \A i \in 1..(h + n) :
              t[i] = IF i <= h THEN Cells("head", d, h)[i] ELSE Cells("answer", d, n)[i - h]
    BY <2>2, <2>3, ConcatProperties
  <2> HIDE DEF t
  <2>5. ASSUME NEW i \in 1..(h + n) PROVE s[i] = t[i]
    <3>1. CASE i <= h
      <4>1. i \in 1..h /\ 0 + i = i
        BY <1>1, <3>1
      <4> QED
        BY <1>2, <2>1, <2>2, <2>4, <3>1, <4>1
    <3>2. CASE ~(i <= h)
      <4>1. i - h \in 1..n /\ h + (i - h) = i
        BY <1>1, <3>2
      <4> QED
        BY <1>2, <2>1, <2>3, <2>4, <3>2, <4>1
    <3> QED
      BY <3>1, <3>2
  <2>6. s = t
    BY <1>2, <2>4, <2>5, SeqEqual
  <2> QED
    BY <2>6 DEF t
<1> HIDE DEF h, n, s
<1>4. UdpTypes'
  <2>1. <<>> \in Seq(Cell)
    BY EmptySeq
  <2>2. /\ pc' \in [Datagrams -> {"none", "start", "opened", "sent", "answered", "built", "done"}]
        /\ clean' \in [Datagrams -> BOOLEAN]
    BY <1>1 DEF UdpInv, UdpTypes
  <2>3. sentBack' \in [Datagrams -> Seq(Cell)]
    <3>1. PICK r \in Seq(Cell) : sentBack' = [sentBack EXCEPT ![d] = r]
      BY <1>1, <1>2, <2>1
    <3>2. sentBack \in [Datagrams -> Seq(Cell)]
      BY DEF UdpInv, UdpTypes
    <3> QED
      BY <3>1, <3>2
  <2> QED
    BY <1>1, <2>2, <2>3 DEF UdpInv, UdpTypes
<1>5. ASSUME NEW e \in Datagrams, e # d PROVE Relayed(e)'
  <2>1. Untouched(e)
    BY <1>1, <1>5 DEF Untouched, UdpInv, UdpTypes
  <2> QED
    BY <2>1, OthersRelayed
<1>6. Relayed(d)'
  <2>1. /\ pc'[d] = "done" /\ sentBack'[d] \in {s, <<>>} /\ shape'[d].head = h
        /\ answerLen'[d] = n /\ clean'[d] = (clean[d] /\ writes = stamp[d] + 1)
    BY <1>1 DEF UdpInv, UdpTypes, h, n
  <2>2. Stage(d)'
    BY <1>1, <2>1 DEF Relayed, Stage
  <2>3. Room(d)'
    BY <1>1, <1>2, <2>1 DEF Relayed, Room
  <2>4. Own(d)'
    BY <1>1, <2>1 DEF Relayed, Own
  <2>5. Intact(d)'
    BY <1>3, <2>1 DEF Intact, Cells
  <2> QED
    BY <2>2, <2>3, <2>4, <2>5 DEF Relayed
<1> QED
  BY <1>4, <1>5, <1>6 DEF UdpInv

\* append finds no room: the header is copied and sent with the answer, by itself
LEMMA AsideStep ==
    ASSUME UdpInv, NEW d \in Datagrams, BuildAside(d)
    PROVE  UdpInv'
<1> DEFINE h == shape[d].head
           n == answerLen[d]
           a == Slice(1, h)
           c == Cells("answer", d, n)
<1>1. /\ h \in Nat /\ n \in Nat /\ buffer \in Seq(Cell) /\ Relayed(d)
      /\ shape[d].data \in Nat /\ Len(buffer) \in Nat /\ h <= Len(buffer)
      /\ pc[d] = "answered" /\ pc' = [pc EXCEPT ![d] = "done"]
      /\ \E r \in {a \o c, <<>>} : sentBack' = [sentBack EXCEPT ![d] = r]
      /\ clean' = [clean EXCEPT ![d] = clean[d] /\ writes = stamp[d]]
      /\ UNCHANGED <<tcp, udp, loop, buffer, arrived, shape, out, answerLen, writes, stamp>>
  <2>1. h \in Nat /\ shape[d].data \in Nat /\ Len(buffer) \in Nat /\ h + shape[d].data <= Len(buffer)
    BY LenProperties DEF UdpInv, UdpTypes, Relayed, Room
  <2>2. h <= Len(buffer)
    BY <2>1
  <2> QED
    BY <2>1, <2>2 DEF BuildAside, UdpInv, UdpTypes
<1>2. a \in Seq(Cell) /\ Len(a) = h /\ \A j \in 1..h : a[j] = buffer[j]
  <2>1. 0 + h = h /\ 0 + 1 = 1 /\ \A j \in 1..h : 0 + j = j
    BY <1>1
  <2> HIDE DEF h
  <2>2. /\ Slice(0 + 1, 0 + h) \in Seq(Cell) /\ Len(Slice(0 + 1, 0 + h)) = h
        /\ \A j \in 1..h : Slice(0 + 1, 0 + h)[j] = buffer[0 + j]
    BY <1>1, <2>1, Sliced, ZenonT(60)
  <2> QED
    BY <2>1, <2>2
<1>3. c \in Seq(Cell) /\ Len(c) = n
  BY <1>1, CellsAre
<1>4. ASSUME writes = stamp[d] PROVE a = Cells("head", d, h)
  <2>1. \A j \in 1..h : buffer[0 + j] = <<"head", d, j>> /\ 0 + j = j
    BY <1>1, <1>4 DEF Relayed, Own, Holds
  <2> HIDE DEF h, a
  <2>2. /\ Cells("head", d, h) \in Seq(Cell) /\ Len(Cells("head", d, h)) = h
        /\ \A j \in 1..h : Cells("head", d, h)[j] = <<"head", d, j>>
    BY <1>1, CellsAre
  <2>3. \A j \in 1..h : a[j] = Cells("head", d, h)[j]
    BY <1>2, <2>1, <2>2
  <2> QED
    BY <1>2, <2>2, <2>3, SeqEqual
<1> HIDE DEF h, n, a, c
<1>5. a \o c \in Seq(Cell) /\ Len(a \o c) = h + n
  BY <1>2, <1>3, ConcatProperties
<1>6. UdpTypes'
  <2>1. PICK r \in Seq(Cell) : sentBack' = [sentBack EXCEPT ![d] = r]
    BY <1>1, <1>5, EmptySeq
  <2>2. sentBack' \in [Datagrams -> Seq(Cell)]
    BY <2>1 DEF UdpInv, UdpTypes
  <2>3. /\ pc' \in [Datagrams -> {"none", "start", "opened", "sent", "answered", "built", "done"}]
        /\ clean' \in [Datagrams -> BOOLEAN]
    BY <1>1 DEF UdpInv, UdpTypes
  <2> QED
    BY <1>1, <2>2, <2>3 DEF UdpInv, UdpTypes
<1>7. ASSUME NEW e \in Datagrams, e # d PROVE Relayed(e)'
  <2>1. Untouched(e)
    BY <1>1, <1>7 DEF Untouched, UdpInv, UdpTypes
  <2> QED
    BY <2>1, OthersRelayed
<1>8. Relayed(d)'
  <2>1. /\ pc'[d] = "done" /\ sentBack'[d] \in {a \o c, <<>>} /\ shape'[d].head = h
        /\ answerLen'[d] = n /\ clean'[d] = (clean[d] /\ writes = stamp[d])
    BY <1>1 DEF UdpInv, UdpTypes, h, n
  <2>2. Stage(d)'
    BY <1>1, <2>1 DEF Relayed, Stage
  <2>3. Room(d)'
    BY <1>1, <1>5, <2>1 DEF Relayed, Room
  <2>4. Own(d)'
    BY <1>1, <2>1 DEF Relayed, Own
  <2>5. Intact(d)'
    BY <1>4, <2>1 DEF Intact, Cells, c
  <2> QED
    BY <2>2, <2>3, <2>4, <2>5 DEF Relayed
<1> QED
  BY <1>6, <1>7, <1>8 DEF UdpInv

\* The loop and every goroutine keep UdpInv, in whatever order they use the buffer
THEOREM UdpInvariance == UdpSpec => []UdpInv
<1>1. UdpInv /\ [UdpNext]_udpVars => UdpInv'
  BY AssociationStep, ReadStep, GoroutineStep, SendStep, BuildStep, AsideStep,
     ReplyStep DEF UdpNext
<1> QED
  BY UdpStarts, <1>1, PTL DEF UdpSpec

\* The variables keep their types, and the goroutines stay inside the buffer
THEOREM UdpTypeCorrect == UdpSpec => []UdpTypeOK
<1>1. UdpInv => UdpTypeOK
  BY DEF UdpInv, UdpTypes, UdpTypeOK, Relayed, Room, Own
<1> QED
  BY UdpInvariance, <1>1, PTL

\* Whatever is read into the shared buffer, what a goroutine sends has the right length, and a
\* goroutine nobody overtook sends its own payload and answers with its own header
THEOREM DatagramsStayIntact == UdpSpec => []DatagramsIntact
<1>1. UdpInv => InBounds /\ Undisturbed
  BY DEF UdpInv, Relayed, Room, Intact, InBounds, Undisturbed
<1> QED
  BY UdpInvariance, <1>1, PTL DEF DatagramsIntact
====
