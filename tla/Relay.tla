---- MODULE Relay ----
(***************************************************************************)
(* One TCP connection of an application through the local proxy, SOCKS5    *)
(* (pkg/proxy/socks5.go) or HTTP (pkg/proxy/http.go), to its target:       *)
(* routed by pkg/routing/router.go, and either dialled by the client or    *)
(* carried in a yamux stream to the server, which dials it                 *)
(* (cmd/server/main.go).                                                   *)
(*                                                                         *)
(* Data travels in pipes, one per direction of each connection.  A pipe    *)
(* has what was written and not yet read, whether its writer closed it     *)
(* (fin), and whether its reader did (dead).  It holds Window units, what  *)
(* the buffers and windows of TCP and yamux hold: a write that finds no    *)
(* room waits, and while it waits nothing is read.  A write to a TCP peer  *)
(* that is gone fails at once, where TCP may take one more.  What a yamux  *)
(* stream does is modelled as the code uses it: Close ends the reads on    *)
(* its side too, and the other side can go on writing until there is no    *)
(* room or the stream is reset.                                            *)
(* An application uses its connection for one request.                     *)
(* Bug... is a mutated form of the definition after it.                    *)
(***************************************************************************)
EXTENDS Integers, SequencesExt, FiniteSetsExt

CONSTANTS
    Kinds,          \* what applications speak: of "socks5", "connect" and "plain"
    Targets,        \* [host, isIP, len]: len is the length of the address as text
    Rules,          \* the router's rules: [type, hosts, policy], hosts what the value matches
    DefaultPolicy,
    Window,         \* units of data a pipe has room for
    MaxUp,          \* bound: units of data the application sends
    MaxDown         \* bound: units of data the target sends

Policies == {"proxy", "direct", "block"}

ASSUME RelayAssumption ==
    /\ Kinds \subseteq {"socks5", "connect", "plain"}
    /\ \A t \in Targets : t.isIP \in BOOLEAN /\ t.len \in Nat
    /\ Rules \in Seq([type : {"domain", "ip_cidr"}, hosts : SUBSET {t.host : t \in Targets},
                      policy : Policies])
    /\ DefaultPolicy \in Policies
    /\ Window \in Nat \ {0} /\ MaxUp \in Nat /\ MaxDown \in Nat

StreamPipes == {"client>far", "far>client"}
Pipes == StreamPipes \cup {"app>client", "client>app", "server>target", "target>server"}
Copies == {"up", "down", "server up", "server down"}

VARIABLES
    kind, dest,   \* what the application speaks, and the target it asks for
    app,          \* its connection: "open", "fin" (half closed), "gone"
    sent, got,    \* units it sent, and those it received
    target,       \* "none", "open", "fin", "gone"
    tsent, tgot,
    dialled,      \* which address was dialled: "none", "right", "wrong"
    handler,      \* the proxy's handleConn
    reply,        \* to the application: "none", "ok", "error"
    opener,       \* the goroutine in session.Open: "none", "pending", "ready", "failed"
    server,       \* handleStream: "none", "header", "dialing", "relay", "done"
    header,       \* the header is in the stream
    answer,       \* the byte it is answered with: "none", "yes", "no"
    copy,         \* the copying goroutines: "off", "copy", "write" (waiting for room), "done"
    data, fin, dead,
    reset,        \* the stream is reset: by yamux, or with its session
    early         \* history: data came in one read with the request

envVars == <<kind, dest>>
appVars == <<app, sent, got>>
targetVars == <<target, tsent, tgot>>
pipeVars == <<data, fin, dead>>
clientVars == <<handler, reply, opener, early>>
serverVars == <<server, answer>>
vars == <<envVars, appVars, targetVars, dialled, clientVars, serverVars, header, copy,
          pipeVars, reset>>

Init ==
    /\ kind \in Kinds /\ dest \in Targets
    /\ app = "open" /\ sent = 0 /\ got = <<>>
    /\ target = "none" /\ tsent = 0 /\ tgot = <<>> /\ dialled = "none"
    /\ handler = "request" /\ reply = "none" /\ opener = "none" /\ early = FALSE
    /\ server = "none" /\ header = FALSE /\ answer = "none"
    /\ copy = [c \in Copies |-> "off"]
    /\ data = [p \in Pipes |-> <<>>]
    /\ fin = [p \in Pipes |-> FALSE] /\ dead = [p \in Pipes |-> FALSE]
    /\ reset = FALSE

-----------------------------------------------------------------------------
(* Router.Route.                                                           *)

\* Domain rules are for names, ip_cidr rules for addresses
Matches(rule, t) == (rule.type = "ip_cidr") = t.isIP /\ t.host \in rule.hosts

BugRoute(t) ==
    LET hits == {i \in DOMAIN Rules : Matches(Rules[i], t)}
    IN  IF hits = {} THEN DefaultPolicy ELSE Rules[Max(hits)].policy
\* The first rule that matches decides
Route(t) ==
    LET hits == {i \in DOMAIN Rules : Matches(Rules[i], t)}
    IN  IF hits = {} THEN DefaultPolicy ELSE Rules[Min(hits)].policy

Direct == Route(dest) = "direct"

\* The pipes of the target's connection, which the client dials or the server
ToTarget == IF Direct THEN "client>far" ELSE "server>target"
FromTarget == IF Direct THEN "far>client" ELSE "target>server"

\* A pipe that is in a stream and not in a TCP connection
InStream(p) == p \in StreamPipes /\ ~Direct

-----------------------------------------------------------------------------
(* Pipes.  A connection's end reads pipe p and writes pipe q.              *)

\* Close of the end that reads every pipe of P and writes every pipe of Q
Close(P, Q) ==
    /\ fin' = [p \in Pipes |-> fin[p] \/ p \in Q]
    /\ dead' = [p \in Pipes |-> dead[p] \/ p \in P]

\* A read has nothing more to give; a TCP connection closed here does not give the rest
BugReadEnds(p) == fin[p] \/ dead[p] \/ (InStream(p) /\ reset)
ReadEnds(p) ==
    \/ data[p] = <<>> /\ (fin[p] \/ dead[p])
    \/ dead[p] /\ ~InStream(p)
    \/ InStream(p) /\ reset

WriteFails(q) ==
    \/ fin[q]
    \/ dead[q] /\ ~InStream(q)
    \/ InStream(q) /\ reset

Full(q) == Len(data[q]) >= Window

BugMove(p, q) == data' = [data EXCEPT ![q] = Append(@, Head(data[p]))]
Move(p, q) == data' = [data EXCEPT ![p] = Tail(@), ![q] = Append(@, Head(data[p]))]

\* io.Copy: one round, that of a unit already read or of the next one.  A unit that waits to
\* be written stands at the head of p, where nobody else reads.
CopyData(c, p, q) ==
    /\ copy[c] = "write" \/ (copy[c] = "copy" /\ ~ReadEnds(p))
    /\ data[p] # <<>> /\ ~WriteFails(q)
    /\ \/ ~Full(q) /\ Move(p, q) /\ copy' = [copy EXCEPT ![c] = "copy"]
       \/ Full(q) /\ copy[c] = "copy" /\ copy' = [copy EXCEPT ![c] = "write"] /\ UNCHANGED data
    /\ UNCHANGED <<envVars, appVars, targetVars, dialled, clientVars, serverVars, header,
                   fin, dead, reset>>

BugCopyEnds(c, p, q) ==
    /\ copy[c] = "copy" /\ ReadEnds(p)
    /\ copy' = [copy EXCEPT ![c] = "done"]
\* Its end: nothing more to read, or a write that fails, also one that was waiting
CopyEnds(c, p, q) ==
    /\ \/ copy[c] = "copy" /\ (ReadEnds(p) \/ (data[p] # <<>> /\ WriteFails(q)))
       \/ copy[c] = "write" /\ WriteFails(q)
    /\ copy' = [copy EXCEPT ![c] = "done"]

-----------------------------------------------------------------------------
(* The application and the target.                                         *)

AppSend ==
    /\ app = "open" /\ sent < MaxUp /\ kind # "plain"
    /\ ~WriteFails("app>client") /\ ~Full("app>client")
    /\ sent' = sent + 1
    /\ data' = [data EXCEPT !["app>client"] = Append(@, sent')]
    /\ UNCHANGED <<envVars, app, got, targetVars, dialled, clientVars, serverVars, header,
                   copy, fin, dead, reset>>

AppReceive ==
    /\ app # "gone" /\ data["client>app"] # <<>>
    /\ got' = Append(got, Head(data["client>app"]))
    /\ data' = [data EXCEPT !["client>app"] = Tail(@)]
    /\ UNCHANGED <<envVars, app, sent, targetVars, dialled, clientVars, serverVars, header,
                   copy, fin, dead, reset>>

\* A half close, or a close
AppClose ==
    /\ \/ app = "open" /\ app' = "fin" /\ Close({}, {"app>client"})
       \/ app # "gone" /\ app' = "gone" /\ Close({"client>app"}, {"app>client"})
    /\ UNCHANGED <<envVars, sent, got, targetVars, dialled, clientVars, serverVars, header,
                   copy, data, reset>>

TargetSend ==
    /\ target = "open" /\ tsent < MaxDown /\ ~WriteFails(FromTarget) /\ ~Full(FromTarget)
    /\ tsent' = tsent + 1
    /\ data' = [data EXCEPT ![FromTarget] = Append(@, tsent')]
    /\ UNCHANGED <<envVars, appVars, target, tgot, dialled, clientVars, serverVars, header,
                   copy, fin, dead, reset>>

TargetReceive ==
    /\ target \in {"open", "fin"} /\ data[ToTarget] # <<>>
    /\ tgot' = Append(tgot, Head(data[ToTarget]))
    /\ data' = [data EXCEPT ![ToTarget] = Tail(@)]
    /\ UNCHANGED <<envVars, appVars, target, tsent, dialled, clientVars, serverVars, header,
                   copy, fin, dead, reset>>

TargetClose ==
    /\ \/ target = "open" /\ target' = "fin" /\ Close({}, {FromTarget})
       \/ target \in {"open", "fin"} /\ target' = "gone" /\ Close({ToTarget}, {FromTarget})
    /\ UNCHANGED <<envVars, appVars, tsent, tgot, dialled, clientVars, serverVars, header,
                   copy, data, reset>>

-----------------------------------------------------------------------------
(* The proxy's handleConn, up to the reply.                                *)

AppConn == {"app>client"}
ToApp == {"client>app"}

\* handleConn returns: its connection is closed, with the pipes of P and Q
Return(P, Q) == handler' = "done" /\ Close(AppConn \cup P, ToApp \cup Q)

\* The request cannot be read, or not within the time (60s, for HTTP)
RequestFails ==
    /\ handler \in {"request", "idle"}
    /\ Return({}, {})
    /\ UNCHANGED <<envVars, appVars, targetVars, dialled, reply, opener, early, serverVars,
                   header, copy, data, reset>>

\* What the read got beyond the request stays in its buffer for ever
ReadRequest ==
    /\ handler = "request"
    /\ early' = (data["app>client"] # <<>>)
    /\ data' = [data EXCEPT !["app>client"] = <<>>]
    /\ \/ Route(dest) = "block" /\ Return({}, {}) /\ reply' = "error" /\ UNCHANGED opener
       \/ Route(dest) = "direct" /\ handler' = "dialing" /\ UNCHANGED <<fin, dead, reply, opener>>
       \/ Route(dest) = "proxy" /\ handler' = "opening" /\ opener' = "pending"
          /\ UNCHANGED <<fin, dead, reply>>
    /\ UNCHANGED <<envVars, appVars, targetVars, dialled, serverVars, header, copy, reset>>

\* net.DialTimeout
DialDirect ==
    /\ handler = "dialing"
    /\ \/ /\ target' = "open" /\ dialled' = "right"
          /\ handler' = "connected" /\ UNCHANGED <<reply, fin, dead>>
       \/ /\ Return({}, {}) /\ reply' = "error"
          /\ UNCHANGED <<target, dialled>>
    /\ UNCHANGED <<envVars, appVars, tsent, tgot, opener, early, serverVars, header, copy,
                   data, reset>>

\* session.Open returns, in its own goroutine; the server has the stream with it
SessionOpen ==
    /\ opener = "pending"
    /\ \/ ~reset /\ opener' = "ready" /\ server' = "header"
       \/ reset /\ opener' = "failed" /\ UNCHANGED server
    /\ UNCHANGED <<envVars, appVars, targetVars, dialled, handler, reply, early, answer,
                   header, copy, pipeVars, reset>>

\* Stream opened: the header goes out
Opened ==
    /\ handler = "opening" /\ opener = "ready" /\ ~reset
    /\ header' = TRUE /\ handler' = "waiting"
    /\ UNCHANGED <<envVars, appVars, targetVars, dialled, reply, opener, early, serverVars,
                   copy, pipeVars, reset>>

\* No stream, or no header: HTTP tells a plain request nothing of the second
OpenFails ==
    /\ handler = "opening"
    /\ \/ opener = "failed" /\ reply' = "error" /\ Return({}, {})
       \/ /\ opener = "ready" /\ reset
          /\ reply' = (IF kind = "plain" THEN reply ELSE "error")
          /\ Return({"far>client"}, {"client>far"})
    /\ UNCHANGED <<envVars, appVars, targetVars, dialled, opener, early, serverVars, header,
                   copy, data, reset>>

\* 30s are over: a stream that opens later is nobody's
OpenTimeout ==
    /\ handler = "opening"
    /\ reply' = "error" /\ Return({}, {})
    /\ UNCHANGED <<envVars, appVars, targetVars, dialled, opener, early, serverVars, header,
                   copy, data, reset>>

Accepted ==
    /\ handler = "waiting" /\ answer = "yes" /\ ~reset
    /\ handler' = "connected"
    /\ UNCHANGED <<envVars, appVars, targetVars, dialled, reply, opener, early, serverVars,
                   header, copy, pipeVars, reset>>

BugRejected ==
    /\ handler = "waiting"
    /\ reply' = "error" /\ Return({}, {})
    /\ UNCHANGED <<envVars, appVars, targetVars, dialled, opener, early, serverVars, header,
                   copy, data, reset>>
\* The server says no, closes the stream, or does not answer within 60s
Rejected ==
    /\ handler = "waiting"
    /\ reply' = "error" /\ Return({"far>client"}, {"client>far"})
    /\ UNCHANGED <<envVars, appVars, targetVars, dialled, opener, early, serverVars, header,
                   copy, data, reset>>

\* The far end is there.  SOCKS5 replies and copies, whatever becomes of the reply.
Connect ==
    /\ handler = "connected"
    /\ kind = "socks5" \/ (kind = "connect" /\ ~WriteFails("client>app"))
    /\ reply' = "ok" /\ handler' = "relay"
    /\ copy' = [copy EXCEPT !["up"] = "copy", !["down"] = "copy"]
    /\ UNCHANGED <<envVars, appVars, targetVars, dialled, opener, early, serverVars, header,
                   pipeVars, reset>>

\* A plain request is sent on: it is the first that is written, and there is room for it
SendRequest ==
    /\ handler = "connected" /\ kind = "plain" /\ ~WriteFails("client>far")
    /\ handler' = "forward" /\ sent' = 1
    /\ data' = [data EXCEPT !["client>far"] = Append(@, 1)]
    /\ UNCHANGED <<envVars, app, got, targetVars, dialled, reply, opener, early, serverVars,
                   header, copy, fin, dead, reset>>

BugConnectFails ==
    /\ handler = "connected"
    /\ \/ kind = "connect" /\ WriteFails("client>app")
       \/ kind = "plain" /\ WriteFails("client>far")
    /\ Return({}, {})
    /\ UNCHANGED <<envVars, appVars, targetVars, dialled, reply, opener, early, serverVars,
                   header, copy, data, reset>>
\* The reply to CONNECT cannot be written, or the request: the far end is closed
ConnectFails ==
    /\ handler = "connected"
    /\ \/ kind = "connect" /\ WriteFails("client>app")
       \/ kind = "plain" /\ WriteFails("client>far")
    /\ Return({"far>client"}, {"client>far"})
    /\ UNCHANGED <<envVars, appVars, targetVars, dialled, reply, opener, early, serverVars,
                   header, copy, data, reset>>

-----------------------------------------------------------------------------
(* The proxy's relay, and the forwarding of a plain request.               *)

UpData == CopyData("up", "app>client", "client>far")
DownData == CopyData("down", "far>client", "client>app")

BugUpEnds ==
    /\ CopyEnds("up", "app>client", "client>far")
    /\ UNCHANGED <<fin, dead>>
    /\ UNCHANGED <<envVars, appVars, targetVars, dialled, clientVars, serverVars, header,
                   data, reset>>
\* HTTP closes the sending side only, where the connection has it: a stream has not
UpEnds ==
    /\ CopyEnds("up", "app>client", "client>far")
    /\ IF kind = "connect" /\ Direct THEN Close({}, {"client>far"})
                                     ELSE Close({"far>client"}, {"client>far"})
    /\ UNCHANGED <<envVars, appVars, targetVars, dialled, clientVars, serverVars, header,
                   data, reset>>

BugDownEnds ==
    /\ CopyEnds("down", "far>client", "client>app")
    /\ UNCHANGED <<fin, dead>>
    /\ UNCHANGED <<envVars, appVars, targetVars, dialled, clientVars, serverVars, header,
                   data, reset>>
DownEnds ==
    /\ CopyEnds("down", "far>client", "client>app")
    /\ IF kind = "connect" THEN Close({}, ToApp) ELSE Close(AppConn, ToApp)
    /\ UNCHANGED <<envVars, appVars, targetVars, dialled, clientVars, serverVars, header,
                   data, reset>>

\* wg.Wait
RelayEnds ==
    /\ handler = "relay" /\ copy["up"] = "done" /\ copy["down"] = "done"
    /\ Return({}, {})
    /\ UNCHANGED <<envVars, appVars, targetVars, dialled, reply, opener, early, serverVars,
                   header, copy, data, reset>>

BugForward ==
    /\ handler = "forward" /\ data["far>client"] # <<>>
    /\ data' = [data EXCEPT !["client>app"] = Append(@, Head(data["far>client"]))]
    /\ reply' = "ok"
    /\ UNCHANGED <<envVars, appVars, targetVars, dialled, handler, opener, early, serverVars,
                   header, copy, fin, dead, reset>>
\* forwardHTTPResponse, with no deadline; without a response the application gets nothing
Forward ==
    /\ handler = "forward"
    /\ \/ /\ data["far>client"] # <<>> /\ ~ReadEnds("far>client")
          /\ data' = [data EXCEPT !["client>app"] = Append(@, Head(data["far>client"])),
                                  !["far>client"] = Tail(@)]
          /\ reply' = "ok"
       \/ ReadEnds("far>client") /\ UNCHANGED <<data, reply>>
    /\ handler' = "idle"
    /\ Close({"far>client"}, {"client>far"})
    /\ UNCHANGED <<envVars, appVars, targetVars, dialled, opener, early, serverVars, header,
                   copy, reset>>

-----------------------------------------------------------------------------
(* The server.                                                             *)

\* The length of the address is sent as one byte, and its limit is 253
AddrLen == dest.len % 256
HeaderValid == AddrLen # 0 /\ AddrLen <= 253

\* handleStream returns: the stream is closed, and the target's connection
ServerReturn(P, Q) ==
    /\ server' = "done"
    /\ Close({"client>far"} \cup P, {"far>client"} \cup Q)

\* The header as a whole: type, length and address
ReadHeader ==
    /\ server = "header"
    /\ \/ header /\ ~reset /\ HeaderValid /\ server' = "dialing" /\ UNCHANGED <<fin, dead>>
       \/ header /\ ~reset /\ ~HeaderValid /\ ServerReturn({}, {})
       \/ ReadEnds("client>far") /\ ServerReturn({}, {})
    /\ UNCHANGED <<envVars, appVars, targetVars, dialled, clientVars, answer, header, copy,
                   data, reset>>

BugServerDial ==
    /\ server = "dialing" /\ answer = "none"
    /\ answer' = "yes"
    /\ UNCHANGED <<envVars, appVars, targetVars, dialled, clientVars, server, header, copy,
                   pipeVars, reset>>
\* resolver.DialContext, within 10s.  If the length did not fit its byte, the address is cut
\* short and what follows goes to the target as data.
ServerDial ==
    /\ server = "dialing"
    /\ \/ /\ target' = "open"
          /\ answer' = "yes" /\ server' = "relay"
          /\ copy' = [copy EXCEPT !["server up"] = "copy", !["server down"] = "copy"]
          /\ \/ dest.len < 256 /\ dialled' = "right" /\ UNCHANGED data
             \/ /\ dest.len >= 256 /\ dialled' = "wrong"
                /\ data' = [data EXCEPT !["client>far"] = <<0>> \o @]
          /\ UNCHANGED <<fin, dead>>
       \/ /\ answer' = "no" /\ ServerReturn({}, {})
          /\ UNCHANGED <<target, dialled, copy, data>>
    /\ UNCHANGED <<envVars, appVars, tsent, tgot, clientVars, header, reset>>

ServerUpData == CopyData("server up", "client>far", "server>target")
ServerDownData == CopyData("server down", "target>server", "far>client")

ServerUpEnds ==
    /\ CopyEnds("server up", "client>far", "server>target")
    /\ UNCHANGED <<envVars, appVars, targetVars, dialled, clientVars, serverVars, header, pipeVars,
                   reset>>
ServerDownEnds ==
    /\ CopyEnds("server down", "target>server", "far>client")
    /\ UNCHANGED <<envVars, appVars, targetVars, dialled, clientVars, serverVars, header, pipeVars,
                   reset>>

\* Neither copy closes anything when it ends; the handler does when both have
ServerEnds ==
    /\ server = "relay" /\ copy["server up"] = "done" /\ copy["server down"] = "done"
    /\ ServerReturn({"target>server"}, {"server>target"})
    /\ UNCHANGED <<envVars, appVars, targetVars, dialled, clientVars, answer, header, copy,
                   data, reset>>

\* yamux resets a stream that is closed on one side only for 5 minutes, and every stream of a
\* session that ends
StreamReset ==
    /\ ~Direct /\ ~reset /\ opener \in {"pending", "ready"}
    /\ reset' = TRUE
    /\ UNCHANGED <<envVars, appVars, targetVars, dialled, clientVars, serverVars, header,
                   copy, pipeVars>>

Next ==
    \/ AppSend \/ AppReceive \/ AppClose
    \/ TargetSend \/ TargetReceive \/ TargetClose
    \/ RequestFails \/ ReadRequest \/ DialDirect
    \/ SessionOpen \/ Opened \/ OpenFails \/ OpenTimeout \/ Accepted \/ Rejected
    \/ Connect \/ SendRequest \/ ConnectFails
    \/ UpData \/ DownData \/ UpEnds \/ DownEnds \/ RelayEnds \/ Forward
    \/ ReadHeader \/ ServerDial \/ ServerUpData \/ ServerUpEnds \/ ServerDownData \/ ServerDownEnds
    \/ ServerEnds
    \/ StreamReset

Spec == Init /\ [][Next]_vars

(* The proxy, the server and their copies go on, one goroutine each: dials *)
(* and waits end by their deadlines, and a read of a connection that is    *)
(* gone fails.  A stream that stays closed on one side only is reset.      *)
(* Nothing is assumed of the application and the target, and no other      *)
(* stream is reset by itself.                                              *)
ProxyGoesOn ==
    \/ RequestFails /\ app = "gone"
    \/ DialDirect \/ Opened \/ OpenFails \/ OpenTimeout \/ Accepted \/ Rejected
    \/ Connect \/ SendRequest \/ ConnectFails \/ RelayEnds \/ Forward

ServerGoesOn == ReadHeader \/ ServerDial \/ ServerEnds

Fairness ==
    /\ WF_vars(ProxyGoesOn) /\ WF_vars(UpData \/ UpEnds) /\ WF_vars(DownData \/ DownEnds)
    /\ WF_vars(ServerGoesOn)
    /\ WF_vars(ServerUpData \/ ServerUpEnds) /\ WF_vars(ServerDownData \/ ServerDownEnds)
    /\ WF_vars(StreamReset /\ fin["client>far"] # fin["far>client"])

FairSpec == Spec /\ Fairness

-----------------------------------------------------------------------------
\* Types; a read of the application never gives more than was sent (handleConn).
TypeOK ==
    /\ kind \in Kinds /\ dest \in Targets
    /\ app \in {"open", "fin", "gone"} /\ sent \in 0..(MaxUp + 1) /\ got \in Seq(Nat)
    /\ target \in {"none", "open", "fin", "gone"} /\ tsent \in 0..MaxDown /\ tgot \in Seq(Nat)
    /\ dialled \in {"none", "right", "wrong"}
    /\ handler \in {"request", "dialing", "opening", "waiting", "connected", "relay", "forward",
                    "idle", "done"}
    /\ reply \in {"none", "ok", "error"}
    /\ opener \in {"none", "pending", "ready", "failed"}
    /\ server \in {"none", "header", "dialing", "relay", "done"}
    /\ header \in BOOLEAN /\ answer \in {"none", "yes", "no"}
    /\ copy \in [Copies -> {"off", "copy", "write", "done"}]
    /\ data \in [Pipes -> Seq(Nat)]
    /\ fin \in [Pipes -> BOOLEAN] /\ dead \in [Pipes -> BOOLEAN]
    /\ reset \in BOOLEAN /\ early \in BOOLEAN

\* An application is told of success only when the target it asked for has been dialled with
\* success, however late the stream, the server's answer or the timeouts (handleConn); except
\* that a server that got the length of an address cut to its byte has dialled another.
SuccessMeansConnected ==
    reply = "ok" =>
        /\ target # "none" /\ answer # "no"
        /\ dialled = (IF Direct \/ dest.len < 256 THEN "right" ELSE "wrong")

\* A target that a rule blocks, with no rule before it that lets the target through, is
\* dialled by nobody and no stream is opened for it (Route, handleConn).
BlockedStays ==
    (dialled # "none" \/ opener # "none") =>
        \A i \in DOMAIN Rules : Matches(Rules[i], dest) /\ Rules[i].policy = "block" =>
            \E j \in 1..(i - 1) : Matches(Rules[j], dest) /\ Rules[j].policy # "block"

\* What the target and the application receive is what the other sent, in order, from the
\* first unit on and none twice; except that the proxy loses what comes in one read with the
\* request, and that the rest of an address whose length does not fit its byte comes first.
InOrder ==
    /\ ~early /\ dest.len < 256 => IsPrefix(tgot, [i \in 1..sent |-> i])
    /\ IsPrefix(got, [i \in 1..tsent |-> i])

\* The response as a stream without losses: whatever the copies, the yamux stream and the
\* one answer of a plain request do, the application gets what the target wrote, unit by unit
\* (relay, handleProxyStream, forwardHTTPResponse).
Response == INSTANCE FifoStream WITH
    Unit <- 1..MaxDown, written <- [i \in 1..tsent |-> i], received <- got

ImplementsResponse == Response!Spec

\* An application that closes nothing itself, and whose target refuses none of its data, has
\* the whole response when it reads the end of it (relay, handleConn, handleProxyStream).
Whole ==
    /\ fin["client>app"] /\ data["client>app"] = <<>>
    /\ app = "open" /\ kind # "plain" /\ reply = "ok" /\ ~reset
    /\ target # "gone" \/ sent = 0
    => got = [i \in 1..tsent |-> i]

\* The proxy has closed its side of the far connection when it is done with it, on every path
\* through handleConn where it had one.
FarReleased ==
    handler \in {"idle", "done"} /\ (header \/ (Direct /\ dialled # "none")) => fin["client>far"]

\* An application that asked is not left without an answer by a session that does not open
\* streams, by a server that does not answer or by a target that cannot be dialled.
Answered == handler \notin {"dialing", "opening", "waiting", "connected"}

\* When the application is gone the handler ends, even if the target never closes, unless a
\* unit of the application's waits for room before a target that does not read: nobody reads
\* that the application is gone while it waits.  Not so a direct CONNECT, which waits for the
\* target, and a plain request.
ClientHandlerEnds ==
    app = "gone" /\ (kind = "socks5" \/ (kind = "connect" /\ ~Direct)) =>
        handler = "done" \/ copy["up"] = "write"

\* When application and target are gone the server's handler ends, unless both sides wait for
\* room in the stream, each for the copy that the other has ended.  Not so for a plain request,
\* where the proxy waits for the server and the server for the proxy.
ServerHandlerEnds ==
    app = "gone" /\ target = "gone" /\ kind # "plain" =>
        server \in {"none", "done"} \/ (copy["up"] = "write" /\ copy["server down"] = "write")

\* A target that was dialled directly can end the exchange: the application reads the end,
\* once it has read what was written before.  (Through the server it cannot:
\* handleProxyStream hands the end on to nobody.)
DirectEnd ==
    Direct /\ handler = "relay" /\ target \in {"fin", "gone"} =>
        fin["client>app"] \/ copy["down"] = "write"

\* Whoever closes first, on whichever connection: in the end the application has its answer,
\* and every goroutine that works for it has come to its end.  (What is demanded here once
\* its condition holds stays demanded until it is done.)
HandlersEnd == []<>(Answered /\ ClientHandlerEnds /\ ServerHandlerEnds /\ DirectEnd)
====
