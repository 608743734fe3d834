---- MODULE FecReconfig ----
(***************************************************************************)
(* The FEC coders of one ARQEngine and the way their configuration is      *)
(* changed: handleACK and SetFECConfig run Reconfigure with sendMu held,   *)
(* Reconfigure hands the configuration to the coder's configLoop through a *)
(* channel of capacity one, and Close closes that channel (pkg/mtp/fec.go, *)
(* pkg/mtp/arq.go).                                                        *)
(*                                                                         *)
(* A configuration is a tier of GetAdjusted or one a caller made up for    *)
(* SetFECConfig, whose shard counts reedsolomon.New may refuse.  No packet *)
(* is lost in this model: a packet leaves the flight when its first ACK      *)
(* arrives, by the cumulative number or by a SACK block.  Init, Next and   *)
(* the like carry the prefix Fec, so that ARQ_proofs extends both halves   *)
(* of the engine.                                                          *)
(***************************************************************************)
EXTENDS Integers, Sequences

CONSTANTS
    Configs,        \* the configurations: tier 0 (NewFECConfig), 1..5, and others
    Data, Parity,   \* configuration -> DataShards and ParityShards
    Adaptive,       \* the configurations with AutoAdjust set
    Valid,          \* those reedsolomon.New accepts
    Chosen,         \* bound: the configurations SetFECConfig is called with
    MaxSent,        \* bound: packets sent
    MaxSet          \* bound: calls of SetFECConfig

Tiers == 0..5
SameShards(c, d) == Data[c] = Data[d] /\ Parity[c] = Parity[d]

ASSUME FecAssumption ==
    /\ Tiers \subseteq Adaptive \cap Valid /\ Adaptive \cup Valid \subseteq Configs
    /\ Data \in [Configs -> Nat] /\ Parity \in [Configs -> Nat]
    /\ \A c \in Valid : Data[c] # 0 /\ \A d \in Configs : SameShards(c, d) => d \in Valid
    /\ Chosen \subseteq Configs /\ MaxSent \in Nat /\ MaxSet \in Nat

Coders == {"enc", "dec"}
Callers == {"ack", "set"}     \* the receive goroutine, a caller of SetFECConfig

VARIABLES
    sendMu,       \* "free" or the caller that holds it
    closed,       \* the closed flag; the two channels are closed with it
    crashed,      \* the process panicked
    sent, inFlight, lost,   \* packetsSent, len(unacked), packetsLost
    fecConfig,    \* a.fecConfig, under sendMu
    at,           \* where each caller stands
    coder,        \* which coder it reconfigures
    calls,        \* calls of SetFECConfig so far
    configCh,     \* per coder: the buffered configurations, at most one
    loop,         \* per coder: configLoop "recv", "apply" or "done"
    got,          \* per coder: what configLoop received
    config,       \* per coder: the configuration in use
    handedOver,   \* history, per coder: the last one Reconfigure returned with
    toAdd,        \* Sends that left sendMu and have not called AddDataPacket
    encMu,        \* the encoder's mutex: "free", or held while parity is sent
    dataCount,    \* packets in the current group of the encoder
    shards        \* length of the encoder's shard slice, 0 for nil

lockVars == <<sendMu, at, coder, calls>>
statVars == <<sent, inFlight, lost, fecConfig>>
chanVars == <<configCh, handedOver>>
loopVars == <<loop, got, config>>
groupVars == <<toAdd, encMu, dataCount, shards>>
fecVars == <<lockVars, closed, crashed, statVars, chanVars, loopVars, groupVars>>

FecInit ==
    /\ sendMu = "free" /\ closed = FALSE /\ crashed = FALSE
    /\ sent = 0 /\ inFlight = 0 /\ lost = 0 /\ fecConfig = 0
    /\ at = [p \in Callers |-> "idle"] /\ coder = [p \in Callers |-> "enc"]
    /\ calls = 0
    /\ configCh = [x \in Coders |-> << >>]
    /\ loop = [x \in Coders |-> "recv"]
    /\ got = [x \in Coders |-> 0]
    /\ config = [x \in Coders |-> 0]
    /\ handedOver = [x \in Coders |-> 0]
    /\ toAdd = 0 /\ encMu = "free" /\ dataCount = 0 /\ shards = 0

-----------------------------------------------------------------------------
(* Send.                                                                   *)

\* The part under sendMu
SendLocked ==
    /\ sendMu = "free" /\ ~closed /\ sent < MaxSent
    /\ sent' = sent + 1 /\ inFlight' = inFlight + 1 /\ toAdd' = toAdd + 1
    /\ UNCHANGED <<lockVars, closed, crashed, lost, fecConfig, chanVars, loopVars,
                   encMu, dataCount, shards>>

GroupSize == Data[config["enc"]] + Parity[config["enc"]]

\* AddDataPacket: the first packet of a group allocates the shards, the last one
\* has the parity sent with the encoder's mutex held
AddDataPacket ==
    /\ toAdd > 0 /\ encMu = "free"
    /\ toAdd' = toAdd - 1
    /\ shards' = IF dataCount = 0 THEN GroupSize ELSE shards
    /\ dataCount' = dataCount + 1
    /\ encMu' = IF dataCount + 1 >= Data[config["enc"]] THEN "parity" ELSE "free"
    /\ UNCHANGED <<lockVars, closed, crashed, statVars, chanVars, loopVars>>

\* The 50ms flush timer; a timer that configLoop left armed flushes a later group
FlushTimer ==
    /\ dataCount > 0 /\ encMu = "free"
    /\ encMu' = IF shards < GroupSize THEN "free" ELSE "parity"
    /\ dataCount' = IF shards < GroupSize THEN 0 ELSE dataCount
    /\ UNCHANGED <<lockVars, closed, crashed, statVars, chanVars, loopVars, toAdd, shards>>

\* The last onParity returned
ParitySent ==
    /\ encMu = "parity"
    /\ encMu' = "free" /\ dataCount' = 0
    /\ UNCHANGED <<lockVars, closed, crashed, statVars, chanVars, loopVars, toAdd, shards>>

-----------------------------------------------------------------------------
(* handleACK and SetFECConfig, up to the call of Reconfigure.              *)

\* GetAdjusted: the thresholds 0.5%, 2%, 5% and 10%, for a configuration that adjusts itself
Adjusted(c, nLost, nSent) ==
    CASE c \notin Adaptive -> c
      [] c \in Adaptive /\ nLost * 1000 < nSent * 5 -> 1
      [] c \in Adaptive /\ nLost * 1000 >= nSent * 5 /\ nLost * 100 < nSent * 2 -> 2
      [] c \in Adaptive /\ nLost * 100 >= nSent * 2 /\ nLost * 100 < nSent * 5 -> 3
      [] c \in Adaptive /\ nLost * 100 >= nSent * 5 /\ nLost * 100 < nSent * 10 -> 4
      [] OTHER -> 5

\* HandlePacket tests closed before it takes sendMu
HandlePacket ==
    /\ at["ack"] = "idle" /\ ~closed
    /\ at' = [at EXCEPT !["ack"] = "checked"]
    /\ UNCHANGED <<sendMu, coder, calls, closed, crashed, statVars, chanVars, loopVars,
                   groupVars>>

\* handleACK under sendMu: every packet below the cumulative number counts as lost.
\* The ACK may as well acknowledge nothing new
FecHandleACK(cumulative, selective) ==
    /\ at["ack"] = "checked" /\ sendMu = "free"
    /\ cumulative + selective <= inFlight
    /\ inFlight' = inFlight - cumulative - selective
    /\ lost' = lost + cumulative
    /\ IF sent > 0 /\ ~SameShards(Adjusted(fecConfig, lost', sent), fecConfig)
       THEN /\ fecConfig' = Adjusted(fecConfig, lost', sent)
            /\ sendMu' = "ack"
            /\ at' = [at EXCEPT !["ack"] = "offer"]
            /\ coder' = [coder EXCEPT !["ack"] = "enc"]
       ELSE /\ at' = [at EXCEPT !["ack"] = "idle"]
            /\ UNCHANGED <<fecConfig, sendMu, coder>>
    /\ UNCHANGED <<calls, closed, crashed, sent, chanVars, loopVars, groupVars>>

\* SetFECConfig does not look at closed at all
SetFECConfig(c) ==
    /\ at["set"] = "idle" /\ sendMu = "free" /\ calls < MaxSet
    /\ calls' = calls + 1
    /\ fecConfig' = c
    /\ sendMu' = "set"
    /\ at' = [at EXCEPT !["set"] = "offer"]
    /\ coder' = [coder EXCEPT !["set"] = "enc"]
    /\ UNCHANGED <<closed, crashed, sent, inFlight, lost, chanVars, loopVars, groupVars>>

-----------------------------------------------------------------------------
(* Reconfigure, by caller p for the coder it stands at.                    *)

BugReturn(p) ==
    /\ handedOver' = [handedOver EXCEPT ![coder[p]] = fecConfig]
    /\ at' = [at EXCEPT ![p] = "idle"]
    /\ UNCHANGED <<sendMu, coder>>
\* Reconfigure returns: handleACK goes on with the decoder, then sendMu is free
Return(p) ==
    /\ handedOver' = [handedOver EXCEPT ![coder[p]] = fecConfig]
    /\ IF p = "ack" /\ coder[p] = "enc"
       THEN /\ coder' = [coder EXCEPT ![p] = "dec"]
            /\ at' = [at EXCEPT ![p] = "offer"]
            /\ UNCHANGED sendMu
       ELSE /\ at' = [at EXCEPT ![p] = "idle"]
            /\ sendMu' = "free"
            /\ UNCHANGED coder

\* A send on a channel that Close has closed panics, in a select as well
Panic(p) ==
    /\ at[p] \in {"offer", "put"} /\ closed
    /\ crashed' = TRUE
    /\ UNCHANGED <<lockVars, closed, statVars, chanVars, loopVars, groupVars>>

BugOffer(p) ==
    /\ at[p] = "offer" /\ ~closed
    /\ configCh' = [configCh EXCEPT ![coder[p]] = Append(@, fecConfig)]
    /\ Return(p)
    /\ UNCHANGED <<calls, closed, crashed, statVars, loopVars, groupVars>>
\* The select: hand the configuration over, or find the buffer full
Offer(p) ==
    /\ at[p] = "offer" /\ ~closed
    /\ \/ /\ configCh[coder[p]] = << >>
          /\ configCh' = [configCh EXCEPT ![coder[p]] = << fecConfig >>]
          /\ Return(p)
       \/ /\ configCh[coder[p]] # << >>
          /\ at' = [at EXCEPT ![p] = "take"]
          /\ UNCHANGED <<sendMu, coder, configCh, handedOver>>
    /\ UNCHANGED <<calls, closed, crashed, statVars, loopVars, groupVars>>

\* <-f.configCh discards the older configuration.  It waits when configLoop was
\* faster, and only this caller ever sends.  A closed channel yields at once
Take(p) ==
    /\ at[p] = "take"
    /\ configCh[coder[p]] # << >> \/ closed
    /\ configCh' = [configCh EXCEPT ![coder[p]] = << >>]
    /\ at' = [at EXCEPT ![p] = "put"]
    /\ UNCHANGED <<sendMu, coder, calls, closed, crashed, statVars, handedOver, loopVars,
                   groupVars>>

BugPut(p) ==
    /\ at[p] = "put" /\ ~closed
    /\ Return(p)
    /\ UNCHANGED <<configCh, calls, closed, crashed, statVars, loopVars, groupVars>>
Put(p) ==
    /\ at[p] = "put" /\ ~closed
    /\ configCh[coder[p]] = << >>
    /\ configCh' = [configCh EXCEPT ![coder[p]] = << fecConfig >>]
    /\ Return(p)
    /\ UNCHANGED <<calls, closed, crashed, statVars, loopVars, groupVars>>

-----------------------------------------------------------------------------
(* configLoop, one goroutine per coder, and Close.                         *)

LoopRecv(x) ==
    /\ loop[x] = "recv" /\ configCh[x] # << >>
    /\ got' = [got EXCEPT ![x] = Head(configCh[x])]
    /\ configCh' = [configCh EXCEPT ![x] = << >>]
    /\ loop' = [loop EXCEPT ![x] = "apply"]
    /\ UNCHANGED <<lockVars, closed, crashed, statVars, handedOver, config, groupVars>>

BugAccepted(x) == TRUE
\* reedsolomon.New makes a coder of these shard counts, or answers with an error
Accepted(x) == got[x] \in Valid

BugResetGroup(x) == UNCHANGED <<dataCount, shards>>
\* The encoder drops the group it was filling when the shard counts change
ResetGroup(x) ==
    IF x = "enc" /\ ~SameShards(got[x], config[x]) /\ Accepted(x)
    THEN dataCount' = 0 /\ shards' = 0
    ELSE UNCHANGED <<dataCount, shards>>

\* A configuration that reedsolomon.New refuses leaves the coder as it was
LoopApply(x) ==
    /\ loop[x] = "apply"
    /\ x = "enc" => encMu = "free"
    /\ config' = IF Accepted(x) THEN [config EXCEPT ![x] = got[x]] ELSE config
    /\ ResetGroup(x)
    /\ loop' = [loop EXCEPT ![x] = "recv"]
    /\ UNCHANGED <<lockVars, closed, crashed, statVars, chanVars, got, toAdd, encMu>>

BugLoopEnd(x) ==
    /\ loop[x] = "recv" /\ closed /\ configCh[x] = << >> /\ x = "enc"
    /\ loop' = [loop EXCEPT ![x] = "done"]
    /\ UNCHANGED <<lockVars, closed, crashed, statVars, chanVars, got, config, groupVars>>
\* The range over a closed channel ends once it is empty
LoopEnd(x) ==
    /\ loop[x] = "recv" /\ closed /\ configCh[x] = << >>
    /\ loop' = [loop EXCEPT ![x] = "done"]
    /\ UNCHANGED <<lockVars, closed, crashed, statVars, chanVars, got, config, groupVars>>

\* ARQEngine.Close, under sendMu: unacked = nil, both channels are closed
Close ==
    /\ sendMu = "free" /\ ~closed
    /\ closed' = TRUE
    /\ inFlight' = 0
    /\ UNCHANGED <<lockVars, crashed, sent, lost, fecConfig, chanVars, loopVars, groupVars>>

FecNext ==
    /\ ~crashed
    /\ \/ SendLocked \/ AddDataPacket \/ FlushTimer \/ ParitySent
       \/ HandlePacket
       \/ \E c, s \in 0..inFlight : FecHandleACK(c, s)
       \/ \E c \in Chosen : SetFECConfig(c)
       \/ \E p \in Callers : Offer(p) \/ Take(p) \/ Put(p) \/ Panic(p)
       \/ \E x \in Coders : LoopRecv(x) \/ LoopApply(x) \/ LoopEnd(x)
       \/ Close

FecSpec == FecInit /\ [][FecNext]_fecVars

(* The scheduler runs every goroutine that is not blocked; sendMu is not    *)
(* starved (sync.RWMutex); nobody has to call Send, SetFECConfig or Close.  *)
Running(A) == ~crashed /\ A
FecFairness ==
    /\ WF_fecVars(Running(AddDataPacket)) /\ WF_fecVars(Running(ParitySent))
    /\ \A p \in Callers : WF_fecVars(Running(Offer(p) \/ Take(p) \/ Put(p) \/ Panic(p)))
    /\ \A x \in Coders :
          WF_fecVars(Running(LoopRecv(x) \/ LoopEnd(x))) /\ SF_fecVars(Running(LoopApply(x)))

FecFairSpec == FecSpec /\ FecFairness

-----------------------------------------------------------------------------
(* Properties.                                                             *)

\* Types; the configuration channels never hold more than one entry (fec.go)
FecTypeOK ==
    /\ sendMu \in Callers \cup {"free"} /\ closed \in BOOLEAN /\ crashed \in BOOLEAN
    /\ sent \in 0..MaxSent /\ inFlight \in 0..sent /\ lost \in 0..sent
    /\ fecConfig \in Configs
    /\ at \in [Callers -> {"idle", "checked", "offer", "take", "put"}]
    /\ coder \in [Callers -> Coders] /\ calls \in 0..MaxSet
    /\ configCh \in [Coders -> {<< >>} \cup {<< c >> : c \in Configs}]
    /\ loop \in [Coders -> {"recv", "apply", "done"}]
    /\ got \in [Coders -> Configs] /\ config \in [Coders -> Valid]
    /\ handedOver \in [Coders -> Configs]
    /\ toAdd \in 0..MaxSent /\ encMu \in {"free", "parity"}
    /\ dataCount \in Nat /\ shards \in Nat

\* The newest configuration on its way to a coder, or in use by it
Newest(x) ==
    IF configCh[x] # << >> THEN Head(configCh[x])
    ELSE IF loop[x] = "apply" THEN got[x] ELSE config[x]

\* What Reconfigure returned with is in use or on its way to the coder, unless reedsolomon.New
\* refuses it: neither the race for the buffer nor a Reconfigure that finds the buffer emptied
\* under it and waits (it never hands over its own) loses it or lets an older one overtake it;
\* only a caller about to put a newer one in its place may have thrown it away
LatestConfigNotLost ==
    \A x \in Coders :
        handedOver[x] \in Valid /\ (\A p \in Callers : at[p] = "put" => coder[p] # x)
            => SameShards(Newest(x), handedOver[x])

\* AddDataPacket and flushLocked index inside the shard slice whatever configLoop
\* did to the group in between
ShardsFit ==
    dataCount > 0 =>
        /\ shards = GroupSize
        /\ dataCount <= Data[config["enc"]]
        /\ dataCount = Data[config["enc"]] => encMu = "parity"

\* Close ends both configLoop goroutines, pending configurations included
CloseEndsLoops == closed ~> (crashed \/ \A x \in Coders : loop[x] = "done")

\* Reconfigure in wait for a channel that only it can fill
Wedged(p) ==
    at[p] = "take" /\ configCh[coder[p]] = << >> /\ ~closed

\* sendMu comes free again, except from that one wait
ReturnsUnlessWedged ==
    \A p \in Callers : sendMu = p ~> (sendMu # p \/ crashed \/ Wedged(p))

\* Neither a configLoop nor whoever needs sendMu hangs, that one wait excepted (Reconfigure,
\* configLoop, Close)
NothingHangs == CloseEndsLoops /\ ReturnsUnlessWedged
====
