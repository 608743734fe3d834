---- MODULE PacketCodec ----
(***************************************************************************)
(* The packet codec (pkg/mtp/packet.go) with the compressor below it       *)
(* (pkg/compression/compression.go), as operators.  A payload is what its  *)
(* consumers tell apart: its length, the length zstd brings it to, and the *)
(* form it is in: "plain", or wrapped by CompressWithHeader as "stored" or *)
(* "zstd".  A connection id is the revision it is derived from, as all     *)
(* parties have the same secret; what they do not send has no revision.    *)
(* The cipher finds every other change, so that the rest of a datagram has *)
(* no content here, only its length.                                       *)
(***************************************************************************)
EXTENDS Integers

CONSTANT LibMinSize      \* Compressor.MinSize(): 64, whatever is configured

ASSUME CodecAssumption == LibMinSize \in Nat

HeaderLen == 5           \* what CompressWithHeader puts before the data
NoRevision == -1         \* a datagram that no codec made

Payload(n, z) == [form |-> "plain", len |-> n, zlen |-> z]
Empty == Payload(0, 0)

\* Bytes of a payload in the form it is in
WireLen(p) ==
    CASE p.form = "plain"  -> p.len
      [] p.form = "stored" -> HeaderLen + p.len
      [] p.form = "zstd"   -> HeaderLen + p.zlen

\* Small data and data that zstd does not bring below 90% are stored
CompressWithHeader(p) ==
    IF p.len < LibMinSize \/ p.zlen >= (p.len * 9) \div 10
    THEN [p EXCEPT !.form = "stored"]
    ELSE [p EXCEPT !.form = "zstd"]

\* The first byte tells the form; data that was never wrapped has no such byte
DecompressWithHeader(p) == [p EXCEPT !.form = "plain"]

BugCompressPayload(cfg, p) ==
    IF ~cfg.enable \/ p.len < cfg.minSize THEN p ELSE CompressWithHeader(p)
\* Compression is worth it only if the result is shorter
CompressPayload(cfg, p) ==
    LET c == CompressWithHeader(p)
    IN  IF ~cfg.enable \/ p.len < cfg.minSize \/ WireLen(c) >= p.len THEN p ELSE c

\* A codec without compression hands on what it got
DecompressPayload(cfg, p) == IF cfg.enable THEN DecompressWithHeader(p) ELSE p

\* FlagCompressed is set when the payload became shorter
Encode(cfg, rev, pkt) ==
    LET p == CompressPayload(cfg, pkt.payload)
    IN  [long       |-> pkt.type \in {"SYN", "MIGRATE", "SYNACK"},
         dcid       |-> rev,
         type       |-> pkt.type,
         compressed |-> WireLen(p) < pkt.payload.len,
         payload    |-> p]

\* What the length in a long header counts: packet number, nonce, header, payload and tag
Remaining(p) == 1 + 24 + 12 + WireLen(p) + 16

\* encodeVarint writes two bytes always, decodeVarint reads one if the value is below 64, and
\* takes what follows from the wrong place
LengthReadable(wire) == wire.long => Remaining(wire.payload) >= 64

Undecodable == [type |-> "none", payload |-> Empty]

\* Either kind of header carries the connection id, which must be the codec's own
Decode(cfg, rev, wire) ==
    IF wire.dcid # rev \/ ~LengthReadable(wire) THEN Undecodable
    ELSE [type    |-> wire.type,
          payload |-> IF wire.compressed THEN DecompressPayload(cfg, wire.payload)
                                         ELSE wire.payload]

\* sendFakeResponse: a refused DNS query, to the codec a short header with a wrong id
Decoy == [long |-> FALSE, dcid |-> NoRevision, type |-> "none", compressed |-> FALSE,
          payload |-> Empty]
====
