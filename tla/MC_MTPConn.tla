---- MODULE MC_MTPConn ----
(* Instance of MTPConn with a LibMinSize scaled down to 4 and a configured   *)
(* size of 2: payloads on each side of both, that zstd shortens enough, not  *)
(* enough to pay for the header, and not at all, and one that a long header  *)
(* can just carry.                                                           *)
EXTENDS MTPConn

MCPayloads == {Payload(1, 1), Payload(8, 2), Payload(8, 5), Payload(11, 11)}
====
