---- MODULE MC_FecReconfig ----
(* Instance of FecReconfig with shard counts scaled down: the initial tier  *)
(* and the heaviest one share DataShards, as 8+2 and 8+4 do in arq.go.      *)
(* Configuration 6 does not adjust itself, 7 has no data shards, which      *)
(* reedsolomon.New refuses.                                                 *)
EXTENDS FecReconfig

MCConfigs == 0..7
MCAuto == MCConfigs \ {6}
MCValid == MCConfigs \ {7}
MCData == [c \in MCConfigs |-> CASE c \in {0, 5, 6} -> 2 [] c \in {3, 4} -> 3
                                 [] c \in {1, 2} -> 4 [] c = 7 -> 0]
MCParity == [c \in MCConfigs |-> CASE c \in {0, 2, 3, 7} -> 2 [] c \in {1, 6} -> 1
                                   [] c \in {4, 5} -> 3]
====
