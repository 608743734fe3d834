---- MODULE MC_ARQ ----
(* Instance of ARQ whose senders are interchangeable: none of them is named *)
(* in the specification, and the properties checked with it are safety.     *)
EXTENDS ARQ, TLC

MCSymmetry == Permutations(Senders)
====
