---- MODULE MC_Relay ----
(* Instance of Relay with a target for each policy, one of them named by a   *)
(* rule and, against it, by a later rule, and one whose address is longer    *)
(* than its length's byte can say.                                           *)
EXTENDS Relay

Target(host, isIP, len) == [host |-> host, isIP |-> isIP, len |-> len]

MCTargets == {Target("ads", FALSE, 7), Target("lan", TRUE, 12), Target("site", FALSE, 8),
              Target("long", FALSE, 259)}
MCRules == <<[type |-> "domain", hosts |-> {"ads"}, policy |-> "block"],
             [type |-> "ip_cidr", hosts |-> {"lan"}, policy |-> "direct"],
             [type |-> "domain", hosts |-> {"ads", "lan"}, policy |-> "direct"]>>
====
