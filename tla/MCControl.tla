----------------------------- MODULE MCControl -----------------------------
(* Model checking of Control: concurrent phase changes over the default    *)
(* route and its clusters, valid ones and ones that are refused early.     *)
EXTENDS Control, TLC

CONSTANTS k1, k2, Percents

BucketDef == k1 :> 0 @@ k2 :> 50

Refused == {[cluster |-> DefaultRoute, phase |-> Cut, confirmed |-> TRUE,
             blank |-> FALSE, token |-> "wrong"],
            [cluster |-> DefaultRoute, phase |-> Cut, confirmed |-> TRUE,
             blank |-> TRUE, token |-> "right"]}
ChangesDef ==
    Refused \cup [cluster : Targets,
                  phase : {Off, Shadow, Cut} \cup {Canary(p) : p \in Percents}
                                             \cup {Split(b) : b \in BOOLEAN},
                  confirmed : BOOLEAN, blank : {FALSE}, token : {"right"}]
=============================================================================
