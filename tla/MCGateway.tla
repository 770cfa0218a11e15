----------------------------- MODULE MCGateway -----------------------------
(* Model checking of Gateway: two requests in flight while traffic is moved *)
(* to the candidate and rolled back.                                        *)
EXTENDS Gateway, TLC

CONSTANTS k1, k2, c1

\* k2's bucket is the canary's percentage: the boundary of the comparison.
BucketDef == k1 :> 0 @@ k2 :> 50

Change(t, ph, confirmed) == [cluster |-> t, phase |-> ph, confirmed |-> confirmed,
                             blank |-> FALSE, token |-> "right"]
Escalations == {Change(DefaultRoute, Canary(50), TRUE), Change(c1, Split(TRUE), TRUE)}
ChangesDef == Escalations \cup
    {Change(DefaultRoute, Shadow, FALSE), Change(DefaultRoute, Cut, FALSE),
     [Change(DefaultRoute, Cut, TRUE) EXCEPT !.token = "wrong"],
     [Change(DefaultRoute, Cut, TRUE) EXCEPT !.blank = TRUE]}

AsksDef == {[cluster |-> DefaultRoute, key |-> k1, streaming |-> TRUE],
            [cluster |-> DefaultRoute, key |-> k2, streaming |-> FALSE],
            [cluster |-> c1, key |-> k1, streaming |-> FALSE]}

RequestSym == Permutations(Requests)
HandlerSym == Permutations(Handlers)
=============================================================================
