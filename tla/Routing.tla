------------------------------ MODULE Routing ------------------------------
(***************************************************************************)
(* The gateway's routing table (onpar-gateway/src/router.rs): the rollout   *)
(* phases, the routes, and Router::decide.  Pure definitions; the modules   *)
(* that hold a routing table as state are Control and Gateway.              *)
(***************************************************************************)
EXTENDS Integers, FiniteSets

CONSTANTS Clusters,    \* task clusters a request or a phase change may name
          DefaultRoute,\* stands for "no cluster": Option::None in the code
          NoRoute,     \* a cluster with no entry in by_cluster
          Backends,    \* names of upstreams
          NoBackend,   \* Option<Backend>::None
          Keys,        \* bucketing keys: request ids, or model names
          Bucket       \* Bucket[k] \in 0..99: the FNV-1a fold of a key

ASSUME DefaultAssumption == DefaultRoute \notin Clusters
ASSUME NoBackendAssumption == NoBackend \notin Backends
ASSUME BucketAssumption == Bucket \in [Keys -> 0..99]

\* Phase: a tagged union.  A canary's percent is a u8, so above 100 too.
U8 == 0..255
Off == [phase |-> "off"]
Shadow == [phase |-> "shadow"]
Canary(p) == [phase |-> "canary", percent |-> p]
Cut == [phase |-> "cut"]
Split(toCandidate) == [phase |-> "split", to_candidate |-> toCandidate]

Phase == {Off, Shadow, Cut} \cup {Canary(p) : p \in U8}
                            \cup {Split(b) : b \in BOOLEAN}

\* Percentage of live traffic the candidate serves.
CandidatePercent(ph) ==
    CASE ph.phase \in {"off", "shadow"} -> 0
      [] ph.phase = "canary" -> IF ph.percent <= 100 THEN ph.percent ELSE 100
      [] ph.phase = "cut" -> 100
      [] ph.phase = "split" -> IF ph.to_candidate THEN 100 ELSE 0

Route == [incumbent : Backends, candidate : Backends, phase : Phase,
          failover : BOOLEAN]

Targets == Clusters \cup {DefaultRoute}

\* The whole table: the default route and the per-cluster overrides.
Router == [default : Route, by_cluster : [Clusters -> Route \cup {NoRoute}]]

ASSUME NoRouteAssumption == NoRoute \notin Route

NewRouter(route) == [default |-> route, by_cluster |-> [c \in Clusters |-> NoRoute]]

RouteFor(r, t) ==
    IF t \in Clusters /\ r.by_cluster[t] # NoRoute THEN r.by_cluster[t] ELSE r.default

\* Router::set_phase.  A cluster with no override gets a clone of the default
\* route with the new phase; nothing else in the table moves.
SetPhase(r, t, ph) ==
    IF t = DefaultRoute
    THEN [r EXCEPT !.default.phase = ph]
    ELSE [r EXCEPT !.by_cluster[t] = [RouteFor(r, t) EXCEPT !.phase = ph]]

\* Share of target t's traffic that the candidate serves.
Share(r, t) == CandidatePercent(RouteFor(r, t).phase)

InCandidateBucket(key, percent) ==
    Bucket[key] < (IF percent <= 100 THEN percent ELSE 100)

\* The backend Router::decide serves from, before failover is considered.
Serve(route, key) ==
    CASE route.phase.phase \in {"off", "shadow"} -> route.incumbent
      [] route.phase.phase = "cut" -> route.candidate
      [] route.phase.phase = "split" ->
            IF route.phase.to_candidate THEN route.candidate ELSE route.incumbent
      [] route.phase.phase = "canary" ->
            IF InCandidateBucket(key, route.phase.percent)
            THEN route.candidate ELSE route.incumbent

\* Shadow mirrors every request; a canary mirrors what the incumbent serves.
Mirror(route, key) ==
    IF \/ route.phase.phase = "shadow"
       \/ /\ route.phase.phase = "canary"
          /\ ~InCandidateBucket(key, route.phase.percent)
    THEN route.candidate ELSE NoBackend

\* Variant: falls back to the other backend, whichever that is.
FallbackToOther(route, serve) ==
    IF route.failover
    THEN IF serve = route.candidate THEN route.incumbent ELSE route.candidate
    ELSE NoBackend
\* Failover only ever goes back to the incumbent.
Fallback(route, serve) ==
    IF route.failover /\ serve = route.candidate THEN route.incumbent ELSE NoBackend

Decide(r, t, key) ==
    LET route == RouteFor(r, t)
        serve == Serve(route, key)
    IN [serve |-> serve, mirror |-> Mirror(route, key),
        fallback |-> Fallback(route, serve)]

Decision == [serve : Backends, mirror : Backends \cup {NoBackend},
             fallback : Backends \cup {NoBackend}]
=============================================================================
