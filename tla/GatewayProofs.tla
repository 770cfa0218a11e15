--------------------------- MODULE GatewayProofs ---------------------------
(***************************************************************************)
(* Proofs about the gateway, for any number of handlers, requests, clusters, *)
(* backends, keys and phase changes.  Control: the types, and the safety of *)
(* the phase-change protocol, from what a handler knows while it holds the  *)
(* router's lock and what the table owes to the applied changes.  Gateway: a *)
(* request that the candidate serves was in a bucket that a human confirmed, *)
(* and what is recorded of the answers is all of them, once, up to the cap. *)
(***************************************************************************)
EXTENDS Gateway, FiniteSetTheorems, SequenceTheorems, TLAPS

(* Control *)

(* The operators of Routing *)

\* A phase is one of the variants of the enum (router.rs, Phase).
LEMMA PhaseCases ==
    ASSUME NEW ph \in Phase
    PROVE  \/ ph = Off \/ ph = Shadow \/ ph = Cut
           \/ \E p \in U8 : ph = Canary(p)
           \/ \E b \in BOOLEAN : ph = Split(b)
BY DEF Phase

\* candidate_percent is a percentage, whatever u8 a canary carries.
LEMMA PercentType ==
    ASSUME NEW ph \in Phase
    PROVE  CandidatePercent(ph) \in 0..100
<1>1. CASE ph \in {Off, Shadow, Cut}
  BY <1>1 DEF CandidatePercent, Off, Shadow, Cut
<1>2. CASE \E p \in U8 : ph = Canary(p)
  BY <1>2 DEF CandidatePercent, Canary, U8
<1>3. CASE \E b \in BOOLEAN : ph = Split(b)
  BY <1>3 DEF CandidatePercent, Split
<1> QED BY <1>1, <1>2, <1>3, PhaseCases

\* The route that applies to a target is a route of the table.
LEMMA RouteForType ==
    ASSUME NEW r \in Router, NEW t \in Targets
    PROVE  RouteFor(r, t) \in Route /\ RouteFor(r, t).phase \in Phase
BY DEF RouteFor, Router, Route

\* set_phase keeps the table a table.
LEMMA SetPhaseType ==
    ASSUME NEW r \in Router, NEW t \in Targets, NEW ph \in Phase
    PROVE  SetPhase(r, t, ph) \in Router
<1>1. RouteFor(r, t) \in Route
  BY RouteForType
<1>2. [RouteFor(r, t) EXCEPT !.phase = ph] \in Route
  BY <1>1 DEF Route
<1>3. CASE t = DefaultRoute
  BY <1>3 DEF SetPhase, Router, Route
<1>4. CASE t # DefaultRoute
  <2>1. t \in Clusters
    BY <1>4 DEF Targets
  <2> QED BY <1>4, <1>2, <2>1 DEF SetPhase, Router
<1> QED BY <1>3, <1>4

\* What set_phase does to the route of each target: it gives the named target
\* the new phase, moves a target that inherits the default route when that is
\* the one named, and leaves every other target where it was.
LEMMA SetPhaseRoutes ==
    ASSUME NEW r \in Router, NEW c \in Targets, NEW ph \in Phase, NEW t \in Targets
    PROVE  LET new == RouteFor(SetPhase(r, c, ph), t)
               old == RouteFor(r, t)
           IN \/ /\ new = [old EXCEPT !.phase = ph]
                 /\ \/ t = c
                    \/ /\ c = DefaultRoute /\ t \in Clusters
                       /\ r.by_cluster[t] = NoRoute
              \/ /\ new = old
                 /\ t # c
                 /\ c = DefaultRoute => t \in Clusters /\ r.by_cluster[t] # NoRoute
<1>1. r.default \in Route /\ RouteFor(r, c) \in Route /\ RouteFor(r, t) \in Route
  BY RouteForType DEF Router
<1>2. [r.default EXCEPT !.phase = ph] \in Route /\ [RouteFor(r, c) EXCEPT !.phase = ph] \in Route
  BY <1>1 DEF Route
<1>3. CASE c = DefaultRoute
  <2>1. SetPhase(r, c, ph).default = [r.default EXCEPT !.phase = ph]
    BY <1>3 DEF SetPhase, Router
  <2>2. SetPhase(r, c, ph).by_cluster = r.by_cluster
    BY <1>3 DEF SetPhase, Router
  <2>3. CASE t \in Clusters /\ r.by_cluster[t] # NoRoute
    BY <2>2, <2>3, <1>3, DefaultAssumption DEF RouteFor
  <2>4. CASE t = DefaultRoute
    BY <2>1, <2>4, <1>3, DefaultAssumption DEF RouteFor
  <2>5. CASE t \in Clusters /\ r.by_cluster[t] = NoRoute
    BY <2>1, <2>2, <2>5, <1>3 DEF RouteFor
  <2> QED BY <2>3, <2>4, <2>5 DEF Targets
<1>4. CASE c # DefaultRoute
  <2>0. c \in Clusters
    BY <1>4 DEF Targets
  <2>1. SetPhase(r, c, ph).default = r.default
    BY <1>4 DEF SetPhase, Router
  <2>2. SetPhase(r, c, ph).by_cluster
          = [r.by_cluster EXCEPT ![c] = [RouteFor(r, c) EXCEPT !.phase = ph]]
    BY <1>4 DEF SetPhase, Router
  <2>3. CASE t = c
    BY <2>0, <2>2, <2>3, <1>2, NoRouteAssumption DEF RouteFor, Router
  <2>4. CASE t # c
    BY <2>0, <2>1, <2>2, <2>4, <1>4 DEF RouteFor, Router
  <2> QED BY <2>3, <2>4
<1> QED BY <1>3, <1>4
-----------------------------------------------------------------------------
(* Types *)

\* The record a handler makes is a Transition.
LEMMA TransitionType ==
    ASSUME ControlTypeOK, NEW h \in Handlers
    PROVE  TransitionOf(h) \in Transition
<1>1. /\ change[h].cluster \in Targets /\ change[h].phase \in Phase
      /\ change[h].confirmed \in BOOLEAN /\ from[h] \in Phase
  BY DEF ControlTypeOK, PhaseChange
<1>2. CandidatePercent(change[h].phase) \in 0..100 /\ CandidatePercent(from[h]) \in 0..100
  BY <1>1, PercentType
<1> QED BY <1>1, <1>2 DEF TransitionOf, Transition

\* Start-up serves nothing from the candidate, whatever the flags (main.rs).
LEMMA StartPhase ==
    ASSUME NEW b \in BOOLEAN, NEW p \in StartPercents \cup {0}, StartAccepted(b, p)
    PROVE  PhaseFor(b, p) \in {Off, Shadow}
<1>1. p = 0
  BY StartAssumption DEF StartAccepted, U8
<1> QED BY <1>1 DEF PhaseFor

\* Start-up (main.rs) is type correct.
LEMMA InitType ==
    ASSUME ControlInit
    PROVE  ControlTypeOK
<1>1. router \in Router
  <2>1. PICK b \in BOOLEAN, p \in StartPercents \cup {0}, f \in BOOLEAN :
             /\ StartAccepted(b, p)
             /\ router = NewRouter([incumbent |-> Incumbent,
                                    candidate |-> IF b THEN Candidate ELSE Incumbent,
                                    phase |-> PhaseFor(b, p), failover |-> f])
    BY DEF ControlInit
  <2>2. PhaseFor(b, p) \in Phase
    BY <2>1, StartPhase DEF Phase
  <2> QED BY <2>1, <2>2, BackendAssumption DEF NewRouter, Router, Route
<1>2. NotSent \in PhaseChange
  BY DEF NotSent, PhaseChange, Targets, Phase
<1>3. Off \in Phase
  BY DEF Phase
<1>4. "unsent" \in PC
  BY DEF PC
<1> QED BY <1>1, <1>2, <1>3, <1>4 DEF ControlInit, ControlTypeOK

\* Every handler step keeps the types.
LEMMA StepType ==
    ASSUME ControlTypeOK, [ControlNext]_controlVars
    PROVE  ControlTypeOK'
<1>1. CASE UNCHANGED controlVars
  BY <1>1 DEF ControlTypeOK, controlVars
<1>2. ASSUME NEW h \in Handlers, Receive(h)
      PROVE  ControlTypeOK'
  <2>1. pc' \in [Handlers -> PC]
    BY <1>2 DEF Receive, ControlTypeOK, PC
  <2>2. change' \in [Handlers -> PhaseChange]
    BY <1>2, ChangesAssumption DEF Receive, ControlTypeOK
  <2> QED BY <1>2, <2>1, <2>2 DEF Receive, ControlTypeOK
<1>3. ASSUME NEW h \in Handlers, LockAndRead(h)
      PROVE  ControlTypeOK'
  <2>1. RouteFor(router, change[h].cluster).phase \in Phase
    BY RouteForType DEF ControlTypeOK, PhaseChange
  <2>2. pc' \in [Handlers -> PC]
    BY <1>3 DEF LockAndRead, ControlTypeOK, PC
  <2> QED BY <1>3, <2>1, <2>2 DEF LockAndRead, ControlTypeOK
<1>4. ASSUME NEW h \in Handlers, RefuseEscalation(h)
      PROVE  ControlTypeOK'
  BY <1>4 DEF RefuseEscalation, ControlTypeOK, PC
<1>5. ASSUME NEW h \in Handlers, Apply(h)
      PROVE  ControlTypeOK'
  <2>1. router' \in Router
    BY <1>5, SetPhaseType DEF Apply, ControlTypeOK, PhaseChange
  <2>2. applied' \in Seq(Transition)
    BY <1>5, TransitionType, AppendProperties DEF Apply, ControlTypeOK
  <2>3. pc' \in [Handlers -> PC]
    BY <1>5 DEF Apply, ControlTypeOK, PC
  <2> QED BY <1>5, <2>1, <2>2, <2>3 DEF Apply, ControlTypeOK
<1>6. ASSUME NEW h \in Handlers, RecordTransition(h)
      PROVE  ControlTypeOK'
  <2>1. transitions' \in Seq(Transition)
    BY <1>6, TransitionType, AppendProperties DEF RecordTransition, ControlTypeOK
  <2>2. pc' \in [Handlers -> PC]
    BY <1>6 DEF RecordTransition, ControlTypeOK, PC
  <2> QED BY <1>6, <2>1, <2>2 DEF RecordTransition, ControlTypeOK
<1> QED BY <1>1, <1>2, <1>3, <1>4, <1>5, <1>6 DEF ControlNext, Serve1

\* Type correctness of the control surface: in particular every recorded
\* percentage is at most 100 although a canary carries any u8 (router.rs,
\* candidate_percent).
THEOREM TypeCorrect == ControlSpec => []ControlTypeOK
<1>1. ControlInit => ControlTypeOK
  BY InitType
<1>2. ControlTypeOK /\ [ControlNext]_controlVars => ControlTypeOK'
  BY StepType
<1> QED BY <1>1, <1>2, PTL DEF ControlSpec
-----------------------------------------------------------------------------
(* What holding the lock gives *)

\* The handler between its read and its write is the holder of the lock, and
\* what it read is still there.
LockInv ==
    \A h \in Handlers : pc[h] = "locked" =>
        /\ writer = h
        /\ from[h] = RouteFor(router, change[h].cluster).phase

Locked == ControlTypeOK /\ LockInv

\* Nobody holds the lock at first.
LEMMA LockInit ==
    ASSUME ControlInit
    PROVE  Locked
BY InitType DEF ControlInit, LockInv, Locked

\* The lock is exclusive (control.rs): what a handler read under it stands until
\* the handler has written.
LEMMA LockStep ==
    ASSUME Locked, [ControlNext]_controlVars
    PROVE  Locked'
<1>0. ControlTypeOK /\ LockInv /\ ControlTypeOK'
  BY StepType DEF Locked
<1>1. CASE UNCHANGED controlVars
  BY <1>0, <1>1 DEF LockInv, Locked, controlVars
<1>2. ASSUME NEW h \in Handlers, Receive(h)
      PROVE  LockInv'
  BY <1>0, <1>2 DEF Receive, LockInv, ControlTypeOK
<1>3. ASSUME NEW h \in Handlers, LockAndRead(h)
      PROVE  LockInv'
  <2>1. \A g \in Handlers : pc[g] # "locked"
    BY <1>0, <1>3, UnlockedAssumption DEF LockAndRead, LockInv
  <2> QED BY <1>0, <1>3, <2>1 DEF LockAndRead, LockInv, ControlTypeOK
<1>4. ASSUME NEW h \in Handlers, RefuseEscalation(h)
      PROVE  LockInv'
  BY <1>0, <1>4 DEF RefuseEscalation, LockInv, ControlTypeOK
<1>5. ASSUME NEW h \in Handlers, Apply(h)
      PROVE  LockInv'
  <2>1. \A g \in Handlers : pc[g] = "locked" => g = h
    BY <1>0, <1>5 DEF Apply, LockInv
  <2> QED BY <1>0, <1>5, <2>1 DEF Apply, LockInv, ControlTypeOK
<1>6. ASSUME NEW h \in Handlers, RecordTransition(h)
      PROVE  LockInv'
  BY <1>0, <1>6 DEF RecordTransition, LockInv, ControlTypeOK
<1> QED BY <1>0, <1>1, <1>2, <1>3, <1>4, <1>5, <1>6 DEF ControlNext, Serve1, Locked

\* A step changes the table only by the write of a handler that holds the lock.
LEMMA TableMovesByApply ==
    ASSUME [ControlNext]_controlVars, router' # router
    PROVE  \E h \in Handlers : Apply(h)
BY DEF ControlNext, Serve1, Receive, LockAndRead, RefuseEscalation, Apply,
       RecordTransition, controlVars

\* Only the write of a handler adds to the applied changes.
LEMMA AppliedMovesByApply ==
    ASSUME [ControlNext]_controlVars
    PROVE  applied' = applied \/ \E h \in Handlers : Apply(h)
BY DEF ControlNext, Serve1, Receive, LockAndRead, RefuseEscalation, Apply,
       RecordTransition, controlVars

\* What Append leaves and what it adds.
LEMMA AppendElements ==
    ASSUME NEW S, NEW q \in Seq(S), NEW x \in S
    PROVE  /\ DOMAIN Append(q, x) = 1..(Len(q) + 1)
           /\ DOMAIN q = 1..Len(q) /\ Len(q) \in Nat
           /\ \A i \in DOMAIN q : /\ i \in DOMAIN Append(q, x)
                                  /\ Append(q, x)[i] = q[i]
           /\ Append(q, x)[Len(q) + 1] = x
           /\ Len(q) + 1 \in DOMAIN Append(q, x)
BY AppendProperties

\* What a write does to the share of a target: nothing, or it becomes the share
\* of the change; and when it goes up, a target that follows the default route
\* included, the handler saw a smaller share under the lock.
LEMMA ApplyShare ==
    ASSUME Locked, NEW h \in Handlers, Apply(h), NEW t \in Targets
    PROVE  /\ \/ Share(router', t) = Share(router, t)
              \/ /\ Share(router', t) = CandidatePercent(change[h].phase)
                 /\ Share(router, t) = CandidatePercent(from[h])
           /\ Share(router, t) \in 0..100
           /\ Share(router', t) \in 0..100
<1>0. /\ router \in Router /\ router' \in Router
      /\ change[h].cluster \in Targets /\ change[h].phase \in Phase
      /\ from[h] = RouteFor(router, change[h].cluster).phase
      /\ router' = SetPhase(router, change[h].cluster, change[h].phase)
  BY SetPhaseType DEF Locked, ControlTypeOK, PhaseChange, LockInv, Apply
<1>1. RouteFor(router, t) \in Route /\ RouteFor(router', t) \in Route
  BY <1>0, RouteForType
<1>2. Share(router, t) \in 0..100 /\ Share(router', t) \in 0..100
  BY <1>0, RouteForType, PercentType DEF Share
<1>3. CASE RouteFor(router', t) = RouteFor(router, t)
  BY <1>2, <1>3 DEF Share
<1>4. CASE RouteFor(router', t) # RouteFor(router, t)
  <2>1. /\ RouteFor(router', t) = [RouteFor(router, t) EXCEPT !.phase = change[h].phase]
        /\ \/ t = change[h].cluster
           \/ /\ change[h].cluster = DefaultRoute /\ t \in Clusters
              /\ router.by_cluster[t] = NoRoute
    BY <1>0, <1>4, SetPhaseRoutes
  <2>2. RouteFor(router', t).phase = change[h].phase
    BY <1>1, <2>1 DEF Route
  <2>3. RouteFor(router, t) = RouteFor(router, change[h].cluster)
    BY <2>1, DefaultAssumption DEF RouteFor
  <2> QED BY <1>0, <1>2, <2>2, <2>3 DEF Share
<1> QED BY <1>3, <1>4

\* An applied change that raises the share it replaces was confirmed.
LEMMA ApplyConfirmed ==
    ASSUME Locked, NEW h \in Handlers, Apply(h),
           CandidatePercent(change[h].phase) > CandidatePercent(from[h])
    PROVE  change[h].confirmed
BY DEF Apply, Escalates

\* "refused unless the request says a human confirmed it" (control.rs), for any
\* number of concurrent handlers.
THEOREM EscalationConfirmed == ControlSpec => EscalationStepsConfirmed
<1>1. ASSUME Locked, [ControlNext]_controlVars, NEW t \in Targets,
             Share(router', t) > Share(router, t)
      PROVE  \E h \in Handlers : /\ pc[h] = "locked" /\ pc'[h] = "record"
                                 /\ change[h].confirmed
  <2>1. router' # router
    <3>1. Share(router, t) \in 0..100
      BY <1>1, RouteForType, PercentType DEF Share, Locked, ControlTypeOK
    <3> QED BY <1>1, <3>1
  <2>2. PICK h \in Handlers : Apply(h)
    BY <1>1, <2>1, TableMovesByApply
  <2>3. change[h].confirmed
    BY <1>1, <2>2, ApplyShare, ApplyConfirmed
  <2> QED BY <1>1, <2>2, <2>3 DEF Apply, Locked, ControlTypeOK
<1>2. ControlInit => Locked
  BY LockInit
<1>3. Locked /\ [ControlNext]_controlVars => Locked'
  BY LockStep
<1>4. Locked /\ [ControlNext]_controlVars =>
        [\A t \in Targets : Share(router', t) > Share(router, t) =>
            \E h \in Handlers : /\ pc[h] = "locked" /\ pc'[h] = "record"
                                /\ change[h].confirmed]_controlVars
  BY <1>1
<1> QED BY <1>2, <1>3, <1>4, PTL DEF ControlSpec, EscalationStepsConfirmed

\* "Moving a single cluster must never silently move everything else with it"
\* (router.rs).
THEOREM MoveAlone == ControlSpec => ClustersMoveAlone
<1> DEFINE Alone(t) ==
      RouteFor(router', t) # RouteFor(router, t) =>
          /\ [RouteFor(router', t) EXCEPT !.phase = Off]
                = [RouteFor(router, t) EXCEPT !.phase = Off]
          /\ \E h \in Handlers :
               /\ pc[h] = "locked" /\ pc'[h] = "record"
               /\ change[h].phase = RouteFor(router', t).phase
               /\ \/ change[h].cluster = t
                  \/ /\ change[h].cluster = DefaultRoute
                     /\ RouteFor(router, t) = router.default
<1>1. ASSUME Locked, [ControlNext]_controlVars, NEW t \in Targets,
             RouteFor(router', t) # RouteFor(router, t)
      PROVE  Alone(t)
  <2>1. PICK h \in Handlers : Apply(h)
    BY <1>1, TableMovesByApply
  <2>2. /\ router \in Router
        /\ change[h].cluster \in Targets /\ change[h].phase \in Phase
        /\ router' = SetPhase(router, change[h].cluster, change[h].phase)
        /\ pc[h] = "locked" /\ pc'[h] = "record"
    BY <1>1, <2>1 DEF Locked, ControlTypeOK, PhaseChange, Apply
  <2>3. /\ RouteFor(router', t) = [RouteFor(router, t) EXCEPT !.phase = change[h].phase]
        /\ \/ t = change[h].cluster
           \/ /\ change[h].cluster = DefaultRoute /\ t \in Clusters
              /\ router.by_cluster[t] = NoRoute
    BY <1>1, <2>2, SetPhaseRoutes
  <2>4. RouteFor(router, t) \in Route
    BY <2>2, RouteForType
  <2>5. /\ [RouteFor(router', t) EXCEPT !.phase = Off] = [RouteFor(router, t) EXCEPT !.phase = Off]
        /\ change[h].phase = RouteFor(router', t).phase
    BY <2>3, <2>4 DEF Route
  <2>6. t = change[h].cluster \/ (change[h].cluster = DefaultRoute
                                    /\ RouteFor(router, t) = router.default)
    BY <2>3 DEF RouteFor
  <2> QED BY <2>2, <2>5, <2>6
<1>2. ControlInit => Locked
  BY LockInit
<1>3. Locked /\ [ControlNext]_controlVars => Locked'
  BY LockStep
<1>4. Locked /\ [ControlNext]_controlVars => [\A t \in Targets : Alone(t)]_controlVars
  BY <1>1
<1> QED BY <1>2, <1>3, <1>4, PTL DEF ControlSpec, ClustersMoveAlone
-----------------------------------------------------------------------------
(* Bucketing *)

\* The one rule behind every arm of decide: a key is served by the candidate
\* when its bucket is below the share of the phase.
LEMMA ServeByShare ==
    ASSUME NEW route \in Route, NEW k \in Keys
    PROVE  Serve(route, k) = IF Bucket[k] < CandidatePercent(route.phase)
                             THEN route.candidate ELSE route.incumbent
<1>1. Bucket[k] \in 0..99
  BY BucketAssumption
<1>2. route.phase \in Phase
  BY DEF Route
<1>3. CASE route.phase \in {Off, Shadow, Cut}
  BY <1>1, <1>3 DEF Serve, CandidatePercent, Off, Shadow, Cut
<1>4. CASE \E p \in U8 : route.phase = Canary(p)
  BY <1>1, <1>4 DEF Serve, InCandidateBucket, CandidatePercent, Canary, U8
<1>5. CASE \E b \in BOOLEAN : route.phase = Split(b)
  BY <1>1, <1>5 DEF Serve, CandidatePercent, Split
<1> QED BY <1>2, <1>3, <1>4, <1>5, PhaseCases

\* A step takes no key off the candidate unless it lowers the target's share.
THEOREM Sticky == ControlSpec => BucketsSticky
<1> DEFINE Stays(t, k) ==
      /\ Share(router', t) >= Share(router, t)
      /\ Decide(router, t, k).serve = RouteFor(router, t).candidate
      => Decide(router', t, k).serve = RouteFor(router', t).candidate
<1>1. ASSUME Locked, [ControlNext]_controlVars, NEW t \in Targets, NEW k \in Keys
      PROVE  Stays(t, k)
  <2> DEFINE old == RouteFor(router, t)
             new == RouteFor(router', t)
  <2>1. Locked'
    BY <1>1, LockStep
  <2>2. router \in Router /\ router' \in Router
    BY <1>1, <2>1 DEF Locked, ControlTypeOK
  <2>3. old \in Route /\ new \in Route
    BY <2>2, RouteForType
  <2>4. new.candidate = old.candidate /\ new.incumbent = old.incumbent
    <3>1. CASE new = old
      BY <3>1
    <3>2. CASE new # old
      <4>1. PICK h \in Handlers : Apply(h)
        BY <1>1, <3>2, TableMovesByApply
      <4>2. /\ change[h].cluster \in Targets /\ change[h].phase \in Phase
            /\ router' = SetPhase(router, change[h].cluster, change[h].phase)
        BY <1>1, <4>1 DEF Locked, ControlTypeOK, PhaseChange, Apply
      <4>3. new = [old EXCEPT !.phase = change[h].phase]
        BY <2>2, <3>2, <4>2, SetPhaseRoutes
      <4> HIDE DEF old, new
      <4> QED BY <2>3, <4>3 DEF Route
    <3> QED BY <3>1, <3>2
  <2>5. /\ Decide(router, t, k).serve = Serve(old, k)
        /\ Decide(router', t, k).serve = Serve(new, k)
    BY DEF Decide
  <2>6. /\ Share(router, t) = CandidatePercent(old.phase)
        /\ Share(router', t) = CandidatePercent(new.phase)
    BY DEF Share
  <2>7. /\ CandidatePercent(old.phase) \in 0..100 /\ CandidatePercent(new.phase) \in 0..100
        /\ Bucket[k] \in 0..99
    BY <2>3, PercentType, BucketAssumption DEF Route
  <2>8. /\ Serve(old, k) = IF Bucket[k] < CandidatePercent(old.phase)
                           THEN old.candidate ELSE old.incumbent
        /\ Serve(new, k) = IF Bucket[k] < CandidatePercent(new.phase)
                           THEN new.candidate ELSE new.incumbent
    BY <2>3, ServeByShare
  <2> HIDE DEF old, new
  <2>9. CandidatePercent(new.phase) >= CandidatePercent(old.phase)
          /\ Serve(old, k) = old.candidate => Serve(new, k) = new.candidate
    BY SMTT(30), <2>4, <2>7, <2>8
  <2> USE DEF old, new
  <2> QED BY <2>5, <2>6, <2>9
<1>2. ControlInit => Locked
  BY LockInit
<1>3. Locked /\ [ControlNext]_controlVars => Locked'
  BY LockStep
<1>4. Locked /\ [ControlNext]_controlVars
        => [\A t \in Targets, k \in Keys : Stays(t, k)]_controlVars
  BY <1>1
<1> QED BY <1>2, <1>3, <1>4, PTL DEF ControlSpec, BucketsSticky
-----------------------------------------------------------------------------
(* The candidate's share is approved *)

\* Start-up gives the candidate no share.
LEMMA ShareApprovedInit ==
    ASSUME ControlInit
    PROVE  CandidateShareApproved
<1>1. PICK b \in BOOLEAN, p \in StartPercents \cup {0}, f \in BOOLEAN :
           /\ StartAccepted(b, p)
           /\ router = NewRouter([incumbent |-> Incumbent,
                                  candidate |-> IF b THEN Candidate ELSE Incumbent,
                                  phase |-> PhaseFor(b, p), failover |-> f])
  BY DEF ControlInit
<1>2. PhaseFor(b, p) \in {Off, Shadow}
  BY <1>1, StartPhase
<1>3. \A t \in Targets : RouteFor(router, t).phase = PhaseFor(b, p)
  BY <1>1 DEF NewRouter, RouteFor
<1>4. \A t \in Targets : Share(router, t) = 0
  BY <1>2, <1>3 DEF Share, CandidatePercent, Off, Shadow
<1> QED BY <1>4 DEF CandidateShareApproved

\* A write that raises a share is confirmed at that height; no other step raises
\* one, and applied changes stay.
LEMMA ShareApprovedStep ==
    ASSUME Locked, CandidateShareApproved, [ControlNext]_controlVars
    PROVE  CandidateShareApproved'
<1>1. CASE router' = router
  <2>1. CASE applied' = applied
    BY <1>1, <2>1 DEF CandidateShareApproved
  <2>2. CASE \E h \in Handlers : Apply(h)
    <3>1. PICK h \in Handlers : Apply(h)
      BY <2>2
    <3>2. \A i \in DOMAIN applied : i \in DOMAIN applied' /\ applied'[i] = applied[i]
      BY <3>1, TransitionType, AppendElements DEF Apply, Locked, ControlTypeOK
    <3> QED BY <1>1, <3>2 DEF CandidateShareApproved
  <2> QED BY <2>1, <2>2, AppliedMovesByApply
<1>2. CASE router' # router
  <2>1. PICK h \in Handlers : Apply(h)
    BY <1>2, TableMovesByApply
  <2>2. applied \in Seq(Transition) /\ TransitionOf(h) \in Transition
    BY TransitionType DEF Locked, ControlTypeOK
  <2>3. /\ DOMAIN applied' = 1..(Len(applied) + 1)
        /\ \A i \in DOMAIN applied : i \in DOMAIN applied' /\ applied'[i] = applied[i]
        /\ applied'[Len(applied) + 1] = TransitionOf(h)
        /\ Len(applied) + 1 \in DOMAIN applied'
    BY <2>1, <2>2, AppendElements DEF Apply
  <2>4. ASSUME NEW t \in Targets, Share(router', t) > 0
        PROVE  \E i \in DOMAIN applied' : /\ applied'[i].confirmed
                                          /\ applied'[i].to_percent >= Share(router', t)
    <3>1. CASE change[h].confirmed /\ Share(router', t) = CandidatePercent(change[h].phase)
      <4>1. /\ TransitionOf(h).confirmed
            /\ TransitionOf(h).to_percent = Share(router', t)
        BY <3>1 DEF TransitionOf
      <4>2. Share(router', t) >= Share(router', t)
        BY <2>1, ApplyShare
      <4> QED BY <4>1, <4>2, <2>3
    <3>2. CASE Share(router', t) <= Share(router, t)
      <4>1. Share(router, t) > 0
        BY <3>2, <2>4, <2>1, ApplyShare
      <4>2. PICK i \in DOMAIN applied : /\ applied[i].confirmed
                                        /\ applied[i].to_percent >= Share(router, t)
        BY <4>1 DEF CandidateShareApproved
      <4>3. applied[i] \in Transition
        BY <2>2, <4>2
      <4>4. applied[i].to_percent >= Share(router', t)
        BY <3>2, <4>2, <4>3, <2>1, ApplyShare DEF Transition
      <4> QED BY <4>2, <4>4, <2>3
    <3>3. \/ change[h].confirmed /\ Share(router', t) = CandidatePercent(change[h].phase)
          \/ Share(router', t) <= Share(router, t)
      BY <2>1, ApplyShare, ApplyConfirmed
    <3> QED BY <3>1, <3>2, <3>3
  <2> QED BY <2>4 DEF CandidateShareApproved
<1> QED BY <1>1, <1>2

\* Candidate traffic was confirmed by a human at its height or above, whatever
\* the start flags and the interleaving of phase changes (control.rs, main.rs).
THEOREM ShareApproved == ControlSpec => []CandidateShareApproved
<1>1. ControlInit => Locked /\ CandidateShareApproved
  BY LockInit, ShareApprovedInit
<1>2. Locked /\ CandidateShareApproved /\ [ControlNext]_controlVars
        => Locked' /\ CandidateShareApproved'
  BY LockStep, ShareApprovedStep
<1> QED BY <1>1, <1>2, PTL DEF ControlSpec
-----------------------------------------------------------------------------
(* Changes chain *)

\* applied[j] is the latest change of its target.
Latest(j) == \A k \in DOMAIN applied : k > j => applied[k].cluster # applied[j].cluster

\* The table shows the latest change of every target, and a cluster that was
\* ever changed has a route of its own, which default changes do not touch.
TableInv ==
    \A j \in DOMAIN applied :
        /\ Latest(j) => RouteFor(router, applied[j].cluster).phase = applied[j].to
        /\ applied[j].cluster \in Clusters => router.by_cluster[applied[j].cluster] # NoRoute

Chained == Locked /\ TableInv /\ ChangesChain

\* No change has been applied at first.
LEMMA ChainedInit ==
    ASSUME ControlInit
    PROVE  Chained
BY LockInit DEF ControlInit, TableInv, ChangesChain, Chained

\* A write replaces what the latest change of its target wrote, and becomes the
\* latest change itself.
LEMMA ApplyTable ==
    ASSUME Chained, NEW h \in Handlers, Apply(h)
    PROVE  TableInv' /\ ChangesChain'
<1> DEFINE c == change[h].cluster
           n == Len(applied) + 1
<1>0. /\ router \in Router /\ router' \in Router
      /\ c \in Targets /\ change[h].phase \in Phase
      /\ from[h] = RouteFor(router, c).phase
      /\ router' = SetPhase(router, c, change[h].phase)
      /\ applied \in Seq(Transition) /\ TransitionOf(h) \in Transition
      /\ applied' = Append(applied, TransitionOf(h))
  BY SetPhaseType, TransitionType DEF Chained, Locked, ControlTypeOK, PhaseChange, LockInv, Apply
<1>1. /\ DOMAIN applied' = 1..n /\ DOMAIN applied = 1..Len(applied) /\ Len(applied) \in Nat
      /\ \A i \in DOMAIN applied : i \in DOMAIN applied' /\ applied'[i] = applied[i]
      /\ applied'[n] = TransitionOf(h) /\ n \in DOMAIN applied'
  BY <1>0, AppendElements
<1>2. /\ TransitionOf(h).cluster = c /\ TransitionOf(h).to = change[h].phase
      /\ TransitionOf(h).from = from[h]
  BY DEF TransitionOf
<1>3. \A i \in DOMAIN applied : applied[i] \in Transition
  BY <1>0
<1>4. \A i \in DOMAIN applied : applied[i].cluster \in Targets
  BY <1>3 DEF Transition
<1>5. RouteFor(router', c).phase = change[h].phase
  <2>1. RouteFor(router', c) = [RouteFor(router, c) EXCEPT !.phase = change[h].phase]
    BY <1>0, SetPhaseRoutes
  <2> QED BY <1>0, <2>1, RouteForType DEF Route
<1>6. \A t \in Clusters : router'.by_cluster[t] # NoRoute <=>
                            (t = c \/ router.by_cluster[t] # NoRoute)
  <2>1. RouteFor(router, c) \in Route
    BY <1>0, RouteForType
  <2>2. [RouteFor(router, c) EXCEPT !.phase = change[h].phase] \in Route
    BY <1>0, <2>1 DEF Route
  <2>3. CASE c = DefaultRoute
    <3>1. router'.by_cluster = router.by_cluster
      BY <1>0, <2>3 DEF SetPhase, Router
    <3> QED BY <2>3, <3>1, DefaultAssumption
  <2>4. CASE c # DefaultRoute
    <3>1. /\ router'.by_cluster = [router.by_cluster EXCEPT
                               ![c] = [RouteFor(router, c) EXCEPT !.phase = change[h].phase]]
          /\ c \in Clusters
          /\ router.by_cluster \in [Clusters -> Route \cup {NoRoute}]
      BY <1>0, <2>4 DEF SetPhase, Router, Targets
    <3> QED BY <2>2, <3>1, NoRouteAssumption
  <2> QED BY <2>3, <2>4
<1>7. TableInv'
  <2>1. ASSUME NEW j \in DOMAIN applied'
        PROVE  /\ Latest(j)' => RouteFor(router', applied'[j].cluster).phase = applied'[j].to
               /\ applied'[j].cluster \in Clusters
                    => router'.by_cluster[applied'[j].cluster] # NoRoute
    <3>1. CASE j = n
      BY <3>1, <1>1, <1>2, <1>5, <1>6
    <3>2. CASE j # n
      <4>1. j \in DOMAIN applied /\ applied'[j] = applied[j] /\ n > j
        BY <3>2, <1>1, <2>1
      <4>2. applied[j].cluster \in Clusters => router.by_cluster[applied[j].cluster] # NoRoute
        BY <4>1 DEF Chained, TableInv
      <4>3. ASSUME Latest(j)'
            PROVE  RouteFor(router', applied[j].cluster).phase = applied[j].to
        <5>1. applied[j].cluster # c
          BY <4>1, <4>3, <1>1, <1>2 DEF Latest
        <5>2. Latest(j)
          BY <4>1, <4>3, <1>1 DEF Latest
        <5>3. RouteFor(router, applied[j].cluster).phase = applied[j].to
          BY <4>1, <5>2 DEF Chained, TableInv
        <5>4. ~(/\ c = DefaultRoute /\ applied[j].cluster \in Clusters
                /\ router.by_cluster[applied[j].cluster] = NoRoute)
          BY <4>2
        <5>5. RouteFor(router', applied[j].cluster) = RouteFor(router, applied[j].cluster)
          BY <5>1, <5>4, <4>1, <1>0, <1>4, SetPhaseRoutes
        <5> QED BY <5>3, <5>5
      <4> QED BY <4>1, <4>2, <4>3, <1>6
    <3> QED BY <3>1, <3>2
  <2> QED BY <2>1 DEF TableInv
<1>8. ChangesChain'
  <2>1. ASSUME NEW i \in DOMAIN applied', NEW j \in DOMAIN applied', i < j,
               applied'[i].cluster = applied'[j].cluster,
               \A k \in (i+1)..(j-1) : applied'[k].cluster # applied'[i].cluster
        PROVE  applied'[j].from = applied'[i].to
    <3>1. i \in DOMAIN applied /\ applied'[i] = applied[i] /\ i \in Nat /\ j \in Nat
      BY <2>1, <1>1
    <3>2. CASE j = n
      <4>1. Latest(i)
        <5>1. ASSUME NEW k \in DOMAIN applied, k > i
              PROVE  applied[k].cluster # applied[i].cluster
          <6>1. k \in (i+1)..(j-1) /\ applied'[k] = applied[k]
            BY <5>1, <3>1, <3>2, <1>1
          <6> QED BY <6>1, <2>1, <3>1
        <5> QED BY <5>1 DEF Latest
      <4>2. RouteFor(router, applied[i].cluster).phase = applied[i].to
        BY <3>1, <4>1 DEF Chained, TableInv
      <4>3. applied[i].cluster = c
        BY <2>1, <3>1, <3>2, <1>1, <1>2
      <4> QED BY <4>2, <4>3, <3>1, <3>2, <1>0, <1>1, <1>2
    <3>3. CASE j # n
      <4>1. j \in DOMAIN applied /\ applied'[j] = applied[j]
        BY <3>3, <2>1, <1>1
      <4>2. \A k \in (i+1)..(j-1) : applied[k].cluster # applied[i].cluster
        BY <2>1, <3>1, <4>1, <1>1
      <4> QED BY <2>1, <3>1, <4>1, <4>2 DEF Chained, ChangesChain
    <3> QED BY <3>2, <3>3
  <2> QED BY <2>1 DEF ChangesChain
<1> QED BY <1>7, <1>8

\* Every other step leaves the table and the applied changes alone.
LEMMA ChainedStep ==
    ASSUME Chained, [ControlNext]_controlVars
    PROVE  Chained'
<1>1. Locked'
  BY LockStep DEF Chained
<1>2. CASE \E h \in Handlers : Apply(h)
  BY <1>1, <1>2, ApplyTable DEF Chained
<1>3. CASE ~ \E h \in Handlers : Apply(h)
  <2>1. applied' = applied /\ router' = router
    BY <1>3, AppliedMovesByApply, TableMovesByApply
  <2> QED BY <1>1, <2>1 DEF Chained, TableInv, ChangesChain, Latest
<1> QED BY <1>2, <1>3

\* The lock is held "across the read-compare-write" (control.rs): every change
\* replaced exactly what the change of the same target before it had written.
THEOREM Chain == ControlSpec => []ChangesChain
<1>1. ControlInit => Chained
  BY ChainedInit
<1>2. Chained /\ [ControlNext]_controlVars => Chained'
  BY ChainedStep
<1>3. Chained => ChangesChain
  BY DEF Chained
<1> QED BY <1>1, <1>2, <1>3, PTL DEF ControlSpec
-----------------------------------------------------------------------------
(* The history is complete *)

\* Where a handler stands tells what it has added to the two sequences.
RecordInv ==
    /\ \A j \in DOMAIN applied : /\ pc[applied[j].reason] \in {"record", "ok"}
                                 /\ applied[j] = TransitionOf(applied[j].reason)
    /\ \A h \in Handlers : pc[h] \in {"record", "ok"} =>
           \E j \in DOMAIN applied : applied[j].reason = h
    /\ \A i \in DOMAIN transitions :
           /\ pc[transitions[i].reason] = "ok"
           /\ transitions[i] = TransitionOf(transitions[i].reason)
    /\ \A h \in Handlers : pc[h] = "ok" =>
           \E i \in DOMAIN transitions : transitions[i].reason = h
    /\ \A i, j \in DOMAIN transitions :
           transitions[i].reason = transitions[j].reason => i = j

Recorded == ControlTypeOK /\ RecordInv

\* The inductive invariant gives the property.
LEMMA RecordedImplies ==
    ASSUME Recorded
    PROVE  HistoryComplete
<1>1. /\ \A j \in DOMAIN applied : applied[j] \in Transition
      /\ \A i \in DOMAIN transitions : transitions[i] \in Transition
  BY DEF Recorded, ControlTypeOK
<1>2. /\ \A j \in DOMAIN applied : applied[j].reason \in Handlers
      /\ \A i \in DOMAIN transitions : transitions[i].reason \in Handlers
  BY <1>1 DEF Transition
<1>3. \A i \in DOMAIN transitions : \E j \in DOMAIN applied : transitions[i] = applied[j]
  <2>1. TAKE i \in DOMAIN transitions
  <2>2. PICK j \in DOMAIN applied : applied[j].reason = transitions[i].reason
    BY <1>2 DEF Recorded, RecordInv
  <2> QED BY <2>2 DEF Recorded, RecordInv
<1>4. \A j \in DOMAIN applied :
        pc[applied[j].reason] = "record" \/ \E i \in DOMAIN transitions : transitions[i] = applied[j]
  <2>1. TAKE j \in DOMAIN applied
  <2>2. CASE pc[applied[j].reason] = "ok"
    <3>1. PICK i \in DOMAIN transitions : transitions[i].reason = applied[j].reason
      BY <1>2, <2>2 DEF Recorded, RecordInv
    <3> QED BY <3>1 DEF Recorded, RecordInv
  <2> QED BY <2>2 DEF Recorded, RecordInv
<1> QED BY <1>3, <1>4 DEF HistoryComplete, Recorded, RecordInv

\* Steps that add nothing and move no handler that is past its write.
LEMMA RecordedFrame ==
    ASSUME Recorded, ControlTypeOK', NEW h \in Handlers,
           applied' = applied, transitions' = transitions,
           pc[h] \notin {"record", "ok"}, pc'[h] \notin {"record", "ok"},
           \A g \in Handlers \ {h} :
               pc'[g] = pc[g] /\ change'[g] = change[g] /\ from'[g] = from[g]
    PROVE  RecordInv'
<1>1. /\ \A j \in DOMAIN applied : applied[j] \in Transition
      /\ \A i \in DOMAIN transitions : transitions[i] \in Transition
  BY DEF Recorded, ControlTypeOK
<1>2. /\ \A j \in DOMAIN applied : applied[j].reason \in Handlers \ {h}
      /\ \A i \in DOMAIN transitions : transitions[i].reason \in Handlers \ {h}
  BY <1>1 DEF Transition, Recorded, RecordInv
<1>3. \A g \in Handlers \ {h} : TransitionOf(g)' = TransitionOf(g)
  BY DEF TransitionOf
<1> QED BY <1>2, <1>3 DEF Recorded, RecordInv

\* A write adds one change, which its handler has still to record.
LEMMA ApplyRecorded ==
    ASSUME Recorded, NEW h \in Handlers, Apply(h)
    PROVE  RecordInv'
<1> DEFINE n == Len(applied) + 1
<1>0. /\ applied \in Seq(Transition) /\ TransitionOf(h) \in Transition
      /\ applied' = Append(applied, TransitionOf(h)) /\ transitions' = transitions
      /\ pc[h] = "locked" /\ pc' = [pc EXCEPT ![h] = "record"]
      /\ change' = change /\ from' = from /\ pc \in [Handlers -> PC]
  BY TransitionType DEF Recorded, ControlTypeOK, Apply
<1>1. /\ DOMAIN applied' = 1..n /\ DOMAIN applied = 1..Len(applied) /\ Len(applied) \in Nat
      /\ \A i \in DOMAIN applied : i \in DOMAIN applied' /\ applied'[i] = applied[i]
      /\ applied'[n] = TransitionOf(h) /\ n \in DOMAIN applied'
  BY <1>0, AppendElements
<1>2. \A g \in Handlers : TransitionOf(g)' = TransitionOf(g)
  BY <1>0 DEF TransitionOf
<1>3. TransitionOf(h).reason = h
  BY DEF TransitionOf
<1>4. /\ \A j \in DOMAIN applied : applied[j] \in Transition
      /\ \A i \in DOMAIN transitions : transitions[i] \in Transition
  BY DEF Recorded, ControlTypeOK
<1>5. /\ \A j \in DOMAIN applied : applied[j].reason \in Handlers \ {h}
      /\ \A i \in DOMAIN transitions : transitions[i].reason \in Handlers \ {h}
  BY <1>0, <1>4 DEF Transition, Recorded, RecordInv
<1>6. (\A j \in DOMAIN applied : /\ pc[applied[j].reason] \in {"record", "ok"}
                                 /\ applied[j] = TransitionOf(applied[j].reason))'
  <2>1. SUFFICES ASSUME NEW j \in DOMAIN applied'
                 PROVE  (/\ pc[applied[j].reason] \in {"record", "ok"}
                         /\ applied[j] = TransitionOf(applied[j].reason))'
    OBVIOUS
  <2>2. CASE j = n
    BY <1>0, <1>1, <1>2, <1>3, <2>2
  <2>3. CASE j # n
    <3>1. j \in DOMAIN applied /\ applied'[j] = applied[j]
      BY <1>1, <2>1, <2>3
    <3>2. applied[j].reason \in Handlers \ {h}
      BY <1>5, <3>1
    <3>3. /\ pc[applied[j].reason] \in {"record", "ok"}
          /\ applied[j] = TransitionOf(applied[j].reason)
      BY <3>1 DEF Recorded, RecordInv
    <3> QED BY <1>0, <1>2, <3>1, <3>2, <3>3
  <2> QED BY <2>2, <2>3
<1>7. \A g \in Handlers : pc'[g] \in {"record", "ok"} =>
           \E j \in DOMAIN applied' : applied'[j].reason = g
  BY <1>0, <1>1, <1>3 DEF Recorded, RecordInv
<1>8. (\A i \in DOMAIN transitions : /\ pc[transitions[i].reason] = "ok"
                                     /\ transitions[i] = TransitionOf(transitions[i].reason))'
  BY <1>0, <1>2, <1>5 DEF Recorded, RecordInv
<1>9. \A g \in Handlers : pc'[g] = "ok" => \E i \in DOMAIN transitions : transitions[i].reason = g
  BY <1>0 DEF Recorded, RecordInv
<1> QED BY <1>0, <1>6, <1>7, <1>8, <1>9 DEF Recorded, RecordInv

\* Recording adds to the history the one change its handler applied.
LEMMA RecordRecorded ==
    ASSUME Recorded, NEW h \in Handlers, RecordTransition(h)
    PROVE  RecordInv'
<1> DEFINE n == Len(transitions) + 1
<1>0. /\ transitions \in Seq(Transition) /\ TransitionOf(h) \in Transition
      /\ transitions' = Append(transitions, TransitionOf(h)) /\ applied' = applied
      /\ pc[h] = "record" /\ pc' = [pc EXCEPT ![h] = "ok"]
      /\ change' = change /\ from' = from /\ pc \in [Handlers -> PC]
  BY TransitionType DEF Recorded, ControlTypeOK, RecordTransition
<1>1. /\ DOMAIN transitions' = 1..n /\ DOMAIN transitions = 1..Len(transitions)
      /\ Len(transitions) \in Nat
      /\ \A i \in DOMAIN transitions :
            i \in DOMAIN transitions' /\ transitions'[i] = transitions[i]
      /\ transitions'[n] = TransitionOf(h) /\ n \in DOMAIN transitions'
  BY <1>0, AppendElements
<1>2. \A g \in Handlers : TransitionOf(g)' = TransitionOf(g)
  BY <1>0 DEF TransitionOf
<1>3. TransitionOf(h).reason = h
  BY DEF TransitionOf
<1>4. /\ \A j \in DOMAIN applied : applied[j] \in Transition
      /\ \A i \in DOMAIN transitions : transitions[i] \in Transition
  BY DEF Recorded, ControlTypeOK
<1>5. /\ \A j \in DOMAIN applied : applied[j].reason \in Handlers
      /\ \A i \in DOMAIN transitions : transitions[i].reason \in Handlers \ {h}
  BY <1>0, <1>4 DEF Transition, Recorded, RecordInv
<1>6. (\A j \in DOMAIN applied : /\ pc[applied[j].reason] \in {"record", "ok"}
                                 /\ applied[j] = TransitionOf(applied[j].reason))'
  BY <1>0, <1>2, <1>5 DEF Recorded, RecordInv
<1>7. \A g \in Handlers : pc'[g] \in {"record", "ok"} =>
           \E j \in DOMAIN applied : applied[j].reason = g
  BY <1>0 DEF Recorded, RecordInv
<1>8. (\A i \in DOMAIN transitions : /\ pc[transitions[i].reason] = "ok"
                                     /\ transitions[i] = TransitionOf(transitions[i].reason))'
  <2>1. SUFFICES ASSUME NEW i \in DOMAIN transitions'
                 PROVE  (/\ pc[transitions[i].reason] = "ok"
                         /\ transitions[i] = TransitionOf(transitions[i].reason))'
    OBVIOUS
  <2>2. CASE i = n
    BY <1>0, <1>1, <1>2, <1>3, <2>2
  <2>3. CASE i # n
    <3>1. i \in DOMAIN transitions /\ transitions'[i] = transitions[i]
      BY <1>1, <2>1, <2>3
    <3>2. transitions[i].reason \in Handlers \ {h}
      BY <1>5, <3>1
    <3>3. /\ pc[transitions[i].reason] = "ok"
          /\ transitions[i] = TransitionOf(transitions[i].reason)
      BY <3>1 DEF Recorded, RecordInv
    <3> QED BY <1>0, <1>2, <3>1, <3>2, <3>3
  <2> QED BY <2>2, <2>3
<1>9. \A g \in Handlers : pc'[g] = "ok" => \E i \in DOMAIN transitions' : transitions'[i].reason = g
  BY <1>0, <1>1, <1>3 DEF Recorded, RecordInv
<1>10. \A i, j \in DOMAIN transitions' :
           transitions'[i].reason = transitions'[j].reason => i = j
  BY <1>1, <1>3, <1>5 DEF Recorded, RecordInv
<1> QED BY <1>0, <1>6, <1>7, <1>8, <1>9, <1>10 DEF RecordInv

\* Every step keeps the account between the table and the history.
LEMMA RecordedStep ==
    ASSUME Recorded, [ControlNext]_controlVars
    PROVE  Recorded'
<1>0. ControlTypeOK'
  BY StepType DEF Recorded
<1>1. CASE UNCHANGED controlVars
  <2>1. \A h \in Handlers : TransitionOf(h)' = TransitionOf(h)
    BY <1>1 DEF TransitionOf, controlVars
  <2>2. /\ \A j \in DOMAIN applied : applied[j] \in Transition
        /\ \A i \in DOMAIN transitions : transitions[i] \in Transition
    BY DEF Recorded, ControlTypeOK
  <2>3. /\ \A j \in DOMAIN applied : applied[j].reason \in Handlers
        /\ \A i \in DOMAIN transitions : transitions[i].reason \in Handlers
    BY <2>2 DEF Transition
  <2> QED BY <1>0, <1>1, <2>1, <2>3 DEF Recorded, RecordInv, controlVars
<1>2. ASSUME NEW h \in Handlers, Receive(h)
      PROVE  RecordInv'
  BY <1>0, <1>2, RecordedFrame DEF Receive, Recorded, ControlTypeOK
<1>3. ASSUME NEW h \in Handlers, LockAndRead(h)
      PROVE  RecordInv'
  BY <1>0, <1>3, RecordedFrame DEF LockAndRead, Recorded, ControlTypeOK
<1>4. ASSUME NEW h \in Handlers, RefuseEscalation(h)
      PROVE  RecordInv'
  BY <1>0, <1>4, RecordedFrame DEF RefuseEscalation, Recorded, ControlTypeOK
<1>5. ASSUME NEW h \in Handlers, Apply(h)
      PROVE  RecordInv'
  BY <1>5, ApplyRecorded
<1>6. ASSUME NEW h \in Handlers, RecordTransition(h)
      PROVE  RecordInv'
  BY <1>6, RecordRecorded
<1> QED BY <1>0, <1>1, <1>2, <1>3, <1>4, <1>5, <1>6 DEF ControlNext, Serve1, Recorded

\* Every applied change, and nothing else, ends up in the history once
\* (proxy.rs, record_transition).
THEOREM History == ControlSpec => []HistoryComplete
<1>1. ControlInit => Recorded
  BY InitType DEF ControlInit, RecordInv, Recorded
<1>2. Recorded /\ [ControlNext]_controlVars => Recorded'
  BY RecordedStep
<1>3. Recorded => HistoryComplete
  BY RecordedImplies
<1> QED BY <1>1, <1>2, <1>3, PTL DEF ControlSpec

-----------------------------------------------------------------------------
(* Gateway *)

\* The router a request sees: every route goes back to the one incumbent.
Anchored == \A t \in Targets : RouteFor(router, t).incumbent = Incumbent

\* What a handler has cloned out of the router and chosen.
Chosen ==
    /\ asked \in [Requests -> [cluster : Targets, key : Keys, streaming : BOOLEAN]]
    /\ decision \in [Requests -> Decision]
    /\ served_by \in [Requests -> Backends \cup {NoBackend}]
    /\ \A r \in Requests : decision[r].fallback \in {Incumbent, NoBackend}

Approval == Locked /\ CandidateShareApproved /\ Anchored
Approved == Approval /\ Chosen /\ CandidateServesOnlyApproved

\* Start-up builds every route from the one incumbent (main.rs).
LEMMA AnchoredInit ==
    ASSUME ControlInit
    PROVE  Anchored
BY DEF ControlInit, Anchored, NewRouter, RouteFor

\* set_phase changes no incumbent.
LEMMA AnchoredStep ==
    ASSUME Locked, Anchored, [ControlNext]_controlVars
    PROVE  Anchored'
<1> SUFFICES ASSUME NEW t \in Targets
             PROVE  RouteFor(router', t).incumbent = Incumbent
  BY DEF Anchored
<1> DEFINE old == RouteFor(router, t)
           new == RouteFor(router', t)
<1>1. CASE router' = router
  BY <1>1 DEF Anchored
<1>2. CASE router' # router
  <2>1. PICK h \in Handlers : Apply(h)
    BY <1>2, TableMovesByApply
  <2>2. /\ router \in Router
        /\ change[h].cluster \in Targets /\ change[h].phase \in Phase
        /\ router' = SetPhase(router, change[h].cluster, change[h].phase)
    BY <2>1 DEF Locked, ControlTypeOK, PhaseChange, Apply
  <2>3. new = old \/ new = [old EXCEPT !.phase = change[h].phase]
    BY <2>2, SetPhaseRoutes
  <2>4. old \in Route /\ old.incumbent = Incumbent
    BY <2>2, RouteForType DEF Anchored
  <2> HIDE DEF old, new
  <2>5. new.incumbent = Incumbent
    BY <2>3, <2>4 DEF Route
  <2> USE DEF old, new
  <2> QED BY <2>5
<1> QED BY <1>1, <1>2

\* Applied changes stay applied.
LEMMA AppliedGrows ==
    ASSUME ControlTypeOK, [ControlNext]_controlVars
    PROVE  \A i \in DOMAIN applied : i \in DOMAIN applied' /\ applied'[i] = applied[i]
<1>1. CASE applied' = applied
  BY <1>1
<1>2. ASSUME NEW h \in Handlers, Apply(h)
      PROVE  \A i \in DOMAIN applied : i \in DOMAIN applied' /\ applied'[i] = applied[i]
  <2>1. /\ applied \in Seq(Transition)
        /\ applied' = Append(applied, TransitionOf(h))
        /\ TransitionOf(h) \in Transition
    BY <1>2, TransitionType DEF Apply, ControlTypeOK
  <2> QED BY <2>1, AppendElements
<1> QED BY <1>1, <1>2, AppliedMovesByApply

\* Every step of the gateway is a step of the control surface or leaves it be.
LEMMA ControlSteps ==
    ASSUME [Next]_vars
    PROVE  [ControlNext]_controlVars
BY DEF Next, vars, RequestNext, Progress, MirrorProgress, BadRequest, Start,
       UpstreamAnswers, FailOver, UpstreamUnreachable, AnswerBody, BodyFails, StreamUsage,
       FinishOnDrop, ClientGone, MirrorAnswers, MirrorUsage, MirrorUsageSplit, RecordMirror

\* The approval of the candidate's share, kept by every step of the gateway.
LEMMA ApprovalStep ==
    ASSUME Approval, [Next]_vars
    PROVE  Approval'
BY ControlSteps, LockStep, ShareApprovedStep, AnchoredStep DEF Approval

\* What decide answers (router.rs): the candidate only below the share, and
\* no fallback but the incumbent.
LEMMA DecideServes ==
    ASSUME Approval, NEW t \in Targets, NEW k \in Keys
    PROVE  LET d == Decide(router, t, k) IN
           /\ d \in Decision
           /\ d.fallback \in {Incumbent, NoBackend}
           /\ d.serve # Incumbent => Bucket[k] < Share(router, t)
<1> DEFINE route == RouteFor(router, t)
<1>1. route \in Route /\ route.incumbent = Incumbent
  BY RouteForType DEF Approval, Locked, ControlTypeOK, Anchored
<1>2. Serve(route, k) = IF Bucket[k] < CandidatePercent(route.phase)
                        THEN route.candidate ELSE route.incumbent
  BY <1>1, ServeByShare
<1>3. /\ Serve(route, k) \in Backends
      /\ Serve(route, k) # Incumbent => Bucket[k] < Share(router, t)
  BY <1>1, <1>2 DEF Route, Share
<1>4. Mirror(route, k) \in Backends \cup {NoBackend}
  BY <1>1 DEF Mirror, Route
<1>5. /\ Fallback(route, Serve(route, k)) \in {Incumbent, NoBackend}
      /\ Fallback(route, Serve(route, k)) \in Backends \cup {NoBackend}
  BY <1>1, BackendAssumption DEF Fallback
<1> QED BY <1>3, <1>4, <1>5 DEF Decide, Decision

\* A request served by the candidate stays approved while its choice stands.
LEMMA ChoiceStands ==
    ASSUME Approved, [Next]_vars, NEW r \in Requests,
           asked'[r] = asked[r], served_by'[r] = served_by[r],
           served_by'[r] \notin {Incumbent, NoBackend}
    PROVE  \E i \in DOMAIN applied' : /\ applied'[i].confirmed
                                      /\ Bucket[asked'[r].key] < applied'[i].to_percent
<1>1. PICK i \in DOMAIN applied : /\ applied[i].confirmed
                                  /\ Bucket[asked[r].key] < applied[i].to_percent
  BY DEF Approved, CandidateServesOnlyApproved
<1>2. i \in DOMAIN applied' /\ applied'[i] = applied[i]
  BY ControlSteps, AppliedGrows DEF Approved, Approval, Locked
<1> QED BY <1>1, <1>2

\* Starting a request: decided under the lock, at an approved share.
LEMMA StartApproved ==
    ASSUME Approved, [Next]_vars, NEW r \in Requests, Start(r)
    PROVE  Chosen' /\ CandidateServesOnlyApproved'
<1>1. PICK ask \in Asks :
        LET d == Decide(router, ask.cluster, ask.key) IN
        /\ asked' = [asked EXCEPT ![r] = ask]
        /\ decision' = [decision EXCEPT ![r] = d]
        /\ served_by' = [served_by EXCEPT ![r] = d.serve]
  BY DEF Start
<1> DEFINE d == Decide(router, ask.cluster, ask.key)
<1>2. ask \in [cluster : Targets, key : Keys, streaming : BOOLEAN]
  BY AsksAssumption
<1>3. ask.cluster \in Targets /\ ask.key \in Keys
  BY <1>2
<1>4. /\ d \in Decision /\ d.fallback \in {Incumbent, NoBackend}
      /\ d.serve # Incumbent => Bucket[ask.key] < Share(router, ask.cluster)
  BY <1>3, DecideServes DEF Approved
<1>5. Chosen'
  <2> HIDE DEF d
  <2>1. d.serve \in Backends
    BY <1>4 DEF Decision
  <2> QED BY <1>1, <1>2, <1>4, <2>1 DEF Chosen, Approved, d
<1>6. ASSUME NEW q \in Requests, served_by'[q] \notin {Incumbent, NoBackend}
      PROVE  \E i \in DOMAIN applied' : /\ applied'[i].confirmed
                                        /\ Bucket[asked'[q].key] < applied'[i].to_percent
  <2>1. CASE q # r
    <3>1. asked'[q] = asked[q] /\ served_by'[q] = served_by[q]
      BY <1>1, <2>1 DEF Chosen, Approved
    <3> QED BY <3>1, <1>6, ChoiceStands
  <2>2. CASE q = r
    <3>1. asked'[r] = ask /\ served_by'[r] = d.serve
      BY <1>1 DEF Chosen, Approved
    <3>2. Bucket[ask.key] < Share(router, ask.cluster)
      BY <3>1, <1>4, <1>6, <2>2
    <3>3. Bucket[ask.key] \in 0..99 /\ Share(router, ask.cluster) \in 0..100
      BY <1>3, BucketAssumption, RouteForType, PercentType
         DEF Share, Approved, Approval, Locked, ControlTypeOK
    <3>4. PICK i \in DOMAIN applied : /\ applied[i].confirmed
                                      /\ applied[i].to_percent >= Share(router, ask.cluster)
      BY <1>3, <3>2, <3>3 DEF Approved, Approval, CandidateShareApproved
    <3>5. applied[i].to_percent \in 0..100
      <4>1. applied \in Seq(Transition)
        BY DEF Approved, Approval, Locked, ControlTypeOK
      <4>2. applied[i] \in Transition
        BY <3>4, <4>1
      <4> QED BY <4>2 DEF Transition
    <3>6. applied' = applied
      BY DEF Start, controlVars
    <3> HIDE DEF d
    <3>7. Bucket[ask.key] < applied[i].to_percent
      <4> DEFINE b == Bucket[ask.key]
                 s == Share(router, ask.cluster)
                 p == applied[i].to_percent
      <4>1. b \in Int /\ s \in Int /\ p \in Int /\ b < s /\ p >= s
        BY <3>2, <3>3, <3>4, <3>5
      <4> HIDE DEF b, s, p
      <4>2. b < p
        BY <4>1
      <4> QED BY <4>2 DEF b, p
    <3> QED BY <2>2, <3>1, <3>4, <3>6, <3>7
  <2> QED BY <2>1, <2>2
<1>7. CandidateServesOnlyApproved'
  BY <1>6 DEF CandidateServesOnlyApproved
<1> QED BY <1>5, <1>7

\* Failing over goes to the incumbent, whatever the phase is by then.
LEMMA FailOverApproved ==
    ASSUME Approved, [Next]_vars, NEW r \in Requests, FailOver(r)
    PROVE  Chosen' /\ CandidateServesOnlyApproved'
<1>1. /\ UNCHANGED <<asked, decision>>
      /\ served_by' = [served_by EXCEPT ![r] = decision[r].fallback]
      /\ decision[r].fallback = Incumbent
  BY DEF FailOver, choiceVars, Approved, Chosen
<1>2. Chosen'
  BY <1>1, BackendAssumption DEF Chosen, Approved
<1>3. ASSUME NEW q \in Requests, served_by'[q] \notin {Incumbent, NoBackend}
      PROVE  \E i \in DOMAIN applied' : /\ applied'[i].confirmed
                                        /\ Bucket[asked'[q].key] < applied'[i].to_percent
  <2>1. q # r
    BY <1>1, <1>3 DEF Chosen, Approved
  <2>2. asked'[q] = asked[q] /\ served_by'[q] = served_by[q]
    BY <1>1, <2>1 DEF Chosen, Approved
  <2> QED BY <2>2, <1>3, ChoiceStands
<1> QED BY <1>2, <1>3 DEF CandidateServesOnlyApproved

\* Every other step leaves what requests chose alone.
LEMMA OthersApproved ==
    ASSUME Approved, [Next]_vars, UNCHANGED <<asked, decision, served_by>>
    PROVE  Chosen' /\ CandidateServesOnlyApproved'
<1>1. Chosen'
  BY DEF Chosen, Approved
<1>2. ASSUME NEW q \in Requests, served_by'[q] \notin {Incumbent, NoBackend}
      PROVE  \E i \in DOMAIN applied' : /\ applied'[i].confirmed
                                        /\ Bucket[asked'[q].key] < applied'[i].to_percent
  BY <1>2, ChoiceStands
<1> QED BY <1>1, <1>2 DEF CandidateServesOnlyApproved

\* A request's step starts it, fails it over, or leaves its choices alone.
LEMMA RequestSteps ==
    ASSUME [Next]_vars
    PROVE  \/ \E r \in Requests : Start(r) \/ FailOver(r)
           \/ UNCHANGED <<asked, decision, served_by>>
BY DEF Next, vars, gatewayVars, requestVars, choiceVars, RequestNext, Progress,
       MirrorProgress, BadRequest, UpstreamAnswers, UpstreamUnreachable, AnswerBody,
       BodyFails, StreamUsage, FinishOnDrop, ClientGone, MirrorAnswers, MirrorUsage,
       MirrorUsageSplit, RecordMirror

\* Nothing is served at first.
LEMMA ApprovedInit ==
    ASSUME Init
    PROVE  Approved
<1>1. Approval
  BY LockInit, ShareApprovedInit, AnchoredInit DEF Init, Approval
<1>2. NoAsk \in [cluster : Targets, key : Keys, streaming : BOOLEAN]
  BY KeysAssumption DEF NoAsk, Targets
<1>3. NoDecision \in Decision /\ NoDecision.fallback = NoBackend
  BY BackendAssumption DEF NoDecision, Decision
<1>4. Chosen
  BY <1>2, <1>3 DEF Init, GatewayInit, Chosen
<1>5. CandidateServesOnlyApproved
  BY DEF Init, GatewayInit, CandidateServesOnlyApproved
<1> QED BY <1>1, <1>4, <1>5 DEF Approved

\* The inductive step.
LEMMA ApprovedStep ==
    ASSUME Approved, [Next]_vars
    PROVE  Approved'
<1>1. Approval'
  BY ApprovalStep DEF Approved
<1>2. Chosen' /\ CandidateServesOnlyApproved'
  BY RequestSteps, StartApproved, FailOverApproved, OthersApproved
<1> QED BY <1>1, <1>2 DEF Approved

\* router.rs, "shadow - candidate scored, never served", and failover "only ever
\* back to the incumbent": in every interleaving of requests, failovers and
\* phase changes, a request the candidate serves is in a bucket below a share
\* that a human confirmed.
THEOREM ServesOnlyApproved == Spec => []CandidateServesOnlyApproved
<1>1. Init => Approved
  BY ApprovedInit
<1>2. Approved /\ [Next]_vars => Approved'
  BY ApprovedStep
<1>3. Approved => CandidateServesOnlyApproved
  BY DEF Approved
<1> QED BY <1>1, <1>2, <1>3, PTL DEF Spec

-----------------------------------------------------------------------------
(* Sequences: the end of a log, and the capped push that keeps it.           *)

\* What a suffix is, element by element.
LEMMA SuffixElements ==
    ASSUME NEW S, NEW q \in Seq(S), NEW l \in Seq(S)
    PROVE  IsSuffix(q, l) <=> /\ Len(q) <= Len(l)
                              /\ \A i \in 1..Len(q) : q[i] = l[Len(l) - Len(q) + i]
<1> DEFINE rq == Reverse(q)
           rl == Reverse(l)
<1>1. /\ rq \in Seq(S) /\ Len(rq) = Len(q)
      /\ \A i \in 1..Len(q) : rq[i] = q[Len(q) - i + 1]
  BY DEF Reverse
<1>2. /\ rl \in Seq(S) /\ Len(rl) = Len(l)
      /\ \A i \in 1..Len(l) : rl[i] = l[Len(l) - i + 1]
  BY DEF Reverse
<1> HIDE DEF rq, rl
<1>3. IsSuffix(q, l) <=> Len(q) <= Len(l) /\ SubSeq(rq, 1, Len(q)) = SubSeq(rl, 1, Len(q))
  BY <1>1, <1>2 DEF IsSuffix, IsPrefix, rq, rl
<1>4. ASSUME Len(q) <= Len(l)
      PROVE  SubSeq(rq, 1, Len(q)) = SubSeq(rl, 1, Len(q)) <=>
                \A i \in 1..Len(q) : rq[i] = rl[i]
  BY <1>1, <1>2, <1>4
<1>5. ASSUME Len(q) <= Len(l)
      PROVE  (\A i \in 1..Len(q) : rq[i] = rl[i]) <=>
                \A i \in 1..Len(q) : q[i] = l[Len(l) - Len(q) + i]
  <2>1. Len(q) \in Nat /\ Len(l) \in Nat
    OBVIOUS
  <2>2. ASSUME \A i \in 1..Len(q) : rq[i] = rl[i], NEW i \in 1..Len(q)
        PROVE  q[i] = l[Len(l) - Len(q) + i]
    <3> DEFINE j == Len(q) - i + 1
    <3>1. j \in 1..Len(q) /\ Len(q) - j + 1 = i /\ Len(l) - j + 1 = Len(l) - Len(q) + i
      BY <2>1
    <3>2. j \in 1..Len(l)
      BY <3>1, <1>5, <2>1
    <3> HIDE DEF j
    <3> QED BY <3>1, <3>2, <2>2, <1>1, <1>2
  <2>3. ASSUME \A i \in 1..Len(q) : q[i] = l[Len(l) - Len(q) + i], NEW i \in 1..Len(q)
        PROVE  rq[i] = rl[i]
    <3> DEFINE j == Len(q) - i + 1
    <3>1. j \in 1..Len(q) /\ Len(l) - Len(q) + j = Len(l) - i + 1 /\ i \in 1..Len(l)
      BY <2>1, <1>5
    <3>2. rq[i] = q[j] /\ rl[i] = l[Len(l) - i + 1]
      BY <3>1, <1>1, <1>2
    <3> HIDE DEF j
    <3> QED BY <3>1, <3>2, <2>3
  <2> QED BY <2>2, <2>3
<1> QED BY <1>3, <1>4, <1>5

\* push_capped keeps the type and the bound.
LEMMA PushCappedType ==
    ASSUME NEW S, NEW q \in Seq(S), Len(q) <= MaxRecords, NEW x \in S
    PROVE  PushCapped(q, x) \in Seq(S) /\ Len(PushCapped(q, x)) <= MaxRecords
<1>1. CASE Len(q) >= MaxRecords
  <2>1. q # <<>>
    BY <1>1, MaxRecordsAssumption
  <2>2. Tail(q) \in Seq(S) /\ Len(Tail(q)) = Len(q) - 1
    BY <2>1
  <2> QED BY <1>1, <2>2, MaxRecordsAssumption DEF PushCapped
<1>2. CASE Len(q) < MaxRecords
  BY <1>2, MaxRecordsAssumption DEF PushCapped
<1> QED BY <1>1, <1>2, MaxRecordsAssumption

\* The end of a log, as long as the log or the cap.
EndOf(q, l) ==
    /\ IsSuffix(q, l)
    /\ Len(q) = IF Len(l) <= MaxRecords THEN Len(l) ELSE MaxRecords

\* push_capped on the end of a log gives the end of the longer log.
LEMMA PushCappedEnd ==
    ASSUME NEW S, NEW q \in Seq(S), NEW l \in Seq(S), EndOf(q, l), NEW x \in S
    PROVE  EndOf(PushCapped(q, x), Append(l, x))
<1> DEFINE p == PushCapped(q, x)
           m == Append(l, x)
<1>0. Len(q) \in Nat /\ Len(l) \in Nat /\ MaxRecords \in Nat /\ MaxRecords > 0
  BY MaxRecordsAssumption
<1>1. /\ Len(q) <= Len(l) /\ Len(q) <= MaxRecords
      /\ \A i \in 1..Len(q) : q[i] = l[Len(l) - Len(q) + i]
  BY <1>0, SuffixElements DEF EndOf
<1>2. m \in Seq(S) /\ Len(m) = Len(l) + 1 /\ m[Len(l) + 1] = x
      /\ \A i \in 1..Len(l) : m[i] = l[i]
  OBVIOUS
<1>3. p \in Seq(S)
  BY <1>1, PushCappedType
<1>4. CASE Len(q) >= MaxRecords
  <2>1. q # <<>>
    BY <1>4, <1>0
  <2>2. /\ Tail(q) \in Seq(S) /\ Len(Tail(q)) = Len(q) - 1
        /\ \A i \in 1..(Len(q) - 1) : Tail(q)[i] = q[i + 1]
    BY <2>1
  <2>3. p = Append(Tail(q), x)
    BY <1>4 DEF PushCapped
  <2>4. /\ Len(p) = Len(q) /\ p[Len(q)] = x
        /\ \A i \in 1..(Len(q) - 1) : p[i] = q[i + 1]
    BY <2>2, <2>3
  <2>5. Len(p) <= Len(m) /\ \A i \in 1..Len(p) : p[i] = m[Len(m) - Len(p) + i]
    <3> HIDE DEF p, m
    <3> SUFFICES ASSUME NEW i \in 1..Len(q)
                 PROVE  p[i] = m[Len(l) + 1 - Len(q) + i]
      BY <1>0, <1>1, <1>2, <2>4
    <3>1. CASE i = Len(q)
      BY <3>1, <1>0, <1>2, <2>4
    <3>2. CASE i # Len(q)
      <4>1. i \in 1..(Len(q) - 1) /\ i + 1 \in 1..Len(q)
        BY <3>2, <1>0
      <4>2. p[i] = l[Len(l) - Len(q) + (i + 1)]
        BY <4>1, <2>4, <1>1
      <4>3. Len(l) - Len(q) + (i + 1) \in 1..Len(l)
            /\ Len(l) - Len(q) + (i + 1) = Len(l) + 1 - Len(q) + i
        BY <4>1, <1>0, <1>1
      <4> HIDE DEF p, m
      <4> QED BY <4>2, <4>3, <1>2
    <3> QED BY <3>1, <3>2
  <2>6. Len(p) = IF Len(m) <= MaxRecords THEN Len(m) ELSE MaxRecords
    BY <1>0, <1>1, <1>2, <1>4, <2>4 DEF EndOf
  <2> HIDE DEF p, m
  <2>7. IsSuffix(p, m)
    BY <1>2, <1>3, <2>5, SuffixElements
  <2>8. EndOf(p, m)
    BY <2>6, <2>7 DEF EndOf
  <2> QED BY <2>8 DEF p, m
<1>5. CASE Len(q) < MaxRecords
  <2>1. Len(q) = Len(l)
    BY <1>0, <1>5 DEF EndOf
  <2>2. q = l
    BY <2>1, <1>1, <1>0, SeqEqual
  <2>3. p = m
    BY <1>5, <2>2, <1>0 DEF PushCapped
  <2>4. Len(m) <= MaxRecords
    BY <1>0, <1>2, <1>5, <2>1
  <2>5. IsSuffix(m, m)
    <3> HIDE DEF m
    <3>1. Len(m) - Len(m) = 0
      BY <1>2
    <3> QED BY <1>2, <3>1, SuffixElements
  <2>6. EndOf(m, m)
    <3> HIDE DEF m
    <3> QED BY <2>4, <2>5 DEF EndOf
  <2> QED BY <2>3, <2>6
<1> QED BY <1>0, <1>4, <1>5

-----------------------------------------------------------------------------
(* Types: what a request holds by the time it is recorded.                  *)

\* A backend is chosen before an answer can come, and a mirror runs only for a
\* decision that named one.
Placed ==
    \A r \in Requests :
        /\ at[r] \notin {"unsent", "bad"} => served_by[r] \in Backends
        /\ mirror[r] # "none" => decision[r].mirror \in Backends

\* What is not already said by Approved.
Holds ==
    /\ at \in [Requests -> At]
    /\ failed_over \in [Requests -> BOOLEAN]
    /\ reported \in [Requests -> BOOLEAN]
    /\ mirror \in [Requests -> {"none", "sending", "reading", "done"}]
    /\ mirrorSent \in [Requests -> BOOLEAN]
    /\ mirrorSeen \in [Requests -> BOOLEAN]
    /\ records \in Seq(Record) /\ Len(records) <= MaxRecords
    /\ mirrors \in Seq(MirrorRecord) /\ Len(mirrors) <= MaxRecords
    /\ recordLog \in Seq(Record)
    /\ captured \in Seq(Requests)

Typed == Approved /\ Holds /\ Placed

\* These say of every variable at least what the types say.
LEMMA TypedIsTypeOK ==
    ASSUME Typed
    PROVE  GatewayTypeOK
BY DEF Typed, Approved, Approval, Locked, Chosen, Holds, GatewayTypeOK

\* A request that has been answered gives a record of the type.
LEMMA RecordOfType ==
    ASSUME Typed, NEW r \in Requests, at[r] \notin {"unsent", "bad"}, NEW usage \in BOOLEAN
    PROVE  /\ RecordOf(r, usage) \in Record
           /\ RecordOf(r, usage).req = r
<1>1. /\ asked[r] \in [cluster : Targets, key : Keys, streaming : BOOLEAN]
      /\ decision[r] \in Decision
  BY DEF Typed, Approved, Chosen
<1>2. asked[r].streaming \in BOOLEAN /\ decision[r].mirror \in Backends \cup {NoBackend}
  BY <1>1 DEF Decision
<1>3. served_by[r] \in Backends /\ failed_over[r] \in BOOLEAN
  BY DEF Typed, Placed, Holds
<1> QED BY <1>2, <1>3 DEF RecordOf, Record

\* What the mirror records of a request is a record of a mirror.
LEMMA MirrorRecordOfType ==
    ASSUME Typed, NEW r \in Requests, mirror[r] # "none", NEW err \in BOOLEAN
    PROVE  MirrorRecordOf(r, err) \in MirrorRecord
BY DEF Typed, Placed, Holds, MirrorRecordOf, MirrorRecord

\* Finishing: the record and the capture are of the right type.
LEMMA ConcludeTyped ==
    ASSUME Typed, NEW r \in Requests, at[r] \notin {"unsent", "bad"},
           NEW usage \in BOOLEAN, Conclude(r, usage)
    PROVE  /\ records' \in Seq(Record) /\ Len(records') <= MaxRecords
           /\ recordLog' \in Seq(Record)
           /\ captured' \in Seq(Requests)
<1>1. RecordOf(r, usage) \in Record
  BY RecordOfType
<1>2. records \in Seq(Record) /\ Len(records) <= MaxRecords
  BY DEF Typed, Holds
<1>3. records' = PushCapped(records, RecordOf(r, usage))
  BY DEF Conclude
<1>4. recordLog' \in Seq(Record) /\ captured' \in Seq(Requests)
  BY <1>1 DEF Conclude, Typed, Holds
<1> QED BY <1>1, <1>2, <1>3, <1>4, PushCappedType

\* A gateway that has started.
LEMMA TypedInit ==
    ASSUME Init
    PROVE  Typed
<1>1. Approved
  BY ApprovedInit
<1>2. Holds /\ Placed
  BY MaxRecordsAssumption DEF Init, GatewayInit, Holds, Placed, At, Waiting, Finished
<1> QED BY <1>1, <1>2 DEF Typed

\* No step of a request, a mirror or the control surface disturbs them.
LEMMA TypedStep ==
    ASSUME Typed, [Next]_vars
    PROVE  Typed'
<1>0. Approved' /\ Holds /\ Placed /\ Approved
  BY ApprovedStep DEF Typed
<1>1. CASE UNCHANGED gatewayVars
  BY <1>0, <1>1 DEF Typed, Holds, Placed, gatewayVars, requestVars, choiceVars, mirrorVars,
                    evidenceVars
<1>2. ASSUME NEW r \in Requests, BadRequest(r)
      PROVE  Typed'
  BY <1>0, <1>2 DEF BadRequest, Typed, Holds, Placed, choiceVars, mirrorVars, evidenceVars,
                    At, Finished
<1>3. ASSUME NEW r \in Requests, Start(r)
      PROVE  Typed'
  <2>1. PICK ask \in Asks :
          LET d == Decide(router, ask.cluster, ask.key) IN
          /\ decision' = [decision EXCEPT ![r] = d]
          /\ served_by' = [served_by EXCEPT ![r] = d.serve]
          /\ mirror' = [mirror EXCEPT ![r] = IF d.mirror = NoBackend THEN "none" ELSE "sending"]
    BY <1>3 DEF Start
  <2> DEFINE d == Decide(router, ask.cluster, ask.key)
  <2>2. ask.cluster \in Targets /\ ask.key \in Keys
    BY AsksAssumption
  <2>3. d \in Decision
    BY <2>2, DecideServes DEF Typed, Approved
  <2> HIDE DEF d
  <2>4. d.serve \in Backends /\ d.mirror \in Backends \cup {NoBackend}
    BY <2>3 DEF Decision
  <2>5. Holds'
    BY <1>0, <1>3, <2>1 DEF Start, Holds, At, Waiting, evidenceVars, d
  <2>6. Placed'
    BY <1>0, <1>3, <2>1, <2>4 DEF Start, Approved, Chosen, Holds, Placed, d
  <2> QED BY <1>0, <2>5, <2>6 DEF Typed
<1>4. ASSUME NEW r \in Requests, UpstreamAnswers(r) \/ UpstreamUnreachable(r) \/ BodyFails(r)
                                 \/ ClientGone(r)
      PROVE  Typed'
  BY <1>0, <1>4 DEF UpstreamAnswers, UpstreamUnreachable, BodyFails, ClientGone, Typed, Holds,
                    Placed, choiceVars, mirrorVars, evidenceVars, At, Waiting, Finished
<1>5. ASSUME NEW r \in Requests, FailOver(r)
      PROVE  Typed'
  <2>1. decision[r].fallback \in Backends
    BY <1>0, <1>5, BackendAssumption DEF FailOver, Approved, Chosen
  <2> QED BY <1>0, <1>5, <2>1 DEF FailOver, Approved, Chosen, Typed, Holds, Placed,
                                  choiceVars, mirrorVars, evidenceVars, At, Waiting
<1>6. ASSUME NEW r \in Requests, AnswerBody(r)
      PROVE  Typed'
  <2>1. PICK usage \in BOOLEAN : /\ reported' = [reported EXCEPT ![r] = usage]
                                 /\ Conclude(r, usage)
    BY <1>6 DEF AnswerBody
  <2>2. /\ records' \in Seq(Record) /\ Len(records') <= MaxRecords
        /\ recordLog' \in Seq(Record) /\ captured' \in Seq(Requests)
    BY <1>6, <2>1, ConcludeTyped DEF AnswerBody
  <2> QED BY <1>0, <1>6, <2>1, <2>2 DEF AnswerBody, Typed, Holds, Placed, choiceVars,
                                        mirrorVars, At, Finished
<1>7. ASSUME NEW r \in Requests, StreamUsage(r)
      PROVE  Typed'
  BY <1>0, <1>7 DEF StreamUsage, Typed, Holds, Placed, choiceVars, mirrorVars, evidenceVars
<1>8. ASSUME NEW r \in Requests, NEW end \in {"done", "cut"}, FinishOnDrop(r, end)
      PROVE  Typed'
  <2>1. /\ records' \in Seq(Record) /\ Len(records') <= MaxRecords
        /\ recordLog' \in Seq(Record) /\ captured' \in Seq(Requests)
    BY <1>0, <1>8, ConcludeTyped DEF FinishOnDrop, Holds
  <2> QED BY <1>0, <1>8, <2>1 DEF FinishOnDrop, Typed, Holds, Placed, choiceVars,
                                  mirrorVars, At, Finished
<1>9. ASSUME NEW r \in Requests, MirrorAnswers(r) \/ MirrorUsage(r) \/ MirrorUsageSplit(r)
      PROVE  Typed'
  BY <1>0, <1>9 DEF MirrorAnswers, MirrorUsage, MirrorUsageSplit, Typed, Holds, Placed,
                    requestVars, choiceVars, evidenceVars
<1>10. ASSUME NEW r \in Requests, NEW err \in BOOLEAN, RecordMirror(r, err)
       PROVE  Typed'
  <2>1. MirrorRecordOf(r, err) \in MirrorRecord
    BY <1>10, MirrorRecordOfType DEF RecordMirror
  <2>2. mirrors' \in Seq(MirrorRecord) /\ Len(mirrors') <= MaxRecords
    BY <1>0, <1>10, <2>1, PushCappedType DEF RecordMirror, Holds
  <2>3. Holds' /\ Placed'
    BY <1>0, <1>10, <2>2 DEF RecordMirror, Holds, Placed, requestVars, choiceVars,
                             evidenceVars
  <2> QED BY <1>0, <2>3 DEF Typed
<1> QED BY <1>1, <1>2, <1>3, <1>4, <1>5, <1>6, <1>7, <1>8, <1>9, <1>10
        DEF Next, vars, RequestNext, Progress, MirrorProgress

-----------------------------------------------------------------------------
(* One record per answer, and the newest of them retained.                  *)

Answered(r) == at[r] \in {"done", "cut"}

\* Where the record and the capture of a request stand in the two histories.
RecordKept(r) ==
    \E i \in DOMAIN recordLog :
        /\ recordLog[i] = RecordOf(r, reported[r])
        /\ \A j \in DOMAIN recordLog : recordLog[j].req = r => j = i
Unrecorded(r) == \A j \in DOMAIN recordLog : recordLog[j].req # r
CapturedOnce(r) ==
    \E i \in DOMAIN captured : captured[i] = r /\ \A j \in DOMAIN captured : captured[j] = r => j = i
Uncaptured(r) == \A j \in DOMAIN captured : captured[j] # r

\* No request is recorded before it is answered, so that the record written
\* then is its only one.
Accounted(r) ==
    /\ Answered(r) => RecordKept(r) /\ IF Capturing THEN CapturedOnce(r) ELSE Uncaptured(r)
    /\ ~Answered(r) => Unrecorded(r) /\ Uncaptured(r)

\* The inductive invariant of the records: one account for each request, and
\* the ring holds the end of what was recorded.
Complete ==
    /\ Typed
    /\ \A r \in Requests : Accounted(r)
    /\ EndOf(records, recordLog)

\* A gateway that has answered nothing has nothing to record.
LEMMA CompleteInit ==
    ASSUME Init
    PROVE  Complete
<1>1. Typed
  BY TypedInit
<1>2. \A r \in Requests : Accounted(r)
  BY DEF Init, GatewayInit, Accounted, Answered, Unrecorded, Uncaptured
<1>3. EndOf(records, recordLog)
  <2>1. records = <<>> /\ recordLog = <<>> /\ <<>> \in Seq(Record) /\ Len(<<>>) = 0
    BY DEF Init, GatewayInit
  <2> DEFINE none == <<>>
  <2>2. IsSuffix(none, none)
    <3>1. none \in Seq(Record) /\ Len(none) \in Nat
      BY <2>1
    <3> HIDE DEF none
    <3>2. \A i \in 1..Len(none) : none[i] = none[Len(none) - Len(none) + i]
      BY <3>1
    <3> QED BY <3>1, <3>2, SuffixElements
  <2> QED BY <2>1, <2>2, MaxRecordsAssumption DEF EndOf
<1> QED BY <1>1, <1>2, <1>3 DEF Complete

\* A step that writes no record and changes nothing of an answered request.
LEMMA QuietStep ==
    ASSUME Complete, Typed', UNCHANGED evidenceVars,
           \A r \in Requests : /\ Answered(r)' <=> Answered(r)
                               /\ Answered(r) => RecordOf(r, reported[r])' = RecordOf(r, reported[r])
    PROVE  Complete'
BY DEF Complete, Accounted, RecordKept, Unrecorded, CapturedOnce, Uncaptured, evidenceVars

\* The step that concludes a request, and leaves every other one alone.
LEMMA ConcludingStep ==
    ASSUME Complete, Typed', NEW r \in Requests, NEW usage \in BOOLEAN, Conclude(r, usage),
           at[r] \in {"body", "stream"}, Answered(r)',
           RecordOf(r, usage) = RecordOf(r, reported[r])',
           \A q \in Requests \ {r} : /\ Answered(q)' <=> Answered(q)
                                     /\ RecordOf(q, reported[q])' = RecordOf(q, reported[q])
    PROVE  Complete'
<1> DEFINE rec == RecordOf(r, usage)
           n == Len(recordLog) + 1
           m == Len(captured) + 1
<1>1. /\ rec \in Record /\ rec.req = r
      /\ recordLog \in Seq(Record) /\ captured \in Seq(Requests) /\ records \in Seq(Record)
  BY RecordOfType DEF Complete, Typed, Holds
<1>2. /\ recordLog' = Append(recordLog, rec) /\ records' = PushCapped(records, rec)
      /\ captured' = IF Capturing THEN Append(captured, r) ELSE captured
  BY DEF Conclude
<1>3. EndOf(records, recordLog)'
  <2>1. EndOf(records, recordLog)
    BY DEF Complete
  <2> HIDE DEF rec
  <2>2. EndOf(PushCapped(records, rec), Append(recordLog, rec))
    BY <1>1, <2>1, PushCappedEnd
  <2> QED BY <1>2, <2>2 DEF EndOf
<1>4. Unrecorded(r) /\ Uncaptured(r)
  BY DEF Complete, Accounted, Answered
<1> HIDE DEF rec
<1>5. /\ DOMAIN recordLog' = DOMAIN recordLog \cup {n} /\ n \notin DOMAIN recordLog
      /\ recordLog'[n] = rec
      /\ \A j \in DOMAIN recordLog : recordLog'[j] = recordLog[j]
  BY <1>1, <1>2
<1>6. Capturing => /\ DOMAIN captured' = DOMAIN captured \cup {m} /\ m \notin DOMAIN captured
                   /\ captured'[m] = r
                   /\ \A j \in DOMAIN captured : captured'[j] = captured[j]
  BY <1>1, <1>2
<1> HIDE DEF n, m
<1>7. RecordKept(r)'
  <2>1. recordLog'[n] = RecordOf(r, reported[r])'
    BY <1>5 DEF rec
  <2>2. \A j \in DOMAIN recordLog' : recordLog'[j].req = r => j = n
    BY <1>4, <1>5 DEF Unrecorded
  <2> QED BY <2>1, <2>2, <1>5 DEF RecordKept
<1>8. IF Capturing THEN CapturedOnce(r)' ELSE Uncaptured(r)'
  BY <1>2, <1>4, <1>6 DEF CapturedOnce, Uncaptured
<1>9. ASSUME NEW q \in Requests \ {r}
      PROVE  Accounted(q)'
  <2>1. Accounted(q)
    BY <1>9 DEF Complete
  <2>2. RecordKept(q) => RecordKept(q)'
    BY <1>1, <1>5, <1>9 DEF RecordKept
  <2>3. Unrecorded(q) => Unrecorded(q)'
    BY <1>1, <1>5, <1>9 DEF Unrecorded
  <2>4. CapturedOnce(q) => CapturedOnce(q)'
    BY <1>2, <1>6, <1>9 DEF CapturedOnce
  <2>5. Uncaptured(q) => Uncaptured(q)'
    BY <1>2, <1>6, <1>9 DEF Uncaptured
  <2> QED BY <2>1, <2>2, <2>3, <2>4, <2>5 DEF Accounted
<1>10. Accounted(r)'
  BY <1>7, <1>8 DEF Accounted
<1> QED BY <1>3, <1>9, <1>10 DEF Complete

\* No step records a request it has not answered, or one it has twice.
LEMMA CompleteStep ==
    ASSUME Complete, [Next]_vars
    PROVE  Complete'
<1>0. Typed /\ Typed' /\ Holds
  BY TypedStep DEF Complete, Typed
<1>1. CASE UNCHANGED gatewayVars
  BY <1>0, <1>1, QuietStep DEF gatewayVars, requestVars, choiceVars, mirrorVars, Answered,
                               RecordOf
<1>2. ASSUME NEW r \in Requests,
             BadRequest(r) \/ Start(r) \/ UpstreamAnswers(r) \/ UpstreamUnreachable(r)
             \/ BodyFails(r) \/ ClientGone(r) \/ FailOver(r) \/ StreamUsage(r)
      PROVE  Complete'
  <2>1. UNCHANGED evidenceVars
    BY <1>2 DEF BadRequest, Start, UpstreamAnswers, UpstreamUnreachable, BodyFails, ClientGone,
                FailOver, StreamUsage
  <2>2. /\ ~Answered(r) /\ ~Answered(r)'
        /\ \A q \in Requests \ {r} : /\ Answered(q)' <=> Answered(q)
                                     /\ RecordOf(q, reported[q])' = RecordOf(q, reported[q])
    BY <1>0, <1>2 DEF BadRequest, Start, UpstreamAnswers, UpstreamUnreachable, BodyFails,
                      ClientGone, FailOver, StreamUsage, Holds, Answered, RecordOf, Waiting,
                      Typed, Approved, Chosen, choiceVars
  <2> QED BY <1>0, <2>1, <2>2, QuietStep
<1>3. ASSUME NEW r \in Requests, AnswerBody(r)
      PROVE  Complete'
  <2>1. PICK usage \in BOOLEAN : /\ reported' = [reported EXCEPT ![r] = usage]
                                 /\ Conclude(r, usage)
    BY <1>3 DEF AnswerBody
  <2>2. /\ Answered(r)' /\ RecordOf(r, usage) = RecordOf(r, reported[r])'
        /\ \A q \in Requests \ {r} : /\ Answered(q)' <=> Answered(q)
                                     /\ RecordOf(q, reported[q])' = RecordOf(q, reported[q])
    BY <1>0, <1>3, <2>1 DEF AnswerBody, Holds, Answered, RecordOf, choiceVars
  <2>3. at[r] \in {"body", "stream"}
    BY <1>3 DEF AnswerBody
  <2> QED BY <1>0, <2>1, <2>2, <2>3, ConcludingStep
<1>4. ASSUME NEW r \in Requests, NEW end \in {"done", "cut"}, FinishOnDrop(r, end)
      PROVE  Complete'
  <2>1. reported[r] \in BOOLEAN /\ Conclude(r, reported[r]) /\ at[r] \in {"body", "stream"}
    BY <1>0, <1>4 DEF FinishOnDrop, Holds
  <2>2. /\ Answered(r)' /\ RecordOf(r, reported[r]) = RecordOf(r, reported[r])'
        /\ \A q \in Requests \ {r} : /\ Answered(q)' <=> Answered(q)
                                     /\ RecordOf(q, reported[q])' = RecordOf(q, reported[q])
    BY <1>0, <1>4 DEF FinishOnDrop, Holds, Answered, RecordOf, choiceVars
  <2> QED BY <1>0, <2>1, <2>2, ConcludingStep
<1>5. ASSUME NEW r \in Requests,
             MirrorAnswers(r) \/ MirrorUsage(r) \/ MirrorUsageSplit(r)
             \/ \E err \in BOOLEAN : RecordMirror(r, err)
      PROVE  Complete'
  <2>1. UNCHANGED evidenceVars /\ UNCHANGED requestVars
    BY <1>5 DEF MirrorAnswers, MirrorUsage, MirrorUsageSplit, RecordMirror
  <2> QED BY <1>0, <2>1, QuietStep DEF requestVars, choiceVars, Answered, RecordOf
<1> QED BY <1>1, <1>2, <1>3, <1>4, <1>5 DEF Next, vars, RequestNext, Progress, MirrorProgress

\* What is accounted for is counted once.
LEMMA AccountedIsOne ==
    ASSUME \A r \in Requests : Accounted(r)
    PROVE  ExactlyOneRecord
<1> SUFFICES ASSUME NEW r \in Requests
             PROVE  LET mine == {i \in DOMAIN recordLog : recordLog[i].req = r}
                        kept == {i \in DOMAIN captured : captured[i] = r}
                    IN IF Answered(r)
                       THEN /\ Cardinality(mine) = 1
                            /\ \A i \in mine : recordLog[i] = RecordOf(r, reported[r])
                            /\ Cardinality(kept) = IF Capturing THEN 1 ELSE 0
                       ELSE mine = {} /\ kept = {}
  BY DEF ExactlyOneRecord, Answered
<1> DEFINE mine == {i \in DOMAIN recordLog : recordLog[i].req = r}
           kept == {i \in DOMAIN captured : captured[i] = r}
<1> SUFFICES IF Answered(r)
             THEN /\ Cardinality(mine) = 1
                  /\ \A i \in mine : recordLog[i] = RecordOf(r, reported[r])
                  /\ Cardinality(kept) = IF Capturing THEN 1 ELSE 0
             ELSE mine = {} /\ kept = {}
  OBVIOUS
<1>1. CASE ~Answered(r)
  BY <1>1 DEF Accounted, Unrecorded, Uncaptured
<1>2. CASE Answered(r)
  <2>1. PICK i \in DOMAIN recordLog : /\ recordLog[i] = RecordOf(r, reported[r])
                                      /\ \A j \in DOMAIN recordLog : recordLog[j].req = r => j = i
    BY <1>2 DEF Accounted, RecordKept
  <2>2. mine = {i} /\ recordLog[i] = RecordOf(r, reported[r])
    BY <2>1 DEF RecordOf
  <2>3. Cardinality(mine) = 1
    <3> HIDE DEF mine
    <3> QED BY <2>2, FS_Singleton
  <2>4. Cardinality(kept) = IF Capturing THEN 1 ELSE 0
    <3>1. CASE Capturing
      <4>1. PICK k \in DOMAIN captured : /\ captured[k] = r
                                         /\ \A j \in DOMAIN captured : captured[j] = r => j = k
        BY <1>2, <3>1 DEF Accounted, CapturedOnce
      <4>2. kept = {k}
        BY <4>1
      <4> HIDE DEF kept
      <4> QED BY <3>1, <4>2, FS_Singleton
    <3>2. CASE ~Capturing
      <4>1. kept = {}
        BY <1>2, <3>2 DEF Accounted, Uncaptured
      <4> HIDE DEF kept
      <4> QED BY <3>2, <4>1, FS_EmptySet
    <3> QED BY <3>1, <3>2
  <2>5. \A j \in mine : recordLog[j] = RecordOf(r, reported[r])
    BY <2>2
  <2> HIDE DEF mine, kept
  <2> QED BY <1>2, <2>3, <2>4, <2>5
<1> HIDE DEF mine, kept
<1> QED BY <1>1, <1>2

\* "Every request that crosses the gateway is metered" (meter.rs), as far as it
\* was answered: whatever requests, failovers, disconnects and mirrors do to
\* each other, what the control plane can read of live traffic is all of it,
\* once, up to the cap.
THEOREM EveryAnswerRecorded == Spec => []RecordsComplete
<1>1. Init => Complete
  BY CompleteInit
<1>2. Complete /\ [Next]_vars => Complete'
  BY CompleteStep
<1>3. Complete => RecordsComplete
  <2>1. ASSUME Complete PROVE NewestRetained
    BY <2>1 DEF Complete, EndOf, NewestRetained
  <2> QED BY <2>1, TypedIsTypeOK, AccountedIsOne DEF Complete, RecordsComplete
<1> QED BY <1>1, <1>2, <1>3, PTL DEF Spec

-----------------------------------------------------------------------------
(* Metering: every step of the gateway is one of Metering's, or none.       *)

\* The requests that are over, and what each was answered.
Ended == {r \in Requests : at[r] \in Finished}
Account == [r \in Requests |-> IF Answered(r) THEN {RecordOf(r, reported[r])} ELSE {}]

\* The end of a log is what Metering says can be read of it.
LEMMA EndIsNewest ==
    ASSUME NEW S, NEW q \in Seq(S), NEW l \in Seq(S), EndOf(q, l)
    PROVE  q = Meter!Newest(l)
<1> DEFINE first == IF Len(l) <= MaxRecords THEN 1 ELSE Len(l) - MaxRecords + 1
           end == SubSeq(l, first, Len(l))
<1>1. Len(l) \in Nat /\ Len(q) \in Nat /\ MaxRecords \in Nat
  BY MaxRecordsAssumption
<1>2. /\ Len(q) = Len(l) - first + 1 /\ first \in Nat /\ first >= 1
      /\ \A i \in 1..Len(q) : q[i] = l[Len(l) - Len(q) + i]
  <2>1. Len(q) = IF Len(l) <= MaxRecords THEN Len(l) ELSE MaxRecords
    BY DEF EndOf
  <2>2. Len(q) = Len(l) - first + 1 /\ first \in Nat /\ first >= 1
    BY <1>1, <2>1
  <2>3. \A i \in 1..Len(q) : q[i] = l[Len(l) - Len(q) + i]
    BY SuffixElements DEF EndOf
  <2> QED BY <2>2, <2>3
<1> HIDE DEF first
<1>3. /\ end \in Seq(S) /\ Len(end) = Len(q)
      /\ \A i \in 1..Len(q) : end[i] = l[first + i - 1]
  BY <1>1, <1>2
<1>4. \A i \in 1..Len(q) : q[i] = end[i]
  <2> SUFFICES ASSUME NEW i \in 1..Len(q) PROVE q[i] = end[i]
    OBVIOUS
  <2>1. Len(l) - Len(q) + i = first + i - 1
    BY <1>1, <1>2
  <2> HIDE DEF end
  <2> QED BY <1>2, <1>3, <2>1
<1>5. Meter!Newest(l) = end
  BY DEF Meter!Newest, first
<1> HIDE DEF end
<1> QED BY <1>3, <1>4, <1>5, SeqEqual

\* A step that leaves what was answered, and to whom, as it is.
LEMMA NothingEnds ==
    ASSUME UNCHANGED evidenceVars, Ended' = Ended, Account' = Account
    PROVE  UNCHANGED Meter!meterVars
BY DEF Meter!meterVars, Ended, Account, Answered, evidenceVars

\* A request ends unanswered.
LEMMA EndsUnanswered ==
    ASSUME NEW r \in Requests, r \notin Ended, Ended' = Ended \cup {r},
           Account' = Account, UNCHANGED evidenceVars
    PROVE  Meter!Next
<1>1. Meter!End(r)
  BY DEF Meter!End, Ended
<1>2. Meter!NoAnswer
  BY DEF Meter!NoAnswer, Account, Answered, evidenceVars
<1> QED BY <1>1, <1>2 DEF Meter!Next

\* A request ends with an answer, and is concluded in the same step.
LEMMA EndsAnswered ==
    ASSUME Typed, Complete', NEW r \in Requests, at[r] \in {"body", "stream"},
           NEW usage \in BOOLEAN, Conclude(r, usage), Ended' = Ended \cup {r},
           Account' = [Account EXCEPT ![r] = {RecordOf(r, usage)}]
    PROVE  Meter!Next
<1>1. PICK record \in Record : record = RecordOf(r, usage) /\ record.req = r
  BY RecordOfType
<1>2. Meter!End(r)
  <2>1. r \notin Ended
    BY DEF Ended, Finished
  <2> QED BY <2>1 DEF Meter!End, Ended
<1>3. Meter!Answer(r, record)
  <2>1. /\ recordLog' = Append(recordLog, record)
        /\ captured' = IF Capturing THEN Append(captured, r) ELSE captured
    BY <1>1 DEF Conclude
  <2>2. records' = Meter!Newest(recordLog')
    BY EndIsNewest DEF Complete, Typed, Holds
  <2>3. Account' = [Account EXCEPT ![r] = {record}]
    BY <1>1
  <2> QED BY <1>1, <2>1, <2>2, <2>3 DEF Meter!Answer, Account, Answered
<1> QED BY <1>2, <1>3 DEF Meter!Next

\* Every step of a handler, a mirror or the control surface is one of these.
LEMMA StepMeters ==
    ASSUME Complete, Complete', [Next]_vars
    PROVE  [Meter!Next]_Meter!meterVars
<1>0. Typed /\ Holds
  BY DEF Complete, Typed
<1>1. CASE UNCHANGED gatewayVars
  <2>1. UNCHANGED evidenceVars /\ Ended' = Ended /\ Account' = Account
    BY <1>1 DEF gatewayVars, requestVars, choiceVars, Ended, Account, Answered, RecordOf
  <2> QED BY <2>1, NothingEnds
<1>2. ASSUME NEW r \in Requests,
             Start(r) \/ UpstreamAnswers(r) \/ FailOver(r) \/ StreamUsage(r)
      PROVE  UNCHANGED Meter!meterVars
  <2>1. UNCHANGED evidenceVars
    BY <1>2 DEF Start, UpstreamAnswers, FailOver, StreamUsage
  <2>2. /\ at[r] \notin Finished /\ at'[r] \notin Finished
        /\ \A q \in Requests \ {r} : /\ at'[q] = at[q]
                                     /\ RecordOf(q, reported[q])' = RecordOf(q, reported[q])
    BY <1>0, <1>2 DEF Start, UpstreamAnswers, FailOver, StreamUsage, Holds, RecordOf, Waiting,
                      Finished, Typed, Approved, Chosen, choiceVars
  <2>3. Ended' = Ended
    BY <2>2 DEF Ended
  <2>4. Account' = Account
    BY <2>2 DEF Account, Answered, Finished
  <2> QED BY <2>1, <2>3, <2>4, NothingEnds
<1>3. ASSUME NEW r \in Requests,
             BadRequest(r) \/ UpstreamUnreachable(r) \/ BodyFails(r) \/ ClientGone(r)
      PROVE  Meter!Next
  <2>1. UNCHANGED evidenceVars
    BY <1>3 DEF BadRequest, UpstreamUnreachable, BodyFails, ClientGone
  <2>2. /\ at[r] \notin Finished /\ at'[r] \in Finished /\ ~Answered(r)'
        /\ \A q \in Requests \ {r} : at'[q] = at[q]
        /\ \A q \in Requests : RecordOf(q, reported[q])' = RecordOf(q, reported[q])
    BY <1>0, <1>3 DEF BadRequest, UpstreamUnreachable, BodyFails, ClientGone, Holds, RecordOf,
                      Waiting, Finished, Answered, choiceVars
  <2>3. r \notin Ended /\ Ended' = Ended \cup {r}
    BY <2>2 DEF Ended
  <2>4. Account' = Account
    BY <2>2 DEF Account, Answered, Finished
  <2> QED BY <2>1, <2>3, <2>4, EndsUnanswered
<1>4. ASSUME NEW r \in Requests, NEW usage \in BOOLEAN, Conclude(r, usage),
             at[r] \in {"body", "stream"}, Answered(r)',
             RecordOf(r, usage) = RecordOf(r, reported[r])',
             \A q \in Requests \ {r} :
                at'[q] = at[q] /\ RecordOf(q, reported[q])' = RecordOf(q, reported[q])
      PROVE  Meter!Next
  <2>1. Ended' = Ended \cup {r}
    BY <1>4 DEF Ended, Answered, Finished
  <2>2. Account' = [Account EXCEPT ![r] = {RecordOf(r, usage)}]
    BY <1>4 DEF Account, Answered
  <2> QED BY <1>0, <1>4, <2>1, <2>2, EndsAnswered
<1>5. ASSUME NEW r \in Requests, AnswerBody(r)
      PROVE  Meter!Next
  <2>1. PICK usage \in BOOLEAN : /\ reported' = [reported EXCEPT ![r] = usage]
                                 /\ Conclude(r, usage)
    BY <1>5 DEF AnswerBody
  <2>2. /\ Answered(r)' /\ RecordOf(r, usage) = RecordOf(r, reported[r])'
        /\ at[r] \in {"body", "stream"}
        /\ \A q \in Requests \ {r} :
              at'[q] = at[q] /\ RecordOf(q, reported[q])' = RecordOf(q, reported[q])
    BY <1>0, <1>5, <2>1 DEF AnswerBody, Holds, Answered, RecordOf, choiceVars
  <2> QED BY <1>4, <2>1, <2>2
<1>6. ASSUME NEW r \in Requests, NEW end \in {"done", "cut"}, FinishOnDrop(r, end)
      PROVE  Meter!Next
  <2>1. reported[r] \in BOOLEAN /\ Conclude(r, reported[r])
    BY <1>0, <1>6 DEF FinishOnDrop, Holds
  <2>2. /\ Answered(r)' /\ RecordOf(r, reported[r]) = RecordOf(r, reported[r])'
        /\ at[r] \in {"body", "stream"}
        /\ \A q \in Requests \ {r} :
              at'[q] = at[q] /\ RecordOf(q, reported[q])' = RecordOf(q, reported[q])
    BY <1>0, <1>6 DEF FinishOnDrop, Holds, Answered, RecordOf, choiceVars
  <2> QED BY <1>4, <2>1, <2>2
<1>7. ASSUME NEW r \in Requests,
             MirrorAnswers(r) \/ MirrorUsage(r) \/ MirrorUsageSplit(r)
             \/ \E err \in BOOLEAN : RecordMirror(r, err)
      PROVE  UNCHANGED Meter!meterVars
  <2>1. UNCHANGED evidenceVars /\ UNCHANGED requestVars
    BY <1>7 DEF MirrorAnswers, MirrorUsage, MirrorUsageSplit, RecordMirror
  <2>2. Ended' = Ended /\ Account' = Account
    BY <2>1 DEF requestVars, choiceVars, Ended, Account, Answered, RecordOf
  <2> QED BY <2>1, <2>2, NothingEnds
<1> QED BY <1>1, <1>2, <1>3, <1>5, <1>6, <1>7
        DEF Next, vars, RequestNext, Progress, MirrorProgress

\* The gateway implements Metering: the step that ends an answer, or drops its
\* stream, writes its one account, which stands for good, and the control plane
\* reads the end of all that was written, whatever requests, failovers,
\* disconnects, mirrors and phase changes do to each other (finish, proxy.rs).
THEOREM GatewayMeters == Spec => AnswersMetered
<1>1. Init => Complete
  BY CompleteInit
<1>2. Complete /\ [Next]_vars => Complete'
  BY CompleteStep
<1>3. Init => Meter!Init
  <2> SUFFICES ASSUME Init PROVE Meter!Init
    OBVIOUS
  <2>1. Ended = {} /\ Account = [r \in Requests |-> {}]
    BY DEF Init, GatewayInit, Ended, Account, Answered, Finished
  <2>2. recordLog = <<>> /\ records = <<>> /\ captured = <<>>
    BY DEF Init, GatewayInit
  <2> QED BY <2>1, <2>2 DEF Meter!Init, Ended, Account, Answered
<1>4. Complete /\ Complete' /\ [Next]_vars => [Meter!Next]_Meter!meterVars
  BY StepMeters
<1> QED BY <1>1, <1>2, <1>3, <1>4, PTL DEF Spec, AnswersMetered, Meter!Spec
=============================================================================
