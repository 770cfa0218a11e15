------------------------------ MODULE Control ------------------------------
(***************************************************************************)
(* The control surface (onpar-gateway/src/control.rs): POST /control/phase  *)
(* handlers run concurrently on the runtime's threads.  A handler takes the *)
(* router's write lock, reads the phase it replaces, then either refuses or *)
(* writes and releases the lock, and only after that appends to the history *)
(* (AppState::record_transition), which has a mutex of its own.             *)
(***************************************************************************)
EXTENDS Routing, Sequences

CONSTANTS Incumbent, Candidate, \* the two upstreams of the command line
          Handlers,        \* phase-change requests, each served once
          Changes,         \* the phase changes callers may send
          StartPercents,   \* the --percent values the command line may carry
          TokenConfigured, \* ONPAR_ADMIN_TOKEN was set at start-up
          Unlocked         \* nobody holds the router's write lock

ASSUME BackendAssumption == {Incumbent, Candidate} \subseteq Backends
ASSUME StartAssumption == StartPercents \subseteq U8
ASSUME TokenAssumption == TokenConfigured \in BOOLEAN
ASSUME UnlockedAssumption == Unlocked \notin Handlers

VARIABLES router,      \* AppState::router
          writer,      \* holder of its write lock
          pc,          \* where each handler is, or the reply it gave
          change,      \* the PhaseChange each handler was sent
          from,        \* the phase each handler read under the lock
          transitions, \* AppState::transitions: the recorded history
          applied      \* observation: the changes in the order they took effect

controlVars == <<router, writer, pc, change, from, transitions, applied>>

\* What callers send.  `confirmed` is the claim that a human agreed; `blank`
\* is a reason that trims to nothing; `token` is the bearer token presented.
PhaseChange == [cluster : Targets, phase : Phase, confirmed : BOOLEAN,
                blank : BOOLEAN, token : {"right", "wrong"}]
ASSUME ChangesAssumption == Changes \subseteq PhaseChange
NotSent == [cluster |-> DefaultRoute, phase |-> Off, confirmed |-> FALSE,
            blank |-> FALSE, token |-> "wrong"]

\* The record kept of an applied change.  The reason text is free-form; the
\* handler's identity stands for it.
Transition == [cluster : Targets, from : Phase, to : Phase, from_percent : 0..100,
               to_percent : 0..100, reason : Handlers, confirmed : BOOLEAN]
TransitionOf(h) ==
    [cluster |-> change[h].cluster, from |-> from[h], to |-> change[h].phase,
     from_percent |-> CandidatePercent(from[h]),
     to_percent |-> CandidatePercent(change[h].phase),
     reason |-> h, confirmed |-> change[h].confirmed]

PC == {"unsent", "wait_lock", "locked", "record"} \cup
      {"ok", "unauthorised", "no_reason", "unconfirmed"}

ControlTypeOK ==
    /\ router \in Router
    /\ writer \in Handlers \cup {Unlocked}
    /\ pc \in [Handlers -> PC]
    /\ change \in [Handlers -> PhaseChange]
    /\ from \in [Handlers -> Phase]
    /\ transitions \in Seq(Transition)
    /\ applied \in Seq(Transition)
-----------------------------------------------------------------------------
\* Start-up (main.rs): the command line never moves traffic by itself.
StartAnyPercent(hasCandidate, percent) == percent <= 100 /\ (percent > 0 => hasCandidate)
StartAccepted(hasCandidate, percent) ==
    /\ percent <= 100
    /\ percent > 0 => hasCandidate
    /\ ~(percent > 0)
PhaseFor(hasCandidate, percent) ==
    CASE ~hasCandidate -> Off
      [] hasCandidate /\ percent = 0 -> Shadow
      [] hasCandidate /\ percent = 100 -> Cut
      [] OTHER -> Canary(percent)

\* Without a candidate, the candidate backend is the incumbent again.  The
\* binary never turns failover on; a program embedding the router may.
ControlInit ==
    /\ \E hasCandidate \in BOOLEAN, percent \in StartPercents \cup {0}, f \in BOOLEAN :
         /\ StartAccepted(hasCandidate, percent)
         /\ router = NewRouter([incumbent |-> Incumbent,
                                candidate |-> IF hasCandidate THEN Candidate ELSE Incumbent,
                                phase |-> PhaseFor(hasCandidate, percent),
                                failover |-> f])
    /\ writer = Unlocked
    /\ pc = [h \in Handlers |-> "unsent"]
    /\ change = [h \in Handlers |-> NotSent]
    /\ from = [h \in Handlers |-> Off]
    /\ transitions = <<>>
    /\ applied = <<>>

Authorised(ch) == TokenConfigured => ch.token = "right"

\* The handler starts; the checks before the lock are on the request alone.
Receive(h) ==
    /\ pc[h] = "unsent"
    /\ \E ch \in Changes :
         \/ /\ ~Authorised(ch)
            /\ pc' = [pc EXCEPT ![h] = "unauthorised"]
            /\ UNCHANGED change
         \/ /\ Authorised(ch) /\ ch.blank
            /\ pc' = [pc EXCEPT ![h] = "no_reason"]
            /\ UNCHANGED change
         \/ /\ Authorised(ch) /\ ~ch.blank
            /\ pc' = [pc EXCEPT ![h] = "wait_lock"]
            /\ change' = [change EXCEPT ![h] = ch]
    /\ UNCHANGED <<router, writer, from, transitions, applied>>

\* Take the write lock and read the phase that is to be replaced.
LockAndRead(h) ==
    /\ pc[h] = "wait_lock"
    /\ writer = Unlocked
    /\ writer' = h
    /\ from' = [from EXCEPT ![h] = RouteFor(router, change[h].cluster).phase]
    /\ pc' = [pc EXCEPT ![h] = "locked"]
    /\ UNCHANGED <<router, change, transitions, applied>>

Escalates(h) ==
    CandidatePercent(change[h].phase) > CandidatePercent(from[h])

\* Variant: the refusal's early return leaves the lock taken.
RefuseHoldingLock(h) ==
    /\ pc[h] = "locked"
    /\ Escalates(h) /\ ~change[h].confirmed
    /\ pc' = [pc EXCEPT ![h] = "unconfirmed"]
    /\ UNCHANGED <<router, writer, change, from, transitions, applied>>
RefuseEscalation(h) ==
    /\ pc[h] = "locked"
    /\ Escalates(h) /\ ~change[h].confirmed
    /\ pc' = [pc EXCEPT ![h] = "unconfirmed"]
    /\ writer' = Unlocked
    /\ UNCHANGED <<router, change, from, transitions, applied>>

\* Write the new phase and drop the lock.
Apply(h) ==
    /\ pc[h] = "locked"
    /\ ~(Escalates(h) /\ ~change[h].confirmed)
    /\ router' = SetPhase(router, change[h].cluster, change[h].phase)
    /\ writer' = Unlocked
    /\ applied' = Append(applied, TransitionOf(h))
    /\ pc' = [pc EXCEPT ![h] = "record"]
    /\ UNCHANGED <<change, from, transitions>>

\* Variant: keeps only the changes that raise the candidate's share.
RecordEscalation(h) ==
    /\ pc[h] = "record"
    /\ transitions' = IF Escalates(h) THEN Append(transitions, TransitionOf(h))
                                      ELSE transitions
    /\ pc' = [pc EXCEPT ![h] = "ok"]
    /\ UNCHANGED <<router, writer, change, from, applied>>
\* AppState::record_transition, after the router's lock was dropped.
RecordTransition(h) ==
    /\ pc[h] = "record"
    /\ transitions' = Append(transitions, TransitionOf(h))
    /\ pc' = [pc EXCEPT ![h] = "ok"]
    /\ UNCHANGED <<router, writer, change, from, applied>>

Serve1(h) == \/ LockAndRead(h) \/ RefuseEscalation(h) \/ Apply(h) \/ RecordTransition(h)

ControlNext == \E h \in Handlers : Receive(h) \/ Serve1(h)

\* A started handler has no await point left, so its thread runs it to the end.
ControlFairness == \A h \in Handlers : WF_controlVars(Serve1(h))

ControlSpec == ControlInit /\ [][ControlNext]_controlVars /\ ControlFairness
-----------------------------------------------------------------------------
(* Properties *)

\* Candidate traffic needs a human (control.rs: an escalation is "refused
\* unless the request says a human confirmed it"; main.rs: "Startup may not
\* move traffic").  Whatever the interleaving of handlers, whatever the start
\* flags, a share of traffic now on the candidate was at some point confirmed
\* at that height or above.
CandidateShareApproved ==
    \A t \in Targets : Share(router, t) > 0 =>
        \E i \in DOMAIN applied : /\ applied[i].confirmed
                                  /\ applied[i].to_percent >= Share(router, t)

\* A step that raises any target's share, one that inherits the default route
\* included, is the write of a handler whose caller claimed confirmation.
EscalationStepsConfirmed ==
    [][\A t \in Targets : Share(router', t) > Share(router, t) =>
          \E h \in Handlers : /\ pc[h] = "locked" /\ pc'[h] = "record"
                              /\ change[h].confirmed]_controlVars

\* "Moving a single cluster must never silently move everything else with it"
\* (router.rs): a route changes only by a change that names it, or by one of
\* the default route while it still inherits that route; and then only its
\* phase changes.
ClustersMoveAlone ==
    [][\A t \in Targets : RouteFor(router', t) # RouteFor(router, t) =>
          /\ [RouteFor(router', t) EXCEPT !.phase = Off]
                = [RouteFor(router, t) EXCEPT !.phase = Off]
          /\ \E h \in Handlers :
               /\ pc[h] = "locked" /\ pc'[h] = "record"
               /\ change[h].phase = RouteFor(router', t).phase
               /\ \/ change[h].cluster = t
                  \/ /\ change[h].cluster = DefaultRoute
                     /\ RouteFor(router, t) = router.default]_controlVars

\* "A retry of the same request lands on the same backend" (router.rs), unless
\* the rollout went back in between: whatever change of phase a step makes, it
\* takes no key off the candidate unless it lowers the share of the target.
BucketsSticky ==
    [][\A t \in Targets, k \in Keys :
          /\ Share(router', t) >= Share(router, t)
          /\ Decide(router, t, k).serve = RouteFor(router, t).candidate
          => Decide(router', t, k).serve = RouteFor(router', t).candidate]_controlVars

\* The lock is held "across the read-compare-write so two concurrent changes
\* cannot both observe the old percent": between two consecutive changes of a
\* target, the later one replaced what the earlier one wrote.
ChangesChain ==
    \A i, j \in DOMAIN applied :
        /\ i < j
        /\ applied[i].cluster = applied[j].cluster
        /\ \A k \in (i+1)..(j-1) : applied[k].cluster # applied[i].cluster
        => applied[j].from = applied[i].to

\* The history has every change that took effect, and no other, exactly once,
\* as soon as its handler has replied.
HistoryComplete ==
    /\ \A i \in DOMAIN transitions : \E j \in DOMAIN applied : transitions[i] = applied[j]
    /\ \A i, j \in DOMAIN transitions :
          transitions[i].reason = transitions[j].reason => i = j
    /\ \A j \in DOMAIN applied :
          \/ pc[applied[j].reason] = "record"
          \/ \E i \in DOMAIN transitions : transitions[i] = applied[j]

\* Every change that passes the first checks is refused for want of
\* confirmation or ends up in the history: no handler waits for ever.
ChangeSettles ==
    \A h \in Handlers : pc[h] = "wait_lock" ~>
        \/ pc[h] = "unconfirmed"
        \/ \E i \in DOMAIN transitions : transitions[i].reason = h
=============================================================================
