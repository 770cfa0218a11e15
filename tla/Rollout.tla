------------------------------ MODULE Rollout ------------------------------
(***************************************************************************)
(* A migration moving along the ladder under the gate: suites are rerun,    *)
(* health is observed, clusters are pinned to the incumbent, judges are     *)
(* measured; the gate's rollback is applied as it is, its advance by a      *)
(* human.  Who applies them is outside the repository (gate.py: a rollback  *)
(* "may be applied automatically; ADVANCE is a proposal for a human").      *)
(***************************************************************************)
EXTENDS Gate

CONSTANTS Evidence,      \* the readings a suite may give for a cluster
          HealthSignals  \* what may be observed of the candidate's traffic

ASSUME EvidenceAssumption == Evidence \subseteq Reading

VARIABLES readings,    \* the latest reading of every scored cluster
          health,      \* the latest operational signals, or Nothing
          agreementOk, \* the judge, if sampled by a human, is trustworthy
          calibrated,  \* the judge was measured against the graders
          pinned,      \* clusters routed to the incumbent for good
          stage        \* the rung the migration stands on

rolloutVars == <<readings, health, agreementOk, calibrated, pinned, stage>>

RolloutTypeOK ==
    /\ \E S \in SUBSET Names : readings \in [S -> Evidence]
    /\ health \in HealthSignals \cup {Nothing}
    /\ agreementOk \in BOOLEAN /\ calibrated \in BOOLEAN
    /\ pinned \in SUBSET Names
    /\ stage \in {Ladder[i] : i \in DOMAIN Ladder}

RolloutInit ==
    /\ readings = <<>>
    /\ health = Nothing
    /\ agreementOk \in BOOLEAN /\ calibrated \in BOOLEAN
    /\ pinned = {}
    /\ stage = Ladder[1]

Decision == Decide(readings, stage, health, agreementOk, pinned, calibrated)

\* A suite scores one more cluster, or the same cluster again.
Score(c, e) ==
    /\ readings' = [d \in DOMAIN readings \cup {c} |-> IF d = c THEN e ELSE readings[d]]
    /\ UNCHANGED <<health, agreementOk, calibrated, pinned, stage>>
Observe(h) ==
    /\ health' = h
    /\ UNCHANGED <<readings, agreementOk, calibrated, pinned, stage>>
Pin(c) ==
    /\ pinned' = pinned \cup {c}
    /\ UNCHANGED <<readings, health, agreementOk, calibrated, stage>>
\* The candidate leaves live traffic: there is nothing to observe any more.
ApplyRollback ==
    /\ Decision.action = "roll_back"
    /\ stage' = Ladder[1]
    /\ health' = Nothing
    /\ UNCHANGED <<readings, agreementOk, calibrated, pinned>>
HumanAdvances ==
    /\ Decision.action = "advance"
    /\ stage' = Decision.to
    /\ UNCHANGED <<readings, health, agreementOk, calibrated, pinned>>

RolloutNext ==
    \/ \E c \in Names, e \in Evidence : Score(c, e)
    \/ \E h \in HealthSignals : Observe(h)
    \/ \E c \in Names : Pin(c)
    \/ ApplyRollback \/ HumanAdvances

\* Scoring rests in the operator's hands; a rollback is applied when due.
RolloutSpec == RolloutInit /\ [][RolloutNext]_rolloutVars
-----------------------------------------------------------------------------
(* Properties *)

\* "Underpowered never advances", "a judge alone never moves traffic",
\* "an empty evidence set is the one input it must never read as yes": when
\* the rung goes up, it goes up by one, on the word of at least one cluster,
\* every cluster that moves is proven by graders, and traffic that is already
\* live has been seen to be healthy.
AdvanceIsProven ==
    [][stage'.percent > stage.percent =>
        LET moving == DOMAIN readings \ pinned IN
        /\ \E i \in 1..4 : stage = Ladder[i] /\ stage' = Ladder[i + 1]
        /\ moving # {}
        /\ \A c \in moving : /\ ClearlyAbove(readings[c])
                             /\ readings[c].total >= MinSamplesForConfidence
                             /\ ~readings[c].judge_only
        /\ Live(stage) => health # Nothing /\ Measured(health) /\ ~HealthFailure(health)]_rolloutVars

\* "An unmeasured instrument does not get to stop a migration": a rollback that
\* is not about health rests on a grader, or on a judge that was calibrated.
RollbackIsMeasured ==
    Decision.action = "roll_back" =>
        \/ health # Nothing /\ HealthFailure(health)
        \/ calibrated
        \/ \E c \in Decision.clusters : ~readings[c].judge_only

\* "A pinned cluster cannot regress what it does not serve": evidence about
\* pinned clusters changes nothing of what the gate decides.
PinnedHaveNoSay ==
    LET rest == [c \in DOMAIN readings \ pinned |-> readings[c]]
        without == Decide(rest, stage, health, agreementOk, {}, calibrated)
    IN /\ Decision.action = without.action
       /\ Decision.to = without.to
       /\ Decision.precautionary = without.precautionary

\* On live traffic a graders' proof of regression, or a failing candidate, is
\* answered by a rollback, whatever else the readings say.
ProvenRegressionRollsBack ==
    /\ Live(stage)
    /\ \/ \E c \in DOMAIN readings \ pinned :
              ProvenRegression(readings[c]) /\ ~readings[c].judge_only
       \/ health # Nothing /\ HealthFailure(health)
    => Decision.action = "roll_back"

\* The rollbacks that must happen and those that must not (gate.py's decide).
RollbackSound ==
    RolloutTypeOK /\ RollbackIsMeasured /\ PinnedHaveNoSay /\ ProvenRegressionRollsBack
=============================================================================
