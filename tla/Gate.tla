-------------------------------- MODULE Gate --------------------------------
(***************************************************************************)
(* The quality gate (src/onpar/prove/gate.py): what the evidence about a    *)
(* candidate permits at the rung of the ladder a migration stands on.       *)
(* Pure definitions; Rollout holds the state the gate is asked about.       *)
(*                                                                          *)
(* A proportion is kept as its counts, and the bar as a fraction, which     *)
(* every float is.  "The whole Wilson interval is on one side of the bar"   *)
(* is the score test: the distance to the bar, squared, exceeds z^2 times   *)
(* the variance at the bar (z^2 = 3.8415, here times 10000), so no root is  *)
(* needed.                                                                  *)
(***************************************************************************)
EXTENDS Integers, Sequences, FiniteSets

CONSTANTS Names,      \* clusters of the workload
          Bar         \* the equivalence bar, a fraction <<n, d>>

\* Any bar between 0 and 1, both excluded; check_bar refuses every other.
ASSUME BarAssumption == Bar \in Int \X Int /\ 0 < Bar[1] /\ Bar[1] < Bar[2]

MinSamplesForConfidence == 8
MinHealthSamples == 20
PrecautionMinSamples == 12
ZSquared == 38415

Nothing == [none |-> TRUE]   \* Python's None, for the optional arguments

\* One cluster's evidence: how many items passed, and whether every score is
\* the judge's own.
Reading == [passed : Nat, total : Nat, judge_only : BOOLEAN]

Distance(r) == Bar[2] * r.passed - Bar[1] * r.total
Conclusive(r) ==
    10000 * Distance(r) * Distance(r)
        > ZSquared * r.total * Bar[1] * (Bar[2] - Bar[1])
ClearlyAbove(r) == Distance(r) > 0 /\ Conclusive(r)
ClearlyBelow(r) == Distance(r) < 0 /\ Conclusive(r)
Underpowered(r) == r.total < MinSamplesForConfidence

ProvenRegression(r) == r.total > 0 /\ ClearlyBelow(r)
\* More than a tenth below the bar, over enough items.
SuspectedRegression(r) ==
    /\ r.total >= PrecautionMinSamples
    /\ 10 * Bar[2] * r.passed < (10 * Bar[1] - Bar[2]) * r.total
SupportsAdvance(r) ==
    r.total > 0 /\ ~Underpowered(r) /\ ClearlyAbove(r) /\ ~r.judge_only

\* The promotion ladder.
Stage(phase, percent) == [phase |-> phase, percent |-> percent]
Ladder == <<Stage("shadow", 0), Stage("canary", 5), Stage("canary", 25),
            Stage("canary", 50), Stage("cut", 100)>>
Live(stage) == stage.percent > 0
\* Nothing above the top rung, nor above a stage that is no rung.
HasNext(stage) == \E i \in 1..(Len(Ladder) - 1) : Ladder[i] = stage
NextStage(stage) == Ladder[1 + CHOOSE i \in 1..(Len(Ladder) - 1) : Ladder[i] = stage]

\* Operational signals.  A count of 0 baseline requests, or a latency of 0,
\* is one that was not observed.
Measured(h) == h.requests >= MinHealthSamples
\* error rate > baseline error rate + 0.02, both as fractions
ErrorsExceedMargin(h) ==
    IF h.baseline_requests = 0 THEN 50 * h.errors > h.requests
    ELSE 50 * (h.errors * h.baseline_requests - h.baseline_errors * h.requests)
            > h.requests * h.baseline_requests
TooSlow(h) ==
    /\ h.baseline_p95_ms > 0 /\ h.candidate_p95_ms > 0
    /\ h.candidate_p95_ms > 2 * h.baseline_p95_ms
HealthFailure(h) == Measured(h) /\ (ErrorsExceedMargin(h) \/ TooSlow(h))

\* Variant: one opinion among the triggers vetoes them all.
UncalibratedVetoAny(readings, triggers, calibrated) ==
    ~calibrated /\ \E c \in triggers : readings[c].judge_only
\* A rollback that only an unmeasured judge asks for must not fire.
UncalibratedVeto(readings, triggers, calibrated) ==
    ~calibrated /\ \A c \in triggers : readings[c].judge_only

Hold(clusters) == [action |-> "hold", clusters |-> clusters, to |-> Nothing,
                   precautionary |-> FALSE]
RollBack(clusters, precautionary) ==
    [action |-> "roll_back", clusters |-> clusters, to |-> Nothing,
     precautionary |-> precautionary]
Advance(clusters, to) == [action |-> "advance", clusters |-> clusters, to |-> to,
                          precautionary |-> FALSE]

\* _advance_blocked: why an advance cannot proceed, as the clusters named; the
\* first four reasons are tried in this order and block whoever they name.
\* Variant: signals that nobody passed are taken for healthy.
HealthBlocksIfThin(stage, health) ==
    Live(stage) /\ health # Nothing /\ ~Measured(health)
HealthBlocks(stage, health) ==
    Live(stage) /\ (health = Nothing \/ ~Measured(health))
Unknown(readings, live) == {c \in live : readings[c].total = 0}
Thin(readings, live) == {c \in live : Underpowered(readings[c])}
\* A judge-only cluster that is clearly below the bar is named with the others.
Judged(readings, live) ==
    IF \E c \in live : readings[c].judge_only /\ ~ClearlyBelow(readings[c])
    THEN {c \in live : readings[c].judge_only} ELSE {}
Unproven(readings, live) == {c \in live : ~SupportsAdvance(readings[c])}
BlockedBy(readings, live) ==
    IF Unknown(readings, live) # {} THEN Unknown(readings, live)
    ELSE IF Thin(readings, live) # {} THEN Thin(readings, live)
    ELSE IF Judged(readings, live) # {} THEN Judged(readings, live)
    ELSE Unproven(readings, live)

\* Steps 4 and on of decide: nothing is wrong; is anything proven enough?
\* Variant: guards on the readings, not on the ones that are judged.
ProposeOnReadings(readings, live, stage, health, agreementOk) ==
    IF DOMAIN readings = {} \/ ~HasNext(stage) THEN Hold({})
    ELSE IF HealthBlocks(stage, health) \/ ~agreementOk THEN Hold({})
    ELSE IF BlockedBy(readings, live) # {} THEN Hold(BlockedBy(readings, live))
    ELSE Advance(live, NextStage(stage))
Propose(readings, live, stage, health, agreementOk) ==
    IF DOMAIN readings = {} THEN Hold({})
    ELSE IF live = {} THEN Hold(DOMAIN readings)
    ELSE IF ~HasNext(stage) THEN Hold({})
    ELSE IF HealthBlocks(stage, health) \/ ~agreementOk THEN Hold({})
    ELSE IF BlockedBy(readings, live) # {} THEN Hold(BlockedBy(readings, live))
    ELSE Advance(live, NextStage(stage))

\* The answer to clusters that look regressed on traffic that is served.
Answer(readings, triggers, calibrated, precautionary) ==
    IF UncalibratedVeto(readings, triggers, calibrated) THEN Hold(triggers)
    ELSE RollBack(triggers, precautionary)

\* agreementOk: no judge was sampled by a human, or it is trustworthy.
\* calibrated: the judge was measured against the graders and passed.
Decide(readings, stage, health, agreementOk, pinned, calibrated) ==
    LET live == DOMAIN readings \ pinned
        proven == {c \in live : ProvenRegression(readings[c])}
        suspect == {c \in live : SuspectedRegression(readings[c])}
    IN IF Live(stage) /\ health # Nothing /\ HealthFailure(health)
       THEN RollBack({}, FALSE)
       ELSE IF Live(stage) /\ proven # {} THEN Answer(readings, proven, calibrated, FALSE)
       ELSE IF Live(stage) /\ suspect # {} THEN Answer(readings, suspect, calibrated, TRUE)
       ELSE Propose(readings, live, stage, health, agreementOk)
=============================================================================
