----------------------------- MODULE GateProofs -----------------------------
(***************************************************************************)
(* Proofs about the gate.  Rollout, for any clusters, bar, evidence and     *)
(* health: what it rolls back and what it must not, and that nothing advances *)
(* without proof.  Migration, for any rounds, candidates, scores and kept   *)
(* runs: a state file holds one migration, the loop never moves the rung, and *)
(* it proposes nothing but the step out of shadow.                          *)
(***************************************************************************)
EXTENDS Rollout, Migration, SequenceTheorems, TLAPS

(* Rollout *)

(* The ladder *)

\* The rungs and their shares.
LEMMA LadderFacts ==
    /\ DOMAIN Ladder = 1..5 /\ Len(Ladder) = 5
    /\ \A i \in 1..5 : Ladder[i] \in Rungs
    /\ \A i, j \in 1..5 : Ladder[i] = Ladder[j] => i = j
BY DEF Ladder, Rungs, Stage

\* The rung above a rung is the next one of the ladder.
LEMMA NextIsAbove ==
    ASSUME NEW s, HasNext(s)
    PROVE  \E i \in 1..4 : s = Ladder[i] /\ NextStage(s) = Ladder[i + 1]
<1> DEFINE i == CHOOSE i \in 1..4 : Ladder[i] = s
<1>1. i \in 1..4 /\ Ladder[i] = s
  BY LadderFacts DEF HasNext
<1>2. NextStage(s) = Ladder[1 + i]
  BY LadderFacts DEF NextStage
<1> HIDE DEF i
<1> QED BY <1>1, <1>2
-----------------------------------------------------------------------------
(* The gate *)

\* decide's clusters, by name.
Judges(rs, pins) == DOMAIN rs \ pins
ProvenIn(rs, pins) == {c \in Judges(rs, pins) : ProvenRegression(rs[c])}
SuspectIn(rs, pins) == {c \in Judges(rs, pins) : SuspectedRegression(rs[c])}

Failing(s, h) == Live(s) /\ h # Nothing /\ HealthFailure(h)

\* The four ways out of decide, in its order.
LEMMA WaysOut ==
    ASSUME NEW rs, NEW s, NEW h, NEW ok, NEW pins, NEW cal
    PROVE  \/ /\ Failing(s, h)
              /\ Decide(rs, s, h, ok, pins, cal) = RollBack({}, FALSE)
           \/ /\ ~Failing(s, h)
              /\ Live(s) /\ ProvenIn(rs, pins) # {}
              /\ Decide(rs, s, h, ok, pins, cal) = Answer(rs, ProvenIn(rs, pins), cal, FALSE)
           \/ /\ ~Failing(s, h)
              /\ ~(Live(s) /\ ProvenIn(rs, pins) # {})
              /\ Live(s) /\ SuspectIn(rs, pins) # {}
              /\ Decide(rs, s, h, ok, pins, cal) = Answer(rs, SuspectIn(rs, pins), cal, TRUE)
           \/ /\ ~Failing(s, h)
              /\ ~(Live(s) /\ ProvenIn(rs, pins) # {})
              /\ ~(Live(s) /\ SuspectIn(rs, pins) # {})
              /\ Decide(rs, s, h, ok, pins, cal) = Propose(rs, Judges(rs, pins), s, h, ok)
BY DEF Decide, Judges, ProvenIn, SuspectIn, Failing

\* What an answer to regressed clusters is.
LEMMA AnswerFields ==
    ASSUME NEW rs, NEW triggers, NEW cal, NEW p
    PROVE  LET a == Answer(rs, triggers, cal, p) IN
           /\ UncalibratedVeto(rs, triggers, cal) => a.action = "hold"
           /\ ~UncalibratedVeto(rs, triggers, cal)
                  => a.action = "roll_back" /\ a.clusters = triggers
BY DEF Answer, Hold, RollBack

\* Under what a proposal is an advance.
Proven(rs, live, s, h, ok) ==
    /\ DOMAIN rs # {} /\ live # {} /\ HasNext(s)
    /\ ~HealthBlocks(s, h) /\ ok /\ BlockedBy(rs, live) = {}

\* A proposal is an advance to the next rung, or a hold.
LEMMA ProposeCases ==
    ASSUME NEW rs, NEW live, NEW s, NEW h, NEW ok \in BOOLEAN
    PROVE  /\ Proven(rs, live, s, h, ok)
                  => Propose(rs, live, s, h, ok) = Advance(live, NextStage(s))
           /\ ~Proven(rs, live, s, h, ok)
                  => \E x : Propose(rs, live, s, h, ok) = Hold(x)
BY DEF Propose, Proven
\* What it says of either.
LEMMA ProposeFields ==
    ASSUME NEW rs, NEW live, NEW s, NEW h, NEW ok \in BOOLEAN
    PROVE  /\ Proven(rs, live, s, h, ok) =>
                /\ Propose(rs, live, s, h, ok).action = "advance"
                /\ Propose(rs, live, s, h, ok).to = NextStage(s)
           /\ ~Proven(rs, live, s, h, ok) =>
                /\ Propose(rs, live, s, h, ok).action = "hold"
                /\ Propose(rs, live, s, h, ok).to = Nothing
           /\ Propose(rs, live, s, h, ok).precautionary = FALSE
<1>1. CASE Proven(rs, live, s, h, ok)
  <2>1. Propose(rs, live, s, h, ok) = Advance(live, NextStage(s))
    BY <1>1, ProposeCases
  <2> QED BY <1>1, <2>1 DEF Advance
<1>2. CASE ~Proven(rs, live, s, h, ok)
  <2>1. PICK x : Propose(rs, live, s, h, ok) = Hold(x)
    BY <1>2, ProposeCases
  <2> QED BY <1>2, <2>1 DEF Hold
<1> QED BY <1>1, <1>2

\* Nobody is blocked only if every cluster's reading supports the advance.
LEMMA UnblockedSupports ==
    ASSUME NEW rs, NEW live, BlockedBy(rs, live) = {}
    PROVE  \A c \in live : SupportsAdvance(rs[c])
<1>1. CASE Unknown(rs, live) # {}
  BY <1>1 DEF BlockedBy
<1>2. CASE Unknown(rs, live) = {} /\ Thin(rs, live) # {}
  BY <1>2 DEF BlockedBy
<1>3. CASE Unknown(rs, live) = {} /\ Thin(rs, live) = {} /\ Judged(rs, live) # {}
  BY <1>3 DEF BlockedBy
<1>4. CASE Unknown(rs, live) = {} /\ Thin(rs, live) = {} /\ Judged(rs, live) = {}
  <2>1. Unproven(rs, live) = {}
    BY <1>4 DEF BlockedBy
  <2> QED BY <2>1 DEF Unproven
<1> QED BY <1>1, <1>2, <1>3, <1>4

\* The four ways out, of the state.
LEMMA DecisionWays ==
    \/ /\ Failing(stage, health)
       /\ Decision = RollBack({}, FALSE)
    \/ /\ ~Failing(stage, health)
       /\ Live(stage) /\ ProvenIn(readings, pinned) # {}
       /\ Decision = Answer(readings, ProvenIn(readings, pinned), calibrated, FALSE)
    \/ /\ ~Failing(stage, health)
       /\ ~(Live(stage) /\ ProvenIn(readings, pinned) # {})
       /\ Live(stage) /\ SuspectIn(readings, pinned) # {}
       /\ Decision = Answer(readings, SuspectIn(readings, pinned), calibrated, TRUE)
    \/ /\ ~Failing(stage, health)
       /\ ~(Live(stage) /\ ProvenIn(readings, pinned) # {})
       /\ ~(Live(stage) /\ SuspectIn(readings, pinned) # {})
       /\ Decision = Propose(readings, Judges(readings, pinned), stage, health, agreementOk)
BY WaysOut DEF Decision
-----------------------------------------------------------------------------
(* The rollbacks *)

\* "An unmeasured instrument does not get to stop a migration": a rollback that
\* is not about health rests on a grader's reading, or on a calibrated judge.
LEMMA RollbackMeasured == RolloutTypeOK => RollbackIsMeasured
<1> SUFFICES ASSUME RolloutTypeOK, Decision.action = "roll_back",
                    ~Failing(stage, health), ~calibrated
             PROVE  \E c \in Decision.clusters : ~readings[c].judge_only
  BY DEF RollbackIsMeasured, Failing
<1> DEFINE proven == ProvenIn(readings, pinned)
           suspect == SuspectIn(readings, pinned)
<1>1. ASSUME NEW T, NEW p, Decision = Answer(readings, T, calibrated, p)
      PROVE  \E c \in Decision.clusters : ~readings[c].judge_only
  <2>1. ~UncalibratedVeto(readings, T, calibrated)
    BY <1>1, AnswerFields
  <2>2. Decision.clusters = T
    BY <1>1, <2>1, AnswerFields
  <2> QED BY <2>1, <2>2 DEF UncalibratedVeto
<1>2. \/ Decision = Answer(readings, proven, calibrated, FALSE)
      \/ Decision = Answer(readings, suspect, calibrated, TRUE)
      \/ Decision = Propose(readings, Judges(readings, pinned), stage, health, agreementOk)
  BY DecisionWays
<1>3. Propose(readings, Judges(readings, pinned), stage, health, agreementOk).action # "roll_back"
  BY ProposeFields DEF RolloutTypeOK
<1> QED BY <1>1, <1>2, <1>3

\* On live traffic a grader's proof of regression, or a failing candidate, is
\* answered by a rollback: no judge's opinion takes the grader's proof back.
LEMMA ProofActs == ProvenRegressionRollsBack
<1> SUFFICES ASSUME Live(stage),
                    \/ \E c \in Judges(readings, pinned) :
                           ProvenRegression(readings[c]) /\ ~readings[c].judge_only
                    \/ health # Nothing /\ HealthFailure(health)
             PROVE  Decision.action = "roll_back"
  BY DEF ProvenRegressionRollsBack, Judges
<1>1. CASE health # Nothing /\ HealthFailure(health)
  <2>1. Decision = RollBack({}, FALSE)
    BY <1>1, DecisionWays DEF Failing
  <2> QED BY <2>1 DEF RollBack
<1>2. CASE ~(health # Nothing /\ HealthFailure(health))
  <2>1. PICK c \in Judges(readings, pinned) :
            ProvenRegression(readings[c]) /\ ~readings[c].judge_only
    BY <1>2
  <2>2. c \in ProvenIn(readings, pinned)
    BY <2>1 DEF ProvenIn
  <2>3. Decision = Answer(readings, ProvenIn(readings, pinned), calibrated, FALSE)
    BY <1>2, <2>2, DecisionWays DEF Failing
  <2>4. ~UncalibratedVeto(readings, ProvenIn(readings, pinned), calibrated)
    BY <2>1, <2>2 DEF UncalibratedVeto
  <2> QED BY <2>3, <2>4, AnswerFields
<1> QED BY <1>1, <1>2

\* "A pinned cluster cannot regress what it does not serve": the gate decides
\* as if there were no readings of pinned clusters.
LEMMA PinnedSilent == RolloutTypeOK => PinnedHaveNoSay
<1> SUFFICES ASSUME RolloutTypeOK PROVE PinnedHaveNoSay
  OBVIOUS
<1> DEFINE live == Judges(readings, pinned)
           rest == [c \in live |-> readings[c]]
           without == Decide(rest, stage, health, agreementOk, {}, calibrated)
<1>1. /\ Judges(rest, {}) = live
      /\ \A c \in live : rest[c] = readings[c]
  BY DEF Judges
<1> HIDE DEF rest
<1>2. /\ ProvenIn(rest, {}) = ProvenIn(readings, pinned)
      /\ SuspectIn(rest, {}) = SuspectIn(readings, pinned)
  BY <1>1 DEF ProvenIn, SuspectIn
<1>3. ASSUME NEW T, T \subseteq live, NEW p
      PROVE  Answer(rest, T, calibrated, p) = Answer(readings, T, calibrated, p)
  <2>1. UncalibratedVeto(rest, T, calibrated) <=> UncalibratedVeto(readings, T, calibrated)
    BY <1>1, <1>3 DEF UncalibratedVeto
  <2> QED BY <2>1 DEF Answer
<1>4. ProvenIn(readings, pinned) \subseteq live /\ SuspectIn(readings, pinned) \subseteq live
  BY DEF ProvenIn, SuspectIn
<1>5. BlockedBy(rest, live) = BlockedBy(readings, live)
  <2>1. /\ Unknown(rest, live) = Unknown(readings, live)
        /\ Thin(rest, live) = Thin(readings, live)
        /\ Judged(rest, live) = Judged(readings, live)
        /\ Unproven(rest, live) = Unproven(readings, live)
    BY <1>1 DEF Unknown, Thin, Judged, Unproven
  <2> QED BY <2>1 DEF BlockedBy
<1>6. live # {} => DOMAIN rest # {} /\ DOMAIN readings # {}
  BY DEF rest, Judges
<1>7. Proven(rest, live, stage, health, agreementOk)
          <=> Proven(readings, live, stage, health, agreementOk)
  BY <1>5, <1>6 DEF Proven
<1> DEFINE p1 == Propose(rest, live, stage, health, agreementOk)
           p2 == Propose(readings, live, stage, health, agreementOk)
<1>8. /\ p1.action = p2.action /\ p1.to = p2.to
      /\ p1.precautionary = p2.precautionary
  <2>1. agreementOk \in BOOLEAN
    BY DEF RolloutTypeOK
  <2>2. CASE Proven(readings, live, stage, health, agreementOk)
    <3>1. /\ p1.action = "advance" /\ p1.to = NextStage(stage)
          /\ p1.precautionary = FALSE
      BY ZenonT(30), <1>7, <2>1, <2>2, ProposeFields
    <3>2. /\ p2.action = "advance" /\ p2.to = NextStage(stage)
          /\ p2.precautionary = FALSE
      BY ZenonT(30), <2>1, <2>2, ProposeFields
    <3> HIDE DEF p1, p2
    <3> QED BY <3>1, <3>2
  <2>3. CASE ~Proven(readings, live, stage, health, agreementOk)
    <3>1. p1.action = "hold" /\ p1.to = Nothing /\ p1.precautionary = FALSE
      BY <1>7, <2>1, <2>3, ProposeFields
    <3>2. p2.action = "hold" /\ p2.to = Nothing /\ p2.precautionary = FALSE
      BY <2>1, <2>3, ProposeFields
    <3> HIDE DEF p1, p2
    <3> QED BY <3>1, <3>2
  <2> QED BY <2>2, <2>3
<1>9. \/ without = Decision
      \/ without = p1 /\ Decision = p2
  <2>1. \/ /\ Failing(stage, health)
           /\ without = RollBack({}, FALSE)
        \/ /\ ~Failing(stage, health)
           /\ Live(stage) /\ ProvenIn(readings, pinned) # {}
           /\ without = Answer(readings, ProvenIn(readings, pinned), calibrated, FALSE)
        \/ /\ ~Failing(stage, health)
           /\ ~(Live(stage) /\ ProvenIn(readings, pinned) # {})
           /\ Live(stage) /\ SuspectIn(readings, pinned) # {}
           /\ without = Answer(readings, SuspectIn(readings, pinned), calibrated, TRUE)
        \/ /\ ~Failing(stage, health)
           /\ ~(Live(stage) /\ ProvenIn(readings, pinned) # {})
           /\ ~(Live(stage) /\ SuspectIn(readings, pinned) # {})
           /\ without = p1
    <3>1. /\ Answer(rest, ProvenIn(readings, pinned), calibrated, FALSE)
                 = Answer(readings, ProvenIn(readings, pinned), calibrated, FALSE)
          /\ Answer(rest, SuspectIn(readings, pinned), calibrated, TRUE)
                 = Answer(readings, SuspectIn(readings, pinned), calibrated, TRUE)
      BY <1>3, <1>4
    <3>2. \/ /\ Failing(stage, health)
             /\ without = RollBack({}, FALSE)
          \/ /\ ~Failing(stage, health)
             /\ Live(stage) /\ ProvenIn(rest, {}) # {}
             /\ without = Answer(rest, ProvenIn(rest, {}), calibrated, FALSE)
          \/ /\ ~Failing(stage, health)
             /\ ~(Live(stage) /\ ProvenIn(rest, {}) # {})
             /\ Live(stage) /\ SuspectIn(rest, {}) # {}
             /\ without = Answer(rest, SuspectIn(rest, {}), calibrated, TRUE)
          \/ /\ ~Failing(stage, health)
             /\ ~(Live(stage) /\ ProvenIn(rest, {}) # {})
             /\ ~(Live(stage) /\ SuspectIn(rest, {}) # {})
             /\ without = Propose(rest, Judges(rest, {}), stage, health, agreementOk)
      BY DEF Decide, Judges, ProvenIn, SuspectIn, Failing
    <3> HIDE DEF without, p1
    <3> QED BY <1>1, <1>2, <3>1, <3>2 DEF p1
  <2> HIDE DEF without, p1
  <2>2. \/ without = Decision
        \/ without = p1 /\ Decision = Propose(readings, live, stage, health, agreementOk)
    <3>1. CASE Failing(stage, health)
      BY <2>1, <3>1, DecisionWays
    <3>2. CASE ~Failing(stage, health) /\ Live(stage) /\ ProvenIn(readings, pinned) # {}
      BY <2>1, <3>2, DecisionWays
    <3>3. CASE /\ ~Failing(stage, health)
               /\ ~(Live(stage) /\ ProvenIn(readings, pinned) # {})
               /\ Live(stage) /\ SuspectIn(readings, pinned) # {}
      BY <2>1, <3>3, DecisionWays
    <3>4. CASE /\ ~Failing(stage, health)
               /\ ~(Live(stage) /\ ProvenIn(readings, pinned) # {})
               /\ ~(Live(stage) /\ SuspectIn(readings, pinned) # {})
      BY <2>1, <3>4, DecisionWays
    <3> QED BY <3>1, <3>2, <3>3, <3>4
  <2> QED BY <2>2
<1> HIDE DEF p1, p2, without
<1>10. /\ Decision.action = without.action /\ Decision.to = without.to
       /\ Decision.precautionary = without.precautionary
  BY <1>8, <1>9
<1>11. rest = [c \in DOMAIN readings \ pinned |-> readings[c]]
  BY DEF rest, Judges
<1> QED BY <1>10, <1>11 DEF PinnedHaveNoSay, without
-----------------------------------------------------------------------------
(* The state *)

\* What an advance says: the next rung, on the word of every cluster that moves.
LEMMA AdvanceSays ==
    ASSUME RolloutTypeOK, Decision.action = "advance"
    PROVE  /\ Proven(readings, Judges(readings, pinned), stage, health, agreementOk)
           /\ Decision.to = NextStage(stage)
           /\ ~Failing(stage, health)
<1> DEFINE live == Judges(readings, pinned)
           p == Propose(readings, live, stage, health, agreementOk)
<1>1. \A T, q : Answer(readings, T, calibrated, q).action # "advance"
  BY AnswerFields
<1>2. Decision = p /\ ~Failing(stage, health)
  <2>1. Decision # RollBack({}, FALSE)
    BY DEF RollBack
  <2> HIDE DEF p
  <2> QED BY <1>1, <2>1, DecisionWays DEF p
<1>3. agreementOk \in BOOLEAN
  BY DEF RolloutTypeOK
<1>4. Proven(readings, live, stage, health, agreementOk)
  <2>1. ASSUME ~Proven(readings, live, stage, health, agreementOk) PROVE FALSE
    <3>1. p.action = "hold"
      BY <1>3, <2>1, ProposeFields
    <3> HIDE DEF p
    <3> QED BY <1>2, <3>1
  <2> QED BY <2>1
<1>5. p.to = NextStage(stage)
  BY ZenonT(30), <1>3, <1>4, ProposeFields
<1> HIDE DEF p
<1> QED BY <1>2, <1>4, <1>5

\* A migration starts in shadow without evidence.
LEMMA StartTyped == RolloutInit => RolloutTypeOK
<1> SUFFICES ASSUME RolloutInit PROVE RolloutTypeOK
  OBVIOUS
<1>1. readings \in [{} -> Evidence] /\ {} \in SUBSET Names
  BY DEF RolloutInit
<1> QED BY <1>1, LadderFacts DEF RolloutInit, RolloutTypeOK

\* Every step leaves readings of clusters, and a rung of the ladder.
LEMMA StepTyped == RolloutTypeOK /\ [RolloutNext]_rolloutVars => RolloutTypeOK'
<1> SUFFICES ASSUME RolloutTypeOK, [RolloutNext]_rolloutVars PROVE RolloutTypeOK'
  OBVIOUS
<1> USE DEF RolloutTypeOK
<1>1. ASSUME NEW c \in Names, NEW e \in Evidence, Score(c, e) PROVE RolloutTypeOK'
  <2>1. PICK S \in SUBSET Names : readings \in [S -> Evidence]
    OBVIOUS
  <2>2. readings' \in [S \cup {c} -> Evidence] /\ S \cup {c} \in SUBSET Names
    BY <1>1, <2>1 DEF Score
  <2> QED BY <1>1, <2>2 DEF Score
<1>2. ASSUME NEW h \in HealthSignals, Observe(h) PROVE RolloutTypeOK'
  BY <1>2 DEF Observe
<1>3. ASSUME NEW c \in Names, Pin(c) PROVE RolloutTypeOK'
  BY <1>3 DEF Pin
<1>4. CASE ApplyRollback
  BY <1>4, LadderFacts DEF ApplyRollback
<1>5. CASE HumanAdvances
  <2>1. stage' = NextStage(stage) /\ HasNext(stage)
    BY <1>5, AdvanceSays DEF HumanAdvances, Proven
  <2>2. stage' \in Rungs
    BY <2>1, NextIsAbove, LadderFacts
  <2> QED BY <1>5, <2>2 DEF HumanAdvances, Rungs
<1>6. CASE UNCHANGED rolloutVars
  BY <1>6 DEF rolloutVars
<1> QED BY <1>1, <1>2, <1>3, <1>4, <1>5, <1>6 DEF RolloutNext

\* When the rung goes up, it goes up by one, and everything that moves is
\* proven by graders (gate.py: "Underpowered never advances").
LEMMA StepProven ==
    ASSUME RolloutTypeOK, [RolloutNext]_rolloutVars, stage'.percent > stage.percent
    PROVE  LET moving == DOMAIN readings \ pinned IN
           /\ \E i \in 1..4 : stage = Ladder[i] /\ stage' = Ladder[i + 1]
           /\ moving # {}
           /\ \A c \in moving : /\ ClearlyAbove(readings[c])
                                /\ readings[c].total >= MinSamplesForConfidence
                                /\ ~readings[c].judge_only
           /\ Live(stage) => health # Nothing /\ Measured(health) /\ ~HealthFailure(health)
<1> DEFINE moving == DOMAIN readings \ pinned
<1>1. HumanAdvances
  <2>1. stage.percent \in Nat /\ Ladder[1].percent = 0
    BY DEF RolloutTypeOK, Ladder, Stage
  <2>2. stage' # stage
    BY <2>1
  <2>3. ~ApplyRollback
    BY <2>1 DEF ApplyRollback
  <2> QED BY <2>2, <2>3 DEF RolloutNext, rolloutVars, Score, Observe, Pin
<1>2. /\ Proven(readings, moving, stage, health, agreementOk)
      /\ stage' = NextStage(stage)
      /\ ~Failing(stage, health)
  BY <1>1, AdvanceSays DEF HumanAdvances, Judges
<1>3. \E i \in 1..4 : stage = Ladder[i] /\ stage' = Ladder[i + 1]
  BY <1>2, NextIsAbove DEF Proven
<1>4. moving # {}
  BY <1>2 DEF Proven
<1>5. ASSUME NEW c \in moving
      PROVE  /\ ClearlyAbove(readings[c]) /\ ~readings[c].judge_only
             /\ readings[c].total >= MinSamplesForConfidence
  <2>1. SupportsAdvance(readings[c])
    BY <1>2, UnblockedSupports DEF Proven
  <2>2. readings[c] \in Reading
    BY EvidenceAssumption DEF RolloutTypeOK
  <2>3. ClearlyAbove(readings[c]) /\ ~readings[c].judge_only /\ ~Underpowered(readings[c])
    BY <2>1 DEF SupportsAdvance
  <2>4. readings[c].total \in Nat
    BY <2>2 DEF Reading
  <2> QED BY <2>3, <2>4 DEF Underpowered, MinSamplesForConfidence
<1>6. Live(stage) => health # Nothing /\ Measured(health) /\ ~HealthFailure(health)
  BY <1>2 DEF Proven, HealthBlocks, Failing
<1> QED BY <1>3, <1>4, <1>5, <1>6
-----------------------------------------------------------------------------
(* The theorems *)

\* The gate's rollbacks, throughout every rollout: the ones that must happen
\* and the ones that must not (decide in gate.py).
THEOREM RollbacksAreSound == RolloutSpec => []RollbackSound
<1>1. RolloutTypeOK => RollbackSound
  BY RollbackMeasured, PinnedSilent, ProofActs DEF RollbackSound
<1> QED BY <1>1, StartTyped, StepTyped, PTL DEF RolloutSpec

\* No rollout goes up a rung without proof for every cluster that moves, and
\* without healthy traffic where it is live (gate.py, _advance_blocked).
THEOREM AdvancesAreProven == RolloutSpec => AdvanceIsProven
<1>1. RolloutTypeOK /\ [RolloutNext]_rolloutVars =>
        [stage'.percent > stage.percent =>
            LET moving == DOMAIN readings \ pinned IN
            /\ \E i \in 1..4 : stage = Ladder[i] /\ stage' = Ladder[i + 1]
            /\ moving # {}
            /\ \A c \in moving : /\ ClearlyAbove(readings[c])
                                 /\ readings[c].total >= MinSamplesForConfidence
                                 /\ ~readings[c].judge_only
            /\ Live(stage) => health # Nothing /\ Measured(health) /\ ~HealthFailure(health)]_rolloutVars
  BY StepProven
<1> QED BY <1>1, StartTyped, StepTyped, PTL DEF RolloutSpec, AdvanceIsProven

-----------------------------------------------------------------------------
(* Migration *)

(* The gate, asked without health *)

\* The rungs, by their share.
LEMMA RungFacts ==
    /\ DOMAIN Ladder = 1..5 /\ Len(Ladder) = 5
    /\ Ladder[1] \in Rungs /\ Ladder[2] \in Rungs
    /\ \A i \in 1..5 : Ladder[i].percent \in Nat /\ (Ladder[i].percent = 0 <=> i = 1)
BY DEF Ladder, Rungs, Stage

\* The rung above shadow is the first canary.
LEMMA AboveShadow == NextStage(Ladder[1]) = Ladder[2]
<1>1. \A i \in 1..4 : Ladder[i] = Ladder[1] <=> i = 1
  BY RungFacts
<1>2. (CHOOSE i \in 1..4 : Ladder[i] = Ladder[1]) = 1
  BY <1>1
<1> QED BY <1>2, RungFacts DEF NextStage

\* What the constructors of a decision put in it.
LEMMA HoldFields == ASSUME NEW x PROVE Hold(x).action = "hold" /\ Hold(x).to = Nothing
BY DEF Hold
\* The same of an advance.
LEMMA AdvanceFields ==
    ASSUME NEW x, NEW to PROVE Advance(x, to).action = "advance" /\ Advance(x, to).to = to
BY DEF Advance

\* A regression is answered by a hold or a rollback.
LEMMA AnswerHolds ==
    ASSUME NEW suite, NEW triggers, NEW measured, NEW precautionary
    PROVE  /\ Answer(suite, triggers, measured, precautionary).action
                 \in {"hold", "roll_back"}
           /\ Answer(suite, triggers, measured, precautionary).to = Nothing
BY DEF Answer, Hold, RollBack

\* decide never advances live traffic when it is given no health.
LEMMA AdvanceFromShadow ==
    ASSUME NEW suite, NEW rung \in Rungs,
           Decide(suite, rung, Nothing, TRUE, {}, FALSE).action = "advance"
    PROVE  /\ rung = Ladder[1]
           /\ Decide(suite, rung, Nothing, TRUE, {}, FALSE).to = Ladder[2]
<1> DEFINE live == DOMAIN suite \ {}
           p == Propose(suite, live, rung, Nothing, TRUE)
<1>1. Decide(suite, rung, Nothing, TRUE, {}, FALSE) = p
  <2> DEFINE proven == {c \in live : ProvenRegression(suite[c])}
             suspect == {c \in live : SuspectedRegression(suite[c])}
  <2>1. \/ Decide(suite, rung, Nothing, TRUE, {}, FALSE) = Answer(suite, proven, FALSE, FALSE)
        \/ Decide(suite, rung, Nothing, TRUE, {}, FALSE) = Answer(suite, suspect, FALSE, TRUE)
        \/ Decide(suite, rung, Nothing, TRUE, {}, FALSE) = p
    BY DEF Decide
  <2> QED BY ZenonT(30), <2>1, AnswerHolds
<1>2. /\ ~HealthBlocks(rung, Nothing)
      /\ p = Advance(live, NextStage(rung))
  <2>1. \/ p = Hold({}) \/ p = Hold(DOMAIN suite) \/ p = Hold(BlockedBy(suite, live))
        \/ ~HealthBlocks(rung, Nothing) /\ p = Advance(live, NextStage(rung))
    BY DEF Propose
  <2> HIDE DEF p
  <2> QED BY <2>1, <1>1, HoldFields
<1>3. ~Live(rung)
  BY <1>2 DEF HealthBlocks
<1>4. PICK i \in 1..5 : rung = Ladder[i]
  BY RungFacts DEF Rungs
<1>5. rung = Ladder[1]
  BY <1>3, <1>4, RungFacts DEF Live
<1>6. p.to = Ladder[2]
  <2> HIDE DEF p
  <2> QED BY <1>2, <1>5, AboveShadow, AdvanceFields
<1> QED BY <1>1, <1>5, <1>6

\* The answers of decide are those a run may record.
LEMMA DecideType ==
    ASSUME NEW suite, NEW rung \in Rungs
    PROVE  LET d == Decide(suite, rung, Nothing, TRUE, {}, FALSE) IN
           /\ d.action \in {"hold", "advance", "roll_back"}
           /\ d.action # "advance" => d.to = Nothing
BY DEF Decide, Answer, Propose, Hold, RollBack, Advance
-----------------------------------------------------------------------------
(* The histories *)

\* A run that may stand in the history of candidate c.
Sound(run, c) ==
    /\ run.candidate = c
    /\ run.action = "advance" => run.stage = Ladder[1] /\ run.proposed = Ladder[2]
SoundState(s) == s \in State /\ \A i \in DOMAIN s.runs : Sound(s.runs[i], s.candidate)

\* Trimming keeps runs that were there, the last one among them, and no more
\* than History of them.
LEMMA TrimKeeps ==
    ASSUME NEW runs \in Seq(Run)
    PROVE  /\ Trim(runs) \in Seq(Run)
           /\ Len(Trim(runs)) <= History
           /\ \A i \in DOMAIN Trim(runs) : \E j \in DOMAIN runs : Trim(runs)[i] = runs[j]
<1> DEFINE n == Len(runs)
           m == IF n <= History THEN 1 ELSE n - History + 1
<1>1. n \in Nat /\ History \in Nat \ {0}
  BY HistoryAssumption, LenProperties
<1>2. m \in 1..(n + 1) /\ n - m + 1 <= History
  BY <1>1
<1>3. Trim(runs) = SubSeq(runs, m, n)
  BY DEF Trim
<1> HIDE DEF n, m
<1>4. DOMAIN runs = 1..n /\ \A i \in m..n : runs[i] \in Run
  BY <1>1, <1>2, LenProperties DEF n
<1>5. /\ SubSeq(runs, m, n) \in Seq(Run)
      /\ Len(SubSeq(runs, m, n)) = IF m <= n THEN n - m + 1 ELSE 0
      /\ \A i \in 1..(n - m + 1) : SubSeq(runs, m, n)[i] = runs[m + i - 1]
  <2>1. m \in Int /\ n \in Int
    BY <1>1, <1>2
  <2> QED BY <2>1, <1>4, SubSeqProperties
<1>6. Len(SubSeq(runs, m, n)) = n - m + 1
  BY <1>1, <1>2, <1>5
<1>7. DOMAIN SubSeq(runs, m, n) = 1..(n - m + 1)
  BY <1>5, <1>6, LenProperties
<1>8. \A i \in 1..(n - m + 1) : m + i - 1 \in 1..n
  BY <1>1, <1>2
<1>9. \A i \in DOMAIN SubSeq(runs, m, n) : \E j \in DOMAIN runs : SubSeq(runs, m, n)[i] = runs[j]
  BY <1>4, <1>5, <1>7, <1>8
<1> QED BY <1>2, <1>3, <1>5, <1>6, <1>9

\* A trimmed state is as sound as it was.
LEMMA TrimSound ==
    ASSUME NEW s, SoundState(s)
    PROVE  LET t == [s EXCEPT !.runs = Trim(@)] IN
           /\ SoundState(t) /\ t.stage = s.stage /\ Len(t.runs) <= History
<1> DEFINE t == [s EXCEPT !.runs = Trim(@)]
<1>1. /\ s \in State /\ s.runs \in Seq(Run)
  BY DEF SoundState, State
<1>2. /\ t.runs = Trim(s.runs) /\ t.candidate = s.candidate /\ t.stage = s.stage
      /\ t \in State
  BY <1>1, TrimKeeps DEF State
<1>3. \A i \in DOMAIN t.runs : \E j \in DOMAIN s.runs : t.runs[i] = s.runs[j]
  BY <1>1, <1>2, TrimKeeps
<1>4. Len(t.runs) <= History
  BY <1>1, <1>2, TrimKeeps
<1> HIDE DEF t
<1>5. SoundState(t)
  BY <1>2, <1>3 DEF SoundState
<1> USE DEF t
<1> QED BY <1>2, <1>4, <1>5

\* What step makes of a state: the gate's answer, recorded for candidate c.
Added(s, r, c, suite) ==
    LET d == Decide(suite, s.stage, Nothing, TRUE, {}, FALSE)
    IN [s EXCEPT !.runs = Append(@, [round |-> r, candidate |-> c, stage |-> s.stage,
                                     action |-> d.action, proposed |-> d.to])]

\* A run that step adds (migrate.py) is sound.
LEMMA StepSound ==
    ASSUME NEW s, SoundState(s), NEW r \in Rounds, NEW suite, NEW c, c = s.candidate
    PROVE  /\ SoundState(Added(s, r, c, suite))
           /\ Added(s, r, c, suite).stage = s.stage
           /\ Added(s, r, c, suite).candidate = s.candidate
<1> DEFINE d == Decide(suite, s.stage, Nothing, TRUE, {}, FALSE)
           run == [round |-> r, candidate |-> c, stage |-> s.stage,
                   action |-> d.action, proposed |-> d.to]
           t == [s EXCEPT !.runs = Append(@, run)]
<1>1. /\ s \in State /\ s.runs \in Seq(Run) /\ s.stage \in Rungs /\ s.candidate \in Candidates
  BY DEF SoundState, State
<1>2. /\ d.action \in {"hold", "advance", "roll_back"}
      /\ d.action # "advance" => d.to = Nothing
      /\ d.action = "advance" => s.stage = Ladder[1] /\ d.to = Ladder[2]
  BY <1>1, DecideType, AdvanceFromShadow
<1> HIDE DEF d
<1>3. run \in Run /\ Sound(run, s.candidate)
  BY <1>1, <1>2, RungFacts DEF Run, Sound
<1> HIDE DEF run
<1>4. /\ Append(s.runs, run) \in Seq(Run)
      /\ DOMAIN Append(s.runs, run) = 1..(Len(s.runs) + 1) /\ DOMAIN s.runs = 1..Len(s.runs)
      /\ Append(s.runs, run)[Len(s.runs) + 1] = run
      /\ \A i \in 1..Len(s.runs) : Append(s.runs, run)[i] = s.runs[i]
      /\ Len(s.runs) \in Nat
  BY <1>1, <1>3, AppendProperties, LenProperties
<1>5. /\ t.runs = Append(s.runs, run) /\ t.candidate = s.candidate /\ t.stage = s.stage
      /\ t \in State
  BY <1>1, <1>4 DEF State
<1>6. \A i \in DOMAIN t.runs : Sound(t.runs[i], t.candidate)
  BY <1>3, <1>4, <1>5 DEF SoundState
<1>7. SoundState(t)
  BY <1>5, <1>6 DEF SoundState
<1> USE DEF d, run
<1>8. t = Added(s, r, c, suite)
  BY DEF Added
<1> HIDE DEF t
<1> QED BY <1>5, <1>7, <1>8
-----------------------------------------------------------------------------
(* The inductive invariant *)

\* What is in the file, and what a round under way holds, is one migration.
Histories ==
    /\ file # Nothing => SoundState(file)
    /\ \A r \in Rounds : at[r] \in UnderWay =>
           SoundState(state[r]) /\ state[r].candidate = candidate[r]

\* Rounds carry the rung they loaded; after a quiet edit they all carry it.
Carried ==
    /\ file = Nothing => expected = Ladder[1]
    /\ quiet => /\ file # Nothing => file.stage = expected
                /\ \A r \in Rounds : at[r] \in UnderWay => state[r].stage = expected

Shapes ==
    /\ at \in [Rounds -> {"idle", "exited"} \cup UnderWay]
    /\ candidate \in [Rounds -> Candidates]
    /\ state \in [Rounds -> State \cup {Nothing}]
    /\ expected \in Rungs

MigrationInv == Shapes /\ Histories /\ Carried

\* A fresh state is sound, and is no stand-in for a missing one.
LEMMA NewStateSound ==
    ASSUME NEW c \in Candidates
    PROVE  /\ SoundState(NewState(c)) /\ NewState(c).candidate = c
           /\ NewState(c).stage = Ladder[1]
BY RungFacts DEF SoundState, NewState, State

\* There is no file and no round at first.
LEMMA MigrationInit == Init => MigrationInv
BY RungFacts DEF Init, MigrationInv, Shapes, Histories, Carried, UnderWay

\* load_state hands a round the migration of its own candidate or none.
LEMMA LoadKeeps ==
    ASSUME MigrationInv, NEW r \in Rounds, Load(r)
    PROVE  MigrationInv'
<1> USE DEF MigrationInv, Shapes, Histories, Carried, UnderWay
<1>1. CASE file # Nothing /\ file.candidate # candidate[r]
  BY <1>1 DEF Load
<1>2. CASE ~(file # Nothing /\ file.candidate # candidate[r])
  <2> DEFINE s == IF file = Nothing THEN NewState(candidate[r]) ELSE file
  <2>1. /\ at' = [at EXCEPT ![r] = "loaded"]
        /\ state' = [state EXCEPT ![r] = s]
        /\ UNCHANGED <<file, candidate, expected, quiet>>
    BY <1>2 DEF Load
  <2>2. /\ SoundState(s) /\ s.candidate = candidate[r] /\ s \in State
        /\ quiet => s.stage = expected
    BY <1>2, NewStateSound DEF SoundState
  <2> HIDE DEF s
  <2> QED BY <2>1, <2>2
<1> QED BY <1>1, <1>2

\* step adds a sound run to the state the round holds.
LEMMA StepKeeps ==
    ASSUME MigrationInv, NEW r \in Rounds, Step(r)
    PROVE  MigrationInv'
<1>1. SoundState(state[r]) /\ state[r].candidate = candidate[r] /\ at[r] = "loaded"
  BY DEF Step, MigrationInv, Histories, UnderWay
<1>2. PICK suite \in Suites :
        LET d == Decide(suite, state[r].stage, Nothing, TRUE, {}, FALSE)
            run == [round |-> r, candidate |-> candidate[r], stage |-> state[r].stage,
                    action |-> d.action, proposed |-> d.to]
        IN state' = [state EXCEPT ![r].runs = Append(@, run)]
  BY DEF Step, GateSays
<1> DEFINE t == Added(state[r], r, candidate[r], suite)
<1>3. SoundState(t) /\ t.stage = state[r].stage /\ t.candidate = candidate[r]
  BY <1>1, StepSound
<1>4. state' = [state EXCEPT ![r] = t]
  BY <1>2 DEF Added
<1>5. /\ at' = [at EXCEPT ![r] = "stepped"]
      /\ UNCHANGED <<file, candidate, expected, quiet>>
  BY DEF Step
<1> HIDE DEF t
<1> QED BY <1>1, <1>3, <1>4, <1>5
        DEF MigrationInv, Shapes, Histories, Carried, UnderWay, SoundState

\* save_state puts what the round holds, trimmed, in the place of the file.
LEMMA SaveKeeps ==
    ASSUME MigrationInv, NEW r \in Rounds, Save(r)
    PROVE  MigrationInv'
<1> DEFINE t == [state[r] EXCEPT !.runs = Trim(@)]
<1>1. SoundState(state[r]) /\ at[r] = "stepped"
  BY DEF Save, MigrationInv, Histories, UnderWay
<1>2. SoundState(t) /\ t.stage = state[r].stage
  BY <1>1, TrimSound
<1>3. /\ file' = t
      /\ at' = [at EXCEPT ![r] = "exited"] /\ state' = [state EXCEPT ![r] = Nothing]
      /\ UNCHANGED <<candidate, expected, quiet>>
  BY DEF Save
<1>4. t # Nothing
  BY <1>2 DEF SoundState, State, Nothing
<1> HIDE DEF t
<1> QED BY <1>1, <1>2, <1>3, <1>4
        DEF MigrationInv, Shapes, Histories, Carried, UnderWay

\* The operator changes the rung of a migration and nothing else of it.
LEMMA SetStageKeeps ==
    ASSUME MigrationInv, NEW rung \in Rungs, SetStage(rung)
    PROVE  MigrationInv'
<1> DEFINE t == [file EXCEPT !.stage = rung]
<1>1. SoundState(file) /\ file # Nothing
  BY DEF SetStage, MigrationInv, Histories
<1>2. /\ t \in State /\ t.stage = rung
      /\ t.runs = file.runs /\ t.candidate = file.candidate
  BY <1>1 DEF SoundState, State
<1>3. /\ file' = t /\ expected' = rung /\ quiet' = Quiet
      /\ UNCHANGED <<at, candidate, state>>
  BY DEF SetStage
<1>4. t # Nothing
  BY <1>2 DEF State, Nothing
<1> HIDE DEF t
<1>5. SoundState(t)
  BY <1>1, <1>2 DEF SoundState
<1> QED BY <1>2, <1>3, <1>4, <1>5
        DEF MigrationInv, Shapes, Histories, Carried, Quiet

\* Every step of a round and of the operator keeps the invariant.
LEMMA MigrationStep == MigrationInv /\ [Next]_vars => MigrationInv'
<1> SUFFICES ASSUME MigrationInv, [Next]_vars PROVE MigrationInv'
  OBVIOUS
<1>1. ASSUME NEW r \in Rounds, Exit(r) PROVE MigrationInv'
  BY <1>1 DEF Exit, MigrationInv, Shapes, Histories, Carried, UnderWay
<1>2. CASE Finish
  BY <1>2, RungFacts DEF Finish, MigrationInv, Shapes, Histories, Carried, Quiet
<1>3. CASE UNCHANGED vars
  BY <1>3 DEF vars, MigrationInv, Shapes, Histories, Carried
<1> QED BY <1>1, <1>2, <1>3, LoadKeeps, StepKeeps, SaveKeeps, SetStageKeeps DEF Next
-----------------------------------------------------------------------------
(* The theorems *)

\* The inductive invariant holds throughout.
THEOREM MigrationAlways == Spec => []MigrationInv
BY MigrationInit, MigrationStep, PTL DEF Spec

\* However rounds for several candidates race for the file, its history is
\* that of the candidate it names (migrate.py, load_state).
THEOREM OneMigration == Spec => []OneCandidate
<1>1. MigrationInv => OneCandidate
  BY DEF MigrationInv, Histories, SoundState, Sound, OneCandidate
<1> QED BY <1>1, MigrationAlways, PTL

\* No round, whatever it proposes, changes a rung that the operator wrote while
\* no round was under way (migrate.py: "This module never changes it").
THEOREM EditsStand == Spec => []QuietEditsStand
<1>1. MigrationInv => QuietEditsStand
  BY DEF MigrationInv, Carried, QuietEditsStand
<1> QED BY <1>1, MigrationAlways, PTL

\* The loop, which passes no health to the gate, never proposes anything but
\* the step from shadow to the first canary.
THEOREM ShadowOnly == Spec => []ProposesOnlyFromShadow
<1>1. MigrationInv => ProposesOnlyFromShadow
  BY DEF MigrationInv, Histories, SoundState, Sound, ProposesOnlyFromShadow
<1> QED BY <1>1, MigrationAlways, PTL
-----------------------------------------------------------------------------
(* The history *)

\* No round is in a history twice.
Distinct(runs) ==
    \A i, j \in DOMAIN runs : runs[i].round = runs[j].round => i = j

\* Trimming drops a prefix: what is left ends with the same run, and no round
\* is in it twice if none was.
LEMMA TrimTail ==
    ASSUME NEW runs \in Seq(Run), Len(runs) > 0
    PROVE  /\ Len(Trim(runs)) > 0 /\ Last(Trim(runs)) = Last(runs)
           /\ Distinct(runs) => Distinct(Trim(runs))
<1> DEFINE n == Len(runs)
           m == IF n <= History THEN 1 ELSE n - History + 1
           tail == SubSeq(runs, m, n)
<1>1. n \in Nat \ {0} /\ History \in Nat \ {0}
  BY HistoryAssumption, LenProperties
<1>2. m \in 1..n
  BY <1>1
<1>3. Trim(runs) = tail
  BY DEF Trim
<1> HIDE DEF n, m
<1>4. DOMAIN runs = 1..n /\ \A i \in m..n : runs[i] \in Run
  BY <1>1, <1>2, LenProperties DEF n
<1>5. /\ tail \in Seq(Run) /\ Len(tail) = n - m + 1
      /\ \A i \in 1..(n - m + 1) : tail[i] = runs[m + i - 1]
  <2>1. m \in Int /\ n \in Int /\ m <= n
    BY <1>1, <1>2
  <2> QED BY <2>1, <1>4, SubSeqProperties
<1>6. DOMAIN tail = 1..(n - m + 1)
  BY <1>5, LenProperties
<1> HIDE DEF tail
<1>7. Last(tail) = Last(runs)
  <2>1. tail[n - m + 1] = runs[n]
    BY <1>1, <1>2, <1>5
  <2> QED BY <2>1, <1>5 DEF Last, n
<1>8. ASSUME Distinct(runs) PROVE Distinct(tail)
  <2> SUFFICES ASSUME NEW i \in 1..(n - m + 1), NEW j \in 1..(n - m + 1),
                      tail[i].round = tail[j].round
               PROVE  i = j
    BY <1>6 DEF Distinct
  <2>1. m + i - 1 \in 1..n /\ m + j - 1 \in 1..n
    BY <1>1, <1>2
  <2>2. runs[m + i - 1].round = runs[m + j - 1].round
    BY <1>5
  <2>3. m + i - 1 = m + j - 1
    BY <1>4, <1>8, <2>1, <2>2 DEF Distinct
  <2> QED BY <1>2, <2>3
<1> QED BY <1>1, <1>2, <1>3, <1>5, <1>7, <1>8

\* Every run in a history is one of a round that is over, where rounds are at a.
Closed(a, runs) ==
    \A i \in DOMAIN runs : runs[i].round \in Rounds /\ a[runs[i].round] = "exited"

\* The file holds rounds that are over, once each, the one saved last at the end.
FileTallied(a, f, last) ==
    f # Nothing => /\ Len(f.runs) > 0 /\ Last(f.runs) = last
                   /\ Distinct(f.runs) /\ Closed(a, f.runs)

\* A round under way holds such a history, and its own run behind it once it
\* has stepped.
RoundTallied(a, r, s) ==
    /\ a[r] = "loaded" => Distinct(s.runs) /\ Closed(a, s.runs)
    /\ a[r] = "stepped" =>
         /\ Len(s.runs) > 0 /\ Distinct(s.runs) /\ Last(s.runs).round = r
         /\ \A i \in 1..(Len(s.runs) - 1) :
                s.runs[i].round \in Rounds /\ a[s.runs[i].round] = "exited"

Tallied ==
    /\ FileTallied(at, file, saved)
    /\ \A r \in Rounds : RoundTallied(at, r, state[r])

\* A round that is over stays over.
Onward(a, b) == \A q \in Rounds : a[q] = "exited" => b[q] = "exited"

\* What rounds have counted stays true while others move on.
LEMMA StillTallied ==
    ASSUME NEW a, NEW b, Onward(a, b)
    PROVE  /\ \A runs : Closed(a, runs) => Closed(b, runs)
           /\ \A f, last : FileTallied(a, f, last) => FileTallied(b, f, last)
           /\ \A r \in Rounds : \A s :
                a[r] = b[r] /\ RoundTallied(a, r, s) => RoundTallied(b, r, s)
<1>1. \A runs : Closed(a, runs) => Closed(b, runs)
  BY DEF Onward, Closed
<1>2. ASSUME NEW r \in Rounds, NEW s, a[r] = b[r], RoundTallied(a, r, s)
      PROVE  RoundTallied(b, r, s)
  <2>1. CASE a[r] = "loaded"
    BY <1>1, <1>2, <2>1 DEF RoundTallied
  <2>2. CASE a[r] = "stepped"
    BY <1>2, <2>2 DEF RoundTallied, Onward
  <2>3. CASE a[r] \notin {"loaded", "stepped"}
    BY <1>2, <2>3 DEF RoundTallied
  <2> QED BY <2>1, <2>2, <2>3
<1> QED BY <1>1, <1>2 DEF FileTallied

\* A step of one round leaves the tally of the others.
LEMMA OthersTallied ==
    ASSUME Tallied, Onward(at, at'), NEW r \in Rounds,
           \A q \in Rounds \ {r} : at'[q] = at[q] /\ state'[q] = state[q],
           FileTallied(at', file', saved'), RoundTallied(at', r, state'[r])
    PROVE  Tallied'
<1>1. ASSUME NEW q \in Rounds \ {r} PROVE RoundTallied(at', q, state'[q])
  <2>1. RoundTallied(at, q, state[q])
    BY DEF Tallied
  <2> HIDE DEF Tallied
  <2> QED BY <2>1, StillTallied
<1> QED BY <1>1 DEF Tallied

\* load_state hands out the closed history of the file, or an empty one.
LEMMA LoadTallies ==
    ASSUME MigrationInv, Tallied, NEW r \in Rounds, Load(r)
    PROVE  Tallied'
<1>1. /\ at[r] = "idle" /\ at \in [Rounds -> {"idle", "exited"} \cup UnderWay]
      /\ state \in [Rounds -> State \cup {Nothing}]
      /\ UNCHANGED <<file, saved>>
  BY DEF Load, MigrationInv, Shapes
<1>2. /\ at'[r] \in {"loaded", "exited"}
      /\ \A q \in Rounds \ {r} : at'[q] = at[q] /\ state'[q] = state[q]
      /\ at'[r] = "loaded" =>
             state'[r] = IF file = Nothing THEN NewState(candidate[r]) ELSE file
  BY <1>1 DEF Load
<1>3. Onward(at, at')
  BY <1>1, <1>2 DEF Onward
<1>4. FileTallied(at', file', saved')
  BY <1>1, <1>3, StillTallied DEF Tallied
<1>5. RoundTallied(at', r, state'[r])
  <2>1. CASE at'[r] = "exited"
    BY <2>1 DEF RoundTallied
  <2>2. CASE at'[r] = "loaded" /\ file = Nothing
    <3>1. state'[r].runs = <<>>
      BY <1>2, <2>2 DEF NewState
    <3> QED BY <2>2, <3>1 DEF RoundTallied, Distinct, Closed
  <2>3. CASE at'[r] = "loaded" /\ file # Nothing
    BY <1>1, <1>2, <1>4, <2>3 DEF RoundTallied, FileTallied
  <2> QED BY <1>2, <2>1, <2>2, <2>3
<1> QED BY <1>2, <1>3, <1>4, <1>5, OthersTallied

\* step puts the round's own run behind a history of rounds that are over.
LEMMA StepTallies ==
    ASSUME MigrationInv, Tallied, NEW r \in Rounds, Step(r)
    PROVE  Tallied'
<1>1. /\ at[r] = "loaded" /\ at \in [Rounds -> {"idle", "exited"} \cup UnderWay]
      /\ state \in [Rounds -> State \cup {Nothing}] /\ state[r] \in State
      /\ at' = [at EXCEPT ![r] = "stepped"] /\ UNCHANGED <<file, saved>>
  BY DEF Step, MigrationInv, Shapes, Histories, UnderWay, SoundState
<1>2. PICK run : run.round = r /\ state' = [state EXCEPT ![r].runs = Append(@, run)]
  BY DEF Step
<1> DEFINE runs == state[r].runs
           longer == Append(runs, run)
<1>3. Distinct(runs) /\ Closed(at, runs) /\ runs \in Seq(Run)
  BY <1>1 DEF Tallied, RoundTallied, State
<1>4. /\ \A q \in Rounds \ {r} : at'[q] = at[q] /\ state'[q] = state[q]
      /\ at'[r] = "stepped" /\ state'[r].runs = longer
  BY <1>1, <1>2 DEF State
<1>5. Onward(at, at')
  BY <1>1 DEF Onward
<1> HIDE DEF runs
<1>6. DOMAIN runs = 1..Len(runs) /\ Len(runs) \in Nat
  BY <1>3, LenProperties
<1>7. /\ Len(longer) = Len(runs) + 1 /\ DOMAIN longer = 1..(Len(runs) + 1)
      /\ longer[Len(runs) + 1] = run
      /\ \A i \in 1..Len(runs) : longer[i] = runs[i]
  BY <1>3, <1>6
<1> HIDE DEF longer
<1>8. \A i \in 1..Len(runs) :
          /\ longer[i].round \in Rounds /\ at'[longer[i].round] = "exited"
          /\ longer[i].round # r
  BY <1>1, <1>3, <1>5, <1>6, <1>7 DEF Closed, Onward
<1>9. Distinct(longer)
  BY <1>2, <1>3, <1>6, <1>7, <1>8 DEF Distinct
<1>10. Len(longer) > 0 /\ Last(longer).round = r /\ Len(longer) - 1 = Len(runs)
  BY <1>2, <1>6, <1>7 DEF Last
<1>11. RoundTallied(at', r, state'[r])
  BY <1>4, <1>8, <1>9, <1>10 DEF RoundTallied
<1>12. FileTallied(at', file', saved')
  BY <1>1, <1>5, StillTallied DEF Tallied
<1> QED BY <1>4, <1>5, <1>11, <1>12, OthersTallied

\* save_state replaces the file by a history in which only the round's run is new.
LEMMA SaveTallies ==
    ASSUME MigrationInv, Tallied, NEW r \in Rounds, Save(r)
    PROVE  Tallied'
<1>1. /\ at[r] = "stepped" /\ at \in [Rounds -> {"idle", "exited"} \cup UnderWay]
      /\ state \in [Rounds -> State \cup {Nothing}] /\ SoundState(state[r])
      /\ at' = [at EXCEPT ![r] = "exited"] /\ state' = [state EXCEPT ![r] = Nothing]
      /\ file' = [state[r] EXCEPT !.runs = Trim(@)] /\ saved' = Last(state[r].runs)
  BY DEF Save, MigrationInv, Shapes, Histories, UnderWay
<1> DEFINE runs == state[r].runs
<1>2. runs \in Seq(Run) /\ file'.runs = Trim(runs) /\ saved' = Last(runs)
  BY <1>1 DEF SoundState, State
<1>3. /\ Len(runs) > 0 /\ Distinct(runs) /\ Last(runs).round = r
      /\ \A i \in 1..(Len(runs) - 1) :
             runs[i].round \in Rounds /\ at[runs[i].round] = "exited"
  BY <1>1 DEF Tallied, RoundTallied
<1>4. /\ \A q \in Rounds \ {r} : at'[q] = at[q] /\ state'[q] = state[q]
      /\ at'[r] = "exited"
  BY <1>1
<1>5. Onward(at, at')
  BY <1>1 DEF Onward
<1> HIDE DEF runs
<1>6. DOMAIN runs = 1..Len(runs) /\ Len(runs) \in Nat
  BY <1>2, LenProperties
<1>7. Closed(at', runs)
  <2>1. runs[Len(runs)].round = r
    BY <1>3 DEF Last
  <2> QED BY <1>3, <1>4, <1>5, <1>6, <2>1 DEF Closed, Onward
<1>8. Len(Trim(runs)) > 0 /\ Last(Trim(runs)) = Last(runs) /\ Distinct(Trim(runs))
  BY <1>2, <1>3, TrimTail
<1>9. Closed(at', Trim(runs))
  <2>1. \A i \in DOMAIN Trim(runs) : \E j \in DOMAIN runs : Trim(runs)[i] = runs[j]
    BY <1>2, TrimKeeps
  <2> QED BY <1>7, <2>1 DEF Closed
<1>10. FileTallied(at', file', saved')
  BY <1>2, <1>8, <1>9 DEF FileTallied
<1>11. RoundTallied(at', r, state'[r])
  BY <1>4 DEF RoundTallied
<1> QED BY <1>4, <1>5, <1>10, <1>11, OthersTallied

\* The history the loop keeps is tallied, whoever overlaps with whom.
LEMMA TallyStep == MigrationInv /\ Tallied /\ [Next]_vars => Tallied'
<1> SUFFICES ASSUME MigrationInv, Tallied, [Next]_vars PROVE Tallied'
  OBVIOUS
<1>1. ASSUME NEW r \in Rounds, Exit(r) PROVE Tallied'
  <2>1. /\ \A q \in Rounds \ {r} : at'[q] = at[q] /\ state'[q] = state[q]
        /\ at'[r] = "exited" /\ UNCHANGED <<file, saved>>
    BY <1>1 DEF Exit, MigrationInv, Shapes
  <2>2. Onward(at, at')
    BY <2>1 DEF Onward
  <2>3. FileTallied(at', file', saved')
    BY <2>1, <2>2, StillTallied DEF Tallied
  <2>4. RoundTallied(at', r, state'[r])
    BY <2>1 DEF RoundTallied
  <2> QED BY <2>1, <2>2, <2>3, <2>4, OthersTallied
<1>2. ASSUME NEW rung \in Rungs, SetStage(rung) PROVE Tallied'
  <2>1. /\ file # Nothing /\ file \in State
        /\ file'.runs = file.runs /\ UNCHANGED <<at, state, saved>>
    BY <1>2 DEF SetStage, MigrationInv, Histories, SoundState, State
  <2> QED BY <2>1 DEF Tallied, FileTallied
<1>3. CASE Finish
  BY <1>3 DEF Finish, Tallied, FileTallied
<1>4. CASE UNCHANGED vars
  BY <1>4 DEF vars, Tallied
<1> QED BY <1>1, <1>2, <1>3, <1>4, LoadTallies, StepTallies, SaveTallies DEF Next

\* However rounds overlap, the file ends with the run that was saved last, and
\* no round is in it twice (migrate.py, save_state).
THEOREM LatestStays == Spec => []LatestRunKept
<1>1. Init => Tallied
  BY DEF Init, Tallied, FileTallied, RoundTallied
<1>2. MigrationInv /\ Tallied => LatestRunKept
  <2> SUFFICES ASSUME MigrationInv, Tallied, file # Nothing
               PROVE  /\ file.runs # <<>> /\ Last(file.runs) = saved
                      /\ Distinct(file.runs)
    BY DEF LatestRunKept, Distinct
  <2>1. Len(file.runs) > 0 /\ Last(file.runs) = saved /\ Distinct(file.runs)
    BY DEF Tallied, FileTallied
  <2> QED BY <2>1
<1> QED BY <1>1, <1>2, TallyStep, MigrationAlways, PTL DEF Spec

\* The file of a migration is its history: one candidate's, complete to the last
\* run and without repetition (migrate.py, load_state and save_state).
THEOREM HistoriesSound == Spec => []HistorySound
BY OneMigration, LatestStays, PTL DEF HistorySound
=============================================================================
