------------------------------ MODULE Graders -------------------------------
(***************************************************************************)
(* How one eval item is scored: the deterministic graders                  *)
(* (prove/graders.py) and the judge that breaks what they leave open       *)
(* (prove/judge.py and endpoint_judge of prove/collect.py).  Pure          *)
(* definitions, used by Report.                                            *)
(*                                                                         *)
(* A text is a record of what the graders read in it: whether it is blank, *)
(* whether it parses as JSON (no, a value, an object) and with which keys, *)
(* its words, whether it reads as a sentence, its label once the wrapping  *)
(* punctuation is off, its numbers and the files of its diff.              *)
(***************************************************************************)
EXTENDS Integers, Sequences, FiniteSets

Abs(n) == IF n < 0 THEN -n ELSE n

-----------------------------------------------------------------------------
(* Scores                                                                  *)

\* Score: its tier, and the outcome; "n/a" is never a pass.
Score(tier, outcome) == [tier |-> tier, outcome |-> outcome]
Silent(tier) == Score(tier, "n/a")
Ruled(tier, holds) == Score(tier, IF holds THEN "pass" ELSE "fail")
Applies(s) == s.outcome # "n/a"

-----------------------------------------------------------------------------
(* Tier 1: structure                                                       *)

IsJson(text) == text.json # "none"
IsObject(text) == text.json = "object"

NonEmpty(i) ==
    IF i.baseline.blank THEN Silent("assert")
    ELSE Ruled("assert", ~i.candidate.blank)

JsonValid(i) ==
    IF ~IsJson(i.baseline) THEN Silent("assert")
    ELSE Ruled("assert", IsJson(i.candidate))

JsonShape(i) ==
    IF ~IsObject(i.baseline) THEN Silent("assert")
    ELSE Ruled("assert", IsObject(i.candidate) /\ i.candidate.keys = i.baseline.keys)

\* A call without a name is left out of the list of names.
CallNames(calls) ==
    LET named == SelectSeq(calls, LAMBDA c : c.name # "")
    IN  [k \in DOMAIN named |-> named[k].name]

ToolChoice(i) ==
    IF i.baseline_calls = <<>> THEN Silent("assert")
    ELSE Ruled("assert", CallNames(i.baseline_calls) = CallNames(i.candidate_calls))

\* Argument names only, pair by pair as far as both lists go.
ToolArgs(i) ==
    IF i.baseline_calls = <<>> \/ i.candidate_calls = <<>> THEN Silent("assert")
    ELSE Ruled("assert",
               \A k \in DOMAIN i.baseline_calls \cap DOMAIN i.candidate_calls :
                   i.baseline_calls[k].args \subseteq i.candidate_calls[k].args)

-----------------------------------------------------------------------------
(* Tier 2: the task                                                        *)

ClassificationMaxWords == 3

\* A declared set of answers is authoritative; json_object is no such thing.
LooksLikeALabel(text, format) ==
    \/ format \in {"enum", "json_schema"}
    \/ ~text.blank /\ text.words <= ClassificationMaxWords /\ ~text.sentence

ExactMatch(i) ==
    IF ~LooksLikeALabel(i.baseline, i.format) THEN Silent("task")
    ELSE Ruled("task", i.baseline.label = i.candidate.label)

\* Within a hundredth of the larger.
Close(a, b) ==
    a = b \/ LET scale == IF Abs(a) > Abs(b) THEN Abs(a) ELSE Abs(b)
             IN  100 * Abs(a - b) <= scale

NumericAgreement(i) ==
    IF i.baseline.numbers = {} THEN Silent("task")
    ELSE Ruled("task", \A w \in i.baseline.numbers :
                           \E g \in i.candidate.numbers : Close(w, g))

DiffFiles(i) ==
    IF i.baseline.files = {} THEN Silent("task")
    ELSE Ruled("task", i.baseline.files \subseteq i.candidate.files)

-----------------------------------------------------------------------------
(* One item                                                                *)

\* ItemResult: the scores, as a set; every applicable one must pass.
Applicable(scores) == {s \in scores : Applies(s)}
Graded(scores) == Applicable(scores) # {}

Passed(scores) == Graded(scores) /\ \A s \in Applicable(scores) : s.outcome = "pass"

Grade(i) == {NonEmpty(i), JsonValid(i), JsonShape(i), ToolChoice(i), ToolArgs(i),
             ExactMatch(i), NumericAgreement(i), DiffFiles(i)}

-----------------------------------------------------------------------------
(* The judge                                                               *)

\* _winner: what the judge's text names, when it names exactly one thing.
Winner(named) == IF Cardinality(named) = 1 THEN CHOOSE w \in named : TRUE ELSE ""

\* Reply.as_verdict
AsVerdict(winner, candidateIs) ==
    IF winner = "tie" THEN "equivalent"
    ELSE IF winner \notin {"a", "b"} THEN "uncertain"
    ELSE IF winner = candidateIs THEN "candidate_better" ELSE "baseline_better"

\* Both ways round, and only an answer that survives the swap.  A judge that
\* raises, cannot be reached or names several answers names none here.
JudgeItem(first, second) ==
    LET v1 == AsVerdict(Winner(first), "b")
        v2 == AsVerdict(Winner(second), "a")
    IN  IF v1 = v2 THEN v1 ELSE "uncertain"

Acceptable(verdict) == verdict \in {"equivalent", "candidate_better"}

\* JudgeResult.to_score: a judge that could not decide says nothing.
ToScore(verdict) ==
    IF verdict = "uncertain" THEN Silent("judge")
    ELSE Ruled("judge", Acceptable(verdict))

\* _judged: an item the graders have failed is not sent.
Judged(scores, first, second) ==
    IF Graded(scores) /\ ~Passed(scores) THEN scores
    ELSE scores \cup {ToScore(JudgeItem(first, second))}

\* calibrate: of the results that the judge and a grader both scored, those on
\* which they agree.
By(judging, scores) == {s \in Applicable(scores) : (s.tier = "judge") = judging}
Approves(scores) == \A s \in scores : s.outcome = "pass"
Both(results) ==
    {k \in DOMAIN results : By(TRUE, results[k]) # {} /\ By(FALSE, results[k]) # {}}
Agreed(results) ==
    {k \in Both(results) :
        Approves(By(TRUE, results[k])) = Approves(By(FALSE, results[k]))}
Calibrate(results) ==
    [agreed |-> Cardinality(Agreed(results)), total |-> Cardinality(Both(results))]
=============================================================================
