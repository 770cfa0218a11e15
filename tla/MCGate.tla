------------------------------ MODULE MCGate --------------------------------
(* The gate, asked at any moment of a rollout of two clusters with evidence  *)
(* on both sides of every threshold; and asked by three rounds of the loop,  *)
(* for two candidates, over a file that keeps two runs.  They share the gate *)
(* and no state: a behaviour is one or the other.                            *)
EXTENDS Rollout, Migration, TLC

BarDef == <<9, 10>>

\* Counts: none, too few, enough for confidence, suspicious but inconclusive,
\* inconclusive, proven below, the smallest perfect score that proves a 90%
\* bar and the one just short of it.
Counts == {<<0, 0>>, <<7, 7>>, <<8, 8>>, <<9, 12>>, <<30, 32>>, <<2, 40>>,
           <<34, 34>>, <<35, 35>>}
EvidenceDef == {[passed |-> k[1], total |-> k[2], judge_only |-> j] :
                   k \in Counts, j \in BOOLEAN}
               \ {[passed |-> 0, total |-> 0, judge_only |-> TRUE]}

H(r, e, br, be, b95, c95) ==
    [requests |-> r, errors |-> e, baseline_requests |-> br, baseline_errors |-> be,
     baseline_p95_ms |-> b95, candidate_p95_ms |-> c95]
\* Too few requests; healthy at the margin; failing against the baseline;
\* failing against none; exactly twice as slow; slower than that.
HealthDef == {H(19, 19, 0, 0, 0, 0), H(100, 3, 100, 1, 200, 400), H(20, 1, 100, 1, 0, 0),
              H(100, 3, 0, 0, 0, 0), H(100, 0, 0, 0, 200, 401)}

Graded(passed, total) == [passed |-> passed, total |-> total, judge_only |-> FALSE]
\* Everything proven; one cluster suspicious; one proven below the bar; too
\* little to say.
SuitesDef ==
    {"extract" :> Graded(35, 35) @@ "classify" :> e :
        e \in {Graded(35, 35), Graded(9, 12), Graded(2, 40), Graded(7, 7)}}
RoundSym == Permutations(Rounds)

MCInit == RolloutInit /\ Init
MCNext == \/ file = Nothing /\ Quiet /\ (\A r \in Rounds : at[r] = "idle")
             /\ (\A r \in Rounds : candidate[r] = CHOOSE m \in Candidates : TRUE)
             /\ RolloutNext /\ UNCHANGED vars
          \/ readings = <<>> /\ health = Nothing /\ pinned = {} /\ agreementOk /\ calibrated
             /\ Next /\ UNCHANGED rolloutVars
mcvars == <<rolloutVars, vars>>
MCSpec == MCInit /\ [][MCNext]_mcvars
=============================================================================
