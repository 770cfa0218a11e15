------------------------------- MODULE Report -------------------------------
(***************************************************************************)
(* From answers to a sealed claim: the suite (prove/__init__.py), the      *)
(* report (prove/equivalence.py), the receipt (prove/receipt.py), the      *)
(* money (prove/cost.py) and the guard that says when a receipt has        *)
(* stopped holding (guard.py).  Pure definitions, used by Evidence.        *)
(*                                                                         *)
(* Shares are in tenths of the traffic, an interval is the counts it       *)
(* follows from, a digest is the content it covers.                        *)
(***************************************************************************)
EXTENDS Graders, FiniteSetsExt, SequencesExt, Functions

CONSTANTS Clusters,             \* cluster keys
          MaxProjectedSamples,  \* bound: stands for the 100 000 of stats.py
          MinWindowDays,        \* cost.MIN_WINDOW_DAYS
          MaxReceiptAgeDays     \* guard.MAX_RECEIPT_AGE_DAYS

ASSUME ReportAssumption ==
    {MaxProjectedSamples, MinWindowDays, MaxReceiptAgeDays} \subseteq Nat \ {0}

None == [none |-> TRUE]                        \* Python's None
Refused(why) == [refused |-> why]              \* a ValueError
IsRefused(x) == "refused" \in DOMAIN x

\* prove/gate.py's intervals, at a bar of the caller's, a fraction.
At(bar) == INSTANCE Gate WITH Names <- Clusters, Bar <- bar
Counts(passed, total) == [passed |-> passed, total |-> total, judge_only |-> FALSE]
ClearlyAbove(passed, total, bar) == total > 0 /\ At(bar)!ClearlyAbove(Counts(passed, total))
ClearlyBelow(passed, total, bar) == total > 0 /\ At(bar)!ClearlyBelow(Counts(passed, total))

CheckBar(bar) == bar \in Int \X Int /\ 0 < bar[1] /\ bar[1] < bar[2]
CheckShare(share) == share \in 0..10

SumOver(f, S) == FoldFunctionOnSet(+, 0, f, S)

-----------------------------------------------------------------------------
(* prove/stats.py                                                          *)

\* Python's round(): to the nearest, halves to the even one.
Round(a, b) ==
    LET q == a \div b  r == a % b
    IN  IF 2 * r < b \/ (2 * r = b /\ q % 2 = 0) THEN q ELSE q + 1

\* How many items clear the bar at the observed rate; None if none will.
SamplesNeeded(passed, total, bar) ==
    IF total = 0 \/ bar[2] * passed <= bar[1] * total THEN None
    ELSE LET enough == {n \in total..MaxProjectedSamples :
                            ClearlyAbove(Round(passed * n, total), n, bar)}
         IN  IF enough = {} THEN None ELSE [n |-> Min(enough)]

\* weighted_point: the best report is chosen by it.  None with nothing to weigh.
WeightedScore(scores) ==
    LET usable == {s \in scores : s.total > 0 /\ s.share > 0}
    IN  IF usable = {} THEN None ELSE [over |-> usable]

-----------------------------------------------------------------------------
(* The suite                                                               *)

\* shares_from_clusters, in captures: the sizes of what was captured.
SharesFromClusters(sizes) ==
    LET total == SumOver(sizes, DOMAIN sizes)
    IN  IF total = 0 THEN Refused("no captures")
        ELSE [c \in DOMAIN sizes |-> (10 * sizes[c]) \div total]

\* Clusters with traffic for which the eval set holds nothing.
Uncovered(shares, covered) == {c \in DOMAIN shares : shares[c] > 0 /\ c \notin covered}

\* The scores of one item, the judge's two answers included when there is one.
ItemScores(i, judge) ==
    IF judge = None THEN Grade(i)
    ELSE Judged(Grade(i), judge.first[i.merit], judge.second[i.merit])

\* One observation for each distinct prompt: its copies' scores together
\* (_merge), so that it passes only if all of them do.
Copies(items, c, p) == {k \in DOMAIN items : items[k].cluster = c /\ items[k].prompt = p}
Merged(items, copies, judge) == UNION {ItemScores(items[k], judge) : k \in copies}
Observations(items, c, judge) ==
    {<<p, Merged(items, Copies(items, c, p), judge)>> :
        p \in {items[k].prompt : k \in {n \in DOMAIN items : items[n].cluster = c}}}

\* The judge's calibration, over the observations of every cluster.
Calibration(items, judge) ==
    Calibrate([x \in {<<items[k].cluster, items[k].prompt>> : k \in DOMAIN items} |->
                  Merged(items, Copies(items, x[1], x[2]), judge)])

\* score_cluster: what no grader had a word on is counted apart.
ScoreCluster(c, share, observations, copies) ==
    LET graded == {o \in observations : Graded(o[2])}
        passed == {o \in graded : Passed(o[2])}
    IN  [cluster |-> c, share |-> share,
         passed |-> Cardinality(passed), total |-> Cardinality(graded),
         ungraded |-> Cardinality(observations \ graded),
         duplicates |-> copies - Cardinality(observations)]

\* Mutant: a cluster the eval set never asked about is left out.
RunCoveredOnly(items, shares, judge) ==
    {ScoreCluster(c, IF c \in DOMAIN shares THEN shares[c] ELSE 0,
                  Observations(items, c, judge),
                  Cardinality({n \in DOMAIN items : items[n].cluster = c})) :
         c \in {items[k].cluster : k \in DOMAIN items}}

\* run(): a score for every cluster asked about, and one without evidence for
\* each that carries traffic and was not.
Run(items, shares, judge) ==
    LET asked == {items[k].cluster : k \in DOMAIN items}
        count(c) == Cardinality({n \in DOMAIN items : items[n].cluster = c})
        share(c) == IF c \in DOMAIN shares THEN shares[c] ELSE 0
    IN  {ScoreCluster(c, share(c), Observations(items, c, judge), count(c)) :
             c \in asked \cup Uncovered(shares, asked)}

-----------------------------------------------------------------------------
(* The report                                                              *)

\* ClusterScore.band, by the whole interval.
Band(s, bar) ==
    IF s.total = 0 THEN "unknown"
    ELSE IF ClearlyAbove(s.passed, s.total, bar) THEN "equivalent"
    ELSE IF ClearlyBelow(s.passed, s.total, bar) THEN "regressed"
    ELSE "unproven"

\* CandidateReport.__post_init__: the shares' sum, not only each of them.
SharesFit(scores) == MapThenSumSet(LAMBDA s : s.share, scores) <= 10

MovableShare(scores, bar) ==
    MapThenSumSet(LAMBDA s : IF Band(s, bar) = "equivalent" THEN s.share ELSE 0, scores)

\* Matrix.hybrid_for: what to do about the traffic there is.
HybridFor(scores, bar) ==
    [moved |-> MovableShare(scores, bar),
     regret |-> {s.cluster : s \in {x \in scores : Band(x, bar) = "regressed"}},
     unproven |-> {s.cluster : s \in {x \in scores :
                       x.share > 0 /\ Band(x, bar) \in {"unproven", "unknown"}}}]

-----------------------------------------------------------------------------
(* The money                                                               *)

\* blended: what moved costs the candidate's rate, the rest the incumbent's
\* (times ten).
Blended(incumbent, candidate, share) == candidate * share + incumbent * (10 - share)

\* saving(): the point of the range, or why there is none.  A cost of 0 is a
\* cost that was not given.
Saving(incumbent, candidate, share, captures, days) ==
    IF incumbent = 0 \/ candidate = 0 THEN Refused("no rate")
    ELSE IF captures = 0 THEN Refused("no captures")
    ELSE IF days = None THEN Refused("window unread")
    ELSE IF days.n < MinWindowDays THEN Refused("window too short")
    ELSE [point |-> 10 * incumbent - Blended(incumbent, candidate, share)]

-----------------------------------------------------------------------------
(* The receipt                                                             *)

\* Claim.of
ClaimOf(s, bar) ==
    [cluster |-> s.cluster, share |-> s.share, passed |-> s.passed, total |-> s.total,
     ungraded |-> s.ungraded, duplicates |-> s.duplicates,
     interval |-> <<s.passed, s.total>>,
     needed |-> IF Band(s, bar) = "equivalent" THEN None
                ELSE SamplesNeeded(s.passed, s.total, bar)]

Claims(r) == r.proven \o r.regret \o r.unproven
ClaimSet(r) == ToSet(Claims(r))

\* Claim.__post_init__
ClaimStands(c) ==
    /\ CheckShare(c.share)
    /\ {c.passed, c.total, c.ungraded, c.duplicates} \subseteq Nat
    /\ c.passed <= c.total
    /\ c.total > 0 => c.interval = <<c.passed, c.total>>

\* The group a claim's own interval puts it in.
Belongs(c, bar) ==
    IF c.total = 0 THEN "unproven"
    ELSE IF ClearlyAbove(c.interval[1], c.interval[2], bar) THEN "proven"
    ELSE IF ClearlyBelow(c.interval[1], c.interval[2], bar) THEN "regret"
    ELSE "unproven"

\* Mutant: a claim is taken in the group it is filed under.
FiledAsStated(r) == TRUE

FiledWhereItBelongs(r) ==
    \A g \in {"proven", "regret", "unproven"} : \A c \in ToSet(r[g]) :
        /\ Belongs(c, r.bar) = g
        /\ c.needed = IF g = "proven" THEN None ELSE SamplesNeeded(c.passed, c.total, r.bar)

\* Each cluster in one group, and once.
NamedOnce(r) == IsInjective([k \in DOMAIN Claims(r) |-> Claims(r)[k].cluster])

TotalShare(claims) == FoldSeq(LAMBDA c, sum : c.share + sum, 0, claims)

\* Receipt.__post_init__: the groups are tuples, by _check_declared_types.
ReceiptStands(r) ==
    /\ \A g \in {"proven", "regret", "unproven"} : r[g] \in Seq(ToSet(r[g]))
    /\ CheckBar(r.bar)
    /\ r.format = "v1" => r.incumbent_cost = 0 /\ r.candidate_cost = 0
    /\ r.incumbent_cost >= 0 /\ r.candidate_cost >= 0
    /\ \A c \in ClaimSet(r) : ClaimStands(c)
    /\ FiledWhereItBelongs(r)
    /\ NamedOnce(r)
    /\ TotalShare(Claims(r)) <= 10

ReceiptMovable(r) == TotalShare(r.proven)
ReceiptSaving(r) == Saving(r.incumbent_cost, r.candidate_cost, ReceiptMovable(r),
                           r.captures, r.window)

\* eval_set_digest: the questions, in no order; not the answers.
EvalSetDigest(items) ==
    [q \in {<<items[k].id, items[k].cluster, items[k].prompt>> : k \in DOMAIN items} |->
        Cardinality({k \in DOMAIN items :
                         <<items[k].id, items[k].cluster, items[k].prompt>> = q})]

\* Receipt.digest: a v1 document was sealed before there were costs.
CostFields == {"incumbent_cost", "candidate_cost"}
DigestOf(r) == IF r.format = "v1" THEN Restrict(r, DOMAIN r \ CostFields) ELSE r

\* The scores in the order of their clusters.
InOrder(S) == SetToSeq(S)

\* issue(): every score in exactly one group.
Issue(scores, bar, meta, evalset, captures) ==
    LET group(bands) ==
            LET mine == InOrder({s \in scores : Band(s, bar) \in bands})
            IN  [k \in DOMAIN mine |-> ClaimOf(mine[k], bar)]
        found == [bar |-> bar, eval_set |-> evalset, captures |-> captures,
                  proven |-> group({"equivalent"}), regret |-> group({"regressed"}),
                  unproven |-> group({"unknown", "unproven"})]
    IN  [f \in DOMAIN found \cup DOMAIN meta |-> IF f \in DOMAIN found THEN found[f] ELSE meta[f]]

\* suite(): run, then a receipt of the one candidate.  The eval set stands for
\* the captures only if it covers the traffic.
Suite(items, shares, judge, bar, meta, captures) ==
    LET scores == Run(items, shares, judge)
        asked == {items[k].cluster : k \in DOMAIN items}
        drawn == IF captures > 0 THEN captures
                 ELSE IF Uncovered(shares, asked) # {} THEN 0 ELSE Len(items)
    IN  IF items = <<>> THEN Refused("empty eval set")
        ELSE IF ~CheckBar(bar) THEN Refused("bar")
        ELSE IF \E c \in DOMAIN shares : ~CheckShare(shares[c]) THEN Refused("share")
        ELSE IF ~SharesFit(scores) THEN Refused("shares")
        ELSE IF WeightedScore(scores) = None THEN Refused("nothing to weigh")
        ELSE Issue(scores, bar, meta, EvalSetDigest(items), drawn)

\* to_json
ToJson(r) == [receipt |-> r, digest |-> DigestOf(r)]

SupportedFormats == {"v1", "v2"}

\* from_json: whatever is not a receipt that follows from its own counts, and
\* matches the digest stated beside it, is refused.
FromJson(doc) ==
    IF "receipt" \notin DOMAIN doc THEN Refused("not an object")
    ELSE IF doc.receipt.format \notin SupportedFormats THEN Refused("format")
    ELSE IF ~ReceiptStands(doc.receipt) THEN Refused("does not follow")
    ELSE IF "digest" \notin DOMAIN doc THEN Refused("no digest")
    ELSE IF doc.digest # DigestOf(doc.receipt) THEN Refused("altered")
    ELSE doc.receipt

\* Mutant: the day it was issued is evidence too.
EvidenceDigestDated(r) == r

\* What was measured, without when and by which build.
EvidenceDigest(r) == Restrict(r, DOMAIN r \ {"issued", "tool_version"})

\* verify(): the kinds of discrepancy between a receipt and a fresh run.
Verify(receipt, rerun) ==
    LET claim(r, c) == {x \in ClaimSet(r) : x.cluster = c}
        shown(r, c) == {<<x.passed, x.total, x.duplicates, x.needed>> : x \in claim(r, c)}
        named == {x.cluster : x \in ClaimSet(receipt) \cup ClaimSet(rerun)}
        both == DOMAIN receipt.fingerprints \cap DOMAIN rerun.fingerprints
        found == {f \in {"eval_set", "bar", "incumbent", "candidate"} :
                      receipt[f] # rerun[f]}
                 \cup {m \in both : receipt.fingerprints[m] # rerun.fingerprints[m]}
                 \cup {c \in named : shown(receipt, c) # shown(rerun, c)}
    IN  IF EvidenceDigest(receipt) = EvidenceDigest(rerun) THEN {}
        ELSE IF found = {} THEN {"digest"} ELSE found

-----------------------------------------------------------------------------
(* The guard                                                               *)

\* Mutant: each cluster's difference is halved twice.
MovedTooFarHalved(before, now) ==
    LET keys == DOMAIN before \cup DOMAIN now
        a == SumOver(before, DOMAIN before)  b == SumOver(now, DOMAIN now)
        was(k) == IF k \in DOMAIN before THEN before[k] ELSE 0
        is(k) == IF k \in DOMAIN now THEN now[k] ELSE 0
    IN  a > 0 /\ b > 0 /\ 5 * MapThenSumSet(LAMBDA k : Abs(was(k) * b - is(k) * a), keys) > 4 * a * b

\* traffic_distance over the limit of a fifth.  The mixes are normalised; an
\* empty one is at no distance from anything.
MovedTooFar(before, now) ==
    LET keys == DOMAIN before \cup DOMAIN now
        a == SumOver(before, DOMAIN before)  b == SumOver(now, DOMAIN now)
        was(k) == IF k \in DOMAIN before THEN before[k] ELSE 0
        is(k) == IF k \in DOMAIN now THEN now[k] ELSE 0
    IN  a > 0 /\ b > 0 /\ 5 * MapThenSumSet(LAMBDA k : Abs(was(k) * b - is(k) * a), keys) > 2 * a * b

\* More than a tenth of the traffic in clusters the receipt never scored.
UncoveredTooMuch(scored, traffic) ==
    10 * SumOver(traffic, DOMAIN traffic \ scored) > SumOver(traffic, DOMAIN traffic)

\* check(): what has moved since the receipt was issued.  Models and traffic
\* nobody looked at are not reported as moved.
Check(r, today, fingerprints, traffic, available) ==
    LET mix == [c \in {x.cluster : x \in ClaimSet(r)} |->
                    (CHOOSE x \in ClaimSet(r) : x.cluster = c).share]
        looked == DOMAIN fingerprints \cap DOMAIN r.fingerprints
    IN  {k \in {"uncheckable", "model_changed", "traffic_uncovered", "traffic_moved",
                "aged", "new_candidate"} :
            CASE k = "uncheckable"   -> fingerprints # <<>> /\ r.fingerprints = <<>>
              [] k = "model_changed" -> \E m \in looked : fingerprints[m] # r.fingerprints[m]
              [] k = "traffic_uncovered" ->
                     traffic # <<>> /\ UncoveredTooMuch(DOMAIN mix, traffic)
              [] k = "traffic_moved" -> traffic # <<>> /\ MovedTooFar(mix, traffic)
              [] k = "aged"          -> today - r.issued > MaxReceiptAgeDays
              [] k = "new_candidate" -> available \ {r.candidate, r.incumbent} # {}}

Invalidating == {"model_changed", "traffic_uncovered", "traffic_moved"}

\* Proposal.valid and Proposal.action
Holds(findings) == findings \cap Invalidating = {}
Proposed(findings) ==
    IF findings = {} THEN "nothing"
    ELSE IF "model_changed" \in findings THEN "re-prove now"
    ELSE IF findings \cap Invalidating # {} THEN "re-sample and re-prove"
    ELSE IF "uncheckable" \in findings THEN "re-issue with fingerprints"
    ELSE IF "aged" \in findings THEN "re-prove when convenient"
    ELSE "evaluate when convenient"
=============================================================================
