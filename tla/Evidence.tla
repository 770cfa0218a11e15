------------------------------ MODULE Evidence ------------------------------
(***************************************************************************)
(* The life of a receipt: the suite proves a candidate and writes one, the *)
(* file is edited on the way to its reader, it is read, reproduced by a    *)
(* fresh run and checked by the guard against what production has become.  *)
(***************************************************************************)
EXTENDS Report

CONSTANTS
    Works,       \* what may be proved: items, shares, judge, bar, meta, captures
    Reruns,      \* <<day, build>> at which a proof may be reproduced
    Worlds,      \* what the guard may find: day, fingerprints, traffic, models
    MaxEdits     \* bound: edits of the file

\* A proof is of something, a list of items and shares of finitely many clusters;
\* captured traffic is counted, over clusters there are finitely many of.
ASSUME EvidenceAssumption ==
    /\ None \notin Works
    /\ \A w \in Works : w.items \in Seq(Range(w.items)) /\ IsFiniteSet(DOMAIN w.shares)
    /\ \A w \in Worlds : /\ IsFiniteSet(DOMAIN w.traffic)
                         /\ \A c \in DOMAIN w.traffic : w.traffic[c] \in Nat

VARIABLES
    work,     \* what was proved, None before that
    doc,      \* the file
    edits,    \* what was done to it
    read,     \* what its reader got, None before that
    verdict,  \* what a reproduction said: the discrepancies
    guard     \* the world the guard last saw, and its findings

vars == <<work, doc, edits, read, verdict, guard>>

Init == work = None /\ doc = None /\ edits = <<>> /\ read = None
        /\ verdict = None /\ guard = None

-----------------------------------------------------------------------------
\* `onpar prove --receipt`
Prove ==
    /\ work = None
    /\ \E w \in Works :
        LET r == Suite(w.items, w.shares, w.judge, w.bar, w.meta, w.captures) IN
        /\ work' = w
        /\ doc' = IF IsRefused(r) THEN r ELSE ToJson(r)
    /\ UNCHANGED <<edits, read, verdict, guard>>

Groups == {"proven", "regret", "unproven"}

Recounted(c) ==
    {[c EXCEPT !.passed = @ + 1], [c EXCEPT !.interval = <<c.total, c.total>>],
     [c EXCEPT !.passed = c.total, !.interval = <<c.total, c.total>>],
     [c EXCEPT !.needed = [n |-> 1]], [c EXCEPT !.share = @ + 1]}

\* A receipt with one thing in it changed: a claim filed elsewhere, repeated,
\* left out or recounted, its price or share changed, another bar or format.
Edited(r) ==
    {[r EXCEPT ![p[1]] = Remove(@, c), ![p[2]] = Append(@, c)] :
         p \in {q \in Groups \X Groups : q[1] # q[2]}, c \in ClaimSet(r)}
    \cup {[r EXCEPT ![g] = Remove(@, c)] : g \in Groups, c \in ClaimSet(r)}
    \cup {[r EXCEPT ![g] = Append(@, c)] : g \in Groups, c \in ClaimSet(r)}
    \cup UNION {UNION {{[r EXCEPT ![g][k] = x] : x \in Recounted(r[g][k])} : k \in DOMAIN r[g]} :
                     g \in Groups}
    \cup {[r EXCEPT !.bar = <<r.bar[1] + n, r.bar[2]>>] : n \in {-r.bar[1], -1, 1}}
    \cup {[r EXCEPT !.format = f] : f \in {"v1", "v0"}}
    \cup {[r EXCEPT !.issued = @ + 1]}

\* With the digest left as it was, computed again, or gone; or a file that is
\* no receipt any more.
Edit ==
    /\ doc # None /\ ~IsRefused(doc) /\ read = None /\ Len(edits) < MaxEdits
    /\ "receipt" \in DOMAIN doc
    /\ \/ \E r \in Edited(doc.receipt) :
            \/ doc' = [doc EXCEPT !.receipt = r] /\ edits' = Append(edits, "altered")
            \/ doc' = ToJson(r) /\ edits' = Append(edits, "resealed")
       \/ doc' = [receipt |-> doc.receipt] /\ edits' = Append(edits, "undigested")
       \/ doc' = [text |-> "cut off"] /\ edits' = Append(edits, "cut off")
    /\ UNCHANGED <<work, read, verdict, guard>>

\* `onpar receipt`, and the first step of `guard`
Read ==
    /\ doc # None /\ ~IsRefused(doc) /\ read = None
    /\ read' = FromJson(doc)
    /\ UNCHANGED <<work, doc, edits, verdict, guard>>

Accepted == read # None /\ ~IsRefused(read)

\* The same questions and answers in another order, on another day.
Reproduce ==
    /\ Accepted /\ verdict = None
    /\ \E when \in Reruns :
        LET meta == [work.meta EXCEPT !.issued = when[1], !.tool_version = when[2]]
            again == Suite(Reverse(work.items), work.shares, work.judge,
                           work.bar, meta, work.captures)
        IN  verdict' = [found |-> Verify(read, again)]
    /\ UNCHANGED <<work, doc, edits, read, guard>>

\* `onpar guard`
Guard ==
    /\ Accepted /\ guard = None
    /\ \E w \in Worlds :
        guard' = [world |-> w, found |-> Check(read, w.today, w.fingerprints,
                                               w.traffic, w.available)]
    /\ UNCHANGED <<work, doc, edits, read, verdict>>

Next == Prove \/ Edit \/ Read \/ Reproduce \/ Guard
Spec == Init /\ [][Next]_vars

-----------------------------------------------------------------------------
(* What a receipt promises                                                 *)

\* Whatever was done to the file, a reader that accepts it reads every cluster
\* once, and under "proven" only clusters whose own counts clear the bar: the
\* share said to be movable never rests on how claims were filed.  And a file
\* changed without its digest is never accepted (Receipt.from_json and the two
\* __post_init__s).
AcceptedFollowsFromCounts ==
    Accepted =>
        /\ \A c, d \in ClaimSet(read) : c.cluster = d.cluster => c = d
        /\ Len(Claims(read)) = Cardinality(ClaimSet(read))
        /\ \A c \in ToSet(read.proven) : ClearlyAbove(c.passed, c.total, read.bar)
        /\ \A c \in ClaimSet(read) :
               ClearlyBelow(c.passed, c.total, read.bar) => c \in ToSet(read.regret)
        /\ ReceiptMovable(read) <= 10
        /\ edits \in Seq({"altered"}) /\ edits # <<>> => DigestOf(read) = doc.digest

\* In the receipt as it was issued, every cluster that carries traffic has a
\* claim with its share, asked about or not, and none without a graded answer
\* is proven or regretted (run, score_cluster and issue).
NoTrafficLeftOut ==
    \A k \in DOMAIN work.shares :
        work.shares[k] > 0 =>
            \E c \in ClaimSet(read) :
                /\ c.cluster = k /\ c.share = work.shares[k]
                /\ c.total = 0 => c \in ToSet(read.unproven)

Named(claims) == {c.cluster : c \in ToSet(claims)}
SameSplit(hybrid) ==
    /\ ReceiptMovable(read) = hybrid.moved
    /\ Named(read.regret) = hybrid.regret
    /\ hybrid.unproven \subseteq Named(read.unproven)

\* No money is said to be saved on captures that the eval set did not stand for.
SavingIsCovered ==
    work.captures = 0 /\ ~IsRefused(ReceiptSaving(read)) =>
        Uncovered(work.shares, {work.items[k].cluster : k \in DOMAIN work.items}) = {}

\* A judge is heard only where the graders had not failed the item, so unless a
\* prompt was asked twice all that calibration can hold against it is that it
\* refused too much: one that approves of everything agrees with the graders.
JudgeHeardOnPasses(calibration) ==
    work.judge # None =>
        \/ \E x, y \in DOMAIN work.items :
              x # y /\ work.items[x].cluster = work.items[y].cluster
                    /\ work.items[x].prompt = work.items[y].prompt
        \/ \E m \in {work.items[k].merit : k \in DOMAIN work.items} :
              ~Acceptable(JudgeItem(work.judge.first[m], work.judge.second[m]))
        \/ calibration.agreed = calibration.total

\* What is issued says what the report says: nothing is left out of it, it
\* splits the traffic as the report's own recommendation does, and neither its
\* saving nor its judge is vouched for further than was looked at.
IssuedSaysTheReport ==
    Accepted /\ edits = <<>> =>
        /\ NoTrafficLeftOut
        /\ SameSplit(HybridFor(Run(work.items, work.shares, work.judge), work.bar))
        /\ SavingIsCovered
        /\ JudgeHeardOnPasses(Calibration(work.items, work.judge))

\* What a receipt says besides its day and build.
Undated(r) == DOMAIN r \ {"issued", "tool_version"}

\* A run of the same questions and answers, in any order, on any later day and
\* build, verifies what was read if that is what was issued, day and build
\* apart, and nothing else, sealed or not (verify and _evidence_digest).
ReproductionVerifies ==
    verdict # None =>
        LET issued == Suite(work.items, work.shares, work.judge, work.bar,
                            work.meta, work.captures)
        IN  (verdict.found = {}) <=> /\ Undated(read) = Undated(issued)
                                     /\ \A f \in Undated(read) : read[f] = issued[f]

\* While the guard says the receipt holds and it was shown the traffic, the
\* share of today's traffic in the clusters proven is within a fifth of the
\* share the receipt states, no more than a tenth runs where nothing was scored,
\* and nothing has to be done at once (check, traffic_distance and action).
HoldingMeansSameMix ==
    guard # None /\ guard.world.traffic # <<>> /\ Holds(guard.found) =>
        LET now == guard.world.traffic
            proven == {c.cluster : c \in ToSet(read.proven)}
            a == TotalShare(Claims(read))  b == SumOver(now, DOMAIN now)
            on == SumOver(now, DOMAIN now \cap proven)
        IN  /\ a > 0 => 5 * Abs(on * a - ReceiptMovable(read) * b) <= a * b
            /\ 10 * SumOver(now, DOMAIN now \ {c.cluster : c \in ClaimSet(read)}) <= b
            /\ Proposed(guard.found) \notin {"re-prove now", "re-sample and re-prove"}
=============================================================================
