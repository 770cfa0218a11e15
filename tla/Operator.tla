------------------------------ MODULE Operator ------------------------------
(***************************************************************************)
(* The Kubernetes operator: k8s/nodes.py reads what the cluster says of    *)
(* its nodes, k8s/reconcile.py turns one InferenceWorkload into a          *)
(* Deployment, a status and perhaps a lower phase, and k8s/controller.py   *)
(* makes the kubectl calls, one workload after the other, pass after pass. *)
(* People edit the workloads and the quality gate annotates them between   *)
(* any two of those calls, and every call may fail.                        *)
(***************************************************************************)
EXTENDS Planner

CONSTANTS Names,        \* workload names, sequences of characters
          Specs,        \* what a person may write in spec, phase apart
          Clusters,     \* the node lists the API may report
          Catalogue,    \* the model entries, a set of records
          Start,        \* what the controller may find when it starts
          MaxEvents     \* bound: edits, node changes and failed kubectl calls

PHASE_ORDER == <<"off", "shadow", "canary", "cut">>

Phases == Range(PHASE_ORDER)

Rung(p) == CHOOSE i \in DOMAIN PHASE_ORDER : PHASE_ORDER[i] = p

\* The chips of a slice, by its topology.
Product(seq) == FoldSeq(LAMBDA a, b : a * b, 1, seq)

\* What the API reports of a node, and what the catalogue and the specs hold.
Figures == [st : {"absent", "bad", "num"}, milli : Int]

ASSUME OperatorAssumption ==
    /\ \A s \in Start : s.spec \in [Names -> Specs] /\ s.phase \in [Names -> Phases]
    /\ \A c \in Clusters : \A j \in c :
          /\ {j.gpu, j.tpu, j.memory, j.host} \subseteq Figures
          /\ j.topology = <<>> \/ Product(j.topology) \in Nat
    /\ \A s \in Specs : {s.concurrency, s.context} \subseteq Int
    /\ \A m \in Catalogue :
          /\ {m.params, m.active, m.layers, m.kv_heads, m.kv_lora_rank} \subseteq Nat
          /\ m.quants # <<>> /\ m.quants \in Seq(DOMAIN QUANT_BITS)

NoDeployment == [none |-> TRUE]

VARIABLES
    spec,        \* name -> its spec, as people wrote it
    phase,       \* name -> spec.phase
    regressed,   \* names the gate's annotation marks "true"
    cluster,     \* what kubectl get nodes reports
    deployed,    \* Deployment name -> the object last applied
    status,      \* name -> reason of the Ready condition
    pc,          \* where the controller is in its pass
    nodes,       \* kubectl's node list, as this pass read it
    listed,      \* name -> the workload as this pass listed it
    todo,        \* names this pass still has to reconcile
    edited,      \* names whose phase a person changed since the listing
    events       \* edits, node changes and failed calls so far

vars == <<spec, phase, regressed, cluster, deployed, status, pc, nodes,
          listed, todo, edited, events>>

-----------------------------------------------------------------------------
(* Reading a node (k8s/nodes.py).  A quantity is absent, bad or a number   *)
(* of thousandths.                                                         *)

\* Unreadable, negative or fractional is a refusal, never a zero.
Devices(q) ==
    IF q.st = "absent" THEN [n |-> 0, refused |-> FALSE]
    ELSE IF q.st = "bad" \/ q.milli < 0 \/ q.milli % 1000 # 0 THEN [n |-> 0, refused |-> TRUE]
    ELSE [n |-> q.milli \div 1000, refused |-> FALSE]

\* Memory and cores: what cannot be read counts as none, a part is cut off.
Quantity(q) == IF q.st = "num" THEN q.milli \div 1000 ELSE 0

\* The memory label counts MiB, unless it is so large that it must be bytes:
\* with memory in tenths of a GB, a byte label is a thousand times the figure.
BYTES_THRESHOLD == 100000

\* Mutant: the label taken for MiB, whatever its size.
GpuBytesAsMiB(label) ==
    IF label.st # "num" \/ label.milli <= 0 THEN Unknown ELSE label.milli

GpuBytes(label) ==
    IF label.st # "num" \/ label.milli <= 0 THEN Unknown
    ELSE IF label.milli >= BYTES_THRESHOLD THEN label.milli \div 1000
    ELSE label.milli

TPU_HBM == [v5e |-> 160, v6e |-> 320, v5p |-> 950, v4 |-> 320, v3 |-> 160]

TPU_BANDWIDTH == [v5e |-> 859, v6e |-> 1638, v5p |-> 2765]

\* An unknown generation has no figure; the topology's product is the count.
Tpu(j, n) ==
    IF j.gen \notin DOMAIN TPU_HBM THEN [bytes |-> Unknown, bw |-> Unknown, chips |-> n]
    ELSE [bytes |-> TPU_HBM[j.gen],
          bw |-> IF j.gen \in DOMAIN TPU_BANDWIDTH THEN TPU_BANDWIDTH[j.gen] ELSE Unknown,
          chips |-> IF j.topology = <<>> THEN n ELSE Product(j.topology)]

FromJson(j) ==
    LET gpu == Devices(j.gpu)
        tpu == Devices(j.tpu)
        t   == Tpu(j, tpu.n)
        mem == GpuBytes(j.memory)
        node(kind, devices, bytes, bw, unknown) ==
            [rank |-> j.rank, labels |-> j.labels, host |-> Quantity(j.host), kind |-> kind,
             devices |-> devices, bytes |-> bytes, bw |-> bw, unknown |-> unknown]
    IN  IF gpu.n > 0 \/ gpu.refused
        THEN node("nvidia", gpu.n, mem, Unknown, gpu.refused \/ mem = Unknown)
        ELSE IF tpu.n > 0 \/ tpu.refused
        THEN node("tpu", t.chips, t.bytes, t.bw, tpu.refused \/ t.bytes = Unknown)
        ELSE node("cpu", 0, Unknown, Unknown, FALSE)

Schedulable(n) == ~n.unknown /\ (n.bytes # Unknown \/ n.kind = "cpu")

ToHardware(n) ==
    LET total == IF n.kind = "cpu" THEN n.host ELSE n.bytes * Max({n.devices, 1})
    IN  [kind |-> n.kind, total |-> total, devices |-> Max({n.devices, 1}), bw |-> n.bw,
         usable |-> (total * (IF n.kind = "cpu" THEN 75 ELSE 92)) \div 100]

ReadCluster(json) == {FromJson(j) : j \in json}

\* What a node is, beside what it says: `cards` accelerators of `card` memory
\* each, which no operation reads.  Labels do not lie, but one label comes in
\* two units: MiB, or bytes from the versions with the known bug.
Truthful(j) ==
    LET many(q) == q.st = "num" /\ q.milli >= 1000
    IN  /\ many(j.gpu) =>
             /\ j.cards = j.gpu.milli \div 1000
             /\ j.memory.st = "num" /\ j.memory.milli > 0 =>
                   \/ j.memory.milli = j.card /\ j.memory.milli < BYTES_THRESHOLD
                   \/ j.memory.milli = 1000 * j.card /\ j.memory.milli >= BYTES_THRESHOLD
        /\ ~many(j.gpu) /\ many(j.tpu) =>
             /\ j.cards >= 1
             /\ j.cards = IF j.topology = <<>> THEN j.tpu.milli \div 1000
                                               ELSE Product(j.topology)
             /\ j.gen \in DOMAIN TPU_HBM => j.card = TPU_HBM[j.gen]

ASSUME NodesAssumption ==
    \A c \in Clusters : \A j \in c : {j.card, j.cards} \subseteq Nat /\ Truthful(j)

-----------------------------------------------------------------------------
(* One workload (k8s/reconcile.py)                                         *)

\* Largest accelerator memory, then device count, then name: a total order,
\* so two passes over the same nodes choose the same one.
Bigger(a, b) ==
    LET mem(n) == n.bytes * Max({n.devices, 1})
    IN  \/ mem(a) > mem(b)
        \/ mem(a) = mem(b) /\ a.devices > b.devices
        \/ mem(a) = mem(b) /\ a.devices = b.devices /\ a.rank >= b.rank

\* {} is None.
SelectNode(ns, selector) ==
    LET usable == {n \in ns : selector \subseteq n.labels /\ Schedulable(n) /\ n.kind # "cpu"}
    IN  {n \in usable : \A o \in usable : Bigger(n, o)}

\* null and nonsense take the default; then the floor.
Num(raw, default) == IF raw = Unknown THEN default ELSE raw

Requirements(s) ==
    [workload |-> IF s.workload \in {"interactive", "realtime", "batch"}
                  THEN s.workload ELSE "interactive",
     concurrency |-> Max({1, Num(s.concurrency, 8)}),
     context |-> Max({1, Num(s.context, 64)}),
     ttft |-> Unknown, itl |-> IF Num(s.itl, 0) = 0 THEN Unknown ELSE s.itl,
     prefix |-> Min({100, Max({0, Num(s.prefix, 0)})}),
     structured |-> FALSE, adapters |-> 0]

\* Lower case, anything else a dash, one dash at a time, none at the ends, a
\* letter first, at most 63 characters.
Letters == {"a", "b", "c", "m"}

DnsLabel(name) ==
    LET dashed == [i \in DOMAIN name |->
                      IF name[i] \in Letters \cup {"1", "2"} THEN name[i] ELSE "-"]
        kept == {i \in DOMAIN dashed :
                    \/ dashed[i] # "-"
                    \/ /\ i > 1 /\ dashed[i - 1] # "-"
                       /\ \E j \in (i + 1)..Len(dashed) : dashed[j] # "-"}
        out == [k \in 1..Cardinality(kept) |->
                   dashed[CHOOSE i \in kept : Cardinality({j \in kept : j <= i}) = k]]
        led == IF out = <<>> THEN <<"m">>
               ELSE IF out[1] \notin Letters THEN <<"m", "-">> \o out ELSE out
    IN  SubSeq(led, 1, Min({63, Len(led)}))

\* Exact, case folded; never a near match.
CatalogueModel(repo) == {m \in Catalogue : m.repo = repo}

\* The device count is the tensor-parallel decision, 1 without one.
DeploymentFor(p, model) ==
    [engine |-> p.engine, model |-> model, context |-> p.fit.context,
     devices |-> Max({1, p.knobs.tensor_parallel}),
     command |-> Command(p.engine, p.knobs), fit |-> p.fit]

Refuse(reason) == [objects |-> {}, reason |-> reason, ready |-> FALSE, demote |-> "none"]

\* Mutant: a floor one rung too high.
OneRungDownToShadow(p) == PHASE_ORDER[Max({Rung(p) - 1, 2})]

\* One rung down, never below the lowest.
OneRungDown(p) == PHASE_ORDER[Max({Rung(p) - 1, 1})]

\* The early returns come before the rollback, which needs a sized plan.
Reconcile(w, ns, isRegressed) ==
    LET picked == SelectNode(ns, w.spec.selector)
        models == CatalogueModel(w.spec.model)
        hw     == ToHardware(CHOOSE n \in picked : TRUE)
        m      == CHOOSE x \in models : TRUE
        p      == Plan(hw, Requirements(w.spec), m, "", "")
        fits   == Feasible(p.fit)
        ok     == p.warnings = {} /\ fits
    IN  IF w.spec.model = "" THEN Refuse("NoModel")
        ELSE IF picked = {} THEN Refuse("NoSuitableNode")
        ELSE IF models = {} THEN Refuse("ModelNotInCatalogue")
        ELSE IF isRegressed /\ w.phase # "off"
        THEN [objects |-> {}, ready |-> fits,
              reason |-> IF fits THEN "RolledBack" ELSE "DoesNotFit",
              demote |-> OneRungDown(w.phase)]
        ELSE [objects |-> {DeploymentFor(p, m.id)}, ready |-> ok, demote |-> "none",
              reason |-> IF ok THEN "Planned"
                         ELSE IF ~fits THEN "DoesNotFit" ELSE "CannotMeetRequirements"]

-----------------------------------------------------------------------------
(* The controller (k8s/controller.py)                                      *)

Init ==
    /\ \E s \in Start : spec = s.spec /\ phase = s.phase /\ regressed = s.regressed
    /\ cluster \in Clusters
    /\ deployed = [d \in {DnsLabel(n) : n \in Names} |-> NoDeployment]
    /\ status = [n \in Names |-> "none"]
    /\ pc = "sleep"
    /\ nodes = {} /\ listed = <<>> /\ todo = {}
    /\ edited = {} /\ events = 0

world == <<spec, phase, regressed, cluster>>

\* kubectl raises RuntimeError when it is missing, times out or exits nonzero.
CallFails == events < MaxEvents /\ events' = events + 1

CallWorks == UNCHANGED events

\* The pass: the nodes once, then the workloads once.  A failed read ends it.
ReadNodes ==
    /\ pc = "sleep"
    /\ \/ CallWorks /\ nodes' = cluster /\ pc' = "list"
       \/ CallFails /\ UNCHANGED <<nodes, pc>>
    /\ UNCHANGED <<world, deployed, status, listed, todo, edited>>

ListWorkloads ==
    /\ pc = "list"
    /\ \/ /\ listed' = [n \in Names |->
                [spec |-> spec[n], phase |-> phase[n], regressed |-> n \in regressed]]
          /\ todo' = Names /\ edited' = {} /\ pc' = "loop"
          /\ CallWorks /\ UNCHANGED nodes
       \/ CallFails /\ pc' = "sleep" /\ nodes' = {} /\ UNCHANGED <<listed, todo, edited>>
    /\ UNCHANGED <<world, deployed, status>>

\* reconcile() is a pure function of what the pass read: tabulated once.
Verdicts == [s \in Specs |-> [p \in Phases |-> [g \in BOOLEAN |-> [c \in Clusters |->
                Reconcile([spec |-> s, phase |-> p], ReadCluster(c), g)]]]]

Verdict(s, p, g, c) == Verdicts[s][p][g][c]

Label == [n \in Names |-> DnsLabel(n)]

Outcome(n) == Verdict(listed[n].spec, listed[n].phase, listed[n].regressed, nodes)

\* A spec whose fields are not what the code expects makes reconcile() raise.
Raises(n) == listed[n].spec.broken

\* The per-workload steps, in the order of the names the API listed.
Current == CHOOSE n \in todo : TRUE

\* Applying what this pass declared fit; the call may fail.
ApplyObjects ==
    /\ pc = "loop" /\ todo # {}
    /\ LET n == Current
       IN  \/ Raises(n) /\ pc' = "failed" /\ UNCHANGED <<deployed, events>>
           \/ /\ ~Raises(n) /\ ~(Outcome(n).ready /\ Outcome(n).objects # {})
              /\ pc' = "status" /\ UNCHANGED <<deployed, events>>
           \/ /\ ~Raises(n) /\ Outcome(n).ready /\ Outcome(n).objects # {}
              /\ \/ /\ deployed' = [deployed EXCEPT ![Label[n]] =
                                       CHOOSE o \in Outcome(n).objects : TRUE]
                    /\ pc' = "status" /\ CallWorks
                 \/ CallFails /\ pc' = "failed" /\ UNCHANGED deployed
    /\ UNCHANGED <<world, status, nodes, listed, todo, edited>>

PatchStatus ==
    /\ pc = "status"
    /\ \/ /\ status' = [status EXCEPT ![Current] = Outcome(Current).reason]
          /\ pc' = "demote" /\ CallWorks
       \/ CallFails /\ pc' = "failed" /\ UNCHANGED status
    /\ UNCHANGED <<world, deployed, nodes, listed, todo, edited>>

\* Back to the loop, or to sleep after the last workload, where what the
\* pass had read is gone.
Advance ==
    LET over == todo = {Current}
    IN  /\ todo' = todo \ {Current}
        /\ pc' = IF over THEN "sleep" ELSE "loop"
        /\ nodes' = IF over THEN {} ELSE nodes
        /\ listed' = IF over THEN <<>> ELSE listed
        /\ edited' = IF over THEN {} ELSE edited

\* A merge patch: the phase is overwritten, whatever it is by now.
Demote ==
    /\ pc = "demote"
    /\ LET n == Current
       IN  \/ Outcome(n).demote = "none" /\ Advance /\ UNCHANGED <<phase, events>>
           \/ /\ Outcome(n).demote # "none"
              /\ phase' = [phase EXCEPT ![n] = Outcome(n).demote]
              /\ Advance /\ CallWorks
           \/ Outcome(n).demote # "none" /\ pc' = "failed" /\ CallFails
              /\ UNCHANGED <<phase, todo, nodes, listed, edited>>
    /\ UNCHANGED <<spec, regressed, cluster, deployed, status>>

\* Mutant: the exception escapes the loop over the workloads.
ReportFailureEndsPass ==
    /\ pc = "failed" /\ CallWorks
    /\ status' = [status EXCEPT ![Current] = "ReconcileFailed"]
    /\ todo' = {} /\ pc' = "sleep" /\ nodes' = {} /\ listed' = <<>> /\ edited' = {}
    /\ UNCHANGED <<world, deployed>>

\* Any exception ends in a ReconcileFailed status, whose own failure is
\* suppressed; the other workloads go on.
ReportFailure ==
    /\ pc = "failed"
    /\ \/ status' = [status EXCEPT ![Current] = "ReconcileFailed"] /\ CallWorks
       \/ CallFails /\ UNCHANGED status
    /\ Advance
    /\ UNCHANGED <<world, deployed>>

\* People edit a spec or set a phase, up or down; nodes join and leave.
EditSpec ==
    /\ events < MaxEvents
    /\ \E n \in Names, s \in Specs : spec[n] # s /\ spec' = [spec EXCEPT ![n] = s]
    /\ events' = events + 1
    /\ UNCHANGED <<phase, regressed, cluster, deployed, status, pc, nodes, listed, todo, edited>>

SetPhase ==
    /\ events < MaxEvents
    /\ \E n \in Names, p \in Phases :
          /\ phase[n] # p
          /\ phase' = [phase EXCEPT ![n] = p]
          /\ edited' = IF n \in todo THEN edited \cup {n} ELSE edited
    /\ events' = events + 1
    /\ UNCHANGED <<spec, regressed, cluster, deployed, status, pc, nodes, listed, todo>>

\* The gate stamps its verdict on the resource, or takes it back; anything
\* but the literal "true" reads as not regressed.
Annotate ==
    /\ events < MaxEvents
    /\ \E n \in Names : regressed' = IF n \in regressed THEN regressed \ {n}
                                                        ELSE regressed \cup {n}
    /\ events' = events + 1
    /\ UNCHANGED <<spec, phase, cluster, deployed, status, pc, nodes, listed, todo, edited>>

NodesChange ==
    /\ events < MaxEvents
    /\ cluster' \in Clusters \ {cluster}
    /\ events' = events + 1
    /\ UNCHANGED <<spec, phase, regressed, deployed, status, pc, nodes, listed, todo, edited>>

Controller == ReadNodes \/ ListWorkloads \/ ApplyObjects \/ PatchStatus \/ Demote \/ ReportFailure

Next == Controller \/ EditSpec \/ SetPhase \/ Annotate \/ NodesChange

Spec == Init /\ [][Next]_vars

\* run() never exits: the controller always takes its next step.
Fairness == WF_vars(Controller)

FairSpec == Spec /\ Fairness

-----------------------------------------------------------------------------
(* Properties                                                              *)

\* A node that has the devices of o, each with the memory for its share of it
\* (to_hardware leaves the engine 92 in 100).
Holds(j, o) ==
    /\ o.devices <= j.cards
    /\ o.fit.total * 100 <= 92 * j.card * o.devices

\* What runs on a device fits on it: when a Deployment is applied, some node of
\* the list this pass read really has that many cards, and each really has the
\* memory for its share, whatever unit the node's label came in (nodes.py's
\* reading of the label and the count, the fit gate and the tensor-parallel
\* decision together).
DeployedShardsFit ==
    [][\A d \in DOMAIN deployed : deployed'[d] # deployed[d] =>
           \E j \in nodes : Holds(j, deployed'[d])]_vars

\* controller.py:23-25, of the phase: it lowers it on a regression and "It
\* never raises it."  The merge patch does, when a person lowered the phase
\* further after the pass had listed the workload.
NeverRaises ==
    [][Demote => \A n \in Names : Rung(phase'[n]) <= Rung(phase[n])]_vars

\* How far that rule holds: the controller raises a phase only by losing a
\* race, where the phase changed after this pass had listed the workload.
RaiseOnlyByLostRace ==
    [][Demote => \A n \in Names : Rung(phase'[n]) > Rung(phase[n]) => n \in edited]_vars

\* A workload stays demotable while it names a model of the catalogue and the
\* cluster holds a node it can be sized against.
Sizable(n) ==
    /\ ~spec[n].broken /\ spec[n].model # ""
    /\ CatalogueModel(spec[n].model) # {}
    /\ Verdict(spec[n], phase[n], FALSE, cluster).reason # "NoSuitableNode"

\* Rollback is unattended: a workload the gate keeps marking, which can be
\* sized, is walked down to "off", whatever fails on the way and whatever
\* its neighbour's YAML does.
RegressionRetreats ==
    \A n \in Names : <>[](n \in regressed /\ Sizable(n)) => <>(phase[n] = "off")

\* The loop converges: again and again the status of a workload tells what
\* its spec and the cluster imply, and one that plans has the Deployment it
\* implies.  Once the edits stop both are so for good, since a pass over the
\* same nodes and specs writes the same objects.
Converges ==
    \A n \in Names :
        []<>LET r == Verdict(spec[n], phase[n], n \in regressed, cluster)
            IN  IF spec[n].broken THEN status[n] = "ReconcileFailed"
                ELSE /\ status[n] = r.reason
                     /\ r.ready => r.objects \subseteq {deployed[Label[n]]}
=============================================================================
