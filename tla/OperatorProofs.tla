---------------------------- MODULE OperatorProofs ----------------------------
(***************************************************************************)
(* Proofs about the Kubernetes operator, for any workloads, specs, node    *)
(* lists and catalogue that OperatorAssumption admits, and any number of   *)
(* passes, edits and failures.                                             *)
(*                                                                         *)
(* RaisesOnlyStale rests on AsListed: between the listing and the end of   *)
(* the pass, the phase of a workload still to be reconciled is the one the *)
(* pass listed, unless a person changed it.  ShardsAlwaysFit needs only    *)
(* the part of AsListed that says where a pass's node list and specs come  *)
(* from.  Its argument has two halves: what nodes.py reads from a truthful *)
(* node is what that node has (ReadTruly), and arithmetic over solve(),    *)
(* TensorParallel and the device count of the manifest (ShardsFit).        *)
(***************************************************************************)
EXTENDS Operator, TLAPS

-----------------------------------------------------------------------------
(* The ladder of phases (reconcile.py)                                     *)

\* The phases, from the least exposed to the most, and their rungs.
LEMMA Ladder ==
    /\ Phases = {"off", "shadow", "canary", "cut"}
    /\ Rung("off") = 1 /\ Rung("shadow") = 2 /\ Rung("canary") = 3 /\ Rung("cut") = 4
<1>1. PHASE_ORDER = <<"off", "shadow", "canary", "cut">> /\ DOMAIN PHASE_ORDER = 1..4
  BY DEF PHASE_ORDER
<1>2. Phases = {"off", "shadow", "canary", "cut"}
  BY <1>1 DEF Phases, Range
<1>3. \A i \in 1..4 : i = 1 \/ i = 2 \/ i = 3 \/ i = 4
  OBVIOUS
<1>4. \A p \in Phases : Rung(p) \in 1..4 /\ PHASE_ORDER[Rung(p)] = p
  BY <1>1, <1>2 DEF Rung
<1> QED BY <1>1, <1>2, <1>3, <1>4

\* One rung down is a phase, and never a higher one.
LEMMA NeverUp ==
    ASSUME NEW p \in Phases
    PROVE  OneRungDown(p) \in Phases /\ Rung(OneRungDown(p)) <= Rung(p)
<1>1. /\ Max({0, 1}) = 1 /\ Max({1, 1}) = 1 /\ Max({2, 1}) = 2 /\ Max({3, 1}) = 3
  BY DEF Max
<1>2. /\ PHASE_ORDER[1] = "off" /\ PHASE_ORDER[2] = "shadow" /\ PHASE_ORDER[3] = "canary"
  BY DEF PHASE_ORDER
<1>3. OneRungDown(p) = PHASE_ORDER[Max({Rung(p) - 1, 1})]
  BY DEF OneRungDown
<1>4. OneRungDown(p) = IF Rung(p) = 4 THEN "canary" ELSE IF Rung(p) = 3 THEN "shadow" ELSE "off"
  BY <1>1, <1>2, <1>3, Ladder
<1> QED BY <1>4, Ladder

\* reconcile() asks for one rung down from the phase it was handed, or for
\* nothing, whatever the plan comes to.
LEMMA DemotesOneRung ==
    ASSUME NEW w, NEW ns, NEW g
    PROVE  Reconcile(w, ns, g).demote \in {"none", OneRungDown(w.phase)}
BY DEF Reconcile, Refuse

-----------------------------------------------------------------------------
(* What a pass has read                                                    *)

Listing == [Names -> [spec : Specs, phase : Phases, regressed : BOOLEAN]]

Reconciling == {"loop", "status", "demote", "failed"}

\* The phases of the workloads still to be reconciled are those the pass listed,
\* but for what a person changed since.
AsListed ==
    /\ spec \in [Names -> Specs] /\ phase \in [Names -> Phases] /\ cluster \in Clusters
    /\ pc \in {"sleep", "list"} \cup Reconciling
    /\ pc = "list" => nodes \in Clusters
    /\ pc \in Reconciling => /\ nodes \in Clusters /\ todo \subseteq Names /\ listed \in Listing
                             /\ \A n \in todo \ edited : phase[n] = listed[n].phase
    /\ pc \in Reconciling \ {"loop"} => todo # {}

\* The controller starts asleep, with nothing listed.
LEMMA AsListedInit == Init => AsListed
BY OperatorAssumption DEF Init, AsListed, Reconciling

\* What a pass makes of a workload is reconcile() of what it read.
LEMMA OutcomeIs ==
    ASSUME AsListed, pc \in Reconciling, NEW n \in todo
    PROVE  /\ Outcome(n) = Reconcile([spec |-> listed[n].spec, phase |-> listed[n].phase],
                                     ReadCluster(nodes), listed[n].regressed)
           /\ listed[n].phase \in Phases /\ listed[n].spec \in Specs
           /\ n \in Names
<1>1. /\ listed[n].spec \in Specs /\ listed[n].phase \in Phases /\ listed[n].regressed \in BOOLEAN
      /\ nodes \in Clusters /\ n \in Names
  BY DEF AsListed, Listing
<1> QED BY <1>1 DEF Outcome, Verdict, Verdicts

\* So it is one rung down from the phase the pass listed, or nothing.
LEMMA OutcomeDemotes ==
    ASSUME AsListed, pc \in Reconciling, NEW n \in todo
    PROVE  Outcome(n).demote \in {"none", OneRungDown(listed[n].phase)}
<1> DEFINE w == [spec |-> listed[n].spec, phase |-> listed[n].phase]
<1>1. w.phase = listed[n].phase
  OBVIOUS
<1> HIDE DEF w
<1>2. Outcome(n) = Reconcile(w, ReadCluster(nodes), listed[n].regressed)
  BY OutcomeIs DEF w
<1> QED BY <1>1, <1>2, DemotesOneRung

\* The workload in hand is one of those left.
LEMMA CurrentIs == todo # {} => Current \in todo
BY DEF Current

\* The next workload, or the end of the pass.
LEMMA AdvanceAsListed ==
    ASSUME AsListed, pc \in Reconciling, todo # {}, Advance, UNCHANGED <<spec, cluster>>,
           phase' \in [Names -> Phases], \A n \in Names \ {Current} : phase'[n] = phase[n]
    PROVE  AsListed'
<1>1. CASE todo = {Current}
  BY <1>1 DEF AsListed, Advance, Reconciling
<1>2. CASE todo # {Current}
  <2>1. /\ pc' = "loop" /\ nodes' = nodes /\ listed' = listed /\ edited' = edited
        /\ todo' = todo \ {Current}
    BY <1>2 DEF Advance
  <2> QED BY <2>1 DEF AsListed, Reconciling
<1> QED BY <1>1, <1>2

\* The merge patch touches the phase of the workload in hand alone, which then
\* leaves the list.
LEMMA DemoteAsListed == AsListed /\ Demote => AsListed'
<1> SUFFICES ASSUME AsListed, Demote PROVE AsListed'
  OBVIOUS
<1>1. /\ pc = "demote" /\ pc \in Reconciling /\ todo # {} /\ Current \in todo /\ Current \in Names
      /\ phase \in [Names -> Phases]
  BY CurrentIs DEF AsListed, Reconciling, Demote
<1>2. UNCHANGED <<spec, cluster>>
  BY DEF Demote
<1>3. CASE Advance /\ UNCHANGED phase
  BY <1>1, <1>2, <1>3, AdvanceAsListed
<1>4. CASE Advance /\ Outcome(Current).demote # "none"
           /\ phase' = [phase EXCEPT ![Current] = Outcome(Current).demote]
  <2>1. Outcome(Current).demote \in Phases
    BY <1>1, <1>4, OutcomeDemotes, OutcomeIs, NeverUp
  <2> QED BY <1>1, <1>2, <1>4, <2>1, AdvanceAsListed
<1>5. CASE pc' = "failed" /\ UNCHANGED <<phase, todo, nodes, listed, edited>>
  BY <1>1, <1>2, <1>5 DEF AsListed, Reconciling
<1> QED BY <1>3, <1>4, <1>5 DEF Demote

\* No step of the controller, of a person or of the cluster breaks AsListed:
\* whoever else changes a phase under a pass marks the workload as edited.
LEMMA AsListedStep == AsListed /\ [Next]_vars => AsListed'
<1> SUFFICES ASSUME AsListed, [Next]_vars PROVE AsListed'
  OBVIOUS
<1>1. CASE UNCHANGED vars
  BY <1>1 DEF vars, AsListed, Reconciling
<1>2. CASE ReadNodes
  BY <1>2 DEF ReadNodes, world, AsListed, Reconciling
<1>3. CASE ListWorkloads
  <2>1. CASE pc' = "sleep"
    BY <1>3, <2>1 DEF ListWorkloads, world, AsListed, Reconciling
  <2>2. CASE pc' = "loop"
    <3>1. /\ pc = "list" /\ todo' = Names /\ edited' = {} /\ UNCHANGED <<nodes, spec, phase, cluster>>
          /\ listed' = [n \in Names |->
                [spec |-> spec[n], phase |-> phase[n], regressed |-> n \in regressed]]
      BY <1>3, <2>2 DEF ListWorkloads, world
    <3>2. listed' \in Listing /\ \A n \in Names : phase[n] = listed'[n].phase
      BY <3>1 DEF Listing, AsListed
    <3> QED BY <2>2, <3>1, <3>2 DEF AsListed, Reconciling
  <2> QED BY <1>3, <2>1, <2>2 DEF ListWorkloads
<1>4. CASE ApplyObjects
  BY <1>4 DEF ApplyObjects, world, AsListed, Reconciling
<1>5. CASE PatchStatus
  BY <1>5 DEF PatchStatus, world, AsListed, Reconciling
<1>6. CASE ReportFailure
  <2>1. pc \in Reconciling /\ todo # {} /\ UNCHANGED <<spec, cluster, phase>> /\ Advance
    BY <1>6 DEF ReportFailure, world, AsListed, Reconciling
  <2> QED BY <2>1, AdvanceAsListed DEF AsListed
<1>7. CASE EditSpec
  BY <1>7 DEF EditSpec, AsListed, Reconciling
<1>8. CASE SetPhase
  <2>1. PICK n \in Names, p \in Phases :
            /\ phase' = [phase EXCEPT ![n] = p]
            /\ edited' = IF n \in todo THEN edited \cup {n} ELSE edited
    BY <1>8 DEF SetPhase
  <2> QED BY <1>8, <2>1 DEF SetPhase, AsListed, Reconciling
<1>9. CASE Annotate \/ NodesChange
  BY <1>9 DEF Annotate, NodesChange, AsListed, Reconciling
<1> QED BY <1>1, <1>2, <1>3, <1>4, <1>5, <1>6, <1>7, <1>8, <1>9, DemoteAsListed DEF Next, Controller

\* The controller raises a phase only where a person changed it after the pass
\* had listed the workload: one rung down from what it read is not above what it
\* overwrites otherwise (reconcile's rollback and controller's merge patch).
THEOREM RaisesOnlyStale == Spec => RaiseOnlyByLostRace
<1> DEFINE Lowers == Demote => \A n \in Names : Rung(phase'[n]) > Rung(phase[n]) => n \in edited
<1>1. AsListed /\ [Next]_vars => [Lowers]_vars
  <2> SUFFICES ASSUME AsListed, Demote, NEW n \in Names, Rung(phase'[n]) > Rung(phase[n])
               PROVE  n \in edited
    OBVIOUS
  <2>1. pc = "demote" /\ pc \in Reconciling /\ Current \in todo /\ phase \in [Names -> Phases]
    BY CurrentIs DEF Demote, AsListed, Reconciling
  <2>2. Rung(phase[n]) \in Int
    BY <2>1, Ladder
  <2>3. phase'[n] # phase[n]
    BY <2>2
  <2>4. /\ Outcome(Current).demote # "none" /\ phase' = [phase EXCEPT ![Current] = Outcome(Current).demote]
    BY <2>3 DEF Demote
  <2>5. n = Current /\ phase'[n] = OneRungDown(listed[n].phase) /\ listed[n].phase \in Phases
    BY <2>1, <2>3, <2>4, OutcomeDemotes, OutcomeIs
  <2>6. Rung(phase'[n]) <= Rung(listed[n].phase) /\ Rung(listed[n].phase) \in Int
        /\ Rung(phase'[n]) \in Int
    BY <2>5, NeverUp, Ladder
  <2>7. listed[n].phase # phase[n]
    BY <2>2, <2>6
  <2> QED BY <2>1, <2>5, <2>7 DEF AsListed
<1> QED BY <1>1, AsListedInit, AsListedStep, PTL DEF Spec, RaiseOnlyByLostRace

-----------------------------------------------------------------------------
(* What fits on a device                                                   *)

\* max() of two numbers.
LEMMA MaxOfTwo ==
    ASSUME NEW a \in Int, NEW b \in Int
    PROVE  Max({a, b}) = IF a >= b THEN a ELSE b
BY DEF Max

\* A machine as far as the arithmetic of a shard needs it.
Machine(h) == h.usable \in Int /\ h.devices \in Int /\ h.devices >= 1

\* Whatever the API reports of a node, the figures read from it are integers.
LEMMA NodeFigures ==
    ASSUME NEW c \in Clusters, NEW n \in ReadCluster(c)
    PROVE  n.bytes \in Int /\ n.devices \in Int /\ n.host \in Int
<1>1. PICK j \in c : n = FromJson(j)
  BY DEF ReadCluster
<1>2. /\ {j.gpu, j.tpu, j.memory, j.host} \subseteq Figures
      /\ j.topology = <<>> \/ Product(j.topology) \in Nat
  BY OperatorAssumption
<1>3. \A q \in Figures : q.st \in {"absent", "bad", "num"} /\ q.milli \in Int
  BY DEF Figures
<1>4. \A q \in Figures : q.milli \div 1000 \in Int
  BY <1>3
<1>5. \A q \in Figures : Devices(q).n \in Int
  BY <1>3, <1>4 DEF Devices
<1>6. GpuBytes(j.memory) \in Int /\ Quantity(j.host) \in Int
  BY <1>2, <1>3, <1>4 DEF GpuBytes, Quantity, Unknown
<1>7. \A k \in Int : Tpu(j, k).bytes \in Int /\ Tpu(j, k).chips \in Int
  BY <1>2 DEF Tpu, TPU_HBM, Unknown
<1>8. Devices(j.gpu).n \in Int /\ Devices(j.tpu).n \in Int
  BY <1>2, <1>5
<1> DEFINE gpu == Devices(j.gpu)
           tpu == Devices(j.tpu)
           t   == Tpu(j, tpu.n)
           mem == GpuBytes(j.memory)
           host == Quantity(j.host)
<1>9. /\ n.devices \in {gpu.n, t.chips, 0} /\ n.bytes \in {mem, t.bytes, Unknown}
      /\ n.host = host
  BY <1>1 DEF FromJson
<1> QED BY <1>6, <1>7, <1>8, <1>9 DEF Unknown

\* So is what to_hardware makes of them, with one device at the least.
LEMMA NodeIsMachine ==
    ASSUME NEW c \in Clusters, NEW n \in ReadCluster(c)
    PROVE  Machine(ToHardware(n))
<1> DEFINE d == Max({n.devices, 1})
           total == IF n.kind = "cpu" THEN n.host ELSE n.bytes * d
           share == IF n.kind = "cpu" THEN 75 ELSE 92
<1>1. d \in Int /\ d >= 1
  BY NodeFigures, MaxOfTwo
<1>2. n.bytes * d \in Int
  BY <1>1, NodeFigures
<1>3. total \in Int /\ share \in Int
  BY <1>2, NodeFigures
<1>4. (total * share) \div 100 \in Int
  BY <1>3
<1>5. ToHardware(n).devices = d /\ ToHardware(n).usable = (total * share) \div 100
  BY DEF ToHardware
<1> QED BY <1>1, <1>4, <1>5 DEF Machine

\* A count of devices is read as it stands, or refused.
LEMMA Counted ==
    ASSUME NEW q \in Figures
    PROVE  LET many == q.st = "num" /\ q.milli >= 1000
           IN  /\ Devices(q).n > 0 =>
                     many /\ ~Devices(q).refused /\ Devices(q).n = q.milli \div 1000
               /\ many => Devices(q).n > 0 \/ Devices(q).refused
<1>1. q.st \in {"absent", "bad", "num"} /\ q.milli \in Int
  BY DEF Figures
<1>2. /\ q.milli \div 1000 \in Int
      /\ q.milli >= 0 /\ q.milli \div 1000 > 0 => q.milli >= 1000
      /\ q.milli >= 1000 => q.milli \div 1000 > 0
  BY <1>1
<1> QED BY <1>1, <1>2 DEF Devices

\* A memory label in either unit is read as the memory of the card.
LEMMA LabelRead ==
    ASSUME NEW label \in Figures, NEW card \in Nat, GpuBytes(label) # Unknown,
           \/ label.milli = card /\ label.milli < BYTES_THRESHOLD
           \/ label.milli = 1000 * card /\ label.milli >= BYTES_THRESHOLD
    PROVE  GpuBytes(label) = card
<1>1. label.milli \in Int
  BY DEF Figures
<1>2. (1000 * card) \div 1000 = card
  OBVIOUS
<1> QED BY <1>1, <1>2 DEF GpuBytes, BYTES_THRESHOLD

\* What nodes.py reads from a node it can size is what the node has.
LEMMA ReadTruly ==
    ASSUME NEW c \in Clusters, NEW j \in c, Schedulable(FromJson(j)), FromJson(j).kind # "cpu"
    PROVE  FromJson(j).bytes = j.card /\ FromJson(j).devices = j.cards /\ j.cards >= 1
<1>1. /\ j.gpu \in Figures /\ j.tpu \in Figures /\ j.memory \in Figures
      /\ j.card \in Nat /\ j.cards \in Nat /\ Truthful(j)
  BY OperatorAssumption, NodesAssumption
<1> DEFINE gpu == Devices(j.gpu)
           tpu == Devices(j.tpu)
           t   == Tpu(j, tpu.n)
           mem == GpuBytes(j.memory)
           many(q) == q.st = "num" /\ q.milli >= 1000
<1>2. /\ gpu.n > 0 => many(j.gpu) /\ ~gpu.refused /\ gpu.n = j.gpu.milli \div 1000
      /\ many(j.gpu) => gpu.n > 0 \/ gpu.refused
      /\ tpu.n > 0 => many(j.tpu) /\ ~tpu.refused /\ tpu.n = j.tpu.milli \div 1000
  BY <1>1, Counted
<1>3. CASE gpu.n > 0 \/ gpu.refused
  <2>1. /\ FromJson(j).devices = gpu.n /\ FromJson(j).bytes = mem
        /\ FromJson(j).unknown = (gpu.refused \/ mem = Unknown)
    BY <1>3 DEF FromJson
  <2>2. ~gpu.refused /\ mem # Unknown /\ gpu.n > 0
    BY <1>3, <2>1 DEF Schedulable
  <2>3. j.cards = j.gpu.milli \div 1000
    BY <1>1, <1>2, <2>2 DEF Truthful
  <2>4. j.memory.st = "num" /\ j.memory.milli > 0
    BY <1>1, <2>2 DEF GpuBytes, Figures
  <2>5. \/ j.memory.milli = j.card /\ j.memory.milli < BYTES_THRESHOLD
        \/ j.memory.milli = 1000 * j.card /\ j.memory.milli >= BYTES_THRESHOLD
    BY <1>1, <1>2, <2>2, <2>4 DEF Truthful
  <2>6. mem = j.card
    BY <1>1, <2>2, <2>5, LabelRead
  <2> QED BY <1>1, <1>2, <2>1, <2>2, <2>3, <2>6
<1>4. CASE ~(gpu.n > 0 \/ gpu.refused) /\ (tpu.n > 0 \/ tpu.refused)
  <2>1. /\ FromJson(j).devices = t.chips /\ FromJson(j).bytes = t.bytes
        /\ FromJson(j).unknown = (tpu.refused \/ t.bytes = Unknown)
    BY <1>4 DEF FromJson
  <2>2. ~tpu.refused /\ t.bytes # Unknown /\ tpu.n > 0
    BY <1>4, <2>1 DEF Schedulable
  <2>3. ~many(j.gpu) /\ many(j.tpu) /\ tpu.n = j.tpu.milli \div 1000
    BY <1>2, <1>4, <2>2
  <2>4. /\ j.cards >= 1
        /\ j.cards = IF j.topology = <<>> THEN j.tpu.milli \div 1000 ELSE Product(j.topology)
        /\ j.gen \in DOMAIN TPU_HBM => j.card = TPU_HBM[j.gen]
    BY <1>1, <2>3 DEF Truthful
  <2>5. j.gen \in DOMAIN TPU_HBM
    BY <2>2 DEF Tpu
  <2>6. /\ t.bytes = TPU_HBM[j.gen]
        /\ t.chips = IF j.topology = <<>> THEN tpu.n ELSE Product(j.topology)
    BY <2>5 DEF Tpu
  <2> QED BY <2>1, <2>3, <2>4, <2>5, <2>6
<1>5. CASE ~(gpu.n > 0 \/ gpu.refused) /\ ~(tpu.n > 0 \/ tpu.refused)
  BY <1>5 DEF FromJson
<1> QED BY <1>3, <1>4, <1>5

\* The node a plan is sized for is one the cluster reports, and is what it says.
LEMMA SelectedIsReported ==
    ASSUME NEW c \in Clusters, NEW sel, NEW n \in SelectNode(ReadCluster(c), sel)
    PROVE  \E j \in c : /\ j.card \in Nat /\ j.cards \in Nat /\ j.cards >= 1
                        /\ ToHardware(n).devices = j.cards
                        /\ ToHardware(n).usable = ((j.card * j.cards) * 92) \div 100
<1>1. n \in ReadCluster(c) /\ Schedulable(n) /\ n.kind # "cpu"
  BY DEF SelectNode
<1>2. PICK j \in c : n = FromJson(j)
  BY <1>1 DEF ReadCluster
<1>3. n.bytes = j.card /\ n.devices = j.cards /\ j.cards >= 1
  BY <1>1, <1>2, ReadTruly
<1>4. j.card \in Nat /\ j.cards \in Nat
  BY NodesAssumption
<1>5. Max({n.devices, 1}) = j.cards
  BY <1>3, <1>4, MaxOfTwo
<1>6. /\ ToHardware(n).devices = Max({n.devices, 1})
      /\ ToHardware(n).usable = ((n.bytes * Max({n.devices, 1})) * 92) \div 100
  BY <1>1 DEF ToHardware
<1> QED BY <1>3, <1>4, <1>5, <1>6

\* What solve() adds up is a number.
LEMMA TotalIsNumber ==
    ASSUME NEW m \in Catalogue, NEW q \in DOMAIN QUANT_BITS, NEW hw,
           NEW x \in Int, NEW k \in Int
    PROVE  Solve(m, q, hw, x, k).total \in Int
<1>1. {m.params, m.active, m.layers, m.kv_heads, m.kv_lora_rank} \subseteq Nat
  BY OperatorAssumption
<1>2. QUANT_BITS[q] \in Int
  BY DEF QUANT_BITS
<1> DEFINE w == WeightBytes(m, q)
           kv == KvBytesPerToken(m) * x
<1>3. w \in Int
  <2>1. m.params * 10 * QUANT_BITS[q] \in Int
    BY <1>1, <1>2
  <2> QED BY <2>1 DEF WeightBytes
<1>4. kv \in Int
  <2>1. KvBytesPerToken(m) \in Int
    BY <1>1 DEF KvBytesPerToken
  <2> QED BY <2>1
<1>5. Overhead(w) \in Int
  BY <1>3 DEF Overhead, OVERHEAD_FLOOR
<1> HIDE DEF w, kv
<1>6. kv * k \in Int
  BY <1>4
<1>7. w + kv * k + Overhead(w) \in Int
  BY <1>3, <1>5, <1>6
<1>8. FitOfParts(m, q, hw, x, k, w, kv).total = w + kv * k + Overhead(w)
  BY DEF FitOfParts
<1>9. Solve(m, q, hw, x, k) = FitOfParts(m, q, hw, x, k, w, kv)
  BY DEF Solve, w, kv
<1> QED BY <1>7, <1>8, <1>9

\* Multiplying by a device count keeps the order.
LEMMA Scaled ==
    ASSUME NEW a \in Int, NEW b \in Int, NEW d \in Int, a <= b, d >= 1
    PROVE  a * d <= b * d
OBVIOUS

\* A machine that bears o.
Bears(h, o) == /\ h.usable = o.fit.usable
               /\ o.devices <= h.devices
               /\ o.fit.total * h.devices <= o.fit.usable * o.devices

\* Dividing by a device count keeps the order.
LEMMA Unscaled ==
    ASSUME NEW a \in Int, NEW b \in Int, NEW d \in Int, a * d <= b * d, d >= 1
    PROVE  a <= b
<1> SUFFICES ASSUME b + 1 <= a PROVE FALSE
  OBVIOUS
<1>1. (b + 1) * d <= a * d
  BY Scaled
<1>2. (b + 1) * d = b * d + d
  OBVIOUS
<1> QED BY <1>1, <1>2

\* What such a machine bears, each card of it holds a share of.
LEMMA CardsHold ==
    ASSUME NEW total \in Int, NEW k \in Int, k >= 1, NEW card \in Int, NEW d \in Int, d >= 1,
           NEW usable \in Int, usable = ((card * d) * 92) \div 100,
           total * d <= usable * k
    PROVE  total * 100 <= 92 * card * k
<1>1. card * d \in Int
  OBVIOUS
<1>2. usable * 100 <= (card * d) * 92
  BY <1>1
<1>3. (usable * 100) * k <= ((card * d) * 92) * k
  BY <1>1, <1>2, Scaled
<1>4. (total * d) * 100 <= (usable * k) * 100
  <2>1. total * d \in Int /\ usable * k \in Int
    OBVIOUS
  <2> QED BY <2>1
<1>5. /\ (total * d) * 100 = (total * 100) * d
      /\ (usable * k) * 100 = (usable * 100) * k
      /\ ((card * d) * 92) * k = (92 * card * k) * d
  OBVIOUS
<1>6. /\ (total * 100) * d <= (92 * card * k) * d
      /\ total * 100 \in Int /\ 92 * card * k \in Int
  BY <1>3, <1>4, <1>5
<1> QED BY <1>6, Unscaled

\* Either one device holds it all, or all of them share it.
LEMMA Shares ==
    ASSUME NEW total \in Int, NEW usable \in Int, NEW devices \in Int, devices >= 1,
           total <= usable, NEW tp,
           tp = IF devices <= 1 THEN 0 ELSE IF total * devices < usable THEN 1 ELSE devices
    PROVE  /\ Max({1, tp}) <= devices
           /\ total * devices <= usable * Max({1, tp})
           /\ Max({1, tp}) \in Int /\ Max({1, tp}) >= 1
<1>1. CASE devices = 1
  <2>1. Max({1, tp}) = 1
    BY <1>1, MaxOfTwo
  <2> QED BY <1>1, <2>1
<1>2. CASE devices > 1 /\ total * devices < usable
  <2>1. Max({1, tp}) = 1
    BY <1>2, MaxOfTwo
  <2>2. total * devices \in Int
    OBVIOUS
  <2> QED BY <1>2, <2>1, <2>2
<1>3. CASE devices > 1 /\ ~(total * devices < usable)
  <2>1. tp = devices
    BY <1>3
  <2>2. Max({1, tp}) = devices
    BY <1>3, <2>1, MaxOfTwo
  <2> QED BY <1>3, <2>2, Scaled
<1> QED BY <1>1, <1>2, <1>3

\* Whatever a spec says, what is asked of the solver is numbers...
LEMMA Asked ==
    ASSUME NEW s \in Specs
    PROVE  Requirements(s).context \in Int /\ Requirements(s).concurrency \in Int
<1>1. s.concurrency \in Int /\ s.context \in Int
  BY OperatorAssumption
<1>2. /\ Requirements(s).concurrency = Max({1, Num(s.concurrency, 8)})
      /\ Requirements(s).context = Max({1, Num(s.context, 64)})
  BY DEF Requirements
<1>3. Num(s.concurrency, 8) \in Int /\ Num(s.context, 64) \in Int
  BY <1>1, SMTT(30) DEF Num, Unknown
<1> QED BY <1>2, <1>3, MaxOfTwo

\* ...and a precision it knows.
LEMMA FirstQuant ==
    ASSUME NEW m \in Catalogue
    PROVE  m.quants[1] \in DOMAIN QUANT_BITS
<1>1. m.quants # <<>> /\ m.quants \in Seq(DOMAIN QUANT_BITS)
  BY OperatorAssumption
<1> QED BY <1>1

\* What plan() makes of a machine: solve()'s fit and TensorParallel's knob.
LEMMA PlanIs ==
    ASSUME NEW hw, NEW req, NEW m
    PROVE  LET f == Solve(m, m.quants[1], hw, req.context, req.concurrency)
               p == Plan(hw, req, m, "", "")
           IN  /\ p.fit = f
               /\ p.knobs.tensor_parallel =
                     IF hw.devices <= 1 THEN 0 ELSE TensorParallel(hw, f)
<1> DEFINE f == Solve(m, m.quants[1], hw, req.context, req.concurrency)
           p == Plan(hw, req, m, "", "")
<1>1. \A e, x : Knobs(hw, req, m, x, "", e).tensor_parallel =
                   IF hw.devices <= 1 THEN 0 ELSE TensorParallel(hw, x)
  BY DEF Knobs
<1>2. p.fit = f
  BY DEF Plan
<1>3. \E e : p.knobs = Knobs(hw, req, m, f, "", e)
  BY DEF Plan
<1> HIDE DEF f, p
<1>4. p.knobs.tensor_parallel = IF hw.devices <= 1 THEN 0 ELSE TensorParallel(hw, f)
  BY <1>1, <1>3
<1> QED BY <1>2, <1>4 DEF f, p

\* A plan that fits, sharded as TensorParallel decides, asks no device for more
\* than its share.
LEMMA ShardsFit ==
    ASSUME NEW m \in Catalogue, NEW s \in Specs, NEW hw, Machine(hw), NEW p,
           p = Plan(hw, Requirements(s), m, "", ""), Feasible(p.fit), NEW id
    PROVE  LET o == DeploymentFor(p, id)
           IN  Bears(hw, o) /\ o.fit.total \in Int /\ o.devices \in Int /\ o.devices >= 1
<1> DEFINE f == p.fit
           tp == p.knobs.tensor_parallel
           o == DeploymentFor(p, id)
<1>1. /\ f = Solve(m, m.quants[1], hw, Requirements(s).context, Requirements(s).concurrency)
      /\ tp = IF hw.devices <= 1 THEN 0 ELSE TensorParallel(hw, f)
  BY PlanIs
<1>2. f.total \in Int /\ f.usable = hw.usable
  <2> DEFINE first == m.quants[1]
             cx == Requirements(s).context
             cc == Requirements(s).concurrency
  <2>1. first \in DOMAIN QUANT_BITS /\ cx \in Int /\ cc \in Int /\ f = Solve(m, first, hw, cx, cc)
    BY <1>1, Asked, FirstQuant
  <2> HIDE DEF first, cx, cc, f
  <2>2. Solve(m, first, hw, cx, cc).total \in Int /\ Solve(m, first, hw, cx, cc).usable = hw.usable
    <3>1. Solve(m, first, hw, cx, cc).total \in Int
      BY <2>1, TotalIsNumber
    <3>2. Solve(m, first, hw, cx, cc).usable = hw.usable
      BY DEF Solve, FitOfParts
    <3> QED BY <3>1, <3>2
  <2> QED BY ONLY <2>1, <2>2
<1>3. hw.usable \in Int /\ hw.devices \in Int /\ hw.devices >= 1
  BY DEF Machine
<1>4. o.fit = f /\ o.devices = Max({1, tp})
  BY DEF DeploymentFor
<1> HIDE DEF f, tp, o
<1>5. f.total <= f.usable
  BY DEF Feasible, f
<1>6. tp = IF hw.devices <= 1 THEN 0 ELSE IF f.total * hw.devices < f.usable THEN 1 ELSE hw.devices
  BY <1>1, <1>5 DEF TensorParallel, Feasible
<1>7. /\ Max({1, tp}) <= hw.devices /\ f.total * hw.devices <= f.usable * Max({1, tp})
      /\ Max({1, tp}) \in Int /\ Max({1, tp}) >= 1
  BY <1>2, <1>3, <1>5, <1>6, Shares
<1> QED BY <1>2, <1>4, <1>7 DEF Bears, o

\* What reconcile() hands to kubectl apply really fits on a node of the list it
\* was sized against: only a feasible plan is declared ready.
LEMMA ReadyFits ==
    ASSUME NEW s \in Specs, NEW ph, NEW c \in Clusters, NEW g,
           NEW w, w.spec = s, w.phase = ph,
           Reconcile(w, ReadCluster(c), g).ready,
           NEW o \in Reconcile(w, ReadCluster(c), g).objects
    PROVE  \E j \in c : Holds(j, o)
<1> DEFINE picked == SelectNode(ReadCluster(c), s.selector)
           models == CatalogueModel(s.model)
           hw == ToHardware(CHOOSE n \in picked : TRUE)
           m == CHOOSE x \in models : TRUE
           p == Plan(hw, Requirements(s), m, "", "")
<1>1. picked # {} /\ models # {} /\ Feasible(p.fit) /\ o = DeploymentFor(p, m.id)
  BY DEF Reconcile, Refuse
<1>2. m \in Catalogue
  BY <1>1 DEF CatalogueModel
<1>3. /\ Machine(hw)
      /\ \E j \in c : /\ j.card \in Nat /\ j.cards \in Nat /\ j.cards >= 1
                     /\ hw.devices = j.cards
                     /\ hw.usable = ((j.card * j.cards) * 92) \div 100
  <2>1. PICK n \in picked : hw = ToHardware(n)
    BY <1>1
  <2>2. n \in ReadCluster(c)
    BY DEF SelectNode
  <2> HIDE DEF hw
  <2> QED BY <2>1, <2>2, SelectedIsReported, NodeIsMachine
<1>4. Bears(hw, o) /\ o.fit.total \in Int /\ o.devices \in Int /\ o.devices >= 1
  <2> HIDE DEF hw, m, picked, models
  <2> DEFINE made == DeploymentFor(p, m.id)
  <2>1. Bears(hw, made) /\ made.fit.total \in Int /\ made.devices \in Int /\ made.devices >= 1
    BY <1>1, <1>2, <1>3, ShardsFit
  <2> QED BY <1>1, <2>1
<1> HIDE DEF hw, m, picked, models, p
<1>5. PICK j \in c : /\ j.card \in Nat /\ j.cards \in Nat /\ j.cards >= 1
                    /\ hw.devices = j.cards
                    /\ hw.usable = ((j.card * j.cards) * 92) \div 100
  BY <1>3
<1>6. /\ o.devices <= j.cards /\ hw.usable \in Int
      /\ o.fit.total * j.cards <= hw.usable * o.devices
  BY <1>3, <1>4, <1>5 DEF Bears, Machine
<1>7. o.fit.total * 100 <= 92 * j.card * o.devices
  BY <1>4, <1>5, <1>6, CardsHold
<1> QED BY <1>6, <1>7 DEF Holds

\* An apply writes what this pass's outcome declared ready.
LEMMA AppliedFits ==
    ASSUME AsListed, ApplyObjects, NEW d \in DOMAIN deployed, deployed'[d] # deployed[d]
    PROVE  \E j \in nodes : Holds(j, deployed'[d])
<1> DEFINE n == Current
           o == CHOOSE x \in Outcome(n).objects : TRUE
           w == [spec |-> listed[n].spec, phase |-> listed[n].phase]
<1>1. /\ Outcome(n).ready /\ Outcome(n).objects # {}
      /\ deployed' = [deployed EXCEPT ![Label[n]] = o]
  BY DEF ApplyObjects
<1>2. pc \in Reconciling /\ n \in todo /\ nodes \in Clusters
  BY CurrentIs DEF ApplyObjects, AsListed, Reconciling
<1>3. /\ Outcome(n) = Reconcile(w, ReadCluster(nodes), listed[n].regressed)
      /\ listed[n].spec \in Specs /\ w.spec = listed[n].spec /\ w.phase = listed[n].phase
  BY <1>2, OutcomeIs
<1>4. o \in Outcome(n).objects
  BY <1>1
<1> HIDE DEF o, w, n
<1>5. \E j \in nodes : Holds(j, o)
  BY <1>1, <1>2, <1>3, <1>4, ReadyFits
<1>6. deployed'[d] = o
  BY <1>1
<1> QED BY <1>5, <1>6

\* What runs on a device fits on it, for every cluster of truthful nodes, every
\* catalogue and every set of specs: the label's unit, the count of devices,
\* the fit gate and the tensor-parallel decision agree.
THEOREM ShardsAlwaysFit == Spec => DeployedShardsFit
<1> DEFINE Fitting == \A d \in DOMAIN deployed : deployed'[d] # deployed[d] =>
                          \E j \in nodes : Holds(j, deployed'[d])
<1>1. AsListed /\ [Next]_vars => [Fitting]_vars
  <2> SUFFICES ASSUME AsListed, [Next]_vars PROVE Fitting
    OBVIOUS
  <2>1. CASE ApplyObjects
    BY <2>1, AppliedFits
  <2>2. CASE UNCHANGED deployed
    BY <2>2
  <2>3. ApplyObjects \/ UNCHANGED deployed
    BY DEF Next, Controller, vars, ReadNodes, ListWorkloads, PatchStatus, Demote, ReportFailure,
           EditSpec, SetPhase, Annotate, NodesChange
  <2> QED BY <2>1, <2>2, <2>3
<1> QED BY <1>1, AsListedInit, AsListedStep, PTL DEF Spec, DeployedShardsFit
=============================================================================
