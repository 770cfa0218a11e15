------------------------------ MODULE Planner ------------------------------
(***************************************************************************)
(* Sizing and planning: what fits on a machine, which engine serves it and *)
(* with which settings, and the command line that says so.  Pure           *)
(* definitions, translated from catalog.py, hardware.py,                   *)
(* hardware_catalog.py, fit.py, plan.py and engines.py; the operator, the  *)
(* serving commands and the session use them.                              *)
(*                                                                         *)
(* Units: memory in tenths of a GB, context in blocks of 512 tokens,       *)
(* fractions in percent, QUANT_BITS in half bits.  The solver is linear in *)
(* all of them, so every comparison it makes is kept; figures are rounded  *)
(* towards zero, as int() does.                                            *)
(***************************************************************************)
EXTENDS Integers, Sequences, FiniteSets, FiniteSetsExt, SequencesExt

Unknown == -1                      \* Python's None for a number

\* A set of at most one element stands for a value or None.
The(set) == CHOOSE x \in set : TRUE
HeadOf(seq) == IF seq = <<>> THEN {} ELSE {Head(seq)}

-----------------------------------------------------------------------------
(* The catalogue entry (catalog.py)                                        *)

QUANT_BITS == [fp16 |-> 32, bf16 |-> 32, fp8 |-> 16, q8 |-> 16,
               q6 |-> 12, q5 |-> 10, q4 |-> 9, q3 |-> 7]

IsMoe(m) == m.active * 100 < m.params * 95

\* All experts are resident: the total parameters count, not the active ones.
WeightBytes(m, q) == (m.params * 10 * QUANT_BITS[q]) \div 16

\* MLA keeps one latent per layer in place of the keys and values.
KvBytesPerToken(m) ==
    (IF m.kv_scheme = "mla" /\ m.kv_lora_rank > 0
        THEN m.kv_lora_rank ELSE 2 * m.kv_heads) * m.layers * 2

-----------------------------------------------------------------------------
(* The machine (hardware.py, hardware_catalog.py)                          *)

\* A mixed rig is bounded by its smallest card; "mixed" is judged by name.
DetectedGpus(kind, cards) ==
    LET sizes == [i \in DOMAIN cards |-> cards[i].bytes]
        total == FoldSeq(+, 0, sizes)
        mixed == Cardinality({cards[i].name : i \in DOMAIN cards}) > 1
    IN  [kind |-> kind, total |-> total, devices |-> Len(cards), bw |-> Unknown,
         usable |-> ((IF mixed THEN Min(Range(sizes)) * Len(cards) ELSE total) * 90)
                        \div 100]

\* rocm-smi: one card without a readable figure declines the whole machine.
DetectAmd(cards) ==
    IF cards = <<>> \/ \E i \in DOMAIN cards : cards[i].bytes = Unknown
    THEN {} ELSE {DetectedGpus("amd", cards)}

DetectNvidia(cards) == IF cards = <<>> THEN {} ELSE {DetectedGpus("nvidia", cards)}

\* A wired limit the user set is honoured up to 92 % of the memory.
DetectApple(total, wired, bw) ==
    IF total = 0 THEN {}
    ELSE {[kind |-> "apple", total |-> total, devices |-> 1, bw |-> bw,
           usable |-> IF wired > 0 THEN Min({wired, (total * 92) \div 100})
                                   ELSE (total * 75) \div 100]}

\* A chip sold in several bandwidths is taken at its lowest when the memory
\* size does not tell which one it is.
AppleBandwidth(bins, table, gb) ==
    IF bins = <<>> THEN table
    ELSE IF gb \in DOMAIN bins THEN bins[gb]
    ELSE Min({bins[g] : g \in DOMAIN bins})

DetectCpu(total) == [kind |-> "cpu", total |-> total, devices |-> 1, bw |-> Unknown,
                     usable |-> (total * 70) \div 100]

\* Apple, then NVIDIA, then AMD, then the CPU.
Detect(box) ==
    LET apple  == DetectApple(box.apple, box.wired, box.bw)
        nvidia == DetectNvidia(box.nvidia)
        amd    == DetectAmd(box.amd)
        first  == SelectSeq(<<apple, nvidia, amd>>, LAMBDA s : s # {})
    IN  IF first = <<>> THEN DetectCpu(box.ram) ELSE CHOOSE h \in first[1] : TRUE

\* A catalogue profile: each device after the first adds 85 % of its bandwidth.
ProfileHardware(p) ==
    LET total == p.bytes * p.devices
    IN  [kind |-> p.kind, total |-> total, devices |-> p.devices,
         bw |-> (p.bw * (100 + (p.devices - 1) * 85)) \div 100,
         usable |-> (total * (CASE p.kind = "apple" -> 75
                                [] p.kind = "cpu"   -> 70
                                [] OTHER            -> 90)) \div 100]

-----------------------------------------------------------------------------
(* The fit solver (fit.py)                                                 *)

OVERHEAD_FLOOR == 15

Overhead(w) == (w * 8) \div 100 + OVERHEAD_FLOOR

\* Raises below 1; a decode step reads the active weights and the whole cache.
FitOfParts(m, q, hw, context, concurrency, w, kv) ==
    [model |-> m, quant |-> q, context |-> context, concurrency |-> concurrency,
     weight |-> w, kv |-> kv * concurrency, overhead |-> Overhead(w), usable |-> hw.usable,
     total |-> w + kv * concurrency + Overhead(w),
     read |-> (m.active * 10 * QUANT_BITS[q]) \div 16 + kv,
     bw |-> IF hw.bw = Unknown THEN Unknown ELSE (hw.bw * 10 * 72) \div 100]
Solve(m, q, hw, context, concurrency) ==
    FitOfParts(m, q, hw, context, concurrency,
               WeightBytes(m, q), KvBytesPerToken(m) * context)

SolveRaises(context, concurrency) == context < 1 \/ concurrency < 1

Feasible(f) == f.total <= f.usable

\* Tokens a second times the concurrency, and the spread an MoE hides.
Batched(f, kvRead) ==
    IF f.bw = Unknown \/ f.read <= kvRead THEN Unknown
    ELSE (f.concurrency * f.bw) \div (f.read - kvRead + f.concurrency * kvRead)
AggregateTokens(f) == Batched(f, KvBytesPerToken(f.model) * f.context)

MoeBatchOptimism(f) ==
    IF ~IsMoe(f.model) \/ f.concurrency < 2 \/ f.model.active <= 0 THEN Unknown
    ELSE (Min({f.model.params, f.concurrency * f.model.active}) * 100) \div f.model.active

BeyondPublishedContext(f) == f.context > f.model.max_context

Spare(m, q, hw) == hw.usable - WeightBytes(m, q) - Overhead(WeightBytes(m, q))

MaxContext(m, q, hw, concurrency) ==
    IF Spare(m, q, hw) <= 0 THEN 0
    ELSE Min({m.max_context,
              Spare(m, q, hw) \div (KvBytesPerToken(m) * Max({1, concurrency}))})

MaxConcurrency(m, q, hw, context) ==
    IF Spare(m, q, hw) <= 0 THEN 0
    ELSE Spare(m, q, hw) \div (KvBytesPerToken(m) * Max({1, context}))

\* The precisions worth trying, by their place in the published list: those at or
\* below 8 bits if the model publishes any.
QuantPreference(quants) ==
    LET low == {i \in DOMAIN quants : QUANT_BITS[quants[i]] <= 16}
    IN  IF low = {} THEN DOMAIN quants ELSE low

\* Highest precision first, as published where two are equal.
TriedBefore(quants, i, j) ==
    LET bits(k) == QUANT_BITS[quants[k]]
    IN  bits(i) > bits(j) \/ (bits(i) = bits(j) /\ i <= j)

\* The first that fits; {} is None.
BestQuant(m, hw, context, concurrency) ==
    LET fit(i) == Solve(m, m.quants[i], hw, context, concurrency)
        fitting == {i \in QuantPreference(m.quants) : Feasible(fit(i))}
    IN  {fit(i) : i \in {k \in fitting : \A j \in fitting : TriedBefore(m.quants, k, j)}}

Smallest(m) == CHOOSE q \in Range(m.quants) :
                   \A r \in Range(m.quants) : QUANT_BITS[q] <= QUANT_BITS[r]

Shortfall(f) == IF f.weight > f.usable THEN [why |-> "weights", by |-> f.weight]
                                      ELSE [why |-> "kv", by |-> f.total - f.usable]
WhyNot(m, hw, context, concurrency) == Shortfall(Solve(m, Smallest(m), hw, context, concurrency))

\* rank(): the places in the catalogue of what runs here, the larger model
\* ahead, and why the rest does not run.
Ranked(models, hw, context, concurrency) ==
    {i \in DOMAIN models : BestQuant(models[i], hw, context, concurrency) # {}}
RankedAhead(models, i, j) ==
    \/ models[i].params > models[j].params
    \/ models[i].params = models[j].params /\ i < j
Rejected(models, hw, context, concurrency) ==
    {<<models[i], WhyNot(models[i], hw, context, concurrency)>> :
        i \in DOMAIN models \ Ranked(models, hw, context, concurrency)}

\* where(): which machine runs it; capable first, then price, then speed.
Placement(p, best, why) ==
    [profile |-> p.id, fit |-> best, usd |-> p.usd, why |-> IF best = {} THEN {why} ELSE {},
     tps |-> Max({0} \cup {f.bw \div f.read : f \in best})]
Preferred(a, b) ==
    LET price(x) == IF x.usd = Unknown THEN 1000000 ELSE x.usd
    IN  \/ a.fit # {} /\ b.fit = {}
        \/ /\ (a.fit = {}) = (b.fit = {})
           /\ \/ price(a) < price(b)
              \/ price(a) = price(b) /\ a.tps > b.tps
Placements(m, profiles, context, concurrency) ==
    LET place(p, hw) == Placement(p, BestQuant(m, hw, context, concurrency),
                                     WhyNot(m, hw, context, concurrency))
    IN  {place(p, ProfileHardware(p)) : p \in profiles}

\* Dollars per million tokens, batched; Unknown without a price or a speed.
Cost(usd, tokens) == IF usd = Unknown \/ tokens \in {Unknown, 0} THEN Unknown
                     ELSE (usd * 1000000) \div (tokens * 3600)
CostPerMtok(usd, f) == Cost(usd, AggregateTokens(f))

-----------------------------------------------------------------------------
(* The engine and its settings (plan.py)                                   *)

PickEngine(hw, req) ==
    CASE hw.kind = "tpu" -> "vllm-tpu"
      [] hw.kind = "apple" ->
            IF req.structured \/ req.concurrency >= 4 THEN "mlx" ELSE "llama.cpp"
      [] hw.kind = "nvidia" ->
            IF req.prefix >= 55 THEN "sglang"
            ELSE IF req.workload = "batch" /\ req.concurrency >= 64 THEN "llm-d" ELSE "vllm"
      [] OTHER -> "vllm"

\* A fraction of ONE device, for one device's share of the model.
MemoryUtilization(f, devices, shards) ==
    IF f.usable <= 0 THEN 92
    ELSE Min({95, (f.total * 100 * Max({1, devices}))
                      \div (f.usable * Max({1, shards})) + 8})

MaxNumSeqs(req) ==
    CASE req.workload = "batch"    -> Max({256, req.concurrency})
      [] req.workload = "realtime" -> Max({8, Min({32, req.concurrency})})
      [] OTHER                     -> Max({32, Min({128, req.concurrency * 2})})

Speculative(req, m) ==
    IF req.workload = "batch" \/ req.concurrency > 16 THEN "off"
    ELSE IF m.mtp_native THEN "mtp" ELSE "eagle3"

ChunkedPrefill(req) == IF req.workload = "batch" THEN 8192 ELSE 2048

\* Mutant: the weights alone decide, as they once did.
TensorParallelByWeights(hw, f) ==
    IF Feasible(f) /\ f.weight * hw.devices < f.usable THEN 1 ELSE hw.devices

\* Shard only when one device does not hold weights, cache and overhead.
TensorParallel(hw, f) ==
    IF Feasible(f) /\ f.total * hw.devices < f.usable THEN 1 ELSE hw.devices

KvPressed(f, engine) == engine # "vllm-tpu" /\ f.kv * 100 >= 45 * f.total

LoraPerBatch(req) == Min({req.adapters, Max({req.concurrency, 1})})

\* The settings of a plan, by name: the knobs plan() appends, in any order.
Knobs(hw, req, m, f, quant, engine) ==
    LET tp == IF hw.devices <= 1 THEN 1 ELSE TensorParallel(hw, f)
    IN  [context_length |-> req.context, max_concurrent |-> MaxNumSeqs(req),
         prefill_chunk |-> ChunkedPrefill(req), prefix_reuse |-> req.prefix >= 15,
         speculative |-> Speculative(req, m),
         memory_fraction |-> MemoryUtilization(f, hw.devices, tp),
         kv_cache_dtype |-> IF KvPressed(f, engine) THEN "fp8_e4m3" ELSE "absent",
         tensor_parallel |-> IF hw.devices <= 1 THEN 0 ELSE tp,
         structured_output |-> req.structured,
         lora_fleet |-> IF req.adapters = 0 THEN 0 ELSE LoraPerBatch(req),
         quantization |-> quant]

\* An unmeasured budget is a warning; it also returns before the test of fit.
BudgetWarnings(req, f) ==
    IF f.bw = Unknown
    THEN IF req.itl # Unknown \/ req.ttft # Unknown THEN {"unchecked"} ELSE {}
    ELSE (IF req.itl # Unknown /\ 1000 * f.read > req.itl * f.bw THEN {"too slow"} ELSE {})
         \cup (IF ~Feasible(f) THEN {"does not fit"} ELSE {})

\* What a TPU deployment is told it cannot be promised.
TpuNotes(m) == {"plugin", "single host"}
               \cup (IF m.kv_scheme = "mla" THEN {"mla"} ELSE {})
               \cup (IF IsMoe(m) THEN {"moe"} ELSE {})

\* quant = "" takes the first precision the model lists; force = "" picks.
Plan(hw, req, m, quant, force) ==
    LET f == Solve(m, IF quant = "" THEN m.quants[1] ELSE quant, hw,
                   req.context, req.concurrency)
        e == IF force = "" THEN PickEngine(hw, req) ELSE force
    IN  [engine |-> e, fit |-> f, knobs |-> Knobs(hw, req, m, f, quant, e),
         warnings |-> BudgetWarnings(req, f),
         notes |-> IF e = "vllm-tpu" THEN TpuNotes(m) ELSE {}]

\* What the CLI recommends: the engine plan() would start.  Every engine has
\* a dialect at this commit, so the search for a substitute is not entered.
RecommendRuntime(hw, context, concurrency) ==
    PickEngine(hw, [workload |-> "interactive", concurrency |-> concurrency,
                    context |-> context, prefix |-> 0, structured |-> FALSE])

-----------------------------------------------------------------------------
(* The dialects (engines.py).  A translation is a set of flags with their   *)
(* values, or Gap: the engine has no verified flag for the intent.          *)

Gap == {<<"gap">>}

VllmTranslate(s, v) ==
    CASE s = "context_length"  -> {<<"ctx", v>>}
      [] s = "max_concurrent"  -> {<<"seqs", v>>}
      [] s = "prefill_chunk"   -> {<<"chunk", v>>, <<"chunk_on">>}
      [] s = "prefix_reuse"    -> IF v THEN {<<"cache_on">>} ELSE {}
      [] s = "speculative"     -> CASE v = "off"    -> {}
                                    [] v = "eagle3" -> Gap
                                    [] OTHER        -> {<<"spec", v>>}
      [] s = "quantization"    -> IF v = "fp8" THEN {<<"quant", v>>} ELSE Gap
      [] s = "structured_output" -> IF v THEN {<<"grammar">>} ELSE {}
      [] OTHER                 -> {<<s, v>>}

SglangTranslate(s, v) ==
    CASE s = "context_length"  -> {<<"ctx", v>>}
      [] s = "max_concurrent"  -> {<<"seqs", v>>}
      [] s = "prefill_chunk"   -> {<<"chunk", v>>}
      [] s = "prefix_reuse"    -> IF v THEN {} ELSE {<<"cache_off">>}
      [] s = "speculative"     -> IF v = "off" THEN {} ELSE Gap
      [] s = "quantization"    -> IF v = "fp8" THEN {<<"quant", v>>} ELSE Gap
      [] s = "structured_output" -> IF v THEN Gap ELSE {}
      [] s = "lora_fleet"      -> {<<s, v + 1>>}
      [] OTHER                 -> {<<s, v>>}

MlxTranslate(s, v) ==
    CASE s = "max_concurrent"  -> {<<"seqs", v>>, <<"prompts", v>>}
      [] s = "prefill_chunk"   -> {<<"chunk", v>>}
      [] s = "prefix_reuse"    -> {}
      [] s = "speculative"     -> IF v = "off" THEN {} ELSE Gap
      [] s = "lora_fleet"      -> IF v = 1 THEN {<<s, 1>>} ELSE Gap
      [] OTHER                 -> Gap

LlamaCppTranslate(s, v) ==
    CASE s = "context_length"  -> {<<"ctx", v>>}
      [] s = "max_concurrent"  -> {<<"seqs", v>>}
      [] s = "prefill_chunk"   -> {<<"chunk", v>>}
      [] s = "prefix_reuse"    -> IF v THEN {<<"cache_on">>} ELSE Gap
      [] s = "speculative"     -> IF v = "off" THEN {} ELSE Gap
      [] s = "kv_cache_dtype"  -> {<<s, "q8_0">>}
      [] s = "structured_output" -> {}
      [] s = "lora_fleet"      -> IF v = 1 THEN {<<s, 1>>} ELSE Gap
      [] OTHER                 -> Gap

OllamaTranslate(s, v) ==
    CASE s = "context_length"  -> {<<"ctx", v>>}
      [] s = "max_concurrent"  -> {<<"seqs", v>>}
      [] s = "prefix_reuse"    -> IF v THEN {} ELSE Gap
      [] s = "speculative"     -> IF v = "off" THEN {} ELSE Gap
      [] s = "structured_output" -> {}
      [] OTHER                 -> Gap

Translate(engine, s, v) ==
    CASE engine \in {"vllm", "vllm-tpu", "llm-d"} -> VllmTranslate(s, v)
      [] engine = "sglang"    -> SglangTranslate(s, v)
      [] engine = "mlx"       -> MlxTranslate(s, v)
      [] engine = "llama.cpp" -> LlamaCppTranslate(s, v)
      [] engine = "ollama"    -> OllamaTranslate(s, v)

\* The settings the plan really carries: the optional knobs when they apply.
Wanted(k) == {s \in DOMAIN k :
    /\ (s = "kv_cache_dtype" => k[s] # "absent")
    /\ (s \in {"tensor_parallel", "lora_fleet"} => k[s] # 0)
    /\ (s = "structured_output" => k[s])
    /\ (s = "quantization" => k[s] # "")}

\* llama.cpp divides --ctx-size among its slots, so command() multiplies.
SpelledContext(engine, k) ==
    IF engine = "llama.cpp" /\ k.max_concurrent > 1
    THEN k.context_length * k.max_concurrent ELSE k.context_length

\* argv (and, for Ollama, the environment) and the intents left out of it.
Command(engine, k) ==
    LET value(s) == IF s = "context_length" THEN SpelledContext(engine, k) ELSE k[s]
        out == [s \in Wanted(k) |-> Translate(engine, s, value(s))]
        gaps == {s \in Wanted(k) : out[s] = Gap}
    IN  [flags |-> UNION {out[s] : s \in Wanted(k) \ gaps}, gaps |-> gaps]
=============================================================================
