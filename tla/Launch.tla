------------------------------- MODULE Launch -------------------------------
(***************************************************************************)
(* `onpar run`: plan a launch (launch.plan), confirm the weights against   *)
(* the model index (launch.resolve_weights), start the engine, wait for    *)
(* its first token, and take it and everything it forked down again        *)
(* (launch.serve, Endpoint.stop); and `onpar measure` against what is      *)
(* served (measure.py).  The engine, its workers, the index and whatever   *)
(* else listens on the port move on their own between any two steps.       *)
(***************************************************************************)
EXTENDS Planner, TLC

CONSTANTS Requests,     \* what `onpar run` may be asked, a set of records
          Hub,          \* the repos the model index may hold, a set of sets
          Warmups,      \* rates the discarded decodes may show
          Rates,        \* rates one timed decode may show
          Samples,      \* timed decodes of one measurement
          MaxRuns,      \* bound: launches attempted
          MaxPolls,     \* bound: probes before serve()'s deadline
          MaxPids       \* bound: processes the engine ever has, itself included

\* What catalog.load() refuses is never asked for, and the CLI clamps the rest.
ASSUME LaunchAssumption ==
    /\ Samples \in Nat /\ Samples >= 2
    /\ MaxRuns \in Nat /\ MaxPolls \in Nat /\ MaxPids \in Nat \ {0}
    /\ \A r \in Requests :
          /\ {r.context, r.concurrency} \subseteq Nat \ {0}
          /\ r.hw.usable \in Nat /\ r.hw.bw \in Nat \cup {Unknown}
          /\ LET m == r.model
             IN  /\ {m.params, m.active, m.layers, m.kv_heads, m.max_context} \subseteq Nat \ {0}
                 /\ m.kv_lora_rank \in Nat
                 /\ m.quants # <<>> /\ m.quants \in Seq(DOMAIN QUANT_BITS)

-----------------------------------------------------------------------------
(* The plan                                                                *)

ENGINE_HARDWARE ==
    [e \in {"vllm", "sglang", "llm-d", "vllm-tpu", "mlx", "llama.cpp", "ollama"} |->
        CASE e = "vllm"              -> {"nvidia", "amd"}
          [] e \in {"sglang", "llm-d"} -> {"nvidia"}
          [] e = "vllm-tpu"          -> {"tpu"}
          [] e = "mlx"               -> {"apple"}
          [] OTHER                   -> {"apple", "nvidia", "amd", "cpu"}]

GGUF_SUFFIX == [q4 |-> "Q4_K_M", q8 |-> "Q8_0", fp16 |-> "F16"]

MLX_SUFFIX == [q3 |-> "3bit", q4 |-> "4bit", q5 |-> "5bit", q6 |-> "6bit",
               q8 |-> "8bit", fp8 |-> "8bit", fp16 |-> "bf16", bf16 |-> "bf16"]

Base(m) == <<m.org, [prefix |-> m.prefixed, instruct |-> m.instruct], "as is">>

\* The recorded name, the one with the organisation's prefix, then each with
\* its -Instruct ending added or taken off.
Stems(m) ==
    LET own == [prefix |-> m.prefixed, instruct |-> m.instruct]
        out == IF m.org = "" \/ m.prefixed THEN <<own>>
               ELSE <<own, [own EXCEPT !.prefix = TRUE]>>
    IN  out \o [i \in DOMAIN out |-> [out[i] EXCEPT !.instruct = ~@]]

\* Repos worth asking for, best guess first.
Candidates(m, q, e) ==
    LET stems == Stems(m)
    IN  IF \/ e = "ollama"
           \/ e = "llama.cpp" /\ q \notin DOMAIN GGUF_SUFFIX
           \/ e = "mlx" /\ q \notin DOMAIN MLX_SUFFIX
        THEN <<>>
        ELSE CASE e = "llama.cpp" ->
                  (IF m.org = "" THEN <<>> ELSE <<[Base(m) EXCEPT ![3] = "GGUF"]>>)
                  \o [i \in 1..2 * Len(stems) |->
                         <<IF i % 2 = 1 THEN "bartowski" ELSE "TheBloke",
                           stems[(i + 1) \div 2], "GGUF">>]
               [] e = "mlx" ->
                  [i \in DOMAIN stems |-> <<"mlx-community", stems[i], MLX_SUFFIX[q]>>]
                  \o (IF MLX_SUFFIX[q] = "bf16" /\ m.org # "" THEN <<Base(m)>> ELSE <<>>)
               [] OTHER -> IF m.org = "" THEN <<>> ELSE <<Base(m)>>

Refusal(why) == [refused |-> why]

\* _does_not_fit: the smallest precision is what the shortfall is told for.
DoesNotFit(r, concurrency) ==
    [refused |-> "does not fit",
     short |-> Solve(r.model, Smallest(r.model), r.hw, r.context, concurrency).total
               - r.hw.usable]

\* Mutant: llama.cpp and Ollama sized at the caller's concurrency.
SizedAsAsked(r, p, f) == f

\* llama.cpp and Ollama allocate every slot at start-up, and the planner rounds
\* the slots up: they are sized again at the slots the command will ask for.
SizedAtSlots(r, p, f) ==
    IF p.engine \in {"llama.cpp", "ollama"} /\ p.knobs.max_concurrent > r.concurrency
    THEN Solve(r.model, f.quant, r.hw, r.context, p.knobs.max_concurrent) ELSE f

\* The best precision that fits, or the one asked for if it does.
Fitting(r) ==
    IF r.quant = "" THEN BestQuant(r.model, r.hw, r.context, r.concurrency)
    ELSE {f \in {Solve(r.model, r.quant, r.hw, r.context, r.concurrency)} : Feasible(f)}

Asked(r) ==
    [workload |-> "interactive", concurrency |-> r.concurrency, context |-> r.context,
     ttft |-> Unknown, itl |-> Unknown, prefix |-> 0, structured |-> FALSE, adapters |-> 0]

\* The plan for a fit, and the fit it is launched with.
Launchable(r, quant, p, sized) ==
    IF ~Feasible(sized) THEN DoesNotFit(r, p.knobs.max_concurrent)
    ELSE [refused |-> "", engine |-> p.engine, quant |-> quant, fit |-> sized,
          knobs |-> p.knobs, command |-> Command(p.engine, p.knobs),
          tried |-> Candidates(r.model, quant, p.engine),
          key |-> <<p.engine, r.model.id, quant>>]
Planned(r, f, p) == Launchable(r, f.quant, p, SizedAtSlots(r, p, f))

\* plan() up to the weights: a refusal, or what will be launched.
Sized(r) ==
    IF r.quant # "" /\ r.quant \notin Range(r.model.quants) THEN Refusal("not published")
    ELSE IF r.engine # "" /\ r.hw.kind \notin ENGINE_HARDWARE[r.engine]
    THEN Refusal("wrong hardware")
    ELSE IF Fitting(r) = {} THEN DoesNotFit(r, r.concurrency)
    ELSE The({Planned(r, f, Plan(r.hw, Asked(r), r.model, f.quant, r.engine)) :
                  f \in Fitting(r)})

\* The index names the file inside a GGUF repo as well.
Final(p, repo) == IF p.engine = "llama.cpp" THEN Append(repo, GGUF_SUFFIX[p.quant]) ELSE repo

-----------------------------------------------------------------------------
(* Measuring (measure.py); rates in tokens per second, load in percent of  *)
(* a core.                                                                 *)

SPREAD_LIMIT == 20

LOAD_LIMIT == 80

\* Pearson's correlation with the sample order is at most -0.7.
Decline(rates) ==
    LET n    == Len(rates)
        sum(g(_)) == FoldFunction(+, 0, [i \in 1..n |-> g(i)])
        y    == sum(LAMBDA i : rates[i])
        dx(i) == n * (i - 1) - (n * (n - 1)) \div 2
        dy(i) == n * rates[i] - y
        cov  == sum(LAMBDA i : dx(i) * dy(i))
    IN  /\ n >= 6
        /\ cov < 0
        /\ 100 * cov * cov >= 49 * sum(LAMBDA i : dx(i) * dx(i)) * sum(LAMBDA i : dy(i) * dy(i))

\* Twice the median of an unsorted sequence of rates.
Median2(rates) ==
    LET s == SortSeq(rates, <)
        n == Len(rates)
    IN  s[(n + 1) \div 2] + s[n \div 2 + 1]

Spread(rates) == 200 * (Max(Range(rates)) - Min(Range(rates))) > SPREAD_LIMIT * Median2(rates)

Contended(load) == load # Unknown /\ load > LOAD_LIMIT

\* What a run of samples is refused for, and what it does not vouch for.
Measured(slowing, before, rates, after) ==
    [refused |-> (IF \E i \in DOMAIN rates : rates[i] <= 0 THEN {"zero rate"} ELSE {})
                 \cup (IF Median2(rates) > 0 /\ Spread(rates)
                       THEN {"spread"} \cup (IF Decline(rates) THEN {"slowing"} ELSE {}) ELSE {})
                 \cup (IF Contended(before) THEN {"busy before"} ELSE {})
                 \cup (IF Contended(after) THEN {"busy after"} ELSE {}),
     caveats |-> (IF slowing THEN {"still slowing"} ELSE {})
                 \cup (IF Unknown \in {before, after} THEN {"load not read"} ELSE {})]

Usable(m) == m.refused = {}

-----------------------------------------------------------------------------
VARIABLES
    stage,         \* where `onpar run` is
    req,        \* what it was asked
    plan,       \* the LaunchPlan it works from
    at,         \* the candidate it asks the index about
    repo,       \* what it will serve
    weights,    \* weights.json: (engine, model, precision) -> repo
    hub,        \* the repos the index holds
    runs, polls,
    alive,      \* the engine (0) and its workers that run
    parent,     \* worker -> the process that is its parent now
    kin,        \* what stop() listed
    survivors,  \* what stop() reported
    outcome,    \* what the caller was told
    escaped,    \* workers that stop() had no way to see
    meas        \* the measurement under way

pvars == <<alive, parent, escaped>>

launchVars == <<stage, req, plan, at, repo, weights, hub, runs, polls, alive, parent, kin, survivors,
          outcome, escaped, meas>>

Pids == 0..MaxPids - 1

NoMeasurement == [st |-> "none"]

LaunchInit ==
    /\ stage = "idle" /\ req = <<>> /\ plan = <<>> /\ at = 0 /\ repo = <<>>
    /\ weights = <<>> /\ hub \in Hub
    /\ runs = 0 /\ polls = 0
    /\ alive = {} /\ parent = <<>> /\ kin = {} /\ survivors = {}
    /\ outcome = "" /\ escaped = {} /\ meas = NoMeasurement

\* The caller is told, and nothing of the request is kept.
Refuse(why) == /\ stage' = "idle" /\ outcome' = why
               /\ req' = <<>> /\ plan' = <<>> /\ at' = 0 /\ repo' = <<>>

Confirmed(r) == repo' = r /\ at' = 0 /\ stage' = "flags"

\* plan(): sizing, then the weights; Ollama's tag comes from the caller and a
\* remembered repo is taken without asking again.
PlanLaunch ==
    /\ stage = "idle" /\ runs < MaxRuns
    /\ \E r \in Requests : \E p \in {Sized(r)} :
         LET go == req' = r /\ plan' = p /\ outcome' = ""
         IN  IF p.refused # "" THEN Refuse(p.refused)
             ELSE IF p.engine = "ollama" /\ r.tag = <<>> THEN Refuse("needs a tag")
             ELSE IF p.engine = "ollama" THEN Confirmed(r.tag) /\ go
             ELSE IF p.key \in DOMAIN weights THEN Confirmed(weights[p.key]) /\ go
             ELSE IF p.tried = <<>> THEN Refuse("no repo known")
             ELSE stage' = "resolve" /\ at' = 1 /\ repo' = <<>> /\ go
    /\ runs' = runs + 1
    /\ UNCHANGED <<weights, hub, polls, pvars, kin, survivors, meas>>

\* hf_exists: what the index may say of a repo; unreachable is not absent.
HfExists(c) == {"raises", IF c \in hub THEN "exists" ELSE "absent"}

\* One question to the index; remembering the answer may fail without failing
\* the launch.
ResolveWeights ==
    /\ stage = "resolve"
    /\ \E c \in {plan.tried[at]} :
          \/ "raises" \in HfExists(c) /\ Refuse("index unreachable") /\ UNCHANGED weights
          \/ /\ "exists" \in HfExists(c)
             /\ Confirmed(Final(plan, c))
             /\ weights' \in {weights, (plan.key :> Final(plan, c)) @@ weights}
             /\ UNCHANGED <<req, plan, outcome>>
          \/ /\ "absent" \in HfExists(c) /\ at = Len(plan.tried)
             /\ Refuse("none exists") /\ UNCHANGED weights
          \/ /\ "absent" \in HfExists(c) /\ at < Len(plan.tried)
             /\ at' = at + 1
             /\ UNCHANGED <<stage, req, plan, repo, weights, outcome>>
    /\ UNCHANGED <<hub, runs, polls, pvars, kin, survivors, meas>>

\* unknown_flags: the installed binary's --help is the authority; when it
\* cannot be asked the command goes ahead with a note.
CheckFlags ==
    /\ stage = "flags"
    /\ \/ Refuse("flag not accepted")
       \/ stage' = "spawn" /\ UNCHANGED <<req, plan, at, repo, outcome>>
    /\ UNCHANGED <<weights, hub, runs, polls, pvars, kin, survivors, meas>>

\* Popen, or FileNotFoundError when the binary is missing.  No launch follows
\* one that started.
Spawn ==
    /\ stage = "spawn"
    /\ \/ Refuse("not installed") /\ UNCHANGED <<alive, polls, runs>>
       \/ alive' = {0} /\ polls' = MaxPolls /\ stage' = "poll" /\ runs' = MaxRuns
          /\ UNCHANGED <<req, plan, at, repo, outcome>>
    /\ UNCHANGED <<weights, hub, parent, kin, survivors, escaped, meas>>

Poll ==
    /\ stage = "poll"
    /\ IF 0 \in alive THEN stage' = "probe" /\ UNCHANGED outcome
                      ELSE stage' = "done" /\ outcome' = "exited"
    /\ UNCHANGED <<req, plan, at, repo, weights, hub, runs, polls, pvars, kin, survivors, meas>>

\* Mutant: the probe's own timeout is never taken from serve()'s budget.
HealthyUnbudgeted ==
    /\ stage = "probe"
    /\ \/ stage' = "serving" /\ outcome' = "ready" /\ UNCHANGED polls
       \/ stage' = "poll" /\ UNCHANGED <<polls, outcome>>
    /\ UNCHANGED <<req, plan, at, repo, weights, hub, runs, pvars, kin, survivors, meas>>

\* _healthy: a token, or a 4xx, from whatever answers on the port; anything
\* else is not ready yet.  The last probe may end after the deadline.
Healthy ==
    /\ stage = "probe"
    /\ \/ stage' = "serving" /\ outcome' = "ready" /\ UNCHANGED polls
       \/ /\ IF polls = 0 THEN stage' = "stop" ELSE stage' = "poll"
          /\ polls' = IF polls = 0 THEN 0 ELSE polls - 1
          /\ outcome' = IF polls = 0 THEN "timed out" ELSE outcome
    /\ UNCHANGED <<req, plan, at, repo, weights, hub, runs, pvars, kin, survivors, meas>>

\* A signal stops the engine; or it exits by itself and wait() returns.
ServeUntilSignalled ==
    /\ stage = "serving"
    /\ \/ stage' = "stop" /\ outcome' = "signalled"
       \/ 0 \notin alive /\ stage' = "done" /\ outcome' = "exited"
    /\ UNCHANGED <<req, plan, at, repo, weights, hub, runs, polls, pvars, kin, survivors, meas>>

\* The processes below p that still hang together with it.
Descendants(p) ==
    LET kids(S) == {q \in alive : q \in DOMAIN parent /\ parent[q] \in S}
    IN  {q \in alive : \A S \in SUBSET alive : (kids({p}) \cup kids(S)) \subseteq S => q \in S}

StillRunning == {p \in alive : p # 0}

\* A process that ends leaves its children to init.
Orphan(p) == parent' = [q \in DOMAIN parent |-> IF parent[q] = p THEN Unknown ELSE parent[q]]

\* Mutant: the engine is signalled, and is gone, before its kin are listed.
StopSignalsFirst ==
    /\ stage = "stop"
    /\ Orphan(0) /\ alive' = alive \ {0}
    /\ kin' = {} /\ stage' = "reap"
    /\ UNCHANGED <<req, plan, at, repo, weights, hub, runs, polls, survivors, outcome, escaped, meas>>

\* stop(): nothing to do for an engine that already exited; otherwise its
\* descendants are listed, which needs a working ps, before it is signalled.
StopList ==
    /\ stage = "stop"
    /\ \/ /\ 0 \notin alive
          /\ stage' = "stopped" /\ survivors' = {} /\ UNCHANGED kin
          /\ escaped' = escaped \cup StillRunning
       \/ /\ 0 \in alive
          /\ kin' = Descendants(0) /\ stage' = "term"
          /\ UNCHANGED <<survivors, escaped>>
       \/ /\ 0 \in alive
          /\ kin' = {} /\ stage' = "term" /\ escaped' = escaped \cup StillRunning
          /\ UNCHANGED survivors
    /\ UNCHANGED <<req, plan, at, repo, weights, hub, runs, polls, alive, parent, outcome, meas>>

\* terminate, wait, kill, wait: the engine itself is gone afterwards.
Terminate ==
    /\ stage = "term"
    /\ alive' = alive \ {0} /\ Orphan(0)
    /\ stage' = "reap"
    /\ UNCHANGED <<req, plan, at, repo, weights, hub, runs, polls, kin, survivors, outcome, escaped, meas>>

\* _reap: SIGTERM to what is left, and SIGKILL after the wait.  What is not
\* ours to signal, or cannot be killed, is what it returns.
Reap ==
    /\ stage = "reap"
    /\ \E stuck \in SUBSET (kin \cap alive) :
          /\ alive' = alive \ (kin \ stuck)
          /\ parent' = [q \in DOMAIN parent |->
                           IF parent[q] \in kin \ stuck THEN Unknown ELSE parent[q]]
          /\ survivors' = stuck
    /\ stage' = "stopped"
    /\ UNCHANGED <<req, plan, at, repo, weights, hub, runs, polls, kin, outcome, escaped, meas>>

\* The engine and its workers: one forks, one ends.
Fork ==
    /\ stage \in {"poll", "probe", "serving", "stop", "term", "reap"}
    /\ \E p \in alive, q \in Pids \ ({0} \cup DOMAIN parent) :
          /\ \A n \in Pids \ ({0} \cup DOMAIN parent) : q <= n
          /\ alive' = alive \cup {q}
          /\ parent' = [x \in {q} \cup DOMAIN parent |-> IF x = q THEN p ELSE parent[x]]
          /\ escaped' = IF stage \in {"term", "reap"} \/ p \in escaped
                        THEN escaped \cup {q} ELSE escaped
    /\ UNCHANGED <<stage, req, plan, at, repo, weights, hub, runs, polls, kin, survivors, outcome, meas>>

Exit ==
    /\ stage \in {"poll", "probe", "serving", "stop", "term", "reap"}
    /\ \E p \in alive :
          /\ alive' = alive \ {p}
          /\ Orphan(p)
          /\ escaped' = IF p = 0 \/ stage \in {"term", "reap"} THEN escaped
                        ELSE escaped \cup Descendants(p)
    /\ UNCHANGED <<stage, req, plan, at, repo, weights, hub, runs, polls, kin, survivors, outcome, meas>>

\* Repos are published and deleted.
HubChanges ==
    /\ stage \in {"idle", "resolve"}
    /\ hub' \in Hub \ {hub}
    /\ UNCHANGED <<stage, req, plan, at, repo, weights, runs, polls, pvars, kin, survivors, outcome, meas>>

\* measure(): the warm-up is discarded, then the load is read.
MeasureBegin(load) ==
    /\ stage = "serving" /\ meas = NoMeasurement
    /\ \E w \in Warmups : meas' = [st |-> "sampling", before |-> load, rates |-> <<>>,
                                   slowing |-> Decline(SelectSeq(w, LAMBDA x : x > 0))]
    /\ UNCHANGED <<stage, req, plan, at, repo, weights, hub, runs, polls, pvars, kin, survivors, outcome>>

\* _decode_once raises when no token, or a single frame, came back.
DecodeOnce ==
    /\ meas.st = "sampling" /\ Len(meas.rates) < Samples
    /\ \/ meas' = [st |-> "raised"]
       \/ 0 \in alive /\ \E x \in Rates : meas' = [meas EXCEPT !.rates = Append(@, x)]
    /\ UNCHANGED <<stage, req, plan, at, repo, weights, hub, runs, polls, pvars, kin, survivors, outcome>>

MeasureEnd(load) ==
    /\ meas.st = "sampling" /\ Len(meas.rates) = Samples
    /\ meas' = [st |-> "done",
                usable |-> Usable(Measured(meas.slowing, meas.before, meas.rates, load))]
    /\ UNCHANGED <<stage, req, plan, at, repo, weights, hub, runs, polls, pvars, kin, survivors, outcome>>

Loads == {Unknown, 30, 95}

Launcher == PlanLaunch \/ ResolveWeights \/ CheckFlags \/ Spawn \/ Poll \/ Healthy
            \/ StopList \/ Terminate \/ Reap

Measurer == DecodeOnce \/ \E load \in Loads : MeasureBegin(load) \/ MeasureEnd(load)

LaunchNext == Launcher \/ ServeUntilSignalled \/ Fork \/ Exit \/ HubChanges \/ Measurer

LaunchSpec == LaunchInit /\ [][LaunchNext]_launchVars

\* The launcher's own steps end by themselves: each has a timeout.
LaunchFairSpec == LaunchSpec /\ WF_launchVars(Launcher)

-----------------------------------------------------------------------------
(* Properties                                                              *)

\* What one sequence may use of the context the command asks for, as the
\* engine divides it (external): llama.cpp cuts one window into slots, the
\* others give every sequence the whole of what they are told.
PerSequence(p) ==
    IF p.engine = "llama.cpp"
    THEN SpelledContext(p.engine, p.knobs) \div p.knobs.max_concurrent
    ELSE SpelledContext(p.engine, p.knobs)

\* What llama.cpp or Ollama allocates the moment it starts: every slot at full
\* length.
Allocated(p) ==
    WeightBytes(p.fit.model, p.quant) + Overhead(WeightBytes(p.fit.model, p.quant))
    + KvBytesPerToken(p.fit.model) * PerSequence(p)
      * (IF p.engine \in {"llama.cpp", "ollama"} THEN p.knobs.max_concurrent ELSE 1)

\* What is started fits: every request reaches the spawn only with a command
\* whose own allocation fits the machine, whose sequences get the context that
\* was asked for, whose engine, when it was forced, runs on it and is otherwise
\* the one `onpar fit` recommends (plan()'s second sizing against
\* LlamaCppAdapter.command's multiplication).
LaunchedAllocationFits ==
    stage \in {"spawn", "poll", "probe", "serving"} =>
        /\ Allocated(plan) <= req.hw.usable
        /\ PerSequence(plan) >= req.context
        /\ IF req.engine = "" THEN plan.engine = RecommendRuntime(req.hw, req.context, req.concurrency)
                              ELSE req.hw.kind \in ENGINE_HARDWARE[plan.engine]

\* The doors into the solver agree about one machine: max_context and
\* max_concurrency are the largest values solve() accepts, a model that is
\* rejected misses by something, a fuller batch never costs more per token, and
\* the optimism of a batched MoE is at most what its experts allow.
Agree(m, hw, f) ==
    /\ f.context <= MaxContext(m, f.quant, hw, f.concurrency)
          <=> Feasible(f) /\ ~BeyondPublishedContext(f)
    /\ f.concurrency <= MaxConcurrency(m, f.quant, hw, f.context) <=> Feasible(f)
    /\ \A x \in Rejected(<<m>>, hw, f.context, f.concurrency) : x[2].by > 0 /\ ~Feasible(f)
    /\ AggregateTokens(f) > 0 =>
          LET fuller == CostPerMtok(100, [f EXCEPT !.concurrency = @ + 1])
          IN  0 <= fuller /\ fuller <= CostPerMtok(100, f)
    /\ MoeBatchOptimism(f) \in {Unknown} \cup 100..(100 * m.params) \div m.active
DoorsAgree ==
    \A r \in Requests, context \in 1..10, concurrency \in 1..40 :
        \A q \in Range(r.model.quants) :
            Agree(r.model, r.hw, Solve(r.model, q, r.hw, context, concurrency))

\* What is launched fits, and what is said to fit does.
SizingSound == LaunchedAllocationFits /\ DoorsAgree

\* No survivors reported means nothing of the engine is left running, except
\* what stop() could not have seen: forked after the listing, cut off from the
\* engine before it, or a listing that was never made (Endpoint.stop, _reap).
SilenceMeansStopped ==
    stage = "stopped" => StillRunning \subseteq survivors \cup escaped

\* A launch never hangs: whatever is asked and whatever the engine does, the
\* caller is told something or the engine is serving (serve()'s deadline).
LaunchSettles == (stage \in {"resolve", "poll", "probe", "stop"}) ~> (stage \in {"idle", "serving", "stopped", "done"})
=============================================================================
