----------------------------- MODULE MCMachine ------------------------------
(* What `onpar` does on one machine: a launch, of a small or a large model   *)
(* on Apple, NVIDIA, AMD and TPU machines; or two commands over the cached   *)
(* weights, three repos of different sizes and two roots.                    *)
EXTENDS Launch, HubCache

Small == [id |-> "small", org |-> "org", prefixed |-> FALSE, instruct |-> TRUE,
          params |-> 8, active |-> 8, layers |-> 1, kv_scheme |-> "gqa", kv_heads |-> 1,
          kv_lora_rank |-> 0, max_context |-> 8, mtp_native |-> FALSE,
          quants |-> <<"fp16", "q4">>]
Large == [Small EXCEPT !.id = "large", !.org = "", !.params = 60, !.active = 6,
                       !.kv_scheme = "mla", !.kv_lora_rank = 1, !.mtp_native = TRUE,
                       !.quants = <<"q8", "q5">>]

Card(n, b) == [name |-> n, bytes |-> b]
Box == [apple |-> 0, wired |-> 0, bw |-> Unknown, nvidia |-> <<>>, amd |-> <<>>, ram |-> 640]

Mac == Detect([Box EXCEPT !.apple = 640, !.wired = 600,
                          !.bw = AppleBandwidth(<<>>, 546, 64)])
Laptop == Detect([Box EXCEPT !.apple = 320, !.bw = AppleBandwidth(48 :> 273 @@ 64 :> 546, 546, 32)])
Nvidia == Detect([Box EXCEPT !.nvidia = <<Card("a", 240), Card("b", 480)>>])
Amd == Detect([Box EXCEPT !.amd = <<Card("a", 640)>>])
Cpu == Detect([Box EXCEPT !.amd = <<Card("a", Unknown)>>])
TpuSlice == ProfileHardware([kind |-> "tpu", bytes |-> 160, devices |-> 4, bw |-> 859,
                             usable_frac |-> 92])

Ask == [hw |-> Mac, model |-> Small, quant |-> "", context |-> 4, concurrency |-> 4,
        engine |-> "", tag |-> <<>>]

MCRequests ==
    {Ask,                                                          \* MLX
     [Ask EXCEPT !.concurrency = 1],                               \* llama.cpp, 32 slots
     [Ask EXCEPT !.hw = Laptop, !.concurrency = 1],                \* the slots do not fit
     [Ask EXCEPT !.hw = Laptop, !.concurrency = 1, !.context = 1], \* a smaller window does
     [Ask EXCEPT !.engine = "ollama", !.context = 1, !.quant = "q4"],
     [Ask EXCEPT !.engine = "ollama", !.context = 1, !.tag = <<"small:q4">>],
     [Ask EXCEPT !.engine = "vllm"],                               \* wrong hardware
     [Ask EXCEPT !.quant = "q3"],                                  \* not published
     [Ask EXCEPT !.hw = Nvidia, !.model = Large, !.context = 1],   \* no repo known
     [Ask EXCEPT !.hw = Nvidia, !.model = Large, !.quant = "q8"],  \* does not fit
     [Ask EXCEPT !.hw = Cpu, !.engine = "llama.cpp", !.quant = "q4", !.context = 1],
     [Ask EXCEPT !.hw = TpuSlice]}

GgufName == <<"TheBloke", [prefix |-> TRUE, instruct |-> FALSE], "GGUF">>
MlxName == <<"mlx-community", [prefix |-> TRUE, instruct |-> TRUE], "bf16">>

MCHub == {{Base(Small), GgufName}, {MlxName}}

MCWarmups == {<<9, 8, 7, 6, 5, 4>>}
MCRates == {0, 9}

CONSTANTS p1, p2, m1, m2, m3, home, scratch
MCSize == m1 :> 1 @@ m2 :> 2 @@ m3 :> 4
MCBudgets == {NoBudget, 0, 3}

\* They share no state, so a behaviour is one or the other: a launch with an
\* unreadable cache.json, commands with an index that holds nothing more.
Launching == ops = 0 /\ state.shape = "corrupt" /\ disk = <<m1, m2, m3>>
Caching == stage = "idle" /\ runs = 0 /\ hub = {MlxName}

mcvars == <<launchVars, hubVars>>
MCInit == LaunchInit /\ HubInit
LaunchStep == Launching /\ Launcher /\ UNCHANGED hubVars
MCNext ==
    \/ Launching /\ LaunchNext /\ UNCHANGED hubVars
    \/ Caching /\ HubNext /\ UNCHANGED launchVars
MCSpec == MCInit /\ [][MCNext]_mcvars /\ WF_mcvars(LaunchStep)
=============================================================================
