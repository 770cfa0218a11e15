---- MODULE MCOperator ----
(* A small cluster: two workloads, one of whose specs may be malformed, a   *)
(* GPU node that several labels make sizable or not, a TPU slice and a CPU. *)
EXTENDS Operator

Absent == [st |-> "absent", milli |-> 0]
Whole(n) == [st |-> "num", milli |-> 1000 * n]
Figure(n) == [st |-> "num", milli |-> n]

Node == [rank |-> 1, gpu |-> Absent, tpu |-> Absent, memory |-> Absent, gen |-> "",
         topology |-> <<>>, host |-> Whole(640), labels |-> {}, card |-> 0, cards |-> 0]

Gpu4 == [Node EXCEPT !.gpu = Whole(4), !.memory = Figure(240), !.card = 240, !.cards = 4]
GpuBug == [Node EXCEPT !.gpu = Whole(2), !.memory = Figure(240000), !.rank = 2,
                       !.labels = {"pool-a"}, !.card = 240, !.cards = 2]
GpuHalf == [Node EXCEPT !.gpu = [st |-> "num", milli |-> 1500], !.memory = Figure(200),
                        !.card = 200, !.cards = 1]
GpuUnlabelled == [Node EXCEPT !.gpu = Whole(8), !.card = 800, !.cards = 8]
TpuSlice == [Node EXCEPT !.tpu = Whole(1), !.gen = "v5e", !.topology = <<2, 2>>, !.rank = 3,
                         !.card = 160, !.cards = 4]
TpuNew == [Node EXCEPT !.tpu = Whole(4), !.gen = "v9", !.card = 500, !.cards = 4]

MCClusters == {{Gpu4, Node}, {GpuBug, TpuSlice, GpuHalf}, {GpuUnlabelled, TpuNew, Node}}

Small == [id |-> "small", repo |-> "org/small", params |-> 8, active |-> 8, layers |-> 1,
          kv_scheme |-> "gqa", kv_heads |-> 1, kv_lora_rank |-> 0, max_context |-> 8,
          mtp_native |-> FALSE, quants |-> <<"q8", "q4">>]
Large == [Small EXCEPT !.id = "large", !.repo = "org/large", !.params = 60, !.active = 6,
                       !.kv_scheme = "mla", !.kv_lora_rank = 1, !.mtp_native = TRUE]

MCCatalogue == {Small, Large}

Base == [model |-> "org/small", workload |-> "interactive", concurrency |-> Unknown,
         context |-> 4, itl |-> Unknown, prefix |-> 0, selector |-> {}, broken |-> FALSE]
Big == [Base EXCEPT !.model = "org/large", !.prefix = 80]
Malformed == [Base EXCEPT !.broken = TRUE]

Uncatalogued == [Base EXCEPT !.model = "org/other"]

MCSpecs == {Base, Big, Malformed, Uncatalogued}

A == <<"a", ".", "1">>
B == <<"1", "b">>

MCNames == {A, B}

\* One workload to be walked down from the top beside a malformed one, and
\* two quiet ones.
MCStart == {[spec |-> A :> Big @@ B :> Malformed, phase |-> A :> "cut" @@ B :> "canary",
             regressed |-> {A}],
            [spec |-> A :> Base @@ B :> Base, phase |-> A :> "shadow" @@ B :> "canary",
             regressed |-> {}]}
====
