------------------------------- MODULE Intent -------------------------------
(***************************************************************************)
(* Reading a plain-language description into requirements (intent.py).     *)
(*                                                                         *)
(* A text is the sequence of phrases its regular expressions find, in the  *)
(* order they stand; what surrounds them is left out.  A phrase says one   *)
(* thing about a number n (and, for a rate, the seconds it is per).  Most  *)
(* of the expressions are searched once, so the first phrase of a kind is  *)
(* the one that is read; the context is the exception.                     *)
(***************************************************************************)
EXTENDS Planner

SANE_MAX == 1000000000
Phrase(says, n) == [says |-> says, n |-> n, per |-> 1]

\* {} stands for None.
First(text, kind) ==
    LET at == {i \in DOMAIN text : text[i].says = kind}
    IN  IF at = {} THEN {} ELSE {text[Min(at)]}

\* _find: the first of the needles, in the order of the table, that is there.
Find(text, needles) ==
    HeadOf(SelectSeq(needles, LAMBDA n : First(text, n) # {}))

\* _whole, of a number given as a fraction: rounded up, at least 1, and no
\* answer at all when it is absurd.  _digits refuses the same numbers earlier.
Whole(n, per) ==
    IF n \div per > SANE_MAX THEN {} ELSE {Max({1, (n + per - 1) \div per})}

ExplicitConcurrency(text) == UNION {Whole(p.n, 1) : p \in First(text, "concurrent")}

\* About a fifth of a headcount is in flight.
People(text) == UNION {Whole(p.n, 5) : p \in First(text, "people")}

RatePerSecond(text) == First(text, "rate")
ServiceTime(text) == UNION {Whole(p.n, 1) : p \in First(text, "takes")}

\* Arrivals times the time spent in the system, which is in milliseconds.
Little(text) ==
    UNION {Whole(r.n * ms, 1000 * r.per) :
              r \in RatePerSecond(text), ms \in ServiceTime(text)}

Latency(text) == UNION {Whole(p.n, 1) : p \in First(text, "under")}

-----------------------------------------------------------------------------
(* The context, in blocks of 512 tokens                                    *)

\* The next power of two from 1024 tokens up to 16 Mi.
Window(tokens) ==
    Min({w \in {2 ^ k : k \in 10..24} : w >= tokens \/ w = 2 ^ 24}) \div 512

\* A count of tokens that is too small, too large, or of the output is none.
ContextOf(phrase) ==
    CASE phrase.says = "k tokens"  -> {b \in Whole(phrase.n * 2, 1) : phrase.n > 0}
      [] phrase.says = "worded"    -> {phrase.n \div 512}
      [] phrase.says = "tokens" /\ phrase.n \in 100..9999999 -> {Window(phrase.n)}
      [] OTHER                     -> {}

\* The last one stated wins; a mention of long documents counts if none is.
Context(text) ==
    LET stated == {i \in DOMAIN text : ContextOf(text[i]) # {}}
    IN  IF stated # {} THEN ContextOf(text[Max(stated)])
        ELSE {256 : p \in First(text, "long documents")}

-----------------------------------------------------------------------------
(* read()                                                                  *)

\* Ordered most specific first: a backlog outranks a careless adjective.
_WORKLOAD_SIGNALS == <<"batch", "realtime", "interactive">>

\* In percent, in the order of the table.
_PREFIX_SIGNALS == <<"same system prompt", "agents", "rag">>
PrefixSharing == [p \in Range(_PREFIX_SIGNALS) |->
                     CASE p = "rag" -> 60 [] p = "agents" -> 70 [] OTHER -> 85]

\* A bulk verb over a volume: n = 1 when an audience or a mode governs it.
Bulk(text) == \E i \in DOMAIN text : text[i].says = "bulk" /\ text[i].n = 0

Mode(text) == IF Bulk(text) THEN {"batch"} ELSE Find(text, _WORKLOAD_SIGNALS)

\* Inference: `guess` when the value was computed and not said.
Said(v) == [value |-> v, guess |-> FALSE]
Guessed(v) == [value |-> v, guess |-> TRUE]

\* The number in flight: stated, then derived from a rate, then from people.
InFlight(text) ==
    IF ExplicitConcurrency(text) # {} THEN {Said(n) : n \in ExplicitConcurrency(text)}
    ELSE IF Little(text) # {} THEN {Guessed(n) : n \in Little(text)}
    ELSE {Guessed(n) : n \in People(text)}

\* What was read, by field: no field that nothing was said about.
Heard(read) == [f \in {g \in DOMAIN read : read[g] # {}} |-> The(read[f])]
Inferred(text) ==
    Heard([workload    |-> {Said(m) : m \in Mode(text)},
           concurrency |-> InFlight(text),
           itl         |-> {Guessed(Max({10, ms \div 20})) :
                               ms \in IF "realtime" \in Mode(text) THEN Latency(text)
                                                                        ELSE {}},
           ttft        |-> {Said(ms) : ms \in Latency(text)},
           context     |-> {Said(b) : b \in Context(text)},
           prefix      |-> {Said(PrefixSharing[p]) : p \in Find(text, _PREFIX_SIGNALS)},
           structured  |-> {Said(TRUE) : p \in First(text, "structured")}])

\* What is assumed where nothing was said.
Defaults(workload) ==
    [workload |-> "interactive", concurrency |-> IF workload = "batch" THEN 64 ELSE 4,
     context |-> 64, itl |-> Unknown, ttft |-> Unknown, prefix |-> 0,
     structured |-> FALSE, adapters |-> 0]

ReadOf(found) ==
    LET mode  == IF "workload" \in DOMAIN found THEN found.workload.value ELSE "interactive"
        base  == Defaults(mode)
        asks  == {"workload", "concurrency", "context"}
                     \cup (IF mode = "batch" THEN {} ELSE {"ttft"})
    IN  [requirements |-> [f \in DOMAIN base |->
                              IF f \in DOMAIN found THEN found[f].value ELSE base[f]],
         inferred |-> found, questions |-> asks \ DOMAIN found]
Read(text) == ReadOf(Inferred(text))
=============================================================================
