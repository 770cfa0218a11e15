------------------------------- MODULE Session ------------------------------
(***************************************************************************)
(* The session (session.py): a conversation fed with sentences, a machine  *)
(* and direct answers, in any order, that asks at most one question a turn *)
(* and has an answer at every point; saved as JSON and resumed.            *)
(*                                                                         *)
(* onpar_build of the MCP server and `onpar build` both make one turn() of *)
(* a session they resume; tell(), on() and set() are turns with one input. *)
(***************************************************************************)
EXTENDS Intent, Functions

CONSTANTS
    Catalogue,       \* the models, in catalogue order
    Profiles,        \* hardware profiles by name
    Local,           \* what detect() finds
    Texts,           \* what may be said
    Answers,         \* direct answers: functions from fields to values given
    MaxTurns,        \* bound: turns taken
    MaxPhrases       \* bound: phrases said

\* What is said is a text: phrases, one after another.  catalog.load() keeps
\* one model under an id.
Phrases == UNION {Range(t) : t \in Texts}
ASSUME SessionAssumption ==
    /\ Texts \subseteq Seq(Phrases)
    /\ Catalogue \in Seq(Range(Catalogue))
    /\ \A m \in Range(Catalogue) : m.params \in Nat \ {0}
    /\ \A i, j \in DOMAIN Catalogue : Catalogue[i].id = Catalogue[j].id => i = j

VARIABLES
    session,     \* the live object
    shown,       \* the last Turn, or what was raised in its place
    saved,       \* the file `--save` wrote, or the state an agent holds
    given,       \* by field, the last value given outright (history)
    put,         \* the questions put so far (history)
    turns

svars == <<session, shown, saved, given, put, turns>>

NoHw == [kind |-> "none"]
Nothing == [nothing |-> TRUE]

New == [text |-> <<>>, stage |-> "understand",
        requirements |-> [Defaults("interactive") EXCEPT !.concurrency = 1],
        stated |-> {}, explicit |-> {}, asked |-> {}, answered |-> {},
        evidence |-> <<>>, hw |-> NoHw, hw_source |-> "", model_id |-> ""]

-----------------------------------------------------------------------------
(* The three inputs.  Each is refused whole or applied whole.              *)

\* Mutant: fields read out of prose are not kept from a fresher reading,
\* and neither is what was given outright.
AbsorbAll(s, text, read) ==
    [s EXCEPT !.text = text, !.requirements = read.requirements, !.evidence = read.inferred]

\* The whole text is read again; what was given outright is kept.
Absorb(s, text, read) ==
    [s EXCEPT
        !.text = text,
        !.requirements = [f \in DOMAIN @ |->
            IF f \in s.explicit THEN @[f] ELSE read.requirements[f]],
        !.evidence = read.inferred,
        !.answered = @ \cup {f \in DOMAIN read.inferred : ~read.inferred[f].guess},
        !.stage = IF @ = "understand" THEN "hardware" ELSE @]
ApplyText(s, t) == Absorb(s, s.text \o t, Read(s.text \o t))

\* A value is what Python was handed: its type and what it converts to.
_STRICT_TYPES == {"structured"}
_REQUIREMENT_TYPES ==
    [workload |-> "Workload", concurrency |-> "int", context |-> "int",
     ttft |-> "int", itl |-> "int", prefix |-> "float"]

\* A strict field takes its own type only; the others are converted if that
\* can be done.
Accepted(field, given_) ==
    CASE field \in _STRICT_TYPES -> given_.type = "bool"
      [] field \in DOMAIN _REQUIREMENT_TYPES ->
            given_.type \in {_REQUIREMENT_TYPES[field], "None"} \/ given_.converts
      [] OTHER -> TRUE

Refused(s, fields) ==
    \/ DOMAIN fields \ DOMAIN s.requirements # {}
    \/ \E f \in DOMAIN fields : ~Accepted(f, fields[f])

ApplyFields(s, fields) ==
    [s EXCEPT
        !.requirements = [f \in DOMAIN @ |->
            IF f \in DOMAIN fields THEN fields[f].value ELSE @[f]],
        !.stated = @ \cup DOMAIN fields,
        !.explicit = @ \cup DOMAIN fields]

\* machine = "" detects the local one.
ApplyHardware(s, machine) ==
    [s EXCEPT
        !.hw = IF machine = "" THEN Detect(Local) ELSE ProfileHardware(Profiles[machine]),
        !.hw_source = IF machine = "" THEN "detected locally" ELSE machine,
        !.stage = IF @ = "hardware" THEN "choose" ELSE @]

-----------------------------------------------------------------------------
(* What the session works out                                              *)

Raises(req) == SolveRaises(req.context, req.concurrency)

Feasibles(hw, req) == Ranked(Catalogue, hw, req.context, req.concurrency)
Candidates(s) == IF s.hw = NoHw THEN {} ELSE Feasibles(s.hw, s.requirements)

FitOf(m, hw, req) == The(BestQuant(m, hw, req.context, req.concurrency))
Slow(f) == f.bw # Unknown /\ f.bw < 15 * f.read

\* The biggest model that is not slow, or the biggest.
NoModel == [id |-> ""]
Foremost(places) == The({i \in places : \A j \in places \ {i} : RankedAhead(Catalogue, i, j)})
DefaultPick(cands, hw, req) ==
    LET quick == {i \in cands : ~Slow(FitOf(Catalogue[i], hw, req))}
    IN  IF cands = {} THEN NoModel
        ELSE Catalogue[Foremost(IF quick = {} THEN cands ELSE quick)]

ModelOf(id) == The({m \in Range(Catalogue) : m.id = id})

\* A plan without a model: the knobs that need none.
BareKnobs(hw, req) ==
    [context_length |-> req.context, max_concurrent |-> MaxNumSeqs(req),
     prefill_chunk |-> ChunkedPrefill(req), prefix_reuse |-> req.prefix >= 15,
     speculative |-> Speculative(req, [mtp_native |-> FALSE]),
     tensor_parallel |-> IF hw.devices <= 1 THEN 0 ELSE hw.devices,
     structured_output |-> req.structured,
     lora_fleet |-> IF req.adapters = 0 THEN 0 ELSE LoraPerBatch(req)]

\* _plan: for the model chosen, however long ago, or without one.
PlanOf(s) ==
    IF s.model_id = ""
    THEN [for |-> "", knobs |-> BareKnobs(s.hw, s.requirements)]
    ELSE LET m   == ModelOf(s.model_id)
             fit == BestQuant(m, s.hw, s.requirements.context, s.requirements.concurrency)
         IN  [for |-> m.id] @@
             Plan(s.hw, s.requirements, m,
                  IF fit = {} THEN m.quants[1] ELSE The(fit).quant, "")

\* What a deployment is, to tell two apart.
Names3(cands) ==
    LET ahead(i) == Cardinality({j \in cands : RankedAhead(Catalogue, j, i)})
    IN  {<<ahead(i), Catalogue[i].id>> : i \in {k \in cands : ahead(k) < 3}}
Signature(hw, req) ==
    <<PickEngine(hw, req), BareKnobs(hw, req), Names3(Feasibles(hw, req))>>

OutcomeDiffers(s, field, value) ==
    Signature(s.hw, s.requirements)
        # Signature(s.hw, [s.requirements EXCEPT ![field] = value])

Probes == <<"concurrency", "context", "prefix">>
Alternative == [concurrency |-> 1, context |-> 16, prefix |-> 80]

\* The first question whose answer is open and would change the outcome.
Open(s) ==
    {i \in DOMAIN Probes :
        /\ Probes[i] \notin s.stated \cup s.asked \cup s.answered
        /\ OutcomeDiffers(s, Probes[i], Alternative[Probes[i]])}
WorthAsking(s) ==
    LET open == Open(s) IN IF open = {} THEN "" ELSE Probes[Min(open)]

\* Half the concurrency, and half the context: what a neighbour would buy.
Buys(s, override, now, best) ==
    IF override = s.requirements \/ best = NoModel THEN ""
    ELSE IF now = NoModel THEN "fits"
    ELSE IF best.id # now.id THEN best.id
    ELSE IF Slow(FitOf(now, s.hw, s.requirements)) /\ ~Slow(FitOf(best, s.hw, override))
    THEN "quick"
    ELSE ""
BetterAt(s, override) ==
    Buys(s, override, DefaultPick(Candidates(s), s.hw, s.requirements),
                      DefaultPick(Feasibles(s.hw, override), s.hw, override))

Optimizations(s) ==
    [concurrency |-> BetterAt(s, [s.requirements EXCEPT !.concurrency = Max({1, @ \div 2})]),
     context     |-> BetterAt(s, [s.requirements EXCEPT !.context = Max({2, @ \div 2})])]

-----------------------------------------------------------------------------
(* The answer                                                              *)

\* Halved until it fits, or is as small as it gets.
Halved(x, least, fits(_)) ==
    Max({h \in {x \div (2 ^ k) : k \in 0..12} : h >= 1 /\ (fits(h) \/ h <= least)})

WhatWouldFit(s) ==
    LET req == s.requirements
        fitsContext(c) == Feasibles(s.hw, [req EXCEPT !.context = c]) # {}
        fitsConcurrency(n) == Feasibles(s.hw, [req EXCEPT !.concurrency = n]) # {}
        bigger == {p \in Range(Profiles) :
                      /\ ProfileHardware(p).usable * 4 > s.hw.usable * 5
                      /\ Feasibles(ProfileHardware(p), req) # {}}
    IN  [context     |-> {c \in {Halved(req.context, 4, fitsContext)} :
                             fitsContext(c) /\ c < req.context},
         concurrency |-> {n \in {Halved(req.concurrency, 1, fitsConcurrency)} :
                             fitsConcurrency(n) /\ n < req.concurrency},
         machine     |-> {p.id : p \in {q \in bigger : \A r \in bigger :
                                            q.bytes * q.devices <= r.bytes * r.devices}}]

\* answer(): the model named, and the plan its command is written from.
Named(s, cands) ==
    IF s.model_id \in {Catalogue[i].id : i \in cands} THEN ModelOf(s.model_id)
    ELSE DefaultPick(cands, s.hw, s.requirements)
\* Mutant: the precision named is the first the model is published in.
NamingFirst(s, model) ==
    IF model = NoModel THEN [instead |-> WhatWouldFit(s)]
    ELSE [model |-> model.id, quant |-> model.quants[1], plan |-> PlanOf(s)]

Naming(s, model) ==
    IF model = NoModel THEN [instead |-> WhatWouldFit(s)]
    ELSE [model |-> model.id, quant |-> FitOf(model, s.hw, s.requirements).quant,
          plan |-> PlanOf(s)]
Answer(s) == IF s.hw = NoHw THEN Nothing ELSE Naming(s, Named(s, Candidates(s)))

-----------------------------------------------------------------------------
(* One turn                                                                *)

Turn(s, stage, question, said) ==
    [stage |-> stage, question |-> question, said |-> said, done |-> stage = "prove",
     evidence |-> s.evidence, assuming |-> IF s.hw = NoHw THEN {} ELSE {"concurrency", "context"} \ s.stated]

\* _after_configure: one stage a turn, the last one for good.
AfterConfigure(s) ==
    CASE s.stage = "optimize" ->
            <<[s EXCEPT !.stage = "deploy"], Turn(s, "optimize", "", Optimizations(s))>>
      [] s.stage = "deploy"   ->
            <<[s EXCEPT !.stage = "prove"], Turn(s, "deploy", "", Answer(s))>>
      [] OTHER                ->
            <<[s EXCEPT !.stage = "prove"], Turn(s, "prove", "", s.model_id)>>

\* Mutant: the question is put and not remembered.
CommitNothing(s, question) == s

CommitQuestion(s, question) ==
    IF question = "" THEN s ELSE [s EXCEPT !.asked = @ \cup {question}]

\* step(), with candidates: a model is chosen once.
Chosen(s) ==
    [s EXCEPT
        !.model_id = IF @ = "" THEN DefaultPick(Candidates(s), s.hw, s.requirements).id ELSE @,
        !.stage = IF @ \in {"choose", "hardware"} THEN "configure" ELSE @]
Asking(s, question) ==
    IF question # "" \/ s.stage = "configure"
    THEN <<[CommitQuestion(s, question) EXCEPT !.stage = IF question = "" THEN "optimize" ELSE @],
           Turn(s, "configure", question, Named(s, Candidates(s)).id)>>
    ELSE AfterConfigure(s)
Configured(s) == Asking(s, WorthAsking(s))

Step(s) ==
    IF s.hw = NoHw THEN <<s, Turn(s, "hardware", "machine", "")>>
    ELSE IF Raises(s.requirements) THEN <<s, [raised |-> TRUE]>>
    ELSE IF Candidates(s) = {} THEN <<s, Turn(s, "choose", "", Optimizations(s))>>
    ELSE Configured(Chosen(s))

-----------------------------------------------------------------------------
(* Saved and resumed                                                       *)

\* The evidence is not written.
ToJson(s) == [f \in DOMAIN s \ {"evidence"} |-> s[f]]

\* It is read out of the text again; an older file may lack the newer fields.
FromJson(d) ==
    [New EXCEPT
        !.text = d.text, !.stage = d.stage, !.requirements = d.requirements,
        !.stated = d.stated, !.asked = d.asked, !.model_id = d.model_id,
        !.explicit = IF "explicit" \in DOMAIN d THEN d.explicit ELSE d.stated,
        !.answered = IF "answered" \in DOMAIN d THEN d.answered ELSE {},
        !.hw = d.hw, !.hw_source = d.hw_source,
        !.evidence = IF d.text = <<>> THEN <<>> ELSE Inferred(d.text)]

-----------------------------------------------------------------------------
(* The conversation                                                        *)

SessionInit ==
    /\ session = New /\ shown = Nothing /\ saved = Nothing
    /\ given = <<>> /\ put = {} /\ turns = 0

\* A turn: what was said, then the machine, then the answers, then one step.
\* What is refused leaves what came before it applied and takes no step.
Told(text) == IF text = <<>> THEN session ELSE ApplyText(session, text)
Placed(s, machine) == IF machine = "none" THEN s ELSE ApplyHardware(s, machine)
Raised(s) == session' = s /\ shown' = [raised |-> TRUE] /\ UNCHANGED <<given, put>>
Shows(next, fields) ==
    /\ session' = next[1] /\ shown' = next[2]
    /\ given' = [f \in DOMAIN fields \cup DOMAIN given |->
                    IF f \in DOMAIN fields THEN fields[f].value ELSE given[f]]
    /\ put' = put \cup (IF "question" \in DOMAIN next[2] THEN {next[2].question} \ {""} ELSE {})

TakeTurn(text, machine, fields) ==
    /\ turns < MaxTurns
    /\ Len(session.text) + Len(text) <= MaxPhrases
    /\ turns' = turns + 1
    /\ \E heard \in {Told(text)} :
         IF machine \notin DOMAIN Profiles \cup {"", "none"} THEN Raised(heard)
         ELSE \E s \in {Placed(heard, machine)} :
                 IF Refused(s, fields) THEN Raised(s)
                 ELSE Shows(Step(IF fields = <<>> THEN s ELSE ApplyFields(s, fields)), fields)
    /\ UNCHANGED saved

\* tell, on and set take one input; `onpar build` and onpar_build take all three
\* and detect the machine when there is none yet.
Tell  == \E t \in Texts : TakeTurn(t, "none", <<>>)
On    == \E m \in DOMAIN Profiles \cup {"", "no such profile"} : TakeTurn(<<>>, m, <<>>)
Set   == \E f \in Answers : TakeTurn(<<>>, "none", f)
Build == \E t \in Texts \cup {<<>>}, f \in Answers \cup {<<>>},
            m \in {"none"} \cup DOMAIN Profiles \cup {"no such profile"} :
            TakeTurn(t, IF m = "none" /\ session.hw = NoHw THEN "" ELSE m, f)
Converse == Tell \/ On \/ Set \/ Build

Save == /\ saved' = [doc |-> ToJson(session), given |-> given, put |-> put]
        /\ UNCHANGED <<session, shown, given, put, turns>>

\* The process went, saved or not; another resumes the file.
Resume == /\ saved # Nothing
          /\ session' = FromJson(saved.doc) /\ shown' = Nothing
          /\ given' = saved.given /\ put' = saved.put
          /\ UNCHANGED <<saved, turns>>

SessionNext == Converse \/ Save \/ Resume
SessionSpec == SessionInit /\ [][SessionNext]_svars

-----------------------------------------------------------------------------
(* What a conversation promises                                            *)

\* A value given outright stands until it is given again: no later sentence,
\* machine, refusal or resumption talks the session out of it (_apply_text's
\* `kept`, the explicit fields of to_json and from_json).
ExplicitOutranksProse ==
    \A f \in DOMAIN given : session.requirements[f] = given[f]

\* A resumed session is the session that was saved, its evidence included.
ResumeLosesNothing == FromJson(ToJson(session)) = session

\* At any point there is an answer, and it would run: the model and precision it
\* names fit the machine at hand, also when the session had chosen a model on
\* another machine; each smaller request it offers instead takes some model, and
\* the larger machine it offers is one that `onpar where` lists before all that
\* cannot serve a model (answer, _what_would_fit).
Serves(hw, context, concurrency) ==
    \E m \in Range(Catalogue) : BestQuant(m, hw, context, concurrency) # {}
Capable(places, p) ==
    \E x \in places : x.profile = p /\ \A y \in places : y.fit = {} => Preferred(x, y)
Listed(p, m, req) ==
    Capable(Placements(m, Range(Profiles), req.context, req.concurrency), p)
Runs(a, hw, req) ==
    IF "instead" \in DOMAIN a
    THEN /\ \A c \in a.instead.context : Serves(hw, c, req.concurrency)
         /\ \A n \in a.instead.concurrency : Serves(hw, req.context, n)
         /\ \A p \in a.instead.machine : \E m \in Range(Catalogue) : Listed(p, m, req)
    ELSE Feasible(Solve(ModelOf(a.model), a.quant, hw, req.context, req.concurrency))
AnswerRunsHere ==
    session.hw # NoHw /\ ~Raises(session.requirements) =>
        Runs(Answer(session), session.hw, session.requirements)

\* What a session holds is what it was told, before and after a resumption, and
\* what it answers from that would run.
ConversationKept == ExplicitOutranksProse /\ ResumeLosesNothing /\ AnswerRunsHere

\* A question is put once in a conversation, and never about a field whose
\* value was given outright (_worth_asking commits it in the turn it shows).
AskedOnce ==
    [][turns' # turns /\ "question" \in DOMAIN shown' =>
          shown'.question \notin (put \ {"machine"}) \cup DOMAIN given']_svars
=============================================================================
