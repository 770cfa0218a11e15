---------------------------- MODULE AgentProofs -----------------------------
(***************************************************************************)
(* Proofs about what an agent works with: a conversation (Session), for    *)
(* any catalogue, machines, sentences and answers, and any number of turns,*)
(* saves and resumptions; the model catalogue (Catalog), for any files,    *)
(* documents, rows and bounds; and the MCP server (Mcp), for any input,    *)
(* well formed or not, and any eval root.                                  *)
(***************************************************************************)
EXTENDS Session, Catalog, Mcp, FiniteSetTheorems, SequenceTheorems, WellFoundedInduction,
        NaturalsInduction, TLAPS

-----------------------------------------------------------------------------
(* The conversation                                                        *)

SessionFields ==
    {"text", "stage", "requirements", "stated", "explicit", "asked", "answered",
     "evidence", "hw", "hw_source", "model_id"}
RequirementFields ==
    {"workload", "concurrency", "context", "itl", "ttft", "prefix", "structured", "adapters"}

IsSession(s) == s = [f \in SessionFields |-> s[f]]

\* What a session is made of: the evidence is what is read in the text, so that
\* a file need not hold it.
Formed(s) ==
    /\ IsSession(s)
    /\ DOMAIN s.requirements = RequirementFields
    /\ s.text \in Seq(Phrases)
    /\ s.evidence = IF s.text = <<>> THEN <<>> ELSE Inferred(s.text)

\* What the user gave outright is protected twice, and what was put is
\* remembered.
Honours(s, g, p) ==
    /\ DOMAIN g \subseteq s.stated \cap s.explicit \cap RequirementFields
    /\ \A f \in DOMAIN g : s.requirements[f] = g[f]
    /\ p \ {"machine"} \subseteq s.asked
    /\ "" \notin p

Sound(s, g, p) == Formed(s) /\ Honours(s, g, p)

SessionInv ==
    /\ Sound(session, given, put)
    /\ saved # Nothing => Sound(FromJson(saved.doc), saved.given, saved.put)

\* What a step may do to a session: turn its stage, choose, and remember a
\* question.
Carries(s, r) ==
    /\ IsSession(r)
    /\ r.text = s.text /\ r.evidence = s.evidence /\ r.requirements = s.requirements
    /\ r.stated = s.stated /\ r.explicit = s.explicit /\ s.asked \subseteq r.asked

\* What only carries a session on keeps what it holds.
LEMMA CarriedIsSound ==
    ASSUME NEW s, NEW r, NEW g, NEW p, Sound(s, g, p), Carries(s, r)
    PROVE  Sound(r, g, p)
BY DEF Sound, Carries, Formed, Honours

\* A session begins with nothing given and nothing put.
LEMMA NewIsSound == Sound(New, <<>>, {})
<1>1. New = [f \in SessionFields |-> New[f]]
  BY DEF New, SessionFields
<1>2. DOMAIN New.requirements = RequirementFields
  BY DEF New, Defaults, RequirementFields
<1>3. New.text = <<>> /\ New.evidence = <<>> /\ <<>> \in Seq(Phrases) /\ DOMAIN <<>> = {}
  BY DEF New
<1> QED BY <1>1, <1>2, <1>3 DEF IsSession, Sound, Formed, Honours

\* A sentence is read with all that came before it, and what was given
\* outright is kept (_apply_text).
LEMMA ToldIsSound ==
    ASSUME NEW s, NEW g, NEW p, Sound(s, g, p), NEW t \in Texts, t # <<>>
    PROVE  Sound(ApplyText(s, t), g, p)
<1> DEFINE text == s.text \o t
           read == Read(text)
           r == Absorb(s, text, read)
<1>1. text \in Seq(Phrases) /\ text # <<>>
  <2>1. s.text \in Seq(Phrases) /\ t \in Seq(Phrases)
    BY SessionAssumption DEF Sound, Formed
  <2>2. Len(t) > 0 /\ Len(text) = Len(s.text) + Len(t) /\ Len(s.text) \in Nat
    BY <2>1
  <2> QED BY <2>1, <2>2
<1>2. read.inferred = Inferred(text)
  BY DEF Read, ReadOf
<1> HIDE DEF text, read
<1>3. DOMAIN s = SessionFields /\ DOMAIN s.requirements = RequirementFields
  BY DEF IsSession, Sound, Formed
<1>4. /\ r = [f \in SessionFields |-> r[f]]
      /\ r.text = text /\ r.evidence = read.inferred
      /\ r.stated = s.stated /\ r.explicit = s.explicit /\ r.asked = s.asked
      /\ r.requirements = [f \in RequirementFields |-> IF f \in s.explicit THEN s.requirements[f]
                                                               ELSE read.requirements[f]]
  BY <1>3 DEF Absorb, SessionFields
<1> HIDE DEF r
<1>5. Formed(r)
  BY <1>1, <1>2, <1>4 DEF IsSession, Formed
<1>6. Honours(r, g, p)
  BY <1>4 DEF Sound, Honours
<1> QED BY <1>5, <1>6 DEF Sound, ApplyText, r, text, read

\* A machine changes no requirement (_apply_hardware).
LEMMA PlacedIsSound ==
    ASSUME NEW s, NEW g, NEW p, Sound(s, g, p), NEW machine
    PROVE  Sound(Placed(s, machine), g, p)
<1>1. DOMAIN s = SessionFields /\ s = [f \in SessionFields |-> s[f]]
  BY DEF IsSession, Sound, Formed
<1>2. Carries(s, Placed(s, machine))
  BY <1>1 DEF IsSession, Carries, Placed, ApplyHardware, SessionFields
<1> QED BY <1>2, CarriedIsSound

\* An answer that is not refused is held from then on (_apply_fields).
LEMMA AnsweredIsSound ==
    ASSUME NEW s, NEW g, NEW p, Sound(s, g, p), NEW fields, ~Refused(s, fields)
    PROVE  Sound(ApplyFields(s, fields),
                 [f \in DOMAIN fields \cup DOMAIN g |->
                     IF f \in DOMAIN fields THEN fields[f].value ELSE g[f]], p)
<1> DEFINE r == ApplyFields(s, fields)
           h == [f \in DOMAIN fields \cup DOMAIN g |->
                     IF f \in DOMAIN fields THEN fields[f].value ELSE g[f]]
<1>1. DOMAIN s = SessionFields /\ DOMAIN s.requirements = RequirementFields
  BY DEF IsSession, Sound, Formed
<1>2. DOMAIN fields \subseteq RequirementFields
  BY <1>1 DEF Refused
<1>3. /\ r = [f \in SessionFields |-> r[f]]
      /\ r.text = s.text /\ r.evidence = s.evidence /\ r.asked = s.asked
      /\ r.stated = s.stated \cup DOMAIN fields /\ r.explicit = s.explicit \cup DOMAIN fields
      /\ r.requirements = [f \in RequirementFields |->
             IF f \in DOMAIN fields THEN fields[f].value ELSE s.requirements[f]]
  BY <1>1 DEF ApplyFields, SessionFields
<1> HIDE DEF r
<1>4. Formed(r)
  BY <1>3 DEF IsSession, Sound, Formed
<1>5. Honours(r, h, p)
  <2>1. DOMAIN h = DOMAIN fields \cup DOMAIN g
    OBVIOUS
  <2>2. \A f \in DOMAIN h : h[f] = IF f \in DOMAIN fields THEN fields[f].value ELSE g[f]
    OBVIOUS
  <2> HIDE DEF h
  <2>3. DOMAIN h \subseteq r.stated \cap r.explicit \cap RequirementFields
    BY <1>2, <1>3, <2>1 DEF Sound, Honours
  <2>4. \A f \in DOMAIN h : r.requirements[f] = h[f]
    BY <1>2, <1>3, <2>1, <2>2 DEF Sound, Honours
  <2> QED BY <1>3, <2>3, <2>4 DEF Sound, Honours
<1> QED BY <1>4, <1>5 DEF Sound, r

\* The parts of a pair.
LEMMA PairParts ==
    ASSUME NEW a, NEW b, NEW r, r = <<a, b>>
    PROVE  r[1] = a /\ r[2] = b
OBVIOUS

\* Some places of a sequence have a first one.
LEMMA FirstPlace ==
    ASSUME NEW T, T # {}, \A i \in T : i \in Nat
    PROVE  Min(T) \in T /\ \A i \in T : Min(T) <= i
<1>1. PICK i \in T : \A j \in T : <<j, i>> \notin OpToRel(<, Nat)
  BY WFMin, NatLessThanWellFounded
<1>2. \A j \in T : i <= j
  <2> SUFFICES ASSUME NEW j \in T PROVE i <= j
    OBVIOUS
  <2>1. ~(j < i)
    BY <1>1 DEF OpToRel
  <2> QED BY <2>1
<1> QED BY <1>2 DEF Min

\* The question worth asking is open: not stated, not asked, not answered.
LEMMA WorthAskingIsOpen ==
    ASSUME NEW s
    PROVE  \/ WorthAsking(s) = ""
           \/ WorthAsking(s) \in RequirementFields \ (s.stated \cup s.asked)
<1> DEFINE open == Open(s)
<1>1. open \subseteq 1..3 /\ \A i \in open : Probes[i] \in RequirementFields \ (s.stated \cup s.asked)
  BY DEF Open, Probes, RequirementFields
<1> HIDE DEF open
<1>2. CASE open = {}
  BY <1>2 DEF WorthAsking, open
<1>3. CASE open # {}
  <2>1. \A i \in open : i \in Nat
    BY <1>1
  <2>2. Min(open) \in open
    BY <1>3, <2>1, FirstPlace
  <2>3. WorthAsking(s) = Probes[Min(open)]
    BY <1>3 DEF WorthAsking, open
  <2> QED BY <1>1, <2>2, <2>3
<1> QED BY <1>2, <1>3

\* A question a turn shows is new, and remembered.
Fresh(s, r, question) ==
    \/ question \in {"", "machine"}
    \/ question \in (RequirementFields \cap r.asked) \ (s.stated \cup s.asked)

\* With a model chosen, a step carries the session on and shows a question
\* that is new, or none.
LEMMA AskingIsFresh ==
    ASSUME NEW s, IsSession(s), NEW r, r = Configured(s)
    PROVE  Carries(s, r[1]) /\ Fresh(s, r[1], r[2].question)
<1>1. PICK q : q = WorthAsking(s)
  OBVIOUS
<1>2. q = "" \/ q \in RequirementFields \ (s.stated \cup s.asked)
  BY <1>1, WorthAskingIsOpen
<1>3. r = Asking(s, q)
  BY <1>1 DEF Configured
<1>4. CASE q # "" \/ s.stage = "configure"
  <2>1. PICK next, shows :
          /\ next = [CommitQuestion(s, q) EXCEPT !.stage = IF q = "" THEN "optimize" ELSE @]
          /\ shows = Turn(s, "configure", q, Named(s, Candidates(s)).id)
    OBVIOUS
  <2>2. r = <<next, shows>>
    BY <1>3, <1>4, <2>1 DEF Asking
  <2>3. shows.question = q
    BY <2>1 DEF Turn
  <2>4. /\ Carries(s, next)
        /\ q = "" \/ q \in next.asked
    BY <2>1 DEF IsSession, CommitQuestion, Carries, SessionFields
  <2>5. r[1] = next /\ r[2] = shows
    BY <2>2, PairParts, ZenonT(30)
  <2> QED BY <1>2, <2>3, <2>4, <2>5 DEF Fresh
<1>5. CASE ~(q # "" \/ s.stage = "configure")
  <2>1. r = AfterConfigure(s)
    BY <1>3, <1>5 DEF Asking
  <2>2. \E stage, at, said :
            r = <<[s EXCEPT !.stage = stage], Turn(s, at, "", said)>>
    BY <2>1, Zenon DEF AfterConfigure
  <2>3. PICK stage, at, said : r = <<[s EXCEPT !.stage = stage], Turn(s, at, "", said)>>
    BY <2>2
  <2>4. PICK next, shows : next = [s EXCEPT !.stage = stage] /\ shows = Turn(s, at, "", said)
    OBVIOUS
  <2>5. r[1] = next /\ r[2] = shows
    <3>1. r = <<next, shows>>
      BY <2>3, <2>4, Zenon
    <3> QED BY <3>1, PairParts, ZenonT(30)
  <2>6. shows.question = ""
    BY <2>4 DEF Turn
  <2>7. Carries(s, next)
    BY <2>4 DEF IsSession, Carries, SessionFields
  <2> QED BY <2>5, <2>6, <2>7 DEF Fresh
<1> QED BY <1>4, <1>5

\* A step carries what it was given, and puts a question that is new.
Proceeds(s, r) ==
    /\ Carries(s, r[1])
    /\ "question" \in DOMAIN r[2] => Fresh(s, r[1], r[2].question)

\* A step that leaves the session as it is asks for the machine or nothing.
LEMMA StayingProceeds ==
    ASSUME NEW s, IsSession(s), NEW shows,
           "question" \in DOMAIN shows => shows.question \in {"", "machine"}
    PROVE  Proceeds(s, <<s, shows>>)
<1>1. Carries(s, s)
  BY DEF Carries
<1> QED BY <1>1 DEF Proceeds, Fresh

\* Whatever stage it is at, a step carries the session on (step).
LEMMA StepProceeds ==
    ASSUME NEW s, IsSession(s)
    PROVE  Proceeds(s, Step(s))
<1>1. CASE s.hw = NoHw
  <2>1. PICK shows : shows = Turn(s, "hardware", "machine", "")
    OBVIOUS
  <2>2. Step(s) = <<s, shows>>
    BY <1>1, <2>1 DEF Step
  <2>3. shows.question = "machine"
    BY <2>1 DEF Turn
  <2>4. Proceeds(s, <<s, shows>>)
    BY <2>3, StayingProceeds
  <2> QED BY <2>2, <2>4
<1>2. CASE s.hw # NoHw /\ Raises(s.requirements)
  <2>1. PICK shows : shows = [raised |-> TRUE]
    OBVIOUS
  <2>2. Step(s) = <<s, shows>>
    BY <1>2, <2>1 DEF Step
  <2>3. "question" \notin DOMAIN shows
    BY <2>1
  <2>4. Proceeds(s, <<s, shows>>)
    BY <2>3, StayingProceeds
  <2> QED BY <2>2, <2>4
<1>3. CASE s.hw # NoHw /\ ~Raises(s.requirements) /\ Candidates(s) = {}
  <2>1. PICK shows : shows = Turn(s, "choose", "", Optimizations(s))
    OBVIOUS
  <2>2. Step(s) = <<s, shows>>
    BY <1>3, <2>1 DEF Step
  <2>3. shows.question = ""
    BY <2>1 DEF Turn
  <2>4. Proceeds(s, <<s, shows>>)
    BY <2>3, StayingProceeds
  <2> QED BY <2>2, <2>4
<1>4. CASE s.hw # NoHw /\ ~Raises(s.requirements) /\ Candidates(s) # {}
  <2>1. PICK c : c = Chosen(s)
    OBVIOUS
  <2>2. PICK r : r = Configured(c)
    OBVIOUS
  <2>3. Step(s) = r
    BY <1>4, <2>1, <2>2 DEF Step
  <2>4. IsSession(c) /\ Carries(s, c) /\ c.asked = s.asked
    BY <2>1 DEF Chosen, IsSession, Carries, SessionFields
  <2>5. Carries(c, r[1]) /\ Fresh(c, r[1], r[2].question)
    BY <2>2, <2>4, AskingIsFresh
  <2> QED BY <2>3, <2>4, <2>5 DEF Proceeds, Carries, Fresh
<1> QED BY <1>1, <1>2, <1>3, <1>4

\* Reading back what was written restores every field: the evidence from the
\* text it was read in.
LEMMA FormedSurvives ==
    ASSUME NEW s, Formed(s)
    PROVE  FromJson(ToJson(s)) = s
<1> DEFINE d == ToJson(s)
<1>1. DOMAIN d = SessionFields \ {"evidence"} /\ \A f \in SessionFields \ {"evidence"} : d[f] = s[f]
  BY DEF IsSession, Formed, ToJson, SessionFields
<1> HIDE DEF d
<1>2. PICK r : r = FromJson(d)
  OBVIOUS
<1>3. New = [f \in SessionFields |-> New[f]]
  BY DEF New, SessionFields
<1>4. r = [f \in SessionFields |-> r[f]]
  BY <1>2, <1>3 DEF FromJson
<1>5. /\ r.text = s.text /\ r.stage = s.stage /\ r.requirements = s.requirements
      /\ r.stated = s.stated /\ r.asked = s.asked /\ r.model_id = s.model_id
  BY <1>1, <1>2, <1>3 DEF FromJson, SessionFields
<1>6. /\ r.explicit = s.explicit /\ r.answered = s.answered
      /\ r.hw = s.hw /\ r.hw_source = s.hw_source
  BY <1>1, <1>2, <1>3 DEF FromJson, SessionFields
<1>7. r.evidence = s.evidence
  BY <1>1, <1>2, <1>3 DEF FromJson, SessionFields, Formed
<1>8. \A f \in SessionFields : r[f] = s[f]
  BY <1>5, <1>6, <1>7 DEF SessionFields
<1>9. r = s
  BY <1>4, <1>8 DEF IsSession, Formed
<1> QED BY <1>2, <1>9 DEF d

\* What a turn does: refused, or shown.
TurnSound ==
    /\ Sound(session, given, put)'
    /\ "question" \in DOMAIN shown' =>
           shown'.question \notin (put \ {"machine"}) \cup DOMAIN given'

\* A turn that is not refused applies the answers, then steps once.
LEMMA ShownIsSound ==
    ASSUME NEW s, NEW fields, Sound(s, given, put), ~Refused(s, fields),
           Shows(Step(IF fields = <<>> THEN s ELSE ApplyFields(s, fields)), fields)
    PROVE  TurnSound
<1> DEFINE h == [f \in DOMAIN fields \cup DOMAIN given |->
                    IF f \in DOMAIN fields THEN fields[f].value ELSE given[f]]
<1>1. PICK a : a = IF fields = <<>> THEN s ELSE ApplyFields(s, fields)
  OBVIOUS
<1>2. Sound(a, h, put)
  <2>1. CASE fields = <<>>
    <3>1. DOMAIN fields = {}
      BY <2>1
    <3>2. DOMAIN h = DOMAIN given /\ \A f \in DOMAIN given : h[f] = given[f]
      BY <3>1
    <3> HIDE DEF h
    <3> QED BY <1>1, <2>1, <3>2 DEF Sound, Honours
  <2>2. CASE fields # <<>>
    BY <1>1, <2>2, AnsweredIsSound
  <2> QED BY <2>1, <2>2
<1>3. given' = h
  BY DEF Shows
<1> HIDE DEF h
<1>4. PICK r : r = Step(a)
  OBVIOUS
<1>5. session' = r[1] /\ shown' = r[2]
      /\ put' = put \cup (IF "question" \in DOMAIN r[2] THEN {r[2].question} \ {""} ELSE {})
  BY <1>1, <1>4 DEF Shows
<1>6. Carries(a, r[1]) /\ ("question" \in DOMAIN r[2] => Fresh(a, r[1], r[2].question))
  BY <1>2, <1>4, StepProceeds DEF Proceeds, Sound, Formed
<1>7. Sound(r[1], h, put)
  BY <1>2, <1>6, CarriedIsSound
<1>8. Sound(r[1], h, put')
  <2>1. put' \ {"machine"} \subseteq r[1].asked /\ "" \notin put'
    BY <1>5, <1>6, <1>7 DEF Sound, Honours, Fresh
  <2> QED BY <1>7, <2>1 DEF Sound, Honours
<1>9. "question" \in DOMAIN r[2] => r[2].question \notin (put \ {"machine"}) \cup DOMAIN h
  <2>1. "" \notin RequirementFields /\ "machine" \notin RequirementFields
    BY DEF RequirementFields
  <2> QED BY <1>2, <1>6, <2>1 DEF Sound, Honours, Fresh
<1> QED BY <1>3, <1>5, <1>8, <1>9 DEF TurnSound

\* A turn, refused at any of its inputs or not (turn).
LEMMA TurnIsSound ==
    ASSUME Sound(session, given, put), NEW text \in Texts \cup {<<>>}, NEW machine, NEW fields,
           TakeTurn(text, machine, fields)
    PROVE  TurnSound
<1>1. PICK heard : heard = Told(text)
  OBVIOUS
<1>2. Sound(heard, given, put)
  <2>1. CASE text = <<>>
    BY <1>1, <2>1 DEF Told
  <2>2. CASE text # <<>>
    BY <1>1, <2>2, ToldIsSound DEF Told
  <2> QED BY <2>1, <2>2
<1>3. ASSUME NEW s, Sound(s, given, put), Raised(s)
      PROVE  TurnSound
  <2>1. session' = s /\ given' = given /\ put' = put /\ shown' = [raised |-> TRUE]
    BY <1>3 DEF Raised
  <2>2. "question" \notin DOMAIN shown'
    BY <2>1
  <2> QED BY <1>3, <2>1, <2>2 DEF TurnSound
<1>4. CASE machine \notin DOMAIN Profiles \cup {"", "none"}
  BY <1>1, <1>2, <1>3, <1>4 DEF TakeTurn
<1>5. CASE machine \in DOMAIN Profiles \cup {"", "none"}
  <2>1. PICK s : s = Placed(heard, machine)
    OBVIOUS
  <2>2. Sound(s, given, put)
    BY <1>2, <2>1, PlacedIsSound
  <2>3. IF Refused(s, fields) THEN Raised(s)
        ELSE Shows(Step(IF fields = <<>> THEN s ELSE ApplyFields(s, fields)), fields)
    BY <1>1, <1>5, <2>1 DEF TakeTurn
  <2> QED BY <1>3, <2>2, <2>3, ShownIsSound
<1> QED BY <1>4, <1>5

\* tell, on, set and `onpar build` are turns.
LEMMA ConverseIsSound ==
    ASSUME Sound(session, given, put), Converse
    PROVE  TurnSound /\ saved' = saved
<1>1. PICK text \in Texts \cup {<<>>} : \E machine, fields : TakeTurn(text, machine, fields)
  BY Zenon DEF Converse, Tell, On, Set, Build
<1>2. PICK machine, fields : TakeTurn(text, machine, fields)
  BY <1>1
<1>3. TurnSound
  BY <1>2, TurnIsSound
<1> QED BY <1>2, <1>3 DEF TakeTurn

\* The invariant of a conversation, its steps, and what follows from it.
LEMMA SessionInvInit == SessionInit => SessionInv
BY NewIsSound DEF SessionInit, SessionInv

LEMMA SessionInvStep == SessionInv /\ [SessionNext]_svars => SessionInv'
<1> SUFFICES ASSUME SessionInv, [SessionNext]_svars PROVE SessionInv'
  OBVIOUS
<1>1. CASE Converse
  BY <1>1, ConverseIsSound DEF SessionInv, TurnSound
<1>2. CASE Save
  <2>1. saved'.doc = ToJson(session) /\ saved'.given = given /\ saved'.put = put
    BY <1>2 DEF Save
  <2>2. FromJson(saved'.doc) = session
    BY <2>1, FormedSurvives DEF SessionInv, Sound
  <2> QED BY <1>2, <2>1, <2>2 DEF Save, SessionInv
<1>3. CASE Resume
  BY <1>3 DEF Resume, SessionInv
<1>4. CASE UNCHANGED svars
  BY <1>4 DEF svars, SessionInv
<1> QED BY <1>1, <1>2, <1>3, <1>4 DEF SessionNext

\* The ranking orders the places of the catalogue.
LEMMA RankingOrders ==
    ASSUME NEW i \in DOMAIN Catalogue, NEW j \in DOMAIN Catalogue, NEW k \in DOMAIN Catalogue
    PROVE  /\ ~RankedAhead(Catalogue, i, i)
           /\ i # j => RankedAhead(Catalogue, i, j) \/ RankedAhead(Catalogue, j, i)
           /\ RankedAhead(Catalogue, i, j) /\ RankedAhead(Catalogue, j, k)
                => RankedAhead(Catalogue, i, k)
<1> DEFINE size(x) == Catalogue[x].params
<1>1. \A x \in DOMAIN Catalogue : x \in Nat /\ size(x) \in Nat
  <2>1. DOMAIN Catalogue = 1..Len(Catalogue)
    BY SessionAssumption
  <2>2. \A x \in DOMAIN Catalogue : Catalogue[x] \in Range(Catalogue)
    BY DEF Range
  <2> QED BY <2>1, <2>2, SessionAssumption
<1>2. \A x, y : RankedAhead(Catalogue, x, y) <=> size(x) > size(y) \/ (size(x) = size(y) /\ x < y)
  BY DEF RankedAhead
<1> HIDE DEF size
<1> QED BY <1>1, <1>2

\* Of some models there is one that the ranking puts first.
LEMMA ForemostIs ==
    ASSUME NEW T \in SUBSET DOMAIN Catalogue, T # {}
    PROVE  Foremost(T) \in T
<1> DEFINE ahead(i) == {j \in T : RankedAhead(Catalogue, j, i)}
           counts == {Cardinality(ahead(i)) : i \in T}
<1>1. IsFiniteSet(T)
  <2>1. DOMAIN Catalogue = 1..Len(Catalogue) /\ Len(Catalogue) \in Nat
    BY SessionAssumption
  <2>2. IsFiniteSet(1..Len(Catalogue))
    BY <2>1, FS_Interval
  <2> QED BY <2>1, <2>2, FS_Subset
<1>2. \A i : IsFiniteSet(ahead(i)) /\ Cardinality(ahead(i)) \in Nat
  BY <1>1, FS_Subset, FS_CardinalityType
<1> HIDE DEF ahead
<1>3. counts # {} /\ \A n \in counts : n \in Nat
  BY <1>2
<1>4. PICK i \in T : Cardinality(ahead(i)) = Min(counts)
  BY <1>3, FirstPlace
<1>5. ASSUME NEW j \in ahead(i) PROVE FALSE
  <2>1. j \in T /\ RankedAhead(Catalogue, j, i)
    BY DEF ahead
  <2>2. ahead(j) \subseteq ahead(i) \ {j}
    BY <2>1, RankingOrders DEF ahead
  <2>3. Cardinality(ahead(i) \ {j}) = Cardinality(ahead(i)) - 1 /\ IsFiniteSet(ahead(i) \ {j})
    BY <1>2, FS_RemoveElement
  <2>4. Cardinality(ahead(j)) <= Cardinality(ahead(i) \ {j})
    BY <2>2, <2>3, FS_Subset
  <2>5. Cardinality(ahead(j)) \in counts
    BY <2>1
  <2>6. Min(counts) <= Cardinality(ahead(j))
    <3> HIDE DEF counts
    <3> QED BY <1>3, <2>5, FirstPlace
  <2> QED BY <1>2, <1>4, <2>3, <2>4, <2>6
<1>6. \A j \in T \ {i} : RankedAhead(Catalogue, i, j)
  BY <1>5, RankingOrders DEF ahead
<1> DEFINE first == {k \in T : \A j \in T \ {k} : RankedAhead(Catalogue, k, j)}
<1>7. first # {} /\ Foremost(T) = The(first)
  BY <1>6 DEF Foremost
<1> QED BY <1>7 DEF The

\* A model is found by its id.
LEMMA ModelByItsId ==
    ASSUME NEW i \in DOMAIN Catalogue
    PROVE  ModelOf(Catalogue[i].id) = Catalogue[i]
<1> DEFINE found == {m \in Range(Catalogue) : m.id = Catalogue[i].id}
<1>1. found = {Catalogue[i]}
  BY SessionAssumption DEF Range
<1>2. ModelOf(Catalogue[i].id) = The(found)
  BY DEF ModelOf
<1> QED BY <1>1, <1>2 DEF The

\* The model an answer names is one of those that run.
LEMMA NamedRuns ==
    ASSUME NEW s, NEW cands \in SUBSET DOMAIN Catalogue, cands # {}
    PROVE  \E i \in cands : Named(s, cands) = Catalogue[i]
<1>1. CASE s.model_id \in {Catalogue[i].id : i \in cands}
  <2>1. PICK i \in cands : s.model_id = Catalogue[i].id
    BY <1>1
  <2> QED BY <1>1, <2>1, ModelByItsId DEF Named
<1>2. CASE s.model_id \notin {Catalogue[i].id : i \in cands}
  <2> DEFINE quick == {i \in cands : ~Slow(FitOf(Catalogue[i], s.hw, s.requirements))}
             pool == IF quick = {} THEN cands ELSE quick
  <2>1. Named(s, cands) = Catalogue[Foremost(pool)]
    BY <1>2 DEF Named, DefaultPick
  <2>2. pool \subseteq cands /\ pool # {}
    OBVIOUS
  <2> HIDE DEF pool
  <2>3. Foremost(pool) \in pool
    BY <2>2, ForemostIs
  <2> QED BY <2>1, <2>2, <2>3
<1> QED BY <1>1, <1>2

\* What is named fits, at the precision named.
LEMMA NamedFits ==
    ASSUME NEW hw, NEW req, NEW i \in Feasibles(hw, req), NEW m, m = Catalogue[i]
    PROVE  Feasible(Solve(ModelOf(m.id), FitOf(m, hw, req).quant, hw, req.context, req.concurrency))
<1> DEFINE best == BestQuant(m, hw, req.context, req.concurrency)
           f == The(best)
<1>1. i \in DOMAIN Catalogue /\ best # {}
  BY DEF Feasibles, Ranked
<1>2. f \in best
  BY <1>1 DEF The
<1>3. PICK q : f = Solve(m, q, hw, req.context, req.concurrency) /\ Feasible(f)
  BY <1>2 DEF BestQuant
<1>4. f.quant = q
  BY <1>3 DEF Solve, FitOfParts
<1>5. FitOf(m, hw, req) = f /\ ModelOf(m.id) = m
  BY <1>1, ModelByItsId DEF FitOf
<1> QED BY <1>3, <1>4, <1>5

\* What can be served somewhere.
LEMMA FeasibleServes ==
    ASSUME NEW hw, NEW req, Feasibles(hw, req) # {}
    PROVE  Serves(hw, req.context, req.concurrency)
BY DEF Feasibles, Ranked, Serves, Range

\* What is offered instead runs.
LEMMA InsteadRuns ==
    ASSUME NEW s, {"context", "concurrency"} \subseteq DOMAIN s.requirements,
           NEW w, w = WhatWouldFit(s)
    PROVE  /\ \A c \in w.context : Serves(s.hw, c, s.requirements.concurrency)
           /\ \A n \in w.concurrency : Serves(s.hw, s.requirements.context, n)
           /\ \A p \in w.machine : \E m \in Range(Catalogue) : Listed(p, m, s.requirements)
<1> DEFINE req == s.requirements
<1>1. ASSUME NEW c \in w.context PROVE Serves(s.hw, c, req.concurrency)
  <2>1. Feasibles(s.hw, [req EXCEPT !.context = c]) # {}
    BY DEF WhatWouldFit
  <2>2. [req EXCEPT !.context = c].context = c
        /\ [req EXCEPT !.context = c].concurrency = req.concurrency
    OBVIOUS
  <2> HIDE DEF req
  <2> QED BY <2>1, <2>2, FeasibleServes
<1>2. ASSUME NEW n \in w.concurrency PROVE Serves(s.hw, req.context, n)
  <2>1. Feasibles(s.hw, [req EXCEPT !.concurrency = n]) # {}
    BY DEF WhatWouldFit
  <2>2. [req EXCEPT !.concurrency = n].concurrency = n
        /\ [req EXCEPT !.concurrency = n].context = req.context
    OBVIOUS
  <2> HIDE DEF req
  <2> QED BY <2>1, <2>2, FeasibleServes
<1>3. ASSUME NEW p \in w.machine PROVE \E m \in Range(Catalogue) : Listed(p, m, req)
  <2>1. PICK q \in Range(Profiles) : p = q.id /\ Feasibles(ProfileHardware(q), req) # {}
    BY DEF WhatWouldFit
  <2>2. PICK m \in Range(Catalogue) :
             BestQuant(m, ProfileHardware(q), req.context, req.concurrency) # {}
    BY <2>1, FeasibleServes DEF Serves
  <2> DEFINE x == Placement(q, BestQuant(m, ProfileHardware(q), req.context, req.concurrency),
                               WhyNot(m, ProfileHardware(q), req.context, req.concurrency))
  <2>3. x \in Placements(m, Range(Profiles), req.context, req.concurrency)
    BY DEF Placements
  <2>4. x.profile = p /\ x.fit # {}
    BY <2>1, <2>2 DEF Placement
  <2> HIDE DEF x, req
  <2>5. \A y : y.fit = {} => Preferred(x, y)
    BY <2>4 DEF Preferred
  <2> QED BY <2>3, <2>4, <2>5 DEF Listed, Capable
<1> QED BY <1>1, <1>2, <1>3

\* Whatever a session has come to, its answer would run.
LEMMA AnswersRun ==
    ASSUME NEW s, {"context", "concurrency"} \subseteq DOMAIN s.requirements, s.hw # NoHw
    PROVE  Runs(Answer(s), s.hw, s.requirements)
<1> DEFINE cands == Candidates(s)
           model == Named(s, cands)
<1>1. cands = Feasibles(s.hw, s.requirements) /\ cands \subseteq DOMAIN Catalogue
  BY DEF Candidates, Feasibles, Ranked
<1>2. Answer(s) = Naming(s, model)
  BY DEF Answer
<1>3. CASE model = NoModel
  <2>1. PICK w : w = WhatWouldFit(s)
    OBVIOUS
  <2>2. PICK a : a = [instead |-> w]
    OBVIOUS
  <2>3. Answer(s) = a
    BY <1>2, <1>3, <2>1, <2>2, Zenon DEF Naming
  <2>4. "instead" \in DOMAIN a /\ a.instead = w
    BY <2>2
  <2> QED BY <2>1, <2>3, <2>4, InsteadRuns DEF Runs
<1>4. CASE model # NoModel
  <2>1. cands # {}
    BY <1>4 DEF Named, DefaultPick
  <2> HIDE DEF cands, model
  <2>2. PICK i \in cands : model = Catalogue[i]
    BY <1>1, <2>1, NamedRuns DEF model
  <2>3. Feasible(Solve(ModelOf(model.id), FitOf(model, s.hw, s.requirements).quant, s.hw,
                       s.requirements.context, s.requirements.concurrency))
    BY <1>1, <2>2, NamedFits
  <2>4. PICK q, plan : q = FitOf(model, s.hw, s.requirements).quant /\ plan = PlanOf(s)
    OBVIOUS
  <2>5. PICK a : a = [model |-> model.id, quant |-> q, plan |-> plan]
    OBVIOUS
  <2>6. Answer(s) = a
    BY <1>2, <1>4, <2>4, <2>5, Zenon DEF Naming
  <2>7. "instead" \notin DOMAIN a /\ a.model = model.id /\ a.quant = q
    BY <2>5
  <2> QED BY <2>3, <2>4, <2>6, <2>7, Zenon DEF Runs
<1> QED BY <1>3, <1>4

\* What the invariant says of a session is what a user relies on.
LEMMA SessionKeeps == SessionInv => ConversationKept
<1> SUFFICES ASSUME SessionInv PROVE ConversationKept
  OBVIOUS
<1>1. ExplicitOutranksProse /\ ResumeLosesNothing
  BY FormedSurvives DEF SessionInv, Sound, Honours, ExplicitOutranksProse, ResumeLosesNothing
<1>2. {"context", "concurrency"} \subseteq DOMAIN session.requirements
  BY DEF SessionInv, Sound, Formed, RequirementFields
<1>3. AnswerRunsHere
  BY <1>2, AnswersRun DEF AnswerRunsHere
<1> QED BY <1>1, <1>3 DEF ConversationKept

\* What was given outright stands, whatever is said, placed, refused, saved and
\* resumed after it; a session that is resumed is the one that was saved; and
\* what a session answers would run, on its machine at the precision it names,
\* or with less asked or elsewhere, as it says
\* (_apply_text's `kept`, to_json, from_json, answer, _what_would_fit).
THEOREM ConversationStands == SessionSpec => []ConversationKept
BY SessionInvInit, SessionInvStep, SessionKeeps, PTL DEF SessionSpec

\* A turn taken from a sound session puts a question that is new.
LEMMA AskingOnce ==
    SessionInv /\ [SessionNext]_svars =>
        [turns' # turns /\ "question" \in DOMAIN shown' =>
            shown'.question \notin (put \ {"machine"}) \cup DOMAIN given']_svars
<1> SUFFICES ASSUME SessionInv, SessionNext, turns' # turns, "question" \in DOMAIN shown'
             PROVE  shown'.question \notin (put \ {"machine"}) \cup DOMAIN given'
  OBVIOUS
<1>1. Converse
  BY DEF SessionNext, Save, Resume
<1> QED BY <1>1, ConverseIsSound DEF SessionInv, TurnSound

\* A question is put once in a conversation, and never about what was given
\* (_worth_asking, and the asked and stated fields of a saved session).
THEOREM QuestionsOnce == SessionSpec => AskedOnce
<1>1. SessionSpec => []SessionInv
  BY SessionInvInit, SessionInvStep, PTL DEF SessionSpec
<1> QED BY <1>1, AskingOnce, PTL DEF SessionSpec, AskedOnce

-----------------------------------------------------------------------------
(* The catalogue: what the server keeps in its cache under the fingerprint *)
(* of the files on disk is what those files say.                           *)

\* Every write of a catalogue file gets an mtime of its own.
Dated ==
    /\ clock \in Nat \ {0}
    /\ \A p \in DOMAIN disk : disk[p].mtime \in Nat /\ 0 < disk[p].mtime /\ disk[p].mtime < clock

\* What was read of a file is what the file says for as long as the file is
\* the one whose mtime the fingerprint holds.
Backed(key, files) ==
    /\ files = [p \in DOMAIN files |-> files[p]]
    /\ \A p \in DOMAIN key : key[p][1] \in Nat /\ key[p][1] < clock
    /\ \A p \in DOMAIN files : p \in DOMAIN disk /\ disk[p].mtime = key[p][1] =>
           Readable(disk, p) /\ files[p] = disk[p].doc.models

Reading(key, files) == [at |-> "reading", key |-> key, files |-> files]

ReaderBacked ==
    reader # NoRun =>
        /\ reader = Reading(reader.key, reader.files)
        /\ DOMAIN reader.files \subseteq DOMAIN reader.key
        /\ Backed(reader.key, reader.files)

\* An entry of the cache was made of what was read of the files of its key.
Made(key, models) ==
    \E files : DOMAIN files = DOMAIN key /\ models = ById(files) /\ Backed(key, files)

CacheBacked ==
    /\ cache = [key \in DOMAIN cache |-> cache[key]]
    /\ \A key \in DOMAIN cache : Made(key, cache[key])

CatalogInv == Dated /\ ReaderBacked /\ CacheBacked

\* A write or a removal of one file: the others stay, and what is written is
\* newer than any fingerprint.
DiskStep ==
    /\ clock' \in Nat /\ clock <= clock'
    /\ \A p \in DOMAIN disk' :
           \/ p \in DOMAIN disk /\ disk'[p] = disk[p]
           \/ disk'[p].mtime = clock /\ clock < clock'

LEMMA WriteIsDiskStep ==
    ASSUME Dated, NEW p, NEW doc, Write(p, doc)
    PROVE  DiskStep
BY DEF Dated, Write, With, DiskStep

LEMMA StillIsDiskStep ==
    ASSUME Dated, UNCHANGED <<disk, clock>>
    PROVE  DiskStep
BY DEF Dated, DiskStep

\* Whoever acts, the files change by single writes and removals.
LEMMA StepIsDiskStep == Dated /\ [CatalogNext]_catvars => DiskStep
<1> SUFFICES ASSUME Dated, [CatalogNext]_catvars PROVE DiskStep
  OBVIOUS
<1>1. CASE Load
  BY <1>1, StillIsDiskStep DEF Load, LoadBegin, LoadRead, LoadEnd
<1>2. CASE DropIn
  BY <1>2, WriteIsDiskStep DEF DropIn
<1>3. CASE TakeOut
  <2>1. PICK p \in DOMAIN disk \ {BuiltIn} : disk' = [q \in DOMAIN disk \ {p} |-> disk[q]]
    BY <1>3 DEF TakeOut
  <2> QED BY <1>3, <2>1 DEF TakeOut, Dated, DiskStep
<1>4. CASE Adding
  <2>1. CASE AddTruncate
    BY <2>1, WriteIsDiskStep DEF AddTruncate
  <2>2. CASE AddWrite
    BY <2>2, WriteIsDiskStep DEF AddWrite
  <2>3. CASE AddKilled
    BY <2>3, StillIsDiskStep DEF AddKilled
  <2> QED BY <1>4, <2>1, <2>2, <2>3 DEF Adding
<1>5. CASE Review
  BY <1>5, StillIsDiskStep DEF Review
<1>6. CASE Apply
  <2>1. \/ UNCHANGED <<disk, clock>>
        \/ \E doc : Write(BuiltIn, doc)
    BY <1>6 DEF Apply
  <2> QED BY <2>1, WriteIsDiskStep, StillIsDiskStep
<1>7. CASE Watched
  BY <1>7, StillIsDiskStep DEF Watched, Watch, WatchBegin, RunByHand, StartService, WatchReads,
     WatchTruncates, WatchWrites, WatchEnd, WatchFetchFails, WatchKilled, Discard, Reboot
<1>8. CASE UNCHANGED catvars
  BY <1>8, StillIsDiskStep DEF catvars
<1> QED BY <1>1, <1>2, <1>3, <1>4, <1>5, <1>6, <1>7, <1>8 DEF CatalogNext, Maintained

\* What was read stays backed, whatever is written since.
LEMMA StaysBacked ==
    ASSUME Dated, DiskStep, NEW CONSTANT key, NEW CONSTANT files, Backed(key, files),
           DOMAIN files \subseteq DOMAIN key
    PROVE  Backed(key, files)'
<1>1. \A p \in DOMAIN key : key[p][1] \in Nat /\ key[p][1] < clock'
  BY DEF Dated, DiskStep, Backed
<1>2. ASSUME NEW p \in DOMAIN files, p \in DOMAIN disk', disk'[p].mtime = key[p][1]
      PROVE  Readable(disk', p) /\ files[p] = disk'[p].doc.models
  <2>1. key[p][1] \in Nat /\ key[p][1] < clock /\ clock \in Nat
    BY <1>2 DEF Backed, Dated
  <2>2. p \in DOMAIN disk /\ disk'[p] = disk[p]
    BY <1>2, <2>1 DEF DiskStep
  <2>3. Readable(disk, p) /\ files[p] = disk[p].doc.models
    BY <1>2, <2>2 DEF Backed
  <2> QED BY <1>2, <2>2, <2>3 DEF Readable
<1> QED BY <1>1, <1>2 DEF Backed

LEMMA StaysMade ==
    ASSUME Dated, DiskStep, NEW CONSTANT key, NEW CONSTANT models, Made(key, models)
    PROVE  Made(key, models)'
<1>1. PICK files : DOMAIN files = DOMAIN key /\ models = ById(files) /\ Backed(key, files)
  BY DEF Made
<1>2. Backed(key, files)'
  BY <1>1, StaysBacked
<1> QED BY <1>1, <1>2 DEF Made

\* Every write is dated after what is there.
LEMMA StaysDated ==
    ASSUME Dated, DiskStep
    PROVE  Dated'
<1>1. ASSUME NEW p \in DOMAIN disk'
      PROVE  disk'[p].mtime \in Nat /\ 0 < disk'[p].mtime /\ disk'[p].mtime < clock'
  <2>1. clock \in Nat /\ clock' \in Nat /\ clock <= clock' /\ 0 < clock
    BY <1>1 DEF Dated, DiskStep
  <2>2. CASE p \in DOMAIN disk /\ disk'[p] = disk[p]
    <3> DEFINE old == disk[p].mtime
    <3>1. old \in Nat /\ 0 < old /\ old < clock
      BY <2>2 DEF Dated
    <3>2. disk'[p].mtime = old
      BY <2>2
    <3> HIDE DEF old
    <3> QED BY <2>1, <3>1, <3>2
  <2>3. CASE disk'[p].mtime = clock /\ clock < clock'
    BY <2>1, <2>3
  <2> QED BY <1>1, <2>2, <2>3 DEF DiskStep
<1> QED BY <1>1 DEF Dated, DiskStep

\* A reader that stays where it is, and a cache that stays as it is, stay
\* backed.
LEMMA ReaderStays ==
    ASSUME Dated, DiskStep, ReaderBacked, reader' = reader
    PROVE  ReaderBacked'
<1>1. CASE reader = NoRun
  BY <1>1 DEF ReaderBacked
<1>2. CASE reader # NoRun
  <2>1. PICK key, files : key = reader.key /\ files = reader.files
    OBVIOUS
  <2>2. /\ Backed(key, files) /\ DOMAIN files \subseteq DOMAIN key
        /\ reader = Reading(key, files)
    BY <1>2, <2>1 DEF ReaderBacked
  <2>3. Backed(key, files)'
    BY <2>2, StaysBacked
  <2>4. key = reader'.key /\ files = reader'.files
    BY <2>1
  <2> QED BY <2>2, <2>3, <2>4 DEF ReaderBacked
<1> QED BY <1>1, <1>2

LEMMA CacheStays ==
    ASSUME Dated, DiskStep, CacheBacked, cache' = cache
    PROVE  CacheBacked'
<1>1. ASSUME NEW key \in DOMAIN cache
      PROVE  \E files : /\ DOMAIN files = DOMAIN key /\ cache[key] = ById(files)
                        /\ Backed(key, files)'
  <2>1. PICK files : DOMAIN files = DOMAIN key /\ cache[key] = ById(files) /\ Backed(key, files)
    BY DEF CacheBacked, Made
  <2>2. Backed(key, files)'
    BY <2>1, StaysBacked
  <2> QED BY <2>1, <2>2
<1> QED BY <1>1 DEF CacheBacked, Made

\* A load begins with the fingerprint of the files as they are.
LEMMA BeginBacked ==
    ASSUME CatalogInv, LoadBegin
    PROVE  ReaderBacked'
<1>1. PICK key : key = Fingerprint(disk)
  OBVIOUS
<1>2. reader' = Reading(key, <<>>) /\ clock' = clock
  BY <1>1 DEF LoadBegin, Reading
<1>3. reader'.key = key /\ reader'.files = <<>>
  BY <1>2 DEF Reading
<1>4. \A p \in DOMAIN key : key[p][1] \in Nat /\ key[p][1] < clock
  BY <1>1 DEF CatalogInv, Dated, Fingerprint
<1>5. DOMAIN <<>> = {} /\ <<>> = [p \in DOMAIN <<>> |-> <<>>[p]]
  OBVIOUS
<1>6. Backed(key, <<>>)'
  BY <1>2, <1>4, <1>5 DEF Backed
<1> QED BY <1>2, <1>3, <1>5, <1>6 DEF ReaderBacked

\* A file that is read while its mtime is the fingerprint's is what was named.
LEMMA ReadBacked ==
    ASSUME CatalogInv, LoadRead
    PROVE  ReaderBacked'
<1>1. PICK p \in Unread :
        reader' = IF Readable(disk, p)
                  THEN [reader EXCEPT !.files = With(@, p, disk[p].doc.models)] ELSE NoRun
  BY DEF LoadRead
<1>2. CASE ~Readable(disk, p)
  BY <1>1, <1>2 DEF ReaderBacked
<1>3. CASE Readable(disk, p)
  <2>1. PICK key, files, rows : /\ key = reader.key /\ files = reader.files
                                /\ rows = disk[p].doc.models
    OBVIOUS
  <2>2. reader # NoRun
    BY DEF LoadRead, NoRun
  <2>3. reader = Reading(key, files) /\ DOMAIN files \subseteq DOMAIN key /\ Backed(key, files)
    BY <2>1, <2>2 DEF CatalogInv, ReaderBacked
  <2> DEFINE new == With(files, p, rows)
  <2>4. /\ DOMAIN new = DOMAIN files \cup {p} /\ new = [q \in DOMAIN new |-> new[q]]
        /\ new[p] = rows /\ \A q \in DOMAIN files \ {p} : new[q] = files[q]
    BY DEF With
  <2>5. reader' = [Reading(key, files) EXCEPT !.files = new]
    BY <1>1, <1>3, <2>1, <2>3
  <2> HIDE DEF new
  <2>6. reader' = Reading(key, new) /\ reader'.key = key /\ reader'.files = new
    BY <2>5 DEF Reading
  <2>7. UNCHANGED <<disk, clock>> /\ p \in DOMAIN key
    BY <2>1 DEF LoadRead, Unread
  <2>8. Backed(key, new)
    <3>1. \A q \in DOMAIN new : q \in DOMAIN disk /\ disk[q].mtime = key[q][1] =>
              Readable(disk, q) /\ new[q] = disk[q].doc.models
      <4>1. ASSUME NEW q \in DOMAIN files \ {p}, q \in DOMAIN disk, disk[q].mtime = key[q][1]
            PROVE  Readable(disk, q) /\ new[q] = disk[q].doc.models
        BY <2>3, <2>4, <4>1 DEF Backed
      <4>2. Readable(disk, p) /\ new[p] = disk[p].doc.models
        BY <1>3, <2>1, <2>4
      <4> QED BY <2>4, <4>1, <4>2
    <3> QED BY <2>3, <2>4, <3>1 DEF Backed
  <2>9. Backed(key, new)'
    BY <2>7, <2>8 DEF Backed, Readable
  <2> QED BY <2>3, <2>4, <2>6, <2>7, <2>9 DEF ReaderBacked
<1> QED BY <1>2, <1>3

\* What a load that has read all its files keeps is made of them.
LEMMA EndBacked ==
    ASSUME CatalogInv, LoadEnd
    PROVE  CacheBacked'
<1>1. PICK key, files : key = reader.key /\ files = reader.files
  OBVIOUS
<1>2. reader # NoRun
  BY DEF LoadEnd, NoRun
<1>3. DOMAIN files = DOMAIN key /\ Backed(key, files)
  BY <1>1, <1>2 DEF CatalogInv, ReaderBacked, LoadEnd, Unread
<1>4. PICK kept : /\ cache' = With(kept, key, ById(files))
                  /\ kept = <<>> \/ kept = cache
  BY <1>1 DEF LoadEnd
<1>5. /\ DOMAIN cache' = DOMAIN kept \cup {key} /\ cache' = [k \in DOMAIN cache' |-> cache'[k]]
      /\ cache'[key] = ById(files) /\ \A k \in DOMAIN kept \ {key} : cache'[k] = kept[k]
  BY <1>4 DEF With
<1>6. UNCHANGED <<disk, clock>>
  BY DEF LoadEnd
<1>7. ASSUME NEW k \in DOMAIN cache'
      PROVE  \E f : DOMAIN f = DOMAIN k /\ cache'[k] = ById(f) /\ Backed(k, f)
  <2>1. CASE k = key
    BY <1>3, <1>5, <2>1
  <2>2. CASE k # key
    <3>1. k \in DOMAIN kept /\ cache'[k] = kept[k]
      BY <1>5, <1>7, <2>2
    <3>2. k \in DOMAIN cache /\ cache'[k] = cache[k]
      BY <1>4, <3>1
    <3> QED BY <3>2 DEF CatalogInv, CacheBacked, Made
  <2> QED BY <2>1, <2>2
<1>8. ASSUME NEW k, NEW f, Backed(k, f)
      PROVE  Backed(k, f)'
  BY <1>6, <1>8 DEF Backed, Readable
<1> QED BY <1>5, <1>7, <1>8 DEF CacheBacked, Made

LEMMA CatalogInvInit == CatalogInit => CatalogInv
<1> SUFFICES ASSUME CatalogInit PROVE CatalogInv
  OBVIOUS
<1>1. Dated
  BY DEF CatalogInit, Dated
<1>2. ReaderBacked
  BY DEF CatalogInit, ReaderBacked
<1>3. CacheBacked
  <2>1. DOMAIN <<>> = {} /\ <<>> = [p \in DOMAIN <<>> |-> <<>>[p]]
    OBVIOUS
  <2> QED BY <2>1 DEF CatalogInit, CacheBacked
<1> QED BY <1>1, <1>2, <1>3 DEF CatalogInv

LEMMA CatalogInvStep == CatalogInv /\ [CatalogNext]_catvars => CatalogInv'
<1> SUFFICES ASSUME CatalogInv, [CatalogNext]_catvars PROVE CatalogInv'
  OBVIOUS
<1>1. DiskStep
  BY StepIsDiskStep DEF CatalogInv
<1>2. Dated'
  BY <1>1, StaysDated DEF CatalogInv
<1>3. CASE LoadBegin
  <2>1. cache' = cache
    BY <1>3 DEF LoadBegin
  <2> QED BY <1>1, <1>2, <1>3, <2>1, BeginBacked, CacheStays DEF CatalogInv
<1>4. CASE LoadRead
  <2>1. cache' = cache
    BY <1>4 DEF LoadRead
  <2> QED BY <1>1, <1>2, <1>4, <2>1, ReadBacked, CacheStays DEF CatalogInv
<1>5. CASE LoadEnd
  <2>1. reader' = NoRun
    BY <1>5 DEF LoadEnd
  <2> QED BY <1>2, <1>5, <2>1, EndBacked DEF CatalogInv, ReaderBacked
<1>6. CASE \/ DropIn \/ TakeOut \/ Adding \/ Review \/ Apply
           \/ Watched /\ ~Reboot
           \/ UNCHANGED catvars
  <2>1. reader' = reader /\ cache' = cache
    BY <1>6 DEF DropIn, TakeOut, Adding, AddTruncate, AddWrite, AddKilled, Review, Apply,
       Watched, Watch, WatchBegin, RunByHand, StartService, WatchReads, WatchTruncates,
       WatchWrites, WatchEnd, WatchFetchFails, WatchKilled, Discard, catvars
  <2> QED BY <1>1, <1>2, <2>1, ReaderStays, CacheStays DEF CatalogInv
<1>7. CASE Reboot
  <2>1. reader' = NoRun /\ cache' = <<>>
    BY <1>7 DEF Reboot
  <2> QED BY <1>2, <2>1 DEF CatalogInv, ReaderBacked, CacheBacked
<1> QED BY <1>3, <1>4, <1>5, <1>6, <1>7 DEF CatalogNext, Maintained, Load

\* What is kept under the fingerprint of the disk was read from it.
LEMMA KeptIsCurrent == CatalogInv => CacheIsCurrent
<1> SUFFICES ASSUME CatalogInv, Fingerprint(disk) \in DOMAIN cache,
                    Sources(disk) \subseteq DOMAIN disk
             PROVE  Loadable(disk) /\ cache[Fingerprint(disk)] = Loaded(disk)
  BY DEF CacheIsCurrent
<1>1. PICK key : key = Fingerprint(disk)
  OBVIOUS
<1>2. DOMAIN key = Sources(disk) /\ \A p \in Sources(disk) : key[p][1] = disk[p].mtime
  BY <1>1 DEF Fingerprint
<1>3. PICK files : DOMAIN files = DOMAIN key /\ cache[key] = ById(files) /\ Backed(key, files)
  BY <1>1 DEF CatalogInv, CacheBacked, Made
<1>4. \A p \in Sources(disk) : Readable(disk, p) /\ files[p] = disk[p].doc.models
  BY <1>2, <1>3 DEF Backed
<1>5. files = [p \in Sources(disk) |-> disk[p].doc.models]
  <2>1. files = [p \in Sources(disk) |-> files[p]]
    BY <1>2, <1>3 DEF Backed
  <2> QED BY <1>4, <2>1
<1> QED BY <1>1, <1>3, <1>4, <1>5 DEF Loadable, Loaded

\* What the server answers from its cache is what its catalogue's files say
\* now, however they were written, replaced and removed while it was reading
\* them (load, _fingerprint and _CACHE of catalog.py).
THEOREM CacheCurrent == CatalogSpec => []CacheIsCurrent
BY CatalogInvInit, CatalogInvStep, KeptIsCurrent, PTL DEF CatalogSpec

-----------------------------------------------------------------------------
(* The catalogue: what a review confirms of an entry, its update writes.   *)

\* Rows with the fields that a review compares.
Comparable(rows) ==
    \A i \in DOMAIN rows : SOLVER_FIELDS \cup {"verified"} \subseteq DOMAIN rows[i]

\* The built-in file is there, what is being added is named for its repo, and
\* what is proposed was proposed of an entry reviewed.
ReviewInv ==
    /\ BuiltIn \in DOMAIN disk /\ Comparable(disk[BuiltIn].doc.models)
    /\ adder # NoRun => adder.row.id \in {repo.name : repo \in DOMAIN Configs}
    /\ updater # NoRun => \A p \in updater.proposals : \E s \in updater.specs : p = Propose(s)

\* Who writes another file leaves the built-in one.
LEMMA OthersStay ==
    ASSUME BuiltIn \in DOMAIN disk, NEW p, p # BuiltIn, NEW doc, Write(p, doc)
    PROVE  BuiltIn \in DOMAIN disk' /\ disk'[BuiltIn] = disk[BuiltIn]
BY DEF Write, With

\* A row as its own proposal leaves it says what its config says.
LEMMA RevisedConfirms ==
    ASSUME NEW row, SOLVER_FIELDS \cup {"verified"} \subseteq DOMAIN row,
           NEW r, r = IF HasChanges(Propose(row)) THEN Revised(row, Propose(row)) ELSE row
    PROVE  r.verified /\ \A f \in SOLVER_FIELDS : r[f] = ParseConfig(Configs[row.repo])[f]
<1>1. PICK arch : arch = ParseConfig(Configs[row.repo])
  OBVIOUS
<1>2. PICK p : p = Propose(row)
  OBVIOUS
<1>3. /\ p.changes = {<<f, arch[f]>> : f \in {g \in SOLVER_FIELDS : row[g] # arch[g]}}
      /\ p.now_verified = ~row.verified
  BY <1>1, <1>2 DEF Propose
<1>4. \A f \in SOLVER_FIELDS : row[f] # arch[f] =>
          (\E c \in p.changes : c[1] = f) /\ \A c \in p.changes : c[1] = f => c[2] = arch[f]
  <2> SUFFICES ASSUME NEW f \in SOLVER_FIELDS, row[f] # arch[f]
               PROVE  /\ \E c \in p.changes : c[1] = f
                      /\ \A c \in p.changes : c[1] = f => c[2] = arch[f]
    OBVIOUS
  <2>1. <<f, arch[f]>> \in p.changes /\ <<f, arch[f]>>[1] = f
    BY <1>3
  <2>2. ASSUME NEW c \in p.changes, c[1] = f PROVE c[2] = arch[f]
    <3>1. PICK g : c = <<g, arch[g]>>
      BY <1>3
    <3> QED BY <2>2, <3>1
  <2> QED BY <2>1, <2>2
<1>5. \A f \in SOLVER_FIELDS : row[f] = arch[f] => ~\E c \in p.changes : c[1] = f
  BY <1>3
<1>6. "verified" \notin SOLVER_FIELDS
  BY DEF SOLVER_FIELDS
<1>7. CASE HasChanges(p)
  <2>1. r = Revised(row, p)
    BY <1>2, <1>7
  <2>2. r.verified
    BY <1>3, <2>1 DEF Revised
  <2>3. \A f \in SOLVER_FIELDS : r[f] = arch[f]
    BY <1>4, <1>5, <1>6, <2>1 DEF Revised
  <2> QED BY <1>1, <2>2, <2>3
<1>8. CASE ~HasChanges(p)
  <2>1. r = row /\ p.changes = {} /\ ~p.now_verified
    BY <1>2, <1>8 DEF HasChanges
  <2>2. r.verified
    BY <1>3, <2>1
  <2>3. \A f \in SOLVER_FIELDS : row[f] = arch[f]
    BY <1>4, <2>1
  <2> QED BY <1>1, <2>1, <2>2, <2>3
<1> QED BY <1>7, <1>8

\* What is written over the i-th row.
ProposedOf(row, proposals) == {p \in proposals : p.id = row.id /\ HasChanges(p)}
AppliedRow(rows, i, proposals) ==
    IF ProposedOf(rows[i], proposals) = {} \/ ~LastOfId(rows, i) THEN rows[i]
    ELSE Revised(rows[i], CHOOSE p \in ProposedOf(rows[i], proposals) : TRUE)

\* What an update makes of the rows it finds.
LEMMA AppliedRows ==
    ASSUME NEW rows, Comparable(rows), NEW proposals, NEW now, now = Applied(rows, proposals)
    PROVE  /\ DOMAIN now = DOMAIN rows /\ Comparable(now)
           /\ \A i \in DOMAIN rows : now[i] = AppliedRow(rows, i, proposals)
<1>1. \A row, p : DOMAIN Revised(row, p) = DOMAIN row
  BY DEF Revised
<1>2. \A i \in DOMAIN rows : now[i] = rows[i] \/ \E p : now[i] = Revised(rows[i], p)
  BY DEF Applied
<1>3. DOMAIN now = DOMAIN rows
  BY DEF Applied
<1>4. Comparable(now)
  BY <1>1, <1>2, <1>3 DEF Comparable
<1> QED BY <1>3, <1>4 DEF Applied, AppliedRow, ProposedOf

\* No other step than an update writes the built-in file.
LEMMA BuiltInStays ==
    ASSUME ReviewInv, [CatalogNext]_catvars, ~Apply
    PROVE  BuiltIn \in DOMAIN disk' /\ disk'[BuiltIn] = disk[BuiltIn]
<1>1. CASE DropIn
  <2>1. PICK p \in Range(DropInFiles) \cup Range(EnvFiles), doc \in Documents : Write(p, doc)
    BY <1>1 DEF DropIn
  <2>2. p # BuiltIn
    BY CatalogAssumption
  <2> QED BY <2>1, <2>2, OthersStay DEF ReviewInv
<1>2. CASE TakeOut
  <2>1. PICK p \in DOMAIN disk \ {BuiltIn} : disk' = [q \in DOMAIN disk \ {p} |-> disk[q]]
    BY <1>2 DEF TakeOut
  <2> QED BY <2>1 DEF ReviewInv
<1>3. CASE AddTruncate
  <2>1. PICK repo \in DOMAIN Configs : Write(repo.name, Torn)
    BY <1>3 DEF AddTruncate
  <2>2. repo.name # BuiltIn
    BY CatalogAssumption
  <2> QED BY <2>1, <2>2, OthersStay DEF ReviewInv
<1>4. CASE AddWrite
  <2>1. adder # NoRun /\ Write(adder.row.id, [parses |-> TRUE, models |-> <<adder.row>>])
    BY <1>4 DEF AddWrite, NoRun
  <2>2. adder.row.id # BuiltIn
    BY <2>1, CatalogAssumption DEF ReviewInv
  <2> QED BY <2>1, <2>2, OthersStay DEF ReviewInv
<1>5. CASE UNCHANGED disk
  BY <1>5 DEF ReviewInv
<1> QED
  BY <1>1, <1>2, <1>3, <1>4, <1>5 DEF CatalogNext, Maintained, Load, LoadBegin, LoadRead, LoadEnd,
     Adding, AddKilled, Review, Watched, Watch, WatchBegin, RunByHand, StartService, WatchReads,
     WatchTruncates, WatchWrites, WatchEnd, WatchFetchFails, WatchKilled, Discard, Reboot, catvars

\* An update writes the built-in file, or nothing.
LEMMA ApplyWrites ==
    ASSUME ReviewInv, Apply
    PROVE  \/ disk' = disk
           \/ /\ BuiltIn \in DOMAIN disk'
              /\ disk'[BuiltIn].doc.models =
                    Applied(disk[BuiltIn].doc.models,
                            {p \in updater.proposals : HasChanges(p) /\
                                p.id \in {disk[BuiltIn].doc.models[i].id :
                                             i \in DOMAIN disk[BuiltIn].doc.models}})
BY DEF Apply, Write, With, ReviewInv

\* It holds at first.
LEMMA ReviewInvInit == CatalogInit => ReviewInv
<1> SUFFICES ASSUME CatalogInit PROVE ReviewInv
  OBVIOUS
<1>1. BuiltIn \in DOMAIN disk /\ disk[BuiltIn].doc.models = Shipped
  BY DEF CatalogInit
<1>2. Comparable(Shipped)
  BY CatalogAssumption DEF Comparable
<1> QED BY <1>1, <1>2 DEF CatalogInit, ReviewInv

\* Every step keeps it: only an update writes the built-in file, and it keeps the
\* fields of its rows.
LEMMA ReviewInvStep == ReviewInv /\ [CatalogNext]_catvars => ReviewInv'
<1> SUFFICES ASSUME ReviewInv, [CatalogNext]_catvars PROVE ReviewInv'
  OBVIOUS
<1>1. BuiltIn \in DOMAIN disk' /\ Comparable(disk'[BuiltIn].doc.models)
  <2>1. CASE Apply
    <3>1. PICK rows, found : /\ rows = disk[BuiltIn].doc.models
                             /\ disk' = disk \/ (BuiltIn \in DOMAIN disk'
                                    /\ disk'[BuiltIn].doc.models = Applied(rows, found))
      BY <2>1, ApplyWrites
    <3> QED BY <3>1, AppliedRows DEF ReviewInv
  <2>2. CASE ~Apply
    BY <2>2, BuiltInStays DEF ReviewInv
  <2> QED BY <2>1, <2>2
<1>2. adder' # NoRun => adder'.row.id \in {repo.name : repo \in DOMAIN Configs}
  <2>1. CASE AddTruncate
    <3>1. PICK repo \in DOMAIN Configs, args \in AddArgs :
              adder' = [at |-> "writing", row |-> AddedRow(repo, args)]
      BY <2>1 DEF AddTruncate
    <3>2. AddedRow(repo, args).id = repo.name
      BY DEF AddedRow
    <3>3. adder'.row = AddedRow(repo, args)
      BY <3>1
    <3> QED BY <3>2, <3>3
  <2>2. CASE adder' = NoRun
    BY <2>2
  <2>3. CASE adder' = adder
    BY <2>3 DEF ReviewInv
  <2> QED
    BY <2>1, <2>2, <2>3 DEF CatalogNext, Maintained, Load, LoadBegin, LoadRead, LoadEnd,
       DropIn, TakeOut, Adding, AddWrite, AddKilled, Review, Apply, Watched, Watch, WatchBegin,
       RunByHand, StartService, WatchReads, WatchTruncates, WatchWrites, WatchEnd,
       WatchFetchFails, WatchKilled, Discard, Reboot, catvars
<1>3. updater' # NoRun => \A p \in updater'.proposals : \E s \in updater'.specs : p = Propose(s)
  <2>1. CASE Review
    <3>1. PICK specs, some : /\ some \subseteq specs
                             /\ updater' = [at |-> "reviewed", specs |-> specs,
                                            proposals |-> {Propose(row) : row \in some}]
      <4>1. PICK failed \in SUBSET DOMAIN Configs :
                LET specs == {r \in Range(Loaded(disk)) : r.repo # NoRepo}
                IN  updater' = [at |-> "reviewed", specs |-> specs, proposals |->
                       {Propose(row) : row \in {r \in specs :
                           r.repo \in DOMAIN Configs \ failed /\ ~ConfigError(Configs[r.repo])}}]
        BY <2>1 DEF Review
      <4>2. PICK all : all = {r \in Range(Loaded(disk)) : r.repo # NoRepo}
        OBVIOUS
      <4>3. PICK some : some = {r \in all : r.repo \in DOMAIN Configs \ failed
                                            /\ ~ConfigError(Configs[r.repo])}
        OBVIOUS
      <4>4. updater' = [at |-> "reviewed", specs |-> all,
                        proposals |-> {Propose(row) : row \in some}]
        BY <4>1, <4>2, <4>3
      <4> QED BY <4>3, <4>4
    <3>2. updater'.specs = specs /\ updater'.proposals = {Propose(row) : row \in some}
      BY <3>1
    <3> QED BY <3>1, <3>2
  <2>2. CASE updater' = NoRun
    BY <2>2
  <2>3. CASE updater' = updater
    BY <2>3 DEF ReviewInv
  <2> QED
    BY <2>1, <2>2, <2>3 DEF CatalogNext, Maintained, Load, LoadBegin, LoadRead, LoadEnd,
       DropIn, TakeOut, Adding, AddTruncate, AddWrite, AddKilled, Apply, Watched, Watch,
       WatchBegin, RunByHand, StartService, WatchReads, WatchTruncates, WatchWrites, WatchEnd,
       WatchFetchFails, WatchKilled, Discard, Reboot, catvars
<1> QED BY <1>1, <1>2, <1>3 DEF ReviewInv

\* It is an update that writes the built-in file, and what it writes over a row
\* was found of that row.
LEMMA UpdatesConfirm == ReviewInv /\ [CatalogNext]_catvars => [UpdateConfirms]_catvars
<1> SUFFICES ASSUME ReviewInv, [CatalogNext]_catvars, updater # NoRun,
                    disk'[BuiltIn] # disk[BuiltIn]
             PROVE  UpdateConfirms
  BY DEF UpdateConfirms
<1>1. Apply
  BY BuiltInStays
<1>2. PICK rows, now : rows = disk[BuiltIn].doc.models /\ now = disk'[BuiltIn].doc.models
  OBVIOUS
<1>3. PICK found : found = {p \in updater.proposals :
                               HasChanges(p) /\ p.id \in {rows[i].id : i \in DOMAIN rows}}
  OBVIOUS
<1>4. now = Applied(rows, found)
  <2>1. disk' # disk
    OBVIOUS
  <2> QED BY <1>1, <1>2, <1>3, <2>1, ApplyWrites
<1>5. /\ DOMAIN now = DOMAIN rows
      /\ \A i \in DOMAIN rows : now[i] = AppliedRow(rows, i, found)
  <2>1. Comparable(rows)
    BY <1>2 DEF ReviewInv
  <2> QED BY <1>4, <2>1, AppliedRows
<1>6. ASSUME NEW i \in DOMAIN rows, \A p \in updater.proposals : p.id # rows[i].id
      PROVE  now[i] = rows[i]
  <2>1. ProposedOf(rows[i], found) = {}
    BY <1>3, <1>6 DEF ProposedOf
  <2> QED BY <1>5, <2>1 DEF AppliedRow
<1>7. ASSUME NEW i \in DOMAIN rows, WasReviewed(rows, i)
      PROVE  now[i].verified /\ \A f \in SOLVER_FIELDS :
                 now[i][f] = ParseConfig(Configs[rows[i].repo])[f]
  <2>1. PICK row, r : row = rows[i] /\ r = now[i]
    OBVIOUS
  <2>2. /\ LastOfId(rows, i) /\ \E p \in updater.proposals : p.id = row.id
        /\ \A s \in updater.specs : s.id = row.id => s = row
    BY <1>7, <2>1 DEF WasReviewed
  <2>3. \A p \in updater.proposals : p.id = row.id => p = Propose(row)
    <3>1. \A s : Propose(s).id = s.id
      BY DEF Propose
    <3> QED BY <2>2, <3>1 DEF ReviewInv
  <2>4. Propose(row) \in updater.proposals /\ Propose(row).id = row.id
    BY <2>2, <2>3
  <2>5. PICK mine : mine = ProposedOf(row, found)
    OBVIOUS
  <2>6. mine = IF HasChanges(Propose(row)) THEN {Propose(row)} ELSE {}
    BY <1>3, <2>1, <2>3, <2>4, <2>5 DEF ProposedOf
  <2>7. r = IF mine = {} THEN row ELSE Revised(row, CHOOSE p \in mine : TRUE)
    BY <1>5, <2>1, <2>2, <2>5 DEF AppliedRow
  <2>8. r = IF HasChanges(Propose(row)) THEN Revised(row, Propose(row)) ELSE row
    BY <2>6, <2>7
  <2>9. SOLVER_FIELDS \cup {"verified"} \subseteq DOMAIN row
    BY <1>2, <2>1 DEF ReviewInv, Comparable
  <2>10. r.verified /\ \A f \in SOLVER_FIELDS : r[f] = ParseConfig(Configs[row.repo])[f]
    BY <2>8, <2>9, RevisedConfirms
  <2> QED BY <2>1, <2>10
<1> QED BY <1>2, <1>5, <1>6, <1>7 DEF UpdateConfirms

\* A person who applies a review gets what was reviewed: every entry of which a
\* proposal was made says what its published config says, whatever was put in,
\* added or taken out in the meantime, and no other entry is touched (propose,
\* apply_proposals and cmd_catalog).
THEOREM UpdatesAreReviewed == CatalogSpec => AppliedIsConfirmed
<1>1. CatalogSpec => []ReviewInv
  BY ReviewInvInit, ReviewInvStep, PTL DEF CatalogSpec
<1> QED BY <1>1, UpdatesConfirm, PTL DEF CatalogSpec, AppliedIsConfirmed

-----------------------------------------------------------------------------
(* The MCP server: every request it takes has one reply, in order, and     *)
(* nothing else has one that names a request.                              *)

\* What stands on stdin and on stdout, and what the server has in hand.
Reads ==
    /\ sent \in Seq(Wire) /\ taken \in 0..Len(sent)
    /\ current # <<>> =>
          taken \in 1..Len(sent) /\ current = <<sent[taken]>> /\ IsRequest(sent[taken])
    /\ replies \in Seq(Range(replies))

\* The inductive invariant of the server.
RepliesInv == Reads /\ RepliesMatchRequests

\* A sequence of some elements is one of its own.
LEMMA OfItsOwn ==
    ASSUME NEW S, NEW s \in Seq(S)
    PROVE  s \in Seq(Range(s))
<1>1. PICK n \in Nat : s \in [1..n -> S]
  BY SeqDef
<1>2. s \in [1..n -> Range(s)]
  BY <1>1 DEF Range
<1> QED BY <1>2, SeqDef

\* The replies, with one more.
LEMMA OneReplyMore ==
    ASSUME replies \in Seq(Range(replies)), NEW r, replies' = Append(replies, r)
    PROVE  /\ replies' \in Seq(Range(replies'))
           /\ Len(replies) \in Nat /\ DOMAIN replies = 1..Len(replies)
           /\ DOMAIN replies' = 1..(Len(replies) + 1)
           /\ \A i \in DOMAIN replies : replies'[i] = replies[i]
           /\ replies'[Len(replies) + 1] = r
<1>1. PICK s : s = replies
  OBVIOUS
<1>2. PICK S : S = Range(s)
  OBVIOUS
<1>3. s \in Seq(S)
  BY <1>1, <1>2
<1>4. PICK t : t = Append(s, r)
  OBVIOUS
<1>5. replies' = t
  BY <1>1, <1>4
<1>6. PICK T : T = S \cup {r}
  OBVIOUS
<1>7. s \in Seq(T) /\ r \in T
  <2>1. PICK n \in Nat : s \in [1..n -> S]
    BY <1>3, SeqDef
  <2>2. s \in [1..n -> T]
    BY <1>6, <2>1
  <2> QED BY <1>6, <2>2, SeqDef
<1>8. t \in Seq(T)
  BY <1>4, <1>7, AppendProperties
<1>9. t \in Seq(Range(t))
  BY <1>8, OfItsOwn
<1>10. Len(s) \in Nat /\ DOMAIN s = 1..Len(s)
  BY <1>3
<1>11. Len(t) = Len(s) + 1 /\ DOMAIN t = 1..Len(t)
  BY <1>4, <1>7, <1>8, AppendProperties
<1>12. (\A i \in 1..Len(s) : t[i] = s[i]) /\ t[Len(s) + 1] = r
  BY <1>4, <1>7, AppendProperties
<1> QED BY <1>1, <1>5, <1>9, <1>10, <1>11, <1>12

\* What changes neither what is owed nor what was got keeps the two in step.
LEMMA StillInOrder ==
    ASSUME RepliesMatchRequests, Owed' = Owed, Got' = Got,
           \A i \in Owed : sent'[i] = sent[i],
           \A j \in Got : replies'[j] = replies[j]
    PROVE  RepliesMatchRequests'
<1>1. PICK f \in [Got -> Owed] : InOrder(f)
  BY DEF RepliesMatchRequests
<1>2. \A j \in Got : f[j] \in Owed
  OBVIOUS
<1>3. {f[j] : j \in Got'} = Owed' /\ \A j, k \in Got' : j < k => f[j] < f[k]
  BY <1>1 DEF InOrder
<1>4. \A j \in Got' : RepliesTo(replies'[j], sent'[f[j]])
  BY <1>1, <1>2 DEF InOrder
<1> QED BY <1>3, <1>4 DEF RepliesMatchRequests, InOrder

\* What a client sends leaves what is owed and what was answered.
LEMMA SendMatches == RepliesInv /\ Send => RepliesInv'
<1> SUFFICES ASSUME RepliesInv, Send PROVE RepliesInv'
  OBVIOUS
<1>1. PICK item \in Wire : sent' = Append(sent, item)
  BY DEF Send
<1>2. UNCHANGED <<taken, current, replies>>
  BY DEF Send
<1>3. /\ sent' \in Seq(Wire) /\ Len(sent') = Len(sent) + 1 /\ Len(sent) \in Nat
      /\ \A i \in 1..Len(sent) : sent'[i] = sent[i]
  BY <1>1, AppendProperties DEF RepliesInv, Reads
<1>4. taken \in 0..Len(sent) /\ \A i \in 1..taken : sent'[i] = sent[i]
  BY <1>3 DEF RepliesInv, Reads
<1>5. Reads'
  <2>1. taken' \in 0..Len(sent')
    BY <1>2, <1>3, <1>4
  <2>2. current' # <<>> => taken' \in 1..Len(sent') /\ current' = <<sent'[taken']>>
                           /\ IsRequest(sent'[taken'])
    BY <1>2, <1>3, <1>4 DEF RepliesInv, Reads
  <2> QED BY <1>2, <1>3, <2>1, <2>2 DEF RepliesInv, Reads
<1>6. Owed' = Owed /\ Got' = Got
  BY <1>2, <1>4 DEF Owed, Got
<1>7. Owed \subseteq 1..taken
  BY DEF Owed
<1>8. RepliesMatchRequests'
  BY <1>2, <1>4, <1>6, <1>7, StillInOrder DEF RepliesInv
<1> QED BY <1>5, <1>8 DEF RepliesInv

\* Taking a message owes nothing yet; an empty array is answered, but names no request.
LEMMA ReadMatches == RepliesInv /\ ReadMessage => RepliesInv'
<1> SUFFICES ASSUME RepliesInv, ReadMessage PROVE RepliesInv'
  OBVIOUS
<1>1. PICK item : item = sent[taken + 1]
  OBVIOUS
<1>2. /\ current = <<>> /\ taken < Len(sent) /\ taken' = taken + 1 /\ sent' = sent
      /\ replies' = IF item.body = "empty array"
                    THEN Append(replies, Reply(item, NoId, "-32603")) ELSE replies
      /\ current' = IF item.body = "object" /\ item.id # NoId THEN <<item>> ELSE <<>>
  BY <1>1 DEF ReadMessage
<1>3. /\ sent \in Seq(Wire) /\ Len(sent) \in Nat /\ taken \in 0..Len(sent)
      /\ replies \in Seq(Range(replies)) /\ RepliesMatchRequests
  BY DEF RepliesInv, Reads
<1>4. replies' \in Seq(Range(replies')) /\ Got' = Got /\ \A j \in Got : replies'[j] = replies[j]
  <2>1. CASE item.body = "empty array"
    <3>1. PICK r : r = Reply(item, NoId, "-32603")
      OBVIOUS
    <3>2. r.id = NoId
      BY <3>1 DEF Reply
    <3>3. /\ replies' \in Seq(Range(replies'))
          /\ Len(replies) \in Nat /\ DOMAIN replies = 1..Len(replies)
          /\ DOMAIN replies' = 1..(Len(replies) + 1)
          /\ \A i \in DOMAIN replies : replies'[i] = replies[i]
          /\ replies'[Len(replies) + 1] = r
      <4>1. replies' = Append(replies, r)
        BY <1>2, <2>1, <3>1
      <4> QED BY <1>3, <4>1, OneReplyMore
    <3> QED BY <3>2, <3>3 DEF Got
  <2>2. CASE item.body # "empty array"
    BY <1>2, <1>3, <2>2 DEF Got
  <2> QED BY <2>1, <2>2
<1>5. IsRequest(item) <=> current' # <<>>
  BY <1>2 DEF IsRequest
<1>6. Reads'
  <2>1. taken' \in 0..Len(sent') /\ taken' \in 1..Len(sent')
    <3>1. taken \in 0..Len(sent) /\ taken < Len(sent) /\ Len(sent) \in Nat
      BY <1>2, <1>3
    <3>2. taken + 1 \in 0..Len(sent) /\ taken + 1 \in 1..Len(sent)
      BY <3>1
    <3>3. taken' = taken + 1 /\ sent' = sent
      BY <1>2
    <3> QED BY <3>2, <3>3
  <2>2. current' # <<>> => current' = <<sent'[taken']>>
    BY <1>1, <1>2
  <2> QED BY <1>1, <1>2, <1>3, <1>4, <1>5, <2>1, <2>2 DEF Reads
<1>7. Owed' = Owed
  <2>1. Owed = {i \in 1..taken : IsRequest(sent[i])}
    BY <1>2 DEF Owed
  <2>2. 1..(taken + 1) = 1..taken \cup {taken + 1} /\ taken + 1 \notin 1..taken
    BY <1>3
  <2>3. Owed' = {i \in 1..(taken + 1) : IsRequest(sent[i])}
                 \ (IF current' = <<>> THEN {} ELSE {taken + 1})
    BY <1>2 DEF Owed
  <2>4. IsRequest(sent[taken + 1]) <=> current' # <<>>
    BY <1>1, <1>5
  <2> QED BY <2>1, <2>2, <2>3, <2>4
<1>8. RepliesMatchRequests'
  BY <1>2, <1>3, <1>4, <1>7, StillInOrder
<1> QED BY <1>6, <1>8 DEF RepliesInv

\* The reply to the request in hand is the last of both.
LEMMA AnswerMatches == RepliesInv /\ AnswerRequest => RepliesInv'
<1> SUFFICES ASSUME RepliesInv, AnswerRequest PROVE RepliesInv'
  OBVIOUS
<1>1. PICK item : item = sent[taken]
  OBVIOUS
<1>2. /\ current = <<item>> /\ current # <<>> /\ IsRequest(item)
      /\ sent \in Seq(Wire) /\ Len(sent) \in Nat /\ taken \in 1..Len(sent)
      /\ replies \in Seq(Range(replies))
  BY <1>1 DEF RepliesInv, Reads, AnswerRequest
<1>3. PICK r : r = Reply(item, item.id, Handle(tree, item))
  OBVIOUS
<1>4. current[1] = item
  BY <1>2
<1>5. /\ replies' = Append(replies, r) /\ current' = <<>> /\ sent' = sent /\ taken' = taken
  BY <1>3, <1>4 DEF AnswerRequest
<1>6. RepliesTo(r, item) /\ r.id # NoId
  BY <1>2, <1>3 DEF RepliesTo, Reply, IsRequest
<1> DEFINE n == Len(replies) + 1
<1>7. /\ replies' \in Seq(Range(replies'))
      /\ DOMAIN replies = 1..Len(replies) /\ DOMAIN replies' = 1..n /\ n \in Nat
      /\ \A i \in DOMAIN replies : replies'[i] = replies[i] /\ i < n
      /\ replies'[n] = r
  <2>1. /\ replies' \in Seq(Range(replies'))
        /\ Len(replies) \in Nat /\ DOMAIN replies = 1..Len(replies)
        /\ DOMAIN replies' = 1..n
        /\ \A i \in DOMAIN replies : replies'[i] = replies[i]
        /\ replies'[n] = r
    BY <1>2, <1>5, OneReplyMore
  <2> QED BY <2>1
<1>8. Reads'
  BY <1>2, <1>5, <1>7 DEF Reads
<1>9. Got' = Got \cup {n} /\ n \notin Got /\ \A j \in Got : j < n /\ replies'[j] = replies[j]
      /\ Got \subseteq Nat
  <2>1. DOMAIN replies' = DOMAIN replies \cup {n}
    BY <1>7
  <2> HIDE DEF n
  <2>2. Got' = Got \cup {n}
    BY <1>6, <1>7, <2>1 DEF Got
  <2> QED BY <1>7, <2>2 DEF Got
<1> HIDE DEF n
<1>10. Owed' = Owed \cup {taken} /\ taken \in Nat /\ \A i \in Owed : i \in Nat /\ i < taken
  <2>1. Owed = {i \in 1..taken : IsRequest(sent[i])} \ {taken}
    BY <1>2 DEF Owed
  <2>2. Owed' = {i \in 1..taken : IsRequest(sent[i])}
    BY <1>5 DEF Owed
  <2> QED BY <1>1, <1>2, <2>1, <2>2
<1>11. PICK f \in [Got -> Owed] : InOrder(f)
  BY DEF RepliesInv, RepliesMatchRequests
<1>12. PICK g : g = [j \in Got' |-> IF j = n THEN taken ELSE f[j]]
  OBVIOUS
<1>13. /\ g \in [Got' -> Owed'] /\ g[n] = taken
       /\ \A j \in Got : g[j] = f[j] /\ f[j] \in Owed
  BY <1>9, <1>10, <1>12
<1>14. {g[j] : j \in Got'} = Owed'
  BY <1>9, <1>10, <1>11, <1>13 DEF InOrder
<1>15. \A j, k \in Got' : j < k => g[j] < g[k]
  <2> SUFFICES ASSUME NEW j \in Got', NEW k \in Got', j < k PROVE g[j] < g[k]
    OBVIOUS
  <2>1. CASE j \in Got /\ k \in Got
    BY <1>11, <1>13, <2>1 DEF InOrder
  <2>2. CASE j \in Got /\ k = n
    BY <1>10, <1>13, <2>2
  <2>3. CASE j = n
    BY <1>7, <1>9, <2>3
  <2> QED BY <1>9, <2>1, <2>2, <2>3
<1>16. \A j \in Got' : RepliesTo(replies'[j], sent'[g[j]])
  BY <1>1, <1>5, <1>6, <1>7, <1>9, <1>11, <1>13 DEF InOrder
<1>17. RepliesMatchRequests'
  BY <1>13, <1>14, <1>15, <1>16 DEF RepliesMatchRequests, InOrder
<1> QED BY <1>8, <1>17 DEF RepliesInv

\* Every step of the server, of its client and of who writes the root.
LEMMA RepliesInvStep == RepliesInv /\ [McpNext]_mvars => RepliesInv'
<1> SUFFICES ASSUME RepliesInv, [McpNext]_mvars PROVE RepliesInv'
  OBVIOUS
<1>1. CASE UNCHANGED <<sent, taken, current, replies>>
  <2>1. Owed' = Owed /\ Got' = Got
    BY <1>1 DEF Owed, Got
  <2>2. RepliesMatchRequests'
    BY <1>1, <2>1, StillInOrder DEF RepliesInv
  <2> QED BY <1>1, <2>2 DEF RepliesInv, Reads
<1>2. CASE EditRoot
  BY <1>1, <1>2 DEF EditRoot
<1>3. CASE UNCHANGED mvars
  BY <1>1, <1>3 DEF mvars
<1> QED BY <1>2, <1>3, SendMatches, ReadMatches, AnswerMatches DEF McpNext

\* Before the first message nothing is owed.
LEMMA RepliesInvInit == McpInit => RepliesInv
<1> SUFFICES ASSUME McpInit PROVE RepliesInv
  OBVIOUS
<1>1. sent = <<>> /\ taken = 0 /\ current = <<>> /\ replies = <<>>
  BY DEF McpInit
<1>2. Owed = {} /\ Got = {}
  BY <1>1 DEF Owed, Got
<1>3. RepliesMatchRequests
  <2>1. PICK f : f = [j \in Got |-> j]
    OBVIOUS
  <2>2. f \in [Got -> Owed]
    BY <1>2, <2>1
  <2>3. {f[j] : j \in Got} = Owed
    BY <1>2
  <2>4. InOrder(f)
    BY <1>2, <2>3 DEF InOrder
  <2> QED BY <2>2, <2>4 DEF RepliesMatchRequests
<1>4. Reads
  BY <1>1 DEF Reads
<1> QED BY <1>3, <1>4 DEF RepliesInv

\* Every request the server has taken has one reply, in order and in its own
\* framing, whatever stood on stdin between them and whatever it made handle
\* raise (serve, _read_message, handle).
THEOREM RepliesAreHonest == McpSpec => []RepliesMatchRequests
<1>1. RepliesInv => RepliesMatchRequests
  BY DEF RepliesInv
<1> QED BY <1>1, RepliesInvInit, RepliesInvStep, PTL DEF McpSpec
=============================================================================
