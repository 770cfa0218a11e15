---------------------------- MODULE CollectProofs ----------------------------
(*************************************************************************)
(* What collect.py and evalset.py promise, for every set of runs, every  *)
(* engine and every kill: answers and failures are those that were       *)
(* received, nothing already answered is bought again, and the ledger on *)
(* disk keeps what it was given (the specification AnswerBook). The      *)
(* invariant Honest relates the three places an answer lies in: the      *)
(* task, the reply of the run and the line of the file.                  *)
(*************************************************************************)
EXTENDS Collect, WellFoundedInduction, NaturalsInduction, TLAPS

\* The lines a ledger can hold: an answer to a question, or noise.
Lines ==
    {[key |-> q, reply |-> Reply(q), open |-> o] : q \in AllQuestions, o \in BOOLEAN}
    \cup {[noise |-> TRUE, open |-> o] : o \in BOOLEAN}

\* The questions a ledger answers, and their lines.
Good(l) == {k \in DOMAIN l : Sound(l[k])}
Answers(l) == {l[k].key : k \in Good(l)}

\* Noise on an open line stays one line of noise.
LEMMA OpenNoise ==
    ASSUME NEW o \in BOOLEAN
    PROVE  /\ [Noise EXCEPT !.open = o] = [noise |-> TRUE, open |-> o]
           /\ ~Sound([noise |-> TRUE, open |-> o])
           /\ [noise |-> TRUE, open |-> o] \in Lines
<1> DEFINE x == [Noise EXCEPT !.open = o]
<1>1. x \in [noise : {TRUE}, open : {o}]
  BY DEF Noise
<1> HIDE DEF x
<1>2. x = [noise |-> TRUE, open |-> o]
  BY <1>1
<1>3. ~Sound([noise |-> TRUE, open |-> o])
  BY DEF Sound
<1>4. x \in {[noise |-> TRUE, open |-> b] : b \in BOOLEAN}
  BY <1>2
<1>5. x \in Lines
  BY <1>4 DEF Lines
<1> QED BY <1>2, <1>3, <1>5 DEF x

\* A line is noise or an answer, never both.
LEMMA LineKinds ==
    ASSUME NEW line \in Lines
    PROVE  /\ line.open \in BOOLEAN
           /\ Sound(line) => line.key \in AllQuestions /\ line.reply = Reply(line.key)
<1>1. CASE line \in {[noise |-> TRUE, open |-> o] : o \in BOOLEAN}
  <2>1. PICK o \in BOOLEAN : line = [noise |-> TRUE, open |-> o]
    BY <1>1
  <2> QED BY <2>1, OpenNoise
<1>2. CASE line \in {[key |-> q, reply |-> Reply(q), open |-> o] : q \in AllQuestions, o \in BOOLEAN}
  <2>1. PICK q \in AllQuestions, o \in BOOLEAN : line = [key |-> q, reply |-> Reply(q), open |-> o]
    BY <1>2
  <2> QED BY <2>1
<1> QED BY <1>1, <1>2 DEF Lines

\* An answer is a line.
LEMMA AnswerLine ==
    ASSUME NEW q \in AllQuestions, NEW o \in BOOLEAN
    PROVE  [key |-> q, reply |-> Reply(q), open |-> o] \in Lines
<1> DEFINE x == [key |-> q, reply |-> Reply(q), open |-> o]
<1>1. \E p \in AllQuestions, b \in BOOLEAN : x = [key |-> p, reply |-> Reply(p), open |-> b]
  OBVIOUS
<1> HIDE DEF x
<1>2. x \in {[key |-> p, reply |-> Reply(p), open |-> b] : p \in AllQuestions, b \in BOOLEAN}
  BY <1>1
<1> QED BY <1>2 DEF x, Lines

\* What an append makes of the lines there were.
LEMMA AppendedLines ==
    ASSUME NEW l \in Seq(Lines), NEW line \in Lines
    PROVE  /\ Appended(l, line) \in Seq(Lines)
           /\ EndsOpen(Appended(l, line)) <=> line.open
           /\ ~EndsOpen(l) => Answers(Appended(l, line)) =
                                  Answers(l) \cup (IF Sound(line) THEN {line.key} ELSE {})
           /\ EndsOpen(l) => \/ Answers(Appended(l, line)) = Answers(l)
                             \/ \E q \in AllQuestions : Answers(Appended(l, line)) = Answers(l) \ {q}
<1> DEFINE noise == [Noise EXCEPT !.open = line.open]
<1>1. noise \in Lines /\ ~Sound(noise) /\ (noise.open <=> line.open)
  <2>1. line.open \in BOOLEAN
    BY LineKinds
  <2>2. noise = [noise |-> TRUE, open |-> line.open] /\ ~Sound([noise |-> TRUE, open |-> line.open])
    BY <2>1, OpenNoise
  <2> HIDE DEF noise
  <2>3. noise \in {[noise |-> TRUE, open |-> o] : o \in BOOLEAN}
    BY <2>1, <2>2
  <2>4. ~Sound(noise) /\ noise.open = line.open
    BY <2>2
  <2> QED BY <2>3, <2>4 DEF Lines
<1>2. CASE ~EndsOpen(l)
  <2> DEFINE m == Append(l, line)
  <2>1. Appended(l, line) = m
    BY <1>2 DEF Appended
  <2>2. /\ m \in Seq(Lines) /\ DOMAIN m = DOMAIN l \cup {Len(l) + 1} /\ Len(l) + 1 \notin DOMAIN l
        /\ m[Len(l) + 1] = line /\ \A k \in DOMAIN l : m[k] = l[k]
        /\ Len(m) = Len(l) + 1 /\ m # <<>>
    OBVIOUS
  <2> HIDE DEF m
  <2>3. Answers(m) = Answers(l) \cup (IF Sound(line) THEN {line.key} ELSE {})
    BY <2>2 DEF Answers, Good
  <2>4. EndsOpen(m) <=> line.open
    BY <2>2 DEF EndsOpen, Last
  <2> QED BY <1>2, <2>1, <2>2, <2>3, <2>4
<1>3. CASE EndsOpen(l)
  <2> DEFINE n == Len(l)
             f == Front(l)
             m == Append(f, noise)
  <2>1. Appended(l, line) = m
    BY <1>3 DEF Appended
  <2>2. n \in Nat \ {0} /\ DOMAIN l = 1..n
    BY <1>3 DEF EndsOpen
  <2>3. f \in Seq(Lines) /\ Len(f) = n - 1 /\ \A k \in 1..(n - 1) : f[k] = l[k]
    BY <2>2 DEF Front
  <2> HIDE DEF n, f, noise
  <2>4. /\ m \in Seq(Lines) /\ DOMAIN m = 1..n /\ m[n] = noise /\ Len(m) = n /\ m # <<>>
        /\ \A k \in 1..(n - 1) : m[k] = l[k]
    BY <1>1, <2>2, <2>3
  <2> HIDE DEF m
  <2>5. EndsOpen(m) <=> line.open
    BY <1>1, <2>4 DEF EndsOpen, Last
  <2>6. Good(m) = Good(l) \ {n}
    BY <1>1, <2>2, <2>4 DEF Good
  <2>7. Answers(m) = {l[k].key : k \in Good(l) \ {n}}
    <3>1. \A k \in Good(l) \ {n} : m[k] = l[k]
      BY <2>2, <2>4 DEF Good
    <3> QED BY <2>6, <3>1 DEF Answers
  <2>8. CASE n \in Good(l)
    <3>1. l[n] \in Lines /\ Sound(l[n])
      BY <2>2, <2>8 DEF Good, n
    <3>2. Answers(m) = Answers(l) \/ Answers(m) = Answers(l) \ {l[n].key}
      BY <2>7, <2>8 DEF Answers
    <3>3. l[n].key \in AllQuestions
      BY <3>1, LineKinds
    <3> QED BY <2>1, <2>4, <2>5, <3>2, <3>3, <1>3
  <2>9. CASE n \notin Good(l)
    <3>1. Answers(m) = Answers(l)
      BY <2>7, <2>9 DEF Answers
    <3> QED BY <2>1, <2>4, <2>5, <3>1, <1>3
  <2> QED BY <2>8, <2>9
<1> QED BY <1>2, <1>3

\* The last of the indexes in a set.
LEMMA LastIndex ==
    ASSUME NEW n \in Nat, NEW T, T \subseteq 1..n, T # {}
    PROVE  \E k \in T : \A j \in T : j <= k
<1> DEFINE U == {n - k : k \in T}
<1>1. \A k \in T : k \in 1..n /\ n - k \in Nat
  OBVIOUS
<1>0. U \subseteq Nat /\ U # {}
  BY <1>1
<1>2. PICK x \in U : \A y \in U : ~(<<y, x>> \in OpToRel(<, Nat))
  <2> HIDE DEF U
  <2> QED BY <1>0, WFMin, NatLessThanWellFounded
<1>3. PICK k \in T : x = n - k
  OBVIOUS
<1>4. ASSUME NEW j \in T PROVE j <= k
  <2>1. ~(<<n - j, n - k>> \in OpToRel(<, Nat))
    BY <1>2, <1>3
  <2>2. ~(n - j < n - k)
    BY <1>1, <2>1 DEF OpToRel
  <2> QED BY <1>1, <2>2
<1> QED BY <1>4

\* What is resumed is the answers that can be read.
LEMMA ResumeLoadsAnswers ==
    ASSUME NEW l \in Seq(Lines)
    PROVE  /\ DOMAIN LoadResume(l) = Answers(l)
           /\ \A q \in Answers(l) : LoadResume(l)[q] = Reply(q)
<1> DEFINE good == {k \in DOMAIN l : Sound(l[k]) /\ Ok(l[k].reply)}
<1>1. \A k \in DOMAIN l : l[k] \in Lines
  OBVIOUS
<1>2. good = Good(l)
  <2>1. ASSUME NEW k \in DOMAIN l, Sound(l[k])
        PROVE  Ok(l[k].reply)
    <3>1. l[k].reply = Reply(l[k].key)
      BY <1>1, <2>1, LineKinds
    <3>2. Ok(Reply(l[k].key))
      BY DEF Ok, Reply
    <3> QED BY <3>1, <3>2
  <2> QED BY <2>1 DEF Good
<1>3. LoadResume(l) = [key \in Answers(l) |->
          l[CHOOSE k \in good : l[k].key = key /\ \A j \in good : l[j].key = key => j <= k].reply]
  BY <1>2 DEF LoadResume, Answers
<1>4. ASSUME NEW q \in Answers(l)
      PROVE  LoadResume(l)[q] = Reply(q)
  <2> DEFINE T == {k \in Good(l) : l[k].key = q}
             c == CHOOSE k \in good : l[k].key = q /\ \A j \in good : l[j].key = q => j <= k
  <2>1. T # {} /\ T \subseteq 1..Len(l) /\ Len(l) \in Nat
    BY DEF Answers, Good
  <2>2. \E k \in T : \A j \in T : j <= k
    <3> HIDE DEF T
    <3> QED BY <2>1, LastIndex
  <2>3. \E k \in good : l[k].key = q /\ \A j \in good : l[j].key = q => j <= k
    BY <1>2, <2>2
  <2>4. c \in Good(l) /\ l[c].key = q
    BY <1>2, <2>3
  <2>5. l[c].reply = Reply(q)
    BY <1>1, <2>4, LineKinds DEF Good
  <2> QED BY <1>3, <2>5
<1> QED BY <1>3, <1>4

-----------------------------------------------------------------------------
(* What holds while a collection runs.                                      *)

\* What an item's request can come to.
ReplyFor(r, k) ==
    {Reply(Question(r, r.items[k]))}
    \cup [asked : {Question(r, r.items[k])}, reason : {"failed", "gave up"},
          attempts : 1..(r.retries + 1)]

\* Where an item's request can stand.
TaskFor(r, k) ==
    {[pc |-> "done"], [pc |-> "queued"], [pc |-> "raised"]}
    \cup {[pc |-> "asking", attempts |-> n] : n \in 0..r.retries}
    \cup {[pc |-> "landed", reply |-> c] : c \in ReplyFor(r, k)}

UnderWay ==
    /\ run \in Runs /\ Legal(run)
    /\ DOMAIN task = DOMAIN run.items /\ DOMAIN ordered = DOMAIN run.items
    /\ \A k \in DOMAIN task :
           /\ task[k] \in TaskFor(run, k)
           /\ task[k].pc = "done" => ordered[k] \in ReplyFor(run, k)

\* What a resumed run has yet to ask, its ledger does not answer.
MissingToAsk ==
    run.resume /\ AsksOnce(run) =>
        \A k \in DOMAIN task : task[k].pc # "done" =>
            Question(run, run.items[k]) \notin Answers(ledger)

Honest ==
    /\ ledger \in Seq(Lines)
    /\ run = Idle => task = <<>> /\ ordered = <<>>
    /\ run # Idle => UnderWay /\ MissingToAsk
    /\ CollectionHonest

\* The runs are those a person can start.
LEMMA RunsLegal ==
    ASSUME NEW r \in Runs, Legal(r)
    PROVE  r.retries \in Nat
<1>1. r.retries \in Int
  BY RunsAssumption
<1>2. r.retries >= 0
  BY DEF Legal
<1> QED BY <1>1, <1>2

\* A reply is an answer or an error.
LEMMA ReplyKinds ==
    ASSUME NEW r \in Runs, Legal(r), NEW k, NEW c \in ReplyFor(r, k)
    PROVE  /\ c.asked = Question(r, r.items[k])
           /\ Ok(c) => c = Reply(Question(r, r.items[k]))
           /\ ~Ok(c) => c.attempts \in 1..(r.retries + 1)
<1> DEFINE q == Question(r, r.items[k])
<1>0. r.retries \in Nat
  BY RunsLegal
<1>1. CASE c = Reply(q)
  <2>1. Ok(c) /\ c.asked = q
    BY <1>1 DEF Ok, Reply
  <2> QED BY <1>1, <2>1
<1>2. CASE c # Reply(q)
  <2>1. c \in [asked : {q}, reason : {"failed", "gave up"}, attempts : 1..(r.retries + 1)]
    BY <1>2 DEF ReplyFor
  <2>2. c.asked = q /\ c.reason \in {"failed", "gave up"} /\ c.attempts \in 1..(r.retries + 1)
    <3> HIDE DEF q
    <3> QED BY <2>1
  <2> QED BY <2>2 DEF Ok
<1> QED BY <1>1, <1>2

\* A task is cached, waiting or done.
LEMMA TaskKinds ==
    ASSUME NEW r \in Runs, NEW k, NEW t \in TaskFor(r, k)
    PROVE  /\ t.pc = "asking" => t.attempts \in 0..r.retries /\ t = [pc |-> "asking", attempts |-> t.attempts]
           /\ t.pc = "landed" => t.reply \in ReplyFor(r, k)
<1>1. CASE t \in {[pc |-> "done"], [pc |-> "queued"], [pc |-> "raised"]}
  <2>1. t.pc \in {"done", "queued", "raised"}
    BY <1>1
  <2> QED BY <2>1
<1>2. CASE t \in {[pc |-> "asking", attempts |-> n] : n \in 0..r.retries}
  <2>1. PICK n \in 0..r.retries : t = [pc |-> "asking", attempts |-> n]
    BY <1>2
  <2>2. t.pc = "asking" /\ t.attempts = n
    BY <2>1
  <2> QED BY <2>1, <2>2
<1>3. CASE t \in {[pc |-> "landed", reply |-> c] : c \in ReplyFor(r, k)}
  <2>1. PICK c \in ReplyFor(r, k) : t = [pc |-> "landed", reply |-> c]
    BY <1>3
  <2>2. t.pc = "landed" /\ t.reply = c
    BY <2>1
  <2> QED BY <2>2
<1> QED BY <1>1, <1>2, <1>3 DEF TaskFor

\* No run is the mark of none.
LEMMA RunIsNotIdle == \A r \in Runs : r # Idle
<1>1. DOMAIN Idle = {"idle"}
  BY DEF Idle
<1> QED BY <1>1, RunsAssumption

\* A cache key is the label and the question.
LEMMA KeysAreQuestions ==
    ASSUME NEW r \in Runs, NEW k \in DOMAIN r.items
    PROVE  /\ Keys(r)[k] = Question(r, r.items[k])
           /\ Question(r, r.items[k]) \in AllQuestions
           /\ DOMAIN Keys(r) = DOMAIN r.items
<1>1. Question(r, r.items[k]) \in {Question(r, r.items[j]) : j \in DOMAIN r.items}
  OBVIOUS
<1>2. Question(r, r.items[k]) \in AllQuestions
  BY <1>1 DEF AllQuestions
<1> QED BY <1>2 DEF Keys, CacheKey, Question

\* No file and no run.
LEMMA HonestInit ==
    ASSUME CollectInit
    PROVE  Honest
BY DEF CollectInit, Honest, CollectionHonest, Idle

\* What a run is resumed with.
LEMMA StartHonest ==
    ASSUME Honest, Start
    PROVE  Honest'
<1>1. PICK r \in {x \in Runs : Legal(x)} :
        LET cached == IF r.resume THEN LoadResume(ledger) ELSE <<>>
            held(k) == Keys(r)[k] \in DOMAIN cached
        IN  /\ run' = r
            /\ task' = [k \in DOMAIN r.items |->
                           IF held(k) THEN [pc |-> "done"] ELSE [pc |-> "queued"]]
            /\ ordered' = [k \in DOMAIN r.items |->
                              IF held(k) THEN cached[Keys(r)[k]] ELSE Idle]
  BY DEF Start
<1> DEFINE cached == IF r.resume THEN LoadResume(ledger) ELSE <<>>
           held(k) == Keys(r)[k] \in DOMAIN cached
<1>2. /\ run' = r
      /\ task' = [k \in DOMAIN r.items |->
                     IF held(k) THEN [pc |-> "done"] ELSE [pc |-> "queued"]]
      /\ ordered' = [k \in DOMAIN r.items |->
                        IF held(k) THEN cached[Keys(r)[k]] ELSE Idle]
  BY <1>1
<1>3. ledger \in Seq(Lines) /\ ledger' = ledger /\ result' = Idle /\ r # Idle
  BY RunIsNotIdle DEF Honest, Start
<1>4. /\ \A q \in DOMAIN cached : cached[q] = Reply(q)
      /\ r.resume => DOMAIN cached = Answers(ledger)
  BY <1>3, ResumeLoadsAnswers
<1> HIDE DEF cached
<1>5. ASSUME NEW k \in DOMAIN r.items
      PROVE  /\ task'[k] \in TaskFor(r, k)
             /\ task'[k].pc = "done" <=> held(k)
             /\ held(k) => ordered'[k] \in ReplyFor(r, k)
  <2>1. Keys(r)[k] = Question(r, r.items[k])
    BY KeysAreQuestions
  <2>2. CASE held(k)
    <3>1. task'[k] = [pc |-> "done"] /\ ordered'[k] = Reply(Question(r, r.items[k]))
      BY <1>2, <1>4, <2>1, <2>2
    <3> QED BY <2>2, <3>1 DEF TaskFor, ReplyFor
  <2>3. CASE ~held(k)
    <3>1. task'[k] = [pc |-> "queued"]
      BY <1>2, <2>3
    <3> QED BY <2>3, <3>1 DEF TaskFor
  <2> QED BY <2>2, <2>3
<1>6. DOMAIN task' = DOMAIN r.items /\ DOMAIN ordered' = DOMAIN r.items
  BY <1>2
<1>7. UnderWay'
  BY <1>1, <1>2, <1>5, <1>6 DEF UnderWay
<1>8. MissingToAsk'
  BY <1>1, <1>2, <1>3, <1>4, <1>5, <1>6, KeysAreQuestions DEF MissingToAsk
<1> QED BY <1>2, <1>3, <1>7, <1>8 DEF Honest, CollectionHonest, Idle

\* One attempt, and the start of the first.
LEMMA RequestHonest ==
    ASSUME Honest, NEW k \in DOMAIN task,
           Take(k) \/ Answered(k) \/ FailedForGood(k) \/ Retry(k) \/ Escapes(k)
    PROVE  Honest'
<1>1. /\ run # Idle /\ UnderWay /\ MissingToAsk
      /\ UNCHANGED <<run, ordered, ledger, result>>
      /\ task[k].pc \in {"queued", "asking"}
  BY DEF Honest, Take, Answered, FailedForGood, Retry, Escapes, Standing
<1>2. /\ run \in Runs /\ Legal(run) /\ task[k] \in TaskFor(run, k)
      /\ run.retries \in Nat
  <2>1. run \in Runs /\ Legal(run) /\ task[k] \in TaskFor(run, k)
    BY <1>1 DEF UnderWay
  <2> QED BY <2>1, RunsLegal
<1> DEFINE q == Question(run, run.items[k])
<1>3. PICK t : task' = [task EXCEPT ![k] = t] /\ t \in TaskFor(run, k) /\ t.pc # "done"
  <2>0. ASSUME NEW why \in {"failed", "gave up"}, NEW n \in 1..(run.retries + 1)
        PROVE  Failure(q, why, n) \in ReplyFor(run, k)
    BY <1>2 DEF ReplyFor, Failure
  <2>1. CASE Take(k)
    <3> DEFINE t == [pc |-> "asking", attempts |-> 0]
    <3>1. task' = [task EXCEPT ![k] = t] /\ t.pc # "done"
      BY <2>1 DEF Take
    <3>2. t \in TaskFor(run, k)
      BY <1>2 DEF TaskFor
    <3> QED BY <3>1, <3>2
  <2>2. ASSUME NEW c \in ReplyFor(run, k), Landed(k, c)
        PROVE  \E t : task' = [task EXCEPT ![k] = t] /\ t \in TaskFor(run, k) /\ t.pc # "done"
    <3> DEFINE t == [pc |-> "landed", reply |-> c]
    <3>1. task' = [task EXCEPT ![k] = t] /\ t.pc # "done"
      BY <2>2 DEF Landed
    <3>2. t \in TaskFor(run, k)
      BY DEF TaskFor
    <3> QED BY <3>1, <3>2
  <2>3. CASE Answered(k)
    <3>1. Reply(q) \in ReplyFor(run, k)
      BY DEF ReplyFor
    <3> QED BY <2>2, <2>3, <3>1 DEF Answered
  <2>4. ASSUME task[k].pc = "asking"
        PROVE  /\ task[k].attempts \in 0..run.retries
               /\ task[k] = [pc |-> "asking", attempts |-> task[k].attempts]
    BY <1>2, <2>4, TaskKinds
  <2>5. CASE FailedForGood(k)
    <3>1. task[k].attempts + 1 \in 1..(run.retries + 1)
      BY <1>2, <2>4, <2>5 DEF FailedForGood, Standing
    <3>2. Failure(q, "failed", task[k].attempts + 1) \in ReplyFor(run, k)
      BY <2>0, <3>1
    <3> QED BY <2>2, <2>5, <3>2 DEF FailedForGood
  <2>6. CASE Retry(k)
    <3>1. /\ task[k].attempts \in 0..run.retries
          /\ task[k] = [pc |-> "asking", attempts |-> task[k].attempts]
      BY <2>4, <2>6 DEF Retry, Standing
    <3>2. CASE task[k].attempts < run.retries
      <4> DEFINE t == [task[k] EXCEPT !.attempts = @ + 1]
                 n == task[k].attempts + 1
      <4>1. task' = [task EXCEPT ![k] = t]
        BY <2>6, <3>2 DEF Retry
      <4>2. t \in [pc : {"asking"}, attempts : {n}]
        BY <3>1
      <4> HIDE DEF t
      <4>3. t = [pc |-> "asking", attempts |-> n] /\ t.pc # "done"
        BY <4>2
      <4>4. n \in 0..run.retries
        BY <1>2, <3>1, <3>2
      <4>5. t \in TaskFor(run, k)
        BY <4>3, <4>4 DEF TaskFor
      <4> QED BY <4>1, <4>3, <4>5
    <3>3. CASE ~(task[k].attempts < run.retries)
      <4>1. Failure(q, "gave up", task[k].attempts + 1) \in ReplyFor(run, k)
        <5>1. task[k].attempts + 1 \in 1..(run.retries + 1)
          BY <1>2, <3>1
        <5> QED BY <2>0, <5>1
      <4> QED BY <2>2, <2>6, <3>3, <4>1 DEF Retry
    <3> QED BY <3>2, <3>3
  <2>7. CASE Escapes(k)
    <3> DEFINE t == [pc |-> "raised"]
    <3>1. task' = [task EXCEPT ![k] = t] /\ t.pc # "done"
      BY <2>7 DEF Escapes
    <3>2. t \in TaskFor(run, k)
      BY DEF TaskFor
    <3> QED BY <3>1, <3>2
  <2> QED BY <2>1, <2>3, <2>5, <2>6, <2>7
<1>4. UnderWay'
  BY <1>1, <1>3 DEF UnderWay
<1>5. MissingToAsk'
  BY <1>1, <1>3 DEF MissingToAsk
<1> QED BY <1>1, <1>4, <1>5 DEF Honest, CollectionHonest

\* A line that is written for an item that landed.
LEMMA WrittenLine ==
    ASSUME Honest, NEW k \in DOMAIN task, task[k].pc = "landed", Keeps(k)
    PROVE  /\ run # Idle /\ run.resume
           /\ Written(k) \in Lines /\ Sound(Written(k)) /\ ~Written(k).open
           /\ Written(k).key = Question(run, run.items[k])
           /\ Open(Written(k)) \in Lines /\ Sound(Open(Written(k))) /\ Open(Written(k)).open
           /\ Open(Written(k)).key = Question(run, run.items[k])
<1> DEFINE q == Question(run, run.items[k])
           w == [key |-> q, reply |-> Reply(q), open |-> FALSE]
           o == [key |-> q, reply |-> Reply(q), open |-> TRUE]
<1>1. run # Idle
  BY DEF Honest
<1>2. run \in Runs /\ Legal(run) /\ task[k] \in TaskFor(run, k) /\ k \in DOMAIN run.items
  BY <1>1 DEF Honest, UnderWay
<1>3. task[k].reply = Reply(q)
  BY <1>2, TaskKinds, ReplyKinds DEF Keeps
<1>4. Keys(run)[k] = q /\ q \in AllQuestions
  BY <1>2, KeysAreQuestions
<1>5. Written(k) = w
  BY <1>3, <1>4 DEF Written, Line
<1> HIDE DEF q
<1>6. Open(w) = o
  <2> DEFINE x == [w EXCEPT !.open = TRUE]
  <2>1. x \in [key : {q}, reply : {Reply(q)}, open : {TRUE}]
    OBVIOUS
  <2> HIDE DEF x
  <2>2. x = o
    BY <2>1
  <2> QED BY <2>2 DEF x, Open
<1>8. w \in Lines /\ o \in Lines
  BY <1>4, AnswerLine
<1>9. Sound(w) /\ ~w.open /\ w.key = q /\ Sound(o) /\ o.open /\ o.key = q
  BY DEF Sound
<1> QED BY <1>1, <1>5, <1>6, <1>8, <1>9 DEF Keeps, q

\* Writing an item that landed, whole or torn.
LEMMA RecordHonest ==
    ASSUME Honest, NEW k \in DOMAIN task, Record(k)
    PROVE  Honest'
<1> DEFINE q == Question(run, run.items[k])
<1>1. /\ run # Idle /\ UnderWay /\ MissingToAsk /\ ledger \in Seq(Lines)
      /\ UNCHANGED <<run, result>>
      /\ task[k].pc = "landed"
      /\ task' = [task EXCEPT ![k] = [pc |-> "done"]]
      /\ ordered' = [ordered EXCEPT ![k] = task[k].reply]
  BY DEF Honest, Record, Standing
<1>2. task[k].reply \in ReplyFor(run, k)
  BY <1>1, TaskKinds DEF UnderWay
<1>3. UnderWay'
  <2>1. [pc |-> "done"] \in TaskFor(run, k)
    BY DEF TaskFor
  <2> QED BY <1>1, <1>2, <2>1 DEF UnderWay
<1>4. /\ ledger' \in Seq(Lines)
      /\ Answers(ledger') \subseteq Answers(ledger) \cup {q}
  <2>1. CASE Keeps(k)
    <3>1. ledger' = Appended(ledger, Written(k))
      BY <2>1 DEF Record
    <3>2. Written(k) \in Lines /\ Sound(Written(k)) /\ Written(k).key = q
      BY <1>1, <2>1, WrittenLine
    <3> QED BY <1>1, <3>1, <3>2, AppendedLines
  <2>2. CASE ~Keeps(k)
    BY <1>1, <2>2 DEF Record
  <2> QED BY <2>1, <2>2
<1>5. MissingToAsk'
  <2>1. SUFFICES ASSUME run.resume, AsksOnce(run), NEW j \in DOMAIN task, task'[j].pc # "done"
                 PROVE  Question(run, run.items[j]) \notin Answers(ledger')
    BY <1>1 DEF MissingToAsk
  <2>2. j # k /\ task[j].pc # "done"
    BY <1>1, <2>1
  <2>3. Question(run, run.items[j]) # q
    <3>1. run \in Runs /\ j \in DOMAIN run.items /\ k \in DOMAIN run.items
      BY <1>1 DEF UnderWay
    <3>2. Keys(run)[j] = Question(run, run.items[j]) /\ Keys(run)[k] = q
      BY <3>1, KeysAreQuestions
    <3> QED BY <2>1, <2>2, <3>1, <3>2 DEF AsksOnce
  <2>4. Question(run, run.items[j]) \notin Answers(ledger)
    BY <1>1, <2>1, <2>2 DEF MissingToAsk
  <2> QED BY <1>4, <2>3, <2>4
<1> QED BY <1>1, <1>3, <1>4, <1>5 DEF Honest, CollectionHonest

\* What is returned is what every item came to.
LEMMA FinishHonest ==
    ASSUME Honest, Finish
    PROVE  Honest'
<1>1. /\ UnderWay /\ ledger' \in Seq(Lines) /\ run' = Idle /\ task' = <<>> /\ ordered' = <<>>
      /\ \A k \in DOMAIN task : task[k].pc = "done"
      /\ result' = [run |-> run, replies |-> ordered, filled |-> {k \in DOMAIN ordered : Ok(ordered[k])}]
  BY DEF Honest, Finish
<1>2. /\ result'.run = run /\ result'.replies = ordered
      /\ result'.filled = {k \in DOMAIN ordered : Ok(ordered[k])}
  BY <1>1
<1>3. \A k \in DOMAIN ordered :
          /\ ordered[k].asked = Question(run, run.items[k])
          /\ ~Ok(ordered[k]) => ordered[k].attempts \in 1..(run.retries + 1)
  BY <1>1, ReplyKinds DEF UnderWay
<1>4. CollectionHonest'
  BY <1>1, <1>2, <1>3 DEF CollectionHonest, UnderWay
<1> QED BY <1>1, <1>4 DEF Honest

\* What a kill leaves of the file.
LEMMA KillLedger ==
    ASSUME Honest, Kill, ledger' # ledger
    PROVE  \E k \in DOMAIN task, line \in Lines :
              /\ run # Idle /\ line.open /\ ledger' = Appended(ledger, line)
              /\ Sound(line) => line.key = Question(run, run.items[k])
<1>0. PICK k \in DOMAIN task :
          /\ task[k].pc = "landed" /\ Keeps(k) /\ run # Idle
          /\ \E tail \in {Written(k), Noise} : ledger' = Appended(ledger, Open(tail))
  BY DEF Kill
<1>1. PICK tail \in {Written(k), Noise} : ledger' = Appended(ledger, Open(tail))
  BY <1>0
<1>2. CASE tail = Written(k)
  BY <1>0, <1>1, <1>2, WrittenLine
<1>3. CASE tail = Noise
  <2>1. Open(Noise) = [noise |-> TRUE, open |-> TRUE] /\ ~Sound(Open(Noise))
    BY OpenNoise DEF Open
  <2>2. Open(Noise) \in Lines
    BY <2>1, OpenNoise
  <2>3. Open(Noise).open
    BY <2>1
  <2> QED BY <1>0, <1>1, <1>3, <2>1, <2>2, <2>3
<1> QED BY <1>1, <1>2, <1>3

\* A kill loses what was not written and no more.
LEMMA KillHonest ==
    ASSUME Honest, Kill
    PROVE  Honest'
<1>1. ledger' \in Seq(Lines)
  <2>1. CASE ledger' = ledger
    BY <2>1 DEF Honest
  <2>2. CASE ledger' # ledger
    BY <2>2, KillLedger, AppendedLines DEF Honest
  <2> QED BY <2>1, <2>2
<1> QED BY <1>1 DEF Honest, Kill, CollectionHonest

\* Every step of a run, and a kill, keep the invariant.
LEMMA HonestStep ==
    ASSUME Honest, [Step]_cvars
    PROVE  Honest'
<1>1. CASE Refuse
  <2>1. result' = [refused |-> TRUE] /\ "replies" \notin DOMAIN [refused |-> TRUE]
    BY <1>1 DEF Refuse
  <2> QED BY <1>1, <2>1 DEF Refuse, Honest, CollectionHonest
<1>2. CASE UNCHANGED cvars
  BY <1>2 DEF cvars, Honest, UnderWay, MissingToAsk, CollectionHonest
<1>3. ASSUME NEW k \in DOMAIN task, Raise(k) PROVE Honest'
  <2>1. result' = Raised /\ "replies" \notin DOMAIN Raised
    BY <1>3 DEF Raise, Raised
  <2> QED BY <1>3, <2>1 DEF Raise, Honest, UnderWay, MissingToAsk, CollectionHonest
<1>4. CASE Abandon
  BY <1>4 DEF Abandon, Honest, CollectionHonest
<1> QED BY <1>1, <1>2, <1>3, <1>4, StartHonest, RequestHonest, RecordHonest, FinishHonest,
           KillHonest DEF Step, Request

-----------------------------------------------------------------------------
\* Every reply of a run is what the engine gave for that question, from
\* this run or an earlier one, and a refusal is never an answer (collect()).
THEOREM RepliesHonest == CollectSpec => []CollectionHonest
<1>1. CollectInit => Honest
  BY HonestInit
<1>2. Honest /\ [Step]_cvars => Honest'
  BY HonestStep
<1>3. Honest => CollectionHonest
  BY DEF Honest
<1> QED BY <1>1, <1>2, <1>3, PTL DEF CollectSpec

\* A run over questions it asks once never buys an answer it could read in
\* the ledger when it started (resume).
THEOREM BoughtOnce == CollectSpec => OnlyMissingBought
<1> DEFINE Fresh == run # Idle /\ run.resume /\ AsksOnce(run) => bought' \cap Readable = {}
<1>1. CollectInit => Honest
  BY HonestInit
<1>2. Honest /\ [Step]_cvars => Honest'
  BY HonestStep
<1>3. Honest /\ [Step]_cvars => [Fresh]_cvars
  <2> SUFFICES ASSUME Honest, Step, run # Idle, run.resume, AsksOnce(run)
               PROVE  bought' \cap Answers(ledger) = {}
    BY DEF Readable, Answers, Good
  <2>1. CASE bought' = {}
    BY <2>1
  <2>2. ASSUME NEW k \in DOMAIN task, Answered(k)
        PROVE  bought' \cap Answers(ledger) = {}
    BY <2>2 DEF Honest, MissingToAsk, Answered, Standing
  <2> QED BY <2>1, <2>2 DEF Step, Start, Refuse, Request, Take, FailedForGood, Retry, Escapes,
                            Record, Raise, Finish, Abandon, Kill
<1> QED BY <1>1, <1>2, <1>3, PTL DEF CollectSpec, OnlyMissingBought

\* A write is one step of the book of answers.
LEMMA WriteIsBookStep ==
    ASSUME Honest, NEW q \in AllQuestions, NEW line \in Lines,
           Sound(line) => line.key = q, line.open \/ Sound(line),
           ledger' = Appended(ledger, line)
    PROVE  Book!Next
<1> DEFINE debt == IF EndsOpen(ledger) THEN 1 ELSE 0
<1>1. ledger \in Seq(Lines) /\ Readable = Answers(ledger) /\ Readable' = Answers(ledger')
  BY DEF Honest, Readable, Answers, Good
<1>2. CASE ~EndsOpen(ledger) /\ ~line.open
  <2>1. Readable' = Readable \cup {q} /\ ~EndsOpen(ledger')
    BY <1>1, <1>2, AppendedLines
  <2>2. Book!Add(q)
    BY <1>2, <2>1 DEF Book!Add
  <2> QED BY <2>2 DEF Book!Next
<1>3. CASE ~EndsOpen(ledger) /\ line.open
  <2>1. Readable' \in {Readable, Readable \cup {q}} /\ EndsOpen(ledger')
    BY <1>1, <1>3, AppendedLines
  <2>2. Book!Cut(q)
    BY <1>3, <2>1 DEF Book!Cut
  <2> QED BY <2>2 DEF Book!Next
<1>4. CASE EndsOpen(ledger)
  <2>1. PICK p \in AllQuestions : Readable' \in {Readable, Readable \ {p}}
    BY <1>1, <1>4, AppendedLines
  <2>2. Book!Spoil(p)
    BY <1>4, <2>1 DEF Book!Spoil
  <2> QED BY <2>2 DEF Book!Next
<1> QED BY <1>2, <1>3, <1>4

\* The file, torn lines and all, implements the book of AnswerBook, in which a
\* kill costs at most the answer that was being written: every step is one of
\* the book's or none.
THEOREM LedgerIsBook == CollectSpec => LedgerKeepsAnswers
<1> DEFINE debt == IF EndsOpen(ledger) THEN 1 ELSE 0
<1>1. CollectInit => Honest
  BY HonestInit
<1>2. Honest /\ [Step]_cvars => Honest'
  BY HonestStep
<1>3. CollectInit => Book!Init
  <2>1. CollectInit => Readable = {} /\ ~EndsOpen(ledger)
    BY DEF CollectInit, Readable, EndsOpen
  <2> QED BY <2>1 DEF Book!Init
<1>4. Honest /\ [Step]_cvars => [Book!Next]_<<Readable, debt>>
  <2> SUFFICES ASSUME Honest, [Step]_cvars, ledger' # ledger
               PROVE  Book!Next
    BY DEF Readable, EndsOpen
  <2>1. ASSUME NEW k \in DOMAIN task, Record(k)
        PROVE  Book!Next
    <3>1. task[k].pc = "landed" /\ Keeps(k) /\ ledger' = Appended(ledger, Written(k))
      BY <2>1 DEF Record, Standing
    <3>2. /\ Written(k) \in Lines /\ Sound(Written(k)) /\ run # Idle
          /\ Written(k).key = Question(run, run.items[k])
      BY <3>1, WrittenLine
    <3>3. Question(run, run.items[k]) \in AllQuestions
      BY <3>2, KeysAreQuestions DEF Honest, UnderWay
    <3> QED BY <3>1, <3>2, <3>3, WriteIsBookStep
  <2>2. CASE Kill
    <3>1. PICK k \in DOMAIN task, line \in Lines :
              /\ run # Idle /\ line.open /\ ledger' = Appended(ledger, line)
              /\ Sound(line) => line.key = Question(run, run.items[k])
      BY <2>2, KillLedger
    <3>2. Question(run, run.items[k]) \in AllQuestions
      BY <3>1, KeysAreQuestions DEF Honest, UnderWay
    <3> QED BY <3>1, <3>2, WriteIsBookStep
  <2> QED BY <2>1, <2>2 DEF Step, Start, Refuse, Request, Take, Answered, FailedForGood, Retry,
                            Escapes, Raise, Finish, Abandon, cvars
<1> QED BY <1>1, <1>2, <1>3, <1>4, PTL DEF CollectSpec, LedgerKeepsAnswers, Book!Spec
=============================================================================
