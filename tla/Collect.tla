------------------------------ MODULE Collect -------------------------------
(***************************************************************************)
(* The collector (prove/collect.py): an eval set sent to one endpoint by a *)
(* pool of workers, every reply appended to a ledger as it lands, so that  *)
(* a run that is killed is resumed and buys only what it does not hold.    *)
(*                                                                         *)
(* A question is what the cache key hashes.  The endpoint answers, asks to *)
(* be tried again (429, 5xx), or fails for good (another 4xx, a timeout,   *)
(* no JSON, no usable choice).  A body that breaks off while it is read, or *)
(* tool calls that are no list, raise what no handler of _ask names: the    *)
(* exception ends the collection.                                          *)
(***************************************************************************)
EXTENDS Integers, Sequences, FiniteSets, SequencesExt, Functions

CONSTANTS
    Runs,        \* the collections that may be asked for, legal or not
    MaxRuns,     \* bound: collections started
    MaxKills     \* bound: runs killed

\* What a caller passes: a list of items, and whole numbers.
ASSUME RunsAssumption ==
    \A r \in Runs : /\ DOMAIN r = {"base", "model", "side", "items", "workers", "retries",
                                  "resume"}
                    /\ r.items \in Seq(ToSet(r.items))
                    /\ r.workers \in Int /\ r.retries \in Int /\ r.resume \in BOOLEAN

VARIABLES
    run,       \* the collection under way, or Idle
    task,      \* for each item of it: where its request stands
    ordered,   \* for each item of it: its reply once it is in hand
    ledger,    \* the lines of the JSONL file, as they can be read
    result,    \* the last collection that ended, or the exception that ends this one
    runs, kills,
    bought     \* the questions answered since the last step looked (history)

cvars == <<run, task, ordered, ledger, result, runs, kills, bought>>

Idle == [idle |-> TRUE]
Raised == [raised |-> TRUE]
Sides == {"candidate", "baseline"}

\* Collected: its reason is empty when the reply arrived.
Reply(q) == [asked |-> q, reason |-> ""]
Failure(q, why, attempts) == [asked |-> q, reason |-> why, attempts |-> attempts]
Ok(c) == c.reason = ""

\* Mutant: the side is left out of what binds a reply to its question.
KeyWithoutSide(r, item) == <<r.base, r.model, item.id, item.prompt>>

\* _cache_key: neither the temperature nor max_tokens is part of it.
CacheKey(r, item) == <<r.base, r.model, r.side, item.id, item.prompt>>

\* What is really asked, however it is cached.
Question(r, item) == <<r.base, r.model, r.side, item.id, item.prompt>>
Keys(r) == [k \in DOMAIN r.items |-> CacheKey(r, r.items[k])]

-----------------------------------------------------------------------------
(* The ledger                                                              *)

\* A line: its key and reply, or nothing that parses ("noise").  The last one
\* may lack its newline; what is appended then lands on the same line, and two
\* objects on a line are not JSON.
Line(key, reply) == [key |-> key, reply |-> reply, open |-> FALSE]
Noise == [noise |-> TRUE, open |-> FALSE]
Open(line) == [line EXCEPT !.open = TRUE]
EndsOpen(l) == l # <<>> /\ Last(l).open
Sound(line) == "key" \in DOMAIN line

\* Mutant: the file is opened anew for writing.
AppendedAnew(l, line) == <<line>>

Appended(l, line) ==
    IF EndsOpen(l) THEN Append(Front(l), [Noise EXCEPT !.open = line.open])
    ELSE Append(l, line)

\* Mutant: the first line that cannot be read ends the ledger.
LoadUpToNoise(l) ==
    LET good == {k \in DOMAIN l : \A j \in 1..k : Sound(l[j])}
    IN  [key \in {l[k].key : k \in good} |->
            l[CHOOSE k \in good : l[k].key = key].reply]

\* _load_resume: lines that cannot be read are skipped, failures are not
\* loaded, the later of two answers wins.
LoadResume(l) ==
    LET good == {k \in DOMAIN l : Sound(l[k]) /\ Ok(l[k].reply)}
    IN  [key \in {l[k].key : k \in good} |->
            l[CHOOSE k \in good : l[k].key = key /\ \A j \in good : l[j].key = key => j <= k].reply]

-----------------------------------------------------------------------------
(* Starting                                                                *)

\* collect()'s ValueErrors
Legal(r) ==
    /\ r.items # <<>> /\ r.side \in Sides
    /\ r.workers >= 1 /\ r.retries >= 0
    /\ r.base # "not a url"

CollectInit ==
    /\ run = Idle /\ task = <<>> /\ ordered = <<>> /\ ledger = <<>>
    /\ result = Idle /\ runs = 0 /\ kills = 0 /\ bought = {}

\* A question that is cached is done before anything is asked.
Start ==
    /\ run = Idle /\ runs < MaxRuns
    /\ \E r \in {x \in Runs : Legal(x)} :
        LET cached == IF r.resume THEN LoadResume(ledger) ELSE <<>>
            held(k) == Keys(r)[k] \in DOMAIN cached
        IN  /\ run' = r
            /\ task' = [k \in DOMAIN r.items |->
                           IF held(k) THEN [pc |-> "done"] ELSE [pc |-> "queued"]]
            /\ ordered' = [k \in DOMAIN r.items |->
                              IF held(k) THEN cached[Keys(r)[k]] ELSE Idle]
    /\ runs' = runs + 1 /\ result' = Idle /\ bought' = {}
    /\ UNCHANGED <<ledger, kills>>

Refuse ==
    /\ run = Idle /\ runs < MaxRuns
    /\ \E r \in Runs : ~Legal(r)
    /\ result' = [refused |-> TRUE] /\ runs' = runs + 1 /\ bought' = {}
    /\ UNCHANGED <<run, task, ordered, ledger, kills>>

-----------------------------------------------------------------------------
(* One request                                                             *)

Standing(k, pc) == run # Idle /\ k \in DOMAIN task /\ task[k].pc = pc
Busy == {k \in DOMAIN task : task[k].pc = "asking"}

\* A free worker takes the queued item submitted first.
Take(k) ==
    /\ Standing(k, "queued")
    /\ Cardinality(Busy) < run.workers
    /\ \A j \in 1..(k - 1) : task[j].pc # "queued"
    /\ task' = [task EXCEPT ![k] = [pc |-> "asking", attempts |-> 0]]
    /\ bought' = {}
    /\ UNCHANGED <<run, ordered, ledger, result, runs, kills>>

Landed(k, c) == task' = [task EXCEPT ![k] = [pc |-> "landed", reply |-> c]]

\* _ask, one attempt of it: the reply, a failure that asking again would not
\* change, or one worth another attempt while there is one.
Answered(k) ==
    /\ Standing(k, "asking")
    /\ Landed(k, Reply(Question(run, run.items[k])))
    /\ bought' = {Question(run, run.items[k])}
    /\ UNCHANGED <<run, ordered, ledger, result, runs, kills>>

FailedForGood(k) ==
    /\ Standing(k, "asking")
    /\ Landed(k, Failure(Question(run, run.items[k]), "failed", task[k].attempts + 1))
    /\ bought' = {}
    /\ UNCHANGED <<run, ordered, ledger, result, runs, kills>>

\* http.client.IncompleteRead and a socket error under an error's body are not
\* what _once catches, nor is _reply's TypeError: the future holds the exception.
Escapes(k) ==
    /\ Standing(k, "asking")
    /\ task' = [task EXCEPT ![k] = [pc |-> "raised"]]
    /\ bought' = {}
    /\ UNCHANGED <<run, ordered, ledger, result, runs, kills>>

\* Mutant: an attempt that may be retried always is.
RetryForever(k) ==
    /\ Standing(k, "asking")
    /\ task' = [task EXCEPT ![k].attempts = (@ + 1) % (run.retries + 1)]
    /\ bought' = {}
    /\ UNCHANGED <<run, ordered, ledger, result, runs, kills>>

Retry(k) ==
    /\ Standing(k, "asking")
    /\ IF task[k].attempts < run.retries
       THEN task' = [task EXCEPT ![k].attempts = @ + 1]
       ELSE Landed(k, Failure(Question(run, run.items[k]), "gave up", task[k].attempts + 1))
    /\ bought' = {}
    /\ UNCHANGED <<run, ordered, ledger, result, runs, kills>>

-----------------------------------------------------------------------------
(* The main thread                                                         *)

Written(k) == Line(Keys(run)[k], task[k].reply)
Keeps(k) == run.resume /\ Ok(task[k].reply)

\* as_completed: any landed reply, put where it was asked, and in the ledger
\* only if it is an answer.
Record(k) ==
    /\ Standing(k, "landed") /\ result = Idle
    /\ ordered' = [ordered EXCEPT ![k] = task[k].reply]
    /\ task' = [task EXCEPT ![k] = [pc |-> "done"]]
    /\ ledger' = IF Keeps(k) THEN Appended(ledger, Written(k)) ELSE ledger
    /\ bought' = {}
    /\ UNCHANGED <<run, result, runs, kills>>

\* future.result() raises what escaped: nothing that lands later is recorded,
\* though the pool asks what is still queued before the exception leaves it.
Raise(k) ==
    /\ Standing(k, "raised") /\ result = Idle
    /\ result' = Raised /\ bought' = {}
    /\ UNCHANGED <<run, task, ordered, ledger, runs, kills>>

Abandon ==
    /\ run # Idle /\ result = Raised
    /\ \A k \in DOMAIN task : task[k].pc \in {"landed", "raised", "done"}
    /\ run' = Idle /\ task' = <<>> /\ ordered' = <<>> /\ bought' = {}
    /\ UNCHANGED <<ledger, result, runs, kills>>

\* The Collection: the replies as asked for, and the items that got one.
Finish ==
    /\ run # Idle /\ result = Idle
    /\ \A k \in DOMAIN task : task[k].pc = "done"
    /\ result' = [run |-> run, replies |-> ordered,
                  filled |-> {k \in DOMAIN ordered : Ok(ordered[k])}]
    /\ run' = Idle /\ task' = <<>> /\ ordered' = <<>> /\ bought' = {}
    /\ UNCHANGED <<ledger, runs, kills>>

\* Killed: between two writes, or within one, of which the start is left.
\* What is cut off last may be the newline alone.
Kill ==
    /\ run # Idle /\ kills < MaxKills
    /\ \/ UNCHANGED ledger
       \/ \E k \in DOMAIN task :
            /\ task[k].pc = "landed" /\ Keeps(k) /\ result = Idle
            /\ \E tail \in {Written(k), Noise} : ledger' = Appended(ledger, Open(tail))
    /\ kills' = kills + 1
    /\ run' = Idle /\ task' = <<>> /\ ordered' = <<>> /\ result' = Idle /\ bought' = {}
    /\ UNCHANGED runs

Request(k) ==
    \/ Take(k) \/ Answered(k) \/ FailedForGood(k) \/ Retry(k) \/ Escapes(k)
    \/ Record(k) \/ Raise(k)
Step ==
    \/ Start \/ Refuse \/ (\E k \in DOMAIN task : Request(k))
    \/ Finish \/ Abandon \/ Kill
CollectSpec == CollectInit /\ [][Step]_cvars

-----------------------------------------------------------------------------
(* What a collection promises                                              *)

\* The questions whose answer the file holds, read line by line.
Readable == {ledger[k].key : k \in {j \in DOMAIN ledger : Sound(ledger[j])}}

\* Every reply of a collection stands where its question was asked and answers
\* that question for this endpoint, model and side, whether it came over the
\* wire or from an earlier run's ledger; a failure is of this very run, within
\* its attempts, and never an item (collect and _filled).
CollectionHonest ==
    result # Idle /\ "replies" \in DOMAIN result =>
        /\ DOMAIN result.replies = DOMAIN result.run.items
        /\ \A k \in DOMAIN result.replies :
            LET c == result.replies[k] IN
            /\ c.asked = Question(result.run, result.run.items[k])
            /\ (k \in result.filled) <=> Ok(c)
            /\ ~Ok(c) => c.attempts \in 1..(result.run.retries + 1)

\* A resumed run never pays for an answer its ledger holds (collect's `resume`).
\* An eval set that asks one question twice, as no capture gives but a file may,
\* is the exception: what is cached is looked up once, when the run starts.
AsksOnce(r) == \A j, k \in DOMAIN r.items : Keys(r)[j] = Keys(r)[k] => j = k
OnlyMissingBought ==
    [][run # Idle /\ run.resume /\ AsksOnce(run) => bought' \cap Readable = {}]_cvars

AllQuestions == UNION {{Question(r, r.items[k]) : k \in DOMAIN r.items} : r \in Runs}

\* The ledger keeps what was bought: a kill costs at most one answer in it.
Book == INSTANCE AnswerBook WITH
            Questions <- AllQuestions, book <- Readable,
            debt <- IF EndsOpen(ledger) THEN 1 ELSE 0
LedgerKeepsAnswers == Book!Spec

\* A collection that starts ends, whatever the endpoint says: with every item
\* answered or given a reason, unless it is killed or an exception escaped one
\* of its requests.  Requests have a timeout, the pool's workers and the main
\* thread keep running.
RunsEnd == run # Idle ~> run = Idle
=============================================================================
