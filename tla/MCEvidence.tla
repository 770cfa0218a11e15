----------------------------- MODULE MCEvidence ------------------------------
(***************************************************************************)
(* A small instance of the way from questions to a receipt.  Collection and *)
(* proof meet in the file of answers only; the run explores each of them.   *)
(***************************************************************************)
EXTENDS Evidence, Collect

Blank == [blank |-> TRUE, json |-> "none", keys |-> {}, words |-> 0,
          sentence |-> FALSE, label |-> "", numbers |-> {}, files |-> {}]
Object(keys) == [Blank EXCEPT !.blank = FALSE, !.json = "object", !.keys = keys, !.words = 4]
Prose(n) == [Blank EXCEPT !.blank = FALSE, !.words = 9, !.sentence = TRUE, !.numbers = {n}]

Asked(base, cand, merit) ==
    [baseline |-> base, candidate |-> cand, merit |-> merit, format |-> "",
     baseline_calls |-> <<>>, candidate_calls |-> <<>>]
Kind == [ok      |-> Asked(Object({"a"}), Object({"a"}), "same"),
         broken  |-> Asked(Object({"a"}), Prose(1), "worse"),
         open    |-> Asked(Prose(100), Prose(101), "better"),
         weak    |-> Asked(Prose(100), Prose(100), "worse"),
         silent  |-> Asked(Blank, Prose(3), "same")]

\* kinds: the items of a cluster; the prompts repeat after `distinct` of them.
ItemsOf(c, kinds, distinct) ==
    [k \in DOMAIN kinds |->
        Kind[kinds[k]] @@ [id |-> <<c, k>>, cluster |-> c, prompt |-> k % distinct]]

Code(kinds) == ItemsOf("code", kinds, 9)
Chat(kinds) == ItemsOf("chat", kinds, 9)
Fives(a, b) == <<a, a, a, a, b>>

EvalSets ==
    {Code(Fives("ok", "ok")) \o Chat(Fives("broken", "broken")),
     Code(Fives("ok", "broken")) \o Chat(Fives("open", "weak")),
     Code(Fives("weak", "weak")) \o Chat(Fives("silent", "silent")),
     ItemsOf("code", Fives("ok", "broken"), 4) \o Chat(<<"ok">>),
     Code(Fives("ok", "ok"))}

Steady == [same |-> {"tie"}, better |-> {"b"}, worse |-> {"a"}]
Swapped == [same |-> {"tie"}, better |-> {"a"}, worse |-> {"b"}]
Babbling == [same |-> {"a", "b"}, better |-> {}, worse |-> {"a", "tie"}]
Pleased == [same |-> {"tie"}, better |-> {"tie"}, worse |-> {"tie"}]
Judges == {None, [first |-> Steady, second |-> Swapped],
           [first |-> Steady, second |-> Steady],
           [first |-> Babbling, second |-> Swapped],
           [first |-> Pleased, second |-> Pleased]}

ShareMaps == {SharesFromClusters([code |-> 14, chat |-> 6]), [code |-> 6, chat |-> 4],
              [code |-> 7, rest |-> 3], [code |-> 11]}

Meta(cost, format) ==
    [incumbent |-> "gpt", candidate |-> "glm", issued |-> 10, tool_version |-> 1,
     format |-> format, incumbent_cost |-> cost, candidate_cost |-> cost,
     window |-> [n |-> 14], fingerprints |-> [gpt |-> 1]]

MCWorks ==
    {[items |-> i, shares |-> s, judge |-> j, bar |-> <<5, 10>>, meta |-> Meta(5, "v2"), captures |-> 0] :
        i \in EvalSets, s \in ShareMaps, j \in Judges}

MCReruns == {<<10, 1>>, <<40, 2>>}
MCWorlds ==
    {[today |-> t, fingerprints |-> [gpt |-> f], traffic |-> m, available |-> {"glm"}] :
        t \in {20, 200}, f \in {1, 2},
        m \in {<<>>} \cup {[code |-> x, chat |-> y, rest |-> z] : x \in {3, 5, 6, 8}, y \in {1, 3, 5}, z \in 0..1}}

Question1 == [id |-> 1, prompt |-> "p"]
Question2 == [id |-> 2, prompt |-> "p"]
Asking(side, items, workers, resume) ==
    [base |-> "host", model |-> "glm", side |-> side, items |-> items,
     workers |-> workers, retries |-> 1, resume |-> resume]
MCRuns ==
    {Asking("candidate", <<Question1, Question2>>, 2, TRUE),
     Asking("baseline", <<Question2, Question1>>, 1, TRUE),
     Asking("candidate", <<Question1>>, 2, FALSE),
     Asking("candidate", <<Question1, Question1>>, 1, TRUE),
     Asking("candidate", <<>>, 1, TRUE)}

MCInit == Init /\ CollectInit
MCNext ==
    \/ work = None /\ Step /\ UNCHANGED vars
    \/ runs = 0 /\ Next /\ UNCHANGED cvars
\* The workers and the main thread keep running, and every request ends.
MCSpec ==
    /\ MCInit /\ [][MCNext]_<<vars, cvars>>
    /\ WF_cvars((Finish \/ Abandon) /\ UNCHANGED vars)
    /\ \A k \in 1..2 : WF_cvars(Request(k) /\ UNCHANGED vars)
=============================================================================
