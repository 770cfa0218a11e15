------------------------------ MODULE MCAgent -------------------------------
(* What an agent works with: a conversation, over a laptop, a node of four   *)
(* cards and a small card, two models, a handful of sentences and of direct  *)
(* answers; a session of the MCP server; and the catalogue both read, with   *)
(* the server and a reviewer on one machine or the scheduled watch on        *)
(* another.                                                                  *)
EXTENDS Session, Mcp, Catalog

Small == [id |-> "small", params |-> 8, active |-> 8, layers |-> 1, kv_scheme |-> "gqa",
          kv_heads |-> 1, kv_lora_rank |-> 0, max_context |-> 256, mtp_native |-> FALSE,
          quants |-> <<"fp16", "q4">>]
Large == [Small EXCEPT !.id = "large", !.params = 60, !.active = 60, !.kv_scheme = "mla",
                       !.kv_lora_rank = 1, !.quants = <<"q8", "q4">>]
MCCatalogue == <<Small, Large>>

MCLocal == [apple |-> 320, wired |-> 0, bw |-> 546, nvidia |-> <<>>, amd |-> <<>>, ram |-> 320]
MCProfiles == [h100x4 |-> [id |-> "h100x4", kind |-> "nvidia", bytes |-> 800,
                           devices |-> 4, bw |-> 3350, usd |-> 1196],
               t4     |-> [id |-> "t4", kind |-> "nvidia", bytes |-> 160,
                           devices |-> 1, bw |-> 320, usd |-> Unknown]]

MCTexts ==
    {<<Phrase("interactive", 0), Phrase("people", 20), Phrase("agents", 0)>>,
     <<Phrase("concurrent", 8), Phrase("k tokens", 8), Phrase("structured", 0)>>,
     <<[Phrase("rate", 120) EXCEPT !.per = 60], Phrase("takes", 30000), Phrase("worded", 4096),
       Phrase("under", 800)>>}

Value(type, converts, v) == [type |-> type, converts |-> converts, value |-> v]
MCAnswers ==
    {[concurrency |-> Value("int", TRUE, 1)],
     [concurrency |-> Value("str", TRUE, 8), context |-> Value("int", TRUE, 16)],
     [concurrency |-> Value("int", TRUE, 0)],
     [concurrency |-> Value("str", FALSE, 0)],
     [structured |-> Value("str", TRUE, FALSE)],
     [workload |-> Value("Workload", TRUE, "batch"), prefix |-> Value("float", TRUE, 80)],
     [users |-> Value("int", TRUE, 3)]}

Ask(framing, id, method, params) ==
    [framing |-> framing, body |-> "object", id |-> id, method |-> method, params |-> params]
Call(id, tool, args) == Ask(LINE, id, "tools/call", [name |-> tool, arguments |-> args])
Item(framing, body) == [framing |-> framing, body |-> body]
MCWire ==
    {Item(LINE, "malformed"), Item(LINE, "undecodable"), Item(HEADER, "empty array"),
     Item(HEADER, "cut off"), Ask(LINE, NoId, "notifications/initialized", <<>>),
     Ask(LINE, 4, "tools/call", [garbled |-> TRUE]), Ask(HEADER, 5, "resources/list", <<>>),
     Ask(LINE, 2, "resources/read", [uri |-> "~b"]),
     Call(6, "onpar_receipt", [path |-> "a"]), Call(8, "onpar_fit", [context |-> "bad"])}
MCFiles == <<"a", "~b">>
MCHomes == "~b" :> NoHome

Org(owner, name) == [owner |-> owner, name |-> name]

Config == [object |-> TRUE, layers |-> <<4>>, attn |-> <<8>>, kv |-> <<2>>, hidden |-> <<64>>,
           dim |-> <<>>, ctx |-> <<0, 32>>, rank |-> <<>>, looks_mla |-> FALSE]
MCConfigs == (Org("org", "alpha") :> Config) @@ (Org("other", "alpha") :> [Config EXCEPT !.rank = <<5>>])
          @@ (Org("org", "dense") :> [Config EXCEPT !.kv = <<>>])
          @@ (Org("org", "hidden") :> [Config EXCEPT !.looks_mla = TRUE])

Row(id, repo) == [form |-> "ok", id |-> id, repo |-> repo, params_b |-> 7, quants |-> {"q4"},
                  layers |-> 4, kv_heads |-> 8, head_dim |-> 8, kv_scheme |-> "mla",
                  max_context |-> 64, kv_lora_rank |-> 9, verified |-> FALSE]
MCShipped == <<Row("dense", Org("org", "dense")), Row("own", NoRepo)>>
MCDocuments == {[parses |-> TRUE, models |-> <<Row("dense", Org("org", "alpha"))>>],
                [parses |-> TRUE, models |-> <<[Row("dense", NoRepo) EXCEPT !.kv_lora_rank = 0]>>]}
MCIndex == <<[repo |-> NoRepo, trending |-> 9, downloads |-> 1],
             [repo |-> Org("other", "alpha"), trending |-> 1, downloads |-> 4],
             [repo |-> Org("org", "hidden"), trending |-> 5, downloads |-> 4],
             [repo |-> Org("org", "alpha"), trending |-> 1, downloads |-> 5],
             [repo |-> Org("org", "dense"), trending |-> -1, downloads |-> 5]>>
MCAddArgs == {[params_b |-> 7, quants |-> {"q4"}], [params_b |-> 7, quants |-> {"int4"}]}
MCEnv == <<>>
MCDropIns == <<"alpha", "mine">>

\* The three share no state: a behaviour is a conversation, a session of the
\* server, or the life of a catalogue.
Untouched == clock = 2 /\ cache = <<>> /\ staged = <<>> /\ faults = 0 /\ timer = "none"
             /\ {reader, watcher, updater, adder} = {NoRun}
Unopened == sent = <<>> /\ edits = 0
Unspoken == turns = 0 /\ saved = Nothing

mcvars == <<svars, mvars, catvars>>
MCInit == SessionInit /\ McpInit /\ CatalogInit
MCNext ==
    \/ Unopened /\ Untouched /\ SessionNext /\ UNCHANGED <<mvars, catvars>>
    \/ Unspoken /\ Untouched /\ McpNext /\ UNCHANGED <<svars, catvars>>
    \/ Unspoken /\ Unopened /\ timer = "none" /\ Maintained /\ UNCHANGED <<svars, mvars>>
    \/ /\ Unspoken /\ Unopened /\ timer # "none"
       /\ Watched \/ Adding \/ TakeOut
       /\ UNCHANGED <<svars, mvars>>
WatchStep == Unspoken /\ Unopened /\ Watch /\ UNCHANGED <<svars, mvars>>
MCSpec == MCInit /\ [][MCNext]_mcvars /\ WF_mcvars(WatchStep)
=============================================================================
