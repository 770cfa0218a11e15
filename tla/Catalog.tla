------------------------------ MODULE Catalog -------------------------------
(* The model catalogue (catalog.py), its checks against the models' own     *)
(* published configs (catalog_update.py), the watch that stages what it     *)
(* does not carry (watch.py), and the commands that write its files.        *)
(*                                                                          *)
(* Four processes share the disk: a long-lived reader with a cache (the MCP *)
(* server), a scheduled watch, `catalog --apply`, and `catalog-add`.        *)
(* A number that is 0 is absent (None); one below 0 is of the wrong type.   *)
EXTENDS Integers, Sequences, FiniteSets, SequencesExt, Functions

CONSTANTS
    Shipped,       \* the rows of models.json as installed
    EnvFiles,      \* files $ONPAR_CATALOG names, there or not
    DropInFiles,   \* the names a file of models.d may have, in sorted order
    Documents,     \* what someone may put there
    Index,         \* what the public index lists: a sequence of rows
    Configs,       \* the config.json of each repo
    AddArgs,       \* what `catalog-add` may be told: params_b and quants
    MAX_PER_RUN,   \* models one watch stages
    CacheLimit,    \* parsed catalogues kept
    MaxWrites,     \* bound: writes to the catalogue's files
    MaxFaults      \* bound: failed fetches and killed runs

VARIABLES
    disk,          \* catalogue files: path -> [doc, mtime]
    clock,         \* the mtime of the next write
    cache,         \* _CACHE: fingerprint -> models by id
    reader,        \* the load() under way in the server
    staged,        \* staging_dir(): name -> [parses, repo]
    watcher,       \* the run under way
    updater,       \* proposals being reviewed
    adder,         \* the catalog-add under way
    timer,         \* the watch's schedule: "none", or how it stands since the boot
    faults

catvars == <<disk, clock, cache, reader, staged, watcher, updater, adder, timer, faults>>

BuiltIn == "models.json"
NoRun == [at |-> "idle"]
NoRepo == [owner |-> "", name |-> ""]

\* A dict after d[k] = v.
With(d, k, v) == [x \in DOMAIN d \cup {k} |-> IF x = k THEN v ELSE d[x]]

-----------------------------------------------------------------------------
(* A published config                                                      *)

\* The first alias that holds a positive whole number; 0 when none does.
FirstInt(values) ==
    LET usable == SelectSeq(values, LAMBDA v : v > 0)
    IN  IF usable = <<>> THEN 0 ELSE usable[1]

KvHeads(cfg) == FirstInt(cfg.kv \o cfg.attn)

HeadDim(cfg) ==
    LET dim == FirstInt(cfg.dim)
        attn == FirstInt(cfg.attn)
    IN  IF dim > 0 THEN dim ELSE IF attn > 0 THEN FirstInt(cfg.hidden) \div attn ELSE 0

\* What cannot be derived is refused, and so is a config that looks like MLA
\* and gives no rank.
ConfigError(cfg) ==
    \/ ~cfg.object
    \/ FirstInt(cfg.layers) = 0
    \/ KvHeads(cfg) = 0
    \/ FirstInt(cfg.dim) = 0 /\ (FirstInt(cfg.hidden) = 0 \/ FirstInt(cfg.attn) = 0)
    \/ FirstInt(cfg.ctx) = 0
    \/ FirstInt(cfg.rank) = 0 /\ cfg.looks_mla

ParseConfig(cfg) ==
    [layers       |-> FirstInt(cfg.layers),
     kv_heads     |-> KvHeads(cfg),
     head_dim     |-> HeadDim(cfg),
     kv_scheme    |-> IF FirstInt(cfg.rank) > 0 THEN "mla"
                      ELSE IF KvHeads(cfg) < FirstInt(cfg.attn) THEN "gqa" ELSE "mha",
     max_context  |-> FirstInt(cfg.ctx),
     kv_lora_rank |-> FirstInt(cfg.rank)]

SOLVER_FIELDS ==
    {"layers", "kv_heads", "head_dim", "kv_scheme", "max_context", "kv_lora_rank"}

\* The built-in file lies apart from those people put in, and its rows have
\* every field.
ASSUME CatalogAssumption ==
    /\ BuiltIn \notin Range(EnvFiles) \cup Range(DropInFiles)
                          \cup {repo.name : repo \in DOMAIN Configs}
    /\ \A i \in DOMAIN Shipped : SOLVER_FIELDS \cup {"verified"} \subseteq DOMAIN Shipped[i]

-----------------------------------------------------------------------------
(* The catalogue's files                                                   *)

_KNOWN_QUANTS == {"fp16", "bf16", "fp8", "q8", "q6", "q5", "q4", "q3"}

_check_types(row) ==
    /\ \A f \in {"params_b", "layers", "kv_heads", "head_dim", "max_context"} : row[f] > 0
    /\ row.kv_lora_rank >= 0
    /\ row.quants # {}

_check_invariants(row) ==
    /\ row.kv_scheme \in {"mha", "gqa", "mla"}
    /\ row.kv_scheme = "mla" => row.kv_lora_rank > 0
    /\ row.quants \subseteq _KNOWN_QUANTS

\* form is "ok" when the row is an object with an id, every field ModelSpec
\* needs and none it does not know.
Legal(row) == row.form = "ok" /\ _check_types(row) /\ _check_invariants(row)

\* sources(): a file the environment names is read whether it exists or not.
\* They are read in this order; a drop-in comes after the rest.
Sources(d) == {BuiltIn} \cup Range(EnvFiles) \cup (Range(DropInFiles) \cap DOMAIN d)
Place(p) == LET order == <<BuiltIn>> \o EnvFiles \o DropInFiles
            IN  CHOOSE k \in DOMAIN order : order[k] = p /\ \A i \in DOMAIN order : order[i] = p => i <= k

Readable(d, p) ==
    p \in DOMAIN d /\ d[p].doc.parses /\ \A i \in DOMAIN d[p].doc.models : Legal(d[p].doc.models[i])

Fingerprint(d) ==
    [p \in Sources(d) |->
        IF p \in DOMAIN d THEN <<d[p].mtime, Len(d[p].doc.models)>> ELSE <<0, 0>>]

\* A later row with the same id wins, in its file and among the files.
ById(files) ==
    LET at(id) == {w \in UNION {{p} \X DOMAIN files[p] : p \in DOMAIN files} :
                       files[w[1]][w[2]].id = id}
        later(v, w) == \/ Place(v[1]) < Place(w[1])
                       \/ v[1] = w[1] /\ v[2] <= w[2]
        last(id) == CHOOSE w \in at(id) : \A v \in at(id) : later(v, w)
    IN  [id \in UNION {{files[p][i].id : i \in DOMAIN files[p]} : p \in DOMAIN files} |->
            files[last(id)[1]][last(id)[2]]]

Loadable(d) == \A p \in Sources(d) : Readable(d, p)

\* load(), uninterrupted, in a process of its own.
Loaded(d) == ById([p \in Sources(d) |-> d[p].doc.models])

KnownRepos(d) == {Loaded(d)[id].repo : id \in DOMAIN Loaded(d)} \ {NoRepo}

-----------------------------------------------------------------------------
(* load() in the server: the fingerprint first, then the files one by one  *)

LoadBegin ==
    /\ reader = NoRun
    /\ Fingerprint(disk) \notin DOMAIN cache
    /\ reader' = [at |-> "reading", key |-> Fingerprint(disk), files |-> <<>>]
    /\ UNCHANGED <<disk, clock, cache, staged, watcher, updater, adder, timer, faults>>

\* What cannot be read or is not legal is raised, and nothing is kept.
Unread == DOMAIN reader.key \ DOMAIN reader.files
LoadRead ==
    /\ reader.at = "reading"
    /\ \E p \in Unread :
          /\ \A q \in Unread : Place(p) <= Place(q)
          /\ reader' = IF Readable(disk, p)
                       THEN [reader EXCEPT !.files = With(@, p, disk[p].doc.models)]
                       ELSE NoRun
    /\ UNCHANGED <<disk, clock, cache, staged, watcher, updater, adder, timer, faults>>

\* Mutant: the fingerprint is taken once the files were read.
LoadEndKeyedLate ==
    /\ reader.at = "reading"
    /\ Unread = {}
    /\ cache' = With(IF Cardinality(DOMAIN cache) > CacheLimit THEN <<>> ELSE cache,
                     Fingerprint(disk), ById(reader.files))
    /\ reader' = NoRun
    /\ UNCHANGED <<disk, clock, staged, watcher, updater, adder, timer, faults>>

LoadEnd ==
    /\ reader.at = "reading"
    /\ Unread = {}
    /\ cache' = With(IF Cardinality(DOMAIN cache) > CacheLimit THEN <<>> ELSE cache,
                     reader.key, ById(reader.files))
    /\ reader' = NoRun
    /\ UNCHANGED <<disk, clock, staged, watcher, updater, adder, timer, faults>>

-----------------------------------------------------------------------------
(* Writing the catalogue's files                                           *)

Write(p, doc) ==
    /\ clock <= MaxWrites
    /\ disk' = With(disk, p, [doc |-> doc, mtime |-> clock])
    /\ clock' = clock + 1

Torn == [parses |-> FALSE, models |-> <<>>]

\* Someone copies a file in, or takes one out.
DropIn ==
    /\ \E p \in Range(DropInFiles) \cup Range(EnvFiles), doc \in Documents : Write(p, doc)
    /\ UNCHANGED <<cache, reader, staged, watcher, updater, adder, timer, faults>>

TakeOut ==
    /\ \E p \in DOMAIN disk \ {BuiltIn} : disk' = [q \in DOMAIN disk \ {p} |-> disk[q]]
    /\ UNCHANGED <<clock, cache, reader, staged, watcher, updater, adder, timer, faults>>

\* cmd_catalog_add: the row is what the config and the arguments say, and is
\* not checked; write_text truncates first.
AddedRow(repo, args) ==
    LET arch == ParseConfig(Configs[repo])
    IN  [form |-> "ok", id |-> repo.name, repo |-> repo, params_b |-> args.params_b,
         quants |-> args.quants, verified |-> FALSE,
         layers |-> arch.layers, kv_heads |-> arch.kv_heads, head_dim |-> arch.head_dim,
         kv_scheme |-> arch.kv_scheme, max_context |-> arch.max_context,
         kv_lora_rank |-> arch.kv_lora_rank]

AddTruncate ==
    \E repo \in DOMAIN Configs, args \in AddArgs :
        /\ adder = NoRun
        /\ ~ConfigError(Configs[repo])
        /\ Write(repo.name, Torn)
        /\ adder' = [at |-> "writing", row |-> AddedRow(repo, args)]
        /\ UNCHANGED <<cache, reader, staged, watcher, updater, timer, faults>>

AddWrite ==
    /\ adder.at = "writing"
    /\ Write(adder.row.id, [parses |-> TRUE, models |-> <<adder.row>>])
    /\ adder' = NoRun
    /\ UNCHANGED <<cache, reader, staged, watcher, updater, timer, faults>>

AddKilled ==
    /\ adder.at = "writing" /\ faults < MaxFaults
    /\ adder' = NoRun /\ faults' = faults + 1
    /\ UNCHANGED <<disk, clock, cache, reader, staged, watcher, updater, timer>>

-----------------------------------------------------------------------------
(* Checked against the published configs                                   *)

\* Mutant: a value the config no longer has is not a change.
ProposeWhatIsThere(row) ==
    LET arch == ParseConfig(Configs[row.repo])
    IN  [id |-> row.id,
         changes |-> {<<f, arch[f]>> : f \in {g \in SOLVER_FIELDS : row[g] # arch[g] /\
                                                g = "kv_lora_rank" => arch[g] > 0}},
         now_verified |-> ~row.verified]

\* propose(), of an entry whose config was fetched and parsed.
Propose(row) ==
    LET arch == ParseConfig(Configs[row.repo])
    IN  [id |-> row.id,
         changes |-> {<<f, arch[f]>> : f \in {g \in SOLVER_FIELDS : row[g] # arch[g]}},
         now_verified |-> ~row.verified]

HasChanges(p) == p.changes # {} \/ p.now_verified

\* cmd_catalog: every entry with a repo; one that could not be fetched or
\* parsed is reported and proposes nothing.
Review ==
    /\ updater = NoRun
    /\ Loadable(disk)
    /\ \E failed \in SUBSET DOMAIN Configs :
          /\ faults + Cardinality(failed) <= MaxFaults
          /\ faults' = faults + Cardinality(failed)
          /\ LET specs == {r \in Range(Loaded(disk)) : r.repo # NoRepo}
             IN  updater' = [at |-> "reviewed", specs |-> specs, proposals |->
                    {Propose(row) : row \in {r \in specs :
                        r.repo \in DOMAIN Configs \ failed /\ ~ConfigError(Configs[r.repo])}}]
    /\ UNCHANGED <<disk, clock, cache, reader, staged, watcher, adder, timer>>

Revised(row, p) ==
    [f \in DOMAIN row |->
        IF f = "verified" THEN row.verified \/ p.now_verified
        ELSE IF \E c \in p.changes : c[1] = f THEN (CHOOSE c \in p.changes : c[1] = f)[2]
        ELSE row[f]]

\* by_id: the row of an id is the last of them.
LastOfId(rows, i) == \A j \in DOMAIN rows : rows[j].id = rows[i].id => j <= i

\* apply_proposals: into the built-in file, whole or not at all; an entry it
\* does not have is passed over.
Applied(rows, proposals) ==
    [i \in DOMAIN rows |->
        LET mine == {p \in proposals : p.id = rows[i].id /\ HasChanges(p)}
        IN  IF mine = {} \/ ~LastOfId(rows, i) THEN rows[i]
            ELSE Revised(rows[i], CHOOSE p \in mine : TRUE)]

Apply ==
    /\ updater.at = "reviewed"
    /\ LET rows == disk[BuiltIn].doc.models
           updated == {p \in updater.proposals :
                          HasChanges(p) /\ p.id \in {rows[i].id : i \in DOMAIN rows}}
       IN  IF updated = {} THEN UNCHANGED <<disk, clock>>
           ELSE Write(BuiltIn, [parses |-> TRUE, models |-> Applied(rows, updated)])
    /\ updater' = NoRun
    /\ UNCHANGED <<cache, reader, staged, watcher, adder, timer, faults>>

-----------------------------------------------------------------------------
(* The watch                                                               *)

\* What is no usable number counts as none.
Number(v) == IF v < 0 THEN 0 ELSE v

\* discover(): the rows that name a repo not carried, hottest first.
Discover(known) ==
    SortSeq(SelectSeq(Index, LAMBDA r : r.repo # NoRepo /\ r.repo \notin known),
            LAMBDA a, b : \/ Number(a.trending) > Number(b.trending)
                          \/ /\ Number(a.trending) = Number(b.trending)
                             /\ Number(a.downloads) > Number(b.downloads))

\* Mutant: a staged file is named for the model's id.
NamedById(repo) == repo.name

\* staged_name(): a digest of the whole repo.
StagedName(repo) == <<repo.owner, repo.name>>

\* run(): no catalogue, no run; an unreachable index is reported, and nothing
\* new is a run that ends.
Begun ==
    IF ~Loadable(disk) THEN NoRun
    ELSE LET found == Discover(KnownRepos(disk))
         IN  IF found = <<>> THEN NoRun ELSE [at |-> "next", todo |-> found, added |-> 0]
BeginRun == watcher = NoRun /\ watcher' = Begun

\* launchd counts its interval from when the job was loaded; systemd counts
\* OnUnitActiveSec= from the last activation of the service, if there was one.
Firing == {"interval", "armed"}

WatchBegin ==
    /\ timer \in Firing /\ Begun # NoRun /\ BeginRun
    /\ UNCHANGED <<disk, clock, cache, reader, staged, updater, adder, timer, faults>>

\* `onpar watch --network`: no activation of the service.
RunByHand ==
    /\ BeginRun
    /\ UNCHANGED <<disk, clock, cache, reader, staged, updater, adder, timer, faults>>

\* systemctl --user start onpar-watch.service
StartService ==
    /\ timer = "waiting" /\ timer' = "armed"
    /\ BeginRun
    /\ UNCHANGED <<disk, clock, cache, reader, staged, updater, adder, faults>>

WatchSkip(w) == [w EXCEPT !.todo = Tail(@), !.at = "next"]

\* One candidate: past the cap, unreadable config and already staged are
\* skipped; a staged file that does not parse is written again.
WatchReads ==
    /\ watcher.at = "next" /\ watcher.todo # <<>>
    /\ LET repo == Head(watcher.todo).repo
           there == StagedName(repo) \in DOMAIN staged
       IN  watcher' = IF \/ watcher.added >= MAX_PER_RUN
                         \/ ConfigError(Configs[repo])
                         \/ there /\ staged[StagedName(repo)].parses
                      THEN WatchSkip(watcher)
                      ELSE [watcher EXCEPT !.at = "write"]
    /\ UNCHANGED <<disk, clock, cache, reader, staged, updater, adder, timer, faults>>

WatchFetchFails ==
    /\ watcher.at = "next" /\ watcher.todo # <<>> /\ watcher.added < MAX_PER_RUN
    /\ faults < MaxFaults /\ faults' = faults + 1
    /\ watcher' = WatchSkip(watcher)
    /\ UNCHANGED <<disk, clock, cache, reader, staged, updater, adder, timer>>

Staging(name, parses, repo) == With(staged, name, [parses |-> parses, repo |-> repo])

\* path.write_text: truncated, then written.
WatchTruncates ==
    /\ watcher.at = "write"
    /\ staged' = Staging(StagedName(Head(watcher.todo).repo), FALSE, NoRepo)
    /\ watcher' = [watcher EXCEPT !.at = "writing"]
    /\ UNCHANGED <<disk, clock, cache, reader, updater, adder, timer, faults>>

WatchWrites ==
    /\ watcher.at = "writing"
    /\ LET repo == Head(watcher.todo).repo
       IN  staged' = Staging(StagedName(repo), TRUE, repo)
    /\ watcher' = [WatchSkip(watcher) EXCEPT !.added = @ + 1]
    /\ UNCHANGED <<disk, clock, cache, reader, updater, adder, timer, faults>>

WatchEnd ==
    /\ watcher.at = "next" /\ watcher.todo = <<>>
    /\ watcher' = NoRun
    /\ UNCHANGED <<disk, clock, cache, reader, staged, updater, adder, timer, faults>>

\* The laptop goes to sleep.
WatchKilled ==
    /\ watcher # NoRun /\ faults < MaxFaults
    /\ watcher' = NoRun /\ faults' = faults + 1
    /\ UNCHANGED <<disk, clock, cache, reader, staged, updater, adder, timer>>

\* Someone deletes a staged file.
Discard ==
    /\ faults < MaxFaults /\ faults' = faults + 1
    /\ \E n \in DOMAIN staged : staged' = [m \in DOMAIN staged \ {n} |-> staged[m]]
    /\ UNCHANGED <<disk, clock, cache, reader, watcher, updater, adder, timer>>

\* Every process goes with the machine; the timers are loaded again, and the
\* service has not been activated yet.  Persistent= is for OnCalendar= only.
Reboot ==
    /\ faults < MaxFaults /\ faults' = faults + 1
    /\ cache' = <<>> /\ reader' = NoRun
    /\ watcher' = NoRun /\ updater' = NoRun /\ adder' = NoRun
    /\ timer' = IF timer = "armed" THEN "waiting" ELSE timer
    /\ UNCHANGED <<disk, clock, staged>>

-----------------------------------------------------------------------------

CatalogInit ==
    /\ disk = [p \in {BuiltIn} |-> [doc |-> [parses |-> TRUE, models |-> Shipped], mtime |-> 1]]
    /\ clock = 2
    /\ timer \in {"none", "interval", "waiting"}
    /\ cache = <<>> /\ staged = <<>> /\ faults = 0
    /\ reader = NoRun /\ watcher = NoRun /\ updater = NoRun /\ adder = NoRun

Load == LoadBegin \/ LoadRead \/ LoadEnd
Watch == WatchBegin \/ WatchReads \/ WatchTruncates \/ WatchWrites \/ WatchEnd
Adding == AddTruncate \/ AddWrite \/ AddKilled
Maintained == Load \/ DropIn \/ TakeOut \/ Adding \/ Review \/ Apply
Watched ==
    Watch \/ RunByHand \/ StartService \/ WatchFetchFails \/ WatchKilled \/ Discard \/ Reboot
CatalogNext == Maintained \/ Watched

\* A timer that counts runs the watch again and again (install_schedule).
CatalogSpec == CatalogInit /\ [][CatalogNext]_catvars /\ WF_catvars(Watch)

-----------------------------------------------------------------------------
(* What the catalogue promises                                             *)

\* What the server would serve from its cache is what the files say now,
\* however they changed while it was reading them, as long as none that the
\* environment names is missing (load: the key is taken before the first read).
CacheIsCurrent ==
    Fingerprint(disk) \in DOMAIN cache /\ Sources(disk) \subseteq DOMAIN disk =>
        Loadable(disk) /\ cache[Fingerprint(disk)] = Loaded(disk)

\* A row whose id has a proposal, which was made of that very row: not of a
\* drop-in's that stood in front of it, and may be gone by now.
WasReviewed(rows, i) ==
    /\ LastOfId(rows, i)
    /\ \E p \in updater.proposals : p.id = rows[i].id
    /\ {s \in updater.specs : s.id = rows[i].id} = {rows[i]}

\* An update that is applied leaves each entry that was reviewed saying what its
\* config says, whatever was put in or taken out since the review, and an entry
\* of which nothing was proposed as it was (propose, apply_proposals).
UpdateConfirms ==
    updater # NoRun /\ disk'[BuiltIn] # disk[BuiltIn] =>
        LET rows == disk[BuiltIn].doc.models
            now == disk'[BuiltIn].doc.models
        IN  /\ DOMAIN now = DOMAIN rows
            /\ \A i \in DOMAIN rows :
                  /\ WasReviewed(rows, i) =>
                        now[i].verified /\ \A f \in SOLVER_FIELDS :
                            now[i][f] = ParseConfig(Configs[rows[i].repo])[f]
                  /\ (\A p \in updater.proposals : p.id # rows[i].id) => now[i] = rows[i]
AppliedIsConfirmed == [][UpdateConfirms]_catvars

Sizable == {repo \in {Index[i].repo : i \in DOMAIN Index} \cap DOMAIN Configs :
               ~ConfigError(Configs[repo])}
Found(repo) ==
    \/ Loadable(disk) /\ repo \in KnownRepos(disk)
    \/ /\ StagedName(repo) \in DOMAIN staged
       /\ staged[StagedName(repo)] = [parses |-> TRUE, repo |-> repo]

\* Every model the index lists, with a config that can be sized, ends up
\* staged or carried, as long as the catalogue loads: the cap, two repos of
\* one name, failed fetches and killed runs only put it off.  That is, where the
\* timer counts: of systemd's only once the service was activated since the boot.
EveryListedModelStaged ==
    <>[](timer \in Firing) /\ <>[]Loadable(disk) => \A repo \in Sizable : <>[]Found(repo)
=============================================================================
