------------------------------ MODULE HubCache ------------------------------
(***************************************************************************)
(* The weights on disk (cache.py): `onpar cache pin`, `unpin`, `ls` and    *)
(* `evict` against the engines' own cache, which the engines write to and  *)
(* read from meanwhile.  Two commands may run at once; each reads the pins *)
(* at its start and acts on what it read.                                  *)
(***************************************************************************)
EXTENDS Integers, Sequences, FiniteSets, SequencesExt, Functions

CONSTANTS Procs,      \* commands running at once
          Repos,      \* repos that may be cached
          Size,       \* repo -> its bytes
          Roots,      \* cache roots, of the environments commands run in
          Default,    \* the root of an environment that says nothing
          Budgets,    \* budgets that may be asked for
          MaxOps      \* bound: commands, downloads and uses

ASSUME HubCacheAssumption ==
    IsFiniteSet(Repos) /\ Default \in Roots /\ Size \in [Repos -> Nat]

NoBudget == -1

Blank == [pinned |-> {}, budget |-> NoBudget]

VARIABLES
    disk,      \* the repos in the default root, least recently used first
    state,     \* cache.json: its shape, and the state of each root
    cmd,       \* command -> what it does and what it has read
    ops,
    overlap,   \* roots whose saved pins an overlapping command may have lost
    handed,    \* roots whose pins an old file's first save filed under another
    wanted     \* root -> the pins people were told they have

hubVars == <<disk, state, cmd, ops, overlap, handed, wanted>>

NoCommand == [at |-> "none"]

-----------------------------------------------------------------------------
(* The state file                                                          *)

\* Unreadable or not an object is empty; a flat file, from before pins were
\* per root, speaks of the root of the command that reads it (env).
AllStates(f, env) ==
    CASE f.shape = "corrupt" -> <<>>
      [] f.shape = "flat"    -> [r \in {env} |-> f.body]
      [] OTHER               -> f.body

\* Every command asks for the root of its own environment.
LoadState(f, root) ==
    LET all == AllStates(f, root) IN IF root \in DOMAIN all THEN all[root] ELSE Blank

\* Mutant: only this root's state is written back.
SaveStateAlone(f, root, st) == [shape |-> "keyed", body |-> [r \in {root} |-> st]]

\* Every other root is read again from the file, this one is overwritten.
SaveState(f, root, st) ==
    LET all == AllStates(f, root)
    IN  [shape |-> "keyed",
         body |-> [r \in DOMAIN all \cup {root} |-> IF r = root THEN st ELSE all[r]]]

-----------------------------------------------------------------------------
(* Eviction                                                                *)

Bytes(S) == FoldFunctionOnSet(+, 0, Size, S)

\* Usage.over_by: no budget is never over.
OverBy(usage, budget) ==
    IF budget = NoBudget \/ usage <= budget THEN 0 ELSE usage - budget

\* Mutant: the pins are not taken out of the candidates.
EvictableAll(items, pinned) == DOMAIN items

\* The candidates, by their place in the order of last use.
Evictable(items, pinned) == {i \in DOMAIN items : items[i] \notin pinned}

\* What is left when the candidates before a place are gone.
Left(items, pinned, i) ==
    Bytes(Range(items) \ {items[j] : j \in {k \in Evictable(items, pinned) : k < i}})

\* The least recently used first, until what remains is within the budget.
PlanEviction(items, budget, pinned) ==
    LET candidates == Evictable(items, pinned)
        evict == {i \in candidates :
                     \A j \in candidates : j <= i => Left(items, pinned, j) > budget}
    IN  [evict |-> evict, kept |-> Range(items) \cap pinned,
         short |-> OverBy(Bytes(Range(items) \ {items[i] : i \in evict}), budget)]

-----------------------------------------------------------------------------
HubInit ==
    /\ disk \in SetToSeqs(Repos)
    /\ \E p \in SUBSET Repos :
         LET old == [pinned |-> p, budget |-> NoBudget]
         IN  \/ state = [shape |-> "flat", body |-> old] /\ wanted = [r \in Roots |-> p]
             \/ state = [shape |-> "keyed", body |-> [r \in Roots |-> old]]
                /\ wanted = [r \in Roots |-> p]
             \/ p = {} /\ state = [shape |-> "corrupt"] /\ wanted = [r \in Roots |-> {}]
    /\ cmd = [p \in Procs |-> NoCommand]
    /\ ops = 0 /\ overlap = {} /\ handed = {}

Counted == ops < MaxOps /\ ops' = ops + 1

\* What a command is to do, by the state it read of its root; a pin or an
\* unpin that changes nothing saves nothing.
CommandFor(kind, r, repo, b) ==
    LET st == LoadState(state, r)
        budget == IF b = NoBudget THEN st.budget ELSE b
        save(new) == [at |-> "save", root |-> r, old |-> st.pinned, st |-> new]
    IN  CASE kind = "pin" /\ repo \notin st.pinned -> save([st EXCEPT !.pinned = @ \cup {repo}])
          [] kind = "unpin" /\ repo \in st.pinned  -> save([st EXCEPT !.pinned = @ \ {repo}])
          [] kind = "ls" /\ budget # st.budget     -> save([st EXCEPT !.budget = budget])
          [] kind = "evict" /\ budget # NoBudget   ->
               [at |-> "plan", root |-> r, budget |-> budget, pinned |-> st.pinned]
          [] OTHER -> NoCommand

\* The command line is read, and with it the state of its root: hub_dir()
\* honours the environment, so two commands may speak of different roots.
Start(p) ==
    /\ cmd[p] = NoCommand
    /\ \E kind \in {"pin", "unpin", "ls", "evict"}, r \in Roots, repo \in Repos, b \in Budgets :
         /\ kind \in {"ls", "evict"} => repo = CHOOSE x \in Repos : TRUE
         /\ kind \in {"pin", "unpin"} => b = NoBudget
         /\ kind = "evict" => r = Default
         /\ cmd' = [cmd EXCEPT ![p] = CommandFor(kind, r, repo, b)]
    /\ Counted
    /\ UNCHANGED <<disk, state, overlap, handed, wanted>>

\* save_state: what the command read of its own root is written back, whatever
\* the file holds by now; no lock spans the two.
Save(p) ==
    /\ cmd[p].at = "save"
    /\ LET c == cmd[p]
       IN  /\ state' = SaveState(state, c.root, c.st)
           /\ wanted' = [wanted EXCEPT ![c.root] =
                            (@ \cup (c.st.pinned \ c.old)) \ (c.old \ c.st.pinned)]
           /\ overlap' = overlap \cup
                {r \in Roots : \E q \in Procs \ {p} : cmd[q].at = "save" /\ cmd[q].root = r
                                                      /\ r = c.root}
           /\ handed' = IF state.shape = "flat" THEN Roots \ {c.root} ELSE handed
    /\ cmd' = [cmd EXCEPT ![p] = NoCommand]
    /\ UNCHANGED <<disk, ops>>

\* A save that fails, or the process killed before it.
SaveFails(p) ==
    /\ cmd[p].at = "save"
    /\ cmd' = [cmd EXCEPT ![p] = NoCommand]
    /\ UNCHANGED <<disk, state, ops, overlap, handed, wanted>>

\* entries() and plan_eviction(); without --yes, or with nothing to do, the
\* command ends here.
MakePlan(p) ==
    /\ cmd[p].at = "plan"
    /\ LET victims == PlanEviction(disk, cmd[p].budget, cmd[p].pinned).evict
       IN  \/ cmd' = [cmd EXCEPT ![p] = NoCommand]
           \/ victims # {} /\ cmd' = [cmd EXCEPT ![p] =
                 [at |-> "evict", pinned |-> @.pinned, budget |-> @.budget, seen |-> disk,
                  root |-> @.root, todo |-> victims]]
    /\ UNCHANGED <<disk, state, ops, overlap, handed, wanted>>

\* The repo whose turn it is.
Victim(c) == c.seen[Min(c.todo)]

\* One rmtree.  One that fails, or finds the repo gone, is reported and the
\* next goes on.
Evict(p) ==
    /\ cmd[p].at = "evict"
    /\ LET rest == cmd[p].todo \ {Min(cmd[p].todo)}
       IN  /\ disk' \in {disk, RemoveFirst(disk, Victim(cmd[p]))}
           /\ cmd' = [cmd EXCEPT ![p] = IF rest = {} THEN NoCommand ELSE [@ EXCEPT !.todo = rest]]
    /\ UNCHANGED <<state, ops, overlap, handed, wanted>>

\* An engine downloads a repo or reads one: it is the most recently used.
Use(e) ==
    /\ disk' = Append(RemoveFirst(disk, e), e)
    /\ Counted
    /\ UNCHANGED <<state, cmd, overlap, handed, wanted>>

HubNext ==
    \/ \E p \in Procs : Start(p) \/ Save(p) \/ SaveFails(p) \/ MakePlan(p) \/ Evict(p)
    \/ \E e \in Repos : Use(e)

HubSpec == HubInit /\ [][HubNext]_hubVars

-----------------------------------------------------------------------------
(* Properties                                                              *)

Gone == Range(disk) \ Range(disk')

\* What goes goes by an eviction whose turn it is, and none deletes a repo that
\* was pinned when its command began, or one more recently used than a repo it
\* could have deleted and kept: with every older candidate gone, what the plan
\* had seen was still over the budget (plan_eviction, apply_eviction).
EvictionKeepsPinsAndRecency ==
    [][\A e \in Gone : \E p \in Procs :
          /\ cmd[p].at = "evict" /\ Victim(cmd[p]) = e /\ e \notin cmd[p].pinned
          /\ LET s == cmd[p].seen
                 older == {s[k] : k \in 1..(Min(cmd[p].todo) - 1)} \ cmd[p].pinned
             IN  Bytes(Range(s) \ older) > cmd[p].budget]_hubVars

\* The pins on disk are those people were told of, unless two commands on one
\* root overlapped, or the first save over an old flat file was another root's:
\* any other command leaves the pins of a root that is not its own, and an old
\* file keeps its pins for the root that is saved first (save_state, _all_states).
PinsAsTold ==
    \A r \in Roots \ (overlap \cup handed) : wanted[r] = LoadState(state, r).pinned
=============================================================================
