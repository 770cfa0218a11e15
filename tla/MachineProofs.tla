---------------------------- MODULE MachineProofs ----------------------------
(***************************************************************************)
(* Proofs about one machine, for any roots, repositories, budgets, commands, *)
(* requests and processes.  HubCache: a pin a human was told of is lost only *)
(* to a command that overlapped it, and an eviction deletes what its plan    *)
(* was entitled to.  Launch: what is started fits as it will be allocated;   *)
(* what an engine left running after a stop is named, unless it had escaped  *)
(* before stop() looked.                                                     *)
(***************************************************************************)
EXTENDS Launch, HubCache, FiniteSetTheorems, SequenceTheorems, WellFoundedInduction, NaturalsInduction, TLAPS

-----------------------------------------------------------------------------
(* The pins (cache.py)                                                     *)

\* What cache.py keeps of one root, and of every root a state file speaks of.
RootState == [pinned : SUBSET Repos, budget : Budgets \cup {NoBudget}]

Keyed == UNION {[S -> RootState] : S \in SUBSET Roots}

\* The state file, in the shapes the code has written over time.
StateFiles == [shape : {"corrupt"}]
              \cup [shape : {"flat"}, body : RootState]
              \cup [shape : {"keyed"}, body : Keyed]

\* What a command that is about to save has read was what people were told,
\* unless another one saved meanwhile.
ReadAsTold(p) ==
    cmd[p].at = "save" =>
        /\ cmd[p].root \in Roots /\ cmd[p].st \in RootState
        /\ cmd[p].root \notin overlap \cup handed => cmd[p].old = wanted[cmd[p].root]

\* The inductive invariant of the pins: what a command is about to save, and
\* what was lost, is owed to another one that saved in between.
PinsTold ==
    /\ state \in StateFiles
    /\ wanted \in [Roots -> SUBSET Repos]
    /\ state.shape = "flat" => handed = {}
    /\ cmd = [p \in Procs |-> cmd[p]]
    /\ \A p \in Procs : "at" \in DOMAIN cmd[p] /\ ReadAsTold(p)
    /\ PinsAsTold

\* However a file is shaped, it says one thing of every root it speaks of.
LEMMA FileStates ==
    ASSUME NEW f \in StateFiles, NEW env \in Roots
    PROVE  AllStates(f, env) \in Keyed
<1>1. CASE f.shape = "corrupt"
  <2>1. AllStates(f, env) = [r \in {} |-> Blank]
    BY <1>1 DEF AllStates
  <2>2. [r \in {} |-> Blank] \in [{} -> RootState]
    OBVIOUS
  <2> QED BY <2>1, <2>2 DEF Keyed
<1>2. CASE f.shape = "flat"
  <2>1. f.body \in RootState
    BY <1>2 DEF StateFiles
  <2>2. AllStates(f, env) \in [{env} -> RootState]
    BY <1>2, <2>1 DEF AllStates
  <2> QED BY <2>2 DEF Keyed
<1>3. CASE f.shape = "keyed"
  BY <1>3 DEF AllStates, StateFiles
<1> QED BY <1>1, <1>2, <1>3 DEF StateFiles

\* What is loaded for a root is a state.
LEMMA Loaded ==
    ASSUME NEW f \in StateFiles, NEW r \in Roots
    PROVE  LoadState(f, r) \in RootState
<1>1. PICK S \in SUBSET Roots : AllStates(f, r) \in [S -> RootState]
  BY FileStates DEF Keyed
<1>2. Blank \in RootState
  BY DEF Blank, RootState
<1> QED BY <1>1, <1>2 DEF LoadState

\* save_state changes what the file says of one root, and of no other.
LEMMA SavedStates ==
    ASSUME NEW f \in StateFiles, NEW root \in Roots, NEW st \in RootState
    PROVE  /\ SaveState(f, root, st) \in StateFiles
           /\ \A r \in Roots : LoadState(SaveState(f, root, st), r)
                                 = IF r = root THEN st
                                   ELSE IF f.shape = "flat" THEN Blank ELSE LoadState(f, r)
<1>1. PICK S \in SUBSET Roots : AllStates(f, root) \in [S -> RootState]
  BY FileStates DEF Keyed
<1> DEFINE all == AllStates(f, root)
           saved == [r \in DOMAIN all \cup {root} |-> IF r = root THEN st ELSE all[r]]
<1>2. saved \in [S \cup {root} -> RootState]
  BY <1>1
<1>3. saved \in Keyed
  BY <1>2 DEF Keyed
<1>4. SaveState(f, root, st) = [shape |-> "keyed", body |-> saved]
  BY DEF SaveState
<1>5. \A r : AllStates(SaveState(f, root, st), r) = saved
  BY <1>4 DEF AllStates
<1>6. SaveState(f, root, st) \in StateFiles
  BY <1>3, <1>4 DEF StateFiles
<1>7. ASSUME NEW r \in Roots
      PROVE  LoadState(SaveState(f, root, st), r)
               = IF r = root THEN st ELSE IF f.shape = "flat" THEN Blank ELSE LoadState(f, r)
  <2>1. LoadState(SaveState(f, root, st), r)
          = IF r \in DOMAIN all \cup {root} THEN IF r = root THEN st ELSE all[r] ELSE Blank
    BY <1>1, <1>5 DEF LoadState
  <2>2. CASE f.shape = "flat"
    <3>1. DOMAIN all = {root}
      BY <2>2 DEF AllStates
    <3> QED BY <2>1, <2>2, <3>1
  <2>3. CASE f.shape # "flat"
    <3>1. AllStates(f, r) = all
      BY <2>3 DEF AllStates
    <3> QED BY <2>1, <2>3, <3>1 DEF LoadState
  <2> QED BY <2>2, <2>3
<1> QED BY <1>6, <1>7

\* On a machine no command has run on, nothing was told.
LEMMA PinsToldInit == HubInit => PinsTold
<1> SUFFICES ASSUME HubInit PROVE PinsTold
  OBVIOUS
<1>1. cmd = [p \in Procs |-> NoCommand]
  BY DEF HubInit
<1>2. /\ cmd = [p \in Procs |-> cmd[p]]
      /\ \A p \in Procs : "at" \in DOMAIN cmd[p] /\ ReadAsTold(p)
  BY <1>1 DEF NoCommand, ReadAsTold
<1>0. handed = {}
  BY DEF HubInit
<1>3. PICK pins \in SUBSET Repos :
        LET old == [pinned |-> pins, budget |-> NoBudget]
        IN  \/ /\ state = [shape |-> "flat", body |-> old]
               /\ wanted = [r \in Roots |-> pins]
            \/ /\ state = [shape |-> "keyed", body |-> [r \in Roots |-> old]]
               /\ wanted = [r \in Roots |-> pins]
            \/ /\ pins = {} /\ state = [shape |-> "corrupt"]
               /\ wanted = [r \in Roots |-> {}]
  BY DEF HubInit
<1> DEFINE old == [pinned |-> pins, budget |-> NoBudget]
<1>4. old \in RootState /\ old.pinned = pins
  BY DEF RootState
<1> HIDE DEF old
<1>5. CASE state = [shape |-> "flat", body |-> old]
           /\ wanted = [r \in Roots |-> pins]
  <2>1. state \in StateFiles
    BY <1>4, <1>5 DEF StateFiles
  <2>2. PinsAsTold
    BY <1>4, <1>5 DEF PinsAsTold, LoadState, AllStates, Blank
  <2> QED BY <1>0, <1>2, <1>5, <2>1, <2>2 DEF PinsTold
<1>6. CASE state = [shape |-> "keyed", body |-> [r \in Roots |-> old]]
           /\ wanted = [r \in Roots |-> pins]
  <2>1. [r \in Roots |-> old] \in Keyed
    BY <1>4 DEF Keyed
  <2>2. state \in StateFiles
    BY <2>1, <1>6 DEF StateFiles
  <2>3. PinsAsTold
    BY <1>4, <1>6 DEF PinsAsTold, LoadState, AllStates
  <2> QED BY <1>0, <1>2, <1>6, <2>2, <2>3 DEF PinsTold
<1>7. CASE state = [shape |-> "corrupt"] /\ wanted = [r \in Roots |-> {}]
  <2>1. state \in StateFiles
    BY <1>7 DEF StateFiles
  <2>2. PinsAsTold
    BY <1>7 DEF PinsAsTold, LoadState, AllStates, Blank
  <2> QED BY <1>0, <1>2, <1>7, <2>1, <2>2 DEF PinsTold
<1> QED BY <1>3, <1>5, <1>6, <1>7 DEF old

\* What a command comes to by reading the pins of its root.
Enters(p, c) ==
    /\ cmd' = [cmd EXCEPT ![p] = c] /\ "at" \in DOMAIN c
    /\ c.at = "save" => /\ c.root \in Roots /\ c.st \in RootState
                        /\ c.old = LoadState(state, c.root).pinned

\* A command reads the state of its root, and changes what it read.
LEMMA CommandReads ==
    ASSUME PinsTold, NEW kind, NEW r \in Roots, NEW e \in Repos, NEW b \in Budgets, NEW c,
           c = CommandFor(kind, r, e, b)
    PROVE  /\ "at" \in DOMAIN c
           /\ c.at = "save" => /\ c.root \in Roots /\ c.st \in RootState
                               /\ c.old = LoadState(state, c.root).pinned
<1> DEFINE st == LoadState(state, r)
           budget == IF b = NoBudget THEN st.budget ELSE b
           save(new) == [at |-> "save", root |-> r, old |-> st.pinned, st |-> new]
           scan == [at |-> "plan", root |-> r, budget |-> budget, pinned |-> st.pinned]
<1>1. st \in RootState
  BY Loaded DEF PinsTold
<1>2. /\ [st EXCEPT !.pinned = @ \cup {e}] \in RootState
      /\ [st EXCEPT !.pinned = @ \ {e}] \in RootState
      /\ budget # st.budget => [st EXCEPT !.budget = budget] \in RootState
  BY <1>1 DEF RootState
<1>3. \/ c = save([st EXCEPT !.pinned = @ \cup {e}])
      \/ c = save([st EXCEPT !.pinned = @ \ {e}])
      \/ budget # st.budget /\ c = save([st EXCEPT !.budget = budget])
      \/ c = scan \/ c = NoCommand
  BY DEF CommandFor
<1>4. CASE c = scan \/ c = NoCommand
  <2>1. "at" \in DOMAIN scan /\ scan.at # "save" /\ "at" \in DOMAIN NoCommand /\ NoCommand.at # "save"
    BY DEF NoCommand
  <2> HIDE DEF scan
  <2> QED BY <1>4, <2>1
<1>5. ASSUME NEW s \in RootState, c = save(s)
      PROVE  "at" \in DOMAIN c /\ c.root = r /\ c.st = s /\ c.old = st.pinned
  BY <1>5
<1> HIDE DEF st, save, scan, budget
<1>6. ASSUME NEW s \in RootState, c = save(s)
      PROVE  /\ "at" \in DOMAIN c /\ c.root \in Roots /\ c.st \in RootState
             /\ c.old = LoadState(state, c.root).pinned
  BY <1>5, <1>6 DEF st
<1> QED BY <1>2, <1>3, <1>4, <1>6

\* Every command begins as one of those CommandFor makes.
LEMMA StartEnters ==
    ASSUME PinsTold, NEW p \in Procs, Start(p)
    PROVE  \E c : Enters(p, c)
<1>1. PICK kind \in {"pin", "unpin", "ls", "evict"}, r \in Roots, e \in Repos, b \in Budgets :
          cmd' = [cmd EXCEPT ![p] = CommandFor(kind, r, e, b)]
  BY DEF Start
<1> DEFINE c == CommandFor(kind, r, e, b)
<1>2. /\ "at" \in DOMAIN c
      /\ c.at = "save" => /\ c.root \in Roots /\ c.st \in RootState
                          /\ c.old = LoadState(state, c.root).pinned
  BY CommandReads
<1>3. cmd' = [cmd EXCEPT ![p] = c]
  BY <1>1
<1> HIDE DEF c
<1> QED BY <1>2, <1>3 DEF Enters

\* A command that starts has read what people were told of its root.
LEMMA StartTold ==
    ASSUME PinsTold, NEW p \in Procs, Start(p)
    PROVE  PinsTold'
<1>1. PICK c : Enters(p, c)
  BY StartEnters
<1>2. UNCHANGED <<state, overlap, handed, wanted>>
  BY DEF Start
<1>3. /\ PinsAsTold'
      /\ \A r \in Roots : LoadState(state, r)' = LoadState(state, r)
  BY <1>2 DEF PinsTold, PinsAsTold
<1>4. ASSUME NEW q \in Procs
      PROVE  ("at" \in DOMAIN cmd[q] /\ ReadAsTold(q))'
  BY <1>1, <1>2 DEF PinsTold, Enters, ReadAsTold, PinsAsTold
<1>5. cmd' = [q \in Procs |-> cmd'[q]]
  BY <1>1 DEF PinsTold, Enters
<1> QED BY <1>2, <1>3, <1>4, <1>5 DEF PinsTold

\* A save tells people what it wrote, and says which other commands it crosses.
LEMMA SaveTold ==
    ASSUME PinsTold, NEW p \in Procs, Save(p)
    PROVE  PinsTold'
<1> DEFINE c == cmd[p]
<1>1. /\ c.at = "save" /\ state' = SaveState(state, c.root, c.st)
      /\ wanted' = [wanted EXCEPT ![c.root] = (@ \cup (c.st.pinned \ c.old)) \ (c.old \ c.st.pinned)]
      /\ overlap' = overlap \cup
                {r \in Roots : \E q \in Procs \ {p} : cmd[q].at = "save" /\ cmd[q].root = r
                                                      /\ r = c.root}
      /\ handed' = (IF state.shape = "flat" THEN Roots \ {c.root} ELSE handed)
      /\ cmd' = [cmd EXCEPT ![p] = NoCommand]
  BY DEF Save
<1>2. /\ state \in StateFiles /\ wanted \in [Roots -> SUBSET Repos]
      /\ cmd = [q \in Procs |-> cmd[q]]
      /\ c.root \in Roots /\ c.st \in RootState /\ c.st.pinned \subseteq Repos
      /\ c.root \notin overlap \cup handed => c.old = wanted[c.root]
      /\ state.shape = "flat" => handed = {}
  BY <1>1 DEF PinsTold, ReadAsTold, RootState
<1> HIDE DEF c
<1>3. /\ state' \in StateFiles
      /\ \A r \in Roots : LoadState(state', r) =
            IF r = c.root THEN c.st
            ELSE IF state.shape = "flat" THEN Blank ELSE LoadState(state, r)
      /\ state'.shape = "keyed"
  <2>1. state'.shape = "keyed"
    BY <1>1 DEF SaveState
  <2> QED BY <1>1, <1>2, <2>1, SavedStates
<1>4. /\ wanted' \in [Roots -> SUBSET Repos]
      /\ \A r \in Roots \ {c.root} : wanted'[r] = wanted[r]
      /\ c.root \notin overlap \cup handed => wanted'[c.root] = c.st.pinned
  BY <1>1, <1>2
<1>5. PinsAsTold'
  BY <1>1, <1>3, <1>4 DEF PinsTold, PinsAsTold
<1>6. ASSUME NEW q \in Procs
      PROVE  ("at" \in DOMAIN cmd[q] /\ ReadAsTold(q))'
  <2>1. CASE q = p
    BY <1>1, <1>2, <2>1 DEF NoCommand, ReadAsTold
  <2>2. CASE q # p
    <3>1. cmd'[q] = cmd[q] /\ "at" \in DOMAIN cmd[q] /\ ReadAsTold(q)
      BY <1>1, <1>2, <2>2 DEF PinsTold
    <3>2. cmd[q].at = "save" /\ cmd[q].root = c.root => cmd[q].root \in overlap'
      BY <1>1, <1>2, <2>2
    <3> QED BY <1>1, <1>4, <3>1, <3>2 DEF ReadAsTold
  <2> QED BY <2>1, <2>2
<1>7. cmd' = [q \in Procs |-> cmd'[q]]
  BY <1>1, <1>2
<1> QED BY <1>3, <1>4, <1>5, <1>6, <1>7 DEF PinsTold

\* What saves nothing and reads nothing of the file leaves what was told.
LEMMA OthersTold ==
    ASSUME PinsTold, NEW p \in Procs, NEW c, cmd' = [cmd EXCEPT ![p] = c],
           "at" \in DOMAIN c, c.at # "save", UNCHANGED <<state, overlap, handed, wanted>>
    PROVE  PinsTold'
<1>1. PinsAsTold'
  BY DEF PinsTold, PinsAsTold
<1>2. ASSUME NEW q \in Procs
      PROVE  ("at" \in DOMAIN cmd[q] /\ ReadAsTold(q))'
  BY DEF PinsTold, ReadAsTold
<1>3. cmd' = [q \in Procs |-> cmd'[q]]
  BY DEF PinsTold
<1> QED BY <1>1, <1>2, <1>3 DEF PinsTold

\* Every step of the commands and of the engines keeps what was told.
LEMMA PinsToldStep == PinsTold /\ [HubNext]_hubVars => PinsTold'
<1> SUFFICES ASSUME PinsTold, [HubNext]_hubVars PROVE PinsTold'
  OBVIOUS
<1>1. CASE UNCHANGED <<state, cmd, overlap, handed, wanted>>
  BY <1>1 DEF PinsTold, ReadAsTold, PinsAsTold
<1>2. "at" \in DOMAIN NoCommand /\ NoCommand.at # "save"
  BY DEF NoCommand
<1>3. ASSUME NEW p \in Procs, SaveFails(p)
      PROVE  PinsTold'
  BY <1>2, <1>3, OthersTold DEF SaveFails
<1>4. ASSUME NEW p \in Procs, MakePlan(p)
      PROVE  PinsTold'
  <2> DEFINE victims == PlanEviction(disk, cmd[p].budget, cmd[p].pinned).evict
             c == [at |-> "evict", pinned |-> cmd[p].pinned, budget |-> cmd[p].budget,
                   seen |-> disk, root |-> cmd[p].root, todo |-> victims]
  <2>1. "at" \in DOMAIN c /\ c.at # "save"
    OBVIOUS
  <2>2. cmd' = [cmd EXCEPT ![p] = NoCommand] \/ cmd' = [cmd EXCEPT ![p] = c]
    BY <1>4, Zenon DEF MakePlan
  <2>3. UNCHANGED <<state, overlap, handed, wanted>>
    BY <1>4 DEF MakePlan
  <2> HIDE DEF c
  <2> QED BY <1>2, <2>1, <2>2, <2>3, OthersTold
<1>5. ASSUME NEW p \in Procs, Evict(p)
      PROVE  PinsTold'
  <2> DEFINE c == [cmd[p] EXCEPT !.todo = cmd[p].todo \ {Min(cmd[p].todo)}]
  <2>1. cmd[p].at = "evict" /\ "at" \in DOMAIN cmd[p]
    BY <1>5 DEF PinsTold, Evict
  <2>2. "at" \in DOMAIN c /\ c.at # "save"
    BY <2>1
  <2>3. cmd' = [cmd EXCEPT ![p] = NoCommand] \/ cmd' = [cmd EXCEPT ![p] = c]
    BY <1>5 DEF PinsTold, Evict
  <2>4. UNCHANGED <<state, overlap, handed, wanted>>
    BY <1>5 DEF Evict
  <2> HIDE DEF c
  <2> QED BY <1>2, <2>2, <2>3, <2>4, OthersTold
<1> QED BY <1>1, <1>3, <1>4, <1>5, StartTold, SaveTold DEF HubNext, Use, hubVars

\* A pin people were told of is in cache.json whatever another root's command
\* does (save_state, _all_states): only two commands on one root that overlapped
\* can lose it, or a first save over an old flat file under another root.
THEOREM PinsKept == HubSpec => []PinsAsTold
<1>1. PinsTold => PinsAsTold
  BY DEF PinsTold
<1> QED BY <1>1, PinsToldInit, PinsToldStep, PTL DEF HubSpec

-----------------------------------------------------------------------------
(* What an eviction deletes (cache.py)                                     *)

\* A place the plan may take: not pinned, and with every older candidate gone
\* the cache it saw is over the budget.
Due(s, pinned, budget, i) ==
    /\ i \in DOMAIN s /\ s[i] \notin pinned
    /\ Bytes(Range(s) \ ({s[k] : k \in 1..(i - 1)} \ pinned)) > budget

\* The inductive invariant of evictions: what is still to be deleted was due
\* when it was planned, by what the command read and saw.
EvictionsDue ==
    /\ disk \in Seq(Repos)
    /\ cmd = [p \in Procs |-> cmd[p]]
    /\ \A p \in Procs : cmd[p].at = "evict" =>
          /\ cmd[p].seen \in Seq(Repos) /\ cmd[p].todo # {}
          /\ \A i \in cmd[p].todo : Due(cmd[p].seen, cmd[p].pinned, cmd[p].budget, i)

\* Some places of a sequence have a first one.
LEMMA FirstPlace ==
    ASSUME NEW T, T # {}, \A i \in T : i \in Nat
    PROVE  Min(T) \in T /\ \A i \in T : Min(T) <= i
<1>1. PICK i \in T : \A j \in T : <<j, i>> \notin OpToRel(<, Nat)
  BY WFMin, NatLessThanWellFounded
<1>2. \A j \in T : i <= j
  <2> SUFFICES ASSUME NEW j \in T PROVE i <= j
    OBVIOUS
  <2>1. ~(j < i)
    BY <1>1 DEF OpToRel
  <2> QED BY <2>1
<1> QED BY <1>2 DEF Min

\* Taking an element out leaves all the others.
LEMMA TakenOut ==
    ASSUME NEW S, NEW s \in Seq(S), NEW e
    PROVE  /\ RemoveFirst(s, e) \in Seq(S)
           /\ Range(s) \ {e} \subseteq Range(RemoveFirst(s, e))
<1>1. CASE ~\E i \in 1..Len(s) : s[i] = e
  BY <1>1 DEF RemoveFirst
<1>2. CASE \E i \in 1..Len(s) : s[i] = e
  <2> DEFINE I == {i \in 1..Len(s) : s[i] = e}
             n == Min(I)
             r == SubSeq(s, 1, n - 1) \o SubSeq(s, n + 1, Len(s))
  <2>1. n \in 1..Len(s) /\ s[n] = e
    <3>1. I # {} /\ \A i \in I : i \in Nat
      BY <1>2
    <3>2. n \in I
      BY <3>1, FirstPlace
    <3> QED BY <3>2
  <2>2. RemoveFirst(s, e) = r
    BY <1>2 DEF RemoveFirst, RemoveAt, SelectInSeq
  <2> HIDE DEF n
  <2> DEFINE A == SubSeq(s, 1, n - 1)
             B == SubSeq(s, n + 1, Len(s))
  <2>3. /\ A \in Seq(S) /\ Len(A) = n - 1 /\ \A i \in 1..(n - 1) : A[i] = s[i]
        /\ B \in Seq(S) /\ Len(B) = Len(s) - n /\ \A i \in 1..(Len(s) - n) : B[i] = s[n + i]
    BY <2>1
  <2> HIDE DEF A, B
  <2>4. /\ A \o B \in Seq(S) /\ Len(A \o B) = Len(s) - 1
        /\ \A i \in 1..(n - 1) : (A \o B)[i] = s[i]
        /\ \A i \in n..(Len(s) - 1) : (A \o B)[i] = s[i + 1]
    <3>1. /\ A \o B \in Seq(S) /\ Len(A \o B) = Len(s) - 1
          /\ \A i \in 1..(Len(s) - 1) : (A \o B)[i] = IF i <= n - 1 THEN A[i] ELSE B[i - (n - 1)]
      <4>1. A \in Seq(S) /\ B \in Seq(S)
        BY <2>3
      <4>2. /\ A \o B \in Seq(S) /\ Len(A \o B) = Len(A) + Len(B)
            /\ \A i \in 1..(Len(A) + Len(B)) :
                  (A \o B)[i] = IF i <= Len(A) THEN A[i] ELSE B[i - Len(A)]
        BY <4>1, ConcatProperties
      <4>3. Len(A) = n - 1 /\ Len(B) = Len(s) - n /\ Len(A) + Len(B) = Len(s) - 1
        BY <2>1, <2>3
      <4> QED BY <4>2, <4>3
    <3>2. ASSUME NEW i \in n..(Len(s) - 1)
          PROVE  (A \o B)[i] = s[i + 1]
      <4>1. i \in 1..(Len(s) - 1) /\ ~(i <= n - 1) /\ i - (n - 1) \in 1..(Len(s) - n)
        BY <2>1
      <4>2. (A \o B)[i] = B[i - (n - 1)] /\ B[i - (n - 1)] = s[n + (i - (n - 1))]
        BY <2>3, <3>1, <4>1
      <4>3. n + (i - (n - 1)) = i + 1
        BY <2>1
      <4> QED BY <4>2, <4>3
    <3>3. ASSUME NEW i \in 1..(n - 1)
          PROVE  (A \o B)[i] = s[i]
      BY <2>1, <2>3, <3>1
    <3> QED BY <3>1, <3>2, <3>3
  <2>5. r = A \o B
    BY DEF A, B
  <2> HIDE DEF r
  <2>6. ASSUME NEW x \in Range(s) \ {e}
        PROVE  x \in Range(r)
    <3>1. PICK k \in 1..Len(s) : s[k] = x
      BY DEF Range
    <3>2. \E i \in 1..Len(r) : r[i] = x
      <4>1. CASE k < n
        <5>1. k \in 1..(n - 1) /\ k \in 1..Len(r)
          BY <2>1, <2>4, <2>5, <4>1
        <5> QED BY <2>4, <2>5, <3>1, <5>1
      <4>2. CASE k > n
        <5>1. k - 1 \in n..(Len(s) - 1) /\ k - 1 \in 1..Len(r) /\ (k - 1) + 1 = k
          BY <2>1, <2>4, <2>5, <4>2
        <5>2. r[k - 1] = s[(k - 1) + 1]
          BY <2>4, <2>5, <5>1
        <5> QED BY <3>1, <5>1, <5>2
      <4> QED BY <2>1, <3>1, <4>1, <4>2
    <3>3. DOMAIN r = 1..Len(r)
      BY <2>4, <2>5
    <3> QED BY <3>2, <3>3 DEF Range
  <2> QED BY <2>2, <2>4, <2>5, <2>6
<1> QED BY <1>1, <1>2

\* What a plan takes is due.
LEMMA PlannedIsDue ==
    ASSUME NEW s \in Seq(Repos), NEW budget, NEW pinned,
           NEW i \in PlanEviction(s, budget, pinned).evict
    PROVE  Due(s, pinned, budget, i)
<1>1. i \in Evictable(s, pinned) /\ Left(s, pinned, i) > budget
  <2>1. i \in Evictable(s, pinned) /\ i <= i
    BY DEF PlanEviction, Evictable
  <2> QED BY <2>1 DEF PlanEviction
<1>2. i \in DOMAIN s /\ DOMAIN s = 1..Len(s) /\ s[i] \notin pinned
  BY <1>1 DEF Evictable
<1>3. {s[j] : j \in {k \in Evictable(s, pinned) : k < i}} = {s[k] : k \in 1..(i - 1)} \ pinned
  BY <1>2 DEF Evictable
<1> QED BY <1>1, <1>2, <1>3 DEF Due, Left

\* On a machine no command has run on, nothing is being deleted.
LEMMA EvictionsDueInit == HubInit => EvictionsDue
<1> SUFFICES ASSUME HubInit PROVE EvictionsDue
  OBVIOUS
<1>1. Cardinality(Repos) \in Nat
  BY HubCacheAssumption, FS_CardinalityType
<1>2. disk \in Seq(Repos)
  BY <1>1 DEF HubInit, SetToSeqs
<1> QED BY <1>2 DEF HubInit, NoCommand, EvictionsDue

\* A command that begins, saves or ends leaves the others' plans alone.
LEMMA OthersDue ==
    ASSUME EvictionsDue, NEW p \in Procs, NEW c, cmd' = [cmd EXCEPT ![p] = c],
           c.at = "evict" =>
               /\ c.seen \in Seq(Repos) /\ c.todo # {}
               /\ \A i \in c.todo : Due(c.seen, c.pinned, c.budget, i),
           disk' \in Seq(Repos)
    PROVE  EvictionsDue'
<1>1. \A q \in Procs : cmd'[q] = IF q = p THEN c ELSE cmd[q]
  BY DEF EvictionsDue
<1>2. ASSUME NEW q \in Procs, cmd'[q].at = "evict"
      PROVE  /\ cmd'[q].seen \in Seq(Repos) /\ cmd'[q].todo # {}
             /\ \A i \in cmd'[q].todo :
                   Due(cmd'[q].seen, cmd'[q].pinned, cmd'[q].budget, i)
  BY <1>1, <1>2 DEF EvictionsDue
<1>3. cmd' = [q \in Procs |-> cmd'[q]]
  BY DEF EvictionsDue
<1> QED BY <1>2, <1>3 DEF EvictionsDue

\* Every step keeps what is due, and deletes only what is.
LEMMA EvictionsDueStep == EvictionsDue /\ PinsTold /\ [HubNext]_hubVars => EvictionsDue'
<1> SUFFICES ASSUME EvictionsDue, PinsTold, [HubNext]_hubVars PROVE EvictionsDue'
  OBVIOUS
<1>1. CASE UNCHANGED hubVars
  BY <1>1 DEF EvictionsDue, hubVars
<1>2. ASSUME NEW p \in Procs, Start(p)
      PROVE  EvictionsDue'
  <2>1. PICK kind \in {"pin", "unpin", "ls", "evict"}, r \in Roots, e \in Repos, b \in Budgets :
          cmd' = [cmd EXCEPT ![p] = CommandFor(kind, r, e, b)]
    BY <1>2 DEF Start
  <2> DEFINE c == CommandFor(kind, r, e, b)
  <2>2. c.at # "evict"
    BY DEF CommandFor, NoCommand
  <2>3. disk' \in Seq(Repos)
    BY <1>2 DEF Start, EvictionsDue
  <2>4. cmd' = [cmd EXCEPT ![p] = c]
    BY <2>1
  <2> HIDE DEF c
  <2> QED BY <2>2, <2>3, <2>4, OthersDue
<1>3. ASSUME NEW p \in Procs, Save(p) \/ SaveFails(p)
      PROVE  EvictionsDue'
  BY <1>3, OthersDue DEF Save, SaveFails, NoCommand, EvictionsDue
<1>4. ASSUME NEW p \in Procs, MakePlan(p)
      PROVE  EvictionsDue'
  <2> DEFINE victims == PlanEviction(disk, cmd[p].budget, cmd[p].pinned).evict
             c == [at |-> "evict", pinned |-> cmd[p].pinned, budget |-> cmd[p].budget,
                   seen |-> disk, root |-> cmd[p].root, todo |-> victims]
  <2>1. \/ cmd' = [cmd EXCEPT ![p] = NoCommand]
        \/ victims # {} /\ cmd' = [cmd EXCEPT ![p] = c]
    BY <1>4 DEF MakePlan, EvictionsDue
  <2>2. disk' \in Seq(Repos) /\ disk \in Seq(Repos)
    BY <1>4 DEF MakePlan, EvictionsDue
  <2>3. \A i \in victims : Due(disk, cmd[p].pinned, cmd[p].budget, i)
    BY <2>2, PlannedIsDue
  <2> HIDE DEF victims
  <2>4. victims # {} =>
          /\ c.seen \in Seq(Repos) /\ c.todo # {}
          /\ \A i \in c.todo : Due(c.seen, c.pinned, c.budget, i)
    BY <2>2, <2>3
  <2> HIDE DEF c
  <2>5. NoCommand.at # "evict"
    BY DEF NoCommand
  <2> QED BY <2>1, <2>2, <2>4, <2>5, OthersDue
<1>5. ASSUME NEW p \in Procs, Evict(p)
      PROVE  EvictionsDue'
  <2> DEFINE rest == cmd[p].todo \ {Min(cmd[p].todo)}
             c == [cmd[p] EXCEPT !.todo = rest]
  <2>1. \/ cmd' = [cmd EXCEPT ![p] = NoCommand]
        \/ rest # {} /\ cmd' = [cmd EXCEPT ![p] = c]
    BY <1>5 DEF Evict, EvictionsDue
  <2>2. disk' \in Seq(Repos)
    BY <1>5, TakenOut DEF Evict, EvictionsDue
  <2>3. /\ cmd[p].seen \in Seq(Repos) /\ cmd[p].todo # {} /\ rest \subseteq cmd[p].todo
        /\ \A i \in cmd[p].todo : Due(cmd[p].seen, cmd[p].pinned, cmd[p].budget, i)
    BY <1>5 DEF Evict, EvictionsDue
  <2> HIDE DEF rest
  <2>4. c.seen = cmd[p].seen /\ c.pinned = cmd[p].pinned /\ c.budget = cmd[p].budget
        /\ (c.todo = rest \/ c.todo = cmd[p].todo)
    OBVIOUS
  <2> HIDE DEF c
  <2>6. rest # {} =>
          /\ c.seen \in Seq(Repos) /\ c.todo # {}
          /\ \A i \in c.todo : Due(c.seen, c.pinned, c.budget, i)
    BY <2>3, <2>4
  <2>5. NoCommand.at # "evict"
    BY DEF NoCommand
  <2> QED BY <2>1, <2>2, <2>5, <2>6, OthersDue
<1>6. ASSUME NEW e \in Repos, Use(e)
      PROVE  EvictionsDue'
  <2>1. RemoveFirst(disk, e) \in Seq(Repos)
    BY TakenOut DEF EvictionsDue
  <2>2. disk' \in Seq(Repos) /\ cmd' = cmd
    BY <1>6, <2>1 DEF Use
  <2> QED BY <2>2 DEF EvictionsDue
<1> QED BY <1>1, <1>2, <1>3, <1>4, <1>5, <1>6 DEF HubNext

\* Whatever overlaps it, an eviction deletes only unpinned repos, the least
\* recently used first, and no more than its budget asks for (plan_eviction,
\* apply_eviction).
THEOREM EvictionsSound == HubSpec => EvictionKeepsPinsAndRecency
<1> DEFINE Justified(e, p) ==
      /\ cmd[p].at = "evict" /\ Victim(cmd[p]) = e /\ e \notin cmd[p].pinned
      /\ Bytes(Range(cmd[p].seen)
               \ ({cmd[p].seen[k] : k \in 1..(Min(cmd[p].todo) - 1)} \ cmd[p].pinned))
            > cmd[p].budget
<1>1. ASSUME EvictionsDue, [HubNext]_hubVars, NEW e \in Gone
      PROVE  \E p \in Procs : Justified(e, p)
  <2>1. e \in Range(disk) /\ e \notin Range(disk') /\ disk \in Seq(Repos)
    BY <1>1 DEF Gone, EvictionsDue
  <2>2. PICK p \in Procs : Evict(p)
    <3>1. ASSUME NEW x \in Repos, Use(x)
          PROVE  e \in Range(disk')
      <4> DEFINE rest == RemoveFirst(disk, x)
      <4>1. rest \in Seq(Repos) /\ Range(disk) \ {x} \subseteq Range(rest)
        BY <2>1, TakenOut
      <4>2. disk' = Append(rest, x)
        BY <3>1 DEF Use
      <4> HIDE DEF rest
      <4>3. Range(rest) \cup {x} \subseteq Range(disk')
        <5>1. /\ DOMAIN rest = 1..Len(rest) /\ DOMAIN disk' = 1..(Len(rest) + 1)
              /\ \A i \in 1..Len(rest) : i \in DOMAIN disk' /\ disk'[i] = rest[i]
              /\ Len(rest) + 1 \in DOMAIN disk' /\ disk'[Len(rest) + 1] = x
          BY <4>1, <4>2
        <5> QED BY <5>1 DEF Range
      <4> QED BY <2>1, <4>1, <4>3
    <3>2. disk' # disk
      BY <2>1
    <3> QED BY <1>1, <2>1, <3>1, <3>2
            DEF HubNext, hubVars, Start, Save, SaveFails, MakePlan
  <2>3. e = Victim(cmd[p]) /\ cmd[p].at = "evict"
    BY <2>1, <2>2, TakenOut DEF Evict
  <2> DEFINE i == Min(cmd[p].todo)
  <2>4. i \in cmd[p].todo
    <3>1. /\ cmd[p].todo # {} /\ cmd[p].seen \in Seq(Repos)
          /\ \A k \in cmd[p].todo : Due(cmd[p].seen, cmd[p].pinned, cmd[p].budget, k)
      BY <1>1, <2>3 DEF EvictionsDue
    <3>2. \A k \in cmd[p].todo : k \in DOMAIN cmd[p].seen
      BY <3>1 DEF Due
    <3>3. cmd[p].todo # {} /\ \A k \in cmd[p].todo : k \in Nat
      BY <3>1, <3>2
    <3> QED BY <3>3, FirstPlace
  <2>5. Due(cmd[p].seen, cmd[p].pinned, cmd[p].budget, i)
    BY <1>1, <2>3, <2>4 DEF EvictionsDue
  <2>6. Justified(e, p)
    BY <2>3, <2>5 DEF Due, Victim
  <2> QED BY <2>6
<1>2. ASSUME EvictionsDue, [HubNext]_hubVars
      PROVE  [\A e \in Gone : \E p \in Procs : Justified(e, p)]_hubVars
  BY <1>1, <1>2
<1>3. HubSpec => []PinsTold
  BY PinsToldInit, PinsToldStep, PTL DEF HubSpec
<1>4. HubSpec => []EvictionsDue
  BY <1>3, EvictionsDueInit, EvictionsDueStep, PTL DEF HubSpec
<1> QED BY <1>2, <1>4, PTL DEF HubSpec, EvictionKeepsPinsAndRecency

-----------------------------------------------------------------------------
(* Whole division, as the solver rounds                                    *)

\* What a quotient is at least is what its divisor goes into that often.
LEMMA Quotient ==
    ASSUME NEW a \in Int, NEW b \in Nat \ {0}, NEW k \in Int
    PROVE  /\ a \div b \in Int /\ (a >= 0 => a \div b >= 0)
           /\ k <= a \div b <=> k * b <= a
<1> DEFINE q == a \div b
           r == a % b
<1>1. q \in Int /\ r \in 0..(b - 1) /\ a = b * q + r
  OBVIOUS
<1> HIDE DEF q, r
<1>2. CASE k <= q
  <2>1. k * b <= q * b
    BY <1>1, <1>2
  <2> QED BY <1>1, <1>2, <2>1
<1>3. CASE k > q
  <2>1. k >= q + 1
    BY <1>1, <1>3
  <2>2. k * b >= (q + 1) * b
    BY <1>1, <2>1
  <2> QED BY <1>1, <1>3, <2>2
<1>4. a >= 0 => q >= 0
  <2> SUFFICES ASSUME a >= 0, q <= -1 PROVE FALSE
    BY <1>1
  <2>1. b * q <= b * (-1)
    BY <1>1
  <2> QED BY <1>1, <2>1
<1> QED BY <1>1, <1>2, <1>3, <1>4 DEF q

\* Of two fractions, the smaller rounds to the smaller.
LEMMA Fraction ==
    ASSUME NEW a \in Nat, NEW b \in Nat \ {0}, NEW c \in Nat, NEW d \in Nat \ {0},
           a * d <= c * b
    PROVE  a \div b <= c \div d
<1> DEFINE q == a \div b
<1>1. q \in Nat /\ q * b <= a
  BY Quotient
<1> HIDE DEF q
<1>2. (q * b) * d <= a * d
  BY <1>1
<1>3. (q * d) * b <= c * b
  BY <1>1, <1>2
<1>4. q * d <= c
  <2> DEFINE x == q * d
  <2>1. x \in Nat /\ x * b <= c * b
    BY <1>1, <1>3
  <2> HIDE DEF x
  <2>2. x <= c
    BY <2>1
  <2> QED BY <2>2 DEF x
<1> QED BY <1>1, <1>4, Quotient DEF q

-----------------------------------------------------------------------------
(* The doors of the solver (fit.py)                                        *)

\* A model that the catalogue admits, and what is known of a machine.
Sizable(m) ==
    /\ {m.params, m.active, m.layers, m.kv_heads, m.max_context} \subseteq Nat \ {0}
    /\ m.kv_lora_rank \in Nat
    /\ m.quants # <<>> /\ m.quants \in Seq(DOMAIN QUANT_BITS)

Figures(hw) == hw.usable \in Nat /\ hw.bw \in Nat \cup {Unknown}

Precisions == DOMAIN QUANT_BITS

\* Every precision has bits.
LEMMA Bits == \A q \in Precisions : QUANT_BITS[q] \in Nat \ {0}
BY DEF Precisions, QUANT_BITS

\* What a model publishes is a precision.
LEMMA Published ==
    ASSUME NEW m, Sizable(m)
    PROVE  \A q \in Range(m.quants) : q \in Precisions
<1>1. m.quants \in Seq(Precisions)
  BY DEF Sizable, Precisions
<1> QED BY <1>1 DEF Range

\* What a model weighs at a precision, and what a token of context costs.
LEMMA Parts ==
    ASSUME NEW m, Sizable(m), NEW q \in Precisions
    PROVE  /\ WeightBytes(m, q) \in Nat /\ Overhead(WeightBytes(m, q)) \in Nat
           /\ KvBytesPerToken(m) \in Nat \ {0}
<1>1. m.params * 10 * QUANT_BITS[q] \in Nat
  <2>1. m.params * 10 \in Nat /\ QUANT_BITS[q] \in Nat
    BY Bits DEF Sizable
  <2> QED BY <2>1
<1>2. WeightBytes(m, q) \in Nat
  BY <1>1, Quotient DEF WeightBytes
<1>3. Overhead(WeightBytes(m, q)) \in Nat
  <2> DEFINE w == WeightBytes(m, q)
  <2>1. w * 8 \in Nat
    BY <1>2
  <2>2. (w * 8) \div 100 \in Nat
    BY <2>1, Quotient
  <2> QED BY <2>2 DEF Overhead, OVERHEAD_FLOOR
<1>4. KvBytesPerToken(m) \in Nat \ {0}
  <2> DEFINE per == IF m.kv_scheme = "mla" /\ m.kv_lora_rank > 0
                    THEN m.kv_lora_rank ELSE 2 * m.kv_heads
  <2>1. per \in Nat \ {0} /\ m.layers \in Nat \ {0}
    BY DEF Sizable
  <2> HIDE DEF per
  <2>2. per * m.layers \in Nat \ {0}
    BY <2>1
  <2>3. KvBytesPerToken(m) = per * m.layers * 2
    BY DEF KvBytesPerToken, per
  <2> QED BY <2>2, <2>3
<1> QED BY <1>2, <1>3, <1>4

\* What a lower precision weighs is no more.
LEMMA WeighsLess ==
    ASSUME NEW m, Sizable(m), NEW q \in Precisions, NEW p \in Precisions,
           QUANT_BITS[p] <= QUANT_BITS[q]
    PROVE  /\ WeightBytes(m, p) <= WeightBytes(m, q)
           /\ Overhead(WeightBytes(m, p)) <= Overhead(WeightBytes(m, q))
<1> DEFINE a == m.params * 10
<1>1. a \in Nat
  BY DEF Sizable
<1> HIDE DEF a
<1>2. a * QUANT_BITS[p] \in Nat /\ a * QUANT_BITS[q] \in Nat
      /\ a * QUANT_BITS[p] <= a * QUANT_BITS[q]
  BY <1>1, Bits
<1>3. (a * QUANT_BITS[p]) \div 16 <= (a * QUANT_BITS[q]) \div 16
  BY <1>2, Fraction
<1>4. WeightBytes(m, p) <= WeightBytes(m, q)
  BY <1>3 DEF WeightBytes, a
<1>5. WeightBytes(m, p) \in Nat /\ WeightBytes(m, q) \in Nat
  BY Parts
<1>6. (WeightBytes(m, p) * 8) \div 100 <= (WeightBytes(m, q) * 8) \div 100
  BY <1>4, <1>5, Fraction
<1>7. (WeightBytes(m, p) * 8) \div 100 \in Int /\ (WeightBytes(m, q) * 8) \div 100 \in Int
  BY <1>5, Quotient
<1> QED BY <1>4, <1>6, <1>7 DEF Overhead, OVERHEAD_FLOOR

\* What solve() returns.
LEMMA Solved ==
    ASSUME NEW m, NEW q, NEW hw, NEW context, NEW concurrency
    PROVE  LET f == Solve(m, q, hw, context, concurrency)
           IN  /\ f.model = m /\ f.quant = q /\ f.context = context
               /\ f.concurrency = concurrency /\ f.usable = hw.usable
               /\ f.weight = WeightBytes(m, q)
               /\ f.total = WeightBytes(m, q) + KvBytesPerToken(m) * context * concurrency
                            + Overhead(WeightBytes(m, q))
               /\ f.read = (m.active * 10 * QUANT_BITS[q]) \div 16 + KvBytesPerToken(m) * context
               /\ f.bw = IF hw.bw = Unknown THEN Unknown ELSE (hw.bw * 10 * 72) \div 100
BY DEF Solve, FitOfParts

\* max_context is the largest context that solve() accepts.
LEMMA ContextDoor ==
    ASSUME NEW m, Sizable(m), NEW q \in Precisions, NEW hw, Figures(hw),
           NEW context \in Nat \ {0}, NEW concurrency \in Nat \ {0},
           NEW f, f = Solve(m, q, hw, context, concurrency)
    PROVE  context <= MaxContext(m, q, hw, concurrency)
             <=> Feasible(f) /\ ~BeyondPublishedContext(f)
<1> DEFINE w == WeightBytes(m, q)
           o == Overhead(w)
           kv == KvBytesPerToken(m)
           spare == Spare(m, q, hw)
<1>1. w \in Nat /\ o \in Nat /\ kv \in Nat \ {0} /\ hw.usable \in Nat /\ spare = hw.usable - w - o
  BY Parts DEF Spare, Figures
<1>2. Feasible(f) <=> w + kv * context * concurrency + o <= hw.usable
  BY Solved DEF Feasible
<1>3. BeyondPublishedContext(f) <=> context > m.max_context
  BY Solved DEF BeyondPublishedContext
<1>4. MaxContext(m, q, hw, concurrency) =
        IF spare <= 0 THEN 0
        ELSE Min({m.max_context, spare \div (kv * Max({1, concurrency}))})
  BY DEF MaxContext
<1>5. m.max_context \in Nat
  BY DEF Sizable
<1> HIDE DEF w, o, kv, spare
<1>6. Max({1, concurrency}) = concurrency
  BY DEF Max
<1> DEFINE d == kv * concurrency
           top == spare \div d
<1>7. d \in Nat \ {0} /\ kv * context * concurrency = context * d
  BY <1>1
<1>8. Feasible(f) <=> context * d <= spare
  <2>1. context * d \in Nat
    BY <1>7
  <2> QED BY <1>1, <1>2, <1>7, <2>1
<1>9. context * d \in Nat \ {0}
  BY <1>7
<1> HIDE DEF d
<1>10. CASE spare <= 0
  BY <1>1, <1>4, <1>8, <1>9, <1>10
<1>11. CASE spare > 0
  <2>1. top \in Int /\ (context <= top <=> context * d <= spare)
    BY <1>1, <1>7, Quotient
  <2>2. MaxContext(m, q, hw, concurrency) = Min({m.max_context, top})
    <3>1. kv * Max({1, concurrency}) = d
      BY <1>6 DEF d
    <3>2. ~(spare <= 0)
      BY <1>1, <1>11
    <3> QED BY <1>4, <3>1, <3>2, Zenon
  <2> HIDE DEF top
  <2>3. Min({m.max_context, top}) = IF m.max_context <= top THEN m.max_context ELSE top
    BY <1>5, <2>1 DEF Min
  <2> QED BY <1>3, <1>5, <1>8, <2>1, <2>2, <2>3
<1> QED BY <1>1, <1>10, <1>11

\* max_concurrency is the largest batch that solve() accepts.
LEMMA ConcurrencyDoor ==
    ASSUME NEW m, Sizable(m), NEW q \in Precisions, NEW hw, Figures(hw),
           NEW context \in Nat \ {0}, NEW concurrency \in Nat \ {0},
           NEW f, f = Solve(m, q, hw, context, concurrency)
    PROVE  concurrency <= MaxConcurrency(m, q, hw, context) <=> Feasible(f)
<1> DEFINE w == WeightBytes(m, q)
           o == Overhead(w)
           kv == KvBytesPerToken(m)
           spare == Spare(m, q, hw)
<1>1. w \in Nat /\ o \in Nat /\ kv \in Nat \ {0} /\ hw.usable \in Nat /\ spare = hw.usable - w - o
  BY Parts DEF Spare, Figures
<1>2. Feasible(f) <=> w + kv * context * concurrency + o <= hw.usable
  BY Solved DEF Feasible
<1>4. MaxConcurrency(m, q, hw, context) =
        IF spare <= 0 THEN 0 ELSE spare \div (kv * Max({1, context}))
  BY DEF MaxConcurrency
<1> HIDE DEF w, o, kv, spare
<1>6. Max({1, context}) = context
  BY DEF Max
<1> DEFINE d == kv * context
           top == spare \div d
<1>7. d \in Nat \ {0} /\ kv * context * concurrency = concurrency * d
  BY <1>1
<1>8. Feasible(f) <=> concurrency * d <= spare
  <2>1. concurrency * d \in Nat
    BY <1>7
  <2> QED BY <1>1, <1>2, <1>7, <2>1
<1>9. concurrency * d \in Nat \ {0}
  BY <1>7
<1> HIDE DEF d
<1>10. CASE spare <= 0
  BY <1>1, <1>4, <1>8, <1>9, <1>10
<1>11. CASE spare > 0
  <2>1. top \in Int /\ (concurrency <= top <=> concurrency * d <= spare)
    BY <1>1, <1>7, Quotient
  <2>2. MaxConcurrency(m, q, hw, context) = top
    BY <1>1, <1>4, <1>6, <1>11 DEF d
  <2> QED BY <1>8, <2>1, <2>2
<1> QED BY <1>1, <1>10, <1>11

\* Among the places of a list there is one that is tried first.
LEMMA OneTriedFirst ==
    ASSUME NEW quants \in Seq(Precisions), NEW T \in SUBSET DOMAIN quants, T # {}
    PROVE  \E k \in T : \A j \in T : TriedBefore(quants, k, j)
<1> DEFINE bits(i) == QUANT_BITS[quants[i]]
           room == {32 - bits(i) : i \in T}
<1>1. /\ \A i \in T : i \in Nat
      /\ \A i \in T : bits(i) \in Nat /\ 32 - bits(i) \in Nat
  BY DEF Precisions, QUANT_BITS
<1> HIDE DEF bits
<1>2. room # {} /\ \A x \in room : x \in Nat
  BY <1>1
<1>3. PICK e \in T : 32 - bits(e) = Min(room)
  BY <1>2, FirstPlace
<1>4. \A i \in T : bits(i) <= bits(e)
  <2> TAKE i \in T
  <2>1. 32 - bits(i) \in room
    OBVIOUS
  <2> HIDE DEF room
  <2>2. Min(room) <= 32 - bits(i)
    BY <1>2, <2>1, FirstPlace
  <2> QED BY <1>1, <1>3, <2>2
<1> DEFINE level == {i \in T : bits(i) = bits(e)}
           k == Min(level)
<1>5. k \in level /\ \A i \in level : k <= i
  <2>1. e \in level /\ \A i \in level : i \in Nat
    BY <1>1
  <2> HIDE DEF level
  <2> QED BY <2>1, FirstPlace
<1> HIDE DEF k
<1>6. \A j \in T : bits(k) > bits(j) \/ (bits(k) = bits(j) /\ k <= j)
  <2> TAKE j \in T
  <2>1. bits(j) <= bits(e) /\ bits(k) = bits(e) /\ bits(j) \in Nat /\ bits(e) \in Nat
    BY <1>1, <1>4, <1>5
  <2>2. bits(j) = bits(e) => k <= j
    BY <1>5
  <2> QED BY <2>1, <2>2
<1>7. \A j \in T : TriedBefore(quants, k, j)
  BY <1>6 DEF TriedBefore, bits
<1> QED BY <1>5, <1>7

\* The smallest precision a model publishes.
LEMMA SmallestIs ==
    ASSUME NEW m, Sizable(m)
    PROVE  /\ Smallest(m) \in Range(m.quants)
           /\ \A r \in Range(m.quants) : QUANT_BITS[Smallest(m)] <= QUANT_BITS[r]
<1> DEFINE T == {QUANT_BITS[r] : r \in Range(m.quants)}
<1>1. Range(m.quants) # {} /\ Range(m.quants) \subseteq Precisions
  <2>1. m.quants \in Seq(Precisions) /\ m.quants # <<>>
    BY DEF Sizable, Precisions
  <2>2. 1 \in DOMAIN m.quants /\ \A i \in DOMAIN m.quants : m.quants[i] \in Precisions
    BY <2>1
  <2> QED BY <2>2 DEF Range
<1>2. T # {} /\ \A x \in T : x \in Nat
  BY <1>1, Bits
<1>3. PICK q \in Range(m.quants) : QUANT_BITS[q] = Min(T)
  BY <1>2, FirstPlace
<1>4. \A r \in Range(m.quants) : QUANT_BITS[q] <= QUANT_BITS[r]
  BY <1>2, <1>3, FirstPlace
<1> QED BY <1>3, <1>4 DEF Smallest

\* What solve() says of a lower precision is no worse.
LEMMA FitsBelow ==
    ASSUME NEW m, Sizable(m), NEW hw, Figures(hw),
           NEW context \in Nat \ {0}, NEW concurrency \in Nat \ {0},
           NEW q \in Precisions, NEW p \in Precisions, QUANT_BITS[p] <= QUANT_BITS[q],
           Feasible(Solve(m, q, hw, context, concurrency))
    PROVE  Feasible(Solve(m, p, hw, context, concurrency))
<1> DEFINE kv == KvBytesPerToken(m) * context * concurrency
           w(x) == WeightBytes(m, x)
           o(x) == Overhead(WeightBytes(m, x))
<1>1. kv \in Nat
  <2>1. KvBytesPerToken(m) \in Nat
    BY Parts
  <2> QED BY <2>1
<1>2. w(p) <= w(q) /\ o(p) <= o(q)
  BY WeighsLess
<1>3. {w(p), w(q), o(p), o(q)} \subseteq Nat
  BY Parts
<1>4. w(q) + kv + o(q) <= hw.usable
  BY Solved DEF Feasible
<1> HIDE DEF kv, w, o
<1>5. w(p) + kv + o(p) <= hw.usable
  BY <1>1, <1>2, <1>3, <1>4 DEF Figures
<1> QED BY <1>5, Solved DEF Feasible, kv, w, o

\* A rejected model fits at no precision, and misses by something.
LEMMA Refused ==
    ASSUME NEW m, Sizable(m), NEW hw, Figures(hw),
           NEW context \in Nat \ {0}, NEW concurrency \in Nat \ {0},
           BestQuant(m, hw, context, concurrency) = {}
    PROVE  /\ \A q \in Range(m.quants) : ~Feasible(Solve(m, q, hw, context, concurrency))
           /\ WhyNot(m, hw, context, concurrency).by > 0
<1> DEFINE fit(q) == Solve(m, q, hw, context, concurrency)
           fitting == {i \in QuantPreference(m.quants) : Feasible(fit(m.quants[i]))}
           s == Smallest(m)
<1>1. m.quants \in Seq(Precisions) /\ QuantPreference(m.quants) \subseteq DOMAIN m.quants
  BY DEF Sizable, Precisions, QuantPreference
<1>2. fitting = {}
  <2> SUFFICES ASSUME fitting # {} PROVE FALSE
    OBVIOUS
  <2>1. PICK k \in fitting : \A j \in fitting : TriedBefore(m.quants, k, j)
    BY <1>1, OneTriedFirst
  <2>2. fit(m.quants[k]) \in BestQuant(m, hw, context, concurrency)
    BY <2>1 DEF BestQuant
  <2> QED BY <2>2
<1>3. /\ s \in Range(m.quants) /\ Range(m.quants) \subseteq Precisions
      /\ \A r \in Range(m.quants) : QUANT_BITS[s] <= QUANT_BITS[r]
  BY <1>1, SmallestIs DEF Range
<1> HIDE DEF s
<1>4. PICK k \in DOMAIN m.quants : m.quants[k] = s
  BY <1>3 DEF Range
<1>5. k \in QuantPreference(m.quants)
  <2>1. \A i \in DOMAIN m.quants : m.quants[i] \in Range(m.quants)
    BY DEF Range
  <2>2. \A i \in DOMAIN m.quants : QUANT_BITS[m.quants[i]] \in Nat
    BY <1>3, <2>1, Bits
  <2>3. \A i \in DOMAIN m.quants : QUANT_BITS[m.quants[k]] <= QUANT_BITS[m.quants[i]]
    BY <1>3, <1>4, <2>1
  <2> QED BY <2>2, <2>3 DEF QuantPreference
<1>6. ~Feasible(fit(s))
  BY <1>2, <1>4, <1>5
<1>7. \A q \in Range(m.quants) : ~Feasible(fit(q))
  BY <1>3, <1>6, FitsBelow
<1>8. Shortfall(fit(s)).by > 0
  <2> DEFINE f == fit(s)
             kv == KvBytesPerToken(m) * context * concurrency
  <2>1. f.weight = WeightBytes(m, s) /\ f.usable = hw.usable
        /\ f.total = WeightBytes(m, s) + kv + Overhead(WeightBytes(m, s))
    BY Solved
  <2>2. s \in Precisions
    BY <1>3
  <2>3. WeightBytes(m, s) \in Nat /\ Overhead(WeightBytes(m, s)) \in Nat
    BY <2>2, Parts
  <2>4. kv \in Nat
    <3>1. KvBytesPerToken(m) \in Nat
      BY <2>2, Parts
    <3> QED BY <3>1
  <2>5. ~(f.total <= f.usable)
    BY <1>6 DEF Feasible
  <2> HIDE DEF f, kv
  <2> QED BY <2>1, <2>3, <2>4, <2>5 DEF Shortfall, Figures, f
<1> QED BY <1>7, <1>8 DEF WhyNot, s

-----------------------------------------------------------------------------
(* Cost and optimism (fit.py)                                              *)

\* What a fit is, once its parts are counted.
Sound(f) ==
    /\ f.bw \in Nat \cup {Unknown}
    /\ f.concurrency \in Nat \ {0}
    /\ f.context \in Nat \ {0}
    /\ KvBytesPerToken(f.model) \in Nat \ {0}
    /\ f.read \in Nat

LEMMA SolvedSound ==
    ASSUME NEW m, Sizable(m), NEW q \in Precisions, NEW hw, Figures(hw),
           NEW context \in Nat \ {0}, NEW concurrency \in Nat \ {0},
           NEW f, f = Solve(m, q, hw, context, concurrency)
    PROVE  Sound(f)
<1>1. KvBytesPerToken(m) \in Nat \ {0}
  BY Parts
<1>2. KvBytesPerToken(m) * context \in Nat
  BY <1>1
<1>3. (m.active * 10 * QUANT_BITS[q]) \div 16 \in Nat
  <2>1. m.active * 10 \in Nat /\ QUANT_BITS[q] \in Nat
    BY Bits DEF Sizable
  <2>2. m.active * 10 * QUANT_BITS[q] \in Nat
    BY <2>1
  <2> QED BY <2>2, Quotient
<1>4. f.read \in Nat
  BY <1>2, <1>3, Solved
<1>5. f.bw \in Nat \cup {Unknown}
  <2>1. CASE hw.bw = Unknown
    BY <2>1, Solved
  <2>2. CASE hw.bw # Unknown
    <3>1. hw.bw * 10 * 72 \in Nat
      BY <2>2 DEF Figures
    <3>2. (hw.bw * 10 * 72) \div 100 \in Nat
      BY <3>1, Quotient
    <3> QED BY <2>2, <3>2, Solved
  <2> QED BY <2>1, <2>2
<1> QED BY <1>1, <1>4, <1>5, Solved DEF Sound

\* More tokens for the same money cost less each.
LEMMA CheaperByMore ==
    ASSUME NEW x \in Nat \ {0}, NEW y \in Nat \ {0}, x <= y
    PROVE  0 <= Cost(100, y) /\ Cost(100, y) <= Cost(100, x)
<1> DEFINE money == 100 * 1000000
<1>1. /\ money \in Nat
      /\ Cost(100, x) = money \div (x * 3600) /\ Cost(100, y) = money \div (y * 3600)
  BY SMT DEF Cost, Unknown
<1> HIDE DEF money
<1> DEFINE s == x * 3600
           r == y * 3600
<1>2. s \in Nat \ {0} /\ r \in Nat \ {0} /\ s <= r
  OBVIOUS
<1> HIDE DEF s, r
<1>3. money * s <= money * r
  BY <1>1, <1>2
<1>4. money \div r <= money \div s
  <2>1. money \in Nat
    BY <1>1
  <2> HIDE <1>1
  <2> QED BY <2>1, <1>2, <1>3, Fraction
<1>5. money \div r >= 0
  BY <1>1, <1>2, Quotient
<1> QED BY <1>1, <1>4, <1>5 DEF s, r

\* A batch one fuller yields no fewer tokens, so a token costs no more.
LEMMA FullerIsCheaper ==
    ASSUME NEW f, Sound(f), f.concurrency + 1 \in Nat, AggregateTokens(f) > 0,
           NEW g, g.model = f.model, g.bw = f.bw, g.read = f.read, g.context = f.context,
           g.concurrency = f.concurrency + 1
    PROVE  0 <= CostPerMtok(100, g) /\ CostPerMtok(100, g) <= CostPerMtok(100, f)
<1> DEFINE kv == KvBytesPerToken(f.model) * f.context
           r == f.read - kv
           n == f.concurrency
           b == f.bw
<1>1. kv \in Nat \ {0} /\ n \in Nat \ {0} /\ b \in Nat \cup {Unknown} /\ f.read \in Nat
  BY DEF Sound
<1> HIDE DEF kv
<1>2. /\ AggregateTokens(f) = IF b = Unknown \/ f.read <= kv THEN Unknown
                              ELSE (n * b) \div (r + n * kv)
      /\ AggregateTokens(g) = IF b = Unknown \/ f.read <= kv THEN Unknown
                              ELSE ((n + 1) * b) \div (r + (n + 1) * kv)
  BY DEF AggregateTokens, Batched, kv
<1>3. b # Unknown /\ ~(f.read <= kv)
  BY <1>2 DEF Unknown
<1>4. b \in Nat /\ r \in Nat \ {0}
  BY <1>1, <1>3
<1> HIDE DEF r, n, b
<1> DEFINE d == r + n * kv
           e == r + (n + 1) * kv
           x == (n * b) \div d
           y == ((n + 1) * b) \div e
<1>5. d \in Nat \ {0} /\ e \in Nat \ {0} /\ n * b \in Nat /\ (n + 1) * b \in Nat
  <2>1. n * kv \in Nat /\ (n + 1) * kv \in Nat
    BY <1>1
  <2> QED BY <1>1, <1>4, <2>1
<1>6. (n * b) * e <= ((n + 1) * b) * d
  <2>1. (n * b) * e = n * b * r + n * (n + 1) * b * kv
    BY <1>1, <1>4
  <2>2. ((n + 1) * b) * d = (n + 1) * b * r + n * (n + 1) * b * kv
    BY <1>1, <1>4
  <2>3. n * b * r \in Nat /\ b * r \in Nat /\ n * (n + 1) * b * kv \in Nat
    BY <1>1, <1>4
  <2>4. (n + 1) * b * r = n * b * r + b * r
    BY <1>1, <1>4
  <2> QED BY <2>1, <2>2, <2>3, <2>4
<1> HIDE DEF d, e
<1>7. x <= y /\ x \in Nat /\ y \in Nat
  <2> DEFINE u == n * b
             v == (n + 1) * b
  <2> HIDE DEF u, v
  <2>1. u \in Nat /\ v \in Nat /\ u * e <= v * d
    BY <1>5, <1>6 DEF u, v
  <2>2. u \div d <= v \div e
    BY <1>5, <2>1, Fraction
  <2>3. u \div d \in Int /\ v \div e \in Int /\ u \div d >= 0 /\ v \div e >= 0
    BY <1>5, <2>1, Quotient
  <2> QED BY <2>2, <2>3 DEF u, v
<1>8. AggregateTokens(f) = x /\ AggregateTokens(g) = y /\ x > 0
  BY <1>2, <1>3 DEF d, e
<1> HIDE DEF x, y
<1>9. CostPerMtok(100, f) = Cost(100, x) /\ CostPerMtok(100, g) = Cost(100, y)
  BY <1>8 DEF CostPerMtok
<1>10. y \in Nat \ {0} /\ x \in Nat \ {0}
  BY <1>7, <1>8
<1> QED BY <1>7, <1>9, <1>10, CheaperByMore

\* Of two numbers, the smaller.
LEMMA MinOfTwo ==
    ASSUME NEW a \in Int, NEW b \in Int
    PROVE  Min({a, b}) = (IF a <= b THEN a ELSE b) /\ Max({a, b}) = (IF a <= b THEN b ELSE a)
BY DEF Min, Max

\* The optimism is a whole batch at least and all the experts at most.
LEMMA OptimismBounded ==
    ASSUME NEW f, Sizable(f.model), f.concurrency \in Nat \ {0}
    PROVE  MoeBatchOptimism(f) \in {Unknown} \cup 100..(100 * f.model.params) \div f.model.active
<1> DEFINE a == f.model.active
           p == f.model.params
           c == f.concurrency
<1>1. a \in Nat \ {0} /\ p \in Nat \ {0}
  BY DEF Sizable
<1>2. CASE ~IsMoe(f.model) \/ c < 2 \/ a <= 0
  BY <1>2 DEF MoeBatchOptimism
<1>3. CASE ~(~IsMoe(f.model) \/ c < 2 \/ a <= 0)
  <2>1. a * 100 < p * 95 /\ 2 <= c
    BY <1>3 DEF IsMoe
  <2>2. MoeBatchOptimism(f) = (Min({p, c * a}) * 100) \div a
    BY <1>3 DEF MoeBatchOptimism
  <2> HIDE DEF a, p, c
  <2>3. c * a \in Nat /\ 2 * a <= c * a
    BY <1>1, <2>1 DEF c
  <2> DEFINE least == Min({p, c * a})
  <2>4. least \in Nat /\ least <= p /\ a <= least
    BY <1>1, <2>1, <2>3, MinOfTwo
  <2> HIDE DEF least
  <2> DEFINE u == least * 100
             v == 100 * p
  <2>5. u \in Nat /\ v \in Nat /\ 100 * a <= u /\ u <= v
    BY <1>1, <2>4
  <2> HIDE DEF u, v
  <2>6. u * a <= v * a
    BY <1>1, <2>5
  <2>7. 100 <= u \div a /\ u \div a \in Int
    BY <1>1, <2>5, Quotient
  <2>8. u \div a <= v \div a /\ v \div a \in Int
    BY <1>1, <2>5, <2>6, Fraction, Quotient
  <2> QED BY <2>2, <2>7, <2>8 DEF a, p, least, u, v
<1> QED BY <1>2, <1>3

\* What the command line or the catalogue does not admit is never asked.
LEMMA AskedIsSizable ==
    ASSUME NEW r \in Requests
    PROVE  /\ Sizable(r.model) /\ Figures(r.hw)
           /\ r.context \in Nat \ {0} /\ r.concurrency \in Nat \ {0}
BY LaunchAssumption DEF Sizable, Figures

\* The doors of the solver agree, on every machine and model.
LEMMA DoorsAlwaysAgree == DoorsAgree
<1> SUFFICES ASSUME NEW r \in Requests, NEW context \in 1..10, NEW concurrency \in 1..40,
                    NEW q \in Range(r.model.quants)
             PROVE  Agree(r.model, r.hw, Solve(r.model, q, r.hw, context, concurrency))
  BY DEF DoorsAgree
<1> DEFINE m == r.model
           hw == r.hw
<1>1. PICK f : f = Solve(m, q, hw, context, concurrency)
  OBVIOUS
<1>2. Sizable(m) /\ Figures(hw)
  BY AskedIsSizable
<1> HIDE DEF m, hw
<1>3. context \in Nat \ {0} /\ concurrency \in Nat \ {0}
  OBVIOUS
<1>4. q \in Range(m.quants)
  BY DEF m
<1>5. q \in Precisions
  <2>1. m.quants \in Seq(Precisions)
    BY <1>2 DEF Sizable, Precisions
  <2> QED BY <1>4, <2>1 DEF Range
<1>6. f.context = context /\ f.concurrency = concurrency /\ f.quant = q /\ f.model = m
  BY <1>1, Solved
<1>7. f.context <= MaxContext(m, f.quant, hw, f.concurrency)
        <=> Feasible(f) /\ ~BeyondPublishedContext(f)
  BY <1>1, <1>2, <1>3, <1>5, <1>6, ContextDoor
<1>8. f.concurrency <= MaxConcurrency(m, f.quant, hw, f.context) <=> Feasible(f)
  BY <1>1, <1>2, <1>3, <1>5, <1>6, ConcurrencyDoor
<1>9. ASSUME NEW x \in Rejected(<<m>>, hw, f.context, f.concurrency)
      PROVE  x[2].by > 0 /\ ~Feasible(f)
  <2>1. DOMAIN <<m>> = {1} /\ <<m>>[1] = m
    OBVIOUS
  <2>2. x = <<m, WhyNot(m, hw, context, concurrency)>>
        /\ BestQuant(m, hw, context, concurrency) = {}
    BY <1>6, <2>1, Zenon DEF Rejected, Ranked
  <2>3. x[2] = WhyNot(m, hw, context, concurrency)
    BY <2>2
  <2> QED BY <1>1, <1>2, <1>3, <1>4, <2>2, <2>3, Refused
<1>10. ASSUME AggregateTokens(f) > 0
       PROVE  LET fuller == CostPerMtok(100, [f EXCEPT !.concurrency = @ + 1])
              IN  0 <= fuller /\ fuller <= CostPerMtok(100, f)
  <2>1. Sound(f)
    BY <1>1, <1>2, <1>3, <1>5, SolvedSound
  <2>2. PICK g : g = [f EXCEPT !.concurrency = @ + 1]
    OBVIOUS
  <2>3. /\ g.model = f.model /\ g.bw = f.bw /\ g.read = f.read /\ g.context = f.context
        /\ g.concurrency = f.concurrency + 1
    BY <1>1, <2>2 DEF Solve, FitOfParts
  <2>4. 0 <= CostPerMtok(100, g) /\ CostPerMtok(100, g) <= CostPerMtok(100, f)
    BY <1>10, <2>1, <2>3, FullerIsCheaper DEF Sound
  <2> QED BY <2>2, <2>4
<1>11. MoeBatchOptimism(f) \in {Unknown} \cup 100..(100 * m.params) \div m.active
  BY <1>2, <1>3, <1>6, OptimismBounded
<1> QED BY <1>1, <1>7, <1>8, <1>9, <1>10, <1>11 DEF Agree, m, hw

-----------------------------------------------------------------------------
(* What is launched fits (launch.plan)                                     *)

\* Left to the program, or, of a plan, not refused.
Unset(s) == s = ""

\* Every fit that the plan can start from is feasible, and solve()'s own.
LEMMA FittingIs ==
    ASSUME NEW r \in Requests, Unset(r.quant) \/ r.quant \in Range(r.model.quants),
           NEW f \in Fitting(r)
    PROVE  /\ Feasible(f) /\ f.quant \in Precisions
           /\ f = Solve(r.model, f.quant, r.hw, r.context, r.concurrency)
<1>1. Sizable(r.model)
  BY AskedIsSizable
<1>2. CASE Unset(r.quant)
  <2>1. f \in BestQuant(r.model, r.hw, r.context, r.concurrency)
    BY <1>2 DEF Fitting, Unset
  <2>2. PICK i \in QuantPreference(r.model.quants) :
             /\ f = Solve(r.model, r.model.quants[i], r.hw, r.context, r.concurrency)
             /\ Feasible(f)
    BY <2>1 DEF BestQuant
  <2>3. i \in DOMAIN r.model.quants
    BY <2>2 DEF QuantPreference
  <2>4. r.model.quants[i] \in Precisions
    BY <1>1, <2>3, Published DEF Range
  <2>5. f.quant = r.model.quants[i]
    BY <2>2 DEF Solve, FitOfParts
  <2> QED BY <2>2, <2>4, <2>5
<1>3. CASE ~Unset(r.quant)
  <2>1. f = Solve(r.model, r.quant, r.hw, r.context, r.concurrency) /\ Feasible(f)
    BY <1>3 DEF Fitting, Unset
  <2>2. r.quant \in Precisions
    BY <1>1, <1>3, Published
  <2>3. f.quant = r.quant
    BY <2>1 DEF Solve, FitOfParts
  <2> QED BY <2>1, <2>2, <2>3
<1> QED BY <1>2, <1>3

\* The settings of a plan that its allocation depends on.
LEMMA SettingsOf ==
    ASSUME NEW r \in Requests, NEW f, NEW p,
           p = Plan(r.hw, Asked(r), r.model, f.quant, r.engine)
    PROVE  /\ p.engine = IF Unset(r.engine) THEN RecommendRuntime(r.hw, r.context, r.concurrency)
                                          ELSE r.engine
           /\ p.knobs.context_length = r.context
           /\ p.knobs.max_concurrent \in Nat
           /\ p.knobs.max_concurrent >= 32
<1>1. r.concurrency \in Nat \ {0} /\ 2 * r.concurrency \in Nat
  BY AskedIsSizable
<1>2. p.knobs.context_length = Asked(r).context /\ p.knobs.max_concurrent = MaxNumSeqs(Asked(r))
  BY DEF Plan, Knobs
<1>3. /\ Asked(r).context = r.context /\ Asked(r).concurrency = r.concurrency
      /\ Asked(r).workload = "interactive" /\ Asked(r).prefix = 0 /\ Asked(r).structured = FALSE
  BY DEF Asked
<1>4. MaxNumSeqs(Asked(r)) = Max({32, Min({128, r.concurrency * 2})})
  BY <1>3 DEF MaxNumSeqs
<1>5. Min({128, r.concurrency * 2}) \in Nat
  BY <1>1, MinOfTwo
<1>6. MaxNumSeqs(Asked(r)) \in Nat /\ MaxNumSeqs(Asked(r)) >= 32
  <2> DEFINE n == Min({128, r.concurrency * 2})
  <2>1. n \in Nat
    BY <1>5
  <2> HIDE DEF n
  <2>2. Max({32, n}) = IF 32 <= n THEN n ELSE 32
    <3>1. 32 \in Int /\ n \in Int
      BY <2>1
    <3> QED BY <3>1, MinOfTwo, Zenon
  <2> QED BY <1>4, <2>1, <2>2 DEF n
<1>7. p.engine = IF Unset(r.engine) THEN PickEngine(r.hw, Asked(r)) ELSE r.engine
  BY DEF Plan, Unset
<1>8. PickEngine(r.hw, Asked(r)) = RecommendRuntime(r.hw, r.context, r.concurrency)
  BY <1>3 DEF RecommendRuntime, PickEngine
<1> QED BY <1>2, <1>3, <1>6, <1>7, <1>8

\* A window cut into as many slots as it was multiplied by.
LEMMA CutBack ==
    ASSUME NEW a \in Nat, NEW n \in Nat \ {0}
    PROVE  (a * n) \div n = a
<1> DEFINE b == a * n
<1>1. b \in Int /\ a * n <= b /\ ~((a + 1) * n <= b)
  <2>1. b \in Nat /\ (a + 1) * n = b + n
    OBVIOUS
  <2> QED BY <2>1
<1> HIDE DEF b
<1>2. b \div n \in Int /\ a <= b \div n /\ ~(a + 1 <= b \div n)
  BY <1>1, Quotient
<1> QED BY <1>2 DEF b

\* The slots of an engine against the batch it was sized for.
LEMMA SlotsWithin ==
    ASSUME NEW w \in Nat, NEW o \in Nat, NEW kv \in Nat, NEW ctx \in Nat,
           NEW n \in Nat, NEW c \in Nat \ {0}, NEW room \in Nat, NEW slots \in BOOLEAN,
           w + kv * ctx * (IF slots /\ n > c THEN n ELSE c) + o <= room
    PROVE  w + o + kv * ctx * (IF slots THEN n ELSE 1) <= room
<1> DEFINE z == kv * ctx
<1>1. z \in Nat
  OBVIOUS
<1>2. w + z * (IF slots /\ n > c THEN n ELSE c) + o <= room
  OBVIOUS
<1> HIDE DEF z
<1>3. CASE slots /\ n > c
  <2>1. z * n \in Nat
    BY <1>1
  <2> QED BY <1>2, <1>3, <2>1 DEF z
<1>4. CASE slots /\ ~(n > c)
  <2>1. z * n <= z * c /\ z * n \in Nat /\ z * c \in Nat
    BY <1>1, <1>4
  <2> QED BY <1>2, <1>4, <2>1 DEF z
<1>5. CASE ~slots
  <2>1. z * 1 <= z * c /\ z * 1 \in Nat /\ z * c \in Nat
    BY <1>1
  <2> QED BY <1>2, <1>5, <2>1 DEF z
<1> QED BY <1>3, <1>4, <1>5

\* What a plan asks the engine to allocate is what solve() was asked about, or
\* less.
LEMMA LaunchableFits ==
    ASSUME NEW r \in Requests, NEW f, NEW p,
           f.quant \in Precisions,
           f = Solve(r.model, f.quant, r.hw, r.context, r.concurrency),
           p = Plan(r.hw, Asked(r), r.model, f.quant, r.engine),
           NEW x, x = Planned(r, f, p), Unset(x.refused)
    PROVE  /\ Allocated(x) <= r.hw.usable
           /\ PerSequence(x) = r.context
           /\ x.engine = p.engine
<1>1. PICK sized : sized = SizedAtSlots(r, p, f)
  OBVIOUS
<1>2. /\ Feasible(sized)
      /\ x.engine = p.engine /\ x.quant = f.quant /\ x.fit = sized /\ x.knobs = p.knobs
  BY <1>1 DEF Planned, Launchable, DoesNotFit, Unset
<1>3. PICK n, slots : n = p.knobs.max_concurrent
                      /\ slots = (p.engine \in {"llama.cpp", "ollama"})
  OBVIOUS
<1>4. /\ n \in Nat /\ n >= 32 /\ p.knobs.context_length = r.context
      /\ r.context \in Nat \ {0} /\ r.concurrency \in Nat \ {0} /\ r.hw.usable \in Nat
      /\ slots \in BOOLEAN
  BY <1>3, SettingsOf, AskedIsSizable DEF Figures
<1>5. PICK w, o, kv : /\ w = WeightBytes(r.model, f.quant) /\ o = Overhead(w)
                      /\ kv = KvBytesPerToken(r.model)
  OBVIOUS
<1>6. w \in Nat /\ o \in Nat /\ kv \in Nat
  BY <1>5, AskedIsSizable, Parts
<1>7. sized = Solve(r.model, f.quant, r.hw, r.context,
                    IF slots /\ n > r.concurrency THEN n ELSE r.concurrency)
  BY <1>1, <1>3 DEF SizedAtSlots
<1>8. /\ sized.model = r.model /\ sized.usable = r.hw.usable
      /\ sized.total = w + kv * r.context
                            * (IF slots /\ n > r.concurrency THEN n ELSE r.concurrency) + o
  BY <1>5, <1>7, Solved
<1>9. PerSequence(x) = r.context
  <2>1. CASE p.engine = "llama.cpp"
    <3>1. SpelledContext(x.engine, x.knobs) = r.context * n
      <4>1. n > 1 /\ x.knobs.max_concurrent = n /\ x.knobs.context_length = r.context
        BY <1>2, <1>3, <1>4
      <4> QED BY <1>2, <2>1, <4>1, Zenon DEF SpelledContext
    <3>2. PerSequence(x) = (r.context * n) \div n
      BY <1>2, <1>3, <2>1, <3>1, Zenon DEF PerSequence
    <3>3. n \in Nat \ {0} /\ r.context \in Nat
      BY <1>4
    <3> QED BY <3>2, <3>3, CutBack
  <2>2. CASE p.engine # "llama.cpp"
    <3>1. SpelledContext(x.engine, x.knobs) = r.context
      BY <1>2, <1>4, <2>2, Zenon DEF SpelledContext
    <3> QED BY <1>2, <2>2, <3>1, Zenon DEF PerSequence
  <2> QED BY <2>1, <2>2
<1>10. Allocated(x) = w + o + kv * r.context * (IF slots THEN n ELSE 1)
  BY <1>2, <1>3, <1>5, <1>8, <1>9 DEF Allocated
<1>11. w + kv * r.context * (IF slots /\ n > r.concurrency THEN n ELSE r.concurrency) + o
         <= r.hw.usable
  BY <1>2, <1>8 DEF Feasible
<1>12. w + o + kv * r.context * (IF slots THEN n ELSE 1) <= r.hw.usable
  BY <1>4, <1>6, <1>11, SlotsWithin
<1> QED BY <1>2, <1>9, <1>10, <1>12

\* What plan() does not refuse fits the machine and gives what was asked.
SizedFor(r, p) ==
    /\ Allocated(p) <= r.hw.usable
    /\ PerSequence(p) >= r.context
    /\ IF Unset(r.engine) THEN p.engine = RecommendRuntime(r.hw, r.context, r.concurrency)
                         ELSE r.hw.kind \in ENGINE_HARDWARE[p.engine]

LEMMA SizedFits ==
    ASSUME NEW r \in Requests, NEW x, x = Sized(r), Unset(x.refused)
    PROVE  SizedFor(r, x)
<1>1. Unset(r.quant) \/ r.quant \in Range(r.model.quants)
  BY DEF Sized, Refusal, Unset
<1>2. Unset(r.engine) \/ r.hw.kind \in ENGINE_HARDWARE[r.engine]
  BY DEF Sized, Refusal, Unset
<1>3. Fitting(r) # {}
  BY DEF Sized, Refusal, DoesNotFit, Unset
<1> DEFINE plans == {Planned(r, f, Plan(r.hw, Asked(r), r.model, f.quant, r.engine)) :
                        f \in Fitting(r)}
<1>4. x = The(plans)
  BY <1>1, <1>2, <1>3 DEF Sized, Unset
<1>5. x \in plans
  BY <1>3, <1>4 DEF The
<1>6. PICK f \in Fitting(r) :
           x = Planned(r, f, Plan(r.hw, Asked(r), r.model, f.quant, r.engine))
  BY <1>5
<1>7. PICK p : p = Plan(r.hw, Asked(r), r.model, f.quant, r.engine)
  OBVIOUS
<1>8. /\ Feasible(f) /\ f.quant \in Precisions
      /\ f = Solve(r.model, f.quant, r.hw, r.context, r.concurrency)
  BY <1>1, FittingIs
<1>9. x = Planned(r, f, p)
  BY <1>6, <1>7
<1>10. /\ Allocated(x) <= r.hw.usable /\ PerSequence(x) = r.context /\ x.engine = p.engine
  BY <1>7, <1>8, <1>9, LaunchableFits
<1>11. p.engine = IF Unset(r.engine) THEN RecommendRuntime(r.hw, r.context, r.concurrency)
                                   ELSE r.engine
  BY <1>7, SettingsOf
<1>12. r.context >= r.context
  BY AskedIsSizable
<1> QED BY <1>2, <1>10, <1>11, <1>12, Zenon DEF SizedFor

\* The inductive invariant of a launch: past the planning, it works from what
\* Sized said of the request, and that was no refusal.
PlanIsSized ==
    stage \in {"resolve", "flags", "spawn", "poll", "probe", "serving"} =>
        req \in Requests /\ plan = Sized(req) /\ Unset(plan.refused)

LEMMA PlanIsSizedStep == PlanIsSized /\ [LaunchNext]_launchVars => PlanIsSized'
<1> SUFFICES ASSUME PlanIsSized, [LaunchNext]_launchVars PROVE PlanIsSized'
  OBVIOUS
<1>1. CASE PlanLaunch
  <2>1. PICK r \in Requests : \E p \in {Sized(r)} :
          \/ stage' = "idle"
          \/ req' = r /\ plan' = p /\ Unset(p.refused)
    BY <1>1 DEF PlanLaunch, Refuse, Unset
  <2> QED BY <2>1 DEF PlanIsSized
<1>2. CASE /\ UNCHANGED <<req, plan>>
           /\ stage' = stage \/ stage' \in {"stop", "done", "stopped", "term", "reap"}
              \/ stage \in {"resolve", "flags", "spawn", "poll", "probe", "serving"}
  BY <1>2 DEF PlanIsSized
<1>3. CASE stage' = "idle"
  BY <1>3 DEF PlanIsSized
<1>4. CASE ResolveWeights
  <2>1. stage = "resolve" /\ (stage' = "idle" \/ UNCHANGED <<req, plan>>)
    BY <1>4 DEF ResolveWeights, Refuse
  <2> QED BY <1>2, <1>3, <2>1
<1>5. CASE CheckFlags \/ Spawn
  <2>1. stage \in {"flags", "spawn"} /\ (stage' = "idle" \/ UNCHANGED <<req, plan>>)
    BY <1>5 DEF CheckFlags, Spawn, Refuse
  <2> QED BY <1>2, <1>3, <2>1
<1>6. CASE Poll \/ Healthy \/ ServeUntilSignalled
  BY <1>2, <1>6 DEF Poll, Healthy, ServeUntilSignalled
<1>7. CASE StopList \/ Terminate \/ Reap
  BY <1>2, <1>7 DEF StopList, Terminate, Reap
<1>8. CASE Fork \/ Exit \/ HubChanges
  BY <1>2, <1>8 DEF Fork, Exit, HubChanges
<1>9. CASE Measurer
  BY <1>2, <1>9 DEF Measurer, MeasureBegin, DecodeOnce, MeasureEnd
<1>10. CASE UNCHANGED launchVars
  BY <1>2, <1>10 DEF launchVars
<1> QED BY <1>1, <1>4, <1>5, <1>6, <1>7, <1>8, <1>9, <1>10 DEF LaunchNext, Launcher

\* For any request, machine and model, what is launched fits as it will be
\* allocated, and every door into the solver says the same of what fits
\* (launch.plan, fit.py's solve, max_context, max_concurrency, rank).
THEOREM SizingAlwaysSound == LaunchSpec => []SizingSound
<1>1. LaunchInit => PlanIsSized
  BY DEF LaunchInit, PlanIsSized
<1>2. PlanIsSized => LaunchedAllocationFits
  <2> SUFFICES ASSUME PlanIsSized, stage \in {"spawn", "poll", "probe", "serving"}
               PROVE  SizedFor(req, plan)
    BY DEF LaunchedAllocationFits, SizedFor, Unset
  <2>1. req \in Requests /\ plan = Sized(req) /\ Unset(plan.refused)
    BY DEF PlanIsSized
  <2> QED BY <2>1, SizedFits
<1>3. PlanIsSized => SizingSound
  BY <1>2, DoorsAlwaysAgree DEF SizingSound
<1> QED BY <1>1, <1>3, PlanIsSizedStep, PTL DEF LaunchSpec

-----------------------------------------------------------------------------
(* What stop() saw (launch.py)                                             *)

\* A set of processes that holds those the roots started, and all below.
Closed(live, par, root, S) ==
    \A q \in live : q \in DOMAIN par /\ (par[q] = root \/ par[q] \in S) => q \in S

\* The least such set: the processes a root started, directly or not.
Below(live, par, root) ==
    {q \in live : \A S \in SUBSET live : Closed(live, par, root, S) => q \in S}

\* The processes that stop() lists are exactly those.
LEMMA DescendantsBelow == \A p : Descendants(p) = Below(alive, parent, p)
<1> SUFFICES ASSUME NEW p, NEW S \in SUBSET alive
             PROVE  Closed(alive, parent, p, S) <=>
                    ({q \in alive : q \in DOMAIN parent /\ parent[q] \in {p}}
                     \cup {q \in alive : q \in DOMAIN parent /\ parent[q] \in S}) \subseteq S
  BY DEF Descendants, Below
<1> QED BY DEF Closed

\* A new process is below whatever is above its parent.
LEMMA ForkKeepsBelow ==
    ASSUME NEW live, NEW par, NEW root, NEW p \in live, NEW q, q \notin live,
           q \notin DOMAIN par, NEW new, new = [x \in {q} \cup DOMAIN par |->
                                                IF x = q THEN p ELSE par[x]]
    PROVE  /\ Below(live, par, root) \subseteq Below(live \cup {q}, new, root)
           /\ p = root \/ p \in Below(live, par, root) => q \in Below(live \cup {q}, new, root)
<1>1. ASSUME NEW S \in SUBSET (live \cup {q}), Closed(live \cup {q}, new, root, S)
      PROVE  Closed(live, par, root, S \ {q}) /\ S \ {q} \in SUBSET live
  BY <1>1 DEF Closed
<1>2. ASSUME NEW S \in SUBSET (live \cup {q}), Closed(live \cup {q}, new, root, S), p = root \/ p \in S
      PROVE  q \in S
  BY <1>2 DEF Closed
<1> QED BY <1>1, <1>2 DEF Below

\* A process that ends cuts off what was below it, and nothing else.
LEMMA ExitKeepsBelow ==
    ASSUME NEW live, NEW par, NEW root, NEW p \in live, p # root, Unknown \notin live, Unknown # root,
           NEW new, new = [x \in DOMAIN par |-> IF par[x] = p THEN Unknown ELSE par[x]]
    PROVE  Below(live, par, root) \ (Below(live, par, p) \cup {p}) \subseteq Below(live \ {p}, new, root)
<1> SUFFICES ASSUME NEW S \in SUBSET (live \ {p}), Closed(live \ {p}, new, root, S)
             PROVE  Below(live, par, root) \subseteq S \cup Below(live, par, p) \cup {p}
  BY DEF Below
<1> DEFINE T == S \cup Below(live, par, p) \cup {p}
<1>1. T \in SUBSET live
  BY DEF Below
<1>2. ASSUME NEW q \in live, q \in DOMAIN par, par[q] = root \/ par[q] \in T
      PROVE  q \in T
  <2>1. CASE par[q] = p \/ par[q] \in Below(live, par, p)
    BY <1>2, <2>1 DEF Below, Closed
  <2>2. CASE par[q] # p /\ (par[q] = root \/ par[q] \in S) /\ q # p
    BY <1>2, <2>2 DEF Closed
  <2> QED BY <1>2, <2>1, <2>2
<1>3. Closed(live, par, root, T)
  BY <1>2 DEF Closed
<1> QED BY <1>1, <1>3 DEF Below

-----------------------------------------------------------------------------
\* Where the engine may have workers, and what stop() knows of them.
Looking == {"poll", "probe", "serving", "stop"}

\* The stages at which stop() has its list and kills by it.
Stopping == {"term", "reap"}

\* The inductive invariant of the stop: what still runs is below the engine as
\* long as the engine runs, then on the list, and in the end among the survivors,
\* unless it had lost its parent before anyone looked.
Seen ==
    /\ alive \subseteq Pids
    /\ stage \in Looking \cup Stopping => alive \subseteq {0} \cup DOMAIN parent
    /\ stage \in Looking /\ 0 \in alive => StillRunning \subseteq Below(alive, parent, 0) \cup escaped
    /\ stage \in Stopping => StillRunning \subseteq kin \cup escaped
    /\ stage = "stopped" => StillRunning \subseteq survivors \cup escaped

\* Before a launch nothing runs.
LEMMA SeenInit == LaunchInit => Seen
BY DEF LaunchInit, Seen, Looking, Stopping, StillRunning

\* Before there is an engine, and while nothing of it moves.
LEMMA SeenStill ==
    ASSUME Seen, UNCHANGED <<alive, parent, escaped, kin, survivors>>,
           \/ stage' = stage
           \/ stage' \in {"idle", "resolve", "flags", "spawn", "done"}
           \/ stage \in Looking /\ stage' \in Looking
    PROVE  Seen'
BY DEF Seen, Looking, Stopping, StillRunning, Below, Closed

\* The engine starts alone, or not at all.
LEMMA SpawnSeen == Seen /\ Spawn => Seen'
<1> SUFFICES ASSUME Seen, Spawn PROVE Seen'
  OBVIOUS
<1>1. CASE stage' = "poll" /\ alive' = {0}
  BY <1>1, LaunchAssumption DEF Seen, Looking, Stopping, StillRunning, Pids
<1>2. CASE stage' = "idle" /\ alive' = alive
  BY <1>2 DEF Seen, Looking, Stopping
<1> QED BY <1>1, <1>2 DEF Spawn, Refuse

\* stop() lists what is below the engine.
LEMMA StopListSeen == Seen /\ StopList => Seen'
<1> SUFFICES ASSUME Seen, StopList PROVE Seen'
  OBVIOUS
<1>1. stage = "stop" /\ alive' = alive /\ parent' = parent /\ escaped \subseteq escaped'
  BY DEF StopList
<1>2. CASE stage' = "stopped" /\ escaped' = escaped \cup StillRunning
  BY <1>1, <1>2 DEF Seen, Looking, Stopping, StillRunning
<1>3. CASE 0 \in alive /\ stage' = "term" /\ (kin' = Descendants(0) \/ escaped' = escaped \cup StillRunning)
  BY <1>1, <1>3, DescendantsBelow DEF Seen, Looking, Stopping, StillRunning
<1> QED BY <1>2, <1>3 DEF StopList

\* Signals leave no process out of the list.
LEMMA TerminateSeen == Seen /\ Terminate => Seen'
BY DEF Seen, Terminate, Looking, Stopping, StillRunning, Orphan

\* What is left at the end is what stop() names.
LEMMA ReapSeen == Seen /\ Reap => Seen'
BY DEF Seen, Reap, Looking, Stopping, StillRunning

\* A new worker is below the one that started it.
LEMMA ForkSeen == Seen /\ Fork => Seen'
<1> SUFFICES ASSUME Seen, Fork PROVE Seen'
  OBVIOUS
<1>1. PICK p \in alive, q \in Pids \ ({0} \cup DOMAIN parent) :
          /\ alive' = alive \cup {q}
          /\ parent' = [x \in {q} \cup DOMAIN parent |-> IF x = q THEN p ELSE parent[x]]
          /\ escaped' = IF stage \in {"term", "reap"} \/ p \in escaped
                        THEN escaped \cup {q} ELSE escaped
  BY DEF Fork
<1>2. UNCHANGED <<stage, kin, survivors>> /\ stage \in Looking \cup Stopping
  BY DEF Fork, Looking, Stopping
<1>4. q \notin alive /\ q \notin DOMAIN parent /\ alive' \subseteq Pids
      /\ alive' \subseteq {0} \cup DOMAIN parent'
  BY <1>1, <1>2 DEF Seen
<1>5. CASE stage \in Stopping
  BY <1>1, <1>2, <1>4, <1>5 DEF Seen, Stopping, Looking, StillRunning
<1>6. CASE stage \in Looking
  <2>1. /\ Below(alive, parent, 0) \subseteq Below(alive', parent', 0)
        /\ p = 0 \/ p \in Below(alive, parent, 0) => q \in Below(alive', parent', 0)
    BY <1>1, <1>4, ForkKeepsBelow
  <2>2. 0 \in alive' => StillRunning' \subseteq Below(alive', parent', 0) \cup escaped'
    BY <1>1, <1>6, <2>1 DEF Seen, StillRunning, Stopping, Looking
  <2> QED BY <1>2, <1>4, <1>6, <2>2 DEF Seen, Stopping, Looking
<1> QED BY <1>2, <1>5, <1>6

\* A worker that exits takes only its own below with it.
LEMMA ExitSeen == Seen /\ Exit => Seen'
<1> SUFFICES ASSUME Seen, Exit PROVE Seen'
  OBVIOUS
<1>1. PICK p \in alive :
          /\ alive' = alive \ {p}
          /\ Orphan(p)
          /\ escaped' = IF p = 0 \/ stage \in {"term", "reap"} THEN escaped
                        ELSE escaped \cup Descendants(p)
  BY DEF Exit
<1>2. UNCHANGED <<stage, kin, survivors>> /\ stage \in Looking \cup Stopping
  BY DEF Exit, Looking, Stopping
<1>3. parent' = [x \in DOMAIN parent |-> IF parent[x] = p THEN Unknown ELSE parent[x]]
  BY <1>1 DEF Orphan
<1>4. alive' \subseteq Pids /\ alive' \subseteq {0} \cup DOMAIN parent'
  BY <1>1, <1>2, <1>3 DEF Seen
<1>5. CASE stage \in Stopping
  BY <1>1, <1>2, <1>4, <1>5 DEF Seen, Stopping, Looking, StillRunning
<1>6. CASE stage \in Looking /\ p = 0
  BY <1>1, <1>2, <1>4, <1>6 DEF Seen, Stopping, Looking
<1>7. CASE stage \in Looking /\ p # 0
  <2>1. Unknown \notin alive /\ Unknown # 0
    BY DEF Seen, Pids, Unknown
  <2>2. Below(alive, parent, 0) \ (Below(alive, parent, p) \cup {p}) \subseteq Below(alive', parent', 0)
    BY <1>1, <1>3, <1>7, <2>1, ExitKeepsBelow
  <2>3. escaped' = escaped \cup Below(alive, parent, p)
    BY <1>1, <1>7, DescendantsBelow DEF Looking
  <2>4. 0 \in alive' => StillRunning' \subseteq Below(alive', parent', 0) \cup escaped'
    BY <1>1, <1>7, <2>2, <2>3 DEF Seen, StillRunning
  <2> QED BY <1>2, <1>4, <1>7, <2>4 DEF Seen, Stopping, Looking
<1> QED BY <1>2, <1>5, <1>6, <1>7

\* No step of the engine, its workers or the launcher disturbs it.
LEMMA SeenStep == Seen /\ [LaunchNext]_launchVars => Seen'
<1> SUFFICES ASSUME Seen, [LaunchNext]_launchVars PROVE Seen'
  OBVIOUS
<1>1. CASE UNCHANGED launchVars
  BY <1>1, SeenStill DEF launchVars, pvars
<1>2. CASE PlanLaunch
  <2>1. UNCHANGED <<alive, parent, escaped, kin, survivors>>
    BY <1>2 DEF PlanLaunch, pvars
  <2>2. stage' \in {"idle", "flags", "resolve"}
    BY <1>2 DEF PlanLaunch, Refuse, Confirmed
  <2> QED BY <2>1, <2>2, SeenStill
<1>3. CASE ResolveWeights
  <2>1. UNCHANGED <<alive, parent, escaped, kin, survivors>>
    BY <1>3 DEF ResolveWeights, pvars
  <2>2. stage' \in {"idle", "flags"} \/ stage' = stage
    BY <1>3 DEF ResolveWeights, Refuse, Confirmed
  <2> QED BY <2>1, <2>2, SeenStill
<1>4. CASE CheckFlags
  BY <1>4, SeenStill DEF CheckFlags, Refuse, pvars
<1>5. CASE Poll
  BY <1>5, SeenStill DEF Poll, pvars, Looking
<1>6. CASE Healthy
  BY <1>6, SeenStill DEF Healthy, pvars, Looking
<1>7. CASE ServeUntilSignalled
  BY <1>7, SeenStill DEF ServeUntilSignalled, pvars, Looking
<1>8. CASE HubChanges \/ Measurer
  BY <1>8, SeenStill DEF HubChanges, pvars, Measurer, DecodeOnce, MeasureBegin, MeasureEnd
<1> QED BY <1>1, <1>2, <1>3, <1>4, <1>5, <1>6, <1>7, <1>8, SpawnSeen, StopListSeen,
           TerminateSeen, ReapSeen, ForkSeen, ExitSeen DEF LaunchNext, Launcher

\* Whatever forks and ends meanwhile, and in whatever order: a stop() that
\* reports no survivor (Endpoint.stop, _reap) left nothing of the engine
\* running that its listing of the process table could have shown it.
THEOREM StopTells == LaunchSpec => []SilenceMeansStopped
<1>1. Seen => SilenceMeansStopped
  BY DEF Seen, SilenceMeansStopped
<1> QED BY <1>1, SeenInit, SeenStep, PTL DEF LaunchSpec
=============================================================================
