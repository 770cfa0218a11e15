----------------------------- MODULE Migration -----------------------------
(***************************************************************************)
(* The migration loop (src/onpar/migrate.py, cmd_migrate of cli.py): rounds *)
(* started by a schedule and by hand load the state file, prove the         *)
(* candidate, ask the gate, and save the file again, while the operator     *)
(* edits the rung in it.  Nothing locks the file; a save replaces it as a   *)
(* whole, which is what AtomicIO establishes of atomic_write.               *)
(***************************************************************************)
EXTENDS Gate, SequencesExt

CONSTANTS Rounds,      \* invocations of onpar migrate
          Candidates,  \* models a round may be started for
          Suites,      \* what a suite may score: readings by cluster
          History      \* HISTORY, the runs a file keeps

ASSUME HistoryAssumption == History \in Nat \ {0}
ASSUME SuitesAssumption ==
    \A s \in Suites : /\ DOMAIN s \subseteq Names
                      /\ \A c \in DOMAIN s : s[c] \in Reading /\ ~s[c].judge_only

VARIABLES file,      \* the state file, or Nothing
          at,        \* where each round is
          candidate, \* --candidate of each round
          state,     \* the State each round holds
          expected,  \* observation: the rung of the operator's latest edit
          quiet,     \* observation: no round was under way at that edit
          saved      \* observation: the latest run saved to the file, or Nothing

vars == <<file, at, candidate, state, expected, quiet, saved>>

Rungs == {Ladder[i] : i \in DOMAIN Ladder}
UnderWay == {"loaded", "stepped"}
\* One pass as recorded; its candidate is an observation the code does not keep.
Run == [round : Rounds, candidate : Candidates, stage : Rungs,
        action : {"hold", "advance", "roll_back"}, proposed : Rungs \cup {Nothing}]
State == [candidate : Candidates, stage : Rungs, runs : Seq(Run)]

TypeOK ==
    /\ file \in State \cup {Nothing}
    /\ file # Nothing => Len(file.runs) <= History
    /\ at \in [Rounds -> {"idle", "exited"} \cup UnderWay]
    /\ candidate \in [Rounds -> Candidates]
    /\ state \in [Rounds -> State \cup {Nothing}]
    /\ expected \in Rungs /\ quiet \in BOOLEAN
    /\ saved \in Run \cup {Nothing}

Init ==
    /\ file = Nothing
    /\ at = [r \in Rounds |-> "idle"]
    /\ candidate \in [Rounds -> Candidates]
    /\ state = [r \in Rounds |-> Nothing]
    /\ expected = Ladder[1] /\ quiet = TRUE
    /\ saved = Nothing

NewState(c) == [candidate |-> c, stage |-> Ladder[1], runs |-> <<>>]

\* Variant: takes up whatever migration the file tracks.
LoadAny(r) ==
    /\ at[r] = "idle"
    /\ state' = [state EXCEPT ![r] = IF file = Nothing THEN NewState(candidate[r]) ELSE file]
    /\ at' = [at EXCEPT ![r] = "loaded"]
    /\ UNCHANGED <<file, candidate, expected, quiet, saved>>
\* load_state: a missing file is a new migration, a file of another candidate
\* is refused.
Load(r) ==
    /\ at[r] = "idle"
    /\ IF file # Nothing /\ file.candidate # candidate[r]
       THEN at' = [at EXCEPT ![r] = "exited"] /\ UNCHANGED state
       ELSE /\ at' = [at EXCEPT ![r] = "loaded"]
            /\ state' = [state EXCEPT ![r] =
                            IF file = Nothing THEN NewState(candidate[r]) ELSE file]
    /\ UNCHANGED <<file, candidate, expected, quiet, saved>>

\* step passes no health, no pins and no agreement to the gate.
GateSays(r, suite) == Decide(suite, state[r].stage, Nothing, TRUE, {}, FALSE)

\* step: the suite is run, the gate is asked, the run is added to the state.
Step(r) ==
    /\ at[r] = "loaded"
    /\ \E suite \in Suites :
         LET d == GateSays(r, suite)
             run == [round |-> r, candidate |-> candidate[r], stage |-> state[r].stage,
                     action |-> d.action, proposed |-> d.to]
         IN state' = [state EXCEPT ![r].runs = Append(@, run)]
    /\ at' = [at EXCEPT ![r] = "stepped"]
    /\ UNCHANGED <<file, candidate, expected, quiet, saved>>

Trim(runs) ==
    SubSeq(runs, IF Len(runs) <= History THEN 1 ELSE Len(runs) - History + 1, Len(runs))

\* Variant: acts on the proposal it has just recorded.
SavePromoting(r) ==
    /\ at[r] = "stepped"
    /\ LET to == Last(state[r].runs).proposed IN
       file' = [state[r] EXCEPT !.runs = Trim(@), !.stage = IF to = Nothing THEN @ ELSE to]
    /\ saved' = Last(state[r].runs)
    /\ at' = [at EXCEPT ![r] = "exited"]
    /\ state' = [state EXCEPT ![r] = Nothing]
    /\ UNCHANGED <<candidate, expected, quiet>>
\* save_state: trim the history, replace the file.
Save(r) ==
    /\ at[r] = "stepped"
    /\ file' = [state[r] EXCEPT !.runs = Trim(@)]
    /\ saved' = Last(state[r].runs)
    /\ at' = [at EXCEPT ![r] = "exited"]
    /\ state' = [state EXCEPT ![r] = Nothing]
    /\ UNCHANGED <<candidate, expected, quiet>>

\* No captures, no eval items, no replies, a judged suite, a save that raises,
\* or the process is killed: the round ends and nothing is saved.
Exit(r) ==
    /\ at[r] \in UnderWay
    /\ at' = [at EXCEPT ![r] = "exited"]
    /\ state' = [state EXCEPT ![r] = Nothing]
    /\ UNCHANGED <<file, candidate, expected, quiet, saved>>

Quiet == \A r \in Rounds : at[r] \notin UnderWay

\* The operator writes the rung production is on into the file.
SetStage(rung) ==
    /\ file # Nothing
    /\ file' = [file EXCEPT !.stage = rung]
    /\ expected' = rung /\ quiet' = Quiet
    /\ UNCHANGED <<at, candidate, state, saved>>

\* The operator finishes a migration: the file goes.
Finish ==
    /\ file # Nothing
    /\ file' = Nothing
    /\ expected' = Ladder[1] /\ quiet' = Quiet
    /\ saved' = Nothing
    /\ UNCHANGED <<at, candidate, state>>

Next ==
    \/ \E r \in Rounds : Load(r) \/ Step(r) \/ Save(r) \/ Exit(r)
    \/ \E rung \in Rungs : SetStage(rung)
    \/ Finish

Spec == Init /\ [][Next]_vars
-----------------------------------------------------------------------------
(* Properties *)

\* migrate.py: "sharing a state file between two candidates would interleave
\* their histories".  Even when rounds for two candidates race to create the
\* file, every run in it was made for the candidate it names.
OneCandidate ==
    file # Nothing =>
        \A i \in DOMAIN file.runs : file.runs[i].candidate = file.candidate

\* Rounds overlap and the history is trimmed, but the run saved last is the
\* last one in the file, and no round is in it twice.
LatestRunKept ==
    file # Nothing =>
        /\ file.runs # <<>> /\ Last(file.runs) = saved
        /\ \A i, j \in DOMAIN file.runs :
               file.runs[i].round = file.runs[j].round => i = j

\* The history that a file of one candidate is.
HistorySound == OneCandidate /\ LatestRunKept

\* migrate.py on the rung: "This module never changes it".  An edit made while
\* no round is under way stands, whatever rounds follow and propose.
QuietEditsStand == quiet /\ file # Nothing => file.stage = expected

\* step asks the gate without health, and live traffic without health never
\* advances: the loop proposes the step out of shadow and no other.
ProposesOnlyFromShadow ==
    file # Nothing =>
        \A i \in DOMAIN file.runs :
            file.runs[i].action = "advance" =>
                file.runs[i].stage = Ladder[1] /\ file.runs[i].proposed = Ladder[2]
=============================================================================
