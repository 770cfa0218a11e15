---------------------------- MODULE CaptureStore ----------------------------
(***************************************************************************)
(* The encrypted capture log (onpar-gateway/src/capture/store.rs) through   *)
(* the life of the gateway that owns it: loading or creating the key at     *)
(* start-up, append tasks that run after the response, I/O errors and       *)
(* crashes in the middle of a frame, restarts that append to the same file, *)
(* and read_all by the control plane at any time.                           *)
(*                                                                          *)
(* Bytes are abstracted to cells: a frame is its length, its nonce and the  *)
(* cells of its ciphertext.  A cell remembers which capture and key it was  *)
(* made from, which is what authenticated decryption can tell.              *)
(***************************************************************************)
EXTENDS Integers, Sequences, SequencesExt

CONSTANTS Captures,   \* exchanges handed to the store, each once
          CellsOf,    \* number of ciphertext cells of each capture
          Illegible,  \* captures whose record is no Capture to the build that reads
          MaxStarts   \* bound on the number of times the gateway starts

ASSUME CellsAssumption == CellsOf \in [Captures -> Nat \ {0}]
ASSUME IllegibleAssumption == Illegible \subseteq Captures
ASSUME StartsAssumption == MaxStarts \in Nat \ {0}

VARIABLES keyFile,  \* the key on disk: Absent, Short, or the key's number
          key,      \* the key in memory
          mode,     \* "down", "keying" (writing a new key) or "serving"
          starts,   \* how often the gateway was started; numbers fresh keys
          task,     \* the append task of each capture
          log,      \* the cells of the log file
          written,  \* observation: captures whose frame is whole, in file order
          torn,     \* observation: "no", "tail" (a torn frame ends the file)
                    \* or "inside" (something was appended after it)
          replaced  \* observation: a start has overwritten a good key

storeVars == <<keyFile, key, mode, starts, task, log, written, torn, replaced>>

Absent == 0
Short == -1
KeyId == 1..MaxStarts

\* A length that was itself torn decodes to anything: a short frame, or more
\* than the file will ever hold.
GarbledLengths == {1, 1000}

Cell == [part : {"len", "nonce", "ct"}, cap : Captures, key : KeyId, n : Nat]
Frame(c, k) ==
    <<[part |-> "len", cap |-> c, key |-> k, n |-> CellsOf[c]],
      [part |-> "nonce", cap |-> c, key |-> k, n |-> 0]>>
    \o [i \in 1..CellsOf[c] |-> [part |-> "ct", cap |-> c, key |-> k, n |-> i]]

\* What a write that stops early leaves in the file.
TornFrames(c, k) ==
    {SubSeq(Frame(c, k), 1, j) : j \in 1..(Len(Frame(c, k)) - 1)}
    \cup {<<[part |-> "len", cap |-> c, key |-> k, n |-> g]>> : g \in GarbledLengths}

StoreTypeOK ==
    /\ keyFile \in {Absent, Short} \cup KeyId
    /\ key \in {Absent} \cup KeyId
    /\ mode \in {"down", "keying", "serving"}
    /\ starts \in 0..MaxStarts
    /\ task \in [Captures -> {"none", "queued", "stored", "refused", "failed", "lost"}]
    /\ log \in Seq(Cell)
    /\ written \in Seq(Captures)
    /\ torn \in {"no", "tail", "inside"}
    /\ replaced \in BOOLEAN

StoreInit ==
    /\ keyFile \in {Absent, Short}
    /\ key = Absent
    /\ mode = "down"
    /\ starts = 0
    /\ task = [c \in Captures |-> "none"]
    /\ log = <<>>
    /\ written = <<>>
    /\ torn = "no"
    /\ replaced = FALSE
-----------------------------------------------------------------------------
(* read_all *)

\* Authenticated decryption succeeds on the untouched ciphertext of one frame,
\* with that frame's nonce and key, and on nothing else.
Decrypts(nonce, ct, k) ==
    /\ nonce.part = "nonce" /\ nonce.key = k
    /\ Len(ct) = CellsOf[nonce.cap]
    /\ \A i \in 1..Len(ct) : ct[i] = [part |-> "ct", cap |-> nonce.cap, key |-> k, n |-> i]

\* The captures of the records that decrypt.  A missing tail ends the read; a
\* complete record that does not decrypt fails all of it.
Records(raw, k) ==
    LET read[i \in 1..(Len(raw) + 1)] ==
          IF i + 1 > Len(raw) \/ i + 1 + raw[i].n > Len(raw)
          THEN [ok |-> TRUE, out |-> <<>>]
          ELSE LET end == i + 1 + raw[i].n
                   ct == SubSeq(raw, i + 2, end)
                   rest == read[end + 1]
               IN IF raw[i].n > 0 /\ Decrypts(raw[i + 1], ct, k)
                  THEN [rest EXCEPT !.out = <<raw[i + 1].cap>> \o @]
                  ELSE [ok |-> FALSE, out |-> <<>>]
    IN read[1]

\* A record that decrypts and is no Capture is passed over, and nobody is told.
Legible(captures) == SelectSeq(captures, LAMBDA c : c \notin Illegible)
ReadAll(raw, k) == [Records(raw, k) EXCEPT !.out = Legible(@)]
-----------------------------------------------------------------------------
(* Start-up: load_or_create_key, then open and ready, then serve. *)

KeyLoadable(f) == f \in KeyId

StartWithKey ==
    /\ mode = "down" /\ starts < MaxStarts
    /\ KeyLoadable(keyFile)
    /\ key' = keyFile
    /\ mode' = "serving"
    /\ starts' = starts + 1
    /\ UNCHANGED <<keyFile, task, log, written, torn, replaced>>

\* The file is absent, is not 32 bytes long, or could not be read: an error of
\* any kind is taken for an absent file, and a good key is written over.
\* Writing the file truncates it first.
StartKeying ==
    /\ mode = "down" /\ starts < MaxStarts
    /\ keyFile' = Short
    /\ replaced' = (replaced \/ KeyLoadable(keyFile))
    /\ mode' = "keying"
    /\ starts' = starts + 1
    /\ UNCHANGED <<key, task, log, written, torn>>

FinishKeying ==
    /\ mode = "keying"
    /\ keyFile' = starts
    /\ key' = starts
    /\ mode' = "serving"
    /\ UNCHANGED <<starts, task, log, written, torn, replaced>>
-----------------------------------------------------------------------------
(* append, from a spawned task *)

Spawn(c) ==
    /\ mode = "serving" /\ task[c] = "none"
    /\ task' = [task EXCEPT ![c] = "queued"]
    /\ UNCHANGED <<keyFile, key, mode, starts, log, written, torn, replaced>>

\* Text too large to scan: the capture is dropped before anything is written.
RefuseRedaction(c) ==
    /\ mode = "serving" /\ task[c] = "queued"
    /\ task' = [task EXCEPT ![c] = "refused"]
    /\ UNCHANGED <<keyFile, key, mode, starts, log, written, torn, replaced>>

\* Something follows what used to be the end of the file.
Followed(t) == IF t = "no" THEN "no" ELSE "inside"

\* Variant: the three parts of the frame are written unlocked, and another
\* task's frame, written at once, gets in between.
AppendUnlocked(c) ==
    /\ mode = "serving" /\ task[c] = "queued"
    /\ \E d \in Captures \ {c} :
         /\ task[d] = "queued"
         /\ log' = log \o SubSeq(Frame(c, key), 1, 1) \o Frame(d, key)
                       \o SubSeq(Frame(c, key), 2, Len(Frame(c, key)))
         /\ task' = [task EXCEPT ![c] = "stored", ![d] = "stored"]
         /\ written' = written \o <<c, d>>
    /\ torn' = Followed(torn)
    /\ UNCHANGED <<keyFile, key, mode, starts, replaced>>
\* One frame, one write, under the writer's mutex.
Append1(c) ==
    /\ mode = "serving" /\ task[c] = "queued"
    /\ log' = log \o Frame(c, key)
    /\ task' = [task EXCEPT ![c] = "stored"]
    /\ written' = Append(written, c)
    /\ torn' = Followed(torn)
    /\ UNCHANGED <<keyFile, key, mode, starts, replaced>>

\* write_all fails, possibly after some of the frame (a full disk).
AppendFails(c) ==
    /\ mode = "serving" /\ task[c] = "queued"
    /\ task' = [task EXCEPT ![c] = "failed"]
    /\ \/ UNCHANGED <<log, torn>>
       \/ \E cells \in TornFrames(c, key) :
            /\ log' = log \o cells
            /\ torn' = IF torn = "no" THEN "tail" ELSE "inside"
    /\ UNCHANGED <<keyFile, key, mode, starts, written, replaced>>

\* The process dies with its queue, at most one frame being partly in the file.
Die(q) == [c \in Captures |-> IF q[c] = "queued" THEN "lost" ELSE q[c]]
Crash ==
    /\ mode # "down"
    /\ mode' = "down"
    /\ key' = Absent
    /\ task' = Die(task)
    /\ \/ UNCHANGED <<log, torn>>
       \/ \E c \in Captures :
            /\ task[c] = "queued"
            /\ \E cells \in TornFrames(c, key) : log' = log \o cells
            /\ torn' = IF torn = "no" THEN "tail" ELSE "inside"
    /\ UNCHANGED <<keyFile, starts, written, replaced>>

StoreNext ==
    \/ StartWithKey \/ StartKeying \/ FinishKeying \/ Crash
    \/ \E c \in Captures : Spawn(c) \/ RefuseRedaction(c) \/ Append1(c) \/ AppendFails(c)

StoreSpec == StoreInit /\ [][StoreNext]_storeVars
-----------------------------------------------------------------------------
(* Properties *)

\* The key on disk is the one every cell of the log was made with.
KeyFits == \A i \in DOMAIN log : log[i].key = keyFile

\* As long as the key fits and at most the last frame is torn, read_all succeeds
\* and returns every legible capture that was written, in the order of the file:
\* the mutex keeps frames apart, and restarts append under the same key.
CleanLogReadable ==
    torn # "inside" /\ keyFile \in KeyId /\ KeyFits =>
        ReadAll(log, keyFile) = [ok |-> TRUE, out |-> Legible(written)]

\* Whatever happened to the file and to the key, what read_all returns is the
\* legible part of a beginning of what was written: it never invents a capture,
\* reorders two, or gives one from behind a frame it could not read.
ReadNeverInvents ==
    LET r == ReadAll(log, keyFile)
    IN r.ok => \E m \in 0..Len(written) : r.out = Legible(SubSeq(written, 1, m))

\* Unless a start has written over a good key, a crash while the key is created
\* and any number of restarts never leave captures under a key that is gone.
KeyOnDiskFitsLog == ~replaced => KeyFits

\* What a reader of the log is told (read_all), and that it holds the key to it,
\* over the states the store can be in.
LogFaithful == StoreTypeOK /\ KeyOnDiskFitsLog /\ CleanLogReadable /\ ReadNeverInvents

\* store.rs, read_all: "A truncated final record - a crash mid-append - is
\* skipped rather than failing the whole read. Losing the last capture is
\* acceptable; losing the corpus because of it is not."
TornRecordCostsOnlyItself ==
    keyFile \in KeyId /\ KeyFits =>
        ReadAll(log, keyFile) = [ok |-> TRUE, out |-> Legible(written)]

\* store.rs, load_or_create_key: "Load a key from `path`, generating one if
\* absent"; "StoreError::Io on any filesystem failure".  So no start may leave
\* captures in the log that the key on disk does not open.
KeyOutlivesRestarts == KeyFits
=============================================================================
