--------------------------- MODULE StorageProofs ---------------------------
(***************************************************************************)
(* Proofs about what is kept on disk.  AtomicIO, for any number of writers: *)
(* readers see whole files, locked updates are all kept, scratch files go.  *)
(* CaptureStore, for any captures, sizes and starts: the key on disk fits the *)
(* log, and a reader of the log gets what was written, in order.            *)
(***************************************************************************)
EXTENDS AtomicIO, CaptureStore, SequenceTheorems, WellFoundedInduction, NaturalsInduction, TLAPS

(* AtomicIO *)

\* The states of a call before its scratch file has become the file, and the
\* ones in which it has that file open.
Before == {"idle", "reading", "opening", "writing", "writing_rest", "syncing", "replacing"}
Holding == {"writing", "writing_rest", "syncing", "replacing"}

\* What the calls owe to one another: every writer works on an inode of its
\* own, which nobody can read before it has been replaced.
Private ==
    \A w \in Writers :
        /\ tmp[w] \in {w, NoInode}
        /\ pc[w] \in Before => file # w /\ diskFile # w
        /\ pc[w] \in Holding => handle[w] = w
        /\ pc[w] \in {"syncing", "replacing"} => data[w].whole
        /\ pc[w] = "replacing" => w \in synced

\* What a reader may find: a file that is whole and whose data is on the disk.
Published ==
    \A i \in {file, diskFile} : i # NoInode => i \in synced /\ data[i].whole

WholeInv == TypeOK /\ Private /\ Published

\* The initial file, if there is one, is whole.
LEMMA WholeInit == Init => WholeInv
BY NamesAssumption DEF Init, WholeInv, TypeOK, Private, Published, Entries, Inodes,
   Empty, Whole, Running, Over, Before, Holding

\* The types are kept by every call, failure and crash of atomicio.
LEMMA TypeStep == TypeOK /\ Private /\ [Next]_vars => TypeOK'
<1> SUFFICES ASSUME TypeOK, Private, [Next]_vars PROVE TypeOK'
  OBVIOUS
<1> USE DEF TypeOK, Entries, Inodes, Running, Over, To
<1>1. ASSUME NEW w \in Writers, Lock(w) PROVE TypeOK'
  BY <1>1 DEF Lock, diskVars, promiseVars
<1>2. ASSUME NEW w \in Writers, Degrade(w) PROVE TypeOK'
  BY <1>2, NamesAssumption DEF Degrade, diskVars
<1>3. ASSUME NEW w \in Writers, Read(w) PROVE TypeOK'
  BY <1>3, NamesAssumption DEF Read, diskVars, promiseVars
<1>4. ASSUME NEW w \in Writers, ReadFails(w) PROVE TypeOK'
  BY <1>4, NamesAssumption DEF ReadFails, diskVars
<1>5. ASSUME NEW w \in Writers, Open(w) PROVE TypeOK'
  BY <1>5, NamesAssumption DEF Open, UniqueTmp, Empty, promiseVars, Private
<1>6. ASSUME NEW w \in Writers, Write(w) PROVE TypeOK'
  BY <1>6, NamesAssumption DEF Write, promiseVars, Private, Holding
<1>7. ASSUME NEW w \in Writers, Fsync(w) PROVE TypeOK'
  BY <1>7, NamesAssumption DEF Fsync, promiseVars, Private, Holding
<1>8. ASSUME NEW w \in Writers, Replace(w) PROVE TypeOK'
  BY <1>8, NamesAssumption DEF Replace, UniqueTmp, diskVars, promiseVars
<1>9. ASSUME NEW w \in Writers, FsyncDir(w) PROVE TypeOK'
  BY <1>9, NamesAssumption DEF FsyncDir
<1>10. ASSUME NEW w \in Writers, Fail(w) PROVE TypeOK'
  BY <1>10, NamesAssumption DEF Fail, diskVars, promiseVars
<1>11. ASSUME NEW w \in Writers, Unlink(w) PROVE TypeOK'
  BY <1>11, NamesAssumption DEF Unlink, UniqueTmp, diskVars, promiseVars
<1>12. ASSUME NEW w \in Writers, Unlock(w) PROVE TypeOK'
  BY <1>12, NamesAssumption DEF Unlock, diskVars
<1>13. ASSUME NEW w \in Writers, Kill(w) PROVE TypeOK'
  BY <1>13, NamesAssumption DEF Kill, diskVars, promiseVars
<1>14. CASE WriteBack
  BY <1>14 DEF WriteBack, writerVars, promiseVars
<1>15. CASE MachineCrash
  <2>1. tmp' \in [Writers -> Inodes \cup {NoInode}]
    BY <1>15 DEF MachineCrash
  <2> QED BY <1>15, <2>1 DEF MachineCrash, diskVars, Empty
<1>16. CASE UNCHANGED vars
  BY <1>16 DEF vars, writerVars, diskVars, promiseVars
<1> QED BY <1>1, <1>2, <1>3, <1>4, <1>5, <1>6, <1>7, <1>8, <1>9, <1>10, <1>11,
           <1>12, <1>13, <1>14, <1>15, <1>16 DEF Next, Step

\* The steps of a writer that touch no file.
Aside(w) == Lock(w) \/ Degrade(w) \/ Read(w) \/ ReadFails(w) \/ Unlock(w)

\* Privacy and publication are kept by every call, failure and crash.
LEMMA WholeStep == WholeInv /\ [Next]_vars => (Private /\ Published)'
<1> SUFFICES ASSUME TypeOK, Private, Published, [Next]_vars PROVE (Private /\ Published)'
  BY DEF WholeInv
<1> USE NamesAssumption DEF Private, Published, TypeOK, Inodes, To, Before, Holding, Running
<1>1. ASSUME NEW w \in Writers, Aside(w) PROVE (Private /\ Published)'
  BY <1>1 DEF Aside, Lock, Degrade, Read, ReadFails, Unlock, diskVars, promiseVars
<1>2. ASSUME NEW w \in Writers, Open(w) PROVE (Private /\ Published)'
  BY <1>2 DEF Open, UniqueTmp, Empty
<1>3. ASSUME NEW w \in Writers, Write(w) PROVE (Private /\ Published)'
  <2>1. /\ handle[w] = w /\ file # w /\ diskFile # w
        /\ w \in Inodes
    BY <1>3 DEF Write
  <2>2. /\ data' = [data EXCEPT ![w] = [entries |-> doc[w], whole |-> pc[w] = "writing_rest"]]
        /\ synced' = synced \ {w}
        /\ UNCHANGED <<handle, tmp, file, diskFile>>
    BY <1>3, <2>1 DEF Write
  <2>3. data'[w].whole = (pc[w] = "writing_rest")
    BY <2>1, <2>2
  <2>4. \A i \in Inodes \ {w} : data'[i] = data[i] /\ (i \in synced => i \in synced')
    BY <2>2
  <2>5. Published'
    BY <2>1, <2>2, <2>4
  <2>6. /\ pc[w] \in {"writing", "writing_rest"}
        /\ pc' = [pc EXCEPT ![w] = IF pc[w] = "writing" THEN "writing_rest" ELSE "syncing"]
    BY <1>3 DEF Write
  <2>7. ASSUME NEW v \in Writers
        PROVE  /\ tmp'[v] \in {v, NoInode}
               /\ pc'[v] \in Before => file' # v /\ diskFile' # v
               /\ pc'[v] \in Holding => handle'[v] = v
               /\ pc'[v] \in {"syncing", "replacing"} => data'[v].whole
               /\ pc'[v] = "replacing" => v \in synced'
    <3>1. CASE v = w
      <4>1. pc'[w] = IF pc[w] = "writing" THEN "writing_rest" ELSE "syncing"
        BY <2>6
      <4>2. pc'[w] # "replacing" /\ (pc'[w] = "syncing" => data'[w].whole)
        BY <2>3, <2>6, <4>1
      <4> QED BY <2>1, <2>2, <3>1, <4>2
    <3>2. CASE v # w
      <4>1. pc'[v] = pc[v] /\ v \in Inodes \ {w}
        BY <2>6, <3>2
      <4> QED BY <2>2, <2>4, <4>1
    <3> QED BY <3>1, <3>2
  <2> QED BY <2>5, <2>7 DEF Private
<1>4. ASSUME NEW w \in Writers, Fsync(w) PROVE (Private /\ Published)'
  BY <1>4 DEF Fsync
<1>5. ASSUME NEW w \in Writers, Replace(w) PROVE (Private /\ Published)'
  BY <1>5 DEF Replace, UniqueTmp, diskVars
<1>6. ASSUME NEW w \in Writers, FsyncDir(w) PROVE (Private /\ Published)'
  BY <1>6 DEF FsyncDir
<1>7. ASSUME NEW w \in Writers, Fail(w) \/ Unlink(w) \/ Kill(w) PROVE (Private /\ Published)'
  BY <1>7 DEF Fail, Unlink, Kill, UniqueTmp, diskVars
<1>8. CASE WriteBack
  BY <1>8 DEF WriteBack, writerVars
<1>9. CASE MachineCrash
  BY <1>9 DEF MachineCrash, diskVars, Empty
<1>10. CASE UNCHANGED vars
  BY <1>10 DEF vars, writerVars, diskVars
<1> QED BY <1>1, <1>2, <1>3, <1>4, <1>5, <1>6, <1>7, <1>8, <1>9, <1>10
        DEF Next, Step, Aside

\* The inductive invariant holds throughout, for every number of writers.
THEOREM WholeAlways == Spec => []WholeInv
<1>1. WholeInv /\ [Next]_vars => WholeInv'
  BY TypeStep, WholeStep DEF WholeInv
<1> QED BY WholeInit, <1>1, PTL DEF Spec

\* update_json is type correct, and only a call under way holds the lock.
THEOREM TypeCorrect == Spec => []TypeOK
<1>1. WholeInv => TypeOK
  BY DEF WholeInv
<1> QED BY <1>1, WholeAlways, PTL

\* A reader of the path never finds a partial file, nor would it after a
\* machine crash, with or without the lock.
THEOREM ReadersSeeWhole == Spec => []ReaderSeesWhole
<1>1. WholeInv => ReaderSeesWhole
  BY DEF WholeInv, Published, ReaderSeesWhole
<1> QED BY <1>1, WholeAlways, PTL
-----------------------------------------------------------------------------
(* No update is lost *)

\* Calls that have replaced the file and are about to return True.
Returning == {w \in Writers : pc[w] \in {"unlinking", "unlocking"} /\ result[w]}
Kept == acked \cup Returning

\* While everybody gets the lock: one call is under way at a time, what it is
\* about to store extends what was acknowledged, and what was acknowledged is
\* in the file and, once the directory was synced, on the disk.
Serial ==
    \A w \in Writers :
        /\ pc[w] \in Running => lock = w
        /\ pc[w] \in {"opening"} \cup Holding => acked \cup {w} \subseteq doc[w]
        /\ pc[w] \in {"syncing", "replacing"} => data[w].entries = doc[w]
        /\ pc[w] = "dirsync" => file # NoInode /\ w \in data[file].entries
        /\ pc[w] \in Before \cup {"dirsync"} => ~result[w] /\ w \notin durable
Stored ==
    /\ \A e \in Kept : file # NoInode /\ e \in data[file].entries
    /\ \A e \in Kept \cap durable : diskFile # NoInode /\ e \in data[diskFile].entries
KeptInv == clean => Serial /\ Stored

\* Nothing is acknowledged at first but what the file holds.
LEMMA KeptInit == Init => KeptInv
<1> SUFFICES ASSUME Init PROVE Serial /\ Stored
  BY DEF KeptInv
<1>1. Returning = {}
  BY DEF Init, Returning
<1>2. Stored
  BY <1>1, NamesAssumption DEF Init, Stored, Kept, Inodes, Whole
<1>3. Serial
  BY NamesAssumption DEF Init, Serial, Running, Holding, Before
<1> QED BY <1>2, <1>3

\* Every step keeps it; a step that does without lock or read is exempt.
LEMMA KeptStep == WholeInv /\ KeptInv /\ [Next]_vars => KeptInv'
<1> SUFFICES ASSUME TypeOK, Private, Published, KeptInv, [Next]_vars, clean'
             PROVE  (Serial /\ Stored)'
  BY DEF WholeInv, KeptInv
<1>0. clean /\ Serial /\ Stored
  <2>1. clean' => clean
    BY DEF Next, Step, Lock, Degrade, Read, ReadFails, Open, Write, Fsync, Replace,
           FsyncDir, Fail, Unlink, Unlock, Kill, WriteBack, MachineCrash, vars, promiseVars
  <2> QED BY <2>1 DEF KeptInv
<1> USE <1>0, NamesAssumption DEF TypeOK, Inodes, Entries, To, Before, Holding, Running,
        Over, Serial, Stored, Kept, Returning
<1>1. ASSUME NEW w \in Writers, Lock(w) PROVE (Serial /\ Stored)'
  BY <1>1 DEF Lock, diskVars, promiseVars
<1>2. ASSUME NEW w \in Writers, Degrade(w) \/ ReadFails(w) PROVE FALSE
  BY <1>2 DEF Degrade, ReadFails
<1>3. ASSUME NEW w \in Writers, Read(w) PROVE (Serial /\ Stored)'
  BY <1>3 DEF Read, diskVars, promiseVars, Published
<1>4. ASSUME NEW w \in Writers, Open(w) PROVE (Serial /\ Stored)'
  BY <1>4 DEF Open, UniqueTmp, Empty, promiseVars, Private
<1>5. ASSUME NEW w \in Writers, Write(w) PROVE (Serial /\ Stored)'
  BY <1>5 DEF Write, promiseVars, Private
<1>6. ASSUME NEW w \in Writers, Fsync(w) PROVE (Serial /\ Stored)'
  BY <1>6 DEF Fsync, promiseVars
<1>7. ASSUME NEW w \in Writers, Replace(w) PROVE (Serial /\ Stored)'
  BY <1>7 DEF Replace, UniqueTmp, diskVars, promiseVars, Private
<1>8. ASSUME NEW w \in Writers, FsyncDir(w) PROVE (Serial /\ Stored)'
  BY <1>8 DEF FsyncDir
<1>9. ASSUME NEW w \in Writers, Fail(w) PROVE (Serial /\ Stored)'
  BY <1>9 DEF Fail, diskVars, promiseVars
<1>10. ASSUME NEW w \in Writers, Unlink(w) PROVE (Serial /\ Stored)'
  BY <1>10 DEF Unlink, UniqueTmp, diskVars, promiseVars
<1>11. ASSUME NEW w \in Writers, Unlock(w) PROVE (Serial /\ Stored)'
  BY <1>11 DEF Unlock, diskVars
<1>12. ASSUME NEW w \in Writers, Kill(w) PROVE (Serial /\ Stored)'
  BY <1>12 DEF Kill, diskVars, promiseVars
<1>13. CASE WriteBack
  BY <1>13 DEF WriteBack, writerVars, promiseVars
<1>14. CASE MachineCrash
  BY <1>14 DEF MachineCrash, diskVars, Published
<1>15. CASE UNCHANGED vars
  BY <1>15 DEF vars, writerVars, diskVars, promiseVars
<1> QED BY <1>1, <1>2, <1>3, <1>4, <1>5, <1>6, <1>7, <1>8, <1>9, <1>10, <1>11,
           <1>12, <1>13, <1>14, <1>15 DEF Next, Step

\* As long as everybody got the lock and could read the file, no entry whose
\* update_json returned True is missing from the file, nor from what a machine
\* crash would leave once its directory fsync worked.
THEOREM UpdatesKept == Spec => []NoUpdateLost
<1>1. KeptInv => NoUpdateLost
  BY DEF KeptInv, Stored, Kept, NoUpdateLost
<1>2. Init => KeptInv
  BY KeptInit
<1>3. WholeInv /\ KeptInv /\ [Next]_vars => KeptInv'
  BY KeptStep
<1> QED BY <1>1, <1>2, <1>3, WholeAlways, PTL DEF Spec
-----------------------------------------------------------------------------
(* The scratch files *)

\* From the rename on the scratch name is gone, and no later step of the same
\* call brings it back.
Settled ==
    \A w \in Writers :
        /\ pc[w] \in Before \cup {"dirsync"} => ~result[w] /\ w \notin durable \cup acked
        /\ pc[w] = "dirsync" \/ result[w] => tmp[w] = NoInode \/ pc[w] \in Over
        /\ w \in durable \cup acked => tmp[w] = NoInode
        /\ w \in acked => pc[w] \in Over

\* Every step keeps it, a failing unlink and a crash included.
LEMMA SettledStep == WholeInv /\ Settled /\ [Next]_vars => Settled'
<1> SUFFICES ASSUME WholeInv, Settled, [Next]_vars PROVE Settled'
  OBVIOUS
<1> USE DEF WholeInv, TypeOK, Settled, Before, Running, Over, To
<1>1. ASSUME NEW w \in Writers, Lock(w) \/ Degrade(w) \/ Read(w) \/ ReadFails(w) PROVE Settled'
  BY <1>1 DEF Lock, Degrade, Read, ReadFails, promiseVars
<1>2. ASSUME NEW w \in Writers, Open(w) PROVE Settled'
  BY <1>2 DEF Open, UniqueTmp, promiseVars
<1>3. ASSUME NEW w \in Writers, Write(w) \/ Fsync(w) \/ Fail(w) \/ Kill(w)
      PROVE  Settled'
  BY <1>3 DEF Write, Fsync, Fail, Kill, promiseVars
<1>4. ASSUME NEW w \in Writers, FsyncDir(w) PROVE Settled'
  BY <1>4 DEF FsyncDir
<1>5. ASSUME NEW w \in Writers, Replace(w) PROVE Settled'
  BY <1>5 DEF Replace, UniqueTmp, promiseVars
<1>6. ASSUME NEW w \in Writers, Unlink(w) PROVE Settled'
  BY <1>6 DEF Unlink, UniqueTmp, promiseVars
<1>7. ASSUME NEW w \in Writers, Unlock(w) PROVE Settled'
  BY <1>7 DEF Unlock
<1>8. CASE MachineCrash
  BY <1>8 DEF MachineCrash
<1>9. CASE WriteBack \/ UNCHANGED vars
  BY <1>9 DEF WriteBack, vars, writerVars, promiseVars
<1> QED BY <1>1, <1>2, <1>3, <1>4, <1>5, <1>6, <1>7, <1>8, <1>9 DEF Next, Step

\* An update_json that returned True has left no scratch file, though the unlink
\* of atomic_write's finally clause may fail unnoticed; nor does a machine crash
\* bring one back once the directory was synced.
THEOREM ScratchGone == Spec => []ScratchRemoved
<1>1. Init => Settled
  BY NamesAssumption DEF Init, Settled, Before, Over
<1>2. Settled => ScratchRemoved
  BY DEF Settled, ScratchRemoved
<1> QED BY <1>1, <1>2, SettledStep, WholeAlways, PTL DEF Spec

-----------------------------------------------------------------------------
(* CaptureStore *)

\* What is put behind a sequence does not change its first element.
LEMMA FirstStays ==
    ASSUME NEW S, NEW s \in Seq(S), NEW t \in Seq(S), Len(s) = 2
    PROVE  (s \o t)[1] = s[1]
<1>1. \A i \in 1..(Len(s) + Len(t)) :
        (s \o t)[i] = IF i <= Len(s) THEN s[i] ELSE t[i - Len(s)]
  BY ConcatProperties
<1>2. 1 \in 1..(Len(s) + Len(t)) /\ 1 <= Len(s)
  OBVIOUS
<1> QED BY <1>1, <1>2

\* A frame and what a torn write leaves are cells under the key they were made
\* with, and never nothing.
LEMMA FrameCells ==
    ASSUME NEW c \in Captures, NEW k \in KeyId
    PROVE  /\ Frame(c, k) \in Seq(Cell) /\ Len(Frame(c, k)) = CellsOf[c] + 2
           /\ \A i \in DOMAIN Frame(c, k) : Frame(c, k)[i].key = k
           /\ Frame(c, k)[1].part = "len"
<1> DEFINE head == <<[part |-> "len", cap |-> c, key |-> k, n |-> CellsOf[c]],
                     [part |-> "nonce", cap |-> c, key |-> k, n |-> 0]>>
           body == [i \in 1..CellsOf[c] |-> [part |-> "ct", cap |-> c, key |-> k, n |-> i]]
           Under == [part : {"len", "nonce", "ct"}, cap : Captures, key : {k}, n : Nat]
<1>1. CellsOf[c] \in Nat
  BY CellsAssumption
<1>2. head \in Seq(Under) /\ Len(head) = 2 /\ head[1].part = "len"
  BY <1>1
<1>3. body \in Seq(Under) /\ Len(body) = CellsOf[c]
  <2>1. \A i \in 1..CellsOf[c] : body[i] \in Under
    BY <1>1
  <2> HIDE DEF Under
  <2>2. body \in [1..CellsOf[c] -> Under]
    BY <2>1
  <2> HIDE DEF body
  <2> QED BY <1>1, <2>2
<1> HIDE DEF head, body, Under
<1>4. /\ head \o body \in Seq(Under) /\ Len(head \o body) = CellsOf[c] + 2
      /\ (head \o body)[1] = head[1]
  <2>1. head \o body \in Seq(Under) /\ Len(head \o body) = Len(head) + Len(body)
    BY <1>2, <1>3, ConcatProperties
  <2>2. (head \o body)[1] = head[1]
    BY <1>2, <1>3, FirstStays
  <2> QED BY <1>1, <1>2, <1>3, <2>1, <2>2
<1>5. Frame(c, k) = head \o body
  BY DEF Frame, head, body
<1>6. Under \subseteq Cell /\ \A x \in Under : x.key = k
  BY DEF Under, Cell
<1>7. ASSUME NEW s \in Seq(Under)
      PROVE  s \in Seq(Cell) /\ \A i \in DOMAIN s : s[i].key = k
  BY <1>6, <1>7
<1> QED BY <1>2, <1>4, <1>5, <1>7

\* What a torn write leaves is part of a frame, and made with its key.
LEMMA TornCells ==
    ASSUME NEW c \in Captures, NEW k \in KeyId, NEW cells \in TornFrames(c, k)
    PROVE  /\ cells \in Seq(Cell) /\ \A i \in DOMAIN cells : cells[i].key = k
           /\ Len(cells) >= 1 /\ cells[1].part = "len"
<1>1. /\ Frame(c, k) \in Seq(Cell) /\ Len(Frame(c, k)) \in Nat
      /\ \A i \in DOMAIN Frame(c, k) : Frame(c, k)[i].key = k
      /\ Frame(c, k)[1].part = "len"
  BY FrameCells
<1>2. ASSUME NEW j \in 1..(Len(Frame(c, k)) - 1), cells = SubSeq(Frame(c, k), 1, j)
      PROVE  /\ cells \in Seq(Cell) /\ \A i \in DOMAIN cells : cells[i].key = k
             /\ Len(cells) >= 1 /\ cells[1].part = "len"
  <2> DEFINE f == Frame(c, k)
  <2> HIDE DEF f
  <2>1. /\ f \in Seq(Cell) /\ Len(f) \in Nat /\ \A i \in 1..Len(f) : f[i].key = k
        /\ j \in 1..(Len(f) - 1) /\ cells = SubSeq(f, 1, j) /\ f[1].part = "len"
    BY <1>1, <1>2 DEF f
  <2>2. cells \in Seq(Cell) /\ Len(cells) = j /\ \A i \in 1..j : cells[i] = f[i]
    BY <2>1
  <2> QED BY <2>1, <2>2
<1>3. ASSUME NEW g \in GarbledLengths, cells = <<[part |-> "len", cap |-> c, key |-> k, n |-> g]>>
      PROVE  /\ cells \in Seq(Cell) /\ \A i \in DOMAIN cells : cells[i].key = k
             /\ Len(cells) >= 1 /\ cells[1].part = "len"
  <2>1. [part |-> "len", cap |-> c, key |-> k, n |-> g] \in Cell
    BY DEF GarbledLengths, Cell
  <2> QED BY <1>3, <2>1
<1> QED BY <1>2, <1>3 DEF TornFrames

\* All cells of a file were made with one key.
SealedBy(l, k) == \A i \in DOMAIN l : l[i].key = k

\* The length and the nonce a file begins with are of one frame.
HeadTogether(l) == Len(l) >= 2 /\ l[2].part = "nonce" => l[2].key = l[1].key

\* A key is on disk before anything is written under it; a new one is another
\* than any the log was written under, and until a start overwrites a good key
\* there is one only.
KeyKept ==
    /\ StoreTypeOK
    /\ KeyOnDiskFitsLog
    /\ log # <<>> /\ ~replaced => keyFile \in KeyId
    /\ \A i \in DOMAIN log : log[i].key <= starts /\ (mode = "keying" => log[i].key < starts)
    /\ HeadTogether(log)
    /\ mode = "serving" => keyFile \in KeyId /\ key = keyFile /\ keyFile <= starts
    /\ keyFile \in KeyId => keyFile <= starts
    /\ mode = "keying" => keyFile = Short /\ starts \in KeyId
    /\ mode # "serving" => \A c \in Captures : task[c] # "queued"

\* A key is none of the two marks of a key file without one.
LEMMA KeyIdIsNoMark == KeyId \subseteq Nat \ {0} /\ Absent \notin KeyId /\ Short \notin KeyId
BY StartsAssumption DEF KeyId, Absent, Short

\* The first start finds no key file and an empty log.
LEMMA KeyKeptInit == StoreInit => KeyKept
<1> SUFFICES ASSUME StoreInit PROVE KeyKept
  OBVIOUS
<1>1. log = <<>> /\ DOMAIN log = {} /\ Len(log) = 0 /\ keyFile \notin KeyId
  BY KeyIdIsNoMark DEF StoreInit
<1>2. StoreTypeOK
  <2>1. task \in [Captures -> {"none", "queued", "stored", "refused", "failed", "lost"}]
    BY DEF StoreInit
  <2>2. starts \in 0..MaxStarts /\ log \in Seq(Cell) /\ written \in Seq(Captures)
    BY StartsAssumption DEF StoreInit
  <2> QED BY <2>1, <2>2 DEF StoreInit, StoreTypeOK
<1> QED BY <1>1, <1>2 DEF StoreInit, KeyKept, KeyOnDiskFitsLog, KeyFits, HeadTogether

\* What is appended to the log is made with the key in memory.
LEMMA LogGrows ==
    ASSUME KeyKept, mode = "serving", NEW cells \in Seq(Cell), SealedBy(cells, key),
           Len(cells) >= 1, cells[1].part = "len", log' = log \o cells
    PROVE  /\ log' \in Seq(Cell) /\ (SealedBy(log, keyFile) => SealedBy(log', keyFile))
           /\ \A i \in DOMAIN log' : log'[i].key <= starts
           /\ HeadTogether(log')
           /\ log # <<>> => log' # <<>> /\ log'[1] = log[1]
<1>1. /\ log \in Seq(Cell) /\ \A i \in DOMAIN log : log[i].key <= starts
      /\ HeadTogether(log) /\ key = keyFile /\ keyFile <= starts
  BY DEF KeyKept, StoreTypeOK
<1> DEFINE e == Len(log)  n == Len(cells)  new == log \o cells
<1>2. /\ e \in Nat /\ n \in Nat /\ new \in Seq(Cell) /\ DOMAIN new = 1..(e + n) /\ Len(new) = e + n
      /\ \A i \in 1..e : new[i] = log[i] /\ i \in DOMAIN log
      /\ \A i \in 1..n : new[e + i] = cells[i] /\ i \in DOMAIN cells
      /\ log # <<>> => e >= 1
      /\ log = <<>> => e = 0
  <2>1. log \in Seq(Cell) /\ cells \in Seq(Cell)
    BY <1>1
  <2>2. /\ e \in Nat /\ n \in Nat /\ new \in Seq(Cell) /\ DOMAIN new = 1..(e + n) /\ Len(new) = e + n
        /\ \A i \in 1..e : new[i] = log[i] /\ i \in DOMAIN log
    BY <2>1
  <2>3. \A i \in 1..n : new[e + i] = cells[i] /\ i \in DOMAIN cells
    BY <2>1
  <2>4. (log # <<>> => e >= 1) /\ (log = <<>> => e = 0)
    BY <2>1
  <2> QED BY <2>2, <2>3, <2>4
<1> HIDE DEF new, e
<1>3. ASSUME NEW i \in 1..(e + n)
      PROVE  \/ i \in 1..e /\ new[i] = log[i]
             \/ i - e \in 1..n /\ new[i] = cells[i - e] /\ new[i].key = keyFile
  <2>1. CASE i <= e
    BY <1>2, <2>1
  <2>2. CASE i > e
    <3>1. i - e \in 1..n /\ e + (i - e) = i
      BY <1>2, <2>2
    <3> QED BY <1>1, <1>2, <3>1 DEF SealedBy
  <2> QED BY <1>2, <2>1, <2>2
<1>4. SealedBy(log, keyFile) => SealedBy(new, keyFile)
  BY <1>2, <1>3 DEF SealedBy
<1>5. \A i \in DOMAIN new : new[i].key <= starts
  BY <1>1, <1>2, <1>3
<1>6. HeadTogether(new)
  <2>1. CASE e = 0
    <3>1. \A i \in 1..n : new[i] = cells[i] /\ cells[i].key = key
      BY <1>2, <2>1 DEF SealedBy
    <3> QED BY <1>2, <2>1, <3>1 DEF HeadTogether
  <2>2. CASE e = 1
    <3>1. 1 \in 1..n /\ new[2] = cells[1]
      BY <1>2, <2>2
    <3> QED BY <3>1 DEF HeadTogether
  <2>3. CASE e >= 2
    <3>1. new[1] = log[1] /\ new[2] = log[2]
      BY <1>2, <2>3
    <3> QED BY <1>1, <2>3, <3>1 DEF HeadTogether, e
  <2> QED BY <1>2, <2>1, <2>2, <2>3
<1>7. log # <<>> => new # <<>> /\ new[1] = log[1]
  <2>1. ASSUME log # <<>> PROVE new[1] = log[1] /\ 1 \in DOMAIN new
    BY <1>2, <2>1
  <2>2. DOMAIN <<>> = {}
    OBVIOUS
  <2> QED BY <2>1, <2>2
<1> QED BY <1>2, <1>4, <1>5, <1>6, <1>7 DEF new

\* Every step of the starts, the tasks and the crashes keeps the key: the
\* file is written whole before anything is sealed with it.
LEMMA KeyKeptStep ==
    ASSUME KeyKept, [StoreNext]_storeVars
    PROVE  KeyKept'
<1> USE KeyIdIsNoMark DEF KeyKept
<1>0. /\ starts \in 0..MaxStarts /\ MaxStarts \in Nat /\ KeyId = 1..MaxStarts
      /\ \A i \in DOMAIN log : log[i].key \in KeyId
  <2>1. \A x \in Cell : x.key \in KeyId
    BY DEF Cell
  <2> QED BY <2>1, StartsAssumption DEF StoreTypeOK, KeyId
<1>1. CASE UNCHANGED storeVars
  BY <1>1 DEF storeVars, StoreTypeOK, KeyOnDiskFitsLog, KeyFits
<1>2. CASE StartWithKey
  BY <1>0, <1>2 DEF StartWithKey, KeyLoadable, StoreTypeOK, KeyOnDiskFitsLog, KeyFits
<1>3. CASE StartKeying
  <2>1. ~replaced' => log = <<>> /\ ~replaced
    BY <1>3 DEF StartKeying, KeyLoadable
  <2>2. starts' \in KeyId /\ starts' \in 0..MaxStarts /\ starts' = starts + 1
    BY <1>0, <1>3 DEF StartKeying
  <2>3. StoreTypeOK'
    BY <1>3, <2>2 DEF StartKeying, KeyLoadable, StoreTypeOK
  <2>4. KeyOnDiskFitsLog'
    BY <1>3, <2>1 DEF StartKeying, KeyOnDiskFitsLog, KeyFits
  <2>5. \A i \in DOMAIN log' : log'[i].key < starts'
    BY <1>0, <1>3, <2>2 DEF StartKeying
  <2>6. \A i \in DOMAIN log' : log'[i].key <= starts'
    BY <1>0, <1>3, <2>2 DEF StartKeying
  <2> QED BY <1>3, <2>1, <2>2, <2>3, <2>4, <2>5, <2>6 DEF StartKeying
<1>4. CASE FinishKeying
  <2>1. ~replaced => log = <<>>
    BY <1>4 DEF FinishKeying
  <2>2. StoreTypeOK'
    BY <1>4 DEF FinishKeying, StoreTypeOK
  <2>3. KeyOnDiskFitsLog'
    BY <1>4, <2>1 DEF FinishKeying, KeyOnDiskFitsLog, KeyFits
  <2> QED BY <1>0, <1>4, <2>1, <2>2, <2>3 DEF FinishKeying
<1>5. CASE Crash
  <2>1. /\ log' \in Seq(Cell) /\ (SealedBy(log, keyFile) => SealedBy(log', keyFile))
        /\ \A i \in DOMAIN log' : log'[i].key <= starts
        /\ HeadTogether(log')
        /\ log' # <<>> /\ ~replaced => keyFile \in KeyId
    <3>1. CASE log' = log
      BY <3>1 DEF StoreTypeOK
    <3>2. ASSUME NEW c \in Captures, task[c] = "queued", NEW cells \in TornFrames(c, key),
                 log' = log \o cells
          PROVE  /\ log' \in Seq(Cell) /\ (SealedBy(log, keyFile) => SealedBy(log', keyFile))
                 /\ \A i \in DOMAIN log' : log'[i].key <= starts
                 /\ HeadTogether(log')
                 /\ keyFile \in KeyId
      <4>1. mode = "serving" /\ key \in KeyId /\ keyFile \in KeyId
        BY <3>2
      <4>2. cells \in Seq(Cell) /\ SealedBy(cells, key) /\ Len(cells) >= 1 /\ cells[1].part = "len"
        <5> HIDE DEF KeyKept
        <5> QED BY <4>1, TornCells DEF SealedBy
      <4> HIDE DEF KeyKept
      <4>3. /\ log' \in Seq(Cell) /\ (SealedBy(log, keyFile) => SealedBy(log', keyFile))
            /\ \A i \in DOMAIN log' : log'[i].key <= starts
            /\ HeadTogether(log')
        BY <3>2, <4>1, <4>2, LogGrows
      <4> QED BY <4>1, <4>3
    <3> QED BY <1>5, <3>1, <3>2 DEF Crash
  <2>2. /\ task' \in [Captures -> {"none", "queued", "stored", "refused", "failed", "lost"}]
        /\ \A c \in Captures : task'[c] # "queued"
    BY <1>5 DEF Crash, Die, StoreTypeOK
  <2>3. torn' \in {"no", "tail", "inside"}
    BY <1>5 DEF Crash, StoreTypeOK
  <2>4. UNCHANGED <<keyFile, starts, written, replaced>> /\ mode' = "down" /\ key' = Absent
    BY <1>5 DEF Crash
  <2>5. StoreTypeOK'
    BY <2>1, <2>2, <2>3, <2>4 DEF StoreTypeOK
  <2>6. KeyOnDiskFitsLog'
    BY <2>1, <2>4 DEF KeyOnDiskFitsLog, KeyFits, SealedBy
  <2> QED BY <2>1, <2>2, <2>4, <2>5, <2>6
<1>6. ASSUME NEW c \in Captures, Spawn(c) \/ RefuseRedaction(c)
      PROVE  KeyKept'
  BY <1>6 DEF Spawn, RefuseRedaction, StoreTypeOK, KeyOnDiskFitsLog, KeyFits
<1>7. ASSUME NEW c \in Captures, Append1(c)
      PROVE  KeyKept'
  <2>1. mode = "serving" /\ key \in KeyId /\ keyFile = key /\ log' = log \o Frame(c, key)
    BY <1>7 DEF Append1
  <2>2. /\ log' \in Seq(Cell) /\ (SealedBy(log, keyFile) => SealedBy(log', keyFile))
        /\ \A i \in DOMAIN log' : log'[i].key <= starts
        /\ HeadTogether(log')
    <3>1. /\ Frame(c, key) \in Seq(Cell) /\ SealedBy(Frame(c, key), key)
          /\ Len(Frame(c, key)) >= 1 /\ Frame(c, key)[1].part = "len"
      BY <2>1, FrameCells, CellsAssumption DEF SealedBy
    <3> HIDE DEF KeyKept
    <3> QED BY <2>1, <3>1, LogGrows
  <2>3. written' \in Seq(Captures) /\ torn' \in {"no", "tail", "inside"}
    BY <1>7 DEF Append1, Followed, StoreTypeOK
  <2>4. StoreTypeOK'
    BY <1>7, <2>2, <2>3 DEF Append1, StoreTypeOK
  <2>5. KeyOnDiskFitsLog'
    BY <1>7, <2>2 DEF Append1, KeyOnDiskFitsLog, KeyFits, SealedBy
  <2> QED BY <1>7, <2>1, <2>2, <2>4, <2>5 DEF Append1
<1>8. ASSUME NEW c \in Captures, AppendFails(c)
      PROVE  KeyKept'
  <2>1. mode = "serving" /\ key \in KeyId /\ keyFile = key
    BY <1>8 DEF AppendFails
  <2>2. /\ log' \in Seq(Cell) /\ (SealedBy(log, keyFile) => SealedBy(log', keyFile))
        /\ \A i \in DOMAIN log' : log'[i].key <= starts
        /\ HeadTogether(log')
    <3>1. CASE log' = log
      BY <3>1 DEF StoreTypeOK
    <3>2. ASSUME NEW cells \in TornFrames(c, key), log' = log \o cells
          PROVE  /\ log' \in Seq(Cell) /\ (SealedBy(log, keyFile) => SealedBy(log', keyFile))
                 /\ \A i \in DOMAIN log' : log'[i].key <= starts
                 /\ HeadTogether(log')
      <4>1. cells \in Seq(Cell) /\ SealedBy(cells, key) /\ Len(cells) >= 1 /\ cells[1].part = "len"
        <5> HIDE DEF KeyKept
        <5> QED BY <2>1, TornCells DEF SealedBy
      <4> HIDE DEF KeyKept
      <4> QED BY <2>1, <3>2, <4>1, LogGrows
    <3> QED BY <1>8, <3>1, <3>2 DEF AppendFails
  <2>3. torn' \in {"no", "tail", "inside"}
    BY <1>8 DEF AppendFails, StoreTypeOK
  <2>4. StoreTypeOK'
    BY <1>8, <2>2, <2>3 DEF AppendFails, StoreTypeOK
  <2>5. KeyOnDiskFitsLog'
    BY <1>8, <2>2 DEF AppendFails, KeyOnDiskFitsLog, KeyFits, SealedBy
  <2> QED BY <1>8, <2>1, <2>2, <2>4, <2>5 DEF AppendFails
<1> QED BY <1>1, <1>2, <1>3, <1>4, <1>5, <1>6, <1>7, <1>8 DEF StoreNext

\* The types of the store, through every start, crash and torn append of
\* capture.rs.
THEOREM StoreTyped == StoreSpec => []StoreTypeOK
<1>1. KeyKept => StoreTypeOK
  BY DEF KeyKept
<1> QED BY <1>1, KeyKeptInit, KeyKeptStep, PTL DEF StoreSpec

\* Until a start fails to read a good key and writes a new one over it, the key
\* on disk opens every frame of the log it lies beside (load_or_create_key):
\* no crash while a key is made, and no restart, puts another in its place.
THEOREM KeyFitsLog == StoreSpec => []KeyOnDiskFitsLog
<1>1. KeyKept => KeyOnDiskFitsLog
  BY DEF KeyKept
<1> QED BY <1>1, KeyKeptInit, KeyKeptStep, PTL DEF StoreSpec

-----------------------------------------------------------------------------
(* What read_all computes.                                                  *)

\* One record of read_all: the one that starts at cell i, and with it the rest.
ReadRecord(raw, k, read, i) ==
    IF i + 1 > Len(raw) \/ i + 1 + raw[i].n > Len(raw)
    THEN [ok |-> TRUE, out |-> <<>>]
    ELSE LET end == i + 1 + raw[i].n
             ct == SubSeq(raw, i + 2, end)
             rest == read[end + 1]
         IN IF raw[i].n > 0 /\ Decrypts(raw[i + 1], ct, k)
            THEN [rest EXCEPT !.out = <<raw[i + 1].cap>> \o @]
            ELSE [ok |-> FALSE, out |-> <<>>]

Reads(raw, k, read) == read = [i \in 1..(Len(raw) + 1) |-> ReadRecord(raw, k, read, i)]

\* The last of the indexes in a set.
LEMMA LastIndex ==
    ASSUME NEW n \in Nat, NEW T, T \subseteq 1..n, T # {}
    PROVE  \E k \in T : \A j \in T : j <= k
<1> DEFINE U == {n - k : k \in T}
<1>1. \A k \in T : k \in 1..n /\ n - k \in Nat
  OBVIOUS
<1>0. U \subseteq Nat /\ U # {}
  BY <1>1
<1>2. PICK x \in U : \A y \in U : ~(<<y, x>> \in OpToRel(<, Nat))
  <2> HIDE DEF U
  <2> QED BY <1>0, WFMin, NatLessThanWellFounded
<1>3. PICK k \in T : x = n - k
  OBVIOUS
<1>4. ASSUME NEW j \in T PROVE j <= k
  <2>1. ~(<<n - j, n - k>> \in OpToRel(<, Nat))
    BY <1>2, <1>3
  <2>2. ~(n - j < n - k)
    BY <1>1, <2>1 DEF OpToRel
  <2> QED BY <1>1, <2>2
<1> QED BY <1>4

\* A record is read with what was read after it.
LEMMA ReadLooksAhead ==
    ASSUME NEW raw \in Seq(Cell), NEW k, NEW i \in 1..(Len(raw) + 1), NEW f, NEW g,
           \A j \in (i + 1)..(Len(raw) + 1) : f[j] = g[j]
    PROVE  ReadRecord(raw, k, f, i) = ReadRecord(raw, k, g, i)
<1>1. CASE i + 1 > Len(raw) \/ i + 1 + raw[i].n > Len(raw)
  BY <1>1 DEF ReadRecord
<1>2. CASE ~(i + 1 > Len(raw) \/ i + 1 + raw[i].n > Len(raw))
  <2> DEFINE end == i + 1 + raw[i].n
  <2>0. Len(raw) \in Nat /\ i \in Nat
    OBVIOUS
  <2>1. i \in DOMAIN raw
    BY <1>2, <2>0
  <2>2. raw[i].n \in Nat
    <3>1. raw[i] \in Cell
      BY <2>1
    <3>2. \A x \in Cell : x.n \in Nat
      BY DEF Cell
    <3> QED BY <3>1, <3>2
  <2>3. end + 1 \in (i + 1)..(Len(raw) + 1)
    BY <1>2, <2>0, <2>2
  <2>4. f[end + 1] = g[end + 1]
    BY <2>3
  <2> QED BY <1>2, <2>4 DEF ReadRecord
<1> QED BY <1>1, <1>2

\* The recursion of read_all is well founded: there is a function it defines.
LEMMA ReadExists ==
    ASSUME NEW raw \in Seq(Cell), NEW k
    PROVE  \E read : Reads(raw, k, read)
<1> DEFINE N == Len(raw) + 1
           From(m) == \E f : \A i \in m..N : f[i] = ReadRecord(raw, k, f, i)
           T == {m \in 1..N : ~From(m)}
<1>0. N \in Nat \ {0}
  OBVIOUS
<1>1. ASSUME NEW m \in 1..N, \A n \in (m + 1)..N : From(n)
      PROVE  From(m)
  <2>1. \E f : \A i \in (m + 1)..N : f[i] = ReadRecord(raw, k, f, i)
    <3>1. CASE m = N
      <4>1. (m + 1)..N = {}
        BY <1>0, <3>1
      <4> QED BY <4>1
    <3>2. CASE m # N
      <4>1. m + 1 \in (m + 1)..N
        BY <1>0, <3>2
      <4> QED BY <1>1, <4>1
    <3> QED BY <3>1, <3>2
  <2>2. PICK f : \A i \in (m + 1)..N : f[i] = ReadRecord(raw, k, f, i)
    BY <2>1
  <2> DEFINE g == [i \in 1..N |-> IF i = m THEN ReadRecord(raw, k, f, m) ELSE f[i]]
  <2>3. /\ \A i \in (m + 1)..N : g[i] = f[i] /\ i \in 1..N
        /\ g[m] = ReadRecord(raw, k, f, m)
    BY <1>0
  <2> HIDE DEF g
  <2>4. ASSUME NEW i \in m..N
        PROVE  ReadRecord(raw, k, g, i) = ReadRecord(raw, k, f, i)
    <3>1. i \in 1..(Len(raw) + 1)
      BY <1>0
    <3>2. \A j \in (i + 1)..(Len(raw) + 1) : g[j] = f[j]
      BY <1>0, <2>3
    <3> HIDE DEF N
    <3> QED BY <3>1, <3>2, ReadLooksAhead
  <2>5. \A i \in m..N : g[i] = ReadRecord(raw, k, g, i)
    <3>1. \A i \in m..N : i = m \/ i \in (m + 1)..N
      BY <1>0
    <3> HIDE DEF N
    <3> QED BY <2>2, <2>3, <2>4, <3>1
  <2> QED BY <2>5
<1>2. T = {}
  <2>1. SUFFICES ASSUME T # {} PROVE FALSE
    OBVIOUS
  <2>2. PICK m \in T : \A j \in T : j <= m
    <3>1. T \subseteq 1..N
      OBVIOUS
    <3> HIDE DEF T, N
    <3> QED BY <1>0, <2>1, <3>1, LastIndex
  <2>3. \A n \in (m + 1)..N : n \in 1..N /\ n \notin T
    BY <1>0, <2>2
  <2> HIDE DEF From
  <2> QED BY <1>1, <2>2, <2>3
<1>3. PICK f : \A i \in 1..N : f[i] = ReadRecord(raw, k, f, i)
  <2>1. 1 \in 1..N
    BY <1>0
  <2> QED BY <1>2, <2>1
<1> DEFINE g == [i \in 1..N |-> f[i]]
<1>4. ASSUME NEW i \in 1..N
      PROVE  ReadRecord(raw, k, g, i) = ReadRecord(raw, k, f, i)
  <2>1. \A j \in (i + 1)..(Len(raw) + 1) : g[j] = f[j]
    BY <1>0
  <2> HIDE DEF g
  <2> QED BY <2>1, ReadLooksAhead
<1>5. g = [i \in 1..N |-> ReadRecord(raw, k, g, i)]
  <2>1. \A i \in 1..N : g[i] = ReadRecord(raw, k, g, i)
    <3>1. \A i \in 1..N : g[i] = f[i]
      OBVIOUS
    <3> HIDE DEF g
    <3> QED BY <1>3, <1>4, <3>1
  <2>2. g = [i \in 1..N |-> g[i]]
    OBVIOUS
  <2> HIDE DEF g, N
  <2> QED BY <2>1, <2>2
<1> QED BY <1>5 DEF Reads

\* The records are those the function that the recursion defines gives.
LEMMA RecordsRead ==
    ASSUME NEW raw \in Seq(Cell), NEW k
    PROVE  \E read : Reads(raw, k, read) /\ Records(raw, k) = read[1]
<1>1. \E f : f = [i \in 1..(Len(raw) + 1) |-> ReadRecord(raw, k, f, i)]
  BY ReadExists DEF Reads
<1>2. Records(raw, k) =
        (CHOOSE f : f = [i \in 1..(Len(raw) + 1) |-> ReadRecord(raw, k, f, i)])[1]
  BY DEF Records, ReadRecord
<1> QED BY Zenon, <1>1, <1>2 DEF Reads

-----------------------------------------------------------------------------
(* Frames in a file.                                                        *)

Size(c) == CellsOf[c] + 2
LenCell(c, k) == [part |-> "len", cap |-> c, key |-> k, n |-> CellsOf[c]]
NonceCell(c, k) == [part |-> "nonce", cap |-> c, key |-> k, n |-> 0]
CtCell(c, k, i) == [part |-> "ct", cap |-> c, key |-> k, n |-> i]

\* The first n cells of a frame, where they stand in a file.
Stands(l, p, c, k, n) ==
    \A i \in 1..n : p + i - 1 \in DOMAIN l /\ l[p + i - 1] = Frame(c, k)[i]

\* The first m captures of w are the frames at the beginning of the file, and
\* pos says where each begins and where the last one ends.
Framed(l, w, m, pos, k) ==
    /\ pos \in Seq(Nat) /\ Len(pos) = m + 1 /\ pos[1] = 1
    /\ \A j \in 1..m : /\ pos[j + 1] = pos[j] + Size(w[j])
                       /\ Stands(l, pos[j], w[j], k, Size(w[j]))
    /\ pos[m + 1] \in 1..(Len(l) + 1)

\* What a write that stopped early left between p and q.
Broken(l, p, q, k) ==
    /\ p \in 1..Len(l) /\ q \in (p + 1)..(Len(l) + 1)
    /\ \/ \E c \in Captures : q - p < Size(c) /\ Stands(l, p, c, k, q - p)
       \/ q = p + 1

\* The cells of a frame, one by one.
LEMMA FrameParts ==
    ASSUME NEW c \in Captures, NEW k
    PROVE  /\ CellsOf[c] \in Nat \ {0} /\ Size(c) \in Nat /\ Size(c) >= 3
           /\ Frame(c, k)[1] = LenCell(c, k)
           /\ Frame(c, k)[2] = NonceCell(c, k)
           /\ \A i \in 1..CellsOf[c] : Frame(c, k)[i + 2] = CtCell(c, k, i)
<1> DEFINE head == <<LenCell(c, k), NonceCell(c, k)>>
           body == [i \in 1..CellsOf[c] |-> CtCell(c, k, i)]
           Pieces == {head[1], head[2]} \cup {body[i] : i \in 1..CellsOf[c]}
<1>1. CellsOf[c] \in Nat \ {0}
  BY CellsAssumption
<1>2. /\ head[1] = LenCell(c, k)
      /\ head[2] = NonceCell(c, k)
      /\ head \in Seq(Pieces) /\ Len(head) = 2
  OBVIOUS
<1>3. /\ \A i \in 1..CellsOf[c] : body[i] = CtCell(c, k, i)
      /\ body \in Seq(Pieces) /\ Len(body) = CellsOf[c]
  <2>1. body \in [1..CellsOf[c] -> Pieces]
    OBVIOUS
  <2>2. body \in Seq(Pieces) /\ Len(body) = CellsOf[c]
    <3> HIDE DEF body, Pieces
    <3> QED BY <1>1, <2>1
  <2> QED BY <2>2
<1>4. Frame(c, k) = head \o body
  BY DEF Frame, LenCell, NonceCell, CtCell
<1> HIDE DEF head, body, Pieces
<1> DEFINE hb == head \o body
           n == CellsOf[c]
<1>5. \A i \in 1..(2 + n) : hb[i] = IF i <= 2 THEN head[i] ELSE body[i - 2]
  <2>1. \A i \in 1..(Len(head) + Len(body)) :
            (head \o body)[i] = IF i <= Len(head) THEN head[i] ELSE body[i - Len(head)]
    BY <1>2, <1>3, ConcatProperties
  <2> QED BY <1>2, <1>3, <2>1
<1> HIDE DEF hb, n
<1>0. n \in Nat \ {0}
  BY <1>1 DEF n
<1>6. \A i \in 1..n : hb[i + 2] = body[i]
  <2> TAKE i \in 1..n
  <2>1. i + 2 \in 1..(2 + n) /\ ~(i + 2 <= 2) /\ (i + 2) - 2 = i
    BY <1>0
  <2> QED BY <1>5, <2>1
<1>7. hb[1] = head[1] /\ hb[2] = head[2]
  <2>1. 1 \in 1..(2 + n) /\ 2 \in 1..(2 + n)
    BY <1>0
  <2> QED BY <1>5, <2>1
<1>8. n + 2 \in Nat /\ n + 2 >= 3
  BY <1>0
<1> QED BY <1>1, <1>2, <1>3, <1>4, <1>6, <1>7, <1>8 DEF Size, hb, n

\* What a read comes to.
Outcome(ok, out) == [ok |-> ok, out |-> out]

\* One capture put before an outcome.
LEMMA PutFirst ==
    ASSUME NEW ok, NEW out, NEW first
    PROVE  [Outcome(ok, out) EXCEPT !.out = first \o @] = Outcome(ok, first \o out)
<1> USE DEF Outcome
<1> DEFINE x == [Outcome(ok, out) EXCEPT !.out = first \o @]
<1>1. x \in [ok : {ok}, out : {first \o out}]
  OBVIOUS
<1> HIDE DEF x
<1>2. x = [ok |-> ok, out |-> first \o out]
  BY <1>1
<1> QED BY <1>2 DEF x

\* A whole frame is read as its capture.
LEMMA ReadsFrame ==
    ASSUME NEW l \in Seq(Cell), NEW k, NEW read, NEW p \in Nat \ {0}, NEW c \in Captures,
           Stands(l, p, c, k, Size(c)),
           NEW ok, NEW out
    PROVE  read[p + Size(c)] = Outcome(ok, out)
               => ReadRecord(l, k, read, p) = Outcome(ok, <<c>> \o out)
<1> DEFINE end == p + 1 + CellsOf[c]
           ct == SubSeq(l, p + 2, end)
<1>1. /\ CellsOf[c] \in Nat \ {0} /\ Size(c) = CellsOf[c] + 2 /\ Len(l) \in Nat
      /\ end + 1 = p + Size(c) /\ end \in Nat
  <2>1. CellsOf[c] \in Nat \ {0}
    BY FrameParts
  <2> QED BY <2>1 DEF Size
<1>2. l[p] = Frame(c, k)[1] /\ l[p + 1] = Frame(c, k)[2]
      /\ \A i \in 1..CellsOf[c] : l[p + 1 + i] = Frame(c, k)[i + 2]
  <2>1. \A i \in 1..(CellsOf[c] + 2) : l[p + i - 1] = Frame(c, k)[i]
    BY <1>1 DEF Stands
  <2>2. 1 \in 1..(CellsOf[c] + 2) /\ 2 \in 1..(CellsOf[c] + 2) /\ p + 1 - 1 = p /\ p + 2 - 1 = p + 1
    BY <1>1
  <2>3. \A i \in 1..CellsOf[c] : i + 2 \in 1..(CellsOf[c] + 2) /\ p + (i + 2) - 1 = p + 1 + i
    BY <1>1
  <2> QED BY <2>1, <2>2, <2>3
<1>3. end <= Len(l)
  <2>1. Size(c) \in 1..Size(c) /\ p + Size(c) - 1 = end
    BY SMTT(30), <1>1
  <2>2. end \in DOMAIN l
    BY <2>1 DEF Stands
  <2> QED BY <1>1, <2>2
<1>4. /\ l[p].n = CellsOf[c] /\ l[p + 1].part = "nonce" /\ l[p + 1].key = k /\ l[p + 1].cap = c
      /\ \A i \in 1..CellsOf[c] : l[p + 1 + i] = CtCell(c, k, i)
  <2>1. l[p] = LenCell(c, k) /\ l[p + 1] = NonceCell(c, k)
    BY <1>2, FrameParts
  <2>2. \A i \in 1..CellsOf[c] : l[p + 1 + i] = CtCell(c, k, i)
    BY <1>2, FrameParts
  <2> QED BY <2>1, <2>2 DEF LenCell, NonceCell
<1>5. Len(ct) = CellsOf[c] /\ \A i \in 1..CellsOf[c] : ct[i] = l[p + 1 + i]
  <2> HIDE DEF end
  <2>1. /\ p + 2 \in 1..(Len(l) + 1) /\ end \in (p + 1)..Len(l) /\ end - (p + 2) + 1 = CellsOf[c]
    BY SMTT(30), <1>1, <1>3 DEF end
  <2>2. Len(ct) = end - (p + 2) + 1 /\ \A i \in 1..(end - (p + 2) + 1) : ct[i] = l[p + 2 + i - 1]
    BY <1>1, <2>1
  <2>3. \A i \in 1..CellsOf[c] : p + 2 + i - 1 = p + 1 + i
    BY <1>1
  <2> QED BY <2>1, <2>2, <2>3
<1> HIDE DEF ct
<1>6. Decrypts(l[p + 1], ct, k)
  BY <1>1, <1>4, <1>5 DEF Decrypts, CtCell
<1>7. ~(p + 1 > Len(l) \/ p + 1 + l[p].n > Len(l)) /\ l[p].n > 0
  BY <1>1, <1>3, <1>4
<1>8. p + 1 + l[p].n = end
  BY <1>4
<1> HIDE DEF end
<1>9. read[p + Size(c)] = Outcome(ok, out)
          => ReadRecord(l, k, read, p) = [Outcome(ok, out) EXCEPT !.out = <<c>> \o @]
  BY <1>1, <1>4, <1>6, <1>7, <1>8 DEF ReadRecord, ct
<1> QED BY <1>9, PutFirst

\* At the end of the file the read ends.
LEMMA ReadsEnd ==
    ASSUME NEW l \in Seq(Cell), NEW k, NEW read
    PROVE  ReadRecord(l, k, read, Len(l) + 1) = Outcome(TRUE, <<>>)
BY DEF ReadRecord, Outcome

\* A torn frame ends the read where it ends the file, and where a frame follows
\* it nothing is made of the two.
LEMMA ReadsBroken ==
    ASSUME NEW l \in Seq(Cell), NEW k, NEW read, NEW p, NEW q, Broken(l, p, q, k),
           q <= Len(l) => l[q].part = "len"
    PROVE  /\ ReadRecord(l, k, read, p) \in {Outcome(TRUE, <<>>), Outcome(FALSE, <<>>)}
           /\ q = Len(l) + 1 => ReadRecord(l, k, read, p) = Outcome(TRUE, <<>>)
<1> DEFINE end == p + 1 + l[p].n
           ct == SubSeq(l, p + 2, end)
           goes == ~(p + 1 > Len(l) \/ end > Len(l))
<1>1. Len(l) \in Nat /\ p \in 1..Len(l) /\ q \in (p + 1)..(Len(l) + 1) /\ l[p].n \in Nat
  <2>1. p \in 1..Len(l) /\ q \in (p + 1)..(Len(l) + 1) /\ Len(l) \in Nat
    BY DEF Broken
  <2>2. l[p] \in Cell
    BY <2>1
  <2>3. \A x \in Cell : x.n \in Nat
    BY DEF Cell
  <2> QED BY <2>1, <2>2, <2>3
<1>2. ASSUME goes, Decrypts(l[p + 1], ct, k)
      PROVE  FALSE
  <2>1. /\ p + 1 <= Len(l) /\ end <= Len(l) /\ l[p + 1].part = "nonce"
    BY <1>1, <1>2 DEF Decrypts
  <2>2. q # p + 1
    BY <1>1, <2>1
  <2>3. PICK c \in Captures : q - p < Size(c) /\ Stands(l, p, c, k, q - p)
    BY <2>2 DEF Broken
  <2>4. /\ q - p \in Nat /\ q - p >= 2 /\ CellsOf[c] \in Nat /\ q - p < CellsOf[c] + 2
    <3>1. CellsOf[c] \in Nat
      BY CellsAssumption
    <3> QED BY <1>1, <2>2, <2>3, <3>1 DEF Size
  <2>5. l[p] = Frame(c, k)[1] /\ l[p + 1] = Frame(c, k)[2]
    <3>1. 1 \in 1..(q - p) /\ 2 \in 1..(q - p) /\ p + 1 - 1 = p /\ p + 2 - 1 = p + 1
      BY <1>1, <2>4
    <3> QED BY <2>3, <3>1 DEF Stands
  <2>6. l[p].n = CellsOf[c] /\ l[p + 1].cap = c
    <3>1. l[p] = LenCell(c, k) /\ l[p + 1] = NonceCell(c, k)
      BY <2>5, FrameParts
    <3> QED BY <3>1 DEF LenCell, NonceCell
  <2> DEFINE x == q - p - 1
  <2>7. x \in 1..CellsOf[c] /\ q <= Len(l) /\ q = p + 1 + x
    BY <1>1, <2>1, <2>4, <2>6
  <2>8. Len(ct) = CellsOf[c] /\ ct[x].part = "ct"
    <3>1. Len(ct) = CellsOf[c]
      BY <1>2, <2>6 DEF Decrypts
    <3>2. x \in 1..Len(ct)
      BY <2>7, <3>1
    <3> HIDE DEF x, ct
    <3>3. ct[x] = [part |-> "ct", cap |-> l[p + 1].cap, key |-> k, n |-> x]
      BY <1>2, <3>2 DEF Decrypts
    <3> QED BY <3>1, <3>3
  <2>9. ct[x] = l[q]
    <3>1. /\ end \in (p + 1)..Len(l) /\ end - (p + 2) + 1 = CellsOf[c]
          /\ p + 2 \in 1..(Len(l) + 1)
      <4> DEFINE n == CellsOf[c]
      <4>1. end = p + 1 + n /\ n \in Nat
        BY <2>4, <2>6
      <4>2. end <= Len(l)
        BY <2>1
      <4> HIDE DEF end, n
      <4>3. end \in (p + 1)..Len(l) /\ end - (p + 2) + 1 = n /\ p + 2 \in 1..(Len(l) + 1)
        BY <1>1, <2>1, <4>1, <4>2
      <4> QED BY <4>3 DEF n
    <3> HIDE DEF end, x
    <3>2. \A i \in 1..(end - (p + 2) + 1) : ct[i] = l[p + 2 + i - 1]
      BY <1>1, <3>1
    <3>3. p + 2 + x - 1 = p + 1 + x /\ x \in 1..(end - (p + 2) + 1)
      <4>1. x \in 1..CellsOf[c] /\ x \in Int /\ p \in Int
        BY <1>1, <2>7
      <4> QED BY <3>1, <4>1
    <3>4. ct[x] = l[p + 2 + x - 1]
      BY <3>2, <3>3
    <3> QED BY <2>7, <3>3, <3>4
  <2> QED BY <2>7, <2>8, <2>9
<1>3. CASE ~goes
  BY <1>3 DEF ReadRecord, Outcome
<1>4. CASE goes
  <2>1. ~(l[p].n > 0 /\ Decrypts(l[p + 1], ct, k))
    BY <1>2, <1>4
  <2>2. ReadRecord(l, k, read, p) = Outcome(FALSE, <<>>)
    BY <1>4, <2>1 DEF ReadRecord, Outcome
  <2>3. q # Len(l) + 1
    <3>1. SUFFICES ASSUME q = Len(l) + 1 PROVE FALSE
      OBVIOUS
    <3>2. q # p + 1
      BY <1>1, <1>4, <3>1
    <3>3. PICK c \in Captures : q - p < Size(c) /\ Stands(l, p, c, k, q - p)
      BY <3>2 DEF Broken
    <3>4. CellsOf[c] \in Nat
      BY CellsAssumption
    <3>5. l[p].n = CellsOf[c]
      <4>1. 1 \in 1..(q - p) /\ p + 1 - 1 = p
        BY <1>1
      <4>2. l[p] = Frame(c, k)[1]
        BY <3>3, <4>1 DEF Stands
      <4>3. l[p] = LenCell(c, k)
        BY <4>2, FrameParts
      <4> QED BY <4>3 DEF LenCell
    <3> QED BY <1>1, <1>4, <3>1, <3>3, <3>4, <3>5 DEF Size
  <2> QED BY <2>2, <2>3
<1> QED BY <1>3, <1>4

\* Reading frames gives their captures, before what is read after them.
LEMMA ReadsFrames ==
    ASSUME NEW l \in Seq(Cell), NEW k, NEW w \in Seq(Captures), NEW m \in 0..Len(w), NEW pos,
           Framed(l, w, m, pos, k), NEW read, Reads(l, k, read), NEW ok \in BOOLEAN,
           ReadRecord(l, k, read, pos[m + 1]) = Outcome(ok, <<>>)
    PROVE  read[1] = Outcome(ok, SubSeq(w, 1, m))
<1> DEFINE Good(j) == read[pos[j]] = Outcome(ok, SubSeq(w, j, m))
           n == m + 1
           T == {j \in 1..n : ~Good(j)}
<1>0. m \in Nat /\ Len(w) \in Nat /\ m <= Len(w) /\ n \in Nat /\ n = m + 1
  OBVIOUS
<1>1. Good(m + 1)
  <2>1. read[pos[m + 1]] = Outcome(ok, <<>>)
    BY DEF Reads, Framed
  <2>2. SubSeq(w, m + 1, m) = <<>>
    BY <1>0
  <2> QED BY <2>1, <2>2
<1>2. ASSUME NEW j \in 1..m, Good(j + 1)
      PROVE  Good(j)
  <2>1. /\ pos[j] \in Nat \ {0} /\ w[j] \in Captures
        /\ pos[j + 1] = pos[j] + Size(w[j]) /\ Stands(l, pos[j], w[j], k, Size(w[j]))
        /\ pos[j] \in 1..(Len(l) + 1)
    <3>1. /\ j \in 1..(m + 1) /\ w[j] \in Captures
          /\ pos[j + 1] = pos[j] + Size(w[j]) /\ Stands(l, pos[j], w[j], k, Size(w[j]))
      BY <1>0 DEF Framed
    <3>2. pos[j] \in Nat
      BY <3>1 DEF Framed
    <3>3. 1 \in 1..Size(w[j]) /\ pos[j] + 1 - 1 = pos[j]
      <4>1. Size(w[j]) \in Nat \ {0}
        BY <3>1, FrameParts DEF Size
      <4> QED BY <3>2, <4>1
    <3>4. pos[j] \in DOMAIN l
      BY <3>1, <3>3 DEF Stands
    <3> QED BY <3>1, <3>2, <3>4
  <2>2. read[pos[j]] = ReadRecord(l, k, read, pos[j])
    BY <2>1 DEF Reads
  <2>4. read[pos[j] + Size(w[j])] = Outcome(ok, SubSeq(w, j + 1, m))
    BY <1>2, <2>1
  <2>5. read[pos[j]] = Outcome(ok, <<w[j]>> \o SubSeq(w, j + 1, m))
    <3> DEFINE s == SubSeq(w, j + 1, m)
               p == pos[j]
               c == w[j]
    <3>1. /\ p \in Nat \ {0} /\ c \in Captures /\ Stands(l, p, c, k, Size(c))
          /\ read[p + Size(c)] = Outcome(ok, s)
      BY <2>1, <2>4
    <3> HIDE DEF s, p, c
    <3>2. ReadRecord(l, k, read, p) = Outcome(ok, <<c>> \o s)
      BY <3>1, ReadsFrame
    <3> QED BY <2>2, <3>2 DEF s, p, c
  <2>6. <<w[j]>> \o SubSeq(w, j + 1, m) = SubSeq(w, j, m)
    <3> DEFINE rest == SubSeq(w, j + 1, m)
               all == SubSeq(w, j, m)
    <3>1. /\ rest \in Seq(Captures) /\ Len(rest) = m - j
          /\ \A i \in 1..(m - j) : rest[i] = w[j + i]
      BY <1>0
    <3>2. /\ all \in Seq(Captures) /\ Len(all) = m - j + 1
          /\ \A i \in 1..(m - j + 1) : all[i] = w[j + i - 1]
      BY <1>0
    <3> HIDE DEF rest, all
    <3> DEFINE both == <<w[j]>> \o rest
               one == <<w[j]>>
    <3>3. one \in Seq(Captures) /\ Len(one) = 1 /\ one[1] = w[j]
      BY <2>1
    <3> HIDE DEF one
    <3>4. /\ one \o rest \in Seq(Captures) /\ Len(one \o rest) = Len(one) + Len(rest)
          /\ \A i \in 1..(Len(one) + Len(rest)) :
                 (one \o rest)[i] = IF i <= Len(one) THEN one[i] ELSE rest[i - Len(one)]
      BY <3>1, <3>3, ConcatProperties
    <3>6. both = one \o rest
      BY DEF one
    <3> HIDE DEF both
    <3>7. both \in Seq(Captures) /\ Len(both) = m - j + 1
      BY <1>0, <3>1, <3>3, <3>4, <3>6
    <3>8. ASSUME NEW i \in 1..(m - j + 1)
          PROVE  both[i] = all[i]
      <4>1. CASE i = 1
        <5>1. both[1] = w[j] /\ all[1] = w[j]
          BY <1>0, <3>1, <3>2, <3>3, <3>4, <3>6
        <5> QED BY <4>1, <5>1
      <4>2. CASE i # 1
        <5>1. i - 1 \in 1..(m - j) /\ j + (i - 1) = j + i - 1
          BY <1>0, <4>2
        <5>2. both[i] = rest[i - 1]
          BY <1>0, <3>1, <3>3, <3>4, <3>6, <4>2
        <5> QED BY <3>1, <3>2, <5>1, <5>2
      <4> QED BY <4>1, <4>2
    <3>5. both = all
      BY <3>2, <3>7, <3>8, SeqEqual
    <3> QED BY <3>5 DEF both, rest, all
  <2> QED BY <2>5, <2>6
<1>3. T = {}
  <2>1. SUFFICES ASSUME T # {} PROVE FALSE
    OBVIOUS
  <2>2. PICK j \in T : \A i \in T : i <= j
    <3>1. T \subseteq 1..n
      OBVIOUS
    <3> HIDE DEF T, n
    <3> QED BY <1>0, <2>1, <3>1, LastIndex
  <2> HIDE DEF Good
  <2>3. j \in 1..n /\ j # m + 1
    BY <1>0, <1>1, <2>2
  <2>4. j \in 1..m /\ j + 1 \in 1..n /\ ~(j + 1 <= j)
    BY <1>0, <2>3
  <2>5. j + 1 \notin T
    BY <2>2, <2>4
  <2> QED BY <1>2, <2>2, <2>4, <2>5
<1>4. 1 \in 1..n
  BY <1>0
<1>5. Good(1)
  BY <1>3, <1>4
<1> QED BY <1>5 DEF Framed

-----------------------------------------------------------------------------
(* The file as the store writes it.                                         *)

\* Whole frames, and from the first torn one on, what was appended to it.
Shape(l, w, t, k) ==
    \E m \in 0..Len(w), pos \in Seq(Nat), q \in Nat :
        /\ Framed(l, w, m, pos, k)
        /\ t = "no" => m = Len(w) /\ pos[m + 1] = Len(l) + 1
        /\ t = "tail" => m = Len(w) /\ q = Len(l) + 1 /\ Broken(l, pos[m + 1], q, k)
        /\ t = "inside" => /\ Broken(l, pos[m + 1], q, k)
                           /\ q <= Len(l) => l[q].part = "len"

Torn == {"no", "tail", "inside"}

\* What read_all gives of such a file.
LEMMA ReadsShape ==
    ASSUME NEW l \in Seq(Cell), NEW k, NEW w \in Seq(Captures), NEW t \in Torn, Shape(l, w, t, k)
    PROVE  \E m \in 0..Len(w), ok \in BOOLEAN :
               /\ Records(l, k) = Outcome(ok, SubSeq(w, 1, m))
               /\ t # "inside" => ok /\ m = Len(w)
<1>1. PICK m \in 0..Len(w), pos \in Seq(Nat), q \in Nat :
        /\ Framed(l, w, m, pos, k)
        /\ t = "no" => m = Len(w) /\ pos[m + 1] = Len(l) + 1
        /\ t = "tail" => m = Len(w) /\ q = Len(l) + 1 /\ Broken(l, pos[m + 1], q, k)
        /\ t = "inside" => /\ Broken(l, pos[m + 1], q, k)
                           /\ q <= Len(l) => l[q].part = "len"
  BY DEF Shape
<1>2. PICK read : Reads(l, k, read) /\ Records(l, k) = read[1]
  BY RecordsRead
<1>3. PICK ok \in BOOLEAN :
        /\ ReadRecord(l, k, read, pos[m + 1]) = Outcome(ok, <<>>)
        /\ t # "inside" => ok
  <2>1. CASE t = "no"
    BY <1>1, <2>1, ReadsEnd
  <2>2. CASE t \in {"tail", "inside"}
    <3>1. /\ Broken(l, pos[m + 1], q, k)
          /\ q <= Len(l) => l[q].part = "len"
          /\ t # "inside" => q = Len(l) + 1
      <4>1. q = Len(l) + 1 => ~(q <= Len(l))
        OBVIOUS
      <4> QED BY <1>1, <2>2, <4>1
    <3>2. /\ ReadRecord(l, k, read, pos[m + 1]) \in {Outcome(TRUE, <<>>), Outcome(FALSE, <<>>)}
          /\ q = Len(l) + 1 => ReadRecord(l, k, read, pos[m + 1]) = Outcome(TRUE, <<>>)
      <4> DEFINE p == pos[m + 1]
      <4>1. Broken(l, p, q, k) /\ (q <= Len(l) => l[q].part = "len")
        BY <3>1
      <4> HIDE DEF p
      <4>2. /\ ReadRecord(l, k, read, p) \in {Outcome(TRUE, <<>>), Outcome(FALSE, <<>>)}
            /\ q = Len(l) + 1 => ReadRecord(l, k, read, p) = Outcome(TRUE, <<>>)
        BY <4>1, ReadsBroken
      <4> QED BY <4>2 DEF p
    <3> QED BY <3>1, <3>2
  <2> QED BY <2>1, <2>2 DEF Torn
<1>4. read[1] = Outcome(ok, SubSeq(w, 1, m))
  BY <1>1, <1>2, <1>3, ReadsFrames
<1> QED BY <1>1, <1>2, <1>3, <1>4 DEF Torn

\* An empty file is whole frames, none of them.
LEMMA NothingIsShaped == \A k : Shape(<<>>, <<>>, "no", k)
<1> TAKE k
<1>1. <<1>> \in Seq(Nat) /\ Len(<<1>>) = 0 + 1 /\ <<1>>[1] = 1 /\ <<1>>[0 + 1] = 1
      /\ Len(<<>>) = 0 /\ 0 \in 0..0 /\ 1..0 = {}
  OBVIOUS
<1>2. Framed(<<>>, <<>>, 0, <<1>>, k)
  BY <1>1 DEF Framed
<1> QED BY <1>1, <1>2 DEF Shape

\* A file of frames without a capture written has nothing in it.
LEMMA OnlyNothingIsEmpty ==
    ASSUME NEW k, NEW w \in Seq(Captures), NEW t \in Torn, Shape(<<>>, w, t, k)
    PROVE  w = <<>> /\ t = "no"
<1>1. PICK m \in 0..Len(w), pos \in Seq(Nat), q \in Nat :
        /\ Framed(<<>>, w, m, pos, k)
        /\ t = "no" => m = Len(w)
        /\ t = "tail" => Broken(<<>>, pos[m + 1], q, k)
        /\ t = "inside" => Broken(<<>>, pos[m + 1], q, k)
  BY DEF Shape
<1>2. t = "no"
  <2>1. Len(<<>>) = 0 /\ 1..0 = {}
    OBVIOUS
  <2> QED BY <1>1, <2>1 DEF Broken, Torn
<1>3. ASSUME w # <<>> PROVE FALSE
  <2>1. 1 \in 1..m /\ w[1] \in Captures
    BY <1>1, <1>2, <1>3
  <2>2. Stands(<<>>, pos[1], w[1], k, Size(w[1])) /\ Size(w[1]) \in Nat /\ Size(w[1]) >= 3
    BY <1>1, <2>1, FrameParts DEF Framed
  <2>3. 1 \in 1..Size(w[1])
    BY <2>2
  <2>4. DOMAIN <<>> = {}
    OBVIOUS
  <2> QED BY <2>2, <2>3, <2>4 DEF Stands
<1> QED BY <1>2, <1>3

\* What is appended disturbs nothing before it.
LEMMA StandsStill ==
    ASSUME NEW l \in Seq(Cell), NEW cells \in Seq(Cell), NEW c, NEW k, NEW p, NEW n,
           Stands(l, p, c, k, n)
    PROVE  Stands(l \o cells, p, c, k, n)
<1> DEFINE m == l \o cells
<1>1. \A i \in DOMAIN l : i \in DOMAIN m /\ m[i] = l[i]
  OBVIOUS
<1> HIDE DEF m
<1> QED BY <1>1 DEF Stands, m

\* The cells of a file and of what is appended to it.
LEMMA Grown ==
    ASSUME NEW l \in Seq(Cell), NEW cells \in Seq(Cell), cells[1].part = "len", Len(cells) >= 1,
           NEW q \in Nat, q = Len(l) + 1 \/ (q \in 1..Len(l) /\ l[q].part = "len")
    PROVE  (l \o cells)[q].part = "len"
<1> DEFINE m == l \o cells
<1>1. /\ \A i \in 1..Len(l) : m[i] = l[i]
      /\ m[Len(l) + 1] = cells[1] /\ Len(l) \in Nat
  OBVIOUS
<1> HIDE DEF m
<1>2. q \in 1..Len(l) \/ q = Len(l) + 1
  BY <1>1
<1>3. m[q].part = "len"
  BY <1>1, <1>2
<1> QED BY <1>3 DEF m

\* The whole frames stay where they were when more is appended.
LEMMA FramesStandStill ==
    ASSUME NEW l \in Seq(Cell), NEW cells \in Seq(Cell), NEW k, NEW w, NEW x, NEW m \in Nat, NEW pos,
           Framed(l, w, m, pos, k), \A j \in 1..m : x[j] = w[j]
    PROVE  Framed(l \o cells, x, m, pos, k)
<1>1. Len(l \o cells) >= Len(l) /\ Len(l) \in Nat /\ Len(l \o cells) \in Nat
  OBVIOUS
<1>2. pos[m + 1] \in 1..(Len(l \o cells) + 1)
  BY <1>1 DEF Framed
<1> QED BY <1>2, StandsStill DEF Framed

\* And so does a torn one.
LEMMA BreaksStandStill ==
    ASSUME NEW l \in Seq(Cell), NEW cells \in Seq(Cell), NEW k, NEW p, NEW q, Broken(l, p, q, k)
    PROVE  Broken(l \o cells, p, q, k)
<1>1. Len(l \o cells) >= Len(l) /\ Len(l) \in Nat /\ Len(l \o cells) \in Nat
  OBVIOUS
<1>2. p \in 1..Len(l \o cells) /\ q \in (p + 1)..(Len(l \o cells) + 1)
  BY <1>1 DEF Broken
<1> QED BY <1>2, StandsStill DEF Broken

\* A frame or a part of one, at the end of the file.
LEMMA StandsAtEnd ==
    ASSUME NEW l \in Seq(Cell), NEW cells \in Seq(Cell), NEW c, NEW k, NEW n, n = Len(cells),
           \A i \in 1..n : cells[i] = Frame(c, k)[i]
    PROVE  Stands(l \o cells, Len(l) + 1, c, k, n)
<1> DEFINE m == l \o cells
           e == Len(l)
<1>1. e \in Nat /\ n \in Nat /\ DOMAIN m = 1..(e + n) /\ \A i \in 1..n : m[e + i] = cells[i]
  OBVIOUS
<1> HIDE DEF m, e
<1>2. \A i \in 1..n : (e + 1) + i - 1 = e + i /\ e + i \in 1..(e + n)
  BY <1>1
<1>3. Stands(m, e + 1, c, k, n)
  BY <1>1, <1>2 DEF Stands
<1> QED BY <1>3 DEF m, e

\* A torn frame appended to whole frames is one at the end of the file.
LEMMA BreaksAtEnd ==
    ASSUME NEW l \in Seq(Cell), NEW c \in Captures, NEW k \in KeyId, NEW cells \in TornFrames(c, k)
    PROVE  Broken(l \o cells, Len(l) + 1, Len(l \o cells) + 1, k) /\ cells[1].part = "len"
<1> DEFINE f == Frame(c, k)
           e == Len(l)
           m == l \o cells
<1>1. cells \in Seq(Cell) /\ f \in Seq(Cell) /\ Len(f) = Size(c) /\ Size(c) \in Nat /\ e \in Nat
  BY TornCells, FrameCells, FrameParts DEF Size
<1>2. f[1].part = "len"
  <2>1. f[1] = LenCell(c, k)
    BY FrameParts
  <2> QED BY <2>1 DEF LenCell
<1>3. ASSUME NEW n \in Nat \ {0}, n = Len(cells)
      PROVE  /\ e + 1 \in 1..Len(m) /\ Len(m) + 1 \in (e + 2)..(Len(m) + 1)
             /\ Len(m) + 1 = e + 1 + n
  <2>1. Len(m) = e + n
    BY <1>1, <1>3
  <2> HIDE DEF m, e
  <2> QED BY <1>1, <1>3, <2>1
<1>4. ASSUME NEW n \in 1..(Len(f) - 1), cells = SubSeq(f, 1, n)
      PROVE  Broken(m, e + 1, Len(m) + 1, k) /\ cells[1].part = "len"
  <2> HIDE DEF f
  <2>1. Len(cells) = n /\ (\A i \in 1..n : cells[i] = f[i]) /\ n \in Nat \ {0} /\ n < Size(c)
    BY <1>1, <1>4
  <2>2. Stands(m, e + 1, c, k, n)
    BY <1>1, <2>1, StandsAtEnd DEF f
  <2>3. /\ e + 1 \in 1..Len(m) /\ Len(m) + 1 \in (e + 2)..(Len(m) + 1)
        /\ Len(m) + 1 = e + 1 + n
    BY <1>3, <2>1
  <2>4. (Len(m) + 1) - (e + 1) = n /\ (e + 1) + 1 = e + 2
    BY <1>1, <2>1, <2>3
  <2>5. Broken(m, e + 1, Len(m) + 1, k)
    <3> HIDE DEF m, e
    <3> QED BY <2>1, <2>2, <2>3, <2>4 DEF Broken
  <2> QED BY <1>2, <2>1, <2>5
<1>5. ASSUME NEW g \in GarbledLengths, cells = <<[part |-> "len", cap |-> c, key |-> k, n |-> g]>>
      PROVE  Broken(m, e + 1, Len(m) + 1, k) /\ cells[1].part = "len"
  <2>1. Len(cells) = 1 /\ cells[1].part = "len"
    BY <1>5
  <2>2. /\ e + 1 \in 1..Len(m) /\ Len(m) + 1 \in (e + 2)..(Len(m) + 1)
        /\ Len(m) + 1 = e + 1 + 1
    BY <1>3, <2>1
  <2>3. (e + 1) + 1 = e + 2
    BY <1>1
  <2>4. Broken(m, e + 1, Len(m) + 1, k)
    <3> HIDE DEF m, e
    <3> QED BY <2>2, <2>3 DEF Broken
  <2> QED BY <2>1, <2>4
<1> QED BY <1>4, <1>5 DEF TornFrames

\* A whole frame at the end of whole frames is one more.
LEMMA FramesAndOne ==
    ASSUME NEW l \in Seq(Cell), NEW c \in Captures, NEW k \in KeyId, NEW w \in Seq(Captures),
           NEW pos, Framed(l, w, Len(w), pos, k), pos[Len(w) + 1] = Len(l) + 1
    PROVE  \E new \in Seq(Nat) :
               /\ Framed(l \o Frame(c, k), Append(w, c), Len(w) + 1, new, k)
               /\ new[Len(w) + 2] = Len(l \o Frame(c, k)) + 1
<1> DEFINE f == Frame(c, k)
           l2 == l \o f
           w2 == Append(w, c)
           m == Len(w)
           new == Append(pos, Len(l2) + 1)
<1>1. /\ f \in Seq(Cell) /\ Len(f) = Size(c) /\ Size(c) \in Nat /\ m \in Nat
      /\ pos \in Seq(Nat) /\ Len(pos) = m + 1
  BY FrameCells, FrameParts DEF Size, Framed
<1>2. /\ l2 \in Seq(Cell) /\ Len(l2) = Len(l) + Size(c) /\ Len(l) \in Nat
      /\ w2[m + 1] = c /\ \A j \in 1..m : w2[j] = w[j]
  <2>1. w2[m + 1] = c /\ \A j \in 1..m : w2[j] = w[j]
    OBVIOUS
  <2> HIDE DEF f
  <2>2. l2 \in Seq(Cell) /\ Len(l2) = Len(l) + Len(f)
    BY <1>1, ConcatProperties
  <2> HIDE DEF l2
  <2> QED BY <1>1, <2>1, <2>2
<1>3. Framed(l2, w2, m, pos, k)
  BY <1>1, <1>2, FramesStandStill
<1>4. Stands(l2, Len(l) + 1, c, k, Size(c))
  BY <1>1, StandsAtEnd
<1>5. /\ new \in Seq(Nat) /\ Len(new) = m + 2 /\ new[m + 2] = Len(l2) + 1
      /\ \A j \in 1..(m + 1) : new[j] = pos[j]
  <2> HIDE DEF l2
  <2> QED BY <1>1, <1>2
<1> HIDE DEF f, l2, w2, m, new
<1>6. new[1] = 1 /\ new[m + 1] = Len(l) + 1
  <2>1. 1 \in 1..(m + 1) /\ m + 1 \in 1..(m + 1)
    BY <1>1
  <2> QED BY <1>3, <1>5, <2>1 DEF Framed, m
<1>7. ASSUME NEW j \in 1..(m + 1)
      PROVE  /\ new[j + 1] = new[j] + Size(w2[j])
             /\ Stands(l2, new[j], w2[j], k, Size(w2[j]))
  <2>1. CASE j = m + 1
    <3>1. new[j + 1] = Len(l2) + 1 /\ new[j] = Len(l) + 1 /\ w2[j] = c
      <4>1. j + 1 = m + 2
        BY <1>1, <2>1
      <4> QED BY <1>2, <1>5, <1>6, <2>1, <4>1
    <3>2. Len(l2) + 1 = (Len(l) + 1) + Size(c)
      BY <1>1, <1>2
    <3> QED BY <1>4, <3>1, <3>2
  <2>2. CASE j # m + 1
    <3>1. j \in 1..m /\ j \in 1..(m + 1) /\ j + 1 \in 1..(m + 1)
      BY <1>1, <2>2
    <3> QED BY <1>3, <1>5, <3>1 DEF Framed
  <2> QED BY <2>1, <2>2
<1>8. /\ Len(new) = (m + 1) + 1 /\ new[(m + 1) + 1] = Len(l2) + 1
      /\ Len(l2) + 1 \in 1..(Len(l2) + 1)
  <2>1. (m + 1) + 1 = m + 2 /\ Len(l2) \in Nat
    BY <1>1, <1>2
  <2> QED BY <1>5, <2>1
<1>9. Framed(l2, w2, m + 1, new, k)
  BY <1>5, <1>6, <1>7, <1>8 DEF Framed
<1> QED BY <1>5, <1>9 DEF f, l2, w2, m, new

\* What a whole frame, and what a torn one, make of the file's shape.
LEMMA FrameShapes ==
    ASSUME NEW l \in Seq(Cell), NEW c \in Captures, NEW k \in KeyId, NEW w \in Seq(Captures),
           NEW t \in Torn, Shape(l, w, t, k)
    PROVE  Shape(l \o Frame(c, k), Append(w, c), Followed(t), k)
<1> DEFINE f == Frame(c, k)
           l2 == l \o f
           w2 == Append(w, c)
<1>1. PICK m \in 0..Len(w), pos \in Seq(Nat), q \in Nat :
        /\ Framed(l, w, m, pos, k)
        /\ t = "no" => m = Len(w) /\ pos[m + 1] = Len(l) + 1
        /\ t = "tail" => m = Len(w) /\ q = Len(l) + 1 /\ Broken(l, pos[m + 1], q, k)
        /\ t = "inside" => /\ Broken(l, pos[m + 1], q, k)
                           /\ q <= Len(l) => l[q].part = "len"
  BY DEF Shape
<1>2. /\ f \in Seq(Cell) /\ Len(f) >= 3 /\ Len(f) \in Nat /\ f[1].part = "len"
      /\ Len(w2) = Len(w) + 1 /\ Len(w) \in Nat /\ m \in Nat
  <2>1. f[1] = LenCell(c, k) /\ f \in Seq(Cell) /\ Len(f) = Size(c) /\ Size(c) >= 3 /\ Size(c) \in Nat
    BY FrameCells, FrameParts DEF Size
  <2> QED BY <2>1 DEF LenCell
<1>3. CASE t = "no"
  <2>1. PICK new \in Seq(Nat) :
          /\ Framed(l2, w2, Len(w) + 1, new, k)
          /\ new[Len(w) + 2] = Len(l2) + 1
    BY <1>1, <1>3, FramesAndOne
  <2>2. Len(w2) \in 0..Len(w2) /\ Len(w2) + 1 = Len(w) + 2
    BY <1>2
  <2> HIDE DEF l2, w2
  <2>3. Shape(l2, w2, "no", k)
    BY <1>2, <2>1, <2>2 DEF Shape
  <2> QED BY <1>3, <2>3 DEF Followed, l2, w2
<1>4. CASE t # "no"
  <2>1. Framed(l2, w2, m, pos, k) /\ m \in 0..Len(w2)
    <3>1. \A j \in 1..m : w2[j] = w[j]
      OBVIOUS
    <3>2. m \in 0..Len(w2)
      BY <1>2
    <3> HIDE DEF w2, f
    <3>3. Framed(l2, w2, m, pos, k)
      BY <1>1, <1>2, <3>1, FramesStandStill
    <3> QED BY <3>2, <3>3
  <2>2. Broken(l, pos[m + 1], q, k) /\ (q = Len(l) + 1 \/ (q \in 1..Len(l) /\ l[q].part = "len"))
    <3>1. Broken(l, pos[m + 1], q, k)
      BY <1>1, <1>4 DEF Torn
    <3>2. q <= Len(l) \/ q = Len(l) + 1
      BY <3>1 DEF Broken
    <3>3. t = "tail" => q = Len(l) + 1
      BY <1>1
    <3>4. q >= 1
      BY <3>1 DEF Broken
    <3>5. q <= Len(l) => q \in 1..Len(l)
      BY <3>4
    <3> QED BY <1>1, <1>4, <3>1, <3>2, <3>3, <3>5 DEF Torn
  <2>3. Broken(l2, pos[m + 1], q, k)
    BY <1>2, <2>2, BreaksStandStill
  <2>4. l2[q].part = "len"
    BY <1>2, <2>2, Grown
  <2> HIDE DEF l2, w2
  <2>5. Shape(l2, w2, "inside", k)
    BY <2>1, <2>3, <2>4 DEF Shape
  <2> QED BY <1>4, <2>5 DEF Followed, l2, w2
<1> QED BY <1>3, <1>4

\* A torn frame after whole ones, and one after a torn one.
LEMMA TornShapes ==
    ASSUME NEW l \in Seq(Cell), NEW c \in Captures, NEW k \in KeyId, NEW w \in Seq(Captures),
           NEW t \in Torn, Shape(l, w, t, k), NEW cells \in TornFrames(c, k)
    PROVE  Shape(l \o cells, w, IF t = "no" THEN "tail" ELSE "inside", k)
<1> DEFINE l2 == l \o cells
<1>1. PICK m \in 0..Len(w), pos \in Seq(Nat), q \in Nat :
        /\ Framed(l, w, m, pos, k)
        /\ t = "no" => m = Len(w) /\ pos[m + 1] = Len(l) + 1
        /\ t = "tail" => m = Len(w) /\ q = Len(l) + 1 /\ Broken(l, pos[m + 1], q, k)
        /\ t = "inside" => /\ Broken(l, pos[m + 1], q, k)
                           /\ q <= Len(l) => l[q].part = "len"
  BY DEF Shape
<1>2. /\ cells \in Seq(Cell) /\ cells[1].part = "len" /\ Len(cells) >= 1 /\ m \in Nat
      /\ Broken(l2, Len(l) + 1, Len(l2) + 1, k) /\ Len(l2) + 1 \in Nat
  <2>1. cells \in Seq(Cell) /\ cells[1].part = "len" /\ Broken(l2, Len(l) + 1, Len(l2) + 1, k)
    BY TornCells, BreaksAtEnd
  <2>2. Len(l) + 1 \in 1..Len(l2) /\ Len(l2) = Len(l) + Len(cells)
    BY <2>1 DEF Broken
  <2> QED BY <2>1, <2>2
<1>3. Framed(l2, w, m, pos, k)
  BY <1>1, <1>2, FramesStandStill
<1>4. CASE t = "no"
  <2>1. Shape(l2, w, "tail", k)
    <3> HIDE DEF l2
    <3> QED BY <1>1, <1>2, <1>3, <1>4 DEF Shape
  <2> QED BY <1>4, <2>1
<1>5. CASE t # "no"
  <2>2. Broken(l, pos[m + 1], q, k) /\ (q = Len(l) + 1 \/ (q \in 1..Len(l) /\ l[q].part = "len"))
    <3>1. Broken(l, pos[m + 1], q, k)
      BY <1>1, <1>5 DEF Torn
    <3>2. q <= Len(l) \/ q = Len(l) + 1
      BY <3>1 DEF Broken
    <3>3. t = "tail" => q = Len(l) + 1
      BY <1>1
    <3>4. q >= 1
      BY <3>1 DEF Broken
    <3>5. q <= Len(l) => q \in 1..Len(l)
      BY <3>4
    <3> QED BY <1>1, <1>5, <3>1, <3>2, <3>3, <3>5 DEF Torn
  <2>3. Broken(l2, pos[m + 1], q, k)
    BY <1>2, <2>2, BreaksStandStill
  <2>4. l2[q].part = "len"
    BY <1>2, <2>2, Grown
  <2>5. Shape(l2, w, "inside", k)
    <3> HIDE DEF l2
    <3> QED BY <1>1, <1>3, <2>3, <2>4 DEF Shape
  <2> QED BY <1>5, <2>5
<1> QED BY <1>4, <1>5

\* A file that begins with another key gives nothing, or is refused.
LEMMA ReadsForeign ==
    ASSUME NEW l \in Seq(Cell), NEW k, l # <<>>, l[1].key # k, HeadTogether(l)
    PROVE  \E ok \in BOOLEAN : Records(l, k) = Outcome(ok, <<>>)
<1>1. PICK read : Reads(l, k, read) /\ Records(l, k) = read[1]
  BY RecordsRead
<1>2. Len(l) \in Nat /\ 1 \in 1..(Len(l) + 1) /\ 1 \in DOMAIN l
  OBVIOUS
<1>3. read[1] = ReadRecord(l, k, read, 1)
  BY <1>1, <1>2 DEF Reads
<1>4. CASE 1 + 1 > Len(l) \/ 1 + 1 + l[1].n > Len(l)
  BY <1>1, <1>3, <1>4 DEF ReadRecord, Outcome
<1>5. CASE ~(1 + 1 > Len(l) \/ 1 + 1 + l[1].n > Len(l))
  <2>1. \A ct : ~Decrypts(l[1 + 1], ct, k)
    BY <1>2, <1>5 DEF Decrypts, HeadTogether
  <2> QED BY <1>1, <1>3, <1>5, <2>1 DEF ReadRecord, Outcome
<1> QED BY <1>4, <1>5

\* The key on disk is the one the file begins with, or there is no file.
Opens(l, k) == l = <<>> \/ l[1].key = k

InShape ==
    KeyKept /\ (Opens(log, keyFile) => SealedBy(log, keyFile) /\ Shape(log, written, torn, keyFile))

\* The log starts empty.
LEMMA InShapeInit ==
    ASSUME StoreInit
    PROVE  InShape
<1>1. log = <<>> /\ written = <<>> /\ torn = "no"
  BY DEF StoreInit
<1>2. SealedBy(<<>>, keyFile)
  BY DEF SealedBy
<1> QED BY <1>1, <1>2, KeyKeptInit, NothingIsShaped DEF InShape

\* A key the log does not begin with, and one made before anything is written.
LEMMA OtherKey ==
    ASSUME KeyKept, NEW k, Opens(log, keyFile) => Shape(log, written, torn, keyFile),
           \A i \in DOMAIN log : log[i].key # k, Opens(log, k)
    PROVE  SealedBy(log, k) /\ Shape(log, written, torn, k)
<1>0. log \in Seq(Cell) /\ written \in Seq(Captures) /\ torn \in Torn
  BY DEF KeyKept, StoreTypeOK, Torn
<1>1. log = <<>>
  <2>1. log # <<>> => 1 \in DOMAIN log
    BY <1>0
  <2> QED BY <2>1 DEF Opens
<1>2. written = <<>> /\ torn = "no"
  BY <1>0, <1>1, OnlyNothingIsEmpty DEF Opens
<1> QED BY <1>1, <1>2, NothingIsShaped DEF SealedBy

\* Every append leaves the file in shape, torn or whole; nothing else
\* touches it.
LEMMA InShapeStep ==
    ASSUME InShape, [StoreNext]_storeVars
    PROVE  InShape'
<1>0. /\ KeyKept /\ KeyKept'
      /\ Opens(log, keyFile) => SealedBy(log, keyFile) /\ Shape(log, written, torn, keyFile)
      /\ log \in Seq(Cell) /\ written \in Seq(Captures) /\ torn \in Torn
  BY KeyKeptStep DEF InShape, KeyKept, StoreTypeOK, Torn
<1>1. CASE UNCHANGED <<log, written, torn, keyFile>>
  BY <1>0, <1>1 DEF InShape
<1>2. ASSUME mode = "serving", NEW cells \in Seq(Cell), SealedBy(cells, key),
             Len(cells) >= 1, cells[1].part = "len", log' = log \o cells, keyFile' = keyFile,
             Opens(log', keyFile)
      PROVE  Opens(log, keyFile) /\ SealedBy(log', keyFile)
  BY <1>0, <1>2, LogGrows DEF Opens
<1>3. ASSUME NEW c \in Captures, Append1(c)
      PROVE  InShape'
  <2>1. /\ log' = log \o Frame(c, key) /\ written' = Append(written, c)
        /\ torn' = Followed(torn) /\ keyFile' = keyFile /\ key = keyFile /\ keyFile \in KeyId
        /\ mode = "serving"
    BY <1>0, <1>3 DEF Append1, KeyKept
  <2>2. /\ Frame(c, key) \in Seq(Cell) /\ SealedBy(Frame(c, key), key)
        /\ Len(Frame(c, key)) >= 1 /\ Frame(c, key)[1].part = "len"
    BY <2>1, FrameCells, CellsAssumption DEF SealedBy
  <2>3. ASSUME Opens(log', keyFile)
        PROVE  SealedBy(log', keyFile) /\ Shape(log', written', torn', keyFile)
    <3>1. Opens(log, keyFile) /\ SealedBy(log', keyFile)
      BY <1>2, <2>1, <2>2, <2>3
    <3>2. Shape(log, written, torn, keyFile)
      BY <1>0, <3>1
    <3>3. Shape(log \o Frame(c, keyFile), Append(written, c), Followed(torn), keyFile)
      BY <1>0, <2>1, <3>2, FrameShapes
    <3> QED BY <2>1, <3>1, <3>3
  <2> QED BY <1>0, <2>1, <2>3 DEF InShape
<1>4. ASSUME NEW c \in Captures, mode = "serving", NEW cells \in TornFrames(c, key),
             log' = log \o cells, torn' = IF torn = "no" THEN "tail" ELSE "inside",
             UNCHANGED <<keyFile, written>>
      PROVE  InShape'
  <2>1. key = keyFile /\ keyFile \in KeyId
    BY <1>0, <1>4 DEF KeyKept
  <2>2. cells \in Seq(Cell) /\ SealedBy(cells, key) /\ Len(cells) >= 1 /\ cells[1].part = "len"
    BY <1>4, <2>1, TornCells DEF SealedBy
  <2>3. ASSUME Opens(log', keyFile)
        PROVE  SealedBy(log', keyFile) /\ Shape(log', written', torn', keyFile)
    <3>1. Opens(log, keyFile) /\ SealedBy(log', keyFile)
      BY <1>2, <1>4, <2>2, <2>3
    <3>2. Shape(log, written, torn, keyFile)
      BY <1>0, <3>1
    <3>3. Shape(log \o cells, written, IF torn = "no" THEN "tail" ELSE "inside", keyFile)
      BY <1>0, <1>4, <2>1, <3>2, TornShapes
    <3> QED BY <1>4, <3>1, <3>3
  <2> QED BY <1>0, <1>4, <2>3 DEF InShape
<1>5. ASSUME NEW c \in Captures, AppendFails(c)
      PROVE  InShape'
  BY <1>1, <1>4, <1>5 DEF AppendFails
<1>6. CASE Crash
  <2>1. \A c \in Captures : task[c] = "queued" => mode = "serving"
    BY <1>0 DEF KeyKept
  <2> QED BY <1>1, <1>4, <1>6, <2>1 DEF Crash
<1>7. \A i \in DOMAIN log : log[i].key \in KeyId /\ log[i].key \in Nat
  <2>1. \A x \in Cell : x.key \in KeyId
    BY DEF Cell
  <2>2. \A i \in DOMAIN log : log[i] \in Cell
    BY <1>0
  <2>3. KeyId \subseteq Nat
    BY KeyIdIsNoMark
  <2> QED BY <2>1, <2>2, <2>3
<1>8. CASE StartKeying
  <2>1. UNCHANGED <<log, written, torn>> /\ keyFile' = Short
    BY <1>8 DEF StartKeying
  <2>2. \A i \in DOMAIN log : log[i].key # Short
    BY <1>7, KeyIdIsNoMark
  <2> QED BY <1>0, <2>1, <2>2, OtherKey DEF InShape
<1>9. CASE FinishKeying
  <2>1. UNCHANGED <<log, written, torn>> /\ keyFile' = starts
    BY <1>9 DEF FinishKeying
  <2>2. \A i \in DOMAIN log : log[i].key # starts
    BY <1>0, <1>7, <1>9 DEF FinishKeying, KeyKept
  <2> QED BY <1>0, <2>1, <2>2, OtherKey DEF InShape
<1> QED BY <1>1, <1>3, <1>5, <1>6, <1>8, <1>9
        DEF StoreNext, storeVars, StartWithKey, Spawn, RefuseRedaction

\* The reader of the log (read_all) returns the legible part of a beginning of
\* what was written, or refuses, whatever was torn and whatever became of the
\* key; and of a log that its key fits and in which at most the last frame is
\* torn, all of it.  Records of another build are passed over without a word.
THEOREM ReadersHonest == StoreSpec => []LogFaithful
<1>1. StoreInit => InShape
  BY InShapeInit
<1>2. InShape /\ [StoreNext]_storeVars => InShape'
  BY InShapeStep
<1>3. ASSUME InShape PROVE LogFaithful
  <2>1. /\ log \in Seq(Cell) /\ written \in Seq(Captures) /\ torn \in Torn
        /\ Opens(log, keyFile) => Shape(log, written, torn, keyFile)
        /\ StoreTypeOK /\ KeyOnDiskFitsLog /\ HeadTogether(log)
    BY <1>3 DEF InShape, KeyKept, StoreTypeOK, Torn
  <2>2. \A r, ok, out : r = Outcome(ok, out) =>
            /\ r.ok = ok
            /\ [r EXCEPT !.out = Legible(@)] = [ok |-> ok, out |-> Legible(out)]
    <3> HIDE DEF Legible
    <3> QED BY DEF Outcome
  <2>3. ASSUME Opens(log, keyFile)
        PROVE  \E m \in 0..Len(written), ok \in BOOLEAN :
                  /\ Records(log, keyFile) = Outcome(ok, SubSeq(written, 1, m))
                  /\ torn # "inside" => ok /\ m = Len(written)
    BY <2>1, <2>3, ReadsShape
  <2>4. CleanLogReadable
    <3>1. SUFFICES ASSUME torn # "inside", KeyFits
                   PROVE  ReadAll(log, keyFile) = [ok |-> TRUE, out |-> Legible(written)]
      BY DEF CleanLogReadable
    <3>2. Opens(log, keyFile)
      <4>1. log # <<>> => 1 \in DOMAIN log
        BY <2>1
      <4> QED BY <3>1, <4>1 DEF KeyFits, Opens
    <3>3. Records(log, keyFile) = Outcome(TRUE, SubSeq(written, 1, Len(written)))
      BY <2>3, <3>1, <3>2
    <3>4. SubSeq(written, 1, Len(written)) = written
      BY <2>1
    <3> QED BY <2>2, <3>3, <3>4 DEF ReadAll
  <2>5. ReadNeverInvents
    <3>1. \E m \in 0..Len(written), ok \in BOOLEAN :
              Records(log, keyFile) = Outcome(ok, SubSeq(written, 1, m))
      <4>1. CASE Opens(log, keyFile)
        BY <2>3, <4>1
      <4>2. CASE ~Opens(log, keyFile)
        <5>1. PICK ok \in BOOLEAN : Records(log, keyFile) = Outcome(ok, <<>>)
          BY <2>1, <4>2, ReadsForeign DEF Opens
        <5>2. SubSeq(written, 1, 0) = <<>> /\ 0 \in 0..Len(written)
          BY <2>1
        <5> QED BY <5>1, <5>2
      <4> QED BY <4>1, <4>2
    <3>2. PICK m \in 0..Len(written), ok \in BOOLEAN :
              Records(log, keyFile) = Outcome(ok, SubSeq(written, 1, m))
      BY <3>1
    <3>3. ReadAll(log, keyFile) = [ok |-> ok, out |-> Legible(SubSeq(written, 1, m))]
      BY <2>2, <3>2 DEF ReadAll
    <3> HIDE DEF Legible
    <3> QED BY <3>3 DEF ReadNeverInvents
  <2> QED BY <2>1, <2>4, <2>5 DEF LogFaithful
<1> QED BY <1>1, <1>2, <1>3, PTL DEF StoreSpec
=============================================================================
