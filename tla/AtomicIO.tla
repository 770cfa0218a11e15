------------------------------ MODULE AtomicIO ------------------------------
(***************************************************************************)
(* update_json and atomic_write (src/onpar/atomicio.py): several processes  *)
(* each add an entry to one JSON file.  The model has the lock that may     *)
(* have to be done without, the private scratch file, its fsync, the rename *)
(* and the fsync of the directory, over a file system that keeps what is    *)
(* visible and what is on the disk apart.  Processes may be killed, and the *)
(* machine may stop, between any two system calls.                          *)
(***************************************************************************)
EXTENDS FiniteSets

CONSTANTS Writers,  \* processes, each of which calls update_json once
          Seed,     \* the entry, and the inode, of the file as it was found
          NoInode,
          Unlocked

ASSUME NamesAssumption ==
    Seed \notin Writers /\ NoInode \notin Writers \cup {Seed} /\ Unlocked \notin Writers

Entries == Writers \cup {Seed}
Inodes == Writers \cup {Seed}   \* a scratch file is named by who created it

VARIABLES pc,       \* the next call of each writer
          lock,     \* the holder of the lock file
          doc,      \* the document each writer is about to store
          handle,   \* the scratch file each writer has open
          tmp,      \* scratch names in the directory, and what they name
          file,     \* what the path names
          data,     \* what each file holds: its entries, and whether all of it
          result,   \* what update_json is going to return
          diskFile, \* what the path names on the disk
          synced,   \* the files whose data is on the disk
          acked,    \* entries whose update returned True
          durable,  \* entries of writers whose directory fsync worked
          clean     \* no lock had to be done without, no read failed

writerVars == <<pc, lock, doc, handle, result>>
diskVars == <<diskFile, synced>>
promiseVars == <<acked, durable, clean>>
vars == <<writerVars, tmp, file, data, diskVars, promiseVars>>

Running == {"reading", "opening", "writing", "writing_rest", "syncing",
            "replacing", "dirsync", "unlinking", "unlocking"}
Over == {"returned", "killed"}

TypeOK ==
    /\ pc \in [Writers -> {"idle"} \cup Running \cup Over]
    /\ lock \in {w \in Writers : pc[w] \in Running} \cup {Unlocked}
    /\ doc \in [Writers -> SUBSET Entries]
    /\ handle \in [Writers -> Inodes \cup {NoInode}]
    /\ tmp \in [Writers -> Inodes \cup {NoInode}]
    /\ file \in Inodes \cup {NoInode} /\ diskFile \in Inodes \cup {NoInode}
    /\ data \in [Inodes -> [entries : SUBSET Entries, whole : BOOLEAN]]
    /\ result \in [Writers -> BOOLEAN]
    /\ synced \in SUBSET Inodes
    /\ acked \in SUBSET Entries /\ durable \in SUBSET Entries
    /\ clean \in BOOLEAN

Empty == [entries |-> {}, whole |-> FALSE]
Whole(entries) == [entries |-> entries, whole |-> TRUE]

\* The file is absent, or holds the entry of an earlier run.
Init ==
    /\ pc = [w \in Writers |-> "idle"]
    /\ lock = Unlocked
    /\ doc = [w \in Writers |-> {}]
    /\ handle = [w \in Writers |-> NoInode]
    /\ tmp = [w \in Writers |-> NoInode]
    /\ file \in {NoInode, Seed} /\ diskFile = file
    /\ data = [i \in Inodes |-> IF i = Seed THEN Whole({Seed}) ELSE Empty]
    /\ result = [w \in Writers |-> FALSE]
    /\ synced = {Seed}
    /\ acked = {Seed} \cap {file} /\ durable = acked
    /\ clean = TRUE

To(w, label) == pc' = [pc EXCEPT ![w] = label]
-----------------------------------------------------------------------------
(* _locked *)

\* Variant: goes ahead whoever holds the lock.
LockIgnored(w) ==
    /\ pc[w] = "idle"
    /\ lock' = w
    /\ To(w, "reading")
    /\ UNCHANGED <<doc, handle, result, tmp, file, data, diskVars, promiseVars>>
Lock(w) ==
    /\ pc[w] = "idle"
    /\ lock = Unlocked
    /\ lock' = w
    /\ To(w, "reading")
    /\ UNCHANGED <<doc, handle, result, tmp, file, data, diskVars, promiseVars>>

\* No fcntl, or a file system without flock: a warning, and no lock.
Degrade(w) ==
    /\ pc[w] = "idle"
    /\ clean' = FALSE
    /\ To(w, "reading")
    /\ UNCHANGED <<lock, doc, handle, result, tmp, file, data, diskVars, acked, durable>>
-----------------------------------------------------------------------------
(* update_json: the default stands in for an absent or unreadable file. *)

Read(w) ==
    LET current == IF file # NoInode /\ data[file].whole THEN data[file].entries ELSE {}
    IN /\ pc[w] = "reading"
       /\ doc' = [doc EXCEPT ![w] = current \cup {w}]
       /\ To(w, "opening")
       /\ UNCHANGED <<lock, handle, result, tmp, file, data, diskVars, promiseVars>>

ReadFails(w) ==
    /\ pc[w] = "reading"
    /\ doc' = [doc EXCEPT ![w] = {w}]
    /\ clean' = FALSE
    /\ To(w, "opening")
    /\ UNCHANGED <<lock, handle, result, tmp, file, data, diskVars, acked, durable>>
-----------------------------------------------------------------------------
(* atomic_write *)

\* The scratch name: no other process picks it.
UniqueTmp(w) == w

Open(w) ==
    LET name == UniqueTmp(w)
        i == IF tmp[name] = NoInode THEN w ELSE tmp[name]
    IN /\ pc[w] = "opening"
       /\ tmp' = [tmp EXCEPT ![name] = i]
       /\ handle' = [handle EXCEPT ![w] = i]
       /\ data' = [data EXCEPT ![i] = Empty]
       /\ synced' = synced \ {i}
       /\ To(w, "writing")
       /\ UNCHANGED <<lock, doc, result, file, diskFile, promiseVars>>

\* Part of the text, then the rest of it.
Write(w) ==
    /\ pc[w] \in {"writing", "writing_rest"}
    /\ data' = [data EXCEPT ![handle[w]] =
                   [entries |-> doc[w], whole |-> pc[w] = "writing_rest"]]
    /\ synced' = synced \ {handle[w]}
    /\ To(w, IF pc[w] = "writing" THEN "writing_rest" ELSE "syncing")
    /\ UNCHANGED <<lock, doc, handle, result, tmp, file, diskFile, promiseVars>>

\* Variant: trusts the page cache.
FsyncSkipped(w) ==
    /\ pc[w] = "syncing"
    /\ To(w, "replacing")
    /\ UNCHANGED <<lock, doc, handle, result, tmp, file, data, diskVars, promiseVars>>
Fsync(w) ==
    /\ pc[w] = "syncing"
    /\ synced' = synced \cup {handle[w]}
    /\ To(w, "replacing")
    /\ UNCHANGED <<lock, doc, handle, result, tmp, file, data, diskFile, promiseVars>>

Replace(w) ==
    /\ pc[w] = "replacing"
    /\ tmp[UniqueTmp(w)] # NoInode
    /\ file' = tmp[UniqueTmp(w)]
    /\ tmp' = [tmp EXCEPT ![UniqueTmp(w)] = NoInode]
    /\ To(w, "dirsync")
    /\ UNCHANGED <<lock, doc, handle, result, data, diskVars, promiseVars>>

\* _fsync_dir, which may not be able to do anything.
FsyncDir(w) ==
    /\ pc[w] = "dirsync"
    /\ \/ diskFile' = file /\ durable' = durable \cup {w}
       \/ UNCHANGED <<diskFile, durable>>
    /\ result' = [result EXCEPT ![w] = TRUE]
    /\ To(w, "unlinking")
    /\ UNCHANGED <<lock, doc, handle, tmp, file, data, synced, acked, clean>>

\* Any of the calls raises OSError: the rest of the body is skipped.
Fail(w) ==
    /\ pc[w] \in {"opening", "writing", "writing_rest", "syncing", "replacing"}
    /\ To(w, "unlinking")
    /\ UNCHANGED <<lock, doc, handle, result, tmp, file, data, diskVars, promiseVars>>

\* The finally clause; an error of the unlink is suppressed.
Unlink(w) ==
    /\ pc[w] = "unlinking"
    /\ tmp' \in {tmp, [tmp EXCEPT ![UniqueTmp(w)] = NoInode]}
    /\ To(w, "unlocking")
    /\ UNCHANGED <<lock, doc, handle, result, file, data, diskVars, promiseVars>>

\* Variant: closes the lock file only after success.
UnlockOnSuccess(w) ==
    /\ pc[w] = "unlocking"
    /\ lock' = IF lock = w /\ result[w] THEN Unlocked ELSE lock
    /\ acked' = IF result[w] THEN acked \cup {w} ELSE acked
    /\ To(w, "returned")
    /\ UNCHANGED <<doc, handle, result, tmp, file, data, diskVars, durable, clean>>
\* The lock file is closed and update_json returns.
Unlock(w) ==
    /\ pc[w] = "unlocking"
    /\ lock' = IF lock = w THEN Unlocked ELSE lock
    /\ acked' = IF result[w] THEN acked \cup {w} ELSE acked
    /\ To(w, "returned")
    /\ UNCHANGED <<doc, handle, result, tmp, file, data, diskVars, durable, clean>>
-----------------------------------------------------------------------------
(* The environment *)

\* A process dies: the kernel drops its lock, its scratch file stays.
Kill(w) ==
    /\ pc[w] \in Running
    /\ To(w, "killed")
    /\ lock' = IF lock = w THEN Unlocked ELSE lock
    /\ UNCHANGED <<doc, handle, result, tmp, file, data, diskVars, promiseVars>>

\* The kernel writes the data of a file, or the directory, when it likes.
WriteBack ==
    /\ \/ \E i \in Inodes \ synced : synced' = synced \cup {i} /\ UNCHANGED diskFile
       \/ diskFile # file /\ diskFile' = file /\ UNCHANGED synced
    /\ UNCHANGED <<writerVars, tmp, file, data, promiseVars>>

\* The machine stops and comes back with what is on the disk.  A scratch name may
\* be back or gone, unless the directory was synced since it became the file.
\* What returned True without a working directory fsync was
\* never promised to survive.
MachineCrash ==
    /\ pc' = [w \in Writers |-> IF pc[w] \in Running THEN "killed" ELSE pc[w]]
    /\ lock' = Unlocked
    /\ file' = diskFile
    /\ data' = [i \in Inodes |-> IF i \in synced THEN data[i] ELSE Empty]
    /\ \E left \in SUBSET {w \in Writers \ durable : pc[w] # "idle" /\ diskFile # w} :
           tmp' = [w \in Writers |-> IF w \in left THEN w ELSE NoInode]
    /\ acked' = acked \cap durable
    /\ UNCHANGED <<doc, handle, result, diskVars, durable, clean>>
-----------------------------------------------------------------------------
Step(w) ==
    \/ Lock(w) \/ Read(w) \/ Open(w) \/ Write(w) \/ Fsync(w) \/ Replace(w)
    \/ FsyncDir(w) \/ Unlink(w) \/ Unlock(w)

Next ==
    \/ \E w \in Writers : Step(w) \/ Degrade(w) \/ ReadFails(w) \/ Fail(w) \/ Kill(w)
    \/ WriteBack \/ MachineCrash

\* A process that can take its next step is scheduled in the end.
Spec == Init /\ [][Next]_vars
FairSpec == Spec /\ \A w \in Writers : WF_vars(Step(w))
-----------------------------------------------------------------------------
(* Properties *)

\* "A reader never sees a partial file", with the lock or without it, and "true
\* after a crash": what the path names now, and what it would name if the
\* machine stopped now, was written in full.
ReaderSeesWhole ==
    /\ file # NoInode => data[file].whole
    /\ diskFile # NoInode => diskFile \in synced /\ data[diskFile].whole

\* "Two processes calling this concurrently each see the other's result rather
\* than overwriting it": as long as everybody got the lock and could read, no
\* entry whose update returned True is missing, nor, when its directory fsync
\* worked, would be missing after a machine crash.
NoUpdateLost ==
    clean => /\ acked # {} => file # NoInode /\ acked \subseteq data[file].entries
             /\ acked \cap durable # {} =>
                    /\ diskFile # NoInode
                    /\ acked \cap durable \subseteq data[diskFile].entries

\* "No scratch file survives a successful write": whatever the unlink of the
\* finally clause does, and after a machine crash if the directory fsync worked.
ScratchRemoved == \A w \in Writers \cap acked : tmp[w] = NoInode

\* Once there are calls of update_json, all of them come to an end, those that
\* wait for the lock included, whatever the others do, fail at, or die of while
\* they hold it.
EveryCallEnds ==
    (\E w \in Writers : pc[w] # "idle") ~> (\A w \in Writers : pc[w] \in Over)
=============================================================================
