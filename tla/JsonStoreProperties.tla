------------------------ MODULE JsonStoreProperties ------------------------
(* What the JSON backend promises: SPEC I8 and C9, the locking note of      *)
(* store/json_store.py and the contract of core/storage.py.                 *)
EXTENDS JsonStore

PC == {"idle", "open", "flock", "read", "dump", "replace", "close"}

(* Between the return of flock and the close of the sidecar. *)
Critical == {"read", "dump", "replace", "close"}

TypeOK ==
  /\ file \in Collection
  /\ sidecar \in Inode \cup {None}
  /\ holder \in [Inode -> Proc \cup {None}]
  /\ pc \in [Proc -> PC]
  /\ fd \in [Proc -> Inode \cup {None}]
  /\ write \in [Proc -> Write \cup {None}]
  /\ rows \in [Proc -> Collection]
  /\ acked \subseteq Write

(* The read-check-rename of _read_document and _write_document is one       *)
(* critical section, crashes or not: what a process is about to rename over *)
(* the file was built from the very rows that are in it.                    *)
NoStaleRename ==
  \A p \in Proc :
    /\ pc[p] \in Critical => \A q \in Proc \ {p} : pc[q] \notin Critical
    /\ pc[p] \in {"dump", "replace"} => rows[p] = file /\ Accepts(write[p], file)

(* I8 and C9 for the attempts file: an append that returned is in the file, *)
(* no id is there twice and no two attempts that were acknowledged share one.     *)
NoLostAppend ==
  /\ \A w \in acked : \E i \in 1..Len(file) : file[i] = w.row
  /\ \A i, j \in 1..Len(file) : file[i].attempt_id = file[j].attempt_id => i = j
  /\ \A v, w \in acked : v.row.attempt_id = w.row.attempt_id => v = w

(* The file, the calls and their returns are those of the abstract store.   *)
ImplementsAtomicStore == Abstract!Spec

(* Nobody waits for ever for a lock: each write returns or raises, also     *)
(* when the holder of the lock dies.                                        *)
EveryWriteEnds == \A p \in Proc : (pc[p] # "idle") ~> (pc[p] = "idle")
=============================================================================
