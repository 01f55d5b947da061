------------------------------ MODULE JsonStore ------------------------------
(***************************************************************************)
(* store/json_store.py: several processes write one JSON file.  A write    *)
(* locks the sidecar <name>.lock with flock, reads the whole file, checks, *)
(* writes a temporary file and renames it over the old one.  A process may *)
(* die between any two of these system calls; the kernel then closes its   *)
(* descriptors.  Reads take no lock and see the file as a whole.           *)
(*                                                                         *)
(* flock locks an inode, not a path.  The sidecar may be deleted when no    *)
(* process has it open; DeletableInUse says that it may at any time.        *)
(***************************************************************************)
EXTENDS StoreOperations

CONSTANTS
  Inode,                  \* inodes for the sidecar
  DeletableInUse          \* somebody may delete the sidecar while it is open

ASSUME LockAssumption == None \notin Inode /\ DeletableInUse \in BOOLEAN

VARIABLES
  file,        \* the rows of the JSON file; Nothing while there is no file
  sidecar,     \* the inode at the path of the sidecar, or None
  holder,      \* the process that holds the flock of each inode, or None
  pc,          \* the next system call of each process
  fd,          \* the inode each process has open, or None
  write,       \* the write each process is making, or None
  rows,        \* what each process read from the file
  acked        \* the writes that returned

vars == <<file, sidecar, holder, pc, fd, write, rows, acked>>

Init ==
  /\ file = Nothing
  /\ sidecar = None
  /\ holder = [i \in Inode |-> None]
  /\ pc = [p \in Proc |-> "idle"]
  /\ fd = [p \in Proc |-> None]
  /\ write = [p \in Proc |-> None]
  /\ rows = [p \in Proc |-> Nothing]
  /\ acked = {}

-----------------------------------------------------------------------------
Goto(p, from, to) == pc[p] = from /\ pc' = [pc EXCEPT ![p] = to]

(* Mutant: the descriptor is left open. *)
ReleaseWithoutClose(p) ==
  /\ write' = [write EXCEPT ![p] = None]
  /\ rows' = [rows EXCEPT ![p] = Nothing]
  /\ UNCHANGED <<holder, fd, sidecar>>

(* os.close, or the end of the process: the lock of p, if any, is free and  *)
(* p is idle.                                                               *)
Release(p) ==
  /\ holder' = [i \in Inode |-> IF holder[i] = p THEN None ELSE holder[i]]
  /\ fd' = [fd EXCEPT ![p] = None]
  /\ write' = [write EXCEPT ![p] = None]
  /\ rows' = [rows EXCEPT ![p] = Nothing]
  /\ UNCHANGED sidecar

Begin(p, w) ==
  /\ Goto(p, "idle", "open")
  /\ write' = [write EXCEPT ![p] = w]
  /\ UNCHANGED <<file, sidecar, holder, fd, rows, acked>>

(* os.open(lock_path, O_RDWR | O_CREAT) *)
OpenLock(p) ==
  /\ Goto(p, "open", "flock")
  /\ \E i \in Inode :
       /\ IF sidecar = None THEN \A q \in Proc : fd[q] # i ELSE i = sidecar
       /\ sidecar' = i
       /\ fd' = [fd EXCEPT ![p] = i]
  /\ UNCHANGED <<file, holder, write, rows, acked>>

(* Mutant: LOCK_SH for LOCK_EX. *)
FlockShared(p) ==
  /\ Goto(p, "flock", "read")
  /\ holder' = [holder EXCEPT ![fd[p]] = p]
  /\ UNCHANGED <<file, sidecar, fd, write, rows, acked>>

(* fcntl.flock(fd, LOCK_EX) returns; until then p waits. *)
Flock(p) ==
  /\ Goto(p, "flock", "read")
  /\ holder[fd[p]] = None
  /\ holder' = [holder EXCEPT ![fd[p]] = p]
  /\ UNCHANGED <<file, sidecar, fd, write, rows, acked>>

(* _read_document, then the checks of validate_attempt or of the lookup. *)
Read(p) ==
  /\ Goto(p, "read", "dump")
  /\ Accepts(write[p], file)
  /\ rows' = [rows EXCEPT ![p] = file]
  /\ UNCHANGED <<file, sidecar, holder, fd, write, acked>>

Refuse(p) ==
  /\ Goto(p, "read", "idle")
  /\ ~Accepts(write[p], file)
  /\ Release(p)
  /\ UNCHANGED <<file, acked>>

(* mkstemp, json.dump, flush, fsync *)
WriteTemporary(p) ==
  /\ Goto(p, "dump", "replace")
  /\ UNCHANGED <<file, sidecar, holder, fd, write, rows, acked>>

(* os.replace *)
Replace(p) ==
  /\ Goto(p, "replace", "close")
  /\ file' = Apply(write[p], rows[p])
  /\ UNCHANGED <<sidecar, holder, fd, write, rows, acked>>

Return(p) ==
  /\ Goto(p, "close", "idle")
  /\ acked' = acked \cup {write[p]}
  /\ Release(p)
  /\ UNCHANGED file

(* Mutant: the error is swallowed and the write reported as done. *)
FailsSilently(p) ==
  /\ pc[p] \in {"open", "flock", "read", "dump", "replace"}
  /\ Goto(p, pc[p], "idle")
  /\ acked' = acked \cup {write[p]}
  /\ Release(p)
  /\ UNCHANGED file

(* OSError from any of the calls up to os.replace becomes StorageError: the *)
(* temporary file is unlinked and the lock closed.                          *)
Fails(p) ==
  /\ pc[p] \in {"open", "flock", "read", "dump", "replace"}
  /\ Goto(p, pc[p], "idle")
  /\ Release(p)
  /\ UNCHANGED <<file, acked>>

(* The process dies.  A temporary file stays behind; nobody reads it. *)
Crash(p) ==
  /\ pc[p] # "idle"
  /\ Goto(p, pc[p], "idle")
  /\ Release(p)
  /\ UNCHANGED <<file, acked>>

DeleteLock ==
  /\ DeletableInUse \/ \A p \in Proc : fd[p] = None
  /\ sidecar # None
  /\ sidecar' = None
  /\ UNCHANGED <<file, holder, pc, fd, write, rows, acked>>

Step(p) ==
  OpenLock(p) \/ Flock(p) \/ Read(p) \/ Refuse(p) \/ WriteTemporary(p) \/ Replace(p) \/ Return(p)

Next ==
  \/ \E p \in Proc, w \in Write : Begin(p, w)
  \/ \E p \in Proc : Step(p) \/ Fails(p) \/ Crash(p)
  \/ DeleteLock

Spec == Init /\ [][Next]_vars

(* A process that can take a step eventually does; the kernel does not pass *)
(* over a waiter of flock for ever.  Nobody has to write, fail or crash.    *)
FairSpec ==
  /\ Spec
  /\ \A p \in Proc : WF_vars(Step(p)) /\ SF_vars(Flock(p))

-----------------------------------------------------------------------------
(* The store that the processes see: the rename is the write. *)
Request(p) ==
  CASE pc[p] = "idle"  -> [state |-> "idle"]
    [] pc[p] = "close" -> [state |-> "written", write |-> write[p]]
    [] OTHER           -> [state |-> "asked", write |-> write[p]]

Abstract ==
  INSTANCE AtomicStore WITH stored <- file, request <- [p \in Proc |-> Request(p)]
=============================================================================
