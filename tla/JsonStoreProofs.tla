-------------------------- MODULE JsonStoreProofs --------------------------
(***************************************************************************)
(* Proofs about JsonStore, for any number of processes, inodes, writes and *)
(* profiles.  The argument: flock and close are the only steps that move   *)
(* the lock, the sidecar goes only while nobody has it open, so every      *)
(* process past flock holds the lock of the same inode; hence what it read is still in  *)
(* the file when it renames, and the rename is the atomic write of         *)
(* AtomicStore.                                                            *)
(***************************************************************************)
EXTENDS JsonStoreProperties, TLAPS

USE NoneAssumption, LockAssumption

-----------------------------------------------------------------------------
(* An accepted write leaves a collection of the same kind. *)
LEMMA ApplyTyped ==
  ASSUME NEW w \in Write, NEW s \in Collection, Accepts(w, s)
  PROVE  Apply(w, s) \in Collection
<1>1. CASE Write \subseteq AttemptWrite
  <2>1. PICK row \in Row : w = AppendAttempt(row)
    BY <1>1 DEF AttemptWrite
  <2>2. Apply(w, s) = Append(s, row)
    BY <2>1 DEF Apply, AppendAttempt
  <2>3. s \in Seq(Row)
    BY <1>1 DEF Collection, Attempts
  <2> QED BY <1>1, <2>2, <2>3 DEF Collection, Attempts
<1>2. CASE ~(Write \subseteq AttemptWrite)
  <2>1. w \in ProfileWrite /\ Collection = Profiles /\ s \in Profiles
    BY <1>2, CollectionAssumption DEF Collection
  <2>2. CASE \E p \in ProfileId, profile \in StoredProfile : w = SaveProfile(p, profile)
    BY <2>1, <2>2 DEF Apply, SaveProfile, Profiles
  <2>3. CASE \E p \in ProfileId, archived \in BOOLEAN : w = SetArchived(p, archived)
    <3>1. PICK p \in ProfileId, archived \in BOOLEAN : w = SetArchived(p, archived)
      BY <2>3
    <3>2. s[p] \in StoredProfile
      BY <2>1, <3>1 DEF Accepts, SetArchived, Profiles
    <3>3. Apply(w, s) = [s EXCEPT ![p].archived = archived]
      BY <3>1 DEF Apply, SetArchived
    <3> QED BY <2>1, <3>2, <3>3 DEF Profiles, StoredProfile
  <2>4. CASE \E p \in ProfileId, incoming \in Catalog : w = UpsertObjectives(p, incoming)
    <3>1. PICK p \in ProfileId, incoming \in Catalog : w = UpsertObjectives(p, incoming)
      BY <2>4
    <3>2. s[p] \in StoredProfile
      BY <2>1, <3>1 DEF Accepts, UpsertObjectives, Profiles
    <3>3. Apply(w, s) = [s EXCEPT ![p].objectives = Merged(s[p].objectives, incoming)]
      BY <2>1, <3>1, <3>2 DEF Apply, UpsertObjectives, Profiles, StoredProfile
    <3>4. Merged(s[p].objectives, incoming) \in Catalog
      BY <3>1, <3>2 DEF Merged, Catalog, StoredProfile
    <3> QED BY <2>1, <3>2, <3>3, <3>4 DEF Profiles, StoredProfile
  <2> QED BY <2>1, <2>2, <2>3, <2>4 DEF ProfileWrite
<1> QED BY <1>1, <1>2

-----------------------------------------------------------------------------
(* The type invariant is inductive together with the link between pc, write *)
(* and rows; nothing of this depends on the lock.                           *)
TypeInv ==
  /\ TypeOK
  /\ \A p \in Proc : pc[p] # "idle" => write[p] \in Write
  /\ \A p \in Proc : pc[p] \in {"dump", "replace"} => Accepts(write[p], rows[p])

LEMMA NothingTyped == Nothing \in Collection
<1>1. CASE Write \subseteq AttemptWrite
  <2>1. <<>> \in Seq(Row)
    OBVIOUS
  <2> QED BY <1>1, <2>1, CollectionAssumption DEF Collection, Attempts
<1>2. CASE ~(Write \subseteq AttemptWrite)
  BY <1>2, CollectionAssumption DEF Collection, Profiles
<1> QED BY <1>1, <1>2

(* After a step that ends a write of p, whatever ended it. *)
LEMMA ReleaseTyped ==
  ASSUME TypeInv, NEW p \in Proc, Release(p),
         pc' = [pc EXCEPT ![p] = "idle"], file' = file, acked' \subseteq Write
  PROVE  TypeInv'
BY NothingTyped DEF TypeInv, TypeOK, Release, PC

LEMMA TypeInvInitially == Init => TypeInv
BY NothingTyped DEF Init, TypeInv, TypeOK, PC

LEMMA TypeInvStep == TypeInv /\ [Next]_vars => TypeInv'
<1> SUFFICES ASSUME TypeInv, [Next]_vars PROVE TypeInv'
  OBVIOUS
<1>1. ASSUME NEW p \in Proc, NEW w \in Write, Begin(p, w) PROVE TypeInv'
  BY <1>1 DEF TypeInv, TypeOK, Begin, Goto, PC
<1>2. ASSUME NEW p \in Proc, OpenLock(p) PROVE TypeInv'
  BY <1>2 DEF TypeInv, TypeOK, OpenLock, Goto, PC
<1>3. ASSUME NEW p \in Proc, Flock(p) PROVE TypeInv'
  BY <1>3 DEF TypeInv, TypeOK, Flock, Goto, PC
<1>4. ASSUME NEW p \in Proc, Read(p) PROVE TypeInv'
  BY <1>4 DEF TypeInv, TypeOK, Read, Goto, PC
<1>5. ASSUME NEW p \in Proc, Refuse(p) PROVE TypeInv'
  BY <1>5, ReleaseTyped DEF TypeInv, TypeOK, Refuse, Goto
<1>6. ASSUME NEW p \in Proc, WriteTemporary(p) PROVE TypeInv'
  BY <1>6 DEF TypeInv, TypeOK, WriteTemporary, Goto, PC
<1>7. ASSUME NEW p \in Proc, Replace(p) PROVE TypeInv'
  <2>1. Apply(write[p], rows[p]) \in Collection
    BY <1>7, ApplyTyped DEF TypeInv, TypeOK, Replace, Goto
  <2> QED BY <1>7, <2>1 DEF TypeInv, TypeOK, Replace, Goto, PC
<1>8. ASSUME NEW p \in Proc, Return(p) PROVE TypeInv'
  BY <1>8, ReleaseTyped DEF TypeInv, TypeOK, Return, Goto
<1>9. ASSUME NEW p \in Proc, Fails(p) PROVE TypeInv'
  BY <1>9, ReleaseTyped DEF TypeInv, TypeOK, Fails, Goto
<1>10. ASSUME NEW p \in Proc, Crash(p) PROVE TypeInv'
  BY <1>10, ReleaseTyped DEF TypeInv, TypeOK, Crash, Goto
<1>11. ASSUME DeleteLock PROVE TypeInv'
  BY <1>11 DEF TypeInv, TypeOK, DeleteLock
<1>12. CASE UNCHANGED vars
  BY <1>12 DEF TypeInv, TypeOK, vars
<1> QED
  BY <1>1, <1>2, <1>3, <1>4, <1>5, <1>6, <1>7, <1>8, <1>9, <1>10, <1>11, <1>12
  DEF Next, Step

(* Every state of the JSON store is well typed, with or without a sidecar   *)
(* that disappears.                                                         *)
THEOREM JsonTypeCorrect == Spec => []TypeOK
<1>1. Spec => []TypeInv
  BY TypeInvInitially, TypeInvStep, PTL DEF Spec
<1>2. TypeInv => TypeOK
  BY DEF TypeInv
<1> QED BY <1>1, <1>2, PTL

-----------------------------------------------------------------------------
(* The lock.  A process past open has the inode of the sidecar open, and a  *)
(* process past flock holds it.                                             *)
LockInv ==
  /\ \A p \in Proc : pc[p] \in {"flock"} \cup Critical => fd[p] = sidecar /\ sidecar # None
  /\ \A p \in Proc : pc[p] \in Critical => holder[sidecar] = p
  /\ \A p \in Proc : pc[p] \in {"dump", "replace"} => rows[p] = file

IInv == TypeInv /\ LockInv

LEMMA OneHolder ==
  ASSUME LockInv, NEW p \in Proc, NEW q \in Proc, pc[p] \in Critical, pc[q] \in Critical
  PROVE  p = q
BY DEF LockInv

LEMMA ReleaseKeepsLock ==
  ASSUME IInv, NEW p \in Proc, Release(p),
         pc' = [pc EXCEPT ![p] = "idle"], file' = file
  PROVE  LockInv'
<1>1. ASSUME NEW q \in Proc \ {p} PROVE pc'[q] = pc[q] /\ fd'[q] = fd[q] /\ rows'[q] = rows[q]
  BY DEF IInv, TypeInv, TypeOK, Release
<1>2. pc'[p] = "idle"
  BY DEF IInv, TypeInv, TypeOK
<1>3. ASSUME NEW i \in Inode, holder[i] # p PROVE holder'[i] = holder[i]
  BY <1>3 DEF Release
<1>4. sidecar' = sidecar /\ sidecar \in Inode \cup {None}
  BY DEF IInv, TypeInv, TypeOK, Release
<1> QED BY <1>1, <1>2, <1>3, <1>4 DEF IInv, LockInv, Critical

LEMMA LockInvStep ==
  ASSUME ~DeletableInUse, IInv, [Next]_vars
  PROVE  LockInv'
<1> USE DEF IInv, TypeInv, TypeOK, LockInv, Critical
<1>1. ASSUME NEW p \in Proc, NEW w \in Write, Begin(p, w) PROVE LockInv'
  BY <1>1 DEF Begin, Goto
<1>2. ASSUME NEW p \in Proc, OpenLock(p) PROVE LockInv'
  BY <1>2 DEF OpenLock, Goto
<1>3. ASSUME NEW p \in Proc, Flock(p) PROVE LockInv'
  BY <1>3 DEF Flock, Goto
<1>4. ASSUME NEW p \in Proc, Read(p) PROVE LockInv'
  BY <1>4 DEF Read, Goto
<1>5. ASSUME NEW p \in Proc, Refuse(p) PROVE LockInv'
  BY <1>5, ReleaseKeepsLock DEF Refuse, Goto
<1>6. ASSUME NEW p \in Proc, WriteTemporary(p) PROVE LockInv'
  BY <1>6 DEF WriteTemporary, Goto
<1>7. ASSUME NEW p \in Proc, Replace(p) PROVE LockInv'
  <2>1. \A q \in Proc \ {p} : pc[q] \notin Critical
    BY <1>7, OneHolder DEF Replace, Goto
  <2> QED BY <1>7, <2>1 DEF Replace, Goto
<1>8. ASSUME NEW p \in Proc, Return(p) PROVE LockInv'
  BY <1>8, ReleaseKeepsLock DEF Return, Goto
<1>9. ASSUME NEW p \in Proc, Fails(p) PROVE LockInv'
  BY <1>9, ReleaseKeepsLock DEF Fails, Goto
<1>10. ASSUME NEW p \in Proc, Crash(p) PROVE LockInv'
  BY <1>10, ReleaseKeepsLock DEF Crash, Goto
<1>11. CASE DeleteLock
  BY <1>11 DEF DeleteLock
<1>12. CASE UNCHANGED vars
  BY <1>12 DEF vars
<1> QED
  BY <1>1, <1>2, <1>3, <1>4, <1>5, <1>6, <1>7, <1>8, <1>9, <1>10, <1>11, <1>12
  DEF Next, Step

LEMMA IInvAlways ==
  ASSUME ~DeletableInUse
  PROVE  Spec => []IInv
<1>1. Init => IInv
  BY TypeInvInitially DEF IInv, Init, LockInv, Critical
<1>2. IInv /\ [Next]_vars => IInv'
  BY TypeInvStep, LockInvStep DEF IInv
<1> QED BY <1>1, <1>2, PTL DEF Spec

(* Unless the sidecar is deleted while it is open, the document that is     *)
(* renamed over the file was built from what the file contains just then.   *)
THEOREM NoRenameIsStale ==
  ASSUME ~DeletableInUse
  PROVE  Spec => []NoStaleRename
<1>1. IInv => NoStaleRename
  BY OneHolder DEF IInv, TypeInv, LockInv, NoStaleRename
<1> QED BY <1>1, IInvAlways, PTL

-----------------------------------------------------------------------------
(* The refinement: Begin asks, Replace commits, Return returns, and every   *)
(* other way to idle gives up.                                              *)

(* A step of p that leaves the others alone changes the request of p only. *)
LEMMA RequestOfOne ==
  ASSUME TypeInv, NEW p \in Proc,
         \A q \in Proc \ {p} : pc'[q] = pc[q] /\ write'[q] = write[q],
         NEW r, r = Request(p)'
  PROVE  [q \in Proc |-> Request(q)'] = [[q \in Proc |-> Request(q)] EXCEPT ![p] = r]
BY DEF Request

LEMMA GiveUpRefined ==
  ASSUME TypeInv, NEW p \in Proc, Release(p), pc[p] # "idle",
         pc' = [pc EXCEPT ![p] = "idle"], file' = file, acked' = acked
  PROVE  Abstract!GiveUp(p)
<1>1. \A q \in Proc \ {p} : pc'[q] = pc[q] /\ write'[q] = write[q]
  BY DEF TypeInv, TypeOK, Release
<1>2. Request(p)' = [state |-> "idle"]
  BY DEF TypeInv, TypeOK, Request
<1>3. Request(p) # [state |-> "idle"]
  BY DEF TypeInv, TypeOK, Request, PC
<1> QED BY <1>1, <1>2, <1>3, RequestOfOne DEF Abstract!GiveUp, Abstract!Idle

LEMMA StutterRefined ==
  ASSUME TypeInv, NEW p \in Proc, NEW from, NEW to, Goto(p, from, to),
         from \in {"open", "flock", "read", "dump"}, to \in {"flock", "read", "dump", "replace"},
         file' = file, write' = write, acked' = acked
  PROVE  UNCHANGED Abstract!vars
<1>1. \A q \in Proc : Request(q)' = Request(q)
  BY DEF TypeInv, TypeOK, Goto, Request
<1> QED BY <1>1 DEF Abstract!vars

(* Both specifications take StoreOperations with the same constants. *)
LEMMA SameWrites ==
  ASSUME NEW w, NEW s
  PROVE  /\ Abstract!Accepts(w, s) <=> Accepts(w, s)
         /\ Abstract!Apply(w, s) = Apply(w, s)
BY DEF Abstract!Accepts, Accepts, Abstract!Apply, Apply,
       Abstract!Ids, Ids, Abstract!Merged, Merged

LEMMA StepRefined ==
  ASSUME IInv, [Next]_vars
  PROVE  [Abstract!Next]_(Abstract!vars)
<1> USE DEF IInv
<1>1. ASSUME NEW p \in Proc, NEW w \in Write, Begin(p, w) PROVE Abstract!Ask(p, w)
  <2>1. \A q \in Proc \ {p} : pc'[q] = pc[q] /\ write'[q] = write[q]
    BY <1>1 DEF TypeInv, TypeOK, Begin, Goto
  <2>2. Request(p) = [state |-> "idle"] /\ Request(p)' = [state |-> "asked", write |-> w]
    BY <1>1 DEF TypeInv, TypeOK, Begin, Goto, Request
  <2> QED
    BY <1>1, <2>1, <2>2, RequestOfOne DEF Begin, Abstract!Ask, Abstract!Idle, Abstract!Asked
<1>2. ASSUME NEW p \in Proc, OpenLock(p) PROVE UNCHANGED Abstract!vars
  BY <1>2, StutterRefined DEF OpenLock
<1>3. ASSUME NEW p \in Proc, Flock(p) PROVE UNCHANGED Abstract!vars
  BY <1>3, StutterRefined DEF Flock
<1>4. ASSUME NEW p \in Proc, Read(p) PROVE UNCHANGED Abstract!vars
  BY <1>4, StutterRefined DEF Read
<1>5. ASSUME NEW p \in Proc, Refuse(p) PROVE Abstract!GiveUp(p)
  BY <1>5, GiveUpRefined DEF Refuse, Goto
<1>6. ASSUME NEW p \in Proc, WriteTemporary(p) PROVE UNCHANGED Abstract!vars
  BY <1>6, StutterRefined DEF WriteTemporary
<1>7. ASSUME NEW p \in Proc, Replace(p)
      PROVE  write[p] \in Write /\ Abstract!Commit(p, write[p])
  <2>1. \A q \in Proc \ {p} : pc'[q] = pc[q] /\ write'[q] = write[q]
    BY <1>7 DEF TypeInv, TypeOK, Replace, Goto
  <2>2. /\ Request(p) = [state |-> "asked", write |-> write[p]]
        /\ Request(p)' = [state |-> "written", write |-> write[p]]
    BY <1>7 DEF TypeInv, TypeOK, Replace, Goto, Request
  <2>3. write[p] \in Write /\ rows[p] = file /\ Accepts(write[p], file)
    BY <1>7 DEF TypeInv, LockInv, Replace, Goto
  <2> QED
    BY <1>7, <2>1, <2>2, <2>3, RequestOfOne, SameWrites
    DEF Replace, Abstract!Commit, Abstract!Asked, Abstract!Written
<1>8. ASSUME NEW p \in Proc, Return(p)
      PROVE  write[p] \in Write /\ Abstract!Return(p, write[p])
  <2>1. \A q \in Proc \ {p} : pc'[q] = pc[q] /\ write'[q] = write[q]
    BY <1>8 DEF TypeInv, TypeOK, Return, Release, Goto
  <2>2. /\ Request(p) = [state |-> "written", write |-> write[p]]
        /\ Request(p)' = [state |-> "idle"]
    BY <1>8 DEF TypeInv, TypeOK, Return, Goto, Request
  <2>3. write[p] \in Write
    BY <1>8 DEF TypeInv, Return, Goto
  <2> QED
    BY <1>8, <2>1, <2>2, <2>3, RequestOfOne
    DEF Return, Abstract!Return, Abstract!Idle, Abstract!Written
<1>9. ASSUME NEW p \in Proc, Fails(p) PROVE Abstract!GiveUp(p)
  BY <1>9, GiveUpRefined DEF Fails, Goto
<1>10. ASSUME NEW p \in Proc, Crash(p) PROVE Abstract!GiveUp(p)
  BY <1>10, GiveUpRefined DEF Crash, Goto
<1>11. CASE DeleteLock \/ UNCHANGED vars
  BY <1>11 DEF DeleteLock, vars, Abstract!vars, Request
<1> QED
  BY <1>1, <1>2, <1>3, <1>4, <1>5, <1>6, <1>7, <1>8, <1>9, <1>10, <1>11
  DEF Next, Step, Abstract!Next

(* The JSON store is an atomic store: its processes see a collection that   *)
(* each write changes at one instant, wherever they are interrupted.        *)
THEOREM JsonStoreIsAtomic ==
  ASSUME ~DeletableInUse
  PROVE  Spec => ImplementsAtomicStore
<1>1. Init => Abstract!Init
  BY DEF Init, Abstract!Init, Abstract!Idle, Request
<1> QED
  BY <1>1, StepRefined, IInvAlways, PTL DEF Spec, ImplementsAtomicStore, Abstract!Spec

-----------------------------------------------------------------------------
(* The attempts file.  NoLostAppend becomes inductive when the appends that *)
(* were renamed into place but have not returned yet are added.             *)
Holds(rs, w) == \E i \in 1..Len(rs) : rs[i] = w.row

UniqueIds(rs) == \A i, j \in 1..Len(rs) : rs[i].attempt_id = rs[j].attempt_id => i = j

AppendInv ==
  /\ \A w \in acked : Holds(file, w)
  /\ \A p \in Proc : pc[p] = "close" => Holds(file, write[p])
  /\ UniqueIds(file)

LEMMA AppendOne ==
  ASSUME Write \subseteq AttemptWrite,
         NEW rs \in Collection, NEW w \in Write, Accepts(w, rs)
  PROVE  /\ Holds(Apply(w, rs), w)
         /\ \A v \in Write : Holds(rs, v) => Holds(Apply(w, rs), v)
         /\ UniqueIds(rs) => UniqueIds(Apply(w, rs))
<1>1. PICK row \in Row : w = AppendAttempt(row)
  BY DEF AttemptWrite
<1>2. w.row = row /\ Apply(w, rs) = Append(rs, row)
  BY <1>1 DEF Apply, AppendAttempt
<1>3. \A i \in 1..Len(rs) : rs[i].attempt_id # row.attempt_id
  BY <1>1 DEF Accepts, Ids, AppendAttempt
<1>4. rs \in Seq(Row)
  BY DEF Collection, Attempts
<1>5. /\ Len(Append(rs, row)) = Len(rs) + 1 /\ Len(rs) \in Nat
      /\ Append(rs, row)[Len(rs) + 1] = row
      /\ \A i \in 1..Len(rs) : Append(rs, row)[i] = rs[i]
  BY <1>4
<1>6. Holds(Apply(w, rs), w)
  BY <1>2, <1>5 DEF Holds
<1>7. ASSUME NEW v \in Write, Holds(rs, v) PROVE Holds(Apply(w, rs), v)
  BY <1>2, <1>5, <1>7 DEF Holds
<1>8. ASSUME UniqueIds(rs) PROVE UniqueIds(Apply(w, rs))
  BY <1>2, <1>3, <1>5, <1>8 DEF UniqueIds
<1> QED BY <1>6, <1>7, <1>8

LEMMA ReleaseKeepsAppends ==
  ASSUME TypeInv, AppendInv, NEW p \in Proc, Release(p),
         pc' = [pc EXCEPT ![p] = "idle"], file' = file, \A w \in acked' : Holds(file, w)
  PROVE  AppendInv'
<1>1. \A q \in Proc \ {p} : pc'[q] = pc[q] /\ write'[q] = write[q]
  BY DEF TypeInv, TypeOK, Release
<1>2. pc'[p] = "idle"
  BY DEF TypeInv, TypeOK
<1> QED BY <1>1, <1>2 DEF AppendInv, Holds, UniqueIds

LEMMA AppendInvStep ==
  ASSUME Write \subseteq AttemptWrite, IInv, AppendInv, [Next]_vars
  PROVE  AppendInv'
<1> USE DEF IInv
<1>1. ASSUME NEW p \in Proc, NEW from, NEW to, Goto(p, from, to), to # "close",
             file' = file, acked' = acked, \A q \in Proc \ {p} : write'[q] = write[q]
      PROVE  AppendInv'
  BY <1>1 DEF TypeInv, TypeOK, AppendInv, Goto, Holds, UniqueIds
<1>2. ASSUME NEW p \in Proc, NEW w \in Write, Begin(p, w) PROVE AppendInv'
  BY <1>1, <1>2 DEF Begin, TypeInv, TypeOK
<1>3. ASSUME NEW p \in Proc, OpenLock(p) \/ Flock(p) \/ Read(p) \/ WriteTemporary(p)
      PROVE  AppendInv'
  BY <1>1, <1>3 DEF OpenLock, Flock, Read, WriteTemporary
<1>4. ASSUME NEW p \in Proc, Refuse(p) \/ Fails(p) \/ Crash(p) PROVE AppendInv'
  BY <1>4, ReleaseKeepsAppends DEF Refuse, Fails, Crash, Goto, AppendInv
<1>5. ASSUME NEW p \in Proc, Replace(p) PROVE AppendInv'
  <2>1. file' = Apply(write[p], file) /\ Accepts(write[p], file)
    BY <1>5 DEF Replace, Goto, TypeInv, LockInv
  <2>2. write[p] \in Write /\ file \in Collection /\ acked \subseteq Write
    BY <1>5 DEF TypeInv, TypeOK, Replace, Goto
  <2>3. /\ Holds(file', write[p]) /\ UniqueIds(file')
        /\ \A v \in Write : Holds(file, v) => Holds(file', v)
    BY <2>1, <2>2, AppendOne DEF AppendInv
  <2>4. \A q \in Proc \ {p} : pc'[q] = pc[q]
    BY <1>5 DEF Replace, Goto, TypeInv, TypeOK
  <2>5. write' = write /\ acked' = acked
    BY <1>5 DEF Replace
  <2>6. \A q \in Proc : pc'[q] = "close" => Holds(file', write[q])
    BY <2>2, <2>3, <2>4 DEF TypeInv, AppendInv
  <2> QED BY <2>2, <2>3, <2>5, <2>6 DEF AppendInv
<1>6. ASSUME NEW p \in Proc, Return(p) PROVE AppendInv'
  <2>1. \A w \in acked' : Holds(file, w)
    BY <1>6 DEF Return, Goto, AppendInv
  <2> QED BY <1>6, <2>1, ReleaseKeepsAppends DEF Return, Goto
<1>7. CASE DeleteLock \/ UNCHANGED vars
  BY <1>7 DEF DeleteLock, vars, AppendInv, Holds, UniqueIds
<1> QED BY <1>2, <1>3, <1>4, <1>5, <1>6, <1>7 DEF Next, Step

(* I8: an append that returned is in the attempts file ever after, once.    *)
THEOREM NoAppendIsLost ==
  ASSUME ~DeletableInUse, Write \subseteq AttemptWrite
  PROVE  Spec => []NoLostAppend
<1>1. Init => AppendInv
  BY CollectionAssumption DEF Init, AppendInv, UniqueIds
<1>2. IInv /\ AppendInv /\ [Next]_vars => AppendInv'
  BY AppendInvStep
<1>3. IInv /\ AppendInv => NoLostAppend
  <2> SUFFICES ASSUME IInv, AppendInv PROVE NoLostAppend
    OBVIOUS
  <2>1. ASSUME NEW v \in acked, NEW w \in acked, v.row.attempt_id = w.row.attempt_id
        PROVE  v = w
    <3>1. v \in AttemptWrite /\ w \in AttemptWrite
      BY DEF IInv, TypeInv, TypeOK
    <3>2. v.row = w.row
      BY <2>1 DEF AppendInv, Holds, UniqueIds
    <3> QED BY <3>1, <3>2 DEF AttemptWrite, AppendAttempt
  <2> QED BY <2>1 DEF NoLostAppend, AppendInv, Holds, UniqueIds
<1> QED BY <1>1, <1>2, <1>3, IInvAlways, PTL DEF Spec
=============================================================================
