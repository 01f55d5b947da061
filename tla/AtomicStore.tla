----------------------------- MODULE AtomicStore -----------------------------
(***************************************************************************)
(* What core/storage.py promises of a store: a write happens at one        *)
(* instant or not at all, and a caller that is told it succeeded was told  *)
(* the truth (SPEC I8).  store/memory.py is this specification as it is:   *)
(* its write is one dictionary operation.  JsonStore implements it.        *)
(***************************************************************************)
EXTENDS StoreOperations

VARIABLES
  stored,      \* the collection
  request,     \* what each process is doing
  acked        \* the writes that were reported to have succeeded

vars == <<stored, request, acked>>

Idle == [state |-> "idle"]
Asked(write) == [state |-> "asked", write |-> write]
Written(write) == [state |-> "written", write |-> write]

Init ==
  /\ stored = Nothing
  /\ request = [p \in Proc |-> Idle]
  /\ acked = {}

Ask(p, write) ==
  /\ request[p] = Idle
  /\ request' = [request EXCEPT ![p] = Asked(write)]
  /\ UNCHANGED <<stored, acked>>

Commit(p, write) ==
  /\ request[p] = Asked(write)
  /\ Accepts(write, stored)
  /\ stored' = Apply(write, stored)
  /\ request' = [request EXCEPT ![p] = Written(write)]
  /\ UNCHANGED acked

Return(p, write) ==
  /\ request[p] = Written(write)
  /\ request' = [request EXCEPT ![p] = Idle]
  /\ acked' = acked \cup {write}
  /\ UNCHANGED stored

(* An exception (the write was refused, or StorageError) or the end of the  *)
(* process: nothing more happens for this write.                            *)
GiveUp(p) ==
  /\ request[p] # Idle
  /\ request' = [request EXCEPT ![p] = Idle]
  /\ UNCHANGED <<stored, acked>>

Next ==
  \E p \in Proc :
    \/ GiveUp(p)
    \/ \E write \in Write : Ask(p, write) \/ Commit(p, write) \/ Return(p, write)

Spec == Init /\ [][Next]_vars
=============================================================================
