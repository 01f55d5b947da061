----------------------------- MODULE AtomicBank -----------------------------
(***************************************************************************)
(* The contract of content/storage.py: a batch is written whole or not at  *)
(* all, a replacement swaps the questions of its material at one instant,  *)
(* and a refusal is for a reason that holds when it is given.              *)
(* content/memory.py is this specification without StorageError.           *)
(***************************************************************************)
EXTENDS BankOperations

VARIABLES
  materials,   \* the uploaded materials, with their topics
  table,       \* the questions
  request      \* what became of the call of each caller

vars == <<materials, table, request>>

Idle == [state |-> "idle"]
Asked(c) == [state |-> "asked", call |-> c]
Ended(c, outcome) == [state |-> "ended", call |-> c, outcome |-> outcome]

Init ==
  /\ materials = <<>>
  /\ table = {}
  /\ request = [t \in Caller |-> Idle]

(* MaterialStore.add: append only, one material under one topic. *)
Upload(m, topic) ==
  /\ m \notin DOMAIN materials
  /\ materials' = [x \in DOMAIN materials \cup {m} |-> IF x = m THEN topic ELSE materials[x]]
  /\ UNCHANGED <<table, request>>

Ask(t, c) ==
  /\ request[t] = Idle
  /\ request' = [request EXCEPT ![t] = Asked(c)]
  /\ UNCHANGED <<materials, table>>

(* t has made a call that has not ended. *)
Pending(t) == request[t].state = "asked"

(* The call takes effect.  StorageError does not say that it did not: the   *)
(* answer to the commit may be lost.                                        *)
Commit(t) ==
  /\ Pending(t)
  /\ LET c == request[t].call IN
       /\ Justified(c, materials, table) = {}
       /\ table' = Perform(c, t, table)
       /\ \E outcome \in {"ok", "StorageError"} :
            request' = [request EXCEPT ![t] = Ended(c, outcome)]
  /\ UNCHANGED materials

Refuse(t) ==
  /\ Pending(t)
  /\ LET c == request[t].call IN
       \E why \in Justified(c, materials, table) :
         request' = [request EXCEPT ![t] = Ended(c, why)]
  /\ UNCHANGED <<materials, table>>

Fail(t) ==
  /\ Pending(t)
  /\ request' = [request EXCEPT ![t] = Ended(request[t].call, "StorageError")]
  /\ UNCHANGED <<materials, table>>

Next ==
  \/ \E m \in Material, topic \in Topic : Upload(m, topic)
  \/ \E t \in Caller, c \in Calls : Ask(t, c)
  \/ \E t \in Caller : Commit(t) \/ Refuse(t) \/ Fail(t)

Spec == Init /\ [][Next]_vars
=============================================================================
