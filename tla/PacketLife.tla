----------------------------- MODULE PacketLife -----------------------------
(***************************************************************************)
(* What change packets promise, seen from outside: every packet goes from  *)
(* draft to approved, to active, to complete, one stage at a time and never*)
(* back; and while the work for a set of changed files is open, no second  *)
(* packet is opened for the same files.                                    *)
(***************************************************************************)
CONSTANTS
  Ids,     \* the numbers of CHANGE-n
  Scopes,  \* sets of changed files
  None     \* no packet yet

Stages == {"draft", "approved", "active", "complete"}

VARIABLES stage,   \* stage[id], None before the packet exists
          about    \* about[id]: the changed files the packet is about

Open(scope) == {id \in Ids : stage[id] \in Stages \ {"complete"} /\ about[id] = scope}

Init == stage = [id \in Ids |-> None] /\ about = [id \in Ids |-> None]

\* supersession: draft and approved-incomplete packets are reused, a complete
\* one gets a successor.
Create(id, scope) ==
  /\ stage[id] = None
  /\ Open(scope) = {}
  /\ stage' = [stage EXCEPT ![id] = "draft"]
  /\ about' = [about EXCEPT ![id] = scope]

Advance(id, from, to) ==
  /\ stage[id] = from
  /\ stage' = [stage EXCEPT ![id] = to]
  /\ UNCHANGED about

Approve(id)  == Advance(id, "draft", "approved")
Activate(id) == Advance(id, "approved", "active")
Complete(id) == Advance(id, "active", "complete")

Next == \E id \in Ids :
  \/ \E scope \in Scopes : Create(id, scope)
  \/ Approve(id) \/ Activate(id) \/ Complete(id)

Spec == Init /\ [][Next]_<<stage, about>>
=============================================================================
