-------------------------- MODULE ChangePackets_proofs --------------------------
(* Theorems about ChangePackets, checked by TLAPS: its types, and what a     *)
(* single approver can rely on.                                              *)
EXTENDS ChangePackets, TLAPS

-----------------------------------------------------------------------------
(* The type invariant.                                                       *)

Rows      == {None, "queued", "ready", "complete"}
Approvals == [stamp : Stamps, impact : Contracts, plan : Contracts]

\* `at` and `mem` are functions, and each command is at a step of its own.
Shapes ==
  /\ packets \in [Ids -> Packet \cup {None}]
  /\ at = [p \in Processes |-> at[p]] /\ mem = [p \in Processes |-> mem[p]]
  /\ \A r \in Runners : at[r] \in {"idle", "number", "create", "plan", "impact"}
  /\ \A a \in Approvers : at[a] \in {"idle", "identity", "state", "activate", "rows"}
  /\ \A b \in Builders : at[b] \in {"idle", "complete", "artifact"}

Counts ==
  /\ drift \in Scopes /\ source \in Sources
  /\ contract \in Contracts /\ crashes \in 0 .. MaxCrashes

\* What a command remembers of a packet that is there.
RunMemory(r) ==
  /\ at[r] # "idle" => mem[r].scope \in Scopes /\ mem[r].derived \in Contracts
  /\ at[r] \in {"plan", "impact"} => mem[r].id \in Present
ApproveMemory(a) ==
  /\ at[a] # "idle" => mem[a].id \in Present
  /\ at[a] \in {"identity", "state"} => mem[a].stamp \in Stamps
  /\ at[a] = "identity" => mem[a].identity \in Approvals
  /\ at[a] = "rows" => mem[a].rows \in Rows
BuildMemory(b) == at[b] # "idle" => mem[b].id \in Present

Memories ==
  /\ \A r \in Runners : RunMemory(r)
  /\ \A a \in Approvers : ApproveMemory(a)
  /\ \A b \in Builders : BuildMemory(b)

Typed == Shapes /\ Counts /\ Memories

\* A command goes on, and the others stay where they are.
LEMMA GotoEffect ==
  ASSUME Shapes, NEW p \in Processes, NEW step, NEW m, Goto(p, step, m)
  PROVE  /\ at' = [q \in Processes |-> at'[q]] /\ mem' = [q \in Processes |-> mem'[q]]
         /\ at'[p] = step /\ mem'[p] = m
         /\ \A q \in Processes \ {p} : at'[q] = at[q] /\ mem'[q] = mem[q]
BY DEF Shapes, Goto

\* A write changes one packet, and none disappears.
LEMMA WriteEffect ==
  ASSUME Shapes, NEW id \in Ids, NEW new \in Packet, Write(id, new)
  PROVE  /\ packets' \in [Ids -> Packet \cup {None}]
         /\ packets'[id] = new /\ \A j \in Ids \ {id} : packets'[j] = packets[j]
         /\ Present' = Present \cup {id}
<1>1. packets' = [packets EXCEPT ![id] = new]
  BY DEF Write
<1>2. /\ packets' \in [Ids -> Packet \cup {None}]
      /\ packets'[id] = new /\ \A j \in Ids \ {id} : packets'[j] = packets[j]
  BY <1>1 DEF Shapes
<1> QED
  BY <1>2, NoneAssumption DEF Present

\* A packet that is there is one.
LEMMA PresentIsPacket == ASSUME Shapes, NEW id \in Present PROVE id \in Ids /\ packets[id] \in Packet
BY DEF Shapes, Present

\* The beginning has the types.
LEMMA InitTyped == Init => Typed
<1> SUFFICES ASSUME Init PROVE Typed
  OBVIOUS
<1>1. Shapes
  BY DEF Init, Shapes, Processes
<1>2. Counts
  BY CountAssumption DEF Init, Counts, Sources, Contracts
<1>3. Memories
  BY DEF Init, Memories, RunMemory, ApproveMemory, BuildMemory, Processes
<1> QED
  BY <1>1, <1>2, <1>3 DEF Typed

\* A step of one command that writes no packet keeps the types, if what it
\* remembers has them.
LEMMA MoveTyped ==
  ASSUME Typed, UNCHANGED packets, Counts', NEW p \in Processes, NEW step, NEW m, Goto(p, step, m),
         p \in Runners => step \in {"idle", "number", "create", "plan", "impact"} /\ RunMemory(p)',
         p \in Approvers => step \in {"idle", "identity", "state", "activate", "rows"} /\ ApproveMemory(p)',
         p \in Builders => step \in {"idle", "complete", "artifact"} /\ BuildMemory(p)'
  PROVE  Typed'
<1>1. /\ at' = [q \in Processes |-> at'[q]] /\ mem' = [q \in Processes |-> mem'[q]]
      /\ at'[p] = step /\ mem'[p] = m
      /\ \A q \in Processes \ {p} : at'[q] = at[q] /\ mem'[q] = mem[q]
  BY GotoEffect DEF Typed
<1>2. Shapes'
  BY <1>1 DEF Typed, Shapes, Processes
<1>3. Present' = Present
  BY DEF Present
<1>4. Memories'
  BY <1>1, <1>3 DEF Typed, Memories, RunMemory, ApproveMemory, BuildMemory, Processes
<1> QED
  BY <1>2, <1>4 DEF Typed

\* So does one that writes a packet.
LEMMA WriteTyped ==
  ASSUME Typed, NEW id \in Ids, NEW new \in Packet, Write(id, new), Counts',
         NEW p \in Processes, NEW step, NEW m, Goto(p, step, m),
         p \in Runners => step \in {"idle", "number", "create", "plan", "impact"} /\ RunMemory(p)',
         p \in Approvers => step \in {"idle", "identity", "state", "activate", "rows"} /\ ApproveMemory(p)',
         p \in Builders => step \in {"idle", "complete", "artifact"} /\ BuildMemory(p)'
  PROVE  Typed'
<1>1. /\ at' = [q \in Processes |-> at'[q]] /\ mem' = [q \in Processes |-> mem'[q]]
      /\ at'[p] = step /\ mem'[p] = m
      /\ \A q \in Processes \ {p} : at'[q] = at[q] /\ mem'[q] = mem[q]
  BY GotoEffect DEF Typed
<1>2. packets' \in [Ids -> Packet \cup {None}] /\ Present \subseteq Present'
  BY WriteEffect DEF Typed
<1>3. Shapes'
  BY <1>1, <1>2 DEF Typed, Shapes, Processes
<1>4. Memories'
  BY <1>1, <1>2 DEF Typed, Memories, RunMemory, ApproveMemory, BuildMemory, Processes
<1> QED
  BY <1>3, <1>4 DEF Typed

\* `run` keeps the types.
LEMMA RunTyped ==
  ASSUME Typed, NEW r \in Runners, Run(r)
  PROVE  Typed'
<1> USE DEF Typed
<1>0. r \in Processes /\ r \notin Approvers /\ r \notin Builders /\ RunMemory(r)
  BY ProcessAssumption DEF Processes, Memories
<1>1. CASE RunSelect(r)
  <2> DEFINE m == [scope |-> drift, derived |-> contract]
  <2>1. Goto(r, "number", m) /\ UNCHANGED packets /\ Counts'
    BY <1>1 DEF RunSelect, Counts
  <2>2. RunMemory(r)'
    BY <1>0, <2>1, GotoEffect DEF RunMemory, Counts
  <2> QED
    BY <1>0, <2>1, <2>2, MoveTyped
<1>2. CASE RunNumber(r)
  <2> DEFINE m == [scope |-> mem[r].scope, derived |-> mem[r].derived, id |-> 1 + Max(Present \cup {0})]
  <2>1. UNCHANGED packets /\ Counts' /\ (Goto(r, "create", m) \/ Goto(r, "idle", None))
    BY <1>2 DEF RunNumber, End, Counts
  <2>2. CASE Goto(r, "create", m)
    <3>1. RunMemory(r)'
      BY <1>0, <1>2, <2>2, GotoEffect DEF RunMemory, RunNumber
    <3> QED
      BY <1>0, <2>1, <2>2, <3>1, MoveTyped
  <2>3. CASE Goto(r, "idle", None)
    <3>1. RunMemory(r)'
      BY <1>0, <2>3, GotoEffect DEF RunMemory
    <3> QED
      BY <1>0, <2>1, <2>3, <3>1, MoveTyped
  <2> QED
    BY <2>1, <2>2, <2>3
<1>3. CASE RunCreate(r)
  <2> DEFINE new == [scope |-> mem[r].scope, state |-> "draft", stamp |-> None, rows |-> None,
                     plan |-> None, impact |-> None, approval |-> None, built |-> None]
  <2>1. Counts' /\ mem[r].id \in Ids
    BY <1>3 DEF RunCreate, Counts
  <2>2. CASE Write(mem[r].id, new) /\ Goto(r, "plan", mem[r])
    <3>1. new \in Packet
      BY <1>0, <1>3 DEF RunMemory, RunCreate, Packet
    <3> HIDE DEF new
    <3>2. RunMemory(r)'
      BY <1>0, <1>3, <2>1, <2>2, <3>1, GotoEffect, WriteEffect DEF RunMemory, RunCreate
    <3> QED
      BY <1>0, <2>1, <2>2, <3>1, <3>2, WriteTyped
  <2>3. CASE UNCHANGED packets /\ Goto(r, "idle", None)
    <3>1. RunMemory(r)'
      BY <1>0, <2>3, GotoEffect DEF RunMemory
    <3> QED
      BY <1>0, <2>1, <2>3, <3>1, MoveTyped
  <2> QED
    BY <1>3, <2>2, <2>3 DEF RunCreate, End
<1>4. CASE RunPlan(r)
  <2> DEFINE id == mem[r].id
             new == [packets[id] EXCEPT !.rows = "queued", !.plan = mem[r].derived]
  <2>1. Counts' /\ id \in Present /\ id \in Ids /\ packets[id] \in Packet
    BY <1>0, <1>4, PresentIsPacket DEF RunPlan, Counts, RunMemory
  <2>2. CASE Write(id, new) /\ Goto(r, "impact", mem[r])
    <3>1. new \in Packet
      BY <1>0, <1>4, <2>1 DEF RunMemory, RunPlan, Packet
    <3> HIDE DEF new
    <3>2. RunMemory(r)'
      BY <1>0, <1>4, <2>1, <2>2, <3>1, GotoEffect, WriteEffect DEF RunMemory, RunPlan
    <3> QED
      BY <1>0, <2>1, <2>2, <3>1, <3>2, WriteTyped
  <2>3. CASE UNCHANGED packets /\ Goto(r, "idle", None)
    <3>1. RunMemory(r)'
      BY <1>0, <2>3, GotoEffect DEF RunMemory
    <3> QED
      BY <1>0, <2>1, <2>3, <3>1, MoveTyped
  <2> QED
    BY <1>4, <2>2, <2>3 DEF RunPlan, End
<1>5. CASE RunImpact(r)
  <2> DEFINE id == mem[r].id
             new == [packets[id] EXCEPT !.impact = mem[r].derived]
  <2>1. Counts' /\ id \in Ids /\ packets[id] \in Packet
    BY <1>0, <1>5, PresentIsPacket DEF RunImpact, Counts, RunMemory
  <2>2. new \in Packet
    BY <1>0, <1>5, <2>1 DEF RunMemory, RunImpact, Packet
  <2> HIDE DEF new
  <2>3. Write(id, new) /\ Goto(r, "idle", None)
    BY <1>5 DEF RunImpact, End, new
  <2>4. RunMemory(r)'
    BY <1>0, <2>3, GotoEffect DEF RunMemory
  <2> QED
    BY <1>0, <2>1, <2>2, <2>3, <2>4, WriteTyped
<1> QED
  BY <1>1, <1>2, <1>3, <1>4, <1>5 DEF Run

\* `approve-change` keeps the types.
LEMMA ApproveTyped ==
  ASSUME Typed, NEW a \in Approvers, Approve(a)
  PROVE  Typed'
<1> USE DEF Typed
<1>0. a \in Processes /\ a \notin Runners /\ a \notin Builders /\ ApproveMemory(a)
  BY ProcessAssumption DEF Processes, Memories
<1> DEFINE id == mem[a].id
<1>1. ASSUME NEW i \in Ids, NEW stamp \in Stamps, ApproveRead(a, i, stamp) PROVE Typed'
  <2> DEFINE short == [id |-> i, stamp |-> stamp]
             long  == [id |-> i, stamp |-> stamp,
                       identity |-> [stamp |-> stamp, impact |-> contract, plan |-> contract]]
  <2>1. UNCHANGED packets /\ Counts' /\ i \in Present
    BY <1>1 DEF ApproveRead, Counts
  <2>2. Present' = Present
    BY <2>1 DEF Present
  <2>3. CASE Goto(a, "state", short)
    <3>1. ApproveMemory(a)'
      BY <1>0, <2>1, <2>2, <2>3, GotoEffect DEF ApproveMemory
    <3> QED
      BY <1>0, <2>1, <2>3, <3>1, MoveTyped
  <2>4. CASE Goto(a, "identity", long)
    <3>1. ApproveMemory(a)'
      BY <1>0, <2>1, <2>2, <2>4, GotoEffect DEF ApproveMemory, Counts, Approvals
    <3> QED
      BY <1>0, <2>1, <2>4, <3>1, MoveTyped
  <2> QED
    BY <1>1, <2>3, <2>4 DEF ApproveRead
<1>2. CASE ApproveIdentity(a)
  <2> DEFINE new == [packets[id] EXCEPT !.approval = mem[a].identity]
  <2>1. Counts' /\ id \in Present /\ id \in Ids /\ packets[id] \in Packet
    BY <1>0, <1>2, PresentIsPacket DEF ApproveIdentity, Counts, ApproveMemory
  <2>2. new \in Packet
    BY <1>0, <1>2, <2>1 DEF ApproveMemory, ApproveIdentity, Packet, Approvals
  <2> HIDE DEF new
  <2>3. Write(id, new) /\ Goto(a, "state", mem[a])
    BY <1>2 DEF ApproveIdentity, new
  <2>4. ApproveMemory(a)'
    BY <1>0, <1>2, <2>1, <2>2, <2>3, GotoEffect, WriteEffect DEF ApproveMemory, ApproveIdentity
  <2> QED
    BY <1>0, <2>1, <2>2, <2>3, <2>4, WriteTyped
<1>3. CASE ApproveState(a)
  <2> DEFINE new == [packets[id] EXCEPT !.state = "approved", !.stamp = mem[a].stamp]
  <2>1. Counts' /\ id \in Present /\ id \in Ids /\ packets[id] \in Packet
    BY <1>0, <1>3, PresentIsPacket DEF ApproveState, Counts, ApproveMemory
  <2>2. new \in Packet
    BY <1>0, <1>3, <2>1 DEF ApproveMemory, ApproveState, Packet
  <2> HIDE DEF new
  <2>3. Write(id, new) /\ Goto(a, "activate", mem[a])
    BY <1>3 DEF ApproveState, new
  <2>4. ApproveMemory(a)'
    BY <1>0, <1>3, <2>1, <2>2, <2>3, GotoEffect, WriteEffect DEF ApproveMemory, ApproveState
  <2> QED
    BY <1>0, <2>1, <2>2, <2>3, <2>4, WriteTyped
<1>4. CASE ActivateRead(a)
  <2> DEFINE m == [id |-> id, rows |-> packets[id].rows]
  <2>1. Counts' /\ UNCHANGED packets /\ id \in Present /\ packets[id] \in Packet
    BY <1>0, <1>4, PresentIsPacket DEF ActivateRead, Counts, ApproveMemory
  <2>2. Present' = Present
    BY <2>1 DEF Present
  <2>3. packets[id].rows \in Rows
    BY <2>1 DEF Packet, Rows
  <2>4. CASE Goto(a, "rows", m)
    <3>1. ApproveMemory(a)'
      BY <1>0, <2>1, <2>2, <2>3, <2>4, GotoEffect DEF ApproveMemory
    <3> QED
      BY <1>0, <2>1, <2>4, <3>1, MoveTyped
  <2>5. CASE Goto(a, "idle", None)
    <3>1. ApproveMemory(a)'
      BY <1>0, <2>5, GotoEffect DEF ApproveMemory
    <3> QED
      BY <1>0, <2>1, <2>5, <3>1, MoveTyped
  <2> QED
    BY <1>4, <2>4, <2>5 DEF ActivateRead, End
<1>5. CASE ActivateWrite(a)
  <2> DEFINE new == [packets[id] EXCEPT !.rows = IF mem[a].rows = "queued" THEN "ready" ELSE mem[a].rows]
  <2>1. Counts' /\ id \in Ids /\ packets[id] \in Packet
    BY <1>0, <1>5, PresentIsPacket DEF ActivateWrite, Counts, ApproveMemory
  <2>2. new \in Packet
    BY <1>0, <1>5, <2>1 DEF ApproveMemory, ActivateWrite, Packet, Rows
  <2> HIDE DEF new
  <2>3. Write(id, new) /\ Goto(a, "idle", None)
    BY <1>5 DEF ActivateWrite, End, new
  <2>4. ApproveMemory(a)'
    BY <1>0, <2>3, GotoEffect DEF ApproveMemory
  <2> QED
    BY <1>0, <2>1, <2>2, <2>3, <2>4, WriteTyped
<1> QED
  BY <1>1, <1>2, <1>3, <1>4, <1>5 DEF Approve

\* `complete-task` keeps the types.
LEMMA BuildTyped ==
  ASSUME Typed, NEW b \in Builders, Build(b)
  PROVE  Typed'
<1> USE DEF Typed
<1>0. b \in Processes /\ b \notin Runners /\ b \notin Approvers /\ BuildMemory(b)
  BY ProcessAssumption DEF Processes, Memories
<1> DEFINE id == mem[b].id
<1>1. ASSUME NEW i \in Ids, BuildCheck(b, i) PROVE Typed'
  <2> DEFINE m == [id |-> i]
  <2>1. UNCHANGED packets /\ Counts' /\ i \in Present /\ Goto(b, "complete", m)
    BY <1>1 DEF BuildCheck, Counts
  <2>2. Present' = Present
    BY <2>1 DEF Present
  <2>3. BuildMemory(b)'
    BY <1>0, <2>1, <2>2, GotoEffect DEF BuildMemory
  <2> QED
    BY <1>0, <2>1, <2>3, MoveTyped
<1>2. CASE BuildWrite(b)
  <2> DEFINE new == [packets[id] EXCEPT !.rows = "complete"]
  <2>1. Counts' /\ id \in Present /\ id \in Ids /\ packets[id] \in Packet
    BY <1>0, <1>2, PresentIsPacket DEF BuildWrite, Counts, BuildMemory
  <2>2. new \in Packet
    BY <2>1 DEF Packet
  <2> HIDE DEF new
  <2>3. Write(id, new) /\ Goto(b, "artifact", mem[b])
    BY <1>2 DEF BuildWrite, new
  <2>4. BuildMemory(b)'
    BY <1>0, <2>1, <2>2, <2>3, GotoEffect, WriteEffect DEF BuildMemory
  <2> QED
    BY <1>0, <2>1, <2>2, <2>3, <2>4, WriteTyped
<1>3. CASE BuildRecord(b)
  <2> DEFINE new == [packets[id] EXCEPT !.built = source]
  <2>1. Counts' /\ id \in Ids /\ packets[id] \in Packet
    BY <1>0, <1>3, PresentIsPacket DEF BuildRecord, Counts, BuildMemory
  <2>2. new \in Packet
    BY <2>1 DEF Packet, Counts
  <2> HIDE DEF new
  <2>3. Write(id, new) /\ Goto(b, "idle", None)
    BY <1>3 DEF BuildRecord, End, new
  <2>4. BuildMemory(b)'
    BY <1>0, <2>3, GotoEffect DEF BuildMemory
  <2> QED
    BY <1>0, <2>1, <2>2, <2>3, <2>4, WriteTyped
<1> QED
  BY <1>1, <1>2, <1>3 DEF Build

\* Every step keeps the types, whoever is killed and whatever is edited.
LEMMA NextTyped == Typed /\ [Next]_vars => Typed'
<1> SUFFICES ASSUME Typed, [Next]_vars PROVE Typed'
  OBVIOUS
<1>1. ASSUME UNCHANGED <<packets, at, mem>>, Counts' PROVE Typed'
  BY <1>1 DEF Typed, Shapes, Memories, RunMemory, ApproveMemory, BuildMemory, Present
<1>2. ASSUME NEW scope \in Scopes, Edit(scope) PROVE Typed'
  BY <1>1, <1>2, CountAssumption DEF Edit, Typed, Counts, Sources
<1>3. CASE ChangeContract
  BY <1>1, <1>3, CountAssumption DEF ChangeContract, Typed, Counts, Contracts
<1>4. ASSUME NEW p \in Processes, Crash(p) PROVE Typed'
  <2>1. Goto(p, "idle", None) /\ UNCHANGED packets /\ Counts'
    BY <1>4, CountAssumption DEF Crash, End, Typed, Counts
  <2>2. at'[p] = "idle"
    BY <2>1, GotoEffect DEF Typed
  <2> QED
    BY <2>1, <2>2, MoveTyped DEF RunMemory, ApproveMemory, BuildMemory
<1>5. CASE UNCHANGED vars
  BY <1>1, <1>5 DEF vars, Typed, Counts
<1> QED
  BY <1>2, <1>3, <1>4, <1>5, RunTyped, ApproveTyped, BuildTyped DEF Next

\* Every packet has its five files or none, and every command is at one of its
\* steps, for any number of commands and crashes (changes.py).
THEOREM PacketTypes == Spec => []TypeOK
<1>1. Typed => TypeOK
  BY DEF Typed, Shapes, Counts, TypeOK, Processes
<1> QED
  BY InitTyped, NextTyped, <1>1, PTL DEF Spec

-----------------------------------------------------------------------------
(* A single approver.  Two of them can interleave so that a packet cannot be *)
(* read, which the run packets_two_approvals shows; nothing is assumed about *)
(* the number of the other commands.                                         *)

OneApprover == \A a, b \in Approvers : a = b

\* A packet says nothing about its approval that is not so.
Sound(p) ==
  /\ p.approval # None =>
       /\ p.approval.impact = p.impact /\ p.approval.plan = p.plan
       /\ p.state = "approved" => p.approval.stamp = p.stamp
  /\ p.rows \in {"ready", "complete"} => p.state = "approved" /\ p.approval # None

\* A packet that `run` still plans has no impact and no approval, and is its own.
Planning(r) == at[r] \in {"plan", "impact"}
RunSafe(r) == Planning(r) =>
  /\ packets[mem[r].id].impact = None /\ packets[mem[r].id].approval = None
  /\ \A q \in Runners : Planning(q) /\ mem[q].id = mem[r].id => q = r

\* What the approver read still holds when it writes.
ApproveSafe(a) ==
  LET p == packets[mem[a].id] IN
  /\ at[a] = "identity" =>
       /\ p.state = "draft" /\ p.impact # None
       /\ mem[a].identity.impact = p.impact /\ mem[a].identity.plan = p.plan
       /\ mem[a].identity.stamp = mem[a].stamp
  /\ at[a] = "state" => p.state = "draft" /\ (p.approval # None => p.approval.stamp = mem[a].stamp)
  /\ at[a] \in {"activate", "rows"} => p.state = "approved" /\ p.rows \notin {"ready", "complete"}
  /\ at[a] = "rows" => p.approval # None /\ mem[a].rows = p.rows

\* So does what a builder read.
BuildSafe(b) == at[b] = "complete" => packets[mem[b].id].rows \in {"ready", "complete"}

Safe ==
  /\ \A id \in Present : Sound(packets[id])
  /\ \A r \in Runners : RunSafe(r)
  /\ \A a \in Approvers : ApproveSafe(a)
  /\ \A b \in Builders : BuildSafe(b)

\* The beginning is safe.
LEMMA InitSafe == Init => Safe
BY DEF Init, Safe, Present, RunSafe, Planning, ApproveSafe, BuildSafe, Processes

\* Where a packet has an approval, it has an impact.
LEMMA ApprovedHasImpact ==
  ASSUME Typed, NEW id \in Present, Sound(packets[id]), packets[id].approval # None
  PROVE  packets[id].impact # None
<1>1. packets[id] \in Packet
  BY PresentIsPacket DEF Typed
<1>2. packets[id].approval.impact \in Contracts
  BY <1>1 DEF Packet
<1> QED
  BY <1>2, NoneAssumption DEF Sound

\* A step of one command that writes no packet stays safe, if what it remembers is.
LEMMA MoveSafe ==
  ASSUME Typed, Safe, UNCHANGED packets, NEW p \in Processes, NEW step, NEW m, Goto(p, step, m),
         p \in Runners => step \notin {"plan", "impact"},
         p \in Approvers => ApproveSafe(p)',
         p \in Builders => BuildSafe(p)'
  PROVE  Safe'
<1>1. /\ at'[p] = step /\ mem'[p] = m
      /\ \A q \in Processes \ {p} : at'[q] = at[q] /\ mem'[q] = mem[q]
  BY GotoEffect DEF Typed
<1>2. \A id \in Present' : Sound(packets'[id])
  BY DEF Safe, Present
<1>3. \A r \in Runners : RunSafe(r)'
  BY <1>1 DEF Safe, RunSafe, Planning, Processes
<1>4. \A a \in Approvers : ApproveSafe(a)'
  BY <1>1 DEF Safe, ApproveSafe, Processes
<1>5. \A b \in Builders : BuildSafe(b)'
  BY <1>1 DEF Safe, BuildSafe, Processes
<1> QED
  BY <1>2, <1>3, <1>4, <1>5 DEF Safe, Sound

\* A step of one command that writes one packet stays safe, if the packet is
\* sound and the commands that remember this packet can go on.
LEMMA WriteSafe ==
  ASSUME Typed, Safe, NEW p \in Processes, NEW step, NEW m, Goto(p, step, m),
         NEW id \in Ids, NEW new \in Packet, Write(id, new), Sound(new),
         p \in Runners => step \notin {"plan", "impact"},
         \A q \in Runners \ {p} : Planning(q) /\ mem[q].id = id => new.impact = None /\ new.approval = None,
         \A a \in Approvers : a = p \/ mem[a].id = id => ApproveSafe(a)',
         \A b \in Builders : b = p \/ mem[b].id = id => BuildSafe(b)'
  PROVE  Safe'
<1>1. /\ at'[p] = step /\ mem'[p] = m
      /\ \A q \in Processes \ {p} : at'[q] = at[q] /\ mem'[q] = mem[q]
  BY GotoEffect DEF Typed
<1>2. /\ packets'[id] = new /\ \A j \in Ids \ {id} : packets'[j] = packets[j]
      /\ Present' = Present \cup {id} /\ Present \subseteq Ids
  BY WriteEffect DEF Typed, Present
<1>3. \A i \in Present' : Sound(packets'[i])
  BY <1>2 DEF Safe
<1>4. ASSUME NEW r \in Runners PROVE RunSafe(r)'
  <2>1. CASE r = p
    BY <1>1, <2>1 DEF RunSafe, Planning
  <2>2. CASE r # p
    <3>1. at'[r] = at[r] /\ mem'[r] = mem[r] /\ RunSafe(r) /\ (Planning(r) => mem[r].id \in Present)
      BY <1>1, <2>2 DEF Processes, Safe, Typed, Memories, RunMemory, Planning
    <3>2. Planning(r) => packets'[mem[r].id].impact = None /\ packets'[mem[r].id].approval = None
      BY <1>2, <2>2, <3>1 DEF RunSafe
    <3>3. \A q \in Runners : Planning(q)' => Planning(q) /\ mem'[q] = mem[q]
      BY <1>1 DEF Planning, Processes
    <3> QED
      BY <3>1, <3>2, <3>3 DEF RunSafe, Planning
  <2> QED
    BY <2>1, <2>2
<1>5. ASSUME NEW a \in Approvers PROVE ApproveSafe(a)'
  <2>1. CASE a = p \/ mem[a].id = id
    BY <2>1
  <2>2. CASE a # p /\ mem[a].id # id
    <3>1. at'[a] = at[a] /\ mem'[a] = mem[a] /\ ApproveSafe(a) /\ (at[a] # "idle" => mem[a].id \in Present)
      BY <1>1, <2>2 DEF Processes, Safe, Typed, Memories, ApproveMemory
    <3>2. at[a] # "idle" => packets'[mem[a].id] = packets[mem[a].id]
      BY <1>2, <2>2, <3>1
    <3> QED
      BY <3>1, <3>2 DEF ApproveSafe
  <2> QED
    BY <2>1, <2>2
<1>6. ASSUME NEW b \in Builders PROVE BuildSafe(b)'
  <2>1. CASE b = p \/ mem[b].id = id
    BY <2>1
  <2>2. CASE b # p /\ mem[b].id # id
    <3>1. at'[b] = at[b] /\ mem'[b] = mem[b] /\ BuildSafe(b) /\ (at[b] # "idle" => mem[b].id \in Present)
      BY <1>1, <2>2 DEF Processes, Safe, Typed, Memories, BuildMemory
    <3> QED
      BY <1>2, <2>2, <3>1 DEF BuildSafe
  <2> QED
    BY <2>1, <2>2
<1> QED
  BY <1>3, <1>4, <1>5, <1>6 DEF Safe, Sound

\* `run` stays safe.
LEMMA RunSafety ==
  ASSUME Typed, Typed', Safe, NEW r \in Runners, Run(r)
  PROVE  Safe'
<1>0. r \in Processes /\ r \notin Approvers /\ r \notin Builders /\ RunMemory(r) /\ RunSafe(r)
  BY ProcessAssumption DEF Processes, Typed, Memories, Safe
<1> DEFINE id == mem[r].id
<1>1. CASE RunSelect(r) \/ RunNumber(r)
  <2>1. UNCHANGED packets
    BY <1>1 DEF RunSelect, RunNumber
  <2>2. CASE RunSelect(r)
    BY <1>0, <2>1, <2>2, MoveSafe DEF RunSelect
  <2>3. CASE RunNumber(r)
    BY <1>0, <2>1, <2>3, MoveSafe DEF RunNumber, End
  <2> QED
    BY <1>1, <2>2, <2>3
<1>2. CASE UNCHANGED packets /\ Goto(r, "idle", None)
  BY <1>0, <1>2, MoveSafe
<1>3. ASSUME NEW new \in Packet, Write(id, new), id \in Ids, Sound(new), new.state = "draft",
             new.impact = None, new.approval = None, packets[id] = None \/ packets[id].state = "draft",
             at[r] \in {"create", "plan"}, at[r] = "create" => packets[id] = None,
             \E step \in {"plan", "impact"} : Goto(r, step, mem[r])
      PROVE  Safe'
  <2>1. /\ packets'[id] = new /\ \A j \in Ids \ {id} : packets'[j] = packets[j]
        /\ Present' = Present \cup {id}
    BY <1>3, WriteEffect DEF Typed
  <2>2. /\ at'[r] \in {"plan", "impact"} /\ mem'[r] = mem[r]
        /\ \A q \in Processes \ {r} : at'[q] = at[q] /\ mem'[q] = mem[q]
    BY <1>0, <1>3, GotoEffect DEF Typed
  <2>3. \A i \in Present' : Sound(packets'[i])
    BY <1>3, <2>1, PresentIsPacket DEF Safe, Typed
  <2>4. \A q \in Runners : Planning(q) => mem[q].id \in Present
    BY DEF Typed, Memories, RunMemory, Planning
  <2>5. \A q \in Runners : Planning(q) /\ mem[q].id = id => q = r
    BY <1>0, <1>3, <2>4 DEF Safe, RunSafe, Planning, Present
  <2>6. \A q \in Runners : RunSafe(q)'
    BY <1>0, <1>3, <2>1, <2>2, <2>4, <2>5, PresentIsPacket DEF Safe, RunSafe, Planning, Processes, Typed
  <2>7. \A a \in Approvers : ApproveSafe(a)'
    <3> SUFFICES ASSUME NEW a \in Approvers PROVE ApproveSafe(a)'
      OBVIOUS
    <3>1. at'[a] = at[a] /\ mem'[a] = mem[a] /\ ApproveSafe(a) /\ ApproveMemory(a)
      BY <1>0, <2>2 DEF Safe, Processes, Typed, Memories
    <3>2. CASE at[a] # "idle" /\ mem[a].id = id
      <4>1. id \in Present /\ packets[id].state = "draft" /\ packets[id].impact = None
        BY <1>0, <1>3, <3>1, <3>2 DEF ApproveMemory, RunSafe, Planning, Present
      <4>2. at[a] = "state"
        BY <3>1, <3>2, <4>1 DEF ApproveSafe, Typed, Shapes
      <4> QED
        BY <1>3, <2>1, <3>1, <3>2, <4>2 DEF ApproveSafe
    <3>3. CASE at[a] # "idle" /\ mem[a].id # id
      BY <2>1, <3>1, <3>3, PresentIsPacket DEF ApproveSafe, ApproveMemory, Typed
    <3> QED
      BY <3>1, <3>2, <3>3 DEF ApproveSafe
  <2>8. \A b \in Builders : BuildSafe(b)'
    <3> SUFFICES ASSUME NEW b \in Builders, at'[b] = "complete"
                 PROVE  packets'[mem'[b].id].rows \in {"ready", "complete"}
      BY DEF BuildSafe
    <3>1. at[b] = "complete" /\ mem'[b] = mem[b] /\ mem[b].id \in Present /\ BuildSafe(b)
      BY <1>0, <2>2 DEF Safe, Processes, Typed, Memories, BuildMemory
    <3>2. mem[b].id # id
      BY <1>0, <1>3, <3>1 DEF BuildSafe, Safe, Sound, Present
    <3> QED
      BY <2>1, <3>1, <3>2, PresentIsPacket DEF BuildSafe, Typed
  <2> QED
    BY <2>3, <2>6, <2>7, <2>8 DEF Safe, Sound
<1>4. CASE RunImpact(r)
  <2> DEFINE new == [packets[id] EXCEPT !.impact = mem[r].derived]
  <2>1. /\ id \in Ids /\ id \in Present /\ packets[id] \in Packet /\ mem[r].derived \in Contracts
        /\ packets[id].approval = None /\ Sound(packets[id])
        /\ \A q \in Runners : Planning(q) /\ mem[q].id = id => q = r
    BY <1>0, <1>4, PresentIsPacket DEF RunImpact, RunMemory, RunSafe, Planning, Typed, Safe
  <2>2. /\ new \in Packet /\ Sound(new) /\ new.approval = None
        /\ new.state = packets[id].state /\ new.rows = packets[id].rows
    BY <2>1 DEF Packet, Sound
  <2> HIDE DEF new
  <2>3. Write(id, new) /\ Goto(r, "idle", None)
    BY <1>4 DEF RunImpact, End, new
  <2>4. packets'[id] = new /\ \A q \in Processes \ {r} : at'[q] = at[q] /\ mem'[q] = mem[q]
    BY <1>0, <2>1, <2>2, <2>3, WriteEffect, GotoEffect DEF Typed
  <2>5. ASSUME NEW a \in Approvers, mem[a].id = id PROVE ApproveSafe(a)'
    <3>1. at'[a] = at[a] /\ mem'[a] = mem[a] /\ ApproveSafe(a) /\ packets'[mem'[a].id] = new
      BY <1>0, <2>4, <2>5 DEF Safe, Processes
    <3>2. at[a] # "identity"
      BY <1>0, <1>4, <2>5, <3>1 DEF ApproveSafe, RunSafe, Planning, RunImpact
    <3> QED
      BY <2>1, <2>2, <2>5, <3>1, <3>2 DEF ApproveSafe
  <2>6. ASSUME NEW b \in Builders, mem[b].id = id PROVE BuildSafe(b)'
    BY <1>0, <2>2, <2>4, <2>6 DEF Safe, BuildSafe, Processes
  <2> QED
    BY <1>0, <2>1, <2>2, <2>3, <2>5, <2>6, WriteSafe
<1>5. CASE RunCreate(r) \/ RunPlan(r)
  <2>1. CASE RunCreate(r) /\ packets[id] = None
    <3> DEFINE new == [scope |-> mem[r].scope, state |-> "draft", stamp |-> None, rows |-> None,
                       plan |-> None, impact |-> None, approval |-> None, built |-> None]
    <3>1. new \in Packet /\ Sound(new) /\ new.state = "draft" /\ new.impact = None /\ new.approval = None
      BY <1>0, <2>1, NoneAssumption DEF Packet, Sound, RunCreate, RunMemory
    <3> HIDE DEF new
    <3>2. /\ Write(id, new) /\ id \in Ids /\ at[r] = "create"
          /\ \E step \in {"plan", "impact"} : Goto(r, step, mem[r])
      BY <2>1 DEF RunCreate, new
    <3> QED
      BY <1>3, <2>1, <3>1, <3>2
  <2>2. CASE RunPlan(r) /\ AllReadable /\ packets[id].state = "draft"
    <3> DEFINE new == [packets[id] EXCEPT !.rows = "queued", !.plan = mem[r].derived]
    <3>1. /\ id \in Ids /\ id \in Present /\ packets[id] \in Packet /\ mem[r].derived \in Contracts
          /\ packets[id].approval = None /\ packets[id].impact = None /\ at[r] = "plan"
      BY <1>0, <2>2, PresentIsPacket DEF RunPlan, RunMemory, RunSafe, Planning, Typed
    <3>2. new \in Packet /\ Sound(new) /\ new.state = "draft" /\ new.impact = None /\ new.approval = None
      BY <2>2, <3>1 DEF Packet, Sound
    <3> HIDE DEF new
    <3>3. Write(id, new) /\ \E step \in {"plan", "impact"} : Goto(r, step, mem[r])
      BY <2>2 DEF RunPlan, new
    <3> QED
      BY <1>3, <2>2, <3>1, <3>2, <3>3
  <2> QED
    BY <1>2, <1>5, <2>1, <2>2 DEF RunCreate, RunPlan, End
<1> QED
  BY <1>1, <1>4, <1>5 DEF Run

\* One `approve-change` at a time stays safe.
LEMMA ApproveSafety ==
  ASSUME OneApprover, Typed, Safe, NEW a \in Approvers, Approve(a)
  PROVE  Safe'
<1>0. /\ a \in Processes /\ a \notin Runners /\ a \notin Builders
      /\ ApproveMemory(a) /\ ApproveSafe(a) /\ \A o \in Approvers : o = a
  BY ProcessAssumption DEF Processes, Typed, Memories, Safe, OneApprover
<1> DEFINE id == mem[a].id
<1>1. ASSUME NEW new \in Packet, NEW step, Goto(a, step, mem[a]) \/ Goto(a, step, None), Write(id, new),
             Sound(new), id \in Present, ApproveSafe(a)',
             new.impact = packets[id].impact,
             new.approval = None => packets[id].approval = None,
             packets[id].impact # None \/ new.approval = packets[id].approval,
             packets[id].rows \in {"ready", "complete"} => new.rows \in {"ready", "complete"}
      PROVE  Safe'
  <2>1. /\ id \in Ids
        /\ packets'[id] = new /\ \A q \in Processes \ {a} : at'[q] = at[q] /\ mem'[q] = mem[q]
    BY <1>0, <1>1, WriteEffect, GotoEffect DEF Typed, Present
  <2>2. ASSUME NEW q \in Runners, Planning(q), mem[q].id = id
        PROVE  new.impact = None /\ new.approval = None
    BY <1>1, <2>2 DEF Safe, RunSafe
  <2>3. ASSUME NEW b \in Builders, mem[b].id = id PROVE BuildSafe(b)'
    BY <1>0, <1>1, <2>1, <2>3 DEF Safe, BuildSafe, Processes
  <2> QED
    BY <1>0, <1>1, <2>1, <2>2, <2>3, WriteSafe
<1>2. ASSUME NEW i \in Ids, NEW stamp \in Stamps, ApproveRead(a, i, stamp) PROVE Safe'
  <2> DEFINE short == [id |-> i, stamp |-> stamp]
             long  == [id |-> i, stamp |-> stamp,
                       identity |-> [stamp |-> stamp, impact |-> contract, plan |-> contract]]
  <2>1. /\ UNCHANGED packets /\ i \in Present /\ packets[i] \in Packet /\ packets[i].state = "draft"
        /\ Sound(packets[i])
    BY <1>2, PresentIsPacket DEF ApproveRead, Typed, Safe
  <2>2. CASE packets[i].impact = None /\ Goto(a, "state", short)
    <3>1. at'[a] = "state" /\ mem'[a].id = i /\ packets[i].approval = None
      BY <1>0, <2>1, <2>2, GotoEffect, ApprovedHasImpact DEF Typed
    <3>2. ApproveSafe(a)'
      BY <2>1, <3>1 DEF ApproveSafe
    <3> QED
      BY <1>0, <2>1, <2>2, <3>2, MoveSafe
  <2>3. CASE Derivable(packets[i]) /\ Goto(a, "identity", long)
    <3>1. /\ at'[a] = "identity" /\ mem'[a] = long
          /\ packets[i].impact = contract /\ packets[i].plan = contract /\ contract # None
      BY <1>0, <2>3, GotoEffect, NoneAssumption DEF Typed, Counts, Derivable
    <3>2. ApproveSafe(a)'
      BY <2>1, <3>1 DEF ApproveSafe
    <3> QED
      BY <1>0, <2>1, <2>3, <3>2, MoveSafe
  <2> QED
    BY <1>2, <2>2, <2>3 DEF ApproveRead
<1>3. CASE ApproveIdentity(a)
  <2> DEFINE new == [packets[id] EXCEPT !.approval = mem[a].identity]
  <2>1. /\ id \in Present /\ id \in Ids /\ packets[id] \in Packet /\ Sound(packets[id])
        /\ packets[id].state = "draft" /\ packets[id].impact # None
        /\ mem[a].identity \in Approvals
        /\ mem[a].identity.impact = packets[id].impact /\ mem[a].identity.plan = packets[id].plan
        /\ mem[a].identity.stamp = mem[a].stamp
    BY <1>0, <1>3, PresentIsPacket DEF ApproveIdentity, ApproveMemory, ApproveSafe, Typed, Safe
  <2>2. mem[a].identity # None
    BY <2>1, NoneAssumption DEF Approvals
  <2>3. /\ new \in Packet /\ Sound(new) /\ new.state = "draft" /\ new.approval = mem[a].identity
        /\ new.impact = packets[id].impact /\ new.rows = packets[id].rows
    BY <2>1, <2>2 DEF Packet, Approvals, Sound
  <2> HIDE DEF new
  <2>4. Write(id, new) /\ Goto(a, "state", mem[a])
    BY <1>3 DEF ApproveIdentity, new
  <2>5. at'[a] = "state" /\ mem'[a] = mem[a] /\ packets'[id] = new
    BY <1>0, <2>1, <2>3, <2>4, WriteEffect, GotoEffect DEF Typed
  <2>6. ApproveSafe(a)'
    BY <2>1, <2>3, <2>5 DEF ApproveSafe
  <2> QED
    BY <1>1, <2>1, <2>2, <2>3, <2>4, <2>6
<1>4. CASE ApproveState(a)
  <2> DEFINE new == [packets[id] EXCEPT !.state = "approved", !.stamp = mem[a].stamp]
  <2>1. /\ id \in Present /\ id \in Ids /\ packets[id] \in Packet /\ Sound(packets[id])
        /\ packets[id].state = "draft" /\ mem[a].stamp \in Stamps
        /\ packets[id].approval # None => packets[id].approval.stamp = mem[a].stamp
    BY <1>0, <1>4, PresentIsPacket DEF ApproveState, ApproveMemory, ApproveSafe, Typed, Safe
  <2>2. /\ new \in Packet /\ Sound(new) /\ new.state = "approved" /\ new.approval = packets[id].approval
        /\ new.impact = packets[id].impact /\ new.rows = packets[id].rows
        /\ new.rows \notin {"ready", "complete"}
    BY <2>1 DEF Packet, Sound
  <2> HIDE DEF new
  <2>3. Write(id, new) /\ Goto(a, "activate", mem[a])
    BY <1>4 DEF ApproveState, new
  <2>4. at'[a] = "activate" /\ mem'[a] = mem[a] /\ packets'[id] = new
    BY <1>0, <2>1, <2>2, <2>3, WriteEffect, GotoEffect DEF Typed
  <2>5. ApproveSafe(a)'
    BY <2>2, <2>4 DEF ApproveSafe
  <2> QED
    BY <1>1, <2>1, <2>2, <2>3, <2>5
<1>5. CASE ActivateRead(a)
  <2> DEFINE m == [id |-> id, rows |-> packets[id].rows]
  <2>1. UNCHANGED packets
    BY <1>5 DEF ActivateRead
  <2>2. CASE IdentityCurrent(packets[id]) /\ Goto(a, "rows", m)
    <3>1. at'[a] = "rows" /\ mem'[a] = m
      BY <1>0, <2>2, GotoEffect DEF Typed
    <3>2. ApproveSafe(a)'
      BY <1>0, <1>5, <2>1, <2>2, <3>1 DEF ApproveSafe, ActivateRead, IdentityCurrent
    <3> QED
      BY <1>0, <2>1, <2>2, <3>2, MoveSafe
  <2>3. CASE Goto(a, "idle", None)
    <3>1. at'[a] = "idle"
      BY <1>0, <2>3, GotoEffect DEF Typed
    <3>2. ApproveSafe(a)'
      BY <3>1 DEF ApproveSafe
    <3> QED
      BY <1>0, <2>1, <2>3, <3>2, MoveSafe
  <2> QED
    BY <1>5, <2>2, <2>3 DEF ActivateRead, End
<1>6. CASE ActivateWrite(a)
  <2> DEFINE new == [packets[id] EXCEPT !.rows = IF mem[a].rows = "queued" THEN "ready" ELSE mem[a].rows]
  <2>1. /\ id \in Present /\ id \in Ids /\ packets[id] \in Packet /\ Sound(packets[id])
        /\ packets[id].state = "approved" /\ packets[id].approval # None
        /\ packets[id].rows \notin {"ready", "complete"} /\ mem[a].rows \in Rows
    BY <1>0, <1>6, PresentIsPacket DEF ActivateWrite, ApproveMemory, ApproveSafe, Typed, Safe
  <2>2. /\ new \in Packet /\ Sound(new) /\ new.approval = packets[id].approval
        /\ new.impact = packets[id].impact
    BY <2>1 DEF Packet, Sound, Rows
  <2> HIDE DEF new
  <2>3. Write(id, new) /\ Goto(a, "idle", None)
    BY <1>6 DEF ActivateWrite, End, new
  <2>4. at'[a] = "idle"
    BY <1>0, <2>3, GotoEffect DEF Typed
  <2>5. ApproveSafe(a)'
    BY <2>4 DEF ApproveSafe
  <2> QED
    BY <1>1, <2>1, <2>2, <2>3, <2>5
<1> QED
  BY <1>2, <1>3, <1>4, <1>5, <1>6 DEF Approve

\* `complete-task` stays safe: the rows it read as ready belong to an approved
\* packet, which nobody approves or activates any more.
LEMMA BuildSafety ==
  ASSUME Typed, Safe, NEW b \in Builders, Build(b)
  PROVE  Safe'
<1>0. b \in Processes /\ b \notin Runners /\ b \notin Approvers /\ BuildMemory(b) /\ BuildSafe(b)
  BY ProcessAssumption DEF Processes, Typed, Memories, Safe
<1> DEFINE id == mem[b].id
<1>1. ASSUME NEW i \in Ids, BuildCheck(b, i) PROVE Safe'
  <2> DEFINE m == [id |-> i]
  <2>1. UNCHANGED packets /\ Goto(b, "complete", m) /\ packets[i].rows = "ready"
    BY <1>1 DEF BuildCheck
  <2>2. BuildSafe(b)'
    BY <1>0, <2>1, GotoEffect DEF BuildSafe, Typed
  <2> QED
    BY <1>0, <2>1, <2>2, MoveSafe
<1>2. ASSUME NEW new \in Packet, NEW step \in {"idle", "artifact"}, NEW m, Goto(b, step, m), Write(id, new),
             Sound(new), at[b] # "idle", new.impact = packets[id].impact, new.plan = packets[id].plan,
             new.approval = packets[id].approval, new.state = packets[id].state,
             new.rows = packets[id].rows \/ (new.rows = "complete" /\ packets[id].rows \in {"ready", "complete"})
      PROVE  Safe'
  <2>1. id \in Present /\ id \in Ids /\ Sound(packets[id])
    BY <1>0, <1>2 DEF BuildMemory, Present, Safe
  <2>2. /\ at'[b] = step /\ packets'[id] = new
        /\ \A q \in Processes \ {b} : at'[q] = at[q] /\ mem'[q] = mem[q]
    BY <1>0, <1>2, <2>1, WriteEffect, GotoEffect DEF Typed
  <2>3. ASSUME NEW q \in Runners, Planning(q), mem[q].id = id
        PROVE  new.impact = None /\ new.approval = None
    BY <1>2, <2>3 DEF Safe, RunSafe
  <2>4. ASSUME NEW a \in Approvers, mem[a].id = id PROVE ApproveSafe(a)'
    <3>1. at'[a] = at[a] /\ mem'[a] = mem[a] /\ ApproveSafe(a) /\ packets'[mem'[a].id] = new
      BY <1>0, <2>2, <2>4 DEF Safe, Processes
    <3> QED
      BY <1>2, <2>1, <2>4, <3>1 DEF ApproveSafe, Sound
  <2>5. ASSUME NEW o \in Builders, mem[o].id = id, o # b PROVE BuildSafe(o)'
    BY <1>2, <2>2, <2>5 DEF Safe, BuildSafe, Processes
  <2>6. BuildSafe(b)'
    BY <2>2 DEF BuildSafe
  <2> QED
    BY <1>0, <1>2, <2>1, <2>3, <2>4, <2>5, <2>6, WriteSafe
<1>3. CASE BuildWrite(b)
  <2> DEFINE new == [packets[id] EXCEPT !.rows = "complete"]
  <2>1. id \in Present /\ packets[id] \in Packet /\ Sound(packets[id]) /\ packets[id].rows \in {"ready", "complete"}
    BY <1>0, <1>3, PresentIsPacket DEF BuildWrite, BuildMemory, BuildSafe, Typed, Safe
  <2>2. /\ new \in Packet /\ Sound(new) /\ new.impact = packets[id].impact /\ new.plan = packets[id].plan
        /\ new.approval = packets[id].approval /\ new.state = packets[id].state /\ new.rows = "complete"
    BY <2>1 DEF Packet, Sound
  <2> HIDE DEF new
  <2>3. Write(id, new) /\ Goto(b, "artifact", mem[b]) /\ at[b] # "idle"
    BY <1>3 DEF BuildWrite, new
  <2> QED
    BY <1>2, <2>1, <2>2, <2>3
<1>4. CASE BuildRecord(b)
  <2> DEFINE new == [packets[id] EXCEPT !.built = source]
  <2>1. id \in Present /\ packets[id] \in Packet /\ Sound(packets[id]) /\ source \in Sources
    BY <1>0, <1>4, PresentIsPacket DEF BuildRecord, BuildMemory, Typed, Counts, Safe
  <2>2. /\ new \in Packet /\ Sound(new) /\ new.impact = packets[id].impact /\ new.plan = packets[id].plan
        /\ new.approval = packets[id].approval /\ new.state = packets[id].state
        /\ new.rows = packets[id].rows
    BY <2>1 DEF Packet, Sound
  <2> HIDE DEF new
  <2>3. Write(id, new) /\ Goto(b, "idle", None) /\ at[b] # "idle"
    BY <1>4 DEF BuildRecord, End, new
  <2> QED
    BY <1>2, <2>1, <2>2, <2>3
<1> QED
  BY <1>1, <1>3, <1>4 DEF Build

\* Every step stays safe.
LEMMA NextSafe == OneApprover /\ Typed /\ Safe /\ [Next]_vars => Safe'
<1> SUFFICES ASSUME OneApprover, Typed, Safe, [Next]_vars PROVE Safe'
  OBVIOUS
<1>1. Typed'
  BY NextTyped
<1>2. CASE UNCHANGED <<packets, at, mem>>
  BY <1>2 DEF Safe, Sound, RunSafe, Planning, ApproveSafe, BuildSafe, Present
<1>3. ASSUME NEW p \in Processes, Crash(p) PROVE Safe'
  <2>1. Goto(p, "idle", None) /\ UNCHANGED packets
    BY <1>3 DEF Crash, End
  <2>2. at'[p] = "idle"
    BY <2>1, GotoEffect DEF Typed
  <2> QED
    BY <2>1, <2>2, MoveSafe DEF ApproveSafe, BuildSafe
<1>4. CASE (\E scope \in Scopes : Edit(scope)) \/ ChangeContract \/ UNCHANGED vars
  BY <1>2, <1>4 DEF Edit, ChangeContract, vars
<1> QED
  BY <1>1, <1>3, <1>4, RunSafety, ApproveSafety, BuildSafety DEF Next

\* With one approver, what keeps the packets safe holds in every state.
LEMMA AlwaysSafe == ASSUME OneApprover PROVE Spec => []Safe
<1>1. Init /\ [][Next]_vars => []Typed
  BY InitTyped, NextTyped, PTL
<1>2. Typed /\ Safe /\ [Next]_vars => Safe'
  BY NextSafe
<1> QED
  BY <1>1, <1>2, InitSafe, NextTyped, PTL DEF Spec

\* As long as nobody approves twice at a time, every packet that killed commands
\* leave behind can be read, so no command of the project stops for one
\* (changes.py).
THEOREM PacketsStayReadable == ASSUME OneApprover PROVE Spec => []Readable
<1>1. Safe => Readable
  BY DEF Safe, Sound, Readable, AllReadable, ReadablePacket
<1> QED
  BY <1>1, AlwaysSafe, PTL

\* Nor is a row built, in any number of packets, that is not approved as it
\* stands: approval.json is about the packet's present impact and rows.
THEOREM BuildsAreApproved == ASSUME OneApprover PROVE Spec => []BuiltAsApproved
<1>1. Safe => BuiltAsApproved
  BY DEF Safe, Sound, BuiltAsApproved
<1> QED
  BY <1>1, AlwaysSafe, PTL

-----------------------------------------------------------------------------
(* A single `run` besides the single approver: packets live as PacketLife    *)
(* says.  Two of them may both find no open packet and create one each.      *)

OneRunner == \A q, r \in Runners : q = r

\* `run` creates a packet for changed files that no open packet is about.
Choosing(r) == at[r] \in {"number", "create"}
Fresh == \A r \in Runners : Choosing(r) => Open(mem[r].scope) = {}

StageNow == [id \in Ids |-> Stage(id)]
AboutNow == [id \in Ids |-> IF packets[id] = None THEN None ELSE packets[id].scope]

\* Where nothing is written, or a packet keeps its scope and stays complete, no
\* packet opens again.
LEMMA OpenShrinks ==
  ASSUME Typed, Fresh,
         \A i \in Present' : i \in Present /\ packets'[i].scope = packets[i].scope
           /\ (packets[i].rows = "complete" => packets'[i].rows = "complete"),
         \A r \in Runners : Choosing(r)' => Choosing(r) /\ mem'[r].scope = mem[r].scope
  PROVE  Fresh'
<1> SUFFICES ASSUME NEW r \in Runners, Choosing(r)' PROVE Open(mem[r].scope)' = {}
  BY DEF Fresh
<1>1. Open(mem[r].scope) = {} /\ mem'[r].scope = mem[r].scope
  BY DEF Fresh
<1> QED
  BY <1>1 DEF Open

\* A write shows in the stage of one packet.
LEMMA WriteShows ==
  ASSUME Typed, NEW id \in Present, NEW new \in Packet, Write(id, new), new.scope = packets[id].scope
  PROVE  /\ StageNow' = [StageNow EXCEPT ![id] = Stage(id)'] /\ AboutNow' = AboutNow
         /\ StageNow[id] = Stage(id)
         /\ packets'[id] = new /\ new # None
         /\ \A i \in Present' : i \in Present /\ packets'[i].scope = packets[i].scope
         /\ \A i \in Present : i # id => packets'[i] = packets[i]
<1>1. /\ packets'[id] = new /\ \A j \in Ids \ {id} : packets'[j] = packets[j]
      /\ Present' = Present /\ id \in Ids /\ Present \subseteq Ids
  BY WriteEffect DEF Typed, Present
<1>2. new # None
  BY NoneAssumption
<1>3. \A j \in Ids \ {id} : Stage(j)' = Stage(j)
  BY <1>1 DEF Stage
<1>4. StageNow' = [StageNow EXCEPT ![id] = Stage(id)']
  BY <1>1, <1>3 DEF StageNow
<1>5. AboutNow' = AboutNow
  BY <1>1, <1>2, PresentIsPacket DEF AboutNow, Present, Typed
<1> QED
  BY <1>1, <1>2, <1>4, <1>5 DEF StageNow

\* Whoever writes a packet that is there either leaves its stage or advances it.
LEMMA StageWrite ==
  ASSUME Typed, Fresh, NEW p \in Processes, NEW step, NEW m, Goto(p, step, m), step \notin {"number", "create"},
         NEW id \in Present, NEW new \in Packet, Write(id, new), new.scope = packets[id].scope,
         packets[id].rows = "complete" => new.rows = "complete",
         \/ Stage(id)' = Stage(id)
         \/ Stage(id) = "draft" /\ Stage(id)' = "approved"
         \/ Stage(id) = "approved" /\ Stage(id)' = "active"
         \/ Stage(id) = "active" /\ Stage(id)' = "complete"
  PROVE  Fresh' /\ [Life!Next]_<<StageNow, AboutNow>>
<1>1. at'[p] = step /\ \A q \in Processes \ {p} : at'[q] = at[q] /\ mem'[q] = mem[q]
  BY GotoEffect DEF Typed
<1>2. Fresh'
  <2>1. \A r \in Runners : Choosing(r)' => Choosing(r) /\ mem'[r].scope = mem[r].scope
    BY <1>1 DEF Choosing, Processes
  <2> QED
    BY <2>1, WriteShows, OpenShrinks
<1>3. id \in Ids /\ StageNow' = [StageNow EXCEPT ![id] = Stage(id)'] /\ AboutNow' = AboutNow
      /\ StageNow[id] = Stage(id)
  BY WriteShows DEF Present
<1>4. CASE Stage(id)' = Stage(id)
  BY <1>2, <1>3, <1>4 DEF StageNow
<1>5. CASE Stage(id) = "draft" /\ Stage(id)' = "approved"
  BY <1>2, <1>3, <1>5 DEF StageNow, AboutNow, Life!Next, Life!Approve, Life!Advance
<1>6. CASE Stage(id) = "approved" /\ Stage(id)' = "active"
  BY <1>2, <1>3, <1>6 DEF StageNow, AboutNow, Life!Next, Life!Activate, Life!Advance
<1>7. CASE Stage(id) = "active" /\ Stage(id)' = "complete"
  BY <1>2, <1>3, <1>7 DEF StageNow, AboutNow, Life!Next, Life!Complete, Life!Advance
<1> QED
  BY <1>4, <1>5, <1>6, <1>7

\* Where no packet is written, every stage stays.
LEMMA StageKept ==
  ASSUME Typed, Fresh, UNCHANGED packets,
         \A r \in Runners : Choosing(r)' => Choosing(r) /\ mem'[r].scope = mem[r].scope
  PROVE  Fresh' /\ [Life!Next]_<<StageNow, AboutNow>>
BY OpenShrinks DEF Present, StageNow, AboutNow, Stage

\* The only `run` opens packets where none is open.
LEMMA RunLives ==
  ASSUME OneRunner, Typed, Typed', Safe, Fresh, NEW r \in Runners, Run(r)
  PROVE  Fresh' /\ [Life!Next]_<<StageNow, AboutNow>>
<1>0. r \in Processes /\ RunMemory(r) /\ RunSafe(r) /\ \A q \in Runners : q = r
  BY DEF Processes, Typed, Memories, Safe, OneRunner
<1> SUFFICES ASSUME NEW id, id = mem[r].id PROVE Fresh' /\ [Life!Next]_<<StageNow, AboutNow>>
  OBVIOUS
<1>1. ASSUME UNCHANGED packets, Choosing(r)' => Open(mem'[r].scope) = {}
      PROVE  Fresh' /\ [Life!Next]_<<StageNow, AboutNow>>
  BY <1>0, <1>1 DEF Fresh, Open, Present, StageNow, AboutNow, Stage
<1>2. CASE RunSelect(r)
  <2>1. UNCHANGED packets /\ Open(drift) = {} /\ mem'[r] = [scope |-> drift, derived |-> contract]
    BY <1>0, <1>2, GotoEffect DEF RunSelect, Typed
  <2> QED
    BY <1>1, <2>1
<1>3. ASSUME UNCHANGED packets, Goto(r, "idle", None) PROVE Fresh' /\ [Life!Next]_<<StageNow, AboutNow>>
  BY <1>0, <1>1, <1>3, GotoEffect DEF Choosing, Typed
<1>4. CASE RunNumber(r)
  <2>1. UNCHANGED packets /\ Open(mem[r].scope) = {}
    BY <1>4 DEF RunNumber, Fresh, Choosing
  <2> DEFINE m == [scope |-> mem[r].scope, derived |-> mem[r].derived, id |-> 1 + Max(Present \cup {0})]
  <2>2. CASE Goto(r, "create", m)
    <3>1. mem'[r].scope = mem[r].scope
      BY <1>0, <2>2, GotoEffect DEF Typed
    <3> QED
      BY <1>1, <2>1, <3>1
  <2> QED
    BY <1>3, <1>4, <2>1, <2>2 DEF RunNumber, End
<1>5. CASE RunCreate(r) /\ packets[id] = None
  <2> DEFINE new == [scope |-> mem[r].scope, state |-> "draft", stamp |-> None, rows |-> None,
                     plan |-> None, impact |-> None, approval |-> None, built |-> None]
             scope == mem[r].scope
  <2>1. new \in Packet /\ new.scope = scope /\ new.state = "draft" /\ scope \in Scopes /\ id \in Ids
    BY <1>0, <1>5 DEF Packet, RunCreate, RunMemory
  <2> HIDE DEF new
  <2>2. Write(id, new) /\ Goto(r, "plan", mem[r]) /\ Open(scope) = {}
    BY <1>5 DEF RunCreate, new, Fresh, Choosing
  <2>3. /\ packets'[id] = new /\ \A j \in Ids \ {id} : packets'[j] = packets[j]
        /\ new # None
    BY <2>1, <2>2, WriteEffect, NoneAssumption DEF Typed
  <2>4. Stage(id)' = "draft" /\ \A j \in Ids \ {id} : Stage(j)' = Stage(j)
    BY <2>1, <2>3 DEF Stage
  <2>5. StageNow' = [StageNow EXCEPT ![id] = "draft"] /\ AboutNow' = [AboutNow EXCEPT ![id] = scope]
    BY <2>1, <2>3, <2>4 DEF StageNow, AboutNow
  <2>6. StageNow[id] = None
    BY <1>5, <2>1 DEF StageNow, Stage
  <2>7. Life!Open(scope) = {}
    <3> SUFFICES ASSUME NEW i \in Ids, StageNow[i] \in Life!Stages \ {"complete"}, AboutNow[i] = scope
                 PROVE  FALSE
      BY DEF Life!Open, StageNow, AboutNow
    <3>1. StageNow[i] = Stage(i) /\ packets[i] # None /\ packets[i].scope = scope
      BY <2>1, NoneAssumption DEF StageNow, AboutNow, Stage, Life!Stages
    <3>2. Sound(packets[i]) /\ packets[i].rows = "complete"
      BY <2>2, <3>1 DEF Open, Present, Safe
    <3>3. Stage(i) = "complete"
      BY <3>1, <3>2 DEF Stage, Sound
    <3> QED
      BY <3>1, <3>3
  <2>8. Fresh'
    BY <1>0, <2>2, GotoEffect DEF Fresh, Choosing, Typed
  <2> QED
    BY <2>1, <2>5, <2>6, <2>7, <2>8 DEF StageNow, AboutNow, Life!Next, Life!Create
<1>6. CASE RunPlan(r) /\ packets[id].state = "draft" /\ AllReadable
  <2> DEFINE new == [packets[id] EXCEPT !.rows = "queued", !.plan = mem[r].derived]
  <2>1. /\ id \in Ids /\ id \in Present /\ packets[id] \in Packet /\ mem[r].derived \in Contracts
        /\ Sound(packets[id])
    BY <1>0, <1>6, PresentIsPacket DEF RunPlan, RunMemory, Typed, Safe
  <2>2. new \in Packet /\ new.state = "draft" /\ new.scope = packets[id].scope /\ packets[id].rows # "complete"
    BY <1>6, <2>1 DEF Packet, Sound
  <2> HIDE DEF new
  <2>3. Write(id, new) /\ Goto(r, "impact", mem[r])
    BY <1>6 DEF RunPlan, new
  <2>4. Stage(id)' = Stage(id)
    BY <1>6, <2>1, <2>2, <2>3, WriteShows DEF Stage, Present
  <2> QED
    BY <1>0, <2>1, <2>2, <2>3, <2>4, StageWrite
<1>7. CASE RunImpact(r)
  <2> DEFINE new == [packets[id] EXCEPT !.impact = mem[r].derived]
  <2>1. id \in Ids /\ id \in Present /\ packets[id] \in Packet /\ mem[r].derived \in Contracts
    BY <1>0, <1>7, PresentIsPacket DEF RunImpact, RunMemory, Typed
  <2>2. /\ new \in Packet /\ new.state = packets[id].state /\ new.scope = packets[id].scope
        /\ new.rows = packets[id].rows
    BY <2>1 DEF Packet
  <2> HIDE DEF new
  <2>3. Write(id, new) /\ Goto(r, "idle", None)
    BY <1>7 DEF RunImpact, End, new
  <2>4. Stage(id)' = Stage(id)
    BY <2>1, <2>2, <2>3, WriteShows DEF Stage, Present
  <2> QED
    BY <1>0, <2>1, <2>2, <2>3, <2>4, StageWrite
<1> QED
  BY <1>2, <1>3, <1>4, <1>5, <1>6, <1>7 DEF Run, RunCreate, RunPlan, End

\* The only `approve-change` takes a draft to approved, and its rows to active.
LEMMA ApproveLives ==
  ASSUME Typed, Safe, Fresh, NEW a \in Approvers, Approve(a)
  PROVE  Fresh' /\ [Life!Next]_<<StageNow, AboutNow>>
<1>0. a \in Processes /\ a \notin Runners /\ ApproveMemory(a) /\ ApproveSafe(a)
  BY ProcessAssumption DEF Processes, Typed, Memories, Safe
<1> SUFFICES ASSUME NEW id, id = mem[a].id PROVE Fresh' /\ [Life!Next]_<<StageNow, AboutNow>>
  OBVIOUS
<1>1. ASSUME UNCHANGED packets, NEW step, NEW m, Goto(a, step, m)
      PROVE  Fresh' /\ [Life!Next]_<<StageNow, AboutNow>>
  <2>1. \A r \in Runners : at'[r] = at[r] /\ mem'[r] = mem[r]
    BY <1>0, <1>1, GotoEffect DEF Typed, Processes
  <2> QED
    BY <1>1, <2>1, StageKept DEF Choosing
<1>2. ASSUME NEW i \in Ids, NEW stamp \in Stamps, ApproveRead(a, i, stamp)
      PROVE  Fresh' /\ [Life!Next]_<<StageNow, AboutNow>>
  BY <1>1, <1>2 DEF ApproveRead
<1>3. CASE ActivateRead(a)
  BY <1>1, <1>3 DEF ActivateRead, End
<1>4. CASE ApproveIdentity(a)
  <2> DEFINE new == [packets[id] EXCEPT !.approval = mem[a].identity]
  <2>1. /\ id \in Present /\ id \in Ids /\ packets[id] \in Packet /\ mem[a].identity \in Approvals
        /\ packets[id].state = "draft"
    BY <1>0, <1>4, PresentIsPacket DEF ApproveIdentity, ApproveMemory, ApproveSafe, Typed
  <2>2. /\ new \in Packet /\ new.state = "draft" /\ new.scope = packets[id].scope
        /\ new.rows = packets[id].rows
    BY <2>1 DEF Packet, Approvals
  <2> HIDE DEF new
  <2>3. Write(id, new) /\ Goto(a, "state", mem[a])
    BY <1>4 DEF ApproveIdentity, new
  <2>4. Stage(id)' = Stage(id)
    BY <2>1, <2>2, <2>3, WriteShows DEF Stage, Present
  <2> QED
    BY <1>0, <2>1, <2>2, <2>3, <2>4, StageWrite
<1>5. CASE ApproveState(a)
  <2> DEFINE new == [packets[id] EXCEPT !.state = "approved", !.stamp = mem[a].stamp]
  <2>1. /\ id \in Present /\ id \in Ids /\ packets[id] \in Packet /\ Sound(packets[id])
        /\ packets[id].state = "draft" /\ mem[a].stamp \in Stamps
    BY <1>0, <1>5, PresentIsPacket DEF ApproveState, ApproveMemory, ApproveSafe, Typed, Safe
  <2>2. /\ new \in Packet /\ new.state = "approved" /\ new.scope = packets[id].scope
        /\ new.rows = packets[id].rows /\ new.rows \notin {"ready", "complete"}
    BY <2>1 DEF Packet, Sound
  <2> HIDE DEF new
  <2>3. Write(id, new) /\ Goto(a, "activate", mem[a])
    BY <1>5 DEF ApproveState, new
  <2>4. Stage(id) = "draft" /\ Stage(id)' = "approved"
    BY <2>1, <2>2, <2>3, WriteShows DEF Stage, Present
  <2> QED
    BY <1>0, <2>1, <2>2, <2>3, <2>4, StageWrite
<1>6. CASE ActivateWrite(a)
  <2> DEFINE new == [packets[id] EXCEPT !.rows = IF mem[a].rows = "queued" THEN "ready" ELSE mem[a].rows]
  <2>1. /\ id \in Present /\ id \in Ids /\ packets[id] \in Packet
        /\ packets[id].state = "approved" /\ mem[a].rows = packets[id].rows
        /\ packets[id].rows \notin {"ready", "complete"} /\ mem[a].rows \in Rows
    BY <1>0, <1>6, PresentIsPacket DEF ActivateWrite, ApproveMemory, ApproveSafe, Typed
  <2>2. /\ new \in Packet /\ new.state = "approved" /\ new.scope = packets[id].scope
        /\ new.rows = "ready" \/ new.rows = packets[id].rows
    BY <2>1 DEF Packet, Rows
  <2> HIDE DEF new
  <2>3. Write(id, new) /\ Goto(a, "idle", None)
    BY <1>6 DEF ActivateWrite, End, new
  <2>4. Stage(id) = "approved" /\ Stage(id)' \in {"approved", "active"}
    BY <2>1, <2>2, <2>3, WriteShows DEF Stage, Present
  <2> QED
    BY <1>0, <2>1, <2>2, <2>3, <2>4, StageWrite
<1> QED
  BY <1>2, <1>3, <1>4, <1>5, <1>6 DEF Approve

\* `complete-task` takes an active packet to complete; a second one that read
\* the same rows changes nothing.
LEMMA BuildLives ==
  ASSUME Typed, Safe, Fresh, NEW b \in Builders, Build(b)
  PROVE  Fresh' /\ [Life!Next]_<<StageNow, AboutNow>>
<1>0. b \in Processes /\ b \notin Runners /\ BuildMemory(b) /\ BuildSafe(b)
  BY ProcessAssumption DEF Processes, Typed, Memories, Safe
<1> SUFFICES ASSUME NEW id, id = mem[b].id PROVE Fresh' /\ [Life!Next]_<<StageNow, AboutNow>>
  OBVIOUS
<1>1. ASSUME NEW i \in Ids, BuildCheck(b, i) PROVE Fresh' /\ [Life!Next]_<<StageNow, AboutNow>>
  <2>1. \A r \in Runners : at'[r] = at[r] /\ mem'[r] = mem[r]
    BY <1>0, <1>1, GotoEffect DEF Typed, Processes, BuildCheck
  <2>2. UNCHANGED packets
    BY <1>1 DEF BuildCheck
  <2> QED
    BY <2>1, <2>2, StageKept DEF Choosing
<1>2. CASE BuildWrite(b)
  <2> DEFINE new == [packets[id] EXCEPT !.rows = "complete"]
  <2>1. /\ id \in Present /\ id \in Ids /\ packets[id] \in Packet
        /\ packets[id].state = "approved" /\ packets[id].rows \in {"ready", "complete"}
    BY <1>0, <1>2, PresentIsPacket DEF BuildWrite, BuildMemory, BuildSafe, Typed, Safe, Sound
  <2>2. /\ new \in Packet /\ new.state = "approved" /\ new.scope = packets[id].scope
        /\ new.rows = "complete"
    BY <2>1 DEF Packet
  <2> HIDE DEF new
  <2>3. Write(id, new) /\ Goto(b, "artifact", mem[b])
    BY <1>2 DEF BuildWrite, new
  <2>4. Stage(id) \in {"active", "complete"} /\ Stage(id)' = "complete"
    BY <2>1, <2>2, <2>3, WriteShows DEF Stage, Present
  <2> QED
    BY <1>0, <2>1, <2>2, <2>3, <2>4, StageWrite
<1>3. CASE BuildRecord(b)
  <2> DEFINE new == [packets[id] EXCEPT !.built = source]
  <2>1. id \in Present /\ id \in Ids /\ packets[id] \in Packet /\ source \in Sources
    BY <1>0, <1>3, PresentIsPacket DEF BuildRecord, BuildMemory, Typed, Counts
  <2>2. /\ new \in Packet /\ new.state = packets[id].state /\ new.scope = packets[id].scope
        /\ new.rows = packets[id].rows
    BY <2>1 DEF Packet
  <2> HIDE DEF new
  <2>3. Write(id, new) /\ Goto(b, "idle", None)
    BY <1>3 DEF BuildRecord, End, new
  <2>4. Stage(id)' = Stage(id)
    BY <2>1, <2>2, <2>3, WriteShows DEF Stage, Present
  <2> QED
    BY <1>0, <2>1, <2>2, <2>3, <2>4, StageWrite
<1> QED
  BY <1>1, <1>2, <1>3 DEF Build

\* Every step is a step of PacketLife or leaves it where it is.
LEMMA NextLives ==
  OneApprover /\ OneRunner /\ Typed /\ Safe /\ Fresh /\ [Next]_vars
    => Fresh' /\ [Life!Next]_<<StageNow, AboutNow>>
<1> SUFFICES ASSUME OneApprover, OneRunner, Typed, Safe, Fresh, [Next]_vars
             PROVE  Fresh' /\ [Life!Next]_<<StageNow, AboutNow>>
  OBVIOUS
<1>1. Typed'
  BY NextTyped
<1>2. CASE UNCHANGED <<packets, at, mem>>
  BY <1>2, StageKept DEF Choosing
<1>3. ASSUME NEW p \in Processes, Crash(p) PROVE Fresh' /\ [Life!Next]_<<StageNow, AboutNow>>
  <2>1. Goto(p, "idle", None) /\ UNCHANGED packets
    BY <1>3 DEF Crash, End
  <2>2. at'[p] = "idle" /\ \A q \in Processes \ {p} : at'[q] = at[q] /\ mem'[q] = mem[q]
    BY <2>1, GotoEffect DEF Typed
  <2>3. \A r \in Runners : Choosing(r)' => Choosing(r) /\ mem'[r].scope = mem[r].scope
    BY <2>2 DEF Choosing, Processes
  <2> QED
    BY <2>1, <2>3, StageKept
<1>4. CASE (\E scope \in Scopes : Edit(scope)) \/ ChangeContract \/ UNCHANGED vars
  BY <1>2, <1>4 DEF Edit, ChangeContract, vars
<1> QED
  BY <1>1, <1>3, <1>4, RunLives, ApproveLives, BuildLives DEF Next

\* The first state is one of the abstract lives.
LEMMA InitLives == Init => Fresh /\ Life!Init
BY DEF Init, Fresh, Choosing, Processes, Life!Init, Stage

\* With one `run` and one `approve-change` at a time, any number of builders and
\* any command killed anywhere, packets go from draft to complete one stage at a
\* time, and no second packet is opened for files that an open one is about
\* (create_or_select_change_packet and the commands that move a packet on).
THEOREM PacketsLiveOn == ASSUME OneApprover, OneRunner PROVE Spec => PacketsLive
<1>1. Init /\ [][Next]_vars => []Typed
  BY InitTyped, NextTyped, PTL
<1>2. Typed /\ Safe /\ Fresh /\ [Next]_vars => Fresh' /\ [Life!Next]_<<StageNow, AboutNow>>
  BY NextLives
<1>3. [Life!Next]_<<StageNow, AboutNow>> => [Life!Next]_<<[id \in Ids |-> Stage(id)],
        [id \in Ids |-> IF packets[id] = None THEN None ELSE packets[id].scope]>>
  BY DEF StageNow, AboutNow
<1> QED
  BY <1>1, <1>2, <1>3, InitLives, AlwaysSafe, PTL DEF Spec, PacketsLive, Life!Spec
=============================================================================
