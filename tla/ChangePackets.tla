--------------------------- MODULE ChangePackets ---------------------------
(***************************************************************************)
(* Change packets: how work that follows a completed project is isolated.  *)
(*                                                                         *)
(* `run` sees that the project has drifted from its proof and opens a      *)
(* packet .starforge/changes/CHANGE-n for the changed files; `approve-     *)
(* change` approves it and makes its rows ready; `complete-task` completes *)
(* them.  Every command is a process of its own that may die between two   *)
(* writes, each file is written atomically, and nothing locks a packet.    *)
(*                                                                         *)
(* A packet is five files.  change.md holds scope, state and time of       *)
(* approval, Plan.md the rows, impact.json what was derived, approval.json *)
(* the identity that was approved.  All rows of a packet go through the    *)
(* same transitions, so one row stands for them.  The proof the packet     *)
(* starts from does not change while it is open (see DoneGate), so it is   *)
(* left out of the record.                                                 *)
(***************************************************************************)
EXTENDS Naturals, FiniteSets, FiniteSetsExt

CONSTANTS
  Runners,      \* concurrent `run` commands
  Approvers,    \* concurrent `approve-change` commands
  Builders,     \* concurrent `complete-task` commands
  Scopes,       \* sets of changed files
  Unowned,      \* which scopes hold code that no row with a Verify command owns, and
                \* in which version of the contract: pairs of the two
  Stamps,       \* the times an approval can carry
  MaxPackets,   \* bound: number of packets
  MaxEdits,     \* bound: number of edits of the completed project
  MaxContract,  \* bound: number of changes of Blueprint, root Plan or Delivery Contract
  MaxCrashes,   \* bound: number of commands that die
  None          \* what is not there: a missing file, an unread packet

ASSUME ProcessAssumption ==
  /\ Runners \cap Approvers = {} /\ Runners \cap Builders = {}
  /\ Approvers \cap Builders = {}
ASSUME CountAssumption ==
  /\ MaxPackets \in Nat \ {0} /\ MaxEdits \in Nat
  /\ MaxContract \in Nat /\ MaxCrashes \in Nat

Ids       == 1 .. MaxPackets
Contracts == 0 .. MaxContract
Sources   == 0 .. MaxEdits
Processes == Runners \cup Approvers \cup Builders

\* Derived content is named by the contract version it was derived from.
\* `built` is the source in the rows' completion artifacts,
\* .starforge/state/complete-task-*.json.
Packet == [scope    : Scopes,
           state    : {"draft", "approved"},
           stamp    : Stamps \cup {None},
           rows     : {None, "queued", "ready", "complete"},
           plan     : Contracts \cup {None},
           impact   : Contracts \cup {None},
           approval : [stamp : Stamps, impact : Contracts, plan : Contracts]
                        \cup {None},
           built    : Sources \cup {None}]

ASSUME NoneAssumption ==
  /\ None \notin Contracts \cup Sources \cup Stamps /\ None \notin Packet
  /\ None \notin {"draft", "approved", "active", "queued", "ready", "complete"}
  /\ None \notin [stamp : Stamps, impact : Contracts, plan : Contracts]

VARIABLES
  packets,   \* .starforge/changes: packets[id], None for a missing directory
  drift,     \* the files changed since the proof
  source,    \* the present source
  contract,  \* version of what impacts are derived from
  at,        \* the next step of each command
  mem,       \* what each command has read
  crashes

vars == <<packets, drift, source, contract, at, mem, crashes>>

-----------------------------------------------------------------------------
(* Reading packets.                                                        *)

Present == {id \in Ids : packets[id] # None}

\* read_change_packet succeeds: approval.json, if there is one, is about this
\* impact and Plan, and carries the time that change.md carries.
ReadablePacket(p) ==
  p.approval # None =>
    /\ p.approval.impact = p.impact /\ p.approval.plan = p.plan
    /\ p.state = "approved" => p.approval.stamp = p.stamp

\* list_change_packets fails as a whole when one packet cannot be read.
AllReadable == \A id \in Present : ReadablePacket(packets[id])

\* _approval_identity_payload: impact and rows are what would be derived now.
Derivable(p) == p.impact = contract /\ p.plan = contract

\* approval_identity_is_current
IdentityCurrent(p) == p.state = "approved" /\ p.approval # None /\ Derivable(p)

\* create_or_select_change_packet: the packets it would select from.
Open(scope) ==
  {id \in Present : packets[id].scope = scope /\ packets[id].rows # "complete"}

\* change_packet_for_drift takes an open packet for the changed files before a
\* complete one, and completed_change_packet_covering_drift wants a complete one
\* that was approved as it stands and built from the present source.
Covered ==
  LET about == {id \in Present : packets[id].scope = drift} IN
    /\ about # {} /\ Open(drift) = {}
    /\ packets[Max(about)].built = source
    /\ IdentityCurrent(packets[Max(about)])

-----------------------------------------------------------------------------
Init ==
  /\ packets = [id \in Ids |-> None]
  /\ drift \in Scopes
  /\ source = 0
  /\ contract = 0
  /\ at = [p \in Processes |-> "idle"]
  /\ mem = [p \in Processes |-> None]
  /\ crashes = 0

Goto(p, step, m) == at' = [at EXCEPT ![p] = step] /\ mem' = [mem EXCEPT ![p] = m]
End(p) == Goto(p, "idle", None)
Write(id, p) == packets' = [packets EXCEPT ![id] = p]

(* ---- The project ------------------------------------------------------ *)

\* Somebody edits the completed project, the files changed so far or others.
Edit(scope) ==
  /\ source < MaxEdits
  /\ source' = source + 1
  /\ drift' = scope
  /\ UNCHANGED <<packets, contract, at, mem, crashes>>

\* Blueprint, root Plan or Delivery Contract change, and with them what
\* derive_change_impact_for_project returns.
ChangeContract ==
  /\ contract < MaxContract
  /\ contract' = contract + 1
  /\ UNCHANGED <<packets, drift, source, at, mem, crashes>>

(* ---- run --------------------------------------------------------------- *)

\* Mutant: `run` never looks for an open packet.
RunSelectAnew(r) ==
  /\ at[r] = "idle"
  /\ AllReadable /\ ~ Covered
  /\ Goto(r, "number", [scope |-> drift, derived |-> contract])
  /\ UNCHANGED <<packets, drift, source, contract, crashes>>


\* No completed packet covers the drift and none is open for it: derive one.
RunSelect(r) ==
  /\ at[r] = "idle"
  /\ AllReadable /\ ~ Covered
  /\ Open(drift) = {}
  /\ Goto(r, "number", [scope |-> drift, derived |-> contract])
  /\ UNCHANGED <<packets, drift, source, contract, crashes>>

\* next_change_id lists the packets once more.
RunNumber(r) ==
  /\ at[r] = "number"
  /\ IF AllReadable
       THEN Goto(r, "create",
              [scope |-> mem[r].scope, derived |-> mem[r].derived,
               id |-> 1 + Max(Present \cup {0})])
       ELSE End(r)
  /\ UNCHANGED <<packets, drift, source, contract, crashes>>

\* atomic_create_bundle: change.md and an empty Plan.md appear at once, and
\* only where there is no directory yet.
RunCreate(r) ==
  /\ at[r] = "create"
  /\ mem[r].id \in Ids
  /\ IF packets[mem[r].id] = None
       THEN /\ Write(mem[r].id,
                 [scope |-> mem[r].scope, state |-> "draft", stamp |-> None, rows |-> None,
                  plan |-> None, impact |-> None, approval |-> None,
                  built |-> None])
            /\ Goto(r, "plan", mem[r])
       ELSE End(r) /\ UNCHANGED packets
  /\ UNCHANGED <<drift, source, contract, crashes>>

\* plan_change_packet: the rows are written ...
RunPlan(r) ==
  /\ at[r] = "plan"
  /\ IF AllReadable /\ packets[mem[r].id].state = "draft"
       THEN /\ Write(mem[r].id,
                 [packets[mem[r].id] EXCEPT !.rows = "queued", !.plan = mem[r].derived])
            /\ Goto(r, "impact", mem[r])
       ELSE End(r) /\ UNCHANGED packets
  /\ UNCHANGED <<drift, source, contract, crashes>>

\* ... and then the impact.
RunImpact(r) ==
  /\ at[r] = "impact"
  /\ Write(mem[r].id, [packets[mem[r].id] EXCEPT !.impact = mem[r].derived])
  /\ End(r)
  /\ UNCHANGED <<drift, source, contract, crashes>>

(* ---- approve-change ---------------------------------------------------- *)

\* approval_blockers, which the impact of a packet lists
Blocked(p) == <<p.scope, p.impact>> \in Unowned

\* Only a draft can be approved.  A draft without an impact is approved without
\* an identity; one with an impact must have no blockers and be what would be
\* derived now.
ApproveRead(a, id, stamp) ==
  /\ at[a] = "idle"
  /\ id \in Present
  /\ AllReadable
  /\ packets[id].state = "draft"
  /\ \/ /\ packets[id].impact = None
        /\ Goto(a, "state", [id |-> id, stamp |-> stamp])
     \/ /\ ~ Blocked(packets[id]) /\ Derivable(packets[id])
        /\ Goto(a, "identity",
             [id |-> id, stamp |-> stamp,
              identity |-> [stamp |-> stamp, impact |-> contract, plan |-> contract]])
  /\ UNCHANGED <<packets, drift, source, contract, crashes>>

ApproveIdentity(a) ==
  /\ at[a] = "identity"
  /\ Write(mem[a].id, [packets[mem[a].id] EXCEPT !.approval = mem[a].identity])
  /\ Goto(a, "state", mem[a])
  /\ UNCHANGED <<drift, source, contract, crashes>>

\* Mutant: change.md gets the time of its own write.
ApproveStateLater(a) ==
  /\ at[a] = "state"
  /\ \E stamp \in Stamps :
       Write(mem[a].id, [packets[mem[a].id] EXCEPT !.state = "approved", !.stamp = stamp])
  /\ Goto(a, "activate", mem[a])
  /\ UNCHANGED <<drift, source, contract, crashes>>

\* change.md is written from the text that was read when it was a draft.
ApproveState(a) ==
  /\ at[a] = "state"
  /\ Write(mem[a].id,
       [packets[mem[a].id] EXCEPT !.state = "approved", !.stamp = mem[a].stamp])
  /\ Goto(a, "activate", mem[a])
  /\ UNCHANGED <<drift, source, contract, crashes>>

\* Mutant: rows are activated whatever was approved.
ActivateReadAny(a) ==
  /\ at[a] = "activate"
  /\ Goto(a, "rows", [id |-> mem[a].id, rows |-> packets[mem[a].id].rows])
  /\ UNCHANGED <<packets, drift, source, contract, crashes>>

\* activate_change_plan reads the packet and its rows ...
ActivateRead(a) ==
  /\ at[a] = "activate"
  /\ IF AllReadable /\ IdentityCurrent(packets[mem[a].id])
       THEN Goto(a, "rows", [id |-> mem[a].id, rows |-> packets[mem[a].id].rows])
       ELSE End(a)
  /\ UNCHANGED <<packets, drift, source, contract, crashes>>

\* Mutant: rows get a status no row has.
ActivateWriteActive(a) ==
  /\ at[a] = "rows"
  /\ Write(mem[a].id, [packets[mem[a].id] EXCEPT !.rows = "active"])
  /\ End(a)
  /\ UNCHANGED <<drift, source, contract, crashes>>

\* ... and writes them with every queued one made ready.
ActivateWrite(a) ==
  /\ at[a] = "rows"
  /\ Write(mem[a].id,
       [packets[mem[a].id] EXCEPT
          !.rows = IF mem[a].rows = "queued" THEN "ready" ELSE mem[a].rows])
  /\ End(a)
  /\ UNCHANGED <<drift, source, contract, crashes>>

(* ---- complete-task ------------------------------------------------------ *)

\* task_plan and evaluate_task_completion: every packet can be read, and the
\* row is in a completable status.
BuildCheck(b, id) ==
  /\ at[b] = "idle"
  /\ id \in Present /\ AllReadable
  /\ packets[id].rows = "ready"
  /\ Goto(b, "complete", [id |-> id])
  /\ UNCHANGED <<packets, drift, source, contract, crashes>>

\* update_plan_task_row
BuildWrite(b) ==
  /\ at[b] = "complete"
  /\ Write(mem[b].id, [packets[mem[b].id] EXCEPT !.rows = "complete"])
  /\ Goto(b, "artifact", mem[b])
  /\ UNCHANGED <<drift, source, contract, crashes>>

\* The completion artifact takes its snapshot after the row is written.
BuildRecord(b) ==
  /\ at[b] = "artifact"
  /\ Write(mem[b].id, [packets[mem[b].id] EXCEPT !.built = source])
  /\ End(b)
  /\ UNCHANGED <<drift, source, contract, crashes>>

\* A command is killed: its next write never happens.
Crash(p) ==
  /\ at[p] # "idle"
  /\ crashes < MaxCrashes
  /\ crashes' = crashes + 1
  /\ End(p)
  /\ UNCHANGED <<packets, drift, source, contract>>

Run(r) == RunSelect(r) \/ RunNumber(r) \/ RunCreate(r) \/ RunPlan(r) \/ RunImpact(r)
Approve(a) ==
  \/ \E id \in Ids, stamp \in Stamps : ApproveRead(a, id, stamp)
  \/ ApproveIdentity(a) \/ ApproveState(a) \/ ActivateRead(a) \/ ActivateWrite(a)
Build(b) == (\E id \in Ids : BuildCheck(b, id)) \/ BuildWrite(b) \/ BuildRecord(b)

Next ==
  \/ \E scope \in Scopes : Edit(scope)
  \/ ChangeContract
  \/ \E r \in Runners : Run(r)
  \/ \E a \in Approvers : Approve(a)
  \/ \E b \in Builders : Build(b)
  \/ \E p \in Processes : Crash(p)

Spec == Init /\ [][Next]_vars

\* The loop calls `run` before every step, the user approves what is pending,
\* and builders complete what is ready.
Fairness ==
  /\ \A r \in Runners : WF_vars(Run(r))
  /\ \A a \in Approvers : WF_vars(Approve(a))
  /\ \A b \in Builders : WF_vars(Build(b))

LiveSpec == Spec /\ Fairness

-----------------------------------------------------------------------------
(* Properties.                                                             *)

\* Every packet is absent or has its five files, and every command is at one
\* of its steps.
TypeOK ==
  /\ packets \in [Ids -> Packet \cup {None}]
  /\ drift \in Scopes /\ source \in Sources
  /\ contract \in Contracts
  /\ \A p \in Processes : at[p] \in
       {"idle", "number", "create", "plan", "impact", "identity", "state", "activate",
        "rows", "complete", "artifact"}
  /\ crashes \in 0 .. MaxCrashes

\* Whatever is killed when, what the commands leave behind can be read: one
\* packet that cannot be stops every command of the project.  approval.json and
\* change.md are written one after the other.
Readable == AllReadable

\* Work on a packet only starts from rows and an impact that somebody approved:
\* rows that are ready or complete belong to an approved packet whose approval
\* is about these rows and this impact.
BuiltAsApproved ==
  \A id \in Present :
    packets[id].rows \in {"ready", "complete"} =>
      /\ packets[id].state = "approved"
      /\ packets[id].approval # None
      /\ packets[id].approval.plan = packets[id].plan
      /\ packets[id].approval.impact = packets[id].impact

\* Seen from outside, packets only go through the stages of PacketLife.
Stage(id) ==
  IF packets[id] = None THEN None
  ELSE IF packets[id].state = "draft" THEN "draft"
  ELSE IF packets[id].rows = "complete" THEN "complete"
  ELSE IF packets[id].rows = "ready" THEN "active" ELSE "approved"

Life == INSTANCE PacketLife WITH
  stage <- [id \in Ids |-> Stage(id)],
  about <- [id \in Ids |-> IF packets[id] = None THEN None ELSE packets[id].scope]

PacketsLive == Life!Spec

\* No command gets a packet out of this: a draft that approve-change refuses, or an
\* approved packet that is not activated, because a command was killed, the
\* contract changed or `run` had not planned it yet when it was approved.
Stuck(p) ==
  \/ p.state = "draft" /\ p.impact # None /\ (Blocked(p) \/ ~ Derivable(p))
  \/ p.state = "approved" /\ p.rows \in {None, "queued"}

\* Post-completion work gets through, or ends in one of the states named: edits,
\* changed contracts and commands that die are finite in number, and from some time
\* on the drift is covered by a completed packet or its open packet is stuck.  One
\* thing may not happen again and again: `run` looks between the row that
\* complete-task writes and its artifact, when a finished packet does not cover
\* anything and gets a successor.
RecordedFirst == \A b \in Builders, r \in Runners :
  at[b] = "artifact" /\ at[r] = "number" => packets[mem[b].id].scope # mem[r].scope
DriftGetsCovered ==
  []RecordedFirst => <>[](Covered \/ \E id \in Open(drift) : Stuck(packets[id]))

\* runtime_orchestration.py tells what to do about an approved packet without a
\* current identity: "Recreate or reapprove its derived contract before build."
\* So no open packet is in this state for ever.
Unbound(id) ==
  /\ id \in Open(drift)
  /\ packets[id].state = "approved" /\ ~ IdentityCurrent(packets[id])
ReapprovalHelps == \A id \in Ids : Unbound(id) ~> ~ Unbound(id)
=============================================================================
