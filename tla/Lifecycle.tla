----------------------------- MODULE Lifecycle -----------------------------
(***************************************************************************)
(* The lifecycle: how `run` finds the phase of a project, what it saves in *)
(* .starforge/state.json, and how a project that follows the advice of the *)
(* saved phase gets to `done`.                                             *)
(*                                                                         *)
(* The phase is not stored and advanced: each `run` computes it anew from  *)
(* the files.  There is one exception.  Foundation evidence is bound to a  *)
(* source, and feature work changes the source; evidence that is no longer *)
(* current still counts when the saved state says that feature work was    *)
(* under way on exactly this evidence (lifecycle_gate_state).  So the file *)
(* that `run` writes decides what a later `run` and `done` may pass.  The  *)
(* files that the evidence lists are not excused: their hashes are         *)
(* compared whenever it is read.                                           *)
(*                                                                         *)
(* The gates of `done` and the files of a change packet have modules of    *)
(* their own (DoneGate, ChangePackets); here each command but `run` is one *)
(* step.  Work goes forward, no edit brings an earlier source back: what   *)
(* is bound to a source is about the present one, or outdated for good.    *)
(* That is all the hash comparisons of the gates tell, and all that is     *)
(* kept of a source.                                                       *)
(***************************************************************************)
EXTENDS Naturals

CONSTANTS
  Legacy,      \* the Blueprint has no lifecycle contract (a v0.3 project)
  MaxEdits,    \* bound: edits of the code
  Edited,      \* bound: the files of code that are edited
  MaxText,     \* bound: edits of the Blueprint; the third one is an amendment
  MaxRecords,  \* bound: how often foundation evidence is recorded
  Listings,    \* the sets of source files that foundation evidence may list
  MaxVoids,    \* bound: how often the Foundation Contract or a listed file that is
               \* not part of the source changes
  MaxFaults,   \* bound: how often the source cannot be hashed
  None

ASSUME LegacyAssumption == Legacy \in BOOLEAN
ASSUME BoundAssumption ==
  /\ MaxEdits \in Nat /\ MaxText \in Nat /\ MaxRecords \in Nat /\ MaxVoids \in Nat /\ MaxFaults \in Nat

\* "stray": a file, not a document, that no row with a Verify command owns.
Files  == {"code", "stray", "text", "plan", "lock"}
Scopes == SUBSET (Files \ {"lock"})

ASSUME EditedAssumption  == Edited \subseteq {"code", "stray"}
ASSUME ListingAssumption == Listings \subseteq SUBSET Files

Records == 1 .. MaxRecords

\* Evidence is named by its record; `fresh`: about the present source, `intact`: its
\* artifacts and the contract it is bound to are as it says, `lists`: files of the
\* source among its artifacts.
Evidence == [id : Records, fresh : BOOLEAN, intact : BOOLEAN, lists : Listings]

\* `derived`: what would be derived now, `built`: from the present source.
Packet == [state : {"draft", "approved"}, rows : {"queued", "ready", "complete"},
           derived : BOOLEAN, built : BOOLEAN]

FeaturePhases == {"build", "review", "deliver", "done", "amend"}
Phases == FeaturePhases \cup {"blocked", "intake", "design", "plan", "foundation"}
State  == [phase : Phases \cup {"none"}, gate : Records \cup {None}]
Proof  == [gate : Records \cup {None}]

ASSUME NoneAssumption == None \notin Records \cup Evidence \cup State \cup Proof

VARIABLES
  text,        \* Blueprint.md: the first edit decides the intake, the second the design
  lock,        \* Blueprint.lock.json: whether there is one, and for which text
  plan,        \* the rows of Plan.md; one row stands for all
  edits,
  changed,     \* the files that differ from the proof's commit
  moved,       \* HEAD is not the proof's commit
  clean,       \* HEAD holds the present files
  fault,       \* the source cannot be hashed at present
  faults,
  foundation,  \* .starforge/foundation/evidence.json
  voids,
  delivery,    \* the delivery evidence is about the present source
  verified,    \* every task has passed its verification in the present source
  review,      \* the review of the present source
  packets,     \* the latest change packet of each set of files since the proof
  proof,       \* .starforge/final/proof.json: the foundation it passed
  saved,       \* .starforge/state.json
  at, mem,     \* the next step of `run` and the payload it has computed
  founded      \* history: the evidence that was found to be current

files  == <<text, lock, plan, edits, changed>>
work   == <<foundation, voids, delivery, verified, review>>
rest   == <<moved, clean, fault, faults, proof>>
runner == <<saved, at, mem, founded>>
vars   == <<files, work, packets, rest, runner>>

-----------------------------------------------------------------------------
(* What the files say.                                                     *)

\* blueprint_lock_state.  A v0.3 Blueprint carries its approval in its text.
Locked   == lock = "current"
Readable == Legacy /\ lock = "none" /\ text >= 2
Approved == Locked \/ Readable

\* detect_drift
Drifted == proof # None /\ (moved \/ changed # {})

\* change_scope_files: lock and proof directory are not counted.
Scope == changed \ {"lock"}

\* change_packet_for_drift
Selected == IF Drifted /\ Scope \in DOMAIN packets THEN packets[Scope] ELSE None

\* completed_change_packet_covering_drift: complete, approved as it would be
\* derived now, and built from the present source.
Covered == Selected = [state |-> "approved", rows |-> "complete", derived |-> TRUE, built |-> TRUE]

Actionable == Drifted /\ ~ Covered

\* A readable approval is not enough for an amendment.
PlanComplete == Approved /\ plan # "none" /\ ~ (Readable /\ Actionable)

\* The rows that are worked on: the packet's once there is one.
EffectiveRows == IF Selected = None THEN plan ELSE Selected.rows

\* read_envelope(verify_artifacts=True) refuses evidence whose artifacts differ,
\* and no exception is made for that; nor for another contract.
Valid(evidence) == evidence # None /\ evidence.intact

FoundationCurrent == Valid(foundation) /\ foundation.fresh /\ ~ fault

GateIf(historical) ==
  IF Valid(foundation) /\ (FoundationCurrent \/ historical) THEN foundation.id ELSE None

\* Mutant: any feature phase will do, whatever evidence it was reached with.
GateByPhase == GateIf(saved.phase \in FeaturePhases)

\* Mutant: an amendment is not feature work.
GateBeforeAmend ==
  GateIf(saved.phase \in FeaturePhases \ {"amend"} /\ saved.gate = foundation.id)

\* lifecycle_gate_state for foundation: the evidence that passes, or None.
FoundationGate == GateIf(saved.phase \in FeaturePhases /\ saved.gate = foundation.id)

\* done_payload.  A verification counts for the rows of Plan.md and of the packet.
DonePasses ==
  /\ ~ fault /\ clean
  /\ Approved /\ plan = "complete" /\ verified
  /\ ~ Actionable
  /\ ~ Legacy => FoundationGate # None /\ delivery
  /\ review = "clear"

\* resolve_phase: what is pending ...
Pending == [
  blocked    |-> fault,
  intake     |-> ~ Legacy /\ ~ Approved /\ text = 0,
  design     |-> ~ Legacy /\ ~ Approved /\ text < 2,
  plan       |-> ~ PlanComplete,
  foundation |-> ~ Legacy /\ FoundationGate = None,
  amend      |-> Actionable,
  build      |-> EffectiveRows # "complete",
  review     |-> review # "clear" \/ (Legacy /\ ~ DonePasses),
  deliver    |-> ~ Legacy /\ ~ delivery,
  done       |-> TRUE]

\* ... and the order in which it is looked at.
Rank == [blocked |-> 1, intake |-> 2, design |-> 3, plan |-> 4, foundation |-> 5,
         amend |-> 6, build |-> 7, review |-> 8, deliver |-> 9, done |-> 10]

Phase == CHOOSE p \in Phases :
           Pending[p] /\ \A q \in Phases : Pending[q] => Rank[p] <= Rank[q]

-----------------------------------------------------------------------------
(* `init` has written its templates and no decision is made yet.           *)

Init ==
  /\ text = 0 /\ lock = "none" /\ plan = "none" /\ edits = 0 /\ changed = {}
  /\ foundation = None /\ voids = 0 /\ delivery = FALSE /\ verified = FALSE
  /\ review = "none"
  /\ packets = << >>
  /\ moved = FALSE /\ clean = FALSE /\ fault = FALSE /\ faults = 0 /\ proof = None
  /\ saved = [phase |-> "none", gate |-> None]
  /\ at = "prepare" /\ mem = None /\ founded = {}

\* A file has changed: nothing that is bound to the source is about it any
\* more, and with the Blueprint the impact of a packet changes, too.
Outdate(file) ==
  /\ changed' = IF proof = None THEN {} ELSE changed \cup {file}
  /\ clean' = FALSE /\ delivery' = FALSE /\ verified' = FALSE /\ review' = "none"
  /\ foundation' = IF foundation = None THEN None
                   ELSE [foundation EXCEPT !.fresh = FALSE, !.intact = @ /\ file \notin foundation.lists]
  /\ packets' = [s \in DOMAIN packets |->
       [packets[s] EXCEPT !.built = FALSE, !.derived = @ /\ file # "text"]]
  /\ UNCHANGED <<moved, fault, faults, voids, proof, saved, mem, founded>>

(* ---- run ---------------------------------------------------------------- *)

\* Queued rows of an approved project become ready; no task depends on another.
Promote ==
  /\ Approved /\ plan = "queued"
  /\ plan' = "ready" /\ Outdate("plan")
  /\ UNCHANGED <<text, lock, edits>>

Draft == [state |-> "draft", rows |-> "queued", derived |-> TRUE, built |-> FALSE]

\* Drift after a proof gets a packet of its own, unless one for these files is
\* open.
Isolate ==
  /\ ~ (Approved /\ plan = "queued")
  /\ packets' = IF /\ ~ fault /\ Actionable /\ Scope # {} /\ Locked
                   /\ Selected # None => Selected.rows = "complete"
                THEN [s \in DOMAIN packets \cup {Scope} |-> IF s = Scope THEN Draft ELSE packets[s]]
                ELSE packets
  /\ UNCHANGED <<files, work, rest, saved, mem, founded>>

\* Rows are queued only before the first proof, and packets are opened only
\* after it, so a `run` does one of both at most.
Prepare ==
  /\ at = "prepare" /\ at' = "read"
  /\ Promote \/ Isolate

\* canonical_state_payload
Read ==
  /\ at = "read" /\ at' = "save"
  /\ mem' = [phase |-> Phase, gate |-> FoundationGate]
  /\ founded' = IF FoundationCurrent THEN founded \cup {foundation.id} ELSE founded
  /\ UNCHANGED <<files, work, packets, rest, saved>>

Save ==
  /\ at = "save" /\ at' = "prepare"
  /\ saved' = mem /\ mem' = None
  /\ UNCHANGED <<files, work, packets, rest, founded>>

Run == Prepare \/ Read \/ Save

(* ---- Planner, builder, reviewer, user ----------------------------------- *)

EditBlueprint ==
  /\ text < MaxText /\ text' = text + 1
  /\ lock' = IF lock = "none" THEN "none" ELSE "outdated"
  /\ Outdate("text")
  /\ UNCHANGED <<plan, edits, at>>

EditCode ==
  /\ edits < MaxEdits /\ edits' = edits + 1
  /\ \E file \in Edited : Outdate(file)
  /\ UNCHANGED <<text, lock, plan, at>>

WritePlan ==
  /\ plan = "none" /\ plan' = "queued"
  /\ Outdate("plan")
  /\ UNCHANGED <<text, lock, edits, at>>


\* approve-blueprint keeps a lock that already approves the text.
ApproveBlueprint ==
  /\ ~ Locked /\ lock' = "current"
  /\ Outdate("lock")
  /\ UNCHANGED <<text, plan, edits, at>>

\* complete-task for the rows of Plan.md
CompleteTask ==
  /\ plan = "ready" /\ verified /\ ~ fault
  /\ plan' = "complete"
  /\ Outdate("plan")
  /\ UNCHANGED <<text, lock, edits, at>>

\* The same evidence again changes nothing.  An envelope lists what its author
\* likes, and a v1 file lists nothing.
RecordFoundation ==
  /\ ~ fault /\ ~ FoundationCurrent
  /\ \E lists \in Listings, last \in 0 .. MaxRecords - 1 :
       /\ last = IF foundation = None THEN 0 ELSE foundation.id
       /\ foundation' = [id |-> last + 1, fresh |-> TRUE, intact |-> TRUE, lists |-> lists]
  /\ UNCHANGED <<files, voids, delivery, verified, review, packets, rest, runner>>

RecordDelivery ==
  /\ ~ fault
  /\ delivery' = TRUE
  /\ UNCHANGED <<files, foundation, voids, verified, review, packets, rest, runner>>

Verify ==
  /\ ~ fault
  /\ verified' = TRUE
  /\ UNCHANGED <<files, foundation, voids, delivery, review, packets, rest, runner>>

\* Reviewers look at a source once and leave findings open or not.
WriteReview(result) ==
  /\ ~ fault /\ review = "none"
  /\ review' = result
  /\ UNCHANGED <<files, foundation, voids, delivery, verified, packets, rest, runner>>

Waive ==
  /\ review = "open" /\ review' = "clear"
  /\ UNCHANGED <<files, foundation, voids, delivery, verified, packets, rest, runner>>

\* Mutant: HEAD moves although there is no proof yet that it could move from.
CommitAlways ==
  /\ ~ clean
  /\ clean' = TRUE /\ moved' = TRUE
  /\ UNCHANGED <<files, work, packets, fault, faults, proof, runner>>

\* A commit of what has changed.
Commit ==
  /\ ~ clean
  /\ clean' = TRUE /\ moved' = (proof # None)
  /\ UNCHANGED <<files, work, packets, fault, faults, proof, runner>>

\* approve-change refuses a draft that is no longer what would be derived, and one
\* with approval_blockers.
Approvable(s) == packets[s].state = "draft" /\ packets[s].derived /\ "stray" \notin s

ApproveChange(s) ==
  /\ Approvable(s)
  /\ packets' = [packets EXCEPT ![s].state = "approved", ![s].rows = "ready"]
  /\ UNCHANGED <<files, work, rest, runner>>

\* complete-task for the rows of a packet
CompletePacket(s) ==
  /\ packets[s].rows = "ready" /\ verified /\ ~ fault
  /\ packets' = [packets EXCEPT ![s].rows = "complete", ![s].built = TRUE]
  /\ UNCHANGED <<files, work, rest, runner>>

\* `done` replaces the proof; packets of an earlier source match no more.
Done ==
  /\ DonePasses
  /\ proof' = [gate |-> FoundationGate]
  /\ moved' = FALSE /\ changed' = {} /\ packets' = << >>
  /\ founded' = IF FoundationCurrent THEN founded \cup {foundation.id} ELSE founded
  /\ UNCHANGED <<text, lock, plan, edits, work, clean, fault, faults, saved, at, mem>>

(* ---- Mishaps -------------------------------------------------------------- *)

\* The Foundation Contract changes, or an artifact that is no file of the source.
VoidFoundation ==
  /\ voids < MaxVoids /\ voids' = voids + 1
  /\ foundation # None /\ foundation' = [foundation EXCEPT !.intact = FALSE]
  /\ UNCHANGED <<files, delivery, verified, review, packets, rest, runner>>

Fault ==
  /\ ~ fault /\ faults < MaxFaults
  /\ fault' = TRUE /\ faults' = faults + 1
  /\ UNCHANGED <<files, work, packets, moved, clean, proof, runner>>

Repair ==
  /\ fault /\ fault' = FALSE
  /\ UNCHANGED <<files, work, packets, moved, clean, faults, proof, runner>>

Next ==
  \/ Prepare \/ Read \/ Save
  \/ EditBlueprint \/ EditCode \/ WritePlan \/ ApproveBlueprint \/ CompleteTask
  \/ RecordFoundation \/ RecordDelivery \/ Verify \/ Waive \/ Commit \/ Done
  \/ \E result \in {"open", "clear"} : WriteReview(result)
  \/ \E s \in DOMAIN packets : ApproveChange(s) \/ CompletePacket(s)
  \/ VoidFoundation \/ Fault \/ Repair

Spec == Init /\ [][Next]_vars

-----------------------------------------------------------------------------
(* Properties.                                                             *)

FilesTyped ==
  /\ text \in 0 .. MaxText /\ lock \in {"none", "current", "outdated"}
  /\ plan \in {"none", "queued", "ready", "complete"} /\ edits \in 0 .. MaxEdits
  /\ changed \subseteq Files

WorkTyped ==
  /\ foundation \in Evidence \cup {None} /\ voids \in 0 .. MaxVoids
  /\ delivery \in BOOLEAN /\ verified \in BOOLEAN
  /\ review \in {"none", "open", "clear"}

PacketsTyped ==
  /\ DOMAIN packets \subseteq Scopes
  /\ \A s \in DOMAIN packets : packets[s] \in Packet

RestTyped ==
  /\ moved \in BOOLEAN /\ clean \in BOOLEAN
  /\ fault \in BOOLEAN /\ faults \in 0 .. MaxFaults
  /\ proof \in Proof \cup {None}

RunnerTyped ==
  /\ saved \in State
  /\ at \in {"prepare", "read", "save"}
  /\ mem \in State \cup {None} /\ (mem = None <=> at # "save")
  /\ founded \subseteq Records

\* Every variable has its type, and what comes after a completion, packets and
\* changes, there is only with a proof.
TypeOK ==
  /\ FilesTyped /\ WorkTyped /\ PacketsTyped /\ RestTyped /\ RunnerTyped
  /\ proof = None => packets = << >> /\ changed = {} /\ ~ moved

\* The evidence `gate` was once found to be about the source of that moment.
Sound(gate) == Legacy \/ gate \in founded

\* Whatever the exception for feature work lets pass goes back to an
\* evaluation of the very same evidence that found it current: feature work and
\* completions never rest on evidence that was outdated when it was first read.
Founded ==
  /\ saved.phase \in FeaturePhases => Sound(saved.gate)
  /\ proof # None => Sound(proof.gate)

\* The evidence that the saved state was reached with, as far as it is not void.
Standing == Valid(foundation) /\ saved.gate = foundation.id

\* Feature work, amendments included, is not sent back to the foundation by the
\* changes it makes, unless it changes a file that the evidence lists: from a
\* feature phase, with the evidence it was reached with, its artifacts and its
\* contract, `run` never saves the phase "foundation".
FoundationStands ==
  [][saved' # saved /\ saved.phase \in FeaturePhases /\ Standing
     => saved'.phase # "foundation"]_vars

\* README.md: "A later source change does not restart the whole project".  A
\* completed project does not go back to the foundation from a state that was
\* saved with its present foundation evidence.
NoRestart ==
  [][saved' # saved /\ proof # None /\ Approved /\ Standing
     => saved'.phase # "foundation"]_vars

\* docs/faq.md: when a completed project reopens, "v0.4 creates or selects an
\* isolated change packet".
DriftSelected ==
  [][(at = "prepare" /\ at' = "read" /\ Drifted /\ Locked /\ ~ fault)
     => Selected' # None]_vars

-----------------------------------------------------------------------------
(* Liveness.  The loop calls `run` again and again and somebody does what the *)
(* operating card of the saved phase asks for.                                *)

Advised(phases, A) == saved.phase \in phases /\ A

Advice ==
  /\ WF_vars(Advised({"blocked"}, Repair))
  /\ WF_vars(Advised({"intake"}, text < 1 /\ EditBlueprint))
  /\ WF_vars(Advised({"design"}, text < 2 /\ EditBlueprint))
  /\ WF_vars(Advised({"plan"}, ApproveBlueprint))
  /\ WF_vars(Advised({"plan"}, WritePlan))
  /\ WF_vars(Advised({"foundation"}, RecordFoundation))
  /\ WF_vars(Advised({"build", "amend", "review", "done"}, Verify))
  /\ WF_vars(Advised({"build"}, CompleteTask))
  /\ WF_vars(Advised({"amend"}, Scope \in DOMAIN packets /\ ApproveChange(Scope)))
  /\ WF_vars(Advised({"amend"}, Scope \in DOMAIN packets /\ CompletePacket(Scope)))
  /\ WF_vars(Advised({"review"}, \E result \in {"open", "clear"} : WriteReview(result)))
  /\ WF_vars(Advised({"review"}, Waive))
  /\ WF_vars(Advised({"deliver"}, RecordDelivery))
  /\ WF_vars(Advised({"review", "done"}, Commit))
  /\ WF_vars(Advised({"review", "done"}, Done))

\* Nobody records a foundation or approves a Blueprint unasked.
Asked ==
  /\ RecordFoundation => saved.phase = "foundation"
  /\ ApproveBlueprint => saved.phase = "plan"
  /\ RecordDelivery => saved.phase = "deliver"
  /\ (\E result \in {"open", "clear"} : WriteReview(result)) => saved.phase = "review"

LiveSpec == Init /\ [][Next /\ Asked]_vars /\ WF_vars(Run) /\ Advice

Complete == saved.phase = "done" /\ proof # None /\ ~ Drifted

\* `run` advises to approve the draft that it selects, and approve-change refuses:
\* the Blueprint was edited when the draft was there already, or the draft is about
\* a file that nobody owns.  No command derives an open draft anew, so only an edit
\* of a further file leads out.
DeadEnd == saved.phase = "amend" /\ Selected # None /\ Selected.state = "draft" /\ ~ Approvable(Scope)


=============================================================================
