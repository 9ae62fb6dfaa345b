-------------------------- MODULE Lifecycle_proofs --------------------------
(* Feature work rests on foundation evidence that was once current.        *)
EXTENDS Lifecycle, TLAPS

\* One phase is pending and comes first, so there is a phase.
LEMMA PhaseChosen ==
  /\ Phase \in Phases
  /\ Pending[Phase]
  /\ \A q \in Phases : Pending[q] => Rank[Phase] <= Rank[q]
<1> DEFINE First(p) == Pending[p] /\ \A q \in Phases : Pending[q] => Rank[p] <= Rank[q]
<1>1. \E p \in Phases : First(p)
  <2> DEFINE Names == {"blocked", "intake", "design", "plan", "foundation",
                       "amend", "build", "review", "deliver", "done"}
  <2>1. Phases = Names
    BY DEF Phases, FeaturePhases
  <2>2. Pending["done"]
    BY DEF Pending
  <2> HIDE DEF Pending
  <2> QED
    BY <2>1, <2>2 DEF Rank
<1> QED
  BY <1>1 DEF Phase

\* No feature phase is reached past a pending foundation: it ranks before them.
LEMMA FeatureNeedsFoundation ==
  ASSUME ~ Legacy, Phase \in FeaturePhases
  PROVE  FoundationGate # None
<1> SUFFICES ASSUME FoundationGate = None
             PROVE  FALSE
  OBVIOUS
<1>1. Pending["foundation"]
  BY DEF Pending
<1>2. "foundation" \in Phases
  BY DEF Phases
<1>3. Rank[Phase] <= Rank["foundation"]
  BY <1>1, <1>2, PhaseChosen
<1> QED
  BY <1>3 DEF FeaturePhases, Rank

(* Founded is not inductive: what `run` has computed is saved only later.   *)
IInv ==
  /\ Founded
  /\ at = "save" /\ mem.phase \in FeaturePhases => Sound(mem.gate)

\* Evidence that passes is current now or was the saved evidence of a feature
\* phase, so in both cases it is in `founded` when it has been evaluated.
LEMMA GateSound ==
  ASSUME Founded, ~ Legacy, FoundationGate # None
  PROVE  FoundationGate \in (IF FoundationCurrent THEN founded \cup {foundation.id} ELSE founded)
<1>1. /\ FoundationGate = foundation.id
      /\ FoundationCurrent \/ (saved.phase \in FeaturePhases /\ saved.gate = foundation.id)
  BY DEF FoundationGate, GateIf
<1>2. CASE FoundationCurrent
  BY <1>1, <1>2
<1>3. CASE ~ FoundationCurrent
  BY <1>1, <1>3 DEF Founded, Sound
<1> QED
  BY <1>2, <1>3

\* Steps that leave the saved state, the proof, what `run` has computed and the
\* history alone leave the invariant alone.
LEMMA Untouched ==
  ASSUME IInv, UNCHANGED <<saved, proof, mem, founded>>, at' = at \/ at' # "save"
  PROVE  IInv'
BY DEF IInv, Founded, Sound

\* Every step keeps the invariant.
LEMMA Inductive == IInv /\ [Next]_vars => IInv'
<1> SUFFICES ASSUME IInv, [Next]_vars
             PROVE  IInv'
  OBVIOUS
<1>1. CASE Prepare
  <2>1. CASE Promote
    BY <1>1, <2>1, Untouched DEF Prepare, Promote, Outdate
  <2>2. CASE Isolate
    BY <1>1, <2>2, Untouched DEF Prepare, Isolate, rest
  <2> QED
    BY <1>1, <2>1, <2>2 DEF Prepare
<1>2. CASE Read
  <2>1. founded \subseteq founded'
    BY <1>2 DEF Read
  <2>2. mem' = [phase |-> Phase, gate |-> FoundationGate]
    BY <1>2 DEF Read
  <2>3. mem'.phase \in FeaturePhases => Sound(mem.gate)'
    <3> SUFFICES ASSUME Phase \in FeaturePhases, ~ Legacy
                 PROVE  FoundationGate \in founded'
      BY <2>2 DEF Sound
    <3> QED
      BY <1>2, FeatureNeedsFoundation, GateSound DEF Read, IInv
  <2>4. Founded'
    BY <1>2, <2>1 DEF Read, rest, IInv, Founded, Sound
  <2> QED
    BY <2>3, <2>4 DEF IInv
<1>3. CASE Save
  BY <1>3 DEF Save, rest, IInv, Founded, Sound
<1>4. CASE EditBlueprint \/ EditCode \/ WritePlan \/ ApproveBlueprint \/ CompleteTask
  BY <1>4, Untouched
     DEF EditBlueprint, EditCode, WritePlan, ApproveBlueprint, CompleteTask, Outdate
<1>5. CASE RecordFoundation \/ RecordDelivery \/ Verify \/ Waive \/ Commit
  BY <1>5, Untouched
     DEF RecordFoundation, RecordDelivery, Verify, Waive, Commit, rest, runner
<1>6. CASE Done
  <2>1. founded \subseteq founded'
    BY <1>6 DEF Done
  <2>2. ~ Legacy => FoundationGate \in founded'
    <3> SUFFICES ASSUME ~ Legacy
                 PROVE  FoundationGate \in founded'
      OBVIOUS
    <3>1. FoundationGate # None
      BY <1>6 DEF Done, DonePasses
    <3> QED
      BY <1>6, <3>1, GateSound DEF Done, IInv
  <2>3. proof'.gate = FoundationGate /\ UNCHANGED <<saved, at, mem>>
    BY <1>6 DEF Done
  <2> QED
    BY <2>1, <2>2, <2>3 DEF IInv, Founded, Sound
<1>7. CASE \E result \in {"open", "clear"} : WriteReview(result)
  BY <1>7, Untouched DEF WriteReview, rest, runner
<1>8. CASE \E s \in DOMAIN packets : ApproveChange(s) \/ CompletePacket(s)
  BY <1>8, Untouched DEF ApproveChange, CompletePacket, rest, runner
<1>9. CASE VoidFoundation \/ Fault \/ Repair
  BY <1>9, Untouched DEF VoidFoundation, Fault, Repair, rest, runner
<1>10. CASE UNCHANGED vars
  BY <1>10, Untouched DEF vars, rest, runner
<1> QED
  BY <1>1, <1>2, <1>3, <1>4, <1>5, <1>6, <1>7, <1>8, <1>9, <1>10 DEF Next

\* The saved phase of every `run` and the proof of every `done` rest on evidence
\* that was found current, although lifecycle_gate_state lets outdated evidence
\* pass (runtime_plan.py).
THEOREM WorkIsFounded == Spec => []Founded
<1>1. Init => IInv
  BY DEF Init, IInv, Founded, FeaturePhases
<1>2. IInv => Founded
  BY DEF IInv
<1> QED
  BY <1>1, <1>2, Inductive, PTL DEF Spec
(* Types.  A change of the files outdates evidence and packets, and leaves   *)
(* both what they are.                                                       *)

\* A packet that a change of the files outdates is still a packet.
LEMMA PacketUpdated ==
  ASSUME NEW p \in Packet, NEW d \in BOOLEAN
  PROVE  [p EXCEPT !.built = FALSE, !.derived = @ /\ d] \in Packet
BY DEF Packet

\* A change of the files keeps the types, and packets are only outdated once there
\* is a proof of completion.
LEMMA OutdateTyped ==
  ASSUME TypeOK, NEW file \in Files, Outdate(file)
  PROVE  /\ changed' \subseteq Files
         /\ WorkTyped' /\ PacketsTyped' /\ RestTyped'
         /\ proof' = None => packets' = << >> /\ changed' = {} /\ ~ moved'
         /\ UNCHANGED <<saved, mem, founded>>
<1>1. changed' \subseteq Files
  BY DEF TypeOK, FilesTyped, Outdate
<1>2. WorkTyped'
  <2>1. ASSUME foundation \in Evidence
        PROVE  [foundation EXCEPT !.fresh = FALSE,
                  !.intact = @ /\ file \notin foundation.lists] \in Evidence
    <3> DEFINE intact == foundation.intact /\ file \notin foundation.lists
    <3>1. intact \in BOOLEAN
      BY <2>1 DEF Evidence
    <3> HIDE DEF intact
    <3>2. [foundation EXCEPT !.fresh = FALSE, !.intact = intact] \in Evidence
      BY <2>1, <3>1 DEF Evidence
    <3> QED
      BY <3>2 DEF intact
  <2> QED
    BY <2>1 DEF TypeOK, WorkTyped, Outdate
<1>3. PacketsTyped'
  <2>1. \A s \in DOMAIN packets : packets'[s] \in Packet
    <3> SUFFICES ASSUME NEW s \in DOMAIN packets
                 PROVE  packets'[s] \in Packet
      OBVIOUS
    <3>1. packets[s] \in Packet /\ (file # "text") \in BOOLEAN
      BY DEF TypeOK, PacketsTyped
    <3>2. packets'[s] = [packets[s] EXCEPT !.built = FALSE, !.derived = @ /\ file # "text"]
      BY DEF Outdate
    <3> QED
      BY <3>1, <3>2, PacketUpdated
  <2>2. DOMAIN packets' = DOMAIN packets
    BY DEF Outdate
  <2> QED
    BY <2>1, <2>2 DEF TypeOK, PacketsTyped
<1>4. RestTyped'
  BY DEF TypeOK, RestTyped, Outdate
<1>5. proof' = None => packets' = << >> /\ changed' = {} /\ ~ moved'
  <2> SUFFICES ASSUME proof = None
               PROVE  packets' = << >> /\ changed' = {} /\ ~ moved'
    BY DEF Outdate
  <2>1. packets = << >> /\ ~ moved
    BY DEF TypeOK
  <2> QED
    BY <2>1 DEF Outdate
<1> QED
  BY <1>1, <1>2, <1>3, <1>4, <1>5 DEF Outdate

\* What the foundation gate answers is a record or nothing.
LEMMA GateTyped ==
  ASSUME TypeOK
  PROVE  FoundationGate \in Records \cup {None}
BY DEF TypeOK, WorkTyped, Evidence, FoundationGate, GateIf, Valid

\* The commands that change the files.
LEMMA EditTyped ==
  ASSUME TypeOK,
         EditBlueprint \/ EditCode \/ WritePlan \/ ApproveBlueprint \/ CompleteTask
         \/ (Promote /\ at = "prepare" /\ at' = "read")
  PROVE  TypeOK'
<1>1. \E file \in Files : Outdate(file)
  BY EditedAssumption DEF EditBlueprint, EditCode, WritePlan, ApproveBlueprint, CompleteTask, Promote, Files
<1>2. PICK file \in Files : Outdate(file)
  BY <1>1
<1>3. /\ changed' \subseteq Files
      /\ WorkTyped' /\ PacketsTyped' /\ RestTyped'
      /\ proof' = None => packets' = << >> /\ changed' = {} /\ ~ moved'
      /\ UNCHANGED <<saved, mem, founded>>
  BY <1>2, OutdateTyped
<1>4. FilesTyped'
  BY <1>3, BoundAssumption
     DEF TypeOK, FilesTyped, EditBlueprint, EditCode, WritePlan, ApproveBlueprint,
         CompleteTask, Promote
<1>5. RunnerTyped'
  BY <1>3 DEF TypeOK, RunnerTyped, EditBlueprint, EditCode, WritePlan, ApproveBlueprint,
              CompleteTask, Promote
<1> QED
  BY <1>3, <1>4, <1>5 DEF TypeOK

\* Every step keeps the types.
LEMMA Typed == TypeOK /\ [Next]_vars => TypeOK'
<1> SUFFICES ASSUME TypeOK, [Next]_vars
             PROVE  TypeOK'
  OBVIOUS
<1>1. CASE Prepare
  <2>1. CASE Promote
    BY <1>1, <2>1, EditTyped DEF Prepare
  <2>2. CASE Isolate
    <3>1. PacketsTyped' /\ (proof = None => packets' = packets)
      <4>1. CASE packets' = packets
        BY <4>1 DEF TypeOK, PacketsTyped
      <4>2. CASE /\ packets' = [s \in DOMAIN packets \cup {Scope} |->
                                 IF s = Scope THEN Draft ELSE packets[s]]
                 /\ Actionable
        <5>1. Scope \in Scopes
          BY DEF TypeOK, FilesTyped, Scope, Scopes
        <5>2. proof # None
          BY <4>2 DEF Actionable, Drifted
        <5>3. Draft \in Packet
          BY DEF Draft, Packet
        <5> QED
          BY <4>2, <5>1, <5>2, <5>3 DEF TypeOK, PacketsTyped
      <4> QED
        BY <2>2, <4>1, <4>2 DEF Isolate
    <3>2. FilesTyped' /\ WorkTyped' /\ RestTyped'
      BY <2>2 DEF Isolate, files, work, rest, TypeOK, FilesTyped, WorkTyped, RestTyped
    <3>3. RunnerTyped'
      BY <1>1, <2>2 DEF Prepare, Isolate, TypeOK, RunnerTyped
    <3> QED
      BY <2>2, <3>1, <3>2, <3>3 DEF TypeOK, Isolate, rest, files
  <2> QED
    BY <1>1, <2>1, <2>2 DEF Prepare
<1>2. CASE Read
  <2>1. RunnerTyped'
    <3>1. mem' \in State
      BY <1>2, PhaseChosen, GateTyped DEF Read, State
    <3>2. mem' # None
      BY <3>1, NoneAssumption
    <3>3. founded' \subseteq Records
      BY <1>2 DEF Read, TypeOK, RunnerTyped, WorkTyped, FoundationCurrent, Valid, Evidence
    <3> QED
      BY <1>2, <3>1, <3>2, <3>3 DEF Read, TypeOK, RunnerTyped
  <2> QED
    BY <1>2, <2>1 DEF Read, files, work, rest, TypeOK, FilesTyped, WorkTyped, PacketsTyped, RestTyped
<1>3. CASE Save
  BY <1>3 DEF Save, files, work, rest, TypeOK, FilesTyped, WorkTyped, PacketsTyped, RestTyped, RunnerTyped
<1>4. CASE EditBlueprint \/ EditCode \/ WritePlan \/ ApproveBlueprint \/ CompleteTask
  BY <1>4, EditTyped
<1>5. CASE RecordFoundation \/ RecordDelivery \/ Verify \/ Waive
           \/ \E result \in {"open", "clear"} : WriteReview(result)
  <2>1. WorkTyped'
    <3>1. CASE RecordFoundation
      <4>1. PICK last \in 0 .. MaxRecords - 1, lists \in Listings :
              foundation' = [id |-> last + 1, fresh |-> TRUE, intact |-> TRUE, lists |-> lists]
        BY <3>1 DEF RecordFoundation
      <4>2. foundation' \in Evidence
        BY <4>1, BoundAssumption DEF Evidence, Records
      <4> QED
        BY <3>1, <4>2 DEF RecordFoundation, TypeOK, WorkTyped
    <3>2. CASE RecordDelivery
      BY <3>2 DEF RecordDelivery, TypeOK, WorkTyped
    <3>3. CASE Verify
      BY <3>3 DEF Verify, TypeOK, WorkTyped
    <3>4. CASE Waive
      BY <3>4 DEF Waive, TypeOK, WorkTyped
    <3>5. CASE \E result \in {"open", "clear"} : WriteReview(result)
      BY <3>5 DEF WriteReview, TypeOK, WorkTyped
    <3> QED
      BY <1>5, <3>1, <3>2, <3>3, <3>4, <3>5
  <2>2. UNCHANGED <<files, packets, rest, runner>>
    BY <1>5 DEF RecordFoundation, RecordDelivery, Verify, Waive, WriteReview
  <2> QED
    BY <2>1, <2>2 DEF files, rest, runner, TypeOK, FilesTyped, PacketsTyped, RestTyped, RunnerTyped
<1>6. CASE Commit \/ Fault \/ Repair
  <2>1. RestTyped' /\ (proof' = None => ~ moved')
    <3>1. CASE Commit
      <4>1. moved' \in BOOLEAN /\ (proof = None => ~ moved')
        BY <3>1 DEF Commit
      <4> QED
        BY <3>1, <4>1 DEF Commit, TypeOK, RestTyped
    <3>2. CASE Fault
      BY <3>2, BoundAssumption DEF Fault, TypeOK, RestTyped
    <3>3. CASE Repair
      BY <3>3 DEF Repair, TypeOK, RestTyped
    <3> QED
      BY <1>6, <3>1, <3>2, <3>3
  <2>2. UNCHANGED <<files, work, packets, proof, runner>>
    BY <1>6 DEF Commit, Fault, Repair
  <2> QED
    BY <2>1, <2>2 DEF files, work, runner, TypeOK, FilesTyped, WorkTyped, PacketsTyped, RunnerTyped
<1>7. CASE VoidFoundation
  <2>1. WorkTyped'
    <3>1. voids' \in 0 .. MaxVoids
      BY <1>7, BoundAssumption DEF VoidFoundation, TypeOK, WorkTyped
    <3>2. foundation' \in Evidence
      BY <1>7 DEF VoidFoundation, TypeOK, WorkTyped, Evidence
    <3> QED
      BY <1>7, <3>1, <3>2 DEF VoidFoundation, TypeOK, WorkTyped
  <2> QED
    BY <1>7, <2>1 DEF VoidFoundation, files, rest, runner,
                      TypeOK, FilesTyped, PacketsTyped, RestTyped, RunnerTyped
<1>8. CASE Done
  <2>1. RestTyped' /\ proof' # None
    <3>1. proof' \in Proof
      BY <1>8, GateTyped DEF Done, Proof
    <3>2. proof' # None
      BY <3>1, NoneAssumption
    <3> QED
      BY <1>8, <3>1, <3>2 DEF Done, TypeOK, RestTyped
  <2>2. RunnerTyped'
    BY <1>8 DEF Done, TypeOK, RunnerTyped, WorkTyped, FoundationCurrent, Valid, Evidence
  <2> QED
    BY <1>8, <2>1, <2>2 DEF Done, work, TypeOK, FilesTyped, WorkTyped, PacketsTyped
<1>9. CASE \E s \in DOMAIN packets : ApproveChange(s) \/ CompletePacket(s)
  <2>1. PacketsTyped' /\ (packets = << >> => packets' = << >>)
    BY <1>9 DEF ApproveChange, CompletePacket, TypeOK, PacketsTyped, Packet
  <2>2. UNCHANGED <<files, work, rest, runner>>
    BY <1>9 DEF ApproveChange, CompletePacket
  <2> QED
    BY <2>1, <2>2 DEF files, work, rest, runner, TypeOK, FilesTyped, WorkTyped, RestTyped, RunnerTyped
<1>10. CASE UNCHANGED vars
  BY <1>10 DEF vars, files, work, rest, runner,
              TypeOK, FilesTyped, WorkTyped, PacketsTyped, RestTyped, RunnerTyped
<1> QED
  BY <1>1, <1>2, <1>3, <1>4, <1>5, <1>6, <1>7, <1>8, <1>9, <1>10 DEF Next

\* The first state has the types.
LEMMA InitTyped == Init => TypeOK
<1> SUFFICES ASSUME Init
             PROVE  TypeOK
  OBVIOUS
<1>1. FilesTyped
  BY BoundAssumption DEF Init, FilesTyped
<1>2. PacketsTyped
  <2>1. DOMAIN packets = {}
    BY DEF Init
  <2> QED
    BY <2>1 DEF PacketsTyped
<1>3. RestTyped
  <2>1. 0 \in 0 .. MaxFaults
    BY BoundAssumption
  <2> QED
    BY <2>1, Zenon DEF Init, RestTyped
<1>4. RunnerTyped
  BY DEF Init, RunnerTyped, State
<1>5. WorkTyped
  <2>1. 0 \in 0 .. MaxVoids
    BY BoundAssumption
  <2> QED
    BY <2>1, Zenon DEF Init, WorkTyped
<1> QED
  BY <1>1, <1>2, <1>3, <1>4, <1>5 DEF Init, TypeOK

\* The variables of the lifecycle keep their types; in particular there is
\* neither a packet nor a change before the first completion.
THEOREM Typing == Spec => []TypeOK
BY InitTyped, Typed, PTL DEF Spec

(* FoundationStands.  What `run` saves it has computed earlier, so between   *)
(* Read and Save the invariant speaks of `mem`.                              *)

Stood == saved.phase \in FeaturePhases /\ Standing

\* Evidence is numbered as it is recorded: new evidence was never saved before.
Known(gate) == gate # None => foundation # None /\ gate <= foundation.id

SInv ==
  /\ TypeOK
  /\ Known(saved.gate)
  /\ at = "save" => Known(mem.gate)
  /\ at = "save" /\ Stood => mem.phase # "foundation"

\* Steps after which the saved evidence stands only if it stood before.
LEMMA NoNewStanding ==
  ASSUME SInv, TypeOK', UNCHANGED <<saved, mem>>, at' = at \/ at' # "save",
         foundation = None => foundation' = None,
         foundation # None => /\ foundation' # None /\ foundation'.id = foundation.id
                              /\ Valid(foundation)' => Valid(foundation)
  PROVE  SInv'
BY DEF SInv, Known, Stood, Standing, Valid

\* A change of the files takes away no foundation and makes none; it is only stale.
LEMMA OutdateKeeps ==
  ASSUME TypeOK, NEW file, Outdate(file)
  PROVE  /\ UNCHANGED <<saved, mem>>
         /\ foundation = None => foundation' = None
         /\ foundation # None => /\ foundation' # None /\ foundation'.id = foundation.id
                                 /\ Valid(foundation)' => Valid(foundation)
<1>1. CASE foundation = None
  BY <1>1 DEF Outdate
<1>2. CASE foundation # None
  <2> DEFINE intact == foundation.intact /\ file \notin foundation.lists
  <2>1. /\ foundation \in Evidence
        /\ foundation' = [foundation EXCEPT !.fresh = FALSE, !.intact = intact]
    BY <1>2 DEF Outdate, TypeOK, WorkTyped
  <2>2. foundation' \in Evidence /\ foundation'.id = foundation.id
        /\ (foundation'.intact => foundation.intact)
    BY <2>1 DEF Evidence
  <2> QED
    BY <1>2, <2>2, NoneAssumption DEF Outdate, Valid
<1> QED
  BY <1>1, <1>2

\* While the saved evidence stands, `run` does not find the foundation pending.
LEMMA StandingPasses ==
  ASSUME TypeOK, Stood
  PROVE  Phase # "foundation"
<1>1. foundation \in Evidence
  BY DEF Stood, Standing, Valid, TypeOK, WorkTyped
<1>2. FoundationGate = foundation.id /\ foundation.id \in Records
  BY <1>1 DEF Stood, Standing, FoundationGate, GateIf, Evidence
<1>3. FoundationGate # None
  BY <1>2, NoneAssumption
<1>4. ~ Pending["foundation"]
  BY <1>3 DEF Pending
<1> QED
  BY <1>4, PhaseChosen

\* The foundation gate answers with a record that is known.
LEMMA GateKnown ==
  ASSUME TypeOK
  PROVE  Known(FoundationGate)
BY DEF TypeOK, WorkTyped, Evidence, Records, Known, FoundationGate, GateIf, Valid

\* Every step keeps what stands.
LEMMA Stands == SInv /\ [Next]_vars => SInv'
<1> SUFFICES ASSUME SInv, [Next]_vars
             PROVE  SInv'
  OBVIOUS
<1>0. TypeOK /\ TypeOK'
  BY Typed DEF SInv
<1>1. CASE Prepare
  <2>1. CASE Promote
    BY <1>0, <1>1, <2>1, OutdateKeeps, NoNewStanding DEF Prepare, Promote
  <2>2. CASE Isolate
    BY <1>0, <1>1, <2>2, NoNewStanding DEF Prepare, Isolate, work
  <2> QED
    BY <1>1, <2>1, <2>2 DEF Prepare
<1>2. CASE Read
  <2>1. mem' = [phase |-> Phase, gate |-> FoundationGate] /\ UNCHANGED <<saved, foundation>>
    BY <1>2 DEF Read, work
  <2>2. Known(mem.gate)'
    BY <1>0, <2>1, GateKnown DEF Known
  <2>3. Stood' => mem'.phase # "foundation"
    BY <1>0, <2>1, StandingPasses DEF Stood, Standing, Valid
  <2> QED
    BY <1>0, <2>1, <2>2, <2>3 DEF SInv, Known
<1>3. CASE Save
  BY <1>0, <1>3 DEF Save, work, SInv, Known
<1>4. CASE EditBlueprint \/ EditCode \/ WritePlan \/ ApproveBlueprint \/ CompleteTask
  BY <1>0, <1>4, OutdateKeeps, NoNewStanding
     DEF EditBlueprint, EditCode, WritePlan, ApproveBlueprint, CompleteTask
<1>5. CASE RecordFoundation
  <2>1. PICK last \in 0 .. MaxRecords - 1, lists \in Listings :
          /\ last = IF foundation = None THEN 0 ELSE foundation.id
          /\ foundation' = [id |-> last + 1, fresh |-> TRUE, intact |-> TRUE, lists |-> lists]
    BY <1>5 DEF RecordFoundation
  <2>2. UNCHANGED <<saved, at, mem>>
    BY <1>5 DEF RecordFoundation, runner
  <2>3. foundation' # None /\ foundation'.id = last + 1 /\ last + 1 # None
    <3>1. foundation'.id \in Records
      BY <2>1, BoundAssumption DEF Records
    <3>2. foundation' \in Evidence
      BY <2>1, <3>1 DEF Evidence
    <3> QED
      BY <2>1, <3>1, <3>2, NoneAssumption
  <2>4. saved.gate \in Records \cup {None}
    BY <1>0 DEF TypeOK, RunnerTyped, State
  <2>5. at = "save" => mem.gate \in Records \cup {None}
    BY <1>0 DEF TypeOK, RunnerTyped, State
  <2>6. saved.gate # None => saved.gate \in Nat /\ saved.gate <= last
    BY <1>0, <2>1, <2>4, BoundAssumption DEF SInv, Known, Records, TypeOK, WorkTyped, Evidence
  <2>7. at = "save" /\ mem.gate # None => mem.gate \in Nat /\ mem.gate <= last
    BY <1>0, <2>1, <2>5, BoundAssumption DEF SInv, Known, Records, TypeOK, WorkTyped, Evidence
  <2>8. ~ Stood'
    BY <2>1, <2>2, <2>3, <2>6 DEF Stood, Standing
  <2>9. Known(saved.gate)' /\ (at' = "save" => Known(mem.gate)')
    BY <2>1, <2>2, <2>3, <2>6, <2>7 DEF Known
  <2> QED
    BY <1>0, <2>8, <2>9 DEF SInv
<1>6. CASE RecordDelivery \/ Verify \/ Waive \/ Commit
  BY <1>0, <1>6, NoNewStanding DEF RecordDelivery, Verify, Waive, Commit, work, rest, runner
<1>7. CASE Done
  BY <1>0, <1>7, NoNewStanding DEF Done, work
<1>8. CASE \E result \in {"open", "clear"} : WriteReview(result)
  BY <1>0, <1>8, NoNewStanding DEF WriteReview, runner
<1>9. CASE \E s \in DOMAIN packets : ApproveChange(s) \/ CompletePacket(s)
  BY <1>0, <1>9, NoNewStanding DEF ApproveChange, CompletePacket, work, runner
<1>10. CASE VoidFoundation
  <2>1. /\ foundation \in Evidence
        /\ foundation' = [foundation EXCEPT !.intact = FALSE]
    BY <1>0, <1>10 DEF VoidFoundation, TypeOK, WorkTyped
  <2>2. foundation' \in Evidence /\ foundation'.id = foundation.id /\ ~ Valid(foundation)'
    BY <2>1 DEF Evidence, Valid
  <2>3. foundation # None /\ UNCHANGED <<saved, at, mem>>
    BY <1>10 DEF VoidFoundation, runner
  <2> QED
    BY <1>0, <2>2, <2>3, NoneAssumption, NoNewStanding
<1>11. CASE Fault \/ Repair
  BY <1>0, <1>11, NoNewStanding DEF Fault, Repair, work, runner
<1>12. CASE UNCHANGED vars
  BY <1>0, <1>12, NoNewStanding DEF vars, work, runner
<1> QED
  BY <1>1, <1>2, <1>3, <1>4, <1>5, <1>6, <1>7, <1>8, <1>9, <1>10, <1>11, <1>12 DEF Next

\* Only `run` writes the saved state, and it writes what it has computed.
LEMMA SavedByRun ==
  ASSUME [Next]_vars, saved' # saved
  PROVE  at = "save" /\ saved' = mem
BY DEF Next, Prepare, Promote, Isolate, Read, Save, Outdate, EditBlueprint, EditCode, WritePlan,
       ApproveBlueprint, CompleteTask, RecordFoundation, RecordDelivery, Verify, Waive, Commit,
       Done, WriteReview, ApproveChange, CompletePacket, VoidFoundation, Fault, Repair,
       vars, rest, runner

\* Feature work on recorded foundation evidence is not sent back to the foundation
\* by the changes it makes, however far they are from the source of the evidence.
THEOREM WorkStands == Spec => FoundationStands
<1>1. Init => SInv
  <2>1. Init => TypeOK
    BY InitTyped
  <2> QED
    BY <2>1 DEF Init, SInv, Known
<1>2. SInv /\ [Next]_vars =>
        [saved' # saved /\ saved.phase \in FeaturePhases /\ Standing
         => saved'.phase # "foundation"]_vars
  BY SavedByRun DEF SInv, Stood
<1> QED
  BY <1>1, <1>2, Stands, PTL DEF Spec, FoundationStands

=============================================================================
