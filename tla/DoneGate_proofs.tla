--------------------------- MODULE DoneGate_proofs ---------------------------
(* Theorems about DoneGate, checked by TLAPS: the type invariant, that no   *)
(* proof is ever written for a source it does not certify or that no packet *)
(* leads to, and that no open finding is missed.                            *)
EXTENDS DoneGate, TLAPS

-----------------------------------------------------------------------------
(* The type invariant.                                                      *)

\* Every conjunct of TypeOK but the one about the history variable.
Types ==
  /\ work \in Trees
  /\ log \in Seq(Trees)
  /\ runs \subseteq RunRecords
  /\ testing \in [task : Tasks, command : Commands, tested : Trees] \cup {Idle}
  /\ reviews \in [Scopes -> [Roles -> FileRecords]]
  /\ merged \subseteq Scopes \cup {NoScope}
  /\ waives \subseteq [scope : Scopes \cup {NoScope}, source : Trees, finding : Findings]
  /\ packets \subseteq [from : Trees \cup {NoTree}, at : Trees]
  /\ proof \in ProofRecords
  /\ pc \in Gates \cup Binding \cup {"idle", "hash", "scope"}
  /\ next \in Gates
  /\ snap \in ProofRecords
  /\ files \in [scope : Scopes \cup {NoScope}, by : [Roles -> FileRecords]]

\* The empty values have the shape of what replaces them.
LEMMA NoFilesType ==
  NoFiles \in [scope : Scopes \cup {NoScope}, by : [Roles -> FileRecords]]
BY DEF NoFiles, NoFile, FileRecords

\* A missing proof has the shape of a proof.
LEMMA NoProofType == NoProof \in ProofRecords
BY DEF NoProof, ProofRecords

\* A fresh project has the shape of one.
LEMMA InitTypes == Init => TypeOK
<1> SUFFICES ASSUME Init PROVE TypeOK
  OBVIOUS
<1>1. work \in Trees
  BY BoundAssumption DEF Init, Trees, Versions
<1>2. reviews \in [Scopes -> [Roles -> FileRecords]]
  BY DEF Init, NoFile, FileRecords
<1> QED
  BY <1>1, <1>2, NoFilesType, NoProofType DEF Init, TypeOK, Gates, Binding

\* The steps of `done` keep the types.
LEMMA DoneTypes ==
  ASSUME Types, Done
  PROVE  Types'
<1> USE DEF Types
<1>1. CASE StartDone
  BY <1>1 DEF StartDone, Project, evidence, ProofRecords, NoProof, HeadId
<1>2. CASE HashSource
  BY <1>2 DEF HashSource, Project, evidence, ProofRecords
<1>3. CASE ReadScope
  BY <1>3 DEF ReadScope, Project, evidence, ProofRecords, Gates, Binding, Trees
<1>4. ASSUME NEW to \in Gates \cup Binding, NEW bind \in BOOLEAN,
             Pass(to, bind), bind => to \in Gates
      PROVE  Types'
  BY <1>4 DEF Pass, Project, evidence, Binding
<1>5. ASSUME Answer PROVE Types'
  BY <1>5, NoFilesType, NoProofType DEF Answer, Project, evidence, Gates
<1>6. CASE BindBefore \/ BindSource \/ BindAfter
  BY <1>4, <1>5, <1>6 DEF BindBefore, BindSource, BindAfter, Binding
<1>7. CASE Contracts \/ VerifyGate \/ BrowserGate \/ Repository \/ DriftGate
           \/ LifecycleGates \/ ReviewGate
  BY <1>4, <1>5, <1>7 DEF Contracts, VerifyGate, BrowserGate, Repository, DriftGate,
     LifecycleGates, ReviewGate, Gate, Gates
<1>8. CASE LoadReviews
  BY <1>8 DEF LoadReviews, Project, evidence, FilesOf, NoFile, FileRecords, Gates, Trees
<1>9. CASE Rescope
  BY <1>9 DEF Rescope, Project, evidence, ProofRecords, Gates, Binding, Trees
<1>10. CASE WriteProof
  BY <1>10 DEF WriteProof, Project, evidence, Gates, Binding
<1>11. CASE ReturnComplete
  BY <1>5, <1>11 DEF ReturnComplete
<1> QED
  BY <1>1, <1>2, <1>3, <1>6, <1>7, <1>8, <1>9, <1>10, <1>11 DEF Done

\* The steps of everybody else keep the types.
LEMMA EnvironmentTypes ==
  ASSUME Types, Environment
  PROVE  Types'
<1> USE DEF Types, doneVars
<1>1. CASE \E tree \in Trees : Edit(tree)
  BY <1>1 DEF Edit, evidence
<1>2. CASE Commit
  BY <1>2 DEF Commit, evidence
<1>3. CASE \E scope \in Scopes : ApproveBlueprint(scope)
  BY <1>3 DEF ApproveBlueprint, evidence, Trees
<1>4. CASE \E task \in Tasks, command \in Commands : StartVerify(task, command)
  BY <1>4 DEF StartVerify
<1>5. CASE FinishVerify
  BY <1>5 DEF FinishVerify, RunRecords, Idle
<1>6. CASE FailVerify
  BY <1>6 DEF FailVerify
<1>7. CASE \E task \in Tasks : NoopVerify(task)
  BY <1>7, TasksAssumption DEF NoopVerify, RunRecords
<1>8. CASE \E task \in Tasks : BrowserRun(task)
  BY <1>8, TasksAssumption DEF BrowserRun, RunRecords
<1>9. CASE \E task \in Tasks : CompleteTask(task)
  BY <1>9 DEF CompleteTask, evidence, Trees
<1>10. CASE \E role \in Roles, tree \in Trees, found \in SUBSET Findings :
              WriteFindings(role, tree, found)
  BY <1>10 DEF WriteFindings, FileRecords
<1>11. CASE Review
  BY <1>11 DEF Review, Trees
<1>12. CASE \E finding \in Findings : Waive(finding)
  BY <1>12 DEF Waive, Trees
<1>13. CASE FinishPacket
  BY <1>13 DEF FinishPacket, ProofRecords
<1> QED
  BY <1>1, <1>2, <1>3, <1>4, <1>5, <1>6, <1>7, <1>8, <1>9, <1>10, <1>11, <1>12, <1>13
     DEF Environment

\* The history variable holds findings.
LEMMA WatchType ==
  ASSUME TypeOK, Watch
  PROVE  watch' \subseteq Findings
BY DEF Watch, TypeOK, OpenFindings

\* Every step keeps the types.
LEMMA NextTypes == TypeOK /\ [Next]_vars => TypeOK'
<1> SUFFICES ASSUME TypeOK, [Next]_vars PROVE TypeOK'
  OBVIOUS
<1>1. CASE Next
  <2>1. Types /\ Watch
    BY <1>1 DEF TypeOK, Types, Next
  <2>2. Types'
    BY <1>1, <2>1, DoneTypes, EnvironmentTypes DEF Next
  <2>3. watch' \subseteq Findings
    BY <2>1, WatchType
  <2> QED
    BY <2>2, <2>3 DEF TypeOK, Types
<1>2. CASE UNCHANGED vars
  BY <1>2 DEF TypeOK, vars, evidence, doneVars
<1> QED
  BY <1>1, <1>2

\* Every file the model keeps, and the local state of the command, always has
\* the shape the code gives it.
THEOREM Typing == Spec => []TypeOK
BY InitTypes, NextTypes, PTL DEF Spec

-----------------------------------------------------------------------------
(* The proof certifies its source.  Without an edit that brings an earlier  *)
(* tree back, the tree only ever moves upwards in this order, so a gate that*)
(* read the tree between the snapshot and a binding check that still finds  *)
(* the snapshot's source has read that very source.                         *)

Leq(a, b) ==
  \/ a.ver < b.ver
  \/ a.ver = b.ver /\ a.complete \subseteq b.complete
     /\ (a.scope = NoScope \/ a.scope = b.scope)

\* Leq orders trees by what has happened to them.
LEMMA LeqReflexive == \A a \in Trees : Leq(a, a)
BY DEF Leq

\* Leq orders trees by what has happened to them.
LEMMA LeqTransitive ==
  \A a, b, c \in Trees : Leq(a, b) /\ Leq(b, c) => Leq(a, c)
BY BoundAssumption DEF Leq, Trees, Versions

\* Two trees that are each below the other are one tree.
LEMMA LeqAntisymmetric ==
  \A a, b \in Trees : Leq(a, b) /\ Leq(b, a) => a = b
BY BoundAssumption DEF Leq, Trees, Versions

\* The gate the command is at, or will be at after the binding check.
Label == IF pc \in Binding THEN next ELSE pc

\* Tree w was in the files at some moment since the snapshot.
Passed(w) == w \in Trees /\ Leq(snap.source, w) /\ Leq(w, work)

AllVerified(w) == \A t \in Tasks : HasVerify(t, w)
AllBrowsed(w)  == \A t \in VisualTasks : HasBrowser(t, w)

SnapshotBelow == pc \notin {"idle", "hash"} => Passed(snap.source)
HeadSeen == pc = "bindSource" =>
  /\ snap.head \in DOMAIN log
  /\ Passed(log[snap.head])
  /\ log[snap.head].scope = snap.scope
PlanSeen    == Label \in Gates \ {"contracts"} => \E w \in Trees : Passed(w) /\ PlanComplete(w)
VerifySeen  == Label \in Gates \ {"contracts", "verify"} =>
                 \E w \in Trees : Passed(w) /\ AllVerified(w)
BrowserSeen == Label \in Gates \ {"contracts", "verify", "browser"} =>
                 \E w \in Trees : Passed(w) /\ AllBrowsed(w)
SnapCertified == pc \in {"bindAfter", "write"} /\ Label = "write" => Certified(snap)

IInv == /\ SnapshotBelow /\ HeadSeen
        /\ PlanSeen /\ VerifySeen /\ BrowserSeen
        /\ SnapCertified /\ ProofCertified

\* The strengthened invariant holds of a fresh project.
LEMMA InitCertified == Init => IInv
BY DEF Init, IInv, SnapshotBelow, HeadSeen, PlanSeen, VerifySeen, BrowserSeen,
       SnapCertified, ProofCertified, Label, Gates, Binding

\* Nothing that has been recorded is lost: the tree only moves up, and records
\* and commits are only added.
Grows ==
  /\ Leq(work, work')
  /\ runs \subseteq runs'
  /\ log' = log \/ log' = Append(log, work)

\* Without reverts, trees only move up and records only accumulate.
LEMMA EnvironmentGrows ==
  ASSUME Types, ~ Reverts, Environment
  PROVE  Grows /\ UNCHANGED <<doneVars, proof>>
<1>1. work \in Trees /\ Leq(work, work)
  BY LeqReflexive DEF Types
<1>2. CASE \E tree \in Trees : Edit(tree)
  BY <1>2 DEF Edit, evidence, Grows, Leq
<1>3. CASE Commit
  BY <1>1, <1>3 DEF Commit, evidence, Grows
<1>4. CASE \E scope \in Scopes : ApproveBlueprint(scope)
  BY <1>1, <1>4 DEF ApproveBlueprint, evidence, Grows, Leq, Trees
<1>5. CASE \E task \in Tasks, command \in Commands : StartVerify(task, command)
  BY <1>1, <1>5 DEF StartVerify, Grows
<1>6. CASE FinishVerify
  BY <1>1, <1>6 DEF FinishVerify, Grows
<1>7. CASE FailVerify
  BY <1>1, <1>7 DEF FailVerify, Grows
<1>8. CASE \E task \in Tasks : NoopVerify(task) \/ BrowserRun(task)
  BY <1>1, <1>8 DEF NoopVerify, BrowserRun, Grows
<1>9. CASE \E task \in Tasks : CompleteTask(task)
  BY <1>1, <1>9 DEF CompleteTask, evidence, Grows, Leq, Trees
<1>10. CASE \E role \in Roles, tree \in Trees, found \in SUBSET Findings :
              WriteFindings(role, tree, found)
  BY <1>1, <1>10 DEF WriteFindings, Grows
<1>11. CASE Review \/ FinishPacket \/ \E finding \in Findings : Waive(finding)
  BY <1>1, <1>11 DEF Review, FinishPacket, Waive, Grows
<1> QED
  BY <1>2, <1>3, <1>4, <1>5, <1>6, <1>7, <1>8, <1>9, <1>10, <1>11 DEF Environment

\* A certified proof stays certified.
LEMMA CertifiedStable ==
  ASSUME Types, Grows, NEW p \in ProofRecords, Certified(p)
  PROVE  Certified(p)'
<1>1. p.head \in DOMAIN log' /\ log'[p.head] = p.source
  BY DEF Types, Grows, Certified, ProofRecords
<1>2. \A kind, t, tree : Recorded(kind, t, tree) => Recorded(kind, t, tree)'
  BY DEF Recorded, Grows
<1> QED
  BY <1>1, <1>2 DEF Certified

\* A tree that a gate may have read stays one.
LEMMA PassedStable ==
  ASSUME Types, Types', Grows, snap'.source = snap.source, snap.source \in Trees,
         NEW w \in Trees, Passed(w)
  PROVE  Passed(w)'
BY LeqTransitive DEF Types, Grows, Passed

\* Gate facts do not get lost either.
LEMMA VerifyStable ==
  ASSUME Grows, NEW w
  PROVE  /\ PlanComplete(w) => PlanComplete(w)'
         /\ AllVerified(w) => AllVerified(w)'
         /\ AllBrowsed(w) => AllBrowsed(w)'
BY DEF Grows, PlanComplete, AllVerified, AllBrowsed, HasVerify, HasBrowser

\* What everybody else does keeps the strengthened invariant.
LEMMA EnvironmentCertified ==
  ASSUME Types, Types', ~ Reverts, IInv, Environment
  PROVE  IInv'
<1>1. Grows /\ UNCHANGED <<doneVars, proof>>
  BY EnvironmentGrows
<1>2. Label' = Label /\ pc' = pc /\ snap' = snap
  BY <1>1 DEF Label, doneVars
<1>3. ASSUME pc \notin {"idle", "hash"}, NEW w \in Trees, Passed(w)
      PROVE  Passed(w)'
  BY <1>1, <1>2, <1>3, PassedStable DEF IInv, SnapshotBelow, Passed
<1>4. Label \in Gates => pc \notin {"idle", "hash"}
  BY DEF Label, Gates, Binding
<1>5. SnapshotBelow'
  BY <1>2, <1>3 DEF IInv, SnapshotBelow, Passed
<1>6. HeadSeen'
  <2> SUFFICES ASSUME pc = "bindSource" PROVE HeadSeen'
    BY <1>2 DEF HeadSeen
  <2>1. PICK w \in Trees : w = log[snap.head] /\ Passed(w) /\ w.scope = snap.scope
    BY DEF IInv, HeadSeen, Passed
  <2>2. snap.head \in DOMAIN log
    BY DEF IInv, HeadSeen
  <2>3. snap.head \in DOMAIN log' /\ log'[snap.head] = w
    BY <1>1, <2>1, <2>2 DEF Types, Grows, ProofRecords
  <2>4. Passed(w)'
    BY <1>3, <2>1
  <2> QED
    BY <1>2, <2>1, <2>3, <2>4 DEF HeadSeen, Passed
<1>7. PlanSeen' /\ VerifySeen' /\ BrowserSeen'
  BY <1>1, <1>2, <1>3, <1>4, VerifyStable DEF IInv, PlanSeen, VerifySeen, BrowserSeen
<1>8. SnapCertified' /\ ProofCertified'
  BY <1>1, <1>2, CertifiedStable DEF IInv, SnapCertified, ProofCertified, Types, doneVars
<1> QED
  BY <1>5, <1>6, <1>7, <1>8 DEF IInv

\* A command that ends leaves nothing to show but the proof.
LEMMA AnswerCertified ==
  ASSUME Types, IInv, Answer
  PROVE  IInv'
<1>1. pc' = "idle" /\ Label' = "idle"
  BY DEF Answer, Label, Binding
<1>2. ProofCertified'
  BY DEF IInv, ProofCertified, Certified, Recorded, Answer, Project, evidence
<1> QED
  BY <1>1, <1>2 DEF IInv, SnapshotBelow, HeadSeen, PlanSeen, VerifySeen, BrowserSeen,
     SnapCertified, Gates

\* What a step of `done` keeps that changes neither the files nor the
\* snapshot's source: every gate fact it need not establish itself.
LEMMA Kept ==
  ASSUME Types, IInv, UNCHANGED Project, snap'.source = snap.source,
         pc \notin {"idle", "hash"}
  PROVE  /\ SnapshotBelow'
         /\ (Label' \in Gates \ {"contracts"} => Label \in Gates \ {"contracts"})
              => PlanSeen'
         /\ (Label' \in Gates \ {"contracts", "verify"}
               => Label \in Gates \ {"contracts", "verify"})
              => VerifySeen'
         /\ (Label' \in Gates \ {"contracts", "verify", "browser"}
               => Label \in Gates \ {"contracts", "verify", "browser"})
              => BrowserSeen'
         /\ proof' = proof => ProofCertified'
<1>1. work' = work /\ runs' = runs /\ log' = log
  BY DEF Project, evidence
<1>2. \A w : /\ Passed(w) => Passed(w)'
             /\ PlanComplete(w) => PlanComplete(w)'
             /\ AllVerified(w) => AllVerified(w)'
             /\ AllBrowsed(w) => AllBrowsed(w)'
  BY <1>1 DEF Passed, PlanComplete, AllVerified, AllBrowsed, HasVerify, HasBrowser
<1>3. SnapshotBelow'
  BY <1>1 DEF IInv, SnapshotBelow, Passed
<1>4. proof' = proof => ProofCertified'
  BY <1>1 DEF IInv, ProofCertified, Certified, Recorded
<1> QED
  BY <1>2, <1>3, <1>4 DEF IInv, PlanSeen, VerifySeen, BrowserSeen

\* The current tree is one that a gate may read.
LEMMA WorkPassed ==
  ASSUME Types, IInv, pc \notin {"idle", "hash"}
  PROVE  work \in Trees /\ Passed(work) /\ snap.source \in Trees
BY LeqReflexive DEF IInv, SnapshotBelow, Types, Passed

\* The steps that take the snapshot keep the strengthened invariant.
LEMMA SnapshotCertified ==
  ASSUME Types, Types', IInv, StartDone \/ HashSource \/ ReadScope
  PROVE  IInv'
<1>1. work' = work /\ runs' = runs /\ log' = log /\ proof' = proof
  BY DEF StartDone, HashSource, ReadScope, Project, evidence
<1>2. ProofCertified'
  BY <1>1 DEF IInv, ProofCertified, Certified, Recorded
<1>3. CASE StartDone \/ HashSource
  <2>1. Label' = pc' /\ pc' \in {"hash", "scope"}
    BY <1>3 DEF StartDone, HashSource, Label, Binding
  <2>2. pc' = "scope" => snap'.source = work
    BY <1>3 DEF StartDone, HashSource, Types, ProofRecords
  <2>3. SnapshotBelow'
    BY <1>1, <2>1, <2>2, LeqReflexive DEF SnapshotBelow, Passed, Types
  <2> QED
    BY <1>2, <2>1, <2>3 DEF IInv, HeadSeen, PlanSeen, VerifySeen, BrowserSeen,
       SnapCertified, Gates
<1>4. CASE ReadScope
  <2>1. pc' = "bindBefore" /\ Label' = "contracts"
    BY <1>4 DEF ReadScope, Label, Binding
  <2>2. snap'.source = snap.source /\ pc = "scope"
    BY <1>4 DEF ReadScope, Types, ProofRecords
  <2>3. SnapshotBelow'
    BY <1>1, <2>2 DEF IInv, SnapshotBelow, Passed
  <2> QED
    BY <1>2, <2>1, <2>3 DEF IInv, HeadSeen, PlanSeen, VerifySeen, BrowserSeen,
       SnapCertified, Gates
<1> QED
  BY <1>3, <1>4

\* The three reads of one binding check.  Only here does a gate fact become a
\* fact about the snapshot's source.
LEMMA BindingCertified ==
  ASSUME Types, Types', IInv, BindBefore \/ BindSource \/ BindAfter
  PROVE  IInv'
<1>0. CASE Answer
  BY <1>0, AnswerCertified
<1> SUFFICES ASSUME ~ Answer PROVE IInv'
  BY <1>0
<1>1. UNCHANGED Project /\ snap' = snap /\ next' = next /\ proof' = proof
      /\ pc \in Binding
  BY DEF BindBefore, BindSource, BindAfter, Pass, Binding
<1>2. Label' = Label
  BY <1>1 DEF BindBefore, BindSource, BindAfter, Pass, Label, Binding, Types, Gates
<1>3. SnapshotBelow' /\ PlanSeen' /\ VerifySeen' /\ BrowserSeen' /\ ProofCertified'
  BY <1>1, <1>2, Kept DEF Binding
<1>4. CASE BindBefore
  <2>1. pc' = "bindSource" /\ GitBound
    BY <1>4 DEF BindBefore, Pass
  <2>2. snap.head \in DOMAIN log /\ log[snap.head] = work /\ work.scope = snap.scope
    BY <2>1 DEF GitBound, Clean, HeadId, Types
  <2>3. Passed(work)
    BY <1>4, WorkPassed DEF BindBefore
  <2>4. HeadSeen'
    BY <1>1, <2>2, <2>3 DEF HeadSeen, Passed, Project
  <2> QED
    BY <1>3, <2>1, <2>4 DEF IInv, SnapCertified
<1>5. CASE BindSource
  <2>1. pc' = "bindAfter" /\ work = snap.source /\ pc = "bindSource"
    BY <1>5 DEF BindSource, Pass
  <2>2. \A w \in Trees : Passed(w) => w = snap.source
    BY <2>1, WorkPassed, LeqAntisymmetric DEF Passed
  <2>3. ASSUME Label = "write" PROVE Certified(snap)
    <3>1. snap.head \in DOMAIN log /\ log[snap.head] = snap.source
          /\ snap.scope = snap.source.scope
      BY <2>1, <2>2 DEF IInv, HeadSeen, Passed
    <3>2. snap.source \in Trees /\ PlanComplete(snap.source)
      BY <2>1, <2>2, <2>3, WorkPassed DEF IInv, PlanSeen, Gates
    <3>3. AllVerified(snap.source) /\ AllBrowsed(snap.source)
      BY <2>2, <2>3 DEF IInv, VerifySeen, BrowserSeen, Gates
    <3>4. snap.source.scope \in Scopes /\ snap.source.complete = Tasks
      BY <3>2 DEF PlanComplete, Trees
    <3>5. \A t \in Tasks : Recorded(ProofKind(t), t, snap.source)
      BY <3>3 DEF AllVerified, HasVerify, Recorded
    <3>6. \A t \in VisualTasks : Recorded("browser", t, snap.source)
      BY <3>3 DEF AllBrowsed, HasBrowser, Recorded
    <3> QED
      BY <3>1, <3>4, <3>5, <3>6 DEF Certified
  <2>4. SnapCertified'
    BY <1>1, <1>2, <2>3 DEF SnapCertified, Certified, Recorded, Project, evidence
  <2> QED
    BY <1>3, <2>1, <2>4 DEF IInv, HeadSeen
<1>6. CASE BindAfter
  <2>1. pc = "bindAfter" /\ pc' = next /\ next \in Gates
    BY <1>6 DEF BindAfter, Pass, Types
  <2>2. SnapCertified'
    BY <1>1, <1>2, <2>1 DEF IInv, SnapCertified, Certified, Recorded, Project, evidence
  <2> QED
    BY <1>3, <2>1, <2>2 DEF IInv, HeadSeen, Gates
<1> QED
  BY <1>4, <1>5, <1>6

\* The gates keep the strengthened invariant.
LEMMA GateCertified ==
  ASSUME Types, Types', IInv,
         Contracts \/ VerifyGate \/ BrowserGate \/ Repository \/ DriftGate
           \/ LifecycleGates \/ LoadReviews \/ ReviewGate
  PROVE  IInv'
<1>0. CASE Answer
  BY <1>0, AnswerCertified
<1> SUFFICES ASSUME ~ Answer PROVE IInv'
  BY <1>0
<1>1. UNCHANGED Project /\ snap' = snap /\ proof' = proof
      /\ pc \notin {"idle", "hash"} /\ Label = pc
  BY DEF Contracts, VerifyGate, BrowserGate, Repository, DriftGate, LifecycleGates,
     LoadReviews, ReviewGate, Gate, Pass, Label, Binding
<1>2. work' = work /\ runs' = runs /\ Passed(work) /\ work \in Trees
  BY <1>1, WorkPassed DEF Project, evidence
<1>3. Passed(work)'
  BY <1>1, <1>2 DEF Passed
<1>4. SnapshotBelow' /\ ProofCertified'
  BY <1>1, Kept
<1>5. pc' \notin {"bindSource", "bindAfter", "write"}
  BY DEF Contracts, VerifyGate, BrowserGate, Repository, DriftGate, LifecycleGates,
     LoadReviews, ReviewGate, Gate, Pass
<1>6. HeadSeen' /\ SnapCertified'
  BY <1>5 DEF HeadSeen, SnapCertified
<1>7. CASE Contracts
  <2>1. Label' = "verify" /\ PlanComplete(work)
    BY <1>7 DEF Contracts, Gate, Pass, Label, Binding
  <2>2. PlanSeen'
    BY <1>2, <1>3, <2>1 DEF PlanSeen, PlanComplete
  <2> QED
    BY <1>4, <1>6, <2>1, <2>2 DEF IInv, VerifySeen, BrowserSeen
<1>8. CASE VerifyGate
  <2>1. Label = "verify" /\ Label' = "browser" /\ AllVerified(work)
    BY <1>1, <1>8 DEF VerifyGate, Gate, Pass, Label, Binding, AllVerified
  <2>2. AllVerified(work)'
    BY <1>2, <2>1 DEF AllVerified, HasVerify
  <2>3. VerifySeen'
    BY <1>2, <1>3, <2>2 DEF VerifySeen
  <2>4. PlanSeen'
    BY <1>1, <2>1, Kept DEF Gates
  <2> QED
    BY <1>4, <1>6, <2>1, <2>3, <2>4 DEF IInv, BrowserSeen
<1>9. CASE BrowserGate
  <2>1. Label = "browser" /\ Label' = "repository" /\ AllBrowsed(work)
    BY <1>1, <1>9 DEF BrowserGate, Gate, Pass, Label, Binding, AllBrowsed
  <2>2. AllBrowsed(work)'
    BY <1>2, <2>1 DEF AllBrowsed, HasBrowser
  <2>3. BrowserSeen'
    BY <1>2, <1>3, <2>2 DEF BrowserSeen
  <2>4. PlanSeen' /\ VerifySeen'
    BY <1>1, <2>1, Kept DEF Gates
  <2> QED
    BY <1>4, <1>6, <2>3, <2>4 DEF IInv
<1>10. CASE Repository \/ DriftGate \/ LifecycleGates \/ LoadReviews \/ ReviewGate
  <2>1. Label \in Gates \ {"contracts", "verify", "browser"}
    BY <1>1, <1>10 DEF Repository, DriftGate, LifecycleGates, LoadReviews, ReviewGate,
       Gate, Gates
  <2>2. PlanSeen' /\ VerifySeen' /\ BrowserSeen'
    BY <1>1, <2>1, Kept
  <2> QED
    BY <1>4, <1>6, <2>2 DEF IInv
<1> QED
  BY <1>7, <1>8, <1>9, <1>10

\* Reading the scope again and writing the proof keep it, too.
LEMMA PublishCertified ==
  ASSUME Types, Types', IInv, Rescope \/ WriteProof \/ ReturnComplete
  PROVE  IInv'
<1>1. CASE ReturnComplete
  BY <1>1, AnswerCertified DEF ReturnComplete
<1>2. CASE Rescope
  <2>1. /\ UNCHANGED Project /\ proof' = proof /\ snap'.source = snap.source
        /\ pc = "rescope" /\ Label = "rescope" /\ pc' = "bindBefore"
    BY <1>2 DEF Rescope, Label, Binding, Types, ProofRecords
  <2>2. SnapshotBelow' /\ PlanSeen' /\ VerifySeen' /\ BrowserSeen' /\ ProofCertified'
    BY <2>1, Kept DEF Gates
  <2> QED
    BY <2>1, <2>2 DEF IInv, HeadSeen, SnapCertified
<1>3. CASE WriteProof
  <2>1. /\ UNCHANGED Project /\ snap' = snap /\ proof' = snap
        /\ pc = "write" /\ Label = "write" /\ pc' = "bindBefore"
    BY <1>3 DEF WriteProof, Label, Binding
  <2>2. SnapshotBelow' /\ PlanSeen' /\ VerifySeen' /\ BrowserSeen'
    BY <2>1, Kept DEF Gates
  <2>3. ProofCertified'
    BY <2>1 DEF IInv, SnapCertified, ProofCertified, Certified, Recorded, Project, evidence
  <2> QED
    BY <2>1, <2>2, <2>3 DEF IInv, HeadSeen, SnapCertified
<1> QED
  BY <1>1, <1>2, <1>3

\* Every step keeps the strengthened invariant.
LEMMA NextCertified ==
  ASSUME TypeOK, TypeOK', ~ Reverts, IInv, [Next]_vars
  PROVE  IInv'
<1>1. Types /\ Types'
  BY DEF TypeOK, Types
<1>2. CASE UNCHANGED vars
  BY <1>2 DEF vars, evidence, doneVars, IInv, SnapshotBelow, HeadSeen, PlanSeen,
     VerifySeen, BrowserSeen, SnapCertified, ProofCertified, Label, Passed, PlanComplete,
     AllVerified, AllBrowsed, HasVerify, HasBrowser, Certified, Recorded
<1>3. CASE Next
  BY <1>1, <1>3, EnvironmentCertified, SnapshotCertified, BindingCertified, GateCertified,
     PublishCertified DEF Next, Done
<1> QED
  BY <1>2, <1>3

\* Whatever happens to the project while `done` runs, as long as no edit brings
\* an earlier tree back, the proof on disk certifies its source: the commit,
\* the approved Blueprint, the complete Plan and the passing records it stands
\* for all belong to that one source.
THEOREM DoneCertifies ==
  ASSUME ~ Reverts
  PROVE  Spec => []ProofCertified
<1>1. Init => TypeOK /\ IInv
  BY InitTypes, InitCertified
<1>2. TypeOK /\ IInv /\ [Next]_vars => (TypeOK /\ IInv)'
  BY NextTypes, NextCertified
<1>3. IInv => ProofCertified
  BY DEF IInv
<1> QED
  BY <1>1, <1>2, <1>3, PTL DEF Spec

-----------------------------------------------------------------------------
(* A stored proof is only replaced along a completed change packet.         *)

AfterDrift == {"lifecycle", "reviewFiles", "reviewMerge", "rescope", "write"}

\* What the drift gate has found out about the stored proof and tree w: there
\* is none, or a packet covers the way to w, or the proof is about w itself.
Covered(w) ==
  \/ proof = NoProof
  \/ [from |-> proof.source, at |-> w] \in packets
  \/ /\ proof.source = w /\ proof.scope = w.scope
     /\ snap.head <= proof.head /\ proof.head <= HeadId

HeadBelow == pc # "idle" => snap.head <= HeadId
DriftSeen == Label \in AfterDrift => \E w \in Trees : Passed(w) /\ Covered(w)
SourceCovered == pc = "bindAfter" /\ next = "write" => Covered(snap.source)
WriteCovered == pc = "write" =>
  \/ proof = NoProof
  \/ [from |-> proof.source, at |-> snap.source] \in packets
  \/ proof = snap

DInv == HeadBelow /\ DriftSeen /\ SourceCovered /\ WriteCovered

\* No proof yet: nothing to cover.
LEMMA InitCovered == Init => DInv
BY DEF Init, DInv, HeadBelow, DriftSeen, SourceCovered, WriteCovered, Label, AfterDrift, Binding

\* What everybody else does keeps DInv: packets only accumulate.
LEMMA EnvironmentCovered ==
  ASSUME Types, Types', ~ Reverts, IInv, DInv, Environment
  PROVE  DInv'
<1>1. Grows /\ UNCHANGED <<doneVars, proof>>
  BY EnvironmentGrows
<1>2. Label' = Label /\ pc' = pc /\ snap' = snap /\ proof' = proof
  BY <1>1 DEF Label, doneVars
<1>3. packets \subseteq packets'
  BY DEF Environment, Edit, Commit, ApproveBlueprint, StartVerify, FinishVerify, FailVerify,
     NoopVerify, BrowserRun, CompleteTask, WriteFindings, Review, Waive, FinishPacket, evidence
<1>4. HeadId <= HeadId' /\ HeadId \in Nat
  BY <1>1 DEF Grows, HeadId, Types
<1>5. HeadBelow'
  BY <1>2, <1>4 DEF DInv, HeadBelow, Types, ProofRecords, HeadId
<1>6. \A w : Covered(w) => Covered(w)'
  BY <1>2, <1>3, <1>4 DEF Covered, Types, ProofRecords, HeadId
<1>7. Label \in AfterDrift => pc \notin {"idle", "hash"}
  BY DEF Label, AfterDrift, Binding
<1>8. ASSUME pc \notin {"idle", "hash"}, NEW w \in Trees, Passed(w)
      PROVE  Passed(w)'
  BY <1>1, <1>2, <1>8, PassedStable DEF IInv, SnapshotBelow, Passed
<1>9. DriftSeen'
  BY <1>2, <1>6, <1>7, <1>8 DEF DInv, DriftSeen
<1>10. SourceCovered' /\ WriteCovered'
  BY <1>1, <1>2, <1>3, <1>6 DEF DInv, SourceCovered, WriteCovered, doneVars
<1> QED
  BY <1>5, <1>9, <1>10 DEF DInv

\* The steps of `done` keep DInv.
LEMMA DoneCovered ==
  ASSUME Types, Types', IInv, DInv, Done
  PROVE  DInv'
<1>1. work' = work /\ log' = log /\ packets' = packets /\ HeadId' = HeadId /\ HeadId \in Nat
  BY DEF Done, StartDone, HashSource, ReadScope, BindBefore, BindSource, BindAfter, Contracts,
     VerifyGate, BrowserGate, Repository, DriftGate, LifecycleGates, LoadReviews, ReviewGate,
     Rescope, WriteProof, ReturnComplete, Gate, Pass, Answer, Project, evidence, HeadId, Types
<1>2. CASE Answer
  BY <1>2 DEF Answer, DInv, HeadBelow, DriftSeen, SourceCovered, WriteCovered, Label,
     AfterDrift, Binding
<1>3. CASE StartDone
  BY <1>1, <1>3 DEF StartDone, DInv, HeadBelow, DriftSeen, SourceCovered, WriteCovered,
     Label, AfterDrift, Binding, NoProof
<1>4. CASE HashSource \/ ReadScope
  <2>1. pc # "idle" /\ snap'.head = snap.head /\ Label' \notin AfterDrift
        /\ pc' \notin {"write", "bindAfter"}
    BY <1>4 DEF HashSource, ReadScope, Types, ProofRecords, Label, AfterDrift, Binding
  <2> QED
    BY <1>1, <2>1 DEF DInv, HeadBelow, DriftSeen, SourceCovered, WriteCovered
<1>5. ASSUME pc \notin {"idle", "hash"}, snap'.head = snap.head,
             snap'.source = snap.source, proof' = proof
      PROVE  /\ HeadBelow'
             /\ \A w : (Passed(w) => Passed(w)') /\ (Covered(w) => Covered(w)')
             /\ (Label' \in AfterDrift => Label \in AfterDrift) => DriftSeen'
  <2>1. HeadBelow'
    BY <1>1, <1>5 DEF DInv, HeadBelow
  <2>2. \A w : (Passed(w) => Passed(w)') /\ (Covered(w) => Covered(w)')
    BY <1>1, <1>5 DEF Passed, Covered
  <2> QED
    BY <2>1, <2>2 DEF DInv, DriftSeen
<1>6. CASE ~ Answer /\ BindBefore
  <2>1. snap' = snap /\ proof' = proof /\ Label' = Label /\ pc' = "bindSource"
        /\ pc = "bindBefore"
    BY <1>6 DEF BindBefore, Pass, Project, Label, Binding
  <2> QED
    BY <1>5, <2>1 DEF DInv, SourceCovered, WriteCovered
<1>7. CASE ~ Answer /\ BindSource
  <2>1. snap' = snap /\ proof' = proof /\ Label' = Label /\ next' = next
        /\ pc' = "bindAfter" /\ pc = "bindSource" /\ work = snap.source
    BY <1>7 DEF BindSource, Pass, Project, Label, Binding
  <2>2. \A w \in Trees : Passed(w) => w = snap.source
    BY <2>1, WorkPassed, LeqAntisymmetric DEF Passed
  <2>3. next = "write" => Covered(snap.source)
    BY <2>1, <2>2 DEF DInv, DriftSeen, Label, Binding, AfterDrift
  <2>4. SourceCovered'
    BY <1>5, <2>1, <2>3 DEF SourceCovered
  <2> QED
    BY <1>5, <2>1, <2>4 DEF DInv, WriteCovered
<1>8. CASE ~ Answer /\ BindAfter
  <2>1. snap' = snap /\ proof' = proof /\ Label' = Label /\ pc = "bindAfter" /\ pc' = next
        /\ HeadId = snap.head /\ next \in Gates
    BY <1>8 DEF BindAfter, Pass, Project, Label, Binding, Types, Gates, GitBound
  <2>2. ASSUME next = "write" PROVE WriteCovered'
    <3>1. Covered(snap.source) /\ Certified(snap)
      BY <2>1, <2>2 DEF DInv, SourceCovered, IInv, SnapCertified, Label, Binding
    <3>2. ASSUME proof.source = snap.source, proof.scope = snap.source.scope,
                 snap.head <= proof.head, proof.head <= HeadId
          PROVE  proof = snap
      <4>1. proof.head = snap.head
        BY <1>1, <2>1, <3>2 DEF Types, ProofRecords
      <4>2. proof.scope = snap.scope
        BY <3>1, <3>2 DEF Certified
      <4>3. proof \in ProofRecords /\ snap \in ProofRecords
        BY DEF Types
      <4> QED
        BY <3>2, <4>1, <4>2, <4>3 DEF ProofRecords
    <3> QED
      BY <1>1, <2>1, <3>1, <3>2 DEF Covered, WriteCovered
  <2> QED
    BY <1>5, <2>1, <2>2 DEF DInv, SourceCovered, WriteCovered, Gates
<1>9. CASE ~ Answer /\ (Contracts \/ VerifyGate \/ BrowserGate \/ Repository
                          \/ LifecycleGates \/ LoadReviews \/ ReviewGate)
  <2>1. snap' = snap /\ proof' = proof /\ pc' \notin {"write", "bindAfter"}
        /\ pc \notin {"idle", "hash"}
    BY <1>9 DEF Contracts, VerifyGate, BrowserGate, Repository, LifecycleGates,
       LoadReviews, ReviewGate, Gate, Pass, Project
  <2>2. Label' \in AfterDrift => Label \in AfterDrift
    BY <1>9 DEF Contracts, VerifyGate, BrowserGate, Repository, LifecycleGates,
       LoadReviews, ReviewGate, Gate, Pass, Label, AfterDrift, Binding
  <2> QED
    BY <1>5, <2>1, <2>2 DEF DInv, SourceCovered, WriteCovered
<1>10. CASE ~ Answer /\ DriftGate
  <2>1. snap' = snap /\ proof' = proof /\ pc = "drift" /\ pc' = "lifecycle"
        /\ (Drifted => DriftCovered)
    BY <1>10 DEF DriftGate, Gate, Pass, Project
  <2>2. Passed(work) /\ work \in Trees
    BY <2>1, WorkPassed
  <2>3. Covered(work)
    BY <1>1, <2>1 DEF Covered, Drifted, DriftCovered, DInv, HeadBelow
  <2>4. DriftSeen'
    BY <1>5, <2>1, <2>2, <2>3 DEF DriftSeen
  <2> QED
    BY <1>5, <2>1, <2>4 DEF DInv, SourceCovered, WriteCovered
<1>11. CASE Rescope
  <2>1. /\ proof' = proof /\ snap'.source = snap.source /\ snap'.head = snap.head
        /\ pc = "rescope" /\ pc' = "bindBefore" /\ Label \in AfterDrift
    BY <1>11 DEF Rescope, Label, Binding, Types, ProofRecords, AfterDrift
  <2> QED
    BY <1>5, <2>1 DEF DInv, SourceCovered, WriteCovered
<1>12. CASE WriteProof
  <2>1. /\ snap' = snap /\ pc = "write" /\ pc' = "bindBefore" /\ Label' = "passed"
    BY <1>12 DEF WriteProof, Label, Binding
  <2> QED
    BY <1>1, <2>1 DEF DInv, HeadBelow, DriftSeen, SourceCovered, WriteCovered, AfterDrift
<1> QED
  BY <1>2, <1>3, <1>4, <1>6, <1>7, <1>8, <1>9, <1>10, <1>11, <1>12 DEF Done, ReturnComplete

\* Drift after `done` cannot be laundered by running `done` again: a stored
\* proof only gives way to a proof that a completed change packet leads to.
THEOREM ProofsFollowPackets ==
  ASSUME ~ Reverts
  PROVE  Spec => ProofFollowsPacket
<1>1. Init => TypeOK /\ IInv /\ DInv
  BY InitTypes, InitCertified, InitCovered
<1>2. TypeOK /\ IInv /\ DInv /\ [Next]_vars => TypeOK' /\ IInv' /\ DInv'
  <2> SUFFICES ASSUME TypeOK, IInv, DInv, [Next]_vars
               PROVE  TypeOK' /\ IInv' /\ DInv'
    OBVIOUS
  <2>1. TypeOK' /\ IInv'
    BY NextTypes, NextCertified
  <2>2. Types /\ Types'
    BY <2>1 DEF TypeOK, Types
  <2>3. CASE UNCHANGED vars
    BY <2>1, <2>3 DEF vars, evidence, doneVars, DInv, HeadBelow, DriftSeen, SourceCovered,
       WriteCovered, Label, Passed, Covered, HeadId
  <2>4. CASE Next
    BY <2>1, <2>2, <2>4, EnvironmentCovered, DoneCovered DEF Next
  <2> QED
    BY <2>3, <2>4
<1>3. DInv /\ [Next]_vars =>
        [proof # NoProof /\ proof' # proof =>
           [from |-> proof.source, at |-> proof'.source] \in packets]_vars
  <2> SUFFICES ASSUME DInv, Next, proof # NoProof, proof' # proof
               PROVE  [from |-> proof.source, at |-> proof'.source] \in packets
    OBVIOUS
  <2>1. WriteProof
    BY DEF Next, Done, Environment, Edit, Commit, ApproveBlueprint, StartVerify, FinishVerify,
       FailVerify, NoopVerify, BrowserRun, CompleteTask, WriteFindings, Review, Waive,
       FinishPacket, StartDone, HashSource, ReadScope, BindBefore, BindSource, BindAfter,
       Contracts, VerifyGate, BrowserGate, Repository, DriftGate, LifecycleGates,
       LoadReviews, ReviewGate, Rescope, ReturnComplete, Gate, Pass, Answer
  <2> QED
    BY <2>1 DEF WriteProof, DInv, WriteCovered
<1> QED
  BY <1>1, <1>2, <1>3, PTL DEF Spec, ProofFollowsPacket

-----------------------------------------------------------------------------
(* No blocking finding is missed.  `done` reads the reviewer files, then the *)
(* source they are compared with and the waivers.  A file that attests the   *)
(* source of that later moment was there when the files were read only if    *)
(* the source was this one already, because nobody attests a tree to come.   *)

\* A waiver is given for the scope of its source.
WaivesOwn  == \A w \in waives : w.scope = w.source.scope
\* Commits and reviewers know no tree that is still to come.
LogBelow   == \A i \in DOMAIN log : Leq(log[i], work)
FilesBelow == \A s \in Scopes, r \in Roles :
  reviews[s][r].source \in Trees => Leq(reviews[s][r].source, work)

\* The files as they were read when the tree was w.
Loaded(w) ==
  /\ \A r \in Roles : files.by[r].source \in Trees => Leq(files.by[r].source, w)
  /\ \A f \in watch : f \in ScanFindings[w.ver]
       \/ \E r \in Roles : files.by[r].source = w /\ f \in files.by[r].findings
LoadedOnce  == pc = "reviewMerge" => \E w \in Trees : Leq(w, work) /\ Loaded(w)

Reviewed    == {"rescope", "write", "passed"}
NothingLeft == Label \in Reviewed => watch = {}

\* The merge follows the reading of the files at once.
MergeAtOnce == next # "reviewMerge"

MInv == WaivesOwn /\ LogBelow /\ FilesBelow /\ LoadedOnce /\ NothingLeft /\ MergeAtOnce

\* The placeholder for a missing file attests no tree.
LEMMA NoTreeIsNone == NoTree \notin Trees
<1>1. "absent" \in DOMAIN NoTree
  BY DEF NoTree
<1>2. \A t \in Trees : "absent" \notin DOMAIN t
  BY DEF Trees
<1> QED
  BY <1>1, <1>2

\* A fresh project has no files.
LEMMA InitMissed == Init => MInv
BY NoTreeIsNone DEF Init, MInv, WaivesOwn, LogBelow, FilesBelow, LoadedOnce, NothingLeft, Label,
   Reviewed, Binding, MergeAtOnce, NoFile

\* What everybody else does keeps it: findings that are watched only get fewer.
LEMMA EnvironmentMissed ==
  ASSUME Types, Types', ~ Reverts, MInv, Environment, Watch
  PROVE  MInv'
<1>1. Grows /\ UNCHANGED <<doneVars, proof>>
  BY EnvironmentGrows
<1>2. Label' = Label /\ pc' = pc /\ files' = files
  BY <1>1 DEF Label, doneVars
<1>3. pc # "idle" => watch' \subseteq watch
  BY <1>2 DEF Watch
<1>4. work \in Trees /\ work' \in Trees /\ Leq(work, work')
  BY <1>1 DEF Types, Grows
<1>5. \A t \in Trees : Leq(t, work) => Leq(t, work')
  BY <1>4, LeqTransitive
<1>6. WaivesOwn'
  <2>1. waives' = waives
        \/ \E f \in Findings : waives' = waives \cup {[scope |-> work.scope, source |-> work, finding |-> f]}
    BY DEF Environment, Edit, Commit, ApproveBlueprint, StartVerify, FinishVerify, FailVerify,
       NoopVerify, BrowserRun, CompleteTask, WriteFindings, Review, Waive, FinishPacket, evidence
  <2> QED
    BY <2>1 DEF MInv, WaivesOwn
<1>7. LogBelow'
  <2>1. CASE log' = log
    BY <1>5, <2>1 DEF MInv, LogBelow, Types
  <2>2. CASE log' = Append(log, work)
    <3> SUFFICES ASSUME NEW i \in DOMAIN log' PROVE Leq(log'[i], work')
      BY DEF LogBelow
    <3>1. (i \in DOMAIN log /\ log'[i] = log[i]) \/ log'[i] = work
      BY <2>2 DEF Types
    <3>2. i \in DOMAIN log => log[i] \in Trees /\ Leq(log[i], work)
      BY DEF MInv, LogBelow, Types
    <3> QED
      BY <1>4, <1>5, <3>1, <3>2
  <2> QED
    BY <1>1, <2>1, <2>2 DEF Grows
<1>8. FilesBelow'
  <2> SUFFICES ASSUME NEW s \in Scopes, NEW r \in Roles, reviews'[s][r].source \in Trees
               PROVE  Leq(reviews'[s][r].source, work')
    BY DEF FilesBelow
  <2>1. CASE reviews'[s][r] = reviews[s][r]
    BY <1>5, <2>1 DEF MInv, FilesBelow
  <2>2. CASE reviews'[s][r] # reviews[s][r]
    <3>1. PICK role \in Roles, tree \in Trees, found \in SUBSET Findings :
            WriteFindings(role, tree, found)
      BY <2>2 DEF Environment, Edit, Commit, ApproveBlueprint, StartVerify, FinishVerify,
         FailVerify, NoopVerify, BrowserRun, CompleteTask, Review, Waive, FinishPacket, evidence
    <3>2. reviews'[s][r].source = tree
      BY <2>2, <3>1 DEF WriteFindings, Types
    <3>3. tree = work \/ \E i \in DOMAIN log : tree = log[i]
      BY <3>1 DEF WriteFindings
    <3>4. Leq(tree, work)
      BY <1>4, <3>3, LeqReflexive DEF MInv, LogBelow
    <3> QED
      BY <1>5, <3>2, <3>4
  <2> QED
    BY <2>1, <2>2
<1>9. LoadedOnce'
  <2> SUFFICES ASSUME pc = "reviewMerge" PROVE LoadedOnce'
    BY <1>2 DEF LoadedOnce
  <2>1. PICK w \in Trees : Leq(w, work) /\ Loaded(w)
    BY DEF MInv, LoadedOnce
  <2>2. Leq(w, work') /\ Loaded(w)'
    BY <1>2, <1>3, <1>5, <2>1 DEF Loaded
  <2> QED
    BY <2>2 DEF LoadedOnce
<1>10. NothingLeft' /\ MergeAtOnce'
  BY <1>1, <1>2, <1>3 DEF MInv, NothingLeft, MergeAtOnce, Label, Reviewed, Binding, doneVars
<1> QED
  BY <1>6, <1>7, <1>8, <1>9, <1>10 DEF MInv

\* When the review gate passes, every finding that was open all along is in
\* what it merged, and waived for another source or scope than the present.
LEMMA ReviewGateMissed ==
  ASSUME Types, MInv, pc = "reviewMerge", ReviewClear(files, work)
  PROVE  watch \cap OpenFindings = {}
<1> SUFFICES ASSUME NEW f \in watch, f \in OpenFindings PROVE FALSE
  OBVIOUS
<1>1. PICK w \in Trees : Leq(w, work) /\ Loaded(w)
  BY DEF MInv, LoadedOnce
<1>2. work \in Trees
  BY DEF Types
<1>3. f \in MergedFindings(files, work)
  <2>1. CASE f \in ScanFindings[work.ver]
    BY <2>1 DEF MergedFindings
  <2>2. CASE f \notin ScanFindings[work.ver]
    <3>1. PICK r \in Roles : TRUE
      BY <2>2 DEF OpenFindings
    <3>2. files.by[r].source = work
      BY DEF ReviewClear
    <3>3. Leq(work, w)
      BY <1>1, <1>2, <3>2 DEF Loaded
    <3>4. w = work
      BY <1>1, <1>2, <3>3, LeqAntisymmetric
    <3>5. PICK q \in Roles : files.by[q].source = work /\ f \in files.by[q].findings
      BY <1>1, <2>2, <3>4 DEF Loaded
    <3> QED
      BY <3>5 DEF MergedFindings
  <2> QED
    BY <2>1, <2>2
<1>4. PICK v \in waives : v.scope = files.scope /\ v.source = work /\ v.finding = f
  BY <1>3 DEF ReviewClear, FixQueue, Waived
<1>5. v = [scope |-> work.scope, source |-> work, finding |-> f]
  BY <1>4 DEF MInv, WaivesOwn, Types
<1> QED
  BY <1>4, <1>5 DEF OpenFindings

\* The steps of `done` keep it.
LEMMA DoneMissed ==
  ASSUME Types, MInv, Done, Watch
  PROVE  MInv'
<1>1. work' = work /\ log' = log /\ reviews' = reviews /\ waives' = waives
  BY DEF Done, StartDone, HashSource, ReadScope, BindBefore, BindSource, BindAfter, Contracts,
     VerifyGate, BrowserGate, Repository, DriftGate, LifecycleGates, LoadReviews, ReviewGate,
     Rescope, WriteProof, ReturnComplete, Gate, Pass, Answer, Project, evidence
<1>2. WaivesOwn' /\ LogBelow' /\ FilesBelow'
  BY <1>1 DEF MInv, WaivesOwn, LogBelow, FilesBelow
<1>3. OpenFindings' = OpenFindings
  BY <1>1 DEF OpenFindings
<1>4. pc # "idle" => watch' \subseteq watch \cap OpenFindings
  BY <1>3 DEF Watch
<1> SUFFICES LoadedOnce' /\ NothingLeft' /\ MergeAtOnce'
  BY <1>2 DEF MInv
<1> USE DEF MergeAtOnce
<1>5. ASSUME pc' # "reviewMerge", Label' \in Reviewed => Label \in Reviewed
      PROVE  LoadedOnce' /\ NothingLeft'
  BY <1>4, <1>5 DEF MInv, LoadedOnce, NothingLeft, Label, Reviewed, Binding
<1>6. CASE Answer
  BY <1>5, <1>6 DEF Answer, Label, Reviewed, Binding
<1>7. CASE StartDone \/ HashSource \/ ReadScope
  BY <1>5, <1>7 DEF StartDone, HashSource, ReadScope, Label, Reviewed, Binding, MInv
<1>8. CASE ~ Answer /\ (BindBefore \/ BindSource)
  BY <1>5, <1>8 DEF BindBefore, BindSource, Pass, Label, Binding, MInv
<1>9. CASE ~ Answer /\ BindAfter
  <2>1. pc = "bindAfter" /\ pc' = next /\ next' = next /\ Label' = Label /\ next # "reviewMerge"
    BY <1>9 DEF BindAfter, Pass, Label, Binding, Types, Gates, MInv
  <2> QED
    BY <1>5, <2>1
<1>10. CASE ~ Answer /\ (Contracts \/ VerifyGate \/ BrowserGate \/ Repository \/ DriftGate
                           \/ LifecycleGates)
  BY <1>5, <1>10 DEF Contracts, VerifyGate, BrowserGate, Repository, DriftGate, LifecycleGates,
     Gate, Pass, Label, Reviewed, Binding, MInv
<1>11. CASE LoadReviews
  <2>1. pc = "reviewFiles" /\ pc' = "reviewMerge" /\ files' = FilesOf(work.scope)
    BY <1>11 DEF LoadReviews
  <2>2. ASSUME NEW r \in Roles, files'.by[r].source \in Trees
        PROVE  work.scope \in Scopes /\ files'.by[r] = reviews[work.scope][r]
    BY <2>1, <2>2, NoTreeIsNone DEF FilesOf, NoFile
  <2>3. \A r \in Roles : files'.by[r].source \in Trees => Leq(files'.by[r].source, work)
    BY <2>2 DEF MInv, FilesBelow
  <2>4. ASSUME NEW f \in watch', f \notin ScanFindings[work.ver]
        PROVE  \E r \in Roles : files'.by[r].source = work /\ f \in files'.by[r].findings
    <3>1. f \in OpenFindings
      BY <1>4, <2>1
    <3>2. work.scope \in Scopes /\ \E r \in Roles : reviews[work.scope][r].source = work
                                                  /\ f \in reviews[work.scope][r].findings
      BY <2>4, <3>1 DEF OpenFindings
    <3> QED
      BY <2>1, <3>2 DEF FilesOf
  <2>5. Loaded(work)'
    BY <1>1, <2>3, <2>4 DEF Loaded
  <2>6. work \in Trees /\ Leq(work, work)
    BY LeqReflexive DEF Types
  <2>7. LoadedOnce'
    BY <1>1, <2>5, <2>6 DEF LoadedOnce
  <2> QED
    BY <1>11, <2>1, <2>7 DEF LoadReviews, NothingLeft, Label, Reviewed, Binding, MInv
<1>12. CASE ~ Answer /\ ReviewGate
  <2>1. pc = "reviewMerge" /\ ReviewClear(files, work) /\ pc' = "bindBefore" /\ next' = "rescope"
    BY <1>12 DEF ReviewGate, Gate, Pass
  <2>2. watch' = {}
    BY <1>4, <2>1, ReviewGateMissed
  <2> QED
    BY <2>1, <2>2 DEF LoadedOnce, NothingLeft
<1>13. CASE Rescope \/ WriteProof
  BY <1>5, <1>13 DEF Rescope, WriteProof, Label, Reviewed, Binding
<1> QED
  BY <1>6, <1>7, <1>8, <1>9, <1>10, <1>11, <1>12, <1>13 DEF Done, ReturnComplete

\* The reviewer files that were merged attest a tree that was there after the
\* snapshot, and past the next binding check the snapshot's source itself.
FilesSeen  == Label \in Reviewed => \E w \in Trees : Passed(w) /\ Attest(files, w)
FilesBound == (pc \in {"bindAfter", "write"} /\ Label = "write") \/ Label = "passed"
                => Attest(files, snap.source)
SnapIsProof == Label = "passed" => proof = snap

AInv == FilesSeen /\ FilesBound /\ SnapIsProof

\* A fresh project has merged nothing.
LEMMA InitAttested == Init => AInv
BY DEF Init, AInv, FilesSeen, FilesBound, SnapIsProof, Label, Reviewed, Binding

\* What everybody else does touches neither the snapshot nor the loaded files.
LEMMA EnvironmentAttested ==
  ASSUME Types, Types', ~ Reverts, IInv, AInv, Environment
  PROVE  AInv'
<1>1. Grows /\ UNCHANGED <<doneVars, proof>>
  BY EnvironmentGrows
<1>2. Label' = Label /\ pc' = pc /\ files' = files /\ snap' = snap /\ proof' = proof
  BY <1>1 DEF Label, doneVars
<1>3. ASSUME Label \in Reviewed, NEW w \in Trees, Passed(w)
      PROVE  Passed(w)'
  <2>1. pc \notin {"idle", "hash"}
    BY <1>3 DEF Label, Reviewed, Binding
  <2> QED
    BY <1>1, <1>2, <1>3, <2>1, PassedStable, WorkPassed
<1>4. FilesSeen'
  BY <1>2, <1>3 DEF AInv, FilesSeen, Attest
<1> QED
  BY <1>2, <1>4 DEF AInv, FilesBound, SnapIsProof, Attest

\* The merge accepts files of the present source only, and the binding check
\* that follows makes this the snapshot's.
LEMMA DoneAttested ==
  ASSUME Types, Types', IInv, MergeAtOnce, AInv, Done
  PROVE  AInv'
<1>1. work' = work
  BY DEF Done, StartDone, HashSource, ReadScope, BindBefore, BindSource, BindAfter, Contracts,
     VerifyGate, BrowserGate, Repository, DriftGate, LifecycleGates, LoadReviews, ReviewGate,
     Rescope, WriteProof, ReturnComplete, Gate, Pass, Answer, Project
<1>2. ASSUME Label' \notin Reviewed PROVE AInv'
  BY <1>2 DEF AInv, FilesSeen, FilesBound, SnapIsProof, Reviewed
<1>3. ASSUME files' = files, snap'.source = snap.source, Label \in Reviewed PROVE FilesSeen'
  BY <1>1, <1>3 DEF AInv, FilesSeen, Passed, Attest
<1>4. CASE Answer
  BY <1>2, <1>4 DEF Answer, Label, Reviewed, Binding
<1>5. CASE StartDone \/ HashSource \/ ReadScope
  BY <1>2, <1>5 DEF StartDone, HashSource, ReadScope, Label, Reviewed, Binding
<1>6. CASE ~ Answer /\ (Contracts \/ VerifyGate \/ BrowserGate \/ Repository \/ DriftGate
                          \/ LifecycleGates)
  BY <1>2, <1>6 DEF Contracts, VerifyGate, BrowserGate, Repository, DriftGate, LifecycleGates,
     Gate, Pass, Label, Reviewed, Binding
<1>7. CASE LoadReviews
  BY <1>2, <1>7 DEF LoadReviews, Label, Reviewed, Binding
<1>8. CASE ~ Answer /\ (BindBefore \/ BindSource \/ BindAfter)
  <2>1. files' = files /\ snap' = snap /\ proof' = proof /\ Label' = Label
    BY <1>8 DEF BindBefore, BindSource, BindAfter, Pass, Label, Binding, Types, Gates
  <2> SUFFICES ASSUME Label \in Reviewed PROVE AInv'
    BY <1>2, <2>1
  <2>2. FilesSeen' /\ SnapIsProof'
    BY <1>3, <2>1 DEF AInv, SnapIsProof
  <2>3. CASE BindBefore
    BY <2>1, <2>2, <2>3, <1>8 DEF BindBefore, Pass, AInv, FilesBound, Attest
  <2>4. CASE BindSource
    <3>1. work = snap.source /\ pc \notin {"idle", "hash"}
      BY <1>8, <2>4 DEF BindSource, Pass
    <3>2. \A w \in Trees : Passed(w) => w = snap.source
      BY <3>1, WorkPassed, LeqAntisymmetric DEF Passed
    <3> QED
      BY <2>1, <2>2, <3>2 DEF AInv, FilesSeen, FilesBound, Attest
  <2>5. CASE BindAfter
    BY <1>8, <2>1, <2>2, <2>5 DEF BindAfter, Pass, AInv, FilesBound, Attest
  <2> QED
    BY <1>8, <2>3, <2>4, <2>5
<1>9. CASE ~ Answer /\ ReviewGate
  <2>1. /\ pc = "reviewMerge" /\ Attest(files, work) /\ files' = files /\ snap' = snap
        /\ pc' = "bindBefore" /\ Label' = "rescope"
    BY <1>9 DEF ReviewGate, Gate, Pass, ReviewClear, Attest, Label, Binding
  <2>2. work \in Trees /\ Passed(work)
    BY <2>1, WorkPassed
  <2> QED
    BY <1>1, <2>1, <2>2 DEF AInv, FilesSeen, FilesBound, SnapIsProof, Passed, Attest
<1>10. CASE Rescope
  <2>1. /\ files' = files /\ snap'.source = snap.source /\ Label \in Reviewed
        /\ pc' = "bindBefore" /\ Label' = "write"
    BY <1>10 DEF Rescope, Label, Binding, Reviewed, Types, ProofRecords
  <2> QED
    BY <1>3, <2>1 DEF AInv, FilesBound, SnapIsProof
<1>11. CASE WriteProof
  <2>1. /\ files' = files /\ snap' = snap /\ proof' = snap /\ pc = "write" /\ Label = "write"
        /\ pc' = "bindBefore" /\ Label' = "passed"
    BY <1>11 DEF WriteProof, Label, Binding
  <2> QED
    BY <1>3, <2>1 DEF AInv, FilesBound, SnapIsProof, Attest, Reviewed
<1> QED
  BY <1>4, <1>5, <1>6, <1>7, <1>8, <1>9, <1>10, <1>11 DEF Done, ReturnComplete

\* However the reviewer files, the source and the waivers change while `done`
\* reads them, a completion misses no blocking finding that was open all along
\* and goes by reviewer files of the source it certifies, as long as no edit
\* brings an earlier tree back.
THEOREM CompletionMissesNothing ==
  ASSUME ~ Reverts
  PROVE  Spec => []NothingMissed
<1>1. Init => TypeOK /\ IInv /\ MInv /\ AInv
  BY InitTypes, InitCertified, InitMissed, InitAttested
<1>2. TypeOK /\ IInv /\ MInv /\ AInv /\ [Next]_vars => TypeOK' /\ IInv' /\ MInv' /\ AInv'
  <2> SUFFICES ASSUME TypeOK, IInv, MInv, AInv, [Next]_vars
               PROVE  TypeOK' /\ IInv' /\ MInv' /\ AInv'
    OBVIOUS
  <2>1. TypeOK' /\ IInv' /\ Types /\ Types'
    BY NextTypes, NextCertified DEF TypeOK, Types
  <2>2. CASE UNCHANGED vars
    BY <2>1, <2>2 DEF vars, evidence, doneVars, MInv, WaivesOwn, LogBelow, FilesBelow, LoadedOnce,
       Loaded, NothingLeft, MergeAtOnce, Label, AInv, FilesSeen, FilesBound, SnapIsProof, Passed,
       Attest
  <2>3. CASE Next
    BY <2>1, <2>3, EnvironmentMissed, DoneMissed, EnvironmentAttested, DoneAttested DEF Next, MInv
  <2> QED
    BY <2>2, <2>3
<1>3. MInv /\ AInv => NothingMissed
  BY DEF MInv, AInv, NothingLeft, FilesBound, SnapIsProof, NothingMissed, Label, Reviewed, Binding
<1> QED
  BY <1>1, <1>2, <1>3, PTL DEF Spec
=============================================================================
