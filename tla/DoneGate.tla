------------------------------ MODULE DoneGate ------------------------------
(***************************************************************************)
(* The completion predicate of Star Forge: one `done` command reads the    *)
(* project file by file while editors, git, verification commands,         *)
(* reviewers and the other commands keep changing it, and at the end it    *)
(* publishes .starforge/final/proof.json.                                  *)
(*                                                                         *)
(* Nothing locks the project.  What makes the answer trustworthy is that   *)
(* `done` takes a snapshot of (HEAD, source hash, scope) first and compares*)
(* the project with that snapshot again and again between its gates.       *)
(*                                                                         *)
(* A source hash covers every file of the tree but .starforge, hence also  *)
(* Plan.md, Blueprint.md and its lock.  A source hash is here the tree     *)
(* itself (no collisions): [ver, complete, scope], where `complete` is the *)
(* set of Plan rows with status complete, `scope` the digest of an approved*)
(* Blueprint (or NoScope) and `ver` stands for everything else.            *)
(***************************************************************************)
EXTENDS Naturals, Sequences, FiniteSets

CONSTANTS
  Tasks,        \* ids of the rows of Plan.md
  DocsTasks,    \* the rows task_allows_noop_verification accepts
  VisualTasks,  \* the rows task_is_visual accepts
  Deps,         \* Deps[t]: the rows t depends on
  Roles,        \* the reviewer roles the review policy requires
  Findings,     \* fingerprints of blocking findings
  ScanFindings, \* ScanFindings[v]: what the tree scan reports in version v
  Scopes,       \* digests of approved Blueprints
  NoScope,      \* the scope of a project without an approved Blueprint
  MaxVersion,   \* bound: number of edits the tree can carry
  MaxCommits,   \* bound: number of commits
  MaxRuns,      \* bound: number of run records
  MaxWaives,    \* bound: number of waivers
  Commands,     \* the commands `verify` is called with
  Declared,     \* the one a Plan row declares
  Reverts       \* whether an edit may bring an earlier tree back

Versions == 0 .. MaxVersion
Trees    == [ver : Versions, complete : SUBSET Tasks, scope : Scopes \cup {NoScope}]

ASSUME TasksAssumption ==
  /\ Tasks # {} /\ DocsTasks \subseteq Tasks /\ VisualTasks \subseteq Tasks
  /\ Deps \in [Tasks -> SUBSET Tasks]
ASSUME ReviewAssumption == ScanFindings \in [Versions -> SUBSET Findings]
ASSUME ScopeAssumption  == NoScope \notin Scopes
ASSUME BoundAssumption  ==
  MaxVersion \in Nat /\ MaxCommits \in Nat /\ MaxRuns \in Nat /\ MaxWaives \in Nat /\ Reverts \in BOOLEAN

NoTree  == [ver |-> 0, complete |-> {}, scope |-> NoScope, absent |-> TRUE]
NoFile  == [source |-> NoTree, findings |-> {}]
NoFiles == [scope |-> NoScope, by |-> [r \in Roles |-> NoFile]]
NoProof == [head |-> 0, source |-> NoTree, scope |-> NoScope]
Idle    == [task |-> "none", command |-> Declared, tested |-> NoTree]

VARIABLES
  work,     \* the files of the project, outside .starforge and .git
  log,      \* the trees of the commits; HEAD is the last one
  runs,     \* .starforge/runs: the PASS records
  testing,  \* the verification command that is running, if any
  reviews,  \* reviews[s][r]: .starforge/reviews/<s>/<r>.findings.json
  merged,   \* the scopes that have a merged.json
  waives,   \* .starforge/state/waives.jsonl
  packets,  \* completed approved change packets, by proof and by source
  proof,    \* .starforge/final/proof.json
  pc,       \* the next step of the running `done`
  next,     \* the gate after the binding check that is running
  snap,     \* what `done` took as its snapshot
  files,    \* the reviewer files as load_review_findings returned them
  watch     \* history: the findings open ever since `done` started

evidence == <<runs, testing, reviews, merged, waives, packets>>
doneVars == <<pc, next, snap, files>>
vars     == <<work, log, evidence, proof, doneVars, watch>>

-----------------------------------------------------------------------------
(* What the gates compute from the files.                                  *)

HeadId  == Len(log)
Clean == HeadId > 0 /\ log[HeadId] = work

\* The record kind that proves task t.
ProofKind(t) == IF t \in DocsTasks THEN "noop" ELSE "verify"

\* fresh_passing_verify / has_noop_verify
HasVerify(t, tree) ==
  [kind |-> ProofKind(t), task |-> t, command |-> Declared, source |-> tree] \in runs

\* Mutant: a visual task is satisfied by its verify record.
HasBrowserOfAnyKind(t, tree) ==
  \E r \in runs : r.task = t /\ r.source = tree

\* passing_browser_runs
HasBrowser(t, tree) ==
  [kind |-> "browser", task |-> t, command |-> Declared, source |-> tree] \in runs

\* Mutant: rows that are not complete do not matter.
PlanStarted(tree) == tree.scope # NoScope

\* validate_tasks, all_tasks_complete and blueprint_is_approved
PlanComplete(tree) == tree.scope # NoScope /\ tree.complete = Tasks

\* load_review_findings: the reviewer files of a scope; a scope without a
\* directory has none.
FilesOf(scope) ==
  [scope |-> scope,
   by    |-> IF scope \in Scopes THEN reviews[scope] ELSE [r \in Roles |-> NoFile]]

\* Mutant: a clean tree scan settles the merge.
MergedUnlessClean(fs, tree) ==
  IF ScanFindings[tree.ver] = {} THEN {}
  ELSE UNION {fs.by[r].findings : r \in {q \in Roles : fs.by[q].source = tree}}

\* merge_review: the findings of the fresh files and of the tree scan.
MergedFindings(fs, tree) ==
  ScanFindings[tree.ver]
    \cup UNION {fs.by[r].findings : r \in {q \in Roles : fs.by[q].source = tree}}

\* load_waives
Waived(scope, tree) ==
  {w.finding : w \in {v \in waives : v.scope = scope /\ v.source = tree}}

FixQueue(fs, tree) == MergedFindings(fs, tree) \ Waived(fs.scope, tree)

\* review_findings_for_done returns nothing
ReviewClear(fs, tree) ==
  /\ fs.scope \in merged
  /\ \A r \in Roles : fs.by[r].source = tree
  /\ FixQueue(fs, tree) = {}

\* The blocking findings open now: what the tree scan reports or a reviewer of
\* this scope has found in this very source, and nobody has waived for it.
OpenFindings ==
  {f \in Findings :
     /\ \/ f \in ScanFindings[work.ver]
        \/ /\ work.scope \in Scopes
           /\ \E r \in Roles : /\ reviews[work.scope][r].source = work
                              /\ f \in reviews[work.scope][r].findings
     /\ [scope |-> work.scope, source |-> work, finding |-> f] \notin waives}

\* detect_drift: the stored proof is not about the present repository.
Drifted ==
  /\ proof # NoProof
  /\ ~ (proof.head = HeadId /\ proof.source = work /\ proof.scope = work.scope /\ Clean)

\* Mutant: a packet that starts from the proof covers whatever came after it.
CoveredByAnyPacket == \E p \in packets : p.from = proof.source

\* annotate_drift_coverage, with completed_change_packet_covering_drift
DriftCovered == [from |-> proof.source, at |-> work] \in packets

-----------------------------------------------------------------------------
\* Rows of Plan.md may be complete already: git tracks the Plan and ignores
\* .starforge, so a fresh clone has the rows without their evidence.
Init ==
  /\ \E done \in SUBSET Tasks : work = [ver |-> 0, complete |-> done, scope |-> NoScope]
  /\ log = <<>>
  /\ runs = {}
  /\ testing = Idle
  /\ reviews = [s \in Scopes |-> [r \in Roles |-> NoFile]]
  /\ merged = {}
  /\ waives = {}
  /\ packets = {}
  /\ proof = NoProof
  /\ pc = "idle"
  /\ next = "contracts"
  /\ snap = NoProof
  /\ files = NoFiles
  /\ watch = {}

(* ---- Editors, git, reviewers and the other commands ------------------- *)

\* An editor, a builder or git replaces files of the tree, Plan rows and
\* Blueprint text included.
Edit(tree) ==
  /\ tree # work
  /\ Reverts \/ tree.ver > work.ver
  /\ work' = tree
  /\ UNCHANGED <<log, evidence, proof, doneVars>>

Commit ==
  /\ HeadId < MaxCommits
  /\ log' = Append(log, work)
  /\ UNCHANGED <<work, evidence, proof, doneVars>>

\* approve-blueprint writes Blueprint.lock.json, a file of the tree.
ApproveBlueprint(scope) ==
  /\ work.scope = NoScope
  /\ work' = [work EXCEPT !.scope = scope]
  /\ UNCHANGED <<log, evidence, proof, doneVars>>

\* cmd_verify: the command runs first ...
StartVerify(task, command) ==
  /\ testing = Idle
  /\ Cardinality(runs) < MaxRuns
  /\ testing' = [task |-> task, command |-> command, tested |-> work]
  /\ UNCHANGED <<work, log, runs, reviews, merged, waives, packets, proof, doneVars>>

\* ... and the record takes its source snapshot when the command has ended.
FinishVerify ==
  /\ testing # Idle
  /\ testing' = Idle
  /\ runs' = runs \cup
       {[kind |-> "verify", task |-> testing.task, command |-> testing.command,
         source |-> work]}
  /\ UNCHANGED <<work, log, reviews, merged, waives, packets, proof, doneVars>>

\* A nonzero exit code, a timeout or an unavailable snapshot: a FAIL record,
\* which no gate ever reads.
FailVerify ==
  /\ testing # Idle
  /\ testing' = Idle
  /\ UNCHANGED <<work, log, runs, reviews, merged, waives, packets, proof, doneVars>>

NoopVerify(task) ==
  /\ task \in DocsTasks
  /\ Cardinality(runs) < MaxRuns
  /\ runs' = runs \cup
       {[kind |-> "noop", task |-> task, command |-> Declared, source |-> work]}
  /\ UNCHANGED <<work, log, testing, reviews, merged, waives, packets, proof, doneVars>>

BrowserRun(task) ==
  /\ task \in VisualTasks
  /\ Cardinality(runs) < MaxRuns
  /\ runs' = runs \cup
       {[kind |-> "browser", task |-> task, command |-> Declared, source |-> work]}
  /\ UNCHANGED <<work, log, testing, reviews, merged, waives, packets, proof, doneVars>>

\* cmd_complete_task rewrites the task's Plan row, so it also makes a new tree.
CompleteTask(task) ==
  /\ task \notin work.complete
  /\ Deps[task] \subseteq work.complete
  /\ HasVerify(task, work)
  /\ task \in VisualTasks => HasBrowser(task, work)
  /\ work' = [work EXCEPT !.complete = @ \cup {task}]
  /\ UNCHANGED <<log, evidence, proof, doneVars>>

\* A reviewer writes its file; it attests the tree it was given, which may be
\* the committed one and no longer the one in the files.
WriteFindings(role, tree, found) ==
  /\ work.scope \in Scopes
  /\ tree \in {work} \cup {log[i] : i \in DOMAIN log}
  /\ reviews' = [reviews EXCEPT ![work.scope][role] = [source |-> tree, findings |-> found]]
  /\ UNCHANGED <<work, log, runs, testing, merged, waives, packets, proof, doneVars>>

\* cmd_review
Review ==
  /\ merged' = merged \cup {work.scope}
  /\ UNCHANGED <<work, log, runs, testing, reviews, waives, packets, proof, doneVars>>

\* cmd_waive: only a finding of the current merge, bound to the current source.
Waive(finding) ==
  /\ Cardinality(waives) < MaxWaives
  /\ finding \in MergedFindings(FilesOf(work.scope), work)
  /\ waives' = waives \cup {[scope |-> work.scope, source |-> work, finding |-> finding]}
  /\ merged' = merged \cup {work.scope}
  /\ UNCHANGED <<work, log, runs, testing, reviews, packets, proof, doneVars>>

\* The work of a change packet ends: approved, every task complete and proved
\* at the present source.  `run` derives a packet only when files changed.
FinishPacket ==
  /\ Drifted
  /\ proof.source # work
  /\ packets' = packets \cup {[from |-> proof.source, at |-> work]}
  /\ UNCHANGED <<work, log, runs, testing, reviews, merged, waives, proof, doneVars>>

(* ---- The `done` command ----------------------------------------------- *)

Project == <<work, log, evidence>>

\* The command prints its answer and ends; a blocked one changes no file.
Answer ==
  /\ pc' = "idle"
  /\ next' = "contracts"
  /\ snap' = NoProof
  /\ files' = NoFiles
  /\ UNCHANGED <<Project, proof>>

\* A gate without a problem: go on to `to`, through a binding check if `bind`.
Pass(to, bind) ==
  /\ pc' = IF bind THEN "bindBefore" ELSE to
  /\ next' = IF bind THEN to ELSE next
  /\ UNCHANGED <<snap, files, Project, proof>>

Gate(name, holds, to, bind) ==
  /\ pc = name
  /\ IF holds THEN Pass(to, bind) ELSE Answer

\* release_snapshot reads HEAD and then the source.
StartDone ==
  /\ pc = "idle"
  /\ pc' = "hash"
  /\ snap' = [NoProof EXCEPT !.head = HeadId]
  /\ UNCHANGED <<next, files, Project, proof>>

\* Mutant: the snapshot takes a part of the source for the source.
HashVersion ==
  /\ pc = "hash"
  /\ pc' = "scope"
  /\ snap' = [snap EXCEPT !.source = [ver |-> work.ver]]
  /\ UNCHANGED <<next, files, Project, proof>>

HashSource ==
  /\ pc = "hash"
  /\ pc' = "scope"
  /\ snap' = [snap EXCEPT !.source = work]
  /\ UNCHANGED <<next, files, Project, proof>>

ReadScope ==
  /\ pc = "scope"
  /\ pc' = "bindBefore"
  /\ next' = "contracts"
  /\ snap' = [snap EXCEPT !.scope = work.scope]
  /\ UNCHANGED <<files, Project, proof>>

\* proof_binding_matches: git facts and scope, then the source hash, then git
\* facts and scope once more.
GitBound   == HeadId = snap.head /\ Clean /\ work.scope = snap.scope
BindBefore == pc = "bindBefore" /\ IF GitBound THEN Pass("bindSource", FALSE) ELSE Answer
BindSource ==
  pc = "bindSource" /\ IF work = snap.source THEN Pass("bindAfter", FALSE) ELSE Answer
BindAfter  == pc = "bindAfter" /\ IF GitBound THEN Pass(next, FALSE) ELSE Answer

Contracts  == Gate("contracts", PlanComplete(work), "verify", FALSE)
VerifyGate == Gate("verify", \A t \in Tasks : HasVerify(t, work), "browser", TRUE)
BrowserGate == Gate("browser", \A t \in VisualTasks : HasBrowser(t, work), "repository", TRUE)
Repository == Gate("repository", HeadId = snap.head /\ Clean, "drift", FALSE)
DriftGate  == Gate("drift", Drifted => DriftCovered, "lifecycle", FALSE)

\* done_lifecycle_gates: the foundation and delivery gates may hold or not.
LifecycleGates == \E satisfied \in BOOLEAN : Gate("lifecycle", satisfied, "reviewFiles", TRUE)

\* merge_review loads the reviewer files before it computes the source hash.
LoadReviews ==
  /\ pc = "reviewFiles"
  /\ pc' = "reviewMerge"
  /\ files' = FilesOf(work.scope)
  /\ UNCHANGED <<next, snap, Project, proof>>

ReviewGate == Gate("reviewMerge", ReviewClear(files, work), "rescope", TRUE)

\* cmd_done reads the scope again for the proof record.
Rescope ==
  /\ pc = "rescope"
  /\ pc' = "bindBefore"
  /\ next' = "write"
  /\ snap' = [snap EXCEPT !.scope = work.scope]
  /\ UNCHANGED <<files, Project, proof>>

WriteProof ==
  /\ pc = "write"
  /\ proof' = snap
  /\ pc' = "bindBefore"
  /\ next' = "passed"
  /\ UNCHANGED <<snap, files, Project>>

\* The command answers COMPLETE.
ReturnComplete == pc = "passed" /\ Answer

Done ==
  \/ StartDone \/ HashSource \/ ReadScope
  \/ BindBefore \/ BindSource \/ BindAfter
  \/ Contracts \/ VerifyGate \/ BrowserGate
  \/ Repository \/ DriftGate \/ LifecycleGates
  \/ LoadReviews \/ ReviewGate
  \/ Rescope \/ WriteProof \/ ReturnComplete

Environment ==
  \/ \E tree \in Trees : Edit(tree)
  \/ Commit
  \/ \E scope \in Scopes : ApproveBlueprint(scope)
  \/ \E task \in Tasks, command \in Commands : StartVerify(task, command)
  \/ FinishVerify
  \/ FailVerify
  \/ \E task \in Tasks : NoopVerify(task) \/ BrowserRun(task) \/ CompleteTask(task)
  \/ \E role \in Roles, tree \in Trees, found \in SUBSET Findings :
       WriteFindings(role, tree, found)
  \/ Review
  \/ \E finding \in Findings : Waive(finding)
  \/ FinishPacket

\* The history variable: the findings open when `done` starts, as long as they
\* stay open.
Watch == watch' = IF pc = "idle" THEN (IF pc' = "idle" THEN {} ELSE OpenFindings')
                  ELSE IF pc' = "idle" THEN {} ELSE watch \cap OpenFindings'

Next == (Done \/ Environment) /\ Watch

Spec == Init /\ [][Next]_vars

-----------------------------------------------------------------------------
(* Properties.                                                             *)

Gates == {"contracts", "verify", "browser", "repository", "drift", "lifecycle",
          "reviewFiles", "reviewMerge", "rescope", "write", "passed"}
Binding == {"bindBefore", "bindSource", "bindAfter"}

RunRecords == [kind : {"verify", "noop", "browser"}, task : Tasks,
               command : Commands \cup {Declared}, source : Trees]
FileRecords == [source : Trees \cup {NoTree}, findings : SUBSET Findings]
ProofRecords == [head : Nat, source : Trees \cup {NoTree}, scope : Scopes \cup {NoScope}]

\* The shape of every file and of the local state of the command.
TypeOK ==
  /\ work \in Trees
  /\ log \in Seq(Trees)
  /\ runs \subseteq RunRecords
  /\ testing \in [task : Tasks, command : Commands, tested : Trees] \cup {Idle}
  /\ reviews \in [Scopes -> [Roles -> FileRecords]]
  /\ merged \subseteq Scopes \cup {NoScope}
  /\ waives \subseteq [scope : Scopes \cup {NoScope}, source : Trees, finding : Findings]
  /\ packets \subseteq [from : Trees \cup {NoTree}, at : Trees]
  /\ proof \in ProofRecords
  /\ pc \in Gates \cup Binding \cup {"idle", "hash", "scope"}
  /\ next \in Gates
  /\ snap \in ProofRecords
  /\ files \in [scope : Scopes \cup {NoScope}, by : [Roles -> FileRecords]]
  /\ watch \subseteq Findings

\* What proof.json certifies: its HEAD is a commit of its very source, the
\* Blueprint of that source is approved and is the proof's scope, every Plan
\* row is complete, and every task has passing records, of its own kind and
\* for its declared command, made for that source.
Recorded(kind, t, tree) ==
  \E r \in runs : /\ r.kind = kind /\ r.task = t /\ r.command = Declared
                  /\ r.source = tree
Certified(p) ==
  /\ p.head \in DOMAIN log /\ log[p.head] = p.source
  /\ p.scope \in Scopes /\ p.scope = p.source.scope
  /\ p.source.complete = Tasks
  /\ \A t \in Tasks : Recorded(ProofKind(t), t, p.source)
  /\ \A t \in VisualTasks : Recorded("browser", t, p.source)

\* The code reads these facts one after the other while the files change; the
\* proof it writes must state them of one and the same source.
ProofCertified == proof # NoProof => Certified(proof)

\* Every reviewer file that was loaded is about this source.
Attest(fs, tree) == \A r \in Roles : fs.by[r].source = tree

\* A `done` that answers COMPLETE has missed no blocking finding that was open
\* during its whole run, and every reviewer file it went by attests the source
\* it certifies, although the reviewer files, the source they are compared with
\* and the waivers are read at different times.
NothingMissed == pc = "passed" => watch = {} /\ Attest(files, proof.source)

\* A proof is replaced by another one only when a completed change packet leads
\* from the old completed source to the new one: drift after `done` cannot be
\* laundered by running `done` again.
ProofFollowsPacket ==
  [][proof # NoProof /\ proof' # proof =>
       [from |-> proof.source, at |-> proof'.source] \in packets]_vars

\* README.md: every claim is tied to the source that was actually tested.
TestedIsRecorded ==
  [][\A r \in runs' \ runs : r.kind = "verify" => r.source = testing.tested]_vars
=============================================================================
