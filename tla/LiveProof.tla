------------------------------ MODULE LiveProof ------------------------------
(***************************************************************************)
(* Live evidence of one task: a collector observes the running product and *)
(* leaves raw artifacts, a manifest with their hashes and an evidence      *)
(* envelope derived from that manifest; a proof command reads all of them  *)
(* back and writes a run record (live_collectors/common.py, preview.py,    *)
(* browser_playwright.py, evidence.py, runtime_preview.py).                *)
(*                                                                         *)
(* Everything lives under fixed names in one directory and nothing locks   *)
(* it: two collectors of a task, edits of the source, the processes of the *)
(* machine and a lease all move while a collector or a proof is at work.   *)
(* A hash is here the content itself.  Versions of the source only grow: an*)
(* edit that is undone before the second hash is seen by no check.  No     *)
(* check asks what answers on the port: a lease names a process, and only  *)
(* that this one is alive is looked at.                                    *)
(***************************************************************************)
EXTENDS Naturals, FiniteSets

CONSTANTS
  Collectors,   \* runs of the collector for this task
  Artifacts,    \* the names of its raw artifacts
  MaxSource,    \* bound: edits of the source
  MaxPid,       \* bound: processes started; the system gives no pid twice
  MaxLeases     \* bound: lease commands

ASSUME LiveAssumption == MaxSource \in Nat /\ MaxPid \in Nat \ {0} /\ MaxLeases \in Nat /\ Artifacts # {}

VARIABLES
  lpSource,    \* the source now
  lpServer,    \* the processes alive, and the pids used
  lpLease,     \* .starforge/runtime/server.json, and the lease commands so far
  lpDisk,      \* lpDisk[a]: the bytes of artifact a
  lpCopy,      \* server-lease.json, the copy of the lease a collector makes
  lpManifest,  \* manifest.json
  lpEnvelope,  \* evidence.v2.json
  lpRun,       \* lpRun[c]: the progress of collector run c
  lpProof,     \* the proof command
  lpQuiet,     \* ghost: no edit while the proof command ran
  lpAlone,     \* ghost: no two collector runs have overlapped
  lpSteady     \* ghost: no lease command came while a collector ran

lpVars == <<lpSource, lpServer, lpLease, lpDisk, lpCopy, lpManifest, lpEnvelope,
            lpRun, lpProof, lpQuiet, lpAlone, lpSteady>>
lpWorld  == <<lpSource, lpServer, lpLease, lpQuiet, lpSteady>>
lpFiles  == <<lpDisk, lpCopy, lpManifest, lpEnvelope>>

\* The bytes of an artifact say whether what answered behaved well.  Ghosts, of
\* the moment of the observation: the source, and whether the leased process
\* was alive.
NoBytes    == [source |-> 0, ok |-> FALSE, leased |-> FALSE]
NoLease    == [pid |-> 0, source |-> 0]
NoManifest == [before |-> 0, after |-> 0, problems |-> TRUE, lease |-> NoLease,
               files |-> [a \in Artifacts |-> NoBytes]]
NoEnvelope == [of |-> NoManifest, blocked |-> TRUE, route |-> "none"]
NotRun     == [pc |-> "ready", before |-> 0, problems |-> FALSE, saw |-> NoBytes,
               left |-> Artifacts, manifest |-> NoManifest]
Ended      == [NotRun EXCEPT !.pc = "ended"]
NotProved  == [pc |-> "idle", manifest |-> NoManifest, source |-> 0]

LPInit ==
  /\ lpSource = 0
  /\ lpServer = [alive |-> {1}, used |-> 1]
  /\ lpLease \in [file : {NoLease, [pid |-> 1, source |-> 0]}, commands : {0}]
  /\ lpDisk = [a \in Artifacts |-> NoBytes] /\ lpCopy = NoLease
  /\ lpManifest = NoManifest /\ lpEnvelope = NoEnvelope
  /\ lpRun = [c \in Collectors |-> NotRun]
  /\ lpProof = NotProved
  /\ lpQuiet = TRUE /\ lpAlone = TRUE /\ lpSteady = TRUE

Collecting(c) == lpRun[c].pc \notin {"ready", "ended"}
Proving == lpProof.pc \notin {"idle", "PASS"}
SomeoneCollects == \E c \in Collectors : Collecting(c)

-----------------------------------------------------------------------------
(* The environment: edits, processes and the lease                         *)

EditSource ==
  /\ lpSource < MaxSource
  /\ lpSource' = lpSource + 1
  /\ lpQuiet' = (lpQuiet /\ ~Proving)
  /\ UNCHANGED <<lpServer, lpLease, lpFiles, lpRun, lpProof, lpAlone, lpSteady>>

\* Processes come and go.  Which of them listens on the port, if any, no check
\* asks: it is chosen anew whenever the port is used.
ServerChanges(server) ==
  /\ lpServer' = server
  /\ UNCHANGED <<lpSource, lpLease, lpFiles, lpRun, lpProof, lpQuiet, lpAlone, lpSteady>>

Starts ==
  LET pid == lpServer.used + 1 IN
  /\ lpServer.used < MaxPid
  /\ ServerChanges([lpServer EXCEPT !.alive = @ \cup {pid}, !.used = pid])

Dies(pid) ==
  /\ pid \in lpServer.alive
  /\ ServerChanges([lpServer EXCEPT !.alive = @ \ {pid}])

\* cmd_server_lease: acquire replaces whatever lease there is with one for the
\* pid it is given, which it does not check; release deletes it whoever
\* acquired it.
LeaseCommand(lease) ==
  /\ lpLease.commands < MaxLeases /\ lease # lpLease.file
  /\ lpLease' = [file |-> lease, commands |-> lpLease.commands + 1]
  /\ lpSteady' = (lpSteady /\ ~SomeoneCollects)
  /\ UNCHANGED <<lpSource, lpServer, lpFiles, lpRun, lpProof, lpQuiet, lpAlone>>

AcquireLease(pid) == LeaseCommand([pid |-> pid, source |-> lpSource])
ReleaseLease == LeaseCommand(NoLease)

\* validate_server_lease: some process with the leased pid is alive, listening
\* or not, and the lease was taken at this source.
LeaseHolds(lease, source) == lease.pid \in lpServer.alive /\ lease.source = source

-----------------------------------------------------------------------------
(* A collector run                                                         *)

Step(c, pc) == lpRun' = [lpRun EXCEPT ![c].pc = pc]

\* The first source hash, and the lease.
StartCollecting(c) ==
  /\ lpRun[c].pc = "ready"
  /\ lpRun' = [lpRun EXCEPT ![c].pc = "observe", ![c].before = lpSource,
                            ![c].problems = ~LeaseHolds(lpLease.file, lpSource)]
  /\ lpAlone' = (lpAlone /\ ~SomeoneCollects)
  /\ UNCHANGED <<lpWorld, lpFiles, lpProof>>

\* fetch_http and run_smoke_checks: whatever listens on the port answers well; a
\* bad answer is a problem and so is none.
Observe(c, ok) ==
  LET answer == IF ~ok THEN NoBytes
                ELSE [source |-> lpSource, ok |-> TRUE, leased |-> lpLease.file.pid \in lpServer.alive] IN
  /\ lpRun[c].pc = "observe"
  /\ lpRun' = [lpRun EXCEPT ![c].pc = "write", ![c].saw = answer, ![c].problems = @ \/ ~answer.ok]
  /\ UNCHANGED <<lpWorld, lpFiles, lpProof, lpAlone>>

WriteArtifact(c, a) ==
  /\ lpRun[c].pc = "write" /\ a \in lpRun[c].left
  /\ lpDisk' = [lpDisk EXCEPT ![a] = lpRun[c].saw]
  /\ lpRun' = [lpRun EXCEPT ![c].left = @ \ {a}]
  /\ UNCHANGED <<lpWorld, lpCopy, lpManifest, lpEnvelope, lpProof, lpAlone>>

\* The lease file is read again, after the answer, and copied unchecked.
CopyLease(c) ==
  /\ lpRun[c].pc = "write" /\ lpRun[c].left = {}
  /\ Step(c, "manifest")
  /\ lpCopy' = lpLease.file
  /\ UNCHANGED <<lpWorld, lpDisk, lpManifest, lpEnvelope, lpProof, lpAlone>>

\* write_live_manifest: the artifacts are hashed as they are on disk now; the
\* second source hash.
WriteManifest(c) ==
  LET manifest == [before |-> lpRun[c].before, after |-> lpSource, problems |-> lpRun[c].problems,
                   lease |-> lpCopy, files |-> lpDisk] IN
  /\ lpRun[c].pc = "manifest"
  /\ lpManifest' = manifest
  /\ lpRun' = [lpRun EXCEPT ![c] = [NotRun EXCEPT !.pc = "sidecar", !.manifest = manifest]]
  /\ UNCHANGED <<lpWorld, lpDisk, lpCopy, lpEnvelope, lpProof, lpAlone>>

\* Mutant: a source that changed during the collection blocks nothing.
BlockedByProblems(manifest) == manifest.problems

\* adapt_v1_manifest: problems and a changed source are blockers.
Blocked(manifest) == manifest.problems \/ manifest.before # manifest.after

\* validate_envelope with verify_artifacts: the bytes on disk are the hashed ones.
BytesMatch(manifest) == manifest.files = lpDisk /\ manifest.lease = lpCopy

Adapt(manifest, route) == [of |-> manifest, blocked |-> Blocked(manifest), route |-> route]

\* write_live_manifest goes on with a plain envelope of the manifest it still
\* has in memory; when that is refused the old envelope stays, silently.
WriteSidecar(c) ==
  /\ lpRun[c].pc = "sidecar"
  /\ lpRun' = [lpRun EXCEPT ![c] = [NotRun EXCEPT !.pc = "envelope"]]
  /\ lpEnvelope' = IF BytesMatch(lpRun[c].manifest) THEN Adapt(lpRun[c].manifest, "plain") ELSE lpEnvelope
  /\ UNCHANGED <<lpWorld, lpDisk, lpCopy, lpManifest, lpProof, lpAlone>>

\* write_evidence_envelope reads the manifest back and adds the route; a
\* refusal ends the collector with an error.
WriteEnvelope(c) ==
  /\ lpRun[c].pc = "envelope"
  /\ lpRun' = [lpRun EXCEPT ![c] = Ended]
  /\ lpEnvelope' = IF BytesMatch(lpManifest) THEN Adapt(lpManifest, "full") ELSE lpEnvelope
  /\ UNCHANGED <<lpWorld, lpDisk, lpCopy, lpManifest, lpProof, lpAlone>>

\* The collector is killed between two files.
CollectorDies(c) ==
  /\ Collecting(c)
  /\ lpRun' = [lpRun EXCEPT ![c] = Ended]
  /\ UNCHANGED <<lpWorld, lpFiles, lpProof, lpAlone>>

-----------------------------------------------------------------------------
(* The proof command: preview-proof, proof-run                             *)

\* The command collects all problems and then writes a FAIL record, which no
\* gate accepts: a problem ends the attempt here.
Judge(pc, clear) == lpProof' = IF clear THEN [lpProof EXCEPT !.pc = pc] ELSE NotProved

\* load_and_validate_live_manifest: one snapshot of the manifest.
ReadManifest ==
  /\ lpProof.pc = "idle" /\ lpManifest # NoManifest
  /\ lpProof' = [NotProved EXCEPT !.pc = "envelope", !.manifest = lpManifest]
  /\ lpQuiet' = TRUE
  /\ UNCHANGED <<lpSource, lpServer, lpLease, lpSteady, lpFiles, lpRun, lpAlone>>

\* Mutant: any envelope in the directory will do.
CoversAnything(envelope, manifest) == TRUE

\* envelope_covers_v1: the envelope carries the hash of this very manifest.
Covers(envelope, manifest) == envelope.of = manifest

\* load_normalized_live_evidence: a snapshot of the envelope, verified against
\* the bytes on disk, bound to the manifest, of the collector's own route.
ReadEnvelope ==
  /\ lpProof.pc = "envelope"
  /\ Judge("source", /\ ~lpEnvelope.blocked /\ lpEnvelope.route = "full"
                     /\ BytesMatch(lpEnvelope.of)
                     /\ Covers(lpEnvelope, lpProof.manifest))
  /\ UNCHANGED <<lpWorld, lpFiles, lpRun, lpAlone>>

\* The evidence is of the current source; validate_raw_artifact_hashes.
CheckSource ==
  /\ lpProof.pc = "source"
  /\ Judge("artifacts", lpProof.manifest.after = lpSource /\ lpProof.manifest.files = lpDisk)
  /\ UNCHANGED <<lpWorld, lpFiles, lpRun, lpAlone>>

\* Mutant: the lease is only compared with the manifest.
LeaseRecorded(lease, source) == lease.pid # 0

\* validate_preview_server_lease_artifact, with the checks of the present.
ProofLease(lease, source) == LeaseHolds(lease, source)

\* validate_preview_proof_artifacts: each artifact is read, compared with its
\* hash in the manifest, and reports success; the copied lease still holds.
CheckArtifacts ==
  /\ lpProof.pc = "artifacts"
  /\ Judge("record", /\ lpProof.manifest.files = lpDisk /\ lpProof.manifest.lease = lpCopy
                     /\ \A a \in Artifacts : lpDisk[a].ok
                     /\ ProofLease(lpCopy, lpSource))
  /\ UNCHANGED <<lpWorld, lpFiles, lpRun, lpAlone>>

\* write_live_proof_record: the source snapshot of the record is taken here.
WriteRecord ==
  /\ lpProof.pc = "record"
  /\ lpProof' = [lpProof EXCEPT !.pc = "PASS", !.source = lpSource]
  /\ UNCHANGED <<lpWorld, lpFiles, lpRun, lpAlone>>

ProveAgain ==
  /\ lpProof.pc = "PASS"
  /\ lpProof' = NotProved
  /\ UNCHANGED <<lpWorld, lpFiles, lpRun, lpAlone>>

-----------------------------------------------------------------------------
LPNext ==
  \/ EditSource \/ Starts \/ \E pid \in lpServer.alive : Dies(pid)
  \/ \E pid \in 1 .. MaxPid : AcquireLease(pid)
  \/ ReleaseLease
  \/ \E c \in Collectors :
       \/ StartCollecting(c)
       \/ \E ok \in BOOLEAN : Observe(c, ok)
       \/ \E a \in Artifacts : WriteArtifact(c, a)
       \/ CopyLease(c) \/ WriteManifest(c) \/ WriteSidecar(c) \/ WriteEnvelope(c) \/ CollectorDies(c)
  \/ ReadManifest \/ ReadEnvelope \/ CheckSource \/ CheckArtifacts \/ WriteRecord \/ ProveAgain

LPSpec == LPInit /\ [][LPNext]_lpVars

-----------------------------------------------------------------------------
(* Properties                                                              *)

Passed == lpProof.pc = "PASS"

\* Evidence that passes was taken of one source, the one the record names: when
\* no edit came while the proof command ran and no two collectors overlapped,
\* every artifact was observed, behaving well, while the project had this
\* source.  (Whether the process that answered had been built from it nobody
\* looks at.)
OneSource ==
  Passed /\ lpQuiet /\ lpAlone =>
    \A a \in Artifacts : lpProof.manifest.files[a].ok /\ lpProof.manifest.files[a].source = lpProof.source

\* Whatever overlaps, and wherever a collector died, no run that recorded a
\* problem or saw the source change is ever accepted, not even with the
\* envelope a cleaner run left behind.
NoBlockedPass == Passed => ~lpProof.manifest.problems /\ lpProof.manifest.before = lpProof.manifest.after

\* What the lease gives, which is read and checked before the observation,
\* read again and copied after it, and checked once more by the proof: every
\* artifact was observed while the leased process was alive and while the
\* project had the very source the lease was taken at, unless the lease was
\* replaced while the collector ran or collectors overlapped.
LeaseSpansEvidence ==
  Passed /\ lpSteady /\ lpAlone =>
    \A a \in Artifacts : /\ lpProof.manifest.files[a].leased
                         /\ lpProof.manifest.files[a].source = lpProof.manifest.lease.source
=============================================================================
