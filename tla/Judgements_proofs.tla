--------------------------- MODULE Judgements_proofs --------------------------
(* Theorems about what is judged later than it was seen, checked by TLAPS:   *)
(* live evidence and its proof (LiveProof), previews (PreviewFetch), and the *)
(* profile a project was given (ProfileLock).  Each part has an invariant    *)
(* and theorems of its own; they share no state.                             *)
EXTENDS LiveProof, PreviewFetch, ProfileLock, TLAPS, SequenceTheorems, WellFoundedInduction

-----------------------------------------------------------------------------
(* LiveProof: the types that the arguments need.                             *)

Bytes     == [source : Nat, ok : BOOLEAN, leased : BOOLEAN]
Leases    == [pid : Nat, source : Nat]
Manifests == [before : Nat, after : Nat, problems : BOOLEAN, lease : Leases, files : [Artifacts -> Bytes]]
Envelopes == [of : Manifests, blocked : BOOLEAN, route : {"none", "plain", "full"}]
Runs      == [pc : {"ready", "observe", "write", "manifest", "sidecar", "envelope", "ended"}, before : Nat,
              problems : BOOLEAN, saw : Bytes, left : SUBSET Artifacts, manifest : Manifests]
Proofs    == [pc : {"idle", "envelope", "source", "artifacts", "record", "PASS"}, manifest : Manifests,
              source : Nat]

LiveTypes ==
  /\ lpSource \in Nat /\ lpServer \in [alive : SUBSET Nat, used : Nat]
  /\ lpLease \in [file : Leases, commands : Nat]
  /\ lpDisk \in [Artifacts -> Bytes] /\ lpCopy \in Leases
  /\ lpManifest \in Manifests /\ lpEnvelope \in Envelopes
  /\ lpRun \in [Collectors -> Runs] /\ lpProof \in Proofs
  /\ lpQuiet \in BOOLEAN /\ lpAlone \in BOOLEAN /\ lpSteady \in BOOLEAN

-----------------------------------------------------------------------------
(* LiveProof: the inductive invariants.                                      *)

\* An envelope says what its manifest says, and a proof that goes on has seen
\* the envelope of its own manifest.
BlockersKept ==
  /\ lpEnvelope.blocked = Blocked(lpEnvelope.of)
  /\ lpProof.pc \in {"source", "artifacts", "record", "PASS"} => ~Blocked(lpProof.manifest)

\* A process that starts gets a pid that none has had.
PidsUsed == \A pid \in lpServer.alive : pid <= lpServer.used

\* What a manifest says of the source and of the lease, when no collectors
\* overlapped and no lease command came while one ran: a leased process that is
\* alive now has been so ever since it was first looked at.
SourceBetween(m) == \A a \in Artifacts : m.files[a].ok => m.before <= m.files[a].source /\ m.files[a].source <= m.after
Spans(lease, leased) == lease.pid <= lpServer.used /\ (lease.pid \in lpServer.alive => leased)
Leased(m) == ~m.problems =>
  m.lease.source = m.before /\ \A a \in Artifacts : Spans(m.lease, m.files[a].leased)
KeepsLease(run) == lpSteady /\ ~run.problems =>
  /\ lpLease.file.source = run.before
  /\ Spans(lpLease.file, run.pc = "observe" \/ run.saw.leased)

\* A collector that is alone finds on disk what it wrote.
OwnFiles ==
  /\ \A c, d \in Collectors : Collecting(c) /\ Collecting(d) => c = d
  /\ \A c \in Collectors : lpRun[c].pc \in {"ready", "observe"} => lpRun[c].left = Artifacts
  /\ \A c \in Collectors : lpRun[c].pc \in {"observe", "write", "manifest"} => lpRun[c].before <= lpSource
  /\ \A c \in Collectors : lpRun[c].pc \in {"write", "manifest"} =>
       /\ \A a \in Artifacts \ lpRun[c].left : lpDisk[a] = lpRun[c].saw
       /\ lpRun[c].saw.ok => lpRun[c].before <= lpRun[c].saw.source /\ lpRun[c].saw.source <= lpSource
  /\ \A c \in Collectors : lpRun[c].pc \in {"observe", "write", "manifest"} => KeepsLease(lpRun[c])
  /\ \A c \in Collectors : lpRun[c].pc = "manifest" => lpRun[c].left = {} /\ (lpSteady => lpCopy = lpLease.file)

AloneKept ==
  lpAlone =>
    /\ OwnFiles
    /\ SourceBetween(lpManifest) /\ SourceBetween(lpProof.manifest)
    /\ lpSteady => Leased(lpManifest) /\ Leased(lpProof.manifest)

\* What a proof has established of its manifest.
ProofKept ==
  /\ lpProof.pc \in {"record", "PASS"} => \A a \in Artifacts : lpProof.manifest.files[a].ok
  /\ lpProof.pc \in {"artifacts", "record"} /\ lpQuiet => lpProof.manifest.after = lpSource
  /\ lpProof.pc = "PASS" /\ lpQuiet => lpProof.manifest.after = lpProof.source
  /\ lpProof.pc \in {"record", "PASS"} /\ lpSteady /\ lpAlone =>
       \A a \in Artifacts : lpProof.manifest.files[a].leased

LiveInv == LiveTypes /\ BlockersKept /\ PidsUsed /\ AloneKept /\ ProofKept

\* The empty values are of their types, and claim nothing.
LEMMA EmptyLive ==
  /\ NoBytes \in Bytes /\ NoLease \in Leases /\ NoManifest \in Manifests /\ NoEnvelope \in Envelopes
  /\ NotRun \in Runs /\ Ended \in Runs /\ NotProved \in Proofs
  /\ NotRun.pc = "ready" /\ NotRun.left = Artifacts /\ Ended.pc = "ended" /\ Ended.left = Artifacts
  /\ NotProved.pc = "idle" /\ NotProved.manifest = NoManifest /\ NoLease.pid = 0 /\ NoManifest.lease = NoLease
  /\ SourceBetween(NoManifest) /\ Leased(NoManifest) /\ Blocked(NoManifest)
<1>1. NoBytes \in Bytes /\ NoLease \in Leases /\ NoLease.pid = 0
  BY DEF NoBytes, Bytes, NoLease, Leases
<1>2. NoManifest \in Manifests /\ NoManifest.lease = NoLease /\ NoManifest.problems
      /\ \A a \in Artifacts : NoManifest.files[a] = NoBytes
  BY <1>1 DEF NoManifest, Manifests
<1>3. NoEnvelope \in Envelopes
  BY <1>2 DEF NoEnvelope, Envelopes
<1>4. NotRun \in Runs /\ NotRun.pc = "ready" /\ NotRun.left = Artifacts
  BY <1>1, <1>2 DEF NotRun, Runs
<1>5. Ended \in Runs /\ Ended.pc = "ended" /\ Ended.left = Artifacts
  BY <1>4 DEF Ended, Runs
<1>6. NotProved \in Proofs /\ NotProved.pc = "idle" /\ NotProved.manifest = NoManifest
  BY <1>2 DEF NotProved, Proofs
<1>7. SourceBetween(NoManifest) /\ Leased(NoManifest) /\ Blocked(NoManifest)
  BY <1>1, <1>2 DEF SourceBetween, Leased, Blocked, NoBytes
<1> QED
  BY <1>1, <1>2, <1>3, <1>4, <1>5, <1>6, <1>7

\* Nothing has been collected in the beginning.
LEMMA LiveInitInv == LPInit => LiveInv
<1> SUFFICES ASSUME LPInit PROVE LiveInv
  OBVIOUS
<1>1. LiveTypes
  BY EmptyLive DEF LPInit, LiveTypes, Leases
<1>2. BlockersKept
  BY EmptyLive DEF LPInit, BlockersKept, NoEnvelope, Blocked
<1>3. PidsUsed
  BY EmptyLive DEF LPInit, PidsUsed
<1>4. AloneKept
  BY EmptyLive DEF LPInit, AloneKept, OwnFiles, Collecting
<1>5. ProofKept
  BY EmptyLive DEF LPInit, ProofKept
<1> QED
  BY <1>1, <1>2, <1>3, <1>4, <1>5 DEF LiveInv

-----------------------------------------------------------------------------
(* LiveProof: what the steps of a collector and of a proof do.               *)

\* A step of a proof keeps its manifest or drops it.
LEMMA JudgeDoes ==
  ASSUME LiveTypes, NEW pc \in {"source", "artifacts", "record"}, NEW clear, Judge(pc, clear)
  PROVE  /\ lpProof' \in Proofs
         /\ \/ clear /\ lpProof'.pc = pc /\ lpProof'.manifest = lpProof.manifest
            \/ lpProof' = NotProved
<1>1. CASE clear
  BY <1>1 DEF Judge, LiveTypes, Proofs
<1>2. CASE ~clear
  BY <1>2, EmptyLive DEF Judge
<1> QED
  BY <1>1, <1>2

\* A step of a collector changes no other one.
LEMMA OtherRuns ==
  ASSUME LiveTypes, NEW c \in Collectors, NEW run \in Runs, lpRun' = [lpRun EXCEPT ![c] = run]
  PROVE  /\ lpRun' \in [Collectors -> Runs] /\ lpRun'[c] = run
         /\ \A d \in Collectors \ {c} : lpRun'[d] = lpRun[d]
BY DEF LiveTypes

\* What each step of a collector makes of its run.
LEMMA CollectorRuns ==
  ASSUME LiveTypes, NEW c \in Collectors
  PROVE  /\ StartCollecting(c) => \E run \in Runs :
              /\ lpRun' = [lpRun EXCEPT ![c] = run] /\ run.pc = "observe" /\ run.before = lpSource
              /\ run.left = lpRun[c].left
              /\ ~run.problems => LeaseHolds(lpLease.file, lpSource)
         /\ \A ok \in BOOLEAN : Observe(c, ok) => \E run \in Runs :
              /\ lpRun' = [lpRun EXCEPT ![c] = run] /\ run.pc = "write" /\ run.before = lpRun[c].before
              /\ run.left = lpRun[c].left
              /\ run.saw.ok => run.saw.source = lpSource
              /\ ~run.problems => ~lpRun[c].problems /\ (run.saw.leased <=> lpLease.file.pid \in lpServer.alive)
         /\ \A a \in Artifacts : WriteArtifact(c, a) => \E run \in Runs :
              /\ lpRun' = [lpRun EXCEPT ![c] = run] /\ run.pc = "write" /\ run.before = lpRun[c].before
              /\ run.left = lpRun[c].left \ {a} /\ run.saw = lpRun[c].saw /\ run.problems = lpRun[c].problems
         /\ CopyLease(c) => \E run \in Runs :
              /\ lpRun' = [lpRun EXCEPT ![c] = run] /\ run.pc = "manifest" /\ run.before = lpRun[c].before
              /\ run.left = {} /\ run.saw = lpRun[c].saw /\ run.problems = lpRun[c].problems
<1>0. lpRun[c] \in Runs /\ lpSource \in Nat
  BY DEF LiveTypes
<1>1. ASSUME StartCollecting(c)
      PROVE  \E run \in Runs :
              /\ lpRun' = [lpRun EXCEPT ![c] = run] /\ run.pc = "observe" /\ run.before = lpSource
              /\ run.left = lpRun[c].left
              /\ ~run.problems => LeaseHolds(lpLease.file, lpSource)
  <2> DEFINE run == [lpRun[c] EXCEPT !.pc = "observe", !.before = lpSource,
                                     !.problems = ~LeaseHolds(lpLease.file, lpSource)]
  <2>1. LeaseHolds(lpLease.file, lpSource) \in BOOLEAN
    BY DEF LeaseHolds
  <2>2. run \in Runs
    BY <1>0, <2>1 DEF Runs
  <2>3. lpRun' = [lpRun EXCEPT ![c] = run]
    BY <1>1 DEF StartCollecting, LiveTypes
  <2>4. /\ run.pc = "observe" /\ run.before = lpSource /\ run.left = lpRun[c].left
        /\ run.problems = ~LeaseHolds(lpLease.file, lpSource)
    BY <1>0 DEF Runs
  <2> QED
    BY <2>2, <2>3, <2>4
<1>2. ASSUME NEW ok \in BOOLEAN, Observe(c, ok)
      PROVE  \E run \in Runs :
              /\ lpRun' = [lpRun EXCEPT ![c] = run] /\ run.pc = "write" /\ run.before = lpRun[c].before
              /\ run.left = lpRun[c].left
              /\ run.saw.ok => run.saw.source = lpSource
              /\ ~run.problems => ~lpRun[c].problems /\ (run.saw.leased <=> lpLease.file.pid \in lpServer.alive)
  <2> DEFINE answer == IF ~ok THEN NoBytes
                       ELSE [source |-> lpSource, ok |-> TRUE, leased |-> lpLease.file.pid \in lpServer.alive]
             run == [lpRun[c] EXCEPT !.pc = "write", !.saw = answer, !.problems = @ \/ ~answer.ok]
  <2>1. /\ answer \in Bytes
        /\ answer.ok => answer.source = lpSource /\ answer.leased = (lpLease.file.pid \in lpServer.alive)
    <3>1. CASE ok
      BY <1>0, <3>1 DEF Bytes
    <3>2. CASE ~ok
      BY <3>2 DEF NoBytes, Bytes
    <3> QED
      BY <3>1, <3>2
  <2>2. lpRun' = [lpRun EXCEPT ![c] = run]
    BY <1>2 DEF Observe, LiveTypes
  <2> HIDE DEF answer
  <2>3. run \in Runs
    BY <1>0, <2>1 DEF Runs
  <2>4. /\ run.pc = "write" /\ run.before = lpRun[c].before /\ run.left = lpRun[c].left /\ run.saw = answer
        /\ run.problems = (lpRun[c].problems \/ ~answer.ok)
    BY <1>0 DEF Runs
  <2> QED
    BY <2>1, <2>2, <2>3, <2>4
<1>3. ASSUME NEW a \in Artifacts, WriteArtifact(c, a)
      PROVE  \E run \in Runs :
              /\ lpRun' = [lpRun EXCEPT ![c] = run] /\ run.pc = "write" /\ run.before = lpRun[c].before
              /\ run.left = lpRun[c].left \ {a} /\ run.saw = lpRun[c].saw /\ run.problems = lpRun[c].problems
  <2> DEFINE run == [lpRun[c] EXCEPT !.left = @ \ {a}]
  <2>1. run \in Runs /\ run.pc = lpRun[c].pc /\ run.before = lpRun[c].before
        /\ run.left = lpRun[c].left \ {a} /\ run.saw = lpRun[c].saw /\ run.problems = lpRun[c].problems
    BY <1>0 DEF Runs
  <2>2. lpRun' = [lpRun EXCEPT ![c] = run] /\ lpRun[c].pc = "write"
    BY <1>3 DEF WriteArtifact, LiveTypes
  <2> QED
    BY <2>1, <2>2
<1>4. ASSUME CopyLease(c)
      PROVE  \E run \in Runs :
              /\ lpRun' = [lpRun EXCEPT ![c] = run] /\ run.pc = "manifest" /\ run.before = lpRun[c].before
              /\ run.left = {} /\ run.saw = lpRun[c].saw /\ run.problems = lpRun[c].problems
  <2> DEFINE run == [lpRun[c] EXCEPT !.pc = "manifest"]
  <2>1. run \in Runs /\ run.pc = "manifest" /\ run.before = lpRun[c].before
        /\ run.left = lpRun[c].left /\ run.saw = lpRun[c].saw /\ run.problems = lpRun[c].problems
    BY <1>0 DEF Runs
  <2>2. lpRun' = [lpRun EXCEPT ![c] = run] /\ lpRun[c].left = {}
    BY <1>4 DEF CopyLease, Step, LiveTypes
  <2> QED
    BY <2>1, <2>2
<1> QED
  BY <1>1, <1>2, <1>3, <1>4

\* What a collector writes into its manifest.
LEMMA ManifestWritten ==
  ASSUME LiveTypes, NEW c \in Collectors, WriteManifest(c)
  PROVE  /\ lpManifest' \in Manifests
         /\ lpManifest' = [before |-> lpRun[c].before, after |-> lpSource, problems |-> lpRun[c].problems,
                           lease |-> lpCopy, files |-> lpDisk]
         /\ \E run \in Runs : lpRun' = [lpRun EXCEPT ![c] = run] /\ run.pc = "sidecar"
<1>1. lpRun[c] \in Runs /\ NotRun \in Runs
  BY EmptyLive DEF LiveTypes
<1>2. lpManifest' = [before |-> lpRun[c].before, after |-> lpSource, problems |-> lpRun[c].problems,
                     lease |-> lpCopy, files |-> lpDisk]
  BY DEF WriteManifest
<1>3. lpManifest' \in Manifests
  BY <1>1, <1>2 DEF Runs, Manifests, LiveTypes
<1>4. lpRun' = [lpRun EXCEPT ![c] = [NotRun EXCEPT !.pc = "sidecar", !.manifest = lpManifest']]
  BY <1>2 DEF WriteManifest
<1>5. [NotRun EXCEPT !.pc = "sidecar", !.manifest = lpManifest'] \in Runs
  BY <1>1, <1>3 DEF Runs
<1>6. [NotRun EXCEPT !.pc = "sidecar", !.manifest = lpManifest'].pc = "sidecar"
  BY <1>1 DEF Runs
<1> QED
  BY <1>2, <1>3, <1>4, <1>5, <1>6

\* What ends a collector: its envelopes, or its death.
LEMMA CollectorEnds ==
  ASSUME LiveTypes, NEW c \in Collectors, WriteSidecar(c) \/ WriteEnvelope(c) \/ CollectorDies(c)
  PROVE  /\ \E run \in Runs : lpRun' = [lpRun EXCEPT ![c] = run] /\ run.pc \in {"envelope", "ended"}
         /\ \/ lpEnvelope' = lpEnvelope
            \/ \E m \in Manifests, route \in {"plain", "full"} : lpEnvelope' = Adapt(m, route)
         /\ Collecting(c)
         /\ UNCHANGED <<lpWorld, lpDisk, lpCopy, lpManifest, lpProof, lpAlone>>
<1>1. /\ [NotRun EXCEPT !.pc = "envelope"] \in Runs /\ [NotRun EXCEPT !.pc = "envelope"].pc = "envelope"
      /\ Ended \in Runs /\ Ended.pc = "ended"
  BY EmptyLive DEF Runs
<1>2. lpRun[c].manifest \in Manifests /\ lpManifest \in Manifests
  BY DEF LiveTypes, Runs
<1>3. CASE WriteSidecar(c)
  BY <1>1, <1>2, <1>3 DEF WriteSidecar, Collecting
<1>4. CASE WriteEnvelope(c)
  BY <1>1, <1>2, <1>4 DEF WriteEnvelope, Collecting
<1>5. CASE CollectorDies(c)
  BY <1>1, <1>5 DEF CollectorDies, lpFiles
<1> QED
  BY <1>3, <1>4, <1>5

\* Reading and judging evidence: the proof takes the manifest as it is, keeps
\* the one it has, or gives up; it changes nothing else.
ProofStep == ReadManifest \/ ReadEnvelope \/ CheckSource \/ CheckArtifacts \/ WriteRecord \/ ProveAgain

\* A step of the proof leaves the rest alone, and its manifest is the old one,
\* the one on disk, or none.
LEMMA ProofSteps ==
  ASSUME LiveTypes, ProofStep
  PROVE  /\ lpProof' \in Proofs /\ lpProof'.manifest \in {lpProof.manifest, lpManifest, NoManifest}
         /\ lpQuiet' \in BOOLEAN
         /\ UNCHANGED <<lpSource, lpServer, lpLease, lpDisk, lpCopy, lpManifest, lpEnvelope, lpRun, lpAlone, lpSteady>>
<1> USE DEF lpWorld, lpFiles
<1>1. CASE ReadManifest
  <2>1. lpProof' = [NotProved EXCEPT !.pc = "envelope", !.manifest = lpManifest]
    BY <1>1 DEF ReadManifest
  <2>2. lpProof' \in Proofs /\ lpProof'.manifest = lpManifest
    BY <2>1, EmptyLive DEF Proofs, LiveTypes
  <2> QED
    BY <1>1, <2>2 DEF ReadManifest
<1>2. CASE ReadEnvelope \/ CheckSource \/ CheckArtifacts
  <2>1. \E pc \in {"source", "artifacts", "record"}, clear \in BOOLEAN : Judge(pc, clear)
    BY <1>2 DEF ReadEnvelope, CheckSource, CheckArtifacts, Judge
  <2>2. lpProof' \in Proofs /\ lpProof'.manifest \in {lpProof.manifest, NoManifest}
    BY <2>1, JudgeDoes, EmptyLive
  <2> QED
    BY <1>2, <2>2 DEF ReadEnvelope, CheckSource, CheckArtifacts, LiveTypes
<1>3. CASE WriteRecord
  <2>1. lpProof' = [lpProof EXCEPT !.pc = "PASS", !.source = lpSource]
    BY <1>3 DEF WriteRecord
  <2>2. lpProof' \in Proofs /\ lpProof'.manifest = lpProof.manifest
    BY <2>1 DEF Proofs, LiveTypes
  <2> QED
    BY <1>3, <2>2 DEF WriteRecord, LiveTypes
<1>4. CASE ProveAgain
  BY <1>4, EmptyLive DEF ProveAgain, LiveTypes
<1> QED
  BY <1>1, <1>2, <1>3, <1>4 DEF ProofStep

\* What happens to the processes of the machine.
ServerStep == Starts \/ \E pid \in lpServer.alive : Dies(pid)

\* A process that is alive was so before, or has a pid that none has had.
LEMMA ServerSteps ==
  ASSUME LiveTypes, PidsUsed, ServerStep
  PROVE  /\ lpServer' \in [alive : SUBSET Nat, used : Nat] /\ PidsUsed'
         /\ lpServer.used <= lpServer'.used
         /\ \A pid \in lpServer'.alive : pid \in lpServer.alive \/ ~(pid <= lpServer.used)
         /\ UNCHANGED <<lpSource, lpLease, lpFiles, lpRun, lpProof, lpQuiet, lpAlone, lpSteady>>
<1>0. lpServer \in [alive : SUBSET Nat, used : Nat]
  BY DEF LiveTypes
<1>1. ASSUME NEW server \in [alive : SUBSET Nat, used : Nat], ServerChanges(server),
             lpServer.used <= server.used,
             \A pid \in server.alive : pid <= server.used /\ (pid \in lpServer.alive \/ ~(pid <= lpServer.used))
      PROVE  /\ lpServer' \in [alive : SUBSET Nat, used : Nat] /\ PidsUsed'
             /\ lpServer.used <= lpServer'.used
             /\ \A pid \in lpServer'.alive : pid \in lpServer.alive \/ ~(pid <= lpServer.used)
             /\ UNCHANGED <<lpSource, lpLease, lpFiles, lpRun, lpProof, lpQuiet, lpAlone, lpSteady>>
  BY <1>1 DEF ServerChanges, PidsUsed
<1>2. CASE Starts
  <2> DEFINE server == [lpServer EXCEPT !.alive = @ \cup {lpServer.used + 1}, !.used = lpServer.used + 1]
  <2>0. lpServer.used + 1 \in Nat /\ lpServer.alive \cup {lpServer.used + 1} \in SUBSET Nat
    BY <1>0
  <2>1. /\ server \in [alive : SUBSET Nat, used : Nat]
        /\ server.alive = lpServer.alive \cup {lpServer.used + 1} /\ server.used = lpServer.used + 1
    BY <1>0, <2>0
  <2>2. \A pid \in server.alive : pid <= server.used /\ (pid \in lpServer.alive \/ ~(pid <= lpServer.used))
    BY <1>0, <2>1 DEF PidsUsed
  <2>3. ServerChanges(server)
    BY <1>2 DEF Starts
  <2> HIDE DEF server
  <2> QED
    BY <1>0, <1>1, <2>1, <2>2, <2>3
<1>3. CASE \E pid \in lpServer.alive : Dies(pid)
  <2>1. PICK pid \in lpServer.alive : Dies(pid)
    BY <1>3
  <2> DEFINE server == [lpServer EXCEPT !.alive = @ \ {pid}]
  <2>2. /\ server \in [alive : SUBSET Nat, used : Nat]
        /\ server.used = lpServer.used /\ server.alive \subseteq lpServer.alive
    BY <1>0
  <2>3. ServerChanges(server)
    BY <2>1 DEF Dies
  <2> HIDE DEF server
  <2>4. \A pid2 \in server.alive : pid2 <= server.used /\ pid2 \in lpServer.alive
    BY <2>2 DEF PidsUsed
  <2> QED
    BY <1>0, <1>1, <2>2, <2>3, <2>4
<1> QED
  BY <1>2, <1>3 DEF ServerStep

\* What a lease spans it goes on spanning.
LEMMA SpansKept ==
  ASSUME LiveTypes, PidsUsed, ServerStep, NEW lease \in Leases, NEW leased, Spans(lease, leased)
  PROVE  lease.pid <= lpServer'.used /\ (lease.pid \in lpServer'.alive => leased)
<1>1. lease.pid \in Nat /\ lpServer.used \in Nat /\ lpServer'.used \in Nat
  BY ServerSteps DEF LiveTypes, Leases
<1> QED
  BY <1>1, ServerSteps DEF Spans

-----------------------------------------------------------------------------
(* LiveProof: every step keeps the invariants.                               *)

\* Every step keeps the types.
LEMMA LiveNextTypes == LiveTypes /\ PidsUsed /\ [LPNext]_lpVars => LiveTypes'
<1> SUFFICES ASSUME LiveTypes, PidsUsed, [LPNext]_lpVars PROVE LiveTypes'
  OBVIOUS
<1> USE DEF lpWorld, lpFiles
<1>0. CASE ServerStep
  BY <1>0, ServerSteps DEF LiveTypes
<1>1. CASE EditSource
  <2>1. lpSource' \in Nat /\ lpQuiet' \in BOOLEAN
    BY <1>1 DEF EditSource, LiveTypes
  <2> QED
    BY <1>1, <2>1 DEF EditSource, LiveTypes
<1>2. ASSUME NEW lease \in Leases, LeaseCommand(lease) PROVE LiveTypes'
  <2>1. lpLease' \in [file : Leases, commands : Nat]
    BY <1>2 DEF LeaseCommand, LiveTypes
  <2> QED
    BY <1>2, <2>1 DEF LeaseCommand, LiveTypes
<1>3. CASE \E pid \in 1 .. MaxPid : AcquireLease(pid)
  <2>1. \A pid \in 1 .. MaxPid : [pid |-> pid, source |-> lpSource] \in Leases
    BY LiveAssumption DEF Leases, LiveTypes
  <2> QED
    BY <1>2, <1>3, <2>1 DEF AcquireLease
<1>4. CASE ReleaseLease
  BY <1>2, <1>4, EmptyLive DEF ReleaseLease
<1>5. ASSUME NEW c \in Collectors, StartCollecting(c) PROVE LiveTypes'
  <2>1. lpRun' \in [Collectors -> Runs]
    BY <1>5, CollectorRuns, OtherRuns
  <2> QED
    BY <1>5, <2>1 DEF StartCollecting, LiveTypes
<1>6. ASSUME NEW c \in Collectors, NEW ok \in BOOLEAN, Observe(c, ok) PROVE LiveTypes'
  <2>1. lpRun' \in [Collectors -> Runs]
    BY <1>6, CollectorRuns, OtherRuns
  <2> QED
    BY <1>6, <2>1 DEF Observe, LiveTypes
<1>7. ASSUME NEW c \in Collectors, NEW a \in Artifacts, WriteArtifact(c, a) PROVE LiveTypes'
  <2>1. lpRun' \in [Collectors -> Runs]
    BY <1>7, CollectorRuns, OtherRuns
  <2>2. lpDisk' \in [Artifacts -> Bytes]
    BY <1>7 DEF WriteArtifact, LiveTypes, Runs
  <2> QED
    BY <1>7, <2>1, <2>2 DEF WriteArtifact, LiveTypes
<1>8. ASSUME NEW c \in Collectors, CopyLease(c) PROVE LiveTypes'
  <2>1. lpRun' \in [Collectors -> Runs]
    BY <1>8, CollectorRuns, OtherRuns
  <2> QED
    BY <1>8, <2>1 DEF CopyLease, LiveTypes
<1>9. ASSUME NEW c \in Collectors, WriteManifest(c) PROVE LiveTypes'
  <2>1. lpRun' \in [Collectors -> Runs] /\ lpManifest' \in Manifests
    BY <1>9, ManifestWritten, OtherRuns
  <2> QED
    BY <1>9, <2>1 DEF WriteManifest, LiveTypes
<1>10. ASSUME NEW c \in Collectors, WriteSidecar(c) \/ WriteEnvelope(c) \/ CollectorDies(c) PROVE LiveTypes'
  <2>1. lpRun' \in [Collectors -> Runs]
    BY <1>10, CollectorEnds, OtherRuns
  <2>2. ASSUME NEW m \in Manifests, NEW route \in {"plain", "full"} PROVE Adapt(m, route) \in Envelopes
    BY DEF Adapt, Envelopes, Blocked, Manifests
  <2>3. lpEnvelope' \in Envelopes
    BY <1>10, <2>2, CollectorEnds DEF LiveTypes
  <2>4. UNCHANGED <<lpWorld, lpDisk, lpCopy, lpManifest, lpProof, lpAlone>>
    BY <1>10, CollectorEnds
  <2> QED
    BY <2>1, <2>3, <2>4 DEF LiveTypes
<1>11. CASE ProofStep
  <2>1. /\ lpProof' \in Proofs /\ lpQuiet' \in BOOLEAN
        /\ UNCHANGED <<lpSource, lpServer, lpLease, lpDisk, lpCopy, lpManifest, lpEnvelope, lpRun, lpAlone, lpSteady>>
    BY <1>11, ProofSteps
  <2> QED
    BY <2>1 DEF LiveTypes
<1>12. CASE UNCHANGED lpVars
  BY <1>12 DEF lpVars, LiveTypes
<1> QED
  BY <1>0, <1>1, <1>3, <1>4, <1>5, <1>6, <1>7, <1>8, <1>9, <1>10, <1>11, <1>12
     DEF LPNext, ProofStep, ServerStep

\* The envelope repeats its manifest, and the proof requires it to be clear.
LEMMA LiveNextBlockers == LiveTypes /\ BlockersKept /\ [LPNext]_lpVars => BlockersKept'
<1> SUFFICES ASSUME LiveTypes, BlockersKept, [LPNext]_lpVars PROVE BlockersKept'
  OBVIOUS
<1> USE DEF lpWorld, lpFiles
<1>1. ASSUME UNCHANGED <<lpEnvelope, lpProof>> PROVE BlockersKept'
  BY <1>1 DEF BlockersKept, Blocked
<1>2. ASSUME NEW c \in Collectors, WriteSidecar(c) \/ WriteEnvelope(c) \/ CollectorDies(c) PROVE BlockersKept'
  <2>1. UNCHANGED lpProof
    BY <1>2, CollectorEnds
  <2>2. CASE UNCHANGED lpEnvelope
    BY <1>1, <2>1, <2>2
  <2>3. ASSUME NEW m \in Manifests, NEW route \in {"plain", "full"}, lpEnvelope' = Adapt(m, route)
        PROVE  BlockersKept'
    BY <2>1, <2>3 DEF BlockersKept, Adapt, Blocked
  <2> QED
    BY <1>2, <2>2, <2>3, CollectorEnds
<1>3. CASE ReadManifest \/ ProveAgain
  <2>1. lpProof'.pc \in {"idle", "envelope"} /\ UNCHANGED lpEnvelope
    BY <1>3, EmptyLive DEF ReadManifest, ProveAgain, Proofs
  <2> QED
    BY <2>1 DEF BlockersKept, Blocked
<1>4. CASE ReadEnvelope
  <2>1. PICK clear \in BOOLEAN :
          /\ clear => ~lpEnvelope.blocked /\ lpEnvelope.of = lpProof.manifest
          /\ Judge("source", clear)
    BY <1>4 DEF ReadEnvelope, Covers
  <2>2. UNCHANGED lpEnvelope
    BY <1>4 DEF ReadEnvelope
  <2>3. \/ clear /\ lpProof'.manifest = lpProof.manifest
        \/ lpProof'.pc = "idle"
    BY <2>1, JudgeDoes, EmptyLive
  <2> QED
    BY <2>1, <2>2, <2>3 DEF BlockersKept, Blocked
<1>5. CASE CheckSource \/ CheckArtifacts
  <2>1. PICK pc \in {"artifacts", "record"}, clear \in BOOLEAN : Judge(pc, clear)
    BY <1>5 DEF CheckSource, CheckArtifacts, Judge
  <2>2. UNCHANGED lpEnvelope /\ lpProof.pc \in {"source", "artifacts"}
    BY <1>5 DEF CheckSource, CheckArtifacts
  <2>3. lpProof'.manifest = lpProof.manifest \/ lpProof'.pc = "idle"
    BY <2>1, JudgeDoes, EmptyLive
  <2> QED
    BY <2>2, <2>3 DEF BlockersKept, Blocked
<1>6. CASE WriteRecord
  BY <1>6 DEF WriteRecord, BlockersKept, Blocked, LiveTypes, Proofs
<1> QED
  BY <1>1, <1>2, <1>3, <1>4, <1>5, <1>6
     DEF LPNext, lpVars, EditSource, Starts, Dies, ServerChanges, AcquireLease, ReleaseLease, LeaseCommand,
         StartCollecting, Observe, WriteArtifact, CopyLease, WriteManifest

\* Pids are given once.
LEMMA LiveNextPids == LiveTypes /\ PidsUsed /\ [LPNext]_lpVars => PidsUsed'
<1> SUFFICES ASSUME LiveTypes, PidsUsed, [LPNext]_lpVars PROVE PidsUsed'
  OBVIOUS
<1> USE DEF lpWorld
<1>1. CASE ServerStep
  BY <1>1, ServerSteps
<1>2. CASE UNCHANGED lpServer
  BY <1>2 DEF PidsUsed
<1>3. CASE ProofStep
  BY <1>2, <1>3, ProofSteps
<1> QED
  BY <1>1, <1>2, <1>3
     DEF LPNext, lpVars, ServerStep, ProofStep, EditSource, AcquireLease, ReleaseLease, LeaseCommand,
         StartCollecting, Observe, WriteArtifact, CopyLease, WriteManifest, WriteSidecar, WriteEnvelope,
         CollectorDies

\* A step of the only collector at work leaves the others where they are.
LEMMA OnlyCollector ==
  ASSUME LiveTypes, OwnFiles, NEW c \in Collectors, Collecting(c), NEW run \in Runs,
         lpRun' = [lpRun EXCEPT ![c] = run], run.pc \notin {"ready", "observe"}
  PROVE  /\ \A d, e \in Collectors : Collecting(d)' /\ Collecting(e)' => d = e
         /\ \A d \in Collectors : lpRun'[d].pc \in {"ready", "observe"} => lpRun'[d].left = Artifacts
         /\ lpRun'[c] = run
         /\ \A d \in Collectors \ {c} : lpRun'[d].pc \notin {"observe", "write", "manifest"}
<1>1. lpRun'[c] = run /\ \A d \in Collectors \ {c} : lpRun'[d] = lpRun[d]
  BY OtherRuns
<1>2. \A d \in Collectors \ {c} : ~Collecting(d) /\ ~Collecting(d)'
  BY <1>1 DEF OwnFiles, Collecting
<1> QED
  BY <1>1, <1>2 DEF OwnFiles, Collecting

\* Every step keeps what a collector knows that is alone.
LEMMA LiveNextAlone == LiveTypes /\ PidsUsed /\ AloneKept /\ [LPNext]_lpVars => AloneKept'
<1> SUFFICES ASSUME LiveTypes, PidsUsed, AloneKept, [LPNext]_lpVars, lpAlone'
             PROVE  AloneKept'
  BY DEF AloneKept
<1> USE DEF lpWorld, lpFiles
<1>0. lpAlone
  BY DEF LPNext, lpVars, EditSource, Starts, Dies, ServerChanges, AcquireLease, ReleaseLease, LeaseCommand,
         StartCollecting, Observe, WriteArtifact, CopyLease, WriteManifest, WriteSidecar, WriteEnvelope,
         CollectorDies, ReadManifest, ReadEnvelope, CheckSource, CheckArtifacts, WriteRecord, ProveAgain
<1>1. /\ OwnFiles /\ SourceBetween(lpManifest) /\ SourceBetween(lpProof.manifest)
      /\ lpSteady => Leased(lpManifest) /\ Leased(lpProof.manifest)
  BY <1>0 DEF AloneKept
<1>2. ASSUME UNCHANGED <<lpManifest, lpProof, lpServer>>, lpSteady' => lpSteady, OwnFiles'
      PROVE  AloneKept'
  BY <1>1, <1>2 DEF AloneKept, SourceBetween, Leased, Spans
<1>3. CASE EditSource
  <2>1. lpSource <= lpSource' /\ lpSource \in Nat /\ lpSource' \in Nat
        /\ UNCHANGED <<lpServer, lpLease, lpDisk, lpCopy, lpManifest, lpRun, lpProof, lpSteady>>
    BY <1>3 DEF EditSource, LiveTypes
  <2>2. \A c \in Collectors : lpRun[c].before \in Nat /\ lpRun[c].saw.source \in Nat
    BY DEF LiveTypes, Runs, Bytes
  <2>3. \A c \in Collectors : Collecting(c)' <=> Collecting(c)
    BY <2>1 DEF Collecting
  <2>4. OwnFiles'
    BY <1>1, <2>1, <2>2, <2>3 DEF OwnFiles, KeepsLease, Spans
  <2> QED
    BY <1>2, <2>1, <2>4
<1>4. CASE ServerStep
  <2>1. UNCHANGED <<lpSource, lpLease, lpDisk, lpCopy, lpManifest, lpRun, lpProof, lpSteady>>
    BY <1>4, ServerSteps
  <2>2. \A lease \in Leases : \A leased : Spans(lease, leased) => Spans(lease, leased)'
    BY <1>4, SpansKept DEF Spans
  <2>3. lpLease.file \in Leases /\ lpManifest.lease \in Leases /\ lpProof.manifest.lease \in Leases
    BY DEF LiveTypes, Manifests, Proofs
  <2>4. \A c \in Collectors : KeepsLease(lpRun[c]) => KeepsLease(lpRun[c])'
    BY <2>1, <2>2, <2>3 DEF KeepsLease, Spans
  <2>5. OwnFiles'
    <3>1. \A c \in Collectors : Collecting(c)' <=> Collecting(c)
      BY <2>1 DEF Collecting
    <3> QED
      BY <1>1, <2>1, <2>4, <3>1 DEF OwnFiles
  <2>6. lpSteady' => Leased(lpManifest)' /\ Leased(lpProof.manifest)'
    BY <1>1, <2>1, <2>2, <2>3 DEF Leased, Spans
  <2>7. SourceBetween(lpManifest)' /\ SourceBetween(lpProof.manifest)'
    BY <1>1, <2>1 DEF SourceBetween
  <2> QED
    BY <2>5, <2>6, <2>7 DEF AloneKept
<1>5. CASE (\E pid \in 1 .. MaxPid : AcquireLease(pid)) \/ ReleaseLease
  <2>1. /\ UNCHANGED <<lpSource, lpServer, lpDisk, lpCopy, lpManifest, lpRun, lpProof>>
        /\ lpSteady' => lpSteady /\ ~SomeoneCollects
    BY <1>5 DEF AcquireLease, ReleaseLease, LeaseCommand
  <2>2. \A c \in Collectors : Collecting(c)' <=> Collecting(c)
    BY <2>1 DEF Collecting
  <2>3. lpSteady' => \A c \in Collectors : lpRun[c].pc \notin {"observe", "write", "manifest"}
    BY <2>1 DEF SomeoneCollects, Collecting
  <2>4. OwnFiles'
    BY <1>1, <2>1, <2>2, <2>3 DEF OwnFiles, KeepsLease
  <2> QED
    BY <1>2, <2>1, <2>4
<1>6. ASSUME NEW c \in Collectors, StartCollecting(c) PROVE AloneKept'
  <2>1. PICK run \in Runs :
          /\ lpRun' = [lpRun EXCEPT ![c] = run] /\ run.pc = "observe" /\ run.before = lpSource
          /\ run.left = lpRun[c].left
          /\ ~run.problems => LeaseHolds(lpLease.file, lpSource)
    BY <1>6, CollectorRuns
  <2>2. /\ lpRun'[c] = run /\ \A d \in Collectors \ {c} : lpRun'[d] = lpRun[d]
    BY <2>1, OtherRuns
  <2>3. /\ UNCHANGED <<lpSource, lpServer, lpLease, lpDisk, lpCopy, lpManifest, lpProof, lpSteady>>
        /\ lpRun[c].pc = "ready" /\ \A d \in Collectors : ~Collecting(d)
    BY <1>6 DEF StartCollecting, SomeoneCollects
  <2>4. \A d \in Collectors \ {c} : ~Collecting(d)'
    BY <2>2, <2>3 DEF Collecting
  <2>5. lpSource <= lpSource
    BY DEF LiveTypes
  <2>6. KeepsLease(run)'
    BY <2>1, <2>3 DEF KeepsLease, Spans, LeaseHolds, PidsUsed
  <2>7. OwnFiles'
    BY <1>1, <2>1, <2>2, <2>3, <2>4, <2>5, <2>6 DEF OwnFiles, Collecting
  <2> QED
    BY <1>2, <2>3, <2>7
<1>7. ASSUME NEW c \in Collectors, NEW ok \in BOOLEAN, Observe(c, ok) PROVE AloneKept'
  <2>1. PICK run \in Runs :
          /\ lpRun' = [lpRun EXCEPT ![c] = run] /\ run.pc = "write" /\ run.before = lpRun[c].before
          /\ run.left = lpRun[c].left
          /\ run.saw.ok => run.saw.source = lpSource
          /\ ~run.problems => ~lpRun[c].problems /\ (run.saw.leased <=> lpLease.file.pid \in lpServer.alive)
    BY <1>7, CollectorRuns
  <2>2. /\ UNCHANGED <<lpSource, lpServer, lpLease, lpDisk, lpCopy, lpManifest, lpProof, lpSteady>>
        /\ lpRun[c].pc = "observe" /\ Collecting(c)
    BY <1>7 DEF Observe, Collecting
  <2>3. /\ \A d, e \in Collectors : Collecting(d)' /\ Collecting(e)' => d = e
        /\ \A d \in Collectors : lpRun'[d].pc \in {"ready", "observe"} => lpRun'[d].left = Artifacts
        /\ lpRun'[c] = run
        /\ \A d \in Collectors \ {c} : lpRun'[d].pc \notin {"observe", "write", "manifest"}
    BY <1>1, <2>1, <2>2, OnlyCollector
  <2>4. run.left = Artifacts /\ run.before <= lpSource
    BY <1>1, <2>1, <2>2 DEF OwnFiles
  <2>5. run.saw.ok => run.before <= run.saw.source /\ run.saw.source <= lpSource
    BY <2>1, <2>4 DEF LiveTypes
  <2>6. KeepsLease(run)'
    BY <1>1, <2>1, <2>2 DEF OwnFiles, KeepsLease, Spans
  <2>7. OwnFiles'
    BY <2>1, <2>2, <2>3, <2>4, <2>5, <2>6 DEF OwnFiles
  <2> QED
    BY <1>2, <2>2, <2>7
<1>8. ASSUME NEW c \in Collectors, NEW a \in Artifacts, WriteArtifact(c, a) PROVE AloneKept'
  <2>1. PICK run \in Runs :
          /\ lpRun' = [lpRun EXCEPT ![c] = run] /\ run.pc = "write" /\ run.before = lpRun[c].before
          /\ run.left = lpRun[c].left \ {a} /\ run.saw = lpRun[c].saw /\ run.problems = lpRun[c].problems
    BY <1>8, CollectorRuns
  <2>2. /\ UNCHANGED <<lpSource, lpServer, lpLease, lpCopy, lpManifest, lpProof, lpSteady>>
        /\ lpRun[c].pc = "write" /\ Collecting(c)
        /\ lpDisk' = [lpDisk EXCEPT ![a] = lpRun[c].saw]
    BY <1>8 DEF WriteArtifact, Collecting
  <2>3. /\ \A d, e \in Collectors : Collecting(d)' /\ Collecting(e)' => d = e
        /\ \A d \in Collectors : lpRun'[d].pc \in {"ready", "observe"} => lpRun'[d].left = Artifacts
        /\ lpRun'[c] = run
        /\ \A d \in Collectors \ {c} : lpRun'[d].pc \notin {"observe", "write", "manifest"}
    BY <1>1, <2>1, <2>2, OnlyCollector
  <2>4. \A b \in Artifacts \ run.left : lpDisk'[b] = run.saw
    BY <1>1, <2>1, <2>2 DEF OwnFiles, LiveTypes
  <2>5. /\ run.before <= lpSource
        /\ run.saw.ok => run.before <= run.saw.source /\ run.saw.source <= lpSource
    BY <1>1, <2>1, <2>2 DEF OwnFiles
  <2>6. KeepsLease(run)'
    BY <1>1, <2>1, <2>2 DEF OwnFiles, KeepsLease, Spans
  <2>7. OwnFiles'
    BY <2>1, <2>2, <2>3, <2>4, <2>5, <2>6 DEF OwnFiles
  <2> QED
    BY <1>2, <2>2, <2>7
<1>9. ASSUME NEW c \in Collectors, CopyLease(c) PROVE AloneKept'
  <2>1. PICK run \in Runs :
          /\ lpRun' = [lpRun EXCEPT ![c] = run] /\ run.pc = "manifest" /\ run.before = lpRun[c].before
          /\ run.left = {} /\ run.saw = lpRun[c].saw /\ run.problems = lpRun[c].problems
    BY <1>9, CollectorRuns
  <2>2. /\ UNCHANGED <<lpSource, lpServer, lpLease, lpDisk, lpManifest, lpProof, lpSteady>>
        /\ lpRun[c].pc = "write" /\ lpRun[c].left = {} /\ Collecting(c) /\ lpCopy' = lpLease.file
    BY <1>9 DEF CopyLease, Collecting
  <2>3. /\ \A d, e \in Collectors : Collecting(d)' /\ Collecting(e)' => d = e
        /\ \A d \in Collectors : lpRun'[d].pc \in {"ready", "observe"} => lpRun'[d].left = Artifacts
        /\ lpRun'[c] = run
        /\ \A d \in Collectors \ {c} : lpRun'[d].pc \notin {"observe", "write", "manifest"}
    BY <1>1, <2>1, <2>2, OnlyCollector
  <2>4. \A b \in Artifacts \ run.left : lpDisk'[b] = run.saw
    BY <1>1, <2>1, <2>2 DEF OwnFiles
  <2>5. /\ run.before <= lpSource
        /\ run.saw.ok => run.before <= run.saw.source /\ run.saw.source <= lpSource
    BY <1>1, <2>1, <2>2 DEF OwnFiles
  <2>6. KeepsLease(run)'
    BY <1>1, <2>1, <2>2 DEF OwnFiles, KeepsLease, Spans
  <2>7. OwnFiles'
    BY <2>1, <2>2, <2>3, <2>4, <2>5, <2>6 DEF OwnFiles
  <2> QED
    BY <1>2, <2>2, <2>7
<1>10. ASSUME NEW c \in Collectors, WriteManifest(c) PROVE AloneKept'
  <2>1. /\ lpManifest' = [before |-> lpRun[c].before, after |-> lpSource, problems |-> lpRun[c].problems,
                          lease |-> lpCopy, files |-> lpDisk]
        /\ \E run \in Runs : lpRun' = [lpRun EXCEPT ![c] = run] /\ run.pc = "sidecar"
    BY <1>10, ManifestWritten
  <2>2. /\ UNCHANGED <<lpSource, lpServer, lpLease, lpDisk, lpCopy, lpProof, lpSteady>>
        /\ lpRun[c].pc = "manifest" /\ Collecting(c)
    BY <1>10 DEF WriteManifest, Collecting
  <2>3. /\ \A d, e \in Collectors : Collecting(d)' /\ Collecting(e)' => d = e
        /\ \A d \in Collectors : lpRun'[d].pc \in {"ready", "observe"} => lpRun'[d].left = Artifacts
        /\ \A d \in Collectors : lpRun'[d].pc \notin {"observe", "write", "manifest"}
    BY <1>1, <2>1, <2>2, OnlyCollector
  <2>4. OwnFiles'
    BY <2>3 DEF OwnFiles
  <2>5. \A a \in Artifacts : lpDisk[a] = lpRun[c].saw
    BY <1>1, <2>2 DEF OwnFiles
  <2>6. SourceBetween(lpManifest')
    BY <1>1, <2>1, <2>2, <2>5 DEF OwnFiles, SourceBetween
  <2>7. lpSteady => Leased(lpManifest')
    <3> SUFFICES ASSUME lpSteady, ~lpRun[c].problems PROVE Leased(lpManifest')
      BY <2>1 DEF Leased
    <3>1. lpLease.file.source = lpRun[c].before /\ Spans(lpLease.file, lpRun[c].saw.leased) /\ lpCopy = lpLease.file
      BY <1>1, <2>2 DEF OwnFiles, KeepsLease, Spans
    <3> QED
      BY <2>1, <2>5, <3>1 DEF Leased
  <2>8. SourceBetween(lpManifest)' /\ SourceBetween(lpProof.manifest)'
    BY <1>1, <2>2, <2>6 DEF SourceBetween
  <2>9. lpSteady' => Leased(lpManifest)' /\ Leased(lpProof.manifest)'
    BY <1>1, <2>2, <2>7 DEF Leased, Spans
  <2> QED
    BY <2>4, <2>8, <2>9 DEF AloneKept
<1>11. ASSUME NEW c \in Collectors, WriteSidecar(c) \/ WriteEnvelope(c) \/ CollectorDies(c) PROVE AloneKept'
  <2>1. PICK run \in Runs : lpRun' = [lpRun EXCEPT ![c] = run] /\ run.pc \in {"envelope", "ended"}
    BY <1>11, CollectorEnds
  <2>2. Collecting(c) /\ UNCHANGED <<lpWorld, lpDisk, lpCopy, lpManifest, lpProof>>
    BY <1>11, CollectorEnds
  <2>3. /\ \A d, e \in Collectors : Collecting(d)' /\ Collecting(e)' => d = e
        /\ \A d \in Collectors : lpRun'[d].pc \in {"ready", "observe"} => lpRun'[d].left = Artifacts
        /\ \A d \in Collectors : lpRun'[d].pc \notin {"observe", "write", "manifest"}
    BY <1>1, <2>1, <2>2, OnlyCollector
  <2>4. OwnFiles'
    BY <2>3 DEF OwnFiles
  <2> QED
    BY <1>2, <2>2, <2>4
<1>12. CASE ProofStep
  <2>1. /\ lpProof'.manifest \in {lpProof.manifest, lpManifest, NoManifest}
        /\ UNCHANGED <<lpSource, lpServer, lpLease, lpDisk, lpCopy, lpManifest, lpRun, lpSteady>>
    BY <1>12, ProofSteps
  <2>2. OwnFiles'
    BY <1>1, <2>1 DEF OwnFiles, Collecting, KeepsLease, Spans
  <2>3. SourceBetween(lpProof'.manifest) /\ SourceBetween(lpManifest)
    BY <1>1, <2>1, EmptyLive
  <2>4. lpSteady => Leased(lpProof'.manifest) /\ Leased(lpManifest)
    BY <1>1, <2>1, EmptyLive
  <2>5. SourceBetween(lpManifest)' /\ SourceBetween(lpProof.manifest)'
    BY <2>1, <2>3 DEF SourceBetween
  <2>6. lpSteady' => Leased(lpManifest)' /\ Leased(lpProof.manifest)'
    BY <2>1, <2>4 DEF Leased, Spans
  <2> QED
    BY <2>2, <2>5, <2>6 DEF AloneKept
<1>13. CASE UNCHANGED lpVars
  <2>1. OwnFiles'
    BY <1>1, <1>13 DEF lpVars, OwnFiles, Collecting, KeepsLease, Spans
  <2> QED
    BY <1>2, <1>13, <2>1 DEF lpVars
<1> QED
  BY <1>3, <1>4, <1>5, <1>6, <1>7, <1>8, <1>9, <1>10, <1>11, <1>12, <1>13 DEF LPNext, ProofStep, ServerStep

\* What a proof that gave up, or has only begun, claims.
LEMMA NothingClaimed ==
  ASSUME lpProof'.pc \in {"idle", "envelope", "source"}
  PROVE  ProofKept'
BY DEF ProofKept

\* Every step keeps what a proof has established.
LEMMA LiveNextProof ==
  LiveTypes /\ PidsUsed /\ BlockersKept /\ AloneKept /\ ProofKept /\ [LPNext]_lpVars => ProofKept'
<1> SUFFICES ASSUME LiveTypes, PidsUsed, BlockersKept, AloneKept, ProofKept, [LPNext]_lpVars PROVE ProofKept'
  OBVIOUS
<1> USE DEF lpWorld, lpFiles
<1>1. ASSUME UNCHANGED <<lpProof, lpSource>>, lpQuiet' = lpQuiet, lpSteady' => lpSteady, lpAlone' => lpAlone
      PROVE  ProofKept'
  BY <1>1 DEF ProofKept
<1>2. CASE EditSource
  <2>1. UNCHANGED <<lpProof, lpAlone, lpSteady>> /\ lpQuiet' = (lpQuiet /\ ~Proving)
    BY <1>2 DEF EditSource
  <2>2. lpProof.pc \in {"artifacts", "record"} => ~lpQuiet'
    BY <2>1 DEF Proving
  <2> QED
    BY <2>1, <2>2 DEF ProofKept
<1>3. CASE ServerStep \/ (\E pid \in 1 .. MaxPid : AcquireLease(pid)) \/ ReleaseLease
  <2>1. CASE ServerStep
    BY <1>1, <2>1, ServerSteps
  <2>2. CASE (\E pid \in 1 .. MaxPid : AcquireLease(pid)) \/ ReleaseLease
    <3>1. UNCHANGED <<lpProof, lpSource, lpQuiet, lpAlone>> /\ lpSteady' = (lpSteady /\ ~SomeoneCollects)
      BY <2>2 DEF AcquireLease, ReleaseLease, LeaseCommand
    <3>2. lpSteady' => lpSteady
      BY ONLY <3>1
    <3> QED
      BY <1>1, <3>1, <3>2
  <2> QED
    BY <1>3, <2>1, <2>2
<1>4. ASSUME NEW c \in Collectors,
             \/ StartCollecting(c)
             \/ \E ok \in BOOLEAN : Observe(c, ok)
             \/ \E a \in Artifacts : WriteArtifact(c, a)
             \/ CopyLease(c) \/ WriteManifest(c) \/ WriteSidecar(c) \/ WriteEnvelope(c) \/ CollectorDies(c)
      PROVE  ProofKept'
  <2>1. CASE StartCollecting(c)
    <3>1. UNCHANGED <<lpProof, lpSource, lpQuiet, lpSteady>> /\ lpAlone' = (lpAlone /\ ~SomeoneCollects)
      BY <2>1 DEF StartCollecting
    <3>2. lpAlone' => lpAlone
      BY ONLY <3>1
    <3> QED
      BY <1>1, <3>1, <3>2
  <2>2. CASE ~StartCollecting(c)
    <3>1. UNCHANGED <<lpProof, lpSource, lpQuiet, lpSteady, lpAlone>>
      BY <1>4, <2>2 DEF Observe, WriteArtifact, CopyLease, WriteManifest, WriteSidecar, WriteEnvelope, CollectorDies
    <3> QED
      BY <1>1, <3>1
  <2> QED
    BY <2>1, <2>2
<1>5. CASE ReadManifest \/ ProveAgain
  <2>1. lpProof'.pc \in {"idle", "envelope"}
    BY <1>5, EmptyLive DEF ReadManifest, ProveAgain, Proofs
  <2> QED
    BY <2>1, NothingClaimed
<1>6. CASE ReadEnvelope
  <2>1. \E clear \in BOOLEAN : Judge("source", clear)
    BY <1>6 DEF ReadEnvelope, Judge
  <2>2. lpProof'.pc \in {"idle", "source"}
    BY <2>1, JudgeDoes, EmptyLive
  <2> QED
    BY <2>2, NothingClaimed
<1>7. CASE CheckSource
  <2> DEFINE clear == lpProof.manifest.after = lpSource /\ lpProof.manifest.files = lpDisk
  <2>0. Judge("artifacts", clear)
    BY <1>7 DEF CheckSource
  <2>1. clear => lpProof.manifest.after = lpSource
    OBVIOUS
  <2> HIDE DEF clear
  <2>2. UNCHANGED lpSource
    BY <1>7 DEF CheckSource
  <2>3. CASE lpProof'.pc = "artifacts" /\ lpProof'.manifest = lpProof.manifest /\ clear
    BY <2>1, <2>2, <2>3 DEF ProofKept
  <2>4. CASE lpProof'.pc = "idle"
    BY <2>4, NothingClaimed
  <2> QED
    BY <2>0, <2>3, <2>4, JudgeDoes, EmptyLive
<1>8. CASE CheckArtifacts
  <2> DEFINE clear == /\ lpProof.manifest.files = lpDisk /\ lpProof.manifest.lease = lpCopy
                      /\ \A a \in Artifacts : lpDisk[a].ok
                      /\ ProofLease(lpCopy, lpSource)
  <2>0. Judge("record", clear)
    BY <1>8 DEF CheckArtifacts
  <2>1. clear => /\ lpProof.manifest.files = lpDisk /\ lpProof.manifest.lease = lpCopy
                 /\ \A a \in Artifacts : lpDisk[a].ok
                 /\ lpCopy.pid \in lpServer.alive
    BY DEF ProofLease, LeaseHolds
  <2> HIDE DEF clear
  <2>2. lpProof.pc = "artifacts" /\ UNCHANGED <<lpSource, lpQuiet, lpSteady, lpAlone>>
    BY <1>8 DEF CheckArtifacts
  <2>3. CASE lpProof'.pc = "record" /\ lpProof'.manifest = lpProof.manifest /\ clear
    <3>1. lpSteady /\ lpAlone => \A a \in Artifacts : lpProof.manifest.files[a].leased
      BY <2>1, <2>2, <2>3 DEF AloneKept, Leased, Spans, BlockersKept, Blocked
    <3>2. lpQuiet => lpProof.manifest.after = lpSource
      BY <2>2 DEF ProofKept
    <3> QED
      BY <2>1, <2>2, <2>3, <3>1, <3>2 DEF ProofKept
  <2>4. CASE lpProof'.pc = "idle"
    BY <2>4, NothingClaimed
  <2> QED
    BY <2>0, <2>3, <2>4, JudgeDoes, EmptyLive
<1>9. CASE WriteRecord
  <2>1. /\ lpProof.pc = "record" /\ lpProof'.pc = "PASS" /\ lpProof'.source = lpSource
        /\ lpProof'.manifest = lpProof.manifest /\ UNCHANGED <<lpQuiet, lpSteady, lpAlone>>
    BY <1>9 DEF WriteRecord, LiveTypes, Proofs
  <2> QED
    BY <2>1 DEF ProofKept
<1>10. CASE UNCHANGED lpVars
  BY <1>1, <1>10 DEF lpVars
<1> QED
  BY <1>2, <1>3, <1>4, <1>5, <1>6, <1>7, <1>8, <1>9, <1>10 DEF LPNext, ServerStep

\* The invariant holds in every reachable state.
LEMMA LiveInvariant == LPSpec => []LiveInv
<1>1. LiveInv /\ [LPNext]_lpVars => LiveInv'
  BY LiveNextTypes, LiveNextBlockers, LiveNextPids, LiveNextAlone, LiveNextProof DEF LiveInv
<1> QED
  BY LiveInitInv, <1>1, PTL DEF LPSpec

-----------------------------------------------------------------------------
(* The theorems about LiveProof.                                             *)

\* What was observed when no collectors overlapped was observed at the source
\* that was hashed before and after.
LEMMA ObservedAt ==
  ASSUME LiveInv, Passed, lpAlone, NEW a \in Artifacts
  PROVE  /\ lpProof.manifest.files[a].ok
         /\ lpProof.manifest.files[a].source = lpProof.manifest.before
         /\ lpProof.manifest.files[a].source = lpProof.manifest.after
<1>1. lpProof.manifest.files[a].ok
  BY DEF LiveInv, ProofKept, Passed
<1>2. /\ lpProof.manifest.before <= lpProof.manifest.files[a].source
      /\ lpProof.manifest.files[a].source <= lpProof.manifest.after
  BY <1>1 DEF LiveInv, AloneKept, SourceBetween
<1>3. lpProof.manifest.before = lpProof.manifest.after
  BY DEF LiveInv, BlockersKept, Blocked, Passed
<1>4. lpProof.manifest.files[a].source \in Nat /\ lpProof.manifest.after \in Nat
  BY DEF LiveInv, LiveTypes, Proofs, Manifests, Bytes
<1> QED
  BY <1>1, <1>2, <1>3, <1>4

\* A PASS was observed at one source, the one that its record names: for any
\* number of collectors, artifacts, edits and processes (common.py's source
\* hashes, runtime_preview.py's checks of them).
THEOREM EvidenceIsOfOneSource == LPSpec => []OneSource
<1>1. LiveInv => OneSource
  <2> SUFFICES ASSUME LiveInv, Passed, lpQuiet, lpAlone, NEW a \in Artifacts
               PROVE  /\ lpProof.manifest.files[a].ok
                      /\ lpProof.manifest.files[a].source = lpProof.source
    BY DEF OneSource
  <2>1. lpProof.manifest.after = lpProof.source
    BY DEF LiveInv, ProofKept, Passed
  <2> QED
    BY <2>1, ObservedAt
<1> QED
  BY LiveInvariant, <1>1, PTL

\* No run that recorded a problem, or saw the source change, passes, whoever
\* else wrote an envelope (evidence.py's adapt_v1_manifest and
\* envelope_covers_v1).
THEOREM BlockedNeverPasses == LPSpec => []NoBlockedPass
<1>1. LiveInv => NoBlockedPass
  BY DEF LiveInv, BlockersKept, Blocked, Passed, NoBlockedPass
<1> QED
  BY LiveInvariant, <1>1, PTL

\* The evidence was observed while the leased process was alive and at the
\* source of its lease: alive before the observation and alive when the proof
\* looks again it was alive in between, because no pid is given twice
\* (preview.py's copy of the lease, runtime_preview.py's check of it).  Which
\* process answered nothing says.
THEOREM LeaseSpans == LPSpec => []LeaseSpansEvidence
<1>1. LiveInv => LeaseSpansEvidence
  <2> SUFFICES ASSUME LiveInv, Passed, lpSteady, lpAlone, NEW a \in Artifacts
               PROVE  /\ lpProof.manifest.files[a].leased
                      /\ lpProof.manifest.files[a].source = lpProof.manifest.lease.source
    BY DEF LeaseSpansEvidence
  <2>1. lpProof.manifest.files[a].leased
    BY DEF LiveInv, ProofKept, Passed
  <2>2. lpProof.manifest.lease.source = lpProof.manifest.before
    BY DEF LiveInv, AloneKept, Leased, BlockersKept, Blocked, Passed
  <2> QED
    BY <2>1, <2>2, ObservedAt
<1> QED
  BY LiveInvariant, <1>1, PTL

-----------------------------------------------------------------------------
(* PreviewFetch: the least address.                                          *)

\* A set of numbers that is not empty has a least one.
LEMMA LeastNumber ==
  ASSUME NEW T \in SUBSET Nat, T # {}
  PROVE  Min(T) \in T
<1> DEFINE R == {pair \in Nat \X Nat : pair[1] < pair[2]}
<1>1. IsWellFoundedOn(R, Nat)
  BY NatLessThanWellFounded, Zenon DEF OpToRel
<1> HIDE DEF R
<1>2. PICK x \in T : \A y \in T : ~(<<y, x>> \in R)
  BY <1>1, WFMin
<1>3. \A y \in T : x <= y
  <2> SUFFICES ASSUME NEW y \in T, ~(x <= y) PROVE FALSE
    OBVIOUS
  <2>1. x \in Nat /\ y \in Nat /\ y < x
    OBVIOUS
  <2>2. <<y, x>> \in R
    BY <2>1 DEF R
  <2> QED
    BY <1>2, <2>2
<1> QED
  BY <1>3 DEF Min

-----------------------------------------------------------------------------
(* PreviewFetch: the inductive invariant.                                    *)

PreviewTypes ==
  /\ pfPc \in {"start", "bind", "vet", "connect", "smoke", "end", "collected",
              "manifest", "deployment", "judged"}
  /\ pfUrl \in Urls /\ pfVetted \in SUBSET Addresses
  /\ pfNames \in [Urls -> SUBSET Addresses] /\ pfSeen \in [Urls -> SUBSET Addresses]
  /\ pfChain \in Seq(Urls) /\ pfLeft \in 0 .. MaxRedirects + 1
  /\ pfAsked \in Asks

\* Before a connection, the URL was found safe in the resolution that was kept for it.
VettedFirst ==
  pfPc = "connect" => pfVetted # {} /\ pfVetted \subseteq Allowed /\ pfSeen[pfUrl] = pfVetted

\* The fetch begins at the URL asked for.
AtLanding == pfPc \in {"start", "bind", "vet"} => pfUrl = Landing

\* The loop and the redirects share one budget.
Budget == pfLeft + Len(pfChain) = MaxRedirects + 1

\* Without a problem, the fetch came to an end at an address vetted for its URL ...
FetchedPcs == {"collected", "manifest", "deployment", "judged"}
Fetched == pfPc \in FetchedPcs \cup {"smoke", "end"} /\ ~pfProblem =>
  pfLeft > 0 /\ [url |-> pfUrl, to |-> Pinned, seen |-> pfVetted] \in pfTrail

\* ... of a deployment whose hash, if one was given, was the source's at the start.
BoundFirst == pfPc \notin {"start", "bind"} /\ ~pfProblem =>
  (HashGiven => pfAsked.hash = pfSources.before)

\* What was smoked stays what it was.
Smoked == pfPc \in FetchedPcs \cup {"end"} => pfSmoke = {c \in pfAsked.checks : Holds(c)}

\* What the proof has found of the collection is still so, as nothing of that changes ...
Collected == ~pfProblem /\ pfSources.before = pfSources.after /\ pfAnswer.status = pfAsked.status
ReadStands == pfPc \in {"manifest", "deployment"} /\ pfRead.stands =>
  ~pfProblem /\ pfSources.before = pfSources.after
FetchRead == pfPc = "deployment" /\ pfRead.stands => Collected

\* ... and a verdict is about what lies there.
VerdictStands == pfVerdict = "accepted" => pfPc \in FetchedPcs /\ Collected /\ SmokePassed

FetchInv == PreviewTypes /\ AtLanding /\ VettedFirst /\ PinnedToVetted /\ Budget
Judged   == Fetched /\ BoundFirst /\ Smoked /\ ReadStands /\ FetchRead /\ VerdictStands
PreviewInv      == FetchInv /\ Judged

\* It holds at the beginning.
LEMMA PreviewInitInv == PFInit => PreviewInv
BY PreviewAssumption
   DEF PFInit, PreviewInv, FetchInv, Judged, PreviewTypes, AtLanding, VettedFirst, PinnedToVetted, Budget, Fetched,
       BoundFirst, Smoked, FetchedPcs, ReadStands, FetchRead, VerdictStands, Collected

\* A connection goes to one of the addresses its URL was vetted for.
LEMMA ConnectsToVetted ==
  ASSUME FetchInv, Connects
  PROVE  /\ Pinned \in pfVetted \cap Allowed
         /\ pfTrail' = pfTrail \cup {[url |-> pfUrl, to |-> Pinned, seen |-> pfVetted]}
         /\ PinnedToVetted'
<1>1. pfVetted \in SUBSET Nat /\ pfVetted # {} /\ pfVetted \subseteq Allowed /\ pfSeen[pfUrl] = pfVetted
  BY PreviewAssumption DEF FetchInv, PreviewTypes, VettedFirst, Connects
<1>2. Pinned \in pfVetted
  BY <1>1, LeastNumber DEF Pinned
<1> QED
  BY <1>1, <1>2 DEF Connects, FetchInv, PinnedToVetted

\* The steps up to the answer keep what they have of it.
LEMMA NextFetchInv == FetchInv /\ [PFNext]_pfVars => FetchInv'
<1> SUFFICES ASSUME FetchInv, [PFNext]_pfVars PROVE FetchInv'
  OBVIOUS
<1> USE DEF FetchInv, PreviewTypes, AtLanding, VettedFirst, Budget, PinnedToVetted, pfFetch, pfWorld, pfResult
<1>1. CASE ResolveAnew
  <2>1. PICK u \in Urls, as \in SUBSET Addresses : pfNames' = [pfNames EXCEPT ![u] = as]
    BY <1>1, PreviewAssumption DEF ResolveAnew
  <2>2. pfNames' \in [Urls -> SUBSET Addresses]
    BY <2>1
  <2>3. UNCHANGED <<pfAsked, pfPc, pfUrl, pfVetted, pfLeft, pfChain, pfSeen, pfTrail>>
    BY <1>1 DEF ResolveAnew
  <2> QED
    BY <2>2, <2>3
<1>2. CASE EditTree \/ CommitSource \/ StartPreview \/ BindDeployment \/ RunSmoke \/ EndPreview
           \/ ProveManifest \/ ProveFetch \/ ProveDeployment
  BY <1>2 DEF EditTree, CommitSource, StartPreview, BindDeployment, RunSmoke, EndPreview,
              ProveManifest, ProveFetch, ProveDeployment
<1>3. CASE VetLanding
  <2>1. pfVetted' = pfNames[Landing] /\ pfSeen' = [pfSeen EXCEPT ![Landing] = pfNames[Landing]]
    BY <1>3 DEF VetLanding, Vet
  <2>2. UNCHANGED <<pfAsked, pfNames, pfUrl, pfChain, pfLeft, pfTrail>>
    BY <1>3 DEF VetLanding
  <2>3. pfUrl = Landing
    BY <1>3 DEF VetLanding
  <2> QED
    BY <1>3, <2>1, <2>2, <2>3, PreviewAssumption DEF VetLanding, Unsafe
<1>4. CASE ConnectFails
  <2>1. PinnedToVetted'
    BY <1>4, ConnectsToVetted DEF ConnectFails
  <2> QED
    BY <1>4, <2>1 DEF ConnectFails
<1>5. CASE Redirected
  <2>1. PICK u \in Urls : Redirect(u) /\ pfChain' = Append(pfChain, u)
    BY <1>5 DEF Redirected
  <2>2. PinnedToVetted'
    BY <1>5, ConnectsToVetted DEF Redirected
  <2>3. Budget' /\ pfLeft' \in 0 .. MaxRedirects + 1 /\ pfChain' \in Seq(Urls)
    BY <1>5, <2>1, PreviewAssumption DEF Redirected, Connects
  <2>4. PreviewTypes'
    BY <1>5, <2>1, <2>3 DEF Redirected, Redirect, Vet, Connects
  <2>5. VettedFirst' /\ AtLanding'
    BY <1>5, <2>1 DEF Redirected, Redirect, Vet, Unsafe, Connects
  <2> QED
    BY <2>2, <2>3, <2>4, <2>5
<1>6. CASE Answered
  <2>1. PinnedToVetted'
    BY <1>6, ConnectsToVetted DEF Answered
  <2> QED
    BY <1>6, <2>1 DEF Answered
<1>7. CASE UNCHANGED pfVars
  BY <1>7 DEF pfVars
<1> QED
  BY <1>1, <1>2, <1>3, <1>4, <1>5, <1>6, <1>7 DEF PFNext

\* So do the steps that judge it.
LEMMA NextJudged == PreviewInv /\ [PFNext]_pfVars => Judged'
<1> SUFFICES ASSUME PreviewInv, [PFNext]_pfVars PROVE Judged'
  OBVIOUS
<1> USE DEF PreviewInv, Judged, Fetched, BoundFirst, Smoked, FetchedPcs, ReadStands, FetchRead, VerdictStands, Collected,
            SmokePassed, Holds, HashGiven, Pinned, pfFetch, pfWorld, pfResult, pfProof
<1>1. CASE ResolveAnew \/ EditTree \/ CommitSource
  <2>1. UNCHANGED <<pfAsked, pfPc, pfFetch, pfProblem, pfResult>>
    BY <1>1 DEF ResolveAnew, EditTree, CommitSource
  <2> QED
    BY <2>1
<1>2. CASE StartPreview
  BY <1>2 DEF StartPreview
<1>3. CASE BindDeployment
  BY <1>3 DEF BindDeployment, DeploymentBound, HashBound
<1>4. CASE VetLanding
  BY <1>4 DEF VetLanding
<1>5. CASE ConnectFails
  BY <1>5 DEF ConnectFails, Connects
<1>6. CASE Redirected
  BY <1>6 DEF Redirected, Redirect, Connects
<1>7. CASE Answered
  <2>1. [url |-> pfUrl', to |-> Pinned', seen |-> pfVetted'] \in pfTrail'
    BY <1>7, ConnectsToVetted DEF Answered
  <2> QED
    BY <1>7, <2>1 DEF Answered, Connects, FetchInv, PreviewTypes
<1>8. CASE RunSmoke
  BY <1>8 DEF RunSmoke
<1>9. CASE EndPreview
  <2>1. ~pfProblem' => ~pfProblem
    BY <1>9, Zenon DEF EndPreview
  <2> QED
    BY <1>9, <2>1 DEF EndPreview
<1>10. CASE ProveManifest
  BY <1>10 DEF ProveManifest, ManifestStands, NothingRead
<1>11. CASE ProveFetch
  BY <1>11 DEF ProveFetch, FetchStands, FetchInv, PreviewTypes
<1>12. CASE ProveDeployment
  BY <1>12 DEF ProveDeployment
<1>13. CASE UNCHANGED pfVars
  BY <1>13 DEF pfVars
<1> QED
  BY <1>1, <1>2, <1>3, <1>4, <1>5, <1>6, <1>7, <1>8, <1>9, <1>10, <1>11, <1>12, <1>13 DEF PFNext

-----------------------------------------------------------------------------
(* PreviewFetch: the theorems.                                               *)

\* The collector connects to no address but one that its URL was vetted for,
\* whatever resolves anew and whatever redirects (preview.py 169-208, 304-329).
THEOREM ConnectionsPinned == PFSpec => []PinnedToVetted
<1>1. PreviewInv => PinnedToVetted
  BY DEF PreviewInv, FetchInv
<1>2. PreviewInv /\ [PFNext]_pfVars => PreviewInv'
  BY NextFetchInv, NextJudged DEF PreviewInv
<1> QED
  BY PreviewInitInv, <1>1, <1>2, PTL DEF PFSpec

\* An accepted preview was answered as asked, at an address vetted for its
\* final URL and within the redirects allowed (preview.py 314-340, 468-503).
THEOREM AcceptedAsAsked == PFSpec => []AnswerJudged
<1>1. PreviewInv => AnswerJudged
  BY PreviewAssumption
     DEF PreviewInv, FetchInv, PreviewTypes, Judged, Fetched, Budget, Smoked, VerdictStands, SmokePassed,
         FetchedPcs, Collected, AnswerJudged, TrulyHolds
<1>2. PreviewInv /\ [PFNext]_pfVars => PreviewInv'
  BY NextFetchInv, NextJudged DEF PreviewInv
<1> QED
  BY PreviewInitInv, <1>1, <1>2, PTL DEF PFSpec

\* An accepted preview is of a deployment of the source it was collected from, or
\* of a commit that holds the present one (preview.py 404-466, runtime_preview.py's
\* deployment_bound_to_current).
THEOREM AcceptedIsCurrent == PFSpec => DeploymentIsCurrent
<1>1. PreviewInv /\ [PFNext]_pfVars =>
        [ProveDeployment /\ pfVerdict' = "accepted" =>
           IF HashGiven THEN pfAsked.hash = pfSources.before /\ pfAsked.hash = pfSources.after
           ELSE CommitGiven /\ pfTree.log[pfAsked.commit] = pfTree.now]_pfVars
  BY DEF PreviewInv, Judged, BoundFirst, FetchRead, Collected, ProveDeployment, BoundNow, CommitBound, CleanAtHead
<1>2. PreviewInv /\ [PFNext]_pfVars => PreviewInv'
  BY NextFetchInv, NextJudged DEF PreviewInv
<1> QED
  BY PreviewInitInv, <1>1, <1>2, PTL DEF PFSpec, DeploymentIsCurrent

-----------------------------------------------------------------------------
(* ProfileLock: the types that the arguments need.                           *)

CommandRecords == [pc : {"idle", "lock", "source", "manifest", "ledger"}, request : Requests,
                   kind : {"run", "init", "setup"}, early : BOOLEAN]
LockTypes ==
  /\ plSource \in [profile : Profiles \cup {"none"}, early : BOOLEAN]
  /\ plLog \in Seq([profile : Profiles \cup {"none"}, gates : BOOLEAN])
  /\ plCmd \in CommandRecords /\ (plCmd.pc = "source" => plCmd.request # "none")
  /\ plGates \in BOOLEAN /\ plClean \in BOOLEAN

\* The empty values are of their types.
LEMMA LockEmptyTypes ==
  /\ NoSource \in [profile : Profiles \cup {"none"}, early : BOOLEAN]
  /\ NoCommand \in CommandRecords /\ NoCommand.pc = "idle"
BY DEF NoSource, NoCommand, CommandRecords, Requests

\* The beginning has the types.
LEMMA LockInitTypes == PLInit => LockTypes
BY LockEmptyTypes DEF PLInit, LockTypes

\* What is committed is a commit.
LEMMA HeadType == LockTypes => AtHead \in [profile : Profiles \cup {"none"}, gates : BOOLEAN]
<1> SUFFICES ASSUME LockTypes PROVE AtHead \in [profile : Profiles \cup {"none"}, gates : BOOLEAN]
  OBVIOUS
<1>1. CASE plLog = <<>>
  BY <1>1 DEF AtHead, Fresh
<1>2. CASE plLog # <<>>
  <2>1. Len(plLog) \in 1 .. Len(plLog)
    BY <1>2, EmptySeq DEF LockTypes
  <2>2. plLog[Len(plLog)] \in [profile : Profiles \cup {"none"}, gates : BOOLEAN]
    BY <2>1, ElementOfSeq DEF LockTypes
  <2> QED
    BY <1>2, <2>2 DEF AtHead
<1> QED
  BY <1>1, <1>2

\* A commit extends the history by what it is.
LEMMA CommitTypes ==
  ASSUME LockTypes, NEW withProfile \in BOOLEAN, NEW withGates \in BOOLEAN, CommitTree(withProfile, withGates)
  PROVE  /\ plLog' \in Seq([profile : Profiles \cup {"none"}, gates : BOOLEAN])
         /\ UNCHANGED <<plManifest, plSource, plGates, plCmd, plClean>>
         /\ \E commit \in [profile : Profiles \cup {"none"}, gates : BOOLEAN] :
              /\ plLog' = Append(plLog, commit)
              /\ plEarned' = (plEarned \/ (commit.profile = "fast" /\ ~commit.gates
                                             /\ \A j \in DOMAIN plLog : ~plLog[j].gates))
<1> DEFINE commit == [profile |-> IF withProfile THEN plSource.profile ELSE AtHead.profile,
                      gates   |-> IF withGates THEN plGates ELSE AtHead.gates]
<1>1. commit \in [profile : Profiles \cup {"none"}, gates : BOOLEAN]
  BY HeadType DEF LockTypes
<1>2. plLog' = Append(plLog, commit)
  BY DEF CommitTree
<1>3. plEarned' = (plEarned \/ (commit.profile = "fast" /\ ~commit.gates
                                  /\ \A j \in DOMAIN plLog : ~plLog[j].gates))
  BY Zenon DEF CommitTree
<1>4. UNCHANGED <<plManifest, plSource, plGates, plCmd, plClean>>
  BY DEF CommitTree, plTree
<1>5. plLog' \in Seq([profile : Profiles \cup {"none"}, gates : BOOLEAN])
  BY <1>1, <1>2 DEF LockTypes
<1> QED
  BY <1>1, <1>2, <1>3, <1>4, <1>5

\* Every step keeps the types.
LEMMA LockNextTypes == LockTypes /\ [PLNext]_plVars => LockTypes'
<1> SUFFICES ASSUME LockTypes, [PLNext]_plVars PROVE LockTypes'
  OBVIOUS
<1> USE DEF LockTypes, plTree, plGit
<1>1. ASSUME NEW request \in Requests, InitCommand(request) \/ RunSetup(request) \/ RunManifest(request)
      PROVE  LockTypes'
  <2>1. ASSUME NEW kind \in {"init", "setup"}, StartInit(request, kind)
        PROVE  plCmd' \in CommandRecords /\ plCmd'.pc = "lock"
    BY <2>1 DEF StartInit, CommandRecords
  <2>2. ASSUME BeginManifest(request)
        PROVE  plCmd' \in CommandRecords /\ plCmd'.pc = "lock"
    BY <2>2 DEF BeginManifest, NoCommand, CommandRecords, Requests
  <2>3. UNCHANGED <<plSource, plLog, plGates, plClean>>
    BY <1>1 DEF InitCommand, RunSetup, RunManifest
  <2>4. plCmd' \in CommandRecords /\ plCmd'.pc = "lock"
    BY <1>1, <2>1, <2>2 DEF InitCommand, RunSetup, RunManifest
  <2> QED
    BY <2>3, <2>4
<1>2. CASE CheckLock
  <2>1. plCmd' \in CommandRecords /\ (plCmd'.pc = "source" => plCmd'.request # "none")
    BY <1>2, LockEmptyTypes DEF CheckLock, Return, Continue, CommandRecords
  <2> QED
    BY <1>2, <2>1 DEF CheckLock
<1>3. CASE WriteSource
  <2>1. (IF plSource # NoSource THEN plSource.early ELSE ~LockReasons) \in BOOLEAN
    BY DEF LockReasons
  <2>2. plCmd.request \in Profiles
    BY <1>3 DEF WriteSource, CommandRecords, Requests
  <2>3. plSource' \in [profile : Profiles \cup {"none"}, early : BOOLEAN]
    BY <1>3, <2>1, <2>2 DEF WriteSource
  <2>4. plCmd' \in CommandRecords /\ plCmd'.pc = "manifest"
    BY <1>3 DEF WriteSource, Continue, CommandRecords
  <2> QED
    BY <1>3, <2>3, <2>4 DEF WriteSource
<1>4. CASE WriteManifestFile
  <2>1. plCmd' \in CommandRecords /\ plCmd'.pc # "source"
    BY <1>4, LockEmptyTypes DEF WriteManifestFile, Return, Continue, CommandRecords
  <2> QED
    BY <1>4, <2>1 DEF WriteManifestFile
<1>5. CASE KillCommand
  BY <1>5, LockEmptyTypes DEF KillCommand, Return
<1>6. ASSUME NEW force \in BOOLEAN, LogSetup(force) PROVE LockTypes'
  <2>1. plCmd' \in CommandRecords /\ plCmd'.pc # "source"
    BY <1>6, LockEmptyTypes DEF LogSetup, Return, BeginManifest, NoCommand, CommandRecords, Requests
  <2>2. plGates' \in BOOLEAN
    BY <1>6 DEF LogSetup
  <2>3. UNCHANGED <<plSource, plLog, plClean>>
    BY <1>6 DEF LogSetup
  <2> QED
    BY <2>1, <2>2, <2>3
<1>7. CASE ToggleGates \/ ReviewsAppear
  BY <1>7 DEF ToggleGates, ReviewsAppear
<1>8. ASSUME NEW withProfile \in BOOLEAN, NEW withGates \in BOOLEAN, CommitTree(withProfile, withGates)
      PROVE  LockTypes'
  BY <1>8, CommitTypes
<1>9. ASSUME NEW profile \in Profiles, TamperManifest(profile) PROVE LockTypes'
  BY <1>9 DEF TamperManifest
<1>10. ASSUME NEW profile \in Profiles, NEW early \in BOOLEAN, TamperSource(profile, early) PROVE LockTypes'
  BY <1>10 DEF TamperSource
<1>11. CASE UNCHANGED plVars
  BY <1>11 DEF plVars
<1> QED
  BY <1>1, <1>2, <1>3, <1>4, <1>5, <1>6, <1>7, <1>8, <1>9, <1>10, <1>11 DEF PLNext

-----------------------------------------------------------------------------
(* ProfileLock: the history.                                                 *)

\* A commit of fast with no gate up to it was noted when it was made.
Noted == \A i \in DOMAIN plLog :
  plLog[i].profile = "fast" /\ ~GatesUpTo(i) => plEarned

\* Only commits change the history, and a commit of fast is noted.
LEMMA NextNoted == LockTypes /\ Noted /\ [PLNext]_plVars => Noted'
<1> SUFFICES ASSUME LockTypes, Noted, [PLNext]_plVars PROVE Noted'
  OBVIOUS
<1>1. ASSUME NEW withProfile \in BOOLEAN, NEW withGates \in BOOLEAN, CommitTree(withProfile, withGates)
      PROVE  Noted'
  <2>1. PICK commit \in [profile : Profiles \cup {"none"}, gates : BOOLEAN] :
          /\ plLog' = Append(plLog, commit)
          /\ plEarned' = (plEarned \/ (commit.profile = "fast" /\ ~commit.gates
                                         /\ \A j \in DOMAIN plLog : ~plLog[j].gates))
    BY <1>1, CommitTypes
  <2>2. plEarned => plEarned'
    BY <2>1, Zenon
  <2>3. SUFFICES ASSUME NEW i \in DOMAIN plLog', plLog'[i].profile = "fast",
                        \A j \in 1 .. i : ~plLog'[j].gates
                 PROVE  plEarned'
    BY DEF Noted, GatesUpTo
  <2>4. Len(plLog) \in Nat /\ DOMAIN plLog = 1 .. Len(plLog) /\ i \in 1 .. Len(plLog) + 1
    BY <2>1 DEF LockTypes
  <2>5. \A j \in 1 .. Len(plLog) : plLog'[j] = plLog[j]
    BY <2>1 DEF LockTypes
  <2>6. CASE i \in 1 .. Len(plLog)
    BY <2>2, <2>3, <2>4, <2>5, <2>6 DEF Noted, GatesUpTo
  <2>7. CASE i = Len(plLog) + 1
    <3>1. plLog'[i] = commit
      BY <2>1, <2>7 DEF LockTypes
    <3>2. commit.profile = "fast" /\ ~commit.gates /\ \A j \in DOMAIN plLog : ~plLog[j].gates
      BY <2>3, <2>4, <2>5, <2>7, <3>1
    <3> QED
      BY <2>1, <3>2, Zenon
  <2> QED
    BY <2>4, <2>6, <2>7
<1>2. CASE UNCHANGED <<plLog, plEarned>>
  BY <1>2 DEF Noted, GatesUpTo
<1> QED
  BY <1>1, <1>2
     DEF PLNext, plVars, plGit, InitCommand, RunSetup, RunManifest, CheckLock, WriteSource, WriteManifestFile,
         KillCommand, LogSetup, ToggleGates, ReviewsAppear, TamperManifest, TamperSource

\* Whoever edits the files, kills commands, removes gates and restores them:
\* the profile is fast only if it was committed before any gate ever was
\* (runtime_project.py's git_history_has_fast_mvp_before_gates), for histories
\* of any length.
THEOREM FastIsEarned == PLSpec => []EarnedBeforeGates
<1>1. PLInit => Noted
  BY DEF PLInit, Noted
<1>2. Noted => EarnedBeforeGates
  BY DEF Noted, EarnedBeforeGates, EffectiveProfile, Predates, FastBeforeGates
<1> QED
  BY LockInitTypes, LockNextTypes, NextNoted, <1>1, <1>2, PTL DEF PLSpec

-----------------------------------------------------------------------------
(* ProfileLock: the two files.                                               *)

\* Only between its two writes does a command leave them different.
Writing == plCmd.pc = "manifest" /\ plCmd.request # "none"
Agreed ==
  /\ plSource # NoSource => plSource.profile # "none"
  /\ plSource # NoSource /\ plClean = TRUE =>
       \/ Writing /\ plSource.profile = plCmd.request
       \/ ~Writing /\ plManifest = plSource.profile

\* Every step keeps them so.
LEMMA NextAgreed == LockTypes /\ Agreed /\ [PLNext]_plVars => Agreed'
<1> SUFFICES ASSUME LockTypes, Agreed, [PLNext]_plVars PROVE Agreed'
  OBVIOUS
<1> USE DEF LockTypes, Agreed, Writing, plTree, plGit
<1>1. ASSUME NEW request \in Requests, InitCommand(request) \/ RunSetup(request) \/ RunManifest(request)
      PROVE  Agreed'
  <2>1. plCmd = NoCommand /\ plCmd'.pc = "lock" /\ UNCHANGED <<plManifest, plSource, plClean>>
    <3>1. ASSUME NEW kind \in {"init", "setup"}, StartInit(request, kind) PROVE plCmd'.pc = "lock"
      BY <3>1 DEF StartInit
    <3>2. ASSUME BeginManifest(request) PROVE plCmd'.pc = "lock"
      BY <3>2 DEF BeginManifest, NoCommand
    <3> QED
      BY <1>1, <3>1, <3>2 DEF InitCommand, RunSetup, RunManifest
  <2> QED
    BY <2>1 DEF NoCommand
<1>2. CASE CheckLock
  <2>1. ~Writing /\ ~Writing'
    BY <1>2, LockEmptyTypes DEF CheckLock, Return, Continue, CommandRecords
  <2> QED
    BY <1>2, <2>1 DEF CheckLock
<1>3. CASE WriteSource
  BY <1>3 DEF WriteSource, Continue, Requests, Profiles, NoSource
<1>4. CASE WriteManifestFile
  <2>1. ~Writing'
    BY <1>4, LockEmptyTypes DEF WriteManifestFile, Return, Continue, CommandRecords
  <2> QED
    BY <1>4, <2>1 DEF WriteManifestFile
<1>5. CASE KillCommand
  BY <1>5 DEF KillCommand, Return, NoCommand
<1>6. ASSUME NEW force \in BOOLEAN, LogSetup(force) PROVE Agreed'
  <2>1. ~Writing /\ ~Writing'
    BY <1>6, LockEmptyTypes DEF LogSetup, Return, BeginManifest, NoCommand
  <2> QED
    BY <1>6, <2>1 DEF LogSetup
<1>7. CASE ToggleGates \/ ReviewsAppear
  BY <1>7 DEF ToggleGates, ReviewsAppear
<1>8. ASSUME NEW withProfile \in BOOLEAN, NEW withGates \in BOOLEAN, CommitTree(withProfile, withGates)
      PROVE  Agreed'
  BY <1>8, CommitTypes
<1>9. ASSUME NEW profile \in Profiles, TamperManifest(profile) PROVE Agreed'
  BY <1>9 DEF TamperManifest
<1>10. ASSUME NEW profile \in Profiles, NEW early \in BOOLEAN, TamperSource(profile, early) PROVE Agreed'
  BY <1>10 DEF TamperSource, Profiles
<1>11. CASE UNCHANGED plVars
  BY <1>11 DEF plVars
<1> QED
  BY <1>1, <1>2, <1>3, <1>4, <1>5, <1>6, <1>7, <1>8, <1>9, <1>10, <1>11 DEF PLNext

\* Between commands the two files agree, also after a refusal, as long as no
\* command was killed and nobody edited them (runtime_project.py, cmd_run).
THEOREM FilesAgree == PLSpec => []ProfilesAgree
<1>1. PLInit => Agreed
  BY DEF PLInit, Agreed, Writing, NoCommand
<1>2. Agreed => ProfilesAgree
  BY DEF Agreed, Writing, ProfilesAgree, NoCommand
<1> QED
  BY LockInitTypes, LockNextTypes, NextAgreed, <1>1, <1>2, PTL DEF PLSpec
===============================================================================
