-------------------------------- MODULE AppRun --------------------------------
(***************************************************************************)
(* One collection of the native macOS collector (native_macos.py): it      *)
(* builds the project, starts the app, waits until a reader thread has     *)
(* seen the readiness text, stops the app, joins the reader for a while,   *)
(* writes the output and judges the run; then `native-macos-proof` reads   *)
(* what was written (runtime_native.py).                                   *)
(*                                                                         *)
(* The app prints, exits, forks and ignores signals as it likes; a child   *)
(* of it can keep the pipe open, so that the reader outlives the join.     *)
(* The reader of standard error is like the one that is modelled.          *)
(***************************************************************************)
EXTENDS Naturals

VARIABLES
  arAsked,    \* a readiness text was asked for
  arPc,       \* where the collector is
  arApp,      \* the process: "none", "running", "exited", "crashed", "stopped"
  arChild,    \* a child holds the pipe
  arSignal,   \* the last signal sent
  arText,     \* the readiness text: "unwritten", "piped" or "read"
  arReader,   \* the reader thread
  arShared,   \* what both threads use: chunks hold the text, status, event
  arTime,     \* the observation period and the deadline are over
  arRun,      \* what the collector knows of the run so far
  arFile,     \* what it wrote: stdout.txt holds the text, the result, run.json
  arBundle,   \* the .app bundle: "none", "right" or "wrong" identity
  arMeta,     \* the bundle the metadata was read from
  arProblems, \* problems and unavailable capabilities so far
  arProof     \* "none", "refused", "accepted"

arVars == <<arAsked, arPc, arApp, arChild, arSignal, arText, arReader, arShared, arTime, arRun,
            arFile, arBundle, arMeta, arProblems, arProof>>
arApps == <<arApp, arChild, arSignal, arText>>
arDisk == <<arBundle, arMeta>>
arEnd  == <<arDisk, arProblems, arProof>>

Gone == arApp \notin {"none", "running"}
Code(app) == CASE app \in {"none", "running"} -> "none" [] app = "exited" -> "zero" [] OTHER -> "other"
NoRun == [built |-> "none", reason |-> "none", late |-> FALSE, elapsed |-> FALSE, attempted |-> FALSE,
          stopped |-> FALSE, left |-> FALSE, code |-> "none"]
NoResult == [success |-> FALSE, timedOut |-> FALSE, launchFailed |-> FALSE, cleanupFailed |-> FALSE,
             cleaned |-> FALSE, code |-> "none", status |-> "none"]

ARInit ==
  /\ arAsked \in BOOLEAN
  /\ arPc = "metadata" /\ arApp = "none" /\ arChild = FALSE /\ arSignal = "none"
  /\ arText = "unwritten" /\ arReader = "none"
  /\ arShared = [chunk |-> FALSE, event |-> FALSE, status |-> IF arAsked THEN "pending" ELSE "not_requested"]
  /\ arTime = [observed |-> FALSE, deadline |-> FALSE]
  /\ arRun = NoRun /\ arFile = [text |-> FALSE, result |-> NoResult]
  /\ arBundle \in {"none", "right", "wrong"} /\ arMeta = "none"
  /\ arProblems = FALSE /\ arProof = "none"

-----------------------------------------------------------------------------
(* The app, its child and time                                             *)

AppPrints ==
  /\ arText = "unwritten" /\ (arApp = "running" \/ arChild)
  /\ arText' = "piped"
  /\ UNCHANGED <<arAsked, arPc, arApp, arChild, arSignal, arReader, arShared, arTime, arRun, arFile, arEnd>>

AppForks ==
  /\ arApp = "running" /\ ~arChild
  /\ arChild' = TRUE
  /\ UNCHANGED <<arAsked, arPc, arApp, arSignal, arText, arReader, arShared, arTime, arRun, arFile, arEnd>>

AppEnds ==
  /\ arApp = "running"
  /\ arApp' \in {"exited", "crashed"} \cup IF arSignal = "none" THEN {} ELSE {"stopped"}
  /\ UNCHANGED <<arAsked, arPc, arChild, arSignal, arText, arReader, arShared, arTime, arRun, arFile, arEnd>>

ChildEnds ==
  /\ arChild /\ arApp # "running"
  /\ arChild' = FALSE
  /\ UNCHANGED <<arAsked, arPc, arApp, arSignal, arText, arReader, arShared, arTime, arRun, arFile, arEnd>>

TimePasses ==
  /\ arPc \in {"poll", "check"}
  /\ \/ ~arTime.observed /\ arTime' = [arTime EXCEPT !.observed = TRUE]
     \/ ~arTime.deadline /\ arTime' = [arTime EXCEPT !.deadline = TRUE]
  /\ UNCHANGED <<arAsked, arPc, arApps, arReader, arShared, arRun, arFile, arEnd>>

-----------------------------------------------------------------------------
(* The reader thread: a line is appended, then the status changes, then    *)
(* the event is set                                                        *)

Reader(from, to) == arReader = from /\ arReader' = to

ReadPiece ==
  /\ Reader("reading", "appending") /\ arText = "piped"
  /\ arText' = "read"
  /\ UNCHANGED <<arAsked, arPc, arApp, arChild, arSignal, arShared, arTime, arRun, arFile, arEnd>>

AppendPiece ==
  /\ Reader("appending", IF arAsked THEN "updating" ELSE "reading")
  /\ arShared' = [arShared EXCEPT !.chunk = TRUE]
  /\ UNCHANGED <<arAsked, arPc, arApps, arTime, arRun, arFile, arEnd>>

ObserveText ==
  /\ Reader("updating", "setting")
  /\ arShared' = [arShared EXCEPT !.status = "observed"]
  /\ UNCHANGED <<arAsked, arPc, arApps, arTime, arRun, arFile, arEnd>>

SetEvent ==
  /\ Reader("setting", "reading")
  /\ arShared' = [arShared EXCEPT !.event = TRUE]
  /\ UNCHANGED <<arAsked, arPc, arApps, arTime, arRun, arFile, arEnd>>

EndOfFile ==
  /\ Reader("reading", "ended") /\ arText # "piped" /\ Gone /\ ~arChild
  /\ UNCHANGED <<arAsked, arPc, arApps, arShared, arTime, arRun, arFile, arEnd>>

-----------------------------------------------------------------------------
(* The collector                                                           *)

RunAt(pc, next) == arPc = pc /\ arPc' = next

\* resolve_app_bundle, before the build.
ReadMetadata ==
  /\ RunAt("metadata", "build")
  /\ arMeta' = arBundle /\ arProblems' = (arBundle # "right")
  /\ UNCHANGED <<arAsked, arApps, arReader, arShared, arTime, arRun, arFile, arBundle, arProof>>

\* run_command: the build fails, times out or leaves a bundle.
BuildApp ==
  /\ arPc = "build"
  /\ \/ arPc' = "launch" /\ arRun' = [arRun EXCEPT !.built = "ok"]
        /\ arBundle' \in {arBundle, "right", "wrong"} /\ UNCHANGED arProblems
     \/ arPc' = "test" /\ arRun' = [arRun EXCEPT !.built = "failed"]
        /\ arProblems' = TRUE /\ UNCHANGED arBundle
  /\ UNCHANGED <<arAsked, arApps, arReader, arShared, arTime, arFile, arMeta, arProof>>

\* Popen, and the reader is started.
LaunchApp ==
  /\ RunAt("launch", "poll")
  /\ arApp' = "running" /\ arReader' = "reading"
  /\ UNCHANGED <<arAsked, arChild, arSignal, arText, arShared, arTime, arRun, arFile, arEnd>>

LaunchFails ==
  /\ RunAt("launch", "problems")
  /\ arFile' = [text |-> FALSE, result |->
                  [NoResult EXCEPT !.launchFailed = TRUE, !.cleanupFailed = TRUE, !.status = "launch_failed"]]
  /\ UNCHANGED <<arAsked, arApps, arReader, arShared, arTime, arRun, arEnd>>

PollProcess ==
  /\ arPc = "poll"
  /\ IF Gone
       THEN arPc' = "terminate" /\ arRun' = [arRun EXCEPT !.reason = "process_exit"]
       ELSE arPc' = "check" /\ arRun' = [arRun EXCEPT !.elapsed = arTime.observed, !.late = arTime.deadline]
  /\ UNCHANGED <<arAsked, arApps, arReader, arShared, arTime, arFile, arEnd>>

\* Mutant: a readiness text is waited for without a deadline.
StopReasonPatient ==
  IF arAsked THEN (IF arShared.event THEN "readiness_observed" ELSE "none")
  ELSE IF arRun.elapsed THEN "observed_without_readiness"
  ELSE IF arRun.late THEN "timeout" ELSE "none"

StopReason ==
  IF arAsked /\ arShared.event THEN "readiness_observed"
  ELSE IF ~arAsked /\ arRun.elapsed THEN "observed_without_readiness"
  ELSE IF arRun.late THEN "timeout" ELSE "none"

CheckEvent ==
  /\ RunAt("check", IF StopReason = "none" THEN "poll" ELSE "terminate")
  /\ arRun' = [arRun EXCEPT !.reason = StopReason]
  /\ UNCHANGED <<arAsked, arApps, arReader, arShared, arTime, arFile, arEnd>>

\* terminate_process, for a process that still runs.
Terminate ==
  /\ RunAt("terminate", IF Gone THEN "join" ELSE "waitTerm")
  /\ arRun' = [arRun EXCEPT !.attempted = ~Gone]
  /\ arSignal' = IF Gone THEN arSignal ELSE "term"
  /\ UNCHANGED <<arAsked, arApp, arChild, arText, arReader, arShared, arTime, arFile, arEnd>>

WaitTerm ==
  /\ RunAt("waitTerm", IF Gone THEN "join" ELSE "waitKill")
  /\ arRun' = [arRun EXCEPT !.stopped = Gone]
  /\ arSignal' = IF Gone THEN arSignal ELSE "kill"
  /\ UNCHANGED <<arAsked, arApp, arChild, arText, arReader, arShared, arTime, arFile, arEnd>>

WaitKill ==
  /\ RunAt("waitKill", "join")
  /\ arRun' = [arRun EXCEPT !.stopped = Gone]
  /\ UNCHANGED <<arAsked, arApps, arReader, arShared, arTime, arFile, arEnd>>

\* Mutant: the reader is not waited for.
JoinNobody ==
  /\ RunAt("join", "capture")
  /\ UNCHANGED <<arAsked, arApps, arReader, arShared, arTime, arRun, arFile, arEnd>>

\* The join returns when the reader has ended or after a timeout.
JoinReader ==
  /\ RunAt("join", "capture")
  /\ arRun' = [arRun EXCEPT !.left = arReader # "ended"]
  /\ UNCHANGED <<arAsked, arApps, arReader, arShared, arTime, arFile, arEnd>>

CaptureOutput ==
  /\ RunAt("capture", "exit")
  /\ arFile' = [arFile EXCEPT !.text = arShared.chunk]
  /\ UNCHANGED <<arAsked, arApps, arReader, arShared, arTime, arRun, arEnd>>

ReadExit ==
  /\ RunAt("exit", IF arShared.status = "pending" THEN "mark" ELSE "judge")
  /\ arRun' = [arRun EXCEPT !.code = Code(arApp)]
  /\ UNCHANGED <<arAsked, arApps, arReader, arShared, arTime, arFile, arEnd>>

MarkMissing ==
  /\ RunAt("mark", "judge")
  /\ arShared' = [arShared EXCEPT !.status = "missing"]
  /\ UNCHANGED <<arAsked, arApps, arReader, arTime, arRun, arFile, arEnd>>

\* Mutant: a process that ends by itself counts as stopped on purpose.
AnyStop == TRUE
Intentional == arRun.reason \in {"readiness_observed", "observed_without_readiness"}

\* The run is judged; readiness is the object that the reader shares.
JudgeRun ==
  LET timedOut == arRun.reason = "timeout"
      cleaned == Gone
      cleanupFailed == ~cleaned \/ (arRun.attempted /\ ~arRun.stopped)
      launchFailed == arRun.code = "other" /\ ~timedOut /\ ~Intentional
      ready == arShared.status \in {"observed", "not_requested"} IN
  /\ RunAt("judge", "write")
  /\ arFile' = [arFile EXCEPT !.result =
       [success |-> ~timedOut /\ ~cleanupFailed /\ ~launchFailed /\ ready,
        timedOut |-> timedOut, launchFailed |-> launchFailed, cleanupFailed |-> cleanupFailed,
        cleaned |-> cleaned,
        code |-> IF ~Intentional \/ timedOut \/ cleanupFailed \/ launchFailed THEN arRun.code ELSE "left out",
        status |-> "none"]]
  /\ UNCHANGED <<arAsked, arApps, arReader, arShared, arTime, arRun, arEnd>>

WriteRun ==
  /\ RunAt("write", "problems")
  /\ arFile' = [arFile EXCEPT !.result.status = arShared.status]
  /\ UNCHANGED <<arAsked, arApps, arReader, arShared, arTime, arRun, arEnd>>

\* result_problems: the readiness of the shared object, as it is by now.
RunProblems ==
  LET result == arFile.result IN
  /\ RunAt("problems", "test")
  /\ arProblems' = (arProblems \/ result.timedOut \/ result.launchFailed \/ result.cleanupFailed
                      \/ (result.status # "launch_failed" /\ arShared.status = "missing"))
  /\ UNCHANGED <<arAsked, arApps, arReader, arShared, arTime, arRun, arFile, arDisk, arProof>>

\* The test command, when there is one and the build did not fail, and the
\* screenshot command, each add a problem or none.  A screenshot is taken
\* after the app was stopped.
RunTest ==
  /\ RunAt("test", "screenshot")
  /\ arProblems' \in {arProblems, TRUE}
  /\ UNCHANGED <<arAsked, arApps, arReader, arShared, arTime, arRun, arFile, arDisk, arProof>>

TakeScreenshot ==
  /\ RunAt("screenshot", "finalize")
  /\ arProblems' \in {arProblems, TRUE}
  /\ UNCHANGED <<arAsked, arApps, arReader, arShared, arTime, arRun, arFile, arDisk, arProof>>

\* cmd_native_macos_proof: the manifest carries no problem, the result no
\* failure, the bundle on disk and the metadata have the identity.
Provable ==
  LET result == arFile.result IN
  /\ ~arProblems
  /\ result.success /\ result.code \in {"zero", "left out"}
  /\ ~result.timedOut /\ ~result.launchFailed /\ ~result.cleanupFailed /\ result.cleaned
  /\ result.status \in {"observed", "not_requested"}
  /\ arBundle = "right" /\ arMeta = "right"

ProveRun ==
  /\ RunAt("finalize", "done")
  /\ arProof' = IF Provable THEN "accepted" ELSE "refused"
  /\ UNCHANGED <<arAsked, arApps, arReader, arShared, arTime, arRun, arFile, arDisk, arProblems>>

CollectorStep ==
  \/ ReadMetadata \/ BuildApp \/ LaunchApp \/ LaunchFails \/ PollProcess \/ CheckEvent
  \/ Terminate \/ WaitTerm \/ WaitKill \/ JoinReader \/ CaptureOutput \/ ReadExit \/ MarkMissing
  \/ JudgeRun \/ WriteRun \/ RunProblems \/ RunTest \/ TakeScreenshot \/ ProveRun
ReaderStep == ReadPiece \/ AppendPiece \/ ObserveText \/ SetEvent \/ EndOfFile
ARNext == CollectorStep \/ ReaderStep \/ AppPrints \/ AppForks \/ AppEnds \/ ChildEnds \/ TimePasses

\* The collector is scheduled and time passes; the app and the reader, which
\* waits for the app, may hang.
ARSpec == ARInit /\ [][ARNext]_arVars /\ WF_arVars(CollectorStep) /\ WF_arVars(TimePasses)

-----------------------------------------------------------------------------
(* Properties                                                              *)

\* A strict proof is only accepted of a run that was built, printed the text
\* it was asked for, ended by itself without failure or was stopped on purpose
\* in time, and is gone: the app does not survive its proof.
AcceptedRunWasReal ==
  arProof = "accepted" =>
    /\ arRun.built = "ok" /\ Gone
    /\ arAsked => arText = "read"
    /\ arRun.reason # "timeout"
    /\ arRun.reason = "process_exit" => arApp = "exited"

\* Readiness that a proof accepts can be read in the stdout.txt that is
\* stored with it, unless the join gave the reader up.
ReadinessInOutput ==
  arProof = "accepted" /\ arAsked /\ ~arRun.left => arFile.text

\* Whatever the app, its children and the reader do, the collector returns.
EveryCollectionEnds == <>(arPc = "done")
=============================================================================
