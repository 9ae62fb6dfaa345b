----------------------------- MODULE Loops_proofs -----------------------------
(* Theorems about what runs until it ends, checked by TLAPS: the loop that   *)
(* keeps sessions going (StopHook), the collector that runs an app (AppRun), *)
(* and the one that drives a browser (BrowserRun).  Each part has an         *)
(* invariant and theorems of its own; they share no state.                   *)
EXTENDS StopHook, AppRun, BrowserRun, TLAPS, SequenceTheorems

-----------------------------------------------------------------------------
(* StopHook: the type invariant.                                             *)

Nexts == {0} \cup {h.next : h \in HookStates}
Digests == {<<>>} \cup {<<h.phase, n>> : h \in HookStates, n \in Nexts}

\* HookTypeOK with what the hooks have read, and the reason why it holds: a
\* hook that is about to write read a count below the budget.
HookTypes ==
  /\ HookTypeOK
  /\ hkCounter \in [count : 0 .. MaxAutoContinues, digest : Digests]
  /\ hkSeen \in [Sessions -> [next : Nexts, digest : Digests, count : Nat]]
  /\ \A s \in Sessions : hkPc[s] = "write" => hkSeen[s].count < MaxAutoContinues
  /\ hkBlocks \in Nat /\ hkAlone \in BOOLEAN

\* The beginning has the types.
LEMMA HookInitTypes == HookInit => HookTypes
BY StopHookAssumption
   DEF HookInit, HookTypes, HookTypeOK, NoCounter, NothingSeen, Nexts, Digests

\* Every step keeps them.
LEMMA HookNextTypes == HookTypes /\ [HookNext]_hkVars => HookTypes'
<1> SUFFICES ASSUME HookTypes, [HookNext]_hkVars PROVE HookTypes'
  OBVIOUS
<1> USE StopHookAssumption DEF HookTypes, HookTypeOK
<1>1. CASE RunWritesState
  BY <1>1 DEF RunWritesState, Disturb
<1>2. ASSUME NEW s \in Sessions, Prompt(s) PROVE HookTypes'
  BY <1>2 DEF Prompt, Disturb, NoCounter, Digests
<1>3. ASSUME NEW s \in Sessions, LetGo(s) PROVE HookTypes'
  BY <1>3 DEF LetGo, NothingSeen, Nexts, Digests
<1>4. ASSUME NEW s \in Sessions, BuildHandoff(s) PROVE HookTypes'
  BY <1>4 DEF BuildHandoff, hkCounts, Nexts
<1>5. ASSUME NEW s \in Sessions, ReadState(s) PROVE HookTypes'
  <2>1. <<hkState.phase, hkSeen[s].next>> \in Digests
    BY DEF Digests
  <2>2. NothingSeen \in [next : Nexts, digest : Digests, count : Nat]
    BY DEF NothingSeen, Nexts, Digests
  <2> QED
    BY <1>5, <2>1, <2>2 DEF ReadState, hkCounts
<1>6. ASSUME NEW s \in Sessions, ReadCounter(s) PROVE HookTypes'
  <2>1. NothingSeen \in [next : Nexts, digest : Digests, count : Nat]
    BY DEF NothingSeen, Nexts, Digests
  <2> QED
    BY <1>6, <2>1 DEF ReadCounter, hkCounts, Spent
<1>7. ASSUME NEW s \in Sessions, Block(s) PROVE HookTypes'
  <2>1. NothingSeen \in [next : Nexts, digest : Digests, count : Nat]
    BY DEF NothingSeen, Nexts, Digests
  <2> QED
    BY <1>7, <2>1 DEF Block, hkCounts, NextCounter
<1>8. CASE UNCHANGED hkVars
  BY <1>8 DEF hkVars
<1> QED
  BY <1>1, <1>2, <1>3, <1>4, <1>5, <1>6, <1>7, <1>8 DEF HookNext, HookStep

\* Whatever the hooks of several sessions read and write in between, the
\* counter file never exceeds the budget of blocks (runtime_hooks.py 193-227).
THEOREM CounterWithinBudget == HookSpec => []HookTypeOK
<1>1. HookTypes => HookTypeOK
  BY DEF HookTypes
<1> QED
  BY HookInitTypes, HookNextTypes, <1>1, PTL DEF HookSpec

-----------------------------------------------------------------------------
(* StopHook: the bound on a stuck state.                                     *)

\* What the hooks of an undisturbed state have in common: only one is under
\* way, it read the present state, and the counter counts all the blocks.
Current == <<hkState.phase, hkState.next>>
HookReads(s) ==
  /\ InHook(s) => hkSeen[s].next = hkState.next /\ \A t \in Sessions \ {s} : ~InHook(t)
  /\ hkPc[s] \in {"decide", "write"} => hkSeen[s].digest = Current
  /\ hkPc[s] = "write" => hkBlocks <= hkSeen[s].count
Counted == hkBlocks > 0 => hkCounter.digest = Current /\ hkBlocks <= hkCounter.count
Undisturbed == hkAlone => Counted /\ \A s \in Sessions : HookReads(s)

\* The beginning is undisturbed.
LEMMA InitUndisturbed == HookInit => Undisturbed
BY DEF HookInit, Undisturbed, Counted, HookReads, InHook

\* Every step keeps it so, or notes that hooks overlapped.
LEMMA NextUndisturbed == HookTypes /\ Undisturbed /\ [HookNext]_hkVars => Undisturbed'
<1> SUFFICES ASSUME HookTypes, Undisturbed, [HookNext]_hkVars, hkAlone'
             PROVE  Counted' /\ \A s \in Sessions : HookReads(s)'
  BY DEF Undisturbed
<1> USE DEF Undisturbed, Counted, HookReads, Current, HookTypes, HookTypeOK, InHook
<1>0. Disturb => hkBlocks' = 0 /\ \A s \in Sessions : ~InHook(s)
  BY Zenon DEF Disturb
<1>1. CASE RunWritesState
  BY <1>0, <1>1 DEF RunWritesState
<1>2. ASSUME NEW s \in Sessions, Prompt(s) PROVE Counted' /\ \A t \in Sessions : HookReads(t)'
  BY <1>0, <1>2 DEF Prompt
<1>3. ASSUME NEW s \in Sessions, LetGo(s) PROVE Counted' /\ \A t \in Sessions : HookReads(t)'
  BY <1>3 DEF LetGo
<1>4. ASSUME NEW s \in Sessions, BuildHandoff(s) PROVE Counted' /\ \A t \in Sessions : HookReads(t)'
  BY <1>4 DEF BuildHandoff, hkCounts
<1>5. ASSUME NEW s \in Sessions, ReadState(s) PROVE Counted' /\ \A t \in Sessions : HookReads(t)'
  BY <1>5 DEF ReadState, hkCounts
<1>6. ASSUME NEW s \in Sessions, ReadCounter(s) PROVE Counted' /\ \A t \in Sessions : HookReads(t)'
  <2>1. Counted'
    BY <1>6 DEF ReadCounter
  <2>2. HookReads(s)'
    BY <1>6 DEF ReadCounter
  <2>3. ASSUME NEW t \in Sessions, t # s PROVE HookReads(t)'
    <3>1. hkPc'[t] = hkPc[t] /\ hkSeen'[t] = hkSeen[t] /\ ~InHook(t)
      BY <1>6, <2>3 DEF ReadCounter
    <3> QED
      BY <3>1
  <2> QED
    BY <2>1, <2>2, <2>3
<1>7. ASSUME NEW s \in Sessions, Block(s) PROVE Counted' /\ \A t \in Sessions : HookReads(t)'
  BY <1>7 DEF Block, hkCounts, NextCounter
<1>8. CASE UNCHANGED hkVars
  BY <1>8 DEF hkVars
<1> QED
  BY <1>1, <1>2, <1>3, <1>4, <1>5, <1>6, <1>7, <1>8 DEF HookNext, HookStep

\* While the state does not change and no prompt comes, hooks that do not
\* overlap block at most MaxAutoContinues stops (runtime_hooks.py 193-227,
\* docs/hooks.md 43), whatever the number of sessions.
THEOREM StuckBounded == HookSpec => []StuckBound
<1>1. HookTypes /\ Undisturbed => StuckBound
  BY StopHookAssumption DEF HookTypes, HookTypeOK, Undisturbed, Counted, StuckBound
<1> QED
  BY HookInitTypes, HookNextTypes, InitUndisturbed, NextUndisturbed, <1>1, PTL DEF HookSpec

-----------------------------------------------------------------------------
(* AppRun: the type invariant.                                               *)

Early   == {"metadata", "build", "launch"}
Running == {"poll", "check", "terminate", "waitTerm", "waitKill", "join"}
Ending  == {"capture", "exit", "mark", "judge", "write"}
After   == {"problems", "test", "screenshot", "finalize", "done"}
Reasons == {"none", "process_exit", "readiness_observed", "observed_without_readiness", "timeout"}
Status  == {"pending", "not_requested", "observed", "missing"}

Results == [success : BOOLEAN, timedOut : BOOLEAN, launchFailed : BOOLEAN, cleanupFailed : BOOLEAN,
            cleaned : BOOLEAN, code : {"none", "zero", "other", "left out"},
            status : Status \cup {"none", "launch_failed"}]
Runs    == [built : {"none", "ok", "failed"}, reason : Reasons, late : BOOLEAN, elapsed : BOOLEAN,
            attempted : BOOLEAN, stopped : BOOLEAN, left : BOOLEAN, code : {"none", "zero", "other"}]

AppTypes ==
  /\ arPc \in Early \cup Running \cup Ending \cup After
  /\ arApp \in {"none", "running", "exited", "crashed", "stopped"}
  /\ arShared \in [chunk : BOOLEAN, event : BOOLEAN, status : Status]
  /\ arTime \in [observed : BOOLEAN, deadline : BOOLEAN]
  /\ arRun \in Runs
  /\ arFile \in [text : BOOLEAN, result : Results]

\* The beginning has the types.
LEMMA AppInitTypes == ARInit => AppTypes
<1> SUFFICES ASSUME ARInit PROVE AppTypes
  OBVIOUS
<1>1. arRun \in Runs
  BY DEF ARInit, NoRun, Runs, Reasons
<1>2. NoResult \in Results
  BY DEF NoResult, Results, Status
<1>3. arShared \in [chunk : BOOLEAN, event : BOOLEAN, status : Status]
  BY DEF ARInit, Status
<1> QED
  BY <1>1, <1>2, <1>3 DEF ARInit, AppTypes, Early

\* Every step keeps them.
LEMMA AppNextTypes == AppTypes /\ [ARNext]_arVars => AppTypes'
<1> SUFFICES ASSUME AppTypes, [ARNext]_arVars PROVE AppTypes'
  OBVIOUS
<1> USE DEF AppTypes, Early, Running, Ending, After, RunAt, Reader, arEnd, arDisk, arApps
<1>1. CASE ReadMetadata
  BY <1>1 DEF ReadMetadata
<1>2. CASE BuildApp
  BY <1>2 DEF BuildApp, Runs
<1>3. CASE LaunchApp
  BY <1>3 DEF LaunchApp
<1>4. CASE LaunchFails
  <2>1. [NoResult EXCEPT !.launchFailed = TRUE, !.cleanupFailed = TRUE, !.status = "launch_failed"] \in Results
    BY DEF NoResult, Results
  <2> QED
    BY <1>4, <2>1 DEF LaunchFails
<1>5. CASE PollProcess
  <2>1. arRun \in Runs /\ arTime.observed \in BOOLEAN /\ arTime.deadline \in BOOLEAN
    OBVIOUS
  <2>2. \/ arRun' = [arRun EXCEPT !.reason = "process_exit"]
        \/ arRun' = [arRun EXCEPT !.elapsed = arTime.observed, !.late = arTime.deadline]
    BY <1>5 DEF PollProcess
  <2>3. "process_exit" \in Reasons
    BY DEF Reasons
  <2>4. arRun' \in Runs
    BY <2>1, <2>2, <2>3 DEF Runs
  <2> QED
    BY <1>5, <2>4 DEF PollProcess
<1>6. CASE CheckEvent
  <2>1. StopReason \in Reasons
    BY DEF StopReason, Reasons
  <2> QED
    BY <1>6, <2>1 DEF CheckEvent, Runs
<1>7. CASE Terminate
  BY <1>7 DEF Terminate, Gone, Runs
<1>8. CASE WaitTerm
  BY <1>8 DEF WaitTerm, Gone, Runs
<1>9. CASE WaitKill
  BY <1>9 DEF WaitKill, Gone, Runs
<1>10. CASE JoinReader
  BY <1>10 DEF JoinReader, Runs
<1>11. CASE CaptureOutput
  BY <1>11 DEF CaptureOutput
<1>12. CASE ReadExit
  <2>1. Code(arApp) \in {"none", "zero", "other"}
    BY DEF Code
  <2> QED
    BY <1>12, <2>1 DEF ReadExit, Runs
<1>13. CASE MarkMissing
  BY <1>13 DEF MarkMissing, Status
<1>14. CASE JudgeRun
  <2>1. arFile'.result \in Results
    BY <1>14 DEF JudgeRun, Gone, Intentional, Runs, Results
  <2> QED
    BY <1>14, <2>1 DEF JudgeRun
<1>15. CASE WriteRun
  <2>1. arFile' = [arFile EXCEPT !.result = [arFile.result EXCEPT !.status = arShared.status]]
    BY <1>15 DEF WriteRun
  <2>2. [arFile.result EXCEPT !.status = arShared.status] \in Results
    BY DEF Results
  <2> QED
    BY <1>15, <2>1, <2>2 DEF WriteRun
<1>16. CASE RunProblems
  BY <1>16 DEF RunProblems
<1>17. CASE RunTest \/ TakeScreenshot \/ ProveRun
  BY <1>17 DEF RunTest, TakeScreenshot, ProveRun
<1>18. CASE ReadPiece \/ AppendPiece \/ SetEvent \/ EndOfFile
  BY <1>18 DEF ReadPiece, AppendPiece, SetEvent, EndOfFile
<1>19. CASE ObserveText
  BY <1>19 DEF ObserveText, Status
<1>20. CASE AppPrints \/ AppForks \/ AppEnds \/ ChildEnds
  BY <1>20 DEF AppPrints, AppForks, AppEnds, ChildEnds
<1>21. CASE TimePasses
  BY <1>21 DEF TimePasses
<1>22. CASE UNCHANGED arVars
  BY <1>22 DEF arVars
<1> QED
  BY <1>1, <1>2, <1>3, <1>4, <1>5, <1>6, <1>7, <1>8, <1>9, <1>10, <1>11, <1>12, <1>13, <1>14, <1>15,
     <1>16, <1>17, <1>18, <1>19, <1>20, <1>21, <1>22 DEF ARNext, CollectorStep, ReaderStep

-----------------------------------------------------------------------------
(* AppRun: the inductive invariant.                                          *)

\* The reader passes on what was printed, line first, then status.
Observed ==
  /\ arReader \in {"appending", "updating", "setting"} => arText = "read"
  /\ arReader \in {"updating", "setting"} => arShared.chunk
  /\ arShared.status = "observed" => arText = "read" /\ arShared.chunk
  /\ arShared.status = "not_requested" => ~arAsked

\* Nothing is judged before there is something to judge.
Fresh == arPc \in Early \cup Running \cup {"capture", "exit", "mark", "judge"} => arFile.result = NoResult

\* The run is of a bundle that was built, or has a problem.
Built == arPc \notin {"metadata", "build"} => arRun.built = "ok" \/ arProblems

\* A process that ended by itself stays ended, and its exit is read after that.
Exited ==
  /\ arRun.reason = "process_exit" => Gone /\ arPc \notin Early
  /\ arRun.reason = "process_exit" /\ arPc \in {"mark", "judge"} => arRun.code = Code(arApp)

\* A reader that was joined has ended, and all it read was captured.
Joined ==
  /\ arPc \in Ending /\ ~arRun.left => arReader = "ended"
  /\ arPc \in Ending \ {"capture"} /\ ~arRun.left => arFile.text = arShared.chunk

\* What a successful result says, and what its status is worth.
Successful == arFile.result.success =>
  /\ Gone /\ arRun.reason # "timeout"
  /\ arRun.reason = "process_exit" => arApp = "exited"
Stated ==
  /\ arFile.result.status = "observed" => arText = "read" /\ (~arRun.left => arFile.text)
  /\ arFile.result.status = "not_requested" => ~arAsked

\* An accepted proof is of that.
Accepted == arProof = "accepted" =>
  /\ arPc = "done" /\ arFile.result.success /\ arRun.built = "ok"
  /\ arFile.result.status \in {"observed", "not_requested"}

RunInv == Observed /\ Fresh /\ Exited /\ Joined /\ Successful /\ Stated
AppInv    == RunInv /\ Built /\ Accepted

\* The beginning has all of it.
LEMMA AppInitInv == ARInit => AppInv
<1> SUFFICES ASSUME ARInit PROVE AppInv
  OBVIOUS
<1>1. Observed
  <2>1. arShared.status = "not_requested" => ~arAsked
    BY DEF ARInit
  <2>2. arShared.status # "observed"
    BY DEF ARInit
  <2> QED
    BY <2>1, <2>2 DEF ARInit, Observed
<1>2. Built /\ Accepted /\ Exited /\ Joined
  BY DEF ARInit, Built, Accepted, Exited, Joined, NoRun, Ending
<1>3. Fresh /\ Successful /\ Stated
  BY DEF ARInit, Fresh, Successful, Stated, NoResult
<1> QED
  BY <1>1, <1>2, <1>3 DEF AppInv, RunInv

\* The run keeps its invariant.
LEMMA NextRunInv == AppTypes /\ RunInv /\ [ARNext]_arVars => RunInv'
<1> SUFFICES ASSUME AppTypes, RunInv, [ARNext]_arVars PROVE RunInv'
  OBVIOUS
<1> USE DEF RunInv, Observed, Fresh, Exited, Joined, Successful, Stated, RunAt, Reader, Gone,
            Early, Running, Ending, After, arEnd, arDisk, arApps
<1>1. CASE ReadMetadata
  BY <1>1 DEF ReadMetadata, NoResult
<1>2. CASE BuildApp
  BY <1>2 DEF BuildApp, NoResult, AppTypes, Runs
<1>3. CASE LaunchApp
  BY <1>3 DEF LaunchApp, NoResult
<1>4. CASE LaunchFails
  BY <1>4 DEF LaunchFails, NoResult, AppTypes
<1>5. CASE PollProcess
  <2>1. arRun'.reason = (IF Gone THEN "process_exit" ELSE arRun.reason)
    BY <1>5 DEF PollProcess, AppTypes, Runs
  <2> QED
    BY <1>5, <2>1 DEF PollProcess, NoResult
<1>6. CASE CheckEvent
  <2>1. StopReason # "process_exit"
    BY DEF StopReason
  <2>2. arRun'.reason = StopReason
    BY <1>6 DEF CheckEvent, AppTypes, Runs
  <2>3. arPc = "check" /\ arPc' \in Running
    BY <1>6 DEF CheckEvent
  <2>4. UNCHANGED <<arAsked, arApp, arText, arReader, arShared, arFile>>
    BY <1>6 DEF CheckEvent
  <2> QED
    BY <2>1, <2>2, <2>3, <2>4 DEF NoResult
<1>7. CASE Terminate \/ WaitTerm \/ WaitKill
  <2>1. arRun'.reason = arRun.reason
    BY <1>7 DEF Terminate, WaitTerm, WaitKill, AppTypes, Runs
  <2>2. UNCHANGED <<arAsked, arApp, arText, arReader, arShared, arFile>>
    BY <1>7 DEF Terminate, WaitTerm, WaitKill
  <2>3. arPc \in Running /\ arPc' \in Running
    BY <1>7 DEF Terminate, WaitTerm, WaitKill
  <2> QED
    BY <2>1, <2>2, <2>3 DEF NoResult
<1>8. CASE JoinReader
  <2>1. arRun'.reason = arRun.reason /\ (~arRun'.left => arReader = "ended")
    BY <1>8 DEF JoinReader, AppTypes, Runs
  <2> QED
    BY <1>8, <2>1 DEF JoinReader, NoResult
<1>9. CASE CaptureOutput
  BY <1>9 DEF CaptureOutput, NoResult, AppTypes
<1>10. CASE ReadExit
  BY <1>10 DEF ReadExit, NoResult, AppTypes, Runs
<1>11. CASE MarkMissing
  BY <1>11 DEF MarkMissing, NoResult, AppTypes
<1>12. CASE JudgeRun
  BY <1>12 DEF JudgeRun, NoResult, AppTypes, Code, Intentional
<1>13. CASE WriteRun
  BY <1>13 DEF WriteRun, AppTypes, Results
<1>14. CASE RunProblems \/ RunTest \/ TakeScreenshot \/ ProveRun
  <2>1. UNCHANGED <<arAsked, arApp, arText, arReader, arShared, arRun, arFile>>
    BY <1>14 DEF RunProblems, RunTest, TakeScreenshot, ProveRun
  <2>2. arPc \in After /\ arPc' \in After
    BY <1>14 DEF RunProblems, RunTest, TakeScreenshot, ProveRun
  <2> QED
    BY <2>1, <2>2
<1>15. CASE ReadPiece \/ EndOfFile
  BY <1>15 DEF ReadPiece, EndOfFile
<1>16. CASE AppendPiece \/ ObserveText \/ SetEvent
  BY <1>16 DEF AppendPiece, ObserveText, SetEvent, AppTypes
<1>17. CASE AppEnds
  BY <1>17 DEF AppEnds, Code
<1>18. CASE AppPrints \/ AppForks \/ ChildEnds \/ TimePasses
  BY <1>18 DEF AppPrints, AppForks, ChildEnds, TimePasses
<1>19. CASE UNCHANGED arVars
  BY <1>19 DEF arVars
<1> QED
  BY <1>1, <1>2, <1>3, <1>4, <1>5, <1>6, <1>7, <1>8, <1>9, <1>10, <1>11, <1>12, <1>13, <1>14, <1>15,
     <1>16, <1>17, <1>18, <1>19 DEF ARNext, CollectorStep, ReaderStep

\* So do the problems and the proof.
LEMMA AppNextInv == AppTypes /\ AppInv /\ [ARNext]_arVars => AppInv'
<1> SUFFICES ASSUME AppTypes, AppInv, [ARNext]_arVars PROVE Built' /\ Accepted'
  BY NextRunInv DEF AppInv
<1> USE DEF AppInv, Built, Accepted, RunAt, Reader, arEnd, arDisk, arApps
<1>1. CASE ReadMetadata
  BY <1>1 DEF ReadMetadata
<1>2. CASE BuildApp
  BY <1>2 DEF BuildApp, AppTypes, Runs
<1>3. CASE LaunchApp
  BY <1>3 DEF LaunchApp
<1>4. CASE LaunchFails
  BY <1>4 DEF LaunchFails
<1>5. CASE PollProcess \/ CheckEvent \/ Terminate \/ WaitTerm \/ WaitKill \/ JoinReader \/ ReadExit
  <2>1. arRun'.built = arRun.built
    BY <1>5 DEF PollProcess, CheckEvent, Terminate, WaitTerm, WaitKill, JoinReader, ReadExit, AppTypes, Runs
  <2>2. UNCHANGED <<arProblems, arProof>>
    BY <1>5 DEF PollProcess, CheckEvent, Terminate, WaitTerm, WaitKill, JoinReader, ReadExit
  <2>3. arPc \notin {"metadata", "build", "done"}
    BY <1>5 DEF PollProcess, CheckEvent, Terminate, WaitTerm, WaitKill, JoinReader, ReadExit
  <2> QED
    BY <2>1, <2>2, <2>3
<1>6. CASE CaptureOutput \/ MarkMissing \/ JudgeRun \/ WriteRun
  <2>1. UNCHANGED <<arRun, arProblems, arProof>>
    BY <1>6 DEF CaptureOutput, MarkMissing, JudgeRun, WriteRun
  <2>2. arPc \notin {"metadata", "build", "done"}
    BY <1>6 DEF CaptureOutput, MarkMissing, JudgeRun, WriteRun
  <2> QED
    BY <2>1, <2>2
<1>7. CASE RunProblems \/ RunTest \/ TakeScreenshot
  <2>1. arProblems => arProblems'
    BY <1>7, Zenon DEF RunProblems, RunTest, TakeScreenshot
  <2>2. UNCHANGED <<arRun, arProof>> /\ arPc \notin {"metadata", "build", "done"}
    BY <1>7 DEF RunProblems, RunTest, TakeScreenshot
  <2> QED
    BY <2>1, <2>2
<1>8. CASE ProveRun
  BY <1>8 DEF ProveRun, Provable
<1>9. CASE ReaderStep \/ AppPrints \/ AppForks \/ AppEnds \/ ChildEnds \/ TimePasses
  <2>1. UNCHANGED <<arPc, arRun, arFile, arProblems, arProof>>
    BY <1>9 DEF ReaderStep, ReadPiece, AppendPiece, ObserveText, SetEvent, EndOfFile,
                AppPrints, AppForks, AppEnds, ChildEnds, TimePasses
  <2> QED
    BY <2>1
<1>10. CASE UNCHANGED arVars
  BY <1>10 DEF arVars
<1> QED
  BY <1>1, <1>2, <1>3, <1>4, <1>5, <1>6, <1>7, <1>8, <1>9, <1>10 DEF ARNext, CollectorStep

-----------------------------------------------------------------------------
(* AppRun: the theorems.                                                     *)

\* A strict proof is accepted only of a run that was built, printed what it was
\* asked for and is gone (native_macos.py 236-420, runtime_native.py).
THEOREM AcceptedRunsWereReal == ARSpec => []AcceptedRunWasReal
<1>1. AppTypes /\ AppInv => AcceptedRunWasReal
  BY DEF AppInv, RunInv, Built, Successful, Stated, Accepted, AcceptedRunWasReal
<1> QED
  BY AppInitTypes, AppNextTypes, AppInitInv, AppNextInv, <1>1, PTL DEF ARSpec

\* The readiness that was accepted can be read in the output that is kept,
\* whichever way the reader thread and the join interleave.
THEOREM ReadinessIsKept == ARSpec => []ReadinessInOutput
<1>1. AppInv => ReadinessInOutput
  BY DEF AppInv, RunInv, Stated, Accepted, ReadinessInOutput
<1> QED
  BY AppInitTypes, AppNextTypes, AppInitInv, AppNextInv, <1>1, PTL DEF ARSpec

-----------------------------------------------------------------------------
(* BrowserRun: what it says of its state.                                    *)

Calls    == {"goto", "ready", "step", "shot", "close"}
Messages == [kind : {"error", "request", "reply"}, ok : BOOLEAN]
Memories == [late : BOOLEAN, failed : BOOLEAN, blocked : BOOLEAN, problem : BOOLEAN]
Truths   == [late : BOOLEAN, unfit : BOOLEAN, blocked : BOOLEAN, shots : SUBSET {1, 2}]
Disks    == [shots : [{1, 2} -> Nat], console : [by : Nat, late : BOOLEAN],
             interaction : [by : Nat, failed : BOOLEAN, blocked : BOOLEAN]]

BrowserTypes ==
  /\ brPc \in {"idle", "running", "judge", "collected"} /\ brNumber \in Nat
  /\ brView \in {1, 2} /\ brCall \in Calls /\ brReply \in {"none", "sent", "ok", "failed"}
  /\ brChannel \in Seq(Messages) /\ brFlag \in BOOLEAN
  /\ brMemory \in Memories /\ brDisk \in Disks /\ brTruth \in Truths
  /\ brManifest \in BOOLEAN /\ brVerdict \in {"none", "PASS", "FAIL"}

Replies == {i \in DOMAIN brChannel : brChannel[i].kind = "reply"}

\* The answer to a call is on its way at most once.
OneReply ==
  /\ \A i, j \in Replies : i = j
  /\ brReply # "sent" => Replies = {}

\* An error that counts is recorded, or will be handled while page_ready is
\* set: its message precedes the answer that ends the screenshot.
Pending(i) ==
  /\ brChannel[i].kind = "error" /\ brFlag
  /\ \/ brCall = "step"
     \/ brCall = "shot" /\ brReply \in {"none", "sent"} /\ \A j \in Replies : i < j
LateSeen ==
  brTruth.late => brMemory.late \/ brMemory.problem \/ \E i \in DOMAIN brChannel : Pending(i)

\* So is a call that failed.
UnfitSeen ==
  brTruth.unfit => \/ brMemory.problem \/ brReply = "failed"
                   \/ \E j \in Replies : ~brChannel[j].ok

\* Steps need readiness, and a screenshot without it is a problem.
Readiness ==
  /\ brCall = "step" => brFlag
  /\ brCall = "shot" => brFlag \/ brMemory.problem

\* The viewports that are done have their screenshots.
ShotsTaken ==
  /\ \A v \in {1, 2} : v < brView \/ (v = brView /\ brCall = "close") =>
       v \in brTruth.shots /\ brDisk.shots[v] = brNumber
  /\ brCall = "shot" /\ brReply # "none" => brView \in brTruth.shots

WhileRunning ==
  brPc = "running" =>
    /\ OneReply /\ LateSeen /\ UnfitSeen /\ Readiness /\ ShotsTaken
    /\ brTruth.blocked => brMemory.problem

\* What a collection without a problem has left.
Good ==
  /\ ~brTruth.unfit /\ ~brTruth.blocked /\ brTruth.shots = {1, 2}
  /\ \A v \in {1, 2} : brDisk.shots[v] = brNumber
  /\ brDisk.console.by = brNumber /\ brDisk.interaction.by = brNumber
  /\ brTruth.late => brDisk.console.late
WhenJudged ==
  /\ brPc = "judge" /\ ~brMemory.problem => Good
  /\ brPc = "collected" /\ ~brManifest => Good
  /\ brVerdict # "none" => brPc = "collected"
  /\ brVerdict = "PASS" => ~brManifest /\ ~brDisk.console.late

BrowserInv == BrowserTypes /\ WhileRunning /\ WhenJudged

\* Nothing has been collected in the beginning.
LEMMA BrowserInitInv == BRInit => BrowserInv
<1> SUFFICES ASSUME BRInit PROVE BrowserInv
  OBVIOUS
<1>1. NoMemory \in Memories /\ NoTruth \in Truths
  BY DEF NoMemory, Memories, NoTruth, Truths
<1>2. NoDisk \in Disks
  <2>1. DOMAIN Views = {1, 2}
    BY DEF Views
  <2> QED
    BY <2>1 DEF NoDisk, Disks
<1>3. BrowserTypes
  BY <1>1, <1>2, EmptySeq DEF BRInit, BrowserTypes, Calls
<1>4. WhileRunning /\ WhenJudged
  BY DEF BRInit, WhileRunning, WhenJudged
<1> QED
  BY <1>3, <1>4 DEF BrowserInv

-----------------------------------------------------------------------------
(* BrowserRun: the channel.                                                  *)

\* A message is sent.
LEMMA Sent ==
  ASSUME BrowserTypes, NEW m \in Messages, brChannel' = Append(brChannel, m)
  PROVE  /\ brChannel' \in Seq(Messages) /\ Len(brChannel) \in Nat
         /\ DOMAIN brChannel = 1 .. Len(brChannel) /\ DOMAIN brChannel' = 1 .. Len(brChannel) + 1
         /\ \A i \in DOMAIN brChannel : brChannel'[i] = brChannel[i]
         /\ brChannel'[Len(brChannel) + 1] = m
         /\ Replies' = Replies \cup (IF m.kind = "reply" THEN {Len(brChannel) + 1} ELSE {})
<1>1. /\ brChannel' \in Seq(Messages) /\ Len(brChannel) \in Nat
      /\ DOMAIN brChannel = 1 .. Len(brChannel) /\ DOMAIN brChannel' = 1 .. Len(brChannel) + 1
      /\ \A i \in DOMAIN brChannel : brChannel'[i] = brChannel[i]
      /\ brChannel'[Len(brChannel) + 1] = m
  BY DEF BrowserTypes
<1>2. \A i : i \in Replies' <=> i \in Replies \/ (i = Len(brChannel) + 1 /\ m.kind = "reply")
  BY <1>1 DEF Replies
<1>3. Replies' = Replies \cup (IF m.kind = "reply" THEN {Len(brChannel) + 1} ELSE {})
  BY <1>2
<1> QED
  BY <1>1, <1>3

\* A message is received.
LEMMA Received ==
  ASSUME BrowserTypes, brChannel # <<>>, brChannel' = Tail(brChannel)
  PROVE  /\ brChannel' \in Seq(Messages) /\ Head(brChannel) \in Messages
         /\ 1 \in DOMAIN brChannel /\ Head(brChannel) = brChannel[1]
         /\ DOMAIN brChannel \subseteq Nat \ {0} /\ DOMAIN brChannel' \subseteq Nat \ {0}
         /\ \A i \in DOMAIN brChannel' : i + 1 \in DOMAIN brChannel /\ brChannel'[i] = brChannel[i + 1]
         /\ \A i \in DOMAIN brChannel \ {1} : i - 1 \in DOMAIN brChannel'
<1>1. brChannel \in Seq(Messages) /\ Len(brChannel) \in Nat \ {0} /\ DOMAIN brChannel = 1 .. Len(brChannel)
  BY EmptySeq DEF BrowserTypes
<1>2. brChannel' \in Seq(Messages) /\ Len(brChannel') = Len(brChannel) - 1
      /\ DOMAIN brChannel' = 1 .. Len(brChannel) - 1
      /\ \A i \in 1 .. Len(brChannel) - 1 : brChannel'[i] = brChannel[i + 1]
  BY <1>1, HeadTailProperties
<1>3. Head(brChannel) = brChannel[1] /\ brChannel[1] \in Messages
  BY <1>1, ElementOfSeq
<1> QED
  BY <1>1, <1>2, <1>3

-----------------------------------------------------------------------------
(* BrowserRun: the types.                                                    *)

\* Every step keeps them.
LEMMA BrowserNextTypes == BrowserTypes /\ [BRNext]_brVars => BrowserTypes'
<1> SUFFICES ASSUME BrowserTypes, [BRNext]_brVars PROVE BrowserTypes'
  OBVIOUS
<1> USE DEF BrowserTypes, brKept, brPlace, Came, Call, Calls
<1>0. /\ NoMemory \in Memories /\ [NoMemory EXCEPT !.problem = TRUE] \in Memories /\ NoTruth \in Truths
      /\ Failed \in Memories
  BY DEF NoMemory, Memories, NoTruth, Truths, Failed
<1>1. CASE Collect
  <2>1. brMemory' \in Memories /\ brPc' \in {"running", "judge"}
    BY <1>0, <1>1 DEF Collect, Starts, ScenarioRefused, SetupRefused, Barred
  <2>2. /\ brNumber' \in Nat /\ brView' = 1 /\ brCall' = "goto" /\ brReply' = "none" /\ brChannel' = <<>>
        /\ brFlag' = FALSE /\ brTruth' \in Truths /\ brVerdict' = "none" /\ UNCHANGED <<brDisk, brManifest>>
    BY <1>0, <1>1 DEF Collect
  <2> QED
    BY <2>1, <2>2, EmptySeq
<1>2. CASE PageError
  <2>1. [kind |-> "error", ok |-> FALSE] \in Messages
    BY DEF Messages
  <2>2. brTruth' \in Truths
    BY <1>2 DEF PageError, Truths
  <2> QED
    BY <1>2, <2>1, <2>2, Sent DEF PageError, Send
<1>3. ASSUME NEW allowed \in BOOLEAN, PageRequest(allowed) PROVE BrowserTypes'
  <2>1. [kind |-> "request", ok |-> allowed] \in Messages
    BY DEF Messages
  <2> QED
    BY <1>3, <2>1, Sent DEF PageRequest, Send
<1>4. ASSUME NEW ok \in BOOLEAN, AnswerCall(ok) PROVE BrowserTypes'
  <2>1. [kind |-> "reply", ok |-> ok] \in Messages
    BY DEF Messages
  <2>2. brTruth' \in Truths
    BY <1>4 DEF AnswerCall, Truths
  <2> QED
    BY <1>4, <2>1, <2>2, Sent DEF AnswerCall, Send
<1>5. CASE OnConsole
  <2>1. brMemory' \in Memories
    BY <1>5 DEF OnConsole, Memories
  <2> QED
    BY <1>5, <2>1, Received DEF OnConsole, Receive
<1>6. CASE OnRequest
  <2>1. Head(brChannel).ok \in BOOLEAN /\ brChannel' \in Seq(Messages)
    BY <1>6, Received DEF OnRequest, Receive, Messages
  <2>2. brMemory' \in Memories /\ brTruth' \in Truths
    BY <1>6, <2>1 DEF OnRequest, Noted, Blocks, Memories, Truths
  <2> QED
    BY <1>6, <2>1, <2>2 DEF OnRequest
<1>7. CASE TakeReply
  BY <1>7, Received DEF TakeReply, Receive
<1>8. CASE Navigated \/ BecameReady \/ NotReady
  BY <1>0, <1>8 DEF Navigated, BecameReady, NotReady
<1>9. ASSUME NEW unsafe \in BOOLEAN, StepDone(unsafe) PROVE BrowserTypes'
  <2>1. (IF brReply = "failed" THEN Failed ELSE brMemory) \in Memories
    BY <1>0
  <2>2. brMemory' \in Memories /\ brTruth' \in Truths
    BY <1>9, <2>1 DEF StepDone, Memories, Truths
  <2> QED
    BY <1>9, <2>2 DEF StepDone
<1>10. CASE ScreenshotTaken
  <2>1. brDisk' \in Disks
    BY <1>10 DEF ScreenshotTaken, Disks
  <2> QED
    BY <1>10, <2>1 DEF ScreenshotTaken
<1>11. CASE ContextClosed
  <2>1. Len(Views) = 2
    BY DEF Views
  <2>2. brView' \in {1, 2} /\ brPc' \in {"running", "judge"}
    BY <1>11, <2>1 DEF ContextClosed
  <2>3. brDisk' \in Disks
    <3>1. CASE brDisk' = brDisk
      BY <3>1
    <3>2. CASE brDisk' = [brDisk EXCEPT
                 !.console = [by |-> brNumber, late |-> brMemory.late],
                 !.interaction = [by |-> brNumber, failed |-> brMemory.failed, blocked |-> brMemory.blocked]]
      <4>1. brMemory.late \in BOOLEAN /\ brMemory.failed \in BOOLEAN /\ brMemory.blocked \in BOOLEAN
        BY DEF Memories
      <4> QED
        BY <3>2, <4>1 DEF Disks
    <3> QED
      BY <1>11, <3>1, <3>2 DEF ContextClosed
  <2> QED
    BY <1>11, <2>2, <2>3 DEF ContextClosed
<1>12. CASE ScenarioRaises
  BY <1>0, <1>12 DEF ScenarioRaises
<1>13. CASE JudgeCollection
  <2>1. (brMemory.problem \/ DiskBad) \in BOOLEAN
    BY DEF Memories, DiskBad, Disks, ShotMissing, ConsoleBad, InteractionBad, RequestsBlocked
  <2> QED
    BY <1>13, <2>1 DEF JudgeCollection
<1>14. CASE StrictBrowserRun
  BY <1>14 DEF StrictBrowserRun
<1>15. CASE UNCHANGED brVars
  BY <1>15 DEF brVars
<1> QED
  BY <1>1, <1>2, <1>3, <1>4, <1>5, <1>6, <1>7, <1>8, <1>9, <1>10, <1>11, <1>12, <1>13, <1>14, <1>15 DEF BRNext

-----------------------------------------------------------------------------
(* BrowserRun: while a scenario runs.                                        *)

\* The browser's messages.
LEMMA BrowserSends ==
  ASSUME BrowserTypes, WhileRunning,
         PageError \/ PageRequest(TRUE) \/ PageRequest(FALSE) \/ AnswerCall(TRUE) \/ AnswerCall(FALSE)
  PROVE  WhileRunning'
<1> USE DEF brKept, brPlace
<1>0. /\ brPc = "running" /\ OneReply /\ LateSeen /\ UnfitSeen /\ Readiness /\ ShotsTaken
      /\ brTruth.blocked => brMemory.problem
      /\ UNCHANGED <<brPc, brNumber, brView, brCall, brFlag, brMemory, brDisk>>
  BY DEF WhileRunning, PageError, PageRequest, AnswerCall, Send
<1>1. CASE PageError
  <2>1. brChannel' = Append(brChannel, [kind |-> "error", ok |-> FALSE]) /\ UNCHANGED brReply
    BY <1>1 DEF PageError, Send
  <2>2. [kind |-> "error", ok |-> FALSE] \in Messages
    BY DEF Messages
  <2>3. /\ Len(brChannel) \in Nat /\ DOMAIN brChannel = 1 .. Len(brChannel)
        /\ DOMAIN brChannel' = 1 .. Len(brChannel) + 1
        /\ \A i \in DOMAIN brChannel : brChannel'[i] = brChannel[i]
        /\ brChannel'[Len(brChannel) + 1] = [kind |-> "error", ok |-> FALSE] /\ Replies' = Replies
    BY <2>1, <2>2, Sent
  <2>4. /\ brTruth'.unfit = brTruth.unfit /\ brTruth'.blocked = brTruth.blocked /\ brTruth'.shots = brTruth.shots
        /\ brTruth'.late = (brTruth.late \/ (brCall \in {"step", "shot"} /\ brView \notin brTruth.shots))
    BY <1>1 DEF PageError, BrowserTypes, Truths
  <2>5. \A i \in DOMAIN brChannel : Pending(i) => Pending(i)'
    BY <1>0, <2>1, <2>3 DEF Pending
  <2>6. CASE ~brTruth.late /\ brCall \in {"step", "shot"} /\ brView \notin brTruth.shots
    <3>1. brMemory.problem \/ brFlag
      BY <1>0, <2>6 DEF Readiness
    <3>2. brCall = "shot" => brReply = "none" /\ Replies' = {}
      BY <1>0, <2>3, <2>6 DEF ShotsTaken, OneReply
    <3>3. PICK n \in DOMAIN brChannel' : brChannel'[n].kind = "error"
      BY <2>3
    <3>4. brFlag => Pending(n)'
      BY <1>0, <2>1, <2>6, <3>2, <3>3 DEF Pending
    <3>5. LateSeen'
      BY <1>0, <3>1, <3>4 DEF LateSeen
    <3> QED
      BY <1>0, <2>1, <2>3, <2>4, <3>5
         DEF WhileRunning, OneReply, UnfitSeen, Readiness, ShotsTaken, Replies
  <2>7. CASE ~(~brTruth.late /\ brCall \in {"step", "shot"} /\ brView \notin brTruth.shots)
    <3>1. brTruth'.late => brTruth.late
      BY <2>4, <2>7
    <3>2. LateSeen'
      BY <1>0, <2>3, <2>5, <3>1 DEF LateSeen
    <3> QED
      BY <1>0, <2>1, <2>3, <2>4, <3>2
         DEF WhileRunning, OneReply, UnfitSeen, Readiness, ShotsTaken, Replies
  <2> QED
    BY <2>6, <2>7
<1>2. ASSUME NEW allowed \in BOOLEAN, PageRequest(allowed) PROVE WhileRunning'
  <2>1. brChannel' = Append(brChannel, [kind |-> "request", ok |-> allowed]) /\ UNCHANGED <<brReply, brTruth>>
    BY <1>2 DEF PageRequest, Send
  <2>2. [kind |-> "request", ok |-> allowed] \in Messages
    BY DEF Messages
  <2>3. /\ Len(brChannel) \in Nat /\ DOMAIN brChannel = 1 .. Len(brChannel)
        /\ DOMAIN brChannel' = 1 .. Len(brChannel) + 1
        /\ \A i \in DOMAIN brChannel : brChannel'[i] = brChannel[i]
        /\ Replies' = Replies
    BY <2>1, <2>2, Sent
  <2>4. \A i \in DOMAIN brChannel : Pending(i) => Pending(i)'
    BY <1>0, <2>1, <2>3 DEF Pending
  <2>5. LateSeen'
    BY <1>0, <2>1, <2>3, <2>4 DEF LateSeen
  <2> QED
    BY <1>0, <2>1, <2>3, <2>5 DEF WhileRunning, OneReply, UnfitSeen, Readiness, ShotsTaken, Replies
<1>3. ASSUME NEW ok \in BOOLEAN, AnswerCall(ok) PROVE WhileRunning'
  <2>1. /\ brChannel' = Append(brChannel, [kind |-> "reply", ok |-> ok])
        /\ brReply = "none" /\ brReply' = "sent"
    BY <1>3 DEF AnswerCall, Send
  <2>2. [kind |-> "reply", ok |-> ok] \in Messages
    BY DEF Messages
  <2>3. /\ Len(brChannel) \in Nat /\ DOMAIN brChannel = 1 .. Len(brChannel)
        /\ DOMAIN brChannel' = 1 .. Len(brChannel) + 1
        /\ \A i \in DOMAIN brChannel : brChannel'[i] = brChannel[i]
        /\ brChannel'[Len(brChannel) + 1].ok = ok
        /\ Replies = {} /\ Replies' = {Len(brChannel) + 1}
    BY <1>0, <2>1, <2>2, Sent DEF OneReply
  <2>4. /\ brTruth'.unfit = (brTruth.unfit \/ ~ok) /\ brTruth'.blocked = brTruth.blocked
        /\ brTruth'.late = brTruth.late
        /\ brTruth'.shots = (IF brCall = "shot" THEN brTruth.shots \cup {brView} ELSE brTruth.shots)
    BY <1>3 DEF AnswerCall, BrowserTypes, Truths
  <2>5. \A i \in DOMAIN brChannel : Pending(i) => Pending(i)'
    BY <1>0, <2>1, <2>3 DEF Pending
  <2>6. LateSeen'
    BY <1>0, <2>3, <2>4, <2>5 DEF LateSeen
  <2>7. UnfitSeen'
    BY <1>0, <2>1, <2>3, <2>4 DEF UnfitSeen
  <2>8. ShotsTaken'
    BY <1>0, <2>1, <2>4 DEF ShotsTaken
  <2> QED
    BY <1>0, <2>1, <2>3, <2>4, <2>6, <2>7, <2>8 DEF WhileRunning, OneReply, Readiness
<1> QED
  BY <1>1, <1>2, <1>3

\* The script handles a message.
LEMMA ScriptReceives ==
  ASSUME BrowserTypes, WhileRunning, OnConsole \/ OnRequest \/ TakeReply
  PROVE  WhileRunning'
<1> USE DEF brKept, brPlace
<1>0. /\ brPc = "running" /\ OneReply /\ LateSeen /\ UnfitSeen /\ Readiness /\ ShotsTaken
      /\ brTruth.blocked => brMemory.problem
      /\ UNCHANGED <<brPc, brNumber, brView, brCall, brFlag, brDisk>>
      /\ brChannel # <<>> /\ brChannel' = Tail(brChannel)
  BY DEF WhileRunning, OnConsole, OnRequest, TakeReply, Receive
<1>1. /\ 1 \in DOMAIN brChannel /\ Head(brChannel) = brChannel[1] /\ Head(brChannel) \in Messages
      /\ DOMAIN brChannel \subseteq Nat \ {0} /\ DOMAIN brChannel' \subseteq Nat \ {0}
      /\ \A i \in DOMAIN brChannel' : i + 1 \in DOMAIN brChannel /\ brChannel'[i] = brChannel[i + 1]
      /\ \A i \in DOMAIN brChannel \ {1} : i - 1 \in DOMAIN brChannel'
  BY <1>0, Received
<1>2. \A i \in Replies' : i + 1 \in Replies /\ i + 1 # 1 /\ i \in Nat
  BY <1>1 DEF Replies
<1>3. \A i \in Replies \ {1} : i - 1 \in Replies' /\ brChannel'[i - 1] = brChannel[i]
  <2> TAKE i \in Replies \ {1}
  <2>1. i \in DOMAIN brChannel \ {1} /\ i \in Nat
    BY <1>1 DEF Replies
  <2>2. i - 1 \in DOMAIN brChannel' /\ brChannel'[i - 1] = brChannel[i]
    BY <1>1, <2>1
  <2> QED
    BY <2>2 DEF Replies
<1>4. ASSUME NEW i \in DOMAIN brChannel, i # 1, Pending(i), brReply' = brReply
      PROVE  i - 1 \in DOMAIN brChannel' /\ Pending(i - 1)'
  <2>1. i - 1 \in DOMAIN brChannel' /\ i \in Nat /\ brChannel'[i - 1] = brChannel[i]
    BY <1>1, <1>4
  <2>2. ASSUME NEW j \in Replies', \A k \in Replies : i < k PROVE i - 1 < j
    BY <1>2, <2>1, <2>2
  <2> QED
    BY <1>0, <1>4, <2>1, <2>2 DEF Pending
<1>5. \A i, j \in Replies' : i = j
  <2> TAKE i, j \in Replies'
  <2>1. i + 1 = j + 1 /\ i \in Nat /\ j \in Nat
    BY <1>0, <1>2 DEF OneReply
  <2> QED
    BY <2>1
<1>6. CASE OnConsole
  <2>1. /\ UNCHANGED <<brReply, brTruth>> /\ brChannel[1].kind = "error" /\ 1 \notin Replies
        /\ brMemory'.problem = brMemory.problem /\ brMemory'.late = (brMemory.late \/ brFlag)
    BY <1>1, <1>6 DEF OnConsole, Receive, BrowserTypes, Memories, Replies
  <2>2. LateSeen'
    <3>1. ASSUME NEW i \in DOMAIN brChannel, Pending(i)
          PROVE  brMemory'.late \/ \E k \in DOMAIN brChannel' : Pending(k)'
      <4>1. CASE i = 1
        BY <2>1, <3>1 DEF Pending
      <4>2. CASE i # 1
        BY <1>4, <2>1, <3>1, <4>2
      <4> QED
        BY <4>1, <4>2
    <3> QED
      BY <1>0, <2>1, <3>1 DEF LateSeen
  <2>3. OneReply'
    BY <1>0, <1>2, <1>5, <2>1 DEF OneReply
  <2>4. UnfitSeen'
    BY <1>0, <1>3, <2>1 DEF UnfitSeen
  <2> QED
    BY <1>0, <2>1, <2>2, <2>3, <2>4 DEF WhileRunning, Readiness, ShotsTaken
<1>7. CASE OnRequest
  <2>1. /\ UNCHANGED brReply /\ brChannel[1].kind = "request" /\ 1 \notin Replies
        /\ brMemory'.late = brMemory.late
        /\ brMemory'.problem = (brMemory.problem \/ ~Head(brChannel).ok)
        /\ brTruth'.late = brTruth.late /\ brTruth'.unfit = brTruth.unfit /\ brTruth'.shots = brTruth.shots
        /\ brTruth'.blocked = (brTruth.blocked \/ ~Head(brChannel).ok)
    BY <1>1, <1>7 DEF OnRequest, Receive, Noted, Blocks, BrowserTypes, Memories, Truths, Replies
  <2>2. LateSeen'
    <3>1. ASSUME NEW i \in DOMAIN brChannel, Pending(i)
          PROVE  \E k \in DOMAIN brChannel' : Pending(k)'
      <4>1. i # 1
        BY <2>1, <3>1 DEF Pending
      <4> QED
        BY <1>4, <2>1, <3>1, <4>1
    <3> QED
      BY <1>0, <2>1, <3>1 DEF LateSeen
  <2>3. OneReply'
    BY <1>0, <1>2, <1>5, <2>1 DEF OneReply
  <2>4. UnfitSeen'
    BY <1>0, <1>3, <2>1 DEF UnfitSeen
  <2> QED
    BY <1>0, <2>1, <2>2, <2>3, <2>4 DEF WhileRunning, Readiness, ShotsTaken
<1>8. CASE TakeReply
  <2>1. /\ UNCHANGED <<brMemory, brTruth>> /\ 1 \in Replies
        /\ brReply' = IF brChannel[1].ok THEN "ok" ELSE "failed"
    BY <1>1, <1>8 DEF TakeReply, Receive, Replies
  <2>2. Replies = {1} /\ Replies' = {} /\ brReply = "sent"
    BY <1>0, <1>2, <2>1 DEF OneReply
  <2>3. ASSUME brCall = "shot", NEW i \in DOMAIN brChannel PROVE ~Pending(i)
    <3>1. i >= 1
      BY <1>1, <2>3
    <3> QED
      BY <1>1, <2>2, <2>3, <3>1 DEF Pending
  <2>4. ASSUME brCall = "step", NEW i \in DOMAIN brChannel, Pending(i)
        PROVE  \E k \in DOMAIN brChannel' : Pending(k)'
    <3>1. i # 1 /\ i \in Nat
      BY <1>1, <2>1, <2>4 DEF Pending, Replies
    <3>2. i - 1 \in DOMAIN brChannel' /\ brChannel'[i - 1] = brChannel[i]
      BY <1>1, <3>1
    <3>3. Pending(i - 1)'
      BY <1>0, <2>4, <3>2 DEF Pending
    <3> QED
      BY <3>2, <3>3
  <2>5. LateSeen'
    BY <1>0, <2>1, <2>3, <2>4 DEF LateSeen, Pending
  <2>6. UnfitSeen'
    BY <1>0, <2>1, <2>2 DEF UnfitSeen
  <2>7. brReply # "none" /\ brReply' # "sent"
    BY <2>1, <2>2
  <2> QED
    BY <1>0, <2>1, <2>2, <2>5, <2>6, <2>7 DEF WhileRunning, OneReply, Readiness, ShotsTaken
<1> QED
  BY <1>6, <1>7, <1>8

\* The script makes its next call.
LEMMA ScriptCalls ==
  ASSUME BrowserTypes, WhileRunning,
         Navigated \/ BecameReady \/ NotReady \/ StepDone(TRUE) \/ StepDone(FALSE) \/ ScreenshotTaken
  PROVE  WhileRunning'
<1> USE DEF brKept, brPlace, Came, Call
<1>0. /\ brPc = "running" /\ OneReply /\ LateSeen /\ UnfitSeen /\ Readiness /\ ShotsTaken
      /\ brTruth.blocked => brMemory.problem
      /\ UNCHANGED <<brPc, brNumber, brView, brChannel>> /\ brReply \in {"ok", "failed"} /\ brReply' = "none"
  BY DEF WhileRunning, Navigated, BecameReady, NotReady, StepDone, ScreenshotTaken
<1>1. Replies = {} /\ Replies' = {}
  BY <1>0 DEF OneReply, Replies
<1>2. OneReply'
  BY <1>1 DEF OneReply
<1>3. CASE Navigated \/ BecameReady
  <2>1. /\ UNCHANGED <<brMemory, brDisk, brTruth>> /\ brReply = "ok" /\ brCall \in {"goto", "ready"}
        /\ brCall' \in {"ready", "step"} /\ (brCall' = "step" => brFlag')
    BY <1>3 DEF Navigated, BecameReady
  <2>2. LateSeen'
    BY <1>0, <2>1 DEF LateSeen, Pending
  <2> QED
    BY <1>0, <1>1, <1>2, <2>1, <2>2 DEF WhileRunning, UnfitSeen, Readiness, ShotsTaken
<1>4. CASE NotReady
  <2>1. /\ UNCHANGED <<brDisk, brTruth, brFlag>> /\ brCall \in {"goto", "ready"} /\ brCall' = "shot"
        /\ brMemory' = Failed
    BY <1>4 DEF NotReady
  <2>2. brMemory'.problem
    BY <2>1 DEF Failed, BrowserTypes, Memories
  <2>3. ShotsTaken'
    BY <1>0, <2>1 DEF ShotsTaken
  <2> QED
    BY <1>0, <1>2, <2>1, <2>2, <2>3 DEF WhileRunning, LateSeen, UnfitSeen, Readiness
<1>5. ASSUME NEW unsafe \in BOOLEAN, StepDone(unsafe) PROVE WhileRunning'
  <2>1. /\ UNCHANGED <<brDisk, brFlag>> /\ brCall = "step" /\ brCall' \in {"step", "shot"}
        /\ brMemory' = [(IF brReply = "failed" THEN Failed ELSE brMemory) EXCEPT !.problem = @ \/ unsafe]
        /\ brTruth' = [brTruth EXCEPT !.blocked = @ \/ unsafe]
    BY <1>5 DEF StepDone
  <2>2. /\ brMemory'.late = brMemory.late
        /\ brMemory'.problem = (brMemory.problem \/ brReply = "failed" \/ unsafe)
    BY <2>1 DEF Failed, BrowserTypes, Memories
  <2>3. /\ brTruth'.late = brTruth.late /\ brTruth'.unfit = brTruth.unfit /\ brTruth'.shots = brTruth.shots
        /\ brTruth'.blocked = (brTruth.blocked \/ unsafe)
    BY <2>1 DEF BrowserTypes, Truths
  <2>4. brFlag
    BY <1>0, <2>1 DEF Readiness
  <2>5. \A i \in DOMAIN brChannel : Pending(i) => Pending(i)'
    BY <1>0, <1>1, <2>1, <2>4 DEF Pending
  <2>6. LateSeen'
    BY <1>0, <2>2, <2>3, <2>5 DEF LateSeen
  <2>7. UnfitSeen'
    BY <1>0, <1>1, <2>2, <2>3 DEF UnfitSeen
  <2>8. ShotsTaken'
    BY <1>0, <2>1, <2>3 DEF ShotsTaken
  <2> QED
    BY <1>0, <1>2, <2>1, <2>2, <2>3, <2>4, <2>6, <2>7, <2>8 DEF WhileRunning, Readiness
<1>6. CASE ScreenshotTaken
  <2>1. /\ UNCHANGED <<brMemory, brTruth, brFlag>> /\ brCall = "shot" /\ brReply = "ok" /\ brCall' = "close"
        /\ brDisk' = [brDisk EXCEPT !.shots[brView] = brNumber]
    BY <1>6 DEF ScreenshotTaken
  <2>2. brDisk'.shots[brView] = brNumber /\ \A v \in {1, 2} \ {brView} : brDisk'.shots[v] = brDisk.shots[v]
    BY <2>1 DEF BrowserTypes, Disks
  <2>3. LateSeen'
    BY <1>0, <2>1 DEF LateSeen, Pending
  <2>4. ShotsTaken'
    BY <1>0, <2>1, <2>2 DEF ShotsTaken, BrowserTypes
  <2> QED
    BY <1>0, <1>1, <1>2, <2>1, <2>3, <2>4 DEF WhileRunning, UnfitSeen, Readiness
<1> QED
  BY <1>3, <1>4, <1>5, <1>6

-----------------------------------------------------------------------------
(* BrowserRun: the end of a viewport, and the verdict.                       *)

\* Before its context is closed a viewport has accounted for everything.
LEMMA ClosingAccounts ==
  ASSUME BrowserTypes, WhileRunning, Came("close", "ok")
  PROVE  /\ OneReply /\ Replies = {} /\ (brTruth.late => brMemory.late \/ brMemory.problem)
         /\ brTruth.unfit \/ brTruth.blocked => brMemory.problem
         /\ \A v \in {1, 2} : v <= brView => v \in brTruth.shots /\ brDisk.shots[v] = brNumber
<1>1. brPc = "running" /\ brCall = "close" /\ brReply = "ok"
  BY DEF Came
<1>2. OneReply /\ Replies = {}
  BY <1>1 DEF WhileRunning, OneReply
<1>3. brTruth.late => brMemory.late \/ brMemory.problem
  BY <1>1 DEF WhileRunning, LateSeen, Pending
<1>4. brTruth.unfit \/ brTruth.blocked => brMemory.problem
  BY <1>1, <1>2 DEF WhileRunning, UnfitSeen
<1>5. \A v \in {1, 2} : v <= brView => v \in brTruth.shots /\ brDisk.shots[v] = brNumber
  BY <1>1 DEF WhileRunning, ShotsTaken, BrowserTypes
<1> QED
  BY <1>2, <1>3, <1>4, <1>5

\* So the next viewport begins with nothing open, and after the last one a
\* collection without a problem is good.
LEMMA ContextClosedInv ==
  ASSUME BrowserTypes, WhileRunning, WhenJudged, ContextClosed
  PROVE  WhileRunning' /\ WhenJudged'
<1> USE DEF brKept, brPlace, Came, Call
<1>1. /\ OneReply /\ Replies = {} /\ (brTruth.late => brMemory.late \/ brMemory.problem)
      /\ brTruth.unfit \/ brTruth.blocked => brMemory.problem
      /\ \A v \in {1, 2} : v <= brView => v \in brTruth.shots /\ brDisk.shots[v] = brNumber
  BY ClosingAccounts DEF ContextClosed
<1>2. /\ UNCHANGED <<brNumber, brVerdict, brManifest, brChannel, brMemory, brTruth>> /\ brPc = "running"
      /\ brCall' = "goto" /\ brReply' = "none" /\ Len(Views) = 2 /\ brView \in {1, 2}
  BY DEF ContextClosed, Views, BrowserTypes
<1>3. CASE brView < Len(Views)
  <2>1. brView = 1 /\ brView' = 2 /\ UNCHANGED <<brPc, brDisk>>
    BY <1>2, <1>3 DEF ContextClosed
  <2>2. OneReply' /\ LateSeen' /\ UnfitSeen' /\ Readiness'
    BY <1>1, <1>2 DEF OneReply, Replies, LateSeen, UnfitSeen, Readiness
  <2>3. ShotsTaken'
    BY <1>1, <1>2, <2>1 DEF ShotsTaken
  <2> QED
    BY <1>1, <1>2, <2>1, <2>2, <2>3 DEF WhileRunning, WhenJudged
<1>4. CASE ~(brView < Len(Views))
  <2>1. /\ brView = 2 /\ brPc' = "judge"
        /\ brDisk' = [brDisk EXCEPT
             !.console = [by |-> brNumber, late |-> brMemory.late],
             !.interaction = [by |-> brNumber, failed |-> brMemory.failed, blocked |-> brMemory.blocked]]
    BY <1>2, <1>4 DEF ContextClosed
  <2>2. /\ brDisk'.shots = brDisk.shots /\ brDisk'.console.by = brNumber /\ brDisk'.interaction.by = brNumber
        /\ brDisk'.console.late = brMemory.late
    BY <2>1 DEF BrowserTypes, Disks
  <2>3. brTruth.shots = {1, 2} /\ \A v \in {1, 2} : brDisk'.shots[v] = brNumber
    BY <1>1, <2>1, <2>2 DEF BrowserTypes, Truths
  <2>4. ~brMemory.problem => Good'
    BY <1>1, <1>2, <2>2, <2>3 DEF Good
  <2> QED
    BY <1>2, <2>1, <2>4 DEF WhileRunning, WhenJudged
<1> QED
  BY <1>3, <1>4

\* Every step keeps the invariant.
LEMMA BrowserNextInv == BrowserInv /\ [BRNext]_brVars => BrowserInv'
<1> SUFFICES ASSUME BrowserInv, [BRNext]_brVars PROVE BrowserInv'
  OBVIOUS
<1>0. BrowserTypes /\ WhileRunning /\ WhenJudged /\ BrowserTypes'
  BY BrowserNextTypes DEF BrowserInv
<1> SUFFICES WhileRunning' /\ WhenJudged'
  BY <1>0 DEF BrowserInv
<1> USE DEF brKept, brPlace
<1>1. CASE Collect
  <2>1. /\ brVerdict' = "none" /\ brView' = 1 /\ brCall' = "goto" /\ brReply' = "none" /\ brChannel' = <<>>
        /\ brTruth' = NoTruth /\ brPc' \in {"running", "judge"} /\ (brPc' = "judge" => brMemory'.problem)
    BY <1>1 DEF Collect, Starts, ScenarioRefused, SetupRefused, Barred, NoMemory
  <2>2. Replies' = {}
    BY <2>1 DEF Replies
  <2>3. WhileRunning'
    BY <2>1, <2>2
       DEF WhileRunning, OneReply, LateSeen, UnfitSeen, Readiness, ShotsTaken, NoTruth
  <2> QED
    BY <2>1, <2>3 DEF WhenJudged
<1>2. CASE PageError \/ PageRequest(TRUE) \/ PageRequest(FALSE) \/ AnswerCall(TRUE) \/ AnswerCall(FALSE)
  <2>1. brPc = "running" /\ UNCHANGED <<brPc, brVerdict>>
    BY <1>2 DEF PageError, PageRequest, AnswerCall, Send
  <2> QED
    BY <1>0, <1>2, <2>1, BrowserSends DEF WhenJudged
<1>3. CASE OnConsole \/ OnRequest \/ TakeReply
  <2>1. brPc = "running" /\ UNCHANGED <<brPc, brVerdict>>
    BY <1>3 DEF OnConsole, OnRequest, TakeReply, Receive
  <2> QED
    BY <1>0, <1>3, <2>1, ScriptReceives DEF WhenJudged
<1>4. CASE Navigated \/ BecameReady \/ NotReady \/ StepDone(TRUE) \/ StepDone(FALSE) \/ ScreenshotTaken
  <2>1. brPc = "running" /\ UNCHANGED <<brPc, brVerdict>>
    BY <1>4 DEF Navigated, BecameReady, NotReady, StepDone, ScreenshotTaken, Came
  <2> QED
    BY <1>0, <1>4, <2>1, ScriptCalls DEF WhenJudged
<1>5. CASE ContextClosed
  BY <1>0, <1>5, ContextClosedInv
<1>6. CASE ScenarioRaises
  <2>1. /\ brPc = "running" /\ brPc' = "judge" /\ UNCHANGED brVerdict
        /\ brMemory' = [NoMemory EXCEPT !.problem = TRUE]
    BY <1>6 DEF ScenarioRaises, Came
  <2>2. brMemory'.problem
    BY <2>1 DEF NoMemory
  <2> QED
    BY <1>0, <2>1, <2>2 DEF WhileRunning, WhenJudged
<1>7. CASE JudgeCollection
  <2>1. /\ brPc = "judge" /\ brPc' = "collected" /\ brManifest' = (brMemory.problem \/ DiskBad)
        /\ UNCHANGED <<brNumber, brVerdict, brDisk, brTruth>>
    BY <1>7 DEF JudgeCollection
  <2> QED
    BY <1>0, <2>1 DEF WhileRunning, WhenJudged, Good
<1>8. CASE StrictBrowserRun
  <2>1. /\ brPc = "collected" /\ brVerdict' = (IF brManifest \/ DiskBad THEN "FAIL" ELSE "PASS")
        /\ UNCHANGED <<brPc, brNumber, brManifest, brDisk, brTruth>>
    BY <1>8 DEF StrictBrowserRun
  <2>2. brDisk.console.late => DiskBad
    BY DEF DiskBad, ConsoleBad
  <2> QED
    BY <1>0, <2>1, <2>2 DEF WhileRunning, WhenJudged, Good
<1>9. CASE UNCHANGED brVars
  BY <1>0, <1>9
     DEF brVars, WhileRunning, WhenJudged, OneReply, LateSeen, UnfitSeen, Readiness, ShotsTaken, Replies, Pending,
         Good
<1> QED
  BY <1>1, <1>2, <1>3, <1>4, <1>5, <1>6, <1>7, <1>8, <1>9 DEF BRNext

-----------------------------------------------------------------------------
(* The theorems about BrowserRun.                                             *)

\* The invariant holds in every reachable state.
LEMMA BrowserInvariant == BRSpec => []BrowserInv
BY BrowserInitInv, BrowserNextInv, PTL DEF BRSpec

\* A strict PASS has missed no console error between readiness and screenshot,
\* however late the script handled its message and however many messages were
\* under way (browser_playwright.py's on_console and page_ready).
THEOREM NoErrorIsLate == BRSpec => []NoLateError
<1>1. BrowserInv => NoLateError
  BY DEF BrowserInv, WhenJudged, Good, NoLateError
<1> QED
  BY BrowserInvariant, <1>1, PTL

\* A strict PASS is of this very collection, complete and without a failure,
\* whatever earlier collections have left under the same names
\* (browser_playwright.py's collect, runtime_records.py's cmd_browser_run).
THEOREM PassShowsThisRun == BRSpec => []ShowsThisRun
<1>1. DOMAIN Views = {1, 2}
  BY DEF Views
<1>2. BrowserInv => ShowsThisRun
  BY <1>1 DEF BrowserInv, WhenJudged, Good, ShowsThisRun
<1> QED
  BY BrowserInvariant, <1>2, PTL
===============================================================================
