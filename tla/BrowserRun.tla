------------------------------ MODULE BrowserRun ------------------------------
(***************************************************************************)
(* One task's browser collections, one after the other                     *)
(* (browser_playwright.py), and the strict `browser-run` that judges what  *)
(* the last one left on disk (runtime_records.py).                         *)
(*                                                                         *)
(* A scenario runs in one viewport after the other.  The browser is another *)
(* process: it answers the calls of the script and reports console errors  *)
(* and requests, all through one channel.  Handlers only run while the     *)
(* script waits in a call, and what they see is older than they are.  When *)
(* the answer to a call has come in, further messages may be handled       *)
(* before the script goes on.                                              *)
(*                                                                         *)
(* A collection that fails writes a manifest all the same, over whatever   *)
(* files an earlier collection left under the same names.                  *)
(***************************************************************************)
EXTENDS Naturals, Sequences

CONSTANTS
  MaxCollections,  \* bound: collections of the task
  MaxEvents,       \* bound: console errors and requests of one collection
  Steps            \* actions and assertions of the scenario

ASSUME BrowserAssumption ==
  MaxCollections \in Nat \ {0} /\ MaxEvents \in Nat /\ Steps \in Nat \ {0}

Views == <<"desktop", "mobile">>

VARIABLES
  brPc,       \* "idle", "running", "judge", "collected"
  brNumber,   \* the number of this collection
  brView,     \* index of the viewport
  brCall,     \* the call the script is in: "goto", "ready", "step", "shot", "close"
  brStep,     \* steps done in this viewport
  brReply,    \* its answer: "none", "sent", then "ok" or "failed" for the script
  brChannel,  \* messages on their way to the script
  brFlag,     \* page_ready
  brMemory,   \* what the script has recorded
  brDisk,     \* the artifacts: the collection that wrote them, and what they say
  brManifest, \* the manifest carries a blocking problem
  brVerdict,  \* of `browser-run` on this collection
  brEvents,   \* events so far
  brTruth     \* ghost: what really happened in this collection

brVars == <<brPc, brNumber, brView, brCall, brStep, brReply, brChannel, brFlag, brMemory,
            brDisk, brManifest, brVerdict, brEvents, brTruth>>
brKept == <<brNumber, brManifest, brVerdict>>
brPlace == <<brView, brCall, brStep>>

\* Nothing seen yet: no error after readiness, no failed observation, no
\* blocked request, no blocking problem.
NoMemory == [late |-> FALSE, failed |-> FALSE, blocked |-> FALSE, problem |-> FALSE]
\* late: an error after readiness and before the screenshot of its viewport.
NoTruth  == [late |-> FALSE, unfit |-> FALSE, blocked |-> FALSE, shots |-> {}]
NoDisk   == [shots |-> [i \in DOMAIN Views |-> 0], console |-> [by |-> 0, late |-> FALSE],
             interaction |-> [by |-> 0, failed |-> FALSE, blocked |-> FALSE]]

BRInit ==
  /\ brPc = "idle" /\ brNumber = 0
  /\ brView = 1 /\ brCall = "goto" /\ brStep = 0 /\ brReply = "none"
  /\ brChannel = <<>> /\ brFlag = FALSE
  /\ brMemory = NoMemory /\ brDisk = NoDisk
  /\ brManifest = TRUE /\ brVerdict = "none" /\ brEvents = 0 /\ brTruth = NoTruth

-----------------------------------------------------------------------------
(* collect: before the scenario                                            *)

Starts  == brPc' = "running" /\ brMemory' = NoMemory
Barred == brPc' = "judge" /\ brMemory' = [NoMemory EXCEPT !.problem = TRUE]

\* load_scenario: an unknown key, action, assertion or selector, or a timeout out of range.
ScenarioRefused == Barred
\* The URL, the lease or a viewport is refused, or there is no browser to start.
SetupRefused == Barred

\* A problem found beforehand keeps the scenario from being run, but not the manifest from being written.
Collect ==
  /\ brPc \in {"idle", "collected"} /\ brNumber < MaxCollections
  /\ brNumber' = brNumber + 1
  /\ brView' = 1 /\ brCall' = "goto" /\ brStep' = 0 /\ brReply' = "none"
  /\ brChannel' = <<>> /\ brFlag' = FALSE /\ brEvents' = 0 /\ brTruth' = NoTruth
  /\ Starts \/ ScenarioRefused \/ SetupRefused
  /\ brVerdict' = "none"
  /\ UNCHANGED <<brDisk, brManifest>>

-----------------------------------------------------------------------------
(* The browser                                                             *)

Send(message) == brPc = "running" /\ brChannel' = Append(brChannel, message)
PageOpen == brEvents < MaxEvents /\ ~(brCall = "close" /\ brReply # "none")

\* The page logs a warning or an error, at any time until it is closed.
PageError ==
  /\ PageOpen /\ Send([kind |-> "error", ok |-> FALSE])
  /\ brEvents' = brEvents + 1
  /\ brTruth' = [brTruth EXCEPT !.late = @ \/ (brCall \in {"step", "shot"} /\ brView \notin brTruth.shots)]
  /\ UNCHANGED <<brPc, brKept, brPlace, brReply, brFlag, brMemory, brDisk>>

\* The page wants to load something, from where it may or may not.
PageRequest(allowed) ==
  /\ PageOpen /\ Send([kind |-> "request", ok |-> allowed])
  /\ brEvents' = brEvents + 1
  /\ UNCHANGED <<brPc, brKept, brPlace, brReply, brFlag, brMemory, brDisk, brTruth>>

\* The call did what it should, or failed, or timed out.
AnswerCall(ok) ==
  /\ brReply = "none" /\ Send([kind |-> "reply", ok |-> ok])
  /\ brReply' = "sent"
  /\ brTruth' = [brTruth EXCEPT !.unfit = @ \/ ~ok,
                                !.shots = IF brCall = "shot" THEN @ \cup {brView} ELSE @]
  /\ UNCHANGED <<brPc, brKept, brPlace, brFlag, brMemory, brDisk, brEvents>>

-----------------------------------------------------------------------------
(* The script waits in a call and handles what comes in                    *)

Receive(kind) ==
  /\ brPc = "running" /\ brChannel # <<>>
  /\ Head(brChannel).kind = kind /\ brChannel' = Tail(brChannel)

\* on_console: an error counts when the page is ready by now.
OnConsole ==
  /\ Receive("error")
  /\ brMemory' = [brMemory EXCEPT !.late = @ \/ brFlag]
  /\ UNCHANGED <<brPc, brKept, brPlace, brReply, brFlag, brDisk, brEvents, brTruth>>

\* browser_url_safety_evidence: only a leased loopback origin may be asked.
Blocks(message) == ~message.ok

\* inspect_network_event: a blocked request is recorded, and a problem.
Noted(blocked) == [brMemory EXCEPT !.blocked = @ \/ blocked, !.problem = @ \/ blocked]

\* on_route, on_websocket_route: the request goes on or is aborted.
OnRequest ==
  LET blocked == Blocks(Head(brChannel)) IN
  /\ Receive("request")
  /\ brMemory' = Noted(blocked)
  /\ brTruth' = [brTruth EXCEPT !.blocked = @ \/ blocked]
  /\ UNCHANGED <<brPc, brKept, brPlace, brReply, brFlag, brDisk, brEvents>>

TakeReply ==
  /\ Receive("reply")
  /\ brReply' = IF Head(brChannel).ok THEN "ok" ELSE "failed"
  /\ UNCHANGED <<brPc, brKept, brPlace, brFlag, brMemory, brDisk, brEvents, brTruth>>

-----------------------------------------------------------------------------
(* _run_playwright_scenario: the script goes on with the next call         *)

Came(call, reply) == brPc = "running" /\ brCall = call /\ brReply = reply
Call(call) == brCall' = call /\ brReply' = "none"
Failed == [brMemory EXCEPT !.failed = TRUE, !.problem = TRUE]

\* Without navigation there is no wait, without readiness there are no steps;
\* a screenshot is taken in any case.
Navigated ==
  /\ Came("goto", "ok")
  /\ Call("ready")
  /\ UNCHANGED <<brPc, brKept, brView, brStep, brChannel, brFlag, brMemory, brDisk, brEvents, brTruth>>

\* Mutant: errors count from the first step on that has been done.
BecameReadyLater ==
  /\ Came("ready", "ok")
  /\ Call("step")
  /\ UNCHANGED <<brPc, brKept, brView, brStep, brChannel, brFlag, brMemory, brDisk, brEvents, brTruth>>

BecameReady ==
  /\ Came("ready", "ok")
  /\ Call("step") /\ brFlag' = TRUE
  /\ UNCHANGED <<brPc, brKept, brView, brStep, brChannel, brMemory, brDisk, brEvents, brTruth>>

NotReady ==
  /\ Came("goto", "failed") \/ Came("ready", "failed")
  /\ Call("shot") /\ brMemory' = Failed
  /\ UNCHANGED <<brPc, brKept, brView, brStep, brChannel, brFlag, brDisk, brEvents, brTruth>>

\* perform_action, evaluate_assertion: a failure does not end the scenario.
\* After the last step the address the page ended at is checked.
StepDone(unsafe) ==
  LET seen == IF brReply = "failed" THEN Failed ELSE brMemory IN
  /\ Came("step", "ok") \/ Came("step", "failed")
  /\ brStep' = brStep + 1
  /\ Call(IF brStep + 1 = Steps THEN "shot" ELSE "step")
  /\ unsafe => brStep + 1 = Steps
  /\ brMemory' = [seen EXCEPT !.problem = @ \/ unsafe]
  /\ brTruth' = [brTruth EXCEPT !.blocked = @ \/ unsafe]
  /\ UNCHANGED <<brPc, brKept, brView, brChannel, brFlag, brDisk, brEvents>>

ScreenshotTaken ==
  /\ Came("shot", "ok")
  /\ Call("close")
  /\ brDisk' = [brDisk EXCEPT !.shots[brView] = brNumber]
  /\ UNCHANGED <<brPc, brKept, brView, brStep, brChannel, brFlag, brMemory, brEvents, brTruth>>

\* page_ready is a new object for the next viewport; after the last one the
\* console and the interaction evidence are written.
ContextClosed ==
  /\ Came("close", "ok")
  /\ brFlag' = FALSE /\ brStep' = 0 /\ Call("goto")
  /\ IF brView < Len(Views)
       THEN brView' = brView + 1 /\ UNCHANGED <<brPc, brDisk>>
       ELSE /\ brPc' = "judge"
            /\ brDisk' = [brDisk EXCEPT
                 !.console = [by |-> brNumber, late |-> brMemory.late],
                 !.interaction = [by |-> brNumber, failed |-> brMemory.failed, blocked |-> brMemory.blocked]]
            /\ UNCHANGED brView
  /\ UNCHANGED <<brKept, brChannel, brMemory, brEvents, brTruth>>

\* Mutant: an exception ends the scenario, and what was written before is judged.
ScenarioStops ==
  /\ \E c \in {<<"goto", "none">>, <<"shot", "failed">>, <<"close", "failed">>} : Came(c[1], c[2])
  /\ brPc' = "judge" /\ brMemory' = NoMemory
  /\ UNCHANGED <<brKept, brPlace, brReply, brChannel, brFlag, brDisk, brEvents, brTruth>>

\* An exception, which may also come when a viewport is opened: one problem takes the place of the whole execution.
ScenarioRaises ==
  /\ \E c \in {<<"goto", "none">>, <<"shot", "failed">>, <<"close", "failed">>} : Came(c[1], c[2])
  /\ brPc' = "judge" /\ brMemory' = [NoMemory EXCEPT !.problem = TRUE]
  /\ UNCHANGED <<brKept, brPlace, brReply, brChannel, brFlag, brDisk, brEvents, brTruth>>

-----------------------------------------------------------------------------
(* The end of collect, and browser-run                                     *)

ShotMissing     == \E i \in DOMAIN Views : brDisk.shots[i] = 0
ConsoleBad      == brDisk.console.by = 0 \/ brDisk.console.late
InteractionBad  == brDisk.interaction.by = 0 \/ brDisk.interaction.failed
RequestsBlocked == brDisk.interaction.blocked
\* validate_output_artifacts, of whatever the files hold now.
DiskBad == ShotMissing \/ ConsoleBad \/ InteractionBad \/ RequestsBlocked

JudgeCollection ==
  /\ brPc = "judge"
  /\ brPc' = "collected" /\ brManifest' = (brMemory.problem \/ DiskBad)
  /\ UNCHANGED <<brNumber, brVerdict, brPlace, brReply, brChannel, brFlag, brMemory, brDisk, brEvents, brTruth>>

\* cmd_browser_run --strict with the arguments handed over: a collection with a
\* blocking problem is called degraded, and both it and the files are judged.
StrictBrowserRun ==
  /\ brPc = "collected" /\ brVerdict = "none"
  /\ brVerdict' = IF brManifest \/ DiskBad THEN "FAIL" ELSE "PASS"
  /\ UNCHANGED <<brPc, brNumber, brManifest, brPlace, brReply, brChannel, brFlag, brMemory, brDisk, brEvents, brTruth>>

BRNext ==
  \/ Collect \/ PageError \/ PageRequest(TRUE) \/ PageRequest(FALSE)
  \/ AnswerCall(TRUE) \/ AnswerCall(FALSE)
  \/ OnConsole \/ OnRequest \/ TakeReply
  \/ Navigated \/ BecameReady \/ NotReady \/ StepDone(TRUE) \/ StepDone(FALSE)
  \/ ScreenshotTaken \/ ContextClosed \/ ScenarioRaises
  \/ JudgeCollection \/ StrictBrowserRun

BRSpec == BRInit /\ [][BRNext]_brVars

-----------------------------------------------------------------------------
(* Properties                                                              *)

\* A strict PASS means that no console warning or error came after the script
\* saw the page ready and before its screenshot was taken, in any viewport,
\* however late its message was handled.
NoLateError == brVerdict = "PASS" => ~brTruth.late

\* A strict PASS is about this very collection: every screenshot, the console
\* and the interaction evidence are its own and not left over from an earlier
\* one, every viewport came to its screenshot, nothing it did failed and
\* nothing it wanted was blocked.
ShowsThisRun ==
  brVerdict = "PASS" =>
    /\ ~brTruth.unfit /\ ~brTruth.blocked /\ brTruth.shots = DOMAIN Views
    /\ \A i \in DOMAIN Views : brDisk.shots[i] = brNumber
    /\ brDisk.console.by = brNumber /\ brDisk.interaction.by = brNumber
=============================================================================
