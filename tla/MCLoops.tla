------------------------------- MODULE MCLoops -------------------------------
(***************************************************************************)
(* Small instances of what runs until it ends: the loop that keeps         *)
(* sessions going, the collector that runs an app, the one that drives a   *)
(* browser, and the work on change packets.  A behaviour is of one of      *)
(* them, `part`, while the others stay as they are, and each has the       *)
(* fairness of its own module; none is asked of the browser's script.      *)
(***************************************************************************)
EXTENDS StopHook, AppRun, BrowserRun, ChangePackets, TLC

CONSTANTS r1, a1, b1, srcA, srcB, s1, s2, none

\* StopHook: three states of a project that goes on by itself, one that does not.
MCStates == [mode : {"cruise"}, phase : {"build", "done"}, next : {1, 2}]
              \cup {[mode |-> "guided", phase |-> "build", next |-> 1]}

\* ChangePackets: the changed files of srcB have no owner until the root Plan is
\* changed.
MCUnowned == {<<srcB, 0>>}

VARIABLE part

allVars == <<part, hkVars, arVars, brVars, vars>>
Hook(A)    == part = "hook" /\ A /\ UNCHANGED <<part, arVars, brVars, vars>>
App(A)     == part = "app" /\ A /\ UNCHANGED <<part, hkVars, brVars, vars>>
Browser(A) == part = "browser" /\ A /\ UNCHANGED <<part, hkVars, arVars, vars>>
Packets(A) == part = "packets" /\ A /\ UNCHANGED <<part, hkVars, arVars, brVars>>

\* The parts that stand still begin in one of their initial states.
LoopsInit ==
  /\ part \in {"hook", "app", "browser", "packets"}
  /\ HookInit /\ (part = "hook" \/ hkState.mode = "guided")
  /\ ARInit /\ (part = "app" \/ (~arAsked /\ arBundle = "none"))
  /\ BRInit
  /\ Init /\ (part = "packets" \/ drift = srcA)

LoopsNext == Hook(HookNext) \/ App(ARNext) \/ Browser(BRNext) \/ Packets(Next)

LoopsSpec ==
  /\ LoopsInit /\ [][LoopsNext]_allVars
  /\ \A s \in Sessions : WF_allVars(Hook(HookStep(s)))
  /\ WF_allVars(App(CollectorStep)) /\ WF_allVars(App(TimePasses))
  /\ \A r \in Runners : WF_allVars(Packets(Run(r)))
  /\ \A a \in Approvers : WF_allVars(Packets(Approve(a)))
  /\ \A b \in Builders : WF_allVars(Packets(Build(b)))

\* Where a session works, each of its turns ends with a stop that is allowed,
\* even when hooks overlap (runtime_hooks.py 193-227).
TurnsEnd == part = "hook" => EveryStopAllowed

\* Where an app is run, the collector returns, whatever the app and its
\* children do (native_macos.py 236-420).
CollectionEnds == part = "app" => EveryCollectionEnds

==============================================================================
