------------------------------- MODULE StopHook -------------------------------
(***************************************************************************)
(* The hooks that keep a cruise session going (runtime_hooks.py).  When a  *)
(* turn ends the Stop hook may block the stop, at most MaxAutoContinues    *)
(* times for the same phase and next action; UserPromptSubmit resets that  *)
(* budget.  A hook is a process of its own: it reads the canonical state   *)
(* twice, then the counter file, then writes it, while `run`, a prompt or  *)
(* the hook of another session comes in between.                           *)
(***************************************************************************)
EXTENDS Naturals, FiniteSets

CONSTANTS
  Sessions,          \* sessions working on one project
  HookStates,        \* canonical states: records [mode, phase, next]
  MaxAutoContinues,
  MaxStateChanges,   \* bound: how often `run` changes the canonical state
  MaxPrompts,        \* bound: user prompts
  MaxActive          \* bound: Stop events that carry stop_hook_active, and completion claims

ASSUME StopHookAssumption == MaxAutoContinues \in Nat \ {0}

VARIABLES
  hkState,    \* the canonical state file
  hkCounter,  \* the counter file: its count and continuation digest
  hkPc,       \* where each session is
  hkSeen,     \* what its Stop hook has read
  hkChanges, hkPrompts, hkActive,
  hkBlocks,   \* ghost: blocks since the last change or prompt, at most one too many
  hkAlone     \* ghost: no hook since then overlapped a change, a prompt or another hook

hkVars == <<hkState, hkCounter, hkPc, hkSeen, hkChanges, hkPrompts, hkActive, hkBlocks, hkAlone>>
hkCounts == <<hkChanges, hkPrompts, hkActive>>

NoCounter == [count |-> 0, digest |-> <<>>]
NothingSeen == [next |-> 0, digest |-> <<>>, count |-> 0]
WorkingPhases == {"intake", "design", "plan", "foundation", "build", "review", "deliver", "amend"}
InHook(s) == hkPc[s] \in {"handoff", "decide", "write"}

HookInit ==
  /\ hkState \in HookStates
  /\ hkCounter = NoCounter
  /\ hkPc = [s \in Sessions |-> "working"]
  /\ hkSeen = [s \in Sessions |-> NothingSeen]
  /\ hkChanges = 0 /\ hkPrompts = 0 /\ hkActive = 0
  /\ hkBlocks = 0 /\ hkAlone = TRUE

-----------------------------------------------------------------------------
(* The environment: `run` writes the canonical state, the user prompts     *)

Disturb == hkBlocks' = 0 /\ hkAlone' = (\A s \in Sessions : ~InHook(s))

RunWritesState ==
  /\ hkChanges < MaxStateChanges
  /\ hkState' \in HookStates \ {hkState}
  /\ hkChanges' = hkChanges + 1
  /\ Disturb
  /\ UNCHANGED <<hkCounter, hkPc, hkSeen, hkPrompts, hkActive>>

\* cmd_prompt_hook: the counter file is deleted, the session works again.
Prompt(s) ==
  /\ hkPc[s] = "released" /\ hkPrompts < MaxPrompts
  /\ hkCounter' = NoCounter
  /\ hkPc' = [hkPc EXCEPT ![s] = "working"]
  /\ hkPrompts' = hkPrompts + 1
  /\ Disturb
  /\ UNCHANGED <<hkState, hkSeen, hkChanges, hkActive>>

-----------------------------------------------------------------------------
(* cmd_stop_hook                                                           *)

\* build_handoff: the first read of the canonical state.
BuildHandoff(s) ==
  /\ hkPc[s] = "working"
  /\ hkPc' = [hkPc EXCEPT ![s] = "handoff"]
  /\ hkSeen' = [hkSeen EXCEPT ![s].next = hkState.next]
  /\ hkAlone' = (hkAlone /\ \A t \in Sessions \ {s} : ~InHook(t))
  /\ UNCHANGED <<hkState, hkCounter, hkCounts, hkBlocks>>

\* A completion claim the predicate denies, or an event that already comes
\* from a blocked stop: the session is let go.
LetGo(s) ==
  /\ hkPc[s] = "handoff" /\ hkActive < MaxActive
  /\ hkActive' = hkActive + 1
  /\ hkPc' = [hkPc EXCEPT ![s] = "released"]
  /\ hkSeen' = [hkSeen EXCEPT ![s] = NothingSeen]
  /\ UNCHANGED <<hkState, hkCounter, hkChanges, hkPrompts, hkBlocks, hkAlone>>

\* should_block_stop: the second read decides the mode and the phase; the
\* next action of the digest still comes from the handoff.
KeepsGoing == hkState.mode = "cruise" /\ hkState.phase \in WorkingPhases

ReadState(s) ==
  /\ hkPc[s] = "handoff"
  /\ hkPc' = [hkPc EXCEPT ![s] = IF KeepsGoing THEN "decide" ELSE "released"]
  /\ hkSeen' = [hkSeen EXCEPT ![s] =
                  IF KeepsGoing THEN [@ EXCEPT !.digest = <<hkState.phase, hkSeen[s].next>>] ELSE NothingSeen]
  /\ UNCHANGED <<hkState, hkCounter, hkCounts, hkBlocks, hkAlone>>

\* Mutant: one block more than the budget.
SpentLate(count) == count > MaxAutoContinues
Spent(count) == count >= MaxAutoContinues

ReadCounter(s) ==
  LET count == IF hkCounter.digest = hkSeen[s].digest THEN hkCounter.count ELSE 0 IN
  /\ hkPc[s] = "decide"
  /\ hkPc' = [hkPc EXCEPT ![s] = IF Spent(count) THEN "released" ELSE "write"]
  /\ hkSeen' = [hkSeen EXCEPT ![s] = IF Spent(count) THEN NothingSeen ELSE [@ EXCEPT !.count = count]]
  /\ UNCHANGED <<hkState, hkCounter, hkCounts, hkBlocks, hkAlone>>

\* Mutant: every block counts as the first one.
CounterRestarts(s) == [count |-> 1, digest |-> hkSeen[s].digest]
NextCounter(s) == [count |-> hkSeen[s].count + 1, digest |-> hkSeen[s].digest]

Block(s) ==
  /\ hkPc[s] = "write"
  /\ hkCounter' = NextCounter(s)
  /\ hkPc' = [hkPc EXCEPT ![s] = "working"]
  /\ hkSeen' = [hkSeen EXCEPT ![s] = NothingSeen]
  /\ hkBlocks' = IF hkBlocks > MaxAutoContinues THEN hkBlocks ELSE hkBlocks + 1
  /\ hkAlone' = (hkAlone /\ \A t \in Sessions \ {s} : ~InHook(t))
  /\ UNCHANGED <<hkState, hkCounts>>

HookStep(s) == BuildHandoff(s) \/ ReadState(s) \/ ReadCounter(s) \/ Block(s)
HookNext ==
  \/ RunWritesState
  \/ \E s \in Sessions : Prompt(s) \/ LetGo(s) \/ HookStep(s)

HookSpec ==
  /\ HookInit /\ [][HookNext]_hkVars
  /\ \A s \in Sessions : WF_hkVars(HookStep(s))

-----------------------------------------------------------------------------
(* Properties                                                              *)

\* The counter never exceeds the budget, whatever the hooks of several
\* sessions read and write in between.
HookTypeOK ==
  /\ hkState \in HookStates
  /\ hkCounter.count \in 0 .. MaxAutoContinues
  /\ hkPc \in [Sessions -> {"working", "handoff", "decide", "write", "released"}]

\* While the state does not change and no prompt comes, hooks that do not
\* overlap block at most MaxAutoContinues stops (docs/hooks.md: "max 3
\* auto-continues per stuck state").  It holds of the session's own hooks and
\* of those of all the sessions together, because they share the counter.
StuckBound == hkAlone => hkBlocks <= MaxAutoContinues

\* Even when hooks overlap and lose each other's updates, no session is kept
\* going for ever: each turn ends with a stop that is allowed.
EveryStopAllowed == \A s \in Sessions : hkPc[s] = "working" ~> hkPc[s] = "released"
=============================================================================
