------------------------------ MODULE ProfileLock ------------------------------
(***************************************************************************)
(* The fast-mvp profile needs fewer reviewers, so it has to be chosen      *)
(* before there is anything to review (runtime_project.py, cmd_init and    *)
(* cmd_run).  The choice is in two files, the manifest under .starforge    *)
(* and a tracked star-forge profile, which commands write one after the    *)
(* other and anybody can edit; what counts is the history of git.          *)
(*                                                                         *)
(* The gates are an approved Blueprint.md and real rows in Plan.md: the    *)
(* code treats them alike, and here they are one fact of a tree.  The      *)
(* history is linear.                                                      *)
(***************************************************************************)
EXTENDS Naturals, Sequences

CONSTANTS
  MaxCommits,  \* bound: commits
  MaxCommands, \* bound: init and run commands
  MaxTampers   \* bound: edits of the two files by hand

ASSUME LockAssumption == MaxCommits \in Nat /\ MaxCommands \in Nat /\ MaxTampers \in Nat

Profiles == {"standard", "fast"}

VARIABLES
  plManifest,  \* the profile in .starforge/project.json, or "none"
  plSource,    \* the tracked profile file and its flag selected_before_gates
  plDirty,     \* it differs from HEAD
  plGates,     \* the working tree has gates
  plReviewed,  \* there is a proof or a review record
  plLedger,    \* the ledger: "none", "plain", or with a setup that chose fast
  plLog,       \* the commits: profile and gates of each
  plCmd,       \* the command that is running
  plUsed,      \* commands and hand edits so far
  plEarned,    \* ghost: fast was committed when no gate had ever been
  plClean      \* ghost: no command was killed, no file edited by hand

plVars == <<plManifest, plSource, plDirty, plGates, plReviewed, plLedger, plLog, plCmd,
            plUsed, plEarned, plClean>>
plTree == <<plGates, plReviewed>>
plGit  == <<plLog, plEarned>>

NoSource  == [profile |-> "none", early |-> FALSE]
NoCommand == [pc |-> "idle", request |-> "none", kind |-> "run", early |-> FALSE]
Fresh     == [profile |-> "none", gates |-> FALSE]

PLInit ==
  /\ plManifest = "none" /\ plSource = NoSource /\ plDirty = FALSE
  /\ plGates \in BOOLEAN /\ plReviewed = FALSE /\ plLedger = "none"
  /\ plLog = <<>> /\ plCmd = NoCommand /\ plUsed = [commands |-> 0, tampers |-> 0]
  /\ plEarned = FALSE /\ plClean = TRUE

-----------------------------------------------------------------------------
(* What the files and the history say                                      *)

AtHead == IF plLog = <<>> THEN Fresh ELSE plLog[Len(plLog)]

\* profile_downgrade_lock_reasons
LockReasons == plGates \/ plReviewed

\* source_profile_lock_is_durable
Durable == AtHead.profile # "none" /\ ~plDirty

\* Mutant: only the tree of the commit that selected fast is looked at.
GatesAt(i) == plLog[i].gates

\* git_revision_or_ancestors_have_review_gates
GatesUpTo(i) == \E j \in 1 .. i : plLog[j].gates

\* git_history_has_fast_mvp_before_gates: of the first commit with the profile.
FastBeforeGates ==
  \E i \in DOMAIN plLog :
    /\ plLog[i].profile = "fast" /\ \A j \in 1 .. i - 1 : plLog[j].profile # "fast"
    /\ ~GatesUpTo(i)

Predates == plSource.profile = "fast" /\ Durable /\ FastBeforeGates

\* review_profile: what the review policy is computed with.
EffectiveProfile == IF plManifest = "fast" /\ Predates THEN "fast" ELSE "standard"

-----------------------------------------------------------------------------
(* init and run                                                            *)

Continue(pc) == plCmd' = [plCmd EXCEPT !.pc = pc]
Return == plCmd' = NoCommand

\* The setup event will record what is seen here.
StartInit(request, kind) ==
  plCmd' = [pc |-> "lock", request |-> request, kind |-> kind,
            early |-> request = "fast" /\ ~LockReasons]

InitCommand(request) ==
  /\ plCmd = NoCommand /\ plUsed.commands < MaxCommands
  /\ plUsed' = [plUsed EXCEPT !.commands = @ + 1]
  /\ StartInit(request, "init")
  /\ UNCHANGED <<plManifest, plSource, plDirty, plTree, plLedger, plGit, plClean>>

\* cmd_run sets the project up when there is no ledger yet.
RunSetup(request) ==
  /\ plCmd = NoCommand /\ plUsed.commands < MaxCommands /\ plLedger = "none"
  /\ plUsed' = [plUsed EXCEPT !.commands = @ + 1]
  /\ StartInit(request, "setup")
  /\ UNCHANGED <<plManifest, plSource, plDirty, plTree, plLedger, plGit, plClean>>

\* A run that asks for fast again, when that was proven, asks for nothing.
AlreadyProven ==
  \/ plSource.profile = "fast" /\ plSource.early
  \/ plManifest = "fast" /\ plLedger = "fast"

BeginManifest(request) ==
  plCmd' = [NoCommand EXCEPT !.pc = "lock", !.request = IF request = "fast" /\ AlreadyProven THEN "none" ELSE request]

RunManifest(request) ==
  /\ plCmd = NoCommand /\ plUsed.commands < MaxCommands /\ plLedger # "none"
  /\ plUsed' = [plUsed EXCEPT !.commands = @ + 1]
  /\ BeginManifest(request)
  /\ UNCHANGED <<plManifest, plSource, plDirty, plTree, plLedger, plGit, plClean>>

\* ensure_project_manifest refuses fast when gates exist, unless it is earned;
\* a refusal ends the command.
Refused == plCmd.request = "fast" /\ LockReasons /\ ~Predates

\* Mutant: the profile file is written before the refusal.
RefuseLate ==
  /\ plCmd.pc = "lock"
  /\ IF Refused
       THEN /\ plSource' = [profile |-> "fast", early |-> FALSE]
            /\ plDirty' = TRUE
            /\ Return
       ELSE /\ Continue(IF plCmd.request = "none" THEN "manifest" ELSE "source")
            /\ UNCHANGED <<plSource, plDirty>>
  /\ UNCHANGED <<plManifest, plTree, plLedger, plGit, plUsed, plClean>>

CheckLock ==
  /\ plCmd.pc = "lock"
  /\ IF Refused THEN Return ELSE Continue(IF plCmd.request = "none" THEN "manifest" ELSE "source")
  /\ UNCHANGED <<plManifest, plSource, plDirty, plTree, plLedger, plGit, plUsed, plClean>>

\* ensure_source_profile: the flag of an existing file is kept.
WriteSource ==
  LET file == [profile |-> plCmd.request,
               early   |-> IF plSource # NoSource THEN plSource.early ELSE ~LockReasons] IN
  /\ plCmd.pc = "source"
  /\ plSource' = file
  /\ plDirty' = (plDirty \/ file # plSource)
  /\ Continue("manifest")
  /\ UNCHANGED <<plManifest, plTree, plLedger, plGit, plUsed, plClean>>

\* Without a request the profile of the existing manifest is kept; a setup goes
\* on with the ledger.
WriteManifestFile ==
  /\ plCmd.pc = "manifest"
  /\ plManifest' = IF plCmd.request # "none" THEN plCmd.request
                   ELSE IF plManifest = "none" THEN "standard" ELSE plManifest
  /\ IF plCmd.kind # "run" THEN Continue("ledger") ELSE Return
  /\ UNCHANGED <<plSource, plDirty, plTree, plLedger, plGit, plUsed, plClean>>

\* `init --force` replaces Blueprint.md and Plan.md by their templates; then the
\* setup event is logged, and `run` goes on with the manifest.
LogSetup(force) ==
  /\ plCmd.pc = "ledger"
  /\ force => plCmd.kind = "init"
  /\ plGates' = (plGates /\ ~force)
  /\ plLedger' = IF plCmd.early \/ plLedger = "fast" THEN "fast" ELSE "plain"
  /\ IF plCmd.kind = "setup" THEN BeginManifest(plCmd.request) ELSE Return
  /\ UNCHANGED <<plManifest, plSource, plDirty, plReviewed, plGit, plUsed, plClean>>

KillCommand ==
  /\ plCmd # NoCommand
  /\ Return /\ plClean' = FALSE
  /\ UNCHANGED <<plManifest, plSource, plDirty, plTree, plLedger, plGit, plUsed>>

-----------------------------------------------------------------------------
(* The environment                                                         *)

\* The user approves the Blueprint or plans, or takes that back.
ToggleGates ==
  /\ plGates' = ~plGates
  /\ UNCHANGED <<plManifest, plSource, plDirty, plReviewed, plLedger, plGit, plCmd, plUsed, plClean>>

ReviewsAppear ==
  /\ ~plReviewed
  /\ plReviewed' = TRUE
  /\ UNCHANGED <<plManifest, plSource, plDirty, plGates, plLedger, plGit, plCmd, plUsed, plClean>>

\* git commit, of everything, of the profile file only, or of all but it.
CommitTree(withProfile, withGates) ==
  LET commit == [profile |-> IF withProfile THEN plSource.profile ELSE AtHead.profile,
                 gates   |-> IF withGates THEN plGates ELSE AtHead.gates] IN
  /\ Len(plLog) < MaxCommits
  /\ plLog' = Append(plLog, commit)
  /\ plDirty' = (plDirty /\ ~withProfile)
  /\ plEarned' = (plEarned \/ (commit.profile = "fast" /\ ~commit.gates
                                       /\ \A j \in DOMAIN plLog : ~plLog[j].gates))
  /\ UNCHANGED <<plManifest, plSource, plTree, plLedger, plCmd, plUsed, plClean>>

\* Either file is edited by hand.
TamperManifest(profile) ==
  /\ plUsed.tampers < MaxTampers
  /\ plManifest' = profile
  /\ plUsed' = [plUsed EXCEPT !.tampers = @ + 1] /\ plClean' = FALSE
  /\ UNCHANGED <<plSource, plDirty, plTree, plLedger, plGit, plCmd>>

TamperSource(profile, early) ==
  /\ plUsed.tampers < MaxTampers
  /\ plSource' = [profile |-> profile, early |-> early] /\ plSource' # plSource
  /\ plDirty' = TRUE
  /\ plUsed' = [plUsed EXCEPT !.tampers = @ + 1] /\ plClean' = FALSE
  /\ UNCHANGED <<plManifest, plTree, plLedger, plGit, plCmd>>

Requests == Profiles \cup {"none"}

PLNext ==
  \/ \E request \in Requests : InitCommand(request) \/ RunSetup(request) \/ RunManifest(request)
  \/ CheckLock \/ WriteSource \/ WriteManifestFile \/ KillCommand
  \/ \E force \in BOOLEAN : LogSetup(force)
  \/ ToggleGates \/ ReviewsAppear
  \/ CommitTree(TRUE, TRUE) \/ CommitTree(TRUE, FALSE) \/ CommitTree(FALSE, TRUE)
  \/ \E profile \in Profiles :
       TamperManifest(profile) \/ \E early \in BOOLEAN : TamperSource(profile, early)

PLSpec == PLInit /\ [][PLNext]_plVars

-----------------------------------------------------------------------------
(* Properties                                                              *)

\* Fewer reviewers are never gained afterwards: whoever edits the two files,
\* kills commands, removes gates and restores them, the effective profile is
\* fast only if fast was committed before any gate ever was.
EarnedBeforeGates == EffectiveProfile = "fast" => plEarned

\* The two files agree between commands, as long as none was killed between
\* the two writes and nobody edits them: also after a refusal.
ProfilesAgree ==
  plClean /\ plCmd = NoCommand /\ plSource # NoSource => plManifest = plSource.profile

=============================================================================
