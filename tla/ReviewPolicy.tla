----------------------------- MODULE ReviewPolicy -----------------------------
(***************************************************************************)
(* Which reviewers a project and a change of it need (review_policy.py,    *)
(* change_derivation.py).  The answer is computed from the Risk Flags      *)
(* table and the fields of Blueprint.md, the proof kinds of the Plan and   *)
(* the profile, all of which are text that people keep editing: the table  *)
(* may be missing, incomplete, contradictory or duplicated at any time.    *)
(*                                                                         *)
(* The state is that text; an action is an edit.  What the code computes   *)
(* from it are the operators below.                                        *)
(***************************************************************************)
EXTENDS Naturals, FiniteSets

CONSTANTS
  Flags,       \* the risk flags
  FlagGroup,   \* FlagGroup[f]: "ui", "security", "architecture" or "performance"
  Facts,       \* project classes, platforms and delivery targets one can enter
  PlanTasks,   \* rows of Plan.md
  TaskProof,   \* TaskProof[t]: the proof kinds of a row
  TaskVerify,  \* TaskVerify[t]: it declares a usable verify command
  Owned,       \* Owned[t]: the changed paths a row owns
  CodePaths,   \* the paths one can change that are not documents
  DocPaths,    \* those that are
  MaxTwice     \* bound: flags with two rows

Groups == {"ui", "security", "architecture", "performance"}
ChangedPaths == CodePaths \cup DocPaths

ASSUME PolicyAssumption ==
  /\ FlagGroup \in [Flags -> Groups]
  /\ Owned \in [PlanTasks -> SUBSET ChangedPaths]
  /\ TaskProof \in [PlanTasks -> SUBSET {"browser", "native", "preview", "package", "delivery", "tests"}]
  /\ TaskVerify \in [PlanTasks -> BOOLEAN]
  /\ CodePaths \cap DocPaths = {} /\ MaxTwice \in Nat

VARIABLES
  rpHeading,  \* there is a Risk Flags heading
  rpRows,     \* rpRows[f]: the values in the rows of f, and how many rows
  rpFacts,    \* the fields of the Blueprint and the Delivery Contract
  rpProfile,  \* "standard" or "fast"
  rpChanged   \* the files changed since the proof

rpVars == <<rpHeading, rpRows, rpFacts, rpProfile, rpChanged>>

NoRow == [values |-> {}, count |-> 0]
Row(v) == [values |-> {v}, count |-> 1]
Twice == {f \in Flags : rpRows[f].count = 2}

-----------------------------------------------------------------------------
(* _risk_flags and _risk_contract_state                                    *)

\* Contradictory rows count as the most alarming one.
FlagValue(f) ==
  CASE "yes" \in rpRows[f].values -> "yes"
    [] "invalid" \in rpRows[f].values -> "invalid"
    [] "unresolved" \in rpRows[f].values -> "unresolved"
    [] "no" \in rpRows[f].values -> "no"
    [] OTHER -> "not applicable"

Resolved(f) == FlagValue(f) \in {"yes", "no", "not applicable"}

ContractState ==
  IF ~rpHeading THEN "legacy"
  ELSE IF \A f \in Flags : rpRows[f].count = 1 /\ Resolved(f) THEN "complete"
  ELSE "incomplete"

\* The groups with a flag that is yes; a flag without a row is not.
RiskGroups == {FlagGroup[f] : f \in {g \in Flags : FlagValue(g) = "yes"}}

-----------------------------------------------------------------------------
(* parse_project_surfaces: from the Blueprint's fields and from the proof   *)
(* kinds of the given tasks                                                 *)

Proofs(tasks) == UNION {TaskProof[t] : t \in tasks}
HasUI(tasks) == rpFacts \cap {"ui", "native"} # {} \/ Proofs(tasks) \cap {"browser", "native"} # {}
HasNative(tasks) == "native" \in rpFacts \/ "native" \in Proofs(tasks)
DeliveryProof(tasks) == Proofs(tasks) \cap {"delivery", "package", "preview"} # {}
DeliveryTarget == rpFacts \cap {"production", "preview"} # {}

SurfaceRoles(tasks) ==
  {r \in {"ux-accessibility", "performance-reliability"} :
     IF r = "ux-accessibility" THEN HasUI(tasks)
     ELSE HasNative(tasks) \/ DeliveryTarget \/ DeliveryProof(tasks)}

\* Mutant: delivery is not a lens of its own.
NoDeliveryLens(tasks) == {"performance", "reliability"}

\* Mutant: a delivery review is made instead of the others.
DeliveryInstead(tasks) ==
  IF DeliveryTarget \/ DeliveryProof(tasks) THEN {"delivery"} ELSE {"performance", "reliability"}

PerformanceLenses(tasks) ==
  {"performance", "reliability"} \cup
    IF DeliveryTarget \/ DeliveryProof(tasks) THEN {"delivery"} ELSE {}

-----------------------------------------------------------------------------
(* The selections: sets of records [role, lenses]                          *)

Select(role, lenses) == [role |-> role, lenses |-> lenses]

ModernRoles(tasks) ==
  {Select("correctness", {"correctness"})}
  \cup (IF "ui" \in RiskGroups \/ HasUI(tasks)
          THEN {Select("ux-accessibility", {"ux", "accessibility"})} ELSE {})
  \cup (IF "security" \in RiskGroups THEN {Select("security", {"security", "privacy"})} ELSE {})
  \cup (IF "architecture" \in RiskGroups THEN {Select("architecture", {"architecture"})} ELSE {})
  \cup (IF "performance" \in RiskGroups \/ "performance-reliability" \in SurfaceRoles(tasks)
          THEN {Select("performance-reliability", PerformanceLenses(tasks))} ELSE {})

LegacyProfile(profile) ==
  IF profile = "fast" THEN {"correctness"} ELSE {"correctness", "security", "architecture"}

LegacyRoles(profile, tasks) ==
  {Select(r, {r}) : r \in LegacyProfile(profile)}
  \cup (IF "ux-accessibility" \in SurfaceRoles(tasks)
          THEN {Select("ux-accessibility", {"ux", "accessibility"})} ELSE {})
  \cup (IF "performance-reliability" \in SurfaceRoles(tasks)
          THEN {Select("performance-reliability", PerformanceLenses(tasks))} ELSE {})

\* _apply_agent_cap: architecture and performance-reliability become one agent.
Capped(logical) ==
  LET merged == {s \in logical : s.role \in {"architecture", "performance-reliability"}} IN
  IF Cardinality(logical) > 4 /\ Cardinality(merged) = 2
    THEN (logical \ merged) \cup
           {Select("architecture-performance-reliability", UNION {s.lenses : s \in merged})}
    ELSE logical

\* Mutant: an incomplete table gets the roles of the profile.
ProfileOfIncomplete(profile) == profile

LegacyProfileName(profile) == IF ContractState = "legacy" THEN profile ELSE "standard"

\* select_review_policy
ReviewPolicyFor(profile, tasks) ==
  IF ContractState = "complete" THEN Capped(ModernRoles(tasks))
  ELSE Capped(LegacyRoles(LegacyProfileName(profile), tasks))

Lenses(selection) == UNION {s.lenses : s \in selection}

\* required_review_policy: what `done` asks for.
GatePolicy == ReviewPolicyFor(rpProfile, PlanTasks)

-----------------------------------------------------------------------------
(* derive_change_impact                                                    *)

Affected == {t \in PlanTasks : Owned[t] \cap rpChanged # {}}
Unmatched == rpChanged \ UNION {Owned[t] : t \in PlanTasks}

\* Mutant: one document makes the whole entry documentation.
AnyDocument(files) == files \cap DocPaths # {}

DocsMode(files) == files \subseteq DocPaths

\* _affected_task: the entries of a change, with what verifies them; a change
\* of documents only needs no command.
Entry(files, hasVerify) ==
  [files |-> files, verify |-> IF DocsMode(files) THEN "noop"
                               ELSE IF hasVerify THEN "command" ELSE "REVIEW_REQUIRED"]

Entries ==
  {Entry(Owned[t] \cap rpChanged, TaskVerify[t]) : t \in Affected}
  \cup (IF Unmatched = {} THEN {} ELSE {Entry(Unmatched, FALSE)})

ApprovalBlocked == \E e \in Entries : e.verify = "REVIEW_REQUIRED"

ImpactPolicy == ReviewPolicyFor(rpProfile, Affected)

-----------------------------------------------------------------------------
(* Edits                                                                   *)

RPInit ==
  /\ rpHeading \in BOOLEAN
  /\ rpRows = [f \in Flags |-> NoRow]
  /\ rpFacts = {}
  /\ rpProfile \in {"standard", "fast"}
  /\ rpChanged = {}

SetRow(f, v) ==
  /\ rpHeading
  /\ rpRows[f].count # 2 /\ rpRows[f] # Row(v)
  /\ rpRows' = [rpRows EXCEPT ![f] = Row(v)]
  /\ UNCHANGED <<rpHeading, rpFacts, rpProfile, rpChanged>>

AddRow(f, v) ==
  /\ rpHeading
  /\ rpRows[f].count = 1 /\ Cardinality(Twice) < MaxTwice
  /\ rpRows' = [rpRows EXCEPT ![f] = [values |-> @.values \cup {v}, count |-> 2]]
  /\ UNCHANGED <<rpHeading, rpFacts, rpProfile, rpChanged>>

EnterFact(fact) ==
  /\ fact \notin rpFacts
  /\ rpFacts' = rpFacts \cup {fact}
  /\ UNCHANGED <<rpHeading, rpRows, rpProfile, rpChanged>>

DropFact(fact) ==
  /\ fact \in rpFacts
  /\ rpFacts' = rpFacts \ {fact}
  /\ UNCHANGED <<rpHeading, rpRows, rpProfile, rpChanged>>

ChangeProfile ==
  /\ rpProfile' \in {"standard", "fast"} \ {rpProfile}
  /\ UNCHANGED <<rpHeading, rpRows, rpFacts, rpChanged>>

ChangeFile(path) ==
  /\ path \notin rpChanged
  /\ rpChanged' = rpChanged \cup {path}
  /\ UNCHANGED <<rpHeading, rpRows, rpFacts, rpProfile>>

\* Of the five values a cell can have, invalid counts as unresolved does, and
\* not applicable as no.
RPNext ==
  \/ \E f \in Flags, v \in {"yes", "no", "unresolved"} : SetRow(f, v) \/ AddRow(f, v)
  \/ \E fact \in Facts : EnterFact(fact) \/ DropFact(fact)
  \/ ChangeProfile
  \/ \E path \in ChangedPaths : ChangeFile(path)

RPSpec == RPInit /\ [][RPNext]_rpVars

-----------------------------------------------------------------------------
(* Properties                                                              *)

\* What a complete table says yes to, and what the surfaces of the project
\* establish under any table, is reviewed, by a role of its own or by a
\* combined one.
GroupLens == [ui |-> {"ux", "accessibility"}, security |-> {"security", "privacy"},
              architecture |-> {"architecture"}, performance |-> {"performance", "reliability"}]

RiskReviewed ==
  /\ ContractState = "complete" =>
       \A f \in Flags : rpRows[f].values = {"yes"} => GroupLens[FlagGroup[f]] \subseteq Lenses(GatePolicy)
  /\ HasUI(PlanTasks) => GroupLens["ui"] \subseteq Lenses(GatePolicy)
  /\ DeliveryTarget \/ DeliveryProof(PlanTasks) => "delivery" \in Lenses(GatePolicy)

\* docs/workflow.md: "Fast MVP cannot remove a risk-required review."  With a
\* Risk Flags table, finished or not, the profile changes nothing at all.
FastRemovesNothing ==
  rpHeading => ReviewPolicyFor("fast", PlanTasks) = ReviewPolicyFor("standard", PlanTasks)

\* A change is never asked for a lens that `done` would not ask for, although
\* it looks at some of the tasks only and its wave may be capped differently.
ChangeWithinGate == Lenses(ImpactPolicy) \subseteq Lenses(GatePolicy)

\* Code that is changed is verified by a command or blocks the approval, and
\* each changed file is somebody's: no packet hides code behind documents.
CodeIsVerified ==
  /\ UNION {e.files : e \in Entries} = rpChanged
  /\ ~ApprovalBlocked => \A e \in Entries : e.verify = "noop" => e.files \cap CodePaths = {}
=============================================================================
