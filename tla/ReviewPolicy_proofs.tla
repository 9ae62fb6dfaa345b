-------------------------- MODULE ReviewPolicy_proofs --------------------------
(* Theorems about ReviewPolicy, checked by TLAPS: which lenses the waves that *)
(* `done` and a change ask for look through.  The policy is a function of the *)
(* text as it is, so they hold in every state, whatever was edited before.    *)
EXTENDS ReviewPolicy, TLAPS

-----------------------------------------------------------------------------
(* Lenses and the cap.                                                       *)

\* A lens is looked through when a selected role has it.
LEMMA LensOfRole ==
  ASSUME NEW selection, NEW lens
  PROVE  lens \in Lenses(selection) <=> \E s \in selection : lens \in s.lenses
BY DEF Lenses

\* What each selected role looks through is looked through.
LEMMA RoleGivesLenses ==
  ASSUME NEW selection, NEW s \in selection
  PROVE  s.lenses \subseteq Lenses(selection)
BY LensOfRole

\* The cap of four agents merges two roles and loses no lens, and adds none.
LEMMA CapKeepsLenses ==
  ASSUME NEW logical
  PROVE  Lenses(Capped(logical)) = Lenses(logical)
<1> DEFINE merged == {s \in logical : s.role \in {"architecture", "performance-reliability"}}
           one    == Select("architecture-performance-reliability", UNION {s.lenses : s \in merged})
<1>1. CASE Capped(logical) = logical
  BY <1>1
<1>2. CASE Capped(logical) = (logical \ merged) \cup {one}
  <2>1. \A lens : lens \in one.lenses <=> \E s \in merged : lens \in s.lenses
    BY DEF Select
  <2> HIDE DEF one
  <2>2. \A lens : lens \in Lenses(Capped(logical)) <=> lens \in Lenses(logical)
    BY <1>2, <2>1, LensOfRole
  <2> QED
    BY <2>2
<1> QED
  BY <1>1, <1>2 DEF Capped

-----------------------------------------------------------------------------
(* What more tasks add.                                                      *)

\* The proof kinds of more tasks are more.
LEMMA MoreProofs ==
  ASSUME NEW few, NEW many, few \subseteq many
  PROVE  Proofs(few) \subseteq Proofs(many)
BY DEF Proofs

\* So are the surfaces they establish, and the lenses of a delivery.
LEMMA MoreSurfaces ==
  ASSUME NEW few, NEW many, few \subseteq many
  PROVE  /\ HasUI(few) => HasUI(many)
         /\ SurfaceRoles(few) \subseteq SurfaceRoles(many)
         /\ PerformanceLenses(few) \subseteq PerformanceLenses(many)
<1>1. \A kind : kind \in Proofs(few) => kind \in Proofs(many)
  BY MoreProofs
<1>2. HasUI(few) => HasUI(many)
  BY <1>1 DEF HasUI
<1>3. (HasNative(few) => HasNative(many)) /\ (DeliveryProof(few) => DeliveryProof(many))
  BY <1>1 DEF HasNative, DeliveryProof
<1> QED
  BY <1>2, <1>3 DEF SurfaceRoles, PerformanceLenses

\* More tasks ask for no fewer lenses, under a complete table or any other.
LEMMA MoreLenses ==
  ASSUME NEW profile, NEW few, NEW many, few \subseteq many
  PROVE  Lenses(ReviewPolicyFor(profile, few)) \subseteq Lenses(ReviewPolicyFor(profile, many))
<1> DEFINE rolePerf(tasks) == Select("performance-reliability", PerformanceLenses(tasks))
<1>1. ASSUME NEW s \in ModernRoles(few) PROVE \E r \in ModernRoles(many) : s.lenses \subseteq r.lenses
  <2>1. CASE s = rolePerf(few)
    <3>1. rolePerf(many) \in ModernRoles(many)
      BY <1>1, <2>1, MoreSurfaces DEF ModernRoles, Select
    <3> QED
      BY <2>1, <3>1, MoreSurfaces DEF Select
  <2>2. CASE s # rolePerf(few)
    <3>1. s \in ModernRoles(many)
      BY <1>1, <2>2, MoreSurfaces DEF ModernRoles
    <3> QED
      BY <3>1
  <2> QED
    BY <2>1, <2>2
<1>2. ASSUME NEW name, NEW s \in LegacyRoles(name, few)
      PROVE  \E r \in LegacyRoles(name, many) : s.lenses \subseteq r.lenses
  <2>1. CASE s = rolePerf(few) /\ "performance-reliability" \in SurfaceRoles(few)
    <3>1. rolePerf(many) \in LegacyRoles(name, many)
      BY <2>1, MoreSurfaces DEF LegacyRoles
    <3> QED
      BY <2>1, <3>1, MoreSurfaces DEF Select
  <2>2. CASE ~(s = rolePerf(few) /\ "performance-reliability" \in SurfaceRoles(few))
    <3>1. s \in LegacyRoles(name, many)
      BY <1>2, <2>2, MoreSurfaces DEF LegacyRoles
    <3> QED
      BY <3>1
  <2> QED
    BY <2>1, <2>2
<1>3. CASE ContractState = "complete"
  <2>1. Lenses(ModernRoles(few)) \subseteq Lenses(ModernRoles(many))
    BY <1>1, LensOfRole
  <2> QED
    BY <1>3, <2>1, CapKeepsLenses DEF ReviewPolicyFor
<1>4. CASE ContractState # "complete"
  <2>1. Lenses(LegacyRoles(LegacyProfileName(profile), few)) \subseteq
          Lenses(LegacyRoles(LegacyProfileName(profile), many))
    BY <1>2, LensOfRole
  <2> QED
    BY <1>4, <2>1, CapKeepsLenses DEF ReviewPolicyFor
<1> QED
  BY <1>3, <1>4

-----------------------------------------------------------------------------
(* What the roles that `done` waits for look through.                        *)

\* The roles before the cap.
LogicalRoles ==
  IF ContractState = "complete" THEN ModernRoles(PlanTasks)
  ELSE LegacyRoles(LegacyProfileName(rpProfile), PlanTasks)

\* Each of their lenses survives it.
LEMMA GateLenses ==
  ASSUME NEW role, NEW lenses, Select(role, lenses) \in LogicalRoles
  PROVE  lenses \subseteq Lenses(GatePolicy)
<1>1. Lenses(GatePolicy) = Lenses(LogicalRoles)
  BY CapKeepsLenses DEF GatePolicy, ReviewPolicyFor, LogicalRoles
<1>2. Select(role, lenses).lenses = lenses
  BY DEF Select
<1> QED
  BY <1>1, <1>2, RoleGivesLenses

\* A user interface is reviewed under any table.
LEMMA InterfaceReviewed == HasUI(PlanTasks) => GroupLens["ui"] \subseteq Lenses(GatePolicy)
<1>1. HasUI(PlanTasks) => Select("ux-accessibility", {"ux", "accessibility"}) \in LogicalRoles
  BY DEF LogicalRoles, ModernRoles, LegacyRoles, SurfaceRoles
<1> QED
  BY <1>1, GateLenses DEF GroupLens

\* So is a delivery.
LEMMA DeliveryReviewed ==
  DeliveryTarget \/ DeliveryProof(PlanTasks) => "delivery" \in Lenses(GatePolicy)
<1> SUFFICES ASSUME DeliveryTarget \/ DeliveryProof(PlanTasks) PROVE "delivery" \in Lenses(GatePolicy)
  OBVIOUS
<1>1. "performance-reliability" \in SurfaceRoles(PlanTasks) /\ "delivery" \in PerformanceLenses(PlanTasks)
  BY DEF SurfaceRoles, PerformanceLenses
<1>2. Select("performance-reliability", PerformanceLenses(PlanTasks)) \in LogicalRoles
  BY <1>1 DEF LogicalRoles, ModernRoles, LegacyRoles
<1> QED
  BY <1>1, <1>2, GateLenses

\* And what a complete table says yes to.
LEMMA FlagReviewed ==
  ASSUME ContractState = "complete", NEW f \in Flags, rpRows[f].values = {"yes"}
  PROVE  GroupLens[FlagGroup[f]] \subseteq Lenses(GatePolicy)
<1>1. FlagGroup[f] \in RiskGroups /\ FlagGroup[f] \in Groups
  BY PolicyAssumption DEF RiskGroups, FlagValue
<1>2. LogicalRoles = ModernRoles(PlanTasks)
  BY DEF LogicalRoles
<1>3. CASE FlagGroup[f] = "ui"
  <2>1. Select("ux-accessibility", {"ux", "accessibility"}) \in LogicalRoles
    BY <1>1, <1>2, <1>3 DEF ModernRoles
  <2> QED
    BY <1>3, <2>1, GateLenses DEF GroupLens
<1>4. CASE FlagGroup[f] = "security"
  <2>1. Select("security", {"security", "privacy"}) \in LogicalRoles
    BY <1>1, <1>2, <1>4 DEF ModernRoles
  <2> QED
    BY <1>4, <2>1, GateLenses DEF GroupLens
<1>5. CASE FlagGroup[f] = "architecture"
  <2>1. Select("architecture", {"architecture"}) \in LogicalRoles
    BY <1>1, <1>2, <1>5 DEF ModernRoles
  <2> QED
    BY <1>5, <2>1, GateLenses DEF GroupLens
<1>6. CASE FlagGroup[f] = "performance"
  <2>1. Select("performance-reliability", PerformanceLenses(PlanTasks)) \in LogicalRoles
    BY <1>1, <1>2, <1>6 DEF ModernRoles
  <2>2. PerformanceLenses(PlanTasks) \subseteq Lenses(GatePolicy)
    BY <2>1, GateLenses
  <2> QED
    BY <1>6, <2>2 DEF GroupLens, PerformanceLenses
<1> QED
  BY <1>1, <1>3, <1>4, <1>5, <1>6 DEF Groups

-----------------------------------------------------------------------------
(* The theorems.                                                             *)

\* What a complete table says yes to, and the surfaces of the project, are
\* reviewed, for any flags, rows and tasks (select_review_policy and
\* _apply_agent_cap of review_policy.py).
THEOREM RisksAreReviewed == RPSpec => []RiskReviewed
<1>1. RiskReviewed
  BY InterfaceReviewed, DeliveryReviewed, FlagReviewed DEF RiskReviewed
<1> QED
  BY <1>1, PTL

\* With a Risk Flags table the profile with fewer reviewers removes none
\* (select_review_policy of review_policy.py).
THEOREM ProfileRemovesNothing == RPSpec => []FastRemovesNothing
<1>1. FastRemovesNothing
  BY DEF FastRemovesNothing, ReviewPolicyFor, LegacyProfileName, ContractState
<1> QED
  BY <1>1, PTL

\* A change is asked for no lens that `done` would not ask for
\* (derive_change_impact of change_derivation.py, required_review_policy).
THEOREM ChangesAskNoMore == RPSpec => []ChangeWithinGate
<1>1. Affected \subseteq PlanTasks
  BY DEF Affected
<1>2. ChangeWithinGate
  BY <1>1, MoreLenses DEF ChangeWithinGate, ImpactPolicy, GatePolicy
<1> QED
  BY <1>2, PTL

\* Every changed file is in an entry of its packet, and an entry that no
\* command verifies holds no code (_affected_task of change_derivation.py).
THEOREM ChangedCodeIsVerified == RPSpec => []CodeIsVerified
<1>1. UNION {e.files : e \in Entries} = rpChanged
  <2>1. ASSUME NEW e \in Entries, NEW path \in e.files PROVE path \in rpChanged
    <3>1. CASE e = Entry(Unmatched, FALSE)
      BY <2>1, <3>1 DEF Entry, Unmatched
    <3>2. ASSUME NEW t \in Affected, e = Entry(Owned[t] \cap rpChanged, TaskVerify[t])
          PROVE  path \in rpChanged
      BY <2>1, <3>2 DEF Entry
    <3> QED
      BY <3>1, <3>2 DEF Entries
  <2>2. ASSUME NEW path \in rpChanged PROVE \E e \in Entries : path \in e.files
    <3>1. CASE path \in Unmatched
      <4>1. Entry(Unmatched, FALSE) \in Entries
        BY <3>1 DEF Entries
      <4> QED
        BY <3>1, <4>1 DEF Entry
    <3>2. CASE path \notin Unmatched
      <4>1. PICK t \in PlanTasks : path \in Owned[t]
        BY <2>2, <3>2 DEF Unmatched
      <4>2. Entry(Owned[t] \cap rpChanged, TaskVerify[t]) \in Entries
        BY <2>2, <4>1 DEF Entries, Affected
      <4> QED
        BY <2>2, <4>1, <4>2 DEF Entry
    <3> QED
      BY <3>1, <3>2
  <2> QED
    BY <2>1, <2>2
<1>2. ASSUME NEW e \in Entries, e.verify = "noop" PROVE e.files \cap CodePaths = {}
  <2>1. \E files, hasVerify : e = Entry(files, hasVerify)
    BY <1>2 DEF Entries
  <2>2. DocsMode(e.files)
    BY <1>2, <2>1 DEF Entry
  <2> QED
    BY <2>2, PolicyAssumption DEF DocsMode
<1>3. CodeIsVerified
  BY <1>1, <1>2 DEF CodeIsVerified
<1> QED
  BY <1>3, PTL
=============================================================================
