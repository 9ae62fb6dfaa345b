INIT ReviewsInit
NEXT ReviewsNext
CONSTANTS
  t1 = t1  t2 = t2  f1 = f1  s1 = s1
  Tasks = {t1}
  DocsTasks = {t1}
  VisualTasks = {t1}
  Deps <- MCDeps
  Roles = {"correctness"}
  Findings = {f1}
  ScanFindings <- MCScan
  Scopes = {s1}
  NoScope = "noscope"
  MaxVersion = 1
  MaxCommits = 1
  MaxRuns = 2
  MaxWaives = 1
  Commands = {}
  Declared = "declared"
  Reverts = FALSE
  Flags = {"ui", "auth", "coupling", "latency"}
  FlagGroup <- MCGroup
  Facts = {"native", "production", "source-only"}
  PlanTasks = {"shell", "build"}
  TaskProof <- MCProof
  TaskVerify <- MCVerify
  Owned <- MCOwned
  CodePaths = {"app.ts", "stray.c"}
  DocPaths = {"notes.md", "build.md"}
  MaxTwice = 1
INVARIANTS
  TypeOK NothingMissed ProofCertified
  RiskReviewed FastRemovesNothing ChangeWithinGate CodeIsVerified
