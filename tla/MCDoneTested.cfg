SPECIFICATION Spec
CONSTANTS
  t1 = t1  t2 = t2  f1 = f1  s1 = s1
  Tasks = {t1}
  DocsTasks = {}
  VisualTasks = {}
  Deps <- MCDeps
  Roles = {}
  Findings = {}
  ScanFindings <- NoScan
  Scopes = {s1}
  NoScope = "noscope"
  MaxVersion = 1
  MaxCommits = 1
  MaxRuns = 1
  MaxWaives = 1
  Commands = {"declared"}
  Declared = "declared"
  Reverts = FALSE
PROPERTIES TestedIsRecorded
