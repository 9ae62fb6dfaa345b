INIT JudgementsInit
NEXT JudgementsNext
CONSTANTS
  c1 = c1  c2 = c2
  Collectors = {c1, c2}
  Artifacts = {"http"}
  MaxSource = 1
  MaxPid = 2
  MaxLeases = 1
  Urls = {"home", "next", "sec"}
  Landing = "home"
  Https = {"sec"}
  Wanted = {"next"}
  Asks <- MCAsks
  Addresses = {1, 2, 3}
  Allowed = {1, 3}
  MaxRedirects = 1
  MaxResolved = 1
  MaxEdits = 1
  MaxCommits = 2
  MaxCommands = 2
  MaxTampers = 2
  Learners = {"w1", "w2"}
  Files = {1, 2, 3}
  Laid = {2, 3}
  Words = {"a", "b"}
  Topics = {{"a", "b"}, {"b"}}
  Keywords = {"a", "b"}
  DigestLimit = 1
  MaxScanned = 2
  MaxAge = 1
  MaxDay = 2
  MaxDamage = 1
SYMMETRY Symmetry
INVARIANTS
  OneSource NoBlockedPass LeaseSpansEvidence
  PinnedToVetted AnswerJudged
  EarnedBeforeGates ProfilesAgree
  DigestTrusted NothingLeftOut
PROPERTIES DeploymentIsCurrent RecordsStand
CHECK_DEADLOCK FALSE
