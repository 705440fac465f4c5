CONSTANTS
  Scenes <- MCScenes
  Bodies <- MCBodies
  MaxChanges = 2
  MaxFaults = 1
  Handlers = {h1, h2}
  Submissions = {v1, v2}
  Writers = {ann, bob}
  MaxRevisions = 2
  MaxNotes = 1
  MaxTrouble = 2
  UnpinsCross = FALSE
  Commanded = {"channel"}
  Curators = {c1}
  Lookback = 1
  Validity = 2
  MinMessages = 2
  MaxMessages = 2
  MaxScopes = 2
  MaxTries = 2
  MaxPosts = 2
  MaxEdits = 1
  MaxCommands = 2
  MaxLosses = 1
  MaxTime = 3
  Stories <- MCStories
  MaxFailures = 2
  IncidentTexts = {"down", "outage"}
SPECIFICATION MCSpec
INVARIANTS SavedOnce NotLearnedAgain RecalledIsCurrent
PROPERTIES  OperatorStands ComesToBeLearned ExpiredIsRemoved
CHECK_DEADLOCK FALSE
