CONSTANTS
  Tasks = {h1}
  Loops = {l1, l2}
  Editors = {e1}
  KindOf <- MCKindOf
  Contents <- MCContents
  MaxTime = 2
  MaxEdits = 2
  ScanLimit = 1
  IdsReused = FALSE
  AllowedReactions = {"eyes", "warning", "speech_balloon"}
  Targets <- MCTargets
  Packs <- MCPacks
  Snapshots <- MCSnapshots
  Answers <- MCAnswers
SPECIFICATION MCSpec
INVARIANTS EachOccurrenceOnce ActsWhereInvited DirectTurnIsAnswered CorrectionsAgree
PROPERTIES EditsReplaceWhatTheyShowed 
CHECK_DEADLOCK FALSE
