SPECIFICATION TurnSpec
CONSTANTS
  Calls = {1, 2}
  Earlier = Earlier
  Capacity = 1
  MaxTexts = 1
  Plans <- CallPlans
INVARIANTS ApprovedOnce FilesWithAnswer
PROPERTY TurnEnds
CHECK_DEADLOCK FALSE
