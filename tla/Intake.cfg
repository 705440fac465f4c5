CONSTANTS
  None = None
  Handlers = {live, sync}
  Live = {live}
  Appenders = {live, sync, "admin"}
  EventIds = {"p1", "e1", "d1"}
  Messages = {"m1", "m2"}
  Calls = {"p1", "e1", "d1", "admin"}
  KeyOf <- MCKeyOf
  NoKey = ""
  NoCall = ""
  MaxAttempts = 3
  Scripts <- MCScripts
  MaxImports = 1
  Redeliveries = 1
  MaxFaults = 1
  Second = 2
  MaxPosts = 3
  MaxCycles = 3
  MaxBreaks = 2
  Budget = 1
  Kinds = {"mention", "reply"}
  Prompt = TRUE
SPECIFICATION MCSpec
INVARIANTS AckedIsProjected ReadsAsInSlack ChainIntact  HistoryIsContext
PROPERTIES ImplementsLog
CHECK_DEADLOCK FALSE
