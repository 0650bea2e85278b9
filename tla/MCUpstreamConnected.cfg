CONSTANTS
  s1 = s1
  s2 = s2
  get = get
  nothing = nothing
  AuthReader = AuthReader
  AuthCmd = AuthCmd
  Readers <- MCReaders
  Cmds <- MCCmds
  EmptyCmds <- MCEmptyCmds
  QueueSize <- MCQueueSize
  Runs <- MCRuns
SPECIFICATION FairSpec
CHECK_DEADLOCK FALSE
INVARIANT AcceptsOnlyConnected
