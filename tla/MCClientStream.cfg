CONSTANTS
  CmdLen <- MCCmdLen
  Total <- MCTotal
  MaxRoom <- MCMaxRoom
SPECIFICATION Spec
CHECK_DEADLOCK FALSE
INVARIANTS TypeOK StreamIntact WholeUnlessDisturbed EmptyOnlyAfterRefusal
