SPECIFICATION FairSpec
CONSTANTS
  Units = 2
  MaxRecoveryAttempts = 1
  MaxCommands = 2
INVARIANTS
  TypeOK
  SuccessIsGenuine
  InStepUnlessResetFailed
PROPERTY CommandsEnd
CHECK_DEADLOCK FALSE
