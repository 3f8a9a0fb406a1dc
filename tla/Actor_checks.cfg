CONSTANTS
  Callers = {k1, k2}
  MailboxSize = 1
  MaxOps = 1
  NoMsg = NoMsg
SPECIFICATION Spec
INVARIANT TypeOK
INVARIANT MailboxDrainedAtStop
PROPERTY NoProcessingAfterStop
PROPERTY AskTerminates
PROPERTY StopTerminates
