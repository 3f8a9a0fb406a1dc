CONSTANTS
  Callers = {k1, k2, k3}
  MailboxSize = 1
  MaxOps = 1
  NoMsg = NoMsg
SPECIFICATION Spec
SYMMETRY CallerSymmetry
INVARIANT AskAnswerFaithful
