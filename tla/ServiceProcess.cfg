SPECIFICATION FairSpec
CONSTANTS
  Threads = {t1, t2}
  Answers <- MCAnswers
  ApplyLine = TRUE
  MaxAttempts = 2
  None = None
INVARIANTS TypeOK AuditedOnce LogComesBack VouchedFirst ScreensUnlessOdd
PROPERTIES OneServiceAtLast RequestsRunOut FollowsProtocol
