SPECIFICATION FairSpec
CONSTANTS
  Process = {p1, p2}
  Token = {t1, t2, t3}
  NoToken = NoToken
  NoOwner = NoOwner
  Torn = Torn
  Nobody = Nobody
  Lost = Lost
  CrashPoints <- OutsideRecovery
  PromptRecovery = FALSE
PROPERTY AcquireEnds
PROPERTY DeadOwnersRecovered
