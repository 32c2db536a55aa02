SPECIFICATION Spec
CONSTANTS
  Process = {p1, p2, p3}
  Token = {t1, t2, t3, t4}
  NoToken = NoToken
  NoOwner = NoOwner
  Torn = Torn
  Nobody = Nobody
  Lost = Lost
  CrashPoints <- AnyPoint
  PromptRecovery = TRUE
SYMMETRY Symmetry
INVARIANT TypeOK
INVARIANT MutualExclusion
INVARIANT HolderOwnsLock
INVARIANT IInv
PROPERTY LiveOwnersUntouched
PROPERTY ImplementsService
