SPECIFICATION Spec
CONSTANTS
  c1 = c1
  c2 = c2
  Callers = {c1, c2}
  Identities = {"a"}
  AbsoluteTTL = 2
  IdleTTL = 2
  Touch = 1
  RecentTTL = 1
  ChallengeTTL = 1
  SetupTTL = 1
  MaxAttempts = 1
  RecoveryCodes = 1
  MaxTime = 2
  MaxSessions = 2
  MaxChallenges = 2
  MaxChanges = 2
SYMMETRY Symmetry
INVARIANTS SecondFactorHonoured CodesSpentOnce PasswordCurrent
PROPERTIES RevokedCannotAct
