CONSTANTS
  u1 = u1
  u2 = u2
  ca = ca
  NoPath = NoPath
  NoFile = NoFile
  Paths = {"p", "q"}
  Contents <- MCContents
  Offsets <- MCOffsets
  Limits <- MCLimits
  CopyFaults = {"create", "write", "writer"}
  Names = {"A", "B", "C=D"}
  NameWithEq = {"C=D"}
  Values = {"v", "w"}
  Unset = Unset
  EnvFaults = {"remove", "start"}
  PerSecond = 2
  Collation <- MCCollation
  Failed = Failed
  DaySeconds = 2
  BadArg = BadArg
  NoTag = NoTag
  Width <- MCWidth
  Slash = Slash
  MaxCount = 2
  NoWord = NoWord
  Dash = 0
  LowerCase <- MCLowerCase
  At = At
  Dot = Dot
  NoEmail = NoEmail
  Once = Once
SPECIFICATION Spec
INVARIANTS CopyIsRight CommandRunsAsMeant PeriodsAreExact QueriesAgree StructsAreValidated TextsAreRight
