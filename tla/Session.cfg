SPECIFICATION SessionSpec
CONSTANTS
  Timeout = 6
  Interval = 2
  MaxProbe = 1
  MaxLate = 1
  LatestUp = 6
  Names <- MCNames
  Environs <- MCEnvirons
  DotEnvs <- MCDotEnvs
  HttpUrls = {"http://localhost:8000", "https://staging"}
  Lifetime = 1
  MaxMinutes = 1
  Unset = Unset
INVARIANTS
  OverrunIsOneProbe
  PatienceIsUsed
  ReportNamesTheTarget
  MisconfigurationFailsFast
PROPERTIES
  ExpiryIsNotFlaky
  PatienceIsSpentOnce
  SessionGoesOn
CHECK_DEADLOCK FALSE
