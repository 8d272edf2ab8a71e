SPECIFICATION FairSpec
CONSTANTS
  Runs = {r1, r2}
  NoRun = NoRun
  Engines = {"sqlite", "postgres", "mssql"}
  Modes = {"primary", "script"}
  MaxUnits = 2
  MaxPages = 1
  MaxCloses = 1
CHECK_DEADLOCK FALSE
INVARIANTS
  TypeOK
  PrimaryCancelContained
PROPERTY
  CancelSettles
