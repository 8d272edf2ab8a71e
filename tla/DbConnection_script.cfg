SPECIFICATION Spec
CONSTANTS
  Runs = {r1, r2}
  NoRun = NoRun
  Engines = {"postgres"}
  Modes = {"primary", "script"}
  MaxUnits = 1
  MaxPages = 0
  MaxCloses = 0
SYMMETRY Symmetry
CHECK_DEADLOCK FALSE
INVARIANT
  CancelHitsOwnRun
