\* Two overlapping requests; two processes and a reset, or one and two resets.
CONSTANTS
  None = None
  Requests = {r1, r2}
  MaxSpawns = 2
  MaxResets = 2
  MaxBegun = 3
SYMMETRY RequestSymmetry
SPECIFICATION Spec
INVARIANTS
  StatusSeesEveryClient
  StopCatchesLostChildren
  ReportMatchesWorld
PROPERTY WipesOnlyWhenStopped
