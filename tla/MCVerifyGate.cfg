\* One reset, no client: what an ok of the verify step is worth.
CONSTANTS
  None = None
  Requests = {r1}
  MaxSpawns = 0
  MaxResets = 1
  MaxBegun = 1
SPECIFICATION Spec
PROPERTY VerifyIsAuthoritative
