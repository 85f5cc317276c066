SPECIFICATION Spec
CONSTANTS
  c1 = c1
  x1 = x1
  c2 = c2
  Hashes <- MCHashes
  Canonical <- MCCanonical
  Titles = {A, B}
  RollbackFreesId = TRUE
  Requests = {r1, r2, r3}
  MaxInFlight = 3
  Faults = {"tracker", "abandon", "database"}
SYMMETRY Symmetry
INVARIANTS TypeOK GroupsMatchIndex
INVARIANTS AckedUploadIsListed AckedUploadIsWhitelisted
PROPERTY RefinesCatalogue
