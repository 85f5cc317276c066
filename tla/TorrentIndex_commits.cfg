SPECIFICATION FairSpec
CONSTANTS
  c1 = c1
  x1 = x1
  c2 = c2
  Hashes <- MCHashes
  Canonical <- MCCanonical
  Titles = {A, B}
  RollbackFreesId = FALSE
  Requests = {r1, r2}
  MaxInFlight = 2
  Faults = {"tracker", "abandon", "commit"}
INVARIANT RefusedUploadIsNotListed
PROPERTIES UploadRemovesOnlyItsOwn EveryRequestIsAnswered
