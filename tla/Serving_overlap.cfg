SPECIFICATION Spec
CONSTANTS
  alice = alice
  c1 = c1
  x1 = x1
  c2 = c2
  Hashes <- MCHashes
  Canonical <- MCCanonical
  Earlier = {x1}
  Asks <- MCAsks
  SingleFile = {c1}
  Users = {alice}
  Requests = {r1, r2}
  EarlierKeys <- MCEarlierKeys
  TokenValidity = 2
  RenewalWindow = 1
  KeyValidity = 3
  KeyMargin = 1
  U64 = 16
  MaxTime = 2
  MaxId = 2
SYMMETRY Symmetry
INVARIANTS RenewalKeepsOrExtends AnnounceKeyLasts
INVARIANTS SpareKeysComeFromOverlaps AnswerIsOneTorrent
