SPECIFICATION Spec
CONSTANTS
  alice = alice
  bob = bob
  admin = admin
  h1 = h1
  h2 = h2
  h3 = h3
  A = A
  B = B
  C = C
  D = D
  E = E
  music = music
  films = films
  padded = padded
  blank = blank
  Users = {alice, bob, admin}
  Administrators = {admin}
  Hashes = {h1, h2, h3}
  Titles = {A, B, C}
  Descriptions = {D, E}
  Inputs <- MCInputs
  Trimmed <- MCTrimmed
  Blank = empty
  Null = null
  Keep = keep
  Setup <- MCSetup
  Asks <- MCAsks
  Requests = {r1, r2, r3}
  Faults = {"database", "abandon"}
SYMMETRY Symmetry
INVARIANTS TablesConsistent AckedEditIsVisible PartialEditIsPrefix
INVARIANT UploadKeepsItsCategory
PROPERTY EditStaysAuthorized
