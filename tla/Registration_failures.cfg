SPECIFICATION Spec
CONSTANTS
  RollbackFreesId = FALSE
  Requests = {r1, r2, r3}
  Usernames = {alice, bob}
  Emails = {a, b}
  NoEmail = no_email
  EmailOnSignup = "Optional"
  Verification = TRUE
  Faults = {"commit", "database", "mail", "abandon"}
SYMMETRY Symmetry
INVARIANTS TypeOK VerifiedByOwner
INVARIANTS AckedRegistrationExists RefusedRegistrationIsUndone
PROPERTY RegistrationRemovesOnlyItsOwn
