SPECIFICATION FairUpgradeSpec
CONSTANTS
  NULL = NULL
  Text <- MCText
  Sources <- MCSources
  Uses <- MCUses
  MaxFaults = 2
INVARIANTS UpgradeTypeOK FinishedIsImage
PROPERTY GoodSourcesAreUpgraded
