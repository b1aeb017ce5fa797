CONSTANTS
  MinConfirmations = 2
  MaxHold = 3
  Cooldown = 2
  MaxDay = 7
SPECIFICATION Spec
INVARIANTS TypeOK NoEntryInCooldown HoldIsBounded
PROPERTIES DecisionIsStable
