CONSTANTS
  Achievement <- MCAchievement
  MaxGames = 1
  MaxUses = 2
  MaxDamages = 0
SPECIFICATION RecordsSpec
INVARIANT EarnedAsDescribed
CHECK_DEADLOCK FALSE
