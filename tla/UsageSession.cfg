SPECIFICATION Spec
CONSTANTS
  Categories <- MCCategories
  Durations <- MCDurations
  Times <- MCTimes
  Budget = 1000
  MaxScreen = 4000
INVARIANTS
  NeverOvercharged
  UnderchargeBounded
PROPERTY VerdictOnlyStricter
