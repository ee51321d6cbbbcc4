SPECIFICATION Spec
CONSTANTS
  early = early
  late = late
  base = base
  edge = edge
  Slots = {}
  Mods = {early, late}
  CIs = {}
  BaselineIds = {base}
  Unverified = Unverified
  NotInstalled = NotInstalled
  Second = 2
  Components = {}
  Faults = {}
  EventIds = {}
  Blank = Blank
  None = None
  Variants <- MCVariants
  Edges = {edge}
  Labels = {}
  Registries <- MCRegistries
  Declarations = {None}
  SilverMessages <- MCSilverMessages
  CmMessages <- MCCmMessages
  STALENESS_WINDOW_S = 2
  RECHECK_MIN_DELAY_S = 1
  InputUntil = 5
  MaxTime = 12
INVARIANTS
  StaleMeansSilent
  DebounceIsHonest
  RechecksAreDistinct
PROPERTIES
  RecheckMarksStale
CHECK_DEADLOCK FALSE
