SPECIFICATION TierSpec
CONSTANTS
  mod = mod
  base = base
  other = other
  first = first
  second = second
  hull = hull
  crack = crack
  Slots = {}
  Mods = {mod}
  CIs = {}
  BaselineIds = {base, other}
  Unverified = Unverified
  NotInstalled = NotInstalled
  Second = 1
  Components = {hull}
  Faults = {crack}
  EventIds = {first, second}
  Blank = Blank
  None = None
  Variants <- MCVariants
  Edges = {}
  Labels = {}
  Registries <- OneRegistry
  Declarations = {None, other}
  SilverMessages <- ThinTelemetry
  CmMessages <- FaultEvents
  STALENESS_WINDOW_S = 3
  RECHECK_MIN_DELAY_S = 1
  InputUntil = 4
  MaxTime = 8
  MaxBacklog = 2
INVARIANTS
  OpenFaultsSurviveWipe
CHECK_DEADLOCK FALSE
