SPECIFICATION Spec
CONSTANTS
  early = early
  late = late
  base = base
  edge = edge
  Slots = {}
  Mods = {}
  CIs = {}
  BaselineIds = {base}
  Unverified = Unverified
  NotInstalled = NotInstalled
  Second = 2
  Components = {}
  Faults = {}
  EventIds = {}
  Blank = Blank
  None = None
  Variants <- MCVariants
  Edges = {edge}
  Labels = {}
  Registries <- Undated
  Declarations = {None}
  SilverMessages <- MCSilverMessages
  CmMessages = {}
  STALENESS_WINDOW_S = 2
  RECHECK_MIN_DELAY_S = 1
  InputUntil = 4
  MaxTime = 12
PROPERTIES
  SilentAssetGoesStale
CHECK_DEADLOCK FALSE
