SPECIFICATION TierSpec
CONSTANTS
  mod = mod
  base = base
  other = other
  first = first
  second = second
  hull = hull
  crack = crack
  Slots = {}
  Mods = {mod}
  CIs = {}
  BaselineIds = {base, other}
  Unverified = Unverified
  NotInstalled = NotInstalled
  Second = 1
  Components = {hull}
  Faults = {crack}
  EventIds = {first, second}
  Blank = Blank
  None = None
  Variants <- MCVariants
  Edges = {}
  Labels = {}
  Registries <- MCRegistries
  Declarations = {None, other}
  SilverMessages <- MCSilverMessages
  CmMessages <- MCCmMessages
  STALENESS_WINDOW_S = 3
  RECHECK_MIN_DELAY_S = 1
  InputUntil = 6
  MaxTime = 7
  MaxBacklog = 2
INVARIANTS
  OneEntryPerEpisode
  ContextIsOfOpenEpisode
  EpisodeIdentity
  OpenFaultsSurviveWipe
  AppliedModsSurviveWipe
  RowCatchesUp
  NoReportCountsTwice
  TroubleIsAlarmed
PROPERTIES
  FrozenStaysFrozen
  ClosedIsHistory
CHECK_DEADLOCK FALSE
