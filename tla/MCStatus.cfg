SPECIFICATION Spec
CONSTANTS
  slot = slot
  mod = mod
  part = part
  base = base
  other = other
  event = event
  edge = edge
  nation = nation
  hull = hull
  Slots = {slot}
  Mods = {mod}
  CIs = {part}
  BaselineIds = {base, other}
  Unverified = Unverified
  NotInstalled = NotInstalled
  Second = 2
  Components = {hull}
  Faults = {}
  EventIds = {event}
  Blank = Blank
  None = None
  Variants <- MCVariants
  Edges = {edge}
  Labels = {nation}
  Registries <- MCRegistries
  Declarations = {None}
  SilverMessages <- MCSilverMessages
  CmMessages <- MCCmMessages
  STALENESS_WINDOW_S = 1
  RECHECK_MIN_DELAY_S = 1
  InputUntil = 6
  MaxTime = 9
INVARIANTS
  TypeOK
  AlarmFollowsStatus
  AlertedMatchesSent
  CmStateMirrorsRecord
PROPERTIES
  AlertsAlternate
  StatusFollowsFindings
  GraveDeviationIsAlarmed
  DetectionTimesKept
  LabelsSurvive
  DecommissionedIsFinal
  KeepsPromise
CHECK_DEADLOCK FALSE
