SPECIFICATION Spec
CONSTANTS
  slot = slot
  mod = mod
  part = part
  base = base
  other = other
  event = event
  edge = edge
  nation = nation
  hull = hull
  Slots = {slot}
  Mods = {mod}
  CIs = {part}
  BaselineIds = {base, other}
  Unverified = Unverified
  NotInstalled = NotInstalled
  Second = 2
  Components = {hull}
  Faults = {}
  EventIds = {event}
  Blank = Blank
  None = None
  Variants <- MCVariants
  Edges = {edge}
  Labels = {nation}
  Registries <- AddedRegistry
  Declarations = {None}
  SilverMessages <- NamedTelemetry
  CmMessages = {}
  STALENESS_WINDOW_S = 1
  RECHECK_MIN_DELAY_S = 1
  InputUntil = 3
  MaxTime = 9
PROPERTIES
  RegisteredReinitializes
CHECK_DEADLOCK FALSE
