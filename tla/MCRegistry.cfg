SPECIFICATION RegSpec
CONSTANTS
  base = base
  other = other
  Variants <- MCVariants
  Ids = {base, other}
  None = None
  DirectoryOf <- MCDirectoryOf
  Snapshots <- MCSnapshots
  Broken = Broken
  MaxFrames = 4
  MaxEdits = 2
INVARIANTS
  LockDiscipline
  NoLookupMisses
  HangupTakesEffect
CHECK_DEADLOCK FALSE
