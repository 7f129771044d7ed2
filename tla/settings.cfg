SPECIFICATION FairSpec
CONSTANTS
  p1 = p1
  p2 = p2
  a = a
  b = b
  bad = bad
  Nil = Nil
  NoFile = NoFile
  Corrupt = Corrupt
  Absent = Absent
  Unknown = Unknown
  Puts = {p1, p2}
  Plain <- MCPlain
  Pointers <- MCPointers
  Profile = "savings_profile"
  Values <- MCValues
  BadValues = {bad}
  Default = a
  Zero = b
  Bodies <- MCBodies
  Files <- MCFiles
  Versions = {"old", "new"}
  OldVersions = {"old"}
  MaxRestarts = 1
INVARIANTS
  TypeOK
  FileStaysLoadable
  NoLostUpdate
  DiskMatchesMemory
PROPERTIES
  PutsAnswered
  RestartRestores
