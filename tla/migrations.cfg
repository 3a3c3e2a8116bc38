SPECIFICATION Spec
CONSTANTS
  m1 = m1
  m2 = m2
  Migrators = {m1, m2}
  Head = 7
  Targets = {0, 4, 7}
  Creates <- RevisionCreates
  Drops <- RevisionDrops
  ModelObjects <- DeclaredObjects
INVARIANTS
  SchemaIsOfRevision
  HeadIsModels
  StepsAreAccepted
  LateMigratorsAreRefused
  OldReleasesCanWrite
