CONSTANTS
  Session = {s1, s2}
  Addr = {a1, a2}
  Stamp = {t1, t2}
  NoSession = NoSession
  NoId = NoId
  Reading <- AnyReading
SPECIFICATION FairSpec
INVARIANTS
  TypeOK
  IndicesAgree
  NoOrphanConnection
  OneOpenPerAddress
  ListedNotDisconnected
  SweepTargetsListed
PROPERTIES
  EvictionIsFinal
  ImplementsTable
  IdleSessionsAreClosed
