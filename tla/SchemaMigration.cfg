SPECIFICATION MCSpec
CONSTANTS
  Procs = {p1, p2}
  Memories = {a, b}
  Migrators = {m1, m2}
  Chats = {c1, c2}
  Starters = {s1, s2}
  MaxValues = 4
  MaxRows = 6
SYMMETRY Symmetry
INVARIANTS
  ForgottenVectorsAreFound
  IndexedMemoriesHaveVectors
  MigratedOrderKept
  NumberedMessagesReadable
  MemoriesStayReadable
PROPERTIES
  SwitchKeepsAuthority
  RevokedStaysRevoked
\* after the switch every v1 process ends
CHECK_DEADLOCK FALSE
