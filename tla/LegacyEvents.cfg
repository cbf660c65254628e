SPECIFICATION MCSpec
CONSTANTS
  Procs = {p1, p2}
  Memories = {a, b}
  Migrators = {m1, m2}
  Chats = {c1, c2}
  Starters = {s1, s2}
  MaxValues = 1
  MaxRows = 3
SYMMETRY Symmetry
INVARIANT
  MigratedThreadsReadable
CHECK_DEADLOCK FALSE
