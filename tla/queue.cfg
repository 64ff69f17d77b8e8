\* Two tasks, three entries, a consumer and a reader of Size.
SPECIFICATION FairSpec
CONSTANTS
  t1 = t1
  t2 = t2
  Tasks = {t1, t2}
  Nil = Nil
  Priority <- MCPriority
  Consumers = {c1}
  Readers = {r1}
  MaxEntries = 3
INVARIANTS
  TypeOK
  PassOwnsDelayed
  SizeNotInflated
PROPERTIES
  Implements
  DueIsMoved
