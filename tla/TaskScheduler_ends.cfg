\* A marked task settles, also when its definition is lost, when it is handed over to a
\* replacement, and when the process dies; close completes with leaked commits and a
\* poisoned line.
CONSTANTS
  t1 = t1  t2 = t2
  Tasks = {t1}
  Invs = {i1, i2}
  Checkpoints = {c1, c2}
  Versions = {1}
  Memos = {}
  NoCp = NoCp  NoMemo = NoMemo  NoDef = NoDef  NoInv = NoInv  NoTask = NoTask
  Background = {}
  After <- NoDeps
  Defs <- SameDefs
  Registered <- OneDef
  Budgets <- Ending
SPECIFICATION FairSpec
INVARIANTS
  StorageClosesLast
PROPERTIES
  AbortSettles CloseCompletes
