\* One task under rejected commits, competing memos, an abort, waiters and close.
CONSTANTS
  t1 = t1  t2 = t2
  Tasks = {t1}
  Invs = {i1, i2}
  Checkpoints = {c1}
  Versions = {1}
  Memos = {m1, m2}
  NoCp = NoCp  NoMemo = NoMemo  NoDef = NoDef  NoInv = NoInv  NoTask = NoTask
  Background = {}
  After <- NoDeps
  Defs <- OneDef
  Registered <- OneDef
  Budgets <- Failing
SPECIFICATION Spec
INVARIANTS
  TypeOK LiveMirrorsDurable WaitersAreServed
PROPERTIES
  MarkStopsRun ImplementsLifecycle
