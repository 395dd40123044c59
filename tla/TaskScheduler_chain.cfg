\* Two tasks, the second created after the first, while the definition is replaced, the
\* running task handed over to the replacement, and the process dies.
CONSTANTS
  t1 = t1  t2 = t2
  Tasks = {t1, t2}
  Invs = {i1, i2}
  Checkpoints = {c1, c2}
  Versions = {1, 2}
  Memos = {}
  NoCp = NoCp  NoMemo = NoMemo  NoDef = NoDef  NoInv = NoInv  NoTask = NoTask
  Background = {}
  After <- Chain
  Defs <- MigDefs
  Registered <- MigDefs
  Budgets <- Changing
SPECIFICATION Spec
SYMMETRY Alike
INVARIANTS
  OneHandlerPerTask HandlerMatchesVersion RunFollowsDependencies AbortReturnsAfterRun NoLostWakeup
PROPERTIES
  SchedulerOutcomeWaits
