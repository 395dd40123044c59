--------------------------- MODULE MCTaskScheduler ---------------------------
(* Values of the constants of TaskScheduler for TLC. *)
EXTENDS TaskScheduler, TLC

CONSTANTS t1, t2

\* A definition, a replacement of the same version, and a newer one with a
\* migration.
Def1  == [id |-> "v1", ver |-> 1, mig |-> FALSE]
Def1b == [id |-> "v1b", ver |-> 1, mig |-> FALSE]
Def2  == [id |-> "v2", ver |-> 2, mig |-> TRUE]

OneDef == {Def1}
SameDefs == {Def1, Def1b}
MigDefs == {Def1, Def2}

NoDeps == [t \in Tasks |-> {}]
Chain == [t \in Tasks |-> IF t = t2 THEN {t1} ELSE {}]

Allowed(kinds) == [k \in BudgetKinds |-> IF k \in kinds THEN 1 ELSE 0]

Failing == {Allowed({"reject", "abort", "close", "wait", "idle"})}
Changing == {Allowed({"swap", "crash", "abort"})}
Ending == {Allowed({"swap", "abort"}), Allowed({"crash", "abort"}),
           Allowed({"poison", "close", "leak"})}

\* Checkpoints are only compared with one another.
Alike == Permutations(Checkpoints)
==============================================================================
