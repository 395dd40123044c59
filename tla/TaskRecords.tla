----------------------------- MODULE TaskRecords -----------------------------
(***************************************************************************)
(* Task records of the durable runtime (packages/durable/src/types.ts):    *)
(* their possible values and the operators that build them.  A record      *)
(* keeps what scheduling decisions read: status, checkpoint, definition    *)
(* version, abort mark, one memo, and who wrote the outcome.               *)
(***************************************************************************)
EXTENDS Naturals

CONSTANTS
    Tasks,        \* task ids
    Checkpoints,  \* checkpoint values, told apart by jsonEqual() only
    NoCp,         \* the checkpoint of a record that has none
    Versions,     \* definition versions
    Memos,        \* values a durable memo may take
    NoMemo,       \* no memo stored
    After         \* After[t]: the tasks named by the `after` option of t

ASSUME RecordAssumption ==
    /\ NoCp \notin Checkpoints
    /\ NoMemo \notin Memos
    /\ Versions \subseteq Nat \ {0}
    /\ After \in [Tasks -> SUBSET Tasks]

\* Who wrote a terminal outcome: the run handler, the abort handler, or the
\* scheduler itself (SchedulerOutcome).
Authors == {"none", "run", "abort", "faulted", "orphaned"}

Absent == [st |-> "absent", cp |-> NoCp, ver |-> 0, mark |-> FALSE,
           memo |-> NoMemo, by |-> "none"]

LiveRecord ==
    [st: {"pending", "running"}, cp: Checkpoints, ver: Versions,
     mark: BOOLEAN, memo: Memos \cup {NoMemo}, by: {"none"}]

TerminalRecord ==
    [st: {"terminal"}, cp: {NoCp}, ver: Versions,
     mark: BOOLEAN, memo: {NoMemo}, by: Authors \ {"none"}]

Record == {Absent} \cup LiveRecord \cup TerminalRecord

IsLive(r) == r.st \in {"pending", "running"}

\* Mutant: memos survive the terminal replacement.
SettledWithMemo(r, author) ==
    [r EXCEPT !.st = "terminal", !.cp = NoCp, !.by = author]

\* withState(record, {status: "terminal"}): the checkpoint and the memos go.
Settled(r, author) ==
    [r EXCEPT !.st = "terminal", !.cp = NoCp, !.memo = NoMemo, !.by = author]

\* tx.createTask(): a fresh, unmarked pending record of some version.
NewRecord(c, v) ==
    [st |-> "pending", cp |-> c, ver |-> v, mark |-> FALSE,
     memo |-> NoMemo, by |-> "none"]
==============================================================================
