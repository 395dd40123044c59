---------------------------- MODULE TaskLifecycle ----------------------------
(***************************************************************************)
(* What the durable runtime (packages/durable) promises about task         *)
(* records, seen from outside: the only changes a commit may make to one,  *)
(* whatever handlers run, fail or leak, and whenever the process dies.     *)
(* TaskScheduler is the detailed specification that implements it.         *)
(***************************************************************************)
EXTENDS TaskRecords

VARIABLE rec      \* rec[t]: the committed record of task t

Init == rec = [t \in Tasks |-> Absent]

------------------------------------------------------------------------------
(* The changes of one record, as relations between its value r before a     *)
(* commit and q after it.                                                   *)

Created(r, q) ==
    r = Absent /\ \E c \in Checkpoints, v \in Versions : q = NewRecord(c, v)

\* A reservation keeps mark and memo; only a migration changes the checkpoint,
\* and it raises the version.  An unmarked pending task waits for its
\* dependencies.
Reserved(t, r, q) ==
    /\ IsLive(r)
    /\ q \in LiveRecord
    /\ q.st = "running" /\ q.mark = r.mark /\ q.memo = r.memo
    /\ q.ver > r.ver \/ (q.ver = r.ver /\ q.cp = r.cp)
    /\ r.st = "pending" /\ ~r.mark => \A d \in After[t] : ~IsLive(rec[d])

\* Handover to a replacement definition, or recovery of a `running` record
\* that survived its process.
GivenBack(r, q) == r.st = "running" /\ q = [r EXCEPT !.st = "pending"]

\* Durable progress committed by an invocation that holds the task.
Advanced(r, q) ==
    r.st = "running" /\ \E c \in Checkpoints : q = [r EXCEPT !.cp = c]

\* A memo is written once; the first writer wins until the task settles.
Memoised(r, q) ==
    /\ r.st = "running" /\ r.memo = NoMemo
    /\ \E m \in Memos : q = [r EXCEPT !.memo = m]

AbortMarked(r, q) == IsLive(r) /\ q = [r EXCEPT !.mark = TRUE]

\* A run handler settles only an unmarked task, an abort handler only a marked
\* one, and each only a task that is reserved; so does a fault.
Terminated(r, q) ==
    /\ IsLive(r)
    /\ \E author \in Authors \ {"none"} :
        /\ q = Settled(r, author)
        /\ author = "run" => r.st = "running" /\ ~r.mark
        /\ author = "abort" => r.st = "running" /\ r.mark
        /\ author = "faulted" => r.st = "running"

Change(t, r, q) ==
    \/ Created(r, q)
    \/ Reserved(t, r, q)
    \/ GivenBack(r, q)
    \/ Advanced(r, q)
    \/ Memoised(r, q)
    \/ AbortMarked(r, q)
    \/ Terminated(r, q)

\* One commit may change several records; it changes each by one legal change.
Next ==
    /\ rec' \in [Tasks -> Record]
    /\ \A t \in Tasks : rec'[t] = rec[t] \/ Change(t, rec[t], rec'[t])

Spec == Init /\ [][Next]_rec

------------------------------------------------------------------------------
TypeOK == rec \in [Tasks -> Record]

\* A terminal record is a permanent receipt: no commit changes it again.
TerminalIsFinal ==
    [][\A t \in Tasks : rec[t].st = "terminal" => rec'[t] = rec[t]]_rec

\* An abort mark, once committed, is never lost, and neither is a record nor
\* the version it has reached.
MarkAndVersionGrow ==
    [][\A t \in Tasks : /\ rec[t].mark => rec'[t].mark
                        /\ rec[t] # Absent => rec'[t] # Absent
                        /\ rec'[t].ver >= rec[t].ver]_rec
==============================================================================
