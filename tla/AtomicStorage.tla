---------------------------- MODULE AtomicStorage ----------------------------
(***************************************************************************)
(* What a Storage backend promises the Session above it                    *)
(* (packages/durable/src/types.ts, Storage): batches of writes are         *)
(* committed one at a time, each of them whole or not at all, and what is  *)
(* read is what the committed batches say, whatever the files look like.   *)
(* JsonlStorage implements it.                                             *)
(***************************************************************************)
EXTENDS Naturals, Sequences

CONSTANTS
    Tasks,         \* task records: replaced whole, until a terminal one
    Latest,        \* documents of which only the current content is read
    Rewindable     \* documents whose every revision stays readable

Objects == Tasks \cup Latest \cup Rewindable

VARIABLES
    mayLosePower,  \* the host itself may fail
    committed,     \* the committed batches, each [Objects -> sequence of ops]
    view           \* what is read: Opened contents of the objects, or Closed

Closed == <<>>
Opened(contents) == <<contents>>

\* The positions of a log of batches at which object o is written.
Writes(log, o) == UNION {{<<i, k>> : k \in DOMAIN log[i][o]} : i \in DOMAIN log}

Later(p, q) == p[1] < q[1] \/ (p[1] = q[1] /\ p[2] < q[2])

\* A write w to o replaces everything written before.
Replaces(o, w) == o \in Tasks \/ (o \in Latest /\ (w.kind = "base" \/ w.op = "retire"))

\* What a log amounts to for o: whether the object has ended, and the writes that
\* no later one replaces.
Amounts(log, o) ==
    LET At(p) == log[p[1]][o][p[2]]
        written == Writes(log, o)
        kept == {p \in written : /\ At(p).op # "retire"
                                 /\ \A q \in written : Later(p, q) => ~Replaces(o, At(q))}
        Some(op) == \E p \in written : At(p).op = op
    IN  [st |-> IF written = {} THEN "none"
                ELSE IF Some("terminal") THEN "terminal"
                ELSE IF Some("retire") THEN "retired" ELSE "live",
         revs |-> {[seq |-> p[1], kind |-> At(p).kind, att |-> At(p).att] : p \in kept}]

Contents(log) == [o \in Objects |-> Amounts(log, o)]

Init == mayLosePower \in BOOLEAN /\ committed = <<>> /\ view = Opened(Contents(committed))

OneMore == Len(committed') = Len(committed) + 1 /\ committed = SubSeq(committed', 1, Len(committed))

Commit == view # Closed /\ OneMore /\ view' = Opened(Contents(committed'))

\* The backend is poisoned, or its process dies: a batch under way may or may
\* not have been committed.
Close ==
    /\ view' = Closed
    /\ \/ UNCHANGED committed
       \/ view # Closed /\ OneMore

Open == view = Closed /\ view' = Opened(Contents(committed)) /\ UNCHANGED committed

\* The tail of the acknowledged batches may go with the power, never a batch
\* before one that stays.
LosePower ==
    /\ mayLosePower /\ view' = Closed
    /\ Len(committed') <= Len(committed) /\ committed' = SubSeq(committed, 1, Len(committed'))

Next == (Commit \/ Close \/ Open \/ LosePower) /\ UNCHANGED mayLosePower

Spec == Init /\ [][Next]_<<mayLosePower, committed, view>>
==============================================================================
