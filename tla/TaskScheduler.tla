---------------------------- MODULE TaskScheduler ----------------------------
(***************************************************************************)
(* The durable task scheduler of one Harness                               *)
(* (packages/durable/src/harness/scheduler.ts) over the Session line       *)
(* (packages/durable/src/session/session.ts).                              *)
(*                                                                         *)
(* The Session line runs one job at a time.  A job is a callback that reads *)
(* committed state and stages writes, followed by one Storage commit.  The  *)
(* model splits it there: an action of the callback puts the writes in      *)
(* `staged`, a later one settles them, and everything that needs no line    *)
(* (close, registry changes, handlers, a crash) may happen in between.  A   *)
(* queued job is recorded in the state of whoever queued it, and the line   *)
(* serves the queued jobs in any order, which includes the FIFO order.      *)
(***************************************************************************)
EXTENDS TaskRecords, FiniteSets

CONSTANTS
    Background,   \* tasks created with the `background` option
    Defs,         \* task definitions: [id, ver, mig], mig: has a migrate()
    Registered,   \* those the registry may resolve at first
    NoDef,        \* the registry resolves no definition
    Invs,         \* invocation objects that may exist at one time
    NoInv, NoTask,
    Budgets       \* bounds: what the environment may do in a behaviour

\* A behaviour draws one of the budgets.  Crashes, failed commits, registry
\* changes and aborts are counted; callers wait for tasks or for idle or close
\* the Harness, and handlers leave runtime commits behind, if theirs is not 0.
Permissions == {"wait", "idle", "close", "leak"}
BudgetKinds == {"crash", "reject", "poison", "swap", "abort"} \cup Permissions

ASSUME SchedulerAssumption ==
    /\ Background \subseteq Tasks
    /\ \A d \in Defs : d.ver \in Versions /\ d.mig \in BOOLEAN
    /\ Registered \subseteq Defs
    /\ NoDef \notin Defs /\ NoInv \notin Invs /\ NoTask \notin Tasks
    /\ Budgets \subseteq [BudgetKinds -> Nat]

VARIABLES
    durable,   \* durable[t]: the task record in Storage
    poisoned,  \* #poison: a commit failed after Storage admission
    job,       \* the job on the line
    staged,    \* staged[t]: the record the job writes, Absent for none
    todo,      \* live records the reserve callback has still to visit
    sess,      \* "down", "opening", "open", "closed"
    live,      \* #live: mirror of the committed pending and running records
    slot,      \* #invocations: slot[t]
    inv,       \* the invocation objects
    enabled, closing, dirty,
    drain,     \* #draining, and where #drain() is
    stalled,   \* the last pass failed and no wakeup has followed it
    failed,    \* #failedMigrations: failed[t]
    registry,  \* the definition the registry resolves for the tasks' kind
    joined,    \* invocations join() still waits for
    closePc,   \* how far Session.close() is
    waiter,    \* waitForTask(t)
    idler,     \* waitForIdle()
    abortPc, joins, \* abort(t), and the run invocation it joins
    budget

storeVars == <<durable, poisoned, live>>
lineVars == <<job, staged, todo>>
loopVars == <<enabled, dirty, drain, stalled>>
joinVars == <<joined, joins, abortPc>>
waitVars == <<waiter, idler>>
closeVars == <<sess, closing, closePc>>
envVars == <<registry, budget>>
outerVars == <<waitVars, closeVars, envVars>>
vars == <<durable, poisoned, live, job, staged, todo, enabled, dirty, drain,
          stalled, slot, inv, joined, joins, sess, closing, closePc, waiter,
          idler, abortPc, failed, registry, budget>>

------------------------------------------------------------------------------
(* Data *)

\* An invocation object.  `prev` is the checkpoint its last phase ran on
\* (NoCp: none ran yet) and `threw` whether that phase or the abort handler
\* threw; `sig` is its AbortController, `out` a runtime commit waiting for the
\* line, awaited by the handler or leaked by it: queued before the invocation's
\* next step ("ahead") or after it ("behind").
Pcs == {"free", "reserved", "granted", "step", "settling", "dispatch",
        "handler", "finally", "done"}

Invocation ==
    [pc: Pcs, task: Tasks \cup {NoTask}, mode: {"run", "abort"},
     ended: BOOLEAN, def: Defs \cup {NoDef}, prev: Checkpoints \cup {NoCp},
     threw: BOOLEAN, sig: BOOLEAN, out: {"none", "ahead", "behind"}]

FreeInv == [pc |-> "free", task |-> NoTask, mode |-> "run", ended |-> TRUE,
            def |-> NoDef, prev |-> NoCp, threw |-> FALSE, sig |-> FALSE,
            out |-> "none"]

NewInv(t, mode, d) ==
    [FreeInv EXCEPT !.pc = "reserved", !.task = t, !.mode = mode,
                    !.ended = FALSE, !.def = d]

Job == [kind: {"none", "open", "reserve", "step", "commit", "abort", "create"},
        inv: Invs \cup {NoInv}, task: Tasks \cup {NoTask},
        def: Defs \cup {NoDef}]
NoJob == [kind |-> "none", inv |-> NoInv, task |-> NoTask, def |-> NoDef]
NoWrites == [t \in Tasks |-> Absent]

\* Session.#assertUsable: a job is admitted only before close and poison.
Usable == sess = "open" /\ ~closing /\ ~poisoned

\* A healthy job may start: #runCommit checks the poison again on the line.
LineFree == sess = "open" /\ job = NoJob

LiveOf(records) ==
    [t \in Tasks |-> IF IsLive(records[t]) THEN records[t] ELSE Absent]

\* Mutant: dependencies are ignored.
WaitingOnNothing(t) == {}

\* #waitingOn
WaitingOn(t) ==
    IF live[t].mark \/ live[t].st # "pending"
    THEN {} ELSE {d \in After[t] : live[d] # Absent}

\* #idle(undefined), of a mirror m
Idle(m) == \A t \in Tasks \ Background : m[t] = Absent

\* #fit finds no definition that could take the record.
Unfit(t, r, d) ==
    \/ d = NoDef
    \/ d.ver < r.ver
    \/ d.ver > r.ver /\ failed[t] = d

\* Mutant: a migration converts the checkpoint but keeps the stored version.
MigratedInPlace(t, r, d) ==
    IF Unfit(t, r, d) \/ d.ver = r.ver
    THEN {[ok |-> ~Unfit(t, r, d), tried |-> FALSE, rec |-> r]}
    ELSE {[ok |-> TRUE, tried |-> FALSE, rec |-> [r EXCEPT !.cp = c]] :
            c \in IF d.mig THEN Checkpoints ELSE {}}

\* #resolve: the ways it may end.  `rec` is the record to reserve, `tried`
\* that migrate() ran and threw (or does not exist) and is remembered.
Resolutions(t, r, d) ==
    IF Unfit(t, r, d) THEN {[ok |-> FALSE, tried |-> FALSE, rec |-> r]}
    ELSE IF d.ver = r.ver THEN {[ok |-> TRUE, tried |-> FALSE, rec |-> r]}
    ELSE {[ok |-> FALSE, tried |-> TRUE, rec |-> r]} \cup
         {[ok |-> TRUE, tried |-> FALSE,
           rec |-> [r EXCEPT !.ver = d.ver, !.cp = c]] :
             c \in IF d.mig THEN Checkpoints ELSE {}}

\* canReserve
CanReserve(d, r) == d.ver = r.ver \/ (d.ver > r.ver /\ d.mig)

------------------------------------------------------------------------------
(* Shared effects *)

\* Where #draining stands after #kick(), when it stood at d before.
Kicked(d) == IF d = "off" /\ enabled /\ ~closing THEN "queued" ELSE d

\* Mutants: a kick is lost, always or while the loop is draining.
KickLost == UNCHANGED loopVars
KickLostWhileDraining ==
    IF drain # "off" THEN UNCHANGED loopVars
    ELSE dirty' = TRUE /\ drain' = Kicked(drain) /\ stalled' = FALSE /\ UNCHANGED enabled

Kick ==
    /\ dirty' = TRUE
    /\ drain' = Kicked(drain)
    /\ stalled' = FALSE
    /\ UNCHANGED enabled

\* resume(): submit() and every wait call it too.
Resume ==
    /\ enabled' = TRUE
    /\ dirty' = TRUE
    /\ drain' = IF drain = "off" /\ ~closing THEN "queued" ELSE drain
    /\ stalled' = FALSE

\* #end of invocation i, whose next state is the record w.
End(i, w) ==
    /\ inv' = [inv EXCEPT ![i] = [w EXCEPT !.ended = TRUE]]
    /\ slot' = [t \in Tasks |-> IF slot[t] = i THEN NoInv ELSE slot[t]]

\* Mutant: an invocation ends without resolving `done` for close.
FinishUnseen(S) ==
    UNCHANGED <<joined, joins>>
      /\ abortPc' = [t \in Tasks |-> IF abortPc[t] = "joining" /\ joins[t] \in S
                                     THEN "returned" ELSE abortPc[t]]

\* finish() of the invocations of set S: close and abort() stop joining them.
Finish(S) ==
    /\ joined' = joined \ S
    /\ joins' = [t \in Tasks |-> IF joins[t] \in S THEN NoInv ELSE joins[t]]
    /\ abortPc' = [t \in Tasks |-> IF abortPc[t] = "joining" /\ joins[t] \in S
                                   THEN "returned" ELSE abortPc[t]]

\* The record of invocation i once it has nothing more to do: its object
\* lives on while a runtime commit it leaked is still queued.
Retired(w) == IF w.out # "none" THEN [w EXCEPT !.pc = "done", !.ended = TRUE]
              ELSE FreeInv

------------------------------------------------------------------------------
(* The process: open, crash, close, and the registry *)

\* What a process starts with, apart from its line and its mirror.
Fresh ==
    /\ poisoned' = FALSE
    /\ enabled' = FALSE /\ dirty' = FALSE /\ drain' = "off" /\ stalled' = FALSE
    /\ slot' = [t \in Tasks |-> NoInv]
    /\ inv' = [i \in Invs |-> FreeInv]
    /\ joined' = {} /\ joins' = [t \in Tasks |-> NoInv]
    /\ closing' = FALSE /\ closePc' = "none"
    /\ waiter' = [t \in Tasks |-> "idle"] /\ idler' = "idle"
    /\ abortPc' = [t \in Tasks |-> "idle"]
    /\ failed' = [t \in Tasks |-> NoDef]

Init ==
    /\ durable = [t \in Tasks |-> Absent]
    /\ poisoned = FALSE
    /\ live = [t \in Tasks |-> Absent]
    /\ job = NoJob /\ staged = NoWrites /\ todo = {}
    /\ sess = "down"
    /\ slot = [t \in Tasks |-> NoInv]
    /\ inv = [i \in Invs |-> FreeInv]
    /\ enabled = FALSE /\ closing = FALSE /\ dirty = FALSE
    /\ drain = "off" /\ stalled = FALSE
    /\ failed = [t \in Tasks |-> NoDef]
    /\ registry \in Registered
    /\ joined = {} /\ closePc = "none"
    /\ waiter = [t \in Tasks |-> "idle"] /\ idler = "idle"
    /\ abortPc = [t \in Tasks |-> "idle"] /\ joins = [t \in Tasks |-> NoInv]
    /\ budget \in Budgets

\* The environment does one of the things whose number is bounded.
Spend(kind) ==
    budget[kind] > 0 /\ budget' = [budget EXCEPT ![kind] = @ - 1]

May(permission) == budget[permission] > 0

\* open(): mirror the live records and stage `running` ones back to `pending`,
\* keeping checkpoint, memo and mark.  Without any it commits nothing.
Open ==
    LET survivors == {t \in Tasks : durable[t].st = "running"} IN
    /\ sess \in {"down", "closed"}
    /\ \A i \in Invs : inv[i].pc = "free"
    /\ Fresh
    /\ live' = LiveOf(durable)
    /\ staged' = [t \in Tasks |-> IF t \in survivors
                                  THEN [durable[t] EXCEPT !.st = "pending"]
                                  ELSE Absent]
    /\ IF survivors = {}
       THEN sess' = "open" /\ job' = NoJob
       ELSE sess' = "opening" /\ job' = [NoJob EXCEPT !.kind = "open"]
    /\ todo' = {}
    /\ UNCHANGED <<durable, envVars>>

\* The records in Storage once the staged writes are committed.
Landed == [t \in Tasks |-> IF staged[t] # Absent THEN staged[t] ELSE durable[t]]

\* The process dies; a batch that was being committed is in Storage or not.
Crash ==
    /\ sess \in {"opening", "open"}
    /\ Spend("crash")
    /\ durable' \in {durable} \cup (IF todo = {} THEN {Landed} ELSE {})
    /\ live' = [t \in Tasks |-> Absent]
    /\ sess' = "down"
    /\ job' = NoJob /\ staged' = NoWrites /\ todo' = {}
    /\ Fresh
    /\ UNCHANGED registry

\* The registry resolves another definition, or none; it kicks its subscriber
\* until close unsubscribes it.
Swap ==
    /\ Spend("swap")
    /\ registry' \in (Defs \cup {NoDef}) \ {registry}
    /\ IF sess \in {"opening", "open"} /\ ~closing
       THEN Kick ELSE UNCHANGED loopVars
    /\ UNCHANGED <<storeVars, lineVars, slot, inv, joinVars, failed, waitVars, closeVars>>

\* Mutant: close leaves its waiters alone.
LeftWaiting(w) == w

\* Waiters.rejectAll, of one waiter
Rejected(w) == IF w = "waiting" THEN "rejected" ELSE w

\* Session.close(): admission is sealed and #seal() runs, all synchronously.
Close ==
    /\ May("close") /\ sess = "open" /\ ~closing
    /\ closing' = TRUE /\ closePc' = "sealed"
    /\ waiter' = [t \in Tasks |-> Rejected(waiter[t])]
    /\ idler' = Rejected(idler)
    /\ inv' = [i \in Invs |-> IF \E t \in Tasks : slot[t] = i
                              THEN [inv[i] EXCEPT !.sig = TRUE] ELSE inv[i]]
    /\ UNCHANGED <<storeVars, lineVars, loopVars, slot, joinVars, failed, sess, envVars>>

\* beforeClose(), a microtask later: join() lists the invocations to wait for.
Join ==
    /\ closePc = "sealed"
    /\ closePc' = "joining"
    /\ joined' = {i \in Invs : \E t \in Tasks : slot[t] = i}
    /\ UNCHANGED <<storeVars, lineVars, loopVars, slot, inv, joins, abortPc, failed, waitVars, sess, closing, envVars>>

\* Mutant: Storage closes without waiting for the line.
NeverBusy == TRUE

\* Every job admitted before close has been served.
LineDrained ==
    /\ job = NoJob
    /\ drain # "reserving"
    /\ \A i \in Invs : inv[i].pc # "step" /\ inv[i].out = "none"
    /\ \A t \in Tasks : waiter[t] # "queued" /\ abortPc[t] # "queued"

\* The last job of the line closes Storage.
CloseStorage ==
    /\ closePc = "joining" /\ joined = {} /\ LineDrained
    /\ closePc' = "done" /\ sess' = "closed"
    /\ UNCHANGED <<storeVars, lineVars, loopVars, slot, inv, joinVars, failed, waitVars, closing, envVars>>

------------------------------------------------------------------------------
(* The scheduling loop *)

\* One turn of #drain(): take the wakeup and ask for a reservation, or stop.
\* A pass that cannot be admitted stops the loop like any failed pass.
DrainTurn ==
    /\ drain = "queued"
    /\ \A i \in Invs : inv[i].pc # "granted"
    /\ IF dirty /\ enabled /\ ~closing
       THEN /\ dirty' = FALSE
            /\ drain' = IF Usable THEN "reserving" ELSE "off"
            /\ stalled' = ~Usable
       ELSE drain' = "off" /\ UNCHANGED <<dirty, stalled>>
    /\ UNCHANGED <<storeVars, lineVars, enabled, slot, inv, joinVars, failed, outerVars>>

\* Mutant: a pass takes up a task that an invocation holds.
CandidatesHeldToo == {t \in Tasks : live[t] # Absent /\ WaitingOn(t) = {}}

\* Tasks #reserve() takes up: neither held nor waiting.  While its callback
\* runs, no task becomes one (only close can end an invocation off the line,
\* and then whatever the pass reserves ends before it runs).
Candidates == {t \in Tasks : live[t] # Absent /\ slot[t] = NoInv /\ WaitingOn(t) = {}}

\* The callback of #reserve() starts: a snapshot of registry and live tasks.
\* Invs bounds the model: a pass waits until it has an object for every task
\* it may take.
ReserveBegin ==
    /\ LineFree /\ ~poisoned /\ drain = "reserving"
    /\ Cardinality(Candidates) <= Cardinality({i \in Invs : inv[i].pc = "free"})
    /\ job' = [NoJob EXCEPT !.kind = "reserve", !.def = registry]
    /\ todo' = IF enabled /\ ~closing THEN Candidates ELSE {}
    /\ UNCHANGED <<storeVars, staged, loopVars, slot, inv, joinVars, failed, outerVars>>

Remember(t, res, d) ==
    failed' = IF res.tried THEN [failed EXCEPT ![t] = d] ELSE failed

\* No definition can take the task: an abort mark orphans it, and without one
\* it stays as it is.
VisitBlocked(t) ==
    /\ t \in todo
    /\ \E res \in Resolutions(t, live[t], job.def) :
        /\ ~res.ok
        /\ Remember(t, res, job.def)
    /\ staged' = IF live[t].mark
                 THEN [staged EXCEPT ![t] = Settled(live[t], "orphaned")]
                 ELSE staged
    /\ todo' = todo \ {t}
    /\ UNCHANGED <<storeVars, job, loopVars, slot, inv, joinVars, outerVars>>

\* Invocation objects are interchangeable.
FreshInv == CHOOSE i \in Invs : inv[i].pc = "free"

\* Reserve the task for a new invocation in the mode its mark selects.  A
\* record that is `running` already and needs no migration is not written.
VisitReserve(t) ==
    /\ t \in todo
    /\ \E i \in Invs : inv[i].pc = "free"
    /\ inv' = [inv EXCEPT ![FreshInv] =
                 NewInv(t, IF live[t].mark THEN "abort" ELSE "run", job.def)]
    /\ slot' = [slot EXCEPT ![t] = FreshInv]
    /\ \E res \in Resolutions(t, live[t], job.def) :
        /\ res.ok
        /\ staged' = IF res.rec # live[t] \/ live[t].st # "running"
                     THEN [staged EXCEPT ![t] = [res.rec EXCEPT !.st = "running"]]
                     ELSE staged
    /\ todo' = todo \ {t}
    /\ UNCHANGED <<storeVars, job, loopVars, joinVars, failed, outerVars>>

------------------------------------------------------------------------------
(* Invocations *)

\* #start: a run asks the line for its first step, an abort goes straight to
\* its handler.  A step that cannot be admitted ends the invocation.
Start(i) ==
    LET w == inv[i] IN
    /\ w.pc = "granted"
    /\ \/ /\ w.mode = "run" /\ Usable
          /\ inv' = [inv EXCEPT ![i].pc = "step"]
          /\ UNCHANGED slot
       \/ /\ w.mode = "run" /\ ~Usable
          /\ End(i, [w EXCEPT !.pc = "finally"])
       \/ /\ w.mode = "abort"
          /\ inv' = [inv EXCEPT ![i].pc = IF live[w.task] = Absent \/ closing
                                         THEN "finally" ELSE "handler"]
          /\ UNCHANGED slot
    /\ UNCHANGED <<storeVars, lineVars, loopVars, joinVars, failed, outerVars>>

\* #decide and the rules #step applies before it, for the step of invocation i.
MustEnd(i) ==
    LET cur == live[inv[i].task] IN
    \/ cur = Absent
    \/ closing
    \/ inv[i].mode = "run" /\ cur.mark

MustFault(i) ==
    LET w == inv[i] IN
    /\ ~MustEnd(i)
    /\ \/ w.mode = "abort"
       \/ w.prev # NoCp /\ (w.threw \/ live[w.task].cp = w.prev)

MustHandOver(i) ==
    LET w == inv[i] IN
    /\ ~MustEnd(i) /\ ~MustFault(i)
    /\ w.prev # NoCp
    /\ registry \notin {w.def, NoDef}
    /\ CanReserve(registry, live[w.task])

StepBegin(i) ==
    LineFree /\ ~poisoned /\ inv[i].pc = "step" /\ inv[i].out # "ahead"

StepEnds(i) ==
    /\ StepBegin(i) /\ MustEnd(i)
    /\ End(i, [inv[i] EXCEPT !.pc = "finally"])
    /\ UNCHANGED <<storeVars, lineVars, loopVars, joinVars, failed, outerVars>>

\* The next phase will run on the checkpoint read here.
StepContinues(i) ==
    /\ StepBegin(i)
    /\ ~MustEnd(i) /\ ~MustFault(i) /\ ~MustHandOver(i)
    /\ inv' = [inv EXCEPT ![i] = [@ EXCEPT !.pc = "dispatch", !.threw = FALSE,
                                          !.prev = live[inv[i].task].cp]]
    /\ UNCHANGED <<storeVars, lineVars, loopVars, slot, joinVars, failed, outerVars>>

\* A fault or a handover: the invocation ends before its write is committed.
StepWrites(i) ==
    LET t == inv[i].task IN
    /\ StepBegin(i) /\ (MustFault(i) \/ MustHandOver(i))
    /\ End(i, [inv[i] EXCEPT !.pc = "settling"])
    /\ job' = [NoJob EXCEPT !.kind = "step", !.inv = i]
    /\ staged' = [staged EXCEPT ![t] =
                     IF MustFault(i) THEN Settled(live[t], "faulted")
                     ELSE [live[t] EXCEPT !.st = "pending"]]
    /\ UNCHANGED <<storeVars, todo, loopVars, joinVars, failed, outerVars>>

\* Close may seal between the decision and dispatch.
Dispatch(i) ==
    /\ inv[i].pc = "dispatch"
    /\ inv' = [inv EXCEPT ![i].pc = IF closing THEN "finally" ELSE "handler"]
    /\ UNCHANGED <<storeVars, lineVars, loopVars, slot, joinVars, failed, outerVars>>

\* A runtime commit or memo is admitted from handler code, or from a promise
\* the handler leaked, until the invocation ends.
HandlerCommit(i) ==
    LET w == inv[i] IN
    /\ w.pc = "handler" \/ (May("leak") /\ w.pc \in {"step", "dispatch"})
    /\ ~w.ended /\ w.out = "none" /\ Usable
    /\ inv' = [inv EXCEPT ![i].out = IF w.pc = "step" THEN "behind" ELSE "ahead"]
    /\ UNCHANGED <<storeVars, lineVars, loopVars, slot, joinVars, failed, outerVars>>

\* Invocation i once its runtime commit has left the line.
Dequeued(w) == IF w.pc = "done" THEN FreeInv ELSE [w EXCEPT !.out = "none"]

CommitBegin(i) == LineFree /\ ~poisoned /\ inv[i].out # "none"

\* Mutant: the gate does not look for the abort mark.
GatedUnmarked(i) == inv[i].ended \/ closing \/ live[inv[i].task] = Absent

\* The gate of #gated, on the line.
Gated(i) ==
    LET w == inv[i] cur == live[w.task] IN
    \/ w.ended
    \/ closing
    \/ cur = Absent
    \/ w.mode = "run" /\ cur.mark

\* The gate rejects the commit, or the callback throws or changes no record.
CommitNothing(i) ==
    /\ CommitBegin(i)
    /\ inv' = [inv EXCEPT ![i] = Dequeued(@)]
    /\ UNCHANGED <<storeVars, lineVars, loopVars, slot, joinVars, failed, outerVars>>

\* Mutant: a later memo replaces the first one.
MemoAlways(r) == Memos

MemoChoices(r) == IF r.memo = NoMemo THEN Memos ELSE {}

\* The next checkpoint, a terminal outcome, or a memo nobody stored before.
CommitWrites(i) ==
    LET t == inv[i].task IN
    /\ CommitBegin(i) /\ ~Gated(i)
    /\ \E q \in {[live[t] EXCEPT !.st = "running", !.cp = c] : c \in Checkpoints}
              \cup {Settled(live[t], inv[i].mode)}
              \cup {[live[t] EXCEPT !.memo = m] : m \in MemoChoices(live[t])} :
         staged' = [staged EXCEPT ![t] = q]
    /\ job' = [NoJob EXCEPT !.kind = "commit", !.inv = i]
    /\ UNCHANGED <<storeVars, todo, loopVars, slot, inv, joinVars, failed, outerVars>>

\* The invocation w back from its handler: a commit it leaked is ahead of the
\* step it now asks for.
Returned(w, threw) ==
    [w EXCEPT !.pc = "step", !.threw = threw,
              !.out = IF w.out = "none" THEN "none" ELSE "ahead"]

\* A handler returns or throws, whether or not it was signalled; #step asks the
\* line for the decision, and a rejected request ends the invocation.
HandlerReturn(i) ==
    /\ inv[i].pc = "handler"
    /\ inv[i].out # "none" => May("leak")
    /\ \E threw \in BOOLEAN :
         IF Usable
         THEN inv' = [inv EXCEPT ![i] = Returned(inv[i], threw)] /\ UNCHANGED slot
         ELSE End(i, [inv[i] EXCEPT !.pc = "finally"])
    /\ UNCHANGED <<storeVars, lineVars, loopVars, joinVars, failed, outerVars>>

\* The finally block of #start: #end, finish(), #kick().
Finally(i) ==
    /\ inv[i].pc = "finally"
    /\ End(i, Retired(inv[i]))
    /\ Finish({i})
    /\ Kick
    /\ UNCHANGED <<storeVars, lineVars, failed, outerVars>>

------------------------------------------------------------------------------
(* Callers *)

\* Some commit creates a task; `after` can name only ids minted before.
Create(t) ==
    /\ LineFree /\ ~poisoned /\ closePc # "done"
    /\ durable[t] = Absent
    /\ \A d \in After[t] : durable[d] # Absent
    /\ \E c \in Checkpoints, d \in Defs :
         staged' = [staged EXCEPT ![t] = NewRecord(c, d.ver)]
    /\ job' = [NoJob EXCEPT !.kind = "create", !.task = t]
    /\ UNCHANGED <<storeVars, todo, loopVars, slot, inv, joinVars, failed, outerVars>>

\* HarnessImpl.resume(), and submit() once its commit is done.
ResumeCall ==
    /\ sess = "open" /\ ~closing
    /\ Resume
    /\ UNCHANGED <<storeVars, lineVars, slot, inv, joinVars, failed, outerVars>>

\* waitForTask(t): enable scheduling and ask the line.
WaitForTask(t) ==
    /\ May("wait") /\ sess = "open" /\ waiter[t] = "idle"
    /\ Resume
    /\ waiter' = [waiter EXCEPT ![t] = IF Usable THEN "queued" ELSE "rejected"]
    /\ UNCHANGED <<storeVars, lineVars, slot, inv, joinVars, failed, idler, closeVars, envVars>>

\* On the line: register while the task is live, or read its record.
WaitBegin(t) ==
    /\ LineFree /\ waiter[t] = "queued"
    /\ waiter' = [waiter EXCEPT ![t] =
                    IF poisoned \/ closing THEN "rejected"
                    ELSE IF live[t] # Absent THEN "waiting"
                    ELSE IF durable[t] # Absent THEN "settled" ELSE "rejected"]
    /\ UNCHANGED <<storeVars, lineVars, loopVars, slot, inv, joinVars, failed, idler, closeVars, envVars>>

\* waitForIdle(): decided at once, off the line.
WaitForIdle ==
    /\ May("idle") /\ sess = "open" /\ idler = "idle"
    /\ Resume
    /\ idler' = IF closing THEN "rejected"
                ELSE IF Idle(live) THEN "settled" ELSE "waiting"
    /\ UNCHANGED <<storeVars, lineVars, slot, inv, joinVars, failed, waiter, closeVars, envVars>>

\* abortTask(t) is called and its commit admitted.
AbortTask(t) ==
    /\ Usable /\ abortPc[t] \in {"idle", "returned"}
    /\ Spend("abort")
    /\ abortPc' = [abortPc EXCEPT ![t] = "queued"]
    /\ UNCHANGED <<storeVars, lineVars, loopVars, slot, inv, joined, joins, failed, waitVars, closeVars, registry>>

AbortBegin(t) == LineFree /\ ~poisoned /\ abortPc[t] = "queued"

\* Nothing to mark: the call throws, or reports the outcome.
AbortNothing(t) ==
    /\ AbortBegin(t) /\ ~IsLive(durable[t])
    /\ abortPc' = [abortPc EXCEPT ![t] = IF durable[t] = Absent THEN "idle"
                                        ELSE "returned"]
    /\ UNCHANGED <<storeVars, lineVars, loopVars, slot, inv, joined, joins, failed, outerVars>>

\* Mutant: abort() does not look for a running invocation.
NeverHeld(t) == FALSE

Held(t) == slot[t] # NoInv

\* Orphan a task that nothing runs and no definition can take, else mark it
\* unless it is marked, and note the run invocation to signal and join.
AbortMark(t) ==
    LET cur == durable[t]
        mark == IF cur.mark THEN staged
                ELSE [staged EXCEPT ![t] = [cur EXCEPT !.mark = TRUE]]
    IN
    /\ AbortBegin(t) /\ IsLive(cur)
    /\ \/ Held(t) /\ staged' = mark /\ UNCHANGED failed
       \/ /\ ~Held(t)
          /\ \E res \in Resolutions(t, cur, registry) :
               /\ Remember(t, res, registry)
               /\ staged' = IF res.ok THEN mark
                            ELSE [staged EXCEPT ![t] = Settled(cur, "orphaned")]
    /\ job' = [NoJob EXCEPT !.kind = "abort", !.task = t,
                 !.inv = IF Held(t) /\ inv[slot[t]].mode = "run" THEN slot[t]
                         ELSE NoInv]
    /\ UNCHANGED <<storeVars, todo, loopVars, slot, inv, joinVars, outerVars>>

------------------------------------------------------------------------------
(* Settlement of the job on the line *)

\* A job queued before the poison finds it on the line.
Refuse ==
    /\ LineFree /\ poisoned
    /\ \E k \in {"reserve", "step", "commit", "abort"},
          i \in Invs \cup {NoInv}, t \in Tasks \cup {NoTask} :
        /\ \/ k = "reserve" /\ drain = "reserving" /\ i = NoInv /\ t = NoTask
           \/ k = "step" /\ i # NoInv /\ t = NoTask /\ inv[i].pc = "step"
           \/ k = "commit" /\ i # NoInv /\ t = NoTask /\ inv[i].out # "none"
           \/ k = "abort" /\ i = NoInv /\ t # NoTask /\ abortPc[t] = "queued"
        /\ job' = [NoJob EXCEPT !.kind = k, !.inv = i, !.task = t]
    /\ UNCHANGED <<storeVars, staged, todo, loopVars, slot, inv, joinVars, failed, outerVars>>

Unjoined == UNCHANGED joinVars

\* A failed reservation forgets its invocations; a successful one starts them.
ReserveAfter(ok) ==
    LET made == {i \in Invs : inv[i].pc = "reserved"} IN
    /\ job.kind = "reserve"
    /\ inv' = [i \in Invs |-> IF i \notin made THEN inv[i]
                             ELSE IF ok THEN [inv[i] EXCEPT !.pc = "granted"]
                             ELSE FreeInv]
    /\ slot' = [t \in Tasks |-> IF ~ok /\ slot[t] \in made THEN NoInv ELSE slot[t]]
    /\ Finish(IF ok THEN {} ELSE made)
    /\ UNCHANGED closeVars

StepAfter(ok) ==
    /\ job.kind = "step"
    /\ End(job.inv, [inv[job.inv] EXCEPT !.pc = "finally"])
    /\ Unjoined /\ UNCHANGED closeVars

CommitAfter(ok) ==
    /\ job.kind = "commit"
    /\ inv' = [inv EXCEPT ![job.inv] = Dequeued(@)]
    /\ UNCHANGED slot /\ Unjoined /\ UNCHANGED closeVars

\* Mutant: abort() does not join the run.
NeverRuns(i, t) == FALSE

StillRuns(i, t) == i # NoInv /\ inv[i].task = t /\ inv[i].pc # "done"

\* abort() signals the run it saw on the line and joins it unless it is done.
AbortAfter(ok) ==
    LET t == job.task
        i == job.inv
        running == ok /\ StillRuns(i, t)
    IN
    /\ job.kind = "abort"
    /\ abortPc' = [abortPc EXCEPT ![t] = IF ~ok THEN "idle"
                                        ELSE IF running THEN "joining"
                                        ELSE "returned"]
    /\ joins' = [joins EXCEPT ![t] = IF running THEN i ELSE NoInv]
    /\ inv' = IF running THEN [inv EXCEPT ![i].sig = TRUE] ELSE inv
    /\ UNCHANGED <<slot, joined, closeVars>>

CreateAfter(ok) ==
    job.kind = "create" /\ UNCHANGED <<slot, inv, closeVars>> /\ Unjoined

\* A failed open closes the Harness again.
OpenAfter(ok) ==
    /\ job.kind = "open"
    /\ sess' = IF ok THEN "open" ELSE "closed"
    /\ closing' = ~ok
    /\ closePc' = IF ok THEN "none" ELSE "done"
    /\ UNCHANGED <<slot, inv>> /\ Unjoined

\* What awaited the job goes on.
Continuation(ok) ==
    \/ ReserveAfter(ok) \/ StepAfter(ok) \/ CommitAfter(ok)
    \/ AbortAfter(ok) \/ CreateAfter(ok) \/ OpenAfter(ok)

\* Mutant: a settled task stays mirrored.
ObservedKept(t) == IF staged[t] = Absent THEN live[t] ELSE staged[t]

\* The tasks the staged writes settle, and what #observe makes of the mirror.
Ends == {t \in Tasks : staged[t].st = "terminal"}

Observed(t) ==
    IF staged[t] = Absent THEN live[t]
    ELSE IF t \in Ends THEN Absent ELSE staged[t]

Settling == job.kind # "none" /\ todo = {}

\* The batch is in Storage and #publish runs #observe; a job without writes
\* commits and publishes nothing.
SettleOk ==
    /\ Settling /\ ~poisoned
    /\ durable' = Landed
    /\ live' = [t \in Tasks |-> Observed(t)]
    /\ failed' = [t \in Tasks |-> IF t \in Ends THEN NoDef ELSE failed[t]]
    /\ waiter' = [t \in Tasks |-> IF t \in Ends /\ waiter[t] = "waiting"
                                 THEN "settled" ELSE waiter[t]]
    /\ idler' = IF idler = "waiting" /\ Idle(live') THEN "settled" ELSE idler
    /\ dirty' = (dirty \/ staged # NoWrites)
    /\ stalled' = (stalled /\ staged = NoWrites)
    /\ drain' = IF job.kind = "reserve" THEN "queued"
                ELSE IF staged # NoWrites THEN Kicked(drain) ELSE drain
    /\ Continuation(TRUE)
    /\ job' = NoJob /\ staged' = NoWrites
    /\ UNCHANGED <<poisoned, todo, enabled, envVars>>

\* A failed pass stops the loop; a wakeup that arrived during it restarts it.
FailedPass ==
    LET again == dirty /\ enabled /\ ~closing IN
    /\ drain' = IF job.kind # "reserve" THEN drain
                ELSE IF again THEN "queued" ELSE "off"
    /\ stalled' = IF job.kind = "reserve" THEN ~again ELSE stalled
    /\ UNCHANGED <<enabled, dirty>>

\* The commit fails: the line is poisoned, or Storage rejects the batch, or the
\* callback threw after staging (a user change, or the Harness cleanup of a
\* scheduler outcome), or Storage fails without saying whether it committed.
SettleFails ==
    /\ Settling
    /\ \/ poisoned /\ UNCHANGED <<durable, poisoned, budget>>
       \/ /\ ~poisoned /\ staged # NoWrites /\ Spend("reject")
          /\ UNCHANGED <<durable, poisoned>>
       \/ /\ ~poisoned /\ staged # NoWrites /\ Spend("poison")
          /\ poisoned' = TRUE
          /\ durable' \in {durable, Landed}
    /\ FailedPass
    /\ Continuation(FALSE)
    /\ job' = NoJob /\ staged' = NoWrites
    /\ UNCHANGED <<live, todo, failed, waitVars, registry>>

------------------------------------------------------------------------------
Life == Open \/ Crash \/ Swap \/ Close \/ Join \/ CloseStorage
Loop ==
    \/ DrainTurn \/ ReserveBegin
    \/ \E t \in Tasks : VisitBlocked(t) \/ VisitReserve(t)
Handlers ==
    \E i \in Invs :
        \/ Start(i) \/ StepEnds(i) \/ StepContinues(i) \/ StepWrites(i)
        \/ Dispatch(i) \/ HandlerCommit(i) \/ CommitNothing(i) \/ CommitWrites(i)
        \/ HandlerReturn(i) \/ Finally(i)
Callers ==
    \/ ResumeCall \/ WaitForIdle
    \/ \E t \in Tasks :
        \/ Create(t) \/ WaitForTask(t) \/ WaitBegin(t)
        \/ AbortTask(t) \/ AbortNothing(t) \/ AbortMark(t)
Line == Refuse \/ SettleOk \/ SettleFails

Next == Life \/ Loop \/ Handlers \/ Callers \/ Line

Spec == Init /\ [][Next]_vars

------------------------------------------------------------------------------
(* Fairness: what the JavaScript runtime and the line see to.  Microtasks run, *)
(* the line serves every queued job (strong fairness, because other jobs may   *)
(* come first; of one invocation, that some job of it is served), Storage     *)
(* settles, abort handlers return, and run handlers                            *)
(* return once signalled.  Nothing obliges an unsignalled run handler, the     *)
(* callers or the environment to move.                                         *)

HandlerMustReturn(i) == (inv[i].mode = "abort" \/ inv[i].sig) /\ HandlerReturn(i)

Fairness ==
    /\ WF_vars(Join \/ CloseStorage)
    /\ WF_vars(DrainTurn) /\ SF_vars(ReserveBegin)
    /\ WF_vars(SettleOk \/ SettleFails) /\ SF_vars(Refuse)
    /\ \A t \in Tasks :
        /\ WF_vars(VisitBlocked(t) \/ VisitReserve(t))
        /\ SF_vars(AbortNothing(t) \/ AbortMark(t))
    /\ \A i \in Invs :
        /\ SF_vars(Start(i) \/ Dispatch(i) \/ HandlerMustReturn(i) \/ Finally(i))
        /\ SF_vars(\/ StepEnds(i) \/ StepContinues(i) \/ StepWrites(i)
                   \/ CommitNothing(i) \/ CommitWrites(i))

FairSpec == Spec /\ Fairness

------------------------------------------------------------------------------
(* Properties *)

StoreOK ==
    /\ durable \in [Tasks -> Record] /\ live \in [Tasks -> {Absent} \cup LiveRecord]
    /\ poisoned \in BOOLEAN
LineOK == job \in Job /\ staged \in [Tasks -> Record] /\ todo \in SUBSET Tasks
LoopOK ==
    /\ enabled \in BOOLEAN /\ dirty \in BOOLEAN /\ stalled \in BOOLEAN
    /\ drain \in {"off", "queued", "reserving"}
ObjectsOK == slot \in [Tasks -> Invs \cup {NoInv}] /\ inv \in [Invs -> Invocation]
JoinOK ==
    /\ joined \in SUBSET Invs /\ joins \in [Tasks -> Invs \cup {NoInv}]
    /\ abortPc \in [Tasks -> {"idle", "queued", "joining", "returned"}]
WaitOK ==
    /\ waiter \in [Tasks -> {"idle", "queued", "waiting", "settled", "rejected"}]
    /\ idler \in {"idle", "waiting", "settled", "rejected"}
CloseOK ==
    /\ sess \in {"down", "opening", "open", "closed"} /\ closing \in BOOLEAN
    /\ closePc \in {"none", "sealed", "joining", "done"}
EnvOK == registry \in Defs \cup {NoDef} /\ budget \in [BudgetKinds -> Nat]

TypeOK ==
    /\ StoreOK /\ LineOK /\ LoopOK /\ ObjectsOK /\ JoinOK
    /\ WaitOK /\ CloseOK /\ EnvOK /\ failed \in [Tasks -> Defs \cup {NoDef}]

Handling(i) == inv[i].pc = "handler"

\* Two handlers of one task never execute at the same time: an abort handler
\* waits for the run handler it replaces, and no task is reserved twice.
OneHandlerPerTask ==
    \A i, j \in Invs :
        Handling(i) /\ Handling(j) /\ inv[i].task = inv[j].task => i = j

\* Code on the line reads exactly the committed state from #live.
LiveMirrorsDurable ==
    sess = "open" /\ ~poisoned => live = LiveOf(durable)

\* A handler that executes for a live task was written for the version of the
\* record it reads, through migrations, handovers and registry changes.
HandlerMatchesVersion ==
    \A i \in Invs : Handling(i) /\ live[inv[i].task] # Absent =>
                       inv[i].def.ver = live[inv[i].task].ver

\* A run handler executes only when every task its own one was created after
\* has settled, also after a restart that forgot which tasks had started.
RunFollowsDependencies ==
    \A i \in Invs : Handling(i) /\ inv[i].mode = "run" =>
        \A d \in After[inv[i].task] : ~IsLive(durable[d])

\* Once abort(t) has returned, no run handler of t executes.
AbortReturnsAfterRun ==
    \A t \in Tasks, i \in Invs :
        abortPc[t] = "returned" /\ Handling(i) /\ inv[i].task = t
            => inv[i].mode = "abort" \/ durable[t].st = "terminal"

\* No wakeup is lost: when a live task could be reserved (or, marked and
\* blocked, orphaned) and nothing holds it, a pass that will see it is under
\* way or an invocation is about to kick.  A failed pass is the exception: it
\* waits for the next wakeup.
Eligible(t) ==
    /\ t \in Candidates
    /\ live[t].mark \/ ~Unfit(t, live[t], registry)

PassWillSee(t) ==
    \/ drain # "off" /\ dirty
    \/ drain = "reserving" /\ (job.kind # "reserve" \/ t \in todo \/ staged[t] # Absent)

KickWillCome(t) ==
    \/ \E i \in Invs : inv[i].pc = "finally"
    \/ job.kind = "step" /\ inv[job.inv].task = t

NoLostWakeup ==
    sess = "open" /\ enabled /\ ~closing /\ ~poisoned /\ ~stalled =>
        \A t \in Tasks : Eligible(t) => PassWillSee(t) \/ KickWillCome(t)

\* No waiter is stranded or misled: one that waits for a task waits for a live
\* one and is served only when it is terminal in Storage, an idle waiter has a
\* foreground task to wait for, and neither outlives close.
WaitersAreServed ==
    /\ \A t \in Tasks :
        /\ waiter[t] = "waiting" => live[t] # Absent /\ ~closing
        /\ waiter[t] = "settled" => durable[t].st = "terminal"
    /\ idler = "waiting" => ~Idle(live) /\ ~closing

\* Storage closes only when no handler executes and no job is left.
StorageClosesLast ==
    sess = "closed" => job = NoJob /\ \A i \in Invs : ~Handling(i) /\ inv[i].out = "none"

\* Outcomes the scheduler writes itself never overtake task code: while a
\* handler of t executes, t is neither faulted nor orphaned.
SchedulerOutcomeWaits ==
    [][\A t \in Tasks :
        durable'[t].by \in {"faulted", "orphaned"} /\ durable'[t] # durable[t]
            => ~\E i \in Invs : Handling(i) /\ inv[i].task = t]_vars

\* After the abort mark is committed, no commit of a run handler lands: the
\* record changes only by a reservation, a handover, an abort handler or a
\* scheduler outcome.
MarkStopsRun ==
    [][\A t \in Tasks :
        durable[t].mark /\ durable'[t] # durable[t] /\ job.kind = "commit"
            => inv[job.inv].mode = "abort"]_vars

Lifecycle == INSTANCE TaskLifecycle WITH rec <- durable

\* Commits change task records only as TaskLifecycle allows.
ImplementsLifecycle == Lifecycle!Spec

\* A marked task settles, also when the process dies or the registry loses the
\* definition, as long as scheduling is enabled again and the Session is usable.
AbortSettles ==
    \A t \in Tasks :
        IsLive(durable[t]) /\ durable[t].mark /\ enabled
            ~> durable[t].st = "terminal" \/ ~Usable

\* Close completes: it is never deadlocked on a handler that waits for the line.
CloseCompletes == closing ~> sess # "open"
==============================================================================
