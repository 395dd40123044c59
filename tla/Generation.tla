----------------------------- MODULE Generation -----------------------------
(***************************************************************************)
(* One conversation of the durable runtime: submissions, the live document *)
(* and the built-in generation task                                        *)
(* (packages/durable/src/harness/{submissions,live,generation}.ts).        *)
(*                                                                         *)
(* A commit is one atomic step: TaskScheduler shows that the line runs     *)
(* commits one at a time, that a task has one handler at a time and that   *)
(* an abort mark shuts the run handler out.  Here the handler itself is    *)
(* opened up: it may stop, with its process, between any two steps.        *)
(***************************************************************************)
EXTENDS Naturals, Sequences, FiniteSets

CONSTANTS
    Callers,      \* hosts that submit and wait
    Requests,     \* request ids
    Asks,         \* Asks[c]: the request id and the draft type caller c submits
    MaxText,      \* bound: characters of one streamed response
    MaxTime,      \* bound: poll times lie in 1..MaxTime
    MaxRetries,   \* the conversation's retry policy
    MayDowngrade, \* whether a reopened process may lack a fitting definition
    Budget        \* bound: how often each kind of outside event happens

BudgetKinds == {"stop", "abort", "withdraw"}

ASSUME GenerationAssumption ==
    /\ Asks \in [Callers -> [req: Requests, type: {"input", "write"}]]
    /\ IsFiniteSet(Requests)
    /\ MaxText \in Nat /\ MaxTime \in Nat \ {0} /\ MaxRetries \in Nat
    /\ MayDowngrade \in BOOLEAN
    /\ Budget \in [BudgetKinds -> Nat]

VARIABLES
    \* committed
    subs,      \* submission records, by id
    entries,   \* transcript of the conversation, by entry id
    run,       \* pi.live.run
    gen,       \* pi.live.generation
    tasks,     \* generation task records, by id
    \* of the process
    up,        \* the Harness is open
    enabled,   \* scheduling is enabled
    stale,     \* tasks whose record the registered definition cannot take
    inv,       \* the invocation, its streamResponse() included
    callers,   \* what each caller holds
    budget

store == <<subs, entries, run, gen, tasks>>
vars == <<subs, entries, run, gen, tasks, up, enabled, stale, inv, callers, budget>>

------------------------------------------------------------------------------
(* Records *)

\* A message by its stop reason: "stop" stands for stop, length and toolUse,
\* "error" for a retryable error, "fatal" for any other ending.
Endings == {"stop", "error", "fatal", "deferred"}

User == [kind |-> "user", stop |-> "none", chars |-> 0]
Note == [kind |-> "write", stop |-> "none", chars |-> 0]
System == [kind |-> "system", stop |-> "none", chars |-> 0]
Assistant(stop, chars) == [kind |-> "assistant", stop |-> stop, chars |-> chars]

AtPrepare(a) == [phase |-> "prepare", attempt |-> a, cutoff |-> 0, at |-> 0]
AtRequest(a, e) == [phase |-> "request", attempt |-> a, cutoff |-> e, at |-> 0]
AtRetry(a) == [phase |-> "retry", attempt |-> a, cutoff |-> 0, at |-> 0]
AtPoll(a, at) == [phase |-> "poll", attempt |-> a, cutoff |-> 0, at |-> at]
NoCheckpoint == [phase |-> "none", attempt |-> 0, cutoff |-> 0, at |-> 0]

NoRun == [task |-> 0, inputs |-> {}]
NoGen == [attempt |-> 0, chars |-> 0, retry |-> FALSE, poll |-> 0]
Attempt(a) == [NoGen EXCEPT !.attempt = a]

Live(t) == tasks[t].st # "terminal"
Open(s) == subs[s].st = "placed"

FreeInv == [task |-> 0, kind |-> "none", at |-> "none", seen |-> 0,
            msg |-> "none", text |-> 0, pending |-> 0, timer |-> FALSE,
            flight |-> 0]
NewInv(t) == [FreeInv EXCEPT !.task = t, !.at = "start",
                !.kind = IF tasks[t].mark THEN "abort" ELSE "run"]

Idle == [at |-> "idle", sub |-> 0, got |-> {}]

Init ==
    /\ subs = <<>> /\ entries = <<>> /\ run = NoRun /\ gen = NoGen /\ tasks = <<>>
    /\ up = TRUE /\ enabled = FALSE /\ stale = {} /\ inv = FreeInv
    /\ callers = [c \in Callers |-> Idle]
    /\ budget = Budget

Spend(k) == budget[k] > 0 /\ budget' = [budget EXCEPT ![k] = @ - 1]

------------------------------------------------------------------------------
(* Ending a run *)

Done(e) == [st |-> "done", answer |-> e]
Unanswered == [st |-> "unanswered", answer |-> 0]

\* settledSubmission(): a record that has settled stays as it is.
Settled(s, how) ==
    IF Open(s) THEN [subs[s] EXCEPT !.st = how.st, !.answer = how.answer]
    ELSE subs[s]

\* Mutant: publications are not observed.
Unpublished(new) == callers

\* Submissions.#observe(): a commit that settles a submission serves every
\* caller registered for it.
Published(new) ==
    [c \in Callers |->
        LET w == callers[c]
        IN  IF w.at = "waiting" /\ new[w.sub].st # "placed"
            THEN [w EXCEPT !.at = "served", !.got = {new[w.sub]}] ELSE w]

\* Mutant: the conversation stays busy after its run.
EndPresentation(t, how) ==
    /\ gen' = NoGen /\ UNCHANGED <<subs, run, callers>>

\* endRun(): settle the inputs of the run t owns, and clear the presentation.
EndRun(t, how) ==
    LET owner == run.task = t
        new == [s \in DOMAIN subs |->
                  IF owner /\ s \in run.inputs THEN Settled(s, how) ELSE subs[s]]
    IN  /\ subs' = new
        /\ run' = IF owner THEN NoRun ELSE run
        /\ gen' = NoGen
        /\ callers' = Published(new)

Terminate(t, author) ==
    tasks' = [tasks EXCEPT ![t].st = "terminal", ![t].by = author,
                           ![t].cp = NoCheckpoint]

\* The outcomes the scheduler writes itself, with settleSchedulerOutcome() in
\* the same commit: the committed partial is dropped.
SchedulerEnds(t, author) ==
    /\ Terminate(t, author) /\ EndRun(t, Unanswered)
    /\ inv' = FreeInv
    /\ UNCHANGED entries

------------------------------------------------------------------------------
(* The process *)

\* The process dies, or the Harness closes: registered waits are rejected and
\* handlers commit nothing more.
Stop ==
    /\ up /\ Spend("stop")
    /\ up' = FALSE /\ enabled' = FALSE /\ inv' = FreeInv
    /\ callers' = [c \in Callers |->
          IF callers[c].at \in {"held", "waiting"} THEN Idle ELSE callers[c]]
    /\ UNCHANGED <<store, stale>>

\* Harness.open(): tasks that were running are pending again.
Reopen ==
    /\ ~up /\ up' = TRUE
    /\ stale' \in IF MayDowngrade THEN {{}, DOMAIN tasks} ELSE {{}}
    /\ tasks' = [t \in DOMAIN tasks |->
          IF tasks[t].st = "running" THEN [tasks[t] EXCEPT !.st = "pending"]
          ELSE tasks[t]]
    /\ UNCHANGED <<subs, entries, run, gen, enabled, inv, callers, budget>>

\* A scheduling pass: start the handler a task needs, or settle a marked task
\* that no definition can take.
Reserve(t) ==
    /\ up /\ enabled /\ inv = FreeInv /\ Live(t)
    /\ \/ /\ t \notin stale
          /\ tasks' = [tasks EXCEPT ![t].st = "running"]
          /\ inv' = NewInv(t)
          /\ UNCHANGED <<subs, entries, run, gen, callers>>
       \/ /\ t \in stale /\ tasks[t].mark /\ SchedulerEnds(t, "orphaned")
    /\ UNCHANGED <<up, enabled, stale, budget>>

\* abortTask(): mark the task, or settle it when no definition can take it.
AbortTask(t) ==
    /\ up /\ Live(t) /\ Spend("abort")
    /\ \/ /\ inv.task = t \/ t \notin stale
          /\ tasks' = [tasks EXCEPT ![t].mark = TRUE]
          /\ UNCHANGED <<subs, entries, run, gen, inv, callers>>
       \/ /\ inv.task # t /\ t \in stale /\ SchedulerEnds(t, "orphaned")
    /\ UNCHANGED <<up, enabled, stale>>

\* A commit of the host settles an open input, as tx.settleSubmission() allows.
Withdraw(s) ==
    /\ up /\ Open(s) /\ Spend("withdraw")
    /\ subs' = [subs EXCEPT ![s] = Settled(s, Unanswered)]
    /\ callers' = Published(subs')
    /\ UNCHANGED <<entries, run, gen, tasks, up, enabled, stale, inv>>

------------------------------------------------------------------------------
(* Callers *)

\* Mutant: a busy conversation admits submissions.
NeverBusy == FALSE

Busy == run # NoRun

\* Mutant: a request id is forgotten once its submission has settled.
KnownWhileOpen(c) == {s \in DOMAIN subs : subs[s].req = Asks[c].req /\ Open(s)}

\* tx.submissionByRequest()
Known(c) == {s \in DOMAIN subs : subs[s].req = Asks[c].req}

Holds(c, s) == callers' = [callers EXCEPT ![c].at = "held", ![c].sub = s]

Submission(c, st) == [req |-> Asks[c].req, type |-> Asks[c].type, st |-> st,
                      entry |-> Len(entries) + 1, answer |-> 0]

Submits(c) ==
    /\ up /\ callers[c].at = "idle"
    /\ enabled' = TRUE
    /\ UNCHANGED <<gen, up, stale, inv, budget>>

\* A known request id returns its submission, or refuses another type.
Resubmit(c) ==
    /\ Submits(c)
    /\ \E s \in Known(c) :
          IF subs[s].type = Asks[c].type THEN Holds(c, s)
          ELSE callers' = [callers EXCEPT ![c].at = "refused"]
    /\ UNCHANGED store

SubmitBusy(c) ==
    /\ Submits(c) /\ Known(c) = {} /\ Busy
    /\ UNCHANGED <<store, callers>>

SubmitWrite(c) ==
    /\ Submits(c) /\ Known(c) = {} /\ ~Busy /\ Asks[c].type = "write"
    /\ entries' = Append(entries, Note)
    /\ subs' = Append(subs, Submission(c, "done"))
    /\ Holds(c, Len(subs'))
    /\ UNCHANGED <<run, tasks>>

\* One commit places the input, creates its generation task and takes the run.
SubmitInput(c) ==
    /\ Submits(c) /\ Known(c) = {} /\ ~Busy /\ Asks[c].type = "input"
    /\ entries' = Append(entries, User)
    /\ subs' = Append(subs, Submission(c, "placed"))
    /\ tasks' = Append(tasks, [st |-> "pending", cp |-> AtPrepare(1),
                               mark |-> FALSE, by |-> "none"])
    /\ run' = [task |-> Len(tasks'), inputs |-> {Len(subs')}]
    /\ Holds(c, Len(subs'))

\* Mutant: a caller registers without reading the record on the line.
RegistersUnread(c) == [callers[c] EXCEPT !.at = "waiting"]

\* Submission.wait(): the record is read and the caller registered in one job
\* of the line.
Registers(c) ==
    IF Open(callers[c].sub) THEN [callers[c] EXCEPT !.at = "waiting"]
    ELSE [callers[c] EXCEPT !.at = "served", !.got = {subs[callers[c].sub]}]

Wait(c) ==
    /\ up /\ callers[c].at = "held"
    /\ enabled' = TRUE
    /\ callers' = [callers EXCEPT ![c] = Registers(c)]
    /\ UNCHANGED <<store, up, stale, inv, budget>>

------------------------------------------------------------------------------
(* The generation task *)

Cp == tasks[inv.task].cp

\* Mutant: the mark does not stop the commits of the run handler.
Ungated == TRUE

\* TaskScheduler.#gated(): an abort mark refuses the commits of a run handler.
Gated == inv.kind = "abort" \/ ~tasks[inv.task].mark

Runs(phase) == inv.kind = "run" /\ inv.at = "start" /\ Cp.phase = phase

\* The phase has committed its checkpoint: the next phase follows in the same
\* invocation, which keeps whatever streamResponse() has left behind.
Advance(cp) ==
    /\ tasks' = [tasks EXCEPT ![inv.task].cp = cp]
    /\ inv' = [inv EXCEPT !.at = "start", !.msg = "none", !.text = 0,
                          !.pending = 0, !.timer = FALSE]

Process == <<up, enabled, stale, budget>>

\* prepare: the transcript is read, and sections are rendered from it ...
PrepareReads ==
    /\ Runs("prepare")
    /\ inv' = [inv EXCEPT !.at = "prepared", !.seen = Len(entries)]
    /\ UNCHANGED <<store, Process, callers>>

\* ... before the commit appends the system entries planned from it.
PrepareCommits ==
    /\ inv.at = "prepared" /\ Gated
    /\ entries' \in {entries, Append(entries, System)}
    /\ Advance(AtRequest(Cp.attempt, Len(entries')))
    /\ UNCHANGED <<subs, run, gen, Process, callers>>

\* Mutant: an interrupted attempt leaves nothing behind.
Dropped == entries

\* convertPartial(): the committed partial of an interrupted attempt becomes an
\* aborted entry.
Converted ==
    IF gen.chars > 0 THEN Append(entries, Assistant("aborted", gen.chars))
    ELSE entries

RequestBegins ==
    /\ Runs("request") /\ Gated
    /\ entries' = Converted
    /\ gen' = Attempt(Cp.attempt)
    /\ inv' = [inv EXCEPT !.at = "stream"]
    /\ UNCHANGED <<subs, run, tasks, Process, callers>>

\* The model is gone, or was never configured, when a phase looks it up.
NoModel ==
    /\ Runs("prepare") \/ Runs("poll") \/ (inv.at = "stream" /\ inv.text = 0)
    /\ Gated
    /\ Terminate(inv.task, "run") /\ EndRun(inv.task, Unanswered)
    /\ inv' = FreeInv
    /\ UNCHANGED <<entries, Process>>

\* The provider's partial grows; a flush is scheduled unless one is under way.
Chunk ==
    /\ inv.at = "stream" /\ inv.text < MaxText
    /\ inv' = [inv EXCEPT !.text = @ + 1, !.pending = inv.text + 1,
                          !.timer = inv.timer \/ inv.flight = 0]
    /\ UNCHANGED <<store, Process, callers>>

Flush ==
    /\ inv.timer
    /\ inv' = [inv EXCEPT !.timer = FALSE, !.flight = inv.pending, !.pending = 0]
    /\ UNCHANGED <<store, Process, callers>>

\* The flush is over: another follows if the response has gone on meanwhile.
Flushed ==
    inv' = [inv EXCEPT !.flight = 0, !.timer = inv.pending > 0 /\ inv.at = "stream"]

FlushLands ==
    /\ inv.flight > 0 /\ Gated
    /\ gen' = [gen EXCEPT !.chars = inv.flight,
                          !.attempt = IF gen = NoGen THEN Cp.attempt ELSE @]
    /\ Flushed
    /\ UNCHANGED <<subs, entries, run, tasks, Process, callers>>

\* The commit is refused, or Storage rejects it: reported and forgotten.
FlushFails ==
    /\ inv.flight > 0 /\ Flushed
    /\ UNCHANGED <<store, Process, callers>>

\* The stream ends with a message or throws; `finally` stops the throttle.  A
\* provider that has nothing ready yet defers only while poll times are left.
StreamEnds ==
    /\ inv.at = "stream"
    /\ \E m \in Endings \cup {"throw"} :
          inv' = [inv EXCEPT !.at = "stopping", !.msg = m, !.timer = FALSE]
    /\ UNCHANGED <<store, Process, callers>>

\* Mutant: the commit in flight is not awaited.
NotAwaited == TRUE

\* `await inFlight`
Settling == inv.flight = 0

StreamResponds ==
    /\ inv.at = "stopping" /\ Settling
    /\ inv' = [inv EXCEPT !.at = "classify"]
    /\ UNCHANGED <<store, Process, callers>>

\* poll: the time has come, and the provider has answered.
PollResponds ==
    /\ Runs("poll")
    /\ \E m \in Endings :
          /\ m = "deferred" => Cp.at < MaxTime
          /\ inv' = [inv EXCEPT !.at = "classify", !.msg = m]
    /\ UNCHANGED <<store, Process, callers>>

Classifies(m) == inv.at = "classify" /\ inv.msg = m /\ Gated

\* Mutant: the poll time follows the clock alone.
ByClock(now) == now + 1

\* The clock may have been set back since the previous poll time was chosen;
\* a task that was not polling has at = 0, before every poll time.
PollAt(now) == IF now > Cp.at THEN now + 1 ELSE Cp.at + 1

Defers ==
    /\ Classifies("deferred")
    /\ \E now \in 0 .. MaxTime - 1 :
          /\ gen' = [Attempt(Cp.attempt) EXCEPT !.poll = PollAt(now)]
          /\ Advance(AtPoll(Cp.attempt, PollAt(now)))
    /\ UNCHANGED <<subs, entries, run, Process, callers>>

\* Mutant: one retry too many.
RetryableOnceMore == inv.msg = "error" /\ Cp.attempt <= MaxRetries + 1

Retryable == inv.msg = "error" /\ Cp.attempt <= MaxRetries

Response == Append(entries, Assistant(inv.msg, inv.text))

FailsOver ==
    /\ Classifies("error") /\ Retryable
    /\ entries' = Response
    /\ gen' = [Attempt(Cp.attempt) EXCEPT !.retry = TRUE]
    /\ Advance(AtRetry(Cp.attempt))
    /\ UNCHANGED <<subs, run, Process, callers>>

\* Mutant: a run that gives up reports its last entry as the answer.
AnswersAlways == Done(Len(entries) + 1)

\* Only a response that has stopped is an answer.
Settlement == IF inv.msg = "stop" THEN Done(Len(entries) + 1) ELSE Unanswered

Concludes ==
    /\ \E m \in {"stop", "error", "fatal"} : Classifies(m)
    /\ ~Retryable
    /\ entries' = Response
    /\ Terminate(inv.task, "run")
    /\ EndRun(inv.task, Settlement)
    /\ inv' = FreeInv
    /\ UNCHANGED Process

\* Mutant: the backoff starts the same attempt again.
SameAttempt == Cp.attempt

NextAttempt == Cp.attempt + 1

\* retry: the backoff has been slept out.
RetryEnds ==
    /\ Runs("retry") /\ Gated
    /\ gen' = Attempt(NextAttempt)
    /\ Advance(AtPrepare(NextAttempt))
    /\ UNCHANGED <<subs, entries, run, Process, callers>>

\* The abort handler; cancelling a deferred response comes first and may fail.
AbortHandler ==
    /\ inv.kind = "abort" /\ inv.at = "start"
    /\ entries' = Converted
    /\ Terminate(inv.task, "abort") /\ EndRun(inv.task, Unanswered)
    /\ inv' = FreeInv
    /\ UNCHANGED Process

\* The handler throws: one of its awaited calls failed.
HandlerThrows ==
    /\ inv.at \in {"start", "prepared", "classify"}
    /\ inv.kind = "abort" \/ Gated
    /\ SchedulerEnds(inv.task, "faulted")
    /\ UNCHANGED Process

\* An abort mark: the run handler's next commit, or its look at the signal,
\* throws, and the scheduler ends the invocation.
Unwinds ==
    /\ inv.at \in {"start", "prepared", "classify"} /\ ~Gated
    /\ inv' = FreeInv
    /\ UNCHANGED <<store, Process, callers>>

------------------------------------------------------------------------------
Handler ==
    \/ PrepareReads \/ PrepareCommits \/ RequestBegins \/ NoModel
    \/ Chunk \/ Flush \/ FlushLands \/ FlushFails \/ StreamEnds \/ StreamResponds
    \/ PollResponds \/ Defers \/ FailsOver \/ Concludes \/ RetryEnds
    \/ AbortHandler \/ HandlerThrows \/ Unwinds

Caller(c) ==
    Resubmit(c) \/ SubmitBusy(c) \/ SubmitWrite(c) \/ SubmitInput(c) \/ Wait(c)

Next ==
    \/ Stop \/ Reopen \/ Handler
    \/ \E t \in DOMAIN tasks : Reserve(t) \/ AbortTask(t)
    \/ \E s \in DOMAIN subs : Withdraw(s)
    \/ \E c \in Callers : Caller(c)

Spec == Init /\ [][Next]_vars

------------------------------------------------------------------------------
(* Fairness: an enabled process schedules what it can, handlers and provider   *)
(* calls come to an end, and Storage settles.  Nothing obliges a host to       *)
(* submit, abort, stop or reopen.                                              *)

Work == Handler \/ \E t \in DOMAIN tasks : Reserve(t)

FairSpec == Spec /\ WF_vars(Work)

------------------------------------------------------------------------------
(* Properties *)

Checkpoint ==
    [phase: {"prepare", "request", "retry", "poll"},
     attempt: 1 .. MaxRetries + 1, cutoff: Nat, at: 0 .. MaxTime]

TypeOK ==
    /\ subs \in Seq([req: Requests, type: {"input", "write"}, entry: Nat,
                     st: {"placed", "done", "unanswered"}, answer: Nat])
    /\ entries \in Seq([kind: {"user", "write", "system", "assistant"},
                        stop: Endings \cup {"none", "aborted"}, chars: 0 .. MaxText])
    /\ run \in [task: Nat, inputs: SUBSET Nat]
    /\ gen \in [attempt: 0 .. MaxRetries + 1, chars: 0 .. MaxText,
                retry: BOOLEAN, poll: 0 .. MaxTime]
    /\ tasks \in Seq([st: {"pending", "running", "terminal"},
                      cp: Checkpoint \cup {NoCheckpoint}, mark: BOOLEAN,
                      by: {"none", "run", "abort", "faulted", "orphaned"}])
    /\ up \in BOOLEAN /\ enabled \in BOOLEAN /\ stale \subseteq DOMAIN tasks
    /\ inv \in [task: Nat, kind: {"none", "run", "abort"}, seen: Nat,
                at: {"none", "start", "prepared", "stream", "stopping", "classify"},
                msg: Endings \cup {"none", "throw"}, timer: BOOLEAN,
                text: 0 .. MaxText, pending: 0 .. MaxText, flight: 0 .. MaxText]
    /\ callers \in [Callers -> [at: {"idle", "held", "waiting", "served", "refused"},
                                sub: Nat, got: SUBSET {subs[s] : s \in DOMAIN subs}]]
    /\ budget \in [BudgetKinds -> Nat]

\* `pi.live.run` is there exactly while the conversation has a live generation
\* task, and it owns every open input: no input is stranded without a run, and
\* no run blocks the conversation after its task (endRun, live.ts).
RunOwnsOpenInputs ==
    /\ {t \in DOMAIN tasks : Live(t)} = IF Busy THEN {run.task} ELSE {}
    /\ \A s \in DOMAIN subs : Open(s) => s \in run.inputs

\* `pi.live.generation` presents the attempt its task is at: the backoff only
\* while backing off, the poll time only while polling, and a partial only of
\* a response still being requested, so none lands after its outcome
\* (streamResponse and its `finally`, generation.ts).
PresentationMatchesTask ==
    \A t \in DOMAIN tasks : Live(t) /\ gen # NoGen =>
        LET cp == tasks[t].cp
        IN  /\ gen.attempt = cp.attempt
            /\ gen.retry = (cp.phase = "retry")
            /\ gen.poll = cp.at
            /\ gen.chars > 0 => cp.phase = "request"

\* Every failed attempt of a live run has left exactly one error entry after
\* its input, however often the process died: the entry and the checkpoint it
\* counts towards are one commit (classify, generation.ts).  The answer of an
\* input is a response that stopped, after the input and before any other one.
TranscriptMatchesRun ==
    /\ \A s \in DOMAIN subs : s \in run.inputs =>
         LET cp == tasks[run.task].cp
             errors == {e \in DOMAIN entries :
                          e > subs[s].entry /\ entries[e].stop = "error"}
         IN  Cardinality(errors) = IF cp.phase = "retry" THEN cp.attempt
                                   ELSE cp.attempt - 1
    /\ \A s \in DOMAIN subs : subs[s].type = "input" /\ subs[s].st = "done" =>
         LET e == subs[s].entry
             a == subs[s].answer
         IN  /\ a \in e + 1 .. Len(entries) /\ entries[a].stop = "stop"
             /\ \A k \in e + 1 .. a : entries[k].kind # "user"

\* The transcript a preparation has read is still its tail when it commits,
\* so the system entries it appends are planned from what they follow, as the
\* comment on the prepare phase says (generation.ts).
PreparedFromTail == inv.at = "prepared" => inv.seen = Len(entries)

\* A caller waits only for an open submission of the running process, and
\* what it is given is the receipt for good.
WaitersSeeOutcome ==
    \A c \in Callers :
        LET w == callers[c]
        IN  /\ w.at = "waiting" => up /\ Open(w.sub)
            /\ w.at = "served" => w.got = {subs[w.sub]}

\* A run only moves forward: an attempt number never falls, and a new poll
\* time lies strictly later even when the clock was set back (classify).
RunMovesForward ==
    [][\A t \in DOMAIN tasks :
          LET old == tasks[t].cp
              new == tasks'[t].cp
          IN  tasks'[t].st # "terminal" =>
                /\ new.attempt >= old.attempt
                /\ old.phase = "poll" /\ new.phase = "poll" /\ new # old
                     => new.at > old.at]_vars

\* What a streaming response has shown and committed does not vanish: it grows,
\* or becomes part of a transcript entry, unless the scheduler itself ends the
\* task or the provider defers the response after all.
PartialIsKept ==
    [][gen'.chars < gen.chars =>
          \/ /\ Len(entries') > Len(entries)
             /\ entries'[Len(entries')].chars >= gen.chars
          \/ tasks'[run.task].by \in {"faulted", "orphaned"}
          \/ gen'.poll > 0]_vars

\* The fate of a request: that of its last submission.
Fate(r) ==
    LET mine == {s \in DOMAIN subs : subs[s].req = r}
        last == CHOOSE s \in mine : \A q \in mine : q <= s
    IN  IF mine = {} THEN "none"
        ELSE IF subs[last].type = "write" THEN "written" ELSE subs[last].st

Conversation == INSTANCE Turns WITH turn <- [r \in Requests |-> Fate(r)]

\* The conversation implements Turns: a request is admitted once and settled
\* once, whoever sends it and however often.
ImplementsTurns == Conversation!Spec

\* The records of generation tasks, as TaskLifecycle sees them.
TaskIds == 1 .. Cardinality(Requests)
NoRecord == [st |-> "absent", cp |-> NoCheckpoint, ver |-> 0, mark |-> FALSE,
             memo |-> "none", by |-> "none"]
RecordOf(t) ==
    IF t \notin DOMAIN tasks THEN NoRecord
    ELSE [st |-> tasks[t].st, cp |-> [tasks[t].cp EXCEPT !.cutoff = 0], ver |-> 1,
          mark |-> tasks[t].mark, memo |-> "none", by |-> tasks[t].by]

Lifecycle == INSTANCE TaskLifecycle WITH
    Tasks <- TaskIds, Memos <- {}, NoMemo <- "none", Versions <- {1},
    Checkpoints <- {c \in [phase: {"prepare", "request", "retry", "poll"},
                           attempt: 1 .. MaxRetries + 1, cutoff: {0},
                           at: 0 .. MaxTime] : TRUE},
    NoCp <- NoCheckpoint, After <- [t \in TaskIds |-> {}],
    rec <- [t \in TaskIds |-> RecordOf(t)]

\* The task changes its record only in the ways TaskLifecycle allows.
ImplementsLifecycle == Lifecycle!Spec

\* A caller that waits is answered, or its wait is rejected.
WaitsEnd ==
    \A c \in Callers : callers[c].at = "waiting" ~> callers[c].at # "waiting"
==============================================================================
