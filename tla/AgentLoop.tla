------------------------------ MODULE AgentLoop ------------------------------
(***************************************************************************)
(* The Agent of packages/agent/src/agent.ts driving the loop of             *)
(* packages/agent/src/agent-loop.ts: prompts, the steering and follow-up    *)
(* queues, provider requests, batches of tool calls and run settlement.     *)
(*                                                                         *)
(* The loop gives way to callers, tools and listeners at every await, so    *)
(* each action below is the code between two awaits that matter.  `pc` is   *)
(* the await the loop stands at.  A tool loadout that changes mid-run       *)
(* (declareToolChanges) and contexts replaced by hooks are left out.        *)
(***************************************************************************)
EXTENDS Naturals, Sequences, SequencesExt

CONSTANTS
    MaxRequests,   \* bound: from this request on the provider only fails
    MaxCalls,      \* bound: tool calls the provider issues
    Settings       \* the Agents that are looked at

EnvKinds == {"abort", "clear", "reset", "hooks", "throw"}
QueueModes == {"one-at-a-time", "all"}

ASSUME AgentAssumption ==
    /\ MaxRequests \in Nat /\ MaxCalls \in Nat
    /\ Settings \subseteq [sent: Nat, executions: SUBSET {"parallel", "sequential"},
                           steering: QueueModes, followUp: QueueModes, env: SUBSET EnvKinds]

VARIABLES
    messages,   \* state.messages, the Agent's transcript
    context,    \* currentContext.messages, the loop's own copy
    runStart,   \* newMessages is what follows this index of the transcript
    steering, followUps,  \* the two queues
    pc, aborted,          \* the active run and its AbortSignal
    skipPoll,   \* skipInitialSteeringPoll
    prepared,   \* messages prepareNextTurn asked for
    pending,    \* pendingMessages
    reply,      \* the assistant message of this turn
    mode, at,   \* how its calls execute, and the call preflight is at
    phase,      \* phase[c]: where tool call c is
    terminating,   \* calls whose result says terminate
    shown,      \* how many result messages of the batch are emitted
    more,       \* hasMoreToolCalls
    explicit,   \* explicitContinuation
    pendingToolCalls,     \* state.pendingToolCalls
    sent, forgotten,      \* messages handed over; those cleared or reset
    requests, issued,     \* provider requests and tool calls so far
    setting               \* which of Settings this is; it does not change

queueVars == <<steering, followUps, sent, forgotten>>
textVars == <<messages, context, runStart>>
pollVars == <<skipPoll, prepared, pending, explicit>>
batchVars == <<reply, mode, at, phase, terminating, shown, more, issued>>
vars == <<messages, context, runStart, steering, followUps, pc, aborted,
          skipPoll, prepared, pending, reply, mode, at, phase, terminating,
          shown, more, explicit, pendingToolCalls, sent, forgotten, requests, issued>>

------------------------------------------------------------------------------
(* Data *)

MaxSent == setting.sent              \* bound: messages callers hand over
Executions == setting.executions     \* how batches execute
SteeringMode == setting.steering
FollowUpMode == setting.followUp
Env == setting.env                   \* what callers, hooks and listeners do

Calls == 1..MaxCalls
Sources == {"prompt", "steer", "follow"}

\* Transcript entries; `n` tells the messages callers handed over apart.
User(source, n) == [role |-> "user", source |-> source, n |-> n]
Assistant(stop, calls) == [role |-> "assistant", stop |-> stop, calls |-> calls]
Result(c) == [role |-> "toolResult", call |-> c]
Note == [role |-> "note"]
Failure == Assistant(IF aborted THEN "aborted" ELSE "error", <<>>)

Results(calls) == [k \in DOMAIN calls |-> Result(calls[k])]

\* PendingMessageQueue.peek, and what drain() leaves.
Peek(queue, how) ==
    IF how = "all" \/ queue = <<>> THEN queue ELSE <<Head(queue)>>
Left(queue, how) == IF how = "all" \/ queue = <<>> THEN <<>> ELSE Tail(queue)

Current == reply.calls[at]
HardExit == reply.stop \in {"error", "aborted"}

\* shouldTerminateToolBatch, of the calls that were finalized.
Terminates ==
    mode # "truncated" /\ at > 0 /\ \A k \in 1..at : reply.calls[k] \in terminating

------------------------------------------------------------------------------
(* Callers *)

Init ==
    /\ messages = <<>> /\ context = <<>> /\ runStart = 0
    /\ steering = <<>> /\ followUps = <<>>
    /\ pc = "idle" /\ aborted = FALSE /\ skipPoll = FALSE
    /\ prepared = <<>> /\ pending = <<>>
    /\ reply = Assistant("ok", <<>>) /\ mode = "parallel" /\ at = 0
    /\ phase = [c \in Calls |-> "none"] /\ terminating = {} /\ shown = 0
    /\ more = FALSE /\ explicit = FALSE /\ pendingToolCalls = {}
    /\ sent = 0 /\ forgotten = {} /\ requests = 0 /\ issued = 0
    /\ setting \in Settings

\* runWithLifecycle: a run on new input, or on the transcript as it stands.
Begin(input, skip, where) ==
    /\ pc' = where /\ aborted' = FALSE
    /\ context' = messages \o input /\ runStart' = Len(messages)
    /\ pending' = input /\ skipPoll' = skip
    /\ prepared' = <<>> /\ explicit' = FALSE
    /\ UNCHANGED <<messages, batchVars, pendingToolCalls, requests>>

\* prompt() throws during a run.
Prompt ==
    /\ pc = "idle" /\ sent < MaxSent
    /\ sent' = sent + 1
    /\ Begin(<<User("prompt", sent + 1)>>, FALSE, "prompting")
    /\ UNCHANGED <<steering, followUps, forgotten>>

\* continue(): an assistant tail is answered by one steering batch or else by
\* one follow-up batch, another tail is continued.
Continue ==
    /\ pc = "idle" /\ messages # <<>>
    /\ IF Last(messages).role # "assistant"
       THEN Begin(<<>>, FALSE, "poll") /\ UNCHANGED <<steering, followUps>>
       ELSE IF steering # <<>>
       THEN /\ Begin(Peek(steering, SteeringMode), TRUE, "prompting")
            /\ steering' = Left(steering, SteeringMode) /\ UNCHANGED followUps
       ELSE /\ followUps # <<>>
            /\ Begin(Peek(followUps, FollowUpMode), FALSE, "prompting")
            /\ followUps' = Left(followUps, FollowUpMode) /\ UNCHANGED steering
    /\ UNCHANGED <<sent, forgotten>>

Steer ==
    /\ sent < MaxSent /\ sent' = sent + 1
    /\ steering' = Append(steering, User("steer", sent + 1))
    /\ UNCHANGED <<textVars, followUps, forgotten, pc, aborted, pollVars, batchVars, pendingToolCalls, requests>>

FollowUp ==
    /\ sent < MaxSent /\ sent' = sent + 1
    /\ followUps' = Append(followUps, User("follow", sent + 1))
    /\ UNCHANGED <<textVars, steering, forgotten, pc, aborted, pollVars, batchVars, pendingToolCalls, requests>>

Ids(queue) == {queue[k].n : k \in {i \in DOMAIN queue : queue[i].role = "user"}}

\* clearSteeringQueue, clearFollowUpQueue
Clear ==
    /\ "clear" \in Env
    /\ \/ steering # <<>> /\ steering' = <<>> /\ UNCHANGED followUps
          /\ forgotten' = forgotten \cup Ids(steering)
       \/ followUps # <<>> /\ followUps' = <<>> /\ UNCHANGED steering
          /\ forgotten' = forgotten \cup Ids(followUps)
    /\ UNCHANGED <<textVars, sent, pc, aborted, pollVars, batchVars, pendingToolCalls, requests>>

\* reset() throws during a run.
Reset ==
    /\ "reset" \in Env /\ pc = "idle" /\ messages # <<>>
    /\ messages' = <<>> /\ steering' = <<>> /\ followUps' = <<>>
    /\ pendingToolCalls' = {} /\ forgotten' = 1..sent
    /\ UNCHANGED <<context, runStart, sent, pc, aborted, pollVars, batchVars, requests>>

Abort ==
    /\ "abort" \in Env /\ pc # "idle" /\ ~aborted
    /\ aborted' = TRUE
    /\ UNCHANGED <<textVars, queueVars, pc, pollVars, batchVars, pendingToolCalls, requests>>

------------------------------------------------------------------------------
(* The loop: input *)

\* runAgentLoop emits the input, which its context holds already.
EmitPrompt ==
    /\ pc = "prompting"
    /\ messages' = Append(messages, Head(pending))
    /\ pending' = Tail(pending)
    /\ pc' = IF Len(pending) = 1 THEN "poll" ELSE pc
    /\ UNCHANGED <<context, runStart, queueVars, aborted, skipPoll, prepared, explicit, batchVars, pendingToolCalls, requests>>

TakeSteering ==
    /\ pending' = Peek(steering, SteeringMode)
    /\ steering' = Left(steering, SteeringMode)

\* The poll before the first turn, which continue() may have made already.
FirstPoll ==
    /\ pc = "poll" /\ pc' = "deliver"
    /\ IF skipPoll THEN UNCHANGED <<pending, steering>> ELSE TakeSteering
    /\ skipPoll' = FALSE
    /\ UNCHANGED <<textVars, followUps, sent, forgotten, aborted, prepared, explicit, batchVars, pendingToolCalls, requests>>

\* prepareNextTurn, which takes time.
PrepareNextTurn ==
    /\ pc = "prepare" /\ pc' = "repoll"
    /\ prepared' \in {<<>>} \cup (IF "hooks" \in Env THEN {<<Note>>} ELSE {})
    /\ UNCHANGED <<textVars, queueVars, aborted, skipPoll, pending, explicit, batchVars, pendingToolCalls, requests>>

\* Mutant: poll again although messages are pending.
PollInstead ==
    /\ pending' = prepared \o Peek(steering, SteeringMode)
    /\ steering' = Left(steering, SteeringMode)

\* Poll again only if the earlier poll found nothing.
PollAgain ==
    IF pending = <<>>
    THEN /\ pending' = prepared \o Peek(steering, SteeringMode)
         /\ steering' = Left(steering, SteeringMode)
    ELSE pending' = prepared \o pending /\ UNCHANGED steering

Repoll ==
    /\ pc = "repoll" /\ pc' = "deliver"
    /\ PollAgain
    /\ prepared' = <<>>
    /\ UNCHANGED <<textVars, followUps, sent, forgotten, aborted, skipPoll, explicit, batchVars, pendingToolCalls, requests>>

Deliver ==
    /\ pc = "deliver"
    /\ IF pending = <<>>
       THEN pc' = "request" /\ UNCHANGED <<messages, context, pending>>
       ELSE /\ messages' = Append(messages, Head(pending))
            /\ context' = Append(context, Head(pending))
            /\ pending' = Tail(pending) /\ UNCHANGED pc
    /\ UNCHANGED <<runStart, queueVars, aborted, skipPoll, prepared, explicit, batchVars, pendingToolCalls, requests>>

------------------------------------------------------------------------------
(* The loop: request and reply *)

\* prepareRequest has run and the provider is asked.
Request ==
    /\ pc = "request" /\ pc' = "stream"
    /\ requests' = IF requests < MaxRequests THEN requests + 1 ELSE requests
    /\ UNCHANGED <<textVars, queueVars, aborted, pollVars, batchVars, pendingToolCalls>>

\* The reply, with its tool calls.  Whether it heeds the signal is up to the
\* provider.
Respond ==
    /\ pc = "stream"
    /\ \E stop \in {"ok", "length", "error"} \cup (IF aborted THEN {"aborted"} ELSE {}),
          n \in 0..(MaxCalls - issued) :
        LET message == Assistant(stop, [k \in 1..n |-> issued + k]) IN
        /\ requests = MaxRequests => stop \in {"error", "aborted"} /\ n = 0
        /\ messages' = Append(messages, message)
        /\ context' = Append(context, message)
        /\ reply' = message /\ issued' = issued + n
        /\ pc' = IF n = 0 \/ stop \in {"error", "aborted"} THEN "finish" ELSE "preflight"
        /\ mode' \in IF stop = "length" THEN {"truncated"} ELSE Executions
    /\ at' = 1 /\ shown' = 0 /\ terminating' = {} /\ more' = FALSE
    /\ UNCHANGED <<runStart, queueVars, aborted, pollVars, phase, pendingToolCalls, requests>>

------------------------------------------------------------------------------
(* The loop: tool calls *)

\* tool_execution_start
StartCall ==
    /\ pc = "preflight" /\ phase[Current] = "none"
    /\ phase' = [phase EXCEPT ![Current] = "started"]
    /\ pendingToolCalls' = pendingToolCalls \cup {Current}
    /\ UNCHANGED <<textVars, queueVars, pc, aborted, pollVars, reply, mode, at, terminating, shown, more, issued, requests>>

\* prepareToolCall settles the call at once: no such tool, invalid arguments,
\* blocked, aborted, or cut off by the output limit.
RefuseCall ==
    /\ pc = "preflight" /\ phase[Current] = "started"
    /\ phase' = [phase EXCEPT ![Current] = "done"]
    /\ pendingToolCalls' = pendingToolCalls \ {Current}
    /\ terminating' \in {terminating} \cup
         (IF mode # "truncated" /\ "hooks" \in Env THEN {terminating \cup {Current}} ELSE {})
    /\ UNCHANGED <<textVars, queueVars, pc, aborted, pollVars, reply, mode, at, shown, more, issued, requests>>

\* prepareToolCall lets the call run, in sequential mode at once.
PrepareCall ==
    /\ pc = "preflight" /\ phase[Current] = "started"
    /\ mode # "truncated" /\ ~aborted
    /\ phase' = [phase EXCEPT ![Current] = IF mode = "parallel" THEN "ready" ELSE "executing"]
    /\ UNCHANGED <<textVars, queueVars, pc, aborted, pollVars, reply, mode, at, terminating, shown, more, issued, pendingToolCalls, requests>>

\* Another call of the batch is taken up.
GoesOn == at < Len(reply.calls) /\ (mode = "truncated" \/ ~aborted)

\* Mutant: the results of a batch do not reach the loop's context.
ContextWithoutResults(n) == context

\* The batch's result messages join the context together.
ContextWith(n) == context \o Results(SubSeq(reply.calls, 1, n))

\* After a call: a parallel batch starts executing, another one emits the
\* call's result message, and both stop taking calls once aborted.
NextCall ==
    /\ pc = "preflight"
    /\ phase[Current] = "done" \/ (phase[Current] = "ready" /\ mode = "parallel")
    /\ at' = IF GoesOn THEN at + 1 ELSE at
    /\ IF mode = "parallel"
       THEN /\ pc' = IF GoesOn THEN pc ELSE "launch"
            /\ UNCHANGED <<messages, context, shown, more>>
       ELSE /\ messages' = Append(messages, Result(Current))
            /\ shown' = at
            /\ pc' = IF GoesOn THEN pc ELSE "finish"
            /\ context' = IF GoesOn THEN context ELSE ContextWith(at)
            /\ more' = (~GoesOn /\ ~Terminates)
    /\ UNCHANGED <<runStart, queueVars, aborted, pollVars, reply, mode, phase, terminating, issued, pendingToolCalls, requests>>

Ready == {c \in Calls : phase[c] = "ready"}

\* The prepared calls of a parallel batch start together, or fail together
\* when the run was aborted during preflight.
Launch ==
    /\ pc = "launch" /\ pc' = "running"
    /\ phase' = [c \in Calls |-> IF c \notin Ready THEN phase[c]
                                ELSE IF aborted THEN "done" ELSE "executing"]
    /\ pendingToolCalls' = IF aborted THEN pendingToolCalls \ Ready ELSE pendingToolCalls
    /\ UNCHANGED <<textVars, queueVars, aborted, pollVars, reply, mode, at, terminating, shown, more, issued, requests>>

\* The call belongs to the batch the loop is waiting for.
Awaited(c) == pc \in {"preflight", "running"} /\ c \in Range(reply.calls)

\* Tool c returns or throws and afterToolCall has seen it: tool_execution_end.
\* A listener of its events that throws fails the run, and the calls executing
\* beside it go on without one.
EndTool(c) ==
    /\ phase[c] = "executing"
    /\ phase' = [phase EXCEPT ![c] = "done"]
    /\ pendingToolCalls' = pendingToolCalls \ {c}
    /\ terminating' \in {terminating} \cup
         (IF "hooks" \in Env /\ Awaited(c) THEN {terminating \cup {c}} ELSE {})
    /\ pc' \in {pc} \cup (IF "throw" \in Env /\ Awaited(c) THEN {"failing"} ELSE {})
    /\ UNCHANGED <<textVars, queueVars, aborted, pollVars, reply, mode, at, shown, more, issued, requests>>

\* Mutant: results are taken once every call of the reply has finished, those an
\* abort dropped included.
ReplyDone == \A c \in Range(reply.calls) : phase[c] = "done"

AllDone == \A k \in 1..at : phase[reply.calls[k]] = "done"

\* Mutant: the last call comes first.
LastFirst(k) == reply.calls[at + 1 - k]

\* orderedFinalizedCalls: the k-th call of the batch, in source order.
Finalized(k) == reply.calls[k]

\* Result messages of a parallel batch.
EmitResult ==
    /\ pc = "running" /\ AllDone
    /\ messages' = Append(messages, Result(Finalized(shown + 1)))
    /\ shown' = shown + 1
    /\ IF shown' = at
       THEN pc' = "finish" /\ context' = ContextWith(at) /\ more' = ~Terminates
       ELSE UNCHANGED <<pc, context, more>>
    /\ UNCHANGED <<runStart, queueVars, aborted, pollVars, reply, mode, at, phase, terminating, issued, pendingToolCalls, requests>>

------------------------------------------------------------------------------
(* The loop: what comes after a turn *)

\* finishTurn and turn_end: an error or aborted reply ends the run whatever
\* the hook decides.
FinishTurn ==
    /\ pc = "finish"
    /\ \E decision \in {"none"} \cup (IF "hooks" \in Env THEN {"continue", "end"} ELSE {}) :
        IF HardExit \/ decision = "end"
        THEN pc' = "ended" /\ UNCHANGED explicit
        ELSE pc' = "steer" /\ explicit' = (decision = "continue")
    /\ UNCHANGED <<textVars, queueVars, aborted, skipPoll, prepared, pending, batchVars, pendingToolCalls, requests>>

PollSteering ==
    /\ pc = "steer"
    /\ TakeSteering
    /\ IF more \/ pending' # <<>>
       THEN pc' = "prepare" /\ explicit' = FALSE
       ELSE pc' = "follow" /\ UNCHANGED explicit
    /\ UNCHANGED <<textVars, followUps, sent, forgotten, aborted, skipPoll, prepared, batchVars, pendingToolCalls, requests>>

\* Mutant: the decision to continue is forgotten when no follow-up waits.
GoesNowhere == pending' # <<>>

\* The loop goes on after it polled the follow-ups.
Continues == pending' # <<>> \/ explicit

PollFollowUps ==
    /\ pc = "follow"
    /\ pending' = Peek(followUps, FollowUpMode)
    /\ followUps' = Left(followUps, FollowUpMode)
    /\ pc' = IF Continues THEN "prepare" ELSE "ended"
    /\ explicit' = FALSE
    /\ UNCHANGED <<textVars, steering, sent, forgotten, aborted, skipPoll, prepared, batchVars, pendingToolCalls, requests>>

\* A hook, the stream function or a listener throws: what the loop holds in
\* its variables is gone.
Fail ==
    /\ "throw" \in Env
    /\ pc \notin {"idle", "launch", "failing", "settled"}
    /\ pc = "preflight" => phase[Current] # "executing"
    /\ pc = "running" => AllDone
    /\ pc' = "failing"
    /\ pending' = <<>> /\ prepared' = <<>> /\ explicit' = FALSE
    /\ UNCHANGED <<textVars, queueVars, aborted, skipPoll, batchVars, pendingToolCalls, requests>>

\* handleRunFailure, whose own events may meet a listener that throws.
HandleRunFailure ==
    /\ pc = "failing" /\ pc' = "settled"
    /\ messages' \in {messages, Append(messages, Failure)}
    /\ UNCHANGED <<context, runStart, queueVars, aborted, pollVars, batchVars, pendingToolCalls, requests>>

\* finishRun, once the listeners of agent_end are done.
FinishRun ==
    /\ pc \in {"ended", "settled"} /\ pc' = "idle"
    /\ pendingToolCalls' = {} /\ aborted' = FALSE
    /\ UNCHANGED <<textVars, queueVars, pollVars, batchVars, requests>>

------------------------------------------------------------------------------
Callers == Prompt \/ Continue \/ Steer \/ FollowUp \/ Clear \/ Reset \/ Abort
Loop ==
    \/ EmitPrompt \/ FirstPoll \/ PrepareNextTurn \/ Repoll \/ Deliver
    \/ Request \/ Respond \/ StartCall \/ RefuseCall \/ PrepareCall \/ NextCall
    \/ Launch \/ EmitResult \/ FinishTurn \/ PollSteering \/ PollFollowUps
    \/ HandleRunFailure \/ FinishRun

Next == Callers \/ Loop \/ Fail \/ \E c \in Calls : EndTool(c)

Spec == Init /\ [][Next /\ UNCHANGED setting]_<<vars, setting>>

\* Awaits settle: the provider answers, hooks and listeners return, tools end.
Fairness == WF_vars(Loop) /\ \A c \in Calls : WF_vars(EndTool(c))

FairSpec == Spec /\ Fairness

------------------------------------------------------------------------------
(* Properties *)

\* The loop and the Agent append to two transcripts at different moments; each
\* request is made with exactly what the Agent shows, where no hook replaces the context.
ContextIsTranscript == pc \in {"request", "stream"} => context = messages

\* Entry j of the transcript is a result that answers the assistant message at k:
\* between them stand the results of the calls before it, in source order.
Answers(j, k) ==
    /\ k < j /\ messages[k].role = "assistant"
    /\ j - k \in DOMAIN messages[k].calls
    /\ \A i \in 1..(j - k) : messages[k + i] = Result(messages[k].calls[i])

\* Result messages stand behind the assistant message that asked for them, in
\* its order, whatever order the calls finished in; only an abort or a failure
\* cuts them short.  Unless the run was aborted no request leaves a tool call of
\* this run unanswered, also after a truncated reply and after batches that
\* terminate.
ResultsFollowCalls ==
    /\ \A j \in DOMAIN messages :
         messages[j].role = "toolResult" => \E k \in DOMAIN messages : Answers(j, k)
    /\ pc = "stream" /\ ~aborted =>
         \A k \in DOMAIN messages :
             k > runStart /\ messages[k].role = "assistant" =>
                 \A i \in DOMAIN messages[k].calls :
                     /\ k + i \in DOMAIN messages
                     /\ messages[k + i] = Result(messages[k].calls[i])

IsSteer(m) == m.role = "user" /\ m.source = "steer"

\* Where messages handed over are, oldest first: transcript, the loop's pending
\* messages, queue.
Trail(queue) == messages \o pending \o queue

\* Messages of one source stand in the order they came in.
InOrder(trail) ==
    \A j, k \in DOMAIN trail :
        j < k /\ trail[j].role = "user" /\ trail[k].role = "user" /\ trail[j].source = trail[k].source
        => trail[j].n < trail[k].n

\* Between two steering messages the assistant has answered.
Spaced(trail) ==
    \A j, k \in DOMAIN trail :
        j < k /\ IsSteer(trail[j]) /\ IsSteer(trail[k])
        => \E m \in j..k : trail[m].role = "assistant"

\* Messages that were handed over are delivered in order, each once.  As long as no
\* hook or listener throws (SteeringIsKept shows what happens then) every one is in the
\* transcript, pending or queued, until it is cleared, and with one-at-a-time
\* steering at most one enters the transcript between two assistant messages.
MessagesAreKept ==
    /\ InOrder(Trail(steering)) /\ InOrder(Trail(followUps))
    /\ "throw" \notin Env =>
         /\ Ids(Trail(steering)) \cup Ids(Trail(followUps)) \cup forgotten = 1..sent
         /\ SteeringMode = "one-at-a-time" => Spaced(messages)

\* A queued steering message goes into the transcript, unless it is cleared.
SteeringIsKept ==
    [][\A k \in DOMAIN (steering \o pending) :
        LET m == (steering \o pending)[k] IN
        IsSteer(m) => m.n \in Ids(Trail(steering))' \cup forgotten']_vars

\* pendingToolCalls shows every call that executes, until the run is over.
ExecutingArePending == \A c \in Calls : phase[c] = "executing" => c \in pendingToolCalls

\* finishTurn's decision to continue is honoured by another request.
ContinueIsHonoured == (pc = "steer" /\ explicit) ~> pc \in {"stream", "failing"}

\* Every run settles, aborted or not, however its calls interleave.
RunSettles == pc # "idle" ~> pc = "idle"
==============================================================================
