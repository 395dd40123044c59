--------------------------- MODULE AgentLoopProofs ---------------------------
(***************************************************************************)
(* Proofs about the Agent and its loop, for every value of the constants   *)
(* of AgentLoop: the two transcripts agree at every request, results stand *)
(* behind the calls they answer, and messages handed over are delivered in *)
(* order and kept.                                                         *)
(***************************************************************************)
EXTENDS AgentLoop, SequenceTheorems, TLAPS

From(source) == [role: {"user"}, source: {source}, n: Nat]
Users == [role: {"user"}, source: Sources, n: Nat]
Stops == {"ok", "length", "error", "aborted"}
Replies == [role: {"assistant"}, stop: Stops, calls: Seq(Calls)]
ToolResults == [role: {"toolResult"}, call: Calls]
Entries == Users \cup Replies \cup ToolResults \cup {Note}

Places == {"idle", "prompting", "poll", "deliver", "request", "stream", "preflight", "launch",
           "running", "finish", "steer", "follow", "prepare", "repoll", "failing", "settled", "ended"}

TypeOK ==
    /\ messages \in Seq(Entries) /\ context \in Seq(Entries) /\ runStart \in Nat
    /\ steering \in Seq(From("steer")) /\ followUps \in Seq(From("follow"))
    /\ pc \in Places /\ aborted \in BOOLEAN /\ skipPoll \in BOOLEAN
    /\ prepared \in {<<>>, <<Note>>} /\ pending \in Seq(Users \cup {Note})
    /\ reply \in Replies /\ mode \in {"parallel", "sequential", "truncated"}
    /\ at \in Nat /\ shown \in Nat
    /\ phase \in [Calls -> {"none", "started", "ready", "executing", "done"}]
    /\ terminating \in SUBSET Calls /\ pendingToolCalls \in SUBSET Calls
    /\ more \in BOOLEAN /\ explicit \in BOOLEAN
    /\ sent \in Nat /\ forgotten \in SUBSET Nat
    /\ requests \in Nat /\ issued \in 0..MaxCalls
    /\ setting \in Settings

\* The loop holds messages only between the poll that took them and their delivery.
PendingInv ==
    /\ pc \notin {"prompting", "deliver", "prepare", "repoll"} => pending = <<>>
    /\ pc = "prompting" => pending # <<>>
    /\ pc # "repoll" => prepared = <<>>

InBatch == pc \in {"preflight", "launch", "running"}

\* During a batch the transcript is the loop's context, which ends with the reply,
\* and the results shown so far.
BatchInv ==
    InBatch =>
        /\ context # <<>> /\ context[Len(context)] = reply
        /\ at \in DOMAIN reply.calls /\ shown \in 0..at
        /\ messages = context \o Results(SubSeq(reply.calls, 1, shown))
        /\ pc = "preflight" => shown = IF mode = "parallel" THEN 0 ELSE at - 1
        /\ pc = "launch" => shown = 0
        /\ pc = "running" => shown < at
        /\ pc # "preflight" /\ ~aborted => at = Len(reply.calls)

\* Elsewhere in a run it is the context, except for the input not yet emitted.
ContextInv ==
    /\ pc = "prompting" => context = messages \o pending
    /\ pc \in {"poll", "deliver", "request", "stream", "finish", "steer", "follow",
               "prepare", "repoll"} => context = messages

BaseInv == TypeOK /\ PendingInv /\ BatchInv /\ ContextInv

\* Every result stands behind the call it answers.
Placed == \A j \in DOMAIN messages :
            messages[j].role = "toolResult" => \E k \in DOMAIN messages : Answers(j, k)

\* Every call of the reply at k has its result, in source order.
Answered(k) ==
    \A i \in DOMAIN messages[k].calls :
        /\ k + i \in DOMAIN messages
        /\ messages[k + i] = Result(messages[k].calls[i])

\* As long as the run goes on and is not aborted, the calls of every reply but the
\* one the loop is busy with are answered.
AnsweredInv ==
    /\ ~aborted /\ pc \notin {"idle", "failing", "settled", "ended"}
    /\ pc = "finish" => ~HardExit
    => \A k \in DOMAIN messages :
         /\ k > runStart /\ messages[k].role = "assistant"
         /\ InBatch => k < Len(context)
         => Answered(k)

ResultsInv == BaseInv /\ Placed /\ AnsweredInv

\* Only numbers given out are in a queue, in the transcript or forgotten.
Numbered ==
    /\ Ids(Trail(steering)) \subseteq 1..sent /\ Ids(Trail(followUps)) \subseteq 1..sent
    /\ forgotten \subseteq 1..sent

OrderInv == InOrder(Trail(steering)) /\ InOrder(Trail(followUps))

\* When nothing throws, every message handed over is somewhere.
KeptInv ==
    "throw" \notin Env =>
        Ids(Trail(steering)) \cup Ids(Trail(followUps)) \cup forgotten = 1..sent

\* The assistant has answered every steering message.
Fresh(trail) ==
    \A j \in DOMAIN trail : IsSteer(trail[j]) => \E m \in j..Len(trail) : trail[m].role = "assistant"

\* Where the loop may take steering messages next.
MayTake ==
    \/ pc \in {"idle", "preflight", "launch", "running", "finish", "steer", "follow", "ended"}
    \/ pc \in {"prompting", "poll"} /\ ~skipPoll
    \/ pc \in {"prepare", "repoll"} /\ pending = <<>>

\* When nothing throws no run fails, and a steering message is taken only after a reply.
SpacedInv ==
    "throw" \notin Env =>
        /\ pc \notin {"failing", "settled"}
        /\ SteeringMode = "one-at-a-time" =>
            /\ Spaced(messages \o pending)
            /\ MayTake => Fresh(messages \o pending)

KeepInv == BaseInv /\ Numbered /\ OrderInv /\ KeptInv /\ SpacedInv

------------------------------------------------------------------------------
(* Sequences *)

\* A queue is what peek() returns followed by what drain() leaves.
LEMMA QueueSplits ==
    ASSUME NEW T, NEW q \in Seq(T), NEW how
    PROVE  /\ Peek(q, how) \in Seq(T) /\ Left(q, how) \in Seq(T)
           /\ Peek(q, how) \o Left(q, how) = q
           /\ q # <<>> => Peek(q, how) # <<>>
           /\ how = "one-at-a-time" => Len(Peek(q, how)) <= 1
<1>1. CASE how = "all" \/ q = <<>>
  <2>1. Peek(q, how) = q /\ Left(q, how) = <<>>
    BY <1>1 DEF Peek, Left
  <2>. QED
    BY <2>1, <1>1, ConcatEmptySeq, EmptySeq
<1>2. CASE how # "all" /\ q # <<>>
  <2>1. Peek(q, how) = <<Head(q)>> /\ Left(q, how) = Tail(q)
    BY <1>2 DEF Peek, Left
  <2>. QED
    BY <2>1, <1>2
<1>. QED
  BY <1>1, <1>2

\* Emitting the first of some messages moves it from one sequence to the other.
LEMMA EmitMoves ==
    ASSUME NEW T, NEW s \in Seq(T), NEW p \in Seq(T), p # <<>>
    PROVE  /\ Append(s, Head(p)) \in Seq(T) /\ Tail(p) \in Seq(T)
           /\ Append(s, Head(p)) \o Tail(p) = s \o p
           /\ (Len(p) = 1) <=> (Tail(p) = <<>>)
<1>1. Head(p) \in T /\ Tail(p) \in Seq(T) /\ Len(Tail(p)) = Len(p) - 1 /\ <<Head(p)>> \in Seq(T)
  BY HeadTailProperties
<1>2. p = <<Head(p)>> \o Tail(p)
  <2>1. Len(<<Head(p)>> \o Tail(p)) = Len(p) /\ <<Head(p)>> \o Tail(p) \in Seq(T)
        /\ Len(p) \in Nat \ {0}
    BY <1>1, EmptySeq
  <2>2. \A i \in 1..Len(p) : p[i] = (<<Head(p)>> \o Tail(p))[i]
    BY <1>1, <2>1
  <2>. QED
    BY <2>1, <2>2, SeqEqual
<1>3. Append(s, Head(p)) = s \o <<Head(p)>>
  BY <1>1, AppendIsConcat
<1>4. (s \o <<Head(p)>>) \o Tail(p) = s \o (<<Head(p)>> \o Tail(p))
  BY <1>1, ConcatAssociative
<1>5. Append(s, Head(p)) \o Tail(p) = s \o p
  BY <1>2, <1>3, <1>4
<1>6. Len(p) = 1 <=> Tail(p) = <<>>
  BY <1>1, EmptySeq
<1>7. Append(s, Head(p)) \in Seq(T)
  BY <1>1
<1>. QED
  BY <1>1, <1>5, <1>6, <1>7

\* The results of one call more.
LEMMA OneResultMore ==
    ASSUME NEW calls \in Seq(Calls), NEW n \in DOMAIN calls, NEW s \in Seq(Entries)
    PROVE  /\ Results(SubSeq(calls, 1, n)) \in Seq(Entries)
           /\ Len(Results(SubSeq(calls, 1, n))) = n
           /\ \A i \in 1..n : Results(SubSeq(calls, 1, n))[i] = Result(calls[i])
           /\ Append(s \o Results(SubSeq(calls, 1, n - 1)), Result(calls[n]))
                = s \o Results(SubSeq(calls, 1, n))
<1>1. \A m \in 0..Len(calls) :
        /\ Results(SubSeq(calls, 1, m)) = [k \in 1..m |-> Result(calls[k])]
        /\ Results(SubSeq(calls, 1, m)) \in Seq(ToolResults)
  <2>. TAKE m \in 0..Len(calls)
  <2>1. SubSeq(calls, 1, m) \in Seq(Calls) /\ Len(SubSeq(calls, 1, m)) = m
        /\ \A k \in 1..m : SubSeq(calls, 1, m)[k] = calls[k] /\ calls[k] \in Calls
    OBVIOUS
  <2>2. DOMAIN SubSeq(calls, 1, m) = 1..m
    BY <2>1
  <2>3. Results(SubSeq(calls, 1, m)) = [k \in 1..m |-> Result(calls[k])]
    BY <2>1, <2>2 DEF Results
  <2>4. \A k \in 1..m : Result(calls[k]) \in ToolResults
    BY <2>1 DEF Result, ToolResults
  <2>. QED
    BY <2>3, <2>4
<1>2. n \in 1..Len(calls) /\ n - 1 \in 0..Len(calls)
  OBVIOUS
<1>. DEFINE A == Results(SubSeq(calls, 1, n - 1))  B == Results(SubSeq(calls, 1, n))
<1>3. A = [k \in 1..(n - 1) |-> Result(calls[k])] /\ B = [k \in 1..n |-> Result(calls[k])]
      /\ A \in Seq(ToolResults) /\ B \in Seq(ToolResults)
  BY <1>1, <1>2
<1>4. Len(A) = n - 1 /\ Len(B) = n
  BY <1>2, <1>3
<1>5. B \in Seq(Entries) /\ A \in Seq(Entries) /\ Result(calls[n]) \in Entries
  <2>1. ToolResults \subseteq Entries
    BY DEF Entries
  <2>2. calls[n] \in Calls
    OBVIOUS
  <2>. QED
    BY <2>1, <2>2, <1>3, SeqMonotonic DEF ToolResults, Result
<1>6. \A i \in 1..n : B[i] = Result(calls[i])
  BY <1>3
<1>7. \A i \in 1..(n - 1) : A[i] = Result(calls[i])
  BY <1>3
<1>. HIDE DEF A, B
<1>8. Append(s \o A, Result(calls[n])) = s \o B
  <2>. DEFINE L == Append(s \o A, Result(calls[n]))  R == s \o B
  <2>1. L \in Seq(Entries) /\ R \in Seq(Entries) /\ Len(L) = Len(s) + n /\ Len(R) = Len(s) + n
    <3>1. s \o A \in Seq(Entries) /\ Len(s \o A) = Len(s) + (n - 1)
      BY <1>4, <1>5, ConcatProperties
    <3>2. s \o B \in Seq(Entries) /\ Len(s \o B) = Len(s) + n
      BY <1>4, <1>5, ConcatProperties
    <3>3. L \in Seq(Entries) /\ Len(L) = Len(s \o A) + 1
      BY <3>1, <1>5, AppendProperties
    <3>. QED
      BY <3>1, <3>2, <3>3, <1>2
  <2>2. ASSUME NEW i \in 1..Len(L) PROVE L[i] = R[i]
    <3>1. CASE i <= Len(s)
      BY <3>1, <2>1, <1>2, <1>4, <1>5
    <3>2. CASE i > Len(s) /\ i < Len(s) + n
      <4>1. L[i] = A[i - Len(s)] /\ R[i] = B[i - Len(s)] /\ i - Len(s) \in 1..(n - 1)
        BY <3>2, <2>1, <1>2, <1>4, <1>5
      <4>. QED
        BY <4>1, <1>6, <1>7, <1>2
    <3>3. CASE i = Len(s) + n
      <4>1. L[i] = Result(calls[n]) /\ R[i] = B[n]
        BY <3>3, <2>1, <1>2, <1>4, <1>5
      <4>. QED
        BY <4>1, <1>6, <1>2
    <3>. QED
      <4>1. i \in 1..(Len(s) + n) /\ Len(s) \in Nat /\ n \in Nat
        BY <2>1, <1>2
      <4>2. i <= Len(s) \/ (i > Len(s) /\ i < Len(s) + n) \/ i = Len(s) + n
        BY <4>1
      <4>. QED
        BY <4>2, <3>1, <3>2, <3>3
  <2>. HIDE DEF L, R
  <2>3. L = R
    BY <2>1, <2>2, SeqEqual
  <2>. QED
    BY <2>3 DEF L, R
<1>. QED
  BY <1>4, <1>5, <1>6, <1>8 DEF A, B

------------------------------------------------------------------------------
(* Types *)

\* Messages, replies and results are entries of a transcript; so is the failure message.
LEMMA EntryTypes ==
    /\ From("steer") \subseteq Users /\ From("follow") \subseteq Users
    /\ Users \cup {Note} \subseteq Entries /\ Replies \subseteq Entries
    /\ \A c \in Calls : Result(c) \in Entries
    /\ Failure \in Replies /\ Failure.role = "assistant" /\ Failure.calls = <<>>
<1>1. From("steer") \subseteq Users /\ From("follow") \subseteq Users
  BY DEF From, Users, Sources
<1>2. \A c \in Calls : Result(c) \in ToolResults
  BY DEF Result, ToolResults
<1>3. Failure \in Replies
  <2>1. <<>> \in Seq(Calls)
    BY EmptySeq
  <2>. QED
    BY <2>1 DEF Failure, Assistant, Replies, Stops
<1>. QED
  BY <1>1, <1>2, <1>3 DEF Entries, Failure, Assistant

\* What waits in a queue came in through it.
LEMMA FromQueue ==
    ASSUME NEW source, NEW q \in Seq(From(source)), NEW k \in DOMAIN q
    PROVE  q[k].role = "user" /\ q[k].source = source /\ q[k].n \in Nat
<1>1. q[k] \in From(source)
  BY ElementOfSeq, LenProperties
<1>. QED
  BY <1>1 DEF From

\* What a poll takes and what it leaves.
LEMMA PollTypes ==
    ASSUME TypeOK
    PROVE  /\ Peek(steering, SteeringMode) \in Seq(Users \cup {Note})
           /\ Peek(steering, SteeringMode) \in Seq(From("steer"))
           /\ Left(steering, SteeringMode) \in Seq(From("steer"))
           /\ Peek(followUps, FollowUpMode) \in Seq(Users \cup {Note})
           /\ Peek(followUps, FollowUpMode) \in Seq(From("follow"))
           /\ Left(followUps, FollowUpMode) \in Seq(From("follow"))
<1>1. steering \in Seq(From("steer")) /\ followUps \in Seq(From("follow"))
  BY DEF TypeOK
<1>2. /\ Peek(steering, SteeringMode) \in Seq(From("steer"))
      /\ Left(steering, SteeringMode) \in Seq(From("steer"))
  BY <1>1, QueueSplits
<1>3. /\ Peek(followUps, FollowUpMode) \in Seq(From("follow"))
      /\ Left(followUps, FollowUpMode) \in Seq(From("follow"))
  BY <1>1, QueueSplits
<1>. QED
  BY <1>2, <1>3, EntryTypes, SeqMonotonic

\* The parts of TypeOK that a step of one kind changes.
TextTypes == messages \in Seq(Entries) /\ context \in Seq(Entries) /\ runStart \in Nat
QueueTypes ==
    /\ steering \in Seq(From("steer")) /\ followUps \in Seq(From("follow"))
    /\ sent \in Nat /\ forgotten \in SUBSET Nat
PollTypesOK ==
    /\ skipPoll \in BOOLEAN /\ explicit \in BOOLEAN
    /\ prepared \in {<<>>, <<Note>>} /\ pending \in Seq(Users \cup {Note})
BatchTypes ==
    /\ reply \in Replies /\ mode \in {"parallel", "sequential", "truncated"}
    /\ at \in Nat /\ shown \in Nat
    /\ phase \in [Calls -> {"none", "started", "ready", "executing", "done"}]
    /\ terminating \in SUBSET Calls /\ pendingToolCalls \in SUBSET Calls
    /\ more \in BOOLEAN /\ requests \in Nat /\ issued \in 0..MaxCalls

\* Type correctness, by the groups of variables the actions leave alone together.
LEMMA TypeParts ==
    TypeOK <=> /\ TextTypes /\ QueueTypes /\ PollTypesOK /\ BatchTypes
               /\ pc \in Places /\ aborted \in BOOLEAN /\ setting \in Settings
BY DEF TypeOK, TextTypes, QueueTypes, PollTypesOK, BatchTypes

\* The same parts, after a step.
LEMMA TypePartsNext ==
    ASSUME TextTypes', QueueTypes', PollTypesOK', BatchTypes',
           pc' \in Places, aborted' \in BOOLEAN, setting' \in Settings
    PROVE  TypeOK'
BY DEF TypeOK, TextTypes, QueueTypes, PollTypesOK, BatchTypes

\* The setting has a SteeringMode and so on.
LEMMA SettingTypes ==
    ASSUME TypeOK
    PROVE  MaxSent \in Nat /\ Executions \subseteq {"parallel", "sequential"}
BY AgentAssumption DEF TypeOK, MaxSent, Executions

\* Input that begins a run.
LEMMA BeginTypes ==
    ASSUME TypeOK, setting' = setting, QueueTypes',
           NEW input \in Seq(Users \cup {Note}), NEW skip \in BOOLEAN, NEW where \in Places,
           Begin(input, skip, where)
    PROVE  TypeOK'
<1>1. input \in Seq(Entries) /\ messages \in Seq(Entries)
  BY EntryTypes, SeqMonotonic DEF TypeOK
<1>2. TextTypes'
  BY <1>1, ConcatProperties DEF Begin, TextTypes, TypeOK
<1>3. PollTypesOK'
  BY DEF Begin, PollTypesOK, TypeOK
<1>4. BatchTypes'
  BY TypeParts DEF Begin, BatchTypes, batchVars
<1>. QED
  BY <1>2, <1>3, <1>4, TypePartsNext DEF Begin, TypeOK

\* The call a batch is at.
LEMMA CurrentIsCall ==
    ASSUME TypeOK, BatchInv, InBatch
    PROVE  Current \in Calls /\ Result(Current) \in Entries /\ at \in 1..Len(reply.calls)
<1>1. reply.calls \in Seq(Calls)
  BY DEF TypeOK, Replies
<1>2. at \in 1..Len(reply.calls)
  BY <1>1 DEF BatchInv
<1>. QED
  BY <1>1, <1>2, EntryTypes DEF Current

\* Entries are appended to the transcript.
LEMMA AppendTypes ==
    ASSUME TypeOK, NEW x \in Entries
    PROVE  Append(messages, x) \in Seq(Entries) /\ Append(context, x) \in Seq(Entries)
BY DEF TypeOK

\* What the loop delivers next, and what is left, are messages.
LEMMA PendingHead ==
    ASSUME TypeOK, pending # <<>>
    PROVE  Head(pending) \in Users \cup {Note} /\ Head(pending) \in Entries
           /\ Tail(pending) \in Seq(Users \cup {Note})
BY EntryTypes DEF TypeOK

\* The context with the results of the first calls of a batch is a transcript.
LEMMA BatchContext ==
    ASSUME TypeOK, BatchInv, InBatch, NEW n \in DOMAIN reply.calls
    PROVE  ContextWith(n) \in Seq(Entries)
<1>1. reply.calls \in Seq(Calls)
  BY DEF TypeOK, Replies
<1>2. context \in Seq(Entries)
  BY DEF TypeOK
<1>3. Results(SubSeq(reply.calls, 1, n)) \in Seq(Entries)
  BY <1>1, <1>2, OneResultMore
<1>. QED
  BY <1>2, <1>3, ConcatProperties DEF ContextWith

\* Callers of the Agent (prompt, continue, queues, abort, reset) keep the types.
LEMMA CallerTypes ==
    ASSUME BaseInv, Callers, UNCHANGED setting
    PROVE  TypeOK'
<1>. TypeOK /\ PendingInv /\ BatchInv
  BY DEF BaseInv
<1>. USE TypeParts
<1>. setting' \in Settings
  BY DEF TypeOK
<1>1. CASE Prompt
  <2>1. User("prompt", sent + 1) \in Users
    BY <1>1 DEF User, Users, Sources, TypeOK
  <2>2. <<User("prompt", sent + 1)>> \in Seq(Users \cup {Note})
    BY <2>1
  <2>3. QueueTypes'
    BY <1>1 DEF Prompt, QueueTypes
  <2>. QED
    BY <1>1, <2>2, <2>3, BeginTypes DEF Prompt, Places
<1>2. CASE Continue
  <2>1. CASE Last(messages).role # "assistant"
    <3>1. QueueTypes'
      BY <1>2, <2>1 DEF Continue, QueueTypes
    <3>. QED
      BY <1>2, <2>1, <3>1, BeginTypes, EmptySeq DEF Continue, Places
  <2>2. CASE Last(messages).role = "assistant" /\ steering # <<>>
    <3>1. QueueTypes'
      BY <1>2, <2>2, PollTypes DEF Continue, QueueTypes
    <3>. QED
      BY <1>2, <2>2, <3>1, BeginTypes, PollTypes DEF Continue, Places
  <2>3. CASE Last(messages).role = "assistant" /\ steering = <<>>
    <3>1. QueueTypes'
      BY <1>2, <2>3, PollTypes DEF Continue, QueueTypes
    <3>. QED
      BY <1>2, <2>3, <3>1, BeginTypes, PollTypes DEF Continue, Places
  <2>. QED
    BY <2>1, <2>2, <2>3
<1>3. CASE Steer
  <2>1. User("steer", sent + 1) \in From("steer")
    BY DEF User, From, TypeOK
  <2>2. QueueTypes'
    BY <1>3, <2>1 DEF Steer, QueueTypes
  <2>. QED
    BY <1>3, <2>2, TypePartsNext DEF Steer, TextTypes, PollTypesOK, BatchTypes, textVars, pollVars, batchVars
<1>4. CASE FollowUp
  <2>1. User("follow", sent + 1) \in From("follow")
    BY DEF User, From, TypeOK
  <2>2. QueueTypes'
    BY <1>4, <2>1 DEF FollowUp, QueueTypes
  <2>. QED
    BY <1>4, <2>2, TypePartsNext DEF FollowUp, TextTypes, PollTypesOK, BatchTypes, textVars, pollVars, batchVars
<1>5. CASE Clear
  <2>1. Ids(steering) \subseteq Nat /\ Ids(followUps) \subseteq Nat
    BY FromQueue DEF Ids, TypeOK
  <2>2. QueueTypes'
    BY <1>5, <2>1, EmptySeq DEF Clear, QueueTypes
  <2>. QED
    BY <1>5, <2>2, TypePartsNext DEF Clear, TextTypes, PollTypesOK, BatchTypes, textVars, pollVars, batchVars
<1>6. CASE Reset
  <2>1. QueueTypes' /\ messages' \in Seq(Entries)
    BY <1>6, EmptySeq DEF Reset, QueueTypes
  <2>2. TextTypes' /\ PollTypesOK' /\ BatchTypes'
    BY <1>6, <2>1 DEF Reset, TextTypes, PollTypesOK, BatchTypes, pollVars, batchVars
  <2>. QED
    BY <1>6, <2>1, <2>2, TypePartsNext DEF Reset
<1>7. CASE Abort
  BY <1>7, TypePartsNext DEF Abort, TextTypes, QueueTypes, PollTypesOK, BatchTypes, textVars, queueVars, pollVars, batchVars
<1>. QED
  BY <1>1, <1>2, <1>3, <1>4, <1>5, <1>6, <1>7 DEF Callers

\* So do the loop, a tool that ends and a listener that throws.
LEMMA LoopTypes ==
    ASSUME BaseInv, Loop \/ Fail \/ \E c \in Calls : EndTool(c), UNCHANGED setting
    PROVE  TypeOK'
<1>. TypeOK /\ PendingInv /\ BatchInv
  BY DEF BaseInv
<1>. USE TypeParts
<1>. setting' \in Settings
  BY DEF TypeOK
<1>1. CASE EmitPrompt
  <2>1. TextTypes' /\ PollTypesOK'
    BY <1>1, PendingHead, AppendTypes DEF EmitPrompt, TextTypes, PollTypesOK, PendingInv
  <2>. QED
    BY <1>1, <2>1, TypePartsNext DEF EmitPrompt, QueueTypes, BatchTypes, queueVars, batchVars, Places
<1>2. CASE FirstPoll
  <2>1. QueueTypes' /\ PollTypesOK'
    BY <1>2, PollTypes DEF FirstPoll, TakeSteering, QueueTypes, PollTypesOK
  <2>. QED
    BY <1>2, <2>1, TypePartsNext DEF FirstPoll, TextTypes, BatchTypes, textVars, batchVars, Places
<1>3. CASE PrepareNextTurn
  BY <1>3, TypePartsNext DEF PrepareNextTurn, Places, TextTypes, QueueTypes, PollTypesOK, BatchTypes, textVars, queueVars, pollVars, batchVars
<1>4. CASE Repoll
  <2>1. prepared \in Seq(Users \cup {Note}) /\ pending \in Seq(Users \cup {Note})
    <3>1. <<>> \in Seq(Users \cup {Note}) /\ <<Note>> \in Seq(Users \cup {Note})
      BY EmptySeq
    <3>. QED
      BY <3>1 DEF TypeOK
  <2>2. QueueTypes'
    BY <1>4, PollTypes DEF Repoll, PollAgain, QueueTypes
  <2>3. pending' \in Seq(Users \cup {Note})
    BY <1>4, <2>1, PollTypes, ConcatProperties DEF Repoll, PollAgain
  <2>4. PollTypesOK'
    BY <1>4, <2>3 DEF Repoll, PollTypesOK
  <2>. QED
    BY <1>4, <2>2, <2>4, TypePartsNext DEF Repoll, TextTypes, BatchTypes, textVars, batchVars, Places
<1>5. CASE Deliver
  <2>1. TextTypes' /\ PollTypesOK'
    BY <1>5, PendingHead, AppendTypes DEF Deliver, TextTypes, PollTypesOK
  <2>. QED
    BY <1>5, <2>1, TypePartsNext DEF Deliver, QueueTypes, BatchTypes, queueVars, batchVars, Places
<1>6. CASE Request
  BY <1>6, TypePartsNext DEF Request, Places, TextTypes, QueueTypes, PollTypesOK, BatchTypes, textVars, queueVars, pollVars, batchVars
<1>7. CASE Respond
  <2>. PICK stop \in {"ok", "length", "error"} \cup (IF aborted THEN {"aborted"} ELSE {}),
            n \in 0..(MaxCalls - issued) :
        LET message == Assistant(stop, [k \in 1..n |-> issued + k]) IN
        /\ requests = MaxRequests => stop \in {"error", "aborted"} /\ n = 0
        /\ messages' = Append(messages, message)
        /\ context' = Append(context, message)
        /\ reply' = message /\ issued' = issued + n
        /\ pc' = IF n = 0 \/ stop \in {"error", "aborted"} THEN "finish" ELSE "preflight"
        /\ mode' \in IF stop = "length" THEN {"truncated"} ELSE Executions
    BY <1>7 DEF Respond
  <2>. DEFINE message == Assistant(stop, [k \in 1..n |-> issued + k])
  <2>1. MaxCalls \in Nat /\ issued \in 0..MaxCalls /\ n \in Nat /\ issued + n <= MaxCalls
    BY AgentAssumption DEF TypeOK
  <2>2. [k \in 1..n |-> issued + k] \in Seq(Calls)
    BY <2>1 DEF Calls
  <2>3. message \in Replies
    BY <2>2 DEF Assistant, Replies, Stops
  <2>4. message \in Entries
    BY <2>3, EntryTypes
  <2>. HIDE DEF message
  <2>5. messages' = Append(messages, message) /\ context' = Append(context, message) /\ reply' = message
    BY DEF message
  <2>6. TextTypes'
    BY <1>7, <2>4, <2>5, AppendTypes DEF Respond, TextTypes
  <2>7. mode' \in {"parallel", "sequential", "truncated"} /\ issued' \in 0..MaxCalls
    BY <2>1, SettingTypes
  <2>8. BatchTypes'
    BY <1>7, <2>3, <2>5, <2>7 DEF Respond, BatchTypes
  <2>. QED
    BY <1>7, <2>6, <2>8, TypePartsNext DEF Respond, QueueTypes, PollTypesOK, queueVars, pollVars, Places
<1>8. CASE StartCall
  BY <1>8, CurrentIsCall, TypePartsNext DEF StartCall, InBatch, TextTypes, QueueTypes, PollTypesOK, BatchTypes, textVars, queueVars, pollVars, batchVars
<1>9. CASE RefuseCall
  BY <1>9, CurrentIsCall, TypePartsNext DEF RefuseCall, InBatch, TextTypes, QueueTypes, PollTypesOK, BatchTypes, textVars, queueVars, pollVars, batchVars
<1>10. CASE PrepareCall
  BY <1>10, CurrentIsCall, TypePartsNext DEF PrepareCall, InBatch, TextTypes, QueueTypes, PollTypesOK, BatchTypes, textVars, queueVars, pollVars, batchVars
<1>11. CASE NextCall
  <2>1. InBatch /\ at \in DOMAIN reply.calls
    BY <1>11 DEF NextCall, InBatch, BatchInv
  <2>2. TextTypes'
    BY <1>11, <2>1, CurrentIsCall, AppendTypes, BatchContext DEF NextCall, TextTypes
  <2>3. BatchTypes'
    <3>1. more' \in BOOLEAN
      BY <1>11 DEF NextCall, BatchTypes
    <3>2. at' \in Nat /\ shown' \in Nat
      BY <1>11 DEF NextCall, BatchTypes
    <3>. QED
      BY <1>11, <3>1, <3>2 DEF NextCall, BatchTypes
  <2>. QED
    BY <1>11, <2>2, <2>3, TypePartsNext DEF NextCall, QueueTypes, PollTypesOK, queueVars, pollVars, Places
<1>12. CASE Launch
  <2>1. phase' \in [Calls -> {"none", "started", "ready", "executing", "done"}]
    BY <1>12 DEF Launch, TypeOK
  <2>. QED
    BY <1>12, <2>1, TypePartsNext DEF Launch, Places, TextTypes, QueueTypes, PollTypesOK, BatchTypes, textVars, queueVars, pollVars, batchVars
<1>13. CASE EmitResult
  <2>1. InBatch /\ at \in DOMAIN reply.calls /\ shown + 1 \in DOMAIN reply.calls /\ reply.calls \in Seq(Calls)
    BY <1>13 DEF EmitResult, InBatch, BatchInv, TypeOK, Replies
  <2>2. Result(Finalized(shown + 1)) \in Entries
    BY <2>1, EntryTypes DEF Finalized
  <2>3. TextTypes'
    BY <1>13, <2>1, <2>2, AppendTypes, BatchContext DEF EmitResult, TextTypes
  <2>4. BatchTypes'
    <3>1. more' \in BOOLEAN
      BY <1>13 DEF EmitResult, BatchTypes
    <3>2. shown' \in Nat
      BY <1>13 DEF EmitResult, BatchTypes
    <3>. QED
      BY <1>13, <3>1, <3>2 DEF EmitResult, BatchTypes
  <2>. QED
    BY <1>13, <2>3, <2>4, TypePartsNext DEF EmitResult, QueueTypes, PollTypesOK, queueVars, pollVars, Places
<1>14. CASE FinishTurn
  BY <1>14, TypePartsNext DEF FinishTurn, Places, TextTypes, QueueTypes, PollTypesOK, BatchTypes, textVars, queueVars, pollVars, batchVars
<1>15. CASE PollSteering
  <2>1. QueueTypes' /\ PollTypesOK'
    BY <1>15, PollTypes DEF PollSteering, TakeSteering, QueueTypes, PollTypesOK
  <2>. QED
    BY <1>15, <2>1, TypePartsNext DEF PollSteering, TextTypes, BatchTypes, textVars, batchVars, Places
<1>16. CASE PollFollowUps
  <2>1. QueueTypes' /\ PollTypesOK'
    BY <1>16, PollTypes DEF PollFollowUps, QueueTypes, PollTypesOK
  <2>. QED
    BY <1>16, <2>1, TypePartsNext DEF PollFollowUps, TextTypes, BatchTypes, textVars, batchVars, Places
<1>17. CASE HandleRunFailure
  <2>1. TextTypes'
    BY <1>17, EntryTypes, AppendTypes DEF HandleRunFailure, TextTypes
  <2>. QED
    BY <1>17, <2>1, TypePartsNext DEF HandleRunFailure, QueueTypes, PollTypesOK, BatchTypes, queueVars, pollVars, batchVars, Places
<1>18. CASE FinishRun
  BY <1>18, TypePartsNext DEF FinishRun, Places, TextTypes, QueueTypes, PollTypesOK, BatchTypes, textVars, queueVars, pollVars, batchVars
<1>19. CASE Fail
  BY <1>19, EmptySeq, TypePartsNext DEF Fail, Places, TextTypes, QueueTypes, PollTypesOK, BatchTypes, textVars, queueVars, pollVars, batchVars
<1>20. ASSUME NEW c \in Calls, EndTool(c) PROVE TypeOK'
  BY <1>20, TypePartsNext DEF EndTool, Places, TextTypes, QueueTypes, PollTypesOK, BatchTypes, textVars, queueVars, pollVars, batchVars
<1>. QED
  BY <1>1, <1>2, <1>3, <1>4, <1>5, <1>6, <1>7, <1>8, <1>9, <1>10, <1>11, <1>12, <1>13, <1>14,
     <1>15, <1>16, <1>17, <1>18, <1>19, <1>20 DEF Loop

------------------------------------------------------------------------------
(* Where the loop holds messages, and the two transcripts *)

\* Every step keeps what the loop has taken until it has delivered it.
LEMMA PendingStep ==
    ASSUME BaseInv, Next
    PROVE  PendingInv'
<1>. TypeOK /\ PendingInv /\ BatchInv
  BY DEF BaseInv
<1>. pending \in Seq(Users \cup {Note})
  BY DEF TypeOK
<1>1. CASE Callers
  <2>1. CASE Prompt \/ Continue
    <3>1. CASE Prompt
      BY <3>1 DEF Prompt, Begin, PendingInv
    <3>2. CASE Continue
      <4>1. steering # <<>> => Peek(steering, SteeringMode) # <<>>
        BY QueueSplits DEF TypeOK
      <4>2. followUps # <<>> => Peek(followUps, FollowUpMode) # <<>>
        BY QueueSplits DEF TypeOK
      <4>. QED
        BY <3>2, <4>1, <4>2 DEF Continue, Begin, PendingInv
    <3>. QED
      BY <2>1, <3>1, <3>2
  <2>2. CASE Steer \/ FollowUp \/ Clear \/ Reset \/ Abort
    BY <2>2 DEF Steer, FollowUp, Clear, Reset, Abort, PendingInv, pollVars
  <2>. QED
    BY <1>1, <2>1, <2>2 DEF Callers
<1>2. CASE EmitPrompt
  <2>1. (Len(pending) = 1) <=> (Tail(pending) = <<>>)
    BY <1>2, EmitMoves DEF EmitPrompt, PendingInv
  <2>. QED
    BY <1>2, <2>1 DEF EmitPrompt, PendingInv
<1>3. CASE FirstPoll \/ PrepareNextTurn \/ Repoll \/ Deliver
  BY <1>3 DEF FirstPoll, PrepareNextTurn, Repoll, Deliver, PendingInv
<1>4. CASE Request \/ Respond \/ StartCall \/ RefuseCall \/ PrepareCall
  BY <1>4 DEF Request, Respond, StartCall, RefuseCall, PrepareCall, PendingInv, pollVars
<1>5. CASE NextCall \/ Launch \/ EmitResult \/ FinishTurn
  BY <1>5 DEF NextCall, Launch, EmitResult, FinishTurn, PendingInv, pollVars
<1>6. CASE PollSteering
  BY <1>6 DEF PollSteering, PendingInv
<1>7. CASE PollFollowUps
  BY <1>7 DEF PollFollowUps, Continues, PendingInv
<1>8. CASE Fail \/ HandleRunFailure \/ FinishRun
  BY <1>8 DEF Fail, HandleRunFailure, FinishRun, PendingInv, pollVars
<1>9. ASSUME NEW c \in Calls, EndTool(c) PROVE PendingInv'
  BY <1>9 DEF EndTool, Awaited, PendingInv, pollVars
<1>. QED
  BY <1>1, <1>2, <1>3, <1>4, <1>5, <1>6, <1>7, <1>8, <1>9 DEF Next, Loop

\* A batch stays as it is unless the loop moves it.
LEMMA BatchStays ==
    ASSUME BatchInv, pc' = pc \/ pc' \notin {"preflight", "launch", "running"},
           UNCHANGED <<messages, context, reply, mode, at, shown>>, aborted' = aborted \/ aborted'
    PROVE  BatchInv'
BY DEF BatchInv, InBatch

\* Every step of a batch, sequential, parallel or truncated, keeps the transcript at the
\* context and the results shown.
LEMMA BatchStep ==
    ASSUME BaseInv, Next, UNCHANGED setting
    PROVE  BatchInv'
<1>. TypeOK /\ PendingInv /\ BatchInv /\ ContextInv
  BY DEF BaseInv
<1>. reply.calls \in Seq(Calls) /\ context \in Seq(Entries) /\ messages \in Seq(Entries)
     /\ at \in Nat /\ shown \in Nat
  BY DEF TypeOK, Replies
<1>1. CASE Prompt \/ Continue \/ Reset
  BY <1>1 DEF Prompt, Continue, Begin, Reset, BatchInv, InBatch
<1>2. CASE Steer \/ FollowUp \/ Clear \/ Abort
  BY <1>2, BatchStays DEF Steer, FollowUp, Clear, Abort, textVars, batchVars
<1>3. CASE EmitPrompt \/ FirstPoll \/ PrepareNextTurn \/ Repoll \/ Deliver \/ Request
  BY <1>3 DEF EmitPrompt, FirstPoll, PrepareNextTurn, Repoll, Deliver, Request, BatchInv, InBatch
<1>4. CASE Respond
  <2>. SUFFICES ASSUME InBatch' PROVE BatchInv'
    BY DEF BatchInv
  <2>. PICK stop \in {"ok", "length", "error"} \cup (IF aborted THEN {"aborted"} ELSE {}),
            n \in 0..(MaxCalls - issued) :
        LET message == Assistant(stop, [k \in 1..n |-> issued + k]) IN
        /\ messages' = Append(messages, message)
        /\ context' = Append(context, message)
        /\ reply' = message
        /\ pc' = IF n = 0 \/ stop \in {"error", "aborted"} THEN "finish" ELSE "preflight"
    BY <1>4 DEF Respond
  <2>. DEFINE message == Assistant(stop, [k \in 1..n |-> issued + k])
  <2>1. messages = context
    BY <1>4 DEF Respond, ContextInv
  <2>2. pc' = "preflight" /\ n # 0
    BY DEF InBatch
  <2>3. MaxCalls \in Nat /\ issued \in 0..MaxCalls /\ n \in Nat \ {0}
    BY <2>2, AgentAssumption DEF TypeOK
  <2>4. message.calls = [k \in 1..n |-> issued + k]
    BY DEF Assistant
  <2>5. 1 \in DOMAIN message.calls
    BY <2>3, <2>4
  <2>6. TypeOK'
    BY <1>4, LoopTypes DEF Loop
  <2>7. reply' = message /\ context' = Append(context, message) /\ messages' = context'
    BY <2>1
  <2>8. context'[Len(context')] = reply' /\ context' # <<>>
    <3>1. reply' \in Replies /\ context' \in Seq(Entries)
      BY <2>6 DEF TypeOK
    <3>2. reply' \in Entries
      BY <3>1, EntryTypes
    <3>. QED
      BY <2>7, <3>2, AppendProperties
  <2>9. SubSeq(reply'.calls, 1, 0) = <<>>
    BY SubSeqEmpty
  <2>10. Results(<<>>) = <<>>
    BY DEF Results
  <2>11. messages' = context' \o Results(SubSeq(reply'.calls, 1, 0))
    <3>1. context' \in Seq(Entries)
      BY <2>6 DEF TypeOK
    <3>. QED
      BY <2>7, <2>9, <2>10, <3>1, ConcatEmptySeq
  <2>. QED
    <3>1. at' = 1 /\ shown' = 0
      BY <1>4 DEF Respond
    <3>2. at' \in DOMAIN reply'.calls
      BY <3>1, <2>5, <2>7
    <3>. HIDE DEF message
    <3>3. shown' \in 0..at' /\ shown' = (IF mode' = "parallel" THEN 0 ELSE at' - 1)
      BY <3>1
    <3>4. messages' = context' \o Results(SubSeq(reply'.calls, 1, shown'))
      BY <2>11, <3>1
    <3>. QED
      BY <2>2, <2>8, <3>2, <3>3, <3>4 DEF BatchInv
<1>5. CASE StartCall \/ RefuseCall \/ PrepareCall
  BY <1>5, BatchStays DEF StartCall, RefuseCall, PrepareCall, textVars
<1>6. CASE NextCall
  <2>1. CASE ~GoesOn /\ mode # "parallel"
    BY <1>6, <2>1 DEF NextCall, BatchInv, InBatch
  <2>2. CASE ~GoesOn /\ mode = "parallel"
    <3>1. pc' = "launch" /\ pc = "preflight" /\ UNCHANGED <<messages, context, reply, mode, at, shown, aborted>>
      BY <1>6, <2>2 DEF NextCall
    <3>2. ~aborted => at = Len(reply.calls)
      BY <2>2, <3>1 DEF GoesOn, BatchInv, InBatch
    <3>. QED
      BY <2>2, <3>1, <3>2 DEF BatchInv, InBatch
  <2>3. CASE GoesOn /\ mode = "parallel"
    <3>1. pc' = pc /\ pc = "preflight" /\ at' = at + 1 /\ UNCHANGED <<messages, context, reply, mode, shown, aborted>>
      BY <1>6, <2>3 DEF NextCall
    <3>2. at + 1 \in DOMAIN reply.calls
      BY <2>3 DEF GoesOn
    <3>. QED
      BY <2>3, <3>1, <3>2 DEF BatchInv, InBatch
  <2>4. CASE GoesOn /\ mode # "parallel"
    <3>1. pc' = pc /\ pc = "preflight" /\ at' = at + 1 /\ UNCHANGED <<context, reply, mode, aborted>>
          /\ messages' = Append(messages, Result(Current)) /\ shown' = at
      BY <1>6, <2>4 DEF NextCall
    <3>2. at + 1 \in DOMAIN reply.calls
      BY <2>4 DEF GoesOn
    <3>3. shown = at - 1 /\ messages = context \o Results(SubSeq(reply.calls, 1, at - 1)) /\ at \in DOMAIN reply.calls
      BY <2>4, <3>1 DEF BatchInv, InBatch
    <3>4. messages' = context \o Results(SubSeq(reply.calls, 1, at))
      BY <3>1, <3>3, OneResultMore DEF Current
    <3>5. at' - 1 = at /\ shown' = at' - 1 /\ shown' \in 0..at'
      BY <3>1
    <3>6. messages' = context' \o Results(SubSeq(reply'.calls, 1, shown'))
      BY <3>1, <3>4
    <3>. QED
      BY <2>4, <3>1, <3>2, <3>5, <3>6 DEF BatchInv, InBatch
  <2>. QED
    BY <2>1, <2>2, <2>3, <2>4
<1>7. CASE Launch
  BY <1>7 DEF Launch, BatchInv, InBatch, textVars
<1>8. CASE EmitResult
  <2>1. CASE shown + 1 = at
    BY <1>8, <2>1 DEF EmitResult, BatchInv, InBatch
  <2>2. CASE shown + 1 # at
    <3>1. pc' = pc /\ pc = "running" /\ UNCHANGED <<context, reply, mode, at, aborted>>
          /\ messages' = Append(messages, Result(reply.calls[shown + 1])) /\ shown' = shown + 1
      BY <1>8, <2>2 DEF EmitResult, Finalized
    <3>2. shown < at /\ messages = context \o Results(SubSeq(reply.calls, 1, shown)) /\ at \in DOMAIN reply.calls
      BY <3>1 DEF BatchInv, InBatch
    <3>3. shown + 1 \in DOMAIN reply.calls /\ (shown + 1) - 1 = shown
      BY <3>2
    <3>4. messages' = context \o Results(SubSeq(reply.calls, 1, shown + 1))
      <4>. DEFINE n == shown + 1
      <4>1. n \in DOMAIN reply.calls /\ n - 1 = shown
        BY <3>3
      <4>2. Append(context \o Results(SubSeq(reply.calls, 1, n - 1)), Result(reply.calls[n]))
              = context \o Results(SubSeq(reply.calls, 1, n))
        BY <4>1, OneResultMore
      <4>. QED
        BY <4>1, <4>2, <3>1, <3>2
    <3>5. shown' \in 0..at' /\ shown' < at'
      BY <2>2, <3>1, <3>2
    <3>6. messages' = context' \o Results(SubSeq(reply'.calls, 1, shown'))
      BY <3>1, <3>4
    <3>. QED
      BY <3>1, <3>5, <3>6 DEF BatchInv, InBatch
  <2>. QED
    BY <2>1, <2>2
<1>9. CASE FinishTurn \/ PollSteering \/ PollFollowUps \/ Fail \/ HandleRunFailure \/ FinishRun
  BY <1>9 DEF FinishTurn, PollSteering, PollFollowUps, Fail, HandleRunFailure, FinishRun, BatchInv, InBatch
<1>10. ASSUME NEW c \in Calls, EndTool(c) PROVE BatchInv'
  BY <1>10, BatchStays DEF EndTool, textVars
<1>. QED
  BY <1>1, <1>2, <1>3, <1>4, <1>5, <1>6, <1>7, <1>8, <1>9, <1>10 DEF Next, Callers, Loop

\* Every other step of a run keeps the two transcripts the same.
LEMMA ContextStep ==
    ASSUME BaseInv, Next
    PROVE  ContextInv'
<1>. TypeOK /\ PendingInv /\ BatchInv /\ ContextInv
  BY DEF BaseInv
<1>. reply.calls \in Seq(Calls) /\ context \in Seq(Entries) /\ messages \in Seq(Entries)
     /\ at \in Nat /\ shown \in Nat /\ pending \in Seq(Users \cup {Note}) /\ pending \in Seq(Entries)
  BY EntryTypes, SeqMonotonic DEF TypeOK, Replies
<1>1. CASE Prompt
  BY <1>1 DEF Prompt, Begin, ContextInv
<1>2. CASE Continue
  <2>1. messages \o <<>> = messages
    BY ConcatEmptySeq
  <2>. QED
    BY <1>2, <2>1 DEF Continue, Begin, ContextInv
<1>3. CASE Steer \/ FollowUp \/ Clear \/ Abort
  BY <1>3 DEF Steer, FollowUp, Clear, Abort, ContextInv, textVars, pollVars
<1>4. CASE Reset
  BY <1>4 DEF Reset, ContextInv
<1>5. CASE EmitPrompt
  <2>1. pending # <<>>
    BY <1>5 DEF EmitPrompt, PendingInv
  <2>2. messages' \o pending' = messages \o pending /\ (Len(pending) = 1 <=> pending' = <<>>)
        /\ messages' \in Seq(Entries)
    BY <1>5, <2>1, EmitMoves DEF EmitPrompt
  <2>3. messages' \o <<>> = messages'
    BY <2>2, ConcatEmptySeq
  <2>4. context' = messages' \o pending' /\ pc = "prompting" /\ pc' \in {"prompting", "poll"}
        /\ (pc' = "poll" => pending' = <<>>)
    BY <1>5, <2>2 DEF EmitPrompt, ContextInv
  <2>. QED
    BY <2>3, <2>4 DEF ContextInv
<1>6. CASE FirstPoll \/ PrepareNextTurn \/ Repoll \/ Deliver
  BY <1>6 DEF FirstPoll, PrepareNextTurn, Repoll, Deliver, ContextInv, textVars
<1>7. CASE Request \/ Respond
  BY <1>7 DEF Request, Respond, ContextInv, textVars
<1>8. CASE StartCall \/ RefuseCall \/ PrepareCall \/ Launch
  BY <1>8 DEF StartCall, RefuseCall, PrepareCall, Launch, ContextInv
<1>9. CASE NextCall
  <2>1. CASE mode = "parallel" \/ GoesOn
    BY <1>9, <2>1 DEF NextCall, ContextInv
  <2>2. CASE mode # "parallel" /\ ~GoesOn
    <3>1. pc = "preflight" /\ messages' = Append(messages, Result(Current)) /\ context' = ContextWith(at)
          /\ pc' = "finish"
      BY <1>9, <2>2 DEF NextCall
    <3>2. shown = at - 1 /\ messages = context \o Results(SubSeq(reply.calls, 1, at - 1)) /\ at \in DOMAIN reply.calls
      BY <2>2, <3>1 DEF BatchInv, InBatch
    <3>3. messages' = ContextWith(at)
      BY <3>1, <3>2, OneResultMore DEF Current, ContextWith
    <3>. QED
      BY <3>1, <3>3 DEF ContextInv
  <2>. QED
    BY <2>1, <2>2
<1>10. CASE EmitResult
  <2>1. CASE shown + 1 # at
    BY <1>10, <2>1 DEF EmitResult, ContextInv
  <2>2. CASE shown + 1 = at
    <3>1. pc = "running" /\ messages' = Append(messages, Result(reply.calls[at])) /\ context' = ContextWith(at)
          /\ pc' = "finish"
      BY <1>10, <2>2 DEF EmitResult, Finalized
    <3>2. messages = context \o Results(SubSeq(reply.calls, 1, at - 1)) /\ at \in DOMAIN reply.calls
      <4>1. shown = at - 1
        BY <2>2
      <4>. QED
        BY <3>1, <4>1 DEF BatchInv, InBatch
    <3>3. messages' = ContextWith(at)
      BY <3>1, <3>2, OneResultMore DEF ContextWith
    <3>. QED
      BY <3>1, <3>3 DEF ContextInv
  <2>. QED
    BY <2>1, <2>2
<1>11. CASE FinishTurn \/ PollSteering \/ PollFollowUps
  BY <1>11 DEF FinishTurn, PollSteering, PollFollowUps, ContextInv, textVars
<1>12. CASE Fail \/ HandleRunFailure \/ FinishRun
  BY <1>12 DEF Fail, HandleRunFailure, FinishRun, ContextInv
<1>13. ASSUME NEW c \in Calls, EndTool(c) PROVE ContextInv'
  BY <1>13 DEF EndTool, ContextInv, textVars, pollVars
<1>. QED
  BY <1>1, <1>2, <1>3, <1>4, <1>5, <1>6, <1>7, <1>8, <1>9, <1>10, <1>11, <1>12, <1>13 DEF Next, Callers, Loop

\* The base invariant is inductive.
LEMMA BaseStep ==
    ASSUME BaseInv, [Next /\ UNCHANGED setting]_<<vars, setting>>
    PROVE  BaseInv'
<1>1. CASE Next /\ UNCHANGED setting
  BY <1>1, CallerTypes, LoopTypes, PendingStep, BatchStep, ContextStep DEF BaseInv, Next
<1>2. CASE UNCHANGED <<vars, setting>>
  <2>1. TypeOK' /\ PendingInv' /\ ContextInv'
    BY <1>2 DEF BaseInv, TypeOK, PendingInv, ContextInv, vars
  <2>2. BatchInv'
    BY <1>2 DEF BaseInv, BatchInv, InBatch, vars
  <2>. QED
    BY <2>1, <2>2 DEF BaseInv
<1>. QED
  BY <1>1, <1>2

\* A new Agent is idle, with nothing said, taken or to answer.
LEMMA BaseInit == Init => BaseInv
<1>. SUFFICES ASSUME Init PROVE BaseInv
  OBVIOUS
<1>1. TypeOK
  <2>1. \A T : <<>> \in Seq(T)
    BY EmptySeq
  <2>2. MaxCalls \in Nat /\ Assistant("ok", <<>>) \in Replies
    BY <2>1, AgentAssumption DEF Assistant, Replies, Stops
  <2>3. TextTypes /\ QueueTypes /\ PollTypesOK
    BY <2>1 DEF Init, TextTypes, QueueTypes, PollTypesOK
  <2>4. BatchTypes
    <3>1. phase \in [Calls -> {"none", "started", "ready", "executing", "done"}]
      BY DEF Init
    <3>2. reply \in Replies
      BY <2>2 DEF Init
    <3>3. at \in Nat /\ shown \in Nat /\ requests \in Nat /\ issued \in 0..MaxCalls
      BY <2>2 DEF Init
    <3>4. more \in BOOLEAN /\ mode \in {"parallel", "sequential", "truncated"}
      BY DEF Init
    <3>5. terminating \in SUBSET Calls /\ pendingToolCalls \in SUBSET Calls
      BY DEF Init
    <3>. QED
      BY <3>1, <3>2, <3>3, <3>4, <3>5 DEF BatchTypes
  <2>. QED
    BY <2>3, <2>4, TypeParts DEF Init, Places
<1>. QED
  BY <1>1 DEF Init, BaseInv, PendingInv, BatchInv, ContextInv, InBatch

\* THEOREM.  Every variable of the Agent has its type; the loop holds messages only
\* between a poll and their delivery; during a batch the transcript is the loop's
\* context and the results shown so far, and elsewhere in a run it is the context.
THEOREM BaseInductive == Spec => []BaseInv
BY BaseInit, BaseStep, PTL DEF Spec

\* THEOREM.  The loop and the Agent append to two transcripts at different moments;
\* each request is made with exactly what the Agent shows, where no hook replaces the
\* loop's context (AgentLoop has no such hook).
THEOREM TranscriptsAgree == Spec => []ContextIsTranscript
<1>1. BaseInv => ContextIsTranscript
  BY DEF BaseInv, ContextInv, ContextIsTranscript
<1>. QED
  BY <1>1, BaseInductive, PTL

------------------------------------------------------------------------------
(* Calls and their results *)

\* Entries stay where they are.
LEMMA AnswersStay ==
    ASSUME messages \in Seq(Entries), NEW x \in Entries, messages' = Append(messages, x)
    PROVE  /\ DOMAIN messages \subseteq DOMAIN messages' /\ DOMAIN messages = 1..Len(messages)
           /\ DOMAIN messages' = 1..(Len(messages) + 1) /\ messages'[Len(messages) + 1] = x
           /\ \A k \in DOMAIN messages : messages'[k] = messages[k]
           /\ \A j, k \in DOMAIN messages : Answers(j, k) => Answers(j, k)'
           /\ \A k \in DOMAIN messages : Answered(k) => Answered(k)'
<1>1. /\ DOMAIN messages = 1..Len(messages) /\ DOMAIN messages' = 1..(Len(messages) + 1)
      /\ Len(messages) \in Nat /\ messages'[Len(messages) + 1] = x
      /\ \A k \in DOMAIN messages : messages'[k] = messages[k]
  BY AppendProperties
<1>2. ASSUME NEW j \in DOMAIN messages, NEW k \in DOMAIN messages, Answers(j, k)
      PROVE  Answers(j, k)'
  <2>1. \A i \in 1..(j - k) : k + i \in DOMAIN messages
    BY <1>1, <1>2 DEF Answers
  <2>. QED
    BY <1>1, <1>2, <2>1 DEF Answers
<1>3. ASSUME NEW k \in DOMAIN messages, Answered(k)
      PROVE  Answered(k)'
  BY <1>1, <1>3 DEF Answered
<1>. QED
  BY <1>1, <1>2, <1>3

\* The results shown of a batch answer its reply.
LEMMA BatchAnswers ==
    ASSUME BaseInv, InBatch, NEW n \in DOMAIN reply.calls,
           messages' = context \o Results(SubSeq(reply.calls, 1, n))
    PROVE  /\ \A j, k \in Nat : j = Len(messages') /\ k = Len(context) =>
                /\ Answers(j, k)'
                /\ n = Len(reply.calls) => Answered(k)'
           /\ Len(context) \in DOMAIN messages' /\ Len(messages') = Len(context) + n
           /\ messages'[Len(context)] = reply
           /\ \A k \in DOMAIN messages' : k > Len(context) => messages'[k].role = "toolResult"
<1>. SUFFICES ASSUME NEW L \in Nat, L = Len(context)
             PROVE  /\ \A j \in Nat : j = Len(messages') => Answers(j, L)'
                    /\ n = Len(reply.calls) => Answered(L)'
                    /\ L \in DOMAIN messages' /\ Len(messages') = L + n
                    /\ messages'[L] = reply
                    /\ \A k \in DOMAIN messages' : k > L => messages'[k].role = "toolResult"
  BY DEF BaseInv, TypeOK
<1>1. /\ reply.calls \in Seq(Calls) /\ reply.role = "assistant" /\ context \in Seq(Entries)
      /\ L \in Nat \ {0} /\ context[L] = reply /\ n \in 1..Len(reply.calls) /\ n \in Nat
  BY EmptySeq DEF BaseInv, TypeOK, Replies, BatchInv
<1>. DEFINE R == Results(SubSeq(reply.calls, 1, n))
<1>2. R \in Seq(Entries) /\ Len(R) = n /\ \A i \in 1..n : R[i] = Result(reply.calls[i])
  BY <1>1, OneResultMore
<1>. HIDE DEF R
<1>3. messages' = context \o R
  BY DEF R
<1>4. /\ messages' \in Seq(Entries) /\ Len(messages') = L + n
      /\ \A i \in 1..(L + n) : messages'[i] = IF i <= L THEN context[i] ELSE R[i - L]
  <2>1. /\ context \o R \in Seq(Entries) /\ Len(context \o R) = Len(context) + Len(R)
        /\ \A i \in 1..(Len(context) + Len(R)) :
             (context \o R)[i] = IF i <= Len(context) THEN context[i] ELSE R[i - Len(context)]
    BY <1>1, <1>2, ConcatProperties
  <2>. QED
    BY <1>2, <1>3, <2>1
<1>5. DOMAIN messages' = 1..(L + n)
  BY <1>4, LenProperties
<1>6. L \in DOMAIN messages' /\ messages'[L] = reply
  BY <1>1, <1>4, <1>5
<1>7. \A i \in 1..n : L + i \in DOMAIN messages' /\ messages'[L + i] = Result(reply.calls[i])
  <2>. TAKE i \in 1..n
  <2>1. L + i \in 1..(L + n) /\ ~(L + i <= L) /\ (L + i) - L = i
    BY <1>1
  <2>. QED
    BY <1>2, <1>4, <1>5, <2>1
<1>8. DOMAIN reply.calls = 1..Len(reply.calls) /\ n \in DOMAIN reply.calls
  BY <1>1
<1>9. ASSUME NEW j \in Nat, j = L + n PROVE Answers(j, L)'
  <2>1. j - L = n /\ L < j
    BY <1>1, <1>9
  <2>2. \A i \in 1..n : messages'[L + i] = Result(messages'[L].calls[i])
    BY <1>6, <1>7
  <2>. QED
    BY <1>1, <1>6, <1>8, <2>1, <2>2 DEF Answers
<1>10. \A k \in DOMAIN messages' : k > L => messages'[k].role = "toolResult"
  <2>. TAKE k \in DOMAIN messages'
  <2>. HAVE k > L
  <2>1. k - L \in 1..n /\ L + (k - L) = k
    BY <1>1, <1>5
  <2>. QED
    <3>1. messages'[L + (k - L)] = Result(reply.calls[k - L])
      BY <1>7, <2>1
    <3>. QED
      BY <2>1, <3>1 DEF Result
<1>11. n = Len(reply.calls) => Answered(L)'
  BY <1>6, <1>7, <1>8 DEF Answered
<1>. QED
  BY <1>4, <1>6, <1>9, <1>10, <1>11

\* A result is appended.
LEMMA ResultSteps ==
    ASSUME BaseInv, (NextCall /\ mode # "parallel") \/ EmitResult
    PROVE  /\ InBatch /\ UNCHANGED <<reply, runStart, aborted>>
           /\ \E n \in DOMAIN reply.calls :
                /\ messages' = context \o Results(SubSeq(reply.calls, 1, n))
                /\ messages' = Append(messages, Result(reply.calls[n]))
                /\ Result(reply.calls[n]) \in Entries
                /\ pc' # pc /\ ~aborted => n = Len(reply.calls)
           /\ (pc' = pc /\ context' = context) \/ pc' = "finish"
<1>. /\ reply.calls \in Seq(Calls) /\ context \in Seq(Entries) /\ at \in Nat /\ shown \in Nat
  BY DEF BaseInv, TypeOK, Replies
<1>1. CASE NextCall /\ mode # "parallel"
  <2>1. mode # "parallel" /\ pc = "preflight" /\ messages' = Append(messages, Result(Current))
    BY <1>1 DEF NextCall
  <2>2. InBatch /\ at \in DOMAIN reply.calls /\ messages = context \o Results(SubSeq(reply.calls, 1, at - 1))
    BY <2>1 DEF BaseInv, BatchInv, InBatch
  <2>3. messages' = context \o Results(SubSeq(reply.calls, 1, at))
    BY <2>1, <2>2, OneResultMore DEF Current
  <2>4. pc' # pc /\ ~aborted => at = Len(reply.calls)
    BY <1>1, <2>1, <2>2 DEF NextCall, GoesOn
  <2>5. (pc' = pc /\ context' = context) \/ pc' = "finish"
    BY <1>1, <2>1 DEF NextCall
  <2>6. Result(reply.calls[at]) \in Entries
    BY <2>2, EntryTypes
  <2>7. messages' = Append(messages, Result(reply.calls[at])) /\ UNCHANGED <<reply, runStart, aborted>>
    BY <1>1, <2>1 DEF NextCall, Current
  <2>. QED
    BY <2>2, <2>3, <2>4, <2>5, <2>6, <2>7
<1>2. CASE EmitResult
  <2>. DEFINE n == shown + 1
  <2>1. pc = "running" /\ messages' = Append(messages, Result(reply.calls[n]))
    BY <1>2 DEF EmitResult, Finalized
  <2>2. InBatch /\ at \in DOMAIN reply.calls /\ shown < at /\ messages = context \o Results(SubSeq(reply.calls, 1, shown))
        /\ (~aborted => at = Len(reply.calls))
    BY <2>1 DEF BaseInv, BatchInv, InBatch
  <2>3. n \in DOMAIN reply.calls /\ n - 1 = shown
    BY <2>2
  <2>4. messages' = context \o Results(SubSeq(reply.calls, 1, n))
    <3>1. Append(context \o Results(SubSeq(reply.calls, 1, n - 1)), Result(reply.calls[n]))
            = context \o Results(SubSeq(reply.calls, 1, n))
      BY <2>3, OneResultMore
    <3>. QED
      BY <2>1, <2>2, <2>3, <3>1
  <2>5. (pc' = pc /\ context' = context) \/ (pc' = "finish" /\ n = at)
    BY <1>2, <2>1 DEF EmitResult
  <2>6. pc' # pc /\ ~aborted => n = Len(reply.calls)
    BY <2>2, <2>5
  <2>7. Result(reply.calls[n]) \in Entries
    BY <2>3, EntryTypes
  <2>. HIDE DEF n
  <2>. QED
    BY <1>2, <2>1, <2>2, <2>3, <2>4, <2>5, <2>6, <2>7 DEF EmitResult
<1>. QED
  BY <1>1, <1>2

\* A reply is appended.
LEMMA ReplyAppended ==
    ASSUME TypeOK, Respond
    PROVE  \E x \in Replies : messages' = Append(messages, x) /\ x = reply'
<1>1. MaxCalls \in Nat /\ issued \in 0..MaxCalls
  BY AgentAssumption DEF TypeOK
<1>. PICK stop \in Stops, n \in 0..(MaxCalls - issued) :
      /\ messages' = Append(messages, Assistant(stop, [k \in 1..n |-> issued + k]))
      /\ reply' = Assistant(stop, [k \in 1..n |-> issued + k])
  BY DEF Respond, Stops
<1>2. [k \in 1..n |-> issued + k] \in Seq(Calls)
  BY <1>1 DEF Calls
<1>3. Assistant(stop, [k \in 1..n |-> issued + k]) \in Replies
  BY <1>2 DEF Assistant, Replies
<1>. QED
  BY <1>3

\* What a step does to the transcript.
LEMMA TextMoves ==
    ASSUME BaseInv, Next
    PROVE  \/ UNCHANGED messages
           \/ Reset /\ messages' = <<>>
           \/ Respond /\ \E x \in Replies : messages' = Append(messages, x) /\ x = reply'
           \/ (NextCall /\ mode # "parallel") \/ EmitResult
           \/ /\ EmitPrompt \/ Deliver
              /\ \E x \in Users \cup {Note} : messages' = Append(messages, x)
           \/ HandleRunFailure /\ messages' = Append(messages, Failure)
<1>. TypeOK /\ PendingInv
  BY DEF BaseInv
<1>1. CASE Callers
  BY <1>1 DEF Callers, Prompt, Continue, Begin, Steer, FollowUp, Clear, Reset, Abort, textVars
<1>2. CASE EmitPrompt
  BY <1>2, PendingHead DEF EmitPrompt, PendingInv
<1>3. CASE Deliver
  BY <1>3, PendingHead DEF Deliver
<1>4. CASE Respond
  BY <1>4, ReplyAppended
<1>5. CASE HandleRunFailure
  BY <1>5 DEF HandleRunFailure
<1>6. CASE NextCall \/ EmitResult
  BY <1>6 DEF NextCall
<1>7. CASE FirstPoll \/ PrepareNextTurn \/ Repoll \/ Request \/ StartCall \/ RefuseCall \/ PrepareCall \/ Launch
  BY <1>7 DEF FirstPoll, PrepareNextTurn, Repoll, Request, StartCall, RefuseCall, PrepareCall, Launch, textVars
<1>8. CASE FinishTurn \/ PollSteering \/ PollFollowUps \/ FinishRun \/ Fail
  BY <1>8 DEF FinishTurn, PollSteering, PollFollowUps, FinishRun, Fail, textVars
<1>9. ASSUME NEW c \in Calls, EndTool(c) PROVE UNCHANGED messages
  BY <1>9 DEF EndTool, textVars
<1>. QED
  BY <1>1, <1>2, <1>3, <1>4, <1>5, <1>6, <1>7, <1>8, <1>9 DEF Next, Loop

\* A result is appended only behind the call before it, and a transcript only grows or
\* is emptied.
LEMMA PlacedStep ==
    ASSUME BaseInv, Placed, Next
    PROVE  Placed'
<1>. messages \in Seq(Entries)
  BY DEF BaseInv, TypeOK
<1>1. CASE UNCHANGED messages
  BY <1>1 DEF Placed, Answers
<1>2. CASE messages' = <<>>
  BY <1>2 DEF Placed
<1>3. ASSUME NEW x \in Entries, messages' = Append(messages, x), x.role # "toolResult"
      PROVE  Placed'
  <2>1. ASSUME NEW j \in DOMAIN messages', messages'[j].role = "toolResult"
        PROVE  \E k \in DOMAIN messages' : Answers(j, k)'
    <3>1. j \in DOMAIN messages /\ messages[j].role = "toolResult"
      BY <1>3, <2>1, AnswersStay
    <3>2. PICK k \in DOMAIN messages : Answers(j, k)
      BY <3>1 DEF Placed
    <3>. QED
      BY <1>3, <3>1, <3>2, AnswersStay
  <2>. QED
    BY <2>1 DEF Placed
<1>4. CASE (NextCall /\ mode # "parallel") \/ EmitResult
  <2>1. InBatch
    BY <1>4, ResultSteps
  <2>2. PICK n \in DOMAIN reply.calls :
          /\ messages' = context \o Results(SubSeq(reply.calls, 1, n))
          /\ messages' = Append(messages, Result(reply.calls[n]))
          /\ Result(reply.calls[n]) \in Entries
    BY <1>4, ResultSteps
  <2>3. PICK l, e \in Nat : l = Len(messages') /\ e = Len(context)
    <3>1. context \in Seq(Entries) /\ messages' \in Seq(Entries)
      <4>1. context \in Seq(Entries)
        BY DEF BaseInv, TypeOK
      <4>2. messages' = Append(messages, Result(reply.calls[n])) /\ Result(reply.calls[n]) \in Entries
        BY <2>2
      <4>. QED
        BY <4>1, <4>2, AppendProperties
    <3>2. Len(messages') \in Nat /\ Len(context) \in Nat
      BY <3>1
    <3>. QED
      BY <3>2
  <2>5. Answers(l, e)' /\ e \in DOMAIN messages'
    BY <2>1, <2>2, <2>3, BatchAnswers
  <2>4. ASSUME NEW j \in DOMAIN messages', messages'[j].role = "toolResult"
        PROVE  \E k \in DOMAIN messages' : Answers(j, k)'
    <3>1. CASE j \in DOMAIN messages
      <4>1. messages[j].role = "toolResult"
        BY <2>2, <2>4, <3>1, AnswersStay
      <4>2. PICK k \in DOMAIN messages : Answers(j, k)
        BY <3>1, <4>1 DEF Placed
      <4>. QED
        BY <2>2, <3>1, <4>2, AnswersStay
    <3>2. CASE j \notin DOMAIN messages
      <4>1. j = Len(messages) + 1 /\ Len(messages') = Len(messages) + 1
        BY <2>2, <3>2, AnswersStay, AppendProperties
      <4>. QED
        BY <2>3, <2>5, <4>1
    <3>. QED
      BY <3>1, <3>2
  <2>. QED
    BY <2>4 DEF Placed
<1>. QED
  <2>1. \A x \in Replies \cup Users \cup {Note} : x \in Entries /\ x.role # "toolResult"
    BY EntryTypes DEF Replies, Users, Note
  <2>2. Failure \in Replies
    BY EntryTypes
  <2>. QED
    BY <1>1, <1>2, <1>3, <1>4, <2>1, <2>2, TextMoves

\* A batch that is neither aborted nor left early has answered every call when it ends.
LEMMA AnsweredStep ==
    ASSUME BaseInv, AnsweredInv, Next, UNCHANGED setting
    PROVE  AnsweredInv'
<1>. TypeOK /\ PendingInv /\ BatchInv
  BY DEF BaseInv
<1>. messages \in Seq(Entries) /\ DOMAIN messages = 1..Len(messages) /\ Len(messages) \in Nat
     /\ context \in Seq(Entries) /\ runStart \in Nat
  BY DEF TypeOK
<1>. DEFINE Watched == /\ ~aborted /\ pc \notin {"idle", "failing", "settled", "ended"}
                       /\ pc = "finish" => ~HardExit
            Due(k) == /\ k > runStart /\ messages[k].role = "assistant"
                      /\ InBatch => k < Len(context)
<1>. SUFFICES ASSUME Watched', NEW k \in DOMAIN messages', Due(k)'
              PROVE  Answered(k)'
  BY DEF AnsweredInv
<1>1. ASSUME UNCHANGED messages, Watched, Due(k) PROVE Answered(k)'
  BY <1>1 DEF AnsweredInv, Answered
<1>2. ASSUME NEW x \in Entries, messages' = Append(messages, x), k \in DOMAIN messages, Watched, Due(k)
      PROVE  Answered(k)'
  <2>1. Answered(k)
    BY <1>2 DEF AnsweredInv
  <2>. QED
    BY <1>2, <2>1, AnswersStay
<1>3. CASE Prompt \/ Continue
  <2>1. UNCHANGED messages /\ runStart' = Len(messages)
    BY <1>3 DEF Prompt, Continue, Begin
  <2>. QED
    BY <2>1
<1>4. CASE Steer \/ FollowUp \/ Clear \/ Abort
  BY <1>4, <1>1 DEF Steer, FollowUp, Clear, Abort, textVars, batchVars, InBatch, HardExit
<1>5. CASE Reset \/ HandleRunFailure \/ FinishRun \/ Fail
  BY <1>5 DEF Reset, HandleRunFailure, FinishRun, Fail
<1>6. CASE EmitPrompt \/ (Deliver /\ pending # <<>>)
  <2>1. /\ messages' = Append(messages, Head(pending)) /\ UNCHANGED <<runStart, aborted>>
        /\ pc \in {"prompting", "deliver"} /\ pc' \in {"prompting", "poll", "deliver"}
    BY <1>6 DEF EmitPrompt, Deliver
  <2>2. Head(pending) \in Users \cup {Note} /\ Head(pending) \in Entries
    BY <1>6, PendingHead DEF EmitPrompt, PendingInv
  <2>3. Head(pending).role # "assistant"
    BY <2>2 DEF Users, Note
  <2>4. k \in DOMAIN messages /\ messages'[k] = messages[k]
    BY <2>1, <2>2, <2>3, AnswersStay
  <2>. QED
    BY <1>2, <2>1, <2>2, <2>4 DEF InBatch
<1>7. CASE FirstPoll \/ PrepareNextTurn \/ Repoll \/ Request \/ (Deliver /\ pending = <<>>)
  BY <1>7, <1>1 DEF FirstPoll, PrepareNextTurn, Repoll, Request, Deliver, textVars, InBatch
<1>8. CASE Respond
  <2>. PICK stop \in Stops, n \in 0..(MaxCalls - issued) :
        /\ messages' = Append(messages, Assistant(stop, [c \in 1..n |-> issued + c]))
        /\ context' = Append(context, Assistant(stop, [c \in 1..n |-> issued + c]))
        /\ reply' = Assistant(stop, [c \in 1..n |-> issued + c])
        /\ pc' = IF n = 0 \/ stop \in {"error", "aborted"} THEN "finish" ELSE "preflight"
    BY <1>8 DEF Respond, Stops
  <2>1. PICK x \in Replies : x = reply' /\ messages' = Append(messages, x)
    BY <1>8, TypePartsNext, LoopTypes DEF Loop, TypeOK
  <2>2. x \in Entries /\ context' = Append(context, x)
    BY <2>1, EntryTypes
  <2>3. pc = "stream" /\ UNCHANGED <<runStart, aborted>> /\ context = messages
    BY <1>8 DEF Respond, BaseInv, ContextInv
  <2>4. CASE k \in DOMAIN messages
    <3>1. messages'[k] = messages[k]
      BY <2>1, <2>2, <2>4, AnswersStay
    <3>. QED
      BY <1>2, <2>1, <2>2, <2>3, <2>4, <3>1 DEF InBatch
  <2>5. CASE k \notin DOMAIN messages
    <3>1. k = Len(messages) + 1 /\ messages'[k] = x /\ Len(context') = k
      BY <2>1, <2>2, <2>3, <2>5, AnswersStay, AppendProperties
    <3>2. ~InBatch'
      BY <3>1
    <3>3. pc' = "finish" /\ n = 0
      BY <3>2 DEF InBatch, HardExit, Assistant
    <3>4. x.calls = <<>>
      BY <2>1, <3>3 DEF Assistant
    <3>. QED
      BY <3>1, <3>4 DEF Answered
  <2>. QED
    BY <2>4, <2>5
<1>9. CASE StartCall \/ RefuseCall \/ PrepareCall \/ Launch
  BY <1>9, <1>1 DEF StartCall, RefuseCall, PrepareCall, Launch, textVars, InBatch
<1>10. CASE (NextCall /\ mode # "parallel") \/ EmitResult
  <2>1. PICK n \in DOMAIN reply.calls :
          /\ messages' = context \o Results(SubSeq(reply.calls, 1, n))
          /\ messages' = Append(messages, Result(reply.calls[n]))
          /\ Result(reply.calls[n]) \in Entries
          /\ pc' # pc /\ ~aborted => n = Len(reply.calls)
    BY <1>10, ResultSteps
  <2>2. /\ InBatch /\ UNCHANGED <<reply, runStart, aborted>>
        /\ (pc' = pc /\ context' = context) \/ pc' = "finish"
    BY <1>10, ResultSteps
  <2>3. PICK e \in Nat : e = Len(context)
    OBVIOUS
  <2>4. /\ messages'[e] = reply /\ Len(messages') = e + n /\ e \in DOMAIN messages'
        /\ \A j \in DOMAIN messages' : j > e => messages'[j].role = "toolResult"
        /\ n = Len(reply.calls) => Answered(e)'
    <3>1. Len(messages') \in Nat
      BY <2>1, AppendProperties
    <3>. QED
      BY <2>1, <2>2, <2>3, <3>1, BatchAnswers
  <2>8. /\ DOMAIN messages' = 1..(Len(messages) + 1)
        /\ \A j \in DOMAIN messages : messages'[j] = messages[j]
    <3>1. messages' = Append(messages, Result(reply.calls[n])) /\ Result(reply.calls[n]) \in Entries
      BY <2>1
    <3>. QED
      BY <3>1, AnswersStay
  <2>9. Len(messages) + 1 = e + n /\ n \in Nat \ {0}
    <3>1. reply.calls \in Seq(Calls) /\ n \in 1..Len(reply.calls)
      BY DEF TypeOK, Replies
    <3>2. messages' = Append(messages, Result(reply.calls[n])) /\ Result(reply.calls[n]) \in Entries
      BY <2>1
    <3>3. Len(messages') = Len(messages) + 1
      BY <3>2, AppendProperties
    <3>. QED
      BY <2>4, <3>1, <3>3
  <2>5. k <= e
    <3>1. k > e => FALSE
      BY <2>4
    <3>2. k \in Nat
      BY <2>8
    <3>. QED
      BY <2>3, <3>1, <3>2
  <2>6. CASE k = e
    <3>1. pc' = "finish"
      BY <2>2, <2>3, <2>6 DEF InBatch
    <3>2. n = Len(reply.calls)
      BY <2>1, <2>2, <3>1 DEF InBatch
    <3>. QED
      BY <2>4, <2>6, <3>2
  <2>7. CASE k < e
    <3>1. k \in DOMAIN messages /\ messages'[k] = messages[k]
      <4>1. k \in 1..Len(messages)
        BY <2>7, <2>8, <2>9
      <4>. QED
        BY <2>8, <4>1
    <3>. QED
      BY <1>2, <2>1, <2>2, <2>3, <2>7, <3>1 DEF InBatch
  <2>. QED
    <3>1. k \in Nat
      BY <2>8
    <3>. QED
      BY <2>3, <2>5, <2>6, <2>7, <3>1
<1>11. CASE NextCall /\ mode = "parallel"
  BY <1>11, <1>1 DEF NextCall, InBatch
<1>12. CASE FinishTurn \/ PollSteering \/ PollFollowUps
  BY <1>12, <1>1 DEF FinishTurn, PollSteering, PollFollowUps, textVars, batchVars, InBatch, HardExit
<1>13. ASSUME NEW c \in Calls, EndTool(c) PROVE Answered(k)'
  BY <1>13, <1>1 DEF EndTool, textVars, InBatch, HardExit
<1>. QED
  BY <1>3, <1>4, <1>5, <1>6, <1>7, <1>8, <1>9, <1>10, <1>11, <1>12, <1>13 DEF Next, Callers, Loop

\* Nothing is said yet, so nothing is to answer.
LEMMA ResultsInit == Init => ResultsInv
BY BaseInit DEF Init, ResultsInv, Placed, AnsweredInv

\* Every step keeps the results by their calls.
LEMMA ResultsStep ==
    ASSUME ResultsInv, [Next /\ UNCHANGED setting]_<<vars, setting>>
    PROVE  ResultsInv'
<1>1. CASE Next /\ UNCHANGED setting
  BY <1>1, BaseStep, PlacedStep, AnsweredStep DEF ResultsInv
<1>2. CASE UNCHANGED <<vars, setting>>
  <2>1. Placed'
    BY <1>2 DEF ResultsInv, Placed, Answers, vars
  <2>2. AnsweredInv'
    BY <1>2 DEF ResultsInv, AnsweredInv, Answered, InBatch, HardExit, vars
  <2>. QED
    BY <1>2, <2>1, <2>2, BaseStep DEF ResultsInv
<1>. QED
  BY <1>1, <1>2

\* THEOREM.  Result messages stand behind the assistant message that asked for them,
\* in its order; no request of a run that was not aborted leaves a call unanswered.
THEOREM ResultsStandByCalls == Spec => []ResultsFollowCalls
<1>1. ResultsInv => ResultsFollowCalls
  BY DEF ResultsInv, Placed, AnsweredInv, Answered, ResultsFollowCalls, InBatch
<1>. QED
  BY <1>1, ResultsInit, ResultsStep, PTL DEF Spec

------------------------------------------------------------------------------
(* Order and numbers of messages handed over *)

\* Messages of b come after those of the same source in a.
Before(a, b) ==
    \A j \in DOMAIN a, k \in DOMAIN b :
        a[j].role = "user" /\ b[k].role = "user" /\ a[j].source = b[k].source => a[j].n < b[k].n

NoUser(s) == \A k \in DOMAIN s : s[k].role # "user"

\* An entry of a concatenation is one of its parts.
LEMMA ConcatParts ==
    ASSUME NEW a \in Seq(Entries), NEW b \in Seq(Entries)
    PROVE  /\ a \o b \in Seq(Entries) /\ DOMAIN a = 1..Len(a) /\ DOMAIN b = 1..Len(b)
           /\ DOMAIN (a \o b) = 1..(Len(a) + Len(b)) /\ Len(a) \in Nat /\ Len(b) \in Nat
           /\ \A k \in DOMAIN a : k \in DOMAIN (a \o b) /\ (a \o b)[k] = a[k]
           /\ \A k \in DOMAIN b : Len(a) + k \in DOMAIN (a \o b) /\ (a \o b)[Len(a) + k] = b[k]
           /\ \A k \in DOMAIN (a \o b) :
                \/ k \in DOMAIN a /\ (a \o b)[k] = a[k]
                \/ k > Len(a) /\ k - Len(a) \in DOMAIN b /\ (a \o b)[k] = b[k - Len(a)]
<1>1. /\ a \o b \in Seq(Entries) /\ DOMAIN a = 1..Len(a) /\ DOMAIN b = 1..Len(b)
      /\ DOMAIN (a \o b) = 1..(Len(a) + Len(b)) /\ Len(a) \in Nat /\ Len(b) \in Nat
  OBVIOUS
<1>2. \A i \in 1..(Len(a) + Len(b)) : (a \o b)[i] = IF i <= Len(a) THEN a[i] ELSE b[i - Len(a)]
  BY ConcatProperties
<1>3. \A k \in DOMAIN b : Len(a) + k \in 1..(Len(a) + Len(b)) /\ ~(Len(a) + k <= Len(a)) /\ (Len(a) + k) - Len(a) = k
  BY <1>1
<1>4. \A k \in DOMAIN b : Len(a) + k \in DOMAIN (a \o b) /\ (a \o b)[Len(a) + k] = b[k]
  <2>. TAKE k \in DOMAIN b
  <2>1. (a \o b)[Len(a) + k] = b[(Len(a) + k) - Len(a)]
    BY <1>2, <1>3
  <2>. QED
    BY <1>1, <1>3, <2>1
<1>5. \A k \in DOMAIN a : k \in DOMAIN (a \o b) /\ (a \o b)[k] = a[k]
  BY <1>1, <1>2
<1>6. \A k \in DOMAIN (a \o b) :
        \/ k \in DOMAIN a /\ (a \o b)[k] = a[k]
        \/ k > Len(a) /\ k - Len(a) \in DOMAIN b /\ (a \o b)[k] = b[k - Len(a)]
  <2>. TAKE k \in DOMAIN (a \o b)
  <2>1. k \in 1..(Len(a) + Len(b))
    BY <1>1
  <2>2. k <= Len(a) => k \in DOMAIN a
    BY <1>1, <2>1
  <2>3. ~(k <= Len(a)) => k > Len(a) /\ k - Len(a) \in DOMAIN b
    BY <1>1, <2>1
  <2>. QED
    BY <1>2, <2>1, <2>2, <2>3
<1>. QED
  BY <1>1, <1>4, <1>5, <1>6

\* Two sequences in order make one when the first stands before the second.
LEMMA OrderConcat ==
    ASSUME NEW a \in Seq(Entries), NEW b \in Seq(Entries)
    PROVE  InOrder(a \o b) <=> InOrder(a) /\ InOrder(b) /\ Before(a, b)
<1>. DEFINE c == a \o b
<1>0. /\ DOMAIN a = 1..Len(a) /\ DOMAIN b = 1..Len(b)
      /\ DOMAIN c = 1..(Len(a) + Len(b)) /\ Len(a) \in Nat /\ Len(b) \in Nat
      /\ \A k \in DOMAIN a : k \in DOMAIN c /\ c[k] = a[k]
      /\ \A k \in DOMAIN b : Len(a) + k \in DOMAIN c /\ c[Len(a) + k] = b[k]
      /\ \A k \in DOMAIN c :
           \/ k \in DOMAIN a /\ c[k] = a[k]
           \/ k > Len(a) /\ k - Len(a) \in DOMAIN b /\ c[k] = b[k - Len(a)]
  BY ConcatParts
<1>. HIDE DEF c
<1>1. ASSUME InOrder(c) PROVE InOrder(a) /\ InOrder(b) /\ Before(a, b)
  <2>1. InOrder(a)
    BY <1>0, <1>1 DEF InOrder
  <2>2. InOrder(b)
    <3>. SUFFICES ASSUME NEW j \in DOMAIN b, NEW k \in DOMAIN b, j < k,
                         b[j].role = "user", b[k].role = "user", b[j].source = b[k].source
                  PROVE  b[j].n < b[k].n
      BY DEF InOrder
    <3>1. Len(a) + j < Len(a) + k
      BY <1>0
    <3>2. c[Len(a) + j] = b[j] /\ c[Len(a) + k] = b[k] /\ Len(a) + j \in DOMAIN c /\ Len(a) + k \in DOMAIN c
      BY <1>0
    <3>. QED
      BY <1>1, <3>1, <3>2 DEF InOrder
  <2>3. Before(a, b)
    <3>. SUFFICES ASSUME NEW j \in DOMAIN a, NEW k \in DOMAIN b,
                         a[j].role = "user", b[k].role = "user", a[j].source = b[k].source
                  PROVE  a[j].n < b[k].n
      BY DEF Before
    <3>1. j < Len(a) + k
      BY <1>0
    <3>2. c[j] = a[j] /\ c[Len(a) + k] = b[k] /\ j \in DOMAIN c /\ Len(a) + k \in DOMAIN c
      BY <1>0
    <3>. QED
      BY <1>1, <3>1, <3>2 DEF InOrder
  <2>. QED
    BY <2>1, <2>2, <2>3
<1>2. ASSUME InOrder(a), InOrder(b), Before(a, b) PROVE InOrder(c)
  <2>. SUFFICES ASSUME NEW j \in DOMAIN c, NEW k \in DOMAIN c, j < k,
                       c[j].role = "user", c[k].role = "user", c[j].source = c[k].source
                PROVE  c[j].n < c[k].n
    BY DEF InOrder
  <2>1. CASE j \in DOMAIN a /\ c[j] = a[j] /\ k \in DOMAIN a /\ c[k] = a[k]
    BY <1>2, <2>1 DEF InOrder
  <2>2. CASE j \in DOMAIN a /\ c[j] = a[j] /\ k > Len(a) /\ k - Len(a) \in DOMAIN b /\ c[k] = b[k - Len(a)]
    BY <1>2, <2>2 DEF Before
  <2>3. CASE /\ j > Len(a) /\ j - Len(a) \in DOMAIN b /\ c[j] = b[j - Len(a)]
             /\ k > Len(a) /\ k - Len(a) \in DOMAIN b /\ c[k] = b[k - Len(a)]
    <3>1. j - Len(a) < k - Len(a)
      BY <1>0
    <3>. QED
      BY <1>2, <2>3, <3>1 DEF InOrder
  <2>4. ~(j > Len(a) /\ k \in DOMAIN a)
    BY <1>0
  <2>. QED
    BY <1>0, <2>1, <2>2, <2>3, <2>4
<1>. QED
  BY <1>1, <1>2 DEF c

\* What stands before both parts, or behind both, stands so for the whole.
LEMMA BeforeConcat ==
    ASSUME NEW a \in Seq(Entries), NEW b \in Seq(Entries), NEW d \in Seq(Entries)
    PROVE  /\ Before(a \o b, d) <=> Before(a, d) /\ Before(b, d)
           /\ Before(d, a \o b) <=> Before(d, a) /\ Before(d, b)
<1>. DEFINE c == a \o b
<1>0. /\ \A k \in DOMAIN a : k \in DOMAIN c /\ c[k] = a[k]
      /\ \A k \in DOMAIN b : Len(a) + k \in DOMAIN c /\ c[Len(a) + k] = b[k]
      /\ \A k \in DOMAIN c :
           \/ k \in DOMAIN a /\ c[k] = a[k]
           \/ k > Len(a) /\ k - Len(a) \in DOMAIN b /\ c[k] = b[k - Len(a)]
  BY ConcatParts
<1>. HIDE DEF c
<1>1. Before(c, d) => Before(a, d) /\ Before(b, d)
  BY <1>0 DEF Before
<1>2. ASSUME Before(a, d), Before(b, d), NEW j \in DOMAIN c, NEW k \in DOMAIN d,
             c[j].role = "user", d[k].role = "user", c[j].source = d[k].source
      PROVE  c[j].n < d[k].n
  <2>1. CASE j \in DOMAIN a /\ c[j] = a[j]
    BY <1>2, <2>1 DEF Before
  <2>2. CASE j - Len(a) \in DOMAIN b /\ c[j] = b[j - Len(a)]
    BY <1>2, <2>2 DEF Before
  <2>. QED
    BY <1>0, <2>1, <2>2
<1>3. Before(d, c) => Before(d, a) /\ Before(d, b)
  BY <1>0 DEF Before
<1>4. ASSUME Before(d, a), Before(d, b), NEW j \in DOMAIN d, NEW k \in DOMAIN c,
             d[j].role = "user", c[k].role = "user", d[j].source = c[k].source
      PROVE  d[j].n < c[k].n
  <2>1. CASE k \in DOMAIN a /\ c[k] = a[k]
    BY <1>4, <2>1 DEF Before
  <2>2. CASE k - Len(a) \in DOMAIN b /\ c[k] = b[k - Len(a)]
    BY <1>4, <2>2 DEF Before
  <2>. QED
    BY <1>0, <2>1, <2>2
<1>5. Before(a, d) /\ Before(b, d) => Before(c, d)
  BY <1>2 DEF Before
<1>6. Before(d, a) /\ Before(d, b) => Before(d, c)
  BY <1>4 DEF Before
<1>. QED
  BY <1>1, <1>3, <1>5, <1>6 DEF c

\* The numbers of the whole are those of its parts.
LEMMA IdsConcat ==
    ASSUME NEW a \in Seq(Entries), NEW b \in Seq(Entries)
    PROVE  Ids(a \o b) = Ids(a) \cup Ids(b)
<1>. DEFINE c == a \o b
<1>0. /\ \A k \in DOMAIN a : k \in DOMAIN c /\ c[k] = a[k]
      /\ \A k \in DOMAIN b : Len(a) + k \in DOMAIN c /\ c[Len(a) + k] = b[k]
      /\ \A k \in DOMAIN c :
           \/ k \in DOMAIN a /\ c[k] = a[k]
           \/ k > Len(a) /\ k - Len(a) \in DOMAIN b /\ c[k] = b[k - Len(a)]
  BY ConcatParts
<1>. HIDE DEF c
<1>1. Ids(c) \subseteq Ids(a) \cup Ids(b)
  BY <1>0 DEF Ids
<1>2. Ids(a) \subseteq Ids(c)
  BY <1>0 DEF Ids
<1>3. Ids(b) \subseteq Ids(c)
  BY <1>0 DEF Ids
<1>. QED
  BY <1>1, <1>2, <1>3 DEF c

\* Sequences without messages of callers, and those of two queues, are in any order.
LEMMA NoUserOrder ==
    ASSUME NEW s, NoUser(s), NEW t
    PROVE  InOrder(s) /\ Before(s, t) /\ Before(t, s) /\ Ids(s) = {}
BY DEF NoUser, InOrder, Before, Ids

\* An empty sequence has no message of a caller.
LEMMA EmptyNoUser == NoUser(<<>>)
BY DEF NoUser

\* Order is within a source: messages of two queues do not compare.
LEMMA QueuesDiffer ==
    ASSUME NEW x, NEW y, x # y, NEW s \in Seq(From(x)), NEW t \in Seq(From(y))
    PROVE  Before(s, t)
BY FromQueue DEF Before

\* A new message has a number of its own.
LEMMA NewIsLast ==
    ASSUME NEW s \in Seq(Entries), NEW m \in Nat, Ids(s) \subseteq 1..m, NEW source
    PROVE  /\ Before(s, <<User(source, m + 1)>>) /\ InOrder(<<User(source, m + 1)>>)
           /\ Ids(<<User(source, m + 1)>>) = {m + 1}
<1>. DEFINE u == User(source, m + 1)
<1>1. u.role = "user" /\ u.n = m + 1
  BY DEF User
<1>. HIDE DEF u
<1>2. DOMAIN <<u>> = {1} /\ <<u>>[1] = u
  OBVIOUS
<1>3. Before(s, <<u>>)
  <2>1. \A j \in DOMAIN s : s[j].role = "user" => s[j].n \in 1..m
    BY DEF Ids
  <2>. QED
    BY <1>1, <1>2, <2>1 DEF Before
<1>4. InOrder(<<u>>) /\ Ids(<<u>>) = {m + 1}
  BY <1>1, <1>2 DEF InOrder, Ids
<1>. QED
  BY <1>3, <1>4 DEF u

------------------------------------------------------------------------------
(* How messages move *)

\* The messages the loop has taken, delivered or not.
Held == messages \o pending

\* Entries that no caller handed over are inserted, or none.
Inserted ==
    /\ UNCHANGED queueVars
    /\ \E a, b, n \in Seq(Entries) : NoUser(n) /\ Held = a \o b /\ Held' = (a \o n) \o b

\* What was pending is lost.
Dropped ==
    /\ "throw" \in Env /\ UNCHANGED queueVars
    /\ \E a, b \in Seq(Entries) : Held = a \o b /\ Held' = a

SteeringTaken ==
    /\ \E n \in Seq(Entries) : NoUser(n) /\ Held' = (Held \o n) \o Peek(steering, SteeringMode)
    /\ steering' = Left(steering, SteeringMode) /\ UNCHANGED <<followUps, sent, forgotten>>

FollowUpsTaken ==
    /\ Held' = Held \o Peek(followUps, FollowUpMode)
    /\ followUps' = Left(followUps, FollowUpMode) /\ UNCHANGED <<steering, sent, forgotten>>

Entered ==
    /\ sent' = sent + 1 /\ Held' = Held \o <<User("prompt", sent + 1)>>
    /\ UNCHANGED <<steering, followUps, forgotten>>

Queued ==
    /\ sent' = sent + 1 /\ Held' = Held /\ UNCHANGED forgotten
    /\ \/ steering' = steering \o <<User("steer", sent + 1)>> /\ UNCHANGED followUps
       \/ followUps' = followUps \o <<User("follow", sent + 1)>> /\ UNCHANGED steering

Cleared ==
    /\ UNCHANGED sent /\ Held' = Held
    /\ \/ steering' = <<>> /\ UNCHANGED followUps /\ forgotten' = forgotten \cup Ids(steering)
       \/ followUps' = <<>> /\ UNCHANGED steering /\ forgotten' = forgotten \cup Ids(followUps)

Emptied ==
    /\ UNCHANGED sent /\ Held' = <<>> /\ steering' = <<>> /\ followUps' = <<>>
    /\ forgotten' = 1..sent

\* The transcript with what the loop holds, and the queues, are sequences of entries.
LEMMA HeldTypes ==
    ASSUME TypeOK
    PROVE  /\ Held \in Seq(Entries) /\ messages \in Seq(Entries) /\ pending \in Seq(Entries)
           /\ steering \in Seq(Entries) /\ followUps \in Seq(Entries) /\ sent \in Nat
           /\ pending = <<>> => Held = messages
           /\ <<>> \in Seq(Entries) /\ NoUser(<<>>)
           /\ <<Note>> \in Seq(Entries) /\ NoUser(<<Note>>)
<1>1. From("steer") \subseteq Entries /\ From("follow") \subseteq Entries /\ Users \cup {Note} \subseteq Entries
  BY EntryTypes
<1>2. /\ messages \in Seq(Entries) /\ pending \in Seq(Entries)
      /\ steering \in Seq(Entries) /\ followUps \in Seq(Entries) /\ sent \in Nat
  BY <1>1, SeqMonotonic DEF TypeOK
<1>3. Held \in Seq(Entries) /\ (pending = <<>> => Held = messages)
  BY <1>2, ConcatProperties, ConcatEmptySeq DEF Held
<1>4. <<>> \in Seq(Entries) /\ NoUser(<<>>)
  BY EmptySeq, EmptyNoUser
<1>5. <<Note>> \in Seq(Entries) /\ NoUser(<<Note>>)
  BY <1>1 DEF NoUser, Note
<1>. QED
  BY <1>2, <1>3, <1>4, <1>5

\* What prepareNextTurn asked for comes before the messages polled.
LEMMA PreparedFirst ==
    ASSUME TypeOK
    PROVE  /\ prepared \in Seq(Entries) /\ NoUser(prepared)
           /\ messages \o (prepared \o pending) = (messages \o prepared) \o pending
           /\ messages \o (prepared \o Peek(steering, SteeringMode))
                = (messages \o prepared) \o Peek(steering, SteeringMode)
<1>1. prepared \in Seq(Entries) /\ NoUser(prepared) /\ messages \in Seq(Entries) /\ pending \in Seq(Entries)
  BY HeldTypes DEF TypeOK
<1>2. Peek(steering, SteeringMode) \in Seq(Entries)
  <2>1. steering \in Seq(Entries)
    BY HeldTypes
  <2>. QED
    BY <2>1, QueueSplits
<1>3. ASSUME NEW s \in Seq(Entries)
      PROVE  messages \o (prepared \o s) = (messages \o prepared) \o s
  <2>1. messages \in Seq(Entries) /\ prepared \in Seq(Entries)
    BY <1>1
  <2>. QED
    BY <2>1, ConcatAssociative
<1>. QED
  BY <1>1, <1>2, <1>3

\* A step that leaves them alone inserts nothing.
LEMMA StaysInserted ==
    ASSUME TypeOK, Held' = Held, UNCHANGED queueVars
    PROVE  Inserted
<1>1. Held = Held \o <<>> /\ Held = (Held \o <<>>) \o <<>>
  BY HeldTypes, ConcatEmptySeq
<1>. QED
  BY <1>1, HeldTypes DEF Inserted

\* A reply or a result is inserted at the end of the transcript.
LEMMA AppendInserted ==
    ASSUME TypeOK, pending = <<>>, pending' = <<>>, UNCHANGED queueVars,
           NEW x \in Entries, x.role # "user", messages' = Append(messages, x)
    PROVE  Inserted
<1>1. messages' = messages \o <<x>> /\ messages' \in Seq(Entries) /\ <<x>> \in Seq(Entries)
  BY HeldTypes, AppendIsConcat, AppendProperties
<1>2. Held = messages \o <<>> /\ Held' = (messages \o <<x>>) \o <<>>
  BY <1>1 DEF Held
<1>3. NoUser(<<x>>)
  BY DEF NoUser
<1>. QED
  BY <1>1, <1>2, <1>3, HeldTypes DEF Inserted

\* Every step moves messages in one of these ways.
LEMMA Moves ==
    ASSUME BaseInv, Next, UNCHANGED setting
    PROVE  Inserted \/ Dropped \/ SteeringTaken \/ FollowUpsTaken \/ Entered \/ Queued \/ Cleared \/ Emptied
<1>. TypeOK /\ PendingInv /\ BatchInv
  BY DEF BaseInv
<1>. USE HeldTypes
<1>1. CASE Prompt
  <2>1. pending = <<>> /\ messages' = messages /\ pending' = <<User("prompt", sent + 1)>>
    BY <1>1 DEF Prompt, Begin, PendingInv
  <2>2. Held' = Held \o <<User("prompt", sent + 1)>>
    BY <2>1 DEF Held
  <2>. QED
    BY <1>1, <2>2 DEF Prompt, Entered
<1>2. CASE Continue
  <2>1. pending = <<>> /\ messages' = messages /\ UNCHANGED <<sent, forgotten>> /\ Held = messages
    BY <1>2 DEF Continue, Begin, PendingInv
  <2>2. CASE UNCHANGED <<steering, followUps>> /\ pending' = <<>>
    <3>1. Held' = Held
      BY <2>1, <2>2 DEF Held
    <3>. QED
      BY <2>1, <2>2, <3>1, StaysInserted DEF queueVars
  <2>3. CASE /\ pending' = Peek(steering, SteeringMode) /\ steering' = Left(steering, SteeringMode)
             /\ UNCHANGED followUps
    <3>1. Held' = (Held \o <<>>) \o Peek(steering, SteeringMode)
      BY <2>1, <2>3, ConcatEmptySeq DEF Held
    <3>. QED
      BY <2>1, <2>3, <3>1 DEF SteeringTaken
  <2>4. CASE /\ pending' = Peek(followUps, FollowUpMode) /\ followUps' = Left(followUps, FollowUpMode)
             /\ UNCHANGED steering
    <3>1. Held' = Held \o Peek(followUps, FollowUpMode)
      BY <2>1, <2>4 DEF Held
    <3>. QED
      BY <2>1, <2>4, <3>1 DEF FollowUpsTaken
  <2>. QED
    BY <1>2, <2>2, <2>3, <2>4 DEF Continue, Begin
<1>3. CASE Steer
  <2>1. steering' = steering \o <<User("steer", sent + 1)>>
    <3>1. User("steer", sent + 1) \in From("steer")
      BY DEF User, From
    <3>. QED
      BY <1>3, <3>1, AppendIsConcat DEF Steer, TypeOK
  <2>2. Held' = Held
    BY <1>3 DEF Steer, Held, textVars, pollVars
  <2>. QED
    BY <1>3, <2>1, <2>2 DEF Steer, Queued
<1>4. CASE FollowUp
  <2>1. followUps' = followUps \o <<User("follow", sent + 1)>>
    <3>1. User("follow", sent + 1) \in From("follow")
      BY DEF User, From
    <3>. QED
      BY <1>4, <3>1, AppendIsConcat DEF FollowUp, TypeOK
  <2>2. Held' = Held
    BY <1>4 DEF FollowUp, Held, textVars, pollVars
  <2>. QED
    BY <1>4, <2>1, <2>2 DEF FollowUp, Queued
<1>5. CASE Clear
  <2>1. Held' = Held
    BY <1>5 DEF Clear, Held, textVars, pollVars
  <2>. QED
    BY <1>5, <2>1 DEF Clear, Cleared
<1>6. CASE Reset
  <2>1. pending' = <<>> /\ messages' = <<>>
    BY <1>6 DEF Reset, PendingInv, pollVars
  <2>2. Held' = <<>>
    BY <2>1, ConcatEmptySeq DEF Held
  <2>. QED
    BY <1>6, <2>2 DEF Reset, Emptied
<1>7. CASE EmitPrompt \/ Deliver
  <2>1. CASE pending = <<>>
    <3>1. Deliver /\ UNCHANGED <<messages, pending>> /\ UNCHANGED queueVars
      BY <1>7, <2>1 DEF EmitPrompt, Deliver, PendingInv
    <3>2. Held' = Held
      BY <3>1 DEF Held
    <3>. QED
      BY <3>1, <3>2, StaysInserted
  <2>2. CASE pending # <<>>
    <3>1. messages' = Append(messages, Head(pending)) /\ pending' = Tail(pending) /\ UNCHANGED queueVars
      BY <1>7, <2>2 DEF EmitPrompt, Deliver
    <3>2. Held' = Held
      BY <2>2, <3>1, EmitMoves DEF Held
    <3>. QED
      BY <3>1, <3>2, StaysInserted
  <2>. QED
    BY <2>1, <2>2
<1>8. CASE FirstPoll
  <2>1. pending = <<>> /\ messages' = messages /\ UNCHANGED <<followUps, sent, forgotten>> /\ Held = messages
    BY <1>8 DEF FirstPoll, PendingInv, textVars
  <2>2. CASE UNCHANGED <<pending, steering>>
    <3>1. Held' = Held
      BY <2>1, <2>2 DEF Held
    <3>. QED
      BY <2>1, <2>2, <3>1, StaysInserted DEF queueVars
  <2>3. CASE TakeSteering
    <3>1. Held' = (Held \o <<>>) \o Peek(steering, SteeringMode)
      BY <2>1, <2>3, ConcatEmptySeq DEF Held, TakeSteering
    <3>. QED
      BY <2>1, <2>3, <3>1 DEF SteeringTaken, TakeSteering
  <2>. QED
    BY <1>8, <2>2, <2>3 DEF FirstPoll
<1>9. CASE Repoll
  <2>0. prepared \in Seq(Entries) /\ NoUser(prepared)
    BY PreparedFirst
  <2>1. CASE pending = <<>>
    <3>1. /\ pending' = prepared \o Peek(steering, SteeringMode) /\ steering' = Left(steering, SteeringMode)
          /\ messages' = messages /\ UNCHANGED <<followUps, sent, forgotten>> /\ Held = messages
      BY <1>9, <2>1 DEF Repoll, PollAgain, textVars
    <3>3. Held' = (Held \o prepared) \o Peek(steering, SteeringMode)
      BY <3>1, PreparedFirst DEF Held
    <3>. QED
      BY <2>0, <3>1, <3>3 DEF SteeringTaken
  <2>2. CASE pending # <<>>
    <3>1. pending' = prepared \o pending /\ messages' = messages /\ UNCHANGED queueVars
      BY <1>9, <2>2 DEF Repoll, PollAgain, textVars, queueVars
    <3>2. Held' = (messages \o prepared) \o pending
      BY <3>1, PreparedFirst DEF Held
    <3>. QED
      BY <2>0, <3>1, <3>2 DEF Inserted, Held
  <2>. QED
    BY <2>1, <2>2
<1>10. CASE Respond
  <2>1. PICK x \in Replies : messages' = Append(messages, x)
    BY <1>10, ReplyAppended
  <2>2. x \in Entries /\ x.role # "user"
    BY EntryTypes DEF Replies
  <2>3. pending = <<>> /\ pending' = <<>> /\ UNCHANGED queueVars
    BY <1>10 DEF Respond, PendingInv, pollVars
  <2>. QED
    BY <2>1, <2>2, <2>3, AppendInserted
<1>11. CASE (NextCall /\ mode # "parallel") \/ EmitResult
  <2>1. PICK n \in DOMAIN reply.calls : messages' = Append(messages, Result(reply.calls[n]))
                                       /\ Result(reply.calls[n]) \in Entries
    BY <1>11, ResultSteps
  <2>2. Result(reply.calls[n]).role # "user"
    BY DEF Result
  <2>3. pending = <<>> /\ pending' = <<>> /\ UNCHANGED queueVars
    BY <1>11 DEF NextCall, EmitResult, PendingInv, pollVars
  <2>. QED
    BY <2>1, <2>2, <2>3, AppendInserted
<1>12. CASE HandleRunFailure
  <2>1. pending = <<>> /\ pending' = <<>> /\ UNCHANGED queueVars
    BY <1>12 DEF HandleRunFailure, PendingInv, pollVars
  <2>2. CASE messages' = messages
    <3>1. Held' = Held
      BY <2>1, <2>2 DEF Held
    <3>. QED
      BY <2>1, <3>1, StaysInserted
  <2>3. CASE messages' = Append(messages, Failure)
    BY <2>1, <2>3, EntryTypes, AppendInserted
  <2>. QED
    BY <1>12, <2>2, <2>3 DEF HandleRunFailure
<1>13. CASE PollSteering
  <2>1. pending = <<>> /\ messages' = messages /\ UNCHANGED <<followUps, sent, forgotten>> /\ Held = messages
        /\ TakeSteering
    BY <1>13 DEF PollSteering, PendingInv, textVars
  <2>2. Held' = (Held \o <<>>) \o Peek(steering, SteeringMode)
    BY <2>1, ConcatEmptySeq DEF Held, TakeSteering
  <2>. QED
    BY <2>1, <2>2 DEF SteeringTaken, TakeSteering
<1>14. CASE PollFollowUps
  <2>1. pending = <<>> /\ messages' = messages /\ Held = messages
    BY <1>14 DEF PollFollowUps, PendingInv, textVars
  <2>2. Held' = Held \o Peek(followUps, FollowUpMode)
    BY <1>14, <2>1 DEF Held, PollFollowUps
  <2>. QED
    BY <1>14, <2>2 DEF PollFollowUps, FollowUpsTaken
<1>15. CASE Fail
  <2>1. Held' = messages /\ UNCHANGED queueVars /\ "throw" \in Env
    BY <1>15, ConcatEmptySeq DEF Fail, Held, textVars
  <2>. QED
    BY <2>1 DEF Dropped, Held
<1>16. CASE Abort \/ PrepareNextTurn \/ Request \/ StartCall \/ RefuseCall \/ PrepareCall
  <2>1. UNCHANGED <<messages, pending>> /\ UNCHANGED queueVars
    BY <1>16 DEF Abort, PrepareNextTurn, Request, StartCall, RefuseCall, PrepareCall, textVars, pollVars
  <2>. QED
    BY <2>1, StaysInserted DEF Held
<1>17. CASE (NextCall /\ mode = "parallel") \/ Launch \/ FinishTurn \/ FinishRun
  <2>1. UNCHANGED <<messages, pending>> /\ UNCHANGED queueVars
    BY <1>17 DEF NextCall, Launch, FinishTurn, FinishRun, textVars, pollVars
  <2>. QED
    BY <2>1, StaysInserted DEF Held
<1>18. ASSUME NEW c \in Calls, EndTool(c) PROVE Inserted
  <2>1. UNCHANGED <<messages, pending>> /\ UNCHANGED queueVars
    BY <1>18 DEF EndTool, textVars, pollVars
  <2>. QED
    BY <2>1, StaysInserted DEF Held
<1>. QED
  BY <1>1, <1>2, <1>3, <1>4, <1>5, <1>6, <1>7, <1>8, <1>9, <1>10, <1>11, <1>12, <1>13, <1>14,
     <1>15, <1>16, <1>17, <1>18 DEF Next, Callers, Loop

\* The trails in pieces.
LEMMA Pieces ==
    ASSUME NEW h \in Seq(Entries), NEW s \in Seq(Entries), NEW f \in Seq(Entries)
    PROVE  /\ InOrder(h \o s) /\ InOrder(h \o f) <=>
                InOrder(h) /\ InOrder(s) /\ InOrder(f) /\ Before(h, s) /\ Before(h, f)
           /\ Ids(h \o s) \cup Ids(h \o f) = Ids(h) \cup Ids(s) \cup Ids(f)
BY OrderConcat, IdsConcat

\* What a poll takes comes before what it leaves.
LEMMA QueuePieces ==
    ASSUME NEW source \in Sources, NEW q \in Seq(From(source)), NEW how
    PROVE  /\ Peek(q, how) \in Seq(From(source)) /\ Left(q, how) \in Seq(From(source))
           /\ Peek(q, how) \in Seq(Entries) /\ Left(q, how) \in Seq(Entries)
           /\ InOrder(q) => /\ InOrder(Peek(q, how)) /\ InOrder(Left(q, how))
                            /\ Before(Peek(q, how), Left(q, how))
           /\ \A h \in Seq(Entries) :
                Before(h, q) => Before(h, Peek(q, how)) /\ Before(h, Left(q, how))
           /\ Ids(q) = Ids(Peek(q, how)) \cup Ids(Left(q, how))
<1>1. From(source) \subseteq Entries
  BY EntryTypes DEF From, Users
<1>2. /\ Peek(q, how) \in Seq(From(source)) /\ Left(q, how) \in Seq(From(source))
      /\ Peek(q, how) \o Left(q, how) = q
  BY QueueSplits
<1>3. Peek(q, how) \in Seq(Entries) /\ Left(q, how) \in Seq(Entries)
  BY <1>1, <1>2, SeqMonotonic
<1>. DEFINE p == Peek(q, how)  l == Left(q, how)
<1>4. p \in Seq(Entries) /\ l \in Seq(Entries) /\ p \o l = q
  BY <1>2, <1>3
<1>. HIDE DEF p, l
<1>5. Ids(p \o l) = Ids(p) \cup Ids(l)
  BY <1>4, IdsConcat
<1>6. InOrder(p \o l) => InOrder(p) /\ InOrder(l) /\ Before(p, l)
  BY <1>4, OrderConcat
<1>7. \A h \in Seq(Entries) : Before(h, p \o l) => Before(h, p) /\ Before(h, l)
  BY <1>4, BeforeConcat
<1>. QED
  BY <1>2, <1>3, <1>4, <1>5, <1>6, <1>7 DEF p, l

\* The state of the queues, in pieces.
Tidy(h, s, f) ==
    InOrder(h) /\ InOrder(s) /\ InOrder(f) /\ Before(h, s) /\ Before(h, f)

\* Each way to move messages keeps them in order, numbered, and, without throws, in place.
LEMMA TidyKept ==
    ASSUME TypeOK, TypeOK', Tidy(Held, steering, followUps), UNCHANGED setting,
           Ids(Held) \cup Ids(steering) \cup Ids(followUps) \cup forgotten \subseteq 1..sent,
           Inserted \/ Dropped \/ SteeringTaken \/ FollowUpsTaken \/ Entered \/ Queued \/ Cleared \/ Emptied
    PROVE  /\ Tidy(Held', steering', followUps')
           /\ Ids(Held') \cup Ids(steering') \cup Ids(followUps') \cup forgotten' \subseteq 1..sent'
           /\ "throw" \notin Env
              /\ Ids(Held) \cup Ids(steering) \cup Ids(followUps) \cup forgotten = 1..sent
              => Ids(Held') \cup Ids(steering') \cup Ids(followUps') \cup forgotten' = 1..sent'
<1>. DEFINE All == Ids(Held) \cup Ids(steering) \cup Ids(followUps) \cup forgotten
            AllNext == Ids(Held') \cup Ids(steering') \cup Ids(followUps') \cup forgotten'
<1>0. /\ Held \in Seq(Entries) /\ steering \in Seq(Entries) /\ followUps \in Seq(Entries) /\ sent \in Nat
      /\ steering \in Seq(From("steer")) /\ followUps \in Seq(From("follow"))
  BY HeldTypes DEF TypeOK
<1>1. CASE Inserted
  <2>. PICK a \in Seq(Entries), b \in Seq(Entries), n \in Seq(Entries) :
         NoUser(n) /\ Held = a \o b /\ Held' = (a \o n) \o b
    BY <1>1 DEF Inserted
  <2>1. a \o n \in Seq(Entries)
    BY ConcatProperties
  <2>2. Ids(n) = {} /\ InOrder(n) /\ \A t : Before(n, t) /\ Before(t, n)
    BY NoUserOrder
  <2>3. Ids(Held') = Ids(Held)
    <3>1. Ids((a \o n) \o b) = Ids(a \o n) \cup Ids(b)
      BY <2>1, IdsConcat
    <3>2. Ids(a \o n) = Ids(a) \cup Ids(n) /\ Ids(a \o b) = Ids(a) \cup Ids(b)
      BY IdsConcat
    <3>. QED
      BY <2>2, <3>1, <3>2
  <2>4. InOrder(a) /\ InOrder(b) /\ Before(a, b) /\ Before(a, steering) /\ Before(b, steering)
        /\ Before(a, followUps) /\ Before(b, followUps)
    BY <1>0, OrderConcat, BeforeConcat DEF Tidy
  <2>5. InOrder(a \o n) /\ Before(a \o n, b)
    BY <2>2, <2>4, OrderConcat, BeforeConcat
  <2>6. InOrder(Held')
    BY <2>1, <2>4, <2>5, OrderConcat
  <2>7. Before(a \o n, steering) /\ Before(a \o n, followUps)
    BY <1>0, <2>2, <2>4, BeforeConcat
  <2>8. Before(Held', steering) /\ Before(Held', followUps)
    BY <1>0, <2>1, <2>4, <2>7, BeforeConcat
  <2>9. UNCHANGED <<steering, followUps, sent, forgotten>>
    BY <1>1 DEF Inserted, queueVars
  <2>. QED
    BY <2>3, <2>6, <2>8, <2>9 DEF Tidy
<1>2. CASE Dropped
  <2>. PICK a \in Seq(Entries), b \in Seq(Entries) : Held = a \o b /\ Held' = a
    BY <1>2 DEF Dropped
  <2>1. InOrder(a) /\ Before(a, steering) /\ Before(a, followUps)
    BY <1>0, OrderConcat, BeforeConcat DEF Tidy
  <2>2. Ids(a) \subseteq Ids(Held)
    BY IdsConcat
  <2>3. UNCHANGED <<steering, followUps, sent, forgotten>> /\ "throw" \in Env
    BY <1>2 DEF Dropped, queueVars
  <2>. QED
    BY <2>1, <2>2, <2>3 DEF Tidy
<1>3. CASE SteeringTaken
  <2>. DEFINE P == Peek(steering, SteeringMode)  L == Left(steering, SteeringMode)
  <2>. PICK n \in Seq(Entries) : NoUser(n) /\ Held' = (Held \o n) \o P
    BY <1>3 DEF SteeringTaken
  <2>1. /\ P \in Seq(From("steer")) /\ L \in Seq(From("steer")) /\ P \in Seq(Entries) /\ L \in Seq(Entries)
        /\ InOrder(P) /\ InOrder(L) /\ Before(P, L) /\ Before(Held, P) /\ Before(Held, L)
        /\ Ids(steering) = Ids(P) \cup Ids(L)
    BY <1>0, QueuePieces DEF Tidy, Sources
  <2>2. steering' = L /\ UNCHANGED <<followUps, sent, forgotten>>
    BY <1>3 DEF SteeringTaken
  <2>. HIDE DEF P, L
  <2>3. Held \o n \in Seq(Entries)
    BY <1>0, ConcatProperties
  <2>4. Ids(n) = {} /\ InOrder(n) /\ \A t : Before(n, t) /\ Before(t, n)
    BY NoUserOrder
  <2>5. Ids(Held') = Ids(Held) \cup Ids(P)
    <3>1. Ids((Held \o n) \o P) = Ids(Held \o n) \cup Ids(P)
      BY <2>1, <2>3, IdsConcat
    <3>2. Ids(Held \o n) = Ids(Held) \cup Ids(n)
      BY <1>0, IdsConcat
    <3>. QED
      BY <2>4, <3>1, <3>2
  <2>6. /\ InOrder(Held \o n) /\ Before(Held \o n, P) /\ Before(Held \o n, L)
        /\ Before(Held \o n, followUps)
    BY <1>0, <2>1, <2>4, OrderConcat, BeforeConcat DEF Tidy
  <2>7. Before(P, followUps)
    BY <1>0, <2>1, QueuesDiffer
  <2>8. InOrder(Held') /\ Before(Held', L) /\ Before(Held', followUps)
    BY <1>0, <2>1, <2>3, <2>6, <2>7, OrderConcat, BeforeConcat
  <2>. QED
    BY <2>1, <2>2, <2>5, <2>8 DEF Tidy
<1>4. CASE FollowUpsTaken
  <2>. DEFINE P == Peek(followUps, FollowUpMode)  L == Left(followUps, FollowUpMode)
  <2>1. /\ P \in Seq(From("follow")) /\ L \in Seq(From("follow")) /\ P \in Seq(Entries) /\ L \in Seq(Entries)
        /\ InOrder(P) /\ InOrder(L) /\ Before(P, L) /\ Before(Held, P) /\ Before(Held, L)
        /\ Ids(followUps) = Ids(P) \cup Ids(L)
    BY <1>0, QueuePieces DEF Tidy, Sources
  <2>2. Held' = Held \o P /\ followUps' = L /\ UNCHANGED <<steering, sent, forgotten>>
    BY <1>4 DEF FollowUpsTaken
  <2>. HIDE DEF P, L
  <2>5. Ids(Held') = Ids(Held) \cup Ids(P)
    BY <1>0, <2>1, <2>2, IdsConcat
  <2>7. Before(P, steering)
    BY <1>0, <2>1, QueuesDiffer
  <2>8. InOrder(Held') /\ Before(Held', L) /\ Before(Held', steering)
    BY <1>0, <2>1, <2>2, <2>7, OrderConcat, BeforeConcat DEF Tidy
  <2>. QED
    BY <2>1, <2>2, <2>5, <2>8 DEF Tidy
<1>5. CASE Entered
  <2>. DEFINE u == User("prompt", sent + 1)
  <2>1. <<u>> \in Seq(From("prompt")) /\ <<u>> \in Seq(Entries)
    <3>1. u \in From("prompt") /\ u \in Users
      BY <1>0 DEF User, From, Users, Sources
    <3>. QED
      BY <3>1, EntryTypes
  <2>2. Before(Held, <<u>>) /\ InOrder(<<u>>) /\ Ids(<<u>>) = {sent + 1}
    BY <1>0, NewIsLast
  <2>3. Held' = Held \o <<u>> /\ sent' = sent + 1 /\ UNCHANGED <<steering, followUps, forgotten>>
    BY <1>5 DEF Entered
  <2>. HIDE DEF u
  <2>4. Before(<<u>>, steering) /\ Before(<<u>>, followUps)
    BY <1>0, <2>1, QueuesDiffer
  <2>5. Ids(Held') = Ids(Held) \cup {sent + 1}
    <3>1. Ids(Held \o <<u>>) = Ids(Held) \cup Ids(<<u>>)
      BY <1>0, <2>1, IdsConcat
    <3>. QED
      BY <2>2, <2>3, <3>1
  <2>6. InOrder(Held') /\ Before(Held', steering) /\ Before(Held', followUps)
    BY <1>0, <2>1, <2>2, <2>3, <2>4, OrderConcat, BeforeConcat DEF Tidy
  <2>7. 1..(sent + 1) = (1..sent) \cup {sent + 1}
    BY <1>0
  <2>. QED
    BY <2>3, <2>5, <2>6, <2>7 DEF Tidy
<1>6. CASE Queued
  <2>. DEFINE u(source) == User(source, sent + 1)
  <2>1. \A source \in Sources : <<u(source)>> \in Seq(Entries)
    <3>1. \A source \in Sources : u(source) \in Users
      BY <1>0 DEF User, Users
    <3>. QED
      BY <3>1, EntryTypes
  <2>2. \A source \in Sources :
          /\ Before(Held, <<u(source)>>) /\ Before(steering, <<u(source)>>) /\ Before(followUps, <<u(source)>>)
          /\ InOrder(<<u(source)>>) /\ Ids(<<u(source)>>) = {sent + 1}
    BY <1>0, NewIsLast
  <2>3. 1..(sent + 1) = (1..sent) \cup {sent + 1}
    BY <1>0
  <2>4. CASE steering' = steering \o <<u("steer")>> /\ UNCHANGED followUps
    <3>1. Ids(steering') = Ids(steering) \cup {sent + 1}
      <4>1. <<u("steer")>> \in Seq(Entries) /\ Ids(<<u("steer")>>) = {sent + 1}
        BY <2>1, <2>2 DEF Sources
      <4>2. Ids(steering \o <<u("steer")>>) = Ids(steering) \cup Ids(<<u("steer")>>)
        BY <1>0, <4>1, IdsConcat
      <4>. QED
        BY <2>4, <4>1, <4>2
    <3>2. InOrder(steering') /\ Before(Held, steering')
      <4>. DEFINE n == <<u("steer")>>
      <4>1. n \in Seq(Entries) /\ Before(Held, n) /\ Before(steering, n) /\ InOrder(n)
        BY <2>1, <2>2 DEF Sources
      <4>2. steering' = steering \o n
        BY <2>4
      <4>. HIDE DEF n
      <4>3. InOrder(steering \o n)
        BY <1>0, <4>1, OrderConcat DEF Tidy
      <4>4. Before(Held, steering \o n)
        BY <1>0, <4>1, BeforeConcat DEF Tidy
      <4>. QED
        BY <4>2, <4>3, <4>4
    <3>. QED
      BY <1>6, <2>3, <2>4, <3>1, <3>2 DEF Queued, Tidy
  <2>5. CASE followUps' = followUps \o <<u("follow")>> /\ UNCHANGED steering
    <3>1. Ids(followUps') = Ids(followUps) \cup {sent + 1}
      <4>1. <<u("follow")>> \in Seq(Entries) /\ Ids(<<u("follow")>>) = {sent + 1}
        BY <2>1, <2>2 DEF Sources
      <4>2. Ids(followUps \o <<u("follow")>>) = Ids(followUps) \cup Ids(<<u("follow")>>)
        BY <1>0, <4>1, IdsConcat
      <4>. QED
        BY <2>5, <4>1, <4>2
    <3>2. InOrder(followUps') /\ Before(Held, followUps')
      <4>. DEFINE n == <<u("follow")>>
      <4>1. n \in Seq(Entries) /\ Before(Held, n) /\ Before(followUps, n) /\ InOrder(n)
        BY <2>1, <2>2 DEF Sources
      <4>2. followUps' = followUps \o n
        BY <2>5
      <4>. HIDE DEF n
      <4>3. InOrder(followUps \o n)
        BY <1>0, <4>1, OrderConcat DEF Tidy
      <4>4. Before(Held, followUps \o n)
        BY <1>0, <4>1, BeforeConcat DEF Tidy
      <4>. QED
        BY <4>2, <4>3, <4>4
    <3>. QED
      BY <1>6, <2>3, <2>5, <3>1, <3>2 DEF Queued, Tidy
  <2>. QED
    BY <1>6, <2>4, <2>5 DEF Queued
<1>7. CASE Cleared \/ Emptied
  <2>1. \A t : InOrder(<<>>) /\ Before(<<>>, t) /\ Before(t, <<>>) /\ Ids(<<>>) = {}
    BY EmptyNoUser, NoUserOrder
  <2>2. CASE Emptied
    BY <2>1, <2>2 DEF Emptied, Tidy
  <2>3. CASE Cleared
    BY <2>1, <2>3 DEF Cleared, Tidy
  <2>. QED
    BY <1>7, <2>2, <2>3
<1>. QED
  BY <1>1, <1>2, <1>3, <1>4, <1>5, <1>6, <1>7

\* So every step keeps the order and the numbers of the trails.
LEMMA OrderStep ==
    ASSUME BaseInv, Numbered, OrderInv, KeptInv, Next, UNCHANGED setting
    PROVE  Numbered' /\ OrderInv' /\ KeptInv'
<1>1. TypeOK /\ TypeOK'
  BY BaseStep DEF BaseInv
<1>2. /\ Held \in Seq(Entries) /\ steering \in Seq(Entries) /\ followUps \in Seq(Entries)
  BY <1>1, HeldTypes
<1>3. /\ Held' \in Seq(Entries) /\ steering' \in Seq(Entries) /\ followUps' \in Seq(Entries)
  <2>1. From("steer") \subseteq Entries /\ From("follow") \subseteq Entries /\ Users \cup {Note} \subseteq Entries
    BY EntryTypes
  <2>2. /\ messages' \in Seq(Entries) /\ pending' \in Seq(Entries)
        /\ steering' \in Seq(Entries) /\ followUps' \in Seq(Entries)
    BY <1>1, <2>1, SeqMonotonic DEF TypeOK
  <2>. QED
    BY <2>2, ConcatProperties DEF Held
<1>4. Tidy(Held, steering, followUps)
      /\ Ids(Trail(steering)) \cup Ids(Trail(followUps)) = Ids(Held) \cup Ids(steering) \cup Ids(followUps)
  <2>1. Trail(steering) = Held \o steering /\ Trail(followUps) = Held \o followUps
    BY DEF Trail, Held
  <2>2. /\ InOrder(Held \o steering) /\ InOrder(Held \o followUps) =>
             Tidy(Held, steering, followUps)
        /\ Ids(Held \o steering) \cup Ids(Held \o followUps) = Ids(Held) \cup Ids(steering) \cup Ids(followUps)
    BY <1>2, Pieces DEF Tidy
  <2>. QED
    BY <2>1, <2>2 DEF OrderInv
<1>5. /\ Tidy(Held', steering', followUps')
      /\ Ids(Held') \cup Ids(steering') \cup Ids(followUps') \cup forgotten' \subseteq 1..sent'
      /\ "throw" \notin Env => Ids(Held') \cup Ids(steering') \cup Ids(followUps') \cup forgotten' = 1..sent'
  BY <1>1, <1>4, Moves, TidyKept DEF Numbered, KeptInv
<1>6. /\ InOrder(Held' \o steering') /\ InOrder(Held' \o followUps')
      /\ Ids(Held' \o steering') \cup Ids(Held' \o followUps') = Ids(Held') \cup Ids(steering') \cup Ids(followUps')
  BY <1>3, <1>5, Pieces DEF Tidy
<1>7. Trail(steering)' = Held' \o steering' /\ Trail(followUps)' = Held' \o followUps'
  BY DEF Trail, Held
<1>8. Env' = Env
  BY DEF Env
<1>9. /\ InOrder(Trail(steering))' /\ InOrder(Trail(followUps))'
      /\ Ids(Trail(steering))' = Ids(Held' \o steering') /\ Ids(Trail(followUps))' = Ids(Held' \o followUps')
  BY <1>6, <1>7 DEF InOrder, Ids
<1>. QED
  BY <1>5, <1>6, <1>8, <1>9 DEF Numbered, OrderInv, KeptInv

------------------------------------------------------------------------------
(* One-at-a-time steering *)

NoSteer(s) == \A k \in DOMAIN s : ~IsSteer(s[k])

\* Entries that are no steering messages may be added anywhere.
LEMMA SpacedInsert ==
    ASSUME NEW a \in Seq(Entries), NEW n \in Seq(Entries), NEW b \in Seq(Entries),
           NoSteer(n), Spaced(a \o b)
    PROVE  Spaced((a \o n) \o b)
<1>. DEFINE d == a \o n  c == d \o b  e == a \o b
<1>1. /\ DOMAIN a = 1..Len(a) /\ DOMAIN b = 1..Len(b) /\ DOMAIN n = 1..Len(n)
      /\ Len(a) \in Nat /\ Len(b) \in Nat /\ Len(n) \in Nat
      /\ d \in Seq(Entries) /\ Len(d) = Len(a) + Len(n)
      /\ DOMAIN e = 1..(Len(a) + Len(b))
      /\ \A k \in DOMAIN e : \/ k \in DOMAIN a /\ e[k] = a[k]
                             \/ k > Len(a) /\ k - Len(a) \in DOMAIN b /\ e[k] = b[k - Len(a)]
      /\ \A k \in DOMAIN a : e[k] = a[k]
      /\ \A k \in DOMAIN b : e[Len(a) + k] = b[k]
  <2>1. d \in Seq(Entries) /\ Len(d) = Len(a) + Len(n)
    BY ConcatProperties
  <2>2. DOMAIN n = 1..Len(n) /\ Len(n) \in Nat
    OBVIOUS
  <2>3. /\ DOMAIN a = 1..Len(a) /\ DOMAIN b = 1..Len(b) /\ Len(a) \in Nat /\ Len(b) \in Nat
        /\ DOMAIN e = 1..(Len(a) + Len(b))
        /\ \A k \in DOMAIN e : \/ k \in DOMAIN a /\ e[k] = a[k]
                               \/ k > Len(a) /\ k - Len(a) \in DOMAIN b /\ e[k] = b[k - Len(a)]
        /\ \A k \in DOMAIN a : e[k] = a[k]
        /\ \A k \in DOMAIN b : e[Len(a) + k] = b[k]
    BY ConcatParts
  <2>. QED
    BY <2>1, <2>2, <2>3
<1>2. /\ \A k \in DOMAIN a : k \in DOMAIN d /\ d[k] = a[k]
      /\ \A k \in DOMAIN d : \/ k \in DOMAIN a /\ d[k] = a[k]
                             \/ k > Len(a) /\ k - Len(a) \in DOMAIN n /\ d[k] = n[k - Len(a)]
  BY ConcatParts
<1>. HIDE DEF d
<1>3. /\ DOMAIN c = 1..(Len(a) + Len(n) + Len(b)) /\ DOMAIN d = 1..(Len(a) + Len(n))
      /\ \A k \in DOMAIN d : k \in DOMAIN c /\ c[k] = d[k]
      /\ \A k \in DOMAIN b : c[Len(d) + k] = b[k]
      /\ \A k \in DOMAIN c : \/ k \in DOMAIN d /\ c[k] = d[k]
                             \/ k > Len(d) /\ k - Len(d) \in DOMAIN b /\ c[k] = b[k - Len(d)]
  <2>1. /\ DOMAIN c = 1..(Len(d) + Len(b)) /\ DOMAIN d = 1..Len(d)
        /\ \A k \in DOMAIN d : k \in DOMAIN c /\ c[k] = d[k]
        /\ \A k \in DOMAIN b : c[Len(d) + k] = b[k]
        /\ \A k \in DOMAIN c : \/ k \in DOMAIN d /\ c[k] = d[k]
                               \/ k > Len(d) /\ k - Len(d) \in DOMAIN b /\ c[k] = b[k - Len(d)]
    <3>1. d \in Seq(Entries)
      BY <1>1
    <3>. QED
      BY <3>1, ConcatParts
  <2>. HIDE DEF c
  <2>. QED
    BY <1>1, <2>1
<1>. HIDE DEF c, e
<1>. DEFINE L == Len(a)  N == Len(n)
            Back(k) == IF k <= L THEN k ELSE k - N
            Forth(m) == IF m <= L THEN m ELSE m + N
<1>4. ASSUME NEW k \in DOMAIN c, IsSteer(c[k])
      PROVE  /\ Back(k) \in DOMAIN e /\ e[Back(k)] = c[k] /\ Forth(Back(k)) = k
             /\ k <= L \/ k > L + N
  <2>1. CASE k \in DOMAIN d /\ c[k] = d[k]
    <3>1. ~(k > L /\ k - L \in DOMAIN n /\ d[k] = n[k - L])
      BY <1>4, <2>1 DEF NoSteer
    <3>2. k \in DOMAIN a /\ d[k] = a[k]
      BY <1>2, <2>1, <3>1
    <3>. QED
      BY <1>1, <2>1, <3>2
  <2>2. CASE k > Len(d) /\ k - Len(d) \in DOMAIN b /\ c[k] = b[k - Len(d)]
    <3>1. k > L + N /\ k \in Nat /\ k - (L + N) \in DOMAIN b /\ c[k] = b[k - (L + N)]
      BY <1>1, <1>3, <2>2
    <3>2. e[L + (k - (L + N))] = b[k - (L + N)]
      BY <1>1, <3>1
    <3>3. L + (k - (L + N)) = k - N /\ k - N > L /\ k - N \in 1..(L + Len(b))
      BY <1>1, <3>1
    <3>. QED
      BY <1>1, <3>1, <3>2, <3>3
  <2>. QED
    BY <1>3, <2>1, <2>2
<1>5. ASSUME NEW m \in DOMAIN e
      PROVE  Forth(m) \in DOMAIN c /\ c[Forth(m)] = e[m]
  <2>1. CASE m \in DOMAIN a /\ e[m] = a[m]
    BY <1>1, <1>2, <1>3, <2>1
  <2>2. CASE m > L /\ m - L \in DOMAIN b /\ e[m] = b[m - L]
    <3>1. c[Len(d) + (m - L)] = b[m - L] /\ Len(d) + (m - L) = m + N
      BY <1>1, <1>3, <2>2
    <3>2. m + N \in DOMAIN c
      BY <1>1, <1>3, <2>2
    <3>. QED
      BY <1>1, <2>2, <3>1, <3>2
  <2>. QED
    BY <1>1, <2>1, <2>2
<1>6. ASSUME NEW j \in DOMAIN c, NEW k \in DOMAIN c, j < k, IsSteer(c[j]), IsSteer(c[k])
      PROVE  \E m \in j..k : c[m].role = "assistant"
  <2>1. /\ Back(j) \in DOMAIN e /\ e[Back(j)] = c[j] /\ (j <= L \/ j > L + N)
        /\ Back(k) \in DOMAIN e /\ e[Back(k)] = c[k] /\ (k <= L \/ k > L + N)
    BY <1>4, <1>6
  <2>2. Back(j) < Back(k)
    BY <1>1, <1>3, <1>6, <2>1
  <2>3. PICK m \in Back(j)..Back(k) : e[m].role = "assistant"
    <3>1. Spaced(e)
      BY DEF e
    <3>. QED
      BY <1>6, <2>1, <2>2, <3>1 DEF Spaced
  <2>4. m \in DOMAIN e
    BY <1>1, <2>1, <2>3
  <2>5. Forth(m) \in j..k
    BY <1>1, <1>3, <2>1, <2>3, <2>4
  <2>. QED
    BY <1>5, <2>3, <2>4, <2>5
<1>. QED
  BY <1>6 DEF Spaced, c, d

\* A part of a spaced trail is spaced.
LEMMA SpacedPrefix ==
    ASSUME NEW a \in Seq(Entries), NEW b \in Seq(Entries), Spaced(a \o b)
    PROVE  Spaced(a)
<1>1. /\ DOMAIN a = 1..Len(a) /\ Len(a) \in Nat
      /\ \A k \in DOMAIN a : k \in DOMAIN (a \o b) /\ (a \o b)[k] = a[k]
  BY ConcatParts
<1>2. ASSUME NEW j \in DOMAIN a, NEW k \in DOMAIN a, j < k, IsSteer(a[j]), IsSteer(a[k])
      PROVE  \E m \in j..k : a[m].role = "assistant"
  <2>1. PICK m \in j..k : (a \o b)[m].role = "assistant"
    BY <1>1, <1>2 DEF Spaced
  <2>2. m \in DOMAIN a
    BY <1>1
  <2>. QED
    BY <1>1, <2>1, <2>2
<1>. QED
  BY <1>2 DEF Spaced

\* Entries that are not steering messages leave answered what was answered.
LEMMA FreshInsert ==
    ASSUME NEW a \in Seq(Entries), NEW n \in Seq(Entries), NoSteer(n), Fresh(a)
    PROVE  Fresh(a \o n)
<1>. DEFINE c == a \o n
<1>1. /\ DOMAIN a = 1..Len(a) /\ DOMAIN n = 1..Len(n) /\ Len(a) \in Nat /\ Len(n) \in Nat
      /\ Len(c) = Len(a) + Len(n)
      /\ \A k \in DOMAIN a : k \in DOMAIN c /\ c[k] = a[k]
      /\ \A k \in DOMAIN c : \/ k \in DOMAIN a /\ c[k] = a[k]
                             \/ k > Len(a) /\ k - Len(a) \in DOMAIN n /\ c[k] = n[k - Len(a)]
  BY ConcatParts, ConcatProperties
<1>. HIDE DEF c
<1>2. ASSUME NEW j \in DOMAIN c, IsSteer(c[j])
      PROVE  \E m \in j..Len(c) : c[m].role = "assistant"
  <2>1. j \in DOMAIN a /\ c[j] = a[j]
    BY <1>1, <1>2 DEF NoSteer
  <2>2. PICK m \in j..Len(a) : a[m].role = "assistant"
    BY <1>2, <2>1 DEF Fresh
  <2>3. m \in DOMAIN a /\ m \in j..Len(c)
    BY <1>1, <2>1, <2>2
  <2>. QED
    BY <1>1, <2>2, <2>3
<1>. QED
  BY <1>2 DEF Fresh, c

\* A reply answers every steering message before it.
LEMMA FreshAnswer ==
    ASSUME NEW a \in Seq(Entries), NEW x \in Replies
    PROVE  Fresh(Append(a, x)) /\ NoSteer(<<x>>) /\ Append(a, x) = a \o <<x>>
<1>1. x \in Entries /\ x.role = "assistant"
  BY EntryTypes DEF Replies
<1>. DEFINE c == Append(a, x)
<1>2. c \in Seq(Entries) /\ Len(c) = Len(a) + 1 /\ c[Len(a) + 1] = x /\ DOMAIN c = 1..(Len(a) + 1) /\ Len(a) \in Nat
  BY <1>1, AppendProperties
<1>. HIDE DEF c
<1>3. \A j \in DOMAIN c : Len(c) \in j..Len(c) /\ c[Len(c)].role = "assistant"
  BY <1>1, <1>2
<1>4. NoSteer(<<x>>)
  BY <1>1 DEF NoSteer, IsSteer
<1>. QED
  BY <1>1, <1>3, <1>4, AppendIsConcat DEF Fresh, c

\* One message, steering or not, may follow when everything is answered.
LEMMA SpacedOneMore ==
    ASSUME NEW a \in Seq(Entries), NEW t \in Seq(Entries), Len(t) <= 1, Spaced(a), Fresh(a)
    PROVE  Spaced(a \o t)
<1>. DEFINE c == a \o t
<1>1. /\ DOMAIN a = 1..Len(a) /\ DOMAIN t = 1..Len(t) /\ Len(a) \in Nat /\ Len(t) \in Nat
      /\ DOMAIN c = 1..(Len(a) + Len(t))
      /\ \A k \in DOMAIN a : k \in DOMAIN c /\ c[k] = a[k]
  BY ConcatParts
<1>. HIDE DEF c
<1>2. ASSUME NEW j \in DOMAIN c, NEW k \in DOMAIN c, j < k, IsSteer(c[j]), IsSteer(c[k])
      PROVE  \E m \in j..k : c[m].role = "assistant"
  <2>1. j \in DOMAIN a /\ c[j] = a[j] /\ j \in Nat /\ k \in Nat
    BY <1>1, <1>2
  <2>2. CASE k \in DOMAIN a
    <3>1. PICK m \in j..k : a[m].role = "assistant"
      BY <1>1, <1>2, <2>1, <2>2 DEF Spaced
    <3>2. m \in DOMAIN a
      BY <1>1, <2>1, <2>2, <3>1
    <3>. QED
      BY <1>1, <3>1, <3>2
  <2>3. CASE k \notin DOMAIN a
    <3>1. k > Len(a)
      BY <1>1, <2>1, <2>3
    <3>2. PICK m \in j..Len(a) : a[m].role = "assistant"
      BY <1>2, <2>1 DEF Fresh
    <3>3. m \in DOMAIN a /\ m \in j..k
      BY <1>1, <2>1, <3>1, <3>2
    <3>. QED
      BY <1>1, <3>2, <3>3
  <2>. QED
    BY <2>2, <2>3
<1>. QED
  BY <1>2 DEF Spaced, c
\* What steps do to the spacing of steering messages.
LEMMA SpacedKept ==
    ASSUME TypeOK, Spaced(Held), MayTake => Fresh(Held),
           \/ Held' = Held /\ (MayTake' => MayTake)
           \/ \E t \in Seq(Entries) : Held' = Held \o t /\ NoSteer(t) /\ (MayTake' => MayTake)
           \/ /\ MayTake
              /\ \E n, t \in Seq(Entries) : /\ Held' = (Held \o n) \o t /\ NoSteer(n) /\ Len(t) <= 1
                                            /\ MayTake' => t = <<>>
           \/ \E x \in Replies : Held' = Append(Held, x)
           \/ ~MayTake' /\ \E a, n, b \in Seq(Entries) : Held = a \o b /\ Held' = (a \o n) \o b /\ NoSteer(n)
           \/ Held' = <<>>
    PROVE  Spaced(Held)' /\ (MayTake' => Fresh(Held)')
<1>. Held \in Seq(Entries) /\ <<>> \in Seq(Entries)
  BY HeldTypes
<1>0. Spaced(Held)' = Spaced(Held') /\ Fresh(Held)' = Fresh(Held')
  BY DEF Spaced, Fresh
<1>. SUFFICES Spaced(Held') /\ (MayTake' => Fresh(Held'))
  BY <1>0
<1>1. CASE Held' = Held /\ (MayTake' => MayTake)
  BY <1>1
<1>2. ASSUME NEW t \in Seq(Entries), Held' = Held \o t, NoSteer(t), MayTake' => MayTake
      PROVE  Spaced(Held') /\ (MayTake' => Fresh(Held'))
  <2>1. Spaced((Held \o t) \o <<>>)
    <3>1. Spaced(Held \o <<>>)
      BY ConcatEmptySeq
    <3>. QED
      BY <1>2, <3>1, SpacedInsert
  <2>2. (Held \o t) \o <<>> = Held \o t
    BY ConcatProperties, ConcatEmptySeq
  <2>. QED
    BY <1>2, <2>1, <2>2, FreshInsert
<1>3. ASSUME MayTake, NEW n \in Seq(Entries), NEW t \in Seq(Entries), Held' = (Held \o n) \o t,
             NoSteer(n), Len(t) <= 1, MayTake' => t = <<>>
      PROVE  Spaced(Held') /\ (MayTake' => Fresh(Held'))
  <2>1. Spaced((Held \o n) \o <<>>)
    <3>1. Spaced(Held \o <<>>)
      BY ConcatEmptySeq
    <3>. QED
      BY <1>3, <3>1, SpacedInsert
  <2>2. Held \o n \in Seq(Entries) /\ (Held \o n) \o <<>> = Held \o n
    BY ConcatProperties, ConcatEmptySeq
  <2>3. Fresh(Held \o n)
    BY <1>3, FreshInsert
  <2>4. Spaced((Held \o n) \o t)
    <3>1. Spaced(Held \o n)
      BY <2>1, <2>2
    <3>. QED
      BY <1>3, <2>2, <2>3, <3>1, SpacedOneMore
  <2>. QED
    BY <1>3, <2>2, <2>3, <2>4
<1>4. ASSUME NEW x \in Replies, Held' = Append(Held, x)
      PROVE  Spaced(Held') /\ Fresh(Held')
  <2>1. Fresh(Append(Held, x)) /\ NoSteer(<<x>>) /\ Append(Held, x) = Held \o <<x>>
    BY FreshAnswer
  <2>2. <<x>> \in Seq(Entries)
    BY EntryTypes
  <2>3. Spaced((Held \o <<x>>) \o <<>>)
    <3>1. Spaced(Held \o <<>>)
      BY ConcatEmptySeq
    <3>. QED
      BY <2>1, <2>2, <3>1, SpacedInsert
  <2>4. (Held \o <<x>>) \o <<>> = Held \o <<x>>
    BY <2>2, ConcatProperties, ConcatEmptySeq
  <2>. QED
    BY <1>4, <2>1, <2>3, <2>4
<1>5. ASSUME ~MayTake', NEW a \in Seq(Entries), NEW n \in Seq(Entries), NEW b \in Seq(Entries),
             Held = a \o b, Held' = (a \o n) \o b, NoSteer(n)
      PROVE  Spaced(Held') /\ (MayTake' => Fresh(Held'))
  BY <1>5, SpacedInsert
<1>6. CASE Held' = <<>>
  BY <1>6 DEF Spaced, Fresh
<1>. QED
  BY <1>1, <1>2, <1>3, <1>4, <1>5, <1>6

\* Input, follow-ups, notes and results are not steering messages.
LEMMA NoSteers ==
    /\ NoSteer(<<>>) /\ NoSteer(<<Note>>) /\ \A n : NoSteer(<<User("prompt", n)>>)
    /\ \A s \in Seq(From("follow")) : NoSteer(s)
    /\ \A c \in Calls : NoSteer(<<Result(c)>>)
<1>1. NoSteer(<<>>) /\ NoSteer(<<Note>>) /\ \A n : NoSteer(<<User("prompt", n)>>)
  BY DEF NoSteer, IsSteer, Note, User
<1>2. \A s \in Seq(From("follow")) : NoSteer(s)
  BY FromQueue DEF NoSteer, IsSteer
<1>3. \A c \in Calls : NoSteer(<<Result(c)>>)
  BY DEF NoSteer, IsSteer, Result
<1>. QED
  BY <1>1, <1>2, <1>3

\* Taking one steering message when the assistant has answered.
LEMMA SteerTaken ==
    ASSUME TypeOK, SteeringMode = "one-at-a-time", MayTake, NEW n \in Seq(Entries), NoSteer(n),
           pending = <<>>, messages' = messages, pending' = n \o Peek(steering, SteeringMode),
           MayTake' => Peek(steering, SteeringMode) = <<>>,
           Spaced(Held), MayTake => Fresh(Held)
    PROVE  Spaced(Held)' /\ (MayTake' => Fresh(Held)')
<1>. DEFINE p == Peek(steering, SteeringMode)
<1>1. p \in Seq(Entries) /\ Len(p) <= 1
  <2>1. steering \in Seq(Entries)
    BY HeldTypes
  <2>. QED
    BY <2>1, QueueSplits
<1>2. Held = messages /\ messages \in Seq(Entries) /\ Held' = messages \o (n \o p)
  BY HeldTypes DEF Held
<1>. HIDE DEF p
<1>3. messages \o (n \o p) = (messages \o n) \o p
  <2>1. p \in Seq(Entries) /\ messages \in Seq(Entries)
    BY <1>1, <1>2
  <2>. QED
    BY <2>1, ConcatAssociative
<1>4. Held' = (Held \o n) \o p /\ (MayTake' => p = <<>>)
  BY <1>2, <1>3 DEF p
<1>. QED
  BY <1>1, <1>4, SpacedKept

\* Without throws every step leaves a reply between two steering messages, and steering
\* is taken only when the last one is answered.
LEMMA SpacedStep ==
    ASSUME BaseInv, SpacedInv, Next, UNCHANGED setting
    PROVE  SpacedInv'
<1>. TypeOK /\ PendingInv /\ BatchInv
  BY DEF BaseInv
<1>0. Env' = Env /\ SteeringMode' = SteeringMode
  BY DEF Env, SteeringMode
<1>. SUFFICES ASSUME "throw" \notin Env
              PROVE  /\ pc' \notin {"failing", "settled"}
                     /\ SteeringMode = "one-at-a-time" => Spaced(Held)' /\ (MayTake' => Fresh(Held)')
  BY <1>0 DEF SpacedInv, Held
<1>1. pc \notin {"failing", "settled"}
  BY DEF SpacedInv
<1>2. pc' \notin {"failing", "settled"}
  <2>1. CASE Callers
    BY <1>1, <2>1 DEF Callers, Prompt, Continue, Begin, Steer, FollowUp, Clear, Reset, Abort
  <2>2. CASE EmitPrompt \/ FirstPoll \/ PrepareNextTurn \/ Repoll \/ Deliver \/ Request
    BY <1>1, <2>2 DEF EmitPrompt, FirstPoll, PrepareNextTurn, Repoll, Deliver, Request
  <2>3. CASE Respond \/ StartCall \/ RefuseCall \/ PrepareCall \/ NextCall \/ Launch \/ EmitResult
    BY <1>1, <2>3 DEF Respond, StartCall, RefuseCall, PrepareCall, NextCall, Launch, EmitResult
  <2>4. CASE FinishTurn \/ PollSteering \/ PollFollowUps \/ HandleRunFailure \/ FinishRun \/ Fail
    BY <1>1, <2>4 DEF FinishTurn, PollSteering, PollFollowUps, HandleRunFailure, FinishRun, Fail
  <2>5. ASSUME NEW c \in Calls, EndTool(c) PROVE pc' = pc
    BY <2>5 DEF EndTool
  <2>. QED
    BY <1>1, <2>1, <2>2, <2>3, <2>4, <2>5 DEF Next, Loop
<1>. SUFFICES ASSUME SteeringMode = "one-at-a-time"
              PROVE  Spaced(Held)' /\ (MayTake' => Fresh(Held)')
  BY <1>2
<1>. Spaced(Held) /\ (MayTake => Fresh(Held)) /\ Held \in Seq(Entries)
  BY HeldTypes DEF SpacedInv, Held
<1>3. CASE UNCHANGED <<messages, pending>> /\ (MayTake' => MayTake)
  <2>1. Held' = Held
    BY <1>3 DEF Held
  <2>. QED
    BY <1>3, <2>1, SpacedKept
<1>4. CASE Prompt
  <2>1. pending = <<>> /\ messages' = messages /\ pending' = <<User("prompt", sent + 1)>> /\ MayTake
    BY <1>4 DEF Prompt, Begin, PendingInv, MayTake
  <2>2. Held' = Held \o <<User("prompt", sent + 1)>>
    BY <2>1, HeldTypes DEF Held
  <2>3. <<User("prompt", sent + 1)>> \in Seq(Entries)
    <3>1. User("prompt", sent + 1) \in Users
      BY DEF User, Users, Sources, TypeOK
    <3>. QED
      BY <3>1, EntryTypes
  <2>. QED
    BY <2>1, <2>2, <2>3, NoSteers, SpacedKept
<1>5. CASE Continue
  <2>1. pending = <<>> /\ messages' = messages /\ MayTake /\ Held = messages
    BY <1>5, HeldTypes DEF Continue, Begin, PendingInv, MayTake
  <2>2. CASE pending' = <<>>
    BY <1>3, <2>1, <2>2
  <2>3. CASE pending' = Peek(steering, SteeringMode) /\ skipPoll' /\ pc' = "prompting"
    <3>1. ~MayTake'
      BY <2>3 DEF MayTake
    <3>2. Peek(steering, SteeringMode) \in Seq(Entries)
      <4>1. steering \in Seq(Entries)
        BY HeldTypes
      <4>. QED
        BY <4>1, QueueSplits
    <3>3. pending' = <<>> \o Peek(steering, SteeringMode) /\ <<>> \in Seq(Entries)
      BY <2>3, <3>2, ConcatEmptySeq, EmptySeq
    <3>. QED
      BY <2>1, <3>1, <3>3, NoSteers, SteerTaken
  <2>4. CASE pending' = Peek(followUps, FollowUpMode)
    <3>1. Held' = Held \o Peek(followUps, FollowUpMode)
      BY <2>1, <2>4 DEF Held
    <3>2. Peek(followUps, FollowUpMode) \in Seq(Entries) /\ NoSteer(Peek(followUps, FollowUpMode))
      <4>1. followUps \in Seq(Entries)
        BY HeldTypes
      <4>. QED
        BY <4>1, QueueSplits, PollTypes, NoSteers
    <3>. QED
      BY <2>1, <3>1, <3>2, SpacedKept
  <2>. QED
    BY <1>5, <2>2, <2>3, <2>4 DEF Continue, Begin
<1>6. CASE Steer \/ FollowUp \/ Clear \/ Abort
  BY <1>3, <1>6 DEF Steer, FollowUp, Clear, Abort, textVars, pollVars, MayTake
<1>7. CASE Reset
  <2>1. pending' = <<>> /\ messages' = <<>>
    BY <1>7 DEF Reset, PendingInv, pollVars
  <2>2. Held' = <<>>
    BY <2>1, ConcatEmptySeq, HeldTypes DEF Held
  <2>. QED
    BY <2>2, SpacedKept
<1>8. CASE EmitPrompt \/ (Deliver /\ pending # <<>>)
  <2>1. messages' = Append(messages, Head(pending)) /\ pending' = Tail(pending) /\ pending # <<>>
    BY <1>8 DEF EmitPrompt, Deliver, PendingInv
  <2>2. Held' = Held
    BY <2>1, EmitMoves, HeldTypes DEF Held
  <2>3. MayTake' => MayTake
    BY <1>8 DEF EmitPrompt, Deliver, MayTake
  <2>. QED
    BY <2>2, <2>3, SpacedKept
<1>9. CASE FirstPoll
  <2>1. pending = <<>> /\ messages' = messages /\ ~MayTake'
    BY <1>9 DEF FirstPoll, PendingInv, textVars, MayTake
  <2>2. CASE skipPoll
    BY <1>3, <1>9, <2>1, <2>2 DEF FirstPoll
  <2>3. CASE ~skipPoll
    <3>1. MayTake
      BY <1>9, <2>3 DEF FirstPoll, MayTake
    <3>2. Peek(steering, SteeringMode) \in Seq(Entries)
      <4>1. steering \in Seq(Entries)
        BY HeldTypes
      <4>. QED
        BY <4>1, QueueSplits
    <3>3. pending' = <<>> \o Peek(steering, SteeringMode) /\ <<>> \in Seq(Entries)
      BY <1>9, <2>3, <3>2, ConcatEmptySeq, EmptySeq DEF FirstPoll, TakeSteering
    <3>. QED
      BY <2>1, <3>1, <3>3, NoSteers, SteerTaken
  <2>. QED
    BY <2>2, <2>3
<1>10. CASE Repoll
  <2>1. messages' = messages /\ ~MayTake' /\ pc = "repoll"
    BY <1>10 DEF Repoll, textVars, MayTake
  <2>2. prepared \in Seq(Entries) /\ NoSteer(prepared)
    BY PreparedFirst, NoSteers DEF TypeOK
  <2>3. CASE pending = <<>>
    <3>1. MayTake /\ pending' = prepared \o Peek(steering, SteeringMode)
      BY <1>10, <2>1, <2>3 DEF Repoll, PollAgain, MayTake
    <3>. QED
      BY <2>1, <2>2, <2>3, <3>1, SteerTaken
  <2>4. CASE pending # <<>>
    <3>1. pending' = prepared \o pending
      BY <1>10, <2>4 DEF Repoll, PollAgain
    <3>2. Held' = (messages \o prepared) \o pending /\ Held = messages \o pending
      BY <2>1, <3>1, PreparedFirst DEF Held
    <3>. QED
      BY <2>1, <2>2, <3>2, HeldTypes, SpacedKept
  <2>. QED
    BY <2>3, <2>4
<1>11. CASE Respond
  <2>1. PICK x \in Replies : messages' = Append(messages, x)
    BY <1>11, ReplyAppended
  <2>2. pending = <<>> /\ pending' = <<>> /\ Held = messages
    BY <1>11, HeldTypes DEF Respond, PendingInv, pollVars
  <2>3. Held' = Append(Held, x)
    <3>1. x \in Entries /\ messages \in Seq(Entries)
      BY EntryTypes, HeldTypes
    <3>2. Append(messages, x) \in Seq(Entries)
      BY <3>1
    <3>. QED
      BY <2>1, <2>2, <3>2, ConcatEmptySeq DEF Held
  <2>. QED
    BY <2>3, SpacedKept
<1>12. CASE (NextCall /\ mode # "parallel") \/ EmitResult
  <2>1. PICK n \in DOMAIN reply.calls : messages' = Append(messages, Result(reply.calls[n]))
                                       /\ Result(reply.calls[n]) \in Entries
    BY <1>12, ResultSteps
  <2>2. pending = <<>> /\ pending' = <<>> /\ Held = messages /\ messages \in Seq(Entries)
    BY <1>12, HeldTypes DEF NextCall, EmitResult, PendingInv, pollVars
  <2>. DEFINE x == Result(reply.calls[n])
  <2>3. NoSteer(<<x>>) /\ <<x>> \in Seq(Entries)
    BY <2>1 DEF NoSteer, IsSteer, Result
  <2>. HIDE DEF x
  <2>4. Held' = Held \o <<x>>
    <3>1. messages' = messages \o <<x>> /\ messages' \in Seq(Entries)
      BY <2>1, <2>2, AppendIsConcat, AppendProperties DEF x
    <3>. QED
      BY <2>2, <3>1, ConcatEmptySeq DEF Held
  <2>5. MayTake
    BY <1>12 DEF NextCall, EmitResult, MayTake
  <2>. QED
    BY <2>3, <2>4, <2>5, SpacedKept
<1>13. CASE PollSteering
  <2>1. pending = <<>> /\ messages' = messages /\ MayTake /\ pending' = Peek(steering, SteeringMode)
        /\ pc' \in {"prepare", "follow"} /\ (pc' = "follow" => pending' = <<>>)
    BY <1>13 DEF PollSteering, TakeSteering, PendingInv, textVars, MayTake
  <2>2. Peek(steering, SteeringMode) \in Seq(Entries)
    <3>1. steering \in Seq(Entries)
      BY HeldTypes
    <3>. QED
      BY <3>1, QueueSplits
  <2>3. pending' = <<>> \o Peek(steering, SteeringMode) /\ <<>> \in Seq(Entries)
    BY <2>1, <2>2, ConcatEmptySeq, EmptySeq
  <2>4. MayTake' => Peek(steering, SteeringMode) = <<>>
    BY <2>1 DEF MayTake
  <2>. QED
    BY <2>1, <2>3, <2>4, NoSteers, SteerTaken
<1>14. CASE PollFollowUps
  <2>1. pending = <<>> /\ messages' = messages /\ MayTake /\ Held = messages
        /\ pending' = Peek(followUps, FollowUpMode)
    BY <1>14, HeldTypes DEF PollFollowUps, PendingInv, textVars, MayTake
  <2>2. Held' = Held \o Peek(followUps, FollowUpMode)
    BY <2>1 DEF Held
  <2>3. Peek(followUps, FollowUpMode) \in Seq(Entries) /\ NoSteer(Peek(followUps, FollowUpMode))
    <3>1. followUps \in Seq(Entries)
      BY HeldTypes
    <3>. QED
      BY <3>1, QueueSplits, PollTypes, NoSteers
  <2>. QED
    BY <2>1, <2>2, <2>3, SpacedKept
<1>15. CASE Fail \/ HandleRunFailure
  BY <1>1, <1>15 DEF Fail, HandleRunFailure
<1>16. CASE PrepareNextTurn \/ (Deliver /\ pending = <<>>) \/ Request
  BY <1>3, <1>16 DEF PrepareNextTurn, Deliver, Request, textVars, pollVars, MayTake
<1>17. CASE StartCall \/ RefuseCall \/ PrepareCall \/ (NextCall /\ mode = "parallel") \/ Launch
  BY <1>3, <1>17 DEF StartCall, RefuseCall, PrepareCall, NextCall, Launch, textVars, pollVars, MayTake
<1>18. CASE FinishTurn \/ FinishRun
  BY <1>1, <1>3, <1>18 DEF FinishTurn, FinishRun, textVars, pollVars, MayTake
<1>19. ASSUME NEW c \in Calls, EndTool(c) PROVE Spaced(Held)' /\ (MayTake' => Fresh(Held)')
  BY <1>3, <1>19 DEF EndTool, textVars, pollVars, MayTake
<1>. QED
  BY <1>4, <1>5, <1>6, <1>7, <1>8, <1>9, <1>10, <1>11, <1>12, <1>13, <1>14, <1>15, <1>16,
     <1>17, <1>18, <1>19 DEF Next, Callers, Loop

\* Nothing has been handed over yet.
LEMMA KeepInit == Init => KeepInv
<1>. SUFFICES ASSUME Init PROVE KeepInv
  OBVIOUS
<1>1. BaseInv
  BY BaseInit
<1>2. messages \o pending = <<>> /\ Trail(steering) = <<>> /\ Trail(followUps) = <<>>
  BY DEF Init, Trail
<1>3. Ids(<<>>) = {} /\ InOrder(<<>>) /\ Spaced(<<>>) /\ Fresh(<<>>)
  BY DEF Ids, InOrder, Spaced, Fresh
<1>4. Numbered /\ OrderInv
  BY <1>2, <1>3 DEF Init, Numbered, OrderInv
<1>5. KeptInv
  BY <1>2, <1>3 DEF Init, KeptInv
<1>6. SpacedInv
  BY <1>2, <1>3 DEF Init, SpacedInv
<1>. QED
  BY <1>1, <1>4, <1>5, <1>6 DEF KeepInv

\* Every step keeps messages in order, numbered, in place and spaced.
LEMMA KeepStep ==
    ASSUME KeepInv, [Next /\ UNCHANGED setting]_<<vars, setting>>
    PROVE  KeepInv'
<1>1. CASE Next /\ UNCHANGED setting
  BY <1>1, BaseStep, OrderStep, SpacedStep DEF KeepInv
<1>2. CASE UNCHANGED <<vars, setting>>
  <2>1. Numbered' /\ OrderInv' /\ KeptInv'
    <3>1. UNCHANGED <<messages, pending, steering, followUps, sent, forgotten, setting>>
      BY <1>2 DEF vars
    <3>2. Trail(steering)' = Trail(steering) /\ Trail(followUps)' = Trail(followUps) /\ Env' = Env
      BY <3>1 DEF Trail, Env
    <3>3. /\ Ids(Trail(steering))' = Ids(Trail(steering)) /\ InOrder(Trail(steering))' = InOrder(Trail(steering))
          /\ Ids(Trail(followUps))' = Ids(Trail(followUps)) /\ InOrder(Trail(followUps))' = InOrder(Trail(followUps))
      BY <3>2 DEF Ids, InOrder
    <3>4. Numbered'
      BY <3>1, <3>3 DEF KeepInv, Numbered
    <3>5. OrderInv'
      BY <3>3 DEF KeepInv, OrderInv
    <3>6. KeptInv'
      BY <3>1, <3>2, <3>3 DEF KeepInv, KeptInv
    <3>. QED
      BY <3>4, <3>5, <3>6
  <2>2. SpacedInv'
    BY <1>2 DEF KeepInv, SpacedInv, MayTake, Spaced, Fresh, IsSteer, Env, SteeringMode, vars
  <2>. QED
    BY <1>2, <2>1, <2>2, BaseStep DEF KeepInv
<1>. QED
  BY <1>1, <1>2

\* THEOREM.  Messages handed over are delivered in order, each once; as long as nothing
\* throws none is lost, and one-at-a-time steering lets the assistant answer each.
THEOREM MessagesDelivered == Spec => []MessagesAreKept
<1>1. ASSUME KeepInv PROVE MessagesAreKept
  <2>1. "throw" \notin Env /\ SteeringMode = "one-at-a-time" => Spaced(messages)
    <3>1. messages \in Seq(Entries) /\ pending \in Seq(Entries)
      BY <1>1, HeldTypes DEF KeepInv, BaseInv
    <3>. QED
      BY <1>1, <3>1, SpacedPrefix DEF KeepInv, SpacedInv
  <2>. QED
    BY <1>1, <2>1 DEF KeepInv, OrderInv, KeptInv, MessagesAreKept
<1>. QED
  BY <1>1, KeepInit, KeepStep, PTL DEF Spec
==============================================================================
