--------------------------- MODULE GenerationProofs ---------------------------
(***************************************************************************)
(* Proofs about one conversation, for every value of the constants of      *)
(* Generation: any callers, request ids, retry policy and response length, *)
(* and any number of stops, aborts and withdrawals.                        *)
(*                                                                         *)
(* First, that a conversation implements Turns.  Of the state, only the    *)
(* submissions and the run matter: each action leaves both alone, or adds  *)
(* one submission, or settles some.                                        *)
(*                                                                         *)
(* Then GenInv, the inductive invariant of the whole state, one of its     *)
(* parts at a time: tasks, submissions, the run, the transcript, the       *)
(* presentation and the invocation, the callers.  The safety properties of *)
(* Generation follow from it, and so does that the generation tasks        *)
(* implement TaskLifecycle.  The transcript's own invariant comes last.    *)
(***************************************************************************)
EXTENDS Generation, SequenceTheorems, FiniteSetTheorems, TLAPS

IsSeq(q) == \E S : q \in Seq(S)

IsSubmission(u) ==
    \E E, A :
        u \in [req: Requests, type: {"input", "write"},
              st: {"placed", "done", "unanswered"}, entry: E, answer: A]

OneEach(q) == \A s, t \in DOMAIN q : q[s].req = q[t].req => s = t

\* The submissions are records, one per request; a write is settled from the
\* start.
SubsOK ==
    /\ IsSeq(subs)
    /\ \A s \in DOMAIN subs : IsSubmission(subs[s])
    /\ \A s \in DOMAIN subs : subs[s].type = "write" => subs[s].st = "done"
    /\ OneEach(subs)

\* The run owns every open submission, and it has taken at most one.
RunOK ==
    /\ \A s \in DOMAIN subs : Open(s) => s \in run.inputs
    /\ \A s, q \in run.inputs : s = q

\* The inductive invariant: without it a request could be admitted twice, or
\* next to an open one.
TurnInv == SubsOK /\ RunOK

------------------------------------------------------------------------------
(* Sequences *)

\* Sequences are indexed from 1 to their length.
LEMMA SeqDomain ==
  ASSUME NEW q, IsSeq(q)
  PROVE  Len(q) \in Nat /\ DOMAIN q = 1 .. Len(q)
BY LenProperties DEF IsSeq

\* What Append() returns.
LEMMA AppendSeq ==
  ASSUME NEW q, IsSeq(q), NEW e
  PROVE  /\ IsSeq(Append(q, e))
         /\ Len(Append(q, e)) = Len(q) + 1
         /\ DOMAIN Append(q, e) = (DOMAIN q) \cup {Len(q) + 1}
         /\ Len(q) + 1 \notin DOMAIN q
         /\ \A i \in DOMAIN q : Append(q, e)[i] = q[i]
         /\ Append(q, e)[Len(q) + 1] = e
<1>1. PICK S : q \in Seq(S)
  BY DEF IsSeq
<1> DEFINE T == S \cup {e}
<1>2. q \in Seq(T) /\ e \in T
  BY <1>1, SeqMonotonic, S \subseteq T
<1>3. /\ Append(q, e) \in Seq(T)
      /\ Len(Append(q, e)) = Len(q) + 1
      /\ \A i \in 1 .. Len(q) : Append(q, e)[i] = q[i]
      /\ Append(q, e)[Len(q) + 1] = e
  BY <1>2, AppendProperties
<1>4. Len(q) \in Nat /\ DOMAIN q = 1 .. Len(q)
  BY <1>1, LenProperties
<1>5. DOMAIN Append(q, e) = 1 .. Len(q) + 1
  BY <1>3, LenProperties
<1> QED
  BY <1>3, <1>4, <1>5 DEF IsSeq

\* A function on the indices of a sequence is a sequence.
LEMMA MapSeq ==
  ASSUME NEW q, IsSeq(q), NEW f, NEW T, f \in [DOMAIN q -> T]
  PROVE  IsSeq(f)
<1>1. Len(q) \in Nat /\ DOMAIN q = 1 .. Len(q)
  BY SeqDomain
<1>2. f \in Seq(T)
  BY <1>1, SeqDef
<1> QED
  BY <1>2 DEF IsSeq

------------------------------------------------------------------------------
(* Fates *)

\* Fate(r), of the submissions given.
FateIn(q, r) ==
    LET mine == {s \in DOMAIN q : q[s].req = r}
        last == CHOOSE s \in mine : \A t \in mine : t <= s
    IN  IF mine = {} THEN "none"
        ELSE IF q[last].type = "write" THEN "written" ELSE q[last].st

FateOf(u) == IF u.type = "write" THEN "written" ELSE u.st

\* A request that was never sent has no fate.
LEMMA NoFate ==
  ASSUME NEW q, NEW r, \A s \in DOMAIN q : q[s].req # r
  PROVE  FateIn(q, r) = "none"
BY DEF FateIn

\* The fate of a request is that of its one submission.
LEMMA OnlyFate ==
  ASSUME NEW q, IsSeq(q), OneEach(q), NEW s \in DOMAIN q, NEW r, q[s].req = r
  PROVE  FateIn(q, r) = FateOf(q[s])
<1> DEFINE mine == {t \in DOMAIN q : q[t].req = r}
           last == CHOOSE t \in mine : \A x \in mine : x <= t
<1>1. mine = {s}
  BY DEF OneEach
<1>2. s <= s
  BY SeqDomain
<1>3. \E t \in mine : \A x \in mine : x <= t
  BY <1>1, <1>2
<1>4. last \in mine
  BY <1>3
<1>5. last = s
  BY <1>1, <1>4
<1>6. FateIn(q, r) =
        IF mine = {} THEN "none"
        ELSE IF q[last].type = "write" THEN "written" ELSE q[last].st
  BY DEF FateIn
<1> HIDE DEF mine, last
<1> QED
  BY <1>1, <1>5, <1>6 DEF FateOf

\* The fields of a submission.
LEMMA SubmissionFields ==
  ASSUME NEW u, IsSubmission(u)
  PROVE  /\ u.req \in Requests
         /\ u.type \in {"input", "write"}
         /\ u.st \in {"placed", "done", "unanswered"}
BY DEF IsSubmission

SettledAs(u, x, a) == [u EXCEPT !.st = x, !.answer = a]

\* What settling one leaves of them.
LEMMA SettledFields ==
  ASSUME NEW u, IsSubmission(u), NEW x \in {"done", "unanswered"}, NEW b
  PROVE  /\ IsSubmission(SettledAs(u, x, b))
         /\ SettledAs(u, x, b).req = u.req
         /\ SettledAs(u, x, b).type = u.type
         /\ SettledAs(u, x, b).st = x
<1> DEFINE w == SettledAs(u, x, b)
<1>1. PICK E, A :
        u \in [req: Requests, type: {"input", "write"},
              st: {"placed", "done", "unanswered"}, entry: E, answer: A]
  BY DEF IsSubmission
<1>2. w \in [req: Requests, type: {"input", "write"},
            st: {"placed", "done", "unanswered"}, entry: E, answer: A \cup {b}]
  BY <1>1 DEF SettledAs
<1>3. w.req = u.req /\ w.type = u.type /\ w.st = x
  BY <1>1 DEF SettledAs
<1> QED
  BY <1>2, <1>3 DEF IsSubmission

------------------------------------------------------------------------------
(* The two ways a submission changes *)

Turn == [r \in Requests |-> Fate(r)]

\* The fates before a step ...
LEMMA FatesNow == Turn = [r \in Requests |-> FateIn(subs, r)]
BY DEF Turn, Fate, FateIn

\* ... and after it.
LEMMA FatesNext == Turn' = [r \in Requests |-> FateIn(subs', r)]
BY DEF Turn, Fate, FateIn

\* Settling one open submission settles its request.
LEMMA SettlesOne ==
  ASSUME SubsOK, NEW s \in DOMAIN subs, Open(s),
         NEW x \in {"done", "unanswered"}, NEW a,
         subs' = [subs EXCEPT ![s] = SettledAs(subs[s], x, a)]
  PROVE  SubsOK' /\ Conversation!Settle(subs[s].req)
<1> DEFINE w == SettledAs(subs[s], x, a)
           r == subs[s].req
<1>1. /\ IsSubmission(w) /\ w.req = r
      /\ w.type = subs[s].type /\ w.st = x
  <2>1. IsSubmission(subs[s])
    BY DEF SubsOK
  <2> QED
    BY <2>1, SettledFields
<1>2. /\ DOMAIN subs' = DOMAIN subs
      /\ subs'[s] = w
      /\ \A t \in DOMAIN subs : t # s => subs'[t] = subs[t]
  OBVIOUS
<1> HIDE DEF w
<1>3. /\ r \in Requests
      /\ subs[s].type = "input" /\ subs[s].st = "placed"
  BY SubmissionFields DEF SubsOK, Open
<1>4. IsSeq(subs')
  <2>1. subs' \in [DOMAIN subs -> {subs'[t] : t \in DOMAIN subs}]
    OBVIOUS
  <2> QED
    BY <2>1, MapSeq DEF SubsOK
<1>5. SubsOK'
  <2>1. \A t \in DOMAIN subs : subs'[t].req = subs[t].req
    BY <1>1, <1>2
  <2>2. \A t \in DOMAIN subs : IsSubmission(subs'[t])
    BY <1>1, <1>2 DEF SubsOK
  <2>3. \A t \in DOMAIN subs : subs'[t].type = "write" => subs'[t].st = "done"
    BY <1>1, <1>2, <1>3 DEF SubsOK
  <2> QED
    BY <1>2, <1>4, <2>1, <2>2, <2>3 DEF SubsOK, OneEach
<1>. IsSeq(subs) /\ IsSeq(subs') /\ OneEach(subs) /\ OneEach(subs')
  BY <1>5 DEF SubsOK
<1>6. FateIn(subs, r) = "placed"
  <2>1. FateIn(subs, r) = FateOf(subs[s])
    BY OnlyFate
  <2> QED
    BY <1>3, <2>1 DEF FateOf
<1>7. FateIn(subs', r) = x
  <2>1. s \in DOMAIN subs' /\ subs'[s].req = r
    BY <1>1, <1>2
  <2>2. FateIn(subs', r) = FateOf(subs'[s])
    BY <2>1, OnlyFate
  <2> QED
    BY <1>1, <1>2, <1>3, <2>2 DEF FateOf
<1>8. ASSUME NEW q \in Requests, q # r
      PROVE  FateIn(subs', q) = FateIn(subs, q)
  <2>1. CASE \E t \in DOMAIN subs : subs[t].req = q
    <3>1. PICK t \in DOMAIN subs : subs[t].req = q
      BY <2>1
    <3>2. t # s /\ subs'[t] = subs[t]
      BY <1>2, <1>8, <3>1
    <3>3. FateIn(subs, q) = FateOf(subs[t])
      BY <3>1, OnlyFate
    <3>4. FateIn(subs', q) = FateOf(subs'[t])
      BY <1>2, <3>1, <3>2, OnlyFate
    <3> QED
      BY <3>2, <3>3, <3>4
  <2>2. CASE \A t \in DOMAIN subs : subs[t].req # q
    <3>1. \A t \in DOMAIN subs' : subs'[t].req # q
      BY <1>1, <1>2, <2>2
    <3> QED
      BY <2>2, <3>1, NoFate
  <2> QED
    BY <2>1, <2>2
<1>9. Turn[r] = "placed" /\ Turn' = [Turn EXCEPT ![r] = x]
  BY <1>3, <1>6, <1>7, <1>8, FatesNow, FatesNext
<1> QED
  BY <1>5, <1>9 DEF Turn, Conversation!Settle

\* Adding the first submission of a request, with none open, admits it.
LEMMA AddsOne ==
  ASSUME SubsOK, NEW r \in Requests, NEW u, IsSubmission(u), u.req = r,
         \A s \in DOMAIN subs : subs[s].req # r,
         \A s \in DOMAIN subs : ~Open(s),
         \/ u.type = "input" /\ u.st = "placed"
         \/ u.type = "write" /\ u.st = "done",
         subs' = Append(subs, u)
  PROVE  SubsOK' /\ Conversation!Admit(r)
<1> DEFINE n == Len(subs) + 1
<1>. IsSeq(subs) /\ OneEach(subs)
  BY DEF SubsOK
<1>1. /\ IsSeq(subs') /\ DOMAIN subs' = (DOMAIN subs) \cup {n}
      /\ n \notin DOMAIN subs
      /\ \A s \in DOMAIN subs : subs'[s] = subs[s]
      /\ subs'[n] = u
  BY AppendSeq
<1> HIDE DEF n
<1>2. OneEach(subs')
  BY <1>1 DEF OneEach
<1>3. SubsOK'
  <2>1. \A s \in DOMAIN subs' : IsSubmission(subs'[s])
    BY <1>1 DEF SubsOK
  <2>2. \A s \in DOMAIN subs' : subs'[s].type = "write" => subs'[s].st = "done"
    BY <1>1 DEF SubsOK
  <2> QED
    BY <1>1, <1>2, <2>1, <2>2 DEF SubsOK
<1>4. FateIn(subs, r) = "none"
  BY NoFate
<1>5. FateIn(subs', r) = FateOf(u)
  <2>1. n \in DOMAIN subs' /\ subs'[n].req = r
    BY <1>1
  <2>2. FateIn(subs', r) = FateOf(subs'[n])
    BY <1>1, <1>2, <2>1, OnlyFate
  <2> QED
    BY <1>1, <2>2
<1>6. FateOf(u) \in {"placed", "written"}
  BY DEF FateOf
<1>7. ASSUME NEW q \in Requests
      PROVE  /\ FateIn(subs, q) # "placed"
             /\ q # r => FateIn(subs', q) = FateIn(subs, q)
  <2>1. CASE \E t \in DOMAIN subs : subs[t].req = q
    <3>1. PICK t \in DOMAIN subs : subs[t].req = q
      BY <2>1
    <3>2. FateIn(subs, q) = FateOf(subs[t])
      BY <3>1, OnlyFate
    <3>3. t \in DOMAIN subs' /\ subs'[t] = subs[t]
      BY <1>1, <3>1
    <3>4. FateIn(subs', q) = FateOf(subs'[t])
      BY <1>1, <1>2, <3>1, <3>3, OnlyFate
    <3>5. FateOf(subs[t]) # "placed"
      BY <3>1 DEF FateOf, Open
    <3> QED
      BY <3>2, <3>3, <3>4, <3>5
  <2>2. CASE \A t \in DOMAIN subs : subs[t].req # q
    <3>1. FateIn(subs, q) = "none"
      BY <2>2, NoFate
    <3>2. q # r => \A t \in DOMAIN subs' : subs'[t].req # q
      BY <1>1, <2>2
    <3>3. q # r => FateIn(subs', q) = "none"
      BY <3>2, NoFate
    <3> QED
      BY <3>1, <3>3
  <2> QED
    BY <2>1, <2>2
<1>8. /\ Turn[r] = "none" /\ \A q \in Requests : Turn[q] # "placed"
      /\ Turn' = [Turn EXCEPT ![r] = FateOf(u)]
  BY <1>4, <1>5, <1>7, FatesNow, FatesNext
<1> QED
  BY <1>3, <1>6, <1>8 DEF Turn, Conversation!Admit

------------------------------------------------------------------------------
(* The actions *)

\* Only an open submission settles: a receipt stays as it is.
LEMMA SettledIs ==
  ASSUME NEW s \in DOMAIN subs, NEW how
  PROVE  Settled(s, how) = IF Open(s) THEN SettledAs(subs[s], how.st, how.answer)
                           ELSE subs[s]
BY DEF Settled, SettledAs

\* Ending a run settles the one open submission it has, if any.
LEMMA EndRunStep ==
  ASSUME TurnInv, NEW t, NEW how, how.st \in {"done", "unanswered"}, EndRun(t, how)
  PROVE  TurnInv' /\ [Conversation!Next]_Turn
<1>1. CASE run.task = t /\ \E s \in DOMAIN subs : Open(s)
  <2>1. PICK s \in DOMAIN subs : Open(s)
    BY <1>1
  <2>2. s \in run.inputs /\ \A q \in DOMAIN subs : Open(q) => q = s
    BY <2>1 DEF TurnInv, RunOK
  <2>3. subs' = [q \in DOMAIN subs |->
                   IF q \in run.inputs THEN Settled(q, how) ELSE subs[q]]
    BY <1>1 DEF EndRun
  <2>4. subs' = [subs EXCEPT ![s] = SettledAs(subs[s], how.st, how.answer)]
    <3>1. \A q \in DOMAIN subs :
            (IF q \in run.inputs THEN Settled(q, how) ELSE subs[q])
              = IF q = s THEN SettledAs(subs[s], how.st, how.answer) ELSE subs[q]
      BY <2>1, <2>2, SettledIs
    <3>2. subs = [q \in DOMAIN subs |-> subs[q]]
      BY LenProperties DEF TurnInv, SubsOK, IsSeq
    <3> QED
      BY <2>3, <3>1, <3>2
  <2>5. SubsOK' /\ Conversation!Settle(subs[s].req)
    BY <2>1, <2>4, SettlesOne DEF TurnInv
  <2>6. run' = NoRun
    BY <1>1 DEF EndRun
  <2>7. \A q \in DOMAIN subs' : subs'[q].st # "placed"
    <3>1. SettledAs(subs[s], how.st, how.answer).st = how.st
      BY SettledFields DEF TurnInv, SubsOK
    <3> QED
      BY <2>2, <2>4, <3>1 DEF Open
  <2>8. RunOK'
    BY <2>6, <2>7 DEF RunOK, NoRun, Open
  <2>9. subs[s].req \in Requests
    BY SubmissionFields DEF TurnInv, SubsOK
  <2> QED
    BY <2>5, <2>8, <2>9 DEF TurnInv, Conversation!Next
<1>2. CASE ~(run.task = t /\ \E s \in DOMAIN subs : Open(s))
  <2>1. \A q \in DOMAIN subs :
          (IF run.task = t /\ q \in run.inputs THEN Settled(q, how) ELSE subs[q])
            = subs[q]
    BY <1>2, SettledIs
  <2>2. subs = [q \in DOMAIN subs |-> subs[q]]
    BY LenProperties DEF TurnInv, SubsOK, IsSeq
  <2>3. subs' = subs
    BY <2>1, <2>2 DEF EndRun
  <2>4. SubsOK'
    BY <2>3 DEF TurnInv, SubsOK
  <2>5. RunOK'
    BY <1>2, <2>3 DEF TurnInv, RunOK, EndRun, NoRun, Open
  <2>6. Turn' = Turn
    BY <2>3, FatesNow, FatesNext
  <2> QED
    BY <2>4, <2>5, <2>6 DEF TurnInv
<1> QED
  BY <1>1, <1>2

\* A step that changes neither submissions nor run is a stutter of Turns.
LEMMA SameStep ==
  ASSUME TurnInv, UNCHANGED <<subs, run>>
  PROVE  TurnInv' /\ [Conversation!Next]_Turn
<1>1. Turn' = Turn
  BY FatesNow, FatesNext
<1> QED
  BY <1>1 DEF TurnInv, SubsOK, RunOK, Open

\* A withdrawn input settles, and its run goes on without it.
LEMMA WithdrawStep ==
  ASSUME TurnInv, NEW s \in DOMAIN subs, Withdraw(s)
  PROVE  TurnInv' /\ [Conversation!Next]_Turn
<1>. Open(s) /\ subs' = [subs EXCEPT ![s] = Settled(s, Unanswered)] /\ run' = run
  BY DEF Withdraw
<1>1. subs' = [subs EXCEPT ![s] = SettledAs(subs[s], "unanswered", 0)]
  BY SettledIs DEF Unanswered
<1>2. SubsOK' /\ Conversation!Settle(subs[s].req)
  BY <1>1, SettlesOne DEF TurnInv
<1>3. SettledAs(subs[s], "unanswered", 0).st = "unanswered"
  BY SettledFields DEF TurnInv, SubsOK
<1>4. \A q \in DOMAIN subs' : subs'[q].st = "placed" => q \in DOMAIN subs /\ Open(q)
  BY <1>1, <1>3 DEF Open
<1>5. RunOK'
  BY <1>4 DEF TurnInv, RunOK, Open
<1>6. subs[s].req \in Requests
  BY SubmissionFields DEF TurnInv, SubsOK
<1> QED
  BY <1>2, <1>5, <1>6 DEF TurnInv, Conversation!Next

\* What submit() checks: the request is new, and no input is open.
LEMMA Admissible ==
  ASSUME TurnInv, NEW c \in Callers, Known(c) = {}, ~Busy
  PROVE  /\ \A s \in DOMAIN subs : subs[s].req # Asks[c].req
         /\ \A s \in DOMAIN subs : ~Open(s)
         /\ Asks[c].req \in Requests
<1>1. run.inputs = {}
  BY DEF Busy, NoRun
<1>2. Asks[c] \in [req: Requests, type: {"input", "write"}]
  BY GenerationAssumption
<1> QED
  BY <1>1, <1>2 DEF TurnInv, RunOK, Known

\* The record submit() stores.
LEMMA SubmissionIs ==
  ASSUME NEW c \in Callers, NEW st \in {"placed", "done"}
  PROVE  /\ IsSubmission(Submission(c, st))
         /\ Submission(c, st).req = Asks[c].req
         /\ Submission(c, st).type = Asks[c].type
         /\ Submission(c, st).st = st
<1>1. Asks[c].req \in Requests /\ Asks[c].type \in {"input", "write"}
  BY GenerationAssumption
<1>2. Submission(c, st) \in
        [req: Requests, type: {"input", "write"},
         st: {"placed", "done", "unanswered"}, entry: {Len(entries) + 1}, answer: {0}]
  BY <1>1 DEF Submission
<1> QED
  BY <1>2 DEF IsSubmission, Submission

\* A write is admitted, and settled in the same commit.
LEMMA SubmitWriteStep ==
  ASSUME TurnInv, NEW c \in Callers, SubmitWrite(c)
  PROVE  TurnInv' /\ [Conversation!Next]_Turn
<1> DEFINE u == Submission(c, "done")
<1>1. /\ Known(c) = {} /\ ~Busy /\ Asks[c].type = "write"
      /\ subs' = Append(subs, u) /\ run' = run
  BY DEF SubmitWrite
<1>2. IsSubmission(u) /\ u.req = Asks[c].req /\ u.type = "write" /\ u.st = "done"
  BY <1>1, SubmissionIs
<1> HIDE DEF u
<1>3. SubsOK' /\ Conversation!Admit(Asks[c].req)
  BY <1>1, <1>2, Admissible, AddsOne DEF TurnInv
<1>4. RunOK'
  <2>1. \A s \in DOMAIN subs' : subs'[s].st # "placed"
    BY <1>1, <1>2, Admissible, AppendSeq DEF TurnInv, SubsOK, Open
  <2> QED
    BY <1>1, <2>1 DEF TurnInv, RunOK, Open
<1> QED
  BY <1>1, <1>3, <1>4, Admissible DEF TurnInv, Conversation!Next

\* An input is admitted, and taken by the run its commit creates.
LEMMA SubmitInputStep ==
  ASSUME TurnInv, NEW c \in Callers, SubmitInput(c)
  PROVE  TurnInv' /\ [Conversation!Next]_Turn
<1> DEFINE u == Submission(c, "placed")
<1>1. /\ Known(c) = {} /\ ~Busy /\ Asks[c].type = "input"
      /\ subs' = Append(subs, u) /\ run'.inputs = {Len(subs')}
  BY DEF SubmitInput
<1>2. IsSubmission(u) /\ u.req = Asks[c].req /\ u.type = "input" /\ u.st = "placed"
  BY <1>1, SubmissionIs
<1> HIDE DEF u
<1>3. SubsOK' /\ Conversation!Admit(Asks[c].req)
  BY <1>1, <1>2, Admissible, AddsOne DEF TurnInv
<1>4. RunOK'
  <2>1. /\ Len(subs') = Len(subs) + 1
        /\ DOMAIN subs' = (DOMAIN subs) \cup {Len(subs) + 1}
        /\ \A s \in DOMAIN subs : subs'[s] = subs[s]
    BY <1>1, AppendSeq DEF TurnInv, SubsOK
  <2>2. \A s \in DOMAIN subs' : subs'[s].st = "placed" => s = Len(subs')
    BY <1>1, <2>1, Admissible DEF Open
  <2> QED
    BY <1>1, <2>2 DEF RunOK, Open
<1> QED
  BY <1>1, <1>3, <1>4, Admissible DEF TurnInv, Conversation!Next

\* A scheduler outcome ends the run, unanswered.
LEMMA SchedulerEndsStep ==
  ASSUME TurnInv, NEW t, NEW author, SchedulerEnds(t, author)
  PROVE  TurnInv' /\ [Conversation!Next]_Turn
<1>1. EndRun(t, Unanswered) /\ Unanswered.st = "unanswered"
  BY DEF SchedulerEnds, Unanswered
<1> QED
  BY <1>1, EndRunStep

\* Stopping, reopening and scheduling: at most a scheduler outcome.
LEMMA ProcessStep ==
  ASSUME TurnInv,
         \/ Stop \/ Reopen
         \/ \E t \in DOMAIN tasks : Reserve(t) \/ AbortTask(t)
  PROVE  TurnInv' /\ [Conversation!Next]_Turn
<1>1. CASE Stop
  BY <1>1, SameStep DEF Stop, store
<1>2. CASE Reopen
  BY <1>2, SameStep DEF Reopen
<1>3. ASSUME NEW t \in DOMAIN tasks, Reserve(t) \/ AbortTask(t)
      PROVE  TurnInv' /\ [Conversation!Next]_Turn
  <2>1. UNCHANGED <<subs, run>> \/ SchedulerEnds(t, "orphaned")
    BY <1>3 DEF Reserve, AbortTask
  <2> QED
    BY <2>1, SameStep, SchedulerEndsStep
<1> QED
  BY <1>1, <1>2, <1>3

\* The generation task: only its outcomes touch submissions or run.
LEMMA HandlerStep ==
  ASSUME TurnInv, Handler
  PROVE  TurnInv' /\ [Conversation!Next]_Turn
<1>1. CASE NoModel \/ AbortHandler
  <2>1. EndRun(inv.task, Unanswered) /\ Unanswered.st = "unanswered"
    BY <1>1 DEF NoModel, AbortHandler, Unanswered
  <2> QED
    BY <2>1, EndRunStep
<1>2. CASE Concludes
  <2>1. EndRun(inv.task, Settlement)
    BY <1>2 DEF Concludes
  <2>2. Settlement.st \in {"done", "unanswered"}
    BY DEF Settlement, Done, Unanswered
  <2> QED
    BY <2>1, <2>2, EndRunStep
<1>3. CASE HandlerThrows
  BY <1>3, SchedulerEndsStep DEF HandlerThrows
<1>4. CASE \/ PrepareReads \/ PrepareCommits \/ RequestBegins \/ Chunk \/ Flush
           \/ FlushLands \/ FlushFails \/ StreamEnds \/ StreamResponds
           \/ PollResponds \/ Defers \/ FailsOver \/ RetryEnds \/ Unwinds
  BY <1>4, SameStep DEF PrepareReads, PrepareCommits, RequestBegins, Chunk, Flush,
     FlushLands, FlushFails, StreamEnds, StreamResponds, PollResponds, Defers,
     FailsOver, RetryEnds, Unwinds, store
<1> QED
  BY <1>1, <1>2, <1>3, <1>4 DEF Handler

\* The callers: only a first submission adds anything.
LEMMA CallerStep ==
  ASSUME TurnInv, NEW c \in Callers, Caller(c)
  PROVE  TurnInv' /\ [Conversation!Next]_Turn
<1>1. CASE Resubmit(c) \/ SubmitBusy(c) \/ Wait(c)
  BY <1>1, SameStep DEF Resubmit, SubmitBusy, Wait, store
<1> QED
  BY <1>1, SubmitWriteStep, SubmitInputStep DEF Caller

\* TurnInv is inductive, and every step is one of Turns or a stutter.
LEMMA TurnStep ==
  ASSUME TurnInv, [Next]_vars
  PROVE  TurnInv' /\ [Conversation!Next]_Turn
<1>1. CASE UNCHANGED vars
  BY <1>1, SameStep DEF vars, store
<1>2. CASE \E s \in DOMAIN subs : Withdraw(s)
  BY <1>2, WithdrawStep
<1>3. CASE \E c \in Callers : Caller(c)
  BY <1>3, CallerStep
<1> QED
  BY <1>1, <1>2, <1>3, ProcessStep, HandlerStep DEF Next

\* The empty conversation is that of Turns.
LEMMA TurnInit ==
  ASSUME Init
  PROVE  TurnInv /\ Conversation!Init
<1>1. subs = <<>> /\ run = NoRun
  BY DEF Init
<1>2. IsSeq(subs) /\ DOMAIN subs = {}
  BY <1>1, EmptySeq, SeqDomain DEF IsSeq
<1>3. TurnInv
  BY <1>1, <1>2 DEF TurnInv, SubsOK, RunOK, NoRun, OneEach
<1>4. Turn = [r \in Requests |-> "none"]
  BY <1>2, NoFate, FatesNow
<1> QED
  BY <1>3, <1>4 DEF Turn, Conversation!Init

\* The conversation implements Turns, whatever the callers, request ids and
\* retries, and whenever the process stops (submissions.ts, live.ts and
\* generation.ts together).
THEOREM TurnsAreImplemented == Spec => ImplementsTurns
<1>1. Init => TurnInv /\ Conversation!Init
  BY TurnInit
<1>2. TurnInv /\ [Next]_vars => TurnInv' /\ [Conversation!Next]_Turn
  BY TurnStep
<1> QED
  BY <1>1, <1>2, PTL DEF Spec, ImplementsTurns, Conversation!Spec, Turn

\* The promises of Turns, for the callers of a conversation.
TurnPromise == Turn \in [Requests -> Conversation!Fates] /\ Conversation!OneOpenInput

\* Admission needs that nothing is open.
LEMMA PromiseKept ==
    ASSUME TurnPromise, [Conversation!Next]_Turn
    PROVE  TurnPromise'
<1> USE DEF Conversation!Fates, Conversation!OneOpenInput, Turn
<1>1. ASSUME NEW r \in Requests, Conversation!Admit(r) PROVE TurnPromise'
  <2>1. PICK fate \in {"placed", "written"} : Turn' = [Turn EXCEPT ![r] = fate]
    BY <1>1 DEF Conversation!Admit
  <2>2. \A q \in Requests : Turn[q] # "placed"
    BY <1>1 DEF Conversation!Admit
  <2> QED
    BY <2>1, <2>2 DEF TurnPromise
<1>2. ASSUME NEW r \in Requests, Conversation!Settle(r) PROVE TurnPromise'
  <2>1. PICK fate \in {"done", "unanswered"} : Turn' = [Turn EXCEPT ![r] = fate]
    BY <1>2 DEF Conversation!Settle
  <2> QED
    BY <2>1 DEF TurnPromise
<1>3. CASE UNCHANGED Turn
  BY <1>3 DEF TurnPromise
<1> QED
  BY <1>1, <1>2, <1>3 DEF Conversation!Next

\* No step is for a request that has settled.
LEMMA FateKept ==
    ASSUME TurnPromise, Conversation!Next, NEW r \in Requests,
           Turn[r] \in {"written", "done", "unanswered"}
    PROVE  Turn'[r] = Turn[r]
<1> USE DEF Turn
<1>1. CASE \E q \in Requests : Conversation!Admit(q)
  BY <1>1 DEF Conversation!Admit, TurnPromise
<1>2. CASE \E q \in Requests : Conversation!Settle(q)
  BY <1>2 DEF Conversation!Settle, TurnPromise
<1> QED
  BY <1>1, <1>2 DEF Conversation!Next

\* THEOREM.  A conversation never has two inputs open at a time, whatever the requests
\* and however often each is sent (Submissions.submit refuses a busy one).
THEOREM OneInputAtATime == Spec => []Conversation!OneOpenInput
<1>1. Conversation!Init => TurnPromise
  BY DEF Conversation!Init, TurnPromise, Turn, Conversation!Fates, Conversation!OneOpenInput
<1>2. TurnPromise /\ [Conversation!Next]_Turn => TurnPromise'
  BY PromiseKept
<1>3. TurnPromise => Conversation!OneOpenInput
  BY DEF TurnPromise
<1> QED
  BY <1>1, <1>2, <1>3, TurnsAreImplemented, PTL DEF ImplementsTurns, Conversation!Spec, Turn

\* THEOREM.  The receipt of a settled request is permanent: sending it again can only
\* report it (settledSubmission, and the lookup by request id).
THEOREM ReceiptsAreFinal == Spec => Conversation!FateIsFinal
<1>1. Conversation!Init => TurnPromise
  BY DEF Conversation!Init, TurnPromise, Turn, Conversation!Fates, Conversation!OneOpenInput
<1>2. TurnPromise /\ [Conversation!Next]_Turn => TurnPromise'
  BY PromiseKept
<1>3. TurnPromise /\ [Conversation!Next]_Turn =>
        [\A r \in Requests :
           Turn[r] \in {"written", "done", "unanswered"} => Turn'[r] = Turn[r]]_Turn
  BY FateKept
<1> QED
  BY <1>1, <1>2, <1>3, TurnsAreImplemented, PTL
     DEF ImplementsTurns, Conversation!Spec, Conversation!FateIsFinal, Turn

------------------------------------------------------------------------------
(* Types *)

Sub == [req: Requests, type: {"input", "write"}, entry: Nat,
        st: {"placed", "done", "unanswered"}, answer: Nat]
Entry == [kind: {"user", "write", "system", "assistant"},
          stop: Endings \cup {"none", "aborted"}, chars: 0 .. MaxText]
Presented == [attempt: 0 .. MaxRetries + 1, chars: 0 .. MaxText,
              retry: BOOLEAN, poll: 0 .. MaxTime]
Task == [st: {"pending", "running", "terminal"}, cp: Checkpoint \cup {NoCheckpoint},
         mark: BOOLEAN, by: {"none", "run", "abort", "faulted", "orphaned"}]
Invocation == [task: Nat, kind: {"none", "run", "abort"}, seen: Nat,
               at: {"none", "start", "prepared", "stream", "stopping", "classify"},
               msg: Endings \cup {"none", "throw"}, timer: BOOLEAN,
               text: 0 .. MaxText, pending: 0 .. MaxText, flight: 0 .. MaxText]
Held == [at: {"idle", "held", "waiting", "served", "refused"}, sub: Nat, got: SUBSET Sub]

Types ==
    /\ subs \in Seq(Sub) /\ entries \in Seq(Entry)
    /\ run \in [task: Nat, inputs: SUBSET Nat]
    /\ gen \in Presented /\ tasks \in Seq(Task)
    /\ up \in BOOLEAN /\ enabled \in BOOLEAN /\ stale \subseteq DOMAIN tasks
    /\ inv \in Invocation /\ callers \in [Callers -> Held]
    /\ budget \in [BudgetKinds -> Nat]

\* The live task is the run's, and a conversation without a run shows nothing.
LiveIsRun ==
    /\ \A t \in DOMAIN tasks : Live(t) => Busy /\ t = run.task
    /\ Busy => run.task \in DOMAIN tasks /\ Live(run.task) /\ run.inputs \subseteq DOMAIN subs
    /\ Len(tasks) <= Len(subs)
    /\ ~Busy => gen = NoGen

\* Where a task may be.
CpOK(cp) ==
    /\ cp \in Checkpoint
    /\ cp.phase = "retry" => cp.attempt <= MaxRetries
    /\ cp.phase # "poll" => cp.at = 0

TaskOK(r) ==
    /\ r.st # "terminal" => CpOK(r.cp) /\ r.by = "none"
    /\ r.st = "terminal" => r.cp = NoCheckpoint /\ r.by # "none"

TasksOK == \A t \in DOMAIN tasks : TaskOK(tasks[t])

\* An invocation holds the run's task, in a process that is up.
HoldsRun ==
    inv # FreeInv =>
        /\ up /\ inv.task = run.task /\ Busy /\ tasks[inv.task].st = "running"
        /\ inv.kind = "abort" => inv.at = "start" /\ tasks[inv.task].mark
        /\ inv.kind \in {"run", "abort"}

\* Where the handler is fits the phase it has committed.
PhaseOK ==
    inv # FreeInv =>
        /\ inv.at # "none"
        /\ inv.at = "prepared" => Cp.phase = "prepare" /\ inv.seen = Len(entries)
        /\ inv.at \in {"stream", "stopping"} => Cp.phase = "request"
        /\ inv.at = "classify" => Cp.phase \in {"request", "poll"}
        /\ inv.at \in {"stopping", "classify"} /\ inv.msg = "deferred" => Cp.at < MaxTime

\* What streamResponse() has committed, has on the line and has pending are
\* prefixes of the response, in this order.
StreamOK ==
    inv # FreeInv =>
        /\ inv.at \in {"start", "prepared"} => inv.text = 0 /\ inv.pending = 0
        /\ inv.at \in {"start", "prepared", "classify"} => inv.flight = 0
        /\ inv.at # "stream" => ~inv.timer
        /\ inv.at \in {"stream", "stopping", "classify"} => gen.chars <= inv.text
        /\ inv.flight > 0 => gen.chars <= inv.flight /\ inv.flight <= inv.text
        /\ inv.pending > 0 =>
              gen.chars <= inv.pending /\ inv.flight <= inv.pending /\ inv.pending <= inv.text

\* A caller has the submission it waits for, or its receipt.
CallerOK(w) ==
    /\ w.at \notin {"idle", "refused"} => w.sub \in DOMAIN subs
    /\ w.at # "served" => w.got = {}
    /\ w.at = "waiting" => up /\ Open(w.sub)
    /\ w.at = "served" => w.got = {subs[w.sub]} /\ ~Open(w.sub)

CallersOK == \A c \in Callers : CallerOK(callers[c])

\* The inductive invariant of the conversation, but for its transcript.
GenInv ==
    /\ TurnInv /\ Types /\ LiveIsRun /\ TasksOK /\ HoldsRun /\ PhaseOK /\ StreamOK
    /\ PresentationMatchesTask /\ CallersOK

\* An invocation at work and the task it holds.
LEMMA AtWork ==
    ASSUME GenInv, inv # FreeInv
    PROVE  /\ inv.task = run.task /\ inv.task \in DOMAIN tasks /\ Live(inv.task) /\ Busy /\ up
           /\ tasks[inv.task].st = "running" /\ CpOK(Cp)
           /\ tasks[inv.task] \in Task
BY ElementOfSeq, LenProperties DEF GenInv, Types, LiveIsRun, TasksOK, TaskOK, HoldsRun, Live, Cp

\* Nobody holds the task otherwise.
LEMMA FreeIs ==
    /\ FreeInv.task = 0 /\ FreeInv.kind = "none" /\ FreeInv.at = "none" /\ FreeInv.timer = FALSE
    /\ FreeInv.flight = 0 /\ FreeInv.msg = "none" /\ FreeInv.pending = 0 /\ FreeInv.text = 0
    /\ FreeInv \in Invocation
BY GenerationAssumption DEF FreeInv, Invocation

\* Changing one element of a sequence.
LEMMA Replace ==
    ASSUME NEW S, NEW q \in Seq(S), NEW i \in DOMAIN q, NEW e \in S, NEW r, r = [q EXCEPT ![i] = e]
    PROVE  /\ r \in Seq(S) /\ Len(r) = Len(q) /\ DOMAIN r = DOMAIN q
           /\ r[i] = e /\ \A j \in DOMAIN q : j # i => r[j] = q[j]
BY ExceptSeq, LenProperties

\* Appending one.
LEMMA Extend ==
    ASSUME NEW S, NEW q \in Seq(S), NEW e \in S, NEW r, r = Append(q, e)
    PROVE  /\ r \in Seq(S) /\ Len(r) = Len(q) + 1 /\ Len(q) \in Nat
           /\ DOMAIN r = 1 .. Len(q) + 1 /\ DOMAIN q = 1 .. Len(q)
           /\ r[Len(q) + 1] = e /\ \A j \in DOMAIN q : r[j] = q[j]
BY AppendProperties, LenProperties

------------------------------------------------------------------------------
(* What a step does to the tasks *)

\* The ways a record changes, and what each outcome needs.
TaskStep(r, q) ==
    \/ q = [r EXCEPT !.st = "running"]
    \/ q = [r EXCEPT !.mark = TRUE]
    \/ \E cp \in Checkpoint :
          /\ q = [r EXCEPT !.cp = cp] /\ CpOK(cp) /\ r.st = "running"
          /\ cp.attempt >= r.cp.attempt
          /\ cp.phase = "poll" /\ r.cp.phase = "poll" => cp.at > r.cp.at
    \/ \E author \in {"run", "abort", "faulted", "orphaned"} :
          /\ q = [r EXCEPT !.st = "terminal", !.by = author, !.cp = NoCheckpoint]
          /\ author # "orphaned" => r.st = "running"
          /\ author = "run" => ~r.mark
          /\ author = "abort" => r.mark

\* One task at a time changes, the run's.
Moves(r) ==
    /\ Busy /\ tasks' = [tasks EXCEPT ![run.task] = r]
    /\ TaskStep(tasks[run.task], r)

NewTask == [st |-> "pending", cp |-> AtPrepare(1), mark |-> FALSE, by |-> "none"]

TasksMove ==
    \/ UNCHANGED tasks
    \/ \E r : Moves(r)
    \/ ~Busy /\ tasks' = Append(tasks, NewTask) /\ run'.task = Len(tasks) + 1
       /\ \E c \in Callers : SubmitInput(c)
    \/ Reopen

\* A change of the run's task that a record allows.
LEMMA MovesOne ==
    ASSUME Busy, NEW t, t = run.task, NEW r, tasks' = [tasks EXCEPT ![t] = r],
           TaskStep(tasks[t], r)
    PROVE  TasksMove
BY DEF TasksMove, Moves

\* A record that has changed is one again.
LEMMA TaskStepType ==
    ASSUME NEW r \in Task, TaskOK(r), NEW q, TaskStep(r, q), r.st # "terminal"
    PROVE  q \in Task /\ TaskOK(q)
<1>1. CASE q = [r EXCEPT !.st = "running"] \/ q = [r EXCEPT !.mark = TRUE]
  BY <1>1 DEF Task, TaskOK
<1>2. ASSUME NEW cp \in Checkpoint, CpOK(cp), q = [r EXCEPT !.cp = cp]
      PROVE  q \in Task /\ TaskOK(q)
  BY <1>2 DEF Task, TaskOK
<1>3. ASSUME NEW author \in {"run", "abort", "faulted", "orphaned"},
             q = [r EXCEPT !.st = "terminal", !.by = author, !.cp = NoCheckpoint]
      PROVE  q \in Task /\ TaskOK(q)
  BY <1>3 DEF Task, TaskOK
<1>. QED  BY <1>1, <1>2, <1>3 DEF TaskStep

\* The checkpoints of the phases.
LEMMA Phases ==
    /\ \A a \in 1 .. MaxRetries + 1 : CpOK(AtPrepare(a))
    /\ \A a \in 1 .. MaxRetries + 1, e \in Nat : CpOK(AtRequest(a, e))
    /\ \A a \in 1 .. MaxRetries + 1 : a <= MaxRetries => CpOK(AtRetry(a))
    /\ \A a \in 1 .. MaxRetries + 1, n \in 0 .. MaxTime : CpOK(AtPoll(a, n))
BY GenerationAssumption DEF CpOK, Checkpoint, AtPrepare, AtRequest, AtRetry, AtPoll

\* A committed checkpoint goes on from the one before.
Onward(cp) ==
    /\ CpOK(cp) /\ cp.attempt >= Cp.attempt
    /\ cp.phase = "poll" /\ Cp.phase = "poll" => cp.at > Cp.at

\* The handler steps that commit one.
LEMMA Advances ==
    ASSUME GenInv, PrepareCommits \/ Defers \/ FailsOver \/ RetryEnds
    PROVE  inv # FreeInv /\ \E cp : Onward(cp) /\ Advance(cp)
<1>1. inv # FreeInv
  BY FreeIs DEF PrepareCommits, Defers, FailsOver, RetryEnds, Classifies, Runs
<1>2. /\ CpOK(Cp) /\ Cp.attempt \in 1 .. MaxRetries + 1 /\ Cp.at \in 0 .. MaxTime
      /\ Cp.phase \in {"prepare", "request", "retry", "poll"}
      /\ MaxRetries \in Nat /\ MaxTime \in Nat
  BY <1>1, AtWork, GenerationAssumption DEF CpOK, Checkpoint
<1>3. CASE PrepareCommits
  <2>1. Len(entries') \in Nat
    <3>1. System \in Entry
      BY GenerationAssumption DEF System, Entry, Endings
    <3>2. entries' \in Seq(Entry)
      BY <1>3, <3>1, Extend DEF PrepareCommits, GenInv, Types
    <3>. QED  BY <3>2, LenProperties
  <2>2. Onward(AtRequest(Cp.attempt, Len(entries')))
    BY <1>2, <2>1, Phases DEF Onward, AtRequest
  <2>. QED  BY <1>1, <1>3, <2>2 DEF PrepareCommits
<1>4. CASE Defers
  <2>1. PICK now \in 0 .. MaxTime - 1 : Advance(AtPoll(Cp.attempt, PollAt(now)))
    BY <1>4 DEF Defers
  <2>2. Cp.at < MaxTime
    BY <1>1, <1>4 DEF Defers, Classifies, GenInv, PhaseOK
  <2>3. PollAt(now) \in 0 .. MaxTime /\ PollAt(now) > Cp.at
    BY <1>2, <2>2 DEF PollAt
  <2>4. Onward(AtPoll(Cp.attempt, PollAt(now)))
    BY <1>2, <2>3, Phases DEF Onward, AtPoll
  <2>. QED  BY <1>1, <2>1, <2>4
<1>5. CASE FailsOver
  <2>1. Onward(AtRetry(Cp.attempt))
    BY <1>2, <1>5, Phases DEF Onward, AtRetry, FailsOver, Retryable
  <2>. QED  BY <1>1, <1>5, <2>1 DEF FailsOver
<1>6. CASE RetryEnds
  <2>1. Cp.phase = "retry"
    BY <1>6 DEF RetryEnds, Runs
  <2>2. NextAttempt \in 1 .. MaxRetries + 1 /\ NextAttempt >= Cp.attempt
    BY <1>2, <2>1 DEF NextAttempt, CpOK
  <2>3. Onward(AtPrepare(NextAttempt))
    BY <2>2, Phases DEF Onward, AtPrepare
  <2>. QED  BY <1>1, <1>6, <2>3 DEF RetryEnds
<1>. QED  BY <1>3, <1>4, <1>5, <1>6

\* An outcome ends the run's task.
Ends(author, how) ==
    /\ Terminate(run.task, author) /\ EndRun(run.task, how) /\ inv' = FreeInv
    /\ UNCHANGED <<up, enabled, stale>>
    /\ author \in {"run", "abort", "faulted", "orphaned"}
    /\ author # "orphaned" => tasks[run.task].st = "running"
    /\ author = "run" => ~tasks[run.task].mark
    /\ author = "abort" => tasks[run.task].mark
    /\ how.st \in {"done", "unanswered"} /\ how.answer \in Nat
    /\ \/ entries' \in {entries, Converted} /\ how = Unanswered
       \/ /\ entries' = Response /\ how = Settlement /\ inv # FreeInv
          /\ inv.at = "classify" /\ inv.msg \in {"stop", "error", "fatal"}

Ending ==
    \/ NoModel \/ Concludes \/ AbortHandler \/ HandlerThrows
    \/ \E t \in DOMAIN tasks : (Reserve(t) \/ AbortTask(t)) /\ SchedulerEnds(t, "orphaned")

\* The steps that end a run.
LEMMA EndsIt ==
    ASSUME GenInv, Ending
    PROVE  Busy /\ \E author, how : Ends(author, how)
<1>1. ASSUME NEW t \in DOMAIN tasks, Reserve(t) \/ AbortTask(t), SchedulerEnds(t, "orphaned")
      PROVE  Busy /\ Ends("orphaned", Unanswered)
  <2>1. Live(t)
    BY <1>1 DEF Reserve, AbortTask
  <2>2. Busy /\ t = run.task
    BY <2>1 DEF GenInv, LiveIsRun
  <2>. QED  BY <1>1, <2>2 DEF Ends, SchedulerEnds, Unanswered, Reserve, AbortTask
<1>2. ASSUME NoModel \/ Concludes \/ AbortHandler \/ HandlerThrows
      PROVE  inv # FreeInv
  BY <1>2, FreeIs DEF NoModel, Concludes, AbortHandler, HandlerThrows, Runs, Classifies
<1>3. ASSUME NoModel \/ Concludes
      PROVE  inv.kind = "run" /\ ~tasks[inv.task].mark
  <2>1. inv # FreeInv /\ (inv.at # "start" \/ inv.kind = "run")
    BY <1>2, <1>3 DEF NoModel, Concludes, Runs, Classifies
  <2>2. inv.kind = "run"
    BY <1>2, <1>3, <2>1 DEF GenInv, HoldsRun
  <2>. QED  BY <1>3, <2>2 DEF NoModel, Concludes, Classifies, Gated
<1>4. Len(entries) + 1 \in Nat
  BY LenProperties DEF GenInv, Types
<1>5. CASE NoModel
  BY <1>2, <1>3, <1>5, AtWork DEF NoModel, Ends, Process, Unanswered
<1>6. CASE Concludes
  <2>1. Settlement.st \in {"done", "unanswered"} /\ Settlement.answer \in Nat
    BY <1>4 DEF Settlement, Done, Unanswered
  <2>2. inv.at = "classify" /\ inv.msg \in {"stop", "error", "fatal"}
    BY <1>6 DEF Concludes, Classifies
  <2>. QED  BY <1>2, <1>3, <1>6, <2>1, <2>2, AtWork DEF Concludes, Ends, Process
<1>7. CASE AbortHandler
  <2>1. inv # FreeInv /\ tasks[inv.task].mark
    BY <1>2, <1>7 DEF AbortHandler, GenInv, HoldsRun
  <2>. QED  BY <1>7, <2>1, AtWork DEF AbortHandler, Ends, Process, Unanswered
<1>8. CASE HandlerThrows
  BY <1>2, <1>8, AtWork DEF HandlerThrows, SchedulerEnds, Ends, Process, Unanswered
<1>. QED  BY <1>1, <1>5, <1>6, <1>7, <1>8 DEF Ending

\* The handler steps that neither commit a checkpoint nor end the run.
Works ==
    \/ PrepareReads \/ RequestBegins \/ Chunk \/ Flush \/ FlushLands \/ FlushFails
    \/ StreamEnds \/ StreamResponds \/ PollResponds \/ Unwinds

\* The steps of hosts and callers, but for first submissions.
Quiet ==
    \/ Stop
    \/ \E s \in DOMAIN subs : Withdraw(s)
    \/ \E c \in Callers : Resubmit(c) \/ SubmitBusy(c) \/ SubmitWrite(c) \/ Wait(c)

\* A task is reserved or marked.
Begins(t) == Live(t) /\ Reserve(t) /\ tasks' = [tasks EXCEPT ![t].st = "running"]
             /\ inv' = NewInv(t) /\ UNCHANGED <<subs, entries, run, gen, callers>>
Marks(t) == Live(t) /\ AbortTask(t) /\ tasks' = [tasks EXCEPT ![t].mark = TRUE]
            /\ UNCHANGED <<subs, entries, run, gen, inv, callers>>

\* The steps there are.
LEMMA StepKinds ==
    ASSUME Next
    PROVE  \/ Ending \/ Works \/ Quiet \/ Reopen
           \/ PrepareCommits \/ Defers \/ FailsOver \/ RetryEnds
           \/ \E t \in DOMAIN tasks : Begins(t) \/ Marks(t)
           \/ \E c \in Callers : SubmitInput(c)
<1>1. CASE Handler
  BY <1>1 DEF Handler, Ending, Works
<1>2. ASSUME NEW t \in DOMAIN tasks, Reserve(t)
      PROVE  Begins(t) \/ SchedulerEnds(t, "orphaned")
  BY <1>2 DEF Reserve, Begins
<1>3. ASSUME NEW t \in DOMAIN tasks, AbortTask(t)
      PROVE  Marks(t) \/ SchedulerEnds(t, "orphaned")
  BY <1>3 DEF AbortTask, Marks
<1>4. CASE Stop \/ (\E s \in DOMAIN subs : Withdraw(s))
  BY <1>4 DEF Quiet
<1>5. ASSUME NEW c \in Callers, Caller(c)
      PROVE  Quiet \/ SubmitInput(c)
  BY <1>5 DEF Caller, Quiet
<1>. QED  BY <1>1, <1>2, <1>3, <1>4, <1>5 DEF Next, Ending

\* No step changes the tasks in another way.
LEMMA TasksStep ==
    ASSUME GenInv, [Next]_vars
    PROVE  TasksMove
<1>. tasks \in Seq(Task) /\ \A t \in DOMAIN tasks : tasks[t] \in Task
  BY LenProperties, ElementOfSeq DEF GenInv, Types
<1>1. CASE Ending
  <2>1. PICK author, how : Busy /\ Ends(author, how)
    BY <1>1, EndsIt
  <2>. DEFINE t == run.task
              r == [tasks[t] EXCEPT !.st = "terminal", !.by = author, !.cp = NoCheckpoint]
  <2>2. t \in DOMAIN tasks
    BY <2>1 DEF GenInv, LiveIsRun
  <2>3. tasks' = [tasks EXCEPT ![t] = r]
    BY <2>1, <2>2 DEF Ends, Terminate
  <2>4. TaskStep(tasks[t], r)
    BY <2>1 DEF Ends, TaskStep
  <2>. HIDE DEF r
  <2>. QED  BY <2>1, <2>3, <2>4, MovesOne
<1>2. CASE PrepareCommits \/ Defers \/ FailsOver \/ RetryEnds
  <2>1. PICK cp : inv # FreeInv /\ Onward(cp) /\ Advance(cp)
    BY <1>2, Advances
  <2>. DEFINE t == inv.task
              r == [tasks[t] EXCEPT !.cp = cp]
  <2>2. t \in DOMAIN tasks /\ t = run.task /\ Busy /\ tasks[t].st = "running"
    BY <2>1, AtWork
  <2>3. tasks' = [tasks EXCEPT ![t] = r]
    BY <2>1, <2>2 DEF Advance
  <2>4. TaskStep(tasks[t], r)
    BY <2>1, <2>2 DEF TaskStep, Onward, CpOK, Cp
  <2>. HIDE DEF r, t
  <2>. QED  BY <2>2, <2>3, <2>4, MovesOne
<1>3. ASSUME NEW t \in DOMAIN tasks, Begins(t) \/ Marks(t)
      PROVE  TasksMove
  <2>1. Busy /\ t = run.task
    BY <1>3 DEF Begins, Marks, GenInv, LiveIsRun
  <2>2. CASE Begins(t)
    <3>. DEFINE r == [tasks[t] EXCEPT !.st = "running"]
    <3>1. tasks' = [tasks EXCEPT ![t] = r] /\ TaskStep(tasks[t], r)
      BY <2>2 DEF Begins, TaskStep
    <3>. HIDE DEF r
    <3>. QED  BY <2>1, <3>1, MovesOne
  <2>3. CASE Marks(t)
    <3>. DEFINE r == [tasks[t] EXCEPT !.mark = TRUE]
    <3>1. tasks' = [tasks EXCEPT ![t] = r] /\ TaskStep(tasks[t], r)
      BY <2>3 DEF Marks, TaskStep
    <3>. HIDE DEF r
    <3>. QED  BY <2>1, <3>1, MovesOne
  <2>. QED  BY <1>3, <2>2, <2>3
<1>4. ASSUME NEW c \in Callers, SubmitInput(c)
      PROVE  TasksMove
  <2>1. /\ tasks' = Append(tasks, NewTask) /\ ~Busy
        /\ run' = [task |-> Len(tasks'), inputs |-> {Len(subs')}]
    BY <1>4 DEF SubmitInput, NewTask
  <2>2. NewTask \in Task
    BY GenerationAssumption DEF NewTask, Task, Checkpoint, AtPrepare
  <2>3. Len(tasks') = Len(tasks) + 1
    BY <2>1, <2>2, Extend
  <2>. QED  BY <1>4, <2>1, <2>3 DEF TasksMove
<1>5. CASE Works
  BY <1>5 DEF Works, PrepareReads, RequestBegins, Chunk, Flush, FlushLands, FlushFails,
     StreamEnds, StreamResponds, PollResponds, Unwinds, store, TasksMove
<1>6. CASE Quiet
  BY <1>6 DEF Quiet, Stop, Withdraw, Resubmit, SubmitBusy, SubmitWrite, Wait, store, TasksMove
<1>7. CASE Reopen
  BY <1>7 DEF TasksMove
<1>8. CASE UNCHANGED vars
  BY <1>8 DEF vars, store, TasksMove
<1>. QED  BY <1>1, <1>2, <1>3, <1>4, <1>5, <1>6, <1>7, <1>8, StepKinds

------------------------------------------------------------------------------
(* The tasks and the run *)

\* A step that moves tasks leaves them tasks, and their number grows by a
\* submission's at most.
LEMMA TasksNext ==
    ASSUME GenInv, [Next]_vars
    PROVE  /\ tasks' \in Seq(Task) /\ TasksOK' /\ DOMAIN tasks \subseteq DOMAIN tasks'
           /\ \A t \in DOMAIN tasks : Live(t)' => Live(t)
           /\ \A t \in DOMAIN tasks' : t \notin DOMAIN tasks => t = run'.task
           /\ \/ Len(tasks') = Len(tasks)
              \/ Len(tasks') = Len(tasks) + 1 /\ \E c \in Callers : SubmitInput(c)
<1>. tasks \in Seq(Task) /\ (\A t \in DOMAIN tasks : tasks[t] \in Task /\ TaskOK(tasks[t]))
     /\ DOMAIN tasks = 1 .. Len(tasks) /\ Len(tasks) \in Nat
  BY LenProperties, ElementOfSeq DEF GenInv, Types, TasksOK
<1>1. CASE UNCHANGED tasks
  BY <1>1 DEF TasksOK, Live
<1>2. ASSUME NEW r, Moves(r) PROVE
           /\ tasks' \in Seq(Task) /\ TasksOK' /\ DOMAIN tasks' = DOMAIN tasks
           /\ Len(tasks') = Len(tasks)
           /\ \A t \in DOMAIN tasks : Live(t)' => Live(t)
  <2>. DEFINE t == run.task
  <2>1. t \in DOMAIN tasks /\ Live(t)
    BY <1>2 DEF Moves, GenInv, LiveIsRun
  <2>2. r \in Task /\ TaskOK(r)
    BY <1>2, <2>1, TaskStepType DEF Moves, Live
  <2>. HIDE DEF t
  <2>3. /\ tasks' \in Seq(Task) /\ Len(tasks') = Len(tasks) /\ DOMAIN tasks' = DOMAIN tasks
        /\ tasks'[t] = r /\ \A u \in DOMAIN tasks : u # t => tasks'[u] = tasks[u]
    BY <1>2, <2>1, <2>2, Replace DEF Moves, t
  <2>. QED  BY <2>1, <2>2, <2>3 DEF TasksOK, Live
<1>3. ASSUME ~Busy, tasks' = Append(tasks, NewTask), run'.task = Len(tasks) + 1,
             NEW c \in Callers, SubmitInput(c)
      PROVE  /\ tasks' \in Seq(Task) /\ TasksOK' /\ DOMAIN tasks \subseteq DOMAIN tasks'
             /\ Len(tasks') = Len(tasks) + 1
             /\ \A t \in DOMAIN tasks : Live(t)' => Live(t)
             /\ \A t \in DOMAIN tasks' : t \notin DOMAIN tasks => t = run'.task
  <2>1. NewTask \in Task
    BY GenerationAssumption DEF NewTask, Task, Checkpoint, AtPrepare
  <2>2. TaskOK(NewTask)
    BY Phases, GenerationAssumption DEF TaskOK, NewTask, AtPrepare
  <2>3. /\ tasks' \in Seq(Task) /\ Len(tasks') = Len(tasks) + 1 /\ DOMAIN tasks' = 1 .. Len(tasks) + 1
        /\ tasks'[Len(tasks) + 1] = NewTask /\ \A u \in DOMAIN tasks : tasks'[u] = tasks[u]
    BY <1>3, <2>1, Extend
  <2>. QED  BY <1>3, <2>2, <2>3 DEF TasksOK, Live
<1>4. CASE Reopen
  <2>1. /\ DOMAIN tasks' = DOMAIN tasks
        /\ \A t \in DOMAIN tasks : 
               \/ tasks'[t] = tasks[t]
               \/ tasks[t].st = "running" /\ tasks'[t] = [tasks[t] EXCEPT !.st = "pending"]
    <3>1. tasks' = [t \in DOMAIN tasks |-> IF tasks[t].st = "running"
                     THEN [tasks[t] EXCEPT !.st = "pending"] ELSE tasks[t]]
      BY <1>4 DEF Reopen
    <3>. QED  BY <3>1
  <2>2. \A t \in DOMAIN tasks : tasks'[t] \in Task /\ TaskOK(tasks'[t]) /\ (Live(t)' => Live(t))
    BY <2>1 DEF Task, TaskOK, Live
  <2>3. tasks' \in [1 .. Len(tasks) -> Task]
    BY <1>4, <2>2 DEF Reopen
  <2>4. tasks' \in Seq(Task) /\ Len(tasks') = Len(tasks)
    <3>1. tasks' \in Seq(Task)
      BY <2>3, SeqDef
    <3>. QED  BY <2>1, <3>1, LenProperties
  <2>. QED  BY <2>1, <2>2, <2>4 DEF TasksOK
<1>. QED  BY <1>1, <1>2, <1>3, <1>4, TasksStep DEF TasksMove

\* What the submissions keep: only an open one changes, and only in how it settles.
SubsKeep ==
    /\ DOMAIN subs \subseteq DOMAIN subs' /\ Len(subs') >= Len(subs)
    /\ \A s \in DOMAIN subs : /\ subs'[s].entry = subs[s].entry /\ subs'[s].type = subs[s].type
                              /\ subs'[s].req = subs[s].req
                              /\ ~Open(s) => subs'[s] = subs[s]

\* The record a submission becomes is one again.
LEMMA SettledType ==
    ASSUME NEW u \in Sub, NEW x \in {"done", "unanswered"}, NEW a \in Nat
    PROVE  /\ SettledAs(u, x, a) \in Sub /\ SettledAs(u, x, a).st = x
           /\ SettledAs(u, x, a).answer = a
           /\ SettledAs(u, x, a).entry = u.entry /\ SettledAs(u, x, a).type = u.type
           /\ SettledAs(u, x, a).req = u.req
BY DEF Sub, SettledAs

\* Ending a run settles its inputs that are open, leaves no run and nothing
\* presented, and serves who waits.
LEMMA EndedRun ==
    ASSUME GenInv, NEW author, NEW how, Ends(author, how)
    PROVE  /\ subs' \in Seq(Sub) /\ SubsKeep /\ Len(subs') = Len(subs)
           /\ DOMAIN subs' = DOMAIN subs
           /\ \A s \in DOMAIN subs : Open(s) => subs'[s] = SettledAs(subs[s], how.st, how.answer)
           /\ \A s \in DOMAIN subs : subs'[s].st # "placed"
           /\ run' = NoRun /\ gen' = NoGen /\ callers' = Published(subs')
<1>. subs \in Seq(Sub) /\ (\A s \in DOMAIN subs : subs[s] \in Sub)
     /\ DOMAIN subs = 1 .. Len(subs) /\ Len(subs) \in Nat
  BY LenProperties, ElementOfSeq DEF GenInv, Types
<1>. DEFINE new == [s \in DOMAIN subs |->
              IF s \in run.inputs THEN Settled(s, how) ELSE subs[s]]
<1>1. subs' = new /\ run' = NoRun /\ gen' = NoGen /\ callers' = Published(new)
  BY DEF Ends, EndRun
<1>2. \A s \in DOMAIN subs : Open(s) => new[s] = SettledAs(subs[s], how.st, how.answer)
  BY SettledIs DEF GenInv, TurnInv, RunOK
<1>3. \A s \in DOMAIN subs : ~Open(s) => new[s] = subs[s]
  BY SettledIs
<1>. HIDE DEF new
<1>4. DOMAIN subs' = DOMAIN subs
  BY <1>1 DEF new
<1>5. \A s \in DOMAIN subs : subs'[s] \in Sub /\ subs'[s].st # "placed"
  <2>. TAKE s \in DOMAIN subs
  <2>1. CASE Open(s)
    <3>1. subs'[s] = SettledAs(subs[s], how.st, how.answer)
      BY <1>1, <1>2, <2>1
    <3>2. how.st \in {"done", "unanswered"} /\ how.answer \in Nat
      BY DEF Ends
    <3>3. /\ SettledAs(subs[s], how.st, how.answer) \in Sub
          /\ SettledAs(subs[s], how.st, how.answer).st = how.st
      BY <3>2, SettledType
    <3>. QED  BY <3>1, <3>2, <3>3
  <2>2. CASE ~Open(s)
    BY <1>1, <1>3, <2>2 DEF Open
  <2>. QED  BY <2>1, <2>2
<1>6. subs' \in Seq(Sub) /\ Len(subs') = Len(subs)
  <2>1. subs' \in [1 .. Len(subs) -> Sub]
    BY <1>1, <1>4, <1>5 DEF new
  <2>2. subs' \in Seq(Sub)
    BY <2>1, SeqDef
  <2>. QED  BY <1>4, <2>2, LenProperties
<1>7. SubsKeep
  <2>1. \A s \in DOMAIN subs : /\ subs'[s].entry = subs[s].entry /\ subs'[s].type = subs[s].type
                               /\ subs'[s].req = subs[s].req
    <3>. TAKE s \in DOMAIN subs
    <3>1. CASE Open(s)
      <4>1. subs'[s] = SettledAs(subs[s], how.st, how.answer)
        BY <1>1, <1>2, <3>1
      <4>2. how.st \in {"done", "unanswered"} /\ how.answer \in Nat
        BY DEF Ends
      <4>3. /\ SettledAs(subs[s], how.st, how.answer).entry = subs[s].entry
            /\ SettledAs(subs[s], how.st, how.answer).type = subs[s].type
            /\ SettledAs(subs[s], how.st, how.answer).req = subs[s].req
        BY <4>2 DEF Sub, SettledAs
      <4>. QED  BY <4>1, <4>3
    <3>. QED  BY <1>1, <1>3, <3>1
  <2>. QED  BY <1>1, <1>3, <1>4, <1>6, <2>1 DEF SubsKeep
<1>. QED  BY <1>1, <1>2, <1>4, <1>5, <1>6, <1>7

\* A withdrawal settles one.
LEMMA Withdrawn ==
    ASSUME GenInv, NEW s \in DOMAIN subs, Withdraw(s)
    PROVE  /\ subs' \in Seq(Sub) /\ SubsKeep /\ Len(subs') = Len(subs)
           /\ DOMAIN subs' = DOMAIN subs
           /\ subs'[s] = SettledAs(subs[s], "unanswered", 0)
           /\ \A q \in DOMAIN subs : q # s => subs'[q] = subs[q]
<1>. subs \in Seq(Sub) /\ (\A q \in DOMAIN subs : subs[q] \in Sub)
     /\ DOMAIN subs = 1 .. Len(subs) /\ Len(subs) \in Nat
  BY LenProperties, ElementOfSeq DEF GenInv, Types
<1>1. Open(s) /\ subs' = [subs EXCEPT ![s] = SettledAs(subs[s], "unanswered", 0)]
  BY SettledIs DEF Withdraw, Unanswered
<1>2. SettledAs(subs[s], "unanswered", 0) \in Sub
  BY SettledType
<1>3. /\ subs' \in Seq(Sub) /\ Len(subs') = Len(subs) /\ DOMAIN subs' = DOMAIN subs
      /\ subs'[s] = SettledAs(subs[s], "unanswered", 0)
      /\ \A q \in DOMAIN subs : q # s => subs'[q] = subs[q]
  BY <1>1, <1>2, Replace
<1>4. /\ subs'[s].entry = subs[s].entry /\ subs'[s].type = subs[s].type
      /\ subs'[s].req = subs[s].req
  <2>1. /\ SettledAs(subs[s], "unanswered", 0).entry = subs[s].entry
        /\ SettledAs(subs[s], "unanswered", 0).type = subs[s].type
        /\ SettledAs(subs[s], "unanswered", 0).req = subs[s].req
    BY SettledType
  <2>. QED  BY <1>3, <2>1
<1>. QED  BY <1>1, <1>3, <1>4 DEF SubsKeep

\* A first submission adds its record, and an entry.
LEMMA Submitted ==
    ASSUME GenInv, NEW c \in Callers, SubmitInput(c) \/ SubmitWrite(c)
    PROVE  /\ subs' \in Seq(Sub) /\ SubsKeep /\ Len(subs') = Len(subs) + 1
           /\ DOMAIN subs' = DOMAIN subs \cup {Len(subs')} /\ Len(subs') \notin DOMAIN subs
           /\ \A s \in DOMAIN subs : subs'[s] = subs[s]
           /\ subs'[Len(subs')].entry = Len(entries) + 1
           /\ subs'[Len(subs')].type = Asks[c].type
           /\ \A s \in DOMAIN subs : ~Open(s)
           /\ ~Busy /\ inv = FreeInv /\ gen = NoGen /\ entries' \in Seq(Entry)
           /\ Holds(c, Len(subs')) /\ callers[c].at = "idle" /\ up
<1>1. PICK st \in {"placed", "done"} : subs' = Append(subs, Submission(c, st))
  BY DEF SubmitInput, SubmitWrite
<1>2. Len(entries) \in Nat /\ entries \in Seq(Entry) /\ subs \in Seq(Sub)
  BY LenProperties DEF GenInv, Types
<1>3. Submission(c, st) \in Sub
  BY <1>2, GenerationAssumption DEF Submission, Sub
<1>4. /\ subs' \in Seq(Sub) /\ Len(subs') = Len(subs) + 1 /\ Len(subs) \in Nat
      /\ DOMAIN subs' = 1 .. Len(subs) + 1 /\ DOMAIN subs = 1 .. Len(subs)
      /\ subs'[Len(subs) + 1] = Submission(c, st)
      /\ \A s \in DOMAIN subs : subs'[s] = subs[s]
  BY <1>1, <1>2, <1>3, Extend
<1>5. User \in Entry /\ Note \in Entry
  BY GenerationAssumption DEF User, Note, Entry
<1>6. entries' \in Seq(Entry)
  BY <1>2, <1>5, Extend DEF SubmitInput, SubmitWrite
<1>7. ~Busy /\ Known(c) = {} /\ Holds(c, Len(subs')) /\ callers[c].at = "idle" /\ up
  BY DEF SubmitInput, SubmitWrite, Submits
<1>8. inv = FreeInv /\ gen = NoGen /\ \A s \in DOMAIN subs : ~Open(s)
  BY <1>7, Admissible DEF GenInv, HoldsRun, LiveIsRun
<1>9. subs'[Len(subs')].entry = Len(entries) + 1 /\ subs'[Len(subs')].type = Asks[c].type
  BY <1>4 DEF Submission
<1>10. SubsKeep
  BY <1>4 DEF SubsKeep
<1>. QED  BY <1>4, <1>6, <1>7, <1>8, <1>9, <1>10

\* Every other step leaves submissions and run alone.
LEMMA Elsewhere ==
    ASSUME GenInv, [Next]_vars, ~Ending, \A s \in DOMAIN subs : ~Withdraw(s),
           \A c \in Callers : ~SubmitInput(c) /\ ~SubmitWrite(c)
    PROVE  UNCHANGED <<subs, run>>
<1>1. CASE Next
  BY <1>1, StepKinds DEF Works, Quiet, Reopen, Begins, Marks, PrepareReads, PrepareCommits,
     RequestBegins, Chunk, Flush, FlushLands, FlushFails, StreamEnds, StreamResponds,
     PollResponds, Defers, FailsOver, RetryEnds, Unwinds, Stop, Resubmit, SubmitBusy, Wait, store
<1>2. CASE UNCHANGED vars
  BY <1>2 DEF vars, store
<1>. QED  BY <1>1, <1>2

\* The submissions, in every step.
LEMMA SubsNext ==
    ASSUME GenInv, [Next]_vars
    PROVE  subs' \in Seq(Sub) /\ SubsKeep
<1>1. CASE Ending
  BY <1>1, EndsIt, EndedRun
<1>2. CASE \E s \in DOMAIN subs : Withdraw(s)
  BY <1>2, Withdrawn
<1>3. CASE \E c \in Callers : SubmitInput(c) \/ SubmitWrite(c)
  BY <1>3, Submitted
<1>4. CASE UNCHANGED subs
  <2>1. Len(subs) \in Nat
    BY LenProperties DEF GenInv, Types
  <2>. QED  BY <1>4, <2>1 DEF SubsKeep, GenInv, Types
<1>. QED  BY <1>1, <1>2, <1>3, <1>4, Elsewhere

\* The handler steps that leave the run as it is.
Goes == PrepareCommits \/ Defers \/ FailsOver \/ RetryEnds \/ Works

\* They belong to an invocation.
LEMMA GoesAtWork ==
    ASSUME Goes
    PROVE  inv # FreeInv
<1>1. \/ inv.kind = "run" \/ inv.timer \/ inv.flight > 0
      \/ inv.at \in {"start", "prepared", "stream", "stopping", "classify"}
  BY DEF Goes, Works, PrepareReads, PrepareCommits, RequestBegins, Chunk, Flush, FlushLands,
     FlushFails, StreamEnds, StreamResponds, PollResponds, Defers, FailsOver, RetryEnds, Unwinds,
     Classifies, Runs
<1>. QED  BY <1>1, FreeIs

\* Only they, and endings, touch what is presented.
LEMMA GenStays ==
    ASSUME [Next]_vars, ~Ending, ~Goes
    PROVE  gen' = gen
<1>1. CASE UNCHANGED vars
  BY <1>1 DEF vars, store
<1>. QED  BY <1>1, StepKinds DEF Goes, Quiet, Reopen, Begins, Marks, Stop, Withdraw, Resubmit,
     SubmitBusy, SubmitWrite, SubmitInput, Submits, Wait, store

\* A live task stays live until its run ends.
LEMMA StaysLive ==
    ASSUME GenInv, [Next]_vars, ~Ending, NEW t \in DOMAIN tasks, Live(t)
    PROVE  Live(t)'
<1>. tasks \in Seq(Task) /\ tasks[t] \in Task
  BY LenProperties, ElementOfSeq DEF GenInv, Types
<1>. Busy /\ t = run.task
  BY DEF GenInv, LiveIsRun
<1>1. CASE PrepareCommits \/ Defers \/ FailsOver \/ RetryEnds
  <2>1. PICK cp : inv # FreeInv /\ Advance(cp)
    BY <1>1, Advances
  <2>2. tasks'[t] = [tasks[t] EXCEPT !.cp = cp]
    BY <2>1, AtWork DEF Advance
  <2>3. tasks'[t].st = tasks[t].st
    BY <2>2 DEF Task
  <2>. QED  BY <2>3 DEF Live
<1>2. ASSUME NEW u \in DOMAIN tasks, Begins(u) \/ Marks(u)
      PROVE  Live(t)'
  <2>1. u = t
    BY <1>2 DEF Begins, Marks, GenInv, LiveIsRun
  <2>2. tasks'[t] = [tasks[t] EXCEPT !.st = "running"] \/ tasks'[t] = [tasks[t] EXCEPT !.mark = TRUE]
    BY <1>2, <2>1 DEF Begins, Marks
  <2>3. tasks'[t].st \in {"running", tasks[t].st}
    BY <2>2 DEF Task
  <2>. QED  BY <2>3 DEF Live
<1>3. ASSUME NEW c \in Callers, SubmitInput(c)
      PROVE  FALSE
  BY <1>3, Submitted
<1>4. CASE Reopen
  <2>1. tasks' = [u \in DOMAIN tasks |-> IF tasks[u].st = "running"
                     THEN [tasks[u] EXCEPT !.st = "pending"] ELSE tasks[u]]
    BY <1>4 DEF Reopen
  <2>2. tasks'[t] = IF tasks[t].st = "running" THEN [tasks[t] EXCEPT !.st = "pending"] ELSE tasks[t]
    BY <2>1
  <2>3. tasks'[t].st \in {"pending", tasks[t].st}
    BY <2>2 DEF Task
  <2>. QED  BY <2>3 DEF Live
<1>5. CASE Works
  BY <1>5 DEF Works, PrepareReads, RequestBegins, Chunk, Flush, FlushLands, FlushFails,
     StreamEnds, StreamResponds, PollResponds, Unwinds, store, Live
<1>6. CASE Quiet
  BY <1>6 DEF Quiet, Stop, Withdraw, Resubmit, SubmitBusy, SubmitWrite, Wait, store, Live
<1>7. CASE UNCHANGED vars
  BY <1>7 DEF vars, store, Live
<1>. QED  BY <1>1, <1>2, <1>3, <1>4, <1>5, <1>6, <1>7, StepKinds

\* The live task is the run's after every step.
LEMMA LiveNext ==
    ASSUME GenInv, [Next]_vars
    PROVE  LiveIsRun'
<1>. tasks \in Seq(Task) /\ Len(tasks) \in Nat /\ DOMAIN tasks = 1 .. Len(tasks)
     /\ Len(subs) \in Nat /\ DOMAIN subs = 1 .. Len(subs) /\ Len(tasks) <= Len(subs)
     /\ tasks' \in Seq(Task) /\ Len(tasks') \in Nat /\ DOMAIN tasks' = 1 .. Len(tasks')
     /\ Len(subs') \in Nat /\ DOMAIN subs' = 1 .. Len(subs')
  BY LenProperties, TasksNext, SubsNext DEF GenInv, Types, LiveIsRun
<1>1. CASE Ending
  <2>1. PICK author, how : Busy /\ Ends(author, how)
    BY <1>1, EndsIt
  <2>. DEFINE t == run.task
  <2>2. t \in DOMAIN tasks /\ Live(t) /\ \A u \in DOMAIN tasks : Live(u) => u = t
    BY <2>1 DEF GenInv, LiveIsRun
  <2>3. run' = NoRun /\ gen' = NoGen /\ Len(subs') = Len(subs)
    BY <2>1, EndedRun
  <2>4. tasks'[t].st = "terminal" /\ DOMAIN tasks' = DOMAIN tasks
    <3>. DEFINE r == [tasks[t] EXCEPT !.st = "terminal", !.by = author, !.cp = NoCheckpoint]
    <3>1. tasks' = [tasks EXCEPT ![t] = r]
      BY <2>1, <2>2 DEF Ends, Terminate
    <3>2. tasks[t] \in Task
      BY <2>2, ElementOfSeq
    <3>3. r.st = "terminal"
      BY <3>2 DEF Task
    <3>. HIDE DEF r
    <3>. QED  BY <2>2, <3>1, <3>3
  <2>5. \A u \in DOMAIN tasks' : ~Live(u)'
    BY <2>2, <2>4, TasksNext DEF Live
  <2>6. Len(tasks') = Len(tasks)
    <3>1. Len(tasks) + 1 \notin DOMAIN tasks' /\ (Len(tasks) + 1 \in 1 .. Len(tasks) + 1)
      BY <2>4
    <3>. QED  BY <3>1, TasksNext
  <2>. QED  BY <2>3, <2>5, <2>6 DEF LiveIsRun, Busy
<1>2. ASSUME NEW c \in Callers, SubmitInput(c)
      PROVE  LiveIsRun'
  <2>1. /\ Len(subs') = Len(subs) + 1 /\ ~Busy /\ gen = NoGen
    BY <1>2, Submitted
  <2>2. /\ tasks' = Append(tasks, NewTask)
        /\ run' = [task |-> Len(tasks'), inputs |-> {Len(subs')}]
    BY <1>2 DEF SubmitInput, NewTask
  <2>3. NewTask \in Task
    BY GenerationAssumption DEF NewTask, Task, Checkpoint, AtPrepare
  <2>4. /\ Len(tasks') = Len(tasks) + 1 /\ tasks'[Len(tasks) + 1] = NewTask
        /\ \A u \in DOMAIN tasks : tasks'[u] = tasks[u]
    BY <2>2, <2>3, Extend
  <2>5. \A u \in DOMAIN tasks : ~Live(u)'
    BY <2>1, <2>4 DEF GenInv, LiveIsRun, Live
  <2>6. tasks'[Len(tasks')].st # "terminal"
    BY <2>4 DEF NewTask
  <2>7. run'.task = Len(tasks') /\ run'.inputs = {Len(subs')} /\ Busy'
    BY <2>2, <2>4 DEF Busy, NoRun
  <2>8. \A u \in DOMAIN tasks' : Live(u)' => u = run'.task
    BY <2>4, <2>5, <2>7
  <2>9. Busy' => run'.task \in DOMAIN tasks' /\ Live(run.task)' /\ run'.inputs \subseteq DOMAIN subs'
    BY <2>1, <2>4, <2>6, <2>7 DEF Live
  <2>10. Len(tasks') <= Len(subs')
    BY <2>1, <2>4
  <2>. QED  BY <2>7, <2>8, <2>9, <2>10 DEF LiveIsRun
<1>3. CASE ~Ending /\ \A c \in Callers : ~SubmitInput(c)
  <2>1. run' = run
    <3>1. \A s \in DOMAIN subs : Withdraw(s) => run' = run
      BY DEF Withdraw
    <3>2. \A c \in Callers : SubmitWrite(c) => run' = run
      BY DEF SubmitWrite
    <3>. QED  BY <1>3, <3>1, <3>2, Elsewhere
  <2>2. Len(tasks') = Len(tasks) /\ Len(subs') >= Len(subs)
    BY <1>3, TasksNext, SubsNext DEF SubsKeep
  <2>3. \A t \in DOMAIN tasks : Live(t)' <=> Live(t)
    BY <1>3, TasksNext, StaysLive
  <2>4. ~Busy => gen' = NoGen
    <3>1. ASSUME ~Busy PROVE ~Goes
      BY <3>1, GoesAtWork, AtWork
    <3>. QED  BY <1>3, <3>1, GenStays DEF GenInv, LiveIsRun
  <2>. QED  BY <2>1, <2>2, <2>3, <2>4 DEF GenInv, LiveIsRun, Busy
<1>. QED  BY <1>1, <1>2, <1>3

------------------------------------------------------------------------------
(* Types *)

\* The entries a run leaves behind.
LEMMA EntryTypes ==
    ASSUME GenInv
    PROVE  /\ User \in Entry /\ Note \in Entry /\ System \in Entry
           /\ inv.msg \in Endings => Assistant(inv.msg, inv.text) \in Entry
           /\ Assistant("aborted", gen.chars) \in Entry
<1>1. User \in Entry /\ Note \in Entry /\ System \in Entry
  BY GenerationAssumption DEF User, Note, System, Entry
<1>2. inv.text \in 0 .. MaxText /\ gen.chars \in 0 .. MaxText
  BY DEF GenInv, Types, Invocation, Presented
<1>3. \A x \in Endings \cup {"aborted"}, n \in 0 .. MaxText : Assistant(x, n) \in Entry
  BY DEF Assistant, Entry
<1>. QED  BY <1>1, <1>2, <1>3

\* What a step appends to the transcript.
EntriesMove ==
    \/ UNCHANGED entries
    \/ \E e \in Entry : entries' = Append(entries, e)

\* Every step appends at most one entry.
LEMMA EntriesStep ==
    ASSUME GenInv, [Next]_vars
    PROVE  EntriesMove
<1>1. Converted = entries \/ \E e \in Entry : Converted = Append(entries, e)
  BY EntryTypes DEF Converted
<1>2. inv.msg \in Endings => \E e \in Entry : Response = Append(entries, e)
  BY EntryTypes DEF Response
<1>3. CASE Ending
  <2>1. PICK author, how : Ends(author, how)
    BY <1>3, EndsIt
  <2>2. entries' = entries \/ entries' = Converted \/ (entries' = Response /\ inv.msg \in Endings)
    BY <2>1 DEF Ends, Endings
  <2>. QED  BY <1>1, <1>2, <2>2 DEF EntriesMove
<1>4. CASE FailsOver
  <2>1. inv.msg \in Endings /\ entries' = Response
    BY <1>4 DEF FailsOver, Classifies, Endings
  <2>. QED  BY <1>2, <2>1 DEF EntriesMove
<1>5. CASE PrepareCommits
  BY <1>5, EntryTypes DEF PrepareCommits, EntriesMove
<1>6. CASE RequestBegins
  BY <1>1, <1>6 DEF RequestBegins, EntriesMove
<1>7. ASSUME NEW c \in Callers, SubmitInput(c) \/ SubmitWrite(c) PROVE EntriesMove
  BY <1>7, EntryTypes DEF SubmitInput, SubmitWrite, EntriesMove
<1>8. CASE Defers \/ RetryEnds \/ (Works /\ ~RequestBegins)
  BY <1>8 DEF Defers, RetryEnds, Works, PrepareReads, Chunk, Flush, FlushLands, FlushFails,
     StreamEnds, StreamResponds, PollResponds, Unwinds, store, EntriesMove
<1>9. CASE Quiet /\ \A c \in Callers : ~SubmitWrite(c)
  BY <1>9 DEF Quiet, Stop, Withdraw, Resubmit, SubmitBusy, Wait, store, EntriesMove
<1>10. CASE Reopen \/ UNCHANGED vars \/ \E t \in DOMAIN tasks : Begins(t) \/ Marks(t)
  BY <1>10 DEF Reopen, vars, store, Begins, Marks, EntriesMove
<1>. QED  BY <1>3, <1>4, <1>5, <1>6, <1>7, <1>8, <1>9, <1>10, StepKinds DEF Works

\* The transcript grows and keeps what it has.
LEMMA EntriesNext ==
    ASSUME GenInv, [Next]_vars
    PROVE  /\ entries' \in Seq(Entry) /\ Len(entries) \in Nat /\ Len(entries') \in Nat
           /\ DOMAIN entries = 1 .. Len(entries) /\ DOMAIN entries' = 1 .. Len(entries')
           /\ Len(entries') \in {Len(entries), Len(entries) + 1}
           /\ \A k \in DOMAIN entries : entries'[k] = entries[k]
<1>1. entries \in Seq(Entry)
  BY DEF GenInv, Types
<1>2. CASE UNCHANGED entries
  BY <1>1, <1>2, LenProperties
<1>3. ASSUME NEW e \in Entry, entries' = Append(entries, e)
      PROVE  /\ entries' \in Seq(Entry) /\ Len(entries') = Len(entries) + 1
             /\ \A k \in DOMAIN entries : entries'[k] = entries[k]
  BY <1>1, <1>3, Extend
<1>4. /\ entries' \in Seq(Entry) /\ Len(entries') \in {Len(entries), Len(entries) + 1}
      /\ \A k \in DOMAIN entries : entries'[k] = entries[k]
  BY <1>2, <1>3, EntriesStep DEF EntriesMove
<1>. QED  BY <1>1, <1>4, LenProperties

\* What a step does to the presentation and to the invocation.
LEMMA PresentedNext ==
    ASSUME GenInv, [Next]_vars
    PROVE  gen' \in Presented
<1>. gen \in Presented /\ MaxText \in Nat /\ MaxTime \in Nat /\ MaxRetries \in Nat
     /\ inv \in Invocation
  BY GenerationAssumption DEF GenInv, Types
<1>1. CASE Ending
  <2>1. gen' = NoGen
    BY <1>1, EndsIt, EndedRun
  <2>. QED  BY <2>1 DEF NoGen, Presented
<1>2. ASSUME Goes
      PROVE  Cp.attempt \in 1 .. MaxRetries + 1 /\ Cp.at \in 0 .. MaxTime /\ CpOK(Cp) /\ inv # FreeInv
  BY <1>2, GoesAtWork, AtWork DEF CpOK, Checkpoint
<1>3. ASSUME NEW a \in 1 .. MaxRetries + 1
      PROVE  /\ Attempt(a) \in Presented
             /\ [Attempt(a) EXCEPT !.retry = TRUE] \in Presented
             /\ \A n \in 0 .. MaxTime : [Attempt(a) EXCEPT !.poll = n] \in Presented
  <2>1. Attempt(a) \in Presented
    <3>1. NoGen \in Presented
      BY DEF NoGen, Presented
    <3>2. \A x \in Presented, n \in 0 .. MaxRetries + 1 : [x EXCEPT !.attempt = n] \in Presented
      BY DEF Presented
    <3>3. a \in 0 .. MaxRetries + 1
      OBVIOUS
    <3>. QED  BY <3>1, <3>2, <3>3 DEF Attempt
  <2>2. \A x \in Presented : [x EXCEPT !.retry = TRUE] \in Presented
    BY DEF Presented
  <2>3. \A x \in Presented, n \in 0 .. MaxTime : [x EXCEPT !.poll = n] \in Presented
    BY DEF Presented
  <2>. QED  BY <2>1, <2>2, <2>3
<1>4. CASE RequestBegins \/ FailsOver
  BY <1>2, <1>3, <1>4 DEF RequestBegins, FailsOver, Goes, Works
<1>5. CASE RetryEnds
  <2>1. NextAttempt \in 1 .. MaxRetries + 1
    BY <1>2, <1>5 DEF RetryEnds, Runs, CpOK, NextAttempt, Goes
  <2>. QED  BY <1>3, <1>5, <2>1 DEF RetryEnds
<1>6. CASE Defers
  <2>1. PICK now \in 0 .. MaxTime - 1 : gen' = [Attempt(Cp.attempt) EXCEPT !.poll = PollAt(now)]
    BY <1>6 DEF Defers
  <2>2. Cp.at < MaxTime
    BY <1>2, <1>6 DEF Defers, Classifies, GenInv, PhaseOK, Goes
  <2>3. PollAt(now) \in 0 .. MaxTime
    BY <1>2, <1>6, <2>2 DEF PollAt, Goes
  <2>. QED  BY <1>2, <1>3, <1>6, <2>1, <2>3 DEF Goes
<1>7. CASE FlushLands
  <2>1. inv.flight \in 0 .. MaxText
    BY DEF Invocation
  <2>2. \A n \in 0 .. MaxText, a \in 0 .. MaxRetries + 1 :
           [gen EXCEPT !.chars = n, !.attempt = a] \in Presented
    BY DEF Presented
  <2>3. gen.attempt \in 0 .. MaxRetries + 1
    BY DEF Presented
  <2>. DEFINE a == IF gen = NoGen THEN Cp.attempt ELSE gen.attempt
  <2>4. gen' = [gen EXCEPT !.chars = inv.flight, !.attempt = a]
    BY <1>7 DEF FlushLands
  <2>5. a \in 0 .. MaxRetries + 1
    BY <1>2, <1>7, <2>3 DEF Goes, Works
  <2>. HIDE DEF a
  <2>. QED  BY <2>1, <2>2, <2>4, <2>5
<1>8. CASE UNCHANGED gen
  BY <1>8
<1>9. CASE PrepareCommits \/ (Works /\ ~RequestBegins /\ ~FlushLands)
  BY <1>9 DEF PrepareCommits, Works, PrepareReads, Chunk, Flush, FlushFails, StreamEnds,
     StreamResponds, PollResponds, Unwinds, store
<1>. QED  BY <1>1, <1>4, <1>5, <1>6, <1>7, <1>8, <1>9, GenStays DEF Goes, Works

\* What the handler writes into an invocation.
LEMMA InvocationWrites ==
    ASSUME NEW x \in Invocation, NEW n \in 0 .. MaxText, NEW m \in 0 .. MaxText, NEW b \in BOOLEAN
    PROVE  /\ [x EXCEPT !.text = n, !.pending = n, !.timer = b] \in Invocation
           /\ [x EXCEPT !.timer = FALSE, !.flight = n, !.pending = m] \in Invocation
           /\ [x EXCEPT !.flight = n, !.timer = b] \in Invocation
           /\ [x EXCEPT !.at = "start", !.msg = "none", !.text = n, !.pending = m, !.timer = FALSE]
                 \in Invocation
BY DEF Invocation

\* The numbers in one.
LEMMA InvocationReads ==
    ASSUME NEW x \in Invocation
    PROVE  x.text \in 0 .. MaxText /\ x.pending \in 0 .. MaxText /\ x.flight \in 0 .. MaxText
BY DEF Invocation

\* The invocation keeps its type.
LEMMA InvocationNext ==
    ASSUME GenInv, [Next]_vars
    PROVE  inv' \in Invocation
<1>. inv \in Invocation /\ MaxText \in Nat
  BY GenerationAssumption DEF GenInv, Types
<1>1. CASE Ending \/ Unwinds \/ Stop
  <2>1. inv' = FreeInv
    BY <1>1, EndsIt DEF Ends, Unwinds, Stop
  <2>. QED  BY <2>1, FreeIs
<1>2. CASE PrepareCommits \/ Defers \/ FailsOver \/ RetryEnds
  <2>1. inv' = [inv EXCEPT !.at = "start", !.msg = "none", !.text = 0, !.pending = 0, !.timer = FALSE]
    BY <1>2, Advances DEF Advance
  <2>2. \A x \in Invocation : [x EXCEPT !.at = "start", !.msg = "none", !.text = 0, !.pending = 0,
                                 !.timer = FALSE] \in Invocation
    BY 0 \in 0 .. MaxText, FALSE \in BOOLEAN, InvocationWrites
  <2>. QED  BY <2>1, <2>2
<1>3. CASE PrepareReads
  <2>1. Len(entries) \in Nat
    BY LenProperties DEF GenInv, Types
  <2>. QED  BY <1>3, <2>1 DEF PrepareReads, Invocation
<1>4. CASE RequestBegins \/ StreamResponds
  BY <1>4 DEF RequestBegins, StreamResponds, Invocation
<1>5. CASE Chunk
  <2>. DEFINE b == inv.timer \/ inv.flight = 0
  <2>1. inv' = [inv EXCEPT !.text = inv.text + 1, !.pending = inv.text + 1, !.timer = b]
    BY <1>5 DEF Chunk
  <2>2. b \in BOOLEAN
    OBVIOUS
  <2>3. inv.text + 1 \in 0 .. MaxText
    BY <1>5, InvocationReads DEF Chunk
  <2>. DEFINE n == inv.text + 1
  <2>. HIDE DEF b, n
  <2>4. [inv EXCEPT !.text = n, !.pending = n, !.timer = b] \in Invocation
    BY <2>2, <2>3, 0 \in 0 .. MaxText, InvocationWrites DEF n
  <2>. QED  BY <2>1, <2>4 DEF n
<1>6. CASE Flush
  <2>1. inv' = [inv EXCEPT !.timer = FALSE, !.flight = inv.pending, !.pending = 0]
    BY <1>6 DEF Flush
  <2>2. [inv EXCEPT !.timer = FALSE, !.flight = inv.pending, !.pending = 0] \in Invocation
    BY InvocationReads, 0 \in 0 .. MaxText, FALSE \in BOOLEAN, InvocationWrites
  <2>. QED  BY <2>1, <2>2
<1>7. CASE FlushLands \/ FlushFails
  <2>. DEFINE b == inv.pending > 0 /\ inv.at = "stream"
  <2>1. inv' = [inv EXCEPT !.flight = 0, !.timer = b] /\ b \in BOOLEAN
    BY <1>7 DEF FlushLands, FlushFails, Flushed
  <2>. HIDE DEF b
  <2>2. [inv EXCEPT !.flight = 0, !.timer = b] \in Invocation
    BY <2>1, 0 \in 0 .. MaxText, InvocationWrites
  <2>. QED  BY <2>1, <2>2
<1>8. CASE StreamEnds
  BY <1>8 DEF StreamEnds, Invocation
<1>9. CASE PollResponds
  BY <1>9 DEF PollResponds, Invocation
<1>10. ASSUME NEW t \in DOMAIN tasks, Begins(t) \/ Marks(t)
       PROVE  inv' \in Invocation
  <2>1. t \in Nat
    BY LenProperties DEF GenInv, Types
  <2>2. NewInv(t) \in Invocation
    BY <2>1, FreeIs DEF NewInv, Invocation
  <2>. QED  BY <1>10, <2>2 DEF Begins, Marks
<1>11. CASE Quiet /\ ~Stop
  BY <1>11 DEF Quiet, Withdraw, Resubmit, SubmitBusy, SubmitWrite, Submits, Wait
<1>12. CASE Reopen \/ UNCHANGED vars \/ \E c \in Callers : SubmitInput(c)
  BY <1>12 DEF Reopen, vars, SubmitInput, Submits
<1>. QED  BY <1>1, <1>2, <1>3, <1>4, <1>5, <1>6, <1>7, <1>8, <1>9, <1>10, <1>11, <1>12, StepKinds DEF Works

------------------------------------------------------------------------------
(* Callers *)

\* What a step does to a caller.
CallerMove(w, v) ==
    \/ v = w /\ (w.at = "waiting" => up' /\ subs'[w.sub].st = "placed")
    \/ v = Idle
    \/ w.at = "idle" /\ v = [w EXCEPT !.at = "refused"]
    \/ w.at = "idle" /\ \E s \in DOMAIN subs' : v = [w EXCEPT !.at = "held", !.sub = s]
    \/ w.at = "held" /\ up' /\ subs' = subs /\ Open(w.sub) /\ v = [w EXCEPT !.at = "waiting"]
    \/ /\ w.at \in {"waiting", "held"} /\ subs'[w.sub].st # "placed"
       /\ v = [w EXCEPT !.at = "served", !.got = {subs'[w.sub]}]

\* Each of these leaves the caller with what it waits for, or its receipt.
LEMMA CallerMoves ==
    ASSUME SubsKeep, subs' \in Seq(Sub), NEW w \in Held, CallerOK(w), NEW v, CallerMove(w, v)
    PROVE  v \in Held /\ CallerOK(v)'
<1>. \A s \in DOMAIN subs' : subs'[s] \in Sub /\ s \in Nat
  BY ElementOfSeq, LenProperties
<1>1. ASSUME v = w, w.at = "waiting" => up' /\ subs'[w.sub].st = "placed"
      PROVE  v \in Held /\ CallerOK(v)'
  BY <1>1 DEF CallerOK, SubsKeep, Open
<1>2. CASE v = Idle
  BY <1>2 DEF Idle, Held, CallerOK
<1>3. ASSUME w.at = "idle", v = [w EXCEPT !.at = "refused"]
      PROVE  v \in Held /\ CallerOK(v)'
  <2>1. v \in Held /\ v.at = "refused" /\ v.got = w.got
    BY <1>3 DEF Held
  <2>. QED  BY <1>3, <2>1 DEF CallerOK
<1>4. ASSUME w.at = "idle", NEW s \in DOMAIN subs', v = [w EXCEPT !.at = "held", !.sub = s]
      PROVE  v \in Held /\ CallerOK(v)'
  <2>1. v \in Held /\ v.at = "held" /\ v.got = w.got /\ v.sub = s
    BY <1>4 DEF Held
  <2>. QED  BY <1>4, <2>1 DEF CallerOK
<1>5. ASSUME w.at = "held", up', subs' = subs, Open(w.sub), v = [w EXCEPT !.at = "waiting"]
      PROVE  v \in Held /\ CallerOK(v)'
  <2>1. v \in Held /\ v.at = "waiting" /\ v.got = w.got /\ v.sub = w.sub
    BY <1>5 DEF Held
  <2>. QED  BY <1>5, <2>1 DEF CallerOK, Open
<1>6. ASSUME w.at \in {"waiting", "held"}, subs'[w.sub].st # "placed",
             v = [w EXCEPT !.at = "served", !.got = {subs'[w.sub]}]
      PROVE  v \in Held /\ CallerOK(v)'
  <2>1. w.sub \in DOMAIN subs'
    BY <1>6 DEF CallerOK, SubsKeep
  <2>2. {subs'[w.sub]} \in SUBSET Sub
    BY <2>1
  <2>3. v \in Held /\ v.at = "served" /\ v.got = {subs'[w.sub]} /\ v.sub = w.sub
    BY <1>6, <2>2 DEF Held
  <2>. QED  BY <1>6, <2>1, <2>3 DEF CallerOK, Open
<1>. QED  BY <1>1, <1>2, <1>3, <1>4, <1>5, <1>6 DEF CallerMove

\* A publication serves exactly those whose submission has settled.
LEMMA PublishedMoves ==
    ASSUME GenInv, callers' = Published(subs'), up' = up, NEW c \in Callers
    PROVE  CallerMove(callers[c], callers'[c])
<1>. DEFINE w == callers[c]
<1>1. w \in Held /\ CallerOK(w)
  BY DEF GenInv, Types, CallersOK
<1>2. callers'[c] = IF w.at = "waiting" /\ subs'[w.sub].st # "placed"
                    THEN [w EXCEPT !.at = "served", !.got = {subs'[w.sub]}] ELSE w
  BY DEF Published
<1>3. w.at = "waiting" => up
  BY <1>1 DEF CallerOK
<1>. HIDE DEF w
<1>4. CallerMove(w, callers'[c])
  BY <1>2, <1>3 DEF CallerMove
<1>. QED  BY <1>4 DEF w

\* Callers that nobody touches stay well off while the submissions stay.
LEMMA SameCallers ==
    ASSUME GenInv, callers' = callers, up => up', NEW c \in Callers,
           \A s \in DOMAIN subs : subs'[s] = subs[s]
    PROVE  CallerMove(callers[c], callers'[c])
<1>1. CallerOK(callers[c])
  BY DEF GenInv, CallersOK
<1>. QED  BY <1>1 DEF CallerOK, CallerMove, Open

\* Every step moves each caller so.
LEMMA EveryCaller ==
    ASSUME GenInv, [Next]_vars, NEW c \in Callers
    PROVE  CallerMove(callers[c], callers'[c])
<1>. callers \in [Callers -> Held] /\ \A d \in Callers : callers[d] \in Held /\ CallerOK(callers[d])
  BY DEF GenInv, Types, CallersOK
<1>1. CASE Ending
  <2>1. PICK author, how : Ends(author, how)
    BY <1>1, EndsIt
  <2>2. callers' = Published(subs') /\ up' = up
    BY <2>1, EndedRun DEF Ends
  <2>. QED  BY <2>2, PublishedMoves
<1>2. ASSUME NEW s \in DOMAIN subs, Withdraw(s)
      PROVE  CallerMove(callers[c], callers'[c])
  BY <1>2, PublishedMoves DEF Withdraw
<1>3. CASE Stop
  <2>1. /\ callers' = [d \in Callers |->
               IF callers[d].at \in {"held", "waiting"} THEN Idle ELSE callers[d]]
        /\ subs' = subs
    BY <1>3 DEF Stop, store
  <2>2. callers'[c] = IF callers[c].at \in {"held", "waiting"} THEN Idle ELSE callers[c]
    BY <2>1
  <2>. QED  BY <2>2 DEF CallerMove
<1>4. ASSUME NEW d \in Callers, SubmitInput(d) \/ SubmitWrite(d)
      PROVE  CallerMove(callers[c], callers'[c])
  <2>1. /\ DOMAIN subs' = DOMAIN subs \cup {Len(subs')}
        /\ \A s \in DOMAIN subs : subs'[s] = subs[s]
        /\ Holds(d, Len(subs')) /\ callers[d].at = "idle"
    BY <1>4, Submitted
  <2>2. up' = up
    BY <1>4 DEF SubmitInput, SubmitWrite, Submits
  <2>3. callers' = [callers EXCEPT ![d] = [callers[d] EXCEPT !.at = "held", !.sub = Len(subs')]]
    BY <2>1 DEF Holds
  <2>4. CASE c = d
    BY <2>1, <2>3, <2>4 DEF CallerMove
  <2>5. CASE c # d
    BY <2>1, <2>2, <2>3, <2>5 DEF CallerMove, CallerOK, Open
  <2>. QED  BY <2>4, <2>5
<1>5. ASSUME NEW d \in Callers, Resubmit(d)
      PROVE  CallerMove(callers[c], callers'[c])
  <2>1. callers[d].at = "idle" /\ subs' = subs /\ up' = up
    BY <1>5 DEF Resubmit, Submits, store
  <2>2. \/ \E s \in DOMAIN subs : callers' = [callers EXCEPT ![d] = [callers[d] EXCEPT !.at = "held", !.sub = s]]
        \/ callers' = [callers EXCEPT ![d] = [callers[d] EXCEPT !.at = "refused"]]
    BY <1>5 DEF Resubmit, Holds, Known
  <2>3. CASE c = d
    BY <2>1, <2>2, <2>3 DEF CallerMove
  <2>4. CASE c # d
    BY <2>1, <2>2, <2>4 DEF CallerMove, CallerOK, Open
  <2>. QED  BY <2>3, <2>4
<1>6. ASSUME NEW d \in Callers, Wait(d)
      PROVE  CallerMove(callers[c], callers'[c])
  <2>1. /\ callers[d].at = "held" /\ subs' = subs /\ up' = up /\ up
        /\ callers' = [callers EXCEPT ![d] = Registers(d)]
    BY <1>6 DEF Wait, store
  <2>2. CASE c = d
    BY <2>1, <2>2 DEF CallerMove, Registers, Open
  <2>3. CASE c # d
    BY <2>1, <2>3 DEF CallerMove, CallerOK, Open
  <2>. QED  BY <2>2, <2>3
<1>7. CASE /\ ~Ending /\ ~Stop /\ \A s \in DOMAIN subs : ~Withdraw(s)
           /\ \A d \in Callers : ~SubmitInput(d) /\ ~SubmitWrite(d) /\ ~Resubmit(d) /\ ~Wait(d)
  <2>1. subs' = subs
    BY <1>7, Elsewhere
  <2>2. ASSUME Goes PROVE callers' = callers /\ up' = up
    BY <2>2 DEF Goes, Works, PrepareReads, PrepareCommits, RequestBegins, Chunk, Flush, FlushLands,
       FlushFails, StreamEnds, StreamResponds, PollResponds, Defers, FailsOver, RetryEnds, Unwinds,
       Process
  <2>3. ASSUME NEW t \in DOMAIN tasks, Begins(t) \/ Marks(t) PROVE callers' = callers /\ up' = up
    BY <2>3 DEF Begins, Marks, Reserve, AbortTask
  <2>4. ASSUME Reopen PROVE callers' = callers /\ up' = TRUE
    BY <2>4 DEF Reopen
  <2>5. ASSUME Quiet PROVE callers' = callers /\ up' = up
    BY <1>7, <2>5 DEF Quiet, SubmitBusy, Submits
  <2>6. CASE Next
    <3>1. Goes \/ Quiet \/ Reopen \/ \E t \in DOMAIN tasks : Begins(t) \/ Marks(t)
      BY <1>7, <2>6, StepKinds DEF Goes
    <3>2. callers' = callers /\ (up' = up \/ up' = TRUE)
      BY <2>2, <2>3, <2>4, <2>5, <3>1
    <3>. QED  BY <2>1, <3>2, SameCallers
  <2>7. CASE UNCHANGED vars
    <3>1. callers' = callers /\ up' = up
      BY <2>7 DEF vars
    <3>. QED  BY <2>1, <3>1, SameCallers
  <2>. QED  BY <2>6, <2>7
<1>. QED  BY <1>1, <1>2, <1>3, <1>4, <1>5, <1>6, <1>7

\* Nobody joins the callers.
LEMMA CallersAreThere ==
    ASSUME GenInv, [Next]_vars
    PROVE  callers' = [c \in Callers |-> callers'[c]]
<1>. callers \in [Callers -> Held]
  BY DEF GenInv, Types
<1>1. CASE Ending \/ \E s \in DOMAIN subs : Withdraw(s)
  <2>1. callers' = Published(subs')
    BY <1>1, EndsIt, EndedRun DEF Withdraw
  <2>. QED  BY <2>1 DEF Published
<1>2. CASE Stop
  <2>1. callers' = [d \in Callers |->
               IF callers[d].at \in {"held", "waiting"} THEN Idle ELSE callers[d]]
    BY <1>2 DEF Stop
  <2>. QED  BY <2>1
<1>3. ASSUME NEW d \in Callers, SubmitInput(d) \/ SubmitWrite(d)
      PROVE  callers' = [c \in Callers |-> callers'[c]]
  BY <1>3, Submitted DEF Holds
<1>4. ASSUME NEW d \in Callers, Resubmit(d) \/ Wait(d)
      PROVE  callers' = [c \in Callers |-> callers'[c]]
  BY <1>4 DEF Resubmit, Holds, Wait
<1>5. CASE /\ ~Ending /\ ~Stop /\ \A s \in DOMAIN subs : ~Withdraw(s)
           /\ \A d \in Callers : ~SubmitInput(d) /\ ~SubmitWrite(d) /\ ~Resubmit(d) /\ ~Wait(d)
  <2>1. callers' = callers
    BY <1>5, StepKinds DEF Works, Quiet, Reopen, Begins, Marks, PrepareReads, PrepareCommits,
     RequestBegins, Chunk, Flush, FlushLands, FlushFails, StreamEnds, StreamResponds, Reserve, AbortTask,
     PollResponds, Defers, FailsOver, RetryEnds, Unwinds, SubmitBusy, Submits, Process, store, vars
  <2>. QED  BY <2>1
<1>. QED  BY <1>1, <1>2, <1>3, <1>4, <1>5

\* The callers, after every step.
LEMMA CallersNext ==
    ASSUME GenInv, [Next]_vars
    PROVE  callers' \in [Callers -> Held] /\ CallersOK'
<1>1. ASSUME NEW c \in Callers
      PROVE  callers'[c] \in Held /\ CallerOK(callers[c])'
  <2>1. PICK w, v : w = callers[c] /\ v = callers'[c]
    OBVIOUS
  <2>2. w \in Held /\ CallerOK(w) /\ CallerMove(w, v)
    BY <2>1, EveryCaller DEF GenInv, Types, CallersOK
  <2>3. v \in Held /\ CallerOK(v)'
    BY <2>2, SubsNext, CallerMoves
  <2>. QED  BY <2>1, <2>3 DEF CallerOK
<1>2. callers' \in [Callers -> Held]
  BY <1>1, CallersAreThere
<1>. QED  BY <1>1, <1>2 DEF CallersOK

------------------------------------------------------------------------------
(* The invocation and what is presented *)

\* The presentation fits a checkpoint.
Shows(cp) ==
    gen # NoGen =>
        /\ gen.attempt = cp.attempt /\ gen.retry = (cp.phase = "retry") /\ gen.poll = cp.at
        /\ gen.chars > 0 => cp.phase = "request"

\* PresentationMatchesTask is about the run's task.
LEMMA ShowsIs ==
    ASSUME LiveIsRun
    PROVE  PresentationMatchesTask <=> (Busy => Shows(tasks[run.task].cp))
BY DEF LiveIsRun, PresentationMatchesTask, Shows, Busy

\* The same, after a step.
LEMMA ShowsNext ==
    ASSUME LiveIsRun', Busy' => Shows(tasks[run.task].cp)'
    PROVE  PresentationMatchesTask'
BY DEF LiveIsRun, PresentationMatchesTask, Shows, Busy, Live

\* What the handler relies on.
AtRun == HoldsRun /\ PhaseOK /\ StreamOK /\ PresentationMatchesTask

\* Without an invocation only the presentation counts.
LEMMA FreeAtRun ==
    ASSUME LiveIsRun', inv' = FreeInv, Busy' => Shows(tasks[run.task].cp)'
    PROVE  AtRun'
BY ShowsNext DEF AtRun, HoldsRun, PhaseOK, StreamOK

\* A step that leaves invocation and presentation alone, and of the task at most
\* adds the mark.
LEMMA SameAtRun ==
    ASSUME GenInv, [Next]_vars, UNCHANGED <<inv, gen, run>>, inv # FreeInv => up' /\ entries' = entries,
           Busy => /\ tasks'[run.task].cp = tasks[run.task].cp
                   /\ tasks[run.task].mark => tasks'[run.task].mark
                   /\ inv # FreeInv => tasks'[run.task].st = tasks[run.task].st
    PROVE  AtRun'
<1>1. LiveIsRun'
  BY LiveNext
<1>2. Busy' => Shows(tasks[run.task].cp)'
  BY ShowsIs DEF GenInv, Shows, Busy
<1>3. PresentationMatchesTask'
  BY <1>1, <1>2, ShowsNext
<1>4. HoldsRun'
  BY DEF GenInv, HoldsRun, Busy
<1>5. PhaseOK'
  <2>1. inv # FreeInv => inv.task = run.task /\ Busy
    BY DEF GenInv, HoldsRun
  <2>. QED  BY <2>1 DEF GenInv, PhaseOK, Cp
<1>6. StreamOK'
  BY DEF GenInv, StreamOK
<1>. QED  BY <1>3, <1>4, <1>5, <1>6 DEF AtRun

\* A step of the handler that goes on holding its task.
LEMMA KeepsHold ==
    ASSUME GenInv, inv # FreeInv, inv'.task = inv.task, inv'.kind = inv.kind, inv'.at # "none",
           inv.at # inv'.at => inv.kind = "run", run' = run, up' = up,
           tasks'[inv.task].st = "running", tasks'[inv.task].mark = tasks[inv.task].mark
    PROVE  HoldsRun'
BY DEF GenInv, HoldsRun, Busy

\* The steps that work on the response.
LEMMA WorksKeep ==
    ASSUME GenInv, [Next]_vars, Works, ~Unwinds
    PROVE  AtRun'
<1>. /\ inv \in Invocation /\ gen \in Presented /\ inv # FreeInv
     /\ HoldsRun /\ PhaseOK /\ StreamOK /\ Busy /\ run.task = inv.task /\ up
     /\ Shows(Cp) /\ LiveIsRun' /\ CpOK(Cp)
  <2>1. inv # FreeInv
    BY GoesAtWork DEF Goes
  <2>2. Shows(Cp)
    BY <2>1, AtWork, ShowsIs DEF GenInv, Cp
  <2>. QED  BY <2>1, <2>2, AtWork, LiveNext DEF GenInv, Types
<1>. /\ run' = run /\ up' = up /\ tasks' = tasks /\ Busy'
  BY DEF Works, PrepareReads, RequestBegins, Chunk, Flush, FlushLands,
       FlushFails, StreamEnds, StreamResponds, PollResponds, Process, store, Busy
<1>. inv.text \in Nat /\ inv.pending \in Nat /\ inv.flight \in Nat /\ gen.chars \in Nat
     /\ MaxText \in Nat
  BY GenerationAssumption DEF Invocation, Presented
<1>1. inv.at # "start" \/ inv.kind = "run" => inv.kind = "run"
  BY DEF HoldsRun
<1>2. ASSUME gen' = gen
      PROVE  PresentationMatchesTask'
  BY <1>2, ShowsNext DEF Shows, Cp
<1>3. ASSUME inv'.task = inv.task, inv'.kind = inv.kind, inv'.at # "none",
             inv.at # inv'.at => inv.kind = "run"
      PROVE  HoldsRun'
  BY <1>3, AtWork, KeepsHold
<1>4. CASE PrepareReads
  <2>1. inv' = [inv EXCEPT !.at = "prepared", !.seen = Len(entries)] /\ gen' = gen
        /\ entries' = entries /\ inv.at = "start" /\ inv.kind = "run" /\ Cp.phase = "prepare"
    BY <1>4 DEF PrepareReads, Runs, store
  <2>2. /\ inv'.task = inv.task /\ inv'.kind = inv.kind /\ inv'.at = "prepared"
        /\ inv'.seen = Len(entries) /\ inv'.text = inv.text /\ inv'.pending = inv.pending
        /\ inv'.flight = inv.flight /\ inv'.timer = inv.timer
    BY <2>1 DEF Invocation
  <2>3. HoldsRun' /\ PresentationMatchesTask'
    BY <1>2, <1>3, <2>1, <2>2
  <2>4. PhaseOK'
    BY <2>1, <2>2 DEF PhaseOK, Cp
  <2>5. StreamOK'
    BY <2>1, <2>2 DEF StreamOK
  <2>. QED  BY <2>3, <2>4, <2>5 DEF AtRun
<1>5. CASE RequestBegins
  <2>1. inv' = [inv EXCEPT !.at = "stream"] /\ gen' = Attempt(Cp.attempt)
        /\ inv.at = "start" /\ inv.kind = "run" /\ Cp.phase = "request"
    BY <1>5 DEF RequestBegins, Runs
  <2>2. /\ inv'.task = inv.task /\ inv'.kind = inv.kind /\ inv'.at = "stream"
        /\ inv'.text = inv.text /\ inv'.pending = inv.pending
        /\ inv'.flight = inv.flight /\ inv'.timer = inv.timer
    BY <2>1 DEF Invocation
  <2>3. gen'.chars = 0 /\ gen'.attempt = Cp.attempt /\ gen'.retry = FALSE /\ gen'.poll = 0
    BY <2>1 DEF Attempt, NoGen
  <2>4. HoldsRun'
    BY <1>3, <2>1, <2>2
  <2>5. PresentationMatchesTask'
    BY <2>1, <2>3, ShowsNext DEF Shows, Cp, CpOK
  <2>6. PhaseOK'
    BY <2>1, <2>2 DEF PhaseOK, Cp
  <2>7. StreamOK'
    BY <2>1, <2>2, <2>3 DEF StreamOK
  <2>. QED  BY <2>4, <2>5, <2>6, <2>7 DEF AtRun
<1>6. CASE Chunk
  <2>. DEFINE b == inv.timer \/ inv.flight = 0
  <2>1. inv' = [inv EXCEPT !.text = inv.text + 1, !.pending = inv.text + 1, !.timer = b] /\ gen' = gen
        /\ inv.at = "stream"
    BY <1>6 DEF Chunk, store
  <2>. HIDE DEF b
  <2>2. /\ inv'.task = inv.task /\ inv'.kind = inv.kind /\ inv'.at = "stream"
        /\ inv'.text = inv.text + 1 /\ inv'.pending = inv.text + 1
        /\ inv'.flight = inv.flight
    BY <2>1 DEF Invocation
  <2>3. HoldsRun' /\ PresentationMatchesTask'
    BY <1>2, <1>3, <2>1, <2>2
  <2>4. PhaseOK'
    BY <2>1, <2>2 DEF PhaseOK, Cp
  <2>5. StreamOK'
    BY <2>1, <2>2 DEF StreamOK
  <2>. QED  BY <2>3, <2>4, <2>5 DEF AtRun
<1>7. CASE Flush
  <2>1. inv' = [inv EXCEPT !.timer = FALSE, !.flight = inv.pending, !.pending = 0] /\ gen' = gen
        /\ inv.timer
    BY <1>7 DEF Flush, store
  <2>2. inv.at = "stream"
    BY <2>1 DEF StreamOK
  <2>3. /\ inv'.task = inv.task /\ inv'.kind = inv.kind /\ inv'.at = "stream"
        /\ inv'.text = inv.text /\ inv'.pending = 0
        /\ inv'.flight = inv.pending
    BY <2>1, <2>2 DEF Invocation
  <2>4. HoldsRun' /\ PresentationMatchesTask'
    BY <1>2, <1>3, <2>1, <2>2, <2>3
  <2>5. PhaseOK'
    BY <2>2, <2>3 DEF PhaseOK, Cp
  <2>6. StreamOK'
    BY <2>1, <2>2, <2>3 DEF StreamOK
  <2>. QED  BY <2>4, <2>5, <2>6 DEF AtRun
<1>8. CASE FlushLands \/ FlushFails
  <2>. DEFINE b == inv.pending > 0 /\ inv.at = "stream"
  <2>1. inv' = [inv EXCEPT !.flight = 0, !.timer = b] /\ inv.flight > 0
    BY <1>8 DEF FlushLands, FlushFails, Flushed
  <2>2. inv.at \in {"stream", "stopping"} /\ Cp.phase = "request"
    BY <2>1 DEF StreamOK, PhaseOK, HoldsRun, Invocation
  <2>3. b => inv.at = "stream"
    OBVIOUS
  <2>. HIDE DEF b
  <2>4. /\ inv'.task = inv.task /\ inv'.kind = inv.kind /\ inv'.at = inv.at
        /\ inv'.text = inv.text /\ inv'.pending = inv.pending /\ inv'.msg = inv.msg
        /\ inv'.flight = 0 /\ inv'.timer = b
    BY <2>1 DEF Invocation
  <2>5. HoldsRun'
    BY <1>3, <2>2, <2>4
  <2>6. PhaseOK'
    BY <2>2, <2>4 DEF PhaseOK, Cp
  <2>7. ASSUME gen' = gen \/ gen'.chars = inv.flight
        PROVE  StreamOK'
    BY <2>1, <2>2, <2>3, <2>4, <2>7 DEF StreamOK
  <2>8. CASE FlushFails
    <3>1. gen' = gen
      BY <2>8 DEF FlushFails, store
    <3>. QED  BY <1>2, <2>5, <2>6, <2>7, <3>1 DEF AtRun
  <2>9. CASE FlushLands
    <3>1. gen' = [gen EXCEPT !.chars = inv.flight,
                             !.attempt = IF gen = NoGen THEN Cp.attempt ELSE gen.attempt]
      BY <2>9 DEF FlushLands
    <3>2. /\ gen'.chars = inv.flight /\ gen'.retry = gen.retry /\ gen'.poll = gen.poll
          /\ gen'.attempt = IF gen = NoGen THEN Cp.attempt ELSE gen.attempt
      BY <3>1 DEF Presented
    <3>3. gen'.attempt = Cp.attempt /\ gen'.retry = FALSE /\ gen'.poll = Cp.at
      <4>1. CASE gen = NoGen
        <5>1. gen.retry = FALSE /\ gen.poll = 0
          BY <4>1 DEF NoGen
        <5>2. Cp.at = 0
          BY <2>2 DEF CpOK
        <5>. QED  BY <3>2, <4>1, <5>1, <5>2
      <4>2. CASE gen # NoGen
        <5>1. gen.attempt = Cp.attempt /\ gen.poll = Cp.at
          BY <4>2 DEF Shows
        <5>2. gen.retry = FALSE
          BY <4>2, <2>2 DEF Shows
        <5>. QED  BY <3>2, <4>2, <5>1, <5>2
      <4>. QED  BY <4>1, <4>2
    <3>4. PresentationMatchesTask'
      BY <2>2, <3>3, ShowsNext DEF Shows, Cp
    <3>. QED  BY <2>5, <2>6, <2>7, <3>2, <3>4 DEF AtRun
  <2>. QED  BY <1>8, <2>8, <2>9
<1>9. CASE StreamEnds
  <2>1. PICK m : inv' = [inv EXCEPT !.at = "stopping", !.msg = m, !.timer = FALSE]
    BY <1>9 DEF StreamEnds
  <2>2. inv.at = "stream" /\ gen' = gen
    BY <1>9 DEF StreamEnds, store
  <2>3. /\ inv'.task = inv.task /\ inv'.kind = inv.kind /\ inv'.at = "stopping"
        /\ inv'.text = inv.text /\ inv'.pending = inv.pending
        /\ inv'.flight = inv.flight /\ inv'.timer = FALSE
    BY <2>1 DEF Invocation
  <2>4. HoldsRun' /\ PresentationMatchesTask'
    BY <1>1, <1>2, <1>3, <2>2, <2>3
  <2>5. PhaseOK'
    <3>1. Cp.phase = "request" /\ Cp.at < MaxTime
      BY <2>2, GenerationAssumption DEF PhaseOK, CpOK
    <3>. QED  BY <2>3, <3>1 DEF PhaseOK, Cp
  <2>6. StreamOK'
    BY <2>2, <2>3 DEF StreamOK
  <2>. QED  BY <2>4, <2>5, <2>6 DEF AtRun
<1>10. CASE StreamResponds
  <2>1. inv' = [inv EXCEPT !.at = "classify"] /\ inv.at = "stopping" /\ inv.flight = 0 /\ gen' = gen
    BY <1>10 DEF StreamResponds, Settling, store
  <2>2. /\ inv'.task = inv.task /\ inv'.kind = inv.kind /\ inv'.at = "classify"
        /\ inv'.text = inv.text /\ inv'.pending = inv.pending /\ inv'.msg = inv.msg
        /\ inv'.flight = 0 /\ inv'.timer = inv.timer
    BY <2>1 DEF Invocation
  <2>3. HoldsRun' /\ PresentationMatchesTask'
    BY <1>1, <1>2, <1>3, <2>1, <2>2
  <2>4. PhaseOK'
    BY <2>1, <2>2 DEF PhaseOK, Cp
  <2>5. StreamOK'
    BY <2>1, <2>2 DEF StreamOK
  <2>. QED  BY <2>3, <2>4, <2>5 DEF AtRun
<1>11. CASE PollResponds
  <2>1. PICK m \in Endings : (m = "deferred" => Cp.at < MaxTime)
                             /\ inv' = [inv EXCEPT !.at = "classify", !.msg = m]
    BY <1>11 DEF PollResponds
  <2>2. inv.at = "start" /\ inv.kind = "run" /\ Cp.phase = "poll" /\ gen' = gen
    BY <1>11 DEF PollResponds, Runs, store
  <2>3. /\ inv'.task = inv.task /\ inv'.kind = inv.kind /\ inv'.at = "classify"
        /\ inv'.text = inv.text /\ inv'.pending = inv.pending /\ inv'.msg = m
        /\ inv'.flight = inv.flight /\ inv'.timer = inv.timer
    BY <2>1 DEF Invocation
  <2>4. HoldsRun' /\ PresentationMatchesTask'
    BY <1>2, <1>3, <2>2, <2>3
  <2>5. PhaseOK'
    BY <2>1, <2>2, <2>3 DEF PhaseOK, Cp
  <2>6. gen.chars = 0
    BY <2>2 DEF Shows, NoGen
  <2>7. StreamOK'
    BY <2>2, <2>3, <2>6 DEF StreamOK
  <2>. QED  BY <2>4, <2>5, <2>7 DEF AtRun
<1>. QED  BY <1>4, <1>5, <1>6, <1>7, <1>8, <1>9, <1>10, <1>11 DEF Works

\* What committing a checkpoint leaves: the same invocation at its start, and the
\* task at that checkpoint.
LEMMA AdvanceIs ==
    ASSUME GenInv, inv # FreeInv, NEW cp, Advance(cp)
    PROVE  /\ inv'.task = inv.task /\ inv'.kind = inv.kind /\ inv'.at = "start"
           /\ inv'.text = 0 /\ inv'.pending = 0 /\ inv'.flight = inv.flight /\ inv'.timer = FALSE
           /\ tasks'[inv.task].cp = cp /\ tasks'[inv.task].st = "running"
           /\ tasks'[inv.task].mark = tasks[inv.task].mark
<1>. inv \in Invocation /\ inv.task \in DOMAIN tasks
     /\ tasks[inv.task] \in Task /\ tasks[inv.task].st = "running"
  BY AtWork DEF GenInv, Types
<1>1. /\ inv'.task = inv.task /\ inv'.kind = inv.kind /\ inv'.at = "start"
      /\ inv'.text = 0 /\ inv'.pending = 0 /\ inv'.flight = inv.flight /\ inv'.timer = FALSE
  BY DEF Advance, Invocation
<1>2. tasks'[inv.task] = [tasks[inv.task] EXCEPT !.cp = cp]
  BY DEF Advance
<1>. QED  BY <1>1, <1>2 DEF Task

\* The presentation fits the checkpoint a step commits.
LEMMA ShowsAfter ==
    ASSUME NEW cp, tasks'[run'.task].cp = cp,
           gen' # NoGen =>
              /\ gen'.attempt = cp.attempt /\ gen'.retry = (cp.phase = "retry") /\ gen'.poll = cp.at
              /\ gen'.chars > 0 => cp.phase = "request"
    PROVE  Shows(tasks[run.task].cp)'
BY DEF Shows

\* The steps that commit a checkpoint.
LEMMA AdvanceKeeps ==
    ASSUME GenInv, [Next]_vars, PrepareCommits \/ Defers \/ FailsOver \/ RetryEnds
    PROVE  AtRun'
<1>1. PICK cp : inv # FreeInv /\ Onward(cp) /\ Advance(cp)
  BY Advances
<1>. inv # FreeInv /\ HoldsRun /\ PhaseOK /\ StreamOK /\ Busy /\ run.task = inv.task
     /\ Shows(Cp) /\ CpOK(Cp) /\ LiveIsRun'
  BY <1>1, AtWork, ShowsIs, LiveNext DEF GenInv, Cp
<1>. /\ inv'.task = inv.task /\ inv'.kind = inv.kind /\ inv'.at = "start"
     /\ inv'.text = 0 /\ inv'.pending = 0 /\ inv'.flight = inv.flight /\ inv'.timer = FALSE
     /\ tasks'[inv.task].cp = cp /\ tasks'[inv.task].st = "running"
     /\ tasks'[inv.task].mark = tasks[inv.task].mark
  BY <1>1, AdvanceIs
<1>2. run' = run /\ up' = up /\ inv.at \in {"start", "prepared", "classify"} /\ inv.kind = "run"
  BY DEF PrepareCommits, Defers, FailsOver, RetryEnds, Process, Classifies, Runs, HoldsRun
<1>3. HoldsRun'
  BY <1>2, KeepsHold
<1>4. PhaseOK'
  BY DEF PhaseOK
<1>5. StreamOK'
  BY <1>2 DEF StreamOK
<1>6. Shows(tasks[run.task].cp)'
  <2>1. CASE PrepareCommits
    <3>1. gen' = gen /\ Cp.phase = "prepare"
      BY <2>1 DEF PrepareCommits, PhaseOK
    <3>2. tasks'[run'.task].cp = AtRequest(Cp.attempt, Len(entries'))
      BY <2>1, <1>2, AdvanceIs DEF PrepareCommits
    <3>3. gen' # NoGen => gen'.attempt = Cp.attempt /\ gen'.retry = FALSE /\ gen'.poll = 0
                          /\ ~(gen'.chars > 0)
      BY <3>1 DEF Shows, CpOK
    <3>4. AtRequest(Cp.attempt, Len(entries')).attempt = Cp.attempt
          /\ AtRequest(Cp.attempt, Len(entries')).phase = "request"
          /\ AtRequest(Cp.attempt, Len(entries')).at = 0
      BY DEF AtRequest
    <3>. QED  BY <3>2, <3>3, <3>4, ShowsAfter
  <2>2. CASE Defers
    <3>1. PICK now : gen' = [Attempt(Cp.attempt) EXCEPT !.poll = PollAt(now)]
                     /\ Advance(AtPoll(Cp.attempt, PollAt(now)))
      BY <2>2 DEF Defers
    <3>2. tasks'[run'.task].cp = AtPoll(Cp.attempt, PollAt(now))
      BY <3>1, <1>2, AdvanceIs
    <3>3. /\ AtPoll(Cp.attempt, PollAt(now)).attempt = Cp.attempt /\ AtPoll(Cp.attempt, PollAt(now)).phase = "poll"
          /\ AtPoll(Cp.attempt, PollAt(now)).at = PollAt(now)
      BY DEF AtPoll
    <3>4. gen'.attempt = Cp.attempt /\ gen'.retry = FALSE /\ gen'.poll = PollAt(now) /\ ~(gen'.chars > 0)
      BY <3>1 DEF Attempt, NoGen
    <3>. QED  BY <3>2, <3>3, <3>4, ShowsAfter
  <2>3. CASE FailsOver
    <3>1. gen' = [Attempt(Cp.attempt) EXCEPT !.retry = TRUE]
      BY <2>3 DEF FailsOver
    <3>2. tasks'[run'.task].cp = AtRetry(Cp.attempt)
      BY <2>3, <1>2, AdvanceIs DEF FailsOver
    <3>3. /\ AtRetry(Cp.attempt).attempt = Cp.attempt /\ AtRetry(Cp.attempt).phase = "retry"
          /\ AtRetry(Cp.attempt).at = 0
      BY DEF AtRetry
    <3>4. gen'.attempt = Cp.attempt /\ gen'.retry = TRUE /\ gen'.poll = 0 /\ ~(gen'.chars > 0)
      BY <3>1 DEF Attempt, NoGen
    <3>. QED  BY <3>2, <3>3, <3>4, ShowsAfter
  <2>4. CASE RetryEnds
    <3>1. gen' = Attempt(NextAttempt)
      BY <2>4 DEF RetryEnds
    <3>2. tasks'[run'.task].cp = AtPrepare(NextAttempt)
      BY <2>4, <1>2, AdvanceIs DEF RetryEnds
    <3>3. /\ AtPrepare(NextAttempt).attempt = NextAttempt /\ AtPrepare(NextAttempt).phase = "prepare"
          /\ AtPrepare(NextAttempt).at = 0
      BY DEF AtPrepare
    <3>4. gen'.attempt = NextAttempt /\ gen'.retry = FALSE /\ gen'.poll = 0 /\ ~(gen'.chars > 0)
      BY <3>1 DEF Attempt, NoGen
    <3>. QED  BY <3>2, <3>3, <3>4, ShowsAfter
  <2>. QED  BY <2>1, <2>2, <2>3, <2>4
<1>7. PresentationMatchesTask'
  BY <1>6, ShowsNext
<1>. QED  BY <1>3, <1>4, <1>5, <1>7 DEF AtRun

\* The steps that begin a handler or mark the task.
LEMMA BeginsKeep ==
    ASSUME GenInv, [Next]_vars, NEW t \in DOMAIN tasks, Begins(t) \/ Marks(t)
    PROVE  AtRun'
<1>. Busy /\ t = run.task /\ tasks[t] \in Task /\ tasks[t].cp = tasks[run.task].cp
  BY ElementOfSeq, LenProperties DEF Begins, Marks, GenInv, LiveIsRun, Types
<1>1. CASE Marks(t)
  <2>1. tasks'[t] = [tasks[t] EXCEPT !.mark = TRUE]
    BY <1>1 DEF Marks
  <2>2. tasks'[t].cp = tasks[t].cp /\ tasks'[t].mark /\ tasks'[t].st = tasks[t].st
    BY <2>1 DEF Task
  <2>3. UNCHANGED <<inv, gen, run, entries>> /\ up /\ up' = up
    BY <1>1 DEF Marks, AbortTask
  <2>. QED  BY <2>2, <2>3, SameAtRun
<1>2. CASE Begins(t)
  <2>1. tasks'[t] = [tasks[t] EXCEPT !.st = "running"]
    BY <1>2 DEF Begins
  <2>2. tasks'[t].cp = tasks[t].cp /\ tasks'[t].mark = tasks[t].mark /\ tasks'[t].st = "running"
    BY <2>1 DEF Task
  <2>3. inv' = NewInv(t) /\ UNCHANGED <<gen, run>> /\ up' = up /\ up
    BY <1>2 DEF Begins, Reserve
  <2>4. /\ inv'.task = t /\ inv'.at = "start" /\ inv'.text = 0 /\ inv'.pending = 0
        /\ inv'.flight = 0 /\ inv'.timer = FALSE
        /\ inv'.kind = IF tasks[t].mark THEN "abort" ELSE "run"
    BY <2>3 DEF NewInv, FreeInv
  <2>5. HoldsRun'
    BY <2>2, <2>3, <2>4 DEF HoldsRun, Busy
  <2>6. PhaseOK' /\ StreamOK'
    BY <2>4 DEF PhaseOK, StreamOK
  <2>7. PresentationMatchesTask'
    <3>1. Shows(tasks[run.task].cp)'
      BY <2>2, <2>3, ShowsIs DEF Shows, GenInv
    <3>. QED  BY <3>1, LiveNext, ShowsNext
  <2>. QED  BY <2>5, <2>6, <2>7 DEF AtRun
<1>. QED  BY <1>1, <1>2

\* Every step keeps what the handler relies on.
LEMMA AtRunNext ==
    ASSUME GenInv, [Next]_vars
    PROVE  AtRun'
<1>. LiveIsRun'
  BY LiveNext
<1>1. CASE Ending
  <2>1. PICK author, how : Ends(author, how)
    BY <1>1, EndsIt
  <2>2. run' = NoRun /\ inv' = FreeInv
    BY <2>1, EndedRun DEF Ends
  <2>. QED  BY <2>2, FreeAtRun DEF Busy
<1>2. CASE Works /\ ~Unwinds
  BY <1>2, WorksKeep
<1>3. CASE Unwinds
  <2>1. inv' = FreeInv /\ UNCHANGED <<tasks, run, gen>>
    BY <1>3 DEF Unwinds, store
  <2>2. Busy' => Shows(tasks[run.task].cp)'
    BY <2>1, ShowsIs DEF GenInv, Busy, Shows
  <2>. QED  BY <2>1, <2>2, FreeAtRun
<1>4. CASE PrepareCommits \/ Defers \/ FailsOver \/ RetryEnds
  BY <1>4, AdvanceKeeps
<1>5. CASE \E t \in DOMAIN tasks : Begins(t) \/ Marks(t)
  BY <1>5, BeginsKeep
<1>6. CASE Stop
  <2>1. inv' = FreeInv /\ UNCHANGED <<tasks, run, gen>>
    BY <1>6 DEF Stop, store
  <2>2. Busy' => Shows(tasks[run.task].cp)'
    BY <2>1, ShowsIs DEF GenInv, Busy, Shows
  <2>. QED  BY <2>1, <2>2, FreeAtRun
<1>7. CASE Reopen
  <2>1. inv = FreeInv /\ UNCHANGED <<inv, gen, run>>
    BY <1>7 DEF Reopen, GenInv, HoldsRun
  <2>2. Busy => tasks'[run.task].cp = tasks[run.task].cp
                /\ tasks'[run.task].mark = tasks[run.task].mark
    <3>. SUFFICES ASSUME Busy PROVE tasks'[run.task].cp = tasks[run.task].cp
                                     /\ tasks'[run.task].mark = tasks[run.task].mark
      OBVIOUS
    <3>2. run.task \in DOMAIN tasks /\ tasks[run.task] \in Task
      BY ElementOfSeq, LenProperties DEF GenInv, LiveIsRun, Types
    <3>3. tasks'[run.task] \in {tasks[run.task], [tasks[run.task] EXCEPT !.st = "pending"]}
      BY <1>7, <3>2 DEF Reopen
    <3>4. \A r \in Task : /\ [r EXCEPT !.st = "pending"].cp = r.cp
                         /\ [r EXCEPT !.st = "pending"].mark = r.mark
      BY DEF Task
    <3>. QED  BY <3>2, <3>3, <3>4
  <2>. QED  BY <2>1, <2>2, SameAtRun
<1>8. CASE (\E c \in Callers : SubmitInput(c) \/ SubmitWrite(c))
  <2>1. inv = FreeInv /\ gen = NoGen /\ gen' = gen /\ inv' = inv
    BY <1>8, Submitted DEF SubmitInput, SubmitWrite, Submits
  <2>. QED  BY <2>1, FreeAtRun DEF Shows
<1>9. CASE UNCHANGED vars \/ (\E s \in DOMAIN subs : Withdraw(s))
           \/ (\E c \in Callers : Resubmit(c) \/ SubmitBusy(c) \/ Wait(c))
  <2>1. UNCHANGED <<inv, gen, run, tasks, entries>> /\ up' = up
    BY <1>9 DEF vars, Withdraw, Resubmit, SubmitBusy, Wait, Submits, store
  <2>. QED  BY <2>1, SameAtRun, AtWork
<1>. QED  BY <1>1, <1>2, <1>3, <1>4, <1>5, <1>6, <1>7, <1>8, <1>9, StepKinds DEF Quiet

------------------------------------------------------------------------------
(* The invariant is inductive *)

\* The run keeps its type.
LEMMA RunNext ==
    ASSUME GenInv, [Next]_vars
    PROVE  run' \in [task: Nat, inputs: SUBSET Nat]
<1>. run \in [task: Nat, inputs: SUBSET Nat]
  BY DEF GenInv, Types
<1>1. CASE Ending
  BY <1>1, EndsIt, EndedRun DEF NoRun
<1>2. ASSUME NEW c \in Callers, SubmitInput(c)
      PROVE  run' \in [task: Nat, inputs: SUBSET Nat]
  <2>1. Len(tasks') \in Nat /\ Len(subs') \in Nat
    BY TasksNext, SubsNext, LenProperties
  <2>. QED  BY <1>2, <2>1 DEF SubmitInput
<1>3. CASE (\E c \in Callers : SubmitWrite(c)) \/ \E s \in DOMAIN subs : Withdraw(s)
  BY <1>3 DEF SubmitWrite, Withdraw
<1>. QED  BY <1>1, <1>2, <1>3, Elsewhere

\* What outside events leave of the budget.
LEMMA SpendType ==
    ASSUME budget \in [BudgetKinds -> Nat], NEW k \in BudgetKinds, Spend(k)
    PROVE  budget' \in [BudgetKinds -> Nat]
BY DEF Spend

\* What belongs to the process keeps its type, the definitions it lacks included.
LEMMA ProcessNext ==
    ASSUME GenInv, [Next]_vars
    PROVE  /\ up' \in BOOLEAN /\ enabled' \in BOOLEAN /\ stale' \subseteq DOMAIN tasks'
           /\ budget' \in [BudgetKinds -> Nat]
<1>. /\ up \in BOOLEAN /\ enabled \in BOOLEAN /\ stale \subseteq DOMAIN tasks
     /\ budget \in [BudgetKinds -> Nat] /\ DOMAIN tasks \subseteq DOMAIN tasks'
  BY TasksNext DEF GenInv, Types
<1>. "stop" \in BudgetKinds /\ "abort" \in BudgetKinds /\ "withdraw" \in BudgetKinds
  BY DEF BudgetKinds
<1>1. CASE Handler
  <2>1. UNCHANGED Process
    BY <1>1 DEF Handler, PrepareReads, PrepareCommits, RequestBegins, NoModel, Chunk, Flush,
       FlushLands, FlushFails, StreamEnds, StreamResponds, PollResponds, Defers, FailsOver,
       Concludes, RetryEnds, AbortHandler, HandlerThrows, Unwinds
  <2>. QED  BY <2>1 DEF Process
<1>2. CASE Stop
  BY <1>2, SpendType DEF Stop
<1>3. CASE Reopen
  <2>1. stale' \subseteq DOMAIN tasks
    BY <1>3 DEF Reopen
  <2>. QED  BY <1>3, <2>1 DEF Reopen
<1>4. CASE \E t \in DOMAIN tasks : Reserve(t) \/ AbortTask(t)
  BY <1>4, SpendType DEF Reserve, AbortTask
<1>5. CASE \E s \in DOMAIN subs : Withdraw(s)
  BY <1>5, SpendType DEF Withdraw
<1>6. CASE \E c \in Callers : Caller(c)
  BY <1>6 DEF Caller, Resubmit, SubmitBusy, SubmitWrite, SubmitInput, Wait, Submits
<1>7. CASE UNCHANGED vars
  BY <1>7 DEF vars
<1>. QED  BY <1>1, <1>2, <1>3, <1>4, <1>5, <1>6, <1>7 DEF Next

\* Every step keeps the invariant.
LEMMA GenStep ==
    ASSUME GenInv, [Next]_vars
    PROVE  GenInv'
<1>1. TurnInv'
  BY TurnStep DEF GenInv
<1>2. Types'
  BY SubsNext, EntriesNext, RunNext, PresentedNext, TasksNext, ProcessNext, InvocationNext,
     CallersNext DEF Types
<1>. QED  BY <1>1, <1>2, LiveNext, TasksNext, AtRunNext, CallersNext DEF GenInv, AtRun

\* The empty conversation satisfies it.
LEMMA GenInit ==
    ASSUME Init
    PROVE  GenInv
<1>. /\ subs = <<>> /\ entries = <<>> /\ run = NoRun /\ gen = NoGen /\ tasks = <<>>
     /\ up = TRUE /\ enabled = FALSE /\ stale = {} /\ inv = FreeInv
     /\ callers = [c \in Callers |-> Idle] /\ budget = Budget
  BY DEF Init
<1>1. TurnInv
  BY TurnInit
<1>2. Types
  <2>1. subs \in Seq(Sub) /\ entries \in Seq(Entry) /\ tasks \in Seq(Task)
    BY EmptySeq
  <2>2. run \in [task: Nat, inputs: SUBSET Nat]
    BY DEF NoRun
  <2>3. gen \in Presented
    BY GenerationAssumption DEF NoGen, Presented
  <2>4. callers \in [Callers -> Held]
    BY DEF Idle, Held
  <2>5. budget \in [BudgetKinds -> Nat]
    BY GenerationAssumption
  <2>. QED  BY <2>1, <2>2, <2>3, <2>4, <2>5, FreeIs DEF Types
<1>3. DOMAIN tasks = {} /\ Len(tasks) = 0 /\ Len(subs) = 0 /\ ~Busy
  BY EmptySeq DEF Busy
<1>4. LiveIsRun /\ TasksOK /\ PresentationMatchesTask
  BY <1>3 DEF LiveIsRun, TasksOK, PresentationMatchesTask
<1>5. HoldsRun /\ PhaseOK /\ StreamOK
  BY DEF HoldsRun, PhaseOK, StreamOK
<1>6. CallersOK
  BY DEF CallersOK, CallerOK, Idle
<1>. QED  BY <1>1, <1>2, <1>4, <1>5, <1>6 DEF GenInv

\* The inductive invariant holds in every state: records, run, invocation,
\* presentation and callers fit together, whenever the process stops and whatever
\* hosts abort or withdraw.
THEOREM GenInductive == Spec => []GenInv
<1>1. Init => GenInv
  BY GenInit
<1>2. GenInv /\ [Next]_vars => GenInv'
  BY GenStep
<1>. QED  BY <1>1, <1>2, PTL DEF Spec

------------------------------------------------------------------------------
(* What it promises *)

\* Every variable has its type, and what a caller has been given is a record of
\* the conversation.
THEOREM TypesHold == Spec => []TypeOK
<1>1. GenInv => TypeOK
  <2>. SUFFICES ASSUME GenInv PROVE TypeOK
    OBVIOUS
  <2>1. Types
    BY DEF GenInv
  <2>2. ASSUME NEW c \in Callers
        PROVE  callers[c] \in [at: {"idle", "held", "waiting", "served", "refused"},
                               sub: Nat, got: SUBSET {subs[s] : s \in DOMAIN subs}]
    <3>1. callers[c] \in Held /\ CallerOK(callers[c])
      BY <2>1 DEF Types, GenInv, CallersOK
    <3>2. callers[c].got \subseteq {subs[s] : s \in DOMAIN subs}
      BY <3>1 DEF CallerOK
    <3>. QED  BY <3>1, <3>2 DEF Held
  <2>3. callers = [c \in Callers |-> callers[c]]
    BY <2>1 DEF Types
  <2>4. callers \in [Callers -> [at: {"idle", "held", "waiting", "served", "refused"},
                                 sub: Nat, got: SUBSET {subs[s] : s \in DOMAIN subs}]]
    BY <2>2, <2>3
  <2>. QED  BY <2>1, <2>4 DEF Types, TypeOK, Sub, Entry, Presented, Task, Invocation
<1>. QED  BY <1>1, GenInductive, PTL

\* `pi.live.run` is there exactly while the conversation has a live generation
\* task, and it owns every open input (endRun, live.ts).
THEOREM RunOwnsInputs == Spec => []RunOwnsOpenInputs
<1>1. GenInv => RunOwnsOpenInputs
  <2>. SUFFICES ASSUME GenInv PROVE RunOwnsOpenInputs
    OBVIOUS
  <2>1. {t \in DOMAIN tasks : Live(t)} = IF Busy THEN {run.task} ELSE {}
    BY DEF GenInv, LiveIsRun
  <2>2. \A s \in DOMAIN subs : Open(s) => s \in run.inputs
    BY DEF GenInv, TurnInv, RunOK
  <2>. QED  BY <2>1, <2>2 DEF RunOwnsOpenInputs
<1>. QED  BY <1>1, GenInductive, PTL

\* `pi.live.generation` presents the attempt its task is at, and a partial only
\* of a response still being requested (streamResponse, generation.ts).
THEOREM PresentationFits == Spec => []PresentationMatchesTask
<1>1. GenInv => PresentationMatchesTask
  BY DEF GenInv
<1>. QED  BY <1>1, GenInductive, PTL

\* The transcript a preparation has read is still its tail when it commits.
THEOREM PreparesFromTail == Spec => []PreparedFromTail
<1>1. GenInv => PreparedFromTail
  BY FreeIs DEF GenInv, PhaseOK, PreparedFromTail
<1>. QED  BY <1>1, GenInductive, PTL

\* A caller waits only for an open submission of the running process, and what it
\* is given is the receipt for good (Submissions, submissions.ts).
THEOREM WaitersAreTold == Spec => []WaitersSeeOutcome
<1>1. GenInv => WaitersSeeOutcome
  BY DEF GenInv, CallersOK, CallerOK, WaitersSeeOutcome
<1>. QED  BY <1>1, GenInductive, PTL

\* An attempt number never falls, and a new poll time lies strictly later, even
\* when the clock was set back (classify, generation.ts).
THEOREM RunsMoveForward == Spec => RunMovesForward
<1>. DEFINE Forward ==
       \A t \in DOMAIN tasks :
          LET old == tasks[t].cp
              new == tasks'[t].cp
          IN  tasks'[t].st # "terminal" =>
                /\ new.attempt >= old.attempt
                /\ old.phase = "poll" /\ new.phase = "poll" /\ new # old => new.at > old.at
<1>1. GenInv /\ [Next]_vars => [Forward]_vars
  <2>. SUFFICES ASSUME GenInv, Next, NEW t \in DOMAIN tasks, tasks'[t].st # "terminal"
                PROVE  /\ tasks'[t].cp.attempt >= tasks[t].cp.attempt
                       /\ tasks[t].cp.phase = "poll" /\ tasks'[t].cp.phase = "poll"
                          /\ tasks'[t].cp # tasks[t].cp => tasks'[t].cp.at > tasks[t].cp.at
    OBVIOUS
  <2>0. tasks \in Seq(Task) /\ tasks[t] \in Task /\ TasksMove
    BY ElementOfSeq, LenProperties, TasksStep DEF GenInv, Types
  <2>1. tasks[t].cp.attempt \in Nat
    BY <2>0, GenerationAssumption DEF Task, Checkpoint, NoCheckpoint
  <2>2. CASE tasks'[t].cp = tasks[t].cp
    BY <2>1, <2>2
  <2>3. CASE \E r : Moves(r)
    <3>1. PICK r : Moves(r)
      BY <2>3
    <3>2. CASE t # run.task
      <4>1. tasks'[t] = tasks[t]
        BY <3>1, <3>2 DEF Moves
      <4>. QED  BY <2>2, <4>1
    <3>3. CASE t = run.task
      <4>1. tasks'[t] = r /\ TaskStep(tasks[t], r)
        BY <3>1, <3>3 DEF Moves
      <4>2. CASE r = [tasks[t] EXCEPT !.st = "running"] \/ r = [tasks[t] EXCEPT !.mark = TRUE]
        <5>1. r.cp = tasks[t].cp
          BY <2>0, <4>2 DEF Task
        <5>. QED  BY <2>2, <4>1, <5>1
      <4>3. ASSUME NEW cp \in Checkpoint, r = [tasks[t] EXCEPT !.cp = cp],
                   cp.attempt >= tasks[t].cp.attempt,
                   cp.phase = "poll" /\ tasks[t].cp.phase = "poll" => cp.at > tasks[t].cp.at
            PROVE  /\ tasks'[t].cp.attempt >= tasks[t].cp.attempt
                   /\ tasks[t].cp.phase = "poll" /\ tasks'[t].cp.phase = "poll"
                      /\ tasks'[t].cp # tasks[t].cp => tasks'[t].cp.at > tasks[t].cp.at
        <5>1. r.cp = cp
          BY <2>0, <4>3 DEF Task
        <5>. QED  BY <4>1, <4>3, <5>1
      <4>4. ASSUME NEW author, r = [tasks[t] EXCEPT !.st = "terminal", !.by = author,
                                                    !.cp = NoCheckpoint]
            PROVE  FALSE
        <5>1. r.st = "terminal"
          BY <2>0, <4>4 DEF Task
        <5>. QED  BY <4>1, <5>1
      <4>. QED  BY <4>1, <4>2, <4>3, <4>4 DEF TaskStep
    <3>. QED  BY <3>2, <3>3
  <2>4. CASE Reopen
    <3>1. tasks'[t] \in {tasks[t], [tasks[t] EXCEPT !.st = "pending"]}
      BY <2>4 DEF Reopen
    <3>2. [tasks[t] EXCEPT !.st = "pending"].cp = tasks[t].cp
      BY <2>0 DEF Task
    <3>. QED  BY <2>2, <3>1, <3>2
  <2>5. CASE tasks' = Append(tasks, NewTask)
    <3>1. NewTask \in Task
      BY GenerationAssumption DEF NewTask, Task, Checkpoint, AtPrepare
    <3>2. tasks'[t] = tasks[t]
      BY <2>0, <2>5, <3>1, Extend
    <3>. QED  BY <2>2, <3>2
  <2>. QED  BY <2>0, <2>2, <2>3, <2>4, <2>5 DEF TasksMove
<1>. QED  BY <1>1, GenInductive, PTL DEF Spec, RunMovesForward

\* An entry appended is the last one.
LEMMA LastIs ==
    ASSUME GenInv, NEW e \in Entry, entries' = Append(entries, e)
    PROVE  Len(entries') > Len(entries) /\ entries'[Len(entries')] = e
<1>1. entries \in Seq(Entry)
  BY DEF GenInv, Types
<1>2. Len(entries') = Len(entries) + 1 /\ entries'[Len(entries) + 1] = e /\ Len(entries) \in Nat
  BY <1>1, Extend
<1>. QED  BY <1>2

\* A run that ends keeps its partial, unless the scheduler ends it.
LEMMA EndingKeeps ==
    ASSUME GenInv, Ending, gen.chars > 0
    PROVE  \/ Len(entries') > Len(entries) /\ entries'[Len(entries')].chars >= gen.chars
           \/ tasks'[run.task].by \in {"faulted", "orphaned"}
<1>1. PICK author, how : Busy /\ Ends(author, how)
  BY EndsIt
<1>. /\ entries \in Seq(Entry) /\ gen.chars \in Nat /\ inv \in Invocation /\ gen # NoGen
     /\ run.task \in DOMAIN tasks /\ tasks[run.task] \in Task /\ Shows(tasks[run.task].cp)
  BY <1>1, ElementOfSeq, LenProperties, ShowsIs
     DEF GenInv, Types, LiveIsRun, Presented, NoGen
<1>2. ASSUME NEW e \in Entry, entries' = Append(entries, e), e.chars >= gen.chars
      PROVE  Len(entries') > Len(entries) /\ entries'[Len(entries')].chars >= gen.chars
  <2>1. Len(entries') > Len(entries) /\ entries'[Len(entries')] = e
    BY <1>2, LastIs
  <2>. QED  BY <1>2, <2>1
<1>3. ASSUME NEW t, t = run.task, Terminate(t, "faulted") \/ Terminate(t, "orphaned")
      PROVE  tasks'[run.task].by \in {"faulted", "orphaned"}
  <2>1. PICK a \in {"faulted", "orphaned"} :
          tasks' = [tasks EXCEPT ![t] = [tasks[t] EXCEPT !.st = "terminal", !.by = a,
                                                         !.cp = NoCheckpoint]]
    BY <1>3 DEF Terminate
  <2>2. tasks'[t] = [tasks[t] EXCEPT !.st = "terminal", !.by = a, !.cp = NoCheckpoint]
    BY <1>3, <2>1
  <2>3. \A r \in Task : [r EXCEPT !.st = "terminal", !.by = a, !.cp = NoCheckpoint].by = a
    BY DEF Task
  <2>. QED  BY <1>3, <2>2, <2>3
<1>4. CASE NoModel
  <2>1. inv # FreeInv
    BY <1>4, FreeIs DEF NoModel, Runs
  <2>2. Cp = tasks[run.task].cp /\ StreamOK
    BY <2>1, AtWork DEF GenInv, Cp
  <2>3. Cp.phase = "request"
    BY <2>2 DEF Shows
  <2>4. inv.at = "stream" /\ inv.text = 0
    BY <1>4, <2>3 DEF NoModel, Runs
  <2>. QED  BY <2>1, <2>2, <2>4 DEF StreamOK
<1>5. CASE Concludes
  <2>1. inv # FreeInv /\ inv.at = "classify" /\ inv.msg \in Endings
    BY <1>5, FreeIs DEF Concludes, Classifies, Endings
  <2>2. inv.text >= gen.chars
    BY <2>1 DEF GenInv, StreamOK, Invocation
  <2>3. Assistant(inv.msg, inv.text) \in Entry /\ Assistant(inv.msg, inv.text).chars = inv.text
    BY <2>1, EntryTypes DEF Assistant
  <2>. QED  BY <1>2, <1>5, <2>2, <2>3 DEF Concludes, Response
<1>6. CASE AbortHandler
  <2>1. Assistant("aborted", gen.chars) \in Entry
        /\ Assistant("aborted", gen.chars).chars = gen.chars
    BY EntryTypes DEF Assistant
  <2>. QED  BY <1>2, <1>6, <2>1 DEF AbortHandler, Converted
<1>7. CASE HandlerThrows
  <2>1. inv # FreeInv
    BY <1>7, FreeIs DEF HandlerThrows
  <2>. QED  BY <1>3, <1>7, <2>1, AtWork DEF HandlerThrows, SchedulerEnds
<1>8. ASSUME NEW t \in DOMAIN tasks, Reserve(t) \/ AbortTask(t), SchedulerEnds(t, "orphaned")
      PROVE  tasks'[run.task].by \in {"faulted", "orphaned"}
  <2>1. t = run.task
    BY <1>8 DEF Reserve, AbortTask, GenInv, LiveIsRun
  <2>. QED  BY <1>3, <1>8, <2>1 DEF SchedulerEnds
<1>. QED  BY <1>4, <1>5, <1>6, <1>7, <1>8 DEF Ending

\* So does a handler that goes on, unless the provider defers the response.
LEMMA GoingKeeps ==
    ASSUME GenInv, Goes, gen'.chars < gen.chars
    PROVE  \/ Len(entries') > Len(entries) /\ entries'[Len(entries')].chars >= gen.chars
           \/ gen'.poll > 0
<1>. /\ inv # FreeInv /\ Shows(Cp) /\ PhaseOK /\ StreamOK /\ entries \in Seq(Entry)
     /\ gen \in Presented /\ inv \in Invocation /\ CpOK(Cp)
  BY GoesAtWork, AtWork, ShowsIs DEF GenInv, Types, Cp
<1>. gen.chars \in Nat /\ inv.flight \in Nat /\ inv.text \in Nat /\ gen'.chars # gen.chars
     /\ Cp.at \in Nat
  BY GenerationAssumption DEF Presented, Invocation, CpOK, Checkpoint
<1>1. ASSUME NEW e \in Entry, entries' = Append(entries, e), e.chars >= gen.chars
      PROVE  Len(entries') > Len(entries) /\ entries'[Len(entries')].chars >= gen.chars
  BY <1>1, LastIs
<1>2. CASE RequestBegins
  <2>1. gen'.chars = 0
    BY <1>2 DEF RequestBegins, Attempt, NoGen
  <2>2. Assistant("aborted", gen.chars) \in Entry
        /\ Assistant("aborted", gen.chars).chars = gen.chars
    BY EntryTypes DEF Assistant
  <2>. QED  BY <1>1, <1>2, <2>1, <2>2 DEF RequestBegins, Converted
<1>3. CASE FlushLands
  <2>1. gen'.chars = inv.flight
    BY <1>3 DEF FlushLands, Presented
  <2>. QED  BY <1>3, <2>1 DEF FlushLands, StreamOK
<1>4. CASE Defers
  <2>1. PICK now \in 0 .. MaxTime - 1 : gen' = [Attempt(Cp.attempt) EXCEPT !.poll = PollAt(now)]
    BY <1>4 DEF Defers
  <2>2. PollAt(now) > 0
    BY GenerationAssumption DEF PollAt
  <2>. HIDE DEF PollAt
  <2>. QED  BY <2>1, <2>2 DEF Attempt, NoGen
<1>5. CASE FailsOver
  <2>1. inv.at = "classify" /\ inv.msg \in Endings
    BY <1>5 DEF FailsOver, Classifies, Endings
  <2>2. inv.text >= gen.chars
    BY <2>1 DEF StreamOK
  <2>3. Assistant(inv.msg, inv.text) \in Entry /\ Assistant(inv.msg, inv.text).chars = inv.text
    BY <2>1, EntryTypes DEF Assistant
  <2>. QED  BY <1>1, <1>5, <2>2, <2>3 DEF FailsOver, Response
<1>6. CASE RetryEnds
  <2>1. Cp.phase = "retry"
    BY <1>6 DEF RetryEnds, Runs
  <2>2. ~(gen.chars > 0)
    BY <2>1 DEF Shows, NoGen
  <2>3. gen'.chars = 0
    BY <1>6 DEF RetryEnds, Attempt, NoGen
  <2>. QED  BY <2>2, <2>3
<1>7. CASE gen' = gen
  BY <1>7
<1>. QED
  BY <1>2, <1>3, <1>4, <1>5, <1>6, <1>7 DEF Goes, Works, PrepareReads, PrepareCommits, Chunk,
     Flush, FlushFails, StreamEnds, StreamResponds, PollResponds, Unwinds, store

\* What a streaming response has shown and committed does not vanish: it grows, or
\* becomes part of a transcript entry, unless the scheduler itself ends the task or
\* the provider defers the response after all (convertPartial(), classify).
THEOREM PartialsAreKept == Spec => PartialIsKept
<1>. DEFINE Kept ==
       gen'.chars < gen.chars =>
          \/ /\ Len(entries') > Len(entries)
             /\ entries'[Len(entries')].chars >= gen.chars
          \/ tasks'[run.task].by \in {"faulted", "orphaned"}
          \/ gen'.poll > 0
<1>1. GenInv /\ [Next]_vars => [Kept]_vars
  <2>. SUFFICES ASSUME GenInv, Next, gen'.chars < gen.chars
                PROVE  \/ /\ Len(entries') > Len(entries)
                          /\ entries'[Len(entries')].chars >= gen.chars
                       \/ tasks'[run.task].by \in {"faulted", "orphaned"}
                       \/ gen'.poll > 0
    OBVIOUS
  <2>. gen.chars \in Nat /\ gen'.chars \in Nat
    BY PresentedNext, GenerationAssumption DEF GenInv, Types, Presented
  <2>1. CASE Ending
    BY <2>1, EndingKeeps
  <2>2. CASE Goes
    BY <2>2, GoingKeeps
  <2>3. CASE ~Ending /\ ~Goes
    BY <2>3, GenStays
  <2>. QED  BY <2>1, <2>2, <2>3
<1>. QED  BY <1>1, GenInductive, PTL DEF Spec, PartialIsKept

------------------------------------------------------------------------------
(* The tasks of the conversation, as TaskLifecycle sees them *)

View(r) == [st |-> r.st, cp |-> [r.cp EXCEPT !.cutoff = 0], ver |-> 1,
            mark |-> r.mark, memo |-> "none", by |-> r.by]

ViewCp == {c \in [phase: {"prepare", "request", "retry", "poll"},
                  attempt: 1 .. MaxRetries + 1, cutoff: {0},
                  at: 0 .. MaxTime] : TRUE}

\* A checkpoint without its cutoff.
LEMMA ViewCheckpoints ==
    /\ \A cp \in Checkpoint : [cp EXCEPT !.cutoff = 0] \in ViewCp
    /\ [NoCheckpoint EXCEPT !.cutoff = 0] = NoCheckpoint
<1>1. ASSUME NEW cp \in Checkpoint
      PROVE  [cp EXCEPT !.cutoff = 0] \in ViewCp
  BY DEF Checkpoint, ViewCp
<1>2. [NoCheckpoint EXCEPT !.cutoff = 0] = NoCheckpoint
  BY DEF NoCheckpoint
<1>. QED  BY <1>1, <1>2

\* A task is a record of TaskLifecycle.
LEMMA ViewType ==
    ASSUME NEW r \in Task, TaskOK(r)
    PROVE  /\ View(r) \in Lifecycle!Record
           /\ r.st # "terminal" => View(r) \in Lifecycle!LiveRecord /\ Lifecycle!IsLive(View(r))
<1>1. CASE r.st # "terminal"
  <2>1. [r.cp EXCEPT !.cutoff = 0] \in ViewCp
    BY <1>1, ViewCheckpoints DEF TaskOK, CpOK
  <2>2. View(r) \in Lifecycle!LiveRecord
    BY <1>1, <2>1 DEF View, ViewCp, Lifecycle!LiveRecord, Task, TaskOK
  <2>3. Lifecycle!IsLive(View(r))
    BY <1>1 DEF View, Lifecycle!IsLive, Task
  <2>. QED  BY <2>2, <2>3 DEF Lifecycle!Record
<1>2. CASE r.st = "terminal"
  <2>1. [r.cp EXCEPT !.cutoff = 0] = NoCheckpoint
    BY <1>2, ViewCheckpoints DEF TaskOK
  <2>2. View(r) \in Lifecycle!TerminalRecord
    BY <1>2, <2>1 DEF View, Lifecycle!TerminalRecord, Lifecycle!Authors, Task, TaskOK
  <2>. QED  BY <1>2, <2>2 DEF Lifecycle!Record
<1>. QED  BY <1>1, <1>2

Seen(st, cp, mark, by) ==
    [st |-> st, cp |-> cp, ver |-> 1, mark |-> mark, memo |-> "none", by |-> by]

\* What an outcome leaves of one.
LEMMA SettledView ==
    ASSUME NEW st, NEW cp, NEW mark, NEW by, NEW author
    PROVE  Lifecycle!Settled(Seen(st, cp, mark, by), author)
           = Seen("terminal", NoCheckpoint, mark, author)
<1>1. [Seen(st, cp, mark, by) EXCEPT !.st = "terminal"] = Seen("terminal", cp, mark, by)
  BY DEF Seen
<1>2. [Seen("terminal", cp, mark, by) EXCEPT !.cp = NoCheckpoint]
      = Seen("terminal", NoCheckpoint, mark, by)
  BY DEF Seen
<1>3. [Seen("terminal", NoCheckpoint, mark, by) EXCEPT !.memo = "none"]
      = Seen("terminal", NoCheckpoint, mark, by)
  BY DEF Seen
<1>4. [Seen("terminal", NoCheckpoint, mark, by) EXCEPT !.by = author]
      = Seen("terminal", NoCheckpoint, mark, author)
  BY DEF Seen
<1>5. ASSUME NEW r
      PROVE  Lifecycle!Settled(r, author)
             = [[[[r EXCEPT !.st = "terminal"] EXCEPT !.cp = NoCheckpoint]
                   EXCEPT !.memo = "none"] EXCEPT !.by = author]
  BY DEF Lifecycle!Settled
<1>. HIDE DEF Seen
<1>6. Lifecycle!Settled(Seen(st, cp, mark, by), author)
      = [[[[Seen(st, cp, mark, by) EXCEPT !.st = "terminal"] EXCEPT !.cp = NoCheckpoint]
            EXCEPT !.memo = "none"] EXCEPT !.by = author]
  BY <1>5
<1>. QED  BY <1>1, <1>2, <1>3, <1>4, <1>6

\* Each change of a task is one TaskLifecycle allows.
LEMMA ViewSteps ==
    ASSUME NEW r \in Task, TaskOK(r), r.st # "terminal", NEW q, TaskStep(r, q),
           NEW t \in TaskIds
    PROVE  Lifecycle!Change(t, View(r), View(q))
<1>. DEFINE v == View(r)
            w == View(q)
<1>0. /\ q \in Task /\ TaskOK(q) /\ v \in Lifecycle!LiveRecord /\ Lifecycle!IsLive(v)
      /\ v.st = r.st /\ v.mark = r.mark
  BY TaskStepType, ViewType DEF View
<1>1. CASE q = [r EXCEPT !.st = "running"]
  <2>1. q.st = "running" /\ q.cp = r.cp /\ q.mark = r.mark /\ q.by = r.by
    BY <1>1 DEF Task
  <2>2. w \in Lifecycle!LiveRecord
    BY <1>0, <2>1, ViewType
  <2>3. w.st = "running" /\ w.mark = v.mark /\ w.memo = v.memo /\ w.ver = v.ver /\ w.cp = v.cp
    BY <2>1 DEF View
  <2>. QED  BY <1>0, <2>2, <2>3 DEF Lifecycle!Change, Lifecycle!Reserved
<1>2. ASSUME NEW b, b = TRUE, q = [r EXCEPT !.mark = b]
      PROVE  Lifecycle!Change(t, v, w)
  <2>1. q.st = r.st /\ q.cp = r.cp /\ q.mark = b /\ q.by = r.by
    BY <1>2 DEF Task
  <2>2. w = [v EXCEPT !.mark = b]
    BY <2>1 DEF View
  <2>. QED  BY <1>0, <1>2, <2>2 DEF Lifecycle!Change, Lifecycle!AbortMarked
<1>3. ASSUME NEW cp \in Checkpoint, q = [r EXCEPT !.cp = cp], r.st = "running"
      PROVE  Lifecycle!Change(t, v, w)
  <2>. DEFINE c == [cp EXCEPT !.cutoff = 0]
  <2>1. q.st = r.st /\ q.cp = cp /\ q.mark = r.mark /\ q.by = r.by
    BY <1>3 DEF Task
  <2>2. w = [v EXCEPT !.cp = c]
    BY <2>1 DEF View
  <2>3. c \in ViewCp
    BY ViewCheckpoints
  <2>. HIDE DEF c
  <2>. QED  BY <1>0, <1>3, <2>2, <2>3 DEF Lifecycle!Change, Lifecycle!Advanced, ViewCp
<1>4. ASSUME NEW author \in {"run", "abort", "faulted", "orphaned"},
             q = [r EXCEPT !.st = "terminal", !.by = author, !.cp = NoCheckpoint],
             author # "orphaned" => r.st = "running",
             author = "run" => ~r.mark, author = "abort" => r.mark
      PROVE  Lifecycle!Change(t, v, w)
  <2>1. q.st = "terminal" /\ q.cp = NoCheckpoint /\ q.mark = r.mark /\ q.by = author
    BY <1>4 DEF Task
  <2>. DEFINE c == [r.cp EXCEPT !.cutoff = 0]
              d == [q.cp EXCEPT !.cutoff = 0]
  <2>2. w = Lifecycle!Settled(v, author)
    <3>1. d = NoCheckpoint
      BY <2>1, ViewCheckpoints
    <3>2. /\ w = [st |-> q.st, cp |-> d, ver |-> 1, mark |-> q.mark, memo |-> "none", by |-> q.by]
          /\ v = [st |-> r.st, cp |-> c, ver |-> 1, mark |-> r.mark, memo |-> "none", by |-> r.by]
      BY DEF View
    <3>. HIDE DEF v, w, c, d
    <3>3. v = Seen(r.st, c, r.mark, r.by) /\ w = Seen("terminal", NoCheckpoint, r.mark, author)
      BY <2>1, <3>1, <3>2 DEF Seen
    <3>. QED  BY <3>3, SettledView
  <2>3. author \in Lifecycle!Authors \ {"none"}
    BY DEF Lifecycle!Authors
  <2>. QED  BY <1>0, <1>4, <2>2, <2>3 DEF Lifecycle!Change, Lifecycle!Terminated
<1>. QED  BY <1>1, <1>2, <1>3, <1>4 DEF TaskStep

\* A reopened process gives back what was running.
LEMMA ViewBack ==
    ASSUME NEW r \in Task, r.st = "running", NEW t \in TaskIds
    PROVE  Lifecycle!Change(t, View(r), View([r EXCEPT !.st = "pending"]))
<1>. DEFINE q == [r EXCEPT !.st = "pending"]
<1>1. q.st = "pending" /\ q.cp = r.cp /\ q.mark = r.mark /\ q.by = r.by
  BY DEF Task
<1>2. View(q) = [View(r) EXCEPT !.st = "pending"] /\ View(r).st = "running"
  BY <1>1 DEF View
<1>. HIDE DEF q
<1>3. Lifecycle!GivenBack(View(r), View(q))
  BY <1>2 DEF Lifecycle!GivenBack
<1>. QED  BY <1>3 DEF Lifecycle!Change, q

\* A new task is a new record.
LEMMA ViewNew ==
    ASSUME NEW t \in TaskIds
    PROVE  Lifecycle!Change(t, NoRecord, View(NewTask))
<1>1. NoRecord = Lifecycle!Absent
  BY DEF NoRecord, Lifecycle!Absent
<1>2. AtPrepare(1) \in ViewCp /\ [AtPrepare(1) EXCEPT !.cutoff = 0] = AtPrepare(1)
  BY GenerationAssumption DEF AtPrepare, ViewCp
<1>3. View(NewTask) = Lifecycle!NewRecord(AtPrepare(1), 1)
  BY <1>2 DEF View, NewTask, Lifecycle!NewRecord
<1>4. Lifecycle!Created(NoRecord, View(NewTask))
  BY <1>1, <1>2, <1>3 DEF Lifecycle!Created, ViewCp
<1>. QED  BY <1>4 DEF Lifecycle!Change

\* What TaskLifecycle sees of a task.
LEMMA RecordIs ==
    ASSUME NEW t
    PROVE  RecordOf(t) = IF t \in DOMAIN tasks THEN View(tasks[t]) ELSE NoRecord
BY DEF RecordOf, View

\* The same, after a step.
LEMMA RecordNext ==
    ASSUME NEW t
    PROVE  RecordOf(t)' = IF t \in DOMAIN tasks' THEN View(tasks'[t]) ELSE NoRecord
BY DEF RecordOf, View

\* A step leaves a record alone, or changes it so.
LEMMA RecordStep ==
    ASSUME GenInv, [Next]_vars, NEW t \in TaskIds
    PROVE  RecordOf(t)' = RecordOf(t) \/ Lifecycle!Change(t, RecordOf(t), RecordOf(t)')
<1>0. /\ tasks \in Seq(Task) /\ TasksMove
      /\ t \in DOMAIN tasks => tasks[t] \in Task /\ TaskOK(tasks[t])
  BY TasksStep, ElementOfSeq, LenProperties DEF GenInv, Types, TasksOK
<1>1. CASE UNCHANGED tasks
  BY <1>1, RecordIs, RecordNext
<1>2. CASE \E r : Moves(r)
  <2>1. PICK r : Moves(r)
    BY <1>2
  <2>2. DOMAIN tasks' = DOMAIN tasks /\ run.task \in DOMAIN tasks /\ Live(run.task)
    BY <2>1 DEF Moves, GenInv, LiveIsRun
  <2>3. CASE t = run.task
    <3>1. tasks'[t] = r /\ TaskStep(tasks[t], r) /\ tasks[t].st # "terminal"
      BY <2>1, <2>2, <2>3 DEF Moves, Live
    <3>2. Lifecycle!Change(t, View(tasks[t]), View(r))
      BY <1>0, <2>2, <2>3, <3>1, ViewSteps
    <3>. QED  BY <2>2, <2>3, <3>1, <3>2, RecordIs, RecordNext
  <2>4. CASE t # run.task
    <3>1. t \in DOMAIN tasks => tasks'[t] = tasks[t]
      BY <2>1, <2>4 DEF Moves
    <3>. QED  BY <2>2, <3>1, RecordIs, RecordNext
  <2>. QED  BY <2>3, <2>4
<1>3. CASE tasks' = Append(tasks, NewTask)
  <2>1. NewTask \in Task
    BY GenerationAssumption DEF NewTask, Task, Checkpoint, AtPrepare
  <2>2. /\ DOMAIN tasks' = 1 .. Len(tasks) + 1 /\ DOMAIN tasks = 1 .. Len(tasks)
        /\ Len(tasks) \in Nat /\ tasks'[Len(tasks) + 1] = NewTask
        /\ \A i \in DOMAIN tasks : tasks'[i] = tasks[i]
    BY <1>0, <1>3, <2>1, Extend
  <2>3. CASE t = Len(tasks) + 1
    <3>1. RecordOf(t) = NoRecord /\ RecordOf(t)' = View(NewTask)
      BY <2>2, <2>3, RecordIs, RecordNext
    <3>. QED  BY <3>1, ViewNew
  <2>4. CASE t # Len(tasks) + 1
    <3>1. t \in DOMAIN tasks' <=> t \in DOMAIN tasks
      BY <2>2, <2>4 DEF TaskIds
    <3>. QED  BY <2>2, <3>1, RecordIs, RecordNext
  <2>. QED  BY <2>3, <2>4
<1>4. CASE Reopen
  <2>1. /\ DOMAIN tasks' = DOMAIN tasks
        /\ t \in DOMAIN tasks => tasks'[t] = IF tasks[t].st = "running"
                                             THEN [tasks[t] EXCEPT !.st = "pending"] ELSE tasks[t]
    BY <1>4 DEF Reopen
  <2>2. CASE t \in DOMAIN tasks /\ tasks[t].st = "running"
    <3>1. RecordOf(t) = View(tasks[t]) /\ RecordOf(t)' = View([tasks[t] EXCEPT !.st = "pending"])
      BY <2>1, <2>2, RecordIs, RecordNext
    <3>. QED  BY <1>0, <2>2, <3>1, ViewBack
  <2>3. CASE ~(t \in DOMAIN tasks /\ tasks[t].st = "running")
    <3>1. t \in DOMAIN tasks => tasks'[t] = tasks[t]
      BY <2>1, <2>3
    <3>. QED  BY <2>1, <3>1, RecordIs, RecordNext
  <2>. QED  BY <2>2, <2>3
<1>. QED  BY <1>0, <1>1, <1>2, <1>3, <1>4 DEF TasksMove

\* There is at most one task per request, so TaskLifecycle sees every one.
LEMMA TasksAreSeen ==
    ASSUME GenInv
    PROVE  DOMAIN tasks \subseteq TaskIds
<1>. /\ subs \in Seq(Sub) /\ Len(subs) \in Nat /\ DOMAIN subs = 1 .. Len(subs)
     /\ Len(tasks) \in Nat /\ DOMAIN tasks = 1 .. Len(tasks) /\ Len(tasks) <= Len(subs)
     /\ \A s \in DOMAIN subs : subs[s] \in Sub
  BY LenProperties, ElementOfSeq DEF GenInv, Types, LiveIsRun
<1>. DEFINE f == [s \in DOMAIN subs |-> subs[s].req]
<1>1. f \in Injection(DOMAIN subs, Requests)
  <2>1. f \in [DOMAIN subs -> Requests]
    BY DEF Sub
  <2>2. \A s, q \in DOMAIN subs : f[s] = f[q] => s = q
    BY DEF GenInv, TurnInv, SubsOK, OneEach
  <2>. QED  BY <2>1, <2>2 DEF Injection, IsInjective
<1>2. Cardinality(DOMAIN subs) <= Cardinality(Requests) /\ Cardinality(Requests) \in Nat
  BY <1>1, FS_Injection, FS_CardinalityType, GenerationAssumption
<1>3. Cardinality(1 .. Len(subs)) = Len(subs)
  <2>1. 1 \in Int /\ Len(subs) \in Int
    OBVIOUS
  <2>2. Cardinality(1 .. Len(subs)) = IF 1 > Len(subs) THEN 0 ELSE Len(subs) - 1 + 1
    BY <2>1, FS_Interval
  <2>. QED  BY <2>2
<1>. QED  BY <1>2, <1>3 DEF TaskIds

\* The conversation's generation tasks change only in the ways TaskLifecycle allows:
\* the handler's commits, abort marks, reservations, outcomes and the recovery of a
\* process together (generation.ts, live.ts).  No task goes unseen.
THEOREM TasksImplementLifecycle == Spec => ImplementsLifecycle /\ [](DOMAIN tasks \subseteq TaskIds)
<1>1. Init => Lifecycle!Init
  <2>. SUFFICES ASSUME Init PROVE Lifecycle!Init
    OBVIOUS
  <2>1. DOMAIN tasks = {}
    BY EmptySeq DEF Init
  <2>2. \A t \in TaskIds : RecordOf(t) = Lifecycle!Absent
    BY <2>1 DEF RecordOf, NoRecord, Lifecycle!Absent
  <2>. QED  BY <2>2 DEF Lifecycle!Init
<1>2. GenInv /\ [Next]_vars => [Lifecycle!Next]_([t \in TaskIds |-> RecordOf(t)])
  <2>. SUFFICES ASSUME GenInv, [Next]_vars
                PROVE  Lifecycle!Next
    OBVIOUS
  <2>1. \A t \in TaskIds : RecordOf(t)' = RecordOf(t) \/ Lifecycle!Change(t, RecordOf(t), RecordOf(t)')
    BY RecordStep
  <2>2. ASSUME NEW t \in TaskIds
        PROVE  RecordOf(t)' \in Lifecycle!Record
    <3>1. t \in DOMAIN tasks' => tasks'[t] \in Task /\ TaskOK(tasks'[t])
      BY TasksNext, ElementOfSeq, LenProperties DEF TasksOK
    <3>2. NoRecord \in Lifecycle!Record
      BY DEF NoRecord, Lifecycle!Record, Lifecycle!Absent
    <3>. QED  BY <3>1, <3>2, ViewType, RecordNext
  <2>. QED  BY <2>1, <2>2 DEF Lifecycle!Next
<1>3. GenInv => DOMAIN tasks \subseteq TaskIds
  BY TasksAreSeen
<1>. QED  BY <1>1, <1>2, <1>3, GenInductive, PTL DEF Spec, ImplementsLifecycle, Lifecycle!Spec

------------------------------------------------------------------------------
(* The transcript *)

Errors(q, n) == {e \in DOMAIN q : e > n /\ q[e].stop = "error"}

\* The failed attempts of a run at a checkpoint.
Failed(cp) == IF cp.phase = "retry" THEN cp.attempt ELSE cp.attempt - 1

\* The input of a run is in the transcript, no user entry follows it, and every
\* failed attempt has left an error entry.
RunTranscript ==
    \A s \in run.inputs :
        /\ subs[s].entry \in 1 .. Len(entries)
        /\ \A k \in subs[s].entry + 1 .. Len(entries) : entries[k].kind # "user"
        /\ Cardinality(Errors(entries, subs[s].entry)) = Failed(tasks[run.task].cp)

\* An answered input has a response that stopped, after it and before any other.
AnswerOK(q, u) ==
    u.type = "input" /\ u.st = "done" =>
        /\ u.answer \in u.entry + 1 .. Len(q) /\ q[u.answer].stop = "stop"
        /\ \A k \in u.entry + 1 .. u.answer : q[k].kind # "user"

Answered == \A s \in DOMAIN subs : AnswerOK(entries, subs[s])

TranscriptInv == GenInv /\ RunTranscript /\ Answered

\* What an entry adds to the errors.
LEMMA ErrorsAppend ==
    ASSUME NEW q \in Seq(Entry), NEW e \in Entry, NEW r, r = Append(q, e), NEW n \in Nat, n <= Len(q)
    PROVE  Cardinality(Errors(r, n))
           = IF e.stop = "error" THEN Cardinality(Errors(q, n)) + 1 ELSE Cardinality(Errors(q, n))
<1>1. /\ Len(q) \in Nat /\ DOMAIN r = 1 .. Len(q) + 1 /\ DOMAIN q = 1 .. Len(q)
      /\ r[Len(q) + 1] = e /\ \A j \in DOMAIN q : r[j] = q[j]
  BY Extend
<1>2. Errors(r, n) = IF e.stop = "error" THEN Errors(q, n) \cup {Len(q) + 1} ELSE Errors(q, n)
  BY <1>1 DEF Errors
<1>3. IsFiniteSet(Errors(q, n)) /\ Len(q) + 1 \notin Errors(q, n)
  <2>1. Errors(q, n) \subseteq 1 .. Len(q)
    BY <1>1 DEF Errors
  <2>2. IsFiniteSet(1 .. Len(q))
    BY <1>1, FS_Interval
  <2>3. IsFiniteSet(Errors(q, n))
    BY <2>1, <2>2, FS_Subset
  <2>4. Len(q) + 1 \notin 1 .. Len(q)
    BY <1>1
  <2>. QED  BY <2>1, <2>3, <2>4
<1>4. Cardinality(Errors(q, n) \cup {Len(q) + 1}) = Cardinality(Errors(q, n)) + 1
  BY <1>3, FS_AddElement
<1>. QED  BY <1>2, <1>4

\* The steps of a run that goes on append at most one entry, which is no input's,
\* and count an error exactly when they append one.
RunMove ==
    /\ run' = run
    /\ \/ entries' = entries /\ Failed(tasks[run.task].cp)' = Failed(tasks[run.task].cp)
       \/ \E e \in Entry :
             /\ entries' = Append(entries, e) /\ e.kind # "user"
             /\ Failed(tasks[run.task].cp)' =
                   IF e.stop = "error" THEN Failed(tasks[run.task].cp) + 1
                   ELSE Failed(tasks[run.task].cp)

\* A step that leaves transcript and checkpoint alone.
LEMMA SameRun ==
    ASSUME run' = run, entries' = entries, tasks'[run.task].cp = tasks[run.task].cp
    PROVE  RunMove
BY DEF RunMove, Failed

\* Committing a checkpoint changes the task to it.
LEMMA FailedAfter ==
    ASSUME GenInv, inv # FreeInv, NEW cp, Advance(cp), run' = run
    PROVE  Failed(tasks[run.task].cp)' = Failed(cp)
BY AdvanceIs, AtWork DEF Failed

\* The handler of a run that goes on.
LEMMA GoesRun ==
    ASSUME GenInv, Goes
    PROVE  RunMove
<1>. /\ inv # FreeInv /\ PhaseOK /\ entries \in Seq(Entry) /\ gen \in Presented /\ CpOK(Cp)
     /\ Cp = tasks[run.task].cp /\ Cp.attempt \in Nat /\ run' = run /\ inv.task = run.task
  <2>1. inv # FreeInv
    BY GoesAtWork
  <2>2. Cp = tasks[run.task].cp /\ CpOK(Cp) /\ inv.task = run.task
    BY <2>1, AtWork DEF Cp
  <2>3. run' = run
    BY DEF Goes, Works, PrepareCommits, Defers, FailsOver, RetryEnds, PrepareReads, RequestBegins,
       Chunk, Flush, FlushLands, FlushFails, StreamEnds, StreamResponds, PollResponds, Unwinds, store
  <2>4. Cp.attempt \in Nat
    BY <2>2, GenerationAssumption DEF CpOK, Checkpoint
  <2>. QED  BY <2>1, <2>2, <2>3, <2>4 DEF GenInv, Types
<1>1. CASE PrepareCommits
  <2>1. Cp.phase = "prepare" /\ Advance(AtRequest(Cp.attempt, Len(entries')))
    BY <1>1 DEF PrepareCommits, PhaseOK
  <2>2. Failed(tasks[run.task].cp)' = Failed(AtRequest(Cp.attempt, Len(entries')))
    BY <2>1, FailedAfter
  <2>3. Failed(AtRequest(Cp.attempt, Len(entries'))) = Failed(Cp)
    BY <2>1 DEF Failed, AtRequest
  <2>4. System \in Entry /\ System.kind # "user" /\ System.stop # "error"
    BY EntryTypes DEF System
  <2>. QED  BY <1>1, <2>2, <2>3, <2>4 DEF PrepareCommits, RunMove
<1>2. CASE Defers
  <2>1. PICK now : Advance(AtPoll(Cp.attempt, PollAt(now)))
    BY <1>2 DEF Defers
  <2>2. Cp.phase # "retry" /\ entries' = entries
    BY <1>2 DEF Defers, Classifies, PhaseOK
  <2>3. Failed(tasks[run.task].cp)' = Failed(AtPoll(Cp.attempt, PollAt(now)))
    BY <2>1, FailedAfter
  <2>. HIDE DEF PollAt
  <2>4. Failed(AtPoll(Cp.attempt, PollAt(now))) = Failed(Cp)
    BY <2>2 DEF Failed, AtPoll
  <2>. QED  BY <2>2, <2>3, <2>4 DEF RunMove
<1>3. CASE FailsOver
  <2>1. Cp.phase # "retry" /\ inv.msg = "error" /\ entries' = Append(entries, Assistant("error", inv.text))
    BY <1>3 DEF FailsOver, Classifies, PhaseOK, Response
  <2>2. Failed(tasks[run.task].cp)' = Failed(AtRetry(Cp.attempt))
    BY <1>3, FailedAfter DEF FailsOver
  <2>3. Failed(AtRetry(Cp.attempt)) = Failed(Cp) + 1
    BY <2>1 DEF Failed, AtRetry
  <2>4. /\ Assistant("error", inv.text) \in Entry /\ Assistant("error", inv.text).kind # "user"
        /\ Assistant("error", inv.text).stop = "error"
    BY <2>1, EntryTypes DEF Assistant, Endings
  <2>. QED  BY <2>1, <2>2, <2>3, <2>4 DEF RunMove
<1>4. CASE RetryEnds
  <2>1. Cp.phase = "retry" /\ entries' = entries
    BY <1>4 DEF RetryEnds, Runs
  <2>2. Failed(tasks[run.task].cp)' = Failed(AtPrepare(NextAttempt))
    BY <1>4, FailedAfter DEF RetryEnds
  <2>3. Failed(AtPrepare(NextAttempt)) = Failed(Cp)
    BY <2>1 DEF Failed, AtPrepare, NextAttempt
  <2>. QED  BY <2>1, <2>2, <2>3 DEF RunMove
<1>5. CASE RequestBegins
  <2>1. tasks' = tasks /\ entries' = Converted
    BY <1>5 DEF RequestBegins
  <2>2. Failed(tasks[run.task].cp)' = Failed(tasks[run.task].cp)
    BY <2>1 DEF Failed
  <2>3. /\ Assistant("aborted", gen.chars) \in Entry /\ Assistant("aborted", gen.chars).kind # "user"
        /\ Assistant("aborted", gen.chars).stop # "error"
    BY EntryTypes DEF Assistant
  <2>. QED  BY <2>1, <2>2, <2>3 DEF RunMove, Converted
<1>6. CASE Works /\ ~RequestBegins
  <2>1. tasks' = tasks /\ entries' = entries
    BY <1>6 DEF Works, PrepareReads, Chunk, Flush, FlushLands, FlushFails, StreamEnds,
       StreamResponds, PollResponds, Unwinds, store
  <2>. QED  BY <2>1, SameRun
<1>. QED  BY <1>1, <1>2, <1>3, <1>4, <1>5, <1>6 DEF Goes

\* Every step of a run that does not end.
LEMMA RunStep ==
    ASSUME GenInv, [Next]_vars, Busy, ~Ending
    PROVE  RunMove
<1>. run.task \in DOMAIN tasks /\ tasks[run.task] \in Task
  BY ElementOfSeq, LenProperties DEF GenInv, Types, LiveIsRun
<1>. \A r \in Task : /\ [r EXCEPT !.st = "pending"].cp = r.cp /\ [r EXCEPT !.st = "running"].cp = r.cp
                     /\ [r EXCEPT !.mark = TRUE].cp = r.cp
  BY DEF Task
<1>1. CASE Goes
  BY <1>1, GoesRun
<1>2. ASSUME NEW t \in DOMAIN tasks, Begins(t) \/ Marks(t)
      PROVE  RunMove
  <2>1. t = run.task /\ UNCHANGED <<run, entries>>
    BY <1>2 DEF Begins, Marks, GenInv, LiveIsRun
  <2>2. tasks'[run.task] \in {[tasks[run.task] EXCEPT !.st = "running"],
                              [tasks[run.task] EXCEPT !.mark = TRUE]}
    BY <1>2, <2>1 DEF Begins, Marks
  <2>. QED  BY <2>1, <2>2, SameRun
<1>3. CASE Reopen
  <2>1. tasks'[run.task] \in {tasks[run.task], [tasks[run.task] EXCEPT !.st = "pending"]}
        /\ UNCHANGED <<run, entries>>
    BY <1>3 DEF Reopen
  <2>. QED  BY <2>1, SameRun
<1>4. CASE UNCHANGED vars \/ Quiet
  <2>1. UNCHANGED <<run, entries, tasks>>
    BY <1>4 DEF vars, Quiet, Stop, Withdraw, Resubmit, SubmitBusy, SubmitWrite, Wait, store
  <2>. QED  BY <2>1, SameRun
<1>. QED  BY <1>1, <1>2, <1>3, <1>4, StepKinds DEF Goes, SubmitInput

\* Without a run there is none after a step, unless an input is submitted.
LEMMA NoRunStays ==
    ASSUME GenInv, [Next]_vars, ~Busy, \A c \in Callers : ~SubmitInput(c)
    PROVE  run' = run
<1>1. ~Ending
  BY EndsIt
<1>2. CASE (\E s \in DOMAIN subs : Withdraw(s)) \/ \E c \in Callers : SubmitWrite(c)
  BY <1>2 DEF Withdraw, SubmitWrite
<1>. QED  BY <1>1, <1>2, Elsewhere

\* A new input is the last entry, and nothing has failed.
LEMMA FirstTranscript ==
    ASSUME GenInv, [Next]_vars, NEW c \in Callers, SubmitInput(c)
    PROVE  RunTranscript'
<1>. DEFINE n == Len(subs')
<1>1. run'.inputs = {n} /\ run'.task = Len(tasks') /\ tasks' = Append(tasks, NewTask)
      /\ entries' = Append(entries, User)
  BY DEF SubmitInput, NewTask
<1>2. subs'[n].entry = Len(entries) + 1
  BY Submitted
<1>3. tasks \in Seq(Task) /\ entries \in Seq(Entry) /\ NewTask \in Task /\ User \in Entry
  BY EntryTypes, GenerationAssumption DEF GenInv, Types, NewTask, Task, Checkpoint, AtPrepare
<1>4. tasks'[Len(tasks')].cp = AtPrepare(1)
  <2>1. Len(tasks') = Len(tasks) + 1 /\ tasks'[Len(tasks) + 1] = NewTask
    BY <1>1, <1>3, Extend
  <2>. QED  BY <2>1 DEF NewTask
<1>5. Len(entries') = Len(entries) + 1 /\ Len(entries) \in Nat /\ DOMAIN entries' = 1 .. Len(entries) + 1
  BY <1>1, <1>3, Extend
<1>6. Errors(entries', Len(entries) + 1) = {}
  BY <1>5 DEF Errors
<1>7. Failed(AtPrepare(1)) = 0
  BY DEF Failed, AtPrepare
<1>. HIDE DEF n
<1>8. Failed(tasks[run.task].cp)' = 0
  BY <1>1, <1>4, <1>7
<1>9. Cardinality(Errors(entries', subs'[n].entry)) = 0
  BY <1>2, <1>6, FS_EmptySet
<1>10. /\ subs'[n].entry \in 1 .. Len(entries')
       /\ \A k \in subs'[n].entry + 1 .. Len(entries') : entries'[k].kind # "user"
  BY <1>2, <1>5
<1>11. \A s \in run'.inputs :
          /\ subs'[s].entry \in 1 .. Len(entries')
          /\ \A k \in subs'[s].entry + 1 .. Len(entries') : entries'[k].kind # "user"
          /\ Cardinality(Errors(entries', subs'[s].entry)) = Failed(tasks[run.task].cp)'
  BY <1>1, <1>8, <1>9, <1>10
<1>. QED  BY <1>11 DEF RunTranscript

\* A run keeps its transcript.
LEMMA TranscriptNext ==
    ASSUME TranscriptInv, [Next]_vars
    PROVE  RunTranscript'
<1>. GenInv /\ RunTranscript
  BY DEF TranscriptInv
<1>1. CASE \E c \in Callers : SubmitInput(c)
  BY <1>1, FirstTranscript
<1>2. CASE run' = NoRun
  BY <1>2 DEF RunTranscript, NoRun
<1>3. CASE Ending
  BY <1>2, <1>3, EndsIt, EndedRun
<1>4. CASE ~Busy /\ \A c \in Callers : ~SubmitInput(c)
  BY <1>2, <1>4, NoRunStays DEF Busy
<1>5. CASE Busy /\ ~Ending
  <2>1. RunMove /\ run' = run
    BY <1>5, RunStep DEF RunMove
  <2>2. ASSUME NEW s \in run.inputs
        PROVE  /\ subs'[s].entry \in 1 .. Len(entries')
               /\ \A k \in subs'[s].entry + 1 .. Len(entries') : entries'[k].kind # "user"
               /\ Cardinality(Errors(entries', subs'[s].entry)) = Failed(tasks[run.task].cp)'
    <3>. DEFINE n == subs[s].entry
    <3>1. subs'[s].entry = n
      BY <1>5, SubsNext DEF SubsKeep, GenInv, LiveIsRun
    <3>2. /\ n \in 1 .. Len(entries) /\ \A k \in n + 1 .. Len(entries) : entries[k].kind # "user"
          /\ Cardinality(Errors(entries, n)) = Failed(tasks[run.task].cp)
      BY DEF RunTranscript
    <3>. HIDE DEF n
    <3>3. CASE entries' = entries /\ Failed(tasks[run.task].cp)' = Failed(tasks[run.task].cp)
      BY <3>1, <3>2, <3>3
    <3>4. ASSUME NEW e \in Entry, entries' = Append(entries, e), e.kind # "user",
                 Failed(tasks[run.task].cp)' = IF e.stop = "error" THEN Failed(tasks[run.task].cp) + 1
                                               ELSE Failed(tasks[run.task].cp)
          PROVE  /\ subs'[s].entry \in 1 .. Len(entries')
                 /\ \A k \in subs'[s].entry + 1 .. Len(entries') : entries'[k].kind # "user"
                 /\ Cardinality(Errors(entries', subs'[s].entry)) = Failed(tasks[run.task].cp)'
      <4>1. entries \in Seq(Entry)
        BY DEF GenInv, Types
      <4>2. /\ Len(entries') = Len(entries) + 1 /\ Len(entries) \in Nat
            /\ DOMAIN entries = 1 .. Len(entries) /\ entries'[Len(entries) + 1] = e
            /\ \A k \in DOMAIN entries : entries'[k] = entries[k]
        BY <3>4, <4>1, Extend
      <4>3. n \in Nat /\ n <= Len(entries)
        BY <3>2, <4>2
      <4>4. Cardinality(Errors(entries', n))
            = IF e.stop = "error" THEN Cardinality(Errors(entries, n)) + 1
              ELSE Cardinality(Errors(entries, n))
        BY <3>4, <4>1, <4>3, ErrorsAppend
      <4>5. n \in 1 .. Len(entries')
        BY <3>2, <4>2
      <4>6. \A k \in n + 1 .. Len(entries') : entries'[k].kind # "user"
        <5>. TAKE k \in n + 1 .. Len(entries')
        <5>1. CASE k = Len(entries) + 1
          BY <3>4, <4>2, <5>1
        <5>2. CASE k # Len(entries) + 1
          <6>1. k \in n + 1 .. Len(entries) /\ k \in DOMAIN entries
            BY <4>2, <4>3, <5>2
          <6>. QED  BY <3>2, <4>2, <6>1
        <5>. QED  BY <5>1, <5>2
      <4>7. Cardinality(Errors(entries', n)) = Failed(tasks[run.task].cp)'
        BY <3>2, <3>4, <4>4
      <4>. QED  BY <3>1, <4>5, <4>6, <4>7
    <3>. QED  BY <2>1, <3>3, <3>4 DEF RunMove
  <2>3. \A s \in run'.inputs :
          /\ subs'[s].entry \in 1 .. Len(entries')
          /\ \A k \in subs'[s].entry + 1 .. Len(entries') : entries'[k].kind # "user"
          /\ Cardinality(Errors(entries', subs'[s].entry)) = Failed(tasks[run.task].cp)'
    BY <2>1, <2>2
  <2>. QED  BY <2>3 DEF RunTranscript
<1>. QED  BY <1>1, <1>3, <1>4, <1>5

\* An answer stays one while the transcript grows.
LEMMA AnswerStays ==
    ASSUME GenInv, [Next]_vars, NEW u \in Sub, AnswerOK(entries, u)
    PROVE  AnswerOK(entries', u)
<1>1. /\ Len(entries) \in Nat /\ Len(entries') \in Nat /\ Len(entries) <= Len(entries')
      /\ DOMAIN entries = 1 .. Len(entries)
      /\ \A k \in DOMAIN entries : entries'[k] = entries[k]
  BY EntriesNext
<1>2. u.entry \in Nat /\ u.answer \in Nat
  BY DEF Sub
<1>. QED  BY <1>1, <1>2 DEF AnswerOK

\* The input a run concludes has the response as its answer.
LEMMA AnswerGiven ==
    ASSUME TranscriptInv, [Next]_vars, NEW author, NEW how, Ends(author, how),
           NEW s \in DOMAIN subs, Open(s)
    PROVE  AnswerOK(entries', subs'[s])
<1>. GenInv /\ RunTranscript /\ subs[s] \in Sub /\ entries \in Seq(Entry)
  BY ElementOfSeq, LenProperties DEF TranscriptInv, GenInv, Types
<1>1. subs'[s] = SettledAs(subs[s], how.st, how.answer)
  BY EndedRun
<1>2. /\ subs'[s].st = how.st /\ subs'[s].answer = how.answer /\ subs'[s].entry = subs[s].entry
  <2>1. how.st \in {"done", "unanswered"} /\ how.answer \in Nat
    BY DEF Ends
  <2>2. /\ SettledAs(subs[s], how.st, how.answer).st = how.st
        /\ SettledAs(subs[s], how.st, how.answer).answer = how.answer
        /\ SettledAs(subs[s], how.st, how.answer).entry = subs[s].entry
    BY <2>1 DEF Sub, SettledAs
  <2>. QED  BY <1>1, <2>2
<1>3. CASE how.st # "done"
  BY <1>2, <1>3 DEF AnswerOK
<1>4. CASE how.st = "done"
  <2>1. how = Settlement /\ entries' = Response /\ inv.msg \in {"stop", "error", "fatal"}
    BY <1>4 DEF Ends, Unanswered
  <2>2. inv.msg = "stop" /\ how.answer = Len(entries) + 1
    <3>1. Unanswered.st # "done" /\ Done(Len(entries) + 1).answer = Len(entries) + 1
      BY DEF Unanswered, Done
    <3>2. how = IF inv.msg = "stop" THEN Done(Len(entries) + 1) ELSE Unanswered
      BY <2>1 DEF Settlement
    <3>. HIDE DEF Unanswered, Done
    <3>. QED  BY <1>4, <3>1, <3>2
  <2>. DEFINE e == Assistant("stop", inv.text)
  <2>3. entries' = Append(entries, e) /\ e \in Entry /\ e.kind # "user" /\ e.stop = "stop"
    BY <2>1, <2>2, EntryTypes DEF Response, Assistant, Endings
  <2>. HIDE DEF e
  <2>4. /\ Len(entries') = Len(entries) + 1 /\ Len(entries) \in Nat
        /\ DOMAIN entries = 1 .. Len(entries) /\ entries'[Len(entries) + 1] = e
        /\ \A k \in DOMAIN entries : entries'[k] = entries[k]
    BY <2>3, Extend
  <2>5. /\ subs[s].entry \in 1 .. Len(entries)
        /\ \A k \in subs[s].entry + 1 .. Len(entries) : entries[k].kind # "user"
    BY DEF RunTranscript, GenInv, TurnInv, RunOK
  <2>6. \A k \in subs[s].entry + 1 .. Len(entries) + 1 : entries'[k].kind # "user"
    <3>. TAKE k \in subs[s].entry + 1 .. Len(entries) + 1
    <3>1. CASE k = Len(entries) + 1
      BY <2>3, <2>4, <3>1
    <3>2. CASE k # Len(entries) + 1
      <4>1. k \in subs[s].entry + 1 .. Len(entries) /\ k \in DOMAIN entries
        BY <2>4, <2>5, <3>2
      <4>. QED  BY <2>4, <2>5, <4>1
    <3>. QED  BY <3>1, <3>2
  <2>7. subs'[s].answer \in subs'[s].entry + 1 .. Len(entries') /\ entries'[subs'[s].answer].stop = "stop"
    BY <1>2, <2>2, <2>3, <2>4, <2>5
  <2>. QED  BY <1>2, <2>2, <2>6, <2>7 DEF AnswerOK
<1>. QED  BY <1>3, <1>4

\* Every answer is right after a step.
LEMMA AnsweredNext ==
    ASSUME TranscriptInv, [Next]_vars
    PROVE  Answered'
<1>. GenInv /\ Answered /\ SubsKeep /\ \A s \in DOMAIN subs : subs[s] \in Sub
  BY SubsNext, ElementOfSeq, LenProperties DEF TranscriptInv, GenInv, Types
<1>1. ASSUME NEW s \in DOMAIN subs
      PROVE  AnswerOK(entries', subs'[s])
  <2>1. CASE subs'[s] = subs[s]
    BY <2>1, AnswerStays DEF Answered
  <2>2. CASE ~Open(s)
    BY <2>1, <2>2 DEF SubsKeep
  <2>3. CASE Open(s) /\ Ending
    BY <2>3, EndsIt, AnswerGiven
  <2>4. ASSUME NEW q \in DOMAIN subs, Withdraw(q)
        PROVE  AnswerOK(entries', subs'[s])
    <3>1. CASE q = s
      <4>1. subs'[s].st = "unanswered"
        <5>1. SettledAs(subs[s], "unanswered", 0).st = "unanswered"
          BY SettledType
        <5>. QED  BY <2>4, <3>1, <5>1, Withdrawn
      <4>. QED  BY <4>1 DEF AnswerOK
    <3>. QED  BY <2>1, <2>4, <3>1, Withdrawn
  <2>5. ASSUME NEW c \in Callers, SubmitInput(c) \/ SubmitWrite(c)
        PROVE  AnswerOK(entries', subs'[s])
    BY <2>1, <2>5, Submitted
  <2>. QED  BY <2>1, <2>2, <2>3, <2>4, <2>5, Elsewhere
<1>2. ASSUME NEW s \in DOMAIN subs', s \notin DOMAIN subs
      PROVE  AnswerOK(entries', subs'[s])
  <2>1. CASE Ending
    <3>1. DOMAIN subs' = DOMAIN subs
      BY <2>1, EndsIt, EndedRun
    <3>. QED  BY <1>2, <3>1
  <2>2. CASE \E q \in DOMAIN subs : Withdraw(q)
    BY <1>2, <2>2, Withdrawn
  <2>3. ASSUME NEW c \in Callers, SubmitWrite(c)
        PROVE  AnswerOK(entries', subs'[s])
    <3>1. s = Len(subs') /\ subs'[Len(subs')].type = Asks[c].type
      BY <1>2, <2>3, Submitted
    <3>2. Asks[c].type = "write"
      BY <2>3 DEF SubmitWrite
    <3>. QED  BY <3>1, <3>2 DEF AnswerOK
  <2>4. ASSUME NEW c \in Callers, SubmitInput(c)
        PROVE  AnswerOK(entries', subs'[s])
    <3>1. s = Len(subs')
      BY <1>2, <2>4, Submitted
    <3>2. subs' = Append(subs, Submission(c, "placed")) /\ IsSeq(subs)
      BY <2>4 DEF SubmitInput, GenInv, TurnInv, SubsOK
    <3>3. subs'[Len(subs')] = Submission(c, "placed")
      BY <3>2, AppendSeq
    <3>. QED  BY <3>1, <3>3 DEF AnswerOK, Submission
  <2>. QED  BY <1>2, <2>1, <2>2, <2>3, <2>4, Elsewhere
<1>3. \A s \in DOMAIN subs' : AnswerOK(entries', subs'[s])
  BY <1>1, <1>2
<1>. QED  BY <1>3 DEF Answered

\* Every failed attempt of a live run has left exactly one error entry after its
\* input, however often the process died, and the answer of an input is a response
\* that stopped, after the input and before any other one (classify, generation.ts).
THEOREM TranscriptFits == Spec => []TranscriptMatchesRun
<1>1. Init => TranscriptInv
  <2>. SUFFICES ASSUME Init PROVE TranscriptInv
    OBVIOUS
  <2>1. GenInv
    BY GenInit
  <2>2. DOMAIN subs = {} /\ run = NoRun
    BY EmptySeq DEF Init
  <2>3. RunTranscript /\ Answered
    BY <2>2 DEF RunTranscript, Answered, NoRun
  <2>. QED  BY <2>1, <2>3 DEF TranscriptInv
<1>2. TranscriptInv /\ [Next]_vars => TranscriptInv'
  BY GenStep, TranscriptNext, AnsweredNext DEF TranscriptInv
<1>3. TranscriptInv => TranscriptMatchesRun
  <2>. SUFFICES ASSUME TranscriptInv PROVE TranscriptMatchesRun
    OBVIOUS
  <2>1. ASSUME NEW s \in DOMAIN subs, s \in run.inputs
        PROVE  Cardinality({e \in DOMAIN entries :
                              e > subs[s].entry /\ entries[e].stop = "error"})
               = IF tasks[run.task].cp.phase = "retry" THEN tasks[run.task].cp.attempt
                 ELSE tasks[run.task].cp.attempt - 1
    BY <2>1 DEF TranscriptInv, RunTranscript, Errors, Failed
  <2>2. ASSUME NEW s \in DOMAIN subs, subs[s].type = "input", subs[s].st = "done"
        PROVE  /\ subs[s].answer \in subs[s].entry + 1 .. Len(entries)
               /\ entries[subs[s].answer].stop = "stop"
               /\ \A k \in subs[s].entry + 1 .. subs[s].answer : entries[k].kind # "user"
    BY <2>2 DEF TranscriptInv, Answered, AnswerOK
  <2>. QED  BY <2>1, <2>2 DEF TranscriptMatchesRun
<1>. QED  BY <1>1, <1>2, <1>3, PTL DEF Spec
=============================================================================
