------------------------- MODULE TaskSchedulerProofs -------------------------
(***************************************************************************)
(* Proofs about TaskScheduler, for every value of its constants.           *)
(*                                                                         *)
(* The first part is the type invariant, and that no two handlers of one   *)
(* task execute at once.  Both rest on IInv: the tasks a reservation has   *)
(* still to visit are live and free, and an invocation that has not ended  *)
(* and still has a handler before it holds the slot of its task.           *)
(*                                                                         *)
(* The second part is about what the scheduler commits: CInv relates the   *)
(* records in Storage, the mirror, the writes on the line and the          *)
(* invocations that hold tasks.                                            *)
(*                                                                         *)
(* The last part proves what callers are promised (waiters are served,     *)
(* abort(t) returns after the run it aborts, Storage closes last, no       *)
(* wakeup is lost), each by one more invariant over CInv.                  *)
(***************************************************************************)
EXTENDS TaskScheduler, TLAPS

\* Where an invocation stands while a handler of it may still start.
HeldPcs == {"reserved", "granted", "step", "dispatch", "handler"}

\* What #reserve() has still to visit is live, and nothing holds it.
TodoIsFree == \A t \in todo : live[t] # Absent /\ slot[t] = NoInv

\* An invocation that has not ended belongs to a task.
ObjectsHaveTasks == \A i \in Invs : ~inv[i].ended => inv[i].task \in Tasks

\* An invocation with a handler ahead has not ended and holds its task's slot.
SlotsAreHeld ==
    \A i \in Invs : inv[i].pc \in HeldPcs =>
        ~inv[i].ended /\ slot[inv[i].task] = i

HeldInv == TodoIsFree /\ ObjectsHaveTasks /\ SlotsAreHeld
IInv == TypeOK /\ HeldInv

------------------------------------------------------------------------------
(* Records and invocation objects *)

\* A record that is live by its status has the live form.
LEMMA LiveForm ==
    ASSUME NEW r \in Record, IsLive(r)
    PROVE  r \in LiveRecord
BY DEF Record, IsLive, TerminalRecord, Absent

\* Settling a live record gives a terminal one.
LEMMA SettledForm ==
    ASSUME NEW r \in LiveRecord, NEW author \in Authors \ {"none"}
    PROVE  Settled(r, author) \in Record
BY DEF Settled, LiveRecord, TerminalRecord, Record

\* A live record stays one when it changes status, mark, checkpoint or memo.
LEMMA LiveUpdates ==
    ASSUME NEW r \in LiveRecord
    PROVE  /\ \A s \in {"pending", "running"} : [r EXCEPT !.st = s] \in LiveRecord
           /\ [r EXCEPT !.mark = TRUE] \in LiveRecord
           /\ \A c \in Checkpoints : [r EXCEPT !.st = "running", !.cp = c] \in LiveRecord
           /\ \A k \in Memos : [r EXCEPT !.memo = k] \in LiveRecord
           /\ \A v \in Versions, c \in Checkpoints : [r EXCEPT !.ver = v, !.cp = c] \in LiveRecord
BY DEF LiveRecord

\* Whatever #resolve decides, the record to reserve is live.
LEMMA ResolvedForm ==
    ASSUME NEW t \in Tasks, NEW r \in LiveRecord, NEW d \in Defs \cup {NoDef},
           NEW res \in Resolutions(t, r, d)
    PROVE  res.rec \in LiveRecord
<1>. DEFINE kept(ok, tried) == [ok |-> ok, tried |-> tried, rec |-> r]
            moved(c) == [ok |-> TRUE, tried |-> FALSE,
                         rec |-> [r EXCEPT !.ver = d.ver, !.cp = c]]
<1>1. CASE Unfit(t, r, d)
  <2>1. res = kept(FALSE, FALSE)
    BY <1>1 DEF Resolutions
  <2>. QED  BY <2>1
<1>2. CASE ~Unfit(t, r, d) /\ d.ver = r.ver
  <2>1. res = kept(TRUE, FALSE)
    BY <1>2 DEF Resolutions
  <2>. QED  BY <2>1
<1>3. CASE ~Unfit(t, r, d) /\ d.ver # r.ver
  <2>1. res = kept(FALSE, TRUE) \/ \E c \in Checkpoints : res = moved(c)
    BY <1>3 DEF Resolutions
  <2>2. d \in Defs /\ d.ver \in Versions
    BY <1>3, SchedulerAssumption DEF Unfit
  <2>3. \A c \in Checkpoints : moved(c).rec \in LiveRecord
    BY <2>2, LiveUpdates
  <2>4. CASE res = kept(FALSE, TRUE)
    BY <2>4
  <2>5. CASE \E c \in Checkpoints : res = moved(c)
    BY <2>3, <2>5
  <2>. QED  BY <2>1, <2>4, <2>5
<1>. QED  BY <1>1, <1>2, <1>3

\* An invocation object stays one when the scheduler moves it.
LEMMA ObjectUpdates ==
    ASSUME NEW w \in Invocation
    PROVE  /\ \A p \in Pcs : [w EXCEPT !.pc = p] \in Invocation
           /\ [w EXCEPT !.ended = TRUE] \in Invocation
           /\ [w EXCEPT !.sig = TRUE] \in Invocation
           /\ \A o \in {"none", "ahead", "behind"} : [w EXCEPT !.out = o] \in Invocation
           /\ \A p \in Pcs : [w EXCEPT !.pc = p, !.ended = TRUE] \in Invocation
BY DEF Invocation

\* An invocation whose step continues remembers the checkpoint it dispatches.
LEMMA DispatchedForm ==
    ASSUME NEW w \in Invocation, NEW c \in Checkpoints
    PROVE  LET v == [w EXCEPT !.pc = "dispatch", !.threw = FALSE, !.prev = c] IN
             v \in Invocation /\ v.task = w.task /\ v.ended = w.ended
<1>1. "dispatch" \in Pcs
  BY DEF Pcs
<1>. QED  BY <1>1 DEF Invocation

\* An invocation back from its handler keeps its task and has not ended anew.
LEMMA ReturnedForm ==
    ASSUME NEW w \in Invocation, NEW threw \in BOOLEAN
    PROVE  /\ Returned(w, threw) \in Invocation
           /\ Returned(w, threw).task = w.task
           /\ Returned(w, threw).ended = w.ended
<1>. DEFINE o == IF w.out = "none" THEN "none" ELSE "ahead"
<1>1. o \in {"none", "ahead", "behind"}
  OBVIOUS
<1>2. Returned(w, threw) = [w EXCEPT !.pc = "step", !.threw = threw, !.out = o]
  BY DEF Returned
<1>3. "step" \in Pcs
  BY DEF Pcs
<1>. HIDE DEF o
<1>. QED  BY <1>1, <1>2, <1>3 DEF Invocation

\* The free invocation object is well formed and has ended.
LEMMA FreeObject ==
    FreeInv \in Invocation /\ FreeInv.pc = "free" /\ FreeInv.ended = TRUE
BY DEF FreeInv, Invocation, Pcs

------------------------------------------------------------------------------
(* Effects that several actions share *)

\* Ending an invocation keeps the objects and slots typed.
LEMMA EndEffect ==
    ASSUME ObjectsOK, NEW i \in Invs, NEW w \in Invocation, End(i, w)
    PROVE  ObjectsOK'
<1>1. [w EXCEPT !.ended = TRUE] \in Invocation
  BY ObjectUpdates
<1>. QED  BY <1>1 DEF ObjectsOK, End

\* Finishing invocations keeps what close and abort() join typed.
LEMMA FinishEffect ==
    ASSUME JoinOK, NEW S \in SUBSET Invs, Finish(S)
    PROVE  JoinOK'
BY DEF JoinOK, Finish

\* A kick keeps the loop typed.
LEMMA KickEffect == ASSUME LoopOK, Kick PROVE LoopOK'
BY DEF LoopOK, Kick, Kicked

\* So does resume().
LEMMA ResumeEffect == ASSUME LoopOK, Resume PROVE LoopOK'
BY DEF LoopOK, Resume

\* Spending the budget of the environment keeps it natural.
LEMMA SpendEffect ==
    ASSUME EnvOK, NEW kind \in BudgetKinds, Spend(kind)
    PROVE  budget' \in [BudgetKinds -> Nat]
BY DEF EnvOK, Spend

\* A new process is well formed.
LEMMA FreshEffect ==
    ASSUME Fresh
    PROVE  LoopOK' /\ ObjectsOK' /\ JoinOK' /\ WaitOK'
           /\ poisoned' \in BOOLEAN /\ closing' \in BOOLEAN
           /\ closePc' \in {"none", "sealed", "joining", "done"}
           /\ failed' \in [Tasks -> Defs \cup {NoDef}]
<1>1. ObjectsOK'
  BY FreeObject DEF Fresh, ObjectsOK
<1>2. LoopOK' /\ WaitOK' /\ JoinOK'
  BY DEF Fresh, LoopOK, WaitOK, JoinOK
<1>. QED  BY <1>1, <1>2 DEF Fresh

\* A job without writes stages records all the same: Absent ones.
LEMMA NoWritesForm == NoWrites \in [Tasks -> Record]
BY DEF NoWrites, Record

\* What a commit leaves in Storage is records.
LEMMA LandedForm ==
    ASSUME StoreOK, LineOK
    PROVE  Landed \in [Tasks -> Record]
BY DEF StoreOK, LineOK, Landed

\* The empty line is a job.
LEMMA NoJobForm == NoJob \in Job
BY DEF NoJob, Job

\* The jobs the actions put on the line are well formed.
LEMMA JobForms ==
    /\ [NoJob EXCEPT !.kind = "open"] \in Job
    /\ \A d \in Defs \cup {NoDef} : [NoJob EXCEPT !.kind = "reserve", !.def = d] \in Job
    /\ \A i \in Invs : /\ [NoJob EXCEPT !.kind = "step", !.inv = i] \in Job
                       /\ [NoJob EXCEPT !.kind = "commit", !.inv = i] \in Job
    /\ \A t \in Tasks : [NoJob EXCEPT !.kind = "create", !.task = t] \in Job
    /\ \A t \in Tasks, i \in Invs \cup {NoInv} :
         [NoJob EXCEPT !.kind = "abort", !.task = t, !.inv = i] \in Job
BY DEF NoJob, Job

------------------------------------------------------------------------------
(* Every action keeps the type *)

\* Opening, crashing, closing and registry changes keep the types.
LEMMA LifeType ==
    ASSUME TypeOK, Life
    PROVE  TypeOK'
<1>. USE DEF TypeOK, storeVars, lineVars, loopVars, joinVars, waitVars, closeVars,
             envVars
<1>1. ASSUME Open PROVE TypeOK'
  <2>. Fresh /\ UNCHANGED <<durable, envVars>>
    BY <1>1 DEF Open
  <2>1. \A t \in Tasks : durable[t].st = "running" =>
                            [durable[t] EXCEPT !.st = "pending"] \in Record
    BY LiveForm, LiveUpdates DEF StoreOK, IsLive, Record
  <2>2. staged' \in [Tasks -> Record]
    BY <1>1, <2>1 DEF Open, Record
  <2>3. live' \in [Tasks -> {Absent} \cup LiveRecord]
    BY <1>1, LiveForm DEF Open, LiveOf, StoreOK
  <2>4. job' \in Job /\ sess' \in {"open", "opening"} /\ todo' = {}
    BY <1>1, NoJobForm, JobForms DEF Open
  <2>. QED  BY <2>2, <2>3, <2>4, FreshEffect DEF StoreOK, LineOK, CloseOK, EnvOK
<1>2. ASSUME Crash PROVE TypeOK'
  <2>. Fresh
    BY <1>2 DEF Crash
  <2>1. durable' \in [Tasks -> Record] /\ live' \in [Tasks -> {Absent} \cup LiveRecord]
    BY <1>2, LandedForm DEF Crash, StoreOK
  <2>2. budget' \in [BudgetKinds -> Nat] /\ registry' \in Defs \cup {NoDef}
    BY <1>2, SpendEffect DEF Crash, EnvOK, BudgetKinds
  <2>3. LineOK' /\ sess' = "down"
    BY <1>2, NoJobForm, NoWritesForm DEF Crash, LineOK
  <2>. QED  BY <2>1, <2>2, <2>3, FreshEffect DEF StoreOK, CloseOK, EnvOK
<1>3. ASSUME Swap PROVE TypeOK'
  <2>1. EnvOK'
    BY <1>3, SpendEffect DEF Swap, EnvOK, BudgetKinds
  <2>2. LoopOK'
    BY <1>3, KickEffect DEF Swap, LoopOK
  <2>. QED  BY <1>3, <2>1, <2>2
            DEF Swap, StoreOK, LineOK, ObjectsOK, JoinOK, WaitOK, CloseOK
<1>4. ASSUME Close PROVE TypeOK'
  <2>1. \A i \in Invs : [inv[i] EXCEPT !.sig = TRUE] \in Invocation
    BY ObjectUpdates DEF ObjectsOK
  <2>2. ObjectsOK'
    BY <1>4, <2>1 DEF Close, ObjectsOK
  <2>3. WaitOK' /\ CloseOK'
    BY <1>4 DEF Close, WaitOK, CloseOK, Rejected
  <2>. QED  BY <1>4, <2>2, <2>3 DEF Close, StoreOK, LineOK, LoopOK, JoinOK, EnvOK
<1>5. ASSUME Join PROVE TypeOK'
  BY <1>5 DEF Join, StoreOK, LineOK, LoopOK, ObjectsOK, JoinOK, WaitOK, CloseOK, EnvOK
<1>6. ASSUME CloseStorage PROVE TypeOK'
  BY <1>6 DEF CloseStorage, StoreOK, LineOK, LoopOK, ObjectsOK, JoinOK, WaitOK, CloseOK, EnvOK
<1>. QED  BY <1>1, <1>2, <1>3, <1>4, <1>5, <1>6 DEF Life

\* So does the loop, which reserves only live records.
LEMMA LoopType ==
    ASSUME TypeOK, TodoIsFree, Loop
    PROVE  TypeOK'
<1>. USE DEF TypeOK, storeVars, lineVars, loopVars, joinVars, waitVars, closeVars,
             envVars, outerVars
<1>1. ASSUME DrainTurn PROVE TypeOK'
  <2>1. LoopOK'
    BY <1>1 DEF DrainTurn, LoopOK, Usable
  <2>. QED  BY <1>1, <2>1
            DEF DrainTurn, StoreOK, LineOK, ObjectsOK, JoinOK, WaitOK, CloseOK, EnvOK
<1>2. ASSUME ReserveBegin PROVE TypeOK'
  <2>1. job' \in Job /\ todo' \in SUBSET Tasks
    BY <1>2, JobForms DEF ReserveBegin, EnvOK, Candidates
  <2>. QED  BY <1>2, <2>1 DEF ReserveBegin, StoreOK, LineOK, LoopOK, ObjectsOK,
                              JoinOK, WaitOK, CloseOK, EnvOK
<1>3. ASSUME NEW t \in Tasks, VisitBlocked(t) PROVE TypeOK'
  <2>1. live[t] \in LiveRecord
    BY <1>3 DEF VisitBlocked, TodoIsFree, StoreOK
  <2>2. Settled(live[t], "orphaned") \in Record
    BY <2>1, SettledForm DEF Authors
  <2>3. LineOK'
    BY <1>3, <2>2 DEF VisitBlocked, LineOK
  <2>4. failed' \in [Tasks -> Defs \cup {NoDef}]
    BY <1>3 DEF VisitBlocked, Remember, LineOK, Job
  <2>. QED  BY <1>3, <2>3, <2>4
            DEF VisitBlocked, StoreOK, LoopOK, ObjectsOK, JoinOK, WaitOK, CloseOK, EnvOK
<1>4. ASSUME NEW t \in Tasks, VisitReserve(t) PROVE TypeOK'
  <2>1. live[t] \in LiveRecord /\ job.def \in Defs \cup {NoDef}
    BY <1>4 DEF VisitReserve, TodoIsFree, StoreOK, LineOK, Job
  <2>2. \A mode \in {"run", "abort"} : NewInv(t, mode, job.def) \in Invocation
    BY <2>1 DEF NewInv, FreeInv, Invocation, Pcs
  <2>3. FreshInv \in Invs
    BY <1>4 DEF VisitReserve, FreshInv
  <2>4. ObjectsOK'
    BY <1>4, <2>2, <2>3 DEF VisitReserve, ObjectsOK
  <2>5. \A res \in Resolutions(t, live[t], job.def) :
          [res.rec EXCEPT !.st = "running"] \in Record
    BY <2>1, ResolvedForm, LiveUpdates DEF Record
  <2>6. LineOK'
    BY <1>4, <2>5 DEF VisitReserve, LineOK
  <2>. QED  BY <1>4, <2>4, <2>6
            DEF VisitReserve, StoreOK, LoopOK, JoinOK, WaitOK, CloseOK, EnvOK
<1>. QED  BY <1>1, <1>2, <1>3, <1>4 DEF Loop

\* An invocation of a task that is still live, with the record #step and the
\* gate of a runtime commit read.
LEMMA HeldRecord ==
    ASSUME TypeOK, ObjectsHaveTasks, NEW i \in Invs, ~inv[i].ended,
           live[inv[i].task] # Absent
    PROVE  inv[i].task \in Tasks /\ live[inv[i].task] \in LiveRecord
BY DEF ObjectsHaveTasks, TypeOK, StoreOK

\* So do the invocations, which write only while their task is live.
LEMMA HandlersType ==
    ASSUME TypeOK, ObjectsHaveTasks, SlotsAreHeld, Handlers
    PROVE  TypeOK'
<1>. USE DEF TypeOK, storeVars, lineVars, loopVars, joinVars, waitVars, closeVars,
             envVars, outerVars
<1>. \A i \in Invs : inv[i] \in Invocation
  BY DEF ObjectsOK
<1>1. ASSUME NEW i \in Invs, Start(i) PROVE TypeOK'
  <2>1. \A p \in Pcs : [inv[i] EXCEPT !.pc = p] \in Invocation
    BY ObjectUpdates
  <2>2. ObjectsOK'
    BY <1>1, <2>1, EndEffect DEF Start, ObjectsOK, Pcs
  <2>. QED  BY <1>1, <2>2 DEF Start, StoreOK, LineOK, LoopOK, JoinOK, WaitOK, CloseOK, EnvOK
<1>2. ASSUME NEW i \in Invs, StepEnds(i) PROVE TypeOK'
  <2>1. [inv[i] EXCEPT !.pc = "finally"] \in Invocation
    BY ObjectUpdates DEF Pcs
  <2>2. ObjectsOK'
    BY <1>2, <2>1, EndEffect DEF StepEnds
  <2>. QED  BY <1>2, <2>2 DEF StepEnds, StoreOK, LineOK, LoopOK, JoinOK, WaitOK, CloseOK, EnvOK
<1>3. ASSUME NEW i \in Invs, StepContinues(i) PROVE TypeOK'
  <2>1. live[inv[i].task] \in LiveRecord
    BY <1>3, HeldRecord DEF StepContinues, StepBegin, MustEnd, SlotsAreHeld, HeldPcs
  <2>2. live[inv[i].task].cp \in Checkpoints
    BY <2>1 DEF LiveRecord
  <2>3. [inv[i] EXCEPT !.pc = "dispatch", !.threw = FALSE,
                       !.prev = live[inv[i].task].cp] \in Invocation
    BY <2>2, DispatchedForm DEF ObjectsOK
  <2>4. /\ inv' = [inv EXCEPT ![i] = [inv[i] EXCEPT !.pc = "dispatch", !.threw = FALSE,
                                                  !.prev = live[inv[i].task].cp]]
        /\ UNCHANGED slot
    BY <1>3 DEF StepContinues, ObjectsOK
  <2>5. ObjectsOK'
    BY <2>3, <2>4 DEF ObjectsOK
  <2>. QED  BY <1>3, <2>5
            DEF StepContinues, StoreOK, LineOK, LoopOK, JoinOK, WaitOK, CloseOK, EnvOK
<1>4. ASSUME NEW i \in Invs, StepWrites(i) PROVE TypeOK'
  <2>1. inv[i].task \in Tasks /\ live[inv[i].task] \in LiveRecord
    BY <1>4, HeldRecord DEF StepWrites, StepBegin, MustEnd, MustFault, MustHandOver,
                               SlotsAreHeld, HeldPcs
  <2>2. /\ Settled(live[inv[i].task], "faulted") \in Record
        /\ [live[inv[i].task] EXCEPT !.st = "pending"] \in Record
    BY <2>1, SettledForm, LiveUpdates DEF Authors, Record
  <2>3. LineOK'
    BY <1>4, <2>1, <2>2, JobForms DEF StepWrites, LineOK
  <2>4. [inv[i] EXCEPT !.pc = "settling"] \in Invocation
    BY ObjectUpdates DEF Pcs
  <2>5. ObjectsOK'
    BY <1>4, <2>4, EndEffect DEF StepWrites
  <2>. QED  BY <1>4, <2>3, <2>5 DEF StepWrites, StoreOK, LoopOK, JoinOK, WaitOK, CloseOK, EnvOK
<1>5. ASSUME NEW i \in Invs, Dispatch(i) PROVE TypeOK'
  <2>1. ObjectsOK'
    BY <1>5, ObjectUpdates DEF Dispatch, ObjectsOK, Pcs
  <2>. QED  BY <1>5, <2>1 DEF Dispatch, StoreOK, LineOK, LoopOK, JoinOK, WaitOK, CloseOK, EnvOK
<1>6. ASSUME NEW i \in Invs, HandlerCommit(i) PROVE TypeOK'
  <2>1. ObjectsOK'
    BY <1>6, ObjectUpdates DEF HandlerCommit, ObjectsOK
  <2>. QED  BY <1>6, <2>1 DEF HandlerCommit, StoreOK, LineOK, LoopOK, JoinOK, WaitOK, CloseOK, EnvOK
<1>7. ASSUME NEW i \in Invs, CommitNothing(i) PROVE TypeOK'
  <2>1. Dequeued(inv[i]) \in Invocation
    BY ObjectUpdates, FreeObject DEF Dequeued
  <2>2. ObjectsOK'
    BY <1>7, <2>1 DEF CommitNothing, ObjectsOK
  <2>. QED  BY <1>7, <2>2 DEF CommitNothing, StoreOK, LineOK, LoopOK, JoinOK, WaitOK, CloseOK, EnvOK
<1>8. ASSUME NEW i \in Invs, CommitWrites(i) PROVE TypeOK'
  <2>2. inv[i].task \in Tasks /\ live[inv[i].task] \in LiveRecord
    BY <1>8, HeldRecord DEF CommitWrites, Gated
  <2>3. Settled(live[inv[i].task], inv[i].mode) \in Record
    BY <2>2, SettledForm DEF Invocation, Authors
  <2>4. /\ \A c \in Checkpoints : [live[inv[i].task] EXCEPT !.st = "running", !.cp = c] \in Record
        /\ \A k \in MemoChoices(live[inv[i].task]) : [live[inv[i].task] EXCEPT !.memo = k] \in Record
    BY <2>2, LiveUpdates DEF MemoChoices, Record
  <2>5. \E q \in Record : staged' = [staged EXCEPT ![inv[i].task] = q]
    <3>. DEFINE Choices ==
           {[live[inv[i].task] EXCEPT !.st = "running", !.cp = c] : c \in Checkpoints}
           \cup {Settled(live[inv[i].task], inv[i].mode)}
           \cup {[live[inv[i].task] EXCEPT !.memo = k] : k \in MemoChoices(live[inv[i].task])}
    <3>1. \E q \in Choices : staged' = [staged EXCEPT ![inv[i].task] = q]
      BY <1>8, Zenon DEF CommitWrites
    <3>2. Choices \subseteq Record
      BY <2>3, <2>4
    <3>. HIDE DEF Choices
    <3>. QED  BY <3>1, <3>2
  <2>6. /\ job' = [NoJob EXCEPT !.kind = "commit", !.inv = i]
        /\ UNCHANGED <<storeVars, todo, loopVars, slot, inv, joinVars, failed, outerVars>>
    BY <1>8 DEF CommitWrites
  <2>7. LineOK'
    BY <2>2, <2>5, <2>6, JobForms DEF LineOK
  <2>. QED  BY <2>6, <2>7 DEF StoreOK, LoopOK, ObjectsOK, JoinOK, WaitOK, CloseOK, EnvOK
<1>9. ASSUME NEW i \in Invs, HandlerReturn(i) PROVE TypeOK'
  <2>1. \A threw \in BOOLEAN : Returned(inv[i], threw) \in Invocation
    BY ReturnedForm
  <2>2. [inv[i] EXCEPT !.pc = "finally"] \in Invocation
    BY ObjectUpdates DEF Pcs
  <2>3. ObjectsOK'
    BY <1>9, <2>1, <2>2, EndEffect DEF HandlerReturn, ObjectsOK
  <2>. QED  BY <1>9, <2>3 DEF HandlerReturn, StoreOK, LineOK, LoopOK, JoinOK, WaitOK, CloseOK, EnvOK
<1>10. ASSUME NEW i \in Invs, Finally(i) PROVE TypeOK'
  <2>1. Retired(inv[i]) \in Invocation
    BY ObjectUpdates, FreeObject DEF Retired, Pcs
  <2>2. ObjectsOK'
    BY <1>10, <2>1, EndEffect DEF Finally
  <2>3. JoinOK' /\ LoopOK'
    BY <1>10, FinishEffect, KickEffect DEF Finally
  <2>. QED  BY <1>10, <2>2, <2>3 DEF Finally, StoreOK, LineOK, WaitOK, CloseOK, EnvOK
<1>. QED  BY <1>1, <1>2, <1>3, <1>4, <1>5, <1>6, <1>7, <1>8, <1>9, <1>10 DEF Handlers

\* So do the callers.
LEMMA CallersType ==
    ASSUME TypeOK, Callers
    PROVE  TypeOK'
<1>. USE DEF TypeOK, storeVars, lineVars, loopVars, joinVars, waitVars, closeVars,
             envVars, outerVars
<1>1. ASSUME ResumeCall PROVE TypeOK'
  <2>1. LoopOK'
    BY <1>1, ResumeEffect DEF ResumeCall
  <2>. QED  BY <1>1, <2>1
            DEF ResumeCall, StoreOK, LineOK, ObjectsOK, JoinOK, WaitOK, CloseOK, EnvOK
<1>2. ASSUME WaitForIdle PROVE TypeOK'
  <2>1. LoopOK'
    BY <1>2, ResumeEffect DEF WaitForIdle
  <2>2. WaitOK'
    BY <1>2 DEF WaitForIdle, WaitOK
  <2>. QED  BY <1>2, <2>1, <2>2
            DEF WaitForIdle, StoreOK, LineOK, ObjectsOK, JoinOK, CloseOK, EnvOK
<1>3. ASSUME NEW t \in Tasks, Create(t) PROVE TypeOK'
  <2>1. \A c \in Checkpoints, d \in Defs : NewRecord(c, d.ver) \in Record
    BY SchedulerAssumption DEF NewRecord, Record, LiveRecord
  <2>2. LineOK'
    BY <1>3, <2>1, JobForms DEF Create, LineOK
  <2>. QED  BY <1>3, <2>2
            DEF Create, StoreOK, LoopOK, ObjectsOK, JoinOK, WaitOK, CloseOK, EnvOK
<1>4. ASSUME NEW t \in Tasks, WaitForTask(t) PROVE TypeOK'
  <2>1. LoopOK'
    BY <1>4, ResumeEffect DEF WaitForTask
  <2>2. WaitOK'
    BY <1>4 DEF WaitForTask, WaitOK
  <2>. QED  BY <1>4, <2>1, <2>2
            DEF WaitForTask, StoreOK, LineOK, ObjectsOK, JoinOK, CloseOK, EnvOK
<1>5. ASSUME NEW t \in Tasks, WaitBegin(t) PROVE TypeOK'
  <2>1. WaitOK'
    BY <1>5 DEF WaitBegin, WaitOK
  <2>. QED  BY <1>5, <2>1
            DEF WaitBegin, StoreOK, LineOK, LoopOK, ObjectsOK, JoinOK, CloseOK, EnvOK
<1>6. ASSUME NEW t \in Tasks, AbortTask(t) PROVE TypeOK'
  <2>1. EnvOK' /\ JoinOK'
    BY <1>6, SpendEffect DEF AbortTask, EnvOK, JoinOK, BudgetKinds
  <2>. QED  BY <1>6, <2>1
            DEF AbortTask, StoreOK, LineOK, LoopOK, ObjectsOK, WaitOK, CloseOK
<1>7. ASSUME NEW t \in Tasks, AbortNothing(t) PROVE TypeOK'
  <2>1. JoinOK'
    BY <1>7 DEF AbortNothing, JoinOK
  <2>. QED  BY <1>7, <2>1
            DEF AbortNothing, StoreOK, LineOK, LoopOK, ObjectsOK, WaitOK, CloseOK, EnvOK
<1>8. ASSUME NEW t \in Tasks, AbortMark(t) PROVE TypeOK'
  <2>1. durable[t] \in LiveRecord
    BY <1>8, LiveForm DEF AbortMark, StoreOK
  <2>2. /\ [durable[t] EXCEPT !.mark = TRUE] \in Record
        /\ Settled(durable[t], "orphaned") \in Record
    BY <2>1, LiveUpdates, SettledForm DEF Record, Authors
  <2>3. staged' \in [Tasks -> Record]
    BY <1>8, <2>2 DEF AbortMark, LineOK
  <2>4. job' \in Job
    BY <1>8, JobForms DEF AbortMark, ObjectsOK
  <2>5. failed' \in [Tasks -> Defs \cup {NoDef}]
    BY <1>8 DEF AbortMark, Remember, EnvOK
  <2>. QED  BY <1>8, <2>3, <2>4, <2>5
            DEF AbortMark, StoreOK, LineOK, LoopOK, ObjectsOK, JoinOK, WaitOK, CloseOK, EnvOK
<1>. QED  BY <1>1, <1>2, <1>3, <1>4, <1>5, <1>6, <1>7, <1>8 DEF Callers

\* What awaited the job keeps the types it can disturb.
LEMMA ContinuationType ==
    ASSUME TypeOK, NEW ok \in BOOLEAN, Continuation(ok)
    PROVE  ObjectsOK' /\ JoinOK' /\ CloseOK'
<1>. USE DEF TypeOK, joinVars, closeVars, Unjoined
<1>. \A i \in Invs : inv[i] \in Invocation
  BY DEF ObjectsOK
<1>1. ASSUME ReserveAfter(ok) PROVE ObjectsOK' /\ JoinOK' /\ CloseOK'
  <2>1. \A i \in Invs : [inv[i] EXCEPT !.pc = "granted"] \in Invocation
    BY ObjectUpdates DEF Pcs
  <2>2. ObjectsOK'
    BY <1>1, <2>1, FreeObject DEF ReserveAfter, ObjectsOK
  <2>3. JoinOK'
    BY <1>1, FinishEffect DEF ReserveAfter
  <2>. QED  BY <1>1, <2>2, <2>3 DEF ReserveAfter, CloseOK
<1>2. ASSUME StepAfter(ok) PROVE ObjectsOK' /\ JoinOK' /\ CloseOK'
  <2>1. \A i \in Invs : [inv[i] EXCEPT !.pc = "finally"] \in Invocation
    BY ObjectUpdates DEF Pcs
  <2>2. \A i \in Invs : [[inv[i] EXCEPT !.pc = "finally"] EXCEPT !.ended = TRUE] \in Invocation
    BY <2>1, ObjectUpdates
  <2>3. ObjectsOK'
    BY <1>2, <2>2 DEF StepAfter, End, ObjectsOK
  <2>. QED  BY <1>2, <2>3 DEF StepAfter, JoinOK, CloseOK
<1>3. ASSUME CommitAfter(ok) PROVE ObjectsOK' /\ JoinOK' /\ CloseOK'
  <2>1. \A i \in Invs : Dequeued(inv[i]) \in Invocation
    BY ObjectUpdates, FreeObject DEF Dequeued
  <2>. QED  BY <1>3, <2>1 DEF CommitAfter, ObjectsOK, JoinOK, CloseOK
<1>4. ASSUME AbortAfter(ok) PROVE ObjectsOK' /\ JoinOK' /\ CloseOK'
  <2>1. \A i \in Invs : [inv[i] EXCEPT !.sig = TRUE] \in Invocation
    BY ObjectUpdates
  <2>2. job.inv \in Invs \cup {NoInv}
    BY DEF LineOK, Job
  <2>. QED  BY <1>4, <2>1, <2>2 DEF AbortAfter, ObjectsOK, JoinOK, CloseOK
<1>5. ASSUME CreateAfter(ok) PROVE ObjectsOK' /\ JoinOK' /\ CloseOK'
  BY <1>5 DEF CreateAfter, ObjectsOK, JoinOK, CloseOK
<1>6. ASSUME OpenAfter(ok) PROVE ObjectsOK' /\ JoinOK' /\ CloseOK'
  BY <1>6 DEF OpenAfter, ObjectsOK, JoinOK, CloseOK
<1>. QED  BY <1>1, <1>2, <1>3, <1>4, <1>5, <1>6 DEF Continuation

\* So does the settlement of the job on the line.
LEMMA LineType ==
    ASSUME TypeOK, Line
    PROVE  TypeOK'
<1>. USE DEF TypeOK, storeVars, lineVars, loopVars, joinVars, waitVars, closeVars,
             envVars, outerVars
<1>1. ASSUME Refuse PROVE TypeOK'
  <2>1. \E k \in {"reserve", "step", "commit", "abort"},
           i \in Invs \cup {NoInv}, t \in Tasks \cup {NoTask} :
            job' = [NoJob EXCEPT !.kind = k, !.inv = i, !.task = t]
    BY <1>1 DEF Refuse
  <2>2. job' \in Job
    BY <2>1 DEF NoJob, Job
  <2>3. LineOK'
    BY <1>1, <2>2 DEF Refuse, LineOK
  <2>. QED  BY <1>1, <2>3
            DEF Refuse, StoreOK, LoopOK, ObjectsOK, JoinOK, WaitOK, CloseOK, EnvOK
<1>2. ASSUME SettleOk PROVE TypeOK'
  <2>1. ObjectsOK' /\ JoinOK' /\ CloseOK'
    BY <1>2, ContinuationType DEF SettleOk
  <2>2. durable' \in [Tasks -> Record]
    BY <1>2, LandedForm DEF SettleOk
  <2>3. \A t \in Tasks : Observed(t) \in {Absent} \cup LiveRecord
    BY DEF Observed, Ends, StoreOK, LineOK, Record, TerminalRecord
  <2>4. StoreOK'
    BY <1>2, <2>2, <2>3 DEF SettleOk, StoreOK
  <2>5. LineOK'
    BY <1>2, NoJobForm, NoWritesForm DEF SettleOk, LineOK
  <2>6. LoopOK'
    BY <1>2 DEF SettleOk, LoopOK, Kicked
  <2>7. WaitOK'
    BY <1>2 DEF SettleOk, WaitOK
  <2>8. EnvOK' /\ failed' \in [Tasks -> Defs \cup {NoDef}]
    BY <1>2 DEF SettleOk, EnvOK
  <2>. QED  BY <2>1, <2>4, <2>5, <2>6, <2>7, <2>8
<1>3. ASSUME SettleFails PROVE TypeOK'
  <2>1. ObjectsOK' /\ JoinOK' /\ CloseOK'
    BY <1>3, ContinuationType DEF SettleFails
  <2>2. StoreOK'
    BY <1>3, LandedForm DEF SettleFails, StoreOK
  <2>3. LineOK'
    BY <1>3, NoJobForm, NoWritesForm DEF SettleFails, LineOK
  <2>4. LoopOK'
    BY <1>3 DEF SettleFails, FailedPass, LoopOK
  <2>5. EnvOK'
    BY <1>3, SpendEffect DEF SettleFails, EnvOK, BudgetKinds
  <2>6. WaitOK' /\ failed' \in [Tasks -> Defs \cup {NoDef}]
    BY <1>3 DEF SettleFails, WaitOK
  <2>. QED  BY <2>1, <2>2, <2>3, <2>4, <2>5, <2>6
<1>. QED  BY <1>1, <1>2, <1>3 DEF Line

\* Every step keeps the types.
LEMMA TypeStep ==
    ASSUME TypeOK, HeldInv, [Next]_vars
    PROVE  TypeOK'
<1>1. CASE Next
  BY <1>1, LifeType, LoopType, HandlersType, CallersType, LineType DEF Next, HeldInv
<1>2. CASE UNCHANGED vars
  BY <1>2 DEF vars, TypeOK, StoreOK, LineOK, LoopOK, ObjectsOK, JoinOK, WaitOK,
              CloseOK, EnvOK
<1>. QED  BY <1>1, <1>2

------------------------------------------------------------------------------
(* Every action keeps the slots *)

\* Ending an invocation takes the slot of no other one, and a free slot stays
\* free.
LEMMA EndKeepsHeld ==
    ASSUME TypeOK, HeldInv, NEW i \in Invs, NEW w \in Invocation, End(i, w),
           w.pc \notin HeldPcs, UNCHANGED <<live, todo>>
    PROVE  HeldInv'
<1>1. TodoIsFree'
  BY DEF HeldInv, TodoIsFree, End, TypeOK, LineOK
<1>2. /\ [w EXCEPT !.ended = TRUE].pc = w.pc
      /\ [w EXCEPT !.ended = TRUE].ended = TRUE
  BY DEF Invocation
<1>3. \A j \in Invs : inv'[j] = IF j = i THEN [w EXCEPT !.ended = TRUE] ELSE inv[j]
  BY DEF End, TypeOK, ObjectsOK
<1>4. ObjectsHaveTasks'
  BY <1>2, <1>3 DEF HeldInv, ObjectsHaveTasks
<1>5. SlotsAreHeld'
  <2>. SUFFICES ASSUME NEW j \in Invs, inv'[j].pc \in HeldPcs
                PROVE  ~inv'[j].ended /\ slot'[inv'[j].task] = j
    BY DEF SlotsAreHeld
  <2>1. j # i /\ inv'[j] = inv[j]
    BY <1>2, <1>3
  <2>2. ~inv[j].ended /\ slot[inv[j].task] = j /\ inv[j].task \in Tasks
    BY <2>1 DEF HeldInv, SlotsAreHeld, ObjectsHaveTasks
  <2>. QED  BY <2>1, <2>2 DEF End
<1>. QED  BY <1>1, <1>4, <1>5 DEF HeldInv

\* An invocation that keeps its task and its end, and has no handler ahead that
\* it had not before, disturbs no slot.
LEMMA MoveKeepsHeld ==
    ASSUME TypeOK, HeldInv, NEW i \in Invs, NEW w \in Invocation,
           w.task = inv[i].task, w.ended = inv[i].ended,
           w.pc \in HeldPcs => inv[i].pc \in HeldPcs,
           inv' = [inv EXCEPT ![i] = w],
           UNCHANGED <<slot, live, todo>>
    PROVE  HeldInv'
<1>1. TodoIsFree'
  BY DEF HeldInv, TodoIsFree
<1>2. \A j \in Invs : inv'[j] = IF j = i THEN w ELSE inv[j]
  BY DEF TypeOK, ObjectsOK
<1>3. ObjectsHaveTasks'
  BY <1>2 DEF HeldInv, ObjectsHaveTasks
<1>4. SlotsAreHeld'
  BY <1>2 DEF HeldInv, SlotsAreHeld
<1>. QED  BY <1>1, <1>3, <1>4 DEF HeldInv

\* A step that touches neither objects, slots, mirror nor reservation keeps
\* the slots held.
LEMMA SameHeld ==
    ASSUME HeldInv, UNCHANGED <<slot, inv, live, todo>>
    PROVE  HeldInv'
BY DEF HeldInv, TodoIsFree, ObjectsHaveTasks, SlotsAreHeld

\* A new process holds nothing.
LEMMA FreshHeld ==
    ASSUME Fresh, todo' = {}
    PROVE  HeldInv'
BY DEF Fresh, HeldInv, TodoIsFree, ObjectsHaveTasks, SlotsAreHeld, FreeInv, HeldPcs

\* Opening, crashing, closing and registry changes keep the slots held.
LEMMA LifeHeld ==
    ASSUME TypeOK, HeldInv, Life
    PROVE  HeldInv'
<1>. USE DEF storeVars, lineVars
<1>1. CASE Open
  BY <1>1, FreshHeld DEF Open
<1>2. CASE Crash
  BY <1>2, FreshHeld DEF Crash
<1>3. CASE Swap
  BY <1>3, SameHeld DEF Swap
<1>4. CASE Close
  <2>1. \A i \in Invs : /\ inv'[i].pc = inv[i].pc /\ inv'[i].task = inv[i].task
                        /\ inv'[i].ended = inv[i].ended
    BY <1>4 DEF Close, TypeOK, ObjectsOK, Invocation
  <2>. UNCHANGED <<live, todo, slot>>
    BY <1>4 DEF Close
  <2>. QED  BY <2>1 DEF HeldInv, TodoIsFree, ObjectsHaveTasks, SlotsAreHeld
<1>5. CASE Join
  BY <1>5, SameHeld DEF Join
<1>6. CASE CloseStorage
  BY <1>6, SameHeld DEF CloseStorage
<1>. QED  BY <1>1, <1>2, <1>3, <1>4, <1>5, <1>6 DEF Life

\* A reservation takes only free slots, one for each object.
LEMMA LoopHeld ==
    ASSUME TypeOK, HeldInv, Loop
    PROVE  HeldInv'
<1>. USE DEF storeVars, lineVars
<1>1. CASE DrainTurn
  BY <1>1, SameHeld DEF DrainTurn
<1>2. CASE ReserveBegin
  <2>1. TodoIsFree'
    BY <1>2 DEF ReserveBegin, TodoIsFree, Candidates
  <2>. QED  BY <1>2, <2>1 DEF ReserveBegin, HeldInv, ObjectsHaveTasks, SlotsAreHeld
<1>3. ASSUME NEW t \in Tasks, VisitBlocked(t) PROVE HeldInv'
  BY <1>3 DEF VisitBlocked, HeldInv, TodoIsFree, ObjectsHaveTasks, SlotsAreHeld
<1>4. ASSUME NEW t \in Tasks, VisitReserve(t) PROVE HeldInv'
  <2>1. FreshInv \in Invs /\ inv[FreshInv].pc = "free"
    BY <1>4 DEF VisitReserve, FreshInv
  <2>2. slot[t] = NoInv
    BY <1>4 DEF VisitReserve, HeldInv, TodoIsFree
  <2>3. PICK mode \in {"run", "abort"} :
          inv' = [inv EXCEPT ![FreshInv] = NewInv(t, mode, job.def)]
    BY <1>4 DEF VisitReserve
  <2>4. slot' = [slot EXCEPT ![t] = FreshInv] /\ todo' = todo \ {t} /\ UNCHANGED live
    BY <1>4 DEF VisitReserve
  <2>5. TodoIsFree'
    BY <2>4 DEF HeldInv, TodoIsFree, TypeOK, LineOK, ObjectsOK
  <2>6. LET w == NewInv(t, mode, job.def) IN
          w.pc = "reserved" /\ w.task = t /\ w.ended = FALSE
    BY DEF NewInv, FreeInv
  <2>7. ObjectsHaveTasks'
    BY <2>1, <2>3, <2>6 DEF HeldInv, ObjectsHaveTasks, TypeOK, ObjectsOK
  <2>8. SlotsAreHeld'
    <3>. SUFFICES ASSUME NEW j \in Invs, inv'[j].pc \in HeldPcs
                  PROVE  ~inv'[j].ended /\ slot'[inv'[j].task] = j
      BY DEF SlotsAreHeld
    <3>1. CASE j = FreshInv
      BY <2>1, <2>3, <2>4, <2>6, <3>1 DEF TypeOK, ObjectsOK
    <3>2. CASE j # FreshInv
      <4>1. inv'[j] = inv[j]
        BY <2>3, <3>2 DEF TypeOK, ObjectsOK
      <4>2. ~inv[j].ended /\ slot[inv[j].task] = j /\ inv[j].task \in Tasks
        BY <4>1 DEF HeldInv, SlotsAreHeld, ObjectsHaveTasks
      <4>3. inv[j].task # t
        BY <2>2, <4>2, SchedulerAssumption
      <4>. QED  BY <2>4, <4>1, <4>2, <4>3 DEF TypeOK, ObjectsOK
    <3>. QED  BY <3>1, <3>2
  <2>. QED  BY <2>5, <2>7, <2>8 DEF HeldInv
<1>. QED  BY <1>1, <1>2, <1>3, <1>4 DEF Loop

\* An object whose commit has left the line is free, or moves nowhere.
LEMMA DequeuedForm ==
    ASSUME NEW w \in Invocation
    PROVE  /\ Dequeued(w) \in Invocation
           /\ Dequeued(w).pc \in HeldPcs => w.pc \in HeldPcs
           /\ ~Dequeued(w).ended => ~w.ended
           /\ w.pc # "done" => Dequeued(w).task = w.task /\ Dequeued(w).ended = w.ended
           /\ w.pc = "done" => Dequeued(w) = FreeInv
BY FreeObject DEF Dequeued, Invocation, HeldPcs

\* A commit that leaves the line disturbs no slot.
LEMMA DequeuedKeepsHeld ==
    ASSUME TypeOK, HeldInv, NEW i \in Invs, inv' = [inv EXCEPT ![i] = Dequeued(inv[i])],
           UNCHANGED slot
    PROVE  ObjectsHaveTasks' /\ SlotsAreHeld'
<1>1. inv[i] \in Invocation
  BY DEF TypeOK, ObjectsOK
<1>2. \A j \in Invs : inv'[j] = IF j = i THEN Dequeued(inv[i]) ELSE inv[j]
  BY DEF TypeOK, ObjectsOK
<1>4. \A j \in Invs :
        \/ inv'[j] = FreeInv
        \/ /\ inv'[j].task = inv[j].task /\ inv'[j].ended = inv[j].ended
           /\ inv'[j].pc \in HeldPcs => inv[j].pc \in HeldPcs
  BY <1>1, <1>2, DequeuedForm
<1>5. ObjectsHaveTasks'
  BY <1>4, FreeObject DEF HeldInv, ObjectsHaveTasks
<1>6. SlotsAreHeld'
  BY <1>4, FreeObject DEF HeldInv, SlotsAreHeld, HeldPcs
<1>. QED  BY <1>5, <1>6

\* Invocations move within their slot until they end.
LEMMA HandlersHeld ==
    ASSUME TypeOK, HeldInv, Handlers
    PROVE  HeldInv'
<1>. USE DEF storeVars, lineVars
<1>. \A i \in Invs : inv[i] \in Invocation
  BY DEF TypeOK, ObjectsOK
<1>1. ASSUME NEW i \in Invs, Start(i) PROVE HeldInv'
  <2>. DEFINE at(p) == [inv[i] EXCEPT !.pc = p]
  <2>1. \A p \in Pcs : /\ at(p) \in Invocation /\ at(p).pc = p
                        /\ at(p).task = inv[i].task /\ at(p).ended = inv[i].ended
    BY DEF Invocation
  <2>2. {"step", "handler", "finally"} \subseteq Pcs /\ inv[i].pc \in HeldPcs
    BY <1>1 DEF Start, Pcs, HeldPcs
  <2>3. UNCHANGED <<live, todo>>
    BY <1>1 DEF Start
  <2>4. ASSUME NEW p \in {"step", "handler", "finally"},
               inv' = [inv EXCEPT ![i] = at(p)], UNCHANGED slot
        PROVE  HeldInv'
    BY <2>1, <2>2, <2>3, <2>4, MoveKeepsHeld
  <2>5. ASSUME End(i, at("finally")) PROVE HeldInv'
    BY <2>1, <2>2, <2>3, <2>5, EndKeepsHeld DEF HeldPcs
  <2>. QED  BY <1>1, <2>4, <2>5 DEF Start
<1>2. ASSUME NEW i \in Invs, StepEnds(i) PROVE HeldInv'
  <2>1. LET w == [inv[i] EXCEPT !.pc = "finally"] IN
          w \in Invocation /\ w.pc \notin HeldPcs
    BY DEF Invocation, Pcs, HeldPcs
  <2>. QED  BY <1>2, <2>1, EndKeepsHeld DEF StepEnds
<1>3. ASSUME NEW i \in Invs, StepContinues(i) PROVE HeldInv'
  <2>. DEFINE w == [inv[i] EXCEPT !.pc = "dispatch", !.threw = FALSE,
                                  !.prev = live[inv[i].task].cp]
  <2>1. live[inv[i].task] \in LiveRecord
    BY <1>3, HeldRecord DEF StepContinues, StepBegin, MustEnd, HeldInv, SlotsAreHeld, HeldPcs
  <2>2. live[inv[i].task].cp \in Checkpoints
    BY <2>1 DEF LiveRecord
  <2>3. w \in Invocation /\ w.task = inv[i].task /\ w.ended = inv[i].ended
    BY <2>2, DispatchedForm
  <2>4. inv' = [inv EXCEPT ![i] = w] /\ inv[i].pc \in HeldPcs
    BY <1>3 DEF StepContinues, StepBegin, HeldPcs
  <2>. QED  BY <1>3, <2>3, <2>4, MoveKeepsHeld DEF StepContinues
<1>4. ASSUME NEW i \in Invs, StepWrites(i) PROVE HeldInv'
  <2>1. LET w == [inv[i] EXCEPT !.pc = "settling"] IN
          w \in Invocation /\ w.pc \notin HeldPcs
    BY DEF Invocation, Pcs, HeldPcs
  <2>. QED  BY <1>4, <2>1, EndKeepsHeld DEF StepWrites
<1>5. ASSUME NEW i \in Invs, Dispatch(i) PROVE HeldInv'
  <2>1. PICK p \in {"finally", "handler"} : inv' = [inv EXCEPT ![i] = [inv[i] EXCEPT !.pc = p]]
    BY <1>5 DEF Dispatch
  <2>2. LET w == [inv[i] EXCEPT !.pc = p] IN
          w \in Invocation /\ w.task = inv[i].task /\ w.ended = inv[i].ended
    BY DEF Invocation, Pcs
  <2>3. inv[i].pc \in HeldPcs
    BY <1>5 DEF Dispatch, HeldPcs
  <2>. QED  BY <1>5, <2>1, <2>2, <2>3, MoveKeepsHeld DEF Dispatch
<1>6. ASSUME NEW i \in Invs, HandlerCommit(i) PROVE HeldInv'
  <2>1. PICK o \in {"ahead", "behind"} : inv' = [inv EXCEPT ![i] = [inv[i] EXCEPT !.out = o]]
    BY <1>6 DEF HandlerCommit
  <2>2. LET w == [inv[i] EXCEPT !.out = o] IN
          w \in Invocation /\ w.task = inv[i].task /\ w.ended = inv[i].ended /\ w.pc = inv[i].pc
    BY DEF Invocation
  <2>. QED  BY <1>6, <2>1, <2>2, MoveKeepsHeld DEF HandlerCommit
<1>7. ASSUME NEW i \in Invs, CommitNothing(i) PROVE HeldInv'
  <2>1. ObjectsHaveTasks' /\ SlotsAreHeld'
    BY <1>7, DequeuedKeepsHeld DEF CommitNothing
  <2>. QED  BY <1>7, <2>1 DEF CommitNothing, HeldInv, TodoIsFree
<1>8. ASSUME NEW i \in Invs, CommitWrites(i) PROVE HeldInv'
  BY <1>8, SameHeld DEF CommitWrites
<1>9. ASSUME NEW i \in Invs, HandlerReturn(i) PROVE HeldInv'
  <2>1. ASSUME NEW threw \in BOOLEAN,
               inv' = [inv EXCEPT ![i] = Returned(inv[i], threw)], UNCHANGED slot
        PROVE  HeldInv'
    <3>1. LET w == Returned(inv[i], threw) IN
            w \in Invocation /\ w.task = inv[i].task /\ w.ended = inv[i].ended
      BY ReturnedForm
    <3>2. inv[i].pc \in HeldPcs
      BY <1>9 DEF HandlerReturn, HeldPcs
    <3>. QED  BY <1>9, <2>1, <3>1, <3>2, MoveKeepsHeld DEF HandlerReturn
  <2>2. ASSUME End(i, [inv[i] EXCEPT !.pc = "finally"]) PROVE HeldInv'
    <3>1. LET w == [inv[i] EXCEPT !.pc = "finally"] IN
            w \in Invocation /\ w.pc \notin HeldPcs
      BY DEF Invocation, Pcs, HeldPcs
    <3>. QED  BY <1>9, <2>2, <3>1, EndKeepsHeld DEF HandlerReturn
  <2>. QED  BY <1>9, <2>1, <2>2 DEF HandlerReturn
<1>10. ASSUME NEW i \in Invs, Finally(i) PROVE HeldInv'
  <2>1. Retired(inv[i]) \in Invocation /\ Retired(inv[i]).pc \notin HeldPcs
    <3>1. CASE inv[i].out # "none"
      <4>1. Retired(inv[i]) = [inv[i] EXCEPT !.pc = "done", !.ended = TRUE]
        BY <3>1 DEF Retired
      <4>2. "done" \in Pcs \ HeldPcs
        BY DEF Pcs, HeldPcs
      <4>3. Retired(inv[i]).pc = "done"
        BY <4>1 DEF Invocation
      <4>. QED  BY <4>1, <4>2, <4>3, ObjectUpdates
    <3>2. CASE inv[i].out = "none"
      BY <3>2, FreeObject DEF Retired, HeldPcs
    <3>. QED  BY <3>1, <3>2
  <2>. QED  BY <1>10, <2>1, EndKeepsHeld DEF Finally
<1>. QED  BY <1>1, <1>2, <1>3, <1>4, <1>5, <1>6, <1>7, <1>8, <1>9, <1>10 DEF Handlers

\* Callers touch no invocation.
LEMMA CallersHeld ==
    ASSUME HeldInv, Callers
    PROVE  HeldInv'
<1>. USE DEF storeVars, lineVars
<1>1. UNCHANGED <<slot, inv, live, todo>>
  BY DEF Callers, ResumeCall, WaitForIdle, Create, WaitForTask, WaitBegin, AbortTask,
         AbortNothing, AbortMark
<1>. QED  BY <1>1, SameHeld

\* When the job settles the reservation has visited everything, so the mirror
\* may change.
LEMMA ContinuationHeld ==
    ASSUME TypeOK, HeldInv, todo' = {}, NEW ok \in BOOLEAN, Continuation(ok)
    PROVE  HeldInv'
<1>. USE DEF TypeOK
<1>1. TodoIsFree'
  BY DEF TodoIsFree
<1>2. SUFFICES ObjectsHaveTasks' /\ SlotsAreHeld'
  BY <1>1 DEF HeldInv
<1>. ObjectsHaveTasks /\ SlotsAreHeld
  BY DEF HeldInv
<1>. \A i \in Invs : inv[i] \in Invocation
  BY DEF ObjectsOK
<1>3. ASSUME ReserveAfter(ok) PROVE ObjectsHaveTasks' /\ SlotsAreHeld'
  <2>. DEFINE made == {i \in Invs : inv[i].pc = "reserved"}
  <2>1. \A i \in Invs : inv'[i] = IF i \notin made THEN inv[i]
                                  ELSE IF ok THEN [inv[i] EXCEPT !.pc = "granted"]
                                  ELSE FreeInv
    BY <1>3 DEF ReserveAfter
  <2>2. \A t \in Tasks : slot'[t] = IF ~ok /\ slot[t] \in made THEN NoInv ELSE slot[t]
    BY <1>3 DEF ReserveAfter
  <2>3. \A i \in Invs : LET w == [inv[i] EXCEPT !.pc = "granted"] IN
           w.pc = "granted" /\ w.task = inv[i].task /\ w.ended = inv[i].ended
    BY DEF Invocation
  <2>. HIDE DEF made
  <2>4. ObjectsHaveTasks'
    BY <2>1, <2>3, FreeObject DEF ObjectsHaveTasks
  <2>5. SlotsAreHeld'
    <3>. SUFFICES ASSUME NEW j \in Invs, inv'[j].pc \in HeldPcs
                  PROVE  ~inv'[j].ended /\ slot'[inv'[j].task] = j
      BY DEF SlotsAreHeld
    <3>1. inv'[j].task = inv[j].task /\ inv'[j].ended = inv[j].ended
          /\ inv[j].pc \in HeldPcs /\ (ok \/ j \notin made)
      <4>1. CASE j \notin made
        BY <2>1, <4>1
      <4>2. CASE j \in made
        <5>1. ok
          BY <2>1, <4>2, FreeObject DEF HeldPcs
        <5>2. inv'[j] = [inv[j] EXCEPT !.pc = "granted"] /\ inv[j].pc = "reserved"
          BY <2>1, <4>2, <5>1 DEF made
        <5>. QED  BY <2>3, <5>1, <5>2 DEF HeldPcs
      <4>. QED  BY <4>1, <4>2
    <3>2. ~inv[j].ended /\ slot[inv[j].task] = j /\ inv[j].task \in Tasks
      BY <3>1 DEF SlotsAreHeld, ObjectsHaveTasks
    <3>. QED  BY <2>2, <3>1, <3>2
  <2>. QED  BY <2>4, <2>5
<1>4. ASSUME StepAfter(ok) PROVE ObjectsHaveTasks' /\ SlotsAreHeld'
  <2>. DEFINE w == [[inv[job.inv] EXCEPT !.pc = "finally"] EXCEPT !.ended = TRUE]
  <2>1. \A j \in Invs : inv'[j] = IF j = job.inv THEN w ELSE inv[j]
    BY <1>4 DEF StepAfter, End, ObjectsOK
  <2>2. \A t \in Tasks : slot'[t] = IF slot[t] = job.inv THEN NoInv ELSE slot[t]
    BY <1>4 DEF StepAfter, End
  <2>3. job.inv \in Invs => w.pc = "finally" /\ w.ended = TRUE
    BY DEF Invocation
  <2>4. ObjectsHaveTasks'
    BY <2>1, <2>3 DEF ObjectsHaveTasks
  <2>5. SlotsAreHeld'
    <3>. SUFFICES ASSUME NEW j \in Invs, inv'[j].pc \in HeldPcs
                  PROVE  ~inv'[j].ended /\ slot'[inv'[j].task] = j
      BY DEF SlotsAreHeld
    <3>1. j # job.inv /\ inv'[j] = inv[j]
      BY <2>1, <2>3 DEF HeldPcs
    <3>2. ~inv[j].ended /\ slot[inv[j].task] = j /\ inv[j].task \in Tasks
      BY <3>1 DEF SlotsAreHeld, ObjectsHaveTasks
    <3>. QED  BY <2>2, <3>1, <3>2
  <2>. QED  BY <2>4, <2>5
<1>5. ASSUME CommitAfter(ok) PROVE ObjectsHaveTasks' /\ SlotsAreHeld'
  <2>1. CASE job.inv \in Invs
    <3>1. inv' = [inv EXCEPT ![job.inv] = Dequeued(inv[job.inv])] /\ UNCHANGED slot
      BY <1>5 DEF CommitAfter
    <3>. QED  BY <2>1, <3>1, DequeuedKeepsHeld
  <2>2. CASE job.inv \notin Invs
    BY <1>5, <2>2 DEF CommitAfter, ObjectsHaveTasks, SlotsAreHeld, ObjectsOK
  <2>. QED  BY <2>1, <2>2
<1>6. ASSUME AbortAfter(ok) PROVE ObjectsHaveTasks' /\ SlotsAreHeld'
  <2>1. \A j \in Invs : /\ inv'[j].pc = inv[j].pc /\ inv'[j].task = inv[j].task
                        /\ inv'[j].ended = inv[j].ended
    BY <1>6 DEF AbortAfter, Invocation, ObjectsOK
  <2>. QED  BY <1>6, <2>1 DEF AbortAfter, ObjectsHaveTasks, SlotsAreHeld
<1>7. CASE CreateAfter(ok) \/ OpenAfter(ok)
  BY <1>7 DEF CreateAfter, OpenAfter, ObjectsHaveTasks, SlotsAreHeld
<1>. QED  BY <1>3, <1>4, <1>5, <1>6, <1>7 DEF Continuation

\* The settlement of a job keeps the slots held.
LEMMA LineHeld ==
    ASSUME TypeOK, HeldInv, Line
    PROVE  HeldInv'
<1>. USE DEF storeVars, lineVars, Settling
<1>1. CASE Refuse
  BY <1>1, SameHeld DEF Refuse
<1>2. CASE SettleOk
  BY <1>2, ContinuationHeld DEF SettleOk
<1>3. CASE SettleFails
  BY <1>3, ContinuationHeld DEF SettleFails
<1>. QED  BY <1>1, <1>2, <1>3 DEF Line

\* Every step keeps the slots held.
LEMMA HeldStep ==
    ASSUME TypeOK, HeldInv, [Next]_vars
    PROVE  HeldInv'
<1>1. CASE Next
  BY <1>1, LifeHeld, LoopHeld, HandlersHeld, CallersHeld, LineHeld DEF Next
<1>2. CASE UNCHANGED vars
  BY <1>2, SameHeld DEF vars
<1>. QED  BY <1>1, <1>2

------------------------------------------------------------------------------
(* The theorems *)

\* The invariant holds before the first process opens.
LEMMA InitIInv == Init => IInv
<1>. SUFFICES ASSUME Init PROVE IInv
  OBVIOUS
<1>1. StoreOK /\ LineOK
  BY NoJobForm, NoWritesForm DEF Init, StoreOK, LineOK, Record
<1>2. LoopOK /\ ObjectsOK /\ JoinOK
  BY FreeObject DEF Init, LoopOK, ObjectsOK, JoinOK
<1>3. WaitOK /\ CloseOK /\ EnvOK /\ failed \in [Tasks -> Defs \cup {NoDef}]
  BY SchedulerAssumption DEF Init, WaitOK, CloseOK, EnvOK
<1>4. HeldInv
  BY DEF Init, HeldInv, TodoIsFree, ObjectsHaveTasks, SlotsAreHeld, FreeInv, HeldPcs
<1>. QED  BY <1>1, <1>2, <1>3, <1>4 DEF IInv, TypeOK

\* IInv is inductive.
THEOREM Inductive == Spec => []IInv
<1>1. IInv /\ [Next]_vars => IInv'
  BY TypeStep, HeldStep DEF IInv
<1>. QED  BY InitIInv, <1>1, PTL DEF Spec

\* Storage, the line, the loop, the invocations and the callers keep their types
\* in every behaviour of the scheduler.
THEOREM TypeCorrect == Spec => []TypeOK
<1>1. IInv => TypeOK
  BY DEF IInv
<1>. QED  BY Inductive, <1>1, PTL

\* No two handlers of one task ever execute at the same time, however many
\* tasks, invocations, definitions, crashes, aborts and failures there are.
THEOREM NoTwoHandlers == Spec => []OneHandlerPerTask
<1>1. IInv => OneHandlerPerTask
  BY DEF IInv, HeldInv, SlotsAreHeld, HeldPcs, OneHandlerPerTask, Handling
<1>. QED  BY Inductive, <1>1, PTL

------------------------------------------------------------------------------
(* The line and the objects *)

Holding(i) == ~inv[i].ended

\* An invocation that has not ended holds the slot of its task, and no other one
\* does.
HoldsSlot == \A i \in Invs : Holding(i) => slot[inv[i].task] = i
SlotHolds == \A t \in Tasks : slot[t] # NoInv => Holding(slot[t]) /\ inv[slot[t]].task = t

\* Free objects are blank, done ones have ended, and an object is reserved only
\* by the reservation on the line.
ObjectsInv ==
    /\ \A i \in Invs : inv[i].pc = "free" => inv[i] = FreeInv
    /\ \A i \in Invs : inv[i].pc = "done" => inv[i].ended
    /\ \A i \in Invs : inv[i].pc = "reserved" => job.kind = "reserve"
    /\ HoldsSlot /\ SlotHolds

\* Without a job, or on a poisoned line, nothing is staged or left to visit.
QuietLine == job.kind = "none" \/ poisoned => staged = NoWrites /\ todo = {}

\* Only a reservation visits tasks; it has not staged them yet, and they wait for
\* nothing.
TodoInv ==
    /\ todo # {} => job.kind = "reserve"
    /\ \A t \in todo : staged[t] = Absent /\ WaitingOn(t) = {}

\* A process that opens has nothing yet but its first job.
OpeningInv ==
    /\ job.kind = "open" => sess = "opening"
    /\ sess = "opening" =>
        /\ job.kind = "open" /\ ~closing /\ closePc = "none" /\ joined = {}
        /\ \A i \in Invs : inv[i] = FreeInv
        /\ idler = "idle" /\ \A t \in Tasks : waiter[t] = "idle"
    /\ sess \in {"down", "closed"} => job = NoJob

\* The runtime commit on the line is one its invocation waits for or has leaked.
JobInv ==
    /\ job.kind \in {"step", "commit"} => job.inv \in Invs
    /\ job.kind = "commit" => inv[job.inv].out # "none"
    /\ job.kind = "abort" => job.task \in Tasks

LineInv == ObjectsInv /\ QuietLine /\ TodoInv /\ OpeningInv /\ JobInv

------------------------------------------------------------------------------
(* How an invocation moves *)

Same(w, v) == v.task = w.task /\ v.mode = w.mode /\ v.def = w.def

\* What any step but a reservation and its settlement does to an object.
Follows(w, v) ==
    /\ v.pc = "free" => v = FreeInv
    /\ v.pc = "reserved" => w.pc = "reserved"
    /\ v.pc = "done" => v.ended
    /\ ~v.ended => /\ ~w.ended /\ Same(w, v)
                   /\ w.pc = "reserved" => v.pc = "reserved"

\* A commit that is on its way stays its invocation's.
KeepsOut(w, v) == w.out # "none" => v.out # "none" /\ Same(w, v)

Orderly == (\A j \in Invs : Follows(inv[j], inv'[j])) /\ HoldsSlot' /\ SlotHolds'

Moves ==
    /\ Orderly
    /\ job.kind = "commit" => KeepsOut(inv[job.inv], inv'[job.inv])

\* Objects that stay as they are move.
LEMMA SameMoves ==
    ASSUME LineInv, UNCHANGED <<inv, slot>>
    PROVE  Moves
BY DEF LineInv, ObjectsInv, HoldsSlot, SlotHolds, Holding, Orderly, Moves, Follows, KeepsOut, Same

\* One object moves, and the slots stay.
LEMMA OneFollows ==
    ASSUME TypeOK, LineInv, NEW i \in Invs, NEW w, inv' = [inv EXCEPT ![i] = w],
           Follows(inv[i], w), ~inv[i].ended => ~w.ended, UNCHANGED slot
    PROVE  Orderly
<1>1. \A j \in Invs : inv'[j] = IF j = i THEN w ELSE inv[j]
  BY DEF TypeOK, ObjectsOK
<1>2. \A j \in Invs : Follows(inv[j], inv'[j])
  BY <1>1 DEF LineInv, ObjectsInv, Follows, Same
<1>3. HoldsSlot' /\ SlotHolds'
  BY <1>1 DEF LineInv, ObjectsInv, HoldsSlot, SlotHolds, Holding, Follows, Same, TypeOK, ObjectsOK
<1>. QED  BY <1>2, <1>3 DEF Orderly

\* The same, with the runtime commit on the line still its invocation's.
LEMMA OneMoves ==
    ASSUME TypeOK, LineInv, NEW i \in Invs, NEW w, inv' = [inv EXCEPT ![i] = w],
           Follows(inv[i], w), ~inv[i].ended => ~w.ended,
           job.kind = "commit" => KeepsOut(inv[i], w), UNCHANGED slot
    PROVE  Moves
<1>1. \A j \in Invs : inv'[j] = IF j = i THEN w ELSE inv[j]
  BY DEF TypeOK, ObjectsOK
<1>2. job.kind = "commit" => KeepsOut(inv[job.inv], inv'[job.inv])
  BY <1>1 DEF LineInv, JobInv, KeepsOut, Same
<1>. QED  BY <1>2, OneFollows DEF Orderly, Moves

\* One invocation ends.
LEMMA EndMoves ==
    ASSUME TypeOK, HeldInv, LineInv, NEW i \in Invs, NEW w \in Invocation, End(i, w),
           w.pc # "reserved", w.pc = "free" => w = FreeInv, KeepsOut(inv[i], w)
    PROVE  Moves
<1>. DEFINE v == [w EXCEPT !.ended = TRUE]
<1>1. /\ v.ended = TRUE /\ v.pc = w.pc /\ v.out = w.out /\ Same(w, v)
      /\ w = FreeInv => v = FreeInv
  BY FreeObject DEF Invocation, Same, FreeInv
<1>2. \A j \in Invs : inv'[j] = IF j = i THEN v ELSE inv[j]
  BY DEF End, TypeOK, ObjectsOK
<1>3. \A t \in Tasks : slot'[t] = IF slot[t] = i THEN NoInv ELSE slot[t]
  BY DEF End
<1>. HIDE DEF v
<1>4. \A j \in Invs : Follows(inv[j], inv'[j])
  BY <1>1, <1>2 DEF LineInv, ObjectsInv, Follows, Same
<1>5. HoldsSlot' /\ SlotHolds'
  <2>1. ASSUME NEW j \in Invs, ~inv'[j].ended PROVE slot'[inv'[j].task] = j
    <3>1. j # i /\ inv'[j] = inv[j]
      BY <1>1, <1>2, <2>1
    <3>2. slot[inv[j].task] = j /\ inv[j].task \in Tasks
      BY <2>1, <3>1 DEF LineInv, ObjectsInv, HoldsSlot, Holding, HeldInv, ObjectsHaveTasks
    <3>. QED  BY <1>3, <3>1, <3>2
  <2>2. ASSUME NEW t \in Tasks, slot'[t] # NoInv
        PROVE  ~inv'[slot'[t]].ended /\ inv'[slot'[t]].task = t
    BY <1>2, <1>3, <2>2 DEF LineInv, ObjectsInv, SlotHolds, Holding, TypeOK, ObjectsOK
  <2>. QED  BY <2>1, <2>2 DEF HoldsSlot, SlotHolds, Holding
<1>6. job.kind = "commit" => KeepsOut(inv[job.inv], inv'[job.inv])
  BY <1>1, <1>2 DEF LineInv, JobInv, KeepsOut, Same
<1>. QED  BY <1>4, <1>5, <1>6 DEF Orderly, Moves

\* An invocation that goes on to another point of its life moves.
LEMMA GoesOn ==
    ASSUME TypeOK, LineInv, NEW i \in Invs, inv[i].pc # "reserved", NEW v,
           v.pc \notin {"free", "reserved", "done"}, v.ended = inv[i].ended,
           Same(inv[i], v), inv[i].out # "none" => v.out # "none",
           inv' = [inv EXCEPT ![i] = v], UNCHANGED slot
    PROVE  Moves
<1>1. Follows(inv[i], v)
  BY DEF Follows
<1>2. KeepsOut(inv[i], v)
  BY DEF KeepsOut
<1>. QED  BY <1>1, <1>2, OneMoves

\* So does one whose commit has left the line.
LEMMA DequeuedFollows ==
    ASSUME NEW w \in Invocation, w.pc = "free" => w = FreeInv, w.pc = "done" => w.ended,
           w.out # "none"
    PROVE  Follows(w, Dequeued(w)) /\ (~w.ended => ~Dequeued(w).ended)
<1>1. CASE w.pc = "done"
  <2>1. Dequeued(w) = FreeInv /\ w.ended
    BY <1>1 DEF Dequeued
  <2>2. Follows(w, FreeInv)
    BY FreeObject DEF Follows
  <2>. QED  BY <2>1, <2>2
<1>2. CASE w.pc # "done"
  <2>. DEFINE v == [w EXCEPT !.out = "none"]
  <2>1. Dequeued(w) = v /\ w.pc # "free"
    BY <1>2 DEF Dequeued, FreeInv
  <2>2. v.pc = w.pc /\ v.ended = w.ended /\ Same(w, v)
    BY DEF Invocation, Same
  <2>. HIDE DEF v
  <2>. QED  BY <1>2, <2>1, <2>2 DEF Follows
<1>. QED  BY <1>1, <1>2

\* So does one that ends, or has nothing more to do.
LEMMA RetiredForm ==
    ASSUME NEW w \in Invocation
    PROVE  /\ Retired(w) \in Invocation /\ KeepsOut(w, Retired(w))
           /\ Retired(w).pc # "reserved" /\ (Retired(w).pc = "free" => Retired(w) = FreeInv)
<1>1. CASE w.out = "none"
  BY <1>1, FreeObject DEF Retired, KeepsOut
<1>2. CASE w.out # "none"
  <2>1. Retired(w) = [w EXCEPT !.pc = "done", !.ended = TRUE]
    BY <1>2 DEF Retired
  <2>. QED  BY <2>1 DEF Invocation, KeepsOut, Same, Pcs
<1>. QED  BY <1>1, <1>2

\* Every step of an invocation moves it.
LEMMA HandlersMove ==
    ASSUME TypeOK, HeldInv, LineInv, Handlers
    PROVE  Moves
<1>. \A j \in Invs : inv[j] \in Invocation
  BY DEF TypeOK, ObjectsOK
<1>. DEFINE goesOn == {"granted", "step", "settling", "dispatch", "handler", "finally"}
<1>1. ASSUME NEW i \in Invs, NEW p \in goesOn, inv[i].pc # "reserved",
             End(i, [inv[i] EXCEPT !.pc = p])
      PROVE  Moves
  <2>. DEFINE v == [inv[i] EXCEPT !.pc = p]
  <2>. p \in Pcs
    BY DEF Pcs
  <2>1. v \in Invocation
    BY ObjectUpdates
  <2>4. v.pc = p
    BY DEF Invocation
  <2>2. KeepsOut(inv[i], v)
    BY DEF Invocation, KeepsOut, Same
  <2>3. End(i, v)
    BY <1>1
  <2>. HIDE DEF v
  <2>. QED  BY <2>1, <2>2, <2>3, <2>4, EndMoves
<1>2. ASSUME NEW i \in Invs, NEW p \in goesOn, inv[i].pc # "reserved",
             inv' = [inv EXCEPT ![i].pc = p], UNCHANGED slot
      PROVE  Moves
  <2>. DEFINE v == [inv[i] EXCEPT !.pc = p]
  <2>1. v.pc = p /\ v.ended = inv[i].ended /\ v.out = inv[i].out /\ Same(inv[i], v)
    BY DEF Invocation, Same
  <2>2. inv' = [inv EXCEPT ![i] = v] /\ UNCHANGED slot
    BY <1>2
  <2>. HIDE DEF v
  <2>. QED  BY <1>2, <2>1, <2>2, GoesOn
<1>3. ASSUME NEW i \in Invs, Start(i) PROVE Moves
  BY <1>3, <1>1, <1>2 DEF Start
<1>4. ASSUME NEW i \in Invs, StepEnds(i) PROVE Moves
  BY <1>4, <1>1 DEF StepEnds, StepBegin
<1>5. ASSUME NEW i \in Invs, StepContinues(i) PROVE Moves
  <2>. DEFINE c == live[inv[i].task].cp
              v == [inv[i] EXCEPT !.pc = "dispatch", !.threw = FALSE, !.prev = c]
  <2>1. inv' = [inv EXCEPT ![i] = v] /\ UNCHANGED slot /\ inv[i].pc # "reserved"
    BY <1>5 DEF StepContinues, StepBegin
  <2>. HIDE DEF c
  <2>2. v.pc = "dispatch" /\ v.ended = inv[i].ended /\ v.out = inv[i].out /\ Same(inv[i], v)
    BY DEF Invocation, Same
  <2>. HIDE DEF v
  <2>. QED  BY <2>1, <2>2, GoesOn
<1>6. ASSUME NEW i \in Invs, StepWrites(i) PROVE Moves
  BY <1>6, <1>1 DEF StepWrites, StepBegin
<1>7. ASSUME NEW i \in Invs, Dispatch(i) PROVE Moves
  BY <1>7, <1>2 DEF Dispatch
<1>8. ASSUME NEW i \in Invs, HandlerCommit(i) PROVE Moves
  <2>1. PICK o \in {"ahead", "behind"} : inv' = [inv EXCEPT ![i] = [inv[i] EXCEPT !.out = o]]
    BY <1>8 DEF HandlerCommit
  <2>. DEFINE v == [inv[i] EXCEPT !.out = o]
  <2>2. inv[i].pc \in {"handler", "step", "dispatch"} /\ UNCHANGED slot
    BY <1>8 DEF HandlerCommit
  <2>3. v.pc = inv[i].pc /\ v.ended = inv[i].ended /\ v.out = o /\ Same(inv[i], v)
    BY DEF Invocation, Same
  <2>4. inv' = [inv EXCEPT ![i] = v]
    BY <2>1
  <2>. HIDE DEF v
  <2>. QED  BY <2>2, <2>3, <2>4, GoesOn
<1>9. ASSUME NEW i \in Invs, CommitNothing(i) PROVE Moves
  <2>1. /\ inv' = [inv EXCEPT ![i] = Dequeued(inv[i])] /\ UNCHANGED slot
        /\ inv[i].out # "none" /\ job.kind # "commit"
    BY <1>9 DEF CommitNothing, CommitBegin, LineFree, NoJob
  <2>2. /\ Follows(inv[i], Dequeued(inv[i]))
        /\ ~inv[i].ended => ~Dequeued(inv[i]).ended
    BY <2>1, DequeuedFollows DEF LineInv, ObjectsInv
  <2>. QED  BY <2>1, <2>2, OneMoves
<1>10. ASSUME NEW i \in Invs, CommitWrites(i) PROVE Moves
  BY <1>10, SameMoves DEF CommitWrites
<1>11. ASSUME NEW i \in Invs, HandlerReturn(i) PROVE Moves
  <2>2. inv[i].pc # "reserved"
    BY <1>11 DEF HandlerReturn
  <2>3. ASSUME NEW threw \in BOOLEAN, UNCHANGED slot,
               inv' = [inv EXCEPT ![i] = Returned(inv[i], threw)]
        PROVE  Moves
    <3>. DEFINE o == IF inv[i].out = "none" THEN "none" ELSE "ahead"
                v == [inv[i] EXCEPT !.pc = "step", !.threw = threw, !.out = o]
    <3>1. inv' = [inv EXCEPT ![i] = v]
      BY <2>3 DEF Returned
    <3>2. v.pc = "step" /\ v.ended = inv[i].ended /\ v.out = o /\ Same(inv[i], v)
      BY DEF Invocation, Same
    <3>. HIDE DEF v
    <3>. QED  BY <2>2, <2>3, <3>1, <3>2, GoesOn
  <2>4. ASSUME End(i, [inv[i] EXCEPT !.pc = "finally"]) PROVE Moves
    BY <1>1, <2>2, <2>4
  <2>. QED  BY <1>11, <2>3, <2>4 DEF HandlerReturn
<1>12. ASSUME NEW i \in Invs, Finally(i) PROVE Moves
  <2>. DEFINE v == Retired(inv[i])
  <2>1. /\ v \in Invocation /\ KeepsOut(inv[i], v) /\ v.pc # "reserved"
        /\ v.pc = "free" => v = FreeInv
    BY RetiredForm
  <2>2. End(i, v)
    BY <1>12 DEF Finally
  <2>. HIDE DEF v
  <2>. QED  BY <2>1, <2>2, EndMoves
<1>. QED  BY <1>3, <1>4, <1>5, <1>6, <1>7, <1>8, <1>9, <1>10, <1>11, <1>12 DEF Handlers

\* Apart from a reservation, which adds an invocation, nothing outside does
\* more: closing signals those that hold a slot.
LEMMA OthersMove ==
    ASSUME TypeOK, LineInv,
           \/ Swap \/ Close \/ Join \/ CloseStorage \/ DrainTurn \/ ReserveBegin
           \/ (\E t \in Tasks : VisitBlocked(t)) \/ Callers \/ Refuse
    PROVE  Moves
<1>1. CASE Close
  <2>1. \A j \in Invs : LET v == [inv[j] EXCEPT !.sig = TRUE] IN
          /\ Same(inv[j], v) /\ v.pc = inv[j].pc /\ v.ended = inv[j].ended
          /\ v.out = inv[j].out
    BY DEF TypeOK, ObjectsOK, Invocation, Same
  <2>2. \A j \in Invs : /\ Same(inv[j], inv'[j]) /\ inv'[j].pc = inv[j].pc
                        /\ inv'[j].ended = inv[j].ended /\ inv'[j].out = inv[j].out
    BY <1>1, <2>1 DEF Close, Same
  <2>3. ASSUME NEW j \in Invs, inv[j].pc = "free" PROVE inv'[j] = inv[j]
    <3>1. inv[j].ended
      BY <2>3, FreeObject DEF LineInv, ObjectsInv
    <3>2. ASSUME NEW t \in Tasks, slot[t] = j PROVE FALSE
      <4>1. slot[t] # NoInv
        BY <3>2, SchedulerAssumption
      <4>2. ~inv[slot[t]].ended
        BY <4>1 DEF LineInv, ObjectsInv, SlotHolds, Holding
      <4>. QED  BY <3>1, <3>2, <4>2
    <3>. QED  BY <1>1, <3>2 DEF Close
  <2>4. \A j \in Invs : Follows(inv[j], inv'[j]) /\ KeepsOut(inv[j], inv'[j])
    BY <2>2, <2>3 DEF Follows, KeepsOut, LineInv, ObjectsInv
  <2>5. HoldsSlot' /\ SlotHolds'
    BY <1>1, <2>2 DEF Close, HoldsSlot, SlotHolds, Holding, LineInv, ObjectsInv, Same, TypeOK, ObjectsOK
  <2>. QED  BY <2>4, <2>5 DEF Orderly, Moves, LineInv, JobInv
<1>2. CASE ~Close
  BY <1>2, SameMoves
     DEF Swap, Join, CloseStorage, DrainTurn, ReserveBegin, VisitBlocked, Refuse, Callers,
         ResumeCall, WaitForIdle, Create, WaitForTask, WaitBegin, AbortTask, AbortNothing,
         AbortMark
<1>. QED  BY <1>1, <1>2

------------------------------------------------------------------------------
(* Three kinds of steps *)

\* Those that leave records, mirror and line alone.
Quiet ==
    \/ Swap \/ Close \/ Join \/ CloseStorage \/ DrainTurn \/ ResumeCall \/ WaitForIdle
    \/ \E i \in Invs :
        \/ Start(i) \/ StepEnds(i) \/ StepContinues(i) \/ Dispatch(i)
        \/ HandlerCommit(i) \/ CommitNothing(i) \/ HandlerReturn(i) \/ Finally(i)
    \/ \E t \in Tasks : WaitForTask(t) \/ WaitBegin(t) \/ AbortTask(t) \/ AbortNothing(t)

\* Those that put a job on the line, and those of the reservation on the line.
Begins ==
    \/ ReserveBegin \/ Refuse
    \/ \E i \in Invs : StepWrites(i) \/ CommitWrites(i)
    \/ \E t \in Tasks : Create(t) \/ AbortMark(t)
Visits == \E t \in Tasks : VisitBlocked(t) \/ VisitReserve(t)

\* Besides them, a process opens or dies, and the job on the line settles.
LEMMA Kinds ==
    ASSUME Next
    PROVE  Quiet \/ Begins \/ Visits \/ Open \/ Crash \/ SettleOk \/ SettleFails
<1>1. CASE Life \/ Loop \/ Line
  BY <1>1 DEF Life, Loop, Line, Quiet, Begins, Visits
<1>2. CASE Handlers \/ Callers
  BY <1>2 DEF Handlers, Callers, Quiet, Begins
<1>. QED  BY <1>1, <1>2 DEF Next

\* A quiet step leaves Storage, the mirror and the line alone; Storage closes only
\* when no job is left.
LEMMA QuietFrame ==
    ASSUME TypeOK, HeldInv, LineInv, Quiet
    PROVE  /\ Moves
           /\ UNCHANGED <<durable, live, poisoned, job, staged, todo>>
           /\ sess' = sess \/ (sess' = "closed" /\ job = NoJob)
<1>1. Moves
  BY HandlersMove, OthersMove DEF Quiet, Handlers, Callers
<1>2. UNCHANGED <<durable, live, poisoned, job, staged, todo>>
  BY DEF Quiet, Swap, Close, Join, CloseStorage, DrainTurn, ResumeCall, WaitForIdle,
         Start, StepEnds, StepContinues, Dispatch, HandlerCommit, CommitNothing,
         HandlerReturn, Finally, WaitForTask, WaitBegin, AbortTask, AbortNothing,
         storeVars, lineVars
<1>3. sess' = sess \/ (sess' = "closed" /\ job = NoJob)
  BY DEF Quiet, Swap, Close, Join, CloseStorage, DrainTurn, ResumeCall, WaitForIdle,
         Start, StepEnds, StepContinues, Dispatch, HandlerCommit, CommitNothing,
         HandlerReturn, Finally, WaitForTask, WaitBegin, AbortTask, AbortNothing,
         closeVars, outerVars, LineDrained
<1>. QED  BY <1>1, <1>2, <1>3

\* A step that puts a job on a free line commits nothing yet.
LEMMA BeginsFrame ==
    ASSUME TypeOK, HeldInv, LineInv, Begins
    PROVE  /\ Moves
           /\ UNCHANGED <<durable, live, poisoned, sess>>
           /\ sess = "open" /\ job = NoJob
           /\ job'.kind \notin {"none", "open"}
           /\ todo' # {} => job'.kind = "reserve"
           /\ \A t \in todo' : live[t] # Absent /\ WaitingOn(t) = {}
           /\ job'.kind \in {"step", "commit"} => job'.inv \in Invs
           /\ job'.kind = "commit" => inv[job'.inv].out # "none" /\ UNCHANGED inv
           /\ job'.kind = "abort" => job'.task \in Tasks
           /\ poisoned => UNCHANGED <<staged, todo>>
<1>1. UNCHANGED <<durable, live, poisoned, sess>> /\ sess = "open" /\ job = NoJob
  BY DEF Begins, ReserveBegin, Refuse, StepWrites, StepBegin, CommitWrites, CommitBegin, Create,
         AbortMark, AbortBegin, LineFree, storeVars, closeVars, outerVars
<1>2. todo = {}
  BY <1>1 DEF LineInv, QuietLine, NoJob
<1>3. Moves
  BY HandlersMove, OthersMove DEF Begins, Handlers, Callers
<1>4. CASE ReserveBegin
  <2>1. job'.kind = "reserve" /\ ~poisoned
    BY <1>4 DEF ReserveBegin, NoJob
  <2>2. \A t \in todo' : live[t] # Absent /\ WaitingOn(t) = {}
    BY <1>4 DEF ReserveBegin, Candidates
  <2>. QED  BY <1>1, <1>2, <1>3, <2>1, <2>2
<1>5. CASE Refuse
  <2>1. PICK k \in {"reserve", "step", "commit", "abort"},
             i \in Invs \cup {NoInv}, t \in Tasks \cup {NoTask} :
          /\ k \in {"step", "commit"} => i \in Invs
          /\ k = "commit" => inv[i].out # "none"
          /\ k = "abort" => t \in Tasks
          /\ job' = [NoJob EXCEPT !.kind = k, !.inv = i, !.task = t]
    BY <1>5 DEF Refuse
  <2>2. job'.kind = k /\ job'.inv = i /\ job'.task = t
    BY <2>1 DEF NoJob
  <2>3. UNCHANGED <<staged, todo, inv>>
    BY <1>5 DEF Refuse
  <2>. QED  BY <1>1, <1>2, <1>3, <2>1, <2>2, <2>3
<1>6. ASSUME NEW i \in Invs, StepWrites(i) \/ CommitWrites(i)
      PROVE  /\ job'.kind \in {"step", "commit"} /\ job'.inv = i /\ todo' = todo /\ ~poisoned
             /\ job'.kind = "commit" => inv[i].out # "none" /\ UNCHANGED inv
  <2>1. CASE StepWrites(i)
    BY <2>1 DEF StepWrites, StepBegin, NoJob
  <2>2. CASE CommitWrites(i)
    BY <2>2 DEF CommitWrites, CommitBegin, NoJob
  <2>. QED  BY <1>6, <2>1, <2>2
<1>7. ASSUME NEW t \in Tasks, Create(t) \/ AbortMark(t)
      PROVE  job'.kind \in {"create", "abort"} /\ job'.task = t /\ todo' = todo /\ ~poisoned
  BY <1>7 DEF Create, AbortMark, AbortBegin, NoJob
<1>. QED  BY <1>1, <1>2, <1>3, <1>4, <1>5, <1>6, <1>7 DEF Begins

\* A visit takes up a task that is live, free and not written yet.
LEMMA VisitsFrame ==
    ASSUME TypeOK, HeldInv, LineInv, NEW t \in Tasks, VisitBlocked(t) \/ VisitReserve(t)
    PROVE  /\ UNCHANGED <<durable, live, poisoned, sess, job>> /\ todo' = todo \ {t}
           /\ sess = "open" /\ ~poisoned /\ job.kind = "reserve" /\ t \in todo
           /\ live[t] # Absent /\ slot[t] = NoInv /\ WaitingOn(t) = {} /\ staged[t] = Absent
           /\ \A u \in Tasks \ {t} : staged'[u] = staged[u]
<1>1. /\ UNCHANGED <<durable, live, poisoned, sess, job>> /\ todo' = todo \ {t} /\ t \in todo
      /\ \A u \in Tasks \ {t} : staged'[u] = staged[u]
  BY DEF VisitBlocked, VisitReserve, storeVars, closeVars, outerVars, TypeOK, LineOK
<1>2. /\ live[t] # Absent /\ slot[t] = NoInv /\ WaitingOn(t) = {} /\ staged[t] = Absent
      /\ ~poisoned /\ job.kind = "reserve"
  BY <1>1 DEF HeldInv, TodoIsFree, LineInv, TodoInv, QuietLine
<1>3. sess = "open"
  BY <1>2 DEF LineInv, OpeningInv, TypeOK, CloseOK, NoJob
<1>. QED  BY <1>1, <1>2, <1>3

\* A reservation makes one new invocation of the task, and moves no other.
LEMMA ReserveFrame ==
    ASSUME TypeOK, HeldInv, LineInv, NEW t \in Tasks, VisitReserve(t)
    PROVE  \E k \in Invs, res \in Resolutions(t, live[t], job.def) :
             /\ inv[k] = FreeInv
             /\ inv'[k].pc = "reserved" /\ inv'[k].task = t /\ inv'[k].def = job.def
             /\ inv'[k].mode = (IF live[t].mark THEN "abort" ELSE "run")
             /\ ~inv'[k].ended
             /\ \A j \in Invs \ {k} : inv'[j] = inv[j]
             /\ slot' = [slot EXCEPT ![t] = k]
             /\ res.ok
             /\ staged'[t] = IF res.rec # live[t] \/ live[t].st # "running"
                             THEN [res.rec EXCEPT !.st = "running"] ELSE Absent
<1>. DEFINE mode == IF live[t].mark THEN "abort" ELSE "run"
            w == NewInv(t, mode, job.def)
<1>1. FreshInv \in Invs /\ inv[FreshInv].pc = "free"
  BY DEF VisitReserve, FreshInv
<1>2. inv[FreshInv] = FreeInv
  BY <1>1 DEF LineInv, ObjectsInv
<1>3. inv' = [inv EXCEPT ![FreshInv] = w] /\ slot' = [slot EXCEPT ![t] = FreshInv]
  BY DEF VisitReserve
<1>4. w.pc = "reserved" /\ w.task = t /\ w.mode = mode /\ w.def = job.def /\ w.ended = FALSE
  BY DEF NewInv, FreeInv
<1>. HIDE DEF w
<1>5. inv'[FreshInv] = w /\ \A j \in Invs \ {FreshInv} : inv'[j] = inv[j]
  BY <1>1, <1>3 DEF TypeOK, ObjectsOK
<1>6. staged[t] = Absent
  BY VisitsFrame
<1>7. PICK res \in Resolutions(t, live[t], job.def) :
        /\ res.ok
        /\ staged' = IF res.rec # live[t] \/ live[t].st # "running"
                     THEN [staged EXCEPT ![t] = [res.rec EXCEPT !.st = "running"]]
                     ELSE staged
  BY DEF VisitReserve
<1>8. staged'[t] = IF res.rec # live[t] \/ live[t].st # "running"
                   THEN [res.rec EXCEPT !.st = "running"] ELSE Absent
  BY <1>6, <1>7 DEF TypeOK, LineOK
<1>9. /\ inv'[FreshInv].pc = "reserved" /\ inv'[FreshInv].task = t
      /\ inv'[FreshInv].def = job.def
      /\ inv'[FreshInv].mode = (IF live[t].mark THEN "abort" ELSE "run")
      /\ ~inv'[FreshInv].ended
  BY <1>4, <1>5
<1>. FreshInv \in Invs
  BY <1>1
<1>10. WITNESS FreshInv \in Invs, res \in Resolutions(t, live[t], job.def)
<1>. QED  BY <1>2, <1>3, <1>5, <1>7, <1>8, <1>9

\* What the settlement of the job does to an object: a reserved one is granted
\* or forgotten, and at most one other ends.
LEMMA SettledObjects ==
    ASSUME TypeOK, HeldInv, LineInv, NEW ok \in BOOLEAN, Continuation(ok),
           job.kind # "none"
    PROVE  /\ \A j \in Invs :
                /\ inv'[j].pc = "free" => inv'[j] = FreeInv
                /\ inv'[j].pc = "done" => inv'[j].ended
                /\ inv'[j].pc # "reserved"
                /\ ~inv'[j].ended => /\ ~inv[j].ended /\ Same(inv[j], inv'[j])
                                     /\ inv[j].pc = "reserved" => ok
           /\ HoldsSlot' /\ SlotHolds'
<1>. DEFINE Objects == \A j \in Invs :
                /\ inv'[j].pc = "free" => inv'[j] = FreeInv
                /\ inv'[j].pc = "done" => inv'[j].ended
                /\ inv'[j].pc # "reserved"
                /\ ~inv'[j].ended => /\ ~inv[j].ended /\ Same(inv[j], inv'[j])
                                     /\ inv[j].pc = "reserved" => ok
            Goal == Objects /\ HoldsSlot' /\ SlotHolds'
<1>. \A j \in Invs : inv[j] \in Invocation
  BY DEF TypeOK, ObjectsOK
<1>1. ASSUME ReserveAfter(ok) PROVE Goal
  <2>. DEFINE made == {i \in Invs : inv[i].pc = "reserved"}
  <2>1. \A j \in Invs : inv'[j] = IF j \notin made THEN inv[j]
                                  ELSE IF ok THEN [inv[j] EXCEPT !.pc = "granted"]
                                  ELSE FreeInv
    BY <1>1 DEF ReserveAfter
  <2>2. \A t \in Tasks : slot'[t] = IF ~ok /\ slot[t] \in made THEN NoInv ELSE slot[t]
    BY <1>1 DEF ReserveAfter
  <2>3. \A j \in Invs : LET v == [inv[j] EXCEPT !.pc = "granted"] IN
           v.pc = "granted" /\ Same(inv[j], v) /\ v.ended = inv[j].ended
    BY DEF Invocation, Same
  <2>4. \A j \in made : inv[j].pc = "reserved" /\ ~inv[j].ended
    BY DEF HeldInv, SlotsAreHeld, HeldPcs
  <2>5. \A j \in Invs \ made : inv[j].pc # "reserved"
    OBVIOUS
  <2>. HIDE DEF made
  <2>6. ASSUME NEW j \in Invs, j \notin made
        PROVE  inv'[j] = inv[j] /\ inv[j].pc # "reserved"
    BY <2>1, <2>5, <2>6
  <2>7. ASSUME NEW j \in Invs, j \in made
        PROVE  /\ ok => inv'[j].pc = "granted" /\ Same(inv[j], inv'[j]) /\ ~inv'[j].ended
               /\ ~ok => inv'[j] = FreeInv
    BY <2>1, <2>3, <2>4, <2>7
  <2>8. Objects
    BY <2>4, <2>6, <2>7, FreeObject DEF LineInv, ObjectsInv, Same
  <2>9. HoldsSlot'
    <3>. SUFFICES ASSUME NEW j \in Invs, ~inv'[j].ended PROVE slot'[inv'[j].task] = j
      BY DEF HoldsSlot, Holding
    <3>1. ~inv[j].ended /\ inv'[j].task = inv[j].task /\ (j \in made => ok)
      BY <2>4, <2>6, <2>7, FreeObject DEF Same
    <3>2. slot[inv[j].task] = j /\ inv[j].task \in Tasks
      BY <3>1 DEF LineInv, ObjectsInv, HoldsSlot, Holding, HeldInv, ObjectsHaveTasks
    <3>. QED  BY <2>2, <3>1, <3>2
  <2>10. SlotHolds'
    <3>. SUFFICES ASSUME NEW t \in Tasks, slot'[t] # NoInv
                  PROVE  ~inv'[slot'[t]].ended /\ inv'[slot'[t]].task = t
      BY DEF SlotHolds, Holding
    <3>1. slot'[t] = slot[t] /\ slot[t] \in Invs /\ (slot[t] \in made => ok)
      BY <2>2 DEF TypeOK, ObjectsOK
    <3>2. ~inv[slot[t]].ended /\ inv[slot[t]].task = t
      BY <3>1 DEF LineInv, ObjectsInv, SlotHolds, Holding
    <3>. QED  BY <2>6, <2>7, <3>1, <3>2 DEF Same
  <2>. QED  BY <2>8, <2>9, <2>10
<1>2. ASSUME job.kind # "reserve", Orderly PROVE Goal
  BY <1>2 DEF Orderly, Follows, LineInv, ObjectsInv, Same
<1>. HIDE DEF Goal
<1>3. ASSUME StepAfter(ok) PROVE Goal
  <2>1. job.kind = "step" /\ job.inv \in Invs
    BY <1>3 DEF StepAfter, LineInv, JobInv
  <2>. DEFINE v == [inv[job.inv] EXCEPT !.pc = "finally"]
  <2>2. v \in Invocation
    BY <2>1, ObjectUpdates DEF Pcs
  <2>3. v.pc = "finally" /\ KeepsOut(inv[job.inv], v)
    BY <2>1 DEF Invocation, KeepsOut, Same
  <2>4. End(job.inv, v)
    BY <1>3 DEF StepAfter
  <2>. HIDE DEF v
  <2>. QED  BY <1>2, <2>1, <2>2, <2>3, <2>4, EndMoves DEF Moves
<1>4. ASSUME CommitAfter(ok) PROVE Goal
  <2>1. /\ job.kind = "commit" /\ job.inv \in Invs /\ inv[job.inv].out # "none"
        /\ inv' = [inv EXCEPT ![job.inv] = Dequeued(inv[job.inv])] /\ UNCHANGED slot
    BY <1>4 DEF CommitAfter, LineInv, JobInv
  <2>2. /\ Follows(inv[job.inv], Dequeued(inv[job.inv]))
        /\ ~inv[job.inv].ended => ~Dequeued(inv[job.inv]).ended
    BY <2>1, DequeuedFollows DEF LineInv, ObjectsInv
  <2>. QED  BY <1>2, <2>1, <2>2, OneFollows
<1>5. ASSUME AbortAfter(ok) PROVE Goal
  <2>1. job.kind = "abort" /\ job.task \in Tasks /\ UNCHANGED slot
    BY <1>5 DEF AbortAfter, LineInv, JobInv
  <2>2. CASE inv' = inv
    BY <1>2, <2>1, <2>2, SameMoves DEF Moves
  <2>3. CASE inv' # inv
    <3>. DEFINE v == [inv[job.inv] EXCEPT !.sig = TRUE]
    <3>1. StillRuns(job.inv, job.task) /\ inv' = [inv EXCEPT ![job.inv] = v]
      BY <1>5, <2>3 DEF AbortAfter
    <3>2. job.inv \in Invs /\ inv[job.inv].pc \notin {"free", "done"}
      BY <2>1, <3>1, SchedulerAssumption
         DEF StillRuns, LineInv, ObjectsInv, FreeInv, TypeOK, LineOK, Job
    <3>3. v.pc = inv[job.inv].pc /\ v.ended = inv[job.inv].ended /\ Same(inv[job.inv], v)
      BY <3>2 DEF Invocation, Same
    <3>. HIDE DEF v
    <3>4. Follows(inv[job.inv], v)
      BY <3>2, <3>3 DEF Follows
    <3>. QED  BY <1>2, <2>1, <3>1, <3>2, <3>3, <3>4, OneFollows
  <2>. QED  BY <2>2, <2>3
<1>6. ASSUME CreateAfter(ok) \/ OpenAfter(ok) PROVE Goal
  BY <1>2, <1>6, SameMoves DEF CreateAfter, OpenAfter, Moves
<1>7. Goal
  BY <1>1, <1>3, <1>4, <1>5, <1>6 DEF Continuation
<1>. QED  BY <1>7 DEF Goal

\* How a job settles: nothing is staged or on the line any more, and the records
\* changed at most as it had staged.
LEMMA SettleFrame ==
    ASSUME TypeOK, HeldInv, LineInv, NEW ok \in BOOLEAN,
           (ok /\ SettleOk) \/ (~ok /\ SettleFails)
    PROVE  /\ job.kind # "none" /\ todo = {} /\ sess \in {"opening", "open"}
           /\ job' = NoJob /\ staged' = NoWrites /\ todo' = {}
           /\ Continuation(ok)
           /\ ok => ~poisoned /\ durable' = Landed /\ live' = [t \in Tasks |-> Observed(t)]
           /\ ~ok => durable' \in {durable, Landed} /\ live' = live
           /\ ~poisoned' => ~poisoned /\ (~ok => durable' = durable)
           /\ sess' = IF job.kind # "open" THEN sess ELSE IF ok THEN "open" ELSE "closed"
<1>1. CASE ok
  <2>. SettleOk
    BY <1>1
  <2>1. Continuation(ok)
    BY <1>1 DEF SettleOk
  <2>2. /\ job.kind # "none" /\ todo = {} /\ ~poisoned /\ durable' = Landed
        /\ live' = [t \in Tasks |-> Observed(t)]
        /\ job' = NoJob /\ staged' = NoWrites /\ todo' = {}
    BY DEF SettleOk, Settling
  <2>. QED
    BY <1>1, <2>1, <2>2 DEF LineInv, OpeningInv, NoJob, TypeOK, CloseOK, Continuation,
       ReserveAfter, StepAfter, CommitAfter, AbortAfter, CreateAfter, OpenAfter, closeVars
<1>2. CASE ~ok
  <2>. SettleFails
    BY <1>2
  <2>1. Continuation(ok)
    BY <1>2 DEF SettleFails
  <2>2. /\ job.kind # "none" /\ todo = {}
        /\ job' = NoJob /\ staged' = NoWrites /\ todo' = {} /\ live' = live
        /\ durable' \in {durable, Landed}
        /\ ~poisoned' => ~poisoned /\ durable' = durable
    BY DEF SettleFails, Settling
  <2>. QED
    BY <1>2, <2>1, <2>2 DEF LineInv, OpeningInv, NoJob, TypeOK, CloseOK, Continuation,
       ReserveAfter, StepAfter, CommitAfter, AbortAfter, CreateAfter, OpenAfter, closeVars
<1>. QED  BY <1>1, <1>2

------------------------------------------------------------------------------
(* LineInv is inductive *)

\* The objects stay in order.
LEMMA ObjectsStep ==
    ASSUME TypeOK, HeldInv, LineInv, Next
    PROVE  ObjectsInv'
<1>1. ASSUME Moves, job.kind = "reserve" => job'.kind = "reserve" PROVE ObjectsInv'
  BY <1>1 DEF Moves, Orderly, Follows, LineInv, ObjectsInv
<1>2. CASE Quiet
  BY <1>1, <1>2, QuietFrame
<1>3. CASE Begins
  BY <1>1, <1>3, BeginsFrame DEF NoJob
<1>4. ASSUME NEW t \in Tasks, VisitBlocked(t) PROVE ObjectsInv'
  BY <1>1, <1>4, VisitsFrame, OthersMove
<1>5. ASSUME NEW t \in Tasks, VisitReserve(t) PROVE ObjectsInv'
  <2>1. slot[t] = NoInv /\ job'.kind = "reserve"
    BY <1>5, VisitsFrame
  <2>2. PICK k \in Invs :
          /\ inv[k] = FreeInv
          /\ inv'[k].pc = "reserved" /\ inv'[k].task = t /\ ~inv'[k].ended
          /\ \A j \in Invs \ {k} : inv'[j] = inv[j]
          /\ slot' = [slot EXCEPT ![t] = k]
    BY <1>5, ReserveFrame
  <2>3. \A u \in Tasks : slot'[u] = IF u = t THEN k ELSE slot[u]
    BY <2>2 DEF TypeOK, ObjectsOK
  <2>4. /\ \A j \in Invs : inv'[j].pc = "free" => inv'[j] = FreeInv
        /\ \A j \in Invs : inv'[j].pc = "done" => inv'[j].ended
    BY <2>2 DEF LineInv, ObjectsInv
  <2>5. HoldsSlot'
    <3>. SUFFICES ASSUME NEW j \in Invs, ~inv'[j].ended PROVE slot'[inv'[j].task] = j
      BY DEF HoldsSlot, Holding
    <3>1. CASE j = k
      BY <2>2, <2>3, <3>1
    <3>2. CASE j # k
      <4>1. inv'[j] = inv[j] /\ slot[inv[j].task] = j /\ inv[j].task \in Tasks
        BY <2>2, <3>2 DEF LineInv, ObjectsInv, HoldsSlot, Holding, HeldInv, ObjectsHaveTasks
      <4>. QED  BY <2>1, <2>3, <4>1, SchedulerAssumption
    <3>. QED  BY <3>1, <3>2
  <2>6. SlotHolds'
    <3>. SUFFICES ASSUME NEW u \in Tasks, slot'[u] # NoInv
                  PROVE  ~inv'[slot'[u]].ended /\ inv'[slot'[u]].task = u
      BY DEF SlotHolds, Holding
    <3>1. CASE u = t
      BY <2>2, <2>3, <3>1
    <3>2. CASE u # t
      <4>1. ~inv[slot[u]].ended /\ inv[slot[u]].task = u /\ slot[u] \in Invs /\ slot'[u] = slot[u]
        BY <2>3, <3>2 DEF LineInv, ObjectsInv, SlotHolds, Holding, TypeOK, ObjectsOK
      <4>2. slot[u] # k
        BY <2>2, <4>1, FreeObject
      <4>. QED  BY <2>2, <4>1, <4>2
    <3>. QED  BY <3>1, <3>2
  <2>. QED  BY <2>1, <2>4, <2>5, <2>6 DEF ObjectsInv
<1>6. CASE Open \/ Crash
  <2>1. \A j \in Invs : inv'[j] = FreeInv
    BY <1>6 DEF Open, Crash, Fresh
  <2>2. \A t \in Tasks : slot'[t] = NoInv
    BY <1>6 DEF Open, Crash, Fresh
  <2>. QED  BY <2>1, <2>2, FreeObject DEF ObjectsInv, HoldsSlot, SlotHolds, Holding
<1>7. CASE SettleOk \/ SettleFails
  <2>1. PICK ok \in BOOLEAN : Continuation(ok) /\ job.kind # "none"
    BY <1>7, SettleFrame
  <2>. QED  BY <2>1, SettledObjects DEF ObjectsInv
<1>. QED  BY <1>2, <1>3, <1>4, <1>5, <1>6, <1>7, Kinds DEF Visits

\* So do the writes on the line, the reservation and the job.
LEMMA WritesStep ==
    ASSUME TypeOK, HeldInv, LineInv, Next
    PROVE  QuietLine' /\ TodoInv' /\ JobInv'
<1>1. CASE Quiet
  <2>1. QuietLine' /\ TodoInv'
    BY <1>1, QuietFrame DEF LineInv, QuietLine, TodoInv, WaitingOn
  <2>2. JobInv'
    BY <1>1, QuietFrame DEF Moves, KeepsOut, LineInv, JobInv
  <2>. QED  BY <2>1, <2>2
<1>2. CASE Begins
  <2>1. /\ Moves /\ job = NoJob /\ job'.kind # "none" /\ UNCHANGED <<live, poisoned>>
        /\ poisoned => UNCHANGED <<staged, todo>>
        /\ todo' # {} => job'.kind = "reserve"
        /\ \A t \in todo' : WaitingOn(t) = {}
    BY <1>2, BeginsFrame
  <2>2. todo' # {} => staged' = NoWrites
    BY <1>2, <2>1 DEF Begins, ReserveBegin, Refuse, StepWrites, CommitWrites, Create, AbortMark,
       LineInv, QuietLine, NoJob
  <2>3. QuietLine'
    BY <2>1 DEF LineInv, QuietLine, NoJob
  <2>4. TodoInv'
    BY <2>1, <2>2, TypeStep DEF TodoInv, WaitingOn, NoWrites, TypeOK, LineOK
  <2>5. JobInv'
    BY <1>2, BeginsFrame DEF JobInv
  <2>. QED  BY <2>3, <2>4, <2>5
<1>3. ASSUME NEW t \in Tasks, VisitBlocked(t) \/ VisitReserve(t)
      PROVE  QuietLine' /\ TodoInv' /\ JobInv'
  <2>1. /\ UNCHANGED <<live, poisoned, job>> /\ todo' = todo \ {t}
        /\ ~poisoned /\ job.kind = "reserve"
        /\ \A u \in Tasks \ {t} : staged'[u] = staged[u]
    BY <1>3, VisitsFrame
  <2>2. todo \subseteq Tasks
    BY DEF TypeOK, LineOK
  <2>. QED  BY <2>1, <2>2 DEF LineInv, QuietLine, TodoInv, WaitingOn, JobInv
<1>4. CASE Open
  BY <1>4 DEF Open, Fresh, QuietLine, TodoInv, JobInv, NoJob, NoWrites, TypeOK
<1>5. CASE Crash \/ SettleOk \/ SettleFails
  <2>1. job' = NoJob /\ staged' = NoWrites /\ todo' = {}
    BY <1>5, SettleFrame DEF Crash
  <2>. QED  BY <2>1 DEF QuietLine, TodoInv, JobInv, NoJob
<1>. QED  BY <1>1, <1>2, <1>3, <1>4, <1>5, Kinds DEF Visits

\* A process that opens does nothing before its first job has settled.
LEMMA OpeningStep ==
    ASSUME TypeOK, HeldInv, LineInv, Next
    PROVE  OpeningInv'
<1>1. CASE Open
  BY <1>1 DEF Open, Fresh, OpeningInv, NoJob
<1>2. CASE Crash
  BY <1>2 DEF Crash, OpeningInv, NoJob
<1>3. CASE SettleOk \/ SettleFails
  <2>1. PICK ok \in BOOLEAN :
          /\ job' = NoJob
          /\ sess' = IF job.kind # "open" THEN sess ELSE IF ok THEN "open" ELSE "closed"
    BY <1>3, SettleFrame
  <2>. QED  BY <2>1 DEF LineInv, OpeningInv, NoJob
<1>4. CASE Begins
  <2>1. sess' = "open" /\ job'.kind # "open"
    BY <1>4, BeginsFrame
  <2>. QED  BY <2>1 DEF OpeningInv
<1>5. CASE Visits
  <2>1. sess' = "open" /\ job'.kind = "reserve"
    BY <1>5, VisitsFrame DEF Visits
  <2>. QED  BY <2>1 DEF OpeningInv
<1>6. CASE Quiet /\ sess = "opening"
  <2>1. /\ job.kind = "open" /\ ~closing /\ closePc = "none" /\ joined = {}
        /\ \A i \in Invs : inv[i] = FreeInv
        /\ idler = "idle" /\ \A t \in Tasks : waiter[t] = "idle"
    BY <1>6 DEF LineInv, OpeningInv
  <2>2. FreeInv.pc = "free" /\ FreeInv.out = "none"
    BY DEF FreeInv
  <2>3. CASE Swap \/ DrainTurn
    <3>1. UNCHANGED <<sess, job, closing, closePc, joined, inv, idler, waiter>>
      BY <2>3 DEF Swap, DrainTurn, closeVars, waitVars, outerVars, joinVars, lineVars
    <3>. QED  BY <1>6, <2>1, <3>1 DEF OpeningInv
  <2>4. ASSUME NEW i \in Invs PROVE ~(\/ Start(i) \/ StepEnds(i) \/ StepContinues(i) \/ Dispatch(i)
                                    \/ HandlerCommit(i) \/ CommitNothing(i) \/ HandlerReturn(i)
                                    \/ Finally(i))
    <3>1. inv[i].pc = "free" /\ inv[i].out = "none"
      BY <2>1, <2>2
    <3>. QED  BY <3>1 DEF Start, StepEnds, StepContinues, StepBegin, Dispatch, HandlerCommit,
       CommitNothing, CommitBegin, HandlerReturn, Finally
  <2>5. ~(Close \/ Join \/ CloseStorage \/ ResumeCall \/ WaitForIdle)
    BY <1>6, <2>1 DEF Close, Join, CloseStorage, ResumeCall, WaitForIdle
  <2>6. ASSUME NEW t \in Tasks
        PROVE  ~(WaitForTask(t) \/ WaitBegin(t) \/ AbortTask(t) \/ AbortNothing(t))
    BY <1>6 DEF WaitForTask, WaitBegin, LineFree, AbortTask, Usable, AbortNothing, AbortBegin
  <2>. QED  BY <1>6, <2>3, <2>4, <2>5, <2>6 DEF Quiet
<1>7. CASE Quiet /\ sess # "opening"
  <2>1. job' = job /\ (sess' = sess \/ (sess' = "closed" /\ job = NoJob))
    BY <1>7, QuietFrame
  <2>. QED  BY <1>7, <2>1 DEF LineInv, OpeningInv, NoJob
<1>. QED  BY <1>1, <1>2, <1>3, <1>4, <1>5, <1>6, <1>7, Kinds

\* Every step keeps the invariant of the line and the objects.
LEMMA LineStep ==
    ASSUME TypeOK, HeldInv, LineInv, [Next]_vars
    PROVE  LineInv'
<1>1. CASE Next
  BY <1>1, ObjectsStep, WritesStep, OpeningStep DEF LineInv
<1>2. CASE UNCHANGED vars
  BY <1>2 DEF vars, LineInv, ObjectsInv, HoldsSlot, SlotHolds, Holding, QuietLine, TodoInv,
     WaitingOn, OpeningInv, JobInv
<1>. QED  BY <1>1, <1>2

\* It holds before the first process opens.
LEMMA InitLine == Init => LineInv
BY FreeObject DEF Init, LineInv, ObjectsInv, HoldsSlot, SlotHolds, Holding, QuietLine, TodoInv,
   OpeningInv, JobInv, NoJob

------------------------------------------------------------------------------
(* The records *)

Up == sess \in {"opening", "open"} /\ ~poisoned

Mirror == Up => live = LiveOf(durable)

\* What is staged is a change the lifecycle allows.
StagedLegal ==
    \A t \in Tasks : staged[t] # Absent => Lifecycle!Change(t, durable[t], staged[t])

\* A task is created after the ones it names, and runs unmarked only after they
\* have settled.
DepsInv ==
    \A t \in Tasks :
        /\ durable[t] # Absent \/ staged[t] # Absent => \A d \in After[t] : durable[d] # Absent
        /\ durable[t].st = "running" /\ ~durable[t].mark
             => \A d \in After[t] : durable[d].st = "terminal"

\* Invocation w may hold a task with record r.
Fits(w, r) == r.st = "running" /\ w.def.ver = r.ver /\ (w.mode = "abort" => r.mark)

\* What an invocation that has not ended may rely on: its dependencies have
\* settled, and the record it will read, staged or committed, fits it unless a
\* handler has settled it.
HolderOK(i) ==
    LET w == inv[i]
        t == w.task
    IN  /\ durable[t] # Absent
        /\ w.mode = "run" => \A d \in After[t] : durable[d].st = "terminal"
        /\ staged[t] # Absent => \/ Fits(w, staged[t])
                                 \/ w.pc # "reserved" /\ staged[t].by \in {"run", "abort"}
        /\ live[t] # Absent /\ (w.pc = "reserved" => staged[t] = Absent) => Fits(w, live[t])

HoldersInv == \A i \in Invs : Holding(i) => HolderOK(i)

\* A run handler's commit is on the line only for an unmarked task.
CommitGated ==
    job.kind = "commit" =>
        \A t \in Tasks : staged[t] # Absent => inv[job.inv].mode = "abort" \/ ~durable[t].mark

RecordInv == Mirror /\ StagedLegal /\ DepsInv /\ HoldersInv /\ CommitGated

\* On a usable line the mirror reads the committed live records.
LEMMA MirrorReads ==
    ASSUME TypeOK, Mirror, Up, NEW t \in Tasks
    PROVE  /\ live[t] # Absent => durable[t] = live[t] /\ live[t] \in LiveRecord
           /\ IsLive(durable[t]) => live[t] = durable[t]
           /\ live[t] = Absent => ~IsLive(durable[t])
<1>1. live[t] = IF IsLive(durable[t]) THEN durable[t] ELSE Absent
  BY DEF Mirror, LiveOf
<1>2. ~IsLive(Absent)
  BY DEF IsLive, Absent
<1>. QED  BY <1>1, <1>2 DEF TypeOK, StoreOK

\* An invocation and what it may hold, whatever step moves it.
LEMMA HolderMoves ==
    ASSUME HeldInv, HoldersInv, Moves, NEW i \in Invs, ~inv'[i].ended
    PROVE  /\ ~inv[i].ended /\ Same(inv[i], inv'[i]) /\ HolderOK(i)
           /\ inv'[i].pc = "reserved" <=> inv[i].pc = "reserved"
           /\ inv[i].task \in Tasks
<1>1. /\ ~inv[i].ended /\ Same(inv[i], inv'[i])
      /\ inv'[i].pc = "reserved" <=> inv[i].pc = "reserved"
  BY DEF Moves, Orderly, Follows
<1>2. HolderOK(i) /\ inv[i].task \in Tasks
  BY <1>1 DEF HoldersInv, Holding, HeldInv, ObjectsHaveTasks
<1>. QED  BY <1>1, <1>2

\* A step that stages nothing keeps what the invariant says of the records.
LEMMA StagesNothing ==
    ASSUME TypeOK, HeldInv, RecordInv, Moves, UNCHANGED <<durable, live, poisoned, staged>>,
           Up' => Up, CommitGated'
    PROVE  RecordInv'
<1>1. Mirror'
  BY DEF RecordInv, Mirror, LiveOf
<1>2. StagedLegal' /\ DepsInv'
  BY DEF RecordInv, StagedLegal, DepsInv, Lifecycle!Change, Lifecycle!Reserved
<1>3. HoldersInv'
  <2>. SUFFICES ASSUME NEW i \in Invs, ~inv'[i].ended PROVE HolderOK(i)'
    BY DEF HoldersInv, Holding
  <2>. QED  BY HolderMoves DEF RecordInv, HolderOK, Fits, Same
<1>. QED  BY <1>1, <1>2, <1>3 DEF RecordInv

\* Neither does one that stages a legal change of one task, if whoever holds the
\* task may go on with it.
LEMMA StagesOne ==
    ASSUME TypeOK, HeldInv, RecordInv, Moves, UNCHANGED <<durable, live, poisoned, sess>>,
           NEW t \in Tasks, NEW q, q # Absent,
           \A u \in Tasks : staged'[u] = IF u = t THEN q ELSE staged[u],
           Lifecycle!Change(t, durable[t], q),
           \A d \in After[t] : durable[d] # Absent,
           \A i \in Invs : ~inv'[i].ended /\ inv[i].task = t =>
               Fits(inv[i], q) \/ (inv[i].pc # "reserved" /\ q.by \in {"run", "abort"}),
           CommitGated'
    PROVE  RecordInv'
<1>1. Mirror'
  BY DEF RecordInv, Mirror, LiveOf, Up
<1>2. StagedLegal' /\ DepsInv'
  BY DEF RecordInv, StagedLegal, DepsInv, Lifecycle!Change, Lifecycle!Reserved
<1>3. HoldersInv'
  <2>. SUFFICES ASSUME NEW i \in Invs, ~inv'[i].ended PROVE HolderOK(i)'
    BY DEF HoldersInv, Holding
  <2>1. CASE inv[i].task = t
    BY <2>1, HolderMoves DEF RecordInv, HolderOK, Fits, Same
  <2>2. CASE inv[i].task # t
    BY <2>2, HolderMoves DEF RecordInv, HolderOK, Fits, Same
  <2>. QED  BY <2>1, <2>2
<1>. QED  BY <1>1, <1>2, <1>3 DEF RecordInv

------------------------------------------------------------------------------
(* The changes jobs stage *)

\* TaskLifecycle and TaskScheduler mean the same records.
LEMMA SameRecords ==
    /\ Lifecycle!LiveRecord = LiveRecord /\ Lifecycle!Record = Record
    /\ Lifecycle!Absent = Absent /\ Lifecycle!Authors = Authors
    /\ \A r : Lifecycle!IsLive(r) <=> IsLive(r)
    /\ \A r, author : Lifecycle!Settled(r, author) = Settled(r, author)
    /\ \A c, v : Lifecycle!NewRecord(c, v) = NewRecord(c, v)
BY DEF Lifecycle!LiveRecord, LiveRecord, Lifecycle!Record, Record, Lifecycle!Absent, Absent,
   Lifecycle!TerminalRecord, TerminalRecord, Lifecycle!Authors, Authors, Lifecycle!IsLive,
   IsLive, Lifecycle!Settled, Settled, Lifecycle!NewRecord, NewRecord

\* The outcomes a live task may get.
LEMMA OutcomesAreLegal ==
    ASSUME NEW t \in Tasks, NEW r \in LiveRecord
    PROVE  /\ Lifecycle!Change(t, r, Settled(r, "orphaned"))
           /\ r.st = "running" => Lifecycle!Change(t, r, Settled(r, "faulted"))
           /\ r.st = "running" /\ ~r.mark => Lifecycle!Change(t, r, Settled(r, "run"))
           /\ r.st = "running" /\ r.mark => Lifecycle!Change(t, r, Settled(r, "abort"))
<1>1. IsLive(r)
  BY DEF LiveRecord, IsLive
<1>2. ASSUME NEW author \in {"orphaned", "faulted", "run", "abort"},
             author = "run" => r.st = "running" /\ ~r.mark,
             author = "abort" => r.st = "running" /\ r.mark,
             author = "faulted" => r.st = "running"
      PROVE  Lifecycle!Change(t, r, Settled(r, author))
  <2>1. author \in Authors \ {"none"}
    BY DEF Authors
  <2>2. Lifecycle!Terminated(r, Settled(r, author))
    BY <1>1, <1>2, <2>1, SameRecords DEF Lifecycle!Terminated
  <2>. QED  BY <2>2 DEF Lifecycle!Change
<1>. QED  BY <1>2

\* The progress, the memo, the return and the mark of a live task.
LEMMA UpdatesAreLegal ==
    ASSUME NEW t \in Tasks, NEW r \in LiveRecord
    PROVE  /\ Lifecycle!Change(t, r, [r EXCEPT !.mark = TRUE])
           /\ r.st = "running" =>
                /\ Lifecycle!Change(t, r, [r EXCEPT !.st = "pending"])
                /\ \A c \in Checkpoints :
                     Lifecycle!Change(t, r, [r EXCEPT !.st = "running", !.cp = c])
                /\ \A m \in MemoChoices(r) : Lifecycle!Change(t, r, [r EXCEPT !.memo = m])
<1>1. IsLive(r)
  BY DEF LiveRecord, IsLive
<1>2. Lifecycle!AbortMarked(r, [r EXCEPT !.mark = TRUE])
  BY <1>1, SameRecords DEF Lifecycle!AbortMarked
<1>3. ASSUME r.st = "running"
      PROVE  /\ Lifecycle!GivenBack(r, [r EXCEPT !.st = "pending"])
             /\ \A m \in MemoChoices(r) : Lifecycle!Memoised(r, [r EXCEPT !.memo = m])
  BY <1>3 DEF Lifecycle!GivenBack, Lifecycle!Memoised, MemoChoices
<1>4. ASSUME r.st = "running", NEW c \in Checkpoints
      PROVE  Lifecycle!Advanced(r, [r EXCEPT !.st = "running", !.cp = c])
  <2>1. [r EXCEPT !.st = "running", !.cp = c] = [r EXCEPT !.cp = c]
    BY <1>4 DEF LiveRecord
  <2>. QED  BY <1>4, <2>1 DEF Lifecycle!Advanced
<1>. QED  BY <1>2, <1>3, <1>4 DEF Lifecycle!Change

\* A reservation keeps mark and memo, and raises the version with a migration.
LEMMA ResolvedKeeps ==
    ASSUME NEW t \in Tasks, NEW r \in LiveRecord, NEW d \in Defs \cup {NoDef},
           NEW res \in Resolutions(t, r, d), res.ok
    PROVE  /\ res.rec \in LiveRecord /\ res.rec.ver = d.ver
           /\ res.rec.mark = r.mark /\ res.rec.memo = r.memo
           /\ res.rec.ver > r.ver \/ (res.rec.ver = r.ver /\ res.rec.cp = r.cp)
<1>. DEFINE moved(c) == [r EXCEPT !.ver = d.ver, !.cp = c]
            kept(tried) == [ok |-> FALSE, tried |-> tried, rec |-> r]
<1>1. ASSUME Unfit(t, r, d) PROVE FALSE
  <2>1. res = kept(FALSE)
    BY <1>1 DEF Resolutions
  <2>. QED  BY <2>1
<1>2. d \in Defs /\ d.ver \in Nat /\ r.ver \in Nat /\ d.ver >= r.ver
  <2>1. d \in Defs /\ ~(d.ver < r.ver)
    BY <1>1 DEF Unfit
  <2>2. d.ver \in Nat /\ r.ver \in Nat
    BY <2>1, SchedulerAssumption, RecordAssumption DEF LiveRecord
  <2>. QED  BY <2>1, <2>2
<1>3. CASE d.ver = r.ver
  <2>1. res.rec = r
    BY <1>1, <1>3 DEF Resolutions
  <2>. QED  BY <1>3, <2>1
<1>4. CASE d.ver # r.ver
  <2>3. res = kept(TRUE) \/ \E c \in Checkpoints :
                              res = [ok |-> TRUE, tried |-> FALSE, rec |-> moved(c)]
    BY <1>1, <1>4 DEF Resolutions
  <2>4. kept(TRUE).ok = FALSE
    OBVIOUS
  <2>5. \A c \in Checkpoints : [ok |-> TRUE, tried |-> FALSE, rec |-> moved(c)].rec = moved(c)
    OBVIOUS
  <2>. HIDE DEF kept, moved
  <2>1. \E c \in Checkpoints : res.rec = moved(c)
    BY <2>3, <2>4, <2>5
  <2>. USE DEF moved
  <2>2. \A c \in Checkpoints : /\ moved(c).ver = d.ver /\ moved(c).mark = r.mark
                                /\ moved(c).memo = r.memo
    BY DEF LiveRecord
  <2>. HIDE DEF moved
  <2>. QED  BY <1>2, <1>4, <2>1, <2>2, ResolvedForm
<1>. QED  BY <1>3, <1>4

------------------------------------------------------------------------------
(* RecordInv is inductive *)

\* The absent record is neither running nor settled.
LEMMA AbsentForm == Absent.st = "absent" /\ Absent.by = "none" /\ Absent.mark = FALSE
BY DEF Absent

\* A job that starts on the line finds nothing staged and an exact mirror,
LEMMA BeginsReads ==
    ASSUME TypeOK, LineInv, RecordInv, LineFree, ~poisoned
    PROVE  /\ staged = NoWrites /\ Up /\ job.kind = "none"
           /\ \A t \in Tasks : IsLive(durable[t]) => live[t] = durable[t]
<1>1. staged = NoWrites /\ Up /\ job.kind = "none"
  BY DEF LineFree, Up, LineInv, QuietLine, NoJob
<1>. QED  BY <1>1, MirrorReads DEF RecordInv

\* reads what is committed,
LEMMA TaskReads ==
    ASSUME TypeOK, LineInv, RecordInv, LineFree, ~poisoned, NEW t \in Tasks, live[t] # Absent
    PROVE  /\ durable[t] = live[t] /\ live[t] \in LiveRecord
           /\ \A d \in After[t] : durable[d] # Absent
<1>1. durable[t] = live[t] /\ live[t] \in LiveRecord
  BY BeginsReads, MirrorReads DEF RecordInv
<1>2. durable[t] # Absent
  BY <1>1
<1>. QED  BY <1>1, <1>2 DEF RecordInv, DepsInv

\* and finds no invocation that has only been reserved.
LEMMA HolderReads ==
    ASSUME TypeOK, HeldInv, LineInv, RecordInv, LineFree, ~poisoned, NEW i \in Invs, ~inv[i].ended
    PROVE  /\ inv[i].task \in Tasks /\ durable[inv[i].task] # Absent
           /\ inv[i].pc # "reserved" /\ slot[inv[i].task] = i
           /\ live[inv[i].task] # Absent => Fits(inv[i], live[inv[i].task])
<1>1. HolderOK(i)
  BY DEF RecordInv, HoldersInv, Holding
<1>2. inv[i].task \in Tasks /\ slot[inv[i].task] = i
  BY DEF HeldInv, ObjectsHaveTasks, LineInv, ObjectsInv, HoldsSlot, Holding
<1>3. inv[i].pc # "reserved"
  BY BeginsReads DEF LineInv, ObjectsInv
<1>. QED  BY <1>1, <1>2, <1>3 DEF HolderOK

\* The write of a step: a fault or a handover, by an invocation that has ended.
LEMMA StepWritesRecords ==
    ASSUME TypeOK, HeldInv, LineInv, RecordInv, NEW i \in Invs, StepWrites(i)
    PROVE  RecordInv'
<1>. DEFINE t == inv[i].task
            q == IF MustFault(i) THEN Settled(live[t], "faulted") ELSE [live[t] EXCEPT !.st = "pending"]
<1>1. LineFree /\ ~poisoned /\ ~inv[i].ended /\ slot[t] = i /\ live[t] # Absent
  BY DEF StepWrites, StepBegin, MustFault, MustHandOver, MustEnd, HeldInv, SlotsAreHeld, HeldPcs
<1>2. /\ staged = NoWrites /\ Up /\ t \in Tasks /\ durable[t] = live[t] /\ live[t] \in LiveRecord
      /\ \A d \in After[t] : durable[d] # Absent
      /\ live[t].st = "running"
  BY <1>1, BeginsReads, TaskReads, HolderReads DEF Fits
<1>3. Lifecycle!Change(t, durable[t], q)
  BY <1>2, OutcomesAreLegal, UpdatesAreLegal
<1>4. q # Absent
  <2>1. q.st # "absent"
    BY <1>2 DEF LiveRecord, Settled
  <2>. QED  BY <2>1 DEF Absent
<1>5. staged' = [staged EXCEPT ![t] = q] /\ job'.kind = "step"
  BY DEF StepWrites, NoJob
<1>. HIDE DEF q
<1>6. \A u \in Tasks : staged'[u] = IF u = t THEN q ELSE staged[u]
  BY <1>2, <1>5 DEF TypeOK, LineOK
<1>7. Moves /\ UNCHANGED <<durable, live, poisoned, sess>>
  BY BeginsFrame DEF Begins
<1>8. ASSUME NEW j \in Invs, ~inv'[j].ended, inv[j].task = t PROVE FALSE
  <2>1. slot'[t] = j
    BY <1>7, <1>8 DEF Moves, Orderly, Follows, Same, HoldsSlot, Holding
  <2>2. slot'[t] = NoInv
    BY <1>1, <1>2 DEF StepWrites, End
  <2>. QED  BY <2>1, <2>2, SchedulerAssumption
<1>9. CommitGated'
  BY <1>5 DEF CommitGated
<1>. HIDE DEF t
<1>. QED  BY <1>2, <1>3, <1>4, <1>6, <1>7, <1>8, <1>9, StagesOne

\* The write of a handler: progress, a memo, or the outcome its mode allows.
LEMMA CommitWritesRecords ==
    ASSUME TypeOK, HeldInv, LineInv, RecordInv, NEW i \in Invs, CommitWrites(i)
    PROVE  RecordInv'
<1>. DEFINE t == inv[i].task
            steps == {[live[t] EXCEPT !.st = "running", !.cp = c] : c \in Checkpoints}
            memos == {[live[t] EXCEPT !.memo = m] : m \in MemoChoices(live[t])}
            outcome == Settled(live[t], inv[i].mode)
<1>1. /\ LineFree /\ ~poisoned /\ ~inv[i].ended /\ live[t] # Absent
      /\ inv[i].mode = "run" => ~live[t].mark
  BY DEF CommitWrites, CommitBegin, Gated
<1>2. /\ staged = NoWrites /\ Up /\ t \in Tasks /\ durable[t] = live[t] /\ live[t] \in LiveRecord
      /\ \A d \in After[t] : durable[d] # Absent
      /\ Fits(inv[i], live[t]) /\ slot[t] = i /\ inv[i].pc # "reserved"
  BY <1>1, BeginsReads, TaskReads, HolderReads
<1>3. inv[i].mode \in {"run", "abort"}
  BY DEF TypeOK, ObjectsOK, Invocation
<1>4. PICK q \in steps \cup {outcome} \cup memos : staged' = [staged EXCEPT ![t] = q]
  BY Zenon DEF CommitWrites
<1>5. /\ Lifecycle!Change(t, durable[t], q)
      /\ Fits(inv[i], q) \/ q.by \in {"run", "abort"}
      /\ q # Absent
  <2>1. CASE q \in steps
    <3>1. PICK c \in Checkpoints : q = [live[t] EXCEPT !.st = "running", !.cp = c]
      BY <2>1
    <3>2. q.st = "running" /\ q.ver = live[t].ver /\ q.mark = live[t].mark
      BY <1>2, <3>1 DEF LiveRecord
    <3>3. Lifecycle!Change(t, durable[t], q)
      BY <1>2, <3>1, UpdatesAreLegal DEF Fits
    <3>4. Fits(inv[i], q)
      BY <1>2, <3>2 DEF Fits
    <3>5. q # Absent
      BY <3>4, AbsentForm DEF Fits
    <3>. QED  BY <3>3, <3>4, <3>5
  <2>2. CASE q = outcome
    <3>1. q.by = inv[i].mode /\ q.st = "terminal"
      BY <1>2, <2>2 DEF LiveRecord, Settled
    <3>2. Lifecycle!Change(t, durable[t], q)
      BY <1>1, <1>2, <1>3, <2>2, OutcomesAreLegal DEF Fits
    <3>3. q # Absent
      BY <3>1, AbsentForm
    <3>. QED  BY <1>3, <3>1, <3>2, <3>3
  <2>3. CASE q \in memos
    <3>1. PICK m \in MemoChoices(live[t]) : q = [live[t] EXCEPT !.memo = m]
      BY <2>3
    <3>2. q.st = live[t].st /\ q.ver = live[t].ver /\ q.mark = live[t].mark
      BY <1>2, <3>1 DEF LiveRecord
    <3>3. Lifecycle!Change(t, durable[t], q)
      BY <1>2, <3>1, UpdatesAreLegal DEF Fits
    <3>4. Fits(inv[i], q)
      BY <1>2, <3>2 DEF Fits
    <3>5. q # Absent
      BY <3>4, AbsentForm DEF Fits
    <3>. QED  BY <3>3, <3>4, <3>5
  <2>. QED  BY <2>1, <2>2, <2>3
<1>6. \A u \in Tasks : staged'[u] = IF u = t THEN q ELSE staged[u]
  BY <1>2, <1>4 DEF TypeOK, LineOK
<1>7. Moves /\ UNCHANGED <<durable, live, poisoned, sess, inv>>
  BY BeginsFrame DEF Begins, CommitWrites
<1>8. \A j \in Invs : ~inv'[j].ended /\ inv[j].task = t => Fits(inv[j], q) \/
        (inv[j].pc # "reserved" /\ q.by \in {"run", "abort"})
  <2>1. ASSUME NEW j \in Invs, ~inv'[j].ended, inv[j].task = t PROVE j = i
    <3>1. ~inv[j].ended
      BY <1>7, <2>1
    <3>. QED  BY <1>1, <1>2, <2>1, <3>1, HolderReads
  <2>. QED  BY <1>2, <1>5, <2>1
<1>9. CommitGated'
  <2>1. job'.inv = i
    BY DEF CommitWrites, NoJob
  <2>2. \A u \in Tasks : staged'[u] # Absent => u = t
    BY <1>2, <1>6 DEF NoWrites
  <2>. QED  BY <1>1, <1>2, <1>3, <1>7, <2>1, <2>2 DEF CommitGated
<1>. HIDE DEF t
<1>. QED  BY <1>2, <1>5, <1>6, <1>7, <1>8, <1>9, StagesOne

\* A new task: nothing holds it, and its dependencies exist.
LEMMA CreateRecords ==
    ASSUME TypeOK, HeldInv, LineInv, RecordInv, NEW t \in Tasks, Create(t)
    PROVE  RecordInv'
<1>1. /\ LineFree /\ ~poisoned /\ durable[t] = Absent /\ \A d \in After[t] : durable[d] # Absent
      /\ job'.kind = "create"
  BY DEF Create, NoJob
<1>2. PICK c \in Checkpoints, d \in Defs : staged' = [staged EXCEPT ![t] = NewRecord(c, d.ver)]
  BY DEF Create
<1>. DEFINE q == NewRecord(c, d.ver)
<1>3. Lifecycle!Change(t, durable[t], q)
  BY <1>1, SameRecords, SchedulerAssumption DEF Lifecycle!Change, Lifecycle!Created
<1>4. q # Absent
  BY AbsentForm DEF NewRecord
<1>. HIDE DEF q
<1>5. \A u \in Tasks : staged'[u] = IF u = t THEN q ELSE staged[u]
  BY <1>2 DEF TypeOK, LineOK, q
<1>6. Moves /\ UNCHANGED <<durable, live, poisoned, sess>>
  BY BeginsFrame DEF Begins
<1>7. ASSUME NEW i \in Invs, ~inv'[i].ended, inv[i].task = t PROVE FALSE
  BY <1>1, <1>6, <1>7, HolderReads DEF Moves, Orderly, Follows
<1>8. CommitGated'
  BY <1>1 DEF CommitGated
<1>. QED  BY <1>1, <1>3, <1>4, <1>5, <1>6, <1>7, <1>8, StagesOne

\* An abort marks a task that is held or has a definition, and orphans one that
\* nothing holds.
LEMMA AbortMarkRecords ==
    ASSUME TypeOK, HeldInv, LineInv, RecordInv, NEW t \in Tasks, AbortMark(t)
    PROVE  RecordInv'
<1>. DEFINE r == durable[t]
            marked == [r EXCEPT !.mark = TRUE]
            orphan == Settled(r, "orphaned")
<1>1. LineFree /\ ~poisoned /\ IsLive(r) /\ job'.kind = "abort"
  BY DEF AbortMark, AbortBegin, NoJob
<1>2. live[t] = r /\ live[t] # Absent
  BY <1>1, BeginsReads DEF IsLive, Absent
<1>3. r \in LiveRecord /\ \A d \in After[t] : durable[d] # Absent
  BY <1>1, <1>2, TaskReads
<1>4. Moves /\ UNCHANGED <<durable, live, poisoned, sess>> /\ UNCHANGED <<inv, slot>>
  BY BeginsFrame DEF Begins, AbortMark
<1>5. CommitGated'
  BY <1>1 DEF CommitGated
<1>6. ASSUME NEW q, staged' = [staged EXCEPT ![t] = q], q # Absent, Lifecycle!Change(t, r, q),
             \A i \in Invs : ~inv[i].ended /\ inv[i].task = t => Fits(inv[i], q)
      PROVE  RecordInv'
  <2>1. \A u \in Tasks : staged'[u] = IF u = t THEN q ELSE staged[u]
    BY <1>6 DEF TypeOK, LineOK
  <2>. QED  BY <1>3, <1>4, <1>5, <1>6, <2>1, StagesOne
<1>7. ASSUME staged' = staged PROVE RecordInv'
  BY <1>4, <1>5, <1>7, StagesNothing DEF Up
<1>8. ASSUME staged' = [staged EXCEPT ![t] = marked] PROVE RecordInv'
  <2>1. marked.st = r.st /\ marked.ver = r.ver /\ marked.mark = TRUE
    BY <1>3 DEF LiveRecord
  <2>2. marked # Absent
    BY <2>1, AbsentForm
  <2>3. Lifecycle!Change(t, r, marked)
    BY <1>3, UpdatesAreLegal
  <2>4. ASSUME NEW i \in Invs, ~inv[i].ended, inv[i].task = t PROVE Fits(inv[i], marked)
    <3>1. Fits(inv[i], r)
      BY <1>1, <1>2, <2>4, HolderReads
    <3>. QED  BY <2>1, <3>1 DEF Fits
  <2>. HIDE DEF marked
  <2>. QED  BY <1>6, <1>8, <2>2, <2>3, <2>4
<1>9. ASSUME staged' = [staged EXCEPT ![t] = orphan], ~Held(t) PROVE RecordInv'
  <2>1. orphan.st = "terminal"
    BY <1>3 DEF LiveRecord, Settled
  <2>2. orphan # Absent
    BY <2>1, AbsentForm
  <2>3. Lifecycle!Change(t, r, orphan)
    BY <1>3, OutcomesAreLegal
  <2>4. ASSUME NEW i \in Invs, ~inv[i].ended, inv[i].task = t PROVE FALSE
    BY <1>1, <1>9, <2>4, HolderReads, SchedulerAssumption DEF Held
  <2>. HIDE DEF orphan
  <2>. QED  BY <1>6, <1>9, <2>2, <2>3, <2>4
<1>10. \/ staged' = staged \/ staged' = [staged EXCEPT ![t] = marked]
       \/ staged' = [staged EXCEPT ![t] = orphan] /\ ~Held(t)
  BY Zenon DEF AbortMark
<1>. QED  BY <1>7, <1>8, <1>9, <1>10

\* Jobs that start keep the invariant.
LEMMA BeginsRecords ==
    ASSUME TypeOK, HeldInv, LineInv, RecordInv, Begins
    PROVE  RecordInv'
<1>1. CASE ReserveBegin \/ Refuse
  <2>1. staged' = staged /\ job = NoJob
    BY <1>1, BeginsFrame DEF Begins, ReserveBegin, Refuse
  <2>2. staged = NoWrites
    BY <2>1 DEF LineInv, QuietLine, NoJob
  <2>3. CommitGated'
    BY <2>1, <2>2 DEF CommitGated, NoWrites
  <2>. QED  BY <2>1, <2>3, BeginsFrame, StagesNothing DEF Up
<1>. QED  BY <1>1, StepWritesRecords, CommitWritesRecords, CreateRecords, AbortMarkRecords
          DEF Begins

\* Quiet steps stage nothing and leave the job alone.
LEMMA QuietRecords ==
    ASSUME TypeOK, HeldInv, LineInv, RecordInv, Quiet
    PROVE  RecordInv'
<1>1. /\ Moves /\ UNCHANGED <<durable, live, poisoned, job, staged>>
      /\ sess' = sess \/ (sess' = "closed" /\ job = NoJob)
  BY QuietFrame
<1>2. CommitGated'
  BY <1>1 DEF RecordInv, CommitGated, Moves, KeepsOut, Same, LineInv, JobInv
<1>. QED  BY <1>1, <1>2, StagesNothing DEF Up

\* A visit that takes no definition orphans a marked task, which nothing holds.
LEMMA VisitBlockedRecords ==
    ASSUME TypeOK, HeldInv, LineInv, RecordInv, NEW t \in Tasks, VisitBlocked(t)
    PROVE  RecordInv'
<1>. DEFINE q == Settled(live[t], "orphaned")
<1>1. /\ UNCHANGED <<durable, live, poisoned, sess, job>> /\ sess = "open" /\ ~poisoned
      /\ job.kind = "reserve" /\ live[t] # Absent /\ slot[t] = NoInv
  BY VisitsFrame
<1>2. durable[t] = live[t] /\ live[t] \in LiveRecord /\ durable[t] # Absent
  BY <1>1, MirrorReads DEF RecordInv, Up
<1>3. Moves /\ UNCHANGED inv
  BY OthersMove DEF VisitBlocked
<1>4. CommitGated'
  BY <1>1 DEF CommitGated
<1>5. CASE staged' = staged
  BY <1>1, <1>3, <1>4, <1>5, StagesNothing DEF Up
<1>6. CASE staged' = [staged EXCEPT ![t] = q]
  <2>1. Lifecycle!Change(t, durable[t], q)
    BY <1>2, OutcomesAreLegal
  <2>2. q.st = "terminal"
    BY <1>2 DEF LiveRecord, Settled
  <2>3. q # Absent
    BY <2>2, AbsentForm
  <2>4. \A d \in After[t] : durable[d] # Absent
    BY <1>2 DEF RecordInv, DepsInv
  <2>. HIDE DEF q
  <2>5. \A u \in Tasks : staged'[u] = IF u = t THEN q ELSE staged[u]
    BY <1>6 DEF TypeOK, LineOK
  <2>6. ASSUME NEW i \in Invs, ~inv'[i].ended, inv[i].task = t PROVE FALSE
    BY <1>1, <1>3, <2>6, SchedulerAssumption DEF LineInv, ObjectsInv, HoldsSlot, Holding
  <2>. QED  BY <1>1, <1>3, <1>4, <2>1, <2>3, <2>4, <2>5, <2>6, StagesOne
<1>. QED  BY <1>5, <1>6 DEF VisitBlocked

\* A reservation is a legal change whose new invocation may hold the task.
LEMMA VisitReserveRecords ==
    ASSUME TypeOK, HeldInv, LineInv, RecordInv, NEW t \in Tasks, VisitReserve(t)
    PROVE  RecordInv'
<1>. DEFINE r == live[t]
            d == job.def
<1>1. /\ UNCHANGED <<durable, live, poisoned, sess, job>> /\ sess = "open" /\ ~poisoned
      /\ job.kind = "reserve" /\ r # Absent /\ slot[t] = NoInv /\ WaitingOn(t) = {}
      /\ \A u \in Tasks \ {t} : staged'[u] = staged[u]
  BY VisitsFrame
<1>2. durable[t] = r /\ r \in LiveRecord /\ durable[t] # Absent
  BY <1>1, MirrorReads DEF RecordInv, Up
<1>3. PICK k \in Invs, res \in Resolutions(t, r, d) :
        /\ inv[k] = FreeInv
        /\ inv'[k].pc = "reserved" /\ inv'[k].task = t /\ inv'[k].def = d
        /\ inv'[k].mode = (IF r.mark THEN "abort" ELSE "run")
        /\ \A j \in Invs \ {k} : inv'[j] = inv[j]
        /\ res.ok
        /\ staged'[t] = IF res.rec # r \/ r.st # "running"
                        THEN [res.rec EXCEPT !.st = "running"] ELSE Absent
  BY ReserveFrame
<1>. DEFINE q == [res.rec EXCEPT !.st = "running"]
<1>4. /\ res.rec \in LiveRecord /\ res.rec.ver = d.ver
      /\ res.rec.mark = r.mark /\ res.rec.memo = r.memo
      /\ res.rec.ver > r.ver \/ (res.rec.ver = r.ver /\ res.rec.cp = r.cp)
  <2>1. d \in Defs \cup {NoDef}
    BY DEF TypeOK, LineOK, Job
  <2>. HIDE DEF d, r
  <2>. QED  BY <1>2, <1>3, <2>1, ResolvedKeeps
<1>5. /\ q \in LiveRecord /\ q.st = "running" /\ q.ver = d.ver /\ q.mark = r.mark
      /\ q.memo = r.memo /\ q.cp = res.rec.cp
  BY <1>4 DEF LiveRecord
<1>6. \A e \in After[t] : e \in Tasks /\ durable[e] # Absent
  BY <1>2, RecordAssumption DEF RecordInv, DepsInv
<1>7. ~r.mark => \A e \in After[t] : durable[e].st = "terminal"
  <2>1. CASE r.st = "running"
    BY <1>2, <2>1 DEF RecordInv, DepsInv
  <2>2. CASE r.st # "running" /\ ~r.mark
    <3>1. r.st = "pending"
      BY <1>2, <2>2 DEF LiveRecord
    <3>2. \A e \in After[t] : live[e] = Absent
      BY <1>1, <2>2, <3>1 DEF WaitingOn
    <3>3. ASSUME NEW e \in After[t] PROVE durable[e].st = "terminal"
      <4>1. ~IsLive(durable[e]) /\ durable[e] \in Record /\ durable[e] # Absent
        BY <1>1, <1>6, <3>2, MirrorReads DEF RecordInv, Up, TypeOK, StoreOK
      <4>. QED  BY <4>1 DEF IsLive, Record, LiveRecord, TerminalRecord
    <3>. QED  BY <3>3
  <2>. QED  BY <2>1, <2>2
<1>. HIDE DEF q
<1>8. staged'[t] # Absent => staged'[t] = q
  BY <1>3 DEF q
<1>9. staged'[t] = Absent => res.rec = r /\ r.st = "running"
  <2>1. q # Absent
    BY <1>5, AbsentForm
  <2>. QED  BY <1>3, <2>1 DEF q
<1>10. Lifecycle!Change(t, r, q)
  <2>1. IsLive(r)
    BY <1>2 DEF LiveRecord, IsLive
  <2>2. ~r.mark => \A e \in After[t] : ~IsLive(durable[e])
    BY <1>7 DEF IsLive
  <2>3. Lifecycle!Reserved(t, r, q)
    BY <1>4, <1>5, <2>1, <2>2, SameRecords DEF Lifecycle!Reserved
  <2>. QED  BY <2>3 DEF Lifecycle!Change
<1>11. Mirror' /\ CommitGated'
  BY <1>1 DEF RecordInv, Mirror, LiveOf, Up, CommitGated
<1>12. StagedLegal'
  <2>1. ASSUME NEW u \in Tasks, staged'[u] # Absent PROVE Lifecycle!Change(u, durable[u], staged'[u])
    BY <1>1, <1>2, <1>8, <1>10, <2>1 DEF RecordInv, StagedLegal
  <2>. QED  BY <1>1, <2>1 DEF StagedLegal, Lifecycle!Change, Lifecycle!Reserved
<1>13. DepsInv'
  BY <1>1, <1>2 DEF RecordInv, DepsInv
<1>14. HoldersInv'
  <2>. SUFFICES ASSUME NEW i \in Invs, ~inv'[i].ended PROVE HolderOK(i)'
    BY DEF HoldersInv, Holding
  <2>1. CASE i = k
    <3>1. Fits(inv'[k], q)
      BY <1>3, <1>5 DEF Fits
    <3>2. staged'[t] = Absent => Fits(inv'[k], r)
      BY <1>3, <1>4, <1>9 DEF Fits
    <3>3. inv'[k].mode = "run" => ~r.mark
      BY <1>3
    <3>. HIDE DEF r
    <3>. QED  BY <1>1, <1>2, <1>3, <1>7, <1>8, <2>1, <3>1, <3>2, <3>3 DEF HolderOK, Fits, r
  <2>2. CASE i # k
    <3>1. inv'[i] = inv[i] /\ HolderOK(i) /\ inv[i].task \in Tasks
      BY <1>3, <2>2 DEF RecordInv, HoldersInv, Holding, HeldInv, ObjectsHaveTasks
    <3>2. inv[i].task # t
      BY <1>1, <3>1, SchedulerAssumption DEF LineInv, ObjectsInv, HoldsSlot, Holding
    <3>3. staged'[inv[i].task] = staged[inv[i].task]
      BY <1>1, <3>1, <3>2
    <3>. QED  BY <1>1, <3>1, <3>3 DEF HolderOK, Fits
  <2>. QED  BY <2>1, <2>2
<1>. QED  BY <1>11, <1>12, <1>13, <1>14 DEF RecordInv

------------------------------------------------------------------------------
(* The commit of a batch *)

\* No change starts from a terminal record.
LEMMA TerminalStays ==
    ASSUME NEW t \in Tasks, NEW r, NEW q, r.st = "terminal"
    PROVE  ~Lifecycle!Change(t, r, q)
<1>1. r # Lifecycle!Absent /\ ~Lifecycle!IsLive(r)
  BY SameRecords, AbsentForm DEF IsLive
<1>. QED  BY <1>1 DEF Lifecycle!Change, Lifecycle!Created, Lifecycle!Reserved,
   Lifecycle!GivenBack, Lifecycle!Advanced, Lifecycle!Memoised, Lifecycle!AbortMarked,
   Lifecycle!Terminated

\* A record that comes to run unmarked was live and unmarked, and if it was
\* pending then nothing it waits for was live.
LEMMA ComesToRun ==
    ASSUME NEW t \in Tasks, NEW r \in Record, NEW q, Lifecycle!Change(t, r, q),
           q.st = "running", ~q.mark
    PROVE  /\ r.st \in {"pending", "running"} /\ ~r.mark
           /\ r.st = "pending" => \A d \in After[t] : ~IsLive(durable[d])
<1>. DEFINE Goal == /\ r.st \in {"pending", "running"} /\ ~r.mark
                    /\ r.st = "pending" => \A d \in After[t] : ~IsLive(durable[d])
<1>1. CASE Lifecycle!Created(r, q)
  BY <1>1, SameRecords DEF Lifecycle!Created, NewRecord
<1>2. CASE Lifecycle!Reserved(t, r, q)
  BY <1>2, SameRecords DEF Lifecycle!Reserved, IsLive
<1>3. ASSUME r.st = "running" \/ IsLive(r) PROVE r \in LiveRecord
  BY <1>3, LiveForm DEF IsLive
<1>4. CASE Lifecycle!GivenBack(r, q)
  BY <1>3, <1>4 DEF Lifecycle!GivenBack, LiveRecord
<1>5. CASE Lifecycle!Advanced(r, q)
  <2>1. r.st = "running" /\ q.mark = r.mark
    BY <1>3, <1>5 DEF Lifecycle!Advanced, LiveRecord
  <2>. QED  BY <2>1
<1>6. CASE Lifecycle!Memoised(r, q)
  <2>1. r.st = "running" /\ q.mark = r.mark
    BY <1>3, <1>6 DEF Lifecycle!Memoised, LiveRecord
  <2>. QED  BY <2>1
<1>7. CASE Lifecycle!AbortMarked(r, q)
  <2>1. r \in LiveRecord /\ q = [r EXCEPT !.mark = TRUE]
    BY <1>3, <1>7, SameRecords DEF Lifecycle!AbortMarked
  <2>2. q.mark = TRUE
    BY <2>1 DEF LiveRecord
  <2>. QED  BY <2>2
<1>8. CASE Lifecycle!Terminated(r, q)
  <2>1. PICK author : r \in LiveRecord /\ q = Settled(r, author)
    BY <1>3, <1>8, SameRecords DEF Lifecycle!Terminated
  <2>2. q.st = "terminal"
    BY <2>1 DEF LiveRecord, Settled
  <2>. QED  BY <2>2
<1>. QED  BY <1>1, <1>2, <1>4, <1>5, <1>6, <1>7, <1>8 DEF Lifecycle!Change

\* Committing what is staged loses no record and changes no terminal one.
LEMMA LandedKeeps ==
    ASSUME StagedLegal, NEW t \in Tasks
    PROVE  /\ Landed[t] = IF staged[t] # Absent THEN staged[t] ELSE durable[t]
           /\ durable[t] # Absent => Landed[t] # Absent
           /\ durable[t].st = "terminal" => Landed[t] = durable[t]
<1>1. Landed[t] = IF staged[t] # Absent THEN staged[t] ELSE durable[t]
  BY DEF Landed
<1>2. durable[t].st = "terminal" => staged[t] = Absent
  BY TerminalStays DEF StagedLegal
<1>. QED  BY <1>1, <1>2

\* Nor does it disturb the order of dependencies.
LEMMA LandedDeps ==
    ASSUME TypeOK, StagedLegal, DepsInv, NEW t \in Tasks
    PROVE  /\ Landed[t] # Absent => \A d \in After[t] : Landed[d] # Absent
           /\ Landed[t].st = "running" /\ ~Landed[t].mark
                => \A d \in After[t] : Landed[d].st = "terminal"
<1>1. \A d \in After[t] : d \in Tasks
  BY RecordAssumption
<1>2. Landed[t] # Absent => \A d \in After[t] : Landed[d] # Absent
  BY <1>1, LandedKeeps DEF DepsInv
<1>3. ASSUME Landed[t].st = "running", ~Landed[t].mark
      PROVE  \A d \in After[t] : durable[d].st = "terminal"
  <2>1. CASE staged[t] = Absent
    BY <1>3, <2>1, LandedKeeps DEF DepsInv
  <2>2. CASE staged[t] # Absent
    <3>1. /\ durable[t].st \in {"pending", "running"} /\ ~durable[t].mark
          /\ durable[t].st = "pending" => \A d \in After[t] : ~IsLive(durable[d])
      BY <1>3, <2>2, LandedKeeps, ComesToRun DEF StagedLegal, TypeOK, StoreOK
    <3>2. CASE durable[t].st = "running"
      BY <3>1, <3>2 DEF DepsInv
    <3>3. CASE durable[t].st = "pending"
      <4>1. ASSUME NEW d \in After[t] PROVE durable[d].st = "terminal"
        <5>1. ~IsLive(durable[d]) /\ durable[d] \in Record /\ durable[d] # Absent
          BY <1>1, <2>2, <3>1, <3>3 DEF DepsInv, TypeOK, StoreOK
        <5>. QED  BY <5>1 DEF IsLive, Record, LiveRecord, TerminalRecord
      <4>. QED  BY <4>1
    <3>. QED  BY <3>1, <3>2, <3>3
  <2>. QED  BY <2>1, <2>2
<1>. QED  BY <1>1, <1>2, <1>3, LandedKeeps

\* Records change by such a commit only.
LEMMA CommitsOnly ==
    ASSUME TypeOK, HeldInv, LineInv, [Next]_vars
    PROVE  durable' \in {durable, Landed}
<1>1. CASE Quiet \/ Begins
  BY <1>1, QuietFrame, BeginsFrame
<1>2. CASE Visits
  BY <1>2, VisitsFrame DEF Visits
<1>3. CASE Open \/ Crash
  BY <1>3 DEF Open, Crash
<1>4. CASE SettleOk \/ SettleFails
  BY <1>4, SettleFrame
<1>5. CASE UNCHANGED vars
  BY <1>5 DEF vars
<1>. QED  BY <1>1, <1>2, <1>3, <1>4, <1>5, Kinds

\* What is staged or committed stays a legal state without a line or objects.
LEMMA NothingStaged ==
    ASSUME staged' = NoWrites, job' = NoJob
    PROVE  StagedLegal' /\ CommitGated'
BY DEF StagedLegal, CommitGated, NoWrites, NoJob

\* A process that opens gives the surviving `running` records back.
LEMMA OpenRecords ==
    ASSUME TypeOK, HeldInv, LineInv, RecordInv, Open
    PROVE  RecordInv'
<1>1. durable' = durable /\ live' = LiveOf(durable) /\ \A i \in Invs : inv'[i] = FreeInv
  BY DEF Open, Fresh
<1>2. Mirror'
  BY <1>1 DEF Mirror, LiveOf
<1>3. \A t \in Tasks : staged'[t] # Absent =>
        durable[t].st = "running" /\ staged'[t] = [durable[t] EXCEPT !.st = "pending"]
  BY DEF Open
<1>4. ASSUME NEW t \in Tasks, staged'[t] # Absent
      PROVE  Lifecycle!Change(t, durable[t], staged'[t]) /\ durable[t] # Absent
  <2>1. durable[t] \in LiveRecord
    BY <1>3, <1>4, LiveForm DEF IsLive, TypeOK, StoreOK
  <2>2. durable[t] # Absent
    BY <1>3, <1>4, AbsentForm
  <2>. QED  BY <1>3, <1>4, <2>1, <2>2, UpdatesAreLegal
<1>5. StagedLegal'
  BY <1>1, <1>4 DEF StagedLegal, Lifecycle!Change, Lifecycle!Reserved
<1>6. DepsInv'
  BY <1>1, <1>4 DEF RecordInv, DepsInv
<1>7. HoldersInv'
  BY <1>1, FreeObject DEF HoldersInv, Holding
<1>8. CommitGated'
  BY DEF Open, CommitGated, NoJob
<1>. QED  BY <1>2, <1>5, <1>6, <1>7, <1>8 DEF RecordInv

\* What a process that dies leaves in Storage.
LEMMA CrashRecords ==
    ASSUME TypeOK, HeldInv, LineInv, RecordInv, Crash
    PROVE  RecordInv'
<1>1. /\ durable' \in {durable, Landed} /\ sess' = "down" /\ staged' = NoWrites /\ job' = NoJob
      /\ \A i \in Invs : inv'[i] = FreeInv
  BY DEF Crash, Fresh
<1>2. Mirror'
  BY <1>1 DEF Mirror, Up
<1>3. DepsInv'
  <2>1. CASE durable' = durable
    BY <1>1, <2>1 DEF RecordInv, DepsInv, NoWrites
  <2>2. CASE durable' = Landed
    BY <1>1, <2>2, LandedDeps DEF RecordInv, DepsInv, NoWrites
  <2>. QED  BY <1>1, <2>1, <2>2
<1>4. HoldersInv'
  BY <1>1, FreeObject DEF HoldersInv, Holding
<1>. QED  BY <1>1, <1>2, <1>3, <1>4, NothingStaged DEF RecordInv

\* A record written by a handler's outcome is terminal.
LEMMA OutcomeIsTerminal ==
    ASSUME NEW r \in Record
    PROVE  /\ r.by # "none" <=> r.st = "terminal"
           /\ r # Absent /\ r.st # "terminal" => IsLive(r)
BY DEF Record, LiveRecord, TerminalRecord, Absent, IsLive, Authors

\* The mirror after a settlement is that of the records in Storage, and an
\* invocation that goes on still fits what it will read.
LEMMA SettleRecords ==
    ASSUME TypeOK, HeldInv, LineInv, RecordInv, SettleOk \/ SettleFails
    PROVE  RecordInv'
<1>1. PICK ok \in BOOLEAN :
           /\ job.kind # "none" /\ sess \in {"opening", "open"}
           /\ job' = NoJob /\ staged' = NoWrites /\ Continuation(ok)
           /\ ok => ~poisoned /\ durable' = Landed /\ live' = [t \in Tasks |-> Observed(t)]
           /\ ~ok => durable' \in {durable, Landed} /\ live' = live
           /\ ~poisoned' => ~poisoned /\ (~ok => durable' = durable)
           /\ sess' = IF job.kind # "open" THEN sess ELSE IF ok THEN "open" ELSE "closed"
  BY SettleFrame
<1>2. DepsInv'
  <2>1. CASE durable' = durable
    BY <1>1, <2>1 DEF RecordInv, DepsInv, NoWrites
  <2>2. CASE durable' = Landed
    BY <1>1, <2>2, LandedDeps DEF RecordInv, DepsInv, NoWrites
  <2>. QED  BY <1>1, <2>1, <2>2
<1>3. \A t \in Tasks : staged[t] \in Record /\ durable[t] \in Record
  BY DEF TypeOK, LineOK, StoreOK
<1>4. Mirror'
  <2>1. CASE ok
    <3>1. ~poisoned /\ live = LiveOf(durable)
      BY <1>1, <2>1 DEF RecordInv, Mirror, Up
    <3>2. ASSUME NEW t \in Tasks
          PROVE  Observed(t) = IF IsLive(Landed[t]) THEN Landed[t] ELSE Absent
      <4>1. CASE staged[t] = Absent
        BY <3>1, <4>1, LandedKeeps DEF Observed, LiveOf, RecordInv
      <4>2. CASE staged[t] # Absent /\ staged[t].st = "terminal"
        BY <4>2, LandedKeeps DEF Observed, Ends, IsLive, RecordInv
      <4>3. CASE staged[t] # Absent /\ staged[t].st # "terminal"
        BY <1>3, <4>3, LandedKeeps, OutcomeIsTerminal DEF Observed, Ends, RecordInv
      <4>. QED  BY <4>1, <4>2, <4>3
    <3>. QED  BY <1>1, <2>1, <3>2 DEF Mirror, LiveOf
  <2>2. CASE ~ok
    BY <1>1, <2>2 DEF RecordInv, Mirror, Up, LiveOf
  <2>. QED  BY <2>1, <2>2
<1>5. ASSUME NEW i \in Invs, ~inv'[i].ended PROVE HolderOK(i)'
  <2>. DEFINE t == inv[i].task
  <2>1. /\ ~inv[i].ended /\ Same(inv[i], inv'[i]) /\ inv'[i].pc # "reserved"
        /\ inv[i].pc = "reserved" => ok
    BY <1>1, <1>5, SettledObjects
  <2>2. HolderOK(i) /\ t \in Tasks
    BY <2>1 DEF RecordInv, HoldersInv, Holding, HeldInv, ObjectsHaveTasks
  <2>3. \A u \in Tasks : /\ durable[u] # Absent => durable'[u] # Absent
                         /\ durable[u].st = "terminal" => durable'[u].st = "terminal"
    BY <1>1, LandedKeeps DEF RecordInv
  <2>4. /\ durable'[t] # Absent
        /\ inv[i].mode = "run" => \A d \in After[t] : durable'[d].st = "terminal"
    BY <2>2, <2>3, RecordAssumption DEF HolderOK
  <2>5. staged'[t] = Absent
    BY <1>1, <2>2 DEF NoWrites
  <2>6. ASSUME live'[t] # Absent PROVE Fits(inv[i], live'[t])
    <3>1. CASE ok /\ staged[t] # Absent
      <4>1. live'[t] = staged[t] /\ staged[t].st # "terminal"
        BY <1>1, <2>2, <2>6, <3>1 DEF Observed, Ends
      <4>2. staged[t].by \notin {"run", "abort"}
        BY <1>3, <2>2, <4>1, OutcomeIsTerminal
      <4>. QED  BY <2>2, <3>1, <4>1, <4>2 DEF HolderOK
    <3>2. CASE ok /\ staged[t] = Absent
      <4>1. live'[t] = live[t]
        BY <1>1, <2>2, <3>2 DEF Observed
      <4>. QED  BY <2>2, <2>6, <3>2, <4>1 DEF HolderOK
    <3>3. CASE ~ok
      BY <1>1, <2>1, <2>2, <2>6, <3>3 DEF HolderOK
    <3>. QED  BY <3>1, <3>2, <3>3
  <2>. QED  BY <2>1, <2>4, <2>5, <2>6 DEF HolderOK, Fits, Same
<1>6. HoldersInv'
  BY <1>5 DEF HoldersInv, Holding
<1>. QED  BY <1>1, <1>2, <1>4, <1>6, NothingStaged DEF RecordInv

\* RecordInv is inductive.
LEMMA RecordStep ==
    ASSUME TypeOK, HeldInv, LineInv, RecordInv, [Next]_vars
    PROVE  RecordInv'
<1>1. CASE UNCHANGED vars
  BY <1>1 DEF vars, RecordInv, Mirror, Up, LiveOf, StagedLegal, Lifecycle!Change,
     Lifecycle!Reserved, DepsInv, HoldersInv, Holding, HolderOK, Fits, CommitGated
<1>2. CASE Next
  <2>1. CASE Visits
    BY <2>1, VisitBlockedRecords, VisitReserveRecords DEF Visits
  <2>. QED  BY <1>2, <2>1, Kinds, QuietRecords, BeginsRecords, OpenRecords, CrashRecords,
               SettleRecords
<1>. QED  BY <1>1, <1>2

\* It holds before the first process.
LEMMA InitRecords == Init => RecordInv
BY FreeObject, AbsentForm
   DEF Init, RecordInv, Mirror, Up, StagedLegal, NoWrites, DepsInv, HoldersInv, Holding,
       CommitGated, NoJob

------------------------------------------------------------------------------
(* Theorems *)

CInv == IInv /\ LineInv /\ RecordInv

\* The invariant of what the scheduler commits holds of every behaviour.
THEOREM CommitsInductive == Spec => []CInv
<1>1. Init => CInv
  BY InitIInv, InitLine, InitRecords DEF CInv
<1>2. CInv /\ [Next]_vars => CInv'
  <2>. SUFFICES ASSUME CInv, [Next]_vars PROVE CInv'
    OBVIOUS
  <2>1. TypeOK /\ HeldInv /\ LineInv /\ RecordInv
    BY DEF CInv, IInv
  <2>2. IInv'
    BY <2>1, TypeStep, HeldStep DEF IInv
  <2>. QED  BY <2>1, <2>2, LineStep, RecordStep DEF CInv
<1>. QED  BY <1>1, <1>2, PTL DEF Spec

\* Code on the line reads exactly the committed state: after every commit, every
\* failure that leaves the line usable, and every restart, #live is the mirror of
\* the live records in Storage.
THEOREM MirrorIsExact == Spec => []LiveMirrorsDurable
<1>1. CInv => LiveMirrorsDurable
  BY DEF CInv, RecordInv, Mirror, Up, LiveMirrorsDurable
<1>. QED  BY <1>1, CommitsInductive, PTL

\* An executing handler's invocation has not ended and may hold its task.
LEMMA HandlersHold ==
    ASSUME CInv, NEW i \in Invs, Handling(i)
    PROVE  HolderOK(i) /\ inv[i].task \in Tasks /\ inv[i].pc = "handler"
BY DEF CInv, IInv, HeldInv, SlotsAreHeld, HeldPcs, ObjectsHaveTasks, Handling, RecordInv,
       HoldersInv, Holding

\* A handler that executes was written for the version of the record it reads:
\* no migration, handover or registry change comes between.
THEOREM VersionsMatch == Spec => []HandlerMatchesVersion
<1>1. CInv => HandlerMatchesVersion
  BY HandlersHold DEF HandlerMatchesVersion, HolderOK, Fits
<1>. QED  BY <1>1, CommitsInductive, PTL

\* A run handler executes only when every task its own was created after has
\* settled, whatever was created, committed or forgotten by a restart before.
THEOREM DependenciesFirst == Spec => []RunFollowsDependencies
<1>1. CInv => RunFollowsDependencies
  BY HandlersHold DEF RunFollowsDependencies, HolderOK, IsLive
<1>. QED  BY <1>1, CommitsInductive, PTL

\* A record that changes becomes what the job on the line had staged.
LEMMA StagedLands ==
    ASSUME CInv, [Next]_vars, NEW t \in Tasks, durable'[t] # durable[t]
    PROVE  staged[t] # Absent /\ durable'[t] = staged[t] /\ staged[t] \in Record
<1>1. durable' = Landed
  BY CommitsOnly DEF CInv, IInv
<1>. QED  BY <1>1 DEF Landed, CInv, IInv, TypeOK, LineOK

\* After the abort mark is committed no commit of a run handler lands, also not
\* one that was on the line, queued or leaked before.
THEOREM MarksStopRuns == Spec => MarkStopsRun
<1>1. CInv /\ [Next]_vars =>
        [\A t \in Tasks : durable[t].mark /\ durable'[t] # durable[t] /\ job.kind = "commit"
            => inv[job.inv].mode = "abort"]_vars
  BY StagedLands DEF CInv, RecordInv, CommitGated
<1>. QED  BY <1>1, CommitsInductive, PTL DEF Spec, MarkStopsRun

\* The scheduler faults or orphans no task whose handler executes.
THEOREM OutcomesWait == Spec => SchedulerOutcomeWaits
<1>1. ASSUME CInv, [Next]_vars, NEW t \in Tasks,
             durable'[t].by \in {"faulted", "orphaned"}, durable'[t] # durable[t],
             NEW i \in Invs, Handling(i), inv[i].task = t
      PROVE  FALSE
  <2>1. staged[t] # Absent /\ durable'[t] = staged[t] /\ staged[t] \in Record
    BY <1>1, StagedLands
  <2>2. staged[t].st = "terminal"
    BY <1>1, <2>1, OutcomeIsTerminal
  <2>. QED  BY <1>1, <2>1, <2>2, HandlersHold DEF HolderOK, Fits
<1>2. CInv /\ [Next]_vars =>
        [\A t \in Tasks :
            durable'[t].by \in {"faulted", "orphaned"} /\ durable'[t] # durable[t]
                => ~\E i \in Invs : Handling(i) /\ inv[i].task = t]_vars
  BY <1>1
<1>. QED  BY <1>2, CommitsInductive, PTL DEF Spec, SchedulerOutcomeWaits

\* The scheduler implements TaskLifecycle: each commit, failure, crash and
\* restart changes each record as the lifecycle allows, or not at all.
THEOREM LifecycleImplemented == Spec => ImplementsLifecycle
<1>1. Init => Lifecycle!Init
  BY SameRecords DEF Init, Lifecycle!Init
<1>2. CInv /\ [Next]_vars => [Lifecycle!Next]_durable
  <2>. SUFFICES ASSUME CInv, [Next]_vars PROVE Lifecycle!Next
    OBVIOUS
  <2>1. TypeOK'
    BY TypeStep DEF CInv, IInv
  <2>2. durable' \in [Tasks -> Record]
    BY <2>1 DEF TypeOK, StoreOK
  <2>3. \A t \in Tasks : durable'[t] = durable[t] \/ Lifecycle!Change(t, durable[t], durable'[t])
    BY StagedLands DEF CInv, RecordInv, StagedLegal
  <2>. QED  BY <2>2, <2>3, SameRecords DEF Lifecycle!Next
<1>. QED  BY <1>1, <1>2, CommitsInductive, PTL DEF Spec, ImplementsLifecycle, Lifecycle!Spec

\* The parts of CInv.
LEMMA Parts == CInv => TypeOK /\ HeldInv /\ LineInv /\ RecordInv
BY DEF CInv, IInv

\* What is committed stays: a terminal record is terminal for good, and a record
\* once there remains.
LEMMA OutcomesStay ==
    ASSUME CInv, [Next]_vars, NEW t \in Tasks
    PROVE  /\ durable[t].st = "terminal" => durable'[t].st = "terminal"
           /\ durable[t] # Absent => durable'[t] # Absent
BY Parts, CommitsOnly, LandedKeeps DEF RecordInv

------------------------------------------------------------------------------
(* Waiters *)

\* Settlement serves the waiters of the tasks it ends, and the idle waiter when
\* nothing in the foreground is left.
LEMMA SettleOkServes ==
    ASSUME CInv, WaitersAreServed, SettleOk
    PROVE  WaitersAreServed'
<1>1. /\ live' = [t \in Tasks |-> Observed(t)] /\ durable' = Landed
      /\ waiter' = [t \in Tasks |-> IF t \in Ends /\ waiter[t] = "waiting"
                                   THEN "settled" ELSE waiter[t]]
      /\ idler' = IF idler = "waiting" /\ Idle(live') THEN "settled" ELSE idler
      /\ Continuation(TRUE) /\ job.kind # "none"
  BY DEF SettleOk, Settling
<1>2. closing' = closing
  <2>1. CASE job.kind = "open"
    BY <1>1, <2>1, Parts DEF Continuation, OpenAfter, ReserveAfter, StepAfter, CommitAfter,
       AbortAfter, CreateAfter, LineInv, OpeningInv, TypeOK, CloseOK
  <2>2. CASE job.kind # "open"
    BY <1>1, <2>2 DEF Continuation, OpenAfter, ReserveAfter, StepAfter, CommitAfter,
       AbortAfter, CreateAfter, closeVars
  <2>. QED  BY <2>1, <2>2
<1>3. ASSUME NEW t \in Tasks, waiter'[t] = "waiting" PROVE live'[t] # Absent /\ ~closing'
  BY <1>1, <1>2, <1>3 DEF WaitersAreServed, Observed
<1>4. ASSUME NEW t \in Tasks, waiter'[t] = "settled" PROVE durable'[t].st = "terminal"
  <2>1. CASE t \in Ends
    BY <1>1, <2>1, AbsentForm DEF Ends, Landed
  <2>2. CASE t \notin Ends
    BY <1>1, <1>4, <2>2, OutcomesStay DEF WaitersAreServed, Next, Line
  <2>. QED  BY <2>1, <2>2
<1>5. idler' = "waiting" => ~Idle(live') /\ ~closing'
  BY <1>1, <1>2 DEF WaitersAreServed
<1>. QED  BY <1>3, <1>4, <1>5 DEF WaitersAreServed, Idle

\* A waiter registers only for what is live, and a later one reads the outcome.
LEMMA WaitBeginServes ==
    ASSUME CInv, WaitersAreServed, NEW t \in Tasks, WaitBegin(t)
    PROVE  WaitersAreServed'
<1>1. /\ LineFree /\ UNCHANGED <<live, durable, closing, idler>>
      /\ waiter' = [waiter EXCEPT ![t] =
                    IF poisoned \/ closing THEN "rejected"
                    ELSE IF live[t] # Absent THEN "waiting"
                    ELSE IF durable[t] # Absent THEN "settled" ELSE "rejected"]
  BY DEF WaitBegin, storeVars, closeVars
<1>2. \A u \in Tasks \ {t} : waiter'[u] = waiter[u]
  BY <1>1, Parts DEF TypeOK, WaitOK
<1>3. waiter'[t] = IF poisoned \/ closing THEN "rejected"
                   ELSE IF live[t] # Absent THEN "waiting"
                   ELSE IF durable[t] # Absent THEN "settled" ELSE "rejected"
  BY <1>1, Parts DEF TypeOK, WaitOK
<1>4. waiter'[t] = "settled" => durable[t].st = "terminal"
  <2>. SUFFICES ASSUME waiter'[t] = "settled" PROVE durable[t].st = "terminal"
    OBVIOUS
  <2>1. ~poisoned /\ live[t] = Absent /\ durable[t] # Absent
    BY <1>3
  <2>2. ~IsLive(durable[t]) /\ durable[t] \in Record
    BY <1>1, <2>1, Parts, MirrorReads DEF RecordInv, Up, LineFree, TypeOK, StoreOK
  <2>. QED  BY <2>1, <2>2, OutcomeIsTerminal
<1>5. waiter'[t] = "waiting" => live[t] # Absent /\ ~closing
  BY <1>3
<1>. QED  BY <1>1, <1>2, <1>4, <1>5 DEF WaitersAreServed, Idle

\* WaitersAreServed is inductive over the records.
LEMMA WaitersStep ==
    ASSUME CInv, WaitersAreServed, [Next]_vars
    PROVE  WaitersAreServed'
<1>1. ASSUME UNCHANGED <<waiter, idler, live, closing>> PROVE WaitersAreServed'
  BY <1>1, OutcomesStay DEF WaitersAreServed, Idle
<1>2. CASE Open \/ Crash
  BY <1>2 DEF Open, Crash, Fresh, WaitersAreServed
<1>3. CASE SettleFails
  <2>1. UNCHANGED <<waiter, idler, live>> /\ Continuation(FALSE) /\ job.kind # "none"
    BY <1>3 DEF SettleFails, Settling, waitVars
  <2>2. CASE job.kind = "open"
    <3>1. idler = "idle" /\ \A t \in Tasks : waiter[t] = "idle"
      BY <2>2, Parts DEF LineInv, OpeningInv
    <3>. QED  BY <2>1, <3>1 DEF WaitersAreServed
  <2>3. CASE job.kind # "open"
    <3>1. closing' = closing
      BY <2>1, <2>3 DEF Continuation, OpenAfter, ReserveAfter, StepAfter, CommitAfter,
         AbortAfter, CreateAfter, closeVars
    <3>. QED  BY <1>1, <2>1, <3>1
  <2>. QED  BY <2>2, <2>3
<1>4. CASE Close
  <2>1. UNCHANGED durable /\ closing' = TRUE /\ idler' = Rejected(idler)
        /\ waiter' = [t \in Tasks |-> Rejected(waiter[t])]
    BY <1>4 DEF Close, storeVars
  <2>. QED  BY <2>1 DEF WaitersAreServed, Rejected
<1>5. ASSUME NEW t \in Tasks, WaitForTask(t) PROVE WaitersAreServed'
  <2>1. /\ UNCHANGED <<durable, live, closing, idler>>
        /\ \E s \in {"queued", "rejected"} : waiter' = [waiter EXCEPT ![t] = s]
    BY <1>5 DEF WaitForTask, storeVars, closeVars
  <2>. QED  BY <2>1, Parts DEF WaitersAreServed, Idle, TypeOK, WaitOK
<1>6. CASE WaitForIdle
  <2>1. /\ UNCHANGED <<durable, live, closing, waiter>>
        /\ idler' = "waiting" => ~Idle(live) /\ ~closing
    BY <1>6 DEF WaitForIdle, storeVars, closeVars
  <2>. QED  BY <2>1 DEF WaitersAreServed, Idle
<1>7. CASE UNCHANGED vars
  BY <1>1, <1>7 DEF vars
<1>8. CASE Swap \/ Join \/ CloseStorage \/ Loop \/ Handlers
  <2>1. UNCHANGED <<waiter, idler, live, closing>>
    BY <1>8 DEF Swap, Join, CloseStorage, Loop, DrainTurn, ReserveBegin, VisitBlocked, VisitReserve,
       Handlers, Start, StepEnds, StepContinues, StepWrites, Dispatch, HandlerCommit,
       CommitNothing, CommitWrites, HandlerReturn, Finally, storeVars, waitVars, closeVars, outerVars
  <2>. QED  BY <1>1, <2>1
<1>9. CASE ResumeCall \/ Refuse \/ \E t \in Tasks : Create(t) \/ AbortTask(t) \/ AbortNothing(t) \/ AbortMark(t)
  <2>1. UNCHANGED <<waiter, idler, live, closing>>
    BY <1>9 DEF ResumeCall, Refuse, Create, AbortTask, AbortNothing, AbortMark,
       storeVars, waitVars, closeVars, outerVars
  <2>. QED  BY <1>1, <2>1
<1>. QED  BY <1>2, <1>3, <1>4, <1>5, <1>6, <1>7, <1>8, <1>9, SettleOkServes, WaitBeginServes
          DEF Next, Life, Callers, Line

\* No waiter is stranded or misled, also across failed commits, poison, close and
\* restarts.
THEOREM WaitersServed == Spec => []WaitersAreServed
<1>1. Init => WaitersAreServed
  BY DEF Init, WaitersAreServed
<1>2. CInv /\ WaitersAreServed /\ [Next]_vars => WaitersAreServed'
  BY WaitersStep
<1>. QED  BY <1>1, <1>2, CommitsInductive, PTL DEF Spec

------------------------------------------------------------------------------
(* How invocations wind down *)

Active == {"step", "dispatch", "handler"}

\* Once close is called no invocation becomes active, an unusable Session admits
\* no runtime commit, and one whose write is on the line stays until it settles.
Winds(w, v) ==
    /\ v.pc \in Active /\ closing => w.pc \in Active
    /\ v.out # "none" /\ ~Usable => w.out # "none"
    /\ w.pc = "settling" => \/ v.pc = "settling" /\ v.task = w.task
                            \/ v.pc = "finally" /\ job.kind = "step" /\ job' = NoJob

\* An invocation leaves its finally block only by ending it.
Leaves(j, w, v) == w.pc = "finally" => v.pc = "finally" \/ Finally(j)

AllWind == \A j \in Invs : Winds(inv[j], inv'[j]) /\ Leaves(j, inv[j], inv'[j])

\* One object winds down, and the others stay.
LEMMA OneWinds ==
    ASSUME TypeOK, NEW i \in Invs, NEW v, inv' = [inv EXCEPT ![i] = v],
           Winds(inv[i], v), Leaves(i, inv[i], v)
    PROVE  AllWind
<1>1. \A j \in Invs : inv'[j] = IF j = i THEN v ELSE inv[j]
  BY DEF TypeOK, ObjectsOK
<1>. QED  BY <1>1 DEF AllWind, Winds, Leaves

\* Objects that stay as they are wind down.
LEMMA SameWinds == ASSUME UNCHANGED inv PROVE AllWind
BY DEF AllWind, Winds, Leaves

\* So does one whose commit has left the line.
LEMMA DequeuedWinds ==
    ASSUME NEW i \in Invs, NEW w \in Invocation
    PROVE  Winds(w, Dequeued(w)) /\ Leaves(i, w, Dequeued(w))
<1>1. CASE w.pc = "done"
  BY <1>1, FreeObject DEF Dequeued, Winds, Leaves, Active, FreeInv
<1>2. CASE w.pc # "done"
  <2>. DEFINE v == [w EXCEPT !.out = "none"]
  <2>1. Dequeued(w) = v /\ v.pc = w.pc /\ v.task = w.task /\ v.out = "none"
    BY <1>2 DEF Dequeued, Invocation
  <2>. HIDE DEF v
  <2>. QED  BY <2>1 DEF Winds, Leaves
<1>. QED  BY <1>1, <1>2

\* Every step of an invocation winds it down.
LEMMA HandlersWind ==
    ASSUME CInv, Handlers
    PROVE  AllWind
<1>. TypeOK
  BY Parts
<1>. \A j \in Invs : inv[j] \in Invocation
  BY DEF TypeOK, ObjectsOK
<1>1. ASSUME NEW i \in Invs, NEW p \in Pcs, inv[i].pc \notin {"settling", "finally"},
             p \in Active => ~closing \/ inv[i].pc \in Active,
             inv' = [inv EXCEPT ![i] = [inv[i] EXCEPT !.pc = p]]
      PROVE  AllWind
  <2>. DEFINE v == [inv[i] EXCEPT !.pc = p]
  <2>1. v.pc = p /\ v.out = inv[i].out /\ inv' = [inv EXCEPT ![i] = v]
    BY <1>1 DEF Invocation
  <2>. HIDE DEF v
  <2>2. Winds(inv[i], v) /\ Leaves(i, inv[i], v)
    BY <1>1, <2>1 DEF Winds, Leaves
  <2>. QED  BY <2>1, <2>2, OneWinds
<1>2. ASSUME NEW i \in Invs, NEW p \in {"finally", "settling"},
             inv[i].pc \notin {"settling", "finally"},
             End(i, [inv[i] EXCEPT !.pc = p])
      PROVE  AllWind
  <2>. DEFINE v == [[inv[i] EXCEPT !.pc = p] EXCEPT !.ended = TRUE]
  <2>1. v.pc = p /\ v.out = inv[i].out /\ inv' = [inv EXCEPT ![i] = v]
    BY <1>2 DEF Invocation, End
  <2>. HIDE DEF v
  <2>2. Winds(inv[i], v) /\ Leaves(i, inv[i], v)
    BY <1>2, <2>1 DEF Winds, Leaves, Active
  <2>. QED  BY <2>1, <2>2, OneWinds
<1>3. ASSUME NEW i \in Invs, Start(i) PROVE AllWind
  <2>1. inv[i].pc = "granted"
    BY <1>3 DEF Start
  <2>2. CASE End(i, [inv[i] EXCEPT !.pc = "finally"])
    BY <1>2, <2>1, <2>2
  <2>3. CASE Usable /\ inv' = [inv EXCEPT ![i].pc = "step"]
    BY <1>1, <2>1, <2>3 DEF Usable, Pcs
  <2>4. CASE inv' = [inv EXCEPT ![i].pc = IF live[inv[i].task] = Absent \/ closing
                                          THEN "finally" ELSE "handler"]
    <3>. DEFINE p == IF live[inv[i].task] = Absent \/ closing THEN "finally" ELSE "handler"
    <3>1. p \in Pcs /\ (p \in Active => ~closing) /\ inv' = [inv EXCEPT ![i] = [inv[i] EXCEPT !.pc = p]]
      BY <2>4 DEF Pcs, Active
    <3>. HIDE DEF p
    <3>. QED  BY <1>1, <2>1, <3>1
  <2>. QED  BY <1>3, <2>2, <2>3, <2>4 DEF Start
<1>4. ASSUME NEW i \in Invs, StepEnds(i) PROVE AllWind
  BY <1>4, <1>2 DEF StepEnds, StepBegin
<1>5. ASSUME NEW i \in Invs, StepContinues(i) PROVE AllWind
  <2>. DEFINE c == live[inv[i].task].cp
              v == [inv[i] EXCEPT !.pc = "dispatch", !.threw = FALSE, !.prev = c]
  <2>1. inv' = [inv EXCEPT ![i] = v] /\ inv[i].pc = "step"
    BY <1>5 DEF StepContinues, StepBegin
  <2>. HIDE DEF c
  <2>2. v.pc = "dispatch" /\ v.out = inv[i].out
    BY DEF Invocation
  <2>. HIDE DEF v
  <2>3. Winds(inv[i], v) /\ Leaves(i, inv[i], v)
    BY <2>1, <2>2 DEF Winds, Leaves, Active
  <2>. QED  BY <2>1, <2>3, OneWinds
<1>6. ASSUME NEW i \in Invs, StepWrites(i) PROVE AllWind
  BY <1>6, <1>2 DEF StepWrites, StepBegin
<1>7. ASSUME NEW i \in Invs, Dispatch(i) PROVE AllWind
  <2>. DEFINE p == IF closing THEN "finally" ELSE "handler"
  <2>1. /\ inv[i].pc = "dispatch" /\ p \in Pcs
        /\ inv' = [inv EXCEPT ![i] = [inv[i] EXCEPT !.pc = p]]
    BY <1>7 DEF Dispatch, Pcs
  <2>. HIDE DEF p
  <2>. QED  BY <1>1, <2>1 DEF Active
<1>8. ASSUME NEW i \in Invs, HandlerCommit(i) PROVE AllWind
  <2>1. PICK o \in {"ahead", "behind"} : inv' = [inv EXCEPT ![i] = [inv[i] EXCEPT !.out = o]]
    BY <1>8 DEF HandlerCommit
  <2>. DEFINE v == [inv[i] EXCEPT !.out = o]
  <2>2. inv[i].pc \in Active /\ Usable
    BY <1>8 DEF HandlerCommit, Active
  <2>3. v.pc = inv[i].pc /\ inv' = [inv EXCEPT ![i] = v]
    BY <2>1 DEF Invocation
  <2>. HIDE DEF v
  <2>4. Winds(inv[i], v) /\ Leaves(i, inv[i], v)
    BY <2>2, <2>3 DEF Winds, Leaves, Active
  <2>. QED  BY <2>3, <2>4, OneWinds
<1>9. ASSUME NEW i \in Invs, CommitNothing(i) PROVE AllWind
  BY <1>9, DequeuedWinds, OneWinds DEF CommitNothing
<1>10. ASSUME NEW i \in Invs, CommitWrites(i) PROVE AllWind
  BY <1>10, SameWinds DEF CommitWrites
<1>11. ASSUME NEW i \in Invs, HandlerReturn(i) PROVE AllWind
  <2>1. inv[i].pc = "handler"
    BY <1>11 DEF HandlerReturn
  <2>2. ASSUME NEW threw \in BOOLEAN, inv' = [inv EXCEPT ![i] = Returned(inv[i], threw)]
        PROVE  AllWind
    <3>. DEFINE o == IF inv[i].out = "none" THEN "none" ELSE "ahead"
                v == [inv[i] EXCEPT !.pc = "step", !.threw = threw, !.out = o]
    <3>1. inv' = [inv EXCEPT ![i] = v]
      BY <2>2 DEF Returned
    <3>2. v.pc = "step" /\ v.out = o /\ (o # "none" => inv[i].out # "none")
      BY DEF Invocation
    <3>. HIDE DEF v, o
    <3>3. Winds(inv[i], v) /\ Leaves(i, inv[i], v)
      BY <2>1, <3>2 DEF Winds, Leaves, Active
    <3>. QED  BY <3>1, <3>3, OneWinds
  <2>. QED  BY <1>2, <1>11, <2>1, <2>2 DEF HandlerReturn
<1>12. ASSUME NEW i \in Invs, Finally(i) PROVE AllWind
  <2>. DEFINE v == [Retired(inv[i]) EXCEPT !.ended = TRUE]
  <2>1. inv[i].pc = "finally" /\ inv' = [inv EXCEPT ![i] = v]
    BY <1>12 DEF Finally, End
  <2>2. /\ Retired(inv[i]) \in Invocation /\ Retired(inv[i]).pc \in {"free", "done"}
        /\ Retired(inv[i]).out # "none" => inv[i].out # "none"
    <3>1. CASE inv[i].out = "none"
      BY <3>1, FreeObject DEF Retired, FreeInv
    <3>2. CASE inv[i].out # "none"
      BY <3>2 DEF Retired, Invocation, Pcs
    <3>. QED  BY <3>1, <3>2
  <2>3. v.pc = Retired(inv[i]).pc /\ v.out = Retired(inv[i]).out
    BY <2>2 DEF Invocation
  <2>. HIDE DEF v
  <2>4. Winds(inv[i], v) /\ Leaves(i, inv[i], v)
    BY <1>12, <2>1, <2>2, <2>3 DEF Winds, Leaves, Active
  <2>. QED  BY <2>1, <2>4, OneWinds
<1>. QED  BY <1>3, <1>4, <1>5, <1>6, <1>7, <1>8, <1>9, <1>10, <1>11, <1>12 DEF Handlers

\* So does everything else but a process that opens or dies: closing and aborting
\* only signal, and a reservation makes an invocation that is not active yet.
LEMMA StepsWind ==
    ASSUME CInv, Next, ~Open, ~Crash
    PROVE  AllWind
<1>. TypeOK /\ HeldInv /\ LineInv
  BY Parts
<1>. \A j \in Invs : inv[j] \in Invocation
  BY DEF TypeOK, ObjectsOK
<1>1. \A j \in Invs : LET v == [inv[j] EXCEPT !.sig = TRUE] IN
        Winds(inv[j], v) /\ Leaves(j, inv[j], v)
  BY DEF Invocation, Winds, Leaves
<1>2. CASE Close
  BY <1>1, <1>2 DEF Close, AllWind, Winds, Leaves
<1>3. CASE \/ Swap \/ Join \/ CloseStorage \/ DrainTurn \/ ReserveBegin \/ Callers \/ Refuse
           \/ \E t \in Tasks : VisitBlocked(t)
  BY <1>3, SameWinds
     DEF Swap, Join, CloseStorage, DrainTurn, ReserveBegin, VisitBlocked, Refuse, Callers,
         ResumeCall, WaitForIdle, Create, WaitForTask, WaitBegin, AbortTask, AbortNothing,
         AbortMark
<1>4. ASSUME NEW t \in Tasks, VisitReserve(t) PROVE AllWind
  <2>. DEFINE w == NewInv(t, IF live[t].mark THEN "abort" ELSE "run", job.def)
  <2>1. FreshInv \in Invs /\ inv[FreshInv].pc = "free"
    BY <1>4 DEF VisitReserve, FreshInv
  <2>2. inv' = [inv EXCEPT ![FreshInv] = w]
    BY <1>4 DEF VisitReserve
  <2>3. w.pc = "reserved" /\ w.out = "none"
    BY DEF NewInv, FreeInv
  <2>. HIDE DEF w
  <2>4. Winds(inv[FreshInv], w) /\ Leaves(FreshInv, inv[FreshInv], w)
    BY <2>1, <2>3 DEF Winds, Leaves, Active
  <2>. QED  BY <2>1, <2>2, <2>4, OneWinds
<1>5. ASSUME NEW ok \in BOOLEAN, Continuation(ok), job' = NoJob PROVE AllWind
  <2>1. CASE ReserveAfter(ok)
    <3>1. \A j \in Invs : LET v == [inv[j] EXCEPT !.pc = "granted"] IN
            v.pc = "granted" /\ v.out = inv[j].out
      BY DEF Invocation
    <3>2. \A j \in Invs : \/ inv'[j] = inv[j]
                          \/ inv[j].pc = "reserved" /\ inv'[j].pc = "granted"
                             /\ inv'[j].out = inv[j].out
                          \/ inv[j].pc = "reserved" /\ inv'[j] = FreeInv
      BY <2>1, <3>1 DEF ReserveAfter
    <3>3. FreeInv.pc = "free" /\ FreeInv.out = "none"
      BY DEF FreeInv
    <3>4. ASSUME NEW j \in Invs PROVE Winds(inv[j], inv'[j]) /\ Leaves(j, inv[j], inv'[j])
      BY <3>2, <3>3 DEF Winds, Leaves, Active
    <3>. QED  BY <3>4 DEF AllWind
  <2>2. CASE StepAfter(ok)
    <3>. DEFINE i == job.inv
                v == [[inv[i] EXCEPT !.pc = "finally"] EXCEPT !.ended = TRUE]
    <3>1. i \in Invs /\ job.kind = "step"
      BY <2>2 DEF StepAfter, LineInv, JobInv
    <3>2. inv' = [inv EXCEPT ![i] = v]
      BY <2>2 DEF StepAfter, End
    <3>3. v.pc = "finally" /\ v.out = inv[i].out
      BY <3>1 DEF Invocation
    <3>. HIDE DEF v
    <3>4. Winds(inv[i], v) /\ Leaves(i, inv[i], v)
      BY <1>5, <3>1, <3>3 DEF Winds, Leaves, Active
    <3>. HIDE DEF i
    <3>. QED  BY <3>1, <3>2, <3>4, OneWinds
  <2>3. CASE CommitAfter(ok)
    <3>1. job.inv \in Invs /\ inv' = [inv EXCEPT ![job.inv] = Dequeued(inv[job.inv])]
      BY <2>3 DEF CommitAfter, LineInv, JobInv
    <3>. QED  BY <3>1, DequeuedWinds, OneWinds
  <2>4. CASE AbortAfter(ok)
    <3>1. inv' = inv \/ \E i \in Invs : inv' = [inv EXCEPT ![i] = [inv[i] EXCEPT !.sig = TRUE]]
      BY <2>4 DEF AbortAfter, StillRuns, TypeOK, LineOK, Job
    <3>. QED  BY <1>1, <3>1, SameWinds, OneWinds
  <2>5. CASE CreateAfter(ok) \/ OpenAfter(ok)
    BY <2>5, SameWinds DEF CreateAfter, OpenAfter
  <2>. QED  BY <1>5, <2>1, <2>2, <2>3, <2>4, <2>5 DEF Continuation
<1>6. CASE SettleOk \/ SettleFails
  BY <1>5, <1>6, SettleFrame
<1>. QED  BY <1>2, <1>3, <1>4, <1>6, HandlersWind DEF Next, Life, Loop, Line

------------------------------------------------------------------------------
(* Close *)

\* Close waits for every invocation that is active, and Storage closes when
\* nothing is left.
CloseInv ==
    /\ closePc # "none" => closing
    /\ closePc \in {"joining", "done"} => \A i \in Invs : inv[i].pc \in Active => i \in joined
    /\ sess = "closed" =>
        closePc = "done" /\ joined = {} /\ \A i \in Invs : inv[i].out = "none"

\* What close joins shrinks by invocations that are not active.
LEMMA JoinedShrinks ==
    ASSUME CInv, Next, ~Open, ~Crash, ~Join
    PROVE  joined' \subseteq joined /\ \A i \in joined : inv'[i].pc \in Active => i \in joined'
<1>. TypeOK /\ HeldInv /\ LineInv
  BY Parts
<1>1. CASE UNCHANGED joined
  BY <1>1
<1>2. ASSUME NEW i \in Invs, Finally(i)
      PROVE  joined' = joined \ {i} /\ inv'[i].pc \notin Active
  <2>. DEFINE w == Retired(inv[i])
  <2>1. w \in Invocation /\ w.pc \in {"free", "done"}
    BY FreeObject DEF Retired, TypeOK, ObjectsOK, Invocation, Pcs
  <2>2. inv'[i].pc = w.pc /\ joined' = joined \ {i}
    BY <1>2, <2>1 DEF Finally, End, Finish, Invocation, TypeOK, ObjectsOK
  <2>. QED  BY <2>1, <2>2 DEF Active
<1>3. ASSUME NEW ok \in BOOLEAN, ReserveAfter(ok)
      PROVE  joined' \subseteq joined /\ \A i \in joined : inv'[i].pc \in Active => i \in joined'
  <2>1. CASE ok
    BY <1>3, <2>1 DEF ReserveAfter, Finish
  <2>2. CASE ~ok
    BY <1>3, <2>2, FreeObject DEF ReserveAfter, Finish, Active, TypeOK, JoinOK
  <2>. QED  BY <2>1, <2>2
<1>4. CASE SettleOk \/ SettleFails
  <2>1. PICK ok \in BOOLEAN : Continuation(ok)
    BY <1>4, SettleFrame
  <2>2. CASE ~ReserveAfter(ok)
    BY <1>1, <2>1, <2>2 DEF Continuation, StepAfter, CommitAfter, AbortAfter, CreateAfter, OpenAfter,
       Unjoined, joinVars
  <2>. QED  BY <1>3, <2>1, <2>2
<1>5. CASE Swap \/ Close \/ CloseStorage \/ Loop \/ Callers \/ Refuse
  BY <1>1, <1>5 DEF Swap, Close, CloseStorage, Loop, DrainTurn, ReserveBegin, VisitBlocked,
     VisitReserve, Refuse, Callers, ResumeCall, WaitForIdle, Create, WaitForTask, WaitBegin,
     AbortTask, AbortNothing, AbortMark, joinVars
<1>6. ASSUME NEW i \in Invs,
             \/ Start(i) \/ StepEnds(i) \/ StepContinues(i) \/ StepWrites(i) \/ Dispatch(i)
             \/ HandlerCommit(i) \/ CommitNothing(i) \/ CommitWrites(i) \/ HandlerReturn(i)
      PROVE  UNCHANGED joined
  BY <1>6 DEF Start, StepEnds, StepContinues, StepWrites, Dispatch, HandlerCommit, CommitNothing,
     CommitWrites, HandlerReturn, joinVars
<1>. QED  BY <1>1, <1>2, <1>4, <1>5, <1>6 DEF Next, Life, Handlers, Line

\* How far close is changes by close itself, and when opening ends.
LEMMA CloseMoves ==
    ASSUME CInv, Next, ~Open, ~Crash
    PROVE  \/ UNCHANGED <<closing, closePc, sess>>
           \/ Close /\ closing' = TRUE /\ closePc' = "sealed" /\ sess' = "open" /\ ~closing
           \/ Join /\ UNCHANGED <<sess, closing>> /\ closePc = "sealed" /\ closePc' = "joining"
           \/ CloseStorage /\ UNCHANGED closing /\ sess' = "closed" /\ closePc = "joining"
                /\ closePc' = "done" /\ joined' = joined /\ joined = {} /\ inv' = inv
                /\ \A i \in Invs : inv[i].out = "none"
           \/ SettleOk /\ sess = "opening" /\ sess' = "open" /\ ~closing' /\ closePc' = "none"
           \/ SettleFails /\ sess = "opening" /\ sess' = "closed" /\ closing' = TRUE
                /\ closePc' = "done" /\ UNCHANGED <<inv, joined>>
<1>. TypeOK /\ HeldInv /\ LineInv
  BY Parts
<1>1. CASE Close \/ Join \/ CloseStorage
  BY <1>1 DEF Close, Join, CloseStorage, LineDrained, joinVars
<1>2. CASE Swap \/ Loop \/ Handlers \/ Callers \/ Refuse
  BY <1>2 DEF Swap, Loop, DrainTurn, ReserveBegin, VisitBlocked, VisitReserve, Refuse,
     Callers, ResumeCall, WaitForIdle, Create, WaitForTask, WaitBegin, AbortTask, AbortNothing,
     AbortMark, Handlers, Start, StepEnds, StepContinues, StepWrites, Dispatch, HandlerCommit,
     CommitNothing, CommitWrites, HandlerReturn, Finally, closeVars, outerVars
<1>3. CASE SettleOk \/ SettleFails
  <2>1. PICK ok \in BOOLEAN : /\ Continuation(ok) /\ job.kind # "none"
                              /\ ok => SettleOk
                              /\ ~ok => SettleFails
    BY <1>3, SettleFrame
  <2>2. CASE OpenAfter(ok)
    BY <2>1, <2>2 DEF OpenAfter, LineInv, OpeningInv, Unjoined, joinVars
  <2>3. CASE ~OpenAfter(ok)
    BY <2>1, <2>3 DEF Continuation, ReserveAfter, StepAfter, CommitAfter, AbortAfter, CreateAfter,
       closeVars
  <2>. QED  BY <2>2, <2>3
<1>. QED  BY <1>1, <1>2, <1>3 DEF Next, Life, Line

\* CloseInv is inductive.
LEMMA CloseStep ==
    ASSUME CInv, CloseInv, [Next]_vars
    PROVE  CloseInv'
<1>. TypeOK /\ HeldInv /\ LineInv
  BY Parts
<1>1. CASE UNCHANGED vars
  BY <1>1 DEF vars, CloseInv
<1>2. CASE Open \/ Crash
  BY <1>2, FreeObject DEF Open, Crash, Fresh, CloseInv
<1>3. CASE Next /\ ~Open /\ ~Crash
  <2>1. closePc' # "none" => closing'
    BY <1>3, CloseMoves DEF CloseInv
  <2>2. ASSUME closePc' \in {"joining", "done"}, NEW i \in Invs, inv'[i].pc \in Active
        PROVE  i \in joined'
    <3>1. CASE Join
      <4>1. inv[i].pc \in HeldPcs /\ inv'[i] = inv[i]
        BY <2>2, <3>1 DEF Join, Active, HeldPcs
      <4>2. slot[inv[i].task] = i /\ inv[i].task \in Tasks
        BY <4>1 DEF HeldInv, SlotsAreHeld, ObjectsHaveTasks
      <4>. QED  BY <3>1, <4>2 DEF Join
    <3>2. CASE ~Join /\ sess # "opening"
      <4>1. closePc \in {"joining", "done"}
        BY <1>3, <2>2, <3>2, CloseMoves
      <4>2. inv[i].pc \in Active
        BY <1>3, <2>2, <4>1, StepsWind DEF AllWind, Winds, CloseInv
      <4>. QED  BY <1>3, <2>2, <3>2, <4>1, <4>2, JoinedShrinks DEF CloseInv
    <3>3. CASE ~Join /\ sess = "opening"
      <4>1. \A j \in Invs : inv[j] = FreeInv
        BY <3>3 DEF LineInv, OpeningInv
      <4>2. closePc = "none"
        BY <3>3 DEF LineInv, OpeningInv
      <4>3. inv' = inv
        BY <1>3, <2>2, <3>3, <4>2, CloseMoves
      <4>. QED  BY <2>2, <4>1, <4>3, FreeObject DEF Active
    <3>. QED  BY <3>1, <3>2, <3>3
  <2>3. ASSUME sess' = "closed"
        PROVE  closePc' = "done" /\ joined' = {} /\ \A i \in Invs : inv'[i].out = "none"
    <3>1. CASE sess = "closed"
      <4>1. closePc' = "done" /\ ~Join
        BY <1>3, <2>3, <3>1, CloseMoves DEF CloseInv, Join
      <4>2. joined' = {}
        BY <1>3, <3>1, <4>1, JoinedShrinks DEF CloseInv
      <4>. QED  BY <1>3, <3>1, <4>1, <4>2, StepsWind DEF AllWind, Winds, Usable, CloseInv
    <3>2. CASE sess # "closed" /\ sess # "opening"
      BY <1>3, <2>3, <3>2, CloseMoves
    <3>3. CASE sess = "opening"
      <4>1. joined = {} /\ closePc = "none" /\ ~closing /\ \A j \in Invs : inv[j] = FreeInv
        BY <3>3 DEF LineInv, OpeningInv
      <4>2. FreeInv.out = "none"
        BY DEF FreeInv
      <4>. QED  BY <1>3, <2>3, <3>3, <4>1, <4>2, CloseMoves
    <3>. QED  BY <3>1, <3>2, <3>3
  <2>. QED  BY <2>1, <2>2, <2>3 DEF CloseInv
<1>. QED  BY <1>1, <1>2, <1>3

\* Storage closes only when no handler executes and no job is left: close waits
\* for the handlers it has signalled, and for what they and leaked promises have
\* put on the line.
THEOREM StorageLast == Spec => []StorageClosesLast
<1>1. Init => CloseInv
  BY DEF Init, CloseInv
<1>2. CInv /\ CloseInv /\ [Next]_vars => CloseInv'
  BY CloseStep
<1>3. CInv /\ CloseInv => StorageClosesLast
  BY Parts DEF CloseInv, StorageClosesLast, Handling, Active, LineInv, OpeningInv
<1>. QED  BY <1>1, <1>2, <1>3, CommitsInductive, PTL DEF Spec

------------------------------------------------------------------------------
(* Abort *)

\* A run of t that has not ended.
RunsFor(i, t) == ~inv[i].ended /\ inv[i].mode = "run" /\ inv[i].task = t

\* The abort on the line marks or ends its task and has seen the only run of it.
AbortAims ==
    job.kind = "abort" /\ ~poisoned =>
        /\ Landed[job.task].mark \/ Landed[job.task].st = "terminal"
        /\ \A i \in Invs : RunsFor(i, job.task) => i = job.inv

\* The task of an abort whose commit has landed is terminal, or it is marked and
\* the run that abort joins is the only one left.
AbortLanded(t) ==
    abortPc[t] \in {"joining", "returned"} =>
        \/ durable[t].st = "terminal"
        \/ /\ durable[t].mark
           /\ \A i \in Invs : RunsFor(i, t) => abortPc[t] = "joining" /\ i = joins[t]

AbortInv == AbortAims /\ \A t \in Tasks : AbortLanded(t)

\* No change takes a mark away.
LEMMA MarksStay ==
    ASSUME CInv, [Next]_vars, NEW t \in Tasks, durable[t].mark
    PROVE  durable'[t].mark
<1>. SUFFICES ASSUME durable'[t] # durable[t] PROVE durable'[t].mark
  OBVIOUS
<1>. DEFINE r == durable[t]
            q == durable'[t]
<1>1. Lifecycle!Change(t, r, q) /\ r \in Record /\ r # Absent
  BY StagedLands, Parts, AbsentForm DEF RecordInv, StagedLegal, TypeOK, StoreOK
<1>. HIDE DEF r, q
<1>2. r.mark
  BY DEF r
<1>3. ASSUME r.st = "running" \/ IsLive(r) PROVE r \in LiveRecord
  BY <1>1, <1>3, LiveForm DEF IsLive
<1>4. q.mark
  <2>1. CASE Lifecycle!Created(r, q)
    BY <1>1, <2>1, SameRecords DEF Lifecycle!Created
  <2>2. CASE Lifecycle!Reserved(t, r, q)
    BY <1>2, <2>2 DEF Lifecycle!Reserved
  <2>3. CASE Lifecycle!GivenBack(r, q) \/ Lifecycle!Advanced(r, q) \/ Lifecycle!Memoised(r, q)
    BY <1>2, <1>3, <2>3
       DEF Lifecycle!GivenBack, Lifecycle!Advanced, Lifecycle!Memoised, LiveRecord
  <2>4. CASE Lifecycle!AbortMarked(r, q)
    BY <1>3, <2>4, SameRecords DEF Lifecycle!AbortMarked, LiveRecord
  <2>5. CASE Lifecycle!Terminated(r, q)
    <3>1. PICK author : r \in LiveRecord /\ q = Settled(r, author)
      BY <1>3, <2>5, SameRecords DEF Lifecycle!Terminated
    <3>. QED  BY <1>2, <3>1 DEF LiveRecord, Settled
  <2>. QED  BY <1>1, <2>1, <2>2, <2>3, <2>4, <2>5 DEF Lifecycle!Change
<1>. QED  BY <1>4 DEF q

\* Only a reservation of an unmarked live task adds a run.
LEMMA RunsShrink ==
    ASSUME CInv, Next, NEW t \in Tasks, NEW i \in Invs, RunsFor(i, t)'
    PROVE  \/ RunsFor(i, t)
           \/ job'.kind = "reserve" /\ ~durable[t].mark /\ durable[t].st # "terminal"
<1>. TypeOK /\ HeldInv /\ LineInv /\ RecordInv
  BY Parts
<1>1. CASE Moves
  BY <1>1 DEF Moves, Orderly, Follows, Same, RunsFor
<1>2. CASE Quiet \/ Begins \/ \E u \in Tasks : VisitBlocked(u)
  BY <1>1, <1>2, QuietFrame, BeginsFrame, OthersMove
<1>3. ASSUME NEW u \in Tasks, VisitReserve(u)
      PROVE  \/ RunsFor(i, t)
             \/ job'.kind = "reserve" /\ ~durable[t].mark /\ durable[t].st # "terminal"
  <2>1. PICK k \in Invs, res \in Resolutions(u, live[u], job.def) :
          /\ inv[k] = FreeInv
          /\ inv'[k].pc = "reserved" /\ inv'[k].task = u /\ inv'[k].def = job.def
          /\ inv'[k].mode = (IF live[u].mark THEN "abort" ELSE "run")
          /\ ~inv'[k].ended
          /\ \A j \in Invs \ {k} : inv'[j] = inv[j]
          /\ slot' = [slot EXCEPT ![u] = k]
          /\ res.ok
          /\ staged'[u] = IF res.rec # live[u] \/ live[u].st # "running"
                          THEN [res.rec EXCEPT !.st = "running"] ELSE Absent
    BY <1>3, ReserveFrame, Zenon
  <2>2. CASE i # k
    BY <2>1, <2>2 DEF RunsFor
  <2>3. CASE i = k
    <3>1. t = u /\ ~live[u].mark
      BY <2>1, <2>3 DEF RunsFor
    <3>2. /\ live[u] # Absent /\ sess = "open" /\ ~poisoned /\ job'.kind = "reserve"
      BY <1>3, VisitsFrame
    <3>3. durable[u] = live[u] /\ live[u] \in LiveRecord
      BY <3>2, MirrorReads DEF RecordInv, Up
    <3>. QED  BY <3>1, <3>2, <3>3 DEF LiveRecord
  <2>. QED  BY <2>2, <2>3
<1>4. CASE Open \/ Crash
  BY <1>4, FreeObject DEF Open, Crash, Fresh, RunsFor
<1>5. CASE SettleOk \/ SettleFails
  <2>1. PICK ok \in BOOLEAN : Continuation(ok) /\ job.kind # "none"
    BY <1>5, SettleFrame
  <2>. QED  BY <2>1, SettledObjects DEF RunsFor, Same
<1>. QED  BY <1>2, <1>3, <1>4, <1>5, Kinds DEF Visits

\* A new abort on the line aims right.
LEMMA AbortMarkAims ==
    ASSUME CInv, NEW t \in Tasks, AbortMark(t)
    PROVE  AbortAims'
<1>. TypeOK /\ HeldInv /\ LineInv /\ RecordInv
  BY Parts
<1>. DEFINE r == durable[t]
            marked == [r EXCEPT !.mark = TRUE]
            orphan == Settled(r, "orphaned")
<1>1. /\ LineFree /\ ~poisoned /\ IsLive(r) /\ UNCHANGED <<inv, slot, durable>>
      /\ job'.task = t
      /\ job'.inv = IF Held(t) /\ inv[slot[t]].mode = "run" THEN slot[t] ELSE NoInv
  BY DEF AbortMark, AbortBegin, NoJob, storeVars
<1>2. r \in LiveRecord
  BY <1>1, LiveForm DEF TypeOK, StoreOK
<1>3. \/ staged' = staged /\ r.mark
      \/ staged' = [staged EXCEPT ![t] = marked]
      \/ staged' = [staged EXCEPT ![t] = orphan]
  BY Zenon DEF AbortMark
<1>4. staged[t] = Absent
  BY <1>1, BeginsReads DEF NoWrites
<1>5. Landed'[t] = IF staged'[t] # Absent THEN staged'[t] ELSE r
  BY <1>1 DEF Landed
<1>6. marked.mark = TRUE /\ orphan.st = "terminal"
  BY <1>2 DEF LiveRecord, Settled
<1>. HIDE DEF marked, orphan
<1>7. Landed'[t].mark \/ Landed'[t].st = "terminal"
  <2>1. CASE staged' = staged /\ r.mark
    BY <1>4, <1>5, <2>1
  <2>2. CASE staged' = [staged EXCEPT ![t] = marked]
    BY <1>5, <1>6, <2>2, AbsentForm DEF TypeOK, LineOK
  <2>3. CASE staged' = [staged EXCEPT ![t] = orphan]
    BY <1>5, <1>6, <2>3, AbsentForm DEF TypeOK, LineOK
  <2>. QED  BY <1>3, <2>1, <2>2, <2>3
<1>8. ASSUME NEW i \in Invs, RunsFor(i, t)' PROVE i = job'.inv
  <2>1. slot[t] = i
    BY <1>1, <1>8 DEF RunsFor, LineInv, ObjectsInv, HoldsSlot, Holding
  <2>. QED  BY <1>1, <1>8, <2>1, SchedulerAssumption DEF RunsFor, Held
<1>. QED  BY <1>1, <1>7, <1>8 DEF AbortAims, Landed

\* AbortAims is inductive over the records.
LEMMA AimsStep ==
    ASSUME CInv, AbortAims, Next
    PROVE  AbortAims'
<1>. TypeOK /\ HeldInv /\ LineInv /\ RecordInv
  BY Parts
<1>1. CASE Quiet
  <2>1. UNCHANGED <<durable, staged, job, poisoned>>
    BY <1>1, QuietFrame
  <2>2. job.kind = "abort" => job.task \in Tasks
    BY DEF LineInv, JobInv
  <2>3. ASSUME job.kind = "abort", NEW i \in Invs, RunsFor(i, job.task)'
        PROVE  RunsFor(i, job.task)
    BY <2>1, <2>2, <2>3, RunsShrink DEF RunsFor
  <2>. QED  BY <2>1, <2>3 DEF AbortAims, Landed, RunsFor
<1>2. CASE Begins
  <2>1. CASE Refuse
    BY <2>1 DEF AbortAims, Refuse, storeVars
  <2>2. CASE ReserveBegin \/ (\E i \in Invs : StepWrites(i) \/ CommitWrites(i))
             \/ \E t \in Tasks : Create(t)
    <3>1. job'.kind # "abort"
      BY <2>2 DEF ReserveBegin, StepWrites, CommitWrites, Create, NoJob
    <3>. QED  BY <3>1 DEF AbortAims
  <2>. QED  BY <1>2, <2>1, <2>2, AbortMarkAims DEF Begins
<1>3. CASE Visits
  BY <1>3, VisitsFrame DEF Visits, AbortAims
<1>4. CASE Open \/ Crash \/ SettleOk \/ SettleFails
  <2>1. job' = NoJob \/ job' = [NoJob EXCEPT !.kind = "open"]
    BY <1>4, SettleFrame DEF Open, Crash
  <2>2. job'.kind # "abort"
    BY <2>1 DEF NoJob
  <2>. QED  BY <2>2 DEF AbortAims
<1>. QED  BY <1>1, <1>2, <1>3, <1>4, Kinds

\* What close and abort() join changes by finish(), and by the calls of abort().
LEMMA JoinMoves ==
    ASSUME CInv, Next, ~Open, ~Crash
    PROVE  \/ UNCHANGED <<abortPc, joins>>
           \/ \E S \in SUBSET Invs : Finish(S) /\ \A i \in S : inv'[i].ended
           \/ \E t \in Tasks : AbortTask(t) \/ AbortNothing(t)
           \/ SettleOk /\ AbortAfter(TRUE)
           \/ SettleFails /\ AbortAfter(FALSE)
<1>. TypeOK /\ HeldInv /\ LineInv
  BY Parts
<1>1. CASE Swap \/ Close \/ Join \/ CloseStorage \/ Loop \/ ResumeCall \/ WaitForIdle \/ Refuse
  BY <1>1 DEF Swap, Close, Join, CloseStorage, Loop, DrainTurn, ReserveBegin, VisitBlocked,
     VisitReserve, ResumeCall, WaitForIdle, Refuse, joinVars
<1>2. CASE \E t \in Tasks : Create(t) \/ WaitForTask(t) \/ WaitBegin(t) \/ AbortMark(t)
  BY <1>2 DEF Create, WaitForTask, WaitBegin, AbortMark, joinVars
<1>3. ASSUME NEW i \in Invs,
             \/ Start(i) \/ StepEnds(i) \/ StepContinues(i) \/ StepWrites(i) \/ Dispatch(i)
             \/ HandlerCommit(i) \/ CommitNothing(i) \/ CommitWrites(i) \/ HandlerReturn(i)
      PROVE  UNCHANGED <<abortPc, joins>>
  BY <1>3 DEF Start, StepEnds, StepContinues, StepWrites, Dispatch, HandlerCommit, CommitNothing,
     CommitWrites, HandlerReturn, joinVars
<1>4. ASSUME NEW i \in Invs, Finally(i)
      PROVE  \E S \in SUBSET Invs : Finish(S) /\ \A j \in S : inv'[j].ended
  <2>1. Retired(inv[i]) \in Invocation
    BY RetiredForm DEF TypeOK, ObjectsOK
  <2>2. Finish({i}) /\ inv'[i].ended
    BY <1>4, <2>1 DEF Finally, End, TypeOK, ObjectsOK, Invocation
  <2>. QED  BY <2>2
<1>5. CASE SettleOk \/ SettleFails
  <2>1. PICK ok \in BOOLEAN : /\ Continuation(ok)
                              /\ ok => SettleOk
                              /\ ~ok => SettleFails
    BY <1>5, SettleFrame
  <2>2. CASE ReserveAfter(ok)
    <3>. DEFINE S == IF ok THEN {} ELSE {i \in Invs : inv[i].pc = "reserved"}
    <3>1. Finish(S) /\ \A i \in S : inv'[i].ended
      BY <2>2, FreeObject DEF ReserveAfter
    <3>2. S \in SUBSET Invs
      OBVIOUS
    <3>. HIDE DEF S
    <3>. QED  BY <3>1, <3>2
  <2>3. CASE AbortAfter(ok)
    <3>1. CASE ok
      BY <2>1, <2>3, <3>1
    <3>2. CASE ~ok
      BY <2>1, <2>3, <3>2
    <3>. QED  BY <3>1, <3>2
  <2>. QED  BY <2>1, <2>2, <2>3 DEF Continuation, StepAfter, CommitAfter, CreateAfter, OpenAfter,
     Unjoined, joinVars
<1>. QED  BY <1>1, <1>2, <1>3, <1>4, <1>5 DEF Next, Life, Handlers, Callers, Line

\* An abort whose commit has landed stays so.
LEMMA LandedStep ==
    ASSUME CInv, AbortInv, Next
    PROVE  \A t \in Tasks : AbortLanded(t)'
<1>. TypeOK /\ HeldInv /\ LineInv /\ RecordInv
  BY Parts
<1>1. ASSUME NEW t \in Tasks, durable[t].st = "terminal" \/ durable[t].mark
      PROVE  /\ durable'[t].st = "terminal" \/ durable'[t].mark
             /\ durable[t].st # "terminal" => \A i \in Invs : RunsFor(i, t)' => RunsFor(i, t)
  BY <1>1, OutcomesStay, MarksStay, RunsShrink
<1>2. ASSUME NEW t \in Tasks, abortPc'[t] = abortPc[t], joins'[t] = joins[t]
      PROVE  AbortLanded(t)'
  BY <1>1, <1>2, OutcomesStay, MarksStay DEF AbortInv, AbortLanded
<1>3. ASSUME NEW S \in SUBSET Invs, Finish(S), \A i \in S : inv'[i].ended, NEW t \in Tasks
      PROVE  AbortLanded(t)'
  <2>1. /\ joins'[t] = IF joins[t] \in S THEN NoInv ELSE joins[t]
        /\ abortPc'[t] = IF abortPc[t] = "joining" /\ joins[t] \in S THEN "returned" ELSE abortPc[t]
    BY <1>3 DEF Finish
  <2>2. \A i \in S : ~RunsFor(i, t)'
    BY <1>3 DEF RunsFor
  <2>3. CASE abortPc[t] \in {"joining", "returned"} /\ durable[t].st = "terminal"
    BY <2>3, OutcomesStay DEF AbortLanded
  <2>4. CASE abortPc[t] \in {"joining", "returned"} /\ durable[t].st # "terminal"
    <3>1. durable[t].mark /\ \A i \in Invs : RunsFor(i, t) => abortPc[t] = "joining" /\ i = joins[t]
      BY <2>4 DEF AbortInv, AbortLanded
    <3>2. durable'[t].mark
      BY <3>1, MarksStay
    <3>3. ASSUME NEW i \in Invs, RunsFor(i, t)' PROVE abortPc'[t] = "joining" /\ i = joins'[t]
      <4>1. abortPc[t] = "joining" /\ i = joins[t] /\ i \notin S
        BY <1>1, <2>2, <2>4, <3>1, <3>3
      <4>. QED  BY <2>1, <4>1
    <3>. QED  BY <3>2, <3>3 DEF AbortLanded
  <2>5. CASE abortPc[t] \notin {"joining", "returned"}
    BY <2>1, <2>5 DEF AbortLanded
  <2>. QED  BY <2>3, <2>4, <2>5
<1>4. ASSUME NEW u \in Tasks, AbortTask(u) \/ AbortNothing(u), NEW t \in Tasks
      PROVE  AbortLanded(t)'
  <2>1. /\ UNCHANGED <<joins, durable>>
        /\ \A v \in Tasks \ {u} : abortPc'[v] = abortPc[v]
        /\ abortPc'[u] = "returned" => ~IsLive(durable[u]) /\ durable[u] # Absent
        /\ abortPc'[u] # "joining"
    BY <1>4 DEF AbortTask, AbortNothing, storeVars, TypeOK, JoinOK
  <2>2. CASE t # u
    BY <1>2, <2>1, <2>2
  <2>3. CASE t = u
    <3>1. abortPc'[u] = "returned" => durable[u].st = "terminal"
      BY <2>1, OutcomeIsTerminal DEF TypeOK, StoreOK
    <3>. QED  BY <2>1, <2>3, <3>1 DEF AbortLanded
  <2>. QED  BY <2>2, <2>3
<1>5. ASSUME NEW ok \in BOOLEAN, AbortAfter(ok), ok => SettleOk, NEW t \in Tasks
      PROVE  AbortLanded(t)'
  <2>. PICK u \in Tasks : u = job.task
    BY <1>5 DEF AbortAfter, LineInv, JobInv
  <2>. DEFINE running == ok /\ StillRuns(job.inv, u)
  <2>1. /\ job.kind = "abort" /\ u = job.task
        /\ abortPc' = [abortPc EXCEPT ![u] = IF ~ok THEN "idle"
                                            ELSE IF running THEN "joining" ELSE "returned"]
        /\ joins' = [joins EXCEPT ![u] = IF running THEN job.inv ELSE NoInv]
    BY <1>5 DEF AbortAfter, LineInv, JobInv
  <2>2. CASE t # u
    BY <1>2, <2>1, <2>2
  <2>3. CASE t = u /\ ~ok
    <3>1. abortPc'[t] = "idle"
      BY <2>1, <2>3 DEF TypeOK, JoinOK
    <3>. QED  BY <3>1 DEF AbortLanded
  <2>4. CASE t = u /\ ok
    <3>1. ~poisoned /\ durable' = Landed
      BY <1>5, <2>4 DEF SettleOk
    <3>2. /\ durable'[u].mark \/ durable'[u].st = "terminal"
          /\ \A i \in Invs : RunsFor(i, u) => i = job.inv
      BY <2>1, <3>1 DEF AbortInv, AbortAims
    <3>3. ASSUME NEW i \in Invs, RunsFor(i, u)' PROVE abortPc'[u] = "joining" /\ i = joins'[u]
      <4>1. RunsFor(i, u)
        BY <1>5, <2>1, <2>4, <3>3, RunsShrink DEF SettleOk, NoJob
      <4>2. i = job.inv /\ StillRuns(job.inv, u)
        BY <3>2, <4>1, SchedulerAssumption DEF StillRuns, RunsFor, LineInv, ObjectsInv
      <4>. QED  BY <2>1, <2>4, <4>2 DEF TypeOK, JoinOK
    <3>. QED  BY <2>4, <3>2, <3>3 DEF AbortLanded
  <2>. QED  BY <2>2, <2>3, <2>4
<1>6. CASE Open \/ Crash
  BY <1>6 DEF Open, Crash, Fresh, AbortLanded
<1>. QED  BY <1>2, <1>3, <1>4, <1>5, <1>6, JoinMoves

\* Once abort(t) has returned no run handler of t executes, unless t had settled:
\* the commit of the mark has seen the only run there is, and abort() joins it.
THEOREM AbortsReturnLast == Spec => []AbortReturnsAfterRun
<1>1. Init => AbortInv
  BY DEF Init, AbortInv, AbortAims, AbortLanded, NoJob
<1>2. CInv /\ AbortInv /\ [Next]_vars => AbortInv'
  <2>. SUFFICES ASSUME CInv, AbortInv, [Next]_vars PROVE AbortInv'
    OBVIOUS
  <2>1. CASE UNCHANGED vars
    BY <2>1 DEF vars, AbortInv, AbortAims, AbortLanded, RunsFor, Landed
  <2>2. CASE Next
    BY <2>2, AimsStep, LandedStep DEF AbortInv
  <2>. QED  BY <2>1, <2>2
<1>3. CInv /\ AbortInv => AbortReturnsAfterRun
  <2>. SUFFICES ASSUME CInv, AbortInv, NEW t \in Tasks, NEW i \in Invs,
                       abortPc[t] = "returned", Handling(i), inv[i].task = t,
                       durable[t].st # "terminal"
                PROVE  inv[i].mode = "abort"
    BY DEF AbortReturnsAfterRun
  <2>1. ~inv[i].ended /\ inv[i].mode \in {"run", "abort"}
    BY Parts DEF Handling, HeldInv, SlotsAreHeld, HeldPcs, TypeOK, ObjectsOK, Invocation
  <2>. QED  BY <2>1 DEF AbortInv, AbortLanded, RunsFor
<1>. QED  BY <1>1, <1>2, <1>3, CommitsInductive, PTL DEF Spec

------------------------------------------------------------------------------
(* Wakeups *)

Seen(t) == PassWillSee(t) \/ KickWillCome(t)
Awake == sess = "open" /\ enabled /\ ~closing /\ ~poisoned /\ ~stalled

\* A reservation belongs to the pass that asked for it, and the registry it has
\* read is the one there is unless a wakeup has come since; an opening process
\* does not schedule; a step that writes has ended its invocation.
PassInv ==
    /\ job.kind = "reserve" => drain = "reserving"
    /\ job.kind = "reserve" /\ ~closing /\ ~poisoned /\ job.def # registry => dirty
    /\ sess = "opening" => ~enabled
    /\ job.kind = "step" /\ ~poisoned => inv[job.inv].pc = "settling"

WakeInv == NoLostWakeup /\ PassInv

\* A kick or resume(), as far as the loop tells them apart.
Wakes == dirty' = TRUE
         /\ drain' = IF drain = "off" /\ enabled' /\ ~closing THEN "queued" ELSE drain

\* Quiet steps, but for a turn of the loop, wake it or leave it as it is, and one
\* that frees a slot is about to kick.
LEMMA QuietLoop ==
    ASSUME CInv, Quiet, ~DrainTurn
    PROVE  \/ /\ Wakes /\ UNCHANGED closing /\ (sess = "opening" => enabled' = enabled)
           \/ /\ UNCHANGED <<loopVars, failed, registry>> /\ (closing => closing')
              /\ \A i \in Invs : ~Finally(i)
              /\ UNCHANGED slot \/ \E i \in Invs : inv'[i].pc = "finally"
           \/ /\ UNCHANGED <<loopVars, sess, closing>>
              /\ sess \notin {"opening", "open"} \/ closing
<1>. TypeOK
  BY Parts
<1>. DEFINE Woken == Wakes /\ UNCHANGED closing /\ (sess = "opening" => enabled' = enabled)
            Left == /\ UNCHANGED <<loopVars, failed, registry>> /\ (closing => closing')
                    /\ \A i \in Invs : ~Finally(i)
                    /\ UNCHANGED slot \/ \E i \in Invs : inv'[i].pc = "finally"
<1>1. ASSUME Kick, UNCHANGED closing PROVE Woken
  BY <1>1 DEF Kick, Kicked, Wakes
<1>2. ASSUME Resume, UNCHANGED closing, sess # "opening" PROVE Woken
  BY <1>2 DEF Resume, Wakes
<1>3. ASSUME NEW i \in Invs, Finally(i) PROVE Woken
  BY <1>1, <1>3 DEF Finally, outerVars, closeVars
<1>4. CASE ResumeCall \/ WaitForIdle \/ \E t \in Tasks : WaitForTask(t)
  BY <1>2, <1>4 DEF ResumeCall, WaitForIdle, WaitForTask, outerVars, closeVars
<1>5. CASE Swap
  <2>1. CASE sess \in {"opening", "open"} /\ ~closing
    BY <1>1, <1>5, <2>1 DEF Swap, closeVars
  <2>2. CASE ~(sess \in {"opening", "open"} /\ ~closing)
    BY <1>5, <2>2 DEF Swap, closeVars
  <2>. QED  BY <2>1, <2>2
<1>6. CASE /\ \A i \in Invs : ~Finally(i)
           /\ \/ Close \/ Join \/ CloseStorage
              \/ \E t \in Tasks : WaitBegin(t) \/ AbortTask(t) \/ AbortNothing(t)
  BY <1>6 DEF Close, Join, CloseStorage, WaitBegin, AbortTask, AbortNothing, outerVars, envVars,
     closeVars
<1>7. ASSUME NEW i \in Invs, NEW w, w.pc = "finally", w \in Invocation, End(i, w)
      PROVE  inv'[i].pc = "finally"
  BY <1>7 DEF End, TypeOK, ObjectsOK, Invocation
<1>8. \A i \in Invs : LET w == [inv[i] EXCEPT !.pc = "finally"] IN
        w \in Invocation /\ w.pc = "finally"
  <2>1. "finally" \in Pcs
    BY DEF Pcs
  <2>2. ASSUME NEW i \in Invs PROVE inv[i] \in Invocation
    BY <2>2 DEF TypeOK, ObjectsOK
  <2>3. ASSUME NEW x \in Invocation
        PROVE  [x EXCEPT !.pc = "finally"] \in Invocation /\ [x EXCEPT !.pc = "finally"].pc = "finally"
    BY <2>1 DEF Invocation
  <2>. QED  BY <2>2, <2>3
<1>9. ASSUME NEW i \in Invs, \A j \in Invs : ~Finally(j),
             \/ Start(i) \/ StepEnds(i) \/ StepContinues(i) \/ Dispatch(i)
             \/ HandlerCommit(i) \/ CommitNothing(i) \/ HandlerReturn(i)
      PROVE  Left
  <2>1. UNCHANGED slot \/ End(i, [inv[i] EXCEPT !.pc = "finally"])
    BY <1>9 DEF Start, StepEnds, StepContinues, Dispatch, HandlerCommit, CommitNothing, HandlerReturn
  <2>2. UNCHANGED <<loopVars, failed, registry>> /\ UNCHANGED closing
    BY <1>9 DEF Start, StepEnds, StepContinues, Dispatch, HandlerCommit, CommitNothing,
       HandlerReturn, outerVars, closeVars, envVars
  <2>. QED  BY <1>7, <1>8, <1>9, <2>1, <2>2
<1>. QED  BY <1>3, <1>4, <1>5, <1>6, <1>9 DEF Quiet

\* What is seen stays seen while the line, the loop and the kicks to come stay.
LEMMA StaysSeen ==
    ASSUME CInv, AllWind, \A i \in Invs : ~Finally(i), NEW t \in Tasks, Seen(t),
           UNCHANGED <<dirty, drain, job, todo, staged>>, job.kind = "step" => ~poisoned, PassInv
    PROVE  Seen(t)'
<1>1. ASSUME NEW i \in Invs, inv[i].pc = "finally" PROVE inv'[i].pc = "finally"
  BY <1>1 DEF AllWind, Leaves
<1>2. CASE PassWillSee(t)
  BY <1>2 DEF PassWillSee, Seen
<1>3. CASE \E i \in Invs : inv[i].pc = "finally"
  BY <1>1, <1>3 DEF Seen, KickWillCome
<1>4. CASE job.kind = "step" /\ inv[job.inv].task = t
  <2>1. job.inv \in Invs /\ inv[job.inv].pc = "settling" /\ job' # NoJob
    BY <1>4, Parts DEF PassInv, LineInv, JobInv, NoJob
  <2>2. inv'[job.inv].task = t
    BY <1>4, <2>1 DEF AllWind, Winds
  <2>. QED  BY <1>4, <2>2 DEF Seen, KickWillCome
<1>. QED  BY <1>2, <1>3, <1>4 DEF Seen, KickWillCome

\* Quiet steps lose no wakeup.
LEMMA QuietWakes ==
    ASSUME CInv, WakeInv, Quiet
    PROVE  WakeInv'
<1>. TypeOK /\ HeldInv /\ LineInv /\ RecordInv
  BY Parts
<1>1. /\ UNCHANGED <<live, poisoned, job, staged, todo>>
      /\ sess' = sess \/ (sess' = "closed" /\ job = NoJob)
  BY QuietFrame
<1>2. AllWind
  <2>1. Next /\ ~Open /\ ~Crash
    <3>1. Next
      BY DEF Quiet, Next, Life, Loop, Handlers, Callers
    <3>2. ~Crash /\ ~Open
      BY <1>1 DEF Open, Crash, Fresh
    <3>. QED  BY <3>1, <3>2
  <2>. QED  BY <2>1, StepsWind
<1>3. job.kind = "step" /\ ~poisoned => inv'[job.inv].pc = "settling"
  BY <1>1, <1>2 DEF WakeInv, PassInv, AllWind, Winds, LineInv, JobInv, NoJob
<1>4. CASE DrainTurn
  <2>1. drain = "queued" /\ UNCHANGED <<enabled, closing, sess, registry, failed, slot, inv>>
    BY <1>4 DEF DrainTurn, outerVars, closeVars, envVars
  <2>2. job.kind # "reserve"
    BY <2>1 DEF WakeInv, PassInv
  <2>3. PassInv'
    BY <1>1, <1>3, <2>1, <2>2 DEF WakeInv, PassInv
  <2>4. ASSUME Awake', NEW t \in Tasks, Eligible(t)' PROVE Seen(t)'
    <3>1. CASE dirty /\ enabled /\ ~closing
      <4>1. drain' = "reserving"
        BY <1>4, <2>4, <3>1 DEF DrainTurn, Awake
      <4>. QED  BY <1>1, <2>2, <4>1 DEF Seen, PassWillSee
    <3>2. CASE ~(dirty /\ enabled /\ ~closing)
      <4>1. Awake /\ Eligible(t) /\ ~dirty
        BY <1>1, <1>4, <2>1, <2>4, <3>2
           DEF DrainTurn, Awake, Eligible, Candidates, WaitingOn, Unfit
      <4>2. KickWillCome(t)
        BY <2>1, <4>1 DEF WakeInv, NoLostWakeup, Awake, PassWillSee
      <4>. QED  BY <1>1, <2>1, <4>2 DEF Seen, KickWillCome
    <3>. QED  BY <3>1, <3>2
  <2>. QED  BY <2>3, <2>4 DEF WakeInv, NoLostWakeup, Awake, Seen
<1>5. CASE Wakes /\ UNCHANGED closing /\ (sess = "opening" => enabled' = enabled)
  <2>1. PassInv'
    BY <1>1, <1>3, <1>5 DEF WakeInv, PassInv, Wakes, NoJob
  <2>2. ASSUME Awake', NEW t \in Tasks PROVE Seen(t)'
    BY <1>5, <2>2 DEF Wakes, Awake, Seen, PassWillSee
  <2>. QED  BY <2>1, <2>2 DEF WakeInv, NoLostWakeup, Awake, Seen
<1>6. CASE /\ UNCHANGED <<loopVars, failed, registry>> /\ (closing => closing')
           /\ \A i \in Invs : ~Finally(i)
           /\ UNCHANGED slot \/ \E i \in Invs : inv'[i].pc = "finally"
  <2>1. UNCHANGED <<dirty, drain, enabled, stalled, failed, registry>>
    BY <1>6 DEF loopVars
  <2>2. PassInv'
    BY <1>1, <1>3, <1>6, <2>1 DEF WakeInv, PassInv, NoJob
  <2>3. ASSUME Awake', NEW t \in Tasks, Eligible(t)' PROVE Seen(t)'
    <3>1. CASE \E i \in Invs : inv'[i].pc = "finally"
      BY <3>1 DEF Seen, KickWillCome
    <3>2. CASE UNCHANGED slot
      <4>1. Awake /\ Eligible(t) /\ ~poisoned
        BY <1>1, <1>6, <2>1, <2>3, <3>2 DEF Awake, Eligible, Candidates, WaitingOn, Unfit
      <4>2. Seen(t)
        BY <4>1 DEF WakeInv, NoLostWakeup, Awake, Seen
      <4>. QED  BY <1>1, <1>2, <1>6, <2>1, <4>1, <4>2, StaysSeen DEF WakeInv
    <3>. QED  BY <1>6, <3>1, <3>2
  <2>. QED  BY <2>2, <2>3 DEF WakeInv, NoLostWakeup, Awake, Seen
<1>7. CASE UNCHANGED <<loopVars, sess, closing>> /\ (sess \notin {"opening", "open"} \/ closing)
  <2>1. ~Awake'
    BY <1>7 DEF Awake
  <2>2. PassInv'
    BY <1>1, <1>3, <1>7 DEF WakeInv, PassInv, NoJob, loopVars, LineInv, OpeningInv, TypeOK, CloseOK
  <2>. QED  BY <2>1, <2>2 DEF WakeInv, NoLostWakeup, Awake
<1>. QED  BY <1>4, <1>5, <1>6, <1>7, QuietLoop

\* A job that starts loses no wakeup: a reservation looks at every candidate, and
\* a write that frees a slot ends in a kick.
LEMMA BeginsWakes ==
    ASSUME CInv, WakeInv, Begins
    PROVE  WakeInv'
<1>. TypeOK /\ HeldInv /\ LineInv /\ RecordInv
  BY Parts
<1>1. UNCHANGED <<live, poisoned, sess>> /\ sess = "open" /\ job = NoJob
  BY BeginsFrame
<1>2. UNCHANGED <<enabled, dirty, drain, stalled, registry, closing>>
  BY DEF Begins, ReserveBegin, Refuse, StepWrites, CommitWrites, Create, AbortMark, loopVars,
     outerVars, envVars, closeVars
<1>3. AllWind
  BY HandlersWind, SameWinds DEF Begins, Handlers, ReserveBegin, Refuse, Create, AbortMark
<1>4. ASSUME NEW i \in Invs, inv[i].pc = "finally" PROVE inv'[i].pc = "finally"
  <2>1. ~Finally(i)
    BY BeginsFrame, <1>1 DEF Finally, lineVars, NoJob
  <2>. QED  BY <1>3, <1>4, <2>1 DEF AllWind, Leaves
<1>5. ASSUME job'.kind # "reserve", NEW t \in Tasks, Seen(t) PROVE Seen(t)'
  BY <1>1, <1>2, <1>4, <1>5 DEF Seen, PassWillSee, KickWillCome, NoJob
<1>6. ASSUME job'.kind # "reserve", job'.kind = "step" /\ ~poisoned => inv'[job'.inv].pc = "settling",
             \A t \in Tasks : Eligible(t)' => Eligible(t) \/ Seen(t)'
      PROVE  WakeInv'
  <2>1. PassInv'
    BY <1>1, <1>2, <1>6 DEF PassInv
  <2>2. ASSUME Awake', NEW t \in Tasks, Eligible(t)' PROVE Seen(t)'
    BY <1>1, <1>2, <1>5, <1>6, <2>2 DEF WakeInv, NoLostWakeup, Awake, Seen
  <2>. QED  BY <2>1, <2>2 DEF WakeInv, NoLostWakeup, Awake, Seen
<1>7. CASE ReserveBegin
  <2>1. /\ drain = "reserving" /\ job'.kind = "reserve" /\ job'.def = registry
        /\ todo' = (IF enabled /\ ~closing THEN Candidates ELSE {})
        /\ UNCHANGED <<slot, failed>>
    BY <1>7 DEF ReserveBegin, NoJob
  <2>2. PassInv'
    BY <1>1, <1>2, <2>1 DEF PassInv
  <2>3. ASSUME Awake', NEW t \in Tasks, Eligible(t)' PROVE Seen(t)'
    BY <1>1, <1>2, <2>1, <2>3 DEF Awake, Eligible, Candidates, WaitingOn, Seen, PassWillSee
  <2>. QED  BY <2>2, <2>3 DEF WakeInv, NoLostWakeup, Awake, Seen
<1>8. CASE Refuse
  <2>1. poisoned /\ (job'.kind = "reserve" => drain = "reserving")
    BY <1>8 DEF Refuse, NoJob
  <2>. QED  BY <1>1, <1>2, <2>1 DEF WakeInv, NoLostWakeup, PassInv
<1>9. ASSUME NEW i \in Invs, StepWrites(i) PROVE WakeInv'
  <2>. DEFINE v == [[inv[i] EXCEPT !.pc = "settling"] EXCEPT !.ended = TRUE]
  <2>1. v.pc = "settling" /\ v.task = inv[i].task
    BY DEF TypeOK, ObjectsOK, Invocation
  <2>2. /\ inv' = [inv EXCEPT ![i] = v] /\ job'.kind = "step" /\ job'.inv = i
        /\ \A t \in Tasks : slot'[t] = IF slot[t] = i THEN NoInv ELSE slot[t]
        /\ UNCHANGED failed
    BY <1>9 DEF StepWrites, End, NoJob
  <2>3. inv'[i] = v
    BY <2>2 DEF TypeOK, ObjectsOK
  <2>. HIDE DEF v
  <2>4. ASSUME NEW t \in Tasks, Eligible(t)' PROVE Eligible(t) \/ Seen(t)'
    <3>1. CASE slot[t] = i
      <4>1. inv[i].task = t
        BY <3>1, SchedulerAssumption DEF LineInv, ObjectsInv, SlotHolds
      <4>. QED  BY <2>1, <2>2, <2>3, <4>1 DEF Seen, KickWillCome
    <3>2. CASE slot[t] # i
      BY <1>1, <1>2, <2>2, <2>4, <3>2 DEF Eligible, Candidates, WaitingOn, Unfit
    <3>. QED  BY <3>1, <3>2
  <2>. QED  BY <1>6, <2>1, <2>2, <2>3, <2>4
<1>10. CASE (\E i \in Invs : CommitWrites(i)) \/ \E t \in Tasks : Create(t)
  <2>1. job'.kind \in {"commit", "create"} /\ UNCHANGED <<slot, failed>>
    BY <1>10 DEF CommitWrites, Create, NoJob
  <2>. QED  BY <1>1, <1>2, <1>6, <2>1 DEF Eligible, Candidates, WaitingOn, Unfit
<1>11. ASSUME NEW t \in Tasks, AbortMark(t) PROVE WakeInv'
  <2>1. /\ job'.kind = "abort" /\ UNCHANGED slot
        /\ UNCHANGED failed \/ \E res \in Resolutions(t, durable[t], registry) :
                                 Remember(t, res, registry)
    BY <1>11 DEF AbortMark, NoJob
  <2>2. UNCHANGED failed \/ failed' = [failed EXCEPT ![t] = registry]
    BY <2>1 DEF Remember
  <2>3. \A u \in Tasks : failed'[u] = failed[u] \/ failed'[u] = registry
    BY <2>2 DEF TypeOK
  <2>4. ASSUME NEW u \in Tasks, Eligible(u)' PROVE Eligible(u)
    BY <1>1, <1>2, <2>1, <2>3, <2>4 DEF Eligible, Candidates, WaitingOn, Unfit
  <2>. QED  BY <1>6, <2>1, <2>4
<1>. QED  BY <1>7, <1>8, <1>9, <1>10, <1>11 DEF Begins

\* A visit takes up its task, or finds that no definition can take it, and leaves
\* the others to the pass.
LEMMA VisitWakes ==
    ASSUME CInv, WakeInv, NEW t \in Tasks, VisitBlocked(t) \/ VisitReserve(t)
    PROVE  WakeInv'
<1>. TypeOK /\ HeldInv /\ LineInv /\ RecordInv
  BY Parts
<1>1. /\ UNCHANGED <<live, poisoned, sess, job>> /\ todo' = todo \ {t}
      /\ job.kind = "reserve" /\ live[t] # Absent /\ ~poisoned /\ sess = "open"
      /\ \A u \in Tasks \ {t} : staged'[u] = staged[u]
  BY VisitsFrame
<1>2. UNCHANGED <<enabled, dirty, drain, stalled, registry, closing>>
  BY DEF VisitBlocked, VisitReserve, loopVars, outerVars, envVars, closeVars
<1>3. drain = "reserving"
  BY <1>1 DEF WakeInv, PassInv
<1>4. PassInv'
  BY <1>1, <1>2 DEF WakeInv, PassInv
<1>5. AllWind
  <2>1. Next /\ ~Open /\ ~Crash
    BY <1>1 DEF Next, Loop, Open, Crash
  <2>. QED  BY <2>1, StepsWind
<1>6. ASSUME NEW i \in Invs, inv[i].pc = "finally" PROVE inv'[i].pc = "finally"
  <2>1. ~Finally(i)
    BY <1>1 DEF Finally, lineVars, VisitBlocked, VisitReserve
  <2>. QED  BY <1>5, <1>6, <2>1 DEF AllWind, Leaves
<1>7. ASSUME NEW u \in Tasks \ {t}
      PROVE  failed'[u] = failed[u] /\ slot'[u] = slot[u]
  BY DEF VisitBlocked, VisitReserve, Remember, TypeOK, ObjectsOK
<1>8. ASSUME Awake', NEW u \in Tasks \ {t}, Eligible(u)' PROVE Seen(u)'
  <2>1. Awake /\ Eligible(u)
    BY <1>1, <1>2, <1>7, <1>8 DEF Awake, Eligible, Candidates, WaitingOn, Unfit
  <2>2. Seen(u)
    BY <2>1 DEF WakeInv, NoLostWakeup, Awake, Seen
  <2>. QED  BY <1>1, <1>2, <1>6, <2>2 DEF Seen, PassWillSee, KickWillCome
<1>9. ASSUME Awake', Eligible(t)' PROVE Seen(t)'
  <2>1. CASE VisitReserve(t)
    <3>1. slot'[t] = FreshInv /\ FreshInv \in Invs
      BY <2>1 DEF VisitReserve, FreshInv, TypeOK, ObjectsOK
    <3>. QED  BY <1>9, <3>1, SchedulerAssumption DEF Eligible, Candidates
  <2>2. CASE VisitBlocked(t) /\ live[t].mark
    <3>1. staged'[t] = Settled(live[t], "orphaned") /\ live[t] \in LiveRecord
      BY <1>1, <2>2 DEF VisitBlocked, TypeOK, LineOK, StoreOK
    <3>2. staged'[t].st = "terminal"
      BY <3>1 DEF Settled, LiveRecord
    <3>. QED  BY <1>2, <1>3, <3>2, AbsentForm DEF Seen, PassWillSee
  <2>3. CASE VisitBlocked(t) /\ ~live[t].mark
    <3>. DEFINE d == job.def
                r == live[t]
                kept(tried) == [ok |-> FALSE, tried |-> tried, rec |-> r]
    <3>1. PICK res \in Resolutions(t, r, d) : ~res.ok /\ Remember(t, res, d)
      BY <2>3 DEF VisitBlocked
    <3>2. r \in LiveRecord /\ d \in Defs \cup {NoDef}
      BY <1>1 DEF TypeOK, StoreOK, LineOK, Job
    <3>3. CASE d # registry
      <4>1. dirty
        BY <1>1, <1>2, <1>9, <3>3 DEF WakeInv, PassInv, Awake
      <4>. QED  BY <1>2, <1>3, <4>1 DEF Seen, PassWillSee
    <3>4. CASE d = registry /\ Unfit(t, r, d)
      <4>1. res = kept(FALSE)
        BY <3>1, <3>4 DEF Resolutions
      <4>2. failed' = failed
        BY <3>1, <4>1 DEF Remember
      <4>. QED  BY <1>1, <1>2, <1>9, <2>3, <3>4, <4>2 DEF Eligible, Unfit
    <3>5. CASE d = registry /\ ~Unfit(t, r, d)
      <4>1. d \in Defs /\ d.ver \in Nat /\ r.ver \in Nat /\ ~(d.ver < r.ver)
        BY <3>2, <3>5, SchedulerAssumption, RecordAssumption DEF Unfit, LiveRecord
      <4>2. d.ver # r.ver /\ res.tried
        <5>1. ASSUME d.ver = r.ver PROVE FALSE
          BY <3>1, <3>5, <5>1 DEF Resolutions
        <5>2. res = kept(TRUE) \/ \E x : res = [ok |-> TRUE, tried |-> FALSE, rec |-> x]
          BY <3>1, <3>5, <5>1 DEF Resolutions
        <5>3. ASSUME NEW x, res = [ok |-> TRUE, tried |-> FALSE, rec |-> x] PROVE res.ok = TRUE
          BY <5>3
        <5>4. ASSUME res = kept(TRUE) PROVE res.tried = TRUE
          BY <5>4
        <5>. QED  BY <3>1, <5>1, <5>2, <5>3, <5>4
      <4>3. failed'[t] = d
        BY <3>1, <4>2 DEF Remember, TypeOK
      <4>. QED  BY <1>1, <1>2, <1>9, <2>3, <3>5, <4>1, <4>2, <4>3 DEF Eligible, Unfit
    <3>. QED  BY <3>3, <3>4, <3>5
  <2>. QED  BY <2>1, <2>2, <2>3
<1>. QED  BY <1>4, <1>8, <1>9 DEF WakeInv, NoLostWakeup, Awake, Seen

\* A settlement wakes the loop when it has committed anything, and otherwise
\* changes nothing that a pass looks at.
LEMMA SettleWakes ==
    ASSUME CInv, WakeInv, SettleOk \/ SettleFails
    PROVE  WakeInv'
<1>. TypeOK /\ HeldInv /\ LineInv /\ RecordInv
  BY Parts
<1>1. PICK ok \in BOOLEAN :
        /\ Continuation(ok) /\ job' = NoJob /\ job.kind # "none" /\ todo = {}
        /\ staged' = NoWrites /\ todo' = {}
        /\ sess \in {"opening", "open"}
        /\ sess' = IF job.kind # "open" THEN sess ELSE IF ok THEN "open" ELSE "closed"
        /\ ~poisoned' => ~poisoned
        /\ ok => SettleOk
        /\ ~ok => SettleFails
  BY SettleFrame
<1>2. UNCHANGED <<enabled, registry>>
  BY <1>1 DEF SettleOk, SettleFails, FailedPass, envVars
<1>3. job.kind # "open" => UNCHANGED closing
  BY <1>1 DEF Continuation, OpenAfter, ReserveAfter, StepAfter, CommitAfter, AbortAfter,
     CreateAfter, closeVars
<1>4. PassInv'
  <2>1. sess' # "opening"
    BY <1>1 DEF LineInv, OpeningInv
  <2>. QED  BY <1>1, <2>1 DEF PassInv, NoJob
<1>5. AllWind
  <2>1. Next /\ ~Open /\ ~Crash
    BY <1>1 DEF Next, Line, Open, Crash, LineInv, OpeningInv
  <2>. QED  BY <2>1, StepsWind
<1>6. ASSUME NEW i \in Invs, inv[i].pc = "finally" PROVE inv'[i].pc = "finally"
  <2>1. ~Finally(i)
    BY <1>1 DEF Finally, lineVars, NoJob
  <2>. QED  BY <1>5, <1>6, <2>1 DEF AllWind, Leaves
<1>7. StepAfter(ok) => \E i \in Invs : inv'[i].pc = "finally"
  <2>. SUFFICES ASSUME StepAfter(ok) PROVE inv'[job.inv].pc = "finally" /\ job.inv \in Invs
    OBVIOUS
  <2>1. job.inv \in Invs /\ End(job.inv, [inv[job.inv] EXCEPT !.pc = "finally"])
    BY DEF StepAfter, LineInv, JobInv
  <2>. QED  BY <2>1 DEF End, TypeOK, ObjectsOK, Invocation
<1>8. job.kind # "reserve" /\ ~StepAfter(ok) => UNCHANGED slot /\ job.kind # "step"
  BY <1>1 DEF Continuation, OpenAfter, ReserveAfter, StepAfter, CommitAfter, AbortAfter, CreateAfter
<1>9. Awake' => /\ job.kind # "open" /\ sess = "open" /\ enabled /\ ~closing /\ ~poisoned
  BY <1>1, <1>2, <1>3 DEF Awake, WakeInv, PassInv, LineInv, OpeningInv
<1>10. ASSUME Awake', UNCHANGED <<live, failed, slot>>, dirty => dirty', stalled' => stalled,
              stalled => stalled', dirty => drain' # "off" \/ drain = "off",
              job.kind # "reserve" => drain' = drain, staged = NoWrites \/ job.kind # "reserve",
              NEW t \in Tasks, Eligible(t)', job.kind # "step"
       PROVE  Seen(t)'
  <2>1. Awake /\ Eligible(t)
    BY <1>2, <1>9, <1>10 DEF Awake, Eligible, Candidates, WaitingOn, Unfit
  <2>2. Seen(t)
    BY <2>1 DEF WakeInv, NoLostWakeup, Awake, Seen
  <2>. QED  BY <1>1, <1>6, <1>10, <2>2 DEF Seen, PassWillSee, KickWillCome, NoJob, NoWrites
<1>11. ASSUME ok, Awake', NEW t \in Tasks, Eligible(t)' PROVE Seen(t)'
  <2>1. /\ dirty' = (dirty \/ staged # NoWrites)
        /\ stalled' = (stalled /\ staged = NoWrites)
        /\ drain' = IF job.kind = "reserve" THEN "queued"
                    ELSE IF staged # NoWrites THEN Kicked(drain) ELSE drain
        /\ live' = [u \in Tasks |-> Observed(u)]
        /\ failed' = [u \in Tasks |-> IF u \in Ends THEN NoDef ELSE failed[u]]
    BY <1>1, <1>11 DEF SettleOk
  <2>2. CASE staged # NoWrites
    BY <1>9, <1>11, <2>1, <2>2 DEF Seen, PassWillSee, Kicked
  <2>3. CASE staged = NoWrites /\ StepAfter(ok)
    BY <1>7, <2>3 DEF Seen, KickWillCome
  <2>4. CASE staged = NoWrites /\ ~StepAfter(ok)
    <3>1. UNCHANGED <<live, failed>>
      BY <2>1, <2>4, AbsentForm DEF Observed, Ends, NoWrites, TypeOK, StoreOK
    <3>2. UNCHANGED slot /\ job.kind # "step"
      <4>1. CASE job.kind = "reserve"
        <5>1. ReserveAfter(ok)
          BY <1>1, <4>1 DEF Continuation, StepAfter, CommitAfter, AbortAfter, CreateAfter, OpenAfter
        <5>2. \A u \in Tasks : slot'[u] = slot[u]
          BY <1>11, <5>1 DEF ReserveAfter
        <5>3. slot' = [u \in Tasks |-> slot'[u]]
          BY <5>1 DEF ReserveAfter
        <5>. QED  BY <4>1, <5>2, <5>3 DEF TypeOK, ObjectsOK
      <4>2. CASE job.kind # "reserve"
        BY <1>8, <2>4, <4>2
      <4>. QED  BY <4>1, <4>2
    <3>. QED  BY <1>10, <1>11, <2>1, <2>4, <3>1, <3>2
  <2>. QED  BY <2>2, <2>3, <2>4
<1>12. ASSUME ~ok, Awake', NEW t \in Tasks, Eligible(t)' PROVE Seen(t)'
  <2>1. FailedPass /\ UNCHANGED <<live, failed>>
    BY <1>1, <1>12 DEF SettleFails
  <2>2. CASE job.kind = "reserve"
    BY <1>9, <1>12, <2>1, <2>2 DEF FailedPass, Awake, Seen, PassWillSee
  <2>3. CASE StepAfter(ok)
    BY <1>7, <2>3 DEF Seen, KickWillCome
  <2>4. CASE job.kind # "reserve" /\ ~StepAfter(ok)
    BY <1>8, <1>10, <1>12, <2>1, <2>4 DEF FailedPass
  <2>. QED  BY <2>2, <2>3, <2>4
<1>13. ASSUME Awake', NEW t \in Tasks, Eligible(t)' PROVE Seen(t)'
  BY <1>11, <1>12, <1>13
<1>. QED  BY <1>4, <1>13 DEF WakeInv, NoLostWakeup, Awake, Seen

\* No wakeup is lost: whenever a task could be reserved, a pass that will see it is
\* under way or a kick is to come, through failures of the commits it depends on.
THEOREM WakeupsArrive == Spec => []NoLostWakeup
<1>1. Init => WakeInv
  BY DEF Init, WakeInv, NoLostWakeup, PassInv, NoJob
<1>2. CInv /\ WakeInv /\ [Next]_vars => WakeInv'
  <2>. SUFFICES ASSUME CInv, WakeInv, [Next]_vars PROVE WakeInv'
    OBVIOUS
  <2>1. CASE UNCHANGED vars
    BY <2>1 DEF vars, WakeInv, NoLostWakeup, PassInv, Eligible, Candidates, WaitingOn, Unfit,
       PassWillSee, KickWillCome
  <2>2. CASE Open \/ Crash
    <3>1. enabled' = FALSE /\ (job' = NoJob \/ job' = [NoJob EXCEPT !.kind = "open"])
      BY <2>2 DEF Open, Crash, Fresh
    <3>2. job'.kind \notin {"reserve", "step"}
      BY <3>1 DEF NoJob
    <3>. QED  BY <3>1, <3>2 DEF WakeInv, NoLostWakeup, PassInv
  <2>3. CASE Next
    BY <2>2, <2>3, Kinds, QuietWakes, BeginsWakes, VisitWakes, SettleWakes DEF Visits
  <2>. QED  BY <2>1, <2>3
<1>3. WakeInv => NoLostWakeup
  BY DEF WakeInv
<1>. QED  BY <1>1, <1>2, <1>3, CommitsInductive, PTL DEF Spec

==============================================================================
