----------------------------- MODULE Observation -----------------------------
(***************************************************************************)
(* Readers of one document: the states and watches a Session attaches      *)
(* (packages/durable/src/session/observation.ts, session.ts), Chord's end  *)
(* of a state (packages/chord/src/services/state.ts) and the owners of the *)
(* watches (watchDoc in session.ts, #watchDoc in scheduler.ts).            *)
(*                                                                         *)
(* A value is [inc, n, ver, gone]: the n-th published one of incarnation   *)
(* inc, in version ver of the definition, null when gone.  A frame carries *)
(* a value and either the operations that lead to it from the value before *)
(* it (exact) or a replacement.  Readers replay the frames; Broken is what *)
(* they get from operations that do not fit the value they have.           *)
(***************************************************************************)
EXTENDS Naturals, Sequences, SequencesExt

CONSTANTS
    States, Watches,  \* the readers
    Versions,         \* versions of the definition, numbers
    MaxPending,       \* MAX_PENDING_WATCH_FRAMES
    MaxCommits        \* bound: commits that publish

ASSUME ObservationAssumption ==
    /\ States \cap Watches = {} /\ Versions \subseteq Nat \ {0}
    /\ MaxPending \in Nat \ {0} /\ MaxCommits \in Nat

VARIABLES
    log,       \* per incarnation, the values published so far
    stored,    \* the version its current record is stored in
    closing,   \* the Session has begun to close
    reader     \* the readers

vars == <<log, stored, closing, reader>>

Readers == States \cup Watches
Absent == [inc |-> 0, n |-> 0, ver |-> 0, gone |-> FALSE]
Broken == [Absent EXCEPT !.gone = TRUE]

\* at: "none", "attached" on the line but not yet returned, "live".
NoReader == [at |-> "none", shown |-> Absent, observed |-> 0, pending |-> <<>>,
             started |-> FALSE, scheduled |-> FALSE, running |-> FALSE,
             owner |-> "there", end |-> "none"]

Latest == Last(log)
ValuesFor(r) == IF reader[r].shown = Absent THEN <<>> ELSE log[reader[r].shown.inc]
Retired == Last(Latest).gone

Init ==
    /\ \E v \in Versions : log = <<<<[ver |-> v, gone |-> FALSE]>>>> /\ stored = v
    /\ closing = FALSE
    /\ reader = [r \in Readers |-> NoReader]

Sets(r, changed) == reader' = [reader EXCEPT ![r] = changed]

------------------------------------------------------------------------------
(* Publication *)

\* SessionDocumentWatch.#terminate, dispose: the first reason wins, and what is
\* pending is dropped.  A listener that runs is left alone; the other flags of a
\* reader that has ended are not looked at any more.
Terminated(o, reason) ==
    IF o.end # "none" THEN o
    ELSE [NoReader EXCEPT !.at = o.at, !.shown = o.shown, !.running = o.running, !.end = reason]

\* #schedule
Scheduled(o) ==
    IF o.running \/ o.end # "none" \/ ~o.started THEN o ELSE [o EXCEPT !.scheduled = TRUE]

\* Mutant: the operations of a commit are taken as they are.
ExactAlways(o, value) == ~value.gone

\* observedOperations: the operations of a commit fit readers of its version.
Exact(o, value) == ~value.gone /\ value.ver = o.observed

\* Mutant: the oldest frames make room.
DropOldest(o, frame) == Append(Tail(o.pending), frame)

\* A watch that is too far behind is moved on to the newest value.
Overflow(o, frame) == <<[frame EXCEPT !.exact = FALSE]>>

\* advance() and publish()
Advanced(r, o, value) ==
    LET frame == [value |-> value, exact |-> Exact(o, value)]
        full == r \in Watches /\ Len(o.pending) >= MaxPending
    IN  Scheduled([o EXCEPT !.observed = IF value.gone THEN @ ELSE value.ver,
                            !.pending = IF full THEN Overflow(o, frame) ELSE Append(@, frame)])

\* #publish: the subscribers of the incarnation, synchronously, on the line.
Publish(v, gone) ==
    LET value == [inc |-> Len(log), n |-> Len(Latest) + 1, ver |-> v, gone |-> gone] IN
    /\ log' = [log EXCEPT ![Len(log)] = Append(@, [ver |-> v, gone |-> gone])]
    /\ reader' = [r \in Readers |->
                    LET o == reader[r] IN
                    IF o.end = "none" /\ o.shown.inc = Len(log)
                    THEN Advanced(r, o, value) ELSE o]

Room == FoldLeft(LAMBDA sum, values : sum + Len(values), 0, log) < MaxCommits

\* A definition older than the record is refused.
Change(v) ==
    /\ ~Retired /\ Room /\ v >= stored /\ stored' = v
    /\ Publish(v, FALSE) /\ UNCHANGED closing

\* A record of an older version is stored anew when a draft of it is left as it is;
\* this is not published.
Upgrade(v) ==
    /\ ~Retired /\ v > stored /\ stored' = v
    /\ UNCHANGED <<log, closing, reader>>

Retire ==
    /\ ~Retired /\ Room
    /\ Publish(stored, TRUE) /\ UNCHANGED <<stored, closing>>

\* Another incarnation; the readers of the former one are not its.
Recreate(v) ==
    /\ Retired /\ Room
    /\ log' = Append(log, <<[ver |-> v, gone |-> FALSE]>>) /\ stored' = v
    /\ UNCHANGED <<closing, reader>>

------------------------------------------------------------------------------
(* Readers *)

\* #attachDocument, on the line; a state is activated and handed over at once.  An
\* invocation may have ended since it asked; a cancelled request is refused.
Attach(r, v, owner) ==
    /\ reader[r].at = "none"
    /\ r \in States => owner = "there"
    /\ ~closing /\ ~Retired /\ v >= stored
    /\ Sets(r, [reader[r] EXCEPT
           !.at = IF r \in States THEN "live" ELSE "attached", !.started = r \in States,
           !.shown = [inc |-> Len(log), n |-> Len(Latest), ver |-> v, gone |-> FALSE],
           !.observed = v, !.owner = owner])
    /\ UNCHANGED <<log, stored, closing>>

\* Mutant: nobody looks whether the owner is still there.
Kept(o) == o

\* watchDoc, #watchDoc: its owner may have gone while the watch was acquired.
Owned(o) ==
    IF o.owner = "there" THEN o ELSE Terminated(o, o.owner)

HandOver(r) ==
    /\ reader[r].at = "attached"
    /\ Sets(r, [Owned(reader[r]) EXCEPT !.at = "live"])
    /\ UNCHANGED <<log, stored, closing>>

\* The owner cancels its context, or stops: stop(), the end of its invocation,
\* dispose() of a state.
OwnerLeaves(r, how) ==
    /\ reader[r].at # "none" /\ reader[r].owner = "there" /\ reader[r].end = "none"
    /\ r \in States => how = "stopped"
    /\ LET o == [reader[r] EXCEPT !.owner = how] IN
       Sets(r, IF o.at = "live" THEN Terminated(o, how) ELSE o)
    /\ UNCHANGED <<log, stored, closing>>

\* WatchHandle.start
Start(r) ==
    /\ r \in Watches /\ reader[r].at = "live" /\ ~reader[r].started /\ reader[r].end = "none"
    /\ LET o == [reader[r] EXCEPT !.started = TRUE] IN
       Sets(r, IF o.pending = <<>> THEN o ELSE Scheduled(o))
    /\ UNCHANGED <<log, stored, closing>>

\* The reader replays a frame.
Replayed(shown, frame) ==
    IF ~frame.exact \/ (frame.value.n = shown.n + 1 /\ frame.value.ver = shown.ver)
    THEN frame.value ELSE Broken

\* A watch takes the next frame and calls its listener, or comes to rest.
Deliver(o) ==
    IF o.end # "none" \/ o.pending = <<>> THEN [o EXCEPT !.running = FALSE]
    ELSE [o EXCEPT !.running = TRUE, !.pending = Tail(@),
                   !.shown = Replayed(@, Head(o.pending))]

\* The microtask of a watch.
WatchTurn(r) ==
    /\ r \in Watches /\ reader[r].scheduled
    /\ LET o == [reader[r] EXCEPT !.scheduled = FALSE] IN
       Sets(r, IF o.running THEN o ELSE Deliver(o))
    /\ UNCHANGED <<log, stored, closing>>

\* Mutant: what has come in meanwhile waits for the next commit.
Rest(o) == [o EXCEPT !.running = FALSE]

\* The drain goes on with what has come in meanwhile.
GoOn(o) == Deliver(o)

ListenerReturns(r) ==
    /\ r \in Watches /\ reader[r].running
    /\ Sets(r, IF reader[r].shown.gone
               THEN [Terminated(reader[r], "retired") EXCEPT !.running = FALSE]
               ELSE GoOn(reader[r]))
    /\ UNCHANGED <<log, stored, closing>>

ListenerThrows(r) ==
    /\ r \in Watches /\ reader[r].running
    /\ Sets(r, [Terminated(reader[r], "listener_error") EXCEPT !.running = FALSE])
    /\ UNCHANGED <<log, stored, closing>>

\* What frame k of what is pending comes after.
Before(o, k) == IF k = 1 THEN o.shown ELSE o.pending[k - 1].value

\* Chord takes the first k frames at once.  It would fail on a gap.
Taken(o, k) ==
    LET fits == \A i \in 1..k :
                    /\ o.pending[i].value.n = Before(o, i).n + 1
                    /\ Replayed(Before(o, i), o.pending[i]) # Broken
    IN  [o EXCEPT !.shown = IF fits THEN o.pending[k].value ELSE Broken, !.pending = <<>>]

\* The microtask of a state: all frames, unless the state is disposed of while they
\* are taken.
StateTurn(r) ==
    /\ r \in States /\ reader[r].scheduled
    /\ LET o == [reader[r] EXCEPT !.scheduled = FALSE] IN
       \/ Sets(r, Taken(o, Len(o.pending)))
       \/ \E k \in DOMAIN o.pending : Sets(r, Terminated(Taken(o, k), "stopped"))
    /\ UNCHANGED <<log, stored, closing>>

\* close() tells every reader before anything else.
CloseSession ==
    /\ ~closing /\ closing' = TRUE
    /\ reader' = [r \in Readers |-> IF reader[r].at = "none" THEN reader[r]
                                    ELSE Terminated(reader[r], "session_closed")]
    /\ UNCHANGED <<log, stored>>

------------------------------------------------------------------------------

Writers ==
    \/ \E v \in Versions : Change(v) \/ Upgrade(v) \/ Recreate(v)
    \/ Retire \/ CloseSession

Owners ==
    \E r \in Readers :
        \/ \E v \in Versions, owner \in {"there", "stopped"} : Attach(r, v, owner)
        \/ \E how \in {"stopped", "cancelled"} : OwnerLeaves(r, how)
        \/ Start(r)

Turn(r) == HandOver(r) \/ WatchTurn(r) \/ StateTurn(r)
Listener(r) == ListenerReturns(r) \/ ListenerThrows(r)

Next == Writers \/ Owners \/ \E r \in Readers : Turn(r) \/ Listener(r)

Spec == Init /\ [][Next]_vars

\* Microtasks run, and listeners return or throw in the end.
FairSpec == Spec /\ \A r \in Readers : WF_vars(Turn(r)) /\ WF_vars(Listener(r))

------------------------------------------------------------------------------
(* Properties *)

Stream == INSTANCE DocumentStream WITH
    Limit <- MaxPending,
    shown <- [r \in Readers |-> reader[r].shown],
    end <- [r \in Readers |-> reader[r].end]

\* Readers are shown the committed values of their incarnation, in order and each
\* from operations that fit the one before, whatever versions of the definition
\* write; they end once, for the first reason, and are shown nothing afterwards
\* (advance, #drain, #terminate, observedOperations).
ImplementsStream == Stream!Spec

\* A reader that has started is shown the latest value of its incarnation or has
\* ended, in the end, however slow its listener is (#schedule, #drain).
ReadersCatchUp ==
    \A r \in Readers :
        reader[r].started ~>
            \/ reader[r].end # "none"
            \/ reader[r].shown.n = Len(ValuesFor(r)) /\ ~reader[r].running

MustEnd(r) ==
    \/ reader[r].at # "none" /\ reader[r].owner # "there"
    \/ reader[r].started /\ Last(ValuesFor(r)).gone

\* A watch whose owner has gone ends, also when the owner goes while the watch is
\* being acquired; and so does every watch of a document that is retired, once it
\* is started (watchDoc, observeCancellation, #watchDoc).
WatchesEnd == \A r \in Watches : MustEnd(r) ~> reader[r].end # "none"
==============================================================================
