---------------------------- MODULE DocumentStream ----------------------------
(***************************************************************************)
(* What observation promises the readers of one document (DocumentState,   *)
(* WatchHandle and DocumentObserver in packages/durable/src/types.ts): a   *)
(* reader starts at a committed value of one incarnation and is shown the  *)
(* values committed to it later, in order.  A state is shown each of them; *)
(* a watch may be moved on over more than `Limit` at once.  A reader that  *)
(* has ended is shown nothing more, and ends once.                         *)
(***************************************************************************)
EXTENDS Naturals, Sequences, SequencesExt

CONSTANTS
    States, Watches,  \* the readers
    Versions,         \* versions of the definition
    Limit             \* frames a watch retains

VARIABLES
    log,     \* per incarnation, the values published so far
    shown,   \* per reader: the value it has, and of which incarnation
    end      \* how each reader has ended

streamVars == <<log, shown, end>>

Readers == States \cup Watches
Absent == [inc |-> 0, n |-> 0, ver |-> 0, gone |-> FALSE]
Ends == {"stopped", "cancelled", "session_closed", "retired", "listener_error"}

Init ==
    /\ log \in {<<<<[ver |-> v, gone |-> FALSE]>>>> : v \in Versions}
    /\ shown = [r \in Readers |-> Absent] /\ end = [r \in Readers |-> "none"]

Latest == Last(log)
Retired == Last(Latest).gone

\* A commit changes the document, retires it, or creates it anew.
Committed ==
    \E v \in Versions, gone \in BOOLEAN :
        log' = IF Retired THEN Append(log, <<[ver |-> v, gone |-> FALSE]>>)
               ELSE [log EXCEPT ![Len(log)] = Append(@, [ver |-> v, gone |-> gone])]

\* A reader is given the latest value, in the version it asks for.
Opened(r) ==
    /\ shown[r] = Absent /\ ~Retired
    /\ \E v \in Versions :
          shown' = [shown EXCEPT ![r] = [inc |-> Len(log), n |-> Len(Latest),
                                         ver |-> v, gone |-> FALSE]]

Open(r) == shown[r] # Absent /\ end[r] = "none"

\* A reader is shown a later value; it may leave on what it sees.
Shown(r) ==
    /\ Open(r)
    /\ \E n \in shown[r].n + 1 .. Len(log[shown[r].inc]) :
          /\ r \in Watches => n = shown[r].n + 1 \/ n > shown[r].n + Limit
          /\ shown' = [shown EXCEPT ![r] = [@ EXCEPT !.n = n, !.ver = log[shown[r].inc][n].ver,
                                                    !.gone = log[shown[r].inc][n].gone]]
    /\ end' \in {end, [end EXCEPT ![r] = "stopped"]}

Ended(r) ==
    /\ Open(r)
    /\ \E reason \in Ends :
          /\ reason = "retired" => shown[r].gone
          /\ end' = [end EXCEPT ![r] = reason]

\* The Session closes: every reader ends.
Closed ==
    end' = [r \in Readers |-> IF Open(r) THEN "session_closed" ELSE end[r]]

Next ==
    \/ Committed /\ UNCHANGED <<shown, end>>
    \/ Closed /\ UNCHANGED <<log, shown>>
    \/ \E r \in Readers :
          \/ Opened(r) /\ UNCHANGED <<log, end>>
          \/ Shown(r) /\ UNCHANGED log
          \/ Ended(r) /\ UNCHANGED <<log, shown>>

Spec == Init /\ [][Next]_streamVars
===============================================================================
