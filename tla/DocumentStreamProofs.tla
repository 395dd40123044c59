------------------------- MODULE DocumentStreamProofs -------------------------
(***************************************************************************)
(* What the contract of observation gives a reader, for any number of      *)
(* readers, versions and commits.  The invariant says which value of the   *)
(* log each reader has.                                                    *)
(***************************************************************************)
EXTENDS DocumentStream, TLAPS

Value == [ver : Versions, gone : BOOLEAN]

LogType ==
    /\ log \in Seq(Seq(Value)) /\ Len(log) > 0
    /\ \A i \in DOMAIN log : Len(log[i]) > 0

\* The value a reader has is one that was committed.
Has(r) ==
    /\ shown[r].inc \in DOMAIN log /\ shown[r].n \in DOMAIN log[shown[r].inc]
    /\ shown[r].gone = log[shown[r].inc][shown[r].n].gone

ReaderType ==
    /\ shown \in [Readers -> [inc : Nat, n : Nat, ver : Versions \cup {0}, gone : BOOLEAN]]
    /\ end \in [Readers -> Ends \cup {"none"}]

ReadersHave ==
    \A r \in Readers : /\ shown[r] # Absent => Has(r)
                       /\ end[r] # "none" => shown[r] # Absent

StreamInv == LogType /\ ReaderType /\ ReadersHave

\* A reader that has ended is shown nothing more, and its end does not change.
NothingAfterEnd ==
    \A r \in Readers : end[r] # "none" => shown'[r] = shown[r] /\ end'[r] = end[r]

\* A reader stays with its incarnation and is not taken back.
ShownMovesOn ==
    \A r \in Readers : shown[r] # Absent =>
        shown'[r].inc = shown[r].inc /\ shown'[r].n >= shown[r].n

------------------------------------------------------------------------------

\* A sequence of one element.
LEMMA Single ==
  ASSUME NEW S, NEW x \in S
  PROVE  <<x>> \in Seq(S) /\ Len(<<x>>) > 0
  OBVIOUS

\* A sequence that grows keeps what it had.
LEMMA Grows ==
  ASSUME NEW S, NEW q \in Seq(S), NEW x \in S
  PROVE  /\ Append(q, x) \in Seq(S) /\ Len(Append(q, x)) > 0
         /\ DOMAIN q \subseteq DOMAIN Append(q, x)
         /\ \A i \in DOMAIN Append(q, x) : i \notin DOMAIN q => Append(q, x)[i] = x
         /\ \A i \in DOMAIN q : Append(q, x)[i] = q[i]
  OBVIOUS

\* One of its elements may be exchanged.
LEMMA Exchanged ==
  ASSUME NEW S, NEW q \in Seq(S), Len(q) > 0, NEW k \in DOMAIN q, NEW x \in S
  PROVE  LET p == [q EXCEPT ![k] = x] IN
         /\ p \in Seq(S) /\ Len(p) > 0 /\ DOMAIN p = DOMAIN q /\ p[k] = x
         /\ \A i \in DOMAIN q : i # k => p[i] = q[i]
  OBVIOUS

\* At the start there is one incarnation with one value, and nobody reads it.
LEMMA StreamInit == Init => StreamInv
<1> SUFFICES ASSUME Init PROVE StreamInv
  OBVIOUS
<1>1. LogType
  <2> PICK v \in Versions : log = <<<<[ver |-> v, gone |-> FALSE]>>>>
    BY DEF Init
  <2> DEFINE value == [ver |-> v, gone |-> FALSE]
             first == <<value>>
  <2>1. value \in Value
    BY DEF Value
  <2> HIDE DEF value
  <2>2. first \in Seq(Value) /\ Len(first) > 0
    BY <2>1
  <2>3. log = <<first>>
    BY DEF first, value
  <2> HIDE DEF first
  <2>4. log \in Seq(Seq(Value)) /\ Len(log) > 0
    BY <2>2, <2>3, Single
  <2>5. ASSUME NEW i \in DOMAIN log PROVE Len(log[i]) > 0
    <3>1. i = 1
      BY <2>3
    <3>2. log[1] = first
      BY <2>3
    <3> QED BY <2>2, <3>1, <3>2
  <2> QED BY <2>4, <2>5 DEF LogType
<1>2. ReaderType /\ ReadersHave
  BY DEF Init, ReaderType, ReadersHave, Absent
<1> QED BY <1>1, <1>2 DEF StreamInv

\* Commits add values and leave the others as they are.
LEMMA CommitKeeps ==
  ASSUME StreamInv, Committed, UNCHANGED <<shown, end>>
  PROVE  StreamInv'
<1> PICK v \in Versions, gone \in BOOLEAN :
      log' = IF Retired THEN Append(log, <<[ver |-> v, gone |-> FALSE]>>)
             ELSE [log EXCEPT ![Len(log)] = Append(@, [ver |-> v, gone |-> gone])]
  BY DEF Committed
<1> DEFINE value == [ver |-> v, gone |-> gone]
           new == Append(log[Len(log)], value)
           fresh == [ver |-> v, gone |-> FALSE]
           first == <<fresh>>
<1>1. /\ log \in Seq(Seq(Value)) /\ Len(log) \in DOMAIN log
      /\ log[Len(log)] \in Seq(Value) /\ new \in Seq(Value) /\ Len(new) > 0
      /\ first \in Seq(Value) /\ Len(first) > 0
  <2>1. log \in Seq(Seq(Value)) /\ Len(log) \in DOMAIN log /\ log[Len(log)] \in Seq(Value)
    BY DEF StreamInv, LogType
  <2>2. value \in Value /\ fresh \in Value
    BY DEF Value
  <2> HIDE DEF value, fresh
  <2> QED BY <2>1, <2>2, Grows, Single
<1>2. LogType' /\ DOMAIN log \subseteq DOMAIN log'
  <2> HIDE DEF new, first
  <2>1. CASE Retired
    <3>1. log' = Append(log, first)
      BY <2>1 DEF first
    <3>2. log' \in Seq(Seq(Value)) /\ Len(log') > 0 /\ DOMAIN log \subseteq DOMAIN log'
      BY <1>1, <3>1, Grows
    <3>3. /\ \A i \in DOMAIN log : Append(log, first)[i] = log[i]
          /\ \A i \in DOMAIN Append(log, first) :
               i \notin DOMAIN log => Append(log, first)[i] = first
      <4>1. log \in Seq(Seq(Value)) /\ first \in Seq(Value)
        BY <1>1
      <4> QED BY <4>1, Grows, Zenon
    <3>4. ASSUME NEW i \in DOMAIN log' PROVE Len(log'[i]) > 0
      <4>1. CASE i \in DOMAIN log
        <5>1. log'[i] = log[i]
          BY <3>1, <3>3, <4>1, Zenon
        <5> QED BY <4>1, <5>1 DEF StreamInv, LogType
      <4>2. CASE i \notin DOMAIN log
        <5>1. log'[i] = first
          BY <3>1, <3>3, <4>2, Zenon
        <5> QED BY <1>1, <5>1
      <4> QED BY <4>1, <4>2
    <3> QED BY <3>2, <3>4 DEF LogType
  <2>2. CASE ~Retired
    <3>1. log' = [log EXCEPT ![Len(log)] = new]
      BY <2>2 DEF new
    <3>2. log' \in Seq(Seq(Value)) /\ Len(log') > 0 /\ DOMAIN log' = DOMAIN log
      BY <1>1, <3>1, Exchanged DEF StreamInv, LogType
    <3>3. \A i \in DOMAIN log' : log'[i] = IF i = Len(log) THEN new ELSE log[i]
      BY <1>1, <3>1, <3>2
    <3> QED BY <1>1, <3>2, <3>3 DEF StreamInv, LogType
  <2> QED BY <2>1, <2>2
<1>3. \A i \in DOMAIN log : \A n \in DOMAIN log[i] :
        n \in DOMAIN log'[i] /\ log'[i][n] = log[i][n]
  <2>1. CASE Retired
    BY <1>1, <2>1
  <2>2. CASE ~Retired
    <3>1. /\ \A i \in DOMAIN log : i # Len(log) => log'[i] = log[i]
          /\ log'[Len(log)] = new
      BY <1>1, <2>2
    <3>2. \A n \in DOMAIN log[Len(log)] : n \in DOMAIN new /\ new[n] = log[Len(log)][n]
      BY <1>1
    <3> HIDE DEF new
    <3> QED BY <3>1, <3>2
  <2> QED BY <2>1, <2>2
<1>4. ReaderType' /\ ReadersHave'
  BY <1>2, <1>3 DEF StreamInv, ReaderType, ReadersHave, Has
<1> QED BY <1>2, <1>4 DEF StreamInv

\* A new reader has the latest value.
LEMMA OpenedKeeps ==
  ASSUME StreamInv, NEW r \in Readers, Opened(r), UNCHANGED <<log, end>>
  PROVE  StreamInv'
<1> PICK v \in Versions :
      shown' = [shown EXCEPT ![r] = [inc |-> Len(log), n |-> Len(Latest),
                                     ver |-> v, gone |-> FALSE]]
  BY DEF Opened
<1>1. /\ Len(log) \in DOMAIN log /\ Latest = log[Len(log)] /\ Latest \in Seq(Value)
      /\ Len(Latest) \in DOMAIN Latest /\ Latest[Len(Latest)] \in Value
  BY DEF StreamInv, LogType, Latest, Last
<1>2. Latest[Len(Latest)].gone = FALSE /\ Len(log) # 0
  BY <1>1 DEF Opened, Retired, Last, Value
<1>3. LogType'
  BY DEF StreamInv, LogType
<1>4. ReaderType'
  BY <1>1 DEF StreamInv, ReaderType, LogType
<1>5. ReadersHave'
  BY <1>1, <1>2 DEF StreamInv, ReaderType, ReadersHave, Has, Absent
<1> QED BY <1>3, <1>4, <1>5 DEF StreamInv

\* A reader is shown a value of the log.
LEMMA ShownKeeps ==
  ASSUME StreamInv, NEW r \in Readers, Shown(r), UNCHANGED log
  PROVE  StreamInv'
<1> PICK n \in shown[r].n + 1 .. Len(log[shown[r].inc]) :
      shown' = [shown EXCEPT ![r] = [@ EXCEPT !.n = n, !.ver = log[shown[r].inc][n].ver,
                                             !.gone = log[shown[r].inc][n].gone]]
  BY DEF Shown
<1> DEFINE value == log[shown[r].inc][n]
           next == [shown[r] EXCEPT !.n = n, !.ver = value.ver, !.gone = value.gone]
<1>1. /\ shown[r].inc \in DOMAIN log /\ shown[r].n \in Nat
      /\ log[shown[r].inc] \in Seq(Value) /\ end[r] = "none"
  BY DEF StreamInv, LogType, ReaderType, ReadersHave, Has, Shown, Open
<1>2. n \in DOMAIN log[shown[r].inc] /\ value \in Value /\ n > 0 /\ n \in Nat
  BY <1>1
<1>3. /\ next \in [inc : Nat, n : Nat, ver : Versions \cup {0}, gone : BOOLEAN]
      /\ next.n = n /\ next.inc = shown[r].inc /\ next.gone = value.gone
  <2>1. shown[r] \in [inc : Nat, n : Nat, ver : Versions \cup {0}, gone : BOOLEAN]
    BY DEF StreamInv, ReaderType
  <2>2. value.ver \in Versions /\ value.gone \in BOOLEAN
    BY <1>2 DEF Value
  <2> HIDE DEF value
  <2> QED BY <1>2, <2>1, <2>2
<1>4. shown' = [shown EXCEPT ![r] = next]
  OBVIOUS
<1> HIDE DEF next
<1>5. next # Absent
  BY <1>2, <1>3 DEF Absent
<1>6. end' \in {end, [end EXCEPT ![r] = "stopped"]}
  BY DEF Shown
<1>7. LogType' /\ ReaderType'
  <2>1. LogType'
    BY DEF StreamInv, LogType
  <2>2. shown' \in [Readers -> [inc : Nat, n : Nat, ver : Versions \cup {0}, gone : BOOLEAN]]
    BY <1>3, <1>4 DEF StreamInv, ReaderType
  <2>3. end' \in [Readers -> Ends \cup {"none"}]
    BY <1>6 DEF StreamInv, ReaderType, Ends
  <2> QED BY <2>1, <2>2, <2>3 DEF ReaderType
<1>8. ReadersHave'
  BY <1>1, <1>2, <1>3, <1>4, <1>5, <1>6 DEF StreamInv, ReaderType, ReadersHave, Has
<1> QED BY <1>7, <1>8 DEF StreamInv

\* Only readers that have a value end.
LEMMA EndKeeps ==
  ASSUME StreamInv, UNCHANGED <<log, shown>>, Closed \/ \E r \in Readers : Ended(r)
  PROVE  StreamInv'
<1>1. LogType'
  BY DEF StreamInv, LogType
<1>2. ReaderType' /\ ReadersHave'
  BY DEF StreamInv, ReaderType, ReadersHave, Has, Closed, Ended, Open, Ends
<1> QED BY <1>1, <1>2 DEF StreamInv

\* Every step of the contract keeps the invariant.
LEMMA StreamNext == StreamInv /\ [Next]_streamVars => StreamInv'
<1> SUFFICES ASSUME StreamInv, [Next]_streamVars PROVE StreamInv'
  OBVIOUS
<1>1. CASE UNCHANGED streamVars
  BY <1>1 DEF streamVars, StreamInv, LogType, ReaderType, ReadersHave, Has
<1>2. CASE Next
  BY <1>2, CommitKeeps, OpenedKeeps, ShownKeeps, EndKeeps DEF Next
<1> QED BY <1>1, <1>2

\* No step shows a reader that has ended anything, or takes a reader back.
LEMMA StepMovesOn ==
  ASSUME StreamInv, [Next]_streamVars
  PROVE  NothingAfterEnd /\ ShownMovesOn
<1>0. /\ shown \in [Readers -> [inc : Nat, n : Nat, ver : Versions \cup {0}, gone : BOOLEAN]]
      /\ end \in [Readers -> Ends \cup {"none"}]
  BY DEF StreamInv, ReaderType
<1>1. CASE UNCHANGED <<shown, end>>
  BY <1>0, <1>1 DEF NothingAfterEnd, ShownMovesOn
<1>2. CASE Closed /\ UNCHANGED <<log, shown>>
  BY <1>0, <1>2 DEF NothingAfterEnd, ShownMovesOn, Closed, Open
<1>3. ASSUME NEW r \in Readers, Opened(r), UNCHANGED <<log, end>>
      PROVE  NothingAfterEnd /\ ShownMovesOn
  BY <1>0, <1>3 DEF StreamInv, ReadersHave, NothingAfterEnd, ShownMovesOn, Opened
<1>4. ASSUME NEW r \in Readers, Shown(r), UNCHANGED log
      PROVE  NothingAfterEnd /\ ShownMovesOn
  BY <1>0, <1>4 DEF NothingAfterEnd, ShownMovesOn, Shown, Open
<1>5. ASSUME NEW r \in Readers, Ended(r), UNCHANGED <<log, shown>>
      PROVE  NothingAfterEnd /\ ShownMovesOn
  BY <1>0, <1>5 DEF NothingAfterEnd, ShownMovesOn, Ended, Open
<1> QED BY <1>1, <1>2, <1>3, <1>4, <1>5 DEF Next, streamVars

\* Readers are shown committed values only: the n-th of their incarnation
\* (DocumentObserver).
THEOREM OnlyCommitted == Spec => []ReadersHave
<1>1. StreamInv => ReadersHave
  BY DEF StreamInv
<1> QED BY <1>1, StreamInit, StreamNext, PTL DEF Spec

\* A reader that has stopped, was cancelled, failed, retired or outlived its Session
\* is shown nothing more, and is told one end (WatchHandle.stop, closed).
THEOREM EndsAreFinal == Spec => [][NothingAfterEnd]_streamVars
<1>1. StreamInv /\ [Next]_streamVars => [NothingAfterEnd]_streamVars
  BY StepMovesOn
<1> QED BY <1>1, StreamInit, StreamNext, PTL DEF Spec

\* A reader is bound to one incarnation and moves forward in it (DocumentState,
\* DocumentWatch).
THEOREM OneIncarnation == Spec => [][ShownMovesOn]_streamVars
<1>1. StreamInv /\ [Next]_streamVars => [ShownMovesOn]_streamVars
  BY StepMovesOn
<1> QED BY <1>1, StreamInit, StreamNext, PTL DEF Spec
===============================================================================
