------------------------- MODULE TaskLifecycleProofs -------------------------
(* Proofs about TaskLifecycle, for every value of its constants. *)
EXTENDS TaskLifecycle, TLAPS

\* The forms of a record.
LEMMA LiveRecords ==
    ASSUME NEW r \in Record
    PROVE  IsLive(r) <=> r \in LiveRecord
BY DEF IsLive, Record, LiveRecord, TerminalRecord, Absent

\* Every record has a version, the absent one too.
LEMMA RecordVersions ==
    ASSUME NEW r \in Record
    PROVE  r.ver \in Nat
<1>1. CASE r = Absent
  BY <1>1 DEF Absent
<1>2. CASE r \in LiveRecord
  <2>. r.ver \in Versions
    BY <1>2 DEF LiveRecord
  <2>. QED  BY RecordAssumption
<1>3. CASE r \in TerminalRecord
  <2>. r.ver \in Versions
    BY <1>3 DEF TerminalRecord
  <2>. QED  BY RecordAssumption
<1>. QED  BY <1>1, <1>2, <1>3 DEF Record

\* Task records always have their type.
LEMMA LifecycleType == Spec => []TypeOK
<1>1. Init => TypeOK
  BY DEF Init, TypeOK, Record
<1>2. TypeOK /\ [Next]_rec => TypeOK'
  BY DEF TypeOK, Next
<1>. QED  BY <1>1, <1>2, PTL DEF Spec

\* A terminal record admits no change.
LEMMA TerminalAdmitsNothing ==
    ASSUME NEW t \in Tasks, NEW r \in Record, NEW q, r.st = "terminal",
           Change(t, r, q)
    PROVE  FALSE
BY DEF Change, Created, Reserved, GivenBack, Advanced, Memoised, AbortMarked,
       Terminated, IsLive, Absent

\* A terminal record is a permanent receipt.
THEOREM TerminalReceipts == Spec => TerminalIsFinal
<1>1. TypeOK /\ [Next]_rec =>
        [\A t \in Tasks : rec[t].st = "terminal" => rec'[t] = rec[t]]_rec
  BY TerminalAdmitsNothing DEF TypeOK, Next
<1>. QED  BY <1>1, LifecycleType, PTL DEF Spec, TerminalIsFinal

\* No change drops the mark, the record or the version it has reached.
LEMMA ChangeGrows ==
    ASSUME NEW t \in Tasks, NEW r \in Record, NEW q \in Record, Change(t, r, q)
    PROVE  /\ r.mark => q.mark
           /\ r # Absent => q # Absent
           /\ q.ver >= r.ver
<1>. r.ver \in Nat /\ q.ver \in Nat
  BY RecordVersions
<1>1. CASE Created(r, q)
  BY <1>1 DEF Created, NewRecord, Absent
<1>2. CASE Reserved(t, r, q)
  BY <1>2 DEF Reserved, LiveRecord, Absent
<1>3. CASE GivenBack(r, q) \/ Advanced(r, q) \/ Memoised(r, q) \/ AbortMarked(r, q)
  <2>. r \in LiveRecord
    BY <1>3, LiveRecords DEF GivenBack, Advanced, Memoised, AbortMarked, IsLive
  <2>. QED  BY <1>3 DEF GivenBack, Advanced, Memoised, AbortMarked, LiveRecord, Absent
<1>4. CASE Terminated(r, q)
  <2>1. PICK author \in Authors \ {"none"} : q = Settled(r, author)
    BY <1>4 DEF Terminated
  <2>2. r \in LiveRecord
    BY <1>4, LiveRecords DEF Terminated
  <2>3. q.st = "terminal" /\ q.mark = r.mark /\ q.ver = r.ver
    BY <2>1, <2>2 DEF Settled, LiveRecord
  <2>. QED  BY <2>3 DEF Absent
<1>. QED  BY <1>1, <1>2, <1>3, <1>4 DEF Change

\* An abort mark and a version, once committed, are never lost.
THEOREM MarksAndVersionsGrow == Spec => MarkAndVersionGrow
<1>1. TypeOK /\ TypeOK' /\ [Next]_rec =>
        [\A t \in Tasks : /\ rec[t].mark => rec'[t].mark
                          /\ rec[t] # Absent => rec'[t] # Absent
                          /\ rec'[t].ver >= rec[t].ver]_rec
  <2>. SUFFICES ASSUME TypeOK, TypeOK', Next, NEW t \in Tasks
                PROVE  /\ rec[t].mark => rec'[t].mark
                       /\ rec[t] # Absent => rec'[t] # Absent
                       /\ rec'[t].ver >= rec[t].ver
    OBVIOUS
  <2>1. rec[t] \in Record /\ rec'[t] \in Record
    BY DEF TypeOK
  <2>2. CASE rec'[t] = rec[t]
    <3>. rec[t].ver \in Nat
      BY <2>1, RecordVersions
    <3>. QED  BY <2>2
  <2>3. CASE Change(t, rec[t], rec'[t])
    BY <2>1, <2>3, ChangeGrows
  <2>. QED  BY <2>2, <2>3 DEF Next
<1>. QED  BY <1>1, LifecycleType, PTL DEF Spec, MarkAndVersionGrow
==============================================================================
