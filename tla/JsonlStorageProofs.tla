------------------------- MODULE JsonlStorageProofs -------------------------
(***************************************************************************)
(* JsonlStorage implements AtomicStorage, for any objects, numbers of      *)
(* commits and failures.  Value is what a log says of an object, told      *)
(* batch by batch or as a whole.  StorageInv says that the markers of      *)
(* every version of the main file are a prefix of the log, that every      *)
(* version of a sidecar is sound for each of these prefixes, and how far   *)
(* what is under way has come.  So whatever a failure leaves is in order   *)
(* and complete, and replaying the markers gives what was committed.       *)
(* LeanInv adds that what is under way leaves nothing superfluous.         *)
(***************************************************************************)
EXTENDS JsonlStorage, SequenceTheorems, WellFoundedInduction, TLAPS

Ops == {"live", "terminal", "create", "change", "retire"}
Kinds == {"task", "base", "delta", "none"}
Write == [op : Ops, kind : Kinds, att : Nat]
Rec == [seq : Nat, ord : Nat, kind : Kinds, att : Nat]
Decoded == [st : {"none", "live", "terminal", "retired"},
            revs : SUBSET [seq : Nat, kind : Kinds, att : Nat]]
Batch == [Objects -> Seq(Write)]
Plans == UNION {[D -> Seq(Rec)] : D \in SUBSET Objects}

Writing == job.at \in {"append", "flush", "marker"}
Reclaiming == job.at \in {"authorize", "reclaim"}

Phases == {"idle", "append", "flush", "marker", "authorize", "reclaim", "down", "opening",
           "replay", "truncate", "corrupt"}

TypeOK ==
    /\ job \in [at : Phases, writes : Batch, todo : SUBSET Objects, plan : Plans, pos : Nat]
    /\ attempts \in Nat
    /\ setting \in Settings /\ budget \in [Failures -> Nat]

\* What may be in one batch about o.
Shaped(o, w) ==
    /\ o \in Tasks => \A k \in DOMAIN w :
          /\ w[k].op \in {"live", "terminal"} /\ w[k].kind = "task"
          /\ w[k].op = "terminal" => Len(w) = 1
    /\ o \notin Tasks => \A k \in DOMAIN w :
          /\ \/ w[k].op = "create" /\ w[k].kind = "base" /\ k = 1
             \/ w[k].op = "change" /\ w[k].kind \in {"base", "delta"} /\ k = 1
             \/ w[k].op = "retire" /\ w[k].kind = "none" /\ k = Len(w)

\* What ends o is the last that a log says of it, what creates a document the first.
Orderly(L, o) ==
    /\ \A i \in DOMAIN L : Shaped(o, L[i][o])
    /\ \A i \in DOMAIN L : \A k \in DOMAIN L[i][o] :
          /\ L[i][o][k].op \in {"terminal", "retire"} =>
                \A j \in DOMAIN L : j > i => L[j][o] = <<>>
          /\ L[i][o][k].op = "create" => \A j \in 1 .. i - 1 : L[j][o] = <<>>
          /\ o \notin Tasks /\ k = 1 /\ L[i][o][k].op # "create" =>
                \E j \in 1 .. i - 1 : L[j][o] # <<>>

LogOK(L) == L \in Seq(Batch) /\ \A o \in Objects : Orderly(L, o)

------------------------------------------------------------------------------
(* What the first n batches of a log say *)

Said(L, n, o, op) == \E i \in 1 .. n : \E k \in DOMAIN L[i][o] : L[i][o][k].op = op

StateOf(L, n, o) ==
    IF \A i \in 1 .. n : L[i][o] = <<>> THEN "none"
    ELSE IF Said(L, n, o, "terminal") THEN "terminal"
    ELSE IF Said(L, n, o, "retire") THEN "retired" ELSE "live"

Replaces(o, w) == o \in Tasks \/ (o \in Latest /\ (w.kind = "base" \/ w.op = "retire"))

Kept(L, n, o, i, k) ==
    /\ L[i][o][k].op # "retire"
    /\ \A j \in 1 .. n : \A l \in DOMAIN L[j][o] :
          Follows(i, k, j, l) => ~Replaces(o, L[j][o][l])

RevisionAt(L, o, i, k) == [seq |-> i, kind |-> L[i][o][k].kind, att |-> L[i][o][k].att]

RevsOf(L, n, o) ==
    UNION {{RevisionAt(L, o, i, k) : k \in {x \in DOMAIN L[i][o] : Kept(L, n, o, i, x)}} :
              i \in 1 .. n}

Value(L, n, o) == [st |-> StateOf(L, n, o), revs |-> RevsOf(L, n, o)]

------------------------------------------------------------------------------
(* Sidecars *)

\* Record r is one that the first n batches of L have put into the sidecar of o.
NamedBy(L, n, o, r) ==
    /\ r.seq \in 1 .. n /\ r.ord \in DOMAIN L[r.seq][o]
    /\ L[r.seq][o][r.ord].op \in InSidecar

AllNamed(L, n, o, c) == \A j \in DOMAIN c : NamedBy(L, n, o, c[j])

Holds(c, i, k) == \E j \in DOMAIN c : c[j].seq = i /\ c[j].ord = k

\* Nobody needs the record of write k of batch i any more.
Superfluous(L, n, o, c, i, k) ==
    \/ o \in Tasks /\ Said(L, n, o, "terminal")
    \/ o \in Latest /\ Said(L, n, o, "retire")
    \/ /\ o \in Latest
       /\ \E j \in DOMAIN c : c[j].kind = "base" /\ NamedBy(L, n, o, c[j]) /\ Earlier(i, k, c[j])

\* The lines c are in order; those that the first n batches name are as they
\* were written and come first; and every one that is needed is among them.
Sound(L, n, o, c) ==
    /\ c \in Seq(Rec)
    /\ \A i, j \in DOMAIN c : i < j => Earlier(c[i].seq, c[i].ord, c[j])
    /\ \A j \in DOMAIN c : NamedBy(L, n, o, c[j]) =>
          c[j] = Record(c[j].seq, c[j].ord, L[c[j].seq][o][c[j].ord])
    /\ \A i, j \in DOMAIN c : i < j /\ NamedBy(L, n, o, c[j]) => NamedBy(L, n, o, c[i])
    /\ \A i \in 1 .. n : \A k \in DOMAIN L[i][o] :
          L[i][o][k].op \in InSidecar => Holds(c, i, k) \/ Superfluous(L, n, o, c, i, k)

------------------------------------------------------------------------------
(* The invariant *)

Versions(f) == {disk[f]} \cup risk[f]

MarkersOf(L, n) == [i \in 1 .. n |-> Marker(L[i], i)]

\* How many markers a version of the main file holds.
Lengths == {Len(m.lines) : m \in Versions(Main)}

BudgetOK == \A k \in Failures : budget[k] <= setting.failures[k]

\* Nothing is at risk unless the power may fail.
RiskOK ==
    /\ DOMAIN disk = Files /\ DOMAIN risk = Files
    /\ budget["power"] = 0 => \A f \in Files : risk[f] = {}

MainOK ==
    /\ disk[Main].lines = MarkersOf(log, Len(log))
    /\ \A m \in risk[Main] : \E n \in 0 .. Len(log) : m.lines = MarkersOf(log, n)

SidecarsOK ==
    \A o \in Objects : \A c \in Versions(o) : \A n \in Lengths : Sound(log, n, o, c.lines)

FilesOK == RiskOK /\ MainOK /\ SidecarsOK

\* Nothing is appended to a torn line.
WholeLines == job.at \notin {"down", "opening"} => \A f \in Files : ~disk[f].torn

\* What a later marker makes superfluous is not what it was when it is replayed.
Awaits(o, p) ==
    \/ o \in Tasks /\ \E i \in p + 1 .. Len(log) : \E k \in DOMAIN log[i][o] : log[i][o][k].op = "terminal"
    \/ o \in Latest /\ \E i \in p + 1 .. Len(log) : \E k \in DOMAIN log[i][o] : log[i][o][k].op = "retire"
    \/ o \in Latest /\ \E j \in ConfirmedBases(o) : Lines(o)[j].seq > p

Replayed(o, p) ==
    IF Awaits(o, p) THEN o \in Latest => mem.obj[o].st = StateOf(log, p, o)
    ELSE mem.obj[o] = Value(log, p, o)

MemOK ==
    /\ Serving \/ job.at = "truncate" =>
         mem = [next |-> Len(log) + 1, obj |-> [o \in Objects |-> Value(log, Len(log), o)]]
    /\ job.at = "replay" =>
         /\ job.pos <= Len(log)
         /\ mem = [next |-> job.pos + 1, obj |-> [o \in Objects |-> mem.obj[o]]]
         /\ \A o \in Objects : Replayed(o, job.pos)
    /\ Serving \/ job.at \in {"replay", "truncate"} =>
         \A o \in Objects \ Tasks : mem.obj[o].st = "live" => mem.obj[o].revs # {}

Ready(L, o, c) == Sound(L, Len(L), o, c) /\ AllNamed(L, Len(L), o, c)

\* The sidecars of a batch that is on its way into the files.
WritingOK ==
    LET next == Append(log, job.writes) IN
    Writing =>
        /\ LogOK(next)
        /\ \A o \in DOMAIN job.plan : Ready(next, o, job.plan[o])
        /\ job.todo \subseteq Touched(job.writes, Len(log) + 1)
        /\ \A o \in Objects :
             IF job.at = "append" /\ o \in job.todo
             THEN AllNamed(log, Len(log), o, disk[o].lines)
             ELSE Ready(next, o, disk[o].lines)
        /\ \A o \in Touched(job.writes, Len(log) + 1) :
             job.at = "marker" \/ (job.at = "flush" /\ o \notin job.todo) => risk[o] = {}
        /\ job.at = "marker" => job.todo = {}

ReclaimingOK ==
    /\ Reclaiming =>
         /\ job.todo \subseteq DOMAIN job.plan
         /\ \A o \in job.todo : Ready(log, o, job.plan[o])
    /\ job.at = "reclaim" => risk[Main] = {}
    /\ job.at = "idle" \/ Reclaiming =>
         \A o \in Objects : AllNamed(log, Len(log), o, disk[o].lines)

OpeningOK ==
    /\ job.at = "opening" => job.pos = 0
    /\ job.at = "truncate" =>
         \A o \in Objects : o \notin job.todo <=> AllNamed(log, Len(log), o, disk[o].lines)

StorageInv ==
    /\ TypeOK /\ LogOK(log) /\ BudgetOK /\ FilesOK /\ WholeLines
    /\ MemOK /\ WritingOK /\ ReclaimingOK /\ OpeningOK
    /\ job.at # "corrupt"

------------------------------------------------------------------------------
(* Logs *)

\* A log with one batch more.
LEMMA LogGrows ==
    ASSUME NEW L \in Seq(Batch), NEW b \in Batch
    PROVE  /\ Append(L, b) \in Seq(Batch) /\ Len(Append(L, b)) = Len(L) + 1
           /\ \A i \in 1 .. Len(L) : Append(L, b)[i] = L[i]
           /\ Append(L, b)[Len(L) + 1] = b /\ Len(L) \in Nat
  BY AppendProperties

\* Each entry of a log is a sequence of writes per object.
LEMMA LogTypes ==
    ASSUME NEW L \in Seq(Batch), NEW o \in Objects, NEW i \in 1 .. Len(L)
    PROVE  /\ L[i] \in Batch /\ L[i][o] \in Seq(Write) /\ DOMAIN L[i][o] = 1 .. Len(L[i][o])
           /\ Len(L[i][o]) \in Nat
           /\ \A k \in DOMAIN L[i][o] : L[i][o][k] \in Write /\ k \in Nat
<1>1. L[i] \in Batch
  BY ElementOfSeq
<1>2. L[i][o] \in Seq(Write)
  BY <1>1 DEF Batch
<1>3. DOMAIN L[i][o] = 1 .. Len(L[i][o]) /\ Len(L[i][o]) \in Nat
  BY <1>2, LenProperties
<1>4. ASSUME NEW k \in DOMAIN L[i][o] PROVE L[i][o][k] \in Write /\ k \in Nat
  BY <1>2, <1>3, ElementOfSeq
<1>. QED
  BY <1>1, <1>2, <1>3, <1>4

\* What the first n batches say depends on them only.
LEMMA SameValue ==
    ASSUME NEW L, NEW M, NEW n, \A i \in 1 .. n : L[i] = M[i], NEW o
    PROVE  Value(L, n, o) = Value(M, n, o) /\ StateOf(L, n, o) = StateOf(M, n, o)
<1>1. StateOf(L, n, o) = StateOf(M, n, o)
  BY DEF StateOf, Said
<1>2. \A i \in 1 .. n : \A k \in DOMAIN L[i][o] : Kept(L, n, o, i, k) <=> Kept(M, n, o, i, k)
  BY DEF Kept
<1>3. RevsOf(L, n, o) = RevsOf(M, n, o)
  BY <1>2 DEF RevsOf, RevisionAt
<1>. QED
  BY <1>1, <1>3 DEF Value

\* Neither does it matter for a sidecar what follows them.
LEMMA SameSound ==
    ASSUME NEW L, NEW M, NEW n, \A i \in 1 .. n : L[i] = M[i], NEW o, NEW c, Sound(L, n, o, c)
    PROVE  Sound(M, n, o, c)
<1>1. \A r : NamedBy(L, n, o, r) <=> NamedBy(M, n, o, r)
  BY DEF NamedBy
<1>2. \A i, k : Superfluous(L, n, o, c, i, k) <=> Superfluous(M, n, o, c, i, k)
  BY <1>1 DEF Superfluous, Said
<1>3. \A j \in DOMAIN c : NamedBy(M, n, o, c[j]) =>
          c[j] = Record(c[j].seq, c[j].ord, M[c[j].seq][o][c[j].ord])
  BY <1>1 DEF Sound, NamedBy
<1>4. \A i \in 1 .. n : \A k \in DOMAIN M[i][o] :
          M[i][o][k].op \in InSidecar => Holds(c, i, k) \/ Superfluous(M, n, o, c, i, k)
  BY <1>2 DEF Sound
<1>. QED
  BY <1>1, <1>3, <1>4 DEF Sound

\* Nor what it names.
LEMMA SameNamed ==
    ASSUME NEW L, NEW M, NEW n, \A i \in 1 .. n : L[i] = M[i], NEW o, NEW c, AllNamed(L, n, o, c)
    PROVE  AllNamed(M, n, o, c)
  BY DEF AllNamed, NamedBy

\* A revision is there exactly if a write that is kept made it.
LEMMA RevsMembers ==
    ASSUME NEW L, NEW n, NEW o, NEW r
    PROVE  r \in RevsOf(L, n, o) <=>
             \E i \in 1 .. n : \E k \in DOMAIN L[i][o] :
                 Kept(L, n, o, i, k) /\ r = RevisionAt(L, o, i, k)
  BY DEF RevsOf

\* What a log says is of the type of the decoded state.
LEMMA ValueType ==
    ASSUME NEW L \in Seq(Batch), NEW n \in 0 .. Len(L), NEW o \in Objects
    PROVE  Value(L, n, o) \in Decoded
<1>1. StateOf(L, n, o) \in {"none", "live", "terminal", "retired"}
  BY DEF StateOf
<1>2. ASSUME NEW r \in RevsOf(L, n, o) PROVE r \in [seq : Nat, kind : Kinds, att : Nat]
  <2>1. PICK i \in 1 .. n : \E k \in DOMAIN L[i][o] : r = RevisionAt(L, o, i, k)
    BY <1>2, RevsMembers
  <2>2. i \in 1 .. Len(L) /\ i \in Nat
    BY LenProperties
  <2>. QED
    BY <2>1, <2>2, LogTypes DEF RevisionAt, Write
<1>. QED
  BY <1>1, <1>2 DEF Value, Decoded

------------------------------------------------------------------------------
(* One batch more *)

\* Sets with the same elements are equal.
LEMMA SameElements ==
    ASSUME NEW A, NEW B, \A x : x \in A <=> x \in B
    PROVE  A = B
  OBVIOUS

\* A log that goes on is in order in what it has so far.
LEMMA Shapes ==
    ASSUME NEW L, LogOK(L), NEW o \in Objects, NEW i \in 1 .. Len(L)
    PROVE  Shaped(o, L[i][o]) /\ L \in Seq(Batch) /\ Len(L) \in Nat /\ DOMAIN L = 1 .. Len(L)
<1>1. L \in Seq(Batch) /\ Len(L) \in Nat /\ DOMAIN L = 1 .. Len(L)
  BY LenProperties DEF LogOK
<1>. QED
  BY <1>1 DEF LogOK, Orderly

\* Of the batches before one that writes to o none ends o, and if it creates o none
\* writes to it.
LEMMA Precedes ==
    ASSUME NEW L, LogOK(L), NEW n \in Nat, n < Len(L), NEW o \in Objects, L[n + 1][o] # <<>>
    PROVE  /\ \A i \in 1 .. n : \A k \in DOMAIN L[i][o] : L[i][o][k].op \notin {"terminal", "retire"}
           /\ (\E k \in DOMAIN L[n + 1][o] : L[n + 1][o][k].op = "create") =>
                 \A i \in 1 .. n : L[i][o] = <<>>
<1>1. DOMAIN L = 1 .. Len(L) /\ Len(L) \in Nat
  BY LenProperties DEF LogOK
<1>2. n + 1 \in 1 .. Len(L) /\ \A i \in 1 .. n : i \in 1 .. Len(L) /\ n + 1 > i
  BY <1>1
<1>3. \A i \in 1 .. n : \A k \in DOMAIN L[i][o] : L[i][o][k].op \notin {"terminal", "retire"}
  BY <1>1, <1>2 DEF LogOK, Orderly
<1>4. (\E k \in DOMAIN L[n + 1][o] : L[n + 1][o][k].op = "create") =>
                 \A i \in 1 .. n : L[i][o] = <<>>
  BY <1>1, <1>2 DEF LogOK, Orderly
<1>. QED
  BY <1>3, <1>4

\* A batch that does not write to o says nothing of it.
LEMMA Untouched ==
    ASSUME NEW L, LogOK(L), NEW n \in Nat, n < Len(L), NEW o \in Objects,
           DOMAIN L[n + 1][o] = {}
    PROVE  Value(L, n + 1, o) = Value(L, n, o)
<1>1. L \in Seq(Batch) /\ n + 1 \in 1 .. Len(L) /\ 1 .. n + 1 = (1 .. n) \cup {n + 1}
  BY LenProperties DEF LogOK
<1>2. L[n + 1][o] = <<>>
  <2>1. L[n + 1][o] \in Seq(Write) /\ DOMAIN L[n + 1][o] = 1 .. Len(L[n + 1][o]) /\ Len(L[n + 1][o]) \in Nat
    BY <1>1, LogTypes
  <2>2. 1 \notin 1 .. Len(L[n + 1][o])
    BY <2>1
  <2>3. Len(L[n + 1][o]) = 0
    BY <2>1, <2>2
  <2>. QED
    BY <2>1, <2>3, EmptySeq
<1>3. StateOf(L, n + 1, o) = StateOf(L, n, o)
  <2>1. \A op : Said(L, n + 1, o, op) <=> Said(L, n, o, op)
    BY <1>1 DEF Said
  <2>2. (\A i \in 1 .. n + 1 : L[i][o] = <<>>) <=> (\A i \in 1 .. n : L[i][o] = <<>>)
    BY <1>1, <1>2
  <2>. QED
    BY <2>1, <2>2 DEF StateOf
<1>4. \A i, k : Kept(L, n + 1, o, i, k) <=> Kept(L, n, o, i, k)
  BY <1>1 DEF Kept
<1>5. \A r : r \in RevsOf(L, n + 1, o) <=> r \in RevsOf(L, n, o)
  BY <1>1, <1>4, RevsMembers
<1>6. RevsOf(L, n + 1, o) = RevsOf(L, n, o)
  BY <1>5, SameElements
<1>. QED
  BY <1>3, <1>6 DEF Value

\* Of a task the last write stays.
LEMMA TaskStep ==
    ASSUME NEW L, LogOK(L), NEW n \in Nat, n < Len(L), NEW o \in Tasks,
           DOMAIN L[n + 1][o] # {}
    PROVE  Value(L, n + 1, o) = AppliedToTask(Events(L[n + 1], o, n + 1))
<1>. DEFINE w == L[n + 1][o]
            e == Events(L[n + 1], o, n + 1)
            last == Len(w)
<1>o. o \in Objects
  BY DEF Objects
<1>1. L \in Seq(Batch) /\ n + 1 \in 1 .. Len(L) /\ 1 .. n + 1 = (1 .. n) \cup {n + 1}
  BY LenProperties DEF LogOK
<1>2. w \in Seq(Write) /\ DOMAIN w = 1 .. last /\ last \in Nat /\ last > 0
  BY <1>1, <1>o, LogTypes
<1>3. Shaped(o, w) /\ w # <<>>
  <2>1. Shaped(o, w)
    BY <1>1, <1>o, Shapes
  <2>. QED
    BY <2>1, <1>2, LenProperties
<1>4. \A k \in 1 .. last : w[k].op \in {"live", "terminal"} /\ (w[k].op = "terminal" => last = 1)
  BY <1>2, <1>3 DEF Shaped
<1>5. \A i \in 1 .. n : \A k \in DOMAIN L[i][o] : L[i][o][k].op \notin {"terminal", "retire"}
  BY <1>3, <1>o, Precedes
<1>6. DOMAIN e = 1 .. last /\ (CHOOSE k \in DOMAIN e : \A j \in DOMAIN e : j <= k) = last
  <2>1. DOMAIN e = 1 .. last
    BY <1>2 DEF Events
  <2>5. last \in Nat /\ last > 0
    BY <1>2
  <2>. HIDE DEF e, last
  <2>2. last \in DOMAIN e /\ \A j \in DOMAIN e : j <= last
    BY <2>5, <2>1
  <2>3. ASSUME NEW k \in DOMAIN e, \A j \in DOMAIN e : j <= k PROVE k = last
    <3>1. last <= k
      BY <2>2, <2>3
    <3>2. k \in 1 .. last
      BY <2>1
    <3>. QED
      BY <2>5, <3>1, <3>2
  <2>. DEFINE c == CHOOSE k \in DOMAIN e : \A j \in DOMAIN e : j <= k
  <2>4. c \in DOMAIN e /\ \A j \in DOMAIN e : j <= c
    BY <2>2
  <2>. QED
    BY <2>1, <2>3, <2>4
<1>7. e[last] = [op |-> w[last].op, kind |-> w[last].kind, seq |-> n + 1, att |-> w[last].att]
  BY <1>2 DEF Events
<1>10. e[last].op = w[last].op
  BY <1>7
<1>8. StateOf(L, n + 1, o) = IF w[last].op = "terminal" THEN "terminal" ELSE "live"
  <2>1. Said(L, n + 1, o, "terminal") <=> w[last].op = "terminal"
    BY <1>1, <1>2, <1>4, <1>5 DEF Said
  <2>2. ~Said(L, n + 1, o, "retire")
    BY <1>1, <1>2, <1>4, <1>5 DEF Said
  <2>3. ~ \A i \in 1 .. n + 1 : L[i][o] = <<>>
    BY <1>1, <1>3
  <2>. QED
    BY <2>1, <2>2, <2>3 DEF StateOf
<1>9. RevsOf(L, n + 1, o) = {Revision(e[last])}
  <2>1. Kept(L, n + 1, o, n + 1, last)
    BY <1>1, <1>2, <1>4 DEF Kept, Follows
  <2>2. ASSUME NEW i \in 1 .. n + 1, NEW k \in DOMAIN L[i][o], Kept(L, n + 1, o, i, k)
        PROVE  i = n + 1 /\ k = last
    <3>1. \A j \in 1 .. n + 1 : \A l \in DOMAIN L[j][o] : ~Follows(i, k, j, l)
      BY <2>2 DEF Kept, Replaces
    <3>2. ~Follows(i, k, n + 1, last) /\ i \in Nat /\ i <= n + 1
      BY <1>1, <1>2, <3>1
    <3>. QED
      BY <3>2, <1>2 DEF Follows
  <2>3. RevisionAt(L, o, n + 1, last) = Revision(e[last])
    BY <1>7 DEF RevisionAt, Revision
  <2>4. \A r : r \in RevsOf(L, n + 1, o) <=> r \in {Revision(e[last])}
    BY <1>1, <1>2, <2>1, <2>2, <2>3, RevsMembers
  <2>. QED
    BY <2>4, SameElements
<1>. HIDE DEF last
<1>. QED
  BY <1>6, <1>8, <1>9, <1>10 DEF Value, AppliedToTask

\* A document takes content and perhaps its retirement.
LEMMA DocumentStep ==
    ASSUME NEW L, LogOK(L), NEW n \in Nat, n < Len(L), NEW o \in Latest \cup Rewindable,
           DOMAIN L[n + 1][o] # {}
    PROVE  Value(L, n + 1, o) = AppliedToDocument(o, Value(L, n, o), Events(L[n + 1], o, n + 1))
<1>. DEFINE w == L[n + 1][o]
            e == Events(L[n + 1], o, n + 1)
            es == {e[k] : k \in DOMAIN e}
            content == {Revision(x) : x \in {y \in es : y.op # "retire"}}
            replaces == \E x \in es : x.op = "create" \/ (x.kind = "base" /\ o \in Latest)
            retires == \E x \in es : x.op = "retire"
<1>o. o \in Objects /\ o \notin Tasks
  BY JsonlAssumption DEF Objects
<1>1. L \in Seq(Batch) /\ n + 1 \in 1 .. Len(L) /\ 1 .. n + 1 = (1 .. n) \cup {n + 1}
  BY LenProperties DEF LogOK
<1>2. w \in Seq(Write) /\ DOMAIN w = 1 .. Len(w) /\ Len(w) \in Nat /\ Len(w) > 0
  BY <1>1, <1>o, LogTypes
<1>3. Shaped(o, w) /\ w # <<>>
  <2>1. Shaped(o, w)
    BY <1>1, <1>o, Shapes
  <2>. QED
    BY <2>1, <1>2, LenProperties
<1>4. \A k \in DOMAIN w :
          \/ w[k].op = "create" /\ w[k].kind = "base" /\ k = 1
          \/ w[k].op = "change" /\ w[k].kind \in {"base", "delta"} /\ k = 1
          \/ w[k].op = "retire" /\ w[k].kind = "none" /\ k = Len(w)
  BY <1>o, <1>3 DEF Shaped
<1>5. \A i \in 1 .. n : \A k \in DOMAIN L[i][o] : L[i][o][k].op \notin {"terminal", "retire"}
  BY <1>3, <1>o, Precedes
<1>6. DOMAIN e = DOMAIN w /\ \A k \in DOMAIN w :
        e[k] = [op |-> w[k].op, kind |-> w[k].kind, seq |-> n + 1, att |-> w[k].att]
  BY DEF Events
<1>7. \A x : x \in es <=> \E k \in DOMAIN w : x = e[k]
  BY <1>6
<1>. HIDE DEF e, es
<1>8. /\ retires <=> \E k \in DOMAIN w : w[k].op = "retire"
      /\ replaces <=> \E k \in DOMAIN w : w[k].op = "create" \/ (w[k].kind = "base" /\ o \in Latest)
      /\ \A r : r \in content <=> \E k \in DOMAIN w : w[k].op # "retire" /\ r = RevisionAt(L, o, n + 1, k)
  <2>1. \A k \in DOMAIN w : e[k].op = w[k].op /\ e[k].kind = w[k].kind
                                /\ Revision(e[k]) = RevisionAt(L, o, n + 1, k)
    <3>1. ASSUME NEW k \in DOMAIN w
          PROVE  e[k].op = w[k].op /\ e[k].kind = w[k].kind /\ e[k].seq = n + 1 /\ e[k].att = w[k].att
      <4>1. e[k] = [op |-> w[k].op, kind |-> w[k].kind, seq |-> n + 1, att |-> w[k].att]
        BY <1>6
      <4>. QED
        BY <4>1
    <3>. QED
      BY <3>1 DEF Revision, RevisionAt
  <2>2. retires <=> \E k \in DOMAIN w : w[k].op = "retire"
    BY <1>7, <2>1
  <2>3. replaces <=> \E k \in DOMAIN w : w[k].op = "create" \/ (w[k].kind = "base" /\ o \in Latest)
    BY <1>7, <2>1
  <2>4. \A r : r \in content <=> \E k \in DOMAIN w : w[k].op # "retire" /\ r = RevisionAt(L, o, n + 1, k)
    <3>1. \A r : r \in content <=> \E x \in es : x.op # "retire" /\ r = Revision(x)
      OBVIOUS
    <3>. HIDE DEF content
    <3>. QED
      BY <3>1, <1>7, <2>1
  <2>. QED
    BY <2>2, <2>3, <2>4
<1>. HIDE DEF content, replaces, retires
<1>9. StateOf(L, n + 1, o) = IF retires THEN "retired" ELSE "live"
  <2>1. Said(L, n + 1, o, "retire") <=> retires
    BY <1>1, <1>5, <1>8 DEF Said
  <2>2. ~Said(L, n + 1, o, "terminal")
    BY <1>1, <1>4, <1>5 DEF Said
  <2>3. ~ \A i \in 1 .. n + 1 : L[i][o] = <<>>
    BY <1>1, <1>3
  <2>. QED
    BY <2>1, <2>2, <2>3 DEF StateOf
<1>10. RevsOf(L, n + 1, o) = IF retires /\ o \in Latest THEN {}
                            ELSE IF replaces THEN content ELSE RevsOf(L, n, o) \cup content
  <2>r. o \in Rewindable => \A x : ~Replaces(o, x)
    BY JsonlAssumption, <1>o DEF Replaces
  <2>f. \A i \in 1 .. n : \A k \in DOMAIN L[i][o], l \in DOMAIN w : Follows(i, k, n + 1, l)
    BY <1>1 DEF Follows
  <2>t. 1 \in DOMAIN w /\ Len(w) \in DOMAIN w
    BY <1>2
  <2>1. CASE retires /\ o \in Latest
    <3>1. w[Len(w)].op = "retire" /\ Replaces(o, w[Len(w)])
      BY <2>1, <1>4, <1>8 DEF Replaces
    <3>2. ASSUME NEW i \in 1 .. n + 1, NEW k \in DOMAIN L[i][o], Kept(L, n + 1, o, i, k)
          PROVE  FALSE
      <4>1. ~Follows(i, k, n + 1, Len(w))
        BY <1>1, <2>t, <3>1, <3>2 DEF Kept
      <4>2. i = n + 1
        BY <4>1, <1>1, <2>f, <2>t
      <4>3. w[k].op # "retire" /\ k = 1 /\ k \in DOMAIN w
        BY <4>2, <3>2, <1>4 DEF Kept
      <4>4. Len(w) # 1
        BY <4>3, <3>1
      <4>. QED
        <5>1. 1 < Len(w)
          <6>. DEFINE last == Len(w)
          <6>1. last \in Nat /\ last > 0 /\ last # 1
            BY <1>2, <4>4
          <6>. HIDE DEF last
          <6>2. 1 < last
            BY <6>1
          <6>. QED
            BY <6>2 DEF last
        <5>2. Follows(n + 1, 1, n + 1, Len(w))
          BY <5>1 DEF Follows
        <5>. QED
          BY <4>1, <4>2, <4>3, <5>2
    <3>3. \A r : r \in RevsOf(L, n + 1, o) <=> r \in {}
      BY <3>2, RevsMembers
    <3>. QED
      BY <2>1, <3>3, SameElements
  <2>2. CASE ~(retires /\ o \in Latest) /\ replaces
    <3>1. ASSUME NEW i \in 1 .. n, NEW k \in DOMAIN L[i][o], Kept(L, n + 1, o, i, k)
          PROVE  FALSE
      <4>1. CASE \E l \in DOMAIN w : w[l].op = "create"
        <5>1. L[i][o] = <<>>
          BY <4>1, <1>3, <1>o, Precedes
        <5>. QED
          BY <5>1
      <4>2. CASE \E l \in DOMAIN w : w[l].kind = "base" /\ o \in Latest
        <5>1. PICK l \in DOMAIN w : Replaces(o, w[l])
          BY <4>2 DEF Replaces
        <5>2. Follows(i, k, n + 1, l)
          BY <2>f
        <5>. QED
          BY <5>1, <5>2, <3>1, <1>1 DEF Kept
      <4>. QED
        BY <4>1, <4>2, <2>2, <1>8
    <3>2. ASSUME NEW k \in DOMAIN w
          PROVE  Kept(L, n + 1, o, n + 1, k) <=> w[k].op # "retire"
      <4>1. CASE o \in Rewindable
        BY <4>1, <2>r DEF Kept
      <4>2. CASE o \in Latest
        <5>1. \A l \in DOMAIN w : l = 1
          BY <4>2, <2>2, <1>4, <1>8
        <5>2. \A j \in 1 .. n + 1 : \A l \in DOMAIN L[j][o] : ~Follows(n + 1, k, j, l)
          BY <5>1, <1>1 DEF Follows
        <5>. QED
          BY <5>2 DEF Kept
      <4>. QED
        BY <4>1, <4>2
    <3>3. \A r : r \in RevsOf(L, n + 1, o) <=> r \in content
      BY <3>1, <3>2, <1>1, <1>8, RevsMembers
    <3>. QED
      BY <2>2, <3>3, SameElements
  <2>3. CASE ~(retires /\ o \in Latest) /\ ~replaces
    <3>1. \A l \in DOMAIN w : ~Replaces(o, w[l])
      BY <2>3, <2>r, <1>o, <1>8 DEF Replaces
    <3>2. \A i \in 1 .. n : \A k \in DOMAIN L[i][o] : Kept(L, n + 1, o, i, k) <=> Kept(L, n, o, i, k)
      BY <3>1, <1>1 DEF Kept
    <3>3. ASSUME NEW k \in DOMAIN w
          PROVE  Kept(L, n + 1, o, n + 1, k) <=> w[k].op # "retire"
      <4>1. \A j \in 1 .. n : \A l : ~Follows(n + 1, k, j, l)
        BY DEF Follows
      <4>. QED
        BY <4>1, <3>1, <1>1 DEF Kept
    <3>4. \A r : r \in RevsOf(L, n + 1, o) <=> r \in RevsOf(L, n, o) \cup content
      BY <3>2, <3>3, <1>1, <1>8, RevsMembers
    <3>. QED
      BY <2>3, <3>4, SameElements
  <2>. QED
    BY <2>1, <2>2, <2>3
<1>11. AppliedToDocument(o, Value(L, n, o), e) =
          [st |-> IF retires THEN "retired" ELSE "live",
           revs |-> IF retires /\ o \in Latest THEN {}
                   ELSE IF replaces THEN content ELSE RevsOf(L, n, o) \cup content]
  <2>1. Value(L, n, o).revs = RevsOf(L, n, o)
    BY DEF Value
  <2>. QED
    BY <2>1 DEF AppliedToDocument, es, content, replaces, retires
<1>12. AppliedToDocument(o, Value(L, n, o), e)
          = AppliedToDocument(o, Value(L, n, o), Events(L[n + 1], o, n + 1))
  BY DEF e
<1>. QED
  BY <1>9, <1>10, <1>11, <1>12 DEF Value

\* What a log with one batch more says is what that batch makes of what it said.
LEMMA ValueStep ==
    ASSUME NEW L, LogOK(L), NEW n \in Nat, n < Len(L), NEW o \in Objects
    PROVE  Value(L, n + 1, o) = Applied(o, Value(L, n, o), Events(L[n + 1], o, n + 1))
<1>1. DOMAIN Events(L[n + 1], o, n + 1) = DOMAIN L[n + 1][o]
  BY DEF Events
<1>2. CASE DOMAIN L[n + 1][o] = {}
  BY <1>1, <1>2, Untouched DEF Applied
<1>3. CASE DOMAIN L[n + 1][o] # {} /\ o \in Tasks
  BY <1>1, <1>3, TaskStep DEF Applied
<1>4. CASE DOMAIN L[n + 1][o] # {} /\ o \notin Tasks
  BY <1>1, <1>4, DocumentStep DEF Applied, Objects
<1>. QED
  BY <1>2, <1>3, <1>4

\* What all batches of a log say is what the contract takes it to amount to.
LEMMA Amounted ==
    ASSUME NEW L \in Seq(Batch), NEW o \in Objects
    PROVE  Value(L, Len(L), o) = Contract!Amounts(L, o)
<1>. DEFINE at(p) == L[p[1]][o][p[2]]
            written == Contract!Writes(L, o)
            kept == {p \in written : /\ at(p).op # "retire"
                                     /\ \A q \in written : Contract!Later(p, q) => ~Contract!Replaces(o, at(q))}
            some(op) == \E p \in written : at(p).op = op
            revs == {[seq |-> p[1], kind |-> at(p).kind, att |-> at(p).att] : p \in kept}
<1>1. Contract!Amounts(L, o) =
        [st |-> IF written = {} THEN "none" ELSE IF some("terminal") THEN "terminal"
                ELSE IF some("retire") THEN "retired" ELSE "live",
         revs |-> revs]
  BY DEF Contract!Amounts
<1>2. DOMAIN L = 1 .. Len(L)
  BY LenProperties
<1>3. /\ \A p \in written : \E i \in 1 .. Len(L) : \E k \in DOMAIN L[i][o] : p = <<i, k>>
      /\ \A i \in 1 .. Len(L) : \A k \in DOMAIN L[i][o] : <<i, k>> \in written
  BY <1>2 DEF Contract!Writes
<1>4. \A i, k : at(<<i, k>>) = L[i][o][k]
  OBVIOUS
<1>5. \A i \in 1 .. Len(L) : DOMAIN L[i][o] = {} <=> L[i][o] = <<>>
  <2>1. ASSUME NEW i \in 1 .. Len(L) PROVE DOMAIN L[i][o] = {} <=> L[i][o] = <<>>
    <3>1. L[i][o] \in Seq(Write) /\ DOMAIN L[i][o] = 1 .. Len(L[i][o]) /\ Len(L[i][o]) \in Nat
      BY LogTypes
    <3>2. CASE DOMAIN L[i][o] = {}
      <4>1. 1 \notin 1 .. Len(L[i][o])
        BY <3>1, <3>2
      <4>2. Len(L[i][o]) = 0
        BY <3>1, <4>1
      <4>. QED
        BY <3>1, <3>2, <4>2, EmptySeq
    <3>. QED
      BY <3>2
  <2>. QED
    BY <2>1
<1>. HIDE DEF written, at
<1>6. written = {} <=> \A i \in 1 .. Len(L) : L[i][o] = <<>>
  BY <1>3, <1>5
<1>7. \A op : some(op) <=> Said(L, Len(L), o, op)
  <2>1. ASSUME NEW op, some(op) PROVE Said(L, Len(L), o, op)
    <3>1. PICK p \in written : at(p).op = op
      BY <2>1
    <3>2. PICK i \in 1 .. Len(L) : \E k \in DOMAIN L[i][o] : p = <<i, k>>
      BY <1>3
    <3>3. PICK k \in DOMAIN L[i][o] : p = <<i, k>>
      BY <3>2
    <3>4. L[i][o][k].op = op
      BY <3>1, <3>3, <1>4
    <3>. QED
      BY <3>4 DEF Said
  <2>2. ASSUME NEW op, Said(L, Len(L), o, op) PROVE some(op)
    <3>1. PICK i \in 1 .. Len(L) : \E k \in DOMAIN L[i][o] : L[i][o][k].op = op
      BY <2>2 DEF Said
    <3>2. PICK k \in DOMAIN L[i][o] : L[i][o][k].op = op
      BY <3>1
    <3>3. <<i, k>> \in written /\ at(<<i, k>>).op = op
      BY <3>2, <1>3, <1>4
    <3>. QED
      BY <3>3
  <2>. QED
    BY <2>1, <2>2
<1>8. \A i \in 1 .. Len(L) : \A k \in DOMAIN L[i][o] : <<i, k>> \in kept <=> Kept(L, Len(L), o, i, k)
  <2>1. \A i, k, j, l : Contract!Later(<<i, k>>, <<j, l>>) <=> Follows(i, k, j, l)
    BY DEF Contract!Later, Follows
  <2>2. \A w : Contract!Replaces(o, w) <=> Replaces(o, w)
    BY DEF Contract!Replaces, Replaces
  <2>3. ASSUME NEW i \in 1 .. Len(L), NEW k \in DOMAIN L[i][o]
        PROVE  (\A q \in written : Contract!Later(<<i, k>>, q) => ~Contract!Replaces(o, at(q))) <=>
               (\A j \in 1 .. Len(L) : \A l \in DOMAIN L[j][o] : Follows(i, k, j, l) => ~Replaces(o, L[j][o][l]))
    <3>1. ASSUME \A q \in written : Contract!Later(<<i, k>>, q) => ~Contract!Replaces(o, at(q)),
                 NEW j \in 1 .. Len(L), NEW l \in DOMAIN L[j][o], Follows(i, k, j, l)
          PROVE  ~Replaces(o, L[j][o][l])
      <4>1. <<j, l>> \in written /\ at(<<j, l>>) = L[j][o][l]
        BY <1>3, <1>4
      <4>. QED
        BY <3>1, <4>1, <2>1, <2>2
    <3>2. ASSUME \A j \in 1 .. Len(L) : \A l \in DOMAIN L[j][o] :
                    Follows(i, k, j, l) => ~Replaces(o, L[j][o][l]),
                 NEW q \in written, Contract!Later(<<i, k>>, q)
          PROVE  ~Contract!Replaces(o, at(q))
      <4>1. PICK j \in 1 .. Len(L) : \E l \in DOMAIN L[j][o] : q = <<j, l>>
        BY <1>3
      <4>2. PICK l \in DOMAIN L[j][o] : q = <<j, l>>
        BY <4>1
      <4>3. Follows(i, k, j, l) /\ at(q) = L[j][o][l]
        BY <3>2, <4>2, <2>1, <1>4
      <4>. QED
        BY <4>3, <3>2, <2>2
    <3>. QED
      BY <3>1, <3>2
  <2>4. ASSUME NEW i \in 1 .. Len(L), NEW k \in DOMAIN L[i][o]
        PROVE  <<i, k>> \in kept <=> Kept(L, Len(L), o, i, k)
    <3>1. <<i, k>> \in kept <=>
            /\ L[i][o][k].op # "retire"
            /\ \A q \in written : Contract!Later(<<i, k>>, q) => ~Contract!Replaces(o, at(q))
      BY <1>3, <1>4
    <3>. QED
      BY <3>1, <2>3 DEF Kept
  <2>. QED
    BY <2>4
<1>9. revs = RevsOf(L, Len(L), o)
  <2>1. \A r : r \in revs <=> \E p \in kept : r = [seq |-> p[1], kind |-> at(p).kind, att |-> at(p).att]
    OBVIOUS
  <2>2. \A i, k : [seq |-> <<i, k>>[1], kind |-> at(<<i, k>>).kind, att |-> at(<<i, k>>).att] = RevisionAt(L, o, i, k)
    BY <1>4 DEF RevisionAt
  <2>3. \A p \in kept : \E i \in 1 .. Len(L) : \E k \in DOMAIN L[i][o] : p = <<i, k>>
    BY <1>3
  <2>. HIDE DEF revs, kept
  <2>4. \A r : r \in revs <=> r \in RevsOf(L, Len(L), o)
    <3>1. ASSUME NEW r \in revs PROVE r \in RevsOf(L, Len(L), o)
      <4>1. PICK p \in kept : r = [seq |-> p[1], kind |-> at(p).kind, att |-> at(p).att]
        BY <2>1
      <4>2. PICK i \in 1 .. Len(L) : \E k \in DOMAIN L[i][o] : p = <<i, k>>
        BY <2>3
      <4>3. PICK k \in DOMAIN L[i][o] : p = <<i, k>>
        BY <4>2
      <4>4. r = RevisionAt(L, o, i, k) /\ Kept(L, Len(L), o, i, k)
        BY <4>1, <4>3, <2>2, <1>8
      <4>. QED
        BY <4>4, RevsMembers
    <3>2. ASSUME NEW r \in RevsOf(L, Len(L), o) PROVE r \in revs
      <4>1. PICK i \in 1 .. Len(L) :
              \E k \in DOMAIN L[i][o] : Kept(L, Len(L), o, i, k) /\ r = RevisionAt(L, o, i, k)
        BY RevsMembers
      <4>2. PICK k \in DOMAIN L[i][o] : Kept(L, Len(L), o, i, k) /\ r = RevisionAt(L, o, i, k)
        BY <4>1
      <4>3. <<i, k>> \in kept
        BY <4>2, <1>8
      <4>. QED
        BY <4>2, <4>3, <2>1, <2>2
    <3>. QED
      BY <3>1, <3>2
  <2>. QED
    BY <2>4, SameElements
<1>. QED
  BY <1>1, <1>6, <1>7, <1>9 DEF Value, StateOf

------------------------------------------------------------------------------
(* Records and sidecars *)

\* Sets of numbers that start a sequence: the writes of a batch with a record come
\* first.
LEMMA RecordedFirst ==
    ASSUME NEW o \in Objects, NEW w \in Seq(Write), Shaped(o, w)
    PROVE  \E m \in 0 .. Len(w) : {j \in DOMAIN w : w[j].op \in InSidecar} = 1 .. m
<1>1. DOMAIN w = 1 .. Len(w) /\ Len(w) \in Nat
  BY LenProperties
<1>. DEFINE last == Len(w)
            D == {j \in DOMAIN w : w[j].op \in InSidecar}
<1>2. DOMAIN w = 1 .. last /\ last \in Nat
  BY <1>1
<1>3. CASE o \in Tasks /\ \E k \in DOMAIN w : w[k].op = "terminal"
  <2>1. last = 1
    BY <1>3 DEF Shaped
  <2>2. \A x : x \in D <=> x \in 1 .. 0
    BY <1>2, <1>3, <2>1 DEF InSidecar
  <2>3. D = 1 .. 0
    BY <2>2, SameElements
  <2>. QED
    BY <1>2, <2>3
<1>4. CASE o \in Tasks /\ ~ \E k \in DOMAIN w : w[k].op = "terminal"
  <2>1. \A x : x \in D <=> x \in 1 .. last
    BY <1>2, <1>4 DEF InSidecar, Shaped
  <2>2. D = 1 .. last
    BY <2>1, SameElements
  <2>. QED
    BY <1>2, <2>2
<1>5. CASE o \notin Tasks
  <2>1. \A x : x \in D => x = 1 /\ 1 \in DOMAIN w
    BY <1>2, <1>5 DEF InSidecar, Shaped
  <2>2. CASE D = {}
    <3>1. D = 1 .. 0
      BY <2>2
    <3>. QED
      BY <1>2, <3>1
  <2>3. CASE D # {}
    <3>1. D = 1 .. 1 /\ 1 \in DOMAIN w
      BY <2>1, <2>3
    <3>2. 1 \in 0 .. last
      BY <1>2, <3>1
    <3>. QED
      BY <3>1, <3>2
  <2>. QED
    BY <2>2, <2>3
<1>. QED
  BY <1>3, <1>4, <1>5

\* The records of a batch are a sequence, one per write with a record.
LEMMA RecordsOf ==
    ASSUME NEW b \in Batch, NEW o \in Objects, Shaped(o, b[o]), NEW seq \in Nat
    PROVE  /\ Records(b, o, seq) \in Seq(Rec)
           /\ DOMAIN Records(b, o, seq) = 1 .. Len(Records(b, o, seq))
           /\ Len(Records(b, o, seq)) \in Nat
           /\ \A k : k \in DOMAIN Records(b, o, seq) <=> k \in DOMAIN b[o] /\ b[o][k].op \in InSidecar
           /\ \A k \in DOMAIN Records(b, o, seq) : Records(b, o, seq)[k] = Record(seq, k, b[o][k])
<1>. DEFINE w == b[o]
            rs == Records(b, o, seq)
            D == {j \in DOMAIN w : w[j].op \in InSidecar}
<1>1. w \in Seq(Write) /\ DOMAIN w = 1 .. Len(w) /\ Len(w) \in Nat
  <2>1. w \in Seq(Write)
    BY DEF Batch
  <2>. QED
    BY <2>1, LenProperties
<1>2. PICK m \in 0 .. Len(w) : D = 1 .. m
  BY <1>1, RecordedFirst
<1>3. m \in Nat
  BY <1>1, <1>2
<1>4. DOMAIN rs = D /\ \A k \in D : rs[k] = Record(seq, k, w[k])
  BY DEF Records
<1>5. \A k \in D : w[k] \in Write /\ k \in Nat
  BY <1>1, <1>2, ElementOfSeq
<1>6. \A k \in D : Record(seq, k, w[k]) \in Rec
  BY <1>5 DEF Record, Rec, Write
<1>7. rs \in [1 .. m -> Rec]
  <2>1. rs = [k \in D |-> Record(seq, k, w[k])]
    BY DEF Records
  <2>. HIDE DEF rs, D
  <2>. QED
    BY <2>1, <1>2, <1>6
<1>8. rs \in Seq(Rec)
  BY <1>3, <1>7, SeqDef
<1>9. DOMAIN rs = 1 .. Len(rs) /\ Len(rs) \in Nat
  BY <1>8, LenProperties
<1>10. \A k : k \in DOMAIN rs <=> k \in DOMAIN w /\ w[k].op \in InSidecar
  BY <1>4
<1>. QED
  BY <1>4, <1>8, <1>9, <1>10

\* An object has records in a batch exactly if one of its writes needs one.
LEMMA TouchedWhen ==
    ASSUME NEW b \in Batch, NEW o \in Objects, Shaped(o, b[o]), NEW seq \in Nat
    PROVE  o \in Touched(b, seq) <=> \E k \in DOMAIN b[o] : b[o][k].op \in InSidecar
<1>. DEFINE rs == Records(b, o, seq)
<1>1. rs \in Seq(Rec) /\ DOMAIN rs = 1 .. Len(rs) /\ Len(rs) \in Nat
      /\ \A k : k \in DOMAIN rs <=> k \in DOMAIN b[o] /\ b[o][k].op \in InSidecar
  BY RecordsOf
<1>2. rs = <<>> <=> DOMAIN rs = {}
  <2>1. rs = <<>> => DOMAIN rs = {}
    OBVIOUS
  <2>2. ASSUME DOMAIN rs = {} PROVE rs = <<>>
    <3>. DEFINE l == Len(rs)
    <3>1. l \in Nat /\ 1 .. l = {}
      BY <1>1, <2>2
    <3>. HIDE DEF l
    <3>2. 1 \notin 1 .. l
      BY <3>1
    <3>3. l = 0
      BY <3>1, <3>2
    <3>. QED
      BY <1>1, <3>3, EmptySeq DEF l
  <2>. QED
    BY <2>1, <2>2
<1>3. o \in Touched(b, seq) <=> rs # <<>>
  BY DEF Touched
<1>. HIDE DEF rs
<1>. QED
  BY <1>1, <1>2, <1>3

\* The lines of a file are records.
LEMMA LineTypes ==
    ASSUME NEW c \in Seq(Rec)
    PROVE  /\ DOMAIN c = 1 .. Len(c) /\ Len(c) \in Nat
           /\ \A j \in DOMAIN c : c[j] \in Rec /\ c[j].seq \in Nat /\ c[j].ord \in Nat /\ j \in Nat
<1>1. DOMAIN c = 1 .. Len(c) /\ Len(c) \in Nat
  BY LenProperties
<1>2. \A j \in DOMAIN c : c[j] \in Rec
  BY <1>1, ElementOfSeq
<1>. QED
  BY <1>1, <1>2 DEF Rec

\* Lines after lines.
LEMMA Joined ==
    ASSUME NEW c \in Seq(Rec), NEW d \in Seq(Rec)
    PROVE  /\ c \o d \in Seq(Rec)
           /\ \A i \in DOMAIN c : i \in DOMAIN (c \o d) /\ (c \o d)[i] = c[i]
           /\ \A j \in DOMAIN d : Len(c) + j \in DOMAIN (c \o d) /\ (c \o d)[Len(c) + j] = d[j]
           /\ \A i \in DOMAIN (c \o d) : i \in DOMAIN c \/ \E j \in DOMAIN d : i = Len(c) + j
<1>1. c \o d \in Seq(Rec) /\ Len(c \o d) = Len(c) + Len(d)
      /\ \A i \in 1 .. Len(c) + Len(d) : (c \o d)[i] = IF i <= Len(c) THEN c[i] ELSE d[i - Len(c)]
  BY ConcatProperties
<1>. DEFINE m == Len(c)
            n == Len(d)
            e == c \o d
<1>2. m \in Nat /\ DOMAIN c = 1 .. m /\ n \in Nat /\ DOMAIN d = 1 .. n
  BY LenProperties
<1>3. DOMAIN e = 1 .. m + n
  BY <1>1, LenProperties
<1>4. \A i \in 1 .. m + n : e[i] = IF i <= m THEN c[i] ELSE d[i - m]
  BY <1>1
<1>5. e \in Seq(Rec)
  BY <1>1
<1>. HIDE DEF m, n, e
<1>6. \A i \in DOMAIN c : i \in DOMAIN e /\ e[i] = c[i]
  BY <1>2, <1>3, <1>4
<1>7. \A j \in DOMAIN d : m + j \in DOMAIN e /\ e[m + j] = d[j]
  <2>1. ASSUME NEW j \in 1 .. n PROVE m + j \in 1 .. m + n /\ ~(m + j <= m) /\ (m + j) - m = j
    BY <1>2
  <2>. QED
    BY <2>1, <1>2, <1>3, <1>4
<1>8. \A i \in DOMAIN e : i \in DOMAIN c \/ \E j \in DOMAIN d : i = m + j
  <2>1. ASSUME NEW i \in 1 .. m + n, i \notin 1 .. m PROVE i - m \in 1 .. n /\ i = m + (i - m)
    BY <1>2, <2>1
  <2>. QED
    BY <2>1, <1>2, <1>3
<1>. QED
  BY <1>5, <1>6, <1>7, <1>8 DEF m, e

\* What is in order stays so if what is appended is in order and later.
LEMMA JoinedInOrder ==
    ASSUME NEW c \in Seq(Rec), NEW d \in Seq(Rec),
           \A i, j \in DOMAIN c : i < j => Earlier(c[i].seq, c[i].ord, c[j]),
           \A i, j \in DOMAIN d : i < j => Earlier(d[i].seq, d[i].ord, d[j]),
           \A i \in DOMAIN c : \A j \in DOMAIN d : Earlier(c[i].seq, c[i].ord, d[j])
    PROVE  \A i, j \in DOMAIN (c \o d) :
              i < j => Earlier((c \o d)[i].seq, (c \o d)[i].ord, (c \o d)[j])
<1>. DEFINE e == c \o d
            m == Len(c)
<1>1. /\ \A i \in DOMAIN c : e[i] = c[i]
      /\ \A j \in DOMAIN d : e[m + j] = d[j]
      /\ \A i \in DOMAIN e : i \in DOMAIN c \/ \E j \in DOMAIN d : i = m + j
  BY Joined
<1>2. m \in Nat /\ DOMAIN c = 1 .. m /\ DOMAIN d \subseteq Nat /\ 0 \notin DOMAIN d
  BY LineTypes
<1>. HIDE DEF m, e
<1>3. SUFFICES ASSUME NEW i \in DOMAIN e, NEW j \in DOMAIN e, i < j
               PROVE  Earlier(e[i].seq, e[i].ord, e[j])
  BY DEF e
<1>4. CASE i \in DOMAIN c /\ j \in DOMAIN c
  BY <1>1, <1>3, <1>4
<1>5. CASE i \in DOMAIN c /\ j \notin DOMAIN c
  <2>1. PICK l \in DOMAIN d : j = m + l
    BY <1>1, <1>5
  <2>. QED
    BY <1>1, <1>5, <2>1
<1>6. CASE i \notin DOMAIN c
  <2>1. PICK k \in DOMAIN d : i = m + k
    BY <1>1, <1>6
  <2>2. j \notin DOMAIN c
    BY <1>2, <1>3, <2>1
  <2>3. PICK l \in DOMAIN d : j = m + l
    BY <1>1, <2>2
  <2>4. k < l
    BY <1>2, <1>3, <2>1, <2>3
  <2>. QED
    BY <1>1, <2>1, <2>3, <2>4
<1>. QED
  BY <1>4, <1>5, <1>6

\* Appending what no marker names yet leaves a sidecar sound.
LEMMA SoundTail ==
    ASSUME NEW L, NEW n \in Nat, NEW o, NEW c, NEW d \in Seq(Rec), Sound(L, n, o, c),
           NEW N \in Nat, n <= N, \A i \in DOMAIN c : c[i].seq <= N,
           \A j \in DOMAIN d : d[j].seq = N + 1,
           \A i, j \in DOMAIN d : i < j => d[i].ord < d[j].ord
    PROVE  Sound(L, n, o, c \o d)
<1>. DEFINE e == c \o d
            m == Len(c)
<1>1. c \in Seq(Rec)
  BY DEF Sound
<1>2. /\ e \in Seq(Rec)
      /\ \A i \in DOMAIN c : i \in DOMAIN e /\ e[i] = c[i]
      /\ \A j \in DOMAIN d : e[m + j] = d[j]
      /\ \A i \in DOMAIN e : i \in DOMAIN c \/ \E j \in DOMAIN d : i = m + j
  BY <1>1, Joined
<1>3. m \in Nat /\ DOMAIN c = 1 .. m /\ \A j \in DOMAIN c : c[j].seq \in Nat
  BY <1>1, LineTypes
<1>4. \A j \in DOMAIN d : d[j].seq \in Nat /\ j \in Nat
  BY LineTypes
<1>5. \A i, j \in DOMAIN e : i < j => Earlier(e[i].seq, e[i].ord, e[j])
  <2>1. \A i, j \in DOMAIN c : i < j => Earlier(c[i].seq, c[i].ord, c[j])
    BY DEF Sound
  <2>2. \A i, j \in DOMAIN d : i < j => Earlier(d[i].seq, d[i].ord, d[j])
    BY DEF Earlier
  <2>3. \A i \in DOMAIN c : \A j \in DOMAIN d : Earlier(c[i].seq, c[i].ord, d[j])
    BY <1>3, <1>4 DEF Earlier
  <2>. QED
    BY <1>1, <2>1, <2>2, <2>3, JoinedInOrder
<1>. HIDE DEF e, m
<1>6. ASSUME NEW j \in DOMAIN e, NamedBy(L, n, o, e[j]) PROVE j \in DOMAIN c
  <2>1. ASSUME NEW k \in DOMAIN d, j = m + k PROVE FALSE
    <3>1. e[j].seq = N + 1
      BY <1>2, <2>1
    <3>. QED
      BY <1>6, <3>1 DEF NamedBy
  <2>. QED
    BY <1>2, <2>1
<1>7. \A j \in DOMAIN e : NamedBy(L, n, o, e[j]) =>
         e[j] = Record(e[j].seq, e[j].ord, L[e[j].seq][o][e[j].ord])
  BY <1>2, <1>6 DEF Sound
<1>8. ASSUME NEW i \in DOMAIN e, NEW j \in DOMAIN e, i < j, NamedBy(L, n, o, e[j])
      PROVE  NamedBy(L, n, o, e[i])
  <2>1. j \in DOMAIN c
    BY <1>6, <1>8
  <2>2. i \in DOMAIN c
    <3>1. \A k \in DOMAIN d : i # m + k
      BY <1>3, <1>4, <1>8, <2>1
    <3>. QED
      BY <1>2, <3>1
  <2>. QED
    BY <1>2, <1>8, <2>1, <2>2 DEF Sound
<1>9. ASSUME NEW i \in 1 .. n, NEW k \in DOMAIN L[i][o], L[i][o][k].op \in InSidecar
      PROVE  Holds(e, i, k) \/ Superfluous(L, n, o, e, i, k)
  <2>1. Holds(c, i, k) \/ Superfluous(L, n, o, c, i, k)
    BY <1>9 DEF Sound
  <2>2. Holds(c, i, k) => Holds(e, i, k)
    BY <1>2 DEF Holds
  <2>3. Superfluous(L, n, o, c, i, k) => Superfluous(L, n, o, e, i, k)
    BY <1>2 DEF Superfluous
  <2>. QED
    BY <2>1, <2>2, <2>3
<1>10. Sound(L, n, o, e)
  BY <1>2, <1>5, <1>7, <1>8, <1>9 DEF Sound
<1>. QED
  BY <1>10 DEF e

\* What a log says stays said, and what it names stays named.
LEMMA Grows ==
    ASSUME NEW L, NEW n \in Nat, NEW o
    PROVE  /\ \A op : Said(L, n, o, op) => Said(L, n + 1, o, op)
           /\ \A r : NamedBy(L, n, o, r) => NamedBy(L, n + 1, o, r)
           /\ \A c, i, k : Superfluous(L, n, o, c, i, k) => Superfluous(L, n + 1, o, c, i, k)
<1>1. \A i \in 1 .. n : i \in 1 .. n + 1
  OBVIOUS
<1>2. \A op : Said(L, n, o, op) => Said(L, n + 1, o, op)
  BY <1>1 DEF Said
<1>3. \A r : NamedBy(L, n, o, r) => NamedBy(L, n + 1, o, r)
  BY <1>1 DEF NamedBy
<1>4. \A c, i, k : Superfluous(L, n, o, c, i, k) => Superfluous(L, n + 1, o, c, i, k)
  BY <1>2, <1>3 DEF Superfluous
<1>. QED
  BY <1>2, <1>3, <1>4

\* A sidecar whose records are all named, with the records of the next batch.
LEMMA SoundNext ==
    ASSUME NEW L, LogOK(L), NEW n \in Nat, n < Len(L), NEW o \in Objects, NEW c,
           Sound(L, n, o, c), AllNamed(L, n, o, c)
    PROVE  /\ Sound(L, n + 1, o, c \o Records(L[n + 1], o, n + 1))
           /\ AllNamed(L, n + 1, o, c \o Records(L[n + 1], o, n + 1))
<1>. DEFINE d == Records(L[n + 1], o, n + 1)
            e == c \o d
            m == Len(c)
<1>1. c \in Seq(Rec) /\ n + 1 \in 1 .. Len(L) /\ L \in Seq(Batch)
  BY LenProperties DEF Sound, LogOK
<1>2. /\ d \in Seq(Rec)
      /\ \A k : k \in DOMAIN d <=> k \in DOMAIN L[n + 1][o] /\ L[n + 1][o][k].op \in InSidecar
      /\ \A k \in DOMAIN d : d[k] = Record(n + 1, k, L[n + 1][o][k])
  <2>1. L[n + 1] \in Batch /\ Shaped(o, L[n + 1][o])
    BY <1>1, LogTypes, Shapes
  <2>. QED
    BY <2>1, RecordsOf
<1>3. /\ e \in Seq(Rec)
      /\ \A i \in DOMAIN c : i \in DOMAIN e /\ e[i] = c[i]
      /\ \A j \in DOMAIN d : m + j \in DOMAIN e /\ e[m + j] = d[j]
      /\ \A i \in DOMAIN e : i \in DOMAIN c \/ \E j \in DOMAIN d : i = m + j
  BY <1>1, <1>2, Joined
<1>4. \A j \in DOMAIN d : d[j].seq = n + 1 /\ d[j].ord = j /\ j \in Nat
  <2>1. \A j \in DOMAIN d : j \in Nat
    BY <1>2, LineTypes
  <2>. HIDE DEF d
  <2>2. ASSUME NEW j \in DOMAIN d PROVE d[j].seq = n + 1 /\ d[j].ord = j
    <3>1. d[j] = Record(n + 1, j, L[n + 1][o][j])
      BY <1>2
    <3>. QED
      BY <3>1 DEF Record
  <2>. QED
    BY <2>1, <2>2
<1>5. \A i \in DOMAIN c : NamedBy(L, n, o, c[i]) /\ c[i].seq <= n
  BY DEF AllNamed, NamedBy
<1>6. Sound(L, n, o, e)
  <2>1. \A i, j \in DOMAIN d : i < j => d[i].ord < d[j].ord
    BY <1>4
  <2>. QED
    BY <1>2, <1>4, <1>5, <2>1, SoundTail
<1>. HIDE DEF e, m, d
<1>7. AllNamed(L, n + 1, o, e)
  <2>1. \A i \in DOMAIN c : NamedBy(L, n + 1, o, c[i])
    BY <1>5, Grows
  <2>2. \A j \in DOMAIN d : NamedBy(L, n + 1, o, d[j])
    BY <1>2, <1>4 DEF NamedBy
  <2>. QED
    BY <1>3, <2>1, <2>2 DEF AllNamed
<1>8. \A j \in DOMAIN e : e[j] = Record(e[j].seq, e[j].ord, L[e[j].seq][o][e[j].ord])
  <2>1. \A i \in DOMAIN c : c[i] = Record(c[i].seq, c[i].ord, L[c[i].seq][o][c[i].ord])
    BY <1>5 DEF Sound
  <2>2. \A j \in DOMAIN d : d[j] = Record(d[j].seq, d[j].ord, L[d[j].seq][o][d[j].ord])
    BY <1>2, <1>4
  <2>. QED
    BY <1>3, <2>1, <2>2
<1>9. ASSUME NEW i \in 1 .. n + 1, NEW k \in DOMAIN L[i][o], L[i][o][k].op \in InSidecar
      PROVE  Holds(e, i, k) \/ Superfluous(L, n + 1, o, e, i, k)
  <2>1. CASE i = n + 1
    <3>1. k \in DOMAIN d /\ d[k].seq = i /\ d[k].ord = k
      BY <1>2, <1>4, <1>9, <2>1
    <3>. QED
      BY <1>3, <3>1 DEF Holds
  <2>2. CASE i # n + 1
    <3>1. i \in 1 .. n
      BY <2>2
    <3>. QED
      BY <3>1, <1>6, <1>9, Grows DEF Sound
  <2>. QED
    BY <2>1, <2>2
<1>10. Sound(L, n + 1, o, e)
  BY <1>6, <1>7, <1>8, <1>9 DEF Sound, AllNamed
<1>. QED
  BY <1>7, <1>10 DEF e, d

\* A batch without a record for o leaves every version of its sidecar sound.
LEMMA SoundUntouched ==
    ASSUME NEW L, NEW n \in Nat, NEW o, NEW c, Sound(L, n, o, c),
           \A k \in DOMAIN L[n + 1][o] : L[n + 1][o][k].op \notin InSidecar
    PROVE  Sound(L, n + 1, o, c) /\ (AllNamed(L, n, o, c) => AllNamed(L, n + 1, o, c))
<1>1. \A r : NamedBy(L, n + 1, o, r) <=> NamedBy(L, n, o, r)
  <2>1. \A r : NamedBy(L, n + 1, o, r) => NamedBy(L, n, o, r)
    BY DEF NamedBy
  <2>. QED
    BY <2>1, Grows
<1>2. ASSUME NEW i \in 1 .. n + 1, NEW k \in DOMAIN L[i][o], L[i][o][k].op \in InSidecar
      PROVE  Holds(c, i, k) \/ Superfluous(L, n + 1, o, c, i, k)
  <2>1. i \in 1 .. n
    BY <1>2
  <2>. QED
    BY <1>2, <2>1, Grows DEF Sound
<1>3. /\ c \in Seq(Rec)
      /\ \A i, j \in DOMAIN c : i < j => Earlier(c[i].seq, c[i].ord, c[j])
      /\ \A j \in DOMAIN c : NamedBy(L, n + 1, o, c[j]) =>
            c[j] = Record(c[j].seq, c[j].ord, L[c[j].seq][o][c[j].ord])
      /\ \A i, j \in DOMAIN c : i < j /\ NamedBy(L, n + 1, o, c[j]) => NamedBy(L, n + 1, o, c[i])
  BY <1>1 DEF Sound
<1>. QED
  BY <1>1, <1>2, <1>3 DEF Sound, AllNamed

\* Cutting off records that no marker names leaves a sidecar sound.
LEMMA SoundCut ==
    ASSUME NEW L, NEW n \in Nat, NEW o, NEW c, Sound(L, n, o, c), NEW m \in 0 .. Len(c),
           \A j \in DOMAIN c : j > m => ~NamedBy(L, n, o, c[j])
    PROVE  Sound(L, n, o, SubSeq(c, 1, m))
<1>. DEFINE e == SubSeq(c, 1, m)
<1>1. c \in Seq(Rec) /\ DOMAIN c = 1 .. Len(c) /\ Len(c) \in Nat
      /\ \A j \in DOMAIN c : c[j] \in Rec /\ j \in Nat
  BY LineTypes DEF Sound
<1>2. m \in Nat /\ \A i \in 1 .. m : i \in DOMAIN c /\ c[i] \in Rec
  BY <1>1
<1>3. e \in Seq(Rec) /\ Len(e) = m /\ \A i \in 1 .. m : e[i] = c[i]
  <2>1. e \in Seq(Rec) /\ Len(e) = (IF 1 <= m THEN m - 1 + 1 ELSE 0)
        /\ \A i \in 1 .. m - 1 + 1 : e[i] = c[1 + i - 1]
    BY <1>2, SubSeqProperties
  <2>. QED
    BY <1>2, <2>1
<1>4. DOMAIN e = 1 .. m
  BY <1>3, LenProperties
<1>. HIDE DEF e
<1>5. \A i \in DOMAIN e : i \in DOMAIN c /\ e[i] = c[i]
  BY <1>2, <1>3, <1>4
<1>6. ASSUME NEW j \in DOMAIN c, NamedBy(L, n, o, c[j]) PROVE j \in DOMAIN e /\ e[j] = c[j]
  <2>1. j \in Nat /\ j > 0 /\ ~(j > m)
    BY <1>1, <1>6
  <2>2. j \in 1 .. m
    BY <1>2, <2>1
  <2>. QED
    BY <1>3, <1>4, <2>2
<1>7. ASSUME NEW i \in 1 .. n, NEW k \in DOMAIN L[i][o], L[i][o][k].op \in InSidecar
      PROVE  Holds(e, i, k) \/ Superfluous(L, n, o, e, i, k)
  <2>1. Holds(c, i, k) \/ Superfluous(L, n, o, c, i, k)
    BY <1>7 DEF Sound
  <2>2. Holds(c, i, k) => Holds(e, i, k)
    BY <1>6, <1>7 DEF Holds, NamedBy
  <2>3. Superfluous(L, n, o, c, i, k) => Superfluous(L, n, o, e, i, k)
    BY <1>6 DEF Superfluous
  <2>. QED
    BY <2>1, <2>2, <2>3
<1>8. Sound(L, n, o, e)
  BY <1>3, <1>5, <1>7 DEF Sound
<1>. QED
  BY <1>8 DEF e

\* The sidecar of an object that has ended may be gone.
LEMMA SoundEmpty ==
    ASSUME NEW L, NEW n, NEW o,
           \/ o \in Tasks /\ Said(L, n, o, "terminal")
           \/ o \in Latest /\ Said(L, n, o, "retire")
    PROVE  Sound(L, n, o, <<>>) /\ AllNamed(L, n, o, <<>>)
<1>1. <<>> \in Seq(Rec) /\ DOMAIN <<>> = {}
  BY EmptySeq
<1>2. \A i \in 1 .. n : \A k \in DOMAIN L[i][o] : Superfluous(L, n, o, <<>>, i, k)
  BY DEF Superfluous
<1>. QED
  BY <1>1, <1>2 DEF Sound, AllNamed

\* Of a document of which only the content is read, the lines from a base on suffice.
LEMMA SoundFromBase ==
    ASSUME NEW L \in Seq(Batch), NEW n \in 0 .. Len(L), NEW o \in Latest, NEW c,
           Sound(L, n, o, c), AllNamed(L, n, o, c),
           NEW b \in DOMAIN c, c[b].kind = "base"
    PROVE  /\ Sound(L, n, o, SubSeq(c, b, Len(c))) /\ AllNamed(L, n, o, SubSeq(c, b, Len(c)))
           /\ Len(SubSeq(c, b, Len(c))) = Len(c) - b + 1
           /\ \A j \in 1 .. Len(c) - b + 1 : SubSeq(c, b, Len(c))[j] = c[b + j - 1]
<1>. DEFINE e == SubSeq(c, b, Len(c))
            m == Len(c)
<1>1. c \in Seq(Rec) /\ DOMAIN c = 1 .. m /\ m \in Nat
      /\ \A j \in DOMAIN c : c[j] \in Rec /\ j \in Nat /\ c[j].seq \in Nat /\ c[j].ord \in Nat
  BY LineTypes DEF Sound
<1>2. e \in Seq(Rec) /\ Len(e) = m - b + 1 /\ \A j \in 1 .. m - b + 1 : e[j] = c[b + j - 1]
  <2>1. b \in Int /\ m \in Int /\ b <= m /\ \A i \in b .. m : c[i] \in Rec
    BY <1>1
  <2>2. e \in Seq(Rec) /\ Len(e) = (IF b <= m THEN m - b + 1 ELSE 0)
        /\ \A j \in 1 .. m - b + 1 : e[j] = c[b + j - 1]
    BY <2>1, SubSeqProperties
  <2>. QED
    BY <2>1, <2>2
<1>3. DOMAIN e = 1 .. m - b + 1
  BY <1>2, LenProperties
<1>. HIDE DEF e, m
<1>4. \A j \in DOMAIN e : b + j - 1 \in DOMAIN c /\ e[j] = c[b + j - 1] /\ j \in Nat
  BY <1>1, <1>2, <1>3
<1>5. ASSUME NEW i \in DOMAIN c, b <= i PROVE \E j \in DOMAIN e : e[j] = c[i]
  <2>1. i - b + 1 \in 1 .. m - b + 1 /\ b + (i - b + 1) - 1 = i
    BY <1>1, <1>5
  <2>. QED
    BY <2>1, <1>2, <1>3
<1>6. AllNamed(L, n, o, e)
  BY <1>4 DEF AllNamed
<1>7. \A i, j \in DOMAIN e : i < j => Earlier(e[i].seq, e[i].ord, e[j])
  <2>1. ASSUME NEW i \in DOMAIN e, NEW j \in DOMAIN e, i < j PROVE b + i - 1 < b + j - 1
    BY <1>1, <1>4, <2>1
  <2>2. \A i, j \in DOMAIN c : i < j => Earlier(c[i].seq, c[i].ord, c[j])
    BY DEF Sound
  <2>. QED
    BY <2>1, <2>2, <1>4
<1>8. \A j \in DOMAIN e : e[j] = Record(e[j].seq, e[j].ord, L[e[j].seq][o][e[j].ord])
  <2>1. \A j \in DOMAIN c : c[j] = Record(c[j].seq, c[j].ord, L[c[j].seq][o][c[j].ord])
    BY DEF Sound, AllNamed
  <2>. QED
    BY <2>1, <1>4
<1>9. ASSUME NEW i \in 1 .. n, NEW k \in DOMAIN L[i][o], L[i][o][k].op \in InSidecar
      PROVE  Holds(e, i, k) \/ Superfluous(L, n, o, e, i, k)
  <2>1. NamedBy(L, n, o, c[b]) /\ \E j \in DOMAIN e : e[j] = c[b]
    BY <1>1, <1>5 DEF AllNamed
  <2>2. Earlier(i, k, c[b]) => Superfluous(L, n, o, e, i, k)
    BY <2>1 DEF Superfluous
  <2>3. i \in Nat /\ k \in Nat
    <3>1. i \in 1 .. Len(L) /\ o \in Objects
      BY LenProperties DEF Objects
    <3>. QED
      BY <3>1, LogTypes
  <2>4. \A l \in DOMAIN c : b <= l \/ l < b
    BY <1>1
  <2>5. CASE Holds(c, i, k)
    <3>1. PICK l \in DOMAIN c : c[l].seq = i /\ c[l].ord = k
      BY <2>5 DEF Holds
    <3>2. CASE b <= l
      BY <3>1, <3>2, <1>5 DEF Holds
    <3>3. CASE l < b
      BY <3>1, <3>3, <2>2 DEF Sound
    <3>. QED
      BY <3>2, <3>3, <2>4
  <2>6. CASE Superfluous(L, n, o, c, i, k)
    <3>1. CASE Said(L, n, o, "retire") \/ o \in Tasks
      BY <2>6, <3>1, JsonlAssumption DEF Superfluous
    <3>2. CASE ~(Said(L, n, o, "retire") \/ o \in Tasks)
      <4>1. PICK l \in DOMAIN c : c[l].kind = "base" /\ NamedBy(L, n, o, c[l]) /\ Earlier(i, k, c[l])
        BY <2>6, <3>2 DEF Superfluous
      <4>2. CASE b <= l
        BY <4>1, <4>2, <1>5 DEF Superfluous
      <4>3. CASE l < b
        <5>1. Earlier(c[l].seq, c[l].ord, c[b])
          BY <4>3 DEF Sound
        <5>2. Earlier(i, k, c[b])
          BY <4>1, <5>1, <2>3, <1>1 DEF Earlier
        <5>. QED
          BY <5>2, <2>2
      <4>. QED
        BY <4>2, <4>3, <2>4
    <3>. QED
      BY <3>1, <3>2
  <2>. QED
    BY <1>9, <2>5, <2>6 DEF Sound
<1>10. Sound(L, n, o, e)
  BY <1>2, <1>6, <1>7, <1>8, <1>9 DEF Sound, AllNamed
<1>. QED
  BY <1>2, <1>6, <1>10 DEF e, m

\* The records of a change that is a base suffice for such a document.
LEMMA SoundBase ==
    ASSUME NEW L, LogOK(L), NEW n \in Nat, n < Len(L), NEW o \in Latest,
           NEW b \in DOMAIN L[n + 1][o],
           L[n + 1][o][b].op \in InSidecar, L[n + 1][o][b].kind = "base"
    PROVE  /\ Sound(L, n + 1, o, Records(L[n + 1], o, n + 1))
           /\ AllNamed(L, n + 1, o, Records(L[n + 1], o, n + 1))
<1>. DEFINE d == Records(L[n + 1], o, n + 1)
<1>1. o \in Objects /\ n + 1 \in 1 .. Len(L) /\ L \in Seq(Batch)
  BY LenProperties DEF Objects, LogOK
<1>2. /\ d \in Seq(Rec)
      /\ \A k : k \in DOMAIN d <=> k \in DOMAIN L[n + 1][o] /\ L[n + 1][o][k].op \in InSidecar
      /\ \A k \in DOMAIN d : d[k] = Record(n + 1, k, L[n + 1][o][k])
  <2>1. L[n + 1] \in Batch /\ Shaped(o, L[n + 1][o])
    BY <1>1, LogTypes, Shapes
  <2>. QED
    BY <1>1, <2>1, RecordsOf
<1>. HIDE DEF d
<1>3. ASSUME NEW j \in DOMAIN d
      PROVE  d[j].seq = n + 1 /\ d[j].ord = j /\ d[j].kind = L[n + 1][o][j].kind
  <2>1. d[j] = Record(n + 1, j, L[n + 1][o][j])
    BY <1>2
  <2>. QED
    BY <2>1 DEF Record
<1>4. AllNamed(L, n + 1, o, d)
  BY <1>2, <1>3 DEF AllNamed, NamedBy
<1>5. \A i, j \in DOMAIN d : i < j => Earlier(d[i].seq, d[i].ord, d[j])
  BY <1>3 DEF Earlier
<1>6. \A j \in DOMAIN d : d[j] = Record(d[j].seq, d[j].ord, L[d[j].seq][o][d[j].ord])
  BY <1>2, <1>3
<1>7. ASSUME NEW i \in 1 .. n + 1, NEW k \in DOMAIN L[i][o], L[i][o][k].op \in InSidecar
      PROVE  Holds(d, i, k) \/ Superfluous(L, n + 1, o, d, i, k)
  <2>1. CASE i = n + 1
    BY <1>2, <1>3, <1>7, <2>1 DEF Holds
  <2>2. CASE i # n + 1
    <3>1. i < n + 1 /\ b \in DOMAIN d
      BY <1>2, <2>2
    <3>2. Earlier(i, k, d[b]) /\ d[b].kind = "base"
      BY <1>3, <3>1 DEF Earlier
    <3>. QED
      BY <1>4, <3>1, <3>2 DEF Superfluous, AllNamed
  <2>. QED
    BY <2>1, <2>2
<1>8. Sound(L, n + 1, o, d)
  BY <1>2, <1>4, <1>5, <1>6, <1>7 DEF Sound, AllNamed
<1>. QED
  BY <1>4, <1>8 DEF d

------------------------------------------------------------------------------
(* Files *)

\* Two sequences of numbers from 1 on are equal only if they end alike.
LEMMA SameEnd ==
    ASSUME NEW m \in Nat, NEW n \in Nat, 1 .. m = 1 .. n
    PROVE  m = n
<1>1. CASE m < n
  <2>1. n \in 1 .. n /\ n \notin 1 .. m
    BY <1>1
  <2>. QED
    BY <2>1
<1>2. CASE n < m
  <2>1. m \in 1 .. m /\ m \notin 1 .. n
    BY <1>2
  <2>. QED
    BY <2>1
<1>. QED
  BY <1>1, <1>2

\* The markers of n batches are n lines.
LEMMA MarkersLen ==
    ASSUME NEW L, NEW n \in Nat
    PROVE  /\ Len(MarkersOf(L, n)) = n /\ DOMAIN MarkersOf(L, n) = 1 .. n
           /\ \A i \in 1 .. n : MarkersOf(L, n)[i] = Marker(L[i], i)
           /\ \A S : (\A i \in 1 .. n : Marker(L[i], i) \in S) => MarkersOf(L, n) \in Seq(S)
<1>1. DOMAIN MarkersOf(L, n) = 1 .. n /\ \A i \in 1 .. n : MarkersOf(L, n)[i] = Marker(L[i], i)
  BY DEF MarkersOf
<1>2. ASSUME NEW S, \A i \in 1 .. n : Marker(L[i], i) \in S PROVE MarkersOf(L, n) \in Seq(S)
  <2>1. MarkersOf(L, n) \in [1 .. n -> S]
    BY <1>2 DEF MarkersOf
  <2>. QED
    BY <2>1, SeqDef
<1>. DEFINE S == {Marker(L[i], i) : i \in 1 .. n}
            m == Len(MarkersOf(L, n))
<1>3. MarkersOf(L, n) \in Seq(S)
  <2>1. \A i \in 1 .. n : Marker(L[i], i) \in S
    OBVIOUS
  <2>. HIDE DEF S
  <2>. QED
    BY <1>2, <2>1
<1>4. m \in Nat /\ 1 .. m = 1 .. n
  BY <1>1, <1>3, LenProperties
<1>. HIDE DEF m
<1>5. m = n
  BY <1>4, SameEnd
<1>. QED
  BY <1>1, <1>2, <1>5 DEF m

\* One more line in the main file is the marker of one more batch.
LEMMA MarkerAppended ==
    ASSUME NEW L \in Seq(Batch), NEW b \in Batch
    PROVE  MarkersOf(L, Len(L)) \o <<Marker(b, Len(L) + 1)>> = MarkersOf(Append(L, b), Len(L) + 1)
<1>. DEFINE n == Len(L)
            M == Append(L, b)
            x == Marker(b, n + 1)
            S == {Marker(M[i], i) : i \in 1 .. n + 1}
            s == MarkersOf(L, n)
            t == MarkersOf(M, n + 1)
            u == s \o <<x>>
<1>1. n \in Nat /\ M[n + 1] = b /\ \A i \in 1 .. n : M[i] = L[i]
  BY LogGrows
<1>2. \A i \in 1 .. n + 1 : Marker(M[i], i) \in S
  OBVIOUS
<1>3. x \in S
  <2>1. n + 1 \in 1 .. n + 1 /\ x = Marker(M[n + 1], n + 1)
    BY <1>1
  <2>. QED
    BY <2>1, <1>2
<1>4. \A i \in 1 .. n : Marker(L[i], i) \in S
  BY <1>1, <1>2
<1>. HIDE DEF S
<1>5. s \in Seq(S) /\ Len(s) = n /\ \A i \in 1 .. n : s[i] = Marker(L[i], i)
  BY <1>1, <1>4, MarkersLen
<1>6. t \in Seq(S) /\ Len(t) = n + 1 /\ \A i \in 1 .. n + 1 : t[i] = Marker(M[i], i)
  <2>1. n + 1 \in Nat
    BY <1>1
  <2>. QED
    BY <2>1, <1>2, MarkersLen
<1>7. <<x>> \in Seq(S) /\ Len(<<x>>) = 1 /\ <<x>>[1] = x
  BY <1>3
<1>. HIDE DEF n, M, x, s, t
<1>8. u \in Seq(S) /\ Len(u) = n + 1
      /\ \A i \in 1 .. n + 1 : u[i] = IF i <= n THEN s[i] ELSE <<x>>[i - n]
  BY <1>5, <1>7, ConcatProperties
<1>. HIDE DEF u
<1>9. \A i \in 1 .. n + 1 : u[i] = t[i]
  <2>1. ASSUME NEW i \in 1 .. n PROVE u[i] = t[i]
    <3>1. i \in 1 .. n + 1 /\ i <= n
      BY <1>1
    <3>. QED
      BY <3>1, <1>1, <1>5, <1>6, <1>8
  <2>2. u[n + 1] = t[n + 1]
    <3>1. n + 1 \in 1 .. n + 1 /\ ~(n + 1 <= n) /\ (n + 1) - n = 1
      BY <1>1
    <3>2. x = Marker(M[n + 1], n + 1)
      BY <1>1 DEF x
    <3>. QED
      BY <3>1, <3>2, <1>6, <1>7, <1>8
  <2>3. \A i \in 1 .. n + 1 : i \in 1 .. n \/ i = n + 1
    BY <1>1
  <2>. QED
    BY <2>1, <2>2, <2>3
<1>10. u = t
  BY <1>6, <1>8, <1>9, SeqEqual
<1>. QED
  BY <1>10 DEF u, s, t, n, M, x

\* What the append of one line leaves when it is cut short.
LEMMA CutLine ==
    ASSUME NEW c, NEW S, c.lines \in Seq(S), NEW x \in S, NEW e \in CutShort(c, <<x>>)
    PROVE  e.lines = c.lines \/ e.lines = c.lines \o <<x>>
<1>1. PICK k \in 0 .. 1, t \in BOOLEAN : e = [lines |-> c.lines \o SubSeq(<<x>>, 1, k), torn |-> t]
  BY DEF CutShort
<1>2. CASE k = 0
  <2>1. SubSeq(<<x>>, 1, k) = <<>>
    BY <1>2, SubSeqEmpty
  <2>. QED
    BY <1>1, <2>1, ConcatEmptySeq
<1>3. CASE k = 1
  <2>1. <<x>> \in Seq(S) /\ Len(<<x>>) = 1
    OBVIOUS
  <2>2. SubSeq(<<x>>, 1, k) = <<x>>
    BY <1>3, <2>1, SubSeqFull
  <2>. QED
    BY <1>1, <2>2
<1>. QED
  BY <1>2, <1>3

\* The markers that a version of the main file holds are a prefix of those of the log.
LEMMA LengthsAre ==
    ASSUME LogOK(log), MainOK
    PROVE  /\ Len(log) \in Nat /\ Len(log) \in Lengths /\ Lengths \subseteq 0 .. Len(log)
           /\ \A m \in Versions(Main) : Len(m.lines) \in Lengths /\ m.lines = MarkersOf(log, Len(m.lines))
<1>1. Len(log) \in Nat
  BY LenProperties DEF LogOK
<1>2. \A m \in Versions(Main) : \E n \in 0 .. Len(log) : m.lines = MarkersOf(log, n)
  BY <1>1 DEF MainOK, Versions
<1>3. ASSUME NEW m \in Versions(Main)
      PROVE  Len(m.lines) \in 0 .. Len(log) /\ m.lines = MarkersOf(log, Len(m.lines))
  <2>1. PICK n \in 0 .. Len(log) : m.lines = MarkersOf(log, n)
    BY <1>2
  <2>2. Len(m.lines) = n
    BY <1>1, <2>1, MarkersLen
  <2>. QED
    BY <2>1, <2>2
<1>4. disk[Main] \in Versions(Main) /\ Len(disk[Main].lines) = Len(log)
  BY <1>1, MarkersLen DEF MainOK, Versions
<1>. QED
  BY <1>1, <1>3, <1>4 DEF Lengths

\* What the files and their versions are once f shows c.
LEMMA Shown ==
    ASSUME RiskOK, NEW f \in Files, NEW c, NEW between, Shows(f, c, between),
           budget["power"] \in Nat, budget'["power"] = budget["power"]
    PROVE  /\ RiskOK'
           /\ disk'[f] = c /\ \A g \in Files \ {f} : disk'[g] = disk[g] /\ risk'[g] = risk[g]
           /\ \A x \in risk'[f] : \/ x \in risk[f] \cup {disk[f]}
                                  \/ budget["power"] > 0 /\ x \in between
<1>1. /\ DOMAIN disk' = Files /\ DOMAIN risk' = Files
      /\ disk'[f] = c /\ \A g \in Files \ {f} : disk'[g] = disk[g] /\ risk'[g] = risk[g]
  BY DEF Shows, RiskOK
<1>2. CASE budget["power"] > 0
  <2>1. risk'[f] = risk[f] \cup {disk[f]} \cup between
    BY <1>2 DEF Shows, RiskOK
  <2>. QED
    BY <1>1, <1>2, <2>1 DEF RiskOK
<1>3. CASE ~(budget["power"] > 0)
  <2>1. risk' = risk /\ budget["power"] = 0
    BY <1>3 DEF Shows
  <2>. QED
    BY <1>1, <2>1 DEF RiskOK
<1>. QED
  BY <1>2, <1>3

\* A sidecar shows something sound.
LEMMA SidecarShown ==
    ASSUME FilesOK, NEW o \in Objects, NEW c, NEW between, Shows(o, c, between), log' = log,
           budget["power"] \in Nat, budget'["power"] = budget["power"],
           \A n \in Lengths : Sound(log, n, o, c.lines),
           budget["power"] > 0 => \A x \in between : \A n \in Lengths : Sound(log, n, o, x.lines)
    PROVE  FilesOK'
<1>1. o \in Files /\ Main \in Files /\ o # Main /\ RiskOK
  BY JsonlAssumption DEF Files, FilesOK
<1>2. /\ RiskOK'
      /\ disk'[o] = c /\ \A g \in Files \ {o} : disk'[g] = disk[g] /\ risk'[g] = risk[g]
      /\ \A x \in risk'[o] : \/ x \in risk[o] \cup {disk[o]}
                             \/ budget["power"] > 0 /\ x \in between
  BY <1>1, Shown
<1>3. disk'[Main] = disk[Main] /\ risk'[Main] = risk[Main]
  BY <1>1, <1>2
<1>4. Lengths' = Lengths /\ MainOK'
  BY <1>3 DEF Lengths, Versions, MainOK, FilesOK
<1>5. ASSUME NEW p \in Objects, NEW e \in {disk'[p]} \cup risk'[p], NEW n \in Lengths
      PROVE  Sound(log, n, p, e.lines)
  <2>1. CASE p # o
    <3>1. p \in Files \ {o}
      BY <2>1 DEF Files
    <3>2. e \in {disk[p]} \cup risk[p]
      BY <1>2, <1>5, <3>1
    <3>. QED
      BY <1>5, <3>2 DEF FilesOK, SidecarsOK, Versions
  <2>2. CASE p = o /\ (e = c \/ (budget["power"] > 0 /\ e \in between))
    BY <2>2
  <2>3. CASE p = o /\ e \in risk[o] \cup {disk[o]}
    BY <2>3 DEF FilesOK, SidecarsOK, Versions
  <2>. QED
    BY <1>2, <1>5, <2>1, <2>2, <2>3
<1>6. SidecarsOK'
  BY <1>4, <1>5 DEF SidecarsOK, Versions
<1>. QED
  BY <1>2, <1>4, <1>6 DEF FilesOK

\* The main file shows what it has shown already, perhaps another end of it.
LEMMA MainShown ==
    ASSUME LogOK(log), FilesOK, NEW c, NEW between, Shows(Main, c, between), log' = log,
           budget["power"] \in Nat, budget'["power"] = budget["power"],
           \A x \in {c} \cup between : x.lines = MarkersOf(log, Len(log))
    PROVE  FilesOK'
<1>1. Main \in Files /\ RiskOK /\ Main \notin Objects
  BY JsonlAssumption DEF Files, FilesOK
<1>2. /\ RiskOK'
      /\ disk'[Main] = c /\ \A g \in Files \ {Main} : disk'[g] = disk[g] /\ risk'[g] = risk[g]
      /\ \A x \in risk'[Main] : x \in risk[Main] \cup {disk[Main]} \cup between
  BY <1>1, Shown
<1>3. Len(log) \in Nat /\ Len(log) \in Lengths
  BY LengthsAre DEF FilesOK
<1>4. MainOK'
  <2>1. \A x \in risk'[Main] : \E n \in 0 .. Len(log) : x.lines = MarkersOf(log, n)
    BY <1>2, <1>3 DEF FilesOK, MainOK
  <2>. QED
    BY <1>2, <2>1 DEF MainOK
<1>5. Lengths' \subseteq Lengths
  <2>1. \A x \in {disk'[Main]} \cup risk'[Main] :
           x \in {disk[Main]} \cup risk[Main] \/ x.lines = MarkersOf(log, Len(log))
    BY <1>2
  <2>2. Len(MarkersOf(log, Len(log))) = Len(log)
    BY <1>3, MarkersLen
  <2>3. \A x \in {disk'[Main]} \cup risk'[Main] : Len(x.lines) \in Lengths
    BY <1>3, <2>1, <2>2 DEF Lengths, Versions
  <2>. QED
    BY <2>3 DEF Lengths, Versions
<1>6. SidecarsOK'
  <2>1. \A o \in Objects : disk'[o] = disk[o] /\ risk'[o] = risk[o]
    BY <1>1, <1>2 DEF Files
  <2>. QED
    BY <1>5, <2>1 DEF FilesOK, SidecarsOK, Versions
<1>. QED
  BY <1>2, <1>4, <1>6 DEF FilesOK

\* The main file shows one marker more: every version of every sidecar is as good with
\* it as without, because those of the objects it names have been flushed.
LEMMA Published ==
    ASSUME StorageInv, job.at = "marker", NEW c, NEW between, Shows(Main, c, between),
           log' = Append(log, job.writes), budget'["power"] = budget["power"],
           c.lines = MarkersOf(log', Len(log) + 1),
           \A x \in between : \/ x.lines = MarkersOf(log, Len(log))
                              \/ x.lines = MarkersOf(log', Len(log) + 1)
    PROVE  FilesOK' /\ LogOK(log)' /\ Len(log') = Len(log) + 1 /\ \A i \in 1 .. Len(log) : log'[i] = log[i]
<1>. DEFINE N == Len(log)
            next == Append(log, job.writes)
<1>1. /\ LogOK(log) /\ FilesOK /\ RiskOK /\ WritingOK /\ job.writes \in Batch
      /\ budget["power"] \in Nat /\ Writing
  BY DEF StorageInv, FilesOK, TypeOK, Writing, Failures
<1>2. log \in Seq(Batch) /\ N \in Nat /\ Len(next) = N + 1 /\ next[N + 1] = job.writes
      /\ \A i \in 1 .. N : next[i] = log[i]
  BY <1>1, LogGrows DEF LogOK
<1>3. /\ LogOK(next) /\ \A o \in Objects : Ready(next, o, disk[o].lines)
      /\ \A o \in Touched(job.writes, N + 1) : risk[o] = {}
  BY <1>1 DEF WritingOK
<1>4. Main \in Files /\ Main \notin Objects
  BY JsonlAssumption DEF Files
<1>5. /\ RiskOK'
      /\ disk'[Main] = c /\ \A g \in Files \ {Main} : disk'[g] = disk[g] /\ risk'[g] = risk[g]
      /\ \A x \in risk'[Main] : x \in risk[Main] \cup {disk[Main]} \cup between
  BY <1>1, <1>4, Shown
<1>. HIDE DEF N, next
<1>n. log' = next
  BY DEF next
<1>6. \A n \in 0 .. N : MarkersOf(next, n) = MarkersOf(log, n)
  <2>1. ASSUME NEW n \in 0 .. N PROVE \A i \in 1 .. n : next[i] = log[i]
    BY <1>2
  <2>. QED
    BY <2>1 DEF MarkersOf
<1>7. MainOK'
  <2>1. disk'[Main].lines = MarkersOf(next, Len(next))
    BY <1>2, <1>5, <1>n DEF N
  <2>2. \A x \in risk'[Main] : \E n \in 0 .. Len(next) : x.lines = MarkersOf(next, n)
    <3>1. ASSUME NEW x \in risk'[Main] PROVE \E n \in 0 .. N + 1 : x.lines = MarkersOf(next, n)
      <4>1. \/ \E n \in 0 .. N : x.lines = MarkersOf(log, n)
            \/ x.lines = MarkersOf(log, N)
            \/ x.lines = MarkersOf(next, N + 1)
        BY <1>1, <1>5, <1>n DEF FilesOK, MainOK, N
      <4>2. N \in 0 .. N /\ N + 1 \in 0 .. N + 1 /\ \A n \in 0 .. N : n \in 0 .. N + 1
        BY <1>2
      <4>. QED
        BY <4>1, <4>2, <1>6
    <3>. QED
      BY <1>2, <3>1
  <2>. QED
    BY <1>n, <2>1, <2>2 DEF MainOK
<1>8. \A n \in Lengths' : n \in Lengths \/ n = N + 1
  <2>1. Len(MarkersOf(log, N)) = N /\ Len(MarkersOf(next, N + 1)) = N + 1
    BY <1>2, MarkersLen
  <2>2. N \in Lengths
    BY <1>1, LengthsAre DEF FilesOK, N
  <2>3. ASSUME NEW x \in {disk'[Main]} \cup risk'[Main] PROVE Len(x.lines) \in Lengths \/ Len(x.lines) = N + 1
    <3>1. \/ x \in {disk[Main]} \cup risk[Main]
          \/ x.lines = MarkersOf(log, N)
          \/ x.lines = MarkersOf(next, N + 1)
      BY <1>5, <1>n DEF N
    <3>. QED
      BY <3>1, <2>1, <2>2 DEF Lengths, Versions
  <2>. QED
    BY <2>3 DEF Lengths, Versions
<1>9. ASSUME NEW o \in Objects, NEW e \in {disk[o]} \cup risk[o], NEW n \in Lengths'
      PROVE  Sound(next, n, o, e.lines)
  <2>1. CASE n \in Lengths
    <3>1. Sound(log, n, o, e.lines)
      BY <1>1, <1>9, <2>1 DEF FilesOK, SidecarsOK, Versions
    <3>2. \A i \in 1 .. n : log[i] = next[i]
      <4>1. n \in 0 .. N
        BY <1>1, <2>1, LengthsAre DEF FilesOK, N
      <4>. QED
        BY <4>1, <1>2
    <3>. QED
      BY <3>1, <3>2, SameSound
  <2>2. CASE n = N + 1 /\ e = disk[o]
    BY <2>2, <1>2, <1>3 DEF Ready
  <2>3. CASE n = N + 1 /\ e # disk[o]
    <3>1. o \notin Touched(job.writes, N + 1)
      BY <1>3, <1>9, <2>3
    <3>2. Shaped(o, next[N + 1][o])
      BY <1>2, <1>3, Shapes
    <3>3. \A k \in DOMAIN next[N + 1][o] : next[N + 1][o][k].op \notin InSidecar
      BY <1>1, <1>2, <3>1, <3>2, TouchedWhen
    <3>4. Sound(log, N, o, e.lines)
      BY <1>1, <1>9, LengthsAre DEF FilesOK, SidecarsOK, Versions, N
    <3>5. Sound(next, N, o, e.lines)
      BY <1>2, <3>4, SameSound
    <3>. QED
      BY <1>2, <2>3, <3>3, <3>5, SoundUntouched
  <2>. QED
    BY <1>8, <2>1, <2>2, <2>3
<1>10. SidecarsOK'
  <2>1. \A o \in Objects : disk'[o] = disk[o] /\ risk'[o] = risk[o]
    BY <1>4, <1>5 DEF Files
  <2>. QED
    BY <1>n, <1>9, <2>1 DEF SidecarsOK, Versions
<1>11. FilesOK'
  BY <1>5, <1>7, <1>10 DEF FilesOK
<1>. QED
  BY <1>2, <1>3, <1>11, <1>n DEF N

\* The first batches of a log are a log in order.
LEMMA PrefixOK ==
    ASSUME NEW L, LogOK(L), NEW n \in 0 .. Len(L)
    PROVE  /\ LogOK(SubSeq(L, 1, n)) /\ Len(SubSeq(L, 1, n)) = n
           /\ \A i \in 1 .. n : SubSeq(L, 1, n)[i] = L[i]
<1>. DEFINE M == SubSeq(L, 1, n)
<1>1. L \in Seq(Batch) /\ DOMAIN L = 1 .. Len(L) /\ Len(L) \in Nat /\ n \in Nat
  BY LenProperties DEF LogOK
<1>2. \A i \in 1 .. n : i \in DOMAIN L /\ L[i] \in Batch
  BY <1>1, LogTypes, ElementOfSeq
<1>3. M \in Seq(Batch) /\ Len(M) = n /\ \A i \in 1 .. n : M[i] = L[i]
  <2>1. M \in Seq(Batch) /\ Len(M) = (IF 1 <= n THEN n - 1 + 1 ELSE 0)
        /\ \A i \in 1 .. n - 1 + 1 : M[i] = L[1 + i - 1]
    BY <1>1, <1>2, SubSeqProperties
  <2>. QED
    BY <1>1, <2>1
<1>4. DOMAIN M = 1 .. n
  BY <1>3, LenProperties
<1>. HIDE DEF M
<1>5. ASSUME NEW o \in Objects PROVE Orderly(M, o)
  <2>1. Orderly(L, o)
    BY DEF LogOK
  <2>2. \A i \in DOMAIN M : i \in DOMAIN L /\ M[i] = L[i] /\ \A j \in 1 .. i - 1 : j \in DOMAIN M /\ M[j] = L[j]
    BY <1>1, <1>2, <1>3, <1>4
  <2>3. \A i \in DOMAIN M : Shaped(o, M[i][o])
    BY <2>1, <2>2 DEF Orderly
  <2>4. ASSUME NEW i \in DOMAIN M, NEW k \in DOMAIN M[i][o]
        PROVE  /\ M[i][o][k].op \in {"terminal", "retire"} => \A j \in DOMAIN M : j > i => M[j][o] = <<>>
               /\ M[i][o][k].op = "create" => \A j \in 1 .. i - 1 : M[j][o] = <<>>
               /\ o \notin Tasks /\ k = 1 /\ M[i][o][k].op # "create" => \E j \in 1 .. i - 1 : M[j][o] # <<>>
    <3>1. i \in DOMAIN L /\ M[i] = L[i] /\ k \in DOMAIN L[i][o]
      BY <2>2
    <3>2. M[i][o][k].op \in {"terminal", "retire"} => \A j \in DOMAIN M : j > i => M[j][o] = <<>>
      BY <2>1, <2>2, <3>1 DEF Orderly
    <3>3. M[i][o][k].op = "create" => \A j \in 1 .. i - 1 : M[j][o] = <<>>
      BY <2>1, <2>2, <3>1 DEF Orderly
    <3>4. o \notin Tasks /\ k = 1 /\ M[i][o][k].op # "create" => \E j \in 1 .. i - 1 : M[j][o] # <<>>
      BY <2>1, <2>2, <3>1 DEF Orderly
    <3>. QED
      BY <3>2, <3>3, <3>4
  <2>. QED
    BY <2>3, <2>4 DEF Orderly
<1>. QED
  BY <1>3, <1>5 DEF LogOK, M

\* The files of a host that has failed are versions of what they were.
LEMMA PowerLost ==
    ASSUME StorageInv, PowerFails
    PROVE  /\ LogOK(log)' /\ FilesOK' /\ Len(log') \in 0 .. Len(log)
           /\ log' = SubSeq(log, 1, Len(log'))
<1>. DEFINE n == Len(disk'[Main].lines)
<1>1. LogOK(log) /\ FilesOK
  BY DEF StorageInv
<1>2. DOMAIN disk' = Files /\ DOMAIN risk' = Files
      /\ \A f \in Files : disk'[f] \in Versions(f) /\ risk'[f] = {}
  BY DEF PowerFails, Versions
<1>3. log' = SubSeq(log, 1, n)
  BY DEF PowerFails
<1>4. Main \in Files /\ \A o \in Objects : o \in Files
  BY DEF Files
<1>5. n \in Lengths /\ n \in 0 .. Len(log) /\ disk'[Main].lines = MarkersOf(log, n)
  BY <1>1, <1>2, <1>4, LengthsAre DEF FilesOK
<1>. HIDE DEF n
<1>6. LogOK(log') /\ Len(log') = n /\ \A i \in 1 .. n : log'[i] = log[i]
  BY <1>1, <1>3, <1>5, PrefixOK
<1>7. MarkersOf(log', n) = MarkersOf(log, n)
  BY <1>6 DEF MarkersOf
<1>8. MainOK'
  BY <1>2, <1>4, <1>5, <1>6, <1>7 DEF MainOK
<1>9. Lengths' = {n}
  <2>1. Versions(Main)' = {disk'[Main]}
    BY <1>2, <1>4 DEF Versions
  <2>. QED
    BY <2>1 DEF Lengths, n
<1>10. SidecarsOK'
  <2>1. ASSUME NEW o \in Objects, NEW c \in Versions(o)' PROVE Sound(log', n, o, c.lines)
    <3>1. c \in Versions(o)
      BY <1>2, <1>4 DEF Versions
    <3>2. Sound(log, n, o, c.lines)
      BY <1>1, <1>5, <3>1 DEF FilesOK, SidecarsOK
    <3>. QED
      BY <1>6, <3>2, SameSound
  <2>. QED
    BY <1>9, <2>1 DEF SidecarsOK
<1>11. RiskOK'
  BY <1>2 DEF RiskOK
<1>12. log' = SubSeq(log, 1, Len(log'))
  BY <1>3, <1>6
<1>. QED
  BY <1>5, <1>6, <1>8, <1>10, <1>11, <1>12 DEF FilesOK

------------------------------------------------------------------------------
(* What the markers prove *)

\* Marker i of the main file is that of batch i.
LEMMA MarkerIs ==
    ASSUME LogOK(log), MainOK
    PROVE  /\ DOMAIN Markers = 1 .. Len(log) /\ Len(Markers) = Len(log)
           /\ \A i \in 1 .. Len(log) : Markers[i].seq = i
           /\ \A i \in 1 .. Len(log) : \A o \in Objects :
                /\ DOMAIN Markers[i].ops[o] = DOMAIN log[i][o]
                /\ \A k \in DOMAIN log[i][o] :
                     /\ Markers[i].ops[o][k].op = log[i][o][k].op
                     /\ log[i][o][k].op \notin InSidecar =>
                           Markers[i].ops[o][k].att = log[i][o][k].att
<1>1. Len(log) \in Nat
  BY LenProperties DEF LogOK
<1>2. /\ DOMAIN Markers = 1 .. Len(log) /\ Len(Markers) = Len(log)
      /\ \A i \in 1 .. Len(log) : Markers[i] = Marker(log[i], i)
  BY <1>1, MarkersLen DEF Markers, MainOK
<1>3. ASSUME NEW i, NEW o \in Objects
      PROVE  /\ DOMAIN Marker(log[i], i).ops[o] = DOMAIN log[i][o]
             /\ \A k \in DOMAIN log[i][o] :
                  /\ Marker(log[i], i).ops[o][k].op = log[i][o][k].op
                  /\ log[i][o][k].op \notin InSidecar =>
                        Marker(log[i], i).ops[o][k].att = log[i][o][k].att
  BY DEF Marker
<1>4. \A i : Marker(log[i], i).seq = i
  BY DEF Marker
<1>. QED
  BY <1>2, <1>3, <1>4

\* The records that markers name.
LEMMA NamedIs ==
    ASSUME LogOK(log), MainOK, NEW o \in Objects, NEW r
    PROVE  Named(o, r) <=> NamedBy(log, Len(log), o, r)
<1>1. Named(o, r) <=>
        \E i \in 1 .. Len(log) : /\ i = r.seq /\ r.ord \in DOMAIN log[i][o]
                                 /\ log[i][o][r.ord].op \in {"live", "create", "change"}
  BY MarkerIs DEF Named
<1>. QED
  BY <1>1 DEF NamedBy, InSidecar

\* Whether a document is retired, and a task has ended.
LEMMA EndIs ==
    ASSUME LogOK(log), MainOK, NEW o \in Objects
    PROVE  /\ Retired(o) <=> Said(log, Len(log), o, "retire")
           /\ o \in Tasks => (EndsTerminal(o) <=> Said(log, Len(log), o, "terminal"))
<1>1. Retired(o) <=> Said(log, Len(log), o, "retire")
  BY MarkerIs DEF Retired, Said
<1>2. ASSUME o \in Tasks, EndsTerminal(o) PROVE Said(log, Len(log), o, "terminal")
  BY <1>2, MarkerIs DEF EndsTerminal, Said
<1>3. ASSUME o \in Tasks, Said(log, Len(log), o, "terminal") PROVE EndsTerminal(o)
  <2>1. PICK i \in 1 .. Len(log) : \E k \in DOMAIN log[i][o] : log[i][o][k].op = "terminal"
    BY <1>3 DEF Said
  <2>2. PICK k \in DOMAIN log[i][o] : log[i][o][k].op = "terminal"
    BY <2>1
  <2>3. log \in Seq(Batch) /\ DOMAIN log = 1 .. Len(log) /\ Len(log) \in Nat
    BY LenProperties DEF LogOK
  <2>4. \A j \in 1 .. Len(log) : j > i => log[j][o] = <<>>
    BY <2>2, <2>3 DEF LogOK, Orderly
  <2>5. \A l \in DOMAIN log[i][o] : l = k
    <3>1. Shaped(o, log[i][o])
      BY Shapes
    <3>2. Len(log[i][o]) = 1
      BY <1>3, <2>2, <3>1 DEF Shaped
    <3>. QED
      BY <2>2, <2>3, <3>2, LogTypes
  <2>6. ASSUME NEW j \in 1 .. Len(log), NEW l \in DOMAIN log[j][o] PROVE ~Follows(i, k, j, l)
    <3>1. CASE j > i
      <4>1. log[j][o] = <<>>
        BY <2>4, <3>1
      <4>. QED
        BY <4>1
    <3>2. CASE j = i
      BY <2>2, <2>3, <2>5, <3>2, LogTypes DEF Follows
    <3>3. CASE j < i
      BY <2>3, <3>3 DEF Follows
    <3>. QED
      BY <2>3, <3>1, <3>2, <3>3
  <2>. QED
    BY <2>2, <2>6, MarkerIs DEF EndsTerminal
<1>. QED
  BY <1>1, <1>2, <1>3

\* A record may have been reclaimed exactly if it is superfluous.
LEMMA OptionalIs ==
    ASSUME LogOK(log), MainOK, NEW o \in Objects, NEW i, NEW k
    PROVE  /\ Optional(o, i, k) <=> Superfluous(log, Len(log), o, Lines(o), i, k)
           /\ ConfirmedBases(o) = {j \in DOMAIN Lines(o) :
                 Lines(o)[j].kind = "base" /\ NamedBy(log, Len(log), o, Lines(o)[j])}
           /\ Unnamed(o) = {j \in DOMAIN Lines(o) : ~NamedBy(log, Len(log), o, Lines(o)[j])}
<1>1. \A r : Named(o, r) <=> NamedBy(log, Len(log), o, r)
  BY NamedIs
<1>2. ConfirmedBases(o) = {j \in DOMAIN Lines(o) :
                 Lines(o)[j].kind = "base" /\ NamedBy(log, Len(log), o, Lines(o)[j])}
  BY <1>1 DEF ConfirmedBases
<1>3. Unnamed(o) = {j \in DOMAIN Lines(o) : ~NamedBy(log, Len(log), o, Lines(o)[j])}
  BY <1>1 DEF Unnamed
<1>4. BeforeLatestBase(o, i, k) <=>
        \E j \in DOMAIN Lines(o) : /\ Lines(o)[j].kind = "base" /\ NamedBy(log, Len(log), o, Lines(o)[j])
                                   /\ Earlier(i, k, Lines(o)[j])
  BY <1>2 DEF BeforeLatestBase
<1>5. Optional(o, i, k) <=> Superfluous(log, Len(log), o, Lines(o), i, k)
  <2>1. CASE o \in Tasks
    BY <2>1, EndIs, JsonlAssumption DEF Optional, Superfluous
  <2>2. CASE o \notin Tasks
    BY <2>2, <1>4, EndIs DEF Optional, Superfluous
  <2>. QED
    BY <2>1, <2>2
<1>. QED
  BY <1>2, <1>3, <1>5

------------------------------------------------------------------------------
(* One round of the replay *)

\* What recovery makes of the writes of a batch: an event that may have been reclaimed
\* is left out unless it is a creation, and the others are as they were.
LEMMA EventsAre ==
    ASSUME LogOK(log), MainOK, NEW o \in Objects, Sound(log, Len(log), o, Lines(o)),
           NEW i \in 1 .. Len(log)
    PROVE  /\ DOMAIN EventsOf(o, Markers[i]) =
                 {k \in DOMAIN log[i][o] : log[i][o][k].op \in {"live", "change"} => ~Optional(o, i, k)}
           /\ \A k \in DOMAIN EventsOf(o, Markers[i]) :
                 /\ EventsOf(o, Markers[i])[k].op = log[i][o][k].op
                 /\ log[i][o][k].op \in InSidecar /\ Optional(o, i, k) =>
                       EventsOf(o, Markers[i])[k].kind = "base"
                 /\ ~(log[i][o][k].op \in InSidecar /\ Optional(o, i, k)) =>
                       EventsOf(o, Markers[i])[k] = Events(log[i], o, i)[k]
           /\ \A k \in DOMAIN log[i][o] : log[i][o][k].op \in InSidecar /\ ~Optional(o, i, k) =>
                 At(o, i, k) # {}
           /\ \A k \in DOMAIN log[i][o] : \A j \in At(o, i, k) : log[i][o][k].op \in InSidecar =>
                 Lines(o)[j].kind = log[i][o][k].kind /\ Lines(o)[j].att = log[i][o][k].att
<1>. DEFINE m == Markers[i]
            w == log[i][o]
            E == EventsOf(o, m)
<1>1. /\ m.seq = i /\ DOMAIN m.ops[o] = DOMAIN w
      /\ \A k \in DOMAIN w : /\ m.ops[o][k].op = w[k].op
                             /\ w[k].op \notin InSidecar => m.ops[o][k].att = w[k].att
  BY MarkerIs
<1>2. Shaped(o, w)
  BY Shapes
<1>. HIDE DEF m, w
<1>3. DOMAIN E = {k \in DOMAIN w : w[k].op \in {"live", "change"} => ~Optional(o, i, k)}
  <2>1. DOMAIN E = {k \in DOMAIN m.ops[o] : Replays(o, m, k)}
    BY DEF EventsOf
  <2>2. \A k \in DOMAIN w : Replays(o, m, k) <=> (w[k].op \in {"live", "change"} => ~Optional(o, i, k))
    BY <1>1 DEF Replays
  <2>. QED
    BY <2>1, <2>2, <1>1
<1>4. ASSUME NEW k \in DOMAIN w, w[k].op \in InSidecar, NEW j \in At(o, i, k)
      PROVE  Lines(o)[j].kind = w[k].kind /\ Lines(o)[j].att = w[k].att
  <2>1. j \in DOMAIN Lines(o) /\ Lines(o)[j].seq = i /\ Lines(o)[j].ord = k
    BY <1>4 DEF At
  <2>2. NamedBy(log, Len(log), o, Lines(o)[j])
    BY <1>4, <2>1 DEF NamedBy, w
  <2>3. Lines(o)[j] = Record(i, k, w[k])
    BY <2>1, <2>2 DEF Sound, w
  <2>. QED
    BY <2>3 DEF Record
<1>5. ASSUME NEW k \in DOMAIN w, w[k].op \in InSidecar, ~Optional(o, i, k)
      PROVE  At(o, i, k) # {}
  <2>1. Holds(Lines(o), i, k)
    BY <1>5, OptionalIs DEF Sound, w
  <2>. QED
    BY <2>1 DEF Holds, At
<1>6. ASSUME NEW k \in DOMAIN E
      PROVE  /\ E[k].op = w[k].op
             /\ w[k].op \in InSidecar /\ Optional(o, i, k) => E[k].kind = "base"
             /\ ~(w[k].op \in InSidecar /\ Optional(o, i, k)) => E[k] = Events(log[i], o, i)[k]
  <2>. DEFINE line == Lines(o)[CHOOSE j \in At(o, i, k) : TRUE]
  <2>1. k \in DOMAIN w
    BY <1>3
  <2>2. E[k] = Recovered(o, m, k)
    BY <1>6 DEF EventsOf
  <2>3. Events(log[i], o, i)[k] = [op |-> w[k].op, kind |-> w[k].kind, seq |-> i, att |-> w[k].att]
    BY <2>1 DEF Events, w
  <2>4. CASE w[k].op \notin InSidecar
    <3>1. E[k] = [op |-> w[k].op, kind |-> IF w[k].op = "terminal" THEN "task" ELSE "none",
                  seq |-> i, att |-> w[k].att]
      BY <2>1, <2>2, <2>4, <1>1 DEF Recovered
    <3>2. w[k].kind = IF w[k].op = "terminal" THEN "task" ELSE "none"
      BY <2>1, <2>4, <1>2 DEF Shaped, InSidecar
    <3>. QED
      BY <2>3, <2>4, <3>1, <3>2
  <2>5. CASE w[k].op \in InSidecar /\ Optional(o, i, k)
    <3>1. E[k] = [op |-> w[k].op, kind |-> "base", seq |-> i, att |-> 0]
      BY <2>1, <2>2, <2>5, <1>1 DEF Recovered
    <3>. QED
      BY <2>5, <3>1
  <2>6. CASE w[k].op \in InSidecar /\ ~Optional(o, i, k)
    <3>1. E[k] = [op |-> w[k].op, kind |-> line.kind, seq |-> i, att |-> line.att]
      BY <2>1, <2>2, <2>6, <1>1 DEF Recovered
    <3>2. (CHOOSE j \in At(o, i, k) : TRUE) \in At(o, i, k)
      BY <2>1, <2>6, <1>5
    <3>3. line.kind = w[k].kind /\ line.att = w[k].att
      BY <2>1, <2>6, <3>2, <1>4
    <3>. QED
      BY <2>3, <2>6, <3>1, <3>3
  <2>. QED
    BY <2>4, <2>5, <2>6
<1>. QED
  BY <1>3, <1>4, <1>5, <1>6 DEF m, w

\* Before its first write an object is unknown; it is alive while it is written to.
LEMMA StateBefore ==
    ASSUME LogOK(log), NEW n \in Nat, n < Len(log), NEW o \in Objects \ Tasks, log[n + 1][o] # <<>>
    PROVE  StateOf(log, n, o) =
             IF \E k \in DOMAIN log[n + 1][o] : log[n + 1][o][k].op = "create" THEN "none" ELSE "live"
<1>. DEFINE w == log[n + 1][o]
<1>1. log \in Seq(Batch) /\ n + 1 \in 1 .. Len(log) /\ DOMAIN log = 1 .. Len(log)
  BY LenProperties DEF LogOK
<1>2. CASE \E k \in DOMAIN w : w[k].op = "create"
  BY <1>2, Precedes DEF StateOf
<1>3. CASE ~ \E k \in DOMAIN w : w[k].op = "create"
  <2>1. ~Said(log, n, o, "terminal") /\ ~Said(log, n, o, "retire")
    BY Precedes DEF Said
  <2>2. w \in Seq(Write) /\ DOMAIN w = 1 .. Len(w) /\ Len(w) \in Nat
    BY <1>1, LogTypes
  <2>3. 1 \in DOMAIN w
    BY <2>2, EmptySeq
  <2>4. \E j \in 1 .. (n + 1) - 1 : log[j][o] # <<>>
    BY <1>1, <1>3, <2>3 DEF LogOK, Orderly
  <2>5. (n + 1) - 1 = n
    OBVIOUS
  <2>. QED
    BY <1>3, <2>1, <2>4, <2>5 DEF StateOf
<1>. QED
  BY <1>2, <1>3

\* Events make a document live, or retire it.
LEMMA AppliedState ==
    ASSUME NEW o \in Objects \ Tasks, NEW s, NEW e, DOMAIN e # {}
    PROVE  Applied(o, s, e).st =
             IF \E k \in DOMAIN e : e[k].op = "retire" THEN "retired" ELSE "live"
<1>1. Applied(o, s, e) = AppliedToDocument(o, s, e)
  BY DEF Applied
<1>. DEFINE es == {e[k] : k \in DOMAIN e}
<1>2. (\E x \in es : x.op = "retire") <=> \E k \in DOMAIN e : e[k].op = "retire"
  OBVIOUS
<1>3. AppliedToDocument(o, s, e).st = IF \E x \in es : x.op = "retire" THEN "retired" ELSE "live"
  BY DEF AppliedToDocument
<1>. HIDE DEF es
<1>. QED
  BY <1>1, <1>2, <1>3

\* A document that is alive has a revision.
LEMMA AppliedAlive ==
    ASSUME NEW o \in Objects \ Tasks, NEW s, s.st = "live" => s.revs # {}, NEW e,
           Applied(o, s, e).st = "live"
    PROVE  Applied(o, s, e).revs # {}
<1>1. CASE DOMAIN e = {}
  BY <1>1 DEF Applied
<1>2. CASE DOMAIN e # {}
  <2>. DEFINE es == {e[k] : k \in DOMAIN e}
              content == {Revision(x) : x \in {y \in es : y.op # "retire"}}
  <2>1. \A k \in DOMAIN e : e[k].op # "retire"
    BY <1>2, AppliedState
  <2>2. PICK k \in DOMAIN e : TRUE
    BY <1>2
  <2>3. Revision(e[k]) \in content
    BY <2>1, <2>2
  <2>4. Applied(o, s, e) = AppliedToDocument(o, s, e)
    BY <1>2 DEF Applied
  <2>5. ~ \E x \in es : x.op = "retire"
    BY <2>1
  <2>6. AppliedToDocument(o, s, e).revs = content \/ AppliedToDocument(o, s, e).revs = s.revs \cup content
    BY <2>5 DEF AppliedToDocument
  <2>. HIDE DEF content
  <2>. QED
    BY <2>3, <2>4, <2>6
<1>. QED
  BY <1>1, <1>2

\* A new base, or the end, of a document whose content alone is read makes what was
\* before irrelevant.
LEMMA AppliedAnew ==
    ASSUME NEW o \in Latest, NEW s, NEW t, NEW e,
           NEW k \in DOMAIN e, e[k].kind = "base" \/ e[k].op = "retire"
    PROVE  AppliedToDocument(o, s, e) = AppliedToDocument(o, t, e)
<1>. DEFINE es == {e[j] : j \in DOMAIN e}
<1>. DEFINE replaces == \E x \in es : x.op = "create" \/ (x.kind = "base" /\ o \in Latest)
            retires == \E x \in es : x.op = "retire"
            content == {Revision(x) : x \in {y \in es : y.op # "retire"}}
            Result(u) == [st |-> IF retires THEN "retired" ELSE "live",
                          revs |-> IF retires /\ o \in Latest THEN {}
                                   ELSE IF replaces THEN content ELSE u.revs \cup content]
<1>1. replaces \/ retires
  <2>1. e[k] \in es
    OBVIOUS
  <2>. HIDE DEF es
  <2>. QED
    BY <2>1
<1>2. AppliedToDocument(o, s, e) = Result(s) /\ AppliedToDocument(o, t, e) = Result(t)
  BY DEF AppliedToDocument
<1>. HIDE DEF replaces, retires, content
<1>. QED
  BY <1>1, <1>2

\* The documents whose content alone is read are in the state they were in after the
\* markers replayed so far.
LEMMA ReplayedState ==
    ASSUME LogOK(log), MainOK, NEW o \in Objects \ Tasks, Sound(log, Len(log), o, Lines(o)),
           NEW p \in Nat, p < Len(log), NEW s, s.st = StateOf(log, p, o)
    PROVE  Applied(o, s, EventsOf(o, Markers[p + 1])).st = StateOf(log, p + 1, o)
<1>. DEFINE w == log[p + 1][o]
            E == EventsOf(o, Markers[p + 1])
            F == Events(log[p + 1], o, p + 1)
<1>1. p + 1 \in 1 .. Len(log)
  BY LenProperties DEF LogOK
<1>2. /\ DOMAIN E = {k \in DOMAIN w : w[k].op \in {"live", "change"} => ~Optional(o, p + 1, k)}
      /\ \A k \in DOMAIN E : E[k].op = w[k].op
  BY <1>1, EventsAre
<1>3. DOMAIN F = DOMAIN w /\ \A k \in DOMAIN w : F[k].op = w[k].op
  BY DEF Events
<1>4. StateOf(log, p + 1, o) = Applied(o, Value(log, p, o), F).st
  <2>1. Value(log, p + 1, o).st = StateOf(log, p + 1, o)
    BY DEF Value
  <2>. QED
    BY <2>1, ValueStep
<1>. HIDE DEF E, F
<1>5. CASE DOMAIN w = {}
  <2>1. DOMAIN E = {}
    BY <1>2, <1>5
  <2>2. StateOf(log, p + 1, o) = StateOf(log, p, o)
    BY <1>5, Untouched DEF Value
  <2>. QED
    BY <2>1, <2>2 DEF Applied, E
<1>6. CASE DOMAIN w # {} /\ DOMAIN E # {}
  <2>1. (\E k \in DOMAIN E : E[k].op = "retire") <=> (\E k \in DOMAIN F : F[k].op = "retire")
    BY <1>2, <1>3
  <2>2. Applied(o, s, E).st = IF \E k \in DOMAIN E : E[k].op = "retire" THEN "retired" ELSE "live"
    BY <1>6, AppliedState
  <2>3. Applied(o, Value(log, p, o), F).st = IF \E k \in DOMAIN F : F[k].op = "retire" THEN "retired" ELSE "live"
    BY <1>3, <1>6, AppliedState
  <2>. QED
    BY <1>4, <2>1, <2>2, <2>3 DEF E
<1>7. CASE DOMAIN w # {} /\ DOMAIN E = {}
  <2>1. \A k \in DOMAIN w : w[k].op \notin {"create", "retire"}
    BY <1>2, <1>7
  <2>2. StateOf(log, p + 1, o) = "live"
    <3>1. ~ \E k \in DOMAIN F : F[k].op = "retire"
      BY <1>3, <2>1
    <3>. QED
      BY <1>3, <1>4, <1>7, <3>1, AppliedState
  <2>3. w # <<>>
    BY <1>7
  <2>4. StateOf(log, p, o) = "live"
    BY <2>1, <2>3, StateBefore
  <2>5. Applied(o, s, E) = s
    BY <1>7 DEF Applied
  <2>. QED
    BY <2>2, <2>4, <2>5 DEF E
<1>. QED
  BY <1>5, <1>6, <1>7

\* If no write of batch p + 1 has been reclaimed, its events are what they were.
LEMMA SameEvents ==
    ASSUME LogOK(log), MainOK, NEW o \in Objects, Sound(log, Len(log), o, Lines(o)),
           NEW i \in 1 .. Len(log),
           \A k \in DOMAIN log[i][o] : log[i][o][k].op \in InSidecar => ~Optional(o, i, k)
    PROVE  EventsOf(o, Markers[i]) = Events(log[i], o, i)
<1>. DEFINE E == EventsOf(o, Markers[i])
            F == Events(log[i], o, i)
            w == log[i][o]
<1>1. /\ DOMAIN E = {k \in DOMAIN w : w[k].op \in {"live", "change"} => ~Optional(o, i, k)}
      /\ \A k \in DOMAIN E : ~(w[k].op \in InSidecar /\ Optional(o, i, k)) => E[k] = F[k]
  BY EventsAre
<1>2. \A k \in DOMAIN w : w[k].op \in {"live", "change"} => ~Optional(o, i, k)
  BY DEF InSidecar
<1>3. DOMAIN F = DOMAIN w
  BY DEF Events
<1>4. E = [k \in DOMAIN E |-> E[k]] /\ F = [k \in DOMAIN F |-> F[k]]
  BY DEF EventsOf, Events
<1>. HIDE DEF E, F, w
<1>5. DOMAIN E = DOMAIN w
  <2>1. \A k : k \in DOMAIN E <=> k \in DOMAIN w
    BY <1>1, <1>2
  <2>. QED
    BY <2>1, SameElements
<1>6. \A k \in DOMAIN E : E[k] = F[k]
  BY <1>1, <1>5 DEF w
<1>7. E = F
  BY <1>3, <1>4, <1>5, <1>6
<1>. QED
  BY <1>7 DEF E, F

\* What is awaited before the end of batch p + 1, unless that batch brings it, is so after.
LEMMA AwaitsStep ==
    ASSUME LogOK(log), MainOK, NEW o \in Objects, NEW p \in Nat, p < Len(log)
    PROVE  /\ Awaits(o, p + 1) => Awaits(o, p)
           /\ Awaits(o, p) =>
                \/ Awaits(o, p + 1)
                \/ o \in Tasks /\ \E k \in DOMAIN log[p + 1][o] : log[p + 1][o][k].op = "terminal"
                \/ o \in Latest /\ \E k \in DOMAIN log[p + 1][o] : log[p + 1][o][k].op = "retire"
                \/ o \in Latest /\ \E j \in ConfirmedBases(o) : Lines(o)[j].seq = p + 1
<1>1. \A i \in p + 1 .. Len(log) : i = p + 1 \/ i \in (p + 1) + 1 .. Len(log)
  OBVIOUS
<1>2. \A i \in (p + 1) + 1 .. Len(log) : i \in p + 1 .. Len(log)
  OBVIOUS
<1>3. \A j \in ConfirmedBases(o) : Lines(o)[j].seq \in Nat
  BY OptionalIs, LenProperties DEF NamedBy, LogOK
<1>4. Awaits(o, p + 1) => Awaits(o, p)
  <2>1. \A j \in ConfirmedBases(o) : Lines(o)[j].seq > p + 1 => Lines(o)[j].seq > p
    BY <1>3
  <2>. QED
    BY <1>2, <2>1 DEF Awaits
<1>5. ASSUME Awaits(o, p)
      PROVE  \/ Awaits(o, p + 1)
             \/ o \in Tasks /\ \E k \in DOMAIN log[p + 1][o] : log[p + 1][o][k].op = "terminal"
             \/ o \in Latest /\ \E k \in DOMAIN log[p + 1][o] : log[p + 1][o][k].op = "retire"
             \/ o \in Latest /\ \E j \in ConfirmedBases(o) : Lines(o)[j].seq = p + 1
  <2>1. \A j \in ConfirmedBases(o) : Lines(o)[j].seq > p => Lines(o)[j].seq > p + 1 \/ Lines(o)[j].seq = p + 1
    BY <1>3
  <2>. QED
    BY <1>1, <1>5, <2>1 DEF Awaits
<1>. QED
  BY <1>4, <1>5

\* A record of batch p + 1 is not needed any more only if its object awaits something,
\* or the batch itself ends the object.
LEMMA OptionalAwaits ==
    ASSUME LogOK(log), MainOK, NEW o \in Objects, NEW p \in Nat, p < Len(log),
           NEW k \in DOMAIN log[p + 1][o], log[p + 1][o][k].op \in InSidecar, Optional(o, p + 1, k)
    PROVE  \/ Awaits(o, p + 1)
           \/ \E l \in DOMAIN log[p + 1][o] : log[p + 1][o][l].op \in {"terminal", "retire"}
<1>. DEFINE w == log[p + 1][o]
<1>1. p + 1 \in 1 .. Len(log) /\ Len(log) \in Nat
  BY LenProperties DEF LogOK
<1>2. Shaped(o, w) /\ w # <<>>
  BY <1>1, Shapes
<1>3. \A i \in 1 .. p : \A l \in DOMAIN log[i][o] : log[i][o][l].op \notin {"terminal", "retire"}
  BY <1>2, Precedes
<1>4. \A i \in 1 .. Len(log) : i \in 1 .. p \/ i = p + 1 \/ i \in (p + 1) + 1 .. Len(log)
  BY <1>1
<1>5. Superfluous(log, Len(log), o, Lines(o), p + 1, k)
  BY OptionalIs
<1>6. CASE o \in Tasks /\ Said(log, Len(log), o, "terminal")
  BY <1>3, <1>4, <1>6 DEF Said, Awaits
<1>7. CASE o \in Latest /\ Said(log, Len(log), o, "retire")
  BY <1>3, <1>4, <1>7 DEF Said, Awaits
<1>8. CASE o \in Latest /\ \E j \in DOMAIN Lines(o) :
              /\ Lines(o)[j].kind = "base" /\ NamedBy(log, Len(log), o, Lines(o)[j])
              /\ Earlier(p + 1, k, Lines(o)[j])
  <2>1. PICK j \in DOMAIN Lines(o) :
              /\ Lines(o)[j].kind = "base" /\ NamedBy(log, Len(log), o, Lines(o)[j])
              /\ Earlier(p + 1, k, Lines(o)[j])
    BY <1>8
  <2>2. j \in ConfirmedBases(o)
    BY <2>1, OptionalIs
  <2>3. Lines(o)[j].seq # p + 1
    <3>1. SUFFICES ASSUME Lines(o)[j].seq = p + 1 PROVE FALSE
      OBVIOUS
    <3>2. k < Lines(o)[j].ord /\ Lines(o)[j].ord \in DOMAIN w /\ w[Lines(o)[j].ord].op \in InSidecar
      BY <2>1, <3>1 DEF Earlier, NamedBy
    <3>3. o \notin Tasks
      BY <1>8, JsonlAssumption
    <3>4. k = 1 /\ Lines(o)[j].ord = 1
      BY <1>2, <3>2, <3>3 DEF Shaped, InSidecar
    <3>. QED
      BY <3>2, <3>4
  <2>4. Lines(o)[j].seq > p + 1
    BY <2>1, <2>3, <1>1 DEF Earlier, NamedBy
  <2>. QED
    BY <1>8, <2>2, <2>4 DEF Awaits
<1>. QED
  BY <1>5, <1>6, <1>7, <1>8 DEF Superfluous

\* One round of the replay: the decoded state of o is again what the markers so far
\* say, unless a later one makes it irrelevant.
LEMMA ReplayStep ==
    ASSUME LogOK(log), MainOK, NEW o \in Objects, Sound(log, Len(log), o, Lines(o)),
           NEW p \in Nat, p < Len(log), NEW s,
           IF Awaits(o, p) THEN o \in Latest => s.st = StateOf(log, p, o) ELSE s = Value(log, p, o)
    PROVE  IF Awaits(o, p + 1)
           THEN o \in Latest => Applied(o, s, EventsOf(o, Markers[p + 1])).st = StateOf(log, p + 1, o)
           ELSE Applied(o, s, EventsOf(o, Markers[p + 1])) = Value(log, p + 1, o)
<1>. DEFINE w == log[p + 1][o]
            E == EventsOf(o, Markers[p + 1])
            F == Events(log[p + 1], o, p + 1)
<1>1. p + 1 \in 1 .. Len(log) /\ Len(log) \in Nat
  BY LenProperties DEF LogOK
<1>2. /\ DOMAIN E = {k \in DOMAIN w : w[k].op \in {"live", "change"} => ~Optional(o, p + 1, k)}
      /\ \A k \in DOMAIN E : E[k].op = w[k].op
  BY <1>1, EventsAre
<1>3. DOMAIN F = DOMAIN w /\ \A k \in DOMAIN w : F[k].op = w[k].op /\ F[k].kind = w[k].kind
  BY DEF Events
<1>4. Value(log, p + 1, o) = Applied(o, Value(log, p, o), F)
  BY ValueStep
<1>5. CASE o \in Latest /\ Awaits(o, p + 1)
  <2>1. s.st = StateOf(log, p, o) /\ o \in Objects \ Tasks
    BY <1>5, AwaitsStep, JsonlAssumption
  <2>. QED
    BY <1>5, <2>1, ReplayedState
<1>6. CASE ~Awaits(o, p)
  <2>1. s = Value(log, p, o) /\ ~Awaits(o, p + 1)
    BY <1>6, AwaitsStep
  <2>2. ASSUME NEW k \in DOMAIN w, w[k].op \in InSidecar PROVE ~Optional(o, p + 1, k)
    <3>1. SUFFICES ASSUME Optional(o, p + 1, k) PROVE FALSE
      OBVIOUS
    <3>2. PICK l \in DOMAIN w : w[l].op \in {"terminal", "retire"}
      BY <2>1, <2>2, <3>1, OptionalAwaits
    <3>3. p + 1 \in p + 1 .. Len(log)
      BY <1>1
    <3>4. ~(o \in Tasks) /\ ~(o \in Latest)
      <4>1. o \in Tasks => w[l].op = "terminal"
        BY <1>1, <3>2, Shapes DEF Shaped
      <4>2. o \in Latest => w[l].op = "retire"
        BY <1>1, <3>2, Shapes, JsonlAssumption DEF Shaped
      <4>. QED
        BY <1>6, <3>3, <4>1, <4>2 DEF Awaits
    <3>. QED
      BY <3>1, <3>4 DEF Optional
  <2>3. E = F
    BY <1>1, <2>2, SameEvents
  <2>. QED
    BY <1>4, <2>1, <2>3
<1>7. CASE Awaits(o, p) /\ ~Awaits(o, p + 1) /\ o \in Tasks
  <2>1. PICK k \in DOMAIN w : w[k].op = "terminal"
    BY <1>7, AwaitsStep, JsonlAssumption
  <2>2. Shaped(o, w) /\ w \in Seq(Write) /\ DOMAIN w = 1 .. Len(w)
    BY <1>1, Shapes, LogTypes
  <2>3. \A l \in DOMAIN w : l = k
    BY <1>7, <2>1, <2>2 DEF Shaped
  <2>4. E = F
    BY <1>1, <2>1, <2>3, SameEvents DEF InSidecar
  <2>. QED
    BY <1>3, <1>4, <1>7, <2>1, <2>4 DEF Applied
<1>8. CASE Awaits(o, p) /\ ~Awaits(o, p + 1) /\ o \in Latest
  <2>1. o \notin Tasks
    BY <1>8, JsonlAssumption
  <2>2. CASE \E k \in DOMAIN w : w[k].op = "retire"
    <3>1. PICK k \in DOMAIN w : w[k].op = "retire"
      BY <2>2
    <3>2. /\ k \in DOMAIN E /\ E[k].op = "retire" /\ k \in DOMAIN F /\ F[k].op = "retire"
      BY <1>2, <1>3, <3>1
    <3>3. \A u, e : (\E l \in DOMAIN e : e[l].op = "retire") =>
                AppliedToDocument(o, u, e) = [st |-> "retired", revs |-> {}]
      <4>1. ASSUME NEW u, NEW e, NEW l \in DOMAIN e, e[l].op = "retire"
            PROVE  AppliedToDocument(o, u, e) = [st |-> "retired", revs |-> {}]
        <5>. DEFINE es == {e[j] : j \in DOMAIN e}
        <5>1. \E x \in es : x.op = "retire"
          BY <4>1
        <5>. QED
          BY <1>8, <5>1 DEF AppliedToDocument
      <4>. QED
        BY <4>1
    <3>4. AppliedToDocument(o, s, E) = AppliedToDocument(o, Value(log, p, o), F)
      <4>1. AppliedToDocument(o, s, E) = [st |-> "retired", revs |-> {}]
        BY <3>2, <3>3
      <4>2. AppliedToDocument(o, Value(log, p, o), F) = [st |-> "retired", revs |-> {}]
        BY <3>2, <3>3
      <4>. QED
        BY <4>1, <4>2
    <3>. QED
      BY <1>4, <1>8, <2>1, <3>2, <3>4 DEF Applied
  <2>3. CASE ~ \E k \in DOMAIN w : w[k].op = "retire"
    <3>1. PICK j \in ConfirmedBases(o) : Lines(o)[j].seq = p + 1
      BY <1>8, <2>1, <2>3, AwaitsStep
    <3>2. j \in DOMAIN Lines(o) /\ Lines(o)[j].kind = "base" /\ NamedBy(log, Len(log), o, Lines(o)[j])
      BY <3>1, OptionalIs
    <3>. DEFINE k == Lines(o)[j].ord
    <3>3. k \in DOMAIN w /\ w[k].op \in InSidecar
      BY <3>1, <3>2 DEF NamedBy
    <3>4. w[k].kind = "base"
      <4>1. j \in At(o, p + 1, k)
        BY <3>1, <3>2 DEF At
      <4>. QED
        BY <1>1, <3>2, <3>3, <4>1, EventsAre
    <3>5. \A l \in DOMAIN w : w[l].op # "terminal"
      BY <1>1, <2>1, Shapes DEF Shaped
    <3>6. E = F
      <4>1. \A l \in DOMAIN w : w[l].op \in InSidecar => ~Optional(o, p + 1, l)
        BY <1>8, <2>3, <3>5, OptionalAwaits
      <4>. QED
        BY <1>1, <4>1, SameEvents
    <3>7. k \in DOMAIN F /\ F[k].kind = "base"
      BY <1>3, <3>3, <3>4
    <3>8. AppliedToDocument(o, s, F) = AppliedToDocument(o, Value(log, p, o), F)
      BY <1>8, <3>7, AppliedAnew
    <3>. QED
      BY <1>4, <1>8, <2>1, <3>6, <3>7, <3>8 DEF Applied
  <2>. QED
    BY <2>2, <2>3
<1>9. Awaits(o, p) => o \in Tasks \/ o \in Latest
  BY DEF Awaits
<1>10. CASE Awaits(o, p + 1) /\ o \notin Latest
  BY <1>10
<1>. QED
  BY <1>5, <1>6, <1>7, <1>8, <1>9, <1>10

\* The events of the next marker fit the decoded state.
LEMMA ReplayFits ==
    ASSUME LogOK(log), MainOK, NEW o \in Objects, Sound(log, Len(log), o, Lines(o)),
           NEW p \in Nat, p < Len(log), NEW s, s.st = StateOf(log, p, o) \/ o \in Tasks,
           o \notin Tasks /\ s.st = "live" => s.revs # {}
    PROVE  Fits(o, s, EventsOf(o, Markers[p + 1]))
<1>. DEFINE w == log[p + 1][o]
            E == EventsOf(o, Markers[p + 1])
            F == Events(log[p + 1], o, p + 1)
            es == {E[k] : k \in DOMAIN E}
<1>1. p + 1 \in 1 .. Len(log)
  BY LenProperties DEF LogOK
<1>2. /\ DOMAIN E = {k \in DOMAIN w : w[k].op \in {"live", "change"} => ~Optional(o, p + 1, k)}
      /\ \A k \in DOMAIN E : /\ E[k].op = w[k].op
                             /\ w[k].op \in InSidecar /\ Optional(o, p + 1, k) => E[k].kind = "base"
                             /\ ~(w[k].op \in InSidecar /\ Optional(o, p + 1, k)) => E[k] = F[k]
  BY <1>1, EventsAre
<1>3. \A k \in DOMAIN w : F[k].kind = w[k].kind
  BY DEF Events
<1>4. SUFFICES ASSUME o \notin Tasks, DOMAIN E # {}
               PROVE  /\ s.st = IF \E e \in es : e.op = "create" THEN "none" ELSE "live"
                      /\ (\E e \in es : e.kind = "delta") => s.revs # {}
  BY DEF Fits
<1>. HIDE DEF E, F
<1>5. w # <<>> /\ Shaped(o, w)
  <2>1. DOMAIN w # {}
    BY <1>2, <1>4
  <2>2. w # <<>>
    BY <2>1
  <2>. QED
    BY <1>1, <2>2, Shapes
<1>6. StateOf(log, p, o) = IF \E k \in DOMAIN w : w[k].op = "create" THEN "none" ELSE "live"
  BY <1>4, <1>5, StateBefore
<1>7. (\E e \in es : e.op = "create") <=> \E k \in DOMAIN w : w[k].op = "create"
  <2>1. (\E e \in es : e.op = "create") <=> \E k \in DOMAIN E : E[k].op = "create"
    OBVIOUS
  <2>. QED
    BY <2>1, <1>2
<1>8. ASSUME \E e \in es : e.kind = "delta" PROVE s.revs # {}
  <2>1. PICK k \in DOMAIN E : E[k].kind = "delta"
    BY <1>8
  <2>2. k \in DOMAIN w /\ w[k].kind = "delta"
    BY <1>2, <1>3, <2>1
  <2>3. w[k].op = "change" /\ k = 1
    BY <1>4, <1>5, <2>2 DEF Shaped
  <2>4. \A l \in DOMAIN w : w[l].op # "create"
    BY <1>4, <1>5, <2>3 DEF Shaped
  <2>. QED
    BY <1>4, <1>6, <2>4
<1>. QED
  BY <1>4, <1>6, <1>7, <1>8

\* Every record a marker names is there, or is not needed any more.
LEMMA ReplayConfirmed ==
    ASSUME LogOK(log), MainOK, \A o \in Objects : Sound(log, Len(log), o, Lines(o)),
           NEW i \in 1 .. Len(log)
    PROVE  Confirmed(Markers[i]) /\ Markers[i].seq = i
<1>. DEFINE m == Markers[i]
<1>1. m.seq = i /\ \A o \in Objects : /\ DOMAIN m.ops[o] = DOMAIN log[i][o]
                                      /\ \A k \in DOMAIN log[i][o] : m.ops[o][k].op = log[i][o][k].op
  BY MarkerIs
<1>2. ASSUME NEW o \in Objects, NEW k \in DOMAIN log[i][o], log[i][o][k].op \in InSidecar
      PROVE  /\ At(o, i, k) = {} => Optional(o, i, k)
             /\ log[i][o][k].op = "create" => \A j \in At(o, i, k) : Lines(o)[j].kind = "base"
  <2>1. At(o, i, k) = {} => Optional(o, i, k)
    BY <1>2, EventsAre
  <2>2. ASSUME log[i][o][k].op = "create", NEW j \in At(o, i, k) PROVE Lines(o)[j].kind = "base"
    <3>1. Lines(o)[j].kind = log[i][o][k].kind
      BY <1>2, EventsAre
    <3>2. Shaped(o, log[i][o])
      BY Shapes
    <3>. QED
      BY <2>2, <3>1, <3>2 DEF Shaped
  <2>. QED
    BY <2>1, <2>2
<1>. HIDE DEF m
<1>3. Confirmed(m)
  BY <1>1, <1>2 DEF Confirmed
<1>. QED
  BY <1>1, <1>3 DEF m

\* The order of the lines that opening checks is there.
LEMMA FilesReadable ==
    ASSUME LogOK(log), MainOK, \A o \in Objects : Sound(log, Len(log), o, Lines(o))
    PROVE  Readable
<1>1. \A i \in 2 .. Len(Markers) : Markers[i - 1].seq < Markers[i].seq
  <2>1. Len(Markers) = Len(log) /\ Len(log) \in Nat
    BY MarkerIs, LenProperties DEF LogOK
  <2>2. ASSUME NEW i \in 2 .. Len(log) PROVE Markers[i - 1].seq < Markers[i].seq
    <3>1. i - 1 \in 1 .. Len(log) /\ i \in 1 .. Len(log) /\ i - 1 < i
      BY <2>1
    <3>2. Markers[i - 1].seq = i - 1 /\ Markers[i].seq = i
      BY <3>1, MarkerIs
    <3>. QED
      BY <3>1, <3>2
  <2>. QED
    BY <2>1, <2>2
<1>2. ASSUME NEW o \in Objects, NEW j \in 2 .. Len(Lines(o))
      PROVE  Earlier(Lines(o)[j - 1].seq, Lines(o)[j - 1].ord, Lines(o)[j])
  <2>1. Lines(o) \in Seq(Rec)
    BY DEF Sound
  <2>2. DOMAIN Lines(o) = 1 .. Len(Lines(o)) /\ Len(Lines(o)) \in Nat
    BY <2>1, LineTypes
  <2>3. j - 1 \in DOMAIN Lines(o) /\ j \in DOMAIN Lines(o) /\ j - 1 < j
    BY <2>2
  <2>. QED
    BY <2>3 DEF Sound
<1>. QED
  BY <1>1, <1>2 DEF Readable

------------------------------------------------------------------------------
(* What recovery cuts off and reclaims *)

\* A set of numbers has a smallest one.
LEMMA Smallest ==
    ASSUME NEW T \in SUBSET Nat, T # {}
    PROVE  \E x \in T : \A y \in T : x <= y
<1>1. PICK x \in T : \A y \in T : ~(<<y, x>> \in OpToRel(<, Nat))
  BY NatLessThanWellFounded, WFMin, Zenon
<1>2. \A y \in T : ~(y < x)
  BY <1>1, Zenon DEF OpToRel
<1>3. x \in Nat /\ \A y \in T : y \in Nat
  OBVIOUS
<1>. QED
  BY <1>2, <1>3

\* A bounded set of numbers has a largest one.
LEMMA Largest ==
    ASSUME NEW n \in Nat, NEW T \in SUBSET (1 .. n), T # {}
    PROVE  \E x \in T : \A y \in T : y <= x
<1>. DEFINE D == {n - x : x \in T}
<1>0. \A x \in T : x \in Nat /\ n - x \in Nat
  OBVIOUS
<1>1. D \in SUBSET Nat /\ D # {}
  BY <1>0
<1>2. PICK d \in D : \A e \in D : d <= e
  BY <1>1, Smallest
<1>3. PICK x \in T : d = n - x
  BY <1>2
<1>4. ASSUME NEW y \in T PROVE y <= x
  <2>1. d <= n - y
    BY <1>2
  <2>. QED
    BY <2>1, <1>0, <1>3
<1>. QED
  BY <1>4

\* The lines that recovery leaves of a sidecar whose records are all named suffice.
LEMMA NeededReady ==
    ASSUME LogOK(log), MainOK, NEW o \in Objects,
           Sound(log, Len(log), o, Lines(o)), AllNamed(log, Len(log), o, Lines(o))
    PROVE  Ready(log, o, Needed(o)) /\ Needed(o) \in Seq(Rec)
<1>. DEFINE ended == (o \in Tasks /\ EndsTerminal(o)) \/ (o \in Latest /\ Retired(o))
<1>1. log \in Seq(Batch) /\ Len(log) \in Nat /\ Lines(o) \in Seq(Rec)
      /\ DOMAIN Lines(o) = 1 .. Len(Lines(o)) /\ Len(Lines(o)) \in Nat
  BY LineTypes, LenProperties DEF LogOK, Sound
<1>2. CASE ended
  <2>1. Needed(o) = <<>>
    BY <1>2 DEF Needed
  <2>. QED
    BY <1>2, <2>1, EndIs, SoundEmpty, EmptySeq DEF Ready
<1>3. CASE ~ended /\ o \in Latest /\ ConfirmedBases(o) # {}
  <2>. DEFINE T == ConfirmedBases(o)
              latest == CHOOSE j \in T : \A i \in T : i <= j
  <2>1. T \in SUBSET (1 .. Len(Lines(o))) /\ T # {}
    BY <1>1, <1>3, OptionalIs
  <2>2. latest \in T
    <3>. HIDE DEF T
    <3>1. \E x \in T : \A y \in T : y <= x
      BY <1>1, <2>1, Largest
    <3>. QED
      BY <3>1
  <2>3. latest \in DOMAIN Lines(o) /\ Lines(o)[latest].kind = "base"
    BY <2>2, OptionalIs
  <2>4. Needed(o) = SubSeq(Lines(o), latest, Len(Lines(o)))
    BY <1>3 DEF Needed
  <2>. HIDE DEF latest
  <2>5. Ready(log, o, Needed(o))
    BY <1>1, <1>3, <2>3, <2>4, SoundFromBase DEF Ready
  <2>. QED
    BY <2>5 DEF Ready, Sound
<1>4. CASE ~ended /\ ~(o \in Latest /\ ConfirmedBases(o) # {})
  <2>1. Needed(o) = Lines(o)
    BY <1>4 DEF Needed
  <2>. QED
    BY <1>1, <2>1 DEF Ready
<1>. QED
  BY <1>2, <1>3, <1>4

\* The records that no marker names are the end of a sidecar, and what recovery leaves
\* is sound for each version of the main file.
LEMMA TailUnnamed ==
    ASSUME LogOK(log), MainOK, NEW o \in Objects, \A n \in Lengths : Sound(log, n, o, Lines(o)),
           Unnamed(o) # {}, NEW first, first = (CHOOSE j \in Unnamed(o) : \A i \in Unnamed(o) : j <= i)
    PROVE  /\ Unnamed(o) = first .. Len(Lines(o))
           /\ \A n \in Lengths : Sound(log, n, o, SubSeq(Lines(o), 1, first - 1))
           /\ AllNamed(log, Len(log), o, SubSeq(Lines(o), 1, first - 1))
<1>. DEFINE c == Lines(o)
            U == Unnamed(o)
            N == Len(log)
<1>1. N \in Nat /\ N \in Lengths /\ Lengths \subseteq 0 .. N
  BY LengthsAre
<1>2. c \in Seq(Rec) /\ DOMAIN c = 1 .. Len(c) /\ Len(c) \in Nat /\ Sound(log, N, o, c)
  BY <1>1, LineTypes DEF Sound
<1>3. U = {j \in DOMAIN c : ~NamedBy(log, N, o, c[j])}
  BY OptionalIs
<1>. HIDE DEF U, c
<1>4. U \in SUBSET Nat /\ U \subseteq DOMAIN c
  BY <1>2, <1>3
<1>5. first \in U /\ \A i \in U : first <= i
  <2>1. \E j \in U : \A i \in U : j <= i
    BY <1>4, Smallest DEF U
  <2>. QED
    BY <2>1 DEF U
<1>6. first \in 1 .. Len(c)
  BY <1>2, <1>4, <1>5
<1>7. \A j \in DOMAIN c : j \in U <=> first <= j
  <2>1. ASSUME NEW j \in DOMAIN c, first <= j PROVE j \in U
    <3>1. first = j \/ first < j
      BY <1>2, <1>6, <2>1
    <3>2. first \in DOMAIN c /\ ~NamedBy(log, N, o, c[first])
      BY <1>3, <1>5
    <3>. QED
      BY <1>2, <1>3, <1>5, <3>1, <3>2 DEF Sound
  <2>. QED
    BY <1>5, <2>1
<1>8. U = first .. Len(c)
  <2>1. ASSUME NEW j \in U PROVE j \in first .. Len(c)
    <3>1. j \in 1 .. Len(c) /\ first <= j
      BY <1>2, <1>4, <1>7
    <3>. QED
      BY <3>1, <1>2, <1>6
  <2>2. ASSUME NEW j \in first .. Len(c) PROVE j \in U
    <3>1. j \in 1 .. Len(c) /\ first <= j
      BY <1>2, <1>6
    <3>. QED
      BY <3>1, <1>2, <1>7
  <2>3. \A j : j \in U <=> j \in first .. Len(c)
    BY <2>1, <2>2
  <2>. QED
    BY <2>3, SameElements
<1>. DEFINE m == first - 1
            e == SubSeq(c, 1, m)
<1>9. m \in 0 .. Len(c) /\ \A j \in DOMAIN c : j > m <=> j \in U
  <2>1. first \in Nat /\ first > 0 /\ first <= Len(c)
    BY <1>2, <1>6
  <2>2. m \in 0 .. Len(c)
    BY <1>2, <2>1
  <2>3. \A j \in DOMAIN c : j > m <=> first <= j
    BY <1>2, <2>1
  <2>. QED
    BY <1>7, <2>2, <2>3
<1>. HIDE DEF m
<1>10. \A n \in Lengths : Sound(log, n, o, e)
  <2>1. ASSUME NEW n \in Lengths PROVE Sound(log, n, o, e)
    <3>1. \A j \in DOMAIN c : j > m => ~NamedBy(log, n, o, c[j])
      <4>1. \A j \in DOMAIN c : j > m => ~NamedBy(log, N, o, c[j])
        BY <1>3, <1>9
      <4>2. \A r : NamedBy(log, n, o, r) => NamedBy(log, N, o, r)
        BY <1>1 DEF NamedBy
      <4>. QED
        BY <4>1, <4>2
    <3>2. Sound(log, n, o, c)
      BY DEF c
    <3>3. n \in Nat
      BY <1>1
    <3>. QED
      BY <1>9, <3>1, <3>2, <3>3, SoundCut
  <2>. QED
    BY <2>1
<1>11. AllNamed(log, N, o, e)
  <2>1. m \in Int /\ \A i \in 1 .. m : i \in DOMAIN c /\ c[i] \in Rec
    BY <1>2, <1>9, LineTypes
  <2>2. e \in Seq(Rec) /\ Len(e) = (IF 1 <= m THEN m - 1 + 1 ELSE 0)
        /\ \A i \in 1 .. m - 1 + 1 : e[i] = c[1 + i - 1]
    BY <2>1, SubSeqProperties
  <2>3. DOMAIN e = 1 .. Len(e)
    BY <2>2, LenProperties
  <2>. HIDE DEF e
  <2>4. \A i \in DOMAIN e : i \in 1 .. m /\ e[i] = c[i]
    BY <2>1, <2>2, <2>3, <1>9
  <2>5. \A i \in 1 .. m : i \in DOMAIN c /\ i \notin U
    BY <1>9, <2>1
  <2>. QED
    BY <1>3, <2>4, <2>5 DEF AllNamed
<1>. QED
  BY <1>8, <1>10, <1>11 DEF U, c, e, m

------------------------------------------------------------------------------
(* A batch that fits the decoded state *)

\* A log stays in order with a batch that writes only to what has not ended, creates
\* only what is unknown, and changes only what is known.
LEMMA BatchOnto ==
    ASSUME NEW L, LogOK(L), NEW b \in Batch,
           \A o \in Objects :
              /\ Shaped(o, b[o])
              /\ b[o] # <<>> => StateOf(L, Len(L), o) \notin {"terminal", "retired"}
              /\ \A k \in DOMAIN b[o] :
                   /\ b[o][k].op = "create" => StateOf(L, Len(L), o) = "none"
                   /\ o \notin Tasks /\ k = 1 /\ b[o][k].op # "create" => StateOf(L, Len(L), o) # "none"
    PROVE  LogOK(Append(L, b))
<1>. DEFINE M == Append(L, b)
            n == Len(L)
<1>1. L \in Seq(Batch) /\ DOMAIN L = 1 .. n /\ n \in Nat
  BY LenProperties DEF LogOK
<1>2. M \in Seq(Batch) /\ Len(M) = n + 1 /\ M[n + 1] = b /\ \A i \in 1 .. n : M[i] = L[i]
  BY <1>1, LogGrows
<1>3. DOMAIN M = 1 .. n + 1
  BY <1>2, LenProperties
<1>. HIDE DEF M, n
<1>4. ASSUME NEW o \in Objects PROVE Orderly(M, o)
  <2>1. Orderly(L, o)
    BY DEF LogOK
  <2>2. \A i \in DOMAIN M : i \in 1 .. n \/ i = n + 1
    BY <1>1, <1>3
  <2>3. \A i \in DOMAIN M : Shaped(o, M[i][o])
    BY <1>1, <1>2, <2>1, <2>2 DEF Orderly
  <2>4. ASSUME NEW i \in 1 .. n, NEW k \in DOMAIN L[i][o], L[i][o][k].op \in {"terminal", "retire"}
        PROVE  b[o] = <<>>
    <3>1. StateOf(L, n, o) \in {"terminal", "retired"}
      <4>1. L[i][o] # <<>>
        OBVIOUS
      <4>2. Said(L, n, o, "terminal") \/ Said(L, n, o, "retire")
        BY <2>4 DEF Said
      <4>. QED
        BY <4>1, <4>2 DEF StateOf
    <3>. QED
      BY <3>1 DEF n
  <2>5. ASSUME NEW i \in DOMAIN M, NEW k \in DOMAIN M[i][o]
        PROVE  /\ M[i][o][k].op \in {"terminal", "retire"} => \A j \in DOMAIN M : j > i => M[j][o] = <<>>
               /\ M[i][o][k].op = "create" => \A j \in 1 .. i - 1 : M[j][o] = <<>>
               /\ o \notin Tasks /\ k = 1 /\ M[i][o][k].op # "create" => \E j \in 1 .. i - 1 : M[j][o] # <<>>
    <3>1. CASE i \in 1 .. n
      <4>0. M[i] = L[i] /\ k \in DOMAIN L[i][o] /\ i \in DOMAIN L
        BY <1>1, <1>2, <3>1
      <4>1. M[i][o][k].op \in {"terminal", "retire"} => \A j \in DOMAIN M : j > i => M[j][o] = <<>>
        <5>1. SUFFICES ASSUME L[i][o][k].op \in {"terminal", "retire"}, NEW j \in DOMAIN M, j > i
                       PROVE  M[j][o] = <<>>
          BY <4>0
        <5>2. CASE j \in 1 .. n
          BY <1>1, <1>2, <2>1, <4>0, <5>1, <5>2 DEF Orderly
        <5>3. CASE j = n + 1
          BY <1>2, <2>4, <3>1, <4>0, <5>1, <5>3
        <5>. QED
          BY <2>2, <5>2, <5>3
      <4>2. \A j \in 1 .. i - 1 : M[j] = L[j]
        BY <1>1, <1>2, <3>1
      <4>3. M[i][o][k].op = "create" => \A j \in 1 .. i - 1 : M[j][o] = <<>>
        BY <2>1, <4>0, <4>2 DEF Orderly
      <4>4. o \notin Tasks /\ k = 1 /\ M[i][o][k].op # "create" => \E j \in 1 .. i - 1 : M[j][o] # <<>>
        BY <2>1, <4>0, <4>2 DEF Orderly
      <4>. QED
        BY <4>1, <4>3, <4>4
    <3>2. CASE i = n + 1
      <4>1. M[i] = b /\ (n + 1) - 1 = n /\ \A j \in DOMAIN M : ~(j > n + 1)
        BY <1>1, <1>2, <1>3, <3>2
      <4>2. b[o][k].op = "create" => \A j \in 1 .. n : M[j][o] = <<>>
        <5>1. b[o][k].op = "create" => StateOf(L, n, o) = "none"
          BY <3>2, <4>1 DEF n
        <5>. QED
          BY <1>2, <5>1 DEF StateOf
      <4>3. o \notin Tasks /\ k = 1 /\ b[o][k].op # "create" => \E j \in 1 .. n : M[j][o] # <<>>
        <5>1. o \notin Tasks /\ k = 1 /\ b[o][k].op # "create" => StateOf(L, n, o) # "none"
          BY <3>2, <4>1 DEF n
        <5>. QED
          BY <1>2, <5>1 DEF StateOf
      <4>. QED
        BY <3>2, <4>1, <4>2, <4>3
    <3>. QED
      BY <2>2, <3>1, <3>2
  <2>6. \A i \in DOMAIN M : \A k \in DOMAIN M[i][o] :
          /\ M[i][o][k].op \in {"terminal", "retire"} => \A j \in DOMAIN M : j > i => M[j][o] = <<>>
          /\ M[i][o][k].op = "create" => \A j \in 1 .. i - 1 : M[j][o] = <<>>
          /\ o \notin Tasks /\ k = 1 /\ M[i][o][k].op # "create" => \E j \in 1 .. i - 1 : M[j][o] # <<>>
    BY <2>5
  <2>. QED
    BY <2>3, <2>6 DEF Orderly
<1>. QED
  BY <1>2, <1>4 DEF LogOK, M

\* Sequences of one and of two elements.
LEMMA OneOp ==
    ASSUME NEW S, NEW x \in S
    PROVE  /\ <<x>> \in Seq(S) /\ Len(<<x>>) = 1 /\ <<x>> # <<>>
           /\ \A k \in DOMAIN <<x>> : k = 1 /\ <<x>>[k] = x
  OBVIOUS

\* A batch of two operations.
LEMMA TwoOps ==
    ASSUME NEW S, NEW x \in S, NEW y \in S
    PROVE  /\ <<x, y>> \in Seq(S) /\ Len(<<x, y>>) = 2 /\ <<x, y>> # <<>>
           /\ \A k \in DOMAIN <<x, y>> : (k = 1 /\ <<x, y>>[k] = x) \/ (k = 2 /\ <<x, y>>[k] = y)
  OBVIOUS

\* The operations that a batch may contain.
LEMMA OpsAre ==
    ASSUME NEW o \in Objects, NEW ops \in OpsOn(o)
    PROVE  /\ ops \in Seq([op : Ops, kind : Kinds])
           /\ ops # <<>> => mem.obj[o].st \notin {"terminal", "retired"}
           /\ o \in Tasks => \A k \in DOMAIN ops :
                /\ ops[k].op \in {"live", "terminal"} /\ ops[k].kind = "task"
                /\ ops[k].op = "terminal" => Len(ops) = 1
           /\ o \notin Tasks => \A k \in DOMAIN ops :
                /\ \/ ops[k].op = "create" /\ ops[k].kind = "base" /\ k = 1
                   \/ ops[k].op = "change" /\ ops[k].kind \in {"base", "delta"} /\ k = 1
                   \/ ops[k].op = "retire" /\ ops[k].kind = "none" /\ k = Len(ops)
                /\ ops[k].op = "create" => mem.obj[o].st = "none"
                /\ k = 1 /\ ops[k].op # "create" => mem.obj[o].st # "none"
<1>. DEFINE S == [op : Ops, kind : Kinds]
<1>1. /\ Live \in S /\ Terminal \in S /\ Create \in S /\ Retire \in S
      /\ Change("base") \in S /\ Change("delta") \in S
  BY DEF Live, Terminal, Create, Retire, Change, Ops, Kinds
<1>2. /\ Live.op = "live" /\ Live.kind = "task" /\ Terminal.op = "terminal" /\ Terminal.kind = "task"
      /\ Create.op = "create" /\ Create.kind = "base" /\ Retire.op = "retire" /\ Retire.kind = "none"
      /\ Change("base").op = "change" /\ Change("base").kind = "base"
      /\ Change("delta").op = "change" /\ Change("delta").kind = "delta"
  BY DEF Live, Terminal, Create, Retire, Change
<1>. HIDE DEF S
<1>3. CASE ops = <<>>
  BY <1>3
<1>4. CASE ops # <<>>
  <2>1. mem.obj[o].st \notin {"terminal", "retired"}
    BY <1>4 DEF OpsOn
  <2>2. CASE o \in Tasks
    <3>1. ops = <<Live>> \/ ops = <<Live, Live>> \/ ops = <<Terminal>>
      BY <1>4, <2>1, <2>2 DEF OpsOn
    <3>2. /\ ops \in Seq(S)
          /\ \A k \in DOMAIN ops : /\ ops[k].op \in {"live", "terminal"} /\ ops[k].kind = "task"
                                   /\ ops[k].op = "terminal" => Len(ops) = 1
      <4>1. CASE ops = <<Live>>
        BY <1>1, <1>2, <4>1, OneOp
      <4>2. CASE ops = <<Live, Live>>
        BY <1>1, <1>2, <4>2, TwoOps
      <4>3. CASE ops = <<Terminal>>
        BY <1>1, <1>2, <4>3, OneOp
      <4>. QED
        BY <3>1, <4>1, <4>2, <4>3
    <3>. QED
      BY <2>1, <2>2, <3>2 DEF S
  <2>3. CASE o \notin Tasks /\ mem.obj[o].st = "none"
    <3>1. ops = <<Create>> \/ ops = <<Create, Retire>>
      BY <1>4, <2>1, <2>3 DEF OpsOn
    <3>2. /\ ops \in Seq(S)
          /\ \A k \in DOMAIN ops : \/ ops[k].op = "create" /\ ops[k].kind = "base" /\ k = 1
                                   \/ ops[k].op = "retire" /\ ops[k].kind = "none" /\ k = Len(ops) /\ k # 1
      <4>1. CASE ops = <<Create>>
        BY <1>1, <1>2, <4>1, OneOp
      <4>2. CASE ops = <<Create, Retire>>
        BY <1>1, <1>2, <4>2, TwoOps
      <4>. QED
        BY <3>1, <4>1, <4>2
    <3>. QED
      BY <2>1, <2>3, <3>2 DEF S
  <2>4. CASE o \notin Tasks /\ mem.obj[o].st # "none"
    <3>1. ops \in {<<Change("base")>>, <<Change("delta")>>, <<Retire>>, <<Change("base"), Retire>>}
      BY <1>4, <2>1, <2>4 DEF OpsOn
    <3>2. /\ ops \in Seq(S)
          /\ \A k \in DOMAIN ops :
                \/ ops[k].op = "change" /\ ops[k].kind \in {"base", "delta"} /\ k = 1
                \/ ops[k].op = "retire" /\ ops[k].kind = "none" /\ k = Len(ops)
      <4>1. CASE ops = <<Change("base")>>
        BY <1>1, <1>2, <4>1, OneOp
      <4>2. CASE ops = <<Change("delta")>>
        BY <1>1, <1>2, <4>2, OneOp
      <4>3. CASE ops = <<Retire>>
        BY <1>1, <1>2, <4>3, OneOp
      <4>4. CASE ops = <<Change("base"), Retire>>
        BY <1>1, <1>2, <4>4, TwoOps
      <4>. QED
        BY <3>1, <4>1, <4>2, <4>3, <4>4
    <3>. QED
      BY <2>1, <2>4, <3>2 DEF S
  <2>. QED
    BY <2>2, <2>3, <2>4
<1>. QED
  BY <1>3, <1>4

TaggedWith(ops, att) ==
    [k \in DOMAIN ops |-> [op |-> ops[k].op, kind |-> ops[k].kind, att |-> att]]

\* Writes are operations with their content.
LEMMA TaggedOps ==
    ASSUME NEW ops \in Seq([op : Ops, kind : Kinds]), NEW att \in Nat, NEW w,
           w = TaggedWith(ops, att)
    PROVE  /\ w \in Seq(Write) /\ Len(w) = Len(ops) /\ DOMAIN w = DOMAIN ops
           /\ w # <<>> => ops # <<>>
           /\ \A k \in DOMAIN w : w[k].op = ops[k].op /\ w[k].kind = ops[k].kind
<1>1. DOMAIN ops = 1 .. Len(ops) /\ Len(ops) \in Nat
  BY LenProperties
<1>2. \A k \in DOMAIN ops : ops[k].op \in Ops /\ ops[k].kind \in Kinds
  <2>1. \A k \in DOMAIN ops : ops[k] \in [op : Ops, kind : Kinds]
    BY <1>1, ElementOfSeq
  <2>. QED
    BY <2>1
<1>3. \A k \in DOMAIN ops : TaggedWith(ops, att)[k] \in Write
  BY <1>2 DEF Write, TaggedWith
<1>4. /\ w \in [1 .. Len(ops) -> Write] /\ DOMAIN w = 1 .. Len(ops)
      /\ \A k \in DOMAIN w : w[k].op = ops[k].op /\ w[k].kind = ops[k].kind
  BY <1>1, <1>3 DEF TaggedWith
<1>5. w \in Seq(Write) /\ Len(w) = Len(ops)
  BY <1>1, <1>4, SeqDef, LenProperties
<1>6. w # <<>> => ops # <<>>
  <2>1. ASSUME ops = <<>> PROVE w = <<>>
    BY <1>5, <2>1, EmptySeq, Zenon
  <2>. QED
    BY <2>1
<1>. QED
  BY <1>1, <1>4, <1>5, <1>6

\* A batch that commit() takes keeps the log in order.
LEMMA BatchFits ==
    ASSUME StorageInv, JsonlAssumption, job.at = "idle", NEW b \in Batches, NEW att \in Nat
    PROVE  Tagged(b, att) \in Batch /\ LogOK(Append(log, Tagged(b, att)))
<1>. DEFINE w == Tagged(b, att)
            OpsIn(o) == b[o] \in OpsOn(o)
<1>1. setting.used \subseteq Objects /\ \A o \in setting.used : OpsIn(o)
  BY DEF StorageInv, TypeOK, JsonlAssumption, Batches
<1>. HIDE DEF w, OpsIn
<1>2. ASSUME NEW o \in Objects
      PROVE  /\ w[o] \in Seq(Write) /\ Shaped(o, w[o])
             /\ w[o] # <<>> => StateOf(log, Len(log), o) \notin {"terminal", "retired"}
             /\ \A k \in DOMAIN w[o] :
                  /\ w[o][k].op = "create" => StateOf(log, Len(log), o) = "none"
                  /\ o \notin Tasks /\ k = 1 /\ w[o][k].op # "create" => StateOf(log, Len(log), o) # "none"
  <2>1. StateOf(log, Len(log), o) = mem.obj[o].st
    BY DEF StorageInv, MemOK, Serving, Value
  <2>2. CASE o \notin setting.used
    <3>1. w[o] = <<>>
      BY <2>2 DEF w, Tagged
    <3>. QED
      BY <3>1 DEF Shaped
  <2>3. CASE o \in setting.used
    <3>. DEFINE ops == b[o]
    <3>1. ops \in OpsOn(o)
      BY <1>1, <2>3 DEF OpsIn
    <3>2. w[o] = TaggedWith(ops, att)
      BY <2>3 DEF w, Tagged, TaggedWith
    <3>. HIDE DEF ops
    <3>3. /\ ops \in Seq([op : Ops, kind : Kinds])
          /\ ops # <<>> => mem.obj[o].st \notin {"terminal", "retired"}
          /\ o \in Tasks => \A k \in DOMAIN ops :
               /\ ops[k].op \in {"live", "terminal"} /\ ops[k].kind = "task"
               /\ ops[k].op = "terminal" => Len(ops) = 1
          /\ o \notin Tasks => \A k \in DOMAIN ops :
               /\ \/ ops[k].op = "create" /\ ops[k].kind = "base" /\ k = 1
                  \/ ops[k].op = "change" /\ ops[k].kind \in {"base", "delta"} /\ k = 1
                  \/ ops[k].op = "retire" /\ ops[k].kind = "none" /\ k = Len(ops)
               /\ ops[k].op = "create" => mem.obj[o].st = "none"
               /\ k = 1 /\ ops[k].op # "create" => mem.obj[o].st # "none"
      BY <3>1, OpsAre
    <3>4. /\ w[o] \in Seq(Write) /\ Len(w[o]) = Len(ops) /\ DOMAIN w[o] = DOMAIN ops
          /\ w[o] # <<>> => ops # <<>>
          /\ \A k \in DOMAIN w[o] : w[o][k].op = ops[k].op /\ w[o][k].kind = ops[k].kind
      <4>1. ops \in Seq([op : Ops, kind : Kinds])
        BY <3>3
      <4>. QED
        BY <3>2, <4>1, TaggedOps
    <3>5. Shaped(o, w[o])
      BY <3>3, <3>4 DEF Shaped
    <3>6. \A k \in DOMAIN w[o] :
            /\ w[o][k].op = "create" => StateOf(log, Len(log), o) = "none"
            /\ o \notin Tasks /\ k = 1 /\ w[o][k].op # "create" => StateOf(log, Len(log), o) # "none"
      <4>1. ASSUME NEW k \in DOMAIN w[o] PROVE o \in Tasks => w[o][k].op # "create"
        BY <3>3, <3>4, <4>1
      <4>. QED
        BY <2>1, <3>3, <3>4, <4>1
    <3>. QED
      BY <2>1, <3>3, <3>4, <3>5, <3>6
  <2>. QED
    BY <2>2, <2>3
<1>3. w \in Batch
  <2>1. w = [o \in Objects |-> w[o]]
    BY DEF w, Tagged
  <2>2. \A o \in Objects : w[o] \in Seq(Write)
    BY <1>2
  <2>. QED
    BY <2>1, <2>2 DEF Batch
<1>4. LogOK(log)
  BY DEF StorageInv
<1>5. LogOK(Append(log, w))
  BY <1>2, <1>3, <1>4, BatchOnto
<1>. QED
  BY <1>3, <1>5 DEF w

------------------------------------------------------------------------------
(* Every step keeps the invariant *)

Jobs == [at : Phases, writes : Batch, todo : SUBSET Objects, plan : Plans, pos : Nat]

\* The job at rest, and that of a process that is down.
LEMMA RestIs ==
    /\ NoJob \in Jobs /\ NoJob.at = "idle" /\ NoJob.todo = {} /\ NoJob.pos = 0
    /\ NoJob.writes = NoWrites /\ NoJob.plan = <<>>
    /\ Down \in Jobs /\ Down.at = "down"
<1>1. NoWrites \in Batch
  <2>1. <<>> \in Seq(Write)
    OBVIOUS
  <2>. QED
    BY <2>1 DEF NoWrites, Batch
<1>2. <<>> \in Plans
  <2>1. <<>> \in [{} -> Seq(Rec)]
    OBVIOUS
  <2>2. {} \in SUBSET Objects
    OBVIOUS
  <2>. QED
    BY <2>1, <2>2, Zenon DEF Plans
<1>. HIDE DEF NoWrites, Batch, Plans
<1>3. {} \in SUBSET Objects /\ 0 \in Nat
  OBVIOUS
<1>. QED
  BY <1>1, <1>2, <1>3 DEF NoJob, Down, Jobs, Phases

\* A phase that hands on to the next one.
LEMMA JobMoves ==
    ASSUME StorageInv, NEW at \in Phases, NEW todo \in SUBSET Objects,
           job' = [job EXCEPT !.at = at, !.todo = todo]
    PROVE  /\ job' \in Jobs /\ job'.at = at /\ job'.todo = todo
           /\ job'.writes = job.writes /\ job'.plan = job.plan /\ job'.pos = job.pos
  BY DEF StorageInv, TypeOK, Jobs

\* What is said of the files does not depend on anything else.
LEMMA FilesKept ==
    ASSUME StorageInv, UNCHANGED <<disk, risk, log>>, budget'["power"] = budget["power"]
    PROVE  FilesOK' /\ LogOK(log)'
  BY DEF StorageInv, FilesOK, RiskOK, MainOK, SidecarsOK, Versions, Lengths

\* A process that dies leaves nothing but files.
LEMMA DownSafe ==
    ASSUME StorageInv, LogOK(log)', FilesOK', BudgetOK', budget' \in [Failures -> Nat],
           attempts' = attempts, setting' = setting, Dies
    PROVE  StorageInv'
<1>1. job' \in Jobs /\ job'.at = "down"
  BY RestIs DEF Dies
<1>2. TypeOK'
  BY <1>1 DEF TypeOK, Jobs, StorageInv
<1>3. WholeLines'
  BY <1>1 DEF WholeLines
<1>4. MemOK' /\ WritingOK' /\ ReclaimingOK' /\ OpeningOK'
  BY <1>1 DEF MemOK, WritingOK, ReclaimingOK, OpeningOK, Serving, Writing, Reclaiming
<1>. QED
  BY <1>1, <1>2, <1>3, <1>4 DEF StorageInv

\* What is spent of a budget.
LEMMA Spent ==
    ASSUME StorageInv, NEW k \in Failures, Spend(k), setting' = setting
    PROVE  /\ BudgetOK' /\ budget' \in [Failures -> Nat]
           /\ budget[k] > 0 /\ budget'[k] = budget[k] - 1 /\ \A x \in Failures \ {k} : budget'[x] = budget[x]
<1>1. budget \in [Failures -> Nat] /\ \A x \in Failures : setting.failures[x] \in Nat
  BY JsonlAssumption DEF StorageInv, TypeOK
<1>2. /\ budget' \in [Failures -> Nat]
      /\ budget[k] > 0 /\ budget'[k] = budget[k] - 1 /\ \A x \in Failures \ {k} : budget'[x] = budget[x]
  BY <1>1 DEF Spend
<1>3. ASSUME NEW x \in Failures PROVE budget'[x] <= setting'.failures[x]
  BY <1>1, <1>2 DEF StorageInv, BudgetOK
<1>. QED
  BY <1>2, <1>3 DEF BudgetOK

------------------------------------------------------------------------------
(* Appends, whole and cut short *)

\* The head of a sequence of records.
LEMMA FirstOnes ==
    ASSUME NEW d \in Seq(Rec), NEW k \in 0 .. Len(d)
    PROVE  /\ SubSeq(d, 1, k) \in Seq(Rec) /\ DOMAIN SubSeq(d, 1, k) = 1 .. k
           /\ \A j \in 1 .. k : SubSeq(d, 1, k)[j] = d[j] /\ j \in DOMAIN d
           /\ SubSeq(d, 1, Len(d)) = d
<1>1. Len(d) \in Nat /\ DOMAIN d = 1 .. Len(d)
  BY LenProperties
<1>2. SubSeq(d, 1, k) \in Seq(Rec) /\ Len(SubSeq(d, 1, k)) = k
  BY <1>1, SubSeqProperties
<1>3. DOMAIN SubSeq(d, 1, k) = 1 .. k
  BY <1>2, LenProperties
<1>4. \A j \in 1 .. k : SubSeq(d, 1, k)[j] = d[j] /\ j \in DOMAIN d
  BY <1>1, <1>2, SubSeqProperties
<1>. QED
  BY <1>2, <1>3, <1>4, SubSeqFull

\* An append cut short has written the first of its lines.
LEMMA CutIs ==
    ASSUME NEW c, NEW d, NEW e \in CutShort(c, d)
    PROVE  \E k \in 0 .. Len(d) : e.lines = c.lines \o SubSeq(d, 1, k)
<1>1. e.lines \in {c.lines \o SubSeq(d, 1, k) : k \in 0 .. Len(d)}
  BY DEF CutShort
<1>. QED
  BY <1>1

\* What a commit puts into a sidecar on its way is sound for every main file.
LEMMA AppendSound ==
    ASSUME StorageInv, job.at = "append", NEW o \in job.todo
    PROVE  /\ \A n \in Lengths : Sound(log, n, o, disk[o].lines \o Appended(o))
           /\ \A x \in CutShort(disk[o], Appended(o)) : \A n \in Lengths : Sound(log, n, o, x.lines)
<1>. DEFINE N == Len(log)
            c == disk[o].lines
            d == Appended(o)
<1>1. LogOK(log) /\ MainOK /\ o \in Objects /\ mem.next = N + 1
  BY DEF StorageInv, FilesOK, TypeOK, MemOK, Serving
<1>2. N \in Nat /\ Lengths \subseteq 0 .. N
  BY <1>1, LengthsAre
<1>3. \A n \in Lengths : Sound(log, n, o, c)
  BY <1>1 DEF StorageInv, FilesOK, SidecarsOK, Versions
<1>4. /\ AllNamed(log, N, o, c)
      /\ Append(log, job.writes) \in Seq(Batch) /\ Orderly(Append(log, job.writes), o)
  BY <1>1 DEF StorageInv, WritingOK, Writing, LogOK
<1>5. job.writes \in Batch
  BY DEF StorageInv, TypeOK
<1>6. Shaped(o, job.writes[o])
  <2>1. log \in Seq(Batch)
    BY <1>1 DEF LogOK
  <2>2. Append(log, job.writes)[N + 1] = job.writes /\ Len(Append(log, job.writes)) = N + 1
    BY <1>5, <2>1, LogGrows
  <2>3. N + 1 \in DOMAIN Append(log, job.writes)
    BY <1>2, <1>4, <2>2, LenProperties
  <2>. QED
    BY <1>4, <2>2, <2>3 DEF Orderly
<1>7. /\ d \in Seq(Rec) /\ Len(d) \in Nat /\ DOMAIN d = 1 .. Len(d)
      /\ \A k \in DOMAIN d : d[k] = Record(N + 1, k, job.writes[o][k])
  BY <1>1, <1>2, <1>5, <1>6, RecordsOf DEF Appended
<1>8. \A j \in DOMAIN d : d[j].seq = N + 1 /\ d[j].ord = j
  BY <1>7 DEF Record
<1>9. \A i \in DOMAIN c : c[i].seq <= N
  BY <1>2, <1>4 DEF AllNamed, NamedBy
<1>. HIDE DEF N, c, d
<1>10. ASSUME NEW k \in 0 .. Len(d), NEW n \in Lengths
       PROVE  Sound(log, n, o, c \o SubSeq(d, 1, k))
  <2>1. /\ SubSeq(d, 1, k) \in Seq(Rec) /\ DOMAIN SubSeq(d, 1, k) = 1 .. k
        /\ \A j \in 1 .. k : SubSeq(d, 1, k)[j] = d[j] /\ j \in DOMAIN d
    BY <1>7, FirstOnes
  <2>2. /\ \A j \in DOMAIN SubSeq(d, 1, k) : SubSeq(d, 1, k)[j].seq = N + 1
        /\ \A i, j \in DOMAIN SubSeq(d, 1, k) :
              i < j => SubSeq(d, 1, k)[i].ord < SubSeq(d, 1, k)[j].ord
    BY <1>8, <2>1
  <2>3. n \in Nat /\ n <= N
    BY <1>2
  <2>. HIDE DEF Sound
  <2>. QED
    BY <1>2, <1>3, <1>9, <2>1, <2>2, <2>3, SoundTail
<1>11. \A n \in Lengths : Sound(log, n, o, c \o d)
  <2>1. SubSeq(d, 1, Len(d)) = d /\ Len(d) \in 0 .. Len(d)
    BY <1>7, FirstOnes
  <2>. QED
    BY <1>10, <2>1
<1>12. ASSUME NEW x \in CutShort(disk[o], d), NEW n \in Lengths PROVE Sound(log, n, o, x.lines)
  <2>1. \E k \in 0 .. Len(d) : x.lines = c \o SubSeq(d, 1, k)
    BY CutIs DEF c
  <2>. QED
    BY <1>10, <2>1
<1>. QED
  BY <1>11, <1>12 DEF c, d

\* What an append of the marker may leave of the main file.
LEMMA MarkerCut ==
    ASSUME StorageInv, job.at = "marker"
    PROVE  LET line == <<Marker(job.writes, mem.next)>>
               next == Append(log, job.writes)
           IN  /\ disk[Main].lines \o line = MarkersOf(next, Len(log) + 1)
               /\ \A x \in CutShort(disk[Main], line) :
                    \/ x.lines = MarkersOf(log, Len(log)) /\ Len(x.lines) = Len(log)
                    \/ x.lines = MarkersOf(next, Len(log) + 1) /\ Len(x.lines) = Len(log) + 1
               /\ job.writes \in Batch /\ Len(log) \in Nat
<1>. DEFINE N == Len(log)
            m == Marker(job.writes, mem.next)
            next == Append(log, job.writes)
            S == {Marker(log[i], i) : i \in 1 .. N} \cup {m}
<1>1. /\ LogOK(log) /\ log \in Seq(Batch) /\ disk[Main].lines = MarkersOf(log, N) /\ mem.next = N + 1
      /\ job.writes \in Batch
  BY DEF StorageInv, FilesOK, MainOK, TypeOK, MemOK, Serving, LogOK
<1>2. N \in Nat
  BY <1>1, LenProperties
<1>3. MarkersOf(log, N) \o <<m>> = MarkersOf(next, N + 1)
  BY <1>1, MarkerAppended
<1>4. MarkersOf(log, N) \in Seq(S) /\ m \in S
  BY <1>2, MarkersLen
<1>5. Len(MarkersOf(log, N)) = N /\ Len(MarkersOf(next, N + 1)) = N + 1
  BY <1>2, MarkersLen
<1>. HIDE DEF S, m, N, next
<1>6. ASSUME NEW x \in CutShort(disk[Main], <<m>>)
      PROVE  x.lines = MarkersOf(log, N) \/ x.lines = MarkersOf(next, N + 1)
  BY <1>1, <1>3, <1>4, CutLine
<1>. QED
  BY <1>1, <1>2, <1>3, <1>5, <1>6 DEF N, m, next

\* Whatever an append under way has left, the files are in order.
LEMMA Interrupted ==
    ASSUME StorageInv, PartialAppend, budget'["power"] = budget["power"]
    PROVE  FilesOK' /\ LogOK(log)'
<1>1. /\ FilesOK /\ LogOK(log) /\ budget["power"] \in Nat
  BY DEF StorageInv, TypeOK, Failures
<1>2. CASE UNCHANGED <<disk, risk, log>>
  BY <1>2, FilesKept
<1>3. ASSUME job.at = "append", NEW o \in job.todo, NEW c \in CutShort(disk[o], Appended(o)),
             Landed(o, c, Appended(o)), UNCHANGED log
      PROVE  FilesOK' /\ LogOK(log)'
  <2>. DEFINE between == {x \in CutShort(disk[o], Appended(o)) : Len(x.lines) < Len(c.lines)}
                            \cup {Holding(c.lines)}
  <2>1. o \in Objects
    BY DEF StorageInv, TypeOK
  <2>2. \A x \in CutShort(disk[o], Appended(o)) : \A n \in Lengths : Sound(log, n, o, x.lines)
    BY <1>3, AppendSound
  <2>3. Holding(c.lines).lines = c.lines
    BY DEF Holding
  <2>4. /\ \A n \in Lengths : Sound(log, n, o, c.lines)
        /\ \A x \in between : \A n \in Lengths : Sound(log, n, o, x.lines)
    <3>. HIDE DEF Sound, Lengths
    <3>. QED
      BY <1>3, <2>2, <2>3
  <2>5. Shows(o, c, between)
    BY <1>3 DEF Landed
  <2>6. FilesOK'
    <3>. HIDE DEF between
    <3>. QED
      BY <1>1, <1>3, <2>1, <2>4, <2>5, SidecarShown
  <2>. QED
    BY <1>1, <1>3, <2>6
<1>4. ASSUME job.at = "marker",
             NEW c \in CutShort(disk[Main], <<Marker(job.writes, mem.next)>>),
             Landed(Main, c, <<Marker(job.writes, mem.next)>>),
             log' = IF Len(c.lines) > Len(log) THEN Append(log, job.writes) ELSE log
      PROVE  FilesOK' /\ LogOK(log)'
  <2>. DEFINE line == <<Marker(job.writes, mem.next)>>
              next == Append(log, job.writes)
              between == {x \in CutShort(disk[Main], line) : Len(x.lines) < Len(c.lines)}
                            \cup {Holding(c.lines)}
  <2>1. /\ \A x \in CutShort(disk[Main], line) :
              \/ x.lines = MarkersOf(log, Len(log)) /\ Len(x.lines) = Len(log)
              \/ x.lines = MarkersOf(next, Len(log) + 1) /\ Len(x.lines) = Len(log) + 1
        /\ Len(log) \in Nat
    BY <1>4, MarkerCut
  <2>2. Holding(c.lines).lines = c.lines
    BY DEF Holding
  <2>3. Shows(Main, c, between) /\ c \in CutShort(disk[Main], line)
    BY <1>4 DEF Landed
  <2>. HIDE DEF line, next
  <2>4. CASE Len(c.lines) > Len(log)
    <3>1. log' = next /\ c.lines = MarkersOf(next, Len(log) + 1)
      BY <1>4, <2>1, <2>3, <2>4 DEF next
    <3>2. \A x \in between : x.lines = MarkersOf(log, Len(log)) \/ x.lines = MarkersOf(next, Len(log) + 1)
      BY <2>1, <2>2, <3>1
    <3>. HIDE DEF between
    <3>. QED
      BY <1>4, <2>3, <3>1, <3>2, Published DEF next
  <2>5. CASE ~(Len(c.lines) > Len(log))
    <3>1. log' = log /\ c.lines = MarkersOf(log, Len(log)) /\ Len(c.lines) = Len(log)
      BY <1>4, <2>1, <2>3, <2>5
    <3>2. \A x \in {c} \cup between : x.lines = MarkersOf(log, Len(log))
      BY <2>1, <2>2, <3>1
    <3>. HIDE DEF between
    <3>. QED
      BY <1>1, <2>3, <3>1, <3>2, MainShown
  <2>. QED
    BY <2>4, <2>5
<1>. QED
  BY <1>2, <1>3, <1>4 DEF PartialAppend

\* Wherever the process stops, of itself or with its host, the files can be recovered.
LEMMA DyingSafe ==
    ASSUME StorageInv, setting' = setting, Poison \/ Crash \/ PowerFails \/ OpenFails
    PROVE  StorageInv'
<1>1. \E k \in Failures : Spend(k)
  BY DEF Poison, Crash, PowerFails, OpenFails, Failures
<1>2. BudgetOK' /\ budget' \in [Failures -> Nat]
  BY <1>1, Spent
<1>3. Dies /\ attempts' = attempts
  BY DEF Poison, Crash, PowerFails, OpenFails
<1>4. CASE Poison \/ Crash
  <2>1. budget'["power"] = budget["power"]
    <3>1. Spend("io") \/ Spend("crash")
      BY <1>4 DEF Poison, Crash
    <3>. QED
      BY <3>1, Spent DEF Failures
  <2>2. PartialAppend
    BY <1>4 DEF Poison, Crash
  <2>. QED
    BY <1>2, <1>3, <2>1, <2>2, Interrupted, DownSafe
<1>5. CASE OpenFails
  <2>1. budget'["power"] = budget["power"] /\ UNCHANGED <<disk, risk, log>>
    <3>1. Spend("io") /\ UNCHANGED <<disk, risk, log>>
      BY <1>5 DEF OpenFails
    <3>. QED
      BY <3>1, Spent DEF Failures
  <2>. QED
    BY <1>2, <1>3, <2>1, FilesKept, DownSafe
<1>6. CASE PowerFails
  <2>1. LogOK(log)' /\ FilesOK'
    BY <1>6, PowerLost
  <2>. QED
    BY <1>2, <1>3, <2>1, DownSafe
<1>. QED
  BY <1>4, <1>5, <1>6

\* What a commit makes superfluous becomes what the batch leaves of it.
LEMMA PlanReady ==
    ASSUME StorageInv, JsonlAssumption, job.at = "idle", NEW b \in Batches, NEW att \in Nat,
           NEW w, w = Tagged(b, att)
    PROVE  /\ Plan(w, mem.next) \in Plans
           /\ \A o \in DOMAIN Plan(w, mem.next) :
                 Ready(Append(log, w), o, Plan(w, mem.next)[o])
<1>. DEFINE N == Len(log)
            next == Append(log, w)
            has(o, op) == \E k \in DOMAIN w[o] : w[o][k].op = op
            gone == {o \in Latest : has(o, "retire")}
                        \cup {o \in Tasks : has(o, "terminal") /\ mem.obj[o].st = "live"}
            shrunk == {o \in Latest \ gone :
                         \E k \in DOMAIN w[o] : w[o][k].op = "change" /\ w[o][k].kind = "base"}
            plan == Plan(w, mem.next)
<1>1. /\ log \in Seq(Batch) /\ mem.next = N + 1
  BY DEF StorageInv, MemOK, Serving, LogOK
<1>2. N \in Nat
  BY <1>1, LenProperties
<1>3. w \in Batch /\ LogOK(next)
  BY BatchFits
<1>4. Len(next) = N + 1 /\ next[N + 1] = w
  BY <1>1, <1>3, LogGrows
<1>5. /\ plan = [o \in gone \cup shrunk |-> IF o \in gone THEN <<>> ELSE Records(w, o, N + 1)]
      /\ gone \subseteq Tasks \cup Latest /\ shrunk \subseteq Latest
  BY <1>1 DEF Plan
<1>6. ASSUME NEW o \in gone PROVE Ready(next, o, <<>>) /\ <<>> \in Seq(Rec)
  <2>1. \/ o \in Latest /\ \E k \in DOMAIN next[N + 1][o] : next[N + 1][o][k].op = "retire"
        \/ o \in Tasks /\ \E k \in DOMAIN next[N + 1][o] : next[N + 1][o][k].op = "terminal"
    BY <1>4
  <2>2. N + 1 \in 1 .. N + 1
    BY <1>2
  <2>. HIDE DEF next, N
  <2>3. \/ o \in Latest /\ Said(next, N + 1, o, "retire")
        \/ o \in Tasks /\ Said(next, N + 1, o, "terminal")
    BY <2>1, <2>2 DEF Said
  <2>4. Sound(next, N + 1, o, <<>>) /\ AllNamed(next, N + 1, o, <<>>)
    BY <2>3, SoundEmpty
  <2>. QED
    BY <1>4, <2>4 DEF Ready
<1>7. ASSUME NEW o \in shrunk
      PROVE  Ready(next, o, Records(w, o, N + 1)) /\ Records(w, o, N + 1) \in Seq(Rec)
  <2>1. PICK k \in DOMAIN next[N + 1][o] :
           next[N + 1][o][k].op \in InSidecar /\ next[N + 1][o][k].kind = "base"
    BY <1>4 DEF InSidecar
  <2>2. o \in Latest /\ N < Len(next)
    BY <1>2, <1>4
  <2>. HIDE DEF next, N, shrunk
  <2>3. /\ Sound(next, N + 1, o, Records(next[N + 1], o, N + 1))
        /\ AllNamed(next, N + 1, o, Records(next[N + 1], o, N + 1))
    BY <1>2, <1>3, <2>1, <2>2, SoundBase
  <2>4. Records(next[N + 1], o, N + 1) \in Seq(Rec)
    BY <2>3 DEF Sound
  <2>. QED
    BY <1>4, <2>3, <2>4 DEF Ready
<1>. HIDE DEF gone, shrunk, next, N
<1>8. ASSUME NEW o \in DOMAIN plan PROVE plan[o] \in Seq(Rec) /\ Ready(next, o, plan[o])
  <2>1. o \in gone \cup shrunk /\ plan[o] = IF o \in gone THEN <<>> ELSE Records(w, o, N + 1)
    BY <1>5
  <2>. QED
    BY <1>6, <1>7, <2>1
<1>9. plan \in Plans
  <2>. DEFINE D == gone \cup shrunk
  <2>1. D \in SUBSET Objects
    BY <1>5 DEF Objects
  <2>2. DOMAIN plan = D /\ plan = [o \in D |-> plan[o]]
    BY <1>5
  <2>. HIDE DEF D, plan
  <2>3. plan \in [D -> Seq(Rec)]
    BY <1>8, <2>2
  <2>. QED
    BY <2>1, <2>3, Zenon DEF Plans
<1>. QED
  BY <1>8, <1>9 DEF next

\* A batch is prepared: every record it will leave behind is one it names.
LEMMA CommitBeginSafe ==
    ASSUME StorageInv, CommitBegin, setting' = setting
    PROVE  StorageInv'
<1>. DEFINE N == Len(log)
<1>1. job.at = "idle" /\ attempts' \in Nat /\ UNCHANGED <<disk, risk, mem, log, budget>>
  BY DEF CommitBegin, StorageInv, TypeOK
<1>2. PICK b \in Batches :
         LET writes == Tagged(b, attempts')
             todo == Touched(writes, mem.next)
         IN  job' = [NoJob EXCEPT !.at = IF todo = {} THEN "marker" ELSE "append",
                                  !.writes = writes, !.todo = todo,
                                  !.plan = Plan(writes, mem.next)]
  BY DEF CommitBegin
<1>. DEFINE w == Tagged(b, attempts')
            next == Append(log, w)
            todo == Touched(w, N + 1)
            plan == Plan(w, mem.next)
<1>3. /\ log \in Seq(Batch) /\ mem.next = N + 1
  BY <1>1 DEF StorageInv, MemOK, Serving, LogOK
<1>4. N \in Nat
  BY <1>3, LenProperties
<1>5. w \in Batch /\ LogOK(next)
  BY <1>1, BatchFits, JsonlAssumption
<1>6. plan \in Plans /\ \A o \in DOMAIN plan : Ready(next, o, plan[o])
  BY <1>1, PlanReady, JsonlAssumption
<1>7. /\ Len(next) = N + 1 /\ next[N + 1] = w /\ \A i \in 1 .. N : log[i] = next[i]
  BY <1>3, <1>5, LogGrows
<1>8. todo \subseteq Objects
  BY DEF Touched
<1>9. job' = [NoJob EXCEPT !.at = IF todo = {} THEN "marker" ELSE "append",
                           !.writes = w, !.todo = todo, !.plan = plan]
  BY <1>2, <1>3
<1>. HIDE DEF w, next, todo, plan, N
<1>10. /\ job' \in Jobs /\ job'.at = (IF todo = {} THEN "marker" ELSE "append")
       /\ job'.writes = w /\ job'.todo = todo /\ job'.plan = plan
  BY <1>5, <1>6, <1>8, <1>9, RestIs DEF Jobs, Phases
<1>11. ASSUME NEW o \in Objects, o \notin todo PROVE Ready(next, o, disk[o].lines)
  <2>1. Shaped(o, w[o])
    <3>1. N + 1 \in 1 .. Len(next)
      BY <1>4, <1>7
    <3>. QED
      BY <1>5, <1>7, <3>1, Shapes
  <2>2. \A k \in DOMAIN w[o] : w[o][k].op \notin InSidecar
    BY <1>4, <1>5, <1>11, <2>1, TouchedWhen DEF todo
  <2>3. Sound(log, N, o, disk[o].lines) /\ AllNamed(log, N, o, disk[o].lines)
    <3>1. N \in Lengths
      BY LengthsAre DEF StorageInv, FilesOK, N
    <3>. QED
      BY <1>1, <3>1 DEF StorageInv, FilesOK, SidecarsOK, Versions, ReclaimingOK, N
  <2>4. Sound(next, N, o, disk[o].lines) /\ AllNamed(next, N, o, disk[o].lines)
    BY <1>7, <2>3, SameSound, SameNamed
  <2>5. Sound(next, N + 1, o, disk[o].lines) /\ AllNamed(next, N + 1, o, disk[o].lines)
    BY <1>4, <1>7, <2>2, <2>4, SoundUntouched
  <2>. QED
    BY <1>7, <2>5 DEF Ready
<1>12. FilesOK' /\ LogOK(log)'
  BY <1>1, FilesKept
<1>13. WritingOK'
  <2>1. Append(log, job.writes)' = next /\ Touched(job.writes, Len(log) + 1)' = todo
    BY <1>1, <1>10 DEF next, todo, N
  <2>2. \A o \in Objects : AllNamed(log, Len(log), o, disk[o].lines)
    BY <1>1 DEF StorageInv, ReclaimingOK
  <2>. HIDE DEF Ready, AllNamed, LogOK
  <2>3. ASSUME NEW o \in Objects
        PROVE  IF job'.at = "append" /\ o \in job'.todo
               THEN AllNamed(log', Len(log'), o, disk'[o].lines)
               ELSE Ready(next, o, disk'[o].lines)
    BY <1>1, <1>10, <1>11, <2>2
  <2>. QED
    BY <1>5, <1>6, <1>10, <2>1, <2>3 DEF WritingOK
<1>14. TypeOK' /\ BudgetOK' /\ WholeLines' /\ MemOK' /\ ReclaimingOK' /\ OpeningOK' /\ job'.at # "corrupt"
  <2>0. job'.at \in {"append", "marker"}
    BY <1>10
  <2>1. TypeOK' /\ BudgetOK'
    BY <1>1, <1>10 DEF StorageInv, TypeOK, Jobs, BudgetOK
  <2>2. WholeLines'
    BY <1>1 DEF StorageInv, WholeLines
  <2>3. MemOK'
    BY <1>1, <2>0 DEF StorageInv, MemOK, Serving
  <2>4. ReclaimingOK' /\ OpeningOK' /\ job'.at # "corrupt"
    BY <2>0 DEF ReclaimingOK, OpeningOK, Reclaiming
  <2>. QED
    BY <2>1, <2>2, <2>3, <2>4
<1>. QED
  BY <1>12, <1>13, <1>14 DEF StorageInv

\* Without fsync the power is not what fails, and nothing is at risk.
LEMMA NoRisk ==
    ASSUME StorageInv, ~Fsync
    PROVE  budget["power"] = 0 /\ \A f \in Files : risk[f] = {}
<1>1. ~(setting.failures["power"] > 0) /\ setting.failures["power"] \in Nat
  BY JsonlAssumption DEF StorageInv, TypeOK, Fsync, Failures
<1>2. budget["power"] \in Nat /\ budget["power"] <= setting.failures["power"]
  BY DEF StorageInv, TypeOK, BudgetOK, Failures
<1>3. budget["power"] = 0
  BY <1>1, <1>2
<1>. QED
  BY <1>3 DEF StorageInv, FilesOK, RiskOK

\* Of a flushed file a power failure leaves what everybody sees.
LEMMA Flushed ==
    ASSUME StorageInv, NEW f \in Files, Flushes(f), UNCHANGED <<disk, log>>,
           budget'["power"] = budget["power"]
    PROVE  /\ FilesOK' /\ LogOK(log)'
           /\ risk'[f] = {} /\ \A g \in Files \ {f} : risk'[g] = risk[g]
<1>1. /\ DOMAIN risk = Files /\ DOMAIN risk' = Files
      /\ risk'[f] = {} /\ \A g \in Files \ {f} : risk'[g] = risk[g]
  BY DEF StorageInv, FilesOK, RiskOK, Flushes
<1>2. \A g \in Files : risk'[g] \subseteq risk[g]
  BY <1>1
<1>3. Main \in Files /\ Objects \subseteq Files
  BY DEF Files
<1>4. RiskOK'
  BY <1>1, <1>2 DEF StorageInv, FilesOK, RiskOK
<1>5. MainOK'
  BY <1>2, <1>3 DEF StorageInv, FilesOK, MainOK
<1>6. \A g \in Files : Versions(g)' \subseteq Versions(g)
  BY <1>2 DEF Versions
<1>7. Lengths' \subseteq Lengths
  BY <1>3, <1>6 DEF Lengths
<1>8. SidecarsOK'
  <2>. HIDE DEF Sound, Versions, Lengths
  <2>. QED
    BY <1>3, <1>6, <1>7 DEF StorageInv, FilesOK, SidecarsOK
<1>. QED
  BY <1>1, <1>4, <1>5, <1>8 DEF FilesOK, StorageInv

\* The log that a commit under way leads to.
LEMMA NextLog ==
    ASSUME StorageInv, Writing
    PROVE  LET next == Append(log, job.writes)
           IN  /\ LogOK(log) /\ LogOK(next) /\ job.writes \in Batch
               /\ Len(log) \in Nat /\ Len(next) = Len(log) + 1 /\ next[Len(log) + 1] = job.writes
               /\ \A i \in 1 .. Len(log) : log[i] = next[i]
               /\ mem.next = Len(log) + 1
<1>1. log \in Seq(Batch) /\ job.writes \in Batch /\ LogOK(log) /\ mem.next = Len(log) + 1
  BY DEF StorageInv, TypeOK, LogOK, MemOK, Serving, Writing
<1>2. LogOK(Append(log, job.writes))
  BY DEF StorageInv, WritingOK
<1>. QED
  BY <1>1, <1>2, LogGrows

\* The records of an object reach its sidecar before a marker names them.
LEMMA AppendSidecarSafe ==
    ASSUME StorageInv, NEW o \in Objects, AppendSidecar(o), setting' = setting
    PROVE  StorageInv'
<1>. DEFINE N == Len(log)
            w == job.writes
            next == Append(log, w)
            c == disk[o].lines
<1>1. /\ job.at = "append" /\ o \in job.todo /\ UNCHANGED <<mem, attempts, log, budget>>
      /\ Shows(o, Holding(c \o Appended(o)), CutShort(disk[o], Appended(o)))
      /\ job' = Then(job.todo \ {o}, "append", ToFlush)
  BY DEF AppendSidecar
<1>2. /\ LogOK(log) /\ LogOK(next) /\ w \in Batch
      /\ N \in Nat /\ Len(next) = N + 1 /\ next[N + 1] = w
      /\ (\A i \in 1 .. N : log[i] = next[i])
      /\ mem.next = N + 1
  BY <1>1, NextLog DEF Writing
<1>3. /\ budget["power"] \in Nat /\ FilesOK /\ RiskOK /\ job \in Jobs /\ job.todo \subseteq Objects
      /\ o \in Files
  BY DEF StorageInv, TypeOK, FilesOK, Failures, Jobs, Files
<1>4. /\ \A n \in Lengths : Sound(log, n, o, c \o Appended(o))
      /\ \A x \in CutShort(disk[o], Appended(o)) : \A n \in Lengths : Sound(log, n, o, x.lines)
  BY <1>1, AppendSound
<1>5. Holding(c \o Appended(o)).lines = c \o Appended(o) /\ Holding(c \o Appended(o)).torn = FALSE
  BY DEF Holding
<1>6. FilesOK'
  <2>. HIDE DEF Sound, Lengths
  <2>. QED
    BY <1>1, <1>3, <1>4, <1>5, SidecarShown
<1>7. /\ disk'[o] = Holding(c \o Appended(o))
      /\ \A g \in Files \ {o} : disk'[g] = disk[g]
  <2>. DEFINE between == CutShort(disk[o], Appended(o))
              x == Holding(c \o Appended(o))
  <2>1. Shows(o, x, between)
    BY <1>1
  <2>. HIDE DEF between, x, Shows
  <2>2. disk'[o] = x /\ \A g \in Files \ {o} : disk'[g] = disk[g] /\ risk'[g] = risk[g]
    BY <1>1, <1>3, <2>1, Shown
  <2>. QED
    BY <2>2 DEF x
<1>8. Ready(next, o, disk'[o].lines)
  <2>1. Appended(o) = Records(w, o, N + 1)
    BY <1>2 DEF Appended
  <2>2. AllNamed(log, N, o, c)
    BY <1>1 DEF StorageInv, WritingOK, Writing
  <2>3. Sound(log, N, o, c)
    <3>1. N \in Lengths
      BY LengthsAre DEF StorageInv, FilesOK
    <3>. QED
      BY <1>3, <3>1 DEF FilesOK, SidecarsOK, Versions
  <2>. HIDE DEF next, N, w, c
  <2>4. Sound(next, N, o, c) /\ AllNamed(next, N, o, c)
    BY <1>2, <2>2, <2>3, SameSound, SameNamed
  <2>5. /\ Sound(next, N + 1, o, c \o Records(next[N + 1], o, N + 1))
        /\ AllNamed(next, N + 1, o, c \o Records(next[N + 1], o, N + 1))
    BY <1>2, <2>4, SoundNext
  <2>. QED
    BY <1>2, <1>5, <1>7, <2>1, <2>5 DEF Ready
<1>. DEFINE T == Touched(w, N + 1)
<1>9. /\ T \subseteq Objects /\ Touched(w, mem.next) = T
  BY <1>2 DEF Touched
<1>10. /\ job' \in Jobs /\ job'.writes = w /\ job'.plan = job.plan
       /\ \/ job'.at = "append" /\ job'.todo = job.todo \ {o}
          \/ job'.at = "flush" /\ job'.todo = T /\ job.todo \ {o} = {}
          \/ job'.at = "marker" /\ job'.todo = {} /\ ~Fsync /\ job.todo \ {o} = {}
  <2>. HIDE DEF T, w
  <2>1. CASE job.todo \ {o} # {}
    <3>. DEFINE todo == job.todo \ {o}
    <3>1. job' = [job EXCEPT !.at = "append", !.todo = todo] /\ todo \in SUBSET Objects
      BY <1>1, <1>3, <2>1 DEF Then
    <3>2. "append" \in Phases
      BY DEF Phases
    <3>. HIDE DEF todo
    <3>3. /\ job' \in Jobs /\ job'.writes = job.writes /\ job'.plan = job.plan
          /\ job'.at = "append" /\ job'.todo = todo
      BY <1>3, <3>1, <3>2, JobMoves
    <3>. QED
      BY <3>3 DEF todo, w
  <2>2. CASE job.todo \ {o} = {} /\ Fsync
    <3>1. job' = [job EXCEPT !.at = "flush", !.todo = T] /\ T \in SUBSET Objects /\ "flush" \in Phases
      BY <1>1, <1>9, <2>2 DEF Then, ToFlush, Phases, w
    <3>2. /\ job' \in Jobs /\ job'.writes = job.writes /\ job'.plan = job.plan
          /\ job'.at = "flush" /\ job'.todo = T
      BY <1>3, <3>1, JobMoves
    <3>. QED
      BY <2>2, <3>2 DEF w
  <2>3. CASE job.todo \ {o} = {} /\ ~Fsync
    <3>1. job' = [job EXCEPT !.at = "marker", !.todo = {}] /\ {} \in SUBSET Objects /\ "marker" \in Phases
      BY <1>1, <2>3 DEF Then, ToFlush, ToMarker, Phases
    <3>2. /\ job' \in Jobs /\ job'.writes = job.writes /\ job'.plan = job.plan
          /\ job'.at = "marker" /\ job'.todo = {}
      BY <1>3, <3>1, JobMoves
    <3>. QED
      BY <2>3, <3>2 DEF w
  <2>. QED
    BY <2>1, <2>2, <2>3
<1>11. WritingOK'
  <2>1. /\ \A p \in DOMAIN job.plan : Ready(next, p, job.plan[p])
        /\ job.todo \subseteq T
        /\ \A p \in Objects : IF p \in job.todo THEN AllNamed(log, N, p, disk[p].lines)
                              ELSE Ready(next, p, disk[p].lines)
    BY <1>1 DEF StorageInv, WritingOK, Writing
  <2>2. Append(log, job.writes)' = next /\ Touched(job.writes, Len(log) + 1)' = T /\ Len(log)' = N
    BY <1>1, <1>10
  <2>. HIDE DEF Ready, AllNamed, LogOK, T, next, N
  <2>3. ASSUME NEW p \in Objects
        PROVE  IF job'.at = "append" /\ p \in job'.todo
               THEN AllNamed(log', N, p, disk'[p].lines)
               ELSE Ready(next, p, disk'[p].lines)
    <3>1. CASE p = o
      BY <1>8, <1>10, <3>1
    <3>2. CASE p # o
      <4>1. disk'[p] = disk[p]
        BY <1>7, <3>2 DEF Files
      <4>. QED
        BY <1>1, <1>10, <2>1, <3>2, <4>1
    <3>. QED
      BY <3>1, <3>2
  <2>4. job'.at = "marker" => \A p \in Objects : risk'[p] = {}
    <3>1. ~Fsync => budget'["power"] = 0
      BY <1>1, NoRisk
    <3>. QED
      BY <1>6, <1>10, <3>1 DEF FilesOK, RiskOK, Files
  <2>. QED
    BY <1>2, <1>9, <1>10, <2>1, <2>2, <2>3, <2>4 DEF WritingOK
<1>12. TypeOK' /\ BudgetOK' /\ WholeLines' /\ MemOK' /\ ReclaimingOK' /\ OpeningOK' /\ job'.at # "corrupt"
  <2>. HIDE DEF T, next, N, w, c
  <2>0. job'.at \in {"append", "flush", "marker"}
    BY <1>10
  <2>1. TypeOK' /\ BudgetOK'
    BY <1>1, <1>10 DEF StorageInv, TypeOK, Jobs, BudgetOK
  <2>2. WholeLines'
    BY <1>1, <1>5, <1>7 DEF StorageInv, WholeLines
  <2>3. MemOK'
    BY <1>1, <2>0 DEF StorageInv, MemOK, Serving
  <2>4. ReclaimingOK' /\ OpeningOK' /\ job'.at # "corrupt"
    BY <2>0 DEF ReclaimingOK, OpeningOK, Reclaiming
  <2>. QED
    BY <2>1, <2>2, <2>3, <2>4
<1>. QED
  BY <1>1, <1>2, <1>6, <1>11, <1>12 DEF StorageInv

\* A flushed sidecar holds them for good.
LEMMA FlushSidecarSafe ==
    ASSUME StorageInv, NEW o \in Objects, FlushSidecar(o), setting' = setting
    PROVE  StorageInv'
<1>. DEFINE next == Append(log, job.writes)
            T == Touched(job.writes, Len(log) + 1)
            todo == job.todo \ {o}
<1>1. /\ job.at = "flush" /\ o \in job.todo /\ Flushes(o)
      /\ UNCHANGED <<disk, mem, attempts, log, budget>>
      /\ job' = Then(todo, "flush", ToMarker)
  BY DEF FlushSidecar
<1>2. /\ FilesOK' /\ LogOK(log)'
      /\ risk'[o] = {} /\ \A g \in Files \ {o} : risk'[g] = risk[g]
  BY <1>1, Flushed DEF Files
<1>3. /\ todo \in SUBSET Objects /\ {} \in SUBSET Objects /\ "flush" \in Phases /\ "marker" \in Phases
  BY DEF StorageInv, TypeOK, Phases
<1>4. /\ job' \in Jobs /\ job'.writes = job.writes /\ job'.plan = job.plan
      /\ \/ job'.at = "flush" /\ job'.todo = todo
         \/ job'.at = "marker" /\ job'.todo = {} /\ todo = {}
  <2>. HIDE DEF todo
  <2>1. CASE todo # {}
    <3>1. job' = [job EXCEPT !.at = "flush", !.todo = todo]
      BY <1>1, <2>1 DEF Then
    <3>. QED
      BY <1>3, <3>1, JobMoves
  <2>2. CASE todo = {}
    <3>1. job' = [job EXCEPT !.at = "marker", !.todo = {}]
      BY <1>1, <2>2 DEF Then, ToMarker
    <3>. QED
      BY <1>3, <2>2, <3>1, JobMoves
  <2>. QED
    BY <2>1, <2>2
<1>5. WritingOK'
  <2>1. /\ LogOK(next) /\ \A p \in DOMAIN job.plan : Ready(next, p, job.plan[p])
        /\ job.todo \subseteq T
        /\ \A p \in Objects : Ready(next, p, disk[p].lines)
        /\ \A p \in T : p \notin job.todo => risk[p] = {}
    BY <1>1 DEF StorageInv, WritingOK, Writing
  <2>2. Append(log, job.writes)' = next /\ Touched(job.writes, Len(log) + 1)' = T
    BY <1>1, <1>4
  <2>3. T \subseteq Objects
    BY DEF Touched
  <2>. HIDE DEF Ready, LogOK, T, next
  <2>4. \A p \in T : p \notin todo => risk'[p] = {}
    BY <1>2, <2>1, <2>3 DEF Files
  <2>. QED
    BY <1>1, <1>4, <2>1, <2>2, <2>4 DEF WritingOK
<1>6. TypeOK' /\ BudgetOK' /\ WholeLines' /\ MemOK' /\ ReclaimingOK' /\ OpeningOK' /\ job'.at # "corrupt"
  <2>. HIDE DEF T, next, todo
  <2>0. job'.at \in {"flush", "marker"}
    BY <1>4
  <2>1. TypeOK' /\ BudgetOK'
    BY <1>1, <1>4 DEF StorageInv, TypeOK, Jobs, BudgetOK
  <2>2. WholeLines'
    BY <1>1 DEF StorageInv, WholeLines
  <2>3. MemOK'
    BY <1>1, <2>0 DEF StorageInv, MemOK, Serving
  <2>4. ReclaimingOK' /\ OpeningOK' /\ job'.at # "corrupt"
    BY <2>0 DEF ReclaimingOK, OpeningOK, Reclaiming
  <2>. QED
    BY <2>1, <2>2, <2>3, <2>4
<1>. QED
  BY <1>2, <1>5, <1>6 DEF StorageInv

\* What is planned is what is to be reclaimed.
LEMMA ReclaimStarts ==
    ASSUME NEW plan \in Plans, job' = ToReclaim(plan)
    PROVE  /\ job' \in Jobs /\ job'.todo = DOMAIN plan /\ job'.plan = plan
           /\ DOMAIN plan \subseteq Objects
           /\ \/ job'.at = "idle" /\ DOMAIN plan = {}
              \/ job'.at = "authorize"
              \/ job'.at = "reclaim" /\ ~Fsync
<1>1. DOMAIN plan \subseteq Objects
  BY DEF Plans
<1>2. job' = [NoJob EXCEPT !.at = IF DOMAIN plan = {} THEN "idle"
                                  ELSE IF Fsync THEN "authorize" ELSE "reclaim",
                           !.todo = DOMAIN plan, !.plan = plan]
  BY DEF ToReclaim
<1>3. /\ job'.todo = DOMAIN plan /\ job'.plan = plan /\ job' \in Jobs
      /\ job'.at = IF DOMAIN plan = {} THEN "idle" ELSE IF Fsync THEN "authorize" ELSE "reclaim"
  BY <1>1, <1>2, RestIs DEF Jobs, Phases
<1>. QED
  BY <1>1, <1>3

\* The marker names what every version of the sidecars then holds.
LEMMA PutMarkerSafe ==
    ASSUME StorageInv, PutMarker, setting' = setting
    PROVE  StorageInv'
<1>. DEFINE N == Len(log)
            w == job.writes
            line == <<Marker(w, mem.next)>>
            between == CutShort(disk[Main], line)
            c == Holding(disk[Main].lines \o line)
<1>1. /\ job.at = "marker" /\ Shows(Main, c, between) /\ log' = Append(log, w)
      /\ mem' = [next |-> mem.next + 1,
                 obj |-> [o \in Objects |-> Applied(o, mem.obj[o], Events(w, o, mem.next))]]
      /\ job' = ToReclaim(job.plan) /\ UNCHANGED <<attempts, budget>>
  BY DEF PutMarker
<1>2. /\ LogOK(log) /\ LogOK(log') /\ w \in Batch
      /\ N \in Nat /\ Len(log') = N + 1 /\ log'[N + 1] = w
      /\ (\A i \in 1 .. N : log[i] = log'[i])
      /\ mem.next = N + 1
  BY <1>1, NextLog DEF Writing
<1>3. c.lines = disk[Main].lines \o line /\ c.torn = FALSE
  BY DEF Holding
<1>4. /\ c.lines = MarkersOf(log', N + 1)
      /\ \A x \in between : x.lines = MarkersOf(log, N) \/ x.lines = MarkersOf(log', N + 1)
  BY <1>1, <1>3, MarkerCut
<1>5. FilesOK' /\ LogOK(log)'
  <2>. HIDE DEF between, c
  <2>. QED
    BY <1>1, <1>4, Published
<1>6. disk'[Main] = c /\ \A g \in Files \ {Main} : disk'[g] = disk[g]
  <2>1. RiskOK /\ Main \in Files /\ budget["power"] \in Nat
    BY DEF StorageInv, FilesOK, TypeOK, Files, Failures
  <2>. HIDE DEF between, c, Shows
  <2>. QED
    BY <1>1, <2>1, Shown
<1>7. /\ job' \in Jobs /\ job'.todo = DOMAIN job.plan /\ job'.plan = job.plan
      /\ DOMAIN job.plan \subseteq Objects
      /\ \/ job'.at = "idle"
         \/ job'.at = "authorize"
         \/ job'.at = "reclaim" /\ ~Fsync
  <2>1. job.plan \in Plans
    BY DEF StorageInv, TypeOK
  <2>. QED
    BY <1>1, <2>1, ReclaimStarts
<1>8. ASSUME NEW o \in Objects
      PROVE  /\ Applied(o, mem.obj[o], Events(w, o, mem.next)) = Value(log', N + 1, o)
             /\ o \notin Tasks /\ Value(log', N + 1, o).st = "live" => Value(log', N + 1, o).revs # {}
  <2>1. mem.obj[o] = Value(log, N, o)
    BY <1>1 DEF StorageInv, MemOK, Serving
  <2>2. o \notin Tasks /\ mem.obj[o].st = "live" => mem.obj[o].revs # {}
    BY <1>1 DEF StorageInv, MemOK, Serving
  <2>. HIDE DEF N, w
  <2>3. Value(log, N, o) = Value(log', N, o)
    BY <1>2, SameValue
  <2>4. Value(log', N + 1, o) = Applied(o, Value(log', N, o), Events(log'[N + 1], o, N + 1))
    BY <1>2, ValueStep
  <2>5. Value(log', N + 1, o) = Applied(o, mem.obj[o], Events(w, o, mem.next))
    BY <1>2, <2>1, <2>3, <2>4
  <2>. HIDE DEF Value
  <2>6. o \notin Tasks /\ Value(log', N + 1, o).st = "live" => Value(log', N + 1, o).revs # {}
    BY <2>2, <2>5, AppliedAlive
  <2>. QED
    BY <2>5, <2>6
<1>. HIDE DEF w, line, between, c
<1>9. MemOK'
  <2>1. mem'.obj = [o \in Objects |-> Value(log', N + 1, o)]
    BY <1>1, <1>8
  <2>2. mem' = [next |-> Len(log') + 1, obj |-> [o \in Objects |-> Value(log', Len(log'), o)]]
    BY <1>1, <1>2, <2>1
  <2>3. \A o \in Objects \ Tasks : mem'.obj[o].st = "live" => mem'.obj[o].revs # {}
    <3>. HIDE DEF Value
    <3>. QED
      BY <1>8, <2>1
  <2>4. job'.at \in {"idle", "authorize", "reclaim"}
    BY <1>7
  <2>. HIDE DEF Value, N
  <2>. QED
    BY <2>2, <2>3, <2>4 DEF MemOK, Serving
<1>10. ReclaimingOK'
  <2>1. /\ \A o \in DOMAIN job.plan : Ready(log', o, job.plan[o])
        /\ \A o \in Objects : Ready(log', o, disk[o].lines)
    BY <1>1 DEF StorageInv, WritingOK, Writing, w
  <2>2. \A o \in Objects : disk'[o] = disk[o]
    BY <1>6, JsonlAssumption DEF Files
  <2>3. ~Fsync => risk'[Main] = {}
    <3>1. ~Fsync => budget'["power"] = 0
      BY <1>1, NoRisk
    <3>. QED
      BY <1>5, <3>1 DEF FilesOK, RiskOK, Files
  <2>4. \A o \in Objects : AllNamed(log', Len(log'), o, disk'[o].lines)
    BY <2>1, <2>2 DEF Ready
  <2>. HIDE DEF Ready, AllNamed
  <2>. QED
    BY <1>7, <2>1, <2>3, <2>4 DEF ReclaimingOK, Reclaiming
<1>11. TypeOK' /\ BudgetOK' /\ WholeLines' /\ WritingOK' /\ OpeningOK' /\ job'.at # "corrupt"
  <2>0. job'.at \in {"idle", "authorize", "reclaim"}
    BY <1>7
  <2>1. TypeOK' /\ BudgetOK'
    BY <1>1, <1>7 DEF StorageInv, TypeOK, Jobs, BudgetOK
  <2>2. WholeLines'
    BY <1>1, <1>3, <1>6 DEF StorageInv, WholeLines
  <2>3. WritingOK' /\ OpeningOK' /\ job'.at # "corrupt"
    BY <2>0 DEF WritingOK, OpeningOK, Writing
  <2>. QED
    BY <2>1, <2>2, <2>3
<1>. QED
  BY <1>5, <1>9, <1>10, <1>11 DEF StorageInv

\* Once the marker is flushed, no version of the main file is without it.
LEMMA AuthorizeSafe ==
    ASSUME StorageInv, Authorize, setting' = setting
    PROVE  StorageInv'
<1>1. /\ job.at = "authorize" /\ Flushes(Main) /\ job' = [job EXCEPT !.at = "reclaim"]
      /\ UNCHANGED <<disk, mem, attempts, log, budget>>
  BY DEF Authorize
<1>2. FilesOK' /\ LogOK(log)' /\ risk'[Main] = {}
  BY <1>1, Flushed DEF Files
<1>3. job' \in Jobs /\ job'.at = "reclaim" /\ job'.todo = job.todo /\ job'.plan = job.plan
  BY <1>1 DEF StorageInv, TypeOK, Jobs, Phases
<1>4. ReclaimingOK'
  <2>1. /\ job.todo \subseteq DOMAIN job.plan
        /\ \A o \in job.todo : Ready(log, o, job.plan[o])
        /\ \A o \in Objects : AllNamed(log, Len(log), o, disk[o].lines)
    BY <1>1 DEF StorageInv, ReclaimingOK, Reclaiming
  <2>. HIDE DEF Ready, AllNamed
  <2>. QED
    BY <1>1, <1>2, <1>3, <2>1 DEF ReclaimingOK, Reclaiming
<1>5. TypeOK' /\ BudgetOK' /\ WholeLines' /\ MemOK' /\ WritingOK' /\ OpeningOK' /\ job'.at # "corrupt"
  <2>1. TypeOK' /\ BudgetOK'
    BY <1>1, <1>3 DEF StorageInv, TypeOK, Jobs, BudgetOK
  <2>2. WholeLines'
    BY <1>1 DEF StorageInv, WholeLines
  <2>3. MemOK'
    BY <1>1, <1>3 DEF StorageInv, MemOK, Serving
  <2>4. WritingOK' /\ OpeningOK' /\ job'.at # "corrupt"
    BY <1>3 DEF WritingOK, OpeningOK, Writing
  <2>. QED
    BY <2>1, <2>2, <2>3, <2>4
<1>. QED
  BY <1>2, <1>4, <1>5 DEF StorageInv

\* After a reclamation the next one, or none.
LEMMA ReclaimGoesOn ==
    ASSUME StorageInv, job.at = "reclaim", NEW o \in job.todo, Reclaimed(o)
    PROVE  /\ job' \in Jobs
           /\ \/ job'.at = "reclaim" /\ job'.todo = job.todo \ {o} /\ job'.plan = job.plan
              \/ job'.at = "idle" /\ job.todo \ {o} = {}
<1>. DEFINE todo == job.todo \ {o}
<1>1. todo \in SUBSET Objects /\ "reclaim" \in Phases /\ job' = Then(todo, "reclaim", NoJob)
  BY DEF StorageInv, TypeOK, Phases, Reclaimed
<1>. HIDE DEF todo
<1>2. CASE todo # {}
  <2>1. job' = [job EXCEPT !.at = "reclaim", !.todo = todo]
    BY <1>1, <1>2 DEF Then
  <2>2. /\ job' \in Jobs /\ job'.at = "reclaim" /\ job'.todo = todo /\ job'.plan = job.plan
    BY <1>1, <2>1, JobMoves
  <2>. QED
    BY <2>2 DEF todo
<1>3. CASE todo = {}
  <2>1. job' = NoJob
    BY <1>1, <1>3 DEF Then
  <2>2. job.todo \ {o} = {}
    BY <1>3 DEF todo
  <2>. QED
    BY <2>1, <2>2, RestIs
<1>. QED
  BY <1>2, <1>3

\* What is kept when the files of a reclamation are in order.
LEMMA Reclaims ==
    ASSUME StorageInv, job.at \in {"authorize", "reclaim"}, FilesOK',
           mem' = mem, attempts' = attempts, log' = log, setting' = setting, BudgetOK',
           budget' \in [Failures -> Nat],
           job' \in Jobs,
           \/ job'.at = "reclaim" /\ job.at = "reclaim" /\ job'.todo \subseteq job.todo
              /\ job'.plan = job.plan /\ risk'[Main] = risk[Main]
           \/ job'.at = "idle",
           \A f \in Files : ~disk'[f].torn,
           \A o \in Objects : AllNamed(log, Len(log), o, disk'[o].lines)
    PROVE  StorageInv'
<1>1. ReclaimingOK'
  <2>1. /\ job.todo \subseteq DOMAIN job.plan
        /\ \A o \in job.todo : Ready(log, o, job.plan[o])
        /\ job.at = "reclaim" => risk[Main] = {}
    BY DEF StorageInv, ReclaimingOK, Reclaiming
  <2>. HIDE DEF Ready, AllNamed
  <2>. QED
    BY <2>1 DEF ReclaimingOK, Reclaiming
<1>2. TypeOK' /\ BudgetOK'
  BY DEF StorageInv, TypeOK, Jobs, BudgetOK
<1>3. WholeLines'
  BY DEF StorageInv, WholeLines
<1>4. MemOK'
  BY DEF StorageInv, MemOK, Serving
<1>5. WritingOK' /\ OpeningOK' /\ job'.at # "corrupt"
  BY DEF WritingOK, OpeningOK, Writing
<1>. QED
  BY <1>1, <1>2, <1>3, <1>4, <1>5 DEF StorageInv

\* A failed reclamation leaves a sidecar with more than is needed.
LEMMA ReclaimFailsSafe ==
    ASSUME StorageInv, ReclaimFails, setting' = setting
    PROVE  StorageInv'
<1>1. Spend("io") /\ UNCHANGED <<disk, risk, mem, attempts, log>>
  BY DEF ReclaimFails
<1>2. /\ BudgetOK' /\ budget' \in [Failures -> Nat] /\ budget'["power"] = budget["power"]
  BY <1>1, Spent DEF Failures
<1>3. FilesOK'
  BY <1>1, <1>2, FilesKept
<1>4. /\ job.at \in {"authorize", "reclaim"} /\ job' \in Jobs
      /\ \/ job'.at = "reclaim" /\ job.at = "reclaim" /\ job'.todo \subseteq job.todo /\ job'.plan = job.plan
         \/ job'.at = "idle"
  <2>1. CASE job.at = "authorize" /\ job' = NoJob
    BY <2>1, RestIs
  <2>2. ASSUME job.at = "reclaim", NEW o \in job.todo, Reclaimed(o)
        PROVE  /\ job' \in Jobs
               /\ \/ job'.at = "reclaim" /\ job'.todo \subseteq job.todo /\ job'.plan = job.plan
                  \/ job'.at = "idle"
    BY <2>2, ReclaimGoesOn
  <2>. QED
    BY <2>1, <2>2 DEF ReclaimFails
<1>5. (\A f \in Files : ~disk'[f].torn) /\ \A o \in Objects : AllNamed(log, Len(log), o, disk'[o].lines)
  BY <1>1, <1>4 DEF StorageInv, WholeLines, ReclaimingOK, Reclaiming
<1>. HIDE DEF AllNamed
<1>. QED
  BY <1>1, <1>2, <1>3, <1>4, <1>5, Reclaims

\* The replacement lacks only what every version of the main file proves unnecessary.
LEMMA ReplaceSidecarSafe ==
    ASSUME StorageInv, NEW o \in Objects, ReplaceSidecar(o), setting' = setting
    PROVE  StorageInv'
<1>. DEFINE c == Holding(job.plan[o])
            between == IF job.plan[o] = <<>> THEN {} ELSE LeftByRename(job.plan[o])
<1>1. /\ job.at = "reclaim" /\ o \in job.todo /\ Shows(o, c, between) /\ Reclaimed(o)
      /\ UNCHANGED <<mem, attempts, log, budget>>
  BY DEF ReplaceSidecar
<1>2. c.lines = job.plan[o] /\ c.torn = FALSE
  BY DEF Holding
<1>3. /\ budget["power"] \in Nat /\ FilesOK /\ RiskOK /\ LogOK(log) /\ MainOK /\ o \in Files /\ Main # o
      /\ Main \in Files
  BY JsonlAssumption DEF StorageInv, TypeOK, FilesOK, Failures, Files
<1>4. Ready(log, o, job.plan[o]) /\ risk[Main] = {}
  BY <1>1 DEF StorageInv, ReclaimingOK, Reclaiming
<1>5. \A n \in Lengths : n = Len(log)
  <2>1. disk[Main].lines = MarkersOf(log, Len(log)) /\ Len(log) \in Nat
    BY <1>3, LengthsAre DEF MainOK
  <2>2. Len(disk[Main].lines) = Len(log)
    BY <2>1, MarkersLen
  <2>. QED
    BY <1>4, <2>2 DEF Lengths, Versions
<1>6. \A n \in Lengths : Sound(log, n, o, c.lines)
  BY <1>2, <1>4, <1>5 DEF Ready
<1>7. budget["power"] > 0 => between = {}
  <2>1. budget["power"] > 0 => Fsync
    BY NoRisk
  <2>. QED
    BY <2>1 DEF LeftByRename
<1>. HIDE DEF c, between
<1>8. FilesOK'
  <2>. HIDE DEF Sound, Lengths
  <2>. QED
    BY <1>1, <1>3, <1>6, <1>7, SidecarShown
<1>9. /\ disk'[o] = c /\ \A g \in Files \ {o} : disk'[g] = disk[g] /\ risk'[g] = risk[g]
  <2>. HIDE DEF Shows
  <2>. QED
    BY <1>1, <1>3, Shown
<1>10. (\A f \in Files : ~disk'[f].torn) /\ \A p \in Objects : AllNamed(log, Len(log), p, disk'[p].lines)
  <2>1. (\A f \in Files : ~disk[f].torn) /\ \A p \in Objects : AllNamed(log, Len(log), p, disk[p].lines)
    BY <1>1 DEF StorageInv, WholeLines, ReclaimingOK, Reclaiming
  <2>2. AllNamed(log, Len(log), o, c.lines)
    BY <1>2, <1>4 DEF Ready
  <2>. HIDE DEF AllNamed
  <2>3. \A p \in Objects : AllNamed(log, Len(log), p, disk'[p].lines)
    BY <1>9, <2>1, <2>2 DEF Files
  <2>. QED
    BY <1>2, <1>9, <2>1, <2>3
<1>11. /\ job' \in Jobs
       /\ \/ job'.at = "reclaim" /\ job'.todo \subseteq job.todo /\ job'.plan = job.plan
          \/ job'.at = "idle"
  BY <1>1, ReclaimGoesOn
<1>12. BudgetOK' /\ budget' \in [Failures -> Nat] /\ risk'[Main] = risk[Main]
  BY <1>1, <1>3, <1>9 DEF StorageInv, TypeOK, BudgetOK
<1>. HIDE DEF AllNamed
<1>. QED
  BY <1>1, <1>8, <1>10, <1>11, <1>12, Reclaims

------------------------------------------------------------------------------
(* Opening *)

\* What opening finds in the sidecars.
LEMMA Found ==
    ASSUME StorageInv
    PROVE  /\ LogOK(log) /\ MainOK /\ FilesOK /\ RiskOK /\ budget["power"] \in Nat
           /\ \A o \in Objects : o \in Files /\ \A n \in Lengths : Sound(log, n, o, Lines(o))
           /\ \A o \in Objects : Sound(log, Len(log), o, Lines(o))
           /\ Len(log) \in Nat /\ Len(Markers) = Len(log)
<1>1. /\ LogOK(log) /\ MainOK /\ FilesOK /\ RiskOK /\ budget["power"] \in Nat
  BY DEF StorageInv, FilesOK, TypeOK, Failures
<1>2. \A o \in Objects : o \in Files /\ \A n \in Lengths : Sound(log, n, o, Lines(o))
  BY <1>1 DEF FilesOK, SidecarsOK, Versions, Lines, Files
<1>3. Len(log) \in Lengths /\ Len(log) \in Nat
  BY <1>1, LengthsAre
<1>4. Len(Markers) = Len(log)
  BY <1>1, MarkerIs
<1>. HIDE DEF Sound
<1>. QED
  BY <1>1, <1>2, <1>3, <1>4

\* Phases of opening in which nothing but the files counts.
LEMMA OpenBeginSafe ==
    ASSUME StorageInv, OpenBegin, setting' = setting
    PROVE  StorageInv'
<1>1. /\ job.at = "down" /\ job' = [NoJob EXCEPT !.at = "opening"]
      /\ UNCHANGED <<disk, risk, mem, attempts, log, budget>>
  BY DEF OpenBegin
<1>2. job' \in Jobs /\ job'.at = "opening" /\ job'.pos = 0
  BY <1>1, RestIs DEF Jobs, Phases
<1>3. FilesOK' /\ LogOK(log)'
  BY <1>1, FilesKept
<1>4. TypeOK' /\ BudgetOK'
  BY <1>1, <1>2 DEF StorageInv, TypeOK, Jobs, BudgetOK
<1>5. WholeLines' /\ MemOK' /\ WritingOK' /\ ReclaimingOK' /\ OpeningOK' /\ job'.at # "corrupt"
  BY <1>2 DEF WholeLines, MemOK, WritingOK, ReclaimingOK, OpeningOK, Serving, Writing, Reclaiming
<1>. QED
  BY <1>3, <1>4, <1>5 DEF StorageInv

\* A torn last line is no line.
LEMMA TrimTornSafe ==
    ASSUME StorageInv, NEW f \in Files, TrimTorn(f), setting' = setting
    PROVE  StorageInv'
<1>. DEFINE c == Holding(disk[f].lines)
<1>1. /\ job.at = "opening" /\ Shows(f, c, {}) /\ UNCHANGED <<mem, job, attempts, log, budget>>
  BY DEF TrimTorn
<1>2. c.lines = disk[f].lines
  BY DEF Holding
<1>3. FilesOK'
  <2>1. CASE f = Main
    <3>1. \A x \in {c} \cup {} : x.lines = MarkersOf(log, Len(log))
      BY <1>2, <2>1, Found DEF MainOK
    <3>2. Shows(Main, c, {}) /\ budget'["power"] = budget["power"] /\ log' = log
      BY <1>1, <2>1
    <3>. HIDE DEF c, Shows
    <3>. QED
      BY <3>1, <3>2, Found, MainShown
  <2>2. CASE f \in Objects
    <3>1. \A n \in Lengths : Sound(log, n, f, c.lines)
      BY <1>2, <2>2, Found DEF Lines
    <3>2. /\ Shows(f, c, {}) /\ budget'["power"] = budget["power"] /\ log' = log
          /\ \A x \in {} : \A n \in Lengths : Sound(log, n, f, x.lines)
      BY <1>1
    <3>. HIDE DEF c, Shows, Sound, Lengths
    <3>. QED
      BY <2>2, <3>1, <3>2, Found, SidecarShown
  <2>. QED
    BY <2>1, <2>2 DEF Files
<1>4. TypeOK' /\ BudgetOK' /\ LogOK(log)'
  BY <1>1 DEF StorageInv, TypeOK, BudgetOK
<1>5. WholeLines' /\ MemOK' /\ WritingOK' /\ ReclaimingOK' /\ job'.at # "corrupt"
  BY <1>1 DEF WholeLines, MemOK, WritingOK, ReclaimingOK, Serving, Writing, Reclaiming
<1>6. OpeningOK'
  BY <1>1 DEF OpeningOK, StorageInv
<1>. QED
  BY <1>3, <1>4, <1>5, <1>6 DEF StorageInv

\* Before the first marker there is nothing.
LEMMA NothingYet ==
    ASSUME NEW L, NEW o
    PROVE  Value(L, 0, o) = NoObject
<1>1. \A i \in 1 .. 0 : FALSE
  OBVIOUS
<1>2. StateOf(L, 0, o) = "none"
  BY <1>1 DEF StateOf
<1>3. RevsOf(L, 0, o) = {}
  <2>1. \A r : r \notin RevsOf(L, 0, o)
    BY <1>1, RevsMembers
  <2>. QED
    BY <2>1
<1>. QED
  BY <1>2, <1>3 DEF Value, NoObject

\* The files are in order, so decoding goes on to the replay.
LEMMA DecodeSafe ==
    ASSUME StorageInv, Decode, setting' = setting
    PROVE  StorageInv'
<1>1. Readable
  BY Found, FilesReadable
<1>2. /\ job.at = "opening" /\ \A f \in Files : ~disk[f].torn
      /\ mem' = [next |-> 1, obj |-> Fresh] /\ job' = [job EXCEPT !.at = "replay"]
      /\ UNCHANGED <<disk, risk, attempts, log, budget>>
  BY <1>1 DEF Decode
<1>3. job' \in Jobs /\ job'.at = "replay" /\ job'.pos = 0
  BY <1>2 DEF StorageInv, TypeOK, Jobs, Phases, OpeningOK
<1>4. FilesOK' /\ LogOK(log)'
  BY <1>2, FilesKept
<1>5. MemOK'
  <2>1. \A o \in Objects : mem'.obj[o] = NoObject
    BY <1>2 DEF Fresh
  <2>2. mem' = [next |-> job'.pos + 1, obj |-> [o \in Objects |-> mem'.obj[o]]]
    BY <1>2, <1>3 DEF Fresh
  <2>3. ASSUME NEW o \in Objects PROVE Replayed(o, job.pos)'
    <3>1. Value(log', 0, o) = NoObject /\ StateOf(log', 0, o) = "none"
      BY NothingYet DEF Value, NoObject
    <3>2. mem'.obj[o] = NoObject /\ mem'.obj[o].st = "none"
      BY <2>1 DEF NoObject
    <3>. HIDE DEF Value, StateOf
    <3>. QED
      BY <1>3, <3>1, <3>2 DEF Replayed
  <2>4. \A o \in Objects \ Tasks : mem'.obj[o].st # "live"
    BY <2>1 DEF NoObject
  <2>5. job'.pos <= Len(log')
    BY <1>2, <1>3, Found
  <2>6. ~Serving' /\ job'.at # "truncate"
    BY <1>3 DEF Serving
  <2>. HIDE DEF Replayed
  <2>. QED
    BY <1>3, <2>2, <2>3, <2>4, <2>5, <2>6 DEF MemOK
<1>6. TypeOK' /\ BudgetOK'
  BY <1>2, <1>3 DEF StorageInv, TypeOK, Jobs, BudgetOK
<1>7. WholeLines' /\ WritingOK' /\ ReclaimingOK' /\ OpeningOK' /\ job'.at # "corrupt"
  BY <1>2, <1>3 DEF WholeLines, WritingOK, ReclaimingOK, OpeningOK, Serving, Writing, Reclaiming
<1>. QED
  BY <1>4, <1>5, <1>6, <1>7 DEF StorageInv

\* The replay of a marker finds what it needs, and gives the value after that batch unless a later
\* marker makes it superfluous.
LEMMA ReplayMarkerSafe ==
    ASSUME StorageInv, ReplayMarker, setting' = setting
    PROVE  StorageInv'
<1>. DEFINE p == job.pos
            m == Markers[p + 1]
<1>1. job.at = "replay" /\ p < Len(Markers) /\ UNCHANGED <<disk, risk, attempts, log, budget>>
  BY DEF ReplayMarker
<1>2. /\ LogOK(log) /\ MainOK /\ Len(log) \in Nat /\ Len(Markers) = Len(log)
      /\ \A o \in Objects : Sound(log, Len(log), o, Lines(o))
  BY Found
<1>3. p \in Nat /\ p < Len(log) /\ p + 1 \in 1 .. Len(log)
  BY <1>1, <1>2 DEF StorageInv, TypeOK
<1>4. Confirmed(m) /\ m.seq = p + 1
  <2>. HIDE DEF Confirmed, Sound
  <2>. QED
    BY <1>2, <1>3, ReplayConfirmed
<1>5. /\ mem.next = p + 1
      /\ \A o \in Objects : Replayed(o, p)
      /\ \A o \in Objects \ Tasks : mem.obj[o].st = "live" => mem.obj[o].revs # {}
  <2>1. mem = [next |-> job.pos + 1, obj |-> [o \in Objects |-> mem.obj[o]]]
    BY <1>1 DEF StorageInv, MemOK
  <2>2. mem.next = p + 1
    BY <2>1
  <2>. HIDE DEF Replayed
  <2>. QED
    BY <1>1, <2>2 DEF StorageInv, MemOK
<1>. HIDE DEF p, m
<1>6. ASSUME NEW o \in Objects
      PROVE  IF Awaits(o, p) THEN o \in Latest => mem.obj[o].st = StateOf(log, p, o)
             ELSE mem.obj[o] = Value(log, p, o)
  BY <1>5 DEF Replayed
<1>7. ASSUME NEW o \in Objects PROVE mem.obj[o].st = StateOf(log, p, o) \/ o \in Tasks
  <2>1. Awaits(o, p) => o \in Tasks \cup Latest
    BY DEF Awaits
  <2>2. Value(log, p, o).st = StateOf(log, p, o)
    BY DEF Value
  <2>. HIDE DEF Awaits, Value, StateOf
  <2>. QED
    BY <1>6, <2>1, <2>2
<1>. HIDE DEF Value, StateOf, Awaits, Sound, LogOK, MainOK
<1>8. ASSUME NEW o \in Objects PROVE Fits(o, mem.obj[o], EventsOf(o, m))
  <2>. HIDE DEF Fits, EventsOf
  <2>. QED
    BY <1>2, <1>3, <1>5, <1>7, ReplayFits DEF m
<1>9. /\ mem' = [next |-> m.seq + 1,
                 obj |-> [o \in Objects |-> Applied(o, mem.obj[o], EventsOf(o, m))]]
      /\ job' = [job EXCEPT !.pos = @ + 1]
  <2>1. Confirmed(m) /\ mem.next <= m.seq /\ \A o \in Objects : Fits(o, mem.obj[o], EventsOf(o, m))
    BY <1>3, <1>4, <1>5, <1>8
  <2>. HIDE DEF Confirmed, Fits, EventsOf, Applied
  <2>. QED
    BY <2>1 DEF ReplayMarker, m, p
<1>10. job' \in Jobs /\ job'.at = "replay" /\ job'.pos = p + 1
  BY <1>1, <1>3, <1>9 DEF StorageInv, TypeOK, Jobs, p
<1>11. ASSUME NEW o \in Objects
       PROVE  IF Awaits(o, p + 1) THEN o \in Latest => mem'.obj[o].st = StateOf(log, p + 1, o)
              ELSE mem'.obj[o] = Value(log, p + 1, o)
  <2>1. mem'.obj[o] = Applied(o, mem.obj[o], EventsOf(o, m))
    BY <1>9
  <2>2. IF Awaits(o, p + 1)
        THEN o \in Latest => Applied(o, mem.obj[o], EventsOf(o, Markers[p + 1])).st = StateOf(log, p + 1, o)
        ELSE Applied(o, mem.obj[o], EventsOf(o, Markers[p + 1])) = Value(log, p + 1, o)
    BY <1>2, <1>3, <1>6, ReplayStep
  <2>. HIDE DEF Applied, EventsOf
  <2>. QED
    BY <2>1, <2>2 DEF m
<1>12. MemOK'
  <2>1. mem' = [next |-> job'.pos + 1, obj |-> [o \in Objects |-> mem'.obj[o]]]
    <3>1. m.seq + 1 = job'.pos + 1
      BY <1>4, <1>10
    <3>. QED
      BY <1>9, <3>1
  <2>2. ASSUME NEW o \in Objects PROVE Replayed(o, job.pos)'
    <3>1. Awaits(o, job.pos)' <=> Awaits(o, p + 1)
      BY <1>1, <1>10 DEF Awaits, ConfirmedBases, Named, Markers, Lines
    <3>2. Replayed(o, job.pos)' <=>
             IF Awaits(o, job.pos)' THEN o \in Latest => mem'.obj[o].st = StateOf(log, p + 1, o)
             ELSE mem'.obj[o] = Value(log, p + 1, o)
      BY <1>1, <1>10 DEF Replayed
    <3>. QED
      BY <1>11, <3>1, <3>2
  <2>3. ASSUME NEW o \in Objects \ Tasks, mem'.obj[o].st = "live" PROVE mem'.obj[o].revs # {}
    <3>1. mem'.obj[o] = Applied(o, mem.obj[o], EventsOf(o, m))
      BY <1>9
    <3>. HIDE DEF Applied, EventsOf
    <3>. QED
      BY <1>5, <2>3, <3>1, AppliedAlive
  <2>4. job'.pos <= Len(log')
    BY <1>1, <1>3, <1>10
  <2>5. ~Serving' /\ job'.at # "truncate"
    BY <1>10 DEF Serving
  <2>. HIDE DEF Replayed
  <2>. QED
    BY <1>10, <2>1, <2>2, <2>3, <2>4, <2>5 DEF MemOK
<1>13. FilesOK' /\ LogOK(log)'
  BY <1>1, FilesKept
<1>14. TypeOK' /\ BudgetOK'
  BY <1>1, <1>10 DEF StorageInv, TypeOK, Jobs, BudgetOK
<1>15. WholeLines' /\ WritingOK' /\ ReclaimingOK' /\ OpeningOK' /\ job'.at # "corrupt"
  BY <1>1, <1>10 DEF StorageInv, WholeLines, WritingOK, ReclaimingOK, OpeningOK, Writing, Reclaiming
<1>. QED
  BY <1>12, <1>13, <1>14, <1>15 DEF StorageInv

\* Sidecars without a record that no marker names.
LEMMA UnnamedIs ==
    ASSUME LogOK(log), MainOK, NEW o \in Objects
    PROVE  Unnamed(o) = {} <=> AllNamed(log, Len(log), o, Lines(o))
<1>1. Unnamed(o) = {j \in DOMAIN Lines(o) : ~NamedBy(log, Len(log), o, Lines(o)[j])}
  BY OptionalIs
<1>. HIDE DEF NamedBy, Unnamed
<1>. QED
  BY <1>1 DEF AllNamed

\* After the last marker everything is as the log says.
LEMMA NothingAwaited ==
    ASSUME LogOK(log), MainOK, Len(log) \in Nat, NEW o \in Objects
    PROVE  ~Awaits(o, Len(log))
<1>1. \A i \in Len(log) + 1 .. Len(log) : FALSE
  OBVIOUS
<1>2. ASSUME NEW j \in ConfirmedBases(o) PROVE ~(Lines(o)[j].seq > Len(log))
  <2>1. NamedBy(log, Len(log), o, Lines(o)[j])
    BY OptionalIs
  <2>. QED
    BY <2>1 DEF NamedBy
<1>. QED
  BY <1>1, <1>2 DEF Awaits

\* After the last marker nothing is awaited any more.
LEMMA ReplayEndsSafe ==
    ASSUME StorageInv, ReplayEnds, setting' = setting
    PROVE  StorageInv'
<1>1. /\ job.at = "replay" /\ job.pos = Len(Markers)
      /\ job' = [job EXCEPT !.at = "truncate", !.todo = {o \in Objects : Unnamed(o) # {}}, !.pos = 0]
      /\ UNCHANGED <<disk, risk, mem, attempts, log, budget>>
  BY DEF ReplayEnds
<1>2. LogOK(log) /\ MainOK /\ Len(log) \in Nat /\ Len(Markers) = Len(log)
  BY Found
<1>. DEFINE todo == {o \in Objects : Unnamed(o) # {}}
<1>3. job' \in Jobs /\ job'.at = "truncate" /\ job'.todo = todo
  <2>1. todo \in SUBSET Objects /\ job' = [job EXCEPT !.at = "truncate", !.todo = todo, !.pos = 0]
    BY <1>1
  <2>. HIDE DEF todo
  <2>. QED
    BY <2>1 DEF StorageInv, TypeOK, Jobs, Phases
<1>4. MemOK'
  <2>. HIDE DEF Value, Awaits, LogOK, MainOK
  <2>1. \A o \in Objects : mem.obj[o] = Value(log, Len(log), o)
    <3>1. \A o \in Objects : Replayed(o, Len(log))
      BY <1>1, <1>2 DEF StorageInv, MemOK
    <3>. QED
      BY <1>2, <3>1, NothingAwaited DEF Replayed
  <2>2. mem = [next |-> Len(log) + 1, obj |-> [o \in Objects |-> mem.obj[o]]]
    BY <1>1, <1>2 DEF StorageInv, MemOK
  <2>3. mem = [next |-> Len(log) + 1, obj |-> [o \in Objects |-> Value(log, Len(log), o)]]
    BY <2>1, <2>2
  <2>4. \A o \in Objects \ Tasks : mem.obj[o].st = "live" => mem.obj[o].revs # {}
    BY <1>1 DEF StorageInv, MemOK
  <2>. QED
    BY <1>1, <1>3, <2>3, <2>4 DEF MemOK
<1>5. OpeningOK'
  <2>1. \A o \in Objects : o \notin todo <=> AllNamed(log, Len(log), o, disk[o].lines)
    BY <1>2, UnnamedIs DEF Lines
  <2>. HIDE DEF todo, AllNamed
  <2>. QED
    BY <1>1, <1>3, <2>1 DEF OpeningOK
<1>6. FilesOK' /\ LogOK(log)'
  BY <1>1, FilesKept
<1>7. TypeOK' /\ BudgetOK'
  BY <1>1, <1>3 DEF StorageInv, TypeOK, Jobs, BudgetOK
<1>8. WholeLines' /\ WritingOK' /\ ReclaimingOK' /\ job'.at # "corrupt"
  BY <1>1, <1>3 DEF StorageInv, WholeLines, WritingOK, ReclaimingOK, Writing, Reclaiming
<1>. QED
  BY <1>4, <1>5, <1>6, <1>7, <1>8 DEF StorageInv

\* The records that no marker names are the tail of the sidecar.
LEMMA TruncateTailSafe ==
    ASSUME StorageInv, NEW o \in Objects, TruncateTail(o), setting' = setting
    PROVE  StorageInv'
<1>. DEFINE first == CHOOSE j \in Unnamed(o) : \A i \in Unnamed(o) : j <= i
            rest == SubSeq(Lines(o), 1, first - 1)
            c == Holding(rest)
<1>1. job.at = "truncate" /\ o \in job.todo /\ UNCHANGED <<mem, attempts, log, budget>>
  BY DEF TruncateTail
<1>2. /\ LogOK(log) /\ MainOK /\ FilesOK /\ RiskOK /\ budget["power"] \in Nat /\ o \in Files
      /\ \A n \in Lengths : Sound(log, n, o, Lines(o))
  BY Found
<1>3. Unnamed(o) # {}
  <2>1. ~AllNamed(log, Len(log), o, Lines(o))
    BY <1>1 DEF StorageInv, OpeningOK, Lines
  <2>. HIDE DEF Unnamed, AllNamed
  <2>. QED
    BY <1>2, <2>1, UnnamedIs
<1>4. /\ Unnamed(o) = first .. Len(Lines(o))
      /\ \A n \in Lengths : Sound(log, n, o, rest)
      /\ AllNamed(log, Len(log), o, rest)
  <2>. HIDE DEF Unnamed, AllNamed, Sound, LogOK, MainOK, Lengths
  <2>. QED
    BY <1>2, <1>3, TailUnnamed
<1>5. Shows(o, c, {}) /\ job' = [job EXCEPT !.todo = @ \ {o}]
  <2>. HIDE DEF Shows, Unnamed
  <2>. QED
    BY <1>4 DEF TruncateTail
<1>6. c.lines = rest /\ c.torn = FALSE
  BY DEF Holding
<1>. HIDE DEF c, rest, first
<1>7. FilesOK'
  <2>1. \A x \in {} : \A n \in Lengths : Sound(log, n, o, x.lines)
    OBVIOUS
  <2>2. \A n \in Lengths : Sound(log, n, o, c.lines)
    BY <1>4, <1>6
  <2>. HIDE DEF Sound, Lengths, Shows
  <2>. QED
    BY <1>1, <1>2, <1>5, <2>1, <2>2, SidecarShown
<1>8. disk'[o] = c /\ \A g \in Files \ {o} : disk'[g] = disk[g]
  <2>. HIDE DEF Shows
  <2>. QED
    BY <1>1, <1>2, <1>5, Shown
<1>9. job' \in Jobs /\ job'.at = "truncate" /\ job'.todo = job.todo \ {o}
  BY <1>1, <1>5 DEF StorageInv, TypeOK, Jobs
<1>10. OpeningOK'
  <2>1. \A p \in Objects : p \notin job.todo <=> AllNamed(log, Len(log), p, disk[p].lines)
    BY <1>1 DEF StorageInv, OpeningOK
  <2>2. AllNamed(log, Len(log), o, disk'[o].lines)
    BY <1>4, <1>6, <1>8
  <2>. HIDE DEF AllNamed
  <2>3. ASSUME NEW p \in Objects
        PROVE  p \notin job'.todo <=> AllNamed(log, Len(log), p, disk'[p].lines)
    <3>1. CASE p = o
      BY <1>9, <2>2, <3>1
    <3>2. CASE p # o
      BY <1>8, <1>9, <2>1, <3>2 DEF Files
    <3>. QED
      BY <3>1, <3>2
  <2>. QED
    BY <1>1, <1>9, <2>3 DEF OpeningOK
<1>11. MemOK'
  BY <1>1, <1>9 DEF StorageInv, MemOK, Serving
<1>12. TypeOK' /\ BudgetOK' /\ LogOK(log)'
  BY <1>1, <1>9 DEF StorageInv, TypeOK, Jobs, BudgetOK
<1>13. WholeLines' /\ WritingOK' /\ ReclaimingOK' /\ job'.at # "corrupt"
  BY <1>1, <1>6, <1>8, <1>9 DEF StorageInv, WholeLines, WritingOK, ReclaimingOK, Writing, Reclaiming
<1>. QED
  BY <1>7, <1>10, <1>11, <1>12, <1>13 DEF StorageInv

\* What opening plans to keep is sound.
LEMMA OpenEndsSafe ==
    ASSUME StorageInv, OpenEnds, setting' = setting
    PROVE  StorageInv'
<1>. DEFINE lean == {o \in Objects : Len(Needed(o)) < Len(Lines(o))}
            plan == [o \in lean |-> Needed(o)]
<1>1. /\ job.at = "truncate" /\ job.todo = {} /\ job' = ToReclaim(plan)
      /\ UNCHANGED <<disk, risk, mem, attempts, log, budget>>
  BY DEF OpenEnds
<1>2. /\ LogOK(log) /\ MainOK /\ \A o \in Objects : Sound(log, Len(log), o, Lines(o))
  BY Found
<1>3. \A o \in Objects : AllNamed(log, Len(log), o, Lines(o))
  BY <1>1 DEF StorageInv, OpeningOK, Lines
<1>4. \A o \in Objects : Ready(log, o, Needed(o)) /\ Needed(o) \in Seq(Rec)
  <2>. HIDE DEF AllNamed, Sound, LogOK, MainOK, Ready, Needed
  <2>. QED
    BY <1>2, <1>3, NeededReady
<1>5. plan \in Plans
  <2>1. lean \in SUBSET Objects
    OBVIOUS
  <2>. HIDE DEF lean, Needed
  <2>2. plan \in [lean -> Seq(Rec)]
    BY <1>4, <2>1
  <2>. HIDE DEF plan
  <2>. QED
    BY <2>1, <2>2, Zenon DEF Plans
<1>6. \A o \in DOMAIN plan : plan[o] = Needed(o)
  OBVIOUS
<1>. HIDE DEF plan
<1>7. /\ job' \in Jobs /\ job'.todo = DOMAIN plan /\ job'.plan = plan /\ DOMAIN plan \subseteq Objects
      /\ \/ job'.at = "idle"
         \/ job'.at = "authorize"
         \/ job'.at = "reclaim" /\ ~Fsync
  BY <1>1, <1>5, ReclaimStarts
<1>8. FilesOK' /\ LogOK(log)'
  BY <1>1, FilesKept
<1>9. ReclaimingOK'
  <2>1. ~Fsync => risk[Main] = {}
    BY NoRisk DEF Files
  <2>2. \A o \in Objects : AllNamed(log, Len(log), o, disk[o].lines)
    BY <1>3 DEF Lines
  <2>. HIDE DEF Ready, AllNamed
  <2>. QED
    BY <1>1, <1>4, <1>6, <1>7, <2>1, <2>2 DEF ReclaimingOK, Reclaiming
<1>10. MemOK'
  BY <1>1, <1>7 DEF StorageInv, MemOK, Serving
<1>11. TypeOK' /\ BudgetOK'
  BY <1>1, <1>7 DEF StorageInv, TypeOK, Jobs, BudgetOK
<1>12. WholeLines' /\ WritingOK' /\ OpeningOK' /\ job'.at # "corrupt"
  BY <1>1, <1>7 DEF StorageInv, WholeLines, WritingOK, OpeningOK, Writing
<1>. QED
  BY <1>8, <1>9, <1>10, <1>11, <1>12 DEF StorageInv

------------------------------------------------------------------------------
(* The invariant holds *)

\* An empty directory is in order.
LEMMA StorageInit ==
    ASSUME Init
    PROVE  StorageInv
<1>1. /\ disk = [f \in Files |-> Empty] /\ risk = [f \in Files |-> {}]
      /\ mem = [next |-> 1, obj |-> Fresh] /\ job = NoJob
      /\ attempts = 0 /\ log = <<>>
      /\ setting \in Settings /\ budget = setting.failures
  BY DEF Init
<1>2. job \in Jobs /\ job.at = "idle" /\ job.todo = {}
  BY <1>1, RestIs
<1>3. budget \in [Failures -> Nat] /\ setting.failures \in [Failures -> Nat]
  BY <1>1, JsonlAssumption
<1>4. TypeOK
  BY <1>1, <1>2, <1>3 DEF TypeOK, Jobs
<1>5. log \in Seq(Batch) /\ Len(log) = 0 /\ DOMAIN log = {}
  BY <1>1
<1>6. LogOK(log)
  BY <1>5 DEF LogOK, Orderly
<1>7. BudgetOK
  BY <1>1, <1>3 DEF BudgetOK
<1>8. \A f \in Files : disk[f].lines = <<>> /\ disk[f].torn = FALSE /\ risk[f] = {}
  BY <1>1 DEF Empty
<1>9. Main \in Files /\ Objects \subseteq Files
  BY DEF Files
<1>10. \A o : \A c : c = <<>> => Sound(log, 0, o, c) /\ AllNamed(log, 0, o, c)
  <2>1. <<>> \in Seq(Rec) /\ DOMAIN <<>> = {} /\ \A i \in 1 .. 0 : FALSE
    OBVIOUS
  <2>. QED
    BY <2>1 DEF Sound, AllNamed
<1>11. FilesOK
  <2>1. RiskOK
    BY <1>1, <1>8 DEF RiskOK
  <2>2. MarkersOf(log, 0) = <<>>
    BY DEF MarkersOf
  <2>3. MainOK
    BY <1>5, <1>8, <1>9, <2>2 DEF MainOK
  <2>4. \A n \in Lengths : n = 0
    BY <1>8, <1>9 DEF Lengths, Versions
  <2>5. SidecarsOK
    <3>. HIDE DEF Sound, Lengths
    <3>. QED
      BY <1>8, <1>9, <1>10, <2>4 DEF SidecarsOK, Versions
  <2>. QED
    BY <2>1, <2>3, <2>5 DEF FilesOK
<1>12. WholeLines
  BY <1>8 DEF WholeLines
<1>13. MemOK
  <2>1. \A o \in Objects : Value(log, Len(log), o) = NoObject /\ mem.obj[o] = NoObject
    BY <1>1, <1>5, NothingYet DEF Fresh
  <2>2. mem.obj = [o \in Objects |-> Value(log, Len(log), o)]
    BY <1>1, <2>1 DEF Fresh
  <2>3. mem = [next |-> Len(log) + 1, obj |-> [o \in Objects |-> Value(log, Len(log), o)]]
    BY <1>1, <1>5, <2>2
  <2>4. \A o \in Objects \ Tasks : mem.obj[o].st # "live"
    BY <2>1 DEF NoObject
  <2>. HIDE DEF Value
  <2>. QED
    BY <1>2, <2>3, <2>4 DEF MemOK
<1>14. WritingOK /\ OpeningOK
  BY <1>2 DEF WritingOK, OpeningOK, Writing
<1>15. ReclaimingOK
  <2>. HIDE DEF AllNamed
  <2>. QED
    BY <1>2, <1>5, <1>8, <1>9, <1>10 DEF ReclaimingOK, Reclaiming
<1>. QED
  BY <1>2, <1>4, <1>6, <1>7, <1>11, <1>12, <1>13, <1>14, <1>15 DEF StorageInv

\* Every step keeps it so.
LEMMA StorageStep ==
    ASSUME StorageInv, [Next /\ UNCHANGED setting]_vars
    PROVE  StorageInv'
<1>1. CASE UNCHANGED vars
  <2>1. FilesOK' /\ LogOK(log)'
    BY <1>1, FilesKept DEF vars
  <2>2. /\ TypeOK' /\ BudgetOK' /\ WholeLines' /\ ReclaimingOK' /\ OpeningOK' /\ job'.at # "corrupt"
    BY <1>1 DEF vars, StorageInv, TypeOK, BudgetOK, WholeLines, ReclaimingOK, Reclaiming, OpeningOK
  <2>3. MemOK'
    BY <1>1 DEF vars, StorageInv, MemOK, Serving, Replayed, Awaits, ConfirmedBases, Named, Markers, Lines
  <2>4. WritingOK'
    BY <1>1 DEF vars, StorageInv, WritingOK, Writing
  <2>. QED
    BY <2>1, <2>2, <2>3, <2>4 DEF StorageInv
<1>2. CASE CommitBegin /\ UNCHANGED setting
  BY <1>2, CommitBeginSafe
<1>3. CASE PutMarker /\ UNCHANGED setting
  BY <1>3, PutMarkerSafe
<1>4. CASE Authorize /\ UNCHANGED setting
  BY <1>4, AuthorizeSafe
<1>5. CASE ReclaimFails /\ UNCHANGED setting
  BY <1>5, ReclaimFailsSafe
<1>6. ASSUME NEW o \in Objects, AppendSidecar(o), UNCHANGED setting PROVE StorageInv'
  BY <1>6, AppendSidecarSafe
<1>7. ASSUME NEW o \in Objects, FlushSidecar(o), UNCHANGED setting PROVE StorageInv'
  BY <1>7, FlushSidecarSafe
<1>8. ASSUME NEW o \in Objects, ReplaceSidecar(o), UNCHANGED setting PROVE StorageInv'
  BY <1>8, ReplaceSidecarSafe
<1>9. CASE (Poison \/ Crash \/ PowerFails \/ OpenFails) /\ UNCHANGED setting
  BY <1>9, DyingSafe
<1>10. CASE OpenBegin /\ UNCHANGED setting
  BY <1>10, OpenBeginSafe
<1>11. CASE Decode /\ UNCHANGED setting
  BY <1>11, DecodeSafe
<1>12. CASE ReplayMarker /\ UNCHANGED setting
  BY <1>12, ReplayMarkerSafe
<1>13. CASE ReplayEnds /\ UNCHANGED setting
  BY <1>13, ReplayEndsSafe
<1>14. CASE OpenEnds /\ UNCHANGED setting
  BY <1>14, OpenEndsSafe
<1>15. ASSUME NEW f \in Files, TrimTorn(f), UNCHANGED setting PROVE StorageInv'
  BY <1>15, TrimTornSafe
<1>16. ASSUME NEW o \in Objects, TruncateTail(o), UNCHANGED setting PROVE StorageInv'
  BY <1>16, TruncateTailSafe
<1>. QED
  BY <1>1, <1>2, <1>3, <1>4, <1>5, <1>6, <1>7, <1>8, <1>9, <1>10, <1>11, <1>12, <1>13, <1>14,
     <1>15, <1>16 DEF Next

\* Whatever the failures, and whatever versions of the files a power failure would
\* leave: the markers are a prefix of the committed batches, and every version of a
\* sidecar is sound for every version of the main file (storage/jsonl/storage.ts).
THEOREM StorageInductive == Spec => []StorageInv
<1>1. Init => StorageInv
  BY StorageInit
<1>2. StorageInv /\ [Next /\ UNCHANGED setting]_vars => StorageInv'
  BY StorageStep
<1>. QED
  BY <1>1, <1>2, PTL DEF Spec

\* Opening never meets one of the JsonlCorruptionErrors of recover() in a directory
\* that this backend has written.
THEOREM NeverCorrupt == Spec => [](job.at # "corrupt")
<1>1. StorageInv => job.at # "corrupt"
  BY DEF StorageInv
<1>. QED
  BY <1>1, StorageInductive, PTL

------------------------------------------------------------------------------
(* Refinement *)

\* What is read is what the committed batches say, or nothing.
LEMMA ViewIs ==
    ASSUME StorageInv
    PROVE  Seen = IF Serving THEN Contract!Opened(Contract!Contents(log)) ELSE Contract!Closed
<1>1. log \in Seq(Batch)
  BY DEF StorageInv, LogOK
<1>2. CASE Serving
  <2>1. Seen = <<mem.obj>>
    BY <1>2 DEF Seen
  <2>2. mem.obj = [o \in Objects |-> Value(log, Len(log), o)]
    BY <1>2 DEF StorageInv, MemOK
  <2>3. \A o \in Objects : Value(log, Len(log), o) = Contract!Amounts(log, o)
    BY <1>1, Amounted
  <2>. HIDE DEF Value, Contract!Amounts
  <2>4. mem.obj = [o \in Objects |-> Contract!Amounts(log, o)]
    BY <2>2, <2>3
  <2>5. mem.obj = Contract!Contents(log)
    BY <2>4 DEF Contract!Contents, Contract!Objects, Objects
  <2>. QED
    BY <1>2, <2>1, <2>5 DEF Contract!Opened
<1>3. CASE ~Serving
  <2>1. Seen = <<>>
    BY <1>3 DEF Seen, StorageInv
  <2>. QED
    BY <1>3, <2>1 DEF Contract!Closed
<1>. QED
  BY <1>2, <1>3

\* A batch more.
LEMMA OneBatchMore ==
    ASSUME StorageInv, Writing, log' = Append(log, job.writes)
    PROVE  Contract!OneMore
<1>1. log \in Seq(Batch) /\ job.writes \in Batch
  BY DEF StorageInv, LogOK, TypeOK
<1>2. /\ log' \in Seq(Batch) /\ Len(log') = Len(log) + 1 /\ Len(log) \in Nat
      /\ \A i \in 1 .. Len(log) : log'[i] = log[i]
  BY <1>1, LogGrows
<1>3. log = SubSeq(log', 1, Len(log))
  <2>. DEFINE N == Len(log)
              s == SubSeq(log', 1, N)
  <2>1. N \in 0 .. Len(log') /\ 1 \in Int /\ N \in Int
    BY <1>2
  <2>2. s \in Seq(Batch) /\ Len(s) = N /\ \A i \in 1 .. N : s[i] = log'[i]
    <3>1. \A i \in 1 .. N : log'[i] \in Batch
      BY <1>2, ElementOfSeq
    <3>2. /\ s \in Seq(Batch) /\ Len(s) = IF 1 <= N THEN N - 1 + 1 ELSE 0
          /\ \A i \in 1 .. N - 1 + 1 : s[i] = log'[1 + i - 1]
      BY <2>1, <3>1, SubSeqProperties
    <3>. QED
      BY <1>2, <3>2
  <2>3. \A i \in 1 .. N : s[i] = log[i]
    BY <1>2, <2>2
  <2>. HIDE DEF s
  <2>4. s = log
    BY <1>1, <2>2, <2>3, SeqEqual
  <2>. QED
    BY <2>4 DEF s
<1>. QED
  BY <1>2, <1>3 DEF Contract!OneMore

\* Each step of the backend is one of the contract or a stutter.
LEMMA ContractStep ==
    ASSUME StorageInv, StorageInv', [Next /\ UNCHANGED setting]_vars
    PROVE  [Contract!Next]_<<setting.failures["power"] > 0, log, Seen>>
<1>. DEFINE may == setting.failures["power"] > 0
            V(l) == Contract!Opened(Contract!Contents(l))
<1>1. Seen = IF Serving THEN V(log) ELSE Contract!Closed
  BY ViewIs
<1>2. Seen' = IF Serving' THEN V(log') ELSE Contract!Closed
  <2>1. (Seen = IF Serving THEN V(log) ELSE Contract!Closed)'
    BY ViewIs, PTL
  <2>. QED
    BY <2>1
<1>3. \A l : V(l) # Contract!Closed
  BY DEF Contract!Opened, Contract!Closed
<1>. HIDE DEF V
<1>4. may' = may
  BY DEF vars
<1>5. ASSUME PutMarker PROVE Contract!Commit
  <2>1. Serving /\ Serving'
    <3>1. job.at = "marker" /\ job' = ToReclaim(job.plan) /\ job.plan \in Plans
      BY <1>5 DEF PutMarker, StorageInv, TypeOK
    <3>2. job'.at \in {"idle", "authorize", "reclaim"}
      BY <3>1, ReclaimStarts
    <3>. QED
      BY <3>1, <3>2 DEF Serving
  <2>2. Contract!OneMore
    BY <1>5, OneBatchMore DEF PutMarker, Writing
  <2>. QED
    BY <1>1, <1>2, <1>3, <2>1, <2>2 DEF Contract!Commit, V
<1>6. ASSUME Dies PROVE Seen' = Contract!Closed
  <2>1. job'.at = "down"
    BY <1>6, RestIs DEF Dies
  <2>. QED
    BY <1>2, <2>1 DEF Serving
<1>7. ASSUME Poison \/ Crash PROVE Contract!Close
  <2>1. Dies /\ PartialAppend
    BY <1>7 DEF Poison, Crash
  <2>2. log' = log \/ (job.at = "marker" /\ log' = Append(log, job.writes))
    BY <2>1 DEF PartialAppend
  <2>3. ASSUME job.at = "marker", log' = Append(log, job.writes)
        PROVE  Seen # Contract!Closed /\ Contract!OneMore
    <3>1. Serving /\ Writing
      BY <2>3 DEF Serving, Writing
    <3>. QED
      BY <1>1, <1>3, <2>3, <3>1, OneBatchMore
  <2>. QED
    BY <1>6, <2>1, <2>2, <2>3 DEF Contract!Close
<1>8. ASSUME PowerFails PROVE Contract!LosePower
  <2>1. Dies /\ Spend("power")
    BY <1>8 DEF PowerFails
  <2>2. may
    BY <2>1, JsonlAssumption DEF Spend, StorageInv, TypeOK, BudgetOK, Failures
  <2>3. Len(log') \in 0 .. Len(log) /\ log' = SubSeq(log, 1, Len(log')) /\ Len(log) \in Nat
    BY <1>8, PowerLost, Found
  <2>. QED
    BY <1>6, <2>1, <2>2, <2>3 DEF Contract!LosePower
<1>9. ASSUME OpenEnds PROVE Contract!Open
  <2>. DEFINE plan == [o \in {x \in Objects : Len(Needed(x)) < Len(Lines(x))} |-> Needed(o)]
  <2>1. job.at = "truncate" /\ job' = ToReclaim(plan) /\ log' = log
    BY <1>9 DEF OpenEnds
  <2>. HIDE DEF plan
  <2>2. job'.at \in {"idle", "authorize", "reclaim"}
    BY <2>1, RestIs DEF ToReclaim, Jobs
  <2>3. ~Serving /\ Serving'
    BY <2>1, <2>2 DEF Serving
  <2>. QED
    BY <1>1, <1>2, <2>1, <2>3 DEF Contract!Open, V
<1>10. ASSUME CommitBegin \/ Authorize \/ ReclaimFails
       PROVE  log' = log /\ (Serving' <=> Serving)
  <2>1. Serving /\ log' = log
    BY <1>10 DEF CommitBegin, Authorize, ReclaimFails, Serving
  <2>2. CASE CommitBegin
    <3>1. job'.at \in {"marker", "append"}
      BY <2>2 DEF CommitBegin, NoJob
    <3>. QED
      BY <2>1, <3>1 DEF Serving
  <2>3. CASE Authorize
    <3>1. job'.at = "reclaim"
      BY <2>3 DEF Authorize, StorageInv, TypeOK
    <3>. QED
      BY <2>1, <3>1 DEF Serving
  <2>4. CASE ReclaimFails
    <3>1. CASE job.at = "authorize" /\ job' = NoJob
      BY <2>1, <3>1, RestIs DEF Serving
    <3>2. ASSUME job.at = "reclaim", NEW o \in job.todo, Reclaimed(o) PROVE Serving'
      BY <3>2, ReclaimGoesOn DEF Serving
    <3>. QED
      BY <2>1, <2>4, <3>1, <3>2 DEF ReclaimFails
  <2>. QED
    BY <1>10, <2>2, <2>3, <2>4
<1>11. ASSUME NEW o \in Objects, AppendSidecar(o) \/ FlushSidecar(o) \/ ReplaceSidecar(o)
       PROVE  log' = log /\ (Serving' <=> Serving)
  <2>1. Serving /\ log' = log
    BY <1>11 DEF AppendSidecar, FlushSidecar, ReplaceSidecar, Serving
  <2>2. CASE AppendSidecar(o)
    <3>1. job'.at \in {"append", "flush", "marker"}
      BY <2>2 DEF AppendSidecar, Then, ToFlush, ToMarker, StorageInv, TypeOK
    <3>. QED
      BY <2>1, <3>1 DEF Serving
  <2>3. CASE FlushSidecar(o)
    <3>1. job'.at \in {"flush", "marker"}
      BY <2>3 DEF FlushSidecar, Then, ToMarker, StorageInv, TypeOK
    <3>. QED
      BY <2>1, <3>1 DEF Serving
  <2>4. CASE ReplaceSidecar(o)
    <3>1. job.at = "reclaim" /\ o \in job.todo /\ Reclaimed(o)
      BY <2>4 DEF ReplaceSidecar
    <3>. QED
      BY <2>1, <3>1, ReclaimGoesOn DEF Serving
  <2>. QED
    BY <1>11, <2>2, <2>3, <2>4
<1>12. ASSUME OpenBegin \/ Decode \/ ReplayMarker \/ ReplayEnds \/ OpenFails
       PROVE  log' = log /\ (Serving' <=> Serving)
  <2>1. job.at \in {"down", "opening", "replay", "truncate"} /\ log' = log
    BY <1>12 DEF OpenBegin, Decode, ReplayMarker, ReplayEnds, OpenFails, Opening
  <2>2. CASE OpenFails
    <3>1. job'.at = "down"
      BY <2>2, RestIs DEF OpenFails, Dies
    <3>. QED
      BY <2>1, <3>1 DEF Serving
  <2>3. CASE OpenBegin
    <3>1. job'.at = "opening"
      BY <2>3, RestIs DEF OpenBegin, Jobs
    <3>. QED
      BY <2>1, <3>1 DEF Serving
  <2>4. CASE Decode \/ ReplayMarker \/ ReplayEnds
    <3>1. job'.at \in {"replay", "truncate", "corrupt"}
      BY <2>4 DEF Decode, ReplayMarker, ReplayEnds, StorageInv, TypeOK
    <3>. QED
      BY <2>1, <3>1 DEF Serving
  <2>. QED
    BY <1>12, <2>2, <2>3, <2>4
<1>13. ASSUME NEW f \in Files, TrimTorn(f) PROVE log' = log /\ (Serving' <=> Serving)
  BY <1>13 DEF TrimTorn, Serving
<1>14. ASSUME NEW o \in Objects, TruncateTail(o) PROVE log' = log /\ (Serving' <=> Serving)
  <2>1. job.at = "truncate" /\ log' = log
    BY <1>14 DEF TruncateTail
  <2>2. job'.at \in {"truncate", "corrupt"}
    BY <1>14 DEF TruncateTail, StorageInv, TypeOK
  <2>. QED
    BY <2>1, <2>2 DEF Serving
<1>15. ASSUME UNCHANGED vars PROVE log' = log /\ (Serving' <=> Serving)
  BY <1>15 DEF vars, Serving
<1>16. Contract!Commit \/ Contract!Close \/ Contract!Open \/ Contract!LosePower
         \/ (log' = log /\ (Serving' <=> Serving))
  <2>. HIDE DEF Contract!Commit, Contract!Close, Contract!Open, Contract!LosePower, Serving, vars
  <2>. QED
    BY <1>5, <1>7, <1>8, <1>9, <1>10, <1>11, <1>12, <1>13, <1>14, <1>15 DEF Next
<1>17. CASE log' = log /\ (Serving' <=> Serving)
  <2>1. Seen' = Seen
    BY <1>1, <1>2, <1>17
  <2>. QED
    BY <1>4, <1>17, <2>1
<1>18. CASE Contract!Commit \/ Contract!Close \/ Contract!Open \/ Contract!LosePower
  BY <1>4, <1>18 DEF Contract!Next
<1>. QED
  BY <1>16, <1>17, <1>18

\* Over its files the backend does what types.ts promises of a Storage: batches are
\* committed whole and in order, a failure loses none that was acknowledged, the power
\* at most the last ones, and what is read is what the committed ones say.
THEOREM StorageImplemented == Spec => ImplementsStorage
<1>1. Init => Contract!Init
  <2>. SUFFICES ASSUME Init PROVE Contract!Init
    OBVIOUS
  <2>1. StorageInv
    BY StorageInit
  <2>2. Serving
    BY RestIs DEF Init, Serving
  <2>3. Seen = Contract!Opened(Contract!Contents(log))
    BY <2>1, <2>2, ViewIs
  <2>4. log = <<>> /\ (setting.failures["power"] > 0) \in BOOLEAN
    BY DEF Init
  <2>. QED
    BY <2>3, <2>4 DEF Contract!Init
<1>2. StorageInv /\ StorageInv' /\ [Next /\ UNCHANGED setting]_vars
        => [Contract!Next]_<<setting.failures["power"] > 0, log, Seen>>
  BY ContractStep
<1>. QED
  BY <1>1, <1>2, StorageInductive, PTL DEF Spec, ImplementsStorage, Contract!Spec

------------------------------------------------------------------------------
(* Lean sidecars *)

\* The lines c hold what is readable of o after the batches L, and nothing else.
Lean(L, o, c) ==
    IF o \in Tasks THEN StateOf(L, Len(L), o) = "terminal" => c = <<>>
    ELSE {Revision(c[j]) : j \in DOMAIN c} = RevsOf(L, Len(L), o)

\* The lines of o when what is under way is done: the replacement that is planned, or
\* those there are and those still to be appended.
Ahead(o) ==
    IF (Writing /\ o \in DOMAIN job.plan) \/ (Reclaiming /\ o \in job.todo) THEN job.plan[o]
    ELSE IF job.at = "append" /\ o \in job.todo THEN Lines(o) \o Appended(o)
    ELSE Lines(o)

\* The log then.
LogAhead == IF Writing THEN Append(log, job.writes) ELSE log

\* What is under way leaves lean sidecars.  After an input or output error nothing is
\* said.
LeanInv ==
    Serving /\ budget["io"] = setting.failures["io"] =>
        \A o \in Objects : Lean(LogAhead, o, Ahead(o))

\* The revisions that a batch adds.
NewRevs(L, i, o) ==
    {RevisionAt(L, o, i, k) : k \in {x \in DOMAIN L[i][o] : L[i][o][x].op # "retire"}}

RevsIn(c) == {Revision(c[j]) : j \in DOMAIN c}

Writes(L, i, o, op, kind) ==
    \E k \in DOMAIN L[i][o] : L[i][o][k].op = op /\ L[i][o][k].kind = kind

\* What a batch makes of the readable revisions of a document.
LEMMA RevsNext ==
    ASSUME NEW L, LogOK(L), NEW n \in Nat, n < Len(L), NEW o \in Latest \cup Rewindable
    PROVE  LET ends == o \in Latest /\ Writes(L, n + 1, o, "retire", "none")
               rebased == o \in Latest /\ Writes(L, n + 1, o, "change", "base")
           IN  RevsOf(L, n + 1, o) = IF ends THEN {}
                                     ELSE IF rebased THEN NewRevs(L, n + 1, o)
                                     ELSE RevsOf(L, n, o) \cup NewRevs(L, n + 1, o)
<1>. DEFINE w == L[n + 1][o]
            e == Events(L[n + 1], o, n + 1)
            ends == o \in Latest /\ Writes(L, n + 1, o, "retire", "none")
            rebased == o \in Latest /\ Writes(L, n + 1, o, "change", "base")
            new == NewRevs(L, n + 1, o)
            old == RevsOf(L, n, o)
<1>1. o \in Objects /\ o \notin Tasks /\ n + 1 \in 1 .. Len(L)
  BY JsonlAssumption, LenProperties DEF Objects, LogOK
<1>2. Shaped(o, w)
  BY <1>1, Shapes
<1>3. \A k \in DOMAIN w :
        \/ w[k].op = "create" /\ w[k].kind = "base"
        \/ w[k].op = "change" /\ w[k].kind \in {"base", "delta"}
        \/ w[k].op = "retire" /\ w[k].kind = "none"
  BY <1>1, <1>2 DEF Shaped
<1>4. /\ Value(L, n, o).revs = old /\ Value(L, n + 1, o).revs = RevsOf(L, n + 1, o)
      /\ Value(L, n + 1, o) = Applied(o, Value(L, n, o), e)
  <2>1. Value(L, n + 1, o) = Applied(o, Value(L, n, o), e)
    BY <1>1, ValueStep
  <2>2. \A s, r : [st |-> s, revs |-> r].revs = r
    OBVIOUS
  <2>. HIDE DEF Applied, e, StateOf, RevsOf
  <2>. QED
    BY <2>1, <2>2, Zenon DEF Value, old
<1>5. /\ DOMAIN e = DOMAIN w
      /\ \A k \in DOMAIN w : /\ e[k].op = w[k].op /\ e[k].kind = w[k].kind
                             /\ Revision(e[k]) = RevisionAt(L, o, n + 1, k)
  BY DEF Events, Revision, RevisionAt
<1>6. \A r : r \in new <=> \E k \in DOMAIN w : w[k].op # "retire" /\ r = RevisionAt(L, o, n + 1, k)
  BY DEF NewRevs
<1>. HIDE DEF w, e, new, old
<1>7. CASE DOMAIN w = {}
  <2>1. Applied(o, Value(L, n, o), e) = Value(L, n, o)
    BY <1>5, <1>7 DEF Applied
  <2>2. RevsOf(L, n + 1, o) = old
    BY <1>4, <2>1
  <2>3. new = {}
    BY <1>6, <1>7
  <2>4. ~ends /\ ~rebased
    BY <1>7 DEF Writes, w
  <2>5. old \cup new = old
    BY <2>3
  <2>. HIDE DEF ends, rebased
  <2>6. RevsOf(L, n + 1, o) = IF ends THEN {} ELSE IF rebased THEN new ELSE old \cup new
    BY <2>2, <2>4, <2>5
  <2>. QED
    BY <2>6 DEF ends, rebased, new, old
<1>8. CASE DOMAIN w # {}
  <2>. DEFINE es == {e[k] : k \in DOMAIN e}
              content == {Revision(x) : x \in {y \in es : y.op # "retire"}}
              replaces == \E x \in es : x.op = "create" \/ (x.kind = "base" /\ o \in Latest)
              retires == \E x \in es : x.op = "retire"
  <2>1. RevsOf(L, n + 1, o) = IF retires /\ o \in Latest THEN {}
                              ELSE IF replaces THEN content ELSE old \cup content
    <3>. DEFINE v == Value(L, n, o)
    <3>1. RevsOf(L, n + 1, o) = AppliedToDocument(o, v, e).revs /\ v.revs = old
      BY <1>1, <1>4, <1>5, <1>8 DEF Applied
    <3>. HIDE DEF v
    <3>2. AppliedToDocument(o, v, e).revs = IF retires /\ o \in Latest THEN {}
                                            ELSE IF replaces THEN content ELSE v.revs \cup content
      BY DEF AppliedToDocument
    <3>. QED
      BY <3>1, <3>2
  <2>2. content = new
    <3>1. \A r : r \in content <=> \E k \in DOMAIN w : w[k].op # "retire" /\ r = RevisionAt(L, o, n + 1, k)
      BY <1>5
    <3>2. \A r : r \in content <=> r \in new
      BY <1>6, <3>1
    <3>. HIDE DEF content
    <3>. QED
      BY <3>2, SameElements
  <2>3. /\ (retires /\ o \in Latest) <=> ends
        /\ rebased => replaces
    BY <1>3, <1>5 DEF Writes, w
  <2>4. replaces => rebased \/ \E k \in DOMAIN w : w[k].op = "create"
    BY <1>3, <1>5 DEF Writes, w
  <2>5. ASSUME \E k \in DOMAIN w : w[k].op = "create" PROVE old = {}
    <3>1. L[n + 1][o] # <<>>
      BY <1>8 DEF w
    <3>2. \A i \in 1 .. n : L[i][o] = <<>>
      BY <1>1, <2>5, <3>1, Precedes DEF w
    <3>3. \A r : r \notin old
      <4>1. \A i \in 1 .. n : DOMAIN L[i][o] = {}
        BY <3>2
      <4>. HIDE DEF RevisionAt, Kept
      <4>. QED
        BY <4>1, RevsMembers DEF old
    <3>. QED
      BY <3>3
  <2>. HIDE DEF es, content, replaces, retires, ends, rebased
  <2>6. RevsOf(L, n + 1, o) = IF ends THEN {} ELSE IF rebased THEN new ELSE old \cup new
    BY <2>1, <2>2, <2>3, <2>4, <2>5
  <2>. QED
    BY <2>6 DEF ends, rebased, new, old
<1>. QED
  BY <1>7, <1>8

\* The records of a batch hold the revisions it adds.
LEMMA RecordedRevs ==
    ASSUME NEW L, LogOK(L), NEW n \in Nat, n < Len(L), NEW o \in Latest \cup Rewindable
    PROVE  RevsIn(Records(L[n + 1], o, n + 1)) = NewRevs(L, n + 1, o)
<1>. DEFINE w == L[n + 1][o]
            d == Records(L[n + 1], o, n + 1)
<1>1. o \in Objects /\ o \notin Tasks /\ n + 1 \in 1 .. Len(L)
  BY JsonlAssumption, LenProperties DEF Objects, LogOK
<1>2. Shaped(o, w) /\ L[n + 1] \in Batch
  BY <1>1, Shapes, LogTypes
<1>3. \A k \in DOMAIN w : w[k].op \in {"create", "change", "retire"}
  BY <1>1, <1>2 DEF Shaped
<1>4. /\ \A k : k \in DOMAIN d <=> k \in DOMAIN w /\ w[k].op \in InSidecar
      /\ \A k \in DOMAIN d : d[k] = Record(n + 1, k, w[k])
  BY <1>1, <1>2, RecordsOf
<1>. HIDE DEF d
<1>5. /\ \A k : k \in DOMAIN d <=> k \in DOMAIN w /\ w[k].op # "retire"
      /\ \A k \in DOMAIN d : Revision(d[k]) = RevisionAt(L, o, n + 1, k)
  BY <1>3, <1>4 DEF Record, Revision, RevisionAt, InSidecar
<1>6. \A r : r \in RevsIn(d) <=> r \in NewRevs(L, n + 1, o)
  <2>. HIDE DEF Revision, RevisionAt
  <2>. QED
    BY <1>5 DEF RevsIn, NewRevs
<1>7. RevsIn(d) = NewRevs(L, n + 1, o)
  BY <1>6, SameElements
<1>. QED
  BY <1>7 DEF d

\* Lines appended to lines.
LEMMA JoinedRevs ==
    ASSUME NEW c \in Seq(Rec), NEW d \in Seq(Rec)
    PROVE  RevsIn(c \o d) = RevsIn(c) \cup RevsIn(d)
<1>. DEFINE cd == c \o d
<1>1. /\ \A i \in DOMAIN c : i \in DOMAIN cd /\ cd[i] = c[i]
      /\ \A j \in DOMAIN d : Len(c) + j \in DOMAIN cd /\ cd[Len(c) + j] = d[j]
      /\ \A i \in DOMAIN cd : i \in DOMAIN c \/ \E j \in DOMAIN d : i = Len(c) + j
  BY Joined
<1>. HIDE DEF cd
<1>2. \A r : r \in RevsIn(cd) <=> r \in RevsIn(c) \cup RevsIn(d)
  <2>. HIDE DEF Revision
  <2>1. ASSUME NEW i \in DOMAIN cd PROVE Revision(cd[i]) \in RevsIn(c) \cup RevsIn(d)
    <3>1. CASE i \in DOMAIN c
      BY <1>1, <3>1 DEF RevsIn
    <3>2. ASSUME NEW j \in DOMAIN d, i = Len(c) + j PROVE Revision(cd[i]) \in RevsIn(d)
      BY <1>1, <3>2 DEF RevsIn
    <3>. QED
      BY <1>1, <3>1, <3>2
  <2>2. ASSUME NEW i \in DOMAIN c PROVE Revision(c[i]) \in RevsIn(cd)
    BY <1>1 DEF RevsIn
  <2>3. ASSUME NEW j \in DOMAIN d PROVE Revision(d[j]) \in RevsIn(cd)
    <3>1. Len(c) + j \in DOMAIN cd /\ cd[Len(c) + j] = d[j]
      BY <1>1
    <3>. QED
      BY <3>1 DEF RevsIn
  <2>. QED
    BY <2>1, <2>2, <2>3 DEF RevsIn
<1>3. RevsIn(cd) = RevsIn(c) \cup RevsIn(d)
  BY <1>2, SameElements
<1>. QED
  BY <1>3 DEF cd

\* No lines hold no revisions.
LEMMA NoLines ==
    RevsIn(<<>>) = {}
<1>1. DOMAIN <<>> = {}
  OBVIOUS
<1>. QED
  BY <1>1 DEF RevsIn

\* Lines without an index are none.
LEMMA NothingThere ==
    ASSUME NEW c \in Seq(Rec), DOMAIN c = {}
    PROVE  c = <<>>
<1>. DEFINE last == Len(c)
<1>1. DOMAIN c = 1 .. last /\ last \in Nat
  BY LineTypes
<1>. HIDE DEF last
<1>2. last = 0
  BY <1>1
<1>. QED
  BY <1>2, EmptySeq, Zenon DEF last

\* Of an object that nothing was written about there are no lines.
LEMMA UnknownEmpty ==
    ASSUME NEW L, NEW n, NEW o, StateOf(L, n, o) = "none", NEW c \in Seq(Rec), AllNamed(L, n, o, c)
    PROVE  c = <<>>
<1>1. \A i \in 1 .. n : DOMAIN L[i][o] = {}
  BY DEF StateOf
<1>2. \A j \in DOMAIN c : FALSE
  BY <1>1 DEF AllNamed, NamedBy
<1>. QED
  BY <1>2, NothingThere

\* Without a reclamation the readable revisions of a document only grow.
LEMMA RevsGrow ==
    ASSUME NEW L, LogOK(L), NEW n \in Nat, n < Len(L), NEW o \in Latest \cup Rewindable,
           o \in Latest => ~Writes(L, n + 1, o, "retire", "none") /\ ~Writes(L, n + 1, o, "change", "base")
    PROVE  RevsOf(L, n + 1, o) = RevsOf(L, n, o) \cup NewRevs(L, n + 1, o)
<1>. HIDE DEF Writes, RevsOf, NewRevs
<1>. QED
  BY RevsNext

\* A batch that reclaims nothing of o adds to the lines what becomes readable.
LEMMA LeanStep ==
    ASSUME NEW L, LogOK(L), NEW M, NEW n \in Nat, Len(L) = n + 1, Len(M) = n,
           \A i \in 1 .. n : M[i] = L[i],
           NEW o \in Objects, NEW c \in Seq(Rec), AllNamed(M, n, o, c), Lean(M, o, c),
           o \in Latest => ~Writes(L, n + 1, o, "retire", "none") /\ ~Writes(L, n + 1, o, "change", "base"),
           o \in Tasks => (Writes(L, n + 1, o, "terminal", "task") => StateOf(M, n, o) # "live")
    PROVE  Lean(L, o, c \o Records(L[n + 1], o, n + 1))
<1>. DEFINE d == Records(L[n + 1], o, n + 1)
            w == L[n + 1][o]
<1>1. n < Len(L) /\ n + 1 \in 1 .. Len(L) /\ L \in Seq(Batch)
  BY DEF LogOK
<1>2. Shaped(o, w) /\ L[n + 1] \in Batch
  BY <1>1, Shapes, LogTypes
<1>3. /\ d \in Seq(Rec)
      /\ \A k : k \in DOMAIN d <=> k \in DOMAIN w /\ w[k].op \in InSidecar
  BY <1>1, <1>2, RecordsOf
<1>4. Value(L, n, o) = Value(M, n, o) /\ StateOf(L, n, o) = StateOf(M, n, o)
  BY SameValue
<1>5. CASE o \notin Tasks
  <2>1. o \in Latest \cup Rewindable
    BY <1>5 DEF Objects
  <2>2. RevsOf(L, n, o) = RevsOf(M, n, o)
    <3>1. \A s, r : [st |-> s, revs |-> r].revs = r
      OBVIOUS
    <3>. HIDE DEF RevsOf, StateOf
    <3>. QED
      BY <1>4, <3>1, Zenon DEF Value
  <2>3. RevsOf(L, n + 1, o) = RevsOf(L, n, o) \cup NewRevs(L, n + 1, o)
    <3>. HIDE DEF Writes, RevsOf, NewRevs
    <3>. QED
      BY <1>1, <2>1, RevsGrow
  <2>4. RevsIn(d) = NewRevs(L, n + 1, o)
    BY <1>1, <2>1, RecordedRevs
  <2>5. RevsIn(c) = RevsOf(M, n, o)
    BY <1>5 DEF Lean, RevsIn
  <2>. HIDE DEF d, RevsIn, RevsOf, NewRevs
  <2>6. RevsIn(c \o d) = RevsOf(L, n + 1, o)
    BY <1>3, <2>2, <2>3, <2>4, <2>5, JoinedRevs
  <2>. QED
    BY <1>5, <2>6 DEF Lean, RevsIn, d
<1>6. CASE o \in Tasks
  <2>. SUFFICES ASSUME StateOf(L, n + 1, o) = "terminal" PROVE c \o d = <<>>
    BY <1>6 DEF Lean
  <2>1. PICK i \in 1 .. n + 1 : \E k \in DOMAIN L[i][o] : L[i][o][k].op = "terminal"
    BY DEF StateOf, Said
  <2>0. PICK k \in DOMAIN L[i][o] : L[i][o][k].op = "terminal"
    BY <2>1
  <2>2. CASE i \in 1 .. n
    <3>1. StateOf(M, n, o) = "terminal"
      <4>1. L[i][o] # <<>> /\ Said(L, n, o, "terminal")
        BY <2>0, <2>2 DEF Said
      <4>2. StateOf(L, n, o) = "terminal"
        BY <2>2, <4>1 DEF StateOf
      <4>. QED
        BY <1>4, <4>2
    <3>2. c = <<>>
      BY <1>6, <3>1 DEF Lean
    <3>3. DOMAIN w = {}
      <4>1. Orderly(L, o) /\ i \in DOMAIN L /\ n + 1 \in DOMAIN L /\ n + 1 > i
        BY <1>1, <2>2, LenProperties DEF LogOK
      <4>2. w = <<>>
        BY <2>0, <4>1 DEF Orderly
      <4>. QED
        BY <4>2
    <3>4. d = <<>>
      <4>1. DOMAIN d = {}
        BY <1>3, <3>3
      <4>. HIDE DEF d
      <4>. QED
        BY <1>3, <4>1, NothingThere
    <3>. QED
      BY <3>2, <3>4
  <2>3. CASE i = n + 1
    <3>1. \A x \in DOMAIN w : w[x].op = "terminal" /\ w[x].kind = "task"
      <4>1. k \in DOMAIN w /\ w[k].op = "terminal"
        BY <2>0, <2>3
      <4>2. Len(w) = 1 /\ DOMAIN w = 1 .. Len(w)
        BY <1>1, <1>2, <1>6, <4>1, LogTypes DEF Shaped
      <4>3. \A x \in DOMAIN w : x = k
        BY <4>1, <4>2
      <4>. QED
        BY <1>2, <1>6, <4>1, <4>3 DEF Shaped
    <3>2. d = <<>>
      <4>1. DOMAIN d = {}
        BY <1>3, <3>1 DEF InSidecar
      <4>. HIDE DEF d
      <4>. QED
        BY <1>3, <4>1, NothingThere
    <3>3. StateOf(M, n, o) # "live"
      BY <1>6, <2>0, <2>3, <3>1 DEF Writes
    <3>4. \A j \in 1 .. n : \A x \in DOMAIN L[j][o] : L[j][o][x].op \notin {"terminal", "retire"}
      <4>1. L[n + 1][o] # <<>>
        BY <2>0, <2>3
      <4>. QED
        BY <1>1, <4>1, Precedes
    <3>5. StateOf(L, n, o) \in {"none", "live"}
      BY <3>4 DEF StateOf, Said
    <3>6. c = <<>>
      <4>1. StateOf(M, n, o) = "none"
        BY <1>4, <3>3, <3>5
      <4>. QED
        BY <4>1, UnknownEmpty
    <3>. QED
      BY <3>2, <3>6
  <2>. QED
    BY <2>1, <2>2, <2>3
<1>. QED
  BY <1>5, <1>6

\* What a commit plans to leave of a sidecar is lean.
LEMMA LeanPlan ==
    ASSUME NEW L, LogOK(L), NEW n \in Nat, Len(L) = n + 1, NEW o \in Tasks \cup Latest
    PROVE  /\ o \in Tasks => Lean(L, o, <<>>)
           /\ o \in Latest /\ Writes(L, n + 1, o, "retire", "none") => Lean(L, o, <<>>)
           /\ o \in Latest /\ ~Writes(L, n + 1, o, "retire", "none") /\ Writes(L, n + 1, o, "change", "base")
                => Lean(L, o, Records(L[n + 1], o, n + 1))
<1>1. n < Len(L)
  OBVIOUS
<1>2. CASE o \in Tasks
  BY <1>2, JsonlAssumption DEF Lean
<1>3. CASE o \in Latest
  <2>1. RevsOf(L, n + 1, o) = IF Writes(L, n + 1, o, "retire", "none") THEN {}
                              ELSE IF Writes(L, n + 1, o, "change", "base") THEN NewRevs(L, n + 1, o)
                              ELSE RevsOf(L, n, o) \cup NewRevs(L, n + 1, o)
    <3>. HIDE DEF Writes, RevsOf, NewRevs
    <3>. QED
      BY <1>1, <1>3, RevsNext
  <2>2. RevsIn(Records(L[n + 1], o, n + 1)) = NewRevs(L, n + 1, o)
    BY <1>1, <1>3, RecordedRevs
  <2>3. o \notin Tasks
    BY <1>3, JsonlAssumption
  <2>. DEFINE d == Records(L[n + 1], o, n + 1)
  <2>4. \A c : Lean(L, o, c) <=> RevsIn(c) = RevsOf(L, n + 1, o)
    BY <2>3 DEF Lean, RevsIn
  <2>. HIDE DEF Writes, RevsOf, NewRevs, RevsIn, Lean, d
  <2>. QED
    BY <2>1, <2>2, <2>3, <2>4, NoLines DEF d
<1>. QED
  BY <1>2, <1>3

\* A record in sound lines is of a write that the log says.
LEMMA OfAWrite ==
    ASSUME NEW L, NEW n, NEW o, NEW c, Sound(L, n, o, c), NEW j \in DOMAIN c, NamedBy(L, n, o, c[j])
    PROVE  /\ c[j].seq \in 1 .. n /\ c[j].ord \in DOMAIN L[c[j].seq][o]
           /\ L[c[j].seq][o][c[j].ord].op \in InSidecar
           /\ L[c[j].seq][o][c[j].ord].kind = c[j].kind
           /\ Revision(c[j]) = RevisionAt(L, o, c[j].seq, c[j].ord)
<1>1. c[j] = Record(c[j].seq, c[j].ord, L[c[j].seq][o][c[j].ord])
  BY DEF Sound
<1>2. \A s, k, w : Record(s, k, w).kind = w.kind /\ Record(s, k, w).att = w.att /\ Record(s, k, w).seq = s
  BY DEF Record
<1>3. c[j].kind = L[c[j].seq][o][c[j].ord].kind /\ c[j].att = L[c[j].seq][o][c[j].ord].att
  <2>. HIDE DEF Record
  <2>. QED
    BY <1>1, <1>2
<1>. QED
  BY <1>3 DEF NamedBy, Revision, RevisionAt

\* From the latest base on the lines hold exactly the readable revisions.
LEMMA LeanFrom ==
    ASSUME NEW L, LogOK(L), NEW N, N = Len(L), NEW o \in Latest \cup Rewindable, NEW c,
           Sound(L, N, o, c), AllNamed(L, N, o, c), NEW f \in Nat,
           o \in Latest => ~Said(L, N, o, "retire"),
           \A j \in DOMAIN c : o \in Latest /\ c[j].kind = "base" => j <= f,
           \A j \in DOMAIN c : j < f => o \in Latest /\ f \in DOMAIN c /\ c[f].kind = "base"
    PROVE  {Revision(c[j]) : j \in {x \in DOMAIN c : f <= x}} = RevsOf(L, N, o)
<1>1. o \in Objects /\ o \notin Tasks /\ N \in Nat /\ L \in Seq(Batch)
  BY JsonlAssumption, LenProperties DEF Objects, LogOK
<1>2. /\ c \in Seq(Rec) /\ DOMAIN c = 1 .. Len(c) /\ Len(c) \in Nat
      /\ \A j \in DOMAIN c : c[j].seq \in Nat /\ c[j].ord \in Nat /\ j \in Nat
  BY LineTypes DEF Sound
<1>3. ASSUME NEW j \in DOMAIN c
      PROVE  /\ c[j].seq \in 1 .. N /\ c[j].ord \in DOMAIN L[c[j].seq][o]
             /\ L[c[j].seq][o][c[j].ord].op \in InSidecar
             /\ L[c[j].seq][o][c[j].ord].kind = c[j].kind
             /\ Revision(c[j]) = RevisionAt(L, o, c[j].seq, c[j].ord)
  <2>1. NamedBy(L, N, o, c[j])
    BY DEF AllNamed
  <2>. HIDE DEF Sound, NamedBy
  <2>. QED
    BY <2>1, OfAWrite
<1>4. \A i, j \in DOMAIN c : i < j => Follows(c[i].seq, c[i].ord, c[j].seq, c[j].ord)
  BY DEF Sound, Earlier, Follows
<1>5. ASSUME NEW i \in 1 .. N, NEW k \in DOMAIN L[i][o]
      PROVE  /\ k \in Nat
             /\ L[i][o][k].op \in InSidecar \/ L[i][o][k].op = "retire"
             /\ L[i][o][k].kind = "base" => L[i][o][k].op \in InSidecar
  <2>1. Shaped(o, L[i][o])
    BY <1>1, Shapes
  <2>2. k \in Nat
    BY <1>1, LogTypes
  <2>. QED
    BY <1>1, <2>1, <2>2 DEF Shaped, InSidecar
\* A write that is recorded is there, or one after it is a base that is there.
<1>6. ASSUME NEW i \in 1 .. N, NEW k \in DOMAIN L[i][o], L[i][o][k].op \in InSidecar
      PROVE  \/ \E j \in DOMAIN c : c[j].seq = i /\ c[j].ord = k
             \/ o \in Latest /\ \E j \in DOMAIN c :
                   c[j].kind = "base" /\ Follows(i, k, c[j].seq, c[j].ord)
  <2>1. Holds(c, i, k) \/ Superfluous(L, N, o, c, i, k)
    BY <1>6 DEF Sound
  <2>2. CASE Holds(c, i, k)
    BY <2>2 DEF Holds
  <2>3. CASE Superfluous(L, N, o, c, i, k)
    BY <1>1, <2>3 DEF Superfluous, Earlier, Follows
  <2>. QED
    BY <2>1, <2>2, <2>3
<1>7. ASSUME NEW j \in DOMAIN c, f <= j PROVE Kept(L, N, o, c[j].seq, c[j].ord)
  <2>. DEFINE i == c[j].seq
              k == c[j].ord
  <2>1. L[i][o][k].op # "retire"
    BY <1>3 DEF InSidecar
  <2>2. ASSUME NEW y \in 1 .. N, NEW l \in DOMAIN L[y][o], Follows(i, k, y, l), Replaces(o, L[y][o][l])
        PROVE  FALSE
    <3>1. o \in Latest /\ (L[y][o][l].kind = "base" \/ L[y][o][l].op = "retire")
      BY <1>1, <2>2 DEF Replaces
    <3>2. L[y][o][l].kind = "base" /\ L[y][o][l].op \in InSidecar
      BY <1>5, <3>1 DEF Said
    <3>3. PICK x \in DOMAIN c : c[x].kind = "base" /\ Follows(i, k, c[x].seq, c[x].ord)
      <4>1. CASE \E x \in DOMAIN c : c[x].seq = y /\ c[x].ord = l
        <5>1. PICK x \in DOMAIN c : c[x].seq = y /\ c[x].ord = l
          BY <4>1
        <5>2. c[x].kind = "base"
          BY <1>3, <3>2, <5>1
        <5>. QED
          BY <2>2, <5>1, <5>2
      <4>2. ASSUME NEW x \in DOMAIN c, c[x].kind = "base", Follows(y, l, c[x].seq, c[x].ord)
            PROVE  Follows(i, k, c[x].seq, c[x].ord)
        <5>1. /\ i \in Nat /\ k \in Nat /\ y \in Nat /\ l \in Nat
              /\ c[x].seq \in Nat /\ c[x].ord \in Nat
          BY <1>1, <1>2, <1>5
        <5>. QED
          BY <2>2, <4>2, <5>1 DEF Follows
      <4>. QED
        BY <1>6, <3>2, <4>1, <4>2
    <3>4. x <= f /\ x <= j /\ x \in Nat /\ j \in Nat
      BY <1>2, <1>7, <3>1, <3>3
    <3>5. x = j \/ x < j
      BY <3>4
    <3>6. /\ i \in Nat /\ k \in Nat /\ c[x].seq \in Nat /\ c[x].ord \in Nat
          /\ x < j => Follows(c[x].seq, c[x].ord, i, k)
      BY <1>2, <1>4
    <3>. QED
      BY <3>3, <3>5, <3>6 DEF Follows
  <2>. QED
    BY <2>1, <2>2 DEF Kept
<1>8. ASSUME NEW i \in 1 .. N, NEW k \in DOMAIN L[i][o], Kept(L, N, o, i, k)
      PROVE  \E j \in DOMAIN c : f <= j /\ c[j].seq = i /\ c[j].ord = k
  <2>1. L[i][o][k].op \in InSidecar
    BY <1>5, <1>8 DEF Kept
  <2>2. ASSUME o \in Latest, NEW x \in DOMAIN c, c[x].kind = "base", Follows(i, k, c[x].seq, c[x].ord)
        PROVE  FALSE
    <3>1. /\ c[x].seq \in 1 .. N /\ c[x].ord \in DOMAIN L[c[x].seq][o]
          /\ L[c[x].seq][o][c[x].ord].kind = "base"
      BY <1>3, <2>2
    <3>2. Replaces(o, L[c[x].seq][o][c[x].ord])
      BY <2>2, <3>1 DEF Replaces
    <3>. QED
      BY <1>8, <2>2, <3>1, <3>2 DEF Kept
  <2>3. PICK j \in DOMAIN c : c[j].seq = i /\ c[j].ord = k
    BY <1>6, <2>1, <2>2
  <2>4. ASSUME j < f PROVE FALSE
    <3>1. o \in Latest /\ f \in DOMAIN c /\ c[f].kind = "base"
      BY <2>4
    <3>2. Follows(i, k, c[f].seq, c[f].ord)
      BY <1>4, <2>3, <2>4, <3>1
    <3>. QED
      BY <2>2, <3>1, <3>2
  <2>. QED
    BY <1>2, <2>3, <2>4
<1>9. ASSUME NEW r
      PROVE  r \in {Revision(c[j]) : j \in {x \in DOMAIN c : f <= x}} <=> r \in RevsOf(L, N, o)
  <2>. HIDE DEF Revision, RevisionAt, Kept, RevsOf
  <2>1. ASSUME NEW j \in DOMAIN c, f <= j PROVE Revision(c[j]) \in RevsOf(L, N, o)
    BY <1>3, <1>7, <2>1, RevsMembers
  <2>2. ASSUME r \in RevsOf(L, N, o)
        PROVE  r \in {Revision(c[j]) : j \in {x \in DOMAIN c : f <= x}}
    <3>1. PICK i \in 1 .. N : \E k \in DOMAIN L[i][o] : Kept(L, N, o, i, k) /\ r = RevisionAt(L, o, i, k)
      BY <2>2, RevsMembers
    <3>2. PICK k \in DOMAIN L[i][o] : Kept(L, N, o, i, k) /\ r = RevisionAt(L, o, i, k)
      BY <3>1
    <3>3. PICK j \in DOMAIN c : f <= j /\ c[j].seq = i /\ c[j].ord = k
      BY <1>8, <3>2
    <3>4. r = Revision(c[j])
      BY <1>3, <3>2, <3>3
    <3>. QED
      BY <3>3, <3>4
  <2>. QED
    BY <2>1, <2>2
<1>. QED
  BY <1>9, SameElements

\* Of a document that is read as its current content, nothing is left to read once it
\* is retired.
LEMMA RetiredNothing ==
    ASSUME NEW L, LogOK(L), NEW N, N = Len(L), NEW o \in Latest, Said(L, N, o, "retire")
    PROVE  RevsOf(L, N, o) = {}
<1>1. o \in Objects /\ o \notin Tasks /\ N \in Nat /\ L \in Seq(Batch) /\ DOMAIN L = 1 .. N
  BY JsonlAssumption, LenProperties DEF Objects, LogOK
<1>2. PICK j \in 1 .. N : \E l \in DOMAIN L[j][o] : L[j][o][l].op = "retire"
  BY DEF Said
<1>3. PICK l \in DOMAIN L[j][o] : L[j][o][l].op = "retire"
  BY <1>2
<1>4. Orderly(L, o) /\ Shaped(o, L[j][o]) /\ j \in DOMAIN L
  BY <1>1, Shapes DEF LogOK
<1>5. /\ l = Len(L[j][o]) /\ DOMAIN L[j][o] = 1 .. Len(L[j][o]) /\ Len(L[j][o]) \in Nat
  BY <1>1, <1>3, <1>4, LogTypes DEF Shaped
<1>6. ASSUME NEW i \in 1 .. N, NEW k \in DOMAIN L[i][o] PROVE ~Kept(L, N, o, i, k)
  <2>1. SUFFICES ASSUME L[i][o][k].op # "retire" PROVE Follows(i, k, j, l)
    BY <1>3 DEF Kept, Replaces
  <2>2. ~(i > j)
    <3>1. ASSUME i > j PROVE FALSE
      <4>1. L[i][o] = <<>>
        BY <1>1, <1>3, <1>4, <3>1 DEF Orderly
      <4>. QED
        BY <4>1
    <3>. QED
      BY <3>1
  <2>3. i = j => k < l
    <3>1. ASSUME i = j PROVE k < l
      <4>1. k # l /\ k \in DOMAIN L[j][o]
        BY <1>3, <2>1, <3>1
      <4>. DEFINE last == Len(L[j][o])
      <4>2. k \in 1 .. last /\ l = last /\ last \in Nat
        BY <1>5, <4>1
      <4>. HIDE DEF last
      <4>. QED
        BY <4>1, <4>2
    <3>. QED
      BY <3>1
  <2>. QED
    BY <2>2, <2>3 DEF Follows
<1>7. \A r : r \notin RevsOf(L, N, o)
  <2>. HIDE DEF Kept, RevisionAt
  <2>. QED
    BY <1>6, RevsMembers
<1>. QED
  BY <1>7

\* The lines from the latest base on.
LEMMA RevsFrom ==
    ASSUME NEW c \in Seq(Rec), NEW b \in DOMAIN c, NEW d \in Seq(Rec), Len(d) = Len(c) - b + 1,
           \A j \in 1 .. Len(c) - b + 1 : d[j] = c[b + j - 1]
    PROVE  RevsIn(d) = {Revision(c[j]) : j \in {x \in DOMAIN c : b <= x}}
<1>. DEFINE m == Len(c)
            n == Len(d)
<1>1. DOMAIN c = 1 .. m /\ m \in Nat /\ DOMAIN d = 1 .. n /\ n \in Nat /\ n = m - b + 1
  BY LineTypes
<1>2. \A j \in 1 .. n : d[j] = c[b + j - 1]
  BY <1>1
<1>. HIDE DEF m, n
<1>3. ASSUME NEW r
      PROVE  r \in RevsIn(d) <=> r \in {Revision(c[j]) : j \in {x \in DOMAIN c : b <= x}}
  <2>. HIDE DEF Revision
  <2>1. ASSUME NEW j \in DOMAIN d PROVE \E x \in DOMAIN c : b <= x /\ d[j] = c[x]
    <3>1. b + j - 1 \in DOMAIN c /\ b <= b + j - 1
      BY <1>1
    <3>. QED
      BY <1>1, <1>2, <3>1
  <2>2. ASSUME NEW x \in DOMAIN c, b <= x PROVE \E j \in DOMAIN d : d[j] = c[x]
    <3>1. x - b + 1 \in 1 .. n /\ b + (x - b + 1) - 1 = x
      BY <1>1, <2>2
    <3>. QED
      BY <1>1, <1>2, <3>1
  <2>. QED
    BY <2>1, <2>2 DEF RevsIn
<1>. QED
  BY <1>3, SameElements

\* What recovery keeps of a sidecar is lean, and it rewrites every sidecar that is not.
LEMMA NeededLean ==
    ASSUME LogOK(log), MainOK, NEW o \in Objects,
           Sound(log, Len(log), o, Lines(o)), AllNamed(log, Len(log), o, Lines(o))
    PROVE  Lean(log, o, Needed(o)) /\ (Len(Needed(o)) < Len(Lines(o)) \/ Needed(o) = Lines(o))
<1>. DEFINE c == Lines(o)
            N == Len(log)
            ended == (o \in Tasks /\ EndsTerminal(o)) \/ (o \in Latest /\ Retired(o))
<1>1. /\ log \in Seq(Batch) /\ N \in Nat /\ c \in Seq(Rec)
      /\ DOMAIN c = 1 .. Len(c) /\ Len(c) \in Nat
  BY LineTypes, LenProperties DEF LogOK, Sound
<1>2. /\ Retired(o) <=> Said(log, N, o, "retire")
      /\ o \in Tasks => (EndsTerminal(o) <=> Said(log, N, o, "terminal"))
  BY EndIs
<1>3. /\ ConfirmedBases(o) = {j \in DOMAIN c : c[j].kind = "base" /\ NamedBy(log, N, o, c[j])}
      /\ \A j \in DOMAIN c : NamedBy(log, N, o, c[j])
  BY OptionalIs DEF AllNamed
<1>4. o \notin Tasks => o \in Latest \cup Rewindable
  BY DEF Objects
<1>5. /\ o \in Tasks => \A d : Lean(log, o, d) <=> (StateOf(log, N, o) = "terminal" => d = <<>>)
      /\ o \notin Tasks => \A d : Lean(log, o, d) <=> RevsIn(d) = RevsOf(log, N, o)
  BY DEF Lean, RevsIn
<1>. HIDE DEF Lean, StateOf, RevsOf, RevsIn, Said, NamedBy, Revision, Sound
<1>6. CASE ended
  <2>1. Needed(o) = <<>>
    BY <1>6 DEF Needed
  <2>2. Lean(log, o, <<>>)
    <3>1. CASE o \in Tasks
      BY <1>5, <3>1
    <3>2. CASE o \in Latest /\ Retired(o)
      <4>1. RevsOf(log, N, o) = {}
        BY <1>2, <3>2, RetiredNothing
      <4>2. o \notin Tasks
        BY <3>2, JsonlAssumption
      <4>. QED
        BY <1>5, <4>1, <4>2, NoLines
    <3>. QED
      BY <1>6, <3>1, <3>2
  <2>3. 0 < Len(c) \/ c = <<>>
    <3>1. c # <<>> => Len(c) \in Nat \ {0}
      BY <1>1, EmptySeq, Zenon
    <3>. QED
      BY <3>1
  <2>. QED
    BY <2>1, <2>2, <2>3
<1>7. CASE ~ended /\ o \in Latest /\ ConfirmedBases(o) # {}
  <2>. DEFINE T == ConfirmedBases(o)
              latest == CHOOSE j \in T : \A i \in T : i <= j
              d == SubSeq(c, latest, Len(c))
  <2>1. T \in SUBSET (1 .. Len(c)) /\ T # {}
    BY <1>1, <1>3, <1>7
  <2>2. latest \in T /\ \A i \in T : i <= latest
    <3>. HIDE DEF T
    <3>1. \E x \in T : \A y \in T : y <= x
      BY <1>1, <2>1, Largest
    <3>. QED
      BY <3>1
  <2>3. Needed(o) = d
    BY <1>7 DEF Needed
  <2>. HIDE DEF latest
  <2>4. latest \in DOMAIN c /\ c[latest].kind = "base" /\ latest \in Nat
    BY <1>1, <1>3, <2>2
  <2>5. /\ Sound(log, N, o, d) /\ Len(d) = Len(c) - latest + 1
        /\ \A j \in 1 .. Len(c) - latest + 1 : d[j] = c[latest + j - 1]
    BY <1>1, <1>7, <2>4, SoundFromBase
  <2>6. d \in Seq(Rec)
    BY <2>5 DEF Sound
  <2>7. {Revision(c[j]) : j \in {x \in DOMAIN c : latest <= x}} = RevsOf(log, N, o)
    <3>1. ~Said(log, N, o, "retire")
      BY <1>2, <1>7
    <3>2. \A j \in DOMAIN c : o \in Latest /\ c[j].kind = "base" => j <= latest
      BY <1>3, <2>2
    <3>3. \A j \in DOMAIN c : j < latest => o \in Latest /\ latest \in DOMAIN c /\ c[latest].kind = "base"
      BY <1>7, <2>4
    <3>. HIDE DEF c
    <3>4. Sound(log, N, o, c) /\ AllNamed(log, N, o, c) /\ o \in Latest \cup Rewindable
      BY <1>7 DEF c
    <3>. QED
      BY <2>4, <3>1, <3>2, <3>3, <3>4, LeanFrom
  <2>8. RevsIn(d) = {Revision(c[j]) : j \in {x \in DOMAIN c : latest <= x}}
    <3>. HIDE DEF c, d
    <3>. QED
      BY <1>1, <2>4, <2>5, <2>6, RevsFrom
  <2>9. Lean(log, o, d)
    <3>1. o \notin Tasks
      BY <1>7, JsonlAssumption
    <3>. HIDE DEF d, c
    <3>. QED
      BY <1>5, <2>7, <2>8, <3>1
  <2>10. Len(d) < Len(c) \/ d = c
    <3>1. CASE latest = 1
      BY <1>1, <3>1, SubSeqFull
    <3>2. CASE latest # 1
      <4>. DEFINE m == Len(c)
                  n == Len(d)
      <4>1. latest \in 1 .. m /\ m \in Nat /\ n = m - latest + 1
        BY <1>1, <2>4, <2>5
      <4>. HIDE DEF m, n
      <4>2. n < m
        BY <3>2, <4>1
      <4>. QED
        BY <4>2 DEF m, n
    <3>. QED
      BY <3>1, <3>2
  <2>. QED
    BY <2>3, <2>9, <2>10
<1>8. CASE ~ended /\ ~(o \in Latest /\ ConfirmedBases(o) # {})
  <2>1. Needed(o) = c
    BY <1>8 DEF Needed
  <2>2. CASE o \in Tasks
    <3>1. ~Said(log, N, o, "terminal")
      BY <1>2, <1>8, <2>2
    <3>2. StateOf(log, N, o) # "terminal"
      BY <3>1 DEF StateOf
    <3>. QED
      BY <1>5, <2>1, <2>2, <3>2
  <2>3. CASE o \notin Tasks
    <3>1. o \in Latest => ~Said(log, N, o, "retire")
      BY <1>2, <1>8
    <3>2. \A j \in DOMAIN c : ~(o \in Latest /\ c[j].kind = "base")
      BY <1>3, <1>8
    <3>3. \A j \in DOMAIN c : 0 <= j /\ ~(j < 0)
      BY <1>1
    <3>4. Sound(log, N, o, c) /\ AllNamed(log, N, o, c) /\ o \in Latest \cup Rewindable
      BY <1>4, <2>3
    <3>. HIDE DEF c
    <3>5. {Revision(c[j]) : j \in {x \in DOMAIN c : 0 <= x}} = RevsOf(log, N, o)
      BY <3>1, <3>2, <3>3, <3>4, LeanFrom
    <3>6. {x \in DOMAIN c : 0 <= x} = DOMAIN c
      BY <3>3
    <3>7. RevsIn(c) = RevsOf(log, N, o)
      BY <3>5, <3>6 DEF RevsIn
    <3>. QED
      BY <1>5, <2>1, <2>3, <3>7 DEF c
  <2>. QED
    BY <2>1, <2>2, <2>3
<1>. QED
  BY <1>6, <1>7, <1>8

\* What is under way goes on as it was meant to.
LEMMA AheadKept ==
    ASSUME StorageInv, LeanInv, Serving \/ ~Serving', LogAhead' = LogAhead,
           \A o \in Objects : Ahead(o)' = Ahead(o), budget' = budget, setting' = setting
    PROVE  LeanInv'
<1>. HIDE DEF Lean, Ahead, LogAhead, Serving
<1>1. SUFFICES ASSUME Serving', budget'["io"] = setting'.failures["io"], NEW o \in Objects
               PROVE  Lean(LogAhead', o, Ahead(o)')
  BY DEF LeanInv
<1>2. Lean(LogAhead, o, Ahead(o))
  BY <1>1 DEF LeanInv
<1>. QED
  BY <1>2

\* An error of input or output has happened once it is spent.
LEMMA ErrorSeen ==
    ASSUME StorageInv, Spend("io"), setting' = setting
    PROVE  budget'["io"] # setting'.failures["io"]
<1>1. budget["io"] \in Nat /\ budget["io"] <= setting.failures["io"] /\ setting.failures["io"] \in Nat
  BY JsonlAssumption DEF StorageInv, TypeOK, BudgetOK, Failures
<1>2. budget["io"] > 0 /\ budget'["io"] = budget["io"] - 1
  BY Spent DEF Failures
<1>. QED
  BY <1>1, <1>2

\* Nothing is served while the backend is closed or is being opened.
LEMMA NotServing ==
    ASSUME job.at \in {"down", "opening", "replay", "truncate", "corrupt"}
    PROVE  ~Serving
  BY DEF Serving

\* An empty store is lean.
LEMMA LeanInit ==
    ASSUME Init
    PROVE  LeanInv
<1>1. /\ job = NoJob /\ log = <<>> /\ \A o \in Objects : disk[o].lines = <<>>
  BY DEF Init, Empty, Files
<1>2. job.at = "idle" /\ Len(log) = 0
  BY <1>1, RestIs
<1>3. LogAhead = log /\ \A o \in Objects : Ahead(o) = <<>>
  BY <1>1, <1>2 DEF LogAhead, Ahead, Writing, Reclaiming, Lines
<1>4. ASSUME NEW o \in Objects PROVE Lean(log, o, <<>>)
  <2>1. Value(log, Len(log), o) = NoObject
    BY <1>2, NothingYet
  <2>2. RevsOf(log, Len(log), o) = {}
    <3>1. \A s, r, x : [st |-> s, revs |-> r] = [st |-> x, revs |-> {}] => r = {}
      <4>1. \A s, r : [st |-> s, revs |-> r].revs = r
        OBVIOUS
      <4>. QED
        BY <4>1, Zenon
    <3>. HIDE DEF RevsOf, StateOf
    <3>. QED
      BY <2>1, <3>1, Zenon DEF Value, NoObject
  <2>. HIDE DEF RevsOf
  <2>. QED
    BY <2>2, NoLines DEF Lean, RevsIn
<1>. HIDE DEF Lean, Ahead, LogAhead
<1>. QED
  BY <1>3, <1>4 DEF LeanInv

\* What a commit plans to leave of the sidecars is lean.
LEMMA CommitLean ==
    ASSUME StorageInv, JsonlAssumption, job.at = "idle", NEW b \in Batches, NEW att \in Nat,
           NEW w, w = Tagged(b, att), NEW o \in Objects, Lean(log, o, Lines(o))
    PROVE  IF o \in DOMAIN Plan(w, mem.next) THEN Lean(Append(log, w), o, Plan(w, mem.next)[o])
           ELSE Lean(Append(log, w), o, Lines(o) \o Records(w, o, mem.next))
<1>. DEFINE N == Len(log)
            next == Append(log, w)
            has(p, op) == \E k \in DOMAIN w[p] : w[p][k].op = op
            gone == {p \in Latest : has(p, "retire")}
                        \cup {p \in Tasks : has(p, "terminal") /\ mem.obj[p].st = "live"}
            shrunk == {p \in Latest \ gone :
                         \E k \in DOMAIN w[p] : w[p][k].op = "change" /\ w[p][k].kind = "base"}
            plan == Plan(w, mem.next)
<1>1. /\ log \in Seq(Batch) /\ mem.next = N + 1 /\ mem.obj[o].st = StateOf(log, N, o)
  BY DEF StorageInv, MemOK, Serving, LogOK, Value
<1>2. N \in Nat
  BY <1>1, LenProperties
<1>3. w \in Batch /\ LogOK(next)
  BY BatchFits
<1>4. Len(next) = N + 1 /\ next[N + 1] = w /\ \A i \in 1 .. N : next[i] = log[i]
  BY <1>1, <1>3, LogGrows
<1>5. plan = [p \in gone \cup shrunk |-> IF p \in gone THEN <<>> ELSE Records(w, p, N + 1)]
  BY <1>1 DEF Plan
<1>6. Shaped(o, w[o])
  <2>1. N + 1 \in 1 .. Len(next)
    BY <1>2, <1>4
  <2>. QED
    BY <1>3, <1>4, <2>1, Shapes
<1>7. /\ o \in gone <=> \/ o \in Latest /\ Writes(next, N + 1, o, "retire", "none")
                        \/ /\ o \in Tasks /\ Writes(next, N + 1, o, "terminal", "task")
                           /\ StateOf(log, N, o) = "live"
      /\ o \in shrunk <=> o \in Latest /\ o \notin gone /\ Writes(next, N + 1, o, "change", "base")
  <2>1. \A k \in DOMAIN w[o] :
          /\ o \in Tasks /\ w[o][k].op = "terminal" => w[o][k].kind = "task"
          /\ o \in Latest /\ w[o][k].op = "retire" => w[o][k].kind = "none"
    BY <1>6, JsonlAssumption DEF Shaped
  <2>2. \A op, kind : Writes(next, N + 1, o, op, kind) <=>
          \E k \in DOMAIN w[o] : w[o][k].op = op /\ w[o][k].kind = kind
    BY <1>4 DEF Writes
  <2>. HIDE DEF next
  <2>. QED
    BY <1>1, <2>1, <2>2, JsonlAssumption
<1>. HIDE DEF gone, shrunk, plan, next, Lean, Writes, N
<1>8. CASE o \in gone \cup shrunk
  <2>1. o \in DOMAIN plan /\ plan[o] = IF o \in gone THEN <<>> ELSE Records(w, o, N + 1)
    BY <1>5, <1>8
  <2>2. o \in Tasks \cup Latest
    BY <1>7, <1>8
  <2>3. /\ o \in Tasks => Lean(next, o, <<>>)
        /\ o \in Latest /\ Writes(next, N + 1, o, "retire", "none") => Lean(next, o, <<>>)
        /\ o \in Latest /\ ~Writes(next, N + 1, o, "retire", "none") /\ Writes(next, N + 1, o, "change", "base")
             => Lean(next, o, Records(next[N + 1], o, N + 1))
    BY <1>2, <1>3, <1>4, <2>2, LeanPlan
  <2>4. Lean(next, o, plan[o])
    <3>1. CASE o \in gone
      BY <1>7, <2>1, <2>3, <3>1
    <3>2. CASE o \notin gone
      BY <1>4, <1>7, <1>8, <2>1, <2>3, <3>2
    <3>. QED
      BY <3>1, <3>2
  <2>. QED
    BY <2>1, <2>4 DEF plan, next
<1>9. CASE o \notin gone \cup shrunk
  <2>1. o \notin DOMAIN plan
    BY <1>5, <1>9
  <2>2. /\ Lines(o) \in Seq(Rec) /\ AllNamed(log, N, o, Lines(o))
    <3>1. Sound(log, N, o, Lines(o))
      BY <1>1, Found, LengthsAre DEF StorageInv, FilesOK, N
    <3>2. AllNamed(log, N, o, Lines(o))
      BY DEF StorageInv, ReclaimingOK, Lines, N
    <3>. QED
      BY <3>1, <3>2 DEF Sound
  <2>3. Lean(next, o, Lines(o) \o Records(next[N + 1], o, N + 1))
    <3>. DEFINE c == Lines(o)
    <3>1. /\ o \in Latest => ~Writes(next, N + 1, o, "retire", "none") /\ ~Writes(next, N + 1, o, "change", "base")
          /\ o \in Tasks => (Writes(next, N + 1, o, "terminal", "task") => StateOf(log, N, o) # "live")
      BY <1>7, <1>9
    <3>2. Lean(log, o, c) /\ c \in Seq(Rec) /\ AllNamed(log, N, o, c) /\ Len(log) = N
      BY <2>2 DEF N
    <3>. HIDE DEF c, AllNamed, LogOK, StateOf
    <3>3. Lean(next, o, c \o Records(next[N + 1], o, N + 1))
      BY <1>2, <1>3, <1>4, <3>1, <3>2, LeanStep
    <3>. QED
      BY <3>3 DEF c
  <2>. QED
    BY <1>1, <1>4, <2>1, <2>3 DEF plan, next
<1>. QED
  BY <1>8, <1>9

\* A commit begins.
LEMMA CommitBeginLean ==
    ASSUME StorageInv, LeanInv, CommitBegin, setting' = setting
    PROVE  LeanInv'
<1>1. job.at = "idle" /\ attempts' \in Nat /\ UNCHANGED <<disk, risk, mem, log, budget>>
  BY DEF CommitBegin, StorageInv, TypeOK
<1>2. PICK b \in Batches :
         LET writes == Tagged(b, attempts')
             todo == Touched(writes, mem.next)
         IN  job' = [NoJob EXCEPT !.at = IF todo = {} THEN "marker" ELSE "append",
                                  !.writes = writes, !.todo = todo,
                                  !.plan = Plan(writes, mem.next)]
  BY DEF CommitBegin
<1>. DEFINE w == Tagged(b, attempts')
            todo == Touched(w, mem.next)
            plan == Plan(w, mem.next)
            at == IF todo = {} THEN "marker" ELSE "append"
<1>3. job' = [NoJob EXCEPT !.at = at, !.writes = w, !.todo = todo, !.plan = plan]
  BY <1>2
<1>4. /\ at \in {"marker", "append"} /\ (at = "marker" => todo = {})
      /\ \A o \in Objects : o \notin todo => Records(w, o, mem.next) = <<>>
  BY DEF Touched
<1>. HIDE DEF w, todo, plan, at
<1>5. job'.at = at /\ job'.writes = w /\ job'.todo = todo /\ job'.plan = plan
  BY <1>3, RestIs DEF Jobs
<1>6. SUFFICES ASSUME budget["io"] = setting.failures["io"], NEW o \in Objects
               PROVE  Lean(LogAhead', o, Ahead(o)')
  BY <1>1 DEF LeanInv
<1>7. Lean(log, o, Lines(o))
  <2>1. Serving /\ LogAhead = log /\ Ahead(o) = Lines(o)
    BY <1>1 DEF Serving, LogAhead, Ahead, Writing, Reclaiming
  <2>. HIDE DEF Lean, LogAhead, Ahead, Serving
  <2>2. Lean(LogAhead, o, Ahead(o))
    BY <1>6, <2>1 DEF LeanInv
  <2>. QED
    BY <2>1, <2>2
<1>8. IF o \in DOMAIN plan THEN Lean(Append(log, w), o, plan[o])
      ELSE Lean(Append(log, w), o, Lines(o) \o Records(w, o, mem.next))
  <2>. HIDE DEF Lean
  <2>. QED
    BY <1>1, <1>7, CommitLean, JsonlAssumption DEF w, plan
<1>9. LogAhead' = Append(log, w)
  BY <1>1, <1>4, <1>5 DEF LogAhead, Writing
<1>10. Ahead(o)' = IF o \in DOMAIN plan THEN plan[o]
                   ELSE IF o \in todo THEN Lines(o) \o Records(w, o, mem.next) ELSE Lines(o)
  BY <1>1, <1>4, <1>5 DEF Ahead, Writing, Reclaiming, Lines, Appended
<1>11. o \notin todo => Lines(o) \o Records(w, o, mem.next) = Lines(o)
  <2>1. Lines(o) \in Seq(Rec)
    BY Found, LengthsAre DEF Sound, StorageInv, FilesOK
  <2>2. \A c \in Seq(Rec) : c \o <<>> = c
    OBVIOUS
  <2>. QED
    BY <1>4, <2>1, <2>2
<1>. HIDE DEF Lean, LogAhead, Ahead
<1>. QED
  BY <1>8, <1>9, <1>10, <1>11

\* A sidecar is appended to, or flushed.
LEMMA WriteLean ==
    ASSUME StorageInv, LeanInv, NEW o \in Objects, AppendSidecar(o) \/ FlushSidecar(o), setting' = setting
    PROVE  LeanInv'
<1>1. StorageInv' /\ UNCHANGED <<mem, log, budget>> /\ job.at \in {"append", "flush"} /\ o \in job.todo
  BY AppendSidecarSafe, FlushSidecarSafe DEF AppendSidecar, FlushSidecar
<1>2. /\ job.todo \subseteq Objects /\ job \in Jobs
      /\ Touched(job.writes, mem.next) \in SUBSET Objects /\ DOMAIN disk = Files /\ o \in Files
  BY DEF StorageInv, TypeOK, Jobs, Touched, FilesOK, RiskOK, Files
<1>3. /\ job'.writes = job.writes /\ job'.plan = job.plan /\ job'.at \in {"append", "flush", "marker"}
      /\ job'.at = "append" => job.at = "append" /\ job'.todo = job.todo \ {o}
      /\ job.at = "append" /\ job'.at # "append" => job.todo \ {o} = {}
  <2>1. PICK at \in {"append", "flush", "marker"}, todo \in SUBSET Objects :
          /\ job' = [job EXCEPT !.at = at, !.todo = todo]
          /\ at = "append" => job.at = "append" /\ todo = job.todo \ {o}
          /\ job.at = "append" /\ at # "append" => job.todo \ {o} = {}
    <3>. DEFINE rest == job.todo \ {o}
                T == Touched(job.writes, mem.next)
    <3>1. /\ rest \in SUBSET Objects /\ T \in SUBSET Objects
          /\ \/ job.at = "append" /\ job' = Then(rest, "append", ToFlush)
             \/ job.at = "flush" /\ job' = Then(rest, "flush", ToMarker)
      BY <1>1, <1>2 DEF AppendSidecar, FlushSidecar
    <3>2. \/ job.at = "append" /\ job' = [job EXCEPT !.at = "append", !.todo = rest]
          \/ job.at = "flush" /\ job' = [job EXCEPT !.at = "flush", !.todo = rest]
          \/ (job.at = "append" => rest = {}) /\ job' = [job EXCEPT !.at = "flush", !.todo = T]
          \/ (job.at = "append" => rest = {}) /\ job' = [job EXCEPT !.at = "marker", !.todo = {}]
      BY <3>1 DEF Then, ToFlush, ToMarker
    <3>3. {} \in SUBSET Objects
      OBVIOUS
    <3>. HIDE DEF T
    <3>. QED
      BY <3>1, <3>2, <3>3
  <2>2. at \in Phases
    BY DEF Phases
  <2>3. job'.at = at /\ job'.todo = todo /\ job'.writes = job.writes /\ job'.plan = job.plan
    BY <2>1, <2>2, JobMoves
  <2>. QED
    BY <2>1, <2>3
<1>4. \A p \in Objects : job.at = "flush" \/ p # o => disk'[p] = disk[p]
  <2>1. CASE FlushSidecar(o)
    BY <2>1 DEF FlushSidecar
  <2>2. CASE AppendSidecar(o)
    <3>. DEFINE x == Holding(disk[o].lines \o Appended(o))
    <3>1. job.at = "append" /\ disk' = [disk EXCEPT ![o] = x]
      BY <2>2 DEF AppendSidecar, Shows
    <3>2. Objects \subseteq DOMAIN disk
      BY <1>2 DEF Files
    <3>. HIDE DEF x
    <3>. QED
      BY <3>1, <3>2
  <2>. QED
    BY <2>1, <2>2
<1>5. job.at = "append" => Lines(o)' = Lines(o) \o Appended(o)
  BY <1>2 DEF AppendSidecar, FlushSidecar, Shows, Holding, Lines
<1>6. \A p \in Objects : Appended(p)' = Appended(p)
  BY <1>1, <1>3 DEF Appended
<1>7. \A p \in Objects : Ahead(p)' = Ahead(p)
  <2>. SUFFICES ASSUME NEW p \in Objects, p \notin DOMAIN job.plan PROVE Ahead(p)' = Ahead(p)
    BY <1>1, <1>3 DEF Ahead, Writing
  <2>1. /\ Ahead(p) = IF job.at = "append" /\ p \in job.todo THEN Lines(p) \o Appended(p) ELSE Lines(p)
        /\ Ahead(p)' = IF job'.at = "append" /\ p \in job'.todo THEN Lines(p)' \o Appended(p)' ELSE Lines(p)'
    BY <1>1, <1>3 DEF Ahead, Writing, Reclaiming
  <2>2. CASE p = o
    BY <1>1, <1>3, <1>4, <1>5, <2>1, <2>2 DEF Lines
  <2>3. CASE p # o
    BY <1>3, <1>4, <1>6, <2>1, <2>3 DEF Lines
  <2>. QED
    BY <2>2, <2>3
<1>8. LogAhead' = LogAhead
  BY <1>1, <1>3 DEF LogAhead, Writing
<1>9. Serving
  BY <1>1 DEF Serving
<1>. HIDE DEF LeanInv, LogAhead, Ahead
<1>. QED
  BY <1>1, <1>7, <1>8, <1>9, AheadKept

\* The marker makes what was ahead of the log the log.
LEMMA PutMarkerLean ==
    ASSUME StorageInv, LeanInv, PutMarker, setting' = setting
    PROVE  LeanInv'
<1>1. /\ job.at = "marker" /\ log' = Append(log, job.writes) /\ job' = ToReclaim(job.plan) /\ budget' = budget
  BY DEF PutMarker
<1>2. /\ job'.todo = DOMAIN job.plan /\ job'.plan = job.plan
      /\ \/ job'.at = "idle" /\ DOMAIN job.plan = {}
         \/ job'.at \in {"authorize", "reclaim"}
  <2>1. job.plan \in Plans
    BY DEF StorageInv, TypeOK
  <2>. QED
    BY <1>1, <2>1, ReclaimStarts
<1>3. \A o \in Objects : disk'[o] = disk[o]
  <2>1. DOMAIN disk = Files
    BY DEF StorageInv, FilesOK, RiskOK
  <2>. QED
    BY <2>1, JsonlAssumption DEF PutMarker, Shows, Files
<1>4. LogAhead' = LogAhead
  BY <1>1, <1>2 DEF LogAhead, Writing
<1>5. \A o \in Objects : Ahead(o)' = Ahead(o)
  BY <1>1, <1>2, <1>3 DEF Ahead, Writing, Reclaiming, Lines
<1>6. Serving
  BY <1>1 DEF Serving
<1>. HIDE DEF LeanInv, LogAhead, Ahead
<1>. QED
  BY <1>1, <1>4, <1>5, <1>6, AheadKept

\* The main file is flushed, or a replacement takes its place.
LEMMA ReclaimLean ==
    ASSUME StorageInv, LeanInv, Authorize \/ \E o \in Objects : ReplaceSidecar(o), setting' = setting
    PROVE  LeanInv'
<1>1. /\ job.at \in {"authorize", "reclaim"} /\ UNCHANGED <<mem, log, budget>>
      /\ DOMAIN disk = Files /\ Objects \subseteq Files
  BY DEF Authorize, ReplaceSidecar, StorageInv, FilesOK, RiskOK, Files
<1>2. Serving /\ LogAhead = log
  BY <1>1 DEF Serving, LogAhead, Writing
<1>3. CASE Authorize
  <2>1. /\ job.at = "authorize" /\ job' = [job EXCEPT !.at = "reclaim"] /\ disk' = disk
    BY <1>3 DEF Authorize
  <2>2. job'.at = "reclaim" /\ job'.todo = job.todo /\ job'.plan = job.plan
    BY <2>1 DEF StorageInv, TypeOK
  <2>3. \A o \in Objects : Ahead(o)' = Ahead(o)
    BY <2>1, <2>2 DEF Ahead, Writing, Reclaiming, Lines
  <2>4. LogAhead' = log
    BY <1>1, <2>2 DEF LogAhead, Writing
  <2>. HIDE DEF LeanInv, LogAhead, Ahead
  <2>. QED
    BY <1>1, <1>2, <2>3, <2>4, AheadKept
<1>4. ASSUME NEW o \in Objects, ReplaceSidecar(o) PROVE LeanInv'
  <2>1. job.at = "reclaim" /\ o \in job.todo /\ Reclaimed(o)
    BY <1>4 DEF ReplaceSidecar
  <2>2. \/ job'.at = "reclaim" /\ job'.todo = job.todo \ {o} /\ job'.plan = job.plan
        \/ job'.at = "idle" /\ job.todo \ {o} = {}
    BY <2>1, ReclaimGoesOn
  <2>3. Lines(o)' = job.plan[o] /\ \A p \in Objects : p # o => Lines(p)' = Lines(p)
    BY <1>1, <1>4 DEF ReplaceSidecar, Shows, Holding, Lines
  <2>4. ASSUME NEW p \in Objects PROVE Ahead(p)' = Ahead(p)
    <3>1. Ahead(p) = IF p \in job.todo THEN job.plan[p] ELSE Lines(p)
      BY <2>1 DEF Ahead, Writing, Reclaiming
    <3>2. CASE job'.at = "reclaim"
      <4>1. Ahead(p)' = IF p \in job'.todo THEN job'.plan[p] ELSE Lines(p)'
        BY <3>2 DEF Ahead, Writing, Reclaiming
      <4>. QED
        BY <2>1, <2>2, <2>3, <3>1, <3>2, <4>1
    <3>3. CASE job'.at = "idle"
      <4>1. Ahead(p)' = Lines(p)'
        BY <3>3 DEF Ahead, Writing, Reclaiming
      <4>. QED
        BY <2>1, <2>2, <2>3, <3>1, <3>3, <4>1
    <3>. QED
      BY <2>2, <3>2, <3>3
  <2>5. LogAhead' = log
    BY <1>1, <2>2 DEF LogAhead, Writing
  <2>. HIDE DEF LeanInv, LogAhead, Ahead
  <2>. QED
    BY <1>1, <1>2, <2>4, <2>5, AheadKept
<1>. QED
  BY <1>3, <1>4

\* Opening ends with the plan to make lean what is not.
LEMMA OpenEndsLean ==
    ASSUME StorageInv, OpenEnds, setting' = setting
    PROVE  LeanInv'
<1>. DEFINE lean == {o \in Objects : Len(Needed(o)) < Len(Lines(o))}
            plan == [o \in lean |-> Needed(o)]
<1>1. /\ job.at = "truncate" /\ job.todo = {} /\ job' = ToReclaim(plan)
      /\ UNCHANGED <<disk, risk, mem, attempts, log, budget>>
  BY DEF OpenEnds
<1>2. \A o \in Objects : Lean(log, o, Needed(o)) /\ (o \notin lean => Needed(o) = Lines(o))
  <2>1. /\ LogOK(log) /\ MainOK /\ \A o \in Objects : Sound(log, Len(log), o, Lines(o))
    BY Found, LengthsAre DEF StorageInv, FilesOK
  <2>2. \A o \in Objects : AllNamed(log, Len(log), o, Lines(o))
    BY <1>1 DEF StorageInv, OpeningOK, Lines
  <2>. HIDE DEF AllNamed, Sound, LogOK, MainOK, Lean, Needed
  <2>3. \A o \in Objects : Lean(log, o, Needed(o)) /\ (Len(Needed(o)) < Len(Lines(o)) \/ Needed(o) = Lines(o))
    BY <2>1, <2>2, NeededLean
  <2>. QED
    BY <2>3
<1>3. DOMAIN plan = lean /\ \A o \in lean : plan[o] = Needed(o)
  OBVIOUS
<1>4. plan \in Plans
  <2>1. \A o \in Objects : Needed(o) \in Seq(Rec)
    <3>1. /\ LogOK(log) /\ MainOK /\ \A o \in Objects : Sound(log, Len(log), o, Lines(o))
      BY Found, LengthsAre DEF StorageInv, FilesOK
    <3>2. \A o \in Objects : AllNamed(log, Len(log), o, Lines(o))
      BY <1>1 DEF StorageInv, OpeningOK, Lines
    <3>. HIDE DEF AllNamed, Sound, LogOK, MainOK, Ready, Needed
    <3>. QED
      BY <3>1, <3>2, NeededReady
  <2>2. lean \in SUBSET Objects
    OBVIOUS
  <2>. HIDE DEF lean, Needed
  <2>3. plan \in [lean -> Seq(Rec)]
    BY <2>1, <2>2
  <2>. HIDE DEF plan
  <2>. QED
    BY <2>2, <2>3, Zenon DEF Plans
<1>. HIDE DEF plan, lean
<1>5. /\ job'.todo = lean /\ job'.plan = plan
      /\ \/ job'.at = "idle" /\ lean = {}
         \/ job'.at \in {"authorize", "reclaim"}
  BY <1>1, <1>3, <1>4, ReclaimStarts
<1>6. LogAhead' = log
  BY <1>1, <1>5 DEF LogAhead, Writing
<1>7. ASSUME NEW o \in Objects PROVE Ahead(o)' = Needed(o)
  <2>1. Ahead(o)' = IF Reclaiming' /\ o \in job'.todo THEN job'.plan[o] ELSE Lines(o)
    BY <1>1, <1>5 DEF Ahead, Writing, Reclaiming, Lines
  <2>2. o \in lean => Reclaiming'
    BY <1>5 DEF Reclaiming
  <2>. HIDE DEF Ahead, Reclaiming, Needed
  <2>. QED
    BY <1>2, <1>3, <1>5, <2>1, <2>2
<1>. HIDE DEF LogAhead, Ahead, Lean, Needed
<1>. QED
  BY <1>2, <1>6, <1>7 DEF LeanInv

\* Every step keeps it.
LEMMA LeanKept ==
    ASSUME StorageInv, LeanInv, [Next /\ UNCHANGED setting]_vars
    PROVE  LeanInv'
<1>1. CASE UNCHANGED vars
  <2>1. /\ LogAhead' = LogAhead /\ (Serving \/ ~Serving') /\ budget' = budget /\ setting' = setting
        /\ \A o \in Objects : Ahead(o)' = Ahead(o)
    BY <1>1 DEF vars, LogAhead, Ahead, Writing, Reclaiming, Lines, Appended, Serving
  <2>. HIDE DEF LeanInv, LogAhead, Ahead, Serving
  <2>. QED
    BY <2>1, AheadKept
<1>2. CASE CommitBegin /\ UNCHANGED setting
  BY <1>2, CommitBeginLean
<1>3. CASE PutMarker /\ UNCHANGED setting
  BY <1>3, PutMarkerLean
<1>4. ASSUME NEW o \in Objects, AppendSidecar(o) \/ FlushSidecar(o), UNCHANGED setting PROVE LeanInv'
  BY <1>4, WriteLean
<1>5. CASE (Authorize \/ \E o \in Objects : ReplaceSidecar(o)) /\ UNCHANGED setting
  BY <1>5, ReclaimLean
<1>6. CASE OpenEnds /\ UNCHANGED setting
  BY <1>6, OpenEndsLean
<1>7. CASE ReclaimFails /\ UNCHANGED setting
  <2>1. budget'["io"] # setting'.failures["io"]
    BY <1>7, ErrorSeen DEF ReclaimFails
  <2>. QED
    BY <2>1 DEF LeanInv
<1>8. CASE Poison \/ Crash \/ PowerFails \/ OpenFails
  <2>1. job'.at = "down"
    BY <1>8, RestIs DEF Poison, Crash, PowerFails, OpenFails, Dies
  <2>. QED
    BY <2>1 DEF LeanInv, Serving
<1>9. CASE OpenBegin \/ Decode \/ ReplayMarker \/ ReplayEnds
           \/ (\E f \in Files : TrimTorn(f)) \/ \E o \in Objects : TruncateTail(o)
  <2>1. job \in Jobs
    BY DEF StorageInv, TypeOK, Jobs
  <2>2. job'.at \in {"opening", "replay", "truncate", "corrupt"}
    <3>1. CASE OpenBegin
      BY <3>1, RestIs DEF OpenBegin, Jobs
    <3>2. CASE Decode
      BY <2>1, <3>2 DEF Decode, Jobs
    <3>3. CASE ReplayMarker
      <4>1. job' = [job EXCEPT !.pos = @ + 1] \/ job' = [job EXCEPT !.at = "corrupt"]
        BY <3>3 DEF ReplayMarker
      <4>2. job.at = "replay"
        BY <3>3 DEF ReplayMarker
      <4>. QED
        BY <2>1, <4>1, <4>2 DEF Jobs
    <3>4. CASE ReplayEnds
      <4>. DEFINE todo == {o \in Objects : Unnamed(o) # {}}
      <4>1. job' = [job EXCEPT !.at = "truncate", !.todo = todo, !.pos = 0]
        BY <3>4 DEF ReplayEnds
      <4>. HIDE DEF todo
      <4>. QED
        BY <2>1, <4>1 DEF Jobs
    <3>5. ASSUME NEW f \in Files, TrimTorn(f) PROVE job'.at = "opening"
      BY <3>5 DEF TrimTorn
    <3>6. ASSUME NEW o \in Objects, TruncateTail(o) PROVE job'.at \in {"truncate", "corrupt"}
      <4>1. job.at = "truncate" /\ (job' = [job EXCEPT !.todo = @ \ {o}] \/ job' = [job EXCEPT !.at = "corrupt"])
        BY <3>6 DEF TruncateTail
      <4>. QED
        BY <2>1, <4>1 DEF Jobs
    <3>. QED
      BY <1>9, <3>1, <3>2, <3>3, <3>4, <3>5, <3>6
  <2>. QED
    BY <2>2 DEF LeanInv, Serving
<1>. HIDE DEF LeanInv
<1>. QED
  BY <1>1, <1>2, <1>3, <1>4, <1>5, <1>6, <1>7, <1>8, <1>9 DEF Next

\* As long as no file operation has failed, the sidecars of a store at rest hold the
\* readable revisions of its documents and nothing else, those of finished tasks
\* nothing, also when a crash came between a marker and the reclamation it allows
\* (planReclamations() and recover() in storage/jsonl/storage.ts).
THEOREM SidecarsLean == Spec => []SidecarsStayLean
<1>1. Init => LeanInv
  BY LeanInit
<1>2. StorageInv /\ LeanInv /\ [Next /\ UNCHANGED setting]_vars => LeanInv'
  BY LeanKept
<1>3. StorageInv /\ LeanInv => SidecarsStayLean
  <2>. SUFFICES ASSUME StorageInv, LeanInv, job.at = "idle", budget["io"] = setting.failures["io"],
                       NEW o \in Objects
                PROVE  IF o \in Tasks THEN mem.obj[o].st = "terminal" => Lines(o) = <<>>
                       ELSE {Revision(Lines(o)[j]) : j \in DOMAIN Lines(o)} = mem.obj[o].revs
    BY DEF SidecarsStayLean
  <2>1. Serving /\ LogAhead = log /\ Ahead(o) = Lines(o)
    BY DEF Serving, LogAhead, Ahead, Writing, Reclaiming
  <2>2. Lean(log, o, Lines(o))
    <3>. HIDE DEF Lean, LogAhead, Ahead, Serving
    <3>1. Lean(LogAhead, o, Ahead(o))
      BY <2>1 DEF LeanInv
    <3>. QED
      BY <2>1, <3>1
  <2>3. mem.obj[o] = Value(log, Len(log), o)
    BY <2>1 DEF StorageInv, MemOK
  <2>4. mem.obj[o].st = StateOf(log, Len(log), o) /\ mem.obj[o].revs = RevsOf(log, Len(log), o)
    <3>1. \A s, r : [st |-> s, revs |-> r].st = s /\ [st |-> s, revs |-> r].revs = r
      OBVIOUS
    <3>. DEFINE s == StateOf(log, Len(log), o)
                r == RevsOf(log, Len(log), o)
    <3>2. mem.obj[o] = [st |-> s, revs |-> r]
      BY <2>3 DEF Value
    <3>. HIDE DEF s, r
    <3>3. mem.obj[o].st = s /\ mem.obj[o].revs = r
      BY <3>1, <3>2
    <3>. QED
      BY <3>3 DEF s, r
  <2>. QED
    BY <2>2, <2>4 DEF Lean
<1>. QED
  BY <1>1, <1>2, <1>3, StorageInductive, PTL DEF Spec
==============================================================================
