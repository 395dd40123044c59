--------------------------- MODULE ObservationProofs ---------------------------
(***************************************************************************)
(* Observation implements the stream its interface promises, for any       *)
(* number of readers, versions, commits and retained frames.  The          *)
(* invariant says that what a reader has and what it has yet to take lead, *)
(* value by value, to the latest one of its incarnation.                   *)
(***************************************************************************)
EXTENDS Observation, TLAPS

Value == [ver : Versions, gone : BOOLEAN]
Seen == [inc : Nat, n : Nat, ver : Versions \cup {0}, gone : BOOLEAN]
Frame == [value : Seen, exact : BOOLEAN]
Reasons == {"stopped", "cancelled", "session_closed", "retired", "listener_error"}
Reader ==
    [at : {"none", "attached", "live"}, shown : Seen, observed : Versions \cup {0},
     pending : Seq(Frame), started : BOOLEAN, scheduled : BOOLEAN, running : BOOLEAN,
     owner : {"there", "stopped", "cancelled"}, end : Reasons \cup {"none"}]

LogType(l) ==
    /\ l \in Seq(Seq(Value)) /\ Len(l) > 0
    /\ \A i \in DOMAIN l : Len(l[i]) > 0

TypeOK ==
    /\ LogType(log) /\ stored \in Versions /\ closing \in BOOLEAN
    /\ reader \in [Readers -> Reader]

\* A reader has a value committed in the log l, in the version it has asked for.
Has(l, v) ==
    /\ v.inc \in DOMAIN l /\ v.n \in DOMAIN l[v.inc]
    /\ v.gone = l[v.inc][v.n].gone /\ v.ver \in Versions

\* A frame has one as it was committed.
Published(l, v) == Has(l, v) /\ v.ver = l[v.inc][v.n].ver

\* The value a reader will have when it has taken everything.
Newest(o) == IF o.pending = <<>> THEN o.shown ELSE o.pending[Len(o.pending)].value

\* What is pending follows what the reader has, or is a replacement for a watch that
\* is too far behind; operations fit the value they change.
Following(l, r, o) ==
    /\ \A k \in DOMAIN o.pending :
          /\ Published(l, o.pending[k].value)
          /\ o.pending[k].value.inc = o.shown.inc
          /\ o.pending[k].value.n = o.pending[1].value.n + (k - 1)
          /\ o.pending[k].exact => o.pending[k].value.ver = Before(o, k).ver
    /\ o.pending # <<>> =>
          \/ o.pending[1].value.n = o.shown.n + 1
          \/ /\ r \in Watches /\ ~o.pending[1].exact
             /\ o.pending[1].value.n > o.shown.n + MaxPending

\* It leads to the latest value, and the source knows the version of that one.
UpToDate(l, o) ==
    /\ Newest(o).n = Len(l[o.shown.inc])
    /\ ~Newest(o).gone => o.observed = Newest(o).ver

Sound(l, r, o) ==
    /\ o.at = "none" => o = NoReader
    /\ o.at # "none" => Has(l, o.shown)
    /\ o.at # "none" /\ o.end = "none" => Following(l, r, o) /\ UpToDate(l, o)
    /\ o.scheduled => o.end = "none" /\ (r \in States => o.pending # <<>>)

ObservationInv == TypeOK /\ \A r \in Readers : Sound(log, r, reader[r])

------------------------------------------------------------------------------
(* The log *)

\* The log m has all that l has.
Longer(l, m) ==
    \A i \in DOMAIN l :
        /\ i \in DOMAIN m
        /\ \A n \in DOMAIN l[i] : n \in DOMAIN m[i] /\ m[i][n] = l[i][n]

\* The log l with one more value of its latest incarnation.
With(l, v) == [l EXCEPT ![Len(l)] = Append(@, v)]

\* Value n of the log, for a reader that has s.
Later(s, l, n) ==
    [s EXCEPT !.n = n, !.ver = l[s.inc][n].ver, !.gone = l[s.inc][n].gone]

\* A value is published behind the others of the latest incarnation.
LEMMA PublishedLog ==
    ASSUME NEW l, LogType(l), NEW v \in Value,
           NEW m, m = With(l, v)
    PROVE  /\ LogType(m) /\ Longer(l, m) /\ Len(m) = Len(l) /\ DOMAIN m = DOMAIN l
           /\ Len(l) \in DOMAIN l
           /\ \A i \in DOMAIN l : i # Len(l) => m[i] = l[i]
           /\ Len(m[Len(l)]) = Len(l[Len(l)]) + 1
           /\ Len(m[Len(l)]) \in DOMAIN m[Len(l)]
           /\ m[Len(l)][Len(l[Len(l)]) + 1] = v
<1>. DEFINE old == l[Len(l)]
            new == Append(old, v)
<1>1. l \in Seq(Seq(Value)) /\ Len(l) \in DOMAIN l /\ old \in Seq(Value)
  BY DEF LogType
<1>2. /\ new \in Seq(Value) /\ Len(new) = Len(old) + 1 /\ new[Len(old) + 1] = v
      /\ Len(old) \in Nat /\ DOMAIN new = 1..Len(new)
      /\ \A n \in DOMAIN old : n \in DOMAIN new /\ new[n] = old[n]
  <2>. HIDE DEF old
  <2>. QED
    BY <1>1
<1>3. m = [l EXCEPT ![Len(l)] = new]
  BY DEF With
<1>. HIDE DEF new
<1>4. /\ DOMAIN m = DOMAIN l /\ m[Len(l)] = new
      /\ \A i \in DOMAIN l : i # Len(l) => m[i] = l[i]
  BY <1>1, <1>3
<1>5. m \in Seq(Seq(Value)) /\ Len(m) = Len(l)
  BY <1>1, <1>2, <1>3
<1>6. LogType(m)
  BY <1>1, <1>2, <1>4, <1>5 DEF LogType
<1>7. Longer(l, m)
  BY <1>1, <1>2, <1>4 DEF Longer
<1>. QED
  BY <1>1, <1>2, <1>4, <1>5, <1>6, <1>7

\* A new incarnation is put behind the others.
LEMMA RecreatedLog ==
    ASSUME NEW l, LogType(l), NEW v \in Value, NEW m, m = Append(l, <<v>>)
    PROVE  /\ LogType(m) /\ Longer(l, m)
           /\ \A i \in DOMAIN l : m[i] = l[i]
<1>. DEFINE first == <<v>>
<1>1. first \in Seq(Value) /\ Len(first) = 1
  OBVIOUS
<1>2. l \in Seq(Seq(Value))
  BY DEF LogType
<1>3. m = Append(l, first)
  OBVIOUS
<1>. HIDE DEF first
<1>4. /\ m \in Seq(Seq(Value)) /\ Len(m) = Len(l) + 1 /\ m[Len(l) + 1] = first
      /\ DOMAIN m = 1..(Len(l) + 1) /\ DOMAIN l = 1..Len(l) /\ Len(l) \in Nat
      /\ \A i \in DOMAIN l : m[i] = l[i]
  BY <1>1, <1>2, <1>3
<1>5. ASSUME NEW i \in DOMAIN m PROVE Len(m[i]) > 0
  <2>1. CASE i \in DOMAIN l
    BY <1>4, <2>1 DEF LogType
  <2>2. CASE i = Len(l) + 1
    BY <1>1, <1>4, <2>2
  <2>. QED
    BY <1>4, <2>1, <2>2
<1>6. LogType(m)
  BY <1>4, <1>5 DEF LogType
<1>7. Longer(l, m)
  BY <1>4 DEF Longer
<1>. QED
  BY <1>4, <1>6, <1>7

\* What was committed stays.
LEMMA HasKept ==
    ASSUME NEW l, NEW m, Longer(l, m), NEW v
    PROVE  /\ Has(l, v) => Has(m, v)
           /\ Published(l, v) => Published(m, v)
BY DEF Has, Published, Longer

\* Readers that have ended, or read an incarnation nothing was added to, are as they were.
LEMMA SoundElsewhere ==
    ASSUME NEW l, NEW m, Longer(l, m), NEW r, NEW o, Sound(l, r, o),
           o.at # "none" /\ o.end = "none" => Len(m[o.shown.inc]) = Len(l[o.shown.inc])
    PROVE  Sound(m, r, o)
<1>1. Following(l, r, o) => Following(m, r, o)
  BY HasKept DEF Following
<1>2. o.at # "none" /\ o.end = "none" /\ UpToDate(l, o) => UpToDate(m, o)
  BY DEF UpToDate
<1>. QED
  BY <1>1, <1>2, HasKept DEF Sound

------------------------------------------------------------------------------
(* Readers *)

\* A reader that is not attached yet.
LEMMA BlankReader == NoReader \in Reader
<1>1. <<>> \in Seq(Frame)
  OBVIOUS
<1>2. Absent \in Seen
  BY DEF Absent, Seen
<1>. QED
  BY <1>1, <1>2 DEF NoReader, Reader

\* Absence is told from any value.
LEMMA AbsentIsNone ==
    ASSUME NEW l, LogType(l), NEW r, NEW o \in Reader, Sound(l, r, o)
    PROVE  o.at = "none" <=> o.shown = Absent
<1>1. o.at = "none" => o.shown = Absent
  BY DEF Sound, NoReader
<1>2. o.at # "none" => o.shown.inc > 0
  BY DEF Sound, Has, LogType
<1>. QED
  BY <1>1, <1>2 DEF Absent

\* The first reason to end wins, and a reader that has ended is owed nothing.
LEMMA TerminatedSound ==
    ASSUME NEW l, NEW r, NEW o \in Reader, NEW reason \in Reasons,
           o.at # "none", Has(l, o.shown), o.end # "none" => ~o.scheduled
    PROVE  /\ Terminated(o, reason) \in Reader /\ Sound(l, r, Terminated(o, reason))
           /\ Terminated(o, reason).shown = o.shown /\ Terminated(o, reason).at = o.at
           /\ Terminated(o, reason).end = IF o.end = "none" THEN reason ELSE o.end
           /\ ~Terminated(o, reason).scheduled
<1>1. CASE o.end # "none"
  BY <1>1 DEF Terminated, Sound
<1>2. CASE o.end = "none"
  <2>. DEFINE p == [NoReader EXCEPT !.at = o.at, !.shown = o.shown, !.running = o.running, !.end = reason]
  <2>1. /\ p = Terminated(o, reason) /\ p.at = o.at /\ p.shown = o.shown /\ p.end = reason
        /\ ~p.scheduled
    BY <1>2 DEF Terminated, NoReader, Reasons
  <2>2. p \in Reader
    <3>1. o.at \in {"none", "attached", "live"} /\ o.shown \in Seen /\ o.running \in BOOLEAN
      BY DEF Reader
    <3>. QED
      BY <3>1, BlankReader DEF Reader
  <2>. HIDE DEF p
  <2>3. Sound(l, r, p)
    BY <2>1 DEF Sound, Reasons
  <2>. QED
    BY <1>2, <2>1, <2>2, <2>3
<1>. QED
  BY <1>1, <1>2

\* The newest value of a reader is the latest one, and there are as many frames to it.
LEMMA NewestValue ==
    ASSUME NEW l, LogType(l), NEW r, NEW o \in Reader, Sound(l, r, o), o.at # "none", o.end = "none"
    PROVE  /\ Has(l, Newest(o)) /\ Newest(o).inc = o.shown.inc
           /\ Newest(o).n = Len(l[o.shown.inc]) /\ Newest(o).n \in Nat
           /\ Newest(o).n >= o.shown.n + Len(o.pending)
<1>1. Following(l, r, o) /\ UpToDate(l, o) /\ Has(l, o.shown)
  BY DEF Sound
<1>2. o.pending \in Seq(Frame) /\ o.shown.n \in Nat
  BY DEF Reader, Seen
<1>0. Len(l[o.shown.inc]) \in Nat
  <2>1. l \in Seq(Seq(Value)) /\ o.shown.inc \in DOMAIN l
    BY <1>1 DEF LogType, Has
  <2>2. l[o.shown.inc] \in Seq(Value)
    BY <2>1
  <2>. QED
    BY <2>2
<1>3. CASE o.pending = <<>>
  BY <1>0, <1>1, <1>2, <1>3 DEF Newest, UpToDate
<1>4. CASE o.pending # <<>>
  <2>1. Len(o.pending) \in DOMAIN o.pending /\ 1 \in DOMAIN o.pending /\ Len(o.pending) \in Nat
    BY <1>2, <1>4
  <2>2. Newest(o) = o.pending[Len(o.pending)].value
    BY <1>4 DEF Newest
  <2>3. Has(l, Newest(o)) /\ Newest(o).inc = o.shown.inc
    BY <1>1, <2>1, <2>2 DEF Following, Published
  <2>4. Newest(o).n = o.pending[1].value.n + (Len(o.pending) - 1)
    BY <1>1, <2>1, <2>2 DEF Following
  <2>5. o.pending[1].value.n >= o.shown.n + 1 /\ o.pending[1].value.n \in Nat
    <3>1. o.pending[1] \in Frame
      BY <1>2, <2>1
    <3>. QED
      BY <1>1, <1>2, <1>4, <3>1, ObservationAssumption DEF Following, Frame, Seen
  <2>6. Newest(o).n >= o.shown.n + Len(o.pending)
    BY <1>2, <2>1, <2>4, <2>5
  <2>7. Newest(o).n = Len(l[o.shown.inc])
    BY <1>1 DEF UpToDate
  <2>. QED
    BY <1>0, <2>3, <2>6, <2>7
<1>. QED
  BY <1>3, <1>4

\* A frame more.
LEMMA FrameAppended ==
    ASSUME NEW q \in Seq(Frame), NEW f \in Frame
    PROVE  LET p == Append(q, f) IN
           /\ p \in Seq(Frame) /\ p # <<>> /\ Len(p) = Len(q) + 1 /\ DOMAIN p = 1..(Len(q) + 1)
           /\ DOMAIN q = 1..Len(q) /\ Len(q) \in Nat /\ p[Len(q) + 1] = f
           /\ \A k \in DOMAIN q : p[k] = q[k]
OBVIOUS

\* The frame of a commit follows what is pending.
LEMMA AppendedFollows ==
    ASSUME NEW l, LogType(l), NEW m, Longer(l, m), NEW r, NEW o \in Reader, Sound(l, r, o),
           o.at # "none", o.end = "none",
           Len(m[o.shown.inc]) = Len(l[o.shown.inc]) + 1,
           NEW f \in Frame, Published(m, f.value), f.value.inc = o.shown.inc,
           f.value.n = Len(m[o.shown.inc]), f.exact => f.value.ver = Newest(o).ver,
           NEW p \in Reader, p.shown = o.shown, p.pending = Append(o.pending, f),
           ~f.value.gone => p.observed = f.value.ver
    PROVE  Following(m, r, p) /\ UpToDate(m, p)
<1>. DEFINE q == o.pending
<1>1. Following(l, r, o) /\ UpToDate(l, o) /\ q \in Seq(Frame)
  BY DEF Sound, Reader
<1>2. /\ p.pending \in Seq(Frame) /\ p.pending # <<>> /\ Len(p.pending) = Len(q) + 1
      /\ DOMAIN p.pending = 1..(Len(q) + 1) /\ DOMAIN q = 1..Len(q) /\ Len(q) \in Nat
      /\ p.pending[Len(q) + 1] = f /\ \A k \in DOMAIN q : p.pending[k] = q[k]
  BY <1>1, FrameAppended
<1>3. f.value.n = Newest(o).n + 1 /\ Newest(o).n \in Nat
  BY NewestValue
<1>4. q = <<>> => Len(q) = 0 /\ Newest(o) = o.shown
  BY DEF Newest
<1>5. q # <<>> => /\ Len(q) \in DOMAIN q /\ 1 \in DOMAIN q /\ Newest(o) = q[Len(q)].value
                  /\ Newest(o).n = q[1].value.n + (Len(q) - 1) /\ q[1].value.n \in Nat
  <2>. SUFFICES ASSUME q # <<>> PROVE /\ Len(q) \in DOMAIN q /\ 1 \in DOMAIN q /\ Newest(o) = q[Len(q)].value
                  /\ Newest(o).n = q[1].value.n + (Len(q) - 1) /\ q[1].value.n \in Nat
    OBVIOUS
  <2>1. Len(q) \in DOMAIN q /\ 1 \in DOMAIN q /\ Newest(o) = q[Len(q)].value
    BY <1>1 DEF Newest
  <2>2. q[1] \in Frame
    BY <1>1, <2>1
  <2>. QED
    BY <1>1, <2>1, <2>2 DEF Following, Frame, Seen
<1>6. p.pending[1].value.n \in Nat /\ f.value.n = p.pending[1].value.n + Len(q)
  <2>1. CASE q = <<>>
    <3>1. Len(q) = 0 /\ p.pending[1] = f /\ f.value.n \in Nat
      BY <1>2, <1>3, <1>4, <2>1
    <3>2. p.pending[1].value.n = f.value.n
      BY <3>1
    <3>. HIDE DEF q
    <3>. QED
      BY <3>1, <3>2
  <2>2. CASE q # <<>>
    <3>1. p.pending[1] = q[1]
      BY <1>2, <1>5, <2>2
    <3>2. q[1].value.n \in Nat /\ Newest(o).n = q[1].value.n + (Len(q) - 1) /\ Len(q) \in Nat
      BY <1>2, <1>5, <2>2
    <3>3. f.value.n = Newest(o).n + 1
      BY <1>3
    <3>4. p.pending[1].value.n = q[1].value.n
      BY <3>1
    <3>5. ASSUME NEW a \in Nat, NEW b \in Nat, NEW c, c = a + (b - 1), NEW d, d = c + 1
          PROVE  d = a + b
      BY <3>5
    <3>6. f.value.n = q[1].value.n + Len(q)
      BY <3>2, <3>3, <3>5
    <3>. QED
      BY <3>2, <3>4, <3>6
  <2>. QED
    BY <2>1, <2>2
<1>7. Before(p, Len(q) + 1) = Newest(o)
  BY <1>2, <1>4, <1>5 DEF Before
<1>8. ASSUME NEW k \in DOMAIN q PROVE Before(p, k) = Before(o, k)
  BY <1>2, <1>8 DEF Before
<1>9. ASSUME NEW k \in DOMAIN p.pending
      PROVE  /\ Published(m, p.pending[k].value)
             /\ p.pending[k].value.inc = p.shown.inc
             /\ p.pending[k].value.n = p.pending[1].value.n + (k - 1)
             /\ p.pending[k].exact => p.pending[k].value.ver = Before(p, k).ver
  <2>1. CASE k \in DOMAIN q
    <3>1. p.pending[k] = q[k] /\ p.pending[1] = q[1]
      BY <1>2, <2>1
    <3>. QED
      BY <1>1, <1>8, <2>1, <3>1, HasKept DEF Following
  <2>2. CASE k = Len(q) + 1
    BY <1>2, <1>6, <1>7, <2>2
  <2>. QED
    BY <1>2, <2>1, <2>2
<1>10. \/ p.pending[1].value.n = p.shown.n + 1
       \/ /\ r \in Watches /\ ~p.pending[1].exact
          /\ p.pending[1].value.n > p.shown.n + MaxPending
  <2>1. CASE q = <<>>
    BY <1>2, <1>3, <1>4, <2>1
  <2>2. CASE q # <<>>
    <3>1. p.pending[1] = q[1]
      BY <1>2, <1>5, <2>2
    <3>. QED
      BY <1>1, <2>2, <3>1 DEF Following
  <2>. QED
    BY <2>1, <2>2
<1>11. Following(m, r, p)
  BY <1>9, <1>10 DEF Following
<1>12. UpToDate(m, p)
  <2>1. Newest(p) = f.value
    BY <1>2 DEF Newest
  <2>. QED
    BY <2>1 DEF UpToDate
<1>. QED
  BY <1>11, <1>12

\* A replacement follows from anywhere, when a watch is that far behind.
LEMMA ReplacementFollows ==
    ASSUME NEW l, LogType(l), NEW m, Longer(l, m), NEW r \in Watches, NEW o \in Reader, Sound(l, r, o),
           o.at # "none", o.end = "none", Len(o.pending) >= MaxPending,
           Len(m[o.shown.inc]) = Len(l[o.shown.inc]) + 1,
           NEW f \in Frame, Published(m, f.value), f.value.inc = o.shown.inc,
           f.value.n = Len(m[o.shown.inc]), ~f.exact,
           NEW p \in Reader, p.shown = o.shown, p.pending = <<f>>,
           ~f.value.gone => p.observed = f.value.ver
    PROVE  Following(m, r, p) /\ UpToDate(m, p)
<1>1. /\ p.pending # <<>> /\ Len(p.pending) = 1 /\ DOMAIN p.pending = {1} /\ p.pending[1] = f
  OBVIOUS
<1>2. f.value.n = Newest(o).n + 1 /\ Newest(o).n >= o.shown.n + Len(o.pending) /\ Newest(o).n \in Nat
  BY NewestValue
<1>3. o.shown.n \in Nat /\ Len(o.pending) \in Nat /\ f.value.n \in Nat /\ MaxPending \in Nat
  BY ObservationAssumption DEF Reader, Seen, Frame
<1>4. f.value.n > o.shown.n + MaxPending
  BY <1>2, <1>3
<1>5. Following(m, r, p)
  BY <1>1, <1>3, <1>4 DEF Following
<1>6. UpToDate(m, p)
  BY <1>1 DEF UpToDate, Newest
<1>. QED
  BY <1>5, <1>6

\* A commit reaches every reader of its incarnation.
LEMMA AdvancedSound ==
    ASSUME NEW l, LogType(l), NEW m, Longer(l, m), NEW r \in Readers, NEW o \in Reader, Sound(l, r, o),
           o.at # "none", o.end = "none",
           Len(m[o.shown.inc]) = Len(l[o.shown.inc]) + 1,
           ~l[o.shown.inc][Len(l[o.shown.inc])].gone,
           NEW v \in Seen, Published(m, v), v.inc = o.shown.inc, v.n = Len(m[o.shown.inc])
    PROVE  /\ Advanced(r, o, v) \in Reader /\ Sound(m, r, Advanced(r, o, v))
           /\ Advanced(r, o, v).shown = o.shown /\ Advanced(r, o, v).end = o.end
<1>. DEFINE frame == [value |-> v, exact |-> Exact(o, v)]
            over == [frame EXCEPT !.exact = FALSE]
            full == r \in Watches /\ Len(o.pending) >= MaxPending
            observed == IF v.gone THEN o.observed ELSE v.ver
            pending == IF full THEN <<over>> ELSE Append(o.pending, frame)
            p == [o EXCEPT !.observed = observed, !.pending = pending]
<1>1. Advanced(r, o, v) = Scheduled(p)
  BY DEF Advanced, Overflow
<1>2. o.pending \in Seq(Frame) /\ o.observed \in Versions \cup {0} /\ v.ver \in Versions
  BY DEF Reader, Published, Has
<1>3. /\ frame \in Frame /\ frame.value = v /\ frame.exact = Exact(o, v)
      /\ over \in Frame /\ over.value = v /\ ~over.exact
  BY DEF Frame, Exact, Seen
<1>4. frame.exact => v.ver = Newest(o).ver
  <2>1. ~Newest(o).gone
    BY NewestValue DEF Has
  <2>. QED
    BY <1>3, <2>1 DEF Exact, Sound, UpToDate
<1>. HIDE DEF frame, over
<1>5. observed \in Versions \cup {0} /\ pending \in Seq(Frame) /\ pending # <<>>
  BY <1>2, <1>3
<1>6. /\ p \in Reader /\ p.shown = o.shown /\ p.at = o.at /\ p.end = o.end /\ p.pending = pending
      /\ p.observed = observed
  <2>. HIDE DEF observed, pending
  <2>. QED
    BY <1>5 DEF Reader
<1>. HIDE DEF p
<1>7. Following(m, r, p) /\ UpToDate(m, p)
  <2>1. ~v.gone => p.observed = v.ver
    BY <1>6
  <2>2. CASE full
    BY <1>3, <1>6, <2>1, <2>2, ReplacementFollows
  <2>3. CASE ~full
    BY <1>3, <1>4, <1>6, <2>1, <2>3, AppendedFollows
  <2>. QED
    BY <2>2, <2>3
<1>8. Has(m, o.shown) /\ o.shown = p.shown
  BY <1>6, HasKept DEF Sound
<1>9. ASSUME NEW x \in BOOLEAN, NEW s, s = [p EXCEPT !.scheduled = x]
      PROVE  s \in Reader /\ Sound(m, r, s) /\ s.shown = o.shown /\ s.end = o.end
  <2>1. /\ s \in Reader /\ s.at = p.at /\ s.shown = p.shown /\ s.end = p.end /\ s.pending = p.pending
        /\ s.observed = p.observed
    BY <1>6, <1>9 DEF Reader
  <2>2. Following(m, r, s) /\ UpToDate(m, s)
    BY <1>7, <2>1 DEF Following, UpToDate, Newest, Before
  <2>. QED
    BY <1>5, <1>6, <1>8, <2>1, <2>2 DEF Sound
<1>10. p = [p EXCEPT !.scheduled = p.scheduled] /\ p.scheduled \in BOOLEAN
  BY <1>6 DEF Reader
<1>11. Scheduled(p) = p \/ Scheduled(p) = [p EXCEPT !.scheduled = TRUE]
  BY DEF Scheduled
<1>. QED
  BY <1>1, <1>9, <1>10, <1>11

------------------------------------------------------------------------------
(* What a reader is shown *)

\* A later value of the incarnation, as the contract says it.
LEMMA ShownAs ==
    ASSUME NEW l, LogType(l), NEW s \in Seen, NEW v \in Seen, Published(l, v), v.inc = s.inc, v.n > s.n
    PROVE  /\ v.n \in s.n + 1 .. Len(l[s.inc])
           /\ v = Later(s, l, v.n)
<1>1. l \in Seq(Seq(Value)) /\ s.inc \in DOMAIN l /\ v.n \in DOMAIN l[s.inc] /\ v.n \in Nat /\ s.n \in Nat
  BY DEF LogType, Published, Has, Seen
<1>2. l[s.inc] \in Seq(Value)
  BY <1>1
<1>3. v.n \in s.n + 1 .. Len(l[s.inc])
  BY <1>1, <1>2
<1>4. v = [inc |-> v.inc, n |-> v.n, ver |-> v.ver, gone |-> v.gone]
      /\ [s EXCEPT !.n = v.n, !.ver = v.ver, !.gone = v.gone]
         = [inc |-> s.inc, n |-> v.n, ver |-> v.ver, gone |-> v.gone]
  BY DEF Seen
<1>5. v.ver = l[s.inc][v.n].ver /\ v.gone = l[s.inc][v.n].gone
  BY DEF Published, Has
<1>. QED
  BY <1>3, <1>4, <1>5 DEF Later

\* The next frame fits, and brings the reader to its value.
LEMMA FirstFits ==
    ASSUME NEW l, LogType(l), NEW r, NEW o \in Reader, Sound(l, r, o), o.at # "none", o.end = "none",
           o.pending # <<>>
    PROVE  /\ 1 \in DOMAIN o.pending /\ o.pending[1] \in Frame /\ Head(o.pending) = o.pending[1]
           /\ Replayed(o.shown, o.pending[1]) = o.pending[1].value
           /\ Published(l, o.pending[1].value) /\ o.pending[1].value.inc = o.shown.inc
           /\ o.pending[1].value.n > o.shown.n
           /\ \/ o.pending[1].value.n = o.shown.n + 1
              \/ r \in Watches /\ o.pending[1].value.n > o.shown.n + MaxPending
<1>1. o.pending \in Seq(Frame) /\ o.shown.n \in Nat
  BY DEF Reader, Seen
<1>2. 1 \in DOMAIN o.pending /\ o.pending[1] \in Frame /\ Head(o.pending) = o.pending[1]
  BY <1>1
<1>3. Following(l, r, o)
  BY DEF Sound
<1>4. /\ Published(l, o.pending[1].value) /\ o.pending[1].value.inc = o.shown.inc
      /\ o.pending[1].exact => o.pending[1].value.ver = o.shown.ver
  BY <1>2, <1>3 DEF Following, Before
<1>5. \/ o.pending[1].value.n = o.shown.n + 1
      \/ r \in Watches /\ ~o.pending[1].exact /\ o.pending[1].value.n > o.shown.n + MaxPending
  BY <1>3 DEF Following
<1>6. o.pending[1].value.n \in Nat /\ MaxPending \in Nat
  BY <1>2, ObservationAssumption DEF Frame, Seen
<1>7. Replayed(o.shown, o.pending[1]) = o.pending[1].value
  BY <1>4, <1>5 DEF Replayed
<1>8. o.pending[1].value.n > o.shown.n
  BY <1>1, <1>5, <1>6
<1>. QED
  BY <1>2, <1>4, <1>5, <1>7, <1>8

\* What is left of a sequence of frames.
LEMMA TailFrames ==
    ASSUME NEW q \in Seq(Frame), q # <<>>
    PROVE  /\ Tail(q) \in Seq(Frame) /\ Len(Tail(q)) = Len(q) - 1
           /\ DOMAIN Tail(q) = 1..(Len(q) - 1)
           /\ \A k \in DOMAIN Tail(q) : Tail(q)[k] = q[k + 1]
<1>1. Tail(q) \in Seq(Frame) /\ Len(Tail(q)) = Len(q) - 1 /\ DOMAIN Tail(q) = 1..(Len(q) - 1)
  OBVIOUS
<1>2. \A k \in 1..(Len(q) - 1) : Tail(q)[k] = q[k + 1]
  OBVIOUS
<1>. QED
  BY <1>1, <1>2

\* The other frames follow from there.
LEMMA OthersFollow ==
    ASSUME NEW l, LogType(l), NEW r, NEW o \in Reader, Sound(l, r, o), o.at # "none", o.end = "none",
           o.pending # <<>>, NEW p \in Reader, p.shown = o.pending[1].value, p.observed = o.observed,
           DOMAIN p.pending = 1..(Len(o.pending) - 1), Len(p.pending) = Len(o.pending) - 1,
           \A k \in DOMAIN p.pending : p.pending[k] = o.pending[k + 1]
    PROVE  Following(l, r, p) /\ UpToDate(l, p)
<1>. DEFINE q == o.pending
            s == p.pending
<1>1. /\ Following(l, r, o) /\ UpToDate(l, o) /\ q \in Seq(Frame) /\ q # <<>>
      /\ DOMAIN q = 1..Len(q) /\ Len(q) \in Nat /\ s \in Seq(Frame) /\ Len(q) # 0
  BY DEF Sound, Reader
<1>2. /\ 1 \in DOMAIN q /\ p.shown = q[1].value /\ q[1].value.inc = o.shown.inc
  BY FirstFits
<1>3. \A k \in DOMAIN q : /\ Published(l, q[k].value) /\ q[k].value.inc = o.shown.inc
                          /\ q[k].value.n = q[1].value.n + (k - 1) /\ q[k].value.n \in Nat
                          /\ q[k].exact => q[k].value.ver = Before(o, k).ver
  <2>1. \A k \in DOMAIN q : q[k] \in Frame
    BY <1>1
  <2>. QED
    BY <1>1, <2>1 DEF Following, Frame, Seen
<1>4. Newest(o) = q[Len(q)].value
  BY <1>1 DEF Newest
<1>5. DOMAIN s = 1..(Len(q) - 1) /\ \A k \in DOMAIN s : k + 1 \in DOMAIN q /\ s[k] = q[k + 1]
  BY <1>1
<1>. HIDE DEF q, s
<1>6. ASSUME NEW k \in DOMAIN s
      PROVE  /\ Published(l, s[k].value) /\ s[k].value.inc = p.shown.inc
             /\ s[k].value.n = s[1].value.n + (k - 1)
             /\ s[k].exact => s[k].value.ver = Before(p, k).ver
  <2>1. k + 1 \in DOMAIN q /\ s[k] = q[k + 1] /\ k \in Nat /\ k # 0
    BY <1>1, <1>5
  <2>2. 1 \in DOMAIN s /\ 2 \in DOMAIN q /\ s[1] = q[2]
    <3>1. 1 \in DOMAIN s
      BY <1>1, <1>5
    <3>2. 1 + 1 \in DOMAIN q /\ s[1] = q[1 + 1]
      BY <1>5, <3>1
    <3>. QED
      BY <3>1, <3>2
  <2>3. q[k + 1].value.n = q[1].value.n + k /\ q[2].value.n = q[1].value.n + 1 /\ q[1].value.n \in Nat
    BY <1>2, <1>3, <2>1, <2>2
  <2>4. s[k].value.n = s[1].value.n + (k - 1)
    <3>1. s[k].value.n = q[k + 1].value.n /\ s[1].value.n = q[2].value.n
      BY <2>1, <2>2
    <3>2. ASSUME NEW a \in Nat, NEW b \in Nat PROVE a + b = (a + 1) + (b - 1)
      OBVIOUS
    <3>3. q[1].value.n + k = (q[1].value.n + 1) + (k - 1)
      BY <2>1, <2>3, <3>2
    <3>. QED
      BY <2>3, <3>1, <3>3
  <2>5. Before(p, k) = Before(o, k + 1)
    <3>0. PICK j : j = k + 1
      OBVIOUS
    <3>3. j # 1 /\ j - 1 = k
      BY <2>1, <3>0
    <3>4. Before(o, j) = q[k].value
      BY <3>3 DEF Before, q
    <3>1. CASE k = 1
      BY <1>2, <3>0, <3>1, <3>4 DEF Before
    <3>2. CASE k # 1
      <4>1. k - 1 \in DOMAIN s /\ k - 1 + 1 = k
        BY <1>1, <1>5, <2>1, <3>2
      <4>2. s[k - 1] = q[k]
        BY <1>5, <4>1
      <4>. QED
        BY <3>0, <3>2, <3>4, <4>2 DEF Before, s
    <3>. QED
      BY <3>1, <3>2
  <2>. QED
    BY <1>2, <1>3, <2>1, <2>4, <2>5
<1>7. s # <<>> => s[1].value.n = p.shown.n + 1
  <2>. SUFFICES ASSUME s # <<>> PROVE s[1].value.n = p.shown.n + 1
    OBVIOUS
  <2>1. 1 \in DOMAIN s
    BY <1>1
  <2>2. s[1] = q[2] /\ 2 \in DOMAIN q
    BY <1>5, <2>1
  <2>. QED
    BY <1>2, <1>3, <2>2
<1>8. Following(l, r, p)
  BY <1>6, <1>7 DEF Following, s
<1>9. Newest(p) = Newest(o)
  <2>1. CASE s = <<>>
    <3>1. Len(q) = 1
      BY <1>1, <2>1 DEF q, s
    <3>. QED
      BY <1>2, <1>4, <2>1, <3>1 DEF Newest, s
  <2>2. CASE s # <<>>
    <3>1. Len(s) \in DOMAIN s /\ Len(s) = Len(q) - 1
      BY <1>1, <2>2 DEF q, s
    <3>2. s[Len(s)] = q[Len(q)]
      BY <1>1, <1>5, <3>1
    <3>. QED
      BY <1>4, <2>2, <3>2 DEF Newest, s
  <2>. QED
    BY <2>1, <2>2
<1>10. UpToDate(l, p)
  BY <1>1, <1>2, <1>9 DEF UpToDate
<1>. QED
  BY <1>8, <1>10

\* Nothing is pending for one who has just been given the latest value.
LEMMA RestFollows ==
    ASSUME NEW l, NEW r, NEW p, p.pending = <<>>
    PROVE  Following(l, r, p) /\ Newest(p) = p.shown
BY DEF Following, Newest

\* A state takes frames without a gap: it has the value of the last one.
LEMMA TakenValue ==
    ASSUME NEW l, LogType(l), NEW r \in States, NEW o \in Reader, Sound(l, r, o), o.at # "none",
           o.end = "none", NEW k \in DOMAIN o.pending
    PROVE  /\ Taken(o, k) \in Reader
           /\ Taken(o, k).shown = o.pending[k].value /\ Taken(o, k).pending = <<>>
           /\ Taken(o, k).at = o.at /\ Taken(o, k).end = o.end
           /\ Taken(o, k).scheduled = o.scheduled /\ Taken(o, k).observed = o.observed
           /\ Published(l, o.pending[k].value) /\ o.pending[k].value \in Seen
           /\ o.pending[k].value.inc = o.shown.inc /\ o.pending[k].value.n > o.shown.n
<1>. DEFINE q == o.pending
<1>1. /\ Following(l, r, o) /\ q \in Seq(Frame) /\ o.shown \in Seen /\ q # <<>>
      /\ DOMAIN q = 1..Len(q) /\ Len(q) \in Nat
  BY DEF Sound, Reader
<1>2. q[1].value.n = o.shown.n + 1 /\ o.shown.n \in Nat
  BY <1>1, ObservationAssumption DEF Following, Seen
<1>3. \A i \in DOMAIN q : /\ q[i] \in Frame /\ Published(l, q[i].value) /\ q[i].value.inc = o.shown.inc
                          /\ q[i].value.n = q[1].value.n + (i - 1)
                          /\ q[i].exact => q[i].value.ver = Before(o, i).ver
  BY <1>1 DEF Following
<1>. HIDE DEF q
<1>4. \A i \in DOMAIN q : q[i].value.n = o.shown.n + i
  BY <1>1, <1>2, <1>3
<1>5. \A i \in DOMAIN q : q[i].value.n = Before(o, i).n + 1
  <2>. SUFFICES ASSUME NEW i \in DOMAIN q PROVE q[i].value.n = Before(o, i).n + 1
    OBVIOUS
  <2>1. CASE i = 1
    BY <1>2, <2>1 DEF Before
  <2>2. CASE i # 1
    <3>1. i - 1 \in DOMAIN q /\ i \in Nat
      BY <1>1, <2>2
    <3>2. Before(o, i).n = o.shown.n + (i - 1)
      BY <1>4, <2>2, <3>1 DEF Before, q
    <3>. QED
      BY <1>2, <1>4, <3>1, <3>2
  <2>. QED
    BY <2>1, <2>2
<1>6. \A i \in DOMAIN q : q[i].value # Broken /\ Replayed(Before(o, i), q[i]) = q[i].value
  <2>1. \A i \in DOMAIN q : q[i].value.inc # 0
    BY <1>3 DEF Published, Has, LogType
  <2>. QED
    BY <1>3, <1>5, <2>1 DEF Replayed, Broken, Absent
<1>7. 1..k \subseteq DOMAIN q /\ k \in DOMAIN q /\ k \in Nat /\ k > 0
  BY <1>1 DEF q
<1>8. Taken(o, k) = [o EXCEPT !.shown = q[k].value, !.pending = <<>>]
  BY <1>5, <1>6, <1>7 DEF Taken, q
<1>9. q[k].value \in Seen /\ <<>> \in Seq(Frame)
  BY <1>3, <1>7 DEF Frame
<1>10. /\ Taken(o, k) \in Reader /\ Taken(o, k).shown = q[k].value /\ Taken(o, k).pending = <<>>
       /\ Taken(o, k).at = o.at /\ Taken(o, k).end = o.end
       /\ Taken(o, k).scheduled = o.scheduled /\ Taken(o, k).observed = o.observed
  BY <1>8, <1>9 DEF Reader
<1>11. q[k].value.n > o.shown.n
  BY <1>2, <1>4, <1>7
<1>. QED
  BY <1>3, <1>7, <1>9, <1>10, <1>11 DEF q

------------------------------------------------------------------------------
(* What a step does to a reader *)

\* Nothing the contract speaks of.
Quiet(o, p) == p.shown = o.shown /\ p.end = o.end

\* It is given the latest value.
Opens(o, p) ==
    /\ o.shown = Absent /\ ~Retired /\ p.end = o.end
    /\ \E v \in Versions : p.shown = [inc |-> Len(log), n |-> Len(Latest), ver |-> v, gone |-> FALSE]

\* It is shown a later one, and may leave.
Sees(r, o, p) ==
    /\ o.shown # Absent /\ o.end = "none" /\ p.end \in {"none", "stopped"}
    /\ Published(log, p.shown) /\ p.shown \in Seen
    /\ p.shown.inc = o.shown.inc /\ p.shown.n > o.shown.n
    /\ r \in Watches => p.shown.n = o.shown.n + 1 \/ p.shown.n > o.shown.n + MaxPending

\* It ends.
Leaves(o, p) ==
    /\ o.shown # Absent /\ o.end = "none" /\ p.shown = o.shown
    /\ p.end \in Reasons /\ (p.end = "retired" => o.shown.gone)

Moves(r, o, p) == Quiet(o, p) \/ Opens(o, p) \/ Sees(r, o, p) \/ Leaves(o, p)

Becomes(r, p) ==
    Sets(r, p) /\ p \in Reader /\ Sound(log, r, p) /\ Moves(r, reader[r], p)

\* A reader that ends, for a reason that fits.
LEMMA TerminatedMoves ==
    ASSUME ObservationInv, NEW r \in Readers, NEW o \in Reader, Sound(log, r, o), o.at # "none",
           NEW reason \in Reasons, reason = "retired" => o.shown.gone
    PROVE  /\ Terminated(o, reason) \in Reader /\ Sound(log, r, Terminated(o, reason))
           /\ Moves(r, o, Terminated(o, reason))
           /\ Terminated(o, reason).at = o.at /\ ~Terminated(o, reason).scheduled
           /\ Terminated(o, reason).end # "none"
<1>1. Has(log, o.shown) /\ (o.end # "none" => ~o.scheduled) /\ o.shown # Absent
  BY AbsentIsNone DEF Sound, ObservationInv, TypeOK
<1>2. /\ Terminated(o, reason) \in Reader /\ Sound(log, r, Terminated(o, reason))
      /\ Terminated(o, reason).shown = o.shown /\ Terminated(o, reason).at = o.at
      /\ Terminated(o, reason).end = IF o.end = "none" THEN reason ELSE o.end
      /\ ~Terminated(o, reason).scheduled
  BY <1>1, TerminatedSound
<1>. QED
  BY <1>1, <1>2 DEF Moves, Quiet, Leaves, Reasons

\* Flags of a reader that the contract does not speak of.
LEMMA FlagsSound ==
    ASSUME NEW r \in Readers, NEW o \in Reader, Sound(log, r, o), o.at # "none", NEW p \in Reader,
           p.at # "none", p.shown = o.shown, p.pending = o.pending, p.observed = o.observed,
           p.end = o.end, p.scheduled => o.scheduled \/ (p.end = "none" /\ p.pending # <<>>)
    PROVE  Sound(log, r, p) /\ Moves(r, o, p)
<1>1. Following(log, r, o) /\ UpToDate(log, o) => Following(log, r, p) /\ UpToDate(log, p)
  BY DEF Following, UpToDate, Newest, Before
<1>. QED
  BY <1>1 DEF Sound, Moves, Quiet

\* A watch takes a frame.
LEMMA DeliverSound ==
    ASSUME ObservationInv, NEW r \in Watches, NEW o \in Reader, Sound(log, r, o), o.at # "none"
    PROVE  Deliver(o) \in Reader /\ Sound(log, r, Deliver(o)) /\ Moves(r, o, Deliver(o))
<1>. r \in Readers /\ r \notin States
  BY ObservationAssumption DEF Readers
<1>. LogType(log)
  BY DEF ObservationInv, TypeOK
<1>1. CASE o.end # "none" \/ o.pending = <<>>
  <2>. DEFINE p == [o EXCEPT !.running = FALSE]
  <2>1. /\ p \in Reader /\ p.at = o.at /\ p.shown = o.shown /\ p.pending = o.pending
        /\ p.observed = o.observed /\ p.end = o.end /\ p.scheduled = o.scheduled
    BY DEF Reader
  <2>2. Deliver(o) = p
    BY <1>1 DEF Deliver
  <2>. HIDE DEF p
  <2>. QED
    BY <2>1, <2>2, FlagsSound
<1>2. CASE o.end = "none" /\ o.pending # <<>>
  <2>. DEFINE v == o.pending[1].value
              rest == Tail(o.pending)
              p == [o EXCEPT !.running = TRUE, !.pending = rest, !.shown = v]
  <2>1. /\ 1 \in DOMAIN o.pending /\ o.pending[1] \in Frame /\ Head(o.pending) = o.pending[1]
        /\ Replayed(o.shown, o.pending[1]) = v
        /\ Published(log, v) /\ v.inc = o.shown.inc /\ v.n > o.shown.n
        /\ v.n = o.shown.n + 1 \/ v.n > o.shown.n + MaxPending
    BY <1>2, FirstFits
  <2>2. Deliver(o) = p
    BY <1>2, <2>1 DEF Deliver
  <2>3. v \in Seen
    BY <2>1 DEF Frame
  <2>4. /\ rest \in Seq(Frame) /\ Len(rest) = Len(o.pending) - 1
        /\ DOMAIN rest = 1..(Len(o.pending) - 1)
        /\ \A k \in DOMAIN rest : rest[k] = o.pending[k + 1]
    BY <1>2, TailFrames DEF Reader
  <2>. HIDE DEF v, rest
  <2>5. /\ p \in Reader /\ p.at = o.at /\ p.shown = v /\ p.pending = rest /\ p.observed = o.observed
        /\ p.end = o.end /\ p.scheduled = o.scheduled
    BY <2>3, <2>4 DEF Reader
  <2>. HIDE DEF p
  <2>6. Following(log, r, p) /\ UpToDate(log, p)
    BY <1>2, <2>4, <2>5, OthersFollow DEF v
  <2>7. Sound(log, r, p)
    BY <2>1, <2>5, <2>6 DEF Sound, Published
  <2>8. o.shown # Absent
    BY AbsentIsNone
  <2>9. Sees(r, o, p)
    BY <1>2, <2>1, <2>3, <2>5, <2>8 DEF Sees
  <2>. QED
    BY <2>2, <2>5, <2>7, <2>9 DEF Moves
<1>. QED
  BY <1>1, <1>2

\* A state takes frames.
LEMMA TakenSound ==
    ASSUME ObservationInv, NEW r \in States, NEW o \in Reader, Sound(log, r, o), o.at # "none",
           o.end = "none", ~o.scheduled, NEW k \in DOMAIN o.pending
    PROVE  /\ Taken(o, k) \in Reader /\ Has(log, Taken(o, k).shown) /\ Sees(r, o, Taken(o, k))
           /\ Taken(o, k).at = o.at /\ Taken(o, k).end = "none" /\ ~Taken(o, k).scheduled
           /\ k = Len(o.pending) => Sound(log, r, Taken(o, k))
<1>. LogType(log)
  BY DEF ObservationInv, TypeOK
<1>. DEFINE v == o.pending[k].value
            p == Taken(o, k)
<1>1. /\ p \in Reader /\ p.shown = v /\ p.pending = <<>> /\ p.at = o.at /\ p.end = o.end
      /\ p.scheduled = o.scheduled /\ p.observed = o.observed
      /\ Published(log, v) /\ v \in Seen /\ v.inc = o.shown.inc /\ v.n > o.shown.n
  BY TakenValue
<1>2. v = Newest(o) \/ k # Len(o.pending)
  BY DEF Newest
<1>. HIDE DEF v, p
<1>3. o.shown # Absent /\ r \notin Watches
  BY AbsentIsNone, ObservationAssumption
<1>4. Sees(r, o, p) /\ Has(log, p.shown)
  BY <1>1, <1>3 DEF Sees, Published
<1>5. ASSUME k = Len(o.pending) PROVE Sound(log, r, p)
  <2>1. UpToDate(log, o)
    BY DEF Sound
  <2>2. Following(log, r, p) /\ Newest(p) = p.shown
    BY <1>1, RestFollows
  <2>3. UpToDate(log, p)
    BY <1>1, <1>2, <1>5, <2>1, <2>2 DEF UpToDate
  <2>. QED
    BY <1>1, <1>4, <2>2, <2>3 DEF Sound
<1>. QED
  BY <1>1, <1>4, <1>5 DEF p

\* A commit, or the end of the Session: readers are told, and shown nothing yet.
Unseen == \A r \in Readers : reader'[r].shown = reader[r].shown /\ reader'[r].end = reader[r].end

\* A new reader has the latest value.
LEMMA AttachStep ==
    ASSUME ObservationInv, NEW r \in Readers, NEW v \in Versions, NEW owner \in {"there", "stopped"},
           Attach(r, v, owner)
    PROVE  \E p : Becomes(r, p)
<1>. DEFINE o == reader[r]
            value == [inc |-> Len(log), n |-> Len(Latest), ver |-> v, gone |-> FALSE]
            at == IF r \in States THEN "live" ELSE "attached"
            started == r \in States
            p == [o EXCEPT !.at = at, !.started = started, !.shown = value, !.observed = v, !.owner = owner]
<1>0. LogType(log) /\ o \in Reader /\ Sound(log, r, o) /\ o.at = "none"
  BY DEF ObservationInv, TypeOK, Attach
<1>1. /\ Len(log) \in DOMAIN log /\ Latest = log[Len(log)] /\ Latest \in Seq(Value)
      /\ Len(Latest) \in DOMAIN Latest /\ Len(log) \in Nat /\ Len(Latest) \in Nat
  BY <1>0 DEF LogType, Latest, Last
<1>2. Latest[Len(Latest)].gone = FALSE /\ ~Retired
  <2>1. Latest[Len(Latest)] \in Value
    BY <1>1
  <2>. QED
    BY <1>1, <2>1 DEF Attach, Retired, Last, Value
<1>3. o = NoReader /\ o.shown = Absent /\ o.pending = <<>> /\ ~o.scheduled /\ o.end = "none"
  BY <1>0 DEF Sound, NoReader
<1>4. value \in Seen /\ Has(log, value)
  BY <1>1, <1>2 DEF Seen, Has
<1>5. value.inc = Len(log) /\ value.n = Len(log[Len(log)]) /\ value.ver = v
  BY <1>1
<1>6. Sets(r, p)
  BY DEF Attach
<1>. HIDE DEF value
<1>7. at \in {"live", "attached"} /\ started \in BOOLEAN
  OBVIOUS
<1>. HIDE DEF at, started
<1>8. /\ p \in Reader /\ p.at # "none" /\ p.shown = value /\ p.pending = <<>> /\ p.observed = v
      /\ ~p.scheduled /\ p.end = "none"
  BY <1>0, <1>3, <1>4, <1>7 DEF Reader
<1>. HIDE DEF p
<1>9. Following(log, r, p) /\ UpToDate(log, p)
  <2>1. Following(log, r, p) /\ Newest(p) = value
    BY <1>8, RestFollows
  <2>. QED
    BY <1>5, <1>8, <2>1 DEF UpToDate
<1>10. Sound(log, r, p)
  BY <1>4, <1>8, <1>9 DEF Sound
<1>11. Opens(o, p)
  BY <1>2, <1>3, <1>8 DEF Opens, value
<1>. QED
  BY <1>6, <1>8, <1>10, <1>11 DEF Becomes, Moves

\* A watch is handed over, and ended if its owner has gone.
LEMMA HandOverStep ==
    ASSUME ObservationInv, NEW r \in Readers, HandOver(r)
    PROVE  \E p : Becomes(r, p)
<1>. DEFINE o == reader[r]
            w == Owned(o)
            p == [w EXCEPT !.at = "live"]
<1>1. o \in Reader /\ Sound(log, r, o) /\ o.at # "none" /\ Sets(r, p)
  BY DEF ObservationInv, TypeOK, HandOver
<1>2. w \in Reader /\ Sound(log, r, w) /\ Moves(r, o, w) /\ w.at # "none"
  <2>1. CASE o.owner = "there"
    BY <1>1, <2>1 DEF Owned, Moves, Quiet
  <2>2. CASE o.owner # "there"
    <3>1. o.owner \in Reasons /\ o.owner # "retired" /\ w = Terminated(o, o.owner)
      BY <1>1, <2>2 DEF Reader, Reasons, Owned
    <3>. QED
      BY <1>1, <3>1, TerminatedMoves
  <2>. QED
    BY <2>1, <2>2
<1>. HIDE DEF w
<1>3. /\ p \in Reader /\ p.at # "none" /\ p.shown = w.shown /\ p.pending = w.pending
      /\ p.observed = w.observed /\ p.end = w.end /\ p.scheduled = w.scheduled
  BY <1>2 DEF Reader
<1>. HIDE DEF p
<1>4. Sound(log, r, p) /\ Moves(r, o, p)
  <2>1. Sound(log, r, p)
    BY <1>2, <1>3, FlagsSound
  <2>2. Moves(r, o, p)
    BY <1>2, <1>3 DEF Moves, Quiet, Opens, Sees, Leaves
  <2>. QED
    BY <2>1, <2>2
<1>. QED
  BY <1>1, <1>3, <1>4 DEF Becomes

\* An owner leaves: at once, or once it gets the watch.
LEMMA OwnerStep ==
    ASSUME ObservationInv, NEW r \in Readers, NEW how \in {"stopped", "cancelled"}, OwnerLeaves(r, how)
    PROVE  \E p : Becomes(r, p)
<1>. DEFINE o == reader[r]
            w == [o EXCEPT !.owner = how]
<1>1. o \in Reader /\ Sound(log, r, o) /\ o.at # "none"
      /\ Sets(r, IF w.at = "live" THEN Terminated(w, how) ELSE w)
  BY DEF ObservationInv, TypeOK, OwnerLeaves
<1>2. /\ w \in Reader /\ w.at = o.at /\ w.shown = o.shown /\ w.pending = o.pending
      /\ w.observed = o.observed /\ w.end = o.end /\ w.scheduled = o.scheduled
  BY <1>1 DEF Reader
<1>. HIDE DEF w
<1>3. Sound(log, r, w) /\ Moves(r, o, w)
  BY <1>1, <1>2, FlagsSound
<1>4. CASE w.at = "live"
  <2>1. how \in Reasons /\ how # "retired"
    BY DEF Reasons
  <2>2. /\ Terminated(w, how) \in Reader /\ Sound(log, r, Terminated(w, how))
        /\ Moves(r, w, Terminated(w, how))
    BY <1>1, <1>2, <1>3, <2>1, TerminatedMoves
  <2>3. Moves(r, o, Terminated(w, how))
    BY <1>2, <2>2 DEF Moves, Quiet, Opens, Sees, Leaves
  <2>. QED
    BY <1>1, <1>4, <2>2, <2>3 DEF Becomes
<1>5. CASE w.at # "live"
  BY <1>1, <1>2, <1>3, <1>5 DEF Becomes
<1>. QED
  BY <1>4, <1>5

\* A watch starts, and has what is pending delivered.
LEMMA StartStep ==
    ASSUME ObservationInv, NEW r \in Readers, Start(r)
    PROVE  \E p : Becomes(r, p)
<1>. DEFINE o == reader[r]
            w == [o EXCEPT !.started = TRUE]
            p == IF w.pending = <<>> THEN w ELSE Scheduled(w)
<1>1. o \in Reader /\ Sound(log, r, o) /\ o.at # "none" /\ o.end = "none" /\ Sets(r, p)
  BY DEF ObservationInv, TypeOK, Start
<1>2. /\ w \in Reader /\ w.at = o.at /\ w.shown = o.shown /\ w.pending = o.pending
      /\ w.observed = o.observed /\ w.end = o.end /\ w.scheduled = o.scheduled
  BY <1>1 DEF Reader
<1>. HIDE DEF w
<1>3. p = w \/ (p = [w EXCEPT !.scheduled = TRUE] /\ w.pending # <<>>)
  BY DEF Scheduled
<1>. HIDE DEF p
<1>4. /\ p \in Reader /\ p.at = o.at /\ p.shown = o.shown /\ p.pending = o.pending
      /\ p.observed = o.observed /\ p.end = o.end
      /\ p.scheduled => o.scheduled \/ (p.end = "none" /\ p.pending # <<>>)
  BY <1>1, <1>2, <1>3 DEF Reader
<1>5. Sound(log, r, p) /\ Moves(r, o, p)
  BY <1>1, <1>4, FlagsSound
<1>. QED
  BY <1>1, <1>4, <1>5 DEF Becomes

\* The microtask of a reader has begun.
LEMMA TurnSound ==
    ASSUME NEW r \in Readers, NEW o \in Reader, Sound(log, r, o), o.at # "none",
           NEW w, w = [o EXCEPT !.scheduled = FALSE]
    PROVE  /\ w \in Reader /\ Sound(log, r, w) /\ Moves(r, o, w) /\ ~w.scheduled
           /\ w.at = o.at /\ w.shown = o.shown /\ w.end = o.end /\ w.pending = o.pending
<1>1. /\ w \in Reader /\ w.at = o.at /\ w.shown = o.shown /\ w.pending = o.pending
      /\ w.observed = o.observed /\ w.end = o.end /\ ~w.scheduled
  BY DEF Reader
<1>. QED
  BY <1>1, FlagsSound

\* A watch takes its turn.
LEMMA WatchStep ==
    ASSUME ObservationInv, NEW r \in Readers, WatchTurn(r)
    PROVE  \E p : Becomes(r, p)
<1>. DEFINE o == reader[r]
            w == [o EXCEPT !.scheduled = FALSE]
            p == IF w.running THEN w ELSE Deliver(w)
<1>1. o \in Reader /\ Sound(log, r, o) /\ o.scheduled /\ Sets(r, p) /\ r \in Watches
  BY DEF ObservationInv, TypeOK, WatchTurn
<1>2. o.at # "none"
  BY <1>1 DEF Sound, NoReader
<1>3. /\ w \in Reader /\ Sound(log, r, w) /\ Moves(r, o, w) /\ ~w.scheduled
      /\ w.at = o.at /\ w.shown = o.shown /\ w.end = o.end
  BY <1>1, <1>2, TurnSound
<1>. HIDE DEF w
<1>4. Deliver(w) \in Reader /\ Sound(log, r, Deliver(w)) /\ Moves(r, w, Deliver(w))
  BY <1>1, <1>2, <1>3, DeliverSound
<1>5. p \in Reader /\ Sound(log, r, p) /\ Moves(r, o, p)
  BY <1>3, <1>4 DEF Moves, Quiet, Opens, Sees, Leaves
<1>. QED
  BY <1>1, <1>5 DEF Becomes

\* A state takes its turn.
LEMMA StateStep ==
    ASSUME ObservationInv, NEW r \in Readers, StateTurn(r)
    PROVE  \E p : Becomes(r, p)
<1>. DEFINE o == reader[r]
            w == [o EXCEPT !.scheduled = FALSE]
<1>1. /\ o \in Reader /\ Sound(log, r, o) /\ o.scheduled /\ r \in States
      /\ \/ Sets(r, Taken(w, Len(w.pending)))
         \/ \E k \in DOMAIN w.pending : Sets(r, Terminated(Taken(w, k), "stopped"))
  BY DEF ObservationInv, TypeOK, StateTurn
<1>2. o.at # "none" /\ o.end = "none" /\ o.pending # <<>>
  BY <1>1 DEF Sound, NoReader
<1>3. /\ w \in Reader /\ Sound(log, r, w) /\ ~w.scheduled
      /\ w.at = o.at /\ w.shown = o.shown /\ w.end = o.end /\ w.pending = o.pending
  BY <1>1, <1>2, TurnSound
<1>. HIDE DEF w
<1>4. ASSUME NEW k \in DOMAIN w.pending
      PROVE  /\ Taken(w, k) \in Reader /\ Has(log, Taken(w, k).shown) /\ Sees(r, w, Taken(w, k))
             /\ Taken(w, k).at = w.at /\ Taken(w, k).end = "none" /\ ~Taken(w, k).scheduled
             /\ k = Len(w.pending) => Sound(log, r, Taken(w, k))
  BY <1>1, <1>2, <1>3, TakenSound
<1>5. Len(w.pending) \in DOMAIN w.pending
  BY <1>2, <1>3 DEF Reader
<1>6. CASE Sets(r, Taken(w, Len(w.pending)))
  <2>1. Sees(r, o, Taken(w, Len(w.pending)))
    BY <1>3, <1>4, <1>5 DEF Sees
  <2>. QED
    BY <1>4, <1>5, <1>6, <2>1 DEF Becomes, Moves
<1>7. ASSUME NEW k \in DOMAIN w.pending, Sets(r, Terminated(Taken(w, k), "stopped"))
      PROVE  \E p : Becomes(r, p)
  <2>. DEFINE q == Taken(w, k)
              p == Terminated(q, "stopped")
  <2>1. q \in Reader /\ Has(log, q.shown) /\ Sees(r, w, q) /\ q.at # "none" /\ q.end = "none" /\ ~q.scheduled
    BY <1>2, <1>3, <1>4
  <2>. HIDE DEF q
  <2>2. p \in Reader /\ Sound(log, r, p) /\ p.shown = q.shown /\ p.end = "stopped"
    BY <2>1, TerminatedSound DEF Reasons
  <2>3. Sees(r, o, p)
    BY <1>3, <2>1, <2>2 DEF Sees
  <2>. QED
    BY <1>7, <2>2, <2>3 DEF Becomes, Moves, q
<1>. QED
  BY <1>1, <1>6, <1>7

\* A listener returns or throws.
LEMMA ListenerStep ==
    ASSUME ObservationInv, NEW r \in Readers, Listener(r)
    PROVE  \E p : Becomes(r, p)
<1>. DEFINE o == reader[r]
<1>1. o \in Reader /\ Sound(log, r, o) /\ o.running /\ r \in Watches
  BY DEF ObservationInv, TypeOK, Listener, ListenerReturns, ListenerThrows
<1>2. o.at # "none"
  BY <1>1 DEF Sound, NoReader
<1>3. ASSUME NEW reason \in Reasons, reason = "retired" => o.shown.gone,
             Sets(r, [Terminated(o, reason) EXCEPT !.running = FALSE])
      PROVE  \E p : Becomes(r, p)
  <2>. DEFINE w == Terminated(o, reason)
              p == [w EXCEPT !.running = FALSE]
  <2>1. w \in Reader /\ Sound(log, r, w) /\ Moves(r, o, w) /\ w.at # "none"
    BY <1>1, <1>2, <1>3, TerminatedMoves
  <2>. HIDE DEF w
  <2>2. /\ p \in Reader /\ p.at = w.at /\ p.shown = w.shown /\ p.pending = w.pending
        /\ p.observed = w.observed /\ p.end = w.end /\ p.scheduled = w.scheduled
    BY <2>1 DEF Reader
  <2>3. Sets(r, p)
    BY <1>3 DEF w
  <2>. HIDE DEF p
  <2>4. Sound(log, r, p)
    BY <2>1, <2>2, FlagsSound
  <2>5. Moves(r, o, p)
    BY <2>1, <2>2 DEF Moves, Quiet, Opens, Sees, Leaves
  <2>. QED
    BY <2>2, <2>3, <2>4, <2>5 DEF Becomes
<1>4. CASE ListenerThrows(r)
  BY <1>3, <1>4 DEF ListenerThrows, Reasons
<1>5. CASE ListenerReturns(r) /\ o.shown.gone
  BY <1>3, <1>5 DEF ListenerReturns, Reasons
<1>6. CASE ListenerReturns(r) /\ ~o.shown.gone
  <2>1. Deliver(o) \in Reader /\ Sound(log, r, Deliver(o)) /\ Moves(r, o, Deliver(o))
    BY <1>1, <1>2, DeliverSound
  <2>2. Sets(r, Deliver(o))
    BY <1>6 DEF ListenerReturns, GoOn
  <2>. QED
    BY <2>1, <2>2 DEF Becomes
<1>. QED
  BY <1>4, <1>5, <1>6 DEF Listener

------------------------------------------------------------------------------
(* Steps of the Session *)

\* The readers of the incarnation are told of a commit.
LEMMA PublishStep ==
    ASSUME ObservationInv, ~Retired, NEW v \in Versions, NEW gone \in BOOLEAN, Publish(v, gone),
           stored' \in Versions, UNCHANGED closing
    PROVE  ObservationInv' /\ Unseen
<1>. DEFINE value == [inc |-> Len(log), n |-> Len(Latest) + 1, ver |-> v, gone |-> gone]
            last == log[Len(log)]
            new == [ver |-> v, gone |-> gone]
<1>1. LogType(log) /\ new \in Value /\ log' = With(log, new)
  BY DEF ObservationInv, TypeOK, Publish, Value, With
<1>2. /\ LogType(log') /\ Longer(log, log') /\ Len(log) \in DOMAIN log
      /\ DOMAIN log' = DOMAIN log
      /\ \A i \in DOMAIN log : i # Len(log) => log'[i] = log[i]
      /\ Len(log'[Len(log)]) = Len(last) + 1 /\ Len(log'[Len(log)]) \in DOMAIN log'[Len(log)]
      /\ log'[Len(log)][Len(last) + 1] = new
  <2>. HIDE DEF new, last
  <2>. QED
    BY <1>1, PublishedLog DEF last
<1>3. Latest = last /\ last \in Seq(Value) /\ Len(last) \in DOMAIN last /\ Len(last) \in Nat
      /\ Len(log) \in Nat /\ ~last[Len(last)].gone
  BY <1>1 DEF LogType, Latest, Last, Retired
<1>4. value \in Seen /\ value.inc = Len(log) /\ value.n = Len(log'[Len(log)])
      /\ value.n = Len(last) + 1 /\ value.ver = v /\ value.gone = gone
  BY <1>2, <1>3 DEF Seen
<1>5. Published(log', value)
  BY <1>2, <1>4 DEF Published, Has
<1>6. reader' = [r \in Readers |->
                   IF reader[r].end = "none" /\ reader[r].shown.inc = Len(log)
                   THEN Advanced(r, reader[r], value) ELSE reader[r]]
  BY DEF Publish
<1>. HIDE DEF value, last, new
<1>7. ASSUME NEW r \in Readers
      PROVE  /\ reader'[r] \in Reader /\ Sound(log', r, reader'[r])
             /\ reader'[r].shown = reader[r].shown /\ reader'[r].end = reader[r].end
  <2>. DEFINE o == reader[r]
  <2>1. o \in Reader /\ Sound(log, r, o)
    BY DEF ObservationInv, TypeOK
  <2>2. CASE o.end = "none" /\ o.shown.inc = Len(log)
    <3>1. reader'[r] = Advanced(r, o, value)
      BY <1>6, <2>2
    <3>2. o.at # "none"
      BY <1>2, <2>1, <2>2 DEF Sound, NoReader, Absent, LogType
    <3>3. Len(log'[o.shown.inc]) = Len(log[o.shown.inc]) + 1 /\ ~log[o.shown.inc][Len(log[o.shown.inc])].gone
      BY <1>2, <1>3, <2>2 DEF last
    <3>4. value.inc = o.shown.inc /\ value.n = Len(log'[o.shown.inc]) /\ value \in Seen
      BY <1>4, <2>2
    <3>5. /\ Advanced(r, o, value) \in Reader /\ Sound(log', r, Advanced(r, o, value))
          /\ Advanced(r, o, value).shown = o.shown /\ Advanced(r, o, value).end = o.end
      BY <1>1, <1>2, <1>5, <2>1, <2>2, <3>2, <3>3, <3>4, AdvancedSound
    <3>. QED
      BY <3>1, <3>5
  <2>3. CASE ~(o.end = "none" /\ o.shown.inc = Len(log))
    <3>1. reader'[r] = o
      BY <1>6, <2>3
    <3>2. o.at # "none" /\ o.end = "none" => Len(log'[o.shown.inc]) = Len(log[o.shown.inc])
      BY <1>2, <2>1, <2>3 DEF Sound, Has
    <3>. QED
      BY <1>2, <2>1, <3>1, <3>2, SoundElsewhere
  <2>. QED
    BY <2>2, <2>3
<1>. QED
  BY <1>2, <1>6, <1>7 DEF ObservationInv, TypeOK, Unseen

\* Another incarnation has no readers yet.
LEMMA RecreateStep ==
    ASSUME ObservationInv, NEW v \in Versions, Recreate(v)
    PROVE  ObservationInv' /\ Unseen
<1>. DEFINE new == [ver |-> v, gone |-> FALSE]
<1>1. LogType(log) /\ new \in Value /\ log' = Append(log, <<new>>) /\ UNCHANGED <<closing, reader>>
      /\ stored' \in Versions
  BY DEF ObservationInv, TypeOK, Recreate, Value
<1>. HIDE DEF new
<1>2. LogType(log') /\ Longer(log, log') /\ \A i \in DOMAIN log : log'[i] = log[i]
  BY <1>1, RecreatedLog
<1>3. ASSUME NEW r \in Readers PROVE Sound(log', r, reader[r])
  BY <1>2, SoundElsewhere DEF ObservationInv, Sound, Has
<1>. QED
  BY <1>1, <1>2, <1>3 DEF ObservationInv, TypeOK, Unseen

\* Every reader ends with the Session.
LEMMA CloseStep ==
    ASSUME ObservationInv, CloseSession
    PROVE  /\ ObservationInv' /\ UNCHANGED log
           /\ \A r \in Readers :
                /\ reader'[r].shown = reader[r].shown
                /\ reader'[r].end = IF reader[r].shown # Absent /\ reader[r].end = "none"
                                    THEN "session_closed" ELSE reader[r].end
<1>1. LogType(log) /\ "session_closed" \in Reasons
  BY DEF ObservationInv, TypeOK, Reasons
<1>2. UNCHANGED <<log, stored>> /\ closing' = TRUE
  BY DEF CloseSession
<1>3. ASSUME NEW r \in Readers
      PROVE  /\ reader'[r] \in Reader /\ Sound(log, r, reader'[r])
             /\ reader'[r].shown = reader[r].shown
             /\ reader'[r].end = IF reader[r].shown # Absent /\ reader[r].end = "none"
                                 THEN "session_closed" ELSE reader[r].end
  <2>. DEFINE o == reader[r]
  <2>1. o \in Reader /\ Sound(log, r, o) /\ (o.at = "none" <=> o.shown = Absent)
    BY <1>1, AbsentIsNone DEF ObservationInv, TypeOK
  <2>2. reader'[r] = IF o.at = "none" THEN o ELSE Terminated(o, "session_closed")
    BY DEF CloseSession
  <2>3. CASE o.at = "none"
    BY <2>1, <2>2, <2>3
  <2>4. CASE o.at # "none"
    <3>1. Has(log, o.shown) /\ (o.end # "none" => ~o.scheduled)
      BY <2>1, <2>4 DEF Sound
    <3>. QED
      BY <1>1, <2>1, <2>2, <2>4, <3>1, TerminatedSound
  <2>. QED
    BY <2>3, <2>4
<1>4. reader' = [r \in Readers |-> reader'[r]]
  BY DEF CloseSession
<1>5. reader' \in [Readers -> Reader]
  BY <1>3, <1>4
<1>. QED
  BY <1>1, <1>2, <1>3, <1>5 DEF ObservationInv, TypeOK

\* One reader changes.
LEMMA BecomesStep ==
    ASSUME ObservationInv, NEW r \in Readers, NEW p, Becomes(r, p), UNCHANGED <<log, stored, closing>>
    PROVE  /\ ObservationInv' /\ UNCHANGED log
           /\ reader'[r] = p /\ \A q \in Readers : q # r => reader'[q] = reader[q]
<1>1. reader' = [reader EXCEPT ![r] = p] /\ p \in Reader /\ reader \in [Readers -> Reader]
  BY DEF Becomes, Sets, ObservationInv, TypeOK
<1>2. reader' \in [Readers -> Reader] /\ reader'[r] = p /\ \A q \in Readers : q # r => reader'[q] = reader[q]
  BY <1>1
<1>3. \A q \in Readers : Sound(log, q, reader'[q])
  BY <1>2 DEF Becomes, ObservationInv
<1>. QED
  BY <1>2, <1>3 DEF ObservationInv, TypeOK

\* Each step of a reader is one of these.
LEMMA ReaderSteps ==
    ASSUME ObservationInv, Owners \/ \E r \in Readers : Turn(r) \/ Listener(r)
    PROVE  UNCHANGED <<log, stored, closing>> /\ \E r \in Readers : \E p : Becomes(r, p)
<1>1. CASE Owners
  BY <1>1, AttachStep, OwnerStep, StartStep DEF Owners, Attach, OwnerLeaves, Start
<1>2. ASSUME NEW r \in Readers, Turn(r)
      PROVE  UNCHANGED <<log, stored, closing>> /\ \E p : Becomes(r, p)
  BY <1>2, HandOverStep, WatchStep, StateStep DEF Turn, HandOver, WatchTurn, StateTurn
<1>3. ASSUME NEW r \in Readers, Listener(r)
      PROVE  UNCHANGED <<log, stored, closing>> /\ \E p : Becomes(r, p)
  BY <1>3, ListenerStep DEF Listener, ListenerReturns, ListenerThrows
<1>. QED
  BY <1>1, <1>2, <1>3

\* Nothing was read yet.
LEMMA ObservationInit == Init => ObservationInv
<1>. SUFFICES ASSUME Init PROVE ObservationInv
  OBVIOUS
<1>1. PICK v \in Versions : log = <<<<[ver |-> v, gone |-> FALSE]>>>> /\ stored = v
  BY DEF Init
<1>. DEFINE new == [ver |-> v, gone |-> FALSE]
            first == <<new>>
<1>2. new \in Value
  BY DEF Value
<1>. HIDE DEF new
<1>3. first \in Seq(Value) /\ Len(first) = 1
  BY <1>2
<1>4. log = <<first>>
  BY <1>1 DEF new
<1>. HIDE DEF first
<1>5. log \in Seq(Seq(Value)) /\ Len(log) = 1 /\ DOMAIN log = {1} /\ log[1] = first
  BY <1>3, <1>4
<1>6. LogType(log)
  <2>1. \A i \in DOMAIN log : log[i] = first
    BY <1>5
  <2>. QED
    BY <1>3, <1>5, <2>1 DEF LogType
<1>7. \A r \in Readers : reader[r] = NoReader
  BY DEF Init
<1>8. \A r \in Readers : Sound(log, r, NoReader)
  BY DEF Sound, NoReader
<1>9. reader \in [Readers -> Reader]
  BY BlankReader DEF Init
<1>. QED
  BY <1>1, <1>6, <1>7, <1>8, <1>9 DEF Init, ObservationInv, TypeOK

\* What a commit publishes has this form.
LEMMA WriterSteps ==
    ASSUME ObservationInv, Writers, ~CloseSession
    PROVE  /\ ObservationInv' /\ Unseen
           /\ \/ UNCHANGED log
              \/ \E v \in Versions, gone \in BOOLEAN :
                   log' = IF Retired THEN Append(log, <<[ver |-> v, gone |-> FALSE]>>)
                          ELSE With(log, [ver |-> v, gone |-> gone])
<1>1. ASSUME NEW v \in Versions, Change(v) PROVE ObservationInv' /\ Unseen /\ Publish(v, FALSE) /\ ~Retired
  BY <1>1, PublishStep DEF Change
<1>2. ASSUME NEW v \in Versions, Upgrade(v) PROVE ObservationInv' /\ Unseen /\ UNCHANGED log
  BY <1>2 DEF Upgrade, ObservationInv, TypeOK, Unseen
<1>3. ASSUME NEW v \in Versions, Recreate(v)
      PROVE  ObservationInv' /\ Unseen /\ Retired /\ log' = Append(log, <<[ver |-> v, gone |-> FALSE]>>)
  BY <1>3, RecreateStep DEF Recreate
<1>4. ASSUME Retire PROVE ObservationInv' /\ Unseen /\ Publish(stored, TRUE) /\ ~Retired /\ stored \in Versions
  <2>1. stored \in Versions /\ stored' \in Versions /\ TRUE \in BOOLEAN
    BY <1>4 DEF Retire, ObservationInv, TypeOK
  <2>. QED
    BY <1>4, <2>1, PublishStep DEF Retire
<1>5. ASSUME NEW v \in Versions, NEW gone \in BOOLEAN, Publish(v, gone)
      PROVE  log' = With(log, [ver |-> v, gone |-> gone])
  BY <1>5 DEF Publish, With
<1>. QED
  BY <1>1, <1>2, <1>3, <1>4, <1>5 DEF Writers

\* Every step keeps the invariant.
LEMMA ObservationNext == ObservationInv /\ [Next]_vars => ObservationInv'
<1>. SUFFICES ASSUME ObservationInv, [Next]_vars PROVE ObservationInv'
  OBVIOUS
<1>1. CASE UNCHANGED vars
  BY <1>1 DEF vars, ObservationInv, TypeOK
<1>2. CASE Next
  BY <1>2, CloseStep, WriterSteps, ReaderSteps, BecomesStep DEF Next
<1>. QED
  BY <1>1, <1>2

------------------------------------------------------------------------------
(* The contract *)

Shown == [r \in Readers |-> reader[r].shown]
End == [r \in Readers |-> reader[r].end]

\* A step that shows nothing.
LEMMA UnseenMaps ==
    ASSUME Unseen
    PROVE  Shown' = Shown /\ End' = End
BY DEF Unseen, Shown, End

\* What one reader sees.
LEMMA OneReaderMaps ==
    ASSUME ObservationInv, NEW r \in Readers, NEW p, Becomes(r, p), UNCHANGED <<log, stored, closing>>
    PROVE  Shown' = [Shown EXCEPT ![r] = p.shown] /\ End' = [End EXCEPT ![r] = p.end]
<1>1. reader'[r] = p /\ \A q \in Readers : q # r => reader'[q] = reader[q]
  BY BecomesStep
<1>. QED
  BY <1>1 DEF Shown, End

\* Names of the contract.
LEMMA StreamNames ==
    /\ Stream!Readers = Readers /\ Stream!Absent = Absent /\ Stream!Ends = Reasons
    /\ Stream!Latest = Latest /\ Stream!Retired = Retired
    /\ \A r \in Readers : Stream!Open(r) <=> reader[r].shown # Absent /\ reader[r].end = "none"
<1>1. Stream!Readers = Readers /\ Stream!Absent = Absent /\ Stream!Ends = Reasons
  BY DEF Stream!Readers, Readers, Stream!Absent, Absent, Stream!Ends, Reasons
<1>2. Stream!Latest = Latest /\ Stream!Retired = Retired
  BY DEF Stream!Latest, Latest, Stream!Retired, Retired, Last, Stream!Last
<1>3. ASSUME NEW r \in Readers
      PROVE  Stream!Open(r) <=> reader[r].shown # Absent /\ reader[r].end = "none"
  BY <1>1 DEF Stream!Open
<1>. QED
  BY <1>1, <1>2, <1>3

\* Whatever happens to a reader, the contract allows it.
LEMMA MovesMap ==
    ASSUME ObservationInv, NEW r \in Readers, NEW p, Becomes(r, p), UNCHANGED <<log, stored, closing>>
    PROVE  Stream!Next \/ UNCHANGED Stream!streamVars
<1>. DEFINE o == reader[r]
<1>1. Shown' = [Shown EXCEPT ![r] = p.shown] /\ End' = [End EXCEPT ![r] = p.end]
  BY OneReaderMaps
<1>2. /\ DOMAIN Shown = Readers /\ DOMAIN End = Readers /\ Shown[r] = o.shown /\ End[r] = o.end
      /\ Shown = [Shown EXCEPT ![r] = o.shown] /\ End = [End EXCEPT ![r] = o.end]
  BY DEF Shown, End
<1>3. LogType(log) /\ o \in Reader /\ o.shown \in Seen
  BY DEF ObservationInv, TypeOK, Reader
<1>4. CASE Quiet(o, p)
  <2>1. Shown' = Shown /\ End' = End
    BY <1>1, <1>2, <1>4 DEF Quiet
  <2>. QED
    BY <2>1 DEF Stream!streamVars, Shown, End
<1>5. CASE Opens(o, p)
  <2>1. End' = End /\ o.shown = Absent /\ ~Retired
    BY <1>1, <1>2, <1>5 DEF Opens
  <2>2. PICK v \in Versions : Shown' = [Shown EXCEPT ![r] = [inc |-> Len(log), n |-> Len(Latest), ver |-> v, gone |-> FALSE]]
    BY <1>1, <1>5 DEF Opens
  <2>3. Stream!Opened(r)
    BY <1>2, <2>1, <2>2, StreamNames DEF Stream!Opened, Shown
  <2>. QED
    BY <2>1, <2>3, StreamNames DEF Stream!Next, End
<1>6. CASE Sees(r, o, p)
  <2>. DEFINE n == p.shown.n
  <2>1. /\ n \in o.shown.n + 1 .. Len(log[o.shown.inc])
        /\ p.shown = Later(o.shown, log, n)
        /\ r \in Watches => n = o.shown.n + 1 \/ n > o.shown.n + MaxPending
    BY <1>3, <1>6, ShownAs DEF Sees
  <2>2. Stream!Open(r)
    BY <1>6, StreamNames DEF Sees
  <2>3. Shown' = [Shown EXCEPT ![r] = Later(Shown[r], log, n)]
    BY <1>1, <1>2, <2>1
  <2>4. End' \in {End, [End EXCEPT ![r] = "stopped"]}
    BY <1>1, <1>2, <1>6 DEF Sees
  <2>5. n \in Shown[r].n + 1 .. Len(log[Shown[r].inc])
        /\ (r \in Watches => n = Shown[r].n + 1 \/ n > Shown[r].n + MaxPending)
    BY <1>2, <2>1
  <2>. HIDE DEF n
  <2>6. Stream!Shown(r)
    BY <2>2, <2>3, <2>4, <2>5 DEF Stream!Shown, Shown, End, Later
  <2>. QED
    BY <2>6, StreamNames DEF Stream!Next
<1>7. CASE Leaves(o, p)
  <2>1. Shown' = Shown /\ p.end \in Reasons /\ (p.end = "retired" => Shown[r].gone)
    BY <1>1, <1>2, <1>7 DEF Leaves
  <2>2. Stream!Open(r)
    BY <1>7, StreamNames DEF Leaves
  <2>3. Stream!Ended(r)
    BY <1>1, <2>1, <2>2, StreamNames DEF Stream!Ended, Shown, End
  <2>. QED
    BY <2>1, <2>3, StreamNames DEF Stream!Next, Shown
<1>. QED
  BY <1>4, <1>5, <1>6, <1>7 DEF Becomes, Moves

\* So do commits and the end of the Session.
LEMMA SessionMaps ==
    ASSUME ObservationInv, Writers
    PROVE  Stream!Next \/ UNCHANGED Stream!streamVars
<1>1. CASE CloseSession
  <2>1. UNCHANGED log /\ Shown' = Shown
    BY <1>1, CloseStep DEF Shown
  <2>2. End' = [r \in Readers |-> IF reader[r].shown # Absent /\ reader[r].end = "none"
                                  THEN "session_closed" ELSE End[r]]
    BY <1>1, CloseStep DEF End
  <2>3. Stream!Closed
    BY <2>2, StreamNames DEF Stream!Closed, End
  <2>. QED
    BY <2>1, <2>3 DEF Stream!Next, Shown
<1>2. CASE ~CloseSession
  <2>1. Shown' = Shown /\ End' = End
    BY <1>2, WriterSteps, UnseenMaps
  <2>2. CASE UNCHANGED log
    BY <2>1, <2>2 DEF Stream!streamVars, Shown, End
  <2>3. CASE ~UNCHANGED log
    <3>1. Stream!Committed
      BY <1>2, <2>3, WriterSteps, StreamNames DEF Stream!Committed, With
    <3>. QED
      BY <2>1, <3>1 DEF Stream!Next, Shown, End
  <2>. QED
    BY <2>2, <2>3
<1>. QED
  BY <1>1, <1>2

\* Initially nobody reads.
LEMMA InitMaps == Init => Stream!Init
<1>. SUFFICES ASSUME Init PROVE Stream!Init
  OBVIOUS
<1>1. log \in {<<<<[ver |-> v, gone |-> FALSE]>>>> : v \in Versions}
  BY DEF Init
<1>2. \A r \in Readers : reader[r].shown = Absent /\ reader[r].end = "none"
  BY DEF Init, NoReader
<1>. QED
  BY <1>1, <1>2, StreamNames DEF Stream!Init

\* THEOREM.  Readers and the log always fit: a reader has a committed value of its
\* incarnation, and what it has yet to take leads value by value, or by a
\* replacement, to the latest one.
THEOREM ObservationInductive == Spec => []ObservationInv
BY ObservationInit, ObservationNext, PTL DEF Spec

\* THEOREM.  Whatever versions of the definition write, however slow readers are and
\* whenever they or their owners leave, readers are shown what the interface promises.
THEOREM StreamImplemented == Spec => ImplementsStream
<1>1. ObservationInv /\ [Next]_vars => [Stream!Next]_(Stream!streamVars)
  <2>. SUFFICES ASSUME ObservationInv, [Next]_vars PROVE Stream!Next \/ UNCHANGED Stream!streamVars
    OBVIOUS
  <2>1. CASE UNCHANGED vars
    BY <2>1 DEF vars, Stream!streamVars
  <2>2. CASE Next
    BY <2>2, SessionMaps, MovesMap, ReaderSteps DEF Next
  <2>. QED
    BY <2>1, <2>2
<1>. QED
  BY <1>1, InitMaps, ObservationInductive, PTL DEF Spec, ImplementsStream, Stream!Spec
==============================================================================
