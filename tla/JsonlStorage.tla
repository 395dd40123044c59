---------------------------- MODULE JsonlStorage ----------------------------
(***************************************************************************)
(* The JSONL backend (packages/durable/src/storage/jsonl/storage.ts) over  *)
(* the memory backend that holds its decoded state (storage/memory.ts):    *)
(* a commit appends to a sidecar file per object and then one marker to    *)
(* the main file, sidecar records that nothing needs any more are          *)
(* reclaimed, and opening recovers whatever a failure has left.            *)
(*                                                                         *)
(* Table writes that live in the marker alone stand for themselves: a      *)
(* batch that touches no object is such a commit.  Files are sequences of  *)
(* complete lines and perhaps a torn one; contents are the number of the   *)
(* commit() call that wrote them.  Ordinals count per object: a sidecar    *)
(* record is only ever looked up in the file of its object.                *)
(***************************************************************************)
EXTENDS Naturals, Sequences

CONSTANTS
    Tasks, Latest, Rewindable,
    MaxAttempts,   \* bound: calls of commit()
    Settings       \* the stores of an instance, one of which a behaviour is about

Objects == Tasks \cup Latest \cup Rewindable
Main == "main"
Files == Objects \cup {Main}
Failures == {"io", "crash", "power"}

\* The objects a store writes, whether it is opened with fsync, and how often
\* each kind of failure happens.
Setting == [used: SUBSET Objects, fsync: BOOLEAN, failures: [Failures -> Nat]]

ASSUME JsonlAssumption ==
    /\ Main \notin Objects
    /\ Tasks \cap (Latest \cup Rewindable) = {} /\ Latest \cap Rewindable = {}
    /\ MaxAttempts \in Nat
    /\ \A s \in Settings :
          /\ s.used \subseteq Objects /\ s.fsync \in BOOLEAN
          /\ s.failures \in [Failures -> Nat]
          \* Without fsync nothing is promised when the power fails.
          /\ s.failures["power"] > 0 => s.fsync

VARIABLES
    disk,      \* the files, as the operating system shows them
    risk,      \* risk[f]: what a power failure may leave of f instead
    mem,       \* the decoded state of the objects
    job,       \* what the backend is doing
    attempts,  \* calls of commit() so far
    log,       \* history: the batches whose marker is in the main file
    setting, budget

vars == <<disk, risk, mem, job, attempts, log, setting, budget>>

------------------------------------------------------------------------------
(* Files *)

Empty == [lines |-> <<>>, torn |-> FALSE]
Holding(lines) == [lines |-> lines, torn |-> FALSE]

\* What an append of lines to c may have written when it was cut short.
CutShort(c, lines) ==
    [lines : {c.lines \o SubSeq(lines, 1, k) : k \in 0 .. Len(lines)}, torn : BOOLEAN]
        \ {[lines |-> c.lines \o lines, torn |-> TRUE]}

\* File f now shows c; until it is flushed, a power failure may leave what it
\* was before, or anything in between.
Shows(f, c, between) ==
    /\ disk' = [disk EXCEPT ![f] = c]
    /\ risk' = IF budget["power"] > 0
               THEN [risk EXCEPT ![f] = @ \cup {disk[f]} \cup between] ELSE risk

Flushes(f) == risk' = [risk EXCEPT ![f] = {}]

Spend(k) == budget[k] > 0 /\ budget' = [budget EXCEPT ![k] = @ - 1]

Fsync == setting.fsync

------------------------------------------------------------------------------
(* Writes, records and markers *)

InSidecar == {"live", "create", "change"}

\* The decoded state of an object the store has never heard of.
NoObject == [st |-> "none", revs |-> {}]

Fresh == [o \in Objects |-> NoObject]

Live == [op |-> "live", kind |-> "task"]
Terminal == [op |-> "terminal", kind |-> "task"]
Create == [op |-> "create", kind |-> "base"]
Change(kind) == [op |-> "change", kind |-> kind]
Retire == [op |-> "retire", kind |-> "none"]

\* Which operations the transaction layer puts in one batch for o; what ends an
\* object comes last.
OpsOn(o) ==
    IF mem.obj[o].st \in {"terminal", "retired"} THEN {<<>>}
    ELSE IF o \in Tasks THEN {<<>>, <<Live>>, <<Live, Live>>, <<Terminal>>}
    ELSE IF mem.obj[o].st = "none" THEN {<<>>, <<Create>>, <<Create, Retire>>}
    ELSE {<<>>, <<Change("base")>>, <<Change("delta")>>, <<Retire>>, <<Change("base"), Retire>>}

Batches == {b \in [setting.used -> UNION {OpsOn(o) : o \in setting.used}] :
              \A o \in setting.used : b[o] \in OpsOn(o)}

Tagged(b, att) ==
    [o \in Objects |->
        IF o \notin setting.used THEN <<>>
        ELSE [k \in DOMAIN b[o] |-> [op |-> b[o][k].op, kind |-> b[o][k].kind, att |-> att]]]

Record(seq, k, w) == [seq |-> seq, ord |-> k, kind |-> w.kind, att |-> w.att]

\* encodeCommit(): the lines appended to the sidecar of o.
Records(writes, o, seq) ==
    [k \in {j \in DOMAIN writes[o] : writes[o][j].op \in InSidecar} |->
        Record(seq, k, writes[o][k])]

\* encodeCommit(): the marker names the sidecar records, without their content
\* and without telling a base from a delta, and says the other writes itself.
Marker(writes, seq) ==
    [seq |-> seq,
     ops |-> [o \in Objects |-> [k \in DOMAIN writes[o] |->
        [op |-> writes[o][k].op,
         att |-> IF writes[o][k].op \in InSidecar THEN 0 ELSE writes[o][k].att]]]]

Touched(writes, seq) == {o \in Objects : Records(writes, o, seq) # <<>>}

Revision(e) == [seq |-> e.seq, kind |-> e.kind, att |-> e.att]

\* Of the writes of one commit to a task the last one stays (applyPreparedCommit).
AppliedToTask(events) ==
    LET last == CHOOSE k \in DOMAIN events : \A j \in DOMAIN events : j <= k
    IN  [st |-> IF events[last].op = "terminal" THEN "terminal" ELSE "live",
         revs |-> {Revision(events[last])}]

\* Those to a document are one action: content, and perhaps the retirement
\* (applyDocumentActions).
AppliedToDocument(o, s, events) ==
    LET es == {events[k] : k \in DOMAIN events}
        content == {Revision(e) : e \in {x \in es : x.op # "retire"}}
        replaces == \E e \in es : e.op = "create" \/ (e.kind = "base" /\ o \in Latest)
        retires == \E e \in es : e.op = "retire"
    IN  [st |-> IF retires THEN "retired" ELSE "live",
         revs |-> IF retires /\ o \in Latest THEN {}
                  ELSE IF replaces THEN content ELSE s.revs \cup content]

\* What the events of one commit make of the decoded state of o (MemoryStorage).
Applied(o, s, events) ==
    IF DOMAIN events = {} THEN s
    ELSE IF o \in Tasks THEN AppliedToTask(events) ELSE AppliedToDocument(o, s, events)

\* checkDocumentActions(): prepareCommit() refuses what does not fit.
Fits(o, s, events) ==
    o \notin Tasks /\ DOMAIN events # {} =>
        LET es == {events[k] : k \in DOMAIN events}
        IN  /\ s.st = IF \E e \in es : e.op = "create" THEN "none" ELSE "live"
            /\ (\E e \in es : e.kind = "delta") => s.revs # {}

\* The events of a batch that the running backend applies itself.
Events(writes, o, seq) ==
    [k \in DOMAIN writes[o] |->
        [op |-> writes[o][k].op, kind |-> writes[o][k].kind, seq |-> seq,
         att |-> writes[o][k].att]]

\* planReclamations(): what the sidecars this commit makes superfluous become.
Plan(writes, seq) ==
    LET has(o, op) == \E k \in DOMAIN writes[o] : writes[o][k].op = op
        gone == {o \in Latest : has(o, "retire")}
                    \cup {o \in Tasks : has(o, "terminal") /\ mem.obj[o].st = "live"}
        shrunk == {o \in Latest \ gone :
                     \E k \in DOMAIN writes[o] : writes[o][k].op = "change" /\ writes[o][k].kind = "base"}
    IN  [o \in gone \cup shrunk |-> IF o \in gone THEN <<>> ELSE Records(writes, o, seq)]

------------------------------------------------------------------------------
(* Committing *)

NoWrites == [o \in Objects |-> <<>>]
NoJob == [at |-> "idle", writes |-> NoWrites, todo |-> {}, plan |-> <<>>, pos |-> 0]
Down == [NoJob EXCEPT !.at = "down"]
NoMem == [next |-> 0, obj |-> <<>>]

Init ==
    /\ disk = [f \in Files |-> Empty] /\ risk = [f \in Files |-> {}]
    /\ mem = [next |-> 1, obj |-> Fresh] /\ job = NoJob
    /\ attempts = 0 /\ log = <<>>
    /\ setting \in Settings /\ budget = setting.failures

\* A phase handles its files one after the other, then hands on to the next.
Then(todo, at, next) == IF todo = {} THEN next ELSE [job EXCEPT !.at = at, !.todo = todo]

ToMarker == [job EXCEPT !.at = "marker", !.todo = {}]

\* Mutant: the marker does not wait for the sidecars to be flushed.
Unflushed == ToMarker

\* With fsync, the sidecars are flushed before the marker is written.
ToFlush == IF Fsync THEN [job EXCEPT !.at = "flush", !.todo = Touched(job.writes, mem.next)]
           ELSE ToMarker

CommitBegin ==
    /\ job.at = "idle" /\ attempts < MaxAttempts
    /\ attempts' = attempts + 1
    /\ \E b \in Batches :
          LET writes == Tagged(b, attempts')
              todo == Touched(writes, mem.next)
          IN  job' = [NoJob EXCEPT !.at = IF todo = {} THEN "marker" ELSE "append",
                                   !.writes = writes, !.todo = todo,
                                   !.plan = Plan(writes, mem.next)]
    /\ UNCHANGED <<disk, risk, mem, log, budget>>

Appended(o) == Records(job.writes, o, mem.next)

AppendSidecar(o) ==
    /\ job.at = "append" /\ o \in job.todo
    /\ Shows(o, Holding(disk[o].lines \o Appended(o)), CutShort(disk[o], Appended(o)))
    /\ job' = Then(job.todo \ {o}, "append", ToFlush)
    /\ UNCHANGED <<mem, attempts, log, budget>>

FlushSidecar(o) ==
    /\ job.at = "flush" /\ o \in job.todo
    /\ Flushes(o)
    /\ job' = Then(job.todo \ {o}, "flush", ToMarker)
    /\ UNCHANGED <<disk, mem, attempts, log, budget>>

\* Reclamation of what plan says, or nothing left to do.
ToReclaim(plan) ==
    [NoJob EXCEPT !.at = IF DOMAIN plan = {} THEN "idle"
                         ELSE IF Fsync THEN "authorize" ELSE "reclaim",
                  !.todo = DOMAIN plan, !.plan = plan]

\* The marker publishes the batch; the decoded state follows at once.
PutMarker ==
    /\ job.at = "marker"
    /\ LET line == <<Marker(job.writes, mem.next)>>
       IN  Shows(Main, Holding(disk[Main].lines \o line), CutShort(disk[Main], line))
    /\ log' = Append(log, job.writes)
    /\ mem' = [next |-> mem.next + 1,
               obj |-> [o \in Objects |->
                  Applied(o, mem.obj[o], Events(job.writes, o, mem.next))]]
    /\ job' = ToReclaim(job.plan)
    /\ UNCHANGED <<attempts, budget>>

------------------------------------------------------------------------------
(* Reclamation: best effort, once the marker that proves it is there *)

\* With fsync, the main file is flushed before anything is destroyed.
Authorize ==
    /\ job.at = "authorize"
    /\ Flushes(Main)
    /\ job' = [job EXCEPT !.at = "reclaim"]
    /\ UNCHANGED <<disk, mem, attempts, log, budget>>

\* Mutant: the temporary replacement is renamed before it is flushed.
LeftUnflushed(lines) == CutShort(Empty, lines)

\* What a power failure may leave of a file just renamed into place.
LeftByRename(lines) == IF Fsync THEN {} ELSE CutShort(Empty, lines)

Reclaimed(o) == job' = Then(job.todo \ {o}, "reclaim", NoJob)

\* replaceSidecar(): the file is removed, or a temporary file with the lines
\* that remain takes its place.  The temporary file is read by nobody, so the
\* rename is the step; a reader finds the old content or the new one.
ReplaceSidecar(o) ==
    /\ job.at = "reclaim" /\ o \in job.todo
    /\ Shows(o, Holding(job.plan[o]),
             IF job.plan[o] = <<>> THEN {} ELSE LeftByRename(job.plan[o]))
    /\ Reclaimed(o)
    /\ UNCHANGED <<mem, attempts, log, budget>>

\* A failure leaves the old file for a later commit, or for recovery.
ReclaimFails ==
    /\ Spend("io")
    /\ \/ job.at = "authorize" /\ job' = NoJob
       \/ job.at = "reclaim" /\ \E o \in job.todo : Reclaimed(o)
    /\ UNCHANGED <<disk, risk, mem, attempts, log>>

------------------------------------------------------------------------------
(* Failures *)

\* Of an append to f that was cut short, no more than c has reached the file.
Landed(f, c, lines) ==
    Shows(f, c, {x \in CutShort(disk[f], lines) : Len(x.lines) < Len(c.lines)}
                    \cup {Holding(c.lines)})

\* What becomes of the append under way.
PartialAppend ==
    \/ UNCHANGED <<disk, risk, log>>
    \/ /\ job.at = "append"
       /\ \E o \in job.todo : \E c \in CutShort(disk[o], Appended(o)) :
             Landed(o, c, Appended(o))
       /\ UNCHANGED log
    \/ /\ job.at = "marker"
       /\ LET line == <<Marker(job.writes, mem.next)>>
          IN  \E c \in CutShort(disk[Main], line) :
                /\ Landed(Main, c, line)
                /\ log' = IF Len(c.lines) > Len(log) THEN Append(log, job.writes) ELSE log

Dies == job' = Down /\ mem' = NoMem

\* A failed append or flush poisons the backend: it serves nothing until it is
\* opened again.
Poison ==
    /\ job.at \in {"append", "flush", "marker"} /\ Spend("io")
    /\ PartialAppend /\ Dies
    /\ UNCHANGED attempts

Crash ==
    /\ job.at # "down" /\ Spend("crash")
    /\ PartialAppend /\ Dies
    /\ UNCHANGED attempts

\* The host fails: each file is what it was at some point since it was flushed.
PowerFails ==
    /\ Spend("power")
    /\ LET unsafe == {f \in Files : risk[f] # {}}
       IN  \E d \in [unsafe -> UNION {{disk[f]} \cup risk[f] : f \in unsafe}] :
             /\ \A f \in unsafe : d[f] \in {disk[f]} \cup risk[f]
             /\ disk' = [f \in Files |-> IF f \in unsafe THEN d[f] ELSE disk[f]]
    /\ risk' = [f \in Files |-> {}]
    /\ log' = SubSeq(log, 1, Len(disk'[Main].lines))
    /\ Dies
    /\ UNCHANGED attempts

------------------------------------------------------------------------------
(* Recovery *)

Opening == job.at \in {"opening", "replay", "truncate"}

OpenBegin ==
    /\ job.at = "down"
    /\ job' = [NoJob EXCEPT !.at = "opening"]
    /\ UNCHANGED <<disk, risk, mem, attempts, log, budget>>

\* readLines(): a torn last line is cut off.
TrimTorn(f) ==
    /\ job.at = "opening" /\ disk[f].torn
    /\ Shows(f, Holding(disk[f].lines), {})
    /\ UNCHANGED <<mem, job, attempts, log, budget>>

Markers == disk[Main].lines
Lines(o) == disk[o].lines

\* A marker of the main file names record r of the sidecar of o.
Named(o, r) ==
    \E i \in DOMAIN Markers :
        /\ Markers[i].seq = r.seq /\ r.ord \in DOMAIN Markers[i].ops[o]
        /\ Markers[i].ops[o][r.ord].op \in {"live", "create", "change"}

Follows(i, k, j, l) == i < j \/ (i = j /\ k < l)

\* finalTaskIsLive: the last marker about task o ends it.
EndsTerminal(o) ==
    \E i \in DOMAIN Markers : \E k \in DOMAIN Markers[i].ops[o] :
        /\ Markers[i].ops[o][k].op = "terminal"
        /\ \A j \in DOMAIN Markers : \A l \in DOMAIN Markers[j].ops[o] : ~Follows(i, k, j, l)

Retired(o) ==
    \E i \in DOMAIN Markers : \E k \in DOMAIN Markers[i].ops[o] : Markers[i].ops[o][k].op = "retire"

\* Mutant: a base that no marker confirms counts as well.
BasesSeen(o) == {j \in DOMAIN Lines(o) : Lines(o)[j].kind = "base"}

\* The bases that a marker confirms; the latest of them counts.
ConfirmedBases(o) == {j \in DOMAIN Lines(o) : Lines(o)[j].kind = "base" /\ Named(o, Lines(o)[j])}

Earlier(seq, ord, r) == seq < r.seq \/ (seq = r.seq /\ ord < r.ord)

BeforeLatestBase(o, seq, ord) == \E j \in ConfirmedBases(o) : Earlier(seq, ord, Lines(o)[j])

\* A later write proves the record unnecessary: it may have been reclaimed.
Optional(o, seq, ord) ==
    IF o \in Tasks THEN EndsTerminal(o)
    ELSE o \in Latest /\ (Retired(o) \/ BeforeLatestBase(o, seq, ord))

At(o, seq, ord) == {j \in DOMAIN Lines(o) : Lines(o)[j].seq = seq /\ Lines(o)[j].ord = ord}

\* What recovery makes of operation k of marker m on o.
Recovered(o, m, k) ==
    LET w == m.ops[o][k]
        line == Lines(o)[CHOOSE j \in At(o, m.seq, k) : TRUE]
        Event(kind, att) == [op |-> w.op, kind |-> kind, seq |-> m.seq, att |-> att]
    IN  IF w.op \notin InSidecar
        THEN Event(IF w.op = "terminal" THEN "task" ELSE "none", w.att)
        ELSE IF Optional(o, m.seq, k) THEN Event("base", 0) ELSE Event(line.kind, line.att)

\* Of the operations that may have been reclaimed only a creation is replayed.
Replays(o, m, k) ==
    m.ops[o][k].op \in {"live", "change"} => ~Optional(o, m.seq, k)

EventsOf(o, m) ==
    [k \in {j \in DOMAIN m.ops[o] : Replays(o, m, j)} |-> Recovered(o, m, k)]

Readable ==
    /\ \A i \in 2 .. Len(Markers) : Markers[i - 1].seq < Markers[i].seq
    /\ \A o \in Objects : \A j \in 2 .. Len(Lines(o)) :
          Earlier(Lines(o)[j - 1].seq, Lines(o)[j - 1].ord, Lines(o)[j])

\* confirmRecord(): every record marker m names is there, or is not needed any more.
Confirmed(m) ==
    \A o \in Objects : \A k \in DOMAIN m.ops[o] :
        m.ops[o][k].op \in InSidecar =>
            /\ At(o, m.seq, k) = {} => Optional(o, m.seq, k)
            /\ m.ops[o][k].op = "create" => \A j \in At(o, m.seq, k) : Lines(o)[j].kind = "base"

\* The files are read and the order of their lines is checked.
Decode ==
    /\ job.at = "opening" /\ \A f \in Files : ~disk[f].torn
    /\ IF Readable
       THEN mem' = [next |-> 1, obj |-> Fresh] /\ job' = [job EXCEPT !.at = "replay"]
       ELSE UNCHANGED mem /\ job' = [job EXCEPT !.at = "corrupt"]
    /\ UNCHANGED <<disk, risk, attempts, log, budget>>

\* One round of the loop that applies the markers to the decoded state.
ReplayMarker ==
    /\ job.at = "replay" /\ job.pos < Len(Markers)
    /\ LET m == Markers[job.pos + 1]
       IN  IF /\ Confirmed(m) /\ mem.next <= m.seq
              /\ \A o \in Objects : Fits(o, mem.obj[o], EventsOf(o, m))
           THEN /\ mem' = [next |-> m.seq + 1,
                           obj |-> [o \in Objects |-> Applied(o, mem.obj[o], EventsOf(o, m))]]
                /\ job' = [job EXCEPT !.pos = @ + 1]
           ELSE UNCHANGED mem /\ job' = [job EXCEPT !.at = "corrupt"]
    /\ UNCHANGED <<disk, risk, attempts, log, budget>>

Unnamed(o) == {j \in DOMAIN Lines(o) : ~Named(o, Lines(o)[j])}

ReplayEnds ==
    /\ job.at = "replay" /\ job.pos = Len(Markers)
    /\ job' = [job EXCEPT !.at = "truncate", !.todo = {o \in Objects : Unnamed(o) # {}}, !.pos = 0]
    /\ UNCHANGED <<disk, risk, mem, attempts, log, budget>>

\* Records no marker names are cut off; they may only be the tail of the file.
TruncateTail(o) ==
    /\ job.at = "truncate" /\ o \in job.todo
    /\ LET first == CHOOSE j \in Unnamed(o) : \A i \in Unnamed(o) : j <= i
       IN  IF Unnamed(o) = first .. Len(Lines(o))
           THEN /\ Shows(o, Holding(SubSeq(Lines(o), 1, first - 1)), {})
                /\ job' = [job EXCEPT !.todo = @ \ {o}]
           ELSE /\ job' = [job EXCEPT !.at = "corrupt"] /\ UNCHANGED <<disk, risk>>
    /\ UNCHANGED <<mem, attempts, log, budget>>

\* Mutant: recovery reclaims nothing.
NothingNeeded(o) == Lines(o)

\* The lines of the sidecar of o that are still needed.
Needed(o) ==
    IF (o \in Tasks /\ EndsTerminal(o)) \/ (o \in Latest /\ Retired(o)) THEN <<>>
    ELSE IF o \in Latest /\ ConfirmedBases(o) # {}
    THEN LET latest == CHOOSE j \in ConfirmedBases(o) : \A i \in ConfirmedBases(o) : i <= j
         IN  SubSeq(Lines(o), latest, Len(Lines(o)))
    ELSE Lines(o)

OpenEnds ==
    /\ job.at = "truncate" /\ job.todo = {}
    /\ LET lean == {o \in Objects : Len(Needed(o)) < Len(Lines(o))}
       IN  job' = ToReclaim([o \in lean |-> Needed(o)])
    /\ UNCHANGED <<disk, risk, mem, attempts, log, budget>>

\* A file that cannot be cut makes opening fail; it may be tried again.
OpenFails ==
    /\ Opening /\ Spend("io") /\ Dies
    /\ UNCHANGED <<disk, risk, attempts, log>>

------------------------------------------------------------------------------

Next ==
    \/ CommitBegin \/ PutMarker \/ Authorize \/ ReclaimFails
    \/ \E o \in Objects : AppendSidecar(o) \/ FlushSidecar(o) \/ ReplaceSidecar(o)
    \/ Poison \/ Crash \/ PowerFails
    \/ OpenBegin \/ Decode \/ ReplayMarker \/ ReplayEnds \/ OpenEnds \/ OpenFails
    \/ \E f \in Files : TrimTorn(f)
    \/ \E o \in Objects : TruncateTail(o)

Spec == Init /\ [][Next /\ UNCHANGED setting]_vars

------------------------------------------------------------------------------
(* Properties *)

Serving == job.at \in {"idle", "append", "flush", "marker", "authorize", "reclaim"}

\* What is read: nothing while closed, and no contents of any batches when
\* opening has found the directory corrupt.
Seen == IF Serving THEN <<mem.obj>> ELSE IF job.at = "corrupt" THEN <<"no", "contents">> ELSE <<>>

Contract == INSTANCE AtomicStorage WITH
    mayLosePower <- setting.failures["power"] > 0, committed <- log, view <- Seen

\* Whatever the failures, a directory this backend has written opens again (none
\* of the JsonlCorruptionErrors of recover() is met), batches are committed
\* whole and in order, and what is read back is exactly what the committed ones
\* say, rewindable revisions included, although the records of many are gone.
ImplementsStorage == Contract!Spec

\* As long as no file operation has failed, the sidecars of a store at rest
\* hold the readable revisions of its documents and nothing else, also when a
\* crash came between a marker and the reclamation it allows.
SidecarsStayLean ==
    job.at = "idle" /\ budget["io"] = setting.failures["io"] =>
        \A o \in Objects :
            IF o \in Tasks THEN mem.obj[o].st = "terminal" => Lines(o) = <<>>
            ELSE {Revision(Lines(o)[j]) : j \in DOMAIN Lines(o)} = mem.obj[o].revs
==============================================================================
