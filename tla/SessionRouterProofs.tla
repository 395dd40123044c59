------------------------- MODULE SessionRouterProofs -------------------------
(***************************************************************************)
(* Sessions, routes and leases of the server, for any number of clients    *)
(* and sessions and whatever the budgets: a session has one handle at most *)
(* that is open or still to be closed, a routed client has a lease of the  *)
(* handle its session is hosted by, and leases outlast their calls.        *)
(*                                                                         *)
(* OneHandle is not inductive: that a second handle is not opened rests on *)
(* `hosted` and `opening`, which every way to lose a handle has to keep in *)
(* step with the handles.  Nor are RoutesAreLive and CallsKeepLease: they  *)
(* rest on which operation has which attachment, and how far it has come.  *)
(* Thirty actions change those; what each does is said once, as the moves  *)
(* of one client, attachment, route and host, and the invariant follows    *)
(* from the moves.                                                         *)
(***************************************************************************)
EXTENDS SessionRouter, TLAPS

Stage == {"open", "closing", "unclosed", "closed", "dead"}
Taken == {"no", "removing", "removed"}
Handle == [session : Sessions, st : Stage, watched : BOOLEAN, taken : Taken]

HostType ==
    /\ handle \in Seq(Handle)
    /\ hosted \in [Sessions -> Nat]
    /\ opening \in [Sessions -> {"no", "opening", "closing"}]

\* An open handle is the one its session is hosted by.
OpenIsHosted ==
    \A h \in DOMAIN handle : handle[h].st = "open" => hosted[handle[h].session] = h

\* A session is hosted by a handle of its own, which no removal has taken.
HostedIsItsOwn ==
    \A s \in Sessions : hosted[s] # None =>
        /\ hosted[s] \in DOMAIN handle /\ handle[hosted[s]].session = s
        /\ handle[hosted[s]].taken # "removed"

\* A handle that is closed again at once keeps its session's opening pending.
ClosingIsOpening ==
    \A h \in DOMAIN handle : handle[h].st = "closing" => opening[handle[h].session] = "closing"

\* A session that is hosted is not opened.
OpeningIsNotHosted ==
    \A s \in Sessions : opening[s] # "no" => hosted[s] = None

HostInv ==
    /\ HostType /\ OpenIsHosted /\ HostedIsItsOwn /\ ClosingIsOpening /\ OpeningIsNotHosted
    /\ OneHandle

\* How a step changes a handle: it does not open again, and what has ended or has
\* been taken stays so.
Turns(h, x) ==
    /\ h \in DOMAIN handle /\ handle' = [handle EXCEPT ![h] = x]
    /\ x \in Handle /\ x.session = handle[h].session
    /\ x.st # handle[h].st => x.st \notin {"open", "closing"}
    /\ handle[h].st \in {"closed", "dead"} => x.st \in {"closed", "dead"}
    /\ handle[h].taken # "no" => x.taken # "no"
    /\ handle[h].taken = "removed" => x.taken = "removed"

------------------------------------------------------------------------------

\* At the start there is no handle, and nothing is hosted or opened.
LEMMA HostInit == Init => HostInv
  BY DEF Init, HostInv, HostType, OpenIsHosted, HostedIsItsOwn, ClosingIsOpening,
         OpeningIsNotHosted, OneHandle, None

\* What leaves hosts, openings and handles alone keeps the invariant.
LEMMA HostStutter ==
  ASSUME HostInv, UNCHANGED hostVars
  PROVE  HostInv'
  BY DEF HostInv, HostType, OpenIsHosted, HostedIsItsOwn, ClosingIsOpening,
         OpeningIsNotHosted, OneHandle, hostVars

\* Only a session that is not hosted comes to be opened.
LEMMA AttachKeeps ==
  ASSUME HostInv, NEW c \in Clients, AttachBegins(c)
  PROVE  HostInv'
<1> DEFINE s == Target(c)
<1>1. CASE UNCHANGED opening
  BY <1>1, HostStutter DEF AttachBegins, hostVars
<1>2. CASE hosted[s] = None /\ opening' = [opening EXCEPT ![s] = IF @ = "no" THEN "opening" ELSE @]
  <2>1. hosted' = hosted /\ handle' = handle
    BY DEF AttachBegins
  <2>2. HostType' /\ OpeningIsNotHosted'
    BY <1>2, <2>1 DEF HostInv, HostType, OpeningIsNotHosted, None
  <2>3. ClosingIsOpening'
    BY <1>2, <2>1 DEF HostInv, HostType, ClosingIsOpening
  <2>4. OpenIsHosted' /\ HostedIsItsOwn' /\ OneHandle'
    BY <2>1 DEF HostInv, OpenIsHosted, HostedIsItsOwn, OneHandle
  <2> QED BY <2>2, <2>3, <2>4 DEF HostInv
<1> QED BY <1>1, <1>2 DEF AttachBegins

\* A session that is being opened has no handle that is open or still to be closed.
LEMMA OpeningHasNone ==
  ASSUME HostInv, NEW s \in Sessions, opening[s] = "opening",
         NEW h \in DOMAIN handle, handle[h].session = s
  PROVE  handle[h].st \notin {"open", "closing"}
<1>1. hosted[s] = None
  BY DEF HostInv, OpeningIsNotHosted
<1>2. h # None
  BY DEF HostInv, HostType, None
<1> QED BY <1>1, <1>2 DEF HostInv, OpenIsHosted, ClosingIsOpening

\* The new handle is the only one of its session.
LEMMA OpenKeeps ==
  ASSUME HostInv, NEW s \in Sessions, OpenEnds(s)
  PROVE  HostInv'
<1> DEFINE st == IF Draining THEN "closing" ELSE "open"
           new == Len(handle) + 1
<1>1. PICK watched \in BOOLEAN :
         handle' = Append(handle, [session |-> s, st |-> st, watched |-> watched, taken |-> "no"])
  BY DEF OpenEnds
<1> DEFINE x == [session |-> s, st |-> st, watched |-> watched, taken |-> "no"]
<1>0. x \in Handle /\ x.session = s /\ x.st = st /\ x.taken = "no"
  BY DEF Handle, Stage, Taken
<1> HIDE DEF x
<1>7. opening[s] = "opening" /\ st \in {"open", "closing"} /\ handle' = Append(handle, x)
  BY <1>1 DEF OpenEnds, x
<1>2. /\ Len(handle') = new /\ DOMAIN handle' = DOMAIN handle \cup {new}
      /\ new \notin DOMAIN handle /\ handle'[new] = x
      /\ \A h \in DOMAIN handle : handle'[h] = handle[h]
      /\ handle' \in Seq(Handle)
  BY <1>0, <1>7 DEF HostInv, HostType
<1>3. \A h \in DOMAIN handle : handle[h].session = s => handle[h].st \notin {"open", "closing"}
  BY <1>7, OpeningHasNone
<1>4. OneHandle'
  BY <1>0, <1>2, <1>3 DEF HostInv, OneHandle
<1>5. CASE Draining
  <2>1. opening' = [opening EXCEPT ![s] = "closing"] /\ hosted' = hosted /\ st = "closing"
    BY <1>5 DEF OpenEnds
  <2>2. HostType'
    BY <1>2, <2>1 DEF HostInv, HostType
  <2>3. OpenIsHosted' /\ ClosingIsOpening'
    BY <1>0, <1>2, <2>1 DEF HostInv, HostType, OpenIsHosted, ClosingIsOpening
  <2>4. OpeningIsNotHosted'
    BY <1>7, <2>1 DEF HostInv, HostType, OpeningIsNotHosted
  <2>5. HostedIsItsOwn'
    BY <1>2, <2>1 DEF HostInv, HostType, HostedIsItsOwn
  <2> QED BY <1>4, <2>2, <2>3, <2>4, <2>5 DEF HostInv
<1>6. CASE ~Draining
  <2>1. /\ opening' = [opening EXCEPT ![s] = "no"] /\ hosted' = [hosted EXCEPT ![s] = new]
        /\ st = "open"
    BY <1>2, <1>6 DEF OpenEnds
  <2>2. HostType'
    BY <1>2, <2>1 DEF HostInv, HostType
  <2>3. OpenIsHosted' /\ ClosingIsOpening'
    BY <1>0, <1>2, <1>3, <2>1 DEF HostInv, HostType, OpenIsHosted, ClosingIsOpening
  <2>4. OpeningIsNotHosted'
    BY <1>7, <2>1 DEF HostInv, HostType, OpeningIsNotHosted
  <2>5. HostedIsItsOwn'
    BY <1>0, <1>2, <2>1 DEF HostInv, HostType, HostedIsItsOwn
  <2> QED BY <1>4, <2>2, <2>3, <2>4, <2>5 DEF HostInv
<1> QED BY <1>5, <1>6

\* An opening that fails had no handle that is still to be closed.
LEMMA FailKeeps ==
  ASSUME HostInv, NEW s \in Sessions, OpenFails(s)
  PROVE  HostInv'
<1>1. /\ opening[s] = "opening" /\ opening' = [opening EXCEPT ![s] = "no"]
      /\ hosted' = hosted /\ handle' = handle
  BY DEF OpenFails
<1>2. HostType' /\ OpenIsHosted' /\ HostedIsItsOwn' /\ OneHandle'
  BY <1>1 DEF HostInv, HostType, OpenIsHosted, HostedIsItsOwn, OneHandle
<1>3. ClosingIsOpening' /\ OpeningIsNotHosted'
  BY <1>1 DEF HostInv, HostType, ClosingIsOpening, OpeningIsNotHosted
<1> QED BY <1>2, <1>3 DEF HostInv

\* A handle that changes stays the same session's, and the others are left alone.
LEMMA TurnForm ==
  ASSUME HostType, NEW h, NEW x, Turns(h, x)
  PROVE  /\ handle' \in Seq(Handle) /\ DOMAIN handle' = DOMAIN handle /\ handle'[h] = x
         /\ \A g \in DOMAIN handle : handle'[g].session = handle[g].session
         /\ \A g \in DOMAIN handle : g # h => handle'[g] = handle[g]
<1>1. handle \in Seq(Handle) /\ h \in DOMAIN handle /\ x \in Handle
  BY DEF HostType, Turns
<1> QED BY <1>1 DEF Turns

\* What the steps write into a handle: how far it has come, and who has taken it.
LEMMA StageWritten ==
  ASSUME NEW r \in Handle, NEW st \in Stage
  PROVE  LET x == [r EXCEPT !.st = st] IN
         x \in Handle /\ x.session = r.session /\ x.st = st /\ x.taken = r.taken
  BY DEF Handle

LEMMA TakenWritten ==
  ASSUME NEW r \in Handle, NEW taken \in Taken
  PROVE  LET x == [r EXCEPT !.taken = taken] IN
         x \in Handle /\ x.session = r.session /\ x.st = r.st /\ x.taken = taken
  BY DEF Handle

LEMMA ToldWritten ==
  ASSUME NEW r \in Handle
  PROVE  LET x == [r EXCEPT !.watched = FALSE] IN
         x \in Handle /\ x.session = r.session /\ x.st = r.st /\ x.taken = r.taken
  BY DEF Handle

\* A handle ends, or cannot be closed, or is taken, and its session is hosted by it
\* as before or not at all.
LEMMA TurnKeeps ==
  ASSUME HostInv, NEW h, NEW x, Turns(h, x), opening' = opening,
         handle[h].st = "closing" => x.st = "closing",
         LET s == handle[h].session IN
           \/ hosted' = hosted /\ (hosted[s] = h => x.taken # "removed")
           \/ hosted[s] = h /\ hosted' = [hosted EXCEPT ![s] = None] /\ x.st # "open"
  PROVE  HostInv'
<1> DEFINE s == handle[h].session
<1>1. h \in DOMAIN handle /\ s \in Sessions /\ h # None
  <2>1. handle[h] \in Handle /\ h \in DOMAIN handle /\ h # None
    BY DEF HostInv, HostType, Turns, None
  <2> QED BY <2>1 DEF Handle
<1>2. /\ handle' \in Seq(Handle) /\ DOMAIN handle' = DOMAIN handle /\ handle'[h] = x
      /\ \A g \in DOMAIN handle : handle'[g].session = handle[g].session
      /\ \A g \in DOMAIN handle : g # h => handle'[g] = handle[g]
  BY TurnForm DEF HostInv
<1>3. \A g \in DOMAIN handle : handle'[g].st \in {"open", "closing"} => handle[g].st = handle'[g].st
  BY <1>1, <1>2 DEF Turns
<1>4. HostType'
  <2>1. hosted' = hosted \/ hosted' = [hosted EXCEPT ![s] = None]
    OBVIOUS
  <2> QED BY <1>2, <2>1 DEF HostInv, HostType, None
<1>5. OneHandle' /\ ClosingIsOpening'
  BY <1>2, <1>3 DEF HostInv, OneHandle, ClosingIsOpening
<1>6. CASE hosted' = hosted /\ (hosted[s] = h => x.taken # "removed")
  <2>1. OpenIsHosted' /\ OpeningIsNotHosted'
    BY <1>2, <1>3, <1>6 DEF HostInv, OpenIsHosted, OpeningIsNotHosted
  <2>2. HostedIsItsOwn'
    BY <1>1, <1>2, <1>6 DEF HostInv, HostedIsItsOwn
  <2> QED BY <1>4, <1>5, <2>1, <2>2 DEF HostInv
<1>7. CASE hosted[s] = h /\ hosted' = [hosted EXCEPT ![s] = None] /\ x.st # "open"
  <2>1. \A z \in Sessions : hosted'[z] = IF z = s THEN None ELSE hosted[z]
    BY <1>7 DEF HostInv, HostType
  <2>2. OpeningIsNotHosted'
    BY <2>1 DEF HostInv, OpeningIsNotHosted
  <2>3. OpenIsHosted'
    <3> SUFFICES ASSUME NEW g \in DOMAIN handle, handle'[g].st = "open"
                 PROVE  hosted'[handle[g].session] = g
      BY <1>2 DEF OpenIsHosted
    <3>1. g # h /\ hosted[handle[g].session] = g /\ handle[g] \in Handle
      BY <1>2, <1>3, <1>7 DEF HostInv, OpenIsHosted, HostType
    <3> QED BY <1>7, <2>1, <3>1 DEF Handle
  <2>4. HostedIsItsOwn'
    BY <1>1, <1>2, <2>1 DEF HostInv, HostedIsItsOwn
  <2> QED BY <1>4, <1>5, <2>2, <2>3, <2>4 DEF HostInv
<1> QED BY <1>6, <1>7

\* A handle that came too late is closed, or is not, and its opening is over.
LEMMA LateKeeps ==
  ASSUME HostInv, NEW h, NEW x, Turns(h, x), handle[h].st = "closing", x.st # "closing",
         x.taken = handle[h].taken,
         opening' = [opening EXCEPT ![handle[h].session] = "no"], hosted' = hosted
  PROVE  HostInv'
<1> DEFINE s == handle[h].session
<1>1. h \in DOMAIN handle /\ x.st # "open"
  BY DEF Turns
<1>2. /\ handle' \in Seq(Handle) /\ DOMAIN handle' = DOMAIN handle /\ handle'[h] = x
      /\ \A g \in DOMAIN handle : handle'[g].session = handle[g].session
      /\ \A g \in DOMAIN handle : g # h => handle'[g] = handle[g]
  BY TurnForm DEF HostInv
<1>3. \A g \in DOMAIN handle : g # h /\ handle[g].st = "closing" => handle[g].session # s
  BY <1>1 DEF HostInv, OneHandle
<1>4. HostType' /\ OneHandle' /\ OpenIsHosted'
  BY <1>1, <1>2 DEF HostInv, HostType, OneHandle, OpenIsHosted
<1>5. ClosingIsOpening'
  <2> SUFFICES ASSUME NEW g \in DOMAIN handle, handle'[g].st = "closing"
               PROVE  opening'[handle'[g].session] = "closing"
    BY <1>2 DEF ClosingIsOpening
  <2>1. g # h /\ handle[g].st = "closing" /\ handle'[g].session = handle[g].session
    BY <1>2
  <2>2. handle[g].session # s /\ opening[handle[g].session] = "closing"
    BY <1>3, <2>1 DEF HostInv, ClosingIsOpening
  <2> QED BY <2>1, <2>2 DEF HostInv, HostType
<1>6. OpeningIsNotHosted'
  BY DEF HostInv, HostType, OpeningIsNotHosted
<1>7. HostedIsItsOwn'
  BY <1>1, <1>2 DEF HostInv, HostedIsItsOwn
<1> QED BY <1>4, <1>5, <1>6, <1>7 DEF HostInv

\* A handle comes to another stage.
LEMMA StageTurn ==
  ASSUME HostInv, NEW h \in DOMAIN handle, NEW st \in Stage,
         handle' = [handle EXCEPT ![h].st = st],
         st # handle[h].st => st \notin {"open", "closing"},
         handle[h].st \in {"closed", "dead"} => st \in {"closed", "dead"}
  PROVE  \E x : Turns(h, x) /\ x.st = st /\ x.taken = handle[h].taken
<1> DEFINE x == [handle[h] EXCEPT !.st = st]
<1>1. handle[h] \in Handle /\ "no" \in Taken
  BY DEF HostInv, HostType, Taken
<1>2. x \in Handle /\ x.session = handle[h].session /\ x.st = st /\ x.taken = handle[h].taken
  BY <1>1, StageWritten
<1>3. handle' = [handle EXCEPT ![h] = x]
  OBVIOUS
<1> HIDE DEF x
<1>4. Turns(h, x)
  BY <1>2, <1>3 DEF Turns
<1> QED BY <1>2, <1>4

\* A handle whose end is told stays as it is.
LEMMA ToldTurn ==
  ASSUME HostInv, NEW h \in DOMAIN handle, Terminated(h)
  PROVE  \E x : Turns(h, x) /\ x.st = handle[h].st /\ x.taken = handle[h].taken
<1> DEFINE x == [handle[h] EXCEPT !.watched = FALSE]
<1>1. handle[h] \in Handle /\ "no" \in Taken /\ "open" \in Stage
  BY DEF HostInv, HostType, Taken, Stage
<1>2. /\ x \in Handle /\ x.session = handle[h].session
      /\ x.st = handle[h].st /\ x.taken = handle[h].taken
  BY <1>1, ToldWritten
<1>3. handle' = [handle EXCEPT ![h] = x]
  BY DEF Terminated
<1> HIDE DEF x
<1>4. Turns(h, x)
  BY <1>2, <1>3 DEF Turns
<1> QED BY <1>2, <1>4

\* The handle that is removed is being taken from now on.
LEMMA RemoveTurn ==
  ASSUME HostInv, NEW s \in Sessions, RemoveBegins(s)
  PROVE  \E x : /\ Turns(hosted[s], x) /\ x.st = handle[hosted[s]].st
                /\ x.taken = "removing"
<1> DEFINE h == hosted[s]
           x == [handle[h] EXCEPT !.taken = "removing"]
<1>1. h \in DOMAIN handle /\ handle[h].taken # "removed"
  BY DEF RemoveBegins, HostInv, HostedIsItsOwn
<1>2. handle[h] \in Handle /\ "removing" \in Taken /\ "open" \in Stage
  BY <1>1 DEF HostInv, HostType, Taken, Stage
<1>3. x \in Handle /\ x.session = handle[h].session /\ x.st = handle[h].st /\ x.taken = "removing"
  BY <1>2, TakenWritten
<1>4. handle' = [handle EXCEPT ![h] = x]
  BY DEF RemoveBegins
<1> HIDE DEF x
<1>5. Turns(h, x)
  BY <1>1, <1>3, <1>4 DEF Turns
<1> QED BY <1>3, <1>5

\* A removal that ends has taken the handle if its session was still hosted by it.
LEMMA TakeTurn ==
  ASSUME HostInv, NEW s \in Sessions, RemoveEnds(s), removal[s].handle \in DOMAIN handle
  PROVE  LET h == removal[s].handle IN
         \E x : /\ Turns(h, x) /\ x.st # "open"
                /\ handle[h].st = "closing" => x.st = "closing"
                /\ IF hosted[s] = h THEN x.taken = "removed"
                   ELSE x.taken = handle[h].taken
<1> DEFINE h == removal[s].handle
           r == handle[h]
<1>1. PICK st \in {r.st, Unclosed(h)} :
         /\ handle' = [handle EXCEPT ![h] = [r EXCEPT !.st = st, !.taken =
                                    IF hosted[s] = h THEN "removed" ELSE r.taken]]
         /\ st # "open"
  BY DEF RemoveEnds, CloseReturned, Unclosed, Serves
<1> DEFINE has == IF hosted[s] = h THEN "removed" ELSE r.taken
           x == [r EXCEPT !.st = st, !.taken = has]
<1>2. r \in Handle
  BY DEF HostInv, HostType
<1>3. r.st \in Stage /\ r.taken \in Taken
  BY <1>2 DEF Handle
<1>4. st \in Stage /\ has \in Taken
  BY <1>1, <1>3 DEF Unclosed, Stage, Taken
<1>5. x \in Handle /\ x.session = r.session /\ x.st = st /\ x.taken = has
  <2> DEFINE w(q, v) == [q EXCEPT !.st = st, !.taken = v]
  <2>1. ASSUME NEW q \in Handle, NEW v \in Taken
        PROVE  /\ w(q, v) \in Handle /\ w(q, v).session = q.session
               /\ w(q, v).st = st /\ w(q, v).taken = v
    BY <1>4 DEF Handle
  <2>2. x = w(r, has)
    OBVIOUS
  <2> HIDE DEF w, x, has, r
  <2> QED BY <1>2, <1>4, <2>1, <2>2
<1> HIDE DEF has
<1>6. handle' = [handle EXCEPT ![h] = x]
  BY <1>1 DEF has
<1> HIDE DEF x
<1>7. hosted[s] = h => r.taken # "removed"
  BY DEF HostInv, HostType, HostedIsItsOwn, None
<1>8. Turns(h, x)
  BY <1>1, <1>5, <1>6, <1>7 DEF Turns, Unclosed, Serves, has
<1>9. (r.st = "closing" => st = "closing") /\ st # "open"
  BY <1>1 DEF Unclosed, Serves
<1>10. IF hosted[s] = h THEN has = "removed" ELSE has = r.taken
  BY <1>1 DEF has
<1> QED BY <1>5, <1>8, <1>9, <1>10

\* The host of a session dies, a handle is closed or cannot be closed.
LEMMA StageKeeps ==
  ASSUME HostInv, NEW h \in Handles,
         Terminate(h) \/ HandleCloses(h) \/ KeepsHandle(h) \/ LeavesHandle(h)
  PROVE  HostInv'
<1>0. CASE h \notin DOMAIN handle
  <2>1. KeepsHandle(h) /\ UNCHANGED <<hosted, opening>> /\ handle' = [handle EXCEPT ![h].st = Unclosed(h)]
    BY <1>0 DEF Terminate, HandleCloses, KeepsHandle, LeavesHandle
  <2>2. handle' = handle
    BY <1>0, <2>1 DEF HostInv, HostType
  <2> QED BY <2>1, <2>2, HostStutter DEF hostVars
<1>1. CASE h \in DOMAIN handle /\ (Terminate(h) \/ KeepsHandle(h) \/ (HandleCloses(h) /\ Serves(h)))
  <2>1. PICK st \in {"dead", "closed", "unclosed", handle[h].st} :
          /\ handle' = [handle EXCEPT ![h].st = st]
          /\ st # handle[h].st => Serves(h)
    BY <1>1 DEF Terminate, HandleCloses, KeepsHandle, Unclosed
  <2>2. UNCHANGED <<hosted, opening>>
    BY <1>1 DEF Terminate, HandleCloses, KeepsHandle, Serves
  <2>3. handle[h] \in Handle /\ st \in Stage
    <3>1. handle[h] \in Handle
      BY <1>1 DEF HostInv, HostType
    <3> QED BY <3>1 DEF Handle, Stage
  <2>4. PICK x : Turns(h, x) /\ x.st = st /\ x.taken = handle[h].taken
    BY <1>1, <2>1, <2>3, StageTurn DEF Serves
  <2>5. hosted[handle[h].session] = h => x.taken # "removed"
    BY <1>1, <2>3, <2>4 DEF HostInv, HostType, HostedIsItsOwn, Handle, None
  <2>6. handle[h].st = "closing" => x.st = "closing"
    BY <2>1, <2>4 DEF Serves
  <2> QED BY <2>2, <2>4, <2>5, <2>6, TurnKeeps
<1>2. CASE h \in DOMAIN handle /\ handle[h].st = "closing" /\ (HandleCloses(h) \/ LeavesHandle(h))
  <2>1. PICK st \in {"closed", "unclosed"} : handle' = [handle EXCEPT ![h].st = st]
    BY <1>2 DEF HandleCloses, LeavesHandle
  <2>2. opening' = [opening EXCEPT ![handle[h].session] = "no"] /\ hosted' = hosted
    BY <1>2 DEF HandleCloses, LeavesHandle, Serves
  <2>3. PICK x : Turns(h, x) /\ x.st = st /\ x.taken = handle[h].taken
    <3>1. st \in Stage
      BY DEF Stage
    <3> QED BY <1>2, <2>1, <3>1, StageTurn
  <2> QED BY <1>2, <2>2, <2>3, LateKeeps
<1> QED BY <1>0, <1>1, <1>2 DEF HandleCloses, LeavesHandle

\* The end of a handle is told.
LEMMA ToldKeeps ==
  ASSUME HostInv, NEW h \in Handles, Terminated(h)
  PROVE  HostInv'
<1> DEFINE s == handle[h].session
<1>1. h \in DOMAIN handle /\ handle[h].st \in {"closed", "dead"} /\ opening' = opening
  BY DEF Terminated
<1>2. PICK x : Turns(h, x) /\ x.st = handle[h].st /\ x.taken = handle[h].taken
  BY <1>1, ToldTurn
<1>3. \/ hosted' = hosted /\ hosted[s] # h
      \/ hosted[s] = h /\ hosted' = [hosted EXCEPT ![s] = None] /\ x.st # "open"
  BY <1>1, <1>2 DEF Terminated
<1> QED BY <1>1, <1>2, <1>3, TurnKeeps

\* A removal begins.
LEMMA BeginKeeps ==
  ASSUME HostInv, NEW s \in Sessions, RemoveBegins(s)
  PROVE  HostInv'
<1>1. PICK x : Turns(hosted[s], x) /\ x.st = handle[hosted[s]].st /\ x.taken = "removing"
  BY RemoveTurn
<1>2. opening' = opening /\ hosted' = hosted
  BY DEF RemoveBegins
<1> QED BY <1>1, <1>2, TurnKeeps

\* Sessions cease to be hosted by handles that are not open.
LEMMA UnhostKeeps ==
  ASSUME HostInv, opening' = opening, handle' = handle, hosted' \in [Sessions -> Nat],
         \A s \in Sessions : \/ hosted'[s] = hosted[s]
                             \/ hosted'[s] = None /\ CloseReturned(hosted[s])
  PROVE  HostInv'
<1>1. HostType' /\ ClosingIsOpening' /\ OneHandle'
  BY DEF HostInv, HostType, ClosingIsOpening, OneHandle
<1>2. OpenIsHosted'
  <2> SUFFICES ASSUME NEW h \in DOMAIN handle, handle[h].st = "open"
               PROVE  hosted'[handle[h].session] = h
    BY DEF OpenIsHosted
  <2>1. handle[h] \in Handle /\ hosted[handle[h].session] = h
    BY DEF HostInv, HostType, OpenIsHosted
  <2> QED BY <2>1 DEF CloseReturned, Serves, Handle
<1>3. OpeningIsNotHosted' /\ HostedIsItsOwn'
  BY DEF HostInv, OpeningIsNotHosted, HostedIsItsOwn
<1> QED BY <1>1, <1>2, <1>3 DEF HostInv

\* A removal ends, with its handle closed or not.
LEMMA RemoveKeeps ==
  ASSUME HostInv, NEW s \in Sessions, RemoveEnds(s)
  PROVE  HostInv'
<1> DEFINE h == removal[s].handle
<1>1. /\ opening' = opening
      /\ hosted' = IF hosted[s] = h THEN [hosted EXCEPT ![s] = None] ELSE hosted
  BY DEF RemoveEnds
<1>2. CASE h \notin DOMAIN handle
  <2>1. handle' = handle
    BY <1>2 DEF RemoveEnds, HostInv, HostType
  <2>2. hosted[s] = h => hosted[s] = None
    BY <1>2 DEF HostInv, HostedIsItsOwn
  <2>3. hosted' = hosted
    BY <1>1, <2>2 DEF HostInv, HostType
  <2> QED BY <1>1, <2>1, <2>3, HostStutter DEF hostVars
<1>3. CASE h \in DOMAIN handle
  <2>1. PICK x : /\ Turns(h, x) /\ x.st # "open" /\ (handle[h].st = "closing" => x.st = "closing")
                 /\ IF hosted[s] = h THEN x.taken = "removed"
                    ELSE x.taken = handle[h].taken
    BY <1>3, TakeTurn
  <2>2. CASE hosted[s] = h
    <3>1. handle[h].session = s
      BY <1>3, <2>2 DEF HostInv, HostType, HostedIsItsOwn, None
    <3> QED BY <1>1, <2>1, <2>2, <3>1, TurnKeeps
  <2>3. CASE hosted[s] # h
    <3>1. handle[h] \in Handle /\ h # None
      BY <1>3 DEF HostInv, HostType, None
    <3>2. hosted[handle[h].session] = h => handle[h].taken # "removed"
      BY <3>1 DEF HostInv, HostedIsItsOwn, Handle
    <3> QED BY <1>1, <2>1, <2>3, <3>2, TurnKeeps
  <2> QED BY <2>2, <2>3
<1> QED BY <1>2, <1>3

\* The shutdown ends when the handles have been closed, or cannot be.
LEMMA ShutdownKeeps ==
  ASSUME HostInv, RouterClosed
  PROVE  HostInv'
<1> DEFINE done == closing.handles \ closing.kept
<1>1. /\ opening' = opening /\ handle' = handle
      /\ hosted' = [s \in Sessions |-> IF hosted[s] \in done THEN None ELSE hosted[s]]
      /\ \A h \in done : CloseReturned(h)
  BY DEF RouterClosed
<1> QED BY <1>1, UnhostKeeps DEF HostInv, HostType, None

------------------------------------------------------------------------------

\* Every step of the server keeps the invariant.
LEMMA HostNext == HostInv /\ [Next]_vars => HostInv'
<1> SUFFICES ASSUME HostInv, [Next]_vars PROVE HostInv'
  OBVIOUS
<1>1. CASE UNCHANGED vars
  BY <1>1, HostStutter DEF vars, hostVars
<1>2. CASE Environment
  <2>1. ASSUME NEW h \in Handles, Terminate(h) \/ KeepsHandle(h) \/ LeavesHandle(h) PROVE HostInv'
    BY <2>1, StageKeeps
  <2>2. ASSUME NEW s \in Sessions, RemoveBegins(s) PROVE HostInv'
    BY <2>2, BeginKeeps
  <2>3. CASE CloseServer \/ \E c \in Clients :
                \/ AskDetach(c) \/ AskCall(c) \/ LoseConnection(c)
                \/ \E s \in Sessions : AskAttach(c, s)
    BY <2>3, HostStutter
       DEF AskDetach, AskCall, LoseConnection, AskAttach, Ask, Lose, CloseServer, hostVars
  <2> QED BY <1>2, <2>1, <2>2, <2>3 DEF Environment
<1>3. CASE Shutdown
  BY <1>3, HostStutter, ShutdownKeeps
     DEF Shutdown, CloseConnections, Lose, RouterReleases, RouterCloses, hostVars
<1>4. CASE \E c \in Clients : ClientStep(c)
  BY <1>4, HostStutter, AttachKeeps
     DEF ClientStep, Acquired, Switched, LeaseComes, LeaseFails, LeaveBegins, LeaveEnds,
         CallStarts, hostVars
<1>5. CASE \E s \in Sessions : HostStep(s)
  BY <1>5, HostStutter, OpenKeeps, FailKeeps, RemoveKeeps DEF HostStep, RemoveCloses, hostVars
<1>6. CASE \E i \in Ids : ReleaseStep(i) \/ \E k \in Calls : CallEnds(i, k)
  BY <1>6, HostStutter
     DEF ReleaseStep, ReturnLease, LeaseReturned, ReleaseFails, Clear, CallEnds, hostVars
<1>7. CASE \E h \in Handles : HandleStep(h)
  BY <1>7, StageKeeps, ToldKeeps DEF HandleStep
<1> QED BY <1>1, <1>2, <1>3, <1>4, <1>5, <1>6, <1>7 DEF Next

\* However many clients open a session, remove it, see its host die or the server
\* drain, it never has two handles that are open or still to be closed, but for those
\* whose close() has failed (acquire, open, invalidate, removeSession, closeInternal).
THEOREM SessionHasOneHandle == Spec => []OneHandle
<1>1. HostInv => OneHandle
  BY DEF HostInv
<1> QED BY <1>1, HostInit, HostNext, PTL DEF Spec


------------------------------------------------------------------------------
(* Types *)

Operation ==
    [op : {"attach"}, arg : Sessions]
    \cup [op : {"detach", "disconnect"}, arg : {None}]
    \cup [op : {"call"}, arg : Ids, call : Calls]

Attachment ==
    [client : Clients \cup {"none"}, handle : Nat, listed : BOOLEAN,
     lease : {"none", "acquiring", "held", "refused", "returned"}, calls : SUBSET Calls,
     release : {"no", "calls", "returning", "done", "failed"}, owed : SUBSET Calls,
     tell : BOOLEAN]

Removal == [at : {"none", "releasing", "closing"}, handle : Nat, waits : SUBSET Ids]

Closing == [at : {"open", "draining", "settling", "releasing", "closing", "closed"},
            waits : SUBSET Ids, handles : SUBSET Nat, kept : SUBSET Nat, errors : BOOLEAN]

Steps == {"idle", "opening", "acquired", "switching", "leasing", "dropping", "leaving"}
Attached == {"switching", "leasing", "dropping", "leaving"}

ClientType ==
    /\ queue \in [Clients -> Seq(Operation)] /\ step \in [Clients -> Steps]
    /\ hold \in [Clients -> Nat] /\ mine \in [Clients -> Ids \cup {None}]
    /\ \A c \in Clients : step[c] # "idle" => queue[c] # <<>>
    /\ \A c \in Clients : step[c] \in Attached => mine[c] # None

RouterType ==
    /\ ClientType
    /\ route \in [Clients -> Ids \cup {None}] /\ shown \in [Clients -> Ids \cup {None}]
    /\ att \in [Ids -> Attachment]
    /\ removal \in [Sessions -> Removal] /\ closing \in Closing
    /\ left \in [Kinds -> Nat] /\ left["call"] <= MaxCalls

\* What the operations write into an attachment is an attachment again.
LEMMA AttachmentUpdates ==
  ASSUME NEW x \in Attachment
  PROVE  /\ \A o \in SUBSET Calls, b \in BOOLEAN :
              [x EXCEPT !.release = "calls", !.owed = o, !.tell = b] \in Attachment
         /\ \A l \in {"held", "refused", "returned"} : [x EXCEPT !.lease = l] \in Attachment
         /\ \A r \in {"no", "calls", "returning", "done", "failed"} :
              [x EXCEPT !.release = r] \in Attachment
         /\ [x EXCEPT !.listed = FALSE] \in Attachment
         /\ \A k \in SUBSET Calls : [x EXCEPT !.calls = k] \in Attachment
<1>1. ASSUME NEW o \in SUBSET Calls, NEW b \in BOOLEAN
      PROVE  [x EXCEPT !.release = "calls", !.owed = o, !.tell = b] \in Attachment
  BY DEF Attachment
<1>2. ASSUME NEW l \in {"held", "refused", "returned"} PROVE [x EXCEPT !.lease = l] \in Attachment
  BY DEF Attachment
<1>3. ASSUME NEW r \in {"no", "calls", "returning", "done", "failed"}
      PROVE  [x EXCEPT !.release = r] \in Attachment
  BY DEF Attachment
<1>4. [x EXCEPT !.listed = FALSE] \in Attachment
  BY DEF Attachment
<1>5. ASSUME NEW k \in SUBSET Calls PROVE [x EXCEPT !.calls = k] \in Attachment
  BY DEF Attachment
<1>. QED  BY <1>1, <1>2, <1>3, <1>4, <1>5

\* A release that begins notes the calls it waits for, and leaves the rest alone.
LEMMA ReleasingForm ==
  ASSUME RouterType, NEW ids, NEW tell \in BOOLEAN, att' = Releasing(ids, tell)
  PROVE  /\ att' \in [Ids -> Attachment]
         /\ \A i \in Ids :
              IF i \in ids /\ att[i].release = "no"
              THEN /\ att'[i].release = "calls" /\ att'[i].owed = att[i].calls
                   /\ att'[i].client = att[i].client /\ att'[i].handle = att[i].handle
                   /\ att'[i].lease = att[i].lease /\ att'[i].calls = att[i].calls
                   /\ att'[i].listed = att[i].listed
              ELSE att'[i] = att[i]
<1>1. ASSUME NEW i \in Ids
      PROVE  /\ att[i] \in Attachment /\ att[i].calls \in SUBSET Calls
             /\ att'[i] = IF i \in ids /\ att[i].release = "no"
                          THEN [att[i] EXCEPT !.release = "calls", !.owed = att[i].calls, !.tell = tell]
                          ELSE att[i]
  BY DEF RouterType, Releasing, Owed, Attachment
<1>. DEFINE begun(x) == [x EXCEPT !.release = "calls", !.owed = x.calls, !.tell = tell]
<1>5. ASSUME NEW x \in Attachment
      PROVE  /\ begun(x) \in Attachment
             /\ begun(x).release = "calls" /\ begun(x).owed = x.calls
             /\ begun(x).client = x.client /\ begun(x).handle = x.handle
             /\ begun(x).lease = x.lease /\ begun(x).calls = x.calls
             /\ begun(x).listed = x.listed
  BY DEF Attachment
<1>6. ASSUME NEW i \in Ids PROVE att'[i] = IF i \in ids /\ att[i].release = "no" THEN begun(att[i]) ELSE att[i]
  BY <1>1
<1>. HIDE DEF begun
<1>2. ASSUME NEW i \in Ids PROVE att'[i] \in Attachment
  BY <1>1, <1>5, <1>6
<1>3. att' \in [Ids -> Attachment]
  BY <1>2 DEF Releasing
<1>4. ASSUME NEW i \in Ids, i \in ids, att[i].release = "no"
      PROVE  /\ att'[i].release = "calls" /\ att'[i].owed = att[i].calls
             /\ att'[i].client = att[i].client /\ att'[i].handle = att[i].handle
             /\ att'[i].lease = att[i].lease /\ att'[i].calls = att[i].calls
             /\ att'[i].listed = att[i].listed
  <2>1. att'[i] = begun(att[i]) /\ att[i] \in Attachment
    BY <1>1, <1>4, <1>6
  <2>. QED  BY <2>1, <1>5
<1>. QED  BY <1>3, <1>4, <1>6

\* A new attachment waits for its lease.
LEMMA LeasesForm ==
  ASSUME RouterType, NEW c \in Clients, Leases(c), step[c] # "idle"
  PROVE  /\ att' \in [Ids -> Attachment] /\ ClientType'
         /\ \E i \in Ids \ Used :
              /\ \A j \in Ids \ {i} : att'[j] = att[j]
              /\ att'[i].client = c /\ att'[i].handle = hold[c] /\ att'[i].listed
              /\ att'[i].lease = "acquiring" /\ att'[i].calls = {} /\ att'[i].release = "no"
              /\ mine' = [mine EXCEPT ![c] = i] /\ step' = [step EXCEPT ![c] = "leasing"]
              /\ UNCHANGED <<queue, hold>>
<1>1. PICK i \in Ids \ Used :
        /\ att' = [att EXCEPT ![i] = [Free EXCEPT !.client = c, !.handle = hold[c],
                                                 !.listed = TRUE, !.lease = "acquiring"]]
        /\ mine' = [mine EXCEPT ![c] = i]
        /\ Goes(c, "leasing") /\ UNCHANGED hold
  BY DEF Leases
<1>. DEFINE v == [Free EXCEPT !.client = c, !.handle = hold[c],
                              !.listed = TRUE, !.lease = "acquiring"]
<1>2. v \in Attachment
  BY DEF Free, Attachment, RouterType, ClientType
<1>3. /\ v.client = c /\ v.handle = hold[c] /\ v.listed
      /\ v.lease = "acquiring" /\ v.calls = {} /\ v.release = "no"
  BY DEF Free
<1>. HIDE DEF v
<1>4. att' = [att EXCEPT ![i] = v]
  BY <1>1 DEF v
<1>5. att' \in [Ids -> Attachment] /\ att'[i] = v /\ \A j \in Ids \ {i} : att'[j] = att[j]
  BY <1>2, <1>4 DEF RouterType
<1>6. step' = [step EXCEPT ![c] = "leasing"] /\ UNCHANGED queue
  BY <1>1 DEF Goes
<1>7. ClientType'
  BY <1>1, <1>6 DEF RouterType, ClientType, Steps, Attached, None, Ids, Used
<1>. QED  BY <1>1, <1>3, <1>5, <1>6, <1>7

\* An operation that goes on keeps its place, and one that ends leaves it to the next.
LEMMA ClientForms ==
  ASSUME ClientType, NEW c \in Clients
  PROVE  /\ \A at \in Steps : queue[c] # <<>> /\ (at \in Attached => mine[c] # None) =>
              (Goes(c, at) /\ UNCHANGED <<hold, mine>> => ClientType')
         /\ Ends(c) /\ queue[c] # <<>> => ClientType'
         /\ queue[c] # <<>> => Head(queue[c]) \in Operation
<1>1. ASSUME NEW at \in Steps, queue[c] # <<>>, at \in Attached => mine[c] # None,
             Goes(c, at), UNCHANGED <<hold, mine>>
      PROVE  ClientType'
  BY <1>1 DEF Goes, ClientType
<1>2. ASSUME queue[c] # <<>> PROVE Tail(queue[c]) \in Seq(Operation) /\ Head(queue[c]) \in Operation
  BY <1>2 DEF ClientType
<1>3. ASSUME Ends(c), queue[c] # <<>> PROVE ClientType'
  BY <1>2, <1>3 DEF Ends, ClientType, Steps, Attached, None
<1>. QED  BY <1>1, <1>2, <1>3

\* The clients of an opening go on or are refused, each with its next operation.
LEMMA ResumeForm ==
  ASSUME ClientType, NEW s \in Sessions, NEW h \in Nat, Resume(s, h)
  PROVE  /\ ClientType'
         /\ \A c \in Clients \ Waiting(s) :
              step'[c] = step[c] /\ mine'[c] = mine[c] /\ hold'[c] = hold[c]
         /\ \A c \in Waiting(s) :
              /\ step[c] = "opening"
              /\ IF h # None THEN step'[c] = "acquired" /\ hold'[c] = h /\ mine'[c] = mine[c]
                 ELSE step'[c] = "idle" /\ mine'[c] = None
<1>1. ASSUME NEW c \in Waiting(s)
      PROVE  c \in Clients /\ step[c] = "opening" /\ Tail(queue[c]) \in Seq(Operation)
  BY <1>1 DEF Waiting, Running, ClientType
<1>2. CASE h # None
  BY <1>1, <1>2 DEF Resume, ClientType, Steps, Attached
<1>3. CASE h = None
  <2>1. ASSUME NEW c \in Clients
        PROVE  /\ UNCHANGED hold
               /\ IF c \in Waiting(s)
                  THEN queue'[c] = Tail(queue[c]) /\ step'[c] = "idle" /\ mine'[c] = None
                  ELSE queue'[c] = queue[c] /\ step'[c] = step[c] /\ mine'[c] = mine[c]
    BY <1>3 DEF Resume
  <2>2. ASSUME NEW c \in Clients
        PROVE  /\ queue'[c] \in Seq(Operation) /\ step'[c] \in Steps /\ mine'[c] \in Ids \cup {None}
               /\ step'[c] # "idle" => queue'[c] # <<>>
               /\ step'[c] \in Attached => mine'[c] # None
    BY <1>1, <2>1 DEF ClientType, Steps, Attached
  <2>3. ClientType'
    BY <1>3, <2>2, <2>1 DEF Resume, ClientType
  <2>. QED  BY <1>1, <1>3, <2>1, <2>3
<1>. QED  BY <1>2, <1>3

\* What is spent was there.
LEMMA SpendType ==
  ASSUME RouterType, NEW kind \in Kinds, Spend(kind)
  PROVE  left' \in [Kinds -> Nat] /\ left'["call"] <= MaxCalls /\ left[kind] \in Nat \ {0}
<1>1. left[kind] \in Nat \ {0} /\ left' = [left EXCEPT ![kind] = left[kind] - 1] /\ "call" \in Kinds
  BY DEF RouterType, Spend, Kinds
<1>2. left' \in [Kinds -> Nat] /\ left'["call"] <= left["call"]
  BY <1>1 DEF RouterType
<1>. QED  BY <1>1, <1>2, RouterAssumption DEF RouterType

\* A queue that has been added to is a queue, and not empty.
LEMMA Queued ==
  ASSUME NEW S, NEW q \in Seq(S), NEW x \in S
  PROVE  Append(q, x) \in Seq(S) /\ Append(q, x) # <<>>
<1>1. Append(q, x) \in Seq(S) /\ Len(Append(q, x)) = Len(q) + 1 /\ Len(q) \in Nat
  OBVIOUS
<1>2. Len(<<>>) = 0
  OBVIOUS
<1>. QED  BY <1>1, <1>2

\* Requests are queued behind the others of their client.
LEMMA AskType ==
  ASSUME RouterType, NEW c \in Clients, NEW op \in Operation, Ask(c, op)
  PROVE  ClientType'
<1>1. queue' = [queue EXCEPT ![c] = Append(queue[c], op)] /\ queue[c] \in Seq(Operation)
  BY DEF Ask, RouterType, ClientType
<1>2. Append(queue[c], op) \in Seq(Operation) /\ Append(queue[c], op) # <<>>
  BY <1>1, Queued
<1>. QED  BY <1>1, <1>2 DEF Ask, RouterType, ClientType

\* So is the disconnection of each client that is lost.
LEMMA LoseType ==
  ASSUME RouterType, NEW clients, Lose(clients)
  PROVE  ClientType'
<1>. DEFINE op == [op |-> "disconnect", arg |-> None]
<1>1. op \in Operation
  BY DEF Operation
<1>. HIDE DEF op
<1>2. ASSUME NEW c \in Clients
      PROVE  Append(queue[c], op) \in Seq(Operation) /\ Append(queue[c], op) # <<>>
  BY <1>1, Queued DEF RouterType, ClientType
<1>3. queue' = [c \in Clients |-> IF c \in clients THEN Append(queue[c], op) ELSE queue[c]]
  BY DEF Lose, op
<1>4. queue' \in [Clients -> Seq(Operation)] /\ \A c \in Clients : queue[c] # <<>> => queue'[c] # <<>>
  BY <1>2, <1>3 DEF RouterType, ClientType
<1>5. UNCHANGED <<step, hold, mine>>
  BY DEF Lose
<1>. QED  BY <1>4, <1>5 DEF RouterType, ClientType

\* What changes one attachment changes it to another.
LEMMA OneAttachment ==
  ASSUME RouterType, NEW i \in Ids, NEW v \in Attachment, att' = [att EXCEPT ![i] = v]
  PROVE  att' \in [Ids -> Attachment] /\ att'[i] = v /\ \A j \in Ids \ {i} : att'[j] = att[j]
  BY DEF RouterType

\* A release that ends leaves its attachment unlisted and without a lease.
LEMMA ClearForm ==
  ASSUME RouterType, NEW i \in Ids, NEW outcome \in {"done", "failed"}, Clear(i, outcome)
  PROVE  /\ att' \in [Ids -> Attachment] /\ \A j \in Ids \ {i} : att'[j] = att[j]
         /\ att'[i].client = att[i].client /\ att'[i].handle = att[i].handle
         /\ att'[i].release = outcome /\ att'[i].calls = att[i].calls
         /\ att'[i].lease = IF att[i].lease = "held" THEN "returned" ELSE att[i].lease
         /\ route' = IF route[att[i].client] = i THEN [route EXCEPT ![att[i].client] = None] ELSE route
         /\ shown' \in [Clients -> Ids \cup {None}]
<1>. DEFINE cleared(x) == [x EXCEPT !.release = outcome, !.listed = FALSE,
                                    !.lease = IF x.lease = "held" THEN "returned" ELSE x.lease]
<1>1. ASSUME NEW x \in Attachment
      PROVE  /\ cleared(x) \in Attachment
             /\ cleared(x).client = x.client /\ cleared(x).handle = x.handle
             /\ cleared(x).release = outcome /\ cleared(x).calls = x.calls
             /\ cleared(x).lease = IF x.lease = "held" THEN "returned" ELSE x.lease
  BY DEF Attachment
<1>2. att[i] \in Attachment /\ att' = [att EXCEPT ![i] = cleared(att[i])]
  BY DEF Clear, RouterType
<1>. HIDE DEF cleared
<1>3. cleared(att[i]) \in Attachment
  BY <1>1, <1>2
<1>4. att' \in [Ids -> Attachment] /\ att'[i] = cleared(att[i]) /\ \A j \in Ids \ {i} : att'[j] = att[j]
  BY <1>2, <1>3, OneAttachment
<1>5. shown' \in [Clients -> Ids \cup {None}]
  BY DEF Clear, RouterType, None
<1>6. route' = IF route[att[i].client] = i THEN [route EXCEPT ![att[i].client] = None] ELSE route
  BY DEF Clear
<1>. QED  BY <1>1, <1>2, <1>4, <1>5, <1>6


\* A lease goes back.
LEMMA ReturnForm ==
  ASSUME RouterType, NEW i \in Ids, ReturnLease(i)
  PROVE  /\ att' \in [Ids -> Attachment] /\ \A j \in Ids \ {i} : att'[j] = att[j]
         /\ att'[i].client = att[i].client /\ att'[i].handle = att[i].handle
         /\ att'[i].release = "returning" /\ att'[i].calls = att[i].calls
         /\ att'[i].owed = att[i].owed /\ att'[i].lease = att[i].lease
         /\ att'[i].listed = att[i].listed
<1>. DEFINE v(x) == [x EXCEPT !.release = "returning"]
<1>1. ASSUME NEW x \in Attachment
      PROVE  /\ v(x) \in Attachment
             /\ v(x).client = x.client /\ v(x).handle = x.handle
             /\ v(x).release = "returning" /\ v(x).calls = x.calls
             /\ v(x).owed = x.owed /\ v(x).lease = x.lease /\ v(x).listed = x.listed
  BY DEF Attachment
<1>2. att[i] \in Attachment /\ att' = [att EXCEPT ![i] = v(att[i])]
  BY DEF ReturnLease, RouterType
<1>. HIDE DEF v
<1>3. v(att[i]) \in Attachment
  BY <1>1, <1>2
<1>4. att' \in [Ids -> Attachment] /\ att'[i] = v(att[i]) /\ \A j \in Ids \ {i} : att'[j] = att[j]
  BY <1>2, <1>3, OneAttachment
<1>. QED  BY <1>1, <1>2, <1>4

\* A call starts or ends.
LEMMA CallForm ==
  ASSUME RouterType, NEW i \in Ids, NEW calls \in SUBSET Calls,
         att' = [att EXCEPT ![i].calls = calls]
  PROVE  /\ att' \in [Ids -> Attachment] /\ \A j \in Ids \ {i} : att'[j] = att[j]
         /\ att'[i].client = att[i].client /\ att'[i].handle = att[i].handle
         /\ att'[i].release = att[i].release /\ att'[i].calls = calls
         /\ att'[i].owed = att[i].owed /\ att'[i].lease = att[i].lease
         /\ att'[i].listed = att[i].listed
<1>. DEFINE v(x) == [x EXCEPT !.calls = calls]
<1>1. ASSUME NEW x \in Attachment
      PROVE  /\ v(x) \in Attachment
             /\ v(x).client = x.client /\ v(x).handle = x.handle
             /\ v(x).release = x.release /\ v(x).calls = calls
             /\ v(x).owed = x.owed /\ v(x).lease = x.lease /\ v(x).listed = x.listed
  BY DEF Attachment
<1>2. att[i] \in Attachment /\ att' = [att EXCEPT ![i] = v(att[i])]
  BY DEF RouterType
<1>. HIDE DEF v
<1>3. v(att[i]) \in Attachment
  BY <1>1, <1>2
<1>4. att' \in [Ids -> Attachment] /\ att'[i] = v(att[i]) /\ \A j \in Ids \ {i} : att'[j] = att[j]
  BY <1>2, <1>3, OneAttachment
<1>. QED  BY <1>1, <1>2, <1>4

\* The lease of a client comes: it has a route from now on, or drops the lease.
LEMMA LeaseComesForm ==
  ASSUME RouterType, NEW c \in Clients, LeaseComes(c), mine[c] # None
  PROVE  LET i == mine[c] IN
         /\ i \in Ids /\ att' \in [Ids -> Attachment] /\ \A j \in Ids \ {i} : att'[j] = att[j]
         /\ att'[i].client = att[i].client /\ att'[i].handle = att[i].handle
         /\ att'[i].lease = "held" /\ att'[i].calls = att[i].calls
         /\ att'[i].owed = att[i].owed
         /\ att'[i].listed = att[i].listed
         /\ IF StillWanted(c)
            THEN att'[i].release = att[i].release
            ELSE att'[i].release = IF att[i].release = "no" THEN "calls" ELSE att[i].release
<1>. DEFINE i == mine[c]
            held(x) == [x EXCEPT !.lease = "held"]
            dropped(x) == [held(x) EXCEPT !.release = IF x.release = "no" THEN "calls" ELSE x.release]
<1>1. ASSUME NEW x \in Attachment
      PROVE  /\ held(x) \in Attachment
             /\ held(x).client = x.client /\ held(x).handle = x.handle
             /\ held(x).release = x.release /\ held(x).calls = x.calls
             /\ held(x).owed = x.owed /\ held(x).lease = "held" /\ held(x).listed = x.listed
  BY DEF Attachment
<1>2. ASSUME NEW x \in Attachment
      PROVE  /\ dropped(x) \in Attachment
             /\ dropped(x).client = x.client /\ dropped(x).handle = x.handle
             /\ dropped(x).release = (IF x.release = "no" THEN "calls" ELSE x.release)
             /\ dropped(x).calls = x.calls
             /\ dropped(x).owed = x.owed /\ dropped(x).lease = "held"
             /\ dropped(x).listed = x.listed
  BY DEF Attachment
<1>3. i \in Ids /\ att[i] \in Attachment
  BY DEF RouterType, ClientType
<1>4. CASE StillWanted(c)
  <2>1. att' = [att EXCEPT ![i] = held(att[i])]
    BY <1>3, <1>4 DEF LeaseComes, RouterType
  <2>. HIDE DEF held, dropped
  <2>2. att' \in [Ids -> Attachment] /\ att'[i] = held(att[i]) /\ \A j \in Ids \ {i} : att'[j] = att[j]
    BY <1>1, <1>3, <2>1, OneAttachment
  <2>. QED  BY <1>1, <1>3, <1>4, <2>2
<1>5. CASE ~StillWanted(c)
  <2>1. att' = [att EXCEPT ![i] = dropped(att[i])]
    <3>1. att' = [[att EXCEPT ![i].lease = "held"] EXCEPT ![i].release = IF @ = "no" THEN "calls" ELSE @]
      BY <1>5 DEF LeaseComes
    <3>2. [att EXCEPT ![i].lease = "held"] = [att EXCEPT ![i] = held(att[i])]
      BY <1>3 DEF RouterType
    <3>. DEFINE a == [att EXCEPT ![i] = held(att[i])]
    <3>3. a \in [Ids -> Attachment] /\ a[i] = held(att[i])
      BY <1>1, <1>3 DEF RouterType
    <3>4. att' = [a EXCEPT ![i] = [held(att[i]) EXCEPT !.release = IF held(att[i]).release = "no" THEN "calls" ELSE held(att[i]).release]]
      BY <3>1, <3>2, <3>3
    <3>5. att' = [a EXCEPT ![i] = dropped(att[i])]
      BY <1>1, <1>3, <3>4
    <3>. QED  BY <1>3, <3>5 DEF RouterType
  <2>. HIDE DEF held, dropped
  <2>2. att' \in [Ids -> Attachment] /\ att'[i] = dropped(att[i]) /\ \A j \in Ids \ {i} : att'[j] = att[j]
    BY <1>2, <1>3, <2>1, OneAttachment
  <2>. QED  BY <1>2, <1>3, <1>5, <2>2
<1>. QED  BY <1>4, <1>5

\* The lease of a client is refused.
LEMMA LeaseFailsForm ==
  ASSUME RouterType, NEW c \in Clients, LeaseFails(c), mine[c] # None
  PROVE  LET i == mine[c] IN
         /\ i \in Ids /\ att' \in [Ids -> Attachment] /\ \A j \in Ids \ {i} : att'[j] = att[j]
         /\ att'[i].client = att[i].client /\ att'[i].handle = att[i].handle
         /\ att'[i].lease = "refused" /\ att'[i].calls = att[i].calls
         /\ att'[i].owed = att[i].owed /\ att'[i].release = att[i].release
<1>. DEFINE i == mine[c]
            v(x) == [x EXCEPT !.lease = "refused", !.listed = FALSE]
<1>1. ASSUME NEW x \in Attachment
      PROVE  /\ v(x) \in Attachment
             /\ v(x).client = x.client /\ v(x).handle = x.handle
             /\ v(x).release = x.release /\ v(x).calls = x.calls
             /\ v(x).owed = x.owed /\ v(x).lease = "refused"
  BY DEF Attachment
<1>2. i \in Ids /\ att[i] \in Attachment
  BY DEF RouterType, ClientType
<1>3. att' = [att EXCEPT ![i] = v(att[i])]
  BY <1>2 DEF LeaseFails, RouterType
<1>. HIDE DEF v
<1>4. att' \in [Ids -> Attachment] /\ att'[i] = v(att[i]) /\ \A j \in Ids \ {i} : att'[j] = att[j]
  BY <1>1, <1>2, <1>3, OneAttachment
<1>. QED  BY <1>1, <1>2, <1>4


\* At the start nothing runs and nothing is attached.
LEMMA RouterTypeInit == Init => RouterType
<1>. SUFFICES ASSUME Init PROVE RouterType
  OBVIOUS
<1>1. ClientType
  BY DEF Init, ClientType, Steps, Attached, None
<1>2. att \in [Ids -> Attachment] /\ removal \in [Sessions -> Removal]
  BY DEF Init, Attachment, Free, Removal, NoRemoval, None
<1>3. /\ route \in [Clients -> Ids \cup {None}] /\ shown \in [Clients -> Ids \cup {None}]
      /\ closing \in Closing
  BY DEF Init, Closing
<1>4. left \in [Kinds -> Nat] /\ left["call"] <= MaxCalls
  BY RouterAssumption DEF Init
<1>. QED  BY <1>1, <1>2, <1>3, <1>4 DEF RouterType

\* The environment and the shutdown keep the types.
LEMMA OutsideTypes ==
  ASSUME HostInv, RouterType, Environment \/ Shutdown
  PROVE  RouterType'
<1>. DEFINE Rest == /\ UNCHANGED <<route, att, removal, closing>>
                    /\ left' \in [Kinds -> Nat] /\ left'["call"] <= MaxCalls
<1>1. ASSUME NEW c \in Clients, NEW s \in Sessions, AskAttach(c, s) PROVE RouterType'
  <2>1. [op |-> "attach", arg |-> s] \in Operation
    BY DEF Operation
  <2>2. ClientType'
    BY <1>1, <2>1, AskType DEF AskAttach
  <2>3. left' \in [Kinds -> Nat] /\ left'["call"] <= MaxCalls
    BY <1>1, SpendType DEF AskAttach, Kinds
  <2>. QED  BY <1>1, <2>2, <2>3 DEF AskAttach, Ask, routeVars, RouterType
<1>2. ASSUME NEW c \in Clients, AskDetach(c) PROVE RouterType'
  <2>1. [op |-> "detach", arg |-> None] \in Operation
    BY DEF Operation
  <2>2. ClientType'
    BY <1>2, <2>1, AskType DEF AskDetach
  <2>3. left' \in [Kinds -> Nat] /\ left'["call"] <= MaxCalls
    BY <1>2, SpendType DEF AskDetach, Kinds
  <2>. QED  BY <1>2, <2>2, <2>3 DEF AskDetach, Ask, routeVars, RouterType
<1>3. ASSUME NEW c \in Clients, AskCall(c) PROVE RouterType'
  <2>1. left' \in [Kinds -> Nat] /\ left'["call"] <= MaxCalls /\ left["call"] \in Nat \ {0}
    BY <1>3, SpendType DEF AskCall, Kinds
  <2>2. shown[c] \in Ids /\ left["call"] \in Calls
    BY <1>3, <2>1, RouterAssumption DEF AskCall, RouterType, Calls
  <2>3. [op |-> "call", arg |-> shown[c], call |-> left["call"]] \in Operation
    BY <2>2 DEF Operation
  <2>4. ClientType'
    BY <1>3, <2>3, AskType DEF AskCall
  <2>. QED  BY <1>3, <2>1, <2>4 DEF AskCall, Ask, routeVars, RouterType
<1>4. ASSUME NEW c \in Clients, LoseConnection(c) PROVE RouterType'
  <2>1. ClientType' /\ left' \in [Kinds -> Nat] /\ left'["call"] <= MaxCalls
    BY <1>4, LoseType, SpendType DEF LoseConnection, Kinds
  <2>. QED  BY <1>4, <2>1 DEF LoseConnection, Lose, RouterType
<1>5. ASSUME NEW s \in Sessions, RemoveBegins(s) PROVE RouterType'
  <2>1. left' \in [Kinds -> Nat] /\ left'["call"] <= MaxCalls
    BY <1>5, SpendType DEF RemoveBegins, Kinds
  <2>2. att' \in [Ids -> Attachment]
    BY <1>5, ReleasingForm DEF RemoveBegins
  <2>3. removal' \in [Sessions -> Removal]
    BY <1>5 DEF RemoveBegins, RouterType, Removal, HostInv, HostType, Listed, Used
  <2>4. ClientType'
    BY <1>5 DEF RemoveBegins, clientVars, RouterType, ClientType
  <2>. QED  BY <1>5, <2>1, <2>2, <2>3, <2>4 DEF RemoveBegins, routeVars, RouterType
<1>6. ASSUME NEW h \in Handles, Terminate(h) PROVE RouterType'
  <2>1. left' \in [Kinds -> Nat] /\ left'["call"] <= MaxCalls
    BY <1>6, SpendType DEF Terminate, Kinds
  <2>2. ClientType'
    BY <1>6 DEF Terminate, clientVars, RouterType, ClientType
  <2>. QED  BY <1>6, <2>1, <2>2 DEF Terminate, routeVars, RouterType
<1>11. ASSUME NEW h \in Handles, KeepsHandle(h) PROVE RouterType'
  <2>1. left' \in [Kinds -> Nat] /\ left'["call"] <= MaxCalls
    BY <1>11, SpendType DEF KeepsHandle, Kinds
  <2>2. ClientType'
    BY <1>11 DEF KeepsHandle, clientVars, RouterType, ClientType
  <2>3. closing' \in Closing
    BY <1>11 DEF KeepsHandle, RouterType, Closing, Handles, Ids
  <2>. QED  BY <1>11, <2>1, <2>2, <2>3 DEF KeepsHandle, routeVars, RouterType
<1>12. ASSUME NEW h \in Handles, LeavesHandle(h) PROVE RouterType'
  <2>1. left' \in [Kinds -> Nat] /\ left'["call"] <= MaxCalls
    BY <1>12, SpendType DEF LeavesHandle, Kinds
  <2>2. handle[h].session \in Sessions
    <3>1. handle[h] \in Handle
      BY <1>12 DEF LeavesHandle, HostInv, HostType
    <3>. QED  BY <3>1 DEF Handle
  <2>3. ClientType'
    BY <1>12, <2>2, ResumeForm DEF LeavesHandle, RouterType, None
  <2>4. closing' \in Closing
    BY <1>12 DEF LeavesHandle, RouterType, Closing
  <2>. QED  BY <1>12, <2>1, <2>3, <2>4 DEF LeavesHandle, routeVars, RouterType
<1>7. CASE CloseServer
  <2>1. left' \in [Kinds -> Nat] /\ left'["call"] <= MaxCalls
    BY <1>7, SpendType DEF CloseServer, Kinds
  <2>2. ClientType' /\ closing' \in Closing
    BY <1>7 DEF CloseServer, clientVars, RouterType, ClientType, Closing
  <2>. QED  BY <1>7, <2>1, <2>2 DEF CloseServer, routeVars, RouterType
<1>8. CASE CloseConnections
  <2>1. ClientType' /\ closing' \in Closing
    BY <1>8, LoseType DEF CloseConnections, RouterType, Closing
  <2>. QED  BY <1>8, <2>1 DEF CloseConnections, Lose, RouterType
<1>9. CASE RouterReleases
  <2>1. ClientType' /\ att' \in [Ids -> Attachment]
    BY <1>9, ReleasingForm DEF RouterReleases, clientVars, RouterType, ClientType
  <2>2. closing' \in Closing
    <3>1. UNION {Listed(h) : h \in Hosted} \in SUBSET Ids
      BY DEF Listed, Used
    <3>. HIDE DEF Listed
    <3>. QED  BY <1>9, <3>1 DEF RouterReleases, RouterType, Closing
  <2>. QED  BY <1>9, <2>1, <2>2 DEF RouterReleases, routeVars, RouterType
<1>10. CASE RouterCloses \/ RouterClosed
  <2>1. Hosted \in SUBSET Nat
    BY DEF Hosted, HostInv, HostType
  <2>2. ClientType'
    BY <1>10 DEF RouterCloses, RouterClosed, clientVars, RouterType, ClientType
  <2>3. closing' \in Closing
    BY <1>10, <2>1 DEF RouterCloses, RouterClosed, RouterType, Closing
  <2>. QED  BY <1>10, <2>2, <2>3 DEF RouterCloses, RouterClosed, routeVars, RouterType
<1>. QED  BY <1>1, <1>2, <1>3, <1>4, <1>5, <1>6, <1>7, <1>8, <1>9, <1>10, <1>11, <1>12
          DEF Environment, Shutdown


\* So do the operations of the clients.
LEMMA ClientTypes ==
  ASSUME HostInv, RouterType, NEW c \in Clients, ClientStep(c)
  PROVE  RouterType'
<1>. ClientType
  BY DEF RouterType
<1>1. ASSUME Ends(c), queue[c] # <<>>, UNCHANGED <<route, shown, removal, closing>>, att' \in [Ids -> Attachment],
             UNCHANGED left
      PROVE  RouterType'
  BY <1>1, ClientForms DEF RouterType
<1>2. CASE AttachBegins(c)
  <2>1. queue[c] # <<>> /\ Target(c) \in Sessions /\ step[c] = "idle"
    <3>1. queue[c] # <<>> /\ Head(queue[c]) \in Operation /\ Head(queue[c]).op = "attach"
          /\ step[c] = "idle"
      BY <1>2, ClientForms DEF AttachBegins, Running
    <3>. QED  BY <3>1 DEF Operation, Target
  <2>2. CASE Ends(c)
    BY <1>1, <1>2, <2>1, <2>2 DEF AttachBegins, routeVars, RouterType
  <2>3. CASE ~Ends(c)
    <3>1. /\ mine' = [mine EXCEPT ![c] = route[c]]
          /\ hold' = [hold EXCEPT ![c] = hosted[Target(c)]] \/ UNCHANGED hold
          /\ Goes(c, "acquired") \/ Goes(c, "opening")
      BY <1>2, <2>3 DEF AttachBegins
    <3>2. hold' \in [Clients -> Nat]
      BY <2>1, <3>1 DEF HostInv, HostType, ClientType
    <3>3. ClientType'
      BY <2>1, <3>1, <3>2 DEF Goes, ClientType, RouterType, Steps, Attached
    <3>. QED  BY <1>2, <3>3 DEF AttachBegins, routeVars, RouterType
  <2>. QED  BY <2>2, <2>3
<1>3. CASE Acquired(c)
  <2>1. queue[c] # <<>> /\ step[c] # "idle"
    BY <1>3 DEF Acquired, Running
  <2>2. CASE Ends(c) /\ UNCHANGED att
    BY <1>1, <1>3, <2>1, <2>2 DEF Acquired, routeVars, RouterType
  <2>3. CASE Leases(c)
    BY <1>3, <2>1, <2>3, LeasesForm DEF Acquired, routeVars, RouterType
  <2>4. CASE /\ mine[c] # None /\ att' = Releasing({mine[c]}, FALSE)
             /\ Goes(c, "switching") /\ UNCHANGED <<hold, mine>>
    <3>1. ClientType' /\ att' \in [Ids -> Attachment]
      BY <2>1, <2>4, ClientForms, ReleasingForm DEF Steps
    <3>. QED  BY <1>3, <3>1 DEF Acquired, routeVars, RouterType
  <2>. QED  BY <1>3, <2>2, <2>3, <2>4 DEF Acquired
<1>4. CASE Switched(c)
  <2>1. queue[c] # <<>> /\ step[c] # "idle"
    BY <1>4 DEF Switched, Running
  <2>2. CASE Ends(c) /\ UNCHANGED att
    BY <1>1, <1>4, <2>1, <2>2 DEF Switched, routeVars, RouterType
  <2>3. CASE Leases(c)
    BY <1>4, <2>1, <2>3, LeasesForm DEF Switched, routeVars, RouterType
  <2>. QED  BY <1>4, <2>2, <2>3 DEF Switched
<1>5. CASE LeaseComes(c)
  <2>1. queue[c] # <<>> /\ step[c] = "leasing" /\ mine[c] # None
    BY <1>5 DEF LeaseComes, Running, ClientType, Attached
  <2>2. mine[c] \in Ids /\ att' \in [Ids -> Attachment]
    BY <1>5, <2>1, LeaseComesForm
  <2>3. /\ route' \in [Clients -> Ids \cup {None}] /\ shown' \in [Clients -> Ids \cup {None}]
        /\ UNCHANGED <<removal, closing, left>>
        /\ Ends(c) \/ (Goes(c, "dropping") /\ UNCHANGED <<hold, mine>>)
    BY <1>5, <2>2 DEF LeaseComes, RouterType
  <2>4. ClientType'
    BY <2>1, <2>3, ClientForms DEF Steps
  <2>. QED  BY <2>2, <2>3, <2>4 DEF RouterType
<1>6. CASE LeaseFails(c)
  <2>1. queue[c] # <<>> /\ step[c] = "leasing" /\ mine[c] # None
    BY <1>6 DEF LeaseFails, Running, ClientType, Attached
  <2>2. att' \in [Ids -> Attachment] /\ ClientType'
    BY <1>6, <2>1, LeaseFailsForm, ClientForms DEF LeaseFails
  <2>3. left' \in [Kinds -> Nat] /\ left'["call"] <= MaxCalls
    BY <1>6, SpendType DEF LeaseFails, Kinds, RouterType
  <2>. QED  BY <1>6, <2>2, <2>3 DEF LeaseFails, routeVars, RouterType
<1>7. CASE LeaveBegins(c)
  <2>1. queue[c] # <<>> /\ route[c] \in Ids /\ route[c] # None
    BY <1>7 DEF LeaveBegins, Running, RouterType
  <2>2. att' \in [Ids -> Attachment]
    BY <1>7, ReleasingForm DEF LeaveBegins
  <2>3. ClientType'
    BY <1>7, <2>1 DEF LeaveBegins, Goes, ClientType, Steps, Attached
  <2>. QED  BY <1>7, <2>2, <2>3 DEF LeaveBegins, routeVars, RouterType
<1>8. CASE LeaveEnds(c)
  <2>1. queue[c] # <<>>
    BY <1>8 DEF LeaveEnds, Running, ClientType
  <2>. QED  BY <1>1, <1>8, <2>1 DEF LeaveEnds, RouterType
<1>9. CASE CallStarts(c)
  <2>1. queue[c] # <<>> /\ Head(queue[c]) \in Operation /\ Head(queue[c]).op = "call"
    BY <1>9, ClientForms DEF CallStarts, Running
  <2>2. Target(c) \in Ids /\ Head(queue[c]).call \in Calls
    BY <2>1 DEF Operation, Target
  <2>3. att[Target(c)].calls \cup {Head(queue[c]).call} \in SUBSET Calls
    BY <2>2 DEF RouterType, Attachment
  <2>4. att' \in [Ids -> Attachment]
    BY <1>9, <2>2, <2>3, CallForm DEF CallStarts, RouterType
  <2>. QED  BY <1>1, <1>9, <2>1, <2>4 DEF CallStarts, routeVars
<1>. QED  BY <1>2, <1>3, <1>4, <1>5, <1>6, <1>7, <1>8, <1>9 DEF ClientStep

\* And so do the hosts and the releases.
LEMMA HostTypes ==
  ASSUME HostInv, RouterType,
         \/ \E s \in Sessions : HostStep(s)
         \/ \E i \in Ids : ReleaseStep(i) \/ \E k \in Calls : CallEnds(i, k)
         \/ \E h \in Handles : HandleStep(h)
  PROVE  RouterType'
<1>. ClientType
  BY DEF RouterType
<1>1. ASSUME NEW s \in Sessions, OpenEnds(s) PROVE RouterType'
  <2>1. Len(handle') \in Nat
    BY <1>1, OpenKeeps DEF HostInv, HostType
  <2>2. ClientType'
    <3>1. CASE UNCHANGED clientVars
      BY <3>1 DEF clientVars, ClientType
    <3>2. CASE Resume(s, Len(handle'))
      BY <2>1, <3>2, ResumeForm
    <3>. QED  BY <1>1, <3>1, <3>2 DEF OpenEnds
  <2>3. left' \in [Kinds -> Nat] /\ left'["call"] <= MaxCalls
    BY <1>1, SpendType DEF OpenEnds, Kinds, RouterType
  <2>. QED  BY <1>1, <2>2, <2>3 DEF OpenEnds, routeVars, RouterType
<1>2. ASSUME NEW s \in Sessions, OpenFails(s) PROVE RouterType'
  <2>1. ClientType'
    BY <1>2, ResumeForm DEF OpenFails, None
  <2>2. left' \in [Kinds -> Nat] /\ left'["call"] <= MaxCalls
    BY <1>2, SpendType DEF OpenFails, Kinds
  <2>. QED  BY <1>2, <2>1, <2>2 DEF OpenFails, routeVars, RouterType
<1>3. ASSUME NEW s \in Sessions, RemoveCloses(s) \/ RemoveEnds(s) PROVE RouterType'
  <2>1. removal' \in [Sessions -> Removal]
    BY <1>3 DEF RemoveCloses, RemoveEnds, RouterType, Removal, NoRemoval, None
  <2>2. ClientType'
    BY <1>3 DEF RemoveCloses, RemoveEnds, clientVars, ClientType
  <2>3. left' \in [Kinds -> Nat] /\ left'["call"] <= MaxCalls
    BY <1>3, SpendType DEF RemoveCloses, RemoveEnds, Kinds, RouterType
  <2>. QED  BY <1>3, <2>1, <2>2, <2>3 DEF RemoveCloses, RemoveEnds, routeVars, RouterType
<1>4. ASSUME NEW i \in Ids, ReturnLease(i) PROVE RouterType'
  <2>1. att' \in [Ids -> Attachment]
    BY <1>4, ReturnForm
  <2>2. ClientType'
    BY <1>4 DEF ReturnLease, clientVars, ClientType
  <2>. QED  BY <1>4, <2>1, <2>2 DEF ReturnLease, routeVars, RouterType
<1>5. ASSUME NEW i \in Ids, LeaseReturned(i) \/ ReleaseFails(i) PROVE RouterType'
  <2>1. PICK outcome \in {"done", "failed"} : Clear(i, outcome)
    BY <1>5 DEF LeaseReturned, ReleaseFails
  <2>2. left' \in [Kinds -> Nat] /\ left'["call"] <= MaxCalls
    BY <1>5, SpendType DEF LeaseReturned, ReleaseFails, Kinds, RouterType
  <2>3. /\ att' \in [Ids -> Attachment] /\ shown' \in [Clients -> Ids \cup {None}]
        /\ route' = route \/ route' = [route EXCEPT ![att[i].client] = None]
    BY <2>1, ClearForm
  <2>4. route' \in [Clients -> Ids \cup {None}]
    BY <2>3 DEF RouterType
  <2>5. ClientType'
    BY <2>1 DEF Clear, clientVars, ClientType
  <2>. QED  BY <2>1, <2>2, <2>3, <2>4, <2>5 DEF Clear, RouterType
<1>6. ASSUME NEW i \in Ids, NEW k \in Calls, CallEnds(i, k) PROVE RouterType'
  <2>1. att[i].calls \ {k} \in SUBSET Calls
    BY DEF RouterType, Attachment
  <2>2. att' \in [Ids -> Attachment]
    BY <1>6, <2>1, CallForm DEF CallEnds
  <2>3. ClientType'
    BY <1>6 DEF CallEnds, clientVars, ClientType
  <2>. QED  BY <1>6, <2>2, <2>3 DEF CallEnds, routeVars, RouterType
<1>7. ASSUME NEW h \in Handles, HandleCloses(h) PROVE RouterType'
  <2>1. handle[h].session \in Sessions
    <3>1. handle[h] \in Handle
      BY <1>7 DEF HandleCloses, HostInv, HostType
    <3>. QED  BY <3>1 DEF Handle
  <2>2. ClientType'
    <3>1. CASE UNCHANGED clientVars
      BY <3>1 DEF clientVars, ClientType
    <3>2. CASE Resume(handle[h].session, None)
      BY <2>1, <3>2, ResumeForm DEF None
    <3>. QED  BY <1>7, <3>1, <3>2 DEF HandleCloses
  <2>. QED  BY <1>7, <2>2 DEF HandleCloses, routeVars, RouterType
<1>8. ASSUME NEW h \in Handles, Terminated(h) PROVE RouterType'
  <2>1. att' \in [Ids -> Attachment]
    BY <1>8, ReleasingForm DEF Terminated, RouterType
  <2>2. ClientType'
    BY <1>8 DEF Terminated, clientVars, ClientType
  <2>. QED  BY <1>8, <2>1, <2>2 DEF Terminated, routeVars, RouterType
<1>. QED  BY <1>1, <1>2, <1>3, <1>4, <1>5, <1>6, <1>7, <1>8 DEF HostStep, ReleaseStep, HandleStep

\* Every step of the server keeps the types.
LEMMA RouterTypeNext == HostInv /\ RouterType /\ [Next]_vars => RouterType'
<1>1. ASSUME RouterType, UNCHANGED vars PROVE RouterType'
  BY <1>1 DEF vars, RouterType, ClientType
<1>. QED  BY <1>1, OutsideTypes, ClientTypes, HostTypes DEF Next


------------------------------------------------------------------------------
(* Routes, leases and calls *)

\* An operation that goes on has the handle it needs.
HoldsHandle ==
    \A c \in Clients : step[c] \in {"acquired", "switching"} => hold[c] \in DOMAIN handle

\* The attachment of an operation is its client's, and waits for its lease while
\* the operation does.
OwnsMine ==
    \A c \in Clients : mine[c] # None =>
        /\ mine[c] \in Used /\ att[mine[c]].client = c
        /\ att[mine[c]].lease = "acquiring" <=> step[c] = "leasing"

\* How far a release has come fits where the lease is, and calls need a lease.
Stages ==
    \A i \in Used :
        /\ att[i].handle \in DOMAIN handle
        /\ \/ att[i].release \in {"no", "calls"} /\ att[i].lease \in {"acquiring", "held", "refused"}
           \/ att[i].release = "returning" /\ att[i].lease = "held"
           \/ Over(i) /\ att[i].lease \in {"returned", "refused"}
        /\ att[i].lease \in {"acquiring", "refused"} => att[i].calls = {}

\* What nobody has attached is not released and has no calls.
Unused == \A i \in Ids \ Used : att[i].release = "no" /\ att[i].calls = {}

\* The host of an attachment is gone, or its session is being removed.
Excused(i) ==
    handle[att[i].handle].st \in {"closed", "dead"} \/ handle[att[i].handle].taken # "no"

\* No call can start: the client is not routed to the attachment, or releases it.
Shut(i) ==
    LET c == att[i].client IN
    route[c] # i \/ (step[c] \in {"switching", "dropping", "leaving"} /\ mine[c] = i)

\* A release waits for every call there is, and keeps others out.
CallsInv ==
    \A i \in Used : att[i].release # "no" =>
        \/ Excused(i)
        \/ /\ att[i].calls \subseteq att[i].owed /\ (Draining \/ Shut(i))
           /\ att[i].lease = "acquiring" => Draining
           /\ att[i].release = "calls" \/ att[i].calls = {}

RouterInv ==
    /\ HostInv /\ RouterType /\ HoldsHandle /\ OwnsMine /\ Stages /\ Unused
    /\ RoutesAreLive /\ CallsInv

\* How a step moves the operation of a client.
Stays(c) == step'[c] = step[c] /\ hold'[c] = hold[c] /\ mine'[c] = mine[c]

ClientMoves(c) ==
    \/ Stays(c)
    \/ /\ step'[c] = "idle" /\ mine'[c] = None
       /\ step[c] \in {"switching", "dropping", "leaving"} => Over(mine[c])
    \/ /\ step[c] = "idle" /\ step'[c] \in {"opening", "acquired", "leaving"}
       /\ mine'[c] = route[c] /\ (step'[c] = "acquired" => hold'[c] \in DOMAIN handle)
    \/ /\ step[c] = "opening" /\ step'[c] = "acquired" /\ mine'[c] = mine[c]
       /\ hold'[c] \in DOMAIN handle'
    \/ /\ step[c] = "acquired" /\ step'[c] = "switching"
       /\ mine'[c] = mine[c] /\ hold'[c] = hold[c]
    \/ /\ step[c] \in {"acquired", "switching"} /\ step'[c] = "leasing"
       /\ mine'[c] \in Ids \ Used
       /\ att'[mine'[c]].client = c /\ att'[mine'[c]].lease = "acquiring"
       /\ step[c] = "switching" => Over(mine[c])
    \/ /\ step[c] = "leasing" /\ step'[c] = "dropping" /\ mine'[c] = mine[c]
       /\ att'[mine[c]].lease = "held"

\* How a step moves an attachment: it is made; it is to be released; its lease
\* comes, or is refused; the lease goes back; the release is over; calls end; a
\* call starts.
Made(i) ==
    /\ i \notin Used /\ att'[i].client \in Clients /\ att'[i].handle \in DOMAIN handle
    /\ att'[i].lease = "acquiring" /\ att'[i].calls = {} /\ att'[i].release = "no"

KeepsLease(i) == att'[i].lease = att[i].lease /\ att'[i].listed = att[i].listed
KeepsRelease(i) == att'[i].release = att[i].release /\ att'[i].owed = att[i].owed
KeepsCalls(i) == att'[i].calls = att[i].calls

Begun(i) ==
    LET c == att[i].client IN
    /\ att[i].release = "no" /\ att'[i].release = "calls" /\ att'[i].owed = att[i].calls
    /\ KeepsLease(i) /\ KeepsCalls(i)
    /\ \/ Excused(i)' \/ Draining
       \/ mine'[c] = i /\ step'[c] \in {"switching", "leaving"} /\ att[i].lease # "acquiring"

Comes(i) ==
    LET c == att[i].client IN
    /\ mine[c] = i /\ step[c] = "leasing" /\ step'[c] # "leasing"
    /\ att'[i].lease = "held" /\ att'[i].listed = att[i].listed
    /\ KeepsCalls(i) /\ att'[i].owed = att[i].owed
    /\ \/ StillWanted(c) /\ att'[i].release = att[i].release
       \/ /\ step'[c] = "dropping" /\ mine'[c] = i
          /\ att'[i].release = IF att[i].release = "no" THEN "calls" ELSE att[i].release

RefusedLease(i) ==
    LET c == att[i].client IN
    /\ mine[c] = i /\ step[c] = "leasing" /\ step'[c] = "idle" /\ route'[c] = route[c]
    /\ att'[i].lease = "refused" /\ KeepsCalls(i) /\ KeepsRelease(i)

Returning(i) ==
    /\ att[i].release = "calls" /\ att'[i].release = "returning"
    /\ att[i].lease = "held" /\ att[i].owed \cap att[i].calls = {}
    /\ KeepsLease(i) /\ KeepsCalls(i) /\ att'[i].owed = att[i].owed

Cleared(i) ==
    /\ att[i].release = "returning" \/ (att[i].release = "calls" /\ att[i].lease = "refused")
    /\ att'[i].release \in {"done", "failed"} /\ route'[att[i].client] # i
    /\ att'[i].lease = IF att[i].lease = "held" THEN "returned" ELSE att[i].lease
    /\ KeepsCalls(i)

CallsMove(i) ==
    LET c == att[i].client IN
    /\ KeepsLease(i) /\ KeepsRelease(i)
    /\ \/ att'[i].calls \subseteq att[i].calls
       \/ route[c] = i /\ step[c] = "idle" /\ ~Draining

AttMoves(i) ==
    \/ att'[i] = att[i]
    \/ Made(i)
    \/ /\ i \in Used /\ att'[i].client = att[i].client /\ att'[i].handle = att[i].handle
       /\ \/ Begun(i) \/ Comes(i) \/ RefusedLease(i) \/ Returning(i) \/ Cleared(i) \/ CallsMove(i)

\* How a step moves a route, and the host of a session.
RouteMoves(c) ==
    \/ route'[c] = route[c] \/ route'[c] = None
    \/ /\ route'[c] = mine[c] /\ step[c] = "leasing" /\ StillWanted(c)
       /\ att'[mine[c]].lease = "held" /\ att'[mine[c]].listed = att[mine[c]].listed

HostMoves(s) ==
    \/ hosted'[s] = hosted[s] \/ hosted[s] = None
    \/ \A i \in Used : att[i].handle = hosted[s] /\ att[i].listed => att'[i].release # "no"
    \/ hosted[s] \in DOMAIN handle /\ handle'[hosted[s]].taken = "removed"
    \/ \A c \in Clients : route'[c] = None

AllMove ==
    /\ \A c \in Clients : ClientMoves(c) /\ RouteMoves(c)
    /\ \A i \in Ids : AttMoves(i)
    /\ \A s \in Sessions : HostMoves(s)


\* A handle changes as Turns says, and others come after it.
LEMMA HandlesTurn ==
  ASSUME HostInv, [Next]_vars
  PROVE  \/ UNCHANGED handle \/ (\E r : handle' = Append(handle, r))
         \/ \E h \in DOMAIN handle : \E x : Turns(h, x)
<1>1. ASSUME NEW s \in Sessions, OpenEnds(s)
      PROVE  \E r : handle' = Append(handle, r)
  BY <1>1 DEF OpenEnds
<1>2. ASSUME NEW s \in Sessions, RemoveEnds(s)
      PROVE  UNCHANGED handle \/ \E h \in DOMAIN handle : \E x : Turns(h, x)
  <2>1. CASE removal[s].handle \in DOMAIN handle
    BY <1>2, <2>1, TakeTurn
  <2>2. CASE removal[s].handle \notin DOMAIN handle
    BY <1>2, <2>2 DEF RemoveEnds, HostInv, HostType
  <2>. QED  BY <2>1, <2>2
<1>3. ASSUME NEW s \in Sessions, RemoveBegins(s)
      PROVE  \E h \in DOMAIN handle : \E x : Turns(h, x)
  BY <1>3, RemoveTurn DEF Turns
<1>4. ASSUME NEW h \in Handles, Terminated(h)
      PROVE  \E g \in DOMAIN handle : \E x : Turns(g, x)
  BY <1>4, ToldTurn DEF Terminated
<1>5. ASSUME NEW h \in Handles,
             Terminate(h) \/ HandleCloses(h) \/ KeepsHandle(h) \/ LeavesHandle(h)
      PROVE  UNCHANGED handle \/ \E g \in DOMAIN handle : \E x : Turns(g, x)
  <2>1. PICK st \in {"dead", "closed", "unclosed", handle[h].st} :
          /\ handle' = [handle EXCEPT ![h].st = st]
          /\ st # handle[h].st => Serves(h) \/ handle[h].st = "closing"
    BY <1>5 DEF Terminate, HandleCloses, KeepsHandle, LeavesHandle, Unclosed
  <2>2. CASE h \in DOMAIN handle
    <3>1. handle[h] \in Handle
      BY <2>2 DEF HostInv, HostType
    <3>2. st \in Stage
      BY <3>1 DEF Handle, Stage
    <3>. QED  BY <2>1, <2>2, <3>2, StageTurn DEF Serves
  <2>3. CASE h \notin DOMAIN handle
    BY <2>1, <2>3 DEF HostInv, HostType
  <2>. QED  BY <2>2, <2>3
<1>6. Shutdown \/ (\E c \in Clients : ClientStep(c)) => UNCHANGED handle
  BY DEF Shutdown, CloseConnections, Lose, RouterReleases, RouterCloses, RouterClosed, ClientStep,
     AttachBegins, Acquired, Switched, LeaseComes, LeaseFails, LeaveBegins, LeaveEnds, CallStarts,
     hostVars
<1>7. (\E i \in Ids : ReleaseStep(i) \/ \E k \in Calls : CallEnds(i, k)) => UNCHANGED handle
  BY DEF ReleaseStep, ReturnLease, LeaseReturned, ReleaseFails, Clear, CallEnds, hostVars
<1>8. CloseServer \/ (\E c \in Clients : \/ AskDetach(c) \/ AskCall(c) \/ LoseConnection(c)
                                        \/ \E s \in Sessions : AskAttach(c, s))
        => UNCHANGED handle
  BY DEF AskDetach, AskCall, LoseConnection, AskAttach, Ask, Lose, CloseServer, hostVars
<1>9. ASSUME NEW s \in Sessions, OpenFails(s) \/ RemoveCloses(s) PROVE UNCHANGED handle
  BY <1>9 DEF OpenFails, RemoveCloses, hostVars
<1>. QED  BY <1>1, <1>2, <1>3, <1>4, <1>5, <1>6, <1>7, <1>8, <1>9
          DEF Next, Environment, HostStep, HandleStep, vars

\* Handles are never forgotten; one that has ended or has been taken stays so.
LEMMA HandlesLast ==
  ASSUME HostInv, [Next]_vars, NEW h \in DOMAIN handle
  PROVE  /\ h \in DOMAIN handle' /\ handle'[h].session = handle[h].session
         /\ handle[h].st \in {"closed", "dead"} => handle'[h].st \in {"closed", "dead"}
         /\ handle[h].taken # "no" => handle'[h].taken # "no"
         /\ handle[h].taken = "removed" => handle'[h].taken = "removed"
<1>1. ASSUME NEW r, handle' = Append(handle, r)
      PROVE  h \in DOMAIN handle' /\ handle'[h] = handle[h]
  BY <1>1 DEF HostInv, HostType
<1>2. ASSUME NEW g \in DOMAIN handle, NEW x, Turns(g, x)
      PROVE  /\ h \in DOMAIN handle' /\ handle'[h].session = handle[h].session
             /\ handle'[h] = IF h = g THEN x ELSE handle[h]
  BY <1>2, TurnForm DEF HostInv
<1>. QED  BY <1>1, <1>2, HandlesTurn DEF Turns

\* What is excused stays so.
LEMMA ExcusesStay ==
  ASSUME HostInv, Stages, [Next]_vars,
         NEW i \in Used, Excused(i), att'[i].handle = att[i].handle
  PROVE  Excused(i)'
  BY HandlesLast DEF Excused, Stages

\* A shutdown is not taken back.
LEMMA DrainsOn ==
  ASSUME RouterType, [Next]_vars, Draining
  PROVE  Draining'
<1>1. CASE UNCHANGED closing
  BY <1>1 DEF Draining
<1>2. CASE CloseServer \/ Shutdown
  BY <1>2 DEF CloseServer, Shutdown, CloseConnections, RouterReleases, RouterCloses,
     RouterClosed, RouterType, Closing, Draining
<1>3. ASSUME NEW h \in Handles, KeepsHandle(h) \/ LeavesHandle(h) PROVE Draining'
  BY <1>3 DEF KeepsHandle, LeavesHandle, RouterType, Closing, Draining
<1>4. Environment => \/ UNCHANGED closing \/ CloseServer
                     \/ \E h \in Handles : KeepsHandle(h) \/ LeavesHandle(h)
  BY DEF Environment, AskDetach, AskCall, LoseConnection, AskAttach, Ask, RemoveBegins, Terminate
<1>5. (\E c \in Clients : ClientStep(c)) => UNCHANGED closing
  BY DEF ClientStep, AttachBegins, Acquired, Switched, LeaseComes, LeaseFails, LeaveBegins,
     LeaveEnds, CallStarts
<1>6. (\E i \in Ids : ReleaseStep(i) \/ \E k \in Calls : CallEnds(i, k)) => UNCHANGED closing
  BY DEF ReleaseStep, ReturnLease, LeaseReturned, ReleaseFails, Clear, CallEnds
<1>7. (\E s \in Sessions : HostStep(s)) \/ (\E h \in Handles : HandleStep(h)) => UNCHANGED closing
  BY DEF HostStep, OpenEnds, OpenFails, RemoveCloses, RemoveEnds, HandleStep, HandleCloses, Terminated
<1>. QED  BY <1>1, <1>2, <1>3, <1>4, <1>5, <1>6, <1>7 DEF Next, vars


\* A step that leaves operations, routes, attachments and hosts alone moves nothing.
LEMMA StillMoves ==
  ASSUME UNCHANGED <<step, hold, mine, route, att, hosted>>
  PROVE  AllMove
  BY DEF AllMove, ClientMoves, RouteMoves, AttMoves, HostMoves, Stays

\* An operation that ends leaves the other clients alone.
LEMMA EndsMoves ==
  ASSUME RouterType, NEW c \in Clients, Ends(c),
         step[c] \in {"switching", "dropping", "leaving"} => Over(mine[c])
  PROVE  /\ \A d \in Clients : ClientMoves(d)
         /\ step'[c] = "idle" /\ mine'[c] = None
<1>1. ASSUME NEW d \in Clients
      PROVE  IF d = c THEN step'[d] = "idle" /\ mine'[d] = None ELSE Stays(d)
  BY DEF Ends, RouterType, ClientType, Stays
<1>. QED  BY <1>1 DEF ClientMoves

\* The clients of an opening go on with its handle, or end.
LEMMA ResumeMoves ==
  ASSUME RouterType, NEW s \in Sessions, NEW h \in Nat, Resume(s, h),
         h # None => h \in DOMAIN handle'
  PROVE  \A c \in Clients : ClientMoves(c)
<1>1. \A c \in Clients \ Waiting(s) : Stays(c)
  BY ResumeForm DEF RouterType, Stays
<1>2. ASSUME NEW c \in Waiting(s)
      PROVE  /\ step[c] = "opening"
             /\ IF h # None THEN step'[c] = "acquired" /\ hold'[c] = h /\ mine'[c] = mine[c]
                ELSE step'[c] = "idle" /\ mine'[c] = None
  BY <1>2, ResumeForm DEF RouterType
<1>. QED  BY <1>1, <1>2 DEF ClientMoves

\* A release begins for a reason: the host is gone or going, the server drains, or
\* the client itself lets go.
LEMMA ReleasingMoves ==
  ASSUME RouterType, NEW ids \in SUBSET Used, NEW tell \in BOOLEAN, att' = Releasing(ids, tell),
         \A i \in ids : LET c == att[i].client IN
            \/ Draining
            \/ mine'[c] = i /\ step'[c] \in {"switching", "leaving"} /\ att[i].lease # "acquiring"
            \/ handle'[att[i].handle].st \in {"closed", "dead"}
            \/ handle'[att[i].handle].taken # "no"
  PROVE  \A i \in Ids : AttMoves(i)
<1>1. ASSUME NEW i \in ids, att[i].release = "no" PROVE AttMoves(i)
  <2>1. /\ att'[i].release = "calls" /\ att'[i].owed = att[i].calls
        /\ att'[i].client = att[i].client /\ att'[i].handle = att[i].handle
        /\ att'[i].lease = att[i].lease /\ att'[i].calls = att[i].calls
        /\ att'[i].listed = att[i].listed
        /\ i \in Used
    BY <1>1, ReleasingForm DEF Used
  <2>2. Excused(i)' <=> \/ handle'[att[i].handle].st \in {"closed", "dead"}
                        \/ handle'[att[i].handle].taken # "no"
    BY <2>1 DEF Excused
  <2>3. Begun(i)
    BY <1>1, <2>1, <2>2 DEF Begun, KeepsLease, KeepsCalls
  <2>. QED  BY <2>1, <2>3 DEF AttMoves
<1>2. ASSUME NEW i \in Ids, ~(i \in ids /\ att[i].release = "no") PROVE AttMoves(i)
  BY <1>2, ReleasingForm DEF AttMoves
<1>. QED  BY <1>1, <1>2 DEF Used

\* A client begins to attach, or finds that it cannot.
LEMMA AttachMoves ==
  ASSUME RouterInv, NEW c \in Clients, AttachBegins(c)
  PROVE  AllMove
<1>. HostInv /\ RouterType /\ ClientType
  BY DEF RouterInv, RouterType
<1>1. UNCHANGED <<route, att, hosted>> /\ step[c] = "idle" /\ Target(c) \in Sessions
  <2>1. Head(queue[c]) \in Operation /\ Head(queue[c]).op = "attach" /\ step[c] = "idle"
    BY ClientForms DEF AttachBegins, Running
  <2>. QED  BY <2>1 DEF Operation, Target, AttachBegins, routeVars
<1>2. ASSUME NEW d \in Clients PROVE ClientMoves(d)
  <2>1. CASE Ends(c)
    BY <1>1, <2>1, EndsMoves
  <2>2. CASE ~Ends(c)
    <3>1. /\ mine' = [mine EXCEPT ![c] = route[c]]
          /\ \/ /\ hosted[Target(c)] # None
                /\ hold' = [hold EXCEPT ![c] = hosted[Target(c)]] /\ Goes(c, "acquired")
             \/ UNCHANGED hold /\ Goes(c, "opening")
      BY <2>2 DEF AttachBegins
    <3>2. hosted[Target(c)] # None => hosted[Target(c)] \in DOMAIN handle
      BY <1>1 DEF HostInv, HostedIsItsOwn
    <3>3. CASE d = c
      BY <1>1, <3>1, <3>2, <3>3 DEF Goes, ClientType, ClientMoves
    <3>4. CASE d # c
      BY <3>1, <3>4 DEF Goes, ClientType, ClientMoves, Stays
    <3>. QED  BY <3>3, <3>4
  <2>. QED  BY <2>1, <2>2
<1>. QED  BY <1>1, <1>2 DEF AllMove, RouteMoves, AttMoves, HostMoves

\* A new attachment is one that was free.
LEMMA LeasesMoves ==
  ASSUME RouterInv, NEW c \in Clients, Leases(c), step[c] \in {"acquired", "switching"},
         step[c] = "switching" => Over(mine[c]), UNCHANGED <<route, hosted>>
  PROVE  AllMove
<1>. RouterType /\ ClientType
  BY DEF RouterInv, RouterType
<1>1. PICK i \in Ids \ Used :
        /\ \A j \in Ids \ {i} : att'[j] = att[j]
        /\ att'[i].client = c /\ att'[i].handle = hold[c] /\ att'[i].listed
        /\ att'[i].lease = "acquiring" /\ att'[i].calls = {} /\ att'[i].release = "no"
        /\ mine' = [mine EXCEPT ![c] = i] /\ step' = [step EXCEPT ![c] = "leasing"]
        /\ UNCHANGED <<queue, hold>>
  BY LeasesForm
<1>2. hold[c] \in DOMAIN handle
  BY DEF RouterInv, HoldsHandle
<1>3. ASSUME NEW j \in Ids PROVE AttMoves(j)
  BY <1>1, <1>2 DEF AttMoves, Made
<1>4. ASSUME NEW d \in Clients PROVE ClientMoves(d)
  <2>1. CASE d = c
    BY <1>1, <2>1 DEF ClientMoves, ClientType
  <2>2. CASE d # c
    BY <1>1, <2>2 DEF ClientMoves, ClientType, Stays
  <2>. QED  BY <2>1, <2>2
<1>. QED  BY <1>3, <1>4 DEF AllMove, RouteMoves, HostMoves

\* The session is there, or the client has left its former one.
LEMMA AcquiredMoves ==
  ASSUME RouterInv, NEW c \in Clients, Acquired(c) \/ Switched(c)
  PROVE  AllMove
<1>. RouterType /\ ClientType
  BY DEF RouterInv, RouterType
<1>1. /\ UNCHANGED <<route, hosted>> /\ step[c] \in {"acquired", "switching"}
      /\ step[c] = "switching" => Over(mine[c])
  BY DEF Acquired, Switched, Running, routeVars, hostVars
<1>2. CASE Ends(c) /\ UNCHANGED att
  BY <1>1, <1>2, EndsMoves DEF AllMove, RouteMoves, AttMoves, HostMoves
<1>3. CASE Leases(c)
  BY <1>1, <1>3, LeasesMoves
<1>4. CASE /\ step[c] = "acquired" /\ mine[c] # None /\ att' = Releasing({mine[c]}, FALSE)
           /\ Goes(c, "switching") /\ UNCHANGED <<hold, mine>>
  <2>1. /\ mine[c] \in Used /\ att[mine[c]].client = c /\ att[mine[c]].lease # "acquiring"
        /\ step'[c] = "switching" /\ mine'[c] = mine[c]
    BY <1>4 DEF RouterInv, OwnsMine, Goes, ClientType
  <2>2. \A i \in Ids : AttMoves(i)
    <3>1. {mine[c]} \in SUBSET Used /\ FALSE \in BOOLEAN
      BY <2>1
    <3>. QED  BY <1>4, <2>1, <3>1, ReleasingMoves
  <2>3. ASSUME NEW d \in Clients PROVE ClientMoves(d)
    BY <1>4 DEF Goes, ClientType, ClientMoves, Stays
  <2>. QED  BY <1>1, <2>2, <2>3 DEF AllMove, RouteMoves, HostMoves
<1>. QED  BY <1>2, <1>3, <1>4 DEF Acquired, Switched, Running

\* A lease comes, and is of use or dropped.
LEMMA LeaseMoves ==
  ASSUME RouterInv, NEW c \in Clients, LeaseComes(c) \/ LeaseFails(c)
  PROVE  AllMove
<1>. RouterType /\ ClientType
  BY DEF RouterInv, RouterType
<1>. DEFINE i == mine[c]
<1>1. step[c] = "leasing" /\ i # None /\ i \in Used /\ att[i].client = c /\ UNCHANGED hosted
  BY DEF LeaseComes, LeaseFails, Running, ClientType, Attached, RouterInv, OwnsMine, hostVars
<1>2. CASE LeaseComes(c) /\ StillWanted(c)
  <2>1. /\ \A j \in Ids \ {i} : att'[j] = att[j]
        /\ att'[i].client = att[i].client /\ att'[i].handle = att[i].handle
        /\ att'[i].lease = "held" /\ att'[i].calls = att[i].calls
        /\ att'[i].owed = att[i].owed
        /\ att'[i].listed = att[i].listed
        /\ att'[i].release = att[i].release
    BY <1>1, <1>2, LeaseComesForm
  <2>2. Ends(c) /\ route' = [route EXCEPT ![c] = i]
    BY <1>2 DEF LeaseComes
  <2>3. (\A d \in Clients : ClientMoves(d)) /\ step'[c] = "idle"
    BY <1>1, <2>2, EndsMoves
  <2>4. Comes(i)
    BY <1>1, <1>2, <2>1, <2>3 DEF Comes, KeepsCalls
  <2>5. ASSUME NEW d \in Clients PROVE RouteMoves(d)
    BY <1>1, <1>2, <2>1, <2>2 DEF RouteMoves, RouterType
  <2>. QED  BY <1>1, <2>1, <2>3, <2>4, <2>5 DEF AllMove, AttMoves, HostMoves
<1>3. CASE LeaseComes(c) /\ ~StillWanted(c)
  <2>1. /\ \A j \in Ids \ {i} : att'[j] = att[j]
        /\ att'[i].client = att[i].client /\ att'[i].handle = att[i].handle
        /\ att'[i].lease = "held" /\ att'[i].calls = att[i].calls
        /\ att'[i].owed = att[i].owed
        /\ att'[i].listed = att[i].listed
        /\ att'[i].release = IF att[i].release = "no" THEN "calls" ELSE att[i].release
    BY <1>1, <1>3, LeaseComesForm
  <2>2. Goes(c, "dropping") /\ UNCHANGED <<hold, mine, route>>
    BY <1>3 DEF LeaseComes
  <2>3. step'[c] = "dropping" /\ \A d \in Clients \ {c} : Stays(d)
    BY <2>2 DEF Goes, ClientType, Stays
  <2>4. Comes(i)
    BY <1>1, <2>1, <2>2, <2>3 DEF Comes, KeepsCalls
  <2>5. \A d \in Clients : ClientMoves(d)
    BY <1>1, <2>1, <2>2, <2>3 DEF ClientMoves
  <2>. QED  BY <1>1, <2>1, <2>2, <2>4, <2>5 DEF AllMove, AttMoves, HostMoves, RouteMoves
<1>4. CASE LeaseFails(c)
  <2>1. /\ \A j \in Ids \ {i} : att'[j] = att[j]
        /\ att'[i].client = att[i].client /\ att'[i].handle = att[i].handle
        /\ att'[i].lease = "refused" /\ att'[i].calls = att[i].calls
        /\ att'[i].owed = att[i].owed /\ att'[i].release = att[i].release
    BY <1>1, <1>4, LeaseFailsForm
  <2>2. Ends(c) /\ UNCHANGED route
    BY <1>4 DEF LeaseFails, routeVars
  <2>3. (\A d \in Clients : ClientMoves(d)) /\ step'[c] = "idle"
    BY <1>1, <2>2, EndsMoves
  <2>4. RefusedLease(i)
    BY <1>1, <2>1, <2>2, <2>3 DEF RefusedLease, KeepsCalls, KeepsRelease
  <2>. QED  BY <1>1, <2>1, <2>2, <2>3, <2>4 DEF AllMove, AttMoves, HostMoves, RouteMoves
<1>. QED  BY <1>2, <1>3, <1>4

\* A client leaves, and a call of its starts.
LEMMA LeaveMoves ==
  ASSUME RouterInv, NEW c \in Clients, LeaveBegins(c) \/ LeaveEnds(c) \/ CallStarts(c)
  PROVE  AllMove
<1>. RouterType /\ ClientType
  BY DEF RouterInv, RouterType
<1>1. UNCHANGED <<route, hosted>>
  BY DEF LeaveBegins, LeaveEnds, CallStarts, routeVars, hostVars
<1>2. "none" \notin Clients /\ \A d \in Clients : route[d] # None => route[d] \in Ids
  BY RouterAssumption DEF RouterType
<1>3. CASE LeaveBegins(c)
  <2>. DEFINE i == route[c]
  <2>1. /\ i # None /\ step[c] = "idle" /\ Goes(c, "leaving")
        /\ mine' = [mine EXCEPT ![c] = i] /\ UNCHANGED hold
        /\ \E tell \in BOOLEAN : att' = Releasing({i}, tell)
    BY <1>3 DEF LeaveBegins, Running
  <2>2. i \in Used /\ att[i].client = c /\ att[i].lease = "held"
    BY <1>2, <2>1 DEF RouterInv, RoutesAreLive, Used
  <2>3. step'[c] = "leaving" /\ mine'[c] = i
    BY <2>1 DEF Goes, ClientType
  <2>4. \A j \in Ids : AttMoves(j)
    BY <2>1, <2>2, <2>3, ReleasingMoves
  <2>5. ASSUME NEW d \in Clients PROVE ClientMoves(d)
    BY <2>1 DEF Goes, ClientType, ClientMoves, Stays
  <2>. QED  BY <1>1, <2>4, <2>5 DEF AllMove, RouteMoves, HostMoves
<1>4. CASE LeaveEnds(c)
  <2>1. Ends(c) /\ UNCHANGED att /\ (step[c] \in {"switching", "dropping", "leaving"} => Over(mine[c]))
    BY <1>4 DEF LeaveEnds, Running
  <2>. QED  BY <1>1, <2>1, EndsMoves DEF AllMove, RouteMoves, AttMoves, HostMoves
<1>5. CASE CallStarts(c)
  <2>. DEFINE i == Target(c)
  <2>1. /\ step[c] = "idle" /\ Ends(c) /\ Head(queue[c]) \in Operation /\ Head(queue[c]).op = "call"
    BY <1>5, ClientForms DEF CallStarts, Running
  <2>2. i \in Ids /\ Head(queue[c]).call \in Calls
    BY <2>1 DEF Operation, Target
  <2>3. \A d \in Clients : ClientMoves(d)
    BY <2>1, EndsMoves
  <2>4. CASE UNCHANGED att
    BY <1>1, <2>3, <2>4 DEF AllMove, RouteMoves, AttMoves, HostMoves
  <2>5. CASE /\ ~Draining /\ route[c] = i
             /\ att' = [att EXCEPT ![i].calls = att[i].calls \cup {Head(queue[c]).call}]
    <3>1. att[i].calls \cup {Head(queue[c]).call} \in SUBSET Calls
      BY <2>2 DEF RouterType, Attachment
    <3>2. i # None /\ i \in Used /\ att[i].client = c
      BY <1>2, <2>2, <2>5 DEF RouterInv, RoutesAreLive, Used, Ids, None
    <3>3. /\ \A j \in Ids \ {i} : att'[j] = att[j]
          /\ att'[i].client = att[i].client /\ att'[i].handle = att[i].handle
          /\ CallsMove(i)
      BY <2>1, <2>2, <2>5, <3>1, <3>2, CallForm DEF CallsMove, KeepsLease, KeepsRelease
    <3>4. \A j \in Ids : AttMoves(j)
      BY <3>2, <3>3 DEF AttMoves
    <3>. QED  BY <1>1, <2>3, <3>4 DEF AllMove, RouteMoves, HostMoves
  <2>. QED  BY <1>5, <2>4, <2>5 DEF CallStarts
<1>. QED  BY <1>3, <1>4, <1>5


\* A host that has gone takes the attachments that are listed for it along.
LEMMA TerminatedMoves ==
  ASSUME RouterInv, NEW h \in Handles, Terminated(h)
  PROVE  AllMove
<1>. RouterType /\ HostInv
  BY DEF RouterInv
<1>. DEFINE s == handle[h].session
<1>1. /\ h \in DOMAIN handle /\ handle[h].st \in {"closed", "dead"}
      /\ UNCHANGED <<step, hold, mine, route>>
  BY DEF Terminated, clientVars, routeVars
<1>2. CASE UNCHANGED <<hosted, att>>
  BY <1>1, <1>2, StillMoves
<1>3. CASE hosted' = [hosted EXCEPT ![s] = None] /\ att' = Releasing(Listed(h), TRUE) /\ hosted[s] = h
  <2>1. Listed(h) \in SUBSET Used /\ \A i \in Listed(h) : att[i].handle = h
    BY DEF Listed
  <2>2. handle'[h].st \in {"closed", "dead"}
    <3>1. PICK x : Turns(h, x) /\ x.st = handle[h].st /\ x.taken = handle[h].taken
      BY <1>1, ToldTurn
    <3>. QED  BY <1>1, <3>1, TurnForm DEF HostInv
  <2>3. \A i \in Ids : AttMoves(i)
    BY <1>3, <2>1, <2>2, ReleasingMoves
  <2>4. ASSUME NEW i \in Listed(h) PROVE att'[i].release # "no"
    BY <1>3, <2>1, ReleasingForm DEF Used
  <2>5. ASSUME NEW z \in Sessions PROVE HostMoves(z)
    <3>1. CASE z = s
      BY <1>3, <2>4, <3>1 DEF HostMoves, Listed
    <3>2. CASE z # s
      BY <1>3, <3>2 DEF HostMoves, HostInv, HostType
    <3>. QED  BY <3>1, <3>2
  <2>. QED  BY <1>1, <2>3, <2>5 DEF AllMove, ClientMoves, RouteMoves, Stays
<1>. QED  BY <1>2, <1>3 DEF Terminated

\* A removal takes its handle away from the session it is still hosted by.
LEMMA RemovalMoves ==
  ASSUME RouterInv, NEW s \in Sessions, RemoveBegins(s) \/ RemoveCloses(s) \/ RemoveEnds(s)
  PROVE  AllMove
<1>. RouterType /\ HostInv
  BY DEF RouterInv
<1>1. CASE RemoveCloses(s)
  BY <1>1, StillMoves DEF RemoveCloses, clientVars, routeVars, hostVars
<1>2. CASE RemoveBegins(s)
  <2>1. /\ UNCHANGED <<step, hold, mine, route, hosted>>
        /\ att' = Releasing(Listed(hosted[s]), TRUE)
    BY <1>2 DEF RemoveBegins, clientVars, routeVars
  <2>2. handle'[hosted[s]].taken # "no"
    <3>1. PICK x : Turns(hosted[s], x) /\ x.st = handle[hosted[s]].st /\ x.taken = "removing"
      BY <1>2, RemoveTurn
    <3>. QED  BY <3>1, TurnForm DEF HostInv
  <2>3. Listed(hosted[s]) \in SUBSET Used /\ \A i \in Listed(hosted[s]) : att[i].handle = hosted[s]
    BY DEF Listed
  <2>4. \A i \in Ids : AttMoves(i)
    BY <2>1, <2>2, <2>3, ReleasingMoves
  <2>. QED  BY <2>1, <2>4 DEF AllMove, ClientMoves, Stays, RouteMoves, HostMoves
<1>3. CASE RemoveEnds(s)
  <2>. DEFINE h == removal[s].handle
  <2>1. /\ UNCHANGED <<step, hold, mine, route, att>>
        /\ hosted' = IF hosted[s] = h THEN [hosted EXCEPT ![s] = None] ELSE hosted
    BY <1>3 DEF RemoveEnds, clientVars, routeVars
  <2>2. CASE hosted[s] # h \/ h = None
    <3>1. hosted' = hosted
      BY <2>1, <2>2 DEF HostInv, HostType
    <3>. QED  BY <2>1, <3>1, StillMoves
  <2>3. CASE hosted[s] = h /\ h # None
    <3>1. h \in DOMAIN handle
      BY <2>3 DEF HostInv, HostedIsItsOwn
    <3>2. PICK x : Turns(h, x) /\ x.taken = "removed"
      BY <1>3, <2>3, <3>1, TakeTurn
    <3>3. handle'[h].taken = "removed"
      BY <3>2, TurnForm DEF HostInv
    <3>4. \A z \in Sessions : HostMoves(z)
      BY <2>1, <2>3, <3>1, <3>3 DEF HostMoves, HostInv, HostType
    <3>. QED  BY <2>1, <3>4 DEF AllMove, ClientMoves, Stays, RouteMoves, AttMoves
  <2>. QED  BY <2>2, <2>3
<1>. QED  BY <1>1, <1>2, <1>3

\* Sessions are opened, and handles come to their end, as the hosts do.
LEMMA HostMove ==
  ASSUME RouterInv,
         \/ \E s \in Sessions : OpenEnds(s) \/ OpenFails(s)
         \/ \E h \in Handles : HandleCloses(h) \/ Terminate(h) \/ KeepsHandle(h) \/ LeavesHandle(h)
  PROVE  AllMove
<1>. RouterType /\ ClientType /\ HostInv
  BY DEF RouterInv, RouterType
<1>1. ASSUME NEW s \in Sessions, OpenEnds(s) \/ OpenFails(s) PROVE AllMove
  <2>1. UNCHANGED <<route, att>> /\ \A z \in Sessions : HostMoves(z)
    BY <1>1 DEF OpenEnds, OpenFails, routeVars, HostInv, HostType, OpeningIsNotHosted, HostMoves
  <2>2. \A c \in Clients : ClientMoves(c)
    <3>1. CASE UNCHANGED clientVars
      BY <3>1 DEF clientVars, ClientMoves, Stays
    <3>2. CASE OpenEnds(s) /\ Resume(s, Len(handle'))
      <4>1. Len(handle') \in Nat /\ (Len(handle') # None => Len(handle') \in DOMAIN handle')
        BY <3>2, OpenKeeps DEF HostInv, HostType, None
      <4>. QED  BY <3>2, <4>1, ResumeMoves
    <3>3. CASE Resume(s, None)
      BY <3>3, ResumeMoves DEF None
    <3>. QED  BY <1>1, <3>1, <3>2, <3>3 DEF OpenEnds, OpenFails
  <2>. QED  BY <2>1, <2>2 DEF AllMove, AttMoves, RouteMoves
<1>2. ASSUME NEW h \in Handles, Terminate(h) \/ KeepsHandle(h) \/ (HandleCloses(h) /\ Serves(h))
      PROVE  AllMove
  BY <1>2, StillMoves DEF Terminate, KeepsHandle, HandleCloses, Serves, clientVars, routeVars
<1>3. ASSUME NEW h \in Handles, handle[h].st = "closing", HandleCloses(h) \/ LeavesHandle(h)
      PROVE  AllMove
  <2>1. UNCHANGED <<hosted, att, route>> /\ Resume(handle[h].session, None) /\ h \in DOMAIN handle
    BY <1>3 DEF HandleCloses, LeavesHandle, Serves, routeVars
  <2>2. handle[h].session \in Sessions
    <3>1. handle[h] \in Handle
      BY <2>1 DEF HostInv, HostType
    <3>. QED  BY <3>1 DEF Handle
  <2>3. \A c \in Clients : ClientMoves(c)
    BY <2>1, <2>2, ResumeMoves DEF None
  <2>. QED  BY <2>1, <2>3 DEF AllMove, AttMoves, RouteMoves, HostMoves
<1>. QED  BY <1>1, <1>2, <1>3 DEF HandleCloses, LeavesHandle

\* A lease goes back, a release is over, and a call ends.
LEMMA ReleaseMoves ==
  ASSUME RouterInv, NEW i \in Ids, ReleaseStep(i) \/ \E k \in Calls : CallEnds(i, k)
  PROVE  AllMove
<1>. RouterType
  BY DEF RouterInv
<1>1. UNCHANGED <<step, hold, mine, hosted>>
  BY DEF ReleaseStep, ReturnLease, LeaseReturned, ReleaseFails, Clear, CallEnds, clientVars, hostVars
<1>2. CASE ReturnLease(i)
  <2>1. /\ \A j \in Ids \ {i} : att'[j] = att[j]
        /\ att'[i].client = att[i].client /\ att'[i].handle = att[i].handle
        /\ att'[i].release = "returning" /\ att'[i].calls = att[i].calls
        /\ att'[i].owed = att[i].owed /\ att'[i].lease = att[i].lease
        /\ att'[i].listed = att[i].listed
    BY <1>2, ReturnForm
  <2>2. /\ att[i].release = "calls" /\ att[i].lease = "held" /\ att[i].owed \cap att[i].calls = {}
        /\ UNCHANGED route
    BY <1>2 DEF ReturnLease, Leased, routeVars
  <2>3. i \in Used
    BY <2>2 DEF RouterInv, Unused
  <2>4. Returning(i)
    BY <2>1, <2>2 DEF Returning, KeepsLease, KeepsCalls
  <2>. QED  BY <1>1, <2>1, <2>2, <2>3, <2>4 DEF AllMove, AttMoves, ClientMoves, Stays, RouteMoves, HostMoves
<1>3. CASE LeaseReturned(i) \/ ReleaseFails(i)
  <2>1. PICK outcome \in {"done", "failed"} : Clear(i, outcome)
    BY <1>3 DEF LeaseReturned, ReleaseFails
  <2>2. /\ \A j \in Ids \ {i} : att'[j] = att[j]
        /\ att'[i].client = att[i].client /\ att'[i].handle = att[i].handle
        /\ att'[i].release = outcome /\ att'[i].calls = att[i].calls
        /\ att'[i].lease = IF att[i].lease = "held" THEN "returned" ELSE att[i].lease
        /\ route' = IF route[att[i].client] = i THEN [route EXCEPT ![att[i].client] = None] ELSE route
    BY <2>1, ClearForm
  <2>3. att[i].release = "returning" \/ (att[i].release = "calls" /\ att[i].lease = "refused")
    BY <1>3 DEF LeaseReturned, ReleaseFails
  <2>4. i \in Used /\ att[i].client \in Clients
    <3>1. i \in Used /\ att[i] \in Attachment
      BY <2>3 DEF RouterInv, Unused, RouterType
    <3>. QED  BY <3>1 DEF Used, Attachment
  <2>5. route'[att[i].client] # i /\ \A c \in Clients : RouteMoves(c)
    BY <2>2, <2>4 DEF RouteMoves, RouterType, None, Ids
  <2>6. Cleared(i)
    BY <2>2, <2>3, <2>5 DEF Cleared, KeepsCalls
  <2>. QED  BY <1>1, <2>2, <2>4, <2>5, <2>6 DEF AllMove, AttMoves, ClientMoves, Stays, HostMoves
<1>4. ASSUME NEW k \in Calls, CallEnds(i, k) PROVE AllMove
  <2>1. att[i].calls \ {k} \in SUBSET Calls
    BY DEF RouterType, Attachment
  <2>2. /\ \A j \in Ids \ {i} : att'[j] = att[j]
        /\ att'[i].client = att[i].client /\ att'[i].handle = att[i].handle
        /\ att'[i].calls = att[i].calls \ {k} /\ KeepsLease(i) /\ KeepsRelease(i)
    BY <1>4, <2>1, CallForm DEF CallEnds, KeepsLease, KeepsRelease
  <2>3. i \in Used /\ UNCHANGED route
    BY <1>4 DEF RouterInv, Unused, CallEnds, routeVars
  <2>4. CallsMove(i)
    BY <2>2 DEF CallsMove
  <2>. QED  BY <1>1, <2>2, <2>3, <2>4 DEF AllMove, AttMoves, ClientMoves, Stays, RouteMoves, HostMoves
<1>. QED  BY <1>2, <1>3, <1>4 DEF ReleaseStep

\* The shutdown releases what is attached, and in the end there is no route.
LEMMA ShutdownMoves ==
  ASSUME RouterInv, RouterReleases \/ RouterClosed
  PROVE  AllMove
<1>. RouterType /\ HostInv
  BY DEF RouterInv
<1>1. CASE RouterReleases
  <2>. DEFINE last == UNION {Listed(h) : h \in Hosted}
  <2>1. last \in SUBSET Used
    BY DEF Listed
  <2>2. /\ UNCHANGED <<step, hold, mine, route, hosted>>
        /\ att' = Releasing(last, TRUE) /\ Draining
    BY <1>1 DEF RouterReleases, clientVars, routeVars, hostVars, Draining
  <2>. HIDE DEF last
  <2>3. \A i \in Ids : AttMoves(i)
    BY <2>1, <2>2, ReleasingMoves
  <2>. QED  BY <2>2, <2>3 DEF AllMove, ClientMoves, Stays, RouteMoves, HostMoves
<1>2. CASE RouterClosed
  <2>1. UNCHANGED <<step, hold, mine, att>> /\ \A c \in Clients : route'[c] = None
    BY <1>2 DEF RouterClosed, clientVars
  <2>. QED  BY <2>1 DEF AllMove, ClientMoves, Stays, RouteMoves, AttMoves, HostMoves
<1>. QED  BY <1>1, <1>2

\* Every step of the server is made of such moves.
LEMMA EveryMove ==
  ASSUME RouterInv, [Next]_vars
  PROVE  AllMove
<1>1. ASSUME \/ UNCHANGED vars \/ CloseServer \/ CloseConnections \/ RouterCloses
             \/ \E c \in Clients : \/ AskDetach(c) \/ AskCall(c) \/ LoseConnection(c)
                                   \/ \E s \in Sessions : AskAttach(c, s)
      PROVE  AllMove
  BY <1>1, StillMoves DEF vars, CloseServer, CloseConnections, RouterCloses, AskDetach, AskCall,
     LoseConnection, AskAttach, Ask, Lose, clientVars, routeVars, hostVars
<1>2. Environment => AllMove
  BY <1>1, HostMove, RemovalMoves DEF Environment
<1>3. Shutdown => AllMove
  BY <1>1, ShutdownMoves DEF Shutdown
<1>4. ASSUME NEW c \in Clients, ClientStep(c) PROVE AllMove
  BY <1>4, AttachMoves, AcquiredMoves, LeaseMoves, LeaveMoves DEF ClientStep
<1>. QED  BY <1>1, <1>2, <1>3, <1>4, HostMove, RemovalMoves, TerminatedMoves, ReleaseMoves
          DEF Next, HostStep, HandleStep


\* At the start nothing is attached, routed or released.
LEMMA RouterInit == Init => RouterInv
<1>. SUFFICES ASSUME Init PROVE RouterInv
  OBVIOUS
<1>1. HostInv /\ RouterType
  BY HostInit, RouterTypeInit
<1>2. HoldsHandle /\ OwnsMine /\ RoutesAreLive
  BY DEF Init, HoldsHandle, OwnsMine, RoutesAreLive
<1>3. Used = {} /\ Unused
  BY DEF Init, Used, Free, Unused
<1>. QED  BY <1>1, <1>2, <1>3 DEF RouterInv, Stages, CallsInv

\* What is attached stays attached: it keeps its client and its handle.
LEMMA AttachmentsLast ==
  ASSUME RouterInv, [Next]_vars, NEW i \in Used
  PROVE  /\ i \in Used' /\ att'[i].client = att[i].client /\ att'[i].handle = att[i].handle
         /\ att[i].client \in Clients /\ att[i].handle \in DOMAIN handle
         /\ att'[i].lease = "acquiring" => att[i].lease = "acquiring"
<1>1. i \in Ids /\ AttMoves(i) /\ att[i] \in Attachment
  BY EveryMove DEF AllMove, Used, RouterInv, RouterType
<1>2. /\ att'[i].client = att[i].client /\ att'[i].handle = att[i].handle
      /\ att'[i].lease = "acquiring" => att[i].lease = "acquiring"
  BY <1>1 DEF AttMoves, Made, Begun, Comes, RefusedLease, Returning, Cleared, CallsMove, KeepsLease
<1>. QED  BY <1>1, <1>2 DEF Used, Attachment, RouterInv, Stages

\* The operations keep the handles and the attachments they need.
LEMMA ClientsNext ==
  ASSUME RouterInv, [Next]_vars
  PROVE  HoldsHandle' /\ OwnsMine'
<1>. HostInv /\ RouterType /\ ClientType /\ AllMove
  BY EveryMove DEF RouterInv, RouterType
<1>1. ASSUME NEW c \in Clients, step'[c] \in {"acquired", "switching"}
      PROVE  hold'[c] \in DOMAIN handle'
  <2>1. ClientMoves(c)
    BY DEF AllMove
  <2>2. hold'[c] \in DOMAIN handle'
    BY <1>1, <2>1, HandlesLast DEF ClientMoves, Stays, RouterInv, HoldsHandle
  <2>. QED  BY <2>2
<1>2. ASSUME NEW c \in Clients, mine'[c] # None
      PROVE  /\ mine'[c] \in Used' /\ att'[mine'[c]].client = c
             /\ att'[mine'[c]].lease = "acquiring" <=> step'[c] = "leasing"
  <2>1. ClientMoves(c)
    BY DEF AllMove
  <2>2. CASE mine'[c] = mine[c] /\ step[c] # "leasing" /\ step'[c] # "leasing"
    BY <1>2, <2>2, AttachmentsLast DEF RouterInv, OwnsMine
  <2>3. CASE mine'[c] = mine[c] /\ step[c] = "leasing" /\ step'[c] = "leasing"
    <3>. DEFINE i == mine[c]
    <3>1. i \in Used /\ i \in Ids /\ att[i].client = c /\ att[i].lease = "acquiring"
      BY <1>2, <2>3 DEF RouterInv, OwnsMine, Used
    <3>2. AttMoves(i)
      BY <3>1 DEF AllMove
    <3>3. att'[i].lease = "acquiring"
      BY <2>3, <3>1, <3>2 DEF AttMoves, Made, Begun, Comes, RefusedLease, Returning, Cleared,
         CallsMove, KeepsLease
    <3>. QED  BY <2>3, <3>1, <3>3, AttachmentsLast
  <2>4. CASE step[c] = "idle" /\ step'[c] # "leasing" /\ mine'[c] = route[c]
    <3>1. /\ route[c] \in Ids /\ att[route[c]].client = c /\ att[route[c]].lease = "held"
          /\ route[c] \in Used
      BY <1>2, <2>4, RouterAssumption DEF RouterInv, RouterType, RoutesAreLive, Used
    <3>. QED  BY <2>4, <3>1, AttachmentsLast
  <2>5. CASE /\ step'[c] = "leasing" /\ mine'[c] \in Ids
             /\ att'[mine'[c]].client = c /\ att'[mine'[c]].lease = "acquiring"
    BY <2>5, RouterAssumption DEF Used
  <2>6. CASE /\ step[c] = "leasing" /\ step'[c] = "dropping" /\ mine'[c] = mine[c]
             /\ att'[mine[c]].lease = "held"
    BY <1>2, <2>6, AttachmentsLast DEF RouterInv, OwnsMine
  <2>. QED  BY <1>2, <2>1, <2>2, <2>3, <2>4, <2>5, <2>6 DEF ClientMoves, Stays
<1>. QED  BY <1>1, <1>2 DEF HoldsHandle, OwnsMine

\* Releases go their way with the leases.
LEMMA StagesNext ==
  ASSUME RouterInv, [Next]_vars
  PROVE  Stages' /\ Unused'
<1>. HostInv /\ AllMove /\ Stages /\ Unused
  BY EveryMove DEF RouterInv
<1>1. ASSUME NEW i \in Used'
      PROVE  /\ att'[i].handle \in DOMAIN handle'
             /\ \/ att'[i].release \in {"no", "calls"} /\ att'[i].lease \in {"acquiring", "held", "refused"}
                \/ att'[i].release = "returning" /\ att'[i].lease = "held"
                \/ att'[i].release \in {"done", "failed"} /\ att'[i].lease \in {"returned", "refused"}
             /\ att'[i].lease \in {"acquiring", "refused"} => att'[i].calls = {}
  <2>1. i \in Ids /\ AttMoves(i)
    BY DEF Used, AllMove
  <2>2. CASE i \notin Used
    BY <1>1, <2>1, <2>2, HandlesLast DEF AttMoves, Made, Used
  <2>3. CASE i \in Used
    <3>1. att'[i].handle \in DOMAIN handle'
      BY <2>3, AttachmentsLast, HandlesLast
    <3>2. /\ \/ att[i].release \in {"no", "calls"} /\ att[i].lease \in {"acquiring", "held", "refused"}
             \/ att[i].release = "returning" /\ att[i].lease = "held"
             \/ att[i].release \in {"done", "failed"} /\ att[i].lease \in {"returned", "refused"}
          /\ att[i].lease \in {"acquiring", "refused"} => att[i].calls = {}
      BY <2>3 DEF Stages, Over
    <3>3. ASSUME Begun(i) \/ Returning(i) \/ Cleared(i)
          PROVE  /\ \/ att'[i].release \in {"no", "calls"} /\ att'[i].lease \in {"acquiring", "held", "refused"}
                    \/ att'[i].release = "returning" /\ att'[i].lease = "held"
                    \/ att'[i].release \in {"done", "failed"} /\ att'[i].lease \in {"returned", "refused"}
                 /\ att'[i].lease \in {"acquiring", "refused"} => att'[i].calls = {}
      BY <3>2, <3>3 DEF Begun, Returning, Cleared, KeepsLease, KeepsCalls
    <3>4. ASSUME Comes(i) \/ RefusedLease(i)
          PROVE  /\ att'[i].release \in {"no", "calls"} /\ att'[i].lease \in {"held", "refused"}
                 /\ att'[i].calls = {}
      <4>1. att[i].client \in Clients /\ mine[att[i].client] = i /\ step[att[i].client] = "leasing" /\ i # None
        BY <2>1, <2>3, <3>4, AttachmentsLast DEF Comes, RefusedLease, Ids, None
      <4>2. att[i].lease = "acquiring"
        BY <4>1 DEF RouterInv, OwnsMine
      <4>. QED  BY <3>2, <3>4, <4>2 DEF Comes, RefusedLease, KeepsCalls, KeepsRelease
    <3>5. ASSUME CallsMove(i)
          PROVE  /\ \/ att'[i].release \in {"no", "calls"} /\ att'[i].lease \in {"acquiring", "held", "refused"}
                    \/ att'[i].release = "returning" /\ att'[i].lease = "held"
                    \/ att'[i].release \in {"done", "failed"} /\ att'[i].lease \in {"returned", "refused"}
                 /\ att'[i].lease \in {"acquiring", "refused"} => att'[i].calls = {}
      <4>1. att'[i].lease = att[i].lease /\ att'[i].release = att[i].release
        BY <3>5 DEF CallsMove, KeepsLease, KeepsRelease
      <4>2. att'[i].calls \subseteq att[i].calls \/ att[i].lease = "held"
        BY <2>1, <2>3, <3>5, AttachmentsLast DEF CallsMove, RouterInv, RoutesAreLive, Ids, None
      <4>. QED  BY <3>2, <4>1, <4>2
    <3>. QED  BY <2>1, <2>3, <3>1, <3>2, <3>3, <3>4, <3>5 DEF AttMoves, Made
  <2>. QED  BY <2>2, <2>3
<1>2. ASSUME NEW i \in Ids \ Used' PROVE att'[i].release = "no" /\ att'[i].calls = {}
  <2>1. AttMoves(i) /\ i \notin Used
    BY <1>2, AttachmentsLast DEF AllMove
  <2>. QED  BY <1>2, <2>1, RouterAssumption DEF AttMoves, Made, Unused, Used
<1>. QED  BY <1>1, <1>2 DEF Stages, Unused, Over

\* A route goes on, is taken back, or begins with a lease for a host that is there.
LEMMA RoutesNext ==
  ASSUME RouterInv, [Next]_vars
  PROVE  RoutesAreLive'
<1>. HostInv /\ RouterType /\ AllMove
  BY EveryMove DEF RouterInv
<1>. SUFFICES ASSUME NEW c \in Clients, NEW i, i = route'[c], i # None
              PROVE  /\ att'[i].client = c /\ att'[i].lease = "held"
                     /\ att'[i].release = "no" =>
                          /\ att'[i].listed
                          /\ \/ hosted'[handle'[att'[i].handle].session] = att'[i].handle
                             \/ handle'[att'[i].handle].taken = "removed"
  BY DEF RoutesAreLive, Session
<1>1. RouteMoves(c)
  BY DEF AllMove
<1>. DEFINE h == att[i].handle
            s == handle[h].session
            taken == handle[h].taken = "removed"
<1>3. /\ i \in Used /\ att[i].client = c /\ att'[i].lease = "held"
      /\ att'[i].release = "no" => att'[i].listed /\ att[i].listed /\ (hosted[s] = h \/ taken)
  <2>1. CASE route'[c] = mine[c] /\ route'[c] # route[c]
    <3>1. /\ step[c] = "leasing" /\ StillWanted(c)
          /\ att'[i].lease = "held" /\ att'[i].listed = att[i].listed
      BY <1>1, <2>1 DEF RouteMoves
    <3>2. i \in Used /\ att[i].client = c
      BY <2>1 DEF RouterInv, OwnsMine
    <3>. QED  BY <2>1, <3>1, <3>2 DEF StillWanted, Session
  <2>2. CASE route'[c] = route[c]
    <3>1. /\ att[i].client = c /\ att[i].lease = "held" /\ i \in Ids
          /\ att[i].release = "no" => att[i].listed /\ (hosted[s] = h \/ taken)
      BY <2>2 DEF RouterInv, RoutesAreLive, Session, RouterType
    <3>2. i \in Used /\ AttMoves(i)
      BY <3>1, RouterAssumption DEF Used, AllMove
    <3>3. ~Comes(i) /\ ~RefusedLease(i) /\ ~Cleared(i)
      BY <2>2, <3>1 DEF Comes, RefusedLease, Cleared, RouterInv, OwnsMine
    <3>4. CASE att'[i] = att[i]
      BY <3>1, <3>2, <3>4
    <3>5. CASE Begun(i) \/ Returning(i)
      BY <3>1, <3>2, <3>5 DEF Begun, Returning, KeepsLease
    <3>6. CASE CallsMove(i)
      BY <3>1, <3>2, <3>6 DEF CallsMove, KeepsLease, KeepsRelease
    <3>. QED  BY <3>2, <3>3, <3>4, <3>5, <3>6 DEF AttMoves, Made
  <2>. QED  BY <1>1, <2>1, <2>2 DEF RouteMoves
<1>4. /\ att'[i].client = c /\ att'[i].handle = h /\ h \in DOMAIN handle
      /\ handle'[h].session = s
  BY <1>3, AttachmentsLast, HandlesLast
<1>5. s \in Sessions /\ h # None
  <2>1. handle[h] \in Handle /\ h \in 1 .. Len(handle)
    BY <1>4 DEF HostInv, HostType
  <2>. QED  BY <2>1 DEF Handle, None
<1>6. ASSUME att'[i].release = "no"
      PROVE  hosted'[s] = h \/ handle'[h].taken = "removed"
  <2>1. CASE taken
    BY <1>4, <2>1, HandlesLast
  <2>2. CASE hosted[s] = h
    BY <1>3, <1>5, <1>6, <2>2 DEF AllMove, HostMoves
  <2>. QED  BY <1>3, <1>6, <2>1, <2>2
<1>. QED  BY <1>3, <1>4, <1>6

\* No call starts for what is shut, until it is released.
LEMMA ShutStays ==
  ASSUME RouterInv, [Next]_vars, NEW i \in Used, Shut(i), ~Comes(i),
         att[i].lease = "acquiring" => Draining
  PROVE  Shut(i)'
<1>. AllMove
  BY EveryMove
<1>. DEFINE c == att[i].client
<1>1. c \in Clients /\ att'[i].client = c /\ i \in Ids /\ i # None
  BY AttachmentsLast DEF Used, Ids, None
<1>2. ClientMoves(c) /\ RouteMoves(c)
  BY <1>1 DEF AllMove
<1>3. CASE route[c] # i
  <2>1. route'[c] # i
    <3>1. ASSUME route'[c] = i PROVE FALSE
      <4>1. mine[c] = i /\ step[c] = "leasing" /\ StillWanted(c)
        BY <1>1, <1>2, <1>3, <3>1 DEF RouteMoves
      <4>2. att[i].lease = "acquiring"
        BY <1>1, <4>1 DEF RouterInv, OwnsMine
      <4>. QED  BY <4>1, <4>2 DEF StillWanted
    <3>. QED  BY <3>1
  <2>. QED  BY <1>1, <2>1 DEF Shut
<1>4. CASE route[c] = i
  <2>1. step[c] \in {"switching", "dropping", "leaving"} /\ mine[c] = i /\ att[i].lease = "held"
    BY <1>1, <1>4 DEF Shut, RouterInv, RoutesAreLive
  <2>2. ~Over(mine[c])
    BY <2>1 DEF RouterInv, Stages, Over
  <2>3. Stays(c)
    BY <1>2, <2>1, <2>2 DEF ClientMoves
  <2>. QED  BY <1>1, <2>1, <2>3 DEF Shut, Stays
<1>. QED  BY <1>3, <1>4

\* A release goes on to wait for every call there is.
LEMMA CallsNext ==
  ASSUME RouterInv, [Next]_vars
  PROVE  CallsInv'
<1>. HostInv /\ RouterType /\ Stages /\ CallsInv /\ AllMove
  BY EveryMove DEF RouterInv
<1>. SUFFICES ASSUME NEW i \in Used', att'[i].release # "no", ~Excused(i)'
              PROVE  /\ att'[i].calls \subseteq att'[i].owed /\ (Draining' \/ Shut(i)')
                     /\ att'[i].lease = "acquiring" => Draining'
                     /\ att'[i].release = "calls" \/ att'[i].calls = {}
  BY DEF CallsInv
<1>1. i \in Ids /\ AttMoves(i) /\ i # None
  BY DEF Used, AllMove, Ids, None
<1>2. i \in Used
  BY <1>1 DEF AttMoves, Made, Used
<1>3. /\ att'[i].client = att[i].client /\ att'[i].handle = att[i].handle
      /\ att[i].client \in Clients /\ (Draining => Draining')
      /\ att'[i].lease = "acquiring" => att[i].lease = "acquiring"
  BY <1>2, AttachmentsLast, DrainsOn
<1>4. ~Excused(i)
  BY <1>2, <1>3, ExcusesStay
<1>. DEFINE c == att[i].client
<1>5. ASSUME att[i].release # "no"
      PROVE  /\ att[i].calls \subseteq att[i].owed /\ (Draining \/ Shut(i))
             /\ att[i].lease = "acquiring" => Draining
             /\ att[i].release = "calls" \/ att[i].calls = {}
  BY <1>2, <1>4, <1>5 DEF CallsInv
<1>6. ASSUME att[i].release # "no", ~Comes(i)
      PROVE  /\ Draining' \/ Shut(i)'
             /\ att'[i].lease = "acquiring" => Draining'
  BY <1>2, <1>3, <1>5, <1>6, ShutStays
<1>7. CASE att'[i] = att[i] /\ ~Comes(i)
  BY <1>5, <1>6, <1>7
<1>8. CASE Begun(i)
  <2>1. \/ Draining
        \/ mine'[c] = i /\ step'[c] \in {"switching", "leaving"} /\ att[i].lease # "acquiring"
    BY <1>8 DEF Begun
  <2>2. Draining' \/ Shut(i)'
    BY <1>3, <2>1 DEF Shut
  <2>3. att'[i].calls = att'[i].owed /\ att'[i].release = "calls" /\ att'[i].lease = att[i].lease
    BY <1>8 DEF Begun, KeepsLease, KeepsCalls
  <2>. QED  BY <1>3, <2>1, <2>2, <2>3
<1>9. CASE Comes(i)
  <2>1. /\ att[i].lease = "acquiring" /\ att[i].calls = {} /\ att'[i].calls = {}
        /\ att'[i].lease = "held"
    <3>1. mine[c] = i /\ step[c] = "leasing"
      BY <1>9 DEF Comes
    <3>2. att[i].lease = "acquiring"
      BY <1>1, <1>3, <3>1 DEF RouterInv, OwnsMine
    <3>. QED  BY <1>2, <1>9, <3>2 DEF Comes, Stages, KeepsCalls
  <2>2. ~(StillWanted(c) /\ att'[i].release = att[i].release)
    BY <1>5, <2>1 DEF StillWanted
  <2>3. step'[c] = "dropping" /\ mine'[c] = i
    BY <1>9, <2>2 DEF Comes
  <2>. QED  BY <1>3, <2>1, <2>3 DEF Shut
<1>10. CASE RefusedLease(i)
  <2>1. att'[i].calls = att[i].calls /\ att'[i].release = att[i].release /\ att'[i].owed = att[i].owed
    BY <1>10 DEF RefusedLease, KeepsCalls, KeepsRelease
  <2>2. ~Comes(i)
    BY <1>10 DEF Comes, RefusedLease
  <2>. QED  BY <1>5, <1>6, <2>1, <2>2
<1>11. CASE Returning(i)
  <2>1. /\ att[i].release = "calls" /\ att[i].lease = "held" /\ att[i].owed \cap att[i].calls = {}
        /\ att'[i].calls = att[i].calls /\ att'[i].owed = att[i].owed
    BY <1>11 DEF Returning, KeepsCalls
  <2>2. ~Comes(i)
    BY <1>1, <1>3, <2>1 DEF Comes, RouterInv, OwnsMine
  <2>. QED  BY <1>5, <1>6, <2>1, <2>2
<1>12. CASE Cleared(i)
  <2>1. route'[c] # i /\ att'[i].calls = att[i].calls
    BY <1>12 DEF Cleared, KeepsCalls
  <2>2. att[i].calls = {}
    BY <1>2, <1>5, <1>12 DEF Cleared, Stages
  <2>3. att'[i].lease # "acquiring"
    BY <1>2, <1>12 DEF Cleared, Stages, Over
  <2>. QED  BY <1>3, <2>1, <2>2, <2>3 DEF Shut
<1>13. CASE CallsMove(i) /\ ~Comes(i)
  <2>1. att'[i].release = att[i].release /\ att'[i].owed = att[i].owed
    BY <1>13 DEF CallsMove, KeepsRelease
  <2>2. ~(route[c] = i /\ step[c] = "idle" /\ ~Draining)
    BY <1>5, <2>1 DEF Shut
  <2>3. att'[i].calls \subseteq att[i].calls
    BY <1>13, <2>2 DEF CallsMove
  <2>. QED  BY <1>5, <1>6, <1>13, <2>1, <2>3
<1>. QED  BY <1>1, <1>2, <1>7, <1>8, <1>9, <1>10, <1>11, <1>12, <1>13 DEF AttMoves, Made

\* Every step of the server keeps the invariant.
LEMMA RouterNext == RouterInv /\ [Next]_vars => RouterInv'
<1>. SUFFICES ASSUME RouterInv, [Next]_vars PROVE RouterInv'
  OBVIOUS
<1>1. HostInv' /\ RouterType'
  BY HostNext, RouterTypeNext DEF RouterInv
<1>. QED  BY <1>1, ClientsNext, StagesNext, RoutesNext, CallsNext DEF RouterInv

\* The handle, the route, the lease and the calls of every attachment keep in step
\* (clientOperations, attachClientNow, releaseAttachment, invalidate, removeSession).
THEOREM RouterInductive == Spec => []RouterInv
  BY RouterInit, RouterNext, PTL DEF Spec

\* However clients attach, switch, detach and are lost while sessions are removed, die
\* and drain, close or fail to, a client that has a route has a lease for it, and its
\* session is hosted by the handle the route goes to; if not, the route is being taken
\* back, or the session was removed while the client attached to it.
THEOREM RoutesStayLive == Spec => []RoutesAreLive
<1>1. RouterInv => RoutesAreLive
  BY DEF RouterInv
<1>. QED  BY <1>1, RouterInductive, PTL

\* A lease goes back only after every call it was asked for, also those that started
\* after the release began; a host that is gone, or a session that is removed, is the
\* only excuse.
THEOREM LeasesOutlastCalls == Spec => []CallsKeepLease
<1>1. RouterInv => CallsKeepLease
  <2>. SUFFICES ASSUME RouterInv, NEW i \in Used, att[i].calls # {},
                       att[i].release = "returning" \/ att[i].lease = "returned"
                PROVE  Excused(i)
    BY DEF CallsKeepLease, Excused
  <2>1. att[i].release \notin {"no", "calls"}
    BY DEF RouterInv, Stages, Over
  <2>. QED  BY <2>1 DEF RouterInv, CallsInv
<1>. QED  BY <1>1, RouterInductive, PTL

==============================================================================
