---------------------------- MODULE SessionRouter ----------------------------
(***************************************************************************)
(* Shared sessions of the server: the router                               *)
(* (packages/server/src/session-router.ts), the connections that call it   *)
(* and the shutdown that drains it (server.ts).                            *)
(*                                                                         *)
(* The operations of one client run one after the other; those of other    *)
(* clients, removals, the death of a session's host and shutdown come in   *)
(* between at every await.  `step` is the await the running operation of a *)
(* client stands at.  Sending a route to a client is one step, since       *)
(* frames keep their order.                                                *)
(*                                                                         *)
(* What the host of a session promises is little (types.ts): close() may   *)
(* fail and the handle serve on, and `terminated`, which tells of its end, *)
(* need not be there and comes whenever it comes.  Stages of a handle:     *)
(*   "open"      it serves, and no close() of it has failed                *)
(*   "closing"   opened while the server drains, and closed again at once  *)
(*   "unclosed"  a close() has failed                                      *)
(*   "closed", "dead"  it has been closed, or its host is gone             *)
(***************************************************************************)
EXTENDS Naturals, Sequences, FiniteSets

CONSTANTS
    Clients, Sessions,
    MaxAttachments,  \* bound: requests to attach, and so attachments and handles
    MaxCalls,        \* bound: service calls clients send
    Budgets          \* bounds: how often what is not the router's may happen

Kinds == {"attach", "late", "detach", "call", "loss", "remove", "terminate", "fault",
          "mute", "close"}

ASSUME RouterAssumption ==
    /\ MaxAttachments \in Nat /\ MaxCalls \in Nat
    /\ "none" \notin Clients
    /\ Budgets \subseteq [Kinds -> Nat]
    /\ \A b \in Budgets : b["attach"] + b["late"] <= MaxAttachments /\ b["call"] <= MaxCalls

Ids == 1 .. MaxAttachments
Handles == Ids
Calls == 1 .. MaxCalls
None == 0

VARIABLES
    queue,      \* clientOperations: per client, the head of the queue is running
    step,       \* the await the head stands at
    hold, mine, \* its local variables: the handle it acquired, its attachment
    route,      \* attachmentsByClient
    shown,      \* the route each client was last sent
    gone, lost, \* clients that have lost their connection; disconnectedClients
    hosted,     \* hostedSessions: the handle of each session
    opening,    \* openingSessions: "no", "opening", or the handle that is closed again
    handle,     \* the handles: [session, st, watched, taken]; watched: `terminated`
                \* will still be told; taken: whether removeSession has given
                \* it up ("no", "removing", "removed"), which only properties read
    att,        \* the attachments
    removal,    \* the removeSession() of each session: [at, handle, waits]
    closing,    \* server shutdown: [at, waits, handles, kept, errors]
    left        \* what is left of the budget

clientVars == <<queue, step, hold, mine>>
routeVars == <<route, shown, gone, lost>>
hostVars == <<hosted, opening, handle>>
vars == <<queue, step, hold, mine, route, shown, gone, lost, hosted, opening, handle,
          att, removal, closing, left>>

------------------------------------------------------------------------------
(* Data *)

Free == [client |-> "none", handle |-> None, listed |-> FALSE, lease |-> "none",
         calls |-> {}, release |-> "no", owed |-> {}, tell |-> FALSE]
NoRemoval == [at |-> "none", handle |-> None, waits |-> {}]

Used == {i \in Ids : att[i].client # "none"}
Session(i) == handle[att[i].handle].session
Listed(h) == {i \in Used : att[i].handle = h /\ att[i].listed}
Over(i) == att[i].release \in {"done", "failed"}
Draining == closing.at # "open"
Serves(h) == handle[h].st \in {"open", "unclosed"}

Spend(kind) == left[kind] > 0 /\ left' = [left EXCEPT ![kind] = @ - 1]

Init ==
    /\ queue = [c \in Clients |-> <<>>] /\ step = [c \in Clients |-> "idle"]
    /\ hold = [c \in Clients |-> None] /\ mine = [c \in Clients |-> None]
    /\ route = [c \in Clients |-> None] /\ shown = [c \in Clients |-> None]
    /\ gone = {} /\ lost = {}
    /\ hosted = [s \in Sessions |-> None] /\ opening = [s \in Sessions |-> "no"]
    /\ handle = <<>> /\ att = [i \in Ids |-> Free]
    /\ removal = [s \in Sessions |-> NoRemoval]
    /\ closing = [at |-> "open", waits |-> {}, handles |-> {}, kept |-> {}, errors |-> FALSE]
    /\ left \in Budgets

\* Mutant: the release does not look at the calls that are running.
NothingOwed(i) == {}

\* The calls a release that begins now will wait for.
Owed(i) == att[i].calls

\* releaseAttachment: a release under way is joined, whoever began it.
Releasing(ids, tell) ==
    [i \in Ids |-> IF i \in ids /\ att[i].release = "no"
                   THEN [att[i] EXCEPT !.release = "calls", !.owed = Owed(i), !.tell = tell]
                   ELSE att[i]]

------------------------------------------------------------------------------
(* Requests of clients *)

Ask(c, op) ==
    /\ queue' = [queue EXCEPT ![c] = Append(@, op)]
    /\ UNCHANGED <<step, hold, mine, hostVars, att, removal, closing>>

AskAttach(c, s) ==
    /\ ~Draining
    /\ IF c \in gone THEN Spend("late") ELSE Spend("attach")
    /\ Ask(c, [op |-> "attach", arg |-> s])
    /\ UNCHANGED routeVars

AskDetach(c) ==
    /\ c \notin gone /\ Spend("detach")
    /\ Ask(c, [op |-> "detach", arg |-> None])
    /\ UNCHANGED routeVars

\* A request is addressed to the attachment the client was told of last.
AskCall(c) ==
    /\ c \notin gone /\ shown[c] # None /\ Spend("call")
    /\ Ask(c, [op |-> "call", arg |-> shown[c], call |-> left["call"]])
    /\ UNCHANGED routeVars

\* Server.disconnect
Lose(clients) ==
    /\ gone' = gone \cup clients /\ lost' = lost \cup clients
    /\ queue' = [c \in Clients |-> IF c \in clients
                    THEN Append(queue[c], [op |-> "disconnect", arg |-> None]) ELSE queue[c]]
    /\ UNCHANGED <<step, hold, mine, route, shown, hostVars, att, removal>>

LoseConnection(c) ==
    /\ c \notin gone /\ closing.at \in {"open", "draining"} /\ Spend("loss")
    /\ Lose({c}) /\ UNCHANGED closing

------------------------------------------------------------------------------
(* The running operation of a client *)

Running(c, op, at) == queue[c] # <<>> /\ Head(queue[c]).op = op /\ step[c] = at
Target(c) == Head(queue[c]).arg

Goes(c, at) == step' = [step EXCEPT ![c] = at] /\ UNCHANGED queue

\* The operation settles, and the next one of the client may start.
Ends(c) ==
    /\ queue' = [queue EXCEPT ![c] = Tail(@)] /\ step' = [step EXCEPT ![c] = "idle"]
    /\ hold' = [hold EXCEPT ![c] = None] /\ mine' = [mine EXCEPT ![c] = None]

\* Clients that wait for the opening of s.
Waiting(s) == {c \in Clients : Running(c, "attach", "opening") /\ Target(c) = s}

\* attachClientNow, acquire, and open up to its first await.
AttachBegins(c) ==
    /\ Running(c, "attach", "idle")
    /\ LET s == Target(c) IN
       IF Draining \/ c \in lost \/ (route[c] # None /\ Session(route[c]) = s)
       THEN Ends(c) /\ UNCHANGED opening
       ELSE /\ mine' = [mine EXCEPT ![c] = route[c]]
            /\ IF hosted[s] # None
               THEN /\ hold' = [hold EXCEPT ![c] = hosted[s]]
                    /\ Goes(c, "acquired") /\ UNCHANGED opening
               ELSE /\ opening' = [opening EXCEPT ![s] = IF @ = "no" THEN "opening" ELSE @]
                    /\ Goes(c, "opening") /\ UNCHANGED hold
    /\ UNCHANGED <<routeVars, hosted, handle, att, removal, closing, left>>

\* Mutant: the clients of an opening that is given up are not told.
ResumeIfOpen(s, h) ==
    LET ready == IF h = None THEN {} ELSE Waiting(s) IN
    /\ hold' = [c \in Clients |-> IF c \in ready THEN h ELSE hold[c]]
    /\ step' = [c \in Clients |-> IF c \in ready THEN "acquired" ELSE step[c]]
    /\ UNCHANGED <<queue, mine>>

\* The clients that wait for s go on with h, or are refused.
Resume(s, h) ==
    LET ready == Waiting(s) IN
    IF h # None
    THEN /\ hold' = [c \in Clients |-> IF c \in ready THEN h ELSE hold[c]]
         /\ step' = [c \in Clients |-> IF c \in ready THEN "acquired" ELSE step[c]]
         /\ UNCHANGED <<queue, mine>>
    ELSE /\ queue' = [c \in Clients |-> IF c \in ready THEN Tail(queue[c]) ELSE queue[c]]
         /\ step' = [c \in Clients |-> IF c \in ready THEN "idle" ELSE step[c]]
         /\ mine' = [c \in Clients |-> IF c \in ready THEN None ELSE mine[c]]
         /\ UNCHANGED hold

\* The host has opened s: with a handle that tells of its end, or a mute one.  A
\* server that drains closes the handle again and does not ask for `terminated`.
OpenEnds(s) ==
    /\ opening[s] = "opening"
    /\ \E watched \in BOOLEAN :
          /\ handle' = Append(handle, [session |-> s, st |-> IF Draining THEN "closing" ELSE "open",
                                       watched |-> watched, taken |-> "no"])
          /\ IF watched \/ Draining THEN watched = ~Draining /\ UNCHANGED left
             ELSE Spend("mute")
    /\ IF Draining
       THEN opening' = [opening EXCEPT ![s] = "closing"] /\ UNCHANGED <<hosted, clientVars>>
       ELSE /\ hosted' = [hosted EXCEPT ![s] = Len(handle')]
            /\ opening' = [opening EXCEPT ![s] = "no"] /\ Resume(s, Len(handle'))
    /\ UNCHANGED <<routeVars, att, removal, closing>>

OpenFails(s) ==
    /\ opening[s] = "opening" /\ Spend("fault")
    /\ opening' = [opening EXCEPT ![s] = "no"] /\ Resume(s, None)
    /\ UNCHANGED <<routeVars, hosted, handle, att, removal, closing>>

\* attachment.acquiring: the handle is asked for a lease.
Leases(c) ==
    \E i \in Ids \ Used :
        /\ \A j \in Ids \ Used : i <= j
        /\ att' = [att EXCEPT ![i] = [Free EXCEPT !.client = c, !.handle = hold[c],
                                                 !.listed = TRUE, !.lease = "acquiring"]]
        /\ mine' = [mine EXCEPT ![c] = i]
        /\ Goes(c, "leasing") /\ UNCHANGED hold

\* The session is there: the client leaves its former one first.
Acquired(c) ==
    /\ Running(c, "attach", "acquired")
    /\ IF Draining \/ c \in lost THEN Ends(c) /\ UNCHANGED att
       ELSE IF mine[c] = None THEN Leases(c)
       ELSE /\ att' = Releasing({mine[c]}, FALSE)
            /\ Goes(c, "switching") /\ UNCHANGED <<hold, mine>>
    /\ UNCHANGED <<routeVars, hostVars, removal, closing, left>>

Switched(c) ==
    /\ Running(c, "attach", "switching") /\ Over(mine[c])
    /\ IF att[mine[c]].release = "failed" THEN Ends(c) /\ UNCHANGED att ELSE Leases(c)
    /\ UNCHANGED <<routeVars, hostVars, removal, closing, left>>

\* Mutant: a handle that is no longer hosted will do.
AnyHandle(c) == c \notin lost /\ ~Draining

\* The lease is of use only if the session is hosted as before and the client there.
StillWanted(c) ==
    /\ hosted[Session(mine[c])] = att[mine[c]].handle /\ att[mine[c]].listed
    /\ c \notin lost /\ ~Draining

LeaseComes(c) ==
    /\ Running(c, "attach", "leasing")
    /\ LET i == mine[c]
           leased == [att EXCEPT ![i].lease = "held"] IN
       IF StillWanted(c)
       THEN /\ att' = leased /\ Ends(c)
            /\ route' = [route EXCEPT ![c] = i]
            /\ shown' = IF c \in gone THEN shown ELSE [shown EXCEPT ![c] = i]
       ELSE /\ att' = [leased EXCEPT ![i].release = IF @ = "no" THEN "calls" ELSE @]
            /\ Goes(c, "dropping") /\ UNCHANGED <<hold, mine, route, shown>>
    /\ UNCHANGED <<gone, lost, hostVars, removal, closing, left>>

\* Handles that are closed or closing refuse; others may fail.
LeaseFails(c) ==
    /\ Running(c, "attach", "leasing")
    /\ IF Serves(att[mine[c]].handle) THEN Spend("fault") ELSE UNCHANGED left
    /\ att' = [att EXCEPT ![mine[c]].lease = "refused", ![mine[c]].listed = FALSE]
    /\ Ends(c)
    /\ UNCHANGED <<routeVars, hostVars, removal, closing>>

\* detachClient and disconnect
LeaveBegins(c) ==
    /\ Running(c, "detach", "idle") \/ Running(c, "disconnect", "idle")
    /\ route[c] # None
    /\ att' = Releasing({route[c]}, Head(queue[c]).op = "detach")
    /\ mine' = [mine EXCEPT ![c] = route[c]]
    /\ Goes(c, "leaving") /\ UNCHANGED hold
    /\ UNCHANGED <<routeVars, hostVars, removal, closing, left>>

\* There was nothing to release, or the release is over.
LeaveEnds(c) ==
    /\ \/ step[c] \in {"leaving", "dropping"} /\ Over(mine[c])
       \/ /\ Running(c, "detach", "idle") \/ Running(c, "disconnect", "idle")
          /\ route[c] = None
    /\ lost' = IF Head(queue[c]).op = "disconnect" THEN lost \ {c} ELSE lost
    /\ Ends(c)
    /\ UNCHANGED <<route, shown, gone, hostVars, att, removal, closing, left>>

\* requireAttachment and startServiceCall: the call itself is not waited for.
CallStarts(c) ==
    /\ Running(c, "call", "idle")
    /\ LET i == Target(c) IN
       att' = IF Draining \/ c \in lost \/ route[c] # i THEN att
              ELSE [att EXCEPT ![i].calls = @ \cup {Head(queue[c]).call}]
    /\ Ends(c)
    /\ UNCHANGED <<routeVars, hostVars, removal, closing, left>>

------------------------------------------------------------------------------
(* Releases *)

CallEnds(i, k) ==
    /\ k \in att[i].calls
    /\ att' = [att EXCEPT ![i].calls = @ \ {k}]
    /\ UNCHANGED <<clientVars, routeVars, hostVars, removal, closing, left>>

\* clearAttachment, which tells the client unless the release is silent.
Clear(i, outcome) ==
    LET c == att[i].client IN
    /\ att' = [att EXCEPT ![i].release = outcome, ![i].listed = FALSE,
                          ![i].lease = IF @ = "held" THEN "returned" ELSE @]
    /\ route' = IF route[c] = i THEN [route EXCEPT ![c] = None] ELSE route
    /\ shown' = IF route[c] = i /\ att[i].tell /\ c \notin gone
                THEN [shown EXCEPT ![c] = None] ELSE shown
    /\ UNCHANGED <<clientVars, gone, lost, hostVars, removal, closing>>

\* Mutant: a lease that is still on its way is not waited for.
NotAwaited(i) == att[i].lease # "refused"

Leased(i) == att[i].lease = "held"

\* The calls it waits for are over: the lease goes back, once it is there.
ReturnLease(i) ==
    /\ att[i].release = "calls" /\ att[i].owed \cap att[i].calls = {}
    /\ Leased(i)
    /\ att' = [att EXCEPT ![i].release = "returning"]
    /\ UNCHANGED <<clientVars, routeVars, hostVars, removal, closing, left>>

LeaseReturned(i) == att[i].release = "returning" /\ Clear(i, "done") /\ UNCHANGED left

\* The lease was refused while the release waited for it, or the host fails to
\* take it back.
ReleaseFails(i) ==
    \/ att[i].release = "calls" /\ att[i].lease = "refused" /\ Clear(i, "failed") /\ UNCHANGED left
    \/ att[i].release = "returning" /\ Spend("fault") /\ Clear(i, "failed")

------------------------------------------------------------------------------
(* Removal of a session, and the death of its host *)

RemoveBegins(s) ==
    /\ ~Draining /\ hosted[s] # None /\ removal[s].at = "none" /\ Spend("remove")
    /\ removal' = [removal EXCEPT ![s] = [at |-> "releasing", handle |-> hosted[s],
                                          waits |-> Listed(hosted[s])]]
    /\ att' = Releasing(Listed(hosted[s]), TRUE)
    /\ handle' = [handle EXCEPT ![hosted[s]].taken = "removing"]
    /\ UNCHANGED <<clientVars, routeVars, hosted, opening, closing>>

RemoveCloses(s) ==
    /\ removal[s].at = "releasing" /\ \A i \in removal[s].waits : Over(i)
    /\ removal' = [removal EXCEPT ![s].at = "closing"]
    /\ UNCHANGED <<clientVars, routeVars, hostVars, att, closing, left>>

Terminate(h) ==
    /\ h \in DOMAIN handle /\ Serves(h) /\ Spend("terminate")
    /\ handle' = [handle EXCEPT ![h].st = "dead"]
    /\ UNCHANGED <<clientVars, routeVars, hosted, opening, att, removal, closing>>

\* `terminated` resolves, before or after close() returns, and invalidates: the
\* handle is not to be had any more, and what is attached to it is released.
\* Nobody waits for these releases.
Terminated(h) ==
    /\ h \in DOMAIN handle /\ handle[h].watched /\ handle[h].st \in {"closed", "dead"}
    /\ handle' = [handle EXCEPT ![h].watched = FALSE]
    /\ LET s == handle[h].session IN
       IF hosted[s] = h
       THEN hosted' = [hosted EXCEPT ![s] = None] /\ att' = Releasing(Listed(h), TRUE)
       ELSE UNCHANGED <<hosted, att>>
    /\ UNCHANGED <<clientVars, routeVars, opening, removal, closing, left>>

\* A removal or the shutdown waits for close().
Asked(h) ==
    \/ h \in closing.handles \ closing.kept
    \/ \E s \in Sessions : removal[s].at = "closing" /\ removal[s].handle = h

\* close() succeeds; the opening of a handle that came too late is over then.
HandleCloses(h) ==
    /\ h \in DOMAIN handle
    /\ \/ Serves(h) /\ Asked(h) /\ UNCHANGED <<opening, clientVars>>
       \/ /\ handle[h].st = "closing"
          /\ opening' = [opening EXCEPT ![handle[h].session] = "no"]
          /\ Resume(handle[h].session, None)
    /\ handle' = [handle EXCEPT ![h].st = "closed"]
    /\ UNCHANGED <<routeVars, hosted, att, removal, closing, left>>

\* Mutant: close() is called and not awaited.
CloseCalled(h) == TRUE

CloseReturned(h) == ~Serves(h)

\* A close() that fails changes nothing of a handle that has come to its end.
Unclosed(h) == IF Serves(h) THEN "unclosed" ELSE handle[h].st

\* The handle is given up whether or not it could be closed.
RemoveEnds(s) ==
    LET h == removal[s].handle
        taken == IF hosted[s] = h THEN "removed" ELSE handle[h].taken
        Takes(st) == handle' = [handle EXCEPT ![h] = [@ EXCEPT !.st = st, !.taken = taken]]
    IN
    /\ removal[s].at = "closing"
    /\ \/ CloseReturned(h) /\ Takes(handle[h].st) /\ UNCHANGED left
       \/ Spend("fault") /\ Takes(Unclosed(h))
    /\ hosted' = IF hosted[s] = h THEN [hosted EXCEPT ![s] = None] ELSE hosted
    /\ removal' = [removal EXCEPT ![s] = NoRemoval]
    /\ UNCHANGED <<clientVars, routeVars, opening, att, closing>>

------------------------------------------------------------------------------
(* Shutdown *)

\* Server.close: from here on isClosing() holds.
CloseServer ==
    /\ closing.at = "open" /\ Spend("close")
    /\ closing' = [closing EXCEPT !.at = "draining"]
    /\ UNCHANGED <<clientVars, routeVars, hostVars, att, removal>>

\* closeServerState: the listeners and the connections are closed, the clients
\* disconnected, and the router begins to close.
CloseConnections ==
    /\ closing.at = "draining"
    /\ closing' = [closing EXCEPT !.at = "settling"]
    /\ Lose(Clients \ gone) /\ UNCHANGED left

\* The operations and the openings it has found are settled.
Settled == (\A c \in Clients : queue[c] = <<>>) /\ (\A s \in Sessions : opening[s] = "no")

Hosted == {hosted[s] : s \in Sessions} \ {None}

RouterReleases ==
    /\ closing.at = "settling" /\ Settled
    /\ LET last == UNION {Listed(h) : h \in Hosted} IN
       /\ closing' = [closing EXCEPT !.at = "releasing", !.waits = last]
       /\ att' = Releasing(last, TRUE)
    /\ UNCHANGED <<clientVars, routeVars, hostVars, removal, left>>

RouterCloses ==
    /\ closing.at = "releasing" /\ \A i \in closing.waits : Over(i)
    /\ closing' = [closing EXCEPT !.at = "closing", !.handles = Hosted,
                     !.errors = @ \/ \E i \in closing.waits : att[i].release = "failed"]
    /\ UNCHANGED <<clientVars, routeVars, hostVars, att, removal, left>>

\* A handle the shutdown cannot close stays hosted.
KeepsHandle(h) ==
    /\ h \in closing.handles \ closing.kept /\ closing.at = "closing" /\ Spend("fault")
    /\ handle' = [handle EXCEPT ![h].st = Unclosed(h)]
    /\ closing' = [closing EXCEPT !.kept = @ \cup {h}, !.errors = TRUE]
    /\ UNCHANGED <<clientVars, routeVars, hosted, opening, att, removal>>

\* SessionCleanupError: a handle that came too late cannot be closed again.  Of the
\* openings, the shutdown hears of those it has found.
LeavesHandle(h) ==
    /\ h \in DOMAIN handle /\ handle[h].st = "closing" /\ Spend("fault")
    /\ handle' = [handle EXCEPT ![h].st = "unclosed"]
    /\ opening' = [opening EXCEPT ![handle[h].session] = "no"]
    /\ Resume(handle[h].session, None)
    /\ closing' = [closing EXCEPT !.errors = @ \/ closing.at = "settling"]
    /\ UNCHANGED <<routeVars, hosted, att, removal>>

RouterClosed ==
    LET done == closing.handles \ closing.kept IN
    /\ closing.at = "closing" /\ \A h \in done : CloseReturned(h)
    /\ closing' = [closing EXCEPT !.at = "closed"]
    /\ hosted' = [s \in Sessions |-> IF hosted[s] \in done THEN None ELSE hosted[s]]
    /\ route' = [c \in Clients |-> None]
    /\ UNCHANGED <<clientVars, shown, gone, lost, opening, handle, att, removal, left>>

------------------------------------------------------------------------------

ClientStep(c) ==
    \/ AttachBegins(c) \/ Acquired(c) \/ Switched(c) \/ LeaseComes(c) \/ LeaseFails(c)
    \/ LeaveBegins(c) \/ LeaveEnds(c) \/ CallStarts(c)
HostStep(s) == OpenEnds(s) \/ OpenFails(s) \/ RemoveCloses(s) \/ RemoveEnds(s)
ReleaseStep(i) == ReturnLease(i) \/ LeaseReturned(i) \/ ReleaseFails(i)
HandleStep(h) == HandleCloses(h) \/ Terminated(h)
Shutdown == CloseConnections \/ RouterReleases \/ RouterCloses \/ RouterClosed

Environment ==
    \/ \E c \in Clients :
          \/ AskDetach(c) \/ AskCall(c) \/ LoseConnection(c)
          \/ \E s \in Sessions : AskAttach(c, s)
    \/ \E s \in Sessions : RemoveBegins(s)
    \/ \E h \in Handles : Terminate(h) \/ KeepsHandle(h) \/ LeavesHandle(h)
    \/ CloseServer

Next ==
    \/ Environment \/ Shutdown
    \/ \E c \in Clients : ClientStep(c)
    \/ \E s \in Sessions : HostStep(s)
    \/ \E i \in Ids : ReleaseStep(i) \/ \E k \in Calls : CallEnds(i, k)
    \/ \E h \in Handles : HandleStep(h)

Spec == Init /\ [][Next]_vars


\* Operations, hosts and releases go on by themselves: a promise that can settle
\* does.  Hosts answer, the calls they have admitted come to an end, and who has a
\* `terminated` is told.
Fairness ==
    /\ WF_vars(Shutdown)
    /\ \A c \in Clients : WF_vars(ClientStep(c))
    /\ \A s \in Sessions : WF_vars(HostStep(s))
    /\ \A i \in Ids : WF_vars(ReleaseStep(i)) /\ \A k \in Calls : WF_vars(CallEnds(i, k))
    /\ \A h \in Handles : WF_vars(HandleCloses(h)) /\ WF_vars(Terminated(h))

FairSpec == Spec /\ Fairness

------------------------------------------------------------------------------
(* Properties *)

\* A session has one handle at most that is open or still to be closed, however
\* many clients open it, remove it and see it die (acquire, open, invalidate), but for
\* those whose close() has failed: removeSession gives such a handle up.
OneHandle ==
    \A g, h \in DOMAIN handle :
        /\ handle[g].session = handle[h].session
        /\ handle[g].st \in {"open", "closing"} /\ handle[h].st \in {"open", "closing"}
        => g = h

\* A lease goes back only after the calls it was asked for, unless its host is gone
\* or the session is being removed (releaseAttachment waits for the operations it
\* has seen, and the queue of the client keeps others out).
CallsKeepLease ==
    \A i \in Used :
        att[i].calls # {} /\ (att[i].release = "returning" \/ att[i].lease = "returned") =>
            \/ handle[att[i].handle].st \in {"closed", "dead"}
            \/ handle[att[i].handle].taken # "no"

\* A client that has a route has a lease for it, and the session is hosted by the
\* handle the route goes to; if not, the route is being taken back, or the handle
\* has been removed while the client attached (attachClientNow checks again after
\* its awaits; invalidate releases, if `terminated` comes in time).
RoutesAreLive ==
    \A c \in Clients : route[c] # None =>
        LET i == route[c] IN
        /\ att[i].client = c /\ att[i].lease = "held"
        /\ att[i].release = "no" =>
              /\ att[i].listed
              /\ \/ hosted[Session(i)] = att[i].handle
                 \/ handle[att[i].handle].taken = "removed"

\* A client that has lost its connection holds no lease in the end (disconnect,
\* attachClientNow).
LossReleases ==
    \A c \in Clients :
        c \in gone ~> \A i \in Used : att[i].client = c => att[i].lease \notin {"acquiring", "held"}

\* A shutdown ends, whatever is being opened, attached, removed or lost meanwhile and
\* whatever fails to close, and leaves nothing behind: nothing that is still being
\* opened or attached, no operation that is to run, and no handle but those whose
\* close() has failed; a session that is still hosted is one of these, and the
\* shutdown reports it (closeServerState, closeInternal).
ShutdownEnds ==
    closing.at = "draining" ~>
        /\ closing.at = "closed"
        /\ \A h \in DOMAIN handle : handle[h].st \notin {"open", "closing"}
        /\ \A s \in Sessions :
              /\ opening[s] = "no"
              /\ hosted[s] # None => hosted[s] \in closing.kept /\ closing.errors
        /\ \A i \in Used : att[i].lease # "acquiring"
        /\ \A c \in Clients : queue[c] = <<>>

=============================================================================
