-------------------------------- MODULE Turns --------------------------------
(***************************************************************************)
(* What a host of the durable runtime sees of one conversation: the fate   *)
(* of each request, whatever crashes, aborts and retries happen below it.  *)
(* Generation is the detailed specification that implements it.            *)
(***************************************************************************)
CONSTANT Requests    \* request ids, the keys a host deduplicates by

VARIABLE turn        \* turn[r]: what has become of request r

Fates == {"none", "placed", "written", "done", "unanswered"}

TypeOK == turn \in [Requests -> Fates]

Init == turn = [r \in Requests |-> "none"]

\* A conversation admits a request only while none of its inputs is open.
Admit(r) ==
    /\ turn[r] = "none"
    /\ \A q \in Requests : turn[q] # "placed"
    /\ \E fate \in {"placed", "written"} : turn' = [turn EXCEPT ![r] = fate]

\* An open input is answered or given up, once.
Settle(r) ==
    /\ turn[r] = "placed"
    /\ \E fate \in {"done", "unanswered"} : turn' = [turn EXCEPT ![r] = fate]

Next == \E r \in Requests : Admit(r) \/ Settle(r)

Spec == Init /\ [][Next]_turn

------------------------------------------------------------------------------
\* At most one input of a conversation is open at a time.
OneOpenInput ==
    \A r, q \in Requests : turn[r] = "placed" /\ turn[q] = "placed" => r = q

\* The fate of a settled request never changes: sending it again, to the same
\* process or to a later one, can only report it.
FateIsFinal ==
    [][\A r \in Requests :
          turn[r] \in {"written", "done", "unanswered"} => turn'[r] = turn[r]]_turn
==============================================================================
