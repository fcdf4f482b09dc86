---------------------------- MODULE HalRequests ----------------------------
(***************************************************************************)
(* What the Wi-Fi HAL promises the client about its requests, without      *)
(* tables, handlers, reference counts and threads.  A request is opened by *)
(* a call and closed by a call, or by its own last callback (RTT).  While  *)
(* it is open or closing, callbacks of it may begin, one at a time; a call *)
(* returns only when nothing is closing any more; and the object of a      *)
(* request is deleted only once it is closed and no callback of it runs.   *)
(* A callback that began earlier may still run after the call returned.    *)
(***************************************************************************)
CONSTANTS
    Requests,       \* the requests the client ever makes
    None            \* no request, not one of Requests

VARIABLES
    phase,          \* of every request
    calling,        \* the request whose callback runs, or None
    busy            \* whether the client is in a call of the API

vars == <<phase, calling, busy>>

Phases == {"new", "open", "closing", "closed", "deleted"}

Init ==
    /\ phase = [r \in Requests |-> "new"]
    /\ calling = None
    /\ busy = FALSE

Moves(r, from, to) == phase[r] = from /\ phase' = [phase EXCEPT ![r] = to]

(* The requests of S stop being open; each may go on receiving callbacks    *)
(* for a while.                                                             *)
Close(S) ==
    /\ \A r \in S : phase[r] = "open"
    /\ \E left \in SUBSET S :
          phase' = [r \in Requests |-> IF r \in left THEN "closing"
                                       ELSE IF r \in S THEN "closed" ELSE phase[r]]

Call ==
    /\ ~busy /\ busy' = TRUE
    /\ \/ \E r \in Requests : Moves(r, "new", "open")
       \/ \E S \in SUBSET Requests : Close(S)
    /\ UNCHANGED calling

(* There is no room for the request.                                        *)
Refuse ==
    /\ ~busy
    /\ \E r \in Requests : Moves(r, "new", "deleted")
    /\ UNCHANGED <<calling, busy>>

(* A call closes what it opened, or everything; a callback its own request. *)
Closes ==
    /\ \E S \in SUBSET Requests : Close(S) /\ (busy \/ S = {calling})
    /\ UNCHANGED <<calling, busy>>

(* The last handler of a request is gone.                                   *)
Closed ==
    /\ \E r \in Requests : Moves(r, "closing", "closed")
    /\ UNCHANGED <<calling, busy>>

Delete ==
    /\ \E r \in Requests \ {calling} : Moves(r, "closed", "deleted")
    /\ UNCHANGED <<calling, busy>>

Return ==
    /\ busy /\ busy' = FALSE
    /\ \A r \in Requests : phase[r] # "closing"
    /\ \/ UNCHANGED phase
       \/ \E r \in Requests \ {calling} : Moves(r, "closed", "deleted")
    /\ UNCHANGED calling

CallbackBegins ==
    /\ calling = None
    /\ calling' \in {r \in Requests : phase[r] \in {"open", "closing"}}
    /\ UNCHANGED <<phase, busy>>

CallbackReturns ==
    /\ calling # None /\ calling' = None
    /\ UNCHANGED phase \/ Moves(calling, "closed", "deleted")
    /\ UNCHANGED busy

Next ==
    \/ Call \/ Refuse \/ Closes \/ Closed \/ Delete \/ Return
    \/ CallbackBegins \/ CallbackReturns

Spec == Init /\ [][Next]_vars
=============================================================================
