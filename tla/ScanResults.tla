---------------------------- MODULE ScanResults ----------------------------
(***************************************************************************)
(* wifi_get_cached_gscan_results (gscan.cpp) over                          *)
(* WifiCommand::requestResponse (cpp_bindings.cpp).  A call fetches the    *)
(* driver's cached scans in at most MaxRounds requests.  A request goes    *)
(* out on cmd_sock, which all requests share and on which the sequence     *)
(* numbers of replies are not checked; it is over when an acknowledgement  *)
(* or an error arrives.  A cached scan is a number, the order of its       *)
(* arrival; of the access points in it only whether there are any matters, *)
(* since a scan without results is not stored.                             *)
(***************************************************************************)
EXTENDS Integers, Sequences, SequencesExt

CONSTANTS
    Maxes,          \* sizes of the buffer the caller may pass
    MaxRounds,      \* the 10 of execute()
    MaxCalls,       \* bound: calls of wifi_get_cached_gscan_results
    MaxScans,       \* bound: scans the driver collects
    Chunk,          \* most scans the driver puts into one reply
    Faults          \* what may go wrong

ASSUME ParametersAssumption ==
    /\ Maxes \subseteq Nat
    /\ MaxRounds \in Nat /\ MaxCalls \in Nat /\ MaxScans \in Nat
    /\ Chunk \in Nat \ {0}
    /\ Faults \subseteq {"create", "alloc", "send", "reply", "skip", "excess"}

VARIABLES
    pc,             \* where the caller is
    rounds,         \* i of execute()
    mMax, mScans, mCompleted, prev,   \* mRetrieved is Len(mScans)
    err,            \* err of requestResponse
    result,         \* what the last call returned: "none", "ok" or "error"
    queue,          \* replies waiting in cmd_sock
    request,        \* number of the last request sent
    first,          \* auxiliary: the first scan the driver held when the call began
    next,           \* the first scan the driver still holds
    scans,          \* the last scan the driver collected
    empty,          \* the scans that found nothing
    calls

command == <<rounds, mMax, mScans, mCompleted, prev>>
driver  == <<next, scans, empty>>
vars    == <<pc, command, err, result, queue, request, first, driver, calls>>

Held == scans - next + 1    \* how many scans the driver holds

(* A reply: its kind, the request it answers and what a valid one carries,  *)
(* if it has vendor data at all.                                            *)
Reply == [kind : {"valid", "ack", "error"}, to : Nat, data : BOOLEAN, scans : Seq(Nat),
          complete : BOOLEAN]

(* A reply of a kind, to the request that is sent now, without scans.       *)
Bare(kind) ==
    [kind |-> kind, to |-> request + 1, data |-> FALSE, scans |-> <<>>, complete |-> FALSE]

TypeOK ==
    /\ pc \in {"idle", "loop", "create", "send", "receive", "judge"}
    /\ rounds \in 0..MaxRounds
    /\ mMax \in Nat /\ mScans \in Seq(Nat) /\ mCompleted \in BOOLEAN /\ prev \in Nat
    /\ err \in {-1, 0, 1}
    /\ result \in {"none", "ok", "error"}
    /\ queue \in Seq(Reply)
    /\ request \in Nat /\ calls \in Nat
    /\ first \in Nat /\ next \in Nat /\ scans \in Nat /\ empty \subseteq Nat

Init ==
    /\ pc = "idle" /\ rounds = 0
    /\ mMax = 0 /\ mScans = <<>> /\ mCompleted = FALSE /\ prev = 0
    /\ err = 0 /\ result = "none"
    /\ queue = <<>> /\ request = 0
    /\ first = 1 /\ next = 1 /\ scans = 0 /\ empty = {}
    /\ calls = 0

-----------------------------------------------------------------------------
(* The caller: execute().                                                   *)

wifi_get_cached_gscan_results(max) ==
    /\ pc = "idle" /\ calls < MaxCalls
    /\ calls' = calls + 1
    /\ pc' = "loop" /\ result' = "none"
    /\ rounds' = 0 /\ mMax' = max /\ mScans' = <<>> /\ mCompleted' = FALSE /\ prev' = 0
    /\ first' = next
    /\ UNCHANGED <<err, queue, request, driver>>

(* The condition of the loop.                                               *)
GoesRound == rounds < MaxRounds /\ Len(mScans) < mMax

RoundBegins ==
    /\ pc = "loop" /\ GoesRound
    /\ pc' = "create" /\ prev' = Len(mScans)
    /\ UNCHANGED <<rounds, mMax, mScans, mCompleted, err, result, queue, request,
                   first, driver, calls>>

Returns(r) ==
    /\ pc' = "idle" /\ result' = r
    /\ UNCHANGED <<command, err, queue, request, first, driver, calls>>

LoopEnds == pc = "loop" /\ ~GoesRound /\ Returns("ok")

RequestNotBuilt == pc = "create" /\ "create" \in Faults /\ Returns("error")

-----------------------------------------------------------------------------
(* requestResponse().                                                       *)

(* Without a callback object nothing is sent, and err is still 0.           *)
CallbackNotAllocated ==
    /\ pc = "create" /\ "alloc" \in Faults
    /\ err' = 0 /\ pc' = "judge"
    /\ UNCHANGED <<command, result, queue, request, first, driver, calls>>

SendFails ==
    /\ pc = "create" /\ "send" \in Faults
    /\ err' = -1 /\ pc' = "judge"
    /\ UNCHANGED <<command, result, queue, request, first, driver, calls>>

(* The driver accepts: it hands over the n oldest scans, says whether they  *)
(* are the last, and acknowledges.                                          *)
Answer(n) ==
    <<[kind |-> "valid", to |-> request + 1, data |-> TRUE,
       scans |-> [k \in 1..n |-> next + k - 1], complete |-> next + n > scans],
      Bare("ack")>>

(* Or it refuses, or it answers without vendor data.                        *)
Sends ==
    /\ pc = "create"
    /\ request' = request + 1
    /\ err' = 1 /\ pc' = "receive"
    /\ \/ \E n \in 0..Min({Chunk, Held}) :
             /\ n = 0 => Held = 0
             /\ "excess" \notin Faults => n <= mMax - Len(mScans)
             /\ queue' = queue \o Answer(n)
             /\ next' = next + n
       \/ /\ "reply" \in Faults
          /\ queue' = Append(queue, Bare("error"))
          /\ UNCHANGED next
       \/ /\ "skip" \in Faults
          /\ queue' = queue \o <<Bare("valid"), Bare("ack")>>
          /\ UNCHANGED next
    /\ UNCHANGED <<command, result, first, scans, empty, calls>>

(* A fault: more scans are stored than there is room for.                   *)
StoreAlways(stored, n) == IF n \in empty THEN stored ELSE Append(stored, n)

(* A fault: of too many scans the first are given up, not the last.         *)
StoreLatest(stored, n) ==
    IF n \in empty THEN stored
    ELSE IF Len(stored) >= mMax /\ mMax > 0 THEN Append(Tail(stored), n)
    ELSE Append(stored, n)

(* A fault: the last slot of the buffer is not used.                        *)
StoreShort(stored, n) ==
    IF n \in empty \/ Len(stored) >= mMax - 1 THEN stored ELSE Append(stored, n)

(* One scan of a reply: it is ignored without results, or if mMax scans     *)
(* are stored.                                                              *)
StoreScan(stored, n) ==
    IF n \in empty \/ Len(stored) >= mMax THEN stored ELSE Append(stored, n)

(* handleResponse: a reply without vendor data is skipped.                  *)
handleResponse(reply) ==
    \/ /\ reply.data
       /\ mScans' = FoldLeft(StoreScan, mScans, reply.scans)
       /\ mCompleted' = reply.complete
    \/ /\ ~reply.data
       /\ UNCHANGED <<mScans, mCompleted>>

(* A fault: a valid reply ends the wait, as valid_handler would.            *)
ValidEndsWait ==
    /\ pc = "receive" /\ queue # <<>> /\ Head(queue).kind = "valid"
    /\ queue' = Tail(queue)
    /\ handleResponse(Head(queue))
    /\ err' = 0 /\ pc' = "judge"
    /\ UNCHANGED <<rounds, mMax, prev, result, request, first, driver, calls>>

(* response_handler, which calls handleResponse, and the wait goes on.      *)
ReceivesValid ==
    /\ pc = "receive" /\ queue # <<>> /\ Head(queue).kind = "valid"
    /\ queue' = Tail(queue)
    /\ handleResponse(Head(queue))
    /\ UNCHANGED <<pc, rounds, mMax, prev, err, result, request, first, driver, calls>>

(* A fault: the acknowledgement is read but does not end the wait.          *)
AckIgnored ==
    /\ pc = "receive" /\ queue # <<>> /\ Head(queue).kind # "valid"
    /\ queue' = Tail(queue)
    /\ err' = IF Head(queue).kind = "ack" THEN 1 ELSE -1
    /\ pc' = IF err' > 0 THEN "receive" ELSE "judge"
    /\ UNCHANGED <<command, result, request, first, driver, calls>>

(* ack_handler and error_handler; the wait ends when err is not positive.   *)
ReceivesEnd ==
    /\ pc = "receive" /\ queue # <<>> /\ Head(queue).kind # "valid"
    /\ queue' = Tail(queue)
    /\ err' = IF Head(queue).kind = "ack" THEN 0 ELSE -1
    /\ pc' = "judge"
    /\ UNCHANGED <<command, result, request, first, driver, calls>>

-----------------------------------------------------------------------------
(* The rest of the loop's body.                                             *)

RequestFailed == pc = "judge" /\ err # 0 /\ Returns("error")

NoMoreItems == Len(mScans) = prev \/ mCompleted

LoopBreaks == pc = "judge" /\ err = 0 /\ NoMoreItems /\ Returns("ok")

RoundEnds ==
    /\ pc = "judge" /\ err = 0 /\ ~NoMoreItems
    /\ pc' = "loop" /\ rounds' = rounds + 1
    /\ UNCHANGED <<mMax, mScans, mCompleted, prev, err, result, queue, request,
                   first, driver, calls>>

(* The driver collects another scan, which may have found nothing.          *)
DriverScans ==
    /\ scans < MaxScans
    /\ scans' = scans + 1
    /\ empty' \in {empty, empty \cup {scans + 1}}
    /\ UNCHANGED <<pc, command, err, result, queue, request, first, next, calls>>

-----------------------------------------------------------------------------
ExecuteSteps ==
    \/ RoundBegins \/ LoopEnds \/ RequestNotBuilt
    \/ CallbackNotAllocated \/ SendFails \/ Sends
    \/ ReceivesValid \/ ReceivesEnd
    \/ RequestFailed \/ LoopBreaks \/ RoundEnds

Next ==
    \/ \E max \in Maxes : wifi_get_cached_gscan_results(max)
    \/ ExecuteSteps
    \/ DriverScans

(* The thread of the caller runs; the driver owes the HAL nothing more.     *)
Spec == Init /\ [][Next]_vars /\ WF_vars(ExecuteSteps)

-----------------------------------------------------------------------------
(* handleResponse never stores past the buffer of the caller, also when the *)
(* driver sends more scans than it was asked for.                           *)
StaysInBuffer == Len(mScans) <= mMax

(* Though replies are not matched by sequence number, a request only ever   *)
(* consumes replies to itself: none is left in cmd_sock by an earlier one.  *)
RepliesToThisRequest ==
    IF pc = "receive" THEN \A k \in DOMAIN queue : queue[k].to = request
                      ELSE queue = <<>>

(* The scan after the k-th that is stored, or the first of the call.        *)
After(stored, k) == IF k = 0 THEN first ELSE stored[k] + 1

(* The scans a call returns are in order and none comes twice, and a scan   *)
(* is left out between two of them, or before the first, only when it has   *)
(* no results; over all rounds, also when the driver sends more than fits.  *)
NoScanSkipped ==
    \A k \in 1..Len(mScans) :
        /\ mScans[k] >= After(mScans, k - 1)
        /\ After(mScans, k - 1)..(mScans[k] - 1) \subseteq empty

(* The driver forgets a scan it hands over.  As long as the buffer has room *)
(* none of them is lost: the ones after the last that is stored have no     *)
(* results, also when a later round failed or its reply was skipped.        *)
NoScanLost ==
    pc # "receive" /\ Len(mScans) < mMax =>
        After(mScans, Len(mScans))..(next - 1) \subseteq empty

(* Every call returns, in a bounded number of requests, even while the      *)
(* driver goes on collecting scans as fast as they are fetched.             *)
CallReturns == (pc # "idle") ~> (pc = "idle")
=============================================================================
