---------------------------- MODULE DriverEvents ----------------------------
(***************************************************************************)
(* What handleEvent of each class of the Wi-Fi HAL does with the payload   *)
(* of an event (gscan.cpp, rtt.cpp, wifi_hal.cpp).  Some classes copy the  *)
(* entries into an array that is a member of the command and lives from    *)
(* one event to the next; RTT collects results over several events until   *)
(* the driver says that they are complete; the others call back at once.   *)
(* An entry is abstracted to the number of the event it came from, 0 for   *)
(* one that was cleared and never written.                                 *)
(***************************************************************************)
EXTENDS Integers, Sequences, SequencesExt

CONSTANTS
    MaxResults,     \* MAX_RESULTS of the hotlist and significant change commands
    MaxNetworks,    \* MAX_EPNO_NETWORKS
    RttSlots,       \* MAX_RESULTS of RttCommand
    MaxIeLen,       \* MAX_PROBE_RESP_IE_LEN
    FixedLen,       \* offsetof(wifi_gscan_full_result_t, ie_data)
    MaxSeen,        \* bound: events handled
    MaxItems,       \* bound: items of one RTT event
    MaxBurst        \* bound: results of one target in one event

ASSUME EventsAssumption ==
    /\ {MaxResults, MaxNetworks, RttSlots, MaxIeLen, FixedLen} \subseteq Nat
    /\ {MaxSeen, MaxItems, MaxBurst} \subseteq Nat
    /\ FixedLen > 0

VARIABLES
    seen,           \* events handled so far
    mResults,       \* the arrays of the three commands that keep one
    rtt,            \* mCompleted, currentIdx, totalCnt and rttResults
    received,       \* auxiliary: RTT results copied for this request
    heap,           \* results allocated and not freed
    lost,           \* auxiliary: those among them of cancelled requests
    callback        \* the last callback: its class, event and entries

collecting == <<rtt, received, heap, lost>>
events == <<seen, mResults, collecting, callback>>

(* No constructor initialises an array.                                     *)
Garbage == -1
Entries == {Garbage} \cup 0..MaxSeen

NewRtt == [completed |-> 0, currentIdx |-> 0, totalCnt |-> 0,
           rttResults |-> [k \in 1..RttSlots |-> 0]]
Quiet  == [class |-> "none", event |-> 0, entries |-> <<>>]

EventsTypeOK ==
    /\ seen \in 0..MaxSeen
    /\ mResults \in [hotlist : [1..MaxResults -> Entries],
                     sigchange : [1..MaxResults -> Entries],
                     epno : [1..MaxNetworks -> Entries]]
    /\ rtt.completed \in {0, 1}
    /\ rtt.currentIdx \in 0..RttSlots /\ rtt.totalCnt \in 0..RttSlots
    /\ received \in 0..RttSlots
    /\ heap \in Nat /\ lost \in Nat
    /\ callback.entries \in Seq(Nat) /\ callback.event \in 0..MaxSeen

EventsInit ==
    /\ seen = 0
    /\ mResults = [hotlist   |-> [k \in 1..MaxResults |-> Garbage],
                   sigchange |-> [k \in 1..MaxResults |-> Garbage],
                   epno      |-> [k \in 1..MaxNetworks |-> Garbage]]
    /\ rtt = NewRtt
    /\ received = 0
    /\ heap = 0 /\ lost = 0
    /\ callback = Quiet

-----------------------------------------------------------------------------
ThisEvent == seen + 1
Arrives   == seen < MaxSeen /\ seen' = ThisEvent

Calls(class, entries) ==
    callback' = [class |-> class, event |-> ThisEvent, entries |-> entries]

AtMost(max, n) == IF n > max THEN max ELSE n

(* The first n entries of an array.                                         *)
First(array, n) == [k \in 1..n |-> array[k]]

(* A payload that a handler rejects: none, of another attribute type, of a  *)
(* wrong size or version, or one for which there is no memory.              *)
EventRejected ==
    /\ Arrives
    /\ UNCHANGED <<mResults, collecting, callback>>

(* A fault: the array is not cleared first.                                 *)
HotlistNotCleared(n, known) ==
    [k \in 1..MaxResults |->
        IF known /\ k <= AtMost(MaxResults, n) THEN ThisEvent ELSE mResults.hotlist[k]]

(* Cleared, and copied if the attribute is one of the two known ones.       *)
HotlistArray(n, known) ==
    [k \in 1..MaxResults |->
        IF known /\ k <= AtMost(MaxResults, n) THEN ThisEvent ELSE 0]

BssidHotlistEvent(n, known) ==
    /\ Arrives
    /\ mResults' = [mResults EXCEPT !.hotlist = HotlistArray(n, known)]
    /\ Calls("hotlist", First(mResults'.hotlist, AtMost(MaxResults, n)))
    /\ UNCHANGED collecting

(* Only the networks that were found, not the lost ones, are copied.        *)
ePNOEvent(n, found) ==
    /\ Arrives
    /\ mResults' = [mResults EXCEPT !.epno =
            [k \in 1..MaxNetworks |->
                IF k \in found /\ k <= AtMost(MaxNetworks, n) THEN ThisEvent ELSE 0]]
    /\ Calls("epno", First(mResults'.epno, AtMost(MaxNetworks, n)))
    /\ UNCHANGED collecting

(* Nothing is cleared, and every entry handed on is written; no callback    *)
(* without entries.                                                         *)
SignificantWifiChangeEvent(n) ==
    LET num == AtMost(MaxResults, n) IN
    /\ Arrives
    /\ mResults' = [mResults EXCEPT !.sigchange =
            [k \in 1..MaxResults |-> IF k <= num THEN ThisEvent ELSE @[k]]]
    /\ \/ num # 0 /\ Calls("sigchange", First(mResults'.sigchange, num))
       \/ num = 0 /\ UNCHANGED callback
    /\ UNCHANGED collecting

(* on_scan_event, RSSI and ANQPO: one result, valid during the callback.    *)
ScanEvent == Arrives /\ Calls("scan", <<ThisEvent>>) /\ UNCHANGED <<mResults, collecting>>
RssiEvent == Arrives /\ Calls("rssi", <<ThisEvent>>) /\ UNCHANGED <<mResults, collecting>>
AnqpoEvent == Arrives /\ Calls("anqpo", <<ThisEvent>>) /\ UNCHANGED <<mResults, collecting>>

(* wifi_handle_full_scan_event: the information elements, up to a ceiling,  *)
(* if the payload is long enough for them.                                  *)
FullScanEvent(len, ie_length) ==
    LET ie_len == AtMost(MaxIeLen, ie_length) IN
    /\ Arrives
    /\ len >= FixedLen /\ ie_len + FixedLen <= len
    /\ Calls("fullscan", <<ThisEvent>>)
    /\ UNCHANGED <<mResults, collecting>>

-----------------------------------------------------------------------------
(* RttCommand::handleEvent.  An event is a sequence of items: a completion  *)
(* flag, or a target with a number of results, after which an allocation    *)
(* may fail, so that the rest of the target is skipped.                     *)
RttItems  == {[type |-> "complete", value |-> v] : v \in {0, 1}}
                \cup {[type |-> "target", results |-> n, fails |-> f] :
                        n \in 0..MaxBurst, f \in BOOLEAN}
RttEvents == UNION {[1..n -> RttItems] : n \in 0..MaxItems}

(* A fault: a result is counted before its memory is there.                 *)
RttItemCountsFirst(r, item) ==
    IF item.type = "complete" THEN [r EXCEPT !.completed = item.value]
    ELSE [completed  |-> IF item.fails THEN 1 ELSE r.completed,
          currentIdx |-> r.currentIdx + item.results,
          totalCnt   |-> r.totalCnt + item.results + (IF item.fails THEN 1 ELSE 0),
          rttResults |-> [k \in 1..RttSlots |->
                IF k \in (r.currentIdx + 1)..(r.currentIdx + item.results)
                THEN k ELSE r.rttResults[k]]]

(* The results are numbered in the order they arrive.                       *)
RttItem(r, item) ==
    IF item.type = "complete" THEN [r EXCEPT !.completed = item.value]
    ELSE [completed  |-> IF item.fails THEN 1 ELSE r.completed,
          currentIdx |-> r.currentIdx + item.results,
          totalCnt   |-> r.totalCnt + item.results,
          rttResults |-> [k \in 1..RttSlots |->
                IF k \in (r.currentIdx + 1)..(r.currentIdx + item.results)
                THEN k ELSE r.rttResults[k]]]

(* An item, with the results copied so far and those the driver sent, of    *)
(* which one could not be copied if an allocation failed.                   *)
RttReads(c, item) ==
    LET n == IF item.type = "target" THEN item.results ELSE 0
        failed == item.type = "target" /\ item.fails
    IN  [rtt |-> RttItem(c.rtt, item), copied |-> c.copied + n,
         sent |-> c.sent + n + IF failed THEN 1 ELSE 0]

RttRead(event) == FoldLeft(RttReads, [rtt |-> rtt, copied |-> 0, sent |-> 0], event)

(* The driver sends no more results for a request than there are slots.     *)
Fits(read) == received + read.sent <= RttSlots

RttCollects(event) ==
    LET read == RttRead(event)
        r    == read.rtt
    IN
    /\ Arrives
    /\ Fits(read)
    /\ received' = received + read.copied
    /\ r.completed = 0
    /\ rtt' = r
    /\ heap' = heap + read.copied
    /\ UNCHANGED <<mResults, lost, callback>>

(* A fault: only what this event brought is freed.                          *)
RttFreesLast(event) ==
    LET read == RttRead(event)
        r    == read.rtt
    IN
    /\ Arrives
    /\ Fits(read)
    /\ received' = received + read.copied
    /\ r.completed = 1
    /\ Calls("rtt", [k \in 1..r.totalCnt |-> r.rttResults[k]])
    /\ heap' = heap
    /\ rtt' = [NewRtt EXCEPT !.completed = 1]
    /\ UNCHANGED <<mResults, lost>>

(* Complete, or out of memory: the handler is unregistered, what there is   *)
(* is handed on and freed.                                                  *)
RttCompletes(event) ==
    LET read == RttRead(event)
        r    == read.rtt
    IN
    /\ Arrives
    /\ Fits(read)
    /\ received' = received + read.copied
    /\ r.completed = 1
    /\ Calls("rtt", [k \in 1..r.totalCnt |-> r.rttResults[k]])
    /\ heap' = heap + read.copied - r.currentIdx
    /\ rtt' = [NewRtt EXCEPT !.completed = 1]
    /\ UNCHANGED <<mResults, lost>>

(* The next request is another command object.                              *)
RttRestarts ==
    /\ rtt.completed = 1
    /\ rtt' = NewRtt
    /\ received' = 0
    /\ UNCHANGED <<seen, mResults, heap, lost, callback>>

(* RttCommand::cancel: the handler is unregistered, and what it collected   *)
(* is neither handed on nor freed, now or with the command.  The next       *)
(* request starts with a new one.                                           *)
RttCancels ==
    /\ rtt.completed = 0
    /\ rtt' = NewRtt
    /\ received' = 0
    /\ lost' = lost + rtt.currentIdx
    /\ UNCHANGED <<seen, mResults, heap, callback>>

EventsNext ==
    \/ EventRejected
    \/ \E n \in 0..(MaxResults + 1), known \in BOOLEAN : BssidHotlistEvent(n, known)
    \/ \E n \in 0..(MaxNetworks + 1) : \E found \in SUBSET (1..n) : ePNOEvent(n, found)
    \/ \E n \in 0..(MaxResults + 1) : SignificantWifiChangeEvent(n)
    \/ ScanEvent \/ RssiEvent \/ AnqpoEvent
    \/ \E len, ie_length \in 0..(MaxIeLen + FixedLen + 1) : FullScanEvent(len, ie_length)
    \/ /\ rtt.completed = 0
       /\ \E event \in RttEvents : RttCollects(event) \/ RttCompletes(event)
    \/ RttRestarts
    \/ RttCancels

-----------------------------------------------------------------------------
(* Whatever an earlier event left in the arrays, a callback only hands on   *)
(* entries of the event it is made for, or cleared ones.                    *)
NoStaleEntries ==
    callback.class # "rtt" =>
        \A k \in DOMAIN callback.entries : callback.entries[k] \in {0, callback.event}

(* on_rtt_results gets every result that was copied for the request, in the *)
(* order of arrival, over however many events they came and wherever an     *)
(* allocation failed: no hole in the array and no result twice.             *)
RttWhole ==
    callback.class = "rtt" /\ rtt.completed = 1 => callback.entries = [k \in 1..received |-> k]

(* The results on the heap are those RttCommand still collects and those of *)
(* cancelled requests, which nobody frees: completion frees what earlier    *)
(* events allocated too.                                                    *)
HeapExact == heap = rtt.currentIdx + lost

(* The results of an RTT request that completes are handed on once each and *)
(* whole, and all of them are freed, over however many events and failed    *)
(* allocations, whichever requests were cancelled before.                   *)
RttExact == RttWhole /\ HeapExact
=============================================================================
