------------------------ MODULE DriverConfigProofs ------------------------
(***************************************************************************)
(* The roaming lists, the lists of the queries, the arrays of the event    *)
(* handlers and the RTT results, for every size of the driver's lists,     *)
(* every limit of the HAL, replies and events of any length, and any       *)
(* number of events.                                                       *)
(***************************************************************************)
EXTENDS DriverConfig, WellFoundedInduction, TLAPS

(* A cache that is empty or a whole answer of this driver promises no more  *)
(* than the driver holds, so that a configuration that passes Supported     *)
(* then fits.                                                               *)
RoamingInv ==
    /\ roaming_capa \in [blacklist : Nat, whitelist : Nat]
    /\ offered \in Lists /\ stored \in Lists
    /\ vouched => /\ roaming_capa.blacklist <= offered.blacklist
                  /\ roaming_capa.whitelist <= offered.whitelist
    /\ ListsFit

(* The arrays of the three commands that keep one.                          *)
Arrays == [hotlist : [1..MaxResults -> Entries],
           sigchange : [1..MaxResults -> Entries],
           epno : [1..MaxNetworks -> Entries]]

ArraysInv ==
    /\ seen \in 0..MaxSeen
    /\ mResults \in Arrays
    /\ NoStaleEntries

-----------------------------------------------------------------------------
(* The roaming lists.                                                       *)

(* What the HAL keeps of an offer is no more than the offer.                *)
LEMMA ClampBelow ==
    ASSUME NEW v \in Nat, NEW max \in Nat
    PROVE  Clamp(v, max) \in Nat /\ Clamp(v, max) <= v
  BY DEF Clamp

(* An offer is a pair of sizes, and so are two empty lists.                 *)
LEMMA SizesAreNat ==
    /\ Sizes \subseteq Nat
    /\ Empty \in Lists
    /\ \A l \in Lists : l.blacklist \in Nat /\ l.whitelist \in Nat
  BY ParametersAssumption DEF Sizes, Lists, Empty

(* The HAL starts with an empty cache and the driver with empty lists.      *)
LEMMA RoamingStarts == Init => RoamingInv
  <1> SUFFICES ASSUME Init PROVE RoamingInv
    OBVIOUS
  <1>1. offered \in Lists
    BY SizesAreNat DEF Init
  <1>2. offered.blacklist \in Nat /\ offered.whitelist \in Nat
    BY <1>1, SizesAreNat
  <1> QED BY <1>1, <1>2, SizesAreNat DEF Init, RoamingInv, ListsFit, Empty

(* Every request and every restart of HAL or driver keeps the lists within  *)
(* what the driver offers.                                                  *)
LEMMA RoamingStep == RoamingInv /\ [Next]_vars => RoamingInv'
  <1> SUFFICES ASSUME RoamingInv, [Next]_vars PROVE RoamingInv'
    OBVIOUS
  <1>0. /\ offered.blacklist \in Nat /\ offered.whitelist \in Nat
        /\ stored.blacklist \in Nat /\ stored.whitelist \in Nat
    BY SizesAreNat DEF RoamingInv
  <1>1. ASSUME NEW given \in Lists, NEW k \in 0..2, wifi_get_roaming_capabilities(given, k)
        PROVE  RoamingInv'
    <2> DEFINE c == Capabilities(given, k)
    <2>1. /\ Clamp(offered.blacklist, MaxBlacklist) \in Nat
          /\ Clamp(offered.whitelist, MaxWhitelist) \in Nat
          /\ Clamp(offered.blacklist, MaxBlacklist) <= offered.blacklist
          /\ Clamp(offered.whitelist, MaxWhitelist) <= offered.whitelist
      BY <1>0, ClampBelow, ParametersAssumption
    <2>2. given.blacklist \in Nat /\ given.whitelist \in Nat
      BY SizesAreNat
    <2>3. c \in [blacklist : Nat, whitelist : Nat]
      BY <2>1, <2>2 DEF Capabilities
    <2>4. k = 2 => c.blacklist <= offered.blacklist /\ c.whitelist <= offered.whitelist
      BY <2>1 DEF Capabilities
    <2>5. /\ roaming_capa' = c /\ vouched' = (k = 2)
          /\ offered' = offered /\ stored' = stored /\ vetted' = vetted
      BY <1>1 DEF wifi_get_roaming_capabilities, lists
    <2> HIDE DEF c
    <2> QED BY <2>3, <2>4, <2>5 DEF RoamingInv, ListsFit
  <1>2. ASSUME NEW config \in Lists, wifi_configure_roaming(config)
        PROVE  RoamingInv'
    <2>1. config.blacklist \in Nat /\ config.whitelist \in Nat
      BY SizesAreNat
    <2>2. /\ roaming_capa.blacklist \in Nat /\ roaming_capa.whitelist \in Nat
      BY DEF RoamingInv
    <2>3. vouched => /\ config.blacklist <= offered.blacklist
                     /\ config.whitelist <= offered.whitelist
      BY <1>0, <1>2, <2>1, <2>2 DEF wifi_configure_roaming, Supported, RoamingInv
    <2>4. /\ stored' = config /\ vetted' = vouched
          /\ roaming_capa' = roaming_capa /\ vouched' = vouched /\ offered' = offered
      BY <1>2 DEF wifi_configure_roaming, cache
    <2> QED BY <2>3, <2>4 DEF RoamingInv, ListsFit
  <1>3. CASE DriverReloads
    <2>1. offered' \in Lists
      BY <1>3 DEF DriverReloads
    <2>2. offered'.blacklist \in Nat /\ offered'.whitelist \in Nat
      BY <2>1, SizesAreNat
    <2>3. /\ stored' = Empty /\ roaming_capa' = roaming_capa
          /\ vouched' => roaming_capa = Empty
      BY <1>3 DEF DriverReloads
    <2> QED BY <2>1, <2>2, <2>3, SizesAreNat DEF RoamingInv, ListsFit, Empty
  <1>7. CASE HalRestarts
    <2>1. /\ roaming_capa' = Empty
          /\ offered' = offered /\ stored' = stored /\ vetted' = vetted
      BY <1>7 DEF HalRestarts, lists
    <2> QED BY <1>0, <2>1 DEF RoamingInv, ListsFit, Empty
  <1>4. CASE UNCHANGED <<cache, lists>>
    BY <1>4 DEF RoamingInv, ListsFit, cache, lists
  <1>5. CASE Settings
    BY <1>1, <1>2, <1>3, <1>4, <1>5, <1>7
       DEF Settings, wifi_enable_firmware_roaming, wifi_start_sending_offloaded_packet,
           wifi_stop_sending_offloaded_packet
  <1>6. CASE Queries
    BY <1>4, <1>6 DEF Queries, wifi_get_concurrency_matrix, wifi_get_valid_channels, settings
  <1> QED BY <1>4, <1>5, <1>6 DEF Next, vars, settings

(* A roaming configuration that was vetted with a whole answer of the       *)
(* driver fits what the driver offers, whatever wifi_get_roaming_           *)
(* capabilities cached for an earlier driver and however often driver and   *)
(* HAL were restarted, together or one without the other.                   *)
THEOREM RoamingListsFit == Spec => []ListsFit
  <1>1. RoamingInv => ListsFit
    BY DEF RoamingInv
  <1> QED BY <1>1, RoamingStarts, RoamingStep, PTL DEF Spec

-----------------------------------------------------------------------------
(* The arrays of the event handlers.                                        *)

(* A number of entries is cut to the array.                                 *)
LEMMA AtMostBelow ==
    ASSUME NEW max \in Nat, NEW n \in Nat
    PROVE  AtMost(max, n) \in Nat /\ AtMost(max, n) <= max
  BY DEF AtMost

(* The number of an event is one of the entries, and so is a cleared one.   *)
LEMMA EntriesOfThisEvent ==
    ASSUME seen \in 0..MaxSeen, Arrives
    PROVE  /\ seen' = ThisEvent /\ seen' \in 0..MaxSeen
           /\ ThisEvent \in Entries /\ 0 \in Entries
  BY EventsAssumption DEF Arrives, ThisEvent, Entries

(* No command has handed on anything at first.                              *)
LEMMA ArraysStart == Init => ArraysInv
  BY EventsAssumption
  DEF Init, EventsInit, ArraysInv, Arrays, Entries, Garbage, Quiet, NoStaleEntries

(* The hotlist handler clears its array before it copies into it.           *)
LEMMA HotlistKeeps ==
    ASSUME ArraysInv, NEW n \in 0..(MaxResults + 1), NEW known \in BOOLEAN,
           BssidHotlistEvent(n, known)
    PROVE  ArraysInv'
  <1>1. /\ seen' \in 0..MaxSeen /\ ThisEvent \in Entries /\ 0 \in Entries
    BY EntriesOfThisEvent DEF ArraysInv, BssidHotlistEvent
  <1>2. /\ AtMost(MaxResults, n) \in Nat
        /\ AtMost(MaxResults, n) <= MaxResults
    BY AtMostBelow, EventsAssumption
  <1>3. HotlistArray(n, known) \in [1..MaxResults -> Entries]
    BY <1>1 DEF HotlistArray
  <1>4. /\ mResults' \in Arrays
        /\ mResults'.hotlist = HotlistArray(n, known)
    BY <1>3 DEF BssidHotlistEvent, ArraysInv, Arrays
  <1>5. \A k \in 1..AtMost(MaxResults, n) : mResults'.hotlist[k] \in {0, ThisEvent}
    BY <1>2, <1>4, EventsAssumption DEF HotlistArray
  <1>6. /\ callback'.event = ThisEvent
        /\ callback'.entries = [k \in 1..AtMost(MaxResults, n) |-> mResults'.hotlist[k]]
    BY DEF BssidHotlistEvent, Calls, First
  <1>7. NoStaleEntries'
    BY <1>5, <1>6 DEF NoStaleEntries
  <1> QED BY <1>1, <1>4, <1>7 DEF ArraysInv

(* The ePNO handler clears the entries of the networks that were lost.      *)
LEMMA EpnoKeeps ==
    ASSUME ArraysInv, NEW n \in 0..(MaxNetworks + 1), NEW found \in SUBSET (1..n),
           ePNOEvent(n, found)
    PROVE  ArraysInv'
  <1> DEFINE New == [k \in 1..MaxNetworks |->
                IF k \in found /\ k <= AtMost(MaxNetworks, n) THEN ThisEvent ELSE 0]
  <1>1. /\ seen' \in 0..MaxSeen /\ ThisEvent \in Entries /\ 0 \in Entries
    BY EntriesOfThisEvent DEF ArraysInv, ePNOEvent
  <1>2. /\ AtMost(MaxNetworks, n) \in Nat
        /\ AtMost(MaxNetworks, n) <= MaxNetworks
    BY AtMostBelow, EventsAssumption
  <1>3. New \in [1..MaxNetworks -> Entries]
    BY <1>1
  <1>4. /\ mResults' \in Arrays
        /\ mResults'.epno = New
    BY <1>3 DEF ePNOEvent, ArraysInv, Arrays
  <1>5. \A k \in 1..AtMost(MaxNetworks, n) : mResults'.epno[k] \in {0, ThisEvent}
    BY <1>2, <1>4, EventsAssumption
  <1>6. /\ callback'.event = ThisEvent
        /\ callback'.entries = [k \in 1..AtMost(MaxNetworks, n) |-> mResults'.epno[k]]
    BY DEF ePNOEvent, Calls, First
  <1>7. NoStaleEntries'
    BY <1>5, <1>6 DEF NoStaleEntries
  <1> QED BY <1>1, <1>4, <1>7 DEF ArraysInv

(* The handler of significant changes clears nothing, but writes every      *)
(* entry it hands on.                                                       *)
LEMMA ChangesKeep ==
    ASSUME ArraysInv, NEW n \in 0..(MaxResults + 1), SignificantWifiChangeEvent(n)
    PROVE  ArraysInv'
  <1> DEFINE num == AtMost(MaxResults, n)
             New == [k \in 1..MaxResults |-> IF k <= num THEN ThisEvent ELSE mResults.sigchange[k]]
  <1>1. /\ seen' \in 0..MaxSeen /\ ThisEvent \in Entries
    BY EntriesOfThisEvent DEF ArraysInv, SignificantWifiChangeEvent
  <1>2. num \in Nat /\ num <= MaxResults
    BY AtMostBelow, EventsAssumption
  <1>3. New \in [1..MaxResults -> Entries]
    BY <1>1 DEF ArraysInv, Arrays
  <1>4. /\ mResults' \in Arrays
        /\ mResults'.sigchange = New
    BY <1>3 DEF SignificantWifiChangeEvent, ArraysInv, Arrays
  <1>5. \A k \in 1..num : mResults'.sigchange[k] = ThisEvent
    BY <1>2, <1>4, EventsAssumption
  <1>6. NoStaleEntries'
    <2>1. CASE num = 0
      BY <2>1 DEF SignificantWifiChangeEvent, ArraysInv, NoStaleEntries
    <2>2. CASE num # 0
      <3>1. /\ callback'.event = ThisEvent
            /\ callback'.entries = [k \in 1..num |-> mResults'.sigchange[k]]
        <4>1. Calls("sigchange", First(mResults'.sigchange, num))
          BY <2>2 DEF SignificantWifiChangeEvent
        <4> HIDE DEF num
        <4> QED BY <4>1 DEF Calls, First
      <3> QED BY <1>5, <3>1 DEF NoStaleEntries
    <2> QED BY <2>1, <2>2
  <1> QED BY <1>1, <1>4, <1>6 DEF ArraysInv

(* The handlers that call back at once hand on one entry, of their event.   *)
LEMMA SingleKeeps ==
    ASSUME ArraysInv, Arrives, UNCHANGED mResults, NEW class,
           callback' = [class |-> class, event |-> ThisEvent, entries |-> <<ThisEvent>>]
    PROVE  ArraysInv'
  <1>1. seen' \in 0..MaxSeen
    BY EntriesOfThisEvent DEF ArraysInv
  <1>2. callback'.event = ThisEvent /\ callback'.entries = <<ThisEvent>>
    OBVIOUS
  <1>3. DOMAIN <<ThisEvent>> = {1} /\ <<ThisEvent>>[1] = ThisEvent
    OBVIOUS
  <1> QED BY <1>1, <1>2, <1>3 DEF ArraysInv, NoStaleEntries

(* Every event keeps the arrays and what is handed on of them.              *)
LEMMA ArraysStep == ArraysInv /\ [Next]_vars => ArraysInv'
  <1> SUFFICES ASSUME ArraysInv, [Next]_vars PROVE ArraysInv'
    OBVIOUS
  <1>1. CASE UNCHANGED <<seen, mResults, callback>>
    BY <1>1 DEF ArraysInv, NoStaleEntries
  <1>2. ASSUME Arrives, UNCHANGED <<mResults, callback>> PROVE ArraysInv'
    BY <1>2, EntriesOfThisEvent DEF ArraysInv, NoStaleEntries
  <1>3. ASSUME Arrives, UNCHANGED mResults, callback'.class = "rtt" PROVE ArraysInv'
    BY <1>3, EntriesOfThisEvent DEF ArraysInv, NoStaleEntries
  <1>4. ASSUME EventsNext PROVE ArraysInv'
    <2>1. CASE EventRejected
      BY <1>2, <2>1 DEF EventRejected
    <2>2. CASE ScanEvent \/ RssiEvent \/ AnqpoEvent
      BY <2>2, SingleKeeps DEF ScanEvent, RssiEvent, AnqpoEvent, Calls
    <2>3. CASE \E len, ie_length \in 0..(MaxIeLen + FixedLen + 1) : FullScanEvent(len, ie_length)
      BY <2>3, SingleKeeps DEF FullScanEvent, Calls
    <2>4. ASSUME NEW event, RttCollects(event) PROVE ArraysInv'
      BY <1>2, <2>4 DEF RttCollects
    <2>5. ASSUME NEW event, RttCompletes(event) PROVE ArraysInv'
      BY <1>3, <2>5 DEF RttCompletes, Calls
    <2>6. CASE RttRestarts \/ RttCancels
      BY <1>1, <2>6 DEF RttRestarts, RttCancels
    <2> QED
      BY <1>4, <2>1, <2>2, <2>3, <2>4, <2>5, <2>6, HotlistKeeps, EpnoKeeps, ChangesKeep
         DEF EventsNext
  <1>5. CASE Settings
    BY <1>1, <1>5
    DEF Settings, others, events, wifi_get_roaming_capabilities, wifi_configure_roaming,
       wifi_enable_firmware_roaming, wifi_start_sending_offloaded_packet,
       wifi_stop_sending_offloaded_packet, DriverReloads, HalRestarts
  <1>6. CASE Queries
    BY <1>1, <1>6 DEF Queries, wifi_get_concurrency_matrix, wifi_get_valid_channels, events
  <1> QED BY <1>1, <1>4, <1>5, <1>6 DEF Next, vars, others, events

(* on_hotlist_ap_found, on_network_found and on_significant_change are only *)
(* given entries of the event they are called for, or cleared ones, however *)
(* many events, of whichever length, wrote to the member arrays before.     *)
THEOREM CallbacksAreFresh == Spec => []NoStaleEntries
  <1>1. ArraysInv => NoStaleEntries
    BY DEF ArraysInv
  <1> QED BY <1>1, ArraysStart, ArraysStep, PTL DEF Spec

-----------------------------------------------------------------------------
(* Folds.  The induction theorems of the library take an operator, which    *)
(* the provers cannot instantiate; the least element of a set of numbers    *)
(* takes a set, and from it follow induction for sets and what a fold does. *)

(* A non-empty set of naturals has a least element.                         *)
LEMMA LeastNumber ==
    ASSUME NEW T, T \subseteq Nat, T # {}
    PROVE  \E n \in T : \A m \in T : n <= m
  <1> DEFINE R == OpToRel(<, Nat)
  <1>1. IsWellFoundedOn(R, Nat)
    BY NatLessThanWellFounded
  <1>2. PICK x \in T : \A y \in T : ~ (<<y, x>> \in R)
    <2> HIDE DEF R
    <2> QED BY <1>1, WFMin
  <1>3. \A y \in T : ~ (y < x)
    BY <1>2 DEF OpToRel
  <1> QED BY <1>3

(* Induction, for the set of numbers that have the property.                *)
LEMMA Induction ==
    ASSUME NEW T, T \subseteq Nat, 0 \in T, \A n \in T : n + 1 \in T
    PROVE  T = Nat
  <1> SUFFICES ASSUME Nat \ T # {} PROVE FALSE
    OBVIOUS
  <1>1. PICK n \in Nat \ T : \A m \in Nat \ T : n <= m
    BY LeastNumber
  <1>2. n # 0 /\ n - 1 \in Nat /\ n - 1 \notin Nat \ T
    BY <1>1
  <1> QED BY <1>2

(* A non-empty set of indices has a largest.                                *)
LEMMA LargestIndex ==
    ASSUME NEW n \in Nat, NEW s \in SUBSET (1..n), s # {}
    PROVE  Max(s) \in s /\ Max(s) \in 1..n /\ \A i \in s : Max(s) >= i
  <1> DEFINE T == {m \in Nat : \A i \in s : i <= m}
  <1>1. T \subseteq Nat /\ T # {}
    <2>1. n \in T
      OBVIOUS
    <2> QED BY <2>1
  <1>2. PICK m \in T : \A k \in T : m <= k
    <2> HIDE DEF T
    <2> QED BY <1>1, LeastNumber
  <1>3. m \in s
    <2> SUFFICES ASSUME m \notin s PROVE FALSE
      OBVIOUS
    <2>1. PICK i \in s : TRUE
      OBVIOUS
    <2>2. i \in Nat /\ i <= m /\ i # m /\ i >= 1
      BY <1>2, <2>1
    <2>3. m - 1 \in T
      BY <1>2, <2>2
    <2> QED BY <1>2, <2>2, <2>3
  <1>4. \E x \in s : \A y \in s : x >= y
    BY <1>2, <1>3
  <1>5. Max(s) \in s /\ \A i \in s : Max(s) >= i
    BY <1>4 DEF Max
  <1> QED BY <1>5

(* FoldLeft is defined by a function h on sets of indices: nothing gives    *)
(* base, and the largest index i applies G[i] to what the others give.  G   *)
(* stands for the operator that is folded, on the values V.                 *)
FoldsBy(h, n, V, base, G) ==
    /\ h[{}] = base
    /\ \A s \in SUBSET (1..n) :
          s # {} /\ h[s \ {Max(s)}] \in V => h[s] = G[Max(s)][h[s \ {Max(s)}]]

(* There is such a function.                                                *)
LEMMA FoldExists ==
    ASSUME NEW N \in Nat, NEW V, NEW base \in V, NEW G \in [1..N -> [V -> V]]
    PROVE  \E h \in [SUBSET (1..N) -> V] : FoldsBy(h, N, V, base, G)
  <1> DEFINE Has(n) == \E h \in [SUBSET (1..n) -> V] : FoldsBy(h, n, V, base, G)
  <1> DEFINE T == {n \in Nat : n <= N => Has(n)}
  <1>1. Has(0)
    <2>1. SUBSET (1..0) = {{}}
      OBVIOUS
    <2> DEFINE h == [s \in SUBSET (1..0) |-> base]
    <2>2. h \in [SUBSET (1..0) -> V]
      OBVIOUS
    <2>3. FoldsBy(h, 0, V, base, G)
      BY <2>1 DEF FoldsBy
    <2> QED BY <2>2, <2>3
  <1>2. ASSUME NEW n \in Nat, n + 1 <= N, Has(n) PROVE Has(n + 1)
    <2>1. PICK h \in [SUBSET (1..n) -> V] : FoldsBy(h, n, V, base, G)
      BY <1>2
    <2> DEFINE g == [s \in SUBSET (1..(n + 1)) |->
                        IF n + 1 \in s THEN G[n + 1][h[s \ {n + 1}]] ELSE h[s]]
    <2>2. \A s \in SUBSET (1..(n + 1)) : s \ {n + 1} \in SUBSET (1..n)
      OBVIOUS
    <2>3. g \in [SUBSET (1..(n + 1)) -> V]
      BY <1>2, <2>2
    <2>4. ASSUME NEW s \in SUBSET (1..(n + 1)), s # {}
          PROVE  g[s] = G[Max(s)][g[s \ {Max(s)}]]
      <3>1. CASE n + 1 \in s
        <4>1. Max(s) = n + 1
          <5>1. Max(s) \in 1..(n + 1) /\ \A i \in s : Max(s) >= i
            <6>1. n + 1 \in Nat
              OBVIOUS
            <6> HIDE DEF g
            <6> QED BY <2>4, <6>1, LargestIndex
          <5>2. Max(s) >= n + 1
            BY <3>1, <5>1
          <5> QED BY <5>1, <5>2
        <4>2. g[s \ {n + 1}] = h[s \ {n + 1}]
          BY <2>2
        <4> QED BY <3>1, <4>1, <4>2
      <3>2. CASE n + 1 \notin s
        <4>1. s \in SUBSET (1..n) /\ s \ {Max(s)} \in SUBSET (1..n)
          BY <3>2, <2>2
        <4>2. h[s] = G[Max(s)][h[s \ {Max(s)}]]
          BY <2>1, <2>4, <4>1 DEF FoldsBy
        <4>3. g[s] = h[s] /\ g[s \ {Max(s)}] = h[s \ {Max(s)}]
          BY <3>2, <4>1
        <4> QED BY <4>2, <4>3
      <3> QED BY <3>1, <3>2
    <2>5. g[{}] = base
      <3>1. {} \in SUBSET (1..(n + 1)) /\ h[{}] = base
        BY <2>1 DEF FoldsBy
      <3> QED BY <3>1
    <2>6. FoldsBy(g, n + 1, V, base, G)
      <3> HIDE DEF g
      <3> QED BY <2>4, <2>5 DEF FoldsBy
    <2> QED BY <2>3, <2>6
  <1>3. T = Nat
    <2>1. 0 \in T
      BY <1>1
    <2>2. ASSUME NEW n \in T PROVE n + 1 \in T
      <3> HIDE DEF Has
      <3> QED BY <1>2
    <2> HIDE DEF T
    <2> QED BY <2>1, <2>2, Induction DEF T
  <1> HIDE DEF Has
  <1>4. Has(N)
    BY <1>3
  <1> QED BY <1>4 DEF Has

(* A fold whose steps stay within V ends within V.                          *)
LEMMA FoldStays ==
    ASSUME NEW N \in Nat, NEW V, NEW base \in V, NEW G \in [1..N -> [V -> V]], NEW h,
           FoldsBy(h, N, V, base, G)
    PROVE  h[1..N] \in V
  <1> DEFINE T == {k \in Nat : k <= N => h[1..k] \in V}
  <1>1. 0 \in T
    <2>1. 1..0 = {}
      OBVIOUS
    <2> QED BY <2>1 DEF FoldsBy
  <1>2. ASSUME NEW k \in T, k + 1 <= N PROVE h[1..(k + 1)] \in V
    <2>1. k \in Nat /\ k + 1 \in 1..N /\ h[1..k] \in V /\ \A i \in 1..(k + 1) : i \in 1..N
      BY <1>2
    <2>2. 1..(k + 1) \in SUBSET (1..N) /\ 1..(k + 1) # {}
      <3>1. k + 1 \in 1..(k + 1)
        BY <2>1
      <3> QED BY <2>1, <3>1
    <2>3. Max(1..(k + 1)) = k + 1
      <3>1. k + 1 \in Nat /\ k + 1 \in 1..(k + 1)
        BY <2>1
      <3>2. Max(1..(k + 1)) \in 1..(k + 1) /\ Max(1..(k + 1)) >= k + 1
        BY <2>2, <3>1, LargestIndex
      <3> QED BY <2>1, <3>2
    <2>4. (1..(k + 1)) \ {k + 1} = 1..k
      BY <2>1
    <2>5. h[1..(k + 1)] = G[k + 1][h[1..k]]
      BY <2>1, <2>2, <2>3, <2>4 DEF FoldsBy
    <2> QED BY <2>1, <2>5
  <1>3. T = Nat
    <2>1. \A k \in T : k + 1 \in T
      BY <1>2
    <2> HIDE DEF T
    <2> QED BY <1>1, <2>1, Induction DEF T
  <1> QED BY <1>3

-----------------------------------------------------------------------------
(* The lists of the queries.                                                *)

(* A list of the caller after some attributes: neither the number that was  *)
(* announced nor what was written is past its array, unless the size of the *)
(* matrix was given as 0, or a number of channels is no int.                *)
Lengths(max) == [max : {max}, size : Int, written : Int, fits : BOOLEAN]

MatrixFilled(max) ==
    {m \in Lengths(max) : max # 0 => m.size <= max /\ m.written <= max}

ChannelsFilled(max) ==
    {m \in Lengths(max) : m.fits => m.size \in 0..max /\ m.written <= max}

(* A reply is a sequence of attributes, with sizes for numbers.             *)
LEMMA RepliesShape ==
    ASSUME NEW reply \in Replies
    PROVE  /\ Len(reply) \in Nat /\ DOMAIN reply = 1..Len(reply)
           /\ \A i \in 1..Len(reply) : reply[i] \in [type : {"num", "set"}, value : Nat]
  <1>1. PICK n \in 0..MaxAttributes : reply \in [1..n -> Attributes]
    BY DEF Replies
  <1>2. n \in Nat /\ reply \in Seq(Attributes)
    BY <1>1, ParametersAssumption
  <1>3. Attributes \subseteq [type : {"num", "set"}, value : Nat]
    BY ParametersAssumption DEF Attributes, Words
  <1> QED BY <1>2, <1>3

(* A number, announced and clamped.                                         *)
LEMMA AnnouncedShape ==
    ASSUME NEW max \in Nat, NEW m \in Lengths(max), NEW v \in Nat, NEW size \in Int
    PROVE  /\ Announced(m, v, size) \in Lengths(max)
           /\ Announced(m, v, size).size = size
           /\ Announced(m, v, size).written = m.written
           /\ Announced(m, v, size).fits => m.fits /\ v <= IntMax
  <1>1. (m.fits /\ v <= IntMax) \in BOOLEAN
    OBVIOUS
  <1> QED BY <1>1 DEF Announced, Lengths

(* One attribute keeps the matrix within its array.                         *)
LEMMA AttributeStays ==
    ASSUME NEW max \in Nat, NEW m \in MatrixFilled(max),
           NEW a \in [type : {"num", "set"}, value : Nat]
    PROVE  ReadAttribute(m, a) \in MatrixFilled(max)
  <1>1. /\ m \in Lengths(max) /\ m.max = max /\ m.size \in Int /\ m.written \in Int
        /\ max # 0 => m.size <= max /\ m.written <= max
    BY DEF MatrixFilled, Lengths
  <1>2. CASE a.type = "num"
    <2> DEFINE size == IF max # 0 THEN Clamp(ToInt(a.value), max) ELSE ToInt(a.value)
               n == Announced(m, a.value, size)
    <2>1. size \in Int /\ (max # 0 => size <= max)
      BY ParametersAssumption DEF Clamp, ToInt
    <2>2. ReadAttribute(m, a) = n
      BY <1>1, <1>2 DEF ReadAttribute
    <2>3. n \in Lengths(max) /\ n.size = size /\ n.written = m.written
      <3> DEFINE v == a.value
      <3>1. v \in Nat /\ size \in Int /\ m \in Lengths(max)
        BY <1>1, <2>1
      <3> HIDE DEF size, v
      <3>2. /\ Announced(m, v, size) \in Lengths(max)
            /\ Announced(m, v, size).size = size
            /\ Announced(m, v, size).written = m.written
            /\ Announced(m, v, size).fits => m.fits /\ v <= IntMax
        BY <3>1, AnnouncedShape, Zenon
      <3> QED BY <3>2 DEF v
    <2> HIDE DEF n, size
    <2> QED BY <1>1, <2>1, <2>2, <2>3 DEF MatrixFilled
  <1>3. CASE a.type = "set" /\ m.written < m.size
    <2> DEFINE n == [m EXCEPT !.written = @ + 1]
    <2>1. ReadAttribute(m, a) = n
      BY <1>3 DEF ReadAttribute
    <2>2. n \in Lengths(max) /\ n.size = m.size /\ n.written = m.written + 1
      BY <1>1 DEF Lengths
    <2> HIDE DEF n
    <2> QED BY <1>1, <1>3, <2>1, <2>2 DEF MatrixFilled
  <1>4. CASE a.type = "set" /\ ~ (m.written < m.size)
    BY <1>4 DEF ReadAttribute
  <1> QED BY <1>2, <1>3, <1>4

(* And the channel list.                                                    *)
LEMMA ChannelStays ==
    ASSUME NEW max \in Nat, NEW m \in ChannelsFilled(max),
           NEW a \in [type : {"num", "set"}, value : Nat]
    PROVE  ReadChannels(m, a) \in ChannelsFilled(max)
  <1>1. /\ m \in Lengths(max) /\ m.max = max /\ m.size \in Int /\ m.written \in Int
        /\ m.fits => m.size \in 0..max /\ m.written <= max
    BY DEF ChannelsFilled, Lengths
  <1>2. CASE a.type = "num"
    <2> DEFINE size == Clamp(ToInt(a.value), max)
               n == Announced(m, a.value, size)
    <2>1. size \in Int /\ (a.value <= IntMax => size \in 0..max)
      BY ParametersAssumption DEF Clamp, ToInt
    <2>2. ReadChannels(m, a) = n
      BY <1>1, <1>2 DEF ReadChannels
    <2>3. /\ n \in Lengths(max) /\ n.size = size /\ n.written = m.written
          /\ n.fits => m.fits /\ a.value <= IntMax
      <3> DEFINE v == a.value
      <3>1. v \in Nat /\ size \in Int /\ m \in Lengths(max)
        BY <1>1, <2>1
      <3> HIDE DEF size, v
      <3>2. /\ Announced(m, v, size) \in Lengths(max)
            /\ Announced(m, v, size).size = size
            /\ Announced(m, v, size).written = m.written
            /\ Announced(m, v, size).fits => m.fits /\ v <= IntMax
        BY <3>1, AnnouncedShape, Zenon
      <3> QED BY <3>2 DEF v
    <2> HIDE DEF n, size
    <2> QED BY <1>1, <2>1, <2>2, <2>3 DEF ChannelsFilled
  <1>3. CASE a.type = "set" /\ m.size # 0
    <2> DEFINE w == Larger(m.written, ToWord(m.size))
               n == [m EXCEPT !.written = w]
    <2>1. w \in Int /\ (m.fits => w <= max)
      BY <1>1, ParametersAssumption DEF Larger, ToWord
    <2>2. ReadChannels(m, a) = n
      BY <1>3 DEF ReadChannels
    <2>3. n \in Lengths(max) /\ n.size = m.size /\ n.written = w /\ n.fits = m.fits
      <3> HIDE DEF w
      <3> QED BY <1>1, <2>1 DEF Lengths
    <2> HIDE DEF n, w
    <2> QED BY <1>1, <2>1, <2>2, <2>3 DEF ChannelsFilled
  <1>4. CASE a.type = "set" /\ m.size = 0
    BY <1>4 DEF ReadChannels
  <1> QED BY <1>2, <1>3, <1>4

(* A reply to wifi_get_concurrency_matrix keeps the matrix so, whatever it  *)
(* announces and in whichever order.                                        *)
LEMMA MatrixStays ==
    ASSUME NEW max \in Nat, NEW reply \in Replies
    PROVE  FoldLeft(ReadAttribute, NoArray(max), reply)
             \in MatrixFilled(max)
  <1> DEFINE V == MatrixFilled(max)
  <1> DEFINE N == Len(reply)
  <1> DEFINE Base == NoArray(max)
  <1> DEFINE G == [i \in 1..N |-> [v \in V |-> ReadAttribute(v, reply[i])]]
  <1> DEFINE Def(h) == h = [s \in SUBSET DOMAIN reply |->
                    IF s = {} THEN Base ELSE ReadAttribute(h[s \ {Max(s)}], reply[Max(s)])]
  <1> DEFINE fold == CHOOSE h : Def(h)
  <1>1. FoldLeft(ReadAttribute, NoArray(max), reply) = fold[DOMAIN reply]
    BY DEF FoldLeft, MapThenFoldSet
  <1>2. N \in Nat /\ DOMAIN reply = 1..N
    BY RepliesShape
  <1>3. Base \in V
    BY DEF NoArray, MatrixFilled, Lengths
  <1>4. G \in [1..N -> [V -> V]]
    BY RepliesShape, AttributeStays
  <1>5. PICK h \in [SUBSET (1..N) -> V] : FoldsBy(h, N, V, Base, G)
    <2> HIDE DEF N, G, Base, V
    <2> QED BY <1>2, <1>3, <1>4, FoldExists
  <1>6. Def(h)
    <2>1. ASSUME NEW s \in SUBSET (1..N), s # {}
          PROVE  h[s] = ReadAttribute(h[s \ {Max(s)}], reply[Max(s)])
      <3>1. Max(s) \in 1..N
        BY <1>2, <2>1, LargestIndex
      <3>2. h[s \ {Max(s)}] \in V
        OBVIOUS
      <3> QED BY <1>5, <2>1, <3>1, <3>2 DEF FoldsBy
    <2>2. h[{}] = Base
      BY <1>5 DEF FoldsBy
    <2> HIDE DEF N, Base
    <2> QED BY <1>2, <2>1, <2>2
  <1>7. Def(fold)
    <2> HIDE DEF Def
    <2> QED BY <1>6
  <1>8. FoldsBy(fold, N, V, Base, G)
    <2> HIDE DEF fold, Base
    <2>1. ASSUME NEW s \in SUBSET (1..N), s # {}, fold[s \ {Max(s)}] \in V
          PROVE  fold[s] = G[Max(s)][fold[s \ {Max(s)}]]
      <3>1. Max(s) \in 1..N
        BY <1>2, <2>1, LargestIndex
      <3>2. fold[s] = ReadAttribute(fold[s \ {Max(s)}], reply[Max(s)])
        BY <1>2, <1>7, <2>1
      <3> QED BY <2>1, <3>1, <3>2
    <2>2. fold[{}] = Base
      BY <1>7
    <2> QED BY <2>1, <2>2 DEF FoldsBy
  <1> HIDE DEF N, G, Base, V, fold
  <1>9. fold[1..N] \in V
    BY <1>2, <1>3, <1>4, <1>8, FoldStays
  <1> QED BY <1>1, <1>2, <1>9 DEF V

(* And one to wifi_get_valid_channels the channel list.                     *)
LEMMA ChannelsStay ==
    ASSUME NEW max \in Nat, NEW reply \in Replies
    PROVE  FoldLeft(ReadChannels, NoArray(max), reply)
             \in ChannelsFilled(max)
  <1> DEFINE V == ChannelsFilled(max)
  <1> DEFINE N == Len(reply)
  <1> DEFINE Base == NoArray(max)
  <1> DEFINE G == [i \in 1..N |-> [v \in V |-> ReadChannels(v, reply[i])]]
  <1> DEFINE Def(h) == h = [s \in SUBSET DOMAIN reply |->
                    IF s = {} THEN Base ELSE ReadChannels(h[s \ {Max(s)}], reply[Max(s)])]
  <1> DEFINE fold == CHOOSE h : Def(h)
  <1>1. FoldLeft(ReadChannels, NoArray(max), reply) = fold[DOMAIN reply]
    BY DEF FoldLeft, MapThenFoldSet
  <1>2. N \in Nat /\ DOMAIN reply = 1..N
    BY RepliesShape
  <1>3. Base \in V
    BY DEF NoArray, ChannelsFilled, Lengths
  <1>4. G \in [1..N -> [V -> V]]
    BY RepliesShape, ChannelStays
  <1>5. PICK h \in [SUBSET (1..N) -> V] : FoldsBy(h, N, V, Base, G)
    <2> HIDE DEF N, G, Base, V
    <2> QED BY <1>2, <1>3, <1>4, FoldExists
  <1>6. Def(h)
    <2>1. ASSUME NEW s \in SUBSET (1..N), s # {}
          PROVE  h[s] = ReadChannels(h[s \ {Max(s)}], reply[Max(s)])
      <3>1. Max(s) \in 1..N
        BY <1>2, <2>1, LargestIndex
      <3>2. h[s \ {Max(s)}] \in V
        OBVIOUS
      <3> QED BY <1>5, <2>1, <3>1, <3>2 DEF FoldsBy
    <2>2. h[{}] = Base
      BY <1>5 DEF FoldsBy
    <2> HIDE DEF N, Base
    <2> QED BY <1>2, <2>1, <2>2
  <1>7. Def(fold)
    <2> HIDE DEF Def
    <2> QED BY <1>6
  <1>8. FoldsBy(fold, N, V, Base, G)
    <2> HIDE DEF fold, Base
    <2>1. ASSUME NEW s \in SUBSET (1..N), s # {}, fold[s \ {Max(s)}] \in V
          PROVE  fold[s] = G[Max(s)][fold[s \ {Max(s)}]]
      <3>1. Max(s) \in 1..N
        BY <1>2, <2>1, LargestIndex
      <3>2. fold[s] = ReadChannels(fold[s \ {Max(s)}], reply[Max(s)])
        BY <1>2, <1>7, <2>1
      <3> QED BY <2>1, <3>1, <3>2
    <2>2. fold[{}] = Base
      BY <1>7
    <2> QED BY <2>1, <2>2 DEF FoldsBy
  <1> HIDE DEF N, G, Base, V, fold
  <1>9. fold[1..N] \in V
    BY <1>2, <1>3, <1>4, <1>8, FoldStays
  <1> QED BY <1>1, <1>2, <1>9 DEF V

(* Both lists, for the sizes the caller gave last.                          *)
RepliesInv ==
    /\ matrix.max \in Nat /\ matrix \in MatrixFilled(matrix.max)
    /\ channels.max \in Nat /\ channels \in ChannelsFilled(channels.max)

(* The concurrency matrix and the channel list stay within the caller's     *)
(* arrays, for replies of any length and any width of an int, also when     *)
(* numbers are announced several times or before and after the lists: the   *)
(* matrix unless its size was given as 0, the channels unless a number of   *)
(* them is beyond the range of an int.                                      *)
THEOREM RepliesStayInArray == Spec => []RepliesInArray
  <1>1. Init => RepliesInv
    <2>1. NoArray(0) \in MatrixFilled(0) /\ NoArray(0) \in ChannelsFilled(0) /\ NoArray(0).max = 0
      BY DEF NoArray, MatrixFilled, ChannelsFilled, Lengths
    <2> QED BY <2>1 DEF Init, RepliesInv
  <1>2. RepliesInv /\ [Next]_vars => RepliesInv'
    <2> SUFFICES ASSUME RepliesInv, [Next]_vars PROVE RepliesInv'
      OBVIOUS
    <2>1. CASE UNCHANGED <<matrix, channels>>
      BY <2>1 DEF RepliesInv
    <2>2. ASSUME NEW max \in MatrixSizes, NEW reply \in Replies,
                 wifi_get_concurrency_matrix(max, reply)
          PROVE  RepliesInv'
      <3>1. max \in Nat
        BY ParametersAssumption
      <3>2. matrix' \in MatrixFilled(max) /\ channels' = channels
        BY <2>2, <3>1, MatrixStays DEF wifi_get_concurrency_matrix
      <3>3. matrix'.max = max
        BY <3>2 DEF MatrixFilled, Lengths
      <3> QED BY <3>1, <3>2, <3>3 DEF RepliesInv
    <2>3. ASSUME NEW max \in MatrixSizes, NEW reply \in Replies,
                 wifi_get_valid_channels(max, reply)
          PROVE  RepliesInv'
      <3>1. max \in Nat
        BY ParametersAssumption
      <3>2. channels' \in ChannelsFilled(max) /\ matrix' = matrix
        BY <2>3, <3>1, ChannelsStay DEF wifi_get_valid_channels
      <3>3. channels'.max = max
        BY <3>2 DEF ChannelsFilled, Lengths
      <3> QED BY <3>1, <3>2, <3>3 DEF RepliesInv
    <2>4. CASE Settings
      BY <2>1, <2>4 DEF Settings, others, wifi_get_roaming_capabilities, wifi_configure_roaming,
         wifi_enable_firmware_roaming, wifi_start_sending_offloaded_packet,
         wifi_stop_sending_offloaded_packet, DriverReloads, HalRestarts
    <2> QED BY <2>1, <2>2, <2>3, <2>4 DEF Next, Queries, vars, others
  <1>3. RepliesInv => RepliesInArray
    BY DEF RepliesInv, RepliesInArray, MatrixFilled, ChannelsFilled
  <1> QED BY <1>1, <1>2, <1>3, PTL DEF Spec

-----------------------------------------------------------------------------
(* RTT results.                                                             *)

RttState == [completed : {0, 1}, currentIdx : Nat, totalCnt : Nat,
             rttResults : [1..RttSlots -> Nat]]

(* The slots up to currentIdx hold the results in the order they came.      *)
InOrder(r) ==
    /\ r.totalCnt = r.currentIdx
    /\ \A k \in 1..RttSlots : k <= r.currentIdx => r.rttResults[k] = k

(* What RttCommand has, and was sent, after some items of an event that     *)
(* found n results there.                                                   *)
Collected(n) ==
    {c \in [rtt : RttState, copied : Nat, sent : Nat] :
        /\ InOrder(c.rtt)
        /\ c.rtt.currentIdx = n + c.copied
        /\ c.copied <= c.sent}

(* While a request runs, what was copied for it is what is in the array,    *)
(* and with the results of cancelled requests what is on the heap.          *)
RttInv ==
    /\ rtt \in RttState /\ InOrder(rtt)
    /\ received \in Nat /\ lost \in Nat
    /\ rtt.currentIdx = IF rtt.completed = 0 THEN received ELSE 0
    /\ RttExact

(* An item of an RTT event is a flag or a target with some results.         *)
RttItemShape(item) ==
    \/ item.type = "complete" /\ item.value \in {0, 1}
    \/ item.type = "target" /\ item.results \in Nat /\ item.fails \in BOOLEAN

(* An event is a sequence of items.                                         *)
LEMMA RttEventsShape ==
    ASSUME NEW event \in RttEvents
    PROVE  /\ Len(event) \in Nat /\ DOMAIN event = 1..Len(event)
           /\ \A i \in 1..Len(event) : RttItemShape(event[i])
  <1>1. PICK n \in 0..MaxItems : event \in [1..n -> RttItems]
    BY DEF RttEvents
  <1>2. n \in Nat /\ event \in Seq(RttItems)
    BY <1>1, EventsAssumption
  <1>3. \A item \in RttItems : RttItemShape(item)
    BY EventsAssumption DEF RttItems, RttItemShape
  <1> QED BY <1>2, <1>3

(* An item appends its results after those that are there.                  *)
LEMMA ItemCollects ==
    ASSUME NEW n \in Nat, NEW c \in Collected(n), NEW item, RttItemShape(item)
    PROVE  RttReads(c, item) \in Collected(n)
  <1>1. /\ c.rtt \in RttState /\ InOrder(c.rtt)
        /\ c.copied \in Nat /\ c.sent \in Nat /\ c.copied <= c.sent
        /\ c.rtt.currentIdx = n + c.copied
    BY DEF Collected
  <1>2. CASE item.type = "complete"
    <2>1. item.value \in {0, 1}
      BY <1>2 DEF RttItemShape
    <2> DEFINE r == [c.rtt EXCEPT !.completed = item.value]
    <2>2. RttReads(c, item) = [rtt |-> r, copied |-> c.copied, sent |-> c.sent]
      BY <1>1, <1>2 DEF RttReads, RttItem
    <2>3. r \in RttState
      BY <1>1, <2>1 DEF RttState
    <2>4. InOrder(r) /\ r.currentIdx = c.rtt.currentIdx
      BY <1>1 DEF InOrder, RttState
    <2> HIDE DEF r
    <2> QED BY <1>1, <2>2, <2>3, <2>4 DEF Collected
  <1>3. CASE item.type = "target"
    <2> DEFINE m == c.rtt.currentIdx
               r == RttItem(c.rtt, item)
               bad == IF item.fails THEN 1 ELSE 0
    <2>1. item.results \in Nat /\ item.fails \in BOOLEAN /\ m \in Nat /\ bad \in {0, 1}
      BY <1>1, <1>3 DEF RttItemShape, RttState
    <2>2. RttReads(c, item) = [rtt |-> r, copied |-> c.copied + item.results,
                               sent |-> c.sent + item.results + bad]
      BY <1>3, <2>1 DEF RttReads
    <2>3. r = [completed  |-> IF item.fails THEN 1 ELSE c.rtt.completed,
               currentIdx |-> m + item.results,
               totalCnt   |-> c.rtt.totalCnt + item.results,
               rttResults |-> [k \in 1..RttSlots |->
                    IF k \in (m + 1)..(m + item.results) THEN k ELSE c.rtt.rttResults[k]]]
      BY <1>3 DEF RttItem
    <2>4. r \in RttState
      <3>1. [k \in 1..RttSlots |->
                IF k \in (m + 1)..(m + item.results) THEN k ELSE c.rtt.rttResults[k]]
              \in [1..RttSlots -> Nat]
        <4>1. \A k \in 1..RttSlots : k \in Nat
          BY EventsAssumption
        <4>2. c.rtt.rttResults \in [1..RttSlots -> Nat]
          BY <1>1 DEF RttState
        <4> QED BY <4>1, <4>2
      <3>2. c.rtt.completed \in {0, 1} /\ c.rtt.totalCnt \in Nat
        BY <1>1 DEF RttState
      <3> QED BY <2>1, <2>3, <3>1, <3>2 DEF RttState
    <2>5. InOrder(r)
      <3>1. r.totalCnt = r.currentIdx
        BY <1>1, <2>3 DEF InOrder
      <3>2. ASSUME NEW k \in 1..RttSlots, k <= m + item.results
            PROVE  r.rttResults[k] = k
        <4>1. CASE k <= m
          BY <1>1, <2>1, <2>3, <4>1, EventsAssumption DEF InOrder
        <4>2. CASE k > m
          BY <2>1, <2>3, <3>2, <4>2, EventsAssumption
        <4>3. k \in Nat
          BY EventsAssumption
        <4> QED BY <2>1, <4>1, <4>2, <4>3
      <3> QED BY <2>3, <3>1, <3>2 DEF InOrder
    <2>6. r.currentIdx = n + (c.copied + item.results)
      BY <1>1, <2>1, <2>3
    <2>7. /\ c.copied + item.results \in Nat /\ c.sent + item.results + bad \in Nat
          /\ c.copied + item.results <= c.sent + item.results + bad
      BY <1>1, <2>1
    <2> HIDE DEF r, m, bad
    <2> QED BY <2>2, <2>4, <2>5, <2>6, <2>7 DEF Collected
  <1> QED BY <1>2, <1>3 DEF RttItemShape

(* So does an event, over its items.                                        *)
LEMMA EventCollects ==
    ASSUME NEW event \in RttEvents, rtt \in RttState, InOrder(rtt)
    PROVE  FoldLeft(RttReads, [rtt |-> rtt, copied |-> 0, sent |-> 0], event)
             \in Collected(rtt.currentIdx)
  <1> DEFINE V == Collected(rtt.currentIdx)
  <1> DEFINE N == Len(event)
  <1> DEFINE Base == [rtt |-> rtt, copied |-> 0, sent |-> 0]
  <1> DEFINE G == [i \in 1..N |-> [v \in V |-> RttReads(v, event[i])]]
  <1> DEFINE Def(h) == h = [s \in SUBSET DOMAIN event |->
                    IF s = {} THEN Base ELSE RttReads(h[s \ {Max(s)}], event[Max(s)])]
  <1> DEFINE fold == CHOOSE h : Def(h)
  <1>1. FoldLeft(RttReads, [rtt |-> rtt, copied |-> 0, sent |-> 0], event) = fold[DOMAIN event]
    BY DEF FoldLeft, MapThenFoldSet
  <1>2. N \in Nat /\ DOMAIN event = 1..N
    BY RttEventsShape
  <1>3. Base \in V
    <2>1. rtt.currentIdx \in Nat /\ rtt.currentIdx = rtt.currentIdx + 0
      BY DEF RttState
    <2> QED BY <2>1 DEF Collected
  <1>4. G \in [1..N -> [V -> V]]
    <2>1. rtt.currentIdx \in Nat
      BY DEF RttState
    <2>2. \A i \in 1..N : \A v \in V : RttReads(v, event[i]) \in V
      BY <2>1, RttEventsShape, ItemCollects
    <2> QED BY <2>2
  <1>5. PICK h \in [SUBSET (1..N) -> V] : FoldsBy(h, N, V, Base, G)
    <2> HIDE DEF N, G, Base, V
    <2> QED BY <1>2, <1>3, <1>4, FoldExists
  <1>6. Def(h)
    <2>1. ASSUME NEW s \in SUBSET (1..N), s # {}
          PROVE  h[s] = RttReads(h[s \ {Max(s)}], event[Max(s)])
      <3>1. Max(s) \in 1..N
        BY <1>2, <2>1, LargestIndex
      <3>2. h[s \ {Max(s)}] \in V
        OBVIOUS
      <3> QED BY <1>5, <2>1, <3>1, <3>2 DEF FoldsBy
    <2>2. h[{}] = Base
      BY <1>5 DEF FoldsBy
    <2> HIDE DEF N, Base
    <2> QED BY <1>2, <2>1, <2>2
  <1>7. Def(fold)
    <2> HIDE DEF Def
    <2> QED BY <1>6
  <1>8. FoldsBy(fold, N, V, Base, G)
    <2> HIDE DEF fold, Base
    <2>1. ASSUME NEW s \in SUBSET (1..N), s # {}, fold[s \ {Max(s)}] \in V
          PROVE  fold[s] = G[Max(s)][fold[s \ {Max(s)}]]
      <3>1. Max(s) \in 1..N
        BY <1>2, <2>1, LargestIndex
      <3>2. fold[s] = RttReads(fold[s \ {Max(s)}], event[Max(s)])
        BY <1>2, <1>7, <2>1
      <3> QED BY <2>1, <3>1, <3>2
    <2>2. fold[{}] = Base
      BY <1>7
    <2> QED BY <2>1, <2>2 DEF FoldsBy
  <1> HIDE DEF N, G, Base, V, fold
  <1>9. fold[1..N] \in V
    BY <1>2, <1>3, <1>4, <1>8, FoldStays
  <1> QED BY <1>1, <1>2, <1>9 DEF V

(* Memory that was just cleared is in order.                                *)
LEMMA NewRttFresh ==
    /\ NewRtt \in RttState /\ InOrder(NewRtt) /\ NewRtt.completed = 0 /\ NewRtt.currentIdx = 0
    /\ LET done == [NewRtt EXCEPT !.completed = 1]
       IN  done \in RttState /\ InOrder(done) /\ done.completed = 1 /\ done.currentIdx = 0
  BY EventsAssumption DEF NewRtt, RttState, InOrder

(* Every RTT result that was copied is handed on once, in its order, and    *)
(* freed, unless its request is cancelled, for any number of results,       *)
(* events, cancelled requests and failed allocations.                       *)
THEOREM RttResultsWhole == Spec => []RttExact
  <1>1. Init => RttInv
    BY NewRttFresh DEF Init, EventsInit, RttInv, RttExact, RttWhole, HeapExact, Quiet
  <1>2. RttInv /\ [Next]_vars => RttInv'
    <2> SUFFICES ASSUME RttInv, [Next]_vars PROVE RttInv'
      OBVIOUS
    <2>1. ASSUME UNCHANGED collecting,
                 callback' = callback \/ callback'.class # "rtt"
          PROVE  RttInv'
      BY <2>1 DEF RttInv, RttExact, RttWhole, HeapExact, InOrder, collecting
    <2>2. ASSUME NEW event \in RttEvents, rtt.completed = 0
          PROVE  LET read == RttRead(event)
                 IN  /\ read.rtt \in RttState /\ InOrder(read.rtt)
                     /\ read.copied \in Nat /\ read.sent \in Nat
                     /\ read.copied <= read.sent
                     /\ read.rtt.currentIdx = received + read.copied
                     /\ received \in Nat /\ lost \in Nat /\ heap = received + lost
      <3>1. RttRead(event) \in Collected(rtt.currentIdx)
        BY EventCollects DEF RttInv, RttRead
      <3>2. rtt.currentIdx = received /\ received \in Nat /\ lost \in Nat /\ heap = received + lost
        BY <2>2 DEF RttInv, RttExact, HeapExact
      <3> QED BY <3>1, <3>2 DEF Collected
    <2>3. ASSUME NEW event \in RttEvents, rtt.completed = 0, RttCollects(event)
          PROVE  RttInv'
      <3> DEFINE read == RttRead(event)
      <3>1. /\ rtt' = read.rtt /\ read.rtt.completed = 0 /\ received' = received + read.copied
            /\ heap' = heap + read.copied /\ lost' = lost
        BY <2>3 DEF RttCollects
      <3> HIDE DEF read
      <3>2. /\ read.rtt \in RttState /\ InOrder(read.rtt) /\ read.copied \in Nat
            /\ read.rtt.currentIdx = received + read.copied
            /\ received \in Nat /\ lost \in Nat /\ heap = received + lost
        BY <2>2, <2>3 DEF read
      <3>3. InOrder(rtt)'
        BY <3>1, <3>2 DEF InOrder
      <3> QED BY <3>1, <3>2, <3>3 DEF RttInv, RttExact, RttWhole, HeapExact
    <2>4. ASSUME NEW event \in RttEvents, rtt.completed = 0, RttCompletes(event)
          PROVE  RttInv'
      <3> DEFINE read == RttRead(event)
      <3> DEFINE r == read.rtt
      <3>1. /\ rtt' = [NewRtt EXCEPT !.completed = 1] /\ received' = received + read.copied
            /\ heap' = heap + read.copied - r.currentIdx /\ lost' = lost
            /\ received + read.sent <= RttSlots
            /\ callback'.entries = [k \in 1..r.totalCnt |-> r.rttResults[k]]
        BY <2>4 DEF RttCompletes, Calls, Fits
      <3> HIDE DEF read
      <3>2. /\ r \in RttState /\ InOrder(r) /\ read.copied \in Nat /\ read.sent \in Nat
            /\ read.copied <= read.sent
            /\ r.currentIdx = received + read.copied
            /\ received \in Nat /\ lost \in Nat /\ heap = received + lost
        BY <2>2, <2>4 DEF read
      <3>3. callback'.entries = [k \in 1..received' |-> k]
        <4>1. r.totalCnt = received + read.copied /\ received + read.copied \in Nat
          BY <3>2 DEF InOrder
        <4>2. ASSUME NEW k \in 1..r.totalCnt PROVE r.rttResults[k] = k
          <5>1. k \in Nat /\ k >= 1 /\ k <= received + read.copied
            BY <4>1, <4>2
          <5>2. received + read.copied <= RttSlots /\ RttSlots \in Nat
            BY <3>1, <3>2, EventsAssumption
          <5>3. k \in 1..RttSlots /\ k <= r.currentIdx
            BY <3>2, <5>1, <5>2
          <5> QED BY <3>2, <5>3 DEF InOrder
        <4> HIDE DEF r
        <4> QED BY <3>1, <4>1, <4>2
      <3>4. lost' \in Nat /\ received' \in Nat /\ heap' = lost' /\ 0 + lost' = lost'
        BY <3>1, <3>2
      <3>5. rtt' \in RttState /\ InOrder(rtt)' /\ rtt'.completed = 1 /\ rtt'.currentIdx = 0
        <4>1. InOrder([NewRtt EXCEPT !.completed = 1])
          BY NewRttFresh
        <4>2. InOrder(rtt)'
          BY <3>1, <4>1 DEF InOrder
        <4> QED BY <3>1, <4>2, NewRttFresh
      <3>6. heap' = rtt'.currentIdx + lost'
        BY <3>4, <3>5
      <3> HIDE DEF r
      <3> QED BY <3>3, <3>4, <3>5, <3>6 DEF RttInv, RttExact, RttWhole, HeapExact
    <2>5. CASE RttRestarts
      <3>1. heap = lost
        BY <2>5 DEF RttRestarts, RttInv, RttExact, HeapExact
      <3> QED BY <2>5, <3>1, NewRttFresh
              DEF RttRestarts, RttInv, RttExact, RttWhole, HeapExact, InOrder
    <2>9. CASE RttCancels
      <3>1. /\ rtt' = NewRtt /\ received' = 0 /\ heap' = heap
            /\ lost' = lost + rtt.currentIdx
        BY <2>9 DEF RttCancels
      <3>2. heap' = lost' /\ lost' \in Nat
        BY <3>1 DEF RttInv, RttExact, HeapExact, RttState
      <3> QED BY <3>1, <3>2, NewRttFresh DEF RttInv, RttExact, RttWhole, HeapExact, InOrder
    <2>6. CASE EventsNext
      BY <2>1, <2>3, <2>4, <2>5, <2>6, <2>9
         DEF EventsNext, EventRejected, BssidHotlistEvent, ePNOEvent, SignificantWifiChangeEvent,
             ScanEvent, RssiEvent, AnqpoEvent, FullScanEvent, Calls
    <2>7. CASE Settings
      BY <2>1, <2>7
      DEF Settings, others, events, wifi_get_roaming_capabilities, wifi_configure_roaming,
          wifi_enable_firmware_roaming, wifi_start_sending_offloaded_packet,
          wifi_stop_sending_offloaded_packet, DriverReloads, HalRestarts
    <2>8. CASE Queries
      BY <2>1, <2>8 DEF Queries, wifi_get_concurrency_matrix, wifi_get_valid_channels, events
    <2> QED BY <2>1, <2>6, <2>7, <2>8 DEF Next, vars, others, events
  <1>3. RttInv => RttExact
    BY DEF RttInv
  <1> QED BY <1>1, <1>2, <1>3, PTL DEF Spec
=============================================================================
