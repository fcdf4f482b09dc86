---------------------------- MODULE DriverConfig ----------------------------
(***************************************************************************)
(* The requests of the HAL that configure the driver and subscribe to no   *)
(* event (wifi_hal.cpp, wifi_offload.cpp): roaming capabilities, which the *)
(* HAL caches in hal_info and uses to vet roaming configurations; firmware *)
(* roaming; keep-alive packets; and the concurrency matrix.  Each is one   *)
(* request, which the driver accepts or refuses.  What the driver reports  *)
(* by itself is in DriverEvents.                                           *)
(***************************************************************************)
EXTENDS DriverEvents

CONSTANTS
    MaxBlacklist,   \* MAX_BLACKLIST_BSSID
    MaxWhitelist,   \* MAX_WHITELIST_SSID
    DriverMax,      \* bound: the sizes a driver may offer, and a client ask for
    NAvailId,       \* N_AVAIL_ID
    MatrixSizes,    \* the sizes of the arrays passed for the two lists, 0 too
    IntMax,         \* INT_MAX
    MaxAttributes   \* bound: attributes of a reply with a list

ASSUME ParametersAssumption ==
    /\ MaxBlacklist \in Nat /\ MaxWhitelist \in Nat
    /\ DriverMax \in Nat /\ NAvailId \in 1..255
    /\ MatrixSizes \subseteq Nat /\ MaxAttributes \in Nat /\ IntMax \in Nat

Sizes == 0..DriverMax
Lists == [blacklist : Sizes, whitelist : Sizes]
Empty == [blacklist |-> 0, whitelist |-> 0]

VARIABLES
    side,           \* what happens in this behaviour
    roaming_capa,   \* hal_info.roaming_capa
    vouched,        \* auxiliary: the cache is empty, or a whole answer of this driver
    offered,        \* what the driver can hold
    stored,         \* the sizes of the lists the driver was given
    vetted,         \* auxiliary: they were compared with such a cache
    roaming,        \* whether firmware roaming is enabled
    keepalive,      \* the indices of the packets the driver sends
    matrix,         \* the last concurrency matrix: array size, *fm_size, entries written
    channels        \* the last channel list, likewise

cache == <<roaming_capa, vouched>>
lists == <<offered, stored, vetted>>
settings == <<cache, lists, roaming, keepalive>>
others == <<side, matrix, channels, events>>
vars == <<settings, others>>

TypeOK ==
    /\ {roaming_capa, offered, stored} \subseteq Lists
    /\ {roaming, vouched, vetted} \subseteq BOOLEAN
    /\ keepalive \subseteq 0..255
    /\ {matrix, channels} \subseteq
           [max : MatrixSizes \cup {0}, size : Int, written : Nat, fits : BOOLEAN]
    /\ EventsTypeOK

(* fits is auxiliary: every announced number is within the range of an int. *)
NoArray(max) == [max |-> max, size |-> 0, written |-> 0, fits |-> TRUE]

(* Settings, the queries that fill an array of the caller, and events share *)
(* no state, so a behaviour is about one of them.                           *)
Init ==
    /\ side \in {"settings", "matrix", "channels", "events"}
    /\ roaming_capa = Empty /\ vouched = TRUE
    /\ offered \in IF side = "settings" THEN Lists ELSE {Empty}
    /\ stored = Empty /\ vetted = TRUE
    /\ roaming = FALSE
    /\ keepalive = {}
    /\ matrix = NoArray(0) /\ channels = NoArray(0)
    /\ EventsInit

-----------------------------------------------------------------------------
(* GetFeatureSetCommand for WIFI_ATTRIBUTE_ROAMING_CAPABILITIES: the values *)
(* of the reply, in order, each clamped to what the HAL can pass on; where  *)
(* the reply has none, the structure keeps what the caller had in it.       *)

Clamp(v, max) == IF v > max THEN max ELSE v

Capabilities(given, k) ==
    [blacklist |-> IF k > 0 THEN Clamp(offered.blacklist, MaxBlacklist) ELSE given.blacklist,
     whitelist |-> IF k > 1 THEN Clamp(offered.whitelist, MaxWhitelist) ELSE given.whitelist]

(* A cache of two zeros counts as empty; a failed request leaves it alone.  *)
(* A request that succeeds with k of the two values, or with a reply that   *)
(* is skipped, k = 0, fills it all the same.                                *)
wifi_get_roaming_capabilities(given, k) ==
    /\ roaming_capa = Empty
    /\ roaming_capa' = Capabilities(given, k)
    /\ vouched' = (k = 2)
    /\ UNCHANGED <<lists, roaming, keepalive, others>>

(* Otherwise WIFI_ERROR_NOT_SUPPORTED.                                      *)
Supported(config) ==
    /\ config.blacklist <= roaming_capa.blacklist
    /\ config.whitelist <= roaming_capa.whitelist

wifi_configure_roaming(config) ==
    /\ Supported(config)
    /\ stored' = config
    /\ vetted' = vouched
    /\ UNCHANGED <<cache, offered, roaming, keepalive, others>>

wifi_enable_firmware_roaming(on) ==
    /\ roaming' = on
    /\ UNCHANGED <<cache, lists, keepalive, others>>

-----------------------------------------------------------------------------
(* Keep-alive packets: the index goes to the driver in one byte.            *)

ValidIndex(index) == index > 0 /\ index <= NAvailId

wifi_start_sending_offloaded_packet(index) ==
    /\ ValidIndex(index)
    /\ keepalive' = keepalive \cup {index % 256}
    /\ UNCHANGED <<cache, lists, roaming, others>>

wifi_stop_sending_offloaded_packet(index) ==
    /\ ValidIndex(index)
    /\ keepalive' = keepalive \ {index % 256}
    /\ UNCHANGED <<cache, lists, roaming, others>>

-----------------------------------------------------------------------------
(* GetFeatureSetCommand for WIFI_ATTRIBUTE_NUM_FEATURE_SET: one pass over   *)
(* the attributes of the reply, each an announced number ("num"), a u32, or *)
(* the next feature set, or the list of channels ("set").                   *)
Words == 0..(2 * IntMax + 1)
Attributes == {[type |-> "num", value |-> v] : v \in Words}
                \cup {[type |-> "set", value |-> 0]}
Replies == UNION {[1..n -> Attributes] : n \in 0..MaxAttributes}

(* A u32 that is assigned to an int, and an int that is used as a size.     *)
ToInt(v)  == IF v > IntMax THEN v - 2 * (IntMax + 1) ELSE v
ToWord(n) == IF n < 0 THEN n + 2 * (IntMax + 1) ELSE n

Announced(m, v, size) ==
    [m EXCEPT !.size = size, !.fits = @ /\ v <= IntMax]

(* A fault: the announced number is not clamped.                            *)
ReadAttributeUnclamped(m, a) ==
    IF a.type = "num" THEN Announced(m, a.value, ToInt(a.value))
    ELSE IF m.written < m.size THEN [m EXCEPT !.written = @ + 1]
    ELSE m

(* An array size of 0 counts as no limit.                                   *)
ReadAttribute(m, a) ==
    IF a.type = "num"
    THEN Announced(m, a.value,
                   IF m.max # 0 THEN Clamp(ToInt(a.value), m.max) ELSE ToInt(a.value))
    ELSE IF m.written < m.size THEN [m EXCEPT !.written = @ + 1]
    ELSE m

wifi_get_concurrency_matrix(max, reply) ==
    /\ matrix' = FoldLeft(ReadAttribute, NoArray(max), reply)
    /\ UNCHANGED <<side, settings, channels, events>>

Larger(a, b) == IF a > b THEN a ELSE b

(* GetChannelListCommand: a number, clamped, and the list, of which that    *)
(* many are copied; a list before the number is passed over.                *)
ReadChannels(m, a) ==
    IF a.type = "num" THEN Announced(m, a.value, Clamp(ToInt(a.value), m.max))
    ELSE IF m.size # 0 THEN [m EXCEPT !.written = Larger(@, ToWord(m.size))]
    ELSE m

wifi_get_valid_channels(max, reply) ==
    /\ channels' = FoldLeft(ReadChannels, NoArray(max), reply)
    /\ UNCHANGED <<side, settings, matrix, events>>

-----------------------------------------------------------------------------
(* The driver is loaded again, maybe another one: it has lost what it was   *)
(* told, and the HAL still has its cache.                                   *)
DriverReloads ==
    /\ offered' \in Lists
    /\ stored' = Empty /\ vetted' = TRUE
    /\ roaming' = FALSE
    /\ keepalive' = {}
    /\ vouched' = (roaming_capa = Empty)
    /\ UNCHANGED <<roaming_capa, others>>

(* A fault: hal_info is not cleared.                                        *)
HalKeepsCache ==
    /\ vouched' = TRUE
    /\ UNCHANGED <<roaming_capa, lists, roaming, keepalive, others>>

(* wifi_cleanup and wifi_initialize, which clears hal_info.  The driver     *)
(* hears nothing of it.                                                     *)
HalRestarts ==
    /\ roaming_capa' = Empty /\ vouched' = TRUE
    /\ UNCHANGED <<lists, roaming, keepalive, others>>

Settings ==
    \/ \E given \in Lists, k \in 0..2 : wifi_get_roaming_capabilities(given, k)
    \/ \E config \in Lists : wifi_configure_roaming(config)
    \/ \E on \in BOOLEAN : wifi_enable_firmware_roaming(on)
    \/ \E index \in 0..(NAvailId + 1) :
          \/ wifi_start_sending_offloaded_packet(index)
          \/ wifi_stop_sending_offloaded_packet(index)
    \/ DriverReloads
    \/ HalRestarts

Queries ==
    \E max \in MatrixSizes, reply \in Replies :
        \/ side = "matrix" /\ wifi_get_concurrency_matrix(max, reply)
        \/ side = "channels" /\ wifi_get_valid_channels(max, reply)

Next ==
    \/ side = "settings" /\ Settings
    \/ Queries
    \/ side = "events" /\ EventsNext /\ UNCHANGED <<side, settings, matrix, channels>>

Spec == Init /\ [][Next]_vars

-----------------------------------------------------------------------------
(* A roaming list that was vetted with a whole answer of the driver that is *)
(* loaded fits that driver, over reloads of the driver and restarts of the  *)
(* HAL in any order: a restart of the HAL leaves no earlier driver's answer *)
(* behind.  Of a cache that outlives its driver, or that was filled by a    *)
(* success without both values, nothing is said.                            *)
ListsFit ==
    vetted => /\ stored.blacklist <= offered.blacklist
              /\ stored.whitelist <= offered.whitelist

(* The concurrency matrix stays within the caller's array unless its size   *)
(* was given as 0, whatever numbers the driver announces and in whichever   *)
(* order; the channel list does as long as the numbers fit an int.          *)
RepliesInArray ==
    /\ matrix.max # 0 => matrix.written <= matrix.max
    /\ channels.fits => channels.written <= channels.max
=============================================================================
