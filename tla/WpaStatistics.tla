--------------------------- MODULE WpaStatistics ---------------------------
(***************************************************************************)
(* GET_STA_STATISTICS of wpa_supplicant_8_lib.  A client names a P2P peer  *)
(* by its device address, the driver knows the stations it talks to by the *)
(* address they transmit under: the library finds that address in what the *)
(* supplicant knows of its group and of its peers, asks the driver with a  *)
(* test-mode message whose answer may lack fields or not come, and prints  *)
(* the fields into the client's buffer.                                    *)
(***************************************************************************)
EXTENDS Integers, SequencesExt

CONSTANTS
    Peers,          \* P2P devices
    InterfaceIds,   \* tell the interface addresses of a device apart
    Fields,         \* fields of wpa_driver_sta_statistics_s
    LineLengths,    \* the lengths of the lines printed, in their order
    Buffers,        \* sizes of a client's buffer
    MaxQueries      \* bound: queries in a behaviour

ASSUME StatisticsAssumption ==
    /\ LineLengths \in Seq(Nat \ {0})
    /\ Buffers \subseteq Nat

VARIABLES
    peers,          \* p2p->devices: dev->interface_addr of each device found
    group,          \* current_ssid->mode, bssid, and the address that each peer
                    \* on the network transmits under
    query           \* the last query and its answer

statistics == <<peers, group, query>>

Device(p) == <<"device", p>>
Zero == <<"zero">>
AP   == <<"access point">>          \* a network that is not of P2P
NULL == <<"null">>

(* A device transmits under its own address or makes one up for a group,    *)
(* another one each time if it likes.                                       *)
Interfaces(p) == {<<"interface", p, id>> : id \in InterfaceIds}
Transmits(p)  == Interfaces(p) \cup {Device(p)}

NoGroup == [mode |-> "none", bssid |-> Zero, members |-> [p \in {} |-> NULL]]
Blank   == [f \in Fields |-> 0]

StatisticsTypeOK ==
    /\ DOMAIN peers \subseteq Peers
    /\ \A p \in DOMAIN peers : peers[p] \in Interfaces(p) \cup {Zero}
    /\ group.mode \in {"none", "INFRA", "GO"} /\ DOMAIN group.members \subseteq DOMAIN peers
    /\ query.n \in 0..MaxQueries
    /\ query.fields \in [Fields -> 0..MaxQueries]

StatisticsInit ==
    /\ peers = <<>>
    /\ group = NoGroup
    /\ query = [n |-> 0, peer |-> NULL, addr |-> NULL, under |-> NULL, outdated |-> FALSE,
                fields |-> Blank, buflen |-> 0, len |-> 0]

-----------------------------------------------------------------------------
(* What the supplicant knows (external).                                    *)

PeerFound(p) ==
    /\ p \notin DOMAIN peers
    /\ peers' = [q \in DOMAIN peers \cup {p} |-> IF q = p THEN Zero ELSE peers[q]]
    /\ UNCHANGED <<group, query>>

(* A group is formed with this device as owner, an access point or the      *)
(* group of a peer is joined, or the network is left.                       *)
GroupChanges ==
    /\ \/ group' \in {NoGroup, [NoGroup EXCEPT !.mode = "GO"],
                      [NoGroup EXCEPT !.mode = "INFRA", !.bssid = AP]}
       \/ \E p \in DOMAIN peers : \E a \in Transmits(p) :
             group' = [mode |-> "INFRA", bssid |-> a, members |-> [q \in {p} |-> a]]
    /\ UNCHANGED <<peers, query>>

(* NL80211_CMD_NEW_STA: a peer joins the group of this device.  Its         *)
(* interface_addr is filled in if that is not the device address.           *)
PeerJoins(p, a) ==
    /\ group.mode = "GO"
    /\ p \in DOMAIN peers \ DOMAIN group.members
    /\ peers' = [q \in DOMAIN peers |-> IF q = p /\ a # Device(p) THEN a ELSE peers[q]]
    /\ group' = [mode |-> "GO", bssid |-> group.bssid,
                 members |-> [q \in DOMAIN group.members \cup {p} |->
                                IF q = p THEN a ELSE group.members[q]]]
    /\ UNCHANGED query

-----------------------------------------------------------------------------
(* The query.                                                               *)

(* A fault: the owner of the group is not asked for by the BSSID.           *)
MacOfDevice(p, p2p) ==
    IF ~p2p \/ group.mode = "none" \/ p \notin DOMAIN peers THEN NULL
    ELSE IF peers[p] \notin {Device(p), Zero} THEN peers[p]
    ELSE NULL

(* mtk_p2p_get_device included: a device that was not found has no entry.   *)
wpas_p2p_get_sta_mac(p, p2p) ==
    IF ~p2p \/ group.mode = "none" \/ p \notin DOMAIN peers THEN NULL
    ELSE IF group.mode = "INFRA" /\ group.bssid \notin {Device(p), Zero} THEN group.bssid
    ELSE IF peers[p] \notin {Device(p), Zero} THEN peers[p]
    ELSE NULL

(* A fault: the structure is not cleared before the query.                  *)
FilledOver(present) ==
    [f \in Fields |-> IF f \in present THEN query.n + 1 ELSE query.fields[f]]

(* The fields the driver's answer has, written over a cleared structure; a  *)
(* field is the number of the query whose answer it came with.              *)
testmode_sta_statistics_handler(present) ==
    [f \in Fields |-> IF f \in present THEN query.n + 1 ELSE Blank[f]]

(* A fault: a line that fills the buffer to the last byte is kept.          *)
PrintsToTheEnd(buflen) ==
    LET line(pos, ret) == IF pos = -1 \/ ret > buflen - pos THEN -1 ELSE pos + ret
        end == FoldLeft(line, 0, LineLengths)
    IN  IF end = -1 THEN 0 ELSE end

(* Every line is refused that leaves no room for the NUL, and with it all.  *)
print_sta_statistics(buflen) ==
    LET line(pos, ret) == IF pos = -1 \/ ret >= buflen - pos THEN -1 ELSE pos + ret
        end == FoldLeft(line, 0, LineLengths)
    IN  IF end = -1 THEN 0 ELSE end

(* A peer transmits under its device address now, and the supplicant still  *)
(* has the interface address of an earlier group.                           *)
Outdated(p) ==
    /\ p \in DOMAIN group.members
    /\ group.members[p] = Device(p) /\ peers[p] # Zero

(* The query sent: mac, or else the address the client gave; refused, with  *)
(* nothing printed, if the address does not parse or the driver does not    *)
(* take it.                                                                 *)
wpa_driver_get_sta_statistics(p, p2p) ==
    /\ query.n < MaxQueries
    /\ \E buflen \in Buffers, present \in SUBSET Fields :
         LET mac == wpas_p2p_get_sta_mac(p, p2p)
         IN  query' = [n |-> query.n + 1, peer |-> p,
                       addr |-> IF mac # NULL THEN mac ELSE Device(p),
                       under |-> IF p \in DOMAIN group.members
                                 THEN group.members[p] ELSE NULL,
                       outdated |-> Outdated(p),
                       fields |-> testmode_sta_statistics_handler(present),
                       buflen |-> buflen, len |-> print_sta_statistics(buflen)]
    /\ UNCHANGED <<peers, group>>

StatisticsNext(p2p) ==
    \/ \E p \in Peers :
         \/ p2p /\ PeerFound(p)
         \/ \E a \in Transmits(p) : PeerJoins(p, a)
         \/ wpa_driver_get_sta_statistics(p, p2p)
    \/ GroupChanges

-----------------------------------------------------------------------------
(* Properties.                                                              *)

(* "we should use interface MAC address instead of device MAC": a peer that *)
(* is on this device's network is asked for by the address it transmits     *)
(* under in this group, in whichever role, in whatever order peers were     *)
(* found and groups formed.  The exception is a peer that transmits under   *)
(* its device address and had another one in an earlier group: it is asked  *)
(* for by that one.                                                         *)
AsksForTransmitter ==
    query.under # NULL /\ ~query.outdated => query.addr = query.under

(* A query's answer holds values of this query and cleared fields, never    *)
(* those of an earlier station.                                             *)
StatisticsFresh == \A f \in Fields : query.fields[f] \in {0, query.n}

(* The length of all of the lines.                                          *)
TotalLength == FoldLeft(+, 0, LineLengths)

(* What the client gets is all of the lines, with room for the NUL, or      *)
(* nothing, and nothing only if they do not fit.                            *)
PrintedWhole ==
    query.n > 0 => query.len = IF TotalLength < query.buflen THEN TotalLength ELSE 0

(* What GET_STA_STATISTICS answers is of this query only, and all of it or  *)
(* nothing, whatever was asked before and however small the buffer.         *)
AnswerSound == StatisticsFresh /\ PrintedWhole
=============================================================================
