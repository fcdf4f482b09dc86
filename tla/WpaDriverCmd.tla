---------------------------- MODULE WpaDriverCmd ----------------------------
(***************************************************************************)
(* The "DRIVER ..." commands of wpa_supplicant_8_lib: one call of          *)
(* wpa_driver_nl80211_driver_cmd runs to its end on the supplicant's only  *)
(* thread, except that MTK-ACS polls the driver and sleeps between polls.  *)
(* A command changes the P2P channels of the Wi-Fi Display sink, the       *)
(* concurrency flags of all interfaces, the country, the interface flags,  *)
(* and drv_errors, the count of consecutive private commands that failed.  *)
(* Everything is compiled in (CONFIG_MTK_WFD_SINK, CONFIG_MTK_P2P_SIGMA,   *)
(* CONFIG_MTK_LTE_COEX).  Commands that only set the firmware are in       *)
(* WpaFirmware, GET_STA_STATISTICS is in WpaStatistics.                    *)
(***************************************************************************)
EXTENDS Integers, FiniteSets, WpaFirmware, WpaStatistics

CONSTANTS
    Ifaces,         \* the interfaces the supplicant may have
    Main,           \* drv->first_bss
    Clients,        \* what may happen in a behaviour: commands, and the
                    \* supplicant's own "link" and "iface"
    Freqs,          \* the frequencies of links and of " freq=" arguments
    ConfClasses,    \* the values of conf->p2p_oper_reg_class
    ConfChannels,   \* the values of conf->p2p_oper_channel
    Countries,      \* country codes
    AcsChannels,    \* the 2.4 GHz channels a driver may report as available
    DrvErrors,      \* DRV_NUMBER_SEQUENTIAL_ERRORS
    MaxStreak       \* bound: private commands failing in a row

ASSUME CmdAssumption ==
    /\ Main \in Ifaces
    /\ Freqs \subseteq Nat \ {0}
    /\ ConfClasses \subseteq Nat /\ ConfChannels \subseteq Nat
    /\ AcsChannels \subseteq 1..14
    /\ DrvErrors \in Nat /\ MaxStreak \in Nat

VARIABLES
    client,         \* what happens in this behaviour
    p2p,            \* whether global->p2p is there
    conf,           \* the configured operating class and channel, 0 if unset
    sink,           \* p2p->op_*, p2p->channels, cfg_op_channel; freq is auxiliary
    links,          \* the network each interface is on
    ifaces,         \* global->ifaces
    late,           \* auxiliary: the interfaces no mcc command has seen
    conc,           \* num_multichan_concurrent and WPA_DRIVER_FLAGS_P2P_CONCURRENT
    concOps,        \* p2p->cfg->concurrent_operations
    country,        \* the driver's country
    regdom,         \* the country each interface was last notified of
    up,             \* whether Main is up
    told,           \* the last CTRL-EVENT-DRIVER-STATE
    drv_errors,
    streak,         \* auxiliary: private commands that failed since one succeeded
    acs             \* the MTK-ACS command in progress, or the last one

fixed == <<client, p2p, conf, firmware, promised, statistics>>
radio == <<fixed, sink>>
flags == <<late, conc, concOps>>
vars == <<radio, links, ifaces, flags, country, regdom, up, told,
          drv_errors, streak, acs>>

None == [mode |-> "none", freq |-> 0]
Links == {None} \cup [mode : {"INFRA", "GO"}, freq : Freqs]

(* cfg->channels, the channels the supplicant found in the driver's modes.  *)
CfgChannels == ({81} \X (1..11)) \cup ({115} \X {36, 40, 44, 48})

-----------------------------------------------------------------------------
(* Frequencies and channels.                                                *)

(* The ranges of priv_p2p_freq_to_channel; only those with a grid are       *)
(* tested for being a multiple of 5 MHz from the base.                      *)
Bands == {
    [first |-> 2412, last |-> 2472, base |-> 2407, class |-> 81,  grid |-> TRUE],
    [first |-> 2484, last |-> 2484, base |-> 2414, class |-> 82,  grid |-> TRUE],
    [first |-> 5180, last |-> 5240, base |-> 5000, class |-> 115, grid |-> TRUE],
    [first |-> 5260, last |-> 5320, base |-> 5000, class |-> 118, grid |-> FALSE],
    [first |-> 5500, last |-> 5700, base |-> 5000, class |-> 121, grid |-> FALSE],
    [first |-> 5745, last |-> 5805, base |-> 5000, class |-> 124, grid |-> TRUE],
    [first |-> 5825, last |-> 5845, base |-> 5000, class |-> 125, grid |-> FALSE]}

(* A fault: channel 14 is counted from the base of channels 1 to 13.        *)
OneBase(f) ==
    {<<b.class, (f - (IF f < 5000 THEN 2407 ELSE 5000)) \div 5>> :
        b \in {x \in Bands : x.first <= f /\ f <= x.last}}

(* The class and channel of f; none when the function returns -1.           *)
priv_p2p_freq_to_channel(f) ==
    {<<b.class, (f - b.base) \div 5>> :
        b \in {x \in Bands : /\ x.first <= f /\ f <= x.last
                             /\ x.grid => (f - x.base) % 5 = 0}}

(* What the caller finds in op_reg_class and op_channel, 0 beforehand; it   *)
(* does not look at the result.                                             *)
Converted(f) ==
    LET found == priv_p2p_freq_to_channel(f)
    IN  IF found = {} THEN <<0, 0>> ELSE CHOOSE c \in found : TRUE

(* The frequency in use by the first interface on a network, in some order  *)
(* of the radio's list; 0 if there is none, as when wpa_drv_get_bssid fails *)
(* (on the interfaces in unknown) or memory is short.                       *)
mtk_get_shared_radio_freqs(unknown, memory) ==
    LET used == {i \in ifaces : /\ links[i] # None
                                /\ links[i].mode = "INFRA" => i \notin unknown}
    IN  IF used = {} \/ ~memory THEN {0} ELSE {links[i].freq : i \in used}

-----------------------------------------------------------------------------
(* p2p_wfd_sink_config_scc.                                                 *)

(* The operating channel to go back to.                                     *)
MccChannels ==
    IF conf[1] # 0 /\ conf[2] # 0 THEN {conf}
    ELSE {<<81, 1 + r * 5>> : r \in 0..2}

(* A fault: the full channel list is not restored.                          *)
ConfigMccKeepsList ==
    \E c \in MccChannels :
        sink' = [sink EXCEPT !.op = c, !.freq = 0,
                             !.cfgOp = conf[1] # 0 /\ conf[2] # 0]

(* Get back to MCC.                                                         *)
ConfigMcc ==
    \E c \in MccChannels :
        sink' = [op |-> c, channels |-> CfgChannels,
                 cfgOp |-> conf[1] # 0 /\ conf[2] # 0, freq |-> 0]

(* Only the channel of f is left.                                           *)
ConfigScc(f) ==
    sink' = [sink EXCEPT !.op = Converted(f), !.channels = {Converted(f)}, !.freq = f]

p2p_wfd_sink_config_scc(f) ==
    \/ ~p2p /\ UNCHANGED sink
    \/ p2p /\ f # 0 /\ ConfigScc(f)
    \/ p2p /\ f = 0 /\ ConfigMcc

(* Same channel as the network in use, if there is one.                     *)
FollowSharedFreq ==
    \E unknown \in SUBSET ifaces, memory \in BOOLEAN :
        \E f \in mtk_get_shared_radio_freqs(unknown, memory) :
            p2p_wfd_sink_config_scc(f)

-----------------------------------------------------------------------------
(* Private commands: handled = 0, passed to the driver with an ioctl.       *)

wpa_driver_send_hang_msg ==
    IF drv_errors + 1 > DrvErrors THEN 0 ELSE drv_errors + 1

(* A fault: a success does not end the run of errors.                       *)
PrivateCommandNoReset ==
    \/ streak' = 0 /\ UNCHANGED drv_errors
    \/ streak < MaxStreak /\ streak' = streak + 1 /\ drv_errors' = wpa_driver_send_hang_msg

PrivateCommand ==
    \/ /\ drv_errors' = 0
       /\ streak' = 0
    \/ /\ streak < MaxStreak
       /\ drv_errors' = wpa_driver_send_hang_msg
       /\ streak' = streak + 1

Idle(cmd) == cmd \in client /\ ~acs.busy

(* SETSUSPENDMODE and every command not named in the code.                  *)
Transparent ==
    /\ Idle("transparent")
    /\ PrivateCommand
    /\ UNCHANGED <<radio, links, ifaces, flags, country, regdom, up, told, acs>>

(* MIRACAST value, with a " freq=" argument or without; then passed on.     *)
Miracast(value, args) ==
    /\ Idle("MIRACAST")
    /\ CASE value = 2 /\ args # {} -> \E f \in args : p2p_wfd_sink_config_scc(f)
         [] value > 2 -> UNCHANGED sink
         [] OTHER -> FollowSharedFreq
    /\ PrivateCommand
    /\ UNCHANGED <<fixed, links, ifaces, flags, country, regdom, up, told, acs>>

UseMcc(mcc) ==
    /\ Idle("p2p_use_mcc")
    /\ IF mcc THEN p2p_wfd_sink_config_scc(0) ELSE FollowSharedFreq
    /\ UNCHANGED <<fixed, links, ifaces, flags, country, regdom, up, told,
                   drv_errors, streak, acs>>

-----------------------------------------------------------------------------
(* Commands for all interfaces.                                             *)

Concurrency(on) == [num |-> IF on THEN 2 ELSE 0, flag |-> on]

(* A fault: the loop ends at the interface that got the command.            *)
MccMainOnly(on) == [conc EXCEPT ![Main] = Concurrency(on)]

MccAllIfaces(on) == [i \in Ifaces |-> IF i \in ifaces THEN Concurrency(on) ELSE conc[i]]

Mcc(on) ==
    /\ Idle("mcc")
    /\ conc' = MccAllIfaces(on)
    /\ concOps' = IF p2p THEN on ELSE concOps
    /\ late' = late \ ifaces
    /\ UNCHANGED <<radio, links, ifaces, country, regdom, up, told, drv_errors, streak, acs>>

(* A fault: the interfaces are told before the driver has agreed.           *)
CountryToldFirst(c) ==
    /\ Idle("COUNTRY")
    /\ country' \in {c, country}
    /\ regdom' = [i \in Ifaces |-> IF i \in ifaces THEN c ELSE regdom[i]]
    /\ UNCHANGED <<radio, links, ifaces, flags, up, told, drv_errors, streak, acs>>

(* COUNTRY with two letters: the interfaces are notified if the driver      *)
(* takes it; any other length is ignored.                                   *)
Country(c) ==
    /\ Idle("COUNTRY")
    /\ country' = c
    /\ regdom' = [i \in Ifaces |-> IF i \in ifaces THEN c ELSE regdom[i]]
    /\ UNCHANGED <<radio, links, ifaces, flags, up, told, drv_errors, streak, acs>>

-----------------------------------------------------------------------------
(* Interface flags of Main; linux_set_iface_flags may fail.                 *)

Start ==
    /\ Idle("start")
    /\ \/ up' = TRUE /\ told' = "STARTED"
       \/ UNCHANGED <<up, told>>
    /\ UNCHANGED <<radio, links, ifaces, flags, country, regdom, drv_errors, streak, acs>>

(* A fault: a failure to take the interface down is announced all the same. *)
DownAnnounced == up' \in {up, FALSE} /\ told' = "STOPPED"

GoesDown ==
    \/ up' = FALSE /\ told' = "STOPPED"
    \/ UNCHANGED <<up, told>>

(* Deauthenticates first, and goes on if that fails.                        *)
Stop ==
    /\ Idle("stop")
    /\ links' \in {links, [links EXCEPT ![Main] = None]}
    /\ GoesDown
    /\ UNCHANGED <<radio, ifaces, flags, country, regdom, drv_errors, streak, acs>>

-----------------------------------------------------------------------------
(* MTK-ACS: wpa_driver_do_mtk_acs.                                          *)

MaxWaits == 5

AcsStarts ==
    /\ Idle("MTK-ACS")
    /\ acs' = [busy |-> TRUE, wait_cnt |-> 0, seen |-> {}, complete |-> FALSE, answer |-> 0]
    /\ UNCHANGED <<radio, links, ifaces, flags, country, regdom, up, told,
                   drv_errors, streak>>

(* A fault: a list is used before the scan behind it is complete.           *)
AcsTakesAnyList(mask, complete) ==
    [acs EXCEPT !.busy = FALSE, !.seen = mask, !.complete = complete,
        !.answer = IF mask = {} THEN 0
                   ELSE CHOOSE c \in mask : \A d \in mask : c <= d]

(* A fault: the count of waits starts again before it is compared.          *)
AcsWaitsOn(mask, complete) ==
    IF complete THEN AcsTakesAnyList(mask, complete)
    ELSE [acs EXCEPT !.wait_cnt = (@ + 1) % MaxWaits, !.seen = mask]

(* One poll: the list counts once BIT(31) says that the scan is complete.   *)
AcsPolled(mask, complete) ==
    IF complete
      THEN [acs EXCEPT !.busy = FALSE, !.seen = mask, !.complete = TRUE,
                !.answer = IF mask = {} THEN 0
                           ELSE CHOOSE c \in mask : \A d \in mask : c <= d]
      ELSE [acs EXCEPT !.wait_cnt = @ + 1, !.busy = acs.wait_cnt + 1 <= MaxWaits,
                       !.seen = mask]

AcsPolls ==
    /\ acs.busy
    /\ \E mask \in SUBSET AcsChannels, complete \in BOOLEAN : acs' = AcsPolled(mask, complete)
    /\ UNCHANGED <<radio, links, ifaces, flags, country, regdom, up, told,
                   drv_errors, streak>>

-----------------------------------------------------------------------------
(* What the supplicant does by itself.                                      *)

(* An interface joins or leaves a network.                                  *)
LinkChanges(i) ==
    /\ Idle("link")
    /\ i \in ifaces
    /\ \E l \in Links : /\ (i = Main /\ ~up) => l = None
                        /\ links' = [links EXCEPT ![i] = l]
    /\ UNCHANGED <<radio, ifaces, flags, country, regdom, up, told, drv_errors, streak, acs>>

(* A new interface takes its flags and its country from the driver.         *)
IfaceAdded(i) ==
    /\ Idle("iface")
    /\ i \notin ifaces
    /\ ifaces' = ifaces \cup {i}
    /\ late' = late \cup {i}
    /\ \E b \in BOOLEAN : conc' = [conc EXCEPT ![i] = [num |-> 0, flag |-> b]]
    /\ regdom' = [regdom EXCEPT ![i] = country]
    /\ UNCHANGED <<radio, links, concOps, country, up, told, drv_errors, streak, acs>>

IfaceRemoved(i) ==
    /\ Idle("iface")
    /\ i \in ifaces \ {Main}
    /\ ifaces' = ifaces \ {i}
    /\ links' = [links EXCEPT ![i] = None]
    /\ UNCHANGED <<radio, flags, country, regdom, up, told, drv_errors, streak, acs>>

-----------------------------------------------------------------------------
(* Commands that only put a setting into the firmware.                      *)
FirmwareCommand ==
    /\ \/ Idle("rxfilter") /\ RxFilterCommand
       \/ Idle("hotspot") /\ HotspotCommand
       \/ Idle("p2p_ps") /\ PowerSaveCommand
    /\ UNCHANGED <<client, p2p, conf, statistics, sink, links, ifaces, flags, country,
                   regdom, up, told, drv_errors, streak, acs>>

StatisticsCommand ==
    /\ Idle("GET_STA_STATISTICS")
    /\ StatisticsNext(p2p)
    /\ UNCHANGED <<client, p2p, conf, firmware, promised, sink, links, ifaces, flags,
                   country, regdom, up, told, drv_errors, streak, acs>>

-----------------------------------------------------------------------------
Init ==
    /\ FirmwareInit
    /\ StatisticsInit
    /\ client \in Clients
    /\ p2p \in BOOLEAN
    /\ conf \in ConfClasses \X ConfChannels
    /\ "GET_STA_STATISTICS" \in client => conf = <<0, 0>>      \* not looked at
    /\ \E c \in MccChannels :
         sink = [op |-> c, channels |-> CfgChannels,
                 cfgOp |-> conf[1] # 0 /\ conf[2] # 0, freq |-> 0]
    /\ links = [i \in Ifaces |-> None]
    /\ ifaces = {Main}
    /\ late = Ifaces
    /\ conc = [i \in Ifaces |-> [num |-> 0, flag |-> FALSE]]
    /\ concOps = FALSE
    /\ country \in Countries
    /\ regdom = [i \in Ifaces |-> country]
    /\ up = TRUE
    /\ told = "none"
    /\ drv_errors = 0
    /\ streak = 0
    /\ acs = [busy |-> FALSE, wait_cnt |-> 0, seen |-> {}, complete |-> TRUE, answer |-> 0]

Next ==
    \/ Transparent
    \/ \E value \in 0..3 : Miracast(value, {})
    \/ \E f \in Freqs \cup {0} : Miracast(2, {f})
    \/ \E mcc \in BOOLEAN : UseMcc(mcc)
    \/ \E on \in BOOLEAN : Mcc(on)
    \/ \E c \in Countries : Country(c)
    \/ Start
    \/ Stop
    \/ AcsStarts
    \/ AcsPolls
    \/ FirmwareCommand
    \/ StatisticsCommand
    \/ \E i \in Ifaces : LinkChanges(i) \/ IfaceAdded(i) \/ IfaceRemoved(i)

Spec == Init /\ [][Next]_vars

(* Every poll of MTK-ACS is answered or fails, and its sleep ends.          *)
FairSpec == Spec /\ WF_vars(AcsPolls)

-----------------------------------------------------------------------------
(* Properties.                                                              *)

TypeOK ==
    /\ StatisticsTypeOK
    /\ client \in Clients /\ p2p \in BOOLEAN
    /\ sink.op \in Nat \X Nat
    /\ sink.channels \subseteq Nat \X Nat
    /\ links \in [Ifaces -> Links]
    /\ ifaces \subseteq Ifaces /\ Main \in ifaces
    /\ conc \in [Ifaces -> [num : {0, 2}, flag : BOOLEAN]]
    /\ country \in Countries /\ regdom \in [Ifaces -> Countries]
    /\ told \in {"none", "STARTED", "STOPPED"}
    /\ drv_errors \in 0..DrvErrors
    /\ acs.wait_cnt \in 0..(MaxWaits + 1)
    /\ acs.answer \in AcsChannels \cup {0}

(* Whatever sequence of MIRACAST and p2p_use_mcc commands came before, the  *)
(* list of P2P channels is the full one in MCC and holds only the operating *)
(* channel in SCC, and the operating channel is always on it.               *)
ListMatchesMode ==
    /\ sink.op \in sink.channels
    /\ sink.channels = IF sink.freq = 0 THEN CfgChannels ELSE {sink.op}

(* When a frequency was converted, the operating channel is the channel of  *)
(* that frequency, or none.  (Freqs holds frequencies of channels: the      *)
(* ranges without a grid would also turn 5262 into channel 52.)             *)
OpMatchesFrequency ==
    sink.freq # 0 /\ sink.op # <<0, 0>> =>
        sink.freq = CASE sink.op[1] = 81 -> 2407 + 5 * sink.op[2]
                      [] sink.op[1] = 82 -> 2414 + 5 * sink.op[2]
                      [] OTHER -> 5000 + 5 * sink.op[2]

(* Display sink: channel, channel list and frequency agree after any        *)
(* sequence of MIRACAST and p2p_use_mcc commands and changes of the links.  *)
SinkInStep == ListMatchesMode /\ OpMatchesFrequency

(* drv_errors counts the private commands that failed in a row, from 0      *)
(* again after each DRV_NUMBER_SEQUENTIAL_ERRORS + 1 of them; commands that *)
(* are handled in between do not disturb it.                                *)
ErrorsSequential == drv_errors = streak % (DrvErrors + 1)

(* Every interface that was there at an mcc command agrees with the P2P     *)
(* configuration on whether operation on two channels is on.                *)
ConcurrencyUniform ==
    \A i \in ifaces \ late :
        /\ conc[i].num = IF conc[i].flag THEN 2 ELSE 0
        /\ p2p => conc[i].flag = concOps

(* Every interface works with the channel list of the driver's country.     *)
CountryInStep == \A i \in ifaces : regdom[i] = country

(* The framework's view of the driver, from the last state event, is the    *)
(* state of the interface.                                                  *)
StateTold == told # "none" => up = (told = "STARTED")

(* Nobody works with a state the driver is not in: neither the interfaces   *)
(* with another country nor the framework with another power state, also    *)
(* when the driver refuses a country or one half of stop fails.             *)
DriverAsTold == CountryInStep /\ StateTold

(* MTK-ACS answers with a channel only if a completed scan lists it, and    *)
(* with 0 only if such a scan lists none or six polls found none complete.  *)
AcsSound ==
    ~acs.busy =>
        IF acs.answer # 0 THEN acs.complete /\ acs.answer \in acs.seen
        ELSE IF acs.complete THEN acs.seen = {} ELSE acs.wait_cnt > MaxWaits

(* MTK-ACS, which blocks the whole supplicant, returns.                     *)
AcsReturns == acs.busy ~> ~acs.busy
=============================================================================
