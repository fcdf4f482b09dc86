---------------------------- MODULE WpaFirmware ----------------------------
(***************************************************************************)
(* The driver commands of wpa_supplicant_8_lib that only put a setting     *)
(* into the firmware, each with one test-mode message: receive filters,    *)
(* the hotspot's block list, and the power saving of P2P.  The firmware    *)
(* takes a message or refuses it; some commands hand the refusal on to the *)
(* client and others answer with success all the same.  Every command is   *)
(* compiled in (CONFIG_HOTSPOT_MGR_SUPPORT, CONFIG_MTK_P2P_SIGMA).         *)
(***************************************************************************)
EXTENDS Integers

CONSTANTS
    WordSize,       \* the number of values of a u32
    Filters,        \* what clients give as the index of a receive filter
    Stations,       \* addresses a hotspot may block
    CtWindows,      \* what clients give as the client traffic window
    NoaValues       \* the count, interval or duration of a notice of absence

ASSUME FirmwareAssumption ==
    /\ WordSize \in Nat /\ WordSize > \h00900400
    /\ Filters \subseteq 0..(WordSize - 1)
    /\ CtWindows \subseteq Nat
    /\ NoaValues \subseteq Nat

VARIABLES
    firmware,       \* the settings in force
    promised        \* auxiliary: what the client was told is in force; noa and
                    \* opps hold the last setting, if there was one; sure is
                    \* whether the firmware took every rxfilter command and no
                    \* index was larger than a byte

(* Indices of wpas_p2p_sigma_test_mode.                                     *)
Sleep == 106
Opps  == 107
PowerSave == 108

FirmwareInit ==
    /\ firmware = [filters |-> {}, filtering |-> FALSE, blocked |-> {},
                   max |-> 0, noa |-> <<0, 0, 0>>,
                   sigma |-> [x \in {Sleep, Opps, PowerSave} |-> 0]]
    /\ promised = [filters |-> {}, filtering |-> FALSE, sure |-> TRUE,
                   blocked |-> {}, unblocked |-> {}, noa |-> {}, opps |-> {}]

(* wpa_driver_nl80211_testmode failed, or an argument was not usable.       *)
Refused == UNCHANGED <<firmware, promised>>

-----------------------------------------------------------------------------
(* Receive filters: the operation and the index share one word.             *)

(* A fault: remove uses the base of add.                                    *)
OneFilterBase ==
    [stop |-> \h00900000, start |-> \h00900100, add |-> \h00900200, remove |-> \h00900200]

FilterBase ==
    [stop |-> \h00900000, start |-> \h00900100, add |-> \h00900200, remove |-> \h00900300]

(* A u32: a large index runs into the operation, or wraps around.           *)
FilterWord(op, idx) ==
    LET word == FilterBase[op] + idx IN IF word < WordSize THEN word ELSE word - WordSize

(* What the firmware makes of the word (external).                          *)
SwCmd(word) ==
    LET op  == word \div 256
        idx == word % 256
    IN  CASE op = \h9000 -> [firmware EXCEPT !.filtering = FALSE]
          [] op = \h9001 -> [firmware EXCEPT !.filtering = TRUE]
          [] op = \h9002 -> [firmware EXCEPT !.filters = @ \cup {idx}]
          [] op = \h9003 -> [firmware EXCEPT !.filters = @ \ {idx}]
          [] OTHER -> firmware

(* The result is 0, whether or not the firmware took the message.           *)
wpa_driver_nl80211_driver_sw_cmd(word, answered, byte) ==
    \/ firmware' = SwCmd(word) /\ promised' = [answered EXCEPT !.sure = @ /\ byte]
    \/ firmware' = firmware /\ promised' = [answered EXCEPT !.sure = FALSE]

RxFilterSwitch(op) ==
    wpa_driver_nl80211_driver_sw_cmd(FilterBase[op],
        [promised EXCEPT !.filtering = op = "start"], TRUE)

RxFilterAdd(idx) ==
    wpa_driver_nl80211_driver_sw_cmd(FilterWord("add", idx),
        [promised EXCEPT !.filters = @ \cup {idx}], idx < 256)

RxFilterRemove(idx) ==
    wpa_driver_nl80211_driver_sw_cmd(FilterWord("remove", idx),
        [promised EXCEPT !.filters = @ \ {idx}], idx < 256)

-----------------------------------------------------------------------------
(* Hotspot.                                                                 *)

Block(s, blocked) ==
    firmware' = [firmware EXCEPT !.blocked = IF blocked THEN @ \cup {s} ELSE @ \ {s}]

PromisedBlock(s, blocked) ==
    promised' = [promised EXCEPT !.blocked = IF blocked THEN @ \cup {s} ELSE @ \ {s},
                                 !.unblocked = IF blocked THEN @ \ {s} ELSE @ \cup {s}]

wpa_driver_sta_block(s) ==
    \/ Block(s, TRUE) /\ PromisedBlock(s, TRUE)
    \/ Refused

wpa_driver_sta_unblock(s) ==
    \/ Block(s, FALSE) /\ PromisedBlock(s, FALSE)
    \/ Refused

(* Answered with -1 whether the firmware took it or not.                    *)
wpa_driver_set_max_client(value) ==
    \/ firmware' = [firmware EXCEPT !.max = value] /\ UNCHANGED promised
    \/ Refused

-----------------------------------------------------------------------------
(* P2P power saving.                                                        *)

wpas_p2p_sigma_test_mode(index, value) ==
    firmware' = [firmware EXCEPT !.sigma[index] = value]

(* p2p_set_opps with its address argument writes the register of            *)
(* P2P_SET_PS; a refusal is ignored.                                        *)
p2p_ctrl_iface_set_opps(CTWin) ==
    \/ /\ wpas_p2p_sigma_test_mode(Opps, CTWin)
       /\ promised' = [promised EXCEPT !.opps = {}]
    \/ Refused

p2p_ctrl_iface_set_power_save(value) ==
    \/ wpas_p2p_sigma_test_mode(PowerSave, value) /\ UNCHANGED promised
    \/ Refused

p2p_ctrl_iface_set_sleep ==
    \/ wpas_p2p_sigma_test_mode(Sleep, 0) /\ UNCHANGED promised
    \/ Refused

(* P2P_SET_NOA with three arguments.                                        *)
p2p_ctrl_iface_set_noa(noa) ==
    \/ /\ firmware' = [firmware EXCEPT !.noa = noa]
       /\ promised' = [promised EXCEPT !.noa = {noa}]
    \/ Refused

Bit7(value) == (value \div 128) % 2 = 1

(* A fault: BIT(7) is set whatever the command says.                        *)
OppsAlwaysOn(enable, ctw) == IF Bit7(ctw) THEN ctw ELSE ctw + 128

(* ctw |= BIT(7), which switches opportunistic power saving on; ctw is not  *)
(* masked.                                                                  *)
OppsValue(enable, ctw) == IF ~enable \/ Bit7(ctw) THEN ctw ELSE ctw + 128

(* P2P_SET_PS with three arguments, the first of which is not used.         *)
p2p_ctrl_iface_set_ps(enable, ctw) ==
    \/ /\ wpas_p2p_sigma_test_mode(Opps, OppsValue(enable, ctw))
       /\ promised' = [promised EXCEPT !.opps = {[on |-> enable, ctw |-> ctw]}]
    \/ Refused

-----------------------------------------------------------------------------
RxFilterCommand ==
    \/ \E op \in {"start", "stop"} : RxFilterSwitch(op)
    \/ \E idx \in Filters : RxFilterAdd(idx) \/ RxFilterRemove(idx)

HotspotCommand ==
    \/ \E s \in Stations : wpa_driver_sta_block(s) \/ wpa_driver_sta_unblock(s)
    \/ \E value \in {0, 1} : wpa_driver_set_max_client(value)

PowerSaveCommand ==
    \/ \E ctw \in CtWindows : p2p_ctrl_iface_set_opps(ctw)
    \/ \E value \in {0, 1} : p2p_ctrl_iface_set_power_save(value)
    \/ p2p_ctrl_iface_set_sleep
    \/ \E noa \in NoaValues \X NoaValues \X NoaValues : p2p_ctrl_iface_set_noa(noa)
    \/ \E enable \in BOOLEAN, ctw \in CtWindows : p2p_ctrl_iface_set_ps(enable, ctw)

-----------------------------------------------------------------------------
(* As long as every rxfilter command was taken and named an index of a      *)
(* byte, the firmware's filters are the ones that were asked for, though    *)
(* operation and index travel in one word.  After a refusal they may not    *)
(* be: the answer is success all the same.                                  *)
FiltersAsAsked ==
    promised.sure => /\ firmware.filters = promised.filters
                     /\ firmware.filtering = promised.filtering

(* The register of P2P_SET_PS: a window that needs BIT(7) itself leaves     *)
(* power saving on whatever the command says.                               *)
PsInForce(ps, value) ==
    /\ ps.on => Bit7(value)
    /\ ps.ctw < 128 => (Bit7(value) => ps.on) /\ value % 128 = ps.ctw

(* What STA-BLOCK, STA-UNBLOCK, P2P_SET_NOA and P2P_SET_PS answered with    *)
(* success is in force, also after later commands that were refused, and    *)
(* so are the receive filters until one of their commands is refused; a     *)
(* P2P_SET_PS holds until p2p_set_opps writes its register.                 *)
AnsweredInForce ==
    /\ FiltersAsAsked
    /\ promised.blocked \subseteq firmware.blocked
    /\ promised.unblocked \cap firmware.blocked = {}
    /\ \A noa \in promised.noa : firmware.noa = noa
    /\ \A ps \in promised.opps : PsInForce(ps, firmware.sigma[Opps])
=============================================================================
