------------------------- MODULE WpaDriverCmdProofs -------------------------
(***************************************************************************)
(* Theorems about WpaDriverCmd, WpaFirmware and WpaStatistics, for any     *)
(* interfaces, peers, filters, stations and sequences of commands.         *)
(***************************************************************************)
EXTENDS WpaDriverCmd, WellFoundedInduction, TLAPS

-----------------------------------------------------------------------------
(* drv_errors.                                                              *)

(* drv_errors is what is left of the streak after whole rounds of           *)
(* DrvErrors + 1 failures.                                                  *)
ErrorsInv ==
    /\ drv_errors \in 0..DrvErrors
    /\ \E q \in Nat : streak = q * (DrvErrors + 1) + drv_errors

(* A private command that succeeds or fails keeps the count.                *)
LEMMA PrivateCommandKeeps ==
    ASSUME ErrorsInv, PrivateCommand
    PROVE  ErrorsInv'
  <1> USE CmdAssumption
  <1>1. PICK q \in Nat : streak = q * (DrvErrors + 1) + drv_errors
    BY DEF ErrorsInv
  <1>2. CASE drv_errors' = 0 /\ streak' = 0
    <2>1. 0 = 0 * (DrvErrors + 1) + 0
      OBVIOUS
    <2> QED
      BY <1>2, <2>1 DEF ErrorsInv
  <1>3. CASE drv_errors' = wpa_driver_send_hang_msg /\ streak' = streak + 1
    <2>1. CASE drv_errors + 1 > DrvErrors
      <3>1. drv_errors' = 0 /\ drv_errors = DrvErrors
        BY <1>3, <2>1 DEF wpa_driver_send_hang_msg, ErrorsInv
      <3>2. streak' = (q + 1) * (DrvErrors + 1) + 0
        BY <1>1, <1>3, <3>1
      <3>3. 0 \in 0..DrvErrors /\ q + 1 \in Nat
        OBVIOUS
      <3>4. drv_errors' \in 0..DrvErrors
        BY <3>1, <3>3
      <3>5. \E r \in Nat : streak' = r * (DrvErrors + 1) + drv_errors'
        BY <3>1, <3>2, <3>3
      <3> QED
        BY <3>4, <3>5 DEF ErrorsInv
    <2>2. CASE ~(drv_errors + 1 > DrvErrors)
      <3>1. drv_errors' = drv_errors + 1 /\ drv_errors' \in 0..DrvErrors
        BY <1>3, <2>2 DEF wpa_driver_send_hang_msg, ErrorsInv
      <3>2. drv_errors \in Nat /\ q * (DrvErrors + 1) \in Nat
        BY DEF ErrorsInv
      <3>3. streak' = q * (DrvErrors + 1) + drv_errors'
        BY <1>1, <1>3, <3>1, <3>2
      <3> QED
        BY <3>1, <3>3 DEF ErrorsInv
    <2> QED
      BY <2>1, <2>2
  <1> QED
    BY <1>2, <1>3 DEF PrivateCommand

(* Whatever private commands succeed and fail and whatever else is done in  *)
(* between, drv_errors is the length of the run of failures, counted from 0 *)
(* again after each hang message.                                           *)
THEOREM ErrorsStaySequential == Spec => []ErrorsSequential
  <1>1. Init => ErrorsInv
    <2>1. 0 = 0 * (DrvErrors + 1) + 0 /\ 0 \in 0..DrvErrors
      BY CmdAssumption
    <2> QED
      BY <2>1 DEF Init, ErrorsInv
  <1>2. ErrorsInv /\ [Next]_vars => ErrorsInv'
    <2> SUFFICES ASSUME ErrorsInv, [Next]_vars PROVE ErrorsInv'
      OBVIOUS
    <2>1. PrivateCommand \/ UNCHANGED <<drv_errors, streak>>
      BY DEF Next, Transparent, Miracast, UseMcc, Mcc, Country, Start, Stop, AcsStarts,
         AcsPolls, FirmwareCommand, StatisticsCommand, LinkChanges, IfaceAdded,
         IfaceRemoved, vars
    <2> QED
      BY <2>1, PrivateCommandKeeps DEF ErrorsInv
  <1>3. ErrorsInv => ErrorsSequential
    <2> SUFFICES ASSUME ErrorsInv PROVE drv_errors = streak % (DrvErrors + 1)
      BY DEF ErrorsSequential
    <2>1. PICK q \in Nat : streak = q * (DrvErrors + 1) + drv_errors
      BY DEF ErrorsInv
    <2>2. PICK d \in Nat \ {0} : d = DrvErrors + 1
      BY CmdAssumption
    <2>3. drv_errors \in 0..(d - 1)
      BY <2>2, CmdAssumption DEF ErrorsInv
    <2>4. (q * d + drv_errors) % d = drv_errors
      BY <2>3
    <2> QED
      BY <2>1, <2>2, <2>4
  <1> QED
    BY <1>1, <1>2, <1>3, PTL DEF Spec

-----------------------------------------------------------------------------
(* MTK-ACS.                                                                 *)

AcsState == [busy : BOOLEAN, wait_cnt : Nat, seen : SUBSET AcsChannels,
             complete : BOOLEAN, answer : AcsChannels \cup {0}]

(* Nothing is answered, or taken for complete, before the command is over.  *)
AcsInv ==
    /\ acs \in AcsState
    /\ acs.busy => acs.answer = 0 /\ ~acs.complete
    /\ AcsSound

(* A list of 2.4 GHz channels that is not empty has a lowest channel.       *)
LEMMA LowestChannel ==
    ASSUME NEW mask \in SUBSET AcsChannels, mask # {}
    PROVE  \E c \in mask : \A d \in mask : c <= d
  <1> SUFFICES ASSUME \A c \in mask : \E d \in mask : d < c
               PROVE  FALSE
    BY CmdAssumption
  <1>1. \A c \in mask : c \in 1..14
    BY CmdAssumption
  <1>2. \A c \in mask : c > 4
    BY <1>1
  <1>3. \A c \in mask : c > 8
    BY <1>1, <1>2
  <1>4. \A c \in mask : c > 12
    BY <1>1, <1>3
  <1> QED
    BY <1>1, <1>4

(* The scan MTK-ACS answers from was complete and lists the answer, or none *)
(* was complete in all its polls.                                           *)
THEOREM AcsStaysSound == Spec => []AcsSound
  <1>1. Init => AcsInv
    BY DEF Init, AcsInv, AcsState, AcsSound
  <1>2. AcsInv /\ [Next]_vars => AcsInv'
    <2> SUFFICES ASSUME AcsInv, [Next]_vars PROVE AcsInv'
      OBVIOUS
    <2>1. CASE AcsStarts
      BY <2>1 DEF AcsStarts, AcsInv, AcsState, AcsSound
    <2>2. CASE AcsPolls
      <3>1. PICK mask \in SUBSET AcsChannels, complete \in BOOLEAN :
               acs' = AcsPolled(mask, complete)
        BY <2>2 DEF AcsPolls
      <3>2. acs \in AcsState /\ acs.busy /\ acs.answer = 0 /\ ~acs.complete
        BY <2>2 DEF AcsPolls, AcsInv
      <3>3. CASE complete
        <4> DEFINE a == IF mask = {} THEN 0 ELSE CHOOSE c \in mask : \A d \in mask : c <= d
        <4>1. mask # {} => a \in mask
          BY LowestChannel
        <4>2. mask = {} => a = 0
          OBVIOUS
        <4>3. \A c \in AcsChannels : c # 0
          BY CmdAssumption
        <4>4. acs' = [acs EXCEPT !.busy = FALSE, !.seen = mask, !.complete = TRUE,
                                 !.answer = a]
          BY <3>1, <3>3 DEF AcsPolled
        <4> HIDE DEF a
        <4> QED
          BY <3>2, <4>1, <4>2, <4>3, <4>4 DEF AcsInv, AcsState, AcsSound
      <3>4. CASE ~complete
        <4>1. acs' = [acs EXCEPT !.wait_cnt = @ + 1, !.busy = acs.wait_cnt + 1 <= MaxWaits,
                                 !.seen = mask]
          BY <3>1, <3>4 DEF AcsPolled
        <4>2. acs.wait_cnt \in Nat /\ acs.wait_cnt + 1 \in Nat
          BY <3>2 DEF AcsState
        <4>3. CASE acs.wait_cnt + 1 <= MaxWaits
          <5>1. acs' = [acs EXCEPT !.wait_cnt = @ + 1, !.busy = TRUE, !.seen = mask]
            BY <4>1, <4>3
          <5> QED
            BY <3>2, <4>2, <5>1 DEF AcsInv, AcsState, AcsSound
        <4>4. CASE ~(acs.wait_cnt + 1 <= MaxWaits)
          <5>1. acs' = [acs EXCEPT !.wait_cnt = @ + 1, !.busy = FALSE, !.seen = mask]
            <6>1. (acs.wait_cnt + 1 <= MaxWaits) = FALSE
              BY <4>2, <4>4 DEF MaxWaits
            <6> QED
              BY <4>1, <6>1
          <5>2. acs.wait_cnt + 1 > MaxWaits
            BY <4>2, <4>4 DEF MaxWaits
          <5> QED
            BY <3>2, <4>2, <5>1, <5>2 DEF AcsInv, AcsState, AcsSound
        <4> QED
          BY <4>3, <4>4
      <3> QED
        BY <3>3, <3>4
    <2>3. CASE UNCHANGED acs
      BY <2>3 DEF AcsInv, AcsSound
    <2>4. AcsStarts \/ AcsPolls \/ UNCHANGED acs
      BY DEF Next, Transparent, Miracast, UseMcc, Mcc, Country, Start, Stop,
         FirmwareCommand, StatisticsCommand, LinkChanges, IfaceAdded, IfaceRemoved, vars
    <2> QED
      BY <2>1, <2>2, <2>3, <2>4
  <1>3. AcsInv => AcsSound
    BY DEF AcsInv
  <1> QED
    BY <1>1, <1>2, <1>3, PTL DEF Spec

-----------------------------------------------------------------------------
(* Commands for all interfaces.                                             *)

(* The variables of an interface are there for every interface.             *)
IfacesInv ==
    /\ ifaces \subseteq Ifaces
    /\ conc \in [Ifaces -> [num : {0, 2}, flag : BOOLEAN]]
    /\ DOMAIN regdom = Ifaces

AllInv == IfacesInv /\ ConcurrencyUniform /\ DriverAsTold /\ up \in BOOLEAN

(* Every step keeps the interfaces in agreement.                            *)
LEMMA AllStep == AllInv /\ [Next]_vars => AllInv'
  <1> SUFFICES ASSUME AllInv, [Next]_vars PROVE AllInv'
    OBVIOUS
  <1> USE DEF AllInv
  <1>1. UNCHANGED p2p
    BY DEF Next, Transparent, Miracast, UseMcc, Mcc, Country, Start, Stop, AcsStarts,
       AcsPolls, FirmwareCommand, StatisticsCommand, LinkChanges, IfaceAdded,
       IfaceRemoved, vars, radio, fixed
  <1>2. ASSUME NEW on \in BOOLEAN, Mcc(on) PROVE AllInv'
    <2>1. /\ \A i \in Ifaces : conc'[i] = IF i \in ifaces THEN Concurrency(on) ELSE conc[i]
          /\ DOMAIN conc' = Ifaces /\ concOps' = (IF p2p THEN on ELSE concOps)
          /\ conc' = [i \in Ifaces |-> IF i \in ifaces THEN Concurrency(on) ELSE conc[i]]
          /\ UNCHANGED <<ifaces, country, regdom, up, told>>
      BY <1>2 DEF Mcc, MccAllIfaces
    <2>2. /\ Concurrency(on) \in [num : {0, 2}, flag : BOOLEAN]
          /\ Concurrency(on).flag = on /\ Concurrency(on).num = IF on THEN 2 ELSE 0
      BY DEF Concurrency
    <2>3. conc' \in [Ifaces -> [num : {0, 2}, flag : BOOLEAN]]
      BY <2>1, <2>2 DEF IfacesInv
    <2>4. ConcurrencyUniform'
      BY <1>1, <2>1, <2>2 DEF ConcurrencyUniform, IfacesInv
    <2> QED
      BY <2>1, <2>3, <2>4 DEF IfacesInv, DriverAsTold, CountryInStep, StateTold
  <1>3. ASSUME NEW c \in Countries, Country(c) PROVE AllInv'
    BY <1>1, <1>3 DEF Country, flags, IfacesInv, ConcurrencyUniform, DriverAsTold,
       CountryInStep, StateTold
  <1>4. CASE Start \/ Stop
    <2>1. UNCHANGED <<ifaces, flags, country, regdom>>
      BY <1>4 DEF Start, Stop
    <2>2. StateTold' /\ up' \in BOOLEAN
      BY <1>4 DEF Start, Stop, GoesDown, DriverAsTold, StateTold
    <2> QED
      BY <1>1, <2>1, <2>2 DEF flags, IfacesInv, ConcurrencyUniform, DriverAsTold, CountryInStep
  <1>5. ASSUME NEW i \in Ifaces, IfaceAdded(i) PROVE AllInv'
    <2>1. PICK b \in BOOLEAN : conc' = [conc EXCEPT ![i] = [num |-> 0, flag |-> b]]
      BY <1>5 DEF IfaceAdded
    <2>2. /\ ifaces' = ifaces \cup {i} /\ late' = late \cup {i}
          /\ regdom' = [regdom EXCEPT ![i] = country]
          /\ UNCHANGED <<concOps, country, up, told>>
      BY <1>5 DEF IfaceAdded
    <2>3. /\ conc' \in [Ifaces -> [num : {0, 2}, flag : BOOLEAN]]
          /\ \A j \in ifaces' \ late' : j \in ifaces \ late /\ conc'[j] = conc[j]
      BY <2>1, <2>2 DEF IfacesInv
    <2>4. ConcurrencyUniform'
      BY <1>1, <2>2, <2>3 DEF ConcurrencyUniform
    <2>5. CountryInStep' /\ DOMAIN regdom' = Ifaces
      BY <2>2 DEF DriverAsTold, CountryInStep, IfacesInv
    <2> QED
      BY <2>2, <2>3, <2>4, <2>5 DEF IfacesInv, DriverAsTold, StateTold
  <1>6. ASSUME NEW i \in Ifaces, IfaceRemoved(i) PROVE AllInv'
    BY <1>1, <1>6 DEF IfaceRemoved, flags, IfacesInv, ConcurrencyUniform, DriverAsTold,
       CountryInStep, StateTold
  <1>7. CASE UNCHANGED <<ifaces, flags, country, regdom, up, told>>
    BY <1>1, <1>7 DEF flags, IfacesInv, ConcurrencyUniform, DriverAsTold,
       CountryInStep, StateTold
  <1>8. \/ \E on \in BOOLEAN : Mcc(on)
        \/ \E c \in Countries : Country(c)
        \/ Start \/ Stop
        \/ \E i \in Ifaces : IfaceAdded(i) \/ IfaceRemoved(i)
        \/ UNCHANGED <<ifaces, flags, country, regdom, up, told>>
    BY DEF Next, Transparent, Miracast, UseMcc, AcsStarts, AcsPolls, FirmwareCommand,
       StatisticsCommand, LinkChanges, vars
  <1> QED
    BY <1>2, <1>3, <1>4, <1>5, <1>6, <1>7, <1>8

LEMMA AllAlways == Spec => []AllInv
  <1>1. Init => AllInv
    <2> SUFFICES ASSUME Init PROVE AllInv
      OBVIOUS
    <2>1. IfacesInv /\ up \in BOOLEAN
      BY CmdAssumption DEF Init, IfacesInv
    <2>2. ifaces \ late = {}
      BY CmdAssumption DEF Init
    <2>3. ConcurrencyUniform
      BY <2>2 DEF ConcurrencyUniform
    <2>4. DriverAsTold
      BY CmdAssumption DEF Init, DriverAsTold, CountryInStep, StateTold
    <2> QED
      BY <2>1, <2>3, <2>4 DEF AllInv
  <1> QED
    BY <1>1, AllStep, PTL DEF Spec

(* Interfaces that come and go between mcc commands never leave one that    *)
(* saw a command in disagreement with the P2P configuration.                *)
THEOREM ConcurrencyStaysUniform == Spec => []ConcurrencyUniform
  <1>1. AllInv => ConcurrencyUniform
    BY DEF AllInv
  <1> QED
    BY <1>1, AllAlways, PTL

(* The country of every interface and the announced power state are those   *)
(* of the driver, also of interfaces added after the COUNTRY command.       *)
THEOREM DriverStaysAsTold == Spec => []DriverAsTold
  <1>1. AllInv => DriverAsTold
    BY DEF AllInv
  <1> QED
    BY <1>1, AllAlways, PTL

-----------------------------------------------------------------------------
(* The display sink.                                                        *)

(* Hypotheses: the frequencies in use above 5 GHz lie on the 5 MHz grid,    *)
(* and a configured operating channel is one the supplicant knows of.       *)
FreqsOnGrid == \A f \in Freqs : f >= 5000 => f % 5 = 0
ConfOnList ==
    \A c \in ConfClasses \X ConfChannels : c[1] # 0 /\ c[2] # 0 => c \in CfgChannels

SinkState == [op : Int \X Int, channels : SUBSET (Int \X Int), cfgOp : BOOLEAN,
              freq : Freqs \cup {0}]

SinkInv ==
    /\ links \in [Ifaces -> Links] /\ ifaces \subseteq Ifaces
    /\ conf \in ConfClasses \X ConfChannels
    /\ sink \in SinkState
    /\ SinkInStep

(* priv_p2p_freq_to_channel: the channel of a frequency on the grid leads   *)
(* back to it.                                                              *)
LEMMA ConvertedIs ==
    ASSUME FreqsOnGrid, NEW f \in Freqs
    PROVE  LET c == Converted(f) IN
           /\ c \in Int \X Int
           /\ c # <<0, 0>> => f = CASE c[1] = 81 -> 2407 + 5 * c[2]
                                    [] c[1] = 82 -> 2414 + 5 * c[2]
                                    [] OTHER -> 5000 + 5 * c[2]
  <1> DEFINE found == priv_p2p_freq_to_channel(f)
  <1>1. CASE found = {}
    <2>1. Converted(f) = <<0, 0>>
      BY <1>1 DEF Converted
    <2> QED
      BY <2>1
  <1>2. CASE found # {}
    <2>1. Converted(f) \in found
      BY <1>2 DEF Converted
    <2>2. PICK b \in Bands : /\ b.first <= f /\ f <= b.last
                             /\ b.grid => (f - b.base) % 5 = 0
                             /\ Converted(f) = <<b.class, (f - b.base) \div 5>>
      BY <2>1 DEF priv_p2p_freq_to_channel
    <2>3. f \in Nat /\ (f >= 5000 => f % 5 = 0)
      BY CmdAssumption DEF FreqsOnGrid
    <2>4. PICK class \in {81, 82, 115, 118, 121, 124, 125}, base \in {2407, 2414, 5000} :
             /\ Converted(f) = <<class, (f - base) \div 5>>
             /\ base = (IF class = 81 THEN 2407 ELSE IF class = 82 THEN 2414 ELSE 5000)
             /\ (f - base) % 5 = 0
      BY <2>2, <2>3 DEF Bands
    <2>5. (f - base) \div 5 \in Int /\ f = base + 5 * ((f - base) \div 5)
      BY <2>3, <2>4
    <2> QED
      BY <2>4, <2>5
  <1> QED
    BY <1>1, <1>2

(* The operating channels to go back to are on the full list.               *)
LEMMA MccOnList ==
    ASSUME ConfOnList, conf \in ConfClasses \X ConfChannels
    PROVE  MccChannels \subseteq CfgChannels /\ CfgChannels \subseteq Int \X Int
  <1>1. CASE conf[1] # 0 /\ conf[2] # 0
    <2>1. conf \in CfgChannels /\ MccChannels = {conf}
      BY <1>1 DEF MccChannels, ConfOnList
    <2> QED
      BY <2>1 DEF CfgChannels
  <1>2. CASE ~(conf[1] # 0 /\ conf[2] # 0)
    <2>1. \A r \in 0..2 : 1 + r * 5 \in 1..11
      OBVIOUS
    <2> QED
      BY <1>2, <2>1 DEF MccChannels, CfgChannels
  <1> QED
    BY <1>1, <1>2

(* Both ways to configure the sink keep it in step.                         *)
LEMMA ConfigKeeps ==
    ASSUME FreqsOnGrid, ConfOnList, SinkInv, NEW f \in Freqs \cup {0},
           p2p_wfd_sink_config_scc(f)
    PROVE  sink' \in SinkState /\ SinkInStep'
  <1>1. CASE UNCHANGED sink
    BY <1>1 DEF SinkInv, SinkInStep, ListMatchesMode, OpMatchesFrequency
  <1>2. CASE f # 0 /\ ConfigScc(f)
    <2>1. PICK c : c = Converted(f)
      OBVIOUS
    <2>2. f \in Freqs /\ f # 0
      BY <1>2
    <2>3. /\ c \in Int \X Int
          /\ c # <<0, 0>> => f = CASE c[1] = 81 -> 2407 + 5 * c[2]
                                   [] c[1] = 82 -> 2414 + 5 * c[2]
                                   [] OTHER -> 5000 + 5 * c[2]
      BY <2>1, <2>2, ConvertedIs
    <2>4. sink' = [sink EXCEPT !.op = c, !.channels = {c}, !.freq = f]
      BY <1>2, <2>1 DEF ConfigScc
    <2>5. /\ sink' \in SinkState /\ sink'.op = c /\ sink'.channels = {c} /\ sink'.freq = f
      <3>1. {c} \in SUBSET (Int \X Int) /\ f \in Freqs \cup {0} /\ sink \in SinkState
        BY <2>2, <2>3 DEF SinkInv
      <3>2. c \in Int \X Int
        BY <2>3
      <3> QED
        BY <2>4, <3>1, <3>2 DEF SinkState
    <2>6. ListMatchesMode'
      BY <2>2, <2>5 DEF ListMatchesMode
    <2>7. OpMatchesFrequency'
      BY <2>3, <2>5 DEF OpMatchesFrequency
    <2> QED
      BY <2>5, <2>6, <2>7 DEF SinkInStep
  <1>3. CASE ConfigMcc
    <2>1. PICK c \in MccChannels :
             sink' = [op |-> c, channels |-> CfgChannels,
                      cfgOp |-> conf[1] # 0 /\ conf[2] # 0, freq |-> 0]
      BY <1>3 DEF ConfigMcc
    <2>2. c \in CfgChannels /\ CfgChannels \subseteq Int \X Int
      BY MccOnList DEF SinkInv
    <2>3. sink'.op = c /\ sink'.channels = CfgChannels /\ sink'.freq = 0
      BY <2>1
    <2>4. sink' \in SinkState
      BY <2>1, <2>2 DEF SinkState
    <2> QED
      BY <2>2, <2>3, <2>4 DEF SinkInStep, ListMatchesMode, OpMatchesFrequency
  <1> QED
    BY <1>1, <1>2, <1>3 DEF p2p_wfd_sink_config_scc

(* The frequency taken over from a network is one of Freqs, or none.        *)
LEMMA FollowKeeps ==
    ASSUME FreqsOnGrid, ConfOnList, SinkInv, FollowSharedFreq
    PROVE  sink' \in SinkState /\ SinkInStep'
  <1>1. PICK unknown \in SUBSET ifaces, memory \in BOOLEAN :
           \E f \in mtk_get_shared_radio_freqs(unknown, memory) : p2p_wfd_sink_config_scc(f)
    BY DEF FollowSharedFreq
  <1>2. \A i \in ifaces : links[i] # None => links[i].freq \in Freqs
    BY DEF SinkInv, Links
  <1>3. mtk_get_shared_radio_freqs(unknown, memory) \subseteq Freqs \cup {0}
    BY <1>2 DEF mtk_get_shared_radio_freqs
  <1> QED
    BY <1>1, <1>3, ConfigKeeps

(* After any sequence of MIRACAST and p2p_use_mcc commands and changes of   *)
(* the links, channel, channel list and frequency of the sink agree.        *)
THEOREM SinkStaysInStep ==
    ASSUME FreqsOnGrid, ConfOnList PROVE Spec => []SinkInStep
  <1>1. Init => SinkInv
    <2> SUFFICES ASSUME Init PROVE SinkInv
      OBVIOUS
    <2>1. PICK c \in MccChannels :
             sink = [op |-> c, channels |-> CfgChannels,
                     cfgOp |-> conf[1] # 0 /\ conf[2] # 0, freq |-> 0]
      BY DEF Init
    <2>2. conf \in ConfClasses \X ConfChannels
      BY DEF Init
    <2>3. c \in CfgChannels /\ CfgChannels \subseteq Int \X Int
      BY <2>2, MccOnList
    <2>4. sink \in SinkState /\ SinkInStep
      BY <2>1, <2>3 DEF SinkState, SinkInStep, ListMatchesMode, OpMatchesFrequency
    <2>5. links \in [Ifaces -> Links] /\ ifaces \subseteq Ifaces
      BY CmdAssumption DEF Init, Links
    <2> QED
      BY <2>2, <2>4, <2>5 DEF SinkInv
  <1>2. SinkInv /\ [Next]_vars => SinkInv'
    <2> SUFFICES ASSUME SinkInv, [Next]_vars PROVE SinkInv'
      OBVIOUS
    <2>1. UNCHANGED conf
      BY DEF Next, Transparent, Miracast, UseMcc, Mcc, Country, Start, Stop, AcsStarts,
         AcsPolls, FirmwareCommand, StatisticsCommand, LinkChanges, IfaceAdded,
         IfaceRemoved, vars, radio, fixed
    <2>2. ASSUME NEW value \in 0..3, NEW args \in SUBSET (Freqs \cup {0}), Miracast(value, args)
          PROVE  SinkInv'
      <3>1. \/ \E f \in Freqs \cup {0} : p2p_wfd_sink_config_scc(f)
            \/ UNCHANGED sink
            \/ FollowSharedFreq
        BY <2>2 DEF Miracast
      <3>2. sink' \in SinkState /\ SinkInStep'
        BY <3>1, ConfigKeeps, FollowKeeps
           DEF SinkInv, SinkInStep, ListMatchesMode, OpMatchesFrequency
      <3> QED
        BY <2>1, <2>2, <3>2 DEF Miracast, SinkInv
    <2>3. ASSUME NEW mcc \in BOOLEAN, UseMcc(mcc) PROVE SinkInv'
      <3>1. sink' \in SinkState /\ SinkInStep'
        BY <2>3, ConfigKeeps, FollowKeeps DEF UseMcc
      <3> QED
        BY <2>1, <2>3, <3>1 DEF UseMcc, SinkInv
    <2>4. CASE UNCHANGED sink /\ links' \in [Ifaces -> Links] /\ ifaces' \subseteq Ifaces
      BY <2>1, <2>4 DEF SinkInv, SinkInStep, ListMatchesMode, OpMatchesFrequency
    <2>5. ASSUME NEW i \in Ifaces, LinkChanges(i) \/ IfaceAdded(i) \/ IfaceRemoved(i)
          PROVE  UNCHANGED sink /\ links' \in [Ifaces -> Links] /\ ifaces' \subseteq Ifaces
      BY <2>5 DEF LinkChanges, IfaceAdded, IfaceRemoved, radio, SinkInv, Links
    <2>6. CASE Stop
      BY <2>4, <2>6 DEF Stop, radio, SinkInv, Links
    <2>7. CASE UNCHANGED <<sink, links, ifaces>>
      BY <2>4, <2>7 DEF SinkInv
    <2>8. \/ \E value \in 0..3 : Miracast(value, {})
          \/ \E f \in Freqs \cup {0} : Miracast(2, {f})
          \/ \E mcc \in BOOLEAN : UseMcc(mcc)
          \/ \E i \in Ifaces : LinkChanges(i) \/ IfaceAdded(i) \/ IfaceRemoved(i)
          \/ Stop
          \/ UNCHANGED <<sink, links, ifaces>>
      BY DEF Next, Transparent, Mcc, Country, Start, AcsStarts, AcsPolls, FirmwareCommand,
         StatisticsCommand, vars, radio
    <2>9. ASSUME NEW f \in Freqs \cup {0}, Miracast(2, {f}) PROVE SinkInv'
      BY <2>2, <2>9
    <2> QED
      BY <2>2, <2>3, <2>4, <2>5, <2>6, <2>7, <2>8, <2>9
  <1>3. SinkInv => SinkInStep
    BY DEF SinkInv
  <1> QED
    BY <1>1, <1>2, <1>3, PTL DEF Spec

-----------------------------------------------------------------------------
(* The firmware.                                                            *)

Absences == NoaValues \X NoaValues \X NoaValues

FirmwareStates ==
    [filters : SUBSET Int, filtering : BOOLEAN, blocked : SUBSET Stations,
     max : Int, noa : Absences \cup {<<0, 0, 0>>}, sigma : [{Sleep, Opps, PowerSave} -> Int]]

Promises ==
    [filters : SUBSET Int, filtering : BOOLEAN, sure : BOOLEAN, blocked : SUBSET Stations,
     unblocked : SUBSET Stations, noa : SUBSET Absences,
     opps : SUBSET [on : BOOLEAN, ctw : CtWindows]]

FirmwareTypes == firmware \in FirmwareStates /\ promised \in Promises

FirmwareInv == FirmwareTypes /\ AnsweredInForce

(* A word the firmware is given changes nothing but its filters.            *)
LEMMA SwCmdShape ==
    ASSUME FirmwareTypes, NEW word \in Int
    PROVE  /\ SwCmd(word) \in FirmwareStates
           /\ SwCmd(word).blocked = firmware.blocked
           /\ SwCmd(word).noa = firmware.noa
           /\ SwCmd(word).sigma = firmware.sigma
  <1> DEFINE Only(f) == /\ f \in FirmwareStates /\ f.blocked = firmware.blocked
                        /\ f.noa = firmware.noa /\ f.sigma = firmware.sigma
  <1>1. word % 256 \in Int
    OBVIOUS
  <1>2. Only(firmware)
    BY DEF FirmwareTypes
  <1>3. ASSUME NEW on \in BOOLEAN PROVE Only([firmware EXCEPT !.filtering = on])
    BY DEF FirmwareTypes, FirmwareStates
  <1>4. ASSUME NEW fs \in SUBSET Int PROVE Only([firmware EXCEPT !.filters = fs])
    BY <1>4 DEF FirmwareTypes, FirmwareStates
  <1>5. /\ firmware.filters \cup {word % 256} \in SUBSET Int
        /\ firmware.filters \ {word % 256} \in SUBSET Int
    BY <1>1 DEF FirmwareTypes, FirmwareStates
  <1>6. /\ Only([firmware EXCEPT !.filters = @ \cup {word % 256}])
        /\ Only([firmware EXCEPT !.filters = @ \ {word % 256}])
    <2> HIDE DEF Only
    <2> QED
      BY <1>4, <1>5
  <1>7. Only([firmware EXCEPT !.filtering = FALSE]) /\ Only([firmware EXCEPT !.filtering = TRUE])
    <2> HIDE DEF Only
    <2> QED
      BY <1>3
  <1>8. SwCmd(word) \in {firmware, [firmware EXCEPT !.filtering = FALSE],
                         [firmware EXCEPT !.filtering = TRUE],
                         [firmware EXCEPT !.filters = @ \cup {word % 256}],
                         [firmware EXCEPT !.filters = @ \ {word % 256}]}
    BY DEF SwCmd
  <1>9. Only(SwCmd(word))
    <2> HIDE DEF Only
    <2> QED
      BY <1>2, <1>6, <1>7, <1>8, Zenon
  <1> QED
    BY <1>9

(* The words of rxfilter-stop and rxfilter-start.                           *)
LEMMA SwitchWords ==
    /\ FilterBase["stop"] \in Int /\ FilterBase["start"] \in Int
    /\ SwCmd(FilterBase["stop"]) = [firmware EXCEPT !.filtering = FALSE]
    /\ SwCmd(FilterBase["start"]) = [firmware EXCEPT !.filtering = TRUE]
  <1>1. FilterBase["stop"] = 9437184 /\ FilterBase["start"] = 9437440
    BY SMT DEF FilterBase
  <1>2. 9437184 \div 256 = 36864 /\ 9437440 \div 256 = 36865
    BY SMT
  <1> QED
    BY <1>1, <1>2, SMT DEF SwCmd

(* The firmware takes the word that rxfilter-add or rxfilter-remove makes   *)
(* of an index that fits a byte apart into what it was made of; of any      *)
(* index, it is a word.                                                     *)
LEMMA WordsApart ==
    ASSUME NEW idx \in Filters
    PROVE  /\ FilterWord("add", idx) \in Int /\ FilterWord("remove", idx) \in Int
           /\ idx < 256 =>
                /\ SwCmd(FilterWord("add", idx)) = [firmware EXCEPT !.filters = @ \cup {idx}]
                /\ SwCmd(FilterWord("remove", idx)) = [firmware EXCEPT !.filters = @ \ {idx}]
  <1>1. idx \in Nat /\ WordSize \in Nat /\ WordSize > 9438208
    BY FirmwareAssumption
  <1>2. FilterBase["add"] = 9437696 /\ FilterBase["remove"] = 9437952
    BY SMT DEF FilterBase
  <1>3. FilterWord("add", idx) \in Int /\ FilterWord("remove", idx) \in Int
    BY <1>1, <1>2 DEF FilterWord
  <1>4. ASSUME idx < 256
        PROVE  /\ FilterWord("add", idx) = 9437696 + idx
               /\ FilterWord("remove", idx) = 9437952 + idx
    BY <1>1, <1>2, <1>4 DEF FilterWord
  <1>5. ASSUME idx < 256
        PROVE  /\ (9437696 + idx) \div 256 = 36866 /\ (9437952 + idx) \div 256 = 36867
               /\ (9437696 + idx) % 256 = idx /\ (9437952 + idx) % 256 = idx
    BY <1>1, <1>5, SMT
  <1>6. ASSUME idx < 256
        PROVE  SwCmd(FilterWord("add", idx)) = [firmware EXCEPT !.filters = @ \cup {idx}]
    <2>1. PICK word : word = FilterWord("add", idx)
      OBVIOUS
    <2>2. word \div 256 = 36866
      BY <1>4, <1>5, <1>6, <2>1
    <2>4. word % 256 = idx
      BY <1>4, <1>5, <1>6, <2>1
    <2>3. SwCmd(word) = [firmware EXCEPT !.filters = @ \cup {word % 256}]
      BY <2>2, SMT DEF SwCmd
    <2> QED
      BY <2>1, <2>3, <2>4, Zenon
  <1>7. ASSUME idx < 256
        PROVE  SwCmd(FilterWord("remove", idx)) = [firmware EXCEPT !.filters = @ \ {idx}]
    <2>1. PICK word : word = FilterWord("remove", idx)
      OBVIOUS
    <2>2. word \div 256 = 36867
      BY <1>4, <1>5, <1>7, <2>1
    <2>4. word % 256 = idx
      BY <1>4, <1>5, <1>7, <2>1
    <2>3. SwCmd(word) = [firmware EXCEPT !.filters = @ \ {word % 256}]
      BY <2>2, SMT DEF SwCmd
    <2> QED
      BY <2>1, <2>3, <2>4, Zenon
  <1> QED
    BY <1>3, <1>6, <1>7

(* A receive filter command changes the filters in force the way the client *)
(* is told, or from then on nothing is sure of them.                        *)
LEMMA RxFilterKeeps ==
    ASSUME FirmwareInv, RxFilterCommand
    PROVE  FirmwareInv'
  <1> USE DEF FirmwareInv
  <1>1. ASSUME NEW word \in Int, NEW byte \in BOOLEAN, NEW answered \in Promises,
               answered.sure = promised.sure, answered.blocked = promised.blocked,
               answered.unblocked = promised.unblocked, answered.noa = promised.noa,
               answered.opps = promised.opps,
               promised.sure /\ byte => /\ SwCmd(word).filters = answered.filters
                                       /\ SwCmd(word).filtering = answered.filtering,
               wpa_driver_nl80211_driver_sw_cmd(word, answered, byte)
        PROVE  FirmwareInv'
    <2>1. /\ firmware' \in FirmwareStates /\ firmware'.blocked = firmware.blocked
          /\ firmware'.noa = firmware.noa /\ firmware'.sigma = firmware.sigma
      BY <1>1, SwCmdShape DEF wpa_driver_nl80211_driver_sw_cmd, FirmwareTypes
    <2>2. ASSUME NEW sure \in BOOLEAN, promised' = [answered EXCEPT !.sure = sure]
          PROVE  /\ promised' \in Promises
                 /\ promised'.sure = sure /\ promised'.blocked = promised.blocked
                 /\ promised'.unblocked = promised.unblocked
                 /\ promised'.noa = promised.noa /\ promised'.opps = promised.opps
                 /\ promised'.filters = answered.filters
                 /\ promised'.filtering = answered.filtering
      BY <1>1, <2>2 DEF Promises
    <2>3. ASSUME NEW sure \in BOOLEAN, promised' = [answered EXCEPT !.sure = sure],
                 sure => /\ firmware'.filters = answered.filters
                         /\ firmware'.filtering = answered.filtering
          PROVE  FirmwareInv'
      BY <2>1, <2>2, <2>3 DEF FirmwareTypes, AnsweredInForce, FiltersAsAsked
    <2>4. CASE firmware' = SwCmd(word) /\ promised' = [answered EXCEPT !.sure = @ /\ byte]
      <3>1. PICK sure \in BOOLEAN : sure = (answered.sure /\ byte)
        OBVIOUS
      <3>2. promised' = [answered EXCEPT !.sure = sure]
        BY <2>4, <3>1, Zenon
      <3> QED
        BY <1>1, <2>3, <2>4, <3>1, <3>2
    <2>5. CASE firmware' = firmware /\ promised' = [answered EXCEPT !.sure = FALSE]
      BY <2>3, <2>5
    <2> QED
      BY <1>1, <2>4, <2>5 DEF wpa_driver_nl80211_driver_sw_cmd
  <1>2. ASSUME NEW op \in {"start", "stop"}, RxFilterSwitch(op) PROVE FirmwareInv'
    <2> DEFINE answered == [promised EXCEPT !.filtering = op = "start"]
    <2>1. /\ answered \in Promises
          /\ answered.sure = promised.sure /\ answered.blocked = promised.blocked
          /\ answered.unblocked = promised.unblocked /\ answered.noa = promised.noa
          /\ answered.opps = promised.opps /\ answered.filters = promised.filters
          /\ answered.filtering = (op = "start")
      BY DEF FirmwareTypes, Promises
    <2>2. FilterBase[op] \in Int
      BY SwitchWords
    <2>3. /\ SwCmd(FilterBase[op]).filters = firmware.filters
          /\ SwCmd(FilterBase[op]).filtering = (op = "start")
      <3>1. CASE op = "start"
        BY <3>1, SwitchWords DEF FirmwareTypes, FirmwareStates
      <3>2. CASE op = "stop"
        BY <3>2, SwitchWords DEF FirmwareTypes, FirmwareStates
      <3> QED
        BY <3>1, <3>2
    <2>4. wpa_driver_nl80211_driver_sw_cmd(FilterBase[op], answered, TRUE)
      BY <1>2 DEF RxFilterSwitch
    <2>5. promised.sure => firmware.filters = promised.filters
      BY DEF AnsweredInForce, FiltersAsAsked
    <2> HIDE DEF answered
    <2> QED
      BY <1>1, <2>1, <2>2, <2>3, <2>4, <2>5
  <1>3. ASSUME NEW idx \in Filters, NEW word \in Int, NEW fs \in SUBSET Int,
               idx < 256 /\ promised.sure => SwCmd(word) = [firmware EXCEPT !.filters = fs],
               wpa_driver_nl80211_driver_sw_cmd(word, [promised EXCEPT !.filters = fs], idx < 256)
        PROVE  FirmwareInv'
    <2> DEFINE answered == [promised EXCEPT !.filters = fs]
    <2>1. /\ answered \in Promises
          /\ answered.sure = promised.sure /\ answered.blocked = promised.blocked
          /\ answered.unblocked = promised.unblocked /\ answered.noa = promised.noa
          /\ answered.opps = promised.opps /\ answered.filters = fs
          /\ answered.filtering = promised.filtering
      BY DEF FirmwareTypes, Promises
    <2>2. promised.sure /\ idx < 256 =>
             SwCmd(word).filters = fs /\ SwCmd(word).filtering = firmware.filtering
      BY <1>3 DEF FirmwareTypes, FirmwareStates
    <2>3. promised.sure => firmware.filtering = promised.filtering
      BY DEF AnsweredInForce, FiltersAsAsked
    <2>4. wpa_driver_nl80211_driver_sw_cmd(word, answered, idx < 256)
      BY <1>3
    <2>5. PICK byte \in BOOLEAN : byte = (idx < 256)
      <3>1. CASE idx < 256
        <4>1. (idx < 256) = TRUE
          BY <3>1, SMT
        <4> QED
          BY <4>1, Zenon
      <3>2. CASE ~(idx < 256)
        <4>1. (idx < 256) = FALSE
          BY <3>2, SMT
        <4> QED
          BY <4>1, Zenon
      <3> QED
        BY <3>1, <3>2, Zenon
    <2>6. wpa_driver_nl80211_driver_sw_cmd(word, answered, byte)
      BY <2>4, <2>5, Zenon
    <2> HIDE DEF answered
    <2> QED
      BY <1>1, <2>1, <2>2, <2>3, <2>5, <2>6
  <1>4. \A idx \in Filters : idx \in Int
    BY FirmwareAssumption
  <1>5. ASSUME NEW idx \in Filters, RxFilterAdd(idx) PROVE FirmwareInv'
    <2>1. PICK fs \in SUBSET Int : fs = promised.filters \cup {idx}
      BY <1>4 DEF FirmwareTypes, Promises
    <2>2. idx < 256 /\ promised.sure =>
            SwCmd(FilterWord("add", idx)) = [firmware EXCEPT !.filters = fs]
      BY <2>1, WordsApart DEF AnsweredInForce, FiltersAsAsked
    <2>3. wpa_driver_nl80211_driver_sw_cmd(FilterWord("add", idx),
             [promised EXCEPT !.filters = fs], idx < 256)
      BY <1>5, <2>1, Zenon DEF RxFilterAdd
    <2> QED
      BY <1>3, <2>2, <2>3, WordsApart
  <1>6. ASSUME NEW idx \in Filters, RxFilterRemove(idx) PROVE FirmwareInv'
    <2>1. PICK fs \in SUBSET Int : fs = promised.filters \ {idx}
      BY <1>4 DEF FirmwareTypes, Promises
    <2>2. idx < 256 /\ promised.sure =>
            SwCmd(FilterWord("remove", idx)) = [firmware EXCEPT !.filters = fs]
      BY <2>1, WordsApart DEF AnsweredInForce, FiltersAsAsked
    <2>3. wpa_driver_nl80211_driver_sw_cmd(FilterWord("remove", idx),
             [promised EXCEPT !.filters = fs], idx < 256)
      BY <1>6, <2>1, Zenon DEF RxFilterRemove
    <2> QED
      BY <1>3, <2>2, <2>3, WordsApart
  <1> QED
    BY <1>2, <1>5, <1>6 DEF RxFilterCommand

(* A hotspot command blocks and unblocks the station it names.              *)
LEMMA HotspotKeeps ==
    ASSUME FirmwareInv, HotspotCommand
    PROVE  FirmwareInv'
  <1> USE DEF FirmwareInv
  <1>1. CASE Refused
    BY <1>1 DEF Refused, FirmwareTypes, FirmwareStates, Promises, AnsweredInForce, FiltersAsAsked
  <1>2. ASSUME NEW s \in Stations, NEW blocked \in BOOLEAN,
               Block(s, blocked), PromisedBlock(s, blocked)
        PROVE  FirmwareInv'
    <2>1. CASE blocked
      BY <1>2, <2>1 DEF Block, PromisedBlock, FirmwareTypes, FirmwareStates, Promises, AnsweredInForce, FiltersAsAsked
    <2>2. CASE ~blocked
      BY <1>2, <2>2 DEF Block, PromisedBlock, FirmwareTypes, FirmwareStates, Promises, AnsweredInForce, FiltersAsAsked
    <2> QED
      BY <2>1, <2>2
  <1>3. ASSUME NEW value \in {0, 1}, firmware' = [firmware EXCEPT !.max = value],
               UNCHANGED promised
        PROVE  FirmwareInv'
    BY <1>3 DEF FirmwareTypes, FirmwareStates, Promises, AnsweredInForce, FiltersAsAsked
  <1> QED
    BY <1>1, <1>2, <1>3
       DEF HotspotCommand, wpa_driver_sta_block, wpa_driver_sta_unblock,
           wpa_driver_set_max_client

(* A power saving command writes its own register, and P2P_SET_PS one from  *)
(* which both of its values can be read back.                               *)
LEMMA PowerSaveKeeps ==
    ASSUME FirmwareInv, PowerSaveCommand
    PROVE  FirmwareInv'
  <1> USE DEF FirmwareInv
  <1>1. CASE Refused
    BY <1>1 DEF Refused, FirmwareTypes, FirmwareStates, Promises, AnsweredInForce, FiltersAsAsked
  <1>2. ASSUME NEW index \in {Sleep, Opps, PowerSave}, NEW value \in Int,
               wpas_p2p_sigma_test_mode(index, value)
        PROVE  /\ firmware' \in FirmwareStates
               /\ firmware'.filters = firmware.filters
               /\ firmware'.filtering = firmware.filtering
               /\ firmware'.blocked = firmware.blocked
               /\ firmware'.noa = firmware.noa
               /\ firmware'.sigma = [firmware.sigma EXCEPT ![index] = value]
    BY <1>2 DEF wpas_p2p_sigma_test_mode, FirmwareTypes, FirmwareStates
  <1>3. ASSUME NEW ctw \in CtWindows, p2p_ctrl_iface_set_opps(ctw) PROVE FirmwareInv'
    <2>1. CASE wpas_p2p_sigma_test_mode(Opps, ctw)
               /\ promised' = [promised EXCEPT !.opps = {}]
      <3>1. ctw \in Int
        BY FirmwareAssumption
      <3> QED
        BY <1>2, <2>1, <3>1 DEF FirmwareTypes, FirmwareStates, Promises, AnsweredInForce, FiltersAsAsked
    <2> QED
      BY <1>1, <1>3, <2>1 DEF p2p_ctrl_iface_set_opps
  <1>4. ASSUME NEW index \in {Sleep, PowerSave}, NEW value \in {0, 1},
               wpas_p2p_sigma_test_mode(index, value), UNCHANGED promised
        PROVE  FirmwareInv'
    <2>1. /\ index \in {Sleep, Opps, PowerSave} /\ value \in Int /\ index # Opps
          /\ firmware.sigma \in [{Sleep, Opps, PowerSave} -> Int]
      BY <1>4 DEF FirmwareTypes, FirmwareStates, Sleep, Opps, PowerSave
    <2>2. firmware'.sigma = [firmware.sigma EXCEPT ![index] = value]
      BY <1>2, <1>4, <2>1
    <2>3. firmware'.sigma[Opps] = firmware.sigma[Opps]
      BY <2>1, <2>2
    <2>4. /\ firmware'.filters = firmware.filters /\ firmware'.filtering = firmware.filtering
          /\ firmware'.blocked = firmware.blocked /\ firmware'.noa = firmware.noa
      BY <1>2, <1>4, <2>1
    <2>5. FirmwareTypes'
      BY <1>2, <1>4, <2>1 DEF FirmwareTypes
    <2>6. AnsweredInForce'
      BY <1>4, <2>3, <2>4 DEF AnsweredInForce, FiltersAsAsked
    <2> QED
      BY <2>5, <2>6
  <1>5. ASSUME NEW noa \in Absences, p2p_ctrl_iface_set_noa(noa) PROVE FirmwareInv'
    <2>1. CASE firmware' = [firmware EXCEPT !.noa = noa]
               /\ promised' = [promised EXCEPT !.noa = {noa}]
      BY <2>1 DEF FirmwareTypes, FirmwareStates, Promises, AnsweredInForce, FiltersAsAsked
    <2> QED
      BY <1>1, <1>5, <2>1 DEF p2p_ctrl_iface_set_noa
  <1>6. ASSUME NEW enable \in BOOLEAN, NEW ctw \in CtWindows, p2p_ctrl_iface_set_ps(enable, ctw)
        PROVE  FirmwareInv'
    <2>1. CASE /\ wpas_p2p_sigma_test_mode(Opps, OppsValue(enable, ctw))
               /\ promised' = [promised EXCEPT !.opps = {[on |-> enable, ctw |-> ctw]}]
      <3>1. PICK value \in Int : value = OppsValue(enable, ctw)
        BY FirmwareAssumption DEF OppsValue
      <3>2. /\ enable => Bit7(value)
            /\ ctw < 128 => (Bit7(value) => enable) /\ value % 128 = ctw
        BY <3>1, FirmwareAssumption DEF OppsValue, Bit7
      <3>3. firmware'.sigma[Opps] = value
        <4>1. /\ firmware.sigma \in [{Sleep, Opps, PowerSave} -> Int]
              /\ Opps \in {Sleep, Opps, PowerSave}
          BY DEF FirmwareTypes, FirmwareStates
        <4>2. firmware'.sigma = [firmware.sigma EXCEPT ![Opps] = value]
          BY <1>2, <2>1, <3>1, <4>1
        <4> QED
          BY <4>1, <4>2
      <3>4. promised' \in Promises
            /\ promised'.sure = promised.sure
            /\ promised'.opps = {[on |-> enable, ctw |-> ctw]}
            /\ promised'.filters = promised.filters
            /\ promised'.filtering = promised.filtering
            /\ promised'.blocked = promised.blocked
            /\ promised'.unblocked = promised.unblocked
            /\ promised'.noa = promised.noa
        BY <2>1 DEF FirmwareTypes, Promises
      <3>5. \A ps \in promised'.opps : ps.on = enable /\ ps.ctw = ctw
        BY <3>4
      <3> QED
        BY <1>2, <2>1, <3>1, <3>2, <3>3, <3>4, <3>5
           DEF FirmwareTypes, AnsweredInForce, FiltersAsAsked, PsInForce
    <2> QED
      BY <1>1, <1>6, <2>1 DEF p2p_ctrl_iface_set_ps
  <1> QED
    BY <1>1, <1>3, <1>4, <1>5, <1>6
       DEF PowerSaveCommand, p2p_ctrl_iface_set_power_save, p2p_ctrl_iface_set_sleep, Absences

(* What a client was told is in force stays in force, whatever the firmware *)
(* refuses later; the receive filters only as long as it refuses none of    *)
(* their commands, which are answered with success all the same.            *)
THEOREM AnsweredStaysInForce == Spec => []AnsweredInForce
  <1>1. Init => FirmwareInv
    <2> SUFFICES ASSUME FirmwareInit PROVE FirmwareInv
      BY DEF Init
    <2>1. [x \in {Sleep, Opps, PowerSave} |-> 0] \in [{Sleep, Opps, PowerSave} -> Int]
      OBVIOUS
    <2> QED
      BY <2>1 DEF FirmwareInit, FirmwareInv, FirmwareTypes, FirmwareStates, Promises, AnsweredInForce, FiltersAsAsked
  <1>2. FirmwareInv /\ [Next]_vars => FirmwareInv'
    <2> SUFFICES ASSUME FirmwareInv, [Next]_vars PROVE FirmwareInv'
      OBVIOUS
    <2>1. \/ RxFilterCommand \/ HotspotCommand \/ PowerSaveCommand
          \/ UNCHANGED <<firmware, promised>>
      BY DEF Next, Transparent, Miracast, UseMcc, Mcc, Country, Start, Stop, AcsStarts,
         AcsPolls, FirmwareCommand, StatisticsCommand, LinkChanges, IfaceAdded,
         IfaceRemoved, vars, radio, fixed
    <2>2. CASE UNCHANGED <<firmware, promised>>
      BY <2>2 DEF FirmwareInv, FirmwareTypes, FirmwareStates, Promises, AnsweredInForce, FiltersAsAsked
    <2> QED
      BY <2>1, <2>2, RxFilterKeeps, HotspotKeeps, PowerSaveKeeps
  <1>3. FirmwareInv => AnsweredInForce
    BY DEF FirmwareInv
  <1> QED
    BY <1>1, <1>2, <1>3, PTL DEF Spec

-----------------------------------------------------------------------------
(* Statistics of P2P peers.                                                 *)

(* What the supplicant knows of the peers on its network: an owner is known *)
(* by the BSSID, a client that does not use its device address by the       *)
(* address it was announced with; a peer that never did has no address, and *)
(* without P2P there are no peers.                                          *)
GroupInv ==
    /\ DOMAIN peers \subseteq Peers
    /\ \A p \in DOMAIN peers : peers[p] \in Interfaces(p) \cup {Zero}
    /\ group.mode \in {"none", "INFRA", "GO"}
    /\ DOMAIN group.members \subseteq DOMAIN peers
    /\ \A p \in DOMAIN group.members : group.members[p] \in Transmits(p)
    /\ group.mode = "none" => DOMAIN group.members = {}
    /\ group.mode = "INFRA" => \A p \in DOMAIN group.members : group.bssid = group.members[p]
    /\ group.mode = "GO" => \A p \in DOMAIN group.members :
                               group.members[p] \in {Device(p), peers[p]}
    /\ ~p2p => DOMAIN peers = {}

(* No address is null or zero, and none that was made up for a group is the *)
(* device address.                                                          *)
LEMMA AddressesDiffer ==
    ASSUME NEW p
    PROVE  /\ Device(p) # Zero /\ Device(p) # NULL /\ Zero # NULL
           /\ \A a \in Interfaces(p) : a # Device(p) /\ a # Zero /\ a # NULL
  BY DEF Device, Interfaces, Zero, NULL

(* wpas_p2p_get_sta_mac finds the address a peer on the network transmits   *)
(* under, or none when that is the address the client gave, unless what it  *)
(* knows is outdated.                                                       *)
LEMMA MacIs ==
    ASSUME GroupInv, NEW p \in DOMAIN group.members, ~Outdated(p)
    PROVE  LET mac == wpas_p2p_get_sta_mac(p, p2p) IN
           group.members[p] = IF mac # NULL THEN mac ELSE Device(p)
  <1>1. /\ p \in DOMAIN peers /\ p2p /\ group.mode \in {"INFRA", "GO"}
        /\ group.members[p] \in Interfaces(p) \cup {Device(p)}
        /\ peers[p] \in Interfaces(p) \cup {Zero}
    BY DEF GroupInv, Transmits
  <1>2. group.members[p] = Device(p) => peers[p] = Zero
    BY DEF Outdated
  <1>3. CASE group.mode = "INFRA"
    <2>1. group.bssid = group.members[p]
      BY <1>3 DEF GroupInv
    <2> QED
      BY <1>1, <1>2, <1>3, <2>1, AddressesDiffer DEF wpas_p2p_get_sta_mac
  <1>4. CASE group.mode = "GO"
    <2>1. group.members[p] \in {Device(p), peers[p]}
      BY <1>4 DEF GroupInv
    <2> QED
      BY <1>1, <1>2, <1>4, <2>1, AddressesDiffer DEF wpas_p2p_get_sta_mac
  <1> QED
    BY <1>1, <1>3, <1>4

(* The supplicant's own changes and the queries keep what it knows right.   *)
LEMMA StatisticsKeeps ==
    ASSUME GroupInv, AsksForTransmitter, StatisticsNext(p2p), UNCHANGED p2p
    PROVE  GroupInv' /\ AsksForTransmitter'
  <1>1. ASSUME NEW p \in Peers, p2p, PeerFound(p) PROVE GroupInv' /\ AsksForTransmitter'
    <2>1. /\ p \notin DOMAIN peers /\ DOMAIN peers' = DOMAIN peers \cup {p} /\ peers'[p] = Zero
          /\ \A q \in DOMAIN peers : peers'[q] = peers[q]
          /\ UNCHANGED <<group, query>>
      BY <1>1 DEF PeerFound
    <2>2. \A q \in DOMAIN group.members : q \in DOMAIN peers
      BY DEF GroupInv
    <2> QED
      BY <1>1, <2>1, <2>2 DEF GroupInv, AsksForTransmitter
  <1>2. CASE GroupChanges
    <2>1. UNCHANGED <<peers, query>>
      BY <1>2 DEF GroupChanges
    <2>2. CASE group' \in {NoGroup, [NoGroup EXCEPT !.mode = "GO"],
                           [NoGroup EXCEPT !.mode = "INFRA", !.bssid = AP]}
      <3>1. group'.mode \in {"none", "INFRA", "GO"} /\ DOMAIN group'.members = {}
        <4>1. CASE group' = NoGroup
          BY <4>1 DEF NoGroup
        <4>2. CASE group' = [NoGroup EXCEPT !.mode = "GO"]
          BY <4>2 DEF NoGroup
        <4>3. CASE group' = [NoGroup EXCEPT !.mode = "INFRA", !.bssid = AP]
          BY <4>3 DEF NoGroup
        <4> QED
          BY <2>2, <4>1, <4>2, <4>3
      <3> QED
        BY <2>1, <3>1 DEF GroupInv, AsksForTransmitter
    <2>3. CASE \E p \in DOMAIN peers : \E a \in Transmits(p) :
                  group' = [mode |-> "INFRA", bssid |-> a, members |-> [q \in {p} |-> a]]
      <3>1. PICK p \in DOMAIN peers : \E a \in Transmits(p) :
               group' = [mode |-> "INFRA", bssid |-> a, members |-> [q \in {p} |-> a]]
        BY <2>3
      <3>2. PICK a \in Transmits(p) :
               group' = [mode |-> "INFRA", bssid |-> a, members |-> [q \in {p} |-> a]]
        BY <3>1
      <3>3. /\ group'.mode = "INFRA" /\ group'.bssid = a
            /\ DOMAIN group'.members = {p} /\ group'.members[p] = a
        BY <3>2
      <3> QED
        BY <2>1, <3>3 DEF GroupInv, AsksForTransmitter
    <2> QED
      BY <1>2, <2>2, <2>3 DEF GroupChanges
  <1>3. ASSUME NEW p \in Peers, NEW a \in Transmits(p), PeerJoins(p, a)
        PROVE  GroupInv' /\ AsksForTransmitter'
    <2>1. /\ group.mode = "GO" /\ p \in DOMAIN peers /\ DOMAIN peers' = DOMAIN peers
          /\ p \notin DOMAIN group.members
          /\ \A q \in DOMAIN peers :
                peers'[q] = IF q = p /\ a # Device(p) THEN a ELSE peers[q]
          /\ query' = query
      BY <1>3 DEF PeerJoins
    <2>2. /\ group'.mode = "GO" /\ DOMAIN group'.members = DOMAIN group.members \cup {p}
          /\ group'.members[p] = a
          /\ \A q \in DOMAIN group.members : group'.members[q] = group.members[q]
      BY <1>3, <2>1 DEF PeerJoins
    <2>3. \A q \in DOMAIN peers' : peers'[q] \in Interfaces(q) \cup {Zero}
      BY <2>1 DEF GroupInv, Transmits
    <2>4. \A q \in DOMAIN group'.members : group'.members[q] \in {Device(q), peers'[q]}
      <3>1. group'.members[p] \in {Device(p), peers'[p]}
        BY <2>1, <2>2
      <3>2. ASSUME NEW q \in DOMAIN group.members
            PROVE  group'.members[q] \in {Device(q), peers'[q]}
        <4>1. q # p /\ q \in DOMAIN peers
          BY <2>1 DEF GroupInv
        <4>2. group'.members[q] = group.members[q] /\ peers'[q] = peers[q]
          BY <2>1, <2>2, <4>1
        <4> QED
          BY <2>1, <4>2 DEF GroupInv
      <3> QED
        BY <2>2, <3>1, <3>2
    <2>5. \A q \in DOMAIN group'.members : group'.members[q] \in Transmits(q) /\ q \in DOMAIN peers'
      BY <2>1, <2>2 DEF GroupInv
    <2> QED
      BY <2>1, <2>2, <2>3, <2>4, <2>5 DEF GroupInv, AsksForTransmitter
  <1>4. ASSUME NEW p \in Peers, wpa_driver_get_sta_statistics(p, p2p)
        PROVE  GroupInv' /\ AsksForTransmitter'
    <2>1. UNCHANGED <<peers, group>>
      BY <1>4 DEF wpa_driver_get_sta_statistics
    <2>2. PICK mac : mac = wpas_p2p_get_sta_mac(p, p2p)
      OBVIOUS
    <2>3. /\ query'.addr = (IF mac # NULL THEN mac ELSE Device(p))
          /\ query'.under = (IF p \in DOMAIN group.members THEN group.members[p] ELSE NULL)
          /\ query'.outdated = Outdated(p)
      BY <1>4, <2>2 DEF wpa_driver_get_sta_statistics
    <2>4. AsksForTransmitter'
      <3> SUFFICES ASSUME query'.under # NULL, ~query'.outdated
                   PROVE  query'.addr = query'.under
        BY DEF AsksForTransmitter
      <3>1. p \in DOMAIN group.members /\ ~Outdated(p)
        BY <2>3
      <3> QED
        BY <2>2, <2>3, <3>1, MacIs
    <2> QED
      BY <2>1, <2>4 DEF GroupInv
  <1> QED
    BY <1>1, <1>2, <1>3, <1>4 DEF StatisticsNext

(* A peer on this device's network is asked for by the address it transmits *)
(* under, for any number of addresses and whatever was found, formed and    *)
(* joined before, unless it is back at its device address after a group in  *)
(* which it had another.                                                    *)
THEOREM TransmitterAsked == Spec => []AsksForTransmitter
  <1>1. Init => GroupInv /\ AsksForTransmitter
    <2> SUFFICES ASSUME Init PROVE GroupInv /\ AsksForTransmitter
      OBVIOUS
    <2>1. DOMAIN peers = {} /\ group = NoGroup /\ query.under = NULL
      BY DEF Init, StatisticsInit
    <2>2. NoGroup.mode = "none" /\ DOMAIN NoGroup.members = {}
      BY DEF NoGroup
    <2> QED
      BY <2>1, <2>2 DEF GroupInv, AsksForTransmitter
  <1>2. GroupInv /\ AsksForTransmitter /\ [Next]_vars => (GroupInv /\ AsksForTransmitter)'
    <2> SUFFICES ASSUME GroupInv, AsksForTransmitter, [Next]_vars
                 PROVE  GroupInv' /\ AsksForTransmitter'
      OBVIOUS
    <2>1. UNCHANGED p2p /\ (StatisticsNext(p2p) \/ UNCHANGED statistics)
      BY DEF Next, Transparent, Miracast, UseMcc, Mcc, Country, Start, Stop, AcsStarts,
         AcsPolls, FirmwareCommand, StatisticsCommand, LinkChanges, IfaceAdded,
         IfaceRemoved, vars, radio, fixed
    <2>2. CASE UNCHANGED statistics
      BY <2>1, <2>2 DEF statistics, GroupInv, AsksForTransmitter
    <2> QED
      BY <2>1, <2>2, StatisticsKeeps
  <1> QED
    BY <1>1, <1>2, PTL DEF Spec

-----------------------------------------------------------------------------
(* Folds.  The induction theorems of the library take an operator, which    *)
(* the provers cannot instantiate; the least element of a set of numbers    *)
(* takes a set, and from it follow induction for sets and what a fold does. *)

(* A non-empty set of naturals has a least element.                         *)
LEMMA LeastNumber ==
    ASSUME NEW T, T \subseteq Nat, T # {}
    PROVE  \E n \in T : \A m \in T : n <= m
  <1> DEFINE R == OpToRel(<, Nat)
  <1>1. IsWellFoundedOn(R, Nat)
    BY NatLessThanWellFounded
  <1>2. PICK x \in T : \A y \in T : ~ (<<y, x>> \in R)
    <2> HIDE DEF R
    <2> QED BY <1>1, WFMin
  <1>3. \A y \in T : ~ (y < x)
    BY <1>2 DEF OpToRel
  <1> QED BY <1>3

(* Induction, for the set of numbers that have the property.                *)
LEMMA Induction ==
    ASSUME NEW T, T \subseteq Nat, 0 \in T, \A n \in T : n + 1 \in T
    PROVE  T = Nat
  <1> SUFFICES ASSUME Nat \ T # {} PROVE FALSE
    OBVIOUS
  <1>1. PICK n \in Nat \ T : \A m \in Nat \ T : n <= m
    BY LeastNumber
  <1>2. n # 0 /\ n - 1 \in Nat /\ n - 1 \notin Nat \ T
    BY <1>1
  <1> QED BY <1>2

(* A non-empty set of indices has a largest.                                *)
LEMMA LargestIndex ==
    ASSUME NEW n \in Nat, NEW s \in SUBSET (1..n), s # {}
    PROVE  Max(s) \in s /\ Max(s) \in 1..n /\ \A i \in s : Max(s) >= i
  <1> DEFINE T == {m \in Nat : \A i \in s : i <= m}
  <1>1. T \subseteq Nat /\ T # {}
    <2>1. n \in T
      OBVIOUS
    <2> QED BY <2>1
  <1>2. PICK m \in T : \A k \in T : m <= k
    <2> HIDE DEF T
    <2> QED BY <1>1, LeastNumber
  <1>3. m \in s
    <2> SUFFICES ASSUME m \notin s PROVE FALSE
      OBVIOUS
    <2>1. PICK i \in s : TRUE
      OBVIOUS
    <2>2. i \in Nat /\ i <= m /\ i # m /\ i >= 1
      BY <1>2, <2>1
    <2>3. m - 1 \in T
      BY <1>2, <2>2
    <2> QED BY <1>2, <2>2, <2>3
  <1>4. \E x \in s : \A y \in s : x >= y
    BY <1>2, <1>3
  <1>5. Max(s) \in s /\ \A i \in s : Max(s) >= i
    BY <1>4 DEF Max
  <1> QED BY <1>5

(* FoldLeft is defined by a function h on sets of indices: nothing gives    *)
(* base, and the largest index i applies G[i] to what the others give.  G   *)
(* stands for the operator that is folded, on the values V.                 *)
FoldsBy(h, n, V, base, G) ==
    /\ h[{}] = base
    /\ \A s \in SUBSET (1..n) :
          s # {} /\ h[s \ {Max(s)}] \in V => h[s] = G[Max(s)][h[s \ {Max(s)}]]

(* There is such a function.                                                *)
LEMMA FoldExists ==
    ASSUME NEW N \in Nat, NEW V, NEW base \in V, NEW G \in [1..N -> [V -> V]]
    PROVE  \E h \in [SUBSET (1..N) -> V] : FoldsBy(h, N, V, base, G)
  <1> DEFINE Has(n) == \E h \in [SUBSET (1..n) -> V] : FoldsBy(h, n, V, base, G)
  <1> DEFINE T == {n \in Nat : n <= N => Has(n)}
  <1>1. Has(0)
    <2>1. SUBSET (1..0) = {{}}
      OBVIOUS
    <2> DEFINE h == [s \in SUBSET (1..0) |-> base]
    <2>2. h \in [SUBSET (1..0) -> V]
      OBVIOUS
    <2>3. FoldsBy(h, 0, V, base, G)
      BY <2>1 DEF FoldsBy
    <2> QED BY <2>2, <2>3
  <1>2. ASSUME NEW n \in Nat, n + 1 <= N, Has(n) PROVE Has(n + 1)
    <2>1. PICK h \in [SUBSET (1..n) -> V] : FoldsBy(h, n, V, base, G)
      BY <1>2
    <2> DEFINE g == [s \in SUBSET (1..(n + 1)) |->
                        IF n + 1 \in s THEN G[n + 1][h[s \ {n + 1}]] ELSE h[s]]
    <2>2. \A s \in SUBSET (1..(n + 1)) : s \ {n + 1} \in SUBSET (1..n)
      OBVIOUS
    <2>3. g \in [SUBSET (1..(n + 1)) -> V]
      BY <1>2, <2>2
    <2>4. ASSUME NEW s \in SUBSET (1..(n + 1)), s # {}
          PROVE  g[s] = G[Max(s)][g[s \ {Max(s)}]]
      <3>1. CASE n + 1 \in s
        <4>1. Max(s) = n + 1
          <5>1. Max(s) \in 1..(n + 1) /\ \A i \in s : Max(s) >= i
            <6>1. n + 1 \in Nat
              OBVIOUS
            <6> HIDE DEF g
            <6> QED BY <2>4, <6>1, LargestIndex
          <5>2. Max(s) >= n + 1
            BY <3>1, <5>1
          <5> QED BY <5>1, <5>2
        <4>2. g[s \ {n + 1}] = h[s \ {n + 1}]
          BY <2>2
        <4> QED BY <3>1, <4>1, <4>2
      <3>2. CASE n + 1 \notin s
        <4>1. s \in SUBSET (1..n) /\ s \ {Max(s)} \in SUBSET (1..n)
          BY <3>2, <2>2
        <4>2. h[s] = G[Max(s)][h[s \ {Max(s)}]]
          BY <2>1, <2>4, <4>1 DEF FoldsBy
        <4>3. g[s] = h[s] /\ g[s \ {Max(s)}] = h[s \ {Max(s)}]
          BY <3>2, <4>1
        <4> QED BY <4>2, <4>3
      <3> QED BY <3>1, <3>2
    <2>5. g[{}] = base
      <3>1. {} \in SUBSET (1..(n + 1)) /\ h[{}] = base
        BY <2>1 DEF FoldsBy
      <3> QED BY <3>1
    <2>6. FoldsBy(g, n + 1, V, base, G)
      <3> HIDE DEF g
      <3> QED BY <2>4, <2>5 DEF FoldsBy
    <2> QED BY <2>3, <2>6
  <1>3. T = Nat
    <2>1. 0 \in T
      BY <1>1
    <2>2. ASSUME NEW n \in T PROVE n + 1 \in T
      <3> HIDE DEF Has
      <3> QED BY <1>2
    <2> HIDE DEF T
    <2> QED BY <2>1, <2>2, Induction DEF T
  <1> HIDE DEF Has
  <1>4. Has(N)
    BY <1>3
  <1> QED BY <1>4 DEF Has

(* result is reached from base by the functions of G in their order.        *)
Reached(result, N, V, base, G) ==
    \E f \in [0..N -> V] : /\ f[0] = base /\ f[N] = result
                           /\ \A k \in 1..N : f[k] = G[k][f[k - 1]]

(* A fold whose steps stay within V goes through its prefixes.              *)
LEMMA FoldPrefixes ==
    ASSUME NEW N \in Nat, NEW V, NEW base \in V, NEW G \in [1..N -> [V -> V]], NEW h,
           FoldsBy(h, N, V, base, G)
    PROVE  Reached(h[1..N], N, V, base, G)
  <1> DEFINE T == {k \in Nat : k <= N => h[1..k] \in V}
  <1>1. ASSUME NEW k \in 1..N, h[1..(k - 1)] \in V
        PROVE  h[1..k] = G[k][h[1..(k - 1)]]
    <2>1. k \in Nat /\ k \in 1..k /\ \A i \in 1..k : i \in 1..N
      OBVIOUS
    <2>2. 1..k \in SUBSET (1..N) /\ 1..k # {}
      BY <2>1
    <2>3. (1..k) \ {k} = 1..(k - 1)
      OBVIOUS
    <2>4. Max(1..k) \in 1..k /\ Max(1..k) >= k
      BY <2>1, <2>2, LargestIndex
    <2>5. Max(1..k) = k
      BY <2>4
    <2> QED BY <1>1, <2>2, <2>3, <2>5 DEF FoldsBy
  <1>2. T = Nat
    <2>1. 0 \in T
      <3>1. 1..0 = {}
        OBVIOUS
      <3> QED BY <3>1 DEF FoldsBy
    <2>2. ASSUME NEW k \in T PROVE k + 1 \in T
      <3> SUFFICES ASSUME k + 1 <= N PROVE h[1..(k + 1)] \in V
        OBVIOUS
      <3>1. k + 1 \in 1..N /\ (k + 1) - 1 = k /\ h[1..k] \in V
        BY <2>2
      <3>2. h[1..(k + 1)] = G[k + 1][h[1..k]]
        BY <1>1, <3>1
      <3> QED BY <3>1, <3>2
    <2> HIDE DEF T
    <2> QED BY <2>1, <2>2, Induction DEF T
  <1> DEFINE f == [k \in 0..N |-> h[1..k]]
  <1>3. \A k \in 0..N : h[1..k] \in V
    BY <1>2
  <1>4. f \in [0..N -> V]
    BY <1>3
  <1>5. f[0] = base /\ f[N] = h[1..N]
    <2>1. 1..0 = {}
      OBVIOUS
    <2> QED BY <2>1 DEF FoldsBy
  <1>6. ASSUME NEW k \in 1..N PROVE f[k] = G[k][f[k - 1]]
    <2>1. k - 1 \in 0..N /\ k \in 0..N
      OBVIOUS
    <2> QED BY <1>1, <1>3, <2>1
  <1> HIDE DEF f
  <1> QED BY <1>4, <1>5, <1>6 DEF Reached

-----------------------------------------------------------------------------
(* The lines of the statistics.                                             *)

(* Where a line of length ret leaves the end of the text, -1 once a line    *)
(* was refused.                                                             *)
PrintLine(buflen, pos, ret) ==
    IF pos = -1 \/ ret >= buflen - pos THEN -1 ELSE pos + ret

(* The sum of the lengths goes line by line.                                *)
LEMMA LinesSummed ==
    \E f \in [0..Len(LineLengths) -> Nat] :
              /\ f[0] = 0
              /\ f[Len(LineLengths)] = TotalLength
              /\ \A k \in 1..Len(LineLengths) : f[k] = f[k - 1] + LineLengths[k]
  <1> DEFINE N == Len(LineLengths)
  <1> DEFINE G == [i \in 1..N |-> [v \in Nat |-> v + LineLengths[i]]]
  <1> DEFINE Def(h) == h = [s \in SUBSET DOMAIN LineLengths |->
                    IF s = {} THEN 0 ELSE h[s \ {Max(s)}] + LineLengths[Max(s)]]
  <1> DEFINE fold == CHOOSE h : Def(h)
  <1>1. TotalLength = fold[DOMAIN LineLengths]
    BY DEF FoldLeft, MapThenFoldSet, TotalLength
  <1>2. N \in Nat /\ DOMAIN LineLengths = 1..N /\ \A i \in 1..N : LineLengths[i] \in Nat \ {0}
    BY StatisticsAssumption
  <1>3. 0 \in Nat
    OBVIOUS
  <1>4. G \in [1..N -> [Nat -> Nat]]
    BY <1>2
  <1>5. PICK h \in [SUBSET (1..N) -> Nat] : FoldsBy(h, N, Nat, 0, G)
    <2> HIDE DEF N, G
    <2> QED BY <1>2, <1>3, <1>4, FoldExists
  <1>6. Def(h)
    <2>1. ASSUME NEW s \in SUBSET (1..N), s # {}
          PROVE  h[s] = h[s \ {Max(s)}] + LineLengths[Max(s)]
      <3>1. Max(s) \in 1..N
        BY <1>2, <2>1, LargestIndex
      <3>2. h[s \ {Max(s)}] \in Nat
        OBVIOUS
      <3> QED BY <1>5, <2>1, <3>1, <3>2 DEF FoldsBy
    <2>2. h[{}] = 0
      BY <1>5 DEF FoldsBy
    <2> HIDE DEF N
    <2> QED BY <1>2, <2>1, <2>2
  <1>7. Def(fold)
    <2> HIDE DEF Def
    <2> QED BY <1>6
  <1>8. FoldsBy(fold, N, Nat, 0, G)
    <2> HIDE DEF fold
    <2>1. ASSUME NEW s \in SUBSET (1..N), s # {}, fold[s \ {Max(s)}] \in Nat
          PROVE  fold[s] = G[Max(s)][fold[s \ {Max(s)}]]
      <3>1. Max(s) \in 1..N
        BY <1>2, <2>1, LargestIndex
      <3>2. fold[s] = fold[s \ {Max(s)}] + LineLengths[Max(s)]
        BY <1>2, <1>7, <2>1
      <3> QED BY <2>1, <3>1, <3>2
    <2>2. fold[{}] = 0
      BY <1>7
    <2> QED BY <2>1, <2>2 DEF FoldsBy
  <1>9. Reached(fold[1..N], N, Nat, 0, G)
    <2> HIDE DEF N, G, fold
    <2> QED BY <1>2, <1>3, <1>4, <1>8, FoldPrefixes
  <1>10. PICK f \in [0..N -> Nat] : /\ f[0] = 0 /\ f[N] = fold[1..N]
                                    /\ \A k \in 1..N : f[k] = G[k][f[k - 1]]
    BY <1>9 DEF Reached
  <1>11. ASSUME NEW k \in 1..N PROVE f[k] = f[k - 1] + LineLengths[k]
    <2>1. k - 1 \in 0..N
      BY <1>2
    <2>2. f[k - 1] \in Nat
      BY <2>1
    <2>3. f[k] = G[k][f[k - 1]]
      BY <1>10
    <2> HIDE DEF N
    <2> QED BY <2>2, <2>3
  <1> HIDE DEF fold
  <1> QED BY <1>1, <1>2, <1>10, <1>11

(* So does print_sta_statistics.                                            *)
LEMMA LinesPrinted ==
    ASSUME NEW buflen \in Nat
    PROVE  \E f \in [0..Len(LineLengths) -> Int] :
              /\ f[0] = 0
              /\ print_sta_statistics(buflen)
                   = IF f[Len(LineLengths)] = -1 THEN 0 ELSE f[Len(LineLengths)]
              /\ \A k \in 1..Len(LineLengths) : f[k] = PrintLine(buflen, f[k - 1], LineLengths[k])
  <1> DEFINE N == Len(LineLengths)
  <1> DEFINE G == [i \in 1..N |-> [v \in Int |-> PrintLine(buflen, v, LineLengths[i])]]
  <1> DEFINE Def(h) == h = [s \in SUBSET DOMAIN LineLengths |->
                    IF s = {} THEN 0 ELSE PrintLine(buflen, h[s \ {Max(s)}], LineLengths[Max(s)])]
  <1> DEFINE fold == CHOOSE h : Def(h)
  <1>1. print_sta_statistics(buflen)
          = IF fold[DOMAIN LineLengths] = -1 THEN 0 ELSE fold[DOMAIN LineLengths]
    BY DEF FoldLeft, MapThenFoldSet, PrintLine, print_sta_statistics
  <1>2. N \in Nat /\ DOMAIN LineLengths = 1..N /\ \A i \in 1..N : LineLengths[i] \in Nat \ {0}
    BY StatisticsAssumption
  <1>3. 0 \in Int
    OBVIOUS
  <1>4. G \in [1..N -> [Int -> Int]]
    BY <1>2 DEF PrintLine
  <1>5. PICK h \in [SUBSET (1..N) -> Int] : FoldsBy(h, N, Int, 0, G)
    <2> HIDE DEF N, G
    <2> QED BY <1>2, <1>3, <1>4, FoldExists
  <1>6. Def(h)
    <2>1. ASSUME NEW s \in SUBSET (1..N), s # {}
          PROVE  h[s] = PrintLine(buflen, h[s \ {Max(s)}], LineLengths[Max(s)])
      <3>1. Max(s) \in 1..N
        BY <1>2, <2>1, LargestIndex
      <3>2. h[s \ {Max(s)}] \in Int
        OBVIOUS
      <3> QED BY <1>5, <2>1, <3>1, <3>2 DEF FoldsBy
    <2>2. h[{}] = 0
      BY <1>5 DEF FoldsBy
    <2> HIDE DEF N
    <2> QED BY <1>2, <2>1, <2>2
  <1>7. Def(fold)
    <2> HIDE DEF Def
    <2> QED BY <1>6
  <1>8. FoldsBy(fold, N, Int, 0, G)
    <2> HIDE DEF fold
    <2>1. ASSUME NEW s \in SUBSET (1..N), s # {}, fold[s \ {Max(s)}] \in Int
          PROVE  fold[s] = G[Max(s)][fold[s \ {Max(s)}]]
      <3>1. Max(s) \in 1..N
        BY <1>2, <2>1, LargestIndex
      <3>2. fold[s] = PrintLine(buflen, fold[s \ {Max(s)}], LineLengths[Max(s)])
        BY <1>2, <1>7, <2>1
      <3> QED BY <2>1, <3>1, <3>2
    <2>2. fold[{}] = 0
      BY <1>7
    <2> QED BY <2>1, <2>2 DEF FoldsBy
  <1>9. Reached(fold[1..N], N, Int, 0, G)
    <2> HIDE DEF N, G, fold
    <2> QED BY <1>2, <1>3, <1>4, <1>8, FoldPrefixes
  <1>10. PICK f \in [0..N -> Int] : /\ f[0] = 0 /\ f[N] = fold[1..N]
                                    /\ \A k \in 1..N : f[k] = G[k][f[k - 1]]
    BY <1>9 DEF Reached
  <1>11. ASSUME NEW k \in 1..N PROVE f[k] = PrintLine(buflen, f[k - 1], LineLengths[k])
    <2>1. k - 1 \in 0..N
      BY <1>2
    <2>2. f[k - 1] \in Int
      BY <2>1
    <2>3. f[k] = G[k][f[k - 1]]
      BY <1>10
    <2> HIDE DEF N
    <2> QED BY <2>2, <2>3
  <1> HIDE DEF fold
  <1> QED BY <1>1, <1>2, <1>10, <1>11

(* What is printed into a buffer of buflen bytes: all, or nothing.          *)
LEMMA PrintsAllOrNothing ==
    ASSUME NEW buflen \in Nat
    PROVE  print_sta_statistics(buflen) = IF TotalLength < buflen THEN TotalLength ELSE 0
  <1> DEFINE N == Len(LineLengths)
  <1>1. N \in Nat /\ \A i \in 1..N : LineLengths[i] \in Nat \ {0}
    BY StatisticsAssumption
  <1>2. PICK sum \in [0..N -> Nat] :
          /\ sum[0] = 0
          /\ sum[N] = TotalLength
          /\ \A k \in 1..N : sum[k] = sum[k - 1] + LineLengths[k]
    BY LinesSummed
  <1>3. PICK pos \in [0..N -> Int] :
          /\ pos[0] = 0
          /\ print_sta_statistics(buflen) = IF pos[N] = -1 THEN 0 ELSE pos[N]
          /\ \A k \in 1..N : pos[k] = PrintLine(buflen, pos[k - 1], LineLengths[k])
    BY LinesPrinted
  <1> DEFINE Claim(k) == pos[k] = IF k = 0 \/ sum[k] < buflen THEN sum[k] ELSE -1
  <1> DEFINE T == {k \in Nat : k <= N => Claim(k)}
  <1> HIDE DEF N
  <1>4. T = Nat
    <2>1. 0 \in T
      BY <1>2, <1>3
    <2>2. ASSUME NEW k \in T PROVE k + 1 \in T
      <3> SUFFICES ASSUME k + 1 <= N PROVE Claim(k + 1)
        OBVIOUS
      <3>1. /\ k \in 0..N /\ k + 1 \in 1..N /\ k + 1 \in 0..N /\ (k + 1) - 1 = k /\ k + 1 # 0
            /\ Claim(k)
        BY <1>1, <2>2
      <3>2. sum[k] \in Nat /\ pos[k] \in Int /\ LineLengths[k + 1] \in Nat \ {0}
        BY <1>1, <3>1
      <3>3. sum[k + 1] = sum[k] + LineLengths[k + 1]
        BY <1>2, <3>1
      <3>4. pos[k + 1] = PrintLine(buflen, pos[k], LineLengths[k + 1])
        BY <1>3, <3>1
      <3>5. CASE pos[k] = -1
        <4>1. sum[k] >= buflen
          BY <3>1, <3>2, <3>5
        <4> QED BY <3>1, <3>2, <3>3, <3>4, <3>5, <4>1 DEF PrintLine
      <3>6. CASE pos[k] # -1
        <4>1. pos[k] = sum[k]
          BY <3>1, <3>6
        <4> QED BY <3>1, <3>2, <3>3, <3>4, <3>6, <4>1 DEF PrintLine
      <3> QED BY <3>5, <3>6
    <2> HIDE DEF T
    <2> QED BY <2>1, <2>2, Induction DEF T
  <1>5. Claim(N) /\ sum[N] \in Nat
    BY <1>1, <1>4
  <1> QED BY <1>1, <1>2, <1>3, <1>5

(* What every state keeps: the number of the query, and its answer.         *)
AnswerInv == query.n \in Nat /\ AnswerSound

(* Whatever was asked before, of whomever, and whichever fields the driver  *)
(* leaves out, an answer is of its query alone, and all of it is printed,   *)
(* with room for the NUL, or nothing.                                       *)
THEOREM AnswersStaySound == Spec => []AnswerSound
  <1>1. Init => AnswerInv
    BY DEF Init, StatisticsInit, Blank, AnswerInv, AnswerSound, StatisticsFresh, PrintedWhole
  <1>2. AnswerInv /\ [Next]_vars => AnswerInv'
    <2> SUFFICES ASSUME AnswerInv, [Next]_vars PROVE AnswerInv'
      OBVIOUS
    <2>1. StatisticsNext(p2p) \/ UNCHANGED statistics
      BY DEF Next, Transparent, Miracast, UseMcc, Mcc, Country, Start, Stop, AcsStarts,
         AcsPolls, FirmwareCommand, StatisticsCommand, LinkChanges, IfaceAdded,
         IfaceRemoved, vars, radio, fixed
    <2>2. CASE UNCHANGED query
      BY <2>2 DEF AnswerInv, AnswerSound, StatisticsFresh, PrintedWhole
    <2>3. ASSUME NEW p \in Peers, wpa_driver_get_sta_statistics(p, p2p) PROVE AnswerInv'
      <3>1. PICK buflen \in Buffers, present \in SUBSET Fields :
              /\ query'.n = query.n + 1
              /\ query'.fields = testmode_sta_statistics_handler(present)
              /\ query'.buflen = buflen /\ query'.len = print_sta_statistics(buflen)
        BY <2>3 DEF wpa_driver_get_sta_statistics
      <3>2. query'.n \in Nat
        BY <3>1 DEF AnswerInv
      <3>3. StatisticsFresh'
        BY <3>1 DEF StatisticsFresh, testmode_sta_statistics_handler, Blank
      <3>4. buflen \in Nat
        BY StatisticsAssumption
      <3>5. PrintedWhole'
        BY <3>1, <3>4, PrintsAllOrNothing DEF PrintedWhole
      <3> QED BY <3>2, <3>3, <3>5 DEF AnswerInv, AnswerSound
    <2> QED
      BY <2>1, <2>2, <2>3 DEF statistics, StatisticsNext, PeerFound, PeerJoins, GroupChanges
  <1>3. AnswerInv => AnswerSound
    BY DEF AnswerInv
  <1> QED BY <1>1, <1>2, <1>3, PTL DEF Spec
=============================================================================
