---------------------------- MODULE WifiCommands ----------------------------
(***************************************************************************)
(* The request classes of the Wi-Fi HAL (gscan.cpp, rtt.cpp, wifi_hal.cpp) *)
(* as data.  What start() and cancel() of a WifiCommand subclass do to the *)
(* state of the HAL is a sequence of steps of four kinds; the module       *)
(* WifiHal executes these scripts.  How a request message is put together  *)
(* is abstracted to whether it could be built (Create) and whether the     *)
(* driver accepted it (Request).                                           *)
(***************************************************************************)
EXTENDS Sequences

(* create...Request(): on failure start() returns at once, undoing nothing. *)
Create == [op |-> "create", subs |-> <<>>]

(* requestResponse(): on failure start() unregisters the handlers of `undo' *)
(* in this order and returns.                                              *)
Request(undo) == [op |-> "request", subs |-> undo]

(* registerVendorHandler(GOOGLE_OUI, s), whose result no caller looks at.   *)
Register(s) == [op |-> "register", subs |-> <<s>>]

(* unregisterVendorHandler(GOOGLE_OUI, s).                                  *)
Unregister(s) == [op |-> "unregister", subs |-> <<s>>]

(* WIFI_VENDOR_EVENT, the vendor subcommands of events.                     *)
Events == {"SIGNIFICANT_CHANGE_RESULTS", "HOTLIST_RESULTS_FOUND",
           "SCAN_RESULTS_AVAILABLE", "FULL_SCAN_RESULTS", "RTT_EVENT_COMPLETE",
           "COMPLETE_SCAN", "HOTLIST_RESULTS_LOST", "RSSI_MONITOR",
           "EPNO_EVENT", "ANQPO_HOTSPOT_MATCH"}

(* The steps a script may hold.                                             *)
Ops == [op : {"create", "request"}, subs : Seq(Events)]
         \cup [op : {"register", "unregister"}, subs : Seq(Events) \ {<<>>}]

-----------------------------------------------------------------------------
(* start() of every class.                                                  *)

ScanStart ==
    <<Create, Request(<<>>),            \* GSCAN_SUBCMD_SET_CONFIG
      Create, Request(<<>>),            \* GSCAN_SUBCMD_SET_SCAN_CONFIG
      Create,
      Register("SCAN_RESULTS_AVAILABLE"), Register("COMPLETE_SCAN"),
      Register("FULL_SCAN_RESULTS"),
      Request(<<"COMPLETE_SCAN", "SCAN_RESULTS_AVAILABLE", "FULL_SCAN_RESULTS">>)>>

FullScanResultsStart ==
    <<Create, Register("FULL_SCAN_RESULTS"), Request(<<"FULL_SCAN_RESULTS">>)>>

(* The first request undoes registrations that were not made yet.           *)
BssidHotlistStart ==
    <<Create, Request(<<"HOTLIST_RESULTS_FOUND", "HOTLIST_RESULTS_LOST">>),
      Create,
      Register("HOTLIST_RESULTS_FOUND"), Register("HOTLIST_RESULTS_LOST"),
      Request(<<"HOTLIST_RESULTS_FOUND", "HOTLIST_RESULTS_LOST">>)>>

ePNOStart ==
    <<Create, Request(<<"EPNO_EVENT">>), Register("EPNO_EVENT")>>

SignificantWifiChangeStart ==
    <<Create, Request(<<>>), Create,
      Register("SIGNIFICANT_CHANGE_RESULTS"),
      Request(<<"SIGNIFICANT_CHANGE_RESULTS">>)>>

(* A fault: the enable request forgets to undo the registration.            *)
AnqpoStartNoUndo ==
    <<Create, Register("ANQPO_HOTSPOT_MATCH"), Request(<<>>)>>

AnqpoConfigureStart ==
    <<Create, Register("ANQPO_HOTSPOT_MATCH"), Request(<<"ANQPO_HOTSPOT_MATCH">>)>>

SetRSSIMonitorStart ==
    <<Create, Request(<<>>), Register("RSSI_MONITOR")>>

RttStart ==
    <<Create, Request(<<>>), Register("RTT_EVENT_COMPLETE")>>

-----------------------------------------------------------------------------
(* cancel() of every class.  A failed create or request changes nothing of  *)
(* the HAL and is not told apart: the classes that stop the driver first    *)
(* go on to unregister, the others have nothing left to do.                 *)

ScanCancel ==
    <<Request(<<>>), Unregister("COMPLETE_SCAN"),
      Unregister("SCAN_RESULTS_AVAILABLE"), Unregister("FULL_SCAN_RESULTS")>>

FullScanResultsCancel == <<Request(<<>>), Unregister("FULL_SCAN_RESULTS")>>

(* A fault: one of the two handlers is forgotten.                           *)
BssidHotlistCancelHalf ==
    <<Unregister("HOTLIST_RESULTS_FOUND"), Request(<<>>)>>

BssidHotlistCancel ==
    <<Unregister("HOTLIST_RESULTS_FOUND"), Unregister("HOTLIST_RESULTS_LOST"),
      Request(<<>>)>>

ePNOCancel == <<Unregister("EPNO_EVENT"), Request(<<>>)>>

(* A fault: the handler of another class is unregistered.                   *)
SignificantWifiChangeCancelWrong ==
    <<Unregister("HOTLIST_RESULTS_LOST"), Request(<<>>)>>

SignificantWifiChangeCancel ==
    <<Unregister("SIGNIFICANT_CHANGE_RESULTS"), Request(<<>>)>>

AnqpoConfigureCancel == <<Request(<<>>), Unregister("ANQPO_HOTSPOT_MATCH")>>

SetRSSIMonitorCancel == <<Request(<<>>), Unregister("RSSI_MONITOR")>>

(* cancel() and cancel_specific() of RttCommand.                            *)
RttCancel == <<Request(<<>>), Unregister("RTT_EVENT_COMPLETE")>>

-----------------------------------------------------------------------------
(* The classes by name, and what each subscribes to.                        *)

AllClasses == {"scan", "fullscan", "hotlist", "epno", "sigchange", "anqpo",
               "rssi", "rtt"}

StartScript ==
    [scan      |-> ScanStart,
     fullscan  |-> FullScanResultsStart,
     hotlist   |-> BssidHotlistStart,
     epno      |-> ePNOStart,
     sigchange |-> SignificantWifiChangeStart,
     anqpo     |-> AnqpoConfigureStart,
     rssi      |-> SetRSSIMonitorStart,
     rtt       |-> RttStart]

CancelScript ==
    [scan      |-> ScanCancel,
     fullscan  |-> FullScanResultsCancel,
     hotlist   |-> BssidHotlistCancel,
     epno      |-> ePNOCancel,
     sigchange |-> SignificantWifiChangeCancel,
     anqpo     |-> AnqpoConfigureCancel,
     rssi      |-> SetRSSIMonitorCancel,
     rtt       |-> RttCancel]

(* The events whose handlers the steps of a script register or unregister.  *)
Touches(script, op) ==
    {script[i].subs[1] : i \in {j \in DOMAIN script : script[j].op = op}}

Subscribes(k) == Touches(StartScript[k], "register")

(* The classes that can be stopped with id -1, by a temporary command.      *)
FlushClasses == {"scan", "fullscan", "epno", "rssi"}
=============================================================================
