------------------------------ MODULE HalInit ------------------------------
(***************************************************************************)
(* wifi_initialize and internal_cleaned_up_handler (wifi_hal.cpp): what    *)
(* the HAL allocates in which order, what every error path gives back, and *)
(* how wifi_init_interfaces sizes and fills the array of interfaces while  *)
(* the kernel adds and removes network devices.  The framework calls       *)
(* wifi_initialize again after a failure and after a cleanup.              *)
(***************************************************************************)
EXTENDS Integers, Sequences, FiniteSets

CONSTANTS
    Netdevs,        \* the wlan* and p2p* devices that may exist
    MaxAttempts     \* bound: calls of wifi_initialize

ASSUME ParametersAssumption ==
    /\ IsFiniteSet(Netdevs)
    /\ MaxAttempts \in Nat

Resources == {"info", "cleanup_socks", "cmd_sock", "event_sock", "event_cb",
              "cmd", "cb_lock", "interfaces"}
Groups == <<"scan", "mlme", "regulatory", "vendor">>

(* A stage: what it acquires, and what its error path releases.             *)
Stage(gets, undo) == [gets |-> gets, undo |-> undo]

Sockets == {"cmd_sock", "event_sock"}
Tables  == {"event_cb", "cmd"}

(* A fault: the command socket stays open if the event socket fails.        *)
StagesKeepSocket ==
    <<Stage({"info"},          {}),
      Stage({"cleanup_socks"}, {"info"}),
      Stage({"cmd_sock"},      {"info"}),
      Stage({"event_sock"},    {"info"}),
      Stage({},                Sockets \cup {"info"}),
      Stage({"event_cb"},      Sockets \cup {"info"}),
      Stage({"cmd"},           Sockets \cup {"event_cb", "info"}),
      Stage({"cb_lock"},       Sockets \cup Tables \cup {"info"}),
      Stage({"interfaces"},    Sockets \cup Tables \cup {"cb_lock", "info"}),
      Stage({},                Sockets \cup Tables \cup {"cb_lock", "info"})>>

(* A fault: the error path of cmd frees cmd, which was not allocated.       *)
StagesFreeEarly ==
    <<Stage({"info"},          {}),
      Stage({"cleanup_socks"}, {"info"}),
      Stage({"cmd_sock"},      {"info"}),
      Stage({"event_sock"},    {"cmd_sock", "info"}),
      Stage({},                Sockets \cup {"info"}),
      Stage({"event_cb"},      Sockets \cup {"info"}),
      Stage({"cmd"},           Sockets \cup Tables \cup {"info"}),
      Stage({"cb_lock"},       Sockets \cup Tables \cup {"info"}),
      Stage({"interfaces"},    Sockets \cup Tables \cup {"cb_lock", "info"}),
      Stage({},                Sockets \cup Tables \cup {"cb_lock", "info"})>>

Stages ==
    <<Stage({"info"},          {}),
      Stage({"cleanup_socks"}, {"info"}),
      Stage({"cmd_sock"},      {"info"}),
      Stage({"event_sock"},    {"cmd_sock", "info"}),
      Stage({},                Sockets \cup {"info"}),              \* nl_socket_get_cb
      Stage({"event_cb"},      Sockets \cup {"info"}),
      Stage({"cmd"},           Sockets \cup {"event_cb", "info"}),
      Stage({"cb_lock"},       Sockets \cup Tables \cup {"info"}),  \* nl80211_family_id
      Stage({"interfaces"},    Sockets \cup Tables \cup {"cb_lock", "info"}),
      Stage({},                Sockets \cup Tables \cup {"cb_lock", "info"})>>  \* memberships

InterfaceStage  == 9
MembershipStage == 10

VARIABLES
    hal,            \* "none", "starting" or "live"
    stage,          \* the stage that runs
    held,           \* what this HAL acquired and did not release
    lost,           \* what earlier ones acquired and nobody will release
    joined,         \* how many multicast groups event_sock has joined
    netdevs,        \* what /sys/class/net lists now
    num_interfaces, \* n of wifi_init_interfaces, then hal_info.num_interfaces
    filled,         \* how many entries of interfaces were written
    attempts

vars == <<hal, stage, held, lost, joined, netdevs, num_interfaces, filled, attempts>>

Unset == -1

TypeOK ==
    /\ hal \in {"none", "starting", "live"}
    /\ stage \in 1..Len(Stages)
    /\ held \subseteq Resources
    /\ lost \in [Resources -> Nat]
    /\ joined \in 0..Len(Groups)
    /\ netdevs \subseteq Netdevs
    /\ num_interfaces \in 0..Cardinality(Netdevs) \cup {Unset}
    /\ filled \in 0..Cardinality(Netdevs)
    /\ attempts \in Nat

Init ==
    /\ hal = "none" /\ stage = 1
    /\ held = {} /\ lost = [r \in Resources |-> 0]
    /\ joined = 0
    /\ netdevs \in SUBSET Netdevs
    /\ num_interfaces = Unset /\ filled = 0
    /\ attempts = 0

-----------------------------------------------------------------------------
(* wifi_initialize.                                                         *)

Called ==
    /\ hal = "none" /\ attempts < MaxAttempts
    /\ attempts' = attempts + 1
    /\ hal' = "starting" /\ stage' = 1
    /\ joined' = 0 /\ num_interfaces' = Unset /\ filled' = 0
    /\ UNCHANGED <<held, lost, netdevs>>

(* What is held after the releases is gone: no pointer to it is left.       *)
Abandon(undo) ==
    /\ hal' = "none"
    /\ lost' = [r \in Resources |-> lost[r] + IF r \in held \ undo THEN 1 ELSE 0]
    /\ held' = {}

StageSucceeds ==
    /\ hal = "starting" /\ stage \notin {InterfaceStage, MembershipStage}
    /\ held' = held \cup Stages[stage].gets
    /\ stage' = stage + 1
    /\ UNCHANGED <<hal, lost, joined, netdevs, num_interfaces, filled, attempts>>

(* Any stage may fail: no memory, no socket, no family, no directory.       *)
StageFails ==
    /\ hal = "starting"
    /\ Abandon(Stages[stage].undo)
    /\ UNCHANGED <<stage, joined, netdevs, num_interfaces, filled, attempts>>

(* wifi_init_interfaces: the first pass over /sys/class/net counts.         *)
InterfacesCounted ==
    /\ hal = "starting" /\ stage = InterfaceStage /\ num_interfaces = Unset
    /\ netdevs # {}
    /\ num_interfaces' = Cardinality(netdevs)
    /\ UNCHANGED <<hal, stage, held, lost, joined, netdevs, filled, attempts>>

(* The array is allocated and the second pass fills it; how many entries it *)
(* finds is not looked at.                                                  *)
InterfacesFilledIn ==
    /\ hal = "starting" /\ stage = InterfaceStage /\ num_interfaces # Unset
    /\ filled' = Cardinality(netdevs)
    /\ held' = held \cup Stages[stage].gets
    /\ stage' = MembershipStage
    /\ UNCHANGED <<hal, lost, joined, netdevs, num_interfaces, attempts>>

(* wifi_add_membership of the next group; its id comes from a request, and  *)
(* the HAL is live once all groups are joined.                              *)
wifi_add_membership ==
    /\ hal = "starting" /\ stage = MembershipStage
    /\ joined' = joined + 1
    /\ hal' = IF joined' = Len(Groups) THEN "live" ELSE hal
    /\ UNCHANGED <<stage, held, lost, netdevs, num_interfaces, filled, attempts>>

-----------------------------------------------------------------------------
(* The end of wifi_cleanup.                                                 *)
internal_cleaned_up_handler ==
    /\ hal = "live"
    /\ Abandon({"cleanup_socks", "cb_lock", "info"} \cup Sockets)
    /\ UNCHANGED <<stage, joined, netdevs, num_interfaces, filled, attempts>>

(* The kernel adds or removes a device, also during wifi_init_interfaces.   *)
NetdevChanges ==
    /\ \E d \in Netdevs :
          netdevs' = IF d \in netdevs THEN netdevs \ {d} ELSE netdevs \cup {d}
    /\ UNCHANGED <<hal, stage, held, lost, joined, num_interfaces, filled, attempts>>

Next ==
    \/ Called \/ StageSucceeds \/ StageFails
    \/ InterfacesCounted \/ InterfacesFilledIn \/ wifi_add_membership
    \/ internal_cleaned_up_handler \/ NetdevChanges

Spec == Init /\ [][Next]_vars

-----------------------------------------------------------------------------
(* An error path of wifi_initialize, whichever stage it leaves from,        *)
(* releases only what the stages before it acquired.                        *)
UndoesOnlyItsOwn == hal = "starting" => Stages[stage].undo \subseteq held

(* Whatever sequence of failed starts, starts and cleanups came before, no  *)
(* netlink socket is left open when no HAL is running: both are bound to    *)
(* fixed ports, so one left over would make every later start fail.  Nor    *)
(* are hal_info and its lock.                                               *)
PortsReusable == \A r \in Sockets \cup {"info", "cb_lock"} : lost[r] = 0

=============================================================================
