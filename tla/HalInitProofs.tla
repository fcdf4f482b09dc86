--------------------------- MODULE HalInitProofs ---------------------------
(***************************************************************************)
(* Theorems about HalInit, for any set of network devices and any number   *)
(* of calls of wifi_initialize.                                            *)
(***************************************************************************)
EXTENDS HalInit, TLAPS, FiniteSetTheorems

(* What the stages before stage n acquire.                                  *)
Acquired(n) == UNION {Stages[m].gets : m \in 1..(n - 1)}

(* A stage that succeeds adds what it acquires.                             *)
LEMMA AcquiredNext ==
    ASSUME NEW n \in Nat \ {0}
    PROVE  Acquired(n + 1) = Acquired(n) \cup Stages[n].gets
  <1>1. 1..((n + 1) - 1) = 1..(n - 1) \cup {n}
    OBVIOUS
  <1> QED
    BY <1>1, Zenon DEF Acquired

(* What is acquired before each stage.                                      *)
LEMMA AcquiredIs ==
    /\ Acquired(1) = {}
    /\ Acquired(2) = {"info"}
    /\ Acquired(3) = {"info", "cleanup_socks"}
    /\ Acquired(4) = {"info", "cleanup_socks", "cmd_sock"}
    /\ Acquired(5) = {"info", "cleanup_socks"} \cup Sockets
    /\ Acquired(6) = {"info", "cleanup_socks"} \cup Sockets
    /\ Acquired(7) = {"info", "cleanup_socks", "event_cb"} \cup Sockets
    /\ Acquired(8) = {"info", "cleanup_socks"} \cup Tables \cup Sockets
    /\ Acquired(9) = {"info", "cleanup_socks", "cb_lock"} \cup Tables \cup Sockets
    /\ Acquired(10) = Resources
  <1>1. /\ Stages[1].gets = {"info"} /\ Stages[2].gets = {"cleanup_socks"}
        /\ Stages[3].gets = {"cmd_sock"} /\ Stages[4].gets = {"event_sock"}
        /\ Stages[5].gets = {} /\ Stages[6].gets = {"event_cb"}
        /\ Stages[7].gets = {"cmd"} /\ Stages[8].gets = {"cb_lock"}
        /\ Stages[9].gets = {"interfaces"}
    BY DEF Stages, Stage
  <1>2. 1..(1 - 1) = {}
    OBVIOUS
  <1>3. Acquired(1) = {}
    BY <1>2 DEF Acquired
  <1>4. /\ Acquired(1 + 1) = Acquired(1) \cup Stages[1].gets
        /\ Acquired(2 + 1) = Acquired(2) \cup Stages[2].gets
        /\ Acquired(3 + 1) = Acquired(3) \cup Stages[3].gets
        /\ Acquired(4 + 1) = Acquired(4) \cup Stages[4].gets
        /\ Acquired(5 + 1) = Acquired(5) \cup Stages[5].gets
        /\ Acquired(6 + 1) = Acquired(6) \cup Stages[6].gets
        /\ Acquired(7 + 1) = Acquired(7) \cup Stages[7].gets
        /\ Acquired(8 + 1) = Acquired(8) \cup Stages[8].gets
        /\ Acquired(9 + 1) = Acquired(9) \cup Stages[9].gets
    BY AcquiredNext
  <1>5. /\ Acquired(2) = Acquired(1) \cup Stages[1].gets
        /\ Acquired(3) = Acquired(2) \cup Stages[2].gets
        /\ Acquired(4) = Acquired(3) \cup Stages[3].gets
        /\ Acquired(5) = Acquired(4) \cup Stages[4].gets
        /\ Acquired(6) = Acquired(5) \cup Stages[5].gets
        /\ Acquired(7) = Acquired(6) \cup Stages[6].gets
        /\ Acquired(8) = Acquired(7) \cup Stages[7].gets
        /\ Acquired(9) = Acquired(8) \cup Stages[8].gets
        /\ Acquired(10) = Acquired(9) \cup Stages[9].gets
    BY <1>4
  <1>6. Acquired(2) = {"info"} /\ Acquired(3) = {"info", "cleanup_socks"}
    BY <1>1, <1>3, <1>5
  <1>7. /\ Acquired(4) = {"info", "cleanup_socks", "cmd_sock"}
        /\ Acquired(5) = {"info", "cleanup_socks"} \cup Sockets
        /\ Acquired(6) = {"info", "cleanup_socks"} \cup Sockets
    BY <1>1, <1>5, <1>6 DEF Sockets
  <1>8. /\ Acquired(7) = {"info", "cleanup_socks", "event_cb"} \cup Sockets
        /\ Acquired(8) = {"info", "cleanup_socks"} \cup Tables \cup Sockets
        /\ Acquired(9) = {"info", "cleanup_socks", "cb_lock"} \cup Tables \cup Sockets
    BY <1>1, <1>5, <1>7 DEF Tables
  <1>9. Acquired(10) = Resources
    BY <1>1, <1>5, <1>8 DEF Resources, Tables, Sockets
  <1> QED
    BY <1>3, <1>6, <1>7, <1>8, <1>9

(* What must not survive a HAL.                                             *)
Precious == Sockets \cup {"info", "cb_lock"}

(* The error path of a stage releases nothing that was not acquired, and    *)
(* everything precious that was.                                            *)
LEMMA UndoFits ==
    ASSUME NEW n \in 1..10
    PROVE  /\ Stages[n].undo \subseteq Acquired(n)
           /\ (Acquired(n) \ Stages[n].undo) \cap Precious = {}
  <1> USE DEF Sockets, Tables, Precious
  <1>1. /\ Stages[1].undo = {} /\ Stages[2].undo = {"info"}
        /\ Stages[3].undo = {"info"} /\ Stages[4].undo = {"cmd_sock", "info"}
        /\ Stages[5].undo = Sockets \cup {"info"} /\ Stages[6].undo = Sockets \cup {"info"}
        /\ Stages[7].undo = Sockets \cup {"event_cb", "info"}
        /\ Stages[8].undo = Sockets \cup Tables \cup {"info"}
        /\ Stages[9].undo = Sockets \cup Tables \cup {"cb_lock", "info"}
        /\ Stages[10].undo = Sockets \cup Tables \cup {"cb_lock", "info"}
    <2> HIDE DEF Sockets, Tables
    <2> QED
      BY DEF Stages, Stage
  <1> DEFINE Fits(k) == /\ Stages[k].undo \subseteq Acquired(k)
                        /\ (Acquired(k) \ Stages[k].undo) \cap Precious = {}
  <1>2. Fits(1) /\ Fits(2) /\ Fits(3) /\ Fits(4)
    BY <1>1, AcquiredIs
  <1>3. Fits(5) /\ Fits(6) /\ Fits(7)
    BY <1>1, AcquiredIs
  <1>4. Fits(8) /\ Fits(9) /\ Fits(10)
    BY <1>1, AcquiredIs DEF Resources
  <1> HIDE DEF Fits
  <1>5. n \in {1, 2, 3, 4, 5, 6, 7, 8, 9, 10}
    OBVIOUS
  <1>6. Fits(n)
    BY <1>2, <1>3, <1>4, <1>5
  <1> QED
    BY <1>6 DEF Fits

-----------------------------------------------------------------------------
(* What a HAL holds is what its stages acquired so far: all of it while it  *)
(* starts or runs, nothing when there is none.                              *)
HeldInv ==
    /\ hal = "none" => held = {}
    /\ hal \in {"starting", "live"} => held = Acquired(stage)
    /\ hal = "live" => stage = MembershipStage
    /\ hal = "starting" => joined < Len(Groups)

(* The inductive invariant.                                                 *)
InitInv == TypeOK /\ HeldInv /\ PortsReusable

(* The lengths of the two lists.                                            *)
LEMMA Lengths == Len(Stages) = 10 /\ Len(Groups) = 4
  BY DEF Stages, Groups

(* A HAL that is given up, by an error path or by the cleanup, leaves       *)
(* nothing precious behind.                                                 *)
LEMMA AbandonKeeps ==
    ASSUME InitInv, NEW undo, Abandon(undo), (held \ undo) \cap Precious = {},
           UNCHANGED <<stage, joined, netdevs, num_interfaces, filled, attempts>>
    PROVE  InitInv'
  <1>1. /\ lost' \in [Resources -> Nat]
        /\ \A r \in Resources : r \notin held \ undo => lost'[r] = lost[r]
    BY DEF InitInv, TypeOK, Abandon
  <1>2. TypeOK'
    BY <1>1 DEF InitInv, TypeOK, Abandon
  <1>3. HeldInv'
    BY DEF HeldInv, Abandon
  <1>4. PortsReusable'
    <2>1. Precious \subseteq Resources
      BY DEF Precious, Sockets, Resources
    <2> QED
      BY <1>1, <2>1 DEF InitInv, PortsReusable, Precious
  <1> QED
    BY <1>2, <1>3, <1>4 DEF InitInv

(* Every step of wifi_initialize, of the cleanup and of the kernel keeps    *)
(* the invariant.                                                           *)
LEMMA InitInvStep ==
    ASSUME InitInv, [Next]_vars
    PROVE  InitInv'
  <1> USE Lengths DEF InterfaceStage, MembershipStage
  <1>0. stage \in 1..10 /\ stage \in Nat \ {0}
    BY DEF InitInv, TypeOK
  <1>1. CASE Called
    <2>1. Acquired(1) = {} /\ Cardinality(Netdevs) \in Nat
      BY AcquiredIs, ParametersAssumption, FS_CardinalityType
    <2>2. HeldInv'
      BY <1>1, <2>1 DEF InitInv, HeldInv, Called
    <2> QED
      BY <1>1, <2>1, <2>2 DEF InitInv, TypeOK, PortsReusable, Called
  <1>2. CASE StageSucceeds
    <2>1. held' = Acquired(stage') /\ stage' \in 1..10
      BY <1>0, <1>2, AcquiredNext DEF InitInv, HeldInv, StageSucceeds
    <2>2. held' \subseteq Resources
      <3>1. stage' \in {1, 2, 3, 4, 5, 6, 7, 8, 9, 10}
        BY <2>1
      <3> QED
        BY <2>1, <3>1, AcquiredIs DEF Resources, Sockets, Tables
    <2> QED
      BY <1>2, <2>1, <2>2 DEF InitInv, TypeOK, HeldInv, PortsReusable, StageSucceeds
  <1>3. CASE StageFails
    <2>1. (held \ Stages[stage].undo) \cap Precious = {}
      BY <1>0, <1>3, UndoFits DEF InitInv, HeldInv, StageFails
    <2> QED
      BY <1>3, <2>1, AbandonKeeps DEF StageFails
  <1>4. ASSUME netdevs \subseteq Netdevs
        PROVE  Cardinality(netdevs) \in 0..Cardinality(Netdevs)
    BY <1>4, ParametersAssumption, FS_Subset, FS_CardinalityType
  <1>5. CASE InterfacesCounted
    BY <1>4, <1>5 DEF InitInv, TypeOK, HeldInv, PortsReusable, InterfacesCounted
  <1>6. CASE InterfacesFilledIn
    <2>1. held' = Acquired(stage') /\ stage' = 10
      <3>1. held' = Acquired(9 + 1)
        BY <1>6, AcquiredNext DEF InitInv, HeldInv, InterfacesFilledIn
      <3> QED
        BY <1>6, <3>1 DEF InterfacesFilledIn
    <2>2. held' \subseteq Resources
      BY <2>1, AcquiredIs
    <2> QED
      BY <1>4, <1>6, <2>1, <2>2
      DEF InitInv, TypeOK, HeldInv, PortsReusable, InterfacesFilledIn
  <1>7. CASE wifi_add_membership
    BY <1>7 DEF InitInv, TypeOK, HeldInv, PortsReusable, wifi_add_membership
  <1>8. CASE internal_cleaned_up_handler
    <2>1. held = Resources
      BY <1>8, AcquiredIs DEF InitInv, HeldInv, internal_cleaned_up_handler
    <2>2. (held \ ({"cleanup_socks", "cb_lock", "info"} \cup Sockets)) \cap Precious = {}
      BY <2>1 DEF Precious
    <2> QED
      BY <1>8, <2>2, AbandonKeeps DEF internal_cleaned_up_handler
  <1>9. CASE NetdevChanges
    BY <1>9 DEF InitInv, TypeOK, HeldInv, PortsReusable, NetdevChanges
  <1>10. CASE UNCHANGED vars
    BY <1>10 DEF InitInv, TypeOK, HeldInv, PortsReusable, vars
  <1> QED
    BY <1>1, <1>2, <1>3, <1>5, <1>6, <1>7, <1>8, <1>9, <1>10 DEF Next

(* The invariant holds of every sequence of starts, failures and cleanups.  *)
LEMMA InitInvAlways == Spec => []InitInv
  <1>1. Init => InitInv
    <2> SUFFICES ASSUME Init PROVE InitInv
      OBVIOUS
    <2>1. Cardinality(Netdevs) \in Nat
      BY ParametersAssumption, FS_CardinalityType
    <2>2. Sockets \cup {"info", "cb_lock"} \subseteq Resources
      BY DEF Sockets, Resources
    <2> QED
      BY <2>1, <2>2, Lengths DEF Init, InitInv, TypeOK, HeldInv, PortsReusable
  <1> QED
    BY <1>1, InitInvStep, PTL DEF Spec

(* Every error path of wifi_initialize releases only what the stages before *)
(* it acquired, whichever of them fails, in every call.                     *)
THEOREM UndoSound == Spec => []UndoesOnlyItsOwn
  <1>1. InitInv => UndoesOnlyItsOwn
    BY UndoFits, Lengths DEF InitInv, HeldInv, TypeOK, UndoesOnlyItsOwn
  <1> QED
    BY <1>1, InitInvAlways, PTL

(* However many starts fail, at whatever stage, and however many HALs are   *)
(* cleaned up, no netlink socket, hal_info or lock is left over.            *)
THEOREM PortsStayReusable == Spec => []PortsReusable
  <1>1. InitInv => PortsReusable
    BY DEF InitInv
  <1> QED
    BY <1>1, InitInvAlways, PTL
=============================================================================
