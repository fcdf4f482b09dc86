--------------------------- MODULE WifiHalProofs ---------------------------
(***************************************************************************)
(* Theorems about WifiHal, for every set of classes and ids and every size *)
(* of the tables: type correctness, the order of wifi_cleanup, the         *)
(* reference counts, the event handlers and the commands they point to,    *)
(* and the refinement of HalRequests.  What a theorem assumes of the       *)
(* client and of the sockets is its antecedent: one request per event, no  *)
(* request id used twice, and that "Exit" can be written or there is no    *)
(* RTT.                                                                    *)
(*                                                                         *)
(* A handler is not counted as a reference to its command; what keeps the  *)
(* command alive is that every call that gives up a command unregisters    *)
(* its handlers first.                                                     *)
(***************************************************************************)
EXTENDS WifiHalRefinement, FiniteSetTheorems, TLAPS

-----------------------------------------------------------------------------
(* Facts about the helpers.                                                 *)

(* The memmove of an unregister leaves a sequence of old entries, one       *)
(* shorter.                                                                 *)
LEMMA WithoutTyped ==
    ASSUME NEW S, NEW s \in Seq(S), NEW n \in DOMAIN s
    PROVE  /\ Without(s, n) \in Seq(S)
           /\ Len(Without(s, n)) = Len(s) - 1
           /\ DOMAIN Without(s, n) = 1..(Len(s) - 1)
           /\ \A j \in 1..(Len(s) - 1) :
                 Without(s, n)[j] = IF j < n THEN s[j] ELSE s[j + 1]
  <1>1. Len(s) \in Nat /\ DOMAIN s = 1..Len(s) /\ Len(s) - 1 \in Nat
    OBVIOUS
  <1>2. \A j \in 1..(Len(s) - 1) : (IF j < n THEN s[j] ELSE s[j + 1]) \in S
    BY <1>1
  <1>3. Without(s, n) \in [1..(Len(s) - 1) -> S]
    BY <1>2 DEF Without
  <1> QED
    BY <1>1, <1>3 DEF Without

(* Every step of a script is one of Ops.                                    *)
LEMMA StepsTyped ==
    /\ Create \in Ops
    /\ Request(<<>>) \in Ops
    /\ \A s \in Events : Register(s) \in Ops /\ Unregister(s) \in Ops
    /\ \A s \in Events : Request(<<s>>) \in Ops
    /\ \A s, t \in Events : Request(<<s, t>>) \in Ops
    /\ \A s, t, u \in Events : Request(<<s, t, u>>) \in Ops
  BY DEF Create, Request, Register, Unregister, Ops

(* start() and cancel() of every class are scripts of such steps.           *)
LEMMA ScriptsTyped ==
    \A k \in AllClasses : StartScript[k] \in Seq(Ops) /\ CancelScript[k] \in Seq(Ops)
  <1>1. {"SIGNIFICANT_CHANGE_RESULTS", "HOTLIST_RESULTS_FOUND",
         "SCAN_RESULTS_AVAILABLE", "FULL_SCAN_RESULTS", "RTT_EVENT_COMPLETE",
         "COMPLETE_SCAN", "HOTLIST_RESULTS_LOST", "RSSI_MONITOR",
         "EPNO_EVENT", "ANQPO_HOTSPOT_MATCH"} = Events
    BY DEF Events
  <1>2. /\ ScanStart \in Seq(Ops)
        /\ FullScanResultsStart \in Seq(Ops)
        /\ BssidHotlistStart \in Seq(Ops)
        /\ ePNOStart \in Seq(Ops)
    BY <1>1, StepsTyped DEF ScanStart, FullScanResultsStart, BssidHotlistStart, ePNOStart
  <1>3. /\ SignificantWifiChangeStart \in Seq(Ops)
        /\ AnqpoConfigureStart \in Seq(Ops)
        /\ SetRSSIMonitorStart \in Seq(Ops)
        /\ RttStart \in Seq(Ops)
    BY <1>1, StepsTyped DEF SignificantWifiChangeStart, AnqpoConfigureStart,
                            SetRSSIMonitorStart, RttStart
  <1>4. /\ ScanCancel \in Seq(Ops)
        /\ FullScanResultsCancel \in Seq(Ops)
        /\ BssidHotlistCancel \in Seq(Ops)
        /\ ePNOCancel \in Seq(Ops)
        /\ SignificantWifiChangeCancel \in Seq(Ops)
        /\ AnqpoConfigureCancel \in Seq(Ops)
        /\ SetRSSIMonitorCancel \in Seq(Ops)
        /\ RttCancel \in Seq(Ops)
    BY <1>1, StepsTyped DEF ScanCancel, FullScanResultsCancel, BssidHotlistCancel,
         ePNOCancel, SignificantWifiChangeCancel, AnqpoConfigureCancel,
         SetRSSIMonitorCancel, RttCancel
  <1> QED
    BY <1>2, <1>3, <1>4, SMTT(30) DEF AllClasses, StartScript, CancelScript

(* A step of a script, and what is left of the script.                      *)
LEMMA HeadTail ==
    ASSUME script \in Seq(Ops), script # <<>>
    PROVE  /\ Head(script) \in Ops
           /\ Tail(script) \in Seq(Ops)
           /\ Head(script).subs \in Seq(Events)
           /\ Head(script).op \in {"register", "unregister"}
                 => Head(script).subs[1] \in Events
  <1>1. Head(script) \in Ops /\ Tail(script) \in Seq(Ops)
    OBVIOUS
  <1>2. Head(script).subs \in Seq(Events)
    BY <1>1 DEF Ops
  <1>3. Head(script).op \in {"register", "unregister"}
          => Head(script).subs \in Seq(Events) \ {<<>>}
    BY <1>1 DEF Ops
  <1> QED
    BY <1>1, <1>2, <1>3

(* The way out of a failed start() is a script again.                       *)
LEMMA UndoTyped ==
    ASSUME NEW subs \in Seq(Events)
    PROVE  [j \in DOMAIN subs |-> Unregister(subs[j])] \in Seq(Ops)
  <1>1. \A j \in 1..Len(subs) : Unregister(subs[j]) \in Ops
    BY StepsTyped
  <1>2. [j \in 1..Len(subs) |-> Unregister(subs[j])] \in [1..Len(subs) -> Ops]
    BY <1>1
  <1>3. DOMAIN subs = 1..Len(subs) /\ Len(subs) \in Nat
    OBVIOUS
  <1> HIDE DEF Unregister
  <1> QED
    BY <1>2, <1>3

(* wifi_unregister_cmd returns no command or one that was in the table, and *)
(* leaves a table of old entries.                                           *)
LEMMA UnregisterCmdTyped ==
    ASSUME TypeOK, PointersBorn, NEW i, NEW x, wifi_unregister_cmd(i, x)
    PROVE  /\ cmd' \in Seq(CmdInfo) /\ Len(cmd') <= AllocCmd
           /\ \A n \in DOMAIN cmd' : cmd'[n].cmd \in DOMAIN objs
           /\ x # NoCmd => x \in DOMAIN objs
  <1>1. CASE UNCHANGED cmd /\ x = NoCmd
    BY <1>1 DEF TypeOK, PointersBorn
  <1>2. ASSUME NEW n \in DOMAIN cmd, x = cmd[n].cmd, cmd' = Without(cmd, n)
        PROVE  /\ cmd' \in Seq(CmdInfo) /\ Len(cmd') <= AllocCmd
               /\ \A m \in DOMAIN cmd' : cmd'[m].cmd \in DOMAIN objs
               /\ x # NoCmd => x \in DOMAIN objs
    <2>1. cmd \in Seq(CmdInfo) /\ Len(cmd) <= AllocCmd /\ Len(cmd) \in Nat
          /\ DOMAIN cmd = 1..Len(cmd)
      BY DEF TypeOK
    <2>2. /\ cmd' \in Seq(CmdInfo)
          /\ Len(cmd') = Len(cmd) - 1
          /\ DOMAIN cmd' = 1..(Len(cmd) - 1)
          /\ \A j \in 1..(Len(cmd) - 1) :
                cmd'[j] = IF j < n THEN cmd[j] ELSE cmd[j + 1]
      BY <1>2, <2>1, WithoutTyped
    <2>3. Len(cmd') <= AllocCmd
      BY <2>1, <2>2, BoundsAssumption
    <2>4. x \in DOMAIN objs
      BY <1>2 DEF PointersBorn
    <2>5. ASSUME NEW m \in DOMAIN cmd'
          PROVE  cmd'[m].cmd \in DOMAIN objs
      <3>1. \E j \in DOMAIN cmd : cmd'[m] = cmd[j]
        BY <2>1, <2>2
      <3> QED
        BY <3>1 DEF PointersBorn
    <2> QED
      BY <2>2, <2>3, <2>4, <2>5
  <1> QED
    BY <1>1, <1>2 DEF wifi_unregister_cmd

(* wifi_unregister_vendor_handler leaves a table of old handlers.           *)
LEMMA UnregisterHandlerTyped ==
    ASSUME TypeOK, PointersBorn, NEW s, wifi_unregister_vendor_handler(s)
    PROVE  /\ event_cb' \in Seq(CbInfo) /\ Len(event_cb') <= AllocEventCb
           /\ \A n \in DOMAIN event_cb' : event_cb'[n].cmd \in DOMAIN objs
  <1>1. CASE UNCHANGED event_cb
    BY <1>1 DEF TypeOK, PointersBorn
  <1>2. ASSUME NEW n \in DOMAIN event_cb, event_cb' = Without(event_cb, n)
        PROVE  /\ event_cb' \in Seq(CbInfo) /\ Len(event_cb') <= AllocEventCb
               /\ \A m \in DOMAIN event_cb' : event_cb'[m].cmd \in DOMAIN objs
    <2>1. /\ event_cb \in Seq(CbInfo) /\ Len(event_cb) <= AllocEventCb
          /\ Len(event_cb) \in Nat /\ DOMAIN event_cb = 1..Len(event_cb)
      BY DEF TypeOK
    <2>2. /\ event_cb' \in Seq(CbInfo)
          /\ Len(event_cb') = Len(event_cb) - 1
          /\ DOMAIN event_cb' = 1..(Len(event_cb) - 1)
          /\ \A j \in 1..(Len(event_cb) - 1) :
                event_cb'[j] = IF j < n THEN event_cb[j] ELSE event_cb[j + 1]
      BY <1>2, <2>1, WithoutTyped
    <2>3. Len(event_cb') <= AllocEventCb
      BY <2>1, <2>2, BoundsAssumption
    <2>4. ASSUME NEW m \in DOMAIN event_cb'
          PROVE  event_cb'[m].cmd \in DOMAIN objs
      <3>1. \E j \in DOMAIN event_cb : event_cb'[m] = event_cb[j]
        BY <2>1, <2>2, SMTT(30)
      <3> QED
        BY <3>1 DEF PointersBorn
    <2> QED
      BY <2>2, <2>3, <2>4
  <1> QED
    BY <1>1, <1>2 DEF wifi_unregister_vendor_handler

(* Releasing a command that was created keeps the types of the heap.        *)
LEMMA ReleaseTyped ==
    ASSUME TypeOK, PointersBorn, NEW c \in DOMAIN objs, releaseRef(c)
    PROVE  refs' \in [Cmds -> Int] /\ freed' \subseteq Cmds
  <1>1. c \in Cmds
    BY BoundsAssumption, SMTT(30) DEF TypeOK, PointersBorn, Cmds
  <1> QED
    BY <1>1 DEF TypeOK, releaseRef

-----------------------------------------------------------------------------
(* Type correctness.                                                        *)

(* TypeOK is inductive only together with PointersBorn: what a table or a   *)
(* thread refers to is dereferenced, and its class selects a script.        *)
TypeInv == TypeOK /\ PointersBorn

(* What the types give the other proofs in the form the provers like.       *)
LEMMA Shapes ==
    ASSUME TypeInv
    PROVE  /\ DOMAIN objs = 1..Len(objs) /\ Len(objs) \in Nat
           /\ DOMAIN objs \subseteq Cmds
           /\ \A c \in DOMAIN objs : objs[c] \in Object
           /\ DOMAIN cmd = 1..Len(cmd) /\ Len(cmd) \in Nat
           /\ DOMAIN event_cb = 1..Len(event_cb) /\ Len(event_cb) \in Nat
           /\ NoCmd \notin Cmds
  BY BoundsAssumption DEF TypeInv, TypeOK, PointersBorn, Cmds, NoCmd

(* Creating and registering a command keeps types and pointers.             *)
LEMMA StartTyped ==
    ASSUME TypeInv, NEW k \in Classes, NEW i \in Ids, Start(k, i)
    PROVE  TypeInv'
  <1> DEFINE c == Len(objs) + 1
  <1> DEFINE o == [class |-> k, id |-> i]
  <1> DEFINE e == [id |-> i, cmd |-> c]
  <1>1. /\ c \in Cmds /\ o \in Object /\ e \in CmdInfo
        /\ objs' = Append(objs, o)
        /\ UNCHANGED <<event_cb, flags, bad_commands, num_cmd, looper, socks, driver>>
        /\ apc = "idle"
    BY DEF Start, Calls, Object, CmdInfo
  <1>2. /\ objs' \in Seq(Object) /\ Len(objs') = c
        /\ DOMAIN objs' = 1..c
        /\ DOMAIN objs \subseteq DOMAIN objs' /\ c \in DOMAIN objs'
        /\ c <= MaxCommands
    <2>1. objs \in Seq(Object) /\ Len(objs) \in Nat
      BY DEF TypeInv, TypeOK
    <2>2. objs' \in Seq(Object) /\ Len(objs') = c
      BY <1>1, <2>1
    <2>3. DOMAIN objs' = 1..c /\ DOMAIN objs = 1..Len(objs)
      BY <2>1, <2>2
    <2> HIDE DEF o, e
    <2> QED
      BY <1>1, <2>1, <2>2, <2>3, BoundsAssumption DEF Cmds
  <1>3. CASE /\ Len(cmd) < AllocCmd
             /\ wifi_register_cmd(i, c)
             /\ refs' = [refs EXCEPT ![c] = 1]
             /\ apc' = "start" /\ acmd' = c /\ script' = StartScript[k]
             /\ active' = active \cup {c}
             /\ UNCHANGED freed
    <2>1. script' \in Seq(Ops)
      BY <1>3, ScriptsTyped, ClassesAssumption
    <2>2. cmd' = Append(cmd, e)
      BY <1>3 DEF wifi_register_cmd
    <2>3. cmd \in Seq(CmdInfo) /\ Len(cmd) \in Nat
      BY DEF TypeInv, TypeOK
    <2>4. cmd' \in Seq(CmdInfo) /\ Len(cmd') = Len(cmd) + 1
      BY <1>1, <2>2, <2>3
    <2>5. Len(cmd') <= AllocCmd
      BY <1>3, <2>3, <2>4, BoundsAssumption
    <2>6. \A n \in DOMAIN cmd' : cmd'[n].cmd \in DOMAIN objs'
      <3>1. \A n \in DOMAIN cmd' : (n \in DOMAIN cmd /\ cmd'[n] = cmd[n]) \/ cmd'[n] = e
        BY <2>2, <2>3
      <3>2. e.cmd = c
        OBVIOUS
      <3> QED
        BY <1>2, <3>1, <3>2 DEF TypeInv, PointersBorn
    <2> HIDE DEF c, o, e
    <2>7. TypeOK'
      BY <1>1, <1>2, <1>3, <2>1, <2>4, <2>5
      DEF TypeInv, TypeOK, CallerStates, flags, looper, socks, driver
    <2>8. PointersBorn'
      BY <1>1, <1>2, <1>3, <2>6 DEF TypeInv, PointersBorn, flags, looper, socks, driver
    <2> QED
      BY <2>7, <2>8 DEF TypeInv
  <1>4. CASE /\ freed' = freed \cup {c}
             /\ UNCHANGED <<cmd, refs, apc, acmd, script, active>>
    <2> HIDE DEF c, o, e
    <2>1. TypeOK'
      BY <1>1, <1>2, <1>4 DEF TypeInv, TypeOK, flags, looper, socks, driver
    <2>2. PointersBorn'
      BY <1>1, <1>2, <1>4 DEF TypeInv, PointersBorn, flags, looper, socks, driver
    <2> QED
      BY <2>1, <2>2 DEF TypeInv
  <1> QED
    BY <1>3, <1>4 DEF Start

(* The steps of start() after the command is in the table.                  *)
LEMMA StartStepsTyped ==
    ASSUME TypeInv,
           StartGoesOn \/ StartFails \/ StartRegisters \/ StartReturns \/ StartUndone
    PROVE  TypeInv'
  <1> USE DEF TypeInv, tables, flags, heap, looper, socks, driver
  <1>1. CASE StartGoesOn
    <2>1. Tail(script) \in Seq(Ops)
      BY <1>1, HeadTail DEF StartGoesOn, Runs, TypeOK
    <2> QED
      BY <1>1, <2>1 DEF StartGoesOn, TypeOK, PointersBorn
  <1>2. CASE StartFails
    <2>1. script' \in Seq(Ops)
      BY <1>2, HeadTail, UndoTyped DEF StartFails, Runs, TypeOK
    <2> QED
      BY <1>2, <2>1, SMTT(30) DEF StartFails, Runs, TypeOK, PointersBorn, CallerStates
  <1>3. CASE StartRegisters
    <2> DEFINE e == [sub |-> Head(script).subs[1], cmd |-> acmd]
    <2>1. /\ Tail(script) \in Seq(Ops) /\ Head(script).subs[1] \in Events
          /\ script' = Tail(script)
      BY <1>3, HeadTail DEF StartRegisters, Runs, TypeOK
    <2>2. acmd \in DOMAIN objs /\ acmd \in Cmds
      BY <1>3, Shapes DEF StartRegisters, Runs, PointersBorn
    <2>3. e \in CbInfo
      BY <2>1, <2>2 DEF CbInfo
    <2>4. \/ event_cb' = Append(event_cb, e) /\ Len(event_cb) < AllocEventCb
          \/ UNCHANGED event_cb
      BY <1>3 DEF StartRegisters, wifi_register_vendor_handler
    <2>5. /\ event_cb \in Seq(CbInfo) /\ Len(event_cb) \in Nat
          /\ Len(event_cb) <= AllocEventCb
      BY DEF TypeOK
    <2>6. event_cb' \in Seq(CbInfo) /\ Len(event_cb') <= AllocEventCb
      <3> HIDE DEF e
      <3>1. CASE UNCHANGED event_cb
        BY <3>1, <2>5
      <3>2. CASE event_cb' = Append(event_cb, e) /\ Len(event_cb) < AllocEventCb
        <4>1. event_cb' \in Seq(CbInfo) /\ Len(event_cb') = Len(event_cb) + 1
          BY <3>2, <2>3, <2>5
        <4> QED
          BY <3>2, <4>1, <2>5, BoundsAssumption
      <3> QED
        BY <3>1, <3>2, <2>4
    <2>7. \A n \in DOMAIN event_cb' : event_cb'[n].cmd \in DOMAIN objs
      <3>1. \A n \in DOMAIN event_cb' :
               (n \in DOMAIN event_cb /\ event_cb'[n] = event_cb[n]) \/ event_cb'[n] = e
        BY <2>4, <2>5
      <3>2. e.cmd = acmd
        OBVIOUS
      <3> QED
        BY <2>2, <3>1, <3>2 DEF PointersBorn
    <2> HIDE DEF e
    <2> QED
      BY <1>3, <2>1, <2>6, <2>7 DEF StartRegisters, TypeOK, PointersBorn
  <1>4. CASE StartReturns
    BY <1>4 DEF StartReturns, TypeOK, PointersBorn, CallerStates
  <1>5. CASE StartUndone
    <2>1. PICK x \in Cmds \cup {NoCmd} : wifi_unregister_cmd(objs[acmd].id, x)
      BY <1>5 DEF StartUndone
    <2>2. /\ cmd' \in Seq(CmdInfo) /\ Len(cmd') <= AllocCmd
          /\ \A n \in DOMAIN cmd' : cmd'[n].cmd \in DOMAIN objs
      BY <2>1, UnregisterCmdTyped
    <2> QED
      BY <1>5, <2>2 DEF StartUndone, TypeOK, PointersBorn, CallerStates
  <1> QED
    BY <1>1, <1>2, <1>3, <1>4, <1>5

(* The calls that stop a request, and their steps.                          *)
LEMMA StopTyped ==
    ASSUME TypeInv,
           \/ \E c \in Cmds : wifi_cancel_cmd(c) \/ wifi_rtt_range_cancel(c)
           \/ \E k \in Classes : Flush(k)
           \/ CancelRequests \/ Unregisters \/ CancelReturns \/ Releases
    PROVE  TypeInv'
  <1> USE DEF TypeInv, tables, flags, heap, looper, socks, driver
  <1>1. ASSUME NEW c \in Cmds, wifi_cancel_cmd(c)
        PROVE  TypeInv'
    <2>1. PICK x \in Cmds \cup {NoCmd} :
             /\ wifi_unregister_cmd(objs[c].id, x)
             /\ acmd' = x
             /\ \/ x = NoCmd /\ UNCHANGED <<apc, script>>
                \/ x # NoCmd /\ apc' = "cancel" /\ script' = CancelScript[objs[x].class]
      BY <1>1 DEF wifi_cancel_cmd
    <2>2. /\ cmd' \in Seq(CmdInfo) /\ Len(cmd') <= AllocCmd
          /\ \A n \in DOMAIN cmd' : cmd'[n].cmd \in DOMAIN objs
          /\ x # NoCmd => x \in DOMAIN objs
      BY <2>1, UnregisterCmdTyped
    <2>3. script' \in Seq(Ops)
      <3>1. x # NoCmd => objs[x].class \in AllClasses
        BY <2>2, Shapes, ClassesAssumption DEF Object
      <3> QED
        BY <2>1, <3>1, ScriptsTyped DEF TypeOK
    <2>4. apc = "idle"
      BY <1>1 DEF wifi_cancel_cmd, Calls
    <2>5. TypeOK'
      BY <1>1, <2>1, <2>2, <2>3 DEF wifi_cancel_cmd, TypeOK, CallerStates
    <2>6. PointersBorn'
      BY <1>1, <2>1, <2>2, <2>4 DEF wifi_cancel_cmd, PointersBorn
    <2> QED
      BY <2>5, <2>6
  <1>2. ASSUME NEW c \in Cmds, wifi_rtt_range_cancel(c)
        PROVE  TypeInv'
    <2>1. RttCancel \in Seq(Ops)
      BY ScriptsTyped DEF CancelScript, AllClasses
    <2> QED
      BY <1>2, <2>1 DEF wifi_rtt_range_cancel, TypeOK, PointersBorn, CallerStates
  <1>3. ASSUME NEW k \in Classes, Flush(k)
        PROVE  TypeInv'
    <2>1. CancelScript[k] \in Seq(Ops)
      BY ScriptsTyped, ClassesAssumption
    <2> QED
      BY <1>3, <2>1 DEF Flush, TypeOK, PointersBorn, CallerStates
  <1>4. CASE CancelRequests
    <2>1. Tail(script) \in Seq(Ops)
      BY <1>4, HeadTail DEF CancelRequests, Runs, TypeOK
    <2> QED
      BY <1>4, <2>1 DEF CancelRequests, TypeOK, PointersBorn
  <1>5. CASE Unregisters
    <2>1. Tail(script) \in Seq(Ops)
      BY <1>5, HeadTail DEF Unregisters, Runs, TypeOK
    <2>2. /\ event_cb' \in Seq(CbInfo) /\ Len(event_cb') <= AllocEventCb
          /\ \A n \in DOMAIN event_cb' : event_cb'[n].cmd \in DOMAIN objs
      BY <1>5, UnregisterHandlerTyped DEF Unregisters
    <2> QED
      BY <1>5, <2>1, <2>2 DEF Unregisters, TypeOK, PointersBorn
  <1>6. CASE CancelReturns
    BY <1>6 DEF CancelReturns, TypeOK, PointersBorn, CallerStates
  <1>7. CASE Releases
    <2>1. refs' \in [Cmds -> Int] /\ freed' \subseteq Cmds
      BY <1>7, ReleaseTyped DEF Releases, PointersBorn
    <2> QED
      BY <1>7, <2>1 DEF Releases, releaseRef, TypeOK, PointersBorn, CallerStates
  <1> QED
    BY <1>1, <1>2, <1>3, <1>4, <1>5, <1>6, <1>7

(* wifi_cleanup.                                                            *)
LEMMA CleanupTyped ==
    ASSUME TypeInv,
           \/ CleanupSendsExit \/ CleanupCannotWrite \/ CleanupReadsDone
           \/ SweepNext \/ SweepReleases \/ CleanedUp
    PROVE  TypeInv'
  <1> USE DEF TypeInv, tables, flags, heap, looper, socks, driver
  <1>1. CASE CleanupSendsExit
    BY <1>1 DEF CleanupSendsExit, TypeOK, PointersBorn, CallerStates
  <1>2. CASE CleanupCannotWrite
    BY <1>2 DEF CleanupCannotWrite, TypeOK, PointersBorn, CallerStates
  <1>3. CASE CleanupReadsDone
    BY <1>3 DEF CleanupReadsDone, TypeOK, PointersBorn, CallerStates
  <1>4. CASE SweepNext
    <2>1. bad_commands + 1 \in DOMAIN cmd
      BY <1>4, Shapes DEF SweepNext, TypeOK
    <2>2. acmd' \in DOMAIN objs
      BY <1>4, <2>1 DEF SweepNext, PointersBorn
    <2>3. objs[acmd'].class \in AllClasses
      BY <2>2, Shapes, ClassesAssumption DEF Object
    <2>4. script' \in Seq(Ops)
      BY <1>4, <2>3, ScriptsTyped DEF SweepNext
    <2>5. num_cmd' \in Nat
      BY <1>4, Shapes DEF SweepNext
    <2>6. acmd' \in Cmds
      BY <2>2, Shapes
    <2>7. /\ apc' = "sweepCancel"
          /\ UNCHANGED <<tables, flags, heap, bad_commands, looper, socks, driver, active>>
      BY <1>4 DEF SweepNext
    <2> QED
      BY <2>2, <2>4, <2>5, <2>6, <2>7 DEF TypeOK, PointersBorn, CallerStates
  <1>5. CASE SweepReleases
    <2>1. refs' \in [Cmds -> Int] /\ freed' \subseteq Cmds
      BY <1>5, ReleaseTyped DEF SweepReleases, PointersBorn
    <2>2. bad_commands' \in Nat
      BY <1>5 DEF SweepReleases, TypeOK
    <2> QED
      BY <1>5, <2>1, <2>2 DEF SweepReleases, releaseRef, TypeOK, PointersBorn, CallerStates
  <1>6. CASE CleanedUp
    BY <1>6 DEF CleanedUp, TypeOK, PointersBorn, CallerStates
  <1> QED
    BY <1>1, <1>2, <1>3, <1>4, <1>5, <1>6

(* The event thread and the driver.                                         *)
LEMMA LoopTyped ==
    ASSUME TypeInv,
           \/ LoopGoesOn \/ LoopHangsUp
           \/ \E s \in Subs, complete \in BOOLEAN : DriverEmits(s, complete)
    PROVE  TypeInv'
  <1> USE DEF TypeInv, tables, flags, heap, caller, socks, driver
  <1>1. CASE LoopEnters
    BY <1>1 DEF LoopEnters, TypeOK, PointersBorn, LooperStates
  <1>2. CASE LoopDispatches
    <2>1. evq' \in Seq(Event) /\ Head(evq) \in Event
      BY <1>2 DEF LoopDispatches, TypeOK
    <2>2. ASSUME NEW n \in DOMAIN event_cb, lcmd' = event_cb[n].cmd,
                 levt' = Head(evq), lpc' = "callback", addRef(event_cb[n].cmd)
          PROVE  TypeInv'
      <3>1. lcmd' \in DOMAIN objs
        BY <2>2 DEF PointersBorn
      <3>2. lcmd' \in Cmds
        BY <3>1, Shapes
      <3>3. refs' \in [Cmds -> Int]
        BY <2>2, <3>2 DEF addRef, TypeOK
      <3> QED
        BY <1>2, <2>1, <2>2, <3>1, <3>2, <3>3
        DEF LoopDispatches, TypeOK, PointersBorn, LooperStates
    <2>3. CASE lpc' = Again /\ UNCHANGED <<refs, lcmd, levt>>
      BY <1>2, <2>1, <2>3, SMTT(30) DEF LoopDispatches, Again, TypeOK, PointersBorn, LooperStates
    <2> QED
      BY <1>2, <2>2, <2>3 DEF LoopDispatches
  <1>3. CASE LoopPollError
    <2>1. evq' \in Seq(Event)
      BY <1>3 DEF LoopPollError, TypeOK
    <2> QED
      BY <1>3, <2>1 DEF LoopPollError, Again, TypeOK, PointersBorn, LooperStates
  <1>4. CASE LoopExits
    BY <1>4 DEF LoopExits, TypeOK, PointersBorn, LooperStates
  <1>5. CASE LoopHandlesEvent
    <2>1. CASE wifi_unregister_vendor_handler("RTT_EVENT_COMPLETE") /\ lpc' = "rttCallback"
      <3>1. /\ event_cb' \in Seq(CbInfo) /\ Len(event_cb') <= AllocEventCb
            /\ \A n \in DOMAIN event_cb' : event_cb'[n].cmd \in DOMAIN objs
        BY <2>1, UnregisterHandlerTyped
      <3> QED
        BY <1>5, <2>1, <3>1 DEF LoopHandlesEvent, TypeOK, PointersBorn, LooperStates
    <2>2. CASE UNCHANGED event_cb /\ lpc' = "release"
      BY <1>5, <2>2 DEF LoopHandlesEvent, TypeOK, PointersBorn, LooperStates
    <2> QED
      BY <1>5, <2>1, <2>2 DEF LoopHandlesEvent
  <1>6. CASE RttCallback
    BY <1>6 DEF RttCallback, TypeOK, PointersBorn, LooperStates
  <1>7. CASE RttDropsCommand
    <2>1. PICK x \in Cmds \cup {NoCmd} :
             /\ wifi_unregister_cmd(objs[lcmd].id, x)
             /\ lrel' = x
             /\ lpc' = IF x = NoCmd THEN "release" ELSE "rttRelease"
      BY <1>7 DEF RttDropsCommand
    <2>2. /\ cmd' \in Seq(CmdInfo) /\ Len(cmd') <= AllocCmd
          /\ \A n \in DOMAIN cmd' : cmd'[n].cmd \in DOMAIN objs
          /\ x # NoCmd => x \in DOMAIN objs
      BY <2>1, UnregisterCmdTyped
    <2> QED
      BY <1>7, <2>1, <2>2 DEF RttDropsCommand, TypeOK, PointersBorn, LooperStates
  <1>8. CASE RttReleasesCommand
    <2>1. refs' \in [Cmds -> Int] /\ freed' \subseteq Cmds
      BY <1>8, ReleaseTyped DEF RttReleasesCommand, PointersBorn
    <2> QED
      BY <1>8, <2>1 DEF RttReleasesCommand, releaseRef, TypeOK, PointersBorn, LooperStates
  <1>9. CASE LoopReleases
    <2>1. refs' \in [Cmds -> Int] /\ freed' \subseteq Cmds
      BY <1>9, ReleaseTyped DEF LoopReleases, PointersBorn
    <2>2. NoEvent \in Event
      BY DEF NoEvent, Event, Events
    <2> QED
      BY <1>9, <2>1, <2>2
      DEF LoopReleases, releaseRef, Again, TypeOK, PointersBorn, LooperStates
  <1>10. CASE LoopHangsUp
    BY <1>10 DEF LoopHangsUp, TypeOK, PointersBorn, LooperStates
  <1>11. ASSUME NEW s \in Subs, NEW complete \in BOOLEAN, DriverEmits(s, complete)
         PROVE  TypeInv'
    <2>1. s \in Events
      <3>1. PICK k \in Classes : s \in Subscribes(k)
        BY DEF Subs
      <3>2. StartScript[k] \in Seq(Ops)
        BY ScriptsTyped, ClassesAssumption
      <3>3. PICK j \in DOMAIN StartScript[k] :
               StartScript[k][j].op = "register" /\ s = StartScript[k][j].subs[1]
        BY <3>1 DEF Subscribes, Touches
      <3>4. StartScript[k][j] \in Ops
        BY <3>2
      <3>5. StartScript[k][j].subs \in Seq(Events) \ {<<>>}
        BY <3>3, <3>4 DEF Ops
      <3> QED
        BY <3>3, <3>5
    <2>2. [sub |-> s, complete |-> complete] \in Event
      BY <2>1 DEF Event
    <2>3. evq' \in Seq(Event)
      BY <1>11, <2>2 DEF DriverEmits, TypeOK
    <2> QED
      BY <1>11, <2>3 DEF DriverEmits, looper, TypeOK, PointersBorn
  <1>12. CASE LoopGoesOn
    BY <1>1, <1>2, <1>3, <1>4, <1>5, <1>6, <1>7, <1>8, <1>9, <1>12 DEF LoopGoesOn
  <1> HIDE DEF TypeInv
  <1> QED
    BY <1>10, <1>11, <1>12

(* TypeInv is inductive.                                                    *)
LEMMA TypeStep == TypeInv /\ [Next]_vars => TypeInv'
  <1> SUFFICES ASSUME TypeInv, [Next]_vars PROVE TypeInv'
    OBVIOUS
  <1>1. CASE ClientCalls
    BY <1>1, StartTyped, StopTyped, CleanupTyped DEF ClientCalls
  <1>2. CASE CallGoesOn
    BY <1>2, StartStepsTyped, StopTyped, CleanupTyped DEF CallGoesOn
  <1>3. CASE LoopGoesOn \/ LoopHangsUp
             \/ \E s \in Subs, complete \in BOOLEAN : DriverEmits(s, complete)
    BY <1>3, LoopTyped
  <1>4. CASE UNCHANGED vars
    BY <1>4 DEF vars, tables, flags, heap, caller, looper, socks, driver,
                TypeInv, TypeOK, PointersBorn
  <1> QED
    BY <1>1, <1>2, <1>3, <1>4 DEF Next, Finished

(* The tables never outgrow what wifi_initialize allocated for them, every  *)
(* variable keeps its type, and what tables and threads point to was        *)
(* created.                                                                 *)
THEOREM TypeCorrect == Spec => [](TypeOK /\ PointersBorn)
  <1>1. ASSUME Init PROVE TypeInv
    <2>1. NoEvent \in Event
      BY DEF NoEvent, Event, Events
    <2>2. /\ cmd \in Seq(CmdInfo) /\ Len(cmd) <= AllocCmd /\ DOMAIN cmd = {}
          /\ event_cb \in Seq(CbInfo) /\ Len(event_cb) <= AllocEventCb
          /\ DOMAIN event_cb = {}
          /\ objs \in Seq(Object) /\ Len(objs) <= MaxCommands
          /\ script \in Seq(Ops) /\ evq \in Seq(Event)
      BY <1>1, BoundsAssumption DEF Init
    <2>3. refs \in [Cmds -> Int]
      BY <1>1 DEF Init
    <2> QED
      BY <1>1, <2>1, <2>2, <2>3
      DEF Init, TypeInv, TypeOK, PointersBorn, CallerStates, LooperStates
  <1> QED
    BY <1>1, TypeStep, PTL DEF Spec, TypeInv

-----------------------------------------------------------------------------
(* The handshake of wifi_cleanup.                                           *)

SweepStates == {"sweep", "sweepCancel", "finished"}

(* Nothing of the event thread that takes a command out of the table can    *)
(* run beside the sweep: "Exit" can be written, so that it is waited for,   *)
(* or there is no RTT, which is all that takes one out.                     *)
SweepSafe == "write" \notin Faults \/ "rtt" \notin Classes

(* wifi_cleanup frees the HAL last; until its sweep begins it has passed no *)
(* entry, and if "Exit" was written the event thread is gone by then.       *)
SweepAlone ==
    /\ "write" \notin Faults => (apc \in SweepStates \/ doneMsg => lpc = "done")
    /\ info = "freed" => apc = "finished"
    /\ apc \notin SweepStates => bad_commands = 0

(* No step of either thread breaks SweepAlone.                              *)
LEMMA SweepAloneStep ==
    ASSUME SweepAlone, [Next]_vars
    PROVE  SweepAlone'
  <1> USE DEF SweepAlone, SweepStates, tables, flags, heap, caller, looper, socks, driver
  <1>1. CASE ClientCalls
    <2>1. ASSUME NEW k \in Classes, NEW i \in Ids, Start(k, i) PROVE SweepAlone'
      BY <2>1 DEF Start, Calls
    <2>2. ASSUME NEW c \in Cmds, wifi_cancel_cmd(c) PROVE SweepAlone'
      BY <2>2 DEF wifi_cancel_cmd, Calls
    <2>3. ASSUME NEW c \in Cmds, wifi_rtt_range_cancel(c) PROVE SweepAlone'
      BY <2>3 DEF wifi_rtt_range_cancel, Calls
    <2>4. ASSUME NEW k \in Classes, Flush(k) PROVE SweepAlone'
      BY <2>4 DEF Flush, Calls
    <2>5. CASE CleanupSendsExit
      BY <2>5 DEF CleanupSendsExit, Calls
    <2>6. CASE CleanupCannotWrite
      BY <2>6 DEF CleanupCannotWrite, Calls
    <2> HIDE DEF SweepAlone
    <2> QED
      BY <1>1, <2>1, <2>2, <2>3, <2>4, <2>5, <2>6 DEF ClientCalls
  <1>2. CASE CallGoesOn
    <2>1. CASE StartGoesOn \/ StartFails \/ StartRegisters \/ StartReturns \/ StartUndone
      BY <2>1 DEF StartGoesOn, StartFails, StartRegisters, StartReturns, StartUndone, Runs
    <2>2. CASE CancelRequests \/ Unregisters \/ CancelReturns \/ Releases
      BY <2>2 DEF CancelRequests, Unregisters, CancelReturns, Releases, Runs
    <2>3. CASE CleanupReadsDone \/ SweepNext \/ SweepReleases \/ CleanedUp
      BY <2>3 DEF CleanupReadsDone, SweepNext, SweepReleases, CleanedUp
    <2> QED
      BY <1>2, <2>1, <2>2, <2>3 DEF CallGoesOn
  <1>3. CASE LoopGoesOn
    BY <1>3 DEF LoopGoesOn, LoopEnters, LoopDispatches, LoopPollError, LoopExits,
                LoopHandlesEvent, RttCallback, RttDropsCommand, RttReleasesCommand,
                LoopReleases
  <1>4. CASE LoopHangsUp
    BY <1>4 DEF LoopHangsUp
  <1>5. ASSUME NEW s \in Subs, NEW complete \in BOOLEAN, DriverEmits(s, complete)
        PROVE  SweepAlone'
    BY <1>5 DEF DriverEmits
  <1>6. CASE UNCHANGED vars
    BY <1>6 DEF vars
  <1> QED
    BY <1>1, <1>2, <1>3, <1>4, <1>5, <1>6 DEF Next, Finished

(* The event thread has left wifi_event_loop before wifi_cleanup frees the  *)
(* hal_info, whatever the two threads were doing when it was called.        *)
THEOREM CleanupOrder ==
    "write" \notin Faults => (Spec => []LoopGoneBeforeFree)
  <1> SUFFICES ASSUME "write" \notin Faults PROVE Spec => []LoopGoneBeforeFree
    OBVIOUS
  <1>1. Init => SweepAlone
    BY DEF Init, SweepAlone, SweepStates
  <1>2. SweepAlone /\ [Next]_vars => SweepAlone'
    BY SweepAloneStep
  <1>3. SweepAlone => LoopGoneBeforeFree
    BY DEF SweepAlone, SweepStates, LoopGoneBeforeFree
  <1> QED
    BY <1>1, <1>2, <1>3, PTL DEF Spec

-----------------------------------------------------------------------------
(* Reference counts.                                                        *)

(* No two commands have the same id, so a search by id finds its command.   *)
IdsDistinct == \A c, d \in DOMAIN objs : objs[c].id = objs[d].id => c = d

(* An entry of the table carries the id of its command, and no command is   *)
(* in the table twice.                                                      *)
EntriesOwn ==
    /\ \A n \in DOMAIN cmd : cmd[n].id = objs[cmd[n].cmd].id
    /\ \A m, n \in DOMAIN cmd : cmd[m].cmd = cmd[n].cmd => m = n

(* What the event thread holds between its steps.                           *)
LoopFrame ==
    /\ lpc \in {"out", "poll", "done"} => lcmd = NoCmd
    /\ lpc # "rttRelease" => lrel = NoCmd
    /\ lpc \in {"rttCallback", "rttDrop", "rttRelease"} => objs[lcmd].class = "rtt"

(* The sweep of wifi_cleanup is at the entry after the ones it has passed.  *)
SweepFrame ==
    apc = "sweepCancel" =>
        /\ bad_commands + 1 \in DOMAIN cmd
        /\ cmd[bad_commands + 1].cmd = acmd
        /\ num_cmd = Len(cmd)

(* The rest of start() of an RTT request, from each of its points.          *)
RttRest ==
    {<<Create, Request(<<>>), Register("RTT_EVENT_COMPLETE")>>,
     <<Request(<<>>), Register("RTT_EVENT_COMPLETE")>>,
     <<Register("RTT_EVENT_COMPLETE")>>, <<>>}

(* As long as start() has something left to do or to undo, its command is   *)
(* in the table.  Nothing but the event thread could take it out, and only  *)
(* for an RTT command that has a handler; RTT registers its handler last.   *)
StartFrame ==
    /\ apc = "unwind" \/ (apc = "start" /\ script # <<>>) =>
          /\ \E n \in DOMAIN cmd : cmd[n].cmd = acmd
          /\ objs[acmd].class = "rtt" =>
                /\ lcmd # acmd
                /\ \A n \in DOMAIN event_cb : event_cb[n].cmd # acmd
    /\ apc = "start" /\ objs[acmd].class = "rtt" => script \in RttRest

RefsInv ==
    /\ IdsDistinct /\ EntriesOwn /\ LoopFrame /\ SweepFrame /\ StartFrame
    /\ RefsExact

(* A step that changes no holder and no count.                              *)
LEMMA RefsKept ==
    ASSUME RefsExact, UNCHANGED <<refs, cmd, bad_commands, lcmd, lrel>>,
           \A c \in Cmds : CallHolds(c)' <=> CallHolds(c)
    PROVE  RefsExact'
  <1> SUFFICES ASSUME NEW c \in Cmds
               PROVE  refs'[c] = One(TableHolds(c)') + One(CallHolds(c)')
                                 + One(LoopHolds(c)') + One(RttHolds(c)')
    BY DEF RefsExact, One
  <1>1. TableHolds(c)' <=> TableHolds(c)
    BY DEF TableHolds
  <1>2. (LoopHolds(c)' <=> LoopHolds(c)) /\ (RttHolds(c)' <=> RttHolds(c))
    BY DEF LoopHolds, RttHolds
  <1>3. refs[c] = One(TableHolds(c)) + One(CallHolds(c))
                  + One(LoopHolds(c)) + One(RttHolds(c))
    BY DEF RefsExact
  <1> QED
    BY <1>1, <1>2, <1>3 DEF One

(* An unregister by id takes out the entry of one command, or none.         *)
LEMMA TakesOne ==
    ASSUME TypeInv, EntriesOwn, bad_commands = 0, UNCHANGED <<objs, bad_commands>>,
           NEW i, NEW x, wifi_unregister_cmd(i, x)
    PROVE  /\ EntriesOwn'
           /\ x # NoCmd => /\ x \in DOMAIN objs /\ objs[x].id = i
                           /\ TableHolds(x) /\ ~TableHolds(x)'
           /\ \A c \in Cmds : c # x => (TableHolds(c)' <=> TableHolds(c))
           /\ x = NoCmd => \A n \in DOMAIN cmd : cmd[n].id # i
           /\ \A c : c # x /\ (\E n \in DOMAIN cmd : cmd[n].cmd = c)
                   => \E n \in DOMAIN cmd' : cmd'[n].cmd = c
  <1>1. CASE /\ \A n \in DOMAIN cmd : cmd[n].id # i
             /\ x = NoCmd
             /\ UNCHANGED cmd
    BY <1>1 DEF EntriesOwn, TableHolds
  <1>2. ASSUME NEW n \in DOMAIN cmd, cmd[n].id = i, x = cmd[n].cmd,
               cmd' = Without(cmd, n)
        PROVE  /\ EntriesOwn'
               /\ x \in DOMAIN objs /\ objs[x].id = i
               /\ TableHolds(x) /\ ~TableHolds(x)'
               /\ \A c : c # x => (TableHolds(c)' <=> TableHolds(c))
               /\ \A c : c # x /\ (\E m \in DOMAIN cmd : cmd[m].cmd = c)
                       => \E m \in DOMAIN cmd' : cmd'[m].cmd = c
    <2>1. cmd \in Seq(CmdInfo) /\ Len(cmd) \in Nat /\ DOMAIN cmd = 1..Len(cmd)
      BY DEF TypeInv, TypeOK
    <2>2. /\ DOMAIN cmd' = 1..(Len(cmd) - 1)
          /\ \A j \in 1..(Len(cmd) - 1) :
                cmd'[j] = IF j < n THEN cmd[j] ELSE cmd[j + 1]
      BY <1>2, <2>1, WithoutTyped
    <2> DEFINE old(j) == IF j < n THEN j ELSE j + 1
    <2>3. \A j \in DOMAIN cmd' :
             old(j) \in DOMAIN cmd /\ old(j) # n /\ cmd'[j] = cmd[old(j)]
      BY <2>1, <2>2
    <2>4. \A m \in DOMAIN cmd : m # n => \E j \in DOMAIN cmd' : cmd'[j] = cmd[m]
      <3> SUFFICES ASSUME NEW m \in DOMAIN cmd, m # n
                   PROVE  \E j \in DOMAIN cmd' : cmd'[j] = cmd[m]
        OBVIOUS
      <3>1. CASE m < n
        <4>1. m \in DOMAIN cmd' /\ cmd'[m] = cmd[m]
          BY <3>1, <2>1, <2>2
        <4> QED
          BY <4>1
      <3>2. CASE m > n
        <4>1. m - 1 \in DOMAIN cmd' /\ cmd'[m - 1] = cmd[m]
          BY <3>2, <2>1, <2>2
        <4> QED
          BY <4>1
      <3> QED
        BY <3>1, <3>2, <2>1
    <2>5. \A j, l \in DOMAIN cmd' : old(j) = old(l) => j = l
      BY <2>1, <2>2
    <2>6. x \in DOMAIN objs /\ objs[x].id = i /\ TableHolds(x)
      BY <1>2, <2>1 DEF TypeInv, PointersBorn, EntriesOwn, TableHolds
    <2> HIDE DEF old
    <2>7. EntriesOwn'
      BY <2>3, <2>5 DEF EntriesOwn
    <2>8. ~TableHolds(x)'
      BY <1>2, <2>3 DEF EntriesOwn, TableHolds
    <2>9. \A c : c # x => (TableHolds(c)' <=> TableHolds(c))
      <3> SUFFICES ASSUME NEW c, c # x PROVE TableHolds(c)' <=> TableHolds(c)
        OBVIOUS
      <3>1. TableHolds(c)' <=> \E j \in DOMAIN cmd' : cmd'[j].cmd = c
        BY <2>1, <2>2 DEF TableHolds
      <3>2. TableHolds(c) <=> \E m \in DOMAIN cmd : cmd[m].cmd = c
        BY <2>1 DEF TableHolds
      <3> QED
        BY <1>2, <2>3, <2>4, <3>1, <3>2
    <2>10. \A c : c # x /\ (\E m \in DOMAIN cmd : cmd[m].cmd = c)
                => \E m \in DOMAIN cmd' : cmd'[m].cmd = c
      BY <1>2, <2>4
    <2> QED
      BY <2>6, <2>7, <2>8, <2>9, <2>10
  <1>3. x # NoCmd \/ ~(\E n \in DOMAIN cmd : x = cmd[n].cmd)
    BY Shapes DEF TypeInv, PointersBorn
  <1> QED
    BY <1>1, <1>2, <1>3 DEF wifi_unregister_cmd, FoundCmd

(* An unregister of a handler leaves only handlers that were there.         *)
LEMMA HandlersKept ==
    ASSUME TypeInv, NEW s, wifi_unregister_vendor_handler(s)
    PROVE  \A n \in DOMAIN event_cb' : \E m \in DOMAIN event_cb : event_cb'[n] = event_cb[m]
  <1>1. /\ event_cb \in Seq(CbInfo) /\ Len(event_cb) \in Nat
        /\ DOMAIN event_cb = 1..Len(event_cb)
    BY DEF TypeInv, TypeOK
  <1>2. CASE UNCHANGED event_cb
    BY <1>2
  <1>3. ASSUME NEW n \in DOMAIN event_cb, event_cb' = Without(event_cb, n)
        PROVE  \A j \in DOMAIN event_cb' : \E m \in DOMAIN event_cb : event_cb'[j] = event_cb[m]
    <2>1. /\ DOMAIN event_cb' = 1..(Len(event_cb) - 1)
          /\ \A j \in 1..(Len(event_cb) - 1) :
                event_cb'[j] = IF j < n THEN event_cb[j] ELSE event_cb[j + 1]
      BY <1>1, <1>3, WithoutTyped
    <2> QED
      BY <1>1, <2>1, SMTT(30)
  <1> QED
    BY <1>2, <1>3 DEF wifi_unregister_vendor_handler

(* start() of RTT: its steps keep to RttRest, and the handler comes last.   *)
LEMMA RttRestSteps ==
    /\ StartScript["rtt"] \in RttRest
    /\ \A r \in RttRest : r # <<>> =>
          /\ Tail(r) \in RttRest
          /\ Head(r).op = "register" => Tail(r) = <<>>
  <1> DEFINE g == Register("RTT_EVENT_COMPLETE")
  <1>1. StartScript["rtt"] = <<Create, Request(<<>>), g>>
    BY DEF StartScript, RttStart
  <1>2. Create.op = "create" /\ Request(<<>>).op = "request"
    BY DEF Create, Request
  <1> HIDE DEF g
  <1>3. /\ Tail(<<Create, Request(<<>>), g>>) = <<Request(<<>>), g>>
        /\ Tail(<<Request(<<>>), g>>) = <<g>>
        /\ Tail(<<g>>) = <<>>
    OBVIOUS
  <1>4. /\ Head(<<Create, Request(<<>>), g>>) = Create
        /\ Head(<<Request(<<>>), g>>) = Request(<<>>)
    OBVIOUS
  <1>5. RttRest = {<<Create, Request(<<>>), g>>, <<Request(<<>>), g>>, <<g>>, <<>>}
    BY DEF RttRest, g
  <1> QED
    BY <1>1, <1>2, <1>3, <1>4, <1>5

(* A new command: its only holder is the table, and nobody knew it before.  *)
LEMMA StartRefs ==
    ASSUME FreshIds, TypeInv, SweepAlone, RefsInv,
           NEW k \in Classes, NEW i \in Ids, Start(k, i)
    PROVE  RefsInv'
  <1> DEFINE c == Len(objs) + 1
  <1> DEFINE o == [class |-> k, id |-> i]
  <1> DEFINE e == [id |-> i, cmd |-> c]
  <1>1. /\ c \in Cmds /\ o.id = i /\ o.class = k /\ e.id = i /\ e.cmd = c
        /\ objs' = Append(objs, o)
        /\ UNCHANGED <<event_cb, flags, bad_commands, num_cmd, looper, socks, driver>>
        /\ apc = "idle"
        /\ \A d \in DOMAIN objs : objs[d].id # i
    BY DEF Start, Calls, MayUse
  <1>2. /\ objs \in Seq(Object) /\ Len(objs) \in Nat
        /\ DOMAIN objs = 1..Len(objs) /\ c \notin DOMAIN objs
    BY DEF TypeInv, TypeOK
  <1>3. /\ DOMAIN objs' = DOMAIN objs \cup {c}
        /\ \A d \in DOMAIN objs : objs'[d] = objs[d]
        /\ objs'[c] = o
    BY <1>1, <1>2
  <1>4. c # NoCmd /\ lcmd # c /\ lrel # c
    <2>1. lcmd \in DOMAIN objs \cup {NoCmd} /\ lrel \in DOMAIN objs \cup {NoCmd}
      BY DEF TypeInv, TypeOK, PointersBorn, RefsInv, LoopFrame, LooperStates
    <2>2. c # NoCmd
      BY <1>2 DEF NoCmd
    <2> QED
      BY <1>2, <2>1, <2>2
  <1>5. bad_commands = 0 /\ bad_commands' = 0
    BY <1>1 DEF SweepAlone, SweepStates
  <1> HIDE DEF c, o, e
  <1>6. IdsDistinct'
    BY <1>1, <1>3 DEF RefsInv, IdsDistinct
  <1>7. LoopFrame'
    <2>1. lpc \in {"rttCallback", "rttDrop", "rttRelease"} => lcmd \in DOMAIN objs
      BY DEF TypeInv, PointersBorn
    <2> QED
      BY <1>1, <1>3, <2>1 DEF RefsInv, LoopFrame, looper
  <1>8. CASE /\ wifi_register_cmd(i, c)
             /\ refs' = [refs EXCEPT ![c] = 1]
             /\ apc' = "start" /\ acmd' = c /\ script' = StartScript[k]
    <2>1. cmd' = Append(cmd, e) /\ cmd \in Seq(CmdInfo) /\ Len(cmd) \in Nat
      BY <1>8 DEF wifi_register_cmd, TypeInv, TypeOK, e
    <2>2. /\ DOMAIN cmd' = DOMAIN cmd \cup {Len(cmd) + 1}
          /\ \A n \in DOMAIN cmd : cmd'[n] = cmd[n] /\ n # Len(cmd) + 1
          /\ cmd'[Len(cmd) + 1] = e
          /\ Len(cmd) + 1 > 0
      BY <2>1
    <2>3. \A n \in DOMAIN cmd : cmd[n].cmd \in DOMAIN objs /\ cmd[n].cmd # c
      BY <1>2 DEF TypeInv, PointersBorn
    <2>4. EntriesOwn'
      BY <1>1, <1>3, <2>2, <2>3 DEF RefsInv, EntriesOwn
    <2>5. SweepFrame'
      BY <1>8 DEF SweepFrame
    <2>6. StartFrame'
      <3>1. \E n \in DOMAIN cmd' : cmd'[n].cmd = acmd'
        BY <1>1, <1>8, <2>2
      <3>2. \A n \in DOMAIN event_cb' : event_cb'[n].cmd # acmd'
        BY <1>1, <1>2, <1>8 DEF TypeInv, PointersBorn
      <3>3. objs'[acmd'].class = "rtt" => script' \in RttRest
        BY <1>1, <1>3, <1>8, RttRestSteps
      <3> QED
        BY <1>1, <1>4, <1>8, <3>1, <3>2, <3>3 DEF StartFrame, looper
    <2>7. RefsExact'
      <3> SUFFICES ASSUME NEW d \in Cmds
                   PROVE  refs'[d] = One(TableHolds(d)') + One(CallHolds(d)')
                                     + One(LoopHolds(d)') + One(RttHolds(d)')
        BY DEF RefsExact, One
      <3>1. refs \in [Cmds -> Int]
        BY DEF TypeInv, TypeOK
      <3>2. ~CallHolds(d)' /\ ~CallHolds(d)
        BY <1>1, <1>8 DEF CallHolds
      <3>3. (LoopHolds(d)' <=> LoopHolds(d)) /\ (RttHolds(d)' <=> RttHolds(d))
        BY <1>1 DEF LoopHolds, RttHolds, looper
      <3>4. CASE d = c
        <4>1. TableHolds(d)' /\ ~LoopHolds(d) /\ ~RttHolds(d)
          BY <1>1, <1>4, <1>5, <2>1, <2>2, <3>4 DEF TableHolds, LoopHolds, RttHolds
        <4>2. refs'[d] = 1
          BY <1>1, <1>8, <3>1, <3>4
        <4> QED
          BY <3>2, <3>3, <4>1, <4>2 DEF One
      <3>5. CASE d # c
        <4>1. TableHolds(d)' <=> TableHolds(d)
          BY <1>1, <1>5, <2>2, <3>5 DEF TableHolds
        <4>2. refs'[d] = refs[d]
          BY <1>1, <1>8, <3>1, <3>5
        <4>3. refs[d] = One(TableHolds(d)) + One(CallHolds(d))
                        + One(LoopHolds(d)) + One(RttHolds(d))
          BY DEF RefsInv, RefsExact
        <4> QED
          BY <3>2, <3>3, <4>1, <4>2, <4>3 DEF One
      <3> QED
        BY <3>4, <3>5
    <2> QED
      BY <1>6, <1>7, <2>4, <2>5, <2>6, <2>7 DEF RefsInv
  <1>9. CASE UNCHANGED <<cmd, refs, apc, acmd, script, active>>
    <2>1. EntriesOwn'
      BY <1>3, <1>9 DEF RefsInv, EntriesOwn, TypeInv, PointersBorn
    <2>2. SweepFrame' /\ StartFrame'
      BY <1>1, <1>9 DEF SweepFrame, StartFrame
    <2>3. RefsExact'
      BY <1>1, <1>9, RefsKept DEF RefsInv, CallHolds, looper
    <2> QED
      BY <1>6, <1>7, <2>1, <2>2, <2>3 DEF RefsInv
  <1> QED
    BY <1>8, <1>9 DEF Start, c

(* The steps of start().                                                    *)
LEMMA StartStepsRefs ==
    ASSUME TypeInv, SweepAlone, RefsInv,
           StartGoesOn \/ StartFails \/ StartRegisters \/ StartReturns \/ StartUndone
    PROVE  RefsInv'
  <1> USE DEF tables, flags, heap, looper, socks, driver
  <1>1. CASE StartGoesOn \/ StartFails \/ StartReturns
    <2>1. /\ UNCHANGED <<tables, heap, bad_commands, num_cmd, looper>>
          /\ apc \in {"start"} /\ apc' \in {"start", "unwind", "idle"}
          /\ \/ acmd' = acmd /\ script # <<>>
             \/ apc' = "idle"
          /\ apc' = "start" => script' = Tail(script)
      BY <1>1 DEF StartGoesOn, StartFails, StartReturns, Runs
    <2>2. IdsDistinct' /\ EntriesOwn' /\ LoopFrame' /\ SweepFrame'
      BY <2>1 DEF RefsInv, IdsDistinct, EntriesOwn, LoopFrame, SweepFrame
    <2>3. StartFrame'
      BY <2>1, RttRestSteps DEF RefsInv, StartFrame
    <2>4. RefsExact'
      BY <2>1, RefsKept DEF RefsInv, CallHolds
    <2> QED
      BY <2>2, <2>3, <2>4 DEF RefsInv
  <1>2. CASE StartRegisters
    <2>1. /\ UNCHANGED <<cmd, heap, apc, acmd, bad_commands, num_cmd, looper>>
          /\ apc = "start" /\ script # <<>> /\ Head(script).op = "register"
          /\ script' = Tail(script)
      BY <1>2 DEF StartRegisters, Runs
    <2>2. IdsDistinct' /\ EntriesOwn' /\ LoopFrame' /\ SweepFrame'
      BY <2>1 DEF RefsInv, IdsDistinct, EntriesOwn, LoopFrame, SweepFrame
    <2>3. StartFrame'
      BY <2>1, RttRestSteps DEF RefsInv, StartFrame
    <2>4. RefsExact'
      BY <2>1, RefsKept DEF RefsInv, CallHolds
    <2> QED
      BY <2>2, <2>3, <2>4 DEF RefsInv
  <1>3. CASE StartUndone
    <2>1. PICK x \in Cmds \cup {NoCmd} : wifi_unregister_cmd(objs[acmd].id, x)
      BY <1>3 DEF StartUndone
    <2>2. /\ UNCHANGED <<event_cb, heap, acmd, bad_commands, num_cmd, looper>>
          /\ apc = "unwind" /\ apc' = "release" /\ bad_commands = 0
      BY <1>3 DEF StartUndone, SweepAlone, SweepStates
    <2>3. /\ EntriesOwn'
          /\ x # NoCmd => /\ x \in DOMAIN objs /\ objs[x].id = objs[acmd].id
                          /\ TableHolds(x) /\ ~TableHolds(x)'
          /\ \A c \in Cmds : c # x => (TableHolds(c)' <=> TableHolds(c))
          /\ x = NoCmd => \A n \in DOMAIN cmd : cmd[n].id # objs[acmd].id
      BY <2>1, <2>2, TakesOne DEF RefsInv
    <2>4. x = acmd /\ x # NoCmd
      BY <2>2, <2>3 DEF RefsInv, StartFrame, EntriesOwn, IdsDistinct, TypeInv, PointersBorn
    <2>5. IdsDistinct' /\ LoopFrame' /\ SweepFrame' /\ StartFrame'
      BY <2>2 DEF RefsInv, IdsDistinct, LoopFrame, SweepFrame, StartFrame
    <2>6. RefsExact'
      <3> SUFFICES ASSUME NEW c \in Cmds
                   PROVE  refs'[c] = One(TableHolds(c)') + One(CallHolds(c)')
                                     + One(LoopHolds(c)') + One(RttHolds(c)')
        BY DEF RefsExact, One
      <3>1. (CallHolds(c)' <=> c = x) /\ ~CallHolds(c)
        BY <2>2, <2>4 DEF CallHolds
      <3>2. (LoopHolds(c)' <=> LoopHolds(c)) /\ (RttHolds(c)' <=> RttHolds(c))
        BY <2>2 DEF LoopHolds, RttHolds
      <3>3. refs[c] = One(TableHolds(c)) + One(CallHolds(c))
                      + One(LoopHolds(c)) + One(RttHolds(c))
        BY DEF RefsInv, RefsExact
      <3>4. refs'[c] = refs[c]
        BY <2>2
      <3> QED
        BY <2>3, <2>4, <3>1, <3>2, <3>3, <3>4 DEF One
    <2> QED
      BY <2>3, <2>5, <2>6 DEF RefsInv
  <1> QED
    BY <1>1, <1>2, <1>3

(* Stopping: the reference of the table passes to the call, which drops it. *)
LEMMA StopRefs ==
    ASSUME TypeInv, SweepAlone, RefsInv,
           \/ \E c \in Cmds : wifi_cancel_cmd(c) \/ wifi_rtt_range_cancel(c)
           \/ \E k \in Classes : Flush(k)
           \/ CancelRequests \/ Unregisters \/ CancelReturns \/ Releases
    PROVE  RefsInv'
  <1> USE DEF tables, flags, heap, looper, socks, driver
  <1>1. ASSUME NEW c \in Cmds, wifi_cancel_cmd(c)
        PROVE  RefsInv'
    <2>1. PICK x \in Cmds \cup {NoCmd} :
             /\ wifi_unregister_cmd(objs[c].id, x)
             /\ acmd' = x
             /\ \/ x = NoCmd /\ UNCHANGED <<apc, script>>
                \/ x # NoCmd /\ apc' = "cancel"
      BY <1>1 DEF wifi_cancel_cmd
    <2>2. /\ UNCHANGED <<event_cb, heap, bad_commands, num_cmd, looper>>
          /\ apc = "idle" /\ bad_commands = 0
      BY <1>1 DEF wifi_cancel_cmd, Calls, SweepAlone, SweepStates
    <2>3. /\ EntriesOwn'
          /\ x # NoCmd => TableHolds(x) /\ ~TableHolds(x)'
          /\ \A d \in Cmds : d # x => (TableHolds(d)' <=> TableHolds(d))
      BY <2>1, <2>2, TakesOne DEF RefsInv
    <2>4. IdsDistinct' /\ LoopFrame' /\ SweepFrame' /\ StartFrame'
      BY <2>1, <2>2 DEF RefsInv, IdsDistinct, LoopFrame, SweepFrame, StartFrame
    <2>5. RefsExact'
      <3> SUFFICES ASSUME NEW d \in Cmds
                   PROVE  refs'[d] = One(TableHolds(d)') + One(CallHolds(d)')
                                     + One(LoopHolds(d)') + One(RttHolds(d)')
        BY DEF RefsExact, One
      <3>1. (CallHolds(d)' <=> d = x) /\ ~CallHolds(d) /\ d # NoCmd
        BY <2>1, <2>2, Shapes DEF CallHolds
      <3>2. (LoopHolds(d)' <=> LoopHolds(d)) /\ (RttHolds(d)' <=> RttHolds(d))
        BY <2>2 DEF LoopHolds, RttHolds
      <3>3. refs[d] = One(TableHolds(d)) + One(CallHolds(d))
                      + One(LoopHolds(d)) + One(RttHolds(d))
        BY DEF RefsInv, RefsExact
      <3>4. refs'[d] = refs[d]
        BY <2>2
      <3> QED
        BY <2>3, <3>1, <3>2, <3>3, <3>4 DEF One
    <2> QED
      BY <2>3, <2>4, <2>5 DEF RefsInv
  <1>2. ASSUME \/ \E c \in Cmds : wifi_rtt_range_cancel(c)
               \/ \E k \in Classes : Flush(k)
        PROVE  RefsInv'
    <2>1. /\ UNCHANGED <<tables, heap, bad_commands, num_cmd, looper>>
          /\ apc = "idle" /\ apc' = "flush"
      BY <1>2 DEF wifi_rtt_range_cancel, Flush, Calls
    <2>2. IdsDistinct' /\ EntriesOwn' /\ LoopFrame' /\ SweepFrame' /\ StartFrame'
      BY <2>1 DEF RefsInv, IdsDistinct, EntriesOwn, LoopFrame, SweepFrame, StartFrame
    <2>3. RefsExact'
      BY <2>1, RefsKept DEF RefsInv, CallHolds
    <2> QED
      BY <2>2, <2>3 DEF RefsInv
  <1>3. CASE CancelRequests \/ CancelReturns
    <2>1. /\ UNCHANGED <<tables, heap, acmd, bad_commands, num_cmd, looper>>
          /\ \/ apc' = apc /\ apc \in {"cancel", "flush", "sweepCancel"}
             \/ apc = "cancel" /\ apc' = "release"
             \/ apc = "flush" /\ apc' = "idle"
      BY <1>3 DEF CancelRequests, CancelReturns, Runs
    <2>2. IdsDistinct' /\ EntriesOwn' /\ LoopFrame' /\ SweepFrame' /\ StartFrame'
      BY <2>1 DEF RefsInv, IdsDistinct, EntriesOwn, LoopFrame, SweepFrame, StartFrame
    <2>3. RefsExact'
      BY <2>1, RefsKept DEF RefsInv, CallHolds
    <2> QED
      BY <2>2, <2>3 DEF RefsInv
  <1>4. CASE Unregisters
    <2>1. /\ UNCHANGED <<cmd, heap, apc, acmd, bad_commands, num_cmd, looper>>
          /\ apc \in {"unwind", "cancel", "flush", "sweepCancel"}
      BY <1>4 DEF Unregisters, Runs
    <2>2. \A n \in DOMAIN event_cb' : \E m \in DOMAIN event_cb : event_cb'[n] = event_cb[m]
      BY <1>4, HandlersKept DEF Unregisters
    <2>3. IdsDistinct' /\ EntriesOwn' /\ LoopFrame' /\ SweepFrame'
      BY <2>1 DEF RefsInv, IdsDistinct, EntriesOwn, LoopFrame, SweepFrame
    <2>4. StartFrame'
      BY <2>1, <2>2 DEF RefsInv, StartFrame
    <2>5. RefsExact'
      BY <2>1, RefsKept DEF RefsInv, CallHolds
    <2> QED
      BY <2>3, <2>4, <2>5 DEF RefsInv
  <1>5. CASE Releases
    <2>1. /\ UNCHANGED <<tables, objs, bad_commands, num_cmd, looper>>
          /\ apc = "release" /\ apc' = "idle"
          /\ refs' = [refs EXCEPT ![acmd] = @ - 1]
      BY <1>5 DEF Releases, releaseRef
    <2>2. IdsDistinct' /\ EntriesOwn' /\ LoopFrame' /\ SweepFrame' /\ StartFrame'
      BY <2>1 DEF RefsInv, IdsDistinct, EntriesOwn, LoopFrame, SweepFrame, StartFrame
    <2>3. RefsExact'
      <3> SUFFICES ASSUME NEW d \in Cmds
                   PROVE  refs'[d] = One(TableHolds(d)') + One(CallHolds(d)')
                                     + One(LoopHolds(d)') + One(RttHolds(d)')
        BY DEF RefsExact, One
      <3>1. ~CallHolds(d)' /\ (CallHolds(d) <=> d = acmd)
        BY <2>1 DEF CallHolds
      <3>2. /\ TableHolds(d)' <=> TableHolds(d)
            /\ LoopHolds(d)' <=> LoopHolds(d)
            /\ RttHolds(d)' <=> RttHolds(d)
        BY <2>1 DEF TableHolds, LoopHolds, RttHolds
      <3>3. refs[d] = One(TableHolds(d)) + One(CallHolds(d))
                      + One(LoopHolds(d)) + One(RttHolds(d))
        BY DEF RefsInv, RefsExact
      <3>4. refs'[d] = IF d = acmd THEN refs[d] - 1 ELSE refs[d]
        BY <2>1 DEF TypeInv, TypeOK
      <3> QED
        BY <3>1, <3>2, <3>3, <3>4 DEF One
    <2> QED
      BY <2>2, <2>3 DEF RefsInv
  <1> QED
    BY <1>1, <1>2, <1>3, <1>4, <1>5

(* wifi_cleanup: a step of the sweep drops the reference of one entry.      *)
LEMMA CleanupRefs ==
    ASSUME TypeInv, SweepAlone, RefsInv,
           \/ CleanupSendsExit \/ CleanupCannotWrite \/ CleanupReadsDone
           \/ SweepNext \/ SweepReleases \/ CleanedUp
    PROVE  RefsInv'
  <1> USE DEF tables, flags, heap, looper, socks, driver
  <1>1. CASE CleanupSendsExit \/ CleanupCannotWrite \/ CleanupReadsDone \/ CleanedUp
    <2>1. /\ UNCHANGED <<tables, heap, bad_commands, num_cmd, looper>>
          /\ apc \in {"idle", "wait", "sweep"} /\ apc' \in {"wait", "sweep", "finished"}
      BY <1>1 DEF CleanupSendsExit, CleanupCannotWrite, CleanupReadsDone, CleanedUp, Calls
    <2>2. IdsDistinct' /\ EntriesOwn' /\ LoopFrame' /\ SweepFrame' /\ StartFrame'
      BY <2>1 DEF RefsInv, IdsDistinct, EntriesOwn, LoopFrame, SweepFrame, StartFrame
    <2>3. RefsExact'
      BY <2>1, RefsKept DEF RefsInv, CallHolds
    <2> QED
      BY <2>2, <2>3 DEF RefsInv
  <1>2. CASE SweepNext
    <2>1. /\ UNCHANGED <<tables, heap, bad_commands, looper>>
          /\ apc = "sweep" /\ apc' = "sweepCancel"
          /\ acmd' = cmd[bad_commands + 1].cmd /\ num_cmd' = Len(cmd)
          /\ Len(cmd) > bad_commands
      BY <1>2 DEF SweepNext
    <2>2. IdsDistinct' /\ EntriesOwn' /\ LoopFrame' /\ StartFrame'
      BY <2>1 DEF RefsInv, IdsDistinct, EntriesOwn, LoopFrame, StartFrame
    <2>3. bad_commands + 1 \in DOMAIN cmd
      BY <2>1, Shapes DEF TypeInv, TypeOK
    <2>4. SweepFrame'
      BY <2>1, <2>3 DEF SweepFrame
    <2>5. RefsExact'
      BY <2>1, RefsKept DEF RefsInv, CallHolds
    <2> QED
      BY <2>2, <2>4, <2>5 DEF RefsInv
  <1>3. CASE SweepReleases
    <2>1. /\ UNCHANGED <<tables, objs, looper>>
          /\ apc = "sweepCancel" /\ apc' = "sweep"
          /\ refs' = [refs EXCEPT ![acmd] = @ - 1]
      BY <1>3 DEF SweepReleases, releaseRef
    <2>2. /\ bad_commands' = bad_commands + 1 /\ bad_commands \in Nat
          /\ bad_commands + 1 \in DOMAIN cmd /\ cmd[bad_commands + 1].cmd = acmd
      BY <1>3 DEF SweepReleases, RefsInv, SweepFrame, TypeInv, TypeOK
    <2>3. IdsDistinct' /\ EntriesOwn' /\ LoopFrame' /\ SweepFrame' /\ StartFrame'
      BY <2>1 DEF RefsInv, IdsDistinct, EntriesOwn, LoopFrame, SweepFrame, StartFrame
    <2>4. RefsExact'
      <3> SUFFICES ASSUME NEW d \in Cmds
                   PROVE  refs'[d] = One(TableHolds(d)') + One(CallHolds(d)')
                                     + One(LoopHolds(d)') + One(RttHolds(d)')
        BY DEF RefsExact, One
      <3>1. ~CallHolds(d)' /\ ~CallHolds(d)
        BY <2>1 DEF CallHolds
      <3>2. (LoopHolds(d)' <=> LoopHolds(d)) /\ (RttHolds(d)' <=> RttHolds(d))
        BY <2>1 DEF LoopHolds, RttHolds
      <3>3. refs[d] = One(TableHolds(d)) + One(CallHolds(d))
                      + One(LoopHolds(d)) + One(RttHolds(d))
        BY DEF RefsInv, RefsExact
      <3>4. refs'[d] = IF d = acmd THEN refs[d] - 1 ELSE refs[d]
        BY <2>1 DEF TypeInv, TypeOK
      <3>5. /\ d = acmd => TableHolds(d) /\ ~TableHolds(d)'
            /\ d # acmd => (TableHolds(d)' <=> TableHolds(d))
        <4>1. DOMAIN cmd = 1..Len(cmd) /\ Len(cmd) \in Nat /\ cmd' = cmd
          BY <2>1, Shapes
        <4>2. \A n \in DOMAIN cmd : cmd[n].cmd = acmd => n = bad_commands + 1
          BY <2>2 DEF RefsInv, EntriesOwn
        <4> QED
          BY <2>2, <4>1, <4>2 DEF TableHolds
      <3> QED
        BY <3>1, <3>2, <3>3, <3>4, <3>5 DEF One
    <2> QED
      BY <2>3, <2>4 DEF RefsInv
  <1> QED
    BY <1>1, <1>2, <1>3

(* The event thread up to the callback, and what it leaves of the counts.   *)
LEMMA DispatchRefs ==
    ASSUME TypeInv, SweepAlone, RefsInv, LoopDispatches
    PROVE  RefsInv'
  <1> USE DEF tables, flags, heap, caller, socks, driver
  <1>1. /\ UNCHANGED <<tables, objs, caller, lrel>>
        /\ lpc = "poll" /\ lcmd = NoCmd
    BY DEF LoopDispatches, RefsInv, LoopFrame
  <1>2. IdsDistinct' /\ EntriesOwn' /\ SweepFrame'
    BY <1>1 DEF RefsInv, IdsDistinct, EntriesOwn, SweepFrame
  <1>3. ASSUME NEW n \in DOMAIN event_cb, lcmd' = event_cb[n].cmd, lpc' = "callback",
               addRef(event_cb[n].cmd)
        PROVE  RefsInv'
    <2>1. lcmd' \in DOMAIN objs /\ lcmd' \in Cmds
      BY <1>3, Shapes DEF TypeInv, PointersBorn
    <2>2. LoopFrame'
      BY <1>1, <1>3 DEF RefsInv, LoopFrame
    <2>3. StartFrame'
      BY <1>1, <1>3 DEF RefsInv, StartFrame
    <2>4. RefsExact'
      <3> SUFFICES ASSUME NEW d \in Cmds
                   PROVE  refs'[d] = One(TableHolds(d)') + One(CallHolds(d)')
                                     + One(LoopHolds(d)') + One(RttHolds(d)')
        BY DEF RefsExact, One
      <3>1. (LoopHolds(d)' <=> d = lcmd') /\ ~LoopHolds(d)
        BY <1>1, Shapes DEF LoopHolds
      <3>2. /\ TableHolds(d)' <=> TableHolds(d)
            /\ CallHolds(d)' <=> CallHolds(d)
            /\ RttHolds(d)' <=> RttHolds(d)
        BY <1>1 DEF TableHolds, CallHolds, RttHolds
      <3>3. refs[d] = One(TableHolds(d)) + One(CallHolds(d))
                      + One(LoopHolds(d)) + One(RttHolds(d))
        BY DEF RefsInv, RefsExact
      <3>4. refs'[d] = IF d = lcmd' THEN refs[d] + 1 ELSE refs[d]
        BY <1>3, <2>1 DEF addRef, TypeInv, TypeOK
      <3> QED
        BY <3>1, <3>2, <3>3, <3>4 DEF One
    <2> QED
      BY <1>2, <2>2, <2>3, <2>4 DEF RefsInv
  <1>4. CASE lpc' = Again /\ UNCHANGED <<refs, lcmd, levt>>
    <2>1. LoopFrame'
      BY <1>1, <1>4 DEF RefsInv, LoopFrame, Again
    <2>2. StartFrame'
      BY <1>1, <1>4 DEF RefsInv, StartFrame
    <2>3. RefsExact'
      BY <1>1, <1>4, RefsKept DEF RefsInv, CallHolds
    <2> QED
      BY <1>2, <2>1, <2>2, <2>3 DEF RefsInv
  <1> QED
    BY <1>3, <1>4 DEF LoopDispatches

(* While the event thread completes an RTT request, wifi_cleanup does not   *)
(* sweep.                                                                   *)
LEMMA RttAlone ==
    ASSUME SweepSafe, TypeInv, SweepAlone, LoopFrame,
           lpc \in {"rttCallback", "rttDrop", "rttRelease"}
    PROVE  apc \notin SweepStates /\ bad_commands = 0
  <1>1. objs[lcmd].class = "rtt" /\ lcmd \in DOMAIN objs
    BY DEF LoopFrame, TypeInv, PointersBorn
  <1>2. "rtt" \in Classes
    BY <1>1, Shapes DEF Object
  <1> QED
    BY <1>2 DEF SweepSafe, SweepAlone

(* The completion of an RTT request takes its own command out of the table, *)
(* whatever the client is starting meanwhile.                               *)
LEMMA RttDropRefs ==
    ASSUME SweepSafe, TypeInv, SweepAlone, RefsInv, RttDropsCommand
    PROVE  RefsInv'
  <1> USE DEF tables, flags, heap, caller, socks, driver
  <1>1. PICK x \in Cmds \cup {NoCmd} :
           /\ wifi_unregister_cmd(objs[lcmd].id, x)
           /\ lrel' = x
           /\ lpc' = IF x = NoCmd THEN "release" ELSE "rttRelease"
    BY DEF RttDropsCommand
  <1>2. /\ UNCHANGED <<event_cb, heap, caller, lcmd>>
        /\ lpc = "rttDrop" /\ bad_commands = 0 /\ apc \notin SweepStates
        /\ objs[lcmd].class = "rtt" /\ lrel = NoCmd /\ lcmd \in DOMAIN objs
    BY RttAlone DEF RttDropsCommand, RefsInv, LoopFrame, TypeInv, PointersBorn
  <1>3. /\ EntriesOwn'
        /\ x # NoCmd => /\ x \in DOMAIN objs /\ objs[x].id = objs[lcmd].id
                        /\ TableHolds(x) /\ ~TableHolds(x)'
        /\ \A c \in Cmds : c # x => (TableHolds(c)' <=> TableHolds(c))
        /\ \A c : c # x /\ (\E n \in DOMAIN cmd : cmd[n].cmd = c)
                => \E n \in DOMAIN cmd' : cmd'[n].cmd = c
    BY <1>1, <1>2, TakesOne DEF RefsInv
  <1>4. x # NoCmd => x = lcmd
    BY <1>2, <1>3 DEF RefsInv, IdsDistinct
  <1>5. IdsDistinct' /\ LoopFrame' /\ SweepFrame'
    BY <1>1, <1>2 DEF RefsInv, IdsDistinct, LoopFrame, SweepFrame, SweepStates
  <1>6. StartFrame'
    <2>1. CASE apc = "unwind" \/ (apc = "start" /\ script # <<>>)
      <3>1. acmd # x
        BY <1>2, <1>4, <2>1, Shapes DEF RefsInv, StartFrame, TypeInv, PointersBorn
      <3> QED
        BY <1>2, <1>3, <2>1, <3>1 DEF RefsInv, StartFrame
    <2>2. CASE ~(apc = "unwind" \/ (apc = "start" /\ script # <<>>))
      BY <1>2, <2>2 DEF RefsInv, StartFrame
    <2> QED
      BY <2>1, <2>2
  <1>7. RefsExact'
    <2> SUFFICES ASSUME NEW d \in Cmds
                 PROVE  refs'[d] = One(TableHolds(d)') + One(CallHolds(d)')
                                   + One(LoopHolds(d)') + One(RttHolds(d)')
      BY DEF RefsExact, One
    <2>1. (RttHolds(d)' <=> d = x) /\ ~RttHolds(d) /\ d # NoCmd
      BY <1>1, <1>2, Shapes DEF RttHolds
    <2>2. (LoopHolds(d)' <=> LoopHolds(d)) /\ (CallHolds(d)' <=> CallHolds(d))
      BY <1>2 DEF LoopHolds, CallHolds
    <2>3. refs[d] = One(TableHolds(d)) + One(CallHolds(d))
                    + One(LoopHolds(d)) + One(RttHolds(d))
      BY DEF RefsInv, RefsExact
    <2>4. refs'[d] = refs[d]
      BY <1>2
    <2> QED
      BY <1>3, <2>1, <2>2, <2>3, <2>4 DEF One
  <1> QED
    BY <1>3, <1>5, <1>6, <1>7 DEF RefsInv

(* The event thread drops a reference it holds.                             *)
LEMMA LoopDropRefs ==
    ASSUME TypeInv, SweepAlone, RefsInv, RttReleasesCommand \/ LoopReleases
    PROVE  RefsInv'
  <1> USE DEF tables, flags, heap, caller, socks, driver
  <1> DEFINE p == IF lpc = "rttRelease" THEN lrel ELSE lcmd
  <1>1. /\ UNCHANGED <<tables, objs, caller>>
        /\ refs' = [refs EXCEPT ![p] = @ - 1]
        /\ \/ /\ lpc = "rttRelease" /\ lpc' = "release"
              /\ lrel' = NoCmd /\ lcmd' = lcmd /\ p = lrel
           \/ /\ lpc = "release" /\ lpc' \in {"poll", "done"}
              /\ lcmd' = NoCmd /\ lrel' = lrel /\ lrel = NoCmd /\ p = lcmd
    BY DEF RttReleasesCommand, LoopReleases, releaseRef, Again, RefsInv, LoopFrame
  <1> HIDE DEF p
  <1>2. IdsDistinct' /\ EntriesOwn' /\ SweepFrame'
    BY <1>1 DEF RefsInv, IdsDistinct, EntriesOwn, SweepFrame
  <1>3. LoopFrame'
    BY <1>1 DEF RefsInv, LoopFrame
  <1>4. StartFrame'
    BY <1>1, Shapes DEF RefsInv, StartFrame, TypeInv, PointersBorn
  <1>5. RefsExact'
    <2> SUFFICES ASSUME NEW d \in Cmds
                 PROVE  refs'[d] = One(TableHolds(d)') + One(CallHolds(d)')
                                   + One(LoopHolds(d)') + One(RttHolds(d)')
      BY DEF RefsExact, One
    <2>1. (TableHolds(d)' <=> TableHolds(d)) /\ (CallHolds(d)' <=> CallHolds(d))
      BY <1>1 DEF TableHolds, CallHolds
    <2>2. refs[d] = One(TableHolds(d)) + One(CallHolds(d))
                    + One(LoopHolds(d)) + One(RttHolds(d))
      BY DEF RefsInv, RefsExact
    <2>3. refs'[d] = IF d = p THEN refs[d] - 1 ELSE refs[d]
      BY <1>1 DEF TypeInv, TypeOK
    <2>4. One(LoopHolds(d)') + One(RttHolds(d)')
            = One(LoopHolds(d)) + One(RttHolds(d)) - One(d = p)
      BY <1>1, Shapes DEF LoopHolds, RttHolds, One
    <2> QED
      BY <2>1, <2>2, <2>3, <2>4 DEF One
  <1> QED
    BY <1>2, <1>3, <1>4, <1>5 DEF RefsInv

(* The other steps of the event thread, and the driver.                     *)
LEMMA LoopRefs ==
    ASSUME SweepSafe, TypeInv, SweepAlone, RefsInv,
           \/ LoopGoesOn \/ LoopHangsUp
           \/ \E s \in Subs, complete \in BOOLEAN : DriverEmits(s, complete)
    PROVE  RefsInv'
  <1> USE DEF tables, flags, heap, caller, looper, socks, driver
  <1>1. CASE \/ LoopEnters \/ LoopPollError \/ LoopExits \/ LoopHangsUp \/ RttCallback
             \/ \E s \in Subs, complete \in BOOLEAN : DriverEmits(s, complete)
    <2>1. /\ UNCHANGED <<tables, heap, caller, lcmd, lrel>>
          /\ \/ lpc \in {"out", "poll"} /\ lpc' \in {"poll", "done"}
             \/ lpc = "rttCallback" /\ lpc' = "rttDrop"
             \/ lpc' = lpc
      BY <1>1 DEF LoopEnters, LoopPollError, LoopExits, LoopHangsUp, RttCallback,
                  DriverEmits, Again
    <2>2. IdsDistinct' /\ EntriesOwn' /\ SweepFrame' /\ StartFrame'
      BY <2>1 DEF RefsInv, IdsDistinct, EntriesOwn, SweepFrame, StartFrame
    <2>3. LoopFrame'
      BY <2>1 DEF RefsInv, LoopFrame
    <2>4. RefsExact'
      BY <2>1, RefsKept DEF RefsInv, CallHolds
    <2> QED
      BY <2>2, <2>3, <2>4 DEF RefsInv
  <1>2. CASE LoopHandlesEvent
    <2>1. /\ UNCHANGED <<cmd, heap, caller, lcmd, lrel>>
          /\ lpc = "callback" /\ lpc' \in {"rttCallback", "release"}
          /\ lpc' = "rttCallback" => objs[lcmd].class = "rtt"
      BY <1>2 DEF LoopHandlesEvent
    <2>2. \A n \in DOMAIN event_cb' : \E m \in DOMAIN event_cb : event_cb'[n] = event_cb[m]
      BY <1>2, HandlersKept DEF LoopHandlesEvent
    <2>3. IdsDistinct' /\ EntriesOwn' /\ SweepFrame'
      BY <2>1 DEF RefsInv, IdsDistinct, EntriesOwn, SweepFrame
    <2>4. StartFrame'
      BY <2>1, <2>2 DEF RefsInv, StartFrame
    <2>5. LoopFrame'
      BY <2>1 DEF RefsInv, LoopFrame
    <2>6. RefsExact'
      BY <2>1, RefsKept DEF RefsInv, CallHolds
    <2> QED
      BY <2>3, <2>4, <2>5, <2>6 DEF RefsInv
  <1>3. CASE LoopGoesOn
    BY <1>1, <1>2, <1>3, DispatchRefs, RttDropRefs, LoopDropRefs DEF LoopGoesOn
  <1> QED
    BY <1>1, <1>3

(* RefsInv holds of the HAL before the first call.                          *)
LEMMA RefsInit ==
    ASSUME Init
    PROVE  SweepAlone /\ RefsInv
  <1>1. DOMAIN cmd = {} /\ DOMAIN objs = {} /\ DOMAIN event_cb = {}
    BY DEF Init
  <1>2. RefsExact
    BY <1>1, BoundsAssumption
    DEF Init, RefsExact, TableHolds, CallHolds, LoopHolds, RttHolds, One, Cmds, NoCmd
  <1> QED
    BY <1>1, <1>2 DEF Init, SweepAlone, SweepStates, RefsInv, IdsDistinct, EntriesOwn,
                      LoopFrame, SweepFrame, StartFrame

(* Every step of either thread keeps RefsInv.                               *)
LEMMA RefsStep ==
    ASSUME FreshIds, SweepSafe, TypeInv, SweepAlone, RefsInv, [Next]_vars
    PROVE  RefsInv'
  <1>1. CASE ClientCalls
    BY <1>1, StartRefs, StopRefs, CleanupRefs DEF ClientCalls
  <1>2. CASE CallGoesOn
    BY <1>2, StartStepsRefs, StopRefs, CleanupRefs DEF CallGoesOn
  <1>3. CASE LoopGoesOn \/ LoopHangsUp
             \/ \E s \in Subs, complete \in BOOLEAN : DriverEmits(s, complete)
    BY <1>3, LoopRefs
  <1>4. CASE UNCHANGED vars
    <2>1. UNCHANGED <<tables, heap, caller, looper>>
      BY <1>4 DEF vars
    <2>2. IdsDistinct' /\ EntriesOwn' /\ LoopFrame' /\ SweepFrame' /\ StartFrame'
      BY <2>1 DEF tables, heap, caller, looper, RefsInv, IdsDistinct, EntriesOwn,
                  LoopFrame, SweepFrame, StartFrame
    <2>3. RefsExact'
      BY <2>1, RefsKept DEF tables, heap, caller, looper, RefsInv, CallHolds
    <2> QED
      BY <2>2, <2>3 DEF RefsInv
  <1> QED
    BY <1>1, <1>2, <1>3, <1>4 DEF Next, Finished

(* mRefs of every command counts its holders exactly, for any number of     *)
(* commands, ids and handlers and any client, whether or not it keeps to    *)
(* one request per event: no reference is lost, none released twice.        *)
THEOREM RefsCounted ==
    FreshIds /\ SweepSafe => (Spec => []RefsExact)
  <1> SUFFICES ASSUME FreshIds, SweepSafe PROVE Spec => []RefsExact
    OBVIOUS
  <1>1. Init => SweepAlone /\ RefsInv
    BY RefsInit
  <1>2. SweepAlone /\ [Next]_vars => SweepAlone'
    BY SweepAloneStep
  <1>3. TypeInv /\ SweepAlone /\ RefsInv /\ [Next]_vars => RefsInv'
    BY RefsStep
  <1>4. RefsInv => RefsExact
    BY DEF RefsInv
  <1>5. Spec => []TypeInv
    BY TypeCorrect DEF TypeInv
  <1> QED
    BY <1>1, <1>2, <1>3, <1>4, <1>5, PTL DEF Spec

-----------------------------------------------------------------------------
(* Handlers and the commands they point to.                                 *)

(* The client keeps to one request per event: the requests it holds to be   *)
(* running subscribe to different events.                                   *)
ActiveDisjoint ==
    \A c, d \in active :
        c # d => Subscribes(objs[c].class) \cap Subscribes(objs[d].class) = {}

(* Handlers are for events of their command's class, one for each event.    *)
HandlersApart ==
    /\ \A n \in DOMAIN event_cb :
          event_cb[n].sub \in Subscribes(objs[event_cb[n].cmd].class)
    /\ \A m, n \in DOMAIN event_cb : event_cb[m].sub = event_cb[n].sub => m = n

(* The call in progress has still to unregister the handler of event s.     *)
ToGo(s) == \E i \in DOMAIN script : script[i].op = "unregister" /\ script[i].subs[1] = s

(* Why command c may have a handler for s: the client holds it to be        *)
(* running, or the call that stops it has yet to come to this handler.      *)
Expected(s, c) ==
    \/ apc \notin SweepStates /\ c \in active
    \/ apc \in {"unwind", "cancel"} /\ c = acmd /\ ToGo(s)
    \/ apc = "flush" /\ ToGo(s)
    \/ apc = "sweepCancel" /\ (c = acmd => ToGo(s))
    \/ apc \in {"sweep", "finished"}

HandlersExpected ==
    \A n \in DOMAIN event_cb : Expected(event_cb[n].sub, event_cb[n].cmd)

(* The command of a handler has a holder other than the event thread.       *)
HandlersHeld ==
    \A n \in DOMAIN event_cb :
        TableHolds(event_cb[n].cmd) \/ (apc = "cancel" /\ acmd = event_cb[n].cmd)

(* What is left of a start(), r, when the events of `done' have a handler   *)
(* of the command: a step that may fail undoes every registration made      *)
(* before it, and nothing is registered twice.                              *)
SafeRest(r, done) ==
    \A i \in DOMAIN r :
        LET before == done \cup {r[j].subs[1] : j \in {l \in 1..(i - 1) : r[l].op = "register"}}
        IN  /\ r[i].op \in {"create", "request"}
                  => before \subseteq {r[i].subs[m] : m \in DOMAIN r[i].subs}
            /\ r[i].op = "register" => r[i].subs[1] \notin before

RegistersFor(r, k) ==
    \A i \in DOMAIN r : r[i].op = "register" => r[i].subs[1] \in Subscribes(k)

HandledBy(c) == {event_cb[n].sub : n \in {m \in DOMAIN event_cb : event_cb[m].cmd = c}}

(* Where the call in progress stands with its command.                      *)
CallFrame ==
    /\ apc = "start" /\ script # <<>> =>
          /\ acmd \in active
          /\ RegistersFor(script, objs[acmd].class)
          /\ SafeRest(script, HandledBy(acmd))
    /\ apc \in {"unwind", "cancel"} => acmd \notin active
    /\ apc = "flush" => acmd = NoCmd
    /\ apc \in {"idle", "release", "wait", "sweep", "finished"} => script = <<>>
    /\ apc = "finished" => Len(cmd) <= bad_commands

(* An RTT command that completes has lost its handler for good.             *)
RttUnhandled ==
    lpc \in {"rttCallback", "rttDrop", "rttRelease"} =>
        \A n \in DOMAIN event_cb : event_cb[n].cmd # lcmd

(* The deleted commands are the ones without a reference.                   *)
FreedExact == freed = {c \in DOMAIN objs : refs[c] = 0}

HandlerInv ==
    /\ ActiveDisjoint /\ HandlersApart /\ HandlersExpected /\ HandlersHeld
    /\ CallFrame /\ RttUnhandled

(* What a start script registers, it may undo at every later failure.       *)
LEMMA StartScriptsSafe ==
    ASSUME NEW k \in AllClasses
    PROVE  SafeRest(StartScript[k], {}) /\ RegistersFor(StartScript[k], k)
  <1>1. RegistersFor(StartScript[k], k)
    BY DEF RegistersFor, Subscribes, Touches
  <1>2. SafeRest(ScanStart, {})
    BY DEF ScanStart, SafeRest, Create, Request, Register
  <1>3. SafeRest(FullScanResultsStart, {})
    BY DEF FullScanResultsStart, SafeRest, Create, Request, Register
  <1>4. SafeRest(BssidHotlistStart, {})
    BY DEF BssidHotlistStart, SafeRest, Create, Request, Register
  <1>5. SafeRest(ePNOStart, {})
    BY DEF ePNOStart, SafeRest, Create, Request, Register
  <1>6. SafeRest(SignificantWifiChangeStart, {})
    BY DEF SignificantWifiChangeStart, SafeRest, Create, Request, Register
  <1>7. SafeRest(AnqpoConfigureStart, {})
    BY DEF AnqpoConfigureStart, SafeRest, Create, Request, Register
  <1>8. SafeRest(SetRSSIMonitorStart, {})
    BY DEF SetRSSIMonitorStart, SafeRest, Create, Request, Register
  <1>9. SafeRest(RttStart, {})
    BY DEF RttStart, SafeRest, Create, Request, Register
  <1> QED
    BY <1>1, <1>2, <1>3, <1>4, <1>5, <1>6, <1>7, <1>8, <1>9 DEF AllClasses, StartScript

(* cancel() of every class unregisters all its handlers.                    *)
LEMMA CancelCovers ==
    ASSUME NEW k \in AllClasses, NEW s \in Subscribes(k)
    PROVE  \E i \in DOMAIN CancelScript[k] :
              CancelScript[k][i].op = "unregister" /\ CancelScript[k][i].subs[1] = s
  <1> DEFINE Covers(start, cancel) ==
        \A i \in DOMAIN start : start[i].op = "register" =>
            \E j \in DOMAIN cancel : cancel[j].op = "unregister"
                                     /\ cancel[j].subs[1] = start[i].subs[1]
  <1>1. Covers(ScanStart, ScanCancel)
    BY DEF ScanStart, ScanCancel, Create, Request, Register, Unregister
  <1>2. Covers(FullScanResultsStart, FullScanResultsCancel)
    BY DEF FullScanResultsStart, FullScanResultsCancel, Create, Request, Register, Unregister
  <1>3. Covers(BssidHotlistStart, BssidHotlistCancel)
    BY DEF BssidHotlistStart, BssidHotlistCancel, Create, Request, Register, Unregister
  <1>4. Covers(ePNOStart, ePNOCancel)
    BY DEF ePNOStart, ePNOCancel, Create, Request, Register, Unregister
  <1>5. Covers(SignificantWifiChangeStart, SignificantWifiChangeCancel)
    BY DEF SignificantWifiChangeStart, SignificantWifiChangeCancel, Create, Request,
           Register, Unregister
  <1>6. Covers(AnqpoConfigureStart, AnqpoConfigureCancel)
    BY DEF AnqpoConfigureStart, AnqpoConfigureCancel, Create, Request, Register, Unregister
  <1>7. Covers(SetRSSIMonitorStart, SetRSSIMonitorCancel)
    BY DEF SetRSSIMonitorStart, SetRSSIMonitorCancel, Create, Request, Register, Unregister
  <1>8. Covers(RttStart, RttCancel)
    BY DEF RttStart, RttCancel, Create, Request, Register, Unregister
  <1>9. Covers(StartScript[k], CancelScript[k])
    <2> HIDE DEF Covers
    <2> QED
      BY <1>1, <1>2, <1>3, <1>4, <1>5, <1>6, <1>7, <1>8 DEF AllClasses, StartScript, CancelScript
  <1>10. PICK i \in DOMAIN StartScript[k] :
            StartScript[k][i].op = "register" /\ s = StartScript[k][i].subs[1]
    BY DEF Subscribes, Touches
  <1> QED
    BY <1>9, <1>10

(* RTT subscribes to one event.                                             *)
LEMMA RttSubscribes == Subscribes("rtt") = {"RTT_EVENT_COMPLETE"}
  <1>1. StartScript["rtt"] = RttStart
    BY DEF StartScript
  <1> QED
    BY <1>1 DEF Subscribes, Touches, RttStart, Create, Request, Register

(* A step of start() leaves a rest that is as safe as before.               *)
LEMMA SafeTail ==
    ASSUME NEW r \in Seq(Ops), r # <<>>, NEW done, SafeRest(r, done), NEW k,
           RegistersFor(r, k),
           NEW more, more \subseteq IF Head(r).op = "register"
                                    THEN done \cup {Head(r).subs[1]} ELSE done
    PROVE  SafeRest(Tail(r), more) /\ RegistersFor(Tail(r), k)
  <1>1. /\ Len(r) \in Nat /\ Len(r) > 0 /\ DOMAIN r = 1..Len(r)
        /\ DOMAIN Tail(r) = 1..(Len(r) - 1)
        /\ \A i \in 1..(Len(r) - 1) : Tail(r)[i] = r[i + 1]
        /\ Head(r) = r[1]
    OBVIOUS
  <1>2. RegistersFor(Tail(r), k)
    BY <1>1 DEF RegistersFor
  <1>3. SafeRest(Tail(r), more)
    <2> SUFFICES ASSUME NEW i \in 1..(Len(r) - 1)
                 PROVE  LET before == more \cup {Tail(r)[j].subs[1] :
                                j \in {l \in 1..(i - 1) : Tail(r)[l].op = "register"}}
                        IN  /\ Tail(r)[i].op \in {"create", "request"} => before \subseteq
                                  {Tail(r)[i].subs[m] : m \in DOMAIN Tail(r)[i].subs}
                            /\ Tail(r)[i].op = "register" => Tail(r)[i].subs[1] \notin before
      BY <1>1 DEF SafeRest
    <2> DEFINE late == more \cup {Tail(r)[j].subs[1] :
                                j \in {l \in 1..(i - 1) : Tail(r)[l].op = "register"}}
               early == done \cup {r[j].subs[1] :
                                j \in {l \in 1..i : r[l].op = "register"}}
    <2>1. late \subseteq early
      <3> SUFFICES ASSUME NEW s \in late PROVE s \in early
        OBVIOUS
      <3>1. CASE s \in more
        <4>1. s \in done \/ (Head(r).op = "register" /\ s = r[1].subs[1])
          BY <3>1, <1>1
        <4>2. 1 \in 1..i
          BY <1>1
        <4> QED
          BY <4>1, <4>2, <1>1
      <3>2. ASSUME NEW j \in 1..(i - 1), Tail(r)[j].op = "register", s = Tail(r)[j].subs[1]
            PROVE  s \in early
        <4>1. j + 1 \in 1..i /\ Tail(r)[j] = r[j + 1]
          BY <1>1
        <4> QED
          BY <3>2, <4>1
      <3> QED
        BY <3>1, <3>2
    <2>2. i + 1 \in DOMAIN r /\ (i + 1) - 1 = i /\ Tail(r)[i] = r[i + 1]
      BY <1>1
    <2>3. /\ r[i + 1].op \in {"create", "request"}
                => early \subseteq {r[i + 1].subs[m] : m \in DOMAIN r[i + 1].subs}
          /\ r[i + 1].op = "register" => r[i + 1].subs[1] \notin early
      BY <2>2 DEF SafeRest
    <2> HIDE DEF late, early
    <2>4. /\ Tail(r)[i].op \in {"create", "request"} => late \subseteq
                                  {Tail(r)[i].subs[m] : m \in DOMAIN Tail(r)[i].subs}
          /\ Tail(r)[i].op = "register" => Tail(r)[i].subs[1] \notin late
      BY <2>1, <2>2, <2>3
    <2> QED
      BY <2>4 DEF late
  <1> QED
    BY <1>2, <1>3

(* wifi_unregister_vendor_handler leaves no handler of the event.           *)
LEMMA HandlerGone ==
    ASSUME TypeInv, HandlersApart, UNCHANGED objs, NEW s, wifi_unregister_vendor_handler(s)
    PROVE  /\ HandlersApart'
           /\ \A n \in DOMAIN event_cb' :
                 event_cb'[n].sub # s /\ \E m \in DOMAIN event_cb : event_cb'[n] = event_cb[m]
  <1>1. /\ event_cb \in Seq(CbInfo) /\ Len(event_cb) \in Nat
        /\ DOMAIN event_cb = 1..Len(event_cb)
    BY DEF TypeInv, TypeOK
  <1>2. CASE /\ \A n \in DOMAIN event_cb : event_cb[n].sub # s
             /\ UNCHANGED event_cb
    BY <1>2 DEF HandlersApart
  <1>3. ASSUME NEW n \in DOMAIN event_cb, event_cb[n].sub = s,
               event_cb' = Without(event_cb, n)
        PROVE  /\ HandlersApart'
               /\ \A j \in DOMAIN event_cb' :
                     event_cb'[j].sub # s
                     /\ \E m \in DOMAIN event_cb : event_cb'[j] = event_cb[m]
    <2> DEFINE old(j) == IF j < n THEN j ELSE j + 1
    <2>1. /\ DOMAIN event_cb' = 1..(Len(event_cb) - 1)
          /\ \A j \in 1..(Len(event_cb) - 1) :
                event_cb'[j] = IF j < n THEN event_cb[j] ELSE event_cb[j + 1]
      BY <1>1, <1>3, WithoutTyped
    <2>2. \A j \in DOMAIN event_cb' :
             /\ old(j) \in DOMAIN event_cb /\ old(j) # n
             /\ event_cb'[j] = event_cb[old(j)]
      BY <1>1, <2>1
    <2>3. \A j, l \in DOMAIN event_cb' : old(j) = old(l) => j = l
      BY <1>1, <2>1
    <2> HIDE DEF old
    <2> QED
      BY <1>3, <2>2, <2>3 DEF HandlersApart
  <1> QED
    BY <1>2, <1>3 DEF wifi_unregister_vendor_handler, FoundHandler

(* wifi_register_vendor_handler adds at most the one handler.               *)
LEMMA HandlerComes ==
    ASSUME TypeInv, HandlersApart, UNCHANGED objs, NEW s, NEW c \in DOMAIN objs,
           s \in Subscribes(objs[c].class), \A n \in DOMAIN event_cb : event_cb[n].sub # s,
           wifi_register_vendor_handler(s, c)
    PROVE  /\ HandlersApart'
           /\ \A n \in DOMAIN event_cb' :
                 \/ n \in DOMAIN event_cb /\ event_cb'[n] = event_cb[n]
                 \/ event_cb'[n].sub = s /\ event_cb'[n].cmd = c
  <1> DEFINE e == [sub |-> s, cmd |-> c]
  <1>1. /\ event_cb \in Seq(CbInfo) /\ Len(event_cb) \in Nat
        /\ DOMAIN event_cb = 1..Len(event_cb)
    BY DEF TypeInv, TypeOK
  <1>2. e.sub = s /\ e.cmd = c
    OBVIOUS
  <1>3. event_cb' = event_cb \/ event_cb' = Append(event_cb, e)
    BY DEF wifi_register_vendor_handler
  <1> HIDE DEF e
  <1>4. CASE event_cb' = event_cb
    BY <1>4 DEF HandlersApart
  <1>5. CASE event_cb' = Append(event_cb, e)
    <2>1. /\ DOMAIN event_cb' = DOMAIN event_cb \cup {Len(event_cb) + 1}
          /\ \A n \in DOMAIN event_cb : event_cb'[n] = event_cb[n] /\ n # Len(event_cb) + 1
          /\ event_cb'[Len(event_cb) + 1] = e
      BY <1>1, <1>5
    <2> QED
      BY <1>2, <2>1 DEF HandlersApart
  <1> QED
    BY <1>3, <1>4, <1>5

(* Fewer handlers of the command of a start() make its rest no less safe.   *)
LEMMA SafeFewer ==
    ASSUME NEW r, NEW done, SafeRest(r, done), NEW less, less \subseteq done
    PROVE  SafeRest(r, less)
  BY DEF SafeRest

(* What a script has still to unregister, a step on.                        *)
LEMMA ToGoTail ==
    ASSUME script \in Seq(Ops), script # <<>>, script' = Tail(script), NEW s, ToGo(s),
           Head(script).op = "unregister" => Head(script).subs[1] # s
    PROVE  ToGo(s)'
  <1>1. /\ Len(script) \in Nat /\ Len(script) > 0 /\ DOMAIN script = 1..Len(script)
        /\ DOMAIN script' = 1..(Len(script) - 1)
        /\ \A i \in 1..(Len(script) - 1) : script'[i] = script[i + 1]
        /\ Head(script) = script[1]
    OBVIOUS
  <1>2. PICK i \in DOMAIN script : script[i].op = "unregister" /\ script[i].subs[1] = s
    BY DEF ToGo
  <1>3. i # 1
    BY <1>1, <1>2
  <1>4. i - 1 \in DOMAIN script' /\ script'[i - 1] = script[i]
    BY <1>1, <1>3
  <1> QED
    BY <1>2, <1>4 DEF ToGo

(* The classes of commands are classes of the model.                        *)
LEMMA ClassesKnown ==
    ASSUME TypeInv
    PROVE  \A c \in DOMAIN objs : objs[c].class \in AllClasses
  BY Shapes, ClassesAssumption DEF Object

(* A step that touches neither table nor call.                              *)
LEMMA HandlersSame ==
    ASSUME HandlerInv, UNCHANGED <<tables, objs, caller, active>>,
           lpc' \in {"rttCallback", "rttDrop", "rttRelease"} =>
              lpc \in {"rttCallback", "rttDrop", "rttRelease"} /\ lcmd' = lcmd
    PROVE  HandlerInv'
  <1> USE DEF tables, caller
  <1>1. ActiveDisjoint' /\ HandlersApart'
    BY DEF HandlerInv, ActiveDisjoint, HandlersApart
  <1>2. HandlersExpected'
    BY DEF HandlerInv, HandlersExpected, Expected, ToGo
  <1>3. HandlersHeld'
    BY DEF HandlerInv, HandlersHeld, TableHolds
  <1>4. CallFrame'
    BY DEF HandlerInv, CallFrame, HandledBy
  <1>5. RttUnhandled'
    BY DEF HandlerInv, RttUnhandled
  <1> QED
    BY <1>1, <1>2, <1>3, <1>4, <1>5 DEF HandlerInv

(* A new request: it has no handler yet, and the events it will subscribe   *)
(* to are nobody else's.                                                    *)
LEMMA StartHandlers ==
    ASSUME Exclusive, TypeInv, SweepAlone, RefsInv, HandlerInv,
           NEW k \in Classes, NEW i \in Ids, Start(k, i)
    PROVE  HandlerInv'
  <1> DEFINE c == Len(objs) + 1
  <1> DEFINE o == [class |-> k, id |-> i]
  <1>1. /\ c \in Cmds /\ o.class = k
        /\ objs' = Append(objs, o)
        /\ UNCHANGED <<event_cb, bad_commands, looper>>
        /\ apc = "idle"
        /\ \A d \in active : Subscribes(objs[d].class) \cap Subscribes(k) = {}
    BY DEF Start, Calls, MayStart
  <1>2. /\ objs \in Seq(Object) /\ Len(objs) \in Nat
        /\ DOMAIN objs = 1..Len(objs) /\ c \notin DOMAIN objs
    BY DEF TypeInv, TypeOK
  <1>3. /\ DOMAIN objs' = DOMAIN objs \cup {c}
        /\ \A d \in DOMAIN objs : objs'[d] = objs[d]
        /\ objs'[c] = o
    BY <1>1, <1>2
  <1>4. /\ active \subseteq DOMAIN objs
        /\ \A n \in DOMAIN event_cb : event_cb[n].cmd \in DOMAIN objs
    BY DEF TypeInv, PointersBorn
  <1>5. \A n \in DOMAIN event_cb : event_cb[n].cmd \in active /\ TableHolds(event_cb[n].cmd)
    BY <1>1 DEF HandlerInv, HandlersExpected, Expected, HandlersHeld, SweepStates
  <1>6. bad_commands = 0
    BY <1>1 DEF SweepAlone, SweepStates
  <1> HIDE DEF c, o
  <1>7. HandlersApart'
    BY <1>1, <1>3, <1>4 DEF HandlerInv, HandlersApart
  <1>8. RttUnhandled'
    BY <1>1 DEF HandlerInv, RttUnhandled, looper
  <1>9. CASE /\ wifi_register_cmd(i, c)
             /\ apc' = "start" /\ acmd' = c /\ script' = StartScript[k]
             /\ active' = active \cup {c}
    <2>1. ActiveDisjoint'
      <3> SUFFICES ASSUME NEW d \in active', NEW e \in active', d # e
                   PROVE  Subscribes(objs'[d].class) \cap Subscribes(objs'[e].class) = {}
        BY DEF ActiveDisjoint
      <3>1. CASE d \in active /\ e \in active
        BY <1>3, <1>4, <3>1 DEF HandlerInv, ActiveDisjoint
      <3>2. CASE d \in active /\ e = c
        BY <1>1, <1>3, <1>4, <3>2
      <3>3. CASE d = c /\ e \in active
        <4>1. Subscribes(objs[e].class) \cap Subscribes(k) = {}
          BY <1>1, <3>3
        <4> QED
          BY <1>1, <1>3, <1>4, <3>3, <4>1
      <3> QED
        BY <1>9, <3>1, <3>2, <3>3
    <2>2. HandlersExpected'
      BY <1>1, <1>5, <1>9 DEF HandlersExpected, Expected, SweepStates
    <2>3. HandlersHeld'
      <3>1. cmd \in Seq(CmdInfo) /\ cmd' = Append(cmd, [id |-> i, cmd |-> c])
        BY <1>9 DEF wifi_register_cmd, TypeInv, TypeOK
      <3>2. \A n \in DOMAIN cmd : n \in DOMAIN cmd' /\ cmd'[n] = cmd[n]
        BY <3>1
      <3> QED
        BY <1>1, <1>5, <3>2 DEF HandlersHeld, TableHolds
    <2>4. CallFrame'
      <3>1. HandledBy(acmd)' = {}
        BY <1>1, <1>2, <1>4, <1>9 DEF HandledBy
      <3>2. SafeRest(script', {}) /\ RegistersFor(script', k)
        BY <1>9, StartScriptsSafe, ClassesAssumption
      <3> QED
        BY <1>1, <1>3, <1>9, <3>1, <3>2 DEF CallFrame
    <2> QED
      BY <1>7, <1>8, <2>1, <2>2, <2>3, <2>4 DEF HandlerInv
  <1>10. CASE UNCHANGED <<cmd, refs, apc, acmd, script, active>>
    <2>1. ActiveDisjoint'
      BY <1>3, <1>4, <1>10 DEF HandlerInv, ActiveDisjoint
    <2>2. HandlersExpected'
      BY <1>1, <1>5, <1>10 DEF HandlersExpected, Expected, SweepStates
    <2>3. HandlersHeld'
      BY <1>1, <1>5, <1>10 DEF HandlersHeld, TableHolds
    <2>4. CallFrame'
      BY <1>1, <1>10 DEF HandlerInv, CallFrame
    <2> QED
      BY <1>7, <1>8, <2>1, <2>2, <2>3, <2>4 DEF HandlerInv
  <1> QED
    BY <1>9, <1>10 DEF Start, c

(* The steps of start(), on its way on and on its way out.                  *)
LEMMA StartStepsHandlers ==
    ASSUME TypeInv, SweepAlone, RefsInv, HandlerInv,
           StartGoesOn \/ StartFails \/ StartRegisters \/ StartReturns \/ StartUndone
    PROVE  HandlerInv'
  <1> USE DEF tables, flags, heap, looper, socks, driver
  <1>0. script \in Seq(Ops)
    BY DEF TypeInv, TypeOK
  <1>1. CASE StartGoesOn
    <2>1. /\ apc = "start" /\ script # <<>> /\ script' = Tail(script)
          /\ Head(script).op # "register"
          /\ UNCHANGED <<cmd, event_cb, objs, bad_commands, apc, acmd, lpc, lcmd, active>>
      BY <1>1 DEF StartGoesOn, Runs
    <2>2. ActiveDisjoint' /\ HandlersApart' /\ RttUnhandled'
      BY <2>1 DEF HandlerInv, ActiveDisjoint, HandlersApart, RttUnhandled
    <2>3. HandlersExpected' /\ HandlersHeld'
      BY <2>1 DEF HandlerInv, HandlersExpected, Expected, SweepStates, HandlersHeld, TableHolds
    <2>4. HandledBy(acmd)' = HandledBy(acmd)
      BY <2>1 DEF HandledBy
    <2>5. SafeRest(script', HandledBy(acmd)) /\ RegistersFor(script', objs[acmd].class)
      BY <1>0, <2>1, SafeTail DEF HandlerInv, CallFrame
    <2>6. CallFrame'
      BY <2>1, <2>4, <2>5 DEF HandlerInv, CallFrame
    <2> QED
      BY <2>2, <2>3, <2>6 DEF HandlerInv
  <1>2. CASE StartFails
    <2> DEFINE h == Head(script)
    <2>1. /\ apc = "start" /\ script # <<>> /\ h.op \in {"create", "request"}
          /\ script' = [j \in DOMAIN h.subs |-> Unregister(h.subs[j])]
          /\ apc' = "unwind" /\ active' = active \ {acmd}
          /\ UNCHANGED <<cmd, event_cb, objs, bad_commands, acmd, lpc, lcmd>>
      BY <1>2 DEF StartFails, Runs
    <2>2. ActiveDisjoint' /\ HandlersApart' /\ RttUnhandled' /\ CallFrame'
      BY <2>1 DEF HandlerInv, ActiveDisjoint, HandlersApart, RttUnhandled, CallFrame
    <2>3. HandlersHeld'
      BY <2>1 DEF HandlerInv, HandlersHeld, TableHolds
    <2>4. HandledBy(acmd) \subseteq {h.subs[m] : m \in DOMAIN h.subs}
      <3>1. 1 \in DOMAIN script /\ script[1] = h
        BY <1>0, <2>1
      <3>2. SafeRest(script, HandledBy(acmd))
        BY <2>1 DEF HandlerInv, CallFrame
      <3> QED
        BY <2>1, <3>1, <3>2 DEF SafeRest
    <2>5. \A s \in HandledBy(acmd) : ToGo(s)'
      <3> SUFFICES ASSUME NEW s \in HandledBy(acmd) PROVE ToGo(s)'
        OBVIOUS
      <3>1. PICK m \in DOMAIN h.subs : s = h.subs[m]
        BY <2>4
      <3>2. Unregister(s).op = "unregister" /\ Unregister(s).subs[1] = s
        BY DEF Unregister
      <3>3. m \in DOMAIN script' /\ script'[m] = Unregister(s)
        BY <2>1, <3>1
      <3> QED
        BY <3>2, <3>3 DEF ToGo
    <2>6. HandlersExpected'
      <3> SUFFICES ASSUME NEW n \in DOMAIN event_cb
                   PROVE  Expected(event_cb[n].sub, event_cb[n].cmd)'
        BY <2>1 DEF HandlersExpected
      <3>1. event_cb[n].cmd \in active
        BY <2>1 DEF HandlerInv, HandlersExpected, Expected
      <3>2. event_cb[n].cmd = acmd => event_cb[n].sub \in HandledBy(acmd)
        BY DEF HandledBy
      <3> QED
        BY <2>1, <2>5, <3>1, <3>2 DEF Expected, SweepStates
    <2> QED
      BY <2>2, <2>3, <2>6 DEF HandlerInv
  <1>3. CASE StartRegisters
    <2> DEFINE s == Head(script).subs[1]
    <2>1. /\ apc = "start" /\ script # <<>> /\ script' = Tail(script)
          /\ Head(script).op = "register"
          /\ wifi_register_vendor_handler(s, acmd)
          /\ UNCHANGED <<cmd, objs, bad_commands, apc, acmd, lpc, lcmd, active>>
      BY <1>3 DEF StartRegisters, Runs
    <2>2. 1 \in DOMAIN script /\ script[1] = Head(script)
      BY <1>0, <2>1
    <2>3. /\ acmd \in active /\ acmd \in DOMAIN objs
          /\ RegistersFor(script, objs[acmd].class) /\ SafeRest(script, HandledBy(acmd))
      BY <2>1 DEF HandlerInv, CallFrame, TypeInv, PointersBorn
    <2>4. s \in Subscribes(objs[acmd].class) /\ s \notin HandledBy(acmd)
      BY <2>1, <2>2, <2>3 DEF RegistersFor, SafeRest
    <2>5. \A n \in DOMAIN event_cb : event_cb[n].cmd \in active
      BY <2>1 DEF HandlerInv, HandlersExpected, Expected
    <2>6. \A n \in DOMAIN event_cb : event_cb[n].sub # s
      BY <2>3, <2>4, <2>5 DEF HandlerInv, HandlersApart, ActiveDisjoint, HandledBy
    <2>7. /\ HandlersApart'
          /\ \A n \in DOMAIN event_cb' :
                \/ n \in DOMAIN event_cb /\ event_cb'[n] = event_cb[n]
                \/ event_cb'[n].sub = s /\ event_cb'[n].cmd = acmd
      BY <2>1, <2>3, <2>4, <2>6, HandlerComes DEF HandlerInv
    <2> HIDE DEF s
    <2>8. ActiveDisjoint'
      BY <2>1 DEF HandlerInv, ActiveDisjoint
    <2>9. HandlersExpected'
      BY <2>1, <2>3, <2>5, <2>7 DEF HandlersExpected, Expected, SweepStates
    <2>10. HandlersHeld'
      <3>1. TableHolds(acmd)
        BY <2>1, Shapes DEF RefsInv, StartFrame, SweepAlone, SweepStates, TableHolds
      <3> QED
        BY <2>1, <2>7, <3>1 DEF HandlerInv, HandlersHeld, TableHolds
    <2>11. CallFrame'
      <3>1. HandledBy(acmd)' \subseteq HandledBy(acmd) \cup {s}
        BY <2>1, <2>7 DEF HandledBy
      <3>2. SafeRest(script', HandledBy(acmd)') /\ RegistersFor(script', objs[acmd].class)
        BY <1>0, <2>1, <2>3, <3>1, SafeTail DEF s
      <3> QED
        BY <2>1, <2>3, <3>2 DEF CallFrame
    <2>12. RttUnhandled'
      BY <2>1, <2>7 DEF HandlerInv, RttUnhandled, RefsInv, LoopFrame, StartFrame
    <2> QED
      BY <2>7, <2>8, <2>9, <2>10, <2>11, <2>12 DEF HandlerInv
  <1>4. CASE StartReturns
    <2>1. /\ apc = "start" /\ script = <<>> /\ apc' = "idle" /\ acmd' = NoCmd
          /\ UNCHANGED <<cmd, event_cb, objs, bad_commands, script, lpc, lcmd, active>>
      BY <1>4 DEF StartReturns
    <2>2. ActiveDisjoint' /\ HandlersApart' /\ RttUnhandled' /\ CallFrame'
      BY <2>1 DEF HandlerInv, ActiveDisjoint, HandlersApart, RttUnhandled, CallFrame
    <2>3. HandlersExpected' /\ HandlersHeld'
      BY <2>1 DEF HandlerInv, HandlersExpected, Expected, SweepStates, HandlersHeld, TableHolds
    <2> QED
      BY <2>2, <2>3 DEF HandlerInv
  <1>5. CASE StartUndone
    <2>1. /\ apc = "unwind" /\ script = <<>> /\ apc' = "release"
          /\ UNCHANGED <<event_cb, objs, bad_commands, acmd, script, lpc, lcmd, active>>
          /\ bad_commands = 0 /\ acmd \in DOMAIN objs
      BY <1>5 DEF StartUndone, SweepAlone, SweepStates, TypeInv, PointersBorn
    <2>2. PICK x \in Cmds \cup {NoCmd} : wifi_unregister_cmd(objs[acmd].id, x)
      BY <1>5 DEF StartUndone
    <2>3. /\ x # NoCmd => x \in DOMAIN objs /\ objs[x].id = objs[acmd].id
          /\ \A c \in Cmds : c # x => (TableHolds(c)' <=> TableHolds(c))
      BY <2>1, <2>2, TakesOne DEF RefsInv
    <2>4. x # NoCmd => x = acmd
      BY <2>1, <2>3 DEF RefsInv, IdsDistinct
    <2>5. \A n \in DOMAIN event_cb :
             event_cb[n].cmd \in active /\ TableHolds(event_cb[n].cmd) /\ event_cb[n].cmd \in Cmds
      BY <2>1, Shapes DEF HandlerInv, HandlersExpected, Expected, ToGo, HandlersHeld, TypeInv,
         PointersBorn
    <2>6. ActiveDisjoint' /\ HandlersApart' /\ RttUnhandled' /\ CallFrame'
      BY <2>1 DEF HandlerInv, ActiveDisjoint, HandlersApart, RttUnhandled, CallFrame
    <2>7. HandlersExpected'
      BY <2>1, <2>5 DEF HandlersExpected, Expected, SweepStates
    <2>8. HandlersHeld'
      <3>1. \A n \in DOMAIN event_cb : event_cb[n].cmd # x
        BY <2>1, <2>4, <2>5, Shapes DEF HandlerInv, CallFrame
      <3> QED
        BY <2>1, <2>3, <2>5, <3>1 DEF HandlersHeld
    <2> QED
      BY <2>6, <2>7, <2>8 DEF HandlerInv
  <1> QED
    BY <1>1, <1>2, <1>3, <1>4, <1>5

(* A call that stops requests: the handlers of what it stops are the ones   *)
(* its script unregisters.                                                  *)
LEMMA StopHandlers ==
    ASSUME Exclusive, TypeInv, SweepAlone, RefsInv, HandlerInv,
           \/ \E c \in Cmds : wifi_cancel_cmd(c) \/ wifi_rtt_range_cancel(c)
           \/ \E k \in Classes : Flush(k)
    PROVE  HandlerInv'
  <1> USE DEF tables, flags, heap, looper, socks, driver
  <1>0. /\ apc = "idle" /\ bad_commands = 0 /\ script = <<>>
        /\ UNCHANGED <<event_cb, objs, bad_commands, lpc, lcmd>>
        /\ active' \subseteq active
    BY DEF wifi_cancel_cmd, wifi_rtt_range_cancel, Flush, Calls, SweepAlone, SweepStates,
           HandlerInv, CallFrame
  <1>1. \A n \in DOMAIN event_cb :
           /\ event_cb[n].cmd \in active /\ TableHolds(event_cb[n].cmd)
           /\ event_cb[n].cmd \in DOMAIN objs /\ event_cb[n].cmd \in Cmds
           /\ objs[event_cb[n].cmd].class \in AllClasses
           /\ event_cb[n].sub \in Subscribes(objs[event_cb[n].cmd].class)
    BY <1>0, Shapes, ClassesKnown DEF HandlerInv, HandlersExpected, Expected, HandlersHeld,
       HandlersApart, TypeInv, PointersBorn
  <1>2. ActiveDisjoint' /\ HandlersApart' /\ RttUnhandled'
    BY <1>0 DEF HandlerInv, ActiveDisjoint, HandlersApart, RttUnhandled
  <1>3. ASSUME NEW c \in Cmds, wifi_cancel_cmd(c) PROVE HandlerInv'
    <2>1. /\ c \in DOMAIN objs /\ c \in active /\ active' = active \ {c}
      BY <1>3 DEF wifi_cancel_cmd
    <2>2. PICK x \in Cmds \cup {NoCmd} :
             /\ wifi_unregister_cmd(objs[c].id, x)
             /\ acmd' = x
             /\ \/ x = NoCmd /\ UNCHANGED <<apc, script>>
                \/ x # NoCmd /\ apc' = "cancel" /\ script' = CancelScript[objs[x].class]
      BY <1>3 DEF wifi_cancel_cmd
    <2>3. /\ x # NoCmd => x \in DOMAIN objs /\ objs[x].id = objs[c].id
          /\ \A d \in Cmds : d # x => (TableHolds(d)' <=> TableHolds(d))
          /\ x = NoCmd => \A n \in DOMAIN cmd : cmd[n].id # objs[c].id
      BY <1>0, <2>2, TakesOne DEF RefsInv
    <2>4. x # NoCmd => x = c
      BY <2>1, <2>3 DEF RefsInv, IdsDistinct
    <2>5. x = NoCmd => \A n \in DOMAIN event_cb : event_cb[n].cmd # c
      BY <1>1, <2>3 DEF RefsInv, EntriesOwn, TableHolds
    <2>6. CallFrame'
      BY <1>0, <2>1, <2>2, <2>4 DEF CallFrame
    <2>7. HandlersHeld'
      BY <1>0, <1>1, <2>2, <2>3, <2>4, Shapes DEF HandlersHeld
    <2>8. HandlersExpected'
      <3> SUFFICES ASSUME NEW n \in DOMAIN event_cb
                   PROVE  Expected(event_cb[n].sub, event_cb[n].cmd)'
        BY <1>0 DEF HandlersExpected
      <3>1. CASE event_cb[n].cmd # c
        BY <1>0, <1>1, <2>1, <2>2, <3>1 DEF Expected, SweepStates
      <3>2. CASE event_cb[n].cmd = c
        <4>1. x = c /\ apc' = "cancel" /\ script' = CancelScript[objs[c].class] /\ acmd' = c
          BY <2>2, <2>4, <2>5, <3>2
        <4>2. ToGo(event_cb[n].sub)'
          BY <1>0, <1>1, <3>2, <4>1, CancelCovers DEF ToGo
        <4> QED
          BY <1>0, <3>2, <4>1, <4>2 DEF Expected
      <3> QED
        BY <3>1, <3>2
    <2> QED
      BY <1>2, <2>6, <2>7, <2>8 DEF HandlerInv
  <1>4. ASSUME NEW k \in AllClasses, apc' = "flush", acmd' = NoCmd, UNCHANGED cmd,
               script' = CancelScript[k],
               \A c \in active \ active' : objs[c].class = k
        PROVE  HandlerInv'
    <2>1. CallFrame'
      BY <1>4 DEF CallFrame
    <2>2. HandlersHeld'
      BY <1>0, <1>1, <1>4 DEF HandlersHeld, TableHolds
    <2>3. HandlersExpected'
      <3> SUFFICES ASSUME NEW n \in DOMAIN event_cb
                   PROVE  Expected(event_cb[n].sub, event_cb[n].cmd)'
        BY <1>0 DEF HandlersExpected
      <3>1. CASE event_cb[n].cmd \in active'
        BY <1>0, <1>4, <3>1 DEF Expected, SweepStates
      <3>2. CASE event_cb[n].cmd \notin active'
        <4>1. event_cb[n].sub \in Subscribes(k)
          BY <1>1, <1>4, <3>2
        <4>2. ToGo(event_cb[n].sub)'
          BY <1>0, <1>4, <4>1, CancelCovers DEF ToGo
        <4> QED
          BY <1>0, <1>4, <4>2 DEF Expected
      <3> QED
        BY <3>1, <3>2
    <2> QED
      BY <1>2, <2>1, <2>2, <2>3 DEF HandlerInv
  <1>5. ASSUME NEW c \in Cmds, wifi_rtt_range_cancel(c) PROVE HandlerInv'
    <2>1. RttCancel = CancelScript["rtt"] /\ "rtt" \in AllClasses
      BY DEF CancelScript, AllClasses
    <2> QED
      BY <1>4, <1>5, <2>1 DEF wifi_rtt_range_cancel
  <1>6. ASSUME NEW k \in Classes, Flush(k) PROVE HandlerInv'
    BY <1>4, <1>6, ClassesAssumption DEF Flush
  <1> QED
    BY <1>3, <1>5, <1>6

(* The steps of cancel(), for the calls that stop and for the sweep.        *)
LEMMA CancelHandlers ==
    ASSUME TypeInv, HandlerInv, CancelRequests \/ Unregisters
    PROVE  HandlerInv'
  <1> USE DEF tables, flags, heap, looper, socks, driver
  <1>1. /\ apc \in {"unwind", "cancel", "flush", "sweepCancel"}
        /\ script \in Seq(Ops) /\ script # <<>> /\ script' = Tail(script)
        /\ UNCHANGED <<cmd, objs, bad_commands, apc, acmd, lpc, lcmd, active>>
    BY DEF CancelRequests, Unregisters, Runs, TypeInv, TypeOK
  <1>2. ActiveDisjoint'
    BY <1>1 DEF HandlerInv, ActiveDisjoint
  <1>3. CallFrame'
    BY <1>1 DEF HandlerInv, CallFrame
  <1>4. /\ HandlersApart'
        /\ \A n \in DOMAIN event_cb' :
              /\ Head(script).op = "unregister" => event_cb'[n].sub # Head(script).subs[1]
              /\ \E m \in DOMAIN event_cb : event_cb'[n] = event_cb[m]
    <2>1. CASE CancelRequests
      BY <2>1 DEF CancelRequests, Runs, HandlerInv, HandlersApart
    <2>2. CASE Unregisters
      BY <2>2, HandlerGone DEF Unregisters, HandlerInv
    <2> QED
      BY <2>1, <2>2
  <1>5. RttUnhandled'
    BY <1>1, <1>4 DEF HandlerInv, RttUnhandled
  <1>6. HandlersHeld'
    BY <1>1, <1>4 DEF HandlerInv, HandlersHeld, TableHolds
  <1>7. HandlersExpected'
    <2> SUFFICES ASSUME NEW n \in DOMAIN event_cb'
                 PROVE  Expected(event_cb[n].sub, event_cb[n].cmd)'
      BY DEF HandlersExpected
    <2>1. PICK m \in DOMAIN event_cb : event_cb'[n] = event_cb[m]
      BY <1>4
    <2>2. Expected(event_cb[m].sub, event_cb[m].cmd)
      BY DEF HandlerInv, HandlersExpected
    <2>3. PICK s : s = event_cb[m].sub
      OBVIOUS
    <2>4. ToGo(s) => ToGo(s)'
      BY <1>1, <1>4, <2>1, <2>3, ToGoTail
    <2> QED
      BY <1>1, <2>1, <2>2, <2>3, <2>4 DEF Expected, ToGo
  <1> QED
    BY <1>2, <1>3, <1>4, <1>5, <1>6, <1>7 DEF HandlerInv

(* The ends of calls, and wifi_cleanup.                                     *)
LEMMA CleanupHandlers ==
    ASSUME TypeInv, SweepAlone, RefsInv, HandlerInv,
           \/ CancelReturns \/ Releases
           \/ CleanupSendsExit \/ CleanupCannotWrite \/ CleanupReadsDone
           \/ SweepNext \/ SweepReleases \/ CleanedUp
    PROVE  HandlerInv'
  <1> USE DEF tables, flags, heap, looper, socks, driver
  <1>0. UNCHANGED <<cmd, event_cb, objs, lpc, lcmd, active>>
    BY DEF CancelReturns, Releases, CleanupSendsExit, CleanupCannotWrite,
           CleanupReadsDone, SweepNext, SweepReleases, CleanedUp, releaseRef
  <1>1. ActiveDisjoint' /\ HandlersApart' /\ RttUnhandled'
    BY <1>0 DEF HandlerInv, ActiveDisjoint, HandlersApart, RttUnhandled
  <1>2. CASE \/ CancelReturns \/ Releases
             \/ CleanupSendsExit \/ CleanupCannotWrite \/ CleanupReadsDone \/ CleanedUp
    <2>1. /\ script = <<>> /\ UNCHANGED <<script, bad_commands>>
          /\ apc \in {"cancel", "flush", "release", "idle", "wait", "sweep"}
          /\ apc' \in {"release", "idle", "wait", "sweep", "finished"}
          /\ apc = "sweep" => apc' = "finished" /\ Len(cmd) <= bad_commands
          /\ apc # "sweep" => apc' # "finished"
      BY <1>2 DEF CancelReturns, Releases, CleanupSendsExit, CleanupCannotWrite,
                  CleanupReadsDone, CleanedUp, Calls, HandlerInv, CallFrame
    <2>2. \A s : ~ToGo(s)
      BY <2>1 DEF ToGo
    <2>3. HandlersExpected'
      BY <1>0, <2>1, <2>2 DEF HandlerInv, HandlersExpected, Expected, SweepStates
    <2>4. HandlersHeld'
      BY <1>0, <2>1, <2>2 DEF HandlerInv, HandlersHeld, HandlersExpected, Expected, SweepStates,
                              CallFrame, TableHolds
    <2>5. CallFrame'
      BY <1>0, <2>1 DEF CallFrame
    <2> QED
      BY <1>1, <2>3, <2>4, <2>5 DEF HandlerInv
  <1>3. CASE SweepNext
    <2>1. /\ apc = "sweep" /\ apc' = "sweepCancel" /\ UNCHANGED bad_commands
          /\ acmd' = cmd[bad_commands + 1].cmd /\ bad_commands + 1 \in DOMAIN cmd
          /\ script' = CancelScript[objs[acmd'].class]
      BY <1>3, Shapes DEF SweepNext, TypeInv, TypeOK
    <2>2. acmd' \in DOMAIN objs
      BY <2>1 DEF TypeInv, PointersBorn
    <2>3. HandlersHeld'
      BY <1>0, <2>1 DEF HandlerInv, HandlersHeld, TableHolds
    <2>4. CallFrame'
      BY <2>1 DEF CallFrame
    <2>5. HandlersExpected'
      <3> SUFFICES ASSUME NEW n \in DOMAIN event_cb, event_cb[n].cmd = acmd'
                   PROVE  ToGo(event_cb[n].sub)'
        BY <1>0, <2>1 DEF HandlersExpected, Expected
      <3>1. event_cb[n].sub \in Subscribes(objs[acmd'].class)
        BY DEF HandlerInv, HandlersApart
      <3> QED
        BY <1>0, <2>1, <2>2, <3>1, ClassesKnown, CancelCovers DEF ToGo
    <2> QED
      BY <1>1, <2>3, <2>4, <2>5 DEF HandlerInv
  <1>4. CASE SweepReleases
    <2>1. /\ apc = "sweepCancel" /\ apc' = "sweep" /\ script = <<>> /\ UNCHANGED script
          /\ bad_commands' = bad_commands + 1
          /\ bad_commands + 1 \in DOMAIN cmd /\ cmd[bad_commands + 1].cmd = acmd
      BY <1>4 DEF SweepReleases, RefsInv, SweepFrame
    <2>2. \A n \in DOMAIN event_cb : event_cb[n].cmd # acmd /\ TableHolds(event_cb[n].cmd)
      BY <2>1 DEF HandlerInv, HandlersExpected, Expected, SweepStates, ToGo, HandlersHeld
    <2>3. HandlersHeld'
      <3> SUFFICES ASSUME NEW d, d # acmd, TableHolds(d) PROVE TableHolds(d)'
        BY <1>0, <2>2 DEF HandlersHeld
      <3>1. PICK n \in DOMAIN cmd : n > bad_commands /\ cmd[n].cmd = d
        BY DEF TableHolds
      <3>2. n > bad_commands + 1
        BY <2>1, <3>1, Shapes DEF TypeInv, TypeOK
      <3> QED
        BY <1>0, <2>1, <3>1, <3>2 DEF TableHolds
    <2>4. HandlersExpected' /\ CallFrame'
      BY <1>0, <2>1 DEF HandlersExpected, Expected, CallFrame
    <2> QED
      BY <1>1, <2>3, <2>4 DEF HandlerInv
  <1> QED
    BY <1>2, <1>3, <1>4

(* The event thread: the completion of RTT gives up handler and command of  *)
(* the one request it is for.                                               *)
LEMMA LoopHandlers ==
    ASSUME SweepSafe, TypeInv, SweepAlone, RefsInv, HandlerInv,
           \/ LoopGoesOn \/ LoopHangsUp
           \/ \E s \in Subs, complete \in BOOLEAN : DriverEmits(s, complete)
    PROVE  HandlerInv'
  <1> USE DEF tables, flags, heap, caller, looper, socks, driver
  <1>1. CASE \/ LoopEnters \/ LoopDispatches \/ LoopPollError \/ LoopExits \/ LoopHangsUp
             \/ RttReleasesCommand \/ LoopReleases
             \/ \E s \in Subs, complete \in BOOLEAN : DriverEmits(s, complete)
    <2>1. /\ UNCHANGED <<tables, objs, caller, active>>
          /\ lpc' \in {"rttCallback", "rttDrop", "rttRelease"} =>
                lpc \in {"rttCallback", "rttDrop", "rttRelease"} /\ lcmd' = lcmd
      BY <1>1 DEF LoopEnters, LoopDispatches, LoopPollError, LoopExits, LoopHangsUp,
                  RttReleasesCommand, LoopReleases, DriverEmits, Again, releaseRef
    <2> QED
      BY <2>1, HandlersSame
  <1>2. CASE LoopHandlesEvent
    <2>1. /\ UNCHANGED <<cmd, objs, caller, active, lcmd>>
          /\ lpc = "callback" /\ lcmd \in DOMAIN objs
      BY <1>2 DEF LoopHandlesEvent, TypeInv, PointersBorn
    <2>2. CASE lpc' = "release" /\ UNCHANGED event_cb
      BY <2>1, <2>2, HandlersSame
    <2>3. CASE /\ objs[lcmd].class = "rtt" /\ lpc' = "rttCallback"
               /\ wifi_unregister_vendor_handler("RTT_EVENT_COMPLETE")
      <3>1. /\ HandlersApart'
            /\ \A n \in DOMAIN event_cb' :
                  /\ event_cb'[n].sub # "RTT_EVENT_COMPLETE"
                  /\ \E m \in DOMAIN event_cb : event_cb'[n] = event_cb[m]
        BY <2>1, <2>3, HandlerGone DEF HandlerInv
      <3>2. RttUnhandled'
        BY <2>1, <2>3, <3>1, RttSubscribes DEF RttUnhandled, HandlersApart
      <3>3. ActiveDisjoint'
        BY <2>1 DEF HandlerInv, ActiveDisjoint
      <3>4. HandlersExpected'
        BY <2>1, <3>1 DEF HandlerInv, HandlersExpected, Expected, ToGo
      <3>5. HandlersHeld'
        BY <2>1, <3>1 DEF HandlerInv, HandlersHeld, TableHolds
      <3>6. CallFrame'
        <4>1. HandledBy(acmd)' \subseteq HandledBy(acmd)
          BY <2>1, <3>1 DEF HandledBy
        <4> QED
          BY <2>1, <4>1, SafeFewer DEF HandlerInv, CallFrame
      <3> QED
        BY <3>1, <3>2, <3>3, <3>4, <3>5, <3>6 DEF HandlerInv
    <2> QED
      BY <1>2, <2>2, <2>3 DEF LoopHandlesEvent
  <1>3. CASE RttCallback
    <2>1. /\ UNCHANGED <<tables, objs, caller, lcmd>>
          /\ lpc = "rttCallback" /\ lpc' = "rttDrop" /\ lcmd \in DOMAIN objs
          /\ objs[lcmd].class = "rtt"
          /\ active' = {c \in active : objs[c].id # objs[lcmd].id}
      BY <1>3 DEF RttCallback, TypeInv, PointersBorn, RefsInv, LoopFrame
    <2>2. active' \subseteq active /\ \A c \in active : c # lcmd => c \in active'
      BY <2>1 DEF RefsInv, IdsDistinct, TypeInv, PointersBorn
    <2>3. \A n \in DOMAIN event_cb : event_cb[n].cmd # lcmd
      BY <2>1 DEF HandlerInv, RttUnhandled
    <2>4. apc = "start" /\ script # <<>> => acmd # lcmd
      BY <2>1 DEF RefsInv, StartFrame
    <2> HIDE DEF caller
    <2>5. UNCHANGED <<apc, acmd, script, bad_commands>>
      BY <2>1 DEF caller
    <2>6. ActiveDisjoint' /\ HandlersApart' /\ RttUnhandled'
      BY <2>1, <2>2 DEF HandlerInv, ActiveDisjoint, HandlersApart, RttUnhandled
    <2>7. HandlersExpected'
      BY <2>1, <2>2, <2>3, <2>5 DEF HandlerInv, HandlersExpected, Expected, ToGo
    <2>8. HandlersHeld'
      BY <2>1, <2>5 DEF HandlerInv, HandlersHeld, TableHolds
    <2>9. CallFrame'
      BY <2>1, <2>2, <2>4, <2>5 DEF HandlerInv, CallFrame, HandledBy
    <2> QED
      BY <2>6, <2>7, <2>8, <2>9 DEF HandlerInv
  <1>4. CASE RttDropsCommand
    <2>1. PICK x \in Cmds \cup {NoCmd} :
             /\ wifi_unregister_cmd(objs[lcmd].id, x)
             /\ lpc' = IF x = NoCmd THEN "release" ELSE "rttRelease"
      BY <1>4 DEF RttDropsCommand
    <2>2. /\ UNCHANGED <<event_cb, objs, caller, lcmd, active>>
          /\ lpc = "rttDrop" /\ bad_commands = 0 /\ apc \notin SweepStates
          /\ lcmd \in DOMAIN objs
      BY <1>4, RttAlone DEF RttDropsCommand, RefsInv, TypeInv, PointersBorn
    <2>3. /\ x # NoCmd => x \in DOMAIN objs /\ objs[x].id = objs[lcmd].id
          /\ \A c \in Cmds : c # x => (TableHolds(c)' <=> TableHolds(c))
      BY <2>1, <2>2, TakesOne DEF RefsInv
    <2>4. x # NoCmd => x = lcmd
      BY <2>2, <2>3 DEF RefsInv, IdsDistinct
    <2>5. \A n \in DOMAIN event_cb : event_cb[n].cmd # lcmd /\ event_cb[n].cmd \in Cmds
      BY <2>2, Shapes DEF HandlerInv, RttUnhandled, TypeInv, PointersBorn
    <2>6. ActiveDisjoint' /\ HandlersApart' /\ RttUnhandled'
      BY <2>2 DEF HandlerInv, ActiveDisjoint, HandlersApart, RttUnhandled
    <2>7. HandlersExpected'
      BY <2>2 DEF HandlerInv, HandlersExpected, Expected, ToGo
    <2>8. HandlersHeld'
      BY <2>2, <2>3, <2>4, <2>5, Shapes DEF HandlerInv, HandlersHeld
    <2>9. CallFrame'
      BY <2>2 DEF HandlerInv, CallFrame, HandledBy, SweepStates
    <2> QED
      BY <2>6, <2>7, <2>8, <2>9 DEF HandlerInv
  <1>5. CASE LoopGoesOn
    BY <1>1, <1>2, <1>3, <1>4, <1>5 DEF LoopGoesOn
  <1> QED
    BY <1>1, <1>5

(* Whoever holds a command keeps its count positive.                        *)
LEMMA HeldCounted ==
    ASSUME RefsExact, NEW c \in Cmds,
           TableHolds(c) \/ CallHolds(c) \/ LoopHolds(c) \/ RttHolds(c)
    PROVE  refs[c] >= 1
  BY DEF RefsExact, One

(* A releaseRef by a holder deletes the command if and only if it drops the *)
(* last reference.                                                          *)
LEMMA ReleaseFreed ==
    ASSUME TypeInv, FreedExact, NEW c \in DOMAIN objs, refs[c] >= 1, releaseRef(c)
    PROVE  FreedExact'
  <1>1. /\ refs \in [Cmds -> Int] /\ DOMAIN objs \subseteq Cmds
        /\ refs' = [refs EXCEPT ![c] = @ - 1] /\ UNCHANGED objs
        /\ freed' = IF refs[c] = 1 THEN freed \cup {c} ELSE freed
    BY Shapes DEF releaseRef, TypeInv, TypeOK
  <1>2. \A d \in DOMAIN objs : refs'[d] = IF d = c THEN refs[d] - 1 ELSE refs[d]
    BY <1>1
  <1>3. refs[c] \in Int
    BY <1>1
  <1> QED
    BY <1>1, <1>2, <1>3 DEF FreedExact

(* No step deletes a command somebody refers to, or loses one nobody does.  *)
LEMMA FreedStep ==
    ASSUME TypeInv, SweepAlone, RefsInv, HandlerInv, FreedExact, [Next]_vars
    PROVE  FreedExact'
  <1> USE DEF tables, flags, caller, looper, socks, driver
  <1>1. ASSUME NEW k \in Classes, NEW i \in Ids, Start(k, i) PROVE FreedExact'
    <2> DEFINE c == Len(objs) + 1
    <2> DEFINE o == [class |-> k, id |-> i]
    <2>1. c \in Cmds /\ objs' = Append(objs, o) /\ apc = "idle"
      BY <1>1 DEF Start, Calls
    <2>2. /\ DOMAIN objs' = DOMAIN objs \cup {c} /\ c \notin DOMAIN objs
          /\ refs \in [Cmds -> Int] /\ DOMAIN objs \subseteq Cmds
      <3>1. objs \in Seq(Object) /\ Len(objs) \in Nat
        BY DEF TypeInv, TypeOK
      <3>2. c \notin DOMAIN objs /\ DOMAIN objs' = DOMAIN objs \cup {c}
        BY <2>1, <3>1
      <3> QED
        BY <3>2, Shapes DEF TypeInv, TypeOK
    <2>3. refs[c] = 0
      <3>1. lcmd \in DOMAIN objs \cup {NoCmd} /\ lrel \in DOMAIN objs \cup {NoCmd}
        BY DEF TypeInv, TypeOK, PointersBorn, RefsInv, LoopFrame, LooperStates
      <3>2. c # NoCmd
        BY <2>1, Shapes
      <3> HIDE DEF c
      <3>3. ~TableHolds(c) /\ ~CallHolds(c) /\ ~LoopHolds(c) /\ ~RttHolds(c)
        BY <2>1, <2>2, <3>1, <3>2
        DEF TypeInv, PointersBorn, TableHolds, CallHolds, LoopHolds, RttHolds
      <3> QED
        BY <2>1, <3>3 DEF RefsInv, RefsExact, One
    <2> HIDE DEF c, o
    <2>4. CASE refs' = [refs EXCEPT ![c] = 1] /\ UNCHANGED freed
      <3>1. refs'[c] = 1 /\ \A d \in DOMAIN objs : refs'[d] = refs[d]
        BY <2>1, <2>2, <2>4
      <3> QED
        BY <2>2, <2>4, <3>1 DEF FreedExact
    <2>5. CASE freed' = freed \cup {c} /\ UNCHANGED refs
      BY <2>2, <2>3, <2>5 DEF FreedExact
    <2> QED
      BY <1>1, <2>4, <2>5 DEF Start, c
  <1>2. CASE LoopDispatches
    <2>1. ASSUME NEW n \in DOMAIN event_cb, addRef(event_cb[n].cmd), UNCHANGED <<objs, freed>>
          PROVE  FreedExact'
      <3> DEFINE c == event_cb[n].cmd
      <3>1. c \in DOMAIN objs /\ c \in Cmds /\ DOMAIN objs \subseteq Cmds
        BY Shapes DEF TypeInv, PointersBorn
      <3>2. TableHolds(c) \/ CallHolds(c)
        BY DEF HandlerInv, HandlersHeld, CallHolds
      <3>3. refs[c] >= 1 /\ refs \in [Cmds -> Int]
        BY <3>1, <3>2, HeldCounted DEF RefsInv, TypeInv, TypeOK
      <3> HIDE DEF c
      <3>4. \A d \in DOMAIN objs : refs'[d] = IF d = c THEN refs[d] + 1 ELSE refs[d]
        BY <2>1, <3>1, <3>3 DEF addRef, c
      <3>5. \A d \in DOMAIN objs : refs'[d] = 0 <=> refs[d] = 0
        BY <3>1, <3>3, <3>4
      <3> QED
        BY <2>1, <3>5 DEF FreedExact
    <2>2. CASE UNCHANGED <<objs, refs, freed>>
      BY <2>2 DEF FreedExact
    <2> QED
      BY <1>2, <2>1, <2>2 DEF LoopDispatches
  <1>3. CASE Releases
    <2>1. acmd \in DOMAIN objs /\ acmd \in Cmds /\ CallHolds(acmd) /\ releaseRef(acmd)
      BY <1>3, Shapes DEF Releases, TypeInv, PointersBorn, CallHolds
    <2> QED
      BY <2>1, HeldCounted, ReleaseFreed DEF RefsInv
  <1>4. CASE SweepReleases
    <2>1. acmd \in DOMAIN objs /\ acmd \in Cmds /\ releaseRef(acmd)
      BY <1>4, Shapes DEF SweepReleases, TypeInv, PointersBorn
    <2>2. TableHolds(acmd)
      <3>1. bad_commands + 1 \in DOMAIN cmd /\ cmd[bad_commands + 1].cmd = acmd
        BY <1>4 DEF SweepReleases, RefsInv, SweepFrame
      <3>2. bad_commands + 1 > bad_commands
        BY DEF TypeInv, TypeOK
      <3> QED
        BY <3>1, <3>2 DEF TableHolds
    <2> QED
      BY <2>1, <2>2, HeldCounted, ReleaseFreed DEF RefsInv
  <1>5. CASE RttReleasesCommand
    <2>1. lrel \in DOMAIN objs /\ lrel \in Cmds /\ RttHolds(lrel) /\ releaseRef(lrel)
      BY <1>5, Shapes DEF RttReleasesCommand, TypeInv, PointersBorn, RttHolds
    <2> QED
      BY <2>1, HeldCounted, ReleaseFreed DEF RefsInv
  <1>6. CASE LoopReleases
    <2>1. lcmd \in DOMAIN objs /\ lcmd \in Cmds /\ LoopHolds(lcmd) /\ releaseRef(lcmd)
      BY <1>6, Shapes DEF LoopReleases, TypeInv, PointersBorn, LoopHolds
    <2> QED
      BY <2>1, HeldCounted, ReleaseFreed DEF RefsInv
  <1>7. CASE UNCHANGED heap
    BY <1>7 DEF heap, FreedExact
  <1>8. ASSUME NEW c \in Cmds, wifi_cancel_cmd(c) \/ wifi_rtt_range_cancel(c)
        PROVE  UNCHANGED heap
    BY <1>8 DEF wifi_cancel_cmd, wifi_rtt_range_cancel
  <1>9. ASSUME NEW k \in Classes, Flush(k) PROVE UNCHANGED heap
    BY <1>9 DEF Flush
  <1>10. CASE ClientCalls
    BY <1>1, <1>7, <1>8, <1>9, <1>10
    DEF ClientCalls, CleanupSendsExit, CleanupCannotWrite
  <1>11. CASE CallGoesOn
    BY <1>3, <1>4, <1>7, <1>11
    DEF CallGoesOn, StartGoesOn, StartFails, StartRegisters, StartReturns, StartUndone,
        CancelRequests, Unregisters, CancelReturns, CleanupReadsDone, SweepNext, CleanedUp
  <1>12. CASE LoopGoesOn \/ LoopHangsUp
    BY <1>2, <1>5, <1>6, <1>7, <1>12
    DEF LoopGoesOn, LoopHangsUp, LoopEnters, LoopPollError, LoopExits, LoopHandlesEvent,
        RttCallback, RttDropsCommand
  <1>13. ASSUME NEW s \in Subs, NEW complete \in BOOLEAN, DriverEmits(s, complete)
         PROVE  UNCHANGED heap
    BY <1>13 DEF DriverEmits
  <1> QED
    BY <1>7, <1>10, <1>11, <1>12, <1>13 DEF Next, Finished, vars, heap

(* The invariant of the theorems below.                                     *)
LiveInv == SweepAlone /\ RefsInv /\ HandlerInv /\ FreedExact

(* LiveInv holds of every state, for a client that keeps to one request per *)
(* event and never uses a request id twice.                                 *)
LEMMA LiveAlways ==
    ASSUME Exclusive, FreshIds, SweepSafe
    PROVE  Spec => []LiveInv
  <1>1. Init => LiveInv
    <2> SUFFICES ASSUME Init PROVE LiveInv
      OBVIOUS
    <2>1. SweepAlone /\ RefsInv
      BY RefsInit
    <2>2. DOMAIN cmd = {} /\ DOMAIN objs = {} /\ DOMAIN event_cb = {}
      BY DEF Init
    <2>3. HandlerInv
      BY <2>2 DEF Init, HandlerInv, ActiveDisjoint, HandlersApart, HandlersExpected,
                  HandlersHeld, CallFrame, RttUnhandled
    <2>4. FreedExact
      BY <2>2 DEF Init, FreedExact
    <2> QED
      BY <2>1, <2>3, <2>4 DEF LiveInv
  <1>2. TypeInv /\ LiveInv /\ [Next]_vars => LiveInv'
    <2> SUFFICES ASSUME TypeInv, LiveInv, [Next]_vars PROVE LiveInv'
      OBVIOUS
    <2>1. SweepAlone /\ RefsInv /\ HandlerInv /\ FreedExact
      BY DEF LiveInv
    <2>2. SweepAlone' /\ RefsInv' /\ FreedExact'
      BY <2>1, SweepAloneStep, RefsStep, FreedStep
    <2>3. CASE ClientCalls
      BY <2>1, <2>2, <2>3, StartHandlers, StopHandlers, CleanupHandlers
      DEF ClientCalls, LiveInv
    <2>4. CASE CallGoesOn
      BY <2>1, <2>2, <2>4, StartStepsHandlers, CancelHandlers, CleanupHandlers
      DEF CallGoesOn, LiveInv
    <2>5. CASE LoopGoesOn \/ LoopHangsUp
               \/ \E s \in Subs, complete \in BOOLEAN : DriverEmits(s, complete)
      BY <2>1, <2>2, <2>5, LoopHandlers DEF LiveInv
    <2>6. CASE UNCHANGED vars
      <3>1. UNCHANGED <<tables, objs, caller, active, lpc, lcmd>>
        BY <2>6 DEF vars, heap, looper
      <3> QED
        BY <2>1, <2>2, <3>1, HandlersSame DEF LiveInv
    <2> QED
      BY <2>3, <2>4, <2>5, <2>6 DEF Next, Finished
  <1>3. Spec => []TypeInv
    BY TypeCorrect DEF TypeInv
  <1> QED
    BY <1>1, <1>2, <1>3, PTL DEF Spec

(* A handler never points to a deleted command although it is not counted   *)
(* as a reference: every way in which a command loses its last reference    *)
(* unregisters its handlers first.                                          *)
THEOREM HandlersStayLive ==
    Exclusive /\ FreshIds /\ SweepSafe => (Spec => []HandlersLive)
  <1> SUFFICES ASSUME Exclusive, FreshIds, SweepSafe
               PROVE  Spec => []HandlersLive
    OBVIOUS
  <1>1. TypeInv /\ LiveInv => HandlersLive
    <2> SUFFICES ASSUME TypeInv, LiveInv, NEW n \in DOMAIN event_cb
                 PROVE  event_cb[n].cmd \notin freed
      BY DEF HandlersLive
    <2>1. event_cb[n].cmd \in Cmds
      BY Shapes DEF TypeInv, PointersBorn
    <2>2. TableHolds(event_cb[n].cmd) \/ CallHolds(event_cb[n].cmd)
      BY DEF LiveInv, HandlerInv, HandlersHeld, CallHolds
    <2>3. refs[event_cb[n].cmd] >= 1
      BY <2>1, <2>2, HeldCounted DEF LiveInv, RefsInv
    <2> QED
      BY <2>3 DEF LiveInv, FreedExact
  <1>2. Spec => []TypeInv
    BY TypeCorrect DEF TypeInv
  <1> QED
    BY <1>1, <1>2, LiveAlways, PTL

(* Neither thread uses a deleted command, in any interleaving of start(),   *)
(* cancel(), the callbacks and the sweep of wifi_cleanup.                   *)
THEOREM NeverUsedFreed ==
    Exclusive /\ FreshIds /\ SweepSafe => (Spec => []NoUseAfterFree)
  <1> SUFFICES ASSUME Exclusive, FreshIds, SweepSafe
               PROVE  Spec => []NoUseAfterFree
    OBVIOUS
  <1>1. TypeInv /\ LiveInv => NoUseAfterFree
    <2> SUFFICES ASSUME TypeInv, LiveInv PROVE NoUseAfterFree
      OBVIOUS
    <2>1. \A c \in Cmds : TableHolds(c) \/ CallHolds(c) \/ LoopHolds(c) \/ RttHolds(c)
                             => c \notin freed
      <3> SUFFICES ASSUME NEW c \in Cmds,
                          TableHolds(c) \/ CallHolds(c) \/ LoopHolds(c) \/ RttHolds(c)
                   PROVE  c \notin freed
        OBVIOUS
      <3>1. refs[c] >= 1
        BY HeldCounted DEF LiveInv, RefsInv
      <3> QED
        BY <3>1 DEF LiveInv, FreedExact
    <2>2. NoCmd \notin freed /\ \A c \in DOMAIN objs : c \in Cmds
      BY Shapes DEF TypeInv, TypeOK
    <2>3. \A n \in DOMAIN cmd : n > bad_commands => cmd[n].cmd \notin freed
      BY <2>1, <2>2 DEF TableHolds, TypeInv, PointersBorn
    <2>4. lcmd \notin freed /\ lrel \notin freed
      BY <2>1, <2>2 DEF LoopHolds, RttHolds, TypeInv, TypeOK
    <2>5. apc \in {"cancel", "release"} => acmd \notin freed
      BY <2>1, <2>2 DEF CallHolds, TypeInv, PointersBorn
    <2>6. apc = "unwind" \/ (apc = "start" /\ script # <<>>) => acmd \notin freed
      <3> SUFFICES ASSUME apc = "unwind" \/ (apc = "start" /\ script # <<>>)
                   PROVE  acmd \notin freed
        OBVIOUS
      <3>1. bad_commands = 0
        BY DEF LiveInv, SweepAlone, SweepStates
      <3>2. PICK n \in DOMAIN cmd : cmd[n].cmd = acmd
        BY DEF LiveInv, RefsInv, StartFrame
      <3> QED
        BY <2>3, <3>1, <3>2, Shapes
    <2>7. apc = "sweepCancel" => acmd \notin freed
      <3>1. apc = "sweepCancel" =>
               bad_commands + 1 \in DOMAIN cmd /\ cmd[bad_commands + 1].cmd = acmd
        BY DEF LiveInv, RefsInv, SweepFrame
      <3>2. bad_commands + 1 > bad_commands
        BY DEF TypeInv, TypeOK
      <3> QED
        BY <2>3, <3>1, <3>2
    <2>8. script # <<>> => acmd \notin freed
      <3>1. apc = "flush" => acmd \notin freed
        BY <2>2 DEF LiveInv, HandlerInv, CallFrame
      <3>2. script # <<>> => apc \in {"start", "unwind", "cancel", "flush", "sweepCancel"}
        BY DEF LiveInv, HandlerInv, CallFrame, TypeInv, TypeOK, CallerStates
      <3> QED
        BY <2>5, <2>6, <2>7, <3>1, <3>2
    <2> QED
      BY <2>3, <2>4, <2>5, <2>6, <2>7, <2>8 DEF NoUseAfterFree
  <1>2. Spec => []TypeInv
    BY TypeCorrect DEF TypeInv
  <1> QED
    BY <1>1, <1>2, LiveAlways, PTL

(* When wifi_cleanup is through, every command ever created is deleted,     *)
(* although the sweep "did not work" for each of them.                      *)
THEOREM CleanupLeavesNothing ==
    Exclusive /\ FreshIds /\ "write" \notin Faults => (Spec => []CleanupReleasesAll)
  <1> SUFFICES ASSUME Exclusive, FreshIds, "write" \notin Faults
               PROVE  Spec => []CleanupReleasesAll
    OBVIOUS
  <1>1. TypeInv /\ LiveInv => CleanupReleasesAll
    <2> SUFFICES ASSUME TypeInv, LiveInv, apc = "finished" PROVE freed = DOMAIN objs
      BY DEF CleanupReleasesAll
    <2>1. lpc = "done" /\ lcmd = NoCmd /\ lrel = NoCmd /\ Len(cmd) <= bad_commands
      BY DEF LiveInv, SweepAlone, SweepStates, RefsInv, LoopFrame, HandlerInv, CallFrame
    <2>2. \A c \in DOMAIN objs : refs[c] = 0
      <3> SUFFICES ASSUME NEW c \in DOMAIN objs PROVE refs[c] = 0
        OBVIOUS
      <3>1. c \in Cmds /\ c # NoCmd
        BY Shapes
      <3>2. ~TableHolds(c)
        BY <2>1, Shapes DEF TableHolds, TypeInv, TypeOK
      <3>3. ~CallHolds(c) /\ ~LoopHolds(c) /\ ~RttHolds(c)
        BY <2>1, <3>1 DEF CallHolds, LoopHolds, RttHolds
      <3> QED
        BY <3>1, <3>2, <3>3 DEF LiveInv, RefsInv, RefsExact, One
    <2> QED
      BY <2>2 DEF LiveInv, FreedExact
  <1>2. Spec => []TypeInv
    BY TypeCorrect DEF TypeInv
  <1>3. Spec => []LiveInv
    BY LiveAlways DEF SweepSafe
  <1> QED
    BY <1>1, <1>2, <1>3, PTL

-----------------------------------------------------------------------------
(* Requests and the handlers they need.                                     *)

Subscribed(s, c) ==
    \E n \in DOMAIN event_cb : event_cb[n].sub = s /\ event_cb[n].cmd = c

(* start() has still to register the handler of event s.                    *)
ToCome(s) == \E i \in DOMAIN script : script[i].op = "register" /\ script[i].subs[1] = s

(* The failures of a start() undo handlers of its own class only.           *)
UndoesOwn(r, k) ==
    \A i \in DOMAIN r : r[i].op \in {"create", "request"} =>
        \A m \in DOMAIN r[i].subs : r[i].subs[m] \in Subscribes(k)

(* A running request has each of its handlers, or its start() is about to   *)
(* register it; and what a call will unregister, no running request needs.  *)
SubscribedInv ==
    /\ apc \notin SweepStates =>
          \A c \in active : objs[c].class # "rtt" =>
              \A s \in Subscribes(objs[c].class) :
                  Subscribed(s, c) \/ (apc = "start" /\ c = acmd /\ ToCome(s))
    /\ apc \in {"unwind", "cancel", "flush"} =>
          \A c \in active : \A s \in Subscribes(objs[c].class) : ~ToGo(s)
    /\ apc = "start" => UndoesOwn(script, objs[acmd].class)

(* cancel() of a class unregisters handlers of that class only, and so does *)
(* the way out of its start().                                              *)
LEMMA ScriptsOwn ==
    ASSUME NEW k \in AllClasses
    PROVE  /\ UndoesOwn(StartScript[k], k)
           /\ \A i \in DOMAIN CancelScript[k] : CancelScript[k][i].op = "unregister" =>
                 CancelScript[k][i].subs[1] \in Subscribes(k)
           /\ k # "rtt" => "RTT_EVENT_COMPLETE" \notin Subscribes(k)
  <1> DEFINE Own(start, cancel, subs) ==
        /\ \A i \in DOMAIN start : start[i].op \in {"create", "request"} =>
              \A m \in DOMAIN start[i].subs : start[i].subs[m] \in subs
        /\ \A i \in DOMAIN cancel : cancel[i].op = "unregister" => cancel[i].subs[1] \in subs
  <1> DEFINE Regs(start) == Touches(start, "register")
  <1> USE DEF Touches, Create, Request, Register, Unregister
  <1>1. /\ Own(ScanStart, ScanCancel, Regs(ScanStart))
        /\ "RTT_EVENT_COMPLETE" \notin Regs(ScanStart)
    BY DEF ScanStart, ScanCancel
  <1>2. /\ Own(FullScanResultsStart, FullScanResultsCancel, Regs(FullScanResultsStart))
        /\ "RTT_EVENT_COMPLETE" \notin Regs(FullScanResultsStart)
    BY DEF FullScanResultsStart, FullScanResultsCancel
  <1>3. /\ Own(BssidHotlistStart, BssidHotlistCancel, Regs(BssidHotlistStart))
        /\ "RTT_EVENT_COMPLETE" \notin Regs(BssidHotlistStart)
    BY DEF BssidHotlistStart, BssidHotlistCancel
  <1>4. /\ Own(ePNOStart, ePNOCancel, Regs(ePNOStart))
        /\ "RTT_EVENT_COMPLETE" \notin Regs(ePNOStart)
    BY DEF ePNOStart, ePNOCancel
  <1>5. /\ Own(SignificantWifiChangeStart, SignificantWifiChangeCancel,
               Regs(SignificantWifiChangeStart))
        /\ "RTT_EVENT_COMPLETE" \notin Regs(SignificantWifiChangeStart)
    BY DEF SignificantWifiChangeStart, SignificantWifiChangeCancel
  <1>6. /\ Own(AnqpoConfigureStart, AnqpoConfigureCancel, Regs(AnqpoConfigureStart))
        /\ "RTT_EVENT_COMPLETE" \notin Regs(AnqpoConfigureStart)
    BY DEF AnqpoConfigureStart, AnqpoConfigureCancel
  <1>7. /\ Own(SetRSSIMonitorStart, SetRSSIMonitorCancel, Regs(SetRSSIMonitorStart))
        /\ "RTT_EVENT_COMPLETE" \notin Regs(SetRSSIMonitorStart)
    BY DEF SetRSSIMonitorStart, SetRSSIMonitorCancel
  <1>8. Own(RttStart, RttCancel, Regs(RttStart))
    BY DEF RttStart, RttCancel
  <1>9. /\ Own(StartScript[k], CancelScript[k], Regs(StartScript[k]))
        /\ k # "rtt" => "RTT_EVENT_COMPLETE" \notin Regs(StartScript[k])
    <2> HIDE DEF Own, Regs, Touches, Create, Request, Register, Unregister
    <2> QED
      BY <1>1, <1>2, <1>3, <1>4, <1>5, <1>6, <1>7, <1>8 DEF AllClasses, StartScript, CancelScript
  <1> QED
    BY <1>9 DEF UndoesOwn, Subscribes

(* wifi_unregister_vendor_handler leaves the handlers of other events.      *)
LEMMA OthersStay ==
    ASSUME TypeInv, NEW s, wifi_unregister_vendor_handler(s), NEW t, t # s, NEW c,
           Subscribed(t, c)
    PROVE  Subscribed(t, c)'
  <1>1. /\ event_cb \in Seq(CbInfo) /\ Len(event_cb) \in Nat
        /\ DOMAIN event_cb = 1..Len(event_cb)
    BY DEF TypeInv, TypeOK
  <1>2. CASE UNCHANGED event_cb
    BY <1>2 DEF Subscribed
  <1>3. ASSUME NEW n \in DOMAIN event_cb, event_cb[n].sub = s,
               event_cb' = Without(event_cb, n)
        PROVE  Subscribed(t, c)'
    <2>1. /\ DOMAIN event_cb' = 1..(Len(event_cb) - 1)
          /\ \A j \in 1..(Len(event_cb) - 1) :
                event_cb'[j] = IF j < n THEN event_cb[j] ELSE event_cb[j + 1]
      BY <1>1, <1>3, WithoutTyped
    <2>2. PICK m \in DOMAIN event_cb : event_cb[m].sub = t /\ event_cb[m].cmd = c
      BY DEF Subscribed
    <2>3. CASE m < n
      <3>1. m \in DOMAIN event_cb' /\ event_cb'[m] = event_cb[m]
        BY <1>1, <2>1, <2>3
      <3> QED
        BY <2>2, <3>1 DEF Subscribed
    <2>4. CASE m > n
      <3>1. m - 1 \in DOMAIN event_cb' /\ event_cb'[m - 1] = event_cb[m]
        BY <1>1, <2>1, <2>4
      <3> QED
        BY <2>2, <3>1 DEF Subscribed
    <2> QED
      BY <1>1, <1>3, <2>2, <2>3, <2>4
  <1> QED
    BY <1>2, <1>3 DEF wifi_unregister_vendor_handler, FoundHandler

(* There is a slot for every event, so the handler table has room for an    *)
(* event that has none.                                                     *)
LEMMA RoomForHandler ==
    ASSUME TypeInv, HandlersApart, Cardinality(Events) <= AllocEventCb,
           NEW s \in Events, \A n \in DOMAIN event_cb : event_cb[n].sub # s
    PROVE  Len(event_cb) < AllocEventCb
  <1> DEFINE T == Events \ {s}
  <1> DEFINE f == [n \in 1..Len(event_cb) |-> event_cb[n].sub]
  <1>1. /\ event_cb \in Seq(CbInfo) /\ Len(event_cb) \in Nat
        /\ DOMAIN event_cb = 1..Len(event_cb)
    BY DEF TypeInv, TypeOK
  <1>2. IsFiniteSet(Events) /\ Cardinality(Events) \in Nat
    <2>1. \A S, x : IsFiniteSet(S) => IsFiniteSet(S \cup {x})
      BY FS_AddElement
    <2>2. IsFiniteSet({})
      BY FS_EmptySet
    <2> DEFINE A == {} \cup {"SIGNIFICANT_CHANGE_RESULTS"} \cup {"HOTLIST_RESULTS_FOUND"}
                       \cup {"SCAN_RESULTS_AVAILABLE"} \cup {"FULL_SCAN_RESULTS"}
                       \cup {"RTT_EVENT_COMPLETE"}
    <2> DEFINE B == A \cup {"COMPLETE_SCAN"} \cup {"HOTLIST_RESULTS_LOST"}
                       \cup {"RSSI_MONITOR"} \cup {"EPNO_EVENT"} \cup {"ANQPO_HOTSPOT_MATCH"}
    <2>3. IsFiniteSet(A)
      BY <2>1, <2>2
    <2>4. IsFiniteSet(B)
      <3> HIDE DEF A
      <3> QED
        BY <2>1, <2>3
    <2>5. Events = B
      BY DEF Events
    <2> QED
      BY <2>4, <2>5, FS_CardinalityType
  <1>3. IsFiniteSet(T) /\ Cardinality(T) = Cardinality(Events) - 1
    BY <1>2, FS_RemoveElement
  <1>4. IsFiniteSet(1..Len(event_cb)) /\ Cardinality(1..Len(event_cb)) = Len(event_cb)
    <2>1. 1 \in Int /\ Len(event_cb) \in Int
      BY <1>1
    <2>2. /\ IsFiniteSet(1..Len(event_cb))
          /\ Cardinality(1..Len(event_cb))
               = IF 1 > Len(event_cb) THEN 0 ELSE Len(event_cb) - 1 + 1
      BY <2>1, FS_Interval
    <2> QED
      BY <1>1, <2>2
  <1>5. f \in [1..Len(event_cb) -> T]
    <2>1. \A n \in 1..Len(event_cb) : event_cb[n] \in CbInfo
      BY <1>1
    <2>2. \A n \in 1..Len(event_cb) : event_cb[n].sub \in T
      BY <1>1, <2>1 DEF CbInfo
    <2> QED
      BY <2>2
  <1>6. \A m, n \in 1..Len(event_cb) : f[m] = f[n] => m = n
    BY <1>1 DEF HandlersApart
  <1>7. ~(Cardinality(T) < Cardinality(1..Len(event_cb)))
    <2> HIDE DEF f, T
    <2> QED
      BY <1>3, <1>4, <1>5, <1>6, FS_PigeonHole
  <1> QED
    BY <1>1, <1>2, <1>3, <1>4, <1>7, BoundsAssumption

(* What a start() has still to register, a step on.                         *)
LEMMA ToComeTail ==
    ASSUME script \in Seq(Ops), script # <<>>, script' = Tail(script), NEW s, ToCome(s),
           Head(script).op = "register" => Head(script).subs[1] # s
    PROVE  ToCome(s)'
  <1>1. /\ Len(script) \in Nat /\ Len(script) > 0 /\ DOMAIN script = 1..Len(script)
        /\ DOMAIN script' = 1..(Len(script) - 1)
        /\ \A i \in 1..(Len(script) - 1) : script'[i] = script[i + 1]
        /\ Head(script) = script[1]
    OBVIOUS
  <1>2. PICK i \in DOMAIN script : script[i].op = "register" /\ script[i].subs[1] = s
    BY DEF ToCome
  <1>3. i # 1
    BY <1>1, <1>2
  <1>4. i - 1 \in DOMAIN script' /\ script'[i - 1] = script[i]
    BY <1>1, <1>3
  <1> QED
    BY <1>2, <1>4 DEF ToCome

(* Nothing new is unregistered or undone a step on.                         *)
LEMMA TailOwn ==
    ASSUME NEW r \in Seq(Ops), r # <<>>
    PROVE  \A i \in DOMAIN Tail(r) : \E j \in DOMAIN r : Tail(r)[i] = r[j]
  <1>1. /\ Len(r) \in Nat /\ DOMAIN r = 1..Len(r) /\ DOMAIN Tail(r) = 1..(Len(r) - 1)
        /\ \A i \in 1..(Len(r) - 1) : Tail(r)[i] = r[i + 1]
    OBVIOUS
  <1> QED
    BY <1>1

(* A running request loses a handler only by being stopped.                 *)
LEMMA SubscribedStep ==
    ASSUME Exclusive, Cardinality(Events) <= AllocEventCb, TypeInv, LiveInv,
           SubscribedInv, [Next]_vars
    PROVE  SubscribedInv'
  <1> USE DEF tables, flags, heap, looper, socks, driver
  <1>0. /\ SweepAlone /\ RefsInv /\ HandlerInv /\ script \in Seq(Ops)
        /\ active \subseteq DOMAIN objs
        /\ \A c \in DOMAIN objs : objs[c].class \in AllClasses
    BY ClassesKnown DEF LiveInv, TypeInv, TypeOK, PointersBorn
  (* Steps that leave the handlers and the call where they are.             *)
  <1>1. ASSUME UNCHANGED <<event_cb, objs, apc, acmd, script>>, active' \subseteq active
        PROVE  SubscribedInv'
    BY <1>1 DEF SubscribedInv, Subscribed, ToCome, ToGo, UndoesOwn
  (* Steps of a call from one state without a script to another.            *)
  <1>2. ASSUME UNCHANGED <<event_cb, objs, active>>, script = <<>> \/ apc' \in SweepStates,
               apc \in SweepStates => apc' \in SweepStates,
               apc' \in {"idle", "release", "wait"} \cup SweepStates
        PROVE  SubscribedInv'
    <2>1. apc' \notin SweepStates => \A s : ~ToCome(s)
      BY <1>2 DEF ToCome
    <2> QED
      BY <1>2, <2>1 DEF SubscribedInv, Subscribed, SweepStates
  <1>3. ASSUME NEW k \in Classes, NEW i \in Ids, Start(k, i) PROVE SubscribedInv'
    <2> DEFINE c == Len(objs) + 1
    <2> DEFINE o == [class |-> k, id |-> i]
    <2>1. /\ objs' = Append(objs, o) /\ o.class = k /\ apc = "idle" /\ UNCHANGED event_cb
      BY <1>3 DEF Start, Calls
    <2>2. objs \in Seq(Object) /\ Len(objs) \in Nat
      BY DEF TypeInv, TypeOK
    <2>3. /\ \A d \in DOMAIN objs : objs'[d] = objs[d]
          /\ objs'[c] = o
      BY <2>1, <2>2
    <2> HIDE DEF c, o
    <2>4. \A d \in active : objs'[d].class # "rtt" =>
             \A s \in Subscribes(objs'[d].class) : Subscribed(s, d)'
      BY <1>0, <2>1, <2>3 DEF SubscribedInv, Subscribed, SweepStates
    <2>5. CASE /\ apc' = "start" /\ acmd' = c /\ script' = StartScript[k]
               /\ active' = active \cup {c}
      <3>1. \A s \in Subscribes(k) : ToCome(s)'
        BY <2>5 DEF Subscribes, Touches, ToCome
      <3>2. UndoesOwn(script', k)
        BY <2>5, ScriptsOwn, ClassesAssumption
      <3> QED
        BY <2>1, <2>3, <2>4, <2>5, <3>1, <3>2 DEF SubscribedInv
    <2>6. CASE UNCHANGED <<apc, acmd, script, active>>
      BY <2>1, <2>4, <2>6 DEF SubscribedInv
    <2> QED
      BY <1>3, <2>5, <2>6 DEF Start, c
  <1>4. CASE StartGoesOn
    <2>1. /\ apc = "start" /\ script # <<>> /\ script' = Tail(script)
          /\ Head(script).op # "register"
          /\ UNCHANGED <<event_cb, objs, apc, acmd, active>>
      BY <1>4 DEF StartGoesOn, Runs
    <2>2. \A s : ToCome(s) => ToCome(s)'
      BY <1>0, <2>1, ToComeTail
    <2>3. UndoesOwn(script', objs[acmd].class)
      BY <1>0, <2>1, TailOwn DEF SubscribedInv, UndoesOwn
    <2> QED
      BY <2>1, <2>2, <2>3 DEF SubscribedInv, Subscribed
  <1>5. CASE StartFails
    <2> DEFINE h == Head(script)
    <2>1. /\ apc = "start" /\ script # <<>> /\ h.op \in {"create", "request"}
          /\ script' = [j \in DOMAIN h.subs |-> Unregister(h.subs[j])]
          /\ apc' = "unwind" /\ active' = active \ {acmd}
          /\ UNCHANGED <<event_cb, objs, acmd>>
      BY <1>5 DEF StartFails, Runs
    <2>2. \A s : ToGo(s)' => s \in Subscribes(objs[acmd].class)
      <3>1. script[1] = h /\ 1 \in DOMAIN script
        BY <1>0, <2>1
      <3>2. \A m \in DOMAIN h.subs : h.subs[m] \in Subscribes(objs[acmd].class)
        BY <2>1, <3>1 DEF SubscribedInv, UndoesOwn
      <3>3. \A s : Unregister(s).subs[1] = s
        BY DEF Unregister
      <3> QED
        BY <2>1, <3>2, <3>3 DEF ToGo
    <2>3. acmd \in active
      BY <1>0, <2>1 DEF HandlerInv, CallFrame
    <2>4. \A c \in active' : \A s \in Subscribes(objs[c].class) : ~ToGo(s)'
      BY <1>0, <2>1, <2>2, <2>3 DEF HandlerInv, ActiveDisjoint
    <2>5. \A c \in active' : objs[c].class # "rtt" =>
             \A s \in Subscribes(objs[c].class) : Subscribed(s, c)'
      BY <2>1 DEF SubscribedInv, Subscribed, SweepStates
    <2> QED
      BY <2>1, <2>4, <2>5 DEF SubscribedInv
  <1>6. CASE StartRegisters
    <2>1. PICK r : r = Head(script).subs[1]
      OBVIOUS
    <2>2. /\ apc = "start" /\ script # <<>> /\ script' = Tail(script)
          /\ Head(script).op = "register"
          /\ wifi_register_vendor_handler(r, acmd)
          /\ UNCHANGED <<objs, apc, acmd, active>>
      BY <1>6, <2>1 DEF StartRegisters, Runs
    <2>3. 1 \in DOMAIN script /\ script[1] = Head(script) /\ r \in Events
      BY <1>0, <2>1, <2>2, HeadTail
    <2>4. /\ acmd \in active
          /\ RegistersFor(script, objs[acmd].class) /\ SafeRest(script, HandledBy(acmd))
      BY <1>0, <2>2 DEF HandlerInv, CallFrame
    <2>5. r \in Subscribes(objs[acmd].class) /\ r \notin HandledBy(acmd)
      BY <2>1, <2>2, <2>3, <2>4 DEF RegistersFor, SafeRest
    <2>6. \A n \in DOMAIN event_cb : event_cb[n].cmd \in active
      BY <1>0, <2>2 DEF HandlerInv, HandlersExpected, Expected
    <2>7. \A n \in DOMAIN event_cb : event_cb[n].sub # r
      <3> SUFFICES ASSUME NEW n \in DOMAIN event_cb, event_cb[n].sub = r PROVE FALSE
        OBVIOUS
      <3>1. event_cb[n].cmd # acmd
        BY <2>5 DEF HandledBy
      <3>2. r \in Subscribes(objs[event_cb[n].cmd].class)
        BY <1>0 DEF HandlerInv, HandlersApart
      <3> QED
        BY <1>0, <2>4, <2>5, <2>6, <3>1, <3>2 DEF HandlerInv, ActiveDisjoint
    <2>8. Len(event_cb) < AllocEventCb
      BY <1>0, <2>3, <2>7, RoomForHandler DEF HandlerInv
    <2>9. /\ \A s, c : Subscribed(s, c) => Subscribed(s, c)'
          /\ \A c : c = acmd => Subscribed(r, c)'
      <3> DEFINE e == [sub |-> r, cmd |-> acmd]
      <3>1. event_cb' = Append(event_cb, e)
        BY <2>2, <2>8 DEF wifi_register_vendor_handler
      <3>2. event_cb \in Seq(CbInfo) /\ Len(event_cb) \in Nat
        BY DEF TypeInv, TypeOK
      <3>3. e.sub = r /\ e.cmd = acmd
        OBVIOUS
      <3> HIDE DEF e
      <3>4. /\ \A n \in DOMAIN event_cb : n \in DOMAIN event_cb' /\ event_cb'[n] = event_cb[n]
            /\ Len(event_cb) + 1 \in DOMAIN event_cb' /\ event_cb'[Len(event_cb) + 1] = e
        BY <3>1, <3>2
      <3> QED
        BY <3>3, <3>4 DEF Subscribed
    <2>10. \A s : s # r /\ ToCome(s) => ToCome(s)'
      BY <1>0, <2>1, <2>2, ToComeTail
    <2>11. UndoesOwn(script', objs[acmd].class)
      BY <1>0, <2>2, TailOwn DEF SubscribedInv, UndoesOwn
    <2>12. \A c \in active : objs[c].class # "rtt" =>
              \A s \in Subscribes(objs[c].class) :
                  Subscribed(s, c)' \/ (c = acmd /\ ToCome(s)')
      BY <2>2, <2>9, <2>10 DEF SubscribedInv, SweepStates
    <2> QED
      BY <2>2, <2>11, <2>12 DEF SubscribedInv
  <1>7. CASE StartReturns \/ StartUndone \/ CancelReturns \/ Releases
    BY <1>0, <1>2, <1>7 DEF StartReturns, StartUndone, CancelReturns, Releases, SweepStates,
                            HandlerInv, CallFrame, releaseRef
  <1>8. CASE \/ CleanupSendsExit \/ CleanupCannotWrite \/ CleanupReadsDone
             \/ SweepNext \/ SweepReleases \/ CleanedUp
    BY <1>0, <1>2, <1>8 DEF CleanupSendsExit, CleanupCannotWrite, CleanupReadsDone,
       SweepNext, SweepReleases, CleanedUp, Calls, SweepStates, HandlerInv, CallFrame, releaseRef
  (* A call that stops requests of one class starts.                        *)
  <1>9. ASSUME NEW k \in AllClasses, apc = "idle", apc' \in {"cancel", "flush"},
               script' = CancelScript[k], UNCHANGED <<event_cb, objs>>, active' \subseteq active,
               \A c \in active' : Subscribes(objs[c].class) \cap Subscribes(k) = {}
        PROVE  SubscribedInv'
    <2>1. \A s : ToGo(s)' => s \in Subscribes(k)
      BY <1>9, ScriptsOwn DEF ToGo
    <2>2. \A c \in active' : objs[c].class # "rtt" =>
             \A s \in Subscribes(objs[c].class) : Subscribed(s, c)'
      BY <1>9 DEF SubscribedInv, Subscribed, SweepStates
    <2>3. \A c \in active' : \A s \in Subscribes(objs[c].class) : ~ToGo(s)'
      BY <1>9, <2>1
    <2> QED
      BY <1>9, <2>2, <2>3 DEF SubscribedInv
  <1>10. ASSUME NEW c \in Cmds, wifi_cancel_cmd(c) PROVE SubscribedInv'
    <2>1. /\ c \in DOMAIN objs /\ c \in active /\ active' = active \ {c}
          /\ apc = "idle" /\ bad_commands = 0 /\ script = <<>>
          /\ UNCHANGED <<event_cb, objs, bad_commands>>
      BY <1>0, <1>10 DEF wifi_cancel_cmd, Calls, SweepAlone, SweepStates, HandlerInv, CallFrame
    <2>2. PICK x \in Cmds \cup {NoCmd} :
             /\ wifi_unregister_cmd(objs[c].id, x)
             /\ \/ x = NoCmd /\ UNCHANGED <<apc, script>>
                \/ x # NoCmd /\ apc' = "cancel" /\ script' = CancelScript[objs[x].class]
      BY <1>10 DEF wifi_cancel_cmd
    <2>3. x # NoCmd => x \in DOMAIN objs /\ objs[x].id = objs[c].id
      BY <1>0, <2>1, <2>2, TakesOne DEF RefsInv
    <2>4. x # NoCmd => x = c
      BY <1>0, <2>1, <2>3 DEF RefsInv, IdsDistinct
    <2>5. CASE x = NoCmd
      <3>1. UNCHANGED <<apc, script>>
        BY <2>2, <2>5
      <3>2. \A d \in active' : objs[d].class # "rtt" =>
               \A s \in Subscribes(objs[d].class) : Subscribed(s, d)
        BY <2>1 DEF SubscribedInv, SweepStates
      <3>3. \A s, d : Subscribed(s, d)' <=> Subscribed(s, d)
        BY <2>1 DEF Subscribed
      <3> QED
        BY <2>1, <3>1, <3>2, <3>3 DEF SubscribedInv
    <2>6. CASE x # NoCmd
      <3>1. apc' = "cancel" /\ script' = CancelScript[objs[c].class]
        BY <2>2, <2>4, <2>6
      <3>2. \A d \in active' : Subscribes(objs[d].class) \cap Subscribes(objs[c].class) = {}
        BY <1>0, <2>1 DEF HandlerInv, ActiveDisjoint
      <3>3. PICK k \in AllClasses : k = objs[c].class
        BY <1>0, <2>1
      <3> QED
        BY <1>9, <2>1, <3>1, <3>2, <3>3
    <2> QED
      BY <2>5, <2>6
  <1>11. ASSUME NEW c \in Cmds, wifi_rtt_range_cancel(c) PROVE SubscribedInv'
    <2>1. RttCancel = CancelScript["rtt"] /\ "rtt" \in AllClasses
      BY DEF CancelScript, AllClasses
    <2>2. \A d \in active \ {c} : Subscribes(objs[d].class) \cap Subscribes("rtt") = {}
      BY <1>0, <1>11 DEF wifi_rtt_range_cancel, HandlerInv, ActiveDisjoint
    <2> QED
      BY <1>9, <1>11, <2>1, <2>2 DEF wifi_rtt_range_cancel, Calls
  <1>12. ASSUME NEW k \in Classes, Flush(k) PROVE SubscribedInv'
    BY <1>9, <1>12, ClassesAssumption DEF Flush, Calls, MayFlush
  <1>13. CASE CancelRequests \/ Unregisters
    <2>1. /\ apc \in {"unwind", "cancel", "flush", "sweepCancel"}
          /\ script # <<>> /\ script' = Tail(script)
          /\ UNCHANGED <<objs, apc, acmd, active>>
      BY <1>13 DEF CancelRequests, Unregisters, Runs
    <2>2. \A s : ToGo(s)' => ToGo(s)
      BY <1>0, <2>1, TailOwn DEF ToGo
    <2>3. \A c \in active : apc # "sweepCancel" =>
             \A s \in Subscribes(objs[c].class) : Subscribed(s, c) => Subscribed(s, c)'
      <3>1. CASE CancelRequests
        BY <3>1 DEF CancelRequests, Subscribed
      <3>2. CASE Unregisters
        <4>1. PICK r : r = Head(script).subs[1]
          OBVIOUS
        <4>2. wifi_unregister_vendor_handler(r) /\ Head(script).op = "unregister"
          BY <3>2, <4>1 DEF Unregisters, Runs
        <4>3. ToGo(r)
          <5>1. 1 \in DOMAIN script /\ script[1] = Head(script)
            BY <1>0, <2>1
          <5> QED
            BY <4>1, <4>2, <5>1 DEF ToGo
        <4> QED
          BY <2>1, <4>2, <4>3, OthersStay DEF SubscribedInv
      <3> QED
        BY <1>13, <3>1, <3>2
    <2> QED
      BY <2>1, <2>2, <2>3 DEF SubscribedInv, SweepStates
  <1>14. CASE LoopHandlesEvent
    <2>1. CASE wifi_unregister_vendor_handler("RTT_EVENT_COMPLETE")
      <3>1. UNCHANGED <<objs, apc, acmd, script, active>>
        BY <1>14 DEF LoopHandlesEvent, caller
      <3>2. \A c \in active : objs[c].class # "rtt" =>
               \A s \in Subscribes(objs[c].class) : Subscribed(s, c) => Subscribed(s, c)'
        BY <1>0, <2>1, OthersStay, ScriptsOwn
      <3> QED
        BY <3>1, <3>2 DEF SubscribedInv, ToCome, ToGo, UndoesOwn
    <2>2. CASE UNCHANGED event_cb
      BY <1>1, <1>14, <2>2 DEF LoopHandlesEvent, caller
    <2> QED
      BY <1>14, <2>1, <2>2 DEF LoopHandlesEvent
  <1>15. CASE \/ LoopEnters \/ LoopDispatches \/ LoopPollError \/ LoopExits \/ LoopHangsUp
              \/ RttCallback \/ RttDropsCommand \/ RttReleasesCommand \/ LoopReleases
              \/ \E s \in Subs, complete \in BOOLEAN : DriverEmits(s, complete)
              \/ UNCHANGED vars
    <2>1. UNCHANGED <<event_cb, objs, apc, acmd, script>> /\ active' \subseteq active
      BY <1>15 DEF LoopEnters, LoopDispatches, LoopPollError, LoopExits, LoopHangsUp,
         RttCallback, RttDropsCommand, RttReleasesCommand, LoopReleases, DriverEmits,
         releaseRef, caller, vars
    <2> QED
      BY <1>1, <2>1
  <1>16. CASE ClientCalls
    BY <1>3, <1>8, <1>10, <1>11, <1>12, <1>16 DEF ClientCalls
  <1>17. CASE CallGoesOn
    BY <1>4, <1>5, <1>6, <1>7, <1>8, <1>13, <1>17 DEF CallGoesOn
  <1> QED
    BY <1>14, <1>15, <1>16, <1>17 DEF Next, LoopGoesOn, Finished

(* A request the client holds to be running has all its handlers whenever   *)
(* no call is in progress, if the table has a slot for every event (64 for  *)
(* 10 in the code): neither the calls for other requests nor the completion *)
(* of RTT take one away.                                                    *)
THEOREM RunningIsSubscribed ==
    /\ Exclusive /\ FreshIds /\ SweepSafe
    /\ Cardinality(Events) <= AllocEventCb
    => (Spec => []ActiveIsSubscribed)
  <1> SUFFICES ASSUME Exclusive, FreshIds, SweepSafe,
                      Cardinality(Events) <= AllocEventCb
               PROVE  Spec => []ActiveIsSubscribed
    OBVIOUS
  <1>1. Init => SubscribedInv
    BY DEF Init, SubscribedInv
  <1>2. TypeInv /\ LiveInv /\ SubscribedInv /\ [Next]_vars => SubscribedInv'
    BY SubscribedStep
  <1>3. TypeInv /\ SubscribedInv => ActiveIsSubscribed
    <2> SUFFICES ASSUME TypeInv, SubscribedInv, apc = "idle", NEW c \in active,
                        objs[c].class # "rtt", NEW s \in Subscribes(objs[c].class)
                 PROVE  [sub |-> s, cmd |-> c] \in {event_cb[n] : n \in DOMAIN event_cb}
      BY DEF ActiveIsSubscribed
    <2>1. PICK n \in DOMAIN event_cb : event_cb[n].sub = s /\ event_cb[n].cmd = c
      BY DEF SubscribedInv, Subscribed, SweepStates
    <2>2. event_cb[n] \in [sub : Events, cmd : Cmds]
      <3>1. event_cb \in Seq(CbInfo)
        BY DEF TypeInv, TypeOK
      <3>2. event_cb[n] \in CbInfo
        BY <3>1
      <3> QED
        BY <3>2 DEF CbInfo
    <2>3. event_cb[n] = [sub |-> s, cmd |-> c]
      BY <2>1, <2>2
    <2> QED
      BY <2>3
  <1>4. Spec => []TypeInv
    BY TypeCorrect DEF TypeInv
  <1> QED
    BY <1>1, <1>2, <1>3, <1>4, LiveAlways, PTL DEF Spec

-----------------------------------------------------------------------------
(* The promises of HalRequests.                                             *)

(* A running request is in the table of commands, so that the call that     *)
(* stops it finds it.                                                       *)
RunningHeld == apc \notin SweepStates => \A c \in active : TableHolds(c)

(* A request that is being given up is no longer held to be running; what   *)
(* an RTT completion takes out of the table is its own command.             *)
GivenUp ==
    /\ apc = "release" => acmd \notin active
    /\ lpc \in {"rttDrop", "rttRelease"} => lcmd \notin active
    /\ lpc = "rttRelease" => lrel = lcmd

PromiseInv == RunningHeld /\ GivenUp

(* No step takes a running request out of the table.                        *)
LEMMA PromiseStep ==
    ASSUME Exclusive, SweepSafe, TypeInv, LiveInv, PromiseInv, [Next]_vars
    PROVE  PromiseInv'
  <1> USE DEF tables, flags, heap, looper, socks, driver
  <1>0. /\ SweepAlone /\ RefsInv /\ HandlerInv
        /\ active \subseteq DOMAIN objs /\ DOMAIN objs \subseteq Cmds
    BY Shapes DEF LiveInv, TypeInv, PointersBorn
  (* Steps that leave the table of commands and the event thread alone.     *)
  <1>1. ASSUME UNCHANGED <<cmd, looper>>, active' \subseteq active,
               apc' \notin SweepStates => apc \notin SweepStates /\ UNCHANGED bad_commands,
               apc' = "release" => acmd' \notin active'
        PROVE  PromiseInv'
    BY <1>1 DEF PromiseInv, RunningHeld, GivenUp, TableHolds
  (* Steps of the event thread that leave the tables and the requests.      *)
  <1>2. ASSUME UNCHANGED <<cmd, caller, active>>, lpc' \notin {"rttDrop", "rttRelease"}
        PROVE  PromiseInv'
    BY <1>2 DEF PromiseInv, RunningHeld, GivenUp, TableHolds, caller
  <1>3. ASSUME NEW k \in Classes, NEW i \in Ids, Start(k, i) PROVE PromiseInv'
    <2> DEFINE c == Len(objs) + 1
    <2> DEFINE e == [id |-> i, cmd |-> c]
    <2>1. /\ apc = "idle" /\ UNCHANGED <<bad_commands, looper>> /\ bad_commands = 0
      BY <1>0, <1>3 DEF Start, Calls, SweepAlone, SweepStates
    <2>2. CASE UNCHANGED <<cmd, apc, acmd, active>>
      BY <1>1, <2>1, <2>2
    <2>3. CASE cmd' = Append(cmd, e) /\ apc' = "start" /\ active' = active \cup {c}
      <3>1. cmd \in Seq(CmdInfo) /\ Len(cmd) \in Nat
        BY DEF TypeInv, TypeOK
      <3>2. e.cmd = c
        OBVIOUS
      <3>3. c \notin DOMAIN objs
        BY DEF TypeInv, TypeOK
      <3> HIDE DEF c, e
      <3>4. /\ DOMAIN cmd' = DOMAIN cmd \cup {Len(cmd) + 1}
            /\ \A n \in DOMAIN cmd : cmd'[n] = cmd[n]
            /\ cmd'[Len(cmd) + 1] = e /\ Len(cmd) + 1 > 0
        BY <2>3, <3>1
      <3>5. RunningHeld'
        BY <2>1, <2>3, <3>2, <3>4 DEF PromiseInv, RunningHeld, TableHolds, SweepStates
      <3>6. lpc \in {"rttDrop", "rttRelease"} => lcmd # c
        BY <3>3 DEF TypeInv, PointersBorn
      <3> QED
        BY <2>1, <2>3, <3>5, <3>6 DEF PromiseInv, GivenUp
    <2> QED
      BY <1>3, <2>2, <2>3 DEF Start, wifi_register_cmd
  <1>4. ASSUME NEW c \in Cmds, wifi_cancel_cmd(c) PROVE PromiseInv'
    <2>1. /\ apc = "idle" /\ bad_commands = 0 /\ UNCHANGED <<bad_commands, looper, objs>>
          /\ c \in active /\ active' = active \ {c} /\ apc' # "release"
      BY <1>0, <1>4 DEF wifi_cancel_cmd, Calls, SweepAlone, SweepStates
    <2>2. PICK x : wifi_unregister_cmd(objs[c].id, x)
      BY <1>4 DEF wifi_cancel_cmd
    <2>3. x = NoCmd \/ x = c
      BY <1>0, <2>1, <2>2, TakesOne DEF RefsInv, IdsDistinct
    <2>4. \A d \in active' : TableHolds(d)'
      BY <1>0, <2>1, <2>2, <2>3, TakesOne, Shapes
         DEF RefsInv, PromiseInv, RunningHeld, SweepStates
    <2> QED
      BY <2>1, <2>4 DEF PromiseInv, RunningHeld, GivenUp
  <1>5. CASE StartUndone
    <2>1. /\ apc = "unwind" /\ apc' = "release" /\ bad_commands = 0
          /\ UNCHANGED <<bad_commands, looper, objs, acmd, active>>
          /\ acmd \notin active /\ acmd \in DOMAIN objs
      BY <1>0, <1>5 DEF StartUndone, SweepAlone, SweepStates, HandlerInv, CallFrame,
                        TypeInv, PointersBorn
    <2>2. PICK x : wifi_unregister_cmd(objs[acmd].id, x)
      BY <1>5 DEF StartUndone
    <2>3. x = NoCmd \/ x = acmd
      BY <1>0, <2>1, <2>2, TakesOne DEF RefsInv, IdsDistinct
    <2>4. \A d \in active' : TableHolds(d)'
      BY <1>0, <2>1, <2>2, <2>3, TakesOne, Shapes
         DEF RefsInv, PromiseInv, RunningHeld, SweepStates
    <2> QED
      BY <2>1, <2>4 DEF PromiseInv, RunningHeld, GivenUp
  <1>6. CASE RttCallback
    <2>1. lcmd \notin active' /\ active' \subseteq active /\ lpc' = "rttDrop"
      BY <1>6 DEF RttCallback
    <2>2. UNCHANGED <<cmd, caller, lcmd>>
      BY <1>6 DEF RttCallback
    <2> QED
      BY <2>1, <2>2 DEF PromiseInv, RunningHeld, GivenUp, TableHolds, caller
  <1>7. CASE RttDropsCommand
    <2>1. /\ lpc = "rttDrop" /\ apc \notin SweepStates /\ bad_commands = 0
          /\ UNCHANGED <<caller, objs, active, lcmd>>
          /\ lcmd \notin active /\ lcmd \in DOMAIN objs
      BY <1>0, <1>7, RttAlone
      DEF RttDropsCommand, RefsInv, PromiseInv, GivenUp, TypeInv, PointersBorn
    <2>2. PICK x : /\ wifi_unregister_cmd(objs[lcmd].id, x) /\ lrel' = x
                   /\ lpc' = IF x = NoCmd THEN "release" ELSE "rttRelease"
      BY <1>7 DEF RttDropsCommand
    <2>3. UNCHANGED bad_commands
      BY <2>1 DEF caller
    <2>4. x = NoCmd \/ x = lcmd
      BY <1>0, <2>1, <2>2, <2>3, TakesOne DEF RefsInv, IdsDistinct
    <2>5. \A d \in active' : TableHolds(d)'
      BY <1>0, <2>1, <2>2, <2>3, <2>4, TakesOne, Shapes
         DEF RefsInv, PromiseInv, RunningHeld
    <2> QED
      BY <2>1, <2>2, <2>4, <2>5 DEF PromiseInv, RunningHeld, GivenUp, caller
  <1>8. CASE CancelReturns
    BY <1>0, <1>1, <1>8 DEF CancelReturns, HandlerInv, CallFrame, SweepStates
  <1>9. CASE \/ \E c \in Cmds : wifi_rtt_range_cancel(c)
             \/ \E k \in Classes : Flush(k)
             \/ CleanupSendsExit \/ CleanupCannotWrite
    BY <1>1, <1>9 DEF wifi_rtt_range_cancel, Flush, CleanupSendsExit, CleanupCannotWrite,
       Calls, SweepStates
  <1>10. CASE StartGoesOn \/ StartFails \/ StartRegisters \/ StartReturns
    BY <1>1, <1>10 DEF StartGoesOn, StartFails, StartRegisters, StartReturns, Runs, SweepStates
  <1>11. CASE CancelRequests \/ Unregisters \/ Releases
    BY <1>1, <1>11 DEF CancelRequests, Unregisters, Releases, Runs, SweepStates
  <1>12. CASE CleanupReadsDone \/ SweepNext \/ SweepReleases \/ CleanedUp
    BY <1>1, <1>12 DEF CleanupReadsDone, SweepNext, SweepReleases, CleanedUp, SweepStates
  <1>13. CASE LoopEnters \/ LoopDispatches \/ LoopPollError \/ LoopExits
    BY <1>2, <1>13 DEF LoopEnters, LoopDispatches, LoopPollError, LoopExits, Again
  <1>14. CASE LoopHandlesEvent \/ RttReleasesCommand \/ LoopReleases \/ LoopHangsUp
    BY <1>2, <1>14 DEF LoopHandlesEvent, RttReleasesCommand, LoopReleases, LoopHangsUp, Again
  <1>15. CASE (\E s \in Subs, complete \in BOOLEAN : DriverEmits(s, complete)) \/ UNCHANGED vars
    <2>1. UNCHANGED <<cmd, caller, active, looper>>
      BY <1>15 DEF DriverEmits, vars
    <2> QED
      BY <2>1 DEF PromiseInv, RunningHeld, GivenUp, TableHolds, caller
  <1>16. CASE ClientCalls
    BY <1>3, <1>4, <1>9, <1>16 DEF ClientCalls
  <1>17. CASE CallGoesOn
    BY <1>5, <1>8, <1>10, <1>11, <1>12, <1>17 DEF CallGoesOn
  <1>18. CASE LoopGoesOn
    BY <1>6, <1>7, <1>13, <1>14, <1>18 DEF LoopGoesOn
  <1> QED
    BY <1>14, <1>15, <1>16, <1>17, <1>18 DEF Next, Finished

(* Whether the client is in a call.                                         *)
InCall == apc \notin {"idle", "finished"}

(* A step that changes no phase and no callback is not seen by HalRequests. *)
LEMMA MapsToStutter ==
    ASSUME \A c \in Cmds : PhaseOf(c)' = PhaseOf(c), lcmd' = lcmd, InCall' = InCall
    PROVE  UNCHANGED Client!vars
  BY DEF Client!vars, InCall

(* A step that takes one request from a phase to another.                   *)
LEMMA MapsToMove ==
    ASSUME NEW r \in Cmds, NEW from, NEW to, PhaseOf(r) = from, PhaseOf(r)' = to,
           \A c \in Cmds \ {r} : PhaseOf(c)' = PhaseOf(c)
    PROVE  Client!Moves(r, from, to)
  BY DEF Client!Moves

(* A step that closes some requests, with or without handlers left.         *)
LEMMA MapsToClose ==
    ASSUME NEW S \in SUBSET Cmds,
           \A c \in S : PhaseOf(c) = "open" /\ PhaseOf(c)' \in {"closing", "closed"},
           \A c \in Cmds \ S : PhaseOf(c)' = PhaseOf(c)
    PROVE  Client!Close(S)
  <1> DEFINE left == {c \in S : PhaseOf(c)' = "closing"}
  <1>1. left \in SUBSET S
    OBVIOUS
  <1>2. \A c \in Cmds : PhaseOf(c)' = IF c \in left THEN "closing"
                                     ELSE IF c \in S THEN "closed" ELSE PhaseOf(c)
    OBVIOUS
  <1> HIDE DEF left
  <1> QED
    BY <1>1, <1>2 DEF Client!Close

(* Requests that stop being held to be running, or that wifi_cleanup starts *)
(* to sweep, are closed.                                                    *)
LEMMA StopsClose ==
    ASSUME UNCHANGED <<objs, freed, event_cb>>, active' \subseteq active, Sweeping => Sweeping'
    PROVE  Client!Close({c \in Cmds : PhaseOf(c) = "open" /\ ~(c \in active' /\ ~Sweeping')})
  <1> DEFINE S == {c \in Cmds : PhaseOf(c) = "open" /\ ~(c \in active' /\ ~Sweeping')}
  <1>1. \A c \in S : PhaseOf(c) = "open" /\ PhaseOf(c)' \in {"closing", "closed"}
    BY DEF PhaseOf
  <1>2. \A c \in Cmds \ S : PhaseOf(c)' = PhaseOf(c)
    <2> SUFFICES ASSUME NEW c \in Cmds, PhaseOf(c) # "open" \/ (c \in active' /\ ~Sweeping')
                 PROVE  PhaseOf(c)' = PhaseOf(c)
      OBVIOUS
    <2>1. HasHandler(c)' <=> HasHandler(c)
      BY DEF HasHandler
    <2> QED
      BY <2>1 DEF PhaseOf
  <1>3. S \in SUBSET Cmds
    OBVIOUS
  <1> HIDE DEF S
  <1>4. Client!Close(S)
    BY <1>1, <1>2, <1>3, MapsToClose
  <1> QED
    BY <1>4 DEF S

(* An unregister of a handler is not seen, or closes its request for good.  *)
LEMMA HandlerLeaves ==
    ASSUME TypeInv, HandlersApart, NEW s, wifi_unregister_vendor_handler(s),
           UNCHANGED <<objs, freed, active, apc>>
    PROVE  \/ \A c \in Cmds : PhaseOf(c)' = PhaseOf(c)
           \/ \E r \in Cmds : Client!Moves(r, "closing", "closed")
  <1>1. ASSUME NEW c \in Cmds, HasHandler(c)' <=> HasHandler(c)
        PROVE  PhaseOf(c)' = PhaseOf(c)
    BY <1>1 DEF PhaseOf, Sweeping
  <1>2. CASE UNCHANGED event_cb
    BY <1>1, <1>2 DEF HasHandler
  <1>3. ASSUME NEW n \in DOMAIN event_cb, event_cb[n].sub = s
        PROVE  \/ \A c \in Cmds : PhaseOf(c)' = PhaseOf(c)
               \/ \E r \in Cmds : Client!Moves(r, "closing", "closed")
    <2>1. PICK r \in Cmds : r = event_cb[n].cmd
      BY Shapes DEF TypeInv, PointersBorn
    <2>2. \A c \in Cmds \ {r} : HasHandler(c)' <=> HasHandler(c)
      <3> SUFFICES ASSUME NEW c \in Cmds, c # r PROVE HasHandler(c)' <=> HasHandler(c)
        OBVIOUS
      <3>1. HasHandler(c)' => HasHandler(c)
        BY HandlersKept DEF HasHandler
      <3>2. ASSUME HasHandler(c) PROVE HasHandler(c)'
        <4>1. PICK m \in DOMAIN event_cb : event_cb[m].cmd = c
          BY <3>2 DEF HasHandler
        <4>2. event_cb[m].sub # s
          BY <1>3, <2>1, <4>1 DEF HandlersApart
        <4>3. PICK t : t = event_cb[m].sub
          OBVIOUS
        <4>4. Subscribed(t, c)
          BY <4>1, <4>3 DEF Subscribed
        <4>5. Subscribed(t, c)'
          BY <4>2, <4>3, <4>4, OthersStay
        <4> QED
          BY <4>5 DEF Subscribed, HasHandler
      <3> QED
        BY <3>1, <3>2
    <2>3. \A c \in Cmds \ {r} : PhaseOf(c)' = PhaseOf(c)
      BY <1>1, <2>2
    <2>4. \/ PhaseOf(r)' = PhaseOf(r)
          \/ PhaseOf(r) = "closing" /\ PhaseOf(r)' = "closed"
      <3>1. HasHandler(r)
        BY <1>3, <2>1 DEF HasHandler
      <3> QED
        BY <3>1 DEF PhaseOf, Sweeping
    <2> QED
      BY <2>3, <2>4, MapsToMove
  <1> QED
    BY <1>2, <1>3 DEF wifi_unregister_vendor_handler, FoundHandler

(* A releaseRef is not seen, or deletes a closed request.                   *)
LEMMA ReleaseMaps ==
    ASSUME TypeInv, FreedExact, NEW c \in DOMAIN objs, releaseRef(c),
           UNCHANGED <<event_cb, active>>, Sweeping' <=> Sweeping,
           refs[c] = 1 => ~HasHandler(c) /\ ~(c \in active /\ ~Sweeping)
    PROVE  \/ \A d \in Cmds : PhaseOf(d)' = PhaseOf(d)
           \/ refs[c] = 1 /\ Client!Moves(c, "closed", "deleted")
  <1>1. /\ UNCHANGED objs
        /\ freed' = IF refs[c] = 1 THEN freed \cup {c} ELSE freed
        /\ c \in Cmds
    BY Shapes DEF releaseRef
  <1>2. \A d \in Cmds : HasHandler(d)' <=> HasHandler(d)
    BY DEF HasHandler
  <1>3. ASSUME NEW d \in Cmds, d \in freed' <=> d \in freed
        PROVE  PhaseOf(d)' = PhaseOf(d)
    BY <1>1, <1>2, <1>3 DEF PhaseOf
  <1>4. CASE refs[c] # 1
    BY <1>1, <1>3, <1>4
  <1>5. CASE refs[c] = 1
    <2>1. c \notin freed
      BY <1>5 DEF FreedExact
    <2>2. PhaseOf(c) = "closed" /\ PhaseOf(c)' = "deleted"
      BY <1>1, <1>5, <2>1 DEF PhaseOf
    <2>3. \A d \in Cmds \ {c} : PhaseOf(d)' = PhaseOf(d)
      BY <1>1, <1>3
    <2> QED
      BY <1>1, <1>5, <2>2, <2>3, MapsToMove
  <1> QED
    BY <1>4, <1>5

(* When a call that has nothing left to unregister returns, nothing is      *)
(* closing.                                                                 *)
LEMMA NothingCloses ==
    ASSUME HandlerInv, script = <<>>, apc \in {"start", "flush", "release"}
    PROVE  \A c \in Cmds : PhaseOf(c) # "closing"
  <1>1. \A s : ~ToGo(s)
    BY DEF ToGo
  <1>2. \A n \in DOMAIN event_cb : event_cb[n].cmd \in active
    BY <1>1 DEF HandlerInv, HandlersExpected, Expected, SweepStates
  <1> QED
    BY <1>2 DEF PhaseOf, HasHandler, Sweeping

(* A new request is opened, or refused.                                     *)
LEMMA StartMaps ==
    ASSUME TypeInv, LiveInv, NEW k \in Classes, NEW i \in Ids, Start(k, i)
    PROVE  Client!Next
  <1>0. PICK c : c = Len(objs) + 1
    OBVIOUS
  <1> DEFINE o == [class |-> k, id |-> i]
  <1>1. /\ c \in Cmds /\ objs' = Append(objs, o) /\ apc = "idle"
        /\ UNCHANGED <<event_cb, lcmd>>
    BY <1>0 DEF Start, Calls, looper
  <1>2. objs \in Seq(Object) /\ Len(objs) \in Nat /\ c \notin DOMAIN objs
    BY <1>0 DEF TypeInv, TypeOK
  <1>3. DOMAIN objs' = DOMAIN objs \cup {c}
    BY <1>0, <1>1, <1>2
  <1>4. c \notin freed
    BY <1>2 DEF LiveInv, FreedExact
  <1>5. \A d : HasHandler(d)' <=> HasHandler(d)
    BY <1>1 DEF HasHandler
  <1>6. PhaseOf(c) = "new"
    BY <1>2 DEF PhaseOf
  <1> HIDE DEF o
  <1>7. CASE apc' = "start" /\ active' = active \cup {c} /\ UNCHANGED freed
    <2>1. PhaseOf(c)' = "open"
      BY <1>3, <1>4, <1>7 DEF PhaseOf, Sweeping
    <2>2. \A d \in Cmds \ {c} : PhaseOf(d)' = PhaseOf(d)
      BY <1>1, <1>3, <1>5, <1>7 DEF PhaseOf, Sweeping
    <2>3. Client!Moves(c, "new", "open")
      BY <1>1, <1>6, <2>1, <2>2, MapsToMove
    <2> QED
      BY <1>1, <1>7, <2>3 DEF Client!Next, Client!Call
  <1>8. CASE freed' = freed \cup {c} /\ UNCHANGED <<apc, active>>
    <2>1. PhaseOf(c)' = "deleted"
      BY <1>3, <1>8 DEF PhaseOf
    <2>2. \A d \in Cmds \ {c} : PhaseOf(d)' = PhaseOf(d)
      BY <1>3, <1>5, <1>8 DEF PhaseOf, Sweeping
    <2>3. Client!Moves(c, "new", "deleted")
      BY <1>1, <1>6, <2>1, <2>2, MapsToMove
    <2> QED
      BY <1>1, <1>8, <2>3 DEF Client!Next, Client!Refuse
  <1> QED
    BY <1>0, <1>7, <1>8 DEF Start

(* The calls that stop requests, and wifi_cleanup, are calls that close     *)
(* what they stop.                                                          *)
LEMMA StopMaps ==
    ASSUME Exclusive, TypeInv, LiveInv, PromiseInv,
           \/ \E c \in Cmds : wifi_cancel_cmd(c) \/ wifi_rtt_range_cancel(c)
           \/ \E k \in Classes : Flush(k)
           \/ CleanupSendsExit
    PROVE  Client!Next
  <1> DEFINE S == {c \in Cmds : PhaseOf(c) = "open" /\ ~(c \in active' /\ ~Sweeping')}
  <1>1. /\ apc = "idle" /\ UNCHANGED <<objs, freed, event_cb, lcmd>> /\ active' \subseteq active
    BY DEF wifi_cancel_cmd, wifi_rtt_range_cancel, Flush, CleanupSendsExit, Calls,
           tables, heap, looper
  <1>2. apc' \in {"cancel", "flush", "wait"}
    <2>1. ASSUME NEW c \in Cmds, wifi_cancel_cmd(c) PROVE apc' = "cancel"
      <3>1. /\ c \in active /\ bad_commands = 0 /\ UNCHANGED <<objs, bad_commands>>
            /\ c \in DOMAIN objs
        BY <1>1, <2>1 DEF wifi_cancel_cmd, LiveInv, SweepAlone, SweepStates, heap
      <3>2. PICK x : /\ wifi_unregister_cmd(objs[c].id, x)
                     /\ x # NoCmd => apc' = "cancel"
        BY <2>1 DEF wifi_cancel_cmd
      <3>3. PICK n \in DOMAIN cmd : cmd[n].cmd = c
        BY <1>1, <3>1 DEF PromiseInv, RunningHeld, TableHolds, SweepStates
      <3>4. cmd[n].id = objs[c].id
        BY <3>3 DEF LiveInv, RefsInv, EntriesOwn
      <3>5. x # NoCmd
        BY <3>1, <3>2, <3>4, TakesOne DEF LiveInv, RefsInv
      <3> QED
        BY <3>2, <3>5
    <2> QED
      BY <2>1 DEF wifi_rtt_range_cancel, Flush, CleanupSendsExit
  <1>3. Client!Close(S)
    BY <1>1, StopsClose DEF Sweeping
  <1>4. S \in SUBSET Cmds
    OBVIOUS
  <1> HIDE DEF S
  <1> QED
    BY <1>1, <1>2, <1>3, <1>4 DEF Client!Next, Client!Call

(* The steps of start().                                                    *)
LEMMA StartStepsMap ==
    ASSUME TypeInv, LiveInv,
           StartGoesOn \/ StartFails \/ StartRegisters \/ StartReturns \/ StartUndone
    PROVE  Client!Next \/ UNCHANGED Client!vars
  <1> USE DEF tables, flags, heap, looper, socks, driver
  <1>1. CASE StartGoesOn \/ StartUndone
    <2>1. /\ UNCHANGED <<objs, freed, event_cb, active, lcmd>>
          /\ apc \in {"start", "unwind"} /\ apc' \in {"start", "release"}
      BY <1>1 DEF StartGoesOn, StartUndone, Runs
    <2>2. \A c \in Cmds : PhaseOf(c)' = PhaseOf(c)
      BY <2>1 DEF PhaseOf, HasHandler, Sweeping
    <2> QED
      BY <2>1, <2>2, MapsToStutter DEF InCall
  <1>2. CASE StartFails
    <2> DEFINE S == {c \in Cmds : PhaseOf(c) = "open" /\ ~(c \in active' /\ ~Sweeping')}
    <2>1. /\ UNCHANGED <<objs, freed, event_cb, lcmd>> /\ active' \subseteq active
          /\ apc = "start" /\ apc' = "unwind"
      BY <1>2 DEF StartFails, Runs
    <2>2. Client!Close(S)
      BY <2>1, StopsClose DEF Sweeping
    <2>3. S \in SUBSET Cmds
      OBVIOUS
    <2> HIDE DEF S
    <2> QED
      BY <2>1, <2>2, <2>3 DEF Client!Next, Client!Closes
  <1>3. CASE StartRegisters
    <2>1. /\ UNCHANGED <<objs, freed, active, lcmd, apc>> /\ apc = "start" /\ script # <<>>
      BY <1>3 DEF StartRegisters, Runs
    <2>2. acmd \in active
      BY <2>1 DEF LiveInv, HandlerInv, CallFrame
    <2>3. PICK s : wifi_register_vendor_handler(s, acmd)
      BY <1>3 DEF StartRegisters
    <2>4. \A c : c # acmd => (HasHandler(c)' <=> HasHandler(c))
      <3> DEFINE e == [sub |-> s, cmd |-> acmd]
      <3>1. event_cb \in Seq(CbInfo) /\ Len(event_cb) \in Nat
        BY DEF TypeInv, TypeOK
      <3>2. e.cmd = acmd
        OBVIOUS
      <3>3. event_cb' = event_cb \/ event_cb' = Append(event_cb, e)
        BY <2>3 DEF wifi_register_vendor_handler
      <3> HIDE DEF e
      <3>4. CASE event_cb' = event_cb
        BY <3>4 DEF HasHandler
      <3>5. CASE event_cb' = Append(event_cb, e)
        <4>1. /\ DOMAIN event_cb' = DOMAIN event_cb \cup {Len(event_cb) + 1}
              /\ \A n \in DOMAIN event_cb : event_cb'[n] = event_cb[n]
              /\ event_cb'[Len(event_cb) + 1] = e
          BY <3>1, <3>5
        <4> QED
          BY <3>2, <4>1 DEF HasHandler
      <3> QED
        BY <3>3, <3>4, <3>5
    <2>5. \A c \in Cmds : PhaseOf(c)' = PhaseOf(c)
      BY <2>1, <2>2, <2>4 DEF PhaseOf, Sweeping
    <2> QED
      BY <2>1, <2>5, MapsToStutter DEF InCall
  <1>4. CASE StartReturns
    <2>1. /\ UNCHANGED <<objs, freed, event_cb, active, lcmd>>
          /\ apc = "start" /\ script = <<>> /\ apc' = "idle"
      BY <1>4 DEF StartReturns
    <2>2. \A c \in Cmds : PhaseOf(c)' = PhaseOf(c)
      BY <2>1 DEF PhaseOf, HasHandler, Sweeping
    <2>3. \A c \in Cmds : PhaseOf(c) # "closing"
      BY <2>1, NothingCloses DEF LiveInv
    <2> QED
      BY <2>1, <2>2, <2>3 DEF Client!Next, Client!Return
  <1> QED
    BY <1>1, <1>2, <1>3, <1>4

(* The steps of cancel() and of what follows it.                            *)
LEMMA CancelMaps ==
    ASSUME TypeInv, LiveInv, PromiseInv,
           CancelRequests \/ Unregisters \/ CancelReturns \/ Releases
    PROVE  Client!Next \/ UNCHANGED Client!vars
  <1> USE DEF tables, flags, heap, looper, socks, driver
  <1>0. HandlerInv /\ RefsInv /\ FreedExact
    BY DEF LiveInv
  <1>1. CASE CancelRequests
    <2>1. UNCHANGED <<objs, freed, event_cb, active, lcmd, apc>>
      BY <1>1 DEF CancelRequests
    <2>2. \A c \in Cmds : PhaseOf(c)' = PhaseOf(c)
      BY <2>1 DEF PhaseOf, HasHandler, Sweeping
    <2> QED
      BY <2>1, <2>2, MapsToStutter DEF InCall
  <1>2. CASE Unregisters
    <2>1. UNCHANGED <<objs, freed, active, lcmd, apc>>
      BY <1>2 DEF Unregisters
    <2>2. PICK s : wifi_unregister_vendor_handler(s)
      BY <1>2 DEF Unregisters
    <2>3. CASE \A c \in Cmds : PhaseOf(c)' = PhaseOf(c)
      BY <2>1, <2>3, MapsToStutter DEF InCall
    <2>4. CASE \E r \in Cmds : Client!Moves(r, "closing", "closed")
      BY <2>1, <2>4 DEF Client!Next, Client!Closed
    <2> QED
      BY <1>0, <2>1, <2>2, <2>3, <2>4, HandlerLeaves DEF HandlerInv
  <1>3. CASE CancelReturns
    <2>1. /\ UNCHANGED <<objs, freed, event_cb, active, lcmd>>
          /\ apc \in {"cancel", "flush"} /\ script = <<>>
          /\ apc' = IF apc = "cancel" THEN "release" ELSE "idle"
      BY <1>3 DEF CancelReturns
    <2>2. \A c \in Cmds : PhaseOf(c)' = PhaseOf(c)
      BY <2>1 DEF PhaseOf, HasHandler, Sweeping
    <2>3. CASE apc = "cancel"
      BY <2>1, <2>2, <2>3, MapsToStutter DEF InCall
    <2>4. CASE apc = "flush"
      <3>1. \A c \in Cmds : PhaseOf(c) # "closing"
        BY <1>0, <2>1, <2>4, NothingCloses
      <3> QED
        BY <2>1, <2>2, <2>4, <3>1 DEF Client!Next, Client!Return
    <2> QED
      BY <2>1, <2>3, <2>4
  <1>4. CASE Releases
    <2>1. /\ UNCHANGED <<objs, event_cb, active, lcmd>>
          /\ apc = "release" /\ apc' = "idle" /\ releaseRef(acmd)
          /\ script = <<>> /\ acmd \in DOMAIN objs /\ acmd \notin active
      BY <1>0, <1>4 DEF Releases, releaseRef, HandlerInv, CallFrame, TypeInv, PointersBorn,
                        PromiseInv, GivenUp
    <2>2. \A c \in Cmds : PhaseOf(c) # "closing"
      BY <1>0, <2>1, NothingCloses
    <2>3. ~HasHandler(acmd)
      BY <1>0, <2>1 DEF HasHandler, HandlerInv, HandlersExpected, Expected, SweepStates
    <2>4. PICK c \in Cmds : c = acmd
      BY <2>1, Shapes
    <2>5. refs[c] = 1 => c # lcmd
      <3>1. CallHolds(c)
        BY <2>1, <2>4 DEF CallHolds
      <3>2. refs[c] = One(TableHolds(c)) + One(CallHolds(c)) + One(LoopHolds(c)) + One(RttHolds(c))
        BY <1>0 DEF RefsInv, RefsExact
      <3> QED
        BY <3>1, <3>2 DEF One, LoopHolds
    <2>6. \/ \A d \in Cmds : PhaseOf(d)' = PhaseOf(d)
          \/ refs[c] = 1 /\ Client!Moves(c, "closed", "deleted")
      BY <1>0, <2>1, <2>3, <2>4, ReleaseMaps DEF Sweeping
    <2>7. CASE \A d \in Cmds : PhaseOf(d)' = PhaseOf(d)
      BY <2>1, <2>2, <2>7 DEF Client!Next, Client!Return
    <2>8. CASE refs[c] = 1 /\ Client!Moves(c, "closed", "deleted")
      BY <2>1, <2>2, <2>5, <2>8 DEF Client!Next, Client!Return
    <2> QED
      BY <2>6, <2>7, <2>8
  <1> QED
    BY <1>1, <1>2, <1>3, <1>4

(* wifi_cleanup closes what is left open, and deletes it one by one.        *)
LEMMA SweepMaps ==
    ASSUME TypeInv, LiveInv,
           \/ CleanupCannotWrite \/ CleanupReadsDone
           \/ SweepNext \/ SweepReleases \/ CleanedUp
    PROVE  Client!Next \/ UNCHANGED Client!vars
  <1> USE DEF tables, flags, heap, looper, socks, driver
  <1>0. HandlerInv /\ RefsInv /\ FreedExact /\ SweepAlone
    BY DEF LiveInv
  <1>1. CASE CleanupCannotWrite \/ CleanupReadsDone
    <2> DEFINE S == {c \in Cmds : PhaseOf(c) = "open" /\ ~(c \in active' /\ ~Sweeping')}
    <2>1. /\ UNCHANGED <<objs, freed, event_cb, lcmd, active>>
          /\ apc \in {"idle", "wait"} /\ apc' = "sweep"
      BY <1>1 DEF CleanupCannotWrite, CleanupReadsDone, Calls
    <2>2. Client!Close(S)
      BY <2>1, StopsClose DEF Sweeping
    <2>3. S \in SUBSET Cmds
      OBVIOUS
    <2> HIDE DEF S
    <2> QED
      BY <2>1, <2>2, <2>3 DEF Client!Next, Client!Call, Client!Closes
  <1>2. CASE SweepNext
    <2>1. /\ UNCHANGED <<objs, freed, event_cb, active, lcmd>>
          /\ apc = "sweep" /\ apc' = "sweepCancel"
      BY <1>2 DEF SweepNext
    <2>2. \A c \in Cmds : PhaseOf(c)' = PhaseOf(c)
      BY <2>1 DEF PhaseOf, HasHandler, Sweeping
    <2> QED
      BY <2>1, <2>2, MapsToStutter DEF InCall
  <1>3. CASE SweepReleases
    <2>1. /\ UNCHANGED <<objs, event_cb, active, lcmd>>
          /\ apc = "sweepCancel" /\ apc' = "sweep" /\ releaseRef(acmd)
          /\ script = <<>> /\ acmd \in DOMAIN objs
      BY <1>3 DEF SweepReleases, releaseRef, TypeInv, PointersBorn
    <2>2. ~HasHandler(acmd)
      BY <1>0, <2>1 DEF HasHandler, HandlerInv, HandlersExpected, Expected, SweepStates, ToGo
    <2>3. PICK c \in Cmds : c = acmd
      BY <2>1, Shapes
    <2>4. refs[c] = 1 => c # lcmd
      <3>1. TableHolds(c)
        BY <1>0, <2>1, <2>3 DEF RefsInv, SweepFrame, TableHolds, TypeInv, TypeOK
      <3>2. refs[c] = One(TableHolds(c)) + One(CallHolds(c)) + One(LoopHolds(c)) + One(RttHolds(c))
        BY <1>0 DEF RefsInv, RefsExact
      <3>3. c = lcmd => LoopHolds(c)
        BY DEF LoopHolds
      <3> QED
        BY <3>1, <3>2, <3>3 DEF One
    <2>5. \/ \A d \in Cmds : PhaseOf(d)' = PhaseOf(d)
          \/ refs[c] = 1 /\ Client!Moves(c, "closed", "deleted")
      BY <1>0, <2>1, <2>2, <2>3, ReleaseMaps DEF Sweeping
    <2>6. CASE \A d \in Cmds : PhaseOf(d)' = PhaseOf(d)
      BY <2>1, <2>6, MapsToStutter DEF InCall
    <2>7. CASE refs[c] = 1 /\ Client!Moves(c, "closed", "deleted")
      BY <2>1, <2>4, <2>7 DEF Client!Next, Client!Delete
    <2> QED
      BY <2>5, <2>6, <2>7
  <1>4. CASE CleanedUp
    <2>1. /\ UNCHANGED <<objs, freed, event_cb, active, lcmd>>
          /\ apc = "sweep" /\ apc' = "finished" /\ Len(cmd) <= bad_commands
      BY <1>4 DEF CleanedUp
    <2>2. \A c \in Cmds : PhaseOf(c)' = PhaseOf(c)
      BY <2>1 DEF PhaseOf, HasHandler, Sweeping
    <2>3. \A c : ~TableHolds(c)
      BY <2>1, Shapes DEF TableHolds, TypeInv, TypeOK
    <2>4. \A c \in Cmds : PhaseOf(c) # "closing"
      BY <1>0, <2>1, <2>3 DEF PhaseOf, HasHandler, HandlerInv, HandlersHeld
    <2> QED
      BY <2>1, <2>2, <2>4 DEF Client!Next, Client!Return
  <1> QED
    BY <1>1, <1>2, <1>3, <1>4

(* The event thread: callbacks begin for requests that are open or closing  *)
(* and end, the last one of an RTT request closes it, and the reference     *)
(* that was taken for a callback may be the last.                           *)
LEMMA LoopMaps ==
    ASSUME TypeInv, LiveInv, PromiseInv,
           \/ LoopGoesOn \/ LoopHangsUp
           \/ \E s \in Subs, complete \in BOOLEAN : DriverEmits(s, complete)
    PROVE  Client!Next \/ UNCHANGED Client!vars
  <1> USE DEF tables, flags, heap, caller, looper, socks, driver
  <1>0. HandlerInv /\ RefsInv /\ FreedExact /\ SweepAlone
    BY DEF LiveInv
  (* Steps that leave the requests and the callback.                        *)
  <1>1. ASSUME UNCHANGED <<objs, freed, event_cb, active, lcmd, apc>>
        PROVE  UNCHANGED Client!vars
    <2>1. \A c \in Cmds : PhaseOf(c)' = PhaseOf(c)
      BY <1>1 DEF PhaseOf, HasHandler, Sweeping
    <2> QED
      BY <1>1, <2>1, MapsToStutter DEF InCall
  <1>2. CASE \/ LoopEnters \/ LoopPollError \/ LoopExits \/ LoopHangsUp \/ RttDropsCommand
             \/ \E s \in Subs, complete \in BOOLEAN : DriverEmits(s, complete)
    BY <1>1, <1>2
    DEF LoopEnters, LoopPollError, LoopExits, LoopHangsUp, RttDropsCommand, DriverEmits
  <1>3. CASE LoopDispatches
    <2>1. lpc = "poll" /\ lcmd = NoCmd /\ UNCHANGED <<objs, freed, event_cb, active, apc>>
      BY <1>0, <1>3 DEF LoopDispatches, RefsInv, LoopFrame
    <2>2. ASSUME NEW n \in DOMAIN event_cb, lcmd' = event_cb[n].cmd PROVE Client!Next
      <3>1. PICK c \in Cmds : c = event_cb[n].cmd /\ c \in DOMAIN objs
        BY Shapes DEF TypeInv, PointersBorn
      <3>2. HasHandler(c)
        BY <3>1 DEF HasHandler
      <3>3. c \notin freed
        <4>1. TableHolds(c) \/ CallHolds(c)
          BY <1>0, <3>1 DEF HandlerInv, HandlersHeld, CallHolds
        <4>2. refs[c] >= 1
          BY <1>0, <4>1, HeldCounted DEF RefsInv
        <4> QED
          BY <1>0, <4>2 DEF FreedExact
      <3>4. PhaseOf(c) \in {"open", "closing"}
        BY <3>1, <3>2, <3>3 DEF PhaseOf
      <3>5. \A d \in Cmds : PhaseOf(d)' = PhaseOf(d)
        BY <2>1 DEF PhaseOf, HasHandler, Sweeping
      <3> QED
        BY <2>1, <2>2, <3>1, <3>4, <3>5 DEF Client!Next, Client!CallbackBegins
    <2>3. CASE UNCHANGED lcmd
      BY <1>1, <2>1, <2>3
    <2> QED
      BY <1>3, <2>2, <2>3 DEF LoopDispatches
  <1>4. CASE LoopHandlesEvent
    <2>1. UNCHANGED <<objs, freed, active, lcmd, apc>>
      BY <1>4 DEF LoopHandlesEvent
    <2>2. CASE UNCHANGED event_cb
      BY <1>1, <2>1, <2>2
    <2>3. CASE wifi_unregister_vendor_handler("RTT_EVENT_COMPLETE")
      <3>1. CASE \A c \in Cmds : PhaseOf(c)' = PhaseOf(c)
        BY <2>1, <3>1, MapsToStutter DEF InCall
      <3>2. CASE \E r \in Cmds : Client!Moves(r, "closing", "closed")
        BY <2>1, <3>2 DEF Client!Next, Client!Closed
      <3> QED
        BY <1>0, <2>1, <2>3, <3>1, <3>2, HandlerLeaves DEF HandlerInv
    <2> QED
      BY <1>4, <2>2, <2>3 DEF LoopHandlesEvent
  <1>5. CASE RttCallback
    <2>1. /\ UNCHANGED <<objs, freed, event_cb, lcmd, apc>> /\ lcmd \in DOMAIN objs
          /\ active' = {c \in active : objs[c].id # objs[lcmd].id}
      BY <1>5 DEF RttCallback, TypeInv, PointersBorn
    <2>2. active' = active \ {lcmd}
      <3>1. active \subseteq DOMAIN objs
        BY DEF TypeInv, PointersBorn
      <3> QED
        BY <1>0, <2>1, <3>1 DEF RefsInv, IdsDistinct
    <2>3. CASE PhaseOf(lcmd) = "open"
      <3> DEFINE S == {c \in Cmds : PhaseOf(c) = "open" /\ ~(c \in active' /\ ~Sweeping')}
      <3>1. Client!Close(S)
        BY <2>1, <2>2, StopsClose DEF Sweeping
      <3>2. S = {lcmd}
        <4>1. \A c \in Cmds : PhaseOf(c) = "open" => c \in active /\ ~Sweeping
          BY DEF PhaseOf
        <4>2. ~Sweeping => ~Sweeping'
          BY <2>1 DEF Sweeping
        <4>3. lcmd \in Cmds
          BY <2>1, Shapes
        <4> QED
          BY <2>2, <2>3, <4>1, <4>2, <4>3
      <3>3. S \in SUBSET Cmds
        OBVIOUS
      <3> HIDE DEF S
      <3> QED
        BY <2>1, <3>1, <3>2, <3>3 DEF Client!Next, Client!Closes
    <2>4. CASE PhaseOf(lcmd) # "open"
      <3>1. ASSUME NEW c \in Cmds PROVE PhaseOf(c)' = PhaseOf(c)
        <4>1. HasHandler(c)' <=> HasHandler(c)
          BY <2>1 DEF HasHandler
        <4>2. CASE c = lcmd
          BY <2>1, <2>2, <2>4, <4>1, <4>2 DEF PhaseOf, Sweeping
        <4>3. CASE c # lcmd
          BY <2>1, <2>2, <4>1, <4>3 DEF PhaseOf, Sweeping
        <4> QED
          BY <4>2, <4>3
      <3> QED
        BY <2>1, <3>1, MapsToStutter DEF InCall
    <2> QED
      BY <2>3, <2>4
  <1>6. CASE RttReleasesCommand
    <2>1. /\ UNCHANGED <<objs, event_cb, active, lcmd, apc>>
          /\ releaseRef(lrel) /\ lrel = lcmd /\ lrel \in DOMAIN objs
      BY <1>6 DEF RttReleasesCommand, releaseRef, TypeInv, PointersBorn, PromiseInv, GivenUp
    <2>2. PICK c \in Cmds : c = lrel
      BY <2>1, Shapes
    <2>3. refs[c] # 1
      <3>1. LoopHolds(c) /\ RttHolds(c)
        BY <2>1, <2>2 DEF LoopHolds, RttHolds
      <3>2. refs[c] = One(TableHolds(c)) + One(CallHolds(c)) + One(LoopHolds(c)) + One(RttHolds(c))
        BY <1>0 DEF RefsInv, RefsExact
      <3> QED
        BY <3>1, <3>2 DEF One
    <2>4. UNCHANGED freed
      BY <2>1, <2>2, <2>3 DEF releaseRef
    <2> QED
      BY <1>1, <2>1, <2>4
  <1>7. CASE LoopReleases
    <2>1. /\ UNCHANGED <<objs, event_cb, active, apc>>
          /\ releaseRef(lcmd) /\ lcmd' = NoCmd /\ lcmd \in DOMAIN objs
      BY <1>0, <1>7 DEF LoopReleases, releaseRef, TypeInv, PointersBorn
    <2>2. PICK c \in Cmds : c = lcmd
      BY <2>1, Shapes
    <2>3. refs[c] = 1 => ~TableHolds(c) /\ ~CallHolds(c)
      <3>1. LoopHolds(c)
        BY <2>2 DEF LoopHolds
      <3>2. refs[c] = One(TableHolds(c)) + One(CallHolds(c)) + One(LoopHolds(c)) + One(RttHolds(c))
        BY <1>0 DEF RefsInv, RefsExact
      <3> QED
        BY <3>1, <3>2 DEF One
    <2>4. refs[c] = 1 => ~HasHandler(c) /\ ~(c \in active /\ ~Sweeping)
      BY <1>0, <2>1, <2>3
         DEF HasHandler, HandlerInv, HandlersHeld, CallHolds, PromiseInv, RunningHeld,
             Sweeping, SweepStates
    <2>5. \/ \A d \in Cmds : PhaseOf(d)' = PhaseOf(d)
          \/ refs[c] = 1 /\ Client!Moves(c, "closed", "deleted")
      BY <1>0, <2>1, <2>2, <2>4, ReleaseMaps DEF Sweeping
    <2>6. lcmd # NoCmd
      BY <2>1, Shapes
    <2>7. CASE \A d \in Cmds : PhaseOf(d)' = PhaseOf(d)
      BY <2>1, <2>6, <2>7 DEF Client!Next, Client!CallbackReturns
    <2>8. CASE Client!Moves(c, "closed", "deleted")
      BY <2>1, <2>2, <2>6, <2>8 DEF Client!Next, Client!CallbackReturns
    <2> QED
      BY <2>5, <2>7, <2>8
  <1> QED
    BY <1>2, <1>3, <1>4, <1>5, <1>6, <1>7 DEF LoopGoesOn

(* WifiHal implements HalRequests, for every set of classes and ids and     *)
(* every size of the tables: tables, reference counts and the two threads   *)
(* keep what the client of the HAL is promised about its requests.          *)
THEOREM HalKeepsPromises ==
    Exclusive /\ FreshIds /\ SweepSafe => (Spec => KeepsPromises)
  <1> SUFFICES ASSUME Exclusive, FreshIds, SweepSafe
               PROVE  Spec => KeepsPromises
    OBVIOUS
  <1>1. Init => PromiseInv /\ Client!Init
    <2> SUFFICES ASSUME Init PROVE PromiseInv /\ Client!Init
      OBVIOUS
    <2>1. PromiseInv
      BY DEF Init, PromiseInv, RunningHeld, GivenUp
    <2>2. \A c \in Cmds : PhaseOf(c) = "new"
      BY DEF Init, PhaseOf
    <2> QED
      BY <2>1, <2>2 DEF Init, Client!Init
  <1>2. TypeInv /\ LiveInv /\ PromiseInv /\ [Next]_vars => PromiseInv'
    BY PromiseStep
  <1>3. TypeInv /\ LiveInv /\ PromiseInv /\ [Next]_vars => [Client!Next]_(Client!vars)
    <2> SUFFICES ASSUME TypeInv, LiveInv, PromiseInv, [Next]_vars
                 PROVE  Client!Next \/ UNCHANGED Client!vars
      OBVIOUS
    <2>1. CASE ClientCalls
      BY <2>1, StartMaps, StopMaps, SweepMaps DEF ClientCalls
    <2>2. CASE CallGoesOn
      BY <2>2, StartStepsMap, CancelMaps, SweepMaps DEF CallGoesOn
    <2>3. CASE LoopGoesOn \/ LoopHangsUp
               \/ \E s \in Subs, complete \in BOOLEAN : DriverEmits(s, complete)
      BY <2>3, LoopMaps
    <2>4. CASE UNCHANGED vars
      <3>1. UNCHANGED <<objs, freed, event_cb, active, lcmd, apc>>
        BY <2>4 DEF vars, tables, heap, caller, looper
      <3>2. \A c \in Cmds : PhaseOf(c)' = PhaseOf(c)
        BY <3>1 DEF PhaseOf, HasHandler, Sweeping
      <3> QED
        BY <3>1, <3>2, MapsToStutter DEF InCall
    <2> QED
      BY <2>1, <2>2, <2>3, <2>4 DEF Next, Finished
  <1>4. Spec => []TypeInv
    BY TypeCorrect DEF TypeInv
  <1> QED
    BY <1>1, <1>2, <1>3, <1>4, LiveAlways, PTL DEF Spec, KeepsPromises, Client!Spec
=============================================================================
