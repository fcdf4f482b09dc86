------------------------------ MODULE WifiHal ------------------------------
(***************************************************************************)
(* The core of the vendor Wi-Fi HAL (wifi_hal/): the table of outstanding  *)
(* commands, the table of event handlers, the reference counts of the      *)
(* command objects, the thread of the framework that calls the API, the    *)
(* thread that runs wifi_event_loop, and the handshake by which            *)
(* wifi_cleanup stops the one and frees what both use.                     *)
(*                                                                         *)
(* A step is what one thread does between two points where the other can   *)
(* interfere: one critical section of cb_lock, one operation on the        *)
(* command table, one request to the driver, one reference count change.   *)
(***************************************************************************)
EXTENDS WifiCommands, Integers, FiniteSets

CONSTANTS
    Classes,        \* the classes of requests the client makes
    Ids,            \* wifi_request_id values the client uses
    MaxCommands,    \* bound: command objects created by the API
    MaxEvents,      \* bound: events the driver emits
    AllocCmd,       \* DEFAULT_CMD_SIZE
    AllocEventCb,   \* DEFAULT_EVENT_CB_SIZE
    Exclusive,      \* the client keeps one request per event at a time
    FreshIds,       \* the client never uses a request id twice
    Faults          \* the failures of sockets that may happen

ASSUME ClassesAssumption == Classes \subseteq AllClasses
ASSUME BoundsAssumption ==
    /\ MaxCommands \in Nat
    /\ MaxEvents \in Nat
    /\ AllocCmd \in Nat
    /\ AllocEventCb \in Nat
ASSUME SwitchesAssumption ==
    /\ Exclusive \in BOOLEAN
    /\ FreshIds \in BOOLEAN
    /\ Faults \subseteq {"overrun", "hup", "write"}

VARIABLES
    cmd,            \* hal_info.cmd[0 .. num_cmd-1]
    event_cb,       \* hal_info.event_cb[0 .. num_event_cb-1]
    clean_up,       \* hal_info.clean_up
    in_event_loop,  \* hal_info.in_event_loop
    info,           \* whether hal_info itself is "live" or "freed"
    objs,           \* the WifiCommand objects created: class and mId
    refs,           \* mRefs
    freed,          \* the objects whose destructor ran
    apc, acmd, script, bad_commands, num_cmd,   \* the thread that calls the API
    lpc, lcmd, levt, lrel,                      \* the thread in wifi_event_loop
    exitMsg, doneMsg,   \* "Exit" and "Done" on their way in cleanup_socks
    evq, emitted,       \* events in event_sock; events emitted so far
    active              \* the commands the client holds to be running

tables == <<cmd, event_cb>>
flags  == <<clean_up, in_event_loop, info>>
heap   == <<objs, refs, freed>>
caller == <<apc, acmd, script, bad_commands, num_cmd>>
looper == <<lpc, lcmd, levt, lrel>>
socks  == <<exitMsg, doneMsg>>
driver == <<evq, emitted>>
vars   == <<tables, flags, heap, caller, looper, socks, driver, active>>

Cmds  == 1..MaxCommands
NoCmd == 0
Subs  == UNION {Subscribes(k) : k \in Classes}

(* An event: its vendor subcommand and, for RTT, whether the results in it *)
(* are the last (RTT_ATTRIBUTE_RESULTS_COMPLETE).                          *)
Event == [sub : Events, complete : BOOLEAN]
NoEvent == [sub |-> "COMPLETE_SCAN", complete |-> FALSE]

Object  == [class : Classes, id : Ids]
CmdInfo == [id : Ids, cmd : Cmds]
CbInfo  == [sub : Events, cmd : Cmds]

CallerStates == {"idle", "start", "unwind", "cancel", "flush", "release",
                 "wait", "sweep", "sweepCancel", "finished"}
LooperStates == {"out", "poll", "callback", "rttCallback", "rttDrop",
                 "rttRelease", "release", "done"}

(* The types, and the sizes of the two allocated tables.                    *)
TypeOK ==
    /\ cmd \in Seq(CmdInfo) /\ Len(cmd) <= AllocCmd
    /\ event_cb \in Seq(CbInfo) /\ Len(event_cb) <= AllocEventCb
    /\ clean_up \in BOOLEAN
    /\ in_event_loop \in BOOLEAN
    /\ info \in {"live", "freed"}
    /\ objs \in Seq(Object)
    /\ refs \in [Cmds -> Int]
    /\ freed \subseteq Cmds
    /\ apc \in CallerStates
    /\ acmd \in Cmds \cup {NoCmd}
    /\ script \in Seq(Ops)
    /\ bad_commands \in Nat
    /\ num_cmd \in Nat
    /\ lpc \in LooperStates
    /\ lcmd \in Cmds \cup {NoCmd}
    /\ levt \in Event
    /\ lrel \in Cmds \cup {NoCmd}
    /\ exitMsg \in BOOLEAN
    /\ doneMsg \in BOOLEAN
    /\ evq \in Seq(Event)
    /\ emitted \in Nat
    /\ active \subseteq Cmds

Init ==
    /\ cmd = <<>>
    /\ event_cb = <<>>
    /\ clean_up = FALSE
    /\ in_event_loop = FALSE
    /\ info = "live"
    /\ objs = <<>>
    /\ refs = [c \in Cmds |-> 0]
    /\ freed = {}
    /\ apc = "idle"
    /\ acmd = NoCmd
    /\ script = <<>>
    /\ bad_commands = 0
    /\ num_cmd = 0
    /\ lpc = "out"
    /\ lcmd = NoCmd
    /\ levt = NoEvent
    /\ lrel = NoCmd
    /\ exitMsg = FALSE
    /\ doneMsg = FALSE
    /\ evq = <<>>
    /\ emitted = 0
    /\ active = {}

-----------------------------------------------------------------------------
(* The two tables (common.cpp).                                             *)

(* What memmove leaves of a table whose entry n is overwritten.             *)
Without(s, n) == [j \in 1..(Len(s) - 1) |-> IF j < n THEN s[j] ELSE s[j + 1]]

(* wifi_register_cmd, where there is room; nothing looks for a used id.     *)
wifi_register_cmd(i, c) == cmd' = Append(cmd, [id |-> i, cmd |-> c])

(* Entry n is the one the search for id i stops at.                         *)
FoundCmd(n, i) ==
    /\ n \in DOMAIN cmd
    /\ cmd[n].id = i
    /\ \A m \in 1..(n - 1) : cmd[m].id # i

(* A fault: the command is found but stays in the table.                    *)
UnregisterKeepsEntry(i, x) ==
    \/ /\ \E n \in DOMAIN cmd : FoundCmd(n, i) /\ x = cmd[n].cmd
       /\ UNCHANGED cmd
    \/ /\ \A n \in DOMAIN cmd : cmd[n].id # i
       /\ x = NoCmd
       /\ UNCHANGED cmd

(* wifi_unregister_cmd removes the first entry with id i and returns x.     *)
wifi_unregister_cmd(i, x) ==
    \/ \E n \in DOMAIN cmd :
          /\ FoundCmd(n, i)
          /\ x = cmd[n].cmd
          /\ cmd' = Without(cmd, n)
    \/ /\ \A n \in DOMAIN cmd : cmd[n].id # i
       /\ x = NoCmd
       /\ UNCHANGED cmd

(* A fault: the last slot is taken for two.                                 *)
RegisterPastTheEnd(s, c) ==
    event_cb' = IF Len(event_cb) <= AllocEventCb
                THEN Append(event_cb, [sub |-> s, cmd |-> c])
                ELSE event_cb

(* wifi_register_vendor_handler: appended if there is room, else an error   *)
(* that the commands ignore.                                                *)
wifi_register_vendor_handler(s, c) ==
    event_cb' = IF Len(event_cb) < AllocEventCb
                THEN Append(event_cb, [sub |-> s, cmd |-> c])
                ELSE event_cb

(* Entry n is the one the search for event s stops at.                      *)
FoundHandler(n, s) ==
    /\ n \in DOMAIN event_cb
    /\ event_cb[n].sub = s
    /\ \A m \in 1..(n - 1) : event_cb[m].sub # s

(* wifi_unregister_vendor_handler removes the first entry for event s,      *)
(* whichever command it belongs to.                                         *)
wifi_unregister_vendor_handler(s) ==
    \/ \E n \in DOMAIN event_cb :
          /\ FoundHandler(n, s)
          /\ event_cb' = Without(event_cb, n)
    \/ /\ \A n \in DOMAIN event_cb : event_cb[n].sub # s
       /\ UNCHANGED event_cb

addRef(c) == refs' = [refs EXCEPT ![c] = @ + 1]

releaseRef(c) ==
    /\ refs' = [refs EXCEPT ![c] = @ - 1]
    /\ freed' = IF refs[c] = 1 THEN freed \cup {c} ELSE freed
    /\ UNCHANGED objs

-----------------------------------------------------------------------------
(* The thread of the client: starting a request.                            *)

(* The discipline of the client, where the constants ask for it.            *)
MayStart(k) ==
    Exclusive => \A c \in active : Subscribes(objs[c].class) \cap Subscribes(k) = {}
MayFlush(k) ==
    Exclusive => \A c \in active :
        objs[c].class = k \/ Subscribes(objs[c].class) \cap Subscribes(k) = {}
MayUse(i) ==
    FreshIds => \A c \in DOMAIN objs : objs[c].id # i

Calls == apc = "idle" /\ info = "live"

(* The new command is object number Len(objs) + 1.                          *)
Start(k, i) ==
    LET c == Len(objs) + 1 IN
    /\ Calls
    /\ c \in Cmds
    /\ MayStart(k) /\ MayUse(i)
    /\ objs' = Append(objs, [class |-> k, id |-> i])
    /\ \/ /\ Len(cmd) < AllocCmd
          /\ wifi_register_cmd(i, c)
          /\ refs' = [refs EXCEPT ![c] = 1]
          /\ apc' = "start" /\ acmd' = c /\ script' = StartScript[k]
          /\ active' = active \cup {c}
          /\ UNCHANGED freed
       \/ /\ Len(cmd) >= AllocCmd
          /\ freed' = freed \cup {c}
          /\ UNCHANGED <<cmd, refs, apc, acmd, script, active>>
    /\ UNCHANGED <<event_cb, flags, bad_commands, num_cmd, looper, socks, driver>>

Runs(states, op) == apc \in states /\ script # <<>> /\ Head(script).op = op

(* start() goes on after a request was built or accepted.                   *)
StartGoesOn ==
    /\ Runs({"start"}, "create") \/ Runs({"start"}, "request")
    /\ script' = Tail(script)
    /\ UNCHANGED <<tables, flags, heap, apc, acmd, bad_commands, num_cmd,
                   looper, socks, driver, active>>

(* start() gives up: the handlers of this exit are unregistered next.       *)
StartFails ==
    /\ Runs({"start"}, "create") \/ Runs({"start"}, "request")
    /\ script' = [j \in DOMAIN Head(script).subs |-> Unregister(Head(script).subs[j])]
    /\ apc' = "unwind"
    /\ active' = active \ {acmd}
    /\ UNCHANGED <<tables, flags, heap, acmd, bad_commands, num_cmd, looper,
                   socks, driver>>

StartRegisters ==
    /\ Runs({"start"}, "register")
    /\ wifi_register_vendor_handler(Head(script).subs[1], acmd)
    /\ script' = Tail(script)
    /\ UNCHANGED <<cmd, flags, heap, apc, acmd, bad_commands, num_cmd, looper,
                   socks, driver, active>>

StartReturns ==
    /\ apc = "start" /\ script = <<>>
    /\ apc' = "idle" /\ acmd' = NoCmd
    /\ UNCHANGED <<tables, flags, heap, script, bad_commands, num_cmd, looper,
                   socks, driver, active>>

(* The API function undoes wifi_register_cmd, by id, and drops the command. *)
StartUndone ==
    /\ apc = "unwind" /\ script = <<>>
    /\ \E x \in Cmds \cup {NoCmd} : wifi_unregister_cmd(objs[acmd].id, x)
    /\ apc' = "release"
    /\ UNCHANGED <<event_cb, flags, heap, acmd, script, bad_commands, num_cmd,
                   looper, socks, driver, active>>

-----------------------------------------------------------------------------
(* The thread of the client: stopping a request.                            *)

(* wifi_cancel_cmd, the stop function of every class but RTT.               *)
wifi_cancel_cmd(c) ==
    /\ Calls
    /\ c \in DOMAIN objs /\ objs[c].class # "rtt"
    /\ Exclusive => c \in active
    /\ \E x \in Cmds \cup {NoCmd} :
          /\ wifi_unregister_cmd(objs[c].id, x)
          /\ acmd' = x
          /\ \/ /\ x = NoCmd          \* WIFI_ERROR_INVALID_ARGS
                /\ UNCHANGED <<apc, script>>
             \/ /\ x # NoCmd
                /\ apc' = "cancel"
                /\ script' = CancelScript[objs[x].class]
    /\ active' = active \ {c}
    /\ UNCHANGED <<event_cb, flags, heap, bad_commands, num_cmd, looper, socks,
                   driver>>

(* Stopping with id -1: a temporary command, which no table ever holds,     *)
(* runs cancel().                                                           *)
Flush(k) ==
    /\ Calls
    /\ k \in FlushClasses
    /\ MayFlush(k)
    /\ apc' = "flush" /\ acmd' = NoCmd /\ script' = CancelScript[k]
    /\ active' = {c \in active : objs[c].class # k}
    /\ UNCHANGED <<tables, flags, heap, bad_commands, num_cmd, looper, socks,
                   driver>>

(* wifi_rtt_range_cancel: the temporary command again; the command that was *)
(* started stays in the table.                                              *)
wifi_rtt_range_cancel(c) ==
    /\ Calls
    /\ c \in active /\ objs[c].class = "rtt"
    /\ apc' = "flush" /\ acmd' = NoCmd /\ script' = RttCancel
    /\ active' = active \ {c}
    /\ UNCHANGED <<tables, flags, heap, bad_commands, num_cmd, looper, socks,
                   driver>>

(* The steps of cancel(), and of the way out of a failed start().           *)
CancelRequests ==
    /\ Runs({"cancel", "flush", "sweepCancel"}, "request")
    /\ script' = Tail(script)
    /\ UNCHANGED <<tables, flags, heap, apc, acmd, bad_commands, num_cmd,
                   looper, socks, driver, active>>

Unregisters ==
    /\ Runs({"unwind", "cancel", "flush", "sweepCancel"}, "unregister")
    /\ wifi_unregister_vendor_handler(Head(script).subs[1])
    /\ script' = Tail(script)
    /\ UNCHANGED <<cmd, flags, heap, apc, acmd, bad_commands, num_cmd, looper,
                   socks, driver, active>>

CancelReturns ==
    /\ apc \in {"cancel", "flush"} /\ script = <<>>
    /\ apc' = IF apc = "cancel" THEN "release" ELSE "idle"
    /\ UNCHANGED <<tables, flags, heap, acmd, script, bad_commands, num_cmd,
                   looper, socks, driver, active>>

(* The API function drops the reference it took out of the table.           *)
Releases ==
    /\ apc = "release"
    /\ releaseRef(acmd)
    /\ apc' = "idle" /\ acmd' = NoCmd
    /\ UNCHANGED <<tables, flags, script, bad_commands, num_cmd, looper, socks,
                   driver, active>>

-----------------------------------------------------------------------------
(* The thread of the client: wifi_cleanup.                                  *)

CleanupSendsExit ==
    /\ Calls
    /\ exitMsg' = TRUE
    /\ apc' = "wait"
    /\ UNCHANGED <<tables, flags, heap, acmd, script, bad_commands, num_cmd,
                   looper, doneMsg, driver, active>>

(* The write failed: nobody is waited for.                                  *)
CleanupCannotWrite ==
    /\ Calls /\ "write" \in Faults
    /\ clean_up' = TRUE
    /\ apc' = "sweep"
    /\ UNCHANGED <<tables, in_event_loop, info, heap, acmd, script,
                   bad_commands, num_cmd, looper, socks, driver, active>>

(* A fault: wifi_cleanup goes on without the answer.                        *)
CleanupDoesNotWait ==
    /\ apc = "wait"
    /\ clean_up' = TRUE
    /\ apc' = "sweep"
    /\ UNCHANGED <<tables, in_event_loop, info, heap, acmd, script,
                   bad_commands, num_cmd, looper, socks, driver, active>>

(* The blocking read of "Done".                                             *)
CleanupReadsDone ==
    /\ apc = "wait" /\ doneMsg
    /\ doneMsg' = FALSE
    /\ clean_up' = TRUE
    /\ apc' = "sweep"
    /\ UNCHANGED <<tables, in_event_loop, info, heap, acmd, script,
                   bad_commands, num_cmd, looper, exitMsg, driver, active>>

(* The head of the loop over the commands that are left.                    *)
SweepNext ==
    /\ apc = "sweep" /\ Len(cmd) > bad_commands
    /\ acmd' = cmd[bad_commands + 1].cmd
    /\ script' = CancelScript[objs[acmd'].class]
    /\ num_cmd' = Len(cmd)
    /\ apc' = "sweepCancel"
    /\ UNCHANGED <<tables, flags, heap, bad_commands, looper, socks, driver, active>>

(* A fault: the sweep forgets the reference of the table.                   *)
SweepForgetsRef ==
    /\ apc = "sweepCancel" /\ script = <<>>
    /\ bad_commands' = bad_commands + 1
    /\ apc' = "sweep" /\ acmd' = NoCmd
    /\ UNCHANGED <<tables, flags, heap, script, num_cmd, looper, socks, driver,
                   active>>

(* cancel() does not take the command out of the table, so it is stepped    *)
(* over ("did not work") and its reference released.                        *)
SweepReleases ==
    /\ apc = "sweepCancel" /\ script = <<>>
    /\ bad_commands' = IF Len(cmd) = num_cmd THEN bad_commands + 1 ELSE bad_commands
    /\ releaseRef(acmd)
    /\ apc' = "sweep" /\ acmd' = NoCmd
    /\ UNCHANGED <<tables, flags, script, num_cmd, looper, socks, driver, active>>

(* internal_cleaned_up_handler.                                             *)
CleanedUp ==
    /\ apc = "sweep" /\ Len(cmd) <= bad_commands
    /\ info' = "freed"
    /\ apc' = "finished"
    /\ UNCHANGED <<tables, clean_up, in_event_loop, heap, acmd, script,
                   bad_commands, num_cmd, looper, socks, driver, active>>

-----------------------------------------------------------------------------
(* The thread of wifi_event_loop.                                           *)

LoopEnters ==
    /\ lpc = "out" /\ ~in_event_loop
    /\ in_event_loop' = TRUE
    /\ lpc' = "poll"
    /\ UNCHANGED <<tables, clean_up, info, heap, caller, lcmd, levt, lrel,
                   socks, driver, active>>

(* The condition at the bottom of the loop.                                 *)
Again == IF clean_up THEN "done" ELSE "poll"

(* A fault: the handler's command is not referenced during the callback.    *)
DispatchWithoutRef ==
    /\ lpc = "poll" /\ evq # <<>>
    /\ evq' = Tail(evq)
    /\ \/ \E n \in DOMAIN event_cb :
             /\ FoundHandler(n, Head(evq).sub)
             /\ lcmd' = event_cb[n].cmd
             /\ levt' = Head(evq)
             /\ lpc' = "callback"
             /\ UNCHANGED refs
       \/ /\ \A n \in DOMAIN event_cb : event_cb[n].sub # Head(evq).sub
          /\ lpc' = Again
          /\ UNCHANGED <<refs, lcmd, levt>>
    /\ UNCHANGED <<tables, flags, objs, freed, caller, lrel, socks, emitted, active>>

(* internal_valid_message_handler up to the unlock: the first handler for   *)
(* the event is found and its command referenced, or the event is ignored.  *)
LoopDispatches ==
    /\ lpc = "poll" /\ evq # <<>>
    /\ evq' = Tail(evq)
    /\ \/ \E n \in DOMAIN event_cb :
             /\ FoundHandler(n, Head(evq).sub)
             /\ lcmd' = event_cb[n].cmd
             /\ levt' = Head(evq)
             /\ lpc' = "callback"
             /\ addRef(event_cb[n].cmd)
       \/ /\ \A n \in DOMAIN event_cb : event_cb[n].sub # Head(evq).sub
          /\ lpc' = Again
          /\ UNCHANGED <<refs, lcmd, levt>>
    /\ UNCHANGED <<tables, flags, objs, freed, caller, lrel, socks, emitted, active>>

(* POLLERR: a message is read and thrown away.                              *)
LoopPollError ==
    /\ lpc = "poll" /\ "overrun" \in Faults /\ evq # <<>>
    /\ evq' = Tail(evq)
    /\ lpc' = Again
    /\ UNCHANGED <<tables, flags, heap, caller, lcmd, levt, lrel, socks,
                   emitted, active>>

(* POLLHUP on event_sock.                                                   *)
LoopHangsUp ==
    /\ lpc = "poll" /\ "hup" \in Faults
    /\ lpc' = "done"
    /\ UNCHANGED <<tables, flags, heap, caller, lcmd, levt, lrel, socks,
                   driver, active>>

(* A fault: "Exit" is obeyed without an answer.                             *)
LoopExitsSilently ==
    /\ lpc = "poll" /\ evq = <<>> /\ exitMsg
    /\ exitMsg' = FALSE
    /\ lpc' = "done"
    /\ UNCHANGED <<tables, flags, heap, caller, lcmd, levt, lrel, doneMsg,
                   driver, active>>

(* "Exit" is looked at only when no event is pending.                       *)
LoopExits ==
    /\ lpc = "poll" /\ evq = <<>> /\ exitMsg
    /\ exitMsg' = FALSE
    /\ doneMsg' = TRUE
    /\ lpc' = "done"
    /\ UNCHANGED <<tables, flags, heap, caller, lcmd, levt, lrel, driver, active>>

(* handleEvent of the command: RTT results that are the last unregister the *)
(* handler, whichever command has it; any other event is handed on.         *)
LoopHandlesEvent ==
    /\ lpc = "callback"
    /\ \/ /\ objs[lcmd].class = "rtt" /\ levt.complete
          /\ wifi_unregister_vendor_handler("RTT_EVENT_COMPLETE")
          /\ lpc' = "rttCallback"
       \/ /\ ~(objs[lcmd].class = "rtt" /\ levt.complete)
          /\ lpc' = "release"
          /\ UNCHANGED event_cb
    /\ UNCHANGED <<cmd, flags, heap, caller, lcmd, levt, lrel, socks, driver,
                   active>>

(* on_rtt_results: the client learns that the request with this id ended.   *)
RttCallback ==
    /\ lpc = "rttCallback"
    /\ active' = {c \in active : objs[c].id # objs[lcmd].id}
    /\ lpc' = "rttDrop"
    /\ UNCHANGED <<tables, flags, heap, caller, lcmd, levt, lrel, socks, driver>>

RttDropsCommand ==
    /\ lpc = "rttDrop"
    /\ \E x \in Cmds \cup {NoCmd} :
          /\ wifi_unregister_cmd(objs[lcmd].id, x)
          /\ lrel' = x
          /\ lpc' = IF x = NoCmd THEN "release" ELSE "rttRelease"
    /\ UNCHANGED <<event_cb, flags, heap, caller, lcmd, levt, socks, driver, active>>

RttReleasesCommand ==
    /\ lpc = "rttRelease"
    /\ releaseRef(lrel)
    /\ lrel' = NoCmd
    /\ lpc' = "release"
    /\ UNCHANGED <<tables, flags, caller, lcmd, levt, socks, driver, active>>

(* The reference of the dispatch is dropped, and the loop goes round.       *)
LoopReleases ==
    /\ lpc = "release"
    /\ releaseRef(lcmd)
    /\ lcmd' = NoCmd /\ levt' = NoEvent
    /\ lpc' = Again
    /\ UNCHANGED <<tables, flags, caller, lrel, socks, driver, active>>

-----------------------------------------------------------------------------
(* The driver (external): any event, at any time.                           *)

DriverEmits(s, complete) ==
    /\ info = "live"
    /\ emitted < MaxEvents
    /\ complete => s = "RTT_EVENT_COMPLETE"
    /\ evq' = Append(evq, [sub |-> s, complete |-> complete])
    /\ emitted' = emitted + 1
    /\ UNCHANGED <<tables, flags, heap, caller, looper, socks, active>>

-----------------------------------------------------------------------------
(* What the client may call, what a call goes on to do, what the event      *)
(* thread does.                                                             *)
ClientCalls ==
    \/ \E k \in Classes, i \in Ids : Start(k, i)
    \/ \E c \in Cmds : wifi_cancel_cmd(c) \/ wifi_rtt_range_cancel(c)
    \/ \E k \in Classes : Flush(k)
    \/ CleanupSendsExit
    \/ CleanupCannotWrite

CallGoesOn ==
    \/ StartGoesOn \/ StartFails \/ StartRegisters \/ StartReturns \/ StartUndone
    \/ CancelRequests \/ Unregisters \/ CancelReturns \/ Releases
    \/ CleanupReadsDone \/ SweepNext \/ SweepReleases \/ CleanedUp

LoopGoesOn ==
    \/ LoopEnters \/ LoopDispatches \/ LoopPollError \/ LoopExits
    \/ LoopHandlesEvent \/ RttCallback \/ RttDropsCommand
    \/ RttReleasesCommand \/ LoopReleases

(* After wifi_cleanup the process lives on without the HAL.                 *)
Finished == apc = "finished" /\ lpc = "done" /\ UNCHANGED vars

Next ==
    \/ ClientCalls
    \/ CallGoesOn
    \/ LoopGoesOn
    \/ LoopHangsUp
    \/ Finished
    \/ \E s \in Subs, complete \in BOOLEAN : DriverEmits(s, complete)

Spec == Init /\ [][Next]_vars

(* Neither thread stops in the middle of what it does, the framework does   *)
(* run the loop, and a driver request is answered; nothing obliges the      *)
(* client to call or the driver to emit.                                    *)
FairSpec == Spec /\ WF_vars(CallGoesOn) /\ WF_vars(LoopGoesOn)

-----------------------------------------------------------------------------
(* Every command that a table, a thread or the client refers to has been    *)
(* created.                                                                 *)
PointersBorn ==
    /\ Len(objs) <= MaxCommands
    /\ \A n \in DOMAIN cmd : cmd[n].cmd \in DOMAIN objs
    /\ \A n \in DOMAIN event_cb : event_cb[n].cmd \in DOMAIN objs
    /\ apc \in {"start", "unwind", "cancel", "release", "sweepCancel"} => acmd \in DOMAIN objs
    /\ lpc \in {"callback", "rttCallback", "rttDrop", "rttRelease", "release"}
          => lcmd \in DOMAIN objs
    /\ lpc = "rttRelease" => lrel \in DOMAIN objs
    /\ active \subseteq DOMAIN objs

(* Who holds a reference to command c: the table (its entry counts until    *)
(* the sweep of wifi_cleanup has passed it), the API call that took it out  *)
(* of the table, the event thread for the event it dispatched to c, and     *)
(* the event thread again for the RTT command it took out of the table.     *)
One(p) == IF p THEN 1 ELSE 0

TableHolds(c) == \E n \in DOMAIN cmd : n > bad_commands /\ cmd[n].cmd = c
CallHolds(c)  == acmd = c /\ apc \in {"cancel", "release"}
LoopHolds(c)  == lcmd = c
RttHolds(c)   == lrel = c

(* mRefs of every command is the number of its holders: no reference is     *)
(* lost (a leak) and none is released twice, whatever calls and events      *)
(* interleave.                                                              *)
RefsExact ==
    \A c \in Cmds :
        refs[c] = One(TableHolds(c)) + One(CallHolds(c))
                  + One(LoopHolds(c)) + One(RttHolds(c))

(* No entry of event_cb points to a deleted command: cb_arg is not counted  *)
(* as a reference, so only the order of unregistering and releasing keeps   *)
(* internal_valid_message_handler from calling addRef on freed memory.      *)
HandlersLive == \A n \in DOMAIN event_cb : event_cb[n].cmd \notin freed

(* Neither thread uses a deleted command: not start() and cancel() between  *)
(* their steps, not the callback and the releaseRef after it, not the sweep *)
(* of wifi_cleanup.                                                         *)
NoUseAfterFree ==
    /\ script # <<>> => acmd \notin freed
    /\ apc \in {"unwind", "cancel", "release", "sweepCancel"} => acmd \notin freed
    /\ lcmd \notin freed
    /\ lrel \notin freed
    /\ \A n \in DOMAIN cmd : n > bad_commands => cmd[n].cmd \notin freed

(* The event thread has left wifi_event_loop before wifi_cleanup frees the  *)
(* hal_info, its sockets and its mutex.                                     *)
LoopGoneBeforeFree == info = "freed" => lpc = "done"

(* When wifi_cleanup is through, every command ever created is deleted.     *)
CleanupReleasesAll == apc = "finished" => freed = DOMAIN objs

(* Between calls, a request the client holds to be running has a handler of *)
(* its own for every event of its class.  (RTT is left out: its handler     *)
(* can be lost to the completion of a request that was cancelled.)          *)
ActiveIsSubscribed ==
    apc = "idle" =>
        \A c \in active : objs[c].class # "rtt" =>
            \A s \in Subscribes(objs[c].class) :
                [sub |-> s, cmd |-> c] \in {event_cb[n] : n \in DOMAIN event_cb}

(* cancel() "unregister[s] event handler": when the call has run cancel(),  *)
(* no handler of the cancelled command is left to be called.                *)
CancelLeavesNoHandler ==
    apc = "release" => \A n \in DOMAIN event_cb : event_cb[n].cmd # acmd

(* wifi_cleanup returns: the handshake with the event loop comes to an end. *)
CleanupFinishes == apc = "wait" ~> apc = "finished"

(* Every API call returns.                                                  *)
CallsReturn == apc # "idle" ~> apc \in {"idle", "finished"}
=============================================================================
