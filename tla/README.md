# Verification of the sony mt6757 device tree

This directory holds a TLA+ development of the code of the device tree
`android_device_sony_mt6757-common`: modules that model its stateful parts,
TLC configurations that check them on small instances, and theorems checked by
TLAPS. `PROJECT.json` maps every definition to the source lines it models and
lists the runs, the mutants that show each property can fail, the hazards and
the findings. Paths below are relative to the repository (`src/`).

## 1. Inventory

Most of the repository is declarative (SELinux policy, init scripts, overlays,
XML configuration, VNDK lists) or prebuilt. The code that keeps state and makes
decisions is the following.

### Wi-Fi HAL (`wifi_hal/`)

* **State.** `hal_info` (`common.h`): the command socket and the event socket;
  a socket pair by which `wifi_cleanup` and the event loop talk;
  `cmd[]`/`num_cmd`, the outstanding commands, at most 64; `event_cb[]`, the
  event handlers, at most 64, guarded by `cb_lock`; `clean_up` and
  `in_event_loop`; the interface array; cached roaming capabilities. A
  `WifiCommand` object carries its request id and a reference count `mRefs`.
* **Operations.** `wifi_initialize`, `wifi_event_loop`, `wifi_cleanup`; for
  each of eight classes (scan, full scan results, BSSID hotlist, ePNO,
  significant change, ANQPO, RSSI monitor, RTT) a start and a stop, some also a
  stop with id -1; one-request configuration calls (roaming, keep-alive,
  concurrency matrix, country, capabilities); retrieval of cached scans.
* **Threads.** The framework calls the API on one thread and runs
  `wifi_event_loop` on another. Both change the tables and the reference
  counts. The driver, in the kernel, answers requests and emits events at any
  time.
* **What is hard.** The handler entry is copied under the lock and called after
  the unlock; RTT completions change both tables from the event thread; a start
  consists of several requests and registrations and may fail after each;
  handlers are found by event and commands by id, never by pointer; tables have
  fixed sizes; the cleanup handshake blocks without a limit; replies are not
  matched by sequence number; `wifi_initialize` has ten hand-written error
  paths; sysfs is read twice and devices may change in between.
* **Correct means.** No use of freed memory, exact reference counts, no handler
  of a deleted command, the event thread gone before the HAL is freed,
  everything released by cleanup, every call returns; error paths release what
  was acquired and no more; buffers of callers are not overrun; replies are not
  mixed up.

### Radio bridge (`radio_bridge/`)

* **State.** Per service instance `mRadio`, `mSerial`, the `mConnect` messages
  in the main looper; in the radio server the registered indication and the
  linked death recipients. A destroyed instance leaves its death recipient and
  its indication behind.
* **Operations.** `onCreate`, `onStartCommand`, `onDestroy`, `connect()`, the
  death recipient, `incomingCallIndication`.
* **What is hard.** Three kinds of threads; `removeCallbacks` and `postDelayed`
  are two calls, so two reschedules interleave; the server may die between any
  two remote calls of `connect()`; the result of `linkToDeath` is ignored.
* **Correct means.** A living service is never left without registration and
  without a pending reconnect; the callback comes back when the server does; a
  call is answered to the server that announced it; serial numbers differ.

### wpa_supplicant driver commands (`wpa_supplicant_8_lib/`)

* **State.** The P2P operating channel and channel list, concurrency flags of
  all interfaces, the country of the driver and the one each interface was told,
  the interface flags, `drv_errors`.
* **Operations.** The branches of `wpa_driver_nl80211_driver_cmd`: MIRACAST,
  `p2p_use_mcc`, `mcc`, COUNTRY, `start`, `stop`, MTK-ACS, and the private
  commands passed on by ioctl; further branches put one setting into the
  firmware (receive filters, hotspot, P2P power saving) and keep nothing
  themselves; GET_STA_STATISTICS asks the driver about a P2P peer.
* **What is hard.** One thread, but long sequences of commands in any order,
  interfaces that come and go, steps that fail half-way, a conversion whose
  result is ignored, and a polling loop that blocks the supplicant.
* **Correct means.** The channel list fits the mode; the operating channel is
  the one of the frequency; interfaces agree with the P2P configuration and the
  driver; the framework is told the truth; polling ends, and its answer comes
  from a completed scan; statistics are of the station that was asked for, of
  this query, and whole.

### Boot bridge (`rootdir/bootbridge-init.c`)

* **State.** The mounts, the device nodes, the directories of the system image
  and whether it is mounted writable, the log, the count of tries.
* **Operations.** `main`, once: temporary mounts, userdata with up to 60 tries,
  the log, the system image, vendor mount points, loggers, moving the mounts,
  `execl("/init")`.
* **What is hard.** Almost every call may fail and few results are looked at;
  what protects the hand-over is only that the log is opened on userdata.
* **Correct means.** init never starts without userdata or on top of mounts it
  makes itself, mount points exist, and the bridge ends in init or stops.

### AGPS SSL shim (`libshims/agps_ssl/agps_ssl.cpp`)

* **State.** Native BIOs of BoringSSL and, for the methods of `mtk_agpsd`, a
  `BioState` each with the same flags and `init` in the older layout.
* **Operations.** `BIO_new`, the read, write, control and destroy callbacks,
  `BIO_clear_retry_flags`, `BIO_set_retry_read`.
* **What is hard.** Each value exists twice and is copied at some calls only;
  `BIO_new` gives back by hand what it holds at each failure.
* **Correct means.** Nothing leaks or is used after its release; the library
  sees the retry flags and `init` the blob has set.

### Others

| Part | What it is | Here |
| --- | --- | --- |
| `omx/MtkOMXPlugin.cpp` | component enumeration and creation over the vendor OMX core | forwards, no state after its constructor |
| `wifi_hal/cpp_bindings.cpp`, message building and parsing | wrappers of libnl attributes | data, abstracted |
| `wifi_hal/sync.h` | pthread wrappers, used only by `requestEvent`, which nothing calls | no |
| other shims, stubs, headers, tools, patches | forwarders, declarations, one-shot programs | no state |
| sepolicy, seccomp, configs, overlays, rc files, VNDK lists, libraries | declarative data, binaries | no code |

## 2. Modules

| Module | Models | Source |
| --- | --- | --- |
| `WifiCommands` | `start()` and `cancel()` of the eight classes, as scripts | `gscan.cpp`, `rtt.cpp`, `wifi_hal.cpp` |
| `WifiHal` (extends it), `MCWifiHal` | tables, reference counts, API thread, event thread, cleanup | `common.cpp`, `wifi_hal.cpp`, `cpp_bindings.*` |
| `WifiHalProofs` | theorems about `WifiHal`, the refinement included | |
| `HalRequests` | the abstract specification: what the HAL promises its client | |
| `WifiHalRefinement` | `WifiHal` as an implementation of `HalRequests` | |
| `HalInit` | `wifi_initialize`, `wifi_init_interfaces`, `internal_cleaned_up_handler` | `wifi_hal.cpp` |
| `ScanResults` | `wifi_get_cached_gscan_results` over `requestResponse` | `gscan.cpp`, `cpp_bindings.cpp` |
| `DriverEvents` | `handleEvent` of the eight classes: what becomes of an event's payload | `gscan.cpp`, `rtt.cpp`, `wifi_hal.cpp` |
| `DriverConfig` (extends it) | roaming, keep-alive, concurrency matrix, valid channels | `wifi_hal.cpp`, `wifi_offload.cpp`, `gscan.cpp` |
| `RadioBridge`, `MCRadioBridge` | the service, its indication, the radio server | `radio_bridge/src` |
| `WpaDriverCmd`, `MCWpaDriverCmd` | the stateful driver commands | `mediatek_driver_cmd_nl80211.c` |
| `WpaFirmware` | the commands that set the firmware, extended by `WpaDriverCmd` | `mediatek_driver_cmd_nl80211.c` |
| `WpaStatistics` | GET_STA_STATISTICS, extended by `WpaDriverCmd` | `mediatek_driver_cmd_nl80211.c` |
| `BootBridge` | `main` of the first-stage init | `rootdir/bootbridge-init.c` |
| `AgpsBio` | the BIO bridge | `libshims/agps_ssl/agps_ssl.cpp` |
| `HalInitProofs`, `ScanResultsProofs`, `RadioBridgeProofs`, `BootBridgeProofs`, `AgpsBioProofs` | theorems about the module of that name | |
| `DriverConfigProofs` | theorems about `DriverConfig` and `DriverEvents` | |
| `WpaDriverCmdProofs` | theorems about `WpaDriverCmd`, `WpaFirmware` and `WpaStatistics` | |

The definitions commented "A fault: ..." or "mutant" are not part of the model.
Each is a plausible mistake in the definition after it, and replacing that
definition by it violates the property that `PROJECT.json` names beside it.

### WifiHal and WifiCommands

A script is a sequence of four kinds of steps: building a request (may fail),
sending it (may fail, and names the handlers that this exit of `start()`
unregisters), registering a handler, unregistering one. `WifiHal` executes the
script of the class, one step at a time. The variables `cmd` and `event_cb` are
the two tables in order, because the code takes the first match; `objs`, `refs`
and `freed` are the command objects; `apc`, `acmd`, `script` are the API call in
progress; `lpc`, `lcmd`, `lrel` the event thread. A step is what a thread does
between two points where the other can interfere: one critical section of
`cb_lock`, one table operation, one request, one change of a reference count.
Changes of `mRefs` are atomic in the code; operations on the command table are
not locked, and the model makes each one atomic (see section 7).

The client is a parameter. `Exclusive` says that it runs one request per event
at a time, as the framework does; `FreshIds` that it does not reuse request
ids. `active` is what the client believes to be running. `Faults` selects
failures: `overrun` (POLLERR), `hup` (POLLHUP), `write` (the exit message
cannot be written). The driver may emit any event at any time, also for
requests that are not running.

### HalRequests and WifiHalRefinement

`HalRequests` has no tables, handlers, reference counts or threads. A request is
new, open, closing, closed or deleted; callbacks may begin while it is open or
closing; no call of the API returns while a request is closing; a request is
deleted only when it is closed and no callback of it is running.
`WifiHalRefinement` maps the detailed state to it: a command is open while the
client holds it to be running and the sweep of `wifi_cleanup` has not begun,
closing while a handler of it is still registered, deleted when its memory is
gone; `calling` is what the event thread is dispatching to. `KeepsPromises` is
the abstract specification as a property of `WifiHal`, checked by TLC in both
passing runs of it and proved for every size (`HalKeepsPromises`, section 5).

### HalInit

`Stages` lists what each of the ten stages acquires and what its error path
releases; the interface stage and the membership stage have actions of their
own. `lost` counts what no pointer refers to any more. Devices come and go at
any time, also between the two passes of `wifi_init_interfaces`.

### ScanResults

One call is up to ten rounds (`MaxRounds`) of building, sending, receiving and
judging. `cmd_sock` is a queue of replies, each tagged with the request it
answers (the tag is used only by the property). Any step may fail, the driver
may answer with more scans than were asked for, and a reply may lack its vendor
data and be skipped. A scan may have no results (`empty`): `handleResponse` does
not store such a one. The driver forgets what it hands over.

### DriverConfig and DriverEvents

Each request is one step. The replies with a list (concurrency matrix, valid
channels) are folded over their attributes, in any order and with any announced
number. A number is a u32 that the code puts into an int (`ToInt`, and back to a
size in `ToWord`), for an int of any width; an array size of 0 switches the
clamp of the concurrency matrix off, as in the code. The driver may be reloaded
with other limits while the HAL keeps its cache (`DriverReloads`), and the HAL
be restarted while the driver goes on (`HalRestarts`). A request for the roaming
capabilities may succeed with both, one or none of its values; what is missing
is whatever the caller's structure held (`given`). `vouched` (auxiliary) says
that the cache is empty or a whole answer of the driver that is loaded.

`DriverEvents` is one step per event. Entries are abstracted to the number of
the event that wrote them, `Garbage` for memory no constructor initialises and 0
for cleared memory, so that `NoStaleEntries` can tell what the client sees. An
RTT event is a sequence of items (completion flags, targets with their results,
of which an allocation may fail), read in one pass (`RttRead`), that is folded
in their order over `mCompleted`, `currentIdx`, `totalCnt` and `rttResults`. A
request may be cancelled between two events; `lost` counts what it leaves. The
dispatch of the event itself, and what the completion does to the tables, is in
`WifiHal`. `side` keeps settings, queries and events in behaviours of their own:
they share no state.

### RadioBridge

`main` is the main thread within `connect()`, with a step before each remote
call; `thread` are binder threads; servers are numbered in the order they
start. An indication records the server behind the `mRadio` it was constructed
with, and a call is answered through that one. A remote call fails when its
server is gone, and now and then (`MaxFaults`) while it runs. Delays are abstracted: a queued `connect()` may run at any time.
`removeCallbacks` and `postDelayed` are separate steps wherever the code calls
both.

### WpaDriverCmd, WpaFirmware and WpaStatistics

One command is one step, because the supplicant has one thread; MTK-ACS is a
step per poll and nothing else runs meanwhile. Private commands succeed or fail.
Features behind `#ifdef` (`CONFIG_MTK_WFD_SINK`, `CONFIG_MTK_P2P_SIGMA`,
`CONFIG_MTK_LTE_COEX`, `CONFIG_HOTSPOT_MGR_SUPPORT`) are taken as compiled in.
The supplicant's own behaviour, links and interfaces that come and go, is
external and modelled from how the commands read it.

A command of `WpaFirmware` is one test-mode message, which the firmware takes
or refuses. `firmware` holds its settings as the driver would decode them
(`SwCmd` is external: the operation above bit 8 of the word, the index
below), `promised` what the client was told. Indices and windows are those a
client gives: a large index runs into the operation or wraps around in the u32,
and a large window has BIT(7) itself. `rxfilter-*` answer with success also
when they are refused; `promised.sure` says that none was, and that every index
was a byte.

`WpaStatistics` models the peers the supplicant has found, its current network
and a query: the address that is asked for, the fields of the answer (each the
number of the query it came with) and what is printed into a buffer. A peer may
transmit under another address in each group, its device address included.

### BootBridge

`pc` follows `main`. The image has any subset of its directories; each mount,
remount, `mkdir`, move and `umount2` succeeds or fails (a `mkdir` always fails on
a read-only mount, and may fail on a writable one); and the log can be opened
only where something writable is mounted. `faults` (auxiliary) collects the
unchecked calls that failed although nothing the bridge did stood in their way:
the properties allow for what such a failure explains and for nothing else.
`RootWritable` is whether the kernel's own root is writable; it is not on this
device. The loggers are forked processes that do not change the mounts.

### AgpsBio

The bridge callbacks are one step each (`mtk_agpsd` drives a BIO from one
thread), `BIO_new` is split at the calls that may fail. `told` is auxiliary: what
the blob last answered through a BIO. The blob's callbacks are external and
modelled from what the shim offers them: they clear the retry flags and, when a
read would block, set them. A failed `dlsym`, another callback contract and a
failed `calloc` do nothing and are left out as steps.

## 3. Runs

| Run | Instance | What it shows |
| --- | --- | --- |
| `hal_classes` | the seven classes other than RTT, 2 commands, 1 event, `hup`, `write` | no handler points to a deleted command (`HandlersLive`); a running request is subscribed to all its events (`ActiveIsSubscribed`); a stopped one gets no new callback, and the rest of `HalRequests` (`KeepsPromises`) |
| `hal_rtt` | hotlist and RTT, 3 commands, 2 events, both tables of size 2, `overrun`, fair | `RefsExact`, `NoUseAfterFree`, `LoopGoneBeforeFree`, `CleanupReleasesAll`, `TypeOK` (tables within their allocation), `CallsReturn`, `KeepsPromises` |
| `hal_hang_up` | violation | finding 1 |
| `hal_two_hotlists` | violation | finding 2 |
| `radio_safety` | 2 instances, 2 binder threads, 2 servers, 2 calls, 1 failing remote call | `NeverStranded`, `AnswersTheCaller`, `SerialsDistinct` |
| `radio_liveness` | 2 instances, 1 thread, 2 servers, 1 call, 1 failing remote call, fair | `CallbackRestored` |
| `init_restarts` | 4 starts, 2 devices that come and go | `UndoesOnlyItsOwn`, `PortsReusable` |
| `scan_results` | 2 calls, 3 rounds, buffers of 0, 1 and 4, 6 scans with or without results, all faults, fair | `StaysInBuffer`, `RepliesToThisRequest`, `NoScanSkipped` (in order, only scans without results left out), `NoScanLost` (what was handed over is kept while there is room), `CallReturns` |
| `driver_config` | lists up to 3 against limits of 2 and 1, ids to 3, replies of 3 attributes with numbers to 7 for an int to 3, arrays of 0 to 2; 4 events, arrays of 2, 5 RTT results | `ListsFit`, `RepliesInArray`, `NoStaleEntries`, `RttExact` (each result handed on once, and freed, unless its request is cancelled) |
| `wpa_driver_cmd` | 2 interfaces, 2 peers, seven kinds of behaviours, fair | `SinkInStep` (display sink: list, channel and frequency agree), `ErrorsSequential`, `ConcurrencyUniform`, `DriverAsTold` (country and power state), `AcsSound`, `AcsReturns`, `AnsweredInForce`, `AsksForTransmitter`, `AnswerSound` (statistics of this query, whole or nothing) |
| `boot_bridge` | 60 tries, every subset of failures, fair | `UserdataAtHandOver`, `ReadyForInit` (a mount in the way of init's, or a vendor mount point missing, only where its own call failed), `Decides` |
| `agps_bio` | 2 BIOs, 2 `BioState`s, every kind of method | `StatesOwned`, `ViewsInStep` (retry flags and init agree), `KeepsForeignFlags` |

Every module has a `TypeOK`. `hal_rtt` checks the one that carries a claim of its
own (the tables stay within their allocation); the others hold on the same
instances, by adding `INVARIANT TypeOK` to the configuration.

### Bounds, and why they are enough

* **Commands and events (`WifiHal`).** The tables are searched by id and by
  event, so what matters is whether another entry comes before the one meant:
  two commands show it, and the third of `hal_rtt` makes both tables full. One
  event per thread interleaving suffices for use-after-free (there is one event
  thread); the second lets an RTT completion follow another. The theorems
  remove these bounds for every safety property; only `CallsReturn` rests on
  them.
* **Servers and threads (`RadioBridge`).** Two servers are the one that died
  and the one connected to since; two threads are the least for interleaved
  reschedules and serials. The theorems remove these bounds.
* **`ScanResults`.** Three rounds stand for ten: what can differ is the first
  round, a middle one and the last. A chunk of 2 against buffers of 1 and 4
  gives replies that fit, fill and exceed; rounds whose scans all have no
  results occur first, in the middle and last. The theorems remove these bounds.
* **`HalInit`.** Four attempts allow a failed start before and after a
  successful one and its cleanup. The theorems hold for any number.
* **`DriverConfig`, `DriverEvents`.** Offers and requests range below, at and
  above each limit. `IntMax` is 3, so that the eight values of a word include
  those below, at and above each array size and all of the negative ints. Four events let an array be filled, shrink and be filled
  again, and RTT results be spread over several events and two requests. The
  driver sends no more results for a request than `rttResults` has slots (1024
  in the code, which does not test it). A reply has up to `MaxAttributes`
  attributes, an RTT event up to `MaxItems` items of up to `MaxBurst` results. The
  theorems hold for all of these sizes.
* **`BootBridge`.** The number of tries is the code's; three vendor directories
  (a plain one, and one within another) stand for the eight. The theorems hold
  for any number of tries.
* **`AgpsBio`.** A BIO shares nothing with another but the allocator; two show a
  mix-up of their states. The theorems hold for any number.
* **`WpaDriverCmd`.** The frequencies are one with its own base (2484), one on a
  grid (5180) and one outside all ranges (5720). The error limit (defined in the
  supplicant, not here) is 1, so that the count wraps twice. `Clients` names
  seven sets of what may happen in a behaviour ("link" and "iface" stand for the
  supplicant's own changes). The commands of different sets write disjoint
  state, except that private commands, which count errors, are in two of them;
  together they would only multiply the states. The filter indices 0 and 255 and
  the windows 0 and 127 are the limits of their fields; the index 256 turns an
  add into a remove, 16776704 wraps around a word, here of 24 bits (TLC's
  integers have 32, with a sign), and the window 200 has BIT(7). Two
  addresses beside the device address let a peer come back with another one or
  with its own. The three buffers hold nothing, one byte less than the lines need,
  and exactly them.

`CHECK_DEADLOCK FALSE` appears where the instance may stop because a bound is
used up, and in `hal_classes`, where a hang-up leaves `wifi_cleanup` waiting for
ever (finding 1). `hal_rtt` and `wpa_driver_cmd` do check for deadlock.

### Fairness

* `WifiHal!FairSpec`: an API call that has begun goes on, since it waits only for
  the driver's answer to its request (which netlink gives) and, in the
  cleanup, for the event thread; the event thread runs, since the framework
  starts `wifi_event_loop` after `wifi_initialize`. Nothing obliges the client
  to call, the driver to emit, or sockets to fail.
* `RadioBridge!Fairness`: the looper serves messages in order, so a queued
  `connect()` that is enabled again and again is run (strong fairness, since
  other callbacks of the main thread disable it for a while); binder threads,
  death notices and remote calls make progress. The server need not start.
* `ScanResults!Spec`: the thread of the caller runs. `WpaDriverCmd!FairSpec`: a
  poll of MTK-ACS is answered or fails, and its sleep ends.
* `BootBridge!Spec`: the bridge is the only process and runs; no call of it
  blocks for ever (a mount answers or fails).

## 4. Findings

1. **Cleanup after a hang-up** (`wifi_hal.cpp:455`). The event loop leaves on
   POLLHUP without a word to the cleanup socket, whose peer stays open;
   `wifi_cleanup` then blocks for ever in its read. The comment at line 359
   speaks of a fallback that is not reached.
2. **Two requests of one class** (`gscan.cpp:1147`). `cancel()` "unregister[s]
   event handler" by event, so with two hotlists running, cancelling the second
   removes the handler of the first and leaves its own behind. The first match
   decides, not the owner. `Exclusive` describes the client that never meets
   this.

Observed while modelling, without a run of their own because no text of the
repository promises otherwise or because they are certain:

* `wifi_rtt_range_cancel` uses a temporary command; the one that was started
  stays in the table until cleanup (`rtt.cpp:647`). `HalRequests` therefore
  promises deletion by the cleanup, not by the cancel;
* `num_interfaces` is the count of the first pass over `/sys/class/net`; if a
  device is gone in the second pass an entry of the array is never written
  (`wifi_hal.cpp:1092`). `HalInit` reaches it (`filled` differs from
  `num_interfaces` in a live HAL), so no invariant says otherwise;
* with an RTT completion beside the sweep (possible only when the exit message
  could not be written) a command is released twice, which is why `hal_classes`
  leaves RTT out;
* a failed start removes the table entry found by its id: with an id used twice
  that is the other command's (`gscan.cpp:726`); `FreshIds` excludes it;
* results collected for an RTT request that is cancelled are never freed
  (`rtt.cpp:480`), since only a completion frees them; `lost` counts them;
* a round of scans that all have no results, or a reply without vendor data,
  stores nothing, and `gscan.cpp:913` ("no more items left to retrieve") ends the
  call although the driver may hold more; the next call gets them;
* `wifi_get_roaming_capabilities` fills its cache from the caller's structure after
  any success, also one without both values (`wifi_hal.cpp:1219`), and a cache
  of two zeros counts as none; a driver that is reloaded beside a running HAL is
  vetted with the answer of the one before. `ListsFit` therefore speaks of lists
  vetted with a whole answer of the driver that is loaded;
* the numbers of feature sets and of channels are u32 in the reply and int in the
  code: beyond `INT_MAX` they are negative, pass the clamp and reach the caller
  as the size (`wifi_hal.cpp:970`, `gscan.cpp:300`); a `set_size_max` of 0 counts
  as no limit (`wifi_hal.cpp:972`). `RepliesInArray` names both exceptions;
* the boot bridge makes `/newroot/data` after the remount to read-only
  (`bootbridge-init.c:154`), and nobody looks at the `MS_MOVE` (line 159): on an
  image without that directory, or when the move fails, init is entered with
  userdata at `/diagdata`, although `rootdir/etc/init.mt6757.rc:19` says "with
  /system and /data already mounted". `UserdataAtHandOver` names the two cases;
* likewise a failed `umount2` (`bootbridge-init.c:166`) leaves a mount where
  first-stage init "treats EBUSY as fatal", and a `mkdir` that fails (line 111) a
  vendor mount point missing; `ReadyForInit` allows for these alone;
* the guard of the hand-over is that the log opens: it fails without userdata
  only because the kernel's root is read-only (`bootbridge-init.c:80`);
* `bridgeCtrl` does not load the native flags before it copies the Oreo ones
  back, so a control call undoes a change of the native flags made since the
  last read or write (`agps_ssl.cpp:75`); `ViewsInStep` ends at such a change;
* `wpas_p2p_get_sta_mac` returns the BSSID for every known peer while this
  device is a client, also for one that is not its group's owner, and the
  `interface_addr` of an earlier join for a peer that transmits under its device
  address now (`mediatek_driver_cmd_nl80211.c:778`), although the comment at line
  728 wants the address by which the driver does "TX/RX"; `AsksForTransmitter`
  names the exception (`outdated`);
* `wpa_driver_nl80211_send_msg`, "send some information to driver", checks a
  length and sends nothing (`mediatek_driver_cmd_nl80211.c:602`), and
  `set-wapi-key` answers with success also when the driver refused;
* when the exit message cannot be written, `clean_up` is the fallback, but the
  loop tests it only after `poll` without a timeout returns
  (`wifi_hal.cpp:443`); the sweep then runs beside the event thread, which is
  why the theorems on cleanup assume that the write succeeds;
* `requestResponse` returns success when `nl_cb_alloc` fails and nothing was sent
  (`cpp_bindings.cpp:598`), so that a call may end without having asked;
* cleanup does not release the tables and the interface array, and no error path
  releases the socket pair (`wifi_hal.cpp:327`); `lost` counts them, and
  `PortsReusable` covers what would block a later start;
* `priv_p2p_freq_to_channel` turns 5262 MHz into channel 52
  (`mediatek_driver_cmd_nl80211.c:1441`), and an unknown frequency leaves
  channel 0 as the only one on the list, because its result is ignored;
* `rxfilter-add` and `rxfilter-remove` do not test their index: one above 255
  changes the operation, and adding 256 removes filter 0
  (`mediatek_driver_cmd_nl80211.c:1687`); `P2P_SET_PS` does not mask its window: 128
  to 255 with enable 0 leave power saving on (line 1319);
* `rxfilter-*`, `p2p_set_opps`, `p2p_set_power_save` and `p2p_set_sleep` answer
  with success also when the firmware refused, `set_max_client` answers with -1
  also when it agreed; `P2P_SET_PS` does not use its first argument; and
  `p2p_set_opps` without an address argument searches a null string
  (`mediatek_driver_cmd_nl80211.c:1113`);
* results that arrive between the RTT request and the registration of its
  handler are dropped (`rtt.cpp:469`).

## 5. Theorems

Every theorem holds for every value of the constants (any number of commands,
ids, events, instances, threads, servers, BIOs, interfaces and peers, any table
and buffer size), assuming what the `ASSUME`s of the modules say and what is
named here. Every invariant and every action property of the passing runs, and
the refinement of `HalRequests`, is proved; what is left to TLC alone is
liveness.

### The Wi-Fi HAL (`WifiHalProofs`)

Three hypotheses occur. `SweepSafe`: the exit message can be written, so that the
sweep waits for the event thread, or there is no RTT. If the write fails the
sweep runs beside the event thread, which is harmless (and proved so) except for
an RTT completion, which takes its command out of the table and releases it
a second time (section 4). The two theorems about the order of the cleanup and
what it leaves need the write itself. `FreshIds`: the client does not reuse
ids; otherwise a failed start removes another command's entry. `Exclusive`: one
request per event at a time; otherwise finding 2 applies. The hypotheses
describe the framework's use of the HAL, and both passing runs satisfy all three:
`hal_classes` has the failing write and no RTT, `hal_rtt` has RTT and no failing
write.

| Theorem | Property | Needs |
| --- | --- | --- |
| `TypeCorrect` | `TypeOK` | nothing |
| `CleanupOrder` | `LoopGoneBeforeFree` | no write fault |
| `RefsCounted` | `RefsExact` | `SweepSafe`, `FreshIds` |
| `HandlersStayLive` | `HandlersLive` | `SweepSafe`, `FreshIds`, `Exclusive` |
| `NeverUsedFreed` | `NoUseAfterFree` | the same |
| `HalKeepsPromises` | `KeepsPromises` | the same |
| `RunningIsSubscribed` | `ActiveIsSubscribed` | the same, and a slot of the handler table per event |
| `CleanupLeavesNothing` | `CleanupReleasesAll` | no write fault, `FreshIds`, `Exclusive` |

* **Types.** `TypeOK` alone is not inductive: releasing and looking up the class
  of a command need that what a table or a thread points to was created, which
  is `PointersBorn`.
* **Cleanup order.** `SweepAlone` follows the handshake: Done is on its way only
  if the loop has left, and the sweep begins only after Done was read. Where the
  write fails it still says that nothing is swept before `wifi_cleanup` and that
  the HAL is freed last; `RttAlone` is the one place where the other theorems need
  that the threads do not run together.
* **Reference counts.** `RefsInv` adds: ids are distinct (`IdsDistinct`), a table
  entry carries the id of its command and a command has at most one entry
  (`EntriesOwn`), what the event thread holds in each of its states
  (`LoopFrame`), where the sweep stands (`SweepFrame`), and that a command whose
  `start()` has something left to do or to undo is still in the table
  (`StartFrame`): only an RTT completion could take it out, and RTT registers
  its handler last (`RttRest`). The heart is `TakesOne`: taking an entry out of
  the table moves exactly one reference from the table to the thread that took
  it. The counts are right also with two requests of one class.
* **Lifetime.** `LiveInv` is `SweepAlone`, `RefsInv`, `HandlerInv` and
  `FreedExact`. `FreedExact`: the deleted commands are exactly those created
  whose count is 0. `HandlerInv`: each handler belongs to a command that someone
  still holds, and a command that is being given up has no handler left, or its
  remaining steps unregister them. Handlers do not count as references, so this
  is where the order of unregistering and releasing in every script is used.
  From it follow `HandlersLive`, `NoUseAfterFree` (what is held has a positive
  count) and `CleanupReleasesAll` (after the sweep nothing holds anything).
* **Subscription.** `SubscribedInv` says that outside the sweep a running request
  has each handler of its class or a start that has yet to register it, and that
  no cancel under way is still to unregister one of a running request.
  `HandlerInv` leaves at most one handler per event.
  Registration fails silently in a full table; the code has 64 slots for ten
  events, hence the hypothesis `Cardinality(Events) <= AllocEventCb`.
* **Refinement.** `PromiseInv`, beside `LiveInv`, is `RunningHeld` (outside the
  sweep a running request is in the command table) and `GivenUp` (a request that
  is being released or dropped by an RTT completion is not running). One lemma
  per group of actions (`StartMaps`, `StopMaps`, `StartStepsMap`, `CancelMaps`,
  `SweepMaps`, `LoopMaps`) shows that its steps are steps or stutters of
  `HalRequests`; `ReleaseMaps` and `StopsClose` are the two that change a phase.
  `HalRequests` states no fairness, so the refinement is of safety.

### The other components

* **`HalInitProofs`**: `UndoSound` (`UndoesOnlyItsOwn`) and `PortsStayReusable`
  (`PortsReusable`) from `HeldInv`: at each stage exactly what the stages before
  it acquired is held.
* **`ScanResultsProofs`**: `BufferKept`, `RepliesMatch`, `ScansInOrder`
  (`NoScanSkipped`) and `HandedOverScansKept` (`NoScanLost`) from `ScansInv`: the
  queue of replies belongs to the request under way and is empty otherwise
  (`QueueInv`); the scans of a queued reply are the last the driver handed over,
  and the buffer has what came before them, in order, but for scans without
  results and what came after it was full (`OrderInv`). A reply is a fold of
  `StoreScan` over its scans, each of which keeps this.
* **`DriverConfigProofs`**: `RoamingListsFit` (`ListsFit`) from `RoamingInv`: a
  cache that is empty or a whole answer of the driver never promises more than
  the driver offers. `CallbacksAreFresh`
  (`NoStaleEntries`) from `ArraysInv`: of each array kept from event to event,
  what each entry may hold. `RepliesStayInArray` (`RepliesInArray`) from
  `RepliesInv`: each attribute of a reply leaves the number announced and what
  was written within the caller's array, as long as the property speaks of it.
  It holds for replies of any length and any `IntMax`. `RttResultsWhole` (`RttExact`) from `RttInv`: after any
  items of any events, the array holds the results copied since the request
  began, in order and each once (`Collected`), and as many are on the heap, beside
  those of cancelled requests; each
  item keeps it (`ItemCollects`), and so does an event, which is a fold of items
  (`EventCollects`).
* **`RadioBridgeProofs`**: `ServiceNeverStranded` from `LinksHold`: within
  `connect()`, a server that still runs when the callback is set has the link
  that was made before, so its death will be told. `SerialsNeverReused` from
  `SerialsTaken`: no serial in use is past `mSerial`. `CallerAnswered`
  (`AnswersTheCaller`) from `IndicationsHold`: the indication a server holds was
  made with that server, because `setResponseFunctionsMtk` reaches only the
  server `connect()` got and a server that dies loses it; so a call carries the
  `mRadio` of the server that made it.
* **`WpaDriverCmdProofs`**: `ErrorsStaySequential`, `AcsStaysSound`,
  `ConcurrencyStaysUniform`, `DriverStaysAsTold`, `SinkStaysInStep`,
  `AnsweredStaysInForce`, `TransmitterAsked`, `AnswersStaySound`. `ErrorsInv`
  writes the run of failures as a multiple of the limit plus the count;
  `FirmwareInv` types the registers, so that BIT(7) and the window below it can
  be told apart, and `WordsApart` takes the word of a filter command apart again;
  `GroupInv` says which address of a peer a group leads to.
  `SinkStaysInStep` needs two hypotheses, which say what the inputs are and not
  what the code does: `FreqsOnGrid` (the frequencies above 5 GHz that the
  supplicant uses are on the 5 MHz grid; 5262 MHz would be turned into channel
  52, section 4) and `ConfOnList` (a configured operating channel is on the
  configured list). The run's constants satisfy both. `AnswersStaySound`
  (`AnswerSound`) rests on `PrintsAllOrNothing`, for lines of any number and
  length and any buffer: as long as the sum of the lines printed is less than
  the buffer the position is that sum, and from then on it is -1.
* **`BootBridgeProofs`**, from `BootInv`, which follows the root, the mount points
  and userdata from stage to stage: `InitFindsItsMounts` (`ReadyForInit`) without a
  hypothesis; `UserdataIsThere` (`UserdataAtHandOver`) if `RootWritable` is
  FALSE, as it is on this device: on a writable root the log opens without
  userdata, and the property fails.
* **`AgpsBioProofs`**: `StatesStayOwned`, `ViewsStayInStep`, and the action
  property `ForeignFlagsKept`. `OwnersInv` says of each `BioState` who has it,
  without counting; `FlagsInv` and `InitInStep` relate the two layouts.
  `NoneAssumption` says that the absent value is none of the objects.

### Folds

The scans of a reply, its attributes, an RTT event and the lines of an answer are sequences that the model
folds. The library's induction theorems take an operator as a parameter, which
the provers cannot instantiate, but `WFMin` takes a set: a non-empty set of
numbers has a least element (`LeastNumber`), hence a set that has 0 and every
successor is `Nat` (`Induction`). `FoldLeft` is defined as a `CHOOSE` of a
function on sets of indices; `FoldExists` shows by that induction that there is
such a function, and then `FoldStays` that a fold whose steps stay within a set
ends in it, `FoldPrefixes` that it goes through the folds of the prefixes. The
operator that is folded enters as a function `G` from indices to functions on
that set, so that nothing has an operator as a parameter. `ScanResultsProofs`,
`DriverConfigProofs` and `WpaDriverCmdProofs` each have the lemmas they use.

### Model-checked only

* The liveness properties `CallsReturn`, `CallbackRestored`, `CallReturns`,
  `AcsReturns` and `Decides`: fairness and ENABLED are out of the prover's reach.
* The type invariants of the components other than `WifiHal` and `RadioBridge`
  are proved only as parts of the invariants above.

## 6. Plan

Done, in this order: the event core of the HAL with its scripts; its types,
cleanup order and reference counts proved; the radio bridge with its proofs;
start-up; request and reply; configuration; supplicant commands; the abstract
specification of the HAL and the refinement; the boot bridge; the contents of
events; station statistics; the BIO bridge; the lifetime of commands and the
refinement proved; the invariants of all other components proved, those of
folded sequences last; the HAL's theorems for a cleanup that cannot write.

Open in the model: unlocked updates of the command table, as the separate stores
they are; an abstract connection for `RadioBridge`.

Next theorems: what of the HAL's promises is left for a client that reuses
ids; the refinement by `RadioBridge` once its abstract connection is there.

## 7. What is left out

* The contents of netlink messages, of scan results and of the vendor data;
  formatting and logging.
* Torn updates of the command table: `wifi_register_cmd` and
  `wifi_unregister_cmd` take no lock, so the API thread and an RTT completion
  may meet inside `memmove`. The model makes each operation atomic.
* A remote call of the radio bridge that fails although the server took it: a
  call fails without effect or succeeds.
* An endless stream of events, which the event loop serves before the exit
  message of `wifi_cleanup` (`wifi_hal.cpp:458`): the runs bound the events.
* Loss of the answer to a request: `requestResponse` would wait for ever, and
  the fairness above excludes it.
* `requestEvent` and `requestVendorEvent` and their condition variable, which
  nothing calls.
* The capability, country and feature queries of the HAL, which keep no state.
* Of the supplicant's commands: WAPI keys and messages, `mtk_rx_packet_filter`,
  display data, P2P capabilities, the MAC address; malformed
  arguments, except that a refused command may stand for one.
* What init does with the `.rc` files, and all of the declarative data.

## 8. Running

    tlc -config WifiHalRtt.cfg MCWifiHal
    tlapm WifiHalProofs.tla

`PROJECT.json` names the module and the configuration of every run. The longest
takes about three minutes on two workers, and `tlapm WifiHalProofs.tla` three.
