---------------------------- MODULE BootBridge ----------------------------
(***************************************************************************)
(* rootdir/bootbridge-init.c, the first process of the device: it waits    *)
(* for the eMMC, mounts userdata and the system partition, creates the     *)
(* mount points that init needs, forks two loggers and hands over to /init *)
(* of the system partition.  Most results are only logged; a failed log    *)
(* file or system mount stops the boot for ever.  The loggers change       *)
(* nothing that the bridge reads, so a step is one or several system calls *)
(* whose results nothing else depends on.                                  *)
(***************************************************************************)
EXTENDS Naturals

CONSTANTS
    Tries,          \* how often the mount of userdata is tried (60)
    RootWritable    \* whether the root the kernel mounted can be written

ASSUME BootAssumption == Tries \in Nat \ {0} /\ RootWritable \in BOOLEAN

(* Mount points of vendor partitions (storage/usbotg is below storage), and *)
(* the targets of what is mounted later.                                    *)
VendorDirs == {"nvdata", "storage", "storage/usbotg"}
TargetDirs == {"data", "dev", "proc", "sys"}
Temporary  == {"/proc", "/sys", "/dev"}
Places     == Temporary \cup {"/diagdata", "/newroot", "/newroot/data"}
Stages     == {"userdata_mount", "system_mount", "system_remount_rw",
               "system_remount_ro", "kmsg_open", "kmsg_logger_fork", "logcat_logger_fork"}

VARIABLES
    pc,         \* the process that becomes init
    i,          \* failed tries
    mounts,     \* the places something is mounted on
    nodes,      \* whether the device nodes of the partitions exist
    log,        \* the stages that bootbridge.log reports as successful
    dirs,       \* the directories of the system partition
    writable,   \* whether the system partition can be written
    faults      \* auxiliary: the unchecked calls that failed although nothing
                \* the bridge did before was in their way, by what they act on

vars == <<pc, i, mounts, nodes, log, dirs, writable, faults>>

TypeOK ==
    /\ pc \in {"start", "userdata", "log", "system", "remount", "fork", "move",
               "chroot", "init", "halted"}
    /\ i \in 0..Tries
    /\ mounts \subseteq Places
    /\ nodes \in BOOLEAN
    /\ log \subseteq Stages
    /\ dirs \subseteq VendorDirs \cup TargetDirs
    /\ writable \in BOOLEAN
    /\ faults \subseteq VendorDirs \cup TargetDirs \cup Temporary \cup {"/diagdata"}

(* The image of the system partition may lack any of the directories.       *)
Init ==
    /\ pc = "start" /\ i = 0
    /\ mounts = {} /\ nodes = FALSE /\ log = {}
    /\ \E d \in SUBSET (VendorDirs \cup {"data"}) :
          /\ "storage/usbotg" \in d => "storage" \in d
          /\ dirs = d \cup {"dev", "proc", "sys"}
    /\ writable = FALSE /\ faults = {}

Goes(from, to) == pc = from /\ pc' = to

(* proc, sysfs and devtmpfs, each of which may fail unnoticed, and the      *)
(* nodes of the two partitions.                                             *)
MountTemporary ==
    /\ Goes("start", "userdata")
    /\ \E done \in SUBSET Temporary :
          /\ mounts' = done
          /\ nodes' = ("/dev" \in done \/ RootWritable)
    /\ UNCHANGED <<i, log, dirs, writable, faults>>

(* A try that succeeds, or fails with EBUSY, ends the loop.                 *)
TryUserdata ==
    /\ Goes("userdata", "log")
    /\ i < Tries /\ nodes
    /\ mounts' \in {mounts, mounts \cup {"/diagdata"}}
    /\ UNCHANGED <<i, nodes, log, dirs, writable, faults>>

(* A fault: the counter starts again.                                       *)
RetryWithoutCounting ==
    /\ pc = "userdata" /\ i < Tries
    /\ i' = 1 - i
    /\ UNCHANGED <<pc, mounts, nodes, log, dirs, writable, faults>>

RetryUserdata ==
    /\ pc = "userdata" /\ i < Tries
    /\ i' = i + 1
    /\ UNCHANGED <<pc, mounts, nodes, log, dirs, writable, faults>>

GiveUpUserdata ==
    /\ Goes("userdata", "log")
    /\ i = Tries
    /\ UNCHANGED <<i, mounts, nodes, log, dirs, writable, faults>>

(* The log file needs a file system in which it can be created.             *)
OpenLog ==
    /\ Goes("log", "system")
    /\ "/diagdata" \in mounts \/ RootWritable
    /\ log' = IF "/diagdata" \in mounts THEN {"userdata_mount"} ELSE {}
    /\ UNCHANGED <<i, mounts, nodes, dirs, writable, faults>>

MountSystem ==
    /\ Goes("system", "remount")
    /\ nodes
    /\ mounts' = mounts \cup {"/newroot"}
    /\ log' = log \cup {"system_mount"}
    /\ UNCHANGED <<i, nodes, dirs, writable, faults>>

(* A fault: a log file that cannot be opened is done without.               *)
HaltOnSystemOnly ==
    /\ \/ Goes("log", "system")
       \/ Goes("system", "halted")
    /\ UNCHANGED <<i, mounts, nodes, log, dirs, writable, faults>>

(* The log cannot be opened, or the system partition not be mounted.        *)
Halt ==
    /\ Goes("log", "halted") \/ Goes("system", "halted")
    /\ UNCHANGED <<i, mounts, nodes, log, dirs, writable, faults>>

(* mkdir of the directories that are missing: none succeeds on a read-only  *)
(* file system, and on a writable one any may fail (ENOSPC, EIO), and with  *)
(* a parent what is below it.                                               *)
Mkdirs(wanted, rw) ==
    \E made \in SUBSET (wanted \ dirs) :
        /\ made # {} => rw
        /\ "storage/usbotg" \in made => "storage" \in dirs \cup made
        /\ dirs' = dirs \cup made
        /\ faults' = IF rw THEN faults \cup (wanted \ dirs') ELSE faults

(* A fault: the directories are created in the read-only view.              *)
CreateThenRemount ==
    /\ Goes("remount", "fork")
    /\ Mkdirs(VendorDirs, FALSE)
    /\ \E ok \in SUBSET {"system_remount_rw", "system_remount_ro"} :
          /\ log' = log \cup ok
          /\ writable' = (ok = {"system_remount_rw"})
    /\ UNCHANGED <<i, mounts, nodes>>

(* Writable, the mount points created, read-only again.                     *)
CreateMountPoints ==
    /\ Goes("remount", "fork")
    /\ \E ok \in SUBSET {"system_remount_rw", "system_remount_ro"} :
          /\ log' = log \cup ok
          /\ Mkdirs(VendorDirs, "system_remount_rw" \in ok)
          /\ writable' = (ok = {"system_remount_rw"})
    /\ UNCHANGED <<i, mounts, nodes>>

(* /proc/kmsg is opened and drained without blocking, and each child runs   *)
(* its logger for ever or exits; a fork may fail.                           *)
ForkLoggers ==
    /\ Goes("fork", "move")
    /\ \E ok \in SUBSET {"kmsg_open", "kmsg_logger_fork", "logcat_logger_fork"} :
          /\ "kmsg_open" \in ok => "/proc" \in mounts
          /\ log' = log \cup ok
    /\ UNCHANGED <<i, mounts, nodes, dirs, writable, faults>>

(* MS_MOVE needs userdata on /diagdata and the target, and may still fail.  *)
Movable == "/diagdata" \in mounts /\ "data" \in dirs'

Moved(moves) ==
    IF moves THEN (mounts \ {"/diagdata"}) \cup {"/newroot/data"} ELSE mounts

(* A fault: the temporary mounts are left.                                  *)
MoveOnly ==
    /\ Goes("move", "chroot")
    /\ dirs' = IF writable THEN dirs \cup TargetDirs ELSE dirs
    /\ \E moves \in BOOLEAN :
          /\ moves => Movable
          /\ mounts' = Moved(moves)
          /\ faults' = faults \cup (IF Movable /\ ~moves THEN {"/diagdata"} ELSE {})
    /\ UNCHANGED <<i, nodes, log, writable>>

(* The targets are created where that is still possible, userdata is moved, *)
(* and the temporary mounts are detached, each unless its call fails.       *)
MoveMounts ==
    /\ Goes("move", "chroot")
    /\ \E made \in SUBSET (IF writable THEN TargetDirs \ dirs ELSE {}),
          moves \in BOOLEAN, kept \in SUBSET (mounts \cap Temporary) :
          /\ dirs' = dirs \cup made
          /\ moves => Movable
          /\ mounts' = Moved(moves) \ (Temporary \ kept)
          /\ faults' = faults \cup kept
                          \cup (IF writable THEN TargetDirs \ dirs' ELSE {})
                          \cup (IF Movable /\ ~moves THEN {"/diagdata"} ELSE {})
    /\ UNCHANGED <<i, nodes, log, writable>>

(* chroot, chdir and exec, or a last line in the log and a halt.            *)
HandOver ==
    /\ Goes("chroot", "init") \/ Goes("chroot", "halted")
    /\ UNCHANGED <<i, mounts, nodes, log, dirs, writable, faults>>

Next ==
    \/ MountTemporary \/ TryUserdata \/ RetryUserdata \/ GiveUpUserdata
    \/ OpenLog \/ MountSystem \/ Halt
    \/ CreateMountPoints \/ ForkLoggers \/ MoveMounts \/ HandOver

(* Nothing stops the first process, and its system calls return.            *)
Spec == Init /\ [][Next]_vars /\ WF_vars(Next)

-----------------------------------------------------------------------------
(* No boot enters init without userdata: after tries that all failed, or    *)
(* one that ended with EBUSY, the open of the log file is what keeps the    *)
(* boot from going on, as long as the root of the kernel is read-only.      *)
(* Userdata is on /data then, as init.mt6757.rc says it is, unless the      *)
(* image has no /data, which is not created because the partition is        *)
(* read-only again, or the MS_MOVE fails: nobody looks at either call.      *)
UserdataAtHandOver ==
    pc = "init" =>
        \/ "/newroot/data" \in mounts
        \/ "/diagdata" \in mounts /\ ("data" \notin dirs \/ "/diagdata" \in faults)

(* FirstStageMain "treats EBUSY as fatal": when init is entered the new     *)
(* root is there, and of what the bridge mounted for itself only that is    *)
(* left whose umount2 failed.                                               *)
TargetsEmpty ==
    pc = "init" => "/newroot" \in mounts /\ mounts \cap Temporary \subseteq faults

(* If the log says that the system partition became writable, fs_mgr finds  *)
(* every vendor mount point, whatever the image lacked, but for those whose *)
(* mkdir failed on the writable partition.                                  *)
MountPointsReady ==
    pc = "init" /\ "system_remount_rw" \in log => VendorDirs \ faults \subseteq dirs

(* The boot is decided: the retries come to an end and no failure leaves    *)
(* the bridge waiting half-way.                                             *)
Decides == <>(pc \in {"init", "halted"})

(* First-stage init finds the mount points it needs and nothing mounted in  *)
(* its way, but for what the failure of the very call for it explains: the  *)
(* bridge does everything that is needed, and in an order that works.       *)
ReadyForInit == TargetsEmpty /\ MountPointsReady
=============================================================================
