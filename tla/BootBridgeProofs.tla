------------------------- MODULE BootBridgeProofs -------------------------
(***************************************************************************)
(* What first-stage init may rely on when the boot bridge enters it, for   *)
(* any number of tries and whatever system calls failed unnoticed.         *)
(***************************************************************************)
EXTENDS BootBridge, TLAPS

(* Control has passed the mount of the system partition.                    *)
SystemThere == {"remount", "fork", "move", "chroot", "init"}

(* Control has passed the creation of the mount points.                     *)
PointsThere == {"fork", "move", "chroot", "init"}

(* The new root stays mounted, and what outlives MoveMounts of the          *)
(* temporary mounts could not be detached.                                  *)
RootInv ==
    /\ pc \in SystemThere => "/newroot" \in mounts
    /\ pc \in {"chroot", "init"} => mounts \cap Temporary \subseteq faults

(* The line that the partition became writable is only in the log once      *)
(* every directory has been created, or its mkdir has failed.               *)
PointsInv ==
    /\ "system_remount_rw" \in log /\ pc # "halted" => pc \in PointsThere
    /\ pc \in PointsThere /\ "system_remount_rw" \in log => VendorDirs \ faults \subseteq dirs

(* Behind the open of the log userdata is mounted, on the bridge's own      *)
(* directory until it is moved.                                             *)
UserdataInv ==
    /\ pc \in {"system", "remount", "fork", "move"} => "/diagdata" \in mounts
    /\ pc \in {"chroot", "init"} =>
          \/ "/newroot/data" \in mounts
          \/ "/diagdata" \in mounts /\ ("data" \notin dirs \/ "/diagdata" \in faults)

(* UserdataInv only holds where the root of the kernel is read-only.        *)
BootInv == TypeOK /\ RootInv /\ PointsInv /\ (~RootWritable => UserdataInv)

USE DEF Places, Stages, VendorDirs, TargetDirs, Temporary, SystemThere, PointsThere

(* The bridge starts without mounts and without a log.                      *)
LEMMA BootStarts == Init => BootInv
  <1> SUFFICES ASSUME Init PROVE BootInv
    OBVIOUS
  <1>1. TypeOK
    <2>1. i \in 0..Tries
      BY BootAssumption DEF Init
    <2>2. dirs \subseteq VendorDirs \cup TargetDirs
      BY DEF Init
    <2> QED BY <2>1, <2>2 DEF Init, TypeOK
  <1>2. RootInv /\ PointsInv /\ UserdataInv
    BY DEF Init, RootInv, PointsInv, UserdataInv
  <1> QED BY <1>1, <1>2 DEF BootInv

(* Every step of the bridge keeps the invariant.                            *)
LEMMA BootStep == BootInv /\ [Next]_vars => BootInv'
  <1> SUFFICES ASSUME TypeOK, RootInv, PointsInv, ~RootWritable => UserdataInv, [Next]_vars
               PROVE  BootInv'
    BY DEF BootInv
  <1> USE DEF Goes
  <1>1. CASE MountTemporary
    <2>1. TypeOK'
      BY <1>1, BootAssumption DEF MountTemporary, TypeOK
    <2>2. RootInv' /\ PointsInv' /\ UserdataInv'
      BY <1>1 DEF MountTemporary, RootInv, PointsInv, UserdataInv
    <2> QED BY <2>1, <2>2 DEF BootInv
  <1>2. CASE TryUserdata
    <2>1. TypeOK'
      BY <1>2 DEF TryUserdata, TypeOK
    <2>2. RootInv' /\ PointsInv' /\ UserdataInv'
      BY <1>2 DEF TryUserdata, RootInv, PointsInv, UserdataInv
    <2> QED BY <2>1, <2>2 DEF BootInv
  <1>3. CASE RetryUserdata
    <2>1. TypeOK'
      BY <1>3, BootAssumption DEF RetryUserdata, TypeOK
    <2>2. RootInv' /\ PointsInv' /\ UserdataInv'
      BY <1>3 DEF RetryUserdata, RootInv, PointsInv, UserdataInv
    <2> QED BY <2>1, <2>2 DEF BootInv
  <1>4. CASE GiveUpUserdata
    <2>1. TypeOK'
      BY <1>4 DEF GiveUpUserdata, TypeOK
    <2>2. RootInv' /\ PointsInv' /\ UserdataInv'
      BY <1>4 DEF GiveUpUserdata, RootInv, PointsInv, UserdataInv
    <2> QED BY <2>1, <2>2 DEF BootInv
  <1>5. CASE OpenLog
    <2>1. TypeOK'
      BY <1>5 DEF OpenLog, TypeOK
    <2>2. RootInv' /\ PointsInv'
      BY <1>5 DEF OpenLog, RootInv, PointsInv
    <2>3. ~RootWritable => UserdataInv'
      BY <1>5 DEF OpenLog, UserdataInv
    <2> QED BY <2>1, <2>2, <2>3 DEF BootInv
  <1>6. CASE MountSystem
    <2>1. TypeOK'
      BY <1>6 DEF MountSystem, TypeOK
    <2>2. RootInv' /\ PointsInv'
      BY <1>6 DEF MountSystem, RootInv, PointsInv
    <2>3. ~RootWritable => UserdataInv'
      BY <1>6 DEF MountSystem, UserdataInv
    <2> QED BY <2>1, <2>2, <2>3 DEF BootInv
  <1>7. CASE Halt
    <2>1. TypeOK'
      BY <1>7 DEF Halt, TypeOK
    <2>2. RootInv' /\ PointsInv' /\ UserdataInv'
      BY <1>7 DEF Halt, RootInv, PointsInv, UserdataInv
    <2> QED BY <2>1, <2>2 DEF BootInv
  <1>8. CASE CreateMountPoints
    <2>1. PICK ok \in SUBSET {"system_remount_rw", "system_remount_ro"} :
            /\ log' = log \cup ok
            /\ Mkdirs(VendorDirs, "system_remount_rw" \in ok)
            /\ writable' = (ok = {"system_remount_rw"})
      BY <1>8 DEF CreateMountPoints
    <2>2. PICK made \in SUBSET (VendorDirs \ dirs) :
            /\ dirs' = dirs \cup made
            /\ faults' = IF "system_remount_rw" \in ok
                         THEN faults \cup (VendorDirs \ dirs') ELSE faults
      BY <2>1 DEF Mkdirs
    <2>3. pc = "remount" /\ pc' = "fork" /\ UNCHANGED <<i, mounts, nodes>>
      BY <1>8 DEF CreateMountPoints
    <2>4. TypeOK'
      BY <2>1, <2>2, <2>3 DEF TypeOK
    <2>5. RootInv'
      BY <2>3 DEF RootInv
    <2>6. PointsInv'
      BY <2>1, <2>2, <2>3 DEF PointsInv
    <2>7. ~RootWritable => UserdataInv'
      BY <2>3 DEF UserdataInv
    <2> QED BY <2>4, <2>5, <2>6, <2>7 DEF BootInv
  <1>9. CASE ForkLoggers
    <2>1. TypeOK'
      BY <1>9 DEF ForkLoggers, TypeOK
    <2>2. RootInv' /\ PointsInv'
      BY <1>9 DEF ForkLoggers, RootInv, PointsInv
    <2>3. ~RootWritable => UserdataInv'
      BY <1>9 DEF ForkLoggers, UserdataInv
    <2> QED BY <2>1, <2>2, <2>3 DEF BootInv
  <1>10. CASE MoveMounts
    <2>1. PICK made \in SUBSET (IF writable THEN TargetDirs \ dirs ELSE {}),
               moves \in BOOLEAN, kept \in SUBSET (mounts \cap Temporary) :
            /\ dirs' = dirs \cup made
            /\ moves => Movable
            /\ mounts' = Moved(moves) \ (Temporary \ kept)
            /\ faults' = faults \cup kept
                            \cup (IF writable THEN TargetDirs \ dirs' ELSE {})
                            \cup (IF Movable /\ ~moves THEN {"/diagdata"} ELSE {})
      BY <1>10 DEF MoveMounts
    <2>2. pc = "move" /\ pc' = "chroot" /\ UNCHANGED <<i, nodes, log, writable>>
      BY <1>10 DEF MoveMounts
    <2>3. made \subseteq TargetDirs /\ kept \subseteq Temporary
      BY <2>1
    <2>4. TypeOK'
      <3>1. dirs' \subseteq VendorDirs \cup TargetDirs
        BY <2>1, <2>3 DEF TypeOK
      <3>2. mounts' \subseteq Places
        BY <2>1, <2>3 DEF Moved, TypeOK
      <3>3. faults' \subseteq VendorDirs \cup TargetDirs \cup Temporary \cup {"/diagdata"}
        BY <2>1, <2>3 DEF TypeOK
      <3> QED BY <2>2, <3>1, <3>2, <3>3 DEF TypeOK
    <2>5. RootInv'
      BY <2>1, <2>2 DEF RootInv, Moved
    <2>6. PointsInv'
      BY <2>1, <2>2 DEF PointsInv
    <2>7. ~RootWritable => UserdataInv'
      <3> SUFFICES ASSUME ~RootWritable PROVE UserdataInv'
        OBVIOUS
      <3>1. "/diagdata" \in mounts
        BY <2>2 DEF UserdataInv
      <3>2. CASE moves
        BY <2>1, <2>2, <3>2 DEF UserdataInv, Moved
      <3>3. CASE ~moves /\ "data" \in dirs'
        <4>1. "/diagdata" \in mounts' /\ "/diagdata" \in faults'
          BY <2>1, <3>1, <3>3 DEF Moved, Movable
        <4> QED BY <2>2, <4>1 DEF UserdataInv
      <3>4. CASE ~moves /\ "data" \notin dirs'
        <4>1. "/diagdata" \in mounts'
          BY <2>1, <3>1, <3>4 DEF Moved
        <4> QED BY <2>2, <3>4, <4>1 DEF UserdataInv
      <3> QED BY <3>2, <3>3, <3>4
    <2> QED BY <2>4, <2>5, <2>6, <2>7 DEF BootInv
  <1>11. CASE HandOver
    <2>1. TypeOK'
      BY <1>11 DEF HandOver, TypeOK
    <2>2. RootInv' /\ PointsInv'
      BY <1>11 DEF HandOver, RootInv, PointsInv
    <2>3. ~RootWritable => UserdataInv'
      BY <1>11 DEF HandOver, UserdataInv
    <2> QED BY <2>1, <2>2, <2>3 DEF BootInv
  <1>12. CASE UNCHANGED vars
    BY <1>12 DEF vars, BootInv, TypeOK, RootInv, PointsInv, UserdataInv
  <1> QED BY <1>1, <1>2, <1>3, <1>4, <1>5, <1>6, <1>7, <1>8, <1>9, <1>10, <1>11, <1>12 DEF Next

(* BootInv holds throughout.                                                *)
LEMMA BootInvariant == Spec => []BootInv
  BY BootStarts, BootStep, PTL DEF Spec

(* When /init is entered the system partition is mounted, a temporary mount *)
(* is only left where its umount2 failed, and if the log says that the      *)
(* partition became writable a vendor mount point is only missing where its *)
(* mkdir failed, whatever the image lacked.                                 *)
THEOREM InitFindsItsMounts == Spec => []ReadyForInit
  <1>1. BootInv => ReadyForInit
    BY DEF BootInv, RootInv, PointsInv, ReadyForInit, TargetsEmpty, MountPointsReady
  <1> QED BY <1>1, BootInvariant, PTL

(* On a read-only root no boot reaches /init without userdata: however many *)
(* of the tries fail and with whichever error, the open of bootbridge.log   *)
(* stops what the loop of the mount lets through.  Userdata is on /data     *)
(* unless the image has no such directory or the MS_MOVE failed.            *)
THEOREM UserdataIsThere ==
    ASSUME RootWritable = FALSE
    PROVE  Spec => []UserdataAtHandOver
  <1>1. BootInv => UserdataAtHandOver
    BY DEF BootInv, UserdataInv, UserdataAtHandOver
  <1> QED BY <1>1, BootInvariant, PTL
=============================================================================
