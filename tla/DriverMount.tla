----------------------------- MODULE DriverMount -----------------------------
(***************************************************************************)
(* The driver's table of mounted volumes and the handlers that change it:  *)
(* mount, unmount, unmount all, system shutdown and driver unload.  The    *)
(* I/O manager calls the handlers on whatever thread sends the request, so *)
(* they interleave; the driver's statics have no lock.                     *)
(*                                                                         *)
(* Abstractions.  A volume's threads appear by what VolumeService promises *)
(* of them: a started volume has its host file open until it is stopped    *)
(* (VolumeThread has the thread that outlives its stop).  A volume device  *)
(* is a number, in the order of creation.  The Object Manager lets a       *)
(* device name exist once.  The Mount Manager does what it is asked or     *)
(* fails, and the driver goes on either way.  Unload runs only when no     *)
(* other request is in the driver.                                         *)
(***************************************************************************)
EXTENDS Naturals, Sequences

CONSTANTS
  Mounters,    \* threads that send mount requests
  Teardowns,   \* threads that send unmount, unmount all and shutdown requests
  MaxDrive,    \* MAX_DRIVE, the number of drive letters
  MaxDevs      \* bound: volume devices created in a behaviour

ASSUME ThreadAssumption == Mounters \cap Teardowns = {}
ASSUME BoundAssumption == MaxDrive \in Nat \ {0} /\ MaxDevs \in Nat

Threads == Mounters \cup Teardowns
Drives == 1 .. MaxDrive
Null == 0

\* A thread that is in no handler.
Idle ==
  [pc |-> "idle", op |-> "none", drv |-> 1, dv |-> Null, tmp |-> 0,
   ids |-> [d \in Drives |-> 0], best |-> MaxDrive + 1, round |-> 0, from |-> 0]

VARIABLES
  table,    \* VOLUME_DEVICES: Drives -> a device or Null
  devs,     \* the volume devices created so far
  lastId,   \* LAST_VOLUME_ID
  points,   \* drive letters the Mount Manager has assigned
  loaded,   \* ROOT_DEVICE is not null
  th        \* each thread's position and local variables:
            \*   pc, op     program counter; the request it works on
            \*   drv, dv    its drive number; the device it works on
            \*   tmp        next_volume_id's load of LAST_VOLUME_ID
            \*   ids, best  unmount all: snapshot of the ids; max_idx
            \*   round      unmount all: rounds begun
            \*   from       history: the number of devices created when unmount
            \*              all began if no mount was in progress, else 0

vars == <<table, devs, lastId, points, loaded, th>>

Init ==
  /\ table = [d \in Drives |-> Null]
  /\ devs = <<>>
  /\ lastId = 0
  /\ points = {}
  /\ loaded = TRUE
  /\ th = [t \in Threads |-> Idle]

At(t, l) == th[t].pc = l
Goto(t, l) == th' = [th EXCEPT ![t].pc = l]
Return(t) == th' = [th EXCEPT ![t] = Idle]

\* A device of this name exists.
NameTaken(d) == \E n \in DOMAIN devs : devs[n].drive = d /\ devs[n].state # "deleted"

-----------------------------------------------------------------------------
\* handle_mount_volume and mount_device.

\* The slot is looked at once, long before it is filled.
BeginMount(t, d) ==
  /\ loaded
  /\ At(t, "idle")
  /\ table[d] = Null
  /\ Len(devs) < MaxDevs
  /\ th' = [th EXCEPT ![t] = [Idle EXCEPT !.pc = "create", !.op = "mount", !.drv = d]]
  /\ UNCHANGED <<table, devs, lastId, points, loaded>>

NewDevice(t) ==
  /\ Len(devs) < MaxDevs
  /\ devs' = Append(devs, [drive |-> th[t].drv, id |-> 0, state |-> "new"])
  /\ th' = [th EXCEPT ![t].dv = Len(devs) + 1, ![t].pc = "load"]

\* Variant: the device is created without its name.
CreateDeviceUnnamed(t) ==
  /\ At(t, "create")
  /\ \/ NewDevice(t)
     \/ UNCHANGED devs /\ Return(t)
  /\ UNCHANGED <<table, lastId, points, loaded>>

\* IoCreateDevice fails while a device has the name, and for want of memory:
\* mount_device ends here with ERR_OS_ERROR.
CreateDevice(t) ==
  /\ At(t, "create")
  /\ \/ ~NameTaken(th[t].drv) /\ NewDevice(t)
     \/ UNCHANGED devs /\ Return(t)
  /\ UNCHANGED <<table, lastId, points, loaded>>

\* next_volume_id: a load, then a store.
LoadId(t) ==
  /\ At(t, "load")
  /\ th' = [th EXCEPT ![t].tmp = lastId, ![t].pc = "store"]
  /\ UNCHANGED <<table, devs, lastId, points, loaded>>

StoreId(t) ==
  /\ At(t, "store")
  /\ lastId' = th[t].tmp + 1
  /\ Goto(t, "setid")
  /\ UNCHANGED <<table, devs, points, loaded>>

\* The value it returns is the one it stored, or is loaded once more.
SetId(t) ==
  /\ At(t, "setid")
  /\ \E id \in {th[t].tmp + 1, lastId} : devs' = [devs EXCEPT ![th[t].dv].id = id]
  /\ Goto(t, "start")
  /\ UNCHANGED <<table, lastId, points, loaded>>

\* The ThreadBlock and tc_start_volume_thread: the volume is up, or its
\* device is deleted again.
StartThread(t) ==
  /\ At(t, "start")
  /\ \/ devs' = [devs EXCEPT ![th[t].dv].state = "up"] /\ Goto(t, "point")
     \/ devs' = [devs EXCEPT ![th[t].dv].state = "deleted"] /\ Return(t)
  /\ UNCHANGED <<table, lastId, points, loaded>>

\* notify_volume_arrival and create_mount_point.  send_mountmgr_ioctl returns
\* nothing: whether or not the volume got its letter, the mount goes on.
CreateMountPoint(t) ==
  /\ At(t, "point")
  /\ points' = points \cup {th[t].drv} \/ UNCHANGED points
  /\ Goto(t, "publish")
  /\ UNCHANGED <<table, devs, lastId, loaded>>

Publish(t) ==
  /\ At(t, "publish")
  /\ table' = [table EXCEPT ![th[t].drv] = th[t].dv]
  /\ Return(t)
  /\ UNCHANGED <<devs, lastId, points, loaded>>

-----------------------------------------------------------------------------
\* unmount_device, and the loops of shutdown and unload, which do the same
\* for every drive but leave the mount point.

BeginTeardown(t, request, d) ==
  /\ loaded
  /\ At(t, "idle")
  /\ th' = [th EXCEPT ![t] = [Idle EXCEPT !.pc = "read", !.op = request, !.drv = d]]
  /\ UNCHANGED <<table, devs, lastId, points>>

BeginUnmount(t, d) == BeginTeardown(t, "unmount", d) /\ UNCHANGED loaded
BeginShutdown(t) == BeginTeardown(t, "shutdown", 1) /\ UNCHANGED loaded
BeginUnload(t) ==
  /\ \A u \in Threads : At(u, "idle")
  /\ BeginTeardown(t, "unload", 1)
  /\ loaded' = FALSE

\* Done with one drive: the handler returns, or goes on with its loop.
DriveDone(t) ==
  \/ th[t].op = "unmount" /\ Return(t)
  \/ th[t].op = "all" /\ Goto(t, "round")
  \/ th[t].op \in {"shutdown", "unload"} /\ Goto(t, "advance")

ReadSlot(t) ==
  /\ At(t, "read")
  /\ \/ table[th[t].drv] = Null /\ DriveDone(t)
     \/ /\ table[th[t].drv] # Null
        /\ th' = [th EXCEPT ![t].dv = table[th[t].drv], ![t].pc = "clear"]
  /\ UNCHANGED <<table, devs, lastId, points, loaded>>

\* Variant: the slot is not cleared.
ClearSlotMissing(t) ==
  /\ At(t, "clear")
  /\ Goto(t, IF th[t].op \in {"unmount", "all"} THEN "unpoint" ELSE "stop")
  /\ UNCHANGED <<table, devs, lastId, points, loaded>>

ClearSlot(t) ==
  /\ At(t, "clear")
  /\ table' = [table EXCEPT ![th[t].drv] = Null]
  /\ Goto(t, IF th[t].op \in {"unmount", "all"} THEN "unpoint" ELSE "stop")
  /\ UNCHANGED <<devs, lastId, points, loaded>>

\* delete_mount_point, with the same silence on failure: the letter stays.
DeleteMountPoint(t) ==
  /\ At(t, "unpoint")
  /\ points' = points \ {th[t].drv} \/ UNCHANGED points
  /\ Goto(t, "stop")
  /\ UNCHANGED <<table, devs, lastId, loaded>>

\* Variant: the device is deleted, and its name free, before the thread is
\* done with the drive's mount point.
StopThreadAndDelete(t) ==
  /\ At(t, "stop")
  /\ \/ /\ devs[th[t].dv].state = "up"
        /\ devs' = [devs EXCEPT ![th[t].dv].state = "deleted"]
        /\ Goto(t, "unpoint")
     \/ /\ devs[th[t].dv].state = "deleted"
        /\ Goto(t, "delete")
        /\ UNCHANGED devs
  /\ UNCHANGED <<table, lastId, points, loaded>>

\* tc_stop_volume_thread
StopThread(t) ==
  /\ At(t, "stop")
  /\ devs' = [devs EXCEPT ![th[t].dv].state = "stopped"]
  /\ Goto(t, "delete")
  /\ UNCHANGED <<table, lastId, points, loaded>>

DeleteDevice(t) ==
  /\ At(t, "delete")
  /\ devs' = [devs EXCEPT ![th[t].dv].state = "deleted"]
  /\ DriveDone(t)
  /\ UNCHANGED <<table, lastId, points, loaded>>

\* Variant: the loop runs one drive too far.
AdvanceTooFar(t) ==
  /\ At(t, "advance")
  /\ \/ th[t].drv > MaxDrive /\ Return(t)
     \/ /\ th[t].drv <= MaxDrive
        /\ th' = [th EXCEPT ![t].drv = @ + 1, ![t].pc = "read"]
  /\ UNCHANGED <<table, devs, lastId, points, loaded>>

\* The next drive of the shutdown or unload loop, or its end.
Advance(t) ==
  /\ At(t, "advance")
  /\ \/ th[t].drv = MaxDrive /\ Return(t)
     \/ /\ th[t].drv < MaxDrive
        /\ th' = [th EXCEPT ![t].drv = @ + 1, ![t].pc = "read"]
  /\ UNCHANGED <<table, devs, lastId, points, loaded>>

-----------------------------------------------------------------------------
\* handle_unmount_all_volumes.

BeginUnmountAll(t) ==
  /\ loaded
  /\ At(t, "idle")
  /\ th' = [th EXCEPT ![t] = [Idle EXCEPT !.pc = "snapshot", !.op = "all",
                             !.from = IF \A m \in Mounters : At(m, "idle")
                                        THEN Len(devs) ELSE 0]]
  /\ UNCHANGED <<table, devs, lastId, points, loaded>>

\* One iteration of the loop that notes the volume ids.
Snapshot(t) ==
  LET d == th[t].drv
      id == IF table[d] = Null THEN 0 ELSE devs[table[d]].id
  IN  /\ At(t, "snapshot")
      /\ th' = [th EXCEPT ![t].ids[d] = id,
                          ![t].drv = IF d = MaxDrive THEN 1 ELSE d + 1,
                          ![t].pc = IF d = MaxDrive THEN "round" ELSE "snapshot"]
      /\ UNCHANGED <<table, devs, lastId, points, loaded>>

\* Variant: only a search that finds a volume counts as a round.
ScanUncounted(t) ==
  /\ At(t, "scan")
  /\ \/ /\ table[th[t].drv] = Null
        /\ th' = [th EXCEPT ![t].drv = IF @ < MaxDrive THEN @ + 1 ELSE 1]
     \/ /\ table[th[t].drv] # Null
        /\ Goto(t, "read")
  /\ UNCHANGED <<table, devs, lastId, points, loaded>>

\* Variant: one round less than there are drives.
RoundShort(t) ==
  /\ At(t, "round")
  /\ \/ /\ th[t].round = MaxDrive - 1
        /\ th' = [th EXCEPT ![t].round = MaxDrive]
     \/ th[t].round = MaxDrive /\ Return(t)
     \/ /\ th[t].round < MaxDrive - 1
        /\ th' = [th EXCEPT ![t].round = @ + 1, ![t].best = MaxDrive + 1,
                            ![t].drv = 1, ![t].pc = "scan"]
  /\ UNCHANGED <<table, devs, lastId, points, loaded>>

\* The next of MAX_DRIVE rounds, or the end.
Round(t) ==
  /\ At(t, "round")
  /\ \/ th[t].round = MaxDrive /\ Return(t)
     \/ /\ th[t].round < MaxDrive
        /\ th' = [th EXCEPT ![t].round = @ + 1, ![t].best = MaxDrive + 1,
                            ![t].drv = 1, ![t].pc = "scan"]
  /\ UNCHANGED <<table, devs, lastId, points, loaded>>

\* One iteration of the search for the highest id of the snapshot; after the
\* last, unmount_device of the drive found.
Scan(t) ==
  LET d == th[t].drv
      best == th[t].best
      better == table[d] # Null /\ (best > MaxDrive \/ th[t].ids[d] > th[t].ids[best])
      best1 == IF better THEN d ELSE best
  IN  /\ At(t, "scan")
      /\ \/ /\ d < MaxDrive
            /\ th' = [th EXCEPT ![t].best = best1, ![t].drv = d + 1]
         \/ /\ d = MaxDrive /\ best1 > MaxDrive
            /\ Goto(t, "round")
         \/ /\ d = MaxDrive /\ best1 <= MaxDrive
            /\ th' = [th EXCEPT ![t].drv = best1, ![t].pc = "read"]
      /\ UNCHANGED <<table, devs, lastId, points, loaded>>

-----------------------------------------------------------------------------

Mount(t) ==
  CreateDevice(t) \/ LoadId(t) \/ StoreId(t) \/ SetId(t)
    \/ StartThread(t) \/ CreateMountPoint(t) \/ Publish(t)

Teardown(t) ==
  ReadSlot(t) \/ ClearSlot(t) \/ DeleteMountPoint(t) \/ StopThread(t)
    \/ DeleteDevice(t) \/ Advance(t) \/ Snapshot(t) \/ Round(t) \/ Scan(t)

Begin(t) ==
  \/ t \in Mounters /\ \E d \in Drives : BeginMount(t, d)
  \/ t \in Teardowns /\ \E d \in Drives : BeginUnmount(t, d)
  \/ t \in Teardowns /\ (BeginShutdown(t) \/ BeginUnload(t) \/ BeginUnmountAll(t))

\* The driver is gone.
Unloaded ==
  /\ ~loaded
  /\ \A t \in Threads : At(t, "idle")
  /\ UNCHANGED vars

Next == (\E t \in Threads : Begin(t) \/ Mount(t) \/ Teardown(t)) \/ Unloaded

\* A thread in a tear-down handler goes on.  Its wait for the worker thread
\* ends, as VolumeThread shows (StopEnds).
Fairness == \A t \in Teardowns : WF_vars(Teardown(t))

Spec == Init /\ [][Next]_vars /\ Fairness

-----------------------------------------------------------------------------
\* Properties.

Locals ==
  [pc : {"idle", "create", "load", "store", "setid", "start", "point", "publish", "read",
         "clear", "unpoint", "stop", "delete", "advance", "snapshot", "round", "scan"},
   op : {"none", "mount", "unmount", "all", "shutdown", "unload"},
   drv : Drives, dv : 0 .. MaxDevs, tmp : Nat, ids : [Drives -> Nat],
   best : 1 .. MaxDrive + 1, round : 0 .. MaxDrive, from : 0 .. MaxDevs]

\* Types; the loops of shutdown, unload and unmount all stay within the drives.
TypeOK ==
  /\ table \in [Drives -> 0 .. MaxDevs]
  /\ devs \in Seq([drive : Drives, id : Nat,
                   state : {"new", "up", "stopped", "deleted"}])
  /\ lastId \in Nat
  /\ points \subseteq Drives
  /\ loaded \in BOOLEAN
  /\ th \in [Threads -> Locals]

\* With one tear-down request at a time, every entry of VOLUME_DEVICES is a
\* live volume of that drive, however mounts and the tear-down interleave:
\* no handler finds a device there that is being or has been deleted.
TableIsLive ==
  \A d \in Drives : table[d] # Null =>
    /\ table[d] \in DOMAIN devs
    /\ devs[table[d]].drive = d
    /\ devs[table[d]].state = "up"

\* No mounted volume is lost: a volume that is up is in the table, or a
\* thread is about to put it there or to stop it.  Two mounts of one drive
\* that both saw the slot empty do not overwrite each other's entry.
AtWork ==
  {"load", "store", "setid", "start", "point", "publish", "clear", "unpoint", "stop"}
NoVolumeLost ==
  \A n \in DOMAIN devs : devs[n].state \in {"new", "up"} =>
    \/ \E d \in Drives : table[d] = n
    \/ \E t \in Threads : th[t].pc \in AtWork /\ th[t].dv = n

\* A drive letter is taken only from the volume that is being unmounted: a
\* volume that is mounted, or about to be published, keeps the letter the
\* Mount Manager gave it, even when a mount of a drive follows an unmount of
\* the same drive closely.  It need not have been given one: a refused letter
\* leaves a mounted volume without, and a refused removal a letter with no
\* volume, and mount_device and unmount_device are told of neither.
LosesLetter(n) == devs[n].drive \in points \ points'
BeingUnmounted(n) == \E t \in Threads : At(t, "unpoint") /\ th[t].dv = n
LettersKept ==
  [][ \A n \in DOMAIN devs : devs[n].state = "up" /\ LosesLetter(n)
        => BeingUnmounted(n) ]_vars

\* When unmount all ends no volume is mounted, unless a mount ran meanwhile:
\* MAX_DRIVE rounds of the search are enough, also when the ids are not
\* distinct.
UnmountAllDone(t) == At(t, "round") /\ th[t].round = MaxDrive
NoMountMeanwhile(t) == th[t].from = Len(devs)
UnmountAllUnmounts ==
  \A t \in Teardowns : UnmountAllDone(t) /\ NoMountMeanwhile(t)
    => \A d \in Drives : table[d] = Null

\* Every tear-down request ends: the searches of unmount all and the loops over the
\* drives are bounded, whatever mounts do to the table meanwhile.
TeardownsEnd == \A t \in Teardowns : ~At(t, "idle") ~> At(t, "idle")

=============================================================================
