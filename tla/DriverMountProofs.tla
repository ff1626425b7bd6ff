-------------------------- MODULE DriverMountProofs --------------------------
(***************************************************************************)
(* Proofs about DriverMount, for any number of threads, drives and         *)
(* devices.  The handlers share no lock; what keeps the table right is     *)
(* that the Object Manager lets one device have a name.  The inductive     *)
(* invariant says that a device which exists and is not in the table has   *)
(* exactly one thread that works on it, and that this thread is the only   *)
(* one at work on that drive.                                              *)
(*                                                                         *)
(* Two tear-downs that read a slot before either clears it stop and delete *)
(* one device twice, so the theorems about the table are for behaviours in *)
(* which this does not happen (TakenByOne).  Apart from that tear-downs    *)
(* overlap, also on one drive, and mounts overlap with them and with each  *)
(* other in every way.                                                     *)
(***************************************************************************)
EXTENDS DriverMount, FiniteSetTheorems, TLAPS

\* No two tear-downs have read the slot of a drive that neither has cleared.
TakenByOne ==
  \A t, u \in Teardowns : At(t, "clear") /\ At(u, "clear") /\ th[t].drv = th[u].drv => t = u

MountPcs == {"idle", "create", "load", "store", "setid", "start", "point", "publish"}
TeardownPcs ==
  {"idle", "read", "clear", "unpoint", "stop", "delete", "advance", "snapshot", "round",
   "scan"}

\* A mounting thread is in the mount handler, another one in a tear-down.
Handlers ==
  /\ \A t \in Mounters : th[t].pc \in MountPcs
  /\ \A t \in Teardowns : th[t].pc \in TeardownPcs

\* The positions between the creation of a device and its entry in the
\* table, and between its removal from the table and its deletion.
OwnPcs ==
  {"load", "store", "setid", "start", "point", "publish", "unpoint", "stop", "delete"}
Owns(t) == th[t].pc \in OwnPcs

StateAt(pc) ==
  CASE pc \in {"load", "store", "setid", "start"} -> "new"
    [] pc = "delete" -> "stopped"
    [] OTHER -> "up"

\* A device a thread owns is one of its drive, in the state that belongs to
\* the thread's position, and the slot of the drive is empty.
Owned ==
  \A t \in Threads : Owns(t) =>
    /\ th[t].dv \in DOMAIN devs
    /\ devs[th[t].dv].drive = th[t].drv
    /\ devs[th[t].dv].state = StateAt(th[t].pc)
    /\ table[th[t].drv] = Null

\* Two threads that own a device work on different drives.
OneOwner == \A t, u \in Threads : t # u /\ Owns(t) /\ Owns(u) => th[t].drv # th[u].drv

\* Between reading the slot and clearing it, a tear-down's device stays there.
SlotRead == \A t \in Threads : At(t, "clear") => table[th[t].drv] = th[t].dv /\ th[t].dv # Null

\* Device names are unique.
NamesUnique ==
  \A m, n \in DOMAIN devs :
    m # n /\ devs[m].state # "deleted" /\ devs[n].state # "deleted"
      => devs[m].drive # devs[n].drive

\* A device that exists is in the table or owned.
Accounted ==
  \A n \in DOMAIN devs : devs[n].state # "deleted" =>
    \/ table[devs[n].drive] = n
    \/ \E t \in Threads : Owns(t) /\ th[t].dv = n

\* Every reference to a device, in the table or a local variable, is Null or
\* the number of one that was created, and the number of devices is bounded.
Refs ==
  /\ Len(devs) <= MaxDevs
  /\ \A d \in Drives : table[d] \in 0 .. Len(devs)
  /\ \A t \in Threads : th[t].dv \in 0 .. Len(devs)

TypeInv == TypeOK /\ Refs /\ Handlers

TableInv ==
  TableIsLive /\ Owned /\ OneOwner /\ SlotRead /\ NamesUnique /\ Accounted

IndInv == TypeInv /\ TableInv

-----------------------------------------------------------------------------
\* Types.

Devices == [drive : Drives, id : Nat, state : {"new", "up", "stopped", "deleted"}]

\* The driver starts with an empty table and idle threads.
LEMMA InitTypeInv == Init => TypeInv
<1> SUFFICES ASSUME Init PROVE TypeInv
  OBVIOUS
<1>1. /\ 1 \in Drives /\ MaxDrive + 1 \in 1 .. MaxDrive + 1 /\ 0 \in 0 .. MaxDevs
      /\ 0 \in 0 .. MaxDrive
  BY BoundAssumption DEF Drives
<1>2. Idle \in Locals
  BY <1>1 DEF Idle, Locals, Null
<1>3. TypeOK
  BY <1>1, <1>2 DEF Init, TypeOK, Null
<1>4. Refs
  BY BoundAssumption DEF Init, Refs, Idle, Null
<1>5. Handlers
  BY DEF Init, Handlers, Idle, Threads, MountPcs, TeardownPcs
<1> QED BY <1>3, <1>4, <1>5 DEF TypeInv

\* What the type invariant says of the local variables, and of the rest
LocalsInv ==
  /\ th \in [Threads -> Locals]
  /\ \A u \in Threads : th[u].dv \in 0 .. Len(devs)
  /\ Handlers

SharedInv ==
  /\ table \in [Drives -> 0 .. Len(devs)]
  /\ devs \in Seq(Devices)
  /\ Len(devs) <= MaxDevs
  /\ lastId \in Nat
  /\ points \subseteq Drives
  /\ loaded \in BOOLEAN

LEMMA TypeParts == TypeInv <=> LocalsInv /\ SharedInv
<1>1. TypeInv => LocalsInv /\ SharedInv
  BY DEF TypeInv, TypeOK, Refs, LocalsInv, SharedInv, Devices
<1>2. LocalsInv /\ SharedInv => TypeInv
  <2> SUFFICES ASSUME LocalsInv, SharedInv PROVE TypeInv
    OBVIOUS
  <2>1. Len(devs) \in Nat /\ 0 .. Len(devs) \subseteq 0 .. MaxDevs
    BY BoundAssumption DEF SharedInv
  <2>2. table \in [Drives -> 0 .. MaxDevs]
    BY <2>1 DEF SharedInv
  <2> QED BY <2>2 DEF TypeInv, TypeOK, Refs, LocalsInv, SharedInv, Devices
<1> QED BY <1>1, <1>2

LEMMA TypeJoin == LocalsInv' /\ SharedInv' => TypeInv'
BY TypeParts, PTL

\* A step that changes the local variables of one thread.
SetLocals(t, r) == th' = [th EXCEPT ![t] = r]

LEMMA LocalsChanged ==
  ASSUME TypeInv, NEW t \in Threads, NEW r \in Locals, SetLocals(t, r),
         Len(devs') \in Nat, Len(devs) <= Len(devs'), r.dv \in 0 .. Len(devs'),
         t \in Mounters => r.pc \in MountPcs,
         t \in Teardowns => r.pc \in TeardownPcs
  PROVE  LocalsInv'
<1>1. th \in [Threads -> Locals] /\ devs \in Seq(Devices)
  BY DEF TypeInv, TypeOK, Devices
<1>2. th' \in [Threads -> Locals]
  BY <1>1 DEF SetLocals
<1>3. \A u \in Threads : th'[u].dv \in 0 .. Len(devs')
  BY <1>1 DEF TypeInv, Refs, SetLocals
<1>4. Handlers'
  BY <1>1 DEF TypeInv, Handlers, Threads, SetLocals
<1> QED BY <1>2, <1>3, <1>4 DEF LocalsInv

\* The fields of the local variables
LEMMA LocalFields ==
  ASSUME TypeInv, NEW t \in Threads
  PROVE  /\ th[t] \in Locals
         /\ th[t].drv \in Drives /\ th[t].dv \in 0 .. MaxDevs /\ th[t].dv \in 0 .. Len(devs)
         /\ th[t].tmp \in Nat /\ th[t].ids \in [Drives -> Nat]
         /\ th[t].best \in 1 .. MaxDrive + 1 /\ th[t].round \in 0 .. MaxDrive
         /\ th[t].from \in 0 .. MaxDevs
         /\ t \in Mounters => th[t].pc \in MountPcs
         /\ t \in Teardowns => th[t].pc \in TeardownPcs
         /\ t \in Mounters \/ t \in Teardowns
BY DEF TypeInv, TypeOK, Locals, Refs, Handlers, Threads

\* The positions of one kind of handler are not those of the other.
LEMMA KindAt ==
  ASSUME TypeInv, NEW t \in Threads
  PROVE  /\ th[t].pc \in MountPcs \ {"idle"} => t \in Mounters /\ t \notin Teardowns
         /\ th[t].pc \in TeardownPcs \ {"idle"} => t \in Teardowns /\ t \notin Mounters
BY LocalFields DEF MountPcs, TeardownPcs

\* A step to a new position that leaves the devices and the table alone
LEMMA GotoType ==
  ASSUME TypeInv, NEW t \in Threads, NEW l, Goto(t, l),
         \/ t \in Mounters /\ t \notin Teardowns /\ l \in MountPcs
         \/ t \in Teardowns /\ t \notin Mounters /\ l \in TeardownPcs,
         Len(devs') = Len(devs)
  PROVE  LocalsInv'
<1> DEFINE r == [th[t] EXCEPT !.pc = l]
<1>1. r \in Locals /\ r.dv = th[t].dv /\ r.pc = l
  BY LocalFields DEF Locals, MountPcs, TeardownPcs
<1>2. SetLocals(t, r)
  BY DEF Goto, SetLocals
<1>3. Len(devs) \in Nat
  BY DEF TypeInv, TypeOK
<1> HIDE DEF r
<1>4. /\ Len(devs') \in Nat /\ Len(devs) <= Len(devs') /\ r.dv \in 0 .. Len(devs')
      /\ t \in Mounters => r.pc \in MountPcs
      /\ t \in Teardowns => r.pc \in TeardownPcs
  BY <1>1, <1>3, LocalFields
<1> QED BY <1>1, <1>2, <1>4, LocalsChanged

\* A handler returns.
LEMMA ReturnType ==
  ASSUME TypeInv, NEW t \in Threads, Return(t), Len(devs') = Len(devs)
  PROVE  LocalsInv'
<1>1. 1 \in Drives /\ MaxDrive + 1 \in 1 .. MaxDrive + 1 /\ 0 \in 0 .. MaxDevs
      /\ 0 \in 0 .. MaxDrive
  BY BoundAssumption DEF Drives
<1>2. Idle \in Locals /\ Idle.dv = 0 /\ Idle.pc = "idle"
  BY <1>1 DEF Idle, Locals, Null
<1>3. Len(devs) \in Nat
  BY DEF TypeInv, TypeOK
<1>4. SetLocals(t, Idle)
  BY DEF Return, SetLocals
<1>5. /\ Len(devs') \in Nat /\ Len(devs) <= Len(devs') /\ Idle.dv \in 0 .. Len(devs')
      /\ Idle.pc \in MountPcs /\ Idle.pc \in TeardownPcs
  BY <1>2, <1>3 DEF MountPcs, TeardownPcs
<1> QED BY <1>2, <1>4, <1>5, LocalsChanged

\* A change of one field of a device
LEMMA StateChanged ==
  ASSUME SharedInv, NEW n,
         NEW st \in {"new", "up", "stopped", "deleted"},
         devs' = [devs EXCEPT ![n].state = st]
  PROVE  devs' \in Seq(Devices) /\ Len(devs') = Len(devs) /\ DOMAIN devs' = DOMAIN devs
<1>1. devs \in [1 .. Len(devs) -> Devices] /\ Len(devs) \in Nat
  BY DEF SharedInv
<1>2. devs' \in [1 .. Len(devs) -> Devices]
  BY <1>1 DEF Devices
<1> QED BY <1>1, <1>2

LEMMA IdChanged ==
  ASSUME SharedInv, NEW n, NEW id \in Nat, devs' = [devs EXCEPT ![n].id = id]
  PROVE  devs' \in Seq(Devices) /\ Len(devs') = Len(devs) /\ DOMAIN devs' = DOMAIN devs
<1>1. devs \in [1 .. Len(devs) -> Devices] /\ Len(devs) \in Nat
  BY DEF SharedInv
<1>2. devs' \in [1 .. Len(devs) -> Devices]
  BY <1>1 DEF Devices
<1> QED BY <1>1, <1>2

\* Requests that begin
LEMMA BeginsTyped ==
  ASSUME TypeInv, NEW t \in Threads, Begin(t)
  PROVE  TypeInv'
<1>0. SharedInv /\ Len(devs) \in Nat
  BY TypeParts DEF SharedInv
<1>1. /\ 1 \in Drives /\ 0 \in 0 .. MaxDevs /\ Len(devs) \in 0 .. MaxDevs
      /\ 0 \in 0 .. MaxDrive /\ MaxDrive + 1 \in 1 .. MaxDrive + 1
  BY <1>0, BoundAssumption DEF Drives, SharedInv
<1>2. ASSUME NEW d \in Drives, t \in Mounters, BeginMount(t, d)
      PROVE  TypeInv'
  <2> DEFINE r == [Idle EXCEPT !.pc = "create", !.op = "mount", !.drv = d]
  <2>1. SetLocals(t, r)
    BY <1>2 DEF BeginMount, SetLocals
  <2>2. r \in Locals /\ r.dv = 0 /\ r.pc \in MountPcs
    BY <1>1 DEF Idle, Locals, Null, MountPcs
  <2>3. LocalsInv'
    <3>1. t \notin Teardowns /\ UNCHANGED devs
      BY <1>2, ThreadAssumption DEF BeginMount
    <3> HIDE DEF r
    <3>2. r.dv \in 0 .. Len(devs') /\ Len(devs) <= Len(devs') /\ Len(devs') \in Nat
      BY <1>0, <2>2, <3>1
    <3> QED BY <2>1, <2>2, <3>1, <3>2, LocalsChanged
  <2>4. SharedInv'
    BY <1>0, <1>2 DEF BeginMount, SharedInv
  <2> QED BY <2>3, <2>4, TypeJoin
<1>3. ASSUME NEW d \in Drives, NEW request \in {"unmount", "shutdown", "unload"},
             t \in Teardowns, BeginTeardown(t, request, d), loaded' \in BOOLEAN
      PROVE  TypeInv'
  <2> DEFINE r == [Idle EXCEPT !.pc = "read", !.op = request, !.drv = d]
  <2>1. SetLocals(t, r)
    BY <1>3 DEF BeginTeardown, SetLocals
  <2>2. r \in Locals /\ r.dv = 0 /\ r.pc \in TeardownPcs
    BY <1>1 DEF Idle, Locals, Null, TeardownPcs
  <2>3. LocalsInv'
    <3>1. t \notin Mounters /\ UNCHANGED devs
      BY <1>3, ThreadAssumption DEF BeginTeardown
    <3> HIDE DEF r
    <3>2. r.dv \in 0 .. Len(devs') /\ Len(devs) <= Len(devs') /\ Len(devs') \in Nat
      BY <1>0, <2>2, <3>1
    <3> QED BY <2>1, <2>2, <3>1, <3>2, LocalsChanged
  <2>4. SharedInv'
    BY <1>0, <1>3 DEF BeginTeardown, SharedInv
  <2> QED BY <2>3, <2>4, TypeJoin
<1>4. ASSUME t \in Teardowns, BeginUnmountAll(t)
      PROVE  TypeInv'
  <2> DEFINE f == IF \A m \in Mounters : At(m, "idle") THEN Len(devs) ELSE 0
  <2> DEFINE r == [Idle EXCEPT !.pc = "snapshot", !.op = "all", !.from = f]
  <2>0. f \in 0 .. MaxDevs
    BY <1>1
  <2>1. SetLocals(t, r)
    BY <1>4 DEF BeginUnmountAll, SetLocals
  <2> HIDE DEF f
  <2>2. r \in Locals /\ r.dv = 0 /\ r.pc \in TeardownPcs
    BY <1>1, <2>0 DEF Idle, Locals, Null, TeardownPcs
  <2>3. LocalsInv'
    <3>1. t \notin Mounters /\ UNCHANGED devs
      BY <1>4, ThreadAssumption DEF BeginUnmountAll
    <3> HIDE DEF r
    <3>2. r.dv \in 0 .. Len(devs') /\ Len(devs) <= Len(devs') /\ Len(devs') \in Nat
      BY <1>0, <2>2, <3>1
    <3> QED BY <2>1, <2>2, <3>1, <3>2, LocalsChanged
  <2>4. SharedInv'
    BY <1>0, <1>4 DEF BeginUnmountAll, SharedInv
  <2> QED BY <2>3, <2>4, TypeJoin
<1>5. \A d \in Drives : t \in Teardowns /\ BeginUnmount(t, d) => TypeInv'
  BY <1>0, <1>3 DEF BeginUnmount, SharedInv
<1>6. t \in Teardowns /\ BeginShutdown(t) => TypeInv'
  BY <1>0, <1>1, <1>3 DEF BeginShutdown, SharedInv
<1>7. t \in Teardowns /\ BeginUnload(t) => TypeInv'
  BY <1>1, <1>3 DEF BeginUnload
<1> QED BY <1>2, <1>4, <1>5, <1>6, <1>7 DEF Begin

\* The steps of the mount handler keep the types.
LEMMA MountTyped ==
  ASSUME TypeInv, NEW t \in Threads, Mount(t)
  PROVE  TypeInv'
<1>0. SharedInv /\ Len(devs) \in Nat /\ th \in [Threads -> Locals]
  BY TypeParts DEF SharedInv, LocalsInv
<1>1. CASE CreateDevice(t)
  <2>1. t \in Mounters /\ t \notin Teardowns
    BY <1>1, KindAt DEF CreateDevice, At, MountPcs
  <2>2. CASE NewDevice(t)
    <3> DEFINE dev == [drive |-> th[t].drv, id |-> 0, state |-> "new"]
               r == [th[t] EXCEPT !.dv = Len(devs) + 1, !.pc = "load"]
    <3>1. dev \in Devices
      BY LocalFields DEF Devices
    <3>2. devs' = Append(devs, dev) /\ Len(devs) < MaxDevs
      BY <2>2 DEF NewDevice
    <3>3. devs' \in Seq(Devices) /\ Len(devs') = Len(devs) + 1
      <4> HIDE DEF dev
      <4> QED BY <1>0, <3>1, <3>2 DEF SharedInv
    <3>4. r \in Locals /\ r.dv = Len(devs) + 1 /\ r.pc = "load"
      <4>1. Len(devs) + 1 \in 0 .. MaxDevs
        BY <1>0, <3>2, BoundAssumption
      <4> QED BY <4>1, LocalFields DEF Locals
    <3>5. SetLocals(t, r)
      BY <1>0, <2>2 DEF NewDevice, SetLocals
    <3>6. LocalsInv'
      <4> HIDE DEF r, dev
      <4>1. r.dv \in 0 .. Len(devs') /\ Len(devs) <= Len(devs') /\ Len(devs') \in Nat
        BY <1>0, <3>3, <3>4
      <4> QED BY <2>1, <3>4, <3>5, <4>1, LocalsChanged DEF MountPcs
    <3>7. SharedInv'
      <4> HIDE DEF dev
      <4>1. table \in [Drives -> 0 .. Len(devs')]
        BY <1>0, <3>3 DEF SharedInv
      <4> QED BY <1>0, <1>1, <3>2, <3>3, <4>1, BoundAssumption DEF CreateDevice, SharedInv
    <3> QED BY <3>6, <3>7, TypeJoin
  <2>3. CASE UNCHANGED devs /\ Return(t)
    <3>1. LocalsInv'
      BY <2>3, ReturnType
    <3>2. SharedInv'
      BY <1>0, <1>1, <2>3 DEF CreateDevice, SharedInv
    <3> QED BY <3>1, <3>2, TypeJoin
  <2> QED BY <1>1, <2>2, <2>3 DEF CreateDevice
<1>2. CASE LoadId(t)
  <2> DEFINE r == [th[t] EXCEPT !.tmp = lastId, !.pc = "store"]
  <2>1. t \in Mounters /\ t \notin Teardowns
    BY <1>2, KindAt DEF LoadId, At, MountPcs
  <2>2. r \in Locals /\ r.dv = th[t].dv /\ r.pc = "store"
    BY <1>0, LocalFields DEF Locals, SharedInv
  <2>3. SetLocals(t, r) /\ devs' = devs
    BY <1>0, <1>2 DEF LoadId, SetLocals
  <2>4. LocalsInv'
    <3> HIDE DEF r
    <3>1. r.dv \in 0 .. Len(devs') /\ Len(devs) <= Len(devs') /\ Len(devs') \in Nat
      BY <1>0, <2>2, <2>3, LocalFields
    <3> QED BY <2>1, <2>2, <2>3, <3>1, LocalsChanged DEF MountPcs
  <2>5. SharedInv'
    BY <1>0, <1>2 DEF LoadId, SharedInv
  <2> QED BY <2>4, <2>5, TypeJoin
<1>3. CASE StoreId(t)
  <2>1. t \in Mounters /\ t \notin Teardowns
    BY <1>3, KindAt DEF StoreId, At, MountPcs
  <2>2. LocalsInv'
    BY <1>3, <2>1, GotoType DEF StoreId, MountPcs
  <2>3. lastId' \in Nat
    BY <1>3, LocalFields DEF StoreId
  <2>4. SharedInv'
    BY <1>0, <1>3, <2>3 DEF StoreId, SharedInv
  <2> QED BY <2>2, <2>4, TypeJoin
<1>4. CASE SetId(t)
  <2>1. t \in Mounters /\ t \notin Teardowns
    BY <1>4, KindAt DEF SetId, At, MountPcs
  <2>2. PICK id \in {th[t].tmp + 1, lastId} : devs' = [devs EXCEPT ![th[t].dv].id = id]
    BY <1>4 DEF SetId
  <2>3. id \in Nat
    BY <1>0, <2>2, LocalFields DEF SharedInv
  <2>4. devs' \in Seq(Devices) /\ Len(devs') = Len(devs)
    BY <1>0, <2>2, <2>3, IdChanged
  <2>5. LocalsInv'
    BY <1>4, <2>1, <2>4, GotoType DEF SetId, MountPcs
  <2>6. SharedInv'
    BY <1>0, <1>4, <2>4 DEF SetId, SharedInv
  <2> QED BY <2>5, <2>6, TypeJoin
<1>5. CASE StartThread(t)
  <2>1. t \in Mounters /\ t \notin Teardowns
    BY <1>5, KindAt DEF StartThread, At, MountPcs
  <2>2. devs' \in Seq(Devices) /\ Len(devs') = Len(devs)
    BY <1>0, <1>5, StateChanged DEF StartThread
  <2>3. LocalsInv'
    BY <1>5, <2>1, <2>2, GotoType, ReturnType DEF StartThread, MountPcs
  <2>4. SharedInv'
    BY <1>0, <1>5, <2>2 DEF StartThread, SharedInv
  <2> QED BY <2>3, <2>4, TypeJoin
<1>6. CASE CreateMountPoint(t)
  <2>1. t \in Mounters /\ t \notin Teardowns
    BY <1>6, KindAt DEF CreateMountPoint, At, MountPcs
  <2>2. LocalsInv'
    BY <1>6, <2>1, GotoType DEF CreateMountPoint, MountPcs
  <2>3. SharedInv'
    BY <1>0, <1>6, LocalFields DEF CreateMountPoint, SharedInv
  <2> QED BY <2>2, <2>3, TypeJoin
<1>7. CASE Publish(t)
  <2>1. LocalsInv'
    BY <1>7, ReturnType DEF Publish
  <2>2. SharedInv'
    BY <1>0, <1>7, LocalFields DEF Publish, SharedInv
  <2> QED BY <2>1, <2>2, TypeJoin
<1> QED BY <1>1, <1>2, <1>3, <1>4, <1>5, <1>6, <1>7 DEF Mount

\* Done with a drive, the handler returns or goes on with its loop.
LEMMA DriveDoneTyped ==
  ASSUME TypeInv, NEW t \in Threads, t \in Teardowns, t \notin Mounters, DriveDone(t),
         Len(devs') = Len(devs)
  PROVE  LocalsInv'
BY GotoType, ReturnType DEF DriveDone, TeardownPcs

\* The steps of the tear-down handlers keep the types.
LEMMA TeardownTyped ==
  ASSUME TypeInv, NEW t \in Threads, Teardown(t)
  PROVE  TypeInv'
<1>0. SharedInv /\ Len(devs) \in Nat /\ th \in [Threads -> Locals]
  BY TypeParts DEF SharedInv, LocalsInv
<1>1. t \in Teardowns /\ t \notin Mounters
  BY KindAt DEF Teardown, ReadSlot, ClearSlot, DeleteMountPoint, StopThread, DeleteDevice,
                Advance, Snapshot, Round, Scan, At, TeardownPcs
<1> DEFINE Set(r) == /\ r \in Locals /\ r.dv \in 0 .. Len(devs) /\ r.pc \in TeardownPcs
                     /\ SetLocals(t, r)
<1>2. ASSUME NEW r, Set(r), UNCHANGED devs PROVE LocalsInv'
  <2>1. r.dv \in 0 .. Len(devs') /\ Len(devs) <= Len(devs') /\ Len(devs') \in Nat
    BY <1>0, <1>2
  <2> QED BY <1>1, <1>2, <2>1, LocalsChanged
<1>3. CASE ReadSlot(t)
  <2>1. CASE DriveDone(t)
    <3>1. LocalsInv'
      BY <1>1, <1>3, <2>1, DriveDoneTyped DEF ReadSlot
    <3>2. SharedInv'
      BY <1>0, <1>3 DEF ReadSlot, SharedInv
    <3> QED BY <3>1, <3>2, TypeJoin
  <2>2. CASE th' = [th EXCEPT ![t].dv = table[th[t].drv], ![t].pc = "clear"]
    <3> DEFINE r == [th[t] EXCEPT !.dv = table[th[t].drv], !.pc = "clear"]
    <3>1. table[th[t].drv] \in 0 .. Len(devs) /\ table[th[t].drv] \in 0 .. MaxDevs
      BY <1>0, LocalFields, BoundAssumption DEF SharedInv
    <3>2. Set(r)
      BY <1>0, <2>2, <3>1, LocalFields DEF SetLocals, Locals, TeardownPcs
    <3>3. LocalsInv'
      <4> HIDE DEF r, Set
      <4> QED BY <1>2, <1>3, <3>2 DEF ReadSlot
    <3>4. SharedInv'
      BY <1>0, <1>3 DEF ReadSlot, SharedInv
    <3> QED BY <3>3, <3>4, TypeJoin
  <2> QED BY <1>3, <2>1, <2>2 DEF ReadSlot
<1>4. CASE ClearSlot(t)
  <2>1. LocalsInv'
    BY <1>1, <1>4, GotoType DEF ClearSlot, TeardownPcs
  <2>2. SharedInv'
    BY <1>0, <1>4, LocalFields DEF ClearSlot, SharedInv, Null
  <2> QED BY <2>1, <2>2, TypeJoin
<1>5. CASE DeleteMountPoint(t)
  <2>1. LocalsInv'
    BY <1>1, <1>5, GotoType DEF DeleteMountPoint, TeardownPcs
  <2>2. SharedInv'
    BY <1>0, <1>5 DEF DeleteMountPoint, SharedInv
  <2> QED BY <2>1, <2>2, TypeJoin
<1>6. CASE StopThread(t)
  <2>1. devs' \in Seq(Devices) /\ Len(devs') = Len(devs)
    BY <1>0, <1>6, StateChanged DEF StopThread
  <2>2. LocalsInv'
    BY <1>1, <1>6, <2>1, GotoType DEF StopThread, TeardownPcs
  <2>3. SharedInv'
    BY <1>0, <1>6, <2>1 DEF StopThread, SharedInv
  <2> QED BY <2>2, <2>3, TypeJoin
<1>7. CASE DeleteDevice(t)
  <2>1. devs' \in Seq(Devices) /\ Len(devs') = Len(devs)
    BY <1>0, <1>7, StateChanged DEF DeleteDevice
  <2>2. LocalsInv'
    BY <1>1, <1>7, <2>1, DriveDoneTyped DEF DeleteDevice
  <2>3. SharedInv'
    BY <1>0, <1>7, <2>1 DEF DeleteDevice, SharedInv
  <2> QED BY <2>2, <2>3, TypeJoin
<1>8. CASE Advance(t)
  <2>1. CASE Return(t)
    <3>1. LocalsInv'
      BY <1>8, <2>1, ReturnType DEF Advance
    <3>2. SharedInv'
      BY <1>0, <1>8 DEF Advance, SharedInv
    <3> QED BY <3>1, <3>2, TypeJoin
  <2>2. CASE /\ th[t].drv < MaxDrive
             /\ th' = [th EXCEPT ![t].drv = @ + 1, ![t].pc = "read"]
    <3> DEFINE r == [th[t] EXCEPT !.drv = @ + 1, !.pc = "read"]
    <3>1. th[t].drv + 1 \in Drives
      BY <2>2, LocalFields, BoundAssumption DEF Drives
    <3>2. Set(r)
      BY <1>0, <2>2, <3>1, LocalFields DEF SetLocals, Locals, TeardownPcs
    <3>3. LocalsInv'
      <4> HIDE DEF r, Set
      <4> QED BY <1>2, <1>8, <3>2 DEF Advance
    <3>4. SharedInv'
      BY <1>0, <1>8 DEF Advance, SharedInv
    <3> QED BY <3>3, <3>4, TypeJoin
  <2> QED BY <1>8, <2>1, <2>2 DEF Advance
<1>9. CASE Snapshot(t)
  <2> DEFINE d == th[t].drv
             id == IF table[d] = Null THEN 0 ELSE devs[table[d]].id
             next == IF d = MaxDrive THEN 1 ELSE d + 1
             l == IF d = MaxDrive THEN "round" ELSE "snapshot"
             r == [th[t] EXCEPT !.ids[d] = id, !.drv = next, !.pc = l]
  <2>1. id \in Nat
    <3>1. table[d] \in 0 .. Len(devs)
      BY <1>0, LocalFields DEF SharedInv
    <3>2. table[d] # 0 => devs[table[d]] \in Devices
      BY <1>0, <3>1 DEF SharedInv
    <3> QED BY <3>2 DEF Devices, Null
  <2>2. next \in Drives /\ l \in TeardownPcs
    BY LocalFields, BoundAssumption DEF Drives, TeardownPcs
  <2>3. SetLocals(t, r)
    BY <1>0, <1>9 DEF Snapshot, SetLocals
  <2> HIDE DEF id, next, l
  <2>4. Set(r)
    BY <2>1, <2>2, <2>3, LocalFields DEF Locals, TeardownPcs
  <2>5. LocalsInv'
    <3> HIDE DEF r, Set
    <3> QED BY <1>2, <1>9, <2>4 DEF Snapshot
  <2>6. SharedInv'
    BY <1>0, <1>9 DEF Snapshot, SharedInv
  <2> QED BY <2>5, <2>6, TypeJoin
<1>10. CASE Round(t)
  <2>1. CASE Return(t)
    <3>1. LocalsInv'
      BY <1>10, <2>1, ReturnType DEF Round
    <3>2. SharedInv'
      BY <1>0, <1>10 DEF Round, SharedInv
    <3> QED BY <3>1, <3>2, TypeJoin
  <2>2. CASE /\ th[t].round < MaxDrive
             /\ th' = [th EXCEPT ![t].round = @ + 1, ![t].best = MaxDrive + 1,
                                 ![t].drv = 1, ![t].pc = "scan"]
    <3> DEFINE r == [th[t] EXCEPT !.round = @ + 1, !.best = MaxDrive + 1,
                                  !.drv = 1, !.pc = "scan"]
    <3>1. /\ th[t].round + 1 \in 0 .. MaxDrive /\ 1 \in Drives
          /\ MaxDrive + 1 \in 1 .. MaxDrive + 1
      BY <2>2, LocalFields, BoundAssumption DEF Drives
    <3>2. Set(r)
      BY <1>0, <2>2, <3>1, LocalFields DEF SetLocals, Locals, TeardownPcs
    <3>3. LocalsInv'
      <4> HIDE DEF r, Set
      <4> QED BY <1>2, <1>10, <3>2 DEF Round
    <3>4. SharedInv'
      BY <1>0, <1>10 DEF Round, SharedInv
    <3> QED BY <3>3, <3>4, TypeJoin
  <2> QED BY <1>10, <2>1, <2>2 DEF Round
<1>11. CASE Scan(t)
  <2> DEFINE d == th[t].drv
             best == th[t].best
             better == table[d] # Null /\ (best > MaxDrive \/ th[t].ids[d] > th[t].ids[best])
             best1 == IF better THEN d ELSE best
  <2>1. best1 \in 1 .. MaxDrive + 1 /\ d \in Drives
    <3>1. d \in 1 .. MaxDrive + 1 /\ best \in 1 .. MaxDrive + 1 /\ d \in Drives
      BY LocalFields, BoundAssumption DEF Drives
    <3> HIDE DEF better, d, best
    <3> QED BY <3>1
  <2>2. \/ /\ d < MaxDrive
           /\ th' = [th EXCEPT ![t].best = best1, ![t].drv = d + 1]
        \/ Goto(t, "round")
        \/ /\ best1 <= MaxDrive
           /\ th' = [th EXCEPT ![t].drv = best1, ![t].pc = "read"]
    BY <1>11 DEF Scan
  <2>3. SharedInv' /\ UNCHANGED devs
    BY <1>0, <1>11 DEF Scan, SharedInv
  <2>4. At(t, "scan")
    BY <1>11 DEF Scan
  <2> HIDE DEF best1
  <2>5. CASE Goto(t, "round")
    <3>1. LocalsInv'
      BY <1>1, <2>3, <2>5, GotoType DEF TeardownPcs
    <3> QED BY <2>3, <3>1, TypeJoin
  <2>6. CASE /\ d < MaxDrive
             /\ th' = [th EXCEPT ![t].best = best1, ![t].drv = d + 1]
    <3> DEFINE r == [th[t] EXCEPT !.best = best1, !.drv = d + 1]
    <3>1. d + 1 \in Drives
      BY <2>1, <2>6, BoundAssumption DEF Drives
    <3>2. Set(r)
      BY <1>0, <2>1, <2>4, <2>6, <3>1, LocalFields DEF SetLocals, Locals, TeardownPcs, At
    <3>3. LocalsInv'
      <4> HIDE DEF r, Set
      <4> QED BY <1>2, <2>3, <3>2
    <3> QED BY <2>3, <3>3, TypeJoin
  <2>7. CASE /\ best1 <= MaxDrive
             /\ th' = [th EXCEPT ![t].drv = best1, ![t].pc = "read"]
    <3> DEFINE r == [th[t] EXCEPT !.drv = best1, !.pc = "read"]
    <3>1. best1 \in Drives
      BY <2>1, <2>7, BoundAssumption DEF Drives
    <3>2. Set(r)
      BY <1>0, <2>7, <3>1, LocalFields DEF SetLocals, Locals, TeardownPcs
    <3>3. LocalsInv'
      <4> HIDE DEF r, Set
      <4> QED BY <1>2, <2>3, <3>2
    <3> QED BY <2>3, <3>3, TypeJoin
  <2> QED BY <2>2, <2>5, <2>6, <2>7
<1> QED BY <1>3, <1>4, <1>5, <1>6, <1>7, <1>8, <1>9, <1>10, <1>11 DEF Teardown

\* Every step of every handler keeps the types.
LEMMA NextTyped == TypeInv /\ [Next]_vars => TypeInv'
<1> SUFFICES ASSUME TypeInv, [Next]_vars PROVE TypeInv'
  OBVIOUS
<1>1. CASE UNCHANGED vars
  BY <1>1 DEF vars, TypeInv, TypeOK, Refs, Handlers
<1> QED BY <1>1, BeginsTyped, MountTyped, TeardownTyped DEF Next, Unloaded

\* The table, the devices and the local variables of every handler stay within
\* their types; in particular the loops of shutdown, unload and unmount all stay
\* within the drives, and no handler looks up a device that was never created.
THEOREM TypeCorrect == Spec => []TypeOK
<1>1. TypeInv => TypeOK
  BY DEF TypeInv
<1> QED BY InitTypeInv, NextTyped, <1>1, PTL DEF Spec

-----------------------------------------------------------------------------
\* The table.

LEMMA InitTable == Init => TableInv
<1> SUFFICES ASSUME Init PROVE TableInv
  OBVIOUS
<1>1. \A t \in Threads : th[t].pc = "idle"
  BY DEF Init, Idle
<1>2. DOMAIN devs = {} /\ \A d \in Drives : table[d] = Null
  BY DEF Init
<1> QED BY <1>1, <1>2 DEF TableInv, TableIsLive, Owned, OneOwner, SlotRead, NamesUnique,
             Accounted, Owns, OwnPcs, At

\* A step of one thread that changes nothing but its local variables, and
\* neither begins nor ends to own a device.
LEMMA Elsewhere ==
  ASSUME TypeInv, TypeInv', TableInv, NEW t \in Threads, NEW r, SetLocals(t, r),
         UNCHANGED table,
         DOMAIN devs' = DOMAIN devs,
         \A n \in DOMAIN devs : /\ devs'[n].drive = devs[n].drive
                                /\ devs'[n].state = devs[n].state,
         \/ ~Owns(t) /\ r.pc \notin OwnPcs
         \/ /\ Owns(t) /\ r.pc \in OwnPcs /\ StateAt(r.pc) = StateAt(th[t].pc)
            /\ r.dv = th[t].dv /\ r.drv = th[t].drv,
         r.pc = "clear" => table[r.drv] = r.dv /\ r.dv # Null
  PROVE  TableInv'
<1>1. th \in [Threads -> Locals]
  BY DEF TypeInv, TypeOK
<1>2. th'[t] = r /\ \A u \in Threads : u # t => th'[u] = th[u]
  BY <1>1 DEF SetLocals
<1>3. TableIsLive'
  BY DEF TableInv, TableIsLive
<1>4. Owned'
  BY <1>2 DEF TableInv, Owned, Owns
<1>5. OneOwner'
  BY <1>2 DEF TableInv, OneOwner, Owns
<1>6. SlotRead'
  BY <1>2 DEF TableInv, SlotRead, At
<1>7. NamesUnique'
  BY DEF TableInv, NamesUnique
<1>8. Accounted'
  BY <1>2 DEF TableInv, Accounted, Owns
<1> QED BY <1>3, <1>4, <1>5, <1>6, <1>7, <1>8 DEF TableInv

\* What a change of a device's state does
LEMMA StateEffect ==
  ASSUME TypeInv, NEW n \in DOMAIN devs, NEW st, devs' = [devs EXCEPT ![n].state = st]
  PROVE  /\ DOMAIN devs' = DOMAIN devs
         /\ devs'[n].drive = devs[n].drive /\ devs'[n].state = st
         /\ \A m \in DOMAIN devs : m # n => devs'[m] = devs[m]
<1>1. devs \in Seq(Devices)
  BY DEF TypeInv, TypeOK, Devices
<1>2. devs \in [1 .. Len(devs) -> Devices] /\ DOMAIN devs = 1 .. Len(devs)
  BY <1>1
<1> QED BY <1>2 DEF Devices

\* The drive of a device
LEMMA DriveOf == ASSUME TypeInv, NEW m \in DOMAIN devs PROVE devs[m].drive \in Drives
<1>1. devs \in Seq(Devices)
  BY DEF TypeInv, TypeOK, Devices
<1>2. devs \in [1 .. Len(devs) -> Devices] /\ DOMAIN devs = 1 .. Len(devs)
  BY <1>1
<1> QED BY <1>2 DEF Devices

\* The mount handler creates its device: the name was free, so nobody else
\* owns a device of the drive and the slot is empty.
LEMMA CreateKeeps ==
  ASSUME TypeInv, TypeInv', TableInv, NEW t \in Threads, CreateDevice(t)
  PROVE  TableInv'
<1>0. th \in [Threads -> Locals] /\ devs \in Seq(Devices)
  BY DEF TypeInv, TypeOK, Devices
<1>1. CASE UNCHANGED devs /\ Return(t)
  <2>1. SetLocals(t, Idle)
    BY <1>1 DEF Return, SetLocals
  <2>2. ~Owns(t) /\ Idle.pc \notin OwnPcs /\ Idle.pc # "clear"
    BY DEF CreateDevice, At, Owns, OwnPcs, Idle
  <2>3. UNCHANGED table
    BY DEF CreateDevice
  <2> QED BY <1>1, <2>1, <2>2, <2>3, Elsewhere
<1>2. CASE ~NameTaken(th[t].drv) /\ NewDevice(t)
  <2> DEFINE d == th[t].drv
             n == Len(devs) + 1
  <2>1. /\ DOMAIN devs' = DOMAIN devs \cup {n} /\ n \notin DOMAIN devs
        /\ devs'[n].drive = d /\ devs'[n].state = "new"
        /\ \A m \in DOMAIN devs : devs'[m] = devs[m]
    BY <1>0, <1>2 DEF NewDevice
  <2>2. /\ th'[t].pc = "load" /\ th'[t].dv = n /\ th'[t].drv = d
        /\ \A u \in Threads : u # t => th'[u] = th[u]
    BY <1>0, <1>2 DEF NewDevice, Locals
  <2>3. ~Owns(t) /\ UNCHANGED table
    BY DEF CreateDevice, At, Owns, OwnPcs
  <2>4. \A m \in DOMAIN devs : devs[m].drive = d => devs[m].state = "deleted"
    BY <1>2 DEF NameTaken
  <2>5. d \in Drives
    BY LocalFields
  <2>6. table[d] = Null
    BY <2>4, <2>5 DEF TableInv, TableIsLive
  <2>7. \A u \in Threads : Owns(u) => th[u].drv # d
    <3> SUFFICES ASSUME NEW u \in Threads, Owns(u), th[u].drv = d PROVE FALSE
      OBVIOUS
    <3>1. devs[th[u].dv].state = "deleted"
      BY <2>4 DEF TableInv, Owned
    <3> QED BY <3>1 DEF TableInv, Owned, StateAt
  <2> HIDE DEF d, n
  <2>8. TableIsLive'
    BY <2>1, <2>3 DEF TableInv, TableIsLive
  <2>9. Owned'
    BY <2>1, <2>2, <2>3, <2>6 DEF TableInv, Owned, Owns, OwnPcs, StateAt
  <2>10. OneOwner'
    BY <2>2, <2>3, <2>7 DEF TableInv, OneOwner, Owns
  <2>11. SlotRead'
    BY <2>2, <2>3 DEF TableInv, SlotRead, At
  <2>12. NamesUnique'
    BY <2>1, <2>4 DEF TableInv, NamesUnique
  <2>13. Accounted'
    BY <2>1, <2>2, <2>3 DEF TableInv, Accounted, Owns, OwnPcs
    <2> QED BY <2>8, <2>9, <2>10, <2>11, <2>12, <2>13 DEF TableInv
<1> QED BY <1>1, <1>2 DEF CreateDevice

\* The volume comes up, or its device is deleted and the handler returns.
LEMMA StartKeeps ==
  ASSUME TypeInv, TypeInv', TableInv, NEW t \in Threads, StartThread(t)
  PROVE  TableInv'
<1> DEFINE n == th[t].dv
<1>0. th \in [Threads -> Locals] /\ UNCHANGED table /\ Owns(t)
  BY DEF TypeInv, TypeOK, StartThread, At, Owns, OwnPcs
<1>1. n \in DOMAIN devs /\ devs[n].drive = th[t].drv /\ devs[n].state = "new"
      /\ table[th[t].drv] = Null /\ th[t].drv \in Drives
  BY <1>0, LocalFields DEF TableInv, Owned, StartThread, At, StateAt
<1>2. \A u \in Threads : u # t /\ Owns(u) => th[u].drv # th[t].drv /\ th[u].dv # n
  BY <1>0, <1>1 DEF TableInv, OneOwner, Owned
<1>3. PICK st \in {"up", "deleted"} :
        /\ devs' = [devs EXCEPT ![n].state = st]
        /\ \/ st = "up" /\ Goto(t, "point")
           \/ st = "deleted" /\ Return(t)
  BY DEF StartThread
<1>4. /\ DOMAIN devs' = DOMAIN devs
      /\ devs'[n].drive = devs[n].drive /\ devs'[n].state = st
      /\ \A m \in DOMAIN devs : m # n => devs'[m] = devs[m]
  BY <1>1, <1>3, StateEffect
<1>5. /\ \/ st = "up" /\ th'[t].pc = "point" /\ th'[t].drv = th[t].drv /\ th'[t].dv = n
         \/ st = "deleted" /\ th'[t].pc = "idle"
      /\ \A u \in Threads : u # t => th'[u] = th[u]
  BY <1>0, <1>3 DEF Goto, Return, Locals, Idle
<1> HIDE DEF n
<1>6. TableIsLive'
  BY <1>0, <1>1, <1>4 DEF TableInv, TableIsLive
<1>7. Owned'
  BY <1>0, <1>1, <1>2, <1>4, <1>5 DEF TableInv, Owned, Owns, OwnPcs, StateAt
<1>8. OneOwner'
  BY <1>0, <1>5 DEF TableInv, OneOwner, Owns, OwnPcs
<1>9. SlotRead'
  BY <1>0, <1>5 DEF TableInv, SlotRead, At
<1>10. NamesUnique'
  BY <1>1, <1>4 DEF TableInv, NamesUnique
<1>11. Accounted'
  <2> SUFFICES ASSUME NEW m \in DOMAIN devs, devs'[m].state # "deleted"
               PROVE  \/ table[devs'[m].drive] = m
                      \/ \E u \in Threads : Owns(u)' /\ th'[u].dv = m
    BY <1>0, <1>4 DEF Accounted
  <2>1. CASE m = n
    BY <1>4, <1>5, <2>1 DEF Owns, OwnPcs
  <2>2. CASE m # n
    <3>1. \A u \in Threads : th[u].dv = m => u # t
      BY <2>2 DEF n
    <3> QED BY <1>4, <1>5, <2>2, <3>1 DEF TableInv, Accounted, Owns
  <2> QED BY <2>1, <2>2
<1> QED BY <1>6, <1>7, <1>8, <1>9, <1>10, <1>11 DEF TableInv

\* The letter is assigned or taken away, or not: the thread owns the device
\* before and after.
LEMMA LetterKeeps ==
  ASSUME TypeInv, TypeInv', TableInv, NEW t \in Threads,
         CreateMountPoint(t) \/ DeleteMountPoint(t)
  PROVE  TableInv'
<1> DEFINE l == IF th[t].pc = "point" THEN "publish" ELSE "stop"
           r == [th[t] EXCEPT !.pc = l]
<1>0. /\ th \in [Threads -> Locals] /\ UNCHANGED <<table, devs>>
      /\ th[t].pc \in {"point", "unpoint"} /\ Goto(t, l)
  BY DEF TypeInv, TypeOK, CreateMountPoint, DeleteMountPoint, At
<1>1. SetLocals(t, r) /\ r.pc = l /\ r.dv = th[t].dv /\ r.drv = th[t].drv
  BY <1>0 DEF Goto, SetLocals, Locals
<1>2. /\ Owns(t) /\ l \in OwnPcs /\ StateAt(l) = StateAt(th[t].pc) /\ l # "clear"
  BY <1>0 DEF Owns, OwnPcs, StateAt
<1> HIDE DEF r, l
<1> QED BY <1>0, <1>1, <1>2, Elsewhere

\* The device enters the table; the slot was empty, though the handler looked
\* at it long ago.
LEMMA PublishKeeps ==
  ASSUME TypeInv, TypeInv', TableInv, NEW t \in Threads, Publish(t)
  PROVE  TableInv'
<1> DEFINE n == th[t].dv
           d == th[t].drv
<1>0. /\ th \in [Threads -> Locals] /\ table \in [Drives -> 0 .. MaxDevs]
      /\ UNCHANGED devs /\ At(t, "publish") /\ Owns(t)
      /\ devs \in Seq(Devices)
  BY DEF TypeInv, TypeOK, Publish, At, Owns, OwnPcs, Devices
<1>1. /\ n \in DOMAIN devs /\ devs[n].drive = d /\ devs[n].state = "up"
      /\ table[d] = Null /\ d \in Drives
  BY <1>0, LocalFields DEF TableInv, Owned, At, StateAt
<1>2. n # Null
  BY <1>0, <1>1 DEF Null
<1>3. th'[t].pc = "idle" /\ \A u \in Threads : u # t => th'[u] = th[u]
  BY <1>0 DEF Publish, Return, Idle
<1>4. table'[d] = n /\ \A e \in Drives : e # d => table'[e] = table[e]
  BY <1>0, <1>1 DEF Publish
<1>5. \A u \in Threads : u # t /\ Owns(u) => th[u].drv # d /\ th[u].drv \in Drives
  BY <1>0, LocalFields DEF TableInv, OneOwner
<1>6. \A u \in Threads : th[u].drv \in Drives
  BY LocalFields
<1>7. \A m \in DOMAIN devs : devs[m].drive \in Drives
  BY DriveOf
<1> HIDE DEF n, d
<1>8. TableIsLive'
  BY <1>0, <1>1, <1>4 DEF TableInv, TableIsLive
<1>9. Owned'
  BY <1>0, <1>3, <1>4, <1>5 DEF TableInv, Owned, Owns, OwnPcs
<1>10. OneOwner'
  BY <1>0, <1>3 DEF TableInv, OneOwner, Owns, OwnPcs
<1>11. SlotRead'
  BY <1>0, <1>1, <1>3, <1>4, <1>6 DEF TableInv, SlotRead, At
<1>12. NamesUnique'
  BY <1>0 DEF TableInv, NamesUnique
<1>13. Accounted'
  <2> SUFFICES ASSUME NEW m \in DOMAIN devs, devs[m].state # "deleted", m # n
               PROVE  \/ table'[devs[m].drive] = m
                      \/ \E u \in Threads : Owns(u)' /\ th'[u].dv = m
    BY <1>0, <1>1, <1>4 DEF Accounted
  <2>1. devs[m].drive # d
    BY <1>1 DEF TableInv, NamesUnique
  <2>2. \A u \in Threads : th[u].dv = m => u # t
    BY DEF n
  <2> QED BY <1>3, <1>4, <1>7, <2>1, <2>2 DEF TableInv, Accounted, Owns
<1> QED BY <1>8, <1>9, <1>10, <1>11, <1>12, <1>13 DEF TableInv

\* The slot is cleared: the tear-down now owns the device.  Only another
\* tear-down could have read the same slot.
LEMMA ClearKeeps ==
  ASSUME TypeInv, TypeInv', TableInv, TakenByOne, NEW t \in Threads, ClearSlot(t)
  PROVE  TableInv'
<1> DEFINE n == th[t].dv
           d == th[t].drv
<1>0. /\ th \in [Threads -> Locals] /\ table \in [Drives -> 0 .. MaxDevs]
      /\ UNCHANGED devs /\ At(t, "clear") /\ ~Owns(t)
  BY DEF TypeInv, TypeOK, ClearSlot, At, Owns, OwnPcs
<1>1. table[d] = n /\ n # Null /\ d \in Drives
  BY <1>0, LocalFields DEF TableInv, SlotRead
<1>2. n \in DOMAIN devs /\ devs[n].drive = d /\ devs[n].state = "up"
  BY <1>1 DEF TableInv, TableIsLive
<1>3. /\ th'[t].pc \in {"unpoint", "stop"} /\ th'[t].dv = n /\ th'[t].drv = d
      /\ \A u \in Threads : u # t => th'[u] = th[u]
  BY <1>0 DEF ClearSlot, Goto, Locals
<1>4. table'[d] = Null /\ \A e \in Drives : e # d => table'[e] = table[e]
  BY <1>0, <1>1 DEF ClearSlot
<1>5. \A u \in Threads : th[u].drv \in Drives
  BY LocalFields
<1>6. \A u \in Threads : Owns(u) => th[u].drv # d
  BY <1>1 DEF TableInv, Owned
<1>7. \A u \in Threads : At(u, "clear") /\ th[u].drv = d => u = t
  <2> SUFFICES ASSUME NEW u \in Threads, At(u, "clear"), th[u].drv = d PROVE u = t
    OBVIOUS
  <2>1. u \in Teardowns /\ t \in Teardowns
    BY <1>0, KindAt DEF At, TeardownPcs
  <2> QED BY <1>0, <2>1 DEF TakenByOne, At
<1>8. \A m \in DOMAIN devs : devs[m].drive \in Drives
  BY DriveOf
<1> HIDE DEF n, d
<1>9. TableIsLive'
  BY <1>0, <1>4 DEF TableInv, TableIsLive
<1>10. Owned'
  BY <1>0, <1>2, <1>3, <1>4, <1>5 DEF TableInv, Owned, Owns, OwnPcs, StateAt
<1>11. OneOwner'
  BY <1>3, <1>6 DEF TableInv, OneOwner, Owns
<1>12. SlotRead'
  BY <1>3, <1>4, <1>5, <1>7 DEF TableInv, SlotRead, At
<1>13. NamesUnique'
  BY <1>0 DEF TableInv, NamesUnique
<1>14. Accounted'
  <2> SUFFICES ASSUME NEW m \in DOMAIN devs, devs[m].state # "deleted", m # n
               PROVE  \/ table'[devs[m].drive] = m
                      \/ \E u \in Threads : Owns(u)' /\ th'[u].dv = m
    BY <1>0, <1>3 DEF Accounted, Owns, OwnPcs
  <2>1. devs[m].drive # d
    BY <1>2 DEF TableInv, NamesUnique
  <2> QED BY <1>0, <1>3, <1>4, <1>8, <2>1 DEF TableInv, Accounted, Owns
<1> QED BY <1>9, <1>10, <1>11, <1>12, <1>13, <1>14 DEF TableInv

\* The device a tear-down owns is stopped, then deleted.
LEMMA StopKeeps ==
  ASSUME TypeInv, TypeInv', TableInv, NEW t \in Threads, StopThread(t) \/ DeleteDevice(t)
  PROVE  TableInv'
<1> DEFINE n == th[t].dv
<1>0. th \in [Threads -> Locals] /\ UNCHANGED table /\ Owns(t)
  BY DEF TypeInv, TypeOK, StopThread, DeleteDevice, At, Owns, OwnPcs
<1>1. /\ n \in DOMAIN devs /\ devs[n].drive = th[t].drv
      /\ devs[n].state \in {"up", "stopped"}
      /\ table[th[t].drv] = Null /\ th[t].drv \in Drives
  BY <1>0, LocalFields DEF TableInv, Owned, StopThread, DeleteDevice, At, StateAt
<1>2. \A u \in Threads : u # t /\ Owns(u) => th[u].drv # th[t].drv /\ th[u].dv # n
  BY <1>0, <1>1 DEF TableInv, OneOwner, Owned
<1>3. PICK st \in {"stopped", "deleted"} :
        /\ devs' = [devs EXCEPT ![n].state = st]
        /\ \/ st = "stopped" /\ Goto(t, "delete")
           \/ st = "deleted" /\ DriveDone(t)
  BY DEF StopThread, DeleteDevice
<1>4. /\ DOMAIN devs' = DOMAIN devs
      /\ devs'[n].drive = devs[n].drive /\ devs'[n].state = st
      /\ \A m \in DOMAIN devs : m # n => devs'[m] = devs[m]
  BY <1>1, <1>3, StateEffect
<1>5. /\ \/ st = "stopped" /\ th'[t].pc = "delete" /\ th'[t].drv = th[t].drv /\ th'[t].dv = n
         \/ st = "deleted" /\ th'[t].pc \in {"idle", "round", "advance"}
      /\ \A u \in Threads : u # t => th'[u] = th[u]
  BY <1>0, <1>3 DEF Goto, Return, DriveDone, Locals, Idle
<1> HIDE DEF n
<1>6. TableIsLive'
  BY <1>0, <1>1, <1>4 DEF TableInv, TableIsLive
<1>7. Owned'
  BY <1>0, <1>1, <1>2, <1>4, <1>5 DEF TableInv, Owned, Owns, OwnPcs, StateAt
<1>8. OneOwner'
  BY <1>0, <1>5 DEF TableInv, OneOwner, Owns, OwnPcs
<1>9. SlotRead'
  BY <1>0, <1>5 DEF TableInv, SlotRead, At
<1>10. NamesUnique'
  BY <1>1, <1>4 DEF TableInv, NamesUnique
<1>11. Accounted'
  <2> SUFFICES ASSUME NEW m \in DOMAIN devs, devs'[m].state # "deleted"
               PROVE  \/ table[devs'[m].drive] = m
                      \/ \E u \in Threads : Owns(u)' /\ th'[u].dv = m
    BY <1>0, <1>4 DEF Accounted
  <2>1. CASE m = n
    BY <1>4, <1>5, <2>1 DEF Owns, OwnPcs
  <2>2. CASE m # n
    <3>1. \A u \in Threads : th[u].dv = m => u # t
      BY <2>2 DEF n
    <3> QED BY <1>4, <1>5, <2>2, <3>1 DEF TableInv, Accounted, Owns
  <2> QED BY <2>1, <2>2
<1> QED BY <1>6, <1>7, <1>8, <1>9, <1>10, <1>11 DEF TableInv

\* A step that leaves the devices alone and begins or ends to own none
LEMMA Outside ==
  ASSUME TypeInv, TypeInv', TableInv, NEW t \in Threads, NEW r, SetLocals(t, r),
         UNCHANGED <<table, devs>>, ~Owns(t), r.pc \notin OwnPcs,
         r.pc = "clear" => table[r.drv] = r.dv /\ r.dv # Null
  PROVE  TableInv'
BY Elsewhere

LEMMA BeginKeeps ==
  ASSUME TypeInv, TypeInv', TableInv, NEW t \in Threads, Begin(t)
  PROVE  TableInv'
<1>1. /\ UNCHANGED <<table, devs>> /\ At(t, "idle")
      /\ \E r : /\ SetLocals(t, r)
                /\ r.pc \in {"create", "read", "snapshot"}
  <2>1. ASSUME NEW d \in Drives, BeginMount(t, d)
        PROVE  /\ UNCHANGED <<table, devs>> /\ At(t, "idle")
               /\ \E r : SetLocals(t, r) /\ r.pc \in {"create", "read", "snapshot"}
    <3> DEFINE r == [Idle EXCEPT !.pc = "create", !.op = "mount", !.drv = d]
    <3>1. SetLocals(t, r) /\ UNCHANGED <<table, devs>> /\ At(t, "idle")
      BY <2>1 DEF BeginMount, SetLocals
    <3>2. r.pc \in {"create", "read", "snapshot"}
      BY DEF Idle
    <3> HIDE DEF r
    <3> QED BY <3>1, <3>2
  <2>2. ASSUME NEW d \in Drives, NEW request, BeginTeardown(t, request, d)
        PROVE  /\ UNCHANGED <<table, devs>> /\ At(t, "idle")
               /\ \E r : SetLocals(t, r) /\ r.pc \in {"create", "read", "snapshot"}
    <3> DEFINE r == [Idle EXCEPT !.pc = "read", !.op = request, !.drv = d]
    <3>1. SetLocals(t, r) /\ UNCHANGED <<table, devs>> /\ At(t, "idle")
      BY <2>2 DEF BeginTeardown, SetLocals
    <3>2. r.pc \in {"create", "read", "snapshot"}
      BY DEF Idle
    <3> HIDE DEF r
    <3> QED BY <3>1, <3>2
  <2>3. ASSUME BeginUnmountAll(t)
        PROVE  /\ UNCHANGED <<table, devs>> /\ At(t, "idle")
               /\ \E r : SetLocals(t, r) /\ r.pc \in {"create", "read", "snapshot"}
    <3> DEFINE r == [Idle EXCEPT !.pc = "snapshot", !.op = "all",
                              !.from = IF \A m \in Mounters : At(m, "idle")
                                         THEN Len(devs) ELSE 0]
    <3>1. SetLocals(t, r) /\ UNCHANGED <<table, devs>> /\ At(t, "idle")
      BY <2>3 DEF BeginUnmountAll, SetLocals
    <3>2. r.pc \in {"create", "read", "snapshot"}
      BY DEF Idle
    <3> HIDE DEF r
    <3> QED BY <3>1, <3>2
  <2>4. 1 \in Drives
    BY BoundAssumption DEF Drives
  <2> QED BY <2>1, <2>2, <2>3, <2>4 DEF Begin, BeginUnmount, BeginShutdown, BeginUnload
<1>2. PICK r : SetLocals(t, r) /\ r.pc \in {"create", "read", "snapshot"}
  BY <1>1
<1>3. r.pc \notin OwnPcs /\ r.pc # "clear" /\ ~Owns(t)
  BY <1>1, <1>2 DEF OwnPcs, Owns, At
<1> QED BY <1>1, <1>2, <1>3, Outside

\* next_volume_id and the volume's id
LEMMA IdKeeps ==
  ASSUME TypeInv, TypeInv', TableInv, NEW t \in Threads, LoadId(t) \/ StoreId(t) \/ SetId(t)
  PROVE  TableInv'
<1>0. /\ th \in [Threads -> Locals] /\ UNCHANGED table /\ Owns(t)
      /\ devs \in Seq(Devices)
  BY DEF TypeInv, TypeOK, LoadId, StoreId, SetId, At, Owns, OwnPcs, Devices
<1>1. \E r : /\ SetLocals(t, r) /\ r.pc \in {"store", "setid", "start"}
             /\ r.dv = th[t].dv /\ r.drv = th[t].drv
  <2>1. CASE LoadId(t)
    <3> DEFINE r == [th[t] EXCEPT !.tmp = lastId, !.pc = "store"]
    <3>1. SetLocals(t, r)
      BY <1>0, <2>1 DEF LoadId, SetLocals
    <3>2. r.pc = "store" /\ r.dv = th[t].dv /\ r.drv = th[t].drv
      BY <1>0 DEF Locals
    <3> HIDE DEF r
    <3> QED BY <3>1, <3>2
  <2>2. ASSUME NEW l \in {"setid", "start"}, Goto(t, l)
        PROVE \E r : /\ SetLocals(t, r) /\ r.pc \in {"store", "setid", "start"}
                     /\ r.dv = th[t].dv /\ r.drv = th[t].drv
    <3> DEFINE r == [th[t] EXCEPT !.pc = l]
    <3>1. SetLocals(t, r)
      BY <1>0, <2>2 DEF Goto, SetLocals
    <3>2. r.pc = l /\ r.dv = th[t].dv /\ r.drv = th[t].drv
      BY <1>0 DEF Locals
    <3> HIDE DEF r
    <3> QED BY <3>1, <3>2
  <2> QED BY <2>1, <2>2 DEF StoreId, SetId
<1>2. PICK r : /\ SetLocals(t, r) /\ r.pc \in {"store", "setid", "start"}
               /\ r.dv = th[t].dv /\ r.drv = th[t].drv
  BY <1>1
<1>3. /\ DOMAIN devs' = DOMAIN devs
      /\ \A n \in DOMAIN devs : /\ devs'[n].drive = devs[n].drive
                                /\ devs'[n].state = devs[n].state
  <2>1. CASE UNCHANGED devs
    BY <2>1
  <2>2. ASSUME NEW id, devs' = [devs EXCEPT ![th[t].dv].id = id] PROVE <1>3
    <3>1. devs \in [1 .. Len(devs) -> Devices]
      BY <1>0
    <3> QED BY <2>2, <3>1 DEF Devices
  <2> QED BY <2>1, <2>2 DEF LoadId, StoreId, SetId
<1>4. r.pc \in OwnPcs /\ StateAt(r.pc) = StateAt(th[t].pc) /\ r.pc # "clear"
  BY <1>2 DEF OwnPcs, StateAt, LoadId, StoreId, SetId, At
<1> QED BY <1>0, <1>2, <1>3, <1>4, Elsewhere

\* The tear-downs between two devices
LEMMA SearchKeeps ==
  ASSUME TypeInv, TypeInv', TableInv, NEW t \in Threads,
         ReadSlot(t) \/ Advance(t) \/ Snapshot(t) \/ Round(t) \/ Scan(t)
  PROVE  TableInv'
<1>0. /\ th \in [Threads -> Locals] /\ UNCHANGED <<table, devs>> /\ ~Owns(t)
  BY DEF TypeInv, TypeOK, ReadSlot, Advance, Snapshot, Round, Scan, At, Owns, OwnPcs
<1> DEFINE Free == {"idle", "read", "advance", "snapshot", "round", "scan"}
<1>1. ASSUME NEW r, SetLocals(t, r), r.pc \in Free PROVE TableInv'
  <2>1. r.pc \notin OwnPcs /\ r.pc # "clear"
    BY <1>1 DEF OwnPcs
  <2> QED BY <1>0, <1>1, <2>1, Outside
<1>2. ASSUME NEW l \in Free, Goto(t, l) PROVE TableInv'
  <2> DEFINE r == [th[t] EXCEPT !.pc = l]
  <2>1. SetLocals(t, r) /\ r.pc = l
    BY <1>0, <1>2 DEF Goto, SetLocals, Locals
  <2> HIDE DEF r, Free
  <2> QED BY <1>1, <2>1
<1>3. ASSUME Return(t) PROVE TableInv'
  <2>1. SetLocals(t, Idle) /\ Idle.pc = "idle"
    BY <1>3 DEF Return, SetLocals, Idle
  <2> QED BY <1>1, <2>1
<1>4. CASE ReadSlot(t)
  <2>1. CASE DriveDone(t)
    BY <1>2, <1>3, <2>1 DEF DriveDone
  <2>2. CASE /\ table[th[t].drv] # Null
             /\ th' = [th EXCEPT ![t].dv = table[th[t].drv], ![t].pc = "clear"]
    <3> DEFINE r == [th[t] EXCEPT !.dv = table[th[t].drv], !.pc = "clear"]
    <3>1. SetLocals(t, r)
      BY <1>0, <2>2 DEF SetLocals
    <3>2. r.pc = "clear" /\ table[r.drv] = r.dv /\ r.dv # Null
      BY <1>0, <2>2 DEF Locals
    <3> HIDE DEF r
    <3> QED BY <1>0, <3>1, <3>2, Outside DEF OwnPcs
  <2> QED BY <1>4, <2>1, <2>2 DEF ReadSlot
<1>5. CASE Advance(t)
  <2>1. CASE th' = [th EXCEPT ![t].drv = @ + 1, ![t].pc = "read"]
    <3> DEFINE r == [th[t] EXCEPT !.drv = @ + 1, !.pc = "read"]
    <3>1. SetLocals(t, r) /\ r.pc = "read"
      BY <1>0, <2>1 DEF SetLocals, Locals
    <3> HIDE DEF r
    <3> QED BY <1>1, <3>1
  <2> QED BY <1>3, <1>5, <2>1 DEF Advance
<1>6. CASE Snapshot(t)
  <2> DEFINE d == th[t].drv
             id == IF table[d] = Null THEN 0 ELSE devs[table[d]].id
             next == IF d = MaxDrive THEN 1 ELSE d + 1
             l == IF d = MaxDrive THEN "round" ELSE "snapshot"
             r == [th[t] EXCEPT !.ids[d] = id, !.drv = next, !.pc = l]
  <2>1. SetLocals(t, r)
    BY <1>0, <1>6 DEF Snapshot, SetLocals
  <2>2. l \in Free
    OBVIOUS
  <2> HIDE DEF id, next, l, Free
  <2>3. r.pc = l
    BY <1>0 DEF Locals
  <2> HIDE DEF r
  <2> QED BY <1>1, <2>1, <2>2, <2>3
<1>7. CASE Round(t)
  <2>1. CASE th' = [th EXCEPT ![t].round = @ + 1, ![t].best = MaxDrive + 1,
                             ![t].drv = 1, ![t].pc = "scan"]
    <3> DEFINE r == [th[t] EXCEPT !.round = @ + 1, !.best = MaxDrive + 1,
                                  !.drv = 1, !.pc = "scan"]
    <3>1. SetLocals(t, r) /\ r.pc = "scan"
      BY <1>0, <2>1 DEF SetLocals, Locals
    <3> HIDE DEF r
    <3> QED BY <1>1, <3>1
  <2> QED BY <1>3, <1>7, <2>1 DEF Round
<1>8. CASE Scan(t)
  <2> DEFINE Moves(b, e) == th' = [th EXCEPT ![t].best = b, ![t].drv = e]
             Found(b) == th' = [th EXCEPT ![t].drv = b, ![t].pc = "read"]
  <2>1. \/ \E b, e : Moves(b, e)
        \/ Goto(t, "round")
        \/ \E b : Found(b)
    BY <1>8 DEF Scan
  <2>2. ASSUME NEW b, NEW e, Moves(b, e) PROVE TableInv'
    <3> DEFINE r == [th[t] EXCEPT !.best = b, !.drv = e]
    <3>1. SetLocals(t, r)
      BY <1>0, <2>2 DEF SetLocals
    <3>2. th[t].pc = "scan"
      BY <1>8 DEF Scan, At
    <3>3. r.pc = "scan"
      BY <1>0, <3>2 DEF Locals
    <3> HIDE DEF r
    <3> QED BY <1>1, <3>1, <3>3
  <2>3. ASSUME NEW b, Found(b) PROVE TableInv'
    <3> DEFINE r == [th[t] EXCEPT !.drv = b, !.pc = "read"]
    <3>1. SetLocals(t, r) /\ r.pc = "read"
      BY <1>0, <2>3 DEF SetLocals, Locals
    <3> HIDE DEF r
    <3> QED BY <1>1, <3>1
  <2> HIDE DEF Moves, Found
  <2> QED BY <1>2, <2>1, <2>2, <2>3
<1> QED BY <1>4, <1>5, <1>6, <1>7, <1>8

\* Every step keeps the ownership of devices, as long as slots are taken by one.
LEMMA NextTable == TypeInv /\ TypeInv' /\ TableInv /\ TakenByOne /\ [Next]_vars => TableInv'
<1> SUFFICES ASSUME TypeInv, TypeInv', TableInv, TakenByOne, [Next]_vars PROVE TableInv'
  OBVIOUS
<1>1. CASE UNCHANGED vars
  BY <1>1 DEF vars, TableInv, TableIsLive, Owned, OneOwner, SlotRead, NamesUnique,
              Accounted, Owns, At
<1>2. ASSUME NEW t \in Threads, Mount(t) PROVE TableInv'
  BY <1>2, CreateKeeps, IdKeeps, StartKeeps, LetterKeeps, PublishKeeps DEF Mount
<1>3. ASSUME NEW t \in Threads, Teardown(t) PROVE TableInv'
  BY <1>3, SearchKeeps, ClearKeeps, LetterKeeps, StopKeeps DEF Teardown
<1> QED BY <1>1, <1>2, <1>3, BeginKeeps DEF Next, Unloaded

LEMMA Inductive == Spec /\ []TakenByOne => []IndInv
<1>1. Init => IndInv
  BY InitTypeInv, InitTable DEF IndInv
<1>2. IndInv /\ TakenByOne /\ [Next]_vars => IndInv'
  BY NextTyped, NextTable DEF IndInv
<1> QED BY <1>1, <1>2, PTL DEF Spec

\* Every entry of VOLUME_DEVICES is a live volume of its drive, in every
\* behaviour in which no two tear-downs take the same slot, whatever other mounts
\* and tear-downs run beside one another.
THEOREM TableStaysLive == Spec /\ []TakenByOne => []TableIsLive
<1>1. IndInv => TableIsLive
  BY DEF IndInv, TableInv
<1> QED BY <1>1, Inductive, PTL

\* A volume that exists is in the table or in the hands of a thread that will put
\* it there or stop it, although mounts test the slot long before they fill it.
THEOREM VolumesAreKept == Spec /\ []TakenByOne => []NoVolumeLost
<1>1. IndInv => NoVolumeLost
  <2> SUFFICES ASSUME IndInv, NEW n \in DOMAIN devs, devs[n].state \in {"new", "up"}
               PROVE  \/ \E d \in Drives : table[d] = n
                      \/ \E t \in Threads : th[t].pc \in AtWork /\ th[t].dv = n
    BY DEF NoVolumeLost
  <2>1. CASE table[devs[n].drive] = n
    BY <2>1, DriveOf DEF IndInv
  <2>2. ASSUME NEW t \in Threads, Owns(t), th[t].dv = n
        PROVE  th[t].pc \in AtWork
    BY <2>2 DEF IndInv, TableInv, Owned, StateAt, Owns, OwnPcs, AtWork
  <2> QED BY <2>1, <2>2 DEF IndInv, TableInv, Accounted
<1> QED BY <1>1, Inductive, PTL

\* A drive letter is taken only from the volume that is being unmounted: an
\* unmount that is still taking the letter away cannot take that of the next
\* mount of the drive, whichever calls of the Mount Manager fail.
THEOREM LettersAreKept == Spec /\ []TakenByOne => LettersKept
<1>1. ASSUME IndInv, [Next]_vars, NEW n \in DOMAIN devs, devs[n].state = "up", LosesLetter(n)
      PROVE  BeingUnmounted(n)
  <2>1. points' # points
    BY <1>1 DEF LosesLetter
  <2>2. PICK t \in Threads : Begin(t) \/ Mount(t) \/ Teardown(t)
    BY <1>1, <2>1 DEF Next, Unloaded, vars
  <2>3. CreateMountPoint(t) \/ DeleteMountPoint(t)
    BY <2>1, <2>2 DEF Begin, BeginMount, BeginUnmount, BeginShutdown, BeginUnload,
         BeginTeardown, BeginUnmountAll, Mount, CreateDevice, LoadId, StoreId, SetId,
         StartThread, Publish, Teardown, ReadSlot, ClearSlot, StopThread, DeleteDevice,
         Advance, Snapshot, Round, Scan
  <2>4. DeleteMountPoint(t) /\ devs[n].drive = th[t].drv
    BY <1>1, <2>3 DEF CreateMountPoint, DeleteMountPoint, LosesLetter
  <2>5. At(t, "unpoint")
    BY <2>4 DEF DeleteMountPoint
  <2>6. /\ th[t].dv \in DOMAIN devs /\ devs[th[t].dv].drive = th[t].drv
        /\ devs[th[t].dv].state = "up"
    BY <1>1, <2>5 DEF IndInv, TableInv, Owned, Owns, OwnPcs, StateAt, At
  <2>7. th[t].dv = n
    BY <1>1, <2>4, <2>6 DEF IndInv, TableInv, NamesUnique
  <2> QED BY <2>5, <2>7 DEF BeingUnmounted
<1>2. IndInv /\ [Next]_vars
        => [ \A n \in DOMAIN devs : devs[n].state = "up" /\ LosesLetter(n)
               => BeingUnmounted(n) ]_vars
  BY <1>1
<1> QED BY <1>2, Inductive, PTL DEF Spec, LettersKept

-----------------------------------------------------------------------------
\* Unmount all.

Mounted == {d \in Drives : table[d] # Null}

\* An unmount all that no mount has disturbed
Quiet(t) == th[t].op = "all" /\ NoMountMeanwhile(t)

\* At most as many volumes as rounds left
Few(t) == Cardinality(Mounted) <= MaxDrive - th[t].round

\* Every round that begins with a volume ends with one less, which this thread or
\* another tear-down has unmounted: at the end of a round there are few.  Until
\* then there may be one more; a search that has found none so far has then seen
\* empty slots only, and the volume that it has found is still there.
Rounds(t) ==
  LET pc == th[t].pc
  IN  /\ pc = "snapshot" => th[t].round = 0
      /\ pc \in {"round", "unpoint", "stop", "delete"} => Few(t)
      /\ pc \in {"scan", "read", "clear"} /\ ~Few(t) =>
           /\ Cardinality(Mounted) <= (MaxDrive - th[t].round) + 1
           /\ pc \in {"read", "clear"} => table[th[t].drv] # Null
           /\ pc = "scan" => IF th[t].best > MaxDrive
                               THEN \A d \in 1 .. th[t].drv - 1 : table[d] = Null
                               ELSE table[th[t].best] # Null

CountOf(t) ==
  /\ th[t].from <= Len(devs)
  /\ At(t, "idle") => th[t].op = "none"
  /\ th[t].pc \in {"snapshot", "round", "scan"} => th[t].op = "all"
  /\ th[t].op = "all" => th[t].pc \in TeardownPcs \ {"idle", "advance"}
  /\ Quiet(t) => (\A m \in Mounters : ~Owns(m)) /\ Rounds(t)

CountInv == \A t \in Teardowns : CountOf(t)

LEMMA MountedFinite ==
  /\ IsFiniteSet(Mounted) /\ Cardinality(Mounted) \in Nat /\ Cardinality(Mounted) <= MaxDrive
<1>1. IsFiniteSet(Drives) /\ Cardinality(Drives) = MaxDrive
  BY FS_Interval, BoundAssumption DEF Drives
<1>2. Mounted \in SUBSET Drives
  BY DEF Mounted
<1>3. IsFiniteSet(Mounted) /\ Cardinality(Mounted) <= MaxDrive
  BY <1>1, <1>2, FS_Subset
<1> QED BY <1>3, FS_CardinalityType

\* A step that leaves a thread's own variables, the table and the number of
\* devices alone
LEMMA CountUntouched ==
  ASSUME NEW t \in Teardowns, CountOf(t), th'[t] = th[t], Len(devs') = Len(devs),
         Quiet(t) => table' = table, Quiet(t) => \A m \in Mounters : ~Owns(m)'
  PROVE  CountOf(t)'
<1>1. /\ th'[t].from <= Len(devs')
      /\ At(t, "idle")' => th'[t].op = "none"
      /\ th'[t].pc \in {"snapshot", "round", "scan"} => th'[t].op = "all"
      /\ th'[t].op = "all" => th'[t].pc \in TeardownPcs \ {"idle", "advance"}
  BY DEF CountOf, At
<1>2. ASSUME Quiet(t)' PROVE (\A m \in Mounters : ~Owns(m)') /\ Rounds(t)'
  <2>1. Quiet(t)
    BY <1>2 DEF Quiet, NoMountMeanwhile
  <2>2. Rounds(t) /\ table' = table
    BY <2>1 DEF CountOf
  <2>3. Mounted' = Mounted
    BY <2>2 DEF Mounted
  <2>4. Rounds(t)'
    BY <2>2, <2>3 DEF Rounds, Few
  <2> QED BY <2>1, <2>4
<1> QED BY <1>1, <1>2 DEF CountOf

\* A slot is cleared.
LEMMA MountedCleared ==
  ASSUME TypeInv, NEW u \in Threads, ClearSlot(u), NEW d, d = th[u].drv
  PROVE  /\ d \in Drives /\ table'[d] = Null /\ \A e \in Drives : e # d => table'[e] = table[e]
         /\ Mounted' = Mounted \ {d}
         /\ Cardinality(Mounted') \in Nat
         /\ Cardinality(Mounted') =
              IF table[d] # Null THEN Cardinality(Mounted) - 1 ELSE Cardinality(Mounted)
<1>1. table \in [Drives -> 0 .. MaxDevs] /\ d \in Drives
  BY LocalFields DEF TypeInv, TypeOK
<1>2. table' = [table EXCEPT ![d] = Null]
  BY DEF ClearSlot
<1>3. table'[d] = Null /\ \A e \in Drives : e # d => table'[e] = table[e]
  BY <1>1, <1>2
<1>4. Mounted' = Mounted \ {d}
  BY <1>3 DEF Mounted
<1>5. d \in Mounted <=> table[d] # Null
  BY <1>1 DEF Mounted
<1>6. CASE d \in Mounted
  <2>1. IsFiniteSet(Mounted) /\ Cardinality(Mounted) \in Nat
    BY MountedFinite
  <2>2. IsFiniteSet(Mounted \ {d}) /\ Cardinality(Mounted \ {d}) = Cardinality(Mounted) - 1
    BY <1>6, <2>1, FS_RemoveElement
  <2>3. Cardinality(Mounted \ {d}) \in Nat
    BY <2>2, FS_CardinalityType
  <2> QED BY <1>1, <1>3, <1>4, <1>5, <1>6, <2>2, <2>3
<1>7. CASE d \notin Mounted
  <2>1. Mounted \ {d} = Mounted
    BY <1>7
  <2> QED BY <1>1, <1>3, <1>4, <1>5, <1>7, <2>1, MountedFinite
<1> QED BY <1>6, <1>7

\* Another tear-down clears a slot: it is the one this thread has found, and
\* then there are few volumes left, or it is not, or it was empty.
LEMMA CountCleared ==
  ASSUME TypeInv, NEW t \in Teardowns, CountOf(t), NEW u \in Threads, ClearSlot(u),
         th'[t] = th[t], Len(devs') = Len(devs), \A m \in Mounters : ~Owns(m) => ~Owns(m)'
  PROVE  CountOf(t)'
<1> DEFINE d == th[u].drv
<1>1. /\ d \in Drives /\ table'[d] = Null /\ \A e \in Drives : e # d => table'[e] = table[e]
      /\ Cardinality(Mounted') \in Nat
      /\ Cardinality(Mounted') =
           IF table[d] # Null THEN Cardinality(Mounted) - 1 ELSE Cardinality(Mounted)
  BY MountedCleared
<1>2. CASE table[d] = Null
  <2>1. table \in [Drives -> 0 .. MaxDevs] /\ table' = [table EXCEPT ![d] = Null]
    BY DEF TypeInv, TypeOK, ClearSlot
  <2>2. table' = table
    BY <1>2, <2>1
  <2> QED BY <2>2, CountUntouched DEF CountOf
<1>3. CASE table[d] # Null
  <2>1. /\ th[t].round \in 0 .. MaxDrive /\ Cardinality(Mounted) \in Nat
        /\ Cardinality(Mounted') = Cardinality(Mounted) - 1
    BY <1>1, <1>3, MountedFinite, LocalFields DEF Threads
  <2> HIDE DEF d
  <2>2. ASSUME Rounds(t) PROVE Rounds(t)'
    <3>1. Few(t) => Few(t)'
      BY <2>1, BoundAssumption DEF Few
    <3>2. Cardinality(Mounted) <= (MaxDrive - th[t].round) + 1 => Few(t)'
      BY <2>1, BoundAssumption DEF Few
    <3> QED BY <2>2, <3>1, <3>2 DEF Rounds
  <2>3. Quiet(t)' => Quiet(t)
    BY DEF Quiet, NoMountMeanwhile
  <2> QED BY <2>2, <2>3 DEF CountOf, At
<1> QED BY <1>2, <1>3

\* The steps of other threads
LEMMA CountOthers ==
  ASSUME IndInv, IndInv', CountInv, NEW t \in Teardowns, NEW u \in Threads, u # t,
         Begin(u) \/ Mount(u) \/ Teardown(u)
  PROVE  CountOf(t)'
<1>0. TypeInv /\ th \in [Threads -> Locals] /\ devs \in Seq(Devices) /\ t \in Threads
  BY DEF IndInv, TypeInv, TypeOK, Devices, Threads
<1>1. CountOf(t)
  BY DEF CountInv
<1>2. CASE Begin(u)
  <2>1. UNCHANGED <<table, devs>>
    BY <1>2 DEF Begin, BeginMount, BeginUnmount, BeginShutdown, BeginUnload, BeginTeardown,
                BeginUnmountAll
  <2>2. \A v \in Threads : v # u => th'[v] = th[v]
    BY <1>0, <1>2 DEF Begin, BeginMount, BeginUnmount, BeginShutdown, BeginUnload,
                      BeginTeardown, BeginUnmountAll
  <2>3. th'[u].pc \in {"create", "read", "snapshot"}
    BY <1>0, <1>2 DEF Begin, BeginMount, BeginUnmount, BeginShutdown, BeginUnload,
                      BeginTeardown, BeginUnmountAll, Idle
  <2>4. \A m \in Mounters : ~Owns(m) => ~Owns(m)'
    BY <2>2, <2>3 DEF Owns, OwnPcs, Threads
  <2> QED BY <1>0, <1>1, <2>1, <2>2, <2>4, CountUntouched DEF CountOf
<1>3. CASE Teardown(u)
  <2>1. u \in Teardowns /\ ~At(u, "idle")
    BY <1>0, <1>3, KindAt DEF Teardown, ReadSlot, ClearSlot, DeleteMountPoint, StopThread,
             DeleteDevice, Advance, Snapshot, Round, Scan, At, TeardownPcs
  <2>3. SharedInv /\ \A v \in Threads : v # u => th'[v] = th[v]
    BY <1>0, <1>3, TypeParts DEF Teardown, ReadSlot, ClearSlot, DeleteMountPoint, StopThread,
             DeleteDevice, Advance, Snapshot, Round, Scan, DriveDone, Goto, Return
  <2>4. Len(devs') = Len(devs) /\ (table' = table \/ ClearSlot(u))
    BY <1>3, <2>3, StateChanged DEF Teardown, ReadSlot, ClearSlot, DeleteMountPoint,
             StopThread, DeleteDevice, Advance, Snapshot, Round, Scan
  <2>5. \A m \in Mounters : m # u /\ (~Owns(m) => ~Owns(m)')
    BY <2>1, <2>3, ThreadAssumption DEF Owns, Threads
  <2>6. CASE ClearSlot(u)
    BY <1>0, <1>1, <2>3, <2>4, <2>5, <2>6, CountCleared
  <2>7. CASE table' = table
    BY <1>0, <1>1, <2>3, <2>4, <2>5, <2>7, CountUntouched DEF CountOf
  <2> QED BY <2>4, <2>6, <2>7
<1>4. CASE Mount(u)
  <2>1. u \in Mounters
    BY <1>0, <1>4, KindAt DEF Mount, CreateDevice, LoadId, StoreId, SetId, StartThread,
             CreateMountPoint, Publish, At, MountPcs
  <2>2. \A v \in Threads : v # u => th'[v] = th[v]
    BY <1>0, <1>4 DEF Mount, CreateDevice, NewDevice, LoadId, StoreId, SetId, StartThread,
             CreateMountPoint, Publish, Goto, Return
  <2>3. CASE CreateDevice(u)
    <3>1. CASE NewDevice(u)
      <4>1. Len(devs') = Len(devs) + 1 /\ Len(devs) \in Nat
        BY <1>0, <3>1 DEF NewDevice
      <4>2. th[t].from \in Nat /\ th'[t] = th[t]
        BY <1>0, <2>2, LocalFields
      <4>3. th'[t].from <= Len(devs') /\ ~Quiet(t)'
        BY <1>1, <4>1, <4>2 DEF CountOf, Quiet, NoMountMeanwhile
      <4> QED BY <1>1, <4>2, <4>3 DEF CountOf, At
    <3>2. CASE UNCHANGED devs /\ Return(u)
      <4>1. ~Owns(u)' /\ table' = table
        BY <1>0, <2>3, <3>2 DEF Owns, OwnPcs, Return, Idle, CreateDevice
      <4>2. \A m \in Mounters : ~Owns(m) => ~Owns(m)'
        BY <2>2, <4>1 DEF Owns, Threads
      <4> QED BY <1>0, <1>1, <2>2, <3>2, <4>1, <4>2, CountUntouched DEF CountOf
    <3> QED BY <2>3, <3>1, <3>2 DEF CreateDevice
  <2>4. CASE ~CreateDevice(u)
    <3>1. Owns(u)
      BY <1>4, <2>4 DEF Mount, LoadId, StoreId, SetId, StartThread, CreateMountPoint,
               Publish, At, Owns, OwnPcs
    <3>2. ~Quiet(t)
      BY <1>1, <2>1, <3>1 DEF CountOf
    <3>3. Len(devs') = Len(devs)
      <4>1. SharedInv
        BY <1>0, TypeParts
      <4>2. CASE SetId(u)
        <5>1. th[u].tmp + 1 \in Nat /\ lastId \in Nat
          BY <1>0, <4>1, LocalFields DEF SharedInv
        <5> QED BY <4>1, <4>2, <5>1, IdChanged DEF SetId
      <4>3. CASE StartThread(u)
        BY <4>1, <4>3, StateChanged DEF StartThread
      <4> QED BY <1>4, <2>4, <4>2, <4>3 DEF Mount, LoadId, StoreId, CreateMountPoint, Publish
    <3> QED BY <1>0, <1>1, <2>2, <3>2, <3>3, CountUntouched
  <2> QED BY <2>3, <2>4
<1> QED BY <1>2, <1>3, <1>4

\* The steps of an unmount all, and of the other tear-downs
LEMMA CountOwn ==
  ASSUME IndInv, IndInv', CountInv, NEW t \in Teardowns, Begin(t) \/ Mount(t) \/ Teardown(t)
  PROVE  CountOf(t)'
<1>0. /\ TypeInv /\ th \in [Threads -> Locals] /\ devs \in Seq(Devices) /\ t \in Threads
      /\ t \notin Mounters /\ table \in [Drives -> 0 .. MaxDevs] /\ Len(devs) \in Nat
  BY ThreadAssumption DEF IndInv, TypeInv, TypeOK, Devices, Threads
<1>1. /\ CountOf(t) /\ th[t].drv \in Drives /\ th[t].round \in 0 .. MaxDrive
      /\ th[t].from \in Nat
  BY <1>0, LocalFields DEF CountInv
<1>2. Cardinality(Mounted) \in Nat /\ Cardinality(Mounted) <= MaxDrive
  BY MountedFinite
<1>3. ~Mount(t)
  BY <1>0, KindAt DEF Mount, CreateDevice, LoadId, StoreId, SetId, StartThread,
        CreateMountPoint, Publish, At, MountPcs
\* What is left to show when the handler goes on
<1> DEFINE Goes(l) == /\ th'[t].pc = l /\ l \in TeardownPcs \ {"idle"}
                      /\ th'[t].op = th[t].op /\ th'[t].from = th[t].from
                      /\ Len(devs') = Len(devs) /\ \A u \in Threads : u # t => th'[u] = th[u]
                      /\ l \in {"snapshot", "round", "scan"} => th[t].op = "all"
                      /\ l = "advance" => th[t].op # "all"
<1>4. ASSUME NEW l, Goes(l), Quiet(t) /\ Rounds(t) => Rounds(t)'
      PROVE  CountOf(t)'
  <2>1. Quiet(t)' => Quiet(t)
    BY <1>4 DEF Quiet, NoMountMeanwhile
  <2>2. \A m \in Mounters : Owns(m)' => Owns(m)
    BY <1>0, <1>4 DEF Owns, Threads
  <2> QED BY <1>1, <1>4, <2>1, <2>2 DEF CountOf, At
<1>5. ASSUME Return(t), Len(devs') = Len(devs) PROVE CountOf(t)'
  <2>1. th'[t] = Idle
    BY <1>0, <1>5 DEF Return
  <2> QED BY <1>0, <1>5, <2>1 DEF CountOf, At, Quiet, Idle
<1>6. CASE Begin(t)
  <2>1. UNCHANGED <<table, devs>>
    BY <1>6 DEF Begin, BeginMount, BeginUnmount, BeginShutdown, BeginUnload, BeginTeardown,
                BeginUnmountAll
  <2>2. CASE BeginUnmountAll(t)
    <3>1. /\ th'[t].op = "all" /\ th'[t].pc = "snapshot" /\ th'[t].round = 0
          /\ th'[t].from = IF \A m \in Mounters : At(m, "idle") THEN Len(devs) ELSE 0
          /\ \A u \in Threads : u # t => th'[u] = th[u]
      BY <1>0, <2>2 DEF BeginUnmountAll, Idle
    <3>2. ASSUME Quiet(t)', NEW m \in Mounters PROVE ~Owns(m)'
      <4>1. m \in Threads /\ th'[m] = th[m]
        BY <1>0, <3>1 DEF Threads
      <4>2. CASE At(m, "idle")
        BY <4>1, <4>2 DEF At, Owns, OwnPcs
      <4>3. CASE ~At(m, "idle")
        <5>1. Len(devs) = 0
          BY <2>1, <3>1, <3>2, <4>3 DEF Quiet, NoMountMeanwhile
        <5>2. DOMAIN devs = {}
          BY <1>0, <5>1
        <5> QED BY <4>1, <5>2 DEF IndInv, TableInv, Owned, Owns
      <4> QED BY <4>2, <4>3
    <3>3. Rounds(t)'
      BY <3>1 DEF Rounds
    <3> QED BY <1>0, <2>1, <3>1, <3>2, <3>3 DEF CountOf, At, TeardownPcs
  <2>3. CASE ~BeginUnmountAll(t)
    <3>1. th'[t].op \in {"unmount", "shutdown", "unload"} /\ th'[t].pc = "read" /\ th'[t].from = 0
      BY <1>0, <1>6, <2>3 DEF Begin, BeginUnmount, BeginShutdown, BeginUnload, BeginTeardown,
                              Idle
    <3> QED BY <1>0, <2>1, <3>1 DEF CountOf, At, Quiet
  <2> QED BY <2>2, <2>3
<1>7. CASE ReadSlot(t)
  <2>1. UNCHANGED <<table, devs>> /\ At(t, "read")
    BY <1>7 DEF ReadSlot
  <2>2. CASE table[th[t].drv] = Null /\ DriveDone(t)
    <3>1. Rounds(t) => Few(t)
      BY <2>1, <2>2 DEF Rounds, At
    <3>2. ASSUME NEW l \in {"round", "advance"}, Goto(t, l),
                 l = "round" => th[t].op = "all", l = "advance" => th[t].op # "all"
          PROVE  CountOf(t)'
      <4>1. Goes(l) /\ th'[t].round = th[t].round
        BY <1>0, <2>1, <3>2 DEF Goto, Locals, TeardownPcs
      <4>2. Mounted' = Mounted
        BY <2>1 DEF Mounted
      <4>3. Rounds(t) => Rounds(t)'
        BY <3>1, <3>2, <4>1, <4>2 DEF Rounds, Few
      <4> HIDE DEF Goes
      <4> QED BY <1>4, <4>1, <4>3
    <3> HIDE DEF Goes
    <3> QED BY <1>5, <2>1, <2>2, <3>2 DEF DriveDone
  <2>3. CASE th' = [th EXCEPT ![t].dv = table[th[t].drv], ![t].pc = "clear"]
    <3>1. Goes("clear") /\ th'[t].drv = th[t].drv /\ th'[t].round = th[t].round
      BY <1>0, <2>1, <2>3 DEF Locals, TeardownPcs
    <3>2. Mounted' = Mounted
      BY <2>1 DEF Mounted
    <3>3. Rounds(t) => Rounds(t)'
      BY <2>1, <3>1, <3>2 DEF Rounds, Few, At
    <3> HIDE DEF Goes
    <3> QED BY <1>4, <3>1, <3>3
  <2> HIDE DEF Goes
  <2> QED BY <1>7, <2>2, <2>3 DEF ReadSlot
<1>8. CASE ClearSlot(t)
  <2> DEFINE l == IF th[t].op \in {"unmount", "all"} THEN "unpoint" ELSE "stop"
  <2>1. devs' = devs /\ At(t, "clear") /\ Goto(t, l)
    BY <1>8 DEF ClearSlot
  <2>2. l \in {"unpoint", "stop"}
    OBVIOUS
  <2> HIDE DEF l
  <2>3. Goes(l) /\ th'[t].round = th[t].round
    BY <1>0, <2>1, <2>2 DEF Goto, Locals, TeardownPcs
  <2>4. /\ Cardinality(Mounted') \in Nat
        /\ Cardinality(Mounted') = IF table[th[t].drv] # Null THEN Cardinality(Mounted) - 1
                                                               ELSE Cardinality(Mounted)
    BY <1>0, <1>8, MountedCleared
  <2>5. Rounds(t) => Few(t)'
    <3> SUFFICES ASSUME Rounds(t) PROVE Cardinality(Mounted') <= MaxDrive - th[t].round
      BY <2>3 DEF Few
    <3>1. CASE Few(t)
      BY <1>1, <1>2, <2>4, <3>1, BoundAssumption DEF Few
    <3>2. CASE ~Few(t)
      <4>1. /\ Cardinality(Mounted) <= (MaxDrive - th[t].round) + 1
            /\ table[th[t].drv] # Null
        BY <2>1, <3>2 DEF Rounds, At
      <4> QED BY <1>1, <1>2, <2>4, <4>1, BoundAssumption
    <3> QED BY <3>1, <3>2
  <2>6. Rounds(t) => Rounds(t)'
    BY <2>2, <2>3, <2>5 DEF Rounds
  <2> HIDE DEF Goes
  <2> QED BY <1>4, <2>3, <2>6
<1>9. CASE DeleteMountPoint(t) \/ StopThread(t)
  <2>1. PICK l \in {"stop", "delete"} : Goto(t, l)
    BY <1>9 DEF DeleteMountPoint, StopThread
  <2>2. th[t].pc \in {"unpoint", "stop"} /\ table' = table
    BY <1>9 DEF DeleteMountPoint, StopThread, At
  <2>3. Len(devs') = Len(devs)
    BY <1>0, <1>9, TypeParts, StateChanged DEF DeleteMountPoint, StopThread
  <2>4. Goes(l) /\ th'[t].round = th[t].round
    BY <1>0, <2>1, <2>3 DEF Goto, Locals, TeardownPcs
  <2>5. Mounted' = Mounted
    BY <2>2 DEF Mounted
  <2>6. Rounds(t) => Rounds(t)'
    BY <2>1, <2>2, <2>4, <2>5 DEF Rounds, Few
  <2> HIDE DEF Goes
  <2> QED BY <1>4, <2>4, <2>6
<1>10. CASE DeleteDevice(t)
  <2>1. table' = table /\ At(t, "delete") /\ DriveDone(t)
    BY <1>10 DEF DeleteDevice
  <2>2. Len(devs') = Len(devs)
    BY <1>0, <1>10, TypeParts, StateChanged DEF DeleteDevice
  <2>3. Mounted' = Mounted
    BY <2>1 DEF Mounted
  <2>4. ASSUME NEW l \in {"round", "advance"}, Goto(t, l),
               l = "round" => th[t].op = "all", l = "advance" => th[t].op # "all"
        PROVE  CountOf(t)'
    <3>1. Goes(l) /\ th'[t].round = th[t].round
      BY <1>0, <2>2, <2>4 DEF Goto, Locals, TeardownPcs
    <3>2. Rounds(t) => Rounds(t)'
      BY <2>1, <2>3, <2>4, <3>1 DEF Rounds, Few, At
    <3> HIDE DEF Goes
    <3> QED BY <1>4, <3>1, <3>2
  <2> HIDE DEF Goes
  <2> QED BY <1>5, <2>1, <2>2, <2>4 DEF DriveDone
<1>11. CASE Advance(t)
  <2>1. UNCHANGED <<table, devs>> /\ At(t, "advance") /\ th[t].op # "all"
    BY <1>1, <1>11 DEF Advance, CountOf, At
  <2>2. CASE th' = [th EXCEPT ![t].drv = @ + 1, ![t].pc = "read"]
    <3>1. Goes("read") /\ ~Quiet(t)
      BY <1>0, <2>1, <2>2 DEF Locals, TeardownPcs, Quiet
    <3> HIDE DEF Goes
    <3> QED BY <1>4, <3>1
  <2> HIDE DEF Goes
  <2> QED BY <1>5, <1>11, <2>1, <2>2 DEF Advance
<1>12. CASE Snapshot(t)
  <2> DEFINE d == th[t].drv
             id == IF table[d] = Null THEN 0 ELSE devs[table[d]].id
             next == IF d = MaxDrive THEN 1 ELSE d + 1
             l == IF d = MaxDrive THEN "round" ELSE "snapshot"
  <2>1. /\ UNCHANGED <<table, devs>> /\ At(t, "snapshot")
        /\ th' = [th EXCEPT ![t].ids[d] = id, ![t].drv = next, ![t].pc = l]
    BY <1>12 DEF Snapshot
  <2>2. l \in {"round", "snapshot"} /\ th[t].op = "all"
    BY <1>1, <2>1 DEF CountOf, At
  <2> HIDE DEF id, next, l
  <2>3. Goes(l) /\ th'[t].round = th[t].round
    BY <1>0, <2>1, <2>2 DEF Locals, TeardownPcs
  <2>4. Mounted' = Mounted
    BY <2>1 DEF Mounted
  <2>5. Rounds(t) => Rounds(t)'
    BY <1>2, <2>1, <2>2, <2>3, <2>4, BoundAssumption DEF Rounds, Few, At
  <2> HIDE DEF Goes
  <2> QED BY <1>4, <2>3, <2>5
<1>13. CASE Round(t)
  <2>1. UNCHANGED <<table, devs>> /\ At(t, "round") /\ th[t].op = "all"
    BY <1>1, <1>13 DEF Round, CountOf, At
  <2>2. CASE th' = [th EXCEPT ![t].round = @ + 1, ![t].best = MaxDrive + 1,
                             ![t].drv = 1, ![t].pc = "scan"]
    <3>1. /\ Goes("scan") /\ th'[t].round = th[t].round + 1
          /\ th'[t].best = MaxDrive + 1 /\ th'[t].drv = 1
      BY <1>0, <2>1, <2>2 DEF Locals, TeardownPcs
    <3>2. Mounted' = Mounted
      BY <2>1 DEF Mounted
    <3>3. Rounds(t) => Rounds(t)'
      BY <1>1, <1>2, <2>1, <3>1, <3>2, BoundAssumption DEF Rounds, Few, At
    <3> HIDE DEF Goes
    <3> QED BY <1>4, <3>1, <3>3
  <2> HIDE DEF Goes
  <2> QED BY <1>5, <1>13, <2>1, <2>2 DEF Round
<1>14. CASE Scan(t)
  <2> DEFINE d == th[t].drv
             best == th[t].best
             better == table[d] # Null /\ (best > MaxDrive \/ th[t].ids[d] > th[t].ids[best])
             best1 == IF better THEN d ELSE best
  <2>1. UNCHANGED <<table, devs>> /\ At(t, "scan") /\ th[t].op = "all"
    BY <1>1, <1>14 DEF Scan, CountOf, At
  <2>2. \/ d < MaxDrive /\ th' = [th EXCEPT ![t].best = best1, ![t].drv = d + 1]
        \/ d = MaxDrive /\ best1 > MaxDrive /\ Goto(t, "round")
        \/ d = MaxDrive /\ best1 <= MaxDrive
              /\ th' = [th EXCEPT ![t].drv = best1, ![t].pc = "read"]
    BY <1>14 DEF Scan
  <2>3. best \in 1 .. MaxDrive + 1 /\ d \in 1 .. MaxDrive
    BY <1>0, <1>1, LocalFields DEF Drives
  <2>4. Mounted' = Mounted
    BY <2>1 DEF Mounted
  \* The search so far, with this drive
  <2>5. Rounds(t) /\ ~Few(t) => IF best1 > MaxDrive THEN \A e \in 1 .. d : table[e] = Null
                                                    ELSE table[best1] # Null
    BY <2>1, <2>3, BoundAssumption DEF Rounds, At
  <2>6. best1 \in 1 .. MaxDrive + 1
    BY <2>3, BoundAssumption
  <2> HIDE DEF best1, best, better
  <2>7. CASE d < MaxDrive /\ th' = [th EXCEPT ![t].best = best1, ![t].drv = d + 1]
    <3>1. th'[t].best = best1 /\ th'[t].drv = d + 1 /\ th'[t].round = th[t].round
      BY <1>0, <2>7 DEF Locals
    <3>2. Goes("scan")
      BY <1>0, <2>1, <2>7 DEF Locals, TeardownPcs, At
    <3>3. Rounds(t) => Rounds(t)'
      BY <2>1, <2>3, <2>4, <2>5, <3>1, <3>2 DEF Rounds, Few, At
    <3> HIDE DEF Goes
    <3> QED BY <1>4, <3>2, <3>3
  <2>8. CASE d = MaxDrive /\ best1 > MaxDrive /\ Goto(t, "round")
    <3>1. Goes("round") /\ th'[t].round = th[t].round
      BY <1>0, <2>1, <2>8 DEF Goto, Locals, TeardownPcs
    <3>2. Rounds(t) /\ ~Few(t) => Mounted = {}
      BY <2>5, <2>8 DEF Mounted, Drives
    <3>3. Rounds(t) => Few(t)
      <4>1. Cardinality({}) = 0
        BY FS_EmptySet
      <4> QED BY <1>1, <3>2, <4>1, BoundAssumption DEF Few
    <3>4. Rounds(t) => Rounds(t)'
      BY <2>4, <3>1, <3>3 DEF Rounds, Few
    <3> HIDE DEF Goes
    <3> QED BY <1>4, <3>1, <3>4
  <2>9. CASE d = MaxDrive /\ best1 <= MaxDrive
               /\ th' = [th EXCEPT ![t].drv = best1, ![t].pc = "read"]
    <3>1. Goes("read") /\ th'[t].drv = best1 /\ th'[t].round = th[t].round
      BY <1>0, <2>1, <2>9 DEF Locals, TeardownPcs
    <3>2. Rounds(t) => Rounds(t)'
      BY <2>1, <2>3, <2>4, <2>5, <2>6, <2>9, <3>1, BoundAssumption DEF Rounds, Few, At
    <3> HIDE DEF Goes
    <3> QED BY <1>4, <3>1, <3>2
  <2> HIDE DEF Goes
  <2> QED BY <2>2, <2>7, <2>8, <2>9
<1> HIDE DEF Goes
<1> QED BY <1>3, <1>6, <1>7, <1>8, <1>9, <1>10, <1>11, <1>12, <1>13, <1>14 DEF Teardown

LEMMA NextCount == IndInv /\ IndInv' /\ CountInv /\ [Next]_vars => CountInv'
<1> SUFFICES ASSUME IndInv, IndInv', CountInv, [Next]_vars, NEW t \in Teardowns
             PROVE  CountOf(t)'
  BY DEF CountInv
<1>1. CASE UNCHANGED vars
  <2>1. CountOf(t)
    BY DEF CountInv
  <2> QED BY <1>1, <2>1 DEF vars, CountOf, At, Quiet, NoMountMeanwhile, Owns, Rounds, Few, Mounted
<1>2. ASSUME NEW u \in Threads, Begin(u) \/ Mount(u) \/ Teardown(u) PROVE CountOf(t)'
  BY <1>2, CountOthers, CountOwn
<1> QED BY <1>1, <1>2 DEF Next, Unloaded

LEMMA Counted == Spec /\ []TakenByOne => []CountInv
<1>1. Init => CountInv
  BY DEF Init, CountInv, CountOf, At, Quiet, Idle, Threads
<1> QED BY <1>1, NextCount, Inductive, PTL DEF Spec

\* When unmount all ends and no mount ran beside it, no volume is mounted: each of
\* its MAX_DRIVE searches either unmounts a volume or finds every slot empty, also
\* when next_volume_id has given two volumes the same id.
THEOREM UnmountAllEmpties == Spec /\ []TakenByOne => []UnmountAllUnmounts
<1>1. CountInv => UnmountAllUnmounts
  <2> SUFFICES ASSUME CountInv, NEW t \in Teardowns, UnmountAllDone(t), NoMountMeanwhile(t)
               PROVE  \A d \in Drives : table[d] = Null
    BY DEF UnmountAllUnmounts
  <2>1. Rounds(t) /\ At(t, "round") /\ th[t].round = MaxDrive
    BY DEF CountInv, CountOf, Quiet, UnmountAllDone, At
  <2>2. Cardinality(Mounted) <= 0
    BY <2>1, BoundAssumption DEF Rounds, Few, At
  <2>3. Cardinality(Mounted) = 0
    BY <2>2, MountedFinite
  <2>4. Mounted = {}
    BY <2>3, MountedFinite, FS_EmptySet
  <2> QED BY <2>4 DEF Mounted
<1> QED BY <1>1, Counted, PTL

=============================================================================
