---------------------------- MODULE VolumeThread -----------------------------
(***************************************************************************)
(* One volume of the driver, from mount_device to IoDeleteDevice: the      *)
(* mounting thread, the volume's worker thread (volume_thread_proc), the   *)
(* threads that dispatch DEVICE_CONTROL requests to its queue, and the     *)
(* thread that stops it.  They share the device extension with no lock but *)
(* the interlocked list.                                                   *)
(*                                                                         *)
(* Abstractions.  tc_open_volume succeeds or fails.  What a request asks   *)
(* for is left out: process_volume_device_control completes it on every    *)
(* path.  encrypted_io_queue::start and stop change nothing seen here.     *)
(* The dispatching thread is modelled by the contract enqueue_device_      *)
(* control_irp states for its caller: the remove lock is acquired and the  *)
(* IRP marked pending before the call.  The I/O manager keeps the memory   *)
(* of a deleted device until the last request to it returns; a worker that *)
(* was not joined has no such hold on it, and once it uses a device that   *)
(* is deleted it may go on as before or crash.                             *)
(***************************************************************************)
EXTENDS Naturals, Sequences

CONSTANTS
  Irps,    \* the DEVICE_CONTROL requests sent to the volume
  NoIrp    \* the worker holds none

ASSUME NoIrpAssumption == NoIrp \notin Irps

VARIABLES
  device,    \* DEVICE_OBJECT: "none", "hidden" (initializing), "visible", "deleted"
  block,     \* ThreadBlock: "none", "live", "freed"
  status,    \* nt_create_status: "pending", "ok", "failed"
  event,     \* ke_create_event is signalled
  peThread,  \* Extension.pe_thread holds a reference
  refused,   \* the status nobody reads: ObReferenceObjectByHandle failed
  quit,      \* Extension.b_thread_should_quit
  sem,       \* Extension.request_semaphore
  queue,     \* Extension.list_entry
  host,      \* h_device_file and crypto_info are set
  starter,   \* program counter of mount_device and tc_start_volume_thread
  worker,    \* program counter of volume_thread_proc
  stopper,   \* program counter of tc_stop_volume_thread and its caller
  client,    \* program counter of each request's dispatching thread
  current,   \* the request the worker took from the queue
  irp,       \* each request: "new", "pending" or "completed"
  lock       \* requests whose remove lock is held

devVars == <<device, block, status, event, peThread, refused, quit, host>>
reqVars == <<sem, queue, client, current, irp, lock>>
pcVars == <<starter, worker, stopper>>
vars == <<devVars, reqVars, pcVars>>

Init ==
  /\ device = "none" /\ block = "none" /\ status = "pending"
  /\ event = FALSE /\ peThread = FALSE /\ refused = FALSE
  /\ quit = FALSE /\ host = FALSE
  /\ sem = 0 /\ queue = <<>> /\ current = NoIrp
  /\ client = [i \in Irps |-> "idle"]
  /\ irp = [i \in Irps |-> "new"]
  /\ lock = {}
  /\ starter = "idle" /\ worker = "none" /\ stopper = "idle"

-----------------------------------------------------------------------------
\* The mounting thread.

\* mount_device: IoCreateDevice and the extension.  When IoCreateDevice
\* fails there is no volume, and nothing to model.
CreateDevice ==
  /\ starter = "idle"
  /\ device' = "hidden"
  /\ starter' = "alloc"
  /\ UNCHANGED <<block, status, event, peThread, refused, quit, host, reqVars, worker, stopper>>

\* The ThreadBlock.  Without memory for it the device is deleted again.
AllocateBlock ==
  /\ starter = "alloc"
  /\ \/ block' = "live" /\ starter' = "create" /\ UNCHANGED device
     \/ device' = "deleted" /\ starter' = "failed" /\ UNCHANGED block
  /\ UNCHANGED <<status, event, peThread, refused, quit, host, reqVars, worker, stopper>>

\* tc_start_volume_thread up to PsCreateSystemThread, which may fail.
StartVolumeThread ==
  /\ starter = "create"
  /\ event' = FALSE
  /\ \/ worker' = "open" /\ starter' = "wait" /\ status' = "pending"
     \/ status' = "failed" /\ starter' = "finish" /\ UNCHANGED worker
  /\ UNCHANGED <<device, block, peThread, refused, quit, host, reqVars, stopper>>

\* Variant: the starter does not wait for ke_create_event.
AwaitOpenZeroTimeout ==
  /\ starter = "wait"
  /\ event' = FALSE
  /\ \/ peThread' = TRUE /\ UNCHANGED refused
     \/ refused' = TRUE /\ UNCHANGED peThread
  /\ starter' = "finish"
  /\ UNCHANGED <<device, block, status, quit, host, reqVars, worker, stopper>>

\* The wait for ke_create_event, and the reference to the thread.  The status
\* of ObReferenceObjectByHandle is ignored: when it fails pe_thread stays NULL
\* and the mount goes on.
AwaitOpen ==
  /\ starter = "wait"
  /\ event
  /\ event' = FALSE
  /\ \/ peThread' = TRUE /\ UNCHANGED refused
     \/ refused' = TRUE /\ UNCHANGED peThread
  /\ starter' = "finish"
  /\ UNCHANGED <<device, block, status, quit, host, reqVars, worker, stopper>>

\* mount_device frees the block, and deletes the device or makes it visible.
FinishMount ==
  /\ starter = "finish"
  /\ block' = "freed"
  /\ device' = IF status = "ok" THEN "visible" ELSE "deleted"
  /\ starter' = IF status = "ok" THEN "mounted" ELSE "failed"
  /\ UNCHANGED <<status, event, peThread, refused, quit, host, reqVars, worker, stopper>>

-----------------------------------------------------------------------------
\* The worker thread.

\* tc_open_volume, nt_create_status, and the start of the I/O queue.
OpenVolume ==
  /\ worker = "open"
  /\ \/ host' = TRUE /\ status' = "ok"
     \/ status' = "failed" /\ UNCHANGED host
  /\ worker' = "signal"
  /\ UNCHANGED <<device, block, event, peThread, refused, quit, reqVars, starter, stopper>>

\* Variant: the failure path leaves without KeSetEvent.
SignalStarterOnSuccessOnly ==
  /\ worker = "signal"
  /\ event' = (status = "ok")
  /\ worker' = IF status = "ok" THEN "wait" ELSE "exit"
  /\ UNCHANGED <<device, block, status, peThread, refused, quit, host, reqVars, starter, stopper>>

SignalStarter ==
  /\ worker = "signal"
  /\ event' = TRUE
  /\ worker' = IF status = "ok" THEN "wait" ELSE "exit"
  /\ UNCHANGED <<device, block, status, peThread, refused, quit, host, reqVars, starter, stopper>>

WaitSemaphore ==
  /\ worker = "wait"
  /\ sem > 0
  /\ sem' = sem - 1
  /\ worker' = "check"
  /\ UNCHANGED <<devVars, queue, client, current, irp, lock, starter, stopper>>

CheckQuit ==
  /\ worker = "check"
  /\ worker' = IF quit THEN "cleanup" ELSE "drain"
  /\ UNCHANGED <<devVars, reqVars, starter, stopper>>

RemoveHead ==
  /\ worker = "drain"
  /\ \/ /\ queue = <<>>
        /\ worker' = "recheck"
        /\ UNCHANGED <<queue, current>>
     \/ /\ queue # <<>>
        /\ current' = Head(queue)
        /\ queue' = Tail(queue)
        /\ worker' = "process"
  /\ UNCHANGED <<devVars, sem, client, irp, lock, starter, stopper>>

\* process_volume_device_control completes the request.
ProcessIrp ==
  /\ worker = "process"
  /\ irp' = [irp EXCEPT ![current] = "completed"]
  /\ worker' = "release"
  /\ UNCHANGED <<devVars, sem, queue, client, current, lock, starter, stopper>>

\* Variant: the wrapper is kept after it was freed.
ReleaseRemoveLockKeepsWrapper ==
  /\ worker = "release"
  /\ lock' = lock \ {current}
  /\ worker' = "drain"
  /\ UNCHANGED <<devVars, sem, queue, client, current, irp, starter, stopper>>

ReleaseRemoveLock ==
  /\ worker = "release"
  /\ lock' = lock \ {current}
  /\ current' = NoIrp
  /\ worker' = "drain"
  /\ UNCHANGED <<devVars, sem, queue, client, irp, starter, stopper>>

RecheckQuit ==
  /\ worker = "recheck"
  /\ worker' = IF quit THEN "cleanup" ELSE "wait"
  /\ UNCHANGED <<devVars, reqVars, starter, stopper>>

\* tc_close_and_cleanup: tc_close_volume.
Cleanup ==
  /\ worker = "cleanup"
  /\ host' = FALSE
  /\ worker' = "exit"
  /\ UNCHANGED <<device, block, status, event, peThread, refused, quit, reqVars, starter, stopper>>

Terminate ==
  /\ worker = "exit"
  /\ worker' = "dead"
  /\ UNCHANGED <<devVars, reqVars, starter, stopper>>

\* The worker is still between its first step and the end of tc_close_volume
\* when the device it works on is deleted: undefined behaviour.  It may find
\* the memory unchanged, and then takes its next step as above; or not.
UseDeletedDevice ==
  /\ device = "deleted"
  /\ worker \notin {"none", "exit", "dead", "crashed"}
  /\ worker' = "crashed"
  /\ UNCHANGED <<devVars, reqVars, starter, stopper>>

Worker ==
  \/ OpenVolume \/ SignalStarter \/ WaitSemaphore \/ CheckQuit \/ RemoveHead
  \/ ProcessIrp \/ ReleaseRemoveLock \/ RecheckQuit \/ Cleanup \/ Terminate

-----------------------------------------------------------------------------
\* The stopping thread: tc_stop_volume_thread, called by unmount_device,
\* shutdown and unload, and the IoDeleteDevice after it.

\* Variant: b_thread_should_quit is not set.
RequestStopForgetsQuit ==
  /\ stopper = "idle"
  /\ device = "visible"
  /\ stopper' = "wake"
  /\ UNCHANGED <<devVars, reqVars, starter, worker>>

RequestStop ==
  /\ stopper = "idle"
  /\ device = "visible"
  /\ quit' = TRUE
  /\ stopper' = "wake"
  /\ UNCHANGED <<device, block, status, event, peThread, refused, host, reqVars, starter, worker>>

\* Variant: the semaphore is not released.
WakeWorkerMissing ==
  /\ stopper = "wake"
  /\ stopper' = "join"
  /\ UNCHANGED <<devVars, reqVars, starter, worker>>

WakeWorker ==
  /\ stopper = "wake"
  /\ sem' = sem + 1
  /\ stopper' = "join"
  /\ UNCHANGED <<devVars, queue, client, current, irp, lock, starter, worker>>

\* Variant: the wait has a zero timeout.
JoinWorkerZeroTimeout ==
  /\ stopper = "join"
  /\ peThread' = FALSE
  /\ stopper' = "delete"
  /\ UNCHANGED <<device, block, status, event, refused, quit, host, reqVars, starter, worker>>

\* The join, which a NULL pe_thread skips.
JoinWorker ==
  /\ stopper = "join"
  /\ peThread => worker = "dead"
  /\ peThread' = FALSE
  /\ stopper' = "delete"
  /\ UNCHANGED <<device, block, status, event, refused, quit, host, reqVars, starter, worker>>

DeleteDevice ==
  /\ stopper = "delete"
  /\ device' = "deleted"
  /\ stopper' = "done"
  /\ UNCHANGED <<block, status, event, peThread, refused, quit, host, reqVars, starter, worker>>

-----------------------------------------------------------------------------
\* The dispatching threads.

\* The caller's part: acquire the remove lock and mark the IRP pending.
Dispatch(i) ==
  /\ device = "visible"
  /\ client[i] = "idle"
  /\ client' = [client EXCEPT ![i] = "locked"]
  /\ irp' = [irp EXCEPT ![i] = "pending"]
  /\ lock' = lock \cup {i}
  /\ UNCHANGED <<devVars, sem, queue, current, pcVars>>

\* No memory for the QueuedIrp: the request is completed with an error and
\* the remove lock stays as it is.
EnqueueFails(i) ==
  /\ client[i] = "locked"
  /\ client' = [client EXCEPT ![i] = "returned"]
  /\ irp' = [irp EXCEPT ![i] = "completed"]
  /\ UNCHANGED <<devVars, sem, queue, current, lock, pcVars>>

\* Variant: the semaphore is released before the request is in the list.
InsertTailAfterRelease(i) ==
  /\ \/ /\ client[i] = "locked"
        /\ sem' = sem + 1
        /\ client' = [client EXCEPT ![i] = "inserted"]
        /\ UNCHANGED queue
     \/ /\ client[i] = "inserted"
        /\ queue' = Append(queue, i)
        /\ client' = [client EXCEPT ![i] = "returned"]
        /\ UNCHANGED sem
  /\ UNCHANGED <<devVars, current, irp, lock, pcVars>>

\* Variant: the failed allocation's early return is missing, and a request
\* that was completed is queued as well.
InsertTailAfterFailure(i) ==
  /\ \/ client[i] = "locked"
     \/ client[i] = "returned" /\ irp[i] = "completed" /\ i \in lock
  /\ queue' = Append(queue, i)
  /\ client' = [client EXCEPT ![i] = "inserted"]
  /\ UNCHANGED <<devVars, sem, current, irp, lock, pcVars>>

InsertTail(i) ==
  /\ client[i] = "locked"
  /\ queue' = Append(queue, i)
  /\ client' = [client EXCEPT ![i] = "inserted"]
  /\ UNCHANGED <<devVars, sem, current, irp, lock, pcVars>>

\* Variant: the semaphore is not released.
ReleaseSemaphoreMissing(i) ==
  /\ client[i] = "inserted"
  /\ client' = [client EXCEPT ![i] = "returned"]
  /\ UNCHANGED <<devVars, sem, queue, current, irp, lock, pcVars>>

ReleaseSemaphore(i) ==
  /\ client[i] = "inserted"
  /\ sem' = sem + 1
  /\ client' = [client EXCEPT ![i] = "returned"]
  /\ UNCHANGED <<devVars, queue, current, irp, lock, pcVars>>

-----------------------------------------------------------------------------

\* The volume is gone and no thread has anything left to do.
Finished ==
  /\ device = "deleted"
  /\ worker \in {"none", "dead", "crashed"}
  /\ \A i \in Irps : client[i] \in {"idle", "returned"}
  /\ UNCHANGED vars

Starter ==
  CreateDevice \/ AllocateBlock \/ StartVolumeThread \/ AwaitOpen \/ FinishMount
Stopper == WakeWorker \/ JoinWorker \/ DeleteDevice
Enqueue(i) == EnqueueFails(i) \/ InsertTail(i) \/ ReleaseSemaphore(i)

Next ==
  \/ Starter
  \/ Worker
  \/ UseDeletedDevice
  \/ RequestStop
  \/ Stopper
  \/ \E i \in Irps : Dispatch(i) \/ Enqueue(i)
  \/ Finished

Spec == Init /\ [][Next]_vars

\* The scheduler runs every thread that can run.  Nobody has to dispatch a
\* request or to ask for an unmount.
Fairness ==
  /\ WF_vars(Starter)
  /\ WF_vars(Worker)
  /\ WF_vars(Stopper)
  /\ \A i \in Irps : WF_vars(Enqueue(i))

FairSpec == Spec /\ Fairness

-----------------------------------------------------------------------------
\* Properties.

WorkerStates ==
  {"none", "open", "signal", "wait", "check", "drain", "process", "release",
   "recheck", "cleanup", "exit", "dead", "crashed"}

\* Types, and that the worker holds a request exactly while it works on one.
TypeOK ==
  /\ device \in {"none", "hidden", "visible", "deleted"}
  /\ block \in {"none", "live", "freed"}
  /\ status \in {"pending", "ok", "failed"}
  /\ event \in BOOLEAN /\ peThread \in BOOLEAN /\ refused \in BOOLEAN
  /\ quit \in BOOLEAN /\ host \in BOOLEAN
  /\ sem \in Nat
  /\ queue \in Seq(Irps)
  /\ client \in [Irps -> {"idle", "locked", "inserted", "returned"}]
  /\ current \in Irps \cup {NoIrp}
  /\ worker \in {"process", "release"} => current \in Irps
  /\ current \in Irps => worker \in {"process", "release", "crashed"}
  /\ irp \in [Irps -> {"new", "pending", "completed"}]
  /\ lock \subseteq Irps
  /\ starter \in {"idle", "alloc", "create", "wait", "finish", "mounted", "failed"}
  /\ worker \in WorkerStates
  /\ stopper \in {"idle", "wake", "join", "delete", "done"}

\* No lost wake-up: a worker that waits, or is about to, while a request is
\* in the list finds the semaphore signalled, or the thread that inserted
\* the request has yet to signal it.  The list and the semaphore are two
\* steps of enqueue_device_control_irp and of the worker's loop.
NoLostWakeup ==
  worker \in {"wait", "recheck"} /\ queue # <<>>
    => sem > 0 \/ \E i \in Irps : client[i] = "inserted"

\* The wake-up of tc_stop_volume_thread is not taken by an earlier round of
\* the loop: whoever joins a waiting worker has left it a count.
StopIsSeen == stopper = "join" /\ worker = "wait" => sem > 0

\* Where the reference to the thread was obtained, the device is deleted only
\* when the worker has closed the host file and touches the extension no more
\* (the comment on the infinite wait in tc_stop_volume_thread); and the
\* ThreadBlock is freed only when the worker is past ke_create_event.  Where
\* the reference was refused the first part fails, and the condition says so:
\* tc_stop_volume_thread then skips the join, and IoDeleteDevice races the
\* running worker.
NoUseAfterFree ==
  /\ device = "deleted" /\ ~refused => ~host /\ worker \in {"none", "exit", "dead"}
  /\ block = "freed" => worker \notin {"open", "signal"}

\* A request is in one place only, so it is completed once and its wrapper
\* freed once; and until it is completed its remove lock is held.
Places(i) ==
  {n \in DOMAIN queue : queue[n] = i}
    \cup (IF current = i THEN {0} ELSE {})
RequestOwnedOnce ==
  \A i \in Irps :
    /\ \A m, n \in Places(i) : m = n
    /\ i \in {queue[n] : n \in DOMAIN queue} => irp[i] = "pending"
    /\ irp[i] = "pending" => i \in lock

\* A queued request is completed, unless the volume is told to stop.
QueuedIsServed ==
  \A i \in Irps : client[i] = "inserted" ~> irp[i] = "completed" \/ quit

\* Every mount attempt ends, and every unmount: the starter does not wait
\* for an event nobody sets and the stopper does not wait for a thread that
\* sleeps, whatever requests arrive meanwhile.
MountEnds == starter = "alloc" ~> starter \in {"mounted", "failed"}
StopEnds == stopper = "wake" ~> device = "deleted"

\* The main loop drains the request list: the worker leaves it only when no
\* accepted request is left in the list.
LoopDrainsList ==
  [][ worker # "cleanup" /\ worker' = "cleanup" => queue = <<>> ]_vars

\* The volume implements VolumeService.
Phase ==
  CASE starter = "idle" -> "new"
    [] device = "deleted" -> "gone"
    [] starter \in {"alloc", "create", "wait", "finish"} -> "mounting"
    [] OTHER -> IF quit THEN "unmounting" ELSE "mounted"

Service == INSTANCE VolumeService WITH
  phase <- Phase,
  open <- host,
  joinable <- ~refused,
  pending <- {i \in Irps : irp[i] = "pending"},
  done <- {i \in Irps : irp[i] = "completed"}

\* Every step of the threads is a step of the volume VolumeService promises,
\* or none: a mount succeeds only with an open host file, a request is
\* answered once, and the device of a volume whose thread could be referenced
\* goes only after the host file is closed.  A volume is excused from the last
\* only by the refused reference itself, never by the order of the threads.
ImplementsService == Service!Spec

=============================================================================
