-------------------------- MODULE VolumeThreadProofs --------------------------
(***************************************************************************)
(* Proofs about VolumeThread, for any set of requests.  The inductive      *)
(* invariant is IndInv: types, the two wake-up invariants, and Life, which *)
(* ties the program counters of the starter, the worker and the stopper to *)
(* each other and to the device, the block and the host file.  A refused   *)
(* reference to the thread is the one way past the join: refused stands as *)
(* an alternative in every conjunct that rests on it.                      *)
(***************************************************************************)
EXTENDS VolumeThread, TLAPS

LoopStates ==
  {"wait", "check", "drain", "process", "release", "recheck", "cleanup"}

\* There is no worker before PsCreateSystemThread.
NoWorkerYet == starter \in {"idle", "alloc", "create"} => worker = "none"

\* Before the worker exists; after it was told to go; and the handshake
\* through ke_create_event between them.
StarterLife ==
  /\ NoWorkerYet
  /\ event => worker \notin {"none", "open", "signal"}
  /\ starter \in {"finish", "mounted", "failed"} => worker \notin {"open", "signal"}
  /\ starter \in {"finish", "failed"} /\ status # "ok"
       => worker \in {"none", "exit", "dead"}
  /\ starter = "failed" => worker \in {"none", "exit", "dead"}
  /\ starter = "idle" => device = "none"
  /\ starter \in {"alloc", "create", "wait", "finish"} => device = "hidden"
  /\ starter = "failed" => device = "deleted"
  /\ starter = "mounted" => device = (IF stopper = "done" THEN "deleted" ELSE "visible")
  /\ block = "freed" => starter \in {"mounted", "failed"}

\* The host file is open from a successful tc_open_volume to tc_close_volume.
HostLife ==
  /\ host => worker \in {"signal", "crashed"} \cup LoopStates
  /\ worker = "signal" => (host <=> status = "ok")
  /\ worker \in LoopStates => status = "ok" /\ host
  /\ worker = "cleanup" => quit
  /\ worker \in {"exit", "dead"} /\ status = "ok" => quit

\* The stopper works on a mounted volume and joins its thread.
StopperLife ==
  /\ quit <=> stopper # "idle"
  /\ stopper # "idle" => starter = "mounted"
  /\ starter \in {"finish", "mounted"} /\ worker # "none" /\ stopper \in {"idle", "wake", "join"}
       => peThread \/ refused
  /\ starter \in {"finish", "mounted"} /\ status = "ok" => worker # "none"
  /\ starter = "mounted" => status = "ok"
  /\ stopper \in {"delete", "done"} => worker = "dead" \/ refused
  /\ worker = "crashed" => refused /\ starter = "mounted" /\ stopper = "done"

Life == StarterLife /\ HostLife /\ StopperLife

\* Where a request can be.  Its dispatching thread owns it until it is in
\* the list; then the list has it once, or the worker has it.
RequestLife ==
  /\ starter # "mounted" => queue = <<>> /\ \A i \in Irps : client[i] = "idle"
  /\ \A n \in 1..Len(queue) :
       /\ irp[queue[n]] = "pending"
       /\ client[queue[n]] \in {"inserted", "returned"}
       /\ queue[n] # current
  /\ \A m, n \in 1..Len(queue) : queue[m] = queue[n] => m = n
  /\ current \in Irps => client[current] \in {"inserted", "returned"}
  /\ worker = "process" => irp[current] = "pending"
  /\ worker = "release" => irp[current] = "completed"
  /\ \A i \in Irps :
       /\ client[i] = "idle" => irp[i] = "new"
       /\ client[i] = "locked" => irp[i] = "pending"
       /\ irp[i] = "pending" => i \in lock

IndInv == TypeOK /\ NoLostWakeup /\ StopIsSeen /\ Life /\ RequestLife

-----------------------------------------------------------------------------

\* The flags of the extension.
Flags ==
  /\ event \in BOOLEAN /\ peThread \in BOOLEAN /\ refused \in BOOLEAN
  /\ quit \in BOOLEAN /\ host \in BOOLEAN

\* Types hold initially: no thread has run and the list is empty.
LEMMA InitType == Init => TypeOK
<1>1. Init => Flags
  BY Zenon DEF Init, Flags
<1> QED
  BY <1>1, NoIrpAssumption DEF NoIrpAssumption, Init, TypeOK, WorkerStates, Flags

\* The starter's steps keep the types.
LEMMA StarterType == TypeOK /\ NoWorkerYet /\ Starter => TypeOK'
<1> SUFFICES ASSUME TypeOK, NoWorkerYet, Starter PROVE TypeOK'
  OBVIOUS
<1> USE DEF devVars, reqVars, pcVars, WorkerStates
<1>1. CASE CreateDevice
  BY <1>1 DEF TypeOK, CreateDevice
<1>2. CASE AllocateBlock
  BY <1>2 DEF TypeOK, AllocateBlock
<1>3. CASE StartVolumeThread
  <2>1. Flags'
    <3>1. /\ event' = FALSE /\ peThread' = peThread /\ refused' = refused
          /\ quit' = quit /\ host' = host
      BY <1>3 DEF StartVolumeThread
    <3> QED
      BY <3>1, Zenon DEF TypeOK, Flags
  <2> QED
    BY <1>3, <2>1 DEF TypeOK, StartVolumeThread, Flags, NoWorkerYet
<1>4. CASE AwaitOpen
  <2>1. Flags'
    BY <1>4, Zenon DEF TypeOK, AwaitOpen, Flags
  <2> QED
    BY <1>4, <2>1 DEF TypeOK, AwaitOpen, Flags
<1>5. CASE FinishMount
  BY <1>5 DEF TypeOK, FinishMount
<1> QED
  BY <1>1, <1>2, <1>3, <1>4, <1>5 DEF Starter

\* The worker's steps keep the types: it takes a request only from a list
\* that has one, and holds none when it goes back to the semaphore.
LEMMA WorkerType == TypeOK /\ Worker => TypeOK'
<1> SUFFICES ASSUME TypeOK, Worker PROVE TypeOK'
  OBVIOUS
<1> USE DEF devVars, reqVars, pcVars, WorkerStates
<1>1. CASE OpenVolume
  <2>1. Flags'
    BY <1>1, Zenon DEF TypeOK, OpenVolume, Flags
  <2> QED
    BY <1>1, <2>1 DEF TypeOK, OpenVolume, Flags
<1>2. CASE SignalStarter
  <2>1. Flags'
    BY <1>2, Zenon DEF TypeOK, SignalStarter, Flags
  <2> QED
    BY <1>2, <2>1 DEF TypeOK, SignalStarter, Flags
<1>3. CASE WaitSemaphore
  BY <1>3 DEF TypeOK, WaitSemaphore
<1>4. CASE CheckQuit
  BY <1>4 DEF TypeOK, CheckQuit
<1>5. CASE RemoveHead
  <2>1. CASE queue = <<>>
    BY <1>5, <2>1 DEF TypeOK, RemoveHead
  <2>2. CASE queue # <<>>
    <3>1. Head(queue) \in Irps /\ Tail(queue) \in Seq(Irps)
      BY <2>2 DEF TypeOK
    <3>2. current' = Head(queue) /\ queue' = Tail(queue) /\ worker' = "process"
      BY <1>5, <2>2 DEF RemoveHead
    <3> QED
      BY <1>5, <3>1, <3>2 DEF TypeOK, RemoveHead
  <2> QED
    BY <2>1, <2>2
<1>6. CASE ProcessIrp
  BY <1>6 DEF TypeOK, ProcessIrp
<1>7. CASE ReleaseRemoveLock
  BY <1>7, NoIrpAssumption DEF NoIrpAssumption, TypeOK, ReleaseRemoveLock
<1>8. CASE RecheckQuit
  BY <1>8 DEF TypeOK, RecheckQuit
<1>9. CASE Cleanup
  <2>1. Flags'
    BY <1>9, Zenon DEF TypeOK, Cleanup, Flags
  <2> QED
    BY <1>9, <2>1 DEF TypeOK, Cleanup, Flags
<1>10. CASE Terminate
  BY <1>10 DEF TypeOK, Terminate
<1> QED
  BY <1>1, <1>2, <1>3, <1>4, <1>5, <1>6, <1>7, <1>8, <1>9, <1>10 DEF Worker

\* A worker that crashes on a deleted device leaves the types as they are.
LEMMA CrashType == TypeOK /\ UseDeletedDevice => TypeOK'
  BY DEF TypeOK, UseDeletedDevice, WorkerStates, devVars, reqVars

\* The other threads' steps keep the types.
LEMMA StopperType == TypeOK /\ (RequestStop \/ Stopper) => TypeOK'
<1> SUFFICES ASSUME TypeOK, RequestStop \/ Stopper PROVE TypeOK'
  OBVIOUS
<1> USE DEF devVars, reqVars, pcVars, WorkerStates
<1>1. CASE RequestStop
  <2>1. Flags'
    BY <1>1, Zenon DEF TypeOK, RequestStop, Flags
  <2> QED
    BY <1>1, <2>1 DEF TypeOK, RequestStop, Flags
<1>2. CASE WakeWorker
  BY <1>2 DEF TypeOK, WakeWorker
<1>3. CASE JoinWorker
  <2>1. Flags'
    BY <1>3, Zenon DEF TypeOK, JoinWorker, Flags
  <2> QED
    BY <1>3, <2>1 DEF TypeOK, JoinWorker, Flags
<1>4. CASE DeleteDevice
  BY <1>4 DEF TypeOK, DeleteDevice
<1> QED
  BY <1>1, <1>2, <1>3, <1>4 DEF Stopper

\* The dispatching threads' steps keep the types.
LEMMA ClientType ==
  ASSUME NEW i \in Irps, TypeOK, Dispatch(i) \/ Enqueue(i)
  PROVE  TypeOK'
<1> USE DEF devVars, reqVars, pcVars, WorkerStates
<1>1. CASE Dispatch(i)
  BY <1>1 DEF TypeOK, Dispatch
<1>2. CASE EnqueueFails(i)
  BY <1>2 DEF TypeOK, EnqueueFails
<1>3. CASE InsertTail(i)
  <2>1. Append(queue, i) \in Seq(Irps)
    BY DEF TypeOK
  <2> QED
    BY <1>3, <2>1 DEF TypeOK, InsertTail
<1>4. CASE ReleaseSemaphore(i)
  BY <1>4 DEF TypeOK, ReleaseSemaphore
<1> QED
  BY <1>1, <1>2, <1>3, <1>4 DEF Enqueue

\* Every step keeps the types.
LEMMA NextType == TypeOK /\ NoWorkerYet /\ [Next]_vars => TypeOK'
<1> SUFFICES ASSUME TypeOK, NoWorkerYet, [Next]_vars PROVE TypeOK'
  OBVIOUS
<1>1. CASE Finished \/ UNCHANGED vars
  BY <1>1 DEF TypeOK, WorkerStates, Finished, vars, devVars, reqVars, pcVars
<1> QED
  BY <1>1, StarterType, WorkerType, CrashType, StopperType, ClientType DEF Next

-----------------------------------------------------------------------------

\* The starter hands the block to the worker, and takes it back only after
\* ke_create_event.
LEMMA StarterKeepsLife == TypeOK /\ Life /\ Starter => Life'
<1> SUFFICES ASSUME TypeOK, Life, Starter PROVE Life'
  OBVIOUS
<1> USE DEF devVars, reqVars, pcVars, WorkerStates, LoopStates, TypeOK,
             Life, StarterLife, HostLife, StopperLife, NoWorkerYet
<1>1. CASE CreateDevice
  BY <1>1 DEF CreateDevice
<1>2. CASE AllocateBlock
  BY <1>2 DEF AllocateBlock
<1>3. CASE StartVolumeThread
  BY <1>3 DEF StartVolumeThread
<1>4. CASE AwaitOpen
  BY <1>4 DEF AwaitOpen
<1>5. CASE FinishMount
  BY <1>5 DEF FinishMount
<1> QED
  BY <1>1, <1>2, <1>3, <1>4, <1>5 DEF Starter

\* The worker enters its loop with an open host file and leaves without.
LEMMA WorkerKeepsLife == TypeOK /\ Life /\ Worker => Life'
<1> SUFFICES ASSUME TypeOK, Life, Worker PROVE Life'
  OBVIOUS
<1> USE DEF devVars, reqVars, pcVars, WorkerStates, LoopStates, TypeOK,
             Life, StarterLife, HostLife, StopperLife, NoWorkerYet
<1>1. CASE OpenVolume
  BY <1>1 DEF OpenVolume
<1>2. CASE SignalStarter
  BY <1>2 DEF SignalStarter
<1>3. CASE WaitSemaphore
  BY <1>3 DEF WaitSemaphore
<1>4. CASE CheckQuit
  BY <1>4 DEF CheckQuit
<1>5. CASE RemoveHead
  BY <1>5 DEF RemoveHead
<1>6. CASE ProcessIrp
  BY <1>6 DEF ProcessIrp
<1>7. CASE ReleaseRemoveLock
  BY <1>7 DEF ReleaseRemoveLock
<1>8. CASE RecheckQuit
  BY <1>8 DEF RecheckQuit
<1>9. CASE Cleanup
  BY <1>9 DEF Cleanup
<1>10. CASE Terminate
  BY <1>10 DEF Terminate
<1> QED
  BY <1>1, <1>2, <1>3, <1>4, <1>5, <1>6, <1>7, <1>8, <1>9, <1>10 DEF Worker

\* A worker works on a deleted device only after a refused reference.
LEMMA CrashKeepsLife == TypeOK /\ Life /\ UseDeletedDevice => Life'
  BY DEF UseDeletedDevice, devVars, WorkerStates, LoopStates, TypeOK,
         Life, StarterLife, HostLife, StopperLife, NoWorkerYet

\* The stopper goes on only when the worker it joins is gone, or when it has
\* no reference to join it by.
LEMMA StopperKeepsLife == TypeOK /\ Life /\ (RequestStop \/ Stopper) => Life'
<1> SUFFICES ASSUME TypeOK, Life, RequestStop \/ Stopper PROVE Life'
  OBVIOUS
<1> USE DEF devVars, reqVars, pcVars, WorkerStates, LoopStates, TypeOK,
             Life, StarterLife, HostLife, StopperLife, NoWorkerYet
<1>1. CASE RequestStop
  BY <1>1 DEF RequestStop
<1>2. CASE WakeWorker
  BY <1>2 DEF WakeWorker
<1>3. CASE JoinWorker
  BY <1>3 DEF JoinWorker
<1>4. CASE DeleteDevice
  BY <1>4 DEF DeleteDevice
<1> QED
  BY <1>1, <1>2, <1>3, <1>4 DEF Stopper

\* Dispatching threads change nothing Life speaks of.
LEMMA ClientKeepsLife ==
  ASSUME NEW i \in Irps, Life, Dispatch(i) \/ Enqueue(i)
  PROVE  Life'
  BY DEF Dispatch, Enqueue, EnqueueFails, InsertTail, ReleaseSemaphore, Life,
         StarterLife, HostLife, StopperLife, NoWorkerYet, devVars, pcVars

\* Every step keeps the order of the volume's life.
LEMMA NextLife == TypeOK /\ Life /\ [Next]_vars => Life'
<1> SUFFICES ASSUME TypeOK, Life, [Next]_vars PROVE Life'
  OBVIOUS
<1>1. CASE Finished \/ UNCHANGED vars
  BY <1>1 DEF Life, StarterLife, HostLife, StopperLife, NoWorkerYet, Finished,
              vars, devVars, pcVars
<1> QED
  BY <1>1, StarterKeepsLife, WorkerKeepsLife, CrashKeepsLife, StopperKeepsLife,
     ClientKeepsLife DEF Next

-----------------------------------------------------------------------------

\* The wake-up invariants.  A request enters the list while its thread owes
\* the semaphore a count; the worker goes back to the semaphore only after
\* it found the list empty; and with b_thread_should_quit set it goes there
\* no more.
LEMMA NextWakeup == IndInv /\ [Next]_vars => NoLostWakeup' /\ StopIsSeen'
<1> SUFFICES ASSUME IndInv, [Next]_vars PROVE NoLostWakeup' /\ StopIsSeen'
  OBVIOUS
<1> USE DEF IndInv, TypeOK, devVars, reqVars, pcVars, NoLostWakeup, StopIsSeen
<1>1. CASE Starter
  BY <1>1 DEF Starter, CreateDevice, AllocateBlock, StartVolumeThread, AwaitOpen,
              FinishMount, RequestLife
<1>2. CASE Worker
  <2>1. CASE OpenVolume
    BY <2>1 DEF OpenVolume
  <2>2. CASE SignalStarter
    BY <2>2 DEF SignalStarter, RequestLife, Life, StarterLife, StopperLife
  <2>3. CASE WaitSemaphore
    BY <2>3 DEF WaitSemaphore
  <2>4. CASE CheckQuit
    BY <2>4 DEF CheckQuit
  <2>5. CASE RemoveHead
    BY <2>5 DEF RemoveHead
  <2>6. CASE ProcessIrp
    BY <2>6 DEF ProcessIrp
  <2>7. CASE ReleaseRemoveLock
    BY <2>7 DEF ReleaseRemoveLock
  <2>8. CASE RecheckQuit
    BY <2>8 DEF RecheckQuit, Life, StopperLife
  <2>9. CASE Cleanup
    BY <2>9 DEF Cleanup
  <2>10. CASE Terminate
    BY <2>10 DEF Terminate
  <2> QED
    BY <1>2, <2>1, <2>2, <2>3, <2>4, <2>5, <2>6, <2>7, <2>8, <2>9, <2>10 DEF Worker
<1>3. CASE RequestStop \/ Stopper
  BY <1>3 DEF RequestStop, Stopper, WakeWorker, JoinWorker, DeleteDevice
<1>4. ASSUME NEW i \in Irps, Dispatch(i) \/ Enqueue(i)
      PROVE  NoLostWakeup' /\ StopIsSeen'
  <2>1. CASE Dispatch(i)
    BY <2>1 DEF Dispatch
  <2>2. CASE EnqueueFails(i)
    BY <2>2 DEF EnqueueFails
  <2>3. CASE InsertTail(i)
    BY <2>3 DEF InsertTail
  <2>4. CASE ReleaseSemaphore(i)
    BY <2>4 DEF ReleaseSemaphore
  <2> QED
    BY <1>4, <2>1, <2>2, <2>3, <2>4 DEF Enqueue
<1>5. CASE UseDeletedDevice
  BY <1>5 DEF UseDeletedDevice
<1>6. CASE Finished \/ UNCHANGED vars
  BY <1>6 DEF Finished, vars
<1> QED
  BY <1>1, <1>2, <1>3, <1>4, <1>5, <1>6 DEF Next

-----------------------------------------------------------------------------

\* Taking the head of a list leaves the others in their order.
LEMMA TailFacts ==
  ASSUME NEW S, NEW s \in Seq(S), s # <<>>
  PROVE  /\ Head(s) = s[1] /\ Len(s) \in Nat \ {0}
         /\ Tail(s) \in Seq(S) /\ Len(Tail(s)) = Len(s) - 1
         /\ \A n \in 1..Len(Tail(s)) : n + 1 \in 1..Len(s) /\ Tail(s)[n] = s[n + 1]
  OBVIOUS

\* Appending leaves what was there in place.
LEMMA AppendFacts ==
  ASSUME NEW S, NEW s \in Seq(S), NEW e \in S
  PROVE  /\ Len(s) \in Nat /\ Len(Append(s, e)) = Len(s) + 1
         /\ Append(s, e)[Len(s) + 1] = e
         /\ \A n \in 1..Len(s) : Append(s, e)[n] = s[n]
  OBVIOUS

\* The worker moves a request from the list to itself, completes it and lets
\* it go.
LEMMA WorkerKeepsRequests == IndInv /\ Worker => RequestLife'
<1> SUFFICES ASSUME IndInv, Worker PROVE RequestLife'
  OBVIOUS
<1> USE DEF IndInv, TypeOK, devVars, reqVars, pcVars, RequestLife
<1>1. CASE OpenVolume
  BY <1>1 DEF OpenVolume
<1>2. CASE SignalStarter
  BY <1>2 DEF SignalStarter
<1>3. CASE WaitSemaphore
  BY <1>3 DEF WaitSemaphore
<1>4. CASE CheckQuit
  BY <1>4 DEF CheckQuit
<1>5. CASE RemoveHead
  <2>1. CASE queue = <<>>
    BY <1>5, <2>1 DEF RemoveHead
  <2>2. CASE queue # <<>>
    <3>1. /\ current' = queue[1] /\ queue' = Tail(queue) /\ worker' = "process"
          /\ irp' = irp /\ client' = client /\ lock' = lock /\ starter' = starter
      BY <1>5, <2>2 DEF RemoveHead
    <3>2. \A k \in 1..Len(queue') : k + 1 \in 1..Len(queue) /\ queue'[k] = queue[k + 1]
      BY <2>2, <3>1, TailFacts
    <3>3. 1 \in 1..Len(queue) /\ starter = "mounted"
      BY <2>2, TailFacts
    <3>4. \A k \in 1..Len(queue') : queue'[k] # current'
      BY <3>1, <3>2, <3>3
    <3>5. \A k, l \in 1..Len(queue') : queue'[k] = queue'[l] => k = l
      BY <3>2
    <3> QED
      BY <3>1, <3>2, <3>3, <3>4, <3>5
  <2> QED
    BY <2>1, <2>2
<1>6. CASE ProcessIrp
  BY <1>6 DEF ProcessIrp
<1>7. CASE ReleaseRemoveLock
  BY <1>7, NoIrpAssumption DEF ReleaseRemoveLock, NoIrpAssumption
<1>8. CASE RecheckQuit
  BY <1>8 DEF RecheckQuit
<1>9. CASE Cleanup
  BY <1>9 DEF Cleanup
<1>10. CASE Terminate
  BY <1>10 DEF Terminate
<1> QED
  BY <1>1, <1>2, <1>3, <1>4, <1>5, <1>6, <1>7, <1>8, <1>9, <1>10 DEF Worker

\* A dispatching thread puts its request in the list once, or completes it.
LEMMA ClientKeepsRequests ==
  ASSUME NEW i \in Irps, IndInv, Dispatch(i) \/ Enqueue(i)
  PROVE  RequestLife'
<1> USE DEF IndInv, TypeOK, devVars, reqVars, pcVars, RequestLife
<1>1. CASE Dispatch(i)
  BY <1>1 DEF Dispatch, Life, StarterLife
<1>2. CASE EnqueueFails(i)
  BY <1>2 DEF EnqueueFails
<1>3. CASE InsertTail(i)
  <2>1. /\ queue' = Append(queue, i) /\ client' = [client EXCEPT ![i] = "inserted"]
        /\ current' = current /\ irp' = irp /\ lock' = lock
        /\ worker' = worker /\ starter' = starter /\ client[i] = "locked"
    BY <1>3 DEF InsertTail
  <2>2. /\ Len(queue) \in Nat /\ Len(queue') = Len(queue) + 1
        /\ queue'[Len(queue) + 1] = i
        /\ \A n \in 1..Len(queue) : queue'[n] = queue[n]
    BY <2>1, AppendFacts
  <2>3. \A n \in 1..Len(queue) : queue[n] \in Irps /\ queue[n] # i
    BY <2>1
  <2>4. current # i
    BY <2>1
  <2>5. \A n \in 1..Len(queue') :
          /\ n \in 1..Len(queue) \/ n = Len(queue) + 1
          /\ irp'[queue'[n]] = "pending"
          /\ client'[queue'[n]] \in {"inserted", "returned"}
          /\ queue'[n] # current'
    BY <2>1, <2>2, <2>3, <2>4
  <2>6. \A m, n \in 1..Len(queue') : queue'[m] = queue'[n] => m = n
    BY <2>2, <2>3, <2>5
  <2>7. starter' = "mounted"
    BY <2>1
  <2> QED
    BY <2>1, <2>5, <2>6, <2>7
<1>4. CASE ReleaseSemaphore(i)
  BY <1>4 DEF ReleaseSemaphore
<1> QED
  BY <1>1, <1>2, <1>3, <1>4 DEF Enqueue

\* Every step keeps RequestLife.
LEMMA NextRequests == IndInv /\ [Next]_vars => RequestLife'
<1> SUFFICES ASSUME IndInv, [Next]_vars PROVE RequestLife'
  OBVIOUS
<1>1. CASE Starter
  BY <1>1 DEF IndInv, RequestLife, Starter, CreateDevice, AllocateBlock,
              StartVolumeThread, AwaitOpen, FinishMount, reqVars,
              Life, StarterLife, NoWorkerYet
<1>2. CASE RequestStop \/ Stopper
  BY <1>2 DEF IndInv, RequestLife, RequestStop, Stopper, WakeWorker, JoinWorker,
              DeleteDevice, devVars, reqVars
<1>3. CASE UseDeletedDevice
  BY <1>3 DEF IndInv, RequestLife, UseDeletedDevice, devVars, reqVars
<1>4. CASE Finished \/ UNCHANGED vars
  BY <1>4 DEF IndInv, RequestLife, Finished, vars, reqVars, pcVars
<1> QED
  BY <1>1, <1>2, <1>3, <1>4, WorkerKeepsRequests, ClientKeepsRequests DEF Next

-----------------------------------------------------------------------------

\* Before the mount the invariant holds: there is no worker and no request.
LEMMA InitInv == Init => IndInv
<1> SUFFICES ASSUME Init PROVE IndInv
  OBVIOUS
<1>1. ~event /\ ~peThread /\ ~refused /\ ~quit /\ ~host
  BY Zenon DEF Init
<1>2. Life
  BY <1>1 DEF Init, Life, StarterLife, HostLife, StopperLife, NoWorkerYet, LoopStates
<1>3. RequestLife
  BY NoIrpAssumption DEF NoIrpAssumption, Init, RequestLife
<1> QED
  BY <1>2, <1>3, InitType DEF Init, IndInv, NoLostWakeup, StopIsSeen

\* Every step of every thread keeps the whole invariant.
LEMMA NextInv == IndInv /\ [Next]_vars => IndInv'
  BY NextType, NextLife, NextWakeup, NextRequests DEF IndInv, Life, StarterLife

\* The invariant holds throughout the life of a volume.
LEMMA Invariance == Spec => []IndInv
  BY InitInv, NextInv, PTL DEF Spec

\* TypeOK holds of the mounting, worker, stopping and dispatching threads of
\* a volume, whatever requests are sent to it.
THEOREM TypeCorrect == Spec => []TypeOK
<1>1. IndInv => TypeOK
  BY DEF IndInv
<1> QED
  BY <1>1, Invariance, PTL

\* The wake-ups of enqueue_device_control_irp are not lost, for any number of
\* requests: a worker that waits beside a request has been signalled, or will be.
THEOREM WakeupsAreSeen == Spec => []NoLostWakeup
<1>1. IndInv => NoLostWakeup
  BY DEF IndInv
<1> QED
  BY <1>1, Invariance, PTL

\* The wake-up of tc_stop_volume_thread is not lost either: a worker that its
\* stopper waits for finds the semaphore signalled.
THEOREM StopsAreSeen == Spec => []StopIsSeen
<1>1. IndInv => StopIsSeen
  BY DEF IndInv
<1> QED
  BY <1>1, Invariance, PTL

\* IoDeleteDevice and the ExFreePool of the ThreadBlock do not run ahead of
\* the worker that uses them, for any requests and any order of the threads:
\* the only way for IoDeleteDevice to do so is the refused reference whose
\* status tc_start_volume_thread ignores.
THEOREM FreedLast == Spec => []NoUseAfterFree
<1>1. IndInv => NoUseAfterFree
  BY DEF IndInv, TypeOK, WorkerStates, Life, StarterLife, HostLife, StopperLife,
         LoopStates, NoUseAfterFree
<1> QED
  BY <1>1, Invariance, PTL

\* A request is owned by one place at a time and keeps its remove lock while
\* it is pending, for any number of requests.
THEOREM OwnedOnce == Spec => []RequestOwnedOnce
<1>1. ASSUME IndInv PROVE RequestOwnedOnce
  <2> SUFFICES ASSUME NEW i \in Irps
               PROVE  /\ \A m, n \in Places(i) : m = n
                      /\ i \in {queue[n] : n \in DOMAIN queue} => irp[i] = "pending"
                      /\ irp[i] = "pending" => i \in lock
    BY DEF RequestOwnedOnce
  <2>1. DOMAIN queue = 1..Len(queue)
    BY <1>1 DEF IndInv, TypeOK
  <2> QED
    BY <1>1, <2>1 DEF IndInv, RequestLife, Places
<1> QED
  BY <1>1, Invariance, PTL

-----------------------------------------------------------------------------
\* Refinement.

\* The mapped state does not change when these variables do not.
LEMMA MappedUnchanged ==
  ASSUME UNCHANGED <<device, quit, host, refused, starter, irp>>
  PROVE  UNCHANGED Service!svars
  BY DEF Service!svars, Phase

\* Before the mount the volume is new, closed, and has no request.
LEMMA InitRefines == Init => Service!Init
<1> SUFFICES ASSUME Init PROVE Service!Init
  OBVIOUS
<1>1. host = FALSE /\ refused = FALSE
  BY Zenon DEF Init
<1> QED
  BY <1>1 DEF Init, Service!Init, Phase

\* The mount: each step of the starter is BeginMount, LoseThread, EndMount or
\* nothing.
LEMMA StarterRefines == IndInv /\ Starter => [Service!Next]_(Service!svars)
<1> SUFFICES ASSUME IndInv, Starter PROVE [Service!Next]_(Service!svars)
  OBVIOUS
<1> USE DEF IndInv, TypeOK, reqVars, Life, StarterLife, HostLife, StopperLife,
            NoWorkerYet, LoopStates, WorkerStates
<1>1. CASE CreateDevice
  <2>1. Service!BeginMount
    BY <1>1 DEF CreateDevice, Service!BeginMount, Phase
  <2> QED
    BY <2>1 DEF Service!Next
<1>2. CASE AllocateBlock
  <2>1. CASE device' = device
    BY <1>2, <2>1 DEF AllocateBlock, Phase, Service!svars
  <2>2. CASE device' # device
    <3>1. Service!EndMount
      BY <1>2, <2>2 DEF AllocateBlock, Service!EndMount, Phase
    <3> QED
      BY <3>1 DEF Service!Next
  <2> QED
    BY <2>1, <2>2
<1>3. CASE StartVolumeThread
  BY <1>3 DEF StartVolumeThread, Phase, Service!svars
<1>4. CASE AwaitOpen
  <2>1. CASE UNCHANGED refused
    BY <1>4, <2>1 DEF AwaitOpen, Phase, Service!svars
  <2>2. CASE refused' = TRUE
    <3>1. Service!LoseThread
      BY <1>4, <2>2 DEF AwaitOpen, Service!LoseThread, Phase
    <3> QED
      BY <3>1 DEF Service!Next
  <2> QED
    BY <1>4, <2>1, <2>2 DEF AwaitOpen
<1>5. CASE FinishMount
  <2>1. Service!EndMount
    BY <1>5 DEF FinishMount, Service!EndMount, Phase
  <2> QED
    BY <2>1 DEF Service!Next
<1> QED
  BY <1>1, <1>2, <1>3, <1>4, <1>5 DEF Starter

\* The worker opens the host file while mounting, answers requests, and
\* closes the file while unmounting.
LEMMA WorkerRefines == IndInv /\ Worker => [Service!Next]_(Service!svars)
<1> SUFFICES ASSUME IndInv, Worker PROVE [Service!Next]_(Service!svars)
  OBVIOUS
<1> USE DEF IndInv, TypeOK, devVars, reqVars, pcVars, Life, StarterLife, HostLife,
            StopperLife, NoWorkerYet, LoopStates, WorkerStates
<1>1. CASE OpenVolume
  <2>1. CASE host' = TRUE
    <3>1. Service!OpenHost
      BY <1>1, <2>1 DEF OpenVolume, Service!OpenHost, Phase
    <3> QED
      BY <3>1 DEF Service!Next
  <2>2. CASE UNCHANGED host
    BY <1>1, <2>2, MappedUnchanged DEF OpenVolume
  <2> QED
    BY <1>1, <2>1, <2>2 DEF OpenVolume
<1>2. CASE SignalStarter
  BY <1>2, MappedUnchanged DEF SignalStarter
<1>3. CASE WaitSemaphore
  BY <1>3, MappedUnchanged DEF WaitSemaphore
<1>4. CASE CheckQuit
  BY <1>4, MappedUnchanged DEF CheckQuit
<1>5. CASE RemoveHead
  BY <1>5, MappedUnchanged DEF RemoveHead
<1>6. CASE ReleaseRemoveLock
  BY <1>6, MappedUnchanged DEF ReleaseRemoveLock
<1>7. CASE RecheckQuit
  BY <1>7, MappedUnchanged DEF RecheckQuit
<1>8. CASE Terminate
  BY <1>8, MappedUnchanged DEF Terminate
<1>9. CASE ProcessIrp
  <2>1. current \in Irps /\ irp[current] = "pending"
    BY <1>9 DEF ProcessIrp, RequestLife
  <2>2. PICK i \in Irps : i = current
    BY <2>1
  <2>3. Service!Answer(i)
    BY <1>9, <2>1, <2>2 DEF ProcessIrp, Service!Answer, Phase
  <2> QED
    BY <2>3 DEF Service!Next
<1>10. CASE Cleanup
  <2>1. Service!CloseHost
    BY <1>10 DEF Cleanup, Service!CloseHost, Phase
  <2> QED
    BY <2>1 DEF Service!Next
<1> QED
  BY <1>1, <1>2, <1>3, <1>4, <1>5, <1>6, <1>7, <1>8, <1>9, <1>10 DEF Worker

\* The stopper begins the unmount, and removes the device of a closed volume
\* or of one whose thread it has no reference to.
LEMMA StopperRefines ==
  IndInv /\ (RequestStop \/ Stopper) => [Service!Next]_(Service!svars)
<1> SUFFICES ASSUME IndInv, RequestStop \/ Stopper PROVE [Service!Next]_(Service!svars)
  OBVIOUS
<1> USE DEF IndInv, TypeOK, devVars, reqVars, pcVars, Life, StarterLife, HostLife,
            StopperLife, NoWorkerYet, LoopStates, WorkerStates
<1>1. CASE RequestStop
  <2>1. Service!BeginUnmount
    BY <1>1 DEF RequestStop, Service!BeginUnmount, Phase
  <2> QED
    BY <2>1 DEF Service!Next
<1>2. CASE WakeWorker
  BY <1>2, MappedUnchanged DEF WakeWorker
<1>3. CASE JoinWorker
  BY <1>3, MappedUnchanged DEF JoinWorker
<1>4. CASE DeleteDevice
  <2>1. Service!Remove
    BY <1>4 DEF DeleteDevice, Service!Remove, Phase
  <2> QED
    BY <2>1 DEF Service!Next
<1> QED
  BY <1>1, <1>2, <1>3, <1>4 DEF Stopper

\* A dispatching thread submits its request; only its failure to queue it
\* answers it.
LEMMA ClientRefines ==
  ASSUME NEW i \in Irps, IndInv, Dispatch(i) \/ Enqueue(i)
  PROVE  [Service!Next]_(Service!svars)
<1> USE DEF IndInv, TypeOK, devVars, reqVars, pcVars, Life, StarterLife, HostLife,
            StopperLife, NoWorkerYet, LoopStates, WorkerStates
<1>1. CASE Dispatch(i)
  <2>1. Service!Submit(i)
    BY <1>1 DEF Dispatch, Service!Submit, Phase, RequestLife
  <2> QED
    BY <2>1 DEF Service!Next
<1>2. CASE EnqueueFails(i)
  <2>1. Service!Answer(i)
    BY <1>2 DEF EnqueueFails, Service!Answer, Phase, RequestLife
  <2> QED
    BY <2>1 DEF Service!Next
<1>3. CASE InsertTail(i)
  BY <1>3, MappedUnchanged DEF InsertTail
<1>4. CASE ReleaseSemaphore(i)
  BY <1>4, MappedUnchanged DEF ReleaseSemaphore
<1> QED
  BY <1>1, <1>2, <1>3, <1>4 DEF Enqueue

\* Every step of every thread is a step of the service, or none.
LEMMA NextRefines == IndInv /\ [Next]_vars => [Service!Next]_(Service!svars)
<1> SUFFICES ASSUME IndInv, [Next]_vars PROVE [Service!Next]_(Service!svars)
  OBVIOUS
<1>1. CASE Finished \/ UNCHANGED vars
  BY <1>1, MappedUnchanged DEF Finished, vars, devVars, reqVars, pcVars
<1>2. CASE UseDeletedDevice
  BY <1>2, MappedUnchanged DEF UseDeletedDevice, devVars, reqVars
<1> QED
  BY <1>1, <1>2, StarterRefines, WorkerRefines, StopperRefines, ClientRefines DEF Next

\* The threads of a volume implement VolumeService, for any requests: a mount
\* succeeds only with the host file open, a request is answered at most once,
\* and the device goes after the host file is closed unless the reference to
\* the thread was refused at the mount.
THEOREM Refinement == Spec => ImplementsService
<1> QED
  BY InitRefines, NextRefines, Invariance, PTL DEF Spec, ImplementsService, Service!Spec

=============================================================================
