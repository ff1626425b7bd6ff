---------------------------- MODULE VolumeService ----------------------------
(***************************************************************************)
(* What a mounted volume promises the rest of the driver, without its      *)
(* worker thread, its request queue or its semaphore: the host file is     *)
(* open while the volume is mounted, a request is answered once, and the   *)
(* device is removed only when the host file is closed again.  The last    *)
(* holds of a volume whose thread can be waited for: a mount may lose the  *)
(* means to do so without failing, and then the device may go first.       *)
(***************************************************************************)

CONSTANT Irps    \* the DEVICE_CONTROL requests sent to the volume

VARIABLES
  phase,     \* "new", "mounting", "mounted", "unmounting" or "gone"
  open,      \* the host file is open
  joinable,  \* the volume's thread can be waited for
  pending,   \* requests accepted and not answered
  done       \* requests answered

svars == <<phase, open, joinable, pending, done>>

Init ==
  /\ phase = "new"
  /\ open = FALSE
  /\ joinable = TRUE
  /\ pending = {}
  /\ done = {}

\* A mount begins; it opens the host file, and succeeds only then.
BeginMount ==
  /\ phase = "new"
  /\ phase' = "mounting"
  /\ UNCHANGED <<open, joinable, pending, done>>

OpenHost ==
  /\ phase = "mounting"
  /\ open' = TRUE
  /\ UNCHANGED <<phase, joinable, pending, done>>

LoseThread ==
  /\ phase = "mounting"
  /\ joinable' = FALSE
  /\ UNCHANGED <<phase, open, pending, done>>

EndMount ==
  /\ phase = "mounting"
  /\ phase' = IF open THEN "mounted" ELSE "gone"
  /\ UNCHANGED <<open, joinable, pending, done>>

\* The device can be sent requests until it is gone.
Submit(i) ==
  /\ phase \in {"mounted", "unmounting"}
  /\ i \notin pending \cup done
  /\ pending' = pending \cup {i}
  /\ UNCHANGED <<phase, open, joinable, done>>

Answer(i) ==
  /\ i \in pending
  /\ pending' = pending \ {i}
  /\ done' = done \cup {i}
  /\ UNCHANGED <<phase, open, joinable>>

\* An unmount closes the host file, and only then removes the device, unless
\* the thread that closes the file cannot be waited for.
BeginUnmount ==
  /\ phase = "mounted"
  /\ phase' = "unmounting"
  /\ UNCHANGED <<open, joinable, pending, done>>

CloseHost ==
  /\ phase \in {"unmounting", "gone"}
  /\ open' = FALSE
  /\ UNCHANGED <<phase, joinable, pending, done>>

Remove ==
  /\ phase = "unmounting"
  /\ joinable => ~open
  /\ phase' = "gone"
  /\ UNCHANGED <<open, joinable, pending, done>>

Next ==
  \/ BeginMount \/ OpenHost \/ LoseThread \/ EndMount
  \/ \E i \in Irps : Submit(i) \/ Answer(i)
  \/ BeginUnmount \/ CloseHost \/ Remove

Spec == Init /\ [][Next]_svars

=============================================================================
