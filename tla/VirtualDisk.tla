------------------------------ MODULE VirtualDisk ------------------------------
(***************************************************************************)
(* What the encrypted I/O pipeline promises a file system: an array of     *)
(* bytes.  A read answers with the bytes of its range as they were at one  *)
(* moment between its submission and its answer.  A write that succeeds    *)
(* replaces the bytes of its range, all at one such moment, and no others; *)
(* a write that fails may have replaced a leading part of them.            *)
(***************************************************************************)
EXTENDS Naturals, Sequences

CONSTANTS
  Irps,         \* the requests; a write writes its own name to each byte
  DiskLength,
  Requests      \* the requests that are sent: kind, offset and length

VARIABLES
  disk,    \* 0 .. DiskLength - 1 -> bytes
  req      \* each request: its parameters, state, and answer

dvars == <<disk, req>>

Idle == [state |-> "idle"]

Submit(i) ==
  /\ req[i] = Idle
  /\ \E r \in Requests : req' = [req EXCEPT ![i] = [state |-> "sent", r |-> r]]
  /\ UNCHANGED disk

Range(r) == r.off .. r.off + r.len - 1
Valid(r) == r.off >= 0 /\ r.off + r.len <= DiskLength

Answer(i, ok, data) ==
  req' = [req EXCEPT ![i] = [state |-> "done", ok |-> ok, data |-> data]]

\* The moment a read sees the disk.
Look(i) ==
  /\ req[i].state = "sent"
  /\ req[i].r.kind = "read"
  /\ Valid(req[i].r)
  /\ req' = [req EXCEPT ![i] =
       [state |-> "seen", data |-> [b \in Range(req[i].r) |-> disk[b]]]]
  /\ UNCHANGED disk

AnswerRead(i) ==
  /\ req[i].state = "seen"
  /\ Answer(i, TRUE, req[i].data)
  /\ UNCHANGED disk

Overwrite(i, range) == [b \in DOMAIN disk |-> IF b \in range THEN i ELSE disk[b]]

Write(i) ==
  /\ req[i].state = "sent"
  /\ req[i].r.kind = "write"
  /\ Valid(req[i].r)
  /\ disk' = Overwrite(i, Range(req[i].r))
  /\ Answer(i, TRUE, <<>>)

\* A flush, or a request for no bytes.
Nothing(i) ==
  /\ req[i].state = "sent"
  /\ req[i].r.kind = "flush" \/ req[i].r.len = 0
  /\ Answer(i, TRUE, <<>>)
  /\ UNCHANGED disk

Fail(i) ==
  /\ req[i].state \in {"sent", "seen"}
  /\ Answer(i, FALSE, <<>>)
  /\ \/ UNCHANGED disk
     \/ /\ req[i].state = "sent"
        /\ req[i].r.kind = "write"
        /\ Valid(req[i].r)
        /\ \E n \in 0 .. req[i].r.len :
             disk' = Overwrite(i, req[i].r.off .. req[i].r.off + n - 1)

Init ==
  /\ disk = [b \in 0 .. DiskLength - 1 |-> "old"]
  /\ req = [i \in Irps |-> Idle]

Next ==
  \E i \in Irps :
    \/ Submit(i) \/ Look(i) \/ AnswerRead(i) \/ Write(i) \/ Nothing(i) \/ Fail(i)

Spec == Init /\ [][Next]_dvars

=============================================================================
