----------------------------- MODULE EncryptedIo ------------------------------
(***************************************************************************)
(* The encrypted I/O pipeline of a mounted volume, encrypted_io_queue.rs:  *)
(* READ, WRITE and FLUSH requests, each processed from beginning to end on *)
(* the thread that sends it, so that several are in progress at a time.    *)
(* They share the host file only; it is opened for synchronous I/O, which  *)
(* makes each ZwReadFile and ZwWriteFile one step.                         *)
(*                                                                         *)
(* Abstractions.  Request i writes the byte i everywhere; a byte nobody    *)
(* wrote is "old".  The host file holds the volume and one sector after    *)
(* it.  XTS never fails on whole sectors, so the paths that answer         *)
(* STATUS_DISK_CORRUPT_ERROR are left out.  The volume stays mounted.      *)
(***************************************************************************)
EXTENDS SectorIo

CONSTANTS
  Irps,       \* the requests
  Requests    \* what they may ask for: records of kind, off and len (bytes)

ASSUME RequestAssumption ==
  Requests \subseteq [kind : {"read", "write", "flush"}, off : Int, len : Nat]

VARIABLES
  readOnly,   \* b_read_only
  host,       \* the sectors of the host file, as ciphertext
  io          \* each request: pc, request, sector_buf, and its answer

vars == <<readOnly, host, io>>

HostSectors == 0 .. (DataOffset + DiskLength) \div Unit
Bytes == 0 .. Unit - 1
Idle == [pc |-> "idle"]

Init ==
  /\ readOnly \in BOOLEAN
  /\ host = [s \in HostSectors |->
               EncryptSector(s - DataOffset \div Unit, [b \in Bytes |-> "old"])]
  /\ io = [i \in Irps |-> Idle]

Params(r) == ComputeParams(r.off, r.len)

Goto(i, pc, buf) ==
  io' = [io EXCEPT ![i] = [pc |-> pc, r |-> io[i].r, buf |-> buf]]

\* complete_disk_irp
Complete(i, ok, data) ==
  io' = [io EXCEPT ![i] = [pc |-> "done", r |-> io[i].r, ok |-> ok, data |-> data]]

\* add_irp: the request arrives.
AddIrp(i, r) ==
  /\ io[i] = Idle
  /\ io' = [io EXCEPT ![i] = [pc |-> "check", r |-> r]]
  /\ UNCHANGED <<readOnly, host>>

\* The early returns, in the order of process_read_irp and process_write_irp:
\* a read of nothing succeeds at any offset, a write of nothing only at one
\* that is not negative and on a writable volume.
Refused(r) ==
  \/ r.kind = "write" /\ readOnly
  \/ r.kind = "write" /\ r.off < 0
  \/ r.kind = "read" /\ r.len # 0 /\ r.off < 0
  \/ r.kind # "flush" /\ r.len # 0 /\ ~InBounds(r.off, r.len)

\* The checks and the allocation of sector_buf, which may fail.
CheckParams(i) ==
  LET r == io[i].r
  IN  /\ io[i].pc = "check"
      /\ r.kind # "flush"
      /\ \/ Refused(r) /\ Complete(i, FALSE, <<>>)
         \/ ~Refused(r) /\ r.len = 0 /\ Complete(i, TRUE, <<>>)
         \/ ~Refused(r) /\ r.len # 0 /\ Goto(i, "host", <<>>)
         \/ ~Refused(r) /\ r.len # 0 /\ Complete(i, FALSE, <<>>)
      /\ UNCHANGED <<readOnly, host>>

\* process_flush_irp: ZwFlushBuffersFile, unless the volume is read-only.
Flush(i) ==
  /\ io[i].pc = "check"
  /\ io[i].r.kind = "flush"
  /\ \/ Complete(i, TRUE, <<>>)
     \/ ~readOnly /\ Complete(i, FALSE, <<>>)
  /\ UNCHANGED <<readOnly, host>>

\* ZwReadFile of the aligned sectors, for a read and for a write.
ReadHost(i) ==
  LET p == Params(io[i].r)
  IN  /\ io[i].pc = "host"
      /\ \/ Goto(i, "copy", [k \in 1 .. p.count |-> host[p.sector + k - 1]])
         \/ Complete(i, FALSE, <<>>)
      /\ UNCHANGED <<readOnly, host>>

\* The user's bytes of a decrypted buffer.
UserBytes(r, plains) ==
  LET p == Params(r)
      At(n) == plains[n \div Unit + 1][n % Unit]
  IN  [b \in r.off .. r.off + r.len - 1 |-> At(p.userOff + b - r.off)]

\* Variant: a failed copy frees the buffer and forgets the request.
DecryptAndCopyForgets(i) ==
  LET r == io[i].r
  IN  /\ io[i].pc = "copy"
      /\ r.kind = "read"
      /\ \/ Complete(i, TRUE, UserBytes(r, DecryptSectors(Params(r), io[i].buf)))
         \/ Goto(i, "lost", <<>>)
      /\ UNCHANGED <<readOnly, host>>

\* decrypt_sectors and copy_to_user_buffer, which may fail.
DecryptAndCopy(i) ==
  LET r == io[i].r
  IN  /\ io[i].pc = "copy"
      /\ r.kind = "read"
      /\ \/ Complete(i, TRUE, UserBytes(r, DecryptSectors(Params(r), io[i].buf)))
         \/ Complete(i, FALSE, <<>>)
      /\ UNCHANGED <<readOnly, host>>

\* copy_from_user_buffer over the sectors as they were read: every other byte
\* of the buffer is still a byte of ciphertext.
Overlay(i) ==
  LET p == Params(io[i].r)
      User(k, b) == (k - 1) * Unit + b \in p.userOff .. p.userOff + io[i].r.len - 1
  IN  [k \in 1 .. p.count |-> [b \in Bytes |-> IF User(k, b) THEN i ELSE Noise]]

\* The overlay, which may fail, and encrypt_sectors.
OverlayAndEncrypt(i) ==
  /\ io[i].pc = "copy"
  /\ io[i].r.kind = "write"
  /\ \/ Goto(i, "write", EncryptSectors(Params(io[i].r), Overlay(i)))
     \/ Complete(i, FALSE, <<>>)
  /\ UNCHANGED <<readOnly, host>>

\* The first n sectors of the buffer reach the host file.
Stored(i, n) ==
  LET p == Params(io[i].r)
  IN  [s \in HostSectors |-> IF s \in p.sector .. p.sector + n - 1
                               THEN io[i].buf[s - p.sector + 1] ELSE host[s]]

\* ZwWriteFile.  When it fails, a leading part may have been written.
WriteHost(i) ==
  LET n == Params(io[i].r).count
  IN  /\ io[i].pc = "write"
      /\ \/ host' = Stored(i, n) /\ Complete(i, TRUE, <<>>)
         \/ \E m \in 0 .. n : host' = Stored(i, m) /\ Complete(i, FALSE, <<>>)
      /\ UNCHANGED readOnly

Process(i) ==
  \/ CheckParams(i) \/ Flush(i) \/ ReadHost(i)
  \/ DecryptAndCopy(i) \/ OverlayAndEncrypt(i) \/ WriteHost(i)

\* No request is left.
AllDone == (\A i \in Irps : io[i].pc = "done") /\ UNCHANGED vars

Next ==
  \/ \E i \in Irps : (\E r \in Requests : AddIrp(i, r)) \/ Process(i)
  \/ AllDone

Spec == Init /\ [][Next]_vars

\* The thread that sent a request runs it to its end.
FairSpec == Spec /\ \A i \in Irps : WF_vars(Process(i))

-----------------------------------------------------------------------------
\* Properties.

Byte == Irps \cup {"old", Noise}
Plain == [Bytes -> Byte]
Sector == [tweak : Int, plain : Plain]

\* Types, and that the buffer of a request is as long as its parameters say
\* and lies in the host file.
TypeOK ==
  /\ readOnly \in BOOLEAN
  /\ host \in [HostSectors -> Sector]
  /\ \A i \in Irps :
       /\ io[i].pc \in {"idle", "check", "host", "copy", "write", "done"}
       /\ io[i].pc # "idle" => io[i].r \in Requests
       /\ io[i].pc \in {"host", "copy", "write"} =>
            LET p == Params(io[i].r)
            IN  p.sector .. p.sector + p.count - 1 \subseteq HostSectors
       /\ io[i].pc \in {"copy", "write"} =>
            io[i].buf \in [1 .. Params(io[i].r).count -> Sector]

\* The sectors that hold bytes of the volume.
DataSectors == DataOffset \div Unit .. (DataOffset + DiskLength - 1) \div Unit

\* The host file changes only by writes to a writable volume, and only in
\* the volume's data area: the alignment never reaches the sectors before
\* and after it, where the headers are.
HostKept ==
  [][ \A s \in HostSectors : host'[s] # host[s] => ~readOnly /\ s \in DataSectors ]_vars

\* Every request is answered, on every path, once.
EveryIrpCompletes == \A i \in Irps : io[i].pc = "check" ~> io[i].pc = "done"

\* The plaintext of the volume, byte by byte.
Disk ==
  [b \in 0 .. DiskLength - 1 |->
     LET s == (DataOffset + b) \div Unit
     IN  DecryptSector(s - DataOffset \div Unit, host[s])[(DataOffset + b) % Unit]]

Seen(i) == UserBytes(io[i].r, DecryptSectors(Params(io[i].r), io[i].buf))

VirtualRequest(i) ==
  CASE io[i].pc = "idle" -> [state |-> "idle"]
    [] io[i].pc = "copy" /\ io[i].r.kind = "read" -> [state |-> "seen", data |-> Seen(i)]
    [] io[i].pc = "done" -> [state |-> "done", ok |-> io[i].ok, data |-> io[i].data]
    [] OTHER -> [state |-> "sent", r |-> io[i].r]

Virtual == INSTANCE VirtualDisk WITH
  disk <- Disk,
  req <- [i \in Irps |-> VirtualRequest(i)]

\* With writes of whole sectors and reads of any bytes, the pipeline is a
\* VirtualDisk, however the requests interleave and whichever of them fail:
\* a read never sees half of a write, nor a byte that nobody wrote.
ImplementsDisk == Virtual!Spec

\* A write changes the bytes it is asked to write, and no others.
NeighboursKept ==
  [][ \A b \in 0 .. DiskLength - 1 :
        Disk'[b] # Disk[b] =>
          \E i \in Irps : /\ io[i].pc = "write"
                          /\ b \in io[i].r.off .. io[i].r.off + io[i].r.len - 1 ]_vars

=============================================================================
