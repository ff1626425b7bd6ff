------------------------------ MODULE KernelMount -----------------------------
(***************************************************************************)
(* A mount request on its way: oxhide mount (kernel_ioctl.rs) fills a      *)
(* packed MountStruct, the root device's handler (mount.rs) copies it into *)
(* the ThreadBlock of a new worker, and the worker (volume_thread.rs)      *)
(* reads its fields back, byte by byte.  Unmounting goes the same way.     *)
(*                                                                         *)
(* Abstractions.  One command runs at a time.  Integers are bytes in       *)
(* little-endian order; a byte of the key or of the path, which may be     *)
(* anything, is a number of its own above 255.  Opening the header has     *)
(* succeeded (DataUnits).  A call of the kernel may fail.                  *)
(***************************************************************************)
EXTENDS CipherSuite

CONSTANTS
  Requests,     \* drive, cipher, read_only, data_offset, disk_length, pim
  PathLength    \* characters of the volume's path, fewer than 260

VARIABLES
  pc,       \* where the command is
  req,      \* what the command line asked for
  slots,    \* volume_devices: the drives with a device
  args,     \* what the worker passes to tc_open_volume; <<>> before
  code,     \* return_code of the reply
  outcome   \* what the command reports

vars == <<pc, req, slots, args, code, outcome>>

MAX_DRIVE == 26

-----------------------------------------------------------------------------
(* The layout of MountStruct and of ThreadBlock *)

\* The fields of the packed struct and their sizes
MountStruct ==
  << <<"return_code", 4>>, <<"filesystem_dirty", 1>>, <<"volume_password", 128>>,
     <<"mount_read_only", 1>>, <<"mount_removable", 1>>,
     <<"partition_in_inactive_sys_enc_scope", 1>>, <<"mount_disable_write_cache", 1>>,
     <<"protected_volume_password", 128>>, <<"use_hidden_volume_protection", 1>>,
     <<"preserve_timestamps", 1>>, <<"part_slot_number", 4>>, <<"volume_creation_time", 8>>,
     <<"volume_serial_number", 4>>, <<"dummy", 4>>, <<"wsz_volume", 520>>,
     <<"n_dos_drive_no", 4>>, <<"bytes_per_sector", 4>>, <<"disk_length", 8>>, <<"ea", 4>>,
     <<"master_key", 192>>, <<"data_offset", 8>>, <<"raw_device", 1>>, <<"volume_pim", 4>>,
     <<"wsz_label", 66>>, <<"max_xfer_len", 4>>, <<"max_phys_pages", 4>>, <<"align_mask", 4>> >>

OffsetOf[i \in 1 .. Len(MountStruct) + 1] ==
  IF i = 1 THEN 0 ELSE OffsetOf[i - 1] + MountStruct[i - 1][2]
MountSize == OffsetOf[Len(MountStruct) + 1]
Index(field) == CHOOSE i \in DOMAIN MountStruct : MountStruct[i][1] = field

\* ThreadBlock: device_object and nt_create_status precede the mount field.
MountAt == 8 + 4

KeyByte(k) == 1000 + k
PathByte(i) == 2000 + i
DeviceByte(i) == 3000 + i
Anything == -1     \* an integer with bytes that may be anything

Little(v, k) == CASE k = 0 -> v % 256
                  [] k = 1 -> (v \div 256) % 256
                  [] k = 2 -> (v \div 65536) % 256
                  [] k = 3 -> (v \div 16777216) % 256
                  [] OTHER -> 0

\* Byte k of a field as mount_via_driver fills it in; the rest is zero.
FieldByte(r, field, k) ==
  CASE field = "n_dos_drive_no" -> Little(r.drive, k)
    [] field = "bytes_per_sector" -> Little(512, k)
    [] field = "disk_length" -> Little(r.disk_length, k)
    [] field = "data_offset" -> Little(r.data_offset, k)
    [] field = "ea" -> Little(CipherToEa[r.cipher], k)
    [] field = "mount_read_only" -> IF r.read_only THEN 1 ELSE 0
    [] field = "mount_removable" -> 1
    [] field = "volume_pim" -> Little(r.pim, k)
    [] field = "master_key" -> IF k < 2 * KeySize(r.cipher) THEN KeyByte(k) ELSE 0
    [] field = "wsz_volume" -> IF k % 2 = 0 /\ k < 2 * PathLength THEN PathByte(k) ELSE 0
    [] OTHER -> 0

\* Byte o of the request, zero after its end
RequestByte(r, o) ==
  IF o >= MountSize THEN 0
  ELSE LET i == CHOOSE j \in DOMAIN MountStruct : OffsetOf[j] <= o /\ o < OffsetOf[j + 1]
       IN  FieldByte(r, MountStruct[i][1], o - OffsetOf[i])

\* Byte o of the ThreadBlock: mount_device copies the request to the start of
\* the zeroed block, then tc_start_volume_thread sets the first two fields.
BlockByte(r, o) == IF o < MountAt THEN DeviceByte(o) ELSE RequestByte(r, o)

-----------------------------------------------------------------------------
(* Reading the fields *)

\* read_packed_u32 and read_packed_u64, of numbers below 2^24
Number(bytes) ==
  IF \E k \in DOMAIN bytes : bytes[k] > 255 \/ (k > 2 /\ bytes[k] # 0) THEN Anything
  ELSE bytes[0] + 256 * bytes[1] + 65536 * bytes[2]

\* What a reader finds in a field, given the bytes of the struct
Read(bytes, field) ==
  LET i == Index(field) IN [k \in 0 .. MountStruct[i][2] - 1 |-> bytes[OffsetOf[i] + k]]

\* The path up to the first zero character
PathOf(bytes) ==
  LET ends == {c \in 0 .. 259 : bytes[2 * c] = 0 /\ bytes[2 * c + 1] = 0}
      len == CHOOSE c \in ends \cup {260} : \A d \in ends : c <= d
  IN  [c \in 1 .. len |-> <<bytes[2 * c - 2], bytes[2 * c - 1]>>]

\* The fields volume_thread_proc extracts
Extract(bytes) ==
  LET ea == Number(Read(bytes, "ea"))
      ct == CipherTypeFromEa(ea)
      key_len == IF ct = "unknown" THEN 0 ELSE 2 * KeySize(ct)
      key == Read(bytes, "master_key")
  IN  [drive_no |-> Number(Read(bytes, "n_dos_drive_no")),
       path |-> PathOf(Read(bytes, "wsz_volume")),
       cipher |-> ct,
       key |-> [k \in 1 .. key_len |-> key[k - 1]],
       data_offset |-> Number(Read(bytes, "data_offset")),
       disk_length |-> Number(Read(bytes, "disk_length")),
       bytes_per_sector |-> Number(Read(bytes, "bytes_per_sector")),
       read_only |-> bytes[OffsetOf[Index("mount_read_only")]] # 0,
       removable |-> bytes[OffsetOf[Index("mount_removable")]] # 0,
       preserve_ts |-> bytes[OffsetOf[Index("preserve_timestamps")]] # 0]

\* tc_open_volume can succeed only with the file the path names and a cipher.
CanOpen(a) ==
  /\ a.path = [c \in 1 .. PathLength |-> <<PathByte(2 * c - 2), 0>>]
  /\ a.cipher # "unknown"
  /\ a.bytes_per_sector # 0

-----------------------------------------------------------------------------
(* The command and the handlers *)

NoRequest == <<>>
NotRead == <<>>

Init ==
  /\ pc = "idle" /\ req = NoRequest /\ slots = {} /\ args = NotRead /\ code = 0 /\ outcome = ""

\* The command ends, with what send_mount_ioctl and send_unmount_ioctl make of
\* the return code.
Report(text) == pc' = "idle" /\ outcome' = text

MessageOf(rc) ==
  CASE rc = 0 -> "ok"
    [] rc = -1 -> "Drive letter in use"
    [] rc = -2 -> "Cannot open container file"
    [] rc = -3 -> "Unsupported cipher"
    [] OTHER -> "Driver error"

\* mount_via_driver and unmount_via_driver up to open_driver
Command(kind, r) ==
  /\ pc = "idle"
  /\ req' = r /\ args' = NotRead /\ code' = 0
  /\ \/ r.drive > 25 /\ Report("Invalid drive letter")
     \/ r.drive <= 25 /\ Report("Cannot open driver")
     \/ r.drive <= 25 /\ pc' = kind /\ outcome' = ""
  /\ UNCHANGED slots

\* The IRP is completed: the reply reaches send_mount_ioctl.
Complete(rc) == code' = rc /\ Report(MessageOf(rc))

\* handle_mount_volume up to mount_device
HandleMountVolume ==
  /\ pc = "mount"
  /\ CASE req.drive \notin 0 .. MAX_DRIVE - 1 -> Complete(5)     \* ERR_DRIVE_NOT_FOUND
       [] req.drive \in slots -> Complete(21)                    \* ERR_VOL_ALREADY_MOUNTED
       [] OTHER -> pc' = "device" /\ UNCHANGED <<code, outcome>>
  /\ UNCHANGED <<req, slots, args>>

\* mount_device up to tc_start_volume_thread, which starts the worker
MountDevice ==
  /\ pc = "device"
  /\ \/ \E rc \in {1, 2, 24} : Complete(rc)   \* IoCreateDevice, pool, thread
     \/ pc' = "worker" /\ UNCHANGED <<code, outcome>>
  /\ UNCHANGED <<req, slots, args>>

\* volume_thread_proc up to tc_open_volume
VolumeThreadProc ==
  /\ pc = "worker"
  /\ args' = Extract([o \in 0 .. MountSize - 1 |-> BlockByte(req, MountAt + o)])
  /\ pc' = "opening"
  /\ UNCHANGED <<req, slots, code, outcome>>

\* The worker signals and mount_device ends.
MountDeviceEnds ==
  /\ pc = "opening"
  /\ \/ CanOpen(args) /\ slots' = slots \cup {req.drive} /\ Complete(0)
     \/ slots' = slots /\ Complete(24)        \* ERR_VOL_MOUNT_FAILED
  /\ UNCHANGED <<req, args>>

\* handle_unmount_volume: success, whether there was a volume or not
HandleUnmountVolume ==
  /\ pc = "unmount"
  /\ slots' = slots \ {req.drive}
  /\ Complete(0)
  /\ UNCHANGED <<req, args>>

Next ==
  \/ \E kind \in {"mount", "unmount"}, r \in Requests : Command(kind, r)
  \/ HandleMountVolume
  \/ MountDevice
  \/ VolumeThreadProc
  \/ MountDeviceEnds
  \/ HandleUnmountVolume

Spec == Init /\ [][Next]_vars

-----------------------------------------------------------------------------
(* Properties *)

\* The worker opens the volume that was asked for: every field it extracts
\* from its ThreadBlock has the value the command put into the MountStruct
\* ("full packed struct (byte-copied from user buffer)").
WorkerActsOnRequest ==
  args # NotRead => args = Extract([o \in 0 .. MountSize - 1 |-> RequestByte(req, o)])

=============================================================================
