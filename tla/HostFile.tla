------------------------------- MODULE HostFile -------------------------------
(***************************************************************************)
(* The host file of a volume: how the worker thread opens it              *)
(* (open_host_file and tc_open_volume of ntvol.rs), what the mounted       *)
(* volume tells its users about itself (VolumeIoctl), and how it is        *)
(* closed (tc_close_volume), beside other programs that open and close     *)
(* the same file.  The driver may mount again after an attempt.            *)
(*                                                                         *)
(* Abstractions.  The calls of one attempt are the steps of one thread.    *)
(* A handle is its access rights; the driver's handles all share reading   *)
(* only (exclusive is always true in volume_thread_proc).  The path and    *)
(* the key are left out: a request has a known algorithm id or not.  The   *)
(* file's times are unchanged, changed, or kept from changing by a handle. *)
(***************************************************************************)
EXTENDS VolumeIoctl

CONSTANTS
  Others,               \* other programs
  Modes,                \* how they open the file: records of access and share
  MountRequests,        \* what a MountStruct may ask for
  IoctlRequests,        \* DEVICE_CONTROL requests
  TC_MAX_VOLUME_SIZE    \* types.rs: 2^63 - 1, scaled

Rights == {"read", "write", "attributes"}

ASSUME ModesAssumption ==
  Modes \subseteq [access : SUBSET {"read", "write"}, share : SUBSET {"read", "write"}]
ASSUME RequestsAssumption ==
  MountRequests \subseteq
    [read_only : BOOLEAN, removable : BOOLEAN, preserve : BOOLEAN, ea_known : BOOLEAN,
     disk_length : Nat, bytes_per_sector : Nat]
ASSUME IoctlAssumption == \A r \in IoctlRequests : r.in_len \in Nat /\ r.out_len \in Nat
ASSUME SizeAssumption == TC_MAX_VOLUME_SIZE \in Nat

VARIABLES
  pc,       \* where the attempt is
  req,      \* its request
  dev,      \* Characteristics of the device object
  ext,      \* the fields of the Extension that ntvol.rs sets
  medium,   \* what the file and the medium it is on allow
  others,   \* the handle of each other program
  times,    \* the host file's times: "as before", "frozen" or "changed"
  fault,    \* a call about the file's times failed in this attempt
  answer    \* the last request and its answer

vars == <<pc, req, dev, ext, medium, others, times, fault, answer>>

None == [access |-> {}, share |-> {"read", "write"}]
NoAnswer == <<>>
NoRequest == <<>>

TC_MIN_VOLUME_SIZE_LEGACY == 256 * 1024
MAX_SECTOR_SIZE == 128 * 1024

\* IoCreateDevice zeroes the extension.
NewExtension ==
  [h_device_file |-> {}, pfo_device_file |-> FALSE, crypto_info |-> FALSE,
   b_read_only |-> FALSE, b_preserve_timestamp |-> FALSE, b_timestamp_valid |-> FALSE,
   b_removable |-> FALSE, disk_length |-> 0, bytes_per_sector |-> 0,
   number_of_cylinders |-> 0, tracks_per_cylinder |-> 0, sectors_per_track |-> 0,
   host_device_number |-> "none"]

Media == {"writable", "no write", "no write or attributes", "protected",
          "c000001b", "missing"}

Init ==
  /\ pc = "idle"
  /\ req = NoRequest
  /\ dev = [read_only |-> FALSE, removable |-> FALSE]
  /\ ext = NewExtension
  /\ medium \in Media
  /\ others = [o \in Others |-> None]
  /\ times = "as before"
  /\ fault = FALSE
  /\ answer = NoAnswer

-----------------------------------------------------------------------------
(* The file system *)

\* Two handles may be open together when each shares what the other does.
Compatible(a, s, h) ==
  /\ a \cap {"read", "write"} \subseteq h.share
  /\ h.access \cap {"read", "write"} \subseteq s

DeniedRights ==
  CASE medium = "writable" -> {}
    [] medium = "no write" -> {"write"}
    [] OTHER -> {"write", "attributes"}

DeniedStatus ==
  CASE medium = "protected" -> "STATUS_MEDIA_WRITE_PROTECTED"
    [] medium = "c000001b" -> "0xC000001B"
    [] OTHER -> "STATUS_ACCESS_DENIED"

ZwCreateFile(access, share) ==
  CASE medium = "missing" -> "STATUS_OBJECT_NAME_NOT_FOUND"
    [] medium # "missing" /\ access \cap DeniedRights # {} -> DeniedStatus
    [] medium # "missing" /\ access \cap DeniedRights = {} ->
         IF \A o \in Others : Compatible(access, share, others[o])
         THEN "STATUS_SUCCESS" ELSE "STATUS_SHARING_VIOLATION"

\* The driver's handle, as the other programs meet it.
DriverHandle ==
  IF ext.h_device_file = {} THEN None
  ELSE [access |-> ext.h_device_file, share |-> {"read"}]

OtherOpens(o, m) ==
  /\ others[o] = None
  /\ medium # "missing"
  /\ m.access \cap DeniedRights = {}
  /\ Compatible(m.access, m.share, DriverHandle)
  /\ \A p \in Others \ {o} : Compatible(m.access, m.share, others[p])
  /\ others' = [others EXCEPT ![o] = m]
  /\ UNCHANGED <<pc, req, dev, ext, medium, times, fault, answer>>

OtherCloses(o) ==
  /\ others[o] # None
  /\ others' = [others EXCEPT ![o] = None]
  /\ UNCHANGED <<pc, req, dev, ext, medium, times, fault, answer>>

\* ZwSetInformationFile with FileBasicInformation, a structure of 40 bytes:
\* a shorter one is refused.
SetBasicInformation(length, new) == IF length < 40 THEN times ELSE new

-----------------------------------------------------------------------------
(* tc_open_volume *)

\* mount_device: the characteristics come from the request.
CreateDevice(r) ==
  /\ pc = "idle"
  /\ pc' = "sector size"
  /\ req' = r
  /\ dev' = [read_only |-> r.read_only, removable |-> r.removable]
  /\ ext' = NewExtension
  /\ times' = "as before"
  /\ fault' = FALSE
  /\ UNCHANGED <<medium, others, answer>>

Step(to) ==
  /\ pc' = to
  /\ UNCHANGED <<req, medium, others, answer>>

Same == UNCHANGED <<dev, ext, times, fault>>

CheckSectorSize ==
  /\ pc = "sector size"
  /\ Step(IF req.bytes_per_sector = 0 \/ req.bytes_per_sector > MAX_SECTOR_SIZE
          THEN "failed" ELSE "open rw")
  /\ Same

\* The file is open: the flags and the handle.
Opened(access, is_ro) ==
  /\ ext' = [ext EXCEPT !.h_device_file = access,
                        !.b_read_only = is_ro,
                        !.b_preserve_timestamp = ~is_ro /\ req.preserve]
  /\ UNCHANGED <<dev, times, fault>>

\* The first attempt, for reading and writing; the buffer for the path may
\* not be there.
OpenReadWrite ==
  LET status == ZwCreateFile({"read", "write"}, {"read"})
      mapped == IF status = "0xC000001B" THEN "STATUS_ACCESS_DENIED" ELSE status
  IN  /\ pc = "open rw"
      /\ \/ Step("failed") /\ Same
         \/ status = "STATUS_SUCCESS" /\ Step("times") /\ Opened({"read", "write"}, FALSE)
         \/ /\ status # "STATUS_SUCCESS"
            /\ Step(IF mapped \in {"STATUS_ACCESS_DENIED", "STATUS_SHARING_VIOLATION"}
                       \/ req.read_only
                    THEN "open ro" ELSE "failed")
            /\ Same

ReadOnlyRights == IF req.preserve THEN {"read", "attributes"} ELSE {"read"}

\* Variant: the second attempt lets others write.
OpenReadOnlyShared ==
  LET status == ZwCreateFile(ReadOnlyRights, {"read", "write"})
  IN  /\ pc = "open ro"
      /\ \/ status = "STATUS_SUCCESS" /\ Step("times") /\ Opened(ReadOnlyRights, TRUE)
         \/ status # "STATUS_SUCCESS" /\ Step("failed") /\ Same

\* The second, for reading.
OpenReadOnly ==
  LET status == ZwCreateFile(ReadOnlyRights, {"read"})
  IN  /\ pc = "open ro"
      /\ \/ status = "STATUS_SUCCESS" /\ Step("times") /\ Opened(ReadOnlyRights, TRUE)
         \/ /\ status # "STATUS_SUCCESS"
            /\ Step(IF req.preserve THEN "open ro plain" ELSE "failed")
            /\ Same

\* The third, without the right to set the times.
OpenReadOnlyPlain ==
  LET status == ZwCreateFile({"read"}, {"read"})
  IN  /\ pc = "open ro plain"
      /\ \/ status = "STATUS_SUCCESS" /\ Step("times") /\ Opened({"read"}, TRUE)
         \/ status # "STATUS_SUCCESS" /\ Step("failed") /\ Same

\* Variant: the times are recorded, and the file system goes on setting them.
QueryTimesOnly ==
  /\ pc = "times"
  /\ Step("reference")
  /\ ext' = [ext EXCEPT !.b_timestamp_valid = ext.b_preserve_timestamp]
  /\ UNCHANGED <<dev, times, fault>>

\* The times are recorded, and the file system told with -1 not to set them
\* through this handle.  Either call may fail; the code goes on.
QueryTimes ==
  /\ pc = "times"
  /\ Step("reference")
  /\ UNCHANGED dev
  /\ \/ ~ext.b_preserve_timestamp /\ UNCHANGED <<ext, times, fault>>
     \/ ext.b_preserve_timestamp /\ fault' = TRUE /\ UNCHANGED <<ext, times>>
     \/ /\ ext.b_preserve_timestamp
        /\ ext' = [ext EXCEPT !.b_timestamp_valid = TRUE]
        /\ \/ times' = SetBasicInformation(40, "frozen") /\ fault' = FALSE
           \/ times' = times /\ fault' = TRUE

\* The size of the file is recorded (nothing uses it) and the file object
\* referenced, which may fail.
ReferenceFile ==
  /\ pc = "reference"
  /\ Step("volume size")
  /\ \E ok \in BOOLEAN : ext' = [ext EXCEPT !.pfo_device_file = ok]
  /\ UNCHANGED <<dev, times, fault>>

\* ZwClose and a null handle: the reference to the file object stays.
CloseAndFail ==
  /\ Step("failed")
  /\ ext' = [ext EXCEPT !.h_device_file = {}]
  /\ UNCHANGED <<dev, times, fault>>

\* Variant: the lower bound is not checked.
CheckVolumeSizeAbove ==
  /\ pc = "volume size"
  /\ \/ req.disk_length > TC_MAX_VOLUME_SIZE /\ CloseAndFail
     \/ req.disk_length <= TC_MAX_VOLUME_SIZE /\ Step("cipher") /\ Same

CheckVolumeSize ==
  /\ pc = "volume size"
  /\ LET ok == req.disk_length \in TC_MIN_VOLUME_SIZE_LEGACY .. TC_MAX_VOLUME_SIZE
     IN  \/ ~ok /\ CloseAndFail
         \/ ok /\ Step("cipher") /\ Same

\* geometry.rs: one sector per cylinder, and at least one
ComputeVirtualGeometry(disk_length, bytes_per_sector) ==
  LET sectors == disk_length \div bytes_per_sector
  IN  IF sectors > 1 THEN sectors ELSE 1

\* Variant: the megabyte before the volume is taken from its length.
ConfiguredShort ==
  [ext EXCEPT !.crypto_info = TRUE, !.disk_length = req.disk_length - Megabyte]

\* The metadata, the geometry and the flags of a volume that is open.
Configured ==
  [ext EXCEPT !.crypto_info = TRUE,
              !.disk_length = req.disk_length,
              !.bytes_per_sector = req.bytes_per_sector,
              !.number_of_cylinders =
                 ComputeVirtualGeometry(req.disk_length, req.bytes_per_sector),
              !.tracks_per_cylinder = 1,
              !.sectors_per_track = 1,
              !.host_device_number = "0xFFFFFFFF",
              !.b_removable = req.removable]

\* Variant: the fallback is not shown on the device.
MarkReadOnlyMissing(d) == d

\* A volume that fell back to reading is a read-only device.
MarkReadOnly(d) == [d EXCEPT !.read_only = @ \/ ext.b_read_only]

\* Variant: the handle stays open when the algorithm is unknown.
InitCipherKeepsHandle ==
  /\ pc = "cipher"
  /\ \/ ~req.ea_known /\ Step("failed") /\ Same
     \/ req.ea_known /\ Step("mounted") /\ ext' = Configured
        /\ dev' = MarkReadOnly(dev) /\ UNCHANGED <<times, fault>>

\* crypto::init_cipher_from_ea_and_key, and the rest of tc_open_volume.
\* encrypted_io_queue::start always succeeds; the starter is told.
InitCipher ==
  /\ pc = "cipher"
  /\ \/ ~req.ea_known /\ CloseAndFail
     \/ /\ req.ea_known
        /\ Step("mounted")
        /\ ext' = Configured
        /\ dev' = MarkReadOnly(dev)
        /\ UNCHANGED <<times, fault>>

-----------------------------------------------------------------------------
(* The mounted volume *)

\* A READ or WRITE request; writing is refused when b_read_only is set.
HostIo ==
  /\ pc = "mounted"
  /\ times' = IF times = "frozen" THEN times ELSE "changed"
  /\ UNCHANGED <<pc, req, dev, ext, medium, others, fault, answer>>

\* process_volume_device_control, in the worker; its sender sees the answer.
DeviceControl(r) ==
  /\ pc = "mounted"
  /\ answer = NoAnswer
  /\ answer' = [request |-> r, result |-> Answer(ext, r)]
  /\ UNCHANGED <<pc, req, dev, ext, medium, others, times, fault>>

AnswerSeen ==
  /\ answer # NoAnswer
  /\ answer' = NoAnswer
  /\ UNCHANGED <<pc, req, dev, ext, medium, others, times, fault>>

-----------------------------------------------------------------------------
(* tc_close_volume *)

\* The worker leaves its loop; restore_timestamp hands 38 bytes over.
RestoreTimestamp ==
  /\ pc = "mounted"
  /\ answer = NoAnswer
  /\ pc' = "close"
  /\ times' = IF ext.b_preserve_timestamp /\ ext.b_timestamp_valid
              THEN SetBasicInformation(38, "as before") ELSE times
  /\ UNCHANGED <<req, dev, ext, medium, others, fault, answer>>

\* A writable file is flushed; the handle is closed.
CloseHandle ==
  /\ pc = "close"
  /\ Step("release")
  /\ ext' = [ext EXCEPT !.h_device_file = {}]
  /\ UNCHANGED <<dev, times, fault>>

\* The file object is dereferenced and the cipher freed.
Release ==
  /\ pc = "release"
  /\ Step("closed")
  /\ ext' = [ext EXCEPT !.pfo_device_file = FALSE, !.crypto_info = FALSE]
  /\ UNCHANGED <<dev, times, fault>>

\* IoDeleteDevice, in the thread that mounts or unmounts.  A file object that
\* the extension still refers to is referenced for good.
DeleteDevice ==
  /\ pc \in {"failed", "closed"}
  /\ pc' = "idle"
  /\ req' = NoRequest
  /\ dev' = [read_only |-> FALSE, removable |-> FALSE]
  /\ ext' = NewExtension
  /\ times' = "as before"
  /\ fault' = FALSE
  /\ UNCHANGED <<medium, others, answer>>

Next ==
  \/ \E r \in MountRequests : CreateDevice(r)
  \/ CheckSectorSize
  \/ OpenReadWrite
  \/ OpenReadOnly
  \/ OpenReadOnlyPlain
  \/ QueryTimes
  \/ ReferenceFile
  \/ CheckVolumeSize
  \/ InitCipher
  \/ HostIo
  \/ \E r \in IoctlRequests : DeviceControl(r)
  \/ AnswerSeen
  \/ RestoreTimestamp
  \/ CloseHandle
  \/ Release
  \/ DeleteDevice
  \/ \E o \in Others : \/ \E m \in Modes : OtherOpens(o, m)
                       \/ OtherCloses(o)

Spec == Init /\ [][Next]_vars

-----------------------------------------------------------------------------
(* Properties *)

PcLabels ==
  {"idle", "sector size", "open rw", "open ro", "open ro plain", "times", "reference",
   "volume size", "cipher", "mounted", "close", "release", "closed", "failed"}

\* The types of the variables.
TypeOK ==
  /\ pc \in PcLabels
  /\ req \in MountRequests \cup {NoRequest}
  /\ dev \in [read_only : BOOLEAN, removable : BOOLEAN]
  /\ ext.h_device_file \subseteq Rights
  /\ \A f \in {"pfo_device_file", "crypto_info", "b_read_only", "b_preserve_timestamp",
                "b_timestamp_valid", "b_removable"} : ext[f] \in BOOLEAN
  /\ \A f \in {"disk_length", "bytes_per_sector", "number_of_cylinders",
                "tracks_per_cylinder", "sectors_per_track"} : ext[f] \in Nat
  /\ medium \in Media
  /\ others \in [Others -> Modes \cup {None}]
  /\ times \in {"as before", "frozen", "changed"}
  /\ fault \in BOOLEAN

\* Whichever of its steps an attempt fails at, and after every unmount, the
\* handle is closed and the cipher with its keys is freed (tc_open_volume's
\* error returns, tc_close_volume).  The file object is the exception: an
\* attempt that fails after the file was open, over the size of the volume or
\* the algorithm, never dereferences pfo_device_file, and that reference keeps
\* the file open.  It leaks then and at no other time.
RefusedOnceOpen(r) ==
  \/ r.disk_length \notin TC_MIN_VOLUME_SIZE_LEGACY .. TC_MAX_VOLUME_SIZE
  \/ ~r.ea_known
OnlyFileObjectLeaks ==
  /\ pc \in {"idle", "closed", "failed"} =>
       ext.h_device_file = {} /\ ~ext.crypto_info
  /\ pc \in {"idle", "closed", "failed"} /\ ext.pfo_device_file =>
       pc = "failed" /\ RefusedOnceOpen(req)

\* From the moment the driver has the host file until it closes it, no other
\* program has it open for writing, however the driver came to open it and
\* in whatever order the programs came (the share mode of open_host_file).
SoleWriter ==
  ext.h_device_file # {} => \A o \in Others : "write" \notin others[o].access

\* A mounted volume takes writes only when its handle can write, and is shown
\* as a read-only device when it cannot or when that was asked for, though
\* one is known before the file is opened and the other after (mount_device,
\* open_host_file, tc_open_volume).
ReadOnlyIsShown ==
  pc = "mounted" =>
    /\ ext.b_read_only <=> "write" \notin ext.h_device_file
    /\ ext.b_read_only \/ req.read_only => dev.read_only

\* Using a writable volume whose request asks to preserve the times leaves
\* the host file's times as they were, if the two calls of open_host_file
\* about them succeeded.  If one failed the times change and stay changed:
\* restore_timestamp never restores them, as it hands over 38 bytes of a
\* structure of 40.
TimesKept ==
  pc = "closed" /\ ext.b_preserve_timestamp /\ ~fault => times # "changed"

Succeeded(codes) ==
  /\ answer # NoAnswer
  /\ FirstArm(answer.request.code) \in codes
  /\ answer.result.status = "STATUS_SUCCESS"

\* What the answers of volume_ioctl.rs say about the size of the volume fits
\* together: the sectors of the geometry fill the volume up to less than one
\* sector and do not exceed it, the extent ends where the disk ends, and
\* every length is the length in the request.
SizesAgree ==
  /\ Succeeded({"DRIVE_GEOMETRY"}) =>
       LET g == answer.result.reply
           size == g.cylinders * g.tracks * g.sectors * g.bytes
       IN  size <= req.disk_length /\ req.disk_length < size + g.bytes
  /\ Succeeded({"DISK_EXTENTS"}) =>
       answer.result.reply.offset + answer.result.reply.length
         = GeometryExAnswer(ext, 32).reply.disk
  /\ Succeeded({"LENGTH_INFO", "PARTITION_INFO", "PARTITION_INFO_EX", "DRIVE_LAYOUT",
                "DISK_EXTENTS"}) => answer.result.reply.length = req.disk_length

\* The I/O manager copies Information bytes back for every status but an
\* error.  No such answer has it copy more than the caller has room for, and
\* none writes past the system buffer, with one exception: the queries for
\* the device name and the unique id say four bytes to a caller with less.
\* (The trim descriptor writes a byte more than its size, into the bytes the
\* query took.  That the bytes copied were all written is not said: several
\* replies are longer than what is written of them.)
CopiedBack(status) == status \in {"STATUS_SUCCESS", "STATUS_BUFFER_OVERFLOW"}
ShortNameQuery(r) == r.code \in {"QUERY_DEVICE_NAME", "QUERY_UNIQUE_ID"} /\ r.out_len < 4
AnswerFits ==
  answer # NoAnswer =>
    LET r == answer.request
    IN  /\ CopiedBack(answer.result.status) =>
             answer.result.information <= IF ShortNameQuery(r) THEN 4 ELSE r.out_len
        /\ answer.result.written <= IF r.in_len > r.out_len THEN r.in_len ELSE r.out_len

=============================================================================
