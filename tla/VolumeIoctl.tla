----------------------------- MODULE VolumeIoctl ------------------------------
(***************************************************************************)
(* The answers of a mounted volume to DEVICE_CONTROL requests,             *)
(* process_volume_device_control of volume_ioctl.rs.                       *)
(*                                                                         *)
(* An answer is the completion status, the Information field (the bytes    *)
(* the I/O manager copies back to the caller, unless the status is an      *)
(* error), the end of the last byte written to the system buffer, and the  *)
(* numbers the reply holds.  Information may be more than was written.     *)
(* The requests are buffered: the system buffer is as long as the longer   *)
(* of the caller's input and output.  Sizes are those of the structures in *)
(* wdk_bindings.rs.                                                        *)
(***************************************************************************)
EXTENDS Integers

Megabyte == 1024 * 1024

\* complete_disk_irp without data
Completed(status, info) ==
  [status |-> status, information |-> info, written |-> 0, reply |-> <<>>]

\* A reply of fixed size: refused with the size when the output is shorter.
Fixed(size, written, reply, out_len) ==
  IF out_len < size
  THEN Completed("STATUS_BUFFER_TOO_SMALL", size)
  ELSE [status |-> "STATUS_SUCCESS", information |-> size,
        written |-> written, reply |-> reply]

Geometry(ext) ==
  [cylinders |-> ext.number_of_cylinders,
   tracks |-> ext.tracks_per_cylinder,
   sectors |-> ext.sectors_per_track,
   bytes |-> ext.bytes_per_sector]

GeometryAnswer(ext, out_len) == Fixed(24, 24, Geometry(ext), out_len)

\* The size of the disk is that of the volume and of the megabyte before it.
GeometryExAnswer(ext, out_len) ==
  Fixed(32, 32, [disk |-> ext.disk_length + Megabyte], out_len)

LengthAnswer(ext, out_len) == Fixed(8, 8, [length |-> ext.disk_length], out_len)

PartitionInfoAnswer(ext, out_len) ==
  Fixed(32, 28, [start |-> 0, length |-> ext.disk_length], out_len)

PartitionInfoExAnswer(ext, out_len) ==
  Fixed(64, 64, [start |-> 0, length |-> ext.disk_length], out_len)

DriveLayoutAnswer(ext, out_len) ==
  Fixed(40, 36, [start |-> 0, length |-> ext.disk_length], out_len)

ExtentsAnswer(ext, out_len) ==
  Fixed(32, 32, [offset |-> Megabyte, length |-> ext.disk_length], out_len)

WritableAnswer(ext) ==
  Completed(IF ext.b_read_only THEN "STATUS_MEDIA_WRITE_PROTECTED"
                               ELSE "STATUS_SUCCESS", 0)

MediaRemovalAnswer(ext) ==
  Completed(IF ext.b_removable THEN "STATUS_SUCCESS"
                               ELSE "STATUS_INVALID_DEVICE_REQUEST", 0)

\* The properties IOCTL_STORAGE_QUERY_PROPERTY knows.  TrimEnabled is byte 8
\* of a descriptor whose size is given as 8.
PropertyAnswer(ext, prop, exists, out_len) ==
  CASE prop = "StorageDeviceProperty" -> Fixed(36, 36, <<>>, out_len)
    [] prop = "StorageAccessAlignmentProperty" ->
         Fixed(24, 20, [bytes |-> ext.bytes_per_sector], out_len)
    [] prop = "StorageDeviceSeekPenaltyProperty" -> Fixed(12, 9, <<>>, out_len)
    [] prop = "StorageDeviceTrimProperty" -> Fixed(8, 9, <<>>, out_len)
    [] OTHER -> Completed(IF exists THEN "STATUS_SUCCESS"
                                    ELSE "STATUS_NOT_IMPLEMENTED", 0)

\* Variant: the length of the query is not checked.
QueryPropertyUnchecked(ext, req) ==
  PropertyAnswer(ext, req.prop, req.exists, req.out_len)

\* The query itself takes 12 bytes of the system buffer.
QueryProperty(ext, req) ==
  IF req.in_len < 12
  THEN Completed("STATUS_INVALID_PARAMETER", 0)
  ELSE PropertyAnswer(ext, req.prop, req.exists, req.out_len)

\* A name or an id of given length after a header, for the Mount Manager.  A
\* buffer too short for it is left as it is, its length field too, and its
\* first bytes are copied back: STATUS_BUFFER_OVERFLOW is a warning.
Named(minimum, short, header, length, out_len) ==
  IF out_len < minimum THEN short
  ELSE IF out_len < header + length
  THEN Completed("STATUS_BUFFER_OVERFLOW", minimum)
  ELSE [status |-> "STATUS_SUCCESS", information |-> header + length,
        written |-> header + length, reply |-> <<>>]

\* "\Device\OxhideVolumeX" and "\DosDevices\X:", in characters of two bytes
VolumeNtNameLength == 21
VolumeDosNameLength == 14

DeviceNameAnswer(out_len) ==
  Named(4, Completed("STATUS_BUFFER_OVERFLOW", 4), 2, 2 * VolumeNtNameLength, out_len)

\* "OxhideVolumeX": 13 bytes
UniqueIdAnswer(out_len) ==
  Named(4, Completed("STATUS_BUFFER_OVERFLOW", 4), 2, 13, out_len)

SuggestedLinkAnswer(out_len) ==
  Named(6, Completed("STATUS_INVALID_PARAMETER", 0), 4, 2 * VolumeDosNameLength, out_len)

\* Requests that are answered and have no effect.
DiskNoOps ==
  {"UPDATE_PROPERTIES", "UPDATE_DRIVE_SIZE", "STORAGE_CHECK_VERIFY",
   "STORAGE_CHECK_VERIFY2"}
OnlineNoOps == {"VOLUME_ONLINE", "VOLUME_POST_ONLINE", "DISK_VERIFY"}
FsctlNoOps ==
  {"DISMOUNT_VOLUME", "LOCK_VOLUME", "UNLOCK_VOLUME", "IS_VOLUME_MOUNTABLE",
   "GET_MEDIA_TYPES_EX"}
VolumeNoOps ==
  {"DISK_EXTENTS_EX", "VOLUME_INFORMATION", "LOGICAL_TO_PHYSICAL", "PHYSICAL_TO_LOGICAL",
   "IS_CLUSTER_CAPABLE"}
TrimNoOps == {"DATA_SET_ATTRIBUTES"}
NoOps == DiskNoOps \cup OnlineNoOps \cup FsctlNoOps \cup VolumeNoOps \cup TrimNoOps

\* Two pairs of requests have one control code each in wdk_bindings.rs, and
\* the first arm that lists a code answers: 0x00074004 is the code of
\* IOCTL_DISK_CHECK_VERIFY and of IOCTL_DISK_GET_PARTITION_INFO, 0x002d1080 that
\* of IOCTL_STORAGE_GET_DEVICE_NUMBER and of IOCTL_STORAGE_CHECK_VERIFY2.
FirstArm(code) ==
  CASE code = "DISK_CHECK_VERIFY" -> "PARTITION_INFO"
    [] code = "DEVICE_NUMBER" -> "STORAGE_CHECK_VERIFY2"
    [] OTHER -> code

\* process_volume_device_control; req has the code, the lengths of the
\* caller's buffers and, for a query, the property.
Answer(ext, req) ==
  LET out_len == req.out_len
      code == FirstArm(req.code)
  IN  CASE code = "DRIVE_GEOMETRY" -> GeometryAnswer(ext, out_len)
        [] code = "DRIVE_GEOMETRY_EX" -> GeometryExAnswer(ext, out_len)
        [] code = "LENGTH_INFO" -> LengthAnswer(ext, out_len)
        [] code = "PARTITION_INFO" -> PartitionInfoAnswer(ext, out_len)
        [] code = "PARTITION_INFO_EX" -> PartitionInfoExAnswer(ext, out_len)
        [] code = "DRIVE_LAYOUT" -> DriveLayoutAnswer(ext, out_len)
        [] code = "DISK_EXTENTS" -> ExtentsAnswer(ext, out_len)
        [] code = "IS_WRITABLE" -> WritableAnswer(ext)
        [] code = "MEDIA_REMOVAL" -> MediaRemovalAnswer(ext)
        [] code = "QUERY_PROPERTY" -> QueryProperty(ext, req)
        [] code = "QUERY_DEVICE_NAME" -> DeviceNameAnswer(out_len)
        [] code = "QUERY_UNIQUE_ID" -> UniqueIdAnswer(out_len)
        [] code = "QUERY_SUGGESTED_LINK" -> SuggestedLinkAnswer(out_len)
        [] code \in NoOps -> Completed("STATUS_SUCCESS", 0)
        [] code = "GET_CLUSTER_INFO" -> Completed("STATUS_NOT_SUPPORTED", 0)
        [] OTHER -> Completed("STATUS_INVALID_DEVICE_REQUEST", 0)

=============================================================================
