------------------------------ MODULE MCHostFile ------------------------------
(***************************************************************************)
(* Requests for HostFile, at the limits the code checks and beyond them.   *)
(***************************************************************************)
EXTENDS HostFile, TLC

Symmetry == Permutations(Others)

\* Readers and writers, some of which share with everybody, some with nobody.
AllModes ==
  [access : {{"read"}, {"read", "write"}}, share : {{}, {"read"}, {"read", "write"}}]

Request(ro, preserve, known, length, bytes) ==
  [read_only |-> ro, removable |-> ro, preserve |-> preserve, ea_known |-> known,
   disk_length |-> length, bytes_per_sector |-> bytes]

\* A whole number of sectors or not, the smallest and the largest volume with
\* the largest sector, and requests each check refuses.
Requests ==
  {Request(ro, preserve, TRUE, 300000, 4096) : ro, preserve \in BOOLEAN}
    \cup {Request(FALSE, FALSE, TRUE, l, MAX_SECTOR_SIZE) :
            l \in {65536, TC_MIN_VOLUME_SIZE_LEGACY - 1, TC_MIN_VOLUME_SIZE_LEGACY,
                   TC_MAX_VOLUME_SIZE, TC_MAX_VOLUME_SIZE + 1}}
    \cup {Request(FALSE, FALSE, TRUE, 300000, b) : b \in {0, MAX_SECTOR_SIZE + 1}}
    \cup {Request(FALSE, TRUE, FALSE, 300000, 512)}

Codes ==
  {"DRIVE_GEOMETRY", "DRIVE_GEOMETRY_EX", "LENGTH_INFO", "PARTITION_INFO",
   "PARTITION_INFO_EX", "DRIVE_LAYOUT", "DISK_EXTENTS", "DEVICE_NUMBER", "IS_WRITABLE",
   "MEDIA_REMOVAL", "QUERY_DEVICE_NAME", "QUERY_UNIQUE_ID", "QUERY_SUGGESTED_LINK",
   "DISK_CHECK_VERIFY", "STORAGE_CHECK_VERIFY2", "LOCK_VOLUME", "GET_CLUSTER_INFO",
   "UNKNOWN"}

Properties ==
  {"StorageDeviceProperty", "StorageAccessAlignmentProperty",
   "StorageDeviceSeekPenaltyProperty", "StorageDeviceTrimProperty", "unknown"}

\* Output lengths just below and at the sizes of the replies.
Queries ==
  [code : Codes, in_len : {0}, out_len : {0, 3, 4, 7, 8, 12, 15, 24, 31, 32, 40, 44, 64}]
    \cup [code : {"QUERY_PROPERTY"}, prop : Properties, exists : BOOLEAN,
          in_len : {0, 12}, out_len : {0, 8, 11, 12, 24, 36}]

=============================================================================
