---------------------------- MODULE HostFileProofs ----------------------------
(***************************************************************************)
(* Proofs about HostFile, for every set of requests, media, other programs *)
(* and modes: what an attempt to mount holds at each of its steps, who may *)
(* write the host file, and what the mounted volume says of itself.        *)
(***************************************************************************)
EXTENDS HostFile, TLAPS

Extensions ==
  [h_device_file : SUBSET Rights, pfo_device_file : BOOLEAN, crypto_info : BOOLEAN,
   b_read_only : BOOLEAN, b_preserve_timestamp : BOOLEAN, b_timestamp_valid : BOOLEAN,
   b_removable : BOOLEAN, disk_length : Nat, bytes_per_sector : Nat,
   number_of_cylinders : Nat, tracks_per_cylinder : Nat, sectors_per_track : Nat,
   host_device_number : {"none", "0xFFFFFFFF"}]

\* Where the attempt has the host file open
OpenPcs == {"times", "reference", "volume size", "cipher", "mounted", "close"}

\* Where the sector size has been checked
CheckedPcs == {"open rw", "open ro", "open ro plain"} \cup OpenPcs

TypeInv ==
  /\ pc \in PcLabels
  /\ req \in MountRequests \cup {NoRequest}
  /\ pc # "idle" => req \in MountRequests
  /\ dev \in [read_only : BOOLEAN, removable : BOOLEAN]
  /\ ext \in Extensions
  /\ medium \in Media
  /\ others \in [Others -> Modes \cup {None}]
  /\ times \in {"as before", "frozen", "changed"}
  /\ fault \in BOOLEAN

\* What is held where
HeldAt ==
  /\ pc \notin OpenPcs => ext.h_device_file = {}
  /\ pc \in OpenPcs => (ext.b_read_only <=> "write" \notin ext.h_device_file)
  /\ ext.crypto_info => pc \in {"mounted", "close", "release"}

\* The device is read-only when the request is, and once mounted when the handle is.
ReadOnlyAt ==
  /\ pc # "idle" /\ req.read_only => dev.read_only
  /\ pc = "mounted" /\ ext.b_read_only => dev.read_only

\* The times are frozen from the moment they are queried.
TimesAt ==
  /\ pc \in (OpenPcs \ {"times"}) \cup {"release", "closed"}
  /\ ext.b_preserve_timestamp /\ ~fault
  => times = "frozen"

\* The sizes that have been checked, and those the mounted volume has
SizesAt ==
  /\ pc \in CheckedPcs => req.bytes_per_sector \in 1 .. MAX_SECTOR_SIZE
  /\ pc \in {"cipher", "mounted"} => req.disk_length >= TC_MIN_VOLUME_SIZE_LEGACY
  /\ pc = "mounted" =>
       /\ ext.disk_length = req.disk_length
       /\ ext.bytes_per_sector = req.bytes_per_sector
       /\ ext.number_of_cylinders =
            ComputeVirtualGeometry(req.disk_length, req.bytes_per_sector)
       /\ ext.tracks_per_cylinder = 1 /\ ext.sectors_per_track = 1

\* An answer nobody has seen yet is that of the volume still mounted.
AnswerAt ==
  answer # NoAnswer =>
    /\ pc = "mounted"
    /\ answer.request \in IoctlRequests
    /\ answer.result = Answer(ext, answer.request)

\* The file object is referenced from ReferenceFile to Release, and for good
\* after a failure in between.
FileObjectAt ==
  ext.pfo_device_file =>
    \/ pc \in {"volume size", "cipher", "mounted", "close", "release"}
    \/ pc = "failed" /\ RefusedOnceOpen(req)

IndInv == TypeInv /\ HeldAt /\ SoleWriter /\ ReadOnlyAt /\ TimesAt /\ SizesAt /\ AnswerAt

-----------------------------------------------------------------------------
\* Division, and the geometry made with it

LEMMA DivMod ==
  ASSUME NEW a \in Nat, NEW b \in Nat \ {0}
  PROVE  /\ a \div b \in Nat
         /\ (a \div b) * b <= a
         /\ a < (a \div b) * b + b
<1>1. a \div b \in Nat /\ a % b \in 0 .. b - 1
  OBVIOUS
<1>2. a = b * (a \div b) + (a % b)
  OBVIOUS
<1> QED BY <1>1, <1>2

LEMMA MaxSector == MAX_SECTOR_SIZE \in Nat /\ MAX_SECTOR_SIZE <= 131072
BY DEF MAX_SECTOR_SIZE

\* A volume that is large enough has more than one sector, so that the geometry's
\* lower bound of one sector never adds any.
LEMMA GeometryFits ==
  ASSUME NEW l \in Nat, NEW b \in 1 .. MAX_SECTOR_SIZE
  PROVE  /\ ComputeVirtualGeometry(l, b) \in Nat
         /\ l >= TC_MIN_VOLUME_SIZE_LEGACY =>
              /\ ComputeVirtualGeometry(l, b) * b <= l
              /\ l < ComputeVirtualGeometry(l, b) * b + b
<1> DEFINE q == l \div b
<1>1. b \in Nat \ {0} /\ b <= 131072
  <2>1. b \in Nat /\ b >= 1 /\ b <= MAX_SECTOR_SIZE
    BY MaxSector
  <2> QED BY <2>1, MaxSector
<1>2. q \in Nat /\ q * b <= l /\ l < q * b + b
  BY <1>1, DivMod
<1>3. ComputeVirtualGeometry(l, b) = IF q > 1 THEN q ELSE 1
  BY DEF ComputeVirtualGeometry
<1> HIDE DEF q
<1>4. ASSUME l >= 262144 PROVE q > 1
  <2>1. q # 0
    BY <1>1, <1>2, <1>4
  <2>2. q # 1
    BY <1>1, <1>2, <1>4
  <2> QED BY <1>2, <2>1, <2>2
<1> QED BY <1>2, <1>3, <1>4 DEF TC_MIN_VOLUME_SIZE_LEGACY

-----------------------------------------------------------------------------
\* Types

LEMMA RequestTyped ==
  ASSUME NEW r \in MountRequests
  PROVE  /\ r.read_only \in BOOLEAN /\ r.removable \in BOOLEAN /\ r.preserve \in BOOLEAN
         /\ r.disk_length \in Nat /\ r.bytes_per_sector \in Nat
BY RequestsAssumption

LEMMA NewExtensionTyped == NewExtension \in Extensions
BY DEF NewExtension, Extensions

\* A step of an attempt that sets some fields of the extension
LEMMA NextTyped == IndInv /\ [Next]_vars => TypeInv'
<1> SUFFICES ASSUME IndInv, [Next]_vars PROVE TypeInv'
  OBVIOUS
<1> USE DEF IndInv
<1>1. ASSUME NEW l \in PcLabels \ {"idle"}, Step(l), pc # "idle",
             dev' \in [read_only : BOOLEAN, removable : BOOLEAN], ext' \in Extensions,
             times' \in {"as before", "frozen", "changed"}, fault' \in BOOLEAN
      PROVE  TypeInv'
  BY <1>1 DEF TypeInv, Step
<1>2. ASSUME NEW l \in PcLabels \ {"idle"}, Step(l), pc # "idle", Same PROVE TypeInv'
  <2>1. /\ dev' \in [read_only : BOOLEAN, removable : BOOLEAN] /\ ext' \in Extensions
        /\ times' \in {"as before", "frozen", "changed"} /\ fault' \in BOOLEAN
    BY <1>2 DEF Same, TypeInv
  <2> QED BY <1>1, <1>2, <2>1
<1>3. ASSUME NEW l \in PcLabels \ {"idle"}, Step(l), pc # "idle", UNCHANGED <<dev, times, fault>>,
             ext' \in Extensions
      PROVE  TypeInv'
  BY <1>1, <1>3 DEF TypeInv
<1>4. ASSUME pc # "idle" PROVE req \in MountRequests
  BY <1>4 DEF TypeInv
<1>5. ext \in Extensions
  BY DEF TypeInv
<1>6. CASE UNCHANGED vars
  BY <1>6 DEF vars, TypeInv
<1>7. ASSUME NEW r \in MountRequests, CreateDevice(r) PROVE TypeInv'
  BY <1>7, NewExtensionTyped, RequestTyped DEF CreateDevice, TypeInv, PcLabels
<1>8. CASE CheckSectorSize
  BY <1>2, <1>8 DEF CheckSectorSize, PcLabels
<1>9. ASSUME NEW a \in SUBSET Rights, NEW ro \in BOOLEAN, Step("times"), pc # "idle",
             Opened(a, ro)
      PROVE  TypeInv'
  <2>1. req.preserve \in BOOLEAN
    BY <1>4, <1>9, RequestTyped
  <2>2. ext' \in Extensions
    BY <1>5, <1>9, <2>1 DEF Opened, Extensions
  <2> QED BY <1>3, <1>9, <2>2 DEF Opened, PcLabels
<1>10. CASE OpenReadWrite
  <2>1. {"read", "write"} \in SUBSET Rights
    BY DEF Rights
  <2> QED BY <1>2, <1>9, <1>10, <2>1 DEF OpenReadWrite, PcLabels
<1>11. CASE OpenReadOnly
  <2>1. ReadOnlyRights \in SUBSET Rights
    BY DEF ReadOnlyRights, Rights
  <2> QED BY <1>2, <1>9, <1>11, <2>1 DEF OpenReadOnly, PcLabels
<1>12. CASE OpenReadOnlyPlain
  <2>1. {"read"} \in SUBSET Rights
    BY DEF Rights
  <2> QED BY <1>2, <1>9, <1>12, <2>1 DEF OpenReadOnlyPlain, PcLabels
<1>13. CASE QueryTimes
  <2>1. ext' \in Extensions
    BY <1>5, <1>13 DEF QueryTimes, Extensions
  <2>2. /\ dev' \in [read_only : BOOLEAN, removable : BOOLEAN]
        /\ times' \in {"as before", "frozen", "changed"} /\ fault' \in BOOLEAN
    BY <1>13 DEF QueryTimes, SetBasicInformation, TypeInv
  <2> QED BY <1>1, <1>13, <2>1, <2>2 DEF QueryTimes, PcLabels
<1>14. CASE ReferenceFile
  <2>1. ext' \in Extensions
    BY <1>5, <1>14 DEF ReferenceFile, Extensions
  <2> QED BY <1>3, <1>14, <2>1 DEF ReferenceFile, PcLabels
<1>15. ASSUME pc # "idle", CloseAndFail PROVE TypeInv'
  <2>1. ext' \in Extensions
    BY <1>5, <1>15 DEF CloseAndFail, Extensions
  <2> QED BY <1>3, <1>15, <2>1 DEF CloseAndFail, PcLabels
<1>16. CASE CheckVolumeSize
  BY <1>2, <1>15, <1>16 DEF CheckVolumeSize, PcLabels
<1>17. CASE InitCipher
  <2>1. CASE CloseAndFail
    BY <1>15, <1>17, <2>1 DEF InitCipher
  <2>2. CASE Step("mounted") /\ ext' = Configured /\ dev' = MarkReadOnly(dev)
               /\ UNCHANGED <<times, fault>>
    <3>1. pc = "cipher" /\ req \in MountRequests
      BY <1>4, <1>17 DEF InitCipher
    <3>2. req.removable \in BOOLEAN /\ req.disk_length \in Nat /\ req.bytes_per_sector \in Nat
      BY <3>1, RequestTyped
    <3>3. req.bytes_per_sector \in 1 .. MAX_SECTOR_SIZE
      BY <3>1 DEF SizesAt, CheckedPcs, OpenPcs
    <3>4. ComputeVirtualGeometry(req.disk_length, req.bytes_per_sector) \in Nat
      BY <3>2, <3>3, GeometryFits
    <3>5. ext' \in Extensions
      BY <1>5, <2>2, <3>2, <3>4 DEF Configured, Extensions
    <3>6. dev' \in [read_only : BOOLEAN, removable : BOOLEAN]
      <4>1. ext.b_read_only \in BOOLEAN /\ dev \in [read_only : BOOLEAN, removable : BOOLEAN]
        BY <1>5 DEF Extensions, TypeInv
      <4> QED BY <2>2, <4>1 DEF MarkReadOnly
    <3> QED BY <1>1, <2>2, <3>1, <3>5, <3>6 DEF PcLabels, TypeInv
  <2> QED BY <1>17, <2>1, <2>2 DEF InitCipher
<1>18. CASE HostIo
  BY <1>18 DEF HostIo, TypeInv
<1>19. ASSUME NEW r, DeviceControl(r) PROVE TypeInv'
  BY <1>19 DEF DeviceControl, TypeInv
<1>20. CASE AnswerSeen
  BY <1>20 DEF AnswerSeen, TypeInv
<1>21. CASE RestoreTimestamp
  BY <1>21 DEF RestoreTimestamp, SetBasicInformation, TypeInv, PcLabels
<1>22. CASE CloseHandle
  <2>1. ext' \in Extensions
    BY <1>5, <1>22 DEF CloseHandle, Extensions
  <2> QED BY <1>3, <1>22, <2>1 DEF CloseHandle, PcLabels
<1>23. CASE Release
  <2>1. ext' \in Extensions
    BY <1>5, <1>23 DEF Release, Extensions
  <2> QED BY <1>3, <1>23, <2>1 DEF Release, PcLabels
<1>24. CASE DeleteDevice
  BY <1>24, NewExtensionTyped DEF DeleteDevice, TypeInv, PcLabels
<1>25. ASSUME NEW o \in Others, NEW m \in Modes, OtherOpens(o, m) PROVE TypeInv'
  BY <1>25 DEF OtherOpens, TypeInv
<1>26. ASSUME NEW o \in Others, OtherCloses(o) PROVE TypeInv'
  BY <1>26 DEF OtherCloses, TypeInv
<1> QED BY <1>6, <1>7, <1>8, <1>10, <1>11, <1>12, <1>13, <1>14, <1>16, <1>17, <1>18, <1>19,
           <1>20, <1>21, <1>22, <1>23, <1>24, <1>25, <1>26 DEF Next

-----------------------------------------------------------------------------
\* The file system

\* A handle is granted only when no other program has the file open for writing.
LEMMA GrantedAlone ==
  ASSUME NEW a, ZwCreateFile(a, {"read"}) = "STATUS_SUCCESS"
  PROVE  \A o \in Others : "write" \notin others[o].access
<1>1. medium # "missing" /\ a \cap DeniedRights = {}
  BY DEF ZwCreateFile, DeniedStatus
<1>2. \A o \in Others : Compatible(a, {"read"}, others[o])
  BY <1>1 DEF ZwCreateFile
<1> QED BY <1>2 DEF Compatible

\* A program that opens the file beside the driver's handle does not write.
LEMMA OpenedBeside ==
  ASSUME NEW m, ext.h_device_file # {}, Compatible(m.access, m.share, DriverHandle)
  PROVE  "write" \notin m.access
BY DEF DriverHandle, Compatible

-----------------------------------------------------------------------------
\* Every conjunct of the invariant, over the steps of an attempt


\* What a step that opens the file does
Opens ==
  \E a \in {{"read", "write"}, {"read"}, {"read", "attributes"}}, ro \in BOOLEAN :
    /\ pc \in {"open rw", "open ro", "open ro plain"}
    /\ ro <=> "write" \notin a
    /\ ZwCreateFile(a, {"read"}) = "STATUS_SUCCESS"
    /\ Step("times") /\ Opened(a, ro)

\* What the steps before the file is open can do besides
Tries ==
  /\ \/ pc \in {"sector size", "open rw", "open ro", "open ro plain"} /\ pc' = "failed"
     \/ /\ pc = "sector size" /\ pc' = "open rw"
        /\ req.bytes_per_sector # 0 /\ ~(req.bytes_per_sector > MAX_SECTOR_SIZE)
     \/ pc \in {"open rw", "open ro"} /\ pc' \in {"open ro", "open ro plain"}
  /\ Same /\ UNCHANGED <<req, medium, others, answer>>

LEMMA OpeningSteps ==
  CheckSectorSize \/ OpenReadWrite \/ OpenReadOnly \/ OpenReadOnlyPlain => Opens \/ Tries
<1>1. CASE CheckSectorSize
  BY <1>1 DEF CheckSectorSize, Tries, Step
<1>2. CASE OpenReadWrite
  <2>1. CASE ZwCreateFile({"read", "write"}, {"read"}) = "STATUS_SUCCESS" /\ Step("times")
               /\ Opened({"read", "write"}, FALSE)
    <3> DEFINE a == {"read", "write"}
    <3>1. pc = "open rw" /\ (FALSE <=> "write" \notin a)
      BY <1>2 DEF OpenReadWrite
    <3> QED BY <2>1, <3>1 DEF Opens
  <2> QED BY <1>2, <2>1 DEF OpenReadWrite, Tries, Step
<1>3. CASE OpenReadOnly
  <2>1. CASE ZwCreateFile(ReadOnlyRights, {"read"}) = "STATUS_SUCCESS" /\ Step("times")
               /\ Opened(ReadOnlyRights, TRUE)
    <3>1. /\ pc = "open ro" /\ (TRUE <=> "write" \notin ReadOnlyRights)
          /\ ReadOnlyRights \in {{"read", "write"}, {"read"}, {"read", "attributes"}}
      BY <1>3 DEF OpenReadOnly, ReadOnlyRights
    <3> QED BY <2>1, <3>1 DEF Opens
  <2> QED BY <1>3, <2>1 DEF OpenReadOnly, Tries, Step
<1>4. CASE OpenReadOnlyPlain
  <2>1. CASE ZwCreateFile({"read"}, {"read"}) = "STATUS_SUCCESS" /\ Step("times")
               /\ Opened({"read"}, TRUE)
    <3>1. pc = "open ro plain" /\ (TRUE <=> "write" \notin {"read"})
      BY <1>4 DEF OpenReadOnlyPlain
    <3> QED BY <2>1, <3>1 DEF Opens
  <2> QED BY <1>4, <2>1 DEF OpenReadOnlyPlain, Tries, Step
<1> QED BY <1>1, <1>2, <1>3, <1>4

\* The parts of the invariant besides the types
Rest == HeldAt /\ SoleWriter /\ ReadOnlyAt /\ TimesAt /\ SizesAt /\ AnswerAt

LEMMA CreateKeeps ==
  ASSUME IndInv, NEW r \in MountRequests, CreateDevice(r) PROVE Rest'
<1>1. /\ pc = "idle" /\ pc' = "sector size" /\ ext' = NewExtension /\ req' = r
      /\ dev'.read_only = r.read_only /\ UNCHANGED <<others, answer>>
  BY DEF CreateDevice
<1>2. HeldAt' /\ SoleWriter' /\ ReadOnlyAt'
  BY <1>1 DEF HeldAt, SoleWriter, ReadOnlyAt, OpenPcs, NewExtension
<1>3. TimesAt' /\ SizesAt' /\ AnswerAt'
  BY <1>1 DEF TimesAt, SizesAt, AnswerAt, OpenPcs, CheckedPcs, IndInv
<1> QED BY <1>2, <1>3 DEF Rest

LEMMA TriesKeep == ASSUME IndInv, Tries PROVE Rest'
<1>1. UNCHANGED <<req, dev, ext, times, fault, others, answer>>
  BY DEF Tries, Same
<1>2. /\ pc \in {"sector size", "open rw", "open ro", "open ro plain"}
      /\ pc' \in {"open rw", "open ro", "open ro plain", "failed"}
      /\ pc = "sector size" => \/ pc' = "failed"
                               \/ /\ req.bytes_per_sector # 0
                                  /\ ~(req.bytes_per_sector > MAX_SECTOR_SIZE)
  BY DEF Tries
<1>3. HeldAt' /\ SoleWriter' /\ ReadOnlyAt' /\ TimesAt' /\ AnswerAt'
  BY <1>1, <1>2 DEF HeldAt, SoleWriter, ReadOnlyAt, TimesAt, AnswerAt, OpenPcs, IndInv
<1>4. SizesAt'
  <2>1. MAX_SECTOR_SIZE \in Nat
    BY MaxSector
  <2>2. pc' # "failed" => req.bytes_per_sector \in 1 .. MAX_SECTOR_SIZE
    <3>1. CASE pc = "sector size"
      <4>1. req \in MountRequests
        BY <3>1 DEF IndInv, TypeInv
      <4>2. req.bytes_per_sector \in Nat
        BY <4>1, RequestTyped
      <4>3. pc' # "failed" => /\ req.bytes_per_sector # 0
                              /\ ~(req.bytes_per_sector > MAX_SECTOR_SIZE)
        BY <1>2, <3>1
      <4> QED BY <2>1, <4>2, <4>3
    <3>2. CASE pc # "sector size"
      BY <1>2, <3>2 DEF IndInv, SizesAt, CheckedPcs
    <3> QED BY <3>1, <3>2
  <2> QED BY <1>1, <1>2, <2>2 DEF SizesAt, CheckedPcs, OpenPcs
<1> QED BY <1>3, <1>4 DEF Rest

LEMMA OpensKeep == ASSUME IndInv, Opens PROVE Rest'
<1>1. PICK a \in {{"read", "write"}, {"read"}, {"read", "attributes"}}, ro \in BOOLEAN :
        /\ pc \in {"open rw", "open ro", "open ro plain"}
        /\ ro <=> "write" \notin a
        /\ ZwCreateFile(a, {"read"}) = "STATUS_SUCCESS"
        /\ Step("times") /\ Opened(a, ro)
  BY DEF Opens
<1>2. pc' = "times" /\ UNCHANGED <<req, dev, others, answer, times, fault>>
  BY <1>1 DEF Step, Opened
<1>3. /\ ext'.h_device_file = a /\ ext'.b_read_only = ro
      /\ ext'.crypto_info = ext.crypto_info
  BY <1>1 DEF Opened, IndInv, TypeInv, Extensions
<1>4. HeldAt'
  BY <1>1, <1>2, <1>3 DEF HeldAt, OpenPcs, IndInv
<1>5. SoleWriter'
  BY <1>1, <1>2, GrantedAlone DEF SoleWriter
<1>6. ReadOnlyAt' /\ TimesAt' /\ AnswerAt'
  BY <1>1, <1>2 DEF ReadOnlyAt, TimesAt, AnswerAt, OpenPcs, IndInv
<1>7. SizesAt'
  BY <1>1, <1>2 DEF SizesAt, CheckedPcs, OpenPcs, IndInv
<1> QED BY <1>4, <1>5, <1>6, <1>7 DEF Rest

LEMMA TimesKeep == ASSUME IndInv, QueryTimes PROVE Rest'
<1>1. pc = "times" /\ pc' = "reference" /\ UNCHANGED <<req, dev, others, answer>>
  BY DEF QueryTimes, Step
<1>2. \A f \in {"h_device_file", "b_read_only", "crypto_info", "b_preserve_timestamp"} :
        ext'[f] = ext[f]
  BY DEF QueryTimes, IndInv, TypeInv, Extensions
<1>3. HeldAt' /\ SoleWriter' /\ ReadOnlyAt'
  BY <1>1, <1>2 DEF HeldAt, SoleWriter, ReadOnlyAt, OpenPcs, IndInv
<1>4. TimesAt'
  BY <1>2 DEF QueryTimes, TimesAt, SetBasicInformation
<1>5. SizesAt' /\ AnswerAt'
  BY <1>1 DEF SizesAt, AnswerAt, CheckedPcs, OpenPcs, IndInv
<1> QED BY <1>3, <1>4, <1>5 DEF Rest

LEMMA ReferenceKeeps == ASSUME IndInv, ReferenceFile PROVE Rest'
<1>1. /\ pc = "reference" /\ pc' = "volume size"
      /\ UNCHANGED <<req, dev, others, answer, times, fault>>
  BY DEF ReferenceFile, Step
<1>2. \A f \in {"h_device_file", "b_read_only", "crypto_info", "b_preserve_timestamp"} :
        ext'[f] = ext[f]
  BY DEF ReferenceFile, IndInv, TypeInv, Extensions
<1>3. HeldAt' /\ SoleWriter' /\ ReadOnlyAt' /\ TimesAt'
  BY <1>1, <1>2 DEF HeldAt, SoleWriter, ReadOnlyAt, TimesAt, OpenPcs, IndInv
<1>4. SizesAt' /\ AnswerAt'
  BY <1>1 DEF SizesAt, AnswerAt, CheckedPcs, OpenPcs, IndInv
<1> QED BY <1>3, <1>4 DEF Rest

LEMMA FailKeeps == ASSUME IndInv, pc \in {"volume size", "cipher"}, CloseAndFail PROVE Rest'
<1>1. pc' = "failed" /\ UNCHANGED <<req, dev, others, answer, times, fault>>
  BY DEF CloseAndFail, Step
<1>2. ext'.h_device_file = {} /\ ext'.crypto_info = ext.crypto_info
  BY DEF CloseAndFail, IndInv, TypeInv, Extensions
<1>3. HeldAt' /\ SoleWriter' /\ ReadOnlyAt' /\ TimesAt'
  BY <1>1, <1>2 DEF HeldAt, SoleWriter, ReadOnlyAt, TimesAt, OpenPcs, IndInv
<1>4. SizesAt' /\ AnswerAt'
  BY <1>1 DEF SizesAt, AnswerAt, CheckedPcs, OpenPcs, IndInv
<1> QED BY <1>3, <1>4 DEF Rest

LEMMA SizeKeeps == ASSUME IndInv, CheckVolumeSize PROVE Rest'
<1>1. pc = "volume size"
  BY DEF CheckVolumeSize
<1>2. CASE CloseAndFail
  BY <1>1, <1>2, FailKeeps
<1>3. CASE /\ req.disk_length \in TC_MIN_VOLUME_SIZE_LEGACY .. TC_MAX_VOLUME_SIZE
           /\ Step("cipher") /\ Same
  <2>1. pc' = "cipher" /\ UNCHANGED <<req, dev, ext, others, answer, times, fault>>
    BY <1>3 DEF Step, Same
  <2>2. HeldAt' /\ SoleWriter' /\ ReadOnlyAt' /\ TimesAt' /\ AnswerAt'
    BY <1>1, <2>1 DEF HeldAt, SoleWriter, ReadOnlyAt, TimesAt, AnswerAt, OpenPcs, IndInv
  <2>3. req.disk_length >= TC_MIN_VOLUME_SIZE_LEGACY
    <3>1. TC_MIN_VOLUME_SIZE_LEGACY \in Nat
      BY DEF TC_MIN_VOLUME_SIZE_LEGACY
    <3> QED BY <1>3, <3>1, SizeAssumption
  <2>4. SizesAt'
    BY <1>1, <2>1, <2>3 DEF SizesAt, CheckedPcs, OpenPcs, IndInv
  <2> QED BY <2>2, <2>4 DEF Rest
<1> QED BY <1>2, <1>3 DEF CheckVolumeSize

LEMMA CipherKeeps == ASSUME IndInv, InitCipher PROVE Rest'
<1>1. pc = "cipher"
  BY DEF InitCipher
<1>2. CASE CloseAndFail
  BY <1>1, <1>2, FailKeeps
<1>3. CASE Step("mounted") /\ ext' = Configured /\ dev' = MarkReadOnly(dev)
             /\ UNCHANGED <<times, fault>>
  <2>1. pc' = "mounted" /\ UNCHANGED <<req, others, answer, times, fault>>
    BY <1>3 DEF Step
  <2>2. /\ ext'.h_device_file = ext.h_device_file /\ ext'.b_read_only = ext.b_read_only
        /\ ext'.b_preserve_timestamp = ext.b_preserve_timestamp
        /\ ext'.disk_length = req.disk_length /\ ext'.bytes_per_sector = req.bytes_per_sector
        /\ ext'.number_of_cylinders =
             ComputeVirtualGeometry(req.disk_length, req.bytes_per_sector)
        /\ ext'.tracks_per_cylinder = 1 /\ ext'.sectors_per_track = 1
    BY <1>3 DEF Configured, IndInv, TypeInv, Extensions
  <2>3. dev'.read_only = (dev.read_only \/ ext.b_read_only)
    BY <1>3 DEF MarkReadOnly, IndInv, TypeInv
  <2>4. HeldAt' /\ SoleWriter' /\ ReadOnlyAt' /\ TimesAt'
    BY <1>1, <2>1, <2>2, <2>3 DEF HeldAt, SoleWriter, ReadOnlyAt, TimesAt, OpenPcs, IndInv
  <2>5. SizesAt'
    BY <1>1, <2>1, <2>2 DEF SizesAt, CheckedPcs, OpenPcs, IndInv
  <2>6. AnswerAt'
    BY <1>1, <2>1 DEF AnswerAt, IndInv
  <2> QED BY <2>4, <2>5, <2>6 DEF Rest
<1> QED BY <1>2, <1>3 DEF InitCipher

LEMMA HostIoKeeps == ASSUME IndInv, HostIo PROVE Rest'
<1>1. pc = "mounted" /\ UNCHANGED <<pc, req, dev, ext, others, fault, answer>>
  BY DEF HostIo
<1>2. HeldAt' /\ SoleWriter' /\ ReadOnlyAt' /\ SizesAt' /\ AnswerAt'
  BY <1>1 DEF HeldAt, SoleWriter, ReadOnlyAt, SizesAt, AnswerAt, OpenPcs, CheckedPcs, IndInv
<1>3. TimesAt'
  BY <1>1 DEF HostIo, TimesAt, IndInv
<1> QED BY <1>2, <1>3 DEF Rest

LEMMA AnswerKeeps ==
  ASSUME IndInv, (\E r \in IoctlRequests : DeviceControl(r)) \/ AnswerSeen PROVE Rest'
<1>1. UNCHANGED <<pc, req, dev, ext, others, times, fault>>
  BY DEF DeviceControl, AnswerSeen
<1>2. HeldAt' /\ SoleWriter' /\ ReadOnlyAt' /\ TimesAt' /\ SizesAt'
  BY <1>1 DEF HeldAt, SoleWriter, ReadOnlyAt, TimesAt, SizesAt, OpenPcs, CheckedPcs, IndInv
<1>3. CASE AnswerSeen
  BY <1>2, <1>3 DEF AnswerSeen, AnswerAt, Rest
<1>4. ASSUME NEW r \in IoctlRequests, DeviceControl(r) PROVE AnswerAt'
  <2>1. pc = "mounted" /\ answer' = [request |-> r, result |-> Answer(ext, r)]
    BY <1>4 DEF DeviceControl
  <2>2. answer'.request = r /\ answer'.result = Answer(ext, r)
    BY <2>1
  <2> QED BY <1>1, <2>1, <2>2 DEF AnswerAt
<1> QED BY <1>2, <1>3, <1>4 DEF Rest

LEMMA CloseKeeps == ASSUME IndInv, RestoreTimestamp \/ CloseHandle \/ Release PROVE Rest'
<1>1. UNCHANGED <<req, dev, others, answer, fault>>
  BY DEF RestoreTimestamp, CloseHandle, Release, Step
<1>2. times' = times
  BY DEF RestoreTimestamp, CloseHandle, Release, SetBasicInformation
<1>3. answer = NoAnswer
  BY DEF RestoreTimestamp, CloseHandle, Release, AnswerAt, IndInv
<1>4. /\ pc \in {"mounted", "close", "release"} /\ pc' \in {"close", "release", "closed"}
      /\ ext'.b_preserve_timestamp = ext.b_preserve_timestamp
  BY DEF RestoreTimestamp, CloseHandle, Release, Step, IndInv, TypeInv, Extensions
<1>5. HeldAt' /\ SoleWriter'
  <2>1. CASE RestoreTimestamp
    BY <2>1, <1>1 DEF RestoreTimestamp, HeldAt, SoleWriter, OpenPcs, IndInv
  <2>2. CASE CloseHandle
    <3>1. pc' = "release" /\ ext'.h_device_file = {} /\ ext'.crypto_info = ext.crypto_info
      BY <2>2 DEF CloseHandle, Step, IndInv, TypeInv, Extensions
    <3> QED BY <3>1 DEF HeldAt, SoleWriter, OpenPcs
  <2>3. CASE Release
    <3>1. /\ pc = "release" /\ pc' = "closed" /\ ext'.h_device_file = ext.h_device_file
          /\ ~ext'.crypto_info /\ ~ext'.pfo_device_file
      BY <2>3 DEF Release, Step, IndInv, TypeInv, Extensions
    <3> QED BY <3>1 DEF HeldAt, SoleWriter, OpenPcs, IndInv
  <2> QED BY <2>1, <2>2, <2>3
<1>6. ReadOnlyAt' /\ TimesAt'
  BY <1>1, <1>2, <1>4 DEF ReadOnlyAt, TimesAt, OpenPcs, IndInv
<1>7. SizesAt'
  <2>1. pc' = "close" => pc = "mounted"
    BY DEF RestoreTimestamp, CloseHandle, Release, Step
  <2> QED BY <1>1, <1>4, <2>1 DEF SizesAt, OpenPcs, CheckedPcs, IndInv
<1>8. AnswerAt'
  BY <1>1, <1>3 DEF AnswerAt
<1> QED BY <1>5, <1>6, <1>7, <1>8 DEF Rest

LEMMA DeleteKeeps == ASSUME IndInv, DeleteDevice PROVE Rest'
<1>1. pc' = "idle" /\ ext' = NewExtension /\ answer = NoAnswer /\ answer' = answer
  BY DEF DeleteDevice, AnswerAt, IndInv
<1> QED BY <1>1 DEF Rest, HeldAt, SoleWriter, ReadOnlyAt, TimesAt, SizesAt, AnswerAt,
                    OpenPcs, CheckedPcs, NewExtension

LEMMA OthersKeep ==
  ASSUME IndInv, NEW o \in Others, (\E m \in Modes : OtherOpens(o, m)) \/ OtherCloses(o)
  PROVE  Rest'
<1>1. UNCHANGED <<pc, req, dev, ext, times, fault, answer>>
  BY DEF OtherOpens, OtherCloses
<1>2. HeldAt' /\ ReadOnlyAt' /\ TimesAt' /\ SizesAt' /\ AnswerAt'
  BY <1>1 DEF HeldAt, ReadOnlyAt, TimesAt, SizesAt, AnswerAt, OpenPcs, CheckedPcs, IndInv
<1>3. SoleWriter'
  <2>1. others \in [Others -> Modes \cup {None}]
    BY DEF IndInv, TypeInv
  <2>2. ASSUME NEW m \in Modes, OtherOpens(o, m) PROVE SoleWriter'
    <3>1. others' = [others EXCEPT ![o] = m]
      BY <2>2 DEF OtherOpens
    <3>2. ext.h_device_file # {} => "write" \notin m.access
      BY <2>2, OpenedBeside DEF OtherOpens
    <3> QED BY <1>1, <2>1, <3>1, <3>2 DEF SoleWriter, IndInv
  <2>3. CASE OtherCloses(o)
    BY <1>1, <2>1, <2>3 DEF OtherCloses, SoleWriter, IndInv, None
  <2> QED BY <2>2, <2>3
<1> QED BY <1>2, <1>3 DEF Rest

LEMMA NextRest == IndInv /\ [Next]_vars => Rest'
<1> SUFFICES ASSUME IndInv, [Next]_vars PROVE Rest'
  OBVIOUS
<1>1. CASE UNCHANGED vars
  BY <1>1 DEF vars, IndInv, Rest, HeldAt, SoleWriter, ReadOnlyAt, TimesAt, SizesAt, AnswerAt
<1> QED BY <1>1, CreateKeeps, OpeningSteps, TriesKeep, OpensKeep, TimesKeep, ReferenceKeeps,
           SizeKeeps, CipherKeeps, HostIoKeeps, AnswerKeeps, CloseKeeps, DeleteKeeps,
           OthersKeep DEF Next

LEMMA InitInv == Init => IndInv
<1> SUFFICES ASSUME Init PROVE IndInv
  OBVIOUS
<1>1. TypeInv
  BY NewExtensionTyped DEF Init, TypeInv, PcLabels
<1>2. Rest
  BY DEF Init, Rest, HeldAt, SoleWriter, ReadOnlyAt, TimesAt, SizesAt, AnswerAt, OpenPcs,
         CheckedPcs, NewExtension
<1> QED BY <1>1, <1>2 DEF IndInv, Rest

LEMMA Inductive == Spec => []IndInv
<1>1. IndInv /\ [Next]_vars => IndInv'
  BY NextTyped, NextRest DEF IndInv, Rest
<1> QED BY <1>1, InitInv, PTL DEF Spec

-----------------------------------------------------------------------------
\* The types of the variables, for every set of requests.
THEOREM TypeCorrect == Spec => []TypeOK
<1>1. IndInv => TypeOK
  BY DEF IndInv, TypeInv, TypeOK, Extensions
<1> QED BY <1>1, Inductive, PTL

\* Only the errors of CheckVolumeSize and InitCipher end an attempt with the file
\* object referenced.
LEMMA FileObjectKept == IndInv /\ FileObjectAt /\ [Next]_vars => FileObjectAt'
<1> SUFFICES ASSUME IndInv, FileObjectAt, [Next]_vars PROVE FileObjectAt'
  OBVIOUS
<1>0. ext \in Extensions
  BY DEF IndInv, TypeInv
<1>1. CASE UNCHANGED vars
  BY <1>1 DEF vars, FileObjectAt
<1>2. ASSUME ext' = NewExtension PROVE FileObjectAt'
  BY <1>2 DEF FileObjectAt, NewExtension
<1>3. ASSUME NEW r \in MountRequests, CreateDevice(r) PROVE FileObjectAt'
  BY <1>2, <1>3 DEF CreateDevice
<1>4. CASE CheckSectorSize \/ OpenReadWrite \/ OpenReadOnly \/ OpenReadOnlyPlain
  <2>1. Opens \/ Tries
    BY <1>4, OpeningSteps
  <2>2. /\ ext'.pfo_device_file = ext.pfo_device_file
        /\ pc \in {"sector size", "open rw", "open ro", "open ro plain"}
    BY <1>0, <2>1 DEF Opens, Opened, Tries, Same, Extensions
  <2>3. ~ext.pfo_device_file
    BY <2>2 DEF FileObjectAt
  <2> QED BY <2>2, <2>3 DEF FileObjectAt
<1>5. CASE QueryTimes
  <2>1. ext'.pfo_device_file = ext.pfo_device_file /\ pc = "times"
    BY <1>0, <1>5 DEF QueryTimes, Extensions
  <2> QED BY <2>1 DEF FileObjectAt
<1>6. CASE ReferenceFile
  BY <1>6 DEF ReferenceFile, Step, FileObjectAt
<1>7. ASSUME CloseAndFail, RefusedOnceOpen(req) PROVE FileObjectAt'
  BY <1>7 DEF CloseAndFail, Step, FileObjectAt, RefusedOnceOpen
<1>8. CASE CheckVolumeSize
  <2>1. CASE CloseAndFail /\ RefusedOnceOpen(req)
    BY <1>7, <2>1
  <2>2. CASE Step("cipher")
    BY <2>2 DEF Step, FileObjectAt
  <2> QED BY <1>8, <2>1, <2>2 DEF CheckVolumeSize, RefusedOnceOpen
<1>9. CASE InitCipher
  <2>1. CASE CloseAndFail /\ RefusedOnceOpen(req)
    BY <1>7, <2>1
  <2>2. CASE Step("mounted")
    BY <2>2 DEF Step, FileObjectAt
  <2> QED BY <1>9, <2>1, <2>2 DEF InitCipher, RefusedOnceOpen
<1>10. ASSUME UNCHANGED <<pc, req, ext>> PROVE FileObjectAt'
  BY <1>10 DEF FileObjectAt
<1>11. CASE HostIo \/ AnswerSeen \/ \E r \in IoctlRequests : DeviceControl(r)
  BY <1>10, <1>11 DEF HostIo, AnswerSeen, DeviceControl
<1>12. CASE RestoreTimestamp
  BY <1>12 DEF RestoreTimestamp, FileObjectAt
<1>13. CASE CloseHandle
  BY <1>13 DEF CloseHandle, Step, FileObjectAt
<1>14. CASE Release
  <2>1. ~ext'.pfo_device_file
    BY <1>0, <1>14 DEF Release, Extensions
  <2> QED BY <2>1 DEF FileObjectAt
<1>15. CASE DeleteDevice
  BY <1>2, <1>15 DEF DeleteDevice
<1>16. ASSUME NEW o \in Others, (\E m \in Modes : OtherOpens(o, m)) \/ OtherCloses(o)
      PROVE  FileObjectAt'
  BY <1>10, <1>16 DEF OtherOpens, OtherCloses
<1> QED BY <1>1, <1>3, <1>4, <1>5, <1>6, <1>8, <1>9, <1>11, <1>12, <1>13, <1>14, <1>15, <1>16
           DEF Next

\* However an attempt ends, the handle is closed and the cipher freed.  The file
\* object is still referenced after some failed attempts: those refused for the
\* size of the volume or for the algorithm, once the file is open, and no others.
THEOREM OnlyFileObjectLeaked == Spec => []OnlyFileObjectLeaks
<1>1. ASSUME Init PROVE FileObjectAt
  <2>1. ~ext.pfo_device_file
    BY <1>1 DEF Init, NewExtension
  <2> QED BY <2>1 DEF FileObjectAt
<1>2. Spec => []FileObjectAt
  BY <1>1, FileObjectKept, Inductive, PTL DEF Spec
<1>3. IndInv /\ FileObjectAt => OnlyFileObjectLeaks
  BY DEF IndInv, HeldAt, FileObjectAt, OnlyFileObjectLeaks, OpenPcs
<1> QED BY <1>2, <1>3, Inductive, PTL

\* While the driver has the host file open no other program, of any number and
\* with any mode, has it open for writing.
THEOREM WritesAlone == Spec => []SoleWriter
<1>1. IndInv => SoleWriter
  BY DEF IndInv
<1> QED BY <1>1, Inductive, PTL

\* A mounted volume that cannot write, or must not, is a read-only device.
THEOREM ReadOnlyShown == Spec => []ReadOnlyIsShown
<1>1. IndInv => ReadOnlyIsShown
  BY DEF IndInv, HeldAt, ReadOnlyAt, ReadOnlyIsShown, OpenPcs
<1> QED BY <1>1, Inductive, PTL

\* The host file's times do not change while they are to be preserved, unless the
\* file system refused to freeze them.
THEOREM TimesAreKept == Spec => []TimesKept
<1>1. IndInv => TimesKept
  BY DEF IndInv, TimesAt, TimesKept
<1> QED BY <1>1, Inductive, PTL

-----------------------------------------------------------------------------
\* The answers

LEMMA CompletedFits ==
  ASSUME NEW status, NEW info
  PROVE  LET f == Completed(status, info)
         IN  f.status = status /\ f.information = info /\ f.written = 0
BY DEF Completed

\* An answer keeps to the room its request has.
Within(f, r) ==
  /\ CopiedBack(f.status) => f.information <= r.out_len
  /\ f.written <= IF r.in_len > r.out_len THEN r.in_len ELSE r.out_len

\* What AnswerFits asks of it
Fits(f, r) ==
  /\ CopiedBack(f.status) => f.information <= IF ShortNameQuery(r) THEN 4 ELSE r.out_len
  /\ f.written <= IF r.in_len > r.out_len THEN r.in_len ELSE r.out_len

\* The two differ where less than four bytes can be copied.
LEMMA WithinFits ==
  ASSUME NEW f, NEW r, r.out_len \in Nat, f.information \in Nat, Within(f, r)
  PROVE  Fits(f, r)
BY DEF Within, Fits, ShortNameQuery

LEMMA CompletedWithin ==
  ASSUME NEW r, r.in_len \in Nat, r.out_len \in Nat, NEW status, NEW info,
         CopiedBack(status) => info = 0
  PROVE  Within(Completed(status, info), r)
BY CompletedFits DEF Within

LEMMA PropertyWithin ==
  ASSUME NEW e, NEW r, r.in_len \in Nat, r.out_len \in Nat
  PROVE  Within(QueryProperty(e, r), r) /\ QueryProperty(e, r).information \in Nat
<1>1. CASE r.in_len < 12
  BY <1>1, CompletedFits, CompletedWithin DEF QueryProperty, CopiedBack
<1>2. CASE r.in_len >= 12
  <2> DEFINE f == PropertyAnswer(e, r.prop, r.exists, r.out_len)
  <2>0. QueryProperty(e, r) = f
    BY <1>2 DEF QueryProperty
  <2>1. CASE r.prop = "StorageDeviceProperty"
    <3>1. f = Fixed(36, 36, <<>>, r.out_len)
      BY <2>1 DEF PropertyAnswer
    <3> HIDE DEF f
    <3> QED BY <2>0, <3>1 DEF Fixed, Completed, Within, CopiedBack
  <2>2. CASE r.prop = "StorageAccessAlignmentProperty"
    BY <2>0, <2>2 DEF PropertyAnswer, Fixed, Completed, Within, CopiedBack
  <2>3. CASE r.prop = "StorageDeviceSeekPenaltyProperty"
    <3>1. f = Fixed(12, 9, <<>>, r.out_len)
      BY <2>3 DEF PropertyAnswer
    <3> HIDE DEF f
    <3> QED BY <2>0, <3>1 DEF Fixed, Completed, Within, CopiedBack
  \* The byte past the descriptor lies in the 12 bytes of the query.
  <2>4. CASE r.prop = "StorageDeviceTrimProperty"
    <3>1. f = Fixed(8, 9, <<>>, r.out_len)
      BY <2>4 DEF PropertyAnswer
    <3> HIDE DEF f
    <3> QED BY <1>2, <2>0, <3>1 DEF Fixed, Completed, Within, CopiedBack
  <2>5. CASE r.prop \notin {"StorageDeviceProperty", "StorageAccessAlignmentProperty",
                            "StorageDeviceSeekPenaltyProperty", "StorageDeviceTrimProperty"}
    BY <2>0, <2>5, CompletedFits, CompletedWithin DEF PropertyAnswer, CopiedBack
  <2> QED BY <2>1, <2>2, <2>3, <2>4, <2>5
<1> QED BY <1>1, <1>2

\* The queries of the Mount Manager
LEMMA SuggestedLinkWithin ==
  ASSUME NEW r, r.in_len \in Nat, r.out_len \in Nat
  PROVE  /\ Within(SuggestedLinkAnswer(r.out_len), r)
         /\ SuggestedLinkAnswer(r.out_len).information \in Nat
BY DEF SuggestedLinkAnswer, Named, Completed, VolumeDosNameLength, Within, CopiedBack

LEMMA NameQueryFits ==
  ASSUME NEW r, r.in_len \in Nat, r.out_len \in Nat,
         r.code \in {"QUERY_DEVICE_NAME", "QUERY_UNIQUE_ID"}
  PROVE  Fits(DeviceNameAnswer(r.out_len), r) /\ Fits(UniqueIdAnswer(r.out_len), r)
<1>1. ASSUME NEW f, f.written \in Nat, f.written <= r.out_len,
             f.information \in Nat, f.information <= r.out_len \/ f.information = 4
      PROVE  r.out_len >= f.information \/ r.out_len < 4 => Fits(f, r)
  BY <1>1 DEF Fits, ShortNameQuery
<1>2. Fits(DeviceNameAnswer(r.out_len), r)
  BY <1>1 DEF DeviceNameAnswer, Named, Completed, VolumeNtNameLength
<1>3. Fits(UniqueIdAnswer(r.out_len), r)
  BY <1>1 DEF UniqueIdAnswer, Named, Completed
<1> QED BY <1>2, <1>3

\* The codes that have an answer of their own
NamedCodes ==
  {"DRIVE_GEOMETRY", "DRIVE_GEOMETRY_EX", "LENGTH_INFO", "PARTITION_INFO",
   "PARTITION_INFO_EX", "DRIVE_LAYOUT", "DISK_EXTENTS", "IS_WRITABLE",
   "MEDIA_REMOVAL", "QUERY_PROPERTY", "QUERY_DEVICE_NAME", "QUERY_UNIQUE_ID",
   "QUERY_SUGGESTED_LINK"}

\* Which of the answers a code has
LEMMA AnswerOf ==
  ASSUME NEW e, NEW r, NEW c, c = FirstArm(r.code)
  PROVE  /\ c = "DRIVE_GEOMETRY" => Answer(e, r) = GeometryAnswer(e, r.out_len)
         /\ c = "DRIVE_GEOMETRY_EX" => Answer(e, r) = GeometryExAnswer(e, r.out_len)
         /\ c = "LENGTH_INFO" => Answer(e, r) = LengthAnswer(e, r.out_len)
         /\ c = "PARTITION_INFO" => Answer(e, r) = PartitionInfoAnswer(e, r.out_len)
         /\ c = "PARTITION_INFO_EX" => Answer(e, r) = PartitionInfoExAnswer(e, r.out_len)
         /\ c = "DRIVE_LAYOUT" => Answer(e, r) = DriveLayoutAnswer(e, r.out_len)
         /\ c = "DISK_EXTENTS" => Answer(e, r) = ExtentsAnswer(e, r.out_len)
         /\ c = "IS_WRITABLE" => Answer(e, r) = WritableAnswer(e)
         /\ c = "MEDIA_REMOVAL" => Answer(e, r) = MediaRemovalAnswer(e)
         /\ c = "QUERY_PROPERTY" => Answer(e, r) = QueryProperty(e, r)
         /\ c = "QUERY_DEVICE_NAME" => Answer(e, r) = DeviceNameAnswer(r.out_len)
         /\ c = "QUERY_UNIQUE_ID" => Answer(e, r) = UniqueIdAnswer(r.out_len)
         /\ c = "QUERY_SUGGESTED_LINK" => Answer(e, r) = SuggestedLinkAnswer(r.out_len)
         /\ c \notin NamedCodes =>
              \E s \in {"STATUS_SUCCESS", "STATUS_NOT_SUPPORTED",
                        "STATUS_INVALID_DEVICE_REQUEST"} : Answer(e, r) = Completed(s, 0)
<1> DEFINE Statuses == {"STATUS_SUCCESS", "STATUS_NOT_SUPPORTED",
                        "STATUS_INVALID_DEVICE_REQUEST"}
<1>1. ASSUME c \notin NamedCodes PROVE \E s \in Statuses : Answer(e, r) = Completed(s, 0)
  <2>1. CASE c \in NoOps
    <3>1. Answer(e, r) = Completed("STATUS_SUCCESS", 0)
      BY <1>1, <2>1 DEF Answer, NamedCodes, NoOps, DiskNoOps, OnlineNoOps, FsctlNoOps,
                        VolumeNoOps, TrimNoOps
    <3> QED BY <3>1
  <2>2. CASE c \notin NoOps /\ c = "GET_CLUSTER_INFO"
    <3>1. Answer(e, r) = Completed("STATUS_NOT_SUPPORTED", 0)
      BY <1>1, <2>2 DEF Answer, NamedCodes
    <3> QED BY <3>1
  <2>3. CASE c \notin NoOps /\ c # "GET_CLUSTER_INFO"
    <3>1. Answer(e, r) = Completed("STATUS_INVALID_DEVICE_REQUEST", 0)
      BY <1>1, <2>3 DEF Answer, NamedCodes
    <3> QED BY <3>1
  <2> QED BY <2>1, <2>2, <2>3
<1> QED BY <1>1 DEF Answer, NoOps, DiskNoOps, OnlineNoOps, FsctlNoOps, VolumeNoOps, TrimNoOps

LEMMA AnswerWithin ==
  ASSUME NEW e, NEW r, r.in_len \in Nat, r.out_len \in Nat
  PROVE  Fits(Answer(e, r), r)
<1> DEFINE c == FirstArm(r.code)
<1>0. ASSUME NEW f, f = Answer(e, r), f.information \in Nat, Within(f, r)
      PROVE  Fits(Answer(e, r), r)
  BY <1>0, WithinFits
<1>1. ASSUME NEW size \in Nat, NEW written \in Nat, written <= size, NEW reply,
             Answer(e, r) = Fixed(size, written, reply, r.out_len)
      PROVE  Fits(Answer(e, r), r)
  <2> DEFINE f == Answer(e, r)
  <2>1. /\ f.information = size /\ f.written \in {0, written}
        /\ f.status = "STATUS_BUFFER_TOO_SMALL" \/ size <= r.out_len
    BY <1>1 DEF Fixed, Completed
  <2>2. f.written = 0 \/ size <= r.out_len
    BY <1>1 DEF Fixed, Completed
  <2> HIDE DEF f
  <2>3. Within(f, r)
    BY <1>1, <2>1, <2>2 DEF Within, CopiedBack
  <2> QED BY <2>1, <2>3, WithinFits DEF f
<1>2. ASSUME NEW s, Answer(e, r) = Completed(s, 0) PROVE Fits(Answer(e, r), r)
  BY <1>0, <1>2, CompletedFits, CompletedWithin
<1> HIDE DEF c
<1>3. c = FirstArm(r.code)
  BY DEF c
<1>4. CASE c = "DRIVE_GEOMETRY"
  <2>1. Answer(e, r) = GeometryAnswer(e, r.out_len)
    BY <1>3, <1>4, AnswerOf
  <2> QED BY <1>1, <2>1 DEF GeometryAnswer
<1>5. CASE c = "DRIVE_GEOMETRY_EX"
  <2>1. Answer(e, r) = GeometryExAnswer(e, r.out_len)
    BY <1>3, <1>5, AnswerOf
  <2> QED BY <1>1, <2>1 DEF GeometryExAnswer
<1>6. CASE c = "LENGTH_INFO"
  <2>1. Answer(e, r) = LengthAnswer(e, r.out_len)
    BY <1>3, <1>6, AnswerOf
  <2> QED BY <1>1, <2>1 DEF LengthAnswer
<1>7. CASE c = "PARTITION_INFO"
  <2>1. Answer(e, r) = PartitionInfoAnswer(e, r.out_len)
    BY <1>3, <1>7, AnswerOf
  <2> QED BY <1>1, <2>1 DEF PartitionInfoAnswer
<1>8. CASE c = "PARTITION_INFO_EX"
  <2>1. Answer(e, r) = PartitionInfoExAnswer(e, r.out_len)
    BY <1>3, <1>8, AnswerOf
  <2> QED BY <1>1, <2>1 DEF PartitionInfoExAnswer
<1>9. CASE c = "DRIVE_LAYOUT"
  <2>1. Answer(e, r) = DriveLayoutAnswer(e, r.out_len)
    BY <1>3, <1>9, AnswerOf
  <2> QED BY <1>1, <2>1 DEF DriveLayoutAnswer
<1>10. CASE c = "DISK_EXTENTS"
  <2>1. Answer(e, r) = ExtentsAnswer(e, r.out_len)
    BY <1>3, <1>10, AnswerOf
  <2> QED BY <1>1, <2>1 DEF ExtentsAnswer
<1>11. CASE c = "IS_WRITABLE"
  BY <1>2, <1>3, <1>11, AnswerOf DEF WritableAnswer
<1>12. CASE c = "MEDIA_REMOVAL"
  BY <1>2, <1>3, <1>12, AnswerOf DEF MediaRemovalAnswer
<1>13. CASE c = "QUERY_PROPERTY"
  <2>1. Answer(e, r) = QueryProperty(e, r)
    BY <1>3, <1>13, AnswerOf
  <2> QED BY <1>0, <2>1, PropertyWithin
<1>14. CASE c \in {"QUERY_DEVICE_NAME", "QUERY_UNIQUE_ID"}
  <2>1. r.code \in {"QUERY_DEVICE_NAME", "QUERY_UNIQUE_ID"}
    BY <1>3, <1>14 DEF FirstArm
  <2>2. Answer(e, r) \in {DeviceNameAnswer(r.out_len), UniqueIdAnswer(r.out_len)}
    BY <1>3, <1>14, AnswerOf
  <2> QED BY <2>1, <2>2, NameQueryFits
<1>15. CASE c = "QUERY_SUGGESTED_LINK"
  <2>1. Answer(e, r) = SuggestedLinkAnswer(r.out_len)
    BY <1>3, <1>15, AnswerOf
  <2> QED BY <1>0, <2>1, SuggestedLinkWithin
<1>16. CASE c \notin NamedCodes
  BY <1>2, <1>3, <1>16, AnswerOf
<1> QED BY <1>4, <1>5, <1>6, <1>7, <1>8, <1>9, <1>10, <1>11, <1>12, <1>13, <1>14, <1>15,
           <1>16 DEF NamedCodes

\* Whatever lengths and properties requests come with, an answer with a status the
\* I/O manager copies data back for, a success or STATUS_BUFFER_OVERFLOW, has it copy
\* no more than the caller has room for, except the four bytes the name queries
\* answer a shorter output with; and no answer writes past the system buffer.
THEOREM AnswersFit == Spec => []AnswerFits
<1>1. IndInv => AnswerFits
  <2> SUFFICES ASSUME IndInv, answer # NoAnswer PROVE Fits(answer.result, answer.request)
    BY DEF AnswerFits, Fits
  <2>1. answer.request \in IoctlRequests /\ answer.result = Answer(ext, answer.request)
    BY DEF IndInv, AnswerAt
  <2> QED BY <2>1, AnswerWithin, IoctlAssumption
<1> QED BY <1>1, Inductive, PTL

\* What a successful answer says of the volume
LEMMA Replies ==
  ASSUME NEW e, NEW r, NEW c, c = FirstArm(r.code), r.out_len \in Nat, Answer(e, r).status = "STATUS_SUCCESS"
  PROVE  /\ c = "DRIVE_GEOMETRY" => Answer(e, r).reply = Geometry(e)
         /\ c = "DISK_EXTENTS" =>
              Answer(e, r).reply = [offset |-> Megabyte, length |-> e.disk_length]
         /\ c = "LENGTH_INFO" => Answer(e, r).reply = [length |-> e.disk_length]
         /\ c \in {"PARTITION_INFO", "PARTITION_INFO_EX", "DRIVE_LAYOUT"} =>
              Answer(e, r).reply = [start |-> 0, length |-> e.disk_length]
<1>1. CASE c = "DRIVE_GEOMETRY"
  <2>1. Answer(e, r) = GeometryAnswer(e, r.out_len)
    BY <1>1, AnswerOf
  <2> QED BY <1>1, <2>1 DEF GeometryAnswer, Fixed, Completed
<1>2. CASE c = "DISK_EXTENTS"
  <2>1. Answer(e, r) = ExtentsAnswer(e, r.out_len)
    BY <1>2, AnswerOf
  <2> QED BY <1>2, <2>1 DEF ExtentsAnswer, Fixed, Completed
<1>3. CASE c = "LENGTH_INFO"
  <2>1. Answer(e, r) = LengthAnswer(e, r.out_len)
    BY <1>3, AnswerOf
  <2> QED BY <1>3, <2>1 DEF LengthAnswer, Fixed, Completed
<1>4. CASE c = "PARTITION_INFO"
  <2>1. Answer(e, r) = PartitionInfoAnswer(e, r.out_len)
    BY <1>4, AnswerOf
  <2> QED BY <1>4, <2>1 DEF PartitionInfoAnswer, Fixed, Completed
<1>5. CASE c = "PARTITION_INFO_EX"
  <2>1. Answer(e, r) = PartitionInfoExAnswer(e, r.out_len)
    BY <1>5, AnswerOf
  <2> QED BY <1>5, <2>1 DEF PartitionInfoExAnswer, Fixed, Completed
<1>6. CASE c = "DRIVE_LAYOUT"
  <2>1. Answer(e, r) = DriveLayoutAnswer(e, r.out_len)
    BY <1>6, AnswerOf
  <2> QED BY <1>6, <2>1 DEF DriveLayoutAnswer, Fixed, Completed
<1> QED BY <1>1, <1>2, <1>3, <1>4, <1>5, <1>6

\* The sizes in the answers agree with one another and with the request, for every
\* length and sector size that tc_open_volume accepts.
THEOREM SizesAlwaysAgree == Spec => []SizesAgree
<1>1. IndInv => SizesAgree
  <2> SUFFICES ASSUME IndInv PROVE SizesAgree
    OBVIOUS
  <2> DEFINE r == answer.request
             c == FirstArm(r.code)
  <2>1. ASSUME NEW codes, Succeeded(codes)
        PROVE  /\ r \in IoctlRequests /\ r.out_len \in Nat /\ answer.result = Answer(ext, r)
               /\ answer.result.status = "STATUS_SUCCESS" /\ c \in codes
               /\ pc = "mounted" /\ req.disk_length \in Nat
               /\ ext.disk_length = req.disk_length
    <3>1. /\ r \in IoctlRequests /\ answer.result = Answer(ext, r) /\ c \in codes
          /\ answer.result.status = "STATUS_SUCCESS" /\ pc = "mounted"
      BY <2>1 DEF Succeeded, IndInv, AnswerAt
    <3>2. ext.disk_length = req.disk_length /\ req \in MountRequests
      BY <3>1 DEF IndInv, TypeInv, SizesAt
    <3> QED BY <3>1, <3>2, IoctlAssumption, RequestTyped
  <2> HIDE DEF r, c
  <2>5. c = FirstArm(r.code)
    BY DEF c
  <2>2. ASSUME Succeeded({"DRIVE_GEOMETRY"})
        PROVE  LET g == answer.result.reply
                   size == g.cylinders * g.tracks * g.sectors * g.bytes
               IN  size <= req.disk_length /\ req.disk_length < size + g.bytes
    <3> DEFINE b == req.bytes_per_sector
               q == ComputeVirtualGeometry(req.disk_length, b)
    <3>0. /\ answer.result = Answer(ext, r) /\ Answer(ext, r).status = "STATUS_SUCCESS"
          /\ c = "DRIVE_GEOMETRY" /\ r.out_len \in Nat
      BY <2>1, <2>2
    <3>1. answer.result.reply = Geometry(ext)
      BY <2>5, <3>0, Replies
    <3>2. /\ req.disk_length >= TC_MIN_VOLUME_SIZE_LEGACY
          /\ b \in 1 .. MAX_SECTOR_SIZE
          /\ ext.bytes_per_sector = b /\ ext.number_of_cylinders = q
          /\ ext.tracks_per_cylinder = 1 /\ ext.sectors_per_track = 1
      BY <2>1, <2>2 DEF IndInv, SizesAt, CheckedPcs, OpenPcs
    <3>3. /\ answer.result.reply.cylinders = q /\ answer.result.reply.tracks = 1
          /\ answer.result.reply.sectors = 1 /\ answer.result.reply.bytes = b
      BY <3>1, <3>2 DEF Geometry
    <3>4. req.disk_length \in Nat
      BY <2>1, <2>2
    <3>5. q \in Nat /\ q * b <= req.disk_length /\ req.disk_length < q * b + b
      BY <3>2, <3>4, GeometryFits
    <3>6. b \in Nat
      BY <3>2, MaxSector
    <3> HIDE DEF q, b
    <3>7. q * 1 * 1 * b = q * b
      BY <3>5, <3>6
    <3> QED BY <3>3, <3>5, <3>7
  <2>3. ASSUME Succeeded({"DISK_EXTENTS"})
        PROVE  answer.result.reply.offset + answer.result.reply.length
                 = GeometryExAnswer(ext, 32).reply.disk
    <3>0. /\ answer.result = Answer(ext, r) /\ Answer(ext, r).status = "STATUS_SUCCESS"
          /\ c = "DISK_EXTENTS" /\ r.out_len \in Nat
      BY <2>1, <2>3
    <3>1. answer.result.reply = [offset |-> Megabyte, length |-> ext.disk_length]
      BY <2>5, <3>0, Replies
    <3>2. answer.result.reply.offset = Megabyte /\ answer.result.reply.length = ext.disk_length
      BY <3>1
    <3>3. GeometryExAnswer(ext, 32).reply = [disk |-> ext.disk_length + Megabyte]
      BY DEF GeometryExAnswer, Fixed
    <3>4. Megabyte \in Nat
      BY DEF Megabyte
    <3>5. ext.disk_length \in Nat
      BY DEF IndInv, TypeInv, Extensions
    <3> QED BY <3>2, <3>3, <3>4, <3>5
  <2>4. ASSUME Succeeded({"LENGTH_INFO", "PARTITION_INFO", "PARTITION_INFO_EX", "DRIVE_LAYOUT",
                          "DISK_EXTENTS"})
        PROVE  answer.result.reply.length = req.disk_length
    <3>1. /\ c \in {"LENGTH_INFO", "PARTITION_INFO", "PARTITION_INFO_EX", "DRIVE_LAYOUT",
                         "DISK_EXTENTS"}
          /\ ext.disk_length = req.disk_length
          /\ answer.result = Answer(ext, r) /\ r.out_len \in Nat
          /\ answer.result.status = "STATUS_SUCCESS"
      BY <2>1, <2>4
    <3>3. Answer(ext, r).status = "STATUS_SUCCESS"
      BY <3>1
    <3>2. \/ answer.result.reply = [offset |-> Megabyte, length |-> ext.disk_length]
          \/ answer.result.reply = [length |-> ext.disk_length]
          \/ answer.result.reply = [start |-> 0, length |-> ext.disk_length]
      BY <2>5, <3>1, <3>3, Replies
    <3> QED BY <3>1, <3>2
  <2> QED BY <2>2, <2>3, <2>4 DEF SizesAgree
<1> QED BY <1>1, Inductive, PTL

=============================================================================
