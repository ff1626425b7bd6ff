-------------------------- MODULE KernelMountProofs ---------------------------
(***************************************************************************)
(* Proofs about KernelMount, for every request and every path of 1 to 259  *)
(* characters.  The offsets of the packed struct are computed once         *)
(* (OffsetIs, by induction on the field), so byte k of field i is where    *)
(* the command put it (RequestByteIs).                                     *)
(*                                                                         *)
(* The worker looks MountAt bytes further on, so that the path it extracts *)
(* begins with the seventh character of the one asked for, or is empty:    *)
(* no mount succeeds (NoMountSucceeds).  Nothing else is wrong with the    *)
(* wire format: from the bytes of the request itself, the worker's reader  *)
(* gets back all that was asked (RequestReadBack).                         *)
(***************************************************************************)
EXTENDS KernelMount, TLAPS, WellFoundedInduction

-----------------------------------------------------------------------------
\* The layout

\* Where the fields of the packed struct begin, and its size
Offsets ==
  <<0, 4, 5, 133, 134, 135, 136, 137, 265, 266, 267, 271, 279, 283, 287, 807, 811, 815, 823,
    827, 1019, 1027, 1028, 1032, 1098, 1102, 1106, 1110>>

\* The sizes of the fields
Sizes ==
  <<4, 1, 128, 1, 1, 1, 1, 128, 1, 1, 4, 8, 4, 4, 520, 4, 4, 8, 4, 192, 8, 1, 4, 66, 4, 4, 4>>

\* They are the sizes in MountStruct.
LEMMA StructIs ==
  /\ Len(MountStruct) = 27 /\ DOMAIN MountStruct = 1 .. 27
  /\ \A i \in 1 .. 27 : MountStruct[i][2] = Sizes[i]
BY DEF MountStruct, Sizes

\* A field begins where the one before it ends.
LEMMA OffsetsFit ==
  /\ Offsets[1] = 0 /\ DOMAIN Offsets = 1 .. 28
  /\ \A i \in 1 .. 28 : Offsets[i] \in Nat
  /\ \A i \in 1 .. 27 : Sizes[i] \in Nat /\ Offsets[i + 1] = Offsets[i] + Sizes[i]
BY DEF Offsets, Sizes

\* The recursive definition gives the offsets.
LEMMA OffsetIs ==
  ASSUME NEW i \in 1 .. 28
  PROVE  OffsetOf[i] = Offsets[i]
<1> DEFINE Body(g, k) == IF k = 1 THEN 0 ELSE g[k - 1] + MountStruct[k - 1][2]
           Solves(g) == g = [k \in 1 .. 28 |-> Body(g, k)]
           h == [k \in 1 .. 28 |-> Offsets[k]]
           R == OpToRel(<, Nat)
           T == {k \in 1 .. 28 : OffsetOf[k] # Offsets[k]}
<1>1. OffsetOf = CHOOSE g : Solves(g)
  BY StructIs DEF OffsetOf
<1>2. ASSUME NEW k \in 1 .. 28 PROVE h[k] = Body(h, k)
  <2>1. CASE k = 1
    BY <2>1, OffsetsFit
  <2>2. CASE k # 1
    <3>1. k - 1 \in 1 .. 27 /\ (k - 1) + 1 = k
      BY <1>2, <2>2
    <3>2. Offsets[k] = Offsets[k - 1] + Sizes[k - 1]
      BY <3>1, OffsetsFit
    <3> QED BY <2>2, <3>1, <3>2, StructIs
  <2> QED BY <2>1, <2>2
<1>3. Solves(h)
  <2> HIDE DEF Body
  <2> QED BY <1>2
<1>4. Solves(OffsetOf)
  <2> HIDE DEF Solves, h
  <2> QED BY <1>1, <1>3
<1>5. \A k \in 1 .. 28 : OffsetOf[k] = Body(OffsetOf, k)
  <2> HIDE DEF Body
  <2> QED BY <1>4
<1>6. SUFFICES ASSUME T # {} PROVE FALSE
  OBVIOUS
<1>7. \A x, y \in Nat : x < y => <<x, y>> \in R
  BY DEF OpToRel
<1>8. IsWellFoundedOn(R, Nat)
  BY NatLessThanWellFounded
<1> HIDE DEF R
<1>9. PICK k \in T : \A y \in T : ~(<<y, k>> \in R)
  <2>1. T \in SUBSET Nat
    OBVIOUS
  <2> HIDE DEF T
  <2> QED BY <1>6, <1>8, <2>1, WFMin
<1>10. k \in 1 .. 28 /\ OffsetOf[k] # Offsets[k]
  BY <1>9
<1>11. k # 1
  BY <1>5, <1>10, OffsetsFit
<1>12. k - 1 \in 1 .. 27 /\ k - 1 \in Nat /\ k \in Nat /\ k - 1 < k /\ (k - 1) + 1 = k
  BY <1>10, <1>11
<1>13. OffsetOf[k - 1] = Offsets[k - 1]
  <2>1. k - 1 \notin T
    BY <1>7, <1>9, <1>12
  <2> QED BY <1>12, <2>1
<1>14. OffsetOf[k] = Offsets[k - 1] + Sizes[k - 1]
  BY <1>5, <1>10, <1>11, <1>12, <1>13, StructIs
<1> QED BY <1>10, <1>12, <1>14, OffsetsFit

\* A later field begins later.
LEMMA Increasing ==
  ASSUME NEW i \in 1 .. 28, NEW j \in 1 .. 28, i <= j
  PROVE  Offsets[i] <= Offsets[j]
BY DEF Offsets

\* The size of the packed struct
LEMMA SizeIs == MountSize = 1110
BY StructIs, OffsetIs DEF MountSize, Offsets

\* Byte k of field i of the request is byte k of what that field was filled with.
LEMMA RequestByteIs ==
  ASSUME NEW r, NEW i \in 1 .. 27, NEW k \in Nat, k < Sizes[i]
  PROVE  RequestByte(r, Offsets[i] + k) = FieldByte(r, MountStruct[i][1], k)
<1> DEFINE o == Offsets[i] + k
           In(j) == OffsetOf[j] <= o /\ o < OffsetOf[j + 1]
<1>1. Offsets[i] \in Nat /\ Sizes[i] \in Nat /\ Offsets[i + 1] = Offsets[i] + Sizes[i]
  BY OffsetsFit
<1>2. o \in Nat /\ Offsets[i] <= o /\ o < Offsets[i + 1]
  BY <1>1
<1>3. i + 1 <= 28 /\ Offsets[28] = 1110 /\ i + 1 \in 1 .. 28
  BY DEF Offsets
<1>4. Offsets[i + 1] <= 1110 /\ Offsets[i + 1] \in Nat
  BY <1>3, Increasing, OffsetsFit
<1>5. o < 1110
  BY <1>2, <1>4
<1> HIDE DEF o
<1>6. \A j \in 1 .. 27 : j \in 1 .. 28 /\ j + 1 \in 1 .. 28
  OBVIOUS
<1>7. \A j \in 1 .. 27 : In(j) <=> Offsets[j] <= o /\ o < Offsets[j + 1]
  BY <1>6, OffsetIs
<1>8. ASSUME NEW j \in 1 .. 27, In(j) PROVE j = i
  <2>1. Offsets[j] <= o /\ o < Offsets[j + 1]
    BY <1>7, <1>8
  <2>2. Offsets[j] \in Nat /\ Offsets[j + 1] \in Nat
    BY <1>6, OffsetsFit
  <2>3. j < i => Offsets[j + 1] <= Offsets[i]
    BY <1>6, Increasing
  <2>4. i < j => Offsets[i + 1] <= Offsets[j]
    BY <1>6, Increasing
  <2>5. ~(j < i) /\ ~(i < j)
    BY <1>1, <1>2, <1>4, <2>1, <2>2, <2>3, <2>4
  <2> QED BY <2>5
<1>9. In(i)
  BY <1>2, <1>7
<1> HIDE DEF In
<1>10. (CHOOSE j \in DOMAIN MountStruct : In(j)) = i
  BY <1>8, <1>9, StructIs
<1>11. OffsetOf[i] = Offsets[i] /\ o - Offsets[i] = k
  BY <1>1, <1>6, OffsetIs DEF o
<1>12. RequestByte(r, o) = FieldByte(r, MountStruct[i][1], k)
  <2>1. ~(o >= MountSize)
    BY <1>2, <1>5, SizeIs
  <2>2. RequestByte(r, o) =
          LET j == CHOOSE j \in DOMAIN MountStruct : In(j)
          IN  FieldByte(r, MountStruct[j][1], o - OffsetOf[j])
    BY <2>1 DEF RequestByte, In
  <2> QED BY <1>10, <1>11, <2>2
<1> QED BY <1>12 DEF o

\* Where the fields that the worker reads are
LEMMA IndexIs ==
  /\ Index("mount_read_only") = 4 /\ Index("mount_removable") = 5
  /\ Index("preserve_timestamps") = 10 /\ Index("wsz_volume") = 15
  /\ Index("n_dos_drive_no") = 16 /\ Index("bytes_per_sector") = 17
  /\ Index("disk_length") = 18 /\ Index("ea") = 19 /\ Index("master_key") = 20
  /\ Index("data_offset") = 21
<1>1. Index("mount_read_only") = 4 BY DEF Index, MountStruct
<1>2. Index("mount_removable") = 5 BY DEF Index, MountStruct
<1>3. Index("preserve_timestamps") = 10 BY DEF Index, MountStruct
<1>4. Index("wsz_volume") = 15 BY DEF Index, MountStruct
<1>5. Index("n_dos_drive_no") = 16 BY DEF Index, MountStruct
<1>6. Index("bytes_per_sector") = 17 BY DEF Index, MountStruct
<1>7. Index("disk_length") = 18 BY DEF Index, MountStruct
<1>8. Index("ea") = 19 BY DEF Index, MountStruct
<1>9. Index("master_key") = 20 BY DEF Index, MountStruct
<1>10. Index("data_offset") = 21 BY DEF Index, MountStruct
<1> QED BY <1>1, <1>2, <1>3, <1>4, <1>5, <1>6, <1>7, <1>8, <1>9, <1>10

\* The bytes of a field are found from its offset on.
LEMMA ReadIs ==
  ASSUME NEW bytes, NEW field, NEW i \in 1 .. 27, Index(field) = i
  PROVE  Read(bytes, field) = [k \in 0 .. Sizes[i] - 1 |-> bytes[Offsets[i] + k]]
<1>1. OffsetOf[i] = Offsets[i] /\ MountStruct[i][2] = Sizes[i]
  <2>1. i \in 1 .. 28
    OBVIOUS
  <2> QED BY <2>1, OffsetIs, StructIs
<1>2. Read(bytes, field) = [k \in 0 .. MountStruct[i][2] - 1 |-> bytes[OffsetOf[i] + k]]
  BY DEF Read
<1> QED BY <1>1, <1>2

-----------------------------------------------------------------------------
\* What becomes of a mount today

\* The bytes in which the worker looks for its request
Block(r) == [o \in 0 .. MountSize - 1 |-> BlockByte(r, MountAt + o)]

\* The field that the worker takes for the path begins with byte 12 of the path.
LEMMA PathIsShifted ==
  ASSUME NEW r
  PROVE  Read(Block(r), "wsz_volume")[0] = FieldByte(r, "wsz_volume", 12)
<1>1. Offsets[15] = 287 /\ Sizes[15] = 520 /\ MountStruct[15][1] = "wsz_volume"
  BY DEF Offsets, Sizes, MountStruct
<1>2. Read(Block(r), "wsz_volume") = [k \in 0 .. 519 |-> Block(r)[287 + k]]
  <2>1. Index("wsz_volume") = 15 /\ 15 \in 1 .. 27
    BY IndexIs
  <2>2. Read(Block(r), "wsz_volume") =
          [k \in 0 .. Sizes[15] - 1 |-> Block(r)[Offsets[15] + k]]
    BY <2>1, ReadIs
  <2> QED BY <1>1, <2>2
<1>3. Read(Block(r), "wsz_volume")[0] = Block(r)[287]
  BY <1>2
<1>4. Block(r)[287] = RequestByte(r, 299)
  BY SizeIs DEF Block, BlockByte, MountAt
<1>5. RequestByte(r, 287 + 12) = FieldByte(r, "wsz_volume", 12)
  <2>1. 12 \in Nat /\ 12 < Sizes[15] /\ 15 \in 1 .. 27
    BY <1>1
  <2>2. RequestByte(r, Offsets[15] + 12) = FieldByte(r, MountStruct[15][1], 12)
    BY <2>1, RequestByteIs
  <2> QED BY <1>1, <2>2
<1> QED BY <1>3, <1>4, <1>5

\* The path that the worker extracts does not begin with the first character
\* of the path asked for.
LEMMA WrongPath ==
  ASSUME NEW r, PathLength \in 1 .. 259
  PROVE  ~CanOpen(Extract(Block(r)))
<1> DEFINE bytes == Read(Block(r), "wsz_volume")
           asked == [c \in 1 .. PathLength |-> <<PathByte(2 * c - 2), 0>>]
           ends == {c \in 0 .. 259 : bytes[2 * c] = 0 /\ bytes[2 * c + 1] = 0}
           len == CHOOSE c \in ends \cup {260} : \A d \in ends : c <= d
           found == [c \in 1 .. len |-> <<bytes[2 * c - 2], bytes[2 * c - 1]>>]
<1>1. bytes[0] \in {2012, 0}
  BY PathIsShifted DEF FieldByte, PathByte
<1>2. asked[1] = <<2000, 0>> /\ 1 \in DOMAIN asked
  BY DEF PathByte
<1>3. Extract(Block(r)).path = found
  BY DEF Extract, PathOf
<1> HIDE DEF bytes
<1>4. ASSUME found = asked PROVE FALSE
  <2>1. 1 \in 1 .. len
    <3> HIDE DEF asked, len
    <3>1. DOMAIN found = DOMAIN asked
      BY <1>4
    <3>2. DOMAIN found = 1 .. len
      OBVIOUS
    <3> HIDE DEF found
    <3> QED BY <1>2, <3>1, <3>2
  <2>2. found[1] = <<bytes[0], bytes[1]>>
    <3> HIDE DEF len
    <3> QED BY <2>1
  <2> HIDE DEF found, asked
  <2>3. <<bytes[0], bytes[1]>> = <<2000, 0>>
    BY <1>2, <1>4, <2>2
  <2> QED BY <1>1, <2>3
<1> QED BY <1>3, <1>4 DEF CanOpen

\* No device comes up, and the worker never has what it needs to open the volume.
NothingMounts == slots = {} /\ (pc = "opening" => ~CanOpen(args))

\* With the block that mount_device and tc_start_volume_thread prepare, no mount
\* request ever brings up a device, whatever drive, cipher and path it names:
\* the worker reads the path MountAt bytes too far on, tc_open_volume gets a
\* path other than the one asked for and the mount fails.
THEOREM NoMountSucceeds == PathLength \in 1 .. 259 => (Spec => []NothingMounts)
<1>1. Init => NothingMounts
  BY DEF Init, NothingMounts
<1>2. ASSUME PathLength \in 1 .. 259, NothingMounts, [Next]_vars PROVE NothingMounts'
  <2>1. CASE UNCHANGED vars
    BY <1>2, <2>1 DEF NothingMounts, vars, CanOpen
  <2>2. ASSUME NEW kind \in {"mount", "unmount"}, NEW r \in Requests, Command(kind, r)
        PROVE  NothingMounts'
    BY <1>2, <2>2 DEF NothingMounts, Command, Report
  <2>3. CASE HandleMountVolume
    BY <1>2, <2>3 DEF NothingMounts, HandleMountVolume, Complete, Report
  <2>4. CASE MountDevice
    BY <1>2, <2>4 DEF NothingMounts, MountDevice, Complete, Report
  <2>5. CASE VolumeThreadProc
    <3>1. args' = Extract(Block(req)) /\ slots' = slots
      BY <2>5 DEF VolumeThreadProc, Block
    <3>2. ~CanOpen(Extract(Block(req)))
      BY <1>2, WrongPath
    <3>3. (~CanOpen(args))'
      BY <3>1, <3>2 DEF CanOpen
    <3> QED BY <1>2, <3>1, <3>3 DEF NothingMounts
  <2>6. CASE MountDeviceEnds
    BY <1>2, <2>6 DEF NothingMounts, MountDeviceEnds, Complete, Report
  <2>7. CASE HandleUnmountVolume
    BY <1>2, <2>7 DEF NothingMounts, HandleUnmountVolume, Complete, Report
  <2> QED BY <1>2, <2>1, <2>2, <2>3, <2>4, <2>5, <2>6, <2>7 DEF Next
<1>3. SUFFICES ASSUME PathLength \in 1 .. 259 PROVE Spec => []NothingMounts
  OBVIOUS
<1>4. NothingMounts /\ [Next]_vars => NothingMounts'
  BY <1>2, <1>3
<1> QED BY <1>1, <1>4, PTL DEF Spec

-----------------------------------------------------------------------------
\* What becomes of a request that arrives where the worker looks for it

\* The bytes of the request itself
Wire(r) == [o \in 0 .. MountSize - 1 |-> RequestByte(r, o)]

\* 2^24: the model's numbers are below it.
Limit == 16777216

\* A request that the command may send
Sendable(r) ==
  /\ r.drive \in 0 .. MAX_DRIVE - 1 /\ r.cipher \in CipherTypes /\ r.read_only \in BOOLEAN
  /\ r.data_offset \in Nat /\ r.data_offset < Limit
  /\ r.disk_length \in Nat /\ r.disk_length < Limit

\* What the command asks the driver for
Asked(r) ==
  [drive_no |-> r.drive,
   path |-> [c \in 1 .. PathLength |-> <<PathByte(2 * c - 2), 0>>],
   cipher |-> r.cipher,
   key |-> [k \in 1 .. 2 * KeySize(r.cipher) |-> KeyByte(k - 1)],
   data_offset |-> r.data_offset, disk_length |-> r.disk_length, bytes_per_sector |-> 512,
   read_only |-> r.read_only, removable |-> TRUE, preserve_ts |-> FALSE]

\* Every byte of a field lies in the struct.
LEMMA InStruct ==
  ASSUME NEW i \in 1 .. 27, NEW k \in Nat, k < Sizes[i]
  PROVE  Offsets[i] + k \in 0 .. MountSize - 1
<1> DEFINE o == Offsets[i] + k
<1>1. Offsets[i] \in Nat /\ Sizes[i] \in Nat /\ Offsets[i + 1] = Offsets[i] + Sizes[i]
  BY OffsetsFit
<1>2. o \in Nat /\ o < Offsets[i + 1]
  BY <1>1
<1>3. Offsets[28] = 1110 /\ i + 1 \in 1 .. 28 /\ 28 \in 1 .. 28 /\ i + 1 <= 28
  BY DEF Offsets
<1>4. Offsets[i + 1] <= 1110 /\ Offsets[i + 1] \in Nat
  BY <1>3, Increasing, OffsetsFit
<1> HIDE DEF o
<1>5. o \in 0 .. MountSize - 1
  BY <1>2, <1>4, SizeIs
<1> QED BY <1>5 DEF o

\* A field is read with the bytes it has in the struct.
LEMMA FieldDomain ==
  ASSUME NEW r, NEW field, Index(field) \in 1 .. 27
  PROVE  DOMAIN Read(Wire(r), field) = 0 .. Sizes[Index(field)] - 1
BY StructIs DEF Read

\* They are the ones that the field was filled with.
LEMMA FieldIs ==
  ASSUME NEW r, NEW field, NEW i \in 1 .. 27, Index(field) = i, MountStruct[i][1] = field,
         NEW k \in Nat, k < Sizes[i]
  PROVE  Read(Wire(r), field)[k] = FieldByte(r, field, k)
<1>1. OffsetOf[i] = Offsets[i] /\ MountStruct[i][2] = Sizes[i] /\ Sizes[i] \in Nat
  <2>1. i \in 1 .. 28
    OBVIOUS
  <2> QED BY <2>1, OffsetIs, StructIs, OffsetsFit
<1>2. Read(Wire(r), field) = [j \in 0 .. MountStruct[i][2] - 1 |-> Wire(r)[OffsetOf[i] + j]]
  BY DEF Read
<1>3. k \in 0 .. Sizes[i] - 1
  BY <1>1
<1>4. Read(Wire(r), field)[k] = Wire(r)[Offsets[i] + k]
  BY <1>1, <1>2, <1>3
<1>5. Offsets[i] + k \in 0 .. MountSize - 1
  BY InStruct
<1>6. Wire(r)[Offsets[i] + k] = RequestByte(r, Offsets[i] + k)
  BY <1>5 DEF Wire
<1>7. RequestByte(r, Offsets[i] + k) = FieldByte(r, MountStruct[i][1], k)
  BY RequestByteIs
<1> QED BY <1>4, <1>6, <1>7

\* The higher bytes of a number below 2^24
LEMMA LittleIsZero ==
  ASSUME NEW v \in Nat, v < Limit, NEW k \in 3 .. 7
  PROVE  Little(v, k) = 0
<1>1. (v \div 16777216) % 256 = 0
  BY SMT DEF Limit
<1>2. Little(v, 3) = 0
  BY <1>1, SMT DEF Little
<1>3. k # 3 => Little(v, k) = 0
  BY SMT DEF Little
<1> QED BY <1>2, <1>3, SMT

\* A number is read back from its bytes.
LEMMA NumberIs ==
  ASSUME NEW v \in Nat, v < Limit, NEW n \in {4, 8}, NEW b, DOMAIN b = 0 .. n - 1,
         \A k \in 0 .. n - 1 : b[k] = Little(v, k)
  PROVE  Number(b) = v
<1> DEFINE lo == v % 256
           mid == (v \div 256) % 256
           hi == (v \div 65536) % 256
<1>1. lo \in 0 .. 255 /\ mid \in 0 .. 255 /\ hi \in 0 .. 255
  BY SMT
<1>2. v = lo + 256 * mid + 65536 * hi
  BY SMT DEF Limit
<1>3. Little(v, 0) = lo /\ Little(v, 1) = mid /\ Little(v, 2) = hi
  <2>1. Little(v, 0) = lo
    BY SMT DEF Little
  <2>2. Little(v, 1) = mid
    BY SMT DEF Little
  <2>3. Little(v, 2) = hi
    BY SMT DEF Little
  <2> HIDE DEF lo, mid, hi
  <2> QED BY <2>1, <2>2, <2>3
<1> HIDE DEF lo, mid, hi
<1>4. DOMAIN b = 0 .. n - 1 /\ \A k \in 0 .. n - 1 : b[k] = Little(v, k)
  OBVIOUS
<1>5. 0 \in 0 .. n - 1 /\ 1 \in 0 .. n - 1 /\ 2 \in 0 .. n - 1
  OBVIOUS
<1>6. b[0] = lo /\ b[1] = mid /\ b[2] = hi
  BY <1>3, <1>4, <1>5
<1>7. \A k \in 0 .. n - 1 : k \in {0, 1, 2} \/ k \in 3 .. 7
  OBVIOUS
<1>8. \A k \in 0 .. n - 1 : k \in 3 .. 7 => b[k] = 0
  BY <1>4, LittleIsZero
<1>9. ASSUME NEW k \in DOMAIN b PROVE ~(b[k] > 255 \/ (k > 2 /\ b[k] # 0))
  <2>1. CASE k \in {0, 1, 2}
    <3>1. ~(k > 2)
      BY <2>1
    <3>2. b[k] \in 0 .. 255
      <4>1. k = 0 => b[k] \in 0 .. 255
        BY <1>1, <1>6, Zenon
      <4>2. k = 1 => b[k] \in 0 .. 255
        BY <1>1, <1>6, Zenon
      <4>3. k = 2 => b[k] \in 0 .. 255
        BY <1>1, <1>6, Zenon
      <4> QED BY <2>1, <4>1, <4>2, <4>3
    <3>3. \A x \in 0 .. 255 : ~(x > 255)
      OBVIOUS
    <3> QED BY <3>1, <3>2, <3>3
  <2>2. CASE k \in 3 .. 7
    BY <1>4, <1>8, <1>9, <2>2
  <2> QED BY <1>4, <1>7, <1>9, <2>1, <2>2
<1>10. Number(b) = b[0] + 256 * b[1] + 65536 * b[2]
  BY <1>9 DEF Number
<1> QED BY <1>1, <1>2, <1>6, <1>10

\* The path ends before the first zero character.
LEMMA PathIs ==
  ASSUME NEW bytes, PathLength \in 1 .. 259,
         \A k \in 0 .. 519 :
           bytes[k] = IF k % 2 = 0 /\ k < 2 * PathLength THEN PathByte(k) ELSE 0
  PROVE  PathOf(bytes) = [c \in 1 .. PathLength |-> <<PathByte(2 * c - 2), 0>>]
<1> DEFINE ends == {c \in 0 .. 259 : bytes[2 * c] = 0 /\ bytes[2 * c + 1] = 0}
           len == CHOOSE c \in ends \cup {260} : \A d \in ends : c <= d
<1>1. ASSUME NEW c \in 0 .. 259 PROVE c \in ends <=> c >= PathLength
  <2>1. 2 * c \in 0 .. 519 /\ 2 * c + 1 \in 0 .. 519 /\ (2 * c) % 2 = 0 /\ (2 * c + 1) % 2 = 1
    OBVIOUS
  <2>2. bytes[2 * c] = IF c < PathLength THEN PathByte(2 * c) ELSE 0
    BY <2>1
  <2>3. bytes[2 * c + 1] = 0
    BY <2>1
  <2> QED BY <2>2, <2>3 DEF PathByte
<1>2. PathLength \in ends /\ \A d \in ends : PathLength <= d
  BY <1>1
<1>3. len = PathLength
  <2>1. \A c \in ends \cup {260} : (\A d \in ends : c <= d) => c = PathLength
    BY <1>1, <1>2
  <2> HIDE DEF ends
  <2> QED BY <1>2, <2>1
<1>4. PathOf(bytes) = [c \in 1 .. len |-> <<bytes[2 * c - 2], bytes[2 * c - 1]>>]
  BY DEF PathOf
<1>5. ASSUME NEW c \in 1 .. PathLength
      PROVE  bytes[2 * c - 2] = PathByte(2 * c - 2) /\ bytes[2 * c - 1] = 0
  <2>1. /\ 2 * c - 2 \in 0 .. 519 /\ 2 * c - 1 \in 0 .. 519
        /\ (2 * c - 2) % 2 = 0 /\ (2 * c - 1) % 2 = 1 /\ 2 * c - 2 < 2 * PathLength
    OBVIOUS
  <2> QED BY <2>1
<1> HIDE DEF len
<1> QED BY <1>3, <1>4, <1>5

\* The names of the ciphers
LEMMA CipherNames ==
  CipherTypes =
    {"Aes", "Serpent", "Twofish", "Camellia", "Kuznyechik", "AesTwofish",
     "AesTwofishSerpent", "SerpentAes", "SerpentTwofishAes", "TwofishSerpent",
     "CamelliaKuznyechik", "CamelliaSerpent", "KuznyechikAes",
     "KuznyechikSerpentCamellia", "KuznyechikTwofish"}
BY DEF CipherTypes, AllSupported

\* The id of a cipher leads back to it, and its keys fit the field.
LEMMA CipherIs ==
  ASSUME NEW c \in CipherTypes
  PROVE  /\ CipherTypeFromEa(CipherToEa[c]) = c /\ CipherToEa[c] \in 0 .. 26
         /\ c # "unknown" /\ KeySize(c) \in 32 .. 96
<1>1. CipherTypeFromEa(CipherToEa[c]) = c
  BY CipherNames DEF CipherTypeFromEa, CipherToEa, Singles, Cascades
<1>2. CipherToEa[c] \in 0 .. 26
  BY CipherNames DEF CipherToEa
<1>3. Len(VeracryptOrder[c]) \in 1 .. 3
  BY CipherNames DEF VeracryptOrder
<1>4. KeySize(c) \in 32 .. 96
  <2> DEFINE n == Len(VeracryptOrder[c])
  <2>1. KeySize(c) = 32 * n
    BY DEF KeySize, CipherCount
  <2>2. n \in 1 .. 3
    BY <1>3
  <2> HIDE DEF n
  <2> QED BY <2>1, <2>2
<1>5. c # "unknown"
  BY CipherNames
<1> QED BY <1>1, <1>2, <1>4, <1>5

\* A field that was filled with a number is read as that number.
LEMMA NumberField ==
  ASSUME NEW r, NEW field, NEW i \in 1 .. 27, Index(field) = i, MountStruct[i][1] = field,
         Sizes[i] \in {4, 8}, NEW v \in Nat, v < Limit,
         \A k \in 0 .. Sizes[i] - 1 : FieldByte(r, field, k) = Little(v, k)
  PROVE  Number(Read(Wire(r), field)) = v
<1> DEFINE b == Read(Wire(r), field)
           n == Sizes[i]
<1>1. DOMAIN b = 0 .. n - 1
  <2>1. Index(field) \in 1 .. 27 /\ Index(field) = i
    OBVIOUS
  <2>2. DOMAIN Read(Wire(r), field) = 0 .. Sizes[Index(field)] - 1
    BY <2>1, FieldDomain, Zenon
  <2> QED BY <2>1, <2>2, Zenon
<1>2. ASSUME NEW k \in 0 .. n - 1 PROVE b[k] = Little(v, k)
  <2>1. k \in Nat /\ k < Sizes[i]
    BY <1>2
  <2> QED BY <2>1, <1>2, FieldIs
<1>3. n \in {4, 8}
  OBVIOUS
<1> HIDE DEF b, n
<1>4. Number(b) = v
  BY <1>1, <1>2, <1>3, NumberIs
<1> QED BY <1>4 DEF b

\* The numbers of a request, as the worker reads them
LEMMA NumbersAre ==
  ASSUME NEW r, Sendable(r)
  PROVE  /\ Number(Read(Wire(r), "n_dos_drive_no")) = r.drive
         /\ Number(Read(Wire(r), "bytes_per_sector")) = 512
         /\ Number(Read(Wire(r), "disk_length")) = r.disk_length
         /\ Number(Read(Wire(r), "data_offset")) = r.data_offset
         /\ Number(Read(Wire(r), "ea")) = CipherToEa[r.cipher]
<1>1. /\ r.drive \in Nat /\ r.drive < Limit
      /\ r.disk_length \in Nat /\ r.disk_length < Limit
      /\ r.data_offset \in Nat /\ r.data_offset < Limit
  BY DEF Sendable, MAX_DRIVE, Limit
<1>2. CipherToEa[r.cipher] \in Nat /\ CipherToEa[r.cipher] < Limit
  BY CipherIs DEF Sendable, Limit
<1>3. Number(Read(Wire(r), "n_dos_drive_no")) = r.drive
  <2>1. 16 \in 1 .. 27 /\ Index("n_dos_drive_no") = 16
    BY IndexIs
  <2>2. MountStruct[16][1] = "n_dos_drive_no" /\ Sizes[16] \in {4, 8}
    BY DEF MountStruct, Sizes
  <2>3. \A k \in 0 .. Sizes[16] - 1 : FieldByte(r, "n_dos_drive_no", k) = Little(r.drive, k)
    BY SMT DEF FieldByte
  <2> QED BY <1>1, <2>1, <2>2, <2>3, NumberField
<1>4. Number(Read(Wire(r), "bytes_per_sector")) = 512
  <2>1. 17 \in 1 .. 27 /\ Index("bytes_per_sector") = 17
    BY IndexIs
  <2>2. MountStruct[17][1] = "bytes_per_sector" /\ Sizes[17] \in {4, 8}
    BY DEF MountStruct, Sizes
  <2>3. \A k \in 0 .. Sizes[17] - 1 : FieldByte(r, "bytes_per_sector", k) = Little(512, k)
    BY SMT DEF FieldByte
  <2>4. 512 \in Nat /\ 512 < Limit
    BY DEF Limit
  <2> QED BY <2>1, <2>2, <2>3, <2>4, NumberField
<1>5. Number(Read(Wire(r), "disk_length")) = r.disk_length
  <2>1. 18 \in 1 .. 27 /\ Index("disk_length") = 18
    BY IndexIs
  <2>2. MountStruct[18][1] = "disk_length" /\ Sizes[18] \in {4, 8}
    BY DEF MountStruct, Sizes
  <2>3. \A k \in 0 .. Sizes[18] - 1 : FieldByte(r, "disk_length", k) = Little(r.disk_length, k)
    BY SMT DEF FieldByte
  <2> QED BY <1>1, <2>1, <2>2, <2>3, NumberField
<1>6. Number(Read(Wire(r), "data_offset")) = r.data_offset
  <2>1. 21 \in 1 .. 27 /\ Index("data_offset") = 21
    BY IndexIs
  <2>2. MountStruct[21][1] = "data_offset" /\ Sizes[21] \in {4, 8}
    BY DEF MountStruct, Sizes
  <2>3. \A k \in 0 .. Sizes[21] - 1 : FieldByte(r, "data_offset", k) = Little(r.data_offset, k)
    BY SMT DEF FieldByte
  <2> QED BY <1>1, <2>1, <2>2, <2>3, NumberField
<1>7. Number(Read(Wire(r), "ea")) = CipherToEa[r.cipher]
  <2>1. 19 \in 1 .. 27 /\ Index("ea") = 19
    BY IndexIs
  <2>2. MountStruct[19][1] = "ea" /\ Sizes[19] \in {4, 8}
    BY DEF MountStruct, Sizes
  <2>3. \A k \in 0 .. Sizes[19] - 1 : FieldByte(r, "ea", k) = Little(CipherToEa[r.cipher], k)
    BY SMT DEF FieldByte
  <2> QED BY <1>2, <2>1, <2>2, <2>3, NumberField
<1> QED BY <1>3, <1>4, <1>5, <1>6, <1>7

\* The flags of a request, as the worker reads them
LEMMA FlagsAre ==
  ASSUME NEW r, Sendable(r)
  PROVE  /\ (Wire(r)[OffsetOf[Index("mount_read_only")]] # 0) = r.read_only
         /\ (Wire(r)[OffsetOf[Index("mount_removable")]] # 0) = TRUE
         /\ (Wire(r)[OffsetOf[Index("preserve_timestamps")]] # 0) = FALSE
<1>1. ASSUME NEW i \in {4, 5, 10}
      PROVE  Wire(r)[OffsetOf[i]] = FieldByte(r, MountStruct[i][1], 0)
  <2>1. i \in 1 .. 27 /\ i \in 1 .. 28
    BY <1>1
  <2>2. Sizes[i] = 1 /\ Offsets[i] \in Nat
    BY <1>1 DEF Sizes, Offsets
  <2>3. 0 \in Nat /\ 0 < Sizes[i] /\ Offsets[i] + 0 = Offsets[i]
    BY <2>2
  <2>4. Offsets[i] + 0 \in 0 .. MountSize - 1
    BY <2>1, <2>3, InStruct
  <2>5. RequestByte(r, Offsets[i] + 0) = FieldByte(r, MountStruct[i][1], 0)
    BY <2>1, <2>3, RequestByteIs
  <2>6. OffsetOf[i] = Offsets[i]
    BY <2>1, OffsetIs
  <2> QED BY <2>3, <2>4, <2>5, <2>6 DEF Wire
<1>2. /\ MountStruct[4][1] = "mount_read_only" /\ MountStruct[5][1] = "mount_removable"
      /\ MountStruct[10][1] = "preserve_timestamps"
  BY DEF MountStruct
<1>3. /\ Wire(r)[OffsetOf[4]] = FieldByte(r, "mount_read_only", 0)
      /\ Wire(r)[OffsetOf[5]] = FieldByte(r, "mount_removable", 0)
      /\ Wire(r)[OffsetOf[10]] = FieldByte(r, "preserve_timestamps", 0)
  BY <1>1, <1>2
<1>4. /\ FieldByte(r, "mount_read_only", 0) = IF r.read_only THEN 1 ELSE 0
      /\ FieldByte(r, "mount_removable", 0) = 1
      /\ FieldByte(r, "preserve_timestamps", 0) = 0
  BY DEF FieldByte
<1>5. r.read_only \in BOOLEAN
  BY DEF Sendable
<1> QED BY <1>3, <1>4, <1>5, IndexIs

\* The path of a request, as the worker reads it
LEMMA PathArrives ==
  ASSUME NEW r, PathLength \in 1 .. 259
  PROVE  PathOf(Read(Wire(r), "wsz_volume"))
           = [c \in 1 .. PathLength |-> <<PathByte(2 * c - 2), 0>>]
<1> DEFINE bytes == Read(Wire(r), "wsz_volume")
<1>1. MountStruct[15][1] = "wsz_volume" /\ Sizes[15] = 520
  BY DEF MountStruct, Sizes
<1>2. 15 \in 1 .. 27 /\ Index("wsz_volume") = 15
  BY IndexIs
<1>3. ASSUME NEW k \in 0 .. 519
      PROVE  bytes[k] = IF k % 2 = 0 /\ k < 2 * PathLength THEN PathByte(k) ELSE 0
  <2>1. k \in Nat /\ k < Sizes[15]
    BY <1>1
  <2>2. bytes[k] = FieldByte(r, "wsz_volume", k)
    BY <1>1, <1>2, <2>1, FieldIs
  <2> QED BY <2>2 DEF FieldByte
<1> HIDE DEF bytes
<1>4. PathOf(bytes) = [c \in 1 .. PathLength |-> <<PathByte(2 * c - 2), 0>>]
  BY <1>3, PathIs
<1> QED BY <1>4 DEF bytes

\* The key of a request, as the worker reads it
LEMMA KeyArrives ==
  ASSUME NEW r, Sendable(r)
  PROVE  [k \in 1 .. 2 * KeySize(r.cipher) |-> Read(Wire(r), "master_key")[k - 1]]
           = [k \in 1 .. 2 * KeySize(r.cipher) |-> KeyByte(k - 1)]
<1> DEFINE key == Read(Wire(r), "master_key")
           n == 2 * KeySize(r.cipher)
<1>1. MountStruct[20][1] = "master_key" /\ Sizes[20] = 192
  BY DEF MountStruct, Sizes
<1>2. 20 \in 1 .. 27 /\ Index("master_key") = 20
  BY IndexIs
<1>3. n \in 64 .. 192
  BY CipherIs DEF Sendable
<1>4. ASSUME NEW k \in 0 .. 191, k < n PROVE key[k] = KeyByte(k)
  <2>1. k \in Nat /\ k < Sizes[20]
    BY <1>1
  <2>2. key[k] = FieldByte(r, "master_key", k)
    BY <1>1, <1>2, <2>1, FieldIs
  <2> QED BY <1>4, <2>2 DEF FieldByte
<1> HIDE DEF key, n
<1>5. ASSUME NEW k \in 1 .. n PROVE key[k - 1] = KeyByte(k - 1)
  <2>1. k - 1 \in 0 .. 191 /\ k - 1 < n
    BY <1>3
  <2> QED BY <1>4, <2>1
<1>6. [k \in 1 .. n |-> key[k - 1]] = [k \in 1 .. n |-> KeyByte(k - 1)]
  BY <1>5
<1> QED BY <1>6 DEF key, n

\* Read where the command put it, a request is understood in full: the fields
\* that volume_thread_proc extracts, path, key, cipher and numbers included, are
\* the ones mount_via_driver filled in, for every cipher, and the volume can be
\* opened with them.
THEOREM RequestReadBack ==
  ASSUME NEW r, Sendable(r), PathLength \in 1 .. 259
  PROVE  Extract(Wire(r)) = Asked(r) /\ CanOpen(Extract(Wire(r)))
<1> DEFINE ea == Number(Read(Wire(r), "ea"))
           ct == CipherTypeFromEa(ea)
           n == IF ct = "unknown" THEN 0 ELSE 2 * KeySize(ct)
           Fields(drive, path, cipher, key, offset, length, sector, ro, removable, keep) ==
             [drive_no |-> drive, path |-> path, cipher |-> cipher, key |-> key,
              data_offset |-> offset, disk_length |-> length, bytes_per_sector |-> sector,
              read_only |-> ro, removable |-> removable, preserve_ts |-> keep]
           asked == [c \in 1 .. PathLength |-> <<PathByte(2 * c - 2), 0>>]
           key == [k \in 1 .. 2 * KeySize(r.cipher) |-> KeyByte(k - 1)]
           path == PathOf(Read(Wire(r), "wsz_volume"))
           found == [k \in 1 .. n |-> Read(Wire(r), "master_key")[k - 1]]
           ro == Wire(r)[OffsetOf[Index("mount_read_only")]] # 0
           rem == Wire(r)[OffsetOf[Index("mount_removable")]] # 0
           keep == Wire(r)[OffsetOf[Index("preserve_timestamps")]] # 0
           drive == Number(Read(Wire(r), "n_dos_drive_no"))
           sector == Number(Read(Wire(r), "bytes_per_sector"))
           length == Number(Read(Wire(r), "disk_length"))
           offset == Number(Read(Wire(r), "data_offset"))
<1>1. r.cipher \in CipherTypes
  BY DEF Sendable
<1>2. ct = r.cipher /\ ct # "unknown"
  BY <1>1, NumbersAre, CipherIs
<1>3. Extract(Wire(r)) =
        Fields(drive, path, ct, found, offset, length, sector, ro, rem, keep)
  BY DEF Extract
<1>4. Asked(r) = Fields(r.drive, asked, r.cipher, key, r.data_offset, r.disk_length, 512,
                        r.read_only, TRUE, FALSE)
  BY DEF Asked
<1>5. drive = r.drive /\ offset = r.data_offset /\ length = r.disk_length /\ sector = 512
  BY NumbersAre
<1>6. ro = r.read_only /\ rem = TRUE /\ keep = FALSE
  BY FlagsAre
<1>7. path = asked
  BY PathArrives
<1>8. found = key
  <2>1. n = 2 * KeySize(r.cipher)
    <3> HIDE DEF ct
    <3> QED BY <1>2
  <2>2. [k \in 1 .. 2 * KeySize(r.cipher) |-> Read(Wire(r), "master_key")[k - 1]] = key
    BY KeyArrives
  <2> HIDE DEF n, key
  <2> QED BY <2>1, <2>2
<1>9. Extract(Wire(r)) = Asked(r)
  <2> HIDE DEF Fields, ct, drive, path, found, offset, length, sector, ro, rem, keep, asked, key
  <2> QED BY <1>2, <1>3, <1>4, <1>5, <1>6, <1>7, <1>8
<1>10. CanOpen(Asked(r))
  BY <1>1, CipherIs DEF CanOpen, Asked
<1> QED BY <1>9, <1>10

=============================================================================
