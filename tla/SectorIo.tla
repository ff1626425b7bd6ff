------------------------------- MODULE SectorIo -------------------------------
(***************************************************************************)
(* The sector arithmetic and the XTS loops of vcrypt-driver-core's         *)
(* sector_io.rs, as operators.                                             *)
(*                                                                         *)
(* Abstractions.  A ciphertext sector is the pair of the tweak it was      *)
(* encrypted under and its plaintext; read as bytes, or decrypted under    *)
(* another tweak, it is Noise.  Offsets that wrap around 2^64 are left     *)
(* out: DataOffset is a multiple of the unit, so aligning down never goes  *)
(* below it.                                                               *)
(***************************************************************************)
EXTENDS Integers, Sequences

CONSTANTS
  Unit,         \* ENCRYPTION_DATA_UNIT_SIZE, in bytes
  DataOffset,   \* vol_data_area_offset, in bytes
  DiskLength    \* disk_length, in bytes

ASSUME UnitAssumption == Unit \in Nat \ {0}
ASSUME OffsetAssumption == DataOffset \in Nat /\ DataOffset % Unit = 0
ASSUME LengthAssumption == DiskLength \in Nat

Noise == "noise"

\* Variant: only where the request begins is compared with the length.
InBoundsStartOnly(off, len) == off <= DiskLength

InBounds(off, len) == off + len <= DiskLength

\* Variant: the end is aligned to the next boundary even when it is on one.
ComputeParamsLongEnd(off, len) ==
  LET first == (DataOffset + off) \div Unit
      last == (DataOffset + off + len) \div Unit
  IN  [sector |-> first, count |-> last - first + 1,
       userOff |-> DataOffset + off - first * Unit,
       tweak |-> (first * Unit - DataOffset) \div Unit]

\* compute_sector_io_params once the bounds are checked: the first host
\* sector and the number of sectors, where the user's bytes begin in the
\* buffer, and the tweak of the first sector (first_data_unit_no is 0).
ComputeParams(off, len) ==
  LET first == (DataOffset + off) \div Unit
      end == (DataOffset + off + len + Unit - 1) \div Unit
  IN  [sector |-> first, count |-> end - first,
       userOff |-> DataOffset + off - first * Unit,
       tweak |-> (first * Unit - DataOffset) \div Unit]

EncryptSector(tweak, plain) == [tweak |-> tweak, plain |-> plain]

DecryptSector(tweak, sector) ==
  IF sector.tweak = tweak THEN sector.plain ELSE [b \in 0 .. Unit - 1 |-> Noise]

\* Sector k of a buffer is handled under tweak + (k - 1).
EncryptSectors(p, plains) ==
  [k \in 1 .. p.count |-> EncryptSector(p.tweak + k - 1, plains[k])]

\* Variant: every sector of a request is decrypted under the first tweak.
DecryptSectorsFixedTweak(p, sectors) ==
  [k \in 1 .. p.count |-> DecryptSector(p.tweak, sectors[k])]

DecryptSectors(p, sectors) ==
  [k \in 1 .. p.count |-> DecryptSector(p.tweak + k - 1, sectors[k])]

=============================================================================
