-------------------------- MODULE EncryptedIoProofs ---------------------------
(***************************************************************************)
(* Proofs about EncryptedIo, for every sector size, data offset, disk      *)
(* length, and any number of requests in progress: the sector arithmetic   *)
(* stays inside the volume, and a pipeline that writes whole sectors is a  *)
(* VirtualDisk.                                                            *)
(***************************************************************************)
EXTENDS EncryptedIo, TLAPS

-----------------------------------------------------------------------------
\* Division by the size of a sector

\* The sector of a host byte
Sec(x) == x \div Unit

LEMMA SecOf ==
  ASSUME NEW x \in Nat
  PROVE  /\ Sec(x) \in Nat /\ x % Unit \in Bytes /\ x % Unit = x - Sec(x) * Unit
         /\ Sec(x) * Unit \in Nat /\ Sec(x) * Unit <= x /\ x < Sec(x) * Unit + Unit
<1>1. x \div Unit \in Nat /\ x % Unit \in 0 .. Unit - 1
  BY UnitAssumption
<1>2. x = Unit * (x \div Unit) + (x % Unit)
  BY UnitAssumption
<1>3. Unit * (x \div Unit) = (x \div Unit) * Unit
  BY <1>1, UnitAssumption
<1>4. Unit * (x \div Unit) \in Nat
  BY <1>1, UnitAssumption
<1> QED BY <1>1, <1>2, <1>3, <1>4, UnitAssumption DEF Sec, Bytes

LEMMA Product ==
  ASSUME NEW m \in Nat, NEW n \in Nat, m <= n
  PROVE  m * Unit \in Nat /\ n * Unit \in Nat /\ m * Unit <= n * Unit
         /\ n * Unit = m * Unit + (n - m) * Unit
BY UnitAssumption

LEMMA ProductStrict ==
  ASSUME NEW m \in Nat, NEW n \in Nat, m < n
  PROVE  m * Unit + Unit <= n * Unit
<1>1. (m + 1) * Unit <= n * Unit
  BY Product
<1>2. (m + 1) * Unit = m * Unit + Unit
  BY UnitAssumption
<1> QED BY <1>1, <1>2

\* The sector of a byte is the only one it lies in.
LEMMA SecUnique ==
  ASSUME NEW x \in Nat, NEW q \in Nat, q * Unit <= x, x < q * Unit + Unit
  PROVE  Sec(x) = q
<1>1. Sec(x) \in Nat /\ Sec(x) * Unit \in Nat /\ Sec(x) * Unit <= x /\ x < Sec(x) * Unit + Unit
  BY SecOf
<1>2. q * Unit \in Nat
  BY UnitAssumption
<1>3. ~(Sec(x) < q)
  BY <1>1, <1>2, ProductStrict, UnitAssumption
<1>4. ~(q < Sec(x))
  BY <1>1, <1>2, ProductStrict, UnitAssumption
<1> QED BY <1>1, <1>3, <1>4

LEMMA SecMonotonic ==
  ASSUME NEW x \in Nat, NEW y \in Nat, x <= y
  PROVE  Sec(x) <= Sec(y)
<1>1. /\ Sec(x) \in Nat /\ Sec(x) * Unit \in Nat /\ Sec(x) * Unit <= x
      /\ Sec(y) \in Nat /\ Sec(y) * Unit \in Nat /\ y < Sec(y) * Unit + Unit
  BY SecOf
<1>2. ~(Sec(y) < Sec(x))
  BY <1>1, ProductStrict, UnitAssumption
<1> QED BY <1>1, <1>2

\* The first sector of the data area, and the tweak of a host sector
Base == DataOffset \div Unit

LEMMA BaseIs == Base \in Nat /\ DataOffset = Base * Unit
<1>1. Base = Sec(DataOffset) /\ DataOffset \in Nat /\ DataOffset % Unit = 0
  BY OffsetAssumption DEF Base, Sec
<1>2. Sec(DataOffset) * Unit \in Nat /\ DataOffset % Unit = DataOffset - Sec(DataOffset) * Unit
  BY <1>1, SecOf
<1>3. Base \in Nat
  BY <1>1, SecOf
<1>4. DataOffset = Sec(DataOffset) * Unit
  BY <1>1, <1>2
<1> QED BY <1>1, <1>3, <1>4

-----------------------------------------------------------------------------
\* compute_sector_io_params

\* A request the checks let through
Accepted(r) ==
  /\ r \in Requests /\ r.kind \in {"read", "write"}
  /\ r.off \in Nat /\ r.len \in Nat \ {0} /\ r.off + r.len <= DiskLength

LEMMA Checked ==
  ASSUME NEW r \in Requests, r.kind # "flush", r.len # 0, ~Refused(r)
  PROVE  Accepted(r) /\ (r.kind = "write" => ~readOnly)
<1>1. r.kind \in {"read", "write", "flush"} /\ r.off \in Int /\ r.len \in Nat
  BY RequestAssumption
<1> QED BY <1>1 DEF Accepted, Refused, InBounds

LEMMA ParamsAre ==
  ASSUME NEW r, r.off \in Nat, NEW x, NEW z, DataOffset + r.off = x,
         DataOffset + r.off + r.len + Unit - 1 = z
  PROVE  Params(r) = [sector |-> Sec(x), count |-> Sec(z) - Sec(x),
                      userOff |-> x - Sec(x) * Unit,
                      tweak |-> Sec(Sec(x) * Unit - DataOffset)]
<1> DEFINE first == Sec(DataOffset + r.off)
           end == Sec(DataOffset + r.off + r.len + Unit - 1)
           user == DataOffset + r.off - Sec(DataOffset + r.off) * Unit
<1>1. Params(r) = [sector |-> first, count |-> end - first, userOff |-> user,
                   tweak |-> Sec(first * Unit - DataOffset)]
  BY DEF Params, ComputeParams, Sec
<1>2. first = Sec(x) /\ end = Sec(z)
  OBVIOUS
<1>3. user = x - Sec(x) * Unit
  <2>1. x \in Nat
    BY OffsetAssumption
  <2>2. Sec(x) * Unit \in Nat
    BY <2>1, SecOf
  <2> QED BY <1>2, <2>1, <2>2, OffsetAssumption
<1> HIDE DEF first, end, user
<1> QED BY <1>1, <1>2, <1>3

\* Aligning an end up gives the sector after the one of the last byte.
LEMMA AlignUp ==
  ASSUME NEW y \in Nat
  PROVE  Sec(y + Unit) = Sec(y) + 1
<1>1. /\ Sec(y) \in Nat /\ Sec(y) * Unit \in Nat
      /\ Sec(y) * Unit <= y /\ y < Sec(y) * Unit + Unit
  BY SecOf
<1>2. (Sec(y) + 1) * Unit = Sec(y) * Unit + Unit
  BY <1>1, UnitAssumption
<1>3. /\ y + Unit \in Nat /\ Sec(y) + 1 \in Nat
      /\ (Sec(y) + 1) * Unit <= y + Unit /\ y + Unit < (Sec(y) + 1) * Unit + Unit
  BY <1>1, <1>2, UnitAssumption
<1> QED BY <1>3, SecUnique

\* The sectors of the data area are numbered from its beginning.
LEMMA TweakOf ==
  ASSUME NEW q \in Nat, Base <= q
  PROVE  Sec(q * Unit - DataOffset) = q - Base
<1> DEFINE d == q - Base
<1>1. d \in Nat /\ Base \in Nat
  BY BaseIs
<1>2. q * Unit = Base * Unit + d * Unit /\ d * Unit \in Nat /\ Base * Unit \in Nat
  BY <1>1, Product
<1>3. q * Unit - DataOffset = d * Unit
  BY <1>2, BaseIs
<1> HIDE DEF d
<1>4. Sec(d * Unit) = d
  BY <1>1, <1>2, SecUnique, UnitAssumption
<1> QED BY <1>3, <1>4 DEF d

\* The sectors of an accepted request: they hold its bytes and lie in the data
\* area; the tweak is the number of a sector in that area.
LEMMA ParamsOf ==
  ASSUME NEW r, Accepted(r), NEW p, p = Params(r),
         NEW x, x = DataOffset + r.off, NEW y, y = DataOffset + r.off + r.len - 1
  PROVE  /\ x \in Nat /\ y \in Nat /\ x <= y
         /\ p.sector = Sec(x) /\ p.sector \in Nat /\ p.count \in Nat \ {0}
         /\ p.sector + p.count - 1 = Sec(y)
         /\ Base <= p.sector
         /\ p.sector + p.count - 1 <= Sec(DataOffset + DiskLength - 1)
         /\ p.userOff = x - p.sector * Unit
         /\ p.tweak = p.sector - Base
<1>1. /\ x \in Nat /\ y \in Nat /\ x <= y /\ DataOffset \in Nat /\ DataOffset <= x
      /\ DataOffset + DiskLength - 1 \in Nat /\ y <= DataOffset + DiskLength - 1
      /\ DataOffset + r.off + r.len + Unit - 1 = y + Unit
  BY OffsetAssumption, LengthAssumption, UnitAssumption DEF Accepted
<1>2. /\ p.sector = Sec(x) /\ p.count = Sec(y + Unit) - Sec(x)
      /\ p.userOff = x - Sec(x) * Unit /\ p.tweak = Sec(Sec(x) * Unit - DataOffset)
  <2>1. p = [sector |-> Sec(x), count |-> Sec(y + Unit) - Sec(x),
             userOff |-> x - Sec(x) * Unit, tweak |-> Sec(Sec(x) * Unit - DataOffset)]
    BY <1>1, ParamsAre DEF Accepted
  <2> QED BY <2>1
<1>3. Sec(x) \in Nat /\ Sec(y) \in Nat /\ Sec(x) <= Sec(y) /\ Sec(y + Unit) = Sec(y) + 1
  BY <1>1, SecOf, SecMonotonic, AlignUp
<1>4. Base <= Sec(x) /\ Sec(y) <= Sec(DataOffset + DiskLength - 1)
  <2>1. Base = Sec(DataOffset)
    BY DEF Base, Sec
  <2> QED BY <1>1, <2>1, SecMonotonic
<1>5. p.tweak = Sec(x) - Base
  BY <1>2, <1>3, <1>4, TweakOf
<1>6. p.sector \in Nat /\ p.count \in Nat \ {0} /\ p.sector + p.count - 1 = Sec(y)
  BY <1>2, <1>3
<1>7. p.userOff = x - p.sector * Unit /\ p.tweak = p.sector - Base /\ Base <= p.sector
  BY <1>2, <1>4, <1>5
<1>8. p.sector + p.count - 1 <= Sec(DataOffset + DiskLength - 1)
  BY <1>4, <1>6
<1> QED BY <1>1, <1>2, <1>6, <1>7, <1>8

-----------------------------------------------------------------------------
\* The inductive invariant

\* Each host sector was encrypted under its own number in the data area.
HostInv ==
  /\ host \in [HostSectors -> Sector]
  /\ \A s \in HostSectors : host[s].tweak = s - Base

Working == {"host", "copy", "write"}

\* What the checks let through stays true of a request until it is answered;
\* its buffer holds sectors under the tweaks of the place it was read from,
\* and goes back to.
IrpInv(i) ==
  /\ io[i].pc \in {"idle", "check", "host", "copy", "write", "done"}
  /\ io[i].pc # "idle" => io[i].r \in Requests
  /\ io[i].pc \in Working =>
       Accepted(io[i].r) /\ (io[i].r.kind = "write" => ~readOnly)
  /\ io[i].pc \in {"copy", "write"} =>
       /\ io[i].buf \in [1 .. Params(io[i].r).count -> Sector]
       /\ \A k \in 1 .. Params(io[i].r).count :
            io[i].buf[k].tweak = (Params(io[i].r).sector + k - 1) - Base
  /\ io[i].pc = "write" =>
       /\ io[i].r.kind = "write"
       /\ \A k \in 1 .. Params(io[i].r).count : io[i].buf[k].plain = Overlay(i)[k]

IndInv ==
  /\ readOnly \in BOOLEAN
  /\ HostInv
  /\ DOMAIN io = Irps
  /\ \A i \in Irps : IrpInv(i)

\* The numbers of the parameters
LEMMA ParamsNat ==
  ASSUME NEW r, Accepted(r)
  PROVE  /\ Params(r).sector \in Nat /\ Params(r).count \in Nat
         /\ Params(r).tweak = Params(r).sector - Base
<1>1. \E p, x, y : p = Params(r) /\ x = DataOffset + r.off /\ y = DataOffset + r.off + r.len - 1
  OBVIOUS
<1> QED BY <1>1, ParamsOf

\* The sectors of an accepted request are sectors of the data area.
LEMMA InHost ==
  ASSUME NEW r, Accepted(r), NEW s \in Params(r).sector .. Params(r).sector + Params(r).count - 1
  PROVE  s \in HostSectors /\ s \in DataSectors /\ s \in Nat
<1> DEFINE p == Params(r)
           z == DataOffset + DiskLength - 1
           a == DataOffset + r.off
           c == DataOffset + r.off + r.len - 1
<1>1. p.sector \in Nat /\ p.count \in Nat \ {0} /\ Base <= p.sector
      /\ p.sector + p.count - 1 <= Sec(z)
  <2>1. \E x, y : x = a /\ y = c
    OBVIOUS
  <2> QED BY <2>1, ParamsOf
<1>2. z \in Nat /\ z + 1 \in Nat /\ z <= z + 1 /\ z + 1 = DataOffset + DiskLength
  BY OffsetAssumption, LengthAssumption DEF Accepted
<1> HIDE DEF p
<1>3. s \in p.sector .. p.sector + p.count - 1
  BY DEF p
<1>4. Sec(z) \in Nat /\ Sec(z + 1) \in Nat /\ Sec(z) <= Sec(z + 1) /\ Base \in Nat
  BY <1>2, SecOf, SecMonotonic, BaseIs
<1>5. HostSectors = 0 .. Sec(z + 1) /\ DataSectors = Base .. Sec(z)
  BY <1>2 DEF HostSectors, DataSectors, Sec, Base
<1> HIDE DEF z
<1> QED BY <1>1, <1>3, <1>4, <1>5

LEMMA SectorIs ==
  ASSUME NEW t \in Int, NEW plain \in Plain, NEW s, s = EncryptSector(t, plain)
  PROVE  s \in Sector /\ s.tweak = t /\ s.plain = plain
BY DEF EncryptSector, Sector

LEMMA OverlayIs ==
  ASSUME NEW i \in Irps, NEW k \in 1 .. Params(io[i].r).count
  PROVE  Overlay(i)[k] \in Plain
BY DEF Overlay, Plain, Byte

\* The rows of a function that EXCEPT does not name
LEMMA OtherRows ==
  ASSUME NEW j, IrpInv(j), io'[j] = io[j], readOnly' = readOnly
  PROVE  IrpInv(j)'
<1>1. Overlay(j)' = Overlay(j)
  BY DEF Overlay
<1> QED BY <1>1 DEF IrpInv

\* A request that has moved to one of the states that hold nothing
LEMMA RowAt ==
  ASSUME NEW i \in Irps, io'[i].pc \in {"check", "done"}, io'[i].r \in Requests
  PROVE  IrpInv(i)'
BY DEF IrpInv, Working

LEMMA GotoIs ==
  ASSUME NEW i \in Irps, DOMAIN io = Irps, NEW pc, NEW buf, Goto(i, pc, buf)
  PROVE  /\ io'[i].pc = pc /\ io'[i].r = io[i].r /\ io'[i].buf = buf
         /\ DOMAIN io' = Irps /\ \A j \in Irps \ {i} : io'[j] = io[j]
BY DEF Goto

LEMMA CompleteIs ==
  ASSUME NEW i \in Irps, DOMAIN io = Irps, NEW ok, NEW data, Complete(i, ok, data)
  PROVE  /\ io'[i].pc = "done" /\ io'[i].r = io[i].r /\ io'[i].ok = ok /\ io'[i].data = data
         /\ DOMAIN io' = Irps /\ \A j \in Irps \ {i} : io'[j] = io[j]
BY DEF Complete

\* An answer keeps the invariant.
LEMMA CompleteInv ==
  ASSUME IndInv, NEW i \in Irps, io[i].pc # "idle", UNCHANGED readOnly,
         HostInv', NEW ok, NEW data, Complete(i, ok, data)
  PROVE  IndInv'
<1>1. /\ DOMAIN io = Irps /\ io[i].r \in Requests
      /\ \A j \in Irps : IrpInv(j)
  BY DEF IndInv, IrpInv
<1>2. /\ io'[i].pc = "done" /\ io'[i].r = io[i].r
      /\ DOMAIN io' = Irps /\ \A j \in Irps \ {i} : io'[j] = io[j]
  BY <1>1, CompleteIs
<1>3. IrpInv(i)'
  BY <1>1, <1>2, RowAt
<1>4. \A j \in Irps \ {i} : IrpInv(j)'
  BY <1>1, <1>2, OtherRows
<1>5. readOnly' \in BOOLEAN
  BY DEF IndInv
<1> QED BY <1>2, <1>3, <1>4, <1>5 DEF IndInv

\* A step to the next stage keeps the invariant when the row does.
LEMMA GotoInv ==
  ASSUME IndInv, NEW i \in Irps, UNCHANGED <<readOnly, host>>,
         NEW pc, NEW buf, Goto(i, pc, buf), IrpInv(i)'
  PROVE  IndInv'
<1>1. DOMAIN io = Irps /\ \A j \in Irps : IrpInv(j)
  BY DEF IndInv
<1>2. DOMAIN io' = Irps /\ \A j \in Irps \ {i} : io'[j] = io[j]
  BY <1>1, GotoIs
<1>3. \A j \in Irps \ {i} : IrpInv(j)'
  BY <1>1, <1>2, OtherRows
<1>4. HostInv'
  BY DEF IndInv, HostInv
<1>5. readOnly' \in BOOLEAN
  BY DEF IndInv
<1> QED BY <1>2, <1>3, <1>4, <1>5 DEF IndInv

LEMMA InitInv == Init => IndInv
<1> SUFFICES ASSUME Init PROVE IndInv
  OBVIOUS
<1>1. HostInv
  <2> DEFINE old == [b \in Bytes |-> "old"]
  <2>1. old \in Plain /\ Base \in Nat
    BY BaseIs DEF Plain, Byte
  <2> HIDE DEF old
  <2>2. host = [s \in HostSectors |-> EncryptSector(s - Base, old)]
    BY DEF Init, Base, old
  <2>3. \A s \in HostSectors : s - Base \in Int
    BY <2>1 DEF HostSectors
  <2> QED BY <2>1, <2>2, <2>3, SectorIs DEF HostInv
<1>2. \A i \in Irps : IrpInv(i)
  BY DEF Init, IrpInv, Idle, Working
<1> QED BY <1>1, <1>2 DEF Init, IndInv

-----------------------------------------------------------------------------
\* Each step keeps the invariant

LEMMA AddInv ==
  ASSUME IndInv, NEW i \in Irps, NEW r \in Requests, AddIrp(i, r)
  PROVE  IndInv'
<1>1. DOMAIN io = Irps /\ \A j \in Irps : IrpInv(j)
  BY DEF IndInv
<1>2. /\ io'[i].pc = "check" /\ io'[i].r = r /\ DOMAIN io' = Irps
      /\ \A j \in Irps \ {i} : io'[j] = io[j]
  BY <1>1 DEF AddIrp
<1>3. IrpInv(i)'
  BY <1>2, RowAt
<1>4. readOnly' = readOnly /\ HostInv'
  BY DEF AddIrp, IndInv, HostInv
<1>5. \A j \in Irps \ {i} : IrpInv(j)'
  BY <1>1, <1>2, <1>4, OtherRows
<1> QED BY <1>2, <1>3, <1>4, <1>5 DEF IndInv

LEMMA CheckInv ==
  ASSUME IndInv, NEW i \in Irps, CheckParams(i)
  PROVE  IndInv'
<1>1. /\ io[i].pc = "check" /\ io[i].r \in Requests /\ io[i].r.kind # "flush"
      /\ DOMAIN io = Irps /\ readOnly' = readOnly /\ host' = host
  BY DEF CheckParams, IndInv, IrpInv
<1>2. HostInv'
  BY <1>1 DEF IndInv, HostInv
<1>3. ASSUME NEW ok, Complete(i, ok, <<>>) PROVE IndInv'
  BY <1>1, <1>2, <1>3, CompleteInv
<1>4. ASSUME ~Refused(io[i].r), io[i].r.len # 0, Goto(i, "host", <<>>) PROVE IndInv'
  <2>1. Accepted(io[i].r) /\ (io[i].r.kind = "write" => ~readOnly)
    BY <1>1, <1>4, Checked
  <2>2. io'[i].pc = "host" /\ io'[i].r = io[i].r
    BY <1>1, <1>4, GotoIs
  <2>3. IrpInv(i)'
    BY <1>1, <2>1, <2>2 DEF IrpInv
  <2> QED BY <1>1, <1>4, <2>3, GotoInv
<1> QED BY <1>3, <1>4 DEF CheckParams

LEMMA FlushInv ==
  ASSUME IndInv, NEW i \in Irps, Flush(i)
  PROVE  IndInv'
<1>1. io[i].pc = "check" /\ readOnly' = readOnly /\ host' = host
  BY DEF Flush
<1>2. HostInv'
  BY <1>1 DEF IndInv, HostInv
<1>3. ASSUME NEW ok, Complete(i, ok, <<>>) PROVE IndInv'
  BY <1>1, <1>2, <1>3, CompleteInv
<1> QED BY <1>3 DEF Flush

LEMMA ReadInv ==
  ASSUME IndInv, NEW i \in Irps, ReadHost(i)
  PROVE  IndInv'
<1> DEFINE p == Params(io[i].r)
           buf == [k \in 1 .. p.count |-> host[p.sector + k - 1]]
<1>1. /\ io[i].pc = "host" /\ io[i].r \in Requests /\ Accepted(io[i].r)
      /\ (io[i].r.kind = "write" => ~readOnly)
      /\ DOMAIN io = Irps /\ readOnly' = readOnly /\ host' = host
  BY DEF ReadHost, IndInv, IrpInv, Working
<1>2. HostInv /\ HostInv'
  BY <1>1 DEF IndInv, HostInv
<1>3. ASSUME NEW ok, Complete(i, ok, <<>>) PROVE IndInv'
  BY <1>1, <1>2, <1>3, CompleteInv
<1>4. ASSUME Goto(i, "copy", buf) PROVE IndInv'
  <2>1. /\ io'[i].pc = "copy" /\ io'[i].r = io[i].r /\ io'[i].buf = buf
    BY <1>1, <1>4, GotoIs
  <2>2. p.sector \in Nat /\ p.count \in Nat
    BY <1>1, ParamsNat
  <2>3. \A k \in 1 .. p.count : p.sector + k - 1 \in HostSectors
    BY <1>1, <2>2, InHost
  <2> HIDE DEF p
  <2>4. \A k \in 1 .. p.count :
          /\ host[p.sector + k - 1] \in Sector
          /\ host[p.sector + k - 1].tweak = (p.sector + k - 1) - Base
    <3> TAKE k \in 1 .. p.count
    <3> DEFINE q == p.sector + k - 1
    <3>1. q \in HostSectors
      BY <2>3
    <3> HIDE DEF q
    <3>2. host[q] \in Sector /\ host[q].tweak = q - Base
      BY <1>2, <3>1 DEF HostInv
    <3> QED BY <3>2 DEF q
  <2>5. /\ buf \in [1 .. p.count -> Sector]
        /\ \A k \in 1 .. p.count : buf[k].tweak = (p.sector + k - 1) - Base
    BY <2>4
  <2> HIDE DEF buf
  <2>6. IrpInv(i)'
    BY <1>1, <2>1, <2>5 DEF IrpInv, p
  <2> QED BY <1>1, <1>4, <2>6, GotoInv
<1> QED BY <1>3, <1>4 DEF ReadHost

LEMMA CopyInv ==
  ASSUME IndInv, NEW i \in Irps, DecryptAndCopy(i)
  PROVE  IndInv'
<1>1. io[i].pc = "copy" /\ readOnly' = readOnly /\ host' = host
  BY DEF DecryptAndCopy
<1>2. HostInv'
  BY <1>1 DEF IndInv, HostInv
<1>3. ASSUME NEW ok, NEW data, Complete(i, ok, data) PROVE IndInv'
  BY <1>1, <1>2, <1>3, CompleteInv
<1> QED BY <1>3 DEF DecryptAndCopy

LEMMA OverlayInv ==
  ASSUME IndInv, NEW i \in Irps, OverlayAndEncrypt(i)
  PROVE  IndInv'
<1> DEFINE p == Params(io[i].r)
           buf == EncryptSectors(p, Overlay(i))
<1>1. /\ io[i].pc = "copy" /\ io[i].r.kind = "write" /\ io[i].r \in Requests
      /\ Accepted(io[i].r) /\ ~readOnly
      /\ DOMAIN io = Irps /\ readOnly' = readOnly /\ host' = host
  BY DEF OverlayAndEncrypt, IndInv, IrpInv, Working
<1>2. HostInv'
  BY <1>1 DEF IndInv, HostInv
<1>3. ASSUME NEW ok, Complete(i, ok, <<>>) PROVE IndInv'
  BY <1>1, <1>2, <1>3, CompleteInv
<1>4. ASSUME Goto(i, "write", buf) PROVE IndInv'
  <2>1. /\ io'[i].pc = "write" /\ io'[i].r = io[i].r /\ io'[i].buf = buf
    BY <1>1, <1>4, GotoIs
  <2>2. p.sector \in Nat /\ p.count \in Nat /\ p.tweak = p.sector - Base /\ Base \in Nat
    BY <1>1, ParamsNat, BaseIs
  <2>3. \A k \in 1 .. p.count : Overlay(i)[k] \in Plain
    BY OverlayIs
  <2>4. Overlay(i)' = Overlay(i)
    BY <2>1 DEF Overlay
  <2> HIDE DEF p
  <2>5. \A k \in 1 .. p.count : p.tweak + k - 1 \in Int /\ p.tweak + k - 1 = (p.sector + k - 1) - Base
    BY <2>2
  <2>6. buf = [k \in 1 .. p.count |-> EncryptSector(p.tweak + k - 1, Overlay(i)[k])]
    BY DEF EncryptSectors
  <2> HIDE DEF buf
  <2>7. \A k \in 1 .. p.count :
          buf[k] \in Sector /\ buf[k].tweak = p.tweak + k - 1 /\ buf[k].plain = Overlay(i)[k]
    BY <2>3, <2>5, <2>6, SectorIs
  <2>8. buf \in [1 .. p.count -> Sector]
    BY <2>6, <2>7
  <2>9. IrpInv(i)'
    BY <1>1, <2>1, <2>4, <2>5, <2>7, <2>8 DEF IrpInv, p
  <2> QED BY <1>1, <1>4, <2>9, GotoInv
<1> QED BY <1>3, <1>4 DEF OverlayAndEncrypt

\* What a write leaves in the host file, whole or cut short
LEMMA StoredIs ==
  ASSUME IndInv, NEW i \in Irps, io[i].pc = "write",
         NEW m \in 0 .. Params(io[i].r).count, host' = Stored(i, m)
  PROVE  /\ HostInv'
         /\ \A s \in HostSectors : host'[s] # host[s] => ~readOnly /\ s \in DataSectors
<1> DEFINE p == Params(io[i].r)
           buf == io[i].buf
           area == p.sector .. p.sector + m - 1
<1>1. /\ Accepted(io[i].r) /\ ~readOnly
      /\ buf \in [1 .. p.count -> Sector]
      /\ \A k \in 1 .. p.count : buf[k].tweak = (p.sector + k - 1) - Base
  BY DEF IndInv, IrpInv, Working
<1>2. p.sector \in Nat /\ p.count \in Nat /\ m \in Nat /\ m <= p.count /\ Base \in Nat
  BY <1>1, ParamsNat, BaseIs
<1>3. \A s \in area : s \in HostSectors /\ s \in DataSectors
  BY <1>1, <1>2, InHost
<1>4. host' = [s \in HostSectors |-> IF s \in area THEN buf[s - p.sector + 1] ELSE host[s]]
  BY DEF Stored
<1> HIDE DEF p, buf
<1>5. \A s \in area : s - p.sector + 1 \in 1 .. p.count /\ p.sector + (s - p.sector + 1) - 1 = s
  BY <1>2
<1>6. \A s \in area : buf[s - p.sector + 1] \in Sector /\ buf[s - p.sector + 1].tweak = s - Base
  BY <1>1, <1>2, <1>5
<1> HIDE DEF area
<1>7. HostInv
  BY DEF IndInv
<1>8. HostInv'
  BY <1>3, <1>4, <1>6, <1>7 DEF HostInv
<1> QED BY <1>1, <1>3, <1>4, <1>8

LEMMA WriteInv ==
  ASSUME IndInv, NEW i \in Irps, WriteHost(i)
  PROVE  /\ IndInv'
         /\ \A s \in HostSectors : host'[s] # host[s] => ~readOnly /\ s \in DataSectors
<1>1. io[i].pc = "write" /\ readOnly' = readOnly
  BY DEF WriteHost
<1>2. Params(io[i].r).count \in Nat
  BY <1>1, ParamsNat DEF IndInv, IrpInv, Working
<1>3. PICK m \in 0 .. Params(io[i].r).count :
        host' = Stored(i, m) /\ \E ok : Complete(i, ok, <<>>)
  <2> DEFINE n == Params(io[i].r).count
  <2>1. n \in 0 .. n
    BY <1>2
  <2>2. \/ host' = Stored(i, n) /\ Complete(i, TRUE, <<>>)
        \/ \E m \in 0 .. n : host' = Stored(i, m) /\ Complete(i, FALSE, <<>>)
    BY DEF WriteHost
  <2> QED BY <2>1, <2>2, Zenon
<1>4. /\ HostInv'
      /\ \A s \in HostSectors : host'[s] # host[s] => ~readOnly /\ s \in DataSectors
  BY <1>1, <1>3, StoredIs
<1>5. IndInv'
  BY <1>1, <1>3, <1>4, CompleteInv
<1> QED BY <1>4, <1>5

\* Only WriteHost changes the host file.
LEMMA NextInv ==
  ASSUME IndInv, [Next]_vars
  PROVE  /\ IndInv'
         /\ \A s \in HostSectors : host'[s] # host[s] => ~readOnly /\ s \in DataSectors
<1>1. CASE UNCHANGED vars
  <2>1. readOnly' = readOnly /\ host' = host /\ io' = io
    BY <1>1 DEF vars
  <2>2. \A j \in Irps : IrpInv(j)'
    BY <2>1, OtherRows DEF IndInv
  <2> QED BY <2>1, <2>2 DEF IndInv, HostInv
<1>2. ASSUME NEW i \in Irps, NEW r \in Requests, AddIrp(i, r)
      PROVE  IndInv' /\ host' = host
  BY <1>2, AddInv DEF AddIrp
<1>3. ASSUME NEW i \in Irps, CheckParams(i) PROVE IndInv' /\ host' = host
  BY <1>3, CheckInv DEF CheckParams
<1>4. ASSUME NEW i \in Irps, Flush(i) PROVE IndInv' /\ host' = host
  BY <1>4, FlushInv DEF Flush
<1>5. ASSUME NEW i \in Irps, ReadHost(i) PROVE IndInv' /\ host' = host
  BY <1>5, ReadInv DEF ReadHost
<1>6. ASSUME NEW i \in Irps, DecryptAndCopy(i) PROVE IndInv' /\ host' = host
  BY <1>6, CopyInv DEF DecryptAndCopy
<1>7. ASSUME NEW i \in Irps, OverlayAndEncrypt(i) PROVE IndInv' /\ host' = host
  BY <1>7, OverlayInv DEF OverlayAndEncrypt
<1>8. ASSUME NEW i \in Irps, WriteHost(i)
      PROVE  /\ IndInv'
             /\ \A s \in HostSectors : host'[s] # host[s] => ~readOnly /\ s \in DataSectors
  BY <1>8, WriteInv
<1> QED BY <1>1, <1>2, <1>3, <1>4, <1>5, <1>6, <1>7, <1>8 DEF Next, Process, AllDone

-----------------------------------------------------------------------------
\* The theorems about the host file

LEMMA InvType == IndInv => TypeOK
<1> SUFFICES ASSUME IndInv PROVE TypeOK
  OBVIOUS
<1>1. ASSUME NEW i \in Irps, io[i].pc \in Working
      PROVE  Params(io[i].r).sector .. Params(io[i].r).sector + Params(io[i].r).count - 1
               \subseteq HostSectors
  BY <1>1, InHost DEF IndInv, IrpInv
<1>2. readOnly \in BOOLEAN /\ host \in [HostSectors -> Sector]
  BY DEF IndInv, HostInv
<1> QED BY <1>1, <1>2 DEF IndInv, IrpInv, TypeOK, Working

LEMMA InvHolds == Spec => []IndInv
<1>1. IndInv /\ [Next]_vars => IndInv'
  BY NextInv
<1> QED BY InitInv, <1>1, PTL DEF Spec

\* The states have their types; the buffer of every request in progress has
\* the length compute_sector_io_params says and lies in the host file.
THEOREM TypeCorrect == Spec => []TypeOK
BY InvHolds, InvType, PTL

\* ZwWriteFile changes no sector outside the data area and none of a read-only
\* volume, for any request, aligned or not, and any interleaving.
THEOREM HostUntouched == Spec => HostKept
<1>1. IndInv /\ [Next]_vars =>
        [\A s \in HostSectors : host'[s] # host[s] => ~readOnly /\ s \in DataSectors]_vars
  BY NextInv
<1> QED BY InvHolds, <1>1, PTL DEF Spec, HostKept

-----------------------------------------------------------------------------
\* The plaintext of the volume

\* Dropping whole sectors keeps the place in the sector.
LEMMA SecShift ==
  ASSUME NEW y \in Nat, NEW q \in Nat, q <= Sec(y)
  PROVE  /\ y - q * Unit \in Nat
         /\ Sec(y - q * Unit) = Sec(y) - q
         /\ (y - q * Unit) % Unit = y % Unit
<1> DEFINE d == Sec(y) - q
           z == y - q * Unit
<1>1. /\ Sec(y) \in Nat /\ Sec(y) * Unit \in Nat /\ Sec(y) * Unit <= y
      /\ y < Sec(y) * Unit + Unit /\ y % Unit = y - Sec(y) * Unit
  BY SecOf
<1>2. d \in Nat /\ d <= Sec(y)
  BY <1>1
<1>3. /\ Sec(y) * Unit = q * Unit + d * Unit
      /\ q * Unit \in Nat /\ d * Unit \in Nat
  BY <1>1, <1>2, Product
<1>4. z \in Nat /\ d * Unit <= z /\ z < d * Unit + Unit /\ y % Unit = z - d * Unit
  BY <1>1, <1>3, UnitAssumption
<1> HIDE DEF d, z
<1>5. Sec(z) = d
  BY <1>2, <1>4, SecUnique
<1>6. z % Unit = z - Sec(z) * Unit
  BY <1>4, SecOf
<1>7. z % Unit = y % Unit
  BY <1>4, <1>5, <1>6
<1> QED BY <1>4, <1>5, <1>7 DEF d, z

DiskBytes == 0 .. DiskLength - 1

\* A byte of the volume lies in a host sector.
LEMMA ByteSector ==
  ASSUME NEW b \in DiskBytes
  PROVE  DataOffset + b \in Nat /\ Sec(DataOffset + b) \in HostSectors
<1> DEFINE x == DataOffset + b
           z == DataOffset + DiskLength
<1>1. x \in Nat /\ z \in Nat /\ x <= z
  BY OffsetAssumption, LengthAssumption DEF DiskBytes
<1> HIDE DEF x
<1>2. Sec(x) \in Nat /\ Sec(z) \in Nat /\ Sec(x) <= Sec(z)
  BY <1>1, SecOf, SecMonotonic
<1>3. HostSectors = 0 .. Sec(z)
  BY DEF HostSectors, Sec
<1> HIDE DEF z
<1>4. Sec(x) \in HostSectors
  BY <1>2, <1>3
<1> QED BY <1>1, <1>4 DEF x

\* Decryption gives every byte of the volume.
PlainByte(b) == host[Sec(DataOffset + b)].plain[(DataOffset + b) % Unit]

LEMMA DiskIs ==
  ASSUME HostInv
  PROVE  Disk = [b \in DiskBytes |-> PlainByte(b)]
<1>1. Disk = [b \in DiskBytes |->
                DecryptSector(Sec(DataOffset + b) - Base, host[Sec(DataOffset + b)])
                  [(DataOffset + b) % Unit]]
  BY DEF Disk, DiskBytes, Sec, Base
<1>2. ASSUME NEW b \in DiskBytes
      PROVE  DecryptSector(Sec(DataOffset + b) - Base, host[Sec(DataOffset + b)])
               = host[Sec(DataOffset + b)].plain
  <2> DEFINE s == Sec(DataOffset + b)
  <2>1. s \in HostSectors
    BY <1>2, ByteSector
  <2> HIDE DEF s
  <2>2. DecryptSector(s - Base, host[s]) = host[s].plain
    BY <2>1 DEF DecryptSector, HostInv
  <2> QED BY <2>2 DEF s
<1> QED BY <1>1, <1>2, Zenon DEF PlainByte

\* A request of whole sectors fills them.
Whole(r) == r.off % Unit = 0 /\ r.len % Unit = 0

LEMMA WholeIs ==
  ASSUME NEW r, Accepted(r), Whole(r), NEW p, p = Params(r)
  PROVE  p.userOff = 0 /\ p.sector * Unit = DataOffset + r.off /\ p.count * Unit = r.len
<1> DEFINE x == DataOffset + r.off
           y == DataOffset + r.off + r.len - 1
           f == Sec(r.off)
           n == Sec(r.len)
           q == Base + f
<1>1. /\ r.off \in Nat /\ r.len \in Nat \ {0} /\ DataOffset \in Nat
      /\ r.off % Unit = 0 /\ r.len % Unit = 0 /\ Unit \in Nat \ {0}
  BY OffsetAssumption, UnitAssumption DEF Accepted, Whole
<1>2. /\ f \in Nat /\ f * Unit \in Nat /\ r.off % Unit = r.off - f * Unit
      /\ n \in Nat /\ n * Unit \in Nat /\ r.len % Unit = r.len - n * Unit
  BY <1>1, SecOf
<1>3. r.off = f * Unit /\ r.len = n * Unit
  BY <1>1, <1>2
<1>4. Base \in Nat /\ DataOffset = Base * Unit
  BY BaseIs
<1>5. /\ x = DataOffset + r.off /\ y = DataOffset + r.off + r.len - 1
      /\ x + r.len = y + 1
  BY <1>1
<1> HIDE DEF x, y, f, n
<1>6. /\ x \in Nat /\ y \in Nat /\ p.sector = Sec(x) /\ p.sector \in Nat
      /\ p.count \in Nat \ {0} /\ p.sector + p.count - 1 = Sec(y)
      /\ p.userOff = x - p.sector * Unit
  BY <1>5, ParamsOf
<1>7. q \in Nat /\ q * Unit = x
  <2>1. q * Unit = Base * Unit + f * Unit
    BY <1>1, <1>2, <1>4
  <2> QED BY <1>2, <1>3, <1>4, <1>5, <2>1
<1> HIDE DEF q
<1>8. Sec(x) = q
  BY <1>1, <1>6, <1>7, SecUnique
<1>9. n # 0
  BY <1>1, <1>3
<1>10. Sec(y) = q + (n - 1)
  <2> DEFINE e == q + (n - 1)
  <2>1. e \in Nat /\ e + 1 = q + n
    BY <1>2, <1>7, <1>9
  <2>2. (q + n) * Unit = q * Unit + n * Unit
    BY <1>1, <1>2, <1>7
  <2>3. (e + 1) * Unit = e * Unit + Unit /\ e * Unit \in Nat
    BY <1>1, <2>1
  <2> HIDE DEF e
  <2>4. e * Unit + Unit = y + 1
    BY <1>3, <1>5, <1>7, <2>1, <2>2, <2>3
  <2>5. e * Unit <= y /\ y < e * Unit + Unit
    BY <1>1, <1>6, <2>3, <2>4
  <2>6. Sec(y) = e
    BY <1>6, <2>1, <2>5, SecUnique
  <2> QED BY <2>6 DEF e
<1>11. p.count = n
  BY <1>2, <1>6, <1>7, <1>8, <1>10
<1>12. p.userOff = 0
  BY <1>6, <1>7, <1>8
<1> QED BY <1>3, <1>5, <1>6, <1>7, <1>8, <1>11, <1>12

\* The sector of a byte of a request, counted in the request's buffer
LEMMA ByteInBuffer ==
  ASSUME NEW r, Accepted(r), NEW p, p = Params(r), NEW b \in r.off .. r.off + r.len - 1
  PROVE  /\ b \in DiskBytes
         /\ p.userOff + b - r.off \in Nat
         /\ (p.userOff + b - r.off) \div Unit + 1 \in 1 .. p.count
         /\ p.sector + ((p.userOff + b - r.off) \div Unit + 1) - 1 = Sec(DataOffset + b)
         /\ (p.userOff + b - r.off) % Unit = (DataOffset + b) % Unit
<1> DEFINE x == DataOffset + r.off
           y == DataOffset + r.off + r.len - 1
           c == DataOffset + b
           n == p.userOff + b - r.off
<1>1. /\ r.off \in Nat /\ r.len \in Nat /\ DataOffset \in Nat /\ b \in Nat
      /\ r.off <= b /\ b <= r.off + r.len - 1 /\ r.off + r.len <= DiskLength /\ DiskLength \in Nat
  BY OffsetAssumption, LengthAssumption DEF Accepted
<1>2. b \in DiskBytes
  BY <1>1 DEF DiskBytes
<1>3. c \in Nat /\ x <= c /\ c <= y /\ x = DataOffset + r.off /\ y = DataOffset + r.off + r.len - 1
      /\ c = x + (b - r.off)
  BY <1>1
<1> HIDE DEF x, y, c
<1>4. /\ x \in Nat /\ y \in Nat /\ p.sector = Sec(x) /\ p.sector \in Nat
      /\ p.count \in Nat \ {0} /\ p.sector + p.count - 1 = Sec(y)
      /\ p.userOff = x - p.sector * Unit
  BY <1>3, ParamsOf
<1>5. Sec(x) <= Sec(c) /\ Sec(c) <= Sec(y) /\ Sec(c) \in Nat /\ p.sector * Unit \in Nat
  BY <1>3, <1>4, SecMonotonic, SecOf
<1>6. n = c - p.sector * Unit
  BY <1>1, <1>3, <1>4, <1>5
<1> HIDE DEF n
<1>7. n \in Nat /\ Sec(n) = Sec(c) - p.sector /\ n % Unit = c % Unit
  BY <1>3, <1>4, <1>5, <1>6, SecShift
<1>8. Sec(n) + 1 \in 1 .. p.count /\ p.sector + (Sec(n) + 1) - 1 = Sec(c)
  BY <1>4, <1>5, <1>7
<1>9. Sec(n) = n \div Unit
  BY DEF Sec
<1> QED BY <1>2, <1>7, <1>8, <1>9 DEF n, c

\* What a read takes from the sectors it has just read is what the volume holds.
LEMMA SeenIs ==
  ASSUME HostInv, NEW r, Accepted(r), NEW p, p = Params(r),
         NEW buf, buf = [k \in 1 .. p.count |-> host[p.sector + k - 1]]
  PROVE  UserBytes(r, DecryptSectors(p, buf)) = [b \in r.off .. r.off + r.len - 1 |-> Disk[b]]
<1> DEFINE plains == DecryptSectors(p, buf)
           Place(b) == p.userOff + b - r.off
<1>1. UserBytes(r, plains) =
        [b \in r.off .. r.off + r.len - 1 |-> plains[Place(b) \div Unit + 1][Place(b) % Unit]]
  BY DEF UserBytes
<1>2. ASSUME NEW k \in 1 .. p.count, p.sector + k - 1 \in HostSectors
      PROVE  plains[k] = host[p.sector + k - 1].plain
  <2> DEFINE s == p.sector + k - 1
  <2>1. p.tweak = p.sector - Base /\ p.sector \in Nat /\ p.count \in Nat /\ Base \in Nat
    BY ParamsNat, BaseIs
  <2>2. p.tweak + k - 1 = s - Base
    BY <1>2, <2>1
  <2>3. plains[k] = DecryptSector(p.tweak + k - 1, host[s])
    BY <1>2 DEF DecryptSectors
  <2>4. s \in HostSectors
    BY <1>2
  <2> HIDE DEF s
  <2>5. host[s].tweak = s - Base
    BY <2>4 DEF HostInv
  <2>6. DecryptSector(p.tweak + k - 1, host[s]) = host[s].plain
    BY <2>2, <2>5 DEF DecryptSector
  <2> QED BY <2>3, <2>6 DEF s
<1> HIDE DEF plains
<1>3. ASSUME NEW b \in r.off .. r.off + r.len - 1
      PROVE  plains[Place(b) \div Unit + 1][Place(b) % Unit] = Disk[b]
  <2> DEFINE k == Place(b) \div Unit + 1
  <2>1. /\ b \in DiskBytes /\ k \in 1 .. p.count
        /\ p.sector + k - 1 = Sec(DataOffset + b)
        /\ Place(b) % Unit = (DataOffset + b) % Unit
    BY <1>3, ByteInBuffer
  <2>2. Sec(DataOffset + b) \in HostSectors
    BY <2>1, ByteSector
  <2> HIDE DEF k, Place
  <2>3. plains[k] = host[Sec(DataOffset + b)].plain
    BY <1>2, <2>1, <2>2
  <2>4. plains[k][Place(b) % Unit] = PlainByte(b)
    BY <2>1, <2>3 DEF PlainByte
  <2>5. Disk[b] = PlainByte(b)
    BY <2>1, DiskIs
  <2> QED BY <2>4, <2>5 DEF k
<1> HIDE DEF Place
<1> QED BY <1>1, <1>3 DEF plains

LEMMA DiskIsNext == HostInv' => (Disk = [b \in DiskBytes |-> PlainByte(b)])'
<1>1. HostInv => Disk = [b \in DiskBytes |-> PlainByte(b)]
  BY DiskIs
<1> QED BY <1>1, PTL

LEMMA DiskKept ==
  ASSUME host' = host
  PROVE  Disk' = Disk
BY DEF Disk

\* A write of whole sectors, or its first m sectors, writes its bytes and no
\* others.
LEMMA StoredDisk ==
  ASSUME IndInv, HostInv', NEW i \in Irps, io[i].pc = "write", Whole(io[i].r),
         NEW m \in 0 .. Params(io[i].r).count, host' = Stored(i, m)
  PROVE  Disk' = [b \in DiskBytes |->
                    IF b \in io[i].r.off .. io[i].r.off + m * Unit - 1 THEN i ELSE Disk[b]]
<1> DEFINE r == io[i].r
           p == Params(r)
           buf == io[i].buf
           area == p.sector .. p.sector + m - 1
<1>1. /\ HostInv /\ Accepted(r) /\ buf \in [1 .. p.count -> Sector]
      /\ \A k \in 1 .. p.count : buf[k].plain = Overlay(i)[k]
  BY DEF IndInv, IrpInv, Working
<1>2. p.sector \in Nat /\ p.count \in Nat /\ m \in Nat /\ m <= p.count
  BY <1>1, ParamsNat
<1>3. p.userOff = 0 /\ p.sector * Unit = DataOffset + r.off /\ p.count * Unit = r.len
  BY <1>1, WholeIs
<1>4. Overlay(i) = [k \in 1 .. p.count |-> [d \in Bytes |->
        IF (k - 1) * Unit + d \in p.userOff .. p.userOff + r.len - 1 THEN i ELSE Noise]]
  BY DEF Overlay
<1>5. host' = [s \in HostSectors |-> IF s \in area THEN buf[s - p.sector + 1] ELSE host[s]]
  BY DEF Stored
<1>6. r.off \in Nat /\ r.len \in Nat /\ DataOffset \in Nat /\ Unit \in Nat \ {0} /\ DiskLength \in Nat
  BY <1>1, OffsetAssumption, UnitAssumption, LengthAssumption DEF Accepted
<1> HIDE DEF r, p, buf
\* Every byte of the buffer is the user's.
<1>7. ASSUME NEW k \in 1 .. p.count, NEW d \in Bytes
      PROVE  buf[k].plain[d] = i
  <2>1. k \in Nat /\ k - 1 \in Nat /\ k - 1 < p.count /\ d \in Nat /\ d < Unit
    BY <1>2, <1>6, <1>7 DEF Bytes
  <2>2. (k - 1) * Unit + Unit <= p.count * Unit /\ (k - 1) * Unit \in Nat
    BY <1>2, <1>6, <2>1, ProductStrict
  <2>3. (k - 1) * Unit + d \in p.userOff .. p.userOff + r.len - 1
    BY <1>3, <1>6, <2>1, <2>2
  <2>4. Overlay(i)[k][d] =
          IF (k - 1) * Unit + d \in p.userOff .. p.userOff + r.len - 1 THEN i ELSE Noise
    BY <1>4, <1>7
  <2>5. Overlay(i)[k][d] = i
    BY <2>3, <2>4
  <2> QED BY <1>1, <1>7, <2>5
\* The sectors that are stored are those of the bytes written.
<1>8. ASSUME NEW b \in DiskBytes
      PROVE  Sec(DataOffset + b) \in area <=> b \in r.off .. r.off + m * Unit - 1
  <2> DEFINE c == DataOffset + b
             e == p.sector + m
  <2>1. c \in Nat /\ b \in Nat
    BY <1>6, <1>8 DEF DiskBytes
  <2>2. /\ Sec(c) \in Nat /\ Sec(c) * Unit \in Nat /\ Sec(c) * Unit <= c
        /\ c < Sec(c) * Unit + Unit
    BY <2>1, SecOf
  <2>3. e \in Nat /\ e * Unit = p.sector * Unit + m * Unit /\ m * Unit \in Nat
        /\ p.sector * Unit \in Nat
    BY <1>2, <1>6
  <2> HIDE DEF c, e
  <2>4. p.sector <= Sec(c) => p.sector * Unit <= c
    <3>1. p.sector <= Sec(c) => p.sector * Unit <= Sec(c) * Unit
      BY <1>2, <2>2, Product
    <3> QED BY <2>1, <2>2, <2>3, <3>1
  <2>5. Sec(c) < p.sector => c < p.sector * Unit
    <3>1. Sec(c) < p.sector => Sec(c) * Unit + Unit <= p.sector * Unit
      BY <1>2, <2>2, ProductStrict
    <3> QED BY <1>6, <2>1, <2>2, <2>3, <3>1
  <2>6. Sec(c) < e => c < e * Unit
    <3>1. Sec(c) < e => Sec(c) * Unit + Unit <= e * Unit
      BY <2>2, <2>3, ProductStrict
    <3> QED BY <1>2, <1>6, <2>1, <2>2, <2>3, <3>1
  <2>7. e <= Sec(c) => e * Unit <= c
    <3>1. e <= Sec(c) => e * Unit <= Sec(c) * Unit
      BY <2>2, <2>3, Product
    <3> QED BY <1>2, <1>6, <2>1, <2>2, <2>3, <3>1
  <2>8. Sec(c) \in area <=> p.sector <= Sec(c) /\ Sec(c) < e
    BY <1>2, <2>2 DEF e
  <2>9. b \in r.off .. r.off + m * Unit - 1 <=> p.sector * Unit <= c /\ c < e * Unit
    BY <1>3, <1>6, <2>1, <2>3 DEF c
  <2>10. c \in Nat /\ Sec(c) \in Nat /\ e \in Nat /\ e * Unit \in Nat /\ p.sector * Unit \in Nat
    BY <1>2, <2>1, <2>2, <2>3
  <2>11. Sec(c) \in area <=> b \in r.off .. r.off + m * Unit - 1
    BY <1>2, <2>4, <2>5, <2>6, <2>7, <2>8, <2>9, <2>10
  <2> QED BY <2>11 DEF c
<1>9. Disk = [b \in DiskBytes |-> PlainByte(b)]
  BY <1>1, DiskIs
<1>10. Disk' = [b \in DiskBytes |-> host'[Sec(DataOffset + b)].plain[(DataOffset + b) % Unit]]
  BY DiskIsNext DEF PlainByte
<1>11. ASSUME NEW b \in DiskBytes
       PROVE  host'[Sec(DataOffset + b)].plain[(DataOffset + b) % Unit] =
                IF b \in r.off .. r.off + m * Unit - 1 THEN i ELSE Disk[b]
  <2> DEFINE s == Sec(DataOffset + b)
             d == (DataOffset + b) % Unit
  <2>1. s \in HostSectors /\ d \in Bytes
    BY <1>11, ByteSector, SecOf
  <2>2. s \in area <=> b \in r.off .. r.off + m * Unit - 1
    BY <1>8, <1>11
  <2>3. Disk[b] = host[s].plain[d]
    BY <1>9, <1>11 DEF PlainByte
  <2> HIDE DEF s, d
  <2>4. s \in area => s - p.sector + 1 \in 1 .. p.count
    BY <1>2
  <2>5. host'[s] = IF s \in area THEN buf[s - p.sector + 1] ELSE host[s]
    BY <1>5, <2>1
  <2>6. CASE s \in area
    <3>1. buf[s - p.sector + 1].plain[d] = i
      BY <1>7, <2>1, <2>4, <2>6
    <3> QED BY <2>2, <2>5, <2>6, <3>1 DEF s, d
  <2>7. CASE s \notin area
    <3> HIDE DEF area
    <3> QED BY <2>2, <2>3, <2>5, <2>7 DEF s, d
  <2> QED BY <2>6, <2>7
<1> QED BY <1>10, <1>11 DEF r

-----------------------------------------------------------------------------
\* The pipeline implements VirtualDisk

\* A file system writes whole sectors.
WholeSectors == \A r \in Requests : r.kind = "write" => Whole(r)

\* The abstract state of the requests, and of one in each stage
Req == [i \in Irps |-> VirtualRequest(i)]

LEMMA RequestIs ==
  ASSUME NEW i
  PROVE  /\ io[i].pc = "idle" => VirtualRequest(i) = [state |-> "idle"]
         /\ io[i].pc \in {"check", "host", "write"} =>
              VirtualRequest(i) = [state |-> "sent", r |-> io[i].r]
         /\ io[i].pc = "copy" /\ io[i].r.kind # "read" =>
              VirtualRequest(i) = [state |-> "sent", r |-> io[i].r]
         /\ io[i].pc = "copy" /\ io[i].r.kind = "read" =>
              VirtualRequest(i) = [state |-> "seen", data |-> Seen(i)]
         /\ io[i].pc = "done" =>
              VirtualRequest(i) = [state |-> "done", ok |-> io[i].ok, data |-> io[i].data]
BY DEF VirtualRequest

LEMMA RequestIsNext ==
  ASSUME NEW i
  PROVE  /\ io'[i].pc \in {"check", "host", "write"} =>
              VirtualRequest(i)' = [state |-> "sent", r |-> io'[i].r]
         /\ io'[i].pc = "copy" /\ io'[i].r.kind # "read" =>
              VirtualRequest(i)' = [state |-> "sent", r |-> io'[i].r]
         /\ io'[i].pc = "copy" /\ io'[i].r.kind = "read" =>
              VirtualRequest(i)' = [state |-> "seen", data |-> Seen(i)']
         /\ io'[i].pc = "done" =>
              VirtualRequest(i)' = [state |-> "done", ok |-> io'[i].ok, data |-> io'[i].data]
BY DEF VirtualRequest

\* A step of one request changes its abstract state only.
LEMMA ReqMoves ==
  ASSUME NEW i \in Irps, \A j \in Irps \ {i} : io'[j] = io[j]
  PROVE  Req' = [Req EXCEPT ![i] = VirtualRequest(i)']
<1>1. \A j \in Irps \ {i} : VirtualRequest(j)' = VirtualRequest(j)
  BY DEF VirtualRequest, Seen
<1> HIDE DEF VirtualRequest
<1> QED BY <1>1 DEF Req

\* A step that stays in one abstract state
LEMMA ReqStays ==
  ASSUME NEW i \in Irps, \A j \in Irps \ {i} : io'[j] = io[j], host' = host,
         VirtualRequest(i)' = VirtualRequest(i)
  PROVE  UNCHANGED Virtual!dvars
<1>1. Req' = [Req EXCEPT ![i] = VirtualRequest(i)]
  BY ReqMoves
<1>2. Req' = Req
  BY <1>1 DEF Req
<1> QED BY <1>2, DiskKept DEF Virtual!dvars, Req

LEMMA AddMaps ==
  ASSUME IndInv, NEW i \in Irps, NEW r \in Requests, AddIrp(i, r)
  PROVE  Virtual!Submit(i)
<1>1. /\ io[i].pc = "idle" /\ io'[i] = [pc |-> "check", r |-> r] /\ host' = host
      /\ \A j \in Irps \ {i} : io'[j] = io[j]
  BY DEF AddIrp, Idle, IndInv
<1>2. Req[i] = [state |-> "idle"]
  BY <1>1, RequestIs DEF Req
<1>3. Req' = [Req EXCEPT ![i] = [state |-> "sent", r |-> r]]
  BY <1>1, ReqMoves, RequestIsNext
<1>4. Disk' = Disk
  BY <1>1, DiskKept
<1> QED BY <1>2, <1>3, <1>4 DEF Virtual!Submit, Virtual!Idle, Req

\* An answer
LEMMA AnswerMaps ==
  ASSUME IndInv, NEW i \in Irps, NEW ok, NEW data, Complete(i, ok, data)
  PROVE  Virtual!Answer(i, ok, data)
<1>1. /\ io'[i].pc = "done" /\ io'[i].ok = ok /\ io'[i].data = data
      /\ \A j \in Irps \ {i} : io'[j] = io[j]
  BY CompleteIs DEF IndInv
<1>2. Req' = [Req EXCEPT ![i] = [state |-> "done", ok |-> ok, data |-> data]]
  BY <1>1, ReqMoves, RequestIsNext
<1> QED BY <1>2 DEF Virtual!Answer, Req

\* A failure that leaves the host file alone, in any stage
LEMMA FailMaps ==
  ASSUME IndInv, NEW i \in Irps, io[i].pc \in Working \cup {"check"},
         Complete(i, FALSE, <<>>), host' = host
  PROVE  Virtual!Fail(i)
<1>1. Req[i].state \in {"sent", "seen"}
  <2>1. io[i].pc \in {"check", "host", "write"} \/ io[i].pc = "copy"
    BY DEF Working
  <2> QED BY <2>1, RequestIs DEF Req
<1>2. Virtual!Answer(i, FALSE, <<>>) /\ Disk' = Disk
  BY AnswerMaps, DiskKept
<1> QED BY <1>1, <1>2 DEF Virtual!Fail, Req

\* A flush, or a request for no bytes
LEMMA NothingMaps ==
  ASSUME IndInv, NEW i \in Irps, io[i].pc = "check",
         io[i].r.kind = "flush" \/ io[i].r.len = 0,
         Complete(i, TRUE, <<>>), host' = host
  PROVE  Virtual!Nothing(i)
<1>1. Req[i] = [state |-> "sent", r |-> io[i].r]
  BY RequestIs DEF Req
<1>2. Virtual!Answer(i, TRUE, <<>>) /\ Disk' = Disk
  BY AnswerMaps, DiskKept
<1>3. Req[i].state = "sent" /\ (Req[i].r.kind = "flush" \/ Req[i].r.len = 0)
  BY <1>1
<1> QED BY <1>2, <1>3 DEF Virtual!Nothing, Req

VirtualStep(i) ==
  \/ Virtual!Submit(i) \/ Virtual!Look(i) \/ Virtual!AnswerRead(i)
  \/ Virtual!Write(i) \/ Virtual!Nothing(i) \/ Virtual!Fail(i)
  \/ UNCHANGED Virtual!dvars

LEMMA CheckMaps ==
  ASSUME IndInv, NEW i \in Irps, CheckParams(i)
  PROVE  VirtualStep(i)
<1>1. io[i].pc = "check" /\ host' = host /\ DOMAIN io = Irps
  BY DEF CheckParams, IndInv
<1>2. ASSUME Complete(i, FALSE, <<>>) PROVE VirtualStep(i)
  BY <1>1, <1>2, FailMaps DEF VirtualStep
<1>3. ASSUME io[i].r.len = 0, Complete(i, TRUE, <<>>) PROVE VirtualStep(i)
  BY <1>1, <1>3, NothingMaps DEF VirtualStep
<1>4. ASSUME Goto(i, "host", <<>>) PROVE VirtualStep(i)
  <2>1. io'[i].pc = "host" /\ io'[i].r = io[i].r /\ \A j \in Irps \ {i} : io'[j] = io[j]
    BY <1>1, <1>4, GotoIs
  <2>2. VirtualRequest(i)' = VirtualRequest(i)
    BY <1>1, <2>1, RequestIs, RequestIsNext
  <2> QED BY <1>1, <2>1, <2>2, ReqStays DEF VirtualStep
<1> QED BY <1>2, <1>3, <1>4 DEF CheckParams

LEMMA FlushMaps ==
  ASSUME IndInv, NEW i \in Irps, Flush(i)
  PROVE  VirtualStep(i)
<1>1. io[i].pc = "check" /\ io[i].r.kind = "flush" /\ host' = host
  BY DEF Flush
<1>2. ASSUME Complete(i, FALSE, <<>>) PROVE VirtualStep(i)
  BY <1>1, <1>2, FailMaps DEF VirtualStep
<1>3. ASSUME Complete(i, TRUE, <<>>) PROVE VirtualStep(i)
  BY <1>1, <1>3, NothingMaps DEF VirtualStep
<1> QED BY <1>2, <1>3 DEF Flush

LEMMA ReadMaps ==
  ASSUME IndInv, NEW i \in Irps, ReadHost(i)
  PROVE  VirtualStep(i)
<1> DEFINE r == io[i].r
           p == Params(r)
           buf == [k \in 1 .. p.count |-> host[p.sector + k - 1]]
<1>1. /\ io[i].pc = "host" /\ Accepted(r) /\ HostInv /\ DOMAIN io = Irps /\ host' = host
  BY DEF ReadHost, IndInv, IrpInv, Working
<1>2. ASSUME Complete(i, FALSE, <<>>) PROVE VirtualStep(i)
  BY <1>1, <1>2, FailMaps DEF VirtualStep, Working
<1>3. ASSUME Goto(i, "copy", buf) PROVE VirtualStep(i)
  <2>1. /\ io'[i].pc = "copy" /\ io'[i].r = r /\ io'[i].buf = buf
        /\ \A j \in Irps \ {i} : io'[j] = io[j]
    BY <1>1, <1>3, GotoIs
  <2>2. CASE r.kind # "read"
    <3>1. VirtualRequest(i)' = VirtualRequest(i)
      BY <1>1, <2>1, <2>2, RequestIs, RequestIsNext
    <3> QED BY <1>1, <2>1, <3>1, ReqStays DEF VirtualStep
  <2>3. CASE r.kind = "read"
    <3>1. Seen(i)' = UserBytes(r, DecryptSectors(p, buf))
      BY <2>1 DEF Seen
    <3> DEFINE seen == [b \in r.off .. r.off + r.len - 1 |-> Disk[b]]
    <3>2. Seen(i)' = seen
      BY <1>1, <3>1, SeenIs
    <3> HIDE DEF buf
    <3>3. Req' = [Req EXCEPT ![i] = [state |-> "seen", data |-> seen]]
      BY <2>1, <2>3, <3>2, ReqMoves, RequestIsNext
    <3>4. Req[i] = [state |-> "sent", r |-> r]
      BY <1>1, RequestIs DEF Req
    <3>5. Virtual!Valid(r)
      BY <1>1 DEF Virtual!Valid, Accepted
    <3>6. Disk' = Disk
      BY <1>1, DiskKept
    <3>7. Req[i].state = "sent" /\ Req[i].r = r
      BY <3>4
    <3> HIDE DEF r
    <3>8. Virtual!Look(i)
      BY <2>3, <3>3, <3>5, <3>6, <3>7 DEF Virtual!Look, Virtual!Range, Req
    <3> QED BY <3>8 DEF VirtualStep
  <2> QED BY <2>2, <2>3
<1> QED BY <1>2, <1>3 DEF ReadHost

LEMMA CopyMaps ==
  ASSUME IndInv, NEW i \in Irps, DecryptAndCopy(i)
  PROVE  VirtualStep(i)
<1>1. io[i].pc = "copy" /\ io[i].r.kind = "read" /\ host' = host
  BY DEF DecryptAndCopy
<1>2. ASSUME Complete(i, FALSE, <<>>) PROVE VirtualStep(i)
  BY <1>1, <1>2, FailMaps DEF VirtualStep, Working
<1>3. ASSUME Complete(i, TRUE, Seen(i)) PROVE VirtualStep(i)
  <2>1. Req[i] = [state |-> "seen", data |-> Seen(i)]
    BY <1>1, RequestIs DEF Req
  <2>2. Req[i].state = "seen" /\ Req[i].data = Seen(i)
    BY <2>1
  <2>3. Virtual!Answer(i, TRUE, Seen(i)) /\ Disk' = Disk
    BY <1>1, <1>3, AnswerMaps, DiskKept
  <2>4. Virtual!Answer(i, TRUE, Req[i].data)
    BY <2>2, <2>3
  <2>5. Virtual!AnswerRead(i)
    BY <2>2, <2>3, <2>4 DEF Virtual!AnswerRead, Req
  <2> QED BY <2>5 DEF VirtualStep
<1> QED BY <1>2, <1>3 DEF DecryptAndCopy, Seen

LEMMA OverlayMaps ==
  ASSUME IndInv, NEW i \in Irps, OverlayAndEncrypt(i)
  PROVE  VirtualStep(i)
<1>1. io[i].pc = "copy" /\ io[i].r.kind = "write" /\ host' = host /\ DOMAIN io = Irps
  BY DEF OverlayAndEncrypt, IndInv
<1>2. ASSUME Complete(i, FALSE, <<>>) PROVE VirtualStep(i)
  BY <1>1, <1>2, FailMaps DEF VirtualStep, Working
<1>3. ASSUME NEW buf, Goto(i, "write", buf) PROVE VirtualStep(i)
  <2>1. io'[i].pc = "write" /\ io'[i].r = io[i].r /\ \A j \in Irps \ {i} : io'[j] = io[j]
    BY <1>1, <1>3, GotoIs
  <2>2. VirtualRequest(i)' = VirtualRequest(i)
    BY <1>1, <2>1, RequestIs, RequestIsNext
  <2> QED BY <1>1, <2>1, <2>2, ReqStays DEF VirtualStep
<1> QED BY <1>2, <1>3 DEF OverlayAndEncrypt

LEMMA WriteMaps ==
  ASSUME WholeSectors, IndInv, IndInv', NEW i \in Irps, WriteHost(i)
  PROVE  VirtualStep(i)
<1> DEFINE r == io[i].r
           n == Params(r).count
<1>1. /\ io[i].pc = "write" /\ r \in Requests /\ r.kind = "write" /\ Accepted(r)
      /\ DOMAIN io = Irps /\ HostInv'
  BY DEF WriteHost, IndInv, IrpInv, Working
<1>2. Whole(r)
  BY <1>1 DEF WholeSectors
<1>3. n \in Nat /\ n * Unit = r.len /\ r.off \in Nat /\ r.len \in Nat
  BY <1>1, <1>2, ParamsNat, WholeIs DEF Accepted
<1>4. Req[i] = [state |-> "sent", r |-> r]
  BY <1>1, RequestIs DEF Req
<1>5. Req[i].state = "sent" /\ Req[i].r = r
  BY <1>4
<1>6. Virtual!Valid(r)
  BY <1>1 DEF Virtual!Valid, Accepted
<1>7. DOMAIN Disk = DiskBytes
  BY DEF Disk, DiskBytes
<1>8. ASSUME NEW m \in 0 .. n, host' = Stored(i, m)
      PROVE  Disk' = Virtual!Overwrite(i, r.off .. r.off + m * Unit - 1)
  <2>1. Disk' = [b \in DiskBytes |->
                   IF b \in r.off .. r.off + m * Unit - 1 THEN i ELSE Disk[b]]
    BY <1>1, <1>2, <1>8, StoredDisk
  <2> QED BY <1>7, <2>1 DEF Virtual!Overwrite
<1> HIDE DEF r, n
<1>9. ASSUME host' = Stored(i, n), Complete(i, TRUE, <<>>) PROVE VirtualStep(i)
  <2>1. Disk' = Virtual!Overwrite(i, r.off .. r.off + r.len - 1)
    BY <1>3, <1>8, <1>9
  <2>2. Virtual!Answer(i, TRUE, <<>>)
    BY <1>9, AnswerMaps
  <2>3. Virtual!Write(i)
    BY <1>1, <1>5, <1>6, <2>1, <2>2 DEF Virtual!Write, Virtual!Range, Req
  <2> QED BY <2>3 DEF VirtualStep
<1>10. ASSUME NEW m \in 0 .. n, host' = Stored(i, m), Complete(i, FALSE, <<>>)
       PROVE  VirtualStep(i)
  <2>1. Disk' = Virtual!Overwrite(i, r.off .. r.off + m * Unit - 1)
    BY <1>8, <1>10
  <2>2. Virtual!Answer(i, FALSE, <<>>)
    BY <1>10, AnswerMaps
  <2>3. m * Unit \in 0 .. r.len
    <3>1. m \in Nat /\ m <= n
      BY <1>3
    <3>2. m * Unit \in Nat /\ m * Unit <= n * Unit
      BY <1>3, <3>1, Product
    <3> QED BY <1>3, <3>2
  <2>4. \E k \in 0 .. r.len : Disk' = Virtual!Overwrite(i, r.off .. r.off + k - 1)
    BY <2>1, <2>3
  <2>5. Virtual!Fail(i)
    BY <1>1, <1>5, <1>6, <2>2, <2>4 DEF Virtual!Fail, Req
  <2> QED BY <2>5 DEF VirtualStep
<1> QED BY <1>9, <1>10 DEF WriteHost, r, n

LEMMA StepMaps ==
  ASSUME WholeSectors, IndInv, IndInv', [Next]_vars
  PROVE  [Virtual!Next]_(Virtual!dvars)
<1>1. ASSUME NEW i \in Irps, VirtualStep(i) PROVE [Virtual!Next]_(Virtual!dvars)
  BY <1>1 DEF VirtualStep, Virtual!Next
<1>2. CASE UNCHANGED vars
  <2>1. host' = host /\ io' = io
    BY <1>2 DEF vars
  <2>2. \A i \in Irps : VirtualRequest(i)' = VirtualRequest(i)
    BY <2>1 DEF VirtualRequest, Seen
  <2> QED BY <2>1, <2>2, DiskKept DEF Virtual!dvars
<1>3. ASSUME NEW i \in Irps, NEW r \in Requests, AddIrp(i, r) PROVE VirtualStep(i)
  BY <1>3, AddMaps DEF VirtualStep
<1>4. ASSUME NEW i \in Irps, Process(i) PROVE VirtualStep(i)
  BY <1>4, CheckMaps, FlushMaps, ReadMaps, CopyMaps, OverlayMaps, WriteMaps DEF Process
<1> QED BY <1>1, <1>2, <1>3, <1>4 DEF Next, AllDone

LEMMA InitMaps == Init => Virtual!Init
<1> SUFFICES ASSUME Init PROVE Virtual!Init
  OBVIOUS
<1>1. HostInv
  BY InitInv DEF IndInv
<1>2. Disk = [b \in DiskBytes |-> "old"]
  <2>1. ASSUME NEW b \in DiskBytes PROVE PlainByte(b) = "old"
    <3> DEFINE s == Sec(DataOffset + b)
               d == (DataOffset + b) % Unit
    <3>1. s \in HostSectors /\ d \in Bytes
      BY <2>1, ByteSector, SecOf
    <3> HIDE DEF s, d
    <3>2. host[s].plain[d] = "old"
      BY <3>1 DEF Init, EncryptSector
    <3> QED BY <3>2 DEF PlainByte, s, d
  <2> QED BY <1>1, <2>1, DiskIs
<1>3. \A i \in Irps : VirtualRequest(i) = [state |-> "idle"]
  BY RequestIs DEF Init, Idle
<1> QED BY <1>2, <1>3 DEF Virtual!Init, Virtual!Idle, DiskBytes

\* When every write is of whole sectors, the pipeline of encrypted_io_queue.rs
\* is a disk: read, decrypt and copy, and read, overlay, encrypt and write,
\* each take effect at one moment, however requests interleave and fail.
THEOREM Refinement == WholeSectors => (Spec => ImplementsDisk)
<1> SUFFICES ASSUME WholeSectors PROVE Spec => ImplementsDisk
  OBVIOUS
<1>1. IndInv /\ IndInv' /\ [Next]_vars => [Virtual!Next]_(Virtual!dvars)
  BY StepMaps
<1> QED BY InvHolds, InitMaps, <1>1, PTL DEF Spec, ImplementsDisk, Virtual!Spec

\* When every write is of whole sectors, a write changes the bytes it is asked
\* to write and no others, also when ZwWriteFile fails half-way: the bytes next
\* to a request are lost only by writes of parts of sectors.
THEOREM WholeWritesKeepNeighbours == WholeSectors => (Spec => NeighboursKept)
<1> SUFFICES ASSUME WholeSectors PROVE Spec => NeighboursKept
  OBVIOUS
<1> DEFINE Named(b) == \E i \in Irps : /\ io[i].pc = "write"
                                       /\ b \in io[i].r.off .. io[i].r.off + io[i].r.len - 1
           Kept == \A b \in 0 .. DiskLength - 1 : Disk'[b] # Disk[b] => Named(b)
<1>1. ASSUME IndInv, IndInv', NEW i \in Irps, WriteHost(i) PROVE Kept
  <2> DEFINE r == io[i].r
             n == Params(r).count
  <2>1. /\ io[i].pc = "write" /\ Accepted(r) /\ Whole(r) /\ HostInv'
    BY <1>1 DEF WriteHost, IndInv, IrpInv, Working, WholeSectors
  <2>2. n \in Nat /\ n * Unit = r.len /\ r.off \in Nat /\ r.len \in Nat
    BY <2>1, ParamsNat, WholeIs DEF Accepted
  <2>3. PICK m \in 0 .. n : host' = Stored(i, m)
    <3>1. n \in 0 .. n
      BY <2>2
    <3> QED BY <1>1, <3>1 DEF WriteHost
  <2>4. Disk' = [b \in DiskBytes |->
                   IF b \in r.off .. r.off + m * Unit - 1 THEN i ELSE Disk[b]]
    BY <1>1, <2>1, <2>3, StoredDisk
  <2>5. m * Unit \in Nat /\ m * Unit <= r.len
    <3>1. m \in Nat /\ m <= n
      BY <2>2
    <3> QED BY <2>2, <3>1, Product
  <2> HIDE DEF r, n
  <2>6. \A b \in DiskBytes : Disk'[b] # Disk[b] => b \in r.off .. r.off + r.len - 1
    BY <2>2, <2>4, <2>5
  <2> QED BY <2>1, <2>6 DEF r, DiskBytes
<1>2. ASSUME host' = host PROVE Kept
  BY <1>2, DiskKept
<1>3. IndInv /\ IndInv' /\ [Next]_vars => [Kept]_vars
  <2> SUFFICES ASSUME IndInv, IndInv', [Next]_vars PROVE Kept
    OBVIOUS
  <2> HIDE DEF Kept
  <2>1. host' = host \/ \E i \in Irps : WriteHost(i)
    BY DEF Next, Process, AllDone, AddIrp, CheckParams, Flush, ReadHost,
           DecryptAndCopy, OverlayAndEncrypt, vars
  <2> QED BY <1>1, <1>2, <2>1
<1> QED BY InvHolds, <1>3, PTL DEF Spec, NeighboursKept

=============================================================================
