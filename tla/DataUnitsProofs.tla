--------------------------- MODULE DataUnitsProofs ----------------------------
(***************************************************************************)
(* Proofs about DataUnits.                                                 *)
(*                                                                         *)
(* The argument has three layers.  Passes: every constructor makes the     *)
(* same passes of a cipher and a key, and the passes tell both (PassesAre, *)
(* SamePasses, PassesDiffer).  XTS: a block decrypts to a plaintext under  *)
(* the passes it was encrypted with and under no others (RoundTrip,        *)
(* OnlyRight, NoiseStays).  Header: a part of the header that reads as     *)
(* plaintext was therefore decrypted with the cipher and the derived key   *)
(* it was written with, so that of all candidates and ciphers that opening *)
(* tries at most one is accepted, and it gives back what was written       *)
(* (HitTells, FoundTells, RightOpens).  The derived key tells the pool of  *)
(* the keyfiles, and the pool tells the files (KeyfileProofs), so that     *)
(* opening tells right credentials from wrong ones (OpenTells,             *)
(* OpenSucceeds).  VolumeInv carries this through creation, damage,        *)
(* password changes and sessions.                                          *)
(***************************************************************************)
EXTENDS KeyfileProofs

-----------------------------------------------------------------------------
\* The ciphers

LEMMA CipherNames ==
  CipherTypes =
    {"Aes", "Serpent", "Twofish", "Camellia", "Kuznyechik", "AesTwofish",
     "AesTwofishSerpent", "SerpentAes", "SerpentTwofishAes", "TwofishSerpent",
     "CamelliaKuznyechik", "CamelliaSerpent", "KuznyechikAes",
     "KuznyechikSerpentCamellia", "KuznyechikTwofish"}
BY DEF CipherTypes, AllSupported

LEMMA KdfNames ==
  Kdfs = {"Pbkdf2Sha512", "Pbkdf2Sha256", "Pbkdf2Blake2s", "Pbkdf2Whirlpool",
          "Pbkdf2Streebog", "Argon2id"}
BY DEF Kdfs, AutoKdfs

\* A cipher is a cascade of at most three.
LEMMA OrderIs ==
  ASSUME NEW c \in CipherTypes
  PROVE  /\ Len(VeracryptOrder[c]) \in 1 .. 3
         /\ DOMAIN VeracryptOrder[c] = 1 .. Len(VeracryptOrder[c])
         /\ Len(VeracryptOrder[c]) = 1 => VeracryptOrder[c][1] = c
BY CipherNames DEF VeracryptOrder

LEMMA OrderIsTuple ==
  ASSUME NEW c \in CipherTypes
  PROVE  LET o == VeracryptOrder[c]
         IN  o = <<o[1]>> \/ o = <<o[1], o[2]>> \/ o = <<o[1], o[2], o[3]>>
BY CipherNames DEF VeracryptOrder

LEMMA OrderIsFunction ==
  ASSUME NEW c \in CipherTypes
  PROVE  VeracryptOrder[c] = [i \in 1 .. Len(VeracryptOrder[c]) |-> VeracryptOrder[c][i]]
<1>1. \A o, x : o = <<x>> => o = [i \in 1 .. Len(o) |-> o[i]]
  OBVIOUS
<1>2. \A o, x, y : o = <<x, y>> => o = [i \in 1 .. Len(o) |-> o[i]]
  OBVIOUS
<1>3. \A o, x, y, z : o = <<x, y, z>> => o = [i \in 1 .. Len(o) |-> o[i]]
  OBVIOUS
<1> QED BY <1>1, <1>2, <1>3, OrderIsTuple

LEMMA PairIs ==
  ASSUME NEW x \in CipherTypes, Len(VeracryptOrder[x]) = 2
  PROVE  LET o == VeracryptOrder[x] IN
         \/ x = "AesTwofish" /\ o[1] = "Twofish" /\ o[2] = "Aes"
         \/ x = "SerpentAes" /\ o[1] = "Aes" /\ o[2] = "Serpent"
         \/ x = "TwofishSerpent" /\ o[1] = "Serpent" /\ o[2] = "Twofish"
         \/ x = "CamelliaKuznyechik" /\ o[1] = "Kuznyechik" /\ o[2] = "Camellia"
         \/ x = "CamelliaSerpent" /\ o[1] = "Serpent" /\ o[2] = "Camellia"
         \/ x = "KuznyechikAes" /\ o[1] = "Aes" /\ o[2] = "Kuznyechik"
         \/ x = "KuznyechikTwofish" /\ o[1] = "Twofish" /\ o[2] = "Kuznyechik"
BY CipherNames DEF VeracryptOrder

LEMMA TripleIs ==
  ASSUME NEW x \in CipherTypes, Len(VeracryptOrder[x]) = 3
  PROVE  \/ x = "AesTwofishSerpent" /\ VeracryptOrder[x][1] = "Serpent"
         \/ x = "SerpentTwofishAes" /\ VeracryptOrder[x][1] = "Aes"
         \/ x = "KuznyechikSerpentCamellia" /\ VeracryptOrder[x][1] = "Camellia"
BY CipherNames DEF VeracryptOrder

\* No two ciphers are the same cascade.
LEMMA OrderUnique ==
  ASSUME NEW c \in CipherTypes, NEW d \in CipherTypes,
         Len(VeracryptOrder[c]) = Len(VeracryptOrder[d]),
         \A i \in 1 .. Len(VeracryptOrder[c]) : VeracryptOrder[c][i] = VeracryptOrder[d][i]
  PROVE  c = d
<1> DEFINE n == Len(VeracryptOrder[c])
<1>1. /\ n = 1 => VeracryptOrder[c][1] = VeracryptOrder[d][1]
      /\ n = 2 => /\ VeracryptOrder[c][1] = VeracryptOrder[d][1]
                 /\ VeracryptOrder[c][2] = VeracryptOrder[d][2]
      /\ n = 3 => /\ VeracryptOrder[c][1] = VeracryptOrder[d][1]
                 /\ VeracryptOrder[c][3] = VeracryptOrder[d][3]
  OBVIOUS
<1>2. CASE n = 1
  <2>1. VeracryptOrder[c][1] = c /\ VeracryptOrder[d][1] = d
    BY <1>2, OrderIs
  <2> QED BY <1>1, <1>2, <2>1
<1>3. CASE n = 2
  BY <1>1, <1>3, PairIs
<1>4. CASE n = 3
  BY <1>1, <1>4, TripleIs
<1> QED BY <1>2, <1>3, <1>4, OrderIs

\* The id of a cipher in a mount request leads back to it.
LEMMA EaIs ==
  ASSUME NEW c \in CipherTypes
  PROVE  CipherTypeFromEa(CipherToEa[c]) = c
BY CipherNames DEF CipherTypeFromEa, CipherToEa, Singles, Cascades

-----------------------------------------------------------------------------
\* Passes

\* The key of a cipher, cut from the first bytes of id
KeyOf(id, c) == Key(id, 2 * KeySize(c))

\* The passes of a cipher under it, as every one of the constructors makes them
Passes(c, id) == SectorPasses(c, KeyOf(id, c))

\* Pass i of them
PassOf(c, id, i) ==
  [cipher |-> VeracryptOrder[c][i],
   data |-> [id |-> id, lo |-> 32 * (i - 1), hi |-> 32 * (i - 1) + 32],
   tweak |-> [id |-> id, lo |-> KeySize(c) + 32 * (i - 1), hi |-> KeySize(c) + (32 * (i - 1) + 32)]]

LEMMA SizeIs ==
  ASSUME NEW c \in CipherTypes
  PROVE  CipherCount(c) \in 1 .. 3 /\ KeySize(c) \in Nat /\ KeySize(c) = 32 * CipherCount(c)
BY OrderIs DEF CipherCount, KeySize

\* The driver, user mode and the header make the same passes.
LEMMA SamePasses ==
  ASSUME NEW c, NEW key
  PROVE  KernelPasses(c, key) = SectorPasses(c, key) /\ HeaderPasses(c, key) = SectorPasses(c, key)
BY DEF KernelPasses, SectorPasses, HeaderPasses, BuildCascade, BuildCascadePasses, CipherCount

\* Cutting a long enough key
LEMMA CutKey ==
  ASSUME NEW id, NEW c \in CipherTypes, NEW len \in Nat
  PROVE  Slice(Key(id, len), 0, 2 * KeySize(c)) = KeyOf(id, c)
BY SizeIs DEF Slice, Key, KeyOf

LEMMA PassesAre ==
  ASSUME NEW c \in CipherTypes, NEW id
  PROVE  /\ Len(Passes(c, id)) = CipherCount(c)
         /\ \A i \in 1 .. CipherCount(c) : Passes(c, id)[i] = PassOf(c, id, i)
<1> DEFINE n == CipherCount(c)
           size == KeySize(c)
           key == KeyOf(id, c)
           order == VeracryptOrder[c]
<1>1. n \in 1 .. 3 /\ size \in Nat /\ size = 32 * n /\ DOMAIN order = 1 .. n /\ Len(order) = n
      /\ (n = 1 => order[1] = c)
  BY SizeIs, OrderIs DEF CipherCount
<1>2. key = [id |-> id, lo |-> 0, hi |-> 2 * size] /\ Length(key) = 2 * size
  BY <1>1 DEF KeyOf, Key, Length
<1>3. CASE n = 1
  <2>1. Passes(c, id) = <<XtsPass(c, key)>>
    BY <1>2, <1>3 DEF Passes, SectorPasses
  <2>2. XtsPass(c, key) = PassOf(c, id, 1)
    BY <1>1, <1>2, <1>3 DEF XtsPass, PassOf, Slice
  <2> QED BY <1>1, <1>3, <2>1, <2>2
<1>4. CASE n # 1
  <2> DEFINE halves(i) == CascadePass(order[i], Slice(key, 0, size),
                                      Slice(key, size, 2 * size), 32 * (i - 1))
  <2>1. Passes(c, id) = [i \in 1 .. n |-> halves(i)]
    BY <1>1, <1>2, <1>4 DEF Passes, SectorPasses, BuildCascadePasses
  <2>2. ASSUME NEW i \in 1 .. n PROVE halves(i) = PassOf(c, id, i)
    <3> DEFINE off == 32 * (i - 1)
    <3>1. /\ Slice(key, 0, size) = [id |-> id, lo |-> 0, hi |-> size]
          /\ Slice(key, size, 2 * size) = [id |-> id, lo |-> size, hi |-> 2 * size]
      BY <1>1, <1>2 DEF Slice
    <3>2. off \in Int
      BY <1>1, <2>2
    <3> HIDE DEF off, key
    <3>3. CascadePass(order[i], Slice(key, 0, size), Slice(key, size, 2 * size), off) =
            [cipher |-> order[i], data |-> [id |-> id, lo |-> off, hi |-> off + 32],
             tweak |-> [id |-> id, lo |-> size + off, hi |-> size + (off + 32)]]
      BY <1>1, <3>1, <3>2 DEF CascadePass, Slice
    <3> QED BY <3>3 DEF PassOf, off
  <2> HIDE DEF halves
  <2>3. Len([i \in 1 .. n |-> halves(i)]) = n
    BY <1>1
  <2> QED BY <2>1, <2>2, <2>3
<1> QED BY <1>3, <1>4

LEMMA PassCount ==
  ASSUME NEW c \in CipherTypes, NEW id
  PROVE  Len(Passes(c, id)) \in 1 .. 3
BY PassesAre, SizeIs

-----------------------------------------------------------------------------
\* XTS

\* One pass over a block
Layer(p, unit, block, x) == [op |-> "enc", pass |-> p, unit |-> unit, block |-> block, x |-> x]

LEMMA Adds ==
  ASSUME NEW p, NEW unit, NEW block, NEW x, x.op # "dec"
  PROVE  /\ Apply("enc", p, unit, block, x) = Layer(p, unit, block, x)
         /\ Layer(p, unit, block, x).op = "enc"
BY DEF Apply, Layer

LEMMA Removes ==
  ASSUME NEW p, NEW unit, NEW block, NEW x
  PROVE  Apply("dec", p, unit, block, Layer(p, unit, block, x)) = x
BY DEF Apply, Layer

\* A pass that does not undo the last one cannot be undone by decrypting.
LEMMA Scrambles ==
  ASSUME NEW p, NEW unit, NEW block, NEW x,
         x.op # "enc" \/ \E q, y : q # p /\ x = Layer(q, unit, block, y)
  PROVE  Apply("dec", p, unit, block, x).op = "dec"
BY DEF Apply, Layer

\* A block under all passes
LEMMA Encrypted ==
  ASSUME NEW ps, Len(ps) \in 1 .. 3, NEW unit, NEW block, NEW v
  PROVE  \E one, two, three :
           /\ one = Layer(ps[1], unit, block, Plain(v)) /\ one.op = "enc"
           /\ two = Layer(ps[2], unit, block, one) /\ two.op = "enc"
           /\ three = Layer(ps[3], unit, block, two) /\ three.op = "enc"
           /\ EncryptBlock(ps, unit, block, Plain(v)) =
                CASE Len(ps) = 1 -> one [] Len(ps) = 2 -> two [] Len(ps) = 3 -> three
<1> DEFINE one == Layer(ps[1], unit, block, Plain(v))
           two == Layer(ps[2], unit, block, one)
           three == Layer(ps[3], unit, block, two)
<1>1. one.op = "enc" /\ two.op = "enc" /\ three.op = "enc" /\ Plain(v).op = "plain"
  BY DEF Layer, Plain
<1>2. Apply("enc", ps[1], unit, block, Plain(v)) = one
  BY <1>1, Adds
<1> HIDE DEF one
<1>3. Apply("enc", ps[2], unit, block, one) = two
  BY <1>1, Adds
<1> HIDE DEF two
<1>4. Apply("enc", ps[3], unit, block, two) = three
  BY <1>1, Adds
<1> HIDE DEF three
<1>5. EncryptBlock(ps, unit, block, Plain(v)) =
        CASE Len(ps) = 1 -> one [] Len(ps) = 2 -> two [] Len(ps) = 3 -> three
  BY <1>2, <1>3, <1>4 DEF EncryptBlock
<1> QED BY <1>1, <1>5 DEF one, two, three

\* What was encrypted decrypts under the same passes.
LEMMA RoundTrip ==
  ASSUME NEW ps, Len(ps) \in 1 .. 3, NEW unit, NEW block, NEW v
  PROVE  DecryptBlock(ps, unit, block, EncryptBlock(ps, unit, block, Plain(v))) = Plain(v)
<1>1. PICK one, two, three :
        /\ one = Layer(ps[1], unit, block, Plain(v)) /\ one.op = "enc"
        /\ two = Layer(ps[2], unit, block, one) /\ two.op = "enc"
        /\ three = Layer(ps[3], unit, block, two) /\ three.op = "enc"
        /\ EncryptBlock(ps, unit, block, Plain(v)) =
             CASE Len(ps) = 1 -> one [] Len(ps) = 2 -> two [] Len(ps) = 3 -> three
  BY Encrypted
<1>2. /\ Apply("dec", ps[1], unit, block, one) = Plain(v)
      /\ Apply("dec", ps[2], unit, block, two) = one
      /\ Apply("dec", ps[3], unit, block, three) = two
  BY <1>1, Removes
<1>3. CASE Len(ps) = 1
  BY <1>1, <1>2, <1>3 DEF DecryptBlock
<1>4. CASE Len(ps) = 2
  BY <1>1, <1>2, <1>4 DEF DecryptBlock
<1>5. CASE Len(ps) = 3
  BY <1>1, <1>2, <1>5 DEF DecryptBlock
<1> QED BY <1>3, <1>4, <1>5

\* Nothing else gives a plaintext: the passes and their number have to be right.
LEMMA OnlyRight ==
  ASSUME NEW ps, Len(ps) \in 1 .. 3, NEW qs, Len(qs) \in 1 .. 3, NEW unit, NEW block, NEW v,
         DecryptBlock(qs, unit, block, EncryptBlock(ps, unit, block, Plain(v))).op = "plain"
  PROVE  Len(qs) = Len(ps) /\ \A i \in 1 .. Len(ps) : qs[i] = ps[i]
<1> DEFINE Undo(p, x) == Apply("dec", p, unit, block, x)
<1>1. PICK one, two, three :
        /\ one = Layer(ps[1], unit, block, Plain(v)) /\ one.op = "enc"
        /\ two = Layer(ps[2], unit, block, one) /\ two.op = "enc"
        /\ three = Layer(ps[3], unit, block, two) /\ three.op = "enc"
        /\ EncryptBlock(ps, unit, block, Plain(v)) =
             CASE Len(ps) = 1 -> one [] Len(ps) = 2 -> two [] Len(ps) = 3 -> three
  BY Encrypted
<1> DEFINE e == EncryptBlock(ps, unit, block, Plain(v))
<1>2. /\ Len(ps) = 1 => e = one
      /\ Len(ps) = 2 => e = two
      /\ Len(ps) = 3 => e = three
  BY <1>1
<1>3. /\ Len(qs) = 1 => DecryptBlock(qs, unit, block, e) = Undo(qs[1], e)
      /\ Len(qs) = 2 => DecryptBlock(qs, unit, block, e) = Undo(qs[1], Undo(qs[2], e))
      /\ Len(qs) = 3 => DecryptBlock(qs, unit, block, e) = Undo(qs[1], Undo(qs[2], Undo(qs[3], e)))
  BY DEF DecryptBlock
<1>4. \A p : \/ p = ps[1] /\ Undo(p, one) = Plain(v)
             \/ Undo(p, one).op = "dec"
  BY <1>1, Removes, Scrambles
<1>5. \A p : \/ p = ps[2] /\ Undo(p, two) = one
             \/ Undo(p, two).op = "dec"
  BY <1>1, Removes, Scrambles
<1>6. \A p : \/ p = ps[3] /\ Undo(p, three) = two
             \/ Undo(p, three).op = "dec"
  BY <1>1, Removes, Scrambles
<1>7. \A p, x : x.op # "enc" => Undo(p, x).op = "dec"
  BY Scrambles
<1>8. Plain(v).op = "plain" /\ DecryptBlock(qs, unit, block, e).op = "plain"
  BY DEF Plain
<1>9. one.op = "enc" /\ two.op = "enc"
  BY <1>1
<1> HIDE DEF Undo, e
<1>10. CASE Len(ps) = 1
  BY <1>2, <1>3, <1>4, <1>7, <1>8, <1>10
<1>11. CASE Len(ps) = 2
  BY <1>2, <1>3, <1>4, <1>5, <1>7, <1>8, <1>9, <1>11
<1>12. CASE Len(ps) = 3
  BY <1>2, <1>3, <1>4, <1>5, <1>6, <1>7, <1>8, <1>9, <1>12
<1> QED BY <1>10, <1>11, <1>12

\* Bytes nobody encrypted do not decrypt to a plaintext.
LEMMA NoiseStays ==
  ASSUME NEW qs, Len(qs) \in 1 .. 3, NEW unit, NEW block
  PROVE  DecryptBlock(qs, unit, block, Noise).op = "dec"
<1> DEFINE Undo(p, x) == Apply("dec", p, unit, block, x)
<1>1. Noise.op # "enc" /\ \A p, x : x.op # "enc" => Undo(p, x).op = "dec"
  BY Scrambles DEF Noise
<1>2. /\ Len(qs) = 1 => DecryptBlock(qs, unit, block, Noise) = Undo(qs[1], Noise)
      /\ Len(qs) = 2 => DecryptBlock(qs, unit, block, Noise) = Undo(qs[1], Undo(qs[2], Noise))
      /\ Len(qs) = 3 =>
           DecryptBlock(qs, unit, block, Noise) = Undo(qs[1], Undo(qs[2], Undo(qs[3], Noise)))
  BY DEF DecryptBlock
<1> HIDE DEF Undo
<1> QED BY <1>1, <1>2

\* Passes are told apart by cipher and key.
LEMMA PassesDiffer ==
  ASSUME NEW c \in CipherTypes, NEW d \in CipherTypes, NEW x, NEW y,
         Len(Passes(c, x)) = Len(Passes(d, y)),
         \A i \in 1 .. Len(Passes(d, y)) : Passes(c, x)[i] = Passes(d, y)[i]
  PROVE  c = d /\ x = y
<1>1. /\ CipherCount(c) = CipherCount(d) /\ CipherCount(d) \in 1 .. 3
      /\ \A i \in 1 .. CipherCount(d) : PassOf(c, x, i) = PassOf(d, y, i)
  BY PassesAre, SizeIs
<1>2. \A i \in 1 .. CipherCount(d) : VeracryptOrder[c][i] = VeracryptOrder[d][i]
  <2> TAKE i \in 1 .. CipherCount(d)
  <2>1. PassOf(c, x, i).cipher = PassOf(d, y, i).cipher
    BY <1>1
  <2> QED BY <2>1 DEF PassOf
<1>3. c = d
  BY <1>1, <1>2, OrderUnique DEF CipherCount
<1>4. PassOf(c, x, 1).data.id = PassOf(d, y, 1).data.id
  BY <1>1
<1>5. x = y
  BY <1>4 DEF PassOf
<1> QED BY <1>3, <1>5

-----------------------------------------------------------------------------
\* The header

\* What a derived key depends on
DeriveId(c, pw, salt) == Derive(c, pw, salt, MAX_HEADER_KEY_SIZE).id

LEMMA DerivedKey ==
  ASSUME NEW c, NEW pw, NEW salt, NEW cipher \in CipherTypes
  PROVE  Slice(Derive(c, pw, salt, MAX_HEADER_KEY_SIZE), 0, 2 * KeySize(cipher))
           = KeyOf(DeriveId(c, pw, salt), cipher)
<1>1. Derive(c, pw, salt, MAX_HEADER_KEY_SIZE) = Key(DeriveId(c, pw, salt), MAX_HEADER_KEY_SIZE)
  BY DEF DeriveId, Derive, Argon2id, Pbkdf2, Key
<1>2. MAX_HEADER_KEY_SIZE \in Nat
  BY DEF MAX_HEADER_KEY_SIZE
<1> QED BY <1>1, <1>2, CutKey

LEMMA PooledIs ==
  ASSUME NEW pw, NEW kfs
  PROVE  DOMAIN ApplyKeyfiles(pw, kfs) = {"pw", "pool", "padded"} /\ ApplyKeyfiles(pw, kfs).pw = pw
BY DEF ApplyKeyfiles

\* A derived key tells salt, KDF, cost, password and pool.
LEMMA IdTells ==
  ASSUME NEW c, NEW pw, NEW salt, DOMAIN pw = {"pw", "pool", "padded"}
  PROVE  /\ DeriveId(c, pw, salt).salt = salt
         /\ DeriveId(c, pw, salt).kdf = c.kdf
         /\ DeriveId(c, pw, salt).cost = c.cost
         /\ DeriveId(c, pw, salt).pw.pw = pw.pw
         /\ DeriveId(c, pw, salt).pw.pool = pw.pool
BY DEF DeriveId, Derive, Argon2id, Pbkdf2, Key

VolumeHeader == [keydata |-> Plain("master"), sector_size |-> 512, start |-> 512]

LEMMA PartsArePlain ==
  ASSUME NEW p \in Parts
  PROVE  \E v : SerializeHeader(VolumeHeader)[p] = Plain(v)
BY DEF Parts, SerializeHeader, VolumeHeader

\* What the header on disk was written with
MadeId == DeriveId(MakeKdfCandidate(made.kdf, made.pim), ApplyKeyfiles(made.pw, made.kfs), salts)
WrittenPart(p) ==
  EncryptBlock(Passes(made.cipher, MadeId), 0, PartBlock[p], SerializeHeader(VolumeHeader)[p])

\* The header is the one last written, except for the part that was damaged.
MadeInv ==
  /\ DOMAIN made = {"cipher", "kdf", "pim", "pw", "kfs"}
  /\ made.cipher \in CipherTypes /\ made.kdf \in Kdfs /\ made.pim \in Int
  /\ made.kfs \in KeyfileLists
  /\ salts >= 1
  /\ header.salt = IF "salt" \in damaged THEN 0 ELSE salts
  /\ \A p \in Parts : header.area[p] = IF p \in damaged THEN Noise ELSE WrittenPart(p)

HeaderInv ==
  /\ damaged \subseteq Parts \cup {"salt"}
  /\ salts \in 0 .. MaxChanges + 1
  /\ DOMAIN header = {"salt", "area"} /\ DOMAIN header.area = Parts
  /\ made = <<>> => damaged = {} /\ salts = 0
  /\ made # <<>> => MadeInv

\* What opening tries: a decryption under the passes of a cipher and a derived key
LEMMA TriedIs ==
  ASSUME NEW pw, NEW c, NEW cipher \in CipherTypes, NEW p \in Parts
  PROVE  Decrypted(header, pw, c, cipher)[p] =
           DecryptBlock(Passes(cipher, DeriveId(c, pw, header.salt)), 0, PartBlock[p],
                        header.area[p])
BY DerivedKey, SamePasses DEF Decrypted, DecryptHeaderArea, Passes

\* A part that reads as plaintext is not damaged, was decrypted with the cipher
\* and the key it was written with, and is what was written.
LEMMA PartTells ==
  ASSUME HeaderInv, made # <<>>, NEW p \in Parts, NEW cipher \in CipherTypes, NEW id, NEW x,
         x = DecryptBlock(Passes(cipher, id), 0, PartBlock[p], header.area[p]), x.op = "plain"
  PROVE  /\ p \notin damaged /\ cipher = made.cipher /\ id = MadeId
         /\ x = SerializeHeader(VolumeHeader)[p]
<1> DEFINE qs == Passes(cipher, id)
           ps == Passes(made.cipher, MadeId)
           b == PartBlock[p]
<1>0. made.cipher \in CipherTypes
  BY DEF HeaderInv, MadeInv
<1>1. made.cipher \in CipherTypes /\ Len(qs) \in 1 .. 3 /\ Len(ps) \in 1 .. 3
  BY <1>0, PassCount
<1>2. p \notin damaged
  BY <1>1, NoiseStays DEF HeaderInv, MadeInv
<1>3. PICK v : SerializeHeader(VolumeHeader)[p] = Plain(v)
  BY PartsArePlain
<1>4. header.area[p] = EncryptBlock(ps, 0, b, Plain(v))
  BY <1>2, <1>3 DEF HeaderInv, MadeInv, WrittenPart
<1> HIDE DEF b
<1>5. Len(qs) = Len(ps) /\ \A i \in 1 .. Len(ps) : qs[i] = ps[i]
  BY <1>1, <1>4, OnlyRight DEF b
<1>6. cipher = made.cipher /\ id = MadeId
  BY <1>1, <1>5, PassesDiffer
<1>7. x = Plain(v)
  BY <1>1, <1>4, <1>6, RoundTrip DEF b
<1> QED BY <1>2, <1>3, <1>6, <1>7

\* deserialize_header accepts what was written, undamaged, under the right
\* cipher and key, and nothing else.
LEMMA HitTells ==
  ASSUME HeaderInv, made # <<>>, NEW pw, NEW c, DOMAIN pw = {"pw", "pool", "padded"},
         NEW cipher \in CipherTypes, NEW area, area = Decrypted(header, pw, c, cipher),
         Deserializes(area)
  PROVE  /\ damaged = {} /\ cipher = made.cipher /\ DeriveId(c, pw, salts) = MadeId
         /\ area.keys = Plain("master") /\ area.fields.v.sector_size = 512
         /\ area.fields.v.start = 512
<1> DEFINE id == DeriveId(c, pw, header.salt)
           std == SerializeHeader(VolumeHeader)
<1>1. \A p \in Parts : area[p] = DecryptBlock(Passes(cipher, id), 0, PartBlock[p], header.area[p])
  BY TriedIs
<1>2. "magic" \in Parts /\ "fields" \in Parts /\ "crc" \in Parts /\ "keys" \in Parts
  BY DEF Parts
<1>3. area["magic"].op = "plain" /\ area["fields"].op = "plain" /\ area["crc"].op = "plain"
  BY DEF Deserializes, MagicFits, FieldsFit, HeaderCrcFits
<1>4. \A p \in Parts : area[p].op = "plain" =>
        p \notin damaged /\ cipher = made.cipher /\ id = MadeId /\ area[p] = std[p]
  BY <1>1, PartTells
<1>5. /\ "magic" \notin damaged /\ "fields" \notin damaged /\ "crc" \notin damaged
      /\ cipher = made.cipher /\ id = MadeId
      /\ area["magic"] = std["magic"] /\ area["fields"] = std["fields"]
  BY <1>2, <1>3, <1>4
<1>6. area["keys"] = Plain("master") /\ area["keys"].op = "plain"
  <2>1. area["magic"].v.key_area_crc = Plain("master")
    BY <1>5 DEF SerializeHeader, VolumeHeader, Plain
  <2>2. area["keys"] = Plain("master")
    BY <2>1 DEF Deserializes, KeyAreaCrcFits
  <2> QED BY <2>2 DEF Plain
<1>7. "keys" \notin damaged
  BY <1>2, <1>4, <1>6
<1>8. id.salt = header.salt /\ MadeId.salt = salts
  BY IdTells, PooledIs DEF MadeId
<1>9. "salt" \notin damaged /\ header.salt = salts
  BY <1>5, <1>8 DEF HeaderInv, MadeInv
<1>10. damaged = {}
  BY <1>5, <1>7, <1>9 DEF HeaderInv, Parts
<1>11. area["fields"].v.sector_size = 512 /\ area["fields"].v.start = 512
  BY <1>5 DEF SerializeHeader, VolumeHeader, Plain
<1> QED BY <1>5, <1>6, <1>9, <1>10, <1>11

-----------------------------------------------------------------------------
\* Opening

LEMMA Tried ==
  /\ DOMAIN AllSupported = 1 .. 15
  /\ \A i \in 1 .. 15 : AllSupported[i] \in CipherTypes
  /\ \A i, j \in 1 .. 15 : AllSupported[i] = AllSupported[j] => i = j
  /\ \A c \in CipherTypes : \E i \in 1 .. 15 : AllSupported[i] = c
<1>1. DOMAIN AllSupported = 1 .. 15
  BY DEF AllSupported
<1>2. /\ \A i \in 1 .. 15 : AllSupported[i] \in CipherTypes
      /\ \A c \in CipherTypes : \E i \in 1 .. 15 : AllSupported[i] = c
  BY <1>1 DEF CipherTypes
<1>3. \A i, j \in 1 .. 15 : AllSupported[i] = AllSupported[j] => i = j
  BY DEF AllSupported
<1> QED BY <1>1, <1>2, <1>3

\* Candidates name a KDF once.
Distinct(cands) ==
  /\ DOMAIN cands \subseteq Nat
  /\ \A k, l \in DOMAIN cands : cands[k].kdf = cands[l].kdf => k = l

LEMMA CandidatesDiffer ==
  ASSUME NEW a
  PROVE  Distinct(Candidates(a))
<1>1. CASE a.kdf = AnyKdf
  <2>1. DOMAIN AutoKdfs = 1 .. 6 /\ \A k, l \in 1 .. 6 : AutoKdfs[k] = AutoKdfs[l] => k = l
    BY DEF AutoKdfs
  <2>2. Candidates(a) = [i \in 1 .. 6 |-> MakeKdfCandidate(AutoKdfs[i], PimOr0(a.pim))]
    BY <1>1, <2>1 DEF Candidates, AutoKdfCandidates
  <2>3. \A i \in 1 .. 6 : Candidates(a)[i].kdf = AutoKdfs[i]
    BY <2>2 DEF MakeKdfCandidate
  <2> QED BY <2>1, <2>2, <2>3 DEF Distinct
<1>2. CASE a.kdf # AnyKdf
  BY <1>2 DEF Candidates, Distinct
<1> QED BY <1>1, <1>2

\* A header opened
Opened(c) ==
  [cipher |-> made.cipher, kdf |-> c.kdf, pim |-> c.pim,
   master_key |-> KeyOf(Plain("master"), made.cipher), keydata |-> Plain("master"),
   sector_size |-> 512, start |-> 512]

\* There is at most one hit, whatever the order of trying, and it is the volume.
LEMMA FoundTells ==
  ASSUME HeaderInv, made # <<>>, NEW pw, DOMAIN pw = {"pw", "pool", "padded"},
         NEW cands, Distinct(cands), NEW found, found = TryOpen(header, pw, cands),
         found # AuthFailed
  PROVE  /\ damaged = {}
         /\ \E k \in DOMAIN cands :
              DeriveId(cands[k], pw, salts) = MadeId /\ found = Opened(cands[k])
<1> DEFINE Try(k, i) == Decrypted(header, pw, cands[k], AllSupported[i])
           hits == {x \in (DOMAIN cands) \X (DOMAIN AllSupported) : Deserializes(Try(x[1], x[2]))}
           Before(x, y) == x[1] < y[1] \/ (x[1] = y[1] /\ x[2] <= y[2])
           first == CHOOSE x \in hits : \A y \in hits : Before(x, y)
<1>1. /\ found = OpenResult(Try(first[1], first[2]), cands[first[1]], AllSupported[first[2]])
      /\ hits # {}
  BY DEF TryOpen
<1>2. ASSUME NEW x \in hits
      PROVE  /\ x[1] \in DOMAIN cands /\ x[2] \in 1 .. 15 /\ x = <<x[1], x[2]>>
             /\ damaged = {} /\ AllSupported[x[2]] = made.cipher
             /\ DeriveId(cands[x[1]], pw, salts) = MadeId
             /\ Try(x[1], x[2]).keys = Plain("master")
             /\ Try(x[1], x[2]).fields.v.sector_size = 512
             /\ Try(x[1], x[2]).fields.v.start = 512
  <2>1. /\ x[1] \in DOMAIN cands /\ x[2] \in 1 .. 15 /\ x = <<x[1], x[2]>>
        /\ Deserializes(Try(x[1], x[2])) /\ AllSupported[x[2]] \in CipherTypes
    BY <1>2, Tried
  <2> QED BY <2>1, HitTells
<1> HIDE DEF hits, Try
<1>3. \A x, y \in hits : x = y
  <2> SUFFICES ASSUME NEW x \in hits, NEW y \in hits PROVE x = y
    OBVIOUS
  <2>1. x[2] = y[2]
    BY <1>2, Tried
  <2>2. \A z \in hits : cands[z[1]].kdf = MadeId.kdf
    BY <1>2, IdTells
  <2>3. x[1] = y[1]
    BY <1>2, <2>2 DEF Distinct
  <2> QED BY <1>2, <2>1, <2>3
<1>4. first \in hits
  <2>1. PICK x \in hits : TRUE
    BY <1>1
  <2>2. \A y \in hits : Before(x, y)
    BY <1>2, <1>3
  <2> HIDE DEF Before
  <2> QED BY <2>1, <2>2
<1> HIDE DEF first
<1>5. made.cipher \in CipherTypes /\ MASTER_KEYDATA_SIZE \in Nat
  BY DEF HeaderInv, MadeInv, MASTER_KEYDATA_SIZE
<1>6. Slice(Key(Plain("master"), MASTER_KEYDATA_SIZE), 0, 2 * KeySize(made.cipher))
        = KeyOf(Plain("master"), made.cipher)
  BY <1>5, CutKey
<1>7. found = Opened(cands[first[1]])
  BY <1>1, <1>2, <1>4, <1>6 DEF OpenResult, Opened
<1> QED BY <1>2, <1>4, <1>7

\* The right credentials open an undamaged header.
LEMMA RightOpens ==
  ASSUME HeaderInv, made # <<>>, damaged = {}, NEW pw, NEW cands, NEW k \in DOMAIN cands,
         DeriveId(cands[k], pw, salts) = MadeId
  PROVE  TryOpen(header, pw, cands) # AuthFailed
<1> DEFINE Try(l, i) == Decrypted(header, pw, cands[l], AllSupported[i])
           hits == {x \in (DOMAIN cands) \X (DOMAIN AllSupported) : Deserializes(Try(x[1], x[2]))}
           std == SerializeHeader(VolumeHeader)
<1>1. made.cipher \in CipherTypes /\ header.salt = salts
      /\ \A p \in Parts : header.area[p] = WrittenPart(p)
  BY DEF HeaderInv, MadeInv
<1>2. PICK i \in 1 .. 15 : AllSupported[i] = made.cipher
  BY <1>1, Tried
<1>3. ASSUME NEW p \in Parts PROVE Try(k, i)[p] = std[p]
  <2>1. PICK v : std[p] = Plain(v)
    BY <1>3, PartsArePlain
  <2>2. Try(k, i)[p] =
          DecryptBlock(Passes(made.cipher, MadeId), 0, PartBlock[p], header.area[p])
    BY <1>1, <1>2, <1>3, TriedIs
  <2>3. Len(Passes(made.cipher, MadeId)) \in 1 .. 3
    BY <1>1, PassCount
  <2> QED BY <1>1, <1>3, <2>1, <2>2, <2>3, RoundTrip DEF WrittenPart
<1>4. /\ Try(k, i).magic = std.magic /\ Try(k, i).fields = std.fields
      /\ Try(k, i).crc = std.crc /\ Try(k, i).keys = std.keys
  BY <1>3 DEF Parts
<1> HIDE DEF Try
<1>5. Deserializes(Try(k, i))
  BY <1>4 DEF Deserializes, MagicFits, FieldsFit, HeaderCrcFits, KeyAreaCrcFits, SerializeHeader,
              VolumeHeader, Plain
<1>6. <<k, i>> \in hits
  BY <1>2, <1>5, Tried
<1>7. \A area, c, cipher : OpenResult(area, c, cipher) # AuthFailed
  BY DEF OpenResult, AuthFailed
<1> QED BY <1>6, <1>7 DEF TryOpen, Try

-----------------------------------------------------------------------------
\* The inductive invariant

\* Every session has the cipher, the key and the passes of the volume.
VolumePasses == Passes(made.cipher, Plain("master"))
SessionInv ==
  session # Closed =>
    /\ made # <<>> /\ session.kind \in {"rw", "ro", "driver"}
    /\ session.cipher = made.cipher
    /\ session.master_key = KeyOf(Plain("master"), made.cipher)
    /\ session.passes = VolumePasses

ResultInv ==
  /\ result # <<>> => made # <<>> /\ result.attempt \in Attempts /\ result.ok \in BOOLEAN
  /\ OpenIffRight

\* The sectors that were written hold their values, each a data unit.
DataInv ==
  \A s \in Sectors : written[s] # "never" =>
    made # <<>> /\ data[s] = EncryptBlock(VolumePasses, s, 0, Plain(written[s]))

StoreInv ==
  /\ DOMAIN data = Sectors
  /\ written \in [Sectors -> Values \cup {"never"}]
  /\ answer # <<>> => answer.sector \in Sectors

VolumeInv == HeaderInv /\ SessionInv /\ ResultInv /\ StoreInv

-----------------------------------------------------------------------------
\* Credentials

\* The cost of a KDF tells the PIM, no PIM and the default being the same.
LEMMA CostTells ==
  ASSUME NEW kdf, NEW p \in Int, NEW q \in Int
  PROVE  MakeKdfCandidate(kdf, p).cost = MakeKdfCandidate(kdf, q).cost
           <=> EffectivePim(kdf, p) = EffectivePim(kdf, q)
<1>1. CASE kdf # "Argon2id"
  <2>1. /\ MakeKdfCandidate(kdf, p).cost = <<GetIterationCount(p)>>
        /\ MakeKdfCandidate(kdf, q).cost = <<GetIterationCount(q)>>
    BY <1>1 DEF MakeKdfCandidate
  <2>2. GetIterationCount(p) = GetIterationCount(q) <=> EffectivePim(kdf, p) = EffectivePim(kdf, q)
    BY <1>1 DEF GetIterationCount, EffectivePim
  <2> QED BY <2>1, <2>2
<1>2. CASE kdf = "Argon2id"
  <2> DEFINE x == EffectivePim(kdf, p)
             y == EffectivePim(kdf, q)
             Mem(n) == Smaller(64 + (n - 1) * 32, 1024)
             Time(n) == IF n <= 31 THEN 3 + (n - 1) \div 3 ELSE 13 + (n - 31)
  <2>1. x \in Nat /\ y \in Nat
    BY DEF EffectivePim
  <2>2. /\ MakeKdfCandidate(kdf, p).cost = <<Mem(x), Time(x)>>
        /\ MakeKdfCandidate(kdf, q).cost = <<Mem(y), Time(y)>>
    BY <1>2 DEF MakeKdfCandidate, ParamsForPim, EffectivePim
  <2> HIDE DEF x, y
  <2>3. x < y => Mem(x) # Mem(y) \/ Time(x) # Time(y)
    BY <2>1 DEF Smaller
  <2>4. y < x => Mem(x) # Mem(y) \/ Time(x) # Time(y)
    BY <2>1 DEF Smaller
  <2> HIDE DEF Mem, Time
  <2>5. x = y <=> <<Mem(x), Time(x)>> = <<Mem(y), Time(y)>>
    BY <2>1, <2>3, <2>4
  <2> QED BY <2>2, <2>5 DEF x, y
<1> QED BY <1>1, <1>2

IsAttempt(a) ==
  /\ DOMAIN a = {"kdf", "pim", "pw", "kfs"}
  /\ a.kdf \in Kdfs \cup {AnyKdf} /\ a.pim \in Int
  /\ a.kfs \in KeyfileLists

LEMMA PimIs ==
  ASSUME NEW a, IsAttempt(a), NEW kdf
  PROVE  PimOr0(a.pim) \in Int /\ EffectivePim(kdf, a.pim) = EffectivePim(kdf, PimOr0(a.pim))
BY DEF IsAttempt, PimOr0, NoPim, EffectivePim

\* The credentials of an attempt, but for the keyfiles
Right(a) ==
  /\ damaged = {} /\ a.pw = made.pw
  /\ EffectivePim(made.kdf, a.pim) = EffectivePim(made.kdf, made.pim)

\* The keyfiles of an attempt: when two lists can be compared, and when they agree
BothRegular(a) == Regular(a.kfs) /\ Regular(made.kfs)
RightFiles(a) == a.kfs = made.kfs \/ (BothRegular(a) /\ SameFiles(a.kfs, made.kfs))

\* Opening finds the volume and only with the right credentials.
LEMMA OpenTells ==
  ASSUME HeaderInv, made # <<>>, NEW a, IsAttempt(a), OpenVolumeFile(a) # AuthFailed
  PROVE  /\ Right(a) /\ a.kdf \in {AnyKdf, made.kdf}
         /\ BothRegular(a) => SameFiles(a.kfs, made.kfs)
         /\ OpenVolumeFile(a) = Opened(MakeKdfCandidate(made.kdf, PimOr0(a.pim)))
<1> DEFINE pw == ApplyKeyfiles(a.pw, a.kfs)
           cands == Candidates(a)
           pim == PimOr0(a.pim)
           mine == MakeKdfCandidate(made.kdf, made.pim)
<1>1. PICK k \in DOMAIN cands :
        /\ damaged = {} /\ DeriveId(cands[k], pw, salts) = MadeId
        /\ OpenVolumeFile(a) = Opened(cands[k])
  BY PooledIs, CandidatesDiffer, FoundTells DEF OpenVolumeFile
<1>2. \E kdf : cands[k] = MakeKdfCandidate(kdf, pim) /\ (a.kdf = AnyKdf \/ kdf = a.kdf)
  <2>1. CASE a.kdf = AnyKdf
    BY <1>1, <2>1 DEF Candidates, AutoKdfCandidates
  <2>2. CASE a.kdf # AnyKdf
    BY <1>1, <2>2 DEF Candidates
  <2> QED BY <2>1, <2>2
<1>3. PICK kdf : cands[k] = MakeKdfCandidate(kdf, pim) /\ (a.kdf = AnyKdf \/ kdf = a.kdf)
  BY <1>2
<1> HIDE DEF cands, pim, pw
<1>4. DOMAIN pw = {"pw", "pool", "padded"} /\ pw.pw = a.pw
  BY PooledIs DEF pw
<1>5. /\ MadeId.kdf = kdf /\ MadeId.cost = cands[k].cost /\ MadeId.pw.pw = a.pw
      /\ MadeId.pw.pool = pw.pool
  <2>1. DeriveId(cands[k], pw, salts).kdf = cands[k].kdf
    BY <1>4, IdTells
  <2>2. /\ DeriveId(cands[k], pw, salts).cost = cands[k].cost
        /\ DeriveId(cands[k], pw, salts).pw.pw = pw.pw
        /\ DeriveId(cands[k], pw, salts).pw.pool = pw.pool
    BY <1>4, IdTells
  <2>3. cands[k].kdf = kdf
    BY <1>3 DEF MakeKdfCandidate
  <2> QED BY <1>1, <1>4, <2>1, <2>2, <2>3
<1>6. /\ MadeId.kdf = made.kdf /\ MadeId.cost = mine.cost /\ MadeId.pw.pw = made.pw
      /\ MadeId.pw.pool = ApplyKeyfiles(made.pw, made.kfs).pool
  <2> DEFINE mpw == ApplyKeyfiles(made.pw, made.kfs)
  <2>1. DOMAIN mpw = {"pw", "pool", "padded"} /\ mpw.pw = made.pw
    BY PooledIs
  <2>2. MadeId = DeriveId(mine, mpw, salts)
    BY DEF MadeId
  <2>3. mine.kdf = made.kdf
    BY DEF MakeKdfCandidate
  <2> HIDE DEF mpw, mine
  <2>4. /\ MadeId.kdf = mine.kdf /\ MadeId.cost = mine.cost /\ MadeId.pw.pw = mpw.pw
        /\ MadeId.pw.pool = mpw.pool
    BY <2>1, <2>2, IdTells
  <2> QED BY <2>1, <2>3, <2>4 DEF mpw
<1>7. kdf = made.kdf /\ a.pw = made.pw
  BY <1>5, <1>6
<1>8. made.pim \in Int /\ pim \in Int /\ EffectivePim(made.kdf, a.pim) = EffectivePim(made.kdf, pim)
  BY PimIs DEF HeaderInv, MadeInv, pim
<1>9. MakeKdfCandidate(made.kdf, pim).cost = MakeKdfCandidate(made.kdf, made.pim).cost
  BY <1>3, <1>5, <1>6, <1>7
<1>10. EffectivePim(made.kdf, pim) = EffectivePim(made.kdf, made.pim)
  BY <1>8, <1>9, CostTells
<1>11. OpenVolumeFile(a) = Opened(MakeKdfCandidate(made.kdf, pim))
  BY <1>1, <1>3, <1>7
<1>12. BothRegular(a) => SameFiles(a.kfs, made.kfs)
  <2>1. a.kfs \in KeyfileLists /\ made.kfs \in KeyfileLists
    BY DEF IsAttempt, HeaderInv, MadeInv
  <2>2. ApplyKeyfiles(a.pw, a.kfs).pool = ApplyKeyfiles(made.pw, made.kfs).pool
    BY <1>5, <1>6 DEF pw
  <2> QED BY <2>1, <2>2, KeyfilesTold DEF BothRegular
<1> QED BY <1>1, <1>3, <1>7, <1>8, <1>10, <1>11, <1>12 DEF Right, pim

\* The right keyfiles give the password the same pool.
LEMMA SamePool ==
  ASSUME HeaderInv, made # <<>>, NEW a, IsAttempt(a), a.pw = made.pw, RightFiles(a)
  PROVE  ApplyKeyfiles(a.pw, a.kfs) = ApplyKeyfiles(made.pw, made.kfs)
<1>1. a.kfs \in KeyfileLists /\ made.kfs \in KeyfileLists
  BY DEF IsAttempt, HeaderInv, MadeInv
<1>2. CASE a.kfs = made.kfs
  BY <1>2
<1>3. CASE BothRegular(a) /\ SameFiles(a.kfs, made.kfs)
  BY <1>1, <1>3, KeyfilesTold DEF BothRegular
<1> QED BY <1>2, <1>3 DEF RightFiles

\* The right credentials and keyfiles open the volume.
LEMMA OpenSucceeds ==
  ASSUME HeaderInv, made # <<>>, NEW a, IsAttempt(a), Right(a), RightFiles(a),
         a.kdf \in {AnyKdf, made.kdf}
  PROVE  OpenVolumeFile(a) # AuthFailed
<1> DEFINE cands == Candidates(a)
           pim == PimOr0(a.pim)
           c == MakeKdfCandidate(made.kdf, pim)
           pw == ApplyKeyfiles(a.pw, a.kfs)
<1>1. made.kdf \in Kdfs /\ made.pim \in Int /\ pim \in Int
      /\ EffectivePim(made.kdf, a.pim) = EffectivePim(made.kdf, pim)
  BY PimIs DEF HeaderInv, MadeInv
<1>2. \E k \in DOMAIN cands : cands[k] = c
  <2>1. CASE a.kdf = AnyKdf
    <3>1. PICK k \in DOMAIN AutoKdfs : AutoKdfs[k] = made.kdf
      BY <1>1 DEF Kdfs
    <3>2. k \in DOMAIN cands /\ cands[k] = c
      BY <2>1, <3>1 DEF Candidates, AutoKdfCandidates
    <3> QED BY <3>2
  <2>2. CASE a.kdf # AnyKdf
    <3>1. cands = <<c>>
      BY <2>2 DEF Candidates
    <3> QED BY <3>1
  <2> QED BY <2>1, <2>2
<1>3. c.cost = MakeKdfCandidate(made.kdf, made.pim).cost
  BY <1>1, CostTells DEF Right
<1>4. c.kdf = made.kdf /\ MakeKdfCandidate(made.kdf, made.pim).kdf = made.kdf
  BY DEF MakeKdfCandidate
<1> HIDE DEF c, cands
<1>5. DeriveId(c, pw, salts) = DeriveId(MakeKdfCandidate(made.kdf, made.pim), pw, salts)
  BY <1>3, <1>4 DEF DeriveId, Derive, Argon2id, Pbkdf2
<1>6. DeriveId(c, pw, salts) = MadeId
  BY <1>5, SamePool DEF MadeId, Right
<1>7. damaged = {}
  BY DEF Right
<1> QED BY <1>2, <1>6, <1>7, RightOpens DEF OpenVolumeFile, cands

LEMMA AutoAttempt ==
  ASSUME NEW a, IsAttempt(a), NEW b, b = [a EXCEPT !.kdf = AnyKdf]
  PROVE  /\ IsAttempt(b) /\ b.kdf = AnyKdf /\ b.pim = a.pim /\ b.pw = a.pw /\ b.kfs = a.kfs
         /\ Right(b) <=> Right(a)
         /\ BothRegular(b) <=> BothRegular(a)
         /\ RightFiles(b) <=> RightFiles(a)
<1>1. IsAttempt(b) /\ b.kdf = AnyKdf /\ b.pim = a.pim /\ b.pw = a.pw /\ b.kfs = a.kfs
  BY DEF IsAttempt
<1> QED BY <1>1 DEF Right, BothRegular, RightFiles

\* The same of mounting, which detects the KDF
LEMMA MountTells ==
  ASSUME HeaderInv, made # <<>>, NEW a, IsAttempt(a)
  PROVE  /\ OpenForMount(a) # AuthFailed =>
              /\ Right(a) /\ OpenForMount(a) = Opened(MakeKdfCandidate(made.kdf, PimOr0(a.pim)))
              /\ BothRegular(a) => SameFiles(a.kfs, made.kfs)
         /\ Right(a) /\ RightFiles(a) => OpenForMount(a) # AuthFailed
<1> DEFINE b == [a EXCEPT !.kdf = AnyKdf]
           found == OpenVolumeFile(b)
           opened == Opened(MakeKdfCandidate(made.kdf, PimOr0(a.pim)))
           files == BothRegular(a) => SameFiles(a.kfs, made.kfs)
<1>1. /\ IsAttempt(b) /\ b.kdf = AnyKdf /\ b.pim = a.pim /\ b.pw = a.pw /\ b.kfs = a.kfs
      /\ Right(b) <=> Right(a)
      /\ BothRegular(b) <=> BothRegular(a)
      /\ RightFiles(b) <=> RightFiles(a)
  BY AutoAttempt
<1>2. OpenForMount(a) = IF found # AuthFailed \/ a.kdf = AnyKdf THEN found ELSE OpenVolumeFile(a)
  BY DEF OpenForMount
<1> HIDE DEF b
<1>3. found # AuthFailed => Right(a) /\ found = opened /\ files
  BY <1>1, OpenTells
<1>4. OpenVolumeFile(a) # AuthFailed => Right(a) /\ OpenVolumeFile(a) = opened /\ files
  BY OpenTells
<1>5. Right(a) /\ RightFiles(a) => found # AuthFailed
  BY <1>1, OpenSucceeds
<1> HIDE DEF found, opened, files
<1>6. OpenForMount(a) # AuthFailed => Right(a) /\ OpenForMount(a) = opened /\ files
  BY <1>2, <1>3, <1>4
<1>7. Right(a) /\ RightFiles(a) => OpenForMount(a) # AuthFailed
  BY <1>2, <1>5
<1> QED BY <1>6, <1>7 DEF opened, files

-----------------------------------------------------------------------------
\* The header under each step

LEMMA MadeSome ==
  ASSUME NEW c, DOMAIN c = {"cipher", "kdf", "pim", "pw", "kfs"}
  PROVE  c # <<>>
<1>1. "cipher" \in DOMAIN c
  OBVIOUS
<1>2. "cipher" \notin DOMAIN <<>>
  OBVIOUS
<1> QED BY <1>1, <1>2

\* Writing a header, for a new volume or a new password
LEMMA NewHeaderInv ==
  ASSUME NEW h, h.keydata = Plain("master"), h.sector_size = 512, h.start = 512,
         damaged' = {}, salts' \in 1 .. MaxChanges + 1,
         DOMAIN made' = {"cipher", "kdf", "pim", "pw", "kfs"},
         made'.cipher \in CipherTypes, made'.kdf \in Kdfs, made'.pim \in Int,
         made'.kfs \in KeyfileLists,
         header' = NewHeader(h, MakeKdfCandidate(made'.kdf, made'.pim),
                             ApplyKeyfiles(made'.pw, made'.kfs), salts', made'.cipher)
  PROVE  HeaderInv'
<1> DEFINE c == MakeKdfCandidate(made'.kdf, made'.pim)
           pw == ApplyKeyfiles(made'.pw, made'.kfs)
           id == DeriveId(c, pw, salts')
           ps == Passes(made'.cipher, id)
           std == SerializeHeader(VolumeHeader)
<1>1. SerializeHeader(h) = std
  BY DEF SerializeHeader, VolumeHeader
<1>2. HeaderPasses(made'.cipher, HeaderKey(c, pw, salts', made'.cipher)) = ps
  BY DerivedKey, SamePasses DEF HeaderKey, Passes
<1>3. header' = [salt |-> salts',
                 area |-> [p \in Parts |-> EncryptBlock(ps, 0, PartBlock[p], std[p])]]
  BY <1>1, <1>2 DEF NewHeader, EncryptHeaderArea
<1>4. MadeId' = id
  BY DEF MadeId
<1> HIDE DEF id, std
<1>5. \A p \in Parts : WrittenPart(p)' = EncryptBlock(ps, 0, PartBlock[p], std[p])
  BY <1>4 DEF WrittenPart, std
<1> HIDE DEF ps
<1>6. \A p \in Parts : header'.area[p] = WrittenPart(p)'
  BY <1>3, <1>5
<1>7. MadeInv'
  BY <1>3, <1>6 DEF MadeInv
<1>8. DOMAIN header' = {"salt", "area"} /\ DOMAIN header'.area = Parts
  BY <1>3
<1>9. made' # <<>>
  BY MadeSome
<1>10. salts' \in 0 .. MaxChanges + 1
  BY BoundsAssumption
<1> QED BY <1>7, <1>8, <1>9, <1>10 DEF HeaderInv

LEMMA HeaderStays ==
  ASSUME HeaderInv, UNCHANGED <<header, made, damaged, salts>>
  PROVE  HeaderInv'
<1>1. header' = header /\ made' = made /\ damaged' = damaged /\ salts' = salts
  OBVIOUS
<1>2. \A p : WrittenPart(p)' = WrittenPart(p)
  BY <1>1 DEF WrittenPart, MadeId
<1>3. made # <<>> => MadeInv'
  BY <1>1, <1>2 DEF HeaderInv, MadeInv
<1> QED BY <1>1, <1>3 DEF HeaderInv

LEMMA CreateHeader ==
  ASSUME HeaderInv, NEW c \in Creations, Create(c)
  PROVE  HeaderInv'
<1>1. /\ DOMAIN c = {"cipher", "kdf", "pim", "pw", "kfs"}
      /\ c.cipher \in CipherTypes /\ c.kdf \in Kdfs /\ c.pim \in Int /\ c.kfs \in KeyfileLists
  BY CreationAssumption
<1>2. made' = c /\ damaged' = {} /\ salts' = 1
  BY DEF Create, HeaderInv
<1>3. salts' \in 1 .. MaxChanges + 1
  BY <1>2, BoundsAssumption
<1>4. /\ VolumeHeader.keydata = Plain("master") /\ VolumeHeader.sector_size = 512
      /\ VolumeHeader.start = 512
  BY DEF VolumeHeader
<1>5. header' = NewHeader(VolumeHeader, MakeKdfCandidate(c.kdf, c.pim),
                          ApplyKeyfiles(c.pw, c.kfs), salts', c.cipher)
  BY DEF Create, VolumeHeader
<1> QED BY <1>1, <1>2, <1>3, <1>4, <1>5, NewHeaderInv

LEMMA DamageHeader ==
  ASSUME HeaderInv, NEW part \in Parts \cup {"salt"}, Damage(part)
  PROVE  HeaderInv'
<1>1. /\ made # <<>> /\ damaged = {} /\ made' = made /\ salts' = salts /\ damaged' = {part}
      /\ MadeInv /\ DOMAIN header = {"salt", "area"} /\ DOMAIN header.area = Parts
      /\ salts \in 0 .. MaxChanges + 1
  BY DEF Damage, HeaderInv
<1>2. \A p : WrittenPart(p)' = WrittenPart(p)
  BY <1>1 DEF WrittenPart, MadeId
<1>3. CASE part = "salt"
  <2>1. header' = [header EXCEPT !.salt = 0]
    BY <1>3 DEF Damage
  <2>2. "salt" \notin Parts
    BY DEF Parts
  <2> QED BY <1>1, <1>2, <1>3, <2>1, <2>2 DEF HeaderInv, MadeInv
<1>4. CASE part # "salt"
  <2>1. header' = [header EXCEPT !.area[part] = Noise] /\ part \in Parts
    BY <1>4 DEF Damage
  <2>2. /\ DOMAIN header' = {"salt", "area"} /\ header'.salt = header.salt
        /\ header'.area = [header.area EXCEPT ![part] = Noise]
    BY <1>1, <2>1
  <2>3. \A p \in Parts : header'.area[p] = IF p = part THEN Noise ELSE header.area[p]
    BY <1>1, <2>2
  <2>4. MadeInv'
    BY <1>1, <1>2, <1>4, <2>2, <2>3 DEF MadeInv
  <2> QED BY <1>1, <2>1, <2>2, <2>4 DEF HeaderInv
<1> QED BY <1>3, <1>4

\* A password change keeps cipher, master key and data area.
LEMMA ChangeHeader ==
  ASSUME HeaderInv, NEW a \in Attempts, NEW pw, NEW kfs \in KeyfileLists,
         ChangePassword(a, pw, kfs)
  PROVE  HeaderInv' /\ made # <<>> /\ made' # <<>> /\ made'.cipher = made.cipher
<1> DEFINE b == [a EXCEPT !.kdf = AnyKdf]
           old == OpenVolumeFile(b)
           kdf == IF a.kdf = AnyKdf THEN old.kdf ELSE a.kdf
           pim == PimOr0(a.pim)
<1>1. IsAttempt(a)
  BY AttemptAssumption DEF IsAttempt
<1>2. made # <<>> /\ old # AuthFailed /\ salts <= MaxChanges /\ salts' = salts + 1
      /\ damaged' = damaged
  BY DEF ChangePassword
<1>3. IsAttempt(b) /\ b.pim = a.pim
  BY <1>1, AutoAttempt
<1> HIDE DEF b
<1>4. damaged = {} /\ old = Opened(MakeKdfCandidate(made.kdf, pim))
  BY <1>2, <1>3, OpenTells DEF Right
<1>5. /\ old.cipher = made.cipher /\ old.kdf = made.kdf /\ old.keydata = Plain("master")
      /\ old.sector_size = 512 /\ old.start = 512
  BY <1>4 DEF Opened, MakeKdfCandidate
<1>6. MadeInv /\ salts \in 0 .. MaxChanges + 1
  BY <1>2 DEF HeaderInv
<1>7. pim \in Int /\ kdf \in Kdfs
  BY <1>1, <1>5, <1>6, PimIs DEF IsAttempt, MadeInv
<1>8. salts' \in 1 .. MaxChanges + 1
  BY <1>2, <1>6, BoundsAssumption
<1>9. /\ header' = NewHeader(old, MakeKdfCandidate(kdf, pim), ApplyKeyfiles(pw, kfs), salts',
                             old.cipher)
      /\ made' = [made EXCEPT !.kdf = kdf, !.pim = pim, !.pw = pw, !.kfs = kfs]
  BY DEF ChangePassword, b
<1> HIDE DEF old, kdf, pim
<1>10. /\ DOMAIN made' = {"cipher", "kdf", "pim", "pw", "kfs"}
       /\ made'.cipher = made.cipher /\ made'.kdf = kdf /\ made'.pim = pim
       /\ made'.pw = pw /\ made'.kfs = kfs
  BY <1>6, <1>9 DEF MadeInv
<1>11. made'.cipher \in CipherTypes
  BY <1>6, <1>10 DEF MadeInv
<1>12. header' = NewHeader(old, MakeKdfCandidate(made'.kdf, made'.pim),
                           ApplyKeyfiles(made'.pw, made'.kfs), salts', made'.cipher)
  BY <1>5, <1>9, <1>10
<1>13. HeaderInv'
  BY <1>2, <1>4, <1>5, <1>7, <1>8, <1>10, <1>11, <1>12, NewHeaderInv
<1> QED BY <1>2, <1>10, <1>13, MadeSome

-----------------------------------------------------------------------------
\* Sessions and their results under each step

\* A session that begins has what the header holds.
LEMMA BeginInv ==
  ASSUME NEW kinds, kinds \subseteq {"rw", "ro", "driver"}, NEW a \in Attempts, NEW found,
         NEW passes, Begin(kinds, a, found, passes), NEW c,
         found # AuthFailed => found = Opened(c) /\ passes = VolumePasses
  PROVE  SessionInv'
<1>1. PICK kind \in kinds :
        session' = IF found = AuthFailed THEN Closed
                   ELSE [kind |-> kind, cipher |-> found.cipher,
                         master_key |-> found.master_key, passes |-> passes]
  BY DEF Begin
<1>2. made' = made /\ made # <<>>
  BY DEF Begin
<1>3. VolumePasses' = VolumePasses
  BY <1>2 DEF VolumePasses
<1>4. found # AuthFailed =>
        found.cipher = made.cipher /\ found.master_key = KeyOf(Plain("master"), made.cipher)
  BY DEF Opened
<1>5. CASE found = AuthFailed
  BY <1>1, <1>5 DEF SessionInv
<1>6. CASE found # AuthFailed
  <2>1. /\ session'.kind = kind /\ session'.cipher = made.cipher
        /\ session'.master_key = KeyOf(Plain("master"), made.cipher)
        /\ session'.passes = VolumePasses
    BY <1>1, <1>4, <1>6
  <2> QED BY <1>2, <1>3, <2>1 DEF SessionInv
<1> QED BY <1>5, <1>6

RightKdf(a, kind) == a.kdf \in {AnyKdf, made.kdf} \/ kind = "driver"

\* The result of an attempt says whether its credentials were right.
LEMMA BeginResult ==
  ASSUME NEW kinds, NEW a \in Attempts, NEW found, NEW passes, Begin(kinds, a, found, passes),
         \A kind \in kinds : found # AuthFailed => Right(a) /\ RightKdf(a, kind),
         found # AuthFailed /\ BothRegular(a) => SameFiles(a.kfs, made.kfs),
         \A kind \in kinds : Right(a) /\ RightKdf(a, kind) /\ RightFiles(a) => found # AuthFailed
  PROVE  ResultInv'
<1>1. PICK kind \in kinds : result' = [kind |-> kind, attempt |-> a, ok |-> found # AuthFailed]
  BY DEF Begin
<1>2. made' = made /\ made # <<>> /\ damaged' = damaged
  BY DEF Begin
<1>3. result'.kind = kind /\ result'.attempt = a /\ result'.ok = (found # AuthFailed)
  BY <1>1
<1>4. (Right(a)' <=> Right(a)) /\ (RightKdf(a, kind)' <=> RightKdf(a, kind))
  BY <1>2 DEF Right, RightKdf
<1>5. (BothRegular(a)' <=> BothRegular(a)) /\ (RightFiles(a)' <=> RightFiles(a))
  BY <1>2 DEF BothRegular, RightFiles
<1>6. OpenIffRight'
  BY <1>2, <1>3, <1>4, <1>5 DEF OpenIffRight, Right, RightKdf, BothRegular, RightFiles
<1>7. result'.ok \in BOOLEAN
  BY <1>3
<1> QED BY <1>2, <1>3, <1>6, <1>7 DEF ResultInv

LEMMA OpenUserInv ==
  ASSUME VolumeInv, NEW a \in Attempts, OpenUser(a)
  PROVE  SessionInv' /\ ResultInv'
<1> DEFINE found == OpenVolumeFile(a)
           c == MakeKdfCandidate(made.kdf, PimOr0(a.pim))
           ps == IF found = AuthFailed THEN BadKey ELSE SectorPasses(found.cipher, found.master_key)
           kinds == {"rw", "ro"}
<1>1. IsAttempt(a) /\ HeaderInv
  BY AttemptAssumption DEF IsAttempt, VolumeInv
<1>2. Begin(kinds, a, found, ps)
  BY DEF OpenUser
<1>3. made # <<>>
  BY <1>2 DEF Begin
<1>4. found # AuthFailed =>
        /\ Right(a) /\ a.kdf \in {AnyKdf, made.kdf} /\ found = Opened(c)
        /\ BothRegular(a) => SameFiles(a.kfs, made.kfs)
  BY <1>1, <1>3, OpenTells
<1>5. Right(a) /\ a.kdf \in {AnyKdf, made.kdf} /\ RightFiles(a) => found # AuthFailed
  BY <1>1, <1>3, OpenSucceeds
<1>6. found # AuthFailed => ps = VolumePasses
  <2>1. Opened(c).cipher = made.cipher /\ Opened(c).master_key = KeyOf(Plain("master"), made.cipher)
    BY DEF Opened
  <2> QED BY <1>4, <2>1 DEF VolumePasses, Passes
<1> HIDE DEF found, ps, c
<1>7. SessionInv'
  BY <1>2, <1>4, <1>6, BeginInv
<1>8. ResultInv'
  <2>1. \A kind \in kinds : RightKdf(a, kind) <=> a.kdf \in {AnyKdf, made.kdf}
    BY DEF RightKdf
  <2>2. \A kind \in kinds : found # AuthFailed => Right(a) /\ RightKdf(a, kind)
    BY <1>4, <2>1
  <2>3. \A kind \in kinds : Right(a) /\ RightKdf(a, kind) /\ RightFiles(a) => found # AuthFailed
    BY <1>5, <2>1
  <2> QED BY <1>2, <1>4, <2>2, <2>3, BeginResult
<1> QED BY <1>7, <1>8

\* The driver rebuilds cipher and key from the mount request.
LEMMA DriverPasses ==
  ASSUME made.cipher \in CipherTypes
  PROVE  InitCipher(CipherToEa[made.cipher], KeyOf(Plain("master"), made.cipher)) = VolumePasses
<1> DEFINE c == made.cipher
           size == 2 * KeySize(c)
<1>1. CipherTypeFromEa(CipherToEa[c]) = c /\ c # "unknown"
  BY EaIs, CipherNames
<1>2. size \in Nat /\ Smaller(size, 192) = size
  BY SizeIs DEF Smaller
<1>3. Slice(KeyOf(Plain("master"), c), 0, size) = KeyOf(Plain("master"), c)
  BY <1>2, CutKey DEF KeyOf
<1> HIDE DEF size
<1>4. InitCipher(CipherToEa[c], KeyOf(Plain("master"), c)) =
        KernelPasses(c, Slice(KeyOf(Plain("master"), c), 0, Smaller(size, 192)))
  BY <1>1 DEF InitCipher, size
<1> QED BY <1>2, <1>3, <1>4, SamePasses DEF VolumePasses, Passes

LEMMA MountDriverInv ==
  ASSUME VolumeInv, NEW a \in Attempts, MountDriver(a)
  PROVE  SessionInv' /\ ResultInv'
<1> DEFINE found == OpenForMount(a)
           c == MakeKdfCandidate(made.kdf, PimOr0(a.pim))
           ps == IF found = AuthFailed THEN BadKey
                 ELSE InitCipher(CipherToEa[found.cipher], found.master_key)
           kinds == {"driver"}
<1>1. IsAttempt(a) /\ HeaderInv
  BY AttemptAssumption DEF IsAttempt, VolumeInv
<1>2. Begin(kinds, a, found, ps)
  BY DEF MountDriver
<1>3. made # <<>> /\ made.cipher \in CipherTypes
  BY <1>1, <1>2 DEF Begin, HeaderInv, MadeInv
<1>4. /\ found # AuthFailed =>
           /\ Right(a) /\ found = Opened(c)
           /\ BothRegular(a) => SameFiles(a.kfs, made.kfs)
      /\ Right(a) /\ RightFiles(a) => found # AuthFailed
  BY <1>1, <1>3, MountTells
<1>5. found # AuthFailed => ps = VolumePasses
  <2>1. Opened(c).cipher = made.cipher /\ Opened(c).master_key = KeyOf(Plain("master"), made.cipher)
    BY DEF Opened
  <2> QED BY <1>3, <1>4, <2>1, DriverPasses
<1> HIDE DEF found, ps, c
<1>6. SessionInv'
  BY <1>2, <1>4, <1>5, BeginInv
<1>7. ResultInv'
  <2>1. \A kind \in kinds : RightKdf(a, kind)
    BY DEF RightKdf
  <2> QED BY <1>2, <1>4, <2>1, BeginResult
<1> QED BY <1>6, <1>7

\* A session survives a step that keeps it and the cipher of the volume.
LEMMA SessionStays ==
  ASSUME SessionInv, session' = session, made # <<>> => made' # <<>> /\ made'.cipher = made.cipher
  PROVE  SessionInv'
<1>1. CASE session = Closed
  BY <1>1 DEF SessionInv
<1>2. CASE session # Closed
  <2>1. made # <<>> /\ made' # <<>> /\ made'.cipher = made.cipher
    BY <1>2 DEF SessionInv
  <2>2. VolumePasses' = VolumePasses
    BY <2>1 DEF VolumePasses
  <2> QED BY <1>2, <2>1, <2>2 DEF SessionInv
<1> QED BY <1>1, <1>2

LEMMA NoResult ==
  ASSUME result' = <<>>
  PROVE  ResultInv'
BY DEF ResultInv, OpenIffRight

-----------------------------------------------------------------------------
\* Reading and writing

LEMMA RunIs ==
  ASSUME NEW s \in Sectors, NEW max \in Nat, NEW n \in Runs(s, max)
  PROVE  n \in Nat /\ n >= 1 /\ n <= max /\ \A i \in 0 .. n - 1 : s + i \in Sectors
BY BoundsAssumption DEF Runs, Sectors, Smaller

\* What a write of the value v to the n sectors from s on leaves
LEMMA WroteInv ==
  ASSUME StoreInv, NEW s \in Sectors, NEW n \in Nat, NEW v \in Values, NEW new,
         DOMAIN new = 0 .. n - 1, Wrote(s, [i \in 1 .. n |-> v], new)
  PROVE  /\ StoreInv' /\ answer' = <<>> /\ result' = <<>>
         /\ UNCHANGED <<header, made, damaged, salts, session>>
         /\ \A x \in Sectors :
              /\ data'[x] = IF x - s \in 0 .. n - 1 THEN new[x - s] ELSE data[x]
              /\ written'[x] = IF x - s \in 0 .. n - 1 THEN v ELSE written[x]
<1> DEFINE vals == [i \in 1 .. n |-> v]
<1>1. /\ data' = [x \in Sectors |-> IF x - s \in 0 .. n - 1 THEN new[x - s] ELSE data[x]]
      /\ written' = [x \in Sectors |-> IF x - s \in 0 .. n - 1 THEN vals[x - s + 1] ELSE written[x]]
      /\ answer' = <<>> /\ result' = <<>>
      /\ UNCHANGED <<header, made, damaged, salts, session>>
  BY DEF Wrote, Put
<1>2. \A x \in Sectors : x - s \in 0 .. n - 1 => vals[x - s + 1] = v
  BY DEF Sectors
<1> HIDE DEF vals
<1>3. \A x \in Sectors : written'[x] = IF x - s \in 0 .. n - 1 THEN v ELSE written[x]
  BY <1>1, <1>2
<1>4. written' \in [Sectors -> Values \cup {"never"}]
  BY <1>1, <1>2 DEF StoreInv
<1>5. StoreInv'
  BY <1>1, <1>4 DEF StoreInv
<1> QED BY <1>1, <1>3, <1>5

\* A write of the driver or of user mode
IsWrite(s, n, v, new) ==
  /\ n \in Nat /\ v \in Values /\ DOMAIN new = 0 .. n - 1
  /\ Wrote(s, [i \in 1 .. n |-> v], new)
  /\ session # Closed

\* A read
IsRead(s, n, plain) ==
  /\ n \in Nat /\ DOMAIN plain = 0 .. n - 1 /\ Read(s, plain) /\ session # Closed
  /\ \A i \in 0 .. n - 1 : s + i \in Sectors

LEMMA UserWriteIs ==
  ASSUME NEW s \in Sectors, NEW n \in Runs(s, MaxRun), NEW v \in Values,
         UserWrite(s, [i \in 1 .. n |-> v])
  PROVE  \E new : /\ IsWrite(s, n, v, new)
                  /\ new[0] = EncryptBlock(session.passes, s, 0, Plain(v))
                  /\ n <= MaxRun
<1> DEFINE vals == [i \in 1 .. n |-> v]
           new == [i \in 0 .. n - 1 |-> EncryptBlock(session.passes, s, i, Plain(v))]
<1>1. n \in Nat /\ n >= 1 /\ n <= MaxRun
  BY RunIs, BoundsAssumption
<1>2. Len(vals) = n /\ \A i \in 0 .. n - 1 : vals[i + 1] = v
  BY <1>1
<1>3. session # Closed /\
      Wrote(s, vals, [i \in 0 .. Len(vals) - 1 |->
                        EncryptBlock(session.passes, UserUnit(s, i), UserBlock(s, i),
                                     Plain(vals[i + 1]))])
  BY DEF UserWrite, InSession
<1> HIDE DEF vals
<1>4. [i \in 0 .. Len(vals) - 1 |->
         EncryptBlock(session.passes, UserUnit(s, i), UserBlock(s, i), Plain(vals[i + 1]))] = new
  BY <1>2 DEF UserUnit, UserBlock
<1>5. new[0] = EncryptBlock(session.passes, s, 0, Plain(v)) /\ DOMAIN new = 0 .. n - 1
  BY <1>1
<1> HIDE DEF new
<1> QED BY <1>1, <1>3, <1>4, <1>5 DEF IsWrite, vals

LEMMA DriverWriteIs ==
  ASSUME NEW s \in Sectors, NEW n \in Runs(s, NSectors), NEW v \in Values,
         DriverWrite(s, [i \in 1 .. n |-> v])
  PROVE  \E new : /\ IsWrite(s, n, v, new)
                  /\ \A i \in 0 .. n - 1 :
                       new[i] = EncryptBlock(session.passes, s + i, 0, Plain(v))
<1> DEFINE vals == [i \in 1 .. n |-> v]
           new == [i \in 0 .. n - 1 |-> EncryptBlock(session.passes, s + i, 0, Plain(v))]
<1>1. n \in Nat
  BY RunIs, BoundsAssumption
<1>2. Len(vals) = n /\ \A i \in 0 .. n - 1 : vals[i + 1] = v
  BY <1>1
<1>3. session # Closed /\
      Wrote(s, vals, [i \in 0 .. Len(vals) - 1 |->
                        KernelEncrypt(session.passes, DriverUnit(s, i), Plain(vals[i + 1]))])
  BY DEF DriverWrite, InSession
<1> HIDE DEF vals
<1>4. [i \in 0 .. Len(vals) - 1 |->
         KernelEncrypt(session.passes, DriverUnit(s, i), Plain(vals[i + 1]))] = new
  BY <1>2 DEF DriverUnit, KernelEncrypt
<1>5. /\ \A i \in 0 .. n - 1 : new[i] = EncryptBlock(session.passes, s + i, 0, Plain(v))
      /\ DOMAIN new = 0 .. n - 1
  OBVIOUS
<1> HIDE DEF new
<1> QED BY <1>1, <1>3, <1>4, <1>5 DEF IsWrite, vals

LEMMA UserReadIs ==
  ASSUME NEW s \in Sectors, NEW n \in Runs(s, MaxRun), UserRead(s, n)
  PROVE  \E plain : /\ IsRead(s, n, plain) /\ n <= MaxRun
                    /\ plain[0] = DecryptBlock(session.passes, s, 0, data[s])
<1> DEFINE plain == [i \in 0 .. n - 1 |-> DecryptBlock(session.passes, s, i, data[s + i])]
<1>1. n \in Nat /\ n >= 1 /\ n <= MaxRun /\ \A i \in 0 .. n - 1 : s + i \in Sectors
  BY RunIs, BoundsAssumption
<1>2. session # Closed /\ Read(s, plain)
  BY DEF UserRead, InSession, UserUnit, UserBlock
<1>3. s + 0 = s
  BY DEF Sectors
<1>4. plain[0] = DecryptBlock(session.passes, s, 0, data[s]) /\ DOMAIN plain = 0 .. n - 1
  BY <1>1, <1>3
<1> HIDE DEF plain
<1> QED BY <1>1, <1>2, <1>4 DEF IsRead

LEMMA DriverReadIs ==
  ASSUME NEW s \in Sectors, NEW n \in Runs(s, NSectors), DriverRead(s, n)
  PROVE  \E plain : /\ IsRead(s, n, plain)
                    /\ \A i \in 0 .. n - 1 :
                         plain[i] = DecryptBlock(session.passes, s + i, 0, data[s + i])
<1> DEFINE plain == [i \in 0 .. n - 1 |-> DecryptBlock(session.passes, s + i, 0, data[s + i])]
<1>1. n \in Nat /\ \A i \in 0 .. n - 1 : s + i \in Sectors
  BY RunIs, BoundsAssumption
<1>2. session # Closed /\ Read(s, plain)
  BY DEF DriverRead, InSession, DriverUnit, KernelDecrypt
<1>3. /\ \A i \in 0 .. n - 1 : plain[i] = DecryptBlock(session.passes, s + i, 0, data[s + i])
      /\ DOMAIN plain = 0 .. n - 1
  OBVIOUS
<1> HIDE DEF plain
<1> QED BY <1>1, <1>2, <1>3 DEF IsRead

LEMMA WriteInv ==
  ASSUME VolumeInv, NEW s \in Sectors, NEW n, NEW v, NEW new, IsWrite(s, n, v, new)
  PROVE  VolumeInv'
<1>1. /\ StoreInv' /\ answer' = <<>> /\ result' = <<>>
      /\ UNCHANGED <<header, made, damaged, salts, session>>
  BY WroteInv DEF IsWrite, VolumeInv
<1>2. HeaderInv' /\ SessionInv' /\ ResultInv'
  BY <1>1, HeaderStays, SessionStays, NoResult DEF VolumeInv
<1> QED BY <1>1, <1>2 DEF VolumeInv

LEMMA ReadInv ==
  ASSUME VolumeInv, NEW s \in Sectors, NEW n, NEW plain, IsRead(s, n, plain)
  PROVE  VolumeInv'
<1>1. /\ answer' = [sector |-> s, data |-> plain] /\ result' = <<>>
      /\ UNCHANGED <<header, made, damaged, salts, data, written, session>>
  BY DEF IsRead, Read
<1>2. HeaderInv' /\ SessionInv' /\ ResultInv'
  BY <1>1, HeaderStays, SessionStays, NoResult DEF VolumeInv
<1>3. StoreInv'
  BY <1>1 DEF VolumeInv, StoreInv
<1> QED BY <1>2, <1>3 DEF VolumeInv

LEMMA InitInv ==
  Init => VolumeInv
<1> SUFFICES ASSUME Init PROVE VolumeInv
  OBVIOUS
<1>1. header = [salt |-> 0, area |-> [p \in Parts |-> Noise]]
  BY DEF Init
<1>2. DOMAIN header = {"salt", "area"} /\ DOMAIN header.area = Parts
  BY <1>1
<1>3. HeaderInv
  BY <1>2, BoundsAssumption DEF Init, HeaderInv
<1>4. SessionInv /\ ResultInv
  BY DEF Init, SessionInv, ResultInv, OpenIffRight
<1>5. StoreInv
  BY DEF Init, StoreInv
<1> QED BY <1>3, <1>4, <1>5 DEF VolumeInv

LEMMA NextInv ==
  VolumeInv /\ [Next]_vars => VolumeInv'
<1> SUFFICES ASSUME VolumeInv, [Next]_vars PROVE VolumeInv'
  OBVIOUS
<1>0. HeaderInv /\ SessionInv /\ ResultInv /\ StoreInv
  BY DEF VolumeInv
<1>1. ASSUME NEW c \in Creations, Create(c) PROVE VolumeInv'
  <2>1. HeaderInv'
    BY <1>0, <1>1, CreateHeader
  <2>2. /\ made = <<>> /\ session' = session /\ result' = result
        /\ data' = data /\ written' = written /\ answer' = answer
    BY <1>1 DEF Create
  <2>3. SessionInv' /\ ResultInv'
    <3>1. result' = <<>>
      BY <1>0, <2>2 DEF ResultInv
    <3> QED BY <1>0, <2>2, <3>1, SessionStays, NoResult
  <2>4. StoreInv'
    BY <1>0, <2>2 DEF StoreInv
  <2> QED BY <2>1, <2>3, <2>4 DEF VolumeInv
<1>2. ASSUME NEW part \in Parts \cup {"salt"}, Damage(part) PROVE VolumeInv'
  <2>1. HeaderInv'
    BY <1>0, <1>2, DamageHeader
  <2>2. /\ made' = made /\ session' = session /\ result' = <<>>
        /\ data' = data /\ written' = written /\ answer' = answer
    BY <1>2 DEF Damage
  <2>3. SessionInv' /\ ResultInv'
    BY <1>0, <2>2, SessionStays, NoResult
  <2>4. StoreInv'
    BY <1>0, <2>2 DEF StoreInv
  <2> QED BY <2>1, <2>3, <2>4 DEF VolumeInv
<1>3. ASSUME NEW a \in Attempts, OpenUser(a) PROVE VolumeInv'
  <2>1. UNCHANGED <<header, made, damaged, salts, data, written>> /\ answer' = <<>>
    BY <1>3 DEF OpenUser, Begin
  <2>2. HeaderInv' /\ StoreInv'
    BY <1>0, <2>1, HeaderStays DEF StoreInv
  <2> QED BY <1>3, <2>2, OpenUserInv DEF VolumeInv
<1>4. ASSUME NEW a \in Attempts, MountDriver(a) PROVE VolumeInv'
  <2>1. UNCHANGED <<header, made, damaged, salts, data, written>> /\ answer' = <<>>
    BY <1>4 DEF MountDriver, Begin
  <2>2. HeaderInv' /\ StoreInv'
    BY <1>0, <2>1, HeaderStays DEF StoreInv
  <2> QED BY <1>4, <2>2, MountDriverInv DEF VolumeInv
<1>5. ASSUME NEW a \in Attempts, NEW b \in NewCredentials, ChangePassword(a, b.pw, b.kfs)
      PROVE  VolumeInv'
  <2>1. HeaderInv' /\ made # <<>> /\ made' # <<>> /\ made'.cipher = made.cipher
    BY <1>0, <1>5, ChangeHeader, NewCredentialAssumption
  <2>2. /\ session' = session /\ result' = <<>>
        /\ data' = data /\ written' = written /\ answer' = answer
    BY <1>5 DEF ChangePassword
  <2>3. SessionInv' /\ ResultInv'
    BY <1>0, <2>1, <2>2, SessionStays, NoResult
  <2>4. StoreInv'
    BY <1>0, <2>2 DEF StoreInv
  <2> QED BY <2>1, <2>3, <2>4 DEF VolumeInv
<1>6. ASSUME Close PROVE VolumeInv'
  <2>1. /\ UNCHANGED <<header, made, damaged, salts, data, written>>
        /\ session' = Closed /\ result' = <<>> /\ answer' = <<>>
    BY <1>6 DEF Close
  <2>2. HeaderInv' /\ StoreInv'
    BY <1>0, <2>1, HeaderStays DEF StoreInv
  <2>3. SessionInv' /\ ResultInv'
    BY <2>1, NoResult DEF SessionInv
  <2> QED BY <2>2, <2>3 DEF VolumeInv
<1>7. ASSUME Using PROVE VolumeInv'
  <2>1. PICK s \in Sectors :
          \/ \E n \in Runs(s, MaxRun), v \in Values : UserWrite(s, [i \in 1 .. n |-> v])
          \/ \E n \in Runs(s, NSectors), v \in Values : DriverWrite(s, [i \in 1 .. n |-> v])
          \/ \E n \in Runs(s, MaxRun) : UserRead(s, n)
          \/ \E n \in Runs(s, NSectors) : DriverRead(s, n)
    BY <1>7 DEF Using
  <2>2. \/ \E n, v, new : IsWrite(s, n, v, new)
        \/ \E n, plain : IsRead(s, n, plain)
    BY <2>1, UserWriteIs, DriverWriteIs, UserReadIs, DriverReadIs
  <2> QED BY <2>2, WriteInv, ReadInv
<1>8. ASSUME UNCHANGED vars PROVE VolumeInv'
  <2>1. /\ UNCHANGED <<header, made, damaged, salts, data, written>>
        /\ session' = session /\ result' = result /\ answer' = answer
    BY <1>8 DEF vars
  <2>2. HeaderInv' /\ SessionInv' /\ StoreInv'
    BY <1>0, <2>1, HeaderStays, SessionStays DEF StoreInv
  <2>3. ResultInv'
    BY <1>0, <2>1 DEF ResultInv, OpenIffRight, EffectivePim
  <2> QED BY <2>2, <2>3 DEF VolumeInv
<1> QED BY <1>1, <1>2, <1>3, <1>4, <1>5, <1>6, <1>7, <1>8 DEF Next, Opening

LEMMA AlwaysInv ==
  Spec => []VolumeInv
BY InitInv, NextInv, PTL DEF Spec

-----------------------------------------------------------------------------
\* What a read returns

\* The sectors written hold what was written, as long as user mode writes one
\* sector at a time.
LEMMA DataNext ==
  MaxRun = 1 /\ VolumeInv /\ VolumeInv' /\ DataInv /\ [Next]_vars => DataInv'
<1> SUFFICES ASSUME MaxRun = 1, VolumeInv, VolumeInv', DataInv, [Next]_vars PROVE DataInv'
  OBVIOUS
<1>1. ASSUME data' = data, written' = written,
             made # <<>> => made' # <<>> /\ made'.cipher = made.cipher
      PROVE  DataInv'
  <2> SUFFICES ASSUME NEW s \in Sectors, written'[s] # "never"
               PROVE  /\ made' # <<>>
                      /\ data'[s] = EncryptBlock(VolumePasses', s, 0, Plain(written'[s]))
    BY DEF DataInv
  <2>1. made # <<>> /\ data[s] = EncryptBlock(VolumePasses, s, 0, Plain(written[s]))
    BY <1>1 DEF DataInv
  <2>2. VolumePasses' = VolumePasses
    BY <1>1, <2>1 DEF VolumePasses
  <2> QED BY <1>1, <2>1, <2>2
<1>2. ASSUME NEW s \in Sectors, NEW n, NEW v, NEW new, IsWrite(s, n, v, new),
             \A i \in 0 .. n - 1 : new[i] = EncryptBlock(session.passes, s + i, 0, Plain(v))
      PROVE  DataInv'
  <2>1. n \in Nat /\ session # Closed /\ made' = made
        /\ \A x \in Sectors :
              /\ data'[x] = IF x - s \in 0 .. n - 1 THEN new[x - s] ELSE data[x]
              /\ written'[x] = IF x - s \in 0 .. n - 1 THEN v ELSE written[x]
    BY <1>2, WroteInv DEF IsWrite, VolumeInv
  <2>2. made # <<>> /\ session.passes = VolumePasses
    BY <2>1 DEF VolumeInv, SessionInv
  <2>3. VolumePasses' = VolumePasses
    BY <2>1 DEF VolumePasses
  <2>4. ASSUME NEW x \in Sectors, written'[x] # "never"
        PROVE  data'[x] = EncryptBlock(VolumePasses, x, 0, Plain(written'[x]))
    <3>1. CASE x - s \in 0 .. n - 1
      <4>1. s + (x - s) = x
        BY DEF Sectors
      <4>2. new[x - s] = EncryptBlock(VolumePasses, x, 0, Plain(v))
        BY <1>2, <2>2, <3>1, <4>1
      <4> QED BY <2>1, <3>1, <4>2
    <3>2. CASE x - s \notin 0 .. n - 1
      BY <2>1, <2>4, <3>2 DEF DataInv
    <3> QED BY <3>1, <3>2
  <2> QED BY <2>1, <2>2, <2>3, <2>4 DEF DataInv
<1>3. ASSUME NEW s \in Sectors, NEW n, NEW plain, IsRead(s, n, plain) PROVE DataInv'
  BY <1>1, <1>3 DEF IsRead, Read
<1>4. ASSUME NEW c \in Creations, Create(c) PROVE DataInv'
  BY <1>1, <1>4 DEF Create
<1>5. ASSUME NEW a \in Attempts, NEW b \in NewCredentials, ChangePassword(a, b.pw, b.kfs)
      PROVE  DataInv'
  <2>1. made # <<>> /\ made' # <<>> /\ made'.cipher = made.cipher
    BY <1>5, ChangeHeader, NewCredentialAssumption DEF VolumeInv
  <2> QED BY <1>1, <1>5, <2>1 DEF ChangePassword
<1>6. ASSUME NEW part, Damage(part) PROVE DataInv'
  BY <1>1, <1>6 DEF Damage
<1>7. ASSUME NEW a, OpenUser(a) \/ MountDriver(a) PROVE DataInv'
  BY <1>1, <1>7 DEF OpenUser, MountDriver, Begin
<1>8. ASSUME Close \/ UNCHANGED vars PROVE DataInv'
  BY <1>1, <1>8 DEF Close, vars
<1>9. ASSUME Using PROVE DataInv'
  <2>1. PICK s \in Sectors :
          \/ \E n \in Runs(s, MaxRun), v \in Values : UserWrite(s, [i \in 1 .. n |-> v])
          \/ \E n \in Runs(s, NSectors), v \in Values : DriverWrite(s, [i \in 1 .. n |-> v])
          \/ \E n \in Runs(s, MaxRun) : UserRead(s, n)
          \/ \E n \in Runs(s, NSectors) : DriverRead(s, n)
    BY <1>9 DEF Using
  <2>2. ASSUME NEW n \in Runs(s, MaxRun), NEW v \in Values, UserWrite(s, [i \in 1 .. n |-> v])
        PROVE  DataInv'
    <3>1. PICK new : /\ IsWrite(s, n, v, new)
                     /\ new[0] = EncryptBlock(session.passes, s, 0, Plain(v))
                     /\ n <= MaxRun
      BY <2>2, UserWriteIs
    <3>2. \A i \in 0 .. n - 1 : i = 0 /\ s + i = s
      BY <3>1 DEF IsWrite, Sectors
    <3>3. \A i \in 0 .. n - 1 : new[i] = EncryptBlock(session.passes, s + i, 0, Plain(v))
      BY <3>1, <3>2
    <3> QED BY <1>2, <3>1, <3>3
  <2>3. ASSUME NEW n \in Runs(s, NSectors), NEW v \in Values, DriverWrite(s, [i \in 1 .. n |-> v])
        PROVE  DataInv'
    BY <1>2, <2>3, DriverWriteIs
  <2>4. \/ \E n \in Runs(s, MaxRun) : UserRead(s, n)
        \/ \E n \in Runs(s, NSectors) : DriverRead(s, n)
        => DataInv'
    BY <1>3, UserReadIs, DriverReadIs
  <2> QED BY <2>1, <2>2, <2>3, <2>4
<1> QED BY <1>4, <1>5, <1>6, <1>7, <1>8, <1>9 DEF Next, Opening

LEMMA ReadsBackNext ==
  MaxRun = 1 /\ VolumeInv /\ DataInv /\ ReadsBack /\ [Next]_vars => ReadsBack'
<1> SUFFICES ASSUME MaxRun = 1, VolumeInv, DataInv, ReadsBack, [Next]_vars PROVE ReadsBack'
  OBVIOUS
<1>1. ASSUME answer' = <<>> PROVE ReadsBack'
  BY <1>1 DEF ReadsBack
<1>2. ASSUME answer' = answer, written' = written PROVE ReadsBack'
  BY <1>2 DEF ReadsBack
<1>3. ASSUME NEW s \in Sectors, NEW n, NEW plain, IsRead(s, n, plain),
             \A i \in 0 .. n - 1 : plain[i] = DecryptBlock(session.passes, s + i, 0, data[s + i])
      PROVE  ReadsBack'
  <2>1. /\ answer' = [sector |-> s, data |-> plain] /\ written' = written
        /\ DOMAIN plain = 0 .. n - 1 /\ \A i \in 0 .. n - 1 : s + i \in Sectors
    BY <1>3 DEF IsRead, Read
  <2>2. answer'.sector = s /\ answer'.data = plain
    BY <2>1
  <2>3. session.passes = VolumePasses /\ made.cipher \in CipherTypes
    BY <1>3 DEF IsRead, VolumeInv, SessionInv, HeaderInv, MadeInv
  <2>4. Len(VolumePasses) \in 1 .. 3
    BY <2>3, PassCount DEF VolumePasses
  <2>5. ASSUME NEW i \in 0 .. n - 1, written[s + i] # "never"
        PROVE  plain[i] = Plain(written[s + i])
    <3>1. data[s + i] = EncryptBlock(VolumePasses, s + i, 0, Plain(written[s + i]))
      BY <2>1, <2>5 DEF DataInv
    <3> QED BY <1>3, <2>3, <2>4, <3>1, RoundTrip
  <2> QED BY <2>1, <2>2, <2>5 DEF ReadsBack
<1>4. ASSUME Opening PROVE ReadsBack'
  BY <1>1, <1>2, <1>4
     DEF Opening, Create, Damage, OpenUser, MountDriver, Begin, ChangePassword, Close
<1>5. ASSUME Using PROVE ReadsBack'
  <2>1. PICK s \in Sectors :
          \/ \E n \in Runs(s, MaxRun), v \in Values : UserWrite(s, [i \in 1 .. n |-> v])
          \/ \E n \in Runs(s, NSectors), v \in Values : DriverWrite(s, [i \in 1 .. n |-> v])
          \/ \E n \in Runs(s, MaxRun) : UserRead(s, n)
          \/ \E n \in Runs(s, NSectors) : DriverRead(s, n)
    BY <1>5 DEF Using
  <2>2. (\E n, v, new : IsWrite(s, n, v, new)) => ReadsBack'
    BY <1>1 DEF IsWrite, Wrote
  <2>3. ASSUME NEW n \in Runs(s, MaxRun), UserRead(s, n) PROVE ReadsBack'
    <3>1. PICK plain : /\ IsRead(s, n, plain) /\ n <= MaxRun
                       /\ plain[0] = DecryptBlock(session.passes, s, 0, data[s])
      BY <2>3, UserReadIs
    <3>2. \A i \in 0 .. n - 1 : i = 0 /\ s + i = s
      BY <3>1 DEF IsRead, Sectors
    <3>3. \A i \in 0 .. n - 1 : plain[i] = DecryptBlock(session.passes, s + i, 0, data[s + i])
      BY <3>1, <3>2
    <3> QED BY <1>3, <3>1, <3>3
  <2>4. ASSUME NEW n \in Runs(s, NSectors), DriverRead(s, n) PROVE ReadsBack'
    BY <1>3, <2>4, DriverReadIs
  <2> QED BY <2>1, <2>2, <2>3, <2>4, UserWriteIs, DriverWriteIs
<1>6. ASSUME UNCHANGED vars PROVE ReadsBack'
  BY <1>2, <1>6 DEF vars
<1> QED BY <1>4, <1>5, <1>6 DEF Next

-----------------------------------------------------------------------------
\* How passes share a key

\* Where the half h of pass i of n begins in the master key
HalfAt(n, i, h) == IF h = "data" THEN 32 * (i - 1) ELSE 32 * n + 32 * (i - 1)

\* The halves of the passes cut the key into 2n pieces of 32 bytes.
LEMMA HalvesApart ==
  ASSUME NEW n \in 1 .. 3, NEW i \in 1 .. n, NEW j \in 1 .. n, NEW g \in {"data", "tweak"},
         NEW h \in {"data", "tweak"}, i # j \/ g # h
  PROVE  HalfAt(n, i, g) + 31 < HalfAt(n, j, h) \/ HalfAt(n, j, h) + 31 < HalfAt(n, i, g)
<1>1. i \in 1 .. 3 /\ j \in 1 .. 3
  OBVIOUS
<1>2. n \in {1, 2, 3} /\ i \in {1, 2, 3} /\ j \in {1, 2, 3} /\ i <= n /\ j <= n
  BY <1>1
<1> QED BY <1>2 DEF HalfAt

LEMMA HalvesInside ==
  ASSUME NEW n \in 1 .. 3, NEW i \in 1 .. n, NEW h \in {"data", "tweak"}
  PROVE  HalfAt(n, i, h) \in Nat /\ HalfAt(n, i, h) + 31 <= 64 * n - 1
<1>1. n \in {1, 2, 3} /\ i \in {1, 2, 3} /\ i <= n
  OBVIOUS
<1> QED BY <1>1 DEF HalfAt

LEMMA HalvesCover ==
  ASSUME NEW n \in 1 .. 3, NEW b \in 0 .. 64 * n - 1
  PROVE  \E i \in 1 .. n, h \in {"data", "tweak"} : b \in HalfAt(n, i, h) .. HalfAt(n, i, h) + 31
<1> DEFINE In(i, h) == b \in HalfAt(n, i, h) .. HalfAt(n, i, h) + 31
<1>1. CASE n = 1
  <2>1. In(1, "data") \/ In(1, "tweak")
    BY <1>1 DEF HalfAt
  <2> QED BY <1>1, <2>1
<1>2. CASE n = 2
  <2>1. In(1, "data") \/ In(2, "data") \/ In(1, "tweak") \/ In(2, "tweak")
    BY <1>2 DEF HalfAt
  <2> HIDE DEF In
  <2>2. \E i \in 1 .. n, h \in {"data", "tweak"} : In(i, h)
    BY <1>2, <2>1
  <2> QED BY <2>2 DEF In
<1>3. CASE n = 3
  <2>1. \/ In(1, "data") \/ In(2, "data") \/ In(3, "data")
        \/ In(1, "tweak") \/ In(2, "tweak") \/ In(3, "tweak")
    BY <1>3 DEF HalfAt
  <2> HIDE DEF In
  <2>2. \E i \in 1 .. n, h \in {"data", "tweak"} : In(i, h)
    BY <1>3, <2>1
  <2> QED BY <2>2 DEF In
<1> QED BY <1>1, <1>2, <1>3

LEMMA WholeKey ==
  ASSUME VolumeInv
  PROVE  PassesUseWholeKey
<1> SUFFICES ASSUME session # Closed PROVE PassesUseWholeKey
  BY DEF PassesUseWholeKey
<1> DEFINE c == made.cipher
           ps == session.passes
           n == Len(ps)
           half(i, h) == IF h = "data" THEN ps[i].data ELSE ps[i].tweak
           bytes(i, h) == half(i, h).lo .. half(i, h).hi - 1
           halves == (1 .. n) \X {"data", "tweak"}
<1>1. ps = Passes(c, Plain("master")) /\ c \in CipherTypes
  BY DEF VolumeInv, SessionInv, VolumePasses, HeaderInv, MadeInv
<1>2. /\ n = CipherCount(c) /\ n \in 1 .. 3 /\ KeySize(c) = 32 * n
      /\ n = Len(VeracryptOrder[c]) /\ DOMAIN VeracryptOrder[c] = 1 .. n
  BY <1>1, PassesAre, SizeIs, OrderIs DEF CipherCount
<1>3. \A i \in 1 .. n : ps[i] = PassOf(c, Plain("master"), i)
  BY <1>1, <1>2, PassesAre
<1> HIDE DEF ps, n, c
<1>4. ASSUME NEW i \in 1 .. n, NEW h \in {"data", "tweak"}
      PROVE  bytes(i, h) = HalfAt(n, i, h) .. HalfAt(n, i, h) + 31
  <2> DEFINE off == 32 * (i - 1)
  <2>1. ps[i] = PassOf(c, Plain("master"), i)
    BY <1>3, <1>4
  <2>2. PassOf(c, Plain("master"), i) =
          [cipher |-> VeracryptOrder[c][i],
           data |-> [id |-> Plain("master"), lo |-> off, hi |-> off + 32],
           tweak |-> [id |-> Plain("master"), lo |-> 32 * n + off, hi |-> 32 * n + (off + 32)]]
    BY <1>2 DEF PassOf
  <2>3. off \in Int /\ n \in Int
    BY <1>2
  <2>4. HalfAt(n, i, h) = IF h = "data" THEN off ELSE 32 * n + off
    BY DEF HalfAt
  <2> HIDE DEF off
  <2>5. /\ ps[i].data.lo = off /\ ps[i].data.hi = off + 32
        /\ ps[i].tweak.lo = 32 * n + off /\ ps[i].tweak.hi = 32 * n + (off + 32)
    BY <2>1, <2>2
  <2>6. CASE h = "data"
    BY <2>3, <2>4, <2>5, <2>6
  <2>7. CASE h = "tweak"
    BY <2>3, <2>4, <2>5, <2>7
  <2> QED BY <1>4, <2>6, <2>7
<1> HIDE DEF bytes
<1>5. ASSUME NEW i \in 1 .. n, NEW j \in 1 .. n, NEW g \in {"data", "tweak"},
             NEW h \in {"data", "tweak"}, i # j \/ g # h
      PROVE  bytes(i, g) \cap bytes(j, h) = {}
  <2> DEFINE x == HalfAt(n, i, g)
             y == HalfAt(n, j, h)
  <2>1. x \in Nat /\ y \in Nat /\ (x + 31 < y \/ y + 31 < x)
    BY <1>2, <1>5, HalvesApart, HalvesInside
  <2>2. bytes(i, g) = x .. x + 31 /\ bytes(j, h) = y .. y + 31
    BY <1>4, <1>5
  <2> HIDE DEF x, y
  <2> QED BY <2>1, <2>2
<1>6. \A x, y \in halves : x # y => bytes(x[1], x[2]) \cap bytes(y[1], y[2]) = {}
  <2> SUFFICES ASSUME NEW x \in halves, NEW y \in halves, x # y
               PROVE  bytes(x[1], x[2]) \cap bytes(y[1], y[2]) = {}
    OBVIOUS
  <2>1. /\ x[1] \in 1 .. n /\ y[1] \in 1 .. n /\ x[2] \in {"data", "tweak"}
        /\ y[2] \in {"data", "tweak"} /\ (x[1] # y[1] \/ x[2] # y[2])
    OBVIOUS
  <2> QED BY <1>5, <2>1
<1>7. UNION {bytes(x[1], x[2]) : x \in halves} = 0 .. 2 * KeySize(c) - 1
  <2>1. ASSUME NEW x \in halves
        PROVE  bytes(x[1], x[2]) \subseteq 0 .. 64 * n - 1
    <3>1. x[1] \in 1 .. n /\ x[2] \in {"data", "tweak"}
      BY <2>1
    <3>2. /\ HalfAt(n, x[1], x[2]) \in Nat /\ HalfAt(n, x[1], x[2]) + 31 <= 64 * n - 1
      BY <1>2, <3>1, HalvesInside
    <3>3. bytes(x[1], x[2]) = HalfAt(n, x[1], x[2]) .. HalfAt(n, x[1], x[2]) + 31
      BY <1>4, <3>1
    <3> QED BY <1>2, <3>2, <3>3
  <2>2. ASSUME NEW b \in 0 .. 64 * n - 1
        PROVE  \E x \in halves : b \in bytes(x[1], x[2])
    <3>1. PICK i \in 1 .. n, h \in {"data", "tweak"} : b \in HalfAt(n, i, h) .. HalfAt(n, i, h) + 31
      BY <1>2, <2>2, HalvesCover
    <3>2. b \in bytes(i, h)
      BY <1>4, <3>1
    <3>3. <<i, h>> \in halves /\ <<i, h>>[1] = i /\ <<i, h>>[2] = h
      OBVIOUS
    <3> QED BY <3>2, <3>3
  <2>3. 2 * KeySize(c) = 64 * n
    BY <1>2
  <2> HIDE DEF halves
  <2> QED BY <2>1, <2>2, <2>3
<1>8. [i \in 1 .. n |-> ps[i].cipher] = VeracryptOrder[c]
  <2>1. ASSUME NEW i \in 1 .. n PROVE ps[i].cipher = VeracryptOrder[c][i]
    <3>1. ps[i] = PassOf(c, Plain("master"), i)
      BY <1>3, <2>1
    <3>2. PassOf(c, Plain("master"), i).cipher = VeracryptOrder[c][i]
      BY DEF PassOf
    <3> QED BY <3>1, <3>2
  <2>2. VeracryptOrder[c] = [i \in 1 .. Len(VeracryptOrder[c]) |-> VeracryptOrder[c][i]]
    BY <1>1, OrderIsFunction
  <2>3. Len(VeracryptOrder[c]) = n
    BY <1>2
  <2> QED BY <2>1, <2>2, <2>3
<1> QED BY <1>6, <1>7, <1>8 DEF PassesUseWholeKey, bytes, ps, n, c

-----------------------------------------------------------------------------
\* Theorems

\* The state stays well formed, and a session always has passes: what opening
\* finds satisfies create_sector_cipher in user mode and, once it went through
\* the ids and bytes of a mount request, KernelSectorCipher::new in the driver.
THEOREM TypeCorrect ==
  Spec => []TypeOK
<1>1. VolumeInv => TypeOK
  <2> SUFFICES ASSUME VolumeInv PROVE TypeOK
    OBVIOUS
  <2>1. /\ DOMAIN header.area = Parts /\ damaged \subseteq Parts \cup {"salt"}
        /\ salts \in 0 .. MaxChanges + 1 /\ (made = <<>> \/ made.cipher \in CipherTypes)
    BY DEF VolumeInv, HeaderInv, MadeInv
  <2>2. session # Closed =>
          session.kind \in {"rw", "ro", "driver"} /\ Len(session.passes) \in 1 .. 3
    BY <2>1, PassCount DEF VolumeInv, SessionInv, VolumePasses
  <2> QED BY <2>1, <2>2 DEF TypeOK, VolumeInv, ResultInv, StoreInv
<1> QED BY <1>1, AlwaysInv, PTL

\* Every session has the cipher and the master key the volume was created
\* with, though no header names its cipher: try_open takes the first of 15
\* ciphers whose decryption deserialize_header accepts, and no other than the
\* right one can be accepted, under any KDF, PIM, password or keyfiles tried.
THEOREM OpenedIsTheVolume ==
  Spec => []OpenedIsWritten
<1>1. VolumeInv => OpenedIsWritten
  BY DEF VolumeInv, SessionInv, OpenedIsWritten, KeyOf
<1> QED BY <1>1, AlwaysInv, PTL

\* No two passes of a session share a byte of the master key, no byte is left
\* out, and the passes stand in the cascade's order: build_cascade of the
\* driver and build_cascade_passes of user mode cut the key alike.
THEOREM KeyIsPartitioned ==
  Spec => []PassesUseWholeKey
<1>1. VolumeInv => PassesUseWholeKey
  BY WholeKey
<1> QED BY <1>1, AlwaysInv, PTL

\* Opening in user mode or for a mount succeeds only on an undamaged header
\* and with its password, its KDF (detected when not named, and always for a
\* mount), its effective PIM and, when no keyfile is empty or cut short, its
\* keyfiles; with these, in whatever order the keyfiles are given, it does
\* succeed.
THEOREM OpensOnlyRight ==
  Spec => []OpenIffRight
<1>1. VolumeInv => OpenIffRight
  BY DEF VolumeInv, ResultInv
<1> QED BY <1>1, AlwaysInv, PTL

\* Every sector reads back what was last written to it, by user mode or by the
\* driver, across sessions and password changes, provided that user mode
\* transfers one sector a call: a longer run is one XTS data unit for
\* write_sectors and several for encrypt_sectors of the driver.
THEOREM SectorsReadBack ==
  MaxRun = 1 => (Spec => []ReadsBack)
<1> SUFFICES ASSUME MaxRun = 1 PROVE Spec => []ReadsBack
  OBVIOUS
<1>1. Init => DataInv /\ ReadsBack
  BY DEF Init, DataInv, ReadsBack
<1>2. VolumeInv /\ VolumeInv' /\ DataInv /\ ReadsBack /\ [Next]_vars => DataInv' /\ ReadsBack'
  BY DataNext, ReadsBackNext
<1> QED BY <1>1, <1>2, AlwaysInv, PTL DEF Spec

=============================================================================
