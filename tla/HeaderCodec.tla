----------------------------- MODULE HeaderCodec ------------------------------
(***************************************************************************)
(* The volume header: how a password, keyfiles, a KDF and a PIM become a   *)
(* header key (keyfile.rs, kdf/), how a header is written and read         *)
(* (ser.rs, deser.rs, encrypt.rs) and how opening finds the KDF and the    *)
(* cipher nobody tells it (open.rs).                                       *)
(*                                                                         *)
(* Abstractions.  The encrypted area is four blocks: the one that begins   *)
(* with the magic number, the one with the other fields, the one with the  *)
(* header CRC and the key area.  A CRC is the bytes it is computed over    *)
(* and a KDF is one to one: collisions are left out.                       *)
(***************************************************************************)
EXTENDS CipherSuite, Bags

CONSTANTS
  KeyfileLength,    \* the length of each keyfile
  MAX_READ          \* keyfile.rs: 1 MiB, scaled

ASSUME KeyfileAssumption ==
  MAX_READ \in Nat /\ \A f \in DOMAIN KeyfileLength : KeyfileLength[f] \in Nat

MAX_HEADER_KEY_SIZE == 192
MASTER_KEYDATA_SIZE == 256

Smaller(a, b) == IF a < b THEN a ELSE b

-----------------------------------------------------------------------------
(* Keyfiles *)

\* The loop of apply_keyfiles: a keyfile adds its first bytes to the pool, from
\* the pool's first byte on, until one contributes nothing.
NoKeyfiles == [total |-> 0, pool |-> EmptyBag, ended |-> FALSE]

ReadKeyfile(old, path) ==
  LET n == Smaller(KeyfileLength[path], MAX_READ - old.total)
  IN  IF old.ended \/ n = 0 THEN [old EXCEPT !.ended = TRUE]
      ELSE [total |-> old.total + n, pool |-> old.pool (+) SetToBag({<<path, n>>}),
            ended |-> FALSE]

ReadKeyfiles(paths) ==
  LET step[i \in 0 .. Len(paths)] ==
        IF i = 0 THEN NoKeyfiles ELSE ReadKeyfile(step[i - 1], paths[i])
  IN  step

\* apply_keyfiles: the pool is added to the password, zero padded to the size of
\* the pool.
ApplyKeyfiles(pw, paths) ==
  IF paths = <<>> THEN [pw |-> pw, pool |-> EmptyBag, padded |-> FALSE]
  ELSE [pw |-> pw, pool |-> ReadKeyfiles(paths)[Len(paths)].pool, padded |-> TRUE]

-----------------------------------------------------------------------------
(* Key derivation *)

\* auto_kdf_candidates, in the order tried
AutoKdfs ==
  <<"Pbkdf2Sha512", "Pbkdf2Sha256", "Pbkdf2Blake2s", "Pbkdf2Whirlpool", "Pbkdf2Streebog",
    "Argon2id">>

Kdfs == {AutoKdfs[i] : i \in DOMAIN AutoKdfs}

\* KeyDerivation::get_iteration_count
GetIterationCount(pim) == IF pim > 0 THEN 15000 + pim * 1000 ELSE 500000

\* Argon2idKdf::params_for_pim: memory in MiB and time cost
ParamsForPim(pim) ==
  LET p == IF pim <= 0 THEN 12 ELSE pim
  IN  <<Smaller(64 + (p - 1) * 32, 1024),
        IF p <= 31 THEN 3 + (p - 1) \div 3 ELSE 13 + (p - 31)>>

\* make_kdf_candidate
MakeKdfCandidate(kdf, pim) ==
  [kdf |-> kdf, pim |-> pim,
   cost |-> IF kdf = "Argon2id" THEN ParamsForPim(pim) ELSE <<GetIterationCount(pim)>>]

\* auto_kdf_candidates and pim_for_algorithm
AutoKdfCandidates(pim) ==
  [i \in DOMAIN AutoKdfs |-> MakeKdfCandidate(AutoKdfs[i], pim)]

\* PBKDF2 computes its output in blocks, so that a shorter output is a prefix
\* of a longer one.  HMAC pads a key up to the block of its hash with zeros,
\* 128 bytes for SHA-512 and 64 for the others, and hashes a longer one.
Pbkdf2(c, pw, salt, len) ==
  Key([kdf |-> c.kdf, cost |-> c.cost, salt |-> salt,
       pw |-> IF c.kdf = "Pbkdf2Sha512" THEN [pw EXCEPT !.padded = FALSE] ELSE pw,
       out |-> 0], len)

\* Argon2id hashes the output length as well.
Argon2id(c, pw, salt, len) ==
  Key([kdf |-> c.kdf, cost |-> c.cost, salt |-> salt, pw |-> pw, out |-> len], len)

\* derive of each implementation
Derive(c, pw, salt, len) ==
  IF c.kdf = "Argon2id" THEN Argon2id(c, pw, salt, len) ELSE Pbkdf2(c, pw, salt, len)

\* Variant: only as many bytes as the cipher needs are derived.
HeaderKeyShort(c, pw, salt, cipher) ==
  LET needed == 2 * KeySize(cipher) IN Slice(Derive(c, pw, salt, needed), 0, needed)

\* What create and change encrypt a header with
HeaderKey(c, pw, salt, cipher) ==
  Slice(Derive(c, pw, salt, MAX_HEADER_KEY_SIZE), 0, 2 * KeySize(cipher))

-----------------------------------------------------------------------------
(* Header blocks *)

Parts == {"magic", "fields", "crc", "keys"}

\* Where each part begins, in blocks of 16 bytes of the encrypted area
PartBlock == [magic |-> 0, fields |-> 1, crc |-> 11, keys |-> 12]

\* serialize_header
SerializeHeader(h) ==
  LET magic == Plain([magic |-> "VERA", key_area_crc |-> h.keydata])
      fields == Plain([sector_size |-> h.sector_size, start |-> h.start])
  IN  [magic |-> magic, fields |-> fields, crc |-> Plain(<<magic, fields>>),
       keys |-> h.keydata]

\* encrypt_header_area and decrypt_header_area, data unit 0
EncryptHeaderArea(area, key, cipher) ==
  LET passes == HeaderPasses(cipher, key)
  IN  [p \in Parts |-> EncryptBlock(passes, 0, PartBlock[p], area[p])]
DecryptHeaderArea(area, key, cipher) ==
  LET passes == HeaderPasses(cipher, key)
  IN  [p \in Parts |-> DecryptBlock(passes, 0, PartBlock[p], area[p])]

MagicFits(area) == area.magic.op = "plain" /\ area.magic.v.magic = "VERA"
FieldsFit(area) ==
  /\ area.fields.op = "plain"
  /\ LET size == area.fields.v.sector_size IN size \in 512 .. 4096 /\ size % 512 = 0
HeaderCrcFits(area) == area.crc.op = "plain" /\ area.crc.v = <<area.magic, area.fields>>

\* Variant: the key area's CRC is not compared.
KeyAreaCrcIgnored(area) == TRUE

KeyAreaCrcFits(area) == area.magic.v.key_area_crc = area.keys

\* deserialize_header succeeds.
Deserializes(area) ==
  /\ MagicFits(area)
  /\ FieldsFit(area)
  /\ HeaderCrcFits(area)
  /\ KeyAreaCrcFits(area)

-----------------------------------------------------------------------------
(* Opening *)

AuthFailed == <<>>

\* try_decrypt with one KDF candidate and one cipher: one derivation for each
\* candidate, cut to what the cipher needs
Decrypted(header, pw, c, cipher) ==
  DecryptHeaderArea(header.area,
                    Slice(Derive(c, pw, header.salt, MAX_HEADER_KEY_SIZE), 0, 2 * KeySize(cipher)),
                    cipher)

OpenResult(area, c, cipher) ==
  [cipher |-> cipher, kdf |-> c.kdf, pim |-> c.pim,
   master_key |-> Slice(Key(area.keys, MASTER_KEYDATA_SIZE), 0, 2 * KeySize(cipher)),
   keydata |-> area.keys, sector_size |-> area.fields.v.sector_size,
   start |-> area.fields.v.start]

\* try_open: for every candidate every cipher; the first success counts.
TryOpen(header, pw, candidates) ==
  LET tried(k, i) == Decrypted(header, pw, candidates[k], AllSupported[i])
      hits == {x \in (DOMAIN candidates) \X (DOMAIN AllSupported) :
                 Deserializes(tried(x[1], x[2]))}
      first == CHOOSE x \in hits :
                 \A y \in hits : x[1] < y[1] \/ (x[1] = y[1] /\ x[2] <= y[2])
  IN  IF hits = {} THEN AuthFailed
      ELSE OpenResult(tried(first[1], first[2]), candidates[first[1]], AllSupported[first[2]])

=============================================================================
