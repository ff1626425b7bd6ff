----------------------------- MODULE CipherSuite ------------------------------
(***************************************************************************)
(* The ciphers of vcrypt-core and the three places that turn a cipher and  *)
(* a key into XTS passes: the driver (kernel.rs), volumes in user mode     *)
(* (sector_cipher.rs) and the header (encrypt.rs).                         *)
(*                                                                         *)
(* Keys are symbolic: a key has an identity and a length in bytes, a slice *)
(* of it a range as well.  A pass is a single cipher with the slices for   *)
(* data and tweak.  A pass is an unknown permutation of a data block for   *)
(* every data unit and block: applying it and undoing it cancel, and       *)
(* nothing else does.                                                      *)
(***************************************************************************)
EXTENDS Integers, Sequences

\* The single ciphers and, for cascades, the encryption order (the name read
\* backwards).  Pass i uses bytes 32(i-1) .. 32i of each half of the key.
VeracryptOrder ==
  [Aes |-> <<"Aes">>, Serpent |-> <<"Serpent">>, Twofish |-> <<"Twofish">>,
   Camellia |-> <<"Camellia">>, Kuznyechik |-> <<"Kuznyechik">>,
   AesTwofish |-> <<"Twofish", "Aes">>,
   AesTwofishSerpent |-> <<"Serpent", "Twofish", "Aes">>,
   SerpentAes |-> <<"Aes", "Serpent">>,
   SerpentTwofishAes |-> <<"Aes", "Twofish", "Serpent">>,
   TwofishSerpent |-> <<"Serpent", "Twofish">>,
   CamelliaKuznyechik |-> <<"Kuznyechik", "Camellia">>,
   CamelliaSerpent |-> <<"Serpent", "Camellia">>,
   KuznyechikAes |-> <<"Aes", "Kuznyechik">>,
   KuznyechikSerpentCamellia |-> <<"Camellia", "Serpent", "Kuznyechik">>,
   KuznyechikTwofish |-> <<"Twofish", "Kuznyechik">>]

\* CipherType::all_supported, in the order in which opening tries them
AllSupported ==
  <<"Aes", "Serpent", "Twofish", "Camellia", "Kuznyechik", "AesTwofish",
    "AesTwofishSerpent", "SerpentAes", "SerpentTwofishAes", "TwofishSerpent",
    "CamelliaKuznyechik", "CamelliaSerpent", "KuznyechikAes",
    "KuznyechikSerpentCamellia", "KuznyechikTwofish">>

CipherTypes == {AllSupported[i] : i \in DOMAIN AllSupported}

\* CipherType::cipher_count and key_size
CipherCount(c) == Len(VeracryptOrder[c])
KeySize(c) == 32 * CipherCount(c)

\* cipher_to_ea: the id of a cipher in a mount request
CipherToEa ==
  [Aes |-> 1, Serpent |-> 2, Twofish |-> 3, Camellia |-> 4, Kuznyechik |-> 5,
   AesTwofish |-> 17, AesTwofishSerpent |-> 18, SerpentAes |-> 19,
   SerpentTwofishAes |-> 20, TwofishSerpent |-> 21, CamelliaKuznyechik |-> 22,
   CamelliaSerpent |-> 23, KuznyechikAes |-> 24, KuznyechikSerpentCamellia |-> 25,
   KuznyechikTwofish |-> 26]

Singles == <<"Aes", "Serpent", "Twofish", "Camellia", "Kuznyechik">>
Cascades ==
  <<"AesTwofish", "AesTwofishSerpent", "SerpentAes", "SerpentTwofishAes", "TwofishSerpent",
    "CamelliaKuznyechik", "CamelliaSerpent", "KuznyechikAes", "KuznyechikSerpentCamellia",
    "KuznyechikTwofish">>

\* Variant: the ids of the cascades are counted from 0x10.
CipherTypeFromEaShifted(ea) ==
  CASE ea \in 1 .. 5 -> Singles[ea]
    [] ea \in 16 .. 25 -> Cascades[ea - 15]
    [] OTHER -> "unknown"

\* cipher_type_from_ea: 0x01 - 0x05 and 0x11 - 0x1A
CipherTypeFromEa(ea) ==
  CASE ea \in 1 .. 5 -> Singles[ea]
    [] ea \in 17 .. 26 -> Cascades[ea - 16]
    [] OTHER -> "unknown"

-----------------------------------------------------------------------------
(* Keys and passes *)

Key(id, len) == [id |-> id, lo |-> 0, hi |-> len]
Slice(key, lo, hi) == [id |-> key.id, lo |-> key.lo + lo, hi |-> key.lo + hi]
Length(key) == key.hi - key.lo

BadKey == <<>>     \* the errors InvalidKeySize and "Bad key size"

\* XtsMode::new: the first half of the key for the data, the second for the
\* tweak.
XtsPass(cipher, key) ==
  [cipher |-> cipher, data |-> Slice(key, 0, 32), tweak |-> Slice(key, 32, 64)]

\* The pass of a cascade at an offset in both halves.
CascadePass(cipher, data_half, tweak_half, offset) ==
  [cipher |-> cipher, data |-> Slice(data_half, offset, offset + 32),
   tweak |-> Slice(tweak_half, offset, offset + 32)]

\* Variant: the tweak half is taken at the same bytes as the data half.
BuildCascadeOneHalf(cipher, key) ==
  LET half == KeySize(cipher)
      order == VeracryptOrder[cipher]
  IN  [i \in DOMAIN order |->
         CascadePass(order[i], Slice(key, 0, half), Slice(key, 0, half), 32 * (i - 1))]

\* KernelSectorCipher::build_cascade
BuildCascade(cipher, key) ==
  LET half == KeySize(cipher)
      order == VeracryptOrder[cipher]
  IN  [i \in DOMAIN order |->
         CascadePass(order[i], Slice(key, 0, half), Slice(key, half, 2 * half), 32 * (i - 1))]

\* KernelSectorCipher::new
KernelPasses(cipher, key) ==
  IF Length(key) # 2 * KeySize(cipher) THEN BadKey
  ELSE IF CipherCount(cipher) = 1 THEN <<XtsPass(cipher, key)>>
  ELSE BuildCascade(cipher, key)

\* build_cascade_passes of sector_cipher.rs
BuildCascadePasses(cipher, key) ==
  LET half == KeySize(cipher)
      order == VeracryptOrder[cipher]
  IN  [i \in DOMAIN order |->
         CascadePass(order[i], Slice(key, 0, half), Slice(key, half, 2 * half), 32 * (i - 1))]

\* create_sector_cipher
SectorPasses(cipher, key) ==
  IF Length(key) # 2 * KeySize(cipher) THEN BadKey
  ELSE IF CipherCount(cipher) = 1 THEN <<XtsPass(cipher, key)>>
  ELSE BuildCascadePasses(cipher, key)

\* apply_xts and apply_xts_cascade of encrypt.rs
HeaderPasses(cipher, key) ==
  LET half == KeySize(cipher)
      order == VeracryptOrder[cipher]
  IN  IF Length(key) # 2 * half THEN BadKey
      ELSE IF Len(order) = 1 THEN <<XtsPass(cipher, key)>>
      ELSE [i \in DOMAIN order |->
              CascadePass(order[i], Slice(key, 0, half), Slice(key, half, 2 * half),
                          32 * (i - 1))]

-----------------------------------------------------------------------------
(* XTS *)

Plain(v) == [op |-> "plain", v |-> v]
Noise == [op |-> "noise"]   \* bytes nobody encrypted

\* One pass over a block: XtsMode::encrypt ("enc") and decrypt ("dec") with
\* the tweak of a data unit and of the block's place in it.
Apply(op, pass, unit, block, x) ==
  LET undo == IF op = "enc" THEN "dec" ELSE "enc"
  IN  IF x.op = undo /\ x.unit = unit /\ x.block = block /\ x.pass = pass THEN x.x
      ELSE [op |-> op, pass |-> pass, unit |-> unit, block |-> block, x |-> x]

\* Passes are applied forwards (CascadeSectorCipher::encrypt_sector) and
\* undone backwards (decrypt_sector); a cascade has at most three.
EncryptBlock(passes, unit, block, x) ==
  LET one == Apply("enc", passes[1], unit, block, x)
      two == Apply("enc", passes[2], unit, block, one)
  IN  CASE Len(passes) = 1 -> one
        [] Len(passes) = 2 -> two
        [] Len(passes) = 3 -> Apply("enc", passes[3], unit, block, two)

DecryptBlock(passes, unit, block, x) ==
  LET n == Len(passes)
      one == Apply("dec", passes[n], unit, block, x)
      two == Apply("dec", passes[n - 1], unit, block, one)
  IN  CASE n = 1 -> one
        [] n = 2 -> two
        [] n = 3 -> Apply("dec", passes[1], unit, block, two)

\* KernelSectorCipher::encrypt_sector and decrypt_sector: one sector a unit
KernelEncrypt(passes, unit, x) == EncryptBlock(passes, unit, 0, x)
KernelDecrypt(passes, unit, x) == DecryptBlock(passes, unit, 0, x)

=============================================================================
