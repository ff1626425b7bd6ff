------------------------------ MODULE DataUnits -------------------------------
(***************************************************************************)
(* One volume and the two programs that read and write it: OpenVolume in   *)
(* user mode and the driver.  The volume is created, its password is       *)
(* changed and its header may be damaged; a session opens it with          *)
(* credentials, builds XTS passes from the master key and turns sectors    *)
(* into ciphertext and back.                                               *)
(*                                                                         *)
(* Abstractions.  The header is one copy (VolumeFile has the two copies,   *)
(* the hidden volume and the crashes), and the file is not otherwise       *)
(* written.  At most one session exists: HostFile shows what the share     *)
(* modes do.  A sector is one block of its data unit's XTS stream.         *)
(***************************************************************************)
EXTENDS HeaderCodec, FiniteSets

CONSTANTS
  Creations,    \* what volumes are created with: cipher, kdf, pim, pw, kfs
  Attempts,     \* what they are opened with: kdf or "auto", pim or -1, pw, kfs
  NewCredentials,   \* what passwords are changed to: pw, kfs
  NSectors,     \* sectors of the data area
  Values,       \* what a sector may hold
  MaxRun,       \* sectors of one call in user mode (bound)
  MaxChanges    \* password changes (bound)

ASSUME BoundsAssumption ==
  NSectors \in Nat \ {0} /\ MaxRun \in 1 .. NSectors /\ MaxChanges \in Nat

AnyKdf == "auto"
NoPim == -1

\* A larger PIM makes get_iteration_count exceed 32 bits: it is not modelled.
MaxPim == 4294952

KeyfileLists == Seq(DOMAIN KeyfileLength)

ASSUME CreationAssumption ==
  \A c \in Creations :
    /\ DOMAIN c = {"cipher", "kdf", "pim", "pw", "kfs"}
    /\ c.cipher \in CipherTypes /\ c.kdf \in Kdfs /\ c.pim \in Int /\ c.pim <= MaxPim
    /\ c.kfs \in KeyfileLists

ASSUME AttemptAssumption ==
  \A a \in Attempts :
    /\ DOMAIN a = {"kdf", "pim", "pw", "kfs"}
    /\ a.kdf \in Kdfs \cup {AnyKdf} /\ a.pim \in Int /\ a.pim <= MaxPim
    /\ a.kfs \in KeyfileLists

ASSUME NewCredentialAssumption ==
  \A b \in NewCredentials : b.kfs \in KeyfileLists

VARIABLES
  header,     \* the header on disk: salt and encrypted area
  made,       \* what the header was last written with; <<>> before Create
  damaged,    \* the parts of the header that were overwritten
  salts,      \* salts drawn so far
  data,       \* the sectors on disk
  written,    \* the value last written to each sector, or "never"
  session,    \* the session: kind, cipher, master key, passes; or <<>>
  result,     \* the last attempt to open and whether it succeeded; or <<>>
  answer      \* the last read: sector and values; or <<>>

vars == <<header, made, damaged, salts, data, written, session, result, answer>>

Sectors == 0 .. NSectors - 1
PimOr0(pim) == IF pim = NoPim THEN 0 ELSE pim

\* No volume, and no session
Closed == <<>>
NewHeader(h, c, pw, salt, cipher) ==
  [salt |-> salt,
   area |-> EncryptHeaderArea(SerializeHeader(h), HeaderKey(c, pw, salt, cipher), cipher)]

Init ==
  /\ header = [salt |-> 0, area |-> [p \in Parts |-> Noise]]
  /\ made = <<>>
  /\ damaged = {}
  /\ salts = 0
  /\ data = [s \in Sectors |-> Noise]
  /\ written = [s \in Sectors |-> "never"]
  /\ session = Closed /\ result = <<>> /\ answer = <<>>

\* cmd_create and create_volume_full: a new salt and master key; the data
\* area is left as it is.
Create(c) ==
  /\ made = <<>>
  /\ salts' = salts + 1
  /\ header' = NewHeader([keydata |-> Plain("master"), sector_size |-> 512, start |-> 512],
                         MakeKdfCandidate(c.kdf, c.pim), ApplyKeyfiles(c.pw, c.kfs),
                         salts', c.cipher)
  /\ made' = c
  /\ UNCHANGED <<damaged, data, written, session, result, answer>>

\* One part of the header is overwritten, or its salt.  (Once, and before
\* data is written: sectors are not read through the header.)
Damage(part) ==
  /\ made # <<>> /\ damaged = {} /\ result = <<>>
  /\ \A s \in Sectors : written[s] = "never"
  /\ damaged' = {part}
  /\ header' = IF part = "salt" THEN [header EXCEPT !.salt = 0]
               ELSE [header EXCEPT !.area[part] = Noise]
  /\ UNCHANGED <<made, salts, data, written, session, result, answer>>

\* A KDF that is named is the only one tried.
Candidates(a) ==
  IF a.kdf = AnyKdf THEN AutoKdfCandidates(PimOr0(a.pim))
  ELSE <<MakeKdfCandidate(a.kdf, PimOr0(a.pim))>>

\* open_volume_file and open_volume_file_with_kdf
OpenVolumeFile(a) == TryOpen(header, ApplyKeyfiles(a.pw, a.kfs), Candidates(a))

\* mount_via_driver detects the KDF even when it is told one, and tries that
\* one next.
OpenForMount(a) ==
  LET found == OpenVolumeFile([a EXCEPT !.kdf = AnyKdf])
  IN  IF found # AuthFailed \/ a.kdf = AnyKdf THEN found ELSE OpenVolumeFile(a)

Begin(kinds, a, found, passes) ==
  /\ made # <<>> /\ session = Closed /\ result = <<>>
  /\ \E kind \in kinds :
       /\ result' = [kind |-> kind, attempt |-> a, ok |-> found # AuthFailed]
       /\ session' = IF found = AuthFailed THEN Closed
                     ELSE [kind |-> kind, cipher |-> found.cipher,
                           master_key |-> found.master_key, passes |-> passes]
  /\ answer' = <<>>
  /\ UNCHANGED <<header, made, damaged, salts, data, written>>

\* OpenVolume::open and open_read_only
OpenUser(a) ==
  LET found == OpenVolumeFile(a)
  IN  Begin({"rw", "ro"}, a, found,
            IF found = AuthFailed THEN BadKey ELSE SectorPasses(found.cipher, found.master_key))

\* What the driver makes of the ids and bytes of a mount request
\* (init_cipher_from_ea_and_key); the request holds 192 bytes of key.
InitCipher(ea, key) ==
  LET ct == CipherTypeFromEa(ea)
  IN  IF ct = "unknown" THEN BadKey
      ELSE KernelPasses(ct, Slice(key, 0, Smaller(2 * KeySize(ct), 192)))

\* mount_via_driver, when the request reaches the driver as it was sent
MountDriver(a) ==
  LET found == OpenForMount(a)
  IN  Begin({"driver"}, a, found,
            IF found = AuthFailed THEN BadKey
            ELSE InitCipher(CipherToEa[found.cipher], found.master_key))

\* cmd_change and change_volume_password: the PIM given is both the old and
\* the new one, and the KDF the new one.
ChangePassword(a, pw, kfs) ==
  LET old == OpenVolumeFile([a EXCEPT !.kdf = AnyKdf])
      kdf == IF a.kdf = AnyKdf THEN old.kdf ELSE a.kdf
      pim == PimOr0(a.pim)
  IN  /\ made # <<>> /\ result = <<>> /\ answer = <<>>
      /\ salts <= MaxChanges
      /\ old # AuthFailed
      /\ salts' = salts + 1
      /\ header' = NewHeader(old, MakeKdfCandidate(kdf, pim), ApplyKeyfiles(pw, kfs),
                             salts', old.cipher)
      /\ made' = [made EXCEPT !.kdf = kdf, !.pim = pim, !.pw = pw, !.kfs = kfs]
      /\ UNCHANGED <<damaged, data, written, session, result, answer>>

-----------------------------------------------------------------------------
(* Reading and writing *)

\* A run of sectors under one XTS data unit: read_sectors and write_sectors
\* pass the whole buffer to the cipher with the number of its first sector.
UserUnit(s, i) == s
UserBlock(s, i) == i

\* Variant: the sectors of a request share the number of the first.
DriverUnitFirst(s, i) == s

\* Every sector is a data unit: encrypt_sectors and decrypt_sectors.
DriverUnit(s, i) == s + i

Put(s, new) == [x \in Sectors |-> IF x - s \in DOMAIN new THEN new[x - s] ELSE data[x]]

\* The values vals, encrypted as cipher, go to the sectors from s on.
Wrote(s, vals, cipher) ==
  /\ data' = Put(s, cipher)
  /\ written' = [x \in Sectors |->
                   IF x - s \in DOMAIN cipher THEN vals[x - s + 1] ELSE written[x]]
  /\ answer' = <<>> /\ result' = <<>>
  /\ UNCHANGED <<header, made, damaged, salts, session>>

Read(s, plain) ==
  /\ answer' = [sector |-> s, data |-> plain]
  /\ result' = <<>>
  /\ UNCHANGED <<header, made, damaged, salts, data, written, session>>

\* Runs that end inside the volume (cmd_dump cuts its run at max_sector)
Runs(s, max) == 1 .. Smaller(max, NSectors - s)
InSession(kinds) == session # Closed /\ session.kind \in kinds

\* OpenVolume::write and read
UserWrite(s, vals) ==
  /\ InSession({"rw"})
  /\ Wrote(s, vals, [i \in 0 .. Len(vals) - 1 |->
                       EncryptBlock(session.passes, UserUnit(s, i), UserBlock(s, i),
                                    Plain(vals[i + 1]))])

UserRead(s, n) ==
  /\ InSession({"rw", "ro"})
  /\ Read(s, [i \in 0 .. n - 1 |->
                DecryptBlock(session.passes, UserUnit(s, i), UserBlock(s, i), data[s + i])])

\* The driver's write and read of whole sectors
DriverWrite(s, vals) ==
  /\ InSession({"driver"}) /\ session.passes # BadKey
  /\ Wrote(s, vals, [i \in 0 .. Len(vals) - 1 |->
                       KernelEncrypt(session.passes, DriverUnit(s, i), Plain(vals[i + 1]))])

DriverRead(s, n) ==
  /\ InSession({"driver"}) /\ session.passes # BadKey
  /\ Read(s, [i \in 0 .. n - 1 |->
                KernelDecrypt(session.passes, DriverUnit(s, i), data[s + i])])

\* The session ends (Drop of OpenVolume, unmount), or the command that could
\* not begin one.
Close ==
  /\ session # Closed \/ result # <<>>
  /\ session' = Closed /\ result' = <<>> /\ answer' = <<>>
  /\ UNCHANGED <<header, made, damaged, salts, data, written>>

Opening ==
  \/ \E c \in Creations : Create(c)
  \/ \E part \in Parts \cup {"salt"} : Damage(part)
  \/ \E a \in Attempts : OpenUser(a)
  \/ \E a \in Attempts : MountDriver(a)
  \/ \E a \in Attempts, b \in NewCredentials : ChangePassword(a, b.pw, b.kfs)
  \/ Close

Using ==
  \E s \in Sectors :
     \/ \E n \in Runs(s, MaxRun), v \in Values : UserWrite(s, [i \in 1 .. n |-> v])
     \/ \E n \in Runs(s, NSectors), v \in Values : DriverWrite(s, [i \in 1 .. n |-> v])
     \/ \E n \in Runs(s, MaxRun) : UserRead(s, n)
     \/ \E n \in Runs(s, NSectors) : DriverRead(s, n)

Next == Opening \/ Using

Spec == Init /\ [][Next]_vars

-----------------------------------------------------------------------------
(* Properties *)

\* The state is well formed, and a session always has passes: opening finds a
\* cipher and a key that the constructors of sector ciphers accept, on either
\* side of the mount request.
TypeOK ==
  /\ DOMAIN header.area = Parts
  /\ made = <<>> \/ made.cipher \in CipherTypes
  /\ damaged \subseteq Parts \cup {"salt"}
  /\ salts \in 0 .. MaxChanges + 1
  /\ DOMAIN data = Sectors
  /\ written \in [Sectors -> Values \cup {"never"}]
  /\ session # Closed =>
       session.kind \in {"rw", "ro", "driver"} /\ Len(session.passes) \in 1 .. 3
  /\ result # <<>> => result.attempt \in Attempts /\ result.ok \in BOOLEAN
  /\ answer # <<>> => answer.sector \in Sectors

\* Reading a sector gives what was last written to it, whichever of user mode
\* and driver wrote it, in how long a request, and however the password was
\* changed in between: both build the same passes from the header and number
\* the data units alike.
ReadsBack ==
  answer # <<>> =>
    \A i \in DOMAIN answer.data :
      LET last == written[answer.sector + i]
      IN  last # "never" => answer.data[i] = Plain(last)

\* The PIM an attempt stands for: 0 and no PIM are the default of each KDF.
EffectivePim(kdf, pim) ==
  IF pim > 0 THEN pim ELSE IF kdf = "Argon2id" THEN 12 ELSE 485

\* The length of the first i keyfiles of a list
LengthUpTo(kfs) ==
  LET sum[i \in 0 .. Len(kfs)] == IF i = 0 THEN 0 ELSE sum[i - 1] + KeyfileLength[kfs[i]]
  IN  sum

Regular(kfs) ==
  /\ LengthUpTo(kfs)[Len(kfs)] <= MAX_READ
  /\ \A i \in DOMAIN kfs : KeyfileLength[kfs[i]] > 0

Times(f, kfs) == Cardinality({i \in DOMAIN kfs : kfs[i] = f})
SameFiles(k, l) == \A f \in DOMAIN KeyfileLength : Times(f, k) = Times(f, l)

\* Opening succeeds exactly when the header is undamaged and the password, the
\* KDF (unless it is detected), the PIM and the keyfiles are those the header
\* was written with; mounting detects the KDF even when told one.  The order of
\* the keyfiles does not matter as long as none is empty and all are read to
\* the end; otherwise nothing is said of lists that differ.
OpenIffRight ==
  result # <<>> =>
    LET a == result.attempt
        kdf == a.kdf \in {AnyKdf, made.kdf} \/ result.kind = "driver"
        right == /\ damaged = {}
                 /\ a.pw = made.pw
                 /\ EffectivePim(made.kdf, a.pim) = EffectivePim(made.kdf, made.pim)
        regular == Regular(a.kfs) /\ Regular(made.kfs)
    IN  /\ result.ok => right /\ kdf
        /\ result.ok /\ regular => SameFiles(a.kfs, made.kfs)
        /\ right /\ kdf /\ (a.kfs = made.kfs \/ (regular /\ SameFiles(a.kfs, made.kfs)))
             => result.ok

\* A session has the cipher and the master key of the volume.  No cipher is
\* recorded in a header and no other key must be accepted for it: the
\* detection of the cipher and the CRCs have to exclude both.
OpenedIsWritten ==
  session # Closed =>
    /\ session.cipher = made.cipher
    /\ session.master_key = Key(Plain("master"), 2 * KeySize(made.cipher))

\* The passes of a session share no byte of the master key, and together they
\* use all of it; pass i is the cipher at that place of the cascade.
PassesUseWholeKey ==
  session # Closed =>
    LET n == Len(session.passes)
        half(i, h) == IF h = "data" THEN session.passes[i].data ELSE session.passes[i].tweak
        bytes(i, h) == half(i, h).lo .. half(i, h).hi - 1
        halves == (1 .. n) \X {"data", "tweak"}
    IN  /\ \A x, y \in halves : x # y => bytes(x[1], x[2]) \cap bytes(y[1], y[2]) = {}
        /\ UNION {bytes(x[1], x[2]) : x \in halves} = 0 .. 2 * KeySize(made.cipher) - 1
        /\ [i \in 1 .. n |-> session.passes[i].cipher] = VeracryptOrder[made.cipher]

=============================================================================
