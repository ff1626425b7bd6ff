------------------------------ MODULE VolumeFile ------------------------------
(***************************************************************************)
(* A container file as vcrypt-volume lays it out and rewrites it: header   *)
(* slots, outer data area and hidden data area, the header operations      *)
(* (create, create hidden, change password, restore) as sequences of slot  *)
(* writes that may stop in the middle, and one OpenVolume session writing  *)
(* data at the same time from another process.                             *)
(*                                                                         *)
(* Abstractions.  The file is an array of 64 KiB units                     *)
(* (VOLUME_HEADER_SIZE); a unit is a header, torn (partly written),        *)
(* sector data encrypted under a key, raw bytes, or zero.  A credential is *)
(* whatever unlocks a header: password, keyfiles and PIM together (the KDF *)
(* is found by trial).  A master key is a number, fresh for every header   *)
(* that is created.  A header operation holds the file alone among header  *)
(* operations; the session does not.  Writes that would grow the file are  *)
(* not modelled.                                                           *)
(***************************************************************************)
EXTENDS Integers, Sequences, FiniteSets

CONSTANTS
  Creds,        \* credentials users type
  NoCred,       \* the random header key of a decoy, which nobody holds
  VolSize,      \* the size given to create, in units
  HiddenSizes,  \* the sizes given to create-hidden, in units
  MaxWrite,     \* bound: units written by one call of OpenVolume::write
  MaxRaw,       \* bound: units holding raw bytes at one time
  MaxKeys       \* bound: master keys generated in a behaviour

ASSUME CredAssumption == NoCred \notin Creds
ASSUME SizeAssumption ==
  /\ VolSize \in Nat
  /\ HiddenSizes \subseteq Nat \ {0}
  /\ MaxWrite \in Nat
  /\ MaxRaw \in Nat
  /\ MaxKeys \in Nat

VARIABLES
  file,      \* Units -> Content
  op,        \* the header operation in progress, or NoOp
  session,   \* the open OpenVolume, or NoSession
  lastKey    \* the last master key drawn from the generator

vars == <<file, op, session, lastKey>>

-----------------------------------------------------------------------------
\* The file: cmd_create makes it VolSize plus four header sizes long.

FileEnd == VolSize + 4
Units == 0 .. FileEnd - 1

Primary == 0
HiddenPrimary == 1
Backup == FileEnd - 2
HiddenBackup == FileEnd - 1
Slots == {Primary, HiddenPrimary, Backup, HiddenBackup}

Zero == [k |-> "zero"]
Torn == [k |-> "torn"]
Raw == [k |-> "raw"]
Data(key) == [k |-> "data", key |-> key]

Keys == Nat \ {0}
Headers == [k : {"hdr"}, cred : Creds \cup {NoCred}, key : Keys,
            start : Nat, len : Nat, hidden : BOOLEAN]
DataUnits == [k : {"data"}, key : Keys]
Content == {Zero, Torn, Raw} \cup DataUnits \cup Headers

Header(cred, key, start, len, hidden) ==
  [k |-> "hdr", cred |-> cred, key |-> key,
   start |-> start, len |-> len, hidden |-> hidden]

IsHeader(c) == c.k = "hdr"

\* The slots an open looks at: V2 normal, V1 legacy, V2 hidden, each primary
\* first and then its backup, except that V1 has none.
SearchOrder == <<Primary, Backup, Primary, HiddenPrimary, HiddenBackup>>

Unlocks(c, f, s) == IsHeader(f[s]) /\ f[s].cred = c

\* The slot whose header open_volume_file returns for credential c: the
\* first that decrypts; a header that does not is skipped.
OpenableWith(c, f) == \E s \in Slots : Unlocks(c, f, s)
OpenSlot(c, f) ==
  SearchOrder[CHOOSE i \in 1..5 :
                /\ Unlocks(c, f, SearchOrder[i])
                /\ \A j \in 1..(i-1) : ~Unlocks(c, f, SearchOrder[j])]

-----------------------------------------------------------------------------
\* Header operations.  Each is a list of slots rewritten in order.

NoOp == [kind |-> "none"]
NoSession == [state |-> "closed"]

\* Variant: change rewrites the primary header before the backup.
ScriptPrimaryFirst(kind) ==
  CASE kind = "create"  -> <<Primary, Backup, HiddenPrimary, HiddenBackup>>
    [] kind = "hidden"  -> <<HiddenPrimary, HiddenBackup>>
    [] OTHER            -> <<Primary, Backup>>

\* Variant: the seek to the primary slot is missing, and change writes the
\* backup slot twice.
ScriptNoSeek(kind) ==
  CASE kind = "create"  -> <<Primary, Backup, HiddenPrimary, HiddenBackup>>
    [] kind = "hidden"  -> <<HiddenPrimary, HiddenBackup>>
    [] kind = "change"  -> <<Backup, Backup>>
    [] kind = "restore" -> <<Primary, Backup>>

Script(kind) ==
  CASE kind = "create"  -> <<Primary, Backup, HiddenPrimary, HiddenBackup>>
    [] kind = "hidden"  -> <<HiddenPrimary, HiddenBackup>>
    [] kind = "change"  -> <<Backup, Primary>>
    [] kind = "restore" -> <<Primary, Backup>>

Operation(kind, old, via, hdr, decoy) ==
  [kind |-> kind, step |-> 1, mid |-> FALSE,
   old |-> old, via |-> via, hdr |-> hdr, decoy |-> decoy]

Slot == Script(op.kind)[op.step]

\* create writes the new header to the normal slots, then the decoy to the
\* hidden ones; the other operations write one header everywhere.
Written == IF op.kind = "create" /\ op.step > 2 THEN op.decoy ELSE op.hdr

Start(o) == op = NoOp /\ op' = o /\ UNCHANGED session

\* create: a new file, zero filled, then the header with a fresh key and a
\* decoy under a random header key.
CreateVolume(c) ==
  LET hdr == Header(c, lastKey + 1, 4, VolSize, FALSE)
      decoy == Header(NoCred, lastKey + 2, 0, 0, TRUE)
  IN  /\ file = [u \in Units |-> Zero]
      /\ lastKey + 2 <= MaxKeys
      /\ Start(Operation("create", NoCred, Primary, hdr, decoy))
      /\ lastKey' = lastKey + 2
      /\ UNCHANGED file

\* create-hidden: only the size of the file is checked.
CreateHiddenVolume(c, size) ==
  LET hdr == Header(c, lastKey + 1, FileEnd - 2 - size, size, TRUE)
  IN  /\ file # [u \in Units |-> Zero]
      /\ FileEnd >= 2 + size
      /\ lastKey + 1 <= MaxKeys
      /\ Start(Operation("hidden", NoCred, HiddenPrimary, hdr, hdr))
      /\ lastKey' = lastKey + 1
      /\ UNCHANGED file

\* Variant: the header is built anew instead of taken from the opened one,
\* and loses where the data starts.
ChangePasswordFreshHeader(old, new) ==
  LET via == OpenSlot(old, file)
      hdr == [file[via] EXCEPT !.cred = new, !.start = 0]
  IN  /\ OpenableWith(old, file)
      /\ Start(Operation("change", old, via, hdr, hdr))
      /\ UNCHANGED <<file, lastKey>>

\* change: open with the old credential, re-encrypt the header that was
\* found under the new one, write backup and then primary.
ChangePassword(old, new) ==
  LET via == OpenSlot(old, file)
      hdr == [file[via] EXCEPT !.cred = new]
  IN  /\ OpenableWith(old, file)
      /\ Start(Operation("change", old, via, hdr, hdr))
      /\ UNCHANGED <<file, lastKey>>

\* restore: the backup slot must unlock; its bytes go to the primary slot
\* and back to the backup slot.
RestoreHeader(c) ==
  LET hdr == file[Backup]
  IN  /\ Unlocks(c, file, Backup)
      /\ Start(Operation("restore", c, Backup, hdr, hdr))
      /\ UNCHANGED <<file, lastKey>>

\* A slot write: the unit is torn from the moment the write begins.
BeginWrite ==
  /\ op # NoOp
  /\ ~op.mid
  /\ file' = [file EXCEPT ![Slot] = Torn]
  /\ op' = [op EXCEPT !.mid = TRUE]
  /\ UNCHANGED <<session, lastKey>>

\* Variant: one step too many before the operation ends.
EndWriteOffByOne ==
  /\ op # NoOp
  /\ op.mid
  /\ file' = [file EXCEPT ![Slot] = Written]
  /\ op' = IF op.step > Len(Script(op.kind))
             THEN NoOp
             ELSE [op EXCEPT !.step = @ + 1, !.mid = FALSE]
  /\ UNCHANGED <<session, lastKey>>

EndWrite ==
  /\ op # NoOp
  /\ op.mid
  /\ file' = [file EXCEPT ![Slot] = Written]
  /\ op' = IF op.step = Len(Script(op.kind))
             THEN NoOp
             ELSE [op EXCEPT !.step = @ + 1, !.mid = FALSE]
  /\ UNCHANGED <<session, lastKey>>

\* An I/O error, a killed process or a power loss: the operation stops where
\* it is.
Fail ==
  /\ op # NoOp
  /\ op' = NoOp
  /\ UNCHANGED <<file, session, lastKey>>

-----------------------------------------------------------------------------
\* The OpenVolume session.

SessionOf(hdr, ro, from, to, hkey) ==
  [state |-> "open", key |-> hdr.key, start |-> hdr.start, len |-> hdr.len,
   ro |-> ro, from |-> from, to |-> to, hkey |-> hkey, trig |-> FALSE]

\* OpenVolume::open and open_read_only
OpenVolume(c, ro) ==
  /\ session = NoSession
  /\ OpenableWith(c, file)
  /\ session' = SessionOf(file[OpenSlot(c, file)], ro, 0, 0, 0)
  /\ UNCHANGED <<file, op, lastKey>>

\* OpenVolume::open_with_protection
OpenWithProtection(c, hc) ==
  LET outer == file[OpenSlot(c, file)]
      inner == file[OpenSlot(hc, file)]
  IN  /\ session = NoSession
      /\ OpenableWith(c, file) /\ ~outer.hidden
      /\ OpenableWith(hc, file) /\ inner.hidden
      /\ session' = SessionOf(outer, FALSE, inner.start,
                              inner.start + inner.len, inner.key)
      /\ UNCHANGED <<file, op, lastKey>>

\* Variant: the last protected unit's start is compared one too far.
CheckProtectedRangeOffByOne(off, n) ==
  off < session.to /\ off + n > session.from + 1

\* A write of n units at offset off overlaps the protected range.
CheckProtectedRange(off, n) == off < session.to /\ off + n > session.from

\* OpenVolume::write at unit a of the volume.  The checks are the code's: an
\* overlap latches the session, and nothing compares the end with len.
WriteSectors(a, n) ==
  LET off == session.start + a
  IN  /\ session # NoSession
      /\ ~session.ro
      /\ ~session.trig
      /\ off + n <= FileEnd
      /\ \/ /\ CheckProtectedRange(off, n)
            /\ session' = [session EXCEPT !.trig = TRUE]
            /\ UNCHANGED file
         \/ /\ ~CheckProtectedRange(off, n)
            /\ file' = [u \in Units |-> IF u \in off .. off + n - 1
                                          THEN Data(session.key) ELSE file[u]]
            /\ UNCHANGED session
      /\ UNCHANGED <<op, lastKey>>

\* std::io::Write: the bytes go to the file at its current position, which
\* is 0 after opening, moves on with every read and write, past the data area
\* too, and can be sought to any place of the data area.
RawWrite(u) ==
  /\ session # NoSession
  /\ ~session.ro
  /\ Cardinality({v \in Units : file[v] = Raw}) < MaxRaw
  /\ file' = [file EXCEPT ![u] = Raw]
  /\ UNCHANGED <<op, session, lastKey>>

Close ==
  /\ session # NoSession
  /\ session' = NoSession
  /\ UNCHANGED <<file, op, lastKey>>

-----------------------------------------------------------------------------

Init ==
  /\ file = [u \in Units |-> Zero]
  /\ op = NoOp
  /\ session = NoSession
  /\ lastKey = 0

Next ==
  \/ \E c \in Creds : CreateVolume(c)
  \/ \E c \in Creds, size \in HiddenSizes : CreateHiddenVolume(c, size)
  \/ \E old, new \in Creds : ChangePassword(old, new)
  \/ \E c \in Creds : RestoreHeader(c)
  \/ BeginWrite
  \/ EndWrite
  \/ Fail
  \/ \E c \in Creds, ro \in BOOLEAN : OpenVolume(c, ro)
  \/ \E c, hc \in Creds : OpenWithProtection(c, hc)
  \/ \E a \in Units, n \in 1..MaxWrite : WriteSectors(a, n)
  \/ \E u \in Units : RawWrite(u)
  \/ Close

Spec == Init /\ [][Next]_vars

-----------------------------------------------------------------------------
\* Properties.

Ops ==
  {NoOp} \cup [kind : {"create", "hidden", "change", "restore"}, step : 1..4,
               mid : BOOLEAN, old : Creds \cup {NoCred}, via : Slots,
               hdr : Headers, decoy : Headers]
Sessions ==
  {NoSession} \cup [state : {"open"}, key : Keys, start : Nat, len : Nat,
                    ro : BOOLEAN, from : Nat, to : Nat, hkey : Nat,
                    trig : BOOLEAN]

\* Types, and that an operation in progress is inside its own script: the
\* step counter never runs past the slots change, restore and create write.
TypeOK ==
  /\ file \in [Units -> Content]
  /\ op \in Ops
  /\ op # NoOp => op.step \in DOMAIN Script(op.kind)
  /\ session \in Sessions
  /\ lastKey \in Nat

Clobbered(s) == file[s].k \in {"data", "raw"}

\* Some header in the file carries key, whatever unlocks it.
HasHeader(key) == \E s \in Slots : IsHeader(file[s]) /\ file[s].key = key

\* While change_volume_password or restore_volume_header runs, and so
\* wherever it is interrupted, the volume it works on can still be opened:
\* some slot holds a whole header with its master key.  Two cases are not
\* promised: a change of a volume that could only be opened through its
\* backup header (that header is rewritten first), and data written over a
\* header slot by the session.
HeaderOpKeepsAccess ==
  /\ op.kind \in {"change", "restore"}
  /\ ~(op.kind = "change" /\ op.via = Backup)
  /\ \A s \in Slots : ~Clobbered(s)
  => HasHeader(op.hdr.key)

\* When the change of an outer volume's password returns Ok, the old
\* credential opens that volume no more, through no slot, even if earlier
\* changes were interrupted half way.
ChangeRevokesOld ==
  [][ /\ EndWrite
      /\ op.kind = "change" /\ op.step = 2
      /\ ~op.hdr.hidden
      /\ op.old # op.hdr.cred
      => \A s \in Slots :
           Unlocks(op.old, file', s) => file'[s].key # op.hdr.key ]_vars

\* All headers with one master key, on disk or in an operation, describe one
\* data area, and so does the session that works with it, however long ago
\* it was opened: no operation moves or relabels the data of a volume.
KnownHeaders ==
  {file[u] : u \in {v \in Units : IsHeader(file[v])}}
    \cup (IF op = NoOp THEN {} ELSE {op.hdr, op.decoy})
KeyDeterminesArea ==
  \A h \in KnownHeaders :
    /\ \A g \in KnownHeaders :
         h.key = g.key => h.start = g.start /\ h.len = g.len /\ h.hidden = g.hidden
    /\ session # NoSession /\ session.key = h.key => session.start = h.start
    /\ session # NoSession /\ session.hkey = h.key
         => session.from = h.start /\ session.to = h.start + h.len

\* A session opened with hidden volume protection never turns a unit of the
\* hidden volume's data into data of its own, whatever header operations run
\* in between: OpenVolume::write goes around the protected range.
ProtectedDataSurvives ==
  [][ session # NoSession =>
        \A u \in Units \ Slots :
          file[u] = Data(session.hkey) => file'[u] \in {file[u], Raw} ]_vars

\* What an open volume writes as data never lands on a header slot, so the
\* backup header is there when the primary is damaged.
DataAvoidsHeaders == \A s \in Slots : file[s].k # "data"

\* A write of change_volume_password leaves every volume of the file, and
\* not only the one whose password changes, with a header somewhere.
ChangeKeepsOtherVolumes ==
  [][ op.kind = "change" /\ (BeginWrite \/ EndWrite) =>
        \A s \in Slots :
          IsHeader(file[s]) /\ file[s].cred # NoCred
            => \E t \in Slots :
                 \/ IsHeader(file'[t]) /\ file'[t].key = file[s].key
                 \/ file[s].key = op.hdr.key ]_vars

=============================================================================
