--------------------------- MODULE VolumeFileProofs ---------------------------
(***************************************************************************)
(* Proofs about VolumeFile, for every file size, set of credentials and    *)
(* set of hidden sizes.  Two inductive invariants: AnchorInv names, for    *)
(* each step of a change or restore, the slot the volume can be opened     *)
(* from while another slot is being rewritten; AreaInv ties every master   *)
(* key to one data area, in headers, operations, the session and the data. *)
(***************************************************************************)
EXTENDS VolumeFile, TLAPS

\* The four header slots are distinct units of the file.
LEMMA SlotsDistinct ==
  /\ Slots \subseteq Units
  /\ Primary # Backup /\ HiddenPrimary # Backup /\ HiddenBackup # Backup
  /\ Primary # HiddenPrimary /\ Primary # HiddenBackup
BY SizeAssumption DEF Slots, Units, Primary, HiddenPrimary, Backup,
                      HiddenBackup, FileEnd

\* open_volume_file finds a slot that unlocks whenever there is one.
LEMMA OpenSlotUnlocks ==
  ASSUME NEW c, NEW f, OpenableWith(c, f)
  PROVE  OpenSlot(c, f) \in Slots /\ Unlocks(c, f, OpenSlot(c, f))
<1> DEFINE U(i) == Unlocks(c, f, SearchOrder[i])
           First(i) == U(i) /\ \A j \in 1..(i-1) : ~U(j)
<1>1. /\ SearchOrder[1] = Primary /\ SearchOrder[2] = Backup
      /\ SearchOrder[3] = Primary /\ SearchOrder[4] = HiddenPrimary
      /\ SearchOrder[5] = HiddenBackup
  BY DEF SearchOrder
<1>2. U(1) \/ U(2) \/ U(4) \/ U(5)
  BY <1>1 DEF OpenableWith, Slots
<1>3. \E i \in 1..5 : First(i)
  <2> HIDE DEF U
  <2>1. CASE U(1)
    <3>1. First(1) BY <2>1
    <3> QED BY <3>1
  <2>2. CASE ~U(1) /\ U(2)
    <3>1. First(2) BY <2>2
    <3> QED BY <3>1
  <2>3. CASE ~U(1) /\ ~U(2) /\ U(3)
    <3>1. First(3) BY <2>3
    <3> QED BY <3>1
  <2>4. CASE ~U(1) /\ ~U(2) /\ ~U(3) /\ U(4)
    <3>1. First(4) BY <2>4
    <3> QED BY <3>1
  <2>5. CASE ~U(1) /\ ~U(2) /\ ~U(3) /\ ~U(4) /\ U(5)
    <3>1. First(5) BY <2>5
    <3> QED BY <3>1
  <2> QED BY <1>2, <2>1, <2>2, <2>3, <2>4, <2>5
<1> DEFINE k == CHOOSE i \in 1..5 : First(i)
<1>4. k \in 1..5 /\ First(k)
  <2> HIDE DEF First
  <2> QED BY <1>3
<1>5. SearchOrder[k] \in Slots
  <2>1. k = 1 \/ k = 2 \/ k = 3 \/ k = 4 \/ k = 5
    <3> HIDE DEF k
    <3> QED BY <1>4
  <2> HIDE DEF k
  <2> QED BY <1>1, <2>1 DEF Slots
<1>6. OpenSlot(c, f) = SearchOrder[k]
  BY DEF OpenSlot
<1> QED BY <1>4, <1>5, <1>6

\* What unlocks is a header.
LEMMA HeaderContent ==
  ASSUME NEW x \in Content, IsHeader(x)
  PROVE  x \in Headers
BY DEF Content, IsHeader, Zero, Torn, Raw, DataUnits

\* An operation in progress is a well-formed record inside its script.
LEMMA OpFields ==
  ASSUME TypeOK, op # NoOp
  PROVE  /\ op.kind \in {"create", "hidden", "change", "restore"}
         /\ op.step \in DOMAIN Script(op.kind)
         /\ op.mid \in BOOLEAN /\ op.old \in Creds \cup {NoCred}
         /\ op.via \in Slots /\ op.hdr \in Headers /\ op.decoy \in Headers
         /\ op = [kind |-> op.kind, step |-> op.step, mid |-> op.mid,
                  old |-> op.old, via |-> op.via, hdr |-> op.hdr,
                  decoy |-> op.decoy]
BY DEF TypeOK, Ops, NoOp

\* The length of each script, and that it only names header slots.
LEMMA ScriptSlots ==
  ASSUME NEW kind \in {"create", "hidden", "change", "restore"}
  PROVE  /\ Len(Script(kind)) = IF kind = "create" THEN 4 ELSE 2
         /\ DOMAIN Script(kind) = 1..Len(Script(kind))
         /\ \A i \in DOMAIN Script(kind) : Script(kind)[i] \in Slots
<1>1. CASE kind = "create"
  BY <1>1 DEF Script, Slots
<1>2. CASE kind = "hidden"
  BY <1>2 DEF Script, Slots
<1>3. CASE kind = "change"
  BY <1>3 DEF Script, Slots
<1>4. CASE kind = "restore"
  BY <1>4 DEF Script, Slots
<1> QED BY <1>1, <1>2, <1>3, <1>4

\* The header an open returns is typed.
LEMMA OpenedHeader ==
  ASSUME TypeOK, NEW c, OpenableWith(c, file)
  PROVE  /\ OpenSlot(c, file) \in Slots
         /\ file[OpenSlot(c, file)] \in Headers
<1>1. OpenSlot(c, file) \in Slots /\ IsHeader(file[OpenSlot(c, file)])
  BY OpenSlotUnlocks DEF Unlocks
<1>2. file[OpenSlot(c, file)] \in Content
  BY <1>1, SlotsDistinct DEF TypeOK
<1> QED BY <1>1, <1>2, HeaderContent

\* A new operation record is well typed and at its first step.
LEMMA NewOperation ==
  ASSUME NEW kind \in {"create", "hidden", "change", "restore"},
         NEW old \in Creds \cup {NoCred}, NEW via \in Slots,
         NEW hdr \in Headers, NEW decoy \in Headers
  PROVE  LET o == Operation(kind, old, via, hdr, decoy)
         IN  o \in Ops /\ o.step \in DOMAIN Script(o.kind)
<1>1. 1 \in DOMAIN Script(kind)
  BY ScriptSlots
<1> QED BY <1>1 DEF Operation, Ops

\* A session built from a header is well typed.
LEMMA NewSession ==
  ASSUME NEW hdr \in Headers, NEW ro \in BOOLEAN,
         NEW from \in Nat, NEW to \in Nat, NEW hkey \in Nat
  PROVE  SessionOf(hdr, ro, from, to, hkey) \in Sessions
BY DEF SessionOf, Sessions, Headers

\* A new, zero filled file with no operation and no session is well typed.
LEMMA InitType == Init => TypeOK
BY DEF Init, TypeOK, Content, Ops, Sessions, NoOp, NoSession

\* Every step keeps the types, and an operation inside its list of slots.
LEMMA NextType == TypeOK /\ [Next]_vars => TypeOK'
<1> SUFFICES ASSUME TypeOK, [Next]_vars PROVE TypeOK'
  OBVIOUS
<1>0. /\ file \in [Units -> Content] /\ lastKey \in Nat
      /\ session \in Sessions
  BY DEF TypeOK
<1>1. ASSUME NEW c \in Creds, CreateVolume(c) PROVE TypeOK'
  <2> DEFINE hdr == Header(c, lastKey + 1, 4, VolSize, FALSE)
             decoy == Header(NoCred, lastKey + 2, 0, 0, TRUE)
  <2>1. hdr \in Headers /\ decoy \in Headers
    BY <1>0, SizeAssumption DEF Header, Headers, Keys
  <2>2. op' = Operation("create", NoCred, Primary, hdr, decoy)
    BY <1>1 DEF CreateVolume, Start
  <2>3. op' \in Ops /\ op'.step \in DOMAIN Script(op'.kind)
    <3> HIDE DEF hdr, decoy
    <3> QED BY <2>1, <2>2, NewOperation DEF Slots
  <2>4. file' = file /\ session' = session /\ lastKey' \in Nat
    BY <1>0, <1>1 DEF CreateVolume, Start
  <2> QED BY <1>0, <2>3, <2>4 DEF TypeOK
<1>2. ASSUME NEW c \in Creds, NEW size \in HiddenSizes,
             CreateHiddenVolume(c, size)
      PROVE TypeOK'
  <2> DEFINE hdr == Header(c, lastKey + 1, FileEnd - 2 - size, size, TRUE)
  <2>1. hdr \in Headers
    BY <1>0, <1>2, SizeAssumption
       DEF Header, Headers, Keys, FileEnd, CreateHiddenVolume
  <2>2. op' = Operation("hidden", NoCred, HiddenPrimary, hdr, hdr)
    BY <1>2 DEF CreateHiddenVolume, Start
  <2>3. op' \in Ops /\ op'.step \in DOMAIN Script(op'.kind)
    <3> HIDE DEF hdr
    <3> QED BY <2>1, <2>2, NewOperation DEF Slots
  <2>4. file' = file /\ session' = session /\ lastKey' \in Nat
    BY <1>0, <1>2 DEF CreateHiddenVolume, Start
  <2> QED BY <1>0, <2>3, <2>4 DEF TypeOK
<1>3. ASSUME NEW old \in Creds, NEW new \in Creds, ChangePassword(old, new)
      PROVE TypeOK'
  <2> DEFINE via == OpenSlot(old, file)
             hdr == [file[via] EXCEPT !.cred = new]
  <2>1. via \in Slots /\ file[via] \in Headers
    BY <1>3, OpenedHeader DEF ChangePassword
  <2>2. hdr \in Headers
    BY <2>1 DEF Headers
  <2>3. op' = Operation("change", old, via, hdr, hdr)
    BY <1>3 DEF ChangePassword, Start
  <2>4. op' \in Ops /\ op'.step \in DOMAIN Script(op'.kind)
    <3> HIDE DEF hdr, via
    <3> QED BY <2>1, <2>2, <2>3, NewOperation
  <2> QED BY <1>0, <1>3, <2>4 DEF ChangePassword, Start, TypeOK
<1>4. ASSUME NEW c \in Creds, RestoreHeader(c) PROVE TypeOK'
  <2>1. Backup \in Slots /\ file[Backup] \in Content
    BY <1>0, SlotsDistinct DEF Slots
  <2>2. file[Backup] \in Headers
    BY <1>4, <2>1, HeaderContent DEF RestoreHeader, Unlocks
  <2>3. op' = Operation("restore", c, Backup, file[Backup], file[Backup])
    BY <1>4 DEF RestoreHeader, Start
  <2>4. op' \in Ops /\ op'.step \in DOMAIN Script(op'.kind)
    BY <2>1, <2>2, <2>3, NewOperation
  <2> QED BY <1>0, <1>4, <2>4 DEF RestoreHeader, Start, TypeOK
<1>5. CASE BeginWrite
  <2>1. op # NoOp BY <1>5 DEF BeginWrite
  <2>2. op' \in Ops /\ op'.step = op.step /\ op'.kind = op.kind
    BY <1>5, <2>1, OpFields DEF BeginWrite, TypeOK, Ops, NoOp
  <2> QED BY <1>0, <1>5, <2>1, <2>2, OpFields DEF BeginWrite, TypeOK, Content
<1>6. CASE EndWrite
  <2>1. op # NoOp BY <1>6 DEF EndWrite
  <2>2. Written \in Content
    BY <2>1, OpFields DEF Written, Content
  <2>3. CASE op.step = Len(Script(op.kind))
    <3>1. op' = NoOp BY <1>6, <2>3 DEF EndWrite
    <3> QED BY <1>0, <1>6, <2>2, <3>1 DEF EndWrite, TypeOK, Ops
  <2>4. CASE op.step # Len(Script(op.kind))
    <3>1. op' = [op EXCEPT !.step = @ + 1, !.mid = FALSE]
      BY <1>6, <2>4 DEF EndWrite
    <3>2. op.step + 1 \in DOMAIN Script(op.kind) /\ op.step + 1 \in 1..4
      BY <2>1, <2>4, OpFields, ScriptSlots
    <3>3. op' \in Ops /\ op'.step = op.step + 1 /\ op'.kind = op.kind
      BY <2>1, <3>1, <3>2, OpFields DEF Ops
    <3> QED BY <1>0, <1>6, <2>2, <3>2, <3>3 DEF EndWrite, TypeOK
  <2> QED BY <2>3, <2>4
<1>7. CASE Fail
  BY <1>0, <1>7 DEF Fail, TypeOK, Ops
<1>8. ASSUME NEW c \in Creds, NEW ro \in BOOLEAN, OpenVolume(c, ro)
      PROVE TypeOK'
  <2>1. file[OpenSlot(c, file)] \in Headers
    BY <1>8, OpenedHeader DEF OpenVolume
  <2>2. session' \in Sessions
    BY <1>8, <2>1, NewSession DEF OpenVolume
  <2> QED BY <1>8, <2>2 DEF OpenVolume, TypeOK
<1>9. ASSUME NEW c \in Creds, NEW hc \in Creds, OpenWithProtection(c, hc)
      PROVE TypeOK'
  <2> DEFINE outer == file[OpenSlot(c, file)]
             inner == file[OpenSlot(hc, file)]
  <2>1. outer \in Headers /\ inner \in Headers
    BY <1>9, OpenedHeader DEF OpenWithProtection
  <2>2. /\ inner.start \in Nat /\ inner.start + inner.len \in Nat
        /\ inner.key \in Nat
    BY <2>1 DEF Headers, Keys
  <2>3. session' = SessionOf(outer, FALSE, inner.start,
                             inner.start + inner.len, inner.key)
    BY <1>9 DEF OpenWithProtection
  <2>4. session' \in Sessions
    <3> HIDE DEF outer, inner
    <3> QED BY <2>1, <2>2, <2>3, NewSession
  <2> QED BY <1>9, <2>4 DEF OpenWithProtection, TypeOK
<1>10. ASSUME NEW a \in Units, NEW n \in 1..MaxWrite, WriteSectors(a, n)
       PROVE TypeOK'
  <2>1. session # NoSession
    BY <1>10 DEF WriteSectors
  <2>2. Data(session.key) \in Content
    BY <1>0, <2>1 DEF Sessions, Content, DataUnits, Data
  <2>3. file' \in [Units -> Content]
    BY <1>0, <1>10, <2>2 DEF WriteSectors
  <2>4. session' \in Sessions
    BY <1>0, <1>10, <2>1 DEF WriteSectors, Sessions
  <2> QED BY <1>10, <2>3, <2>4 DEF WriteSectors, TypeOK
<1>11. ASSUME NEW u \in Units, RawWrite(u) PROVE TypeOK'
  BY <1>0, <1>11 DEF RawWrite, TypeOK, Content
<1>12. CASE Close
  BY <1>0, <1>12 DEF Close, TypeOK, Sessions
<1>13. CASE UNCHANGED vars
  BY <1>13 DEF vars, TypeOK
<1> QED
  BY <1>1, <1>2, <1>3, <1>4, <1>5, <1>6, <1>7, <1>8, <1>9, <1>10, <1>11,
     <1>12, <1>13 DEF Next

\* Every operation of vcrypt-volume keeps the container well formed, and no
\* header operation steps outside its list of slots.
THEOREM TypeCorrect == Spec => []TypeOK
BY InitType, NextType, PTL DEF Spec

-----------------------------------------------------------------------------
\* Access during a header operation.

\* The slot that keeps the volume open while the others are rewritten: the
\* one change was opened from, then the backup it has just written; for
\* restore the backup it was read from, then the primary.
Anchor ==
  IF op.kind = "change" THEN IF op.step = 1 THEN op.via ELSE Backup
                        ELSE IF op.step = 1 THEN Backup ELSE Primary

\* change and restore, except a change opened through the backup slot
Guarded ==
  /\ op.kind \in {"change", "restore"}
  /\ ~(op.kind = "change" /\ op.via = Backup)

Holds(s, key) == IsHeader(file[s]) /\ file[s].key = key

\* The anchor holds a header of the volume, unless the session wrote on it.
AnchorInv == Guarded => Clobbered(Anchor) \/ Holds(Anchor, op.hdr.key)

\* The slot being rewritten is never the anchor.
LEMMA AnchorSpared ==
  ASSUME TypeOK, Guarded
  PROVE  Anchor \in Slots /\ Slot \in Slots /\ Slot # Anchor
<1>1. op # NoOp
  BY DEF Guarded, NoOp
<1>2. op.step \in 1..2 /\ op.via \in Slots
  BY <1>1, OpFields, ScriptSlots DEF Guarded
<1>3. CASE op.kind = "change"
  BY <1>2, <1>3, SlotsDistinct DEF Guarded, Anchor, Slot, Script, Slots
<1>4. CASE op.kind = "restore"
  BY <1>2, <1>4, SlotsDistinct DEF Guarded, Anchor, Slot, Script, Slots
<1> QED BY <1>3, <1>4 DEF Guarded

\* No operation is in progress at the start.
LEMMA InitAnchor == Init => AnchorInv
BY DEF Init, AnchorInv, Guarded, NoOp

\* The session's writes clobber a unit or leave it alone.
LEMMA SessionSpares ==
  ASSUME TypeOK, AnchorInv, UNCHANGED op,
         \A s \in Slots : file'[s] = file[s] \/ file'[s].k \in {"data", "raw"}
  PROVE  AnchorInv'
<1> SUFFICES ASSUME Guarded' PROVE Clobbered(Anchor)' \/ Holds(Anchor, op.hdr.key)'
  BY DEF AnchorInv
<1>1. Guarded /\ Anchor' = Anchor
  BY DEF Guarded, Anchor
<1>2. Anchor \in Slots
  BY <1>1, AnchorSpared
<1> QED BY <1>1, <1>2 DEF AnchorInv, Clobbered, Holds, IsHeader

\* Every step of an operation, and every step of the session beside it, keeps
\* a whole header of the volume in the anchor slot, or overwrites it with data.
LEMMA NextAnchor == TypeOK /\ AnchorInv /\ [Next]_vars => AnchorInv'
<1> SUFFICES ASSUME TypeOK, AnchorInv, [Next]_vars PROVE AnchorInv'
  OBVIOUS
<1>0. file \in [Units -> Content] /\ Slots \subseteq Units
  BY SlotsDistinct DEF TypeOK
<1>1. ASSUME NEW c \in Creds, CreateVolume(c) PROVE AnchorInv'
  BY <1>1 DEF CreateVolume, Start, Operation, AnchorInv, Guarded
<1>2. ASSUME NEW c \in Creds, NEW size \in HiddenSizes,
             CreateHiddenVolume(c, size)
      PROVE AnchorInv'
  BY <1>2 DEF CreateHiddenVolume, Start, Operation, AnchorInv, Guarded
<1>3. ASSUME NEW old \in Creds, NEW new \in Creds, ChangePassword(old, new)
      PROVE AnchorInv'
  <2> DEFINE via == OpenSlot(old, file)
             hdr == [file[via] EXCEPT !.cred = new]
  <2>1. via \in Slots /\ file[via] \in Headers
    BY <1>3, OpenedHeader DEF ChangePassword
  <2>2. hdr.key = file[via].key /\ IsHeader(file[via])
    BY <2>1 DEF Headers, IsHeader
  <2>3. /\ op' = Operation("change", old, via, hdr, hdr)
        /\ file' = file
    BY <1>3 DEF ChangePassword, Start
  <2>4. Anchor' = via /\ op'.hdr = hdr
    BY <2>3 DEF Anchor, Operation
  <2> HIDE DEF via, hdr
  <2> QED BY <2>2, <2>3, <2>4 DEF AnchorInv, Holds, IsHeader
<1>4. ASSUME NEW c \in Creds, RestoreHeader(c) PROVE AnchorInv'
  BY <1>4 DEF RestoreHeader, Start, Operation, AnchorInv, Anchor, Holds,
              Unlocks
<1>5. CASE BeginWrite
  <2> SUFFICES ASSUME Guarded'
               PROVE  Clobbered(Anchor)' \/ Holds(Anchor, op.hdr.key)'
    BY DEF AnchorInv
  <2>1. op # NoOp BY <1>5 DEF BeginWrite
  <2>2. /\ op'.kind = op.kind /\ op'.step = op.step /\ op'.via = op.via
        /\ op'.hdr = op.hdr
    BY <1>5, <2>1, OpFields DEF BeginWrite
  <2>3. Guarded /\ Anchor' = Anchor
    BY <2>2 DEF Guarded, Anchor
  <2>4. file'[Anchor] = file[Anchor]
    BY <1>0, <1>5, <2>3, AnchorSpared DEF BeginWrite
  <2> QED BY <2>2, <2>3, <2>4 DEF AnchorInv, Clobbered, Holds, IsHeader
<1>6. CASE EndWrite
  <2> SUFFICES ASSUME Guarded'
               PROVE  Clobbered(Anchor)' \/ Holds(Anchor, op.hdr.key)'
    BY DEF AnchorInv
  <2>1. op # NoOp /\ op' # NoOp
    BY <1>6 DEF EndWrite, Guarded, NoOp
  <2>2. /\ op' = [op EXCEPT !.step = @ + 1, !.mid = FALSE]
        /\ op.step # Len(Script(op.kind))
    BY <1>6, <2>1 DEF EndWrite
  <2>3. /\ op'.kind = op.kind /\ op'.step = op.step + 1 /\ op'.via = op.via
        /\ op'.hdr = op.hdr
    BY <2>1, <2>2, OpFields
  <2>4. op.kind \in {"change", "restore"} /\ op.step = 1
    <3>1. op.kind \in {"change", "restore"}
      BY <2>3 DEF Guarded
    <3>2. op.step \in DOMAIN Script(op.kind)
      BY <2>1, OpFields
    <3>3. op.step \in 1..2 /\ Len(Script(op.kind)) = 2
      BY <3>1, <3>2, ScriptSlots
    <3> QED BY <2>2, <3>1, <3>3
  <2>5. Anchor' = Slot
    BY <2>3, <2>4 DEF Anchor, Slot, Script
  <2>6. Slot \in Units
    BY <1>0, <2>1, OpFields, ScriptSlots DEF Slot
  <2>7. Written = op.hdr /\ IsHeader(op.hdr)
    BY <2>1, <2>4, OpFields DEF Written, Headers, IsHeader
  <2>8. file'[Slot] = op.hdr
    BY <1>0, <1>6, <2>6, <2>7 DEF EndWrite
  <2> QED BY <2>3, <2>5, <2>7, <2>8 DEF Holds, IsHeader
<1>7. CASE Fail
  BY <1>7 DEF Fail, AnchorInv, Guarded, NoOp
<1>8. ASSUME NEW c \in Creds, NEW ro \in BOOLEAN, OpenVolume(c, ro)
      PROVE AnchorInv'
  BY <1>8, SessionSpares DEF OpenVolume
<1>9. ASSUME NEW c \in Creds, NEW hc \in Creds, OpenWithProtection(c, hc)
      PROVE AnchorInv'
  BY <1>9, SessionSpares DEF OpenWithProtection
<1>10. ASSUME NEW a \in Units, NEW n \in 1..MaxWrite, WriteSectors(a, n)
       PROVE AnchorInv'
  <2>1. \A s \in Slots : file'[s] = file[s] \/ file'[s].k \in {"data", "raw"}
    BY <1>0, <1>10 DEF WriteSectors, Data
  <2>2. UNCHANGED op BY <1>10 DEF WriteSectors
  <2> QED BY <2>1, <2>2, SessionSpares
<1>11. ASSUME NEW u \in Units, RawWrite(u) PROVE AnchorInv'
  <2>1. \A s \in Slots : file'[s] = file[s] \/ file'[s].k \in {"data", "raw"}
    BY <1>0, <1>11 DEF RawWrite, Raw
  <2>2. UNCHANGED op BY <1>11 DEF RawWrite
  <2> QED BY <2>1, <2>2, SessionSpares
<1>12. CASE Close
  BY <1>12, SessionSpares DEF Close
<1>13. CASE UNCHANGED vars
  BY <1>13, SessionSpares DEF vars
<1> QED
  BY <1>1, <1>2, <1>3, <1>4, <1>5, <1>6, <1>7, <1>8, <1>9, <1>10, <1>11,
     <1>12, <1>13 DEF Next

\* The invariant gives the property: an anchor nobody wrote on is a header.
LEMMA AnchorGivesAccess == TypeOK /\ AnchorInv => HeaderOpKeepsAccess
<1> SUFFICES ASSUME TypeOK, AnchorInv, Guarded, \A s \in Slots : ~Clobbered(s)
             PROVE  HasHeader(op.hdr.key)
  BY DEF HeaderOpKeepsAccess, Guarded
<1>1. Anchor \in Slots
  BY AnchorSpared
<1>2. Holds(Anchor, op.hdr.key)
  BY <1>1 DEF AnchorInv
<1> QED BY <1>1, <1>2 DEF HasHeader, Holds

\* A change of password or a restore can be interrupted after any of its
\* writes, or in the middle of one, and the volume still has a whole header
\* with its master key.
THEOREM HeaderAccess == Spec => []HeaderOpKeepsAccess
<1>1. Init => TypeOK /\ AnchorInv
  BY InitType, InitAnchor
<1>2. TypeOK /\ AnchorInv /\ [Next]_vars => TypeOK' /\ AnchorInv'
  BY NextType, NextAnchor
<1>3. TypeOK /\ AnchorInv => HeaderOpKeepsAccess
  BY AnchorGivesAccess
<1> QED BY <1>1, <1>2, <1>3, PTL DEF Spec

-----------------------------------------------------------------------------
\* Master keys and the areas they belong to.

\* Master keys come from the generator in order, so a header with a new key
\* cannot meet an old one.  A hidden volume somebody can open ends at the backup
\* headers.
KeysDrawn ==
  \A h \in KnownHeaders :
    /\ h.key <= lastKey
    /\ h.hidden /\ h.cred # NoCred => h.start + h.len = FileEnd - 2

\* The session's own key and the key it protects
SessionKeys ==
  session # NoSession =>
    /\ session.key <= lastKey /\ session.hkey <= lastKey
    /\ session.key # session.hkey
    /\ session.hkey # 0 => session.to = FileEnd - 2

\* Data lies behind the start of the area its key belongs to.
DataPlaced ==
  \A u \in Units : file[u].k = "data" =>
    /\ file[u].key <= lastKey
    /\ \A h \in KnownHeaders : h.key = file[u].key => h.start <= u
    /\ session # NoSession /\ session.key = file[u].key => session.start <= u
    /\ session # NoSession /\ session.hkey = file[u].key => session.from <= u

\* The hidden slots hold headers of hidden volumes only, and a change that has
\* rewritten the backup slot finds it so.
SlotsPlaced ==
  /\ \A s \in {HiddenPrimary, HiddenBackup} : IsHeader(file[s]) => file[s].hidden
  /\ op.kind = "create" => op.decoy.hidden
  /\ op.kind = "hidden" => op.hdr.hidden
  /\ op.kind = "change" /\ op.step = 2 => file[Backup] = op.hdr \/ ~IsHeader(file[Backup])

KeyInv == KeyDeterminesArea /\ KeysDrawn /\ SessionKeys /\ DataPlaced
AreaInv == TypeOK /\ KeyInv /\ SlotsPlaced

SameArea(h, g) ==
  h.key = g.key /\ h.start = g.start /\ h.len = g.len /\ h.hidden = g.hidden

\* The headers there are: those in the file and those of the operation
LEMMA KnownIs ==
  ASSUME TypeOK, NEW h
  PROVE  h \in KnownHeaders <=>
           \/ \E u \in Units : IsHeader(file[u]) /\ h = file[u]
           \/ op # NoOp /\ (h = op.hdr \/ h = op.decoy)
BY DEF KnownHeaders

LEMMA KnownTyped ==
  ASSUME TypeOK, NEW h \in KnownHeaders
  PROVE  /\ h \in Headers /\ h.key \in Nat /\ h.key # 0 /\ h.start \in Nat /\ h.len \in Nat
         /\ h.hidden \in BOOLEAN
<1>1. h \in Headers
  <2>1. ASSUME NEW u \in Units, IsHeader(file[u]), h = file[u] PROVE h \in Headers
    BY <2>1, HeaderContent DEF TypeOK
  <2>2. ASSUME op # NoOp, h = op.hdr \/ h = op.decoy PROVE h \in Headers
    BY <2>2, OpFields
  <2> QED BY <2>1, <2>2, KnownIs
<1> QED BY <1>1 DEF Headers, Keys

KnownKeys == \A h \in KnownHeaders : h.key \in Nat

LEMMA KnownKeysNext == TypeOK' => KnownKeys'
<1>1. TypeOK => KnownKeys
  BY KnownTyped DEF KnownKeys
<1> QED BY <1>1, PTL

LEMMA SessionTyped ==
  ASSUME TypeOK, session # NoSession
  PROVE  /\ session.key \in Nat /\ session.key # 0 /\ session.start \in Nat
         /\ session.len \in Nat /\ session.from \in Nat /\ session.to \in Nat
         /\ session.hkey \in Nat
BY DEF TypeOK, Sessions, Keys

\* A session that goes on is the same volume.
SameSession ==
  session' # NoSession =>
    /\ session # NoSession
    /\ session'.key = session.key /\ session'.start = session.start
    /\ session'.from = session.from /\ session'.to = session.to
    /\ session'.hkey = session.hkey

\* Steps that bring no new key: every header afterwards describes an area that a
\* header described before, and data is only written by the session.
LEMMA AreaKeeps ==
  ASSUME TypeOK, TypeOK', KeyInv, SameSession, lastKey' = lastKey,
         \A h \in KnownHeaders' : \E g \in KnownHeaders :
           SameArea(h, g) /\ (h.cred # NoCred => g.cred # NoCred),
         \A u \in Units : file'[u].k = "data" =>
           \/ file'[u] = file[u]
           \/ session # NoSession /\ file'[u].key = session.key /\ session.start <= u
  PROVE  KeyInv'
<1>1. KeyDeterminesArea'
  <2>1. ASSUME NEW h \in KnownHeaders', NEW g \in KnownHeaders', h.key = g.key
        PROVE  h.start = g.start /\ h.len = g.len /\ h.hidden = g.hidden
    <3>1. PICK h1 \in KnownHeaders : SameArea(h, h1)
      OBVIOUS
    <3>2. PICK g1 \in KnownHeaders : SameArea(g, g1)
      OBVIOUS
    <3>3. h1.key = g1.key
      BY <2>1, <3>1, <3>2 DEF SameArea
    <3>4. h1.start = g1.start /\ h1.len = g1.len /\ h1.hidden = g1.hidden
      BY <3>3 DEF KeyInv, KeyDeterminesArea
    <3> QED BY <3>1, <3>2, <3>4 DEF SameArea
  <2>2. ASSUME NEW h \in KnownHeaders', session' # NoSession
        PROVE  /\ session'.key = h.key => session'.start = h.start
               /\ session'.hkey = h.key => session'.from = h.start /\ session'.to = h.start + h.len
    <3>1. PICK h1 \in KnownHeaders : SameArea(h, h1)
      OBVIOUS
    <3> QED BY <2>2, <3>1 DEF KeyInv, KeyDeterminesArea, SameArea, SameSession
  <2> QED BY <2>1, <2>2 DEF KeyDeterminesArea
<1>2. KeysDrawn'
  <2> SUFFICES ASSUME NEW h \in KnownHeaders'
               PROVE  /\ h.key <= lastKey
                      /\ h.hidden /\ h.cred # NoCred => h.start + h.len = FileEnd - 2
    BY DEF KeysDrawn, FileEnd
  <2>1. PICK g \in KnownHeaders : SameArea(h, g) /\ (h.cred # NoCred => g.cred # NoCred)
    OBVIOUS
  <2> QED BY <2>1 DEF SameArea, KeyInv, KeysDrawn
<1>3. SessionKeys'
  BY DEF SameSession, SessionKeys, KeyInv, FileEnd
<1>4. DataPlaced'
  <2> SUFFICES ASSUME NEW u \in Units, file'[u].k = "data"
               PROVE  /\ file'[u].key <= lastKey
                      /\ \A h \in KnownHeaders' : h.key = file'[u].key => h.start <= u
                      /\ session' # NoSession /\ session'.key = file'[u].key
                           => session'.start <= u
                      /\ session' # NoSession /\ session'.hkey = file'[u].key
                           => session'.from <= u
    BY DEF DataPlaced, Units, FileEnd
  <2>1. CASE file'[u] = file[u]
    <3>1. ASSUME NEW h \in KnownHeaders', h.key = file'[u].key PROVE h.start <= u
      <4>1. PICK g \in KnownHeaders : SameArea(h, g)
        OBVIOUS
      <4> QED BY <2>1, <3>1, <4>1 DEF SameArea, KeyInv, DataPlaced
    <3> QED BY <2>1, <3>1 DEF KeyInv, DataPlaced, SameSession
  <2>2. CASE session # NoSession /\ file'[u].key = session.key /\ session.start <= u
    <3>1. ASSUME NEW h \in KnownHeaders', h.key = file'[u].key PROVE h.start <= u
      <4>1. PICK g \in KnownHeaders : SameArea(h, g)
        OBVIOUS
      <4> QED BY <2>2, <3>1, <4>1 DEF SameArea, KeyInv, KeyDeterminesArea
    <3> QED BY <2>2, <3>1 DEF KeyInv, SessionKeys, SameSession
  <2> QED BY <2>1, <2>2
<1> QED BY <1>1, <1>2, <1>3, <1>4 DEF KeyInv

\* Steps that bring headers with new keys, in an operation
LEMMA AreaDrawn ==
  ASSUME TypeOK, TypeOK', KeyInv, UNCHANGED <<file, session>>, lastKey <= lastKey',
         NEW N, KnownHeaders' \subseteq KnownHeaders \cup N,
         \A h \in N : /\ h.key > lastKey /\ h.key <= lastKey'
                      /\ h.hidden /\ h.cred # NoCred => h.start + h.len = FileEnd - 2,
         \A h, g \in N : h.key = g.key => h = g
  PROVE  KeyInv'
<1>0. lastKey \in Nat /\ lastKey' \in Nat
  BY DEF TypeOK
<1>1. \A h \in KnownHeaders' : h.key \in Nat
  BY KnownKeysNext DEF KnownKeys
<1>2. \A h \in KnownHeaders : h.key \in Nat /\ h.key <= lastKey
  BY KnownTyped DEF KeyInv, KeysDrawn
<1>3. KeyDeterminesArea'
  <2>1. ASSUME NEW h \in KnownHeaders', NEW g \in KnownHeaders', h.key = g.key
        PROVE  h.start = g.start /\ h.len = g.len /\ h.hidden = g.hidden
    <3>1. CASE h \in KnownHeaders /\ g \in KnownHeaders
      BY <2>1, <3>1 DEF KeyInv, KeyDeterminesArea
    <3>2. CASE h \in N /\ g \in N
      BY <2>1, <3>2
    <3> QED BY <1>0, <1>1, <1>2, <2>1, <3>1, <3>2
  <2>2. ASSUME NEW h \in KnownHeaders', session # NoSession
        PROVE  /\ session.key = h.key => session.start = h.start
               /\ session.hkey = h.key => session.from = h.start /\ session.to = h.start + h.len
    <3>1. CASE h \in KnownHeaders
      BY <2>2, <3>1 DEF KeyInv, KeyDeterminesArea
    <3>2. CASE h \in N
      <4>1. session.key <= lastKey /\ session.hkey <= lastKey
        BY <2>2 DEF KeyInv, SessionKeys
      <4> QED BY <1>0, <1>1, <2>2, <3>2, <4>1, SessionTyped
    <3> QED BY <3>1, <3>2
  <2> QED BY <2>1, <2>2 DEF KeyDeterminesArea
<1>4. KeysDrawn'
  <2> SUFFICES ASSUME NEW h \in KnownHeaders'
               PROVE  /\ h.key <= lastKey'
                      /\ h.hidden /\ h.cred # NoCred => h.start + h.len = FileEnd - 2
    BY DEF KeysDrawn, FileEnd
  <2>1. CASE h \in KnownHeaders
    <3>1. h.key \in Nat /\ h.key <= lastKey
      BY <1>2, <2>1
    <3>2. h.hidden /\ h.cred # NoCred => h.start + h.len = FileEnd - 2
      BY <2>1 DEF KeyInv, KeysDrawn
    <3> QED BY <1>0, <3>1, <3>2
  <2>2. CASE h \in N
    BY <2>2
  <2> QED BY <2>1, <2>2
<1>5. SessionKeys'
  <2> SUFFICES ASSUME session # NoSession
               PROVE  /\ session.key <= lastKey' /\ session.hkey <= lastKey'
                      /\ session.key # session.hkey
                      /\ session.hkey # 0 => session.to = FileEnd - 2
    BY DEF SessionKeys, FileEnd
  <2>1. /\ session.key <= lastKey /\ session.hkey <= lastKey /\ session.key # session.hkey
        /\ session.hkey # 0 => session.to = FileEnd - 2
    BY DEF KeyInv, SessionKeys
  <2> QED BY <1>0, <2>1, SessionTyped
<1>6. DataPlaced'
  <2> SUFFICES ASSUME NEW u \in Units, file[u].k = "data"
               PROVE  /\ file[u].key <= lastKey'
                      /\ \A h \in KnownHeaders' : h.key = file[u].key => h.start <= u
                      /\ session # NoSession /\ session.key = file[u].key => session.start <= u
                      /\ session # NoSession /\ session.hkey = file[u].key => session.from <= u
    BY DEF DataPlaced, Units, FileEnd
  <2>1. /\ file[u].key <= lastKey
        /\ \A h \in KnownHeaders : h.key = file[u].key => h.start <= u
        /\ session # NoSession /\ session.key = file[u].key => session.start <= u
        /\ session # NoSession /\ session.hkey = file[u].key => session.from <= u
    BY DEF KeyInv, DataPlaced
  <2>2. file[u].key \in Nat
    BY DEF TypeOK, Content, Zero, Torn, Raw, DataUnits, Headers, Keys
  <2>3. ASSUME NEW h \in N, h \in KnownHeaders' PROVE h.key # file[u].key
    BY <1>0, <1>1, <2>1, <2>2, <2>3
  <2>4. file[u].key <= lastKey'
    BY <1>0, <2>1, <2>2
  <2> QED BY <2>1, <2>3, <2>4
<1> QED BY <1>3, <1>4, <1>5, <1>6 DEF KeyInv

\* A session that begins takes its area from a header, and the range it protects
\* from the header of another volume.
LEMMA AreaOpened ==
  ASSUME TypeOK, TypeOK', KeyInv, UNCHANGED <<file, op, lastKey>>,
         NEW h \in KnownHeaders, session'.key = h.key, session'.start = h.start,
         \/ session'.hkey = 0
         \/ \E g \in KnownHeaders :
              /\ g.hidden /\ g.cred # NoCred /\ ~h.hidden
              /\ session'.hkey = g.key /\ session'.from = g.start
              /\ session'.to = g.start + g.len
  PROVE  KeyInv'
<1>0. KnownHeaders' = KnownHeaders /\ h.key # 0 /\ (\A g \in KnownHeaders : g.key # 0)
  BY KnownTyped DEF KnownHeaders, Units, FileEnd
<1>1. ASSUME NEW g \in KnownHeaders, g.key = h.key
      PROVE  g.start = h.start /\ g.len = h.len /\ g.hidden = h.hidden
  BY <1>1 DEF KeyInv, KeyDeterminesArea
<1>2. CASE session'.hkey = 0
  <2>1. KeyDeterminesArea'
    <3>1. \A g, f \in KnownHeaders :
            g.key = f.key => g.start = f.start /\ g.len = f.len /\ g.hidden = f.hidden
      BY DEF KeyInv, KeyDeterminesArea
    <3> QED BY <1>0, <1>1, <1>2, <3>1 DEF KeyDeterminesArea
  <2>2. KeysDrawn'
    BY <1>0 DEF KeyInv, KeysDrawn, FileEnd
  <2>3. SessionKeys'
    BY <1>0, <1>2 DEF KeyInv, KeysDrawn, SessionKeys, TypeOK
  <2>4. DataPlaced'
    <3> SUFFICES ASSUME NEW u \in Units, file[u].k = "data"
                 PROVE  /\ file[u].key <= lastKey
                        /\ \A g \in KnownHeaders : g.key = file[u].key => g.start <= u
                        /\ session'.key = file[u].key => session'.start <= u
                        /\ session'.hkey = file[u].key => session'.from <= u
      BY <1>0 DEF DataPlaced, Units, FileEnd
    <3>1. file[u].key # 0
      BY DEF TypeOK, Content, Zero, Torn, Raw, DataUnits, Headers, Keys
    <3> QED BY <1>2, <3>1 DEF KeyInv, DataPlaced
  <2> QED BY <2>1, <2>2, <2>3, <2>4 DEF KeyInv
<1>3. ASSUME NEW i \in KnownHeaders, i.hidden, i.cred # NoCred, ~h.hidden,
             session'.hkey = i.key, session'.from = i.start, session'.to = i.start + i.len
      PROVE  KeyInv'
  <2>0. ASSUME NEW g \in KnownHeaders, g.key = i.key
        PROVE  g.start = i.start /\ g.len = i.len
    BY <2>0 DEF KeyInv, KeyDeterminesArea
  <2>1. KeyDeterminesArea'
    <3>1. \A g, f \in KnownHeaders :
            g.key = f.key => g.start = f.start /\ g.len = f.len /\ g.hidden = f.hidden
      BY DEF KeyInv, KeyDeterminesArea
    <3>2. ASSUME NEW g \in KnownHeaders
          PROVE  /\ session'.key = g.key => session'.start = g.start
                 /\ session'.hkey = g.key => session'.from = g.start /\ session'.to = g.start + g.len
      BY <1>1, <1>3, <2>0
    <3> QED BY <1>0, <3>1, <3>2 DEF KeyDeterminesArea
  <2>2. KeysDrawn'
    BY <1>0 DEF KeyInv, KeysDrawn, FileEnd
  <2>3. SessionKeys'
    <3>1. h.key # i.key
      BY <1>1, <1>3
    <3>2. i.start + i.len = FileEnd - 2 /\ i.key <= lastKey /\ h.key <= lastKey
      BY <1>3 DEF KeyInv, KeysDrawn
    <3> QED BY <1>3, <3>1, <3>2 DEF SessionKeys, FileEnd
  <2>4. DataPlaced'
    <3> SUFFICES ASSUME NEW u \in Units, file[u].k = "data"
                 PROVE  /\ file[u].key <= lastKey
                        /\ \A g \in KnownHeaders : g.key = file[u].key => g.start <= u
                        /\ session'.key = file[u].key => session'.start <= u
                        /\ session'.hkey = file[u].key => session'.from <= u
      BY <1>0 DEF DataPlaced, Units, FileEnd
    <3> QED BY <1>3 DEF KeyInv, DataPlaced
  <2> QED BY <2>1, <2>2, <2>3, <2>4 DEF KeyInv
<1> QED BY <1>2, <1>3

\* The header an open returns is one of those there are, and somebody's.
LEMMA OpenedKnown ==
  ASSUME TypeOK, NEW c \in Creds, OpenableWith(c, file)
  PROVE  /\ file[OpenSlot(c, file)] \in KnownHeaders
         /\ file[OpenSlot(c, file)].cred = c /\ c # NoCred
<1>1. OpenSlot(c, file) \in Slots /\ Unlocks(c, file, OpenSlot(c, file))
  BY OpenSlotUnlocks
<1>2. OpenSlot(c, file) \in Units
  BY <1>1, SlotsDistinct
<1> QED BY <1>1, <1>2, KnownIs, CredAssumption DEF Unlocks

\* A slot write, torn or whole: no header that was not there
LEMMA WriteKnown ==
  ASSUME TypeOK, BeginWrite \/ EndWrite
  PROVE  /\ KnownHeaders' \subseteq KnownHeaders
         /\ \A u \in Units : file'[u] = file[u] \/ file'[u].k # "data"
<1>1. op # NoOp
  BY DEF BeginWrite, EndWrite
<1>2. op'  # NoOp => op'.hdr = op.hdr /\ op'.decoy = op.decoy
  BY <1>1, OpFields DEF BeginWrite, EndWrite
<1>3. file \in [Units -> Content] /\ Units' = Units
  BY DEF TypeOK, Units, FileEnd
<1>4. PICK x \in {Torn, op.hdr, op.decoy} : file' = [file EXCEPT ![Slot] = x]
  BY DEF BeginWrite, EndWrite, Written
<1>5. x.k # "data"
  BY <1>1, <1>4, OpFields DEF Torn, Headers
<1>6. \A u \in Units : file'[u] = file[u] \/ file'[u] = x
  BY <1>3, <1>4
<1>7. ASSUME NEW h \in KnownHeaders' PROVE h \in KnownHeaders
  <2>1. \/ \E u \in Units : IsHeader(file'[u]) /\ h = file'[u]
        \/ op' # NoOp /\ (h = op'.hdr \/ h = op'.decoy)
    BY <1>3, <1>7 DEF KnownHeaders
  <2>2. ASSUME NEW u \in Units, IsHeader(file'[u]), h = file'[u] PROVE h \in KnownHeaders
    <3>1. CASE file'[u] = file[u]
      BY <2>2, <3>1, KnownIs
    <3>2. CASE file'[u] = x
      <4>1. x \in {op.hdr, op.decoy}
        BY <1>4, <2>2, <3>2 DEF Torn, IsHeader
      <4> QED BY <1>1, <2>2, <3>2, <4>1, KnownIs
    <3> QED BY <1>6, <3>1, <3>2
  <2> QED BY <1>1, <1>2, <2>1, <2>2, KnownIs
<1> QED BY <1>5, <1>6, <1>7

\* The steps of the session bring no header.
LEMMA SessionKnown ==
  ASSUME TypeOK, UNCHANGED op,
         \A u \in Units : file'[u] = file[u] \/ file'[u].k \in {"data", "raw"}
  PROVE  KnownHeaders' \subseteq KnownHeaders
<1> SUFFICES ASSUME NEW h \in KnownHeaders' PROVE h \in KnownHeaders
  OBVIOUS
<1>1. \/ \E u \in Units : IsHeader(file'[u]) /\ h = file'[u]
      \/ op # NoOp /\ (h = op.hdr \/ h = op.decoy)
  BY DEF KnownHeaders, Units, FileEnd
<1> QED BY <1>1, KnownIs DEF IsHeader

LEMMA NextKeys == AreaInv /\ TypeOK' /\ [Next]_vars => KeyInv'
<1> SUFFICES ASSUME TypeOK, TypeOK', KeyInv, [Next]_vars PROVE KeyInv'
  BY DEF AreaInv
<1>0. file \in [Units -> Content] /\ lastKey \in Nat /\ Units' = Units
  BY DEF TypeOK, Units, FileEnd
\* Nothing new
<1>1. ASSUME SameSession, lastKey' = lastKey, KnownHeaders' \subseteq KnownHeaders,
             \A u \in Units : file'[u].k = "data" =>
               \/ file'[u] = file[u]
               \/ session # NoSession /\ file'[u].key = session.key /\ session.start <= u
      PROVE  KeyInv'
  <2>1. \A h \in KnownHeaders' : \E g \in KnownHeaders :
          SameArea(h, g) /\ (h.cred # NoCred => g.cred # NoCred)
    BY <1>1 DEF SameArea
  <2> QED BY <1>1, <2>1, AreaKeeps
\* An operation begins with these headers
<1>2. ASSUME NEW o, Start(o), op' # NoOp, UNCHANGED file
      PROVE  KnownHeaders' \subseteq KnownHeaders \cup {op'.hdr, op'.decoy}
  <2> SUFFICES ASSUME NEW h \in KnownHeaders', h \notin {op'.hdr, op'.decoy}
               PROVE  h \in KnownHeaders
    OBVIOUS
  <2>1. \E u \in Units : IsHeader(file[u]) /\ h = file[u]
    BY <1>0, <1>2 DEF KnownHeaders
  <2> QED BY <2>1, KnownIs
<1>3. ASSUME NEW c \in Creds, CreateVolume(c) PROVE KeyInv'
  <2> DEFINE hdr == Header(c, lastKey + 1, 4, VolSize, FALSE)
             decoy == Header(NoCred, lastKey + 2, 0, 0, TRUE)
             o == Operation("create", NoCred, Primary, hdr, decoy)
  <2>1. Start(o) /\ UNCHANGED <<file, session>> /\ lastKey' = lastKey + 2 /\ op' = o
    BY <1>3 DEF CreateVolume, Start
  <2>2. op'.hdr = hdr /\ op'.decoy = decoy /\ op' # NoOp
    BY <2>1 DEF Operation, NoOp
  <2>3. KnownHeaders' \subseteq KnownHeaders \cup {hdr, decoy}
    <3> HIDE DEF hdr, decoy, o
    <3> QED BY <1>2, <2>1, <2>2
  <2>4. /\ hdr.key = lastKey + 1 /\ ~hdr.hidden
        /\ decoy.key = lastKey + 2 /\ decoy.cred = NoCred
    BY DEF Header
  <2> HIDE DEF hdr, decoy, o
  <2>5. \A h \in {hdr, decoy} : /\ h.key > lastKey /\ h.key <= lastKey'
                                /\ h.hidden /\ h.cred # NoCred => h.start + h.len = FileEnd - 2
    BY <1>0, <2>1, <2>4
  <2>6. \A h, g \in {hdr, decoy} : h.key = g.key => h = g
    BY <1>0, <2>4
  <2>7. lastKey <= lastKey'
    BY <1>0, <2>1
  <2> QED BY <2>1, <2>3, <2>5, <2>6, <2>7, AreaDrawn
<1>4. ASSUME NEW c \in Creds, NEW size \in HiddenSizes, CreateHiddenVolume(c, size)
      PROVE  KeyInv'
  <2> DEFINE hdr == Header(c, lastKey + 1, FileEnd - 2 - size, size, TRUE)
             o == Operation("hidden", NoCred, HiddenPrimary, hdr, hdr)
  <2>1. Start(o) /\ UNCHANGED <<file, session>> /\ lastKey' = lastKey + 1 /\ op' = o
    BY <1>4 DEF CreateHiddenVolume, Start
  <2>2. op'.hdr = hdr /\ op'.decoy = hdr /\ op' # NoOp
    BY <2>1 DEF Operation, NoOp
  <2>3. KnownHeaders' \subseteq KnownHeaders \cup {hdr}
    <3> HIDE DEF hdr, o
    <3> QED BY <1>2, <2>1, <2>2
  <2>4. hdr.key = lastKey + 1 /\ hdr.start = FileEnd - 2 - size /\ hdr.len = size
    BY DEF Header
  <2>5. FileEnd \in Int /\ size \in Int
    BY SizeAssumption DEF FileEnd
  <2> HIDE DEF hdr, o
  <2>6. \A h \in {hdr} : /\ h.key > lastKey /\ h.key <= lastKey'
                         /\ h.hidden /\ h.cred # NoCred => h.start + h.len = FileEnd - 2
    BY <1>0, <2>1, <2>4, <2>5
  <2>7. lastKey <= lastKey' /\ \A h, g \in {hdr} : h.key = g.key => h = g
    BY <1>0, <2>1
  <2> QED BY <2>1, <2>3, <2>6, <2>7, AreaDrawn
\* A header with another credential, and a header as it is
<1>5. ASSUME NEW g \in KnownHeaders, g.cred # NoCred, NEW h, SameArea(h, g), NEW o, Start(o),
             op' # NoOp, op'.hdr = h, op'.decoy = h, UNCHANGED <<file, lastKey>>
      PROVE  KeyInv'
  <2>1. SameSession
    BY <1>5 DEF Start, SameSession
  <2>2. KnownHeaders' \subseteq KnownHeaders \cup {h}
    BY <1>2, <1>5
  <2>3. ASSUME NEW f \in KnownHeaders'
        PROVE  \E e \in KnownHeaders : SameArea(f, e) /\ (f.cred # NoCred => e.cred # NoCred)
    <3>1. CASE f = h
      BY <1>5, <3>1
    <3>2. CASE f # h
      <4>1. f \in KnownHeaders /\ SameArea(f, f)
        BY <2>2, <3>2 DEF SameArea
      <4> QED BY <4>1
    <3> QED BY <3>1, <3>2
  <2> QED BY <1>5, <2>1, <2>3, AreaKeeps
<1>6. ASSUME NEW old \in Creds, NEW new \in Creds, ChangePassword(old, new) PROVE KeyInv'
  <2> DEFINE via == OpenSlot(old, file)
             g == file[via]
             hdr == [g EXCEPT !.cred = new]
             o == Operation("change", old, via, hdr, hdr)
  <2>1. Start(o) /\ UNCHANGED <<file, lastKey>> /\ op' = o
    BY <1>6 DEF ChangePassword, Start
  <2>2. op'.hdr = hdr /\ op'.decoy = hdr /\ op' # NoOp
    BY <2>1 DEF Operation, NoOp
  <2>3. g \in KnownHeaders /\ g.cred # NoCred
    BY <1>6, OpenedKnown DEF ChangePassword
  <2>4. g \in Headers
    BY <2>3, KnownTyped
  <2>5. SameArea(hdr, g)
    BY <2>4 DEF SameArea, Headers
  <2> HIDE DEF via, g, hdr, o
  <2> QED BY <1>5, <2>1, <2>2, <2>3, <2>5
<1>7. ASSUME NEW c \in Creds, RestoreHeader(c) PROVE KeyInv'
  <2> DEFINE g == file[Backup]
             o == Operation("restore", c, Backup, g, g)
  <2>1. Start(o) /\ UNCHANGED <<file, lastKey>> /\ op' = o
    BY <1>7 DEF RestoreHeader, Start
  <2>2. op'.hdr = g /\ op'.decoy = g /\ op' # NoOp
    BY <2>1 DEF Operation, NoOp
  <2>3. g \in KnownHeaders /\ g.cred # NoCred
    BY <1>7, SlotsDistinct, KnownIs, CredAssumption DEF RestoreHeader, Unlocks, Slots
  <2>4. SameArea(g, g)
    BY DEF SameArea
  <2> HIDE DEF g, o
  <2> QED BY <1>5, <2>1, <2>2, <2>3, <2>4
<1>8. CASE BeginWrite \/ EndWrite
  <2>1. SameSession /\ lastKey' = lastKey
    BY <1>8 DEF BeginWrite, EndWrite, SameSession
  <2> QED BY <1>1, <1>8, <2>1, WriteKnown
<1>9. CASE Fail
  <2>1. KnownHeaders' \subseteq KnownHeaders
    BY <1>9 DEF Fail, KnownHeaders, Units, FileEnd
  <2> QED BY <1>1, <1>9, <2>1 DEF Fail, SameSession
<1>10. ASSUME NEW c \in Creds, NEW ro \in BOOLEAN, OpenVolume(c, ro) PROVE KeyInv'
  <2> DEFINE h == file[OpenSlot(c, file)]
  <2>1. h \in KnownHeaders
    BY <1>10, OpenedKnown DEF OpenVolume
  <2>2. session'.key = h.key /\ session'.start = h.start /\ session'.hkey = 0
    BY <1>10 DEF OpenVolume, SessionOf
  <2> HIDE DEF h
  <2> QED BY <1>10, <2>1, <2>2, AreaOpened DEF OpenVolume
<1>11. ASSUME NEW c \in Creds, NEW hc \in Creds, OpenWithProtection(c, hc) PROVE KeyInv'
  <2> DEFINE h == file[OpenSlot(c, file)]
             g == file[OpenSlot(hc, file)]
  <2>1. h \in KnownHeaders /\ g \in KnownHeaders /\ g.cred # NoCred /\ g.hidden /\ ~h.hidden
    BY <1>11, OpenedKnown DEF OpenWithProtection
  <2>2. session' = SessionOf(h, FALSE, g.start, g.start + g.len, g.key)
    BY <1>11 DEF OpenWithProtection
  <2> HIDE DEF h, g
  <2>3. /\ session'.key = h.key /\ session'.start = h.start /\ session'.hkey = g.key
        /\ session'.from = g.start /\ session'.to = g.start + g.len
    BY <2>2 DEF SessionOf
  <2> QED BY <1>11, <2>1, <2>3, AreaOpened DEF OpenWithProtection
<1>12. ASSUME NEW a \in Units, NEW n \in 1..MaxWrite, WriteSectors(a, n) PROVE KeyInv'
  <2>1. session # NoSession /\ UNCHANGED <<op, lastKey>>
    BY <1>12 DEF WriteSectors
  <2>2. SameSession
    BY <1>12, <2>1 DEF WriteSectors, SameSession, TypeOK, Sessions
  <2>3. ASSUME NEW u \in Units
        PROVE  \/ file'[u] = file[u]
               \/ file'[u] = Data(session.key) /\ session.start <= u
    <3>1. session.start \in Nat /\ a \in Nat /\ n \in Nat /\ u \in Nat
      BY <2>1, SessionTyped, SizeAssumption DEF Units, FileEnd
    <3> QED BY <1>0, <1>12, <3>1 DEF WriteSectors
  <2>4. Data(session.key).k = "data" /\ Data(session.key).key = session.key
    BY DEF Data
  <2>5. KnownHeaders' \subseteq KnownHeaders
    BY <2>1, <2>3, <2>4, SessionKnown
  <2> QED BY <1>1, <2>1, <2>2, <2>3, <2>4, <2>5
<1>13. ASSUME NEW u \in Units, RawWrite(u) PROVE KeyInv'
  <2>1. UNCHANGED <<op, lastKey, session>> /\ SameSession
    BY <1>13 DEF RawWrite, SameSession
  <2>2. \A v \in Units : file'[v] = file[v] \/ file'[v].k = "raw"
    BY <1>0, <1>13 DEF RawWrite, Raw
  <2>3. KnownHeaders' \subseteq KnownHeaders
    BY <2>1, <2>2, SessionKnown
  <2> QED BY <1>1, <2>1, <2>2, <2>3
<1>14. CASE Close
  <2>1. KnownHeaders' = KnownHeaders /\ SameSession
    BY <1>14 DEF Close, KnownHeaders, Units, FileEnd, SameSession
  <2> QED BY <1>1, <1>14, <2>1 DEF Close
<1>15. CASE UNCHANGED vars
  <2>1. KnownHeaders' = KnownHeaders /\ SameSession
    BY <1>15 DEF vars, KnownHeaders, Units, FileEnd, SameSession
  <2> QED BY <1>1, <1>15, <2>1 DEF vars
<1> QED
  BY <1>3, <1>4, <1>6, <1>7, <1>8, <1>9, <1>10, <1>11, <1>12, <1>13, <1>14, <1>15 DEF Next

\* The operation goes on or ends, and the slots change to what is no header.
LEMMA SlotsKept ==
  ASSUME TypeOK, SlotsPlaced, op' = op \/ op' = NoOp,
         \A s \in Slots : file'[s] = file[s] \/ file'[s].k # "hdr"
  PROVE  SlotsPlaced'
<1>1. \A s \in {HiddenPrimary, HiddenBackup, Backup} : file'[s] = file[s] \/ ~IsHeader(file'[s])
  BY DEF Slots, IsHeader
<1>2. /\ HiddenPrimary' = HiddenPrimary /\ HiddenBackup' = HiddenBackup /\ Backup' = Backup
  BY DEF HiddenPrimary, HiddenBackup, Backup, FileEnd
<1>3. op'.kind # "none" => op' = op
  BY DEF NoOp
<1>4. (\A s \in {HiddenPrimary, HiddenBackup} : IsHeader(file[s]) => file[s].hidden)'
  BY <1>1, <1>2 DEF SlotsPlaced, IsHeader
<1>5. (op.kind = "create" => op.decoy.hidden)' /\ (op.kind = "hidden" => op.hdr.hidden)'
  BY <1>3 DEF SlotsPlaced
<1>6. (op.kind = "change" /\ op.step = 2 => file[Backup] = op.hdr \/ ~IsHeader(file[Backup]))'
  BY <1>1, <1>2, <1>3 DEF SlotsPlaced, IsHeader
<1> QED BY <1>4, <1>5, <1>6 DEF SlotsPlaced

LEMMA NextSlots == AreaInv /\ [Next]_vars => SlotsPlaced'
<1> SUFFICES ASSUME TypeOK, SlotsPlaced, [Next]_vars PROVE SlotsPlaced'
  BY DEF AreaInv
<1>0. file \in [Units -> Content] /\ Slots \subseteq Units
  BY SlotsDistinct DEF TypeOK
<1>1. ASSUME NEW c \in Creds, CreateVolume(c) PROVE SlotsPlaced'
  <2> DEFINE hdr == Header(c, lastKey + 1, 4, VolSize, FALSE)
             decoy == Header(NoCred, lastKey + 2, 0, 0, TRUE)
  <2>1. op' = Operation("create", NoCred, Primary, hdr, decoy) /\ file' = file
    BY <1>1 DEF CreateVolume, Start
  <2>2. op'.kind = "create" /\ op'.decoy = decoy /\ decoy.hidden
    BY <2>1 DEF Operation, Header
  <2> QED BY <2>1, <2>2 DEF SlotsPlaced, HiddenPrimary, HiddenBackup, Backup, FileEnd, IsHeader
<1>2. ASSUME NEW c \in Creds, NEW size \in HiddenSizes, CreateHiddenVolume(c, size)
      PROVE  SlotsPlaced'
  <2> DEFINE hdr == Header(c, lastKey + 1, FileEnd - 2 - size, size, TRUE)
  <2>1. op' = Operation("hidden", NoCred, HiddenPrimary, hdr, hdr) /\ file' = file
    BY <1>2 DEF CreateHiddenVolume, Start
  <2>2. op'.kind = "hidden" /\ op'.hdr = hdr /\ hdr.hidden
    BY <2>1 DEF Operation, Header
  <2> QED BY <2>1, <2>2 DEF SlotsPlaced, HiddenPrimary, HiddenBackup, Backup, FileEnd, IsHeader
<1>3. ASSUME NEW old \in Creds, NEW new \in Creds, ChangePassword(old, new) PROVE SlotsPlaced'
  <2>1. op'.kind = "change" /\ op'.step = 1 /\ file' = file
    BY <1>3 DEF ChangePassword, Start, Operation
  <2> QED BY <2>1 DEF SlotsPlaced, HiddenPrimary, HiddenBackup, Backup, FileEnd, IsHeader
<1>4. ASSUME NEW c \in Creds, RestoreHeader(c) PROVE SlotsPlaced'
  <2>1. op'.kind = "restore" /\ file' = file
    BY <1>4 DEF RestoreHeader, Start, Operation
  <2> QED BY <2>1 DEF SlotsPlaced, HiddenPrimary, HiddenBackup, Backup, FileEnd, IsHeader
<1>5. CASE BeginWrite
  <2>1. op # NoOp
    BY <1>5 DEF BeginWrite
  <2>2. Slot \in Slots
    BY <2>1, OpFields, ScriptSlots DEF Slot
  <2>3. \A s \in Slots : file'[s] = file[s] \/ ~IsHeader(file'[s])
    BY <1>0, <1>5, <2>2 DEF BeginWrite, Torn, IsHeader
  <2>4. /\ op'.kind = op.kind /\ op'.step = op.step /\ op'.hdr = op.hdr
        /\ op'.decoy = op.decoy
    BY <1>5, <2>1, OpFields DEF BeginWrite
  <2> QED BY <2>3, <2>4 DEF SlotsPlaced, Slots, HiddenPrimary, HiddenBackup, Backup, FileEnd,
                            IsHeader
<1>6. CASE EndWrite
  <2>1. op # NoOp
    BY <1>6 DEF EndWrite
  <2>2. /\ op.kind \in {"create", "hidden", "change", "restore"} /\ op.hdr \in Headers
        /\ op.step \in DOMAIN Script(op.kind) /\ op.decoy \in Headers
    BY <2>1, OpFields
  <2>3. Slot \in Slots /\ (op.kind = "create" => op.step \in 1..4)
          /\ (op.kind # "create" => op.step \in 1..2)
    BY <2>2, ScriptSlots DEF Slot
  <2>4. file'[Slot] = Written /\ \A s \in Slots : s # Slot => file'[s] = file[s]
    BY <1>0, <1>6, <2>3 DEF EndWrite
  <2>5. op'.kind # "none" => /\ op'.kind = op.kind /\ op'.step = op.step + 1
                             /\ op'.hdr = op.hdr /\ op'.decoy = op.decoy
    BY <1>6, <2>1, OpFields DEF EndWrite, NoOp
  \* Only the decoy of create and the header of create-hidden go to hidden slots.
  <2>6. Slot \in {HiddenPrimary, HiddenBackup} => Written.hidden
    <3>1. CASE op.kind = "create"
      <4>1. op.step = 1 => Slot = Primary
        BY <3>1 DEF Slot, Script
      <4>2. op.step = 2 => Slot = Backup
        BY <3>1 DEF Slot, Script
      <4> QED BY <2>3, <3>1, <4>1, <4>2, SlotsDistinct DEF Written, SlotsPlaced
    <3>2. CASE op.kind = "hidden"
      BY <3>2 DEF Written, SlotsPlaced
    <3>3. CASE op.kind \in {"change", "restore"}
      <4>1. Slot \in {Primary, Backup}
        BY <2>3, <3>3 DEF Slot, Script
      <4> QED BY <4>1, SlotsDistinct
    <3> QED BY <2>2, <3>1, <3>2, <3>3
  <2>7. (\A s \in {HiddenPrimary, HiddenBackup} : IsHeader(file[s]) => file[s].hidden)'
    <3> SUFFICES ASSUME NEW s \in {HiddenPrimary, HiddenBackup}, IsHeader(file'[s])
                 PROVE  file'[s].hidden
      BY DEF HiddenPrimary, HiddenBackup, FileEnd, IsHeader
    <3> QED BY <2>4, <2>6 DEF SlotsPlaced, Slots
  <2>8. (op.kind = "change" /\ op.step = 2 => file[Backup] = op.hdr \/ ~IsHeader(file[Backup]))'
    <3> SUFFICES ASSUME op'.kind = "change", op'.step = 2 PROVE file'[Backup] = op'.hdr
      BY DEF Backup, FileEnd
    <3>1. op.kind = "change" /\ op.step + 1 = 2 /\ op'.hdr = op.hdr
      BY <2>5
    <3>2. op.step = 1
      BY <2>3, <3>1
    <3>3. Slot = Backup /\ Written = op.hdr
      BY <3>1, <3>2 DEF Slot, Script, Written
    <3> QED BY <2>4, <3>1, <3>3
  <2>9. (op.kind = "create" => op.decoy.hidden)' /\ (op.kind = "hidden" => op.hdr.hidden)'
    BY <2>5 DEF SlotsPlaced
  <2> QED BY <2>7, <2>8, <2>9 DEF SlotsPlaced
<1>7. ASSUME op' = op \/ op' = NoOp,
             \A s \in Slots : file'[s] = file[s] \/ file'[s].k # "hdr"
      PROVE  SlotsPlaced'
  BY <1>7, SlotsKept
<1>8. CASE Fail
  BY <1>7, <1>8 DEF Fail
<1>9. ASSUME NEW c, NEW ro, OpenVolume(c, ro) PROVE SlotsPlaced'
  BY <1>7, <1>9 DEF OpenVolume
<1>10. ASSUME NEW c, NEW hc, OpenWithProtection(c, hc) PROVE SlotsPlaced'
  BY <1>7, <1>10 DEF OpenWithProtection
<1>11. ASSUME NEW a \in Units, NEW n \in 1..MaxWrite, WriteSectors(a, n) PROVE SlotsPlaced'
  <2>1. \A s \in Slots : file'[s] = file[s] \/ file'[s].k # "hdr"
    BY <1>0, <1>11 DEF WriteSectors, Data
  <2> QED BY <1>7, <1>11, <2>1 DEF WriteSectors
<1>12. ASSUME NEW u \in Units, RawWrite(u) PROVE SlotsPlaced'
  <2>1. \A s \in Slots : file'[s] = file[s] \/ file'[s].k # "hdr"
    BY <1>0, <1>12 DEF RawWrite, Raw
  <2> QED BY <1>7, <1>12, <2>1 DEF RawWrite
<1>13. CASE Close \/ UNCHANGED vars
  BY <1>7, <1>13 DEF Close, vars
<1> QED
  BY <1>1, <1>2, <1>3, <1>4, <1>5, <1>6, <1>8, <1>9, <1>10, <1>11, <1>12, <1>13 DEF Next

LEMMA InitArea == Init => AreaInv
<1> SUFFICES ASSUME Init PROVE AreaInv
  OBVIOUS
<1>1. TypeOK
  BY InitType
<1>2. \A u \in Units : file[u].k = "zero"
  BY DEF Init, Zero
<1>3. KnownHeaders = {}
  BY <1>2 DEF Init, KnownHeaders, IsHeader
<1>4. KeyInv
  BY <1>2, <1>3 DEF Init, KeyInv, KeyDeterminesArea, KeysDrawn, SessionKeys, DataPlaced
<1>5. SlotsPlaced
  BY <1>2, SlotsDistinct DEF Init, SlotsPlaced, NoOp, IsHeader, Slots
<1> QED BY <1>1, <1>4, <1>5 DEF AreaInv

LEMMA AreaInductive == Spec => []AreaInv
<1>1. AreaInv /\ [Next]_vars => AreaInv'
  BY NextType, NextKeys, NextSlots DEF AreaInv
<1> QED BY <1>1, InitArea, PTL DEF Spec

\* A master key belongs to one data area for the life of the file: no sequence of
\* creations, changes, restores and interruptions leaves two headers, or a header
\* and an open session, that disagree about where the data of a key lies.
THEOREM KeysKeepAreas == Spec => []KeyDeterminesArea
<1>1. AreaInv => KeyDeterminesArea
  BY DEF AreaInv, KeyInv
<1> QED BY <1>1, AreaInductive, PTL

\* When a change of an outer volume's password is through, no slot lets the old
\* credential in: the normal slots have been rewritten, and a header in a hidden
\* slot belongs to another key.
THEOREM OldIsRevoked == Spec => ChangeRevokesOld
<1> DEFINE A == /\ EndWrite
                /\ op.kind = "change" /\ op.step = 2
                /\ ~op.hdr.hidden
                /\ op.old # op.hdr.cred
                => \A s \in Slots :
                     Unlocks(op.old, file', s) => file'[s].key # op.hdr.key
<1>1. AreaInv /\ [Next]_vars => [A]_vars
  <2> SUFFICES ASSUME AreaInv, EndWrite, op.kind = "change", op.step = 2, ~op.hdr.hidden,
                      op.old # op.hdr.cred, NEW s \in Slots, Unlocks(op.old, file', s)
               PROVE  file'[s].key # op.hdr.key
    OBVIOUS
  <2>0. TypeOK /\ file \in [Units -> Content] /\ Slots \subseteq Units
    BY SlotsDistinct DEF AreaInv, TypeOK
  <2>1. file' = [file EXCEPT ![Primary] = op.hdr] /\ op # NoOp
    BY DEF EndWrite, Slot, Script, Written
  <2>2. s # Primary
    BY <2>0, <2>1 DEF Unlocks, Slots
  <2>3. file'[s] = file[s] /\ IsHeader(file[s]) /\ file[s].cred = op.old
    BY <2>0, <2>1, <2>2 DEF Unlocks
  <2>4. s # Backup
    BY <2>3 DEF AreaInv, SlotsPlaced
  <2>5. file[s].hidden
    BY <2>2, <2>3, <2>4 DEF AreaInv, SlotsPlaced, Slots
  <2>6. file[s] \in KnownHeaders /\ op.hdr \in KnownHeaders
    BY <2>0, <2>1, <2>3, KnownIs
  <2> QED BY <2>3, <2>5, <2>6 DEF AreaInv, KeyInv, KeyDeterminesArea
<1>2. Spec => [][A]_vars
  BY <1>1, AreaInductive, PTL DEF Spec
<1> QED BY <1>2 DEF ChangeRevokesOld

\* The data a session protects lies in the range it protects.
LEMMA ProtectedRange ==
  ASSUME AreaInv, session # NoSession, NEW u \in Units \ Slots, file[u] = Data(session.hkey)
  PROVE  session.from <= u /\ u < session.to
<1>1. TypeOK /\ KeyInv
  BY DEF AreaInv
<1>2. file[u].k = "data" /\ file[u].key = session.hkey
  BY DEF Data
<1>3. session.hkey # 0
  BY <1>1, <1>2 DEF TypeOK, Content, Zero, Torn, Raw, DataUnits, Headers, Keys
<1>4. session.from <= u
  BY <1>1, <1>2 DEF KeyInv, DataPlaced
<1>5. session.to = FileEnd - 2
  BY <1>1, <1>3 DEF KeyInv, SessionKeys
<1>6. u < FileEnd - 2
  BY SizeAssumption DEF Units, Slots, Backup, HiddenBackup, FileEnd
<1> QED BY <1>4, <1>5, <1>6

\* A session opened with protection never overwrites data of the hidden volume with
\* its own, through any sequence of header operations of other processes.
THEOREM ProtectedDataKept == Spec => ProtectedDataSurvives
<1> DEFINE A == session # NoSession =>
                  \A u \in Units \ Slots :
                    file[u] = Data(session.hkey) => file'[u] \in {file[u], Raw}
<1>1. AreaInv /\ [Next]_vars => [A]_vars
  <2> SUFFICES ASSUME AreaInv, Next, session # NoSession, NEW u \in Units \ Slots,
                      file[u] = Data(session.hkey)
               PROVE  file'[u] \in {file[u], Raw}
    OBVIOUS
  <2>0. TypeOK /\ file \in [Units -> Content]
    BY DEF AreaInv, TypeOK
  <2>1. CASE file' = file
    BY <2>1
  <2>2. CASE BeginWrite \/ EndWrite
    <3>1. Slot \in Slots
      BY <2>0, <2>2, OpFields, ScriptSlots DEF BeginWrite, EndWrite, Slot
    <3> QED BY <2>0, <2>2, <3>1 DEF BeginWrite, EndWrite
  <2>3. ASSUME NEW a \in Units, NEW n \in 1..MaxWrite, WriteSectors(a, n)
        PROVE  file'[u] = file[u]
    <3>1. session.from <= u /\ u < session.to
      BY ProtectedRange
    <3>2. /\ session.start \in Nat /\ session.from \in Nat /\ session.to \in Nat
          /\ a \in Nat /\ n \in Nat /\ u \in Nat
      BY <2>0, SessionTyped, SizeAssumption DEF Units, FileEnd
    <3> DEFINE off == session.start + a
    <3>3. CASE ~CheckProtectedRange(off, n)
      <4>1. u \notin off .. off + n - 1
        BY <3>1, <3>2, <3>3 DEF CheckProtectedRange
      <4> QED BY <2>0, <2>3, <4>1 DEF WriteSectors
    <3>4. CASE CheckProtectedRange(off, n)
      BY <2>3, <3>4 DEF WriteSectors
    <3> QED BY <3>3, <3>4
  <2>4. ASSUME NEW v \in Units, RawWrite(v) PROVE file'[u] \in {file[u], Raw}
    BY <2>0, <2>4 DEF RawWrite
  <2>5. Next => \/ file' = file \/ BeginWrite \/ EndWrite
                \/ \E a \in Units, n \in 1..MaxWrite : WriteSectors(a, n)
                \/ \E v \in Units : RawWrite(v)
    BY DEF Next, CreateVolume, CreateHiddenVolume, ChangePassword, RestoreHeader, Fail,
           OpenVolume, OpenWithProtection, Close
  <2> QED BY <2>1, <2>2, <2>3, <2>4, <2>5
<1>2. Spec => [][A]_vars
  BY <1>1, AreaInductive, PTL DEF Spec
<1> QED BY <1>2 DEF ProtectedDataSurvives

=============================================================================
