# A TLA+ model of oxhide

oxhide reads, creates and mounts VeraCrypt containers. It has a user-mode part
(crates `vcrypt-core`, `vcrypt-format`, `vcrypt-volume`, `vcrypt-cli`) that works
on container files, and a Windows driver (`vcrypt-driver`, with its testable core
`vcrypt-driver-core`) that mounts them as disks. These modules model the parts of
both that keep state, check them with TLC on small instances, and prove the most
important properties with TLAPS for all instances.

## The system

| Part | State | Operations | Hard because |
| --- | --- | --- | --- |
| Container file (`create.rs`, `change.rs`, `restore.rs`, `open.rs`) | four header slots, data area, hidden data area | create, create hidden, change password, restore, open | a rewrite of several slots can stop anywhere; other processes have the file open |
| `OpenVolume` (`volume.rs`, `io.rs`) | key, data area, protected range, latch | read, write, raw write, close | state read from a header that changes later; range arithmetic |
| Volume thread (`volume_thread.rs`, `extension.rs`) | request list, semaphore, quit flag, create event, thread block | start, serve, stop, enqueue | four kinds of threads share it, without a lock but the list's |
| Mount table (`mount.rs`, `driver.rs`, `device.rs`) | `VOLUME_DEVICES`, `LAST_VOLUME_ID`, drive letters | mount, unmount, unmount all, shutdown, unload | statics without a lock, handlers on the callers' threads |
| Encrypted I/O (`encrypted_io_queue.rs`, `sector_io.rs`) | the host file | read, write, flush | requests interleave between host calls; alignment; a dozen failure paths |
| Host file (`ntvol.rs`, `crypto.rs`) | handle, file object, read-only flag, timestamps, cipher | open, close | partial failure in a dozen calls; other programs open the file in between |
| Volume IOCTLs (`volume_ioctl.rs`), Mount Manager (`mount_mgr.rs`) | drive letters | queries, create and delete point | buffer lengths of some thirty answers; the peer is outside |
| Wire format (`types.rs`, `mount_struct.rs`, `kernel_ioctl.rs`) | - | pack, copy, unpack | two packed layouts have to agree |
| Header format (`vcrypt-format`), KDFs and ciphers (`vcrypt-core`) | - | derive, serialise, encrypt, detect | no header names its cipher or KDF; user mode and driver build the same passes with code of their own |

How they interact: the command line opens a container with `vcrypt-volume`, and
sends the driver a `MountStruct` with the derived key. The driver's
`handle_mount_volume` creates a device, starts its volume thread, waits until the
thread has opened the host file (`ke_create_event`), asks the Mount Manager for a
drive letter and enters the device in `VOLUME_DEVICES`. Requests to the device go
to the thread's list (control) or through `add_irp` on the caller's thread
(data). Unmount, unmount all, shutdown and unload take the device out of the
table, stop the thread and delete the device.

In the present code `tc_dispatch_queue_irp` answers every request to a volume
except CREATE, CLOSE and CLEANUP with `STATUS_INVALID_DEVICE_REQUEST`, "for now":
`enqueue_device_control_irp` and `add_irp` have no caller yet. Both are modelled
by the contract their comments state for the caller.

What makes each part correct, and what PROJECT.json lists as hazards: a header
operation that stops anywhere leaves the volume openable; a password change
revokes the old password; writes stay out of headers and of a protected hidden
volume; no wake-up is lost and nothing is freed under a running thread; requests
are completed once, and eventually; the table holds live volumes only and no
volume drops out of it; a disk returns what was written to it, whichever program
wrote it; a volume opens with the right credentials and no others; what was opened
is closed again. Where the code falls short of one of these, a run shows it violated,
or the property says which case it leaves out; the latter are collected under
"Cases the properties leave out".

## Modules

| Module | Models | Role |
| --- | --- | --- |
| `VolumeFile` | container file, header operations, one session | specification |
| `VolumeService` | what a mounted volume promises | abstract specification |
| `VolumeThread` | one volume from `mount_device` to `IoDeleteDevice` | implements `VolumeService` |
| `DriverMount` | the mount table and the handlers that change it | specification; its volumes are used as `VolumeService` says |
| `SectorIo` | `sector_io.rs` | operators |
| `VirtualDisk` | what the I/O pipeline promises | abstract specification |
| `EncryptedIo` | READ, WRITE, FLUSH | implements `VirtualDisk` |
| `VolumeIoctl` | the answers of `volume_ioctl.rs` | operators |
| `HostFile` | `ntvol.rs`: one host file, the driver and other programs | specification; answers from `VolumeIoctl` |
| `CipherSuite` | ciphers, ids, key slices, XTS passes of driver, user mode and header | operators |
| `HeaderCodec` | keyfiles, KDFs, header blocks, detection | operators, on `CipherSuite` |
| `DataUnits` | a volume, the sessions of user mode and driver, and their sectors | specification, on `HeaderCodec` |
| `KernelMount` | a mount request from the command line to the worker | specification, on `CipherSuite` |
| `MCVolumeFile`, `MCEncryptedIo`, `MCHostFile`, `MCDataUnits`, `MCKernelMount` | - | instances for TLC |
| `VolumeFileProofs`, `VolumeThreadProofs`, `DriverMountProofs`, `HostFileProofs`, `EncryptedIoProofs`, `DataUnitsProofs`, `KernelMountProofs` | - | theorems about the module each is named after |
| `KeyfileProofs` | - | lemmas on lists of keyfiles, for `DataUnitsProofs` |

Definitions whose comment begins with "Variant:" are faults a programmer could
make. No specification uses them; PROJECT.json names the property each of them
breaks.

### VolumeFile

The file is an array of 64 KiB units (`VOLUME_HEADER_SIZE`), each a header, torn,
data under a key, raw bytes or zero. A credential stands for password, keyfiles
and PIM. `Script` gives the slots an operation writes, in the code's order:
`change` the backup and then the primary, `restore` the primary and then the
backup, `create` the two normal and the two hidden slots. `BeginWrite` tears the
slot, `EndWrite` makes it whole, and `Fail` stops the operation between any two
steps (an I/O error, a killed process, a power failure; `File::flush` does not
force data to the disk, so the order of the writes in a power failure is an
assumption). One session, opened with or without hidden volume protection, writes
at the same time; its position may be anywhere, and `RawWrite` is
`impl Write for OpenVolume`.

### VolumeThread and VolumeService

One variable per field of `Extension` and `ThreadBlock` that the threads share,
and one program counter per thread. Each action is the code between two points
where another thread can see the difference: `InsertTail` and `ReleaseSemaphore`
are two actions, as they are two calls in `enqueue_device_control_irp`.
`RequestStop`, `WakeWorker`, `JoinWorker` and `DeleteDevice` are
`tc_stop_volume_thread` and the `IoDeleteDevice` after it.

`AwaitOpen` may fail to get its reference to the thread, a status the code does not
look at (`refused`). `JoinWorker` then has nothing to wait for, and the device is
deleted under the worker; from there the worker goes on as if nothing had happened or
crashes (`UseDeletedDevice`), as it may when its memory is gone.

`VolumeService` has only the phase of the volume, whether the host file is open,
whether its thread can be waited for, and the requests pending and done. `Phase` and the `INSTANCE` at the end of
`VolumeThread` are the refinement mapping.

### DriverMount

`table`, `lastId` and `points` are `VOLUME_DEVICES`, `LAST_VOLUME_ID` and the
letters the Mount Manager has assigned; `th` holds each thread's locals. The slot
is tested in `BeginMount` and filled in `Publish`, six steps later.
`next_volume_id` is a load, a store and a second load the compiler may or may not
make. `unmount_device` and the loops of shutdown and unload share `ReadSlot`,
`ClearSlot`, `StopThread` and `DeleteDevice`; only the former removes the mount
point. Field `from` is history for the property of unmount all.
The Object Manager (a device name exists once) and the Mount Manager are external.
The latter does what it is asked or fails; `send_mountmgr_ioctl` reports nothing, so
`CreateMountPoint` and `DeleteMountPoint` go on either way. `b_mount_manager` is always set by the worker thread,
and `is_drive_letter_available` always answers yes.

### SectorIo, EncryptedIo and VirtualDisk

A ciphertext sector is its tweak and its plaintext; taken as bytes, or decrypted
under another tweak, it is noise. Request `i` writes the byte `i`. The host file
is opened with `FILE_SYNCHRONOUS_IO_NONALERT`, so the I/O manager serialises the
calls on it and each `ZwReadFile` and `ZwWriteFile` is one step; everything else
in a request is private to its thread. Every early return and every failing call
is a disjunct; a `ZwWriteFile` that fails may have written any leading sectors. A
call that succeeds transfers all bytes: the code does not look at
`iosb.Information`, and short transfers are not modelled.
`VirtualDisk` is an array of bytes on which a read sees one moment and a
successful write happens at one moment. The mapping decrypts every sector under
the tweak of its position.

### HostFile and VolumeIoctl

`HostFile` is one step per call that `open_host_file`, `tc_open_volume` and
`tc_close_volume` make on the file: up to three `ZwCreateFile`, the two calls about
the times, the reference to the file object, the checks of the size and of the
cipher, and on closing the times, the handle, the reference and the cipher.
Between any two of them other programs open and close the file; `Compatible` is
the share check of Windows. `ext` has the fields of `Extension` that `ntvol.rs`
sets, `dev` the characteristics of the device object, `medium` why a file may not
be writable. `times` is what the file system would report: unchanged, changed by
I/O, or kept from changing by a handle that was told so.

A `DeviceControl` step answers one request with `VolumeIoctl!Answer`: status,
Information, the end of what was written to the system buffer, and the numbers in
the reply. The system buffer is as long as the longer of input and output. Some
answers report more bytes than they write: the partition information (32, 28
written), the drive layout (40, 36), the alignment (24, 20) and seek penalty (12, 9)
descriptors, and the name and id queries that overflow (4, none). The trim descriptor
writes one byte more than it reports, which is harmless only because the query itself
took 12 bytes. `AnswerFits` is about room, not about this.

Two pairs of control codes in `wdk_bindings.rs` have one value each, and the first arm
of the match answers for both (`FirstArm`): `IOCTL_STORAGE_GET_DEVICE_NUMBER` is
answered like `IOCTL_STORAGE_CHECK_VERIFY2`, with success and no data, so that its own
arm is never reached and has no definition here; `IOCTL_DISK_CHECK_VERIFY` is answered
like `IOCTL_DISK_GET_PARTITION_INFO`.

`restore_timestamp` passes 38 bytes where the structure has 40, which Windows
refuses; `TimesKept` holds because opening has told the file system not to touch
the times, and only when both calls to that effect succeeded: after a failed one
(`fault`) the times change and nothing restores them. A read-only request is opened for writing whenever that succeeds:
`ReadOnlyIsShown` says that the device is shown read-only, not that writes are
refused.

### CipherSuite, HeaderCodec and DataUnits

Cryptography is symbolic. A key is an identity and a range of bytes, so that two
slices are equal exactly when they are the same bytes of the same key. A pass over
a block is undone by the same pass in the other direction, under the same data
unit and block number, and by nothing else. A derived key is the record of
everything it depends on; for PBKDF2 that is not the length asked for, for
Argon2id it is. A checksum is what it is computed over.

`HeaderCodec` has the encrypted area in four blocks and `Deserializes` with the
four checks of `deserialize_header`; `TryOpen` tries every KDF candidate and for
each every cipher, in the code's order, and takes the first hit.

`DataUnits` puts them together. A volume is created with any cipher, opened with
credentials that may differ from the right ones, in user mode (`OpenUser`) or for
a mount (`MountDriver`, which detects the KDF even when it is told one), and
re-encrypted by a password change; a part of the header may be damaged. Sessions
of both kinds write and read sectors one after the other, so that each reads what
the other wrote. User mode passes a run of sectors as one data unit (`UserUnit`,
`UserBlock`), the driver numbers every sector (`DriverUnit`): with runs of one
sector both agree.

### KernelMount

Integers in the request are bytes; a byte of the key or of the path is a number of
its own, so that a field read from the wrong place shows. `FieldByte` is what
`mount_via_driver` fills in, `BlockByte` the `ThreadBlock` after `mount_device`
and `tc_start_volume_thread` have written to it, `Extract` what
`volume_thread_proc` reads. With the present code `CanOpen` never holds: a mount
through the driver fails. The other driver modules take the request as it was
meant.

## Runs

| Run | Bounds | Shows |
| --- | --- | --- |
| `volume_file` | 2 credentials, 3 data units, hidden sizes 1 and 2, writes of up to 2 units, 1 raw unit, 3 keys | interrupted header operations keep access (`HeaderOpKeepsAccess`), all headers of a key and every session agree on its data area (`KeyDeterminesArea`), a completed change revokes the old credential (`ChangeRevokesOld`), protected data survives (`ProtectedDataSurvives`) |
| `volume_file_tail` | same | violated: the data area covers the backup header slots |
| `volume_file_hidden` | same | violated: changing a hidden volume's password destroys the outer volume's headers |
| `volume_thread` | 3 requests | no lost wake-up, no use after free unless the thread reference was refused, one owner, requests served, mounts and stops end, refinement of `VolumeService` |
| `volume_thread_stop` | 2 requests | violated: the worker stops with requests in its list |
| `driver_mount` | 2 mounting threads, 1 tear-down thread, 2 drives, 3 devices | the table is live, no volume is lost, a letter is taken only from the volume being unmounted (`LettersKept`), unmount all is complete when no mount runs, every tear-down ends (`TeardownsEnd`); 1.3 million states, the largest run |
| `encrypted_io` | 2 requests, sectors of 2 bytes, 3 sectors, lengths up to 4, offsets from -1 to the end | the pipeline is a `VirtualDisk` for writes of whole sectors and reads of any bytes, stays in the data area, and completes every request |
| `encrypted_io_partial` | same, writes of any bytes | violated: writing part of a sector destroys the rest of it |
| `host_file` | 2 other programs, 6 ways to open, 6 states of the medium, 12 requests at the limits, 354 IOCTL requests | handle and cipher are released, the file object leaks only from the two error paths after opening (`OnlyFileObjectLeaks`), nobody else writes (`SoleWriter`), the fallback is shown (`ReadOnlyIsShown`), times are kept (`TimesKept`), sizes agree (`SizesAgree`) and replies fit (`AnswerFits`) |
| `data_units` | 15 ciphers, 3 KDFs, 4 PIMs, 4 keyfiles of which one is empty and two exceed the reading limit together, 2 sectors, 1 password change, 1 damaged part, runs of 1 sector in user mode and up to 2 in the driver | sectors read back (`ReadsBack`), a volume opens exactly with the right credentials (`OpenIffRight`), with its own cipher and key (`OpenedIsWritten`), and the passes use the whole key without overlap (`PassesUseWholeKey`) |
| `data_units_multi` | same, runs of 2 sectors in user mode | violated: a run written in one call does not read back sector by sector |
| `mount_wire` | 3 drives, 2 ciphers | violated: the worker reads each field from 12 bytes further on in the request |

Two known faults of the mount table have no run. `next_volume_id` is not
interlocked, so that two volumes can share an id, though the comment on
`extension.rs:22` calls it monotonically increasing; and a drive that is mounted
again during unmount all uses up one of its rounds, so that a volume mounted before
may stay. `UnmountAllUnmounts` is stated for the case without a mount meanwhile,
and holds with equal ids.

### Cases the properties leave out

Four more disagreements between the code and what it means to do are in the models,
and no run shows them violated; the property that comes nearest names the case.

- `volume_thread.rs:104` ignores that the thread may not be referenced. The join is
  then skipped, and `IoDeleteDevice` races the worker, which the comment at
  `volume_thread.rs:126` rules out. `NoUseAfterFree` and `VolumeService!Remove` except
  volumes with `refused`, and nothing else.
- `mount_mgr.rs:147` and `:166` log a failure and return nothing. A volume can be
  mounted without its letter, and a letter can outlive its volume. `LettersKept` says
  who loses a letter, not that one was given.
- `ntvol.rs:276` and `:286` close the handle and do not release the file object, which
  was referenced "so the file stays open even if the handle is closed"
  (`ntvol.rs:218`).
  `OnlyFileObjectLeaks` says that this happens there and only there.
- `volume_ioctl.rs:281` and `:300` report four bytes, with a status for which the I/O
  manager copies them, whatever the caller has room for. `AnswerFits` excepts the two.

Why the bounds are enough. Seven units are the smallest file whose outer data
area holds a hidden unit that is not a header slot; three keys are those of a
created volume, its decoy and a hidden volume; two credentials are an old and a
new one, or an outer and a hidden one. Three requests put one in the worker's
hands, one in the list and one between insertion and wake-up. Three devices on
two drives let both drives be mounted, or one of them twice. Two requests on
three sectors can overlap in one, two or no sectors, and every sector of the
virtual disk is compared in every state. Two other programs are enough for every
pair of share modes to meet the driver's and each other. Every cipher and every
cascade occurs; two sectors tell a shared data unit number from separate ones.
Requests to `HostFile` are at, below and above each limit the code checks;
`TC_MAX_VOLUME_SIZE` is scaled down to fit TLC's integers. Of each of these the
proofs, where there are any, remove the bound.

`volume_file` does not check for deadlock: a file whose headers are all lost and
that nobody has open has no next step. The other specifications say with a
disjunct when they have ended (`Finished`, `Unloaded`, `AllDone`), and any other
stop is an error.

Fairness. `VolumeThread!Fairness`, `DriverMount!Fairness` (of tear-downs, whose wait
for the worker ends by `VolumeThread!StopEnds`) and `EncryptedIo!FairSpec` are weak
fairness of each thread that is inside the driver: the Windows scheduler runs a thread that is
ready, and a wait on an object that stays signalled ends. A dispatching thread
must finish what it began, but nobody has to send a request or ask for an unmount.
Calls that may not return (a host file system that hangs) are not modelled.

## Theorems

All are about the specifications without fairness, for every value of the
constants that satisfies the named assumptions. Each inductive invariant was
checked by TLC on the instance of its run before it was proved.

`VolumeFileProofs`, from `CredAssumption` and `SizeAssumption`:

- `TypeCorrect`: `Spec => []TypeOK`.
- `HeaderAccess`: `Spec => []HeaderOpKeepsAccess`. The property alone is not
  inductive: it says that some slot holds a header, not which, and the next write
  may tear that one. `AnchorInv` names the slot, `Anchor`: the one the operation
  was opened through until the other one is written, and then the other.
  `AnchorSpared` shows that the slot being written is never the anchor. The
  session can write over it; that is the case the property excludes.
- `KeysKeepAreas`, `OldIsRevoked`, `ProtectedDataKept`: `KeyDeterminesArea`,
  `ChangeRevokesOld`, `ProtectedDataSurvives`. They share `AreaInv`: a key that is
  in use has been drawn, so that a new one is fresh, and a hidden volume that can be
  opened ends at the backup headers (`KeysDrawn`); a session's own and protected keys
  are drawn and differ, and its protected range ends at the backup headers
  (`SessionKeys`); data under a key lies behind the start of that key's area
  (`DataPlaced`); hidden slots hold only headers of hidden volumes, and a change past
  its first write finds the backup slot rewritten or torn (`SlotsPlaced`).
  Revocation follows because the change of an outer volume writes both outer slots,
  and the headers in the hidden slots have another key; protection because the
  protected range runs from the start of the hidden area to the backup headers, and
  so covers all data of its key.

`VolumeThreadProofs`, from `NoIrpAssumption`:

- `TypeCorrect`, `WakeupsAreSeen`, `StopsAreSeen`, `FreedLast`, `OwnedOnce`: the
  invariants of the run, for any number of requests. The inductive invariant
  `IndInv` adds `Life` (how the program counters of starter, worker and stopper, the
  event, the block and the host file go together) and `RequestLife` (where a request
  is, given its dispatching thread's position). `FreedLast` is about the thread block
  of every volume, and about the device of every volume whose thread was referenced;
  for the others the first conjunct of `NoUseAfterFree` is false, as said above.
- `Refinement`: `Spec => ImplementsService`. Under `IndInv` each action is an
  action of `VolumeService` or leaves the mapped state alone. A failed reference is
  the abstract `LoseThread`, after which `Remove` need not wait for `CloseHost`; the
  other promises hold of such a volume as well.

`DriverMountProofs`, for any numbers of threads, drives and devices:

- `TypeCorrect`, without a further hypothesis.
- `TableStaysLive`, `VolumesAreKept`, `LettersAreKept`: `TableIsLive`,
  `NoVolumeLost`, `LettersKept`, each from `Spec /\ []TakenByOne`. `TakenByOne`
  says that no two tear-downs have read the slot of one drive while neither has
  cleared it. The code does not make it so (two that do delete one device twice, see
  the hazards), and the table is not live then. That is the only interleaving left
  out: tear-downs overlap in every other way, also on one drive, and mounts
  interleave with them and with one another. The instance of the run, with one
  tear-down thread, satisfies `TakenByOne`.
  `TableInv` says who owns a device: from `IoCreateDevice` to the table a mounting
  thread, from the table to `IoDeleteDevice` the thread that tears it down
  (`Owned`). That a drive has one owner (`OneOwner`) is not the doing of the test in
  `BeginMount`, which is six steps old when the slot is filled, but of the device's
  name: `NamesUnique` is what the Object Manager refuses duplicates of. The letters
  follow: a device that runs and is not the one being unmounted has another drive.
- `UnmountAllEmpties`: `UnmountAllUnmounts`, from the same hypothesis. `CountInv`
  relates the rounds that unmount all has left to the number of drives that were
  mounted when it began and still are; another tear-down that clears a slot only
  makes them fewer (`Few`). The cardinalities come from `FiniteSetTheorems`.

`HostFileProofs`, from the assumptions of `HostFile` (the lengths in IOCTL requests
and `TC_MAX_VOLUME_SIZE` are natural numbers), for any number of other programs:

- `TypeCorrect`, `OnlyFileObjectLeaked`, `WritesAlone`, `ReadOnlyShown`, `TimesAreKept`,
  `AnswersFit`, `SizesAlwaysAgree`: all seven invariants of the run. `HeldAt` says
  which of handle and cipher are held at which point of opening and closing, and
  `FileObjectAt` where the reference is, the leak included; `ReadOnlyAt`, `TimesAt` and `SizesAt` do the same for the access that was
  granted, the times and the request's size. The answers are taken one arm of the
  match at a time, for all statuses; the geometry needs a lemma on division by the product of sectors and
  bytes.

`EncryptedIoProofs`, from the assumptions of `SectorIo` and `RequestAssumption`, for
any sector size, data offset (a multiple of it), disk length and any number of
requests in progress:

- `TypeCorrect` and `HostUntouched` (`Spec => HostKept`), for requests of any bytes.
  They rest on `ParamsOf`: the sectors of an accepted request run from the one of its
  first byte to the one of its last, lie in the data area, and the tweak is the
  number of the first sector in that area, whatever the request. `IndInv` says that
  every host sector was encrypted under its own number (`HostInv`) and that a
  request in progress passed the checks and holds sectors under the tweaks of the
  place they go back to (`IrpInv`).
- `Refinement`: `WholeSectors => (Spec => ImplementsDisk)`. `WholeSectors` says that
  every write in `Requests` begins and ends on a sector boundary, which is what a
  file system does and what the run's instance has; without it the theorem is false
  (`encrypted_io_partial`). `ReadHost` of a read is the abstract `Look`
  (`SeenIs`: what the buffer decrypts to is what the volume holds), `WriteHost` the
  abstract `Write` or a failure after a leading part (`StoredDisk`).
- `WholeWritesKeepNeighbours`: `WholeSectors => (Spec => NeighboursKept)`: writes of
  parts of sectors are the only ones that harm their neighbours.

`DataUnitsProofs`, from `BoundsAssumption`, `CreationAssumption`, `AttemptAssumption`
and `NewCredentialAssumption` (volumes are created with one of the ciphers and KDFs,
keyfiles come in lists, and no PIM exceeds `MaxPim`, from which on the iteration count
no longer fits 32 bits), for any number of sectors and any sets of passwords,
keyfiles and PIMs:

- The lemmas come in three layers. Passes: the driver, user mode and the header make
  the same passes of a cipher and a key (`SamePasses`), and the passes tell both
  (`PassesDiffer`, which needs that no two cascades are the same). XTS: a block
  decrypts to a plaintext under its own passes (`RoundTrip`) and under no others
  (`OnlyRight`, `NoiseStays`). Header: a part that reads as plaintext was decrypted
  with the cipher and derived key it was written with (`PartTells`), so at most one
  of the candidates that `try_open` goes through is accepted (`FoundTells`), and the
  right one is (`RightOpens`).
- `TypeCorrect`, `OpenedIsTheVolume` (`OpenedIsWritten`), `KeyIsPartitioned`
  (`PassesUseWholeKey`). The inductive invariant `VolumeInv` says that the header is
  what was last written except for the damaged part (`HeaderInv`), that a session has
  the volume's passes (`SessionInv`), and what a result means (`ResultInv`).
- `OpensOnlyRight`: `OpenIffRight`, for lists of keyfiles of any length. The lemmas on
  keyfiles are in `KeyfileProofs`. The library's induction theorems take an operator
  and cannot be used, but `WFMin`, the least member of a set under a well-founded
  order, takes a set: `Induction` follows from it, and with it the equation of the
  recursive function `ReadKeyfiles` and what it computes. For a list that is
  `Regular` (no file is empty or cut short) the pool counts each file (`PoolIs`,
  `PoolCounts`), so that two such lists make the same pool exactly when one is a
  reordering of the other (`KeyfilesTold`). This rests on the model's pool, a bag of
  contents: that no two different bags add up to the same 128 bytes is assumed.
- `SectorsReadBack`: `MaxRun = 1 => (Spec => []ReadsBack)`. `DataInv` says that a written
  sector holds its value under its own number. With longer runs in user mode it is
  false (`data_units_multi`); the driver's requests are of any length.

`KernelMountProofs`, for every request and every path of 1 to 259 characters:

- `NoMountSucceeds`: no mount request brings up a device. Where the run `mount_wire`
  shows one request that is misread, the theorem says what becomes of all of them:
  the path that the worker extracts begins with byte 12 of the one asked for, or with
  a zero (`PathIsShifted`), so it is never the path asked for (`WrongPath`).
- `RequestReadBack`: from the bytes of the request itself `Extract` gets back every
  field, for every cipher, drive and path length and numbers below 2^24. The copy to
  the wrong place is the only fault of the wire format. The offsets of the packed
  struct are worked out by the same induction (`OffsetIs`); then every byte is where
  its field begins (`RequestByteIs`, `FieldIs`), numbers come back from their bytes
  (`NumberIs`) and the path ends at its first zero (`PathIs`).

`KernelMount` has no passing run, so what these two theorems need of `PathLength` and
of a request (`Sendable`) stands in their statements and not in an `ASSUME`.

Only model-checked: the liveness properties (`QueuedIsServed`, `MountEnds`,
`StopEnds`, `TeardownsEnd`, `EveryIrpCompletes`), which need fairness and so are
beyond the prover. Every other property of the passing runs is a theorem.

## What is not modelled

- Two header operations on one file at a time, and files that grow.
- Hidden volumes so large that they begin inside the primary headers (the size
  check allows it), and data offsets that are not multiples of 512.
- More than one tear-down request at a time in the run `driver_mount`: nothing in the
  code prevents two unmounts of one drive from deleting its device twice, and
  `TableIsLive` does not hold then. It is listed as a hazard; the theorems cover all
  other overlaps of tear-downs.
- GET_MOUNTED_VOLUMES and GET_DRIVER_VERSION, which change nothing; the buffers sent
  to the Mount Manager; the fields of IOCTL replies that are constants.
- Requests in progress while the worker closes the volume: `add_irp` has no caller
  yet.
- Collisions of checksums, KDFs and keyfile pools, PIMs so large that the iteration count wraps,
  and `CascadeCipher`, which only benchmarks and tests use.
- The command line's parsing, printing and benchmark.
- Cryptographic strength and the arithmetic of ciphers, hashes and KDFs.
- `io_queue.rs` and `volume.rs` of the driver, which are not part of the crate, the
  self-test driver and the WDK bindings.

## Plan

Done, in this order: `VolumeFile` and its proofs; `VolumeThread`, `VolumeService`
and their proofs; `DriverMount`; `SectorIo`, `EncryptedIo` and `VirtualDisk`;
`VolumeIoctl` and `HostFile`; `CipherSuite`, `HeaderCodec` and `DataUnits`;
`KernelMount`; then the proofs about `DriverMount`, `HostFile`, `EncryptedIo`, the keys of
`VolumeFile` and `DataUnits`; last those about keyfile lists, overlapping tear-downs and
the mount request.

Models that would follow a change of the code: requests in progress against stop,
once the dispatch routine calls `add_irp`; several header operations at a time,
once the file is locked.
