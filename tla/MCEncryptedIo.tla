---------------------------- MODULE MCEncryptedIo -----------------------------
(***************************************************************************)
(* Requests for EncryptedIo.  Offsets run from before the volume to its    *)
(* end, lengths past it.                                                   *)
(***************************************************************************)
EXTENDS EncryptedIo

CONSTANT MaxLen    \* bound: bytes in one request

Areas == [off : {-1} \cup (0 .. DiskLength), len : 0 .. MaxLen]
Of(kind, areas) == {[kind |-> kind, off |-> a.off, len |-> a.len] : a \in areas}

\* A file system writes whole sectors.
Aligned == {a \in Areas : a.off % Unit = 0 /\ a.len % Unit = 0}
SectorRequests ==
  Of("read", Areas) \cup Of("write", Aligned) \cup Of("flush", {[off |-> 0, len |-> 0]})

\* The code takes writes of any bytes.
ByteRequests == Of("write", Areas)

=============================================================================
