----------------------------- MODULE MCKernelMount ----------------------------
(***************************************************************************)
(* Mount requests: a first, the last and an impossible drive, a single     *)
(* cipher and the longest cascade.                                         *)
(***************************************************************************)
EXTENDS KernelMount

Commands ==
  {[drive |-> d, cipher |-> c, read_only |-> ro, data_offset |-> 262144,
    disk_length |-> 1048576, pim |-> 485] :
      d \in {0, 25, 26}, c \in {"Aes", "SerpentTwofishAes"}, ro \in BOOLEAN}

=============================================================================
