----------------------------- MODULE MCDataUnits ------------------------------
(***************************************************************************)
(* Volumes and credentials for DataUnits: every cipher once, every KDF with *)
(* its default PIM and others, and keyfiles that reach the reading limit.   *)
(***************************************************************************)
EXTENDS DataUnits

\* Keyfiles: two files, one more than the rest of the limit, and an empty one
Lengths == [a |-> 3, b |-> 2, big |-> 4, empty |-> 0]

Made(cipher, kdf, pim, kfs) ==
  [cipher |-> cipher, kdf |-> kdf, pim |-> pim, pw |-> "pw", kfs |-> kfs]
Attempt(kdf, pim, pw, kfs) == [kdf |-> kdf, pim |-> pim, pw |-> pw, kfs |-> kfs]

KfLists == {<<"a", "b">>, <<"a", "big">>, <<"empty", "a">>}

Volumes ==
  {Made(c, "Pbkdf2Sha512", 0, <<>>) : c \in CipherTypes}
    \cup {Made("SerpentAes", kdf, pim, <<>>) :
            kdf \in {"Pbkdf2Streebog", "Argon2id"}, pim \in {0, 31}}
    \cup {Made("Aes", "Argon2id", 12, kfs) : kfs \in KfLists}

Tries ==
  {Attempt(AnyKdf, pim, "pw", <<>>) : pim \in {NoPim, 12, 32}}
    \cup {Attempt(kdf, NoPim, "pw", <<>>) : kdf \in {"Argon2id", "Pbkdf2Sha256"}}
    \cup {Attempt(AnyKdf, NoPim, "other", <<"a">>)}
    \cup {Attempt(AnyKdf, 12, "pw", kfs) : kfs \in KfLists \cup {<<"b", "a">>}}

Changes == {[pw |-> "other", kfs |-> <<"a">>]}

=============================================================================
