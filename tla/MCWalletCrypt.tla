--------------------------- MODULE MCWalletCrypt ---------------------------
(* Two RPC threads (one suffices for the violations) and the GUI; three   *)
(* keys, so that two may exist when the wallet is encrypted; two           *)
(* passphrases; and master keys for one attempt to encrypt that fails and  *)
(* one that succeeds.                                                      *)
EXTENDS WalletCrypt

CONSTANTS r1, r2, gui, k1, k2, k3, p1, p2, open
=============================================================================
