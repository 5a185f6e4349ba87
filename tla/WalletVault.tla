----------------------------- MODULE WalletVault -----------------------------
(***************************************************************************)
(* What wallet encryption promises, seen from the disk: the wallet is a    *)
(* set of private keys that anyone can read, or that exactly one           *)
(* passphrase opens.  Keys only accumulate, the protection is put on in    *)
(* one step, never comes off, and a change of passphrase replaces the old  *)
(* one by the new one in one step.  A crash is no step at all.             *)
(***************************************************************************)
CONSTANTS Keys, Passphrases, Open   \* Open: no passphrase is needed

VARIABLES
    stored,       \* the private keys that can be recovered
    protection    \* the passphrase it takes, or Open

vars == <<stored, protection>>

TypeOK == stored \subseteq Keys /\ protection \in Passphrases \cup {Open}

Init == stored # {} /\ stored \subseteq Keys /\ protection = Open

AddKey(k) ==
    /\ k \notin stored
    /\ stored' = stored \cup {k}
    /\ UNCHANGED protection

\* Keys that were in memory only may be saved together with the protection.
Protect(p, more) ==
    /\ protection = Open
    /\ protection' = p
    /\ stored' = stored \cup more

Change(old, new) ==
    /\ protection = old
    /\ protection' = new
    /\ UNCHANGED stored

Next ==
    \/ \E k \in Keys : AddKey(k)
    \/ \E p \in Passphrases, more \in SUBSET Keys : Protect(p, more)
    \/ \E old, new \in Passphrases : Change(old, new)

Spec == Init /\ [][Next]_vars
=============================================================================
