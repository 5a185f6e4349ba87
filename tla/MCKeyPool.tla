----------------------------- MODULE MCKeyPool -----------------------------
(* Two holders, a pool target of 0 or 1: small enough that a locked wallet *)
(* drains its pool while both holders keep an index.                       *)
EXTENDS KeyPool, TLC

CONSTANTS h1, h2
MCHolders == {h1, h2}
Symm == Permutations(MCHolders)
=============================================================================
