----------------------------- MODULE Signatures -----------------------------
(* IsCanonicalSignature and SignatureHash of script/interpreter.cpp: what a  *)
(* signature looks like, and what of a transaction it signs.  A signature is *)
(* tampered with, and a transaction is changed after it was signed.          *)
EXTENDS Integers, Sequences

CONSTANTS
    Encodings,      \* bytes of signatures to start from
    ChangedBytes,   \* what a byte is changed to
    Transactions,   \* [vin, vout]; an input is [prevout, script, nSequence]
    Inputs, Outputs,    \* what is put in
    HashTypes,
    MaxChanges

VARIABLES
    sig,            \* the bytes of a signature
    signed,         \* ghost: the transaction when it was signed,
    tx,             \* and now
    nIn, nHashType,
    changes

vars == <<sig, signed, tx, nIn, nHashType, changes>>

SIGHASH_ALL == 1
SIGHASH_NONE == 2
SIGHASH_SINGLE == 3
AnyoneCanPay(t) == (t \div 128) % 2 = 1     \* SIGHASH_ANYONECANPAY

-----------------------------------------------------------------------------
(* The form of a signature; vchSig[i] of the code is at i + 1 *)

byte(s, i) == s[i + 1]

\* The number of so many bytes from first on, after its mark
Positive(s, first, size) ==
    /\ byte(s, first - 2) = 2
    /\ size > 0
    /\ byte(s, first) < 128
    /\ ~(size > 1 /\ byte(s, first) = 0 /\ byte(s, first + 1) < 128)

\* Mutant of LengthsAgree: the length of all is not compared.
LengthsAgreeInner(s) ==
    LET nLenR == byte(s, 3) IN
    5 + nLenR < Len(s) /\ nLenR + byte(s, 5 + nLenR) + 7 = Len(s)
LengthsAgree(s) ==
    LET nLenR == byte(s, 3) IN
    /\ byte(s, 1) = Len(s) - 3
    /\ 5 + nLenR < Len(s) /\ nLenR + byte(s, 5 + nLenR) + 7 = Len(s)

IsCanonicalSignature(s) ==
    /\ Len(s) \in 9..73
    /\ s[Len(s)] % 128 \in SIGHASH_ALL..SIGHASH_SINGLE
    /\ byte(s, 0) = 48
    /\ LengthsAgree(s)
    /\ Positive(s, 4, byte(s, 3))
    /\ Positive(s, 6 + byte(s, 3), byte(s, 5 + byte(s, 3)))

-----------------------------------------------------------------------------
(* What is hashed *)

Null == -1
One == [one |-> TRUE]       \* the number 1, for what cannot be signed

Unsequenced(vin, n) ==
    [i \in DOMAIN vin |-> IF i = n THEN vin[i] ELSE [vin[i] EXCEPT !.nSequence = 0]]

\* Mutant of Single: the outputs before the input's own are left.
SingleWhole(vout, n) == SubSeq(vout, 1, n)
\* vout.resize(nOut + 1), and the outputs before it are null
Single(vout, n) == [i \in 1..n |-> IF i = n THEN vout[i] ELSE Null]

\* The digest of a scriptCode that is the same for all; inputs count from 1.
SignatureHash(t, n, type) ==
    LET base == type % 32
        blank == [i \in DOMAIN t.vin |->
                     [t.vin[i] EXCEPT !.script = IF i = n THEN "scriptCode" ELSE "blank"]]
        vin == IF base \in {SIGHASH_NONE, SIGHASH_SINGLE} THEN Unsequenced(blank, n) ELSE blank
        vout == IF base = SIGHASH_NONE THEN << >>
                ELSE IF base = SIGHASH_SINGLE THEN Single(t.vout, n) ELSE t.vout
    IN  IF n > Len(t.vin) \/ (base = SIGHASH_SINGLE /\ n > Len(t.vout)) THEN One
        ELSE [vin |-> IF AnyoneCanPay(type) THEN <<vin[n]>> ELSE vin, vout |-> vout,
              type |-> type]

-----------------------------------------------------------------------------

Init ==
    /\ changes = 0
    /\ \/ /\ sig \in Encodings
          /\ signed = [vin |-> << >>, vout |-> << >>] /\ nIn = 0 /\ nHashType = 0
       \/ /\ sig = << >>
          /\ signed \in Transactions /\ nIn \in DOMAIN signed.vin /\ nHashType \in HashTypes
    /\ tx = signed

Change(s, t) == changes < MaxChanges /\ changes' = changes + 1 /\ sig' = s /\ tx' = t
                /\ UNCHANGED <<signed, nIn, nHashType>>

Tamper ==
    /\ sig # << >>
    /\ \/ \E i \in DOMAIN sig, b \in ChangedBytes : Change([sig EXCEPT ![i] = b], tx)
       \/ Change(SubSeq(sig, 1, Len(sig) - 1), tx)
       \/ \E b \in ChangedBytes : Change(Append(sig, b), tx)

\* Anyone may change, add or take away inputs and outputs.
Modify ==
    /\ sig = << >>
    /\ \/ \E i \in DOMAIN tx.vin, in \in Inputs : Change(sig, [tx EXCEPT !.vin[i] = in])
       \/ \E i \in DOMAIN tx.vout, out \in Outputs : Change(sig, [tx EXCEPT !.vout[i] = out])
       \/ \E in \in Inputs : Change(sig, [tx EXCEPT !.vin = Append(@, in)])
       \/ \E out \in Outputs : Change(sig, [tx EXCEPT !.vout = Append(@, out)])
       \/ tx.vout # << >> /\ Change(sig, [tx EXCEPT !.vout = SubSeq(@, 1, Len(@) - 1)])
       \/ Len(tx.vin) > nIn /\ Change(sig, [tx EXCEPT !.vin = SubSeq(@, 1, Len(@) - 1)])

Next == Tamper \/ Modify

Spec == Init /\ [][Next]_vars

-----------------------------------------------------------------------------
(* Properties *)

\* The comment of IsCanonicalSignature: 30, the length of all, 02, the length of R, R, 02,
\* the length of S, S and the type, R and S being positive and as short as they can be.
Encode(R, S, type) ==
    <<48, Len(R) + Len(S) + 4, 2, Len(R)>> \o R \o <<2, Len(S)>> \o S \o <<type>>
Shortest(R) == R # << >> /\ R[1] < 128 /\ (R[1] = 0 => Len(R) = 1 \/ R[2] >= 128)

\* One pair of numbers has one canonical signature: whatever byte of one is changed,
\* it is canonical only if it encodes another pair by the rule.
OneForm ==
    sig # << >> =>
        (IsCanonicalSignature(sig) <=>
            /\ Len(sig) <= 73
            /\ \E k \in 1..Len(sig) :
                LET R == SubSeq(sig, 5, 4 + k)
                    S == SubSeq(sig, 7 + k, Len(sig) - 1)
                    type == sig[Len(sig)]
                IN  /\ 4 + k < Len(sig) /\ Shortest(R) /\ Shortest(S)
                    /\ type % 128 \in 1..3 /\ sig = Encode(R, S, type))

\* What a type of signature signs of a transaction
Signs(t, type) ==
    LET all == type % 32 \notin {SIGHASH_NONE, SIGHASH_SINGLE}
        ins == IF AnyoneCanPay(type) THEN {nIn} ELSE DOMAIN t.vin
    IN  [prevouts |-> [i \in ins |-> t.vin[i].prevout],
         sequences |-> [i \in IF all THEN ins ELSE {nIn} |-> t.vin[i].nSequence],
         vout |-> CASE type % 32 = SIGHASH_NONE -> << >>
                    [] type % 32 = SIGHASH_SINGLE -> <<t.vout[nIn]>>
                    [] OTHER -> t.vout]

\* SignatureHash: a change after signing shows in the hash just when it is of something
\* that the type signs, unless there is no output to sign with SIGHASH_SINGLE.
SignsItsPart ==
    sig = << >> =>
        LET was == SignatureHash(signed, nIn, nHashType)
            is == SignatureHash(tx, nIn, nHashType)
        IN  IF was = One \/ is = One
            THEN /\ nHashType % 32 = SIGHASH_SINGLE
                 /\ was = One <=> nIn > Len(signed.vout)
                 /\ is = One <=> nIn > Len(tx.vout)
            ELSE was = is <=> Signs(signed, nHashType) = Signs(tx, nHashType)

SignaturesRight == OneForm /\ SignsItsPart
=============================================================================
