-------------------------------- MODULE Pow --------------------------------
(***************************************************************************)
(* The work a block must show (pow.cpp) and the time a miner gives it      *)
(* (UpdateTime, miner.cpp): a chain grows block by block, with times that  *)
(* are only bound to be later than the median of the last ones.            *)
(*                                                                         *)
(* Targets are numbers below 2 ^ HashBits.  SetCompact and GetCompact are  *)
(* not in the repository's uint256.h; they are modelled as a mantissa of   *)
(* Mantissa bits, a sign bit and an exponent in bytes of ByteBits bits.    *)
(***************************************************************************)
EXTENDS Integers, SequencesExt

CONSTANTS
    HashBits, ByteBits, Mantissa,  \* 256, 8 and 23
    Limit,                     \* Params().ProofOfWorkLimit()
    Interval,                  \* Params().Interval()
    Spacing,                   \* Params().TargetSpacing()
    MedianSpan,                \* nMedianTimeSpan
    MaxHeight, MaxTime         \* bounds of the model

VARIABLES
    chain,          \* the headers, genesis first: nTime and nBits
    clock,          \* GetAdjustedTime()
    fAllowMin       \* Params().AllowMinDifficultyBlocks()

vars == <<chain, clock, fAllowMin>>

Timespan == Interval * Spacing
Hash == 0..(2 ^ HashBits - 1)

\* A compact number: the value is mantissa * 256 ^ (size - 3).
Digits == Mantissa \div ByteBits + 1       \* bytes of the mantissa with the sign bit
Size(n) == CHOOSE s \in 0..(HashBits \div ByteBits + 1) :
             n < 2 ^ (ByteBits * s) /\ (s = 0 \/ n >= 2 ^ (ByteBits * (s - 1)))
Shift(n, bits) == IF bits >= 0 THEN n * 2 ^ bits ELSE n \div 2 ^ (-bits)
GetCompact(n) ==
    LET m == Shift(n, ByteBits * (Digits - Size(n)))
    IN  IF m >= 2 ^ Mantissa
        THEN [size |-> Size(n) + 1, mantissa |-> m \div 2 ^ ByteBits, negative |-> FALSE]
        ELSE [size |-> Size(n), mantissa |-> m, negative |-> FALSE]
SetCompact(c) == Shift(c.mantissa, ByteBits * (c.size - Digits)) % 2 ^ HashBits
Overflows(c) == Shift(c.mantissa, ByteBits * (c.size - Digits)) >= 2 ^ HashBits

nProofOfWorkLimit == GetCompact(Limit)

-----------------------------------------------------------------------------
(* GetNextWorkRequired.  Block i of the chain has height i - 1. *)

Median(times) == SortSeq(times, <)[(Len(times) \div 2) + 1]
GetMedianTimePast ==
    Median([i \in 1..(IF Len(chain) < MedianSpan THEN Len(chain) ELSE MedianSpan) |->
              chain[Len(chain) + 1 - i].nTime])

pindexLast == Last(chain)
Clamp(n, low, high) == IF n < low THEN low ELSE IF n > high THEN high ELSE n

\* Mutant of Retarget: the timespan is bounded from above only.
RetargetUnbounded(first) ==
    LET span == Clamp(pindexLast.nTime - first.nTime, 1, Timespan * 4)
        bnNew == ((SetCompact(pindexLast.nBits) * span) % 2 ^ HashBits) \div Timespan
    IN  GetCompact(IF bnNew > Limit THEN Limit ELSE bnNew)

\* first is the block Interval - 1 before the last.
Retarget(first) ==
    LET span == Clamp(pindexLast.nTime - first.nTime, Timespan \div 4, Timespan * 4)
        bnNew == ((SetCompact(pindexLast.nBits) * span) % 2 ^ HashBits) \div Timespan
    IN  GetCompact(IF bnNew > Limit THEN Limit ELSE bnNew)

\* Mutant of LastNonSpecial: the walk does not stop where the interval begins.
LastNonSpecialFar ==
    LET stops == {i \in DOMAIN chain : i = 1 \/ chain[i].nBits # nProofOfWorkLimit}
    IN  chain[CHOOSE i \in stops : \A j \in stops : j <= i].nBits

\* The last block that is not one of the special blocks of minimal difficulty.
LastNonSpecial ==
    LET stops == {i \in DOMAIN chain : i = 1 \/ (i - 1) % Interval = 0
                                         \/ chain[i].nBits # nProofOfWorkLimit}
    IN  chain[CHOOSE i \in stops : \A j \in stops : j <= i].nBits

GetNextWorkRequired(nTime) ==
    IF chain = << >> THEN nProofOfWorkLimit
    ELSE IF Len(chain) % Interval = 0 THEN Retarget(chain[Len(chain) - Interval + 1])
    ELSE IF ~fAllowMin THEN pindexLast.nBits
    ELSE IF nTime > pindexLast.nTime + Spacing * 2 THEN nProofOfWorkLimit
    ELSE LastNonSpecial

CheckProofOfWork(hash, nBits) ==
    LET bnTarget == SetCompact(nBits)
    IN  /\ ~nBits.negative /\ bnTarget # 0 /\ ~Overflows(nBits) /\ bnTarget <= Limit
        /\ hash <= bnTarget

\* Mutant of GetBlockProof: without the one that makes up for 2 ** 256.
GetBlockProofLess(nBits) ==
    LET bnTarget == SetCompact(nBits)
    IN  IF nBits.negative \/ Overflows(nBits) \/ bnTarget = 0 THEN 0
        ELSE (2 ^ HashBits - 1 - bnTarget) \div (bnTarget + 1)

\* ~bnTarget / (bnTarget + 1) + 1
GetBlockProof(nBits) ==
    LET bnTarget == SetCompact(nBits)
    IN  IF nBits.negative \/ Overflows(nBits) \/ bnTarget = 0 THEN 0
        ELSE (2 ^ HashBits - 1 - bnTarget) \div (bnTarget + 1) + 1

-----------------------------------------------------------------------------

Init ==
    /\ chain = <<[nTime |-> 0, nBits |-> nProofOfWorkLimit]>>
    /\ clock = 1
    /\ fAllowMin \in BOOLEAN

\* The miner's time, and the work that goes with it.
UpdateTime == IF GetMedianTimePast + 1 > clock THEN GetMedianTimePast + 1 ELSE clock
Mine ==
    /\ Len(chain) <= MaxHeight
    /\ chain' = Append(chain, [nTime |-> UpdateTime,
                               nBits |-> GetNextWorkRequired(UpdateTime)])
    /\ UNCHANGED <<clock, fAllowMin>>

\* Another node's block; main.cpp accepts any time later than the median and not
\* far ahead of the clock; of these the earliest, one in time, one
\* late enough for the test network's rule and the latest.
Receive ==
    /\ Len(chain) <= MaxHeight
    /\ \E t \in {GetMedianTimePast + 1, pindexLast.nTime + Spacing,
                 pindexLast.nTime + 2 * Spacing + 1, clock + 2 * Spacing} :
         /\ t > GetMedianTimePast /\ t <= clock + 2 * Spacing
         /\ chain' = Append(chain, [nTime |-> t, nBits |-> GetNextWorkRequired(t)])
    /\ UNCHANGED <<clock, fAllowMin>>

Tick ==
    /\ clock' = clock + 2 * Timespan
    /\ clock' <= MaxTime
    /\ UNCHANGED <<chain, fAllowMin>>

Next == Mine \/ Receive \/ Tick

Spec == Init /\ [][Next]_vars
-----------------------------------------------------------------------------
(* Properties *)

Target(i) == SetCompact(chain[i].nBits)
\* What GetCompact may take off a target of this size.
Precision(n) == 2 ^ (IF Size(n) > Digits - 1 THEN ByteBits * (Size(n) - Digits + 1) ELSE 0)
First(i) == i - ((i - 1) % Interval)      \* of the interval that block i is in

\* The target never exceeds the limit, and however the times are chosen (they may
\* run backwards) it changes by a factor of four at most from one interval's last
\* block to the next interval's first, up to the precision of the compact form.
RetargetBounded ==
    \A i \in 2..Len(chain) :
        /\ Target(i) \in 1..Limit
        /\ (i - 1) % Interval = 0 =>
             /\ Target(i) <= 4 * Target(i - 1)
             /\ Target(i) = Limit \/ 4 * (Target(i) + Precision(Target(i))) >= Target(i - 1)

\* Within an interval the target is the one it began with, but for the blocks of
\* minimal difficulty that the test network allows after a pause, and these leave
\* no trace in the blocks that follow them.
DifficultyKept ==
    \A i \in 2..Len(chain) :
        \/ chain[i].nBits = chain[First(i)].nBits
        \/ fAllowMin /\ chain[i].nBits = nProofOfWorkLimit
                     /\ chain[i].nTime > chain[i - 1].nTime + Spacing * 2

\* The work of a block is 2 ** 256 / (target + 1) although that number cannot be
\* represented.
ProofExact ==
    LET t == SetCompact(pindexLast.nBits)
    IN  GetBlockProof(pindexLast.nBits) = 2 ^ HashBits \div (t + 1)
=============================================================================
