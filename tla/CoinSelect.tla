----------------------------- MODULE CoinSelect -----------------------------
(* CWallet::SelectCoins and the loop of CreateTransaction that raises the    *)
(* fee.  The random bits of ApproximateBestSubset are chosen freely: the     *)
(* best of a thousand repetitions is the best of one of them.                *)
EXTENDS Integers, FiniteSets, FiniteSetsExt, SequencesExt

CONSTANTS
    Wallets,        \* sequences of [value, nDepth, fromMe], what AvailableCoins lists
    Payments,       \* sequences of amounts, vecSend
    Fees,           \* values of nTransactionFee
    CENT, MIN_TX_FEE,
    BytesPerInput, BytesPerOutput,  \* what the size of a transaction is made of
    MaxBytes,       \* MAX_BLOCK_SIZE_GEN / 5
    FreeBytes       \* bytes for which a unit of priority frees, CTransaction::AllowFree

VARIABLES
    vCoins, vecSend, nTransactionFee,   \* what the call is given
    nFeeRet,
    setCoins,   \* the coins of the last attempt
    level,      \* the confirmations SelectCoins was content with: 1, 2 or 3
    nChange,
    reserved,   \* reservekey holds a key of the pool
    state       \* "trying", "made" or "failed"

vars == <<vCoins, vecSend, nTransactionFee, nFeeRet, setCoins, level, nChange, reserved,
          state>>

-----------------------------------------------------------------------------
(* Selection *)

Total(S) == MapThenSumSet(LAMBDA i : vCoins[i].value, S)

\* SelectCoins: the confirmations asked of one's own coins and of others'.
Levels == << <<1, 6>>, <<1, 1>>, <<0, 1>> >>
Eligible(l) == {i \in DOMAIN vCoins :
    vCoins[i].nDepth >= IF vCoins[i].fromMe THEN Levels[l][1] ELSE Levels[l][2]}

\* One repetition of ApproximateBestSubset over coins in falling order, where bits are
\* the places at which the random bit was one.
Repetition(vValue, nTarget, bits) ==
    LET start == [nTotal |-> 0, in |-> {}, reached |-> FALSE, best |-> ToSet(vValue)]
        include(st, n) ==
            LET with == st.in \cup {vValue[n]}
                nTotal == st.nTotal + vCoins[vValue[n]].value
            IN  IF nTotal < nTarget THEN [st EXCEPT !.nTotal = nTotal, !.in = with]
                ELSE [st EXCEPT !.reached = TRUE,
                                !.best = IF nTotal < Total(st.best) THEN with ELSE @]
        pass[p \in 0..2] ==
            IF p = 0 THEN start
            ELSE IF pass[p - 1].reached THEN pass[p - 1]
            ELSE FoldLeft(LAMBDA st, n :
                            IF (p = 1 /\ n \in bits) \/ (p = 2 /\ vValue[n] \notin st.in)
                            THEN include(st, n) ELSE st,
                          pass[p - 1], [n \in DOMAIN vValue |-> n])
    IN  pass[2].best

ApproximateBestSubset(vValue, nTarget) ==
    {Repetition(vValue, nTarget, bits) : bits \in SUBSET DOMAIN vValue}

\* Mutant of BestSubsets: the approximation is not repeated for a cent more.
BestSubsetsOnce(vValue, nTarget) == ApproximateBestSubset(vValue, nTarget)
\* What is closest to the target, or else to a cent more than it.
BestSubsets(vValue, nTarget) == UNION
    {IF Total(best) # nTarget /\ Total(ToSet(vValue)) >= nTarget + CENT
     THEN ApproximateBestSubset(vValue, nTarget + CENT) ELSE {best} :
        best \in ApproximateBestSubset(vValue, nTarget)}

\* Mutant of BiggerCoin: the bigger coin is never preferred.
BiggerCoinNever(nBest, lowestLarger, nTarget) == FALSE
\* No good subset was found, or the bigger coin is closer.
BiggerCoin(nBest, lowestLarger, nTarget) ==
    \/ nBest # nTarget /\ nBest < nTarget + CENT
    \/ lowestLarger <= nBest

\* SelectCoinsMinConf: the sets of coins it may return, none if it fails.
SelectCoinsMinConf(nTarget, eligible) ==
    LET exact == {i \in eligible : vCoins[i].value = nTarget}
        lower == {i \in eligible : vCoins[i].value < nTarget + CENT}
        larger == eligible \ lower
        falling(i, j) == \/ vCoins[i].value > vCoins[j].value
                         \/ vCoins[i].value = vCoins[j].value /\ i < j
        vValue == SetToSortSeq(lower, falling)
        lowestLarger == Min({vCoins[i].value : i \in larger})
        coinLowestLarger == {{i} : i \in {j \in larger : vCoins[j].value = lowestLarger}}
    IN  IF exact # {} THEN {{i} : i \in exact}
        ELSE IF Total(lower) = nTarget THEN {lower}
        ELSE IF Total(lower) < nTarget
             THEN IF larger = {} THEN {} ELSE coinLowestLarger
        ELSE UNION {IF larger # {} /\ BiggerCoin(Total(best), lowestLarger, nTarget)
                    THEN coinLowestLarger ELSE {best} : best \in BestSubsets(vValue, nTarget)}

\* SelectCoins: the first level that succeeds
SelectCoins(nTarget) ==
    LET found == {l \in DOMAIN Levels : SelectCoinsMinConf(nTarget, Eligible(l)) # {}}
    IN  IF found = {} THEN {}
        ELSE {Min(found)} \X SelectCoinsMinConf(nTarget, Eligible(Min(found)))

-----------------------------------------------------------------------------
(* CreateTransaction *)

nValue == FoldLeft(LAMBDA x, y : x + y, 0, vecSend)

\* CTransaction::GetMinFee(1, fAllowFree, GMF_SEND)
GetMinFee(nBytes, fAllowFree, outputs) ==
    LET nMinFee == IF fAllowFree THEN 0 ELSE (1 + nBytes \div 1000) * MIN_TX_FEE
    IN  IF nMinFee < MIN_TX_FEE /\ (\E o \in outputs : o < CENT) THEN MIN_TX_FEE ELSE nMinFee

Init ==
    /\ vCoins \in Wallets
    /\ vecSend \in Payments
    /\ nTransactionFee \in Fees
    /\ nFeeRet = nTransactionFee
    /\ setCoins = {} /\ level = 0 /\ nChange = 0 /\ reserved = FALSE
    /\ state = "trying"

\* Change below a cent raises the fee to the least there is, or goes to the fee whole.
MovedToFee(change) ==
    IF nFeeRet < MIN_TX_FEE /\ change > 0 /\ change < CENT
    THEN Min({change, MIN_TX_FEE - nFeeRet}) ELSE 0

\* The size of the signed transaction of the coins
SizeOf(S, change) ==
    Cardinality(S) * BytesPerInput
    + (Len(vecSend) + IF change > 0 THEN 1 ELSE 0) * BytesPerOutput

\* Mutant of FeeNeeded: the rate is not multiplied by the size.
FeeNeededFlat(S, change) == nTransactionFee
\* What the transaction of the coins and the change must pay.
FeeNeeded(S, change) ==
    LET priority == MapThenSumSet(LAMBDA i : vCoins[i].value * vCoins[i].nDepth, S)
        nPayFee == nTransactionFee * (1 + SizeOf(S, change) \div 1000)
        outputs == ToSet(vecSend) \cup IF change > 0 THEN {change} ELSE {}
        fAllowFree == priority * FreeBytes >= SizeOf(S, change)
    IN  Max({nPayFee, GetMinFee(SizeOf(S, change), fAllowFree, outputs)})
Oversized(S, change) == SizeOf(S, change) >= MaxBytes

\* One turn of the loop: the fee is settled, or raised for the next turn.
Attempt ==
    /\ state = "trying"
    /\ \E s \in SelectCoins(nValue + nFeeRet) :
          LET left == Total(s[2]) - nValue - nFeeRet
              moved == MovedToFee(left)
              fee == nFeeRet + moved
              needed == FeeNeeded(s[2], left - moved)
          IN  /\ level' = s[1] /\ setCoins' = s[2]
              /\ nChange' = left - moved
              /\ reserved' = (left - moved > 0)
              /\ \/ /\ Oversized(s[2], left - moved)
                    /\ state' = "failed" /\ nFeeRet' = fee
                 \/ /\ ~Oversized(s[2], left - moved)
                    /\ fee < needed
                    /\ nFeeRet' = needed /\ UNCHANGED state
                 \/ /\ ~Oversized(s[2], left - moved)
                    /\ fee >= needed
                    /\ state' = "made" /\ nFeeRet' = fee
    /\ UNCHANGED <<vCoins, vecSend, nTransactionFee>>

\* There is not enough; a key that an earlier turn reserved stays with reservekey.
Insufficient ==
    /\ state = "trying"
    /\ SelectCoins(nValue + nFeeRet) = {}
    /\ state' = "failed"
    /\ UNCHANGED <<vCoins, vecSend, nTransactionFee, nFeeRet, setCoins, level, nChange,
                   reserved>>

Next == Attempt \/ Insufficient

Spec == Init /\ [][Next]_vars

-----------------------------------------------------------------------------
(* Properties *)

\* CreateTransaction: what is made balances, pays what its size asks, and has a key for
\* the change exactly when there is change.
MadeBalances == state = "made" =>
    /\ Total(setCoins) = nValue + nFeeRet + nChange
    /\ nChange >= 0
    /\ nFeeRet >= nTransactionFee * (1 + SizeOf(setCoins, nChange) \div 1000)
    /\ nChange \in 1..(CENT - 1) => nFeeRet >= MIN_TX_FEE
    /\ reserved <=> nChange > 0

\* CreateTransaction fails for want of money only if no subset of the coins that may
\* be spent at all is worth what was asked.
FailsForWant == state = "failed" =>
    \/ Total(Eligible(3)) < nValue + nFeeRet
    \/ Oversized(setCoins, nChange)

\* SelectCoins, for the target of the attempt that was taken: unconfirmed coins only if the
\* others do not suffice; less than a cent of change only if all the coins there are
\* would leave less; and no more than any one coin that would do with a cent of change.
CoinsSelected == state = "made" =>
    LET lack == Total(setCoins) - nChange       \* nValue and the fee with what moved to it
        worth == Total(setCoins)
        eligible == Eligible(level)
    IN  /\ setCoins \subseteq eligible
        /\ \A l \in 1..(level - 1) : Total(Eligible(l)) < lack
        /\ nChange \in 1..(CENT - 1) => Total(eligible) < worth - nChange + CENT
        /\ \A i \in eligible : vCoins[i].value >= lack + CENT => worth <= vCoins[i].value
=============================================================================
