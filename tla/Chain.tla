------------------------------- MODULE Chain -------------------------------
(***************************************************************************)
(* The active chain (chain.cpp, CChain of chain.h) over a tree of block    *)
(* index entries, the locators built from it and the fork they find, and   *)
(* the median time of an entry's ancestors.                                *)
(*                                                                         *)
(* A block is a number above its parent's, 1 is the genesis block, 0 is    *)
(* NULL.  GetAncestor, the skip list, is main.cpp's.                       *)
(***************************************************************************)
EXTENDS Integers, SequencesExt

CONSTANTS
    Trees,        \* block trees; see Tree
    Dense,        \* 10: entries of a locator before the steps double
    MedianSpan    \* nMedianTimeSpan, 11

VARIABLES
    tree,         \* pprev and nTime of every entry
    vChain        \* vChain[h + 1] is the entry at height h

vars == <<tree, vChain>>

NULL == 0
CBlockIndex == DOMAIN tree.pprev
pprev(b) == tree.pprev[b]

\* A block and those before it, genesis first.
Branch(b) ==
    LET path[x \in CBlockIndex \cup {NULL}] ==
            IF x = NULL THEN << >> ELSE Append(path[pprev(x)], x)
    IN  path[b]
nHeight(b) == Len(Branch(b)) - 1
GetAncestor(b, height) == Branch(b)[height + 1]

Tree ==
    /\ pprev(1) = NULL
    /\ \A b \in CBlockIndex \ {1} : pprev(b) \in 1..(b - 1)

Init ==
    /\ tree \in Trees
    /\ vChain = << >>

-----------------------------------------------------------------------------
(* CChain *)

At(h) == IF h < 0 \/ h >= Len(vChain) THEN NULL ELSE vChain[h + 1]
Genesis == At(0)
Tip == At(Len(vChain) - 1)
Height == Len(vChain) - 1
InChain(b) == At(nHeight(b)) = b
NextOf(b) == IF InChain(b) THEN At(nHeight(b) + 1) ELSE NULL

Resized(n) == [i \in 1..n |-> IF i <= Len(vChain) THEN vChain[i] ELSE NULL]

\* Mutant of Written: the loop stops at the first height that holds any entry.
WrittenOver(old, b) ==
    LET last == {i \in 1..(Len(old) - 1) : old[i] # NULL}
    IN  [i \in DOMAIN old |->
            IF \A j \in last : i > j THEN Branch(b)[i] ELSE old[i]]

\* Down from the tip, up to the first height that holds the branch's entry already.
Written(old, b) ==
    LET kept == {i \in DOMAIN old : old[i] = Branch(b)[i]}
    IN  [i \in DOMAIN old |->
            IF \E j \in kept : i <= j THEN old[i] ELSE Branch(b)[i]]

SetTip(b) ==
    /\ vChain' = IF b = NULL THEN << >> ELSE Written(Resized(nHeight(b) + 1), b)
    /\ UNCHANGED tree

Next == \E b \in CBlockIndex \cup {NULL} : SetTip(b)

Spec == Init /\ [][Next]_vars
-----------------------------------------------------------------------------
(* Locators *)

\* Where the loop goes from b, with step nStep.
Back(b, nStep) ==
    LET h == IF nHeight(b) > nStep THEN nHeight(b) - nStep ELSE 0
    IN  IF InChain(b) THEN At(h) ELSE GetAncestor(b, h)

\* Mutant of GetLocator: the step doubles from the first entry on.
GetLocatorSparse(b) ==
    LET start == IF b = NULL THEN Tip ELSE b
        more[x \in CBlockIndex \cup {NULL}, n \in 1..(nHeight(start) + 2)] ==
            IF x = NULL THEN << >>
            ELSE IF nHeight(x) = 0 THEN <<x>>
            ELSE <<x>> \o more[Back(x, 2 ^ (n - 1)), n + 1]
    IN  more[start, 1]

\* The n-th entry pushed is followed by a step that has doubled once for each
\* entry after the tenth.
GetLocator(b) ==
    LET start == IF b = NULL THEN Tip ELSE b
        more[x \in CBlockIndex \cup {NULL}, n \in 1..(nHeight(start) + 2)] ==
            IF x = NULL THEN << >>
            ELSE IF nHeight(x) = 0 THEN <<x>>
            ELSE <<x>> \o more[Back(x, IF n > Dense + 1 THEN 2 ^ (n - Dense - 1) ELSE 1),
                               n + 1]
    IN  more[start, 1]

FindFork(b) ==
    LET from == IF nHeight(b) > Height THEN GetAncestor(b, Height) ELSE b
        down[x \in CBlockIndex \cup {NULL}] ==
            IF x = NULL \/ InChain(x) THEN x ELSE down[pprev(x)]
    IN  down[from]

\* The peer that answers looks for the first entry it has in its own chain
\* (FindForkInGlobalIndex, main.cpp).
Located(locator) ==
    LET known == {i \in DOMAIN locator : InChain(locator[i])}
    IN  IF known = {} THEN Genesis
        ELSE locator[CHOOSE i \in known : \A j \in known : i <= j]

GetMedianTimePast(b) ==
    LET path == Branch(b)
        times == [i \in 1..(IF Len(path) < MedianSpan THEN Len(path) ELSE MedianSpan) |->
                    tree.nTime[path[Len(path) + 1 - i]]]
        sorted == SortSeq(times, <)
    IN  sorted[(Len(times) \div 2) + 1]

-----------------------------------------------------------------------------
(* Properties *)

\* Wherever the tip jumps, vChain is the branch that leads to it and nothing of an
\* earlier branch stays: SetTip stops at the first entry it finds in place.
ChainIsBranch == vChain # << >> => vChain = Branch(Tip)

CommonAncestors(b) == {x \in Range(Branch(b)) : x \in Range(vChain)}

\* FindFork returns the highest block two branches share, and a locator of any
\* block of the tree brings a peer on the active chain to a block at or below the
\* fork, not further below than the entry above it is from the locator's start.
LocatorFindsFork ==
    vChain # << >> =>
        \A b \in CBlockIndex :
            LET fork == FindFork(b)
                locator == GetLocator(b)
                found == Located(locator)
                missed == nHeight(fork) - nHeight(found)
            IN  /\ fork \in CommonAncestors(b)
                /\ \A x \in CommonAncestors(b) : x <= fork
                /\ Last(locator) = 1
                /\ Range(locator) \subseteq Range(Branch(b))
                /\ found \in CommonAncestors(b)
                /\ missed <= nHeight(b) - nHeight(fork)
                /\ nHeight(b) - nHeight(fork) < Dense => missed = 0
=============================================================================
