---------------------------- MODULE MCConsensus -----------------------------
(* What a miner makes and a node accepts, in parts that share no variable: a *)
(* behaviour is one of the miner threads, of the assembly of one block, of   *)
(* the active chain, of the targets and times of a chain of headers, of the  *)
(* integers targets are, of a script, of the numbers in scripts, of the      *)
(* evaluation of a script, or of a signature and what it signs.              *)
EXTENDS Integers, Sequences

CONSTANTS
    Scenarios, MaxBlockSize, Kilobyte, MaxBlockSigOps, CoinbaseSigOps, MinTxFee,
    FreePriority, Unit,
    Trees, Dense, MedianSpan,
    HashBits, ByteBits, Mantissa, Limit, Interval, Spacing, MaxHeight, MaxTime,
    Threads, Keys, NonceRange, Limits, MaxScans,
    WIDTH, LimbBytes, HexBits,
    MaxParts, nMaxNumSize, MaxOps, MaxStack, MaxElement,
    ChangedBytes, Outputs, HashTypes, MaxChanges

VARIABLES
    part,
    scenario, waiting, vOrphan, mapDependers, vecPriority, fSortedByFee, view, block,
    totals, refused, dangling, pblocktemplate,
    tree, vChain,
    chain, clock, fAllowMin,
    miner, blocks, best, pool, nTransactionsUpdated, peers, staticPrev, limits,
    x, number,
    script, parts, vch, n,
    program, code, m, state, fStrict, was, chosen,
    sig, signed, tx, nIn, nHashType, changes

Assembly == INSTANCE BlockAssembly
Active == INSTANCE Chain
Work == INSTANCE Pow
Threading == INSTANCE Miner

\* Hexadecimal texts of up to four digits, with blanks, without 0x, too long and odd.
Digits == {"0", "1"}
Ints == INSTANCE UInt256 WITH
    Texts <- {<<" ", "0", "x">> \o d : d \in UNION {[1..k -> Digits] : k \in 0..4}}
             \cup {<<"1", "0", "x">>, <<"0", "1", " ", "1">>, <<"1", "1", "1">>,
                   <<"1", "0", "1", "1", "0", "1", "1", "1">>},
    n <- number

\* Bytes of three bits: pushes of each of the four forms, some with opcodes in them.
Text == INSTANCE Scripts WITH
    Byte <- 8, Operands <- {-31, -3, 1, 20},
    Payloads <- {<< >>, <<1>>, <<7, 1>>, <<3, 1, 7>>, [i \in 1..8 |-> 7],
                 [i \in 1..64 |-> IF i = 1 THEN 7 ELSE 0]}

Op(name) == [name |-> name, data |-> << >>]
Pushing(data) == [name |-> "push", data |-> data]
Items(k) == [i \in 1..k |-> <<i>>]
Program(stack, instructions, length) ==
    [stack |-> stack, instructions |-> instructions, length |-> length]

\* Branches; the stack operations in pairs; limits, disabled and reserved opcodes in and
\* out of branches; and signature checks.
Eval == INSTANCE Interpreter WITH
    script <- code, Canonical <- {<<5>>},
    Programs <-
        {Program(<< >>, {Pushing(<<1>>), Pushing(<<0, 128>>)} \cup
            {Op(o) : o \in {"OP_IF", "OP_NOTIF", "OP_ELSE", "OP_ENDIF", "OP_CODESEPARATOR"}},
            6),
         Program(Items(7),
            {Op(o) : o \in {"OP_2DUP", "OP_3DUP", "OP_2OVER", "OP_2ROT", "OP_2SWAP",
                "OP_IFDUP", "OP_DROP", "OP_2DROP", "OP_DUP", "OP_NIP", "OP_OVER", "OP_ROT",
                "OP_SWAP", "OP_TUCK"}}, 2),
         Program(Items(7), {Pushing(<<1>>), Pushing(<<1, 1, 1, 1>>)} \cup
            {Op(o) : o \in {"OP_IF", "OP_MUL", "OP_TOALTSTACK", "OP_FROMALTSTACK", "OP_NOP",
                "OP_3DUP", "OP_ENDIF", "OP_RESERVED", "OP_RETURN"}}, 5),
         Program(<< >>, {Pushing(<<5>>), Pushing(<<6>>)} \cup
            {Op(o) : o \in {"OP_CHECKSIG", "OP_CHECKSIGVERIFY", "OP_EQUAL",
                "OP_EQUALVERIFY", "OP_HASH160", "OP_VERIFY", "OP_DUP"}}, 4)}

\* Signatures with numbers of every form, and transactions of two inputs.
DER(R, S, type) ==
    <<48, Len(R) + Len(S) + 4, 2, Len(R)>> \o R \o <<2, Len(S)>> \o S \o <<type>>
Numerals == {<<1>>, <<0>>, <<128>>, <<0, 128>>, <<1, 0>>, <<0, 1>>, << >>}
Input(prevout, nSequence) ==
    [prevout |-> prevout, script |-> "sig", nSequence |-> nSequence]
Sigs == INSTANCE Signatures WITH
    Encodings <- {DER(R, <<0, 128>>, 1) : R \in Numerals}
                 \cup {DER(<<1>>, S, type) : S \in Numerals, type \in {0, 3, 4, 131}}
                 \cup {DER([i \in 1..33 |-> i], [i \in 1..33 |-> i], 1)},
    Transactions <- {[vin |-> ins, vout |-> outs] :
                        ins \in {<<Input(1, 1)>>, <<Input(1, 1), Input(2, 0)>>},
                        outs \in {<< >>, <<1>>, <<1, 2>>}},
    Inputs <- {Input(1, 0), Input(1, 1), Input(2, 1)}

assembly == <<scenario, waiting, vOrphan, mapDependers, vecPriority, fSortedByFee,
              view, block, totals, refused, dangling, pblocktemplate>>
active == <<tree, vChain>>
work == <<chain, clock, fAllowMin>>
threading == <<miner, blocks, best, pool, nTransactionsUpdated, peers, staticPrev, limits>>
integers == <<x, number>>
scripts == <<script, parts, vch, n>>
evaluation == <<program, code, m, state, fStrict, was, chosen>>
signing == <<sig, signed, tx, nIn, nHashType, changes>>
validation == <<integers, scripts, evaluation, signing>>
vars == <<part, assembly, active, work, threading, validation>>

Init ==
    /\ part \in {"miner", "assembly", "chain", "work", "integers", "script", "numbers",
                "evaluation", "signature"}
    /\ IF part = "miner" THEN Threading!Init
       ELSE /\ miner = [t \in Threads |-> Threading!Stopped] /\ blocks = << >> /\ best = 0
            /\ pool = {} /\ nTransactionsUpdated = 0 /\ peers = FALSE /\ staticPrev = 0
            /\ limits = 0
    /\ IF part = "assembly" THEN Assembly!Init
       ELSE /\ scenario = 0 /\ waiting = 0 /\ vOrphan = 0 /\ mapDependers = 0
            /\ vecPriority = 0 /\ fSortedByFee = 0 /\ view = 0 /\ block = 0
            /\ totals = 0 /\ refused = 0 /\ dangling = 0 /\ pblocktemplate = 0
    /\ IF part = "chain" THEN Active!Init ELSE tree = 0 /\ vChain = 0
    /\ IF part = "work" THEN Work!Init ELSE chain = 0 /\ clock = 0 /\ fAllowMin = 0
    /\ IF part = "integers" THEN Ints!Init ELSE x = 0 /\ number = 0
    /\ IF part \in {"script", "numbers"} THEN Text!Init
       ELSE script = 0 /\ parts = 0 /\ vch = 0 /\ n = 0
    /\ IF part = "evaluation" THEN Eval!Init
       ELSE /\ program = 0 /\ code = 0 /\ m = 0 /\ state = 0 /\ fStrict = 0 /\ was = 0
            /\ chosen = 0
    /\ IF part = "signature" THEN Sigs!Init
       ELSE /\ sig = 0 /\ signed = 0 /\ tx = 0 /\ nIn = 0 /\ nHashType = 0 /\ changes = 0

MinerNext ==
    part = "miner" /\ Threading!Next
    /\ UNCHANGED <<part, assembly, active, work, validation>>
AssemblyNext ==
    part = "assembly" /\ Assembly!Next
    /\ UNCHANGED <<part, threading, active, work, validation>>
ChainNext ==
    part = "chain" /\ Active!Next
    /\ UNCHANGED <<part, threading, assembly, work, validation>>
WorkNext ==
    part = "work" /\ Work!Next
    /\ UNCHANGED <<part, threading, assembly, active, validation>>
mining == <<assembly, active, work, threading>>
IntegersNext ==
    part = "integers" /\ Ints!Next
    /\ UNCHANGED <<part, mining, scripts, evaluation, signing>>
ScriptNext ==
    part = "script" /\ Text!Scripting
    /\ UNCHANGED <<part, mining, integers, evaluation, signing>>
NumbersNext ==
    part = "numbers" /\ Text!Counting
    /\ UNCHANGED <<part, mining, integers, evaluation, signing>>
EvaluationNext ==
    part = "evaluation" /\ Eval!Next
    /\ UNCHANGED <<part, mining, integers, scripts, signing>>
SignatureNext ==
    part = "signature" /\ Sigs!Next
    /\ UNCHANGED <<part, mining, integers, scripts, evaluation>>

Next ==
    \/ MinerNext \/ AssemblyNext \/ ChainNext \/ WorkNext \/ IntegersNext
    \/ ScriptNext \/ NumbersNext \/ EvaluationNext \/ SignatureNext

Spec == Init /\ [][Next]_vars /\ Threading!Fairness

-----------------------------------------------------------------------------
\* Two blocks after the first and a pool of one key, one and two keys, or none and a
\* change of the pool of transactions.
MCLimits == {[blocks |-> 3, updates |-> 0, keys |-> {1}],
             [blocks |-> 2, updates |-> 0, keys |-> {1, 2}],
             [blocks |-> 1, updates |-> 1, keys |-> {1, 2}]}

Tx(vin, vout, size, sigops) ==
    [vin |-> vin, vout |-> vout, size |-> size, sigops |-> sigops, p2sh |-> 1,
     coinbase |-> FALSE, final |-> TRUE, valid |-> TRUE]

\* A child of two parents with a smaller hash than they, a transaction that is not
\* final, and one that fails its checks and has a child.
Family ==
    << Tx(<< <<3, 1>>, <<2, 1>> >>, <<5, 3>>, 2, 1),
       Tx(<< <<10, 1>> >>, <<6>>, 1, 0),
       Tx(<< <<11, 1>> >>, <<4>>, 1, 1),
       Tx(<< <<11, 2>>, <<1, 2>> >>, <<10>>, 1, 0),
       [Tx(<< <<1, 1>> >>, <<5>>, 1, 0) EXCEPT !.final = FALSE],
       [Tx(<< <<12, 1>> >>, <<7, 0>>, 2, 0) EXCEPT !.valid = FALSE],
       Tx(<< <<6, 1>> >>, <<1>>, 1, 1) >>

\* Transactions whose inputs are nowhere, one of them after an input in the pool.
Missing ==
    << Tx(<< <<3, 1>>, <<99, 1>> >>, <<5>>, 1, 0),
       Tx(<< <<98, 1>> >>, <<5>>, 1, 0),
       Tx(<< <<10, 1>> >>, <<3, 3>>, 1, 0),
       Tx(<< <<3, 2>>, <<11, 1>> >>, <<8>>, 1, 0),
       Tx(<< <<97, 1>> >>, <<8>>, 1, 0) >>

Coins == [o \in {<<10, 1>>, <<11, 1>>, <<11, 2>>, <<12, 1>>} |->
            [value |-> 6 + o[2], height |-> IF o[1] = 10 THEN 1 ELSE 3]]
MCScenarios ==
    {[pool |-> p, coins |-> Coins, height |-> 5, blockmaxsize |-> max,
      blockprioritysize |-> priority, blockminsize |-> min] :
        p \in {Family, Missing}, max \in {0, 7, 20}, priority \in {0, 3, 6, 9},
        min \in {0, 4, 9}}

\* A chain of eighteen blocks and two branches.
MCTrees ==
    {[pprev |-> [b \in 1..24 |-> IF b = 19 THEN f ELSE IF b = 23 THEN g ELSE b - 1],
      nTime |-> [b \in 1..24 |-> ((b * 7) % 5) + b]] : f \in {1, 4, 9, 16}, g \in {3, 20}}

-----------------------------------------------------------------------------
\* What follows the coinbase of a template connects, and no transaction is lost among
\* the orphans on the way to it or read through a destroyed one (CreateNewBlock).
BlockAssembled ==
    part = "assembly" =>
        /\ Assembly!BlockConnects /\ Assembly!NobodyForgotten /\ Assembly!NoDanglingRead

\* Wherever the tip jumps, the chain is one branch, and FindFork and the locators
\* find where another branch leaves it (chain.cpp).
LocatorFindsFork ==
    part = "chain" => Active!Tree /\ Active!ChainIsBranch /\ Active!LocatorFindsFork

\* Targets stay within the limit, move by a factor of four at most and only between
\* intervals, and the work of a block is what its target says (pow.cpp); the integers
\* they are are added, shifted, compared, printed and read as integers (uint256.h).
TargetsRight ==
    /\ part = "work" => Work!RetargetBounded /\ Work!DifficultyKept /\ Work!ProofExact
    /\ part = "integers" => Ints!ArithmeticRight

\* A script is read back as it was put together and its numbers exactly; its branches
\* nest and its limits hold (EvalScript); one pair of numbers has one signature, and
\* a change of the transaction shows if it was signed (SignatureHash).
ScriptsRight ==
    /\ part = "script" => Text!ReadsBack
    /\ part = "numbers" => Text!NumbersKept
    /\ part = "evaluation" => Eval!EvaluatedRight
    /\ part = "signature" => Sigs!SignaturesRight

\* No two mined blocks are made for the same key of the pool, no two threads hold the
\* same, and only the default key serves again (CheckWork, CReserveKey).
OneKeyOneBlock == part = "miner" => Threading!OneKeyOneBlock

\* An interrupted miner thread ends unless it finds blocks for ever (GenerateDystaters,
\* DystaterMiner).
InterruptedStops == Threading!InterruptedStops

\* "Height first in coinbase required for block.version=2": the height in the
\* coinbase of a mined block is the block's (IncrementExtraNonce).
HeightInCoinbase == part = "miner" => Threading!HeightInCoinbase
=============================================================================
