------------------------------ MODULE Scripts -------------------------------
(* CScript and CScriptNum of script/script.h: a script is put together byte  *)
(* by byte, read back instruction by instruction and searched; a number is   *)
(* kept in as few bytes as it needs.  Bytes have Byte values and the opcodes *)
(* of the header keep their order.                                           *)
EXTENDS Integers, FiniteSets, SequencesExt

CONSTANTS
    Byte,           \* values of a byte, a power of two
    Payloads,       \* what is pushed
    MaxParts,       \* instructions in a script
    nMaxNumSize,    \* bytes of an operand
    Operands        \* numbers that are added and subtracted

\* OP_0 up to here push as many bytes as their number, these say how many follow,
\* and the last two push nothing.
OP_PUSHDATA1 == Byte \div 2 - 1
OP_PUSHDATA2 == OP_PUSHDATA1 + 1
OP_PUSHDATA4 == OP_PUSHDATA1 + 2
OP_16 == Byte - 2
OP_CODESEPARATOR == Byte - 1

VARIABLES
    script,     \* the bytes
    parts,      \* ghost: the instructions they are made of, each with its data
    vch, n      \* the bytes of a number; ghost: its value

vars == <<script, parts, vch, n>>

-----------------------------------------------------------------------------
(* Instructions *)

LittleEndian(v, k) == [i \in 1..k |-> (v \div Byte ^ (i - 1)) % Byte]
FromLittleEndian(b) ==
    FoldLeft(LAMBDA v, i : v + b[i] * Byte ^ (i - 1), 0, [i \in DOMAIN b |-> i])

\* operator<< of an opcode and of data, which takes the shortest form for its size
Op(opcode) == <<opcode>>
Size(k) ==
    IF k < OP_PUSHDATA1 THEN <<k>>
    ELSE IF k < Byte THEN <<OP_PUSHDATA1, k>>
    ELSE IF k < Byte ^ 2 THEN <<OP_PUSHDATA2>> \o LittleEndian(k, 2)
    ELSE <<OP_PUSHDATA4>> \o LittleEndian(k, 4)
Pushed(b) == Size(Len(b)) \o b

SizeBytes(opcode) ==
    CASE opcode = OP_PUSHDATA1 -> 1 [] opcode = OP_PUSHDATA2 -> 2
      [] opcode = OP_PUSHDATA4 -> 4 [] OTHER -> 0

NoOp == [opcode |-> -1, data |-> << >>, next |-> 0]

\* Mutant of GetOp: the data begins where the bytes of its size do.
GetOpEarly(s, pc) ==
    LET opcode == s[pc]
        first == pc + SizeBytes(opcode)
        nSize == IF opcode > OP_PUSHDATA4 THEN 0
                 ELSE IF opcode < OP_PUSHDATA1 THEN opcode
                 ELSE FromLittleEndian(SubSeq(s, pc + 1, first))
    IN  IF pc > Len(s) \/ first > Len(s) \/ first + nSize > Len(s) THEN NoOp
        ELSE [opcode |-> opcode, data |-> SubSeq(s, pc + 1, pc + nSize),
              next |-> first + nSize + 1]

\* GetOp2: the instruction at pc, unless the script ends within it
GetOp(s, pc) ==
    LET opcode == s[pc]
        first == pc + SizeBytes(opcode)     \* the byte before the data
        nSize == IF opcode > OP_PUSHDATA4 THEN 0
                 ELSE IF opcode < OP_PUSHDATA1 THEN opcode
                 ELSE FromLittleEndian(SubSeq(s, pc + 1, first))
    IN  IF pc > Len(s) \/ first > Len(s) \/ first + nSize > Len(s) THEN NoOp
        ELSE [opcode |-> opcode, data |-> SubSeq(s, first + 1, first + nSize),
              next |-> first + nSize + 1]

\* The instructions from pc on, as far as they can be read
RECURSIVE ReadFrom(_, _)
ReadFrom(s, pc) ==
    LET op == GetOp(s, pc) IN
    IF op = NoOp THEN << >>
    ELSE <<[opcode |-> op.opcode, data |-> op.data]>> \o ReadFrom(s, op.next)

Matches(s, b, pc) ==
    b # << >> /\ pc + Len(b) - 1 <= Len(s) /\ SubSeq(s, pc, pc + Len(b) - 1) = b

\* Mutant of FindAndDelete: every byte is a place to begin at.
RECURSIVE FindAndDeleteAnywhere(_, _, _)
FindAndDeleteAnywhere(s, b, pc) ==
    IF Matches(s, b, pc)
    THEN FindAndDeleteAnywhere(SubSeq(s, 1, pc - 1) \o SubSeq(s, pc + Len(b), Len(s)), b, pc)
    ELSE IF pc > Len(s) THEN s ELSE FindAndDeleteAnywhere(s, b, pc + 1)

\* FindAndDelete from pc on, where an instruction begins
RECURSIVE FindAndDelete(_, _, _)
FindAndDelete(s, b, pc) ==
    IF Matches(s, b, pc)
    THEN FindAndDelete(SubSeq(s, 1, pc - 1) \o SubSeq(s, pc + Len(b), Len(s)), b, pc)
    ELSE IF GetOp(s, pc) = NoOp THEN s
    ELSE FindAndDelete(s, b, GetOp(s, pc).next)

Find(s, opcode) ==
    Cardinality({i \in DOMAIN ReadFrom(s, 1) : ReadFrom(s, 1)[i].opcode = opcode})

\* IsPushOnly fails at what cannot be read, too.
RECURSIVE PushOnlyFrom(_, _)
PushOnlyFrom(s, pc) ==
    pc <= Len(s) => /\ GetOp(s, pc) # NoOp /\ GetOp(s, pc).opcode <= OP_16
                    /\ PushOnlyFrom(s, GetOp(s, pc).next)
IsPushOnly(s) == PushOnlyFrom(s, 1)

-----------------------------------------------------------------------------
(* Numbers *)

Sign == Byte \div 2     \* the bit of the last byte that says a number is negative

\* Mutant of serialize: a number that fills its last byte gets no byte for the sign.
serializeTight(v) ==
    LET abs == IF v < 0 THEN -v ELSE v
        size == CHOOSE k \in 0..8 : abs < Byte ^ k /\ (k > 0 => abs >= Byte ^ (k - 1))
        b == LittleEndian(abs, size)
    IN  IF v < 0 /\ Last(b) < Sign THEN Front(b) \o <<Last(b) + Sign>> ELSE b
serialize(v) ==
    LET abs == IF v < 0 THEN -v ELSE v
        size == CHOOSE k \in 0..8 : abs < Byte ^ k /\ (k > 0 => abs >= Byte ^ (k - 1))
        b == LittleEndian(abs, size)
    IN  IF v = 0 THEN << >>
        ELSE IF Last(b) >= Sign THEN b \o <<IF v < 0 THEN Sign ELSE 0>>
        ELSE IF v < 0 THEN Front(b) \o <<Last(b) + Sign>>
        ELSE b

set_vch(b) ==
    IF b = << >> THEN 0
    ELSE IF Last(b) >= Sign THEN -(FromLittleEndian(b) - Sign * Byte ^ (Len(b) - 1))
    ELSE FromLittleEndian(b)

\* What the constructor takes: no more bytes than an operand has, and with
\* fRequireMinimal none that only carries a sign.
Taken(b, fRequireMinimal) ==
    /\ Len(b) <= nMaxNumSize
    /\ fRequireMinimal /\ b # << >> /\ Last(b) % Sign = 0 =>
           Len(b) > 1 /\ b[Len(b) - 1] >= Sign

\* CastToBool: false is zero, and negative zero
CastToBool(b) ==
    \E i \in DOMAIN b : b[i] # 0 /\ ~(i = Len(b) /\ b[i] = Sign)

-----------------------------------------------------------------------------

Init == script = << >> /\ parts = << >> /\ vch = << >> /\ n = 0

Instruction(bytes, opcode, data) ==
    /\ Len(parts) < MaxParts
    /\ script' = script \o bytes
    /\ parts' = Append(parts, [opcode |-> opcode, data |-> data])
    /\ UNCHANGED <<vch, n>>
Push(b) == Instruction(Pushed(b), Head(Pushed(b)), b)
PushOp(opcode) == Instruction(Op(opcode), opcode, << >>)
\* A signature is deleted as it is pushed, and the separators are.
Delete(bytes, instruction) ==
    /\ script' = FindAndDelete(script, bytes, 1)
    /\ parts' = SelectSeq(parts, LAMBDA p : p # instruction)
    /\ UNCHANGED <<vch, n>>
DeletePush(b) == Delete(Pushed(b), [opcode |-> Head(Pushed(b)), data |-> b])
DeleteSeparators ==
    Delete(Op(OP_CODESEPARATOR), [opcode |-> OP_CODESEPARATOR, data |-> << >>])

\* An operand is read, a number added or its sign changed, and the result kept.
Compute(v) ==
    /\ Taken(vch, TRUE)
    /\ vch' = serialize(v) /\ n' = v
    /\ UNCHANGED <<script, parts>>
Add(b) == Compute(set_vch(vch) + b)
Negate == Compute(-set_vch(vch))

Scripting ==
    \/ \E b \in Payloads : Push(b) \/ DeletePush(b)
    \/ \E opcode \in {OP_16, OP_CODESEPARATOR} : PushOp(opcode)
    \/ DeleteSeparators
Counting == (\E b \in Operands : Add(b)) \/ Negate

Next == Scripting \/ Counting

Spec == Init /\ [][Next]_vars

-----------------------------------------------------------------------------
(* Properties *)

Bytes(ps) == FlattenSeq([i \in DOMAIN ps |->
    IF ps[i].opcode >= OP_16 THEN Op(ps[i].opcode) ELSE Pushed(ps[i].data)])

\* GetOp2 and FindAndDelete: a script is read back as the instructions it was made of,
\* whatever bytes their data has, less those that were deleted; cut off anywhere,
\* it is read back as those that are whole.
ReadsBack ==
    /\ ReadFrom(script, 1) = parts
    /\ IsPushOnly(script) <=> \A i \in DOMAIN parts : parts[i].opcode # OP_CODESEPARATOR
    /\ Find(script, OP_CODESEPARATOR) =
         Cardinality({i \in DOMAIN parts : parts[i].opcode = OP_CODESEPARATOR})
    /\ \A k \in 0..Len(script) :
         LET cut == SubSeq(script, 1, k) IN
         /\ IsPrefix(ReadFrom(cut, 1), parts)
         /\ IsPushOnly(cut) => cut = Bytes(ReadFrom(cut, 1))

\* CScriptNum: a number is kept exactly, even one that is too large to be an operand;
\* it is an operand in one form only, and true unless it is zero.
NumbersKept ==
    /\ set_vch(vch) = n
    /\ CastToBool(vch) <=> n # 0
    /\ Taken(vch, TRUE) <=> Taken(vch, FALSE)
    /\ \A b \in UNION {[1..k -> 0..(Byte - 1)] : k \in 0..(nMaxNumSize + 1)} :
         /\ Taken(b, TRUE) <=> Len(b) <= nMaxNumSize /\ b = serialize(set_vch(b))
         /\ CastToBool(b) <=> set_vch(b) # 0

ScriptsRight == ReadsBack /\ NumbersKept
=============================================================================
