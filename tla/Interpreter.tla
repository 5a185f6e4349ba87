---------------------------- MODULE Interpreter -----------------------------
(* EvalScript of script/interpreter.cpp: one instruction is read at a time,  *)
(* and what it does depends on the branches it is in and on what the stacks  *)
(* hold.  The instructions whose bodies the source has are modelled; of      *)
(* numbers, PICK, ROLL and CHECKMULTISIG it has only fragments.              *)
EXTENDS Integers, FiniteSets, Sequences

CONSTANTS
    Programs,   \* [stack, instructions, length]: where evaluations start, what they read
    Canonical,  \* signatures that IsCanonicalSignature accepts
    MaxOps, MaxStack, MaxElement    \* the limits: 201, 1000 and MAX_SCRIPT_ELEMENT_SIZE

VARIABLES
    program,
    script,     \* the instructions read so far, [name, data]
    m,          \* stack, altstack, vfExec, pbegincodehash and nOpCount
    state,      \* "running", "failed" or "succeeded"
    fStrict,    \* fStrictEncodings
    was,        \* ghost: the stack before the last instruction
    chosen      \* ghost: for each instruction, the condition it found, if it was an IF

vars == <<program, script, m, state, fStrict, was, chosen>>

Disabled == {"OP_CAT", "OP_INVERT", "OP_MUL"}       \* three of fifteen
Pushes == {"push"}                                  \* up to OP_PUSHDATA4
Uncounted == Pushes \cup {"OP_RESERVED"}            \* up to OP_16
Conditional == {"OP_IF", "OP_NOTIF", "OP_ELSE", "OP_ENDIF"}

vchTrue == <<1>>
vchFalse == << >>
Truth(b) == IF b THEN vchTrue ELSE vchFalse
CastToBool(v) == \E i \in DOMAIN v : v[i] # 0 /\ ~(i = Len(v) /\ v[i] = 128)
Hash(v) == <<200>> \o v     \* of any kind

-----------------------------------------------------------------------------
(* Stacks *)

stacktop(s, i) == s[Len(s) + 1 + i]
Pop(s, k) == SubSeq(s, 1, Len(s) - k)
Swap(s, i, j) ==
    [s EXCEPT ![Len(s) + 1 + i] = stacktop(s, j), ![Len(s) + 1 + j] = stacktop(s, i)]
\* stack.erase of the items from end + i to before end + j
Erase(s, i, j) == Pop(s, -i) \o SubSeq(s, Len(s) + j + 1, Len(s))

\* The items that an instruction asks for
Needs == [OP_2DROP |-> 2, OP_2DUP |-> 2, OP_3DUP |-> 3, OP_2OVER |-> 4, OP_2ROT |-> 6,
          OP_2SWAP |-> 4, OP_IFDUP |-> 1, OP_DROP |-> 1, OP_DUP |-> 1, OP_NIP |-> 2,
          OP_OVER |-> 2, OP_ROT |-> 3, OP_SWAP |-> 2, OP_TUCK |-> 2]
StackOps == DOMAIN Needs

\* Mutant of Rotated: the two exchanges of OP_ROT are in the other order.
RotatedBack(s) == Swap(Swap(s, -2, -1), -3, -2)
Rotated(s) == Swap(Swap(s, -3, -2), -2, -1)

Moved(name, s) ==
    CASE name = "OP_2DROP" -> Pop(s, 2)
      [] name = "OP_2DUP" -> s \o <<stacktop(s, -2), stacktop(s, -1)>>
      [] name = "OP_3DUP" -> s \o <<stacktop(s, -3), stacktop(s, -2), stacktop(s, -1)>>
      [] name = "OP_2OVER" -> s \o <<stacktop(s, -4), stacktop(s, -3)>>
      [] name = "OP_2ROT" -> Erase(s, -6, -4) \o <<stacktop(s, -6), stacktop(s, -5)>>
      [] name = "OP_2SWAP" -> Swap(Swap(s, -4, -2), -3, -1)
      [] name = "OP_IFDUP" ->
             IF CastToBool(stacktop(s, -1)) THEN Append(s, stacktop(s, -1)) ELSE s
      [] name = "OP_DROP" -> Pop(s, 1)
      [] name = "OP_DUP" -> Append(s, stacktop(s, -1))
      [] name = "OP_NIP" -> Erase(s, -2, -1)
      [] name = "OP_OVER" -> Append(s, stacktop(s, -2))
      [] name = "OP_ROT" -> Rotated(s)
      [] name = "OP_SWAP" -> Swap(s, -2, -1)
      [] name = "OP_TUCK" ->
             Pop(s, 2) \o <<stacktop(s, -1), stacktop(s, -2), stacktop(s, -1)>>

-----------------------------------------------------------------------------
(* What an instruction may lead to: machines, or a failure *)

Failed == [failed |-> TRUE]
With(k, outcomes) == IF Len(m.stack) < k THEN {Failed} ELSE outcomes
Kept(s) == [m EXCEPT !.stack = s]

\* Mutant of fExec: only the innermost branch is looked at.
fExecInnermost == m.vfExec # << >> => m.vfExec[Len(m.vfExec)]
\* !count(vfExec.begin(), vfExec.end(), false)
fExec == \A i \in DOMAIN m.vfExec : m.vfExec[i]

\* The condition of an IF, which takes it from the stack when it is executed
fValue(name) == fExec /\ (CastToBool(stacktop(m.stack, -1)) <=> name = "OP_IF")

Branch(name) ==
    CASE name \in {"OP_IF", "OP_NOTIF"} ->
             With(IF fExec THEN 1 ELSE 0,
                  {[m EXCEPT !.vfExec = Append(@, fValue(name)),
                             !.stack = IF fExec THEN Pop(@, 1) ELSE @]})
      [] m.vfExec = << >> -> {Failed}
      [] name = "OP_ELSE" -> {[m EXCEPT !.vfExec[Len(m.vfExec)] = ~@]}
      [] name = "OP_ENDIF" -> {[m EXCEPT !.vfExec = Pop(@, 1)]}

\* OP_EQUAL, OP_CHECKSIG and their VERIFY forms: the answer replaces two items.
Answered(b, verify) ==
    IF verify THEN IF b THEN Kept(Pop(m.stack, 2)) ELSE Failed
    ELSE Kept(Append(Pop(m.stack, 2), Truth(b)))

\* CheckSig may accept a signature that is canonical, or any when that is not asked.
Signed(vchSig) == IF fStrict => vchSig \in Canonical THEN BOOLEAN ELSE {FALSE}

Executed(op) ==
    CASE op.name \in Pushes -> {Kept(Append(m.stack, op.data))}
      [] op.name = "OP_NOP" -> {m}
      [] op.name \in Conditional -> Branch(op.name)
      [] op.name = "OP_VERIFY" ->
             With(1, {IF CastToBool(stacktop(m.stack, -1)) THEN Kept(Pop(m.stack, 1)) ELSE Failed})
      [] op.name = "OP_TOALTSTACK" ->
             With(1, {[m EXCEPT !.altstack = Append(@, stacktop(m.stack, -1)),
                                !.stack = Pop(@, 1)]})
      [] op.name = "OP_FROMALTSTACK" ->
             IF m.altstack = << >> THEN {Failed}
             ELSE {[m EXCEPT !.stack = Append(@, stacktop(m.altstack, -1)),
                             !.altstack = Pop(@, 1)]}
      [] op.name \in StackOps -> With(Needs[op.name], {Kept(Moved(op.name, m.stack))})
      [] op.name \in {"OP_EQUAL", "OP_EQUALVERIFY"} ->
             With(2, {Answered(stacktop(m.stack, -2) = stacktop(m.stack, -1),
                               op.name = "OP_EQUALVERIFY")})
      [] op.name = "OP_HASH160" ->
             With(1, {Kept(Append(Pop(m.stack, 1), Hash(stacktop(m.stack, -1))))})
      [] op.name = "OP_CODESEPARATOR" -> {[m EXCEPT !.pbegincodehash = Len(script) + 1]}
      [] op.name \in {"OP_CHECKSIG", "OP_CHECKSIGVERIFY"} ->
             With(2, {Answered(b, op.name = "OP_CHECKSIGVERIFY") :
                      b \in Signed(stacktop(m.stack, -2))})
      [] OTHER -> {Failed}      \* OP_RETURN, OP_RESERVED, invalid opcodes

\* Mutant of Counted: only what is executed is counted.
CountedExecuted(op) == op.name \notin Uncounted /\ fExec
\* opcode > OP_16 && ++nOpCount
Counted(op) == op.name \notin Uncounted

\* Too long, one too many or disabled, executed or not
Refused(op) ==
    \/ Len(op.data) > MaxElement
    \/ Counted(op) /\ m.nOpCount + 1 > MaxOps
    \/ op.name \in Disabled
Outcomes(op) ==
    IF Refused(op) THEN {Failed}
    ELSE IF fExec \/ op.name \in Conditional THEN Executed(op)
    ELSE {m}

TooMany(r) == Len(r.stack) + Len(r.altstack) > MaxStack

-----------------------------------------------------------------------------

Init ==
    /\ program \in Programs
    /\ script = << >>
    /\ m = [stack |-> program.stack, altstack |-> << >>, vfExec |-> << >>,
            pbegincodehash |-> 0, nOpCount |-> 0]
    /\ state = "running"
    /\ fStrict \in BOOLEAN
    /\ was = << >> /\ chosen = << >>

Instruction(op) ==
    /\ state = "running" /\ Len(script) < program.length
    /\ script' = Append(script, op)
    /\ was' = m.stack
    /\ chosen' = Append(chosen, /\ op.name \in {"OP_IF", "OP_NOTIF"} /\ m.stack # << >>
                                /\ CastToBool(stacktop(m.stack, -1)) <=> op.name = "OP_IF")
    /\ \E r \in Outcomes(op) :
         IF r = Failed \/ TooMany(r) THEN state' = "failed" /\ UNCHANGED m
         ELSE /\ m' = [r EXCEPT !.nOpCount = @ + IF Counted(op) THEN 1 ELSE 0]
              /\ UNCHANGED state
    /\ UNCHANGED <<program, fStrict>>

\* The script ends.
Finish ==
    /\ state = "running"
    /\ state' = IF m.vfExec = << >> THEN "succeeded" ELSE "failed"
    /\ UNCHANGED <<program, script, m, fStrict, was, chosen>>

Next == (\E op \in program.instructions : Instruction(op)) \/ Finish

Spec == Init /\ [][Next]_vars

-----------------------------------------------------------------------------
(* Properties *)

Named(names) == {p \in DOMAIN script : script[p].name \in names}
Ifs == Named({"OP_IF", "OP_NOTIF"})

\* How deep an instruction is in the IFs before it
Depth(p) == Cardinality({i \in Ifs : i < p}) - Cardinality({i \in Named({"OP_ENDIF"}) : i < p})
\* The IFs that an instruction is in
Around(p) == {i \in Ifs : i < p /\ \A j \in (i + 1)..p : Depth(j) > Depth(i)}
\* Reference: an instruction is to be executed when each IF around it chose its side.
Reached(p) == \A i \in Around(p) :
    LET elses == {j \in Named({"OP_ELSE"}) : i < j /\ j < p /\ i \in Around(j)
                                             /\ Depth(j) = Depth(i) + 1}
    IN  chosen[i] <=> Cardinality(elses) % 2 = 0

\* EvalScript: what is executed follows from the nesting of the branches and their
\* conditions, what is not leaves no trace, and a script that succeeds has them closed.
BranchesNest ==
    LET last == Len(script) IN
    /\ state = "running" /\ last > 0 /\ ~Reached(last) => m.stack = was
    /\ state = "running" => (fExec <=> Reached(last + 1))
    /\ state = "succeeded" => Depth(last + 1) = 0
    /\ state # "failed" => m.pbegincodehash \in {0} \cup Named({"OP_CODESEPARATOR"})
    /\ state # "failed" => \A p \in Named({"OP_CODESEPARATOR"}) :
                               Reached(p) => p <= m.pbegincodehash

\* The pictures in the comments of EvalScript: of the items an instruction asks for,
\* from the deepest on, what it leaves
Picture == [OP_2DROP |-> << >>, OP_2DUP |-> <<1, 2, 1, 2>>, OP_3DUP |-> <<1, 2, 3, 1, 2, 3>>,
            OP_2OVER |-> <<1, 2, 3, 4, 1, 2>>, OP_2ROT |-> <<3, 4, 5, 6, 1, 2>>,
            OP_2SWAP |-> <<3, 4, 1, 2>>, OP_DROP |-> << >>, OP_DUP |-> <<1, 1>>,
            OP_NIP |-> <<2>>, OP_OVER |-> <<1, 2, 1>>, OP_ROT |-> <<2, 3, 1>>,
            OP_SWAP |-> <<2, 1>>, OP_TUCK |-> <<2, 1, 2>>]
PicturesKept ==
    LET last == Len(script)
        name == script[last].name
        items == Pop(was, Needs[name])
    IN  state = "running" /\ last > 0 /\ name \in DOMAIN Picture /\ Reached(last) =>
            m.stack = items \o [k \in DOMAIN Picture[name] |->
                                    was[Len(items) + Picture[name][k]]]

\* The limits hold for what is not executed, too, and after every instruction.
LimitsKept ==
    state # "failed" =>
        /\ Cardinality(DOMAIN script \ Named(Uncounted)) <= MaxOps
        /\ Len(m.stack) + Len(m.altstack) <= MaxStack
        /\ \A p \in DOMAIN script : Len(script[p].data) <= MaxElement

EvaluatedRight == BranchesNest /\ PicturesKept /\ LimitsKept
=============================================================================
