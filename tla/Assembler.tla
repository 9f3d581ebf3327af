------------------------------ MODULE Assembler ------------------------------
(***************************************************************************)
(* From source code to a program and back (triton-isa/src/parser.rs,       *)
(* program.rs): the parser and its checks, label resolution and debug      *)
(* information, printing, and the encoding of a program as field elements. *)
(*                                                                         *)
(* Source code is a sequence of lexemes, told apart by their fields:       *)
(*   [op, arg]       an instruction whose argument is written as a number, *)
(*                   arg 0 for one without argument                        *)
(*   [op, literal]   push and addi, literal = [negative, digits]           *)
(*   [op, label]     call                                                  *)
(*   [declares]      "label:"                                              *)
(*   [break]         "break"                                               *)
(*   [hint, from, to], "hint name = stack[from..to]", to = NoEnd if absent *)
(*   [error_id]      the context of the assertion before it                *)
(* A label is [stem, number], "main" being [stem |-> "main", number |->    *)
(* NoNumber] and "address_3" [stem |-> "address_", number |-> 3].  White   *)
(* space, comments and the characters of names are left out.               *)
(*                                                                         *)
(* A LabelledInstruction is the same with push and addi as [op, arg], and  *)
(* with [type_hint] for a hint whose range has become a length.            *)
(***************************************************************************)
EXTENDS Isa

LOCAL S == INSTANCE SequencesExt
LOCAL F == INSTANCE Functions

CONSTANTS
    Sources,        \* source code to assemble
    WordSequences,  \* sequences of field elements to decode
    DisplayCutoff   \* how close to 0 an element prints as a negative number,
                    \* 256 in twenty-first

VARIABLES stage, code, words, program
assemblerVars == <<stage, code, words, program>>

NoNumber == -1
NoEnd == -1
IsInstruction(t) == "op" \in DOMAIN t
IsCall(t) == "label" \in DOMAIN t
Declares(t) == "declares" \in DOMAIN t
IsContext(t) == "error_id" \in DOMAIN t
IsAssertion(t) == IsInstruction(t) /\ t.op \in {"assert", "assert_vector"}
------------------------------------------------------------------------------
(* Tokens. *)

KEYWORDS == {"hint", "error_id", "error_message"}
IsIllegalLabel(label) ==
    /\ label.number = NoNumber
    /\ label.stem \in DOMAIN Opcode \cup KEYWORDS

\* number_of_words, stack_register, field_element.
IsNumberOfWords(n) == n \in 1 .. MaxNumWords
IsStackRegister(n) == n \in Register
IsFieldElement(literal) == literal.digits < P
FieldElement(literal) == (IF literal.negative THEN -literal.digits ELSE literal.digits) % P
\* How BFieldElement is displayed.
Literal(x) == IF x >= P - DisplayCutoff THEN [negative |-> TRUE, digits |-> P - x]
              ELSE [negative |-> FALSE, digits |-> x]

\* The parsers of the instructions with an operand: its kind and range.
HasLegalOperand(t) ==
    \/ t.op \in NumWordsOps /\ IsNumberOfWords(t.arg)
    \/ t.op \in RegisterOps /\ IsStackRegister(t.arg)
    \/ t.op \in {"push", "addi"} /\ IsFieldElement(t.literal)
    \/ t.op = "call" /\ ~IsIllegalLabel(t.label)
IsAnInstruction(t) == t.op \in SingleWordOps \/ HasLegalOperand(t)

\* The lexeme is one of the alternatives of tokenize().
IsToken(t) ==
    /\ IsInstruction(t) => IsAnInstruction(t)
    /\ Declares(t) => ~IsIllegalLabel(t.declares)
    /\ "hint" \in DOMAIN t => t.to = NoEnd \/ t.to > t.from

TypeHint(t) ==
    [starting_index |-> t.from, variable_name |-> t.hint,
     length |-> IF t.to = NoEnd THEN 1 ELSE t.to - t.from]
ToLabelledInstruction(t) ==
    IF "literal" \in DOMAIN t THEN [op |-> t.op, arg |-> FieldElement(t.literal)]
    ELSE IF "hint" \in DOMAIN t THEN [type_hint |-> TypeHint(t)]
    ELSE t
------------------------------------------------------------------------------
(* The checks of parse(). *)

LabelsOf(ts) == [k \in {i \in DOMAIN ts : Declares(ts[i])} |-> ts[k].declares]

\* ensure_no_missing_or_duplicate_labels.
LabelsAreUnique(ts) == F!IsInjective(LabelsOf(ts))
LabelsAreDeclared(ts) ==
    \A k \in DOMAIN ts : IsCall(ts[k]) => ts[k].label \in F!Range(LabelsOf(ts))

\* ensure_assertion_context_is_matched_with_assertion.
ContextsFollowAssertions(ts) ==
    \A k \in DOMAIN ts : IsContext(ts[k]) => k > 1 /\ IsAssertion(ts[k - 1])

Parses(source) ==
    /\ \A k \in DOMAIN source : IsToken(source[k])
    /\ LabelsAreUnique(source)
    /\ LabelsAreDeclared(source)
    /\ ContextsFollowAssertions(source)
------------------------------------------------------------------------------
(* Program::new. *)

WordsOf(t) == IF IsInstruction(t) THEN Size(t) ELSE 0
\* The address reached before the k-th of `ts`.
AddressBefore(ts, k) == S!FoldLeft(LAMBDA sum, t : sum + WordsOf(t), 0, SubSeq(ts, 1, k - 1))

BuildLabelToAddressMapByLine(ts) ==  \* wrong: counts instructions, not words
    LET instructions(k) == {i \in 1 .. k : IsInstruction(ts[i])}
        position(label) == CHOOSE k \in DOMAIN LabelsOf(ts) : LabelsOf(ts)[k] = label
    IN  [label \in F!Range(LabelsOf(ts)) |->
            S!Cardinality(instructions(position(label)))]
BuildLabelToAddressMap(ts) ==
    LET position(label) == CHOOSE k \in DOMAIN LabelsOf(ts) : LabelsOf(ts)[k] = label
    IN  [label \in F!Range(LabelsOf(ts)) |-> AddressBefore(ts, position(label))]

\* `f` of every instruction, at each of its words.
PerWord(ts, f(_)) ==
    S!FoldLeft(LAMBDA all, k : all \o [n \in 1 .. WordsOf(ts[k]) |-> f(k)],
               <<>>, [k \in DOMAIN ts |-> k])

TurnLabelsIntoAddresses(ts, address) ==
    PerWord(ts, LAMBDA k :
        IF IsCall(ts[k]) THEN [op |-> "call", arg |-> address[ts[k].label]] ELSE ts[k])

\* A hash map keeps any one of the labels of an address.
FlipMap(address) == {m \in [F!Range(address) -> DOMAIN address] :
                        \A a \in DOMAIN m : address[m[a]] = a}

\* A breakpoint applies to the next instruction, whatever stands in between.
Breakpoints(ts) ==
    PerWord(ts, LAMBDA k : \E b \in 1 .. (k - 1) :
        "break" \in DOMAIN ts[b] /\ \A i \in (b + 1) .. (k - 1) : ~IsInstruction(ts[i]))

TypeHints(ts) ==
    LET hints == {k \in DOMAIN ts : "type_hint" \in DOMAIN ts[k]}
        at(a) == SelectSeq([k \in DOMAIN ts |-> k],
                           LAMBDA k : k \in hints /\ AddressBefore(ts, k) = a)
    IN  [a \in {AddressBefore(ts, k) : k \in hints} |->
            [i \in DOMAIN at(a) |-> ts[at(a)[i]].type_hint]]

\* The address of the assertion; the last context of an address stays.
AddressOfAssertion(ts, k) ==
    IF AddressBefore(ts, k) = 0 THEN 0 ELSE AddressBefore(ts, k) - 1
AssertionContexts(ts) ==
    LET contexts == {k \in DOMAIN ts : IsContext(ts[k])}
        last(a) == S!Max({k \in contexts : AddressOfAssertion(ts, k) = a})
    IN  [a \in {AddressOfAssertion(ts, k) : k \in contexts} |-> ts[last(a)].error_id]

\* The programs `ts` may become.
Programs(ts) ==
    LET address == BuildLabelToAddressMap(ts)
    IN  {[instructions |-> TurnLabelsIntoAddresses(ts, address),
          address_to_label |-> labels, breakpoints |-> Breakpoints(ts),
          type_hints |-> TypeHints(ts), assertion_context |-> AssertionContexts(ts)] :
            labels \in FlipMap(address)}

FromCode(source) == Programs([k \in DOMAIN source |-> ToLabelledInstruction(source[k])])
------------------------------------------------------------------------------
(* Printing. *)

CallTargets(p) == {i.arg : i \in {j \in F!Range(p.instructions) : j.op = "call"}}

LabelForAddress(p, a) ==
    IF a \in DOMAIN p.address_to_label THEN p.address_to_label[a]
    ELSE [stem |-> "address_", number |-> a]

\* The addresses InstructionIter visits, in order.
InstructionIter(p) ==
    LET from[a \in 0 .. (Len(p.instructions) + 1)] ==
            IF a >= Len(p.instructions) THEN <<>>
            ELSE <<a>> \o from[a + Size(p.instructions[a + 1])]
    IN  from[0]

DisplayedHint(h) ==
    [hint |-> h.variable_name, from |-> h.starting_index,
     to |-> IF h.length = 1 THEN NoEnd ELSE h.starting_index + h.length]
Displayed(p, i) ==
    CASE i.op = "call" -> [op |-> "call", label |-> LabelForAddress(p, i.arg)]
      [] i.op \in {"push", "addi"} -> [op |-> i.op, literal |-> Literal(i.arg)]
      [] OTHER -> i

LinesAt(p, a) ==
    LET list(condition, line) == IF condition THEN <<line>> ELSE <<>>
        hints == IF a \in DOMAIN p.type_hints THEN p.type_hints[a] ELSE <<>>
    IN  list(a \in CallTargets(p), [declares |-> LabelForAddress(p, a)])
            \o [k \in DOMAIN hints |-> DisplayedHint(hints[k])]
            \o list(a < Len(p.breakpoints) /\ p.breakpoints[a + 1], [break |-> TRUE])
            \o <<Displayed(p, p.instructions[a + 1])>>
            \o (IF a \in DOMAIN p.assertion_context
                THEN <<[error_id |-> p.assertion_context[a]]>> ELSE <<>>)

\* The label behind the last instruction, which no address follows.
LeftoverLabels(p) ==
    IF Len(p.instructions) \in DOMAIN p.address_to_label
    THEN <<[declares |-> p.address_to_label[Len(p.instructions)]]>> ELSE <<>>

LabelledInstructionsWithoutLeftover(p) ==  \* wrong: forgets the labels at the end
    S!FlattenSeq([k \in DOMAIN InstructionIter(p) |-> LinesAt(p, InstructionIter(p)[k])])
LabelledInstructions(p) ==
    S!FlattenSeq([k \in DOMAIN InstructionIter(p) |-> LinesAt(p, InstructionIter(p)[k])])
        \o LeftoverLabels(p)
------------------------------------------------------------------------------
(* Encoding. *)

ToBwords(p) ==
    S!FlattenSeq([k \in DOMAIN InstructionIter(p) |->
        LET i == p.instructions[InstructionIter(p)[k] + 1]
        IN  IF HasArg(i) THEN <<Opcode[i.op], i.arg>> ELSE <<Opcode[i.op]>>])
Encode(p) == <<Len(p.instructions)>> \o ToBwords(p)

\* Instruction::try_from and change_arg.
IsOpcode(w) == w \in F!Range(Opcode)
OpOf(w) == CHOOSE op \in DOMAIN Opcode : Opcode[op] = w
CanChangeArg(op, w) ==
    /\ op \in NumWordsOps => IsNumberOfWords(w)
    /\ op \in RegisterOps => IsStackRegister(w)
    /\ op \in DoubleWordOps

NoError == "none"
(***************************************************************************)
(* The instructions read from `ws`, and the error that stopped reading.    *)
(* What has been read is as long as what has been consumed.                *)
(***************************************************************************)
DecodeStep(ws, read) ==
    LET n == Len(read.instructions)
        op == OpOf(ws[n + 1])
        extend(i) == [read EXCEPT !.instructions = @ \o [k \in 1 .. Size(i) |-> i]]
        fails(error) == [read EXCEPT !.error = error]
    IN  IF n >= Len(ws) \/ read.error # NoError THEN read
        ELSE IF ~IsOpcode(ws[n + 1]) THEN fails("InvalidInstruction")
        ELSE IF op \notin DoubleWordOps THEN extend([op |-> op, arg |-> 0])
        ELSE IF n + 2 > Len(ws) THEN fails("MissingArgument")
        ELSE IF ~CanChangeArg(op, ws[n + 2]) THEN fails("InvalidInstruction")
        ELSE extend([op |-> op, arg |-> ws[n + 2]])

DecodeInstructions(ws) ==
    S!FoldLeft(LAMBDA read, w : DecodeStep(ws, read),
               [instructions |-> <<>>, error |-> NoError], ws)

DecodingErrorWithoutTooLong(ws) ==  \* wrong: ignores what is behind the program
    IF ws = <<>> THEN "EmptySequence"
    ELSE IF Len(Tail(ws)) < ws[1] THEN "SequenceTooShort"
    ELSE DecodeInstructions(SubSeq(ws, 2, ws[1] + 1)).error
DecodingError(ws) ==
    IF ws = <<>> THEN "EmptySequence"
    ELSE IF Len(Tail(ws)) < ws[1] THEN "SequenceTooShort"
    ELSE IF Len(Tail(ws)) > ws[1] THEN "SequenceTooLong"
    ELSE DecodeInstructions(Tail(ws)).error

\* A decoded program has no labels and no debug information.
Decoded(instructions) ==
    [instructions |-> instructions, address_to_label |-> <<>>, breakpoints |-> <<>>,
     type_hints |-> <<>>, assertion_context |-> <<>>]
------------------------------------------------------------------------------
(***************************************************************************)
(* A program comes from source code or from words; whoever has a program   *)
(* may print it or encode it, and read back what he got.                   *)
(***************************************************************************)
NoProgram == Decoded(<<>>)

AssemblerInit ==
    /\ program = NoProgram
    /\ \/ stage = "code" /\ code \in Sources /\ words = <<>>
       \/ stage = "words" /\ code = <<>> /\ words \in WordSequences

Parse ==
    /\ stage = "code"
    /\ IF Parses(code) THEN stage' = "program" /\ program' \in FromCode(code)
                       ELSE stage' = "rejected" /\ UNCHANGED program
    /\ UNCHANGED <<code, words>>

Display ==
    /\ stage = "program"
    /\ stage' = "code" /\ code' = LabelledInstructions(program)
    /\ UNCHANGED <<words, program>>

EncodeProgram ==
    /\ stage = "program"
    /\ stage' = "words" /\ words' = Encode(program)
    /\ UNCHANGED <<code, program>>

Decode ==
    /\ stage = "words"
    /\ IF DecodingError(words) = NoError
       THEN /\ stage' = "program"
            /\ program' = Decoded(DecodeInstructions(Tail(words)).instructions)
       ELSE stage' = "rejected" /\ UNCHANGED program
    /\ UNCHANGED <<code, words>>

AssemblerNext == Parse \/ Display \/ EncodeProgram \/ Decode
AssemblerSpec == AssemblerInit /\ [][AssemblerNext]_assemblerVars
------------------------------------------------------------------------------
\* The addresses at which an instruction begins, and the one behind the program.
InstructionStarts(p) == F!Range(InstructionIter(p)) \cup {Len(p.instructions)}

(***************************************************************************)
(* Labels and debug information are kept by address, apart from the        *)
(* instructions they belong to, and match them.  Parsing puts every call   *)
(* target and every label on the first word of an instruction or behind    *)
(* the program, whatever double-word instructions, breakpoints and hints   *)
(* stand in between.  Assertion contexts sit on assertions, breakpoints on *)
(* both words of an instruction or none (Program::new asserts that the     *)
(* lengths are equal), type hints on instructions or behind the program.   *)
(***************************************************************************)
AddressesMatchInstructions ==
    stage = "program" =>
        LET p == program IN
        /\ words = <<>> =>
               /\ CallTargets(p) \cup DOMAIN p.address_to_label \subseteq InstructionStarts(p)
               /\ Len(p.breakpoints) = Len(p.instructions)
        /\ \A a \in DOMAIN p.assertion_context : IsAssertion(p.instructions[a + 1])
        /\ \A a \in F!Range(InstructionIter(p)) :
               a + 1 < Len(p.breakpoints) /\ HasArg(p.instructions[a + 1])
                   => p.breakpoints[a + 1] = p.breakpoints[a + 2]
        /\ DOMAIN p.type_hints \subseteq InstructionStarts(p)

(***************************************************************************)
(* The code a program prints assembles to a program with the same          *)
(* instructions that prints the same code, except that of a program which  *)
(* was decoded and calls what is not an instruction of it.                 *)
(***************************************************************************)
PrintedProgramsAssemble ==
    [][stage = "code" /\ program # NoProgram =>
           \/ /\ stage' = "program"
              /\ program'.instructions = program.instructions
              /\ LabelledInstructions(program') = code
           \/ /\ stage' = "rejected"
              /\ program.address_to_label = <<>>
              /\ ~(CallTargets(program) \subseteq F!Range(InstructionIter(program)))]_assemblerVars

(***************************************************************************)
(* Decoding an encoded program gives the program, and words that decode    *)
(* are what the program encodes to.  So the program table and the program  *)
(* digest, which read to_bwords(), see the words that were decoded, and no *)
(* two sequences of words decode to the same program.                      *)
(***************************************************************************)
EncodingIsFaithful ==
    [][stage = "words" =>
           /\ stage' = "program" => Encode(program') = words
           /\ program # NoProgram =>
                  /\ stage' = "program"
                  /\ program'.instructions = program.instructions]_assemblerVars
==============================================================================
