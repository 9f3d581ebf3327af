------------------------------- MODULE VMTypes -------------------------------
(***************************************************************************)
(* What holds of every state and every step of the virtual machine,        *)
(* whatever program it runs.                                               *)
(***************************************************************************)
EXTENDS VM

(***************************************************************************)
(* The ranges the functions of TwentyFirst keep.  What is proved about the *)
(* types of the virtual machine rests on them.                             *)
(***************************************************************************)
ArithmeticRanges ==
    /\ \A a \in Field \ {0} : InverseOf(a) \in Field
    /\ \A a \in Field, e \in Word : ModPow(a, e) \in Field
    /\ \A a, b \in Word : BitAnd(a, b) \in Word /\ BitXor(a, b) \in Word
    /\ \A a \in Word \ {0} : Ilog2(a) \in Word
    /\ \A a \in Word : CountOnes(a) \in Word
    /\ \A a, b \in XField : XMul(a, b) \in XField
    /\ \A a \in XField \ {XZero} : XInverse(a) \in XField

HashRanges == \A s \in SpongeState : Tip5(s) \in SpongeState

ASSUME ExternalRanges == ArithmeticRanges /\ HashRanges

(***************************************************************************)
(* What inverses and the product with a base field element are.  The       *)
(* types do not rest on it; that the constraints of the instructions which *)
(* compute them hold, does.                                                *)
(***************************************************************************)
ASSUME ArithmeticLaws ==
    /\ \A a \in Field \ {0} : Times(InverseOf(a), a) = 1
    /\ \A a \in XField \ {XZero} : XMul(a, XInverse(a)) = Lift(1)
    /\ \A b \in Field, a \in XField :
           XMul(Lift(b), a) = [k \in 1 .. ExtensionDegree |-> Times(a[k], b)]

\* The constraint of x_invert, that a product is 1, leaves one value for the inverse.
ASSUME UniqueInverses ==
    \A a, b \in XField : XMul(a, b) = Lift(1) => b = XInverse(a)

(***************************************************************************)
(* The type invariant of VMState.  The one part that is not a type: no     *)
(* instruction leaves fewer than NumRegisters elements on the op stack,    *)
(* although several have fewer while they run.  to_processor_row panics on *)
(* a shallower stack.                                                      *)
(***************************************************************************)
VMTypeOK ==
    /\ program \in Programs
    /\ public_input \in Seq(Field)
    /\ public_output \in Seq(Field)
    /\ secret_individual_tokens \in Seq(Field)
    /\ secret_digests \in Seq(Digest)
    /\ ram \in Ram
    /\ op_stack \in Seq(Field)
    /\ Len(op_stack) >= NumRegisters
    /\ jump_stack \in Seq([origin : Field, destination : Field])
    /\ cycle_count \in 0 .. MaxCycles
    /\ instruction_pointer \in Nat
    /\ sponge \in SpongeState \cup {NoSponge}
    /\ halting \in BOOLEAN
    /\ underflow_io \in Seq(UnderflowIO)
    /\ ram_calls \in Seq(RamTableCall)
    /\ tip5_calls \in Seq(Tip5Call)
    /\ u32_calls \in Seq(U32TableEntry)
    /\ error \in Errors \cup {NoError}

(***************************************************************************)
(* Instruction::op_stack_size_influence is a table kept apart from the     *)
(* code that executes the instructions, and the only thing step() consults *)
(* to decide whether the stack is deep enough.  It is right: a step that   *)
(* completes changes the depth by what the table says.                     *)
(***************************************************************************)
StepHasDeclaredInfluence ==
    [][cycle_count' = cycle_count + 1 =>
           Len(op_stack') = Len(op_stack) + OpStackSizeInfluence(CurrentInstruction)]_vmVars

(***************************************************************************)
(* A failing step hands out the state it failed on.  An instruction that   *)
(* has checked its operands changes nothing before it fails; skiz is the   *)
(* one that does, and it loses exactly the condition.                      *)
(***************************************************************************)
FailureKeepsState ==
    [][error' # error =>
           /\ UNCHANGED <<program, io, memory, cycle_count, instruction_pointer, halting>>
           /\ \/ op_stack' = op_stack
              \/ /\ InBounds(instruction_pointer) /\ CurrentInstruction.op = "skiz"
                 /\ op_stack' = Below(1)
                 /\ St(0) = 0]_vmVars
------------------------------------------------------------------------------
(* Control flow stays on instruction boundaries. *)

(***************************************************************************)
(* `starts` are the addresses at which an instruction of `p` begins, and   *)
(* the address right behind the program.  The address of an argument is    *)
(* not among them.                                                         *)
(***************************************************************************)
AreStarts(p, starts) ==
    /\ 0 \in starts
    /\ \A k \in starts : k < Len(p) =>
           /\ k + Size(p[k + 1]) \in starts
           /\ HasArg(p[k + 1]) => k + 1 \notin starts /\ p[k + 2] = p[k + 1]

Starts ==
    [p \in Programs |->
        CHOOSE starts \in SUBSET (0 .. Len(p)) : AreStarts(p, starts)]

\* What the parser guarantees by turning labels into addresses.
TargetsAreStarts(p) ==
    /\ \E starts \in SUBSET (0 .. Len(p)) : AreStarts(p, starts)
    /\ \A k \in 1 .. Len(p) : p[k].op = "call" => p[k].arg \in Starts[p]

(***************************************************************************)
(* In a program whose calls target instructions, the instruction pointer   *)
(* never comes to rest on an argument: skiz skips double-word instructions *)
(* whole, and return addresses lie behind the call's argument.             *)
(***************************************************************************)
AtInstructionStart ==
    TargetsAreStarts(program) =>
        /\ instruction_pointer \in Starts[program]
        /\ \A k \in DOMAIN jump_stack :
               /\ jump_stack[k].origin \in Starts[program]
               /\ jump_stack[k].destination \in Starts[program]
------------------------------------------------------------------------------
(* Termination. *)

\* No recursion, and every call jumps forward.
CallsForward(p) ==
    \A k \in 1 .. Len(p) :
        /\ p[k].op \notin {"recurse", "recurse_or_return"}
        /\ p[k].op = "call" => p[k].arg >= k

\* VM::run and VM::trace_execution step the machine until it halts or fails.
VMFairness == WF_vmVars(Step)

(***************************************************************************)
(* The loop over step() ends for a program without recursion whose calls   *)
(* go forward, even though `return` jumps back and a call site may be      *)
(* passed once per open call.                                              *)
(***************************************************************************)
ForwardProgramsStop == CallsForward(program) => <>(halting \/ error # NoError)
==============================================================================
