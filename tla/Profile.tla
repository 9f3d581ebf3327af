-------------------------------- MODULE Profile --------------------------------
(***************************************************************************)
(* VM::profile (triton-vm/src/vm.rs) and the profiler it drives            *)
(* (execution_trace_profiler.rs).  The profiler keeps a span per call and  *)
(* table heights of its own, from the same co-processor calls the trace is *)
(* recorded from; here the two run side by side.                           *)
(*                                                                         *)
(* A label stands for the address it names.                                *)
(***************************************************************************)
EXTENDS HashTables

LOCAL S == INSTANCE SequencesExt

VARIABLES
    call_stack,         \* the lines of the open spans, outermost first
    profile,            \* one line per call
    table_heights,      \* VMTableHeights
    u32_table_entries

profileVars == <<hashVars, call_stack, profile, table_heights, u32_table_entries>>

NoHeights == [processor |-> 0, op_stack |-> 0, ram |-> 0, hash |-> 0, u32 |-> 0]

\* VMTableHeights::new.
InitialHeights ==
    [NoHeights EXCEPT !.hash = (PaddedProgramLength(program) \div Rate) * (NumRounds + 1)]

ProfileInit ==
    /\ HashTraceInit
    /\ call_stack = <<>> /\ profile = <<>>
    /\ table_heights = InitialHeights
    /\ u32_table_entries = {}

EnterSpan(lines) ==
    Append(lines, [label |-> Arg, call_depth |-> Len(call_stack),
                   table_heights_start |-> table_heights, table_heights_stop |-> NoHeights])

HandleCoProcessorCalls(heights, entries) ==
    [heights EXCEPT
        !.processor = @ + 1,
        !.hash = @ + S!FoldLeft(LAMBDA sum, c :
                     sum + (IF c.ci = "sponge_init" THEN 1 ELSE NumRounds + 1), 0, tip5_calls'),
        !.u32 = S!MapThenSumSet(TableHeightContribution, entries),
        !.op_stack = @ + Len(FromUnderflowIoSequence(cycle_count, Len(op_stack'), underflow_io')),
        !.ram = @ + Len(ram_calls')]

ExitsSpanOnReturn == CurrentInstruction.op = "return"  \* wrong: recurse_or_return also does
ExitsSpan == Len(jump_stack') < Len(jump_stack)

\* One iteration of the loop.  When the step fails, the profile is dropped.
ProfileStep ==
    LET calling == InBounds(instruction_pointer) /\ CurrentInstruction.op = "call"
        lines == IF calling THEN EnterSpan(profile) ELSE profile
        spans == IF calling THEN Append(call_stack, Len(lines)) ELSE call_stack
        entries == u32_table_entries \cup S!Range(u32_calls')
        heights == HandleCoProcessorCalls(table_heights, entries)
        exiting == ExitsSpan /\ spans # <<>>
    IN  /\ table_heights' = heights
        /\ u32_table_entries' = entries
        /\ call_stack' = IF exiting THEN S!Front(spans) ELSE spans
        /\ profile' = IF exiting
                      THEN [lines EXCEPT ![S!Last(spans)].table_heights_stop = heights]
                      ELSE lines

ProfileNext ==
    /\ HashTraceNext
    /\ IF error' = NoError THEN ProfileStep
       ELSE UNCHANGED <<call_stack, profile, table_heights, u32_table_entries>>

\* finish(): the spans that are open when the machine halts end with it.
FinishedProfile ==
    [n \in DOMAIN profile |->
        IF n \in S!Range(call_stack)
        THEN [profile[n] EXCEPT !.table_heights_stop = table_heights] ELSE profile[n]]

\* The heights a span is reported to contribute; saturating in the code.
TableHeightContributions(line) ==
    [table \in DOMAIN NoHeights |->
        S!Max({0, line.table_heights_stop[table] - line.table_heights_start[table]})]

\* The lines of the report: spans of the same label and depth are added up.
ReportLine(key) ==
    LET lines == {n \in DOMAIN profile : <<profile[n].label, profile[n].call_depth>> = key}
    IN  [table \in DOMAIN NoHeights |-> S!MapThenSumSet(
            LAMBDA n : TableHeightContributions(FinishedProfile[n])[table], lines)]

ProfileSpec == ProfileInit /\ [][ProfileNext]_profileVars
------------------------------------------------------------------------------
(***************************************************************************)
(* The heights the profiler adds up by itself are those of the tables the  *)
(* trace is proved with, at every point of the execution, although entries *)
(* of the u32 table are shared and cancelling op stack accesses are        *)
(* dropped on other paths of the code.                                     *)
(***************************************************************************)
ProfileTotalsAreTableHeights ==
    error = NoError =>
        table_heights = [processor |-> Len(processor_trace),
                         op_stack |-> Len(op_stack_underflow_trace),
                         ram |-> Len(ram_trace), hash |-> HashTableHeight,
                         u32 |-> U32TableHeight]

(***************************************************************************)
(* profile() opens a span when it meets a call, before the step, and       *)
(* closes one whenever the jump stack has become shorter.  The span of a   *)
(* call is exactly the rows of the processor table from the call to the    *)
(* last instruction of the subroutine, nested like the jump stack, through *)
(* recursion, skipped calls and returns of either kind.  Rows of the same  *)
(* depth belong to one span of the report, so that the lines of depth 0    *)
(* never report more cycles than the execution had.                        *)
(***************************************************************************)
SpansCoverTheirCalls ==
    error = NoError =>
        LET row(k) == processor_trace[k]
            spans == FinishedProfile
            jsp(k) == IF k <= Len(processor_trace) THEN row(k).jsp ELSE Len(jump_stack)
            keys == {<<spans[n].label, spans[n].call_depth>> : n \in DOMAIN spans}
        IN  /\ Len(call_stack) = Len(jump_stack)
            /\ \A d \in DOMAIN call_stack :
                   /\ spans[call_stack[d]].label = jump_stack[d].destination
                   /\ spans[call_stack[d]].call_depth = d - 1
            /\ \A n \in DOMAIN spans :
                   LET start == spans[n].table_heights_start.processor + 1
                       stop == spans[n].table_heights_stop.processor
                   IN  /\ row(start).ci = Opcode["call"] /\ row(start).nia = spans[n].label
                       /\ row(start).jsp = spans[n].call_depth
                       /\ \A k \in (start + 1) .. stop : jsp(k) > spans[n].call_depth
                       /\ n \notin S!Range(call_stack) => jsp(stop + 1) = spans[n].call_depth
            /\ S!MapThenSumSet(LAMBDA key : ReportLine(key).processor,
                               {key \in keys : key[2] = 0}) <= Len(processor_trace)

(***************************************************************************)
(* The report of the execution trace profiler is true to the trace: its    *)
(* heights, and its spans.                                                 *)
(***************************************************************************)
ReportMatchesTrace == ProfileTotalsAreTableHeights /\ SpansCoverTheirCalls
==============================================================================
