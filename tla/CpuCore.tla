------------------------------ MODULE CpuCore ------------------------------
(***************************************************************************)
(* One processor running a program alone: CpuState::trace_program and      *)
(* step_trace (src/src/cpu/trace.rs), which `--trace` and `--json` use.    *)
(* Every step_trace is one action, named for the kind of its trace event.  *)
(*                                                                         *)
(* A panic unwinds out of trace_program and the CPU is not looked at again:*)
(* the model keeps the state the CPU had before the step.                  *)
(***************************************************************************)
EXTENDS Cpu

CONSTANTS
    Programs,       \* the programs to run: sequences of bundles
    MaxCycle        \* bound of the explored cycles, for TLC

\* The bundles of a program fill the slots of the layout, and its length is a
\* usize.
ASSUME ProgramsAssumption ==
    /\ \A p \in Programs :
         /\ p \in Seq(Seq(Syllable))
         /\ Len(p) < WordMod
         /\ \A i \in DOMAIN p : Len(p[i]) = Len(Slots)
    /\ MaxCycle \in Nat

VARIABLES
    program,    \* the program that is running
    cpu,        \* CpuState
    panicked    \* an access outside the memory panicked

vars == <<program, cpu, panicked>>

TypeOK ==
    /\ program \in Programs
    /\ cpu \in CpuStates
    /\ panicked \in BOOLEAN

Init ==
    /\ program \in Programs
    /\ cpu = NewCpu
    /\ panicked = FALSE

-----------------------------------------------------------------------------

Running == ~panicked /\ ~Finished(cpu, program) /\ cpu.cycle < MaxCycle

Bundle == program[cpu.pc + 1]

\* The CPU after the first s slots, executed in order with the bounds check of
\* trace_memory_effect before each: up to one that panics or halts the CPU.
AfterSlot[s \in 0 .. Len(Bundle)] ==
    IF s = 0 THEN [cpu |-> Issuing(cpu), panicked |-> FALSE]
    ELSE LET before == AfterSlot[s - 1]
         IN  IF before.panicked \/ before.cpu.halted THEN before
             ELSE IF FaultsAt(before.cpu, Bundle[s]) THEN [before EXCEPT !.panicked = TRUE]
             ELSE [before EXCEPT !.cpu = ExecSyllable(@, Bundle[s])]

TracedExec == AfterSlot[Len(Bundle)]

IllegalBundle ==
    /\ Running
    /\ ~BundleIsLegal(cpu, Bundle)
    /\ cpu' = [cpu EXCEPT !.halted = TRUE]
    /\ UNCHANGED <<program, panicked>>

\* Faulty: a stall postpones the results that it waits for.
StallPostponesResults ==
    /\ Running
    /\ BundleIsLegal(cpu, Bundle)
    /\ HasUnreadySources(cpu, Bundle)
    /\ cpu' = [cpu EXCEPT !.cycle = @ + 1,
                          !.ready = [r \in GprIndices |-> cpu.ready[r] + 1]]
    /\ UNCHANGED <<program, panicked>>

Stall ==
    /\ Running
    /\ BundleIsLegal(cpu, Bundle)
    /\ HasUnreadySources(cpu, Bundle)
    /\ cpu' = [cpu EXCEPT !.cycle = @ + 1]
    /\ UNCHANGED <<program, panicked>>

Issue ==
    /\ Running
    /\ BundleIsLegal(cpu, Bundle)
    /\ ~HasUnreadySources(cpu, Bundle)
    /\ panicked' = TracedExec.panicked
    /\ cpu' = IF panicked' THEN cpu ELSE TracedExec.cpu
    /\ UNCHANGED program

Next == IllegalBundle \/ Stall \/ Issue

Spec == Init /\ [][Next]_vars

\* trace_program calls step_trace in a loop until it returns None.
FairSpec == Spec /\ WF_vars(Next)

-----------------------------------------------------------------------------

\* The active slots that are executed: up to a Ret that halts the CPU.
ExecutedSlots ==
    {s \in ActiveSlots(cpu, Bundle) :
        ~ \E i \in ActiveSlots(cpu, Bundle) :
            i < s /\ Bundle[i].op = "Ret" /\ ReadGpr(cpu, LinkReg) = 0}

\* No slot writes the guard of a later one.
GuardsSettled ==
    \A i, j \in DOMAIN Bundle :
        i < j /\ Bundle[i].op \in WritesPred => Bundle[j].pred \notin {Bundle[i].dst} \ {0}

\* One memory access and one control transfer at most.
SingleEffects ==
    \A i, j \in DOMAIN Bundle : i # j =>
        ~ \E class \in {MemoryOps, ControlOps} :
            Bundle[i].op \in class /\ Bundle[j].op \in class

\* The state that slot s alone makes of the state before the bundle.
Alone(s) == ExecSyllable(Issuing(cpu), Bundle[s])

\* The slots of an issued bundle are parallel: although the code executes
\* them one after the other, the legality check lets none of them see or
\* overwrite what an earlier one did, so every register ends up as its one
\* writer alone leaves it, or unchanged.
SlotsAreParallel ==
    [][Issue /\ ~panicked' /\ GuardsSettled /\ SingleEffects =>
         /\ \A r \in GprIndices :
              LET writers == {s \in ExecutedSlots : GprWriteDst(Bundle[s]) = r}
              IN  IF r = 0 \/ writers = {}
                  THEN cpu'.gprs[r] = cpu.gprs[r]
                  ELSE \A s \in writers : /\ cpu'.gprs[r] = Alone(s).gprs[r]
                                          /\ cpu'.ready[r] = Alone(s).ready[r]
         /\ \A p \in PredIndices :
              LET writers == {s \in ExecutedSlots :
                                Bundle[s].op \in WritesPred /\ Bundle[s].dst = p}
              IN  IF p = 0 \/ writers = {}
                  THEN cpu'.preds[p] = cpu.preds[p]
                  ELSE \A s \in writers : cpu'.preds[p] = Alone(s).preds[p]]_vars

\* What the static bounds allow an opcode: worst_case_load_latency a load.
WorstLatency(op) == IF op \in Loads THEN CacheWorstCaseLoadLatency ELSE Latency[op]

\* A register that is ready in another cycle than before is written by the
\* bundle that issues and ready within the static bound of the syllable that
\* writes it, whatever the lines in the cache: worst_case_load_latency covers
\* every outcome of a load where a hit takes no longer.  No stall and no other
\* bundle moves it.
ReadyWithinWorstCase ==
    [][HitsAreNoWorse =>
         \A r \in GprIndices : cpu'.ready[r] # cpu.ready[r] =>
            \E s \in DOMAIN Bundle :
               /\ GprWriteDst(Bundle[s]) = r
               /\ cpu'.ready[r] <= cpu'.cycle + WorstLatency(Bundle[s].op)]_vars

\* No syllable but a Call writes the link register.
LinkIsForCalls ==
    \A i \in DOMAIN program : \A s \in DOMAIN program[i] :
        program[i][s].dst = LinkReg => program[i][s].op \notin GprWriters

OneControlOpPerBundle ==
    \A i \in DOMAIN program : \A s, t \in DOMAIN program[i] :
        program[i][s].op \in ControlOps /\ program[i][t].op \in ControlOps => s = t

\* The link register holds 0 or the address right behind a bundle with a
\* Call, so Ret resumes behind the Call that it belongs to.
LinkFollowsACall ==
    LinkIsForCalls /\ OneControlOpPerBundle /\ cpu.gprs[LinkReg] # 0 =>
        /\ cpu.gprs[LinkReg] \in DOMAIN program
        /\ \E s \in DOMAIN Slots : program[cpu.gprs[LinkReg]][s].op = "Call"

\* Control goes forward only: later targets, and a Ret that can only halt.
LoopFree ==
    /\ LinkIsForCalls
    /\ \A i \in DOMAIN program : \A s \in DOMAIN program[i] :
         /\ program[i][s].op \in {"Branch", "Jump"} => AsWord(program[i][s].imm) >= i
         /\ program[i][s].op # "Call"

\* trace_program returns (or panics) for every program without loops: every
\* stall ends.
LoopFreeProgramsEnd ==
    LoopFree => <>(panicked \/ Finished(cpu, program))
=============================================================================
