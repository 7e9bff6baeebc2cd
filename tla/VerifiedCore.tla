---------------------------- MODULE VerifiedCore ----------------------------
(***************************************************************************)
(* What the static verifier promises of the program that one CPU runs:     *)
(* the processor of module CpuCore against the checks of module Verifier   *)
(* ("the compiler contract", docs/compiler_contract.md).                   *)
(***************************************************************************)
EXTENDS CpuCore, Verifier

\* The verifier found nothing in the program that runs (as CPU 0).
Verified == VerifiedFor(program, 0)

OnSchedule == Verified /\ StraightLine(program) /\ HitsAreNoWorse

\* A verified program without transfers of control keeps the schedule that
\* the verifier computed: until it is done, bundle k issues in cycle k.  So
\* it never stalls, whatever the data, the guards and the cache do.
IssuesOnSchedule ==
    OnSchedule => cpu.cycle = cpu.pc \/ cpu.halted

\* On the way the scoreboard is never behind ready_at of the verifier: a
\* cycle that the static schedule has for a register, the register meets.
ScoreboardWithinStaticBound ==
    OnSchedule =>
        \A r \in GprIndices : \A c \in 0 .. MaxCycle :
            ReadyBy(program, cpu.pc + 1, r, c) => cpu.ready[r] <= c

BranchesHaveNoOperands ==
    \A i \in DOMAIN program : \A s \in DOMAIN program[i] :
        program[i][s].op = "Branch" => program[i][s].src = <<NoReg, NoReg>>

\* Guards ignored statically, respected at run time: the check before issue
\* refuses no bundle of a verified program that has no operands in its
\* branches, on whatever path the program comes to the bundle.
VerifiedBundlesAreLegal ==
    [][Verified /\ BranchesHaveNoOperands => ~IllegalBundle]_vars

\* A verified program panics for no address that was known before it ran.
StaticAddressesNeverPanic ==
    [][Verified /\ Issue /\ panicked' =>
         \E s \in DOMAIN Bundle :
            /\ Bundle[s].op \in MemoryOps
            /\ Bundle[s].src[1] # 0 \/ Bundle[s].imm < 0]_vars

\* "the static verifier emits gpr-ready-cycle because the schedule is not
\* stall-free under the configured worst case" (docs/compiler_contract.md,
\* rule 6): without that diagnostic no bundle stalls, branches or not.
VerifiedProgramsNeverStall == [][Verified => ~Stall]_vars
=============================================================================
