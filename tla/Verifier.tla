------------------------------ MODULE Verifier ------------------------------
(***************************************************************************)
(* The static verifier (src/src/verifier.rs): what verify_program_for_cpu  *)
(* and verify_system ask of a program before it runs.  A program is        *)
(* verified when no check adds a diagnostic; the text and the place of the *)
(* diagnostics are left out.                                               *)
(*                                                                         *)
(* The checks know no guards: every syllable counts as active.  Bundle i   *)
(* of the model (counted from 1) is bundle i - 1 of the code, which the    *)
(* verifier takes to issue in cycle i - 1 and to write back from cycle i.  *)
(***************************************************************************)
EXTENDS Cpu, Bus

-----------------------------------------------------------------------------
(* Bundle by bundle. *)

\* check_slot_legality
BundleSlotOk(bundle) == \A s \in DOMAIN bundle : SlotCanExecute(s, bundle[s].op)

\* Faulty: a read of the written register is no hazard.
BundleGprWritesDiffer(bundle) ==
    \A i, j \in DOMAIN bundle : i < j =>
        ~ /\ GprWriteDst(bundle[i]) \in GprIndices \ {0}
          /\ GprWriteDst(bundle[j]) = GprWriteDst(bundle[i])

\* check_gpr_hazards: the condition is the one of the check at run time.
BundleGprHazardFree(bundle) ==
    \A i, j \in DOMAIN bundle : i < j => ~RuntimeGprHazard(bundle[i], bundle[j])

\* One pair of check_pred_hazards.  The source operands of a Branch are not
\* looked at, although the check at run time looks at them.
StaticPredHazard(earlier, later) ==
    /\ earlier.op \in WritesPred
    /\ earlier.dst \in PredIndices \ {0}
    /\ \/ later.op \in PredicateOps /\ Reads(later, earlier.dst)
       \/ later.op = "Branch" /\ later.pred = earlier.dst
       \/ later.op \in WritesPred /\ later.dst = earlier.dst

\* check_pred_hazards
BundlePredHazardFree(bundle) ==
    \A i, j \in DOMAIN bundle : i < j => ~StaticPredHazard(bundle[i], bundle[j])

\* check_bus_slot_conflicts
BundleBusSlotOk(bundle, cycle, c) ==
    \A s \in DOMAIN bundle : bundle[s].op \in MemoryOps => BusSlot(cycle, c)

\* Faulty: the width of the access is not counted.
BundleStaticBoundsOfAddress(bundle) ==
    \A s \in DOMAIN bundle :
        bundle[s].op \in MemoryOps /\ bundle[s].src[1] = 0 /\ bundle[s].imm >= 0
            => InBounds(bundle[s].imm, 1)

\* check_static_memory_bounds: only an offset from r0 that is not negative is
\* known to be an address.
BundleStaticBoundsOk(bundle) ==
    \A s \in DOMAIN bundle :
        bundle[s].op \in MemoryOps /\ bundle[s].src[1] = 0 /\ bundle[s].imm >= 0
            => InBounds(bundle[s].imm, AccessWidth(bundle[s].op))

-----------------------------------------------------------------------------
(* The static schedule: when the result of a syllable is ready. *)

\* coherence_drain
CoherenceDrain == IF NumCpus <= 1 THEN 0 ELSE WritebackLatency

\* system_worst_case_load_latency_with_coherence with a bus slot cost of 1:
\* what update_ready_at takes every load to need, and worst_case_visibility.
WorstCaseVisibility == (NumCpus - 1) + CacheWorstCaseLoadLatency + CoherenceDrain

\* Faulty: every load is taken to hit.
StaticLatencyOfHits(op) == IF op \in Loads THEN HitLatency ELSE Latency[op]

StaticLatency(op) == IF op \in Loads THEN WorstCaseVisibility ELSE Latency[op]

\* ready_at[r] <= c when the verifier comes to bundle n: every write of r in
\* an earlier bundle is ready by cycle c (update_ready_at keeps the maximum).
ReadyBy(program, n, r, c) ==
    \A i \in 1 .. n - 1 : \A s \in DOMAIN program[i] :
        GprWriteDst(program[i][s]) = r => i + StaticLatency(program[i][s].op) <= c

\* The GPRs that the verifier takes a syllable to read.
TimedReads(syl) ==
    {r \in GprIndices \ {0} : Reads(syl, r) \/ (syl.op = "Ret" /\ r = LinkReg)}

\* Faulty: a source may be one cycle late.
BundleTimingOkOneLate(program, n) ==
    \A s \in DOMAIN program[n] : \A r \in TimedReads(program[n][s]) :
        ReadyBy(program, n, r, n + 1)

\* check_gpr_timing: what bundle n reads is ready by the next cycle boundary.
BundleTimingOk(program, n) ==
    \A s \in DOMAIN program[n] : \A r \in TimedReads(program[n][s]) :
        ReadyBy(program, n, r, n)

-----------------------------------------------------------------------------

\* The checks that look at one bundle on its own.
BundleVerified(bundle) ==
    /\ BundleSlotOk(bundle)
    /\ BundleGprHazardFree(bundle)
    /\ BundlePredHazardFree(bundle)
    /\ BundleStaticBoundsOk(bundle)

\* verify_program_for_cpu returns no diagnostic.
VerifiedFor(program, c) ==
    \A i \in DOMAIN program :
        /\ BundleVerified(program[i])
        /\ BundleTimingOk(program, i)
        /\ BundleBusSlotOk(program[i], i - 1, c)

\* Some CPU other than c has a RelStore somewhere.
HasProducer(programs, c) ==
    \E d \in DOMAIN programs \ {c} : \E i \in DOMAIN programs[d] :
        \E s \in DOMAIN programs[d][i] : programs[d][i][s].op = "RelStore"

\* A Branch in bundle n goes back to a bundle from which on there is an
\* AcqLoad: its loop polls.
EndsPollingLoop(program, n) ==
    \E s \in DOMAIN program[n] :
        /\ program[n][s].op = "Branch"
        /\ program[n][s].imm \in 0 .. n - 1
        /\ \E i \in program[n][s].imm + 1 .. n : \E t \in DOMAIN program[i] :
              program[i][t].op = "AcqLoad"

\* check_cross_cpu_ordering
PollingLoopsHaveProducers(programs) ==
    \A c \in DOMAIN programs : \A n \in DOMAIN programs[c] :
        EndsPollingLoop(programs[c], n) => HasProducer(programs, c)

\* verify_system returns no diagnostic.
SystemVerified(programs) ==
    /\ \A c \in DOMAIN programs : VerifiedFor(programs[c], c)
    /\ PollingLoopsHaveProducers(programs)

-----------------------------------------------------------------------------

\* Control leaves the program order nowhere: a Ret can only halt, as nothing
\* writes the link register.
StraightLine(program) ==
    \A i \in DOMAIN program : \A s \in DOMAIN program[i] :
        /\ program[i][s].op \notin ControlOps \ {"Ret"}
        /\ program[i][s].dst # LinkReg
=============================================================================
