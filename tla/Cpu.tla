-------------------------------- MODULE Cpu --------------------------------
(***************************************************************************)
(* One VLIW processor as a function of its state (src/src/cpu/): the       *)
(* registers, the scoreboard and the checks and effects of one bundle.     *)
(* Modules CpuCore and System make state machines of it.                   *)
(*                                                                         *)
(* A CPU state is a record: gprs, preds, pc, cycle, ready (the scoreboard),*)
(* memory (its own copy of the byte array), cache and halted.  The program *)
(* counter counts bundles from 0, as in the code; programs and bundles are *)
(* sequences, so bundle pc is program[pc + 1].                             *)
(*                                                                         *)
(* A word has 8 bytes of ByteBits bits (64 bits in the code).              *)
(***************************************************************************)
EXTENDS Layout, Cache, SharedMemory, SequencesExt

CONSTANTS
    NumGprs,        \* ArchConfig.gprs
    NumPreds,       \* ArchConfig.preds
    LinkReg,        \* the link register, 31 in the code
    ByteBits,       \* bits of a byte, 8 in the code
    Latency         \* LatencyTable: opcode -> cycles

\* ProcessorLayout::validate and CpuState::wf.
ASSUME CpuAssumption ==
    /\ LinkReg \in Nat \ {0}
    /\ NumGprs \in Nat /\ NumGprs > LinkReg
    /\ NumPreds \in Nat \ {0}
    /\ MemBytes >= WordBytes
    /\ ByteBits \in Nat \ {0}
    /\ ByteMod = PowersOf(2)[ByteBits]
    /\ Latency \in [Opcodes -> Nat]

GprIndices == 0 .. NumGprs - 1

PredIndices == 0 .. NumPreds - 1

WordBits == WordBytes * ByteBits

HalfMod == PowersOf(ByteMod)[4]

\* Faulty: arithmetic that does not wrap.
AsWordUnwrapped(x) == x

\* `as u64`, `as usize`: the value modulo the word size.
AsWord(x) == x % WordMod

\* `as i64`: the two's-complement reading of a word.
Signed(x) == IF x >= WordMod \div 2 THEN x - WordMod ELSE x

CpuStates ==
    [gprs : [GprIndices -> Words], preds : [PredIndices -> BOOLEAN],
     pc : Nat, cycle : Nat, ready : [GprIndices -> Nat], memory : Memories,
     cache : CacheState, halted : BOOLEAN]

NewCpu ==
    [gprs   |-> [r \in GprIndices |-> 0],
     preds  |-> [p \in PredIndices |-> p = 0],
     pc     |-> 0,
     cycle  |-> 0,
     ready  |-> [r \in GprIndices |-> 0],
     memory |-> ZeroMemory,
     cache  |-> NewCache,
     halted |-> FALSE]

-----------------------------------------------------------------------------
(* Registers (src/src/cpu/state.rs). *)

ReadGpr(cpu, r) == IF r \in GprIndices \ {0} THEN cpu.gprs[r] ELSE 0

WriteGpr(cpu, r, value) ==
    IF r \in GprIndices \ {0} THEN [cpu EXCEPT !.gprs[r] = value] ELSE cpu

\* p0 reads true; a missing or out-of-range predicate reads false.
ReadPred(cpu, p) == p = 0 \/ (p \in PredIndices /\ cpu.preds[p])

WritePred(cpu, p, value) ==
    IF p \in PredIndices \ {0} THEN [cpu EXCEPT !.preds[p] = value] ELSE cpu

Active(cpu, syl) == ReadPred(cpu, syl.pred) # syl.neg

\* opcode_gpr_write_dst
GprWriteDst(syl) ==
    IF syl.op = "Call" THEN LinkReg
    ELSE IF syl.op \in GprWriters THEN syl.dst ELSE NoReg

Reads(syl, r) == r \in {syl.src[1], syl.src[2]}

SetReady(cpu, r, c) ==
    IF r \in GprIndices THEN [cpu EXCEPT !.ready[r] = c] ELSE cpu

Writeback(cpu, syl, value, latency) ==
    SetReady(WriteGpr(cpu, syl.dst, value), syl.dst, cpu.cycle + latency)

\* The cycles that an opcode may take from issue to its result.
ResultLatencies(op) ==
    IF op \in Loads THEN {HitLatency, MissLatency, CacheWorstCaseLoadLatency}
    ELSE {Latency[op]}

-----------------------------------------------------------------------------
(* What the checks before issue say of a bundle (src/src/cpu/legality.rs). *)

ActiveSlots(cpu, bundle) == {s \in DOMAIN bundle : Active(cpu, bundle[s])}

\* Faulty: only two writes of the same GPR count.
RuntimeGprHazardOfWrites(earlier, later) ==
    /\ GprWriteDst(earlier) \in GprIndices \ {0}
    /\ GprWriteDst(later) = GprWriteDst(earlier)

\* The earlier syllable writes a GPR that the later one reads or writes.
RuntimeGprHazard(earlier, later) ==
    LET dst == GprWriteDst(earlier)
    IN  /\ dst \in GprIndices \ {0}
        /\ \/ Reads(later, dst)
           \/ GprWriteDst(later) = dst
           \/ later.op = "Ret" /\ dst = LinkReg

\* The earlier syllable writes a predicate that the later one reads as an
\* operand or as the condition of a branch, or writes.  A guard is no operand.
RuntimePredHazard(earlier, later) ==
    /\ earlier.op \in WritesPred
    /\ earlier.dst \in PredIndices \ {0}
    /\ \/ later.op \in PredicateOps \cup {"Branch"} /\ Reads(later, earlier.dst)
       \/ later.op = "Branch" /\ later.pred = earlier.dst
       \/ later.op \in WritesPred /\ later.dst = earlier.dst

BundleIsLegal(cpu, bundle) ==
    LET active == ActiveSlots(cpu, bundle)
    IN  /\ \A s \in active : SlotCanExecute(s, bundle[s].op)
        /\ \A i, j \in active : i < j =>
             /\ ~RuntimeGprHazard(bundle[i], bundle[j])
             /\ ~RuntimePredHazard(bundle[i], bundle[j])

\* Faulty: the cycle in which the bundle would execute does not count.
UnreadySourceAtIssue(cpu, syl) ==
    \E r \in GprIndices \ {0} : Reads(syl, r) /\ cpu.ready[r] > cpu.cycle

\* A source operand is not ready by the next cycle boundary.
UnreadySource(cpu, syl) ==
    \E r \in GprIndices \ {0} : Reads(syl, r) /\ cpu.ready[r] > cpu.cycle + 1

HasUnreadySources(cpu, bundle) ==
    \E s \in ActiveSlots(cpu, bundle) :
        \/ UnreadySource(cpu, bundle[s])
        \/ bundle[s].op = "Ret" /\ cpu.ready[LinkReg] > cpu.cycle + 1

EffectiveAddress(cpu, syl) == AsWord(ReadGpr(cpu, syl.src[1]) + syl.imm)

\* An active access that leaves the memory.
FaultsAt(cpu, syl) ==
    /\ syl.op \in MemoryOps
    /\ Active(cpu, syl)
    /\ ~InBounds(EffectiveAddress(cpu, syl), AccessWidth(syl.op))

\* bundle_memory_fault, asked before the bundle executes.
HasMemoryFault(cpu, bundle) == \E s \in DOMAIN bundle : FaultsAt(cpu, bundle[s])

-----------------------------------------------------------------------------
(* Execution of one syllable (src/src/cpu/execute.rs). *)

BitPairs == (0 .. 1) \X (0 .. 1)

Bit(x, i) == (x \div PowersOf(2)[i]) % 2

\* The word whose bits the truth table gives for those of a and b.
Bitwise2(table, a, b) ==
    Total([i \in 0 .. WordBits - 1 |-> table[<<Bit(a, i), Bit(b, i)>>] * PowersOf(2)[i]],
          WordBits)

BitAnd(a, b) == Bitwise2([p \in BitPairs |-> p[1] * p[2]], a, b)
BitOr(a, b)  == Bitwise2([p \in BitPairs |-> p[1] + p[2] - p[1] * p[2]], a, b)
BitXor(a, b) == Bitwise2([p \in BitPairs |-> (p[1] + p[2]) % 2], a, b)

Quotient(a, b) == IF b = 0 THEN 0 ELSE a \div b

\* `as u32 as i32`: the two's-complement reading of the low half.
SignedHalf(x) ==
    LET h == x % HalfMod IN IF h >= HalfMod \div 2 THEN h - HalfMod ELSE h

\* What the opcodes that only compute write, from operands a and b: the
\* floating-point and AES units work on plain bit patterns.
AluResult(op, a, b, imm) ==
    LET shift == b % WordBits
    IN  AsWord(
        CASE op \in {"Add", "FpAdd64"}    -> a + b
          [] op \in {"AddImm", "Lea"}     -> a + imm
          [] op \in {"Sub", "FpSub64"}    -> a - b
          [] op = "SubImm"                -> a - imm
          [] op = "And"                   -> BitAnd(a, b)
          [] op = "Or"                    -> BitOr(a, b)
          [] op = "Xor"                   -> BitXor(a, b)
          [] op = "Shl"                   -> a * PowersOf(2)[shift]
          [] op = "Srl"                   -> a \div PowersOf(2)[shift]
          [] op = "Sra"                   -> Signed(a) \div PowersOf(2)[shift]
          [] op \in {"Mov", "FpCvtI64ToFp64", "FpCvtFp64ToI64"} -> a
          [] op = "MovImm"                -> imm
          [] op \in {"Mul", "FpMul64"}    -> a * b
          [] op = "MulH"                  -> (a * b) \div WordMod
          [] op = "FpDiv64"               -> Quotient(a, b)
          [] op = "FpAdd32"               -> (a + b) % HalfMod
          [] op = "FpSub32"               -> (a - b) % HalfMod
          [] op = "FpMul32"               -> (a * b) % HalfMod
          [] op = "FpDiv32"               -> Quotient(a % HalfMod, b % HalfMod)
          [] op \in {"FpCvt32To64", "FpCvtI32ToFp32", "FpCvt64To32"} -> a % HalfMod
          [] op = "FpCvtFp32ToI32"        -> SignedHalf(a)
          [] op = "AesEnc"                -> BitXor(BitXor(a, b), AsWord(99))
          [] op = "AesDec"                -> BitXor(BitXor(a, b), AsWord(5)))

CompareResult(op, a, b) ==
    CASE op \in {"CmpEq", "FpCmp64"} -> a = b
      [] op = "CmpLt"                -> Signed(a) < Signed(b)
      [] op = "CmpUlt"               -> a < b
      [] op = "FpCmp32"              -> a % HalfMod = b % HalfMod

PredicateResult(op, a, b) ==
    CASE op = "PAnd" -> a /\ b
      [] op = "POr"  -> a \/ b
      [] op = "PXor" -> a # b
      [] op = "PNot" -> ~a

\* The CPU's own loads and stores: out of bounds a load yields 0 and a store
\* is ignored, but both touch the cache.
ExecLoad(cpu, syl) ==
    LET addr  == EffectiveAddress(cpu, syl)
        width == AccessWidth(syl.op)
        value == IF InBounds(addr, width) THEN LoadBytes(cpu.memory, addr, width) ELSE 0
    IN  Writeback([cpu EXCEPT !.cache = AccessLoad(@, addr)], syl, value,
                  OutcomeLatency(PeekOutcome(cpu.cache, addr)))

ExecStore(cpu, syl) ==
    LET addr  == EffectiveAddress(cpu, syl)
        width == AccessWidth(syl.op)
        data  == ToBytes(ReadGpr(cpu, syl.src[2]), width)
    IN  [cpu EXCEPT !.cache  = AccessStore(@, addr),
                    !.memory = IF InBounds(addr, width)
                               THEN StoreBytes(@, addr, data) ELSE @]

\* Faulty: the return address is read after the jump.
ExecCallSavesTarget(cpu, target) ==
    [SetReady(WriteGpr(cpu, LinkReg, target), LinkReg,
              cpu.cycle + Latency["Call"]) EXCEPT !.pc = target]

\* The program counter already points behind the bundle.
ExecCall(cpu, target) ==
    [SetReady(WriteGpr(cpu, LinkReg, AsWord(cpu.pc)), LinkReg,
              cpu.cycle + Latency["Call"]) EXCEPT !.pc = target]

ExecControl(cpu, syl) ==
    LET target == AsWord(syl.imm)
    IN  IF syl.op \in {"Branch", "Jump"} THEN [cpu EXCEPT !.pc = target]
        ELSE IF syl.op = "Call" THEN ExecCall(cpu, target)
        ELSE IF ReadGpr(cpu, LinkReg) = 0 THEN [cpu EXCEPT !.halted = TRUE]
        ELSE [cpu EXCEPT !.pc = ReadGpr(cpu, LinkReg)]

ExecSyllable(cpu, syl) ==
    LET a == ReadGpr(cpu, syl.src[1])
        b == ReadGpr(cpu, syl.src[2])
    IN  IF ~Active(cpu, syl) THEN cpu
        ELSE IF syl.op \in Loads THEN ExecLoad(cpu, syl)
        ELSE IF syl.op \in Stores THEN ExecStore(cpu, syl)
        ELSE IF syl.op \in GprWriters
             THEN Writeback(cpu, syl, AluResult(syl.op, a, b, syl.imm), Latency[syl.op])
        ELSE IF syl.op \in Compares
             THEN WritePred(cpu, syl.dst, CompareResult(syl.op, a, b))
        ELSE IF syl.op \in PredicateOps
             THEN WritePred(cpu, syl.dst,
                            PredicateResult(syl.op, ReadPred(cpu, syl.src[1]),
                                                    ReadPred(cpu, syl.src[2])))
        ELSE IF syl.op \in ControlOps THEN ExecControl(cpu, syl)
        ELSE cpu

-----------------------------------------------------------------------------
(* One bundle (CpuState::step_checked). *)

Finished(cpu, program) == cpu.halted \/ cpu.pc + 1 \notin DOMAIN program

\* Program counter and clock move on before the syllables execute.
Issuing(cpu) == [cpu EXCEPT !.pc = @ + 1, !.cycle = @ + 1]

\* The CPU after the first s syllables, in slot order up to one that halts it.
SlotBySlot(cpu, bundle) ==
    LET after[s \in 0 .. Len(bundle)] ==
            IF s = 0 THEN Issuing(cpu)
            ELSE LET before == after[s - 1]
                 IN  IF before.halted THEN before ELSE ExecSyllable(before, bundle[s])
    IN  after

ExecBundle(cpu, bundle) == SlotBySlot(cpu, bundle)[Len(bundle)]

StepResults == {"Halted", "Stalled", "Fault", "Issued"}

StepChecked(cpu, program) ==
    LET bundle == program[cpu.pc + 1]
        Outcome(result, c) == [result |-> result, cpu |-> c]
    IN  IF Finished(cpu, program) THEN Outcome("Halted", cpu)
        ELSE IF ~BundleIsLegal(cpu, bundle)
             THEN Outcome("Halted", [cpu EXCEPT !.halted = TRUE])
        ELSE IF HasUnreadySources(cpu, bundle)
             THEN Outcome("Stalled", [cpu EXCEPT !.cycle = @ + 1])
        ELSE IF HasMemoryFault(cpu, bundle)
             THEN Outcome("Fault", [cpu EXCEPT !.halted = TRUE])
        ELSE Outcome("Issued", ExecBundle(cpu, bundle))
=============================================================================
