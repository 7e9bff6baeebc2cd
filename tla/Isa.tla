-------------------------------- MODULE Isa --------------------------------
(***************************************************************************)
(* The instruction set (src/src/isa.rs), the opcode classes that the CPU   *)
(* (src/src/cpu/state.rs) and the static verifier derive from it, and the  *)
(* default latencies (src/src/latency.rs).  Opcodes are strings with the   *)
(* names of the Opcode enum.                                               *)
(***************************************************************************)
EXTENDS Integers, Sequences

IntegerOps == {"Add", "AddImm", "Sub", "SubImm", "And", "Or", "Xor", "Shl",
               "Srl", "Sra", "Mov", "MovImm"}
MultiplyOps == {"Mul", "MulH"}
IntegerCompares == {"CmpEq", "CmpLt", "CmpUlt"}
FpCompares == {"FpCmp32", "FpCmp64"}
Fp32Ops == {"FpAdd32", "FpSub32", "FpMul32", "FpDiv32", "FpCvt32To64",
            "FpCvtI32ToFp32", "FpCvtFp32ToI32"}
Fp64Ops == {"FpAdd64", "FpSub64", "FpMul64", "FpDiv64", "FpCvt64To32",
            "FpCvtI64ToFp64", "FpCvtFp64ToI64"}
AesOps == {"AesEnc", "AesDec"}
Loads == {"LoadB", "LoadH", "LoadW", "LoadD", "AcqLoad"}
Stores == {"StoreB", "StoreH", "StoreW", "StoreD", "RelStore"}
ControlOps == {"Branch", "Jump", "Call", "Ret"}
PredicateOps == {"PAnd", "POr", "PXor", "PNot"}

MemoryOps == Loads \cup Stores

Compares == IntegerCompares \cup FpCompares

\* Opcodes that write a GPR through writeback: opcode_writes_gpr.
GprWriters == IntegerOps \cup MultiplyOps \cup Fp32Ops \cup Fp64Ops \cup AesOps
                \cup Loads \cup {"Lea"}

\* Opcode::writes_gpr, which also counts the implicit write of Call.
WritesGpr == GprWriters \cup {"Call"}

WritesPred == Compares \cup PredicateOps

Opcodes == GprWriters \cup Compares \cup Stores \cup ControlOps
             \cup PredicateOps \cup {"Prefetch", "Nop"}

\* Bytes that a memory opcode accesses (memory_access_for_opcode).
AccessWidth(op) ==
    IF op \in {"LoadB", "StoreB"} THEN 1
    ELSE IF op \in {"LoadH", "StoreH"} THEN 2
    ELSE IF op \in {"LoadW", "StoreW"} THEN 4
    ELSE 8

\* LatencyTable::default; an opcode without an entry has latency 1.
DefaultLatency == [op \in Opcodes |->
    CASE op \in {"LoadB", "LoadH", "LoadW", "LoadD"} \cup MultiplyOps -> 3
      [] op \in Fp32Ops \cup AesOps \cup {"FpCmp32"}                  -> 4
      [] op \in Fp64Ops \cup {"FpCmp64"}                              -> 6
      [] op = "Nop"                                                   -> 0
      [] OTHER                                                        -> 1]

-----------------------------------------------------------------------------

\* The absent operand or destination (Option::None).
NoReg == -1

\* One slot of a bundle: the fields of struct Syllable, src being <<src0, src1>>.
Syllable == [op   : Opcodes,
             dst  : Nat \cup {NoReg},
             src  : (Nat \cup {NoReg}) \X (Nat \cup {NoReg}),
             imm  : Int,
             pred : Nat,
             neg  : BOOLEAN]

Nop == [op |-> "Nop", dst |-> NoReg, src |-> <<NoReg, NoReg>>, imm |-> 0,
        pred |-> 0, neg |-> FALSE]

\* Syllables as the assembler builds them: unguarded unless the guard is given.
Op(op, dst, src0, src1, imm) ==
    [op |-> op, dst |-> dst, src |-> <<src0, src1>>, imm |-> imm,
     pred |-> 0, neg |-> FALSE]

Guarded(p, syl) == [syl EXCEPT !.pred = p]

Unless(p, syl) == [syl EXCEPT !.pred = p, !.neg = TRUE]

\* The kinds of functional units (layout.rs).
UnitKinds == {"IntegerAlu", "Memory", "Control", "Multiplier", "Fp", "Aes"}
=============================================================================
