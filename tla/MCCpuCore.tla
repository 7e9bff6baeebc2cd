----------------------------- MODULE MCCpuCore -----------------------------
(***************************************************************************)
(* Instances of Trace and CpuCore: words of 8 bits, 4 GPRs of which r3 is  *)
(* the link register, 3 predicates, a memory of one word with cache lines  *)
(* of two bytes and programs of bundles with two slots.                    *)
(***************************************************************************)
EXTENDS Trace, LatencyTable

TwoSlots == <<{"IntegerAlu", "Memory", "Multiplier"},
              {"IntegerAlu", "Memory", "Control"}>>

\* Every opcode that stands for a case of the checks and of the execution:
\* late results, misses and dirty evictions, accesses out of bounds, calls,
\* loops, guards and each kind of hazard.
CoreBundles ==
    {<<Op("MovImm", 1, NoReg, NoReg, -1), Nop>>,
     <<Op("MovImm", 1, NoReg, NoReg, 2), Op("CmpEq", 1, 0, 2, 0)>>,
     <<Op("Mul", 2, 1, 1, 0), Op("AddImm", 1, 1, NoReg, 1)>>,
     <<Op("Add", 1, 2, 1, 0), Op("Call", NoReg, NoReg, NoReg, 2)>>,
     <<Op("Sub", 1, 1, 2, 0), Op("CmpUlt", 2, 1, 2, 0)>>,
     <<Op("CmpLt", 1, 1, 0, 0), Op("PNot", 1, 1, NoReg, 0)>>,
     <<Op("CmpLt", 1, 1, 0, 0), Op("PNot", 2, 2, NoReg, 0)>>,
     <<Op("CmpEq", 2, 1, 2, 0), Guarded(2, Op("Mov", 1, 2, NoReg, 0))>>,
     <<Guarded(1, Op("Mov", 1, 2, NoReg, 0)), Unless(1, Op("MovImm", 1, NoReg, NoReg, 5))>>,
     <<Op("LoadB", 1, 0, NoReg, 0), Op("PAnd", 1, 2, 2, 0)>>,
     <<Op("LoadB", 2, 1, NoReg, 6), Op("PNot", 1, 1, NoReg, 0)>>,
     <<Op("StoreH", NoReg, 0, 1, 4), Nop>>,
     <<Op("StoreB", NoReg, 0, 1, 1), Op("LoadH", 1, 0, NoReg, 0)>>,
     <<Nop, Guarded(1, Op("Branch", NoReg, NoReg, NoReg, 0))>>,
     <<Op("AddImm", 1, 1, NoReg, -1), Unless(1, Op("Branch", NoReg, NoReg, NoReg, 3))>>,
     <<Op("Mul", 2, 2, 1, 0), Op("Jump", NoReg, NoReg, NoReg, 2)>>,
     <<Op("MovImm", 2, NoReg, NoReg, 7), Op("Ret", NoReg, NoReg, NoReg, 0)>>,
     <<Op("Jump", NoReg, NoReg, NoReg, 0), Nop>>}

\* Bundles with two accesses to the memory and with several results, each of
\* which has its place in a trace.
TracedBundles ==
    {<<Op("MovImm", 1, NoReg, NoReg, 2), Op("CmpEq", 1, 0, 2, 0)>>,
     <<Op("Mul", 2, 1, 1, 0), Op("AddImm", 1, 1, NoReg, 1)>>,
     <<Op("Add", 1, 2, 1, 0), Op("Call", NoReg, NoReg, NoReg, 2)>>,
     <<Op("CmpLt", 1, 1, 0, 0), Op("PNot", 2, 2, NoReg, 0)>>,
     <<Op("CmpEq", 2, 1, 2, 0), Guarded(2, Op("Mov", 1, 2, NoReg, 0))>>,
     <<Op("LoadB", 1, 0, NoReg, 0), Op("LoadB", 2, 0, NoReg, 1)>>,
     <<Op("StoreH", NoReg, 0, 1, 4), Op("LoadB", 2, 0, NoReg, 0)>>,
     <<Op("StoreB", NoReg, 0, 1, 1), Op("LoadH", 1, 1, NoReg, 0)>>,
     <<Guarded(1, Op("Mov", 1, 2, NoReg, 0)), Unless(1, Op("MovImm", 1, NoReg, NoReg, 5))>>,
     <<Op("AddImm", 1, 1, NoReg, -1), Unless(1, Op("Branch", NoReg, NoReg, NoReg, 3))>>,
     <<Op("Mul", 2, 2, 1, 0), Guarded(1, Op("Jump", NoReg, NoReg, NoReg, 0))>>,
     <<Op("MovImm", 2, NoReg, NoReg, 7), Op("Ret", NoReg, NoReg, NoReg, 0)>>,
     <<Op("Jump", NoReg, NoReg, NoReg, 5), Op("MovImm", 2, NoReg, NoReg, 1)>>}

\* Three opcodes, two latencies and every table of up to three entries.
SomeOps == {"Add", "Mul", "LoadB"}
SmallTables == UNION {[1 .. n -> SomeOps \X {2, 3}] : n \in 0 .. 3}

\* LatencyTable::set on each of them.
ASSUME SetOverridesOneAnswerHere ==
    \A table \in SmallTables, op, other \in SomeOps, cycles \in {2, 3} :
        OverridesOneAnswer(table, op, cycles, other)

CorePrograms == [1 .. 3 -> CoreBundles] \cup [1 .. 3 -> TracedBundles]
=============================================================================
