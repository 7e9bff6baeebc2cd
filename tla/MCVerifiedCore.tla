--------------------------- MODULE MCVerifiedCore ---------------------------
(***************************************************************************)
(* Instances of VerifiedCore: the processor of MCCpuCore with a load that  *)
(* takes up to 3 cycles, running every program of four bundles that the    *)
(* verifier accepts.                                                       *)
(***************************************************************************)
EXTENDS VerifiedCore

TwoSlots == <<{"IntegerAlu", "Memory", "Multiplier"},
              {"IntegerAlu", "Memory", "Control"}>>

\* Writers with each latency, readers of what they write, guards, accesses
\* with addresses that are known and that are not, and an illegal slot.
StraightBundles ==
    {<<Op("LoadB", 1, 0, NoReg, 1), Nop>>,
     <<Op("LoadB", 2, 1, NoReg, 6), Op("CmpEq", 1, 0, 0, 0)>>,
     <<Op("LoadH", 1, 0, NoReg, 7), Nop>>,
     <<Op("StoreB", NoReg, 0, 1, 4), Op("MovImm", 2, NoReg, NoReg, 3)>>,
     <<Guarded(1, Op("StoreB", NoReg, 0, 2, 0)), Nop>>,
     <<Op("Mul", 1, 2, 2, 0), Unless(1, Op("AddImm", 2, 2, NoReg, 1))>>,
     <<Op("Add", 1, 1, 2, 0), Nop>>,
     <<Op("MovImm", 1, NoReg, NoReg, 2), Op("CmpEq", 1, 0, 0, 0)>>,
     <<Op("CmpEq", 1, 0, 1, 0), Guarded(2, Op("Ret", NoReg, NoReg, NoReg, 0))>>,
     <<Op("CmpLt", 2, 1, 2, 0), Nop>>,
     <<Nop, Op("Mul", 1, 1, 1, 0)>>,
     <<Nop, Op("Ret", NoReg, NoReg, NoReg, 0)>>}

\* Loops, calls and branches whose condition or link the same bundle writes.
BranchingBundles ==
    {<<Op("CmpEq", 1, 1, 0, 0), Guarded(2, Op("Branch", NoReg, NoReg, NoReg, 0))>>,
     <<Op("CmpEq", 1, 1, 0, 0), Unless(1, Op("Branch", NoReg, NoReg, NoReg, 3))>>,
     <<Op("CmpEq", 1, 2, 0, 0), Op("Branch", NoReg, 1, NoReg, 0)>>,
     <<Op("MovImm", 3, NoReg, NoReg, 2), Op("Ret", NoReg, NoReg, NoReg, 0)>>,
     <<Op("CmpUlt", 2, 0, 2, 0), Op("Call", NoReg, NoReg, NoReg, 2)>>}

Straight == [1 .. 4 -> StraightBundles]

Branching == [1 .. 3 -> BranchingBundles \cup
                {<<Op("MovImm", 1, NoReg, NoReg, 2), Op("CmpEq", 1, 0, 0, 0)>>,
                 <<Op("LoadB", 2, 0, NoReg, 1), Nop>>,
                 <<Guarded(1, Op("Add", 1, 2, 1, 0)), Nop>>}]

\* A store before the beginning of the memory, and forward branches over the
\* bundles that the result of a load or a multiplication has to wait for.
NegativeOffset == {<<Op("StoreB", NoReg, 0, 1, -2), Nop>>}

Skipping ==
    [1 .. 4 -> {<<Op("LoadB", 2, 0, NoReg, 1), Op("Branch", NoReg, NoReg, NoReg, 3)>>,
                <<Op("MovImm", 1, NoReg, NoReg, 2), Op("CmpEq", 1, 0, 0, 0)>>,
                <<Op("Mul", 1, 2, 2, 0), Op("CmpEq", 1, 0, 0, 0)>>}]

VerifiedPrograms ==
    {p \in Straight \cup Branching \cup Skipping \cup [1 .. 2 -> NegativeOffset] :
        VerifiedFor(p, 0)}
=============================================================================
