------------------------------ MODULE MCSystem ------------------------------
(***************************************************************************)
(* Instances of System: words of 8 bits, 4 GPRs (r3 is the link register), *)
(* 2 predicates, a memory of one word and caches of a single line of four  *)
(* bytes, so that the two halves of the memory evict each other.           *)
(***************************************************************************)
EXTENDS SystemClaims

TwoSlots == <<{"IntegerAlu", "Memory", "Fp"},
              {"IntegerAlu", "Memory", "Control"}>>

\* Bundles with one memory operation that the rest does not disturb.
SettledBundles ==
    {<<Op("StoreB", NoReg, 0, 1, 0), Op("AddImm", 2, 2, NoReg, 1)>>,
     <<Guarded(1, Op("StoreH", NoReg, 0, 2, 4)), Op("MovImm", 2, NoReg, NoReg, 3)>>,
     <<Op("LoadB", 1, 0, NoReg, 0), Op("CmpEq", 1, 0, 2, 0)>>,
     <<Op("LoadH", 2, 1, NoReg, 6), Nop>>}

\* Bundles with memory operations that the bus does not see as they execute,
\* or that the rest of the bundle depends on.
WildBundles ==
    {<<Op("StoreB", NoReg, 0, 2, 0), Op("StoreB", NoReg, 0, 1, 4)>>,
     <<Op("CmpEq", 1, 0, 0, 0), Guarded(1, Op("StoreB", NoReg, 1, 1, 7))>>,
     <<Op("LoadB", 1, 0, NoReg, 4), Op("Add", 2, 1, 1, 0)>>,
     <<Op("LoadB", 1, 0, NoReg, 4), Op("Jump", NoReg, NoReg, NoReg, 0)>>}

\* Bundles without a memory operation: late results, transfers of control, a
\* hazard and a halt that are up to a guard.
PlainBundles ==
    {<<Op("MovImm", 1, NoReg, NoReg, 1), Op("CmpUlt", 1, 0, 2, 0)>>,
     <<Op("FpMul32", 1, 1, 1, 0), Guarded(1, Op("Branch", NoReg, NoReg, NoReg, 0))>>,
     <<Op("AddImm", 1, 1, NoReg, 1), Guarded(1, Op("Mov", 2, 1, NoReg, 0))>>,
     <<Op("SubImm", 2, 2, NoReg, 1), Guarded(1, Op("Ret", NoReg, NoReg, NoReg, 0))>>}

\* CPU 0 has its memory operations in the bundles 0 and 2, CPU 1 in 1.
PairsOfPrograms(memoryBundles) ==
    {(0 :> <<a, p, b>>) @@ (1 :> <<q, c, r>>) :
        a, b, c \in memoryBundles, p \in PlainBundles, q, r \in PlainBundles}

\* Programs that System::new has to reject.
OffSlotPrograms ==
    {(0 :> <<p, a>>) @@ (1 :> <<p>>) :
        a \in SettledBundles \cup WildBundles, p \in PlainBundles}

TwoCpuPrograms ==
    PairsOfPrograms(SettledBundles) \cup OffSlotPrograms \cup
    {(0 :> <<a, p, b>>) @@ (1 :> <<q, c>>) :
        a, b, c \in SettledBundles \cup WildBundles, p, q \in PlainBundles}

\* One slot more, for bundles that decide on a slot behind the memory operation.
ThreeSlots == Append(TwoSlots, {"IntegerAlu", "Control"})

\* Bundles of which a slot behind the memory operation depends on an earlier
\* one, which the check at issue does not see: by its guard, or by r0.
DependentBundles ==
    {<<Op("CmpEq", 1, 0, 0, 0), Op("LoadB", 1, 0, NoReg, 4),
       Guarded(1, Op("Ret", NoReg, NoReg, NoReg, 0))>>,
     <<Op("CmpEq", 1, 0, 0, 0), Op("LoadB", 1, 0, NoReg, 0), Guarded(1, Op("Add", 2, 1, 1, 0))>>,
     <<Op("LoadB", 0, 0, NoReg, 4), Nop, Op("MovImm", 0, NoReg, NoReg, 1)>>}

OneCpuPrograms ==
    {(0 :> p) : p \in [1 .. 3 -> DependentBundles \cup
        {Append(b, Nop) : b \in SettledBundles \cup WildBundles \cup PlainBundles}]}

\* CPU 1 gets a copy of the second line; CPU 0 then has a bundle that stores to
\* both, of which the bus takes the first store only.
SecondStorePrograms ==
    {(0 :> <<p, q, <<Op("StoreB", NoReg, 0, 1, 0), Op("StoreB", NoReg, 0, 1, 4)>>>>) @@
     (1 :> <<r, <<Op("LoadB", 1, 0, NoReg, 4), Nop>>, r>>) : p, q, r \in PlainBundles}
=============================================================================
