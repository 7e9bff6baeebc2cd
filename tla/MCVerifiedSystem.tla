-------------------------- MODULE MCVerifiedSystem --------------------------
(***************************************************************************)
(* Instances of VerifiedSystem: the system of MCSystem with loads of one   *)
(* or two cycles, which the static schedule takes to need four.  CPU 0 has *)
(* its memory operations in the bundles 1, 3, 5, CPU 1 in 2, 4, 6.         *)
(***************************************************************************)
EXTENDS VerifiedSystem

TwoSlots == <<{"IntegerAlu", "Memory", "Fp"},
              {"IntegerAlu", "Memory", "Control"}>>

Idle == <<Nop, Nop>>

Bundle1(syl) == <<syl, Nop>>

MayStop == <<Op("AddImm", 2, 2, NoReg, 1), Guarded(1, Op("Ret", NoReg, NoReg, NoReg, 0))>>

\* The consumer of both sets reads the released value eight bundles later or
\* too early for the verifier.
Producers ==
    {<<a, b, c, d, e>> :
        a \in {Bundle1(Op("MovImm", 1, NoReg, NoReg, 5)),
               <<Op("LoadB", 2, 0, NoReg, 7), Op("MovImm", 1, NoReg, NoReg, 3)>>},
        b \in {Idle, MayStop, <<Op("FpMul32", 1, 1, 1, 0), Op("CmpEq", 1, 0, 0, 0)>>},
        c \in {Idle, Bundle1(Op("RelStore", NoReg, 0, 1, 0)),
               Bundle1(Guarded(1, Op("StoreB", NoReg, 0, 1, 4)))},
        d \in {Idle, Bundle1(Op("CmpUlt", 1, 0, 1, 0)), MayStop},
        e \in {Bundle1(Op("RelStore", NoReg, 0, 1, 0)), Bundle1(Op("LoadH", 2, 0, NoReg, 4)),
               <<Unless(1, Op("StoreB", NoReg, 0, 2, 1)), Nop>>}}

Consumers ==
    {<<a, b, c, d, Idle, f, Idle, h>> :
        a \in {Bundle1(Op("MovImm", 2, NoReg, NoReg, 1)), Idle},
        b \in {Bundle1(Op("StoreB", NoReg, 0, 2, 0)), Bundle1(Op("LoadB", 2, 0, NoReg, 4))},
        c \in {Idle, <<Op("CmpEq", 1, 2, 0, 0), Nop>>},
        d \in {Bundle1(Op("AcqLoad", 1, 0, NoReg, 0)),
               Bundle1(Guarded(1, Op("AcqLoad", 1, 0, NoReg, 0)))},
        f \in {Bundle1(Op("AcqLoad", 2, 0, NoReg, 0)), Bundle1(Op("Add", 2, 2, 1, 0))},
        h \in {<<Op("Add", 2, 1, 1, 0), Nop>>, Bundle1(Op("StoreH", NoReg, 0, 1, 6))}}

StraightSystems ==
    {ps \in {(0 :> p) @@ (1 :> q) : p \in Producers, q \in Consumers} :
        SystemVerified(ps)}

\* A producer that releases a value early, late, after a stop or not at all and
\* goes on for longer than the consumer may poll, and a consumer that polls in
\* rounds of six, seven or eight bundles, enters its loop on schedule or through
\* a branch one cycle early, has results that one round leaves to the next, and
\* may give up in the second round.
Releasers ==
    {[k \in 1 .. 28 |-> IF k = 1 THEN a ELSE IF k = 2 THEN b ELSE IF k = n THEN r ELSE Idle] :
        n \in {3, 7, 9},
        a \in {Bundle1(Op("MovImm", 1, NoReg, NoReg, 5)), Bundle1(Op("MovImm", 1, NoReg, NoReg, 0))},
        b \in {Idle, <<Op("CmpEq", 1, 1, 0, 0), Nop>>},
        r \in {Bundle1(Op("RelStore", NoReg, 0, 1, 0)),
               Bundle1(Guarded(1, Op("RelStore", NoReg, 0, 1, 0)))}}

Pollers ==
    {<<a, b, Idle, Bundle1(Op("AcqLoad", 2, 0, NoReg, 0)), Idle>>
     \o [k \in 1 .. extra |-> Idle] \o
     <<d, e, Bundle1(Op("CmpEq", 1, 2, 0, 0)),
       <<Nop, Guarded(1, Op("Branch", NoReg, NoReg, NoReg, back))>>>>
     \o [k \in 1 .. 8 |-> Idle] :
        a \in {Idle, <<Nop, Op("Branch", NoReg, NoReg, NoReg, 2)>>},
        b \in {Idle, Bundle1(Op("LoadB", 1, 0, NoReg, 4))},
        extra \in {0, 1}, back \in {2, 3},
        d \in {Idle, Bundle1(Op("AddImm", 1, 1, NoReg, 1)),
               <<Nop, Guarded(1, Op("Ret", NoReg, NoReg, NoReg, 0))>>},
        e \in {Idle, Bundle1(Op("LoadB", 1, 1, NoReg, 0))}}

PollingSystems ==
    {ps \in {(0 :> p) @@ (1 :> q) : p \in Releasers, q \in Pollers} : SystemVerified(ps)}

AllSystems == StraightSystems \cup PollingSystems
=============================================================================
