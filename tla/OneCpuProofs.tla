---------------------------- MODULE OneCpuProofs ----------------------------
(***************************************************************************)
(* A system of one CPU against the same CPU on its own: for every program, *)
(* layout, cache and latency table, step_global with its bus does what     *)
(* step_trace does.                                                        *)
(***************************************************************************)
EXTENDS SystemProofs

-----------------------------------------------------------------------------
(* One CPU behind the bus, against the same CPU on its own. *)

\* The only CPU has the clock and the memory of the system.
AloneInv ==
    /\ NumCpus = 1
    /\ SysInv /\ TypeOK
    /\ cpus[0].cycle = cycle /\ cpus[0].memory = memory

LEMMA SameCpu ==
    ASSUME NEW c, IsCpu(c), NEW d, IsCpu(d),
           c.pc = d.pc, c.cycle = d.cycle, c.halted = d.halted,
           c.memory = d.memory, c.cache = d.cache,
           \A p \in PredIndices : c.preds[p] = d.preds[p],
           \A r \in GprIndices : c.gprs[r] = d.gprs[r] /\ c.ready[r] = d.ready[r]
    PROVE  c = d
  <1>1. c.gprs = d.gprs
    <2>1. c.gprs = [r \in GprIndices |-> c.gprs[r]] /\ d.gprs = [r \in GprIndices |-> d.gprs[r]]
      BY DEF IsCpu
    <2> QED
      BY <2>1, Zenon
  <1>2. c.preds = d.preds
    <2>1. c.preds = [p \in PredIndices |-> c.preds[p]]
      BY DEF IsCpu
    <2>2. d.preds = [p \in PredIndices |-> d.preds[p]]
      BY DEF IsCpu
    <2>3. [p \in PredIndices |-> c.preds[p]] = [p \in PredIndices |-> d.preds[p]]
      BY Zenon
    <2> QED
      BY <2>1, <2>2, <2>3, Zenon
  <1>3. c.ready = d.ready
    <2>1. c.ready \in [GprIndices -> Nat] /\ d.ready \in [GprIndices -> Nat]
      BY DEF IsCpu
    <2> QED
      BY <2>1
  <1>4. \A f \in DOMAIN NewCpu : c[f] = d[f]
    BY <1>1, <1>2, <1>3 DEF NewCpu
  <1>5. c = [f \in DOMAIN NewCpu |-> c[f]] /\ d = [f \in DOMAIN NewCpu |-> d[f]]
    BY DEF IsCpu
  <1> QED
    BY <1>4, <1>5, Zenon

LEMMA OnlyCpu ==
    ASSUME AloneInv
    PROVE  /\ Cpus = {0} /\ 0 \in Cpus
           /\ BusOwner(cycle) = 0 /\ Granted = RequestOf(0)
           /\ IsCpu(cpus[0]) /\ cpus[0] \in CpuStates /\ memory \in Memories /\ cycle \in Nat
           /\ Synced(cpus[0], memory) = cpus[0]
           /\ AllStepped = StepCpu([cpus |-> cpus, memory |-> memory,
                                    progress |-> FALSE, panicked |-> FALSE], 0)
  <1>1. Cpus = {0} /\ 0 \in Cpus
    BY DEF AloneInv, Cpus
  <1>2. cycle \in Nat /\ IsCpu(cpus[0])
    BY <1>1 DEF AloneInv, SysInv
  <1>3. BusOwner(cycle) = 0
    BY <1>1, <1>2, OwnerIsACpu
  <1>4. Synced(cpus[0], memory) = cpus[0]
    <2> DEFINE c == cpus[0]
               d == Synced(c, memory)
    <2>1. /\ IsCpu(d) /\ d.cycle = cycle /\ d.memory = memory
          /\ d.gprs = c.gprs /\ d.preds = c.preds /\ d.pc = c.pc
          /\ d.ready = c.ready /\ d.cache = c.cache /\ d.halted = c.halted
      BY <1>2, SyncedEffect
    <2>2. c.cycle = cycle /\ c.memory = memory /\ IsCpu(c)
      BY <1>2 DEF AloneInv
    <2> HIDE DEF c, d
    <2>3. d = c
      BY <2>1, <2>2, SameCpu
    <2> QED
      BY <2>3 DEF c, d
  <1>5. AllStepped = StepCpu([cpus |-> cpus, memory |-> memory,
                              progress |-> FALSE, panicked |-> FALSE], 0)
    <2>1. 1 \in 1 .. NumCpus /\ 1 - 1 = 0
      BY DEF AloneInv
    <2>2. SteppedUpTo[1] = StepCpu(SteppedUpTo[0], 0)
      BY <2>1, SteppedUpToDef
    <2> QED
      BY <2>2, SteppedUpToDef DEF AllStepped, AloneInv
  <1> QED
    BY <1>1, <1>2, <1>3, <1>4, <1>5 DEF Granted, AloneInv, TypeOK

\* The operators of CpuCore are those of the system.
LEMMA AloneClasses ==
    /\ Alone!Loads = Loads /\ Alone!Stores = Stores /\ Alone!MemoryOps = MemoryOps
    /\ Alone!ControlOps = ControlOps /\ Alone!PredicateOps = PredicateOps
    /\ Alone!Compares = Compares /\ Alone!WritesPred = WritesPred
    /\ Alone!GprWriters = GprWriters
    /\ \A op : Alone!AccessWidth(op) = AccessWidth(op)
    /\ Alone!GprIndices = GprIndices /\ Alone!PredIndices = PredIndices
    /\ Alone!NoReg = NoReg
  BY DEF Alone!Loads, Loads, Alone!Stores, Stores, Alone!MemoryOps, MemoryOps,
         Alone!ControlOps, ControlOps, Alone!PredicateOps, PredicateOps,
         Alone!Compares, Compares, Alone!IntegerCompares, IntegerCompares,
         Alone!FpCompares, FpCompares, Alone!WritesPred, WritesPred,
         Alone!GprWriters, GprWriters, Alone!IntegerOps, IntegerOps,
         Alone!MultiplyOps, MultiplyOps, Alone!Fp32Ops, Fp32Ops, Alone!Fp64Ops, Fp64Ops,
         Alone!AesOps, AesOps, Alone!AccessWidth, AccessWidth,
         Alone!GprIndices, GprIndices, Alone!PredIndices, PredIndices, Alone!NoReg, NoReg

LEMMA AloneMemory ==
    /\ Alone!WordMod = WordMod /\ Alone!Addresses = Addresses
    /\ Alone!ZeroMemory = ZeroMemory
    /\ \A a, w : Alone!InBounds(a, w) <=> InBounds(a, w)
    /\ \A b : Alone!PowersOf(b) = PowersOf(b)
    /\ \A f, n : Alone!Total(f, n) = Total(f, n)
    /\ \A m, a, w : Alone!LoadBytes(m, a, w) = LoadBytes(m, a, w)
    /\ \A v, w : Alone!ToBytes(v, w) = ToBytes(v, w)
    /\ \A m, a, d : Alone!StoreBytes(m, a, d) = StoreBytes(m, a, d)
  <1>1. /\ Alone!WordMod = WordMod /\ Alone!Addresses = Addresses
        /\ Alone!ZeroMemory = ZeroMemory
        /\ \A a, w : Alone!InBounds(a, w) <=> InBounds(a, w)
    BY DEF Alone!WordMod, WordMod, Alone!Addresses, Addresses, Alone!ZeroMemory, ZeroMemory,
           Alone!InBounds, InBounds
  <1>2. \A b : Alone!PowersOf(b) = PowersOf(b)
    BY Zenon DEF Alone!PowersOf, PowersOf
  <1>3. \A f, n : Alone!Total(f, n) = Total(f, n)
    BY Zenon DEF Alone!Total, Total
  <1>4. \A m, a, w : Alone!LoadBytes(m, a, w) = LoadBytes(m, a, w)
    BY <1>2, <1>3 DEF Alone!LoadBytes, LoadBytes
  <1>5. \A v, w : Alone!ToBytes(v, w) = ToBytes(v, w)
    BY <1>2 DEF Alone!ToBytes, ToBytes, Alone!ByteAt, ByteAt
  <1>6. \A m, a, d : Alone!StoreBytes(m, a, d) = StoreBytes(m, a, d)
    BY <1>1 DEF Alone!StoreBytes, StoreBytes, Alone!ByteAfter, ByteAfter
  <1> QED
    BY <1>1, <1>2, <1>3, <1>4, <1>5, <1>6

LEMMA AloneCache ==
    /\ Alone!NewCache = NewCache
    /\ \A lines, addr : /\ Alone!PeekOutcome(lines, addr) = PeekOutcome(lines, addr)
                        /\ Alone!AccessLoad(lines, addr) = AccessLoad(lines, addr)
                        /\ Alone!AccessStore(lines, addr) = AccessStore(lines, addr)
    /\ \A outcome : Alone!OutcomeLatency(outcome) = OutcomeLatency(outcome)
  <1>1. /\ Alone!NLines = NLines /\ Alone!LineIndices = LineIndices
        /\ \A a : Alone!CacheIndex(a) = CacheIndex(a) /\ Alone!CacheTag(a) = CacheTag(a)
        /\ \A tag : Alone!InvalidLine(tag) = InvalidLine(tag)
    BY DEF Alone!NLines, NLines, Alone!LineIndices, LineIndices, Alone!CacheIndex, CacheIndex,
           Alone!CacheTag, CacheTag, Alone!InvalidLine, InvalidLine
  <1>2. \A lines, addr : Alone!Holds(lines, addr) <=> Holds(lines, addr)
    BY <1>1 DEF Alone!Holds, Holds
  <1>3. \A lines, addr : Alone!EvictsDirty(lines, addr) <=> EvictsDirty(lines, addr)
    BY <1>1, <1>2 DEF Alone!EvictsDirty, EvictsDirty
  <1>4. \A lines, addr : Alone!PeekOutcome(lines, addr) = PeekOutcome(lines, addr)
    BY <1>2, <1>3 DEF Alone!PeekOutcome, PeekOutcome
  <1>5. \A addr, s : Alone!FilledLine(addr, s) = FilledLine(addr, s)
    BY <1>1 DEF Alone!FilledLine, FilledLine
  <1>6. \A lines, addr, line : Alone!SetLine(lines, addr, line) = SetLine(lines, addr, line)
    BY <1>1 DEF Alone!SetLine, SetLine
  <1>7. \A lines, addr : /\ Alone!AccessLoad(lines, addr) = AccessLoad(lines, addr)
                         /\ Alone!AccessStore(lines, addr) = AccessStore(lines, addr)
    BY <1>5, <1>6 DEF Alone!AccessLoad, AccessLoad, Alone!AccessStore, AccessStore
  <1>8. \A outcome : Alone!OutcomeLatency(outcome) = OutcomeLatency(outcome)
    BY DEF Alone!OutcomeLatency, OutcomeLatency
  <1>9. Alone!NewCache = NewCache
    BY <1>1 DEF Alone!NewCache, NewCache
  <1> QED
    BY <1>4, <1>7, <1>8, <1>9

LEMMA AloneRegisters ==
    /\ Alone!NewCpu = NewCpu
    /\ \A x : Alone!AsWord(x) = AsWord(x)
    /\ \A c, r : Alone!ReadGpr(c, r) = ReadGpr(c, r)
    /\ \A c, r, v : Alone!WriteGpr(c, r, v) = WriteGpr(c, r, v)
    /\ \A c, p : Alone!ReadPred(c, p) <=> ReadPred(c, p)
    /\ \A c, p, v : Alone!WritePred(c, p, v) = WritePred(c, p, v)
    /\ \A c, syl : Alone!Active(c, syl) <=> Active(c, syl)
    /\ \A c, r, n : Alone!SetReady(c, r, n) = SetReady(c, r, n)
    /\ \A c, syl, v, n : Alone!Writeback(c, syl, v, n) = Writeback(c, syl, v, n)
    /\ \A c, syl : Alone!EffectiveAddress(c, syl) = EffectiveAddress(c, syl)
    /\ \A c, syl : Alone!FaultsAt(c, syl) <=> FaultsAt(c, syl)
  <1>1. \A x : Alone!AsWord(x) = AsWord(x)
    BY AloneMemory DEF Alone!AsWord, AsWord
  <1>2. Alone!NewCpu = NewCpu
    BY AloneClasses, AloneCache, AloneMemory DEF Alone!NewCpu, NewCpu
  <1>3. \A c, r : Alone!ReadGpr(c, r) = ReadGpr(c, r)
    BY AloneClasses DEF Alone!ReadGpr, ReadGpr
  <1>4. \A c, r, v : Alone!WriteGpr(c, r, v) = WriteGpr(c, r, v)
    BY AloneClasses DEF Alone!WriteGpr, WriteGpr
  <1>5. \A c, p : Alone!ReadPred(c, p) <=> ReadPred(c, p)
    BY AloneClasses DEF Alone!ReadPred, ReadPred
  <1>6. \A c, p, v : Alone!WritePred(c, p, v) = WritePred(c, p, v)
    BY AloneClasses DEF Alone!WritePred, WritePred
  <1>7. \A c, syl : Alone!Active(c, syl) <=> Active(c, syl)
    BY <1>5, AloneClasses, Zenon DEF Alone!Active, Active, Alone!ReadPred, ReadPred
  <1>8. \A c, r, n : Alone!SetReady(c, r, n) = SetReady(c, r, n)
    BY AloneClasses DEF Alone!SetReady, SetReady
  <1>9. \A c, syl, v, n : Alone!Writeback(c, syl, v, n) = Writeback(c, syl, v, n)
    BY <1>4, <1>8 DEF Alone!Writeback, Writeback
  <1>10. \A c, syl : Alone!EffectiveAddress(c, syl) = EffectiveAddress(c, syl)
    BY <1>1, <1>3 DEF Alone!EffectiveAddress, EffectiveAddress
  <1>11. \A c, syl : Alone!FaultsAt(c, syl) <=> FaultsAt(c, syl)
    BY <1>7, <1>10, AloneMemory, AloneClasses DEF Alone!FaultsAt, FaultsAt
  <1> QED
    BY <1>1, <1>2, <1>3, <1>4, <1>5, <1>6, <1>7, <1>8, <1>9, <1>10, <1>11

LEMMA AloneResults ==
    /\ \A op \in GprWriters \ Loads : \A a, b, imm :
         Alone!AluResult(op, a, b, imm) = AluResult(op, a, b, imm)
    /\ \A op, a, b : Alone!CompareResult(op, a, b) = CompareResult(op, a, b)
    /\ \A op, a, b : Alone!PredicateResult(op, a, b) = PredicateResult(op, a, b)
  <1>1. /\ Alone!WordBytes = WordBytes /\ Alone!WordBits = WordBits /\ Alone!HalfMod = HalfMod
        /\ Alone!BitPairs = BitPairs
    BY AloneMemory DEF Alone!WordBytes, WordBytes, Alone!WordBits, WordBits,
                       Alone!HalfMod, HalfMod, Alone!BitPairs, BitPairs
  <1>2. \A x, i : Alone!Bit(x, i) = Bit(x, i)
    BY AloneMemory DEF Alone!Bit, Bit
  <1>3. \A table, a, b : Alone!Bitwise2(table, a, b) = Bitwise2(table, a, b)
    BY <1>1, <1>2, AloneMemory DEF Alone!Bitwise2, Bitwise2
  <1>4. \A a, b : /\ Alone!BitAnd(a, b) = BitAnd(a, b) /\ Alone!BitOr(a, b) = BitOr(a, b)
                  /\ Alone!BitXor(a, b) = BitXor(a, b)
    BY <1>1, <1>3 DEF Alone!BitAnd, BitAnd, Alone!BitOr, BitOr, Alone!BitXor, BitXor
  <1>5. /\ \A x : Alone!Signed(x) = Signed(x) /\ Alone!SignedHalf(x) = SignedHalf(x)
        /\ \A a, b : Alone!Quotient(a, b) = Quotient(a, b)
    BY <1>1, AloneMemory DEF Alone!Signed, Signed, Alone!SignedHalf, SignedHalf,
                             Alone!Quotient, Quotient
  <1>6. \A op \in GprWriters \ Loads : \A a, b, imm :
           Alone!AluResult(op, a, b, imm) = AluResult(op, a, b, imm)
    <2> SUFFICES ASSUME NEW op \in GprWriters \ Loads, NEW a, NEW b, NEW imm
                 PROVE  Alone!AluResult(op, a, b, imm) = AluResult(op, a, b, imm)
      OBVIOUS
    <2> DEFINE v4 == BitAnd(a, b)
               w4 == Alone!BitAnd(a, b)
               v5 == BitOr(a, b)
               w5 == Alone!BitOr(a, b)
               v6 == BitXor(a, b)
               w6 == Alone!BitXor(a, b)
               v7 == a * PowersOf(2)[b % WordBits]
               w7 == a * Alone!PowersOf(2)[b % Alone!WordBits]
               v8 == a \div PowersOf(2)[b % WordBits]
               w8 == a \div Alone!PowersOf(2)[b % Alone!WordBits]
               v9 == Signed(a) \div PowersOf(2)[b % WordBits]
               w9 == Alone!Signed(a) \div Alone!PowersOf(2)[b % Alone!WordBits]
               v13 == (a * b) \div WordMod
               w13 == (a * b) \div Alone!WordMod
               v14 == Quotient(a, b)
               w14 == Alone!Quotient(a, b)
               v15 == (a + b) % HalfMod
               w15 == (a + b) % Alone!HalfMod
               v16 == (a - b) % HalfMod
               w16 == (a - b) % Alone!HalfMod
               v17 == (a * b) % HalfMod
               w17 == (a * b) % Alone!HalfMod
               v18 == Quotient(a % HalfMod, b % HalfMod)
               w18 == Alone!Quotient(a % Alone!HalfMod, b % Alone!HalfMod)
               v19 == a % HalfMod
               w19 == a % Alone!HalfMod
               v20 == SignedHalf(a)
               w20 == Alone!SignedHalf(a)
               v21 == BitXor(BitXor(a, b), AsWord(99))
               w21 == Alone!BitXor(Alone!BitXor(a, b), Alone!AsWord(99))
               v22 == BitXor(BitXor(a, b), AsWord(5))
               w22 == Alone!BitXor(Alone!BitXor(a, b), Alone!AsWord(5))
               x ==
                 CASE op \in {"Add", "FpAdd64"} -> a + b
                   [] op \in {"AddImm", "Lea"} -> a + imm
                   [] op \in {"Sub", "FpSub64"} -> a - b
                   [] op = "SubImm" -> a - imm
                   [] op = "And" -> v4
                   [] op = "Or" -> v5
                   [] op = "Xor" -> v6
                   [] op = "Shl" -> v7
                   [] op = "Srl" -> v8
                   [] op = "Sra" -> v9
                   [] op \in {"Mov", "FpCvtI64ToFp64", "FpCvtFp64ToI64"} -> a
                   [] op = "MovImm" -> imm
                   [] op \in {"Mul", "FpMul64"} -> a * b
                   [] op = "MulH" -> v13
                   [] op = "FpDiv64" -> v14
                   [] op = "FpAdd32" -> v15
                   [] op = "FpSub32" -> v16
                   [] op = "FpMul32" -> v17
                   [] op = "FpDiv32" -> v18
                   [] op \in {"FpCvt32To64", "FpCvtI32ToFp32", "FpCvt64To32"} -> v19
                   [] op = "FpCvtFp32ToI32" -> v20
                   [] op = "AesEnc" -> v21
                   [] op = "AesDec" -> v22
               y ==
                 CASE op \in {"Add", "FpAdd64"} -> a + b
                   [] op \in {"AddImm", "Lea"} -> a + imm
                   [] op \in {"Sub", "FpSub64"} -> a - b
                   [] op = "SubImm" -> a - imm
                   [] op = "And" -> w4
                   [] op = "Or" -> w5
                   [] op = "Xor" -> w6
                   [] op = "Shl" -> w7
                   [] op = "Srl" -> w8
                   [] op = "Sra" -> w9
                   [] op \in {"Mov", "FpCvtI64ToFp64", "FpCvtFp64ToI64"} -> a
                   [] op = "MovImm" -> imm
                   [] op \in {"Mul", "FpMul64"} -> a * b
                   [] op = "MulH" -> w13
                   [] op = "FpDiv64" -> w14
                   [] op = "FpAdd32" -> w15
                   [] op = "FpSub32" -> w16
                   [] op = "FpMul32" -> w17
                   [] op = "FpDiv32" -> w18
                   [] op \in {"FpCvt32To64", "FpCvtI32ToFp32", "FpCvt64To32"} -> w19
                   [] op = "FpCvtFp32ToI32" -> w20
                   [] op = "AesEnc" -> w21
                   [] op = "AesDec" -> w22
    <2>1. AluResult(op, a, b, imm) = AsWord(x)
      BY DEF AluResult
    <2>2. Alone!AluResult(op, a, b, imm) = Alone!AsWord(y)
      BY DEF Alone!AluResult
    <2>3. /\ w4 = v4
          /\ w5 = v5
          /\ w6 = v6
          /\ w7 = v7
          /\ w8 = v8
          /\ w9 = v9
          /\ w13 = v13
          /\ w14 = v14
          /\ w15 = v15
          /\ w16 = v16
          /\ w17 = v17
          /\ w18 = v18
          /\ w19 = v19
          /\ w20 = v20
          /\ w21 = v21
          /\ w22 = v22
      BY <1>1, <1>4, <1>5, AloneMemory, AloneRegisters
    <2>4. x = y
      <3> HIDE DEF v4, w4, v5, w5, v6, w6, v7, w7, v8, w8, v9, w9, v13, w13, v14, w14, v15, w15, v16, w16, v17, w17, v18, w18, v19, w19, v20, w20, v21, w21, v22, w22
      <3> QED
        BY <2>3 DEF GprWriters, Loads, IntegerOps, MultiplyOps, Fp32Ops, Fp64Ops, AesOps
    <2> HIDE DEF x, y
    <2> QED
      BY <2>1, <2>2, <2>4, AloneRegisters
  <1>7. \A op, a, b : Alone!CompareResult(op, a, b) = CompareResult(op, a, b)
    BY <1>1, <1>5 DEF Alone!CompareResult, CompareResult
  <1>8. \A op, a, b : Alone!PredicateResult(op, a, b) = PredicateResult(op, a, b)
    BY DEF Alone!PredicateResult, PredicateResult
  <1> QED
    BY <1>6, <1>7, <1>8

LEMMA AloneExecutes ==
    /\ \A c : Alone!Issuing(c) = Issuing(c)
    /\ \A c, syl : Alone!ExecSyllable(c, syl) = ExecSyllable(c, syl)
  <1>1. \A c : Alone!Issuing(c) = Issuing(c)
    BY DEF Alone!Issuing, Issuing
  <1>2. \A c, syl : Alone!ExecLoad(c, syl) = ExecLoad(c, syl)
    BY AloneClasses, AloneMemory, AloneCache, AloneRegisters DEF Alone!ExecLoad, ExecLoad
  <1>3. \A c, syl : Alone!ExecStore(c, syl) = ExecStore(c, syl)
    BY AloneClasses, AloneMemory, AloneCache, AloneRegisters DEF Alone!ExecStore, ExecStore
  <1>4. \A c, target : Alone!ExecCall(c, target) = ExecCall(c, target)
    BY AloneRegisters DEF Alone!ExecCall, ExecCall
  <1>5. \A c, syl : Alone!ExecControl(c, syl) = ExecControl(c, syl)
    BY <1>4, AloneRegisters DEF Alone!ExecControl, ExecControl
  <1>6. \A c, syl : Alone!ExecSyllable(c, syl) = ExecSyllable(c, syl)
    <2> SUFFICES ASSUME NEW c, NEW syl
                 PROVE  Alone!ExecSyllable(c, syl) = ExecSyllable(c, syl)
      OBVIOUS
    <2> DEFINE a == ReadGpr(c, syl.src[1])
               b == ReadGpr(c, syl.src[2])
               p == ReadPred(c, syl.src[1])
               q == ReadPred(c, syl.src[2])
    <2>1. Alone!ReadPred(c, syl.src[1]) = p /\ Alone!ReadPred(c, syl.src[2]) = q
      BY AloneClasses, Zenon DEF Alone!ReadPred, ReadPred
    <2>2. /\ Alone!WritePred(c, syl.dst, Alone!CompareResult(syl.op, a, b))
               = WritePred(c, syl.dst, CompareResult(syl.op, a, b))
          /\ Alone!WritePred(c, syl.dst,
                   Alone!PredicateResult(syl.op, Alone!ReadPred(c, syl.src[1]),
                                                 Alone!ReadPred(c, syl.src[2])))
               = WritePred(c, syl.dst, PredicateResult(syl.op, p, q))
      BY <2>1, AloneRegisters, AloneResults, Zenon
    <2>3. Alone!ReadGpr(c, syl.src[1]) = a /\ Alone!ReadGpr(c, syl.src[2]) = b
      BY AloneRegisters
    <2>4. syl.op \in GprWriters \ Loads =>
            Alone!AluResult(syl.op, a, b, syl.imm) = AluResult(syl.op, a, b, syl.imm)
      BY AloneResults
    <2> QED
      BY <1>2, <1>3, <1>5, <2>2, <2>3, <2>4, AloneClasses, AloneRegisters
         DEF Alone!ExecSyllable, ExecSyllable
  <1> QED
    BY <1>1, <1>6

LEMMA AloneChecks ==
    /\ \A c, program : Alone!Finished(c, program) <=> Finished(c, program)
    /\ \A c, bundle : Alone!BundleIsLegal(c, bundle) <=> BundleIsLegal(c, bundle)
    /\ \A c, bundle : Alone!HasUnreadySources(c, bundle) <=> HasUnreadySources(c, bundle)
  <1>1. \A c, bundle : Alone!ActiveSlots(c, bundle) = ActiveSlots(c, bundle)
    BY AloneRegisters DEF Alone!ActiveSlots, ActiveSlots
  <1>2. /\ \A syl : Alone!GprWriteDst(syl) = GprWriteDst(syl)
        /\ \A syl, r : Alone!Reads(syl, r) <=> Reads(syl, r)
    BY AloneClasses DEF Alone!GprWriteDst, GprWriteDst, Alone!Reads, Reads
  <1>3. \A a, b : /\ Alone!RuntimeGprHazard(a, b) <=> RuntimeGprHazard(a, b)
                  /\ Alone!RuntimePredHazard(a, b) <=> RuntimePredHazard(a, b)
    BY <1>2, AloneClasses DEF Alone!RuntimeGprHazard, RuntimeGprHazard,
                              Alone!RuntimePredHazard, RuntimePredHazard
  <1>4. \A kind : Alone!UnitKindExecutes(kind) = UnitKindExecutes(kind)
    BY AloneClasses
       DEF Alone!UnitKindExecutes, UnitKindExecutes, Alone!IntegerOps, IntegerOps,
           Alone!IntegerCompares, IntegerCompares, Alone!MultiplyOps, MultiplyOps,
           Alone!Fp32Ops, Fp32Ops, Alone!Fp64Ops, Fp64Ops, Alone!FpCompares, FpCompares,
           Alone!AesOps, AesOps
  <1>5. \A s, op : Alone!SlotCanExecute(s, op) <=> SlotCanExecute(s, op)
    BY <1>4 DEF Alone!SlotCanExecute, SlotCanExecute
  <1>6. \A c, bundle : Alone!BundleIsLegal(c, bundle) <=> BundleIsLegal(c, bundle)
    BY <1>1, <1>3, <1>5 DEF Alone!BundleIsLegal, BundleIsLegal
  <1>7. \A c, syl : Alone!UnreadySource(c, syl) <=> UnreadySource(c, syl)
    BY <1>2, AloneClasses DEF Alone!UnreadySource, UnreadySource
  <1>8. \A c, bundle : Alone!HasUnreadySources(c, bundle) <=> HasUnreadySources(c, bundle)
    BY <1>1, <1>7 DEF Alone!HasUnreadySources, HasUnreadySources
  <1>9. \A c, program : Alone!Finished(c, program) <=> Finished(c, program)
    BY DEF Alone!Finished, Finished
  <1> QED
    BY <1>6, <1>8, <1>9

\* The recursive definition of the slots of step_trace has a solution.
LEMMA TracedSlotsDef ==
    ASSUME Len(NextBundle(0)) \in Nat
    PROVE  /\ Alone!AfterSlot[0] = [cpu |-> Issuing(cpus[0]), panicked |-> FALSE]
           /\ \A s \in 1 .. Len(NextBundle(0)) :
                Alone!AfterSlot[s] =
                  LET before == Alone!AfterSlot[s - 1]
                  IN  IF before.panicked \/ before.cpu.halted THEN before
                      ELSE IF FaultsAt(before.cpu, NextBundle(0)[s])
                           THEN [before EXCEPT !.panicked = TRUE]
                      ELSE [before EXCEPT !.cpu = ExecSyllable(@, NextBundle(0)[s])]
  <1> DEFINE Start == [cpu |-> Issuing(cpus[0]), panicked |-> FALSE]
             Then(before, s) ==
                IF before.panicked \/ before.cpu.halted THEN before
                ELSE IF FaultsAt(before.cpu, NextBundle(0)[s])
                     THEN [before EXCEPT !.panicked = TRUE]
                ELSE [before EXCEPT !.cpu = ExecSyllable(@, NextBundle(0)[s])]
             Solves(f, n) ==
                f = [s \in 0 .. n |-> IF s = 0 THEN Start ELSE Then(f[s - 1], s)]
             S == {n \in Nat : \E f : Solves(f, n)}
  <1>1. 0 \in S
    <2> DEFINE f == [s \in 0 .. 0 |-> Start]
    <2>1. Solves(f, 0)
      OBVIOUS
    <2> QED
      BY <2>1
  <1>2. ASSUME NEW n \in Nat, n \in S PROVE n + 1 \in S
    <2> HIDE DEF Start, Then
    <2>1. PICK f : Solves(f, n)
      BY <1>2
    <2> DEFINE g == [s \in 0 .. n + 1 |-> IF s = n + 1 THEN Then(f[n], n + 1) ELSE f[s]]
    <2>2. g = [s \in 0 .. n + 1 |-> IF s = 0 THEN Start ELSE Then(g[s - 1], s)]
      <3>1. ASSUME NEW s \in 0 .. n + 1
            PROVE  g[s] = IF s = 0 THEN Start ELSE Then(g[s - 1], s)
        <4>1. CASE s = n + 1
          <5>1. g[s] = Then(f[n], n + 1) /\ s - 1 = n /\ g[n] = f[n]
            BY <4>1
          <5> HIDE DEF g
          <5> QED
            BY <4>1, <5>1
        <4>2. CASE s # n + 1
          <5>1. s \in 0 .. n /\ (s # 0 => s - 1 \in 0 .. n)
            BY <4>2
          <5>2. f[s] = IF s = 0 THEN Start ELSE Then(f[s - 1], s)
            BY <2>1, <5>1
          <5>3. g[s] = f[s] /\ (s # 0 => g[s - 1] = f[s - 1])
            BY <4>2, <5>1
          <5> HIDE DEF g
          <5> QED
            BY <5>2, <5>3
        <4> QED
          BY <4>1, <4>2
      <3> QED
        BY <3>1
    <2> HIDE DEF g
    <2>3. \E h : Solves(h, n + 1)
      BY <2>2
    <2> QED
      BY <2>3
  <1> HIDE DEF S
  <1>3. Len(NextBundle(0)) \in S
    BY <1>1, <1>2, NatSetInduction
  <1>4. PICK f : Solves(f, Len(NextBundle(0)))
    BY <1>3 DEF S
  <1> HIDE DEF Start, Then
  <1>5. Solves(Alone!AfterSlot, Len(NextBundle(0)))
    BY <1>4, AloneExecutes, AloneRegisters
       DEF Alone!AfterSlot, Alone!Bundle, NextBundle, Start, Then
  <1>6. Alone!AfterSlot[0] = Start
    BY <1>5
  <1>7. ASSUME NEW s \in 1 .. Len(NextBundle(0))
        PROVE  Alone!AfterSlot[s] = Then(Alone!AfterSlot[s - 1], s)
    <2>1. s \in 0 .. Len(NextBundle(0)) /\ s # 0
      OBVIOUS
    <2> QED
      BY <1>5, <2>1
  <1> QED
    BY <1>6, <1>7 DEF Start, Then

-----------------------------------------------------------------------------
(* A bundle with its memory operation and without it, slot by slot. *)

\* The bundle of CPU c may lose the memory operation of slot m.
Separable(c, bundle, m) ==
    /\ IsCpu(c) /\ ~c.halted
    /\ bundle \in Seq(Syllable) /\ DOMAIN bundle = 1 .. Len(bundle)
    /\ m \in DOMAIN bundle /\ bundle[m].op \in MemoryOps /\ Active(c, bundle[m])
    /\ AccessIsSettled(bundle) /\ GuardsAreSettled(bundle)
    /\ BundleIsLegal(c, bundle)
    /\ \A s \in ActiveSlots(c, bundle) :
         /\ bundle[s].op \notin ControlOps
         /\ s > m /\ GprWriteDst(bundle[m]) = 0 => GprWriteDst(bundle[s]) # 0

SameClocks(c, f, g) ==
    /\ IsCpu(f) /\ ~f.halted /\ f.cycle = c.cycle + 1 /\ f.pc = c.pc + 1
    /\ IsCpu(g) /\ ~g.halted /\ g.cycle = c.cycle + 1

SamePreds(f, g) == \A p \in PredIndices : f.preds[p] = g.preds[p]

\* The slots behind the first s have the guards and the operands of the start.
GuardsLeft(c, bundle, s, f) ==
    \A t \in DOMAIN bundle : s < t => (Active(f, bundle[t]) <=> Active(c, bundle[t]))

OperandsLeft(c, bundle, s, f) ==
    \A t \in ActiveSlots(c, bundle) : s < t =>
        \A k \in {1, 2} : ReadGpr(f, bundle[t].src[k]) = ReadGpr(c, bundle[t].src[k])

\* What the access of a syllable does when CPU c makes it.
LoadedBy(c, syl) == LoadBytes(c.memory, EffectiveAddress(c, syl), AccessWidth(syl.op))

LoadedAt(c, syl) == c.cycle + 1 + OutcomeLatency(PeekOutcome(c.cache, EffectiveAddress(c, syl)))

CacheAfter(c, syl) ==
    IF syl.op \in Loads THEN AccessLoad(c.cache, EffectiveAddress(c, syl))
    ELSE AccessStore(c.cache, EffectiveAddress(c, syl))

MemoryAfter(c, syl) ==
    IF syl.op \in Loads THEN c.memory
    ELSE StoreBytes(c.memory, EffectiveAddress(c, syl),
                    ToBytes(ReadGpr(c, syl.src[2]), AccessWidth(syl.op)))

AccessSoFar(c, syl, done, f, g) ==
    /\ g.memory = c.memory /\ g.cache = c.cache
    /\ f.memory = IF done THEN MemoryAfter(c, syl) ELSE c.memory
    /\ f.cache = IF done THEN CacheAfter(c, syl) ELSE c.cache

RegistersSoFar(c, syl, done, f, g) ==
    \A r \in GprIndices :
        /\ f.gprs[r] = IF done /\ syl.op \in Loads /\ r = syl.dst /\ r # 0
                       THEN LoadedBy(c, syl) ELSE g.gprs[r]
        /\ f.ready[r] = IF done /\ syl.op \in Loads /\ r = syl.dst
                        THEN LoadedAt(c, syl) ELSE g.ready[r]

\* f is the CPU after s slots of the bundle and g after those of the rest of it.
Beside(c, bundle, m, s, f, g) ==
    /\ SameClocks(c, f, g) /\ SamePreds(f, g)
    /\ GuardsLeft(c, bundle, s, f)
    /\ OperandsLeft(c, bundle, s, f) /\ OperandsLeft(c, bundle, s, g)
    /\ AccessSoFar(c, bundle[m], s >= m, f, g)
    /\ RegistersSoFar(c, bundle[m], s >= m, f, g)

\* What an active slot does not disturb in the slots behind it.
LEMMA SlotsBehind ==
    ASSUME NEW c, NEW bundle, NEW m, Separable(c, bundle, m), NEW s \in ActiveSlots(c, bundle),
           NEW b, NEW d, Frame(b, bundle[s], d)
    PROVE  /\ GuardsLeft(c, bundle, s - 1, b) => GuardsLeft(c, bundle, s, d)
           /\ OperandsLeft(c, bundle, s - 1, b) => OperandsLeft(c, bundle, s, d)
  <1>0. s \in DOMAIN bundle /\ DOMAIN bundle \subseteq Nat /\ s \in Nat
    BY DEF ActiveSlots, Separable
  <1>1. ASSUME GuardsLeft(c, bundle, s - 1, b), NEW t \in DOMAIN bundle, s < t
        PROVE  Active(d, bundle[t]) <=> Active(c, bundle[t])
    <2>1. s - 1 < t /\ t \in Nat
      BY <1>0, <1>1
    <2>2. Active(b, bundle[t]) <=> Active(c, bundle[t])
      BY <1>1, <2>1 DEF GuardsLeft
    <2>3. bundle[s].op \in WritesPred => bundle[t].pred \notin {bundle[s].dst} \ {0}
      BY <1>0, <1>1 DEF Separable, GuardsAreSettled
    <2>4. Active(d, bundle[t]) <=> Active(b, bundle[t])
      BY <2>3, GuardIsSettled DEF Frame
    <2> QED
      BY <2>2, <2>4
  <1>2. ASSUME OperandsLeft(c, bundle, s - 1, b), NEW t \in ActiveSlots(c, bundle), s < t,
               NEW k \in {1, 2}
        PROVE  ReadGpr(d, bundle[t].src[k]) = ReadGpr(c, bundle[t].src[k])
    <2>1. s - 1 < t /\ t \in DOMAIN bundle
      BY <1>0, <1>2 DEF ActiveSlots
    <2> DEFINE x == bundle[t].src[k]
    <2>2. ReadGpr(b, x) = ReadGpr(c, x)
      BY <1>2, <2>1 DEF OperandsLeft
    <2>3. ~RuntimeGprHazard(bundle[s], bundle[t])
      BY <1>2 DEF Separable, BundleIsLegal
    <2>4. x \in GprIndices \ {0} => GprWriteDst(bundle[s]) # x
      BY <2>3 DEF RuntimeGprHazard, Reads
    <2> HIDE DEF x
    <2>5. ReadGpr(d, x) = ReadGpr(b, x)
      BY <2>4 DEF ReadGpr, Frame
    <2> QED
      BY <2>2, <2>5 DEF x
  <1> QED
    BY <1>1, <1>2 DEF GuardsLeft, OperandsLeft

\* The result of a syllable that only computes is ready after its latency.
LEMMA ComputedReady ==
    ASSUME NEW c, IsCpu(c), NEW syl \in Syllable, Active(c, syl),
           syl.op \notin MemoryOps, syl.op \notin ControlOps,
           NEW r \in GprIndices, GprWriteDst(syl) = r
    PROVE  ExecSyllable(c, syl).ready[r] = c.cycle + Latency[syl.op]
  <1>1. NoReg # r /\ syl.op # "Call"
    BY DEF NoReg, GprIndices, ControlOps
  <1>2. syl.op \in GprWriters \ Loads /\ syl.dst = r
    BY <1>1 DEF GprWriteDst, MemoryOps
  <1>3. Latency[syl.op] \in Nat
    <2>1. syl.op \in Opcodes
      BY DEF Syllable
    <2> QED
      BY <2>1, CpuAssumption
  <1>4. ExecSyllable(c, syl) = Writeback(c, syl, ComputedBy(c, syl), Latency[syl.op])
    BY <1>2, ExecSyllableCases
  <1> QED
    BY <1>2, <1>3, <1>4, WritebackFields

\* The cache after the CPU's own load.
LEMMA LoadCache ==
    ASSUME NEW c, IsCpu(c), NEW syl
    PROVE  ExecLoad(c, syl).cache = AccessLoad(c.cache, EffectiveAddress(c, syl))
  <1> DEFINE addr == EffectiveAddress(c, syl)
             e == [c EXCEPT !.cache = AccessLoad(@, addr)]
  <1>1. e.cache = AccessLoad(c.cache, addr)
    BY DEF IsCpu, NewCpu
  <1>2. \A x, r, v : WriteGpr(x, r, v).cache = x.cache
    BY DEF WriteGpr
  <1>3. \A x, r, n : SetReady(x, r, n).cache = x.cache
    BY DEF SetReady
  <1>4. \E v, n : ExecLoad(c, syl) = Writeback(e, syl, v, n)
    BY DEF ExecLoad
  <1> HIDE DEF e
  <1> QED
    BY <1>1, <1>2, <1>3, <1>4 DEF Writeback

\* A slot that is not that of the access does the same with and without it.
LEMMA OtherSlot ==
    ASSUME NEW c, NEW bundle, NEW m, Separable(c, bundle, m),
           NEW s \in DOMAIN bundle, s # m, NEW b, NEW a, Beside(c, bundle, m, s - 1, b, a)
    PROVE  /\ ~FaultsAt(b, bundle[s])
           /\ Beside(c, bundle, m, s, ExecSyllable(b, bundle[s]), ExecSyllable(a, bundle[s]))
  <1> DEFINE syl == bundle[s]
             acc == bundle[m]
             d == ExecSyllable(b, syl)
             e == ExecSyllable(a, syl)
             done == s >= m
  <1>0. /\ s \in Nat /\ m \in Nat /\ m \in DOMAIN bundle /\ syl \in Syllable
        /\ \A t \in DOMAIN bundle : t \in Nat
        /\ acc \in Syllable
    BY DEF Separable
  <1>1. syl.op \notin MemoryOps
    BY <1>0 DEF Separable, AccessIsSettled
  <1>2. ~FaultsAt(b, syl)
    BY <1>1 DEF FaultsAt
  <1>3. (s - 1 >= m) = done
    BY <1>0
  <1>4. /\ SameClocks(c, b, a) /\ SamePreds(b, a)
        /\ GuardsLeft(c, bundle, s - 1, b)
        /\ OperandsLeft(c, bundle, s - 1, b) /\ OperandsLeft(c, bundle, s - 1, a)
        /\ AccessSoFar(c, acc, done, b, a)
        /\ RegistersSoFar(c, acc, done, b, a)
    BY <1>3 DEF Beside
  <1>5. /\ Active(b, syl) <=> Active(c, syl)
        /\ Active(a, syl) <=> Active(b, syl)
    <2>1. Active(b, syl) <=> Active(c, syl)
      BY <1>0, <1>4 DEF GuardsLeft
    <2>2. Active(a, syl) <=> Active(b, syl)
      BY <1>4, Zenon DEF SamePreds, Active, ReadPred
    <2> QED
      BY <2>1, <2>2
  <1>6. CASE ~Active(c, syl)
    <2>1. d = b /\ e = a
      BY <1>5, <1>6 DEF ExecSyllable
    <2>2. /\ GuardsLeft(c, bundle, s, b)
          /\ OperandsLeft(c, bundle, s, b) /\ OperandsLeft(c, bundle, s, a)
      <3>1. \A t \in DOMAIN bundle : s < t => s - 1 < t
        BY <1>0
      <3> QED
        BY <1>4, <3>1 DEF GuardsLeft, OperandsLeft, ActiveSlots
    <2> HIDE DEF d, e
    <2>3. Beside(c, bundle, m, s, d, e)
      BY <1>4, <2>1, <2>2 DEF Beside
    <2> QED
      BY <1>2, <2>3 DEF d, e
  <1>7. CASE Active(c, syl)
    <2>0. s \in ActiveSlots(c, bundle) /\ m \in ActiveSlots(c, bundle)
      BY <1>0, <1>7 DEF ActiveSlots, Separable
    <2>1. syl.op \notin ControlOps /\ syl.op # "Ret" /\ syl.op # "Call"
      BY <2>0 DEF Separable, ControlOps
    <2>2. Frame(b, syl, d) /\ Frame(a, syl, e)
      BY <1>0, <1>4, <1>5, <1>7, SyllableFrame DEF SameClocks
    <2>3. SameClocks(c, d, e)
      BY <1>4, <2>1, <2>2 DEF SameClocks, Frame
    <2>4. GuardsLeft(c, bundle, s, d) /\ OperandsLeft(c, bundle, s, d)
      BY <1>4, <2>0, <2>2, SlotsBehind
    <2>5. OperandsLeft(c, bundle, s, e)
      BY <1>4, <2>0, <2>2, SlotsBehind
    <2>6. AccessSoFar(c, acc, done, d, e)
      <3>1. d.memory = b.memory /\ d.cache = b.cache /\ e.memory = a.memory /\ e.cache = a.cache
        BY <1>1, <2>2 DEF Frame
      <3> QED
        BY <1>4, <3>1 DEF AccessSoFar
    <2>7. SameResult(d, e, syl)
      <3>1. \A k \in {1, 2} : ReadGpr(b, syl.src[k]) = ReadGpr(a, syl.src[k])
        <4>1. s - 1 < s
          BY <1>0
        <4> QED
          BY <1>4, <2>0, <4>1 DEF OperandsLeft
      <3>2. \A k \in {1, 2} : ReadPred(b, syl.src[k]) = ReadPred(a, syl.src[k])
        BY <1>4, Zenon DEF SamePreds, ReadPred
      <3>3. b.cycle = a.cycle
        BY <1>4 DEF SameClocks
      <3>4. SameInputs(b, a, syl)
        BY <1>1, <2>1, <3>1, <3>2, <3>3, Zenon DEF SameInputs
      <3> QED
        BY <1>0, <1>4, <1>5, <1>7, <3>4, SameInputsSameResult DEF SameClocks
    <2> HIDE DEF d, e
    <2>8. SamePreds(d, e)
      <3> SUFFICES ASSUME NEW p \in PredIndices PROVE d.preds[p] = e.preds[p]
        BY DEF SamePreds
      <3>1. CASE p # 0 /\ syl.op \in WritesPred /\ syl.dst = p
        BY <2>7, <3>1 DEF SameResult
      <3>2. CASE p = 0 \/ ~(syl.op \in WritesPred /\ syl.dst = p)
        <4>1. d.preds[p] = b.preds[p] /\ e.preds[p] = a.preds[p]
          BY <2>2, <3>2 DEF Frame
        <4> QED
          BY <1>4, <4>1 DEF SamePreds
      <3> QED
        BY <3>1, <3>2
    <2>9. RegistersSoFar(c, acc, done, d, e)
      <3> SUFFICES ASSUME NEW r \in GprIndices
                   PROVE  /\ d.gprs[r] = IF done /\ acc.op \in Loads /\ r = acc.dst /\ r # 0
                                         THEN LoadedBy(c, acc) ELSE e.gprs[r]
                          /\ d.ready[r] = IF done /\ acc.op \in Loads /\ r = acc.dst
                                          THEN LoadedAt(c, acc) ELSE e.ready[r]
        BY DEF RegistersSoFar
      <3>1. /\ b.gprs[r] = IF done /\ acc.op \in Loads /\ r = acc.dst /\ r # 0
                           THEN LoadedBy(c, acc) ELSE a.gprs[r]
            /\ b.ready[r] = IF done /\ acc.op \in Loads /\ r = acc.dst
                            THEN LoadedAt(c, acc) ELSE a.ready[r]
        BY <1>4 DEF RegistersSoFar
      <3>2. CASE GprWriteDst(syl) # r
        <4>1. /\ d.gprs[r] = b.gprs[r] /\ d.ready[r] = b.ready[r]
              /\ e.gprs[r] = a.gprs[r] /\ e.ready[r] = a.ready[r]
          BY <2>2, <3>2 DEF Frame
        <4> QED
          BY <3>1, <4>1
      <3>3. CASE GprWriteDst(syl) = r
        <4>1. ~(done /\ acc.op \in Loads /\ r = acc.dst)
          <5> SUFFICES ASSUME done, acc.op \in Loads, r = acc.dst PROVE FALSE
            OBVIOUS
          <5>1. m < s
            BY <1>0
          <5>2. GprWriteDst(acc) = r
            BY ClassesAreDisjoint DEF GprWriteDst, ControlOps
          <5>3. ~RuntimeGprHazard(acc, syl)
            BY <2>0, <5>1 DEF Separable, BundleIsLegal
          <5>4. r = 0
            BY <3>3, <5>2, <5>3 DEF RuntimeGprHazard
          <5>5. s > m
            BY <5>1
          <5> QED
            BY <2>0, <3>3, <5>2, <5>4, <5>5 DEF Separable
        <4>2. d.ready[r] = e.ready[r]
          <5>1. d.ready[r] = b.cycle + Latency[syl.op] /\ e.ready[r] = a.cycle + Latency[syl.op]
            BY <1>0, <1>1, <1>4, <1>5, <1>7, <2>1, <3>3, ComputedReady DEF SameClocks, d, e
          <5>2. b.cycle = a.cycle
            BY <1>4 DEF SameClocks
          <5> QED
            BY <5>1, <5>2
        <4>3. d.gprs[r] = e.gprs[r]
          <5>1. CASE r = 0
            <6>1. d.gprs[0] = b.gprs[0] /\ e.gprs[0] = a.gprs[0]
              BY <2>2 DEF Frame
            <6> QED
              BY <3>1, <5>1, <6>1
          <5>2. CASE r # 0
            BY <2>7, <3>3, <5>2 DEF SameResult
          <5> QED
            BY <5>1, <5>2
        <4> QED
          BY <4>1, <4>2, <4>3
      <3> QED
        BY <3>2, <3>3
    <2>10. Beside(c, bundle, m, s, d, e)
      BY <2>3, <2>4, <2>5, <2>6, <2>8, <2>9 DEF Beside
    <2> QED
      BY <1>2, <2>10 DEF d, e
  <1> QED
    BY <1>6, <1>7

\* The slot of the access: with it the CPU makes the access on the memory, the
\* cache and the operands of the start; without it nothing happens.
LEMMA AccessSlot ==
    ASSUME NEW c, NEW bundle, NEW m, Separable(c, bundle, m),
           NEW b, NEW a, Beside(c, bundle, m, m - 1, b, a)
    PROVE  LET syl == bundle[m]
               inside == InBounds(EffectiveAddress(c, syl), AccessWidth(syl.op))
           IN  /\ FaultsAt(b, syl) <=> ~inside
               /\ inside => Beside(c, bundle, m, m, ExecSyllable(b, syl), a)
  <1> DEFINE syl == bundle[m]
             addr == EffectiveAddress(c, syl)
             width == AccessWidth(syl.op)
             d == ExecSyllable(b, syl)
  <1>0. /\ m \in Nat /\ syl \in Syllable /\ syl.op \in MemoryOps /\ Active(c, syl)
        /\ \A t \in DOMAIN bundle : t \in Nat
        /\ m \in ActiveSlots(c, bundle)
        /\ m \in DOMAIN bundle
        /\ (m - 1 >= m) = FALSE /\ (m >= m) = TRUE /\ m - 1 < m
    BY DEF Separable, ActiveSlots
  <1>1. /\ SameClocks(c, b, a) /\ SamePreds(b, a)
        /\ GuardsLeft(c, bundle, m - 1, b)
        /\ OperandsLeft(c, bundle, m - 1, b) /\ OperandsLeft(c, bundle, m - 1, a)
        /\ AccessSoFar(c, syl, FALSE, b, a)
        /\ RegistersSoFar(c, syl, FALSE, b, a)
    BY <1>0 DEF Beside
  <1>2. /\ ReadGpr(b, syl.src[1]) = ReadGpr(c, syl.src[1])
        /\ ReadGpr(b, syl.src[2]) = ReadGpr(c, syl.src[2])
    BY <1>0, <1>1 DEF OperandsLeft
  <1>3. EffectiveAddress(b, syl) = addr
    BY <1>2 DEF EffectiveAddress
  <1>4. Active(b, syl)
    BY <1>0, <1>1 DEF GuardsLeft
  <1>5. b.memory = c.memory /\ b.cache = c.cache /\ a.memory = c.memory /\ a.cache = c.cache
    BY <1>1 DEF AccessSoFar
  <1>6. FaultsAt(b, syl) <=> ~InBounds(addr, width)
    BY <1>0, <1>3, <1>4 DEF FaultsAt
  <1>7. ASSUME InBounds(addr, width) PROVE Beside(c, bundle, m, m, d, a)
    <2>1. Frame(b, syl, d)
      BY <1>0, <1>1, <1>4, SyllableFrame DEF SameClocks
    <2>2. syl.op \notin ControlOps /\ syl.op # "Ret" /\ syl.op \notin WritesPred
      BY <1>0, ClassesAreDisjoint DEF MemoryOps, ControlOps
    <2>3. SameClocks(c, d, a)
      BY <1>1, <2>1, <2>2 DEF SameClocks, Frame
    <2>4. SamePreds(d, a)
      BY <1>1, <2>1, <2>2 DEF SamePreds, Frame
    <2>5. GuardsLeft(c, bundle, m, d) /\ OperandsLeft(c, bundle, m, d)
      BY <1>0, <1>1, <2>1, SlotsBehind
    <2>6. OperandsLeft(c, bundle, m, a)
      <3>1. \A t \in DOMAIN bundle : m < t => m - 1 < t
        BY <1>0
      <3> QED
        BY <1>1, <3>1 DEF OperandsLeft, ActiveSlots
    <2>7. AccessSoFar(c, syl, TRUE, d, a) /\ RegistersSoFar(c, syl, TRUE, d, a)
      <3>1. CASE syl.op \in Loads
        <4>1. d = ExecLoad(b, syl)
          BY <1>4, <3>1, ExecSyllableCases
        <4> DEFINE l == OutcomeLatency(PeekOutcome(c.cache, addr))
        <4>2. /\ d.memory = b.memory
              /\ \A r \in GprIndices :
                   /\ d.gprs[r] = IF r = syl.dst /\ r # 0 THEN LoadBytes(c.memory, addr, width)
                                  ELSE b.gprs[r]
                   /\ d.ready[r] = IF r = syl.dst THEN b.cycle + l ELSE b.ready[r]
          <5> HIDE DEF d, l, addr, width
          <5>1. LET value == IF InBounds(addr, width) THEN LoadBytes(c.memory, addr, width) ELSE 0
                IN  /\ \A f \in DOMAIN NewCpu \ {"gprs", "ready", "cache"} : d[f] = b[f]
                    /\ \A r \in GprIndices :
                         /\ d.gprs[r] = IF r = syl.dst /\ r # 0 THEN value ELSE b.gprs[r]
                         /\ d.ready[r] = IF r = syl.dst THEN b.cycle + l ELSE b.ready[r]
            BY <1>0, <1>1, <1>3, <1>5, <3>1, <4>1, ExecLoadFields DEF SameClocks, width, l
          <5> QED
            BY <1>7, <5>1 DEF NewCpu
        <4>3. d.cache = AccessLoad(c.cache, addr)
          BY <1>1, <1>3, <1>5, <4>1, LoadCache DEF SameClocks
        <4>4. b.cycle = c.cycle + 1
          BY <1>1 DEF SameClocks
        <4>5. AccessSoFar(c, syl, TRUE, d, a)
          BY <1>5, <3>1, <4>2, <4>3 DEF AccessSoFar, MemoryAfter, CacheAfter
        <4>6. \A r \in GprIndices : b.gprs[r] = a.gprs[r] /\ b.ready[r] = a.ready[r]
          BY <1>1 DEF RegistersSoFar
        <4>7. RegistersSoFar(c, syl, TRUE, d, a)
          <5> HIDE DEF d
          <5> QED
            BY <3>1, <4>2, <4>4, <4>6 DEF RegistersSoFar, LoadedBy, LoadedAt
        <4> QED
          BY <4>5, <4>7
      <3>2. CASE syl.op \in Stores
        <4>1. d = ExecStore(b, syl) /\ syl.op \notin Loads
          BY <1>4, <3>2, ExecSyllableCases, ClassesAreDisjoint
        <4>2. /\ d.memory = MemoryAfter(c, syl) /\ d.cache = CacheAfter(c, syl)
              /\ d.gprs = b.gprs /\ d.ready = b.ready
          <5> DEFINE data == ToBytes(ReadGpr(c, syl.src[2]), width)
                     mem == StoreBytes(c.memory, addr, data)
                     lines == AccessStore(c.cache, addr)
                     e == [b EXCEPT !.cache = lines]
          <5>1. d = [e EXCEPT !.memory = mem]
            BY <1>1, <1>2, <1>3, <1>5, <1>7, <4>1 DEF ExecStore, SameClocks, IsCpu, NewCpu
          <5>2. MemoryAfter(c, syl) = mem /\ CacheAfter(c, syl) = lines
            BY <4>1 DEF MemoryAfter, CacheAfter
          <5>3. IsCpu(b)
            BY <1>1 DEF SameClocks
          <5> HIDE DEF mem, lines, d
          <5>4. d.memory = mem /\ d.cache = lines /\ d.gprs = b.gprs /\ d.ready = b.ready
            BY <5>1, <5>3 DEF IsCpu, NewCpu
          <5> QED
            BY <5>2, <5>4
        <4> HIDE DEF d
        <4>3. AccessSoFar(c, syl, TRUE, d, a)
          BY <1>5, <4>2 DEF AccessSoFar
        <4>4. RegistersSoFar(c, syl, TRUE, d, a)
          BY <1>1, <4>1, <4>2 DEF RegistersSoFar
        <4> QED
          BY <4>3, <4>4
      <3> QED
        BY <1>0, <3>1, <3>2 DEF MemoryOps
    <2> HIDE DEF d
    <2> QED
      BY <1>0, <2>3, <2>4, <2>5, <2>6, <2>7 DEF Beside
  <1> HIDE DEF d
  <1> QED
    BY <1>6, <1>7 DEF d

-----------------------------------------------------------------------------
(* The whole bundle under step_trace and its rest under step_checked. *)

LEMMA RequestIsSeparable ==
    ASSUME AloneInv, RequestOf(0) # NoReq, RestIsIndependent(0)
    PROVE  /\ Separable(cpus[0], NextBundle(0), RequestOf(0).slot)
           /\ ~HasUnreadySources(cpus[0], NextBundle(0))
  <1>1. SysInv /\ 0 \in Cpus /\ IsCpu(cpus[0])
    BY OnlyCpu DEF AloneInv
  <1>2. /\ ~Finished(cpus[0], programs[0])
        /\ RequestOf(0).slot \in MemorySlots(0)
        /\ RequestOf(0).slot \in DOMAIN NextBundle(0)
    BY <1>1, RequestFacts
  <1>3. NextBundle(0) \in Seq(Syllable) /\ DOMAIN NextBundle(0) = 1 .. Len(NextBundle(0))
    BY <1>1, <1>2, ProgramsAreSequences
  <1> QED
    BY <1>1, <1>2, <1>3 DEF RestIsIndependent, Separable, MemorySlots, ActiveSlots, Finished

\* A Nop changes nothing.
LEMMA NopDoesNothing ==
    ASSUME NEW c
    PROVE  Active(c, Nop) /\ ExecSyllable(c, Nop) = c
  <1>1. Nop.op = "Nop" /\ Nop.pred = 0 /\ Nop.neg = FALSE
    BY DEF Nop
  <1>2. Active(c, Nop)
    BY <1>1 DEF Active, ReadPred
  <1>3. Nop.op \notin MemoryOps \cup GprWriters \cup WritesPred \cup ControlOps
    BY <1>1 DEF MemoryOps, Loads, Stores, GprWriters, IntegerOps, MultiplyOps, Fp32Ops, Fp64Ops,
                AesOps, WritesPred, Compares, IntegerCompares, FpCompares, PredicateOps,
                ControlOps
  <1> QED
    BY <1>2, <1>3, ExecSyllableCases

\* The only CPU at the start of phase two.
LEMMA StartOfRest ==
    ASSUME AloneInv, RequestOf(0) # NoReq
    PROVE  LET start == AtStart(0, memory)
           IN  /\ IsCpu(start) /\ start.cycle = cpus[0].cycle /\ start.memory = cpus[0].memory
               /\ start.gprs = cpus[0].gprs /\ start.preds = cpus[0].preds
               /\ start.ready = cpus[0].ready /\ start.cache = cpus[0].cache
               /\ start.halted = cpus[0].halted /\ start.pc = 0
               /\ ~Finished(start, <<Rest(0)>>)
               /\ <<Rest(0)>>[start.pc + 1] = Rest(0)
  <1>1. SysInv /\ 0 \in Cpus /\ Synced(cpus[0], memory) = cpus[0]
    BY OnlyCpu DEF AloneInv
  <1> QED
    BY <1>1, RestFacts DEF NewCpu

InsideOf(c, syl) == InBounds(EffectiveAddress(c, syl), AccessWidth(syl.op))

\* What step_trace and phase two have made of the CPU after s slots.
TracedBeside(s) ==
    LET m     == RequestOf(0).slot
        after == Alone!AfterSlot[s]
    IN  IF s >= m /\ ~InsideOf(cpus[0], NextBundle(0)[m]) THEN after.panicked = TRUE
        ELSE /\ after.panicked = FALSE
             /\ Beside(cpus[0], NextBundle(0), m, s, after.cpu,
                       SlotBySlot(AtStart(0, memory), Rest(0))[s])

LEMMA TracedBesideAtLast ==
    ASSUME AloneInv, RequestOf(0) # NoReq, RestIsIndependent(0)
    PROVE  TracedBeside(Len(NextBundle(0)))
  <1> DEFINE c == cpus[0]
             bundle == NextBundle(0)
             m == RequestOf(0).slot
             rest == Rest(0)
             start == AtStart(0, memory)
             F == Alone!AfterSlot
             G == SlotBySlot(start, rest)
             inside == InsideOf(c, bundle[m])
             Sim(s) == IF s >= m /\ ~inside THEN F[s].panicked = TRUE
                       ELSE F[s].panicked = FALSE /\ Beside(c, bundle, m, s, F[s].cpu, G[s])
             S == {n \in Nat : n <= Len(bundle) => Sim(n)}
  <1>1. /\ Separable(c, bundle, m)
        /\ SysInv /\ 0 \in Cpus
    BY RequestIsSeparable, OnlyCpu DEF AloneInv
  <1>2. /\ Len(bundle) \in Nat /\ DOMAIN bundle = 1 .. Len(bundle) /\ bundle \in Seq(Syllable)
        /\ m \in 1 .. Len(bundle) /\ IsCpu(c) /\ ~c.halted
    BY <1>1 DEF Separable
  <1>3. /\ F[0] = [cpu |-> Issuing(c), panicked |-> FALSE]
        /\ \A s \in 1 .. Len(bundle) :
             F[s] = LET before == F[s - 1]
                    IN  IF before.panicked \/ before.cpu.halted THEN before
                        ELSE IF FaultsAt(before.cpu, bundle[s])
                             THEN [before EXCEPT !.panicked = TRUE]
                        ELSE [before EXCEPT !.cpu = ExecSyllable(@, bundle[s])]
    BY <1>2, TracedSlotsDef
  <1>4. /\ Len(rest) = Len(bundle)
        /\ \A s \in 1 .. Len(bundle) : rest[s] = IF s = m THEN Nop ELSE bundle[s]
    BY <1>1, <1>2, RestFacts
  <1>5. /\ G[0] = Issuing(start)
        /\ \A s \in 1 .. Len(bundle) :
             G[s] = LET before == G[s - 1]
                    IN  IF before.halted THEN before ELSE ExecSyllable(before, rest[s])
    BY <1>2, <1>4, SlotBySlotDef
  <1>6. /\ IsCpu(start) /\ start.cycle = c.cycle /\ start.memory = c.memory
        /\ start.gprs = c.gprs /\ start.preds = c.preds
        /\ start.ready = c.ready /\ start.cache = c.cache /\ start.halted = c.halted
    BY StartOfRest
  <1> HIDE DEF c, bundle, m, rest, start, F, G, inside
  <1>7. \A s \in 1 .. Len(bundle) :
          /\ F[s - 1].panicked \/ F[s - 1].cpu.halted => F[s] = F[s - 1]
          /\ ~(F[s - 1].panicked \/ F[s - 1].cpu.halted) /\ FaultsAt(F[s - 1].cpu, bundle[s])
               => F[s] = [F[s - 1] EXCEPT !.panicked = TRUE]
          /\ ~(F[s - 1].panicked \/ F[s - 1].cpu.halted) /\ ~FaultsAt(F[s - 1].cpu, bundle[s])
               => F[s] = [F[s - 1] EXCEPT !.cpu = ExecSyllable(@, bundle[s])]
    BY <1>3
  \* The function values are records.
  <1>8. \A n \in Nat : n <= Len(bundle) => F[n] = [cpu |-> F[n].cpu, panicked |-> F[n].panicked]
    <2> DEFINE R == {n \in Nat : n <= Len(bundle) =>
                       F[n] = [cpu |-> F[n].cpu, panicked |-> F[n].panicked]}
    <2>1. 0 \in R
      BY <1>3
    <2>2. ASSUME NEW n \in Nat, n \in R PROVE n + 1 \in R
      <3> SUFFICES ASSUME n + 1 <= Len(bundle)
                   PROVE  F[n + 1] = [cpu |-> F[n + 1].cpu, panicked |-> F[n + 1].panicked]
        OBVIOUS
      <3>1. n + 1 \in 1 .. Len(bundle) /\ (n + 1) - 1 = n /\ n <= Len(bundle)
        BY <1>2
      <3>2. F[n] = [cpu |-> F[n].cpu, panicked |-> F[n].panicked]
        BY <2>2, <3>1
      <3>3. \/ F[n + 1] = F[n]
            \/ F[n + 1] = [F[n] EXCEPT !.panicked = TRUE]
            \/ F[n + 1] = [F[n] EXCEPT !.cpu = ExecSyllable(@, bundle[n + 1])]
        BY <1>7, <3>1
      <3> QED
        BY <3>2, <3>3
    <2> HIDE DEF R
    <2>3. Nat \subseteq R
      BY <2>1, <2>2, NatSetInduction
    <2> QED
      BY <2>3 DEF R
  <1>9. 0 \in S
    <2> DEFINE f == Issuing(c)
               g == Issuing(start)
    <2>1. /\ IsCpu(f) /\ f.cycle = c.cycle + 1 /\ f.pc = c.pc + 1
          /\ f.gprs = c.gprs /\ f.ready = c.ready /\ f.preds = c.preds
          /\ f.memory = c.memory /\ f.cache = c.cache /\ f.halted = c.halted
      BY <1>2, IssuingEffect
    <2>2. /\ IsCpu(g) /\ g.cycle = c.cycle + 1
          /\ g.gprs = c.gprs /\ g.ready = c.ready /\ g.preds = c.preds
          /\ g.memory = c.memory /\ g.cache = c.cache /\ g.halted = c.halted
      BY <1>6, IssuingEffect
    <2> HIDE DEF f, g
    <2>3. SameClocks(c, f, g) /\ SamePreds(f, g)
      BY <1>2, <2>1, <2>2 DEF SameClocks, SamePreds
    <2>4. GuardsLeft(c, bundle, 0, f)
      BY <2>1, Zenon DEF GuardsLeft, Active, ReadPred
    <2>5. OperandsLeft(c, bundle, 0, f) /\ OperandsLeft(c, bundle, 0, g)
      BY <2>1, <2>2 DEF OperandsLeft, ReadGpr
    <2>6. (0 >= m) = FALSE
      BY <1>2
    <2>7. AccessSoFar(c, bundle[m], FALSE, f, g) /\ RegistersSoFar(c, bundle[m], FALSE, f, g)
      BY <2>1, <2>2 DEF AccessSoFar, RegistersSoFar
    <2>8. Beside(c, bundle, m, 0, f, g)
      BY <2>3, <2>4, <2>5, <2>6, <2>7 DEF Beside
    <2>9. F[0].cpu = f /\ F[0].panicked = FALSE /\ G[0] = g
      BY <1>3, <1>5 DEF f, g
    <2>10. Sim(0)
      BY <2>6, <2>8, <2>9
    <2> QED
      BY <2>10
  <1>10. ASSUME NEW n \in Nat, n \in S PROVE n + 1 \in S
    <2> HIDE DEF Sim
    <2> SUFFICES ASSUME n + 1 <= Len(bundle) PROVE Sim(n + 1)
      OBVIOUS
    <2> USE DEF Sim
    <2> DEFINE s == n + 1
               b == F[n].cpu
               a == G[n]
    <2>1. /\ s \in 1 .. Len(bundle) /\ s \in DOMAIN bundle /\ s - 1 = n /\ n <= Len(bundle)
          /\ s \in Nat /\ n \in Nat /\ m \in Nat
      BY <1>2
    <2>2. Sim(n)
      BY <1>10, <2>1
    <2>3. CASE n >= m /\ ~inside
      <3>1. F[n].panicked = TRUE
        BY <2>2, <2>3
      <3>2. F[s] = F[n]
        BY <1>7, <2>1, <3>1
      <3>3. s >= m
        BY <2>1, <2>3
      <3> QED
        BY <2>3, <3>1, <3>2, <3>3
    <2>4. CASE ~(n >= m /\ ~inside)
      <3>1. F[n].panicked = FALSE /\ Beside(c, bundle, m, n, b, a)
        BY <2>2, <2>4
      <3>2. ~b.halted /\ ~a.halted
        BY <3>1 DEF Beside, SameClocks
      <3>3. /\ FaultsAt(b, bundle[s]) => F[s] = [F[n] EXCEPT !.panicked = TRUE]
            /\ ~FaultsAt(b, bundle[s]) => F[s] = [F[n] EXCEPT !.cpu = ExecSyllable(@, bundle[s])]
        BY <1>7, <2>1, <3>1, <3>2
      <3>4. F[n] = [cpu |-> F[n].cpu, panicked |-> F[n].panicked]
        BY <1>8, <2>1
      <3>5. FaultsAt(b, bundle[s]) => F[s].panicked = TRUE
        BY <3>3, <3>4
      <3>6. ~FaultsAt(b, bundle[s]) =>
              F[s].panicked = FALSE /\ F[s].cpu = ExecSyllable(b, bundle[s])
        BY <3>1, <3>3, <3>4
      <3>7. G[s] = ExecSyllable(a, rest[s])
        BY <1>5, <2>1, <3>2
      <3> HIDE DEF b, a
      <3>8. CASE s # m
        <4>1. ~(s >= m /\ ~inside)
          BY <2>1, <2>4, <3>8
        <4>2. /\ ~FaultsAt(b, bundle[s])
              /\ Beside(c, bundle, m, s, ExecSyllable(b, bundle[s]), ExecSyllable(a, bundle[s]))
          <5>1. Beside(c, bundle, m, s - 1, b, a)
            BY <2>1, <3>1
          <5> QED
            BY <1>1, <2>1, <3>8, <5>1, OtherSlot
        <4>3. rest[s] = bundle[s]
          BY <1>4, <2>1, <3>8
        <4>4. F[s].panicked = FALSE /\ Beside(c, bundle, m, s, F[s].cpu, G[s])
          BY <3>6, <3>7, <4>2, <4>3
        <4> QED
          BY <4>1, <4>4
      <3>9. CASE s = m
        <4>1. Beside(c, bundle, m, m - 1, b, a)
          BY <2>1, <3>1, <3>9
        <4>2. /\ FaultsAt(b, bundle[m]) <=> ~inside
              /\ inside => Beside(c, bundle, m, m, ExecSyllable(b, bundle[m]), a)
          BY <1>1, <4>1, AccessSlot DEF inside, InsideOf
        <4>3. G[s] = a
          <5>1. rest[s] = Nop
            BY <1>4, <2>1, <3>9
          <5> QED
            BY <3>7, <5>1, NopDoesNothing
        <4>4. s >= m
          BY <2>1, <3>9
        <4>5. ~inside => F[s].panicked = TRUE
          BY <3>5, <3>9, <4>2
        <4>6. inside => F[s].panicked = FALSE /\ Beside(c, bundle, m, s, F[s].cpu, G[s])
          BY <3>6, <3>9, <4>2, <4>3
        <4> QED
          BY <4>4, <4>5, <4>6
      <3> QED
        BY <3>8, <3>9
    <2> QED
      BY <2>3, <2>4
  <1> HIDE DEF S
  <1>11. Len(bundle) \in S
    BY <1>2, <1>9, <1>10, NatSetInduction
  <1>12. Sim(Len(bundle))
    BY <1>2, <1>11 DEF S
  <1> QED
    BY <1>12 DEF TracedBeside, c, bundle, m, rest, start, F, G, inside

\* Nothing keeps the rest of the bundle from being issued.
LEMMA RestIssues ==
    ASSUME AloneInv, RequestOf(0) # NoReq, RestIsIndependent(0)
    PROVE  StepChecked(AtStart(0, memory), <<Rest(0)>>) =
             [result |-> "Issued", cpu |-> ExecBundle(AtStart(0, memory), Rest(0))]
  <1> DEFINE c == cpus[0]
             bundle == NextBundle(0)
             m == RequestOf(0).slot
             rest == Rest(0)
             start == AtStart(0, memory)
  <1>1. /\ Separable(c, bundle, m) /\ ~HasUnreadySources(c, bundle)
        /\ SysInv /\ 0 \in Cpus /\ Synced(c, memory) = c
    BY RequestIsSeparable, OnlyCpu DEF AloneInv
  <1>2. /\ DOMAIN rest = DOMAIN bundle
        /\ \A s \in DOMAIN bundle : rest[s] = IF s = m THEN Nop ELSE bundle[s]
    BY <1>1, RestFacts
  <1>3. /\ start.preds = c.preds
        /\ ~Finished(start, <<rest>>) /\ <<rest>>[start.pc + 1] = rest
    BY StartOfRest
  <1>4. ~HasUnreadySources(start, rest)
    BY <1>1, RestIsNoLater
  <1> HIDE DEF c, bundle, m, rest, start
  <1>5. \A syl : Active(start, syl) <=> Active(c, syl)
    BY <1>3, Zenon DEF Active, ReadPred
  <1>6. m \in ActiveSlots(c, bundle)
    BY <1>1 DEF Separable, ActiveSlots
  <1>7. \A s \in ActiveSlots(start, rest) : s \in ActiveSlots(c, bundle) /\ s \in DOMAIN bundle
    BY <1>2, <1>5, <1>6 DEF ActiveSlots
  <1>8. BundleIsLegal(c, bundle)
    BY <1>1 DEF Separable
  <1>9. BundleIsLegal(start, rest)
    <2>1. ASSUME NEW s \in ActiveSlots(start, rest) PROVE SlotCanExecute(s, rest[s].op)
      <3>1. Nop.op = "Nop"
        BY DEF Nop
      <3>2. SlotCanExecute(s, bundle[s].op)
        BY <1>7, <1>8 DEF BundleIsLegal
      <3> QED
        BY <1>2, <1>7, <3>1, <3>2 DEF SlotCanExecute
    <2>2. ASSUME NEW i \in ActiveSlots(start, rest), NEW j \in ActiveSlots(start, rest), i < j
          PROVE  ~RuntimeGprHazard(rest[i], rest[j]) /\ ~RuntimePredHazard(rest[i], rest[j])
      <3>0. /\ i \in DOMAIN bundle /\ j \in DOMAIN bundle
            /\ i \in ActiveSlots(c, bundle) /\ j \in ActiveSlots(c, bundle)
        BY <1>7
      <3>1. /\ ~RuntimeGprHazard(bundle[i], bundle[j])
            /\ ~RuntimePredHazard(bundle[i], bundle[j])
        BY <1>8, <2>2, <3>0 DEF BundleIsLegal
      <3>2. /\ Nop.op = "Nop" /\ Nop.src[1] = NoReg /\ Nop.src[2] = NoReg
            /\ NoReg \notin GprIndices
        BY DEF Nop, NoReg, GprIndices
      <3>3. Nop.op \notin GprWriters \cup WritesPred \cup PredicateOps \cup {"Call", "Ret", "Branch"}
        BY <3>2 DEF GprWriters, IntegerOps, MultiplyOps, Fp32Ops, Fp64Ops,
                    AesOps, Loads, WritesPred, Compares, IntegerCompares, FpCompares, PredicateOps
      <3>4. GprWriteDst(Nop) = NoReg
        BY <3>3 DEF GprWriteDst
      <3>5. CASE i = m
        BY <1>2, <3>0, <3>2, <3>3, <3>4, <3>5 DEF RuntimeGprHazard, RuntimePredHazard
      <3>6. CASE j = m
        BY <1>2, <3>0, <3>2, <3>3, <3>4, <3>6 DEF RuntimeGprHazard, RuntimePredHazard, Reads
      <3>7. CASE i # m /\ j # m
        BY <1>2, <3>0, <3>1, <3>7
      <3> QED
        BY <3>5, <3>6, <3>7
    <2> QED
      BY <2>1, <2>2 DEF BundleIsLegal
  <1>10. ~HasMemoryFault(start, rest)
    <2>1. ASSUME NEW s \in DOMAIN rest PROVE ~FaultsAt(start, rest[s])
      <3>1. CASE s = m
        <4>1. rest[s].op = "Nop"
          BY <1>2, <3>1 DEF Nop
        <4> QED
          BY <4>1 DEF FaultsAt, MemoryOps, Loads, Stores
      <3>2. CASE s # m
        <4>1. bundle[s].op \notin MemoryOps
          BY <1>1, <1>2, <3>2 DEF Separable, AccessIsSettled
        <4> QED
          BY <1>2, <3>2, <4>1 DEF FaultsAt
      <3> QED
        BY <3>1, <3>2
    <2> QED
      BY <2>1 DEF HasMemoryFault
  <1>11. StepChecked(start, <<rest>>) = [result |-> "Issued", cpu |-> ExecBundle(start, rest)]
    BY <1>3, <1>4, <1>9, <1>10 DEF StepChecked
  <1> QED
    BY <1>11 DEF rest, start

\* The system after phase two.
LEMMA OnlyCpuStepped ==
    ASSUME AloneInv
    PROVE  LET step == StepOf(0, memory)
               s == AllStepped
           IN  /\ IsSystem(s)
               /\ s.cpus[0] = step.cpu
               /\ s.memory = IF Stepped(step.result) THEN step.cpu.memory ELSE memory
               /\ s.progress = Stepped(step.result)
               /\ s.panicked = (step.result = "Fault")
  <1> DEFINE step == StepOf(0, memory)
             stepped == Stepped(step.result)
             start == [cpus |-> cpus, memory |-> memory, progress |-> FALSE, panicked |-> FALSE]
             t == AllStepped
             c == [cpus EXCEPT ![0] = step.cpu]
             m == IF stepped THEN step.cpu.memory ELSE memory
             p == stepped
             q == step.result = "Fault"
  <1>1. t = StepCpu(start, 0) /\ IsSystem(t) /\ SysInv /\ 0 \in Cpus
    BY OnlyCpu, AllSteppedEffect DEF AloneInv
  <1>2. start.cpus = cpus /\ start.memory = memory
    OBVIOUS
  <1>3. stepped \in BOOLEAN
    BY DEF Stepped
  <1>4. (start.progress \/ stepped) = p /\ (start.panicked \/ step.result = "Fault") = q
    <2>1. start.progress = FALSE /\ start.panicked = FALSE
      OBVIOUS
    <2> HIDE DEF start, step, stepped
    <2> QED
      BY <1>3, <2>1
  <1>5. t = [cpus     |-> c,
             memory   |-> m,
             progress |-> (start.progress \/ stepped),
             panicked |-> (start.panicked \/ step.result = "Fault")]
    <2> HIDE DEF start
    <2> QED
      BY <1>1, <1>2 DEF StepCpu, StepOf
  <1> HIDE DEF c, m, p, q, start, t
  <1>6. t = [cpus |-> c, memory |-> m, progress |-> p, panicked |-> q]
    <2> HIDE DEF step, stepped
    <2> QED
      BY <1>4, <1>5
  <1>7. t.cpus = c /\ t.memory = m
    BY <1>6
  <1>8. t.progress = p
    BY <1>6
  <1>9. t.panicked = q
    BY <1>6
  <1>10. c[0] = step.cpu
    BY <1>1 DEF c, SysInv
  <1> QED
    BY <1>1, <1>7, <1>8, <1>9, <1>10 DEF m, p, q, t

-----------------------------------------------------------------------------
(* The commit of the request, against the access of step_trace. *)

\* What the commit of a load of syl leaves of the CPU.
LoadCommitted(s, o, syl, req, t) ==
    LET b == s.cpus[o]
        d == t.cpus[o]
        latency == OutcomeLatency(PeekOutcome(b.cache, req.address))
    IN  /\ t.progress = TRUE /\ t.panicked = s.panicked /\ t.memory = s.memory
        /\ IsCpu(d)
        /\ d.pc = b.pc /\ d.halted = b.halted /\ d.preds = b.preds
        /\ d.memory = s.memory /\ d.cache = AccessLoad(b.cache, req.address)
        /\ \A r \in GprIndices :
             /\ d.gprs[r] = IF r = syl.dst /\ r # 0
                            THEN LoadBytes(s.memory, req.address, req.width)
                            ELSE b.gprs[r]
             /\ d.ready[r] = IF r = syl.dst THEN cycle + 1 + latency ELSE b.ready[r]

LEMMA CommitLoadFields ==
    ASSUME cycle \in Nat, NEW s, IsSystem(s), NEW o \in Cpus, NEW syl \in Syllable,
           syl.op \in Loads, NEW req, req.cpu = o, req.dst = syl.dst,
           NEW t, t = CommitLoad(s, req)
    PROVE  LoadCommitted(s, o, syl, req, t)
  <1> DEFINE b       == s.cpus[o]
             latency == OutcomeLatency(PeekOutcome(b.cache, req.address))
             value   == LoadBytes(s.memory, req.address, req.width)
             lines   == AccessLoad(b.cache, req.address)
             cached  == [b EXCEPT !.cache = lines]
             filled  == [cached EXCEPT !.memory = s.memory]
             written == WriteGpr(filled, syl.dst, value)
             d       == SetReady(written, syl.dst, cycle + 1 + latency)
  <1>1. t = [s EXCEPT !.progress = TRUE, !.cpus = [s.cpus EXCEPT ![o] = d]]
    <2>1. LoadReadyAt(latency) = cycle + 1 + latency
      BY DEF LoadReadyAt
    <2>2. filled = [b EXCEPT !.cache = lines, !.memory = s.memory]
      OBVIOUS
    <2> QED
      BY <2>1, <2>2 DEF CommitLoad
  <1>2. IsCpu(b)
    BY DEF IsSystem
  <1>3. latency \in Nat
    <2>1. latency \in ResultLatencies(syl.op) /\ syl.op \in Opcodes
      BY LoadLatency DEF Syllable
    <2> QED
      BY <2>1, LatenciesAreNaturals
  <1>4. lines = [k \in LineIndices |-> lines[k]]
    BY <1>2, AccessKeepsTheLines DEF IsCpu
  <1>5. t.cpus[o] = d /\ t.progress = TRUE /\ t.panicked = s.panicked /\ t.memory = s.memory
    <2> HIDE DEF d
    <2> QED
      BY <1>1 DEF IsSystem
  <1> HIDE DEF b, latency, value, lines
  <1>6. /\ IsCpu(cached) /\ cached.cache = lines
        /\ cached.gprs = b.gprs /\ cached.ready = b.ready /\ cached.preds = b.preds
        /\ cached.pc = b.pc /\ cached.halted = b.halted
    BY <1>2, <1>4 DEF IsCpu, NewCpu
  <1> HIDE DEF cached
  <1>7. /\ IsCpu(filled) /\ filled.cache = lines /\ filled.memory = s.memory
        /\ filled.gprs = b.gprs /\ filled.ready = b.ready /\ filled.preds = b.preds
        /\ filled.pc = b.pc /\ filled.halted = b.halted
    BY <1>6 DEF IsCpu, NewCpu
  <1> HIDE DEF filled
  <1>8. /\ IsCpu(written)
        /\ \A f \in DOMAIN NewCpu \ {"gprs"} : written[f] = filled[f]
        /\ \A r \in GprIndices :
             written.gprs[r] = IF r = syl.dst /\ syl.dst # 0 THEN value ELSE filled.gprs[r]
    BY <1>7, WriteGprEffect
  <1>9. cycle + 1 + latency \in Nat
    BY <1>3
  <1> HIDE DEF written
  <1>10. /\ IsCpu(d)
         /\ \A f \in DOMAIN NewCpu \ {"ready"} : d[f] = written[f]
         /\ \A r \in GprIndices :
              d.ready[r] = IF r = syl.dst THEN cycle + 1 + latency ELSE written.ready[r]
    BY <1>8, <1>9, SetReadyEffect
  <1> HIDE DEF d
  <1>11. /\ d.pc = b.pc /\ d.halted = b.halted /\ d.preds = b.preds
         /\ d.memory = s.memory /\ d.cache = lines
         /\ \A r \in GprIndices :
              /\ d.gprs[r] = IF r = syl.dst /\ r # 0 THEN value ELSE b.gprs[r]
              /\ d.ready[r] = IF r = syl.dst THEN cycle + 1 + latency ELSE b.ready[r]
    BY <1>7, <1>8, <1>10 DEF NewCpu
  <1> QED
    BY <1>5, <1>10, <1>11 DEF LoadCommitted, b, latency, value, lines

\* What the commit of a store leaves of the CPU.
StoreCommitted(s, o, req, t) ==
    LET b == s.cpus[o]
        d == t.cpus[o]
        written == StoreBytes(s.memory, req.address, ToBytes(req.value, req.width))
    IN  /\ t.progress = TRUE /\ t.panicked = s.panicked /\ t.memory = written
        /\ IsCpu(d)
        /\ d.pc = b.pc /\ d.halted = b.halted /\ d.preds = b.preds
        /\ d.gprs = b.gprs /\ d.ready = b.ready
        /\ d.memory = written /\ d.cache = AccessStore(b.cache, req.address)

LEMMA CommitStoreFields ==
    ASSUME NEW s, IsSystem(s), NEW o \in Cpus, NEW req, req.cpu = o,
           NEW t, t = CommitStore(s, req)
    PROVE  StoreCommitted(s, o, req, t)
  <1> DEFINE written == StoreBytes(s.memory, req.address, ToBytes(req.value, req.width))
             all == [c \in Cpus |->
                       [s.cpus[c] EXCEPT
                          !.cache = StoreCommitTransition(@, req.address, c = req.cpu),
                          !.memory = IF c = req.cpu THEN written ELSE @]]
             b == s.cpus[o]
             lines == AccessStore(b.cache, req.address)
             e == [b EXCEPT !.cache = lines]
             d == [e EXCEPT !.memory = written]
  <1>1. /\ t.progress = TRUE /\ t.panicked = s.panicked /\ t.memory = written /\ t.cpus = all
    <2>1. t = [s EXCEPT !.progress = TRUE, !.memory = written, !.cpus = all]
      BY DEF CommitStore
    <2> HIDE DEF all, written
    <2> QED
      BY <2>1 DEF IsSystem
  <1>2. IsCpu(b)
    BY DEF IsSystem
  <1>3. all[o] = d
    <2>1. StoreCommitTransition(b.cache, req.address, o = req.cpu) = lines
      BY DEF StoreCommitTransition
    <2>2. all[o] = [b EXCEPT !.cache = StoreCommitTransition(@, req.address, o = req.cpu),
                             !.memory = IF o = req.cpu THEN written ELSE @]
      OBVIOUS
    <2> HIDE DEF all, written, lines
    <2>3. b.cache = s.cpus[o].cache
      OBVIOUS
    <2> HIDE DEF b
    <2> QED
      BY <1>2, <2>1, <2>2 DEF IsCpu, NewCpu
  <1>4. lines = [k \in LineIndices |-> lines[k]]
    BY <1>2, AccessKeepsTheLines DEF IsCpu
  <1> HIDE DEF b, lines, written
  <1>5. /\ IsCpu(e) /\ e.cache = lines
        /\ e.gprs = b.gprs /\ e.ready = b.ready /\ e.preds = b.preds
        /\ e.pc = b.pc /\ e.halted = b.halted
    BY <1>2, <1>4 DEF IsCpu, NewCpu
  <1> HIDE DEF e
  <1>6. /\ IsCpu(d) /\ d.cache = lines /\ d.memory = written
        /\ d.gprs = b.gprs /\ d.ready = b.ready /\ d.preds = b.preds
        /\ d.pc = b.pc /\ d.halted = b.halted
    BY <1>5 DEF IsCpu, NewCpu
  <1> HIDE DEF d, all
  <1> QED
    BY <1>1, <1>3, <1>6 DEF StoreCommitted, b, lines, written

\* Phase two with a request that is taken out of the bundle.
LEMMA StepBesideTheRequest ==
    ASSUME AloneInv, RequestOf(0) # NoReq, RestIsIndependent(0)
    PROVE  LET step == StepOf(0, memory)
               g == ExecBundle(AtStart(0, memory), Rest(0))
           IN  /\ step.result = "Issued"
               /\ IsCpu(step.cpu)
               /\ step.cpu.pc = cpus[0].pc + 1
               /\ \A f \in DOMAIN NewCpu \ {"pc"} : step.cpu[f] = g[f]
  <1> DEFINE start == AtStart(0, memory)
             g == ExecBundle(start, Rest(0))
             inner == StepChecked(start, <<Rest(0)>>)
             pc == cpus[0].pc + 1
             step == StepOf(0, memory)
  <1>1. /\ SysInv /\ 0 \in Cpus /\ Synced(cpus[0], memory) = cpus[0]
    BY OnlyCpu DEF AloneInv
  <1>2. inner = [result |-> "Issued", cpu |-> g]
    BY RestIssues
  <1>3. Stepped(inner.result)
    BY <1>2 DEF Stepped
  <1>4. step = [inner EXCEPT !.cpu = [inner.cpu EXCEPT !.pc = pc]]
    BY <1>1, <1>3 DEF StepOf, StepBesideRequest, AtStart, Rest, NextBundle
  <1>5. IsCpu(g)
    <2>1. IsCpu(start) /\ Rest(0) \in Seq(Syllable)
      BY <1>1, RestFacts
    <2> QED
      BY <2>1, ExecBundleEffect DEF BundleEffect
  <1> HIDE DEF g, inner, step
  <1> DEFINE d == [g EXCEPT !.pc = pc]
  <1>6. step = [result |-> "Issued", cpu |-> d]
    BY <1>2, <1>4
  <1>7. IsCpu(d) /\ d.pc = pc /\ \A f \in DOMAIN NewCpu \ {"pc"} : d[f] = g[f]
    <2> HIDE DEF pc
    <2> QED
      BY <1>5 DEF IsCpu, NewCpu
  <1> HIDE DEF d
  <1>8. step.result = "Issued" /\ step.cpu = d
    BY <1>6
  <1> QED
    BY <1>7, <1>8 DEF step, g

\* Phase two and the commit of the request make of the CPU what step_trace makes
\* of it, or both panic.
LEMMA CommitOfRequest ==
    ASSUME AloneInv, RequestOf(0) # NoReq, RestIsIndependent(0)
    PROVE  LET traced == Alone!AfterSlot[Len(NextBundle(0))]
               after  == Committed(AllStepped)
               syl    == NextBundle(0)[RequestOf(0).slot]
           IN  \/ ~InsideOf(cpus[0], syl) /\ traced.panicked = TRUE /\ after.panicked = TRUE
               \/ /\ InsideOf(cpus[0], syl)
                  /\ traced.panicked = FALSE /\ after.panicked = FALSE /\ after.progress = TRUE
                  /\ [after.cpus[0] EXCEPT !.cycle = cycle + 1] = traced.cpu
  <1> DEFINE c == cpus[0]
             bundle == NextBundle(0)
             n == Len(bundle)
             m == RequestOf(0).slot
             syl == bundle[m]
             req == RequestOf(0)
             f == Alone!AfterSlot[n].cpu
             g == ExecBundle(AtStart(0, memory), Rest(0))
             s == AllStepped
             b == s.cpus[0]
             after == Committed(s)
             addr == EffectiveAddress(c, syl)
             width == AccessWidth(syl.op)
             inside == InsideOf(c, syl)
  <1>1. /\ SysInv /\ 0 \in Cpus /\ Granted = req /\ req # NoReq
        /\ c \in CpuStates /\ c.memory = memory /\ c.cycle = cycle /\ cycle \in Nat
    BY OnlyCpu DEF AloneInv
  <1>2. Separable(c, bundle, m)
    BY RequestIsSeparable
  <1>3. /\ n \in Nat /\ m \in 1 .. n /\ (n >= m) = TRUE
        /\ syl \in Syllable /\ syl.op \in MemoryOps
    BY <1>2 DEF Separable
  <1>4. /\ req.address = addr /\ req.width = width
        /\ syl.op \in Stores =>
             req.value = ReadGpr(c, syl.src[2]) % PowersOf(ByteMod)[width]
    BY <1>1, RequestDetails
  <1>5. /\ req.cpu = 0 /\ req.dst = syl.dst
        /\ req.kind = IF syl.op \in Stores THEN "store" ELSE "load"
    BY <1>1, RequestFacts
  <1>6. /\ IsSystem(s) /\ IsCpu(b) /\ b.pc = c.pc + 1
        /\ \A x \in DOMAIN NewCpu \ {"pc"} : b[x] = g[x]
        /\ s.panicked = FALSE /\ s.memory = b.memory
    <2> DEFINE step == StepOf(0, memory)
    <2>1. /\ step.result = "Issued"
          /\ IsCpu(step.cpu)
          /\ step.cpu.pc = c.pc + 1
          /\ \A x \in DOMAIN NewCpu \ {"pc"} : step.cpu[x] = g[x]
      BY StepBesideTheRequest
    <2>2. /\ IsSystem(s)
          /\ s.cpus[0] = step.cpu
          /\ s.memory = IF Stepped(step.result) THEN step.cpu.memory ELSE memory
          /\ s.panicked = (step.result = "Fault")
      BY OnlyCpuStepped
    <2> HIDE DEF step, s, g
    <2> QED
      BY <2>1, <2>2 DEF Stepped
  <1>7. /\ ~inside => Alone!AfterSlot[n].panicked = TRUE
        /\ inside => Alone!AfterSlot[n].panicked = FALSE /\ Beside(c, bundle, m, n, f, g)
    <2>1. TracedBeside(n)
      BY TracedBesideAtLast
    <2>2. g = SlotBySlot(AtStart(0, memory), Rest(0))[n]
      <3>1. Len(Rest(0)) = n
        BY <1>1, RestFacts
      <3> QED
        BY <3>1 DEF ExecBundle
    <2> HIDE DEF g
    <2> QED
      BY <1>3, <2>1, <2>2 DEF TracedBeside
  <1>8. after = IF ~inside THEN [s EXCEPT !.panicked = TRUE]
                ELSE IF req.kind = "load" THEN CommitLoad(s, req) ELSE CommitStore(s, req)
    <2> HIDE DEF s
    <2> QED
      BY <1>1, <1>4, <1>6 DEF Committed, Commit, InsideOf
  <1> HIDE DEF c, bundle, n, m, req, f, g, s, b, after, addr, width
  <1>9. CASE ~inside
    <2>1. after.panicked = TRUE
      BY <1>6, <1>8, <1>9 DEF IsSystem
    <2> QED
      BY <1>7, <1>9, <2>1 DEF after, s, c, bundle, n, m, req
  <1>10. CASE inside
    <2> DEFINE a == after.cpus[0]
               d == [a EXCEPT !.cycle = cycle + 1]
    <2>1. /\ b.gprs = g.gprs /\ b.ready = g.ready /\ b.preds = g.preds /\ b.halted = g.halted
          /\ b.memory = g.memory /\ b.cache = g.cache
      BY <1>6 DEF NewCpu
    <2>2. /\ SameClocks(c, f, g) /\ SamePreds(f, g)
          /\ AccessSoFar(c, syl, TRUE, f, g) /\ RegistersSoFar(c, syl, TRUE, f, g)
      BY <1>3, <1>7, <1>10 DEF Beside
    <2>3. b.memory = c.memory /\ b.cache = c.cache /\ s.memory = c.memory
      BY <1>6, <2>1, <2>2 DEF AccessSoFar
    <2>4. /\ after.panicked = FALSE /\ after.progress = TRUE
          /\ IsCpu(a) /\ a.pc = b.pc /\ a.halted = b.halted /\ a.preds = b.preds
          /\ a.memory = f.memory /\ a.cache = f.cache
          /\ \A r \in GprIndices : a.gprs[r] = f.gprs[r] /\ a.ready[r] = f.ready[r]
      <3>1. CASE syl.op \in Loads
        <4>1. syl.op \notin Stores
          BY <3>1, ClassesAreDisjoint
        <4>2. after = CommitLoad(s, req)
          BY <1>5, <1>8, <1>10, <4>1
        <4> DEFINE latency == OutcomeLatency(PeekOutcome(b.cache, req.address))
        <4>3. /\ after.progress = TRUE /\ after.panicked = s.panicked
              /\ IsCpu(a)
              /\ a.pc = b.pc /\ a.halted = b.halted /\ a.preds = b.preds
              /\ a.memory = s.memory /\ a.cache = AccessLoad(b.cache, req.address)
              /\ \A r \in GprIndices :
                   /\ a.gprs[r] = IF r = syl.dst /\ r # 0
                                  THEN LoadBytes(s.memory, req.address, req.width)
                                  ELSE b.gprs[r]
                   /\ a.ready[r] = IF r = syl.dst THEN cycle + 1 + latency ELSE b.ready[r]
          <5>1. /\ cycle \in Nat /\ IsSystem(s) /\ 0 \in Cpus
                /\ syl \in Syllable /\ syl.op \in Loads
                /\ req.cpu = 0 /\ req.dst = syl.dst
            BY <1>1, <1>3, <1>5, <1>6, <3>1
          <5> HIDE DEF a, syl, latency
          <5>2. LoadCommitted(s, 0, syl, req, after)
            BY <4>2, <5>1, CommitLoadFields
          <5> QED
            BY <5>2 DEF LoadCommitted, a, b, latency
        <4> HIDE DEF a
        <4>4. /\ LoadedBy(c, syl) = LoadBytes(s.memory, req.address, req.width)
              /\ LoadedAt(c, syl) = cycle + 1 + latency
              /\ MemoryAfter(c, syl) = c.memory
              /\ CacheAfter(c, syl) = AccessLoad(c.cache, addr)
          BY <1>1, <1>4, <2>3, <3>1 DEF LoadedBy, LoadedAt, MemoryAfter, CacheAfter, addr, width
        <4> HIDE DEF latency
        <4>5. a.memory = f.memory /\ a.cache = f.cache
          BY <1>4, <2>2, <2>3, <4>3, <4>4 DEF AccessSoFar
        <4>6. \A r \in GprIndices : a.gprs[r] = f.gprs[r] /\ a.ready[r] = f.ready[r]
          BY <2>1, <2>2, <3>1, <4>3, <4>4 DEF RegistersSoFar
        <4> QED
          BY <1>6, <4>3, <4>5, <4>6
      <3>2. CASE syl.op \in Stores
        <4>1. syl.op \notin Loads
          BY <3>2, ClassesAreDisjoint
        <4>2. after = CommitStore(s, req)
          BY <1>5, <1>8, <1>10, <3>2
        <4> DEFINE written == StoreBytes(s.memory, req.address, ToBytes(req.value, req.width))
        <4>3. /\ after.progress = TRUE /\ after.panicked = s.panicked
              /\ IsCpu(a)
              /\ a.pc = b.pc /\ a.halted = b.halted /\ a.preds = b.preds
              /\ a.gprs = b.gprs /\ a.ready = b.ready
              /\ a.memory = written /\ a.cache = AccessStore(b.cache, req.address)
          <5>1. IsSystem(s) /\ 0 \in Cpus /\ req.cpu = 0
            BY <1>1, <1>5, <1>6
          <5> HIDE DEF a, syl, written
          <5>2. StoreCommitted(s, 0, req, after)
            BY <4>2, <5>1, CommitStoreFields
          <5> QED
            BY <5>2 DEF StoreCommitted, a, b, written
        <4>4. written = MemoryAfter(c, syl)
          <5> DEFINE v == ReadGpr(c, syl.src[2])
          <5>1. v \in Nat /\ width \in {1, 2, 4, 8}
            BY <1>1, ReadsAreWords, AccessWidths DEF Words, width
          <5> HIDE DEF v
          <5>2. ToBytes(v % PowersOf(ByteMod)[width], width) = ToBytes(v, width)
            BY <5>1, BytesOfRemainder
          <5>3. ToBytes(req.value, req.width) = ToBytes(v, width)
            BY <1>4, <3>2, <5>2 DEF v
          <5> QED
            BY <1>4, <2>3, <4>1, <5>3 DEF MemoryAfter, v, addr, width
        <4> HIDE DEF a, written
        <4>5. CacheAfter(c, syl) = AccessStore(c.cache, addr)
          BY <4>1 DEF CacheAfter, addr
        <4>6. a.memory = f.memory /\ a.cache = f.cache
          BY <1>4, <2>2, <2>3, <4>3, <4>4, <4>5 DEF AccessSoFar
        <4>7. \A r \in GprIndices : a.gprs[r] = f.gprs[r] /\ a.ready[r] = f.ready[r]
          BY <2>1, <2>2, <4>1, <4>3 DEF RegistersSoFar
        <4> QED
          BY <1>6, <4>3, <4>6, <4>7
      <3> QED
        BY <1>3, <3>1, <3>2 DEF MemoryOps
    <2> HIDE DEF a
    <2>5. /\ IsCpu(d) /\ d.cycle = cycle + 1 /\ d.pc = a.pc /\ d.halted = a.halted
          /\ d.preds = a.preds /\ d.gprs = a.gprs /\ d.ready = a.ready
          /\ d.memory = a.memory /\ d.cache = a.cache
      <3>1. cycle + 1 \in Nat
        BY <1>1
      <3> QED
        BY <2>4, <3>1 DEF IsCpu, NewCpu
    <2> HIDE DEF d
    <2>6. d = f
      <3>1. IsCpu(f) /\ f.cycle = cycle + 1 /\ f.pc = c.pc + 1
        BY <1>1, <2>2 DEF SameClocks
      <3>2. d.pc = f.pc /\ d.cycle = f.cycle /\ d.memory = f.memory /\ d.cache = f.cache
        BY <1>6, <2>4, <2>5, <3>1
      <3>3. d.halted = f.halted
        <4>1. ~f.halted /\ ~g.halted /\ f.halted \in BOOLEAN /\ g.halted \in BOOLEAN
          BY <2>2 DEF SameClocks, IsCpu
        <4>2. d.halted = g.halted
          BY <2>1, <2>4, <2>5
        <4> QED
          BY <4>1, <4>2
      <3>4. \A p \in PredIndices : d.preds[p] = f.preds[p]
        <4>1. d.preds = g.preds
          BY <2>1, <2>4, <2>5
        <4> QED
          BY <2>2, <4>1 DEF SamePreds
      <3>5. \A r \in GprIndices : d.gprs[r] = f.gprs[r] /\ d.ready[r] = f.ready[r]
        BY <2>4, <2>5
      <3> QED
        BY <2>5, <3>1, <3>2, <3>3, <3>4, <3>5, SameCpu
    <2> QED
      BY <1>7, <1>10, <2>4, <2>6 DEF d, a, after, s, c, bundle, n, m, req, f
  <1> QED
    BY <1>9, <1>10

\* A settled bundle without an active memory operation is the same bundle for
\* step_trace.
LEMMA TracedWithoutAccess ==
    ASSUME NEW bundle \in Seq(Syllable), bundle = NextBundle(0), IsCpu(cpus[0]),
           AccessIsSettled(bundle),
           \A t \in DOMAIN bundle : bundle[t].op \in MemoryOps => ~Active(cpus[0], bundle[t])
    PROVE  /\ Alone!AfterSlot[Len(bundle)]
                = [cpu |-> ExecBundle(cpus[0], bundle), panicked |-> FALSE]
           /\ ~HasMemoryFault(cpus[0], bundle)
  <1> DEFINE c == cpus[0]
             F == Alone!AfterSlot
             G == SlotBySlot(c, bundle)
             Sim(n) ==
                /\ F[n] = [cpu |-> G[n], panicked |-> FALSE]
                /\ IsCpu(G[n])
                /\ \A t \in DOMAIN bundle :
                     n < t /\ bundle[t].op \in MemoryOps => ~Active(G[n], bundle[t])
             S == {n \in Nat : n <= Len(bundle) => Sim(n)}
  <1>0. Len(bundle) \in Nat /\ DOMAIN bundle = 1 .. Len(bundle)
    OBVIOUS
  <1>1. /\ G[0] = Issuing(c)
        /\ \A s \in 1 .. Len(bundle) :
             G[s] = IF G[s - 1].halted THEN G[s - 1] ELSE ExecSyllable(G[s - 1], bundle[s])
    BY <1>0, SlotBySlotDef
  <1>2. /\ F[0] = [cpu |-> Issuing(c), panicked |-> FALSE]
        /\ \A s \in 1 .. Len(bundle) :
             F[s] = LET before == F[s - 1]
                    IN  IF before.panicked \/ before.cpu.halted THEN before
                        ELSE IF FaultsAt(before.cpu, bundle[s])
                             THEN [before EXCEPT !.panicked = TRUE]
                        ELSE [before EXCEPT !.cpu = ExecSyllable(@, bundle[s])]
    BY <1>0, TracedSlotsDef
  <1> HIDE DEF F, G
  <1>3. 0 \in S
    <2> DEFINE start == Issuing(c)
    <2>1. IsCpu(start) /\ start.preds = c.preds
      BY IssuingEffect DEF NewCpu
    <2> HIDE DEF start
    <2>2. \A syl : Active(start, syl) <=> Active(c, syl)
      BY <2>1 DEF Active, ReadPred
    <2>3. F[0] = [cpu |-> start, panicked |-> FALSE] /\ G[0] = start
      BY <1>1, <1>2 DEF start
    <2>4. Sim(0)
      BY <2>1, <2>2, <2>3
    <2> QED
      BY <2>4
  <1>4. ASSUME NEW n \in Nat, n \in S PROVE n + 1 \in S
    <2> SUFFICES ASSUME n + 1 <= Len(bundle) PROVE Sim(n + 1)
      OBVIOUS
    <2> DEFINE s == n + 1
               b == G[n]
    <2>1. /\ s \in DOMAIN bundle /\ s \in 1 .. Len(bundle) /\ s - 1 = n /\ n < s
          /\ Sim(n) /\ bundle[s] \in Syllable
      BY <1>0, <1>4
    <2>2. ~FaultsAt(b, bundle[s])
      BY <2>1 DEF FaultsAt
    <2>3. G[s] = IF b.halted THEN b ELSE ExecSyllable(b, bundle[s])
      BY <1>1, <2>1
    <2>4. F[s] = [cpu |-> G[s], panicked |-> FALSE]
      <3>1. F[n].cpu = b /\ F[n].panicked = FALSE
        BY <2>1
      <3>2. F[s] = IF b.halted THEN F[n] ELSE [F[n] EXCEPT !.cpu = ExecSyllable(b, bundle[s])]
        <4>1. F[s] = IF F[n].panicked \/ F[n].cpu.halted THEN F[n]
                     ELSE IF FaultsAt(F[n].cpu, bundle[s]) THEN [F[n] EXCEPT !.panicked = TRUE]
                     ELSE [F[n] EXCEPT !.cpu = ExecSyllable(F[n].cpu, bundle[s])]
          BY <1>2, <2>1
        <4> HIDE DEF b, s
        <4> QED
          BY <2>2, <3>1, <4>1
      <3>3. F[n] = [cpu |-> b, panicked |-> FALSE]
        BY <2>1
      <3> DEFINE e == ExecSyllable(b, bundle[s])
      <3> HIDE DEF b, s, e
      <3>4. CASE b.halted
        BY <2>3, <3>2, <3>3, <3>4
      <3>5. CASE ~b.halted
        <4>1. F[s] = [F[n] EXCEPT !.cpu = e] /\ G[s] = e
          BY <2>3, <3>2, <3>5 DEF e
        <4>2. F[s].cpu = e /\ F[s].panicked = F[n].panicked
          BY <3>3, <4>1
        <4>3. F[s] = [cpu |-> F[s].cpu, panicked |-> F[s].panicked]
          BY <3>3, <4>1
        <4>4. F[s].panicked = FALSE
          BY <3>1, <4>2
        <4> QED
          BY <4>1, <4>2, <4>3, <4>4, Zenon
      <3> QED
        BY <3>4, <3>5
    <2>5. IsCpu(G[s]) /\ \A t \in DOMAIN bundle :
                           s < t /\ bundle[t].op \in MemoryOps => ~Active(G[s], bundle[t])
      <3> DEFINE d == G[s]
      <3>1. CASE d = b
        BY <1>0, <2>1, <3>1
      <3>2. CASE d = ExecSyllable(b, bundle[s]) /\ Active(b, bundle[s])
        <4> HIDE DEF d
        <4>1. Frame(b, bundle[s], d) /\ IsCpu(d)
          <5>1. IsCpu(b) /\ bundle[s] \in Syllable
            BY <2>1
          <5> HIDE DEF b, s
          <5>2. Frame(b, bundle[s], d)
            BY <3>2, <5>1, SyllableFrame
          <5> QED
            BY <5>2 DEF Frame
        <4>2. ASSUME NEW t \in DOMAIN bundle, s < t, bundle[t].op \in MemoryOps
              PROVE  ~Active(d, bundle[t])
          <5>1. n < t /\ ~Active(b, bundle[t])
            BY <1>0, <2>1, <4>2
          <5>2. bundle[s].op \in WritesPred => bundle[t].pred \notin {bundle[s].dst} \ {0}
            BY <2>1, <4>2 DEF AccessIsSettled
          <5> QED
            BY <4>1, <5>1, <5>2, GuardIsSettled DEF Frame
        <4> QED
          BY <4>1, <4>2 DEF d
      <3>3. ExecSyllable(b, bundle[s]) = b \/ Active(b, bundle[s])
        BY DEF ExecSyllable
      <3> QED
        BY <2>3, <3>1, <3>2, <3>3
    <2> QED
      BY <2>4, <2>5
  <1> HIDE DEF S
  <1>5. Len(bundle) \in S
    BY <1>0, <1>3, <1>4, NatSetInduction
  <1>6. Sim(Len(bundle))
    BY <1>0, <1>5 DEF S
  <1>7. ~HasMemoryFault(c, bundle)
    BY DEF HasMemoryFault, FaultsAt
  <1> QED
    BY <1>6, <1>7 DEF F, G, ExecBundle

\* What phase two makes of the CPU when it has no request.
LEMMA OwnStepIsTraced ==
    ASSUME AloneInv, RequestOf(0) = NoReq, AccessIsSettled(NextBundle(0)),
           ~Finished(cpus[0], programs[0])
    PROVE  LET c      == cpus[0]
               bundle == NextBundle(0)
               step   == StepOf(0, memory)
           IN  \/ /\ ~BundleIsLegal(c, bundle)
                  /\ step.result = "Halted" /\ step.cpu = [c EXCEPT !.halted = TRUE]
               \/ /\ BundleIsLegal(c, bundle) /\ HasUnreadySources(c, bundle)
                  /\ step.result = "Stalled" /\ step.cpu = [c EXCEPT !.cycle = @ + 1]
               \/ /\ BundleIsLegal(c, bundle) /\ ~HasUnreadySources(c, bundle)
                  /\ step.result = "Issued" /\ step.cpu.cycle = cycle + 1
                  /\ Alone!AfterSlot[Len(bundle)] = [cpu |-> step.cpu, panicked |-> FALSE]
  <1> DEFINE c      == cpus[0]
             bundle == NextBundle(0)
             step   == StepOf(0, memory)
  <1>1. /\ SysInv /\ 0 \in Cpus /\ Synced(c, memory) = c /\ IsCpu(c) /\ c.cycle = cycle
    BY OnlyCpu DEF AloneInv
  <1>2. step = StepChecked(c, programs[0])
    BY <1>1 DEF StepOf
  <1>3. bundle \in Seq(Syllable) /\ bundle = programs[0][c.pc + 1]
    BY <1>1, ProgramsAreSequences
  <1>4. CASE BundleIsLegal(c, bundle) /\ ~HasUnreadySources(c, bundle)
    <2>1. ASSUME NEW t \in DOMAIN bundle, bundle[t].op \in MemoryOps, Active(c, bundle[t])
          PROVE  FALSE
      <3>1. t \in MemorySlots(0)
        BY <2>1 DEF MemorySlots, ActiveSlots
      <3>2. /\ Min(MemorySlots(0)) \in MemorySlots(0)
            /\ UnreadySource(c, bundle[Min(MemorySlots(0))])
        BY <1>1, <3>1, RequestFacts
      <3>3. Min(MemorySlots(0)) \in ActiveSlots(c, bundle)
        BY <3>2 DEF MemorySlots
      <3> QED
        BY <1>4, <3>2, <3>3 DEF HasUnreadySources
    <2>2. /\ Alone!AfterSlot[Len(bundle)] = [cpu |-> ExecBundle(c, bundle), panicked |-> FALSE]
          /\ ~HasMemoryFault(c, bundle)
      BY <1>1, <1>3, <2>1, TracedWithoutAccess
    <2>3. step = [result |-> "Issued", cpu |-> ExecBundle(c, bundle)]
      BY <1>2, <1>3, <1>4, <2>2 DEF StepChecked
    <2>4. ExecBundle(c, bundle).cycle = cycle + 1
      BY <1>1, <1>3, ExecBundleEffect DEF BundleEffect
    <2> HIDE DEF c, bundle, step
    <2>5. step.result = "Issued" /\ step.cpu = ExecBundle(c, bundle)
      BY <2>3
    <2> QED
      BY <1>4, <2>2, <2>4, <2>5 DEF c, bundle, step
  <1>5. CASE BundleIsLegal(c, bundle) /\ HasUnreadySources(c, bundle)
    <2> DEFINE waits == [c EXCEPT !.cycle = @ + 1]
    <2>1. step = [result |-> "Stalled", cpu |-> waits]
      BY <1>2, <1>3, <1>5 DEF StepChecked
    <2> HIDE DEF step, waits
    <2>2. step.result = "Stalled" /\ step.cpu = waits
      BY <2>1
    <2> QED
      BY <1>5, <2>2 DEF step, waits
  <1>6. CASE ~BundleIsLegal(c, bundle)
    <2> DEFINE halts == [c EXCEPT !.halted = TRUE]
    <2>1. step = [result |-> "Halted", cpu |-> halts]
      BY <1>2, <1>3, <1>6 DEF StepChecked
    <2> HIDE DEF step, halts
    <2>2. step.result = "Halted" /\ step.cpu = halts
      BY <2>1
    <2> QED
      BY <1>6, <2>2 DEF step, halts
  <1> QED
    BY <1>4, <1>5, <1>6

-----------------------------------------------------------------------------
(* Between two calls the only CPU has the clock and the memory of the system. *)

\* The CPU's copy of the memory is the shared memory when the call returns.
LEMMA OnlyCpuCommitted ==
    ASSUME AloneInv, NEW after, after = Committed(AllStepped), ~after.panicked
    PROVE  IsCpu(after.cpus[0]) /\ after.cpus[0].memory = after.memory
  <1> DEFINE s == AllStepped
             b == s.cpus[0]
             step == StepOf(0, memory)
             req == RequestOf(0)
             syl == GrantedSyllable
  <1>1. /\ SysInv /\ 0 \in Cpus /\ Granted = req /\ BusOwner(cycle) = 0 /\ cycle \in Nat
    BY OnlyCpu DEF AloneInv
  <1>2. /\ IsSystem(s) /\ b = step.cpu
        /\ s.memory = IF Stepped(step.result) THEN step.cpu.memory ELSE memory
        /\ s.panicked = (step.result = "Fault")
    BY OnlyCpuStepped
  <1>3. StepEffect(0, memory, step)
    BY <1>1, StepOfEffect
  <1>4. ~s.panicked /\ (req = NoReq => after = s)
    <2>1. ~AllStepped.panicked /\ (Granted = NoReq => after = AllStepped)
      BY <1>1, CommittedEffect
    <2> QED
      BY <1>1, <2>1
  <1> HIDE DEF step
  <1>5. step.result # "Fault"
    BY <1>2, <1>4
  <1>6. IsCpu(b) /\ b.memory = s.memory
    BY <1>1, <1>2, <1>3, <1>5 DEF StepEffect, Stepped, StepResults, IsSystem
  <1>7. CASE req = NoReq
    BY <1>4, <1>6, <1>7
  <1>8. CASE req # NoReq
    <2>1. /\ syl \in Syllable /\ syl.op \in MemoryOps /\ req.cpu = 0 /\ req.dst = syl.dst
          /\ req.kind = IF syl.op \in Stores THEN "store" ELSE "load"
      BY <1>1, <1>8, GrantedFacts
    <2> HIDE DEF s, req, syl, b
    <2>2. InBounds(req.address, req.width)
      <3>1. ASSUME ~InBounds(req.address, req.width) PROVE FALSE
        <4>1. after = [s EXCEPT !.panicked = TRUE]
          BY <1>1, <1>4, <1>8, <3>1 DEF Committed, Commit, s
        <4>2. after.panicked = TRUE
          BY <1>2, <4>1 DEF IsSystem
        <4> QED
          BY <4>2
      <3> QED
        BY <3>1
    <2>3. after = IF req.kind = "load" THEN CommitLoad(s, req) ELSE CommitStore(s, req)
      BY <1>1, <1>4, <1>8, <2>2 DEF Committed, Commit, s
    <2>4. CASE syl.op \in Stores
      <3>1. after = CommitStore(s, req)
        BY <2>1, <2>3, <2>4
      <3>2. StoreCommitted(s, 0, req, after)
        BY <1>1, <1>2, <2>1, <3>1, CommitStoreFields
      <3> QED
        BY <3>2 DEF StoreCommitted
    <2>5. CASE syl.op \notin Stores
      <3>1. after = CommitLoad(s, req) /\ syl.op \in Loads
        BY <2>1, <2>3, <2>5 DEF MemoryOps
      <3>2. LoadCommitted(s, 0, syl, req, after)
        BY <1>1, <1>2, <2>1, <3>1, CommitLoadFields
      <3> QED
        BY <3>2 DEF LoadCommitted
    <2> QED
      BY <2>4, <2>5
  <1> QED
    BY <1>7, <1>8

LEMMA AloneInvInit == NumCpus = 1 /\ Init => AloneInv
  <1> SUFFICES ASSUME NumCpus = 1, Init PROVE AloneInv
    OBVIOUS
  <1>1. 0 \in Cpus
    BY DEF Cpus
  <1>2. cpus[0] = NewCpu /\ cycle = 0 /\ memory = ZeroMemory
    BY <1>1 DEF Init
  <1>3. cpus[0].cycle = cycle /\ cpus[0].memory = memory
    BY <1>2 DEF NewCpu
  <1> QED
    BY <1>3, SysInvInit, TypeInit DEF AloneInv

LEMMA AloneInvStep == AloneInv /\ [Next]_vars => AloneInv'
  <1> SUFFICES ASSUME AloneInv, [Next]_vars PROVE AloneInv'
    OBVIOUS
  <1>1. SysInv' /\ TypeOK'
    BY SysInvStep, TypeStep DEF AloneInv
  <1>2. cpus'[0].cycle = cycle' /\ cpus'[0].memory = memory'
    <2>1. CASE UNCHANGED vars
      BY <2>1 DEF vars, AloneInv
    <2>2. CASE Next
      <3> DEFINE after == Committed(AllStepped)
                 step == StepOf(0, memory)
      <3>1. Progress(after) \/ NoProgress(after) \/ Panic(after)
        BY <2>2 DEF Next, StepGlobal
      <3>2. SysInv /\ 0 \in Cpus
        BY OnlyCpu DEF AloneInv
      <3>3. ~after.panicked => IsCpu(after.cpus[0]) /\ after.cpus[0].memory = after.memory
        BY OnlyCpuCommitted
      <3>4. ~after.panicked =>
              /\ ~AllStepped.panicked /\ (Granted = NoReq => after = AllStepped)
              /\ Granted # NoReq => after.progress = TRUE
        BY <3>2, CommittedEffect
      <3> HIDE DEF after
      <3>5. CASE Progress(after)
        <4> DEFINE a == after.cpus[0]
                   d == [a EXCEPT !.cycle = cycle + 1]
        <4>1. ~after.panicked /\ cycle' = cycle + 1 /\ cpus'[0] = d /\ memory' = after.memory
          BY <3>2, <3>5 DEF Progress
        <4>2. IsCpu(a) /\ a.memory = after.memory
          BY <3>3, <4>1
        <4>3. d.cycle = cycle + 1 /\ d.memory = a.memory
          <5> HIDE DEF a
          <5> QED
            BY <4>2 DEF IsCpu, NewCpu
        <4> HIDE DEF a, d
        <4> QED
          BY <4>1, <4>2, <4>3
      <3>6. CASE NoProgress(after)
        <4>1. /\ ~after.panicked /\ ~after.progress
              /\ cycle' = cycle /\ cpus' = after.cpus /\ memory' = after.memory
          BY <3>6 DEF NoProgress
        <4>2. after = AllStepped /\ ~AllStepped.panicked
          BY <3>4, <4>1
        <4>3. /\ StepEffect(0, memory, step)
              /\ AllStepped.cpus[0] = step.cpu
              /\ AllStepped.progress = Stepped(step.result)
              /\ AllStepped.panicked = (step.result = "Fault")
          BY <3>2, StepOfEffect, OnlyCpuStepped
        <4> HIDE DEF step
        <4>4. step.result = "Halted"
          BY <4>1, <4>2, <4>3 DEF StepEffect, Stepped, StepResults
        <4>5. AllStepped.cpus[0].cycle = cycle
          BY <4>3, <4>4 DEF StepEffect
        <4> QED
          BY <3>3, <4>1, <4>2, <4>5
      <3>7. CASE Panic(after)
        BY <3>7 DEF Panic, AloneInv
      <3> QED
        BY <3>1, <3>5, <3>6, <3>7
    <2> QED
      BY <2>1, <2>2
  <1> QED
    BY <1>1, <1>2 DEF AloneInv

-----------------------------------------------------------------------------
(* One call of step_global is one step_trace. *)

LEMMA CallIsTraced ==
    ASSUME AloneInv, Next, ~Finished(cpus[0], programs[0]), RestIsIndependent(0)
    PROVE  Alone!Next
  <1> DEFINE c      == cpus[0]
             bundle == NextBundle(0)
             traced == Alone!AfterSlot[Len(bundle)]
             step   == StepOf(0, memory)
             after  == Committed(AllStepped)
  <1>1. /\ SysInv /\ 0 \in Cpus /\ Granted = RequestOf(0) /\ c.cycle = cycle /\ cycle \in Nat
        /\ IsCpu(c)
    BY OnlyCpu DEF AloneInv
  <1>2. /\ programs' = programs /\ status # "panicked" /\ cycle < MaxCycle
        /\ Progress(after) \/ NoProgress(after) \/ Panic(after)
    BY DEF Next, StepGlobal
  <1>3. Alone!Running
    BY <1>1, <1>2, AloneChecks DEF Alone!Running
  <1>4. /\ Alone!Bundle = bundle
        /\ Alone!BundleIsLegal(c, bundle) <=> BundleIsLegal(c, bundle)
        /\ Alone!HasUnreadySources(c, bundle) <=> HasUnreadySources(c, bundle)
        /\ Alone!TracedExec = traced
    BY AloneChecks DEF Alone!Bundle, NextBundle, Alone!TracedExec
  <1>5. CASE RequestOf(0) # NoReq
    <2>1. BundleIsLegal(c, bundle) /\ ~HasUnreadySources(c, bundle)
      BY <1>5 DEF RestIsIndependent
    <2>2. \/ traced.panicked = TRUE /\ after.panicked = TRUE
          \/ /\ traced.panicked = FALSE /\ after.panicked = FALSE /\ after.progress = TRUE
             /\ [after.cpus[0] EXCEPT !.cycle = cycle + 1] = traced.cpu
      BY <1>5, CommitOfRequest
    <2> HIDE DEF after, traced, bundle, c
    <2>3. /\ (status' = "panicked") = traced.panicked
          /\ cpus'[0] = IF status' = "panicked" THEN c ELSE traced.cpu
      <3>1. CASE traced.panicked = TRUE /\ after.panicked = TRUE
        <4>1. Panic(after)
          BY <1>2, <3>1 DEF Progress, NoProgress
        <4> QED
          BY <3>1, <4>1 DEF Panic, c
      <3>2. CASE /\ traced.panicked = FALSE /\ after.panicked = FALSE /\ after.progress = TRUE
                 /\ [after.cpus[0] EXCEPT !.cycle = cycle + 1] = traced.cpu
        <4>1. Progress(after)
          BY <1>2, <3>2 DEF Panic, NoProgress
        <4> QED
          BY <1>1, <3>2, <4>1 DEF Progress
      <3> QED
        BY <2>2, <3>1, <3>2
    <2>4. Alone!Issue
      BY <1>2, <1>3, <1>4, <2>1, <2>3 DEF Alone!Issue, c
    <2> QED
      BY <2>4 DEF Alone!Next
  <1>6. CASE RequestOf(0) = NoReq
    <2>1. /\ AllStepped.cpus[0] = step.cpu /\ IsSystem(AllStepped)
          /\ AllStepped.progress = Stepped(step.result)
          /\ AllStepped.panicked = (step.result = "Fault")
      BY OnlyCpuStepped
    <2>2. \/ /\ ~BundleIsLegal(c, bundle)
             /\ step.result = "Halted" /\ step.cpu = [c EXCEPT !.halted = TRUE]
          \/ /\ BundleIsLegal(c, bundle) /\ HasUnreadySources(c, bundle)
             /\ step.result = "Stalled" /\ step.cpu = [c EXCEPT !.cycle = @ + 1]
          \/ /\ BundleIsLegal(c, bundle) /\ ~HasUnreadySources(c, bundle)
             /\ step.result = "Issued" /\ step.cpu.cycle = cycle + 1
             /\ traced = [cpu |-> step.cpu, panicked |-> FALSE]
      BY <1>6, OwnStepIsTraced DEF RestIsIndependent
    <2> HIDE DEF step, traced, bundle
    <2>3. ~AllStepped.panicked
      BY <2>1, <2>2
    <2>4. after = AllStepped
      BY <1>1, <1>6, <2>3 DEF Committed, Commit
    <2> DEFINE e == step.cpu
               d == [e EXCEPT !.cycle = cycle + 1]
    <2>5. IsCpu(e)
      BY <1>1, <2>1 DEF IsSystem
    <2>6. e.cycle = cycle + 1 => d = e
      <3> HIDE DEF e
      <3> QED
        BY <2>5 DEF IsCpu, NewCpu
    <2> HIDE DEF after, e
    <2>7. ~after.panicked /\ after.progress = Stepped(step.result) /\ after.cpus[0] = e
      BY <2>1, <2>3, <2>4 DEF e
    <2>8. CASE ~BundleIsLegal(c, bundle)
      <3>1. step.result = "Halted" /\ e = [c EXCEPT !.halted = TRUE]
        BY <2>2, <2>8 DEF e
      <3>2. NoProgress(after)
        BY <1>2, <2>7, <3>1 DEF Progress, Panic, Stepped
      <3>3. cpus'[0] = [c EXCEPT !.halted = TRUE] /\ status' = "quiescent"
        BY <2>7, <3>1, <3>2 DEF NoProgress
      <3>4. Alone!IllegalBundle
        BY <1>2, <1>3, <1>4, <2>8, <3>3 DEF Alone!IllegalBundle
      <3> QED
        BY <3>4 DEF Alone!Next
    <2>9. CASE BundleIsLegal(c, bundle)
      <3>1. Stepped(step.result) /\ e.cycle = cycle + 1
        <4>1. [c EXCEPT !.cycle = @ + 1].cycle = cycle + 1
          BY <1>1 DEF IsCpu, NewCpu
        <4> HIDE DEF c
        <4> QED
          BY <2>2, <2>9, <4>1 DEF Stepped, e
      <3>2. Progress(after)
        BY <1>2, <2>7, <3>1 DEF NoProgress, Panic
      <3>3. cpus'[0] = e /\ status' = "running"
        BY <1>1, <2>6, <2>7, <3>1, <3>2 DEF Progress
      <3>4. CASE HasUnreadySources(c, bundle)
        <4>1. e = [c EXCEPT !.cycle = @ + 1]
          BY <2>2, <2>9, <3>4 DEF e
        <4>2. Alone!Stall
          BY <1>2, <1>3, <1>4, <2>9, <3>3, <3>4, <4>1 DEF Alone!Stall
        <4> QED
          BY <4>2 DEF Alone!Next
      <3>5. CASE ~HasUnreadySources(c, bundle)
        <4>1. traced.cpu = e /\ traced.panicked = FALSE
          BY <2>2, <2>9, <3>5 DEF e
        <4>2. Alone!Issue
          BY <1>2, <1>3, <1>4, <2>9, <3>3, <3>5, <4>1 DEF Alone!Issue
        <4> QED
          BY <4>2 DEF Alone!Next
      <3> QED
        BY <3>4, <3>5
    <2> QED
      BY <2>8, <2>9
  <1> QED
    BY <1>5, <1>6

LEMMA AloneStarts == NumCpus = 1 /\ Init => Alone!Init
  <1> SUFFICES ASSUME NumCpus = 1, Init PROVE Alone!Init
    OBVIOUS
  <1>1. 0 \in Cpus
    BY DEF Cpus
  <1>2. cpus[0] = Alone!NewCpu /\ programs \in ProgramSets
    BY <1>1, AloneRegisters DEF Init
  <1>3. (status = "panicked") = FALSE
    BY DEF Init
  <1> QED
    BY <1>2, <1>3 DEF Alone!Init

\* A system of one CPU does under step_global, bundle by bundle, what that CPU
\* does under trace_program: the bus, the request taken out of the bundle and its
\* commit after it make no difference to its registers, its memory, its cache,
\* its clock or its panics, as long as the rest of the bundle is independent of
\* its access.
THEOREM OneCpuBehavesAsTracedAlways ==
    ASSUME NumCpus = 1
    PROVE  Spec => OneCpuBehavesAsTraced
  <1>1. Init => AloneInv /\ Alone!Init
    BY AloneInvInit, AloneStarts
  <1>2. AloneInv /\ [Next]_vars => AloneInv'
    BY AloneInvStep
  <1>3. AloneInv /\ [Next]_vars =>
          [~Finished(cpus[0], programs[0]) /\ RestIsIndependent(0) => Alone!Next]_(Alone!vars)
    <2>1. CASE UNCHANGED vars
      BY <2>1 DEF vars, Alone!vars
    <2>2. AloneInv /\ Next /\ ~Finished(cpus[0], programs[0]) /\ RestIsIndependent(0)
            => Alone!Next
      BY CallIsTraced
    <2> QED
      BY <2>1, <2>2
  <1> QED
    BY <1>1, <1>2, <1>3, PTL DEF Spec, OneCpuBehavesAsTraced

=============================================================================
