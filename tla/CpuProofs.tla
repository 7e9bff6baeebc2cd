----------------------------- MODULE CpuProofs -----------------------------
(***************************************************************************)
(* Facts about one CPU (module Cpu) and about the static checks of its     *)
(* bundles (module Verifier) for every layout, cache and latency table,    *)
(* and the induction over the slots of a bundle.                           *)
(***************************************************************************)
EXTENDS Verifier, MemoryProofs

-----------------------------------------------------------------------------
(* Words. *)

\* In range, a word is itself.
LEMMA AsWordOfSmall ==
    ASSUME NEW x \in Nat
    PROVE  AsWord(x) \in Nat /\ AsWord(x) <= x /\ (x < WordMod => AsWord(x) = x)
  <1>1. x % WordMod \in Nat /\ x % WordMod <= x /\ (x < WordMod => x % WordMod = x)
    <2> DEFINE m == WordMod
    <2>1. m \in Nat \ {0}
      BY WordFacts
    <2> HIDE DEF m
    <2>2. x % m \in Nat /\ x % m <= x /\ (x < m => x % m = x)
      BY <2>1
    <2> QED
      BY <2>2 DEF m
  <1> QED
    BY <1>1 DEF AsWord

-----------------------------------------------------------------------------
(* The state of a CPU. *)

\* A CPU whose registers and memory may hold anything.
IsCpu(c) ==
    /\ c = [f \in DOMAIN NewCpu |-> c[f]]
    /\ c.gprs = [r \in GprIndices |-> c.gprs[r]]
    /\ c.preds = [p \in PredIndices |-> c.preds[p]]
    /\ c.ready \in [GprIndices -> Nat]
    /\ c.cache = [k \in LineIndices |-> c.cache[k]]
    /\ c.cycle \in Nat
    /\ c.halted \in BOOLEAN

-----------------------------------------------------------------------------
(* What one syllable does to a CPU. *)

\* Whatever line is written, a cache keeps its lines.
LEMMA SetLineKeepsTheLines ==
    ASSUME NEW lines, lines = [k \in LineIndices |-> lines[k]], NEW addr, NEW line
    PROVE  LET after == SetLine(lines, addr, line)
           IN  after = [k \in LineIndices |-> after[k]]
  BY DEF SetLine

LEMMA AccessKeepsTheLines ==
    ASSUME NEW lines, lines = [k \in LineIndices |-> lines[k]], NEW addr
    PROVE  /\ AccessLoad(lines, addr) = [k \in LineIndices |-> AccessLoad(lines, addr)[k]]
           /\ AccessStore(lines, addr) = [k \in LineIndices |-> AccessStore(lines, addr)[k]]
  BY SetLineKeepsTheLines DEF AccessLoad, AccessStore

\* The result of a load takes one of three times.
LEMMA LoadLatency ==
    ASSUME NEW lines, NEW addr, NEW op \in Loads
    PROVE  OutcomeLatency(PeekOutcome(lines, addr)) \in ResultLatencies(op)
  BY DEF OutcomeLatency, PeekOutcome, ResultLatencies, CacheWorstCaseLoadLatency

LEMMA LatenciesAreNaturals ==
    ASSUME NEW op \in Opcodes
    PROVE  ResultLatencies(op) \subseteq Nat
  BY CacheAssumption, CpuAssumption DEF ResultLatencies, CacheWorstCaseLoadLatency

LEMMA WriteGprEffect ==
    ASSUME NEW c, IsCpu(c), NEW r, NEW value
    PROVE  LET d == WriteGpr(c, r, value)
           IN  /\ IsCpu(d)
               /\ \A f \in DOMAIN NewCpu \ {"gprs"} : d[f] = c[f]
               /\ \A q \in GprIndices : 
                    d.gprs[q] = IF q = r /\ r # 0 THEN value ELSE c.gprs[q]
  BY DEF WriteGpr, IsCpu, NewCpu

LEMMA WritePredEffect ==
    ASSUME NEW c, IsCpu(c), NEW p, NEW value
    PROVE  LET d == WritePred(c, p, value)
           IN  /\ IsCpu(d)
               /\ \A f \in DOMAIN NewCpu \ {"preds"} : d[f] = c[f]
               /\ \A q \in PredIndices : 
                    d.preds[q] = IF q = p /\ p # 0 THEN value ELSE c.preds[q]
  BY DEF WritePred, IsCpu, NewCpu

LEMMA SetReadyEffect ==
    ASSUME NEW c, IsCpu(c), NEW r, NEW cycle \in Nat
    PROVE  LET d == SetReady(c, r, cycle)
           IN  /\ IsCpu(d)
               /\ \A f \in DOMAIN NewCpu \ {"ready"} : d[f] = c[f]
               /\ \A q \in GprIndices : 
                    d.ready[q] = IF q = r THEN cycle ELSE c.ready[q]
  BY DEF SetReady, IsCpu, NewCpu

LEMMA NewCpuIsCpu == IsCpu(NewCpu)
  <1>1. NewCpu = [f \in DOMAIN NewCpu |-> NewCpu[f]]
    BY DEF NewCpu
  <1>2. /\ NewCpu.gprs = [r \in GprIndices |-> 0]
        /\ NewCpu.preds = [p \in PredIndices |-> p = 0]
        /\ NewCpu.ready = [r \in GprIndices |-> 0]
        /\ NewCpu.cycle = 0
        /\ NewCpu.cache = [k \in LineIndices |-> NewCpu.cache[k]]
    BY DEF NewCpu, NewCache
  <1>3. NewCpu.preds = [p \in PredIndices |-> NewCpu.preds[p]]
    BY <1>2, Zenon
  <1>4. NewCpu.halted \in BOOLEAN
    BY DEF NewCpu
  <1> QED
    BY <1>1, <1>2, <1>3, <1>4 DEF IsCpu

\* Where a syllable may leave a CPU: the clock stands still, a result goes to
\* the destination only and is late by one of the latencies of the opcode, and
\* only transfers of control change the program counter.
Effect(c, syl, d) ==
    /\ IsCpu(d)
    /\ d.cycle = c.cycle
    /\ \A r \in GprIndices : GprWriteDst(syl) # r =>
         d.gprs[r] = c.gprs[r] /\ d.ready[r] = c.ready[r]
    /\ \A r \in GprIndices :
         \/ d.ready[r] = c.ready[r]
         \/ \E latency \in ResultLatencies(syl.op) : d.ready[r] = c.cycle + latency
    /\ \/ d.pc = c.pc
       \/ syl.op \in {"Branch", "Jump", "Call"}
       \/ syl.op = "Ret" /\ c.gprs[LinkReg] # 0 /\ d.pc = c.gprs[LinkReg]
    /\ syl.op = "Call" => d.gprs[LinkReg] \in {c.gprs[LinkReg], AsWord(c.pc)}

LEMMA LinkIsAGpr == LinkReg \in GprIndices \ {0}
  BY CpuAssumption DEF GprIndices

LEMMA WritebackEffect ==
    ASSUME NEW c, IsCpu(c), NEW syl \in Syllable, NEW value,
           syl.op \in GprWriters, NEW latency \in ResultLatencies(syl.op),
           NEW d, d = Writeback(c, syl, value, latency)
    PROVE  Effect(c, syl, d)
  <1> DEFINE e == WriteGpr(c, syl.dst, value)
  <1>1. syl.op \in Opcodes /\ syl.op \notin ControlOps
    BY DEF Syllable, Opcodes, GprWriters, IntegerOps, MultiplyOps, Fp32Ops, Fp64Ops, AesOps,
           Loads, ControlOps
  <1>2. latency \in Nat
    BY <1>1, LatenciesAreNaturals
  <1>3. GprWriteDst(syl) = syl.dst
    BY <1>1 DEF GprWriteDst, ControlOps
  <1>4. /\ IsCpu(e)
        /\ e.cycle = c.cycle /\ e.pc = c.pc /\ e.ready = c.ready
        /\ \A q \in GprIndices : q # syl.dst => e.gprs[q] = c.gprs[q]
    BY WriteGprEffect DEF NewCpu
  <1>5. d = SetReady(e, syl.dst, c.cycle + latency) /\ c.cycle + latency \in Nat
    BY <1>2 DEF Writeback, IsCpu
  <1>6. /\ IsCpu(d)
        /\ d.cycle = e.cycle /\ d.pc = e.pc /\ d.gprs = e.gprs
        /\ \A q \in GprIndices :
             d.ready[q] = IF q = syl.dst THEN c.cycle + latency ELSE e.ready[q]
    <2> HIDE DEF e
    <2> QED BY <1>4, <1>5, SetReadyEffect DEF NewCpu
  <1> HIDE DEF e
  <1> QED
    BY <1>1, <1>3, <1>4, <1>6 DEF Effect, ControlOps

\* A CPU of which only parts that no result goes to have changed.
LEMMA QuietEffect ==
    ASSUME NEW c, NEW syl \in Syllable, NEW d, IsCpu(d),
           d.cycle = c.cycle, d.gprs = c.gprs, d.ready = c.ready,
           \/ d.pc = c.pc
           \/ syl.op \in {"Branch", "Jump"}
           \/ syl.op = "Ret" /\ c.gprs[LinkReg] # 0 /\ d.pc = c.gprs[LinkReg]
    PROVE  Effect(c, syl, d)
  BY DEF Effect

LEMMA CallEffect ==
    ASSUME NEW c, IsCpu(c), NEW syl \in Syllable, syl.op = "Call", NEW target,
           NEW d, d = ExecCall(c, target)
    PROVE  Effect(c, syl, d)
  <1> DEFINE e == WriteGpr(c, LinkReg, AsWord(c.pc))
             f == SetReady(e, LinkReg, c.cycle + Latency["Call"])
  <1>1. Latency["Call"] \in Nat /\ Latency["Call"] \in ResultLatencies("Call")
    BY CpuAssumption DEF Opcodes, ControlOps, ResultLatencies, Loads
  <1>2. GprWriteDst(syl) = LinkReg
    BY DEF GprWriteDst
  <1>3. /\ IsCpu(e)
        /\ e.cycle = c.cycle /\ e.ready = c.ready
        /\ \A q \in GprIndices :
             e.gprs[q] = IF q = LinkReg /\ LinkReg # 0 THEN AsWord(c.pc) ELSE c.gprs[q]
    BY WriteGprEffect DEF NewCpu
  <1>4. c.cycle + Latency["Call"] \in Nat
    BY <1>1 DEF IsCpu
  <1>5. /\ IsCpu(f)
        /\ f.cycle = e.cycle /\ f.gprs = e.gprs
        /\ \A q \in GprIndices :
             f.ready[q] = IF q = LinkReg THEN c.cycle + Latency["Call"] ELSE e.ready[q]
    <2> HIDE DEF e
    <2> QED BY <1>3, <1>4, SetReadyEffect DEF NewCpu
  <1>6. d = [f EXCEPT !.pc = target]
    BY DEF ExecCall
  <1>7. /\ IsCpu(d)
        /\ d.cycle = f.cycle /\ d.gprs = f.gprs /\ d.ready = f.ready
    <2> HIDE DEF f
    <2> QED BY <1>5, <1>6 DEF IsCpu, NewCpu
  <1> HIDE DEF e, f
  <1> QED
    BY <1>1, <1>2, <1>3, <1>5, <1>7, LinkIsAGpr DEF Effect

LEMMA ReadGprOfLink == ASSUME NEW c PROVE ReadGpr(c, LinkReg) = c.gprs[LinkReg]
  BY LinkIsAGpr DEF ReadGpr

LEMMA SyllableEffect ==
    ASSUME NEW c, IsCpu(c), NEW syl \in Syllable, NEW d, d = ExecSyllable(c, syl)
    PROVE  Effect(c, syl, d)
  <1>1. CASE ~Active(c, syl)
    BY <1>1, QuietEffect DEF ExecSyllable
  <1>2. CASE Active(c, syl) /\ syl.op \in Loads
    <2> DEFINE e == [c EXCEPT !.cache = AccessLoad(@, EffectiveAddress(c, syl))]
    <2>1. IsCpu(e) /\ e.cycle = c.cycle /\ e.gprs = c.gprs /\ e.ready = c.ready /\ e.pc = c.pc
      BY AccessKeepsTheLines DEF IsCpu, NewCpu
    <2>2. d = ExecLoad(c, syl)
      BY <1>2 DEF ExecSyllable
    <2>3. PICK value :
             d = Writeback(e, syl, value,
                           OutcomeLatency(PeekOutcome(c.cache, EffectiveAddress(c, syl))))
      BY <2>2 DEF ExecLoad
    <2>4. syl.op \in GprWriters
      BY <1>2 DEF GprWriters
    <2> HIDE DEF e
    <2>5. Effect(e, syl, d)
      BY <1>2, <2>1, <2>3, <2>4, LoadLatency, WritebackEffect
    <2> QED
      BY <2>1, <2>5 DEF Effect
  <1>3. CASE Active(c, syl) /\ syl.op \in Stores
    <2>1. syl.op \notin Loads
      BY <1>3 DEF Loads, Stores
    <2>2. d = ExecStore(c, syl)
      BY <1>3, <2>1 DEF ExecSyllable
    <2> DEFINE e == [c EXCEPT !.cache = AccessStore(@, EffectiveAddress(c, syl))]
    <2>3. IsCpu(e) /\ e.cycle = c.cycle /\ e.gprs = c.gprs /\ e.ready = c.ready /\ e.pc = c.pc
      BY AccessKeepsTheLines DEF IsCpu, NewCpu
    <2>4. PICK mem : d = [e EXCEPT !.memory = mem]
      BY <2>2 DEF ExecStore
    <2> HIDE DEF e
    <2>5. IsCpu(d) /\ d.cycle = c.cycle /\ d.gprs = c.gprs /\ d.ready = c.ready /\ d.pc = c.pc
      BY <2>3, <2>4 DEF IsCpu, NewCpu
    <2> QED
      BY <2>5, QuietEffect
  <1>4. CASE Active(c, syl) /\ syl.op \in GprWriters /\ syl.op \notin MemoryOps
    <2>1. PICK value : d = Writeback(c, syl, value, Latency[syl.op])
      BY <1>4 DEF ExecSyllable, MemoryOps
    <2>2. Latency[syl.op] \in ResultLatencies(syl.op)
      BY <1>4 DEF ResultLatencies, MemoryOps
    <2> QED
      BY <1>4, <2>1, <2>2, WritebackEffect
  <1>5. CASE Active(c, syl) /\ syl.op \notin MemoryOps \cup GprWriters /\ syl.op \in WritesPred
    <2>1. PICK value : d = WritePred(c, syl.dst, value)
      BY <1>5 DEF ExecSyllable, MemoryOps, WritesPred
    <2>2. IsCpu(d) /\ d.cycle = c.cycle /\ d.gprs = c.gprs /\ d.ready = c.ready /\ d.pc = c.pc
      BY <2>1, WritePredEffect DEF NewCpu
    <2> QED
      BY <2>2, QuietEffect
  <1>6. CASE /\ Active(c, syl)
             /\ syl.op \notin MemoryOps \cup GprWriters \cup WritesPred
             /\ syl.op \in ControlOps
    <2>1. d = ExecControl(c, syl)
      BY <1>6 DEF ExecSyllable, MemoryOps, WritesPred
    <2>2. CASE syl.op \in {"Branch", "Jump"}
      <3>1. d = [c EXCEPT !.pc = AsWord(syl.imm)]
        BY <2>1, <2>2 DEF ExecControl
      <3>2. IsCpu(d) /\ d.cycle = c.cycle /\ d.gprs = c.gprs /\ d.ready = c.ready
        BY <3>1 DEF IsCpu, NewCpu
      <3> QED
        BY <2>2, <3>2, QuietEffect
    <2>3. CASE syl.op = "Call"
      BY <2>1, <2>3, CallEffect DEF ExecControl
    <2>4. CASE syl.op = "Ret" /\ c.gprs[LinkReg] = 0
      <3>1. d = [c EXCEPT !.halted = TRUE]
        BY <2>1, <2>4, ReadGprOfLink DEF ExecControl
      <3>2. IsCpu(d) /\ d.cycle = c.cycle /\ d.gprs = c.gprs /\ d.ready = c.ready /\ d.pc = c.pc
        BY <3>1 DEF IsCpu, NewCpu
      <3> QED
        BY <3>2, QuietEffect
    <2>5. CASE syl.op = "Ret" /\ c.gprs[LinkReg] # 0
      <3>1. d = [c EXCEPT !.pc = c.gprs[LinkReg]]
        BY <2>1, <2>5, ReadGprOfLink DEF ExecControl
      <3>2. /\ IsCpu(d) /\ d.cycle = c.cycle /\ d.gprs = c.gprs /\ d.ready = c.ready
            /\ d.pc = c.gprs[LinkReg]
        BY <3>1 DEF IsCpu, NewCpu
      <3> QED
        BY <2>5, <3>2, QuietEffect
    <2> QED
      BY <1>6, <2>2, <2>3, <2>4, <2>5 DEF ControlOps
  <1>7. CASE /\ Active(c, syl)
             /\ syl.op \notin MemoryOps \cup GprWriters \cup WritesPred \cup ControlOps
    <2>1. d = c
      BY <1>7 DEF ExecSyllable, MemoryOps, WritesPred
    <2> QED
      BY <2>1, QuietEffect
  <1> QED
    BY <1>1, <1>2, <1>3, <1>4, <1>5, <1>6, <1>7 DEF MemoryOps

LEMMA IssuingEffect ==
    ASSUME NEW cpu, IsCpu(cpu)
    PROVE  LET c == Issuing(cpu)
           IN  /\ IsCpu(c)
               /\ c.cycle = cpu.cycle + 1 /\ c.pc = cpu.pc + 1
               /\ c.gprs = cpu.gprs /\ c.ready = cpu.ready /\ c.preds = cpu.preds
               /\ c.memory = cpu.memory /\ c.cache = cpu.cache /\ c.halted = cpu.halted
  <1> DEFINE d == [cpu EXCEPT !.pc = cpu.pc + 1]
             c == [d EXCEPT !.cycle = cpu.cycle + 1]
  <1>1. /\ IsCpu(d)
        /\ d.cycle = cpu.cycle /\ d.pc = cpu.pc + 1
        /\ d.gprs = cpu.gprs /\ d.ready = cpu.ready /\ d.preds = cpu.preds
        /\ d.memory = cpu.memory /\ d.cache = cpu.cache /\ d.halted = cpu.halted
    BY DEF IsCpu, NewCpu
  <1>2. cpu.cycle + 1 \in Nat
    BY DEF IsCpu
  <1>3. /\ IsCpu(c)
        /\ c.cycle = cpu.cycle + 1 /\ c.pc = d.pc
        /\ c.gprs = d.gprs /\ c.ready = d.ready /\ c.preds = d.preds
        /\ c.memory = d.memory /\ c.cache = d.cache /\ c.halted = d.halted
    <2> HIDE DEF d
    <2> QED BY <1>1, <1>2 DEF IsCpu, NewCpu
  <1>4. Issuing(cpu) = c
    BY DEF Issuing, IsCpu, NewCpu
  <1> QED
    BY <1>1, <1>3, <1>4

-----------------------------------------------------------------------------
(* The cases of one active syllable. *)

LEMMA ClassesAreDisjoint ==
    /\ Loads \cap Stores = {} /\ Loads \cap WritesPred = {} /\ Loads \cap ControlOps = {}
    /\ Stores \cap GprWriters = {} /\ Stores \cap WritesPred = {} /\ Stores \cap ControlOps = {}
    /\ GprWriters \cap WritesPred = {} /\ GprWriters \cap ControlOps = {}
    /\ WritesPred \cap ControlOps = {}
    /\ Loads \subseteq GprWriters
    /\ Compares \cap PredicateOps = {}
  BY DEF Loads, Stores, WritesPred, ControlOps, GprWriters, Compares, PredicateOps,
         IntegerOps, MultiplyOps, Fp32Ops, Fp64Ops, AesOps, IntegerCompares, FpCompares

ComputedBy(c, syl) ==
    AluResult(syl.op, ReadGpr(c, syl.src[1]), ReadGpr(c, syl.src[2]), syl.imm)

ComparedBy(c, syl) ==
    CompareResult(syl.op, ReadGpr(c, syl.src[1]), ReadGpr(c, syl.src[2]))

DecidedBy(c, syl) ==
    PredicateResult(syl.op, ReadPred(c, syl.src[1]), ReadPred(c, syl.src[2]))

LEMMA ExecSyllableCases ==
    ASSUME NEW c, NEW syl, Active(c, syl)
    PROVE  /\ syl.op \in Loads => ExecSyllable(c, syl) = ExecLoad(c, syl)
           /\ syl.op \in Stores => ExecSyllable(c, syl) = ExecStore(c, syl)
           /\ syl.op \in GprWriters \ Loads =>
                ExecSyllable(c, syl) = Writeback(c, syl, ComputedBy(c, syl), Latency[syl.op])
           /\ syl.op \in Compares =>
                ExecSyllable(c, syl) = WritePred(c, syl.dst, ComparedBy(c, syl))
           /\ syl.op \in PredicateOps =>
                ExecSyllable(c, syl) = WritePred(c, syl.dst, DecidedBy(c, syl))
           /\ syl.op \in ControlOps => ExecSyllable(c, syl) = ExecControl(c, syl)
           /\ syl.op \notin MemoryOps \cup GprWriters \cup WritesPred \cup ControlOps =>
                ExecSyllable(c, syl) = c
  BY ClassesAreDisjoint
     DEF ExecSyllable, ComputedBy, ComparedBy, DecidedBy, WritesPred, MemoryOps

LEMMA WritebackFields ==
    ASSUME NEW c, IsCpu(c), NEW syl \in Syllable, NEW value, NEW latency \in Nat,
           NEW d, d = Writeback(c, syl, value, latency)
    PROVE  /\ IsCpu(d)
           /\ \A f \in DOMAIN NewCpu \ {"gprs", "ready"} : d[f] = c[f]
           /\ \A r \in GprIndices :
                /\ d.gprs[r] = IF r = syl.dst /\ r # 0 THEN value ELSE c.gprs[r]
                /\ d.ready[r] = IF r = syl.dst THEN c.cycle + latency ELSE c.ready[r]
  <1> DEFINE e == WriteGpr(c, syl.dst, value)
  <1>1. /\ IsCpu(e)
        /\ \A f \in DOMAIN NewCpu \ {"gprs"} : e[f] = c[f]
        /\ \A r \in GprIndices : e.gprs[r] = IF r = syl.dst /\ r # 0 THEN value ELSE c.gprs[r]
    BY WriteGprEffect
  <1>2. d = SetReady(e, syl.dst, c.cycle + latency) /\ c.cycle + latency \in Nat
    BY DEF Writeback, IsCpu
  <1>3. /\ IsCpu(d)
        /\ \A f \in DOMAIN NewCpu \ {"ready"} : d[f] = e[f]
        /\ \A r \in GprIndices :
             d.ready[r] = IF r = syl.dst THEN c.cycle + latency ELSE e.ready[r]
    <2> HIDE DEF e
    <2> QED BY <1>1, <1>2, SetReadyEffect
  <1> HIDE DEF e
  <1> QED
    BY <1>1, <1>3 DEF NewCpu

\* What an active syllable changes and what it leaves alone.
Frame(c, syl, d) ==
    /\ IsCpu(d)
    /\ d.cycle = c.cycle
    /\ d.gprs[0] = c.gprs[0]
    /\ \A r \in GprIndices : GprWriteDst(syl) # r =>
         d.gprs[r] = c.gprs[r] /\ d.ready[r] = c.ready[r]
    /\ \A p \in PredIndices : p = 0 \/ ~ (syl.op \in WritesPred /\ syl.dst = p) =>
         d.preds[p] = c.preds[p]
    /\ syl.op \notin MemoryOps => d.memory = c.memory /\ d.cache = c.cache
    /\ syl.op \notin ControlOps => d.pc = c.pc
    /\ d.halted = IF syl.op = "Ret" /\ c.gprs[LinkReg] = 0 THEN TRUE ELSE c.halted

LEMMA ZeroIsAGpr == 0 \in GprIndices
  BY CpuAssumption DEF GprIndices

LEMMA ExecLoadFields ==
    ASSUME NEW c, IsCpu(c), NEW syl \in Syllable, syl.op \in Loads,
           NEW d, d = ExecLoad(c, syl)
    PROVE  LET addr  == EffectiveAddress(c, syl)
               value == IF InBounds(addr, AccessWidth(syl.op))
                        THEN LoadBytes(c.memory, addr, AccessWidth(syl.op)) ELSE 0
           IN  /\ IsCpu(d)
               /\ \A f \in DOMAIN NewCpu \ {"gprs", "ready", "cache"} : d[f] = c[f]
               /\ \A r \in GprIndices :
                    /\ d.gprs[r] = IF r = syl.dst /\ r # 0 THEN value ELSE c.gprs[r]
                    /\ d.ready[r] = IF r = syl.dst
                                    THEN c.cycle + OutcomeLatency(PeekOutcome(c.cache, addr))
                                    ELSE c.ready[r]
  <1> DEFINE addr  == EffectiveAddress(c, syl)
             value == IF InBounds(addr, AccessWidth(syl.op))
                      THEN LoadBytes(c.memory, addr, AccessWidth(syl.op)) ELSE 0
             latency == OutcomeLatency(PeekOutcome(c.cache, addr))
             e == [c EXCEPT !.cache = AccessLoad(@, addr)]
  <1>1. latency \in Nat
    <2>1. syl.op \in Opcodes
      BY DEF Syllable
    <2> QED
      BY <2>1, LoadLatency, LatenciesAreNaturals
  <1>2. d = Writeback(e, syl, value, latency)
    BY DEF ExecLoad
  <1>3. IsCpu(e) /\ \A f \in DOMAIN NewCpu \ {"cache"} : e[f] = c[f]
    <2> HIDE DEF addr
    <2> QED BY AccessKeepsTheLines DEF IsCpu, NewCpu
  <1> HIDE DEF e, value, latency, addr
  <1>4. /\ IsCpu(d)
        /\ \A f \in DOMAIN NewCpu \ {"gprs", "ready"} : d[f] = e[f]
        /\ \A r \in GprIndices :
             /\ d.gprs[r] = IF r = syl.dst /\ r # 0 THEN value ELSE e.gprs[r]
             /\ d.ready[r] = IF r = syl.dst THEN e.cycle + latency ELSE e.ready[r]
    BY <1>1, <1>2, <1>3, WritebackFields
  <1>5. e.gprs = c.gprs /\ e.ready = c.ready /\ e.cycle = c.cycle
    BY <1>3 DEF NewCpu
  <1>6. \A f \in DOMAIN NewCpu \ {"gprs", "ready", "cache"} : d[f] = c[f]
    BY <1>3, <1>4
  <1> QED
    BY <1>4, <1>5, <1>6 DEF value, latency, addr

LEMMA ExecControlFrame ==
    ASSUME NEW c, IsCpu(c), NEW syl \in Syllable, syl.op \in ControlOps,
           NEW d, d = ExecControl(c, syl)
    PROVE  Frame(c, syl, d)
  <1>1. syl.op \notin MemoryOps \cup WritesPred
    BY ClassesAreDisjoint DEF MemoryOps
  <1>2. CASE syl.op \in {"Branch", "Jump"}
    <2>1. d = [c EXCEPT !.pc = AsWord(syl.imm)]
      BY <1>2 DEF ExecControl
    <2>2. IsCpu(d) /\ \A f \in DOMAIN NewCpu \ {"pc"} : d[f] = c[f]
      BY <2>1 DEF IsCpu, NewCpu
    <2> QED
      BY <1>1, <1>2, <2>2 DEF Frame, NewCpu
  <1>3. CASE syl.op = "Call"
    <2>1. d = ExecCall(c, AsWord(syl.imm))
      BY <1>3 DEF ExecControl
    <2>2. Effect(c, syl, d)
      BY <1>3, <2>1, CallEffect
    <2> DEFINE e == WriteGpr(c, LinkReg, AsWord(c.pc))
               f == SetReady(e, LinkReg, c.cycle + Latency["Call"])
    <2>3. c.cycle + Latency["Call"] \in Nat
      BY CpuAssumption DEF IsCpu, Opcodes, ControlOps
    <2>4. IsCpu(e) /\ \A x \in DOMAIN NewCpu \ {"gprs"} : e[x] = c[x]
      BY WriteGprEffect
    <2>5. e.gprs[0] = c.gprs[0]
      BY WriteGprEffect, LinkIsAGpr, ZeroIsAGpr
    <2>6. IsCpu(f) /\ \A x \in DOMAIN NewCpu \ {"ready"} : f[x] = e[x]
      <3> HIDE DEF e
      <3> QED BY <2>3, <2>4, SetReadyEffect
    <2>7. d = [f EXCEPT !.pc = AsWord(syl.imm)]
      BY <2>1 DEF ExecCall
    <2>8. \A x \in DOMAIN NewCpu \ {"pc"} : d[x] = f[x]
      <3> HIDE DEF f
      <3> QED BY <2>6, <2>7 DEF IsCpu, NewCpu
    <2> HIDE DEF e, f
    <2> QED
      BY <1>1, <1>3, <2>2, <2>4, <2>5, <2>6, <2>8 DEF Frame, Effect, NewCpu, ControlOps
  <1>4. CASE syl.op = "Ret" /\ c.gprs[LinkReg] = 0
    <2>1. d = [c EXCEPT !.halted = TRUE]
      BY <1>4, ReadGprOfLink DEF ExecControl
    <2>2. IsCpu(d) /\ d.halted = TRUE /\ \A f \in DOMAIN NewCpu \ {"halted"} : d[f] = c[f]
      BY <2>1 DEF IsCpu, NewCpu
    <2> QED
      BY <1>1, <1>4, <2>2 DEF Frame, NewCpu
  <1>5. CASE syl.op = "Ret" /\ c.gprs[LinkReg] # 0
    <2>1. d = [c EXCEPT !.pc = c.gprs[LinkReg]]
      BY <1>5, ReadGprOfLink DEF ExecControl
    <2>2. IsCpu(d) /\ \A f \in DOMAIN NewCpu \ {"pc"} : d[f] = c[f]
      BY <2>1 DEF IsCpu, NewCpu
    <2> QED
      BY <1>1, <1>5, <2>2 DEF Frame, NewCpu
  <1> QED
    BY <1>2, <1>3, <1>4, <1>5 DEF ControlOps

LEMMA SyllableFrame ==
    ASSUME NEW c, IsCpu(c), NEW syl \in Syllable, Active(c, syl),
           NEW d, d = ExecSyllable(c, syl)
    PROVE  Frame(c, syl, d)
  <1>0. Effect(c, syl, d)
    BY SyllableEffect
  <1>1. CASE syl.op \in Loads
    <2>1. \A f \in DOMAIN NewCpu \ {"gprs", "ready", "cache"} : d[f] = c[f]
      BY <1>1, ExecSyllableCases, ExecLoadFields
    <2>2. d.gprs[0] = c.gprs[0]
      BY <1>1, ExecSyllableCases, ExecLoadFields, ZeroIsAGpr
    <2>3. syl.op # "Ret" /\ syl.op \in MemoryOps
      BY <1>1, ClassesAreDisjoint DEF ControlOps, MemoryOps
    <2> QED
      BY <1>0, <2>1, <2>2, <2>3 DEF Frame, Effect, NewCpu
  <1>2. CASE syl.op \in Stores
    <2>1. d = ExecStore(c, syl)
      BY <1>2, ExecSyllableCases
    <2>2. \A f \in DOMAIN NewCpu \ {"memory", "cache"} : d[f] = c[f]
      BY <2>1 DEF ExecStore, IsCpu, NewCpu
    <2>3. syl.op # "Ret" /\ syl.op \in MemoryOps
      BY <1>2, ClassesAreDisjoint DEF ControlOps, MemoryOps
    <2> QED
      BY <1>0, <2>2, <2>3 DEF Frame, Effect, NewCpu
  <1>3. CASE syl.op \in GprWriters \ Loads
    <2>1. d = Writeback(c, syl, ComputedBy(c, syl), Latency[syl.op])
      BY <1>3, ExecSyllableCases
    <2>2. Latency[syl.op] \in Nat
      <3>1. syl.op \in Opcodes
        BY DEF Syllable
      <3> QED
        BY <3>1, CpuAssumption
    <2>3. /\ \A f \in DOMAIN NewCpu \ {"gprs", "ready"} : d[f] = c[f]
          /\ d.gprs[0] = c.gprs[0]
      BY <2>1, <2>2, WritebackFields, ZeroIsAGpr
    <2>4. syl.op # "Ret"
      BY <1>3, ClassesAreDisjoint DEF ControlOps
    <2> QED
      BY <1>0, <2>3, <2>4 DEF Frame, Effect, NewCpu
  <1>4. CASE syl.op \in WritesPred
    <2>1. PICK value : d = WritePred(c, syl.dst, value)
      BY <1>4, ExecSyllableCases DEF WritesPred
    <2>2. /\ \A f \in DOMAIN NewCpu \ {"preds"} : d[f] = c[f]
          /\ \A p \in PredIndices :
               d.preds[p] = IF p = syl.dst /\ syl.dst # 0 THEN value ELSE c.preds[p]
      BY <2>1, WritePredEffect
    <2>3. syl.op # "Ret"
      BY <1>4, ClassesAreDisjoint DEF ControlOps
    <2> QED
      BY <1>0, <1>4, <2>2, <2>3 DEF Frame, Effect, NewCpu
  <1>5. CASE syl.op \in ControlOps
    BY <1>5, ExecSyllableCases, ExecControlFrame
  <1>6. CASE syl.op \notin MemoryOps \cup GprWriters \cup WritesPred \cup ControlOps
    <2>1. d = c
      BY <1>6, ExecSyllableCases
    <2> QED
      BY <1>0, <1>6, <2>1 DEF Frame, Effect, ControlOps
  <1> QED
    BY <1>1, <1>2, <1>3, <1>4, <1>5, <1>6 DEF MemoryOps

\* Two CPUs that a syllable cannot tell apart.
SameInputs(b, i, syl) ==
    /\ b.cycle = i.cycle
    /\ \A k \in {1, 2} : ReadGpr(b, syl.src[k]) = ReadGpr(i, syl.src[k])
    /\ syl.op \in PredicateOps =>
         \A k \in {1, 2} : ReadPred(b, syl.src[k]) = ReadPred(i, syl.src[k])
    /\ syl.op \in MemoryOps => b.memory = i.memory /\ b.cache = i.cache
    /\ syl.op = "Call" => b.pc = i.pc

\* They have the same result in the destination of the syllable.
SameResult(c, a, syl) ==
    /\ \A r \in GprIndices \ {0} : GprWriteDst(syl) = r =>
         c.gprs[r] = a.gprs[r] /\ c.ready[r] = a.ready[r]
    /\ \A p \in PredIndices \ {0} : syl.op \in WritesPred /\ syl.dst = p =>
         c.preds[p] = a.preds[p]

LEMMA SameInputsSameResult ==
    ASSUME NEW b, IsCpu(b), NEW i, IsCpu(i), NEW syl \in Syllable,
           Active(b, syl), Active(i, syl), SameInputs(b, i, syl)
    PROVE  SameResult(ExecSyllable(b, syl), ExecSyllable(i, syl), syl)
  <1> DEFINE c == ExecSyllable(b, syl)
             a == ExecSyllable(i, syl)
  <1>1. CASE syl.op \in Loads
    <2>1. syl.op \in MemoryOps /\ syl.op \notin WritesPred /\ GprWriteDst(syl) = syl.dst
      BY <1>1, ClassesAreDisjoint DEF MemoryOps, GprWriteDst, ControlOps
    <2>2. EffectiveAddress(b, syl) = EffectiveAddress(i, syl)
      BY DEF SameInputs, EffectiveAddress
    <2>3. b.memory = i.memory /\ b.cache = i.cache /\ b.cycle = i.cycle
      BY <2>1 DEF SameInputs
    <2>4. c = ExecLoad(b, syl) /\ a = ExecLoad(i, syl)
      BY <1>1, ExecSyllableCases
    <2> HIDE DEF c, a
    <2>5. \A r \in GprIndices \ {0} : syl.dst = r =>
            c.gprs[r] = a.gprs[r] /\ c.ready[r] = a.ready[r]
      <3> DEFINE v(x) == IF InBounds(EffectiveAddress(x, syl), AccessWidth(syl.op))
                         THEN LoadBytes(x.memory, EffectiveAddress(x, syl), AccessWidth(syl.op))
                         ELSE 0
                 l(x) == x.cycle + OutcomeLatency(PeekOutcome(x.cache, EffectiveAddress(x, syl)))
      <3>1. \A r \in GprIndices \ {0} : syl.dst = r => c.gprs[r] = v(b) /\ c.ready[r] = l(b)
        BY <1>1, <2>4, ExecLoadFields
      <3>2. \A r \in GprIndices \ {0} : syl.dst = r => a.gprs[r] = v(i) /\ a.ready[r] = l(i)
        BY <1>1, <2>4, ExecLoadFields
      <3>3. v(b) = v(i) /\ l(b) = l(i)
        BY <2>2, <2>3
      <3> HIDE DEF v, l
      <3> QED
        BY <3>1, <3>2, <3>3
    <2>6. SameResult(c, a, syl)
      BY <2>1, <2>5 DEF SameResult
    <2> QED
      BY <2>6 DEF c, a
  <1>2. CASE syl.op \in GprWriters \ Loads
    <2>1. syl.op \notin WritesPred /\ GprWriteDst(syl) = syl.dst
      BY <1>2, ClassesAreDisjoint DEF GprWriteDst, ControlOps
    <2>2. ComputedBy(b, syl) = ComputedBy(i, syl)
      BY DEF SameInputs, ComputedBy
    <2>3. Latency[syl.op] \in Nat
      <3>1. syl.op \in Opcodes
        BY DEF Syllable
      <3> QED
        BY <3>1, CpuAssumption
    <2>4. /\ c = Writeback(b, syl, ComputedBy(b, syl), Latency[syl.op])
          /\ a = Writeback(i, syl, ComputedBy(i, syl), Latency[syl.op])
      BY <1>2, ExecSyllableCases
    <2> HIDE DEF c, a
    <2>5. \A r \in GprIndices \ {0} : syl.dst = r =>
            /\ c.gprs[r] = ComputedBy(b, syl) /\ c.ready[r] = b.cycle + Latency[syl.op]
            /\ a.gprs[r] = ComputedBy(i, syl) /\ a.ready[r] = i.cycle + Latency[syl.op]
      BY <2>3, <2>4, WritebackFields
    <2>6. SameResult(c, a, syl)
      BY <2>1, <2>2, <2>5 DEF SameResult, SameInputs
    <2> QED
      BY <2>6 DEF c, a
  <1>3. CASE syl.op \in WritesPred
    <2>1. syl.op \notin GprWriters /\ syl.op # "Call" /\ GprWriteDst(syl) = NoReg
      BY <1>3, ClassesAreDisjoint DEF GprWriteDst, ControlOps
    <2>2. PICK value : c = WritePred(b, syl.dst, value) /\ a = WritePred(i, syl.dst, value)
      <3>1. CASE syl.op \in Compares
        <4>1. ComparedBy(b, syl) = ComparedBy(i, syl)
          BY DEF SameInputs, ComparedBy
        <4> QED
          BY <3>1, <4>1, ExecSyllableCases
      <3>2. CASE syl.op \in PredicateOps
        <4>1. DecidedBy(b, syl) = DecidedBy(i, syl)
          BY <3>2 DEF SameInputs, DecidedBy
        <4> QED
          BY <3>2, <4>1, ExecSyllableCases
      <3> QED
        BY <1>3, <3>1, <3>2 DEF WritesPred
    <2> HIDE DEF c, a
    <2>3. \A p \in PredIndices \ {0} : syl.dst = p => c.preds[p] = a.preds[p]
      BY <2>2, WritePredEffect
    <2>4. NoReg \notin GprIndices
      BY DEF NoReg, GprIndices
    <2>5. SameResult(c, a, syl)
      BY <2>1, <2>3, <2>4 DEF SameResult
    <2> QED
      BY <2>5 DEF c, a
  <1>4. CASE syl.op = "Call"
    <2> DEFINE e(x) == WriteGpr(x, LinkReg, AsWord(x.pc))
               n(x) == x.cycle + Latency["Call"]
               f(x) == SetReady(e(x), LinkReg, n(x))
    <2>1. b.pc = i.pc /\ b.cycle = i.cycle
      BY <1>4 DEF SameInputs
    <2>2. GprWriteDst(syl) = LinkReg /\ syl.op \notin WritesPred
      BY <1>4, ClassesAreDisjoint DEF GprWriteDst, ControlOps
    <2>3. ASSUME NEW x, IsCpu(x), Active(x, syl)
          PROVE  /\ ExecSyllable(x, syl).gprs[LinkReg] = AsWord(x.pc)
                 /\ ExecSyllable(x, syl).ready[LinkReg] = n(x)
      <3>1. n(x) \in Nat
        BY <2>3, CpuAssumption DEF IsCpu, Opcodes, ControlOps
      <3>2. IsCpu(e(x)) /\ e(x).gprs[LinkReg] = AsWord(x.pc)
        BY <2>3, WriteGprEffect, LinkIsAGpr
      <3>3. IsCpu(f(x)) /\ f(x).gprs = e(x).gprs /\ f(x).ready[LinkReg] = n(x)
        <4> HIDE DEF e, n
        <4> QED BY <3>1, <3>2, SetReadyEffect, LinkIsAGpr DEF NewCpu
      <3>4. ExecSyllable(x, syl) = [f(x) EXCEPT !.pc = AsWord(syl.imm)]
        BY <1>4, <2>3, ExecSyllableCases DEF ExecControl, ExecCall, ControlOps
      <3> HIDE DEF e, n, f
      <3>5. /\ ExecSyllable(x, syl).gprs = f(x).gprs
            /\ ExecSyllable(x, syl).ready = f(x).ready
        BY <3>3, <3>4 DEF IsCpu, NewCpu
      <3> QED
        BY <3>2, <3>3, <3>5
    <2> HIDE DEF e, f
    <2> QED
      BY <2>1, <2>2, <2>3 DEF SameResult
  <1>5. CASE syl.op \notin GprWriters \cup WritesPred \cup {"Call"}
    <2>1. NoReg \notin GprIndices
      BY DEF NoReg, GprIndices
    <2> QED
      BY <1>5, <2>1 DEF SameResult, GprWriteDst
  <1> QED
    BY <1>1, <1>2, <1>3, <1>4, <1>5

-----------------------------------------------------------------------------
(* The types of what the instructions compute. *)

\* A word is what is left of any integer.
LEMMA AsWordType == ASSUME NEW x \in Int PROVE AsWord(x) \in Words
  <1> DEFINE m == WordMod
  <1>1. m \in Nat \ {0}
    BY WordFacts
  <1> HIDE DEF m
  <1>2. x % m \in 0 .. m - 1
    BY <1>1
  <1> QED
    BY <1>2 DEF AsWord, Words, m

\* The bits of a table make a number.
LEMMA BitwiseIsANumber ==
    ASSUME NEW table \in [BitPairs -> 0 .. 1], NEW a \in Int, NEW b \in Int
    PROVE  Bitwise2(table, a, b) \in Int
  <1>1. WordBits \in Nat /\ 2 \in Nat \ {0}
    BY CpuAssumption DEF WordBits, WordBytes
  <1>2. ASSUME NEW x \in Int, NEW i \in Nat PROVE Bit(x, i) \in 0 .. 1
    <2> DEFINE p == PowersOf(2)[i]
               q == x \div p
    <2>1. p \in Nat \ {0}
      BY <1>1, PowersArePositive
    <2> HIDE DEF p
    <2>2. q \in Int
      BY <2>1
    <2> HIDE DEF q
    <2>3. q % 2 \in 0 .. 1
      BY <2>2
    <2> QED
      BY <2>3 DEF Bit, p, q
  <1> DEFINE d == [i \in 0 .. WordBits - 1 |-> table[<<Bit(a, i), Bit(b, i)>>]]
             f == [i \in 0 .. WordBits - 1 |->
                     table[<<Bit(a, i), Bit(b, i)>>] * PowersOf(2)[i]]
  <1>3. d \in [0 .. WordBits - 1 -> 0 .. 2 - 1]
    <2>1. ASSUME NEW i \in 0 .. WordBits - 1 PROVE table[<<Bit(a, i), Bit(b, i)>>] \in 0 .. 1
      <3>1. <<Bit(a, i), Bit(b, i)>> \in BitPairs
        BY <1>2 DEF BitPairs
      <3> QED
        BY <3>1
    <2> QED
      BY <2>1
  <1>4. f = [i \in 0 .. WordBits - 1 |-> d[i] * PowersOf(2)[i]]
    OBVIOUS
  <1>5. Bitwise2(table, a, b) = Total(f, WordBits)
    BY DEF Bitwise2
  <1> HIDE DEF d, f
  <1>6. Total(f, WordBits) \in 0 .. PowersOf(2)[WordBits] - 1
    BY <1>1, <1>3, <1>4, TotalOfDigits
  <1>7. PowersOf(2)[WordBits] \in Nat
    BY <1>1, PowersArePositive
  <1> QED
    BY <1>5, <1>6, <1>7

\* The three Boolean operations on words.
LEMMA BitOpsAreNumbers ==
    ASSUME NEW a \in Int, NEW b \in Int
    PROVE  BitAnd(a, b) \in Int /\ BitOr(a, b) \in Int /\ BitXor(a, b) \in Int
  <1>1. ASSUME NEW p \in BitPairs
        PROVE  p[1] * p[2] \in 0 .. 1 /\ p[1] + p[2] - p[1] * p[2] \in 0 .. 1
               /\ (p[1] + p[2]) % 2 \in 0 .. 1
    BY DEF BitPairs
  <1>2. /\ [p \in BitPairs |-> p[1] * p[2]] \in [BitPairs -> 0 .. 1]
        /\ [p \in BitPairs |-> p[1] + p[2] - p[1] * p[2]] \in [BitPairs -> 0 .. 1]
        /\ [p \in BitPairs |-> (p[1] + p[2]) % 2] \in [BitPairs -> 0 .. 1]
    BY <1>1
  <1> QED
    BY <1>2, BitwiseIsANumber DEF BitAnd, BitOr, BitXor

\* Division is only by what is not 0.
LEMMA QuotientType ==
    ASSUME NEW a \in Int, NEW b \in Nat
    PROVE  Quotient(a, b) \in Int
  BY DEF Quotient

LEMMA HalfFacts == HalfMod \in Nat \ {0}
  BY MemoryAssumption, PowersArePositive DEF HalfMod

\* What every opcode that only computes writes is a word.
LEMMA AluResultIsAWord ==
    ASSUME NEW op \in GprWriters \ Loads, NEW a \in Words, NEW b \in Words, NEW imm \in Int
    PROVE  AluResult(op, a, b, imm) \in Words
  <1> DEFINE m == WordMod
             h == HalfMod
             shift == b % WordBits
             p == PowersOf(2)[shift]
  <1>1. a \in Nat /\ b \in Nat /\ m \in Nat \ {0} /\ h \in Nat \ {0}
    BY WordFacts, HalfFacts DEF Words
  <1>2. p \in Nat \ {0}
    <2>1. WordBits \in Nat \ {0}
      BY CpuAssumption DEF WordBits, WordBytes
    <2>2. shift \in Nat
      BY <1>1, <2>1
    <2> HIDE DEF shift
    <2> QED
      BY <2>2, PowersArePositive
  <1>3. Signed(a) \in Int /\ SignedHalf(a) \in Int
    <2>1. m \div 2 \in Int /\ h \div 2 \in Int /\ a % h \in Int
      BY <1>1
    <2> HIDE DEF m, h
    <2> QED
      BY <1>1, <2>1 DEF Signed, SignedHalf, m, h
  <1>4. BitAnd(a, b) \in Int /\ BitOr(a, b) \in Int /\ BitXor(a, b) \in Int
    BY <1>1, BitOpsAreNumbers
  <1>5. BitXor(BitXor(a, b), AsWord(99)) \in Int /\ BitXor(BitXor(a, b), AsWord(5)) \in Int
    <2>1. AsWord(99) \in Int /\ AsWord(5) \in Int
      BY AsWordType DEF Words
    <2> QED
      BY <1>4, <2>1, BitOpsAreNumbers
  <1>6. /\ a * p \in Int /\ a \div p \in Int /\ Signed(a) \div p \in Int
        /\ a * b \in Int /\ (a * b) \div m \in Int
        /\ (a + b) % h \in Int /\ (a - b) % h \in Int /\ (a * b) % h \in Int
        /\ a % h \in Nat /\ b % h \in Nat
    <2> HIDE DEF m, h, p
    <2> QED BY <1>1, <1>2, <1>3
  <1>7. Quotient(a, b) \in Int /\ Quotient(a % h, b % h) \in Int
    BY <1>1, <1>6, QuotientType
  <1> DEFINE x == 
        CASE op \in {"Add", "FpAdd64"}    -> a + b
          [] op \in {"AddImm", "Lea"}     -> a + imm
          [] op \in {"Sub", "FpSub64"}    -> a - b
          [] op = "SubImm"                -> a - imm
          [] op = "And"                   -> BitAnd(a, b)
          [] op = "Or"                    -> BitOr(a, b)
          [] op = "Xor"                   -> BitXor(a, b)
          [] op = "Shl"                   -> a * p
          [] op = "Srl"                   -> a \div p
          [] op = "Sra"                   -> Signed(a) \div p
          [] op \in {"Mov", "FpCvtI64ToFp64", "FpCvtFp64ToI64"} -> a
          [] op = "MovImm"                -> imm
          [] op \in {"Mul", "FpMul64"}    -> a * b
          [] op = "MulH"                  -> (a * b) \div m
          [] op = "FpDiv64"               -> Quotient(a, b)
          [] op = "FpAdd32"               -> (a + b) % h
          [] op = "FpSub32"               -> (a - b) % h
          [] op = "FpMul32"               -> (a * b) % h
          [] op = "FpDiv32"               -> Quotient(a % h, b % h)
          [] op \in {"FpCvt32To64", "FpCvtI32ToFp32", "FpCvt64To32"} -> a % h
          [] op = "FpCvtFp32ToI32"        -> SignedHalf(a)
          [] op = "AesEnc"                -> BitXor(BitXor(a, b), AsWord(99))
          [] op = "AesDec"                -> BitXor(BitXor(a, b), AsWord(5))
  <1>8. x \in Int
    <2> HIDE DEF m, h, p
    <2> QED
    BY <1>1, <1>3, <1>4, <1>5, <1>6, <1>7
       DEF GprWriters, Loads, IntegerOps, MultiplyOps, Fp32Ops, Fp64Ops, AesOps
  <1>9. AluResult(op, a, b, imm) = AsWord(x)
    BY DEF AluResult
  <1> HIDE DEF x
  <1> QED
    BY <1>8, <1>9, AsWordType

LEMMA CompareResultType ==
    ASSUME NEW op \in Compares, NEW a \in Words, NEW b \in Words
    PROVE  CompareResult(op, a, b) \in BOOLEAN
  <1>1. a \in Int /\ b \in Int
    BY DEF Words
  <1>2. Signed(a) \in Int /\ Signed(b) \in Int
    BY <1>1, WordFacts DEF Signed
  <1>3. CASE op \in {"CmpEq", "FpCmp64"}
    <2>1. CompareResult(op, a, b) = (a = b)
      BY <1>3 DEF CompareResult
    <2> QED
      BY <2>1
  <1>4. CASE op = "CmpLt"
    <2>1. CompareResult(op, a, b) = (Signed(a) < Signed(b))
      BY <1>4 DEF CompareResult
    <2> QED
      BY <1>2, <2>1
  <1>5. CASE op = "CmpUlt"
    <2>1. CompareResult(op, a, b) = (a < b)
      BY <1>5 DEF CompareResult
    <2> QED
      BY <1>1, <2>1
  <1>6. CASE op = "FpCmp32"
    <2>1. CompareResult(op, a, b) = (a % HalfMod = b % HalfMod)
      BY <1>6 DEF CompareResult
    <2> QED
      BY <2>1
  <1> QED
    BY <1>3, <1>4, <1>5, <1>6 DEF Compares, IntegerCompares, FpCompares

LEMMA PredicateResultType ==
    ASSUME NEW op \in PredicateOps, NEW a \in BOOLEAN, NEW b \in BOOLEAN
    PROVE  PredicateResult(op, a, b) \in BOOLEAN
  BY DEF PredicateResult, PredicateOps

-----------------------------------------------------------------------------
(* Every syllable keeps the type of a CPU's state. *)

\* A state of the right type is one with the right fields.
LEMMA StateIsCpu ==
    ASSUME NEW c \in CpuStates
    PROVE  IsCpu(c)
  BY DEF CpuStates, IsCpu, NewCpu, CacheState

LEMMA ReadsAreWords ==
    ASSUME NEW c \in CpuStates, NEW r
    PROVE  ReadGpr(c, r) \in Words /\ ReadPred(c, r) \in BOOLEAN
  BY WordFacts DEF CpuStates, ReadGpr, ReadPred, Words

LEMMA AddressIsAWord ==
    ASSUME NEW c \in CpuStates, NEW syl \in Syllable
    PROVE  EffectiveAddress(c, syl) \in Words
  <1>1. ReadGpr(c, syl.src[1]) \in Int /\ syl.imm \in Int
    BY ReadsAreWords DEF Words, Syllable
  <1> QED
    BY <1>1, AsWordType DEF EffectiveAddress

\* Every write keeps the type of a state.
LEMMA WriteTypes ==
    ASSUME NEW c \in CpuStates, NEW r
    PROVE  /\ \A value \in Words : WriteGpr(c, r, value) \in CpuStates
           /\ \A cycle \in Nat : SetReady(c, r, cycle) \in CpuStates
           /\ \A pc \in Nat : [c EXCEPT !.pc = pc] \in CpuStates
           /\ \A cache \in CacheState : [c EXCEPT !.cache = cache] \in CpuStates
           /\ [c EXCEPT !.halted = TRUE] \in CpuStates
  <1>1. \A value \in Words : WriteGpr(c, r, value) \in CpuStates
    BY DEF CpuStates, WriteGpr
  <1>3. \A cycle \in Nat : SetReady(c, r, cycle) \in CpuStates
    BY DEF CpuStates, SetReady
  <1>4. /\ \A pc \in Nat : [c EXCEPT !.pc = pc] \in CpuStates
        /\ \A cache \in CacheState : [c EXCEPT !.cache = cache] \in CpuStates
        /\ [c EXCEPT !.halted = TRUE] \in CpuStates
    BY DEF CpuStates
  <1> QED
    BY <1>1, <1>3, <1>4

LEMMA WritePredType ==
    ASSUME NEW c \in CpuStates, NEW p, NEW value \in BOOLEAN, NEW d, d = WritePred(c, p, value)
    PROVE  d \in CpuStates
  BY DEF CpuStates, WritePred

LEMMA WritebackType ==
    ASSUME NEW c \in CpuStates, NEW syl, NEW value \in Words, NEW latency \in Nat
    PROVE  Writeback(c, syl, value, latency) \in CpuStates
  <1>1. WriteGpr(c, syl.dst, value) \in CpuStates
    BY WriteTypes
  <1>2. c.cycle + latency \in Nat
    BY DEF CpuStates
  <1> QED
    BY <1>1, <1>2, WriteTypes DEF Writeback

LEMMA AccessWidths == \A op : AccessWidth(op) \in {1, 2, 4, 8}
  BY DEF AccessWidth

LEMMA LoadLatencyIsANumber ==
    ASSUME NEW lines, NEW addr
    PROVE  OutcomeLatency(PeekOutcome(lines, addr)) \in Nat
  BY CacheAssumption DEF OutcomeLatency, PeekOutcome

LEMMA ExecLoadType ==
    ASSUME NEW c \in CpuStates, NEW syl \in Syllable
    PROVE  ExecLoad(c, syl) \in CpuStates
  <1> DEFINE addr  == EffectiveAddress(c, syl)
             width == AccessWidth(syl.op)
             value == IF InBounds(addr, width) THEN LoadBytes(c.memory, addr, width) ELSE 0
             e == [c EXCEPT !.cache = AccessLoad(@, addr)]
  <1>1. addr \in Nat /\ width \in {1, 2, 4, 8}
    BY AddressIsAWord, AccessWidths DEF Words
  <1>2. c.memory \in Memories /\ c.cache \in CacheState
    BY DEF CpuStates
  <1> HIDE DEF addr, width
  <1>3. value \in Words
    <2>1. 0 \in Words
      BY WordFacts DEF Words
    <2> QED
      BY <1>1, <1>2, <2>1, LoadedIsAWord
  <1>4. e \in CpuStates
    <2>1. AccessLoad(c.cache, addr) \in CacheState
      BY <1>1, <1>2, AccessType
    <2> QED
      BY <2>1, WriteTypes
  <1>5. ExecLoad(c, syl) = Writeback(e, syl, value, OutcomeLatency(PeekOutcome(c.cache, addr)))
    BY DEF ExecLoad, addr, width
  <1> HIDE DEF e, value
  <1> QED
    BY <1>3, <1>4, <1>5, WritebackType, LoadLatencyIsANumber

LEMMA ExecStoreType ==
    ASSUME NEW c \in CpuStates, NEW syl \in Syllable
    PROVE  ExecStore(c, syl) \in CpuStates
  <1> DEFINE addr  == EffectiveAddress(c, syl)
             width == AccessWidth(syl.op)
             data  == ToBytes(ReadGpr(c, syl.src[2]), width)
             mem   == IF InBounds(addr, width) THEN StoreBytes(c.memory, addr, data)
                      ELSE c.memory
             cache == AccessStore(c.cache, addr)
  <1>1. addr \in Nat /\ width \in {1, 2, 4, 8} /\ ReadGpr(c, syl.src[2]) \in Nat
    BY AddressIsAWord, AccessWidths, ReadsAreWords DEF Words
  <1>2. c.memory \in Memories /\ c.cache \in CacheState
    BY DEF CpuStates
  <1>3. mem \in Memories
    <2> HIDE DEF addr, width
    <2> QED BY <1>1, <1>2, StoredIsMemory
  <1>4. cache \in CacheState
    BY <1>1, <1>2, AccessType
  <1>5. ExecStore(c, syl) = [c EXCEPT !.cache = cache, !.memory = mem]
    BY DEF ExecStore, CpuStates
  <1> HIDE DEF mem, cache
  <1> QED
    BY <1>3, <1>4, <1>5 DEF CpuStates

LEMMA ExecControlType ==
    ASSUME NEW c \in CpuStates, NEW syl \in Syllable
    PROVE  ExecControl(c, syl) \in CpuStates
  <1> DEFINE target == AsWord(syl.imm)
  <1>1. target \in Nat /\ AsWord(c.pc) \in Words
    <2>1. syl.imm \in Int /\ c.pc \in Int
      BY DEF Syllable, CpuStates
    <2> QED
      BY <2>1, AsWordType DEF Words
  <1>2. [c EXCEPT !.pc = target] \in CpuStates /\ [c EXCEPT !.halted = TRUE] \in CpuStates
    BY <1>1, WriteTypes
  <1>3. [c EXCEPT !.pc = ReadGpr(c, LinkReg)] \in CpuStates
    <2>1. ReadGpr(c, LinkReg) \in Nat
      BY ReadsAreWords DEF Words
    <2> QED
      BY <2>1, WriteTypes
  <1>4. ExecCall(c, target) \in CpuStates
    <2> DEFINE e == SetReady(WriteGpr(c, LinkReg, AsWord(c.pc)), LinkReg,
                             c.cycle + Latency["Call"])
    <2>1. c.cycle + Latency["Call"] \in Nat
      BY CpuAssumption DEF CpuStates, Opcodes, ControlOps
    <2>2. e \in CpuStates
      BY <1>1, <2>1, WriteTypes
    <2>3. ExecCall(c, target) = [e EXCEPT !.pc = target]
      BY DEF ExecCall
    <2> HIDE DEF e, target
    <2> QED
      BY <1>1, <2>2, <2>3, WriteTypes
  <1> QED
    BY <1>2, <1>3, <1>4 DEF ExecControl

\* Every syllable leaves a state of the right type.
LEMMA SyllableType ==
    ASSUME NEW c \in CpuStates, NEW syl \in Syllable
    PROVE  ExecSyllable(c, syl) \in CpuStates
  <1>1. CASE ~Active(c, syl)
    BY <1>1 DEF ExecSyllable
  <1>2. CASE Active(c, syl) /\ syl.op \in Loads
    BY <1>2, ExecSyllableCases, ExecLoadType
  <1>3. CASE Active(c, syl) /\ syl.op \in Stores
    BY <1>3, ExecSyllableCases, ExecStoreType
  <1>4. CASE Active(c, syl) /\ syl.op \in GprWriters \ Loads
    <2>1. ComputedBy(c, syl) \in Words
      BY <1>4, ReadsAreWords, AluResultIsAWord DEF ComputedBy, Syllable
    <2>2. Latency[syl.op] \in Nat
      <3>1. syl.op \in Opcodes
        BY DEF Syllable
      <3> QED
        BY <3>1, CpuAssumption
    <2> QED
      BY <1>4, <2>1, <2>2, ExecSyllableCases, WritebackType
  <1>5. CASE Active(c, syl) /\ syl.op \in Compares
    <2>1. ComparedBy(c, syl) \in BOOLEAN
      BY <1>5, ReadsAreWords, CompareResultType DEF ComparedBy
    <2> QED
      <3>1. ExecSyllable(c, syl) = WritePred(c, syl.dst, ComparedBy(c, syl))
        BY <1>5, ExecSyllableCases
      <3> QED
        BY <2>1, <3>1, WritePredType, Zenon
  <1>6. CASE Active(c, syl) /\ syl.op \in PredicateOps
    <2>1. DecidedBy(c, syl) \in BOOLEAN
      BY <1>6, ReadsAreWords, PredicateResultType DEF DecidedBy
    <2> QED
      <3>1. ExecSyllable(c, syl) = WritePred(c, syl.dst, DecidedBy(c, syl))
        BY <1>6, ExecSyllableCases
      <3> QED
        BY <2>1, <3>1, WritePredType, Zenon
  <1>7. CASE Active(c, syl) /\ syl.op \in ControlOps
    BY <1>7, ExecSyllableCases, ExecControlType
  <1>8. CASE /\ Active(c, syl)
             /\ syl.op \notin MemoryOps \cup GprWriters \cup WritesPred \cup ControlOps
    BY <1>8, ExecSyllableCases
  <1> QED
    BY <1>1, <1>2, <1>3, <1>4, <1>5, <1>6, <1>7, <1>8 DEF MemoryOps, WritesPred

LEMMA NewCpuType == NewCpu \in CpuStates
  <1>1. ZeroMemory \in Memories
    BY MemoryAssumption DEF ZeroMemory, Memories, Bytes
  <1>2. NewCache \in CacheState
    BY DEF NewCache, CacheState, CacheLine, InvalidLine, MsiStates
  <1>3. 0 \in Words
    BY WordFacts DEF Words
  <1>4. /\ [r \in GprIndices |-> 0] \in [GprIndices -> Words]
        /\ [r \in GprIndices |-> 0] \in [GprIndices -> Nat]
        /\ [p \in PredIndices |-> p = 0] \in [PredIndices -> BOOLEAN]
    BY <1>3
  <1> HIDE DEF NewCache
  <1> QED
    BY <1>1, <1>2, <1>4 DEF NewCpu, CpuStates

LEMMA IssuingType == ASSUME NEW c \in CpuStates PROVE Issuing(c) \in CpuStates
  <1> DEFINE d == [c EXCEPT !.pc = c.pc + 1]
  <1>1. d \in CpuStates /\ d.cycle = c.cycle
    BY DEF CpuStates
  <1>2. Issuing(c) = [d EXCEPT !.cycle = c.cycle + 1]
    BY DEF Issuing, CpuStates
  <1> HIDE DEF d
  <1> QED
    BY <1>1, <1>2 DEF CpuStates

-----------------------------------------------------------------------------
(* A bundle, as step_checked executes it. *)

\* The recursive definition of SlotBySlot has a solution.
LEMMA SlotBySlotDef ==
    ASSUME NEW cpu, NEW bundle, Len(bundle) \in Nat
    PROVE  /\ SlotBySlot(cpu, bundle)[0] = Issuing(cpu)
           /\ \A s \in 1 .. Len(bundle) :
                SlotBySlot(cpu, bundle)[s] =
                  LET before == SlotBySlot(cpu, bundle)[s - 1]
                  IN  IF before.halted THEN before ELSE ExecSyllable(before, bundle[s])
  <1> DEFINE Start == Issuing(cpu)
             Then(before, s) ==
                IF before.halted THEN before ELSE ExecSyllable(before, bundle[s])
             Solves(f, n) ==
                f = [s \in 0 .. n |-> IF s = 0 THEN Start ELSE Then(f[s - 1], s)]
             S == {n \in Nat : \E f : Solves(f, n)}
  <1>1. 0 \in S
    <2> DEFINE f == [s \in 0 .. 0 |-> Start]
    <2>1. Solves(f, 0)
      OBVIOUS
    <2> QED
      BY <2>1
  <1>2. ASSUME NEW n \in Nat, n \in S PROVE n + 1 \in S
    <2> HIDE DEF Start, Then
    <2>1. PICK f : Solves(f, n)
      BY <1>2
    <2> DEFINE g == [s \in 0 .. n + 1 |-> IF s = n + 1 THEN Then(f[n], n + 1) ELSE f[s]]
    <2>2. g = [s \in 0 .. n + 1 |-> IF s = 0 THEN Start ELSE Then(g[s - 1], s)]
      <3>1. ASSUME NEW s \in 0 .. n + 1
            PROVE  g[s] = IF s = 0 THEN Start ELSE Then(g[s - 1], s)
        <4>1. CASE s = n + 1
          <5>1. g[s] = Then(f[n], n + 1) /\ s - 1 = n /\ g[n] = f[n]
            BY <4>1
          <5> HIDE DEF g
          <5> QED
            BY <4>1, <5>1
        <4>2. CASE s # n + 1
          <5>1. s \in 0 .. n /\ (s # 0 => s - 1 \in 0 .. n)
            BY <4>2
          <5>2. f[s] = IF s = 0 THEN Start ELSE Then(f[s - 1], s)
            BY <2>1, <5>1
          <5>3. g[s] = f[s] /\ (s # 0 => g[s - 1] = f[s - 1])
            BY <4>2, <5>1
          <5> HIDE DEF g
          <5> QED
            BY <5>2, <5>3
        <4> QED
          BY <4>1, <4>2
      <3> QED
        BY <3>1
    <2> HIDE DEF g
    <2>3. \E h : Solves(h, n + 1)
      BY <2>2
    <2> QED
      BY <2>3
  <1> HIDE DEF S
  <1>3. Len(bundle) \in S
    BY <1>1, <1>2, NatSetInduction
  <1>4. PICK f : Solves(f, Len(bundle))
    BY <1>3 DEF S
  <1> HIDE DEF Start, Then
  <1>5. Solves(SlotBySlot(cpu, bundle), Len(bundle))
    BY <1>4 DEF SlotBySlot, Start, Then
  <1> DEFINE after == SlotBySlot(cpu, bundle)
  <1> HIDE DEF after
  <1>6. after = [s \in 0 .. Len(bundle) |-> IF s = 0 THEN Start ELSE Then(after[s - 1], s)]
    BY <1>5 DEF after
  <1>7. after[0] = Start
    BY <1>6
  <1>8. ASSUME NEW s \in 1 .. Len(bundle)
        PROVE  after[s] = Then(after[s - 1], s)
    <2>1. s \in 0 .. Len(bundle) /\ s # 0
      OBVIOUS
    <2> QED
      BY <1>6, <2>1
  <1> QED
    BY <1>7, <1>8 DEF Start, Then, after

\* No slot transfers control, except by a Ret, or writes the link register.
GoesForward(bundle) ==
    \A t \in DOMAIN bundle :
        bundle[t].op \notin {"Branch", "Jump", "Call"} /\ GprWriteDst(bundle[t]) # LinkReg

\* What the first s slots may have done.
BundleEffect(cpu, bundle, s, c) ==
    /\ IsCpu(c)
    /\ c.cycle = cpu.cycle + 1
    /\ \A r \in GprIndices :
         \/ c.ready[r] = cpu.ready[r]
         \/ \E t \in 1 .. s :
              /\ GprWriteDst(bundle[t]) = r
              /\ \E latency \in ResultLatencies(bundle[t].op) :
                    c.ready[r] = cpu.cycle + 1 + latency
    /\ GoesForward(bundle) => c.gprs[LinkReg] = cpu.gprs[LinkReg]
    /\ GoesForward(bundle) /\ cpu.gprs[LinkReg] = 0 => c.pc = cpu.pc + 1

LEMMA OneMoreSlot ==
    ASSUME NEW cpu, IsCpu(cpu), NEW bundle \in Seq(Syllable), NEW s \in 1 .. Len(bundle),
           NEW b, BundleEffect(cpu, bundle, s - 1, b),
           NEW c, c = IF b.halted THEN b ELSE ExecSyllable(b, bundle[s])
    PROVE  BundleEffect(cpu, bundle, s, c)
  <1>1. bundle[s] \in Syllable /\ s \in DOMAIN bundle /\ s \in Nat
    OBVIOUS
  <1>2. \A t \in 1 .. s - 1 : t \in 1 .. s
    OBVIOUS
  <1>3. CASE c = b
    BY <1>2, <1>3 DEF BundleEffect
  <1>4. CASE c = ExecSyllable(b, bundle[s])
    <2>1. Effect(b, bundle[s], c)
      BY <1>1, <1>4, SyllableEffect DEF BundleEffect
    <2>2. IsCpu(c) /\ c.cycle = cpu.cycle + 1 /\ b.cycle = cpu.cycle + 1
      BY <2>1 DEF Effect, BundleEffect
    <2>3. ASSUME NEW r \in GprIndices, c.ready[r] # cpu.ready[r]
          PROVE  \E t \in 1 .. s :
                   /\ GprWriteDst(bundle[t]) = r
                   /\ \E latency \in ResultLatencies(bundle[t].op) :
                         c.ready[r] = cpu.cycle + 1 + latency
      <3>1. CASE c.ready[r] = b.ready[r]
        BY <1>2, <2>3, <3>1 DEF BundleEffect
      <3>2. CASE c.ready[r] # b.ready[r]
        <4>1. GprWriteDst(bundle[s]) = r
          BY <2>1, <3>2 DEF Effect
        <4>2. \E latency \in ResultLatencies(bundle[s].op) : c.ready[r] = b.cycle + latency
          BY <2>1, <3>2 DEF Effect
        <4> QED
          BY <1>1, <2>2, <4>1, <4>2
      <3> QED
        BY <3>1, <3>2
    <2>4. GoesForward(bundle) => c.gprs[LinkReg] = cpu.gprs[LinkReg]
      BY <1>1, <2>1, LinkIsAGpr DEF Effect, BundleEffect, GoesForward
    <2>5. GoesForward(bundle) /\ cpu.gprs[LinkReg] = 0 => c.pc = cpu.pc + 1
      BY <1>1, <2>1 DEF Effect, BundleEffect, GoesForward
    <2> QED
      BY <2>2, <2>3, <2>4, <2>5 DEF BundleEffect
  <1> QED
    BY <1>3, <1>4

LEMMA ExecBundleEffect ==
    ASSUME NEW cpu, IsCpu(cpu), NEW bundle \in Seq(Syllable)
    PROVE  BundleEffect(cpu, bundle, Len(bundle), ExecBundle(cpu, bundle))
  <1> DEFINE after == SlotBySlot(cpu, bundle)
             S == {n \in Nat : n <= Len(bundle) => BundleEffect(cpu, bundle, n, after[n])}
  <1>0. Len(bundle) \in Nat
    OBVIOUS
  <1>1. /\ after[0] = Issuing(cpu)
        /\ \A s \in 1 .. Len(bundle) :
             after[s] = IF after[s - 1].halted THEN after[s - 1]
                        ELSE ExecSyllable(after[s - 1], bundle[s])
    BY <1>0, SlotBySlotDef
  <1> HIDE DEF after
  <1>2. 0 \in S
    BY <1>1, IssuingEffect DEF BundleEffect
  <1>3. ASSUME NEW n \in Nat, n \in S PROVE n + 1 \in S
    <2>1. ASSUME n + 1 <= Len(bundle) PROVE BundleEffect(cpu, bundle, n + 1, after[n + 1])
      <3>1. n + 1 \in 1 .. Len(bundle) /\ (n + 1) - 1 = n /\ BundleEffect(cpu, bundle, n, after[n])
        BY <1>0, <1>3, <2>1
      <3> QED
        BY <1>1, <3>1, OneMoreSlot
    <2> QED
      BY <2>1
  <1> HIDE DEF S
  <1>4. Len(bundle) \in S
    BY <1>0, <1>2, <1>3, NatSetInduction
  <1> QED
    BY <1>4 DEF S, after, ExecBundle

LEMMA ExecBundleType ==
    ASSUME NEW cpu \in CpuStates, NEW bundle \in Seq(Syllable)
    PROVE  ExecBundle(cpu, bundle) \in CpuStates
  <1> DEFINE after == SlotBySlot(cpu, bundle)
             S == {n \in Nat : n <= Len(bundle) => after[n] \in CpuStates}
  <1>0. Len(bundle) \in Nat
    OBVIOUS
  <1>1. /\ after[0] = Issuing(cpu)
        /\ \A s \in 1 .. Len(bundle) :
             after[s] = IF after[s - 1].halted THEN after[s - 1]
                        ELSE ExecSyllable(after[s - 1], bundle[s])
    BY <1>0, SlotBySlotDef
  <1> HIDE DEF after
  <1>2. 0 \in S
    BY <1>1, IssuingType
  <1>3. ASSUME NEW n \in Nat, n \in S PROVE n + 1 \in S
    <2>1. ASSUME n + 1 <= Len(bundle) PROVE after[n + 1] \in CpuStates
      <3>1. n + 1 \in 1 .. Len(bundle) /\ (n + 1) - 1 = n /\ after[n] \in CpuStates
        BY <1>0, <1>3, <2>1
      <3>2. bundle[n + 1] \in Syllable
        BY <3>1
      <3> QED
        BY <1>1, <3>1, <3>2, SyllableType
    <2> QED
      BY <2>1
  <1> HIDE DEF S
  <1>4. Len(bundle) \in S
    BY <1>0, <1>2, <1>3, NatSetInduction
  <1> QED
    BY <1>4 DEF S, after, ExecBundle

LEMMA StalledType == ASSUME NEW c \in CpuStates PROVE [c EXCEPT !.cycle = @ + 1] \in CpuStates
  BY DEF CpuStates

\* The early returns of step_checked and what they leave of the CPU.
LEMMA StepCheckedEffect ==
    ASSUME NEW cpu, IsCpu(cpu), NEW program \in Seq(Seq(Syllable)),
           NEW step, step = StepChecked(cpu, program)
    PROVE  /\ step = [result |-> step.result, cpu |-> step.cpu]
           /\ IsCpu(step.cpu)
           /\ step.result \in StepResults
           /\ Finished(cpu, program) => step.result = "Halted" /\ step.cpu = cpu
           /\ step.result = "Halted" =>
                /\ step.cpu.cycle = cpu.cycle /\ step.cpu.memory = cpu.memory
                /\ ~Finished(cpu, program) => step.cpu.halted
           /\ step.result = "Issued" =>
                /\ ~Finished(cpu, program)
                /\ step.cpu = ExecBundle(cpu, program[cpu.pc + 1])
           /\ step.result = "Stalled" => HasUnreadySources(cpu, program[cpu.pc + 1])
  <1> DEFINE bundle == program[cpu.pc + 1]
  <1>1. CASE Finished(cpu, program)
    BY <1>1 DEF StepChecked, StepResults
  <1>2. CASE ~Finished(cpu, program) /\ ~BundleIsLegal(cpu, bundle)
    <2> DEFINE c == [cpu EXCEPT !.halted = TRUE]
    <2>1. step = [result |-> "Halted", cpu |-> c]
      BY <1>2 DEF StepChecked
    <2>2. IsCpu(c) /\ c.halted = TRUE /\ c.cycle = cpu.cycle /\ c.memory = cpu.memory
      BY DEF IsCpu, NewCpu
    <2> HIDE DEF c
    <2> QED
      BY <1>2, <2>1, <2>2 DEF StepResults, Finished
  <1>3. CASE /\ ~Finished(cpu, program) /\ BundleIsLegal(cpu, bundle)
             /\ HasUnreadySources(cpu, bundle)
    <2>1. step = [result |-> "Stalled", cpu |-> [cpu EXCEPT !.cycle = cpu.cycle + 1]]
      BY <1>3 DEF StepChecked
    <2>2. cpu.cycle + 1 \in Nat
      BY DEF IsCpu
    <2>3. IsCpu(step.cpu)
      BY <2>1, <2>2 DEF IsCpu, NewCpu
    <2> QED
      BY <1>3, <2>1, <2>3 DEF StepResults
  <1>4. CASE /\ ~Finished(cpu, program) /\ BundleIsLegal(cpu, bundle)
             /\ ~HasUnreadySources(cpu, bundle) /\ HasMemoryFault(cpu, bundle)
    <2> DEFINE c == [cpu EXCEPT !.halted = TRUE]
    <2>1. step = [result |-> "Fault", cpu |-> c]
      BY <1>4 DEF StepChecked
    <2>2. IsCpu(c)
      BY DEF IsCpu, NewCpu
    <2> HIDE DEF c
    <2> QED
      BY <1>4, <2>1, <2>2 DEF StepResults
  <1>5. CASE /\ ~Finished(cpu, program) /\ BundleIsLegal(cpu, bundle)
             /\ ~HasUnreadySources(cpu, bundle) /\ ~HasMemoryFault(cpu, bundle)
    <2>1. step = [result |-> "Issued", cpu |-> ExecBundle(cpu, bundle)]
      BY <1>5 DEF StepChecked
    <2>2. bundle \in Seq(Syllable)
      BY <1>5 DEF Finished
    <2>3. IsCpu(step.cpu)
      BY <2>1, <2>2, ExecBundleEffect DEF BundleEffect
    <2> QED
      BY <1>5, <2>1, <2>3 DEF StepResults
  <1> QED
    BY <1>1, <1>2, <1>3, <1>4, <1>5

\* Whatever its outcome, step_checked leaves a state of the right type.
LEMMA StepType ==
    ASSUME NEW cpu \in CpuStates, NEW program \in Seq(Seq(Syllable))
    PROVE  StepChecked(cpu, program).cpu \in CpuStates
  <1>1. [cpu EXCEPT !.halted = TRUE] \in CpuStates
    BY WriteTypes
  <1>2. [cpu EXCEPT !.cycle = @ + 1] \in CpuStates
    BY StalledType
  <1>3. ~Finished(cpu, program) => ExecBundle(cpu, program[cpu.pc + 1]) \in CpuStates
    <2>1. ~Finished(cpu, program) => program[cpu.pc + 1] \in Seq(Syllable)
      BY DEF Finished
    <2> QED
      BY <2>1, ExecBundleType
  <1> QED
    BY <1>1, <1>2, <1>3 DEF StepChecked

\* A legal bundle with ready operands issues or faults.
LEMMA ReadyBundleIssues ==
    ASSUME NEW cpu, NEW program, ~Finished(cpu, program),
           BundleIsLegal(cpu, program[cpu.pc + 1]),
           ~HasUnreadySources(cpu, program[cpu.pc + 1])
    PROVE  StepChecked(cpu, program).result \in {"Issued", "Fault"}
  BY DEF StepChecked

-----------------------------------------------------------------------------
(* What the static checks of single bundles imply for a CPU in any state. *)

\* A bundle without static hazards is legal for every CPU, provided that its
\* branches have no operands.
LEMMA StaticImpliesLegal ==
    ASSUME NEW c, NEW bundle, BundleVerified(bundle),
           \A s \in DOMAIN bundle :
              bundle[s].op = "Branch" => bundle[s].src = <<NoReg, NoReg>>
    PROVE  BundleIsLegal(c, bundle)
  <1>1. ActiveSlots(c, bundle) \subseteq DOMAIN bundle
    BY DEF ActiveSlots
  <1>2. ASSUME NEW s \in ActiveSlots(c, bundle) PROVE SlotCanExecute(s, bundle[s].op)
    BY <1>1 DEF BundleVerified, BundleSlotOk
  <1>3. ASSUME NEW i \in ActiveSlots(c, bundle), NEW j \in ActiveSlots(c, bundle), i < j
        PROVE  ~RuntimeGprHazard(bundle[i], bundle[j]) /\ ~RuntimePredHazard(bundle[i], bundle[j])
    <2>1. ~RuntimeGprHazard(bundle[i], bundle[j]) /\ ~StaticPredHazard(bundle[i], bundle[j])
      BY <1>1, <1>3 DEF BundleVerified, BundleGprHazardFree, BundlePredHazardFree
    <2>2. bundle[j].op = "Branch" /\ bundle[i].dst \in PredIndices => ~Reads(bundle[j], bundle[i].dst)
      <3>1. NoReg \notin PredIndices
        BY DEF NoReg, PredIndices
      <3> QED
        BY <1>1, <3>1 DEF Reads
    <2> QED
      BY <2>1, <2>2 DEF StaticPredHazard, RuntimePredHazard
  <1> QED
    BY <1>2, <1>3 DEF BundleIsLegal

\* An access at an offset from r0 that the verifier found inside the memory is
\* inside when it executes.
LEMMA KnownAddressIsInside ==
    ASSUME NEW c, NEW syl \in Syllable, syl.src[1] = 0, syl.imm >= 0,
           InBounds(syl.imm, AccessWidth(syl.op))
    PROVE  ~FaultsAt(c, syl)
  <1>1. syl.imm \in Nat /\ 0 + syl.imm = syl.imm
    BY DEF Syllable
  <1>2. EffectiveAddress(c, syl) = AsWord(syl.imm)
    BY <1>1 DEF EffectiveAddress, ReadGpr
  <1>3. AsWord(syl.imm) \in Nat /\ AsWord(syl.imm) <= syl.imm
    BY <1>1, AsWordOfSmall
  <1>4. AccessWidth(syl.op) \in Nat
    BY DEF AccessWidth
  <1>5. InBounds(AsWord(syl.imm), AccessWidth(syl.op))
    BY <1>1, <1>3, <1>4, MemoryAssumption DEF InBounds
  <1> QED
    BY <1>2, <1>5 DEF FaultsAt

-----------------------------------------------------------------------------
(* The static schedule. *)

\* The static latency of an opcode covers all that the CPU takes for it.
LEMMA StaticLatencyCovers ==
    ASSUME HitsAreNoWorse, NEW op \in Opcodes
    PROVE  /\ StaticLatency(op) \in Nat
           /\ \A latency \in ResultLatencies(op) : latency <= StaticLatency(op)
  <1>1. CoherenceDrain \in Nat /\ NumCpus - 1 \in Nat /\ CacheWorstCaseLoadLatency \in Nat
    BY CacheAssumption, BusAssumption DEF CoherenceDrain, CacheWorstCaseLoadLatency
  <1>2. CASE op \in Loads
    <2>1. StaticLatency(op) = (NumCpus - 1) + CacheWorstCaseLoadLatency + CoherenceDrain
      BY <1>2 DEF StaticLatency, WorstCaseVisibility
    <2>2. /\ StaticLatency(op) \in Nat
          /\ CacheWorstCaseLoadLatency <= StaticLatency(op)
      BY <1>1, <2>1
    <2>3. /\ HitLatency <= CacheWorstCaseLoadLatency
          /\ MissLatency <= CacheWorstCaseLoadLatency
      BY CacheAssumption DEF HitsAreNoWorse, CacheWorstCaseLoadLatency
    <2>4. HitLatency \in Nat /\ MissLatency \in Nat
      BY CacheAssumption
    <2>5. HitLatency <= StaticLatency(op) /\ MissLatency <= StaticLatency(op)
      BY <1>1, <2>2, <2>3, <2>4
    <2> QED
      BY <1>2, <2>2, <2>5 DEF ResultLatencies
  <1>3. CASE op \notin Loads
    BY <1>3, CpuAssumption DEF StaticLatency, ResultLatencies
  <1> QED
    BY <1>2, <1>3

\* A register that bundle n + 1 writes is ready as late as its latency, one
\* that it does not write is ready as before.
LEMMA ReadyByLater ==
    ASSUME NEW prog, NEW n \in Nat, NEW r, NEW c, ReadyBy(prog, n + 2, r, c)
    PROVE  /\ ReadyBy(prog, n + 1, r, c)
           /\ \A s \in DOMAIN prog[n + 1] : GprWriteDst(prog[n + 1][s]) = r =>
                n + 1 + StaticLatency(prog[n + 1][s].op) <= c
  <1>1. n + 1 \in 1 .. (n + 2) - 1 /\ 1 .. (n + 1) - 1 \subseteq 1 .. (n + 2) - 1
    OBVIOUS
  <1> QED
    BY <1>1 DEF ReadyBy
=============================================================================
