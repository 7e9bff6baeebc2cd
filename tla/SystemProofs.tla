---------------------------- MODULE SystemProofs ----------------------------
(***************************************************************************)
(* Proofs about System and VerifiedSystem, for every number of CPUs,       *)
(* layout, cache and latency table.                                        *)
(***************************************************************************)
EXTENDS VerifiedSystem, CpuProofs

-----------------------------------------------------------------------------
(* The loop of phase two. *)

\* A recursive function on an interval of the naturals has its defining
\* property.
LEMMA SteppedUpToDef ==
    /\ SteppedUpTo[0] =
          [cpus |-> cpus, memory |-> memory, progress |-> FALSE, panicked |-> FALSE]
    /\ \A n \in 1 .. NumCpus : SteppedUpTo[n] = StepCpu(SteppedUpTo[n - 1], n - 1)
  <1> DEFINE Start == [cpus |-> cpus, memory |-> memory,
                       progress |-> FALSE, panicked |-> FALSE]
             Then(before, n) == StepCpu(before, n - 1)
             Solves(f, m) ==
                f = [n \in 0 .. m |-> IF n = 0 THEN Start ELSE Then(f[n - 1], n)]
             S == {m \in Nat : \E f : Solves(f, m)}
  <1>1. 0 \in S
    <2> DEFINE f == [n \in 0 .. 0 |-> Start]
    <2>1. \A n \in 0 .. 0 : n = 0
      OBVIOUS
    <2>2. Solves(f, 0)
      BY <2>1
    <2>3. \E h : Solves(h, 0)
      BY <2>2
    <2> HIDE DEF Solves
    <2> QED
      BY <2>3
  <1>2. ASSUME NEW m \in Nat, m \in S PROVE m + 1 \in S
    <2>1. PICK f : Solves(f, m)
      BY <1>2
    <2> DEFINE g == [n \in 0 .. m + 1 |-> IF n = m + 1 THEN Then(f[m], m + 1) ELSE f[n]]
    <2> HIDE DEF Start, Then
    <2>2. Solves(g, m + 1)
      <3>1. ASSUME NEW n \in 0 .. m + 1
            PROVE  g[n] = IF n = 0 THEN Start ELSE Then(g[n - 1], n)
        <4>1. CASE n = m + 1
          <5>1. n - 1 = m /\ m \in 0 .. m + 1 /\ m # m + 1 /\ n # 0
            BY <4>1
          <5> QED
            BY <4>1, <5>1
        <4>2. CASE n # m + 1
          <5>1. n \in 0 .. m /\ (n # 0 => n - 1 \in 0 .. m)
            BY <4>2
          <5>2. f[n] = IF n = 0 THEN Start ELSE Then(f[n - 1], n)
            BY <2>1, <5>1
          <5>3. g[n] = f[n] /\ (n # 0 => g[n - 1] = f[n - 1])
            BY <4>2, <5>1
          <5> HIDE DEF g
          <5> QED
            BY <5>2, <5>3
        <4> QED
          BY <4>1, <4>2
      <3> QED
        BY <3>1
    <2> HIDE DEF g
    <2>3. \E h : Solves(h, m + 1)
      BY <2>2
    <2> QED
      BY <2>3
  <1> HIDE DEF S
  <1>3. NumCpus \in S
    BY <1>1, <1>2, BusAssumption, NatSetInduction
  <1>4. PICK f : Solves(f, NumCpus)
    BY <1>3 DEF S
  <1> HIDE DEF Start, Then
  <1>5. Solves(SteppedUpTo, NumCpus)
    BY <1>4 DEF SteppedUpTo, Start, Then
  <1> DEFINE after == SteppedUpTo
  <1> HIDE DEF after
  <1>6. after = [n \in 0 .. NumCpus |-> IF n = 0 THEN Start ELSE Then(after[n - 1], n)]
    BY <1>5 DEF after
  <1>7. after[0] = Start
    BY <1>6, BusAssumption
  <1>8. ASSUME NEW n \in 1 .. NumCpus
        PROVE  after[n] = Then(after[n - 1], n)
    <2>1. n \in 0 .. NumCpus /\ n # 0
      BY BusAssumption
    <2> QED
      BY <1>6, <2>1
  <1> QED
    BY <1>7, <1>8 DEF Start, Then, after

-----------------------------------------------------------------------------
(* The states of the system and the requests of its CPUs. *)

SysInv ==
    /\ programs \in ProgramSets /\ Accepted(programs)
    /\ cycle \in Nat
    /\ cpus = [c \in Cpus |-> cpus[c]]
    /\ \A c \in Cpus : IsCpu(cpus[c])

LEMMA ProgramsAreSequences ==
    ASSUME SysInv, NEW c \in Cpus
    PROVE  /\ programs[c] \in Seq(Seq(Syllable))
           /\ ~Finished(cpus[c], programs[c]) =>
                 /\ cpus[c].pc + 1 \in DOMAIN programs[c]
                 /\ NextBundle(c) = programs[c][cpus[c].pc + 1]
                 /\ NextBundle(c) \in Seq(Syllable)
                 /\ Len(NextBundle(c)) = Len(Slots)
                 /\ DOMAIN NextBundle(c) = 1 .. Len(NextBundle(c))
  <1>1. /\ programs[c] \in Seq(Seq(Syllable))
        /\ \A i \in DOMAIN programs[c] : Len(programs[c][i]) = Len(Slots)
    BY SystemAssumption DEF SysInv
  <1>2. \A i \in DOMAIN programs[c] : programs[c][i] \in Seq(Syllable)
    BY <1>1
  <1> QED
    BY <1>1, <1>2 DEF Finished, NextBundle

LEMMA SyncedEffect ==
    ASSUME NEW c, IsCpu(c), cycle \in Nat, NEW m
    PROVE  LET d == Synced(c, m)
           IN  /\ IsCpu(d)
               /\ d.cycle = cycle /\ d.memory = m
               /\ \A f \in DOMAIN NewCpu \ {"cycle", "memory"} : d[f] = c[f]
               /\ d.gprs = c.gprs /\ d.preds = c.preds /\ d.pc = c.pc
               /\ d.ready = c.ready /\ d.cache = c.cache /\ d.halted = c.halted
  BY DEF Synced, IsCpu, NewCpu

LEMMA SyncedIsFinished ==
    ASSUME NEW c, IsCpu(c), cycle \in Nat, NEW m, NEW program
    PROVE  /\ Finished(Synced(c, m), program) <=> Finished(c, program)
           /\ \A bundle : ActiveSlots(Synced(c, m), bundle) = ActiveSlots(c, bundle)
  BY SyncedEffect DEF Finished, ActiveSlots, Active, ReadPred

\* The least of a nonempty set of slots.
LEMMA MinOfSlots ==
    ASSUME NEW T, T \subseteq Nat, T # {}
    PROVE  Min(T) \in T /\ \A y \in T : Min(T) <= y
  <1>1. \E x \in T : \A y \in T : x <= y
    BY LeastElement
  <1> QED
    BY <1>1 DEF Min

\* The memory operations of the next bundle that next_memory_request looks at.
MemorySlots(c) == {s \in ActiveSlots(cpus[c], NextBundle(c)) : NextBundle(c)[s].op \in MemoryOps}

\* A CPU with a request is not done, and the request is its first active memory
\* operation.
LEMMA RequestFacts ==
    ASSUME SysInv, NEW c \in Cpus
    PROVE  /\ RequestOf(c) # NoReq =>
                /\ ~Finished(cpus[c], programs[c])
                /\ RequestOf(c).cpu = c
                /\ RequestOf(c).slot \in MemorySlots(c)
                /\ RequestOf(c).slot \in DOMAIN NextBundle(c)
                /\ RequestOf(c).dst = NextBundle(c)[RequestOf(c).slot].dst
                /\ RequestOf(c).kind =
                     IF NextBundle(c)[RequestOf(c).slot].op \in Stores THEN "store" ELSE "load"
           /\ RequestOf(c) = NoReq =>
                \/ Finished(cpus[c], programs[c])
                \/ MemorySlots(c) = {}
                \/ /\ Min(MemorySlots(c)) \in MemorySlots(c)
                   /\ UnreadySource(Synced(cpus[c], memory), NextBundle(c)[Min(MemorySlots(c))])
           /\ RequestOf(c) # NoReq => RequestOf(c).slot = Min(MemorySlots(c))
  <1> DEFINE cpu   == Synced(cpus[c], memory)
             slot  == Min(MemorySlots(c))
             syl   == NextBundle(c)[slot]
             width == AccessWidth(syl.op)
             req == [cpu     |-> c,
                     slot    |-> slot,
                     kind    |-> IF syl.op \in Stores THEN "store" ELSE "load",
                     address |-> EffectiveAddress(cpu, syl),
                     width   |-> width,
                     value   |-> IF syl.op \in Stores
                                 THEN ReadGpr(cpu, syl.src[2]) % PowersOf(ByteMod)[width] ELSE 0,
                     dst     |-> syl.dst]
             none == \/ Finished(cpus[c], programs[c])
                     \/ MemorySlots(c) = {}
                     \/ UnreadySource(cpu, syl)
  <1>1. cpu.pc = cpus[c].pc /\ (Finished(cpu, programs[c]) <=> Finished(cpus[c], programs[c]))
    BY SyncedEffect, SyncedIsFinished DEF SysInv
  <1>2. MemorySlots(c) =
          {s \in ActiveSlots(cpu, NextBundle(c)) : NextBundle(c)[s].op \in MemoryOps}
    BY SyncedIsFinished DEF SysInv, MemorySlots
  <1>3. RequestOf(c) = IF none THEN NoReq ELSE req
    BY <1>1, <1>2 DEF RequestOf, NextBundle
  <1>4. req # NoReq
    BY BusAssumption DEF NoReq, Cpus
  <1>5. req.cpu = c /\ req.slot = slot /\ req.dst = syl.dst
    OBVIOUS
  <1>6. req.kind = IF syl.op \in Stores THEN "store" ELSE "load"
    OBVIOUS
  <1>7. ~Finished(cpus[c], programs[c]) => MemorySlots(c) \subseteq DOMAIN NextBundle(c)
    BY DEF MemorySlots, ActiveSlots
  <1>8. ~Finished(cpus[c], programs[c]) /\ MemorySlots(c) # {} => slot \in MemorySlots(c)
    <2>1. ~Finished(cpus[c], programs[c]) => MemorySlots(c) \subseteq Nat
      BY <1>7, ProgramsAreSequences
    <2> QED
      BY <2>1, MinOfSlots
  <1> HIDE DEF req, width
  <1> QED
    BY <1>3, <1>4, <1>5, <1>6, <1>7, <1>8

-----------------------------------------------------------------------------
(* The static check of the bus slots. *)

\* On the static schedule the bus belongs to the CPU of a memory operation.
LEMMA OnScheduleOwnsTheBus ==
    ASSUME SysInv, NEW c \in Cpus, ~Finished(cpus[c], programs[c]),
           cpus[c].pc = cycle, NEW s \in MemorySlots(c)
    PROVE  BusOwner(cycle) = c
  <1>1. /\ cpus[c].pc + 1 \in DOMAIN programs[c]
        /\ NextBundle(c) = programs[c][cpus[c].pc + 1]
    BY ProgramsAreSequences
  <1>2. s \in DOMAIN NextBundle(c) /\ NextBundle(c)[s].op \in MemoryOps
    BY DEF MemorySlots, ActiveSlots
  <1>3. BusSlot((cpus[c].pc + 1) - 1, c)
    BY <1>1, <1>2 DEF SysInv, Accepted, RespectsBusSlots
  <1>4. (cpus[c].pc + 1) - 1 = cycle
    BY DEF SysInv
  <1> QED
    BY <1>3, <1>4 DEF BusSlot

\* A call that ends without a panic reports the request of the bus owner.
LEMMA GrantIsReported ==
    ASSUME [Next]_vars, NEW c \in Cpus, cpus'[c].pc # cpus[c].pc
    PROVE  grant' = RequestOf(BusOwner(cycle))
  BY DEF Next, StepGlobal, vars, Progress, NoProgress, Panic, Granted

-----------------------------------------------------------------------------
(* What one CPU does in phase two, on any copy of the memory. *)

StepOf(c, m) ==
    LET cpu == Synced(cpus[c], m)
    IN  IF RequestOf(c) = NoReq THEN StepChecked(cpu, programs[c])
        ELSE StepBesideRequest(cpu, programs[c][cpu.pc + 1], RequestOf(c).slot)

LEMMA NopIsASyllable == Nop \in Syllable
  BY DEF Nop, Syllable, Opcodes, NoReg

Rest(c) == [NextBundle(c) EXCEPT ![RequestOf(c).slot] = Nop]

\* The CPU that runs the rest of its bundle as a program of its own.
AtStart(c, m) == [Synced(cpus[c], m) EXCEPT !.pc = 0]

LEMMA RestFacts ==
    ASSUME SysInv, NEW c \in Cpus, RequestOf(c) # NoReq, NEW m
    PROVE  /\ Rest(c) \in Seq(Syllable)
           /\ DOMAIN Rest(c) = DOMAIN NextBundle(c)
           /\ Len(Rest(c)) = Len(NextBundle(c))
           /\ \A s \in DOMAIN Rest(c) :
                Rest(c)[s] = IF s = RequestOf(c).slot THEN Nop ELSE NextBundle(c)[s]
           /\ <<Rest(c)>> \in Seq(Seq(Syllable))
           /\ IsCpu(AtStart(c, m))
           /\ \A f \in DOMAIN NewCpu \ {"pc"} : AtStart(c, m)[f] = Synced(cpus[c], m)[f]
           /\ AtStart(c, m).pc = 0
           /\ ~Finished(AtStart(c, m), <<Rest(c)>>)
           /\ <<Rest(c)>>[AtStart(c, m).pc + 1] = Rest(c)
  <1>1. /\ ~Finished(cpus[c], programs[c])
        /\ RequestOf(c).slot \in DOMAIN NextBundle(c)
        /\ NextBundle(c) \in Seq(Syllable)
        /\ DOMAIN NextBundle(c) = 1 .. Len(NextBundle(c))
    BY RequestFacts, ProgramsAreSequences
  <1>2. /\ Rest(c) \in Seq(Syllable)
        /\ DOMAIN Rest(c) = DOMAIN NextBundle(c)
        /\ Len(Rest(c)) = Len(NextBundle(c))
        /\ \A s \in DOMAIN Rest(c) :
             Rest(c)[s] = IF s = RequestOf(c).slot THEN Nop ELSE NextBundle(c)[s]
    BY <1>1, NopIsASyllable DEF Rest
  <1>3. <<Rest(c)>> \in Seq(Seq(Syllable)) /\ 1 \in DOMAIN <<Rest(c)>> /\ <<Rest(c)>>[1] = Rest(c)
    BY <1>2
  <1> DEFINE cpu == Synced(cpus[c], m)
  <1>4. IsCpu(cpu) /\ ~cpu.halted
    BY <1>1, SyncedEffect DEF SysInv, Finished
  <1> HIDE DEF cpu
  <1> DEFINE start == [cpu EXCEPT !.pc = 0]
  <1>5. IsCpu(start) /\ start.pc = 0 /\ \A f \in DOMAIN NewCpu \ {"pc"} : start[f] = cpu[f]
    BY <1>4 DEF IsCpu, NewCpu
  <1>6. start.halted = cpu.halted
    BY <1>5 DEF NewCpu
  <1>7. start = AtStart(c, m)
    BY DEF AtStart, cpu
  <1> HIDE DEF start
  <1>8. start.pc + 1 = 1
    BY <1>5
  <1>9. ~Finished(start, <<Rest(c)>>)
    BY <1>3, <1>4, <1>6, <1>8 DEF Finished
  <1> QED
    BY <1>2, <1>3, <1>5, <1>7, <1>8, <1>9 DEF cpu

\* The rest of a bundle waits for no operand that the whole bundle does not
\* wait for.
LEMMA RestIsNoLater ==
    ASSUME SysInv, NEW c \in Cpus, RequestOf(c) # NoReq, NEW m,
           HasUnreadySources(AtStart(c, m), Rest(c))
    PROVE  HasUnreadySources(Synced(cpus[c], m), NextBundle(c))
  <1> DEFINE start == AtStart(c, m)
             cpu   == Synced(cpus[c], m)
  <1>0. \A f \in DOMAIN NewCpu \ {"pc"} : start[f] = cpu[f]
    BY RestFacts
  <1> HIDE DEF start, cpu
  <1>1. /\ start.preds = cpu.preds /\ start.ready = cpu.ready /\ start.cycle = cpu.cycle
        /\ DOMAIN Rest(c) = DOMAIN NextBundle(c)
        /\ \A s \in DOMAIN Rest(c) :
             Rest(c)[s] = IF s = RequestOf(c).slot THEN Nop ELSE NextBundle(c)[s]
    <2>1. start.preds = cpu.preds /\ start.ready = cpu.ready /\ start.cycle = cpu.cycle
      BY <1>0 DEF NewCpu
    <2> QED
      BY <2>1, RestFacts
  <1>2. PICK s \in ActiveSlots(start, Rest(c)) :
           \/ UnreadySource(start, Rest(c)[s])
           \/ Rest(c)[s].op = "Ret" /\ start.ready[LinkReg] > start.cycle + 1
    BY DEF HasUnreadySources, start
  <1>3. s \in DOMAIN Rest(c) /\ Active(start, Rest(c)[s])
    BY DEF ActiveSlots
  <1>4. ~UnreadySource(start, Nop) /\ Nop.op # "Ret"
    BY DEF UnreadySource, Reads, Nop, NoReg, GprIndices
  <1>5. Rest(c)[s] = NextBundle(c)[s]
    BY <1>1, <1>2, <1>3, <1>4
  <1>6. s \in ActiveSlots(cpu, NextBundle(c))
    BY <1>1, <1>3, <1>5 DEF ActiveSlots, Active, ReadPred
  <1>7. \/ UnreadySource(cpu, NextBundle(c)[s])
        \/ NextBundle(c)[s].op = "Ret" /\ cpu.ready[LinkReg] > cpu.cycle + 1
    BY <1>1, <1>2, <1>5 DEF UnreadySource
  <1> QED
    BY <1>6, <1>7 DEF HasUnreadySources, cpu

\* What an issued bundle, with or without its memory operation, leaves in the
\* scoreboard, the link register and the program counter.
OwnEffect(c, d) ==
    /\ \A r \in GprIndices :
         \/ d.ready[r] = cpus[c].ready[r]
         \/ \E t \in DOMAIN NextBundle(c) :
              /\ GprWriteDst(NextBundle(c)[t]) = r
              /\ \E latency \in ResultLatencies(NextBundle(c)[t].op) :
                    d.ready[r] = cycle + 1 + latency
    /\ GoesForward(NextBundle(c)) =>
         /\ d.gprs[LinkReg] = cpus[c].gprs[LinkReg]
         /\ cpus[c].gprs[LinkReg] = 0 => d.pc = cpus[c].pc + 1

StepEffect(c, m, step) ==
    /\ step = [result |-> step.result, cpu |-> step.cpu]
    /\ IsCpu(step.cpu)
    /\ step.result \in StepResults
    /\ Finished(cpus[c], programs[c]) =>
         step.result = "Halted" /\ step.cpu = Synced(cpus[c], m)
    /\ step.result = "Halted" =>
         /\ step.cpu.cycle = cycle /\ step.cpu.memory = m
         /\ ~Finished(cpus[c], programs[c]) => step.cpu.halted
    /\ step.result = "Issued" => ~Finished(cpus[c], programs[c]) /\ OwnEffect(c, step.cpu)
    /\ step.result = "Stalled" =>
         /\ ~Finished(cpus[c], programs[c])
         /\ HasUnreadySources(Synced(cpus[c], m), NextBundle(c))

LEMMA StepWithoutRequest ==
    ASSUME SysInv, NEW c \in Cpus, RequestOf(c) = NoReq, NEW m
    PROVE  StepEffect(c, m, StepOf(c, m))
  <1> DEFINE cpu  == Synced(cpus[c], m)
             step == StepOf(c, m)
  <1>1. step = StepChecked(cpu, programs[c])
    BY DEF StepOf
  <1>2. /\ IsCpu(cpu) /\ cpu.cycle = cycle /\ cpu.memory = m
        /\ cpu.pc = cpus[c].pc /\ cpu.ready = cpus[c].ready /\ cpu.gprs = cpus[c].gprs
        /\ Finished(cpu, programs[c]) <=> Finished(cpus[c], programs[c])
        /\ NextBundle(c) = programs[c][cpu.pc + 1]
    BY SyncedEffect, SyncedIsFinished DEF SysInv, NextBundle
  <1>3. programs[c] \in Seq(Seq(Syllable))
    BY ProgramsAreSequences
  <1> HIDE DEF cpu, step
  <1>4. /\ step = [result |-> step.result, cpu |-> step.cpu]
        /\ IsCpu(step.cpu)
        /\ step.result \in StepResults
        /\ Finished(cpu, programs[c]) => step.result = "Halted" /\ step.cpu = cpu
        /\ step.result = "Halted" =>
             /\ step.cpu.cycle = cpu.cycle /\ step.cpu.memory = cpu.memory
             /\ ~Finished(cpu, programs[c]) => step.cpu.halted
        /\ step.result = "Issued" =>
             /\ ~Finished(cpu, programs[c])
             /\ step.cpu = ExecBundle(cpu, NextBundle(c))
        /\ step.result = "Stalled" => HasUnreadySources(cpu, NextBundle(c))
    BY <1>1, <1>2, <1>3, StepCheckedEffect
  <1>5. ASSUME step.result = "Issued"
        PROVE  ~Finished(cpus[c], programs[c]) /\ OwnEffect(c, step.cpu)
    <2>1. /\ ~Finished(cpus[c], programs[c])
          /\ NextBundle(c) \in Seq(Syllable)
          /\ DOMAIN NextBundle(c) = 1 .. Len(NextBundle(c))
      BY <1>2, <1>4, <1>5, ProgramsAreSequences
    <2>2. BundleEffect(cpu, NextBundle(c), Len(NextBundle(c)), step.cpu)
      BY <1>2, <1>4, <1>5, <2>1, ExecBundleEffect
    <2> QED
      BY <1>2, <2>1, <2>2 DEF BundleEffect, OwnEffect
  <1> QED
    BY <1>2, <1>4, <1>5 DEF StepEffect, cpu, step, StepResults

LEMMA StepBesideItsRequest ==
    ASSUME SysInv, NEW c \in Cpus, RequestOf(c) # NoReq, NEW m
    PROVE  StepEffect(c, m, StepOf(c, m))
  <1> DEFINE cpu   == Synced(cpus[c], m)
             start == AtStart(c, m)
             inner == StepChecked(start, <<Rest(c)>>)
             after == [inner.cpu EXCEPT
                         !.pc = IF Stepped(inner.result) THEN cpu.pc + 1 ELSE cpu.pc]
             step  == StepOf(c, m)
  <1>1. /\ ~Finished(cpus[c], programs[c])
        /\ NextBundle(c) \in Seq(Syllable)
        /\ DOMAIN NextBundle(c) = 1 .. Len(NextBundle(c))
    BY RequestFacts, ProgramsAreSequences
  <1>2. /\ IsCpu(cpu) /\ cpu.cycle = cycle /\ cpu.memory = m
        /\ cpu.pc = cpus[c].pc /\ cpu.ready = cpus[c].ready /\ cpu.gprs = cpus[c].gprs
        /\ NextBundle(c) = programs[c][cpu.pc + 1]
    BY SyncedEffect DEF SysInv, NextBundle
  <1>3. /\ IsCpu(start) /\ start.cycle = cpu.cycle /\ start.memory = cpu.memory
        /\ start.ready = cpu.ready /\ start.gprs = cpu.gprs
        /\ ~Finished(start, <<Rest(c)>>)
        /\ <<Rest(c)>>[start.pc + 1] = Rest(c)
        /\ <<Rest(c)>> \in Seq(Seq(Syllable))
        /\ Rest(c) \in Seq(Syllable)
        /\ DOMAIN Rest(c) = DOMAIN NextBundle(c) /\ Len(Rest(c)) = Len(NextBundle(c))
        /\ \A s \in DOMAIN Rest(c) :
             Rest(c)[s] = IF s = RequestOf(c).slot THEN Nop ELSE NextBundle(c)[s]
    BY RestFacts DEF NewCpu
  <1>4. step = [inner EXCEPT !.cpu = after]
    BY <1>2 DEF StepOf, StepBesideRequest, AtStart, Rest
  <1> HIDE DEF cpu, start, step
  <1>5. /\ inner = [result |-> inner.result, cpu |-> inner.cpu]
        /\ IsCpu(inner.cpu)
        /\ inner.result \in StepResults
        /\ inner.result = "Halted" =>
             inner.cpu.cycle = cpu.cycle /\ inner.cpu.memory = cpu.memory /\ inner.cpu.halted
        /\ inner.result = "Issued" => inner.cpu = ExecBundle(start, Rest(c))
        /\ inner.result = "Stalled" => HasUnreadySources(start, Rest(c))
    <2> DEFINE program == <<Rest(c)>>
    <2>1. /\ ~Finished(start, program) /\ program[start.pc + 1] = Rest(c)
          /\ IsCpu(start) /\ program \in Seq(Seq(Syllable))
      BY <1>3
    <2>2. inner = StepChecked(start, program)
      OBVIOUS
    <2> HIDE DEF inner, program
    <2>3. /\ inner = [result |-> inner.result, cpu |-> inner.cpu]
          /\ IsCpu(inner.cpu)
          /\ inner.result \in StepResults
          /\ inner.result = "Halted" =>
               /\ inner.cpu.cycle = start.cycle /\ inner.cpu.memory = start.memory
               /\ ~Finished(start, program) => inner.cpu.halted
          /\ inner.result = "Issued" =>
               /\ ~Finished(start, program)
               /\ inner.cpu = ExecBundle(start, program[start.pc + 1])
          /\ inner.result = "Stalled" => HasUnreadySources(start, program[start.pc + 1])
      BY <2>1, <2>2, StepCheckedEffect
    <2> QED
      BY <1>3, <2>1, <2>3
  <1> HIDE DEF inner
  <1>6. /\ IsCpu(after)
        /\ \A f \in DOMAIN NewCpu \ {"pc"} : after[f] = inner.cpu[f]
        /\ after.pc = IF Stepped(inner.result) THEN cpu.pc + 1 ELSE cpu.pc
    BY <1>5 DEF IsCpu, NewCpu
  <1> HIDE DEF after
  <1>7. step = [result |-> inner.result, cpu |-> after]
    BY <1>4, <1>5
  <1>8. ASSUME inner.result = "Issued" PROVE OwnEffect(c, after)
    <2>1. BundleEffect(start, Rest(c), Len(Rest(c)), inner.cpu)
      BY <1>3, <1>5, <1>8, ExecBundleEffect
    <2>2. after.ready = inner.cpu.ready /\ after.gprs = inner.cpu.gprs /\ after.pc = cpu.pc + 1
      BY <1>6, <1>8 DEF NewCpu, Stepped
    <2>3. GprWriteDst(Nop) = NoReg /\ Nop.op = "Nop"
      BY DEF GprWriteDst, Nop, GprWriters, IntegerOps, MultiplyOps, Fp32Ops, Fp64Ops, AesOps,
             Loads
    <2>4. NoReg \notin GprIndices
      BY DEF NoReg, GprIndices
    <2>5. ASSUME NEW r \in GprIndices, after.ready[r] # cpus[c].ready[r]
          PROVE  \E t \in DOMAIN NextBundle(c) :
                   /\ GprWriteDst(NextBundle(c)[t]) = r
                   /\ \E latency \in ResultLatencies(NextBundle(c)[t].op) :
                         after.ready[r] = cycle + 1 + latency
      <3>1. PICK t \in 1 .. Len(Rest(c)) :
               /\ GprWriteDst(Rest(c)[t]) = r
               /\ \E latency \in ResultLatencies(Rest(c)[t].op) :
                     after.ready[r] = cycle + 1 + latency
        BY <1>2, <1>3, <2>1, <2>2, <2>5 DEF BundleEffect
      <3>2. t \in DOMAIN NextBundle(c) /\ t \in DOMAIN Rest(c)
        BY <1>1, <1>3
      <3>3. Rest(c)[t] = NextBundle(c)[t]
        BY <1>3, <2>3, <2>4, <3>1, <3>2
      <3> QED
        BY <3>1, <3>2, <3>3
    <2>6. ASSUME GoesForward(NextBundle(c)) PROVE GoesForward(Rest(c))
      <3>1. Nop.op \notin {"Branch", "Jump", "Call"} /\ GprWriteDst(Nop) # LinkReg
        BY <2>3, <2>4, LinkIsAGpr
      <3> QED
        BY <1>3, <2>6, <3>1 DEF GoesForward
    <2> QED
      BY <1>2, <1>3, <2>1, <2>2, <2>5, <2>6 DEF BundleEffect, OwnEffect
  <1>9. inner.result = "Stalled" => HasUnreadySources(cpu, NextBundle(c))
    BY <1>5, RestIsNoLater DEF cpu, start
  <1>10. after.cycle = inner.cpu.cycle /\ after.memory = inner.cpu.memory
         /\ after.halted = inner.cpu.halted
    BY <1>6 DEF NewCpu
  <1>11. step.result = inner.result /\ step.cpu = after
    BY <1>7
  <1>12. step = [result |-> step.result, cpu |-> step.cpu]
    BY <1>7
  <1>13. step.result = "Halted" =>
           step.cpu.cycle = cycle /\ step.cpu.memory = m /\ step.cpu.halted
    BY <1>2, <1>5, <1>10, <1>11
  <1>14. IsCpu(step.cpu) /\ step.result \in StepResults
    BY <1>5, <1>6, <1>11
  <1> QED
    BY <1>1, <1>8, <1>9, <1>11, <1>12, <1>13, <1>14 DEF StepEffect, step, cpu

LEMMA StepOfEffect ==
    ASSUME SysInv, NEW c \in Cpus, NEW m
    PROVE  StepEffect(c, m, StepOf(c, m))
  BY StepWithoutRequest, StepBesideItsRequest

-----------------------------------------------------------------------------
(* All CPUs. *)

IsSystem(s) ==
    /\ s = [cpus |-> s.cpus, memory |-> s.memory,
            progress |-> s.progress, panicked |-> s.panicked]
    /\ s.cpus = [c \in Cpus |-> s.cpus[c]]
    /\ \A c \in Cpus : IsCpu(s.cpus[c])
    /\ s.progress \in BOOLEAN /\ s.panicked \in BOOLEAN

\* CPU c made its step on the copy m of the memory.
SteppedOn(s, c, m) ==
    /\ s.cpus[c] = StepOf(c, m).cpu
    /\ Stepped(StepOf(c, m).result) => s.progress
    /\ StepOf(c, m).result = "Fault" => s.panicked
    /\ ~s.progress => m = memory

SomeUnfinished == \E c \in Cpus : ~Finished(cpus[c], programs[c])

\* The first n CPUs made their step.
FirstStepped(n, s) ==
    /\ IsSystem(s)
    /\ \A c \in Cpus : c >= n => s.cpus[c] = cpus[c]
    /\ \A c \in Cpus : c < n => \E m : SteppedOn(s, c, m)
    /\ ~s.progress => s.memory = memory
    /\ s.progress \/ s.panicked => SomeUnfinished

LEMMA OneMoreCpu ==
    ASSUME SysInv, NEW n \in Cpus, NEW s, FirstStepped(n, s)
    PROVE  FirstStepped(n + 1, StepCpu(s, n))
  <1> DEFINE step == StepOf(n, s.memory)
             stepped == Stepped(step.result)
             t == StepCpu(s, n)
  <1>0. n \in Nat /\ Cpus \subseteq Nat
    BY BusAssumption DEF Cpus
  <1>1. s.cpus[n] = cpus[n] /\ IsSystem(s)
    BY <1>0 DEF FirstStepped
  <1>2. t = [cpus     |-> [s.cpus EXCEPT ![n] = step.cpu],
             memory   |-> IF stepped THEN step.cpu.memory ELSE s.memory,
             progress |-> s.progress \/ stepped,
             panicked |-> s.panicked \/ step.result = "Fault"]
    BY <1>1 DEF StepCpu, StepOf
  <1>3. StepEffect(n, s.memory, step)
    BY StepOfEffect
  <1>4. stepped \/ step.result = "Fault" => SomeUnfinished
    BY <1>3 DEF StepEffect, SomeUnfinished, Stepped
  <1>5. IsCpu(step.cpu) /\ stepped \in BOOLEAN
    BY <1>3 DEF StepEffect, Stepped
  <1> HIDE DEF step, stepped, t
  <1>6. /\ t.cpus = [s.cpus EXCEPT ![n] = step.cpu]
        /\ t.progress = (s.progress \/ stepped)
        /\ t.panicked = (s.panicked \/ step.result = "Fault")
        /\ t.memory = IF stepped THEN step.cpu.memory ELSE s.memory
        /\ t = [cpus |-> t.cpus, memory |-> t.memory,
                progress |-> t.progress, panicked |-> t.panicked]
    <2> DEFINE c == [s.cpus EXCEPT ![n] = step.cpu]
               m == IF stepped THEN step.cpu.memory ELSE s.memory
               p == s.progress \/ stepped
               q == s.panicked \/ step.result = "Fault"
    <2>1. t = [cpus |-> c, memory |-> m, progress |-> p, panicked |-> q]
      BY <1>2
    <2> HIDE DEF c, m, p, q
    <2>2. t.cpus = c /\ t.memory = m
      BY <2>1
    <2>3. t.progress = p
      BY <2>1
    <2>4. t.panicked = q
      BY <2>1
    <2> QED
      BY <2>1, <2>2, <2>3, <2>4 DEF c, m, p, q
  <1>7. /\ t.cpus[n] = step.cpu
        /\ \A c \in Cpus : c # n => t.cpus[c] = s.cpus[c]
        /\ t.cpus = [c \in Cpus |-> t.cpus[c]]
    BY <1>1, <1>6 DEF IsSystem
  <1>8. IsSystem(t)
    <2>1. \A c \in Cpus : IsCpu(t.cpus[c])
      BY <1>1, <1>5, <1>7 DEF IsSystem
    <2>2. t.progress \in BOOLEAN /\ t.panicked \in BOOLEAN
      BY <1>1, <1>5, <1>6 DEF IsSystem
    <2> QED
      BY <1>6, <1>7, <2>1, <2>2 DEF IsSystem
  <1>9. ASSUME NEW c \in Cpus, c >= n + 1 PROVE t.cpus[c] = cpus[c]
    <2>1. c # n /\ c >= n
      BY <1>0, <1>9
    <2> QED
      BY <1>7, <2>1 DEF FirstStepped
  <1>10. ASSUME NEW c \in Cpus, c < n + 1 PROVE \E m : SteppedOn(t, c, m)
    <2>1. CASE c = n
      <3>1. SteppedOn(t, c, s.memory)
        <4>1. ~t.progress => s.memory = memory
          BY <1>6 DEF FirstStepped
        <4> QED
          BY <1>6, <1>7, <2>1, <4>1 DEF SteppedOn, step, stepped
      <3> QED
        BY <3>1
    <2>2. CASE c # n
      <3>1. c < n
        BY <1>0, <1>10, <2>2
      <3>2. PICK m : SteppedOn(s, c, m)
        BY <3>1 DEF FirstStepped
      <3>3. SteppedOn(t, c, m)
        BY <1>6, <1>7, <2>2, <3>2 DEF SteppedOn
      <3> QED
        BY <3>3
    <2> QED
      BY <2>1, <2>2
  <1>11. ~t.progress => t.memory = memory
    BY <1>6 DEF FirstStepped
  <1>12. t.progress \/ t.panicked => SomeUnfinished
    BY <1>4, <1>6 DEF FirstStepped
  <1> QED
    BY <1>8, <1>9, <1>10, <1>11, <1>12 DEF FirstStepped, t

\* The loop of phase two, CPU by CPU.
LEMMA SteppedUpToEffect ==
    ASSUME SysInv, NEW n \in 0 .. NumCpus
    PROVE  FirstStepped(n, SteppedUpTo[n])
  <1> DEFINE S == {k \in Nat : k <= NumCpus => FirstStepped(k, SteppedUpTo[k])}
  <1>0. NumCpus \in Nat
    BY BusAssumption
  <1>1. 0 \in S
    <2> DEFINE t == SteppedUpTo[0]
    <2>1. t = [cpus |-> cpus, memory |-> memory, progress |-> FALSE, panicked |-> FALSE]
      BY SteppedUpToDef
    <2> HIDE DEF t
    <2>2. t.cpus = cpus /\ t.memory = memory /\ t.progress = FALSE /\ t.panicked = FALSE
      BY <2>1
    <2>3. IsSystem(t)
      BY <2>1, <2>2 DEF IsSystem, SysInv
    <2>4. \A c \in Cpus : ~(c < 0)
      BY DEF Cpus
    <2>5. FirstStepped(0, t)
      BY <2>2, <2>3, <2>4 DEF FirstStepped
    <2> QED
      BY <2>5 DEF t
  <1>2. ASSUME NEW k \in Nat, k \in S PROVE k + 1 \in S
    <2>1. ASSUME k + 1 <= NumCpus PROVE FirstStepped(k + 1, SteppedUpTo[k + 1])
      <3>1. k \in Cpus /\ FirstStepped(k, SteppedUpTo[k])
        BY <1>0, <1>2, <2>1 DEF Cpus
      <3>2. k + 1 \in 1 .. NumCpus /\ (k + 1) - 1 = k
        BY <1>0, <2>1
      <3>3. SteppedUpTo[k + 1] = StepCpu(SteppedUpTo[k], k)
        BY <3>2, SteppedUpToDef
      <3> QED
        BY <3>1, <3>3, OneMoreCpu
    <2> QED
      BY <2>1
  <1> HIDE DEF S
  <1>3. n \in S
    <2>1. n \in Nat
      BY <1>0
    <2> QED
      BY <1>1, <1>2, <2>1, NatSetInduction
  <1> QED
    BY <1>0, <1>3 DEF S

\* What phase two made of the system.
LEMMA AllSteppedEffect ==
    ASSUME SysInv
    PROVE  /\ IsSystem(AllStepped)
           /\ \A c \in Cpus : \E m : SteppedOn(AllStepped, c, m)
           /\ ~AllStepped.progress => AllStepped.memory = memory
           /\ AllStepped.progress \/ AllStepped.panicked => SomeUnfinished
  <1>0. NumCpus \in Nat
    BY BusAssumption
  <1>1. FirstStepped(NumCpus, AllStepped)
    BY <1>0, SteppedUpToEffect DEF AllStepped
  <1>2. \A c \in Cpus : c < NumCpus
    BY <1>0 DEF Cpus
  <1> QED
    BY <1>1, <1>2 DEF FirstStepped

-----------------------------------------------------------------------------
(* Phase three: the granted operation. *)

LEMMA OwnerIsACpu ==
    ASSUME cycle \in Nat
    PROVE  BusOwner(cycle) \in Cpus
  <1>1. cycle % NumCpus \in 0 .. NumCpus - 1
    BY BusAssumption
  <1> QED
    BY <1>1 DEF BusOwner, Cpus

\* A cache that can only have lost lines.
OnlyLoses(before, after) ==
    \A k \in LineIndices : after[k] = before[k] \/ after[k] = InvalidLine(before[k].tag)

LEMMA PeersOnlyLose ==
    ASSUME NEW lines, lines = [k \in LineIndices |-> lines[k]], NEW addr
    PROVE  /\ OnlyLoses(lines, lines)
           /\ OnlyLoses(lines, StoreCommitTransition(lines, addr, FALSE))
           /\ \A w \in BOOLEAN :
                StoreCommitTransition(lines, addr, w) =
                   [k \in LineIndices |-> StoreCommitTransition(lines, addr, w)[k]]
  <1>1. OnlyLoses(lines, lines)
    BY DEF OnlyLoses
  <1>2. OnlyLoses(lines, StoreCommitTransition(lines, addr, FALSE))
    BY DEF OnlyLoses, StoreCommitTransition, SetLine, Holds
  <1>3. ASSUME NEW w \in BOOLEAN
        PROVE  StoreCommitTransition(lines, addr, w) =
                   [k \in LineIndices |-> StoreCommitTransition(lines, addr, w)[k]]
    <2>1. CASE w
      BY <2>1, AccessKeepsTheLines DEF StoreCommitTransition
    <2>2. CASE ~w
      BY <2>2, SetLineKeepsTheLines DEF StoreCommitTransition
    <2> QED
      BY <2>1, <2>2
  <1> QED
    BY <1>1, <1>2, <1>3

\* CPU c was b when the operation of CPU o, syllable syl, was committed and is d
\* afterwards.
CommitEffect(c, o, syl, b, d) ==
    /\ IsCpu(d)
    /\ d.pc = b.pc /\ d.halted = b.halted /\ d.preds = b.preds
    /\ c # o => d.gprs = b.gprs /\ d.ready = b.ready /\ OnlyLoses(b.cache, d.cache)
    /\ \A r \in GprIndices :
         /\ d.gprs[r] = b.gprs[r] \/ (syl.op \in Loads /\ r = syl.dst)
         /\ \/ d.ready[r] = b.ready[r]
            \/ /\ syl.op \in Loads /\ r = syl.dst
               /\ \E latency \in ResultLatencies(syl.op) : d.ready[r] = cycle + 1 + latency

OnCpus(f) == f = [c \in Cpus |-> f[c]]

LEMMA CommitLoadEffect ==
    ASSUME SysInv, NEW s, IsSystem(s), NEW o \in Cpus, NEW syl \in Syllable, syl.op \in Loads,
           NEW req, req.cpu = o, req.dst = syl.dst, NEW t, t = CommitLoad(s, req)
    PROVE  /\ t.progress = TRUE /\ t.panicked = s.panicked
           /\ OnCpus(t.cpus)
           /\ \A c \in Cpus : CommitEffect(c, o, syl, s.cpus[c], t.cpus[c])
  <1> DEFINE b       == s.cpus[o]
             latency == OutcomeLatency(PeekOutcome(b.cache, req.address))
             value   == LoadBytes(s.memory, req.address, req.width)
             lines   == AccessLoad(b.cache, req.address)
             cached  == [b EXCEPT !.cache = lines]
             filled  == [cached EXCEPT !.memory = s.memory]
             written == WriteGpr(filled, syl.dst, value)
             d       == SetReady(written, syl.dst, cycle + 1 + latency)
  <1>1. t = [s EXCEPT !.progress = TRUE, !.cpus = [s.cpus EXCEPT ![o] = d]]
    <2>1. LoadReadyAt(latency) = cycle + 1 + latency
      BY DEF LoadReadyAt
    <2>2. filled = [b EXCEPT !.cache = lines, !.memory = s.memory]
      OBVIOUS
    <2> QED
      BY <2>1, <2>2 DEF CommitLoad
  <1>2. IsCpu(b)
    BY DEF IsSystem
  <1>3. latency \in ResultLatencies(syl.op) /\ latency \in Nat
    <2>1. latency \in ResultLatencies(syl.op)
      BY LoadLatency
    <2>2. syl.op \in Opcodes
      BY DEF Syllable
    <2> QED
      BY <2>1, <2>2, LatenciesAreNaturals
  <1>4. lines = [k \in LineIndices |-> lines[k]]
    BY <1>2, AccessKeepsTheLines DEF IsCpu
  <1> HIDE DEF b, latency, value, lines
  <1>5. /\ IsCpu(cached)
        /\ cached.gprs = b.gprs /\ cached.ready = b.ready /\ cached.preds = b.preds
        /\ cached.pc = b.pc /\ cached.halted = b.halted
    BY <1>2, <1>4 DEF IsCpu, NewCpu
  <1> HIDE DEF cached
  <1>6. /\ IsCpu(filled)
        /\ filled.gprs = b.gprs /\ filled.ready = b.ready /\ filled.preds = b.preds
        /\ filled.pc = b.pc /\ filled.halted = b.halted
    BY <1>5 DEF IsCpu, NewCpu
  <1> HIDE DEF filled
  <1>7. /\ IsCpu(written)
        /\ written.ready = b.ready /\ written.preds = b.preds
        /\ written.pc = b.pc /\ written.halted = b.halted
        /\ \A q \in GprIndices :
             written.gprs[q] = IF q = syl.dst /\ syl.dst # 0 THEN value ELSE b.gprs[q]
    BY <1>6, WriteGprEffect DEF NewCpu
  <1>8. cycle + 1 + latency \in Nat
    BY <1>3 DEF SysInv
  <1> HIDE DEF written
  <1>9. /\ IsCpu(d)
        /\ d.gprs = written.gprs /\ d.preds = b.preds /\ d.pc = b.pc /\ d.halted = b.halted
        /\ \A q \in GprIndices :
             d.ready[q] = IF q = syl.dst THEN cycle + 1 + latency ELSE written.ready[q]
    BY <1>7, <1>8, SetReadyEffect DEF NewCpu
  <1> HIDE DEF d
  <1>10. CommitEffect(o, o, syl, b, d)
    BY <1>3, <1>7, <1>9 DEF CommitEffect
  <1> DEFINE all == [s.cpus EXCEPT ![o] = d]
  <1>11. /\ all[o] = d /\ \A c \in Cpus : c # o => all[c] = s.cpus[c]
         /\ all = [c \in Cpus |-> all[c]]
    BY DEF IsSystem
  <1> HIDE DEF all
  <1>12. t.progress = TRUE /\ t.panicked = s.panicked /\ t.cpus = all
    BY <1>1 DEF IsSystem, all
  <1>13. ASSUME NEW c \in Cpus, c # o PROVE CommitEffect(c, o, syl, s.cpus[c], s.cpus[c])
    <2>1. IsCpu(s.cpus[c])
      BY DEF IsSystem
    <2> QED
      BY <1>13, <2>1, PeersOnlyLose DEF CommitEffect, IsCpu
  <1> QED
    BY <1>10, <1>11, <1>12, <1>13 DEF b, OnCpus

LEMMA CommitStoreEffect ==
    ASSUME SysInv, NEW s, IsSystem(s), NEW o \in Cpus, NEW syl,
           NEW req, req.cpu = o, NEW t, t = CommitStore(s, req)
    PROVE  /\ t.progress = TRUE /\ t.panicked = s.panicked
           /\ OnCpus(t.cpus)
           /\ \A c \in Cpus : CommitEffect(c, o, syl, s.cpus[c], t.cpus[c])
  <1> DEFINE written == StoreBytes(s.memory, req.address, ToBytes(req.value, req.width))
             lines(c) == StoreCommitTransition(s.cpus[c].cache, req.address, c = req.cpu)
             all == [c \in Cpus |->
                       [s.cpus[c] EXCEPT
                          !.cache = lines(c),
                          !.memory = IF c = req.cpu THEN written ELSE @]]
  <1>1. t.progress = TRUE /\ t.panicked = s.panicked /\ t.cpus = all
    <2>1. t = [s EXCEPT !.progress = TRUE, !.memory = written, !.cpus = all]
      BY DEF CommitStore
    <2> HIDE DEF all, written
    <2> QED
      BY <2>1 DEF IsSystem
  <1>2. ASSUME NEW c \in Cpus
        PROVE  CommitEffect(c, o, syl, s.cpus[c], all[c])
    <2> DEFINE b == s.cpus[c]
               l == lines(c)
               m == IF c = req.cpu THEN written ELSE b.memory
               d == [b EXCEPT !.cache = l]
               e == [d EXCEPT !.memory = m]
    <2>1. IsCpu(b)
      BY DEF IsSystem
    <2>2. all[c] = e
      OBVIOUS
    <2>3. l = [k \in LineIndices |-> l[k]] /\ (c # o => OnlyLoses(b.cache, l))
      <3>0. b.cache = [k \in LineIndices |-> b.cache[k]]
        BY <2>1 DEF IsCpu
      <3>1. CASE c = o
        <4>1. l = StoreCommitTransition(b.cache, req.address, TRUE)
          BY <3>1 DEF StoreCommitTransition
        <4> HIDE DEF l, b
        <4> QED
          BY <3>0, <3>1, <4>1, PeersOnlyLose
      <3>2. CASE c # o
        <4>1. l = StoreCommitTransition(b.cache, req.address, FALSE)
          BY <3>2 DEF StoreCommitTransition
        <4> HIDE DEF l, b
        <4> QED
          BY <3>0, <3>2, <4>1, PeersOnlyLose
      <3> QED
        BY <3>1, <3>2
    <2> HIDE DEF all, b, l, m
    <2>4. /\ IsCpu(d) /\ d.cache = l
          /\ d.gprs = b.gprs /\ d.ready = b.ready /\ d.preds = b.preds
          /\ d.pc = b.pc /\ d.halted = b.halted
      BY <2>1, <2>3 DEF IsCpu, NewCpu
    <2> HIDE DEF d
    <2>5. /\ IsCpu(e) /\ e.cache = l
          /\ e.gprs = b.gprs /\ e.ready = b.ready /\ e.preds = b.preds
          /\ e.pc = b.pc /\ e.halted = b.halted
      BY <2>4 DEF IsCpu, NewCpu
    <2> HIDE DEF e
    <2> QED
      BY <2>2, <2>3, <2>5 DEF CommitEffect, b
  <1> HIDE DEF lines
  <1>3. all = [c \in Cpus |-> all[c]]
    OBVIOUS
  <1> HIDE DEF all
  <1> QED
    BY <1>1, <1>2, <1>3 DEF OnCpus

\* The syllable of the granted request.
GrantedSyllable == NextBundle(BusOwner(cycle))[Granted.slot]

LEMMA GrantedFacts ==
    ASSUME SysInv, Granted # NoReq
    PROVE  /\ BusOwner(cycle) \in Cpus
           /\ Granted.cpu = BusOwner(cycle)
           /\ GrantedSyllable \in Syllable
           /\ GrantedSyllable.op \in MemoryOps
           /\ Granted.dst = GrantedSyllable.dst
           /\ Granted.kind = IF GrantedSyllable.op \in Stores THEN "store" ELSE "load"
  <1> DEFINE o == BusOwner(cycle)
  <1>1. o \in Cpus
    BY OwnerIsACpu DEF SysInv
  <1>2. Granted = RequestOf(o)
    BY DEF Granted
  <1> HIDE DEF o
  <1>3. /\ ~Finished(cpus[o], programs[o])
        /\ RequestOf(o).cpu = o
        /\ RequestOf(o).slot \in MemorySlots(o)
        /\ RequestOf(o).slot \in DOMAIN NextBundle(o)
        /\ RequestOf(o).dst = NextBundle(o)[RequestOf(o).slot].dst
        /\ RequestOf(o).kind =
             IF NextBundle(o)[RequestOf(o).slot].op \in Stores THEN "store" ELSE "load"
    BY <1>1, <1>2, RequestFacts
  <1>4. NextBundle(o)[RequestOf(o).slot] \in Syllable
    BY <1>1, <1>3, ProgramsAreSequences
  <1> QED
    BY <1>1, <1>2, <1>3, <1>4 DEF GrantedSyllable, MemorySlots, o

LEMMA CommittedEffect ==
    ASSUME SysInv, NEW after, after = Committed(AllStepped), ~after.panicked
    PROVE  /\ ~AllStepped.panicked
           /\ after.progress \in BOOLEAN
           /\ OnCpus(after.cpus)
           /\ Granted = NoReq => after = AllStepped
           /\ Granted # NoReq =>
                /\ after.progress = TRUE
                /\ \A c \in Cpus :
                     CommitEffect(c, BusOwner(cycle), GrantedSyllable,
                                  AllStepped.cpus[c], after.cpus[c])
  <1> DEFINE s == AllStepped
  <1>1. IsSystem(s)
    BY AllSteppedEffect
  <1>2. after = IF s.panicked THEN s ELSE Commit(s, Granted)
    BY DEF Committed
  <1> HIDE DEF s
  <1>3. ~s.panicked /\ after = Commit(s, Granted)
    BY <1>2
  <1>4. CASE Granted = NoReq
    <2>1. after = s
      BY <1>3, <1>4 DEF Commit
    <2> QED
      BY <1>1, <1>3, <1>4, <2>1 DEF IsSystem, s, OnCpus
  <1>5. CASE Granted # NoReq
    <2> DEFINE req == Granted
               syl == GrantedSyllable
               o   == BusOwner(cycle)
    <2>1. /\ o \in Cpus /\ req.cpu = o /\ syl \in Syllable /\ syl.op \in MemoryOps
          /\ req.dst = syl.dst
          /\ req.kind = IF syl.op \in Stores THEN "store" ELSE "load"
      BY <1>5, GrantedFacts
    <2>2. req # NoReq
      BY <1>5
    <2> HIDE DEF req, syl, o
    <2>3. InBounds(req.address, req.width)
      <3>1. ASSUME ~InBounds(req.address, req.width) PROVE FALSE
        <4>1. after = [s EXCEPT !.panicked = TRUE]
          BY <1>3, <2>2, <3>1 DEF Commit, req
        <4>2. after.panicked = TRUE
          BY <1>1, <4>1 DEF IsSystem
        <4> QED
          BY <4>2
      <3> QED
        BY <3>1
    <2>4. after = IF req.kind = "load" THEN CommitLoad(s, req) ELSE CommitStore(s, req)
      BY <1>3, <2>2, <2>3 DEF Commit, req
    <2>5. /\ after.progress = TRUE
          /\ OnCpus(after.cpus)
          /\ \A c \in Cpus : CommitEffect(c, o, syl, s.cpus[c], after.cpus[c])
      <3>1. CASE syl.op \in Stores
        <4>1. after = CommitStore(s, req)
          BY <2>1, <2>4, <3>1
        <4> QED
          BY <1>1, <2>1, <4>1, CommitStoreEffect
      <3>2. CASE syl.op \notin Stores
        <4>1. after = CommitLoad(s, req) /\ syl.op \in Loads
          BY <2>1, <2>4, <3>2 DEF MemoryOps
        <4>2. req.cpu = o /\ req.dst = syl.dst /\ o \in Cpus /\ syl \in Syllable
          BY <2>1
        <4> QED
          BY <1>1, <4>1, <4>2, CommitLoadEffect, Zenon
      <3> QED
        BY <3>1, <3>2
    <2> QED
      BY <1>3, <1>5, <2>5 DEF s, o, syl
  <1> QED
    BY <1>4, <1>5

-----------------------------------------------------------------------------
(* One call of step_global. *)

\* CPU c after a call in which it made the step of phase two.
CpuOfCall(c, step, d) ==
    /\ IsCpu(d)
    /\ d.pc = step.cpu.pc /\ d.halted = step.cpu.halted /\ d.preds = step.cpu.preds
    /\ RequestOf(c) = NoReq \/ BusOwner(cycle) # c =>
         /\ d.gprs = step.cpu.gprs /\ d.ready = step.cpu.ready
         /\ OnlyLoses(step.cpu.cache, d.cache)
    /\ \A r \in GprIndices :
         LET syl == NextBundle(c)[RequestOf(c).slot]
         IN  /\ \/ d.gprs[r] = step.cpu.gprs[r]
                \/ RequestOf(c) # NoReq /\ syl.op \in Loads /\ r = syl.dst
             /\ \/ d.ready[r] = step.cpu.ready[r]
                \/ /\ RequestOf(c) # NoReq /\ syl.op \in Loads /\ r = syl.dst
                   /\ \E latency \in ResultLatencies(syl.op) :
                        d.ready[r] = cycle + 1 + latency

LEMMA CommittedCpu ==
    ASSUME SysInv, NEW after, after = Committed(AllStepped), ~after.panicked,
           NEW c \in Cpus, NEW step, AllStepped.cpus[c] = step.cpu
    PROVE  CpuOfCall(c, step, after.cpus[c])
  <1> DEFINE d == after.cpus[c]
             b == step.cpu
             o == BusOwner(cycle)
  <1>0. IsCpu(b)
    BY AllSteppedEffect DEF IsSystem
  <1>1. CASE Granted = NoReq
    <2>1. d = b
      BY <1>1, CommittedEffect
    <2>2. OnlyLoses(b.cache, b.cache)
      BY <1>0, PeersOnlyLose DEF IsCpu
    <2> HIDE DEF d, b
    <2>3. CpuOfCall(c, step, d)
      BY <1>0, <2>1, <2>2 DEF CpuOfCall, b
    <2> QED
      BY <2>3 DEF d
  <1>2. CASE Granted # NoReq
    <2> DEFINE syl == GrantedSyllable
    <2>1. CommitEffect(c, o, syl, b, d)
      BY <1>2, CommittedEffect
    <2>2. CASE c = o
      <3>1. Granted = RequestOf(c) /\ syl = NextBundle(c)[RequestOf(c).slot]
        BY <2>2 DEF Granted, GrantedSyllable
      <3> HIDE DEF d, o, syl
      <3>2. CpuOfCall(c, step, d)
        BY <1>2, <2>1, <2>2, <3>1 DEF CommitEffect, CpuOfCall, o
      <3> QED
        BY <3>2 DEF d
    <2>3. CASE c # o
      <3> HIDE DEF d, syl
      <3>1. CpuOfCall(c, step, d)
        BY <1>2, <2>1, <2>3 DEF CommitEffect, CpuOfCall
      <3> QED
        BY <3>1 DEF d
    <2> QED
      BY <2>2, <2>3
  <1> QED
    BY <1>1, <1>2

\* The call ended without a panic and CPU c stepped on the copy m.
CallFor(c, m) ==
    LET step == StepOf(c, m)
    IN  /\ StepEffect(c, m, step)
        /\ step.result # "Fault"
        /\ CpuOfCall(c, step, cpus'[c])
        /\ Stepped(step.result) => status' = "running"
        /\ status' = "quiescent" => m = memory /\ cpus'[c] = step.cpu

Returns ==
    /\ OnCpus(cpus')
    /\ \A c \in Cpus : \E m : CallFor(c, m)
    /\ \/ status' = "running" /\ cycle' = cycle + 1 /\ (SomeUnfinished \/ Granted # NoReq)
       \/ status' = "quiescent" /\ cycle' = cycle /\ memory' = memory

Unwinds ==
    /\ status' = "panicked" /\ UNCHANGED <<programs, cpus, memory, cycle, grant>>
    /\ SomeUnfinished \/ Granted # NoReq

LEMMA CpuOfNextCycle ==
    ASSUME SysInv, NEW c \in Cpus, NEW step, NEW b, CpuOfCall(c, step, b)
    PROVE  CpuOfCall(c, step, [b EXCEPT !.cycle = cycle + 1])
  <1> DEFINE d == [b EXCEPT !.cycle = cycle + 1]
  <1>1. IsCpu(b) /\ cycle + 1 \in Nat
    BY DEF CpuOfCall, SysInv
  <1>2. /\ IsCpu(d) /\ d.gprs = b.gprs /\ d.ready = b.ready /\ d.preds = b.preds
        /\ d.pc = b.pc /\ d.halted = b.halted /\ d.cache = b.cache
    BY <1>1 DEF IsCpu, NewCpu
  <1> HIDE DEF d
  <1>3. CpuOfCall(c, step, d)
    BY <1>2 DEF CpuOfCall
  <1> QED
    BY <1>3 DEF d

LEMMA CallCases ==
    ASSUME SysInv, Next
    PROVE  programs' = programs /\ (Unwinds \/ Returns)
  <1> DEFINE s     == AllStepped
             after == Committed(s)
  <1>1. programs' = programs /\ (Progress(after) \/ NoProgress(after) \/ Panic(after))
    BY DEF Next, StepGlobal
  <1>2. \A c \in Cpus : \E m : SteppedOn(s, c, m)
    BY AllSteppedEffect
  <1>3. ~after.panicked =>
          /\ ~s.panicked
          /\ after.progress \in BOOLEAN
          /\ OnCpus(after.cpus)
          /\ Granted = NoReq => after = s
          /\ Granted # NoReq => after.progress = TRUE
    BY CommittedEffect
  <1>4. ASSUME NEW c \in Cpus, NEW step, s.cpus[c] = step.cpu, ~after.panicked
        PROVE  CpuOfCall(c, step, after.cpus[c])
    BY <1>4, CommittedCpu
  <1>5. CASE Panic(after)
    <2>1. after.panicked /\ status' = "panicked" /\ UNCHANGED <<cpus, memory, cycle, grant>>
      BY <1>5 DEF Panic
    <2>2. s.panicked => SomeUnfinished
      BY AllSteppedEffect
    <2>3. ~s.panicked /\ Granted = NoReq => after = s
      BY DEF Committed, Commit
    <2> HIDE DEF after, s
    <2>4. SomeUnfinished \/ Granted # NoReq
      BY <2>1, <2>2, <2>3
    <2> QED
      BY <1>1, <2>1, <2>4 DEF Unwinds
  <1> HIDE DEF after
  <1>6. CASE Progress(after)
    <2>1. /\ ~after.panicked /\ after.progress /\ cycle' = cycle + 1 /\ status' = "running"
          /\ cpus' = [c \in Cpus |-> [after.cpus[c] EXCEPT !.cycle = cycle + 1]]
      BY <1>6 DEF Progress
    <2>2. OnCpus(cpus')
      BY <2>1 DEF OnCpus
    <2>3. ASSUME NEW c \in Cpus PROVE \E m : CallFor(c, m)
      <3>1. PICK m : SteppedOn(s, c, m)
        BY <1>2
      <3> DEFINE step == StepOf(c, m)
      <3>2. StepEffect(c, m, step)
        BY StepOfEffect
      <3>3. s.cpus[c] = step.cpu /\ (step.result = "Fault" => s.panicked)
        BY <3>1 DEF SteppedOn
      <3> HIDE DEF step
      <3>4. CpuOfCall(c, step, after.cpus[c])
        BY <1>4, <2>1, <3>3
      <3>5. CpuOfCall(c, step, cpus'[c])
        <4>1. cpus'[c] = [after.cpus[c] EXCEPT !.cycle = cycle + 1]
          BY <2>1
        <4> QED
          BY <3>4, <4>1, CpuOfNextCycle
      <3>6. CallFor(c, m)
        BY <1>3, <2>1, <3>2, <3>3, <3>5 DEF CallFor, step
      <3> QED
        BY <3>6
    <2>4. SomeUnfinished \/ Granted # NoReq
      BY <1>3, <2>1, AllSteppedEffect
    <2> QED
      BY <1>1, <2>1, <2>2, <2>3, <2>4 DEF Returns
  <1>7. CASE NoProgress(after)
    <2>1. /\ ~after.panicked /\ ~after.progress /\ cycle' = cycle /\ status' = "quiescent"
          /\ cpus' = after.cpus /\ memory' = after.memory
      BY <1>7 DEF NoProgress
    <2>2. Granted = NoReq /\ after = s
      BY <1>3, <2>1
    <2>3. memory' = memory
      BY <2>1, <2>2, AllSteppedEffect
    <2>4. ASSUME NEW c \in Cpus PROVE \E m : CallFor(c, m)
      <3>1. PICK m : SteppedOn(s, c, m)
        BY <1>2
      <3> DEFINE step == StepOf(c, m)
      <3>2. StepEffect(c, m, step)
        BY StepOfEffect
      <3>3. /\ s.cpus[c] = step.cpu
            /\ step.result = "Fault" => s.panicked
            /\ Stepped(step.result) => s.progress
            /\ ~s.progress => m = memory
        BY <3>1 DEF SteppedOn
      <3> HIDE DEF step
      <3>4. CpuOfCall(c, step, after.cpus[c])
        BY <1>4, <2>1, <3>3
      <3>5. CallFor(c, m)
        BY <1>3, <2>1, <2>2, <3>2, <3>3, <3>4 DEF CallFor, step
      <3> QED
        BY <3>5
    <2> QED
      BY <1>1, <1>3, <2>1, <2>3, <2>4 DEF Returns
  <1> QED
    BY <1>1, <1>5, <1>6, <1>7

-----------------------------------------------------------------------------

LEMMA SysInvInit == Init => SysInv
  <1> SUFFICES ASSUME Init PROVE SysInv
    OBVIOUS
  <1>1. cpus = [c \in Cpus |-> NewCpu]
    BY DEF Init
  <1>2. \A c \in Cpus : IsCpu(cpus[c])
    BY <1>1, NewCpuIsCpu
  <1>3. cpus = [c \in Cpus |-> cpus[c]]
    BY <1>1
  <1> QED
    BY <1>2, <1>3 DEF Init, SysInv

LEMMA SysInvStep == SysInv /\ [Next]_vars => SysInv'
  <1> SUFFICES ASSUME SysInv, [Next]_vars PROVE SysInv'
    OBVIOUS
  <1>1. CASE UNCHANGED vars
    BY <1>1 DEF vars, SysInv, Accepted
  <1>2. CASE Next /\ Unwinds
    BY <1>2 DEF Unwinds, SysInv, Accepted
  <1>3. CASE Next /\ Returns
    <2>1. programs' = programs
      BY <1>3, CallCases
    <2>2. OnCpus(cpus') /\ cycle' \in Nat
      BY <1>3 DEF Returns, SysInv
    <2>3. ASSUME NEW c \in Cpus PROVE IsCpu(cpus'[c])
      <3>1. PICK m : CallFor(c, m)
        BY <1>3 DEF Returns
      <3> QED
        BY <3>1 DEF CallFor, CpuOfCall
    <2>4. programs' \in ProgramSets /\ Accepted(programs')
      BY <2>1 DEF SysInv
    <2> QED
      BY <2>2, <2>3, <2>4 DEF SysInv, OnCpus
  <1> QED
    BY <1>1, <1>2, <1>3, CallCases

\* The programs stay what System::new accepted and the CPUs keep their shape.
THEOREM SysInvAlways == Spec => []SysInv
  BY SysInvInit, SysInvStep, PTL DEF Spec

\* A memory operation is lost at the bus only by a CPU that is out of step with
\* it: the bus slots that System::new checks are those that the CPU gets.
THEOREM RequestsLostOnlyAfterDriftAlways == Spec => RequestsLostOnlyAfterDrift
  <1>1. SysInv /\ [Next]_vars =>
          [\A c \in Cpus :
             RequestOf(c) # NoReq /\ cpus'[c].pc # cpus[c].pc =>
                grant'.cpu = c \/ cpus[c].pc # cycle]_vars
    <2> SUFFICES ASSUME SysInv, [Next]_vars, NEW c \in Cpus,
                        RequestOf(c) # NoReq, cpus'[c].pc # cpus[c].pc, cpus[c].pc = cycle
                 PROVE  grant'.cpu = c
      OBVIOUS
    <2>1. /\ ~Finished(cpus[c], programs[c])
          /\ RequestOf(c).cpu = c /\ RequestOf(c).slot \in MemorySlots(c)
      BY RequestFacts
    <2>2. BusOwner(cycle) = c
      BY <2>1, OnScheduleOwnsTheBus
    <2>3. grant' = RequestOf(c)
      BY <2>2, GrantIsReported
    <2> QED
      BY <2>1, <2>3
  <1> QED
    BY <1>1, SysInvAlways, PTL DEF Spec, RequestsLostOnlyAfterDrift

-----------------------------------------------------------------------------
(* The types of the system's variables. *)

LEMMA SyncedType ==
    ASSUME cycle \in Nat, NEW c \in CpuStates, NEW m \in Memories
    PROVE  Synced(c, m) \in CpuStates
  <1> DEFINE d == [c EXCEPT !.cycle = cycle]
  <1>1. d \in CpuStates
    BY DEF CpuStates
  <1>2. Synced(c, m) = [d EXCEPT !.memory = m]
    BY DEF Synced, CpuStates
  <1> HIDE DEF d
  <1> QED
    BY <1>1, <1>2 DEF CpuStates

LEMMA StepOfType ==
    ASSUME SysInv, NEW c \in Cpus, cpus[c] \in CpuStates, NEW m \in Memories
    PROVE  StepOf(c, m).cpu \in CpuStates
  <1> DEFINE cpu == Synced(cpus[c], m)
  <1>1. cpu \in CpuStates
    BY SyncedType DEF SysInv
  <1>2. CASE RequestOf(c) = NoReq
    <2>1. programs[c] \in Seq(Seq(Syllable))
      BY ProgramsAreSequences
    <2> HIDE DEF cpu
    <2>2. StepChecked(cpu, programs[c]).cpu \in CpuStates
      BY <1>1, <2>1, StepType
    <2> QED
      BY <1>2, <2>2 DEF StepOf, cpu
  <1>3. CASE RequestOf(c) # NoReq
    <2> DEFINE start == AtStart(c, m)
               inner == StepChecked(start, <<Rest(c)>>)
               pc    == IF Stepped(inner.result) THEN cpu.pc + 1 ELSE cpu.pc
    <2>1. start \in CpuStates
      BY <1>1, WriteTypes DEF AtStart
    <2>2. <<Rest(c)>> \in Seq(Seq(Syllable))
      BY <1>3, RestFacts
    <2>3. inner.cpu \in CpuStates
      <3> HIDE DEF start
      <3> QED
        BY <2>1, <2>2, StepType
    <2>4. inner = [result |-> inner.result, cpu |-> inner.cpu]
      <3>1. IsCpu(start)
        BY <1>3, RestFacts
      <3> HIDE DEF start
      <3> QED
        BY <2>2, <3>1, StepCheckedEffect
    <2>5. cpu.pc \in Nat
      BY <1>1 DEF CpuStates
    <2>6. NextBundle(c) = programs[c][cpu.pc + 1]
      BY SyncedEffect DEF SysInv, NextBundle
    <2>7. StepOf(c, m) = [inner EXCEPT !.cpu = [inner.cpu EXCEPT !.pc = pc]]
      BY <1>3, <2>6 DEF StepOf, StepBesideRequest, AtStart, Rest
    <2> HIDE DEF cpu, inner
    <2>8. pc \in Nat
      BY <2>5
    <2> HIDE DEF pc
    <2>9. [inner.cpu EXCEPT !.pc = pc] \in CpuStates
      BY <2>3, <2>8, WriteTypes
    <2> QED
      BY <2>4, <2>7, <2>9
  <1> QED
    BY <1>2, <1>3

\* The part of TypeOK that phase two and phase three may disturb.
SystemTyped(s) == s.cpus \in [Cpus -> CpuStates] /\ s.memory \in Memories

LEMMA OneMoreCpuType ==
    ASSUME SysInv, TypeOK, NEW n \in Cpus, NEW s, FirstStepped(n, s), SystemTyped(s)
    PROVE  SystemTyped(StepCpu(s, n))
  <1> DEFINE step == StepOf(n, s.memory)
  <1>1. s.cpus[n] = cpus[n]
    BY BusAssumption DEF FirstStepped, Cpus
  <1>2. StepCpu(s, n) =
          [cpus     |-> [s.cpus EXCEPT ![n] = step.cpu],
           memory   |-> IF Stepped(step.result) THEN step.cpu.memory ELSE s.memory,
           progress |-> s.progress \/ Stepped(step.result),
           panicked |-> s.panicked \/ step.result = "Fault"]
    BY <1>1 DEF StepCpu, StepOf
  <1>3. step.cpu \in CpuStates
    BY StepOfType DEF TypeOK, SystemTyped
  <1> HIDE DEF step
  <1>4. step.cpu.memory \in Memories
    BY <1>3 DEF CpuStates
  <1> DEFINE all == [s.cpus EXCEPT ![n] = step.cpu]
             m   == IF Stepped(step.result) THEN step.cpu.memory ELSE s.memory
  <1>5. all \in [Cpus -> CpuStates] /\ m \in Memories
    BY <1>3, <1>4 DEF SystemTyped
  <1>6. StepCpu(s, n).cpus = all /\ StepCpu(s, n).memory = m
    BY <1>2
  <1> HIDE DEF all, m
  <1> QED
    BY <1>5, <1>6 DEF SystemTyped

LEMMA AllSteppedType ==
    ASSUME SysInv, TypeOK
    PROVE  SystemTyped(AllStepped)
  <1> DEFINE S == {k \in Nat : k <= NumCpus => SystemTyped(SteppedUpTo[k])}
  <1>0. NumCpus \in Nat
    BY BusAssumption
  <1>1. 0 \in S
    <2>1. SteppedUpTo[0].cpus = cpus /\ SteppedUpTo[0].memory = memory
      BY SteppedUpToDef
    <2> QED
      BY <2>1 DEF SystemTyped, TypeOK
  <1>2. ASSUME NEW k \in Nat, k \in S PROVE k + 1 \in S
    <2>1. ASSUME k + 1 <= NumCpus PROVE SystemTyped(SteppedUpTo[k + 1])
      <3>1. k \in Cpus /\ SystemTyped(SteppedUpTo[k])
        BY <1>0, <1>2, <2>1 DEF Cpus
      <3>2. k + 1 \in 1 .. NumCpus /\ (k + 1) - 1 = k /\ k \in 0 .. NumCpus
        BY <1>0, <2>1
      <3>3. SteppedUpTo[k + 1] = StepCpu(SteppedUpTo[k], k)
        BY <3>2, SteppedUpToDef
      <3>4. FirstStepped(k, SteppedUpTo[k])
        BY <3>2, SteppedUpToEffect
      <3> QED
        BY <3>1, <3>3, <3>4, OneMoreCpuType
    <2> QED
      BY <2>1
  <1> HIDE DEF S
  <1>3. NumCpus \in S
    BY <1>0, <1>1, <1>2, NatSetInduction
  <1> QED
    BY <1>0, <1>3 DEF S, AllStepped

\* A request is a load or store of the widths and words of the code.
LEMMA RequestType ==
    ASSUME SysInv, TypeOK, NEW c \in Cpus
    PROVE  RequestOf(c) \in Requests \cup {NoReq}
  <1> DEFINE cpu   == Synced(cpus[c], memory)
             slot  == Min(MemorySlots(c))
             syl   == NextBundle(c)[slot]
             width == AccessWidth(syl.op)
             read  == ReadGpr(cpu, syl.src[2])
             value == IF syl.op \in Stores THEN read % PowersOf(ByteMod)[width] ELSE 0
             req == [cpu     |-> c,
                     slot    |-> slot,
                     kind    |-> IF syl.op \in Stores THEN "store" ELSE "load",
                     address |-> EffectiveAddress(cpu, syl),
                     width   |-> width,
                     value   |-> value,
                     dst     |-> syl.dst]
  <1> SUFFICES ASSUME RequestOf(c) # NoReq PROVE RequestOf(c) \in Requests
    OBVIOUS
  <1>1. cpu \in CpuStates
    BY SyncedType DEF SysInv, TypeOK
  <1>2. /\ ~Finished(cpus[c], programs[c])
        /\ RequestOf(c).slot = slot
        /\ slot \in DOMAIN NextBundle(c)
        /\ NextBundle(c) \in Seq(Syllable)
        /\ Len(NextBundle(c)) = Len(Slots)
    BY RequestFacts, ProgramsAreSequences
  <1>3. RequestOf(c) = req
    <2>1. cpu.pc = cpus[c].pc /\ (Finished(cpu, programs[c]) <=> Finished(cpus[c], programs[c]))
      BY SyncedEffect, SyncedIsFinished DEF SysInv
    <2>2. MemorySlots(c) =
            {s \in ActiveSlots(cpu, NextBundle(c)) : NextBundle(c)[s].op \in MemoryOps}
      BY SyncedIsFinished DEF SysInv, MemorySlots
    <2> QED
      BY <2>1, <2>2 DEF RequestOf, NextBundle
  <1>4. syl \in Syllable /\ slot \in DOMAIN Slots
    BY <1>2, LayoutAssumption
  <1> HIDE DEF cpu, slot, syl
  <1>5. EffectiveAddress(cpu, syl) \in Words
    BY <1>1, <1>4, AddressIsAWord
  <1>6. width \in {1, 2, 4, 8}
    BY AccessWidths
  <1>7. value \in Words
    <2> DEFINE p == PowersOf(ByteMod)[width]
    <2>1. p \in 1 .. WordMod /\ WordMod \in Nat
      BY <1>6, PowersOfByteMod, WordFacts
    <2>2. read \in Nat
      BY <1>1, ReadsAreWords DEF Words
    <2> HIDE DEF p, read
    <2>3. read % p \in 0 .. p - 1
      BY <2>1, <2>2
    <2>4. read % p \in Words /\ 0 \in Words
      BY <2>1, <2>3 DEF Words
    <2> QED
      BY <2>4 DEF p
  <1>8. syl.dst \in Nat \cup {NoReg}
    BY <1>4 DEF Syllable
  <1> HIDE DEF width, value
  <1> QED
    BY <1>3, <1>4, <1>5, <1>6, <1>7, <1>8 DEF Requests

LEMMA CommitLoadType ==
    ASSUME SysInv, NEW s, IsSystem(s), SystemTyped(s), NEW req \in Requests,
           InBounds(req.address, req.width)
    PROVE  SystemTyped(CommitLoad(s, req))
  <1> DEFINE b       == s.cpus[req.cpu]
             latency == OutcomeLatency(PeekOutcome(b.cache, req.address))
             value   == LoadBytes(s.memory, req.address, req.width)
             cached  == [b EXCEPT !.cache = AccessLoad(b.cache, req.address)]
             filled  == [cached EXCEPT !.memory = s.memory]
             written == WriteGpr(filled, req.dst, value)
             d       == SetReady(written, req.dst, LoadReadyAt(latency))
  <1>1. /\ req.cpu \in Cpus /\ req.address \in Nat /\ req.width \in {1, 2, 4, 8}
        /\ s.memory \in Memories /\ s.cpus \in [Cpus -> CpuStates]
    BY WordFacts DEF Requests, Words, SystemTyped
  <1>2. b \in CpuStates /\ b.cache \in CacheState
    BY <1>1 DEF CpuStates
  <1>3. value \in Words
    BY <1>1, LoadedIsAWord
  <1>4. LoadReadyAt(latency) \in Nat
    <2>1. latency \in Nat
      BY LoadLatencyIsANumber
    <2> HIDE DEF latency
    <2> QED
      BY <2>1 DEF LoadReadyAt, SysInv
  <1>5. CommitLoad(s, req) = [s EXCEPT !.progress = TRUE, !.cpus = [s.cpus EXCEPT ![req.cpu] = d]]
    BY DEF CommitLoad
  <1>6. cached \in CpuStates
    <2>1. AccessLoad(b.cache, req.address) \in CacheState
      BY <1>1, <1>2, AccessType
    <2> HIDE DEF b
    <2> QED
      BY <1>2, <2>1, WriteTypes
  <1> HIDE DEF cached, value, latency
  <1>7. filled \in CpuStates
    BY <1>1, <1>6 DEF CpuStates
  <1> HIDE DEF filled
  <1>8. written \in CpuStates
    BY <1>3, <1>7, WriteTypes
  <1> HIDE DEF written
  <1>9. d \in CpuStates
    BY <1>4, <1>8, WriteTypes
  <1> HIDE DEF d
  <1> DEFINE all == [s.cpus EXCEPT ![req.cpu] = d]
  <1>10. all \in [Cpus -> CpuStates]
    BY <1>1, <1>9
  <1> HIDE DEF all
  <1>11. CommitLoad(s, req).cpus = all /\ CommitLoad(s, req).memory = s.memory
    BY <1>5 DEF IsSystem, all
  <1> QED
    BY <1>1, <1>10, <1>11 DEF SystemTyped

LEMMA CommitStoreType ==
    ASSUME NEW s, IsSystem(s), SystemTyped(s), NEW req \in Requests
    PROVE  SystemTyped(CommitStore(s, req))
  <1> DEFINE written == StoreBytes(s.memory, req.address, ToBytes(req.value, req.width))
             lines(c) == StoreCommitTransition(s.cpus[c].cache, req.address, c = req.cpu)
             all == [c \in Cpus |->
                       [s.cpus[c] EXCEPT
                          !.cache = lines(c),
                          !.memory = IF c = req.cpu THEN written ELSE @]]
  <1>1. /\ req.address \in Nat /\ req.width \in {1, 2, 4, 8} /\ req.value \in Nat
        /\ s.memory \in Memories /\ s.cpus \in [Cpus -> CpuStates]
    BY WordFacts DEF Requests, Words, SystemTyped
  <1>2. written \in Memories
    BY <1>1, StoredIsMemory
  <1>3. CommitStore(s, req) = [s EXCEPT !.progress = TRUE, !.memory = written, !.cpus = all]
    BY DEF CommitStore
  <1> HIDE DEF written
  <1>4. ASSUME NEW c \in Cpus PROVE all[c] \in CpuStates
    <2> DEFINE b == s.cpus[c]
               l == lines(c)
               d == [b EXCEPT !.cache = l]
               m == IF c = req.cpu THEN written ELSE b.memory
    <2>1. b \in CpuStates /\ b.cache \in CacheState
      BY <1>1 DEF CpuStates
    <2>2. l \in CacheState
      <3>1. (c = req.cpu) \in BOOLEAN
        OBVIOUS
      <3> HIDE DEF b
      <3>2. l = StoreCommitTransition(b.cache, req.address, TRUE)
            \/ l = StoreCommitTransition(b.cache, req.address, FALSE)
        BY DEF b, StoreCommitTransition
      <3> HIDE DEF l
      <3> QED
        BY <1>1, <2>1, <3>2, AccessType
    <2>3. all[c] = [b EXCEPT !.cache = l, !.memory = m]
      OBVIOUS
    <2> HIDE DEF b, l, all
    <2>4. b.memory \in Memories
      BY <2>1 DEF CpuStates
    <2>5. m \in Memories
      BY <1>2, <2>4
    <2> HIDE DEF m
    <2> QED
      BY <2>1, <2>2, <2>3, <2>5 DEF CpuStates
  <1>5. all \in [Cpus -> CpuStates]
    BY <1>4
  <1> HIDE DEF all
  <1>6. CommitStore(s, req).cpus = all /\ CommitStore(s, req).memory = written
    BY <1>3 DEF IsSystem
  <1> QED
    BY <1>2, <1>5, <1>6 DEF SystemTyped

LEMMA CommittedType ==
    ASSUME SysInv, TypeOK
    PROVE  SystemTyped(Committed(AllStepped))
  <1> DEFINE s   == AllStepped
             req == Granted
  <1>1. IsSystem(s) /\ SystemTyped(s)
    BY AllSteppedEffect, AllSteppedType
  <1>2. req \in Requests \cup {NoReq}
    BY OwnerIsACpu, RequestType DEF Granted, SysInv
  <1>3. Committed(s) = IF s.panicked THEN s ELSE Commit(s, req)
    BY DEF Committed
  <1> HIDE DEF s, req
  <1>4. CASE Committed(s) = s
    BY <1>1, <1>4 DEF s
  <1>5. CASE Committed(s) = [s EXCEPT !.panicked = TRUE]
    <2>1. Committed(s).cpus = s.cpus /\ Committed(s).memory = s.memory
      BY <1>1, <1>5 DEF IsSystem
    <2> QED
      BY <1>1, <2>1 DEF SystemTyped, s
  <1>6. CASE req # NoReq /\ InBounds(req.address, req.width) /\ Committed(s) = CommitLoad(s, req)
    BY <1>1, <1>2, <1>6, CommitLoadType DEF s
  <1>7. CASE req # NoReq /\ Committed(s) = CommitStore(s, req)
    BY <1>1, <1>2, <1>7, CommitStoreType DEF s
  <1> QED
    BY <1>3, <1>4, <1>5, <1>6, <1>7 DEF Commit

LEMMA TypeInit == Init => TypeOK
  <1> SUFFICES ASSUME Init PROVE TypeOK
    OBVIOUS
  <1>1. programs \in [Cpus -> Seq(Seq(Syllable))]
    BY SystemAssumption DEF Init
  <1>2. cpus \in [Cpus -> CpuStates]
    BY NewCpuType DEF Init
  <1>3. memory \in Memories
    BY MemoryAssumption DEF Init, ZeroMemory, Memories, Bytes
  <1> QED
    BY <1>1, <1>2, <1>3 DEF Init, TypeOK

LEMMA TypeStep == SysInv /\ TypeOK /\ [Next]_vars => TypeOK'
  <1> SUFFICES ASSUME SysInv, TypeOK, [Next]_vars PROVE TypeOK'
    OBVIOUS
  <1>1. CASE UNCHANGED vars
    BY <1>1 DEF vars, TypeOK
  <1>2. CASE Next
    <2> DEFINE after == Committed(AllStepped)
    <2>1. /\ programs' = programs
          /\ Progress(after) \/ NoProgress(after) \/ Panic(after)
      BY <1>2 DEF Next, StepGlobal
    <2>2. SystemTyped(after)
      BY CommittedType
    <2>3. Granted \in Requests \cup {NoReq}
      BY OwnerIsACpu, RequestType DEF Granted, SysInv
    <2> HIDE DEF after
    <2>4. CASE Progress(after)
      <3>1. cycle + 1 \in Nat
        BY DEF TypeOK
      <3>2. ASSUME NEW c \in Cpus PROVE [after.cpus[c] EXCEPT !.cycle = cycle + 1] \in CpuStates
        <4>1. after.cpus[c] \in CpuStates
          BY <2>2 DEF SystemTyped
        <4> QED
          BY <3>1, <4>1 DEF CpuStates
      <3>3. cpus' \in [Cpus -> CpuStates]
        BY <2>4, <3>2 DEF Progress
      <3> QED
        BY <2>1, <2>2, <2>3, <2>4, <3>1, <3>3 DEF Progress, TypeOK, SystemTyped
    <2>5. CASE NoProgress(after)
      BY <2>1, <2>2, <2>3, <2>5 DEF NoProgress, TypeOK, SystemTyped
    <2>6. CASE Panic(after)
      BY <2>1, <2>6 DEF Panic, TypeOK
    <2> QED
      BY <2>1, <2>4, <2>5, <2>6
  <1> QED
    BY <1>1, <1>2

\* step_global keeps the clock, the shared memory, the logged requests and every
\* CPU's registers, scoreboard, cache and copy of memory in their types: whatever
\* the programs compute, no value leaves its word and no byte its range.
THEOREM SystemTypeCorrect == Spec => []TypeOK
  BY TypeInit, TypeStep, SysInvInit, SysInvStep, PTL DEF Spec
-----------------------------------------------------------------------------
(* The memory side of a disciplined system. *)

\* Slots whose guards no earlier slot of the bundle writes stay inactive.
LEMMA GuardIsSettled ==
    ASSUME NEW c, NEW d, NEW syl, NEW later,
           \A p \in PredIndices : p = 0 \/ ~ (syl.op \in WritesPred /\ syl.dst = p) =>
               d.preds[p] = c.preds[p],
           syl.op \in WritesPred => later.pred \notin {syl.dst} \ {0}
    PROVE  Active(d, later) <=> Active(c, later)
  BY DEF Active, ReadPred

\* A settled bundle without an active memory operation leaves memory and cache
\* alone, slot by slot.
LEMMA NoAccessNoChange ==
    ASSUME NEW cpu, IsCpu(cpu), NEW bundle \in Seq(Syllable), AccessIsSettled(bundle),
           \A t \in DOMAIN bundle : bundle[t].op \in MemoryOps => ~Active(cpu, bundle[t])
    PROVE  /\ ExecBundle(cpu, bundle).cache = cpu.cache
           /\ ExecBundle(cpu, bundle).memory = cpu.memory
  <1> DEFINE after == SlotBySlot(cpu, bundle)
             Quiet(n, c) ==
                /\ IsCpu(c) /\ c.cache = cpu.cache /\ c.memory = cpu.memory
                /\ \A t \in DOMAIN bundle :
                     n < t /\ bundle[t].op \in MemoryOps => ~Active(c, bundle[t])
             S == {n \in Nat : n <= Len(bundle) => Quiet(n, after[n])}
  <1>0. Len(bundle) \in Nat /\ DOMAIN bundle = 1 .. Len(bundle)
    OBVIOUS
  <1>1. /\ after[0] = Issuing(cpu)
        /\ \A s \in 1 .. Len(bundle) :
             after[s] = IF after[s - 1].halted THEN after[s - 1]
                        ELSE ExecSyllable(after[s - 1], bundle[s])
    BY <1>0, SlotBySlotDef
  <1> HIDE DEF after
  <1>2. 0 \in S
    <2> DEFINE start == Issuing(cpu)
    <2>1. /\ IsCpu(start) /\ start.preds = cpu.preds
          /\ start.cache = cpu.cache /\ start.memory = cpu.memory
      BY IssuingEffect DEF NewCpu
    <2> HIDE DEF start
    <2>2. \A syl : Active(start, syl) <=> Active(cpu, syl)
      BY <2>1 DEF Active, ReadPred
    <2>3. Quiet(0, start)
      BY <2>1, <2>2
    <2> QED
      BY <1>1, <2>3 DEF start
  <1>3. ASSUME NEW n \in Nat, n \in S PROVE n + 1 \in S
    <2> SUFFICES ASSUME n + 1 <= Len(bundle) PROVE Quiet(n + 1, after[n + 1])
      OBVIOUS
    <2> DEFINE s == n + 1
               b == after[n]
               c == after[n + 1]
    <2>1. /\ s \in DOMAIN bundle /\ s \in 1 .. Len(bundle) /\ s - 1 = n /\ n < s
          /\ Quiet(n, b) /\ bundle[s] \in Syllable
      BY <1>0, <1>3
    <2>2. c = b \/ c = ExecSyllable(b, bundle[s])
      BY <1>1, <2>1
    <2> HIDE DEF b, c
    <2>3. CASE c = b
      BY <2>1, <2>3 DEF c
    <2>4. CASE c = ExecSyllable(b, bundle[s]) /\ ~Active(b, bundle[s])
      <3>1. c = b
        BY <2>4 DEF ExecSyllable
      <3> QED
        BY <2>3, <3>1
    <2>5. CASE c = ExecSyllable(b, bundle[s]) /\ Active(b, bundle[s])
      <3>1. Frame(b, bundle[s], c)
        BY <2>1, <2>5, SyllableFrame
      <3>2. bundle[s].op \notin MemoryOps
        BY <2>1, <2>5
      <3>3. IsCpu(c) /\ c.cache = cpu.cache /\ c.memory = cpu.memory
        BY <2>1, <3>1, <3>2 DEF Frame
      <3>4. ASSUME NEW t \in DOMAIN bundle, n + 1 < t, bundle[t].op \in MemoryOps
            PROVE  ~Active(c, bundle[t])
        <4>1. n < t
          BY <1>0, <3>4
        <4>2. ~Active(b, bundle[t])
          BY <2>1, <3>4, <4>1
        <4>3. bundle[s].op \in WritesPred => bundle[t].pred \notin {bundle[s].dst} \ {0}
          BY <2>1, <3>4 DEF AccessIsSettled
        <4> QED
          BY <3>1, <4>2, <4>3, GuardIsSettled DEF Frame
      <3> QED
        BY <3>3, <3>4 DEF c
    <2> QED
      BY <2>2, <2>3, <2>4, <2>5
  <1> HIDE DEF S
  <1>4. Len(bundle) \in S
    BY <1>0, <1>2, <1>3, NatSetInduction
  <1>5. Quiet(Len(bundle), after[Len(bundle)])
    BY <1>4 DEF S
  <1> QED
    BY <1>5 DEF after, ExecBundle

LEMMA StepWithoutAccess ==
    ASSUME NEW cpu, IsCpu(cpu), NEW program \in Seq(Seq(Syllable)),
           ~Finished(cpu, program) => AccessIsSettled(program[cpu.pc + 1]),
           ~Finished(cpu, program) /\ ~HasUnreadySources(cpu, program[cpu.pc + 1]) =>
               \A t \in ActiveSlots(cpu, program[cpu.pc + 1]) :
                   program[cpu.pc + 1][t].op \notin MemoryOps
    PROVE  /\ StepChecked(cpu, program).cpu.cache = cpu.cache
           /\ StepChecked(cpu, program).cpu.memory = cpu.memory
  <1> DEFINE bundle == program[cpu.pc + 1]
             halts  == [cpu EXCEPT !.halted = TRUE]
             waits  == [cpu EXCEPT !.cycle = @ + 1]
             Same(c) == c.cache = cpu.cache /\ c.memory = cpu.memory
  <1>1. Same(halts) /\ Same(waits)
    BY DEF IsCpu, NewCpu
  <1>2. ~Finished(cpu, program) /\ ~HasUnreadySources(cpu, bundle) =>
            Same(ExecBundle(cpu, bundle))
    <2> SUFFICES ASSUME ~Finished(cpu, program), ~HasUnreadySources(cpu, bundle)
                 PROVE  Same(ExecBundle(cpu, bundle))
      OBVIOUS
    <2>1. bundle \in Seq(Syllable)
      BY DEF Finished
    <2>2. \A t \in DOMAIN bundle : bundle[t].op \in MemoryOps => ~Active(cpu, bundle[t])
      BY DEF ActiveSlots
    <2>3. AccessIsSettled(bundle)
      OBVIOUS
    <2> HIDE DEF bundle
    <2> QED
      BY <2>1, <2>2, <2>3, NoAccessNoChange
  <1>3. StepChecked(cpu, program).cpu \in {cpu, halts, waits}
        \/ /\ ~Finished(cpu, program) /\ ~HasUnreadySources(cpu, bundle)
           /\ StepChecked(cpu, program).cpu = ExecBundle(cpu, bundle)
    BY DEF StepChecked
  <1> HIDE DEF halts, waits, bundle
  <1> QED
    BY <1>1, <1>2, <1>3

\* In phase two no CPU of a disciplined system touches its cache or memory.
LEMMA StepOfWithoutAccess ==
    ASSUME SysInv, Disciplined, NEW c \in Cpus
    PROVE  /\ StepOf(c, memory).cpu.cache = cpus[c].cache
           /\ StepOf(c, memory).cpu.memory = memory
  <1> DEFINE cpu    == Synced(cpus[c], memory)
             bundle == NextBundle(c)
  <1>1. /\ IsCpu(cpu) /\ cpu.cache = cpus[c].cache /\ cpu.memory = memory
        /\ cpu.pc = cpus[c].pc
        /\ Finished(cpu, programs[c]) <=> Finished(cpus[c], programs[c])
        /\ bundle = programs[c][cpu.pc + 1]
        /\ ActiveSlots(cpu, bundle) = ActiveSlots(cpus[c], bundle)
    <2>1. IsCpu(cpus[c]) /\ cycle \in Nat
      BY DEF SysInv
    <2>2. /\ IsCpu(cpu) /\ cpu.cache = cpus[c].cache /\ cpu.memory = memory
          /\ cpu.pc = cpus[c].pc
      BY <2>1, SyncedEffect
    <2>3. /\ Finished(cpu, programs[c]) <=> Finished(cpus[c], programs[c])
          /\ ActiveSlots(cpu, bundle) = ActiveSlots(cpus[c], bundle)
      BY <2>1, SyncedIsFinished
    <2> QED
      BY <2>2, <2>3 DEF NextBundle
  <1>2. ~Finished(cpus[c], programs[c]) => AccessIsSettled(bundle)
    BY ProgramsAreSequences DEF Disciplined
  <1> HIDE DEF cpu
  <1>3. CASE RequestOf(c) = NoReq
    <2>1. StepOf(c, memory) = StepChecked(cpu, programs[c])
      BY <1>3 DEF StepOf, cpu
    <2>2. programs[c] \in Seq(Seq(Syllable))
      BY ProgramsAreSequences
    <2>3. ASSUME ~Finished(cpus[c], programs[c]), ~HasUnreadySources(cpu, bundle),
                 NEW t \in ActiveSlots(cpu, bundle), bundle[t].op \in MemoryOps
          PROVE  FALSE
      <3>1. t \in MemorySlots(c)
        BY <1>1, <2>3 DEF MemorySlots
      <3>2. /\ Min(MemorySlots(c)) \in MemorySlots(c)
            /\ UnreadySource(cpu, bundle[Min(MemorySlots(c))])
        BY <1>3, <2>3, <3>1, RequestFacts DEF cpu
      <3>3. Min(MemorySlots(c)) \in ActiveSlots(cpu, bundle)
        BY <1>1, <3>2 DEF MemorySlots
      <3> QED
        BY <2>3, <3>2, <3>3 DEF HasUnreadySources
    <2> HIDE DEF bundle
    <2>4. /\ StepChecked(cpu, programs[c]).cpu.cache = cpu.cache
          /\ StepChecked(cpu, programs[c]).cpu.memory = cpu.memory
      BY <1>1, <1>2, <2>2, <2>3, StepWithoutAccess
    <2> QED
      BY <1>1, <2>1, <2>4
  <1>4. CASE RequestOf(c) # NoReq
    <2> DEFINE start   == AtStart(c, memory)
               program == <<Rest(c)>>
               inner   == StepChecked(start, program)
               pc      == IF Stepped(inner.result) THEN cpu.pc + 1 ELSE cpu.pc
    <2>1. /\ IsCpu(start) /\ start.cache = cpu.cache /\ start.memory = cpu.memory
          /\ program \in Seq(Seq(Syllable))
          /\ program[start.pc + 1] = Rest(c)
          /\ DOMAIN Rest(c) = DOMAIN bundle
          /\ \A s \in DOMAIN Rest(c) :
               Rest(c)[s] = IF s = RequestOf(c).slot THEN Nop ELSE bundle[s]
      BY <1>4, RestFacts DEF NewCpu, cpu
    <2>2. /\ ~Finished(cpus[c], programs[c])
          /\ RequestOf(c).slot \in DOMAIN bundle
          /\ bundle[RequestOf(c).slot].op \in MemoryOps
      BY <1>4, RequestFacts DEF MemorySlots
    <2>3. Nop.op \notin MemoryOps
      BY DEF Nop, MemoryOps, Loads, Stores
    <2>4. \A s \in DOMAIN Rest(c) : Rest(c)[s].op \notin MemoryOps
      BY <1>2, <2>1, <2>2, <2>3 DEF AccessIsSettled
    <2>5. AccessIsSettled(Rest(c)) /\ ActiveSlots(start, Rest(c)) \subseteq DOMAIN Rest(c)
      BY <2>4 DEF AccessIsSettled, ActiveSlots
    <2>6. inner.cpu.cache = start.cache /\ inner.cpu.memory = start.memory
      <3> HIDE DEF start, program
      <3> QED
        BY <2>1, <2>4, <2>5, StepWithoutAccess
    <2>7. inner = [result |-> inner.result, cpu |-> inner.cpu] /\ IsCpu(inner.cpu)
      <3> HIDE DEF start, program
      <3> QED
        BY <2>1, StepCheckedEffect
    <2>8. StepOf(c, memory) = [inner EXCEPT !.cpu = [inner.cpu EXCEPT !.pc = pc]]
      BY <1>1, <1>4 DEF StepOf, StepBesideRequest, AtStart, Rest, cpu
    <2> HIDE DEF inner, pc, start
    <2>9. StepOf(c, memory).cpu = [inner.cpu EXCEPT !.pc = pc]
      BY <2>7, <2>8
    <2>10. StepOf(c, memory).cpu.cache = inner.cpu.cache
           /\ StepOf(c, memory).cpu.memory = inner.cpu.memory
      BY <2>7, <2>9 DEF IsCpu, NewCpu
    <2> QED
      BY <1>1, <2>1, <2>6, <2>10
  <1> QED
    BY <1>3, <1>4

\* The caches and the memory of the system before the call.
Unmoved(s) == s.memory = memory /\ \A c \in Cpus : s.cpus[c].cache = cpus[c].cache

LEMMA OneMoreUnmoved ==
    ASSUME SysInv, Disciplined, NEW n \in Cpus, NEW s, FirstStepped(n, s), Unmoved(s)
    PROVE  Unmoved(StepCpu(s, n))
  <1> DEFINE step == StepOf(n, memory)
  <1>1. s.cpus[n] = cpus[n] /\ s.memory = memory
    BY BusAssumption DEF FirstStepped, Cpus, Unmoved
  <1>2. StepCpu(s, n) =
          [cpus     |-> [s.cpus EXCEPT ![n] = step.cpu],
           memory   |-> IF Stepped(step.result) THEN step.cpu.memory ELSE s.memory,
           progress |-> s.progress \/ Stepped(step.result),
           panicked |-> s.panicked \/ step.result = "Fault"]
    BY <1>1 DEF StepCpu, StepOf
  <1>3. step.cpu.cache = cpus[n].cache /\ step.cpu.memory = memory
    BY StepOfWithoutAccess
  <1> HIDE DEF step
  <1> DEFINE all == [s.cpus EXCEPT ![n] = step.cpu]
             m   == IF Stepped(step.result) THEN step.cpu.memory ELSE s.memory
  <1>4. m = memory
    BY <1>1, <1>3
  <1>5. StepCpu(s, n).cpus = all /\ StepCpu(s, n).memory = m
    BY <1>2
  <1>6. s.cpus = [c \in Cpus |-> s.cpus[c]]
    BY DEF FirstStepped, IsSystem
  <1>7. ASSUME NEW c \in Cpus PROVE all[c].cache = cpus[c].cache
    BY <1>3, <1>6 DEF Unmoved
  <1> HIDE DEF all, m
  <1> QED
    BY <1>4, <1>5, <1>7 DEF Unmoved

LEMMA AllSteppedUnmoved ==
    ASSUME SysInv, Disciplined
    PROVE  Unmoved(AllStepped)
  <1> DEFINE S == {k \in Nat : k <= NumCpus => Unmoved(SteppedUpTo[k])}
  <1>0. NumCpus \in Nat
    BY BusAssumption
  <1>1. 0 \in S
    <2>1. SteppedUpTo[0].cpus = cpus /\ SteppedUpTo[0].memory = memory
      BY SteppedUpToDef
    <2> QED
      BY <2>1 DEF Unmoved
  <1>2. ASSUME NEW k \in Nat, k \in S PROVE k + 1 \in S
    <2>1. ASSUME k + 1 <= NumCpus PROVE Unmoved(SteppedUpTo[k + 1])
      <3>1. k \in Cpus /\ Unmoved(SteppedUpTo[k])
        BY <1>0, <1>2, <2>1 DEF Cpus
      <3>2. k + 1 \in 1 .. NumCpus /\ (k + 1) - 1 = k /\ k \in 0 .. NumCpus
        BY <1>0, <2>1
      <3>3. SteppedUpTo[k + 1] = StepCpu(SteppedUpTo[k], k)
        BY <3>2, SteppedUpToDef
      <3>4. FirstStepped(k, SteppedUpTo[k])
        BY <3>2, SteppedUpToEffect
      <3> QED
        BY <3>1, <3>3, <3>4, OneMoreUnmoved
    <2> QED
      BY <2>1
  <1> HIDE DEF S
  <1>3. NumCpus \in S
    BY <1>0, <1>1, <1>2, NatSetInduction
  <1> QED
    BY <1>0, <1>3 DEF S, AllStepped

\* The definitions that the memory side shares with the system.
LEMMA MemorySideOperators ==
    /\ MemorySide!Cpus = Cpus
    /\ \A n : MemorySide!BusOwner(n) = BusOwner(n)
    /\ MemorySide!NewCache = NewCache
    /\ MemorySide!ZeroMemory = ZeroMemory
    /\ MemorySide!Bytes = Bytes
  BY DEF MemorySide!Cpus, Cpus, MemorySide!BusOwner, BusOwner, MemorySide!NewCache, NewCache,
         MemorySide!LineIndices, LineIndices, MemorySide!NLines, NLines,
         MemorySide!InvalidLine, InvalidLine, MemorySide!ZeroMemory, ZeroMemory,
         MemorySide!Addresses, Addresses, MemorySide!Bytes, Bytes

LEMMA MemorySideTransitions ==
    ASSUME NEW lines, NEW mem, NEW addr, NEW data, NEW w
    PROVE  /\ MemorySide!AccessLoad(lines, addr) = AccessLoad(lines, addr)
           /\ MemorySide!StoreCommitTransition(lines, addr, w)
                = StoreCommitTransition(lines, addr, w)
           /\ MemorySide!StoreBytes(mem, addr, data) = StoreBytes(mem, addr, data)
  <1>1. /\ MemorySide!LineIndices = LineIndices
        /\ MemorySide!CacheIndex(addr) = CacheIndex(addr)
        /\ MemorySide!CacheTag(addr) = CacheTag(addr)
        /\ MemorySide!InvalidLine(CacheTag(addr)) = InvalidLine(CacheTag(addr))
    BY DEF MemorySide!LineIndices, LineIndices, MemorySide!NLines, NLines,
           MemorySide!CacheIndex, CacheIndex, MemorySide!CacheTag, CacheTag,
           MemorySide!InvalidLine, InvalidLine
  <1>2. \A line : MemorySide!SetLine(lines, addr, line) = SetLine(lines, addr, line)
    BY <1>1 DEF MemorySide!SetLine, SetLine
  <1>3. \A s : MemorySide!FilledLine(addr, s) = FilledLine(addr, s)
    BY <1>1 DEF MemorySide!FilledLine, FilledLine
  <1>4. /\ MemorySide!AccessLoad(lines, addr) = AccessLoad(lines, addr)
        /\ MemorySide!AccessStore(lines, addr) = AccessStore(lines, addr)
    BY <1>2, <1>3 DEF MemorySide!AccessLoad, AccessLoad, MemorySide!AccessStore, AccessStore
  <1>5. MemorySide!Holds(lines, addr) <=> Holds(lines, addr)
    BY <1>1 DEF MemorySide!Holds, Holds
  <1>6. MemorySide!StoreCommitTransition(lines, addr, w) = StoreCommitTransition(lines, addr, w)
    BY <1>1, <1>2, <1>4, <1>5 DEF MemorySide!StoreCommitTransition, StoreCommitTransition
  <1>7. \A a, old : MemorySide!ByteAfter(a, addr, data, old) = ByteAfter(a, addr, data, old)
    BY DEF MemorySide!ByteAfter, ByteAfter
  <1>8. MemorySide!StoreBytes(mem, addr, data) = StoreBytes(mem, addr, data)
    BY <1>7 DEF MemorySide!StoreBytes, StoreBytes, MemorySide!Addresses, Addresses
  <1> QED
    BY <1>4, <1>6, <1>8

\* The caches and the memory after a granted load.
LEMMA LoadMoves ==
    ASSUME NEW s, IsSystem(s), NEW o \in Cpus, NEW req, req.cpu = o, NEW syl \in Syllable,
           req.dst = syl.dst, NEW t, t = CommitLoad(s, req), cycle \in Nat
    PROVE  /\ t.memory = s.memory
           /\ \A c \in Cpus :
                t.cpus[c].cache = IF c = o THEN AccessLoad(s.cpus[c].cache, req.address)
                                  ELSE s.cpus[c].cache
  <1> DEFINE b       == s.cpus[o]
             latency == OutcomeLatency(PeekOutcome(b.cache, req.address))
             value   == LoadBytes(s.memory, req.address, req.width)
             lines   == AccessLoad(b.cache, req.address)
             cached  == [b EXCEPT !.cache = lines]
             filled  == [cached EXCEPT !.memory = s.memory]
             written == WriteGpr(filled, syl.dst, value)
             d       == SetReady(written, syl.dst, LoadReadyAt(latency))
  <1>1. t = [s EXCEPT !.progress = TRUE, !.cpus = [s.cpus EXCEPT ![o] = d]]
    <2>1. filled = [b EXCEPT !.cache = lines, !.memory = s.memory]
      OBVIOUS
    <2> QED
      BY <2>1 DEF CommitLoad
  <1>2. IsCpu(b) /\ s.cpus = [c \in Cpus |-> s.cpus[c]]
    BY DEF IsSystem
  <1>3. latency \in Nat
    BY LoadLatencyIsANumber
  <1>4. lines = [k \in LineIndices |-> lines[k]]
    BY <1>2, AccessKeepsTheLines DEF IsCpu
  <1> HIDE DEF b, latency, value, lines
  <1>5. LoadReadyAt(latency) \in Nat
    BY <1>3 DEF LoadReadyAt
  <1>6. IsCpu(cached) /\ cached.cache = lines
    BY <1>2, <1>4 DEF IsCpu, NewCpu
  <1> HIDE DEF cached
  <1>7. IsCpu(filled) /\ filled.cache = lines
    BY <1>6 DEF IsCpu, NewCpu
  <1> HIDE DEF filled
  <1>8. IsCpu(written) /\ written.cache = lines
    BY <1>7, WriteGprEffect DEF NewCpu
  <1> HIDE DEF written
  <1>9. d.cache = lines
    BY <1>5, <1>8, SetReadyEffect DEF NewCpu
  <1> HIDE DEF d
  <1> DEFINE all == [s.cpus EXCEPT ![o] = d]
  <1>10. all[o] = d /\ \A c \in Cpus : c # o => all[c] = s.cpus[c]
    BY <1>2
  <1> HIDE DEF all
  <1>11. t.memory = s.memory /\ t.cpus = all
    BY <1>1 DEF IsSystem, all
  <1> QED
    BY <1>9, <1>10, <1>11 DEF b, lines

\* The caches and the memory after a granted store.
LEMMA StoreMoves ==
    ASSUME NEW s, IsSystem(s), NEW req, NEW t, t = CommitStore(s, req)
    PROVE  /\ t.memory = StoreBytes(s.memory, req.address, ToBytes(req.value, req.width))
           /\ \A c \in Cpus :
                t.cpus[c].cache =
                   StoreCommitTransition(s.cpus[c].cache, req.address, c = req.cpu)
  <1> DEFINE written == StoreBytes(s.memory, req.address, ToBytes(req.value, req.width))
             lines(c) == StoreCommitTransition(s.cpus[c].cache, req.address, c = req.cpu)
             all == [c \in Cpus |->
                       [s.cpus[c] EXCEPT
                          !.cache = lines(c),
                          !.memory = IF c = req.cpu THEN written ELSE @]]
  <1>1. t.memory = written /\ t.cpus = all
    <2>1. t = [s EXCEPT !.progress = TRUE, !.memory = written, !.cpus = all]
      BY DEF CommitStore
    <2> HIDE DEF all, written
    <2> QED
      BY <2>1 DEF IsSystem
  <1>2. ASSUME NEW c \in Cpus PROVE all[c].cache = lines(c)
    <2> DEFINE b == s.cpus[c]
               l == lines(c)
               m == IF c = req.cpu THEN written ELSE b.memory
    <2>1. IsCpu(b)
      BY DEF IsSystem
    <2>2. all[c] = [b EXCEPT !.cache = l, !.memory = m]
      OBVIOUS
    <2> HIDE DEF all, b, l, m
    <2>3. all[c].cache = l
      BY <2>1, <2>2 DEF IsCpu, NewCpu
    <2> QED
      BY <2>3 DEF l
  <1> HIDE DEF lines, all, written
  <1>3. \A c \in Cpus : t.cpus[c].cache = lines(c)
    BY <1>1, <1>2
  <1> QED
    BY <1>1, <1>3 DEF lines, written

\* What the bus grants is an access of the memory side.
LEMMA GrantIsAnAccess ==
    ASSUME SysInv, TypeOK, Granted # NoReq, InBounds(Granted.address, Granted.width)
    PROVE  /\ Granted \in Requests
           /\ <<Granted.address, Granted.width>> \in Accesses
           /\ Granted.cpu \in Cpus /\ Granted.width \in {1, 2, 4, 8} /\ Granted.value \in Nat
           /\ Granted.kind \in {"load", "store"}
  <1>1. Granted \in Requests
    BY OwnerIsACpu, RequestType DEF Granted, SysInv
  <1> DEFINE req == Granted
  <1>2. InBounds(req.address, req.width)
    OBVIOUS
  <1> HIDE DEF req
  <1>3. /\ req.address \in Nat /\ req.width \in {1, 2, 4, 8} /\ req.value \in Nat
        /\ req.cpu \in Cpus /\ req.kind \in {"load", "store"}
    BY <1>1, WordFacts DEF Requests, Words, req
  <1>4. req.address \in Addresses
    BY <1>2, <1>3, MemoryAssumption DEF InBounds, Addresses
  <1>5. <<req.address, req.width>> \in Accesses
    BY <1>2, <1>3, <1>4 DEF Accesses
  <1> QED
    BY <1>1, <1>3, <1>5 DEF req

\* What the memory side sees of a call that did not panic.
Caches(all) == [c \in Cpus |-> all[c].cache]

LEMMA GrantOfNothing ==
    ASSUME SysInv, Disciplined, NEW after, after = Committed(AllStepped), ~after.panicked,
           Granted = NoReq
    PROVE  Unmoved(after)
  <1>1. after = AllStepped
    BY CommittedEffect
  <1> QED
    BY <1>1, AllSteppedUnmoved

LEMMA GrantOfSomething ==
    ASSUME SysInv, Disciplined, TypeOK, NEW after, after = Committed(AllStepped),
           ~after.panicked, Granted # NoReq
    PROVE  LET req == Granted
           IN  /\ <<req.address, req.width>> \in Accesses
               /\ \/ /\ req.kind = "load" /\ after.memory = memory
                     /\ \A c \in Cpus : after.cpus[c].cache =
                          IF c = req.cpu THEN AccessLoad(cpus[c].cache, req.address)
                          ELSE cpus[c].cache
                  \/ /\ req.kind = "store"
                     /\ after.memory =
                          StoreBytes(memory, req.address, ToBytes(req.value, req.width))
                     /\ \A c \in Cpus : after.cpus[c].cache =
                          StoreCommitTransition(cpus[c].cache, req.address, c = req.cpu)
  <1> DEFINE req == Granted
             s   == AllStepped
  <1>1. IsSystem(s) /\ Unmoved(s)
    BY AllSteppedEffect, AllSteppedUnmoved
  <1>2. ~s.panicked /\ after = Commit(s, req)
    BY CommittedEffect DEF Committed
  <1> HIDE DEF s
  <1>3. InBounds(req.address, req.width)
    <2>1. ASSUME ~InBounds(req.address, req.width) PROVE FALSE
      <3>1. after = [s EXCEPT !.panicked = TRUE]
        BY <1>2, <2>1 DEF Commit
      <3>2. after.panicked = TRUE
        BY <1>1, <3>1 DEF IsSystem
      <3> QED
        BY <3>2
    <2> QED
      BY <2>1
  <1>4. <<req.address, req.width>> \in Accesses /\ req.kind \in {"load", "store"}
    BY <1>3, GrantIsAnAccess
  <1>5. /\ req.cpu \in Cpus /\ GrantedSyllable \in Syllable /\ req.dst = GrantedSyllable.dst
    BY GrantedFacts
  <1>6. req # NoReq
    OBVIOUS
  <1> HIDE DEF req
  <1>7. CASE req.kind = "load"
    <2>1. after = CommitLoad(s, req)
      BY <1>2, <1>3, <1>6, <1>7 DEF Commit, req
    <2>2. cycle \in Nat
      BY DEF SysInv
    <2>3. /\ after.memory = s.memory
          /\ \A c \in Cpus :
                after.cpus[c].cache =
                   IF c = req.cpu THEN AccessLoad(s.cpus[c].cache, req.address)
                   ELSE s.cpus[c].cache
      BY <1>1, <1>5, <2>1, <2>2, LoadMoves
    <2> QED
      BY <1>1, <1>4, <1>7, <2>3 DEF Unmoved, req
  <1>8. CASE req.kind = "store"
    <2>1. after = CommitStore(s, req)
      BY <1>2, <1>3, <1>6, <1>8 DEF Commit, req
    <2>2. /\ after.memory = StoreBytes(s.memory, req.address, ToBytes(req.value, req.width))
          /\ \A c \in Cpus :
                after.cpus[c].cache =
                   StoreCommitTransition(s.cpus[c].cache, req.address, c = req.cpu)
      BY <1>1, <2>1, StoreMoves
    <2> QED
      BY <1>1, <1>4, <1>8, <2>2 DEF Unmoved, req
  <1> QED
    BY <1>4, <1>7, <1>8

\* A call of step_global is a step of the memory side or leaves it alone.
LEMMA CallOnMemorySide ==
    ASSUME SysInv, TypeOK, Disciplined, Next
    PROVE  MemorySide!Next \/ UNCHANGED MemorySide!vars
  <1> DEFINE after == Committed(AllStepped)
             req   == Granted
             before == Caches(cpus)
             later  == Caches(cpus')
  <1>1. /\ Progress(after) \/ NoProgress(after) \/ Panic(after)
        /\ cycle < MaxCycle
    BY DEF Next, StepGlobal
  <1>2. UNCHANGED MemorySide!vars <=>
          later = before /\ UNCHANGED <<memory, cycle>> /\ BusGrant' = BusGrant
    BY DEF MemorySide!vars, Caches
  <1>3. CASE Panic(after)
    <2>1. UNCHANGED <<cpus, memory, cycle, grant>>
      BY <1>3 DEF Panic
    <2>2. BusGrant' = BusGrant
      BY <2>1 DEF BusGrant
    <2> QED
      BY <1>2, <2>1, <2>2 DEF Caches
  <1>4. CASE NoProgress(after)
    <2>1. /\ ~after.panicked /\ ~after.progress /\ cycle' = cycle
          /\ cpus' = after.cpus /\ memory' = after.memory /\ grant' = Granted
      BY <1>4 DEF NoProgress
    <2>2. Granted = NoReq
      BY <2>1, CommittedEffect
    <2>3. Unmoved(after)
      BY <2>1, <2>2, GrantOfNothing
    <2> HIDE DEF after
    <2>4. later = before /\ memory' = memory
      BY <2>1, <2>3 DEF Unmoved, Caches
    <2>5. BusGrant' = MemorySide!NoReq
      BY <2>1, <2>2 DEF BusGrant, MemorySide!NoReq
    <2>6. MemorySide!Quiescent
      BY <2>1, <2>4, <2>5 DEF MemorySide!Quiescent, Caches
    <2> QED
      BY <2>6 DEF MemorySide!Next
  <1>5. CASE Progress(after)
    <2>1. /\ ~after.panicked /\ cycle' = cycle + 1 /\ memory' = after.memory /\ grant' = Granted
          /\ cpus' = [c \in Cpus |-> [after.cpus[c] EXCEPT !.cycle = cycle + 1]]
      BY <1>5 DEF Progress
    <2>2. ASSUME NEW c \in Cpus PROVE cpus'[c].cache = after.cpus[c].cache
      <3> DEFINE b == after.cpus[c]
      <3>1. IsCpu(b)
        <4>1. SystemTyped(after)
          BY CommittedType
        <4> HIDE DEF after
        <4>2. b \in CpuStates
          BY <4>1 DEF SystemTyped
        <4> HIDE DEF b
        <4> QED
          BY <4>2, StateIsCpu
      <3>2. cpus'[c] = [b EXCEPT !.cycle = cycle + 1]
        BY <2>1
      <3> HIDE DEF b, after
      <3> QED
        BY <3>1, <3>2 DEF IsCpu, NewCpu, b
    <2>3. MemorySide!NextCycle
      BY <1>1, <2>1 DEF MemorySide!NextCycle
    <2>4. CASE Granted = NoReq
      <3>1. Unmoved(after)
        BY <2>1, <2>4, GrantOfNothing
      <3> HIDE DEF after
      <3>2. later = before /\ memory' = memory
        BY <2>1, <2>2, <3>1 DEF Unmoved, Caches
      <3>3. BusGrant' = MemorySide!NoReq
        BY <2>1, <2>4 DEF BusGrant, MemorySide!NoReq
      <3>4. MemorySide!GrantNone
        BY <2>3, <3>2, <3>3 DEF MemorySide!GrantNone, Caches
      <3> QED
        BY <3>4 DEF MemorySide!Next
    <2>5. CASE Granted # NoReq
      <3> DEFINE a == <<req.address, req.width>>
      <3>1. /\ a \in Accesses
            /\ \/ /\ req.kind = "load" /\ after.memory = memory
                  /\ \A c \in Cpus : after.cpus[c].cache =
                       IF c = req.cpu THEN AccessLoad(cpus[c].cache, req.address)
                       ELSE cpus[c].cache
               \/ /\ req.kind = "store"
                  /\ after.memory =
                       StoreBytes(memory, req.address, ToBytes(req.value, req.width))
                  /\ \A c \in Cpus : after.cpus[c].cache =
                       StoreCommitTransition(cpus[c].cache, req.address, c = req.cpu)
        BY <2>1, <2>5, GrantOfSomething
      <3>2. req.cpu = BusOwner(cycle) /\ req.cpu \in Cpus
        BY <2>5, GrantedFacts
      <3>3. grant' = req /\ req # NoReq
        BY <2>1, <2>5
      <3>4. req.width \in {1, 2, 4, 8} /\ req.value \in Nat
        <4>1. req \in Requests
          BY <2>5, OwnerIsACpu, RequestType DEF Granted, SysInv
        <4> HIDE DEF req
        <4> QED
          BY <4>1, WordFacts DEF Requests, Words
      <3> HIDE DEF req, after
      <3>5. CASE req.kind = "load"
        <4> DEFINE g == [kind |-> "load", cpu |-> req.cpu, address |-> req.address,
                         width |-> req.width]
        <4>1. BusGrant' = g
          BY <3>3, <3>5 DEF BusGrant
        <4>2. g \in MemorySide!LoadReqsFor(a)
          BY <3>2, MemorySideOperators DEF MemorySide!LoadReqsFor
        <4>3. /\ after.memory = memory
              /\ \A c \in Cpus : after.cpus[c].cache =
                   IF c = req.cpu THEN AccessLoad(cpus[c].cache, req.address)
                   ELSE cpus[c].cache
          BY <3>1, <3>5
        <4>4. later = [before EXCEPT ![req.cpu] = AccessLoad(@, req.address)]
          BY <2>2, <3>2, <4>3 DEF Caches
        <4>5. memory' = memory
          BY <2>1, <4>3
        <4>6. MemorySide!AccessLoad(before[req.cpu], req.address)
                = AccessLoad(before[req.cpu], req.address)
          BY MemorySideTransitions
        <4>7. MemorySide!BusOwner(cycle) = BusOwner(cycle)
          BY MemorySideOperators
        <4>8. MemorySide!GrantLoad(BusGrant')
          BY <2>3, <3>2, <4>1, <4>4, <4>5, <4>6, <4>7 DEF MemorySide!GrantLoad, Caches
        <4> HIDE DEF g, a
        <4> QED
          <5>1. BusGrant' \in MemorySide!LoadReqsFor(a)
            BY <4>1, <4>2
          <5> QED
            BY <3>1, <4>8, <5>1 DEF MemorySide!Next
      <3>6. CASE req.kind = "store"
        <4> DEFINE data == ToBytes(req.value, req.width)
                   g == [kind |-> "store", cpu |-> req.cpu, address |-> req.address,
                         width |-> req.width, data |-> data]
        <4>1. BusGrant' = g
          BY <3>3, <3>6 DEF BusGrant
        <4>2. g \in MemorySide!StoreReqsFor(a)
          <5>1. data \in [0 .. req.width - 1 -> Bytes]
            BY <3>4, ValueBytes
          <5> HIDE DEF data
          <5> QED
            BY <3>2, <5>1, MemorySideOperators DEF MemorySide!StoreReqsFor
        <4> HIDE DEF data
        <4>3. /\ after.memory = StoreBytes(memory, req.address, data)
              /\ \A c \in Cpus : after.cpus[c].cache =
                   StoreCommitTransition(cpus[c].cache, req.address, c = req.cpu)
          BY <3>1, <3>6 DEF data
        <4>4. ASSUME NEW c \in Cpus
              PROVE  later[c] = MemorySide!StoreCommitTransition(before[c], g.address, c = g.cpu)
          <5>1. later[c] = StoreCommitTransition(cpus[c].cache, req.address, c = req.cpu)
            BY <2>2, <4>3 DEF Caches
          <5>2. before[c] = cpus[c].cache
            BY DEF Caches
          <5> HIDE DEF later, before
          <5> QED
            BY <5>1, <5>2, MemorySideTransitions
        <4>5. memory' = MemorySide!StoreBytes(memory, g.address, g.data)
          <5>1. MemorySide!StoreBytes(memory, req.address, data)
                  = StoreBytes(memory, req.address, data)
            BY MemorySideTransitions
          <5>2. memory' = StoreBytes(memory, req.address, data)
            BY <2>1, <4>3
          <5> QED
            BY <5>1, <5>2
        <4>6. MemorySide!BusOwner(cycle) = BusOwner(cycle) /\ MemorySide!Cpus = Cpus
          BY MemorySideOperators
        <4>7. MemorySide!GrantStore(BusGrant')
          BY <2>3, <3>2, <4>1, <4>4, <4>5, <4>6 DEF MemorySide!GrantStore, Caches
        <4> HIDE DEF g, a
        <4> QED
          <5>1. BusGrant' \in MemorySide!StoreReqsFor(a)
            BY <4>1, <4>2
          <5> QED
            BY <3>1, <4>7, <5>1 DEF MemorySide!Next
      <3> QED
        BY <3>1, <3>5, <3>6
    <2> QED
      BY <2>4, <2>5
  <1> QED
    BY <1>1, <1>3, <1>4, <1>5

\* The memory side of a disciplined system implements module Coherence, so its
\* theorems (one owner per line, bytes changed only by the owner of the bus, and
\* the rest) hold of step_global.
THEOREM ImplementsCoherenceAlways == Spec => ImplementsCoherence
  <1>1. Init => MemorySide!Init
    <2> SUFFICES ASSUME Init PROVE MemorySide!Init
      OBVIOUS
    <2>1. \A c \in Cpus : cpus[c].cache = NewCache
      BY DEF Init, NewCpu
    <2>2. BusGrant = MemorySide!NoReq
      BY DEF Init, BusGrant, MemorySide!NoReq
    <2> QED
      BY <2>1, <2>2, MemorySideOperators DEF MemorySide!Init, Init
  <1>2. SysInv /\ TypeOK /\ [Next]_vars => [Disciplined => MemorySide!Next]_(MemorySide!vars)
    <2>1. UNCHANGED vars => UNCHANGED MemorySide!vars
      BY DEF vars, MemorySide!vars, BusGrant
    <2> QED
      BY <2>1, CallOnMemorySide
  <1> QED
    BY <1>1, <1>2, SysInvAlways, SystemTypeCorrect, PTL DEF Spec, ImplementsCoherence

\* Every behaviour of a disciplined system is one of module Coherence.
THEOREM DisciplinedSystemsAreCoherent == Spec /\ Disciplined => MemorySide!Spec
  <1>1. Disciplined /\ [Next]_vars => Disciplined'
    BY DEF Next, StepGlobal, vars, Disciplined
  <1> QED
    BY <1>1, ImplementsCoherenceAlways, PTL
       DEF Spec, ImplementsCoherence, MemorySide!Spec

-----------------------------------------------------------------------------
(* CPUs that are done. *)

LEMMA FinishedStays ==
    ASSUME SysInv, [Next]_vars, NEW c \in Cpus, Finished(cpus[c], programs[c])
    PROVE  /\ \A f \in {"gprs", "preds", "ready", "pc", "halted"} :
                 cpus'[c][f] = cpus[c][f]
           /\ OnlyLoses(cpus[c].cache, cpus'[c].cache)
           /\ Finished(cpus'[c], programs'[c])
  <1>0. IsCpu(cpus[c])
    BY DEF SysInv
  <1>1. CASE UNCHANGED <<programs, cpus>>
    <2>1. OnlyLoses(cpus[c].cache, cpus[c].cache)
      BY <1>0, PeersOnlyLose DEF IsCpu
    <2> QED
      BY <1>1, <2>1
  <1>2. CASE Next /\ Returns
    <2>1. PICK m : CallFor(c, m)
      BY <1>2 DEF Returns
    <2> DEFINE b == Synced(cpus[c], m)
               d == cpus'[c]
    <2>2. StepOf(c, m).cpu = b /\ CpuOfCall(c, StepOf(c, m), d)
      BY <2>1 DEF CallFor, StepEffect
    <2>3. RequestOf(c) = NoReq
      BY RequestFacts
    <2>4. /\ d.gprs = b.gprs /\ d.preds = b.preds /\ d.ready = b.ready
          /\ d.pc = b.pc /\ d.halted = b.halted
          /\ OnlyLoses(b.cache, d.cache)
      BY <2>2, <2>3 DEF CpuOfCall
    <2>5. /\ b.gprs = cpus[c].gprs /\ b.preds = cpus[c].preds /\ b.ready = cpus[c].ready
          /\ b.pc = cpus[c].pc /\ b.halted = cpus[c].halted /\ b.cache = cpus[c].cache
      BY <1>0, SyncedEffect DEF SysInv
    <2>6. programs' = programs
      BY <1>2, CallCases
    <2> HIDE DEF b, d
    <2>7. Finished(d, programs[c])
      BY <2>4, <2>5 DEF Finished
    <2> QED
      BY <2>4, <2>5, <2>6, <2>7 DEF d
  <1> QED
    BY <1>1, <1>2, CallCases DEF vars, Unwinds

\* A CPU that is done stays done, and keeps everything but lines of its cache.
THEOREM FinishedCpusAreInertAlways == Spec => FinishedCpusAreInert
  <1>1. SysInv /\ [Next]_vars =>
          [\A c \in Cpus : Finished(cpus[c], programs[c]) =>
             /\ \A f \in {"gprs", "preds", "ready", "pc", "halted"} :
                    cpus'[c][f] = cpus[c][f]
             /\ \A k \in LineIndices :
                    \/ cpus'[c].cache[k] = cpus[c].cache[k]
                    \/ cpus'[c].cache[k] = InvalidLine(cpus[c].cache[k].tag)]_vars
    BY FinishedStays DEF OnlyLoses
  <1> QED
    BY <1>1, SysInvAlways, PTL DEF Spec, FinishedCpusAreInert

\* Once step_global has returned false no CPU has anything left to do.
QuietInv ==
    status = "quiescent" =>
        \A c \in Cpus : /\ Finished(cpus[c], programs[c])
                        /\ cpus[c].cycle = cycle /\ cpus[c].memory = memory

LEMMA BecomesQuiet ==
    ASSUME SysInv, Returns, programs' = programs, status' = "quiescent", NEW c \in Cpus
    PROVE  /\ Finished(cpus'[c], programs[c])
           /\ cpus'[c].cycle = cycle' /\ cpus'[c].memory = memory'
           /\ Finished(cpus[c], programs[c]) => cpus'[c] = Synced(cpus[c], memory)
  <1>1. cycle' = cycle /\ memory' = memory
    BY DEF Returns
  <1>2. PICK m : CallFor(c, m)
    BY DEF Returns
  <1> DEFINE step == StepOf(c, m)
  <1>3. /\ StepEffect(c, memory, step) /\ cpus'[c] = step.cpu
        /\ step.result # "Fault" /\ ~Stepped(step.result)
    BY <1>2 DEF CallFor
  <1> HIDE DEF step
  <1>4. step.result = "Halted"
    BY <1>3 DEF StepEffect, StepResults, Stepped
  <1>5. step.cpu.cycle = cycle /\ step.cpu.memory = memory
    BY <1>3, <1>4 DEF StepEffect
  <1>6. ~Finished(cpus[c], programs[c]) => step.cpu.halted
    BY <1>3, <1>4 DEF StepEffect
  <1>7. Finished(cpus[c], programs[c]) =>
          step.cpu = Synced(cpus[c], memory) /\ Finished(step.cpu, programs[c])
    BY <1>3, SyncedIsFinished DEF StepEffect, SysInv
  <1> QED
    BY <1>1, <1>3, <1>5, <1>6, <1>7 DEF Finished

LEMMA StaysQuiet ==
    ASSUME SysInv, QuietInv, status = "quiescent", Next
    PROVE  status' = "quiescent" /\ UNCHANGED <<cpus, memory, cycle>>
  <1>1. \A c \in Cpus : /\ Finished(cpus[c], programs[c]) /\ RequestOf(c) = NoReq
                        /\ cpus[c].cycle = cycle /\ cpus[c].memory = memory
    BY RequestFacts DEF QuietInv
  <1>2. Granted = NoReq /\ ~SomeUnfinished
    BY <1>1, OwnerIsACpu DEF Granted, SomeUnfinished, SysInv
  <1>3. /\ Returns /\ programs' = programs
        /\ status' = "quiescent" /\ cycle' = cycle /\ memory' = memory /\ OnCpus(cpus')
    BY <1>2, CallCases DEF Unwinds, Returns
  <1>4. ASSUME NEW c \in Cpus PROVE cpus'[c] = cpus[c]
    <2> DEFINE b == cpus[c]
    <2>1. cpus'[c] = Synced(b, memory)
      BY <1>1, <1>3, BecomesQuiet
    <2>2. IsCpu(b) /\ b.cycle = cycle /\ b.memory = memory
      BY <1>1 DEF SysInv
    <2> HIDE DEF b
    <2>3. Synced(b, memory) = b
      <3> DEFINE d == [b EXCEPT !.cycle = cycle]
      <3>1. d = b
        BY <2>2 DEF IsCpu, NewCpu
      <3>2. [b EXCEPT !.memory = memory] = b
        BY <2>2 DEF IsCpu, NewCpu
      <3> QED
        BY <3>1, <3>2 DEF Synced
    <2> QED
      BY <2>1, <2>3 DEF b
  <1>5. cpus' = cpus
    BY <1>3, <1>4 DEF OnCpus, SysInv
  <1> QED
    BY <1>3, <1>5

LEMMA QuietInvStep == SysInv /\ QuietInv /\ [Next]_vars => QuietInv'
  <1> SUFFICES ASSUME SysInv, QuietInv, [Next]_vars, status' = "quiescent", NEW c \in Cpus
               PROVE  /\ Finished(cpus'[c], programs'[c])
                      /\ cpus'[c].cycle = cycle' /\ cpus'[c].memory = memory'
    BY DEF QuietInv
  <1>1. CASE UNCHANGED vars
    BY <1>1 DEF vars, QuietInv
  <1>2. CASE Next
    <2>1. Returns /\ programs' = programs
      BY <1>2, CallCases DEF Unwinds
    <2> QED
      BY <2>1, BecomesQuiet
  <1> QED
    BY <1>1, <1>2

LEMMA QuietInvAlways == Spec => [](SysInv /\ QuietInv)
  <1>1. Init => QuietInv
    BY DEF Init, QuietInv
  <1> QED
    BY <1>1, QuietInvStep, SysInvInit, SysInvStep, PTL DEF Spec

\* step_global returns false only when every CPU is done, and for good.
THEOREM QuiescenceIsFinalAlways == Spec => QuiescenceIsFinal
  <1>1. SysInv /\ QuietInv /\ [Next]_vars =>
          [/\ status' = "quiescent" => \A c \in Cpus : Finished(cpus'[c], programs[c])
           /\ status = "quiescent" => /\ status' = "quiescent"
                                      /\ UNCHANGED <<cpus, memory, cycle>>]_vars
    <2> SUFFICES ASSUME SysInv, QuietInv, Next
                 PROVE  /\ status' = "quiescent" =>
                             \A c \in Cpus : Finished(cpus'[c], programs[c])
                        /\ status = "quiescent" => /\ status' = "quiescent"
                                                   /\ UNCHANGED <<cpus, memory, cycle>>
      OBVIOUS
    <2>1. ASSUME status' = "quiescent", NEW c \in Cpus PROVE Finished(cpus'[c], programs[c])
      <3>1. Returns /\ programs' = programs
        BY <2>1, CallCases DEF Unwinds
      <3> QED
        BY <2>1, <3>1, BecomesQuiet
    <2> QED
      BY <2>1, StaysQuiet
  <1> QED
    BY <1>1, QuietInvAlways, PTL DEF Spec, QuiescenceIsFinal

-----------------------------------------------------------------------------
(* The static schedule, for every CPU. *)

\* What a call leaves in the scoreboard.
LEMMA CallScores ==
    ASSUME SysInv, NEW c \in Cpus, NEW m, CallFor(c, m), StepOf(c, m).result = "Issued",
           HitsAreNoWorse, NEW g \in GprIndices
    PROVE  \/ cpus'[c].ready[g] = cpus[c].ready[g]
           \/ \E s \in DOMAIN NextBundle(c) :
                /\ GprWriteDst(NextBundle(c)[s]) = g
                /\ StaticLatency(NextBundle(c)[s].op) \in Nat
                /\ cpus'[c].ready[g] \in Nat
                /\ cpus'[c].ready[g] <= cycle + 1 + StaticLatency(NextBundle(c)[s].op)
  <1> DEFINE bundle == NextBundle(c)
             b == StepOf(c, m).cpu
             d == cpus'[c]
             syl == bundle[RequestOf(c).slot]
  <1>1. /\ ~Finished(cpus[c], programs[c]) /\ OwnEffect(c, b)
        /\ CpuOfCall(c, StepOf(c, m), d)
    BY DEF CallFor, StepEffect
  <1>2. bundle \in Seq(Syllable) /\ cycle \in Nat
    BY <1>1, ProgramsAreSequences DEF SysInv
  <1>3. RequestOf(c) # NoReq => RequestOf(c).slot \in DOMAIN bundle
    BY RequestFacts
  <1> HIDE DEF bundle, b, d
  <1>4. ASSUME NEW s \in DOMAIN bundle, NEW latency \in ResultLatencies(bundle[s].op),
               d.ready[g] = cycle + 1 + latency
        PROVE  /\ StaticLatency(bundle[s].op) \in Nat
               /\ d.ready[g] \in Nat
               /\ d.ready[g] <= cycle + 1 + StaticLatency(bundle[s].op)
    <2>1. bundle[s].op \in Opcodes
      <3>1. bundle[s] \in Syllable
        BY <1>2
      <3> QED
        BY <3>1 DEF Syllable
    <2>2. /\ StaticLatency(bundle[s].op) \in Nat
          /\ latency \in Nat /\ latency <= StaticLatency(bundle[s].op)
      BY <2>1, StaticLatencyCovers, LatenciesAreNaturals
    <2> QED
      BY <1>2, <1>4, <2>2
  <1>5. CASE d.ready[g] = b.ready[g]
    <2>1. CASE b.ready[g] = cpus[c].ready[g]
      BY <1>5, <2>1 DEF d
    <2>2. CASE b.ready[g] # cpus[c].ready[g]
      <3>1. PICK s \in DOMAIN bundle :
              /\ GprWriteDst(bundle[s]) = g
              /\ \E latency \in ResultLatencies(bundle[s].op) :
                    b.ready[g] = cycle + 1 + latency
        BY <1>1, <2>2 DEF OwnEffect, bundle
      <3> QED
        BY <1>4, <1>5, <3>1 DEF bundle, d
    <2> QED
      BY <2>1, <2>2
  <1>6. CASE d.ready[g] # b.ready[g]
    <2>1. /\ RequestOf(c) # NoReq /\ syl.op \in Loads /\ g = syl.dst
          /\ \E latency \in ResultLatencies(syl.op) : d.ready[g] = cycle + 1 + latency
      BY <1>1, <1>6 DEF CpuOfCall, b, bundle
    <2>2. GprWriteDst(syl) = g
      BY <2>1 DEF GprWriteDst, GprWriters, Loads
    <2> QED
      BY <1>3, <1>4, <2>1, <2>2 DEF bundle, d
  <1> QED
    BY <1>5, <1>6

\* CPU c issues bundle k in cycle k, has nowhere to return to, and no register
\* is ready later than the verifier says.
OnTime(c) ==
    /\ cpus[c].pc = cycle
    /\ cpus[c].gprs[LinkReg] = 0
    /\ \A r \in GprIndices : \A n \in Nat :
         ReadyBy(programs[c], cycle + 1, r, n) => cpus[c].ready[r] <= n

KeepsSchedule(c) == Finished(cpus[c], programs[c]) \/ OnTime(c)

\* What Scheduled says of one CPU.
ScheduledCpu(c) ==
    StraightLine(programs[c]) /\ HitsAreNoWorse /\ SystemVerified(programs)

ScheduleInv == \A c \in Cpus : ScheduledCpu(c) => KeepsSchedule(c)

LEMMA AllScheduled == Scheduled => \A c \in Cpus : ScheduledCpu(c)
  BY DEF Scheduled, ScheduledCpu

\* What the verifier found of the bundle that CPU c issues next.
LEMMA ScheduledBundle ==
    ASSUME SysInv, NEW c \in Cpus, ScheduledCpu(c), ~Finished(cpus[c], programs[c])
    PROVE  /\ GoesForward(NextBundle(c))
           /\ \A s \in DOMAIN NextBundle(c) : NextBundle(c)[s].dst # LinkReg
           /\ BundleTimingOk(programs[c], cpus[c].pc + 1)
  <1>0. cpus[c].pc + 1 \in DOMAIN programs[c] /\ NextBundle(c) = programs[c][cpus[c].pc + 1]
    BY ProgramsAreSequences
  <1>1. \A s \in DOMAIN NextBundle(c) :
          NextBundle(c)[s].op \notin ControlOps \ {"Ret"} /\ NextBundle(c)[s].dst # LinkReg
    BY <1>0 DEF ScheduledCpu, StraightLine
  <1>2. NoReg # LinkReg
    BY CpuAssumption DEF NoReg
  <1>3. GoesForward(NextBundle(c))
    BY <1>1, <1>2 DEF GoesForward, GprWriteDst, ControlOps
  <1>4. VerifiedFor(programs[c], c)
    <2>1. c \in DOMAIN programs
      BY SystemAssumption DEF SysInv
    <2> QED
      BY <2>1 DEF ScheduledCpu, SystemVerified
  <1> QED
    BY <1>0, <1>1, <1>3, <1>4 DEF VerifiedFor

\* A CPU waits for nothing if what its next bundle reads is ready in time.
LEMMA ReadyInTime ==
    ASSUME SysInv, NEW c \in Cpus, ~Finished(cpus[c], programs[c]), NEW m,
           \A s \in DOMAIN NextBundle(c) : \A r \in TimedReads(NextBundle(c)[s]) :
               cpus[c].ready[r] <= cycle + 1
    PROVE  /\ \A s \in DOMAIN NextBundle(c) :
                ~UnreadySource(Synced(cpus[c], m), NextBundle(c)[s])
           /\ ~HasUnreadySources(Synced(cpus[c], m), NextBundle(c))
  <1> DEFINE cpu == Synced(cpus[c], m)
  <1>2. cpu.ready = cpus[c].ready /\ cpu.cycle = cycle /\ IsCpu(cpu) /\ cycle \in Nat
    BY SyncedEffect DEF SysInv
  <1> HIDE DEF cpu
  <1>3. ASSUME NEW s \in DOMAIN NextBundle(c), NEW r \in TimedReads(NextBundle(c)[s])
        PROVE  ~(cpu.ready[r] > cpu.cycle + 1)
    <2>1. r \in GprIndices
      BY DEF TimedReads
    <2>2. cpu.ready[r] <= cycle + 1 /\ cpu.ready[r] \in Nat
      BY <1>2, <2>1 DEF IsCpu
    <2> QED
      BY <1>2, <2>2
  <1>4. ASSUME NEW s \in DOMAIN NextBundle(c) PROVE ~UnreadySource(cpu, NextBundle(c)[s])
    BY <1>3 DEF UnreadySource, TimedReads
  <1>5. ASSUME NEW s \in DOMAIN NextBundle(c), NextBundle(c)[s].op = "Ret"
        PROVE  ~(cpu.ready[LinkReg] > cpu.cycle + 1)
    BY <1>3, <1>5, LinkIsAGpr DEF TimedReads
  <1>6. ActiveSlots(cpu, NextBundle(c)) \subseteq DOMAIN NextBundle(c)
    BY DEF ActiveSlots
  <1> QED
    BY <1>4, <1>5, <1>6 DEF HasUnreadySources, cpu

\* A CPU on time waits for nothing.
LEMMA OnTimeIsReady ==
    ASSUME SysInv, NEW c \in Cpus, ScheduledCpu(c), ~Finished(cpus[c], programs[c]),
           OnTime(c), NEW m
    PROVE  /\ \A s \in DOMAIN NextBundle(c) :
                ~UnreadySource(Synced(cpus[c], m), NextBundle(c)[s])
           /\ ~HasUnreadySources(Synced(cpus[c], m), NextBundle(c))
  <1>1. /\ cpus[c].pc + 1 \in DOMAIN programs[c]
        /\ NextBundle(c) = programs[c][cpus[c].pc + 1]
        /\ BundleTimingOk(programs[c], cpus[c].pc + 1)
    BY ScheduledBundle, ProgramsAreSequences
  <1>2. cycle \in Nat /\ cpus[c].pc = cycle
    BY DEF SysInv, OnTime
  <1>3. ASSUME NEW s \in DOMAIN NextBundle(c), NEW r \in TimedReads(NextBundle(c)[s])
        PROVE  cpus[c].ready[r] <= cycle + 1
    <2>1. r \in GprIndices
      BY DEF TimedReads
    <2>2. ReadyBy(programs[c], cycle + 1, r, cycle + 1)
      BY <1>1, <1>2 DEF BundleTimingOk
    <2> QED
      BY <1>2, <2>1, <2>2 DEF OnTime
  <1> QED
    BY <1>3, ReadyInTime

LEMMA OnTimeStays ==
    ASSUME SysInv, Returns, NEW c \in Cpus, ScheduledCpu(c),
           ~Finished(cpus[c], programs[c]), OnTime(c), programs' = programs
    PROVE  KeepsSchedule(c)'
  <1> DEFINE bundle == NextBundle(c)
             d == cpus'[c]
  <1>1. PICK m : CallFor(c, m)
    BY DEF Returns
  <1> DEFINE step == StepOf(c, m)
             b    == step.cpu
  <1>2. StepEffect(c, m, step) /\ step.result # "Fault" /\ CpuOfCall(c, step, d)
    BY <1>1 DEF CallFor
  <1>3. step.result \in {"Issued", "Halted"}
    BY <1>2, OnTimeIsReady DEF StepEffect, StepResults
  <1>4. CASE step.result = "Halted"
    <2>1. d.halted
      BY <1>2, <1>4 DEF StepEffect, CpuOfCall
    <2> QED
      BY <2>1 DEF KeepsSchedule, Finished
  <1>5. CASE step.result = "Issued"
    <2>1. cycle' = cycle + 1
      BY <1>1, <1>5 DEF CallFor, Returns, Stepped
    <2>2. OwnEffect(c, b) /\ IsCpu(b) /\ IsCpu(d)
      BY <1>2, <1>5 DEF StepEffect, CpuOfCall
    <2>3. /\ cpus[c].pc = cycle /\ cycle \in Nat /\ cpus[c].gprs[LinkReg] = 0
          /\ cpus[c].pc + 1 \in DOMAIN programs[c]
          /\ bundle = programs[c][cycle + 1]
          /\ bundle \in Seq(Syllable) /\ DOMAIN bundle = 1 .. Len(bundle)
      BY ProgramsAreSequences DEF OnTime, SysInv
    <2>4. GoesForward(bundle) /\ \A s \in DOMAIN bundle : bundle[s].dst # LinkReg
      BY ScheduledBundle
    <2> DEFINE syl == bundle[RequestOf(c).slot]
    <2>5. RequestOf(c) # NoReq => RequestOf(c).slot \in DOMAIN bundle
      BY RequestFacts
    <2> HIDE DEF b, d, step, bundle
    <2>6. b.gprs[LinkReg] = 0 /\ b.pc = cycle + 1
      BY <2>3, <2>4, <2>2 DEF OwnEffect, bundle
    <2>7. d.pc = cycle + 1
      BY <1>2, <2>6 DEF CpuOfCall, b
    <2>8. d.gprs[LinkReg] = 0
      <3>1. \/ d.gprs[LinkReg] = b.gprs[LinkReg]
            \/ RequestOf(c) # NoReq /\ LinkReg = syl.dst
        BY <1>2, LinkIsAGpr DEF CpuOfCall, b, bundle
      <3> QED
        BY <2>4, <2>5, <2>6, <3>1
    <2>9. ASSUME NEW r \in GprIndices, NEW n \in Nat, ReadyBy(programs[c], cycle + 2, r, n)
          PROVE  d.ready[r] <= n
      <3>1. /\ ReadyBy(programs[c], cycle + 1, r, n)
            /\ \A s \in DOMAIN bundle : GprWriteDst(bundle[s]) = r =>
                 cycle + 1 + StaticLatency(bundle[s].op) <= n
        BY <2>3, <2>9, ReadyByLater
      <3>2. CASE d.ready[r] = cpus[c].ready[r]
        BY <3>1, <3>2 DEF OnTime
      <3>3. CASE d.ready[r] # cpus[c].ready[r]
        <4>1. PICK s \in DOMAIN bundle :
                /\ GprWriteDst(bundle[s]) = r
                /\ StaticLatency(bundle[s].op) \in Nat
                /\ d.ready[r] \in Nat
                /\ d.ready[r] <= cycle + 1 + StaticLatency(bundle[s].op)
          BY <1>1, <1>5, <3>3, CallScores DEF ScheduledCpu, bundle, d, step
        <4>2. cycle + 1 + StaticLatency(bundle[s].op) <= n
          BY <3>1, <4>1
        <4> QED
          BY <2>3, <4>1, <4>2
      <3> QED
        BY <3>2, <3>3
    <2>10. (cycle + 1) + 1 = cycle + 2
      BY <2>3
    <2>11. OnTime(c)'
      BY <2>1, <2>7, <2>8, <2>9, <2>10 DEF OnTime, d
    <2> QED
      BY <2>11 DEF KeepsSchedule
  <1> QED
    BY <1>3, <1>4, <1>5

LEMMA ScheduleInvStep == SysInv /\ ScheduleInv /\ [Next]_vars => ScheduleInv'
  <1> SUFFICES ASSUME SysInv, ScheduleInv, [Next]_vars, NEW c \in Cpus, ScheduledCpu(c)'
               PROVE  KeepsSchedule(c)'
    BY DEF ScheduleInv
  <1>1. programs' = programs
    BY CallCases DEF vars
  <1>2. ScheduledCpu(c) /\ KeepsSchedule(c)
    BY <1>1 DEF ScheduledCpu, ScheduleInv
  <1>3. CASE Finished(cpus[c], programs[c])
    BY <1>3, FinishedStays DEF KeepsSchedule
  <1>4. CASE ~Finished(cpus[c], programs[c])
    <2>1. OnTime(c)
      BY <1>2, <1>4 DEF KeepsSchedule
    <2>2. CASE UNCHANGED vars \/ Unwinds
      BY <1>1, <2>1, <2>2 DEF vars, Unwinds, OnTime, KeepsSchedule
    <2>3. CASE Returns
      BY <1>1, <1>2, <1>4, <2>1, <2>3, OnTimeStays
    <2> QED
      BY <2>2, <2>3, CallCases
  <1> QED
    BY <1>3, <1>4

LEMMA ScheduleInvAlways == Spec => [](SysInv /\ ScheduleInv)
  <1>1. Init => ScheduleInv
    <2> SUFFICES ASSUME Init, NEW c \in Cpus PROVE OnTime(c)
      BY DEF ScheduleInv, KeepsSchedule
    <2>1. cpus[c] = NewCpu /\ cycle = 0
      BY DEF Init
    <2>2. /\ NewCpu.pc = 0
          /\ \A r \in GprIndices : NewCpu.gprs[r] = 0 /\ NewCpu.ready[r] = 0
      BY DEF NewCpu
    <2> QED
      BY <2>1, <2>2, LinkIsAGpr DEF OnTime
  <1> QED
    BY <1>1, ScheduleInvStep, SysInvInit, SysInvStep, PTL DEF Spec

\* The compiler contract on a shared bus: every CPU of a verified system without
\* transfers of control issues bundle k in cycle k until it is done, whatever
\* the other CPUs do to the bus, the memory and its cache.
THEOREM CpusIssueOnScheduleAlways == Spec => []CpusIssueOnSchedule
  <1>1. ScheduleInv => CpusIssueOnSchedule
    BY AllScheduled DEF ScheduleInv, KeepsSchedule, OnTime, CpusIssueOnSchedule
  <1> QED
    BY <1>1, ScheduleInvAlways, PTL

\* A CPU that comes to a memory operation in its bus slot is granted it.
LEMMA ServedInSlot ==
    ASSUME SysInv, Disciplined, NEW c \in Cpus, ~Finished(cpus[c], programs[c]),
           BusOwner(cycle) = c,
           \A t \in DOMAIN NextBundle(c) :
               ~UnreadySource(Synced(cpus[c], memory), NextBundle(c)[t]),
           NEW s \in MemorySlots(c)
    PROVE  /\ Granted = RequestOf(c)
           /\ RequestOf(c) # NoReq /\ RequestOf(c).slot = s /\ RequestOf(c).cpu = c
  <1>1. /\ cpus[c].pc + 1 \in DOMAIN programs[c]
        /\ NextBundle(c) = programs[c][cpus[c].pc + 1]
        /\ DOMAIN NextBundle(c) = 1 .. Len(NextBundle(c))
    BY ProgramsAreSequences
  <1>2. MemorySlots(c) = {s}
    <2>1. AccessIsSettled(NextBundle(c))
      BY <1>1 DEF Disciplined
    <2>2. \A t \in MemorySlots(c) : t = s
      BY <2>1 DEF AccessIsSettled, MemorySlots, ActiveSlots
    <2> QED
      BY <2>2
  <1>3. Min(MemorySlots(c)) = s
    <2>1. {s} \subseteq Nat
      BY <1>1 DEF MemorySlots, ActiveSlots
    <2>2. Min({s}) \in {s}
      BY <2>1, MinOfSlots
    <2> QED
      BY <1>2, <2>2
  <1>4. ~UnreadySource(Synced(cpus[c], memory), NextBundle(c)[s])
    BY DEF MemorySlots, ActiveSlots
  <1>5. RequestOf(c) # NoReq /\ RequestOf(c).slot = s /\ RequestOf(c).cpu = c
    BY <1>2, <1>3, <1>4, RequestFacts
  <1> QED
    BY <1>5 DEF Granted

\* So is a CPU on time.
LEMMA OnTimeIsServed ==
    ASSUME SysInv, Disciplined, NEW c \in Cpus, ScheduledCpu(c),
           ~Finished(cpus[c], programs[c]), OnTime(c), NEW s \in MemorySlots(c)
    PROVE  /\ BusOwner(cycle) = c /\ Granted = RequestOf(c)
           /\ RequestOf(c) # NoReq /\ RequestOf(c).slot = s /\ RequestOf(c).cpu = c
  <1>1. BusOwner(cycle) = c
    BY OnScheduleOwnsTheBus DEF OnTime
  <1>2. \A t \in DOMAIN NextBundle(c) :
          ~UnreadySource(Synced(cpus[c], memory), NextBundle(c)[t])
    BY OnTimeIsReady
  <1> QED
    BY <1>1, <1>2, ServedInSlot

\* On that schedule no memory operation is lost at the bus.
THEOREM ScheduledAccessesAreServedAlways == Spec => ScheduledAccessesAreServed
  <1>1. SysInv /\ ScheduleInv /\ [Next]_vars =>
          [Scheduled /\ Disciplined =>
             \A c \in Cpus : cpus'[c].pc # cpus[c].pc =>
                \A s \in ActiveSlots(cpus[c], NextBundle(c)) :
                    NextBundle(c)[s].op \in MemoryOps => grant'.cpu = c /\ grant'.slot = s]_vars
    <2> SUFFICES ASSUME SysInv, ScheduleInv, [Next]_vars, Scheduled, Disciplined,
                        NEW c \in Cpus, cpus'[c].pc # cpus[c].pc,
                        NEW s \in ActiveSlots(cpus[c], NextBundle(c)),
                        NextBundle(c)[s].op \in MemoryOps
                 PROVE  grant'.cpu = c /\ grant'.slot = s
      OBVIOUS
    <2>1. ~Finished(cpus[c], programs[c])
      BY FinishedStays
    <2>2. OnTime(c) /\ ScheduledCpu(c)
      BY <2>1, AllScheduled DEF ScheduleInv, KeepsSchedule
    <2>3. s \in MemorySlots(c)
      BY DEF MemorySlots
    <2>4. Granted = RequestOf(c) /\ RequestOf(c).slot = s /\ RequestOf(c).cpu = c
      BY <2>1, <2>2, <2>3, OnTimeIsServed
    <2>5. grant' = Granted
      BY GrantIsReported DEF Granted
    <2> QED
      BY <2>4, <2>5
  <1> QED
    BY <1>1, ScheduleInvAlways, PTL DEF Spec, ScheduledAccessesAreServed

-----------------------------------------------------------------------------
(* Registers that a bundle does not write. *)

Unwritten(bundle, r) == \A t \in DOMAIN bundle : GprWriteDst(bundle[t]) # r

LEMMA BundleKeeps ==
    ASSUME NEW cpu, IsCpu(cpu), NEW bundle \in Seq(Syllable),
           NEW r \in GprIndices, Unwritten(bundle, r)
    PROVE  ExecBundle(cpu, bundle).gprs[r] = cpu.gprs[r]
  <1> DEFINE after == SlotBySlot(cpu, bundle)
             Same(c) == IsCpu(c) /\ c.gprs[r] = cpu.gprs[r]
             S == {n \in Nat : n <= Len(bundle) => Same(after[n])}
  <1>0. Len(bundle) \in Nat /\ DOMAIN bundle = 1 .. Len(bundle)
    OBVIOUS
  <1>1. /\ after[0] = Issuing(cpu)
        /\ \A s \in 1 .. Len(bundle) :
             after[s] = IF after[s - 1].halted THEN after[s - 1]
                        ELSE ExecSyllable(after[s - 1], bundle[s])
    BY <1>0, SlotBySlotDef
  <1> HIDE DEF after
  <1>2. 0 \in S
    <2> DEFINE start == Issuing(cpu)
    <2>1. IsCpu(start) /\ start.gprs = cpu.gprs
      BY IssuingEffect DEF NewCpu
    <2> HIDE DEF start
    <2> QED
      BY <1>1, <2>1 DEF start
  <1>3. ASSUME NEW n \in Nat, n \in S PROVE n + 1 \in S
    <2> SUFFICES ASSUME n + 1 <= Len(bundle) PROVE Same(after[n + 1])
      OBVIOUS
    <2> DEFINE s == n + 1
               b == after[n]
               c == after[n + 1]
    <2>1. /\ s \in DOMAIN bundle /\ s \in 1 .. Len(bundle) /\ s - 1 = n
          /\ Same(b) /\ bundle[s] \in Syllable
      BY <1>0, <1>3
    <2>2. c = b \/ c = ExecSyllable(b, bundle[s])
      BY <1>1, <2>1
    <2>3. GprWriteDst(bundle[s]) # r
      BY <2>1 DEF Unwritten
    <2> HIDE DEF b, c
    <2>4. CASE c = b
      BY <2>1, <2>4 DEF c
    <2>5. CASE c = ExecSyllable(b, bundle[s]) /\ ~Active(b, bundle[s])
      <3>1. c = b
        BY <2>5 DEF ExecSyllable
      <3> QED
        BY <2>4, <3>1
    <2>6. CASE c = ExecSyllable(b, bundle[s]) /\ Active(b, bundle[s])
      <3>1. Frame(b, bundle[s], c)
        BY <2>1, <2>6, SyllableFrame
      <3> QED
        BY <2>1, <2>3, <3>1 DEF Frame, c
    <2> QED
      BY <2>2, <2>4, <2>5, <2>6
  <1> HIDE DEF S
  <1>4. Len(bundle) \in S
    BY <1>0, <1>2, <1>3, NatSetInduction
  <1> QED
    BY <1>0, <1>4 DEF S, after, ExecBundle

\* A step that stops the CPU, or one whose bundle does not write the register.
LEMMA StepKeeps ==
    ASSUME NEW cpu, IsCpu(cpu), NEW program \in Seq(Seq(Syllable)), NEW r \in GprIndices
    PROVE  LET step == StepChecked(cpu, program)
           IN  /\ step.result = "Halted" => step.cpu.gprs = cpu.gprs /\ step.cpu.pc = cpu.pc
               /\ ~Finished(cpu, program) /\ Unwritten(program[cpu.pc + 1], r) =>
                    step.cpu.gprs[r] = cpu.gprs[r]
  <1> DEFINE bundle == program[cpu.pc + 1]
             halts  == [cpu EXCEPT !.halted = TRUE]
             waits  == [cpu EXCEPT !.cycle = @ + 1]
             step   == StepChecked(cpu, program)
  <1>1. halts.gprs = cpu.gprs /\ halts.pc = cpu.pc /\ waits.gprs = cpu.gprs
    BY DEF IsCpu, NewCpu
  <1>2. ~Finished(cpu, program) /\ Unwritten(bundle, r) =>
            ExecBundle(cpu, bundle).gprs[r] = cpu.gprs[r]
    <2> SUFFICES ASSUME ~Finished(cpu, program), Unwritten(bundle, r)
                 PROVE  ExecBundle(cpu, bundle).gprs[r] = cpu.gprs[r]
      OBVIOUS
    <2>1. bundle \in Seq(Syllable)
      BY DEF Finished
    <2> HIDE DEF bundle
    <2> QED
      BY <2>1, BundleKeeps
  <1>3. \/ step.result = "Halted" /\ step.cpu \in {cpu, halts}
        \/ step.result # "Halted" /\ step.cpu \in {halts, waits}
        \/ step.result = "Issued" /\ step.cpu = ExecBundle(cpu, bundle)
    BY DEF StepChecked
  <1> HIDE DEF halts, waits, bundle, step
  <1>4. /\ step.result = "Halted" => step.cpu.gprs = cpu.gprs /\ step.cpu.pc = cpu.pc
        /\ ~Finished(cpu, program) /\ Unwritten(bundle, r) => step.cpu.gprs[r] = cpu.gprs[r]
    BY <1>1, <1>2, <1>3
  <1> QED
    BY <1>4 DEF step, bundle

LEMMA StepOfKeeps ==
    ASSUME SysInv, NEW c \in Cpus, NEW m, NEW r \in GprIndices,
           ~Finished(cpus[c], programs[c])
    PROVE  LET step == StepOf(c, m)
           IN  /\ step.result = "Halted" =>
                    step.cpu.gprs = cpus[c].gprs /\ step.cpu.pc = cpus[c].pc
               /\ Unwritten(NextBundle(c), r) => step.cpu.gprs[r] = cpus[c].gprs[r]
  <1> DEFINE cpu    == Synced(cpus[c], m)
             bundle == NextBundle(c)
             step   == StepOf(c, m)
  <1>1. /\ IsCpu(cpu) /\ cpu.gprs = cpus[c].gprs /\ cpu.pc = cpus[c].pc
        /\ ~Finished(cpu, programs[c])
        /\ bundle = programs[c][cpu.pc + 1]
    BY SyncedEffect, SyncedIsFinished DEF SysInv, NextBundle
  <1> HIDE DEF cpu
  <1>2. CASE RequestOf(c) = NoReq
    <2>1. StepOf(c, m) = StepChecked(cpu, programs[c])
      BY <1>2 DEF StepOf, cpu
    <2>2. programs[c] \in Seq(Seq(Syllable))
      BY ProgramsAreSequences
    <2> DEFINE checked == StepChecked(cpu, programs[c])
    <2>3. /\ checked.result = "Halted" => checked.cpu.gprs = cpu.gprs /\ checked.cpu.pc = cpu.pc
          /\ Unwritten(programs[c][cpu.pc + 1], r) => checked.cpu.gprs[r] = cpu.gprs[r]
      BY <1>1, <2>2, StepKeeps
    <2> HIDE DEF checked
    <2>4. StepOf(c, m) = checked
      BY <2>1 DEF checked
    <2> QED
      BY <1>1, <2>3, <2>4
  <1>3. CASE RequestOf(c) # NoReq
    <2> DEFINE start   == AtStart(c, m)
               program == <<Rest(c)>>
               inner   == StepChecked(start, program)
               pc      == IF Stepped(inner.result) THEN cpu.pc + 1 ELSE cpu.pc
    <2>1. /\ IsCpu(start) /\ start.gprs = cpu.gprs
          /\ program \in Seq(Seq(Syllable))
          /\ program[start.pc + 1] = Rest(c)
          /\ ~Finished(start, program)
          /\ DOMAIN Rest(c) = DOMAIN bundle
          /\ \A s \in DOMAIN Rest(c) :
               Rest(c)[s] = IF s = RequestOf(c).slot THEN Nop ELSE bundle[s]
      BY <1>3, RestFacts DEF NewCpu, cpu
    <2>2. GprWriteDst(Nop) # r
      BY DEF GprWriteDst, Nop, GprIndices, NoReg, GprWriters
    <2>3. Unwritten(bundle, r) => Unwritten(Rest(c), r)
      BY <2>1, <2>2 DEF Unwritten
    <2>4. /\ inner.result = "Halted" => inner.cpu.gprs = start.gprs
          /\ Unwritten(bundle, r) => inner.cpu.gprs[r] = start.gprs[r]
      <3> HIDE DEF start, program, bundle
      <3> QED
        BY <2>1, <2>3, StepKeeps
    <2>5. inner = [result |-> inner.result, cpu |-> inner.cpu] /\ IsCpu(inner.cpu)
      <3> HIDE DEF start, program
      <3> QED
        BY <2>1, StepCheckedEffect
    <2>6. StepOf(c, m) = [inner EXCEPT !.cpu = [inner.cpu EXCEPT !.pc = pc]]
      BY <1>1, <1>3 DEF StepOf, StepBesideRequest, AtStart, Rest, cpu
    <2>7. inner.result = "Halted" => pc = cpu.pc
      BY DEF Stepped
    <2> HIDE DEF inner, pc, start
    <2>8. StepOf(c, m).cpu = [inner.cpu EXCEPT !.pc = pc] /\ StepOf(c, m).result = inner.result
      BY <2>5, <2>6
    <2>9. StepOf(c, m).cpu.gprs = inner.cpu.gprs /\ StepOf(c, m).cpu.pc = pc
      BY <2>5, <2>8 DEF IsCpu, NewCpu
    <2> QED
      BY <1>1, <2>1, <2>4, <2>7, <2>8, <2>9
  <1> QED
    BY <1>2, <1>3

\* The same for a call, whether the memory operation is committed or not.
LEMMA CallKeeps ==
    ASSUME SysInv, NEW c \in Cpus, NEW m, CallFor(c, m), NEW r \in GprIndices,
           ~Finished(cpus[c], programs[c]),
           Unwritten(NextBundle(c), r)
    PROVE  cpus'[c].gprs[r] = cpus[c].gprs[r]
  <1> DEFINE step == StepOf(c, m)
             bundle == NextBundle(c)
             syl  == bundle[RequestOf(c).slot]
  <1>1. CpuOfCall(c, step, cpus'[c]) /\ step.cpu.gprs[r] = cpus[c].gprs[r]
    BY StepOfKeeps DEF CallFor
  <1>2. RequestOf(c) # NoReq => RequestOf(c).slot \in DOMAIN bundle
    BY RequestFacts
  <1> HIDE DEF step
  <1>3. \/ cpus'[c].gprs[r] = step.cpu.gprs[r]
        \/ RequestOf(c) # NoReq /\ syl.op \in Loads /\ r = syl.dst
    BY <1>1 DEF CpuOfCall
  <1>4. syl.op \in Loads => GprWriteDst(syl) = syl.dst
    BY DEF GprWriteDst, GprWriters, Loads
  <1> QED
    BY <1>1, <1>2, <1>3, <1>4 DEF Unwritten

-----------------------------------------------------------------------------
(* What the bus moves between memory and registers. *)

\* The address, the width and the value of a request.
LEMMA RequestDetails ==
    ASSUME SysInv, NEW c \in Cpus, RequestOf(c) # NoReq
    PROVE  LET syl == NextBundle(c)[RequestOf(c).slot]
           IN  /\ RequestOf(c).address = EffectiveAddress(cpus[c], syl)
               /\ RequestOf(c).width = AccessWidth(syl.op)
               /\ syl.op \in Stores =>
                    RequestOf(c).value =
                      ReadGpr(cpus[c], syl.src[2]) % PowersOf(ByteMod)[AccessWidth(syl.op)]
  <1> DEFINE cpu   == Synced(cpus[c], memory)
             slot  == Min(MemorySlots(c))
             syl   == NextBundle(c)[slot]
             width == AccessWidth(syl.op)
             value == IF syl.op \in Stores
                      THEN ReadGpr(cpu, syl.src[2]) % PowersOf(ByteMod)[width] ELSE 0
             req == [cpu     |-> c,
                     slot    |-> slot,
                     kind    |-> IF syl.op \in Stores THEN "store" ELSE "load",
                     address |-> EffectiveAddress(cpu, syl),
                     width   |-> width,
                     value   |-> value,
                     dst     |-> syl.dst]
  <1>1. IsCpu(cpus[c]) /\ cycle \in Nat
    BY DEF SysInv
  <1>2. cpu.pc = cpus[c].pc /\ cpu.gprs = cpus[c].gprs
    BY <1>1, SyncedEffect
  <1>3. MemorySlots(c) =
          {s \in ActiveSlots(cpu, NextBundle(c)) : NextBundle(c)[s].op \in MemoryOps}
    BY <1>1, SyncedIsFinished DEF MemorySlots
  <1>4. RequestOf(c) = req
    BY <1>2, <1>3 DEF RequestOf, NextBundle
  <1>5. /\ req.slot = slot /\ req.address = EffectiveAddress(cpu, syl)
        /\ req.width = width /\ req.value = value
    OBVIOUS
  <1>6. \A x : ReadGpr(cpu, x) = ReadGpr(cpus[c], x)
    BY <1>2 DEF ReadGpr
  <1>7. EffectiveAddress(cpu, syl) = EffectiveAddress(cpus[c], syl)
    BY <1>6 DEF EffectiveAddress
  <1> HIDE DEF req, cpu, slot
  <1>8. RequestOf(c).slot = slot
    BY <1>4, <1>5
  <1>9. /\ RequestOf(c).address = EffectiveAddress(cpus[c], syl)
        /\ RequestOf(c).width = width /\ RequestOf(c).value = value
    BY <1>4, <1>5, <1>7
  <1>10. syl.op \in Stores => value = ReadGpr(cpus[c], syl.src[2]) % PowersOf(ByteMod)[width]
    BY <1>6
  <1> HIDE DEF value
  <1> QED
    BY <1>8, <1>9, <1>10

\* The store that a call commits, if any.
Commits(kind) == Granted # NoReq /\ Granted.kind = kind

\* A call that ends without a panic changes memory by the granted store only.
LEMMA CallMemory ==
    ASSUME SysInv, TypeOK, Disciplined, Next, status' # "panicked"
    PROVE  /\ Granted # NoReq => InBounds(Granted.address, Granted.width)
           /\ ~Commits("store") => memory' = memory
           /\ Commits("store") =>
                memory' = StoreBytes(memory, Granted.address,
                                     ToBytes(Granted.value, Granted.width))
  <1>1. PICK after : /\ after = Committed(AllStepped) /\ ~after.panicked
                     /\ memory' = after.memory
    BY DEF Next, StepGlobal, Progress, NoProgress, Panic
  <1>2. CASE Granted = NoReq
    <2>1. memory' = memory
      BY <1>1, <1>2, GrantOfNothing DEF Unmoved
    <2> QED
      BY <1>2, <2>1 DEF Commits
  <1>3. CASE Granted # NoReq
    <2>1. /\ <<Granted.address, Granted.width>> \in Accesses
          /\ \/ Granted.kind = "load" /\ after.memory = memory
             \/ /\ Granted.kind = "store"
                /\ after.memory = StoreBytes(memory, Granted.address,
                                             ToBytes(Granted.value, Granted.width))
      BY <1>1, <1>3, GrantOfSomething
    <2> QED
      BY <1>1, <1>3, <2>1 DEF Commits, Accesses
  <1> QED
    BY <1>2, <1>3

\* What a committed load leaves in its register and in the scoreboard.
LEMMA LoadDelivers ==
    ASSUME NEW s, IsSystem(s), NEW o \in Cpus, NEW dst \in GprIndices \ {0},
           NEW req, req.cpu = o, req.dst = dst, NEW t, t = CommitLoad(s, req), cycle \in Nat
    PROVE  /\ t.cpus[o].gprs[dst] = LoadBytes(s.memory, req.address, req.width)
           /\ \E latency \in {HitLatency, MissLatency, CacheWorstCaseLoadLatency} :
                t.cpus[o].ready[dst] = cycle + 1 + latency
  <1> DEFINE b       == s.cpus[o]
             latency == OutcomeLatency(PeekOutcome(b.cache, req.address))
             value   == LoadBytes(s.memory, req.address, req.width)
             lines   == AccessLoad(b.cache, req.address)
             cached  == [b EXCEPT !.cache = lines]
             filled  == [cached EXCEPT !.memory = s.memory]
             written == WriteGpr(filled, dst, value)
             d       == SetReady(written, dst, cycle + 1 + latency)
  <1>1. t = [s EXCEPT !.progress = TRUE, !.cpus = [s.cpus EXCEPT ![o] = d]]
    <2>1. LoadReadyAt(latency) = cycle + 1 + latency
      BY DEF LoadReadyAt
    <2>2. filled = [b EXCEPT !.cache = lines, !.memory = s.memory]
      OBVIOUS
    <2> QED
      BY <2>1, <2>2 DEF CommitLoad
  <1>2. IsCpu(b)
    BY DEF IsSystem
  <1>3. latency \in {HitLatency, MissLatency, CacheWorstCaseLoadLatency} /\ latency \in Nat
    <2>1. latency \in {HitLatency, MissLatency, CacheWorstCaseLoadLatency}
      BY DEF OutcomeLatency, PeekOutcome, CacheWorstCaseLoadLatency
    <2> QED
      BY <2>1, LoadLatencyIsANumber
  <1>4. lines = [k \in LineIndices |-> lines[k]]
    BY <1>2, AccessKeepsTheLines DEF IsCpu
  <1> HIDE DEF b, latency, value, lines
  <1>5. IsCpu(cached)
    BY <1>2, <1>4 DEF IsCpu, NewCpu
  <1> HIDE DEF cached
  <1>6. IsCpu(filled)
    BY <1>5 DEF IsCpu, NewCpu
  <1> HIDE DEF filled
  <1>7. IsCpu(written) /\ written.gprs[dst] = value
    BY <1>6, WriteGprEffect DEF NewCpu
  <1>8. cycle + 1 + latency \in Nat
    BY <1>3
  <1> HIDE DEF written
  <1>9. d.gprs = written.gprs /\ d.ready[dst] = cycle + 1 + latency
    BY <1>7, <1>8, SetReadyEffect DEF NewCpu
  <1> HIDE DEF d
  <1>10. t.cpus = [s.cpus EXCEPT ![o] = d] /\ o \in DOMAIN s.cpus
    BY <1>1 DEF IsSystem
  <1>11. t.cpus[o] = d
    BY <1>10
  <1> QED
    BY <1>3, <1>7, <1>9, <1>11 DEF value

LEMMA CallLoads ==
    ASSUME SysInv, TypeOK, Disciplined, Next, status' = "running", Commits("load"),
           Granted.dst \in GprIndices \ {0}
    PROVE  LET d == cpus'[BusOwner(cycle)]
           IN  /\ d.gprs[Granted.dst] = LoadBytes(memory, Granted.address, Granted.width)
               /\ \E latency \in {HitLatency, MissLatency, CacheWorstCaseLoadLatency} :
                    d.ready[Granted.dst] = cycle + 1 + latency
  <1> DEFINE s   == AllStepped
             req == Granted
             o   == BusOwner(cycle)
             dst == req.dst
  <1>1. PICK after : /\ after = Committed(s) /\ ~after.panicked
                     /\ cpus' = [c \in Cpus |-> [after.cpus[c] EXCEPT !.cycle = cycle + 1]]
    BY DEF Next, StepGlobal, Progress, NoProgress, Panic
  <1>2. IsSystem(s) /\ s.memory = memory
    BY AllSteppedEffect, AllSteppedUnmoved DEF Unmoved
  <1>3. /\ ~s.panicked /\ after = Commit(s, req) /\ req # NoReq /\ req.kind = "load"
        /\ OnCpus(after.cpus)
    BY <1>1, CommittedEffect DEF Committed, Commits
  <1>4. o \in Cpus /\ req.cpu = o /\ cycle \in Nat
    BY <1>3, GrantedFacts DEF SysInv
  <1>5. IsCpu(after.cpus[o])
    <2>1. CommitEffect(o, BusOwner(cycle), GrantedSyllable, s.cpus[o], after.cpus[o])
      BY <1>1, <1>3, <1>4, CommittedEffect
    <2> QED
      BY <2>1 DEF CommitEffect
  <1>6. InBounds(req.address, req.width)
    BY <1>3, CallMemory
  <1>7. after = CommitLoad(s, req)
    BY <1>3, <1>6 DEF Commit
  <1> HIDE DEF s, req, dst
  <1>8. dst \in GprIndices \ {0}
    BY DEF req, dst
  <1>9. /\ after.cpus[o].gprs[dst] = LoadBytes(s.memory, req.address, req.width)
        /\ \E latency \in {HitLatency, MissLatency, CacheWorstCaseLoadLatency} :
             after.cpus[o].ready[dst] = cycle + 1 + latency
    BY <1>2, <1>4, <1>7, <1>8, LoadDelivers DEF dst
  <1> DEFINE a == after.cpus[o]
             d == [a EXCEPT !.cycle = cycle + 1]
  <1>10. cpus'[o] = d
    BY <1>1, <1>4
  <1> HIDE DEF a
  <1>11. d.gprs = a.gprs /\ d.ready = a.ready
    BY <1>5 DEF IsCpu, NewCpu, a
  <1> HIDE DEF d
  <1> QED
    BY <1>2, <1>9, <1>10, <1>11 DEF a, dst, req

-----------------------------------------------------------------------------
(* What is released stays released. *)

\* A CPU on time does not wait.
LEMMA OnTimeCall ==
    ASSUME SysInv, NEW c \in Cpus, ScheduledCpu(c), ~Finished(cpus[c], programs[c]),
           OnTime(c), NEW m, CallFor(c, m)
    PROVE  /\ StepOf(c, m).result \in {"Issued", "Halted"}
           /\ StepOf(c, m).result = "Issued" => cpus'[c].pc = cycle + 1
  <1> DEFINE step == StepOf(c, m)
  <1>1. /\ StepEffect(c, m, step) /\ step.result # "Fault"
        /\ CpuOfCall(c, step, cpus'[c])
    BY DEF CallFor
  <1>2. step.result \in {"Issued", "Halted"}
    BY <1>1, OnTimeIsReady DEF StepEffect, StepResults
  <1>3. GoesForward(NextBundle(c))
    BY ScheduledBundle
  <1>4. cpus[c].pc = cycle /\ cpus[c].gprs[LinkReg] = 0
    BY DEF OnTime
  <1>5. ASSUME step.result = "Issued" PROVE cpus'[c].pc = cycle + 1
    <2>1. OwnEffect(c, step.cpu)
      BY <1>1, <1>5 DEF StepEffect
    <2> HIDE DEF step
    <2>2. step.cpu.pc = cycle + 1
      BY <1>3, <1>4, <2>1 DEF OwnEffect
    <2> QED
      BY <1>1, <2>2 DEF CpuOfCall
  <1> QED
    BY <1>2, <1>5

\* The program counter of a CPU on time, and its registers in a call that
\* returns false.
LEMMA OnTimeMoves ==
    ASSUME SysInv, Returns, NEW c \in Cpus, ScheduledCpu(c),
           ~Finished(cpus[c], programs[c]), OnTime(c)
    PROVE  /\ cpus'[c].pc <= cycle'
           /\ status' = "quiescent" =>
                cpus'[c].gprs = cpus[c].gprs /\ cpus'[c].pc = cpus[c].pc
  <1>1. PICK m : CallFor(c, m)
    BY DEF Returns
  <1> DEFINE step == StepOf(c, m)
  <1>2. /\ step.result \in {"Issued", "Halted"}
        /\ step.result = "Issued" => cpus'[c].pc = cycle + 1
    BY <1>1, OnTimeCall
  <1>3. step.result = "Halted" =>
          step.cpu.gprs = cpus[c].gprs /\ step.cpu.pc = cpus[c].pc
    BY LinkIsAGpr, StepOfKeeps
  <1>4. /\ CpuOfCall(c, step, cpus'[c])
        /\ Stepped(step.result) => status' = "running"
        /\ status' = "quiescent" => cpus'[c] = step.cpu
    BY <1>1 DEF CallFor
  <1>5. cpus'[c].pc = step.cpu.pc
    BY <1>4 DEF CpuOfCall
  <1>6. cpus[c].pc = cycle /\ cycle \in Nat
    BY DEF OnTime, SysInv
  <1>7. cycle' = cycle + 1 \/ (cycle' = cycle /\ status' = "quiescent")
    BY DEF Returns
  <1> HIDE DEF step
  <1>8. status' = "quiescent" => step.result = "Halted"
    BY <1>2, <1>4 DEF Stepped
  <1> QED
    BY <1>2, <1>3, <1>4, <1>5, <1>6, <1>7, <1>8

\* Every bundle fills the slots.
LEMMA BundleFillsSlots ==
    ASSUME SysInv, NEW c \in Cpus, ~Finished(cpus[c], programs[c])
    PROVE  /\ cpus[c].pc + 1 \in DOMAIN programs[c]
           /\ NextBundle(c) = programs[c][cpus[c].pc + 1]
           /\ DOMAIN NextBundle(c) = DOMAIN Slots
           /\ \A s \in DOMAIN Slots : NextBundle(c)[s] \in Syllable
  <1>1. /\ cpus[c].pc + 1 \in DOMAIN programs[c]
        /\ NextBundle(c) = programs[c][cpus[c].pc + 1]
        /\ NextBundle(c) \in Seq(Syllable)
        /\ Len(NextBundle(c)) = Len(Slots)
        /\ DOMAIN NextBundle(c) = 1 .. Len(NextBundle(c))
    BY ProgramsAreSequences
  <1>2. DOMAIN Slots = 1 .. Len(Slots)
    BY LayoutAssumption
  <1> QED
    BY <1>1, <1>2

\* What publishes register r at imm is an active memory operation.
LEMMA PublishesAtOnce ==
    ASSUME SysInv, NEW d \in Cpus, ~Finished(cpus[d], programs[d]), NEW r, NEW imm,
           Publishes(d, cpus[d].pc + 1, r, imm)
    PROVE  \E s \in MemorySlots(d) :
              /\ NextBundle(d)[s].op = "RelStore"
              /\ NextBundle(d)[s].src = <<0, r>>
              /\ EffectiveAddress(cpus[d], NextBundle(d)[s]) = AsWord(imm)
  <1>1. /\ NextBundle(d) = programs[d][cpus[d].pc + 1]
        /\ DOMAIN NextBundle(d) = DOMAIN Slots
        /\ \A s \in DOMAIN Slots : NextBundle(d)[s] \in Syllable
    BY BundleFillsSlots
  <1>2. PICK s \in DOMAIN NextBundle(d) :
          LET syl == NextBundle(d)[s]
          IN  syl.op = "RelStore" /\ Unguarded(syl) /\ syl.src = <<0, r>> /\ syl.imm = imm
    BY <1>1 DEF Publishes
  <1> DEFINE syl == NextBundle(d)[s]
  <1>3. syl \in Syllable
    BY <1>1, <1>2
  <1>4. Active(cpus[d], syl)
    BY <1>2 DEF Active, Unguarded, ReadPred
  <1>5. s \in MemorySlots(d)
    BY <1>2, <1>4 DEF MemorySlots, ActiveSlots, MemoryOps, Stores
  <1>6. syl.imm \in Int
    BY <1>3 DEF Syllable
  <1>7. EffectiveAddress(cpus[d], syl) = AsWord(imm)
    <2>1. ReadGpr(cpus[d], syl.src[1]) = 0
      BY <1>2 DEF ReadGpr
    <2>2. 0 + syl.imm = imm
      BY <1>2, <1>6
    <2> QED
      BY <2>1, <2>2 DEF EffectiveAddress
  <1> QED
    BY <1>2, <1>5, <1>7

\* The program counter of a scheduled CPU is never ahead of the clock.
BehindInv == \A c \in Cpus : ScheduledCpu(c) => cpus[c].pc <= cycle

LEMMA BehindInvStep ==
    SysInv /\ TypeOK /\ ScheduleInv /\ BehindInv /\ [Next]_vars => BehindInv'
  <1> SUFFICES ASSUME SysInv, TypeOK, ScheduleInv, BehindInv, [Next]_vars,
                      NEW c \in Cpus, ScheduledCpu(c)'
               PROVE  cpus'[c].pc <= cycle'
    BY DEF BehindInv
  <1>1. programs' = programs
    BY CallCases DEF vars
  <1>2. ScheduledCpu(c)
    BY <1>1 DEF ScheduledCpu
  <1>3. cpus[c].pc <= cycle /\ cpus[c].pc \in Nat /\ cycle \in Nat
    BY <1>2 DEF BehindInv, SysInv, TypeOK, CpuStates
  <1>4. CASE UNCHANGED <<cpus, cycle>>
    BY <1>3, <1>4
  <1>5. CASE Returns
    <2>1. CASE Finished(cpus[c], programs[c])
      <3>1. cpus'[c].pc = cpus[c].pc
        BY <2>1, FinishedStays
      <3> QED
        BY <1>3, <1>5, <3>1 DEF Returns
    <2>2. CASE ~Finished(cpus[c], programs[c])
      <3>1. OnTime(c)
        BY <1>2, <2>2 DEF ScheduleInv, KeepsSchedule
      <3> QED
        BY <1>2, <1>5, <2>2, <3>1, OnTimeMoves
    <2> QED
      BY <2>1, <2>2
  <1> QED
    BY <1>4, <1>5, CallCases DEF vars, Unwinds

LEMMA BehindInvAlways == Spec => [](SysInv /\ TypeOK /\ ScheduleInv /\ BehindInv)
  <1>1. Init => BehindInv
    BY DEF Init, BehindInv, NewCpu
  <1> QED
    BY <1>1, BehindInvStep, ScheduleInvAlways, SystemTypeCorrect, SysInvInit, SysInvStep,
       PTL DEF Spec

\* Bundle i of CPU d has released its register r at imm and nothing has
\* disturbed it since: memory holds what the register still holds.
Released(d, i, r, imm) ==
    /\ Publishes(d, i, r, imm)
    /\ cpus[d].pc >= i
    /\ Undisturbed(d, i, cycle, r)

ReleaseInv ==
    Scheduled /\ Disciplined =>
        \A d \in Cpus : \A i \in DOMAIN programs[d] : \A r \in GprIndices : \A imm \in Int :
             Released(d, i, r, imm) =>
                 LoadBytes(memory, AsWord(imm), 8) = ReadGpr(cpus[d], r)

LEMMA OnTimeBundle ==
    ASSUME SysInv, NEW c \in Cpus, OnTime(c), ~Finished(cpus[c], programs[c])
    PROVE  /\ cycle + 1 \in DOMAIN programs[c]
           /\ NextBundle(c) = programs[c][cycle + 1]
           /\ DOMAIN NextBundle(c) = DOMAIN Slots
  BY BundleFillsSlots DEF OnTime

\* The owner of the bus that commits a store has it in its next bundle.
LEMMA StoreOfOwner ==
    ASSUME SysInv, Commits("store")
    PROVE  LET o == BusOwner(cycle)
           IN  /\ o \in Cpus /\ ~Finished(cpus[o], programs[o])
               /\ \E s \in DOMAIN Slots : programs[o][cpus[o].pc + 1][s].op \in Stores
  <1> DEFINE o == BusOwner(cycle)
             syl == NextBundle(o)[RequestOf(o).slot]
  <1>1. o \in Cpus
    BY OwnerIsACpu DEF SysInv
  <1> HIDE DEF o
  <1>2. RequestOf(o) # NoReq /\ RequestOf(o).kind = "store"
    BY DEF Commits, Granted, o
  <1>3. /\ ~Finished(cpus[o], programs[o])
        /\ RequestOf(o).slot \in DOMAIN NextBundle(o)
        /\ syl.op \in Stores
    BY <1>1, <1>2, RequestFacts
  <1>4. NextBundle(o) = programs[o][cpus[o].pc + 1] /\ DOMAIN NextBundle(o) = DOMAIN Slots
    BY <1>1, <1>3, BundleFillsSlots
  <1> QED
    BY <1>1, <1>3, <1>4 DEF o

\* A CPU that keeps its schedule commits no store that its bundle has not.
LEMMA StoresOnTime ==
    ASSUME SysInv, ScheduleInv, Commits("store"), ScheduledCpu(BusOwner(cycle))
    PROVE  LET o == BusOwner(cycle)
           IN  /\ o \in Cpus /\ cycle + 1 \in DOMAIN programs[o]
               /\ \E s \in DOMAIN Slots : programs[o][cycle + 1][s].op \in Stores
  <1> DEFINE o == BusOwner(cycle)
  <1>1. /\ o \in Cpus /\ ~Finished(cpus[o], programs[o])
        /\ \E s \in DOMAIN Slots : programs[o][cpus[o].pc + 1][s].op \in Stores
    BY StoreOfOwner
  <1> HIDE DEF o
  <1>2. OnTime(o)
    BY <1>1 DEF ScheduleInv, KeepsSchedule, o
  <1>3. cpus[o].pc = cycle /\ cycle + 1 \in DOMAIN programs[o]
    BY <1>1, <1>2, OnTimeBundle DEF OnTime
  <1> QED
    BY <1>1, <1>3 DEF o

\* Nothing is stored in a bundle in which the release is undisturbed.
LEMMA UndisturbedBundle ==
    ASSUME SysInv, Scheduled, ScheduleInv, NEW d \in Cpus, NEW i \in Nat,
           NEW r \in GprIndices, i <= cycle + 1, Undisturbed(d, i, cycle + 1, r)
    PROVE  /\ Undisturbed(d, i, cycle, r)
           /\ i <= cycle => ~Commits("store")
           /\ OnTime(d) /\ ~Finished(cpus[d], programs[d]) => Unwritten(NextBundle(d), r)
  <1>0. cycle \in Nat
    BY DEF SysInv
  <1>1. Undisturbed(d, i, cycle, r)
    BY <1>0 DEF Undisturbed
  <1>2. ASSUME i <= cycle, Commits("store") PROVE FALSE
    <2> DEFINE o == BusOwner(cycle)
    <2>1. o \in Cpus /\ ScheduledCpu(o)
      BY AllScheduled, OwnerIsACpu DEF SysInv
    <2>2. /\ cycle + 1 \in DOMAIN programs[o]
          /\ \E s \in DOMAIN Slots : programs[o][cycle + 1][s].op \in Stores
      BY <1>2, <2>1, StoresOnTime
    <2> HIDE DEF o
    <2>3. cycle + 1 \in (i + 1 .. cycle + 1) \cap DOMAIN programs[o]
      BY <1>0, <1>2, <2>2
    <2> QED
      BY <2>1, <2>2, <2>3 DEF Undisturbed
  <1>3. ASSUME OnTime(d), ~Finished(cpus[d], programs[d])
        PROVE  Unwritten(NextBundle(d), r)
    <2>1. cycle + 1 \in (i .. cycle + 1) \cap DOMAIN programs[d]
      BY <1>0, <1>3, OnTimeBundle
    <2>2. \A s \in DOMAIN Slots : GprWriteDst(programs[d][cycle + 1][s]) # r
      BY <2>1 DEF Undisturbed
    <2> QED
      BY <1>3, <2>2, OnTimeBundle DEF Unwritten
  <1> QED
    BY <1>1, <1>2, <1>3

\* The release itself: memory gets what the register holds.
LEMMA ReleaseIsServed ==
    ASSUME SysInv, TypeOK, Disciplined, Next, status' = "running",
           NEW d \in Cpus, ScheduledCpu(d), ~Finished(cpus[d], programs[d]), OnTime(d),
           NEW r \in GprIndices, NEW imm \in Int, Publishes(d, cycle + 1, r, imm)
    PROVE  LoadBytes(memory', AsWord(imm), 8) = ReadGpr(cpus[d], r)
  <1>1. Publishes(d, cpus[d].pc + 1, r, imm)
    BY DEF OnTime
  <1>2. PICK s \in MemorySlots(d) :
              /\ NextBundle(d)[s].op = "RelStore"
              /\ NextBundle(d)[s].src = <<0, r>>
              /\ EffectiveAddress(cpus[d], NextBundle(d)[s]) = AsWord(imm)
    BY <1>1, PublishesAtOnce
  <1>3. Granted = RequestOf(d) /\ RequestOf(d) # NoReq /\ RequestOf(d).slot = s
    BY OnTimeIsServed
  <1> DEFINE value == ReadGpr(cpus[d], r)
             addr  == AsWord(imm)
  <1>4. NextBundle(d)[s].op \in Stores /\ AccessWidth(NextBundle(d)[s].op) = 8
    BY <1>2 DEF Stores, AccessWidth
  <1>5. /\ Granted.address = addr /\ Granted.width = 8
        /\ Granted.value = value % PowersOf(ByteMod)[8]
    BY <1>2, <1>3, <1>4, RequestDetails
  <1>6. Commits("store")
    BY <1>3, <1>4, RequestFacts DEF Commits
  <1>7. value \in Words
    <2>1. cpus[d].gprs \in [GprIndices -> Words]
      BY DEF TypeOK, CpuStates
    <2> QED
      BY <2>1, WordFacts DEF ReadGpr, Words
  <1> HIDE DEF value
  <1>8. value % PowersOf(ByteMod)[8] = value
    BY <1>7, PowersOfByteMod, WordFacts DEF Words
  <1>9. /\ InBounds(addr, 8)
        /\ memory' = StoreBytes(memory, addr, ToBytes(value, 8))
    BY <1>5, <1>6, <1>8, CallMemory DEF Commits
  <1>10. memory \in Memories /\ addr \in Nat /\ value \in Nat
    BY <1>7, WordFacts DEF TypeOK, AsWord, Words
  <1> HIDE DEF addr
  <1>11. LoadBytes(memory', addr, 8) = value % PowersOf(ByteMod)[8]
    BY <1>9, <1>10, LoadedAsStored
  <1> QED
    BY <1>8, <1>11 DEF addr, value

\* A call that returns true: bundle i of CPU d has released r when it is over.
LEMMA ReleaseStays ==
    ASSUME SysInv, TypeOK, ScheduleInv, BehindInv, Disciplined, Next, Returns,
           status' = "running", programs' = programs,
           NEW d \in Cpus, ScheduledCpu(d), NEW i \in Nat, NEW r \in GprIndices,
           NEW imm \in Int, Publishes(d, i, r, imm), cpus'[d].pc >= i,
           i <= cycle => ~Commits("store"),
           i <= cycle + 1 /\ OnTime(d) /\ ~Finished(cpus[d], programs[d]) =>
               Unwritten(NextBundle(d), r),
           cpus[d].pc >= i => LoadBytes(memory, AsWord(imm), 8) = ReadGpr(cpus[d], r)
    PROVE  /\ i <= cycle + 1
           /\ i <= cycle => cpus[d].pc >= i /\ memory' = memory
           /\ ReadGpr(cpus'[d], r) = ReadGpr(cpus[d], r)
           /\ LoadBytes(memory', AsWord(imm), 8) = ReadGpr(cpus'[d], r)
  <1>1. cycle \in Nat /\ cycle' = cycle + 1
    BY DEF SysInv, Returns
  <1>2. i <= cycle + 1
    <2>1. BehindInv' /\ TypeOK'
      BY TypeStep, BehindInvStep
    <2>2. ScheduledCpu(d)'
      BY DEF ScheduledCpu
    <2>3. cpus'[d].pc <= cycle + 1 /\ cpus'[d].pc \in Nat
      BY <1>1, <2>1, <2>2 DEF BehindInv, TypeOK, CpuStates
    <2> QED
      BY <1>1, <2>3
  <1>3. Finished(cpus[d], programs[d]) \/ OnTime(d)
    BY DEF ScheduleInv, KeepsSchedule
  <1>4. cpus'[d].gprs[r] = cpus[d].gprs[r]
    <2>1. CASE Finished(cpus[d], programs[d])
      BY <2>1, FinishedStays
    <2>2. CASE OnTime(d) /\ ~Finished(cpus[d], programs[d])
      <3>1. PICK m : CallFor(d, m)
        BY DEF Returns
      <3> QED
        BY <1>2, <2>2, <3>1, CallKeeps
    <2> QED
      BY <1>3, <2>1, <2>2
  <1>5. ReadGpr(cpus'[d], r) = ReadGpr(cpus[d], r)
    BY <1>4 DEF ReadGpr
  <1>6. ASSUME i <= cycle
        PROVE  /\ cpus[d].pc >= i /\ memory' = memory
               /\ LoadBytes(memory', AsWord(imm), 8) = ReadGpr(cpus'[d], r)
    <2>1. cpus[d].pc >= i
      <3>1. CASE Finished(cpus[d], programs[d])
        BY <3>1, FinishedStays
      <3>2. CASE OnTime(d)
        BY <1>6, <3>2 DEF OnTime
      <3> QED
        BY <1>3, <3>1, <3>2
    <2>2. memory' = memory
      BY <1>6, CallMemory
    <2> QED
      BY <1>5, <2>1, <2>2
  <1>7. ASSUME i = cycle + 1
        PROVE  LoadBytes(memory', AsWord(imm), 8) = ReadGpr(cpus'[d], r)
    <2>1. ~Finished(cpus[d], programs[d])
      <3> SUFFICES ASSUME Finished(cpus[d], programs[d]) PROVE FALSE
        OBVIOUS
      <3>1. cpus'[d].pc = cpus[d].pc
        BY FinishedStays
      <3>2. cpus[d].pc <= cycle /\ cpus[d].pc \in Nat
        BY DEF BehindInv, TypeOK, CpuStates
      <3> QED
        BY <1>1, <1>7, <3>1, <3>2
    <2>2. LoadBytes(memory', AsWord(imm), 8) = ReadGpr(cpus[d], r)
      BY <1>3, <1>7, <2>1, ReleaseIsServed
    <2> QED
      BY <1>5, <2>2
  <1>8. i <= cycle \/ i = cycle + 1
    BY <1>1, <1>2
  <1> QED
    BY <1>2, <1>5, <1>6, <1>7, <1>8

LEMMA ReleaseInvStep ==
    SysInv /\ TypeOK /\ ScheduleInv /\ BehindInv /\ ReleaseInv /\ [Next]_vars => ReleaseInv'
  <1> SUFFICES ASSUME SysInv, TypeOK, ScheduleInv, BehindInv, ReleaseInv, [Next]_vars,
                      Scheduled', Disciplined', NEW d \in Cpus, NEW i \in DOMAIN programs'[d],
                      NEW r \in GprIndices, NEW imm \in Int, Released(d, i, r, imm)'
               PROVE  LoadBytes(memory', AsWord(imm), 8) = ReadGpr(cpus'[d], r)
    BY DEF ReleaseInv
  <1>1. programs' = programs
    BY CallCases DEF vars
  <1>2. Scheduled /\ Disciplined /\ ScheduledCpu(d)
    BY <1>1, AllScheduled DEF Scheduled, Disciplined
  <1>3. i \in DOMAIN programs[d] /\ i \in Nat /\ cycle \in Nat
    <2>1. programs[d] \in Seq(Seq(Syllable))
      BY ProgramsAreSequences
    <2> QED
      BY <1>1, <2>1 DEF SysInv
  <1>4. Publishes(d, i, r, imm) /\ cpus'[d].pc >= i /\ Undisturbed(d, i, cycle', r)
    BY <1>1 DEF Released, Publishes, Undisturbed
  <1>5. ASSUME Undisturbed(d, i, cycle, r), cpus[d].pc >= i
        PROVE  LoadBytes(memory, AsWord(imm), 8) = ReadGpr(cpus[d], r)
    BY <1>2, <1>3, <1>4, <1>5 DEF ReleaseInv, Released
  <1>6. CASE UNCHANGED <<programs, cpus, memory, cycle>>
    BY <1>4, <1>5, <1>6
  <1>7. CASE Next /\ Returns
    <2>1. \/ cycle' = cycle + 1 /\ status' = "running"
          \/ cycle' = cycle /\ status' = "quiescent" /\ memory' = memory
      BY <1>7 DEF Returns
    <2>2. CASE status' = "running"
      <3>1. cycle' = cycle + 1 /\ BehindInv' /\ TypeOK' /\ ScheduledCpu(d)'
        BY <1>1, <1>2, <2>1, <2>2, BehindInvStep, TypeStep DEF ScheduledCpu
      <3>2. i <= cycle + 1
        <4>1. cpus'[d].pc <= cycle + 1 /\ cpus'[d].pc \in Nat
          BY <3>1 DEF BehindInv, TypeOK, CpuStates
        <4> QED
          BY <1>3, <1>4, <4>1
      <3>3. /\ Undisturbed(d, i, cycle, r)
            /\ i <= cycle => ~Commits("store")
            /\ OnTime(d) /\ ~Finished(cpus[d], programs[d]) => Unwritten(NextBundle(d), r)
        BY <1>2, <1>3, <1>4, <3>1, <3>2, UndisturbedBundle
      <3> QED
        BY <1>1, <1>2, <1>3, <1>4, <1>5, <1>7, <2>2, <3>3, ReleaseStays
    <2>3. CASE status' = "quiescent"
      <3>1. cpus'[d].pc = cpus[d].pc /\ cpus'[d].gprs = cpus[d].gprs
        <4>1. CASE Finished(cpus[d], programs[d])
          BY <4>1, FinishedStays
        <4>2. CASE ~Finished(cpus[d], programs[d])
          <5>1. OnTime(d)
            BY <1>2, <4>2 DEF ScheduleInv, KeepsSchedule
          <5> QED
            BY <1>2, <1>7, <2>3, <4>2, <5>1, OnTimeMoves
        <4> QED
          BY <4>1, <4>2
      <3>2. ReadGpr(cpus'[d], r) = ReadGpr(cpus[d], r)
        BY <3>1 DEF ReadGpr
      <3>3. memory' = memory /\ cycle' = cycle
        BY <2>1, <2>3
      <3> QED
        BY <1>4, <1>5, <3>1, <3>2, <3>3
    <2> QED
      BY <2>1, <2>2, <2>3
  <1> QED
    BY <1>6, <1>7, CallCases DEF vars, Unwinds

LEMMA ReleaseInvAlways == Spec => [](SysInv /\ TypeOK /\ ScheduleInv /\ ReleaseInv)
  <1>1. Init => ReleaseInv
    <2> SUFFICES ASSUME Init, NEW d \in Cpus, NEW i \in DOMAIN programs[d]
                 PROVE  ~(cpus[d].pc >= i)
      BY DEF ReleaseInv, Released
    <2>1. cpus[d] = NewCpu
      BY DEF Init
    <2>2. cpus[d].pc = 0
      BY <2>1 DEF NewCpu
    <2>3. programs[d] \in Seq(Seq(Syllable))
      BY SysInvInit, ProgramsAreSequences
    <2> QED
      BY <2>2, <2>3
  <1> QED
    BY <1>1, ReleaseInvStep, BehindInvAlways, PTL DEF Spec

\* On the static schedule an AcqLoad gets what a RelStore in an earlier bundle of
\* another CPU released, within worst_case_visibility: the message-passing
\* guarantee that the static verifier gives for release and acquire.
THEOREM AcquireSeesReleaseAlways == Spec => AcquireSeesRelease
  <1> DEFINE Sees(c, s) ==
        LET j   == cpus[c].pc + 1
            syl == programs[c][j][s]
        IN  /\ ~Finished(cpus[c], programs[c])
            /\ syl.op = "AcqLoad" /\ Unguarded(syl) /\ syl.src[1] = 0
            /\ syl.dst \in GprIndices \ {0}
            => \A d \in Cpus \ {c} : \A i \in 1 .. j - 1 : \A r \in GprIndices :
                 /\ i \in DOMAIN programs[d] /\ cpus[d].pc >= i
                 /\ Publishes(d, i, r, syl.imm) /\ Undisturbed(d, i, j, r)
                 => /\ cpus'[c].gprs[syl.dst] = ReadGpr(cpus[d], r)
                    /\ j - i < NumCpus
                         => cpus'[c].ready[syl.dst] <= i + WorstCaseVisibility
  <1>1. SysInv /\ TypeOK /\ ScheduleInv /\ ReleaseInv /\ [Next]_vars =>
          [Scheduled /\ Disciplined /\ status' = "running" =>
             \A c \in Cpus : \A s \in DOMAIN Slots : Sees(c, s)]_vars
    <2> SUFFICES ASSUME SysInv, TypeOK, ScheduleInv, ReleaseInv, Next,
                        Scheduled, Disciplined, status' = "running",
                        NEW c \in Cpus, NEW s \in DOMAIN Slots
                 PROVE  Sees(c, s)
      OBVIOUS
    <2> DEFINE j   == cpus[c].pc + 1
               syl == programs[c][j][s]
    <2> SUFFICES ASSUME ~Finished(cpus[c], programs[c]),
                        syl.op = "AcqLoad", Unguarded(syl), syl.src[1] = 0,
                        syl.dst \in GprIndices \ {0},
                        NEW d \in Cpus \ {c}, NEW i \in 1 .. j - 1, NEW r \in GprIndices,
                        i \in DOMAIN programs[d], cpus[d].pc >= i,
                        Publishes(d, i, r, syl.imm), Undisturbed(d, i, j, r)
                 PROVE  /\ cpus'[c].gprs[syl.dst] = ReadGpr(cpus[d], r)
                        /\ j - i < NumCpus
                             => cpus'[c].ready[syl.dst] <= i + WorstCaseVisibility
      OBVIOUS
    <2>1. OnTime(c) /\ cpus[c].pc = cycle /\ cycle \in Nat /\ ScheduledCpu(c)
      BY AllScheduled DEF ScheduleInv, KeepsSchedule, OnTime, SysInv
    <2>2. /\ NextBundle(c) = programs[c][j] /\ s \in DOMAIN NextBundle(c)
          /\ syl \in Syllable
      BY BundleFillsSlots
    <2> HIDE DEF syl
    <2>3. s \in MemorySlots(c)
      BY <2>2 DEF syl, MemorySlots, ActiveSlots, Active, ReadPred, Unguarded, MemoryOps, Loads
    <2>4. /\ Granted = RequestOf(c) /\ RequestOf(c) # NoReq /\ RequestOf(c).slot = s
          /\ BusOwner(cycle) = c
      BY <2>1, <2>3, OnTimeIsServed
    <2>5. /\ syl.op \notin Stores /\ AccessWidth(syl.op) = 8
      BY DEF Stores, AccessWidth
    <2>6. EffectiveAddress(cpus[c], syl) = AsWord(syl.imm)
      <3>1. ReadGpr(cpus[c], syl.src[1]) = 0
        BY DEF ReadGpr
      <3>2. 0 + syl.imm = syl.imm
        BY <2>2 DEF Syllable
      <3> QED
        BY <3>1, <3>2 DEF EffectiveAddress
    <2>7. NextBundle(c)[RequestOf(c).slot] = syl
      BY <2>2, <2>4 DEF syl
    <2>8. /\ Granted.address = AsWord(syl.imm) /\ Granted.width = 8
          /\ Granted.dst = syl.dst /\ Commits("load")
      BY <2>4, <2>5, <2>6, <2>7, RequestFacts, RequestDetails DEF Commits
    <2>9. LoadBytes(memory, AsWord(syl.imm), 8) = ReadGpr(cpus[d], r)
      <3>1. i \in Nat /\ i <= cycle + 1 /\ j = cycle + 1
        BY <2>1
      <3>2. Undisturbed(d, i, cycle, r)
        BY <3>1, UndisturbedBundle
      <3>3. syl.imm \in Int
        BY <2>2 DEF Syllable
      <3> QED
        BY <3>2, <3>3 DEF ReleaseInv, Released
    <2>10. /\ cpus'[c].gprs[syl.dst] = LoadBytes(memory, AsWord(syl.imm), 8)
           /\ \E latency \in {HitLatency, MissLatency, CacheWorstCaseLoadLatency} :
                cpus'[c].ready[syl.dst] = cycle + 1 + latency
      BY <2>4, <2>8, CallLoads
    <2>11. ASSUME j - i < NumCpus
           PROVE  cpus'[c].ready[syl.dst] <= i + WorstCaseVisibility
      <3>1. \A latency \in {HitLatency, MissLatency, CacheWorstCaseLoadLatency} :
              latency \in Nat /\ latency <= CacheWorstCaseLoadLatency
        BY CacheAssumption DEF Scheduled, HitsAreNoWorse, CacheWorstCaseLoadLatency
      <3>2. CoherenceDrain \in Nat /\ CacheWorstCaseLoadLatency \in Nat /\ NumCpus \in Nat
        BY CacheAssumption, BusAssumption DEF CoherenceDrain, CacheWorstCaseLoadLatency
      <3> QED
        BY <2>1, <2>10, <2>11, <3>1, <3>2 DEF WorstCaseVisibility
    <2> QED
      BY <2>9, <2>10, <2>11
  <1> QED
    BY <1>1, ReleaseInvAlways, PTL DEF Spec, AcquireSeesRelease

-----------------------------------------------------------------------------
(* The slots of a polling loop's bundles. *)

\* The only writers of predicate p compare register q with 0.
OnlyTests(bundle, q, p) ==
    \A t \in DOMAIN bundle :
        bundle[t].op \in WritesPred /\ bundle[t].dst = p => bundle[t] = Op("CmpEq", p, q, 0, 0)

LEMMA TestFails ==
    ASSUME NEW c, IsCpu(c), NEW q \in GprIndices \ {0}, NEW p \in PredIndices \ {0},
           c.gprs[q] # 0
    PROVE  LET test == Op("CmpEq", p, q, 0, 0)
           IN  Active(c, test) /\ ~ExecSyllable(c, test).preds[p]
  <1> DEFINE test == Op("CmpEq", p, q, 0, 0)
  <1>1. /\ test.op = "CmpEq" /\ test.dst = p /\ test.src[1] = q /\ test.src[2] = 0
        /\ test.pred = 0 /\ test.neg = FALSE
    BY DEF Op
  <1> HIDE DEF test
  <1>2. Active(c, test)
    BY <1>1 DEF Active, ReadPred
  <1>3. ReadGpr(c, q) = c.gprs[q] /\ ReadGpr(c, 0) = 0
    BY DEF ReadGpr
  <1>4. ~ComparedBy(c, test)
    BY <1>1, <1>3 DEF ComparedBy, CompareResult
  <1>5. test.op \in Compares
    BY <1>1 DEF Compares, IntegerCompares
  <1> DEFINE value == ComparedBy(c, test)
  <1>6. ExecSyllable(c, test) = WritePred(c, p, value)
    BY <1>1, <1>2, <1>5, ExecSyllableCases
  <1> HIDE DEF value
  <1>7. WritePred(c, p, value).preds[p] = value
    BY WritePredEffect
  <1>8. ~value
    BY <1>4 DEF value
  <1>9. ~ExecSyllable(c, test).preds[p]
    BY <1>6, <1>7, <1>8, Zenon
  <1> QED
    BY <1>2, <1>9 DEF test

\* After n slots of a bundle that finds register q set.
TestedSlots(cpu, bundle, q, p, n, c) ==
    /\ IsCpu(c) /\ c.gprs[q] = cpu.gprs[q]
    /\ \/ c.halted
       \/ ~c.preds[p]
       \/ cpu.preds[p] /\ \A t \in 1 .. n : bundle[t] # Op("CmpEq", p, q, 0, 0)

LEMMA TestsFail ==
    ASSUME NEW cpu, IsCpu(cpu), NEW bundle \in Seq(Syllable),
           NEW q \in GprIndices \ {0}, NEW p \in PredIndices \ {0},
           cpu.gprs[q] # 0, Unwritten(bundle, q), OnlyTests(bundle, q, p),
           NEW m \in 0 .. Len(bundle)
    PROVE  TestedSlots(cpu, bundle, q, p, m, SlotBySlot(cpu, bundle)[m])
  <1> DEFINE after == SlotBySlot(cpu, bundle)
             test  == Op("CmpEq", p, q, 0, 0)
             S == {n \in Nat : n <= Len(bundle) => TestedSlots(cpu, bundle, q, p, n, after[n])}
  <1>0. Len(bundle) \in Nat /\ DOMAIN bundle = 1 .. Len(bundle)
    OBVIOUS
  <1>1. /\ after[0] = Issuing(cpu)
        /\ \A s \in 1 .. Len(bundle) :
             after[s] = IF after[s - 1].halted THEN after[s - 1]
                        ELSE ExecSyllable(after[s - 1], bundle[s])
    BY <1>0, SlotBySlotDef
  <1> HIDE DEF after, test
  <1>2. 0 \in S
    <2> DEFINE start == Issuing(cpu)
    <2>1. IsCpu(start) /\ start.gprs = cpu.gprs /\ start.preds = cpu.preds
      BY IssuingEffect DEF NewCpu
    <2> HIDE DEF start
    <2>2. \A t \in 1 .. 0 : bundle[t] # Op("CmpEq", p, q, 0, 0)
      OBVIOUS
    <2>3. start.preds[p] = cpu.preds[p]
      BY <2>1
    <2>4. TestedSlots(cpu, bundle, q, p, 0, start)
      BY <2>1, <2>2, <2>3, Zenon DEF TestedSlots
    <2> QED
      BY <1>1, <2>4 DEF start
  <1>3. ASSUME NEW n \in Nat, n \in S PROVE n + 1 \in S
    <2> SUFFICES ASSUME n + 1 <= Len(bundle)
                 PROVE  TestedSlots(cpu, bundle, q, p, n + 1, after[n + 1])
      OBVIOUS
    <2> DEFINE s == n + 1
               b == after[n]
               c == after[n + 1]
               syl == bundle[s]
               Idle(k) == \A t \in 1 .. k : bundle[t] # test
    <2>1. /\ s \in DOMAIN bundle /\ s \in 1 .. Len(bundle) /\ s - 1 = n
          /\ syl \in Syllable
          /\ syl # test /\ Idle(n) => Idle(s)
      BY <1>0
    <2>2. IsCpu(b) /\ b.gprs[q] = cpu.gprs[q]
      BY <1>0, <1>3 DEF TestedSlots
    <2>3. b.halted \/ ~b.preds[p] \/ (cpu.preds[p] /\ Idle(n))
      BY <1>0, <1>3 DEF TestedSlots, test
    <2>4. c = IF b.halted THEN b ELSE ExecSyllable(b, syl)
      BY <1>1, <2>1
    <2>5. GprWriteDst(syl) # q /\ (syl.op \in WritesPred /\ syl.dst = p => syl = test)
      BY <2>1 DEF Unwritten, OnlyTests, test
    <2> HIDE DEF b, c, syl, Idle, s
    <2>6. SUFFICES /\ IsCpu(c) /\ c.gprs[q] = cpu.gprs[q]
                   /\ c.halted \/ ~c.preds[p] \/ (cpu.preds[p] /\ Idle(s))
      BY DEF TestedSlots, c, s, Idle, test
    <2>7. CASE b.halted
      BY <2>2, <2>4, <2>7
    <2>8. CASE ~b.halted /\ syl = test
      <3>1. c = ExecSyllable(b, syl) /\ Active(b, syl) /\ ~c.preds[p]
        BY <2>2, <2>4, <2>8, TestFails DEF test
      <3>2. Frame(b, syl, c)
        BY <2>1, <2>2, <3>1, SyllableFrame
      <3> QED
        BY <2>2, <2>5, <3>1, <3>2 DEF Frame
    <2>9. CASE ~b.halted /\ syl # test /\ ~Active(b, syl)
      <3>1. c = b
        BY <2>4, <2>9 DEF ExecSyllable
      <3> QED
        BY <2>1, <2>2, <2>3, <2>9, <3>1, Zenon
    <2>10. CASE ~b.halted /\ syl # test /\ Active(b, syl)
      <3>1. Frame(b, syl, c)
        BY <2>1, <2>2, <2>4, <2>10, SyllableFrame
      <3>2. c.preds[p] = b.preds[p]
        BY <2>5, <2>10, <3>1 DEF Frame
      <3>3. IsCpu(c) /\ c.gprs[q] = cpu.gprs[q]
        BY <2>2, <2>5, <3>1 DEF Frame
      <3> QED
        BY <2>1, <2>3, <2>10, <3>2, <3>3, Zenon
    <2> QED
      BY <2>7, <2>8, <2>9, <2>10
  <1> HIDE DEF S
  <1>4. S = Nat
    BY <1>2, <1>3, NatSetInduction DEF S
  <1>5. m \in S /\ m <= Len(bundle)
    BY <1>0, <1>4
  <1> QED
    BY <1>5 DEF S, after

\* The last bundle of a loop goes on or back, and on if the test has failed.
LEMMA BranchGoes ==
    ASSUME NEW cpu, IsCpu(cpu), NEW bundle \in Seq(Syllable), ~cpu.halted,
           NEW p \in PredIndices \ {0}, NEW back, AsWord(back) = back,
           \A t \in DOMAIN bundle : bundle[t].op \in ControlOps =>
               bundle[t] = Guarded(p, Op("Branch", NoReg, NoReg, NoReg, back))
    PROVE  /\ ExecBundle(cpu, bundle).pc \in {cpu.pc + 1, back}
           /\ (\A n \in 0 .. Len(bundle) : LET c == SlotBySlot(cpu, bundle)[n]
                                           IN  c.halted \/ ~c.preds[p])
                => ExecBundle(cpu, bundle).pc = cpu.pc + 1
  <1> DEFINE after == SlotBySlot(cpu, bundle)
             branch == Guarded(p, Op("Branch", NoReg, NoReg, NoReg, back))
             Failed == \A n \in 0 .. Len(bundle) : after[n].halted \/ ~after[n].preds[p]
             Went(c) == /\ IsCpu(c) /\ ~c.halted /\ c.pc \in {cpu.pc + 1, back}
                        /\ Failed => c.pc = cpu.pc + 1
             S == {n \in Nat : n <= Len(bundle) => Went(after[n])}
  <1>0. Len(bundle) \in Nat /\ DOMAIN bundle = 1 .. Len(bundle)
    OBVIOUS
  <1>1. /\ after[0] = Issuing(cpu)
        /\ \A s \in 1 .. Len(bundle) :
             after[s] = IF after[s - 1].halted THEN after[s - 1]
                        ELSE ExecSyllable(after[s - 1], bundle[s])
    BY <1>0, SlotBySlotDef
  <1>2. branch.op = "Branch" /\ branch.pred = p /\ branch.neg = FALSE /\ branch.imm = back
    BY DEF Guarded, Op
  <1> HIDE DEF after, branch, Failed
  <1>3. 0 \in S
    <2> DEFINE start == Issuing(cpu)
    <2>1. IsCpu(start) /\ start.pc = cpu.pc + 1 /\ start.halted = cpu.halted
      BY IssuingEffect DEF NewCpu
    <2> HIDE DEF start
    <2> QED
      BY <1>1, <2>1 DEF start
  <1>4. ASSUME NEW n \in Nat, n \in S PROVE n + 1 \in S
    <2> SUFFICES ASSUME n + 1 <= Len(bundle) PROVE Went(after[n + 1])
      OBVIOUS
    <2> DEFINE s == n + 1
               b == after[n]
               c == after[n + 1]
               syl == bundle[s]
    <2>1. /\ s \in DOMAIN bundle /\ s \in 1 .. Len(bundle) /\ s - 1 = n
          /\ syl \in Syllable /\ n \in 0 .. Len(bundle) /\ Went(b)
          /\ syl.op \in ControlOps => syl = branch
      BY <1>0, <1>4 DEF branch
    <2>2. c = ExecSyllable(b, syl)
      BY <1>1, <2>1
    <2>3. Failed => ~b.preds[p]
      BY <2>1 DEF Failed
    <2> HIDE DEF b, c, syl, s
    <2>4. CASE ~Active(b, syl)
      <3>1. c = b
        BY <2>2, <2>4 DEF ExecSyllable
      <3> QED
        BY <2>1, <3>1 DEF c
    <2>5. CASE Active(b, syl) /\ syl.op \notin ControlOps
      <3>1. Frame(b, syl, c)
        BY <2>1, <2>2, <2>5, SyllableFrame
      <3>2. syl.op # "Ret"
        BY <2>5 DEF ControlOps
      <3>3. IsCpu(c) /\ c.pc = b.pc /\ c.halted = b.halted
        BY <2>5, <3>1, <3>2 DEF Frame
      <3> QED
        BY <2>1, <3>3 DEF c
    <2>6. CASE Active(b, syl) /\ syl.op \in ControlOps
      <3>1. syl = branch /\ Frame(b, syl, c)
        BY <2>1, <2>2, <2>6, SyllableFrame
      <3>2. c = ExecControl(b, syl)
        BY <2>2, <2>6, ExecSyllableCases
      <3>3. c = [b EXCEPT !.pc = back]
        BY <1>2, <3>1, <3>2 DEF ExecControl
      <3>4. c.pc = back
        BY <2>1, <3>3 DEF IsCpu, NewCpu
      <3>5. IsCpu(c) /\ ~c.halted
        BY <1>2, <2>1, <3>1 DEF Frame
      <3>6. ~Failed
        <4>1. ReadPred(b, p)
          BY <1>2, <2>6, <3>1 DEF Active, ReadPred
        <4>2. b.preds[p]
          BY <4>1 DEF ReadPred
        <4> QED
          BY <2>3, <4>2
      <3> QED
        BY <3>4, <3>5, <3>6 DEF c
    <2> QED
      BY <2>4, <2>5, <2>6
  <1> HIDE DEF S
  <1>5. Len(bundle) \in S
    BY <1>0, <1>3, <1>4, NatSetInduction
  <1>6. Went(after[Len(bundle)])
    BY <1>0, <1>5 DEF S
  <1>7. ExecBundle(cpu, bundle) = after[Len(bundle)]
    BY DEF ExecBundle, after
  <1> QED
    BY <1>6, <1>7 DEF Failed, after

-----------------------------------------------------------------------------
(* What a CPU runs when it issues: its bundle without the requested access. *)

Ran(c) == IF RequestOf(c) = NoReq THEN NextBundle(c) ELSE Rest(c)

RanFrom(c, m) == IF RequestOf(c) = NoReq THEN Synced(cpus[c], m) ELSE AtStart(c, m)

LEMMA RanFacts ==
    ASSUME SysInv, NEW c \in Cpus, ~Finished(cpus[c], programs[c]), NEW m
    PROVE  /\ Ran(c) \in Seq(Syllable) /\ DOMAIN Ran(c) = DOMAIN NextBundle(c)
           /\ \A s \in DOMAIN Ran(c) : Ran(c)[s] \in {NextBundle(c)[s], Nop}
           /\ RequestOf(c) # NoReq => Ran(c)[RequestOf(c).slot] = Nop
           /\ IsCpu(RanFrom(c, m))
           /\ RanFrom(c, m).gprs = cpus[c].gprs /\ RanFrom(c, m).preds = cpus[c].preds
           /\ RanFrom(c, m).halted = cpus[c].halted
           /\ RequestOf(c) = NoReq => RanFrom(c, m).pc = cpus[c].pc
  <1>1. /\ IsCpu(Synced(cpus[c], m))
        /\ Synced(cpus[c], m).gprs = cpus[c].gprs
        /\ Synced(cpus[c], m).preds = cpus[c].preds
        /\ Synced(cpus[c], m).halted = cpus[c].halted
        /\ Synced(cpus[c], m).pc = cpus[c].pc
    BY SyncedEffect DEF SysInv
  <1>2. CASE RequestOf(c) = NoReq
    <2>1. Ran(c) = NextBundle(c) /\ RanFrom(c, m) = Synced(cpus[c], m)
      BY <1>2 DEF Ran, RanFrom
    <2>2. NextBundle(c) \in Seq(Syllable)
      BY ProgramsAreSequences
    <2> QED
      BY <1>1, <1>2, <2>1, <2>2
  <1>3. CASE RequestOf(c) # NoReq
    <2>1. Ran(c) = Rest(c) /\ RanFrom(c, m) = AtStart(c, m)
      BY <1>3 DEF Ran, RanFrom
    <2>2. /\ Rest(c) \in Seq(Syllable) /\ DOMAIN Rest(c) = DOMAIN NextBundle(c)
          /\ \A s \in DOMAIN Rest(c) :
               Rest(c)[s] = IF s = RequestOf(c).slot THEN Nop ELSE NextBundle(c)[s]
          /\ IsCpu(AtStart(c, m))
      BY <1>3, RestFacts
    <2>3. \A f \in DOMAIN NewCpu \ {"pc"} : AtStart(c, m)[f] = Synced(cpus[c], m)[f]
      BY <1>3, RestFacts
    <2>5. /\ AtStart(c, m).gprs = Synced(cpus[c], m).gprs
          /\ AtStart(c, m).preds = Synced(cpus[c], m).preds
          /\ AtStart(c, m).halted = Synced(cpus[c], m).halted
      BY <2>3 DEF NewCpu
    <2>4. RequestOf(c).slot \in DOMAIN NextBundle(c)
      BY <1>3, RequestFacts
    <2> QED
      BY <1>1, <1>3, <2>1, <2>2, <2>4, <2>5
  <1> QED
    BY <1>2, <1>3

LEMMA IssuedRuns ==
    ASSUME SysInv, NEW c \in Cpus, NEW m, StepOf(c, m).result = "Issued"
    PROVE  LET d == StepOf(c, m).cpu
               e == ExecBundle(RanFrom(c, m), Ran(c))
           IN  /\ ~Finished(cpus[c], programs[c])
               /\ d.preds = e.preds /\ d.halted = e.halted
               /\ d.pc = IF RequestOf(c) = NoReq THEN e.pc ELSE cpus[c].pc + 1
  <1> DEFINE cpu == Synced(cpus[c], m)
             e   == ExecBundle(RanFrom(c, m), Ran(c))
  <1>1. ~Finished(cpus[c], programs[c])
    BY StepOfEffect DEF StepEffect
  <1>2. /\ IsCpu(cpu) /\ cpu.pc = cpus[c].pc /\ ~Finished(cpu, programs[c])
        /\ programs[c] \in Seq(Seq(Syllable)) /\ NextBundle(c) = programs[c][cpu.pc + 1]
    BY <1>1, SyncedEffect, SyncedIsFinished, ProgramsAreSequences DEF SysInv, NextBundle
  <1>3. CASE RequestOf(c) = NoReq
    <2>1. StepOf(c, m) = StepChecked(cpu, programs[c])
      BY <1>3 DEF StepOf
    <2>2. e = ExecBundle(cpu, programs[c][cpu.pc + 1])
      BY <1>2, <1>3 DEF Ran, RanFrom, NextBundle
    <2> HIDE DEF cpu, e
    <2>3. StepOf(c, m).cpu = e
      BY <1>2, <2>1, <2>2, StepCheckedEffect
    <2> QED
      BY <1>1, <1>3, <2>3 DEF e
  <1>4. CASE RequestOf(c) # NoReq
    <2> DEFINE start   == AtStart(c, m)
               program == <<Rest(c)>>
               inner   == StepChecked(start, program)
               pc      == IF Stepped(inner.result) THEN cpu.pc + 1 ELSE cpu.pc
    <2>1. /\ IsCpu(start) /\ program \in Seq(Seq(Syllable))
          /\ program[start.pc + 1] = Rest(c)
      BY <1>4, RestFacts
    <2>2. StepOf(c, m) = [inner EXCEPT !.cpu = [inner.cpu EXCEPT !.pc = pc]]
      BY <1>2, <1>4 DEF StepOf, StepBesideRequest, AtStart, Rest, cpu
    <2>3. e = ExecBundle(start, Rest(c))
      BY <1>4 DEF Ran, RanFrom
    <2> HIDE DEF start, program
    <2>4. /\ inner = [result |-> inner.result, cpu |-> inner.cpu] /\ IsCpu(inner.cpu)
          /\ inner.result = "Issued" => inner.cpu = ExecBundle(start, Rest(c))
      BY <2>1, StepCheckedEffect
    <2> HIDE DEF inner, pc, e, cpu
    <2>5. StepOf(c, m).cpu = [inner.cpu EXCEPT !.pc = pc] /\ StepOf(c, m).result = inner.result
      BY <2>2, <2>4
    <2>6. inner.result = "Issued" /\ inner.cpu = e
      BY <2>3, <2>4, <2>5
    <2>7. pc = cpus[c].pc + 1
      BY <1>2, <2>6 DEF pc, Stepped
    <2>8. /\ StepOf(c, m).cpu.preds = e.preds /\ StepOf(c, m).cpu.halted = e.halted
          /\ StepOf(c, m).cpu.pc = pc
      BY <2>4, <2>5, <2>6 DEF IsCpu, NewCpu
    <2> QED
      BY <1>1, <1>4, <2>7, <2>8 DEF e
  <1> QED
    BY <1>3, <1>4

\* A CPU that waits does not go back.
LEMMA StalledStays ==
    ASSUME SysInv, NEW c \in Cpus, NEW m, StepOf(c, m).result = "Stalled"
    PROVE  StepOf(c, m).cpu.pc \in {cpus[c].pc, cpus[c].pc + 1}
  <1> DEFINE cpu == Synced(cpus[c], m)
  <1>1. IsCpu(cpu) /\ cpu.pc = cpus[c].pc /\ NextBundle(c) = programs[c][cpu.pc + 1]
    BY SyncedEffect DEF SysInv, NextBundle
  <1>2. CASE RequestOf(c) = NoReq
    <2>1. StepOf(c, m) = StepChecked(cpu, programs[c])
      BY <1>2 DEF StepOf
    <2> HIDE DEF cpu
    <2>2. StepOf(c, m).cpu = [cpu EXCEPT !.cycle = @ + 1]
      BY <2>1 DEF StepChecked
    <2> QED
      BY <1>1, <2>2 DEF IsCpu, NewCpu
  <1>3. CASE RequestOf(c) # NoReq
    <2> DEFINE start   == AtStart(c, m)
               program == <<Rest(c)>>
               inner   == StepChecked(start, program)
               pc      == IF Stepped(inner.result) THEN cpu.pc + 1 ELSE cpu.pc
    <2>1. /\ IsCpu(start) /\ program \in Seq(Seq(Syllable))
      BY <1>3, RestFacts
    <2>2. StepOf(c, m) = [inner EXCEPT !.cpu = [inner.cpu EXCEPT !.pc = pc]]
      BY <1>1, <1>3 DEF StepOf, StepBesideRequest, AtStart, Rest, cpu
    <2> HIDE DEF start, program
    <2>3. inner = [result |-> inner.result, cpu |-> inner.cpu] /\ IsCpu(inner.cpu)
      BY <2>1, StepCheckedEffect
    <2>4. pc \in {cpus[c].pc, cpus[c].pc + 1}
      BY <1>1
    <2> HIDE DEF inner, pc, cpu
    <2>5. StepOf(c, m).cpu = [inner.cpu EXCEPT !.pc = pc]
      BY <2>2, <2>3
    <2>6. StepOf(c, m).cpu.pc = pc
      BY <2>3, <2>5 DEF IsCpu, NewCpu
    <2> QED
      BY <2>4, <2>6
  <1> QED
    BY <1>2, <1>3

-----------------------------------------------------------------------------
(* Polling loops. *)

\* Loop w: its consumer w.c, its last bundle w.n, its length w.len, the bundles
\* w.a that polls and w.b that tests, their register w.q and predicate w.p; and
\* the release it waits for, of register w.r by bundle w.i of CPU w.d at w.imm.
Poll(w) == Op("AcqLoad", w.q, 0, NoReg, w.imm)

Test(w) == Op("CmpEq", w.p, w.q, 0, 0)

Back(w) == Guarded(w.p, Op("Branch", NoReg, NoReg, NoReg, w.n - w.len))

\* What the bundles of the loop are.
LoopBundle(w, k) ==
    \A s \in DOMAIN Slots :
        LET syl == programs[w.c][k][s]
        IN  /\ GprWriteDst(syl) = w.q => syl = Poll(w)
            /\ syl.op \in WritesPred /\ syl.dst = w.p => syl = Test(w)
            /\ syl.op \notin Stores
            /\ \A j \in w.n - w.len + 1 .. k : \A t \in DOMAIN Slots :
                 GprWriteDst(syl) \in TimedReads(programs[w.c][j][t]) =>
                     StaticLatency(syl.op) <= w.len - (k - j)

Polling(w) ==
    /\ w.c \in Cpus /\ w.d \in Cpus \ {w.c}
    /\ w.n \in DOMAIN programs[w.c] /\ w.i \in DOMAIN programs[w.d]
    /\ w.r \in GprIndices /\ w.imm \in Int
    /\ AwaitsRelease(w.c, w.n, w.d, w.i, w.r, w.imm)
    /\ w.len \in 1 .. w.n /\ w.len % NumCpus = 0
    /\ AsWord(w.n - w.len) = w.n - w.len
    /\ w.q \in GprIndices \ {0} /\ w.p \in PredIndices \ {0}
    /\ w.a \in w.n - w.len + 1 .. w.n /\ w.b \in w.a + 1 .. w.n - 1
    /\ \E s \in DOMAIN Slots : programs[w.c][w.a][s] = Poll(w)
    /\ \E s \in DOMAIN Slots : programs[w.c][w.b][s] = Test(w)
    /\ \A k \in w.n - w.len + 1 .. w.n : LoopBundle(w, k)
    /\ \A s \in DOMAIN Slots :
         programs[w.c][w.n][s].op \in ControlOps => programs[w.c][w.n][s] = Back(w)

\* The consumer has not left the loop.
Pending(w) == cpus[w.c].pc < w.n /\ ~cpus[w.c].halted

\* The rounds keep their bus slots, and what a bundle of the loop reads is ready
\* when the consumer comes to it, in this round and in the next.
InRounds(w) ==
    LET cpu == cpus[w.c]
    IN  /\ cpu.pc <= cycle
        /\ cpu.pc % NumCpus = cycle % NumCpus
        /\ cpu.pc < cycle => cpu.pc >= w.n - w.len
        /\ \A k \in 1 .. w.n : \A s \in DOMAIN Slots :
             \A g \in TimedReads(programs[w.c][k][s]) :
                /\ k > cpu.pc => cpu.ready[g] <= cycle + (k - cpu.pc)
                /\ k > w.n - w.len => cpu.ready[g] <= cycle + (k - cpu.pc) + w.len

ReleasedTo(w) == cpus[w.d].pc >= w.i

\* Memory holds the released word; no round before this one polled after the
\* release, and if this one did it has the word and will not go back.
SeesRelease(w) ==
    LET cpu    == cpus[w.c]
        polled == (cycle - cpu.pc) + w.a
    IN  ReleasedTo(w) =>
          /\ LoadBytes(memory, AsWord(w.imm), 8) = ReadGpr(cpus[w.d], w.r)
          /\ ReadGpr(cpus[w.d], w.r) # 0 =>
               /\ cpu.pc < cycle => polled <= w.i + w.len
               /\ cpu.pc >= w.a /\ polled > w.i =>
                    /\ cpu.gprs[w.q] # 0
                    /\ cpu.pc >= w.b => ~cpu.preds[w.p]

PollState(w) ==
    /\ cpus[w.c].gprs[LinkReg] = 0
    /\ Pending(w) => InRounds(w) /\ SeesRelease(w)

PollInv == \A w : Polling(w) => PollState(w)


LEMMA BundleOf ==
    ASSUME SysInv, NEW c \in Cpus, NEW k \in DOMAIN programs[c]
    PROVE  /\ programs[c][k] \in Seq(Syllable) /\ DOMAIN programs[c][k] = DOMAIN Slots
           /\ \A s \in DOMAIN Slots : programs[c][k][s] \in Syllable
           /\ k \in Nat /\ 1 .. k \subseteq DOMAIN programs[c]
  <1>1. programs[c] \in Seq(Seq(Syllable)) /\ Len(programs[c][k]) = Len(Slots)
    BY SystemAssumption, ProgramsAreSequences DEF SysInv
  <1>2. programs[c][k] \in Seq(Syllable) /\ k \in 1 .. Len(programs[c])
    BY <1>1
  <1>3. DOMAIN Slots = 1 .. Len(Slots)
    BY LayoutAssumption
  <1> QED
    BY <1>1, <1>2, <1>3

LEMMA GreatestOfOne ==
    ASSUME NEW x \in Int
    PROVE  Max({x}) = x
  <1>1. \E y \in {x} : \A z \in {x} : y >= z
    OBVIOUS
  <1> QED
    BY <1>1 DEF Max

\* The Branch of the last bundle goes back by the length of a round.
LEMMA PollLengthIs ==
    ASSUME SysInv, NEW c \in Cpus, NEW n \in DOMAIN programs[c],
           EndsPollingLoop(programs[c], n), NEW imm, WaitsFor(programs[c], n, imm)
    PROVE  LET len == PollLength(programs[c], n)
           IN  /\ len \in 1 .. n
               /\ AsWord(n - len) = n - len
  <1> DEFINE program  == programs[c]
             len      == PollLength(program, n)
             branches == {t \in DOMAIN program[n] : program[n][t].op = "Branch"}
             lengths  == {n - AsWord(program[n][s].imm) : s \in branches}
  <1>1. n \in Nat /\ \A t \in DOMAIN program[n] : program[n][t] \in Syllable
    BY BundleOf
  <1>2. PICK s \in DOMAIN program[n] :
          program[n][s].op = "Branch" /\ program[n][s].imm \in 0 .. n - 1
    BY DEF EndsPollingLoop
  <1>3. PICK p \in PredIndices \ {0} :
          \A t \in DOMAIN program[n] : program[n][t].op \in ControlOps =>
             program[n][t] = Guarded(p, Op("Branch", NoReg, NoReg, NoReg, n - len))
    BY DEF WaitsFor
  <1>4. \A t \in branches : program[n][t].imm = n - len
    BY <1>3 DEF Guarded, Op, ControlOps
  <1>5. len = Max(lengths)
    BY DEF PollLength
  <1> DEFINE x == program[n][s].imm
  <1>6. x = n - len /\ x \in 0 .. n - 1 /\ x \in Int
    BY <1>1, <1>2, <1>4
  <1>7. lengths = {n - AsWord(x)}
    BY <1>2, <1>4, <1>6
  <1>8. AsWord(x) \in Nat
    BY <1>6, AsWordType DEF Words
  <1>9. len = n - AsWord(x)
    <2>1. n - AsWord(x) \in Int
      BY <1>1, <1>8
    <2> HIDE DEF x, len, lengths
    <2> QED
      BY <1>5, <1>7, <2>1, GreatestOfOne
  <1> HIDE DEF x, len
  <1>10. AsWord(x) = x /\ len \in 1 .. n
    BY <1>1, <1>6, <1>8, <1>9
  <1>11. AsWord(n - len) = n - len
    BY <1>6, <1>10
  <1> QED
    BY <1>10, <1>11 DEF len

\* In a loop that waits, only the poll writes its register, only the test writes
\* its predicate, and nothing is stored.
LEMMA WaitingLoop ==
    ASSUME SysInv, NEW w, w.c \in Cpus, w.n \in DOMAIN programs[w.c],
           w.len = PollLength(programs[w.c], w.n), w.len \in 1 .. w.n,
           KeepsItsSlots(programs[w.c], w.n),
           w.q \in GprIndices \ {0}, w.p \in PredIndices \ {0},
           Writes(programs[w.c], w.n, w.q, w.p) = {Poll(w), Test(w)},
           \A b \in PollLoop(programs[w.c], w.n) : \A s \in DOMAIN Slots :
               programs[w.c][b][s].op \notin Stores,
           NEW k \in w.n - w.len + 1 .. w.n
    PROVE  LoopBundle(w, k)
  <1> DEFINE program == programs[w.c]
             loop    == w.n - w.len + 1 .. w.n
  <1>1. PollLoop(program, w.n) = loop
    BY DEF PollLoop
  <1>2. w.n \in Nat /\ 1 .. w.n \subseteq DOMAIN program
    BY BundleOf
  <1>3. k \in DOMAIN program /\ w.n - w.len \in Nat
    BY <1>2
  <1>4. DOMAIN program[k] = DOMAIN Slots
    BY <1>3, BundleOf
  <1> SUFFICES ASSUME NEW s \in DOMAIN Slots
               PROVE  LET syl == program[k][s]
                      IN  /\ GprWriteDst(syl) = w.q => syl = Poll(w)
                          /\ syl.op \in WritesPred /\ syl.dst = w.p => syl = Test(w)
                          /\ syl.op \notin Stores
                          /\ \A j \in w.n - w.len + 1 .. k : \A t \in DOMAIN Slots :
                               GprWriteDst(syl) \in TimedReads(program[j][t]) =>
                                   StaticLatency(syl.op) <= w.len - (k - j)
    BY DEF LoopBundle
  <1> DEFINE syl == program[k][s]
  <1>5. \/ GprWriteDst(syl) = w.q
        \/ syl.op \in WritesPred /\ syl.dst = w.p
        => syl \in {Poll(w), Test(w)}
    <2>1. syl \in Range(program[k])
      BY <1>4 DEF Range
    <2>2. syl \in UNION {Range(program[b]) : b \in PollLoop(program, w.n)}
      BY <1>1, <2>1
    <2> QED
      BY <2>2 DEF Writes
  <1>6. Poll(w).op = "AcqLoad" /\ Test(w).op = "CmpEq"
    BY DEF Poll, Test, Op
  <1>7. Poll(w).op \notin WritesPred
    BY <1>6 DEF WritesPred, Compares, IntegerCompares, FpCompares, PredicateOps
  <1>8. GprWriteDst(Test(w)) # w.q
    BY <1>6 DEF GprWriteDst, GprWriters, GprIndices, NoReg, IntegerOps, MultiplyOps,
                Fp32Ops, Fp64Ops, AesOps, Loads
  <1>9. syl.op \notin Stores
    BY <1>1
  <1>10. ASSUME NEW j \in w.n - w.len + 1 .. k, NEW t \in DOMAIN Slots,
                GprWriteDst(syl) \in TimedReads(program[j][t])
         PROVE  StaticLatency(syl.op) <= w.len - (k - j)
    <2>1. j \in loop /\ j <= k
      BY <1>2, <1>3
    <2> QED
      BY <1>1, <1>10, <2>1 DEF KeepsItsSlots
  <1> QED
    BY <1>5, <1>7, <1>8, <1>9, <1>10

\* The property's hypotheses give a loop.
LEMMA LoopOf ==
    ASSUME SysInv, NEW c \in Cpus, NEW d \in Cpus \ {c},
           NEW n \in DOMAIN programs[c], NEW i \in DOMAIN programs[d],
           NEW r \in GprIndices, NEW imm \in Int,
           EndsPollingLoop(programs[c], n), AwaitsRelease(c, n, d, i, r, imm)
    PROVE  \E w : /\ Polling(w)
                  /\ w.c = c /\ w.d = d /\ w.n = n /\ w.i = i /\ w.r = r /\ w.imm = imm
                  /\ w.len = PollLength(programs[c], n)
  <1> DEFINE len == PollLength(programs[c], n)
  <1>1. KeepsItsSlots(programs[c], n) /\ WaitsFor(programs[c], n, imm)
    BY DEF AwaitsRelease
  <1>2. len \in 1 .. n /\ AsWord(n - len) = n - len
    BY <1>1, PollLengthIs
  <1>3. len % NumCpus = 0
    BY <1>1 DEF KeepsItsSlots
  <1>4. PollLoop(programs[c], n) = n - len + 1 .. n
    BY DEF PollLoop
  <1>5. PICK q \in GprIndices \ {0}, p \in PredIndices \ {0} :
          /\ \E a, b \in n - len + 1 .. n :
               /\ a < b /\ b < n
               /\ Op("AcqLoad", q, 0, NoReg, imm) \in Range(programs[c][a])
               /\ Op("CmpEq", p, q, 0, 0) \in Range(programs[c][b])
          /\ Writes(programs[c], n, q, p) =
               {Op("AcqLoad", q, 0, NoReg, imm), Op("CmpEq", p, q, 0, 0)}
          /\ \A s \in DOMAIN programs[c][n] :
               programs[c][n][s].op \in ControlOps =>
                   programs[c][n][s] = Guarded(p, Op("Branch", NoReg, NoReg, NoReg, n - len))
          /\ \A b \in n - len + 1 .. n : \A s \in DOMAIN Slots :
               programs[c][b][s].op \notin Stores
    BY <1>1, <1>4 DEF WaitsFor
  <1>6. PICK a, b \in n - len + 1 .. n :
          /\ a < b /\ b < n
          /\ Op("AcqLoad", q, 0, NoReg, imm) \in Range(programs[c][a])
          /\ Op("CmpEq", p, q, 0, 0) \in Range(programs[c][b])
    BY <1>5
  <1>7. n \in Nat /\ 1 .. n \subseteq DOMAIN programs[c] /\ DOMAIN programs[c][n] = DOMAIN Slots
    BY BundleOf
  <1> DEFINE w == [c |-> c, d |-> d, n |-> n, i |-> i, r |-> r, imm |-> imm, len |-> len,
                   q |-> q, p |-> p, a |-> a, b |-> b]
  <1>8. /\ w.c = c /\ w.d = d /\ w.n = n /\ w.i = i /\ w.r = r /\ w.imm = imm
        /\ w.len = len /\ w.q = q /\ w.p = p /\ w.a = a /\ w.b = b
    OBVIOUS
  <1>9. /\ Poll(w) = Op("AcqLoad", q, 0, NoReg, imm) /\ Test(w) = Op("CmpEq", p, q, 0, 0)
        /\ Back(w) = Guarded(p, Op("Branch", NoReg, NoReg, NoReg, n - len))
    BY <1>8 DEF Poll, Test, Back
  <1> HIDE DEF w, len
  <1>10. a \in DOMAIN programs[c] /\ b \in DOMAIN programs[c] /\ n - len \in Nat
    BY <1>2, <1>7
  <1>11. DOMAIN programs[c][a] = DOMAIN Slots /\ DOMAIN programs[c][b] = DOMAIN Slots
    BY <1>10, BundleOf
  <1>12. \E s \in DOMAIN Slots : programs[c][a][s] = Poll(w)
    BY <1>6, <1>9, <1>11 DEF Range
  <1>13. \E s \in DOMAIN Slots : programs[c][b][s] = Test(w)
    BY <1>6, <1>9, <1>11 DEF Range
  <1>14. \A k \in n - len + 1 .. n : LoopBundle(w, k)
    <2> SUFFICES ASSUME NEW k \in n - len + 1 .. n PROVE LoopBundle(w, k)
      OBVIOUS
    <2>1. w.len = PollLength(programs[w.c], w.n)
      BY <1>8 DEF len
    <2>2. Writes(programs[w.c], w.n, w.q, w.p) = {Poll(w), Test(w)}
      BY <1>5, <1>8, <1>9
    <2>3. \A h \in PollLoop(programs[w.c], w.n) : \A s \in DOMAIN Slots :
             programs[w.c][h][s].op \notin Stores
      BY <1>4, <1>5, <1>8
    <2>4. w.c \in Cpus /\ w.n \in DOMAIN programs[w.c] /\ KeepsItsSlots(programs[w.c], w.n)
      BY <1>1, <1>8
    <2>5. w.len \in 1 .. w.n /\ k \in w.n - w.len + 1 .. w.n
      BY <1>2, <1>8
    <2>6. w.q \in GprIndices \ {0} /\ w.p \in PredIndices \ {0}
      BY <1>8
    <2> QED
      BY <2>1, <2>2, <2>3, <2>4, <2>5, <2>6, WaitingLoop
  <1>15. b \in a + 1 .. n - 1
    BY <1>2, <1>6, <1>7, <1>10
  <1>16. /\ w.c \in Cpus /\ w.d \in Cpus \ {w.c}
         /\ w.n \in DOMAIN programs[w.c] /\ w.i \in DOMAIN programs[w.d]
         /\ w.r \in GprIndices /\ w.imm \in Int
    BY <1>8
  <1>17. /\ AwaitsRelease(w.c, w.n, w.d, w.i, w.r, w.imm)
         /\ w.len \in 1 .. w.n /\ w.len % NumCpus = 0
         /\ AsWord(w.n - w.len) = w.n - w.len
         /\ w.q \in GprIndices \ {0} /\ w.p \in PredIndices \ {0}
         /\ w.a \in w.n - w.len + 1 .. w.n /\ w.b \in w.a + 1 .. w.n - 1
    BY <1>2, <1>3, <1>8, <1>15 DEF len
  <1>18. /\ \E s \in DOMAIN Slots : programs[w.c][w.a][s] = Poll(w)
         /\ \E s \in DOMAIN Slots : programs[w.c][w.b][s] = Test(w)
         /\ \A k \in w.n - w.len + 1 .. w.n : LoopBundle(w, k)
         /\ \A s \in DOMAIN Slots :
              programs[w.c][w.n][s].op \in ControlOps => programs[w.c][w.n][s] = Back(w)
    BY <1>5, <1>7, <1>8, <1>9, <1>12, <1>13, <1>14
  <1>19. Polling(w)
    BY <1>16, <1>17, <1>18 DEF Polling
  <1> QED
    BY <1>8, <1>19 DEF len

\* Nothing in the consumer's program calls, and only its last bundle goes back.
LEMMA ConsumerBundle ==
    ASSUME SysInv, NEW w, Polling(w), NEW k \in DOMAIN programs[w.c]
    PROVE  /\ Unwritten(programs[w.c][k], LinkReg)
           /\ k # w.n => GoesForward(programs[w.c][k])
           /\ BundleTimingOk(programs[w.c], k)
  <1> DEFINE program == programs[w.c]
             bundle  == program[k]
  <1>1. w.c \in Cpus /\ w.n \in DOMAIN program /\ AwaitsRelease(w.c, w.n, w.d, w.i, w.r, w.imm)
    BY DEF Polling
  <1>2. StraightLine(Unrolled(program, w.n)) /\ SystemVerified(programs)
    BY <1>1 DEF AwaitsRelease, KeepsItsSlots
  <1>3. NoReg # LinkReg
    BY CpuAssumption DEF NoReg
  <1>4. /\ DOMAIN Unrolled(program, w.n) = DOMAIN program
        /\ k # w.n => Unrolled(program, w.n)[k] = bundle
        /\ k = w.n => Unrolled(program, w.n)[k] =
             [s \in DOMAIN bundle |-> IF bundle[s].op = "Branch" THEN Nop ELSE bundle[s]]
    <2>1. program \in Seq(Seq(Syllable)) /\ k \in DOMAIN program
      BY <1>1, ProgramsAreSequences
    <2> HIDE DEF program
    <2> QED
      BY <1>1, <2>1 DEF Unrolled
  <1>5. ASSUME k # w.n
        PROVE  GoesForward(bundle) /\ Unwritten(bundle, LinkReg)
    <2>1. \A s \in DOMAIN bundle :
             bundle[s].op \notin ControlOps \ {"Ret"} /\ bundle[s].dst # LinkReg
      BY <1>2, <1>4, <1>5 DEF StraightLine
    <2> QED
      BY <1>3, <1>5, <2>1 DEF Unwritten, GoesForward, GprWriteDst, ControlOps
  <1>6. ASSUME k = w.n
        PROVE  Unwritten(bundle, LinkReg)
    <2>1. \A s \in DOMAIN bundle : bundle[s].op # "Branch" =>
             bundle[s].op \notin ControlOps \ {"Ret"} /\ bundle[s].dst # LinkReg
      BY <1>2, <1>4, <1>6 DEF StraightLine
    <2>2. \A s \in DOMAIN bundle : bundle[s].op = "Branch" => GprWriteDst(bundle[s]) = NoReg
      BY DEF GprWriteDst, GprWriters, IntegerOps, MultiplyOps, Fp32Ops, Fp64Ops, AesOps, Loads
    <2> QED
      BY <1>3, <1>6, <2>1, <2>2 DEF Unwritten, GprWriteDst, ControlOps
  <1>7. BundleTimingOk(program, k)
    <2>1. w.c \in DOMAIN programs
      BY <1>1, SystemAssumption DEF SysInv
    <2> QED
      BY <1>2, <2>1 DEF SystemVerified, VerifiedFor
  <1> QED
    BY <1>5, <1>6, <1>7

-----------------------------------------------------------------------------
(* A call in which the consumer stays in its loop. *)

\* The consumer, its next bundle and the operations of that bundle.
LEMMA ConsumerFacts ==
    ASSUME SysInv, TypeOK, NEW w, Polling(w)
    PROVE  /\ w.c \in Cpus /\ w.d \in Cpus /\ w.n \in Nat /\ w.i \in Nat \ {0}
           /\ w.n \in DOMAIN programs[w.c] /\ 1 .. w.n \subseteq DOMAIN programs[w.c]
           /\ w.len \in 1 .. w.n /\ w.a \in w.n - w.len + 1 .. w.n - 2
           /\ w.b \in w.a + 1 .. w.n - 1
           /\ cycle \in Nat /\ cpus[w.c].pc \in Nat
           /\ \A g \in GprIndices : cpus[w.c].ready[g] \in Nat
           /\ ~Finished(cpus[w.c], programs[w.c]) =>
                /\ cpus[w.c].pc + 1 \in DOMAIN programs[w.c]
                /\ NextBundle(w.c) = programs[w.c][cpus[w.c].pc + 1]
                /\ DOMAIN NextBundle(w.c) = DOMAIN Slots
                /\ \A s \in DOMAIN Slots : NextBundle(w.c)[s] \in Syllable
  <1>1. /\ w.c \in Cpus /\ w.d \in Cpus /\ w.n \in DOMAIN programs[w.c]
        /\ w.i \in DOMAIN programs[w.d] /\ w.len \in 1 .. w.n
        /\ w.a \in w.n - w.len + 1 .. w.n /\ w.b \in w.a + 1 .. w.n - 1
    BY DEF Polling
  <1>2. w.n \in Nat /\ 1 .. w.n \subseteq DOMAIN programs[w.c]
    BY <1>1, BundleOf
  <1>3. w.i \in Nat \ {0}
    <2>1. programs[w.d] \in Seq(Seq(Syllable))
      BY <1>1, ProgramsAreSequences
    <2> QED
      BY <1>1, <2>1
  <1>4. w.a \in w.n - w.len + 1 .. w.n - 2
    BY <1>1, <1>2
  <1>5. cycle \in Nat /\ cpus[w.c] \in CpuStates
    BY <1>1 DEF TypeOK
  <1>6. cpus[w.c].pc \in Nat /\ \A g \in GprIndices : cpus[w.c].ready[g] \in Nat
    BY <1>5 DEF CpuStates
  <1>7. ~Finished(cpus[w.c], programs[w.c]) =>
                /\ cpus[w.c].pc + 1 \in DOMAIN programs[w.c]
                /\ NextBundle(w.c) = programs[w.c][cpus[w.c].pc + 1]
                /\ DOMAIN NextBundle(w.c) = DOMAIN Slots
                /\ \A s \in DOMAIN Slots : NextBundle(w.c)[s] \in Syllable
    BY <1>1, BundleFillsSlots
  <1> QED
    BY <1>1, <1>2, <1>3, <1>4, <1>5, <1>6, <1>7

\* A consumer in its rounds waits for nothing.
LEMMA RoundIsReady ==
    ASSUME SysInv, TypeOK, NEW w, Polling(w), Pending(w), InRounds(w),
           ~Finished(cpus[w.c], programs[w.c]), NEW m
    PROVE  /\ \A s \in DOMAIN NextBundle(w.c) :
                ~UnreadySource(Synced(cpus[w.c], m), NextBundle(w.c)[s])
           /\ ~HasUnreadySources(Synced(cpus[w.c], m), NextBundle(w.c))
  <1> DEFINE pc == cpus[w.c].pc
             k  == pc + 1
  <1>1. /\ w.c \in Cpus /\ w.n \in Nat /\ pc \in Nat /\ cycle \in Nat
        /\ NextBundle(w.c) = programs[w.c][k] /\ DOMAIN NextBundle(w.c) = DOMAIN Slots
    BY ConsumerFacts
  <1>2. k \in 1 .. w.n /\ k > pc /\ k - pc = 1
    BY <1>1 DEF Pending
  <1>3. \A s \in DOMAIN Slots : \A g \in TimedReads(programs[w.c][k][s]) :
          cpus[w.c].ready[g] <= cycle + (k - pc)
    BY <1>2 DEF InRounds
  <1> HIDE DEF k
  <1>4. \A s \in DOMAIN NextBundle(w.c) : \A g \in TimedReads(NextBundle(w.c)[s]) :
          cpus[w.c].ready[g] <= cycle + 1
    BY <1>1, <1>2, <1>3
  <1> QED
    BY <1>1, <1>4, ReadyInTime

\* The consumer after a call: on to the next bundle, or back from the last.
GoesOn(w, m) ==
    LET cpu == cpus[w.c]
    IN  /\ CallFor(w.c, m) /\ StepOf(w.c, m).result = "Issued"
        /\ ~Finished(cpu, programs[w.c])
        /\ status' = "running" /\ cycle' = cycle + 1
        /\ \/ cpu.pc + 1 < w.n /\ cpus'[w.c].pc = cpu.pc + 1
           \/ cpu.pc + 1 = w.n /\ cpus'[w.c].pc = w.n - w.len /\ RequestOf(w.c) = NoReq

\* The Branch of the last bundle goes on or back.
LEMMA LastBundle ==
    ASSUME SysInv, TypeOK, NEW w, Polling(w), NEW m, StepOf(w.c, m).result = "Issued",
           cpus[w.c].pc + 1 = w.n
    PROVE  LET bundle == Ran(w.c)
               from   == RanFrom(w.c, m)
               pc     == StepOf(w.c, m).cpu.pc
           IN  /\ pc \in {w.n, w.n - w.len}
               /\ RequestOf(w.c) # NoReq => pc = w.n
               /\ (\A s \in 0 .. Len(bundle) : LET c == SlotBySlot(from, bundle)[s]
                                               IN  c.halted \/ ~c.preds[w.p])
                    => pc = w.n
  <1> DEFINE bundle == Ran(w.c)
             from   == RanFrom(w.c, m)
             back   == w.n - w.len
             pc     == StepOf(w.c, m).cpu.pc
             Failed == \A s \in 0 .. Len(bundle) : LET c == SlotBySlot(from, bundle)[s]
                                                   IN  c.halted \/ ~c.preds[w.p]
  <1>1. /\ w.c \in Cpus /\ w.p \in PredIndices \ {0} /\ AsWord(back) = back
        /\ \A s \in DOMAIN Slots :
             programs[w.c][w.n][s].op \in ControlOps => programs[w.c][w.n][s] = Back(w)
    BY DEF Polling
  <1>2. /\ ~Finished(cpus[w.c], programs[w.c])
        /\ pc = IF RequestOf(w.c) = NoReq THEN ExecBundle(from, bundle).pc ELSE w.n
    BY <1>1, IssuedRuns
  <1>3. CASE RequestOf(w.c) # NoReq
    BY <1>2, <1>3
  <1>4. CASE RequestOf(w.c) = NoReq
    <2>1. bundle = NextBundle(w.c)
      BY <1>4 DEF Ran
    <2>2. NextBundle(w.c) = programs[w.c][w.n] /\ DOMAIN NextBundle(w.c) = DOMAIN Slots
      BY <1>2, ConsumerFacts
    <2>3. /\ bundle \in Seq(Syllable) /\ IsCpu(from) /\ from.halted = cpus[w.c].halted
          /\ from.pc = cpus[w.c].pc
      BY <1>1, <1>2, <1>4, RanFacts
    <2>4. ~from.halted
      BY <1>2, <2>3 DEF Finished
    <2>5. \A t \in DOMAIN bundle : bundle[t].op \in ControlOps =>
             bundle[t] = Guarded(w.p, Op("Branch", NoReg, NoReg, NoReg, back))
      BY <1>1, <2>1, <2>2 DEF Back
    <2> HIDE DEF bundle, from, back
    <2>6. /\ ExecBundle(from, bundle).pc \in {from.pc + 1, back}
          /\ (\A s \in 0 .. Len(bundle) : LET c == SlotBySlot(from, bundle)[s]
                                          IN  c.halted \/ ~c.preds[w.p])
               => ExecBundle(from, bundle).pc = from.pc + 1
      BY <1>1, <2>3, <2>4, <2>5, BranchGoes
    <2>7. from.pc + 1 = w.n
      BY <2>3
    <2>8. pc = ExecBundle(from, bundle).pc
      BY <1>2, <1>4
    <2> HIDE DEF pc
    <2>9. pc \in {w.n, back} /\ (Failed => pc = w.n)
      BY <2>6, <2>7, <2>8
    <2> QED
      BY <1>4, <2>9 DEF pc, back, from, bundle
  <1> QED
    BY <1>3, <1>4

\* A consumer that is in the loop after a call was there before it.
LEMMA StaysInLoop ==
    ASSUME SysInv, TypeOK, NEW w, Polling(w), PollState(w), Returns,
           programs' = programs, Pending(w)'
    PROVE  Pending(w) /\ \E m : GoesOn(w, m)
  <1> DEFINE c   == w.c
             cpu == cpus[c]
             d   == cpus'[c]
  <1>0. /\ c \in Cpus /\ w.n \in Nat /\ w.n \in DOMAIN programs[c] /\ w.len \in 1 .. w.n
        /\ 1 .. w.n \subseteq DOMAIN programs[c]
        /\ cpu.pc \in Nat
    BY ConsumerFacts
  <1>1. d.pc < w.n /\ ~d.halted
    BY DEF Pending
  <1>2. PICK m : CallFor(c, m)
    BY <1>0 DEF Returns
  <1> DEFINE step == StepOf(c, m)
  <1>3. /\ StepEffect(c, m, step) /\ step.result # "Fault" /\ CpuOfCall(c, step, d)
        /\ d.pc = step.cpu.pc /\ d.halted = step.cpu.halted
    BY <1>2 DEF CallFor, CpuOfCall
  <1>4. ~Finished(cpu, programs[c])
    <2>1. SUFFICES ASSUME Finished(cpu, programs[c]) PROVE FALSE
      OBVIOUS
    <2>2. step.cpu = Synced(cpu, m) /\ IsCpu(cpu) /\ cycle \in Nat
      BY <1>0, <1>3, <2>1 DEF StepEffect, SysInv
    <2>3. step.cpu.pc = cpu.pc /\ step.cpu.halted = cpu.halted
      BY <2>2, SyncedEffect
    <2>4. cpu.pc + 1 \in 1 .. w.n
      BY <1>0, <1>1, <1>3, <2>3
    <2> QED
      BY <1>0, <1>1, <1>3, <2>1, <2>3, <2>4 DEF Finished
  <1>5. ~cpu.halted
    BY <1>4 DEF Finished
  <1>6. step.result \in {"Issued", "Stalled"}
    BY <1>1, <1>3, <1>4 DEF StepEffect, StepResults
  <1>7. step.result = "Issued" /\ cpu.pc + 1 # w.n => d.pc = cpu.pc + 1
    <2> SUFFICES ASSUME step.result = "Issued", cpu.pc + 1 # w.n PROVE d.pc = cpu.pc + 1
      OBVIOUS
    <2>1. GoesForward(NextBundle(c))
      BY <1>4, ConsumerFacts, ConsumerBundle
    <2>2. cpu.gprs[LinkReg] = 0
      BY DEF PollState
    <2> QED
      BY <1>3, <2>1, <2>2 DEF StepEffect, OwnEffect
  <1>8. Pending(w)
    <2>1. SUFFICES ASSUME cpu.pc >= w.n PROVE FALSE
      BY <1>0, <1>5 DEF Pending
    <2>2. cpu.pc + 1 # w.n
      BY <1>0, <2>1
    <2>3. CASE step.result = "Issued"
      BY <1>0, <1>1, <1>7, <2>1, <2>2, <2>3
    <2>4. CASE step.result = "Stalled"
      BY <1>0, <1>1, <1>3, <2>1, <2>4, StalledStays
    <2> QED
      BY <1>6, <2>3, <2>4
  <1>9. step.result = "Issued"
    <2>1. InRounds(w)
      BY <1>8 DEF PollState
    <2> QED
      BY <1>3, <1>4, <1>6, <1>8, <2>1, RoundIsReady DEF StepEffect
  <1>10. status' = "running" /\ cycle' = cycle + 1
    BY <1>2, <1>9 DEF CallFor, Returns, Stepped
  <1>11. \/ cpu.pc + 1 < w.n /\ d.pc = cpu.pc + 1
         \/ cpu.pc + 1 = w.n /\ d.pc = w.n - w.len /\ RequestOf(c) = NoReq
    <2>1. cpu.pc + 1 <= w.n
      BY <1>0, <1>8 DEF Pending
    <2>2. CASE cpu.pc + 1 # w.n
      BY <1>0, <1>7, <1>9, <2>1, <2>2
    <2>3. CASE cpu.pc + 1 = w.n
      BY <1>0, <1>1, <1>3, <1>9, <2>3, LastBundle
    <2> QED
      BY <2>2, <2>3
  <1> QED
    BY <1>2, <1>4, <1>8, <1>9, <1>10, <1>11 DEF GoesOn

-----------------------------------------------------------------------------
(* The rounds keep their bus slots. *)

LEMMA RemainderIs ==
    ASSUME NEW x \in Nat, NEW n \in Nat \ {0}
    PROVE  /\ x % n \in 0 .. n - 1 /\ x \div n \in Nat
           /\ x = (x \div n) * n + (x % n)
  BY Z3

LEMMA NextSlot ==
    ASSUME NEW x \in Nat, NEW y \in Nat, NEW n \in Nat \ {0}, x % n = y % n
    PROVE  (x + 1) % n = (y + 1) % n
  <1> DEFINE r == x % n
             p == x \div n
             q == y \div n
  <1>1. r \in 0 .. n - 1 /\ p \in Nat /\ q \in Nat /\ x = p * n + r /\ y = q * n + r
    BY RemainderIs
  <1> HIDE DEF r, p, q
  <1>2. CASE r < n - 1
    <2>1. r + 1 \in 0 .. n - 1
      BY <1>1, <1>2
    <2>2. (p * n + (r + 1)) % n = r + 1 /\ (q * n + (r + 1)) % n = r + 1
      BY <1>1, <2>1, RemainderFacts
    <2>3. p * n \in Nat /\ q * n \in Nat
      BY <1>1, Z3
    <2>4. x + 1 = p * n + (r + 1) /\ y + 1 = q * n + (r + 1)
      BY <1>1, <2>3
    <2> QED
      BY <2>2, <2>4
  <1>3. CASE r = n - 1
    <2>1. ((p + 1) * n + 0) % n = 0 /\ ((q + 1) * n + 0) % n = 0
      BY <1>1, RemainderFacts
    <2>2. (p + 1) * n = p * n + n /\ (q + 1) * n = q * n + n /\ p * n \in Nat /\ q * n \in Nat
      BY <1>1, Z3
    <2>3. x + 1 = (p + 1) * n + 0 /\ y + 1 = (q + 1) * n + 0
      BY <1>1, <1>3, <2>2
    <2> QED
      BY <2>1, <2>3
  <1> QED
    BY <1>1, <1>2, <1>3

LEMMA SlotOfRound ==
    ASSUME NEW x \in Nat, NEW l \in Nat, NEW n \in Nat \ {0}, l % n = 0, l <= x
    PROVE  (x - l) % n = x % n
  <1> DEFINE r == (x - l) % n
             p == (x - l) \div n
             k == l \div n
  <1>0. x - l \in Nat
    OBVIOUS
  <1>1. r \in 0 .. n - 1 /\ p \in Nat /\ x - l = p * n + r
    BY <1>0, RemainderIs
  <1>5. k \in Nat /\ l = k * n + 0
    BY RemainderIs
  <1> HIDE DEF r, p, k
  <1>2. ((p + k) * n + r) % n = r
    BY <1>1, <1>5, RemainderFacts
  <1>3. (p + k) * n = p * n + k * n /\ p * n \in Nat /\ k * n \in Nat
    BY <1>1, <1>5, Z3
  <1>4. x = (p + k) * n + r
    BY <1>1, <1>3, <1>5
  <1> QED
    BY <1>2, <1>4 DEF r

\* Where the consumer is in its round after a call.
LEMMA RoundsGoOn ==
    ASSUME SysInv, TypeOK, NEW w, Polling(w), Pending(w), InRounds(w), NEW m, GoesOn(w, m)
    PROVE  /\ cpus'[w.c].pc <= cycle'
           /\ cpus'[w.c].pc % NumCpus = cycle' % NumCpus
           /\ cpus'[w.c].pc < cycle' => cpus'[w.c].pc >= w.n - w.len
  <1> DEFINE pc == cpus[w.c].pc
             at == cpus'[w.c].pc
  <1>1. /\ w.n \in Nat /\ w.len \in 1 .. w.n /\ pc \in Nat /\ cycle \in Nat
        /\ NumCpus \in Nat \ {0} /\ w.len % NumCpus = 0
    BY ConsumerFacts, BusAssumption DEF Polling
  <1>2. pc <= cycle /\ pc % NumCpus = cycle % NumCpus /\ (pc < cycle => pc >= w.n - w.len)
    BY DEF InRounds
  <1>3. /\ cycle' = cycle + 1
        /\ \/ at = pc + 1
           \/ pc + 1 = w.n /\ at = (pc + 1) - w.len
    BY DEF GoesOn
  <1>4. (pc + 1) % NumCpus = (cycle + 1) % NumCpus
    BY <1>1, <1>2, NextSlot
  <1> HIDE DEF pc, at
  <1>5. CASE at = pc + 1
    BY <1>1, <1>2, <1>3, <1>4, <1>5 DEF at
  <1>6. CASE pc + 1 = w.n /\ at = (pc + 1) - w.len
    <2>1. at % NumCpus = (pc + 1) % NumCpus
      <3>1. pc + 1 \in Nat /\ w.len \in Nat /\ w.len <= pc + 1
        BY <1>1, <1>6
      <3> DEFINE x == pc + 1
      <3>2. (x - w.len) % NumCpus = x % NumCpus
        BY <1>1, <3>1, SlotOfRound
      <3> QED
        BY <1>6, <3>2
    <2>2. at <= cycle + 1 /\ at >= w.n - w.len
      BY <1>1, <1>2, <1>6
    <2> QED
      BY <1>3, <1>4, <2>1, <2>2 DEF at
  <1> QED
    BY <1>3, <1>5, <1>6

\* What a bundle writes is ready for a later bundle of the round, and for an
\* earlier one in the next round.
LEMMA WrittenInTime ==
    ASSUME SysInv, TypeOK, NEW w, Polling(w), NEW j \in 1 .. w.n, NEW t \in DOMAIN Slots,
           NEW k \in 1 .. w.n, NEW s \in DOMAIN Slots,
           GprWriteDst(programs[w.c][j][t]) \in TimedReads(programs[w.c][k][s])
    PROVE  LET latency == StaticLatency(programs[w.c][j][t].op)
           IN  /\ k > j => j + latency <= k
               /\ k <= j /\ k > w.n - w.len => latency <= w.len - (j - k)
  <1>1. /\ w.c \in Cpus /\ w.n \in Nat /\ w.len \in 1 .. w.n
        /\ 1 .. w.n \subseteq DOMAIN programs[w.c]
    BY ConsumerFacts
  <1>2. DOMAIN programs[w.c][j] = DOMAIN Slots /\ DOMAIN programs[w.c][k] = DOMAIN Slots
    BY <1>1, BundleOf
  <1>3. ASSUME k > j PROVE j + StaticLatency(programs[w.c][j][t].op) <= k
    <2>1. BundleTimingOk(programs[w.c], k)
      BY <1>1, ConsumerBundle
    <2>2. j \in 1 .. k - 1
      BY <1>1, <1>3
    <2> QED
      BY <1>2, <2>1, <2>2 DEF BundleTimingOk, ReadyBy
  <1>4. ASSUME k <= j, k > w.n - w.len
        PROVE  StaticLatency(programs[w.c][j][t].op) <= w.len - (j - k)
    <2>1. j \in w.n - w.len + 1 .. w.n /\ k \in w.n - w.len + 1 .. j
      BY <1>1, <1>4
    <2>2. LoopBundle(w, j)
      BY <2>1 DEF Polling
    <2> QED
      BY <2>1, <2>2 DEF LoopBundle
  <1> QED
    BY <1>3, <1>4

LEMMA ScoresGoOn ==
    ASSUME SysInv, TypeOK, NEW w, Polling(w), Pending(w), InRounds(w), NEW m, GoesOn(w, m),
           NEW k \in 1 .. w.n, NEW s \in DOMAIN Slots,
           NEW g \in TimedReads(programs[w.c][k][s])
    PROVE  LET at    == cpus'[w.c].pc
               ready == cpus'[w.c].ready[g]
           IN  /\ k > at => ready <= cycle' + (k - at)
               /\ k > w.n - w.len => ready <= cycle' + (k - at) + w.len
  <1> DEFINE pc    == cpus[w.c].pc
             at    == cpus'[w.c].pc
             old   == cpus[w.c].ready[g]
             ready == cpus'[w.c].ready[g]
  <1>1. /\ w.c \in Cpus /\ w.n \in Nat /\ w.len \in 1 .. w.n /\ pc \in Nat /\ cycle \in Nat
        /\ g \in GprIndices /\ old \in Nat /\ k \in Nat
    BY ConsumerFacts DEF TimedReads
  <1>2. pc < w.n
    BY DEF Pending
  <1>3. /\ k > pc => old <= cycle + (k - pc)
        /\ k > w.n - w.len => old <= cycle + (k - pc) + w.len
    BY DEF InRounds
  <1>4. /\ cycle' = cycle + 1
        /\ \/ pc + 1 < w.n /\ at = pc + 1
           \/ pc + 1 = w.n /\ at = w.n - w.len
    BY DEF GoesOn
  <1>5. \/ ready = old
        \/ /\ ready \in Nat
           /\ \E latency \in Nat :
                /\ ready <= cycle + 1 + latency
                /\ k > pc + 1 => (pc + 1) + latency <= k
                /\ k <= pc + 1 /\ k > w.n - w.len => latency <= w.len - ((pc + 1) - k)
    <2>1. /\ CallFor(w.c, m) /\ StepOf(w.c, m).result = "Issued" /\ HitsAreNoWorse
          /\ ~Finished(cpus[w.c], programs[w.c])
      BY DEF GoesOn, Polling, AwaitsRelease
    <2>2. NextBundle(w.c) = programs[w.c][pc + 1] /\ DOMAIN NextBundle(w.c) = DOMAIN Slots
      BY <2>1, ConsumerFacts
    <2> DEFINE j == pc + 1
    <2>3. j \in 1 .. w.n
      BY <1>1, <1>2
    <2>4. CASE ready # old
      <3>1. PICK t \in DOMAIN NextBundle(w.c) :
              /\ GprWriteDst(NextBundle(w.c)[t]) = g
              /\ StaticLatency(NextBundle(w.c)[t].op) \in Nat
              /\ ready \in Nat
              /\ ready <= cycle + 1 + StaticLatency(NextBundle(w.c)[t].op)
        BY <1>1, <2>1, <2>4, CallScores
      <3>2. t \in DOMAIN Slots /\ NextBundle(w.c)[t] = programs[w.c][j][t]
        BY <2>2, <3>1
      <3> DEFINE latency == StaticLatency(programs[w.c][j][t].op)
      <3>3. /\ k > j => j + latency <= k
            /\ k <= j /\ k > w.n - w.len => latency <= w.len - (j - k)
        <4>1. GprWriteDst(programs[w.c][j][t]) \in TimedReads(programs[w.c][k][s])
          BY <3>1, <3>2
        <4> HIDE DEF j
        <4> QED
          BY <2>3, <3>2, <4>1, WrittenInTime
      <3>4. latency \in Nat /\ ready \in Nat /\ ready <= cycle + 1 + latency
        BY <3>1, <3>2
      <3> HIDE DEF latency, ready, pc
      <3> QED
        BY <3>3, <3>4
    <2> QED
      BY <2>4
  <1> HIDE DEF pc, at, old, ready
  <1>6. (k > at => ready <= cycle' + (k - at))
    BY <1>1, <1>2, <1>3, <1>4, <1>5
  <1>7. k > w.n - w.len => ready <= cycle' + (k - at) + w.len
    BY <1>1, <1>2, <1>3, <1>4, <1>5
  <1> QED
    BY <1>6, <1>7 DEF at, ready

LEMMA InRoundsStays ==
    ASSUME SysInv, TypeOK, NEW w, Polling(w), Pending(w), InRounds(w), NEW m, GoesOn(w, m),
           programs' = programs
    PROVE  InRounds(w)'
  <1>1. /\ cpus'[w.c].pc <= cycle'
        /\ cpus'[w.c].pc % NumCpus = cycle' % NumCpus
        /\ cpus'[w.c].pc < cycle' => cpus'[w.c].pc >= w.n - w.len
    BY RoundsGoOn
  <1>2. \A k \in 1 .. w.n : \A s \in DOMAIN Slots :
          \A g \in TimedReads(programs'[w.c][k][s]) :
            /\ k > cpus'[w.c].pc => cpus'[w.c].ready[g] <= cycle' + (k - cpus'[w.c].pc)
            /\ k > w.n - w.len =>
                 cpus'[w.c].ready[g] <= cycle' + (k - cpus'[w.c].pc) + w.len
    BY ScoresGoOn
  <1> QED
    BY <1>1, <1>2 DEF InRounds

-----------------------------------------------------------------------------
(* What the consumer polls and tests. *)

\* A poll in the next bundle is granted in this cycle.
LEMMA PollIsServed ==
    ASSUME SysInv, TypeOK, NEW w, Polling(w), Pending(w), InRounds(w),
           ~Finished(cpus[w.c], programs[w.c]),
           NEW s \in DOMAIN Slots, NextBundle(w.c)[s] = Poll(w)
    PROVE  /\ Granted = RequestOf(w.c) /\ BusOwner(cycle) = w.c
           /\ RequestOf(w.c) # NoReq /\ RequestOf(w.c).slot = s
  <1> DEFINE c  == w.c
             pc == cpus[c].pc
  <1>1. /\ c \in Cpus /\ pc \in Nat /\ cycle \in Nat
        /\ pc + 1 \in DOMAIN programs[c] /\ NextBundle(c) = programs[c][pc + 1]
        /\ DOMAIN NextBundle(c) = DOMAIN Slots
    BY ConsumerFacts
  <1>2. /\ Poll(w).op = "AcqLoad" /\ Poll(w).pred = 0 /\ Poll(w).neg = FALSE
    BY DEF Poll, Op
  <1>3. s \in MemorySlots(c) /\ NextBundle(c)[s].op \in MemoryOps
    BY <1>1, <1>2 DEF MemorySlots, ActiveSlots, Active, ReadPred, MemoryOps, Loads
  <1>4. BusSlot((pc + 1) - 1, c)
    BY <1>1, <1>3 DEF SysInv, Accepted, RespectsBusSlots
  <1>5. (pc + 1) - 1 = pc /\ pc % NumCpus = cycle % NumCpus
    BY <1>1 DEF InRounds
  <1>6. BusOwner(cycle) = c
    BY <1>4, <1>5 DEF BusSlot, BusOwner
  <1>7. Disciplined
    BY DEF Polling, AwaitsRelease
  <1>8. \A t \in DOMAIN NextBundle(c) :
          ~UnreadySource(Synced(cpus[c], memory), NextBundle(c)[t])
    BY RoundIsReady
  <1> QED
    BY <1>1, <1>3, <1>6, <1>7, <1>8, ServedInSlot

\* It loads the word at imm.
LEMMA PollDelivers ==
    ASSUME SysInv, TypeOK, NEW w, Polling(w), Pending(w), InRounds(w),
           ~Finished(cpus[w.c], programs[w.c]), Next, status' = "running",
           NEW s \in DOMAIN Slots, NextBundle(w.c)[s] = Poll(w)
    PROVE  cpus'[w.c].gprs[w.q] = LoadBytes(memory, AsWord(w.imm), 8)
  <1> DEFINE c   == w.c
             syl == Poll(w)
  <1>1. /\ Granted = RequestOf(c) /\ BusOwner(cycle) = c /\ RequestOf(c) # NoReq
        /\ NextBundle(c)[RequestOf(c).slot] = syl
    BY PollIsServed
  <1>2. /\ syl.op = "AcqLoad" /\ syl.dst = w.q /\ syl.src[1] = 0 /\ syl.imm = w.imm
    BY DEF Poll, Op
  <1>3. c \in Cpus /\ w.q \in GprIndices \ {0} /\ w.imm \in Int /\ Disciplined
    BY DEF Polling, AwaitsRelease
  <1> HIDE DEF syl
  <1>4. syl.op \notin Stores /\ AccessWidth(syl.op) = 8
    BY <1>2 DEF Stores, AccessWidth
  <1>5. EffectiveAddress(cpus[c], syl) = AsWord(w.imm)
    <2>1. ReadGpr(cpus[c], syl.src[1]) = 0 /\ 0 + syl.imm = w.imm
      BY <1>2, <1>3 DEF ReadGpr
    <2> QED
      BY <2>1 DEF EffectiveAddress
  <1>6. /\ Granted.address = AsWord(w.imm) /\ Granted.width = 8
        /\ Granted.dst = w.q /\ Commits("load")
    BY <1>1, <1>2, <1>3, <1>4, <1>5, RequestFacts, RequestDetails DEF Commits
  <1> QED
    BY <1>1, <1>3, <1>6, CallLoads

\* What runs in a bundle of the loop beside the poll.
LEMMA RanOfLoop ==
    ASSUME SysInv, TypeOK, NEW w, Polling(w), Pending(w), InRounds(w),
           ~Finished(cpus[w.c], programs[w.c]), cpus[w.c].pc >= w.n - w.len
    PROVE  /\ Unwritten(Ran(w.c), w.q) /\ OnlyTests(Ran(w.c), w.q, w.p)
           /\ \A s \in DOMAIN Slots : NextBundle(w.c)[s] = Test(w) => Ran(w.c)[s] = Test(w)
           /\ (\A s \in DOMAIN Slots : NextBundle(w.c)[s] # Poll(w)) =>
                 Unwritten(NextBundle(w.c), w.q)
  <1> DEFINE c      == w.c
             k      == cpus[c].pc + 1
             bundle == NextBundle(c)
  <1>1. /\ c \in Cpus /\ w.n \in Nat /\ w.len \in 1 .. w.n /\ cpus[c].pc \in Nat
        /\ bundle = programs[c][k] /\ DOMAIN bundle = DOMAIN Slots
        /\ w.q \in GprIndices \ {0} /\ w.p \in PredIndices \ {0}
    BY ConsumerFacts DEF Polling
  <1>2. k \in w.n - w.len + 1 .. w.n
    BY <1>1 DEF Pending
  <1>3. LoopBundle(w, k)
    BY <1>2 DEF Polling
  <1>4. \A s \in DOMAIN Slots :
          /\ GprWriteDst(bundle[s]) = w.q => bundle[s] = Poll(w)
          /\ bundle[s].op \in WritesPred /\ bundle[s].dst = w.p => bundle[s] = Test(w)
    BY <1>1, <1>3 DEF LoopBundle
  <1>5. /\ DOMAIN Ran(c) = DOMAIN Slots
        /\ \A s \in DOMAIN Slots : Ran(c)[s] \in {bundle[s], Nop}
        /\ RequestOf(c) # NoReq => Ran(c)[RequestOf(c).slot] = Nop
    BY <1>1, RanFacts
  <1>6. GprWriteDst(Nop) # w.q /\ Nop.op \notin WritesPred
    BY <1>1 DEF GprWriteDst, Nop, GprIndices, NoReg, GprWriters, WritesPred, Compares,
                IntegerCompares, FpCompares, PredicateOps
  <1> HIDE DEF bundle, k, c
  <1>7. \A s \in DOMAIN Slots : bundle[s] = Poll(w) => Ran(c)[s] = Nop
    BY <1>5, PollIsServed DEF bundle, c
  <1>8. Unwritten(Ran(c), w.q)
    BY <1>4, <1>5, <1>6, <1>7 DEF Unwritten
  <1>9. OnlyTests(Ran(c), w.q, w.p)
    BY <1>4, <1>5, <1>6 DEF OnlyTests, Test
  <1>10. ASSUME NEW s \in DOMAIN Slots, bundle[s] = Test(w) PROVE Ran(c)[s] = Test(w)
    <2>1. Test(w).op \notin MemoryOps
      BY DEF Test, Op, MemoryOps, Loads, Stores
    <2>2. RequestOf(c) # NoReq => bundle[RequestOf(c).slot].op \in MemoryOps
      BY <1>1, RequestFacts DEF MemorySlots, bundle
    <2>3. CASE RequestOf(c) = NoReq
      BY <1>10, <2>3 DEF Ran, bundle
    <2>4. CASE RequestOf(c) # NoReq
      <3>1. Ran(c) = Rest(c) /\ s # RequestOf(c).slot
        BY <1>10, <2>1, <2>2, <2>4 DEF Ran
      <3>2. s \in DOMAIN Rest(c)
        BY <1>5, <3>1
      <3> QED
        BY <1>1, <1>10, <2>4, <3>1, <3>2, RestFacts DEF bundle
    <2> QED
      BY <2>3, <2>4
  <1>11. (\A s \in DOMAIN Slots : bundle[s] # Poll(w)) => Unwritten(bundle, w.q)
    BY <1>1, <1>4 DEF Unwritten
  <1> QED
    BY <1>8, <1>9, <1>10, <1>11 DEF bundle, c

\* If the register holds a word, the test fails: the consumer does not go back.
LEMMA TestEndsTheLoop ==
    ASSUME SysInv, TypeOK, NEW w, Polling(w), Pending(w), InRounds(w), NEW m, GoesOn(w, m),
           cpus[w.c].pc >= w.n - w.len, cpus[w.c].gprs[w.q] # 0
    PROVE  /\ ~cpus[w.c].preds[w.p] => cpus[w.c].pc + 1 # w.n
           /\ ~cpus[w.c].preds[w.p] \/ cpus[w.c].pc + 1 = w.b =>
                 cpus'[w.c].halted \/ ~cpus'[w.c].preds[w.p]
  <1> DEFINE c      == w.c
             cpu    == cpus[c]
             bundle == Ran(c)
             from   == RanFrom(c, m)
             after  == SlotBySlot(from, bundle)
             last   == ExecBundle(from, bundle)
  <1>1. /\ c \in Cpus /\ w.n \in Nat /\ w.len \in 1 .. w.n /\ w.b \in w.a + 1 .. w.n - 1
        /\ cpu.pc \in Nat
        /\ w.q \in GprIndices \ {0} /\ w.p \in PredIndices \ {0}
    BY ConsumerFacts DEF Polling
  <1>2. /\ CallFor(c, m) /\ StepOf(c, m).result = "Issued" /\ ~Finished(cpu, programs[c])
        /\ \/ cpu.pc + 1 < w.n
           \/ cpu.pc + 1 = w.n /\ cpus'[c].pc = w.n - w.len
    BY DEF GoesOn
  <1>3. /\ bundle \in Seq(Syllable) /\ DOMAIN bundle = DOMAIN Slots
        /\ IsCpu(from) /\ from.gprs = cpu.gprs /\ from.preds = cpu.preds
    BY <1>1, <1>2, RanFacts, ConsumerFacts
  <1>4. /\ Unwritten(bundle, w.q) /\ OnlyTests(bundle, w.q, w.p)
        /\ \A s \in DOMAIN Slots : NextBundle(c)[s] = Test(w) => bundle[s] = Test(w)
    BY <1>2, RanOfLoop
  <1>5. /\ StepOf(c, m).cpu.preds = last.preds /\ StepOf(c, m).cpu.halted = last.halted
    BY <1>1, <1>2, IssuedRuns
  <1>6. /\ cpus'[c].preds = last.preds /\ cpus'[c].halted = last.halted
        /\ cpus'[c].pc = StepOf(c, m).cpu.pc
    BY <1>2, <1>5 DEF CallFor, CpuOfCall
  <1>7. DOMAIN bundle = 1 .. Len(bundle) /\ Len(bundle) \in Nat
    BY <1>3
  <1>8. ASSUME NEW s \in 0 .. Len(bundle)
        PROVE  \/ after[s].halted
               \/ ~after[s].preds[w.p]
               \/ cpu.preds[w.p] /\ \A t \in 1 .. s : bundle[t] # Test(w)
    <2> HIDE DEF bundle, from
    <2>1. TestedSlots(from, bundle, w.q, w.p, s, SlotBySlot(from, bundle)[s])
      BY <1>1, <1>3, <1>4, <1>8, TestsFail
    <2> QED
      BY <1>3, <2>1 DEF TestedSlots, Test
  <1>9. last = after[Len(bundle)]
    BY DEF ExecBundle
  <1> HIDE DEF bundle, from, after, last
  <1>10. ASSUME ~cpu.preds[w.p], cpu.pc + 1 = w.n PROVE FALSE
    <2>1. \A s \in 0 .. Len(bundle) : after[s].halted \/ ~after[s].preds[w.p]
      BY <1>8, <1>10
    <2>2. StepOf(c, m).cpu.pc = w.n
      BY <1>2, <1>10, <2>1, LastBundle DEF bundle, from, after
    <2> QED
      BY <1>1, <1>2, <1>6, <1>10, <2>2
  <1>11. ASSUME ~cpu.preds[w.p] \/ cpu.pc + 1 = w.b
         PROVE  last.halted \/ ~last.preds[w.p]
    <2>1. Len(bundle) \in 0 .. Len(bundle)
      BY <1>7
    <2>2. \/ last.halted
          \/ ~last.preds[w.p]
          \/ cpu.preds[w.p] /\ \A t \in 1 .. Len(bundle) : bundle[t] # Test(w)
      BY <1>8, <1>9, <2>1
    <2>3. ASSUME cpu.pc + 1 = w.b
          PROVE  \E t \in 1 .. Len(bundle) : bundle[t] = Test(w)
      <3>1. PICK t \in DOMAIN Slots : programs[c][w.b][t] = Test(w)
        BY DEF Polling
      <3>2. NextBundle(c)[t] = Test(w)
        BY <1>2, <2>3, <3>1, ConsumerFacts
      <3> QED
        BY <1>3, <1>4, <1>7, <3>1, <3>2
    <2> QED
      BY <1>11, <2>2, <2>3
  <1> QED
    BY <1>6, <1>10, <1>11 DEF c, cpu

-----------------------------------------------------------------------------
(* What the consumer sees of the release. *)

LEMMA NothingStored ==
    ASSUME SysInv, TypeOK, ScheduleInv, NEW w, Polling(w), Pending(w), InRounds(w),
           w.i <= cycle
    PROVE  ~Commits("store")
  <1> SUFFICES ASSUME Commits("store") PROVE FALSE
    OBVIOUS
  <1> DEFINE o  == BusOwner(cycle)
             pc == cpus[w.c].pc
  <1>1. /\ \A e \in Cpus : Undisturbed(w.d, w.i, Len(programs[e]), w.r)
        /\ \A e \in Cpus \ {w.c} : ScheduledCpu(e)
    BY DEF Polling, AwaitsRelease, ScheduledCpu
  <1>2. /\ o \in Cpus /\ ~Finished(cpus[o], programs[o])
        /\ \E s \in DOMAIN Slots : programs[o][cpus[o].pc + 1][s].op \in Stores
    BY StoreOfOwner
  <1>3. /\ cycle \in Nat /\ w.n \in Nat /\ pc \in Nat /\ w.len \in 1 .. w.n
        /\ w.i \in Nat
    BY ConsumerFacts
  <1> HIDE DEF o
  <1>4. ASSUME cycle + 1 \in DOMAIN programs[o],
               \E s \in DOMAIN Slots : programs[o][cycle + 1][s].op \in Stores
        PROVE  FALSE
    <2>1. programs[o] \in Seq(Seq(Syllable))
      BY <1>2, ProgramsAreSequences
    <2>2. cycle + 1 \in (w.i + 1 .. Len(programs[o])) \cap DOMAIN programs[o]
      BY <1>3, <1>4, <2>1
    <2>3. Undisturbed(w.d, w.i, Len(programs[o]), w.r)
      BY <1>1, <1>2
    <2> QED
      BY <1>2, <1>4, <2>2, <2>3 DEF Undisturbed
  <1>5. CASE o # w.c
    <2>1. ScheduledCpu(o)
      BY <1>1, <1>2, <1>5
    <2> QED
      BY <1>4, <2>1, StoresOnTime DEF o
  <1>6. CASE o = w.c
    <2>1. pc <= cycle /\ (pc < cycle => pc >= w.n - w.len)
      BY DEF InRounds
    <2>2. CASE pc = cycle
      BY <1>2, <1>4, <1>6, <2>2, ConsumerFacts
    <2>3. CASE pc # cycle
      <3>1. pc + 1 \in w.n - w.len + 1 .. w.n
        BY <1>3, <2>1, <2>3 DEF Pending
      <3>2. LoopBundle(w, pc + 1)
        BY <3>1 DEF Polling
      <3> QED
        BY <1>2, <1>6, <3>2 DEF LoopBundle
    <2> QED
      BY <2>2, <2>3
  <1> QED
    BY <1>5, <1>6

\* The producer's side of a call.
LEMMA ReleaseGoesOn ==
    ASSUME SysInv, TypeOK, ScheduleInv, BehindInv, Next, Returns, programs' = programs,
           status' = "running", NEW w, Polling(w), Pending(w), InRounds(w), SeesRelease(w),
           ReleasedTo(w)'
    PROVE  /\ w.i <= cycle + 1
           /\ w.i <= cycle => ReleasedTo(w)
           /\ ReadGpr(cpus'[w.d], w.r) = ReadGpr(cpus[w.d], w.r)
           /\ LoadBytes(memory', AsWord(w.imm), 8) = ReadGpr(cpus'[w.d], w.r)
  <1> DEFINE d == w.d
  <1>1. /\ d \in Cpus /\ w.i \in Nat /\ w.r \in GprIndices /\ w.imm \in Int /\ cycle \in Nat
        /\ Publishes(d, w.i, w.r, w.imm) /\ Disciplined /\ ScheduledCpu(d)
        /\ Undisturbed(d, w.i, Len(programs[d]), w.r)
    BY ConsumerFacts DEF Polling, AwaitsRelease, ScheduledCpu
  <1>2. w.i <= cycle => ~Commits("store")
    BY NothingStored
  <1>3. ASSUME w.i <= cycle + 1, OnTime(d), ~Finished(cpus[d], programs[d])
        PROVE  Unwritten(NextBundle(d), w.r)
    <2>1. /\ cycle + 1 \in DOMAIN programs[d] /\ NextBundle(d) = programs[d][cycle + 1]
          /\ DOMAIN NextBundle(d) = DOMAIN Slots
      BY <1>1, <1>3, OnTimeBundle
    <2>2. programs[d] \in Seq(Seq(Syllable))
      BY <1>1, ProgramsAreSequences
    <2>3. cycle + 1 \in (w.i .. Len(programs[d])) \cap DOMAIN programs[d]
      BY <1>1, <1>3, <2>1, <2>2
    <2> QED
      BY <1>1, <2>1, <2>3 DEF Undisturbed, Unwritten
  <1>4. cpus[d].pc >= w.i => LoadBytes(memory, AsWord(w.imm), 8) = ReadGpr(cpus[d], w.r)
    BY DEF SeesRelease, ReleasedTo
  <1>5. cpus'[d].pc >= w.i
    BY DEF ReleasedTo
  <1> HIDE DEF d
  <1>6. /\ w.i <= cycle + 1
        /\ w.i <= cycle => cpus[d].pc >= w.i /\ memory' = memory
        /\ ReadGpr(cpus'[d], w.r) = ReadGpr(cpus[d], w.r)
        /\ LoadBytes(memory', AsWord(w.imm), 8) = ReadGpr(cpus'[d], w.r)
    BY <1>1, <1>2, <1>3, <1>4, <1>5, ReleaseStays
  <1> QED
    BY <1>6 DEF d, ReleasedTo

\* The register of a round that has polled the released word holds it.
LEMMA PolledWord ==
    ASSUME SysInv, TypeOK, Next, NEW w, Polling(w), Pending(w), InRounds(w),
           NEW m, GoesOn(w, m), cpus[w.c].pc + 1 >= w.a,
           LoadBytes(memory, AsWord(w.imm), 8) # 0,
           cpus[w.c].pc >= w.a => cpus[w.c].gprs[w.q] # 0
    PROVE  cpus'[w.c].gprs[w.q] # 0
  <1> DEFINE c  == w.c
             pc == cpus[c].pc
  <1>1. /\ c \in Cpus /\ w.q \in GprIndices /\ w.n \in Nat /\ w.len \in 1 .. w.n
        /\ w.a \in w.n - w.len + 1 .. w.n - 2 /\ pc \in Nat
    BY ConsumerFacts DEF Polling
  <1>2. /\ CallFor(c, m) /\ ~Finished(cpus[c], programs[c]) /\ status' = "running"
    BY DEF GoesOn
  <1>3. CASE \E s \in DOMAIN Slots : NextBundle(c)[s] = Poll(w)
    BY <1>2, <1>3, PollDelivers
  <1>4. CASE \A s \in DOMAIN Slots : NextBundle(c)[s] # Poll(w)
    <2>1. pc + 1 # w.a
      <3> SUFFICES ASSUME pc + 1 = w.a PROVE FALSE
        OBVIOUS
      <3>1. PICK s \in DOMAIN Slots : programs[c][w.a][s] = Poll(w)
        BY DEF Polling
      <3>2. NextBundle(c) = programs[c][pc + 1]
        BY <1>2, ConsumerFacts
      <3> QED
        BY <1>4, <3>1, <3>2
    <2>2. pc >= w.a /\ pc >= w.n - w.len
      BY <1>1, <2>1
    <2>3. Unwritten(NextBundle(c), w.q)
      BY <1>2, <1>4, <2>2, RanOfLoop
    <2>4. cpus'[c].gprs[w.q] = cpus[c].gprs[w.q]
      BY <1>1, <1>2, <2>3, CallKeeps
    <2> QED
      BY <2>2, <2>4
  <1> QED
    BY <1>3, <1>4

LEMMA SeesReleaseStays ==
    ASSUME SysInv, TypeOK, ScheduleInv, BehindInv, Next, Returns, programs' = programs,
           NEW w, Polling(w), Pending(w), InRounds(w), SeesRelease(w), NEW m, GoesOn(w, m),
           ~cpus'[w.c].halted
    PROVE  SeesRelease(w)'
  <1> DEFINE pc     == cpus[w.c].pc
             at     == cpus'[w.c].pc
             polled == (cycle - pc) + w.a
             Polled == cpus[w.c].gprs[w.q] # 0
             Failed == ~cpus[w.c].preds[w.p]
  <1> SUFFICES ASSUME ReleasedTo(w)'
               PROVE  /\ LoadBytes(memory', AsWord(w.imm), 8) = ReadGpr(cpus'[w.d], w.r)
                      /\ ReadGpr(cpus'[w.d], w.r) # 0 =>
                           /\ at < cycle' => (cycle' - at) + w.a <= w.i + w.len
                           /\ at >= w.a /\ (cycle' - at) + w.a > w.i =>
                                /\ cpus'[w.c].gprs[w.q] # 0
                                /\ at >= w.b => ~cpus'[w.c].preds[w.p]
    BY DEF SeesRelease
  <1>1. /\ w.c \in Cpus /\ w.n \in Nat /\ w.len \in 1 .. w.n /\ w.i \in Nat \ {0}
        /\ w.a \in w.n - w.len + 1 .. w.n - 2 /\ w.b \in w.a + 1 .. w.n - 1
        /\ pc \in Nat /\ cycle \in Nat
    BY ConsumerFacts
  <1>2. /\ status' = "running" /\ cycle' = cycle + 1
        /\ \/ pc + 1 < w.n /\ at = pc + 1
           \/ pc + 1 = w.n /\ at = w.n - w.len
    BY DEF GoesOn
  <1>3. pc < w.n /\ pc <= cycle /\ (pc < cycle => pc >= w.n - w.len)
    BY DEF Pending, InRounds
  <1>4. /\ w.i <= cycle + 1
        /\ w.i <= cycle => ReleasedTo(w)
        /\ ReadGpr(cpus'[w.d], w.r) = ReadGpr(cpus[w.d], w.r)
        /\ LoadBytes(memory', AsWord(w.imm), 8) = ReadGpr(cpus'[w.d], w.r)
    BY <1>2, ReleaseGoesOn
  <1> SUFFICES ASSUME ReadGpr(cpus[w.d], w.r) # 0
               PROVE  /\ at < cycle' => (cycle' - at) + w.a <= w.i + w.len
                      /\ at >= w.a /\ (cycle' - at) + w.a > w.i =>
                           /\ cpus'[w.c].gprs[w.q] # 0
                           /\ at >= w.b => ~cpus'[w.c].preds[w.p]
    BY <1>4
  <1>5. w.i <= cycle =>
          /\ LoadBytes(memory, AsWord(w.imm), 8) # 0
          /\ pc < cycle => polled <= w.i + w.len
          /\ pc >= w.a /\ polled > w.i => Polled /\ (pc >= w.b => Failed)
    BY <1>4 DEF SeesRelease
  <1>6. pc >= w.n - w.len /\ Polled =>
          /\ Failed => pc + 1 # w.n
          /\ Failed \/ pc + 1 = w.b => ~cpus'[w.c].preds[w.p]
    BY TestEndsTheLoop
  <1>7. w.i <= cycle /\ pc + 1 >= w.a /\ (pc >= w.a => Polled) => cpus'[w.c].gprs[w.q] # 0
    BY <1>5, PolledWord
  <1> HIDE DEF pc, at, Polled, Failed
  <1>8. ASSUME pc + 1 = w.n PROVE polled <= w.i
    BY <1>1, <1>3, <1>4, <1>5, <1>6, <1>8
  <1>9. ASSUME at < cycle' PROVE (cycle' - at) + w.a <= w.i + w.len
    <2>1. CASE pc + 1 < w.n /\ at = pc + 1
      BY <1>1, <1>2, <1>3, <1>4, <1>5, <1>9, <2>1
    <2>2. CASE pc + 1 = w.n /\ at = w.n - w.len
      BY <1>1, <1>2, <1>3, <1>8, <2>2
    <2> QED
      BY <1>2, <2>1, <2>2
  <1>10. ASSUME at >= w.a, (cycle' - at) + w.a > w.i
         PROVE  cpus'[w.c].gprs[w.q] # 0 /\ (at >= w.b => ~cpus'[w.c].preds[w.p])
    <2>1. at = pc + 1 /\ polled > w.i /\ w.i <= cycle
      BY <1>1, <1>2, <1>3, <1>4, <1>10
    <2>2. pc >= w.a => Polled
      BY <1>5, <2>1
    <2>3. cpus'[w.c].gprs[w.q] # 0
      BY <1>7, <1>10, <2>1, <2>2
    <2>4. ASSUME at >= w.b PROVE ~cpus'[w.c].preds[w.p]
      <3>1. pc >= w.a /\ pc >= w.n - w.len
        BY <1>1, <2>1, <2>4
      <3>2. Failed \/ pc + 1 = w.b
        BY <1>1, <1>5, <2>1, <2>4, <3>1
      <3> QED
        BY <1>6, <2>2, <3>1, <3>2
    <2> QED
      BY <2>3, <2>4
  <1> QED
    BY <1>9, <1>10 DEF at

-----------------------------------------------------------------------------
(* The bound. *)

LEMMA PollingIsFixed ==
    ASSUME NEW w, programs' = programs, Polling(w)'
    PROVE  Polling(w)
  <1>1. ASSUME AwaitsRelease(w.c, w.n, w.d, w.i, w.r, w.imm)'
        PROVE  AwaitsRelease(w.c, w.n, w.d, w.i, w.r, w.imm)
    <2>1. Publishes(w.d, w.i, w.r, w.imm)' => Publishes(w.d, w.i, w.r, w.imm)
      BY DEF Publishes
    <2>2. \A e \in Cpus : Undisturbed(w.d, w.i, Len(programs[e]), w.r)' =>
             Undisturbed(w.d, w.i, Len(programs[e]), w.r)
      BY DEF Undisturbed
    <2>3. Disciplined' => Disciplined
      BY DEF Disciplined
    <2> QED
      BY <1>1, <2>1, <2>2, <2>3 DEF AwaitsRelease
  <1>2. \A k : LoopBundle(w, k)' => LoopBundle(w, k)
    BY DEF LoopBundle, Poll, Test
  <1>3. Back(w)' = Back(w) /\ Poll(w)' = Poll(w) /\ Test(w)' = Test(w)
    BY DEF Back, Poll, Test
  <1> QED
    BY <1>1, <1>2, <1>3 DEF Polling

LEMMA LinkStaysClear ==
    ASSUME SysInv, TypeOK, Returns, NEW w, Polling(w), Next
    PROVE  cpus'[w.c].gprs[LinkReg] = cpus[w.c].gprs[LinkReg]
  <1>1. w.c \in Cpus /\ LinkReg \in GprIndices
    BY ConsumerFacts, LinkIsAGpr
  <1>2. CASE Finished(cpus[w.c], programs[w.c])
    BY <1>1, <1>2, FinishedStays
  <1>3. CASE ~Finished(cpus[w.c], programs[w.c])
    <2>1. Unwritten(NextBundle(w.c), LinkReg)
      BY <1>3, ConsumerFacts, ConsumerBundle
    <2>2. PICK m : CallFor(w.c, m)
      BY <1>1 DEF Returns
    <2> QED
      BY <1>1, <1>3, <2>1, <2>2, CallKeeps
  <1> QED
    BY <1>2, <1>3

LEMMA PollInvStep ==
    SysInv /\ TypeOK /\ ScheduleInv /\ BehindInv /\ PollInv /\ [Next]_vars => PollInv'
  <1> SUFFICES ASSUME SysInv, TypeOK, ScheduleInv, BehindInv, PollInv, [Next]_vars,
                      NEW w, Polling(w)'
               PROVE  PollState(w)'
    BY DEF PollInv
  <1>1. programs' = programs
    BY CallCases DEF vars
  <1>2. Polling(w) /\ PollState(w)
    BY <1>1, PollingIsFixed DEF PollInv
  <1>3. CASE UNCHANGED <<programs, cpus, memory, cycle>>
    BY <1>2, <1>3 DEF PollState, Pending, InRounds, SeesRelease, ReleasedTo
  <1>4. CASE Next /\ Returns
    <2>1. cpus'[w.c].gprs[LinkReg] = 0
      BY <1>2, <1>4, LinkStaysClear DEF PollState
    <2>2. ASSUME Pending(w)' PROVE InRounds(w)' /\ SeesRelease(w)'
      <3>1. PICK m : GoesOn(w, m)
        BY <1>1, <1>2, <1>4, <2>2, StaysInLoop
      <3>2. Pending(w) /\ InRounds(w) /\ SeesRelease(w)
        BY <1>1, <1>2, <1>4, <2>2, StaysInLoop DEF PollState
      <3>3. ~cpus'[w.c].halted
        BY <2>2 DEF Pending
      <3>4. InRounds(w)'
        BY <1>1, <1>2, <3>1, <3>2, InRoundsStays
      <3>5. SeesRelease(w)'
        BY <1>1, <1>2, <1>4, <3>1, <3>2, <3>3, SeesReleaseStays
      <3> QED
        BY <3>4, <3>5
    <2> QED
      BY <2>1, <2>2 DEF PollState
  <1> QED
    BY <1>3, <1>4, CallCases DEF vars, Unwinds

LEMMA PollInvInit == Init => PollInv
  <1> SUFFICES ASSUME Init, NEW w, Polling(w) PROVE PollState(w)
    BY DEF PollInv
  <1>1. SysInv /\ TypeOK
    BY SysInvInit, TypeInit
  <1>2. /\ w.c \in Cpus /\ w.d \in Cpus /\ w.n \in Nat /\ w.len \in 1 .. w.n
        /\ w.i \in Nat \ {0}
    BY <1>1, ConsumerFacts
  <1>3. cpus[w.c] = NewCpu /\ cpus[w.d] = NewCpu /\ cycle = 0
    BY <1>2 DEF Init
  <1>4. /\ cpus[w.c].pc = 0 /\ cpus[w.d].pc = 0
        /\ \A g \in GprIndices : cpus[w.c].ready[g] = 0 /\ cpus[w.c].gprs[g] = 0
    BY <1>3 DEF NewCpu
  <1>5. InRounds(w)
    <2>1. \A k \in 1 .. w.n : \A s \in DOMAIN Slots :
            \A g \in TimedReads(programs[w.c][k][s]) : cpus[w.c].ready[g] = 0
      BY <1>4 DEF TimedReads
    <2> QED
      BY <1>2, <1>3, <1>4, <2>1 DEF InRounds
  <1>6. ~ReleasedTo(w)
    BY <1>2, <1>4 DEF ReleasedTo
  <1> QED
    BY <1>4, <1>5, <1>6, LinkIsAGpr DEF PollState, SeesRelease

LEMMA PollInvAlways == Spec => [](SysInv /\ TypeOK /\ PollInv)
  BY PollInvInit, PollInvStep, BehindInvAlways, PTL DEF Spec

LEMMA GreaterOfTwo ==
    ASSUME NEW x \in Int, NEW y \in Int
    PROVE  Max({x, y}) \in Int /\ Max({x, y}) >= x /\ Max({x, y}) >= y
  <1>1. \E z \in {x, y} : \A v \in {x, y} : z >= v
    OBVIOUS
  <1> QED
    BY <1>1 DEF Max

\* The bound of a polling loop: in a verified system whose loop keeps its bus
\* slots the consumer leaves the loop at most two rounds after the release,
\* whatever the other CPUs do beside the stores that they must not make.
THEOREM VerifiedPollingIsBoundedAlways == Spec => []VerifiedPollingIsBounded
  <1>1. SysInv /\ TypeOK /\ PollInv => VerifiedPollingIsBounded
    <2> SUFFICES ASSUME SysInv, TypeOK, PollInv, NEW c \in Cpus, NEW d \in Cpus, c # d,
                        NEW n \in DOMAIN programs[c], NEW i \in DOMAIN programs[d],
                        EndsPollingLoop(programs[c], n),
                        cycle > Max({i, n - PollLength(programs[c], n)})
                                  + 2 * PollLength(programs[c], n),
                        cpus[d].pc >= i,
                        NEW r \in GprIndices, NEW imm \in Addresses,
                        ReadGpr(cpus[d], r) # 0, AwaitsRelease(c, n, d, i, r, imm),
                        cpus[c].pc < n, ~cpus[c].halted
                 PROVE  FALSE
      <3>1. ASSUME SysInv, TypeOK, NEW e \in Cpus, NEW k \in DOMAIN programs[e]
            PROVE  cpus[e].pc >= k \/ cpus[e].pc < k
        <4>1. cpus[e] \in CpuStates
          BY <3>1 DEF TypeOK
        <4>2. cpus[e].pc \in Nat
          BY <4>1 DEF CpuStates
        <4>3. k \in Nat
          BY <3>1, BundleOf
        <4> QED
          BY <4>2, <4>3
      <3> QED
        BY <3>1 DEF VerifiedPollingIsBounded
    <2>1. imm \in Int
      BY MemoryAssumption DEF Addresses
    <2>2. PICK w : /\ Polling(w)
                   /\ w.c = c /\ w.d = d /\ w.n = n /\ w.i = i /\ w.r = r /\ w.imm = imm
                   /\ w.len = PollLength(programs[c], n)
      BY <2>1, LoopOf
    <2>3. Pending(w) /\ ReleasedTo(w)
      BY <2>2 DEF Pending, ReleasedTo
    <2>4. InRounds(w) /\ SeesRelease(w)
      BY <2>2, <2>3 DEF PollInv, PollState
    <2>5. /\ n \in Nat /\ i \in Nat /\ w.len \in 1 .. n /\ w.a \in n - w.len + 1 .. n - 2
          /\ cycle \in Nat /\ cpus[c].pc \in Nat
      BY <2>2, ConsumerFacts
    <2>6. cycle > i + 2 * w.len /\ cycle > (n - w.len) + 2 * w.len
      <3> DEFINE x == n - w.len
      <3> DEFINE y == Max({i, x})
      <3>1. x \in Int /\ cycle > y + 2 * w.len
        BY <2>2, <2>5
      <3> HIDE DEF x
      <3>2. y \in Int /\ y >= i /\ y >= x
        <4>1. i \in Int
          BY <2>5
        <4> QED
          BY <3>1, <4>1, GreaterOfTwo
      <3> HIDE DEF y
      <3>4. y \in Int /\ y >= i /\ y >= x /\ cycle > y + 2 * w.len
        BY <3>1, <3>2
      <3>5. cycle > i + 2 * w.len /\ cycle > x + 2 * w.len
        BY <2>5, <3>1, <3>4
      <3> QED
        BY <3>5 DEF x
    <2>7. cpus[c].pc < cycle
      BY <2>5, <2>6
    <2>8. (cycle - cpus[c].pc) + w.a <= i + w.len
      BY <2>2, <2>3, <2>4, <2>7 DEF SeesRelease
    <2> QED
      BY <2>5, <2>6, <2>8
  <1> QED
    BY <1>1, PollInvAlways, PTL
=============================================================================
