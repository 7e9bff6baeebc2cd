--------------------------- MODULE CpuCoreProofs ---------------------------
(***************************************************************************)
(* Proofs about CpuCore for every layout, cache, latency table and program:*)
(* the scoreboard, the link register and the slots that are parallel;      *)
(* about VerifiedCore: what the static verifier promises of the programs   *)
(* that it accepts; and about Trace: what the events of a run say of each  *)
(* other and of the CPU.                                                   *)
(***************************************************************************)
EXTENDS VerifiedCore, Trace, CpuProofs, SequenceTheorems

-----------------------------------------------------------------------------
(* What the slots of a bundle do, one after the other. *)

\* The recursive definition of AfterSlot has a solution.
LEMMA AfterSlotDef ==
    ASSUME Len(Bundle) \in Nat
    PROVE  /\ AfterSlot[0] = [cpu |-> Issuing(cpu), panicked |-> FALSE]
           /\ \A s \in 1 .. Len(Bundle) :
                AfterSlot[s] =
                  LET before == AfterSlot[s - 1]
                  IN  IF before.panicked \/ before.cpu.halted THEN before
                      ELSE IF FaultsAt(before.cpu, Bundle[s])
                           THEN [before EXCEPT !.panicked = TRUE]
                      ELSE [before EXCEPT !.cpu = ExecSyllable(@, Bundle[s])]
  <1> DEFINE Start == [cpu |-> Issuing(cpu), panicked |-> FALSE]
             Then(before, s) ==
                IF before.panicked \/ before.cpu.halted THEN before
                ELSE IF FaultsAt(before.cpu, Bundle[s]) THEN [before EXCEPT !.panicked = TRUE]
                ELSE [before EXCEPT !.cpu = ExecSyllable(@, Bundle[s])]
             Solves(f, n) ==
                f = [s \in 0 .. n |-> IF s = 0 THEN Start ELSE Then(f[s - 1], s)]
             S == {n \in Nat : \E f : Solves(f, n)}
  <1>1. 0 \in S
    <2> DEFINE f == [s \in 0 .. 0 |-> Start]
    <2>1. Solves(f, 0)
      OBVIOUS
    <2> QED
      BY <2>1
  <1>2. ASSUME NEW n \in Nat, n \in S PROVE n + 1 \in S
    <2> HIDE DEF Start, Then
    <2>1. PICK f : Solves(f, n)
      BY <1>2
    <2> DEFINE g == [s \in 0 .. n + 1 |-> IF s = n + 1 THEN Then(f[n], n + 1) ELSE f[s]]
    <2>2. g = [s \in 0 .. n + 1 |-> IF s = 0 THEN Start ELSE Then(g[s - 1], s)]
      <3>1. ASSUME NEW s \in 0 .. n + 1
            PROVE  g[s] = IF s = 0 THEN Start ELSE Then(g[s - 1], s)
        <4>1. CASE s = n + 1
          <5>1. g[s] = Then(f[n], n + 1) /\ s - 1 = n /\ g[n] = f[n]
            BY <4>1
          <5> HIDE DEF g
          <5> QED
            BY <4>1, <5>1
        <4>2. CASE s # n + 1
          <5>1. s \in 0 .. n /\ (s # 0 => s - 1 \in 0 .. n)
            BY <4>2
          <5>2. f[s] = IF s = 0 THEN Start ELSE Then(f[s - 1], s)
            BY <2>1, <5>1
          <5>3. g[s] = f[s] /\ (s # 0 => g[s - 1] = f[s - 1])
            BY <4>2, <5>1
          <5> HIDE DEF g
          <5> QED
            BY <5>2, <5>3
        <4> QED
          BY <4>1, <4>2
      <3> QED
        BY <3>1
    <2> HIDE DEF g
    <2>3. \E h : Solves(h, n + 1)
      BY <2>2
    <2> QED
      BY <2>3
  <1> HIDE DEF S
  <1>3. Len(Bundle) \in S
    BY <1>1, <1>2, NatSetInduction
  <1>4. PICK f : Solves(f, Len(Bundle))
    BY <1>3 DEF S
  <1> HIDE DEF Start, Then
  <1>5. Solves(AfterSlot, Len(Bundle))
    BY <1>4 DEF AfterSlot, Start, Then
  <1>6. AfterSlot[0] = Start
    BY <1>5
  <1>7. ASSUME NEW s \in 1 .. Len(Bundle)
        PROVE  AfterSlot[s] = Then(AfterSlot[s - 1], s)
    <2>1. s \in 0 .. Len(Bundle) /\ s # 0
      OBVIOUS
    <2> QED
      BY <1>5, <2>1
  <1> QED
    BY <1>6, <1>7 DEF Start, Then

\* What holds after slot s of the bundle that issues.
AfterSlots(s) ==
    LET after == AfterSlot[s]
        c     == after.cpu
    IN  /\ after = [cpu |-> c, panicked |-> after.panicked]
        /\ IsCpu(c)
        /\ c.cycle = cpu.cycle + 1
        /\ \A r \in GprIndices :
             \/ c.gprs[r] = cpu.gprs[r] /\ c.ready[r] = cpu.ready[r]
             \/ \E t \in 1 .. s : GprWriteDst(Bundle[t]) = r
        /\ \A r \in GprIndices :
             \/ c.ready[r] = cpu.ready[r]
             \/ \E t \in 1 .. s :
                  /\ GprWriteDst(Bundle[t]) = r
                  /\ \E latency \in ResultLatencies(Bundle[t].op) :
                        c.ready[r] = cpu.cycle + 1 + latency
        /\ \/ c.pc = cpu.pc + 1
           \/ \E t \in 1 .. s : Bundle[t].op \in {"Branch", "Jump", "Call"}
           \/ \E t \in 1 .. s : Bundle[t].op = "Ret" /\ AfterSlot[t - 1].cpu.gprs[LinkReg] # 0
                                /\ c.pc = AfterSlot[t - 1].cpu.gprs[LinkReg]
        /\ \/ c.gprs[LinkReg] = cpu.gprs[LinkReg]
           \/ \E t \in 1 .. s : Bundle[t].op \in GprWriters /\ Bundle[t].dst = LinkReg
           \/ \E t \in 1 .. s : /\ Bundle[t].op = "Call"
                                /\ c.gprs[LinkReg] = AsWord(AfterSlot[t - 1].cpu.pc)
        /\ after.panicked =>
             \E t \in 1 .. s : FaultsAt(AfterSlot[t - 1].cpu, Bundle[t])

\* One more slot.
LEMMA NextSlot ==
    ASSUME IsCpu(cpu), Bundle \in Seq(Syllable), NEW s \in 1 .. Len(Bundle),
           AfterSlots(s - 1)
    PROVE  AfterSlots(s)
  <1> DEFINE before == AfterSlot[s - 1]
             after  == AfterSlot[s]
             b      == before.cpu
             c      == after.cpu
  <1>1. Bundle[s] \in Syllable /\ Len(Bundle) \in Nat /\ s \in Nat /\ s - 1 \in Nat
    OBVIOUS
  <1>2. after = IF before.panicked \/ before.cpu.halted THEN before
                ELSE IF FaultsAt(before.cpu, Bundle[s]) THEN [before EXCEPT !.panicked = TRUE]
                ELSE [before EXCEPT !.cpu = ExecSyllable(@, Bundle[s])]
    BY <1>1, AfterSlotDef
  <1>3. /\ before = [cpu |-> b, panicked |-> before.panicked]
        /\ IsCpu(b)
        /\ b.cycle = cpu.cycle + 1
    BY DEF AfterSlots
  <1>4. CASE c = b /\ after = [cpu |-> c, panicked |-> after.panicked]
             /\ (after.panicked => before.panicked \/ FaultsAt(b, Bundle[s]))
    BY <1>1, <1>4 DEF AfterSlots
  <1>5. CASE /\ after = [cpu |-> c, panicked |-> before.panicked]
             /\ c = ExecSyllable(b, Bundle[s])
    <2> DEFINE syl == Bundle[s]
    <2>1. Effect(b, syl, c)
      BY <1>1, <1>3, <1>5, SyllableEffect
    <2>2. after.panicked = before.panicked
      BY <1>5
    <2> HIDE DEF before, after, b, c
    <2> USE DEF b, c
    <2>3. \A r \in GprIndices :
             \/ c.gprs[r] = cpu.gprs[r] /\ c.ready[r] = cpu.ready[r]
             \/ \E t \in 1 .. s : GprWriteDst(Bundle[t]) = r
      BY <1>1, <2>1 DEF AfterSlots, Effect, before
    <2>4. \A r \in GprIndices :
             \/ c.ready[r] = cpu.ready[r]
             \/ \E t \in 1 .. s :
                  /\ GprWriteDst(Bundle[t]) = r
                  /\ \E latency \in ResultLatencies(Bundle[t].op) :
                        c.ready[r] = cpu.cycle + 1 + latency
      BY <1>1, <1>3, <2>1 DEF AfterSlots, Effect, before
    <2>5. \/ c.pc = cpu.pc + 1
          \/ \E t \in 1 .. s : Bundle[t].op \in {"Branch", "Jump", "Call"}
          \/ \E t \in 1 .. s : Bundle[t].op = "Ret" /\ AfterSlot[t - 1].cpu.gprs[LinkReg] # 0
                               /\ c.pc = AfterSlot[t - 1].cpu.gprs[LinkReg]
      BY <1>1, <2>1 DEF AfterSlots, Effect, before
    <2>6. after.panicked => \E t \in 1 .. s : FaultsAt(AfterSlot[t - 1].cpu, Bundle[t])
      BY <1>1, <2>2 DEF AfterSlots, before
    <2>7. c.cycle = cpu.cycle + 1 /\ IsCpu(c)
      BY <1>3, <2>1 DEF Effect
    <2>8. \/ c.gprs[LinkReg] = b.gprs[LinkReg]
          \/ syl.op \in GprWriters /\ syl.dst = LinkReg
          \/ syl.op = "Call" /\ c.gprs[LinkReg] = AsWord(b.pc)
      <3>1. CASE GprWriteDst(syl) # LinkReg
        BY <2>1, <3>1, LinkIsAGpr DEF Effect
      <3>2. CASE GprWriteDst(syl) = LinkReg
        <4>1. syl.op = "Call" \/ (syl.op \in GprWriters /\ syl.dst = LinkReg)
          BY <3>2, LinkIsAGpr DEF GprWriteDst, NoReg, GprIndices
        <4> QED
          BY <2>1, <4>1 DEF Effect
      <3> QED
        BY <3>1, <3>2
    <2>9. \/ c.gprs[LinkReg] = cpu.gprs[LinkReg]
          \/ \E t \in 1 .. s : Bundle[t].op \in GprWriters /\ Bundle[t].dst = LinkReg
          \/ \E t \in 1 .. s : /\ Bundle[t].op = "Call"
                               /\ c.gprs[LinkReg] = AsWord(AfterSlot[t - 1].cpu.pc)
      BY <1>1, <2>8 DEF AfterSlots, before
    <2> QED
      BY <1>5, <2>2, <2>3, <2>4, <2>5, <2>6, <2>7, <2>9 DEF AfterSlots, after
  <1>6. CASE before.panicked \/ b.halted
    BY <1>2, <1>3, <1>4, <1>6
  <1>7. CASE ~ (before.panicked \/ b.halted) /\ FaultsAt(b, Bundle[s])
    BY <1>2, <1>3, <1>4, <1>7
  <1>8. CASE ~ (before.panicked \/ b.halted) /\ ~FaultsAt(b, Bundle[s])
    BY <1>2, <1>3, <1>5, <1>8
  <1> QED
    BY <1>6, <1>7, <1>8

LEMMA EverySlot ==
    ASSUME IsCpu(cpu), Bundle \in Seq(Syllable)
    PROVE  \A s \in 0 .. Len(Bundle) : AfterSlots(s)
  <1> DEFINE S == {n \in Nat : n <= Len(Bundle) => AfterSlots(n)}
  <1>1. 0 \in S
    <2>1. AfterSlot[0] = [cpu |-> Issuing(cpu), panicked |-> FALSE]
      BY AfterSlotDef
    <2>2. AfterSlots(0)
      BY <2>1, IssuingEffect DEF AfterSlots
    <2> QED
      BY <2>2
  <1>2. ASSUME NEW n \in Nat, n \in S PROVE n + 1 \in S
    <2>1. ASSUME n + 1 <= Len(Bundle) PROVE AfterSlots(n + 1)
      <3>1. n + 1 \in 1 .. Len(Bundle) /\ (n + 1) - 1 = n /\ AfterSlots(n)
        BY <1>2, <2>1
      <3> QED
        BY <3>1, NextSlot
    <2> QED
      BY <2>1
  <1> HIDE DEF S
  <1>3. Nat \subseteq S
    BY <1>1, <1>2, NatSetInduction
  <1> QED
    BY <1>3 DEF S

-----------------------------------------------------------------------------
(* What a step does. *)

CpuInv == program \in Programs /\ IsCpu(cpu)

LEMMA RunningBundle ==
    ASSUME CpuInv, Running
    PROVE  /\ cpu.pc + 1 \in DOMAIN program
           /\ Bundle \in Seq(Syllable)
           /\ Len(Bundle) = Len(Slots)
  <1>1. cpu.pc + 1 \in DOMAIN program
    BY DEF Running, Finished
  <1>2. program \in Seq(Seq(Syllable)) /\ \A i \in DOMAIN program : Len(program[i]) = Len(Slots)
    BY ProgramsAssumption DEF CpuInv
  <1> QED
    BY <1>1, <1>2 DEF Bundle

\* A bundle that issues leaves the CPU as its last slot did.
LEMMA IssueEffect ==
    ASSUME CpuInv, Issue, ~panicked'
    PROVE  AfterSlots(Len(Bundle)) /\ cpu' = AfterSlot[Len(Bundle)].cpu
  <1>1. Bundle \in Seq(Syllable)
    BY RunningBundle DEF Issue
  <1>2. AfterSlots(Len(Bundle))
    BY <1>1, EverySlot DEF CpuInv
  <1> QED
    BY <1>2 DEF Issue, TracedExec

LEMMA StallEffect ==
    ASSUME CpuInv, cpu' = [cpu EXCEPT !.cycle = @ + 1]
    PROVE  /\ IsCpu(cpu')
           /\ cpu'.cycle = cpu.cycle + 1
           /\ \A f \in DOMAIN NewCpu \ {"cycle"} : cpu'[f] = cpu[f]
  <1>1. cpu.cycle + 1 \in Nat
    BY DEF CpuInv, IsCpu
  <1> QED
    BY <1>1 DEF CpuInv, IsCpu, NewCpu

LEMMA HaltEffect ==
    ASSUME CpuInv, cpu' = [cpu EXCEPT !.halted = TRUE]
    PROVE  /\ IsCpu(cpu')
           /\ cpu'.halted = TRUE
           /\ \A f \in DOMAIN NewCpu \ {"halted"} : cpu'[f] = cpu[f]
  BY DEF CpuInv, IsCpu, NewCpu

LEMMA CpuInvInit == Init => CpuInv
  BY NewCpuIsCpu DEF Init, CpuInv

LEMMA CpuInvStep == CpuInv /\ [Next]_vars => CpuInv'
  <1> SUFFICES ASSUME CpuInv, [Next]_vars PROVE CpuInv'
    OBVIOUS
  <1>1. CASE IllegalBundle
    BY <1>1, HaltEffect DEF IllegalBundle, CpuInv
  <1>2. CASE Stall
    BY <1>2, StallEffect DEF Stall, CpuInv
  <1>3. CASE Issue /\ ~panicked'
    BY <1>3, IssueEffect DEF Issue, AfterSlots, CpuInv
  <1>4. CASE Issue /\ panicked'
    BY <1>4 DEF Issue, CpuInv
  <1>5. CASE UNCHANGED vars
    BY <1>5 DEF vars, CpuInv
  <1> QED
    BY <1>1, <1>2, <1>3, <1>4, <1>5 DEF Next

LEMMA CpuInvAlways == Spec => []CpuInv
  BY CpuInvInit, CpuInvStep, PTL DEF Spec

-----------------------------------------------------------------------------
(* Types. *)

LEMMA SlotTypes ==
    ASSUME cpu \in CpuStates, Bundle \in Seq(Syllable)
    PROVE  \A s \in 0 .. Len(Bundle) :
             AfterSlot[s].cpu \in CpuStates /\ AfterSlot[s].panicked \in BOOLEAN
  <1> DEFINE Typed(s) == AfterSlot[s].cpu \in CpuStates /\ AfterSlot[s].panicked \in BOOLEAN
             S == {n \in Nat : n <= Len(Bundle) => Typed(n)}
  <1>1. 0 \in S
    <2>1. AfterSlot[0] = [cpu |-> Issuing(cpu), panicked |-> FALSE]
      BY AfterSlotDef
    <2>2. Issuing(cpu) \in CpuStates
      BY IssuingType
    <2>3. Typed(0)
      BY <2>1, <2>2
    <2> QED
      BY <2>3
  <1>2. ASSUME NEW n \in Nat, n \in S PROVE n + 1 \in S
    <2>1. ASSUME n + 1 <= Len(Bundle) PROVE Typed(n + 1)
      <3> DEFINE before == AfterSlot[n]
                 s      == n + 1
      <3>1. s \in 1 .. Len(Bundle) /\ s - 1 = n /\ Bundle[s] \in Syllable /\ Typed(n)
        BY <1>2, <2>1
      <3>2. /\ AfterSlot[s] = IF before.panicked \/ before.cpu.halted THEN before
                              ELSE IF FaultsAt(before.cpu, Bundle[s])
                                   THEN [before EXCEPT !.panicked = TRUE]
                              ELSE [before EXCEPT !.cpu = ExecSyllable(@, Bundle[s])]
            /\ before = [cpu |-> before.cpu, panicked |-> before.panicked]
        BY <3>1, AfterSlotDef, EverySlot, StateIsCpu DEF AfterSlots
      <3>3. ExecSyllable(before.cpu, Bundle[s]) \in CpuStates
        BY <3>1, SyllableType
      <3> HIDE DEF before
      <3> QED
        BY <3>1, <3>2, <3>3 DEF before
    <2> QED
      BY <2>1
  <1> HIDE DEF S
  <1>3. Nat \subseteq S
    BY <1>1, <1>2, NatSetInduction
  <1> QED
    BY <1>3 DEF S

\* Every instruction leaves registers of one word, a memory of bytes, cache
\* lines and a scoreboard, so TypeOK needs no other invariant.
LEMMA TypeStep == TypeOK /\ [Next]_vars => TypeOK'
  <1> SUFFICES ASSUME TypeOK, [Next]_vars PROVE TypeOK'
    OBVIOUS
  <1>1. CASE IllegalBundle
    BY <1>1, WriteTypes DEF IllegalBundle, TypeOK
  <1>2. CASE Stall
    BY <1>2, StalledType DEF Stall, TypeOK
  <1>3. CASE Issue
    <2>1. CpuInv
      BY StateIsCpu DEF TypeOK, CpuInv
    <2>2. Bundle \in Seq(Syllable) /\ Len(Bundle) \in 0 .. Len(Bundle)
      BY <1>3, <2>1, RunningBundle DEF Issue
    <2>3. TracedExec.cpu \in CpuStates /\ TracedExec.panicked \in BOOLEAN
      BY <2>2, SlotTypes DEF TypeOK, TracedExec
    <2> QED
      BY <1>3, <2>3 DEF Issue, TypeOK
  <1>4. CASE UNCHANGED vars
    BY <1>4 DEF vars, TypeOK
  <1> QED
    BY <1>1, <1>2, <1>3, <1>4 DEF Next

\* Whatever bundles a CPU runs alone (step_trace), its registers hold words,
\* its memory bytes and its cache lines, and its program counter, clock and
\* scoreboard hold natural numbers.
THEOREM CpuTypeCorrect == Spec => []TypeOK
  <1>1. Init => TypeOK
    BY NewCpuType DEF Init, TypeOK
  <1> QED
    BY <1>1, TypeStep, PTL DEF Spec

-----------------------------------------------------------------------------
(* The scoreboard. *)

\* The static bound of an opcode covers all that the CPU takes for it: every
\* outcome of a load is as fast as a miss with a writeback.
LEMMA WorstLatencyCovers ==
    ASSUME HitsAreNoWorse, NEW op \in Opcodes, NEW latency \in ResultLatencies(op)
    PROVE  latency \in Nat /\ WorstLatency(op) \in Nat /\ latency <= WorstLatency(op)
  <1>1. latency \in Nat
    BY LatenciesAreNaturals
  <1>2. CASE op \in Loads
    <2>1. latency \in {HitLatency, MissLatency, CacheWorstCaseLoadLatency}
      BY <1>2 DEF ResultLatencies
    <2>2. CacheWorstCaseLoadLatency \in Nat /\ MissLatency <= CacheWorstCaseLoadLatency
      BY CacheAssumption DEF CacheWorstCaseLoadLatency
    <2>3. WorstLatency(op) = CacheWorstCaseLoadLatency
      BY <1>2 DEF WorstLatency
    <2> QED
      BY <1>1, <2>1, <2>2, <2>3 DEF HitsAreNoWorse
  <1>3. CASE op \notin Loads
    <2>1. latency = Latency[op] /\ WorstLatency(op) = Latency[op]
      BY <1>3 DEF ResultLatencies, WorstLatency
    <2> QED
      BY <1>1, <2>1
  <1> QED
    BY <1>2, <1>3

\* Whatever the program and the lines in the cache, a step gives a register a
\* new ready cycle only where the bundle that issues writes it, and one within
\* the static bound of the syllable that does: a load within
\* worst_case_load_latency.
THEOREM ReadyWithinWorstCaseAlways == Spec => ReadyWithinWorstCase
  <1> DEFINE Within ==
        HitsAreNoWorse =>
           \A r \in GprIndices : cpu'.ready[r] # cpu.ready[r] =>
              \E s \in DOMAIN Bundle :
                 /\ GprWriteDst(Bundle[s]) = r
                 /\ cpu'.ready[r] <= cpu'.cycle + WorstLatency(Bundle[s].op)
  <1>1. CpuInv /\ [Next]_vars => Within
    <2> SUFFICES ASSUME CpuInv, [Next]_vars, HitsAreNoWorse,
                        NEW r \in GprIndices, cpu'.ready[r] # cpu.ready[r]
                 PROVE  \E s \in DOMAIN Bundle :
                          /\ GprWriteDst(Bundle[s]) = r
                          /\ cpu'.ready[r] <= cpu'.cycle + WorstLatency(Bundle[s].op)
      OBVIOUS
    <2>1. CASE IllegalBundle
      BY <2>1, HaltEffect DEF IllegalBundle, NewCpu
    <2>2. CASE Stall
      BY <2>2, StallEffect DEF Stall, NewCpu
    <2>3. CASE Issue /\ ~panicked'
      <3> DEFINE c == AfterSlot[Len(Bundle)].cpu
      <3>1. cpu' = c /\ AfterSlots(Len(Bundle)) /\ Bundle \in Seq(Syllable)
        BY <2>3, IssueEffect, RunningBundle DEF Issue
      <3>2. c.cycle = cpu.cycle + 1 /\ cpu.cycle \in Nat
        BY <3>1 DEF AfterSlots, CpuInv, IsCpu
      <3>3. PICK t \in 1 .. Len(Bundle) :
               /\ GprWriteDst(Bundle[t]) = r
               /\ \E l \in ResultLatencies(Bundle[t].op) : c.ready[r] = cpu.cycle + 1 + l
        <4>1. c.ready[r] # cpu.ready[r]
          BY <3>1
        <4> QED
          BY <3>1, <4>1 DEF AfterSlots
      <3>4. PICK l \in ResultLatencies(Bundle[t].op) : c.ready[r] = cpu.cycle + 1 + l
        BY <3>3
      <3>5. t \in DOMAIN Bundle /\ Bundle[t].op \in Opcodes
        <4>1. Bundle[t] \in Syllable /\ DOMAIN Bundle = 1 .. Len(Bundle)
          BY <3>1
        <4> QED
          BY <4>1 DEF Syllable
      <3>6. l \in Nat /\ WorstLatency(Bundle[t].op) \in Nat /\ l <= WorstLatency(Bundle[t].op)
        <4>1. HitsAreNoWorse
          OBVIOUS
        <4> HIDE DEF c
        <4> QED
          BY <3>4, <3>5, <4>1, WorstLatencyCovers
      <3> HIDE DEF c
      <3>7. cpu'.ready[r] <= cpu'.cycle + WorstLatency(Bundle[t].op)
        BY <3>1, <3>2, <3>4, <3>6
      <3> QED
        BY <3>3, <3>5, <3>7
    <2>4. CASE Issue /\ panicked'
      BY <2>4 DEF Issue
    <2>5. CASE UNCHANGED vars
      BY <2>5 DEF vars
    <2> QED
      BY <2>1, <2>2, <2>3, <2>4, <2>5 DEF Next
  <1>2. CpuInv /\ [Next]_vars => [Within]_vars
    BY <1>1
  <1> HIDE DEF Within
  <1>3. Spec => [][Within]_vars
    BY <1>2, CpuInvAlways, PTL DEF Spec
  <1> QED
    BY <1>3 DEF Within, ReadyWithinWorstCase

-----------------------------------------------------------------------------
(* The link register. *)

\* The link register always holds 0 or the address behind a bundle with a
\* Call, in programs that write it by Call only and transfer control once per
\* bundle.
THEOREM LinkFollowsACallAlways == Spec => []LinkFollowsACall
  <1>1. Init => LinkFollowsACall
    BY LinkIsAGpr DEF Init, NewCpu, LinkFollowsACall
  <1>2. CpuInv /\ LinkFollowsACall /\ [Next]_vars => LinkFollowsACall'
    <2> SUFFICES ASSUME CpuInv, LinkFollowsACall, [Next]_vars,
                        LinkIsForCalls', OneControlOpPerBundle', cpu'.gprs[LinkReg] # 0
                 PROVE  /\ cpu'.gprs[LinkReg] \in DOMAIN program'
                        /\ \E s \in DOMAIN Slots : program'[cpu'.gprs[LinkReg]][s].op = "Call"
      BY DEF LinkFollowsACall
    <2>1. program' = program
      BY DEF Next, vars, IllegalBundle, Stall, Issue
    <2>2. LinkIsForCalls /\ OneControlOpPerBundle
      BY <2>1 DEF LinkIsForCalls, OneControlOpPerBundle
    <2>3. CASE cpu'.gprs[LinkReg] = cpu.gprs[LinkReg]
      BY <2>1, <2>2, <2>3 DEF LinkFollowsACall
    <2>4. CASE IllegalBundle
      BY <2>3, <2>4, HaltEffect DEF IllegalBundle, NewCpu
    <2>5. CASE Stall
      BY <2>3, <2>5, StallEffect DEF Stall, NewCpu
    <2>6. CASE Issue /\ panicked'
      BY <2>3, <2>6 DEF Issue
    <2>7. CASE UNCHANGED vars
      BY <2>3, <2>7 DEF vars
    <2>8. CASE Issue /\ ~panicked' /\ cpu'.gprs[LinkReg] # cpu.gprs[LinkReg]
      <3>1. /\ cpu.pc + 1 \in DOMAIN program
            /\ Bundle \in Seq(Syllable) /\ Len(Bundle) = Len(Slots)
            /\ Bundle = program[cpu.pc + 1]
        BY <2>8, RunningBundle DEF Issue, Bundle
      <3>2. cpu' = AfterSlot[Len(Bundle)].cpu /\ AfterSlots(Len(Bundle))
        BY <2>8, IssueEffect
      <3>3. \A t \in 1 .. Len(Bundle) :
               ~ (Bundle[t].op \in GprWriters /\ Bundle[t].dst = LinkReg)
        BY <2>2, <3>1 DEF LinkIsForCalls
      <3>4. PICK t \in 1 .. Len(Bundle) :
               /\ Bundle[t].op = "Call"
               /\ cpu'.gprs[LinkReg] = AsWord(AfterSlot[t - 1].cpu.pc)
        BY <2>8, <3>2, <3>3 DEF AfterSlots
      <3>5. \A u \in 1 .. t - 1 : Bundle[u].op \notin ControlOps
        <4>1. \A u \in 1 .. t - 1 : u \in DOMAIN Bundle /\ t \in DOMAIN Bundle /\ u # t
          BY <3>1
        <4> QED
          BY <2>2, <3>1, <3>4, <4>1 DEF OneControlOpPerBundle, ControlOps
      <3>6. AfterSlots(t - 1)
        BY <3>1, EverySlot DEF CpuInv
      <3>7. AfterSlot[t - 1].cpu.pc = cpu.pc + 1
        BY <3>5, <3>6 DEF AfterSlots, ControlOps
      <3>8. program \in Seq(Seq(Syllable)) /\ Len(program) < WordMod
        BY ProgramsAssumption DEF CpuInv
      <3>9. cpu.pc + 1 \in Nat /\ cpu.pc + 1 < WordMod
        BY <3>1, <3>8, WordFacts
      <3>10. cpu'.gprs[LinkReg] = cpu.pc + 1
        BY <3>4, <3>7, <3>9, AsWordOfSmall
      <3>11. t \in DOMAIN Slots
        BY <3>1, LayoutAssumption
      <3> QED
        BY <2>1, <3>1, <3>4, <3>10, <3>11
    <2> QED
      BY <2>3, <2>4, <2>5, <2>6, <2>7, <2>8 DEF Next
  <1> QED
    BY <1>1, <1>2, CpuInvAlways, PTL DEF Spec

-----------------------------------------------------------------------------
(* The slots of one bundle. *)

\* A legal bundle that issues, with its guards and effects as SlotsAreParallel
\* takes them.
Disciplined ==
    /\ CpuInv
    /\ Running
    /\ BundleIsLegal(cpu, Bundle)
    /\ GuardsSettled
    /\ SingleEffects

Done(s) == {t \in ExecutedSlots : t <= s}

HaltsBy(s) ==
    \E i \in ActiveSlots(cpu, Bundle) :
        i <= s /\ Bundle[i].op = "Ret" /\ ReadGpr(cpu, LinkReg) = 0

\* After slot s every register is as its writer among the slots done, alone,
\* makes it of the state before the bundle, and what no slot done writes is
\* unchanged.
ParallelUpTo(s) ==
    LET c == AfterSlot[s].cpu
    IN  /\ IsCpu(c)
        /\ c.cycle = cpu.cycle + 1
        /\ c.halted <=> HaltsBy(s)
        /\ \A r \in GprIndices :
             r = 0 \/ (\A t \in Done(s) : GprWriteDst(Bundle[t]) # r) =>
               c.gprs[r] = cpu.gprs[r]
        /\ \A r \in GprIndices \ {0} : \A t \in Done(s) : GprWriteDst(Bundle[t]) = r =>
             c.gprs[r] = Alone(t).gprs[r] /\ c.ready[r] = Alone(t).ready[r]
        /\ \A p \in PredIndices :
             \/ p # 0 /\ \E t \in Done(s) : Bundle[t].op \in WritesPred /\ Bundle[t].dst = p
             \/ c.preds[p] = cpu.preds[p]
        /\ \A p \in PredIndices \ {0} : \A t \in Done(s) :
             Bundle[t].op \in WritesPred /\ Bundle[t].dst = p => c.preds[p] = Alone(t).preds[p]
        /\ (\A t \in Done(s) : Bundle[t].op \notin MemoryOps) =>
             c.memory = cpu.memory /\ c.cache = cpu.cache
        /\ (\A t \in Done(s) : Bundle[t].op \notin ControlOps) => c.pc = cpu.pc + 1

LEMMA DisciplinedBundle ==
    ASSUME Disciplined
    PROVE  /\ IsCpu(cpu) /\ cpu.halted = FALSE
           /\ Bundle \in Seq(Syllable) /\ Len(Bundle) \in Nat
           /\ DOMAIN Bundle = 1 .. Len(Bundle)
           /\ \A s \in DOMAIN Bundle : Bundle[s] \in Syllable
           /\ ActiveSlots(cpu, Bundle) \subseteq DOMAIN Bundle
           /\ ExecutedSlots \subseteq ActiveSlots(cpu, Bundle)
  <1>1. Bundle \in Seq(Syllable)
    BY RunningBundle DEF Disciplined
  <1>2. IsCpu(cpu) /\ ~cpu.halted
    BY DEF Disciplined, CpuInv, Running, Finished
  <1> QED
    BY <1>1, <1>2 DEF ActiveSlots, ExecutedSlots, IsCpu

\* Whether a guard holds does not change on the way to its slot.
LEMMA GuardsHold ==
    ASSUME Disciplined, NEW s \in DOMAIN Bundle, ParallelUpTo(s - 1)
    PROVE  Active(AfterSlot[s - 1].cpu, Bundle[s]) <=> Active(cpu, Bundle[s])
  <1> DEFINE b == AfterSlot[s - 1].cpu
             g == Bundle[s].pred
  <1>1. ReadPred(b, g) <=> ReadPred(cpu, g)
    <2>1. CASE g = 0
      BY <2>1 DEF ReadPred
    <2>2. CASE g \in PredIndices \ {0}
      <3>1. \A t \in Done(s - 1) : ~ (Bundle[t].op \in WritesPred /\ Bundle[t].dst = g)
        <4>1. \A t \in Done(s - 1) : t \in DOMAIN Bundle /\ t < s
          BY DisciplinedBundle DEF Done
        <4> QED
          BY <2>2, <4>1 DEF Disciplined, GuardsSettled
      <3>2. b.preds[g] = cpu.preds[g]
        BY <2>2, <3>1 DEF ParallelUpTo
      <3> QED
        BY <2>2, <3>2 DEF ReadPred
    <2>3. CASE g \notin PredIndices \cup {0}
      BY <2>3 DEF ReadPred
    <2> QED
      BY <2>1, <2>2, <2>3
  <1> QED
    BY <1>1 DEF Active, ReadPred

\* What a slot reads, none of the slots done has written.
LEMMA InputsAreUntouched ==
    ASSUME Disciplined, NEW s \in ActiveSlots(cpu, Bundle), ParallelUpTo(s - 1)
    PROVE  SameInputs(AfterSlot[s - 1].cpu, Issuing(cpu), Bundle[s])
  <1> DEFINE b == AfterSlot[s - 1].cpu
             i == Issuing(cpu)
             syl == Bundle[s]
  <1>1. ASSUME NEW t \in Done(s - 1)
        PROVE  /\ t \in ActiveSlots(cpu, Bundle) /\ t \in DOMAIN Bundle /\ t < s
               /\ ~RuntimeGprHazard(Bundle[t], syl) /\ ~RuntimePredHazard(Bundle[t], syl)
    <2>1. t \in ActiveSlots(cpu, Bundle) /\ t \in DOMAIN Bundle /\ s \in DOMAIN Bundle /\ t < s
      BY DisciplinedBundle DEF Done
    <2> QED
      BY <2>1 DEF Disciplined, BundleIsLegal
  <1>2. /\ i.cycle = cpu.cycle + 1 /\ i.pc = cpu.pc + 1
        /\ i.gprs = cpu.gprs /\ i.preds = cpu.preds
        /\ i.memory = cpu.memory /\ i.cache = cpu.cache
    BY IssuingEffect, DisciplinedBundle
  <1> HIDE DEF i
  <1>3. ASSUME NEW r, Reads(syl, r) PROVE ReadGpr(b, r) = ReadGpr(i, r)
    <2>1. CASE r \in GprIndices \ {0}
      <3>1. \A t \in Done(s - 1) : GprWriteDst(Bundle[t]) # r
        BY <1>1, <1>3, <2>1 DEF RuntimeGprHazard
      <3> QED
        BY <1>2, <2>1, <3>1 DEF ParallelUpTo, ReadGpr
    <2>2. CASE r \notin GprIndices \ {0}
      BY <2>2 DEF ReadGpr
    <2> QED
      BY <2>1, <2>2
  <1>4. ASSUME syl.op \in PredicateOps, NEW p, Reads(syl, p)
        PROVE  ReadPred(b, p) = ReadPred(i, p)
    <2>1. CASE p \in PredIndices \ {0}
      <3>1. \A t \in Done(s - 1) : ~ (Bundle[t].op \in WritesPred /\ Bundle[t].dst = p)
        BY <1>1, <1>4, <2>1 DEF RuntimePredHazard
      <3>2. b.preds[p] = cpu.preds[p]
        BY <2>1, <3>1 DEF ParallelUpTo
      <3>3. b.preds[p] = i.preds[p]
        BY <1>2, <3>2
      <3> HIDE DEF b
      <3> QED
        BY <3>3, Zenon DEF ReadPred
    <2>2. CASE p \notin PredIndices \ {0}
      BY <2>2 DEF ReadPred
    <2> QED
      BY <2>1, <2>2
  <1>5. ASSUME syl.op \in MemoryOps PROVE b.memory = i.memory /\ b.cache = i.cache
    <2>1. \A t \in Done(s - 1) : Bundle[t].op \notin MemoryOps
      <3>1. \A t \in Done(s - 1) : t # s /\ t \in DOMAIN Bundle /\ s \in DOMAIN Bundle
        BY <1>1, DisciplinedBundle
      <3> QED
        BY <1>5, <3>1 DEF Disciplined, SingleEffects
    <2> QED
      BY <1>2, <2>1 DEF ParallelUpTo
  <1>6. ASSUME syl.op = "Call" PROVE b.pc = i.pc
    <2>1. \A t \in Done(s - 1) : Bundle[t].op \notin ControlOps
      <3>1. \A t \in Done(s - 1) : t # s /\ t \in DOMAIN Bundle /\ s \in DOMAIN Bundle
        BY <1>1, DisciplinedBundle
      <3>2. syl.op \in ControlOps
        BY <1>6 DEF ControlOps
      <3> QED
        BY <3>1, <3>2 DEF Disciplined, SingleEffects
    <2> QED
      BY <1>2, <2>1 DEF ParallelUpTo
  <1>7. b.cycle = i.cycle
    BY <1>2 DEF ParallelUpTo
  <1> HIDE DEF b, syl
  <1>8. \A k \in {1, 2} : Reads(syl, syl.src[k])
    BY DEF Reads
  <1>9. SameInputs(b, i, syl)
    BY <1>3, <1>4, <1>5, <1>6, <1>7, <1>8 DEF SameInputs
  <1> QED
    BY <1>9 DEF b, i, syl

\* A slot that changes nothing and is not executed.
LEMMA SkippedSlot ==
    ASSUME Disciplined, NEW s \in DOMAIN Bundle, ParallelUpTo(s - 1),
           AfterSlot[s].cpu = AfterSlot[s - 1].cpu, s \notin ExecutedSlots,
           HaltsBy(s) <=> HaltsBy(s - 1)
    PROVE  ParallelUpTo(s)
  <1>1. Done(s) = Done(s - 1)
    BY DisciplinedBundle DEF Done
  <1> QED
    BY <1>1 DEF ParallelUpTo

LEMMA ExecutedSlot ==
    ASSUME Disciplined, NEW s \in ActiveSlots(cpu, Bundle), ParallelUpTo(s - 1),
           ~HaltsBy(s - 1),
           AfterSlot[s].cpu = ExecSyllable(AfterSlot[s - 1].cpu, Bundle[s])
    PROVE  ParallelUpTo(s)
  <1> DEFINE b == AfterSlot[s - 1].cpu
             c == AfterSlot[s].cpu
             syl == Bundle[s]
  <1>1. s \in DOMAIN Bundle /\ s \in Nat /\ syl \in Syllable /\ IsCpu(b)
    BY DisciplinedBundle DEF ParallelUpTo
  <1>2. Active(b, syl) /\ Active(cpu, syl) /\ Active(Issuing(cpu), syl)
    <2>1. Active(cpu, syl)
      BY DEF ActiveSlots
    <2>2. Active(b, syl)
      BY <1>1, <2>1, GuardsHold
    <2>3. Issuing(cpu).preds = cpu.preds
      BY IssuingEffect, DisciplinedBundle
    <2> QED
      BY <2>1, <2>2, <2>3 DEF Active, ReadPred
  <1>3. Frame(b, syl, c)
    BY <1>1, <1>2, SyllableFrame
  <1>4. SameResult(c, Alone(s), syl)
    <2>1. IsCpu(Issuing(cpu))
      BY IssuingEffect, DisciplinedBundle
    <2> QED
      BY <1>1, <1>2, <2>1, InputsAreUntouched, SameInputsSameResult DEF Alone
  <1>5. s \in ExecutedSlots /\ Done(s) = Done(s - 1) \cup {s} /\ s \notin Done(s - 1)
    <2>1. s \in ExecutedSlots
      BY <1>1, DisciplinedBundle DEF HaltsBy, ExecutedSlots
    <2> QED
      BY <1>1, <2>1, DisciplinedBundle DEF Done
  <1>6. ASSUME NEW t \in Done(s - 1)
        PROVE  ~RuntimeGprHazard(Bundle[t], syl) /\ ~RuntimePredHazard(Bundle[t], syl)
    <2>1. t \in ActiveSlots(cpu, Bundle) /\ t < s
      BY <1>1, DisciplinedBundle DEF Done
    <2> QED
      BY <2>1 DEF Disciplined, BundleIsLegal
  <1>7. c.halted <=> HaltsBy(s)
    <2>1. syl.op = "Ret" => b.gprs[LinkReg] = cpu.gprs[LinkReg]
      BY <1>6, LinkIsAGpr DEF RuntimeGprHazard, ParallelUpTo
    <2>2. HaltsBy(s) <=> syl.op = "Ret" /\ cpu.gprs[LinkReg] = 0
      <3>1. \A i \in ActiveSlots(cpu, Bundle) : i <= s <=> (i <= s - 1 \/ i = s)
        BY <1>1, DisciplinedBundle
      <3> QED
        BY <1>1, <3>1, ReadGprOfLink DEF HaltsBy
    <2>3. b.halted = FALSE
      BY <1>1 DEF ParallelUpTo, IsCpu
    <2> QED
      BY <1>3, <2>1, <2>2, <2>3 DEF Frame
  <1>8. ASSUME NEW r \in GprIndices,
               r = 0 \/ (\A t \in Done(s) : GprWriteDst(Bundle[t]) # r)
        PROVE  c.gprs[r] = cpu.gprs[r]
    BY <1>3, <1>5, <1>8 DEF ParallelUpTo, Frame
  <1>9. ASSUME NEW r \in GprIndices \ {0}, NEW t \in Done(s), GprWriteDst(Bundle[t]) = r
        PROVE  c.gprs[r] = Alone(t).gprs[r] /\ c.ready[r] = Alone(t).ready[r]
    <2>1. CASE t = s
      BY <1>4, <1>9, <2>1 DEF SameResult
    <2>2. CASE t \in Done(s - 1)
      <3>1. GprWriteDst(syl) # r
        BY <1>6, <1>9, <2>2 DEF RuntimeGprHazard
      <3> QED
        BY <1>3, <1>9, <2>2, <3>1 DEF ParallelUpTo, Frame
    <2> QED
      BY <1>5, <2>1, <2>2
  <1>10. ASSUME NEW p \in PredIndices,
                p = 0 \/ \A t \in Done(s) : ~ (Bundle[t].op \in WritesPred /\ Bundle[t].dst = p)
         PROVE  c.preds[p] = cpu.preds[p]
    <2>1. b.preds[p] = cpu.preds[p]
      BY <1>5, <1>10 DEF ParallelUpTo
    <2>2. c.preds[p] = b.preds[p]
      BY <1>3, <1>5, <1>10 DEF Frame
    <2> HIDE DEF b, c
    <2> QED
      BY <2>1, <2>2, Zenon
  <1>11. ASSUME NEW p \in PredIndices \ {0}, NEW t \in Done(s),
                Bundle[t].op \in WritesPred, Bundle[t].dst = p
         PROVE  c.preds[p] = Alone(t).preds[p]
    <2>1. CASE t = s
      BY <1>4, <1>11, <2>1 DEF SameResult
    <2>2. CASE t \in Done(s - 1)
      <3>1. ~ (syl.op \in WritesPred /\ syl.dst = p)
        BY <1>6, <1>11, <2>2 DEF RuntimePredHazard
      <3>2. c.preds[p] = b.preds[p]
        BY <1>3, <3>1 DEF Frame
      <3>3. b.preds[p] = Alone(t).preds[p]
        BY <1>11, <2>2 DEF ParallelUpTo
      <3> HIDE DEF b, c
      <3> QED
        BY <3>2, <3>3, Zenon
    <2> QED
      BY <1>5, <2>1, <2>2
  <1>12. ASSUME \A t \in Done(s) : Bundle[t].op \notin MemoryOps
         PROVE  c.memory = cpu.memory /\ c.cache = cpu.cache
    BY <1>3, <1>5, <1>12 DEF ParallelUpTo, Frame
  <1>13. ASSUME \A t \in Done(s) : Bundle[t].op \notin ControlOps
         PROVE  c.pc = cpu.pc + 1
    BY <1>3, <1>5, <1>13 DEF ParallelUpTo, Frame
  <1>14. IsCpu(c) /\ c.cycle = cpu.cycle + 1
    BY <1>3 DEF ParallelUpTo, Frame
  <1>15. \A p \in PredIndices :
            \/ p # 0 /\ \E t \in Done(s) : Bundle[t].op \in WritesPred /\ Bundle[t].dst = p
            \/ c.preds[p] = cpu.preds[p]
    BY <1>10
  <1>16. \A p \in PredIndices \ {0} : \A t \in Done(s) :
            Bundle[t].op \in WritesPred /\ Bundle[t].dst = p => c.preds[p] = Alone(t).preds[p]
    BY <1>11
  <1> HIDE DEF b, syl
  <1> QED
    BY <1>7, <1>8, <1>9, <1>12, <1>13, <1>14, <1>15, <1>16 DEF ParallelUpTo

\* One more slot, unless it panics.
LEMMA ParallelStep ==
    ASSUME Disciplined, NEW s \in DOMAIN Bundle,
           ~AfterSlot[s - 1].panicked => ParallelUpTo(s - 1), ~AfterSlot[s].panicked
    PROVE  ParallelUpTo(s)
  <1> DEFINE before == AfterSlot[s - 1]
             b      == before.cpu
  <1>1. AfterSlots(s - 1) /\ s \in 1 .. Len(Bundle)
    BY EverySlot, DisciplinedBundle
  <1>2. AfterSlot[s] = IF before.panicked \/ before.cpu.halted THEN before
                       ELSE IF FaultsAt(before.cpu, Bundle[s])
                            THEN [before EXCEPT !.panicked = TRUE]
                       ELSE [before EXCEPT !.cpu = ExecSyllable(@, Bundle[s])]
    BY <1>1, AfterSlotDef, DisciplinedBundle
  <1>3. before = [cpu |-> b, panicked |-> before.panicked]
    BY <1>1 DEF AfterSlots
  <1>4. ~before.panicked /\ ParallelUpTo(s - 1)
    <2>1. ~before.panicked
      BY <1>2, <1>3
    <2> QED
      BY <2>1
  <1>5. \A i \in ActiveSlots(cpu, Bundle) : i \in Nat /\ (i <= s <=> (i <= s - 1 \/ i = s))
                                           /\ (i <= s - 1 <=> i < s)
    BY <1>1, DisciplinedBundle
  <1>6. CASE b.halted
    <2>1. HaltsBy(s - 1)
      BY <1>4, <1>6 DEF ParallelUpTo
    <2>2. s \notin ExecutedSlots /\ HaltsBy(s)
      BY <1>5, <2>1 DEF HaltsBy, ExecutedSlots
    <2>3. AfterSlot[s].cpu = b
      BY <1>2, <1>6
    <2> QED
      BY <1>4, <2>1, <2>2, <2>3, SkippedSlot
  <1>7. CASE ~b.halted
    <2>1. ~HaltsBy(s - 1)
      BY <1>4, <1>7 DEF ParallelUpTo
    <2>2. AfterSlot[s].cpu = ExecSyllable(b, Bundle[s])
      BY <1>2, <1>3, <1>4, <1>7
    <2>3. CASE s \in ActiveSlots(cpu, Bundle)
      BY <1>4, <2>1, <2>2, <2>3, ExecutedSlot
    <2>4. CASE s \notin ActiveSlots(cpu, Bundle)
      <3>1. ~Active(b, Bundle[s])
        BY <1>4, <2>4, GuardsHold DEF ActiveSlots
      <3>2. AfterSlot[s].cpu = b
        BY <2>2, <3>1 DEF ExecSyllable
      <3>3. s \notin ExecutedSlots /\ (HaltsBy(s) <=> HaltsBy(s - 1))
        BY <1>5, <2>4 DEF HaltsBy, ExecutedSlots
      <3> QED
        BY <1>4, <3>2, <3>3, SkippedSlot
    <2> QED
      BY <2>3, <2>4
  <1> QED
    BY <1>6, <1>7

LEMMA ParallelFromTheStart == ASSUME Disciplined PROVE ParallelUpTo(0)
  <1>1. AfterSlot[0].cpu = Issuing(cpu)
    BY AfterSlotDef, DisciplinedBundle
  <1>2. Done(0) = {} /\ ~HaltsBy(0)
    BY DisciplinedBundle DEF Done, HaltsBy
  <1>3. LET c == Issuing(cpu)
        IN  /\ IsCpu(c)
            /\ c.cycle = cpu.cycle + 1 /\ c.pc = cpu.pc + 1
            /\ c.gprs = cpu.gprs /\ c.ready = cpu.ready /\ c.preds = cpu.preds
            /\ c.memory = cpu.memory /\ c.cache = cpu.cache /\ c.halted = cpu.halted
    BY IssuingEffect, DisciplinedBundle
  <1>4. cpu.halted = FALSE
    BY DisciplinedBundle
  <1> QED
    BY <1>1, <1>2, <1>3, <1>4 DEF ParallelUpTo

LEMMA ParallelToTheEnd ==
    ASSUME Disciplined, ~AfterSlot[Len(Bundle)].panicked
    PROVE  ParallelUpTo(Len(Bundle))
  <1> DEFINE S == {n \in Nat : n <= Len(Bundle) /\ ~AfterSlot[n].panicked => ParallelUpTo(n)}
  <1>1. 0 \in S
    BY ParallelFromTheStart
  <1>2. ASSUME NEW n \in Nat, n \in S PROVE n + 1 \in S
    <2>1. ASSUME n + 1 <= Len(Bundle), ~AfterSlot[n + 1].panicked PROVE ParallelUpTo(n + 1)
      <3>1. /\ n + 1 \in DOMAIN Bundle /\ (n + 1) - 1 = n
            /\ ~AfterSlot[n].panicked => ParallelUpTo(n)
        BY <1>2, <2>1, DisciplinedBundle
      <3> QED
        BY <2>1, <3>1, ParallelStep
    <2> QED
      BY <2>1
  <1> HIDE DEF S
  <1>3. Nat \subseteq S
    BY <1>1, <1>2, NatSetInduction
  <1>4. Len(Bundle) \in Nat
    BY DisciplinedBundle
  <1> QED
    BY <1>3, <1>4 DEF S

\* The slots of every issued bundle are parallel: each register ends as its one
\* writer alone makes it of the state before the bundle, although the slots
\* execute one after the other.
THEOREM SlotsAreParallelAlways == Spec => SlotsAreParallel
  <1> DEFINE GprsParallel ==
               \A r \in GprIndices :
                 LET writers == {s \in ExecutedSlots : GprWriteDst(Bundle[s]) = r}
                 IN  IF r = 0 \/ writers = {}
                     THEN cpu'.gprs[r] = cpu.gprs[r]
                     ELSE \A s \in writers : /\ cpu'.gprs[r] = Alone(s).gprs[r]
                                             /\ cpu'.ready[r] = Alone(s).ready[r]
             PredsParallel ==
               \A p \in PredIndices :
                 LET writers == {s \in ExecutedSlots :
                                   Bundle[s].op \in WritesPred /\ Bundle[s].dst = p}
                 IN  IF p = 0 \/ writers = {}
                     THEN cpu'.preds[p] = cpu.preds[p]
                     ELSE \A s \in writers : cpu'.preds[p] = Alone(s).preds[p]
  <1>1. CpuInv => (Issue /\ ~panicked' /\ GuardsSettled /\ SingleEffects =>
                     GprsParallel /\ PredsParallel)
    <2> SUFFICES ASSUME CpuInv, Issue, ~panicked', GuardsSettled, SingleEffects
                 PROVE  GprsParallel /\ PredsParallel
      OBVIOUS
    <2>1. Disciplined
      BY DEF Disciplined, Issue
    <2>2. cpu' = AfterSlot[Len(Bundle)].cpu
      BY IssueEffect
    <2>3. ParallelUpTo(Len(Bundle))
      <3>1. ~AfterSlot[Len(Bundle)].panicked
        BY DEF Issue, TracedExec
      <3> QED
        BY <2>1, <3>1, ParallelToTheEnd
    <2>4. Done(Len(Bundle)) = ExecutedSlots
      BY <2>1, DisciplinedBundle DEF Done
    <2>5. GprsParallel
      BY <2>2, <2>3, <2>4 DEF ParallelUpTo
    <2>6. PredsParallel
      <3>1. ASSUME NEW p \in PredIndices,
                   p = 0 \/ {s \in ExecutedSlots : Bundle[s].op \in WritesPred
                                                   /\ Bundle[s].dst = p} = {}
            PROVE  cpu'.preds[p] = cpu.preds[p]
        BY <2>2, <2>3, <2>4, <3>1 DEF ParallelUpTo
      <3>2. ASSUME NEW p \in PredIndices \ {0}, NEW s \in ExecutedSlots,
                   Bundle[s].op \in WritesPred, Bundle[s].dst = p
            PROVE  cpu'.preds[p] = Alone(s).preds[p]
        BY <2>2, <2>3, <2>4, <3>2 DEF ParallelUpTo
      <3> QED
        BY <3>1, <3>2
    <2> QED
      BY <2>5, <2>6
  <1> QED
    BY <1>1, CpuInvAlways, PTL DEF Spec, SlotsAreParallel
-----------------------------------------------------------------------------
(* What the static verifier promises. *)


\* What the verifier found of the bundle that runs.
LEMMA RunningIsVerified ==
    ASSUME Verified, Running
    PROVE  /\ cpu.pc + 1 \in DOMAIN program
           /\ BundleVerified(Bundle)
           /\ BundleTimingOk(program, cpu.pc + 1)
  BY DEF Verified, VerifiedFor, Running, Finished, Bundle

\* The check at run time refuses no bundle of a verified program whose
\* branches have no operands, whatever the state of the CPU is.
THEOREM VerifiedBundlesAreLegalAlways == Spec => VerifiedBundlesAreLegal
  <1>1. Verified /\ BranchesHaveNoOperands => ~IllegalBundle
    <2> SUFFICES ASSUME Verified, BranchesHaveNoOperands, Running
                 PROVE  BundleIsLegal(cpu, Bundle)
      BY DEF IllegalBundle
    <2>1. \A s \in DOMAIN Bundle : Bundle[s].op = "Branch" => Bundle[s].src = <<NoReg, NoReg>>
      BY RunningIsVerified DEF BranchesHaveNoOperands, Bundle
    <2> QED
      BY <2>1, RunningIsVerified, StaticImpliesLegal
  <1> QED
    BY <1>1, PTL DEF Spec, VerifiedBundlesAreLegal

\* A verified program panics for no address that was known before it ran.
THEOREM StaticAddressesNeverPanicAlways == Spec => StaticAddressesNeverPanic
  <1>1. CpuInv /\ Verified /\ Issue /\ panicked' =>
          \E s \in DOMAIN Bundle : /\ Bundle[s].op \in MemoryOps
                                   /\ Bundle[s].src[1] # 0 \/ Bundle[s].imm < 0
    <2> SUFFICES ASSUME CpuInv, Verified, Issue, panicked'
                 PROVE  \E s \in DOMAIN Bundle :
                           /\ Bundle[s].op \in MemoryOps
                           /\ Bundle[s].src[1] # 0 \/ Bundle[s].imm < 0
      OBVIOUS
    <2>1. Bundle \in Seq(Syllable) /\ BundleVerified(Bundle)
      BY RunningBundle, RunningIsVerified DEF Issue
    <2>2. AfterSlots(Len(Bundle)) /\ AfterSlot[Len(Bundle)].panicked
      BY <2>1, EverySlot DEF Issue, TracedExec, CpuInv
    <2>3. PICK s \in 1 .. Len(Bundle) : FaultsAt(AfterSlot[s - 1].cpu, Bundle[s])
      BY <2>2 DEF AfterSlots
    <2>4. s \in DOMAIN Bundle /\ Bundle[s] \in Syllable /\ Bundle[s].op \in MemoryOps
      BY <2>1, <2>3 DEF FaultsAt
    <2>5. Bundle[s].imm \in Int
      BY <2>4 DEF Syllable
    <2>6. ASSUME Bundle[s].src[1] = 0, Bundle[s].imm >= 0 PROVE FALSE
      <3>1. InBounds(Bundle[s].imm, AccessWidth(Bundle[s].op))
        BY <2>1, <2>4, <2>6 DEF BundleVerified, BundleStaticBoundsOk
      <3> QED
        BY <2>3, <2>4, <2>6, <3>1, KnownAddressIsInside
    <2> QED
      BY <2>4, <2>5, <2>6
  <1> QED
    BY <1>1, CpuInvAlways, PTL DEF Spec, StaticAddressesNeverPanic

-----------------------------------------------------------------------------
(* The static schedule. *)

\* On schedule: bundle k issues in cycle k, a Ret can only halt, and every
\* register is ready when the verifier says so.
KeepsSchedule ==
    /\ cpu.pc \in Nat
    /\ cpu.cycle = cpu.pc \/ cpu.halted
    /\ cpu.gprs[LinkReg] = 0
    /\ \A r \in GprIndices : \A c \in Nat :
         ReadyBy(program, cpu.pc + 1, r, c) => cpu.ready[r] <= c

\* On schedule no bundle stalls.
LEMMA NoStallOnSchedule ==
    ASSUME CpuInv, OnSchedule, KeepsSchedule, Running
    PROVE  ~HasUnreadySources(cpu, Bundle)
  <1>1. cpu.cycle = cpu.pc /\ cpu.pc \in Nat
    BY DEF KeepsSchedule, Running, Finished
  <1>2. BundleTimingOk(program, cpu.pc + 1) /\ Bundle = program[cpu.pc + 1]
    BY RunningIsVerified DEF OnSchedule, Bundle
  <1>3. ASSUME NEW s \in DOMAIN Bundle, NEW r \in TimedReads(Bundle[s])
        PROVE  cpu.ready[r] <= cpu.cycle + 1
    <2>1. r \in GprIndices
      BY DEF TimedReads
    <2>2. ReadyBy(program, cpu.pc + 1, r, cpu.pc + 1)
      BY <1>2 DEF BundleTimingOk
    <2> QED
      BY <1>1, <2>1, <2>2 DEF KeepsSchedule
  <1>4. ASSUME NEW s \in ActiveSlots(cpu, Bundle), UnreadySource(cpu, Bundle[s]) PROVE FALSE
    <2>1. PICK r \in GprIndices \ {0} : Reads(Bundle[s], r) /\ cpu.ready[r] > cpu.cycle + 1
      BY <1>4 DEF UnreadySource
    <2>2. s \in DOMAIN Bundle /\ r \in TimedReads(Bundle[s])
      BY <2>1 DEF ActiveSlots, TimedReads
    <2>3. cpu.ready[r] \in Nat /\ cpu.cycle \in Nat
      BY <2>1 DEF CpuInv, IsCpu
    <2> QED
      BY <1>3, <2>1, <2>2, <2>3
  <1>5. ASSUME NEW s \in ActiveSlots(cpu, Bundle), Bundle[s].op = "Ret",
               cpu.ready[LinkReg] > cpu.cycle + 1
        PROVE  FALSE
    <2>1. s \in DOMAIN Bundle /\ LinkReg \in TimedReads(Bundle[s])
      BY <1>5, LinkIsAGpr DEF ActiveSlots, TimedReads
    <2>2. cpu.ready[LinkReg] \in Nat /\ cpu.cycle \in Nat
      BY LinkIsAGpr DEF CpuInv, IsCpu
    <2> QED
      BY <1>3, <1>5, <2>1, <2>2
  <1> QED
    BY <1>4, <1>5 DEF HasUnreadySources

\* In a program without transfers of control a bundle leaves the link register
\* 0 and the program counter behind itself.
LEMMA StraightIssue ==
    ASSUME CpuInv, StraightLine(program), Running, cpu.gprs[LinkReg] = 0
    PROVE  /\ AfterSlot[Len(Bundle)].cpu.gprs[LinkReg] = 0
           /\ AfterSlot[Len(Bundle)].cpu.pc = cpu.pc + 1
  <1>1. /\ cpu.pc + 1 \in DOMAIN program
        /\ Bundle \in Seq(Syllable)
        /\ Bundle = program[cpu.pc + 1]
    BY RunningBundle DEF Bundle
  <1>2. \A t \in 1 .. Len(Bundle) :
          /\ Bundle[t].op \notin {"Branch", "Jump", "Call"}
          /\ GprWriteDst(Bundle[t]) # LinkReg
    <2>1. \A t \in 1 .. Len(Bundle) :
            Bundle[t].op \notin {"Branch", "Jump", "Call"} /\ Bundle[t].dst # LinkReg
      BY <1>1 DEF StraightLine, ControlOps
    <2>2. NoReg # LinkReg
      BY CpuAssumption DEF NoReg
    <2> QED
      BY <2>1, <2>2 DEF GprWriteDst
  <1>3. \A s \in 0 .. Len(Bundle) : AfterSlots(s)
    BY <1>1, EverySlot DEF CpuInv
  <1>4. ASSUME NEW s \in 0 .. Len(Bundle) PROVE AfterSlot[s].cpu.gprs[LinkReg] = 0
    <2>1. AfterSlots(s) /\ \A t \in 1 .. s : t \in 1 .. Len(Bundle)
      BY <1>3
    <2> QED
      BY <1>2, <2>1, LinkIsAGpr DEF AfterSlots
  <1>5. Len(Bundle) \in 0 .. Len(Bundle) /\ \A t \in 1 .. Len(Bundle) : t - 1 \in 0 .. Len(Bundle)
    BY <1>1
  <1>6. AfterSlots(Len(Bundle))
    BY <1>3, <1>5
  <1>7. AfterSlot[Len(Bundle)].cpu.pc = cpu.pc + 1
    BY <1>2, <1>4, <1>5, <1>6 DEF AfterSlots
  <1> QED
    BY <1>4, <1>5, <1>7

LEMMA IssueKeepsSchedule ==
    ASSUME CpuInv, OnSchedule, KeepsSchedule, Issue, ~panicked'
    PROVE  KeepsSchedule'
  <1> DEFINE c == AfterSlot[Len(Bundle)].cpu
             k == cpu.pc + 1
  <1>1. /\ k \in DOMAIN program
        /\ Bundle \in Seq(Syllable) /\ Bundle = program[k] /\ DOMAIN Bundle = 1 .. Len(Bundle)
    BY RunningBundle DEF Issue, Bundle
  <1>2. cpu' = c /\ AfterSlots(Len(Bundle)) /\ program' = program
    BY IssueEffect DEF Issue
  <1>3. cpu.pc \in Nat /\ cpu.cycle = cpu.pc /\ cpu.gprs[LinkReg] = 0
    BY DEF KeepsSchedule, Issue, Running, Finished
  <1>4. c.gprs[LinkReg] = 0 /\ c.pc = k
    BY <1>3, StraightIssue DEF OnSchedule, Issue
  <1>5. c.cycle = k
    BY <1>2, <1>3 DEF AfterSlots
  <1>6. ASSUME NEW r \in GprIndices, NEW n \in Nat, ReadyBy(program, k + 1, r, n)
        PROVE  c.ready[r] <= n
    <2>1. k + 1 = cpu.pc + 2
      BY <1>3
    <2>2. /\ ReadyBy(program, k, r, n)
          /\ \A s \in DOMAIN program[k] : GprWriteDst(program[k][s]) = r =>
               k + StaticLatency(program[k][s].op) <= n
      BY <1>3, <1>6, <2>1, ReadyByLater
    <2>3. CASE c.ready[r] = cpu.ready[r]
      BY <2>2, <2>3 DEF KeepsSchedule
    <2>4. CASE c.ready[r] # cpu.ready[r]
      <3>1. PICK t \in 1 .. Len(Bundle) :
               /\ GprWriteDst(Bundle[t]) = r
               /\ \E l \in ResultLatencies(Bundle[t].op) : c.ready[r] = cpu.cycle + 1 + l
        BY <1>2, <2>4 DEF AfterSlots
      <3>2. PICK l \in ResultLatencies(Bundle[t].op) : c.ready[r] = cpu.cycle + 1 + l
        BY <3>1
      <3>3. k + StaticLatency(Bundle[t].op) <= n
        BY <1>1, <2>2, <3>1
      <3>4. Bundle[t].op \in Opcodes
        <4>1. Bundle[t] \in Syllable
          BY <1>1
        <4> QED
          BY <4>1 DEF Syllable
      <3>5. /\ StaticLatency(Bundle[t].op) \in Nat
            /\ l \in Nat /\ l <= StaticLatency(Bundle[t].op)
        BY <3>2, <3>4, StaticLatencyCovers, LatenciesAreNaturals DEF OnSchedule
      <3>6. c.ready[r] = k + l /\ k \in Nat
        BY <1>3, <3>2, <3>5
      <3> HIDE DEF c, k
      <3> QED
        BY <3>3, <3>5, <3>6
    <2> QED
      BY <2>3, <2>4
  <1>7. k \in Nat
    BY <1>3
  <1> HIDE DEF c, k
  <1> QED
    BY <1>2, <1>4, <1>5, <1>6, <1>7 DEF KeepsSchedule

SchedInv == CpuInv /\ (OnSchedule => KeepsSchedule)

LEMMA SchedInvInit == Init => SchedInv
  <1> SUFFICES ASSUME Init PROVE KeepsSchedule
    BY CpuInvInit DEF SchedInv
  <1>1. /\ cpu.pc = 0 /\ cpu.cycle = 0
        /\ \A r \in GprIndices : cpu.gprs[r] = 0 /\ cpu.ready[r] = 0
    BY DEF Init, NewCpu
  <1> QED
    BY <1>1, LinkIsAGpr DEF KeepsSchedule

LEMMA SchedInvStep == SchedInv /\ [Next]_vars => SchedInv'
  <1> SUFFICES ASSUME SchedInv, [Next]_vars, OnSchedule' PROVE KeepsSchedule'
    BY CpuInvStep DEF SchedInv
  <1>1. program' = program
    BY DEF Next, vars, IllegalBundle, Stall, Issue
  <1>2. OnSchedule /\ CpuInv /\ KeepsSchedule
    BY <1>1 DEF OnSchedule, Verified, SchedInv
  <1>3. CASE IllegalBundle
    BY <1>1, <1>2, <1>3, HaltEffect DEF IllegalBundle, KeepsSchedule, NewCpu
  <1>4. CASE Stall
    BY <1>2, <1>4, NoStallOnSchedule DEF Stall
  <1>5. CASE Issue /\ panicked'
    BY <1>1, <1>2, <1>5 DEF Issue, KeepsSchedule
  <1>6. CASE Issue /\ ~panicked'
    BY <1>2, <1>6, IssueKeepsSchedule
  <1>7. CASE UNCHANGED vars
    BY <1>1, <1>2, <1>7 DEF vars, KeepsSchedule
  <1> QED
    BY <1>3, <1>4, <1>5, <1>6, <1>7 DEF Next

LEMMA SchedInvAlways == Spec => []SchedInv
  BY SchedInvInit, SchedInvStep, PTL DEF Spec

\* The compiler contract: a verified program without transfers of control
\* issues bundle k in cycle k until it ends, whatever the data, the guards and
\* the cache do, in every configuration where a hit takes no longer than a miss
\* with its writeback.
THEOREM IssuesOnScheduleAlways == Spec => []IssuesOnSchedule
  <1>1. SchedInv => IssuesOnSchedule
    BY DEF SchedInv, KeepsSchedule, IssuesOnSchedule
  <1> QED
    BY <1>1, SchedInvAlways, PTL

\* On that schedule the scoreboard never runs behind the verifier's ready_at.
THEOREM ScoreboardWithinStaticBoundAlways == Spec => []ScoreboardWithinStaticBound
  <1>1. SchedInv => ScoreboardWithinStaticBound
    <2>1. 0 .. MaxCycle \subseteq Nat
      BY ProgramsAssumption
    <2> QED
      BY <2>1 DEF SchedInv, KeepsSchedule, ScoreboardWithinStaticBound
  <1> QED
    BY <1>1, SchedInvAlways, PTL

\* So such a program never stalls.
THEOREM StraightLineNeverStalls == Spec => [][OnSchedule => ~Stall]_vars
  <1>1. SchedInv /\ OnSchedule => ~Stall
    BY NoStallOnSchedule DEF SchedInv, Stall
  <1> QED
    BY <1>1, SchedInvAlways, PTL

-----------------------------------------------------------------------------
(* The log is a sequence that only grows at its end. *)

IsLog(log) == Len(log) \in Nat /\ log = [i \in 1 .. Len(log) |-> log[i]]

LEMMA AppendToLog ==
    ASSUME NEW log, IsLog(log), NEW e, NEW longer, longer = Append(log, e)
    PROVE  /\ IsLog(longer)
           /\ Len(longer) = Len(log) + 1
           /\ longer[Len(log) + 1] = e
           /\ \A i \in 1 .. Len(log) : longer[i] = log[i]
           /\ DOMAIN log = 1 .. Len(log) /\ DOMAIN longer = 1 .. Len(log) + 1
  <1> DEFINE T == {log[i] : i \in 1 .. Len(log)} \cup {e}
  <1>1. log \in [1 .. Len(log) -> T]
    BY DEF IsLog
  <1>2. log \in Seq(T)
    BY <1>1 DEF IsLog
  <1>3. e \in T
    OBVIOUS
  <1> HIDE DEF T
  <1>4. /\ longer \in Seq(T)
        /\ Len(longer) = Len(log) + 1
        /\ \A i \in 1 .. Len(log) : longer[i] = log[i]
        /\ longer[Len(log) + 1] = e
    BY <1>2, <1>3, AppendProperties
  <1>5. IsLog(longer)
    <2>1. longer \in [1 .. Len(longer) -> T] /\ Len(longer) \in Nat
      BY <1>4, LenProperties
    <2> QED
      BY <2>1 DEF IsLog
  <1>6. DOMAIN log = 1 .. Len(log) /\ DOMAIN longer = 1 .. Len(longer)
    BY <1>2, <1>4
  <1> QED
    BY <1>4, <1>5, <1>6

\* What a call of step_trace adds to the log.
Grows(e) == IsLog(events) /\ events' = Append(events, e)

LEMMA LogGrows ==
    ASSUME NEW e, Grows(e)
    PROVE  LET n == Len(events)
           IN  /\ n \in Nat /\ IsLog(events') /\ Len(events') = n + 1
               /\ events'[n + 1] = e
               /\ \A i \in 1 .. n : events'[i] = events[i]
               /\ n > 0 => events # <<>>
               /\ events' # <<>>
  <1>1. IsLog(events) /\ events' = Append(events, e)
    BY DEF Grows
  <1>2. Len(events) \in Nat /\ (Len(events) > 0 => events # <<>>)
    BY <1>1 DEF IsLog
  <1>3. IsLog(events') /\ Len(events') = Len(events) + 1
    BY <1>1, AppendToLog
  <1>4. events'[Len(events) + 1] = e
    BY <1>1, AppendToLog
  <1>5. \A i \in 1 .. Len(events) : events'[i] = events[i]
    BY <1>1, AppendToLog
  <1>6. events' # <<>>
    BY <1>2, <1>3
  <1> QED
    BY <1>2, <1>3, <1>4, <1>5, <1>6

-----------------------------------------------------------------------------
(* Stalls. *)

\* The results that the next bundle waits for in the present state, if the
\* latest event is a stall: those of that stall that are still late.
Waiting ==
    LET last == events[Len(events)]
    IN  events # <<>> /\ last.kind = "Stall" =>
          /\ ~Finished(cpu, program)
          /\ BundleIsLegal(cpu, Bundle)
          /\ cpu.pc = last.bundle
          /\ cpu.cycle = last.cycle + 1
          /\ StallEntries = {x \in last.stalls : x.ready > last.cycle + 2}

\* Every event of a stall but the latest is explained by the one behind it.
Explained ==
    \A i \in 1 .. Len(events) :
        LET late(c) == {x \in events[i].stalls : x.ready > c}
        IN  events[i].kind = "Stall" =>
              /\ events[i].cycle \in Nat
              /\ \A x \in events[i].stalls : x.ready \in Nat
              /\ late(events[i].cycle + 1) = events[i].stalls /\ events[i].stalls # {}
              /\ i < Len(events) =>
                   /\ events[i + 1].bundle = events[i].bundle
                   /\ events[i + 1].cycle = events[i].cycle + 1
                   /\ events[i + 1].stalls = late(events[i].cycle + 2)
                   /\ events[i + 1].kind = IF late(events[i].cycle + 2) = {}
                                           THEN "Issue" ELSE "Stall"

StallInv == IsLog(events) /\ Waiting /\ Explained

\* A bundle stalls exactly if its event would name a result to wait for.
LEMMA StallsHaveAReason ==
    ASSUME CpuInv, Running
    PROVE  /\ HasUnreadySources(cpu, Bundle) <=> StallEntries # {}
           /\ \A x \in StallEntries : x.ready \in Nat /\ x.ready > cpu.cycle + 1
  <1>1. /\ IsCpu(cpu) /\ DOMAIN Bundle = 1 .. Len(Bundle)
        /\ LinkReg \in GprIndices \ {0}
    BY RunningBundle, LinkIsAGpr DEF CpuInv
  <1>2. HasUnreadySources(cpu, Bundle) => StallEntries # {}
    <2> SUFFICES ASSUME HasUnreadySources(cpu, Bundle) PROVE StallEntries # {}
      OBVIOUS
    <2>1. PICK s \in ActiveSlots(cpu, Bundle) :
             \/ UnreadySource(cpu, Bundle[s])
             \/ Bundle[s].op = "Ret" /\ cpu.ready[LinkReg] > cpu.cycle + 1
      BY DEF HasUnreadySources
    <2>2. PICK r \in GprIndices \ {0} :
             /\ Reads(Bundle[s], r) \/ (Bundle[s].op = "Ret" /\ r = LinkReg)
             /\ cpu.ready[r] > cpu.cycle + 1
      BY <1>1, <2>1 DEF UnreadySource
    <2> DEFINE stall == [slot |-> s, register |-> r]
    <2>3. stall \in Stalls
      BY <2>2 DEF Stalls, ActiveSlots
    <2> QED
      BY <2>3 DEF StallEntries
  <1>3. StallEntries # {} => HasUnreadySources(cpu, Bundle)
    <2> SUFFICES ASSUME StallEntries # {} PROVE HasUnreadySources(cpu, Bundle)
      OBVIOUS
    <2>1. PICK stall \in Stalls : TRUE
      BY DEF StallEntries
    <2>2. /\ stall.slot \in DOMAIN Bundle /\ stall.register \in GprIndices \ {0}
          /\ Active(cpu, Bundle[stall.slot])
          /\ \/ Reads(Bundle[stall.slot], stall.register)
             \/ Bundle[stall.slot].op = "Ret" /\ stall.register = LinkReg
          /\ cpu.ready[stall.register] > cpu.cycle + 1
      BY DEF Stalls
    <2>3. stall.slot \in ActiveSlots(cpu, Bundle)
      BY <2>2 DEF ActiveSlots
    <2> QED
      BY <2>2, <2>3 DEF HasUnreadySources, UnreadySource
  <1>4. \A x \in StallEntries : x.ready \in Nat /\ x.ready > cpu.cycle + 1
    BY <1>1 DEF StallEntries, Stalls, IsCpu
  <1> QED
    BY <1>2, <1>3, <1>4

\* What is waited for is waited for until its cycle, and no longer.
LEMMA StallLeavesTheRest ==
    ASSUME CpuInv, Running, cpu' = [cpu EXCEPT !.cycle = @ + 1], program' = program
    PROVE  /\ StallEntries' = {x \in StallEntries : x.ready > cpu.cycle + 2}
           /\ BundleIsLegal(cpu', Bundle') <=> BundleIsLegal(cpu, Bundle)
           /\ ~Finished(cpu', program')
           /\ cpu'.pc = cpu.pc /\ cpu'.cycle = cpu.cycle + 1
  <1>1. /\ cpu'.cycle = cpu.cycle + 1
        /\ cpu'.pc = cpu.pc /\ cpu'.ready = cpu.ready /\ cpu'.preds = cpu.preds
        /\ cpu'.halted = cpu.halted
    BY StallEffect DEF NewCpu
  <1>2. Bundle' = Bundle
    BY <1>1 DEF Bundle
  <1>3. \A syl : Active(cpu', syl) <=> Active(cpu, syl)
    BY <1>1 DEF Active, ReadPred
  <1>4. BundleIsLegal(cpu', Bundle') <=> BundleIsLegal(cpu, Bundle)
    <2>1. ActiveSlots(cpu', Bundle') = ActiveSlots(cpu, Bundle)
      BY <1>2, <1>3 DEF ActiveSlots
    <2> QED
      BY <1>2, <2>1 DEF BundleIsLegal
  <1>5. ~Finished(cpu', program')
    BY <1>1 DEF Finished, Running
  <1>6. Stalls' = {stall \in Stalls : cpu.ready[stall.register] > cpu.cycle + 2}
    <2>1. cpu.cycle \in Nat /\ \A r \in GprIndices : cpu.ready[r] \in Nat
      BY DEF CpuInv, IsCpu
    <2>2. ASSUME NEW stall \in [slot : DOMAIN Bundle, register : GprIndices \ {0}]
          PROVE  cpu'.ready[stall.register] > cpu'.cycle + 1 <=>
                   /\ cpu.ready[stall.register] > cpu.cycle + 1
                   /\ cpu.ready[stall.register] > cpu.cycle + 2
      BY <1>1, <2>1, <2>2
    <2> DEFINE All == [slot : DOMAIN Bundle, register : GprIndices \ {0}]
               Waits(stall) == /\ Active(cpu, Bundle[stall.slot])
                               /\ \/ Reads(Bundle[stall.slot], stall.register)
                                  \/ /\ Bundle[stall.slot].op = "Ret"
                                     /\ stall.register = LinkReg
               Late(stall) == cpu.ready[stall.register] > cpu.cycle + 1
               Later(stall) == cpu.ready[stall.register] > cpu.cycle + 2
               LateNow(stall) == cpu'.ready[stall.register] > cpu'.cycle + 1
    <2>3. Stalls = {stall \in All : Waits(stall) /\ Late(stall)}
      BY DEF Stalls
    <2>4. Stalls' = {stall \in All : Waits(stall) /\ LateNow(stall)}
      BY <1>2, <1>3 DEF Stalls
    <2>5. \A stall \in All : LateNow(stall) <=> Late(stall) /\ Later(stall)
      BY <2>2
    <2> HIDE DEF All, Waits, Late, LateNow
    <2>6. Stalls' = {stall \in Stalls : Later(stall)}
      <3> HIDE DEF Later
      <3> QED BY <2>3, <2>4, <2>5
    <2> QED
      BY <2>6
  <1>7. StallEntries' = {x \in StallEntries : x.ready > cpu.cycle + 2}
    BY <1>1, <1>6 DEF StallEntries
  <1> QED
    BY <1>1, <1>4, <1>5, <1>7

\* A new event explains the stall before it and, if it is one, itself.
LEMMA ExplainedGrows ==
    ASSUME Explained, NEW e, Grows(e),
           e.kind = "Stall" =>
             /\ e.cycle \in Nat /\ e.stalls # {}
             /\ \A x \in e.stalls : x.ready \in Nat /\ x.ready > e.cycle + 1,
           LET last == events[Len(events)]
           IN  events # <<>> /\ last.kind = "Stall" =>
                 /\ e.bundle = last.bundle
                 /\ e.cycle = last.cycle + 1
                 /\ e.stalls = {x \in last.stalls : x.ready > last.cycle + 2}
                 /\ e.kind = IF e.stalls = {} THEN "Issue" ELSE "Stall"
    PROVE  IsLog(events)' /\ Explained'
  <1> DEFINE n == Len(events)
  <1>1. /\ n \in Nat /\ IsLog(events') /\ Len(events') = n + 1
        /\ events'[n + 1] = e
        /\ \A i \in 1 .. n : events'[i] = events[i]
        /\ n > 0 => events # <<>>
    BY LogGrows
  <1>2. ASSUME NEW i \in 1 .. n + 1, events'[i].kind = "Stall"
        PROVE  LET x == events'[i]
                   late(c) == {y \in x.stalls : y.ready > c}
               IN  /\ x.cycle \in Nat
                   /\ \A y \in x.stalls : y.ready \in Nat
                   /\ late(x.cycle + 1) = x.stalls /\ x.stalls # {}
                   /\ i < n + 1 =>
                        /\ events'[i + 1].bundle = x.bundle
                        /\ events'[i + 1].cycle = x.cycle + 1
                        /\ events'[i + 1].stalls = late(x.cycle + 2)
                        /\ events'[i + 1].kind = IF late(x.cycle + 2) = {}
                                                 THEN "Issue" ELSE "Stall"
    <2> HIDE DEF n
    <2>1. CASE i = n + 1
      <3>1. /\ events'[i] = e /\ e.cycle \in Nat /\ e.stalls # {}
            /\ \A x \in e.stalls : x.ready \in Nat /\ x.ready > e.cycle + 1
        BY <1>1, <1>2, <2>1
      <3>2. {y \in e.stalls : y.ready > e.cycle + 1} = e.stalls
        BY <3>1
      <3>3. ~ (i < n + 1)
        BY <1>1, <2>1
      <3> QED
        BY <3>1, <3>2, <3>3
    <2>2. CASE i = n
      <3>1. i \in 1 .. n /\ events'[i] = events[i] /\ events'[i + 1] = e /\ events # <<>>
        BY <1>1, <2>2
      <3> QED
        BY <1>1, <1>2, <2>2, <3>1 DEF Explained, n
    <2>3. CASE i \in 1 .. n - 1
      <3>1. /\ i \in 1 .. n /\ i + 1 \in 1 .. n /\ i < n
            /\ events'[i] = events[i] /\ events'[i + 1] = events[i + 1]
        BY <1>1, <2>3
      <3> QED
        BY <1>1, <1>2, <3>1 DEF Explained, n
    <2> QED
      BY <1>1, <2>1, <2>2, <2>3
  <1>3. Explained'
    <2> HIDE DEF n
    <2> QED BY <1>1, <1>2 DEF Explained
  <1> QED
    BY <1>1, <1>3

LEMMA StallInvInit == TraceInit => StallInv
  <1> SUFFICES ASSUME TraceInit PROVE StallInv
    OBVIOUS
  <1>1. events = <<>> /\ Len(events) = 0
    BY DEF TraceInit
  <1>2. IsLog(events)
    BY <1>1 DEF IsLog
  <1>3. Explained
    BY <1>1 DEF Explained
  <1> QED
    BY <1>1, <1>2, <1>3 DEF StallInv, Waiting

\* Every step of the trace is a step of the CPU.
LEMMA TraceSteps == [TraceNext]_traceVars => [Next]_vars
  BY DEF TraceNext, TraceIllegal, TraceStall, TraceIssue, traceVars, Next

LEMMA StallInvStep == CpuInv /\ StallInv /\ [TraceNext]_traceVars => StallInv'
  <1> SUFFICES ASSUME CpuInv, StallInv, [TraceNext]_traceVars PROVE StallInv'
    OBVIOUS
  <1> DEFINE last == events[Len(events)]
  <1>1. CASE TraceIllegal
    <2> DEFINE e == Event("IllegalBundle", ActiveSyllables, {}, Nothing, Nothing, Nothing, Nothing)
    <2>1. Grows(e) /\ e.kind = "IllegalBundle" /\ ~BundleIsLegal(cpu, Bundle)
      BY <1>1 DEF TraceIllegal, Log, Grows, StallInv, Event, IllegalBundle
    <2> HIDE DEF e
    <2>2. ~ (events # <<>> /\ last.kind = "Stall")
      BY <2>1 DEF StallInv, Waiting
    <2>3. IsLog(events)' /\ Explained'
      BY <2>1, <2>2, ExplainedGrows DEF StallInv
    <2>4. Waiting'
      BY <2>1, LogGrows DEF Waiting
    <2> QED
      BY <2>3, <2>4 DEF StallInv
  <1>2. CASE TraceStall
    <2> DEFINE e == Event("Stall", ActiveSyllables, StallEntries, Nothing, Nothing, Nothing, Nothing)
    <2>1. /\ Grows(e) /\ e.kind = "Stall" /\ e.bundle = cpu.pc /\ e.cycle = cpu.cycle
          /\ e.stalls = StallEntries
      BY <1>2 DEF TraceStall, Log, Grows, StallInv, Event
    <2> HIDE DEF e
    <2>2. /\ Running /\ BundleIsLegal(cpu, Bundle) /\ HasUnreadySources(cpu, Bundle)
          /\ cpu' = [cpu EXCEPT !.cycle = @ + 1] /\ program' = program
          /\ cpu.cycle \in Nat
      BY <1>2 DEF TraceStall, Stall, CpuInv, IsCpu
    <2>3. StallEntries # {} /\ \A x \in StallEntries : x.ready \in Nat /\ x.ready > cpu.cycle + 1
      BY <2>2, StallsHaveAReason
    <2>4. events # <<>> /\ last.kind = "Stall" =>
            /\ e.bundle = last.bundle
            /\ e.cycle = last.cycle + 1
            /\ e.stalls = {x \in last.stalls : x.ready > last.cycle + 2}
            /\ e.kind = IF e.stalls = {} THEN "Issue" ELSE "Stall"
      BY <2>1, <2>3 DEF StallInv, Waiting
    <2>5. IsLog(events)' /\ Explained'
      BY <2>1, <2>2, <2>3, <2>4, ExplainedGrows DEF StallInv
    <2>6. Waiting'
      <3>1. /\ StallEntries' = {x \in StallEntries : x.ready > cpu.cycle + 2}
            /\ BundleIsLegal(cpu', Bundle')
            /\ ~Finished(cpu', program')
            /\ cpu'.pc = cpu.pc /\ cpu'.cycle = cpu.cycle + 1
        BY <2>2, StallLeavesTheRest
      <3>2. events'[Len(events')] = e
        BY <2>1, LogGrows
      <3> QED
        BY <2>1, <3>1, <3>2 DEF Waiting
    <2> QED
      BY <2>5, <2>6 DEF StallInv
  <1>3. CASE TraceIssue /\ ~panicked'
    <2> DEFINE e == Event("Issue", Traced, {}, GprWrites, PredWrites, MemoryEffects, ControlFlow)
    <2>1. /\ Grows(e) /\ e.kind = "Issue" /\ e.bundle = cpu.pc /\ e.cycle = cpu.cycle
          /\ e.stalls = {}
      BY <1>3 DEF TraceIssue, Log, Grows, StallInv, Event
    <2> HIDE DEF e
    <2>2. Running /\ ~HasUnreadySources(cpu, Bundle)
      BY <1>3 DEF TraceIssue, Issue
    <2>3. StallEntries = {}
      BY <2>2, StallsHaveAReason
    <2>4. events # <<>> /\ last.kind = "Stall" =>
            /\ e.bundle = last.bundle
            /\ e.cycle = last.cycle + 1
            /\ e.stalls = {x \in last.stalls : x.ready > last.cycle + 2}
            /\ e.kind = IF e.stalls = {} THEN "Issue" ELSE "Stall"
      BY <2>1, <2>3 DEF StallInv, Waiting
    <2>5. IsLog(events)' /\ Explained'
      BY <2>1, <2>4, ExplainedGrows DEF StallInv
    <2>6. Waiting'
      BY <2>1, LogGrows DEF Waiting
    <2> QED
      BY <2>5, <2>6 DEF StallInv
  <1>4. CASE UNCHANGED <<events, cpu, program>>
    <2>1. StallEntries' = StallEntries /\ Bundle' = Bundle
      BY <1>4 DEF StallEntries, Stalls, Bundle
    <2> QED
      BY <1>4, <2>1 DEF StallInv, Waiting, Explained, IsLog
  <1>5. CASE TraceIssue /\ panicked'
    BY <1>4, <1>5 DEF TraceIssue, Issue
  <1>6. CASE UNCHANGED traceVars
    BY <1>4, <1>6 DEF traceVars, vars
  <1> QED
    BY <1>1, <1>2, <1>3, <1>5, <1>6 DEF TraceNext

LEMMA CpuInvInTrace == TraceSpec => []CpuInv
  <1>1. TraceInit => CpuInv
    BY CpuInvInit DEF TraceInit
  <1>2. CpuInv /\ [TraceNext]_traceVars => CpuInv'
    BY CpuInvStep, TraceSteps
  <1> QED
    BY <1>1, <1>2, PTL DEF TraceSpec

\* Every stall in the trace of every program names the results it waits for,
\* the events behind it wait for those of them that are still late, and the
\* bundle issues in the first cycle in which none is.
THEOREM StallsAreExplainedAlways == TraceSpec => []StallsAreExplained
  <1>1. StallInv => StallsAreExplained
    <2> SUFFICES ASSUME StallInv PROVE StallsAreExplained
      OBVIOUS
    <2>1. DOMAIN events = 1 .. Len(events)
      BY DEF StallInv, IsLog
    <2> QED
      BY <2>1 DEF StallInv, Explained, StallsAreExplained
  <1> QED
    BY <1>1, StallInvInit, StallInvStep, CpuInvInTrace, PTL DEF TraceSpec

-----------------------------------------------------------------------------
(* The slots of a bundle that issues. *)

\* A bundle that issues without a panic went through all of its slots without.
LEMMA NoSlotPanics ==
    ASSUME CpuInv, Issue, ~panicked'
    PROVE  /\ Bundle \in Seq(Syllable) /\ Len(Bundle) = Len(Slots) /\ Len(Bundle) \in Nat
           /\ DOMAIN Bundle = 1 .. Len(Bundle)
           /\ AfterSlot[0] = [cpu |-> Issuing(cpu), panicked |-> FALSE]
           /\ \A s \in 0 .. Len(Bundle) : AfterSlots(s) /\ ~AfterSlot[s].panicked
           /\ \A s \in 1 .. Len(Bundle) :
                LET before == AfterSlot[s - 1].cpu
                IN  /\ before.halted => AfterSlot[s].cpu = before
                    /\ ~before.halted =>
                         /\ ~FaultsAt(before, Bundle[s])
                         /\ AfterSlot[s].cpu = ExecSyllable(before, Bundle[s])
  <1>1. Bundle \in Seq(Syllable) /\ Len(Bundle) = Len(Slots)
    BY RunningBundle DEF Issue
  <1>2. Len(Bundle) \in Nat /\ DOMAIN Bundle = 1 .. Len(Bundle)
    BY <1>1
  <1>3. \A s \in 0 .. Len(Bundle) : AfterSlots(s)
    BY <1>1, EverySlot DEF CpuInv
  <1>4. /\ AfterSlot[0] = [cpu |-> Issuing(cpu), panicked |-> FALSE]
        /\ \A s \in 1 .. Len(Bundle) :
             AfterSlot[s] =
               LET before == AfterSlot[s - 1]
               IN  IF before.panicked \/ before.cpu.halted THEN before
                   ELSE IF FaultsAt(before.cpu, Bundle[s])
                        THEN [before EXCEPT !.panicked = TRUE]
                   ELSE [before EXCEPT !.cpu = ExecSyllable(@, Bundle[s])]
    BY <1>2, AfterSlotDef
  <1>5. ASSUME NEW s \in 1 .. Len(Bundle), ~AfterSlot[s].panicked
        PROVE  LET before == AfterSlot[s - 1].cpu
               IN  /\ ~AfterSlot[s - 1].panicked
                   /\ before.halted => AfterSlot[s].cpu = before
                   /\ ~before.halted =>
                        /\ ~FaultsAt(before, Bundle[s])
                        /\ AfterSlot[s].cpu = ExecSyllable(before, Bundle[s])
    <2> DEFINE before == AfterSlot[s - 1]
    <2>1. s - 1 \in 0 .. Len(Bundle)
      BY <1>2
    <2>2. before = [cpu |-> before.cpu, panicked |-> before.panicked]
      BY <1>3, <2>1 DEF AfterSlots
    <2>3. AfterSlot[s] = IF before.panicked \/ before.cpu.halted THEN before
                         ELSE IF FaultsAt(before.cpu, Bundle[s])
                              THEN [before EXCEPT !.panicked = TRUE]
                         ELSE [before EXCEPT !.cpu = ExecSyllable(@, Bundle[s])]
      BY <1>4
    <2> HIDE DEF before
    <2>4. /\ ~before.panicked
          /\ before.cpu.halted => AfterSlot[s].cpu = before.cpu
          /\ ~before.cpu.halted =>
               /\ ~FaultsAt(before.cpu, Bundle[s])
               /\ AfterSlot[s].cpu = ExecSyllable(before.cpu, Bundle[s])
      BY <1>5, <2>2, <2>3
    <2> QED
      BY <2>4 DEF before
  <1> DEFINE S == {n \in Nat : n <= Len(Bundle) => ~AfterSlot[Len(Bundle) - n].panicked}
  <1>6. 0 \in S
    BY <1>2 DEF Issue, TracedExec
  <1>7. ASSUME NEW n \in Nat, n \in S PROVE n + 1 \in S
    <2>1. ASSUME n + 1 <= Len(Bundle) PROVE ~AfterSlot[Len(Bundle) - (n + 1)].panicked
      <3> DEFINE s == Len(Bundle) - n
      <3>1. s \in 1 .. Len(Bundle) /\ ~AfterSlot[s].panicked /\ s - 1 = Len(Bundle) - (n + 1)
        BY <1>2, <1>7, <2>1
      <3> HIDE DEF s
      <3> QED
        BY <1>5, <3>1
    <2> QED
      BY <2>1
  <1> HIDE DEF S
  <1>8. Nat \subseteq S
    BY <1>6, <1>7, NatSetInduction
  <1>9. ASSUME NEW s \in 0 .. Len(Bundle) PROVE ~AfterSlot[s].panicked
    <2>1. Len(Bundle) - s \in S /\ Len(Bundle) - s <= Len(Bundle)
          /\ Len(Bundle) - (Len(Bundle) - s) = s
      BY <1>2, <1>8
    <2> QED
      BY <2>1 DEF S
  <1>10. \A s \in 1 .. Len(Bundle) : s \in 0 .. Len(Bundle)
    OBVIOUS
  <1> QED
    BY <1>1, <1>2, <1>3, <1>4, <1>5, <1>9, <1>10

\* A slot in the trace was executed on the CPU that the slots before it left.
LEMMA TracedSlot ==
    ASSUME CpuInv, Issue, ~panicked', NEW s \in Traced
    PROVE  LET before == AfterSlot[s - 1].cpu
           IN  /\ s \in 1 .. Len(Bundle) /\ Bundle[s] \in Syllable
               /\ IsCpu(before) /\ before.cycle = cpu.cycle + 1
               /\ before.halted = FALSE
               /\ Active(before, Bundle[s])
               /\ ~FaultsAt(before, Bundle[s])
               /\ AfterSlot[s].cpu = ExecSyllable(before, Bundle[s])
  <1>1. /\ s \in DOMAIN Bundle /\ ~AfterSlot[s - 1].cpu.halted
        /\ Active(AfterSlot[s - 1].cpu, Bundle[s])
    BY DEF Traced, ActiveIn
  <1>2. s \in 1 .. Len(Bundle) /\ s - 1 \in 0 .. Len(Bundle) /\ Bundle[s] \in Syllable
    BY <1>1, NoSlotPanics
  <1>3. IsCpu(AfterSlot[s - 1].cpu) /\ AfterSlot[s - 1].cpu.cycle = cpu.cycle + 1
    BY <1>2, NoSlotPanics DEF AfterSlots
  <1> QED
    BY <1>1, <1>2, <1>3, NoSlotPanics DEF IsCpu

-----------------------------------------------------------------------------
(* Outcomes and ready cycles. *)

LEMMA WrittenIsWritten ==
    ASSUME NEW s, GprWritten(s) \in GprIndices
    PROVE  GprWritten(s) = GprWriteDst(Bundle[s]) /\ Bundle[s].op \in WritesGpr
  <1>1. NoReg \notin GprIndices
    BY DEF NoReg, GprIndices
  <1> QED
    BY <1>1 DEF GprWritten

\* The ready cycle of a load in an event is its cache outcome's.
LEMMA OutcomeOfLoad ==
    ASSUME CpuInv, Issue, ~panicked',
           NEW s \in DOMAIN MemoryEffects \cap DOMAIN GprWrites
    PROVE  GprWrites[s].ready = cpu'.cycle + OutcomeLatency(MemoryEffects[s].outcome)
  <1> DEFINE before == AfterSlot[s - 1].cpu
             r      == GprWritten(s)
             addr   == EffectiveAddress(before, Bundle[s])
  <1>1. /\ s \in Traced /\ Bundle[s].op \in MemoryOps
        /\ r \in GprIndices \ {0}
        /\ GprWrites[s].ready = AfterSlot[s].cpu.ready[r]
        /\ MemoryEffects[s].outcome = PeekOutcome(before.cache, addr)
    BY DEF MemoryEffects, GprWrites, TracedOutcome
  <1>2. /\ Bundle[s] \in Syllable /\ IsCpu(before) /\ before.cycle = cpu.cycle + 1
        /\ Active(before, Bundle[s])
        /\ AfterSlot[s].cpu = ExecSyllable(before, Bundle[s])
    BY <1>1, TracedSlot
  <1>3. r = GprWriteDst(Bundle[s]) /\ Bundle[s].op \in WritesGpr
    BY <1>1, WrittenIsWritten
  <1>4. Bundle[s].op \in Loads /\ r = Bundle[s].dst
    <2>1. Bundle[s].op \in Loads
      BY <1>1, <1>3, ClassesAreDisjoint DEF WritesGpr, MemoryOps, ControlOps
    <2>2. Bundle[s].op \in GprWriters /\ Bundle[s].op # "Call"
      BY <2>1, ClassesAreDisjoint DEF ControlOps
    <2> QED
      BY <1>3, <2>1, <2>2 DEF GprWriteDst
  <1>5. AfterSlot[s].cpu = ExecLoad(before, Bundle[s])
    BY <1>2, <1>4, ExecSyllableCases
  <1> HIDE DEF before, r
  <1>6. AfterSlot[s].cpu.ready[r] = before.cycle + OutcomeLatency(PeekOutcome(before.cache, addr))
    BY <1>1, <1>2, <1>4, <1>5, ExecLoadFields
  <1>7. cpu'.cycle = cpu.cycle + 1
    BY IssueEffect DEF AfterSlots
  <1> QED
    BY <1>1, <1>2, <1>6, <1>7

\* In the trace of every program the cycle in which a load's result is ready is
\* the one that the cache outcome of the same access stands for.
THEOREM OutcomesExplainReadyCyclesAlways == TraceSpec => []OutcomesExplainReadyCycles
  <1> DEFINE Fits(e) == \A s \in DOMAIN e.memory \cap DOMAIN e.gprs :
                          e.gprs[s].ready = e.cycleAfter + OutcomeLatency(e.memory[s].outcome)
             Inv == IsLog(events) /\ \A i \in 1 .. Len(events) : Fits(events[i])
  <1>1. TraceInit => Inv
    <2> SUFFICES ASSUME TraceInit PROVE Inv
      OBVIOUS
    <2>1. events = <<>> /\ Len(events) = 0
      BY DEF TraceInit
    <2> HIDE DEF Fits
    <2> QED
      BY <2>1 DEF IsLog
  <1>2. CpuInv /\ Inv /\ [TraceNext]_traceVars => Inv'
    <2> SUFFICES ASSUME CpuInv, Inv, [TraceNext]_traceVars PROVE Inv'
      OBVIOUS
    <2>1. ASSUME NEW e, events' = Append(events, e), Fits(e) PROVE Inv'
      <3>1. Grows(e)
        BY <2>1 DEF Grows
      <3> HIDE DEF Fits
      <3>2. /\ Len(events) \in Nat /\ IsLog(events') /\ Len(events') = Len(events) + 1
            /\ events'[Len(events) + 1] = e
            /\ \A i \in 1 .. Len(events) : events'[i] = events[i]
        BY <3>1, LogGrows
      <3>3. ASSUME NEW i \in 1 .. Len(events') PROVE Fits(events'[i])
        <4>1. i = Len(events) + 1 \/ i \in 1 .. Len(events)
          BY <3>2
        <4> QED
          BY <2>1, <3>2, <4>1
      <3> QED
        BY <3>2, <3>3 DEF Fits
    <2>2. CASE TraceIllegal
      <3> DEFINE e == Event("IllegalBundle", ActiveSyllables, {},
                            Nothing, Nothing, Nothing, Nothing)
      <3>1. events' = Append(events, e) /\ DOMAIN e.memory = {}
        BY <2>2 DEF TraceIllegal, Log, Event, Nothing
      <3> HIDE DEF e
      <3> QED
        BY <2>1, <3>1
    <2>3. CASE TraceStall
      <3> DEFINE e == Event("Stall", ActiveSyllables, StallEntries,
                            Nothing, Nothing, Nothing, Nothing)
      <3>1. events' = Append(events, e) /\ DOMAIN e.memory = {}
        BY <2>3 DEF TraceStall, Log, Event, Nothing
      <3> HIDE DEF e
      <3> QED
        BY <2>1, <3>1
    <2>4. CASE TraceIssue /\ ~panicked'
      <3> DEFINE e == Event("Issue", Traced, {}, GprWrites, PredWrites, MemoryEffects, ControlFlow)
      <3>1. /\ events' = Append(events, e) /\ Issue
            /\ e.memory = MemoryEffects /\ e.gprs = GprWrites /\ e.cycleAfter = cpu'.cycle
        BY <2>4 DEF TraceIssue, Log, Event
      <3>2. \A s \in DOMAIN MemoryEffects \cap DOMAIN GprWrites :
              GprWrites[s].ready = cpu'.cycle + OutcomeLatency(MemoryEffects[s].outcome)
        BY <2>4, <3>1, OutcomeOfLoad
      <3> HIDE DEF e
      <3>3. Fits(e)
        BY <3>1, <3>2
      <3> HIDE DEF Fits, Inv
      <3> QED
        BY <2>1, <3>1, <3>3
    <2>5. CASE UNCHANGED events
      BY <2>5 DEF IsLog
    <2>6. CASE TraceIssue /\ panicked'
      BY <2>5, <2>6 DEF TraceIssue
    <2> QED
      BY <2>2, <2>3, <2>4, <2>5, <2>6 DEF TraceNext, traceVars
  <1>3. Inv => OutcomesExplainReadyCycles
    <2> SUFFICES ASSUME Inv PROVE OutcomesExplainReadyCycles
      OBVIOUS
    <2>1. DOMAIN events = 1 .. Len(events)
      BY DEF IsLog
    <2> QED
      BY <2>1 DEF OutcomesExplainReadyCycles
  <1> HIDE DEF Inv
  <1> QED
    BY <1>1, <1>2, <1>3, CpuInvInTrace, PTL DEF TraceSpec

-----------------------------------------------------------------------------
(* A replay, slot by slot and event by event. *)

\* The recursive definition of ReplaySlots has a solution.
LEMMA ReplaySlotsDef ==
    ASSUME NEW e, NEW c
    PROVE  /\ ReplaySlots(e, c)[0] = c
           /\ \A s \in 1 .. Len(Slots) :
                ReplaySlots(e, c)[s] = ReplaySlot(e, ReplaySlots(e, c)[s - 1], s)
  <1> DEFINE Then(before, s) == ReplaySlot(e, before, s)
             Solves(f, n) == f = [s \in 0 .. n |-> IF s = 0 THEN c ELSE Then(f[s - 1], s)]
             S == {n \in Nat : \E f : Solves(f, n)}
  <1>0. Len(Slots) \in Nat
    BY LayoutAssumption
  <1>1. 0 \in S
    <2> DEFINE f == [s \in 0 .. 0 |-> c]
    <2>1. Solves(f, 0)
      OBVIOUS
    <2> QED
      BY <2>1
  <1>2. ASSUME NEW n \in Nat, n \in S PROVE n + 1 \in S
    <2> HIDE DEF Then
    <2>1. PICK f : Solves(f, n)
      BY <1>2
    <2> DEFINE g == [s \in 0 .. n + 1 |-> IF s = n + 1 THEN Then(f[n], n + 1) ELSE f[s]]
    <2>2. g = [s \in 0 .. n + 1 |-> IF s = 0 THEN c ELSE Then(g[s - 1], s)]
      <3>1. ASSUME NEW s \in 0 .. n + 1
            PROVE  g[s] = IF s = 0 THEN c ELSE Then(g[s - 1], s)
        <4>1. CASE s = n + 1
          <5>1. g[s] = Then(f[n], n + 1) /\ s - 1 = n /\ g[n] = f[n]
            BY <4>1
          <5> HIDE DEF g
          <5> QED
            BY <4>1, <5>1
        <4>2. CASE s # n + 1
          <5>1. s \in 0 .. n /\ (s # 0 => s - 1 \in 0 .. n)
            BY <4>2
          <5>2. f[s] = IF s = 0 THEN c ELSE Then(f[s - 1], s)
            BY <2>1, <5>1
          <5>3. g[s] = f[s] /\ (s # 0 => g[s - 1] = f[s - 1])
            BY <4>2, <5>1
          <5> HIDE DEF g
          <5> QED
            BY <5>2, <5>3
        <4> QED
          BY <4>1, <4>2
      <3> QED
        BY <3>1
    <2> HIDE DEF g
    <2>3. \E h : Solves(h, n + 1)
      BY <2>2
    <2> QED
      BY <2>3
  <1> HIDE DEF S
  <1>3. Len(Slots) \in S
    BY <1>0, <1>1, <1>2, NatSetInduction
  <1>4. PICK f : Solves(f, Len(Slots))
    BY <1>3 DEF S
  <1> HIDE DEF Then
  <1>5. Solves(ReplaySlots(e, c), Len(Slots))
    BY <1>4 DEF ReplaySlots, Then
  <1>6. ReplaySlots(e, c)[0] = c
    BY <1>0, <1>5
  <1>7. ASSUME NEW s \in 1 .. Len(Slots)
        PROVE  ReplaySlots(e, c)[s] = Then(ReplaySlots(e, c)[s - 1], s)
    <2>1. s \in 0 .. Len(Slots) /\ s # 0
      BY <1>0
    <2> QED
      BY <1>5, <2>1
  <1> QED
    BY <1>6, <1>7 DEF Then

\* The recursive definition of Replay has a solution.
LEMMA ReplayDef ==
    ASSUME NEW log, Len(log) \in Nat
    PROVE  /\ Replay(log)[0] = NewCpu
           /\ \A n \in 1 .. Len(log) :
                Replay(log)[n] = ReplayEvent(log[n], Replay(log)[n - 1])
  <1> DEFINE Then(before, s) == ReplayEvent(log[s], before)
             Solves(f, n) == f = [s \in 0 .. n |-> IF s = 0 THEN NewCpu ELSE Then(f[s - 1], s)]
             S == {n \in Nat : \E f : Solves(f, n)}
  <1>1. 0 \in S
    <2> DEFINE f == [s \in 0 .. 0 |-> NewCpu]
    <2>1. Solves(f, 0)
      OBVIOUS
    <2> QED
      BY <2>1
  <1>2. ASSUME NEW n \in Nat, n \in S PROVE n + 1 \in S
    <2> HIDE DEF Then
    <2>1. PICK f : Solves(f, n)
      BY <1>2
    <2> DEFINE g == [s \in 0 .. n + 1 |-> IF s = n + 1 THEN Then(f[n], n + 1) ELSE f[s]]
    <2>2. g = [s \in 0 .. n + 1 |-> IF s = 0 THEN NewCpu ELSE Then(g[s - 1], s)]
      <3>1. ASSUME NEW s \in 0 .. n + 1
            PROVE  g[s] = IF s = 0 THEN NewCpu ELSE Then(g[s - 1], s)
        <4>1. CASE s = n + 1
          <5>1. g[s] = Then(f[n], n + 1) /\ s - 1 = n /\ g[n] = f[n]
            BY <4>1
          <5> HIDE DEF g
          <5> QED
            BY <4>1, <5>1
        <4>2. CASE s # n + 1
          <5>1. s \in 0 .. n /\ (s # 0 => s - 1 \in 0 .. n)
            BY <4>2
          <5>2. f[s] = IF s = 0 THEN NewCpu ELSE Then(f[s - 1], s)
            BY <2>1, <5>1
          <5>3. g[s] = f[s] /\ (s # 0 => g[s - 1] = f[s - 1])
            BY <4>2, <5>1
          <5> HIDE DEF g
          <5> QED
            BY <5>2, <5>3
        <4> QED
          BY <4>1, <4>2
      <3> QED
        BY <3>1
    <2> HIDE DEF g
    <2>3. \E h : Solves(h, n + 1)
      BY <2>2
    <2> QED
      BY <2>3
  <1> HIDE DEF S
  <1>3. Len(log) \in S
    BY <1>1, <1>2, NatSetInduction
  <1>4. PICK f : Solves(f, Len(log))
    BY <1>3 DEF S
  <1> HIDE DEF Then
  <1>5. Solves(Replay(log), Len(log))
    BY <1>4 DEF Replay, Then
  <1>6. Replay(log)[0] = NewCpu
    BY <1>5
  <1>7. ASSUME NEW n \in 1 .. Len(log)
        PROVE  Replay(log)[n] = Then(Replay(log)[n - 1], n)
    <2>1. n \in 0 .. Len(log) /\ n # 0
      OBVIOUS
    <2> QED
      BY <1>5, <2>1
  <1> QED
    BY <1>6, <1>7 DEF Then

\* A longer log replays like the shorter one and then its last event.
LEMMA ReplayGrows ==
    ASSUME NEW log, IsLog(log), NEW e
    PROVE  LET longer == Append(log, e)
           IN  Replay(longer)[Len(longer)] = ReplayEvent(e, Replay(log)[Len(log)])
  <1> DEFINE n == Len(log)
             longer == Append(log, e)
             S == {k \in Nat : k <= n => Replay(longer)[k] = Replay(log)[k]}
  <1>1. /\ n \in Nat /\ Len(longer) = n + 1 /\ longer[n + 1] = e
        /\ \A i \in 1 .. n : longer[i] = log[i]
    BY AppendToLog DEF IsLog
  <1> HIDE DEF n, longer
  <1>2. /\ Replay(log)[0] = NewCpu
        /\ \A k \in 1 .. n : Replay(log)[k] = ReplayEvent(log[k], Replay(log)[k - 1])
    BY <1>1, ReplayDef DEF n
  <1>3. /\ Replay(longer)[0] = NewCpu
        /\ \A k \in 1 .. n + 1 :
             Replay(longer)[k] = ReplayEvent(longer[k], Replay(longer)[k - 1])
    <2>1. Len(longer) \in Nat
      BY <1>1
    <2> QED
      BY <1>1, <2>1, ReplayDef
  <1>4. 0 \in S
    BY <1>2, <1>3
  <1>5. ASSUME NEW k \in Nat, k \in S PROVE k + 1 \in S
    <2>1. ASSUME k + 1 <= n PROVE Replay(longer)[k + 1] = Replay(log)[k + 1]
      <3>1. /\ k + 1 \in 1 .. n /\ k + 1 \in 1 .. n + 1 /\ (k + 1) - 1 = k /\ k <= n
        BY <1>1, <2>1
      <3>2. Replay(longer)[k] = Replay(log)[k]
        BY <1>5, <3>1
      <3> QED
        BY <1>1, <1>2, <1>3, <3>1, <3>2
    <2> QED
      BY <2>1
  <1> HIDE DEF S
  <1>6. n \in S
    BY <1>1, <1>4, <1>5, NatSetInduction
  <1>7. Replay(longer)[n] = Replay(log)[n]
    BY <1>1, <1>6 DEF S
  <1>8. n + 1 \in 1 .. n + 1 /\ (n + 1) - 1 = n
    BY <1>1
  <1>9. Replay(longer)[n + 1] = ReplayEvent(e, Replay(log)[n])
    BY <1>1, <1>3, <1>7, <1>8
  <1> QED
    BY <1>1, <1>9 DEF n, longer

\* A slot that is not in the trace changed nothing.
LEMMA UntracedSlot ==
    ASSUME CpuInv, Issue, ~panicked', NEW s \in 1 .. Len(Bundle), s \notin Traced
    PROVE  AfterSlot[s].cpu = AfterSlot[s - 1].cpu
  <1> DEFINE b == AfterSlot[s - 1].cpu
             syl == Bundle[s]
  <1>1. /\ s \in DOMAIN Bundle
        /\ b.halted => AfterSlot[s].cpu = b
        /\ ~b.halted => AfterSlot[s].cpu = ExecSyllable(b, syl)
    BY NoSlotPanics
  <1>2. b.halted \/ syl.op = "Nop" \/ ~Active(b, syl)
    BY <1>1 DEF Traced, ActiveIn
  <1> HIDE DEF b, syl
  <1>3. CASE b.halted
    BY <1>1, <1>3 DEF b
  <1>4. CASE ~b.halted /\ ~Active(b, syl)
    BY <1>1, <1>4 DEF b, ExecSyllable
  <1>5. CASE ~b.halted /\ Active(b, syl) /\ syl.op = "Nop"
    <2>1. syl.op \notin MemoryOps \cup GprWriters \cup WritesPred \cup ControlOps
      BY <1>5 DEF MemoryOps, Loads, Stores, GprWriters, WritesPred, ControlOps, Compares,
                  PredicateOps, IntegerOps, MultiplyOps, Fp32Ops, Fp64Ops, AesOps,
                  IntegerCompares, FpCompares
    <2>2. ExecSyllable(b, syl) = b
      BY <1>5, <2>1, ExecSyllableCases
    <2> QED
      BY <1>1, <1>5, <2>2 DEF b
  <1> QED
    BY <1>2, <1>3, <1>4, <1>5

LEMMA WrittenIsTheDestination ==
    ASSUME NEW s
    PROVE  GprWritten(s) = GprWriteDst(Bundle[s])
  BY DEF GprWritten, GprWriteDst, WritesGpr

\* The memory effect of an event against the cache and the memory.
LEMMA MemoryReplays ==
    ASSUME CpuInv, Issue, ~panicked', NEW s \in 1 .. Len(Bundle)
    PROVE  LET b == AfterSlot[s - 1].cpu
               a == AfterSlot[s].cpu
               m == MemoryEffects[s]
           IN  /\ s \notin DOMAIN MemoryEffects => a.cache = b.cache /\ a.memory = b.memory
               /\ s \in DOMAIN MemoryEffects =>
                    IF m.load
                    THEN /\ a.cache = AccessLoad(b.cache, m.address)
                         /\ a.memory = b.memory
                    ELSE /\ a.cache = AccessStore(b.cache, m.address)
                         /\ a.memory = StoreBytes(b.memory, m.address, m.data)
  <1> DEFINE b == AfterSlot[s - 1].cpu
             a == AfterSlot[s].cpu
             m == MemoryEffects[s]
             syl == Bundle[s]
             addr == EffectiveAddress(b, syl)
             width == AccessWidth(syl.op)
  <1>1. DOMAIN MemoryEffects = {t \in Traced : Bundle[t].op \in MemoryOps}
    BY DEF MemoryEffects
  <1>2. CASE s \notin Traced
    BY <1>1, <1>2, UntracedSlot
  <1>3. CASE s \in Traced
    <2>1. /\ syl \in Syllable /\ IsCpu(b) /\ Active(b, syl) /\ ~FaultsAt(b, syl)
          /\ a = ExecSyllable(b, syl)
      BY <1>3, TracedSlot
    <2>2. s \in DOMAIN MemoryEffects <=> syl.op \in MemoryOps
      BY <1>1, <1>3
    <2>3. s \in DOMAIN MemoryEffects =>
            /\ m.load <=> syl.op \in Loads
            /\ m.address = addr
            /\ syl.op \notin Loads => m.data = ToBytes(ReadGpr(b, syl.src[2]), width)
      BY DEF MemoryEffects
    <2> HIDE DEF b, a, m, syl
    <2>4. CASE syl.op \notin MemoryOps
      <3>1. Frame(b, syl, a)
        BY <2>1, SyllableFrame
      <3> QED
        BY <2>2, <2>4, <3>1 DEF Frame, a, b
    <2>5. CASE syl.op \in Loads
      <3> DEFINE value == IF InBounds(addr, width) THEN LoadBytes(b.memory, addr, width) ELSE 0
                 late == OutcomeLatency(PeekOutcome(b.cache, addr))
                 filled == [b EXCEPT !.cache = AccessLoad(@, addr)]
      <3>1. a = Writeback(filled, syl, value, late)
        BY <2>1, <2>5, ExecSyllableCases DEF ExecLoad
      <3>2. late \in Nat
        BY LoadLatencyIsANumber
      <3>3. /\ IsCpu(filled)
            /\ filled.cache = AccessLoad(b.cache, addr) /\ filled.memory = b.memory
        <4>1. AccessLoad(b.cache, addr) = [k \in LineIndices |-> AccessLoad(b.cache, addr)[k]]
          BY <2>1, AccessKeepsTheLines DEF IsCpu
        <4> HIDE DEF addr
        <4> QED
          BY <2>1, <4>1 DEF IsCpu, NewCpu
      <3> HIDE DEF filled, value, late
      <3>4. a.cache = filled.cache /\ a.memory = filled.memory
        BY <2>1, <3>1, <3>2, <3>3, WritebackFields DEF NewCpu
      <3>5. syl.op \in MemoryOps
        BY <2>5 DEF MemoryOps
      <3> QED
        BY <2>2, <2>3, <2>5, <3>3, <3>4, <3>5 DEF a, b, m
    <2>6. CASE syl.op \in Stores
      <3> DEFINE data == ToBytes(ReadGpr(b, syl.src[2]), width)
      <3>1. syl.op \in MemoryOps /\ syl.op \notin Loads
        BY <2>6, ClassesAreDisjoint DEF MemoryOps
      <3>2. InBounds(addr, width)
        BY <2>1, <3>1 DEF FaultsAt
      <3>3. a = [b EXCEPT !.cache = AccessStore(b.cache, addr),
                          !.memory = StoreBytes(b.memory, addr, data)]
        BY <2>1, <2>6, <3>2, ExecSyllableCases DEF ExecStore
      <3> HIDE DEF addr, data
      <3>4. /\ a.cache = AccessStore(b.cache, addr)
            /\ a.memory = StoreBytes(b.memory, addr, data)
        BY <2>1, <3>3 DEF IsCpu, NewCpu
      <3> QED
        BY <2>2, <2>3, <3>1, <3>4 DEF a, b, m, data
    <2> QED
      BY <2>4, <2>5, <2>6 DEF MemoryOps
  <1> QED
    BY <1>2, <1>3

\* A scoreboard but for r0, which no check looks at.
ButForR0(ready) == [ready EXCEPT ![0] = 0]

\* The register written in an event against the registers and the scoreboard.
LEMMA GprReplays ==
    ASSUME CpuInv, Issue, ~panicked', NEW s \in 1 .. Len(Bundle)
    PROVE  LET b == AfterSlot[s - 1].cpu
               a == AfterSlot[s].cpu
               w == GprWrites[s]
           IN  /\ s \notin DOMAIN GprWrites =>
                    a.gprs = b.gprs /\ ButForR0(a.ready) = ButForR0(b.ready)
               /\ s \in DOMAIN GprWrites =>
                    /\ a.gprs = [b.gprs EXCEPT ![w.register] = w.value]
                    /\ ButForR0(a.ready) = [ButForR0(b.ready) EXCEPT ![w.register] = w.ready]
  <1> DEFINE b == AfterSlot[s - 1].cpu
             a == AfterSlot[s].cpu
             w == GprWrites[s]
             syl == Bundle[s]
             r == GprWriteDst(syl)
  <1>1. DOMAIN GprWrites = {t \in Traced : GprWritten(t) \in GprIndices \ {0}}
    BY DEF GprWrites
  <1>2. CASE s \notin Traced
    BY <1>1, <1>2, UntracedSlot
  <1>3. CASE s \in Traced
    <2>1. /\ syl \in Syllable /\ IsCpu(b) /\ Active(b, syl) /\ a = ExecSyllable(b, syl)
      BY <1>3, TracedSlot
    <2>2. s \in DOMAIN GprWrites <=> r \in GprIndices \ {0}
      BY <1>1, <1>3, WrittenIsTheDestination
    <2>3. s \in DOMAIN GprWrites =>
            w.register = r /\ w.value = a.gprs[r] /\ w.ready = a.ready[r]
      BY WrittenIsTheDestination DEF GprWrites
    <2> HIDE DEF b, a, w, syl
    <2>4. Frame(b, syl, a)
      BY <2>1, SyllableFrame
    <2> HIDE DEF r
    <2>5. /\ a.gprs = [q \in GprIndices |-> a.gprs[q]]
          /\ b.gprs = [q \in GprIndices |-> b.gprs[q]]
          /\ a.ready = [q \in GprIndices |-> a.ready[q]]
          /\ b.ready = [q \in GprIndices |-> b.ready[q]]
          /\ a.gprs[0] = b.gprs[0]
          /\ \A q \in GprIndices : r # q => a.gprs[q] = b.gprs[q] /\ a.ready[q] = b.ready[q]
      BY <2>1, <2>4 DEF Frame, IsCpu, r
    <2>6. CASE r \in GprIndices \ {0}
      <3>1. a.gprs = [b.gprs EXCEPT ![r] = a.gprs[r]]
        BY <2>5, <2>6
      <3>2. ButForR0(a.ready) = [ButForR0(b.ready) EXCEPT ![r] = a.ready[r]]
        BY <2>5, <2>6 DEF ButForR0
      <3> QED
        BY <2>2, <2>3, <2>6, <3>1, <3>2 DEF a, b, w
    <2>7. CASE r \notin GprIndices \ {0}
      <3>1. a.gprs = b.gprs
        BY <2>5, <2>7
      <3>2. ButForR0(a.ready) = ButForR0(b.ready)
        BY <2>5, <2>7 DEF ButForR0
      <3> QED
        BY <2>2, <2>7, <3>1, <3>2 DEF a, b
    <2> QED
      BY <2>6, <2>7
  <1> QED
    BY <1>2, <1>3

\* The predicate written in an event against the predicates.
LEMMA PredReplays ==
    ASSUME CpuInv, Issue, ~panicked', NEW s \in 1 .. Len(Bundle)
    PROVE  LET b == AfterSlot[s - 1].cpu
               a == AfterSlot[s].cpu
               w == PredWrites[s]
           IN  /\ s \notin DOMAIN PredWrites => a.preds = b.preds
               /\ s \in DOMAIN PredWrites =>
                    a.preds = [b.preds EXCEPT ![w.predicate] = w.value]
  <1> DEFINE b == AfterSlot[s - 1].cpu
             a == AfterSlot[s].cpu
             w == PredWrites[s]
             syl == Bundle[s]
             Writes == syl.op \in WritesPred /\ syl.dst \in PredIndices \ {0}
  <1>1. DOMAIN PredWrites =
          {t \in Traced : Bundle[t].op \in WritesPred /\ Bundle[t].dst \in PredIndices \ {0}}
    BY DEF PredWrites
  <1>2. CASE s \notin Traced
    BY <1>1, <1>2, UntracedSlot
  <1>3. CASE s \in Traced
    <2>1. /\ syl \in Syllable /\ IsCpu(b) /\ Active(b, syl) /\ a = ExecSyllable(b, syl)
      BY <1>3, TracedSlot
    <2>2. s \in DOMAIN PredWrites <=> Writes
      BY <1>1, <1>3
    <2>3. s \in DOMAIN PredWrites => w.predicate = syl.dst /\ w.value = a.preds[syl.dst]
      BY DEF PredWrites
    <2> HIDE DEF b, a, w, syl
    <2>4. Frame(b, syl, a)
      BY <2>1, SyllableFrame
    <2>5. /\ a.preds = [p \in PredIndices |-> a.preds[p]]
          /\ b.preds = [p \in PredIndices |-> b.preds[p]]
      BY <2>1, <2>4 DEF Frame, IsCpu
    <2>6. \A p \in PredIndices : p = 0 \/ ~ (syl.op \in WritesPred /\ syl.dst = p) =>
            a.preds[p] = b.preds[p]
      BY <2>4 DEF Frame
    <2>7. CASE Writes
      <3>1. a.preds = [b.preds EXCEPT ![syl.dst] = a.preds[syl.dst]]
        BY <2>5, <2>6, <2>7
      <3> QED
        BY <2>2, <2>3, <2>7, <3>1 DEF a, b, w
    <2>8. CASE ~Writes
      <3>1. \A p \in PredIndices : a.preds[p] = b.preds[p]
        BY <2>6, <2>8
      <3>2. a.preds = b.preds
        BY <2>5, <3>1
      <3> QED
        BY <2>2, <2>8, <3>2 DEF a, b
    <2> QED
      BY <2>7, <2>8
  <1> QED
    BY <1>2, <1>3

\* The CPU as a replay knows it while a bundle issues, when slot by slot it has
\* become a: the program counter and the clock move behind the last slot.
Known(a) ==
    [gprs |-> a.gprs, preds |-> a.preds, pc |-> cpu.pc, cycle |-> cpu.cycle,
     ready |-> ButForR0(a.ready), memory |-> a.memory, cache |-> a.cache,
     halted |-> cpu.halted]

IssueEvent == Event("Issue", Traced, {}, GprWrites, PredWrites, MemoryEffects, ControlFlow)

LEMMA SlotReplays ==
    ASSUME CpuInv, Issue, ~panicked', NEW s \in 1 .. Len(Bundle)
    PROVE  ReplaySlot(IssueEvent, Known(AfterSlot[s - 1].cpu), s) = Known(AfterSlot[s].cpu)
  <1> DEFINE e == IssueEvent
             b == AfterSlot[s - 1].cpu
             a == AfterSlot[s].cpu
             K(g, p, r, m, k) ==
                [gprs |-> g, preds |-> p, pc |-> cpu.pc, cycle |-> cpu.cycle,
                 ready |-> r, memory |-> m, cache |-> k, halted |-> cpu.halted]
             c0 == K(b.gprs, b.preds, ButForR0(b.ready), b.memory, b.cache)
             c1 == K(b.gprs, b.preds, ButForR0(b.ready), a.memory, a.cache)
             c2 == K(a.gprs, b.preds, ButForR0(a.ready), a.memory, a.cache)
             c3 == K(a.gprs, a.preds, ButForR0(a.ready), a.memory, a.cache)
             m == MemoryEffects[s]
             w == GprWrites[s]
             v == PredWrites[s]
             mem == IF s \notin DOMAIN MemoryEffects THEN c0
                    ELSE IF m.load THEN [c0 EXCEPT !.cache = AccessLoad(@, m.address)]
                    ELSE [c0 EXCEPT !.cache  = AccessStore(@, m.address),
                                    !.memory = StoreBytes(@, m.address, m.data)]
             gpr(c) == IF s \notin DOMAIN GprWrites THEN c
                       ELSE [c EXCEPT !.gprs[w.register]  = w.value,
                                      !.ready[w.register] = w.ready]
             pred(c) == IF s \notin DOMAIN PredWrites THEN c
                        ELSE [c EXCEPT !.preds[v.predicate] = v.value]
  <1>1. e.memory = MemoryEffects /\ e.gprs = GprWrites /\ e.preds = PredWrites
    BY DEF IssueEvent, Event
  <1>2. ReplaySlot(e, c0, s) = pred(gpr(mem))
    <2> HIDE DEF e, c0
    <2> QED
      BY <1>1 DEF ReplaySlot
  <1>3. mem = c1
    <2>1. /\ s \notin DOMAIN MemoryEffects => a.cache = b.cache /\ a.memory = b.memory
          /\ s \in DOMAIN MemoryEffects =>
               IF m.load
               THEN a.cache = AccessLoad(b.cache, m.address) /\ a.memory = b.memory
               ELSE /\ a.cache = AccessStore(b.cache, m.address)
                    /\ a.memory = StoreBytes(b.memory, m.address, m.data)
      BY MemoryReplays
    <2> HIDE DEF a, b, m
    <2> QED
      BY <2>1
  <1>4. gpr(c1) = c2
    <2>1. /\ s \notin DOMAIN GprWrites =>
               a.gprs = b.gprs /\ ButForR0(a.ready) = ButForR0(b.ready)
          /\ s \in DOMAIN GprWrites =>
               /\ a.gprs = [b.gprs EXCEPT ![w.register] = w.value]
               /\ ButForR0(a.ready) = [ButForR0(b.ready) EXCEPT ![w.register] = w.ready]
      BY GprReplays
    <2> HIDE DEF a, b, w
    <2> QED
      BY <2>1
  <1>5. pred(c2) = c3
    <2>1. /\ s \notin DOMAIN PredWrites => a.preds = b.preds
          /\ s \in DOMAIN PredWrites => a.preds = [b.preds EXCEPT ![v.predicate] = v.value]
      BY PredReplays
    <2> HIDE DEF a, b, v
    <2> QED
      BY <2>1
  <1>6. c0 = Known(b) /\ c3 = Known(a)
    BY DEF Known
  <1> HIDE DEF c0, c1, c2, c3, mem, gpr, pred
  <1>7. ReplaySlot(e, c0, s) = c3
    BY <1>2, <1>3, <1>4, <1>5
  <1> HIDE DEF a, b, e
  <1> QED
    BY <1>6, <1>7 DEF a, b, e

\* Where the transfers of control of the first n slots have led.
ControlReached(n) ==
    LET a == AfterSlot[n].cpu
        K == {t \in DOMAIN ControlFlow : t <= n}
    IN  \/ K = {} /\ a.pc = cpu.pc + 1 /\ a.halted = FALSE
        \/ \E m \in K : /\ \A t \in K : t <= m
                        /\ IF ControlFlow[m] = NoReg THEN a.halted = TRUE
                           ELSE a.halted = FALSE /\ a.pc = ControlFlow[m]

\* What one traced transfer of control does.
LEMMA TransferReplays ==
    ASSUME CpuInv, cpu \in CpuStates, Issue, ~panicked', NEW s \in DOMAIN ControlFlow
    PROVE  LET a == AfterSlot[s].cpu
           IN  IF ControlFlow[s] = NoReg THEN a.halted = TRUE
               ELSE a.halted = FALSE /\ a.pc = ControlFlow[s]
  <1> DEFINE b == AfterSlot[s - 1].cpu
             a == AfterSlot[s].cpu
             syl == Bundle[s]
             target == AsWord(syl.imm)
  <1>1. /\ s \in Traced /\ syl.op \in ControlOps
        /\ ControlFlow[s] = IF syl.op = "Ret"
                            THEN IF ReadGpr(b, LinkReg) = 0 THEN NoReg ELSE ReadGpr(b, LinkReg)
                            ELSE target
    BY DEF ControlFlow
  <1>2. /\ s \in 1 .. Len(Bundle) /\ syl \in Syllable /\ IsCpu(b) /\ b.halted = FALSE
        /\ Active(b, syl) /\ a = ExecSyllable(b, syl)
    BY <1>1, TracedSlot
  <1>3. b \in CpuStates
    <2>1. s - 1 \in 0 .. Len(Bundle) /\ Bundle \in Seq(Syllable)
      BY <1>2, NoSlotPanics
    <2> QED
      BY <2>1, SlotTypes
  <1>4. target \in Words
    <2>1. syl.imm \in Int
      BY <1>2 DEF Syllable
    <2> QED
      BY <2>1, AsWordType
  <1>5. ReadGpr(b, LinkReg) \in Words
    <2>1. b.gprs[LinkReg] \in Words
      BY <1>3, LinkIsAGpr DEF CpuStates
    <2> QED
      BY <2>1, ReadGprOfLink
  <1>6. NoReg \notin Words
    BY DEF NoReg, Words
  <1>7. a = ExecControl(b, syl)
    BY <1>1, <1>2, ExecSyllableCases
  <1>8. Frame(b, syl, a)
    BY <1>2, SyllableFrame
  <1> HIDE DEF b, a, syl, target
  <1>9. CASE syl.op \in {"Branch", "Jump"}
    <2>1. a = [b EXCEPT !.pc = target]
      BY <1>7, <1>9 DEF ExecControl, target
    <2>2. a.pc = target /\ a.halted = FALSE
      BY <1>2, <2>1 DEF IsCpu, NewCpu
    <2> QED
      BY <1>1, <1>4, <1>6, <1>9, <2>2 DEF a
  <1>10. CASE syl.op = "Call"
    <2> DEFINE d == SetReady(WriteGpr(b, LinkReg, AsWord(b.pc)), LinkReg, b.cycle + Latency["Call"])
    <2>1. a = [d EXCEPT !.pc = target]
      BY <1>7, <1>10 DEF ExecControl, ExecCall, target
    <2>2. IsCpu(d)
      <3>1. b.cycle + Latency["Call"] \in Nat
        BY <1>2, CpuAssumption DEF IsCpu, Opcodes, ControlOps
      <3>2. IsCpu(WriteGpr(b, LinkReg, AsWord(b.pc)))
        BY <1>2, WriteGprEffect
      <3> QED
        BY <3>1, <3>2, SetReadyEffect
    <2> HIDE DEF d
    <2>3. a.pc = target
      BY <2>1, <2>2 DEF IsCpu, NewCpu
    <2>4. a.halted = FALSE
      BY <1>2, <1>8, <1>10 DEF Frame
    <2> QED
      BY <1>1, <1>4, <1>6, <1>10, <2>3, <2>4 DEF a
  <1>11. CASE syl.op = "Ret" /\ ReadGpr(b, LinkReg) = 0
    <2>1. a.halted = TRUE
      BY <1>8, <1>11, ReadGprOfLink DEF Frame
    <2> QED
      BY <1>1, <1>11, <2>1 DEF a
  <1>12. CASE syl.op = "Ret" /\ ReadGpr(b, LinkReg) # 0
    <2>1. a = [b EXCEPT !.pc = ReadGpr(b, LinkReg)]
      BY <1>7, <1>12 DEF ExecControl
    <2>2. a.pc = ReadGpr(b, LinkReg) /\ a.halted = FALSE
      BY <1>2, <2>1 DEF IsCpu, NewCpu
    <2> QED
      BY <1>1, <1>5, <1>6, <1>12, <2>2 DEF a
  <1> QED
    BY <1>1, <1>9, <1>10, <1>11, <1>12 DEF ControlOps

LEMMA ControlReplays ==
    ASSUME CpuInv, cpu \in CpuStates, Issue, ~panicked'
    PROVE  ControlReached(Len(Bundle))
  <1> DEFINE S == {n \in Nat : n <= Len(Bundle) => ControlReached(n)}
             K(n) == {t \in DOMAIN ControlFlow : t <= n}
  <1>0. /\ Len(Bundle) \in Nat
        /\ \A t \in DOMAIN ControlFlow :
             t \in Traced /\ Bundle[t].op \in ControlOps /\ t \in 1 .. Len(Bundle)
    BY NoSlotPanics, TracedSlot DEF ControlFlow
  <1>1. 0 \in S
    <2>1. K(0) = {}
      BY <1>0
    <2>2. AfterSlot[0].cpu = Issuing(cpu) /\ cpu.halted = FALSE
      BY NoSlotPanics DEF Issue, Running, Finished, CpuInv, IsCpu
    <2>3. Issuing(cpu).pc = cpu.pc + 1 /\ Issuing(cpu).halted = FALSE
      BY <2>2 DEF Issuing, CpuInv, IsCpu, NewCpu
    <2>4. ControlReached(0)
      BY <2>1, <2>2, <2>3 DEF ControlReached
    <2> QED
      BY <2>4
  <1>2. ASSUME NEW n \in Nat, n \in S PROVE n + 1 \in S
    <2> SUFFICES ASSUME n + 1 <= Len(Bundle) PROVE ControlReached(n + 1)
      OBVIOUS
    <2> DEFINE s == n + 1
               b == AfterSlot[n].cpu
               a == AfterSlot[s].cpu
    <2>1. s \in 1 .. Len(Bundle) /\ s - 1 = n /\ n <= Len(Bundle) /\ ControlReached(n)
      BY <1>0, <1>2
    <2>2. CASE s \notin DOMAIN ControlFlow
      <3>1. K(s) = K(n)
        BY <1>0, <2>1, <2>2
      <3>2. a.pc = b.pc /\ a.halted = b.halted
        <4>1. CASE s \notin Traced
          BY <2>1, <4>1, UntracedSlot
        <4>2. CASE s \in Traced
          <5> DEFINE syl == Bundle[s]
          <5>1. /\ syl \in Syllable /\ IsCpu(b) /\ Active(b, syl)
                /\ a = ExecSyllable(b, syl)
            BY <2>1, <4>2, TracedSlot
          <5>2. syl.op \notin ControlOps
            BY <2>2, <4>2 DEF ControlFlow
          <5> HIDE DEF a, b, syl, s
          <5>3. Frame(b, syl, a)
            BY <5>1, SyllableFrame
          <5> QED
            BY <5>2, <5>3 DEF Frame, ControlOps
        <4> QED
          BY <4>1, <4>2
      <3> HIDE DEF s, a, b
      <3>3. ControlReached(s)
        BY <2>1, <3>1, <3>2 DEF ControlReached, a, b
      <3> QED
        BY <3>3 DEF s
    <2>3. CASE s \in DOMAIN ControlFlow
      <3>1. IF ControlFlow[s] = NoReg THEN a.halted = TRUE
            ELSE a.halted = FALSE /\ a.pc = ControlFlow[s]
        BY <2>3, TransferReplays
      <3>2. s \in K(s) /\ \A t \in K(s) : t <= s
        BY <1>0, <2>3
      <3> HIDE DEF s, a
      <3>3. ControlReached(s)
        BY <3>1, <3>2 DEF ControlReached, a
      <3> QED
        BY <3>3 DEF s
    <2> QED
      BY <2>2, <2>3
  <1> HIDE DEF S
  <1>3. Len(Bundle) \in S
    BY <1>0, <1>1, <1>2, NatSetInduction
  <1> QED
    BY <1>0, <1>3 DEF S

\* What TraceIsComplete compares a replay with.
Comparable(c) == [c EXCEPT !.ready[0] = 0]

LEMMA KnownIsComparable ==
    ASSUME NEW d \in CpuStates
    PROVE  [Known(d) EXCEPT !.cycle = d.cycle, !.pc = d.pc, !.halted = d.halted] = Comparable(d)
  <1> DEFINE r == [d.ready EXCEPT ![0] = 0]
             a == Known(d)
             g == d.gprs
             p == d.preds
             m == d.memory
             k == d.cache
             q == cpu.pc
             n == cpu.cycle
             h == cpu.halted
             q2 == d.pc
             n2 == d.cycle
             h2 == d.halted
             full == [gprs |-> g, preds |-> p, pc |-> q2, cycle |-> n2, ready |-> r, memory |-> m,
                      cache |-> k, halted |-> h2]
  <1>1. d = [gprs |-> g, preds |-> p, pc |-> q2, cycle |-> n2, ready |-> d.ready, memory |-> m,
             cache |-> k, halted |-> h2]
    BY DEF CpuStates
  <1>2. a = [gprs |-> g, preds |-> p, pc |-> q, cycle |-> n, ready |-> r, memory |-> m,
             cache |-> k, halted |-> h]
    BY DEF Known, ButForR0
  <1>3. Comparable(d) = [d EXCEPT !.ready = r]
    BY <1>1 DEF Comparable
  <1> HIDE DEF r, a, g, p, m, k, q, n, h, q2, n2, h2
  <1>4. [d EXCEPT !.ready = r] = full
    BY <1>1
  <1>5. [a EXCEPT !.cycle = n2, !.pc = q2, !.halted = h2] = full
    <2> DEFINE b == [a EXCEPT !.cycle = n2]
               c == [b EXCEPT !.pc = q2]
    <2>1. b = [gprs |-> g, preds |-> p, pc |-> q, cycle |-> n2, ready |-> r, memory |-> m,
               cache |-> k, halted |-> h]
      BY <1>2
    <2> HIDE DEF b
    <2>2. c = [gprs |-> g, preds |-> p, pc |-> q2, cycle |-> n2, ready |-> r, memory |-> m,
               cache |-> k, halted |-> h]
      BY <2>1
    <2> HIDE DEF c
    <2>3. [c EXCEPT !.halted = h2] = full
      BY <2>2
    <2> QED
      BY <2>3 DEF b, c
  <1>6. [a EXCEPT !.cycle = n2, !.pc = q2, !.halted = h2] = Comparable(d)
    BY <1>3, <1>4, <1>5
  <1> QED
    BY <1>6 DEF a, q2, n2, h2

LEMMA SlotsReplay ==
    ASSUME CpuInv, cpu \in CpuStates, Issue, ~panicked'
    PROVE  ReplaySlots(IssueEvent, Comparable(cpu))[Len(Slots)] = Known(cpu')
  <1> DEFINE after == ReplaySlots(IssueEvent, Comparable(cpu))
             S == {n \in Nat : n <= Len(Slots) => after[n] = Known(AfterSlot[n].cpu)}
  <1>0. /\ Len(Slots) \in Nat /\ Len(Slots) = Len(Bundle)
        /\ AfterSlot[0] = [cpu |-> Issuing(cpu), panicked |-> FALSE]
    BY NoSlotPanics
  <1>1. /\ after[0] = Comparable(cpu)
        /\ \A s \in 1 .. Len(Slots) : after[s] = ReplaySlot(IssueEvent, after[s - 1], s)
    BY ReplaySlotsDef
  <1> HIDE DEF after
  <1>2. 0 \in S
    <2>1. AfterSlot[0].cpu = Issuing(cpu)
      BY <1>0
    <2> DEFINE d == Issuing(cpu)
    <2>2. /\ d.gprs = cpu.gprs /\ d.preds = cpu.preds /\ d.ready = cpu.ready
          /\ d.memory = cpu.memory /\ d.cache = cpu.cache
      BY DEF Issuing, CpuStates
    <2> HIDE DEF d
    <2>3. Known(d) = Comparable(cpu)
      BY <2>2 DEF Known, Comparable, ButForR0, CpuStates
    <2> QED
      BY <1>1, <2>1, <2>3 DEF d
  <1>3. ASSUME NEW n \in Nat, n \in S PROVE n + 1 \in S
    <2> SUFFICES ASSUME n + 1 <= Len(Slots) PROVE after[n + 1] = Known(AfterSlot[n + 1].cpu)
      OBVIOUS
    <2> DEFINE s == n + 1
    <2>1. /\ s \in 1 .. Len(Slots) /\ s \in 1 .. Len(Bundle) /\ s - 1 = n
          /\ after[n] = Known(AfterSlot[n].cpu)
      BY <1>0, <1>3
    <2> HIDE DEF s
    <2>2. ReplaySlot(IssueEvent, Known(AfterSlot[s - 1].cpu), s) = Known(AfterSlot[s].cpu)
      BY <2>1, SlotReplays
    <2>3. after[s] = Known(AfterSlot[s].cpu)
      BY <1>1, <2>1, <2>2
    <2> QED
      BY <2>3 DEF s
  <1> HIDE DEF S
  <1>4. Len(Slots) \in S
    BY <1>0, <1>2, <1>3, NatSetInduction
  <1>5. cpu' = AfterSlot[Len(Slots)].cpu
    BY <1>0, IssueEffect
  <1> QED
    BY <1>0, <1>4, <1>5 DEF S, after

LEMMA IssueReplays ==
    ASSUME CpuInv, cpu \in CpuStates, cpu' \in CpuStates, Issue, ~panicked'
    PROVE  ReplayEvent(IssueEvent, Comparable(cpu)) = Comparable(cpu')
  <1> DEFINE e == IssueEvent
             target == IF DOMAIN ControlFlow = {} THEN cpu.pc + 1
                       ELSE ControlFlow[Max(DOMAIN ControlFlow)]
             c == Known(cpu')
  <1>1. /\ e.kind = "Issue" /\ e.bundle = cpu.pc /\ e.control = ControlFlow
        /\ e.pcAfter = cpu'.pc
    BY DEF IssueEvent, Event
  <1>2. ReplayEvent(e, Comparable(cpu)) = ReplayControl(e, c)
    <2>1. ReplaySlots(e, Comparable(cpu))[Len(Slots)] = c
      BY SlotsReplay
    <2> HIDE DEF c, e
    <2> QED
      BY <1>1, <2>1 DEF ReplayEvent, ReplayIssue
  <1>3. ReplayControl(e, c) = [c EXCEPT !.cycle = @ + 1,
                                        !.pc     = IF target = NoReg THEN cpu'.pc ELSE target,
                                        !.halted = target = NoReg]
    <2> HIDE DEF e, c
    <2> QED
      BY <1>1 DEF ReplayControl
  <1>4. cpu'.cycle = cpu.cycle + 1 /\ cpu' = AfterSlot[Len(Bundle)].cpu
    BY IssueEffect DEF AfterSlots
  <1>5. /\ target = NoReg => cpu'.halted = TRUE
        /\ target # NoReg => cpu'.halted = FALSE /\ cpu'.pc = target
    <2> DEFINE K == {t \in DOMAIN ControlFlow : t <= Len(Bundle)}
    <2>1. ControlReached(Len(Bundle))
      BY ControlReplays
    <2>2. K = DOMAIN ControlFlow /\ \A t \in K : t \in Nat
      <3>1. Len(Bundle) \in Nat
        BY NoSlotPanics
      <3>2. \A t \in DOMAIN ControlFlow : t \in 1 .. Len(Bundle)
        BY TracedSlot DEF ControlFlow
      <3>3. \A t \in DOMAIN ControlFlow : t \in Nat /\ t <= Len(Bundle)
        BY <3>1, <3>2
      <3> QED
        BY <3>3, Zenon
    <2>3. CASE K = {}
      <3>1. target = cpu.pc + 1 /\ cpu'.pc = cpu.pc + 1 /\ cpu'.halted = FALSE
        BY <1>4, <2>1, <2>2, <2>3 DEF ControlReached
      <3>2. cpu.pc + 1 # NoReg
        BY DEF CpuStates, NoReg
      <3> QED
        BY <3>1, <3>2
    <2>4. CASE K # {}
      <3>1. PICK m \in K : /\ \A t \in K : t <= m
                           /\ IF ControlFlow[m] = NoReg THEN cpu'.halted = TRUE
                              ELSE cpu'.halted = FALSE /\ cpu'.pc = ControlFlow[m]
        BY <1>4, <2>1, <2>4 DEF ControlReached
      <3> HIDE DEF K
      <3>2. Max(K) \in K /\ \A t \in K : Max(K) >= t
        BY <2>2, <3>1 DEF Max
      <3>3. Max(K) = m
        BY <2>2, <3>1, <3>2
      <3> QED
        BY <2>2, <2>4, <3>1, <3>3
    <2> QED
      BY <2>3, <2>4
  <1> HIDE DEF target, e
  <1>6. [c EXCEPT !.cycle = @ + 1,
                  !.pc     = IF target = NoReg THEN cpu'.pc ELSE target,
                  !.halted = target = NoReg] = Comparable(cpu')
    <2>1. /\ cpu.cycle + 1 = cpu'.cycle
          /\ (IF target = NoReg THEN cpu'.pc ELSE target) = cpu'.pc
          /\ (target = NoReg) = cpu'.halted
      BY <1>4, <1>5 DEF CpuStates
    <2>2. c.cycle + 1 = cpu'.cycle
      BY <1>4 DEF Known
    <2>3. [c EXCEPT !.cycle = cpu'.cycle, !.pc = cpu'.pc, !.halted = cpu'.halted]
            = Comparable(cpu')
      BY KnownIsComparable
    <2> DEFINE k == c.cycle + 1
               p == IF target = NoReg THEN cpu'.pc ELSE target
               h == target = NoReg
    <2>4. k = cpu'.cycle /\ p = cpu'.pc
      BY <2>1, <2>2
    <2>5. h = cpu'.halted
      BY <2>1, Zenon
    <2> HIDE DEF c, k, p, h
    <2>6. [c EXCEPT !.cycle = k, !.pc = p, !.halted = h]
            = [c EXCEPT !.cycle = cpu'.cycle, !.pc = cpu'.pc, !.halted = cpu'.halted]
      BY <2>4, <2>5, Zenon
    <2> QED
      BY <2>3, <2>6, Zenon DEF k, p, h
  <1> QED
    BY <1>2, <1>3, <1>6 DEF e

\* What a step of the trace adds to a complete log keeps it complete.
LEMMA CompleteStep ==
    ASSUME CpuInv, TypeOK, TypeOK', IsLog(events), TraceIsComplete, TraceNext
    PROVE  IsLog(events)' /\ TraceIsComplete'
  <1>0. cpu \in CpuStates /\ cpu' \in CpuStates
    BY DEF TypeOK
  <1>1. ASSUME NEW e, events' = Append(events, e),
               ReplayEvent(e, Comparable(cpu)) = Comparable(cpu')
        PROVE  IsLog(events)' /\ TraceIsComplete'
    <2>1. Replay(events)[Len(events)] = Comparable(cpu)
      BY DEF TraceIsComplete, Comparable
    <2>2. Replay(events')[Len(events')] = Comparable(cpu')
      BY <1>1, <2>1, ReplayGrows
    <2>3. IsLog(events')
      BY <1>1, AppendToLog
    <2> QED
      BY <2>2, <2>3 DEF TraceIsComplete, Comparable, IsLog
  <1>2. CASE TraceIllegal
    <2> DEFINE e == Event("IllegalBundle", ActiveSyllables, {}, Nothing, Nothing, Nothing, Nothing)
    <2>1. /\ events' = Append(events, e) /\ e.kind = "IllegalBundle"
          /\ cpu' = [cpu EXCEPT !.halted = TRUE]
      BY <1>2 DEF TraceIllegal, IllegalBundle, Log, Event
    <2> HIDE DEF e
    <2>2. ReplayEvent(e, Comparable(cpu)) = [Comparable(cpu) EXCEPT !.halted = TRUE]
      BY <2>1 DEF ReplayEvent
    <2>3. [Comparable(cpu) EXCEPT !.halted = TRUE] = Comparable(cpu')
      BY <1>0, <2>1 DEF Comparable, CpuStates
    <2> QED
      BY <1>1, <2>1, <2>2, <2>3
  <1>3. CASE TraceStall
    <2> DEFINE e == Event("Stall", ActiveSyllables, StallEntries, Nothing, Nothing, Nothing, Nothing)
    <2>1. /\ events' = Append(events, e) /\ e.kind = "Stall"
          /\ cpu' = [cpu EXCEPT !.cycle = @ + 1]
      BY <1>3 DEF TraceStall, Stall, Log, Event
    <2> HIDE DEF e
    <2>2. ReplayEvent(e, Comparable(cpu)) = [Comparable(cpu) EXCEPT !.cycle = @ + 1]
      BY <2>1 DEF ReplayEvent
    <2>3. [Comparable(cpu) EXCEPT !.cycle = @ + 1] = Comparable(cpu')
      BY <1>0, <2>1 DEF Comparable, CpuStates
    <2> QED
      BY <1>1, <2>1, <2>2, <2>3
  <1>4. CASE TraceIssue /\ ~panicked'
    <2>1. events' = Append(events, IssueEvent) /\ Issue
      BY <1>4 DEF TraceIssue, Log, IssueEvent
    <2>2. ReplayEvent(IssueEvent, Comparable(cpu)) = Comparable(cpu')
      BY <1>0, <1>4, <2>1, IssueReplays
    <2> QED
      BY <1>1, <2>1, <2>2
  <1>5. CASE TraceIssue /\ panicked'
    <2>1. events' = events /\ cpu' = cpu
      BY <1>5 DEF TraceIssue, Issue
    <2> QED
      BY <2>1 DEF TraceIsComplete, IsLog
  <1> QED
    BY <1>2, <1>3, <1>4, <1>5 DEF TraceNext

\* Whatever the program, replaying the effects in its trace from a new CPU gives
\* the registers, scoreboard, memory, cache, program counter and clock of the CPU
\* that was traced: no slot, store or transfer of control is missing from it.
THEOREM TraceIsCompleteAlways == TraceSpec => []TraceIsComplete
  <1> DEFINE Inv == TypeOK /\ IsLog(events) /\ TraceIsComplete
  <1>1. TraceInit => Inv
    <2> SUFFICES ASSUME TraceInit PROVE Inv
      OBVIOUS
    <2>1. events = <<>> /\ Len(events) = 0 /\ cpu = NewCpu
      BY DEF TraceInit, Init
    <2>2. TypeOK
      BY NewCpuType DEF TraceInit, Init, TypeOK
    <2>3. IsLog(events)
      BY <2>1 DEF IsLog
    <2>4. Replay(events)[Len(events)] = NewCpu
      BY <2>1, ReplayDef
    <2>5. [NewCpu EXCEPT !.ready[0] = 0] = NewCpu
      BY DEF NewCpu
    <2> QED
      BY <2>1, <2>2, <2>3, <2>4, <2>5 DEF TraceIsComplete
  <1>2. CpuInv /\ Inv /\ [TraceNext]_traceVars => Inv'
    <2> SUFFICES ASSUME CpuInv, Inv, [TraceNext]_traceVars PROVE Inv'
      OBVIOUS
    <2>1. TypeOK'
      BY TraceSteps, TypeStep
    <2>2. CASE TraceNext
      BY <2>1, <2>2, CompleteStep
    <2>3. CASE UNCHANGED traceVars
      BY <2>1, <2>3 DEF traceVars, vars, IsLog, TraceIsComplete
    <2> QED
      BY <2>2, <2>3
  <1> HIDE DEF Inv
  <1>3. Inv => TraceIsComplete
    BY DEF Inv
  <1> QED
    BY <1>1, <1>2, <1>3, CpuInvInTrace, PTL DEF TraceSpec

=============================================================================
