------------------------------- MODULE Trace -------------------------------
(***************************************************************************)
(* The TraceLog of a run (src/src/cpu/trace.rs): each step_trace of        *)
(* CpuCore appends one TraceEvent.  What an event has per slot is a        *)
(* function of the slot, since the code appends in slot order; how events  *)
(* are printed is left out.  A panic ends the run without a trace.         *)
(***************************************************************************)
EXTENDS CpuCore

VARIABLE events     \* TraceLog.events

traceVars == <<vars, events>>

TraceInit == Init /\ events = <<>>

\* The slots that the loop of an issue does not skip.
ActiveIn(c, s) == Bundle[s].op # "Nop" /\ Active(c, Bundle[s])

Traced == {s \in DOMAIN Bundle : /\ ~AfterSlot[s - 1].cpu.halted
                                 /\ ActiveIn(AfterSlot[s - 1].cpu, s)}

\* collect_trace_stalls
Stalls ==
    {stall \in [slot : DOMAIN Bundle, register : GprIndices \ {0}] :
        LET syl == Bundle[stall.slot]
        IN  /\ Active(cpu, syl)
            /\ \/ Reads(syl, stall.register)
               \/ syl.op = "Ret" /\ stall.register = LinkReg
            /\ cpu.ready[stall.register] > cpu.cycle + 1}

StallEntries == {[register |-> x.register, ready |-> cpu.ready[x.register]] : x \in Stalls}

\* Faulty: the link register that a Call writes is forgotten.
GprWrittenExplicitly(s) == IF Bundle[s].op \in GprWriters THEN Bundle[s].dst ELSE NoReg

GprWritten(s) == IF Bundle[s].op \in WritesGpr THEN GprWriteDst(Bundle[s]) ELSE NoReg

GprWrites ==
    [s \in {t \in Traced : GprWritten(t) \in GprIndices \ {0}} |->
        [register |-> GprWritten(s),
         value    |-> AfterSlot[s].cpu.gprs[GprWritten(s)],
         ready    |-> AfterSlot[s].cpu.ready[GprWritten(s)]]]

PredWrites ==
    [s \in {t \in Traced : Bundle[t].op \in WritesPred /\ Bundle[t].dst \in PredIndices \ {0}} |->
        [predicate |-> Bundle[s].dst, value |-> AfterSlot[s].cpu.preds[Bundle[s].dst]]]

\* Faulty: the cache is asked after the access.
OutcomeAfterAccess(s, addr) == PeekOutcome(AfterSlot[s].cpu.cache, addr)

\* trace_memory_effect asks the cache before the access changes it.
TracedOutcome(s, addr) == PeekOutcome(AfterSlot[s - 1].cpu.cache, addr)

MemoryEffects ==
    [s \in {t \in Traced : Bundle[t].op \in MemoryOps} |->
        LET before == AfterSlot[s - 1].cpu
            addr   == EffectiveAddress(before, Bundle[s])
            width  == AccessWidth(Bundle[s].op)
        IN  [load    |-> Bundle[s].op \in Loads,
             address |-> addr,
             width   |-> width,
             data    |-> IF Bundle[s].op \in Loads
                         THEN [o \in 0 .. width - 1 |-> before.memory[addr + o]]
                         ELSE ToBytes(ReadGpr(before, Bundle[s].src[2]), width),
             outcome |-> TracedOutcome(s, addr)]]

\* trace_control_flow: a target of NoReg is a Ret that halts.
ControlFlow ==
    [s \in {t \in Traced : Bundle[t].op \in ControlOps} |->
        LET before == AfterSlot[s - 1].cpu
        IN  IF Bundle[s].op = "Ret"
            THEN IF ReadGpr(before, LinkReg) = 0 THEN NoReg ELSE ReadGpr(before, LinkReg)
            ELSE AsWord(Bundle[s].imm)]

Nothing == [s \in {} |-> 0]

Event(kind, active, stalls, gprs, preds, memory, control) ==
    [kind |-> kind, bundle |-> cpu.pc, cycle |-> cpu.cycle, active |-> active,
     stalls |-> stalls, gprs |-> gprs, preds |-> preds, memory |-> memory,
     control |-> control, pcAfter |-> cpu'.pc, cycleAfter |-> cpu'.cycle,
     haltedAfter |-> cpu'.halted]

ActiveSyllables == {s \in DOMAIN Bundle : ActiveIn(cpu, s)}

Log(event) == events' = Append(events, event)

TraceIllegal ==
    /\ IllegalBundle
    /\ Log(Event("IllegalBundle", ActiveSyllables, {}, Nothing, Nothing, Nothing, Nothing))

TraceStall ==
    /\ Stall
    /\ Log(Event("Stall", ActiveSyllables, StallEntries, Nothing, Nothing, Nothing, Nothing))

TraceIssue ==
    /\ Issue
    /\ IF panicked' THEN UNCHANGED events
       ELSE Log(Event("Issue", Traced, {}, GprWrites, PredWrites, MemoryEffects, ControlFlow))

TraceNext == TraceIllegal \/ TraceStall \/ TraceIssue

TraceSpec == TraceInit /\ [][TraceNext]_traceVars

\* trace_program steps as long as the CPU is not done.
TraceFairSpec == TraceSpec /\ WF_traceVars(TraceNext)

-----------------------------------------------------------------------------
(* What a reader of the trace makes of it, without the program. *)

\* Slot s of an event applied to the state c.
ReplaySlot(e, c, s) ==
    LET mem == IF s \notin DOMAIN e.memory THEN c
               ELSE LET m == e.memory[s]
                    IN  IF m.load THEN [c EXCEPT !.cache = AccessLoad(@, m.address)]
                        ELSE [c EXCEPT !.cache  = AccessStore(@, m.address),
                                       !.memory = StoreBytes(@, m.address, m.data)]
        gpr == IF s \notin DOMAIN e.gprs THEN mem
               ELSE [mem EXCEPT !.gprs[e.gprs[s].register]  = e.gprs[s].value,
                                !.ready[e.gprs[s].register] = e.gprs[s].ready]
    IN  IF s \notin DOMAIN e.preds THEN gpr
        ELSE [gpr EXCEPT !.preds[e.preds[s].predicate] = e.preds[s].value]

\* Without a transfer control goes on behind the bundle; of several the last
\* one counts, and a Ret without a target halts.
ReplayControl(e, c) ==
    LET target == IF DOMAIN e.control = {} THEN e.bundle + 1
                  ELSE e.control[Max(DOMAIN e.control)]
    IN  [c EXCEPT !.cycle = @ + 1,
                  !.pc     = IF target = NoReg THEN e.pcAfter ELSE target,
                  !.halted = target = NoReg]

\* The slots of a bundle are replayed in their order.
ReplaySlots(e, c) ==
    LET after[s \in 0 .. Len(Slots)] ==
            IF s = 0 THEN c ELSE ReplaySlot(e, after[s - 1], s)
    IN  after

ReplayIssue(e, c) == ReplayControl(e, ReplaySlots(e, c)[Len(Slots)])

ReplayEvent(e, c) ==
    IF e.kind = "IllegalBundle" THEN [c EXCEPT !.halted = TRUE]
    ELSE IF e.kind = "Stall" THEN [c EXCEPT !.cycle = @ + 1]
    ELSE ReplayIssue(e, c)

\* The CPU after the first n events of a log.
Replay(log) ==
    LET after[n \in 0 .. Len(log)] ==
            IF n = 0 THEN NewCpu ELSE ReplayEvent(log[n], after[n - 1])
    IN  after

\* The effects in a trace are all there are: replayed from a new CPU, they
\* give the registers, scoreboard, memory, cache, program counter and clock of
\* the CPU that was traced.  Only the ready cycle of r0, which no check looks
\* at, is not in it.
TraceIsComplete ==
    Replay(events)[Len(events)] = [cpu EXCEPT !.ready[0] = 0]

\* The cycle in which a result is ready and the cache outcome in the trace,
\* taken before and after the access, belong to the same access, also when a
\* bundle has two.
OutcomesExplainReadyCycles ==
    \A i \in DOMAIN events : \A s \in DOMAIN events[i].memory \cap DOMAIN events[i].gprs :
        events[i].gprs[s].ready =
            events[i].cycleAfter + OutcomeLatency(events[i].memory[s].outcome)

\* Every stall in a trace names the results it waits for, the stalls of a
\* bundle wait for the same ones or fewer, and it issues in the first cycle by
\* whose end all of them are ready: no stall is missing and none too many.
StallsAreExplained ==
    \A i \in DOMAIN events :
        LET late(c) == {x \in events[i].stalls : x.ready > c}
        IN  events[i].kind = "Stall" =>
              /\ late(events[i].cycle + 1) = events[i].stalls /\ events[i].stalls # {}
              /\ i < Len(events) =>
                   /\ events[i + 1].bundle = events[i].bundle
                   /\ events[i + 1].cycle = events[i].cycle + 1
                   /\ events[i + 1].stalls = late(events[i].cycle + 2)
                   /\ events[i + 1].kind = IF late(events[i].cycle + 2) = {}
                                           THEN "Issue" ELSE "Stall"
=============================================================================
