------------------------------- MODULE System -------------------------------
(***************************************************************************)
(* The multi-CPU system (src/src/system.rs): one call of step_global is    *)
(* one action, for all CPUs.  A cycle has three phases: every CPU offers   *)
(* the memory operation of its next bundle, if it has one, and the bus     *)
(* grants that of the owner of the cycle; every CPU steps, with that       *)
(* operation taken out of its bundle, on a copy of the shared memory that  *)
(* becomes the shared memory after its step; the granted operation is      *)
(* committed.                                                              *)
(*                                                                         *)
(* A panic unwinds out of step_global: the model keeps the state that the  *)
(* system had before the call and never goes on from it.                   *)
(***************************************************************************)
EXTENDS Cpu, Bus

CONSTANTS
    ProgramSets,    \* the choices of a program for every CPU
    MaxCycle        \* bound of the explored cycles, for TLC

\* The bundles of a program fill the slots of the layout.
ASSUME SystemAssumption ==
    /\ \A ps \in ProgramSets :
         /\ ps \in [Cpus -> Seq(Seq(Syllable))]
         /\ \A c \in Cpus : \A i \in DOMAIN ps[c] : Len(ps[c][i]) = Len(Slots)
    /\ MaxCycle \in Nat

NoReq == [cpu |-> -1]

Requests ==
    [cpu : Cpus, slot : DOMAIN Slots, kind : {"load", "store"}, address : Words,
     width : {1, 2, 4, 8}, value : Words, dst : Nat \cup {NoReg}]

VARIABLES
    programs,   \* System.programs
    cpus,       \* System.cpus
    memory,     \* System.memory
    cycle,      \* System.cycle
    grant,      \* BusEvent.granted of the latest bus event
    status      \* what the latest step_global did

vars == <<programs, cpus, memory, cycle, grant, status>>

TypeOK ==
    /\ programs \in [Cpus -> Seq(Seq(Syllable))]
    /\ cpus \in [Cpus -> CpuStates]
    /\ memory \in Memories
    /\ cycle \in Nat
    /\ grant \in Requests \cup {NoReq}
    /\ status \in {"running", "quiescent", "panicked"}

-----------------------------------------------------------------------------
(* System::new *)

\* Faulty: loads are not checked.
StoresRespectBusSlots(program, c) ==
    \A i \in DOMAIN program : \A s \in DOMAIN program[i] :
        program[i][s].op \in Stores => BusSlot(i - 1, c)

\* first_bus_slot_conflict finds none: bundle i is taken to issue in cycle i.
RespectsBusSlots(program, c) ==
    \A i \in DOMAIN program : \A s \in DOMAIN program[i] :
        program[i][s].op \in MemoryOps => BusSlot(i - 1, c)

Accepted(ps) ==
    \A c \in Cpus : ProgramLayoutCompatible(ps[c]) /\ RespectsBusSlots(ps[c], c)

Init ==
    /\ programs \in {ps \in ProgramSets : Accepted(ps)}
    /\ cpus = [c \in Cpus |-> NewCpu]
    /\ memory = ZeroMemory
    /\ cycle = 0
    /\ grant = NoReq
    /\ status = "running"

-----------------------------------------------------------------------------
(* The phases of step_global. *)

\* Faulty: the CPU keeps the copy of memory of its last step.
SyncedClock(cpu, mem) == [cpu EXCEPT !.cycle = cycle]

\* A CPU at the start of its phase: the system's clock and a copy of memory.
Synced(cpu, mem) == [cpu EXCEPT !.cycle = cycle, !.memory = mem]

\* next_memory_request: the first active memory operation, if it is ready.
RequestOf(c) ==
    LET cpu    == Synced(cpus[c], memory)
        bundle == programs[c][cpu.pc + 1]
        slots  == {s \in ActiveSlots(cpu, bundle) : bundle[s].op \in MemoryOps}
        slot   == Min(slots)
        syl    == bundle[slot]
        width  == AccessWidth(syl.op)
    IN  IF Finished(cpu, programs[c]) \/ slots = {} \/ UnreadySource(cpu, syl)
        THEN NoReq
        ELSE [cpu     |-> c,
              slot    |-> slot,
              kind    |-> IF syl.op \in Stores THEN "store" ELSE "load",
              address |-> EffectiveAddress(cpu, syl),
              width   |-> width,
              value   |-> IF syl.op \in Stores
                          THEN ReadGpr(cpu, syl.src[2]) % PowersOf(ByteMod)[width] ELSE 0,
              dst     |-> syl.dst]

\* Faulty: the slot of the next cycle.
GrantedAhead == RequestOf(BusOwner(cycle + 1))

\* Bus::arbitrate
Granted == RequestOf(BusOwner(cycle))

\* Faulty: a stall is not progress.
SteppedIfIssued(result) == result = "Issued"

\* The outcomes of step_checked that count as progress.
Stepped(result) == result \in {"Issued", "Stalled"}

\* Faulty: the CPU stays at its bundle.
StepBesideRequestInPlace(cpu, bundle, slot) ==
    LET step == StepChecked([cpu EXCEPT !.pc = 0], <<[bundle EXCEPT ![slot] = Nop]>>)
    IN  [step EXCEPT !.cpu.pc = cpu.pc]

\* The bundle with its requested operation replaced by a Nop is run as a
\* program of its own; whatever it does to the program counter is undone.
StepBesideRequest(cpu, bundle, slot) ==
    LET step == StepChecked([cpu EXCEPT !.pc = 0], <<[bundle EXCEPT ![slot] = Nop]>>)
    IN  [step EXCEPT !.cpu.pc =
            IF Stepped(step.result) THEN cpu.pc + 1 ELSE cpu.pc]

\* Phase two for one CPU, in what the CPUs before it made of the system.
StepCpu(s, c) ==
    LET cpu     == Synced(s.cpus[c], s.memory)
        request == RequestOf(c)
        step    == IF request = NoReq
                   THEN StepChecked(cpu, programs[c])
                   ELSE StepBesideRequest(cpu, programs[c][cpu.pc + 1], request.slot)
        stepped == Stepped(step.result)
    IN  [cpus     |-> [s.cpus EXCEPT ![c] = step.cpu],
         memory   |-> IF stepped THEN step.cpu.memory ELSE s.memory,
         progress |-> s.progress \/ stepped,
         panicked |-> s.panicked \/ step.result = "Fault"]

\* The loop over the CPUs: the system after the phases of the first n.
SteppedUpTo[n \in 0 .. NumCpus] ==
    IF n = 0
    THEN [cpus |-> cpus, memory |-> memory, progress |-> FALSE, panicked |-> FALSE]
    ELSE StepCpu(SteppedUpTo[n - 1], n - 1)

AllStepped == SteppedUpTo[NumCpus]

\* Faulty: counted from the cycle the load is granted in.
LoadReadyAtGrant(latency) == cycle + latency

\* The clock is one cycle on when the granted load is done.
LoadReadyAt(latency) == cycle + 1 + latency

\* commit_bus_request for a load: the value comes from the shared memory and
\* is ready when the cache of the CPU would deliver it.
CommitLoad(s, req) ==
    LET cpu     == s.cpus[req.cpu]
        latency == OutcomeLatency(PeekOutcome(cpu.cache, req.address))
        value   == LoadBytes(s.memory, req.address, req.width)
        filled  == [cpu EXCEPT !.cache = AccessLoad(@, req.address), !.memory = s.memory]
    IN  [s EXCEPT !.progress = TRUE,
                  !.cpus[req.cpu] = SetReady(WriteGpr(filled, req.dst, value),
                                             req.dst, LoadReadyAt(latency))]

\* Faulty: only the writer's cache makes its transition.
CommitStoreUnseenByPeers(s, req) ==
    LET written == StoreBytes(s.memory, req.address, ToBytes(req.value, req.width))
    IN  [s EXCEPT !.progress = TRUE,
                  !.memory = written,
                  !.cpus[req.cpu] = [@ EXCEPT !.cache = AccessStore(@, req.address),
                                              !.memory = written]]

\* commit_bus_request for a store: every cache makes its transition.
CommitStore(s, req) ==
    LET written == StoreBytes(s.memory, req.address, ToBytes(req.value, req.width))
    IN  [s EXCEPT !.progress = TRUE,
                  !.memory = written,
                  !.cpus = [c \in Cpus |->
                     [s.cpus[c] EXCEPT
                        !.cache = StoreCommitTransition(@, req.address, c = req.cpu),
                        !.memory = IF c = req.cpu THEN written ELSE @]]]

Commit(s, req) ==
    IF req = NoReq THEN s
    ELSE IF ~InBounds(req.address, req.width) THEN [s EXCEPT !.panicked = TRUE]
    ELSE IF req.kind = "load" THEN CommitLoad(s, req)
    ELSE CommitStore(s, req)

-----------------------------------------------------------------------------

\* The system once the request is committed; a panic has ended the call before.
Committed(s) == IF s.panicked THEN s ELSE Commit(s, Granted)

\* step_global returns true.
Progress(after) ==
    /\ ~after.panicked /\ after.progress
    /\ cycle' = cycle + 1
    /\ cpus' = [c \in Cpus |-> [after.cpus[c] EXCEPT !.cycle = cycle + 1]]
    /\ memory' = after.memory
    /\ grant' = Granted
    /\ status' = "running"

\* step_global returns false: no CPU stepped and nothing was granted.
NoProgress(after) ==
    /\ ~after.panicked /\ ~after.progress
    /\ cpus' = after.cpus
    /\ memory' = after.memory
    /\ grant' = Granted
    /\ status' = "quiescent"
    /\ UNCHANGED cycle

Panic(after) ==
    /\ after.panicked
    /\ status' = "panicked"
    /\ UNCHANGED <<cpus, memory, cycle, grant>>

\* It may be called again after it returned false.
StepGlobal ==
    /\ status # "panicked"
    /\ cycle < MaxCycle
    /\ \E stepped \in {AllStepped} : \E after \in {Committed(stepped)} :
            Progress(after) \/ NoProgress(after) \/ Panic(after)
    /\ UNCHANGED programs

Next == StepGlobal

Spec == Init /\ [][Next]_vars

\* What a call of step_global leaves in cycle and status, whatever it did.
CallReturns ==
    /\ status = "running" /\ cycle < MaxCycle
    /\ \/ cycle' = cycle + 1 /\ status' = "running"
       \/ cycle' = cycle /\ status' \in {"quiescent", "panicked"}

\* run_until_quiescent: `while self.step_global() {}`.
FairSpec == Spec /\ WF_<<cycle, status>>(CallReturns)

-----------------------------------------------------------------------------

\* The bus sees every memory access of the bundle: it has one at most, and no
\* earlier slot can switch it on or off after the request was made.
AccessIsSettled(bundle) ==
    \A i, j \in DOMAIN bundle : bundle[j].op \in MemoryOps =>
        /\ bundle[i].op \in MemoryOps => i = j
        /\ i < j /\ bundle[i].op \in WritesPred => bundle[j].pred \notin {bundle[i].dst} \ {0}

Disciplined ==
    \A c \in Cpus : \A i \in DOMAIN programs[c] : AccessIsSettled(programs[c][i])

BusGrant ==
    IF grant = NoReq THEN [kind |-> "none"]
    ELSE IF grant.kind = "load"
    THEN [kind |-> "load", cpu |-> grant.cpu, address |-> grant.address,
          width |-> grant.width]
    ELSE [kind |-> "store", cpu |-> grant.cpu, address |-> grant.address,
          width |-> grant.width, data |-> ToBytes(grant.value, grant.width)]

\* The <<address, width>> pairs that a program may access.
Accesses == {a \in Addresses \X {1, 2, 4, 8} : InBounds(a[1], a[2])}

MemorySide == INSTANCE Coherence WITH
    caches <- [c \in Cpus |-> cpus[c].cache],
    grant  <- BusGrant

\* The caches, the shared memory and the bus of a disciplined system change as
\* module Coherence says, whatever the processors do: everything proved there
\* holds here.  It is what at_most_one_modified_for_system relies on.
ImplementsCoherence ==
    /\ MemorySide!Init
    /\ [][Disciplined => MemorySide!Next]_(MemorySide!vars)

\* A CPU that leaves a bundle whose memory operation it requested was granted
\* it, unless it is out of step with the bus schedule (its program counter is
\* not the cycle): the static check of System::new is enough for a CPU that
\* never stalls, branches or was stopped.
RequestsLostOnlyAfterDrift ==
    [][\A c \in Cpus :
         RequestOf(c) # NoReq /\ cpus'[c].pc # cpus[c].pc =>
            grant'.cpu = c \/ cpus[c].pc # cycle]_vars

\* When step_global returns false every CPU is done, and no later call finds
\* anything to do: run_until_quiescent misses nothing when it stops.
QuiescenceIsFinal ==
    [][/\ status' = "quiescent" => \A c \in Cpus : Finished(cpus'[c], programs[c])
       /\ status = "quiescent" => /\ status' = "quiescent"
                                  /\ UNCHANGED <<cpus, memory, cycle>>]_vars

\* A CPU that is done keeps its registers, its program counter and its
\* scoreboard while the others go on; its cache only loses lines to them.
FinishedCpusAreInert ==
    [][\A c \in Cpus : Finished(cpus[c], programs[c]) =>
         /\ \A f \in {"gprs", "preds", "ready", "pc", "halted"} :
                cpus'[c][f] = cpus[c][f]
         /\ \A k \in LineIndices :
                \/ cpus'[c].cache[k] = cpus[c].cache[k]
                \/ cpus'[c].cache[k] = InvalidLine(cpus[c].cache[k].tag)]_vars

\* No backward or computed transfer of control.
LoopFree(program) ==
    \A i \in DOMAIN program : \A s \in DOMAIN program[i] :
        /\ program[i][s].op \in {"Branch", "Jump"} => AsWord(program[i][s].imm) >= i
        /\ program[i][s].op \notin {"Call", "Ret"}

\* run_until_quiescent returns (or panics) when no program has a loop,
\* however the CPUs' stalls and the bus interleave.
LoopFreeSystemsEnd ==
    (\A c \in Cpus : LoopFree(programs[c])) => <>(status # "running")

-----------------------------------------------------------------------------
(* A system of one CPU against the CPU on its own. *)

NextBundle(c) == programs[c][cpus[c].pc + 1]

\* No slot writes the guard of a later one.
GuardsAreSettled(bundle) ==
    \A i, j \in DOMAIN bundle :
        i < j /\ bundle[i].op \in WritesPred => bundle[j].pred \notin {bundle[i].dst} \ {0}

\* Taking the memory operation out of the bundle of CPU c changes nothing for
\* the rest of it: the whole bundle is legal and ready, its guards stay what
\* they were, and the rest neither transfers control nor repeats the access.
\* Two writes of r0 are legal and its ready cycle is that of the later one: it
\* is not to be behind a load into r0.
RestIsIndependent(c) ==
    LET bundle == NextBundle(c)
        active == ActiveSlots(cpus[c], bundle)
        slot   == RequestOf(c).slot
    IN  /\ AccessIsSettled(bundle)
        /\ RequestOf(c) # NoReq =>
             /\ BundleIsLegal(cpus[c], bundle)
             /\ ~HasUnreadySources(cpus[c], bundle)
             /\ GuardsAreSettled(bundle)
             /\ \A s \in active :
                  /\ bundle[s].op \notin ControlOps
                  /\ s > slot /\ GprWriteDst(bundle[slot]) = 0 => GprWriteDst(bundle[s]) # 0

Alone == INSTANCE CpuCore WITH
    Programs <- {ps[0] : ps \in ProgramSets},
    program  <- programs[0],
    cpu      <- cpus[0],
    panicked <- status = "panicked"

\* One CPU behind the bus does, bundle by bundle, what the same CPU does under
\* trace_program: same registers, memory, cache, clock and panics.
OneCpuBehavesAsTraced ==
    /\ Alone!Init
    /\ [][~Finished(cpus[0], programs[0]) /\ RestIsIndependent(0)
             => Alone!Next]_(Alone!vars)
=============================================================================
