# LwirSimulator in TLA+

LwirSimulator assembles, verifies and runs programs for a VLIW processor:
bundles of syllables, one per slot, issued in order, with a scoreboard that
stalls a bundle until its operands are ready. One CPU can run alone with a
trace; several CPUs run together behind a round-robin bus, a shared memory and
private caches kept coherent with MSI states. A static verifier accepts the
programs that follow the compiler contract. This directory holds TLA+ modules
of these parts, TLC runs that check them, and TLAPS proofs about them.

## Inventory

| Part | Source | State | Operations | Interacts with |
| --- | --- | --- | --- | --- |
| Instruction set | `isa.rs` | none | opcode classes | everything |
| Latency table | `latency.rs` | entries: opcode, cycles | `default`, `get`, `set` | CPU, verifier |
| Processor layout | `layout.rs` | units, slots, architecture, cache, topology | `validate`, `slot_can_execute`, `program_layout_compatible` | assembler, CPU checks, `System::new` |
| CPU | `cpu/` | GPRs, predicates, pc, clock, scoreboard, own memory, cache, halted | `step_checked`, the register accessors | cache; memory copied in and out by the system |
| Trace executor | `cpu/trace.rs` | the CPU, a log of events | `trace_program`, `step_trace` | CPU, called by `--trace` and `--json` |
| Cache | `cache.rs` | lines: tag, valid, dirty, msi | `access_load`, `access_store`, `store_commit_transition`, `peek_outcome` | its CPU; the bus commit of peers |
| Bus | `system.rs` | event log | `owner`, `arbitrate` | system |
| Shared memory | `system.rs` | bytes | `load`, `store` | system, CPU copies |
| System | `system.rs` | CPUs, programs, memory, bus, cycle | `new`, `step_global`, `run_until_quiescent` | all of the above |
| Static verifier | `verifier.rs`, bounds in `system.rs` | static ready cycles | `verify_program_for_cpu`, `verify_system` | latencies, layout; what it accepts runs on the executors |
| Assembler: header | `asm.rs` | section, sections found so far | `parse_processor_header`, `parse_processor_block` | layout |
| Assembler: body | `asm.rs` | bundles, labels, open block | `collect_lines`, `resolve_labels`, `parse_instruction`, `parse_program` | layout, executors, verifier |
| Command lines | `main.rs`, `bin/` | none | choose an executor, print | executors, verifier |

Nothing here is multi-threaded and nothing is persisted. What is hard is:

* **interleaving of the CPUs**: every call of `step_global` steps all CPUs one
  after the other on copies of the memory, then commits one request; the MSI
  states must be right after any sequence of commits;
* **atomicity of a bundle**: the memory operation of a bundle is taken out and
  committed by the bus, the rest is stepped as a program of its own;
* **the static schedule**: programs are accepted on the assumption that bundle i
  issues in cycle i; stalls and branches break it;
* **parallel slots executed one after the other**: only the legality check keeps
  them apart, and guards are read again by each slot;
* **everything twice**: two executors for one architecture, hazard checks at run
  time and in the verifier, stalls decided by one function and explained by
  another, a cache line's state in three fields;
* **order in the assembler**: labels and names are used before they are
  declared, sections come in any order, a second instruction for a slot
  overwrites the first;
* **termination**: stalls end, polling loops end, `run_until_quiescent` stops
  when, and only when, all CPUs are done.

What makes each part correct: the *cache and bus* keep one owner per line and no
outdated copy; *memory* changes only by the owner of the cycle; a *CPU* executes
the slots of a bundle as if in parallel, returns behind its calls and never
waits longer than the worst latency; the *trace* holds all that happened; the
*system* grants what it accepted, agrees with the CPU on its own and stops when
it should; the *verifier* accepts only programs that neither stall nor are
stopped, alone and together; the *assembler* accepts what is well formed and
drops nothing; the *latency table* changes one answer at a time.

## Modules

| Module | Models | Uses |
| --- | --- | --- |
| `Cache` | the lines of one cache and their transitions, as operators | |
| `SharedMemory` | the byte array and its accesses, as operators | |
| `Bus` | who owns which cycle | |
| `Coherence` | bus, memory and all caches as a state machine; the requests are left open | `Cache`, `SharedMemory`, `Bus` |
| `DataCache` | `Coherence` with a history variable for the bytes a data cache would hold | `Coherence` |
| `Isa`, `Layout` | opcodes, their classes, which slot executes which | |
| `Cpu` | one CPU as a function of its state: registers, checks, execution, `StepChecked` | `Layout`, `Cache`, `SharedMemory` |
| `CpuCore` | `trace_program` of one CPU as a state machine | `Cpu` |
| `Trace` | `CpuCore` with the events of its `TraceLog`, and a replay of them | `CpuCore` |
| `System` | `System::new` and `step_global` for all CPUs; refinement to `Coherence` and to `CpuCore` | `Cpu`, `Bus` |
| `SystemClaims` | statements of the documents that `step_global` contradicts | `System` |
| `Verifier` | the checks of the static verifier and its latency bounds, as operators on programs | `Cpu`, `Bus` |
| `VerifiedCore` | what the verifier promises of one CPU | `CpuCore`, `Verifier` |
| `VerifiedSystem` | what it promises of CPUs that share the bus | `System`, `Verifier` |
| `ProcessorHeader` | the parser of the `.processor` header and the validation of the layout | |
| `Assembler` | an assembly file, header and body, line by line | `ProcessorHeader`, `Isa` |
| `LatencyTable` | the list of entries, its `get` and `set`, as operators | |
| `MemoryProofs` | lemmas about powers, sums, words, bytes and one cache | |
| `CoherenceProofs` | theorems about `Coherence` and `DataCache` | `MemoryProofs` |
| `CpuProofs` | lemmas about the operators of `Cpu` and `Verifier`, in any state | `MemoryProofs` |
| `CpuCoreProofs` | theorems about `CpuCore`, `VerifiedCore` and `Trace` | `CpuProofs` |
| `SystemProofs` | theorems about `System` and `VerifiedSystem` | `CpuProofs` |
| `OneCpuProofs` | the theorem that a `System` of one CPU implements `CpuCore` | `SystemProofs` |
| `LatencyTableProofs` | theorems about `LatencyTable` | |
| `AssemblerProofs` | theorems about `Assembler` | |
| `MC...` | instances for TLC | |

### How they correspond to the code

`Coherence`: `caches` is the cache of every `CpuState`, `memory` and `cycle` are
the fields of `System`, `grant` is the latest `BusEvent`. One action per outcome
of a bus cycle: `GrantLoad` and `GrantStore` are the two arms of
`commit_bus_request`, `GrantNone` is a cycle whose owner asked for nothing,
`Quiescent` the call of `step_global` that finds nothing to do. It is the
abstract specification of the memory side.

`Cpu`: a CPU state is a record with the fields of `CpuState` that the program
reads again. `StepChecked` has the early returns of `step_checked` in their
order: done, illegal bundle, unready source, memory fault, issue. `ExecSyllable`
is `execute_syllable` with all its opcodes; a bundle is executed slot by slot up
to one that halts the CPU.

`CpuCore`: one action per kind of trace event, `IllegalBundle`, `Stall` and
`Issue`. `step_trace` does not call `step_checked`: it checks the bounds of each
access right before executing it and panics. `Trace` adds the log: each of the
three actions appends its `TraceEvent`, whose effects are taken from the state
before or after the slot, as in the code.

`System`: `StepGlobal` is one call of `step_global`: `RequestOf` is
`next_memory_request`, `Granted` the arbitration, `StepCpu` the body of the loop
over the CPUs (with `StepBesideRequest` for a bundle whose operation was
requested), `Commit` is `commit_bus_request`. `Progress`, `NoProgress` and
`Panic` are its three ways to end. `Init` has only programs that `System::new`
accepts.

`Verifier`: one operator per `check_` function; a program is verified when no
check adds a diagnostic. `ready_at` of the code, a table that is updated bundle
by bundle, is `ReadyBy`: all writes before the bundle are ready by a cycle.

`Assembler` and `ProcessorHeader`: one action per call of the loop over the
lines, with the cases of `parse_processor_block` and `collect_lines` as its
disjuncts; then the resolution of labels and the placing of instructions, one
action per bundle and one per instruction. A word is a pair of its kind and
value; a line of the header is a directive, the braces it opens less those it
closes, whether it opens any, and its arguments. Which file is read is chosen in
`Init`.

`LatencyTable`: `Get` is `get` and `Changed` is the table after `set`. It has no
state of its own: nothing but tests calls `set` while a processor runs, so the
other modules take the function `Latency` that `get` makes of a table.

Abstractions: a word is 8 bytes of `ByteBits` bits and a byte has `ByteMod`
values, so arithmetic and addresses wrap as in the code but at a small size;
latencies are natural numbers where the code has saturating `u32`; clocks are
natural numbers where the code has `u64`; a panic keeps the state from before
the call, since nothing looks at the state that unwinding leaves; slots are sets
of unit kinds, because names of units only connect the two; how trace events are
printed, and the log of all bus events, are output.

An operator whose comment begins with "Faulty:" is no part of a model: it is a
plausible bug in the definition that follows it. `PROJECT.json` ("mutants") says
which property has to fail when it takes that definition's place; every property
of a passing run has one.

## Runs

All instances use small words (8 bits), at most 8 bytes of memory and caches of
one or two lines; hit, miss and writeback have different latencies except where
the verifier's bounds leave no room for it. `MaxCycle` bounds the cycles. Where
deadlock checking is off, the program really stops: all CPUs are done, the file
is read, or the bound is reached.

| Run | Shows | Bounds |
| --- | --- | --- |
| `coherence` | the invariants and action properties of `Coherence` and `DataCache` | 3 CPUs, 3 memory lines, 2 of them with the same index, 5 accesses of 1 or 2 bytes that cross no line, 5 cycles: each CPU owns the bus once and two own it twice, enough for two writers, a reader and an eviction between them |
| `cpu_core` | the properties of `CpuCore` and `Trace` under fairness | all programs of 3 bundles from 18 that cover late results, cache misses and dirty evictions, out-of-bounds accesses, calls, loops, guards and every kind of hazard, and all from 13 with several effects in one bundle; 16 cycles |
| `system` | refinement of `Coherence`, drift, quiescence, termination | 2 CPUs; programs with settled memory operations, with wild ones, and programs that `System::new` rejects; 20 cycles, more than any of the loop-free programs needs (else `LoopFreeSystemsEnd` would fail) |
| `one_cpu` | one CPU behind the bus refines `CpuCore` | all programs of 3 bundles out of 15, of three slots; 14 cycles |
| `verified_core` | the verifier's promises for one CPU | every program that it accepts of 4 bundles out of 12 (writers of each latency, readers of what they write, guards, known and unknown addresses), of 3 out of 8 with branches and calls, and of 4 that skip bundles; 9 cycles |
| `verified_system` | the verifier's promises for two CPUs | producers and consumers of five and eight bundles, and releasers that outlive the loop with pollers whose loops have 6, 7 or 8 bundles, are entered on schedule or not and may stop; 30 cycles: the latest release plus two rounds |
| `assembler` | acceptance, labels, placing of instructions, header | every body of up to three lines out of 17, and every block of two lines between two others; a header with one of 26 stray lines at any place, and with another line lost, or two lines swapped as well, and headers with opening braces on lines of their own, or with lines of arch, a memory line among them, on lines of their own: 12 962 files |

What the properties say, beside one type invariant per state machine:

* `AtMostOneModified`, `StoreTakesOwnership`, `PeersOnlyLoseTheStoredLine`,
  `MsiFieldsAgree`, `MemoryChangesOnlyByTheOwner`: the MSI protocol for any
  number of CPUs. `ValidCopiesAreCurrent` is its purpose: a line that the
  simulator calls valid would hold the current bytes.
* `SlotsAreParallel`: an issued bundle leaves every register as its one writer
  alone would, as long as no slot writes a later slot's guard and there is one
  memory operation and one control operation at most. `ReadyWithinWorstCase`: a
  ready cycle changes only for a register that the issued bundle writes, and lies
  within the static bound of the syllable that writes it, of a load within
  `worst_case_load_latency` (5 in the instance, where the slowest opcode takes 6). `LinkFollowsACall`, `LoopFreeProgramsEnd`: returns go behind
  calls, programs without loops end.
* `TraceIsComplete`: the events, replayed without the program, give the state of
  the CPU. `OutcomesExplainReadyCycles`: the cache outcome in a trace is the one
  that the result waited for. `StallsAreExplained`: the stalls listed, and they
  alone, are why the bundle waits, and it issues in the first cycle without one.
* `ImplementsCoherence`: as far as every bundle has at most one memory operation
  whose guard the bundle does not write (`Disciplined`), the system is an
  implementation of `Coherence`, so what is proved there holds for it.
  `RequestsLostOnlyAfterDrift`: an accepted program loses a memory operation
  only when its CPU has left the schedule. `QuiescenceIsFinal`,
  `FinishedCpusAreInert`, `LoopFreeSystemsEnd`: the run ends, at the right time.
* `OneCpuBehavesAsTraced`: the two executors agree cycle by cycle on bundles
  whose memory operation can be taken out without changing the rest
  (`RestIsIndependent`): the whole bundle is legal and ready, no slot writes the
  guard of a later one (`GuardsAreSettled`), no transfer of control is active, and
  nothing writes r0 behind a load into r0. The last two cases take a third slot,
  and the instance has one (`DependentBundles`).
* `IssuesOnSchedule`, `ScoreboardWithinStaticBound`: a verified program without
  transfers of control issues bundle k in cycle k, and the scoreboard is never
  behind the verifier's table. `VerifiedBundlesAreLegal`: the check at run time
  refuses none of its bundles, branches or not. `StaticAddressesNeverPanic`: it
  panics for no address that was known statically.
* `CpusIssueOnSchedule`, `ScheduledAccessesAreServed`: two such programs keep
  their schedules although they share the bus, and the arbiter drops nothing.
  `AcquireSeesRelease`: an AcqLoad scheduled behind a RelStore reads what was
  released, within `worst_case_visibility`. `VerifiedPollingIsBounded`: a loop
  that polls (`WaitsFor`) and keeps its bus slots (`KeepsItsSlots`), while the
  other programs only go forward and store nothing after the release
  (`AwaitsRelease`), is over two rounds after the release; a Ret in the loop may
  have ended it, and the consumer with it. The instances have loops that break
  the premises and go on for ever.
* `AcceptsTheWellFormed`, `LabelsDenoteTheirBundles`, `EveryInstructionIsPlaced`:
  a body is accepted exactly when it is well formed, by a definition that looks
  at the whole text and not line by line; a label is the bundle behind it; no
  instruction gets lost. `AssembledProgramsAreInputs`: what comes out satisfies
  the assumptions of `CpuCore`, `System` and `VerifiedCore` about programs.
  `AcceptsSensibleHeaders`, `EveryDeclarationCounts`: the same for the header.
  The one kind of line that takes others along is a line `memory N` in an arch
  block of several lines: headers with it are left out of the first property, and
  the second one says that it costs nothing but fields of arch (`KeptFields`);
  the run `header_memory` shows what it costs.

Five runs show a statement of the documentation or of a comment that the code
contradicts; each is listed with its quotation under "findings" in
`PROJECT.json`:

| Run | What happens |
| --- | --- |
| `jump` | a jump beside a requested memory operation is not taken |
| `drift` | a request in another CPU's cycle is dropped and the CPU goes on |
| `modified` | the second store of a bundle bypasses the bus: its line becomes Modified while another CPU keeps a valid copy (`StoresInvalidatePeers`) |
| `header_memory` | the documented `memory N` on a line of its own in arch is taken for the beginning of section memory, which has no such field: the memory keeps its default size (`DeclaredMemoryCounts`) |
| `verified_stall` | a branch skips the bundles that the static schedule counts on: a verified program stalls |

Other places where the code does something else than one would expect are
premises of the properties above, or cases that the modules have as the code
has them:

* A store over a line boundary changes two lines and makes the transition of
  one, so a peer's copy of the second stays valid (`NoStraddle` of `DataCache`).
* Predicate operands are looked up in the GPR scoreboard and stall the bundle,
  and the trace blames the GPR (`HasUnreadySources`, `Stalls`).
* A bundle that stalls beside a requested memory operation is skipped, and a
  same-bundle read of the loaded register is not detected, as the load has been
  taken out (`RestIsIndependent`).
* A store switched on by its own bundle escapes the bounds check and is ignored
  (`AccessIsSettled`, `ExecStore`).
* The worst case of a load is miss plus writeback, which is no bound when a hit
  takes longer (`HitsAreNoWorse`, a premise of `ReadyWithinWorstCase` and of the
  schedules).
* A negative offset from r0 is no static address (`BundleStaticBoundsOk`) and
  wraps at run time.
* Operands of a Branch are hazards at run time and not in the verifier
  (`BranchesHaveNoOperands`); the assembler writes none.
* The verifier asks of a polling loop only that some other CPU has a RelStore;
  a loop whose length is no multiple of the number of CPUs polls out of its bus
  slots and its loads are dropped (`KeepsItsSlots`).
* A label may be spelled like a slot or an opcode, and is then replaced in every
  word of a line but the first (`Reserved`, `ResolvePart`).
* In the header, a line of one section that stands in another one is skipped
  without an error, closing braces end no section (`WellNested`), a line
  `memory N` of arch begins another section (`ArchMemoryLines`), and
  `topology { }` needs no field.

### Fairness

`trace_program` is a loop over `step_trace` and `run_until_quiescent` one over
`step_global`; both are sequential code that takes its next step as long as the
loop condition holds, so weak fairness of the step is what the code gives.
`TraceFairSpec` has it on `TraceNext`. `System!FairSpec` states it of the part
of a step that shows in `cycle` and `status`, which every call of `step_global`
that the loop makes changes.

## Proofs

Everything is proved for all values of the constants, from the assumptions
named in the modules (sizes are natural numbers, at least one CPU, the accesses
are in bounds, programs consist of syllables, a byte has a power of two of
values).

`MemoryProofs`: what a memory holds after a store is bytes, and what a load gives
is a word (`StoredIsMemory`, `LoadedIsAWord`); a load gives back what a store of
the same width has written, digit by digit (`LoadedAsStored`). Powers and sums are the recursive
functions `PowersOf` and `Total`; an induction over them, as over the slots and
the CPUs below, is a fact about a set of naturals (`NatSetInduction`), and
`RecursiveFunction` says that such a definition has a solution.

`CoherenceProofs`: `TypeCorrect`, `MsiFieldsAgreeAlways`,
`AtMostOneModifiedAlways`; `StoreTakesOwnershipAlways`,
`PeersOnlyLoseTheStoredLineAlways`, `MemoryChangesOnlyByTheOwnerAlways`.
`AtMostOneModified` is inductive with `TypeOK`: the store-commit transition
leaves the writer as the only holder of the stored line (`StoreAddsOneOwner`,
`StoreRemovesPeers`) and nothing else ever makes a line Modified
(`LoadAddsNoOwner`). Whether two addresses are in the same line is a question of
index and tag only, so the lemmas about one transition keep the divisions hidden
behind `IndexAndTag`. `DataImplementsCoherence` says that the history variable
only adds to a behaviour, and `ValidCopiesAreCurrentAlways` holds if no access
crosses a line boundary (`NoStraddle`). The inductive invariant is the property
itself with the types of `copy` and `Coherence`: a load fills a line with what
memory has, a store changes the line of its writer and memory in the same bytes
(`TouchedInLine`: they lie in that line), and takes the line from every other
cache. The arithmetic that connects an address with its line, index and tag is
in the lemmas from `AddressOfLine` to `BetweenInLine`.

`CpuProofs` says what the operators of `Cpu` do to any state. `IsCpu` fixes the
fields of a CPU, and that scoreboard and clock are numbers. `Effect` is all that
one syllable may do (`SyllableEffect`), `BundleEffect` all that the first slots
of a bundle may do, `StepCheckedEffect` the same for one step with its early
returns. The second part is about values: every opcode yields words
(`ExecSyllable` maps `CpuStates` to itself), where the bit operations are sums
over bits that stay below the power of two. The third part is the verifier: a
verified bundle is legal in any state (`StaticImpliesLegal`), a known address
stays inside (`KnownAddressIsInside`), the static latencies cover those of the
CPU (`StaticLatencyCovers`).

`CpuCoreProofs`: `CpuTypeCorrect`; `ReadyWithinWorstCaseAlways` and
`LinkFollowsACallAlways`, from the invariant that the CPU is one (`CpuInv`), with
`AfterSlots(n)` and `NextSlot` for the bundle that `step_trace` executes. A
register has the ready cycle that its one writer gave it, and no outcome of a load
is slower than a miss with a writeback (`WorstLatencyCovers`, where a hit is not).
`LinkFollowsACallAlways` needs that programs have fewer bundles than a word has
values, else the return address wraps. `SlotsAreParallelAlways`: by induction
over the slots (`ParallelUpTo`), up to slot n every register is as its one writer
among them leaves it. The step is that a slot finds its inputs as they were
before the bundle (`InputsAreUntouched`, from the legality check) and computes
the same from the same inputs (`SameInputsSameResult`, over all classes of
opcodes).

Of `Trace`: `StallsAreExplainedAlways`, `OutcomesExplainReadyCyclesAlways` and
`TraceIsCompleteAlways`. The log only grows at its end (`LogGrows`), and a run of
stalls lasts until the last result that the bundle waits for (`StallInv`). The
replay follows the execution slot by slot: after slot s it has the CPU after
slot s, but for the program counter, the clock and the scoreboard entry of r0,
which the bundle's end sets and nothing reads (`SlotReplays`, `Known`); the last
transfer of control in the event is the one that the bundle ends with
(`ControlReplays`). The invariant is `TraceIsComplete` with the types of the CPU,
as an event gives a value and not the computation that led to it.

Of verified programs (`VerifiedCore`): `VerifiedBundlesAreLegalAlways`,
`StaticAddressesNeverPanicAlways`, `IssuesOnScheduleAlways`,
`ScoreboardWithinStaticBoundAlways` and `StraightLineNeverStalls`. The first two
need no invariant beyond `CpuInv`. The schedule is inductive only together with
the scoreboard (`KeepsSchedule`): the CPU is in time because nothing is late,
and nothing is late because each bundle issued in its cycle; the link register
stays 0, so that a Ret can only halt.

`LatencyTableProofs`: `SetOverridesOneAnswer`, for every table and opcode: the
first entry of an opcode is the one that is replaced (`FirstIs`), so shadowed
entries stay shadowed. TLC evaluates it as an assumption of `MCCpuCore` on tables
of up to three entries over three opcodes.

`SystemProofs`, for any number of CPUs: `SystemTypeCorrect`,
`RequestsLostOnlyAfterDriftAlways`, `FinishedCpusAreInertAlways`,
`QuiescenceIsFinalAlways`, `CpusIssueOnScheduleAlways`,
`ScheduledAccessesAreServedAlways`, `AcquireSeesReleaseAlways`,
`VerifiedPollingIsBoundedAlways` and `ImplementsCoherenceAlways`. A call of
`step_global` is taken apart by its phases: `StepOfEffect` is one CPU, with or
without its memory operation, on any copy of the memory; `OneMoreCpu` is the
step of the induction over the CPUs that yields `AllSteppedEffect`;
`CommittedEffect` adds the granted operation; `CallCases` sums the call up.
`SysInv` (accepted programs, well-formed CPUs) is enough for the first
theorems, as a CPU on time owns the bus in the cycle of its memory operation
(`OnScheduleOwnsTheBus`). `QuiescenceIsFinal` is inductive with the clocks and the
copies of memory of the CPUs (`QuietInv`): only CPUs in step with the system are
left unchanged by another call. The schedule is inductive with the scoreboards
(`ScheduleInv`), as for one CPU; a load that the bus commits is one cycle on when
its latency counts, which the static latency covers. It is a statement about each
CPU whose own program only goes forward (`ScheduledCpu`), so that it also holds of
the other CPUs of a system in which one loops.

`ImplementsCoherenceAlways` is the refinement. In a disciplined system the
phases before the commit leave memory and caches alone (`Unmoved`,
`AllSteppedUnmoved`: what is left of a bundle has no active memory operation), so
that a call moves them by its commit only, and `LoadMoves` and `StoreMoves` are
`GrantLoad` and `GrantStore` of `Coherence`; the request is one that `Coherence`
allows because its address, width and bytes are typed (`GrantIsAnAccess`, from
`SystemTypeCorrect`). `DisciplinedSystemsAreCoherent` concludes that such a
system behaves as `MemorySide!Spec`, so the theorems of `CoherenceProofs` are
theorems about it.

`AcquireSeesReleaseAlways` is inductive as a statement about memory
(`ReleaseInv`): as long as no bundle up to the clock stores anything after a
release, memory holds at its address what the register of the producer still
holds. A call keeps it because every store that the bus commits is in the bundle
of the clock (`UndisturbedBundle`), the release itself is granted in its cycle
(`OnTimeIsServed`, `ReleaseIsServed`), and no bundle writes the register
(`CallKeeps`). The consumer's load is granted in its cycle too, and takes what
memory holds (`CallLoads`). That no CPU is past the clock (`BehindInv`) makes the
bundle that a CPU has just passed the one of the clock.

`VerifiedPollingIsBoundedAlways` is about a CPU that is not on the schedule any
more. Its invariant `PollInv` takes one loop, its producer and its release as a
record w (`Polling(w)`, facts about the programs; `LoopOf` finds w) and says what
holds while the consumer is in the loop or before it (`Pending`). `InRounds`
replaces the schedule: the consumer is behind the clock by whole rounds, so it
owns the bus for the same bundles as on the schedule, and what a bundle reads is
ready when the consumer comes to it in this round and in the next; hence it never
waits (`RoundIsReady`, `WrittenInTime`). `SeesRelease` keeps the released word in
memory (`NothingStored`: the stores left would be those of the loop, which has
none, or of bundles at the clock) and bounds the rounds: the bundle that polls was
at most one round behind the release when the consumer last went back, and a
consumer that has polled since has a word in its register, its test fails and its
Branch is not taken. `PolledWord` and `TestEndsTheLoop` follow these through the
slots of a bundle, with the poll taken out by the bus (`Ran`, `TestsFail`,
`BranchGoes`), and `StaysInLoop` says that any other way to be in the loop after a
call, a stall or a return, is closed. The property first had too weak premises:
the proof showed, and counterexamples of TLC confirmed, that a Ret may stop the
consumer in the loop, and that a third CPU with loops of its own may store over
the release. `PollInv` held in every state of the instance of `verified_system`.

`OneCpuProofs`: `OneCpuBehavesAsTracedAlways`, that a system of one CPU implements
`CpuCore` as far as `RestIsIndependent` holds. Between two calls the only CPU has
the clock and the memory of the system (`AloneInv`, with `SysInv` and `TypeOK`);
this is inductive for all programs, and without it the mapping would compare the
copy of a CPU with a memory that has moved on. In a call without a request the
CPU steps through the same slots and none of them is an access
(`TracedWithoutAccess`). In a call with one, `Beside(c, bundle, m, s, f, g)` relates
the CPU f after s slots of the whole bundle with the CPU g after s slots of the
rest: the same predicates, the same guards and operands in the slots to come,
and the same registers but for what the access of slot m has done to f. It is kept
slot by slot (`OtherSlot`, `AccessSlot`, `TracedBesideAtLast`), as the legality
check lets no slot read what an earlier one writes (`SlotsBehind`). The commit then
does to g what slot m did to f (`CommitOfRequest`): the load takes the same bytes
and is ready in the same cycle, the store writes the low bytes that the request
has cut off (`BytesOfRemainder`), and an address outside makes both panic. That
the two instances of every operator are the same, one with and one without
`Alone!`, is in the lemmas `AloneClasses` to `AloneChecks`.

`AssemblerProofs`: `AcceptsTheWellFormedAlways`, `LabelsDenoteTheirBundlesAlways`,
`EveryInstructionIsPlacedAlways` and `AssembledProgramsAreInputsAlways`, for any
number of files of any length. The right sides of the properties read the text as
a whole: a block is what is between two braces, a label's bundle is the number of
lines before it that start one. The invariant (`AssemblerInv`) says how far into that
the assembler is. While it reads (`ReadInv`), the open block, the bundles and the
labels are those of the first lines (`BlockRead`, `BundlesRead`), the labels up to
some line have their bundle and those behind it wait (`LabelsRead`); or a line
was out of place without ending the reading, and then it has left an instruction
that the emission will refuse (`Broken`). Then (`TextInv`) the text is well
structured and the bundles up to `at` are the resolved ones of the text. While
instructions are emitted (`EmitInv`), a slot holds the last of the emitted ones
that name it. The emission reaches the refused instruction, whichever it is, so
that `done` means well formed, and each action that fails has found a reason why
the text is not (`ReadingFails`, `UnknownRefused`, `BadRefused`). It is assumed
(`FilesAssumption`) that words have the values of their kind and lines the shape
that the loop over the lines makes of any text. `AssemblerInv` held in every
state of the instance of the run `assembler`.

The header has `AcceptsSensibleHeadersAlways` and `EveryDeclarationCountsAlways`,
for every header whose lines are in their sections (`WellNested`). Without a memory
line among the lines of arch it is accepted exactly when its declarations fit
together. The layout is the one that the declarations give, taken as sets without
their order; with a memory line in arch this is proved of everything but the fields
of arch, as the fields on and behind that line may be taken for those of memory
(`TakenFor`). By `HeaderInv`, what has been read is what the first lines declare
(`HeaderRead`): the last width, the tables of units, slots and aliases, of every
field the last value, and the field sections met. The code keeps the last section
word as the section and never leaves one at a closing brace; `SectionAround` shows
that for a line in its section that word is the one whose braces are around the
line, since the opening brace around it comes with that word or right behind it
(`OpenerFacts`), or else a memory line of arch before it (`PastMemory`). So a line
counts where it stands (`FieldsBelong`, one lemma per kind of line such as
`DeclareSlotRead`). A failure has a reason in the header as a whole:
`BadWidthRefused`, `BadFieldRefused`, `BadDeclarationRefused`, and
`SensibleIsComplete` for the checks at the end, where `AcceptedIsSensible` is the
converse. The depth of the braces is a recursive function on the lines (`Depth`),
about which the proofs need only its first value and its step.

Only model-checked: the liveness properties and `ENABLED`, which are beyond the
proof system. Every invariant, action property and refinement of a passing run is
stated by a theorem.

## Not modelled

* `CacheState::invalidate`: nothing calls it.
* The command lines and all printing, of states, traces and diagnostics: text.
* The placeholder units in `hw/mod.rs`: no executor runs them, `execute.rs` has
  the computations of every opcode.
* Default layouts, unit names and classes in `layout.rs`, and the variants and
  latencies of units that `asm.rs` reads and nothing uses: configuration data.
* Spelling in `asm.rs`: how a line is cut into words and how numbers and
  registers are written. The branch for an empty section name in the header is
  never reached and left out.
* The Verus specifications and proofs: ghost code beside the functions that the
  modules translate.

## Plan

1. Done: `Cache`, `SharedMemory`, `Bus`, `Coherence`, `DataCache`; `Cpu`,
   `CpuCore`, `Trace`, `System`; `Verifier`, `VerifiedCore`, `VerifiedSystem`;
   `ProcessorHeader`, `Assembler`; `LatencyTable`; proofs about the memory side,
   the CPU on its own and its trace, verified programs, the system for any number
   of CPUs with its refinements of `Coherence` and (one CPU) `CpuCore`, the
   latency table, and assembly files with their headers.
2. Left: nothing of what the proof system reaches; liveness stays with TLC.
