--------------------------- MODULE VerifiedSystem ---------------------------
(***************************************************************************)
(* What the static verifier promises of programs that share a bus: the     *)
(* system of module System against verify_system of module Verifier.       *)
(***************************************************************************)
EXTENDS System, Verifier

\* Programs that verify_system accepts and that only go forward, in a
\* configuration in which a hit takes no longer than a miss.
Scheduled ==
    /\ \A c \in Cpus : StraightLine(programs[c])
    /\ HitsAreNoWorse
    /\ SystemVerified(programs)

\* Every CPU of a scheduled system keeps the static schedule until it is done,
\* although they share the bus, the memory and the lines of their caches: its
\* program counter is the cycle.
CpusIssueOnSchedule ==
    Scheduled => \A c \in Cpus :
        Finished(cpus[c], programs[c]) \/ cpus[c].pc = cycle

\* On the static schedule the arbiter loses nothing: a CPU that goes past a
\* bundle whose memory operation is active has been granted it.
ScheduledAccessesAreServed ==
    [][Scheduled /\ Disciplined =>
         \A c \in Cpus : cpus'[c].pc # cpus[c].pc =>
            \A s \in ActiveSlots(cpus[c], NextBundle(c)) :
                NextBundle(c)[s].op \in MemoryOps => grant'.cpu = c /\ grant'.slot = s]_vars

-----------------------------------------------------------------------------
(* Passing a message: a RelStore in a bundle of one CPU, an AcqLoad of the *)
(* same address in a later bundle of another.                              *)

Unguarded(syl) == syl.pred = 0 /\ ~syl.neg

\* Bundle i of CPU d publishes its register r at the fixed address imm.
Publishes(d, i, r, imm) ==
    \E s \in DOMAIN Slots :
        /\ programs[d][i][s].op = "RelStore" /\ Unguarded(programs[d][i][s])
        /\ programs[d][i][s].src = <<0, r>> /\ programs[d][i][s].imm = imm

\* No CPU stores anything between the bundles i and j, and d keeps r.
Undisturbed(d, i, j, r) ==
    /\ \A e \in Cpus : \A k \in (i + 1 .. j) \cap DOMAIN programs[e] : \A s \in DOMAIN Slots :
          programs[e][k][s].op \notin Stores
    /\ \A k \in (i .. j) \cap DOMAIN programs[d] : \A s \in DOMAIN Slots :
          GprWriteDst(programs[d][k][s]) # r

\* An AcqLoad that is scheduled after a RelStore gets what was released: the
\* value that the producer still has in its register.  On the consumer's first
\* bus slot after it, the value is ready within worst_case_visibility.
AcquireSeesRelease ==
    [][Scheduled /\ Disciplined /\ status' = "running" =>
         \A c \in Cpus : \A s \in DOMAIN Slots :
            LET j   == cpus[c].pc + 1
                syl == programs[c][j][s]
            IN  /\ ~Finished(cpus[c], programs[c])
                /\ syl.op = "AcqLoad" /\ Unguarded(syl) /\ syl.src[1] = 0
                /\ syl.dst \in GprIndices \ {0}
                => \A d \in Cpus \ {c} : \A i \in 1 .. j - 1 : \A r \in GprIndices :
                     /\ i \in DOMAIN programs[d] /\ cpus[d].pc >= i
                     /\ Publishes(d, i, r, syl.imm) /\ Undisturbed(d, i, j, r)
                     => /\ cpus'[c].gprs[syl.dst] = ReadGpr(cpus[d], r)
                        /\ j - i < NumCpus
                             => cpus'[c].ready[syl.dst] <= i + WorstCaseVisibility]_vars

-----------------------------------------------------------------------------
(* Polling: a loop back from bundle n that waits for the word at imm. *)

\* The rounds of the loop have as many bundles as its Branch goes back.
PollLength(program, n) ==
    Max({n - AsWord(program[n][s].imm) :
            s \in {t \in DOMAIN program[n] : program[n][t].op = "Branch"}})

PollLoop(program, n) == n - PollLength(program, n) + 1 .. n

\* The program without the way back.
Unrolled(program, n) ==
    [program EXCEPT ![n] =
        [s \in DOMAIN program[n] |->
            IF program[n][s].op = "Branch" THEN Nop ELSE program[n][s]]]

\* What the verifier checks for the bundles in their order, also for the way
\* back: every round begins in the same bus slot and what a bundle writes is
\* ready where the next round reads it.  Nothing else transfers control.
KeepsItsSlots(program, n) ==
    /\ PollLength(program, n) % NumCpus = 0
    /\ StraightLine(Unrolled(program, n))
    /\ \A a, b \in PollLoop(program, n) : a <= b =>
         \A s, t \in DOMAIN Slots :
            GprWriteDst(program[b][t]) \in TimedReads(program[a][s]) =>
                StaticLatency(program[b][t].op) <= PollLength(program, n) - (b - a)

\* The writes of register r or predicate p in the loop.
Writes(program, n, r, p) ==
    {syl \in UNION {Range(program[b]) : b \in PollLoop(program, n)} :
        GprWriteDst(syl) = r \/ (syl.op \in WritesPred /\ syl.dst = p)}

\* A round loads the word with AcqLoad, then compares it with 0, then goes back
\* if it is 0; it stores nothing.
WaitsFor(program, n, imm) ==
    \E r \in GprIndices \ {0}, p \in PredIndices \ {0} :
        LET poll == Op("AcqLoad", r, 0, NoReg, imm)
            test == Op("CmpEq", p, r, 0, 0)
            loop == PollLoop(program, n)
        IN  /\ \E a, b \in loop :
                 a < b /\ b < n /\ poll \in Range(program[a]) /\ test \in Range(program[b])
            /\ Writes(program, n, r, p) = {poll, test}
            /\ \A s \in DOMAIN program[n] :
                 program[n][s].op \in ControlOps =>
                     program[n][s] = Guarded(p, Op("Branch", NoReg, NoReg, NoReg,
                                                   n - PollLength(program, n)))
            /\ \A b \in loop : \A s \in DOMAIN Slots : program[b][s].op \notin Stores

\* The loop up to bundle n of CPU c waits for what bundle i of CPU d releases
\* from register r at imm, in a verified system whose other programs only go
\* forward; nothing is stored after the release, and d keeps r.
AwaitsRelease(c, n, d, i, r, imm) ==
    /\ Publishes(d, i, r, imm)
    /\ \A e \in Cpus \ {c} : StraightLine(programs[e])
    /\ KeepsItsSlots(programs[c], n)
    /\ WaitsFor(programs[c], n, imm)
    /\ \A e \in Cpus : Undisturbed(d, i, Len(programs[e]), r)
    /\ HitsAreNoWorse
    /\ Disciplined /\ SystemVerified(programs)

\* "A program that uses AcqLoad/RelStore either passes verification with a
\* bounded polling loop, or is rejected at compile time"
\* (docs/processor_layout_task_breakdown.md).  If the loop keeps its slots the
\* verified system has that bound: two rounds after the release, or after the
\* consumer has come to the loop, the consumer has left it (a Ret in the loop
\* may have stopped it there).
VerifiedPollingIsBounded ==
    \A c, d \in Cpus : c # d =>
        \A n \in DOMAIN programs[c] : \A i \in DOMAIN programs[d] :
            /\ EndsPollingLoop(programs[c], n)
            /\ cycle > Max({i, n - PollLength(programs[c], n)}) + 2 * PollLength(programs[c], n)
            /\ cpus[d].pc >= i
            /\ \E r \in GprIndices, imm \in Addresses :
                 ReadGpr(cpus[d], r) # 0 /\ AwaitsRelease(c, n, d, i, r, imm)
            => cpus[c].pc >= n \/ cpus[c].halted
=============================================================================
