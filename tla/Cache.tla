------------------------------- MODULE Cache -------------------------------
(***************************************************************************)
(* The private L1 data cache of one CPU (src/src/cache.rs): a direct-      *)
(* mapped array of lines that records which line of the shared memory was  *)
(* accessed last at each index and in which MSI state.  A line holds no    *)
(* data: the cache decides latencies and the coherence state only.         *)
(*                                                                         *)
(* Latencies are u32 with saturating addition in the code; the model adds  *)
(* natural numbers, i.e. it covers configurations whose sums fit u32.      *)
(***************************************************************************)
EXTENDS Integers

CONSTANTS
    LineBytes,          \* CacheConfig.line_bytes
    CapacityBytes,      \* CacheConfig.capacity_bytes
    HitLatency,         \* CacheConfig.hit_latency
    MissLatency,        \* CacheConfig.miss_latency
    WritebackLatency    \* CacheConfig.writeback_latency

\* System::new does not call CacheConfig::validate, so zero sizes and a
\* capacity that is not a multiple of the line size are configurations too.
ASSUME CacheAssumption ==
    /\ LineBytes \in Nat
    /\ CapacityBytes \in Nat
    /\ HitLatency \in Nat
    /\ MissLatency \in Nat
    /\ WritebackLatency \in Nat

MsiStates == {"Invalid", "Shared", "Modified"}

CacheOutcomes == {"Hit", "Miss", "MissDirty"}

CacheLine == [tag : Nat, valid : BOOLEAN, dirty : BOOLEAN, msi : MsiStates]

NLines == IF LineBytes = 0 THEN 0 ELSE CapacityBytes \div LineBytes

LineIndices == 0 .. NLines - 1

CacheState == [LineIndices -> CacheLine]

InvalidLine(tag) ==
    [tag |-> tag, valid |-> FALSE, dirty |-> FALSE, msi |-> "Invalid"]

NewCache == [k \in LineIndices |-> InvalidLine(0)]

CacheIndex(addr) == IF NLines = 0 THEN 0 ELSE (addr \div LineBytes) % NLines

\* Faulty: the index is taken off instead of divided out.
CacheTagByDifference(addr) == IF NLines = 0 THEN 0 ELSE (addr \div LineBytes) - NLines

CacheTag(addr) == IF NLines = 0 THEN 0 ELSE (addr \div LineBytes) \div NLines

-----------------------------------------------------------------------------

\* The line at addr's index is valid and is the line of addr.
Holds(lines, addr) ==
    /\ CacheIndex(addr) \in LineIndices
    /\ lines[CacheIndex(addr)].valid
    /\ lines[CacheIndex(addr)].tag = CacheTag(addr)

ModifiedFor(lines, addr) ==
    /\ Holds(lines, addr)
    /\ lines[CacheIndex(addr)].msi = "Modified"

\* Another valid line, written since it was filled, is in addr's place.
EvictsDirty(lines, addr) ==
    /\ CacheIndex(addr) \in LineIndices
    /\ lines[CacheIndex(addr)].valid
    /\ lines[CacheIndex(addr)].dirty
    /\ ~Holds(lines, addr)

PeekOutcome(lines, addr) ==
    IF Holds(lines, addr) THEN "Hit"
    ELSE IF EvictsDirty(lines, addr) THEN "MissDirty" ELSE "Miss"

\* Faulty: the victim of a dirty miss is written back twice.
OutcomeLatencyTwoWritebacks(outcome) ==
    [Hit       |-> HitLatency,
     Miss      |-> MissLatency,
     MissDirty |-> MissLatency + 2 * WritebackLatency][outcome]

OutcomeLatency(outcome) ==
    [Hit       |-> HitLatency,
     Miss      |-> MissLatency,
     MissDirty |-> MissLatency + WritebackLatency][outcome]

CacheWorstCaseLoadLatency == MissLatency + WritebackLatency

\* The configurations in which worst_case_load_latency is the worst case.
HitsAreNoWorse == HitLatency <= CacheWorstCaseLoadLatency

\* A cache without lines ignores every write of a line.
SetLine(lines, addr, line) ==
    IF CacheIndex(addr) \in LineIndices
    THEN [lines EXCEPT ![CacheIndex(addr)] = line]
    ELSE lines

\* Faulty: the dirty bit is never reset.
FilledLineStaysDirty(addr, s) ==
    [tag |-> CacheTag(addr), valid |-> s # "Invalid", dirty |-> TRUE, msi |-> s]

\* The line that an access in MSI state s installs.
FilledLine(addr, s) ==
    [tag   |-> CacheTag(addr),
     valid |-> s # "Invalid",
     dirty |-> s = "Modified",
     msi   |-> s]

AccessLoad(lines, addr) == SetLine(lines, addr, FilledLine(addr, "Shared"))

AccessStore(lines, addr) == SetLine(lines, addr, FilledLine(addr, "Modified"))

\* Faulty: the peers keep their copies.
StoreCommitForgetsPeers(lines, addr, isWriter) ==
    IF isWriter THEN AccessStore(lines, addr) ELSE lines

\* Faulty: the peers are downgraded, not invalidated.
StoreCommitDowngradesPeers(lines, addr, isWriter) ==
    IF isWriter THEN AccessStore(lines, addr)
    ELSE IF Holds(lines, addr) THEN AccessLoad(lines, addr) ELSE lines

\* Faulty: only a Modified copy is invalidated.
StoreCommitSparesSharedPeers(lines, addr, isWriter) ==
    IF isWriter THEN AccessStore(lines, addr)
    ELSE IF ModifiedFor(lines, addr)
         THEN SetLine(lines, addr, InvalidLine(CacheTag(addr)))
         ELSE lines

\* Faulty: the peer's line is invalidated whatever its tag.
StoreCommitIgnoresTags(lines, addr, isWriter) ==
    IF isWriter THEN AccessStore(lines, addr)
    ELSE SetLine(lines, addr, InvalidLine(CacheTag(addr)))

\* The transition of one cache when a store is committed on the bus: the
\* writer's line becomes Modified, a peer that holds the line loses it.
StoreCommitTransition(lines, addr, isWriter) ==
    IF isWriter THEN AccessStore(lines, addr)
    ELSE IF Holds(lines, addr)
         THEN SetLine(lines, addr, InvalidLine(CacheTag(addr)))
         ELSE lines

\* spec_at_most_one_modified_cache_states for one address.
AtMostOneModifiedFor(caches, addr) ==
    \A i, j \in DOMAIN caches :
        ModifiedFor(caches[i], addr) /\ ModifiedFor(caches[j], addr) => i = j
=============================================================================
