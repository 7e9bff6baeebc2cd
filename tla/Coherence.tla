----------------------------- MODULE Coherence -----------------------------
(***************************************************************************)
(* What the memory side of the simulator promises, without the processors: *)
(* the round-robin bus, the shared memory behind it and one private cache  *)
(* per CPU, kept coherent by the store-commit transition (System::         *)
(* step_global, Bus::arbitrate and System::commit_bus_request in           *)
(* src/src/system.rs).  Every cycle the owner of the bus may have one load *)
(* or store committed; which one is left open here.  Module System has the *)
(* processors that choose it and is checked to implement this module.      *)
(***************************************************************************)
EXTENDS Cache, SharedMemory, Bus

CONSTANTS
    Accesses,       \* the <<address, width>> pairs that programs access
    MaxCycle        \* bound of the explored cycles, for TLC

AccessWidths == {1, 2, 4, 8}

ASSUME CoherenceAssumption ==
    /\ Accesses \subseteq {a \in Addresses \X AccessWidths : InBounds(a[1], a[2])}
    /\ MaxCycle \in Nat

NoReq == [kind |-> "none"]

\* The requests that a CPU can make for an access.
LoadReqsFor(access) ==
    [kind : {"load"}, cpu : Cpus, address : {access[1]}, width : {access[2]}]

\* The value of a store is the bytes it writes.
StoreReqsFor(access) ==
    [kind : {"store"}, cpu : Cpus, address : {access[1]}, width : {access[2]},
     data : [0 .. access[2] - 1 -> Bytes]]

LoadReqs == UNION {LoadReqsFor(a) : a \in Accesses}

StoreReqs == UNION {StoreReqsFor(a) : a \in Accesses}

VARIABLES
    caches,     \* CpuState.cache of every CPU
    memory,     \* System.memory
    cycle,      \* System.cycle
    grant       \* BusEvent.granted of the latest bus event

vars == <<caches, memory, cycle, grant>>

TypeOK ==
    /\ caches \in [Cpus -> CacheState]
    /\ memory \in Memories
    /\ cycle \in Nat
    /\ grant \in LoadReqs \cup StoreReqs \cup {NoReq}

Init ==
    /\ caches = [cpu \in Cpus |-> NewCache]
    /\ memory = ZeroMemory
    /\ cycle = 0
    /\ grant = NoReq

-----------------------------------------------------------------------------

NextCycle ==
    /\ cycle < MaxCycle
    /\ cycle' = cycle + 1

\* commit_bus_request for a load of the bus owner: only its own cache moves.
GrantLoad(req) ==
    /\ NextCycle
    /\ req.cpu = BusOwner(cycle)
    /\ grant' = req
    /\ caches' = [caches EXCEPT ![req.cpu] = AccessLoad(@, req.address)]
    /\ UNCHANGED memory

\* Faulty: the store is not held back until its CPU owns the bus.
GrantStoreToAnyone(req) ==
    /\ NextCycle
    /\ grant' = req
    /\ caches' = [cpu \in Cpus |->
                    StoreCommitTransition(caches[cpu], req.address, cpu = req.cpu)]
    /\ memory' = StoreBytes(memory, req.address, req.data)

\* commit_bus_request for a store: every cache makes its transition.
GrantStore(req) ==
    /\ NextCycle
    /\ req.cpu = BusOwner(cycle)
    /\ grant' = req
    /\ caches' = [cpu \in Cpus |->
                    StoreCommitTransition(caches[cpu], req.address, cpu = req.cpu)]
    /\ memory' = StoreBytes(memory, req.address, req.data)

\* The owner has no request: those of the others are dropped, not kept for later.
GrantNone ==
    /\ NextCycle
    /\ grant' = NoReq
    /\ UNCHANGED <<caches, memory>>

\* No CPU made progress: the event is logged and the cycle stays.
Quiescent ==
    /\ grant' = NoReq
    /\ UNCHANGED <<caches, memory, cycle>>

Next ==
    \/ \E a \in Accesses : grant' \in LoadReqsFor(a) /\ GrantLoad(grant')
    \/ \E a \in Accesses : grant' \in StoreReqsFor(a) /\ GrantStore(grant')
    \/ GrantNone
    \/ Quiescent

Spec == Init /\ [][Next]_vars

-----------------------------------------------------------------------------

\* The three fields of a line that encode its MSI state never disagree: a
\* dirty line is exactly a Modified one and a valid line exactly one that is
\* not Invalid, so peek_outcome (which reads valid and dirty) charges the
\* writeback for the lines that at_most_one_modified (which reads msi) counts.
MsiFieldsAgree ==
    \A cpu \in Cpus, k \in LineIndices :
        LET line == caches[cpu][k]
        IN  /\ line.valid <=> line.msi # "Invalid"
            /\ line.dirty <=> line.msi = "Modified"

\* At most one cache holds the line of an address in Modified, for any number
\* of CPUs (at_most_one_modified in system.rs; the repository proves it for
\* one store commit of two CPUs and leaves N CPUs and all cycles open).
AtMostOneModified ==
    \A addr \in Addresses : AtMostOneModifiedFor(caches, addr)

Stored == cycle' # cycle /\ grant'.kind = "store"

\* A committed store leaves its writer as the only cache with a valid copy of
\* the stored line, in Modified; no other CPU can go on hitting its old copy.
StoreTakesOwnership ==
    [][Stored /\ NLines > 0 =>
         \A cpu \in Cpus :
            IF cpu = grant'.cpu
            THEN ModifiedFor(caches'[cpu], grant'.address)
            ELSE ~Holds(caches'[cpu], grant'.address)]_vars

\* A cache changes without its CPU being granted the bus only by losing the
\* line that another CPU stores; a peer's store never disturbs other lines,
\* and never makes a line of somebody else valid or dirty.
PeersOnlyLoseTheStoredLine ==
    [][\A cpu \in Cpus, k \in LineIndices :
         caches'[cpu][k] # caches[cpu][k] =>
            \/ grant'.cpu = cpu
            \/ /\ Stored
               /\ k = CacheIndex(grant'.address)
               /\ Holds(caches[cpu], grant'.address)
               /\ ~caches'[cpu][k].valid /\ ~caches'[cpu][k].dirty]_vars

\* Memory changes only where the store of the bus owner of this cycle writes.
MemoryChangesOnlyByTheOwner ==
    [][\A a \in Addresses : memory'[a] # memory[a] =>
         /\ Stored
         /\ grant'.cpu = BusOwner(cycle)
         /\ a \in Touched(grant'.address, grant'.width)]_vars
=============================================================================
