--------------------------- MODULE CoherenceProofs ---------------------------
(***************************************************************************)
(* Proofs about Coherence and DataCache for every number of CPUs, every    *)
(* cache geometry and every memory size: the three fields of a line agree, *)
(* at most one cache holds a line in Modified, and, if no access straddles *)
(* two lines, a valid line always has the bytes that memory has.           *)
(***************************************************************************)
EXTENDS DataCache, MemoryProofs

\* The facts about the constants that every proof below needs.
LEMMA ConstantFacts ==
    /\ NLines \in Nat
    /\ NumCpus \in Nat /\ NumCpus > 0
    /\ ByteMod \in Nat /\ ByteMod > 0
    /\ MemBytes \in Nat
    /\ 0 \in Bytes
  BY LinesAreANumber, BusAssumption, MemoryAssumption DEF Bytes

-----------------------------------------------------------------------------
(* What one cache operation does to one cache. *)

\* The fields of one line agree on its MSI state.
LineAgrees(line) ==
    /\ line.valid <=> line.msi # "Invalid"
    /\ line.dirty <=> line.msi = "Modified"

LEMMA InstalledLineAgrees ==
    ASSUME NEW addr, NEW s \in MsiStates, NEW tag
    PROVE  LineAgrees(FilledLine(addr, s)) /\ LineAgrees(InvalidLine(tag))
  BY DEF LineAgrees, FilledLine, InvalidLine, MsiStates

LEMMA AccessAgrees ==
    ASSUME NEW lines \in CacheState, NEW addr \in Nat, NEW k \in LineIndices,
           LineAgrees(lines[k])
    PROVE  /\ LineAgrees(AccessLoad(lines, addr)[k])
           /\ \A isWriter \in BOOLEAN :
                LineAgrees(StoreCommitTransition(lines, addr, isWriter)[k])
  <1>1. LineAgrees(FilledLine(addr, "Shared"))
    BY InstalledLineAgrees DEF MsiStates
  <1>2. LineAgrees(FilledLine(addr, "Modified"))
    BY InstalledLineAgrees DEF MsiStates
  <1>3. LineAgrees(InvalidLine(CacheTag(addr)))
    BY InstalledLineAgrees DEF MsiStates
  <1>4. ASSUME NEW line, LineAgrees(line)
        PROVE  LineAgrees(SetLine(lines, addr, line)[k])
    BY <1>4 DEF SetLine, CacheState
  <1> QED
    BY <1>1, <1>2, <1>3, <1>4 DEF AccessLoad, AccessStore, StoreCommitTransition

\* A load makes no line Modified.
LEMMA LoadAddsNoOwner ==
    ASSUME NEW lines \in CacheState, NEW a, NEW b,
           ModifiedFor(AccessLoad(lines, a), b)
    PROVE  ModifiedFor(lines, b)
  BY DEF ModifiedFor, Holds, AccessLoad, SetLine, FilledLine, CacheState

\* Two addresses in the same cache line.
SameLine(a, b) == CacheIndex(a) = CacheIndex(b) /\ CacheTag(a) = CacheTag(b)

\* A store makes its writer the owner of the stored line and of no other.
LEMMA StoreAddsOneOwner ==
    ASSUME NEW lines \in CacheState, NEW a, NEW b,
           ModifiedFor(StoreCommitTransition(lines, a, TRUE), b)
    PROVE  SameLine(a, b) \/ ModifiedFor(lines, b)
  BY DEF ModifiedFor, Holds, StoreCommitTransition, AccessStore, SetLine,
         FilledLine, CacheState, SameLine

\* A store takes the stored line from a peer and gives it nothing.
LEMMA StoreRemovesPeers ==
    ASSUME NEW lines \in CacheState, NEW a, NEW b,
           ModifiedFor(StoreCommitTransition(lines, a, FALSE), b)
    PROVE  ~SameLine(a, b) /\ ModifiedFor(lines, b)
  BY DEF ModifiedFor, Holds, StoreCommitTransition, SetLine, InvalidLine,
         CacheState, SameLine

-----------------------------------------------------------------------------
(* What one granted request does to the memory side. *)

LEMMA LoadReqFacts ==
    ASSUME NEW req \in LoadReqs
    PROVE  /\ req.cpu \in Cpus /\ req.address \in Nat /\ req.kind = "load"
  BY CoherenceAssumption DEF LoadReqs, LoadReqsFor, Addresses

LEMMA StoreReqAccess ==
    ASSUME NEW req \in StoreReqs
    PROVE  \E a \in Accesses :
             /\ a[1] \in Nat /\ a[2] \in AccessWidths
             /\ req.cpu \in Cpus /\ req.kind = "store"
             /\ req.address = a[1] /\ req.width = a[2]
             /\ req.data \in [0 .. a[2] - 1 -> Bytes]
  <1>1. PICK a \in Accesses : req \in StoreReqsFor(a)
    BY DEF StoreReqs
  <1>2. a[1] \in Nat /\ a[2] \in AccessWidths
    BY CoherenceAssumption DEF Addresses
  <1>3. /\ req.cpu \in Cpus /\ req.kind = "store"
        /\ req.address = a[1] /\ req.width = a[2]
        /\ req.data \in [0 .. a[2] - 1 -> Bytes]
    BY <1>1 DEF StoreReqsFor
  <1> QED
    BY <1>2, <1>3

LEMMA StoreReqFacts ==
    ASSUME NEW req \in StoreReqs
    PROVE  /\ req.cpu \in Cpus /\ req.address \in Nat /\ req.kind = "store"
           /\ req.width \in AccessWidths
           /\ req.data \in [0 .. req.width - 1 -> Bytes]
  BY StoreReqAccess

LEMMA StoreBytesType ==
    ASSUME NEW mem \in Memories, NEW addr \in Nat, NEW w \in Nat,
           NEW data \in [0 .. w - 1 -> Bytes]
    PROVE  StoreBytes(mem, addr, data) \in Memories
  BY DEF StoreBytes, ByteAfter, Memories

\* One step of the memory side, whatever request it serves.
LEMMA StepCases ==
    ASSUME [Next]_vars
    PROVE  \/ \E req \in LoadReqs : GrantLoad(req)
           \/ \E req \in StoreReqs : GrantStore(req)
           \/ UNCHANGED <<caches, memory>> /\ grant' = NoReq
              /\ cycle' \in {cycle, cycle + 1}
           \/ UNCHANGED vars
  <1>1. ASSUME NEW a \in Accesses, grant' \in LoadReqsFor(a), GrantLoad(grant')
        PROVE  \E req \in LoadReqs : GrantLoad(req)
    BY <1>1 DEF LoadReqs
  <1>2. ASSUME NEW a \in Accesses, grant' \in StoreReqsFor(a), GrantStore(grant')
        PROVE  \E req \in StoreReqs : GrantStore(req)
    BY <1>2 DEF StoreReqs
  <1> QED
    BY <1>1, <1>2 DEF Next, vars, GrantNone, Quiescent, NextCycle

-----------------------------------------------------------------------------

\* Every reachable state has the declared shape, whatever the constants.
THEOREM TypeCorrect == Spec => []TypeOK
  <1>1. Init => TypeOK
    <2> SUFFICES ASSUME Init PROVE TypeOK
      OBVIOUS
    <2>1. InvalidLine(0) \in CacheLine
      BY DEF InvalidLine, CacheLine, MsiStates
    <2>2. caches \in [Cpus -> CacheState]
      BY <2>1 DEF Init, NewCache, CacheState
    <2>3. memory \in Memories
      BY ConstantFacts DEF Init, ZeroMemory, Memories
    <2> QED
      BY <2>2, <2>3 DEF Init, TypeOK
  <1>2. TypeOK /\ [Next]_vars => TypeOK'
    <2> SUFFICES ASSUME TypeOK, [Next]_vars PROVE TypeOK'
      OBVIOUS
    <2>1. ASSUME NEW req \in LoadReqs, GrantLoad(req) PROVE TypeOK'
      <3>1. AccessLoad(caches[req.cpu], req.address) \in CacheState
        BY AccessType, LoadReqFacts DEF TypeOK
      <3> QED
        BY <2>1, <3>1, LoadReqFacts DEF TypeOK, GrantLoad, NextCycle
    <2>2. ASSUME NEW req \in StoreReqs, GrantStore(req) PROVE TypeOK'
      <3>1. ASSUME NEW cpu \in Cpus
            PROVE  StoreCommitTransition(caches[cpu], req.address, cpu = req.cpu)
                     \in CacheState
        BY AccessType, StoreReqFacts DEF TypeOK
      <3>2. caches' \in [Cpus -> CacheState]
        BY <2>2, <3>1 DEF GrantStore
      <3>3. memory' \in Memories
        BY <2>2, StoreReqFacts, StoreBytesType DEF GrantStore, TypeOK, AccessWidths
      <3> QED
        BY <2>2, <3>2, <3>3 DEF TypeOK, GrantStore, NextCycle
    <2> QED
      BY <2>1, <2>2, StepCases DEF TypeOK, vars
  <1> QED
    BY <1>1, <1>2, PTL DEF Spec

\* The valid, dirty and msi fields of a line never disagree (the three fields
\* that access, store_commit_line_exec_model and CacheState::new write).
THEOREM MsiFieldsAgreeAlways == Spec => []MsiFieldsAgree
  <1> DEFINE Inv == \A cpu \in Cpus, k \in LineIndices : LineAgrees(caches[cpu][k])
  <1>1. Init => Inv
    BY DEF Init, NewCache, InvalidLine, LineAgrees
  <1>2. TypeOK /\ Inv /\ [Next]_vars => Inv'
    <2> SUFFICES ASSUME TypeOK, Inv, [Next]_vars,
                        NEW cpu \in Cpus, NEW k \in LineIndices
                 PROVE  LineAgrees(caches'[cpu][k])
      OBVIOUS
    <2>1. caches[cpu] \in CacheState /\ LineAgrees(caches[cpu][k])
      BY DEF TypeOK
    <2>2. CASE \E req \in LoadReqs : GrantLoad(req)
      <3>1. PICK req \in LoadReqs : GrantLoad(req)
        BY <2>2
      <3>2. \/ caches'[cpu] = caches[cpu]
            \/ caches'[cpu] = AccessLoad(caches[cpu], req.address)
        BY <3>1, LoadReqFacts DEF GrantLoad, TypeOK
      <3> QED
        BY <2>1, <3>2, AccessAgrees, LoadReqFacts
    <2>3. CASE \E req \in StoreReqs : GrantStore(req)
      <3>1. PICK req \in StoreReqs : GrantStore(req)
        BY <2>3
      <3>2. caches'[cpu] =
              StoreCommitTransition(caches[cpu], req.address, cpu = req.cpu)
        BY <3>1 DEF GrantStore
      <3> QED
        BY <2>1, <3>2, AccessAgrees, StoreReqFacts
    <2> QED
      BY <2>1, <2>2, <2>3, StepCases DEF vars
  <1>3. Inv => MsiFieldsAgree
    BY DEF LineAgrees, MsiFieldsAgree
  <1> QED
    BY <1>1, <1>2, <1>3, TypeCorrect, PTL DEF Spec

\* The invariant behind at_most_one_modified, for every number of CPUs, over
\* every address a program can form rather than those of the memory only.
OneOwner ==
    \A i, j \in Cpus : \A addr \in Nat :
        ModifiedFor(caches[i], addr) /\ ModifiedFor(caches[j], addr) => i = j

\* At most one cache holds a line in Modified at any cycle, for any number of
\* CPUs: the N-CPU, all-cycles form of lemma_two_cpu_store_commit_preserves_
\* msi_invariant (src/src/cache.rs), which docs/adr/0004 leaves open.
THEOREM AtMostOneModifiedAlways == Spec => []AtMostOneModified
  <1>1. Init => OneOwner
    BY DEF Init, OneOwner, NewCache, InvalidLine, ModifiedFor, Holds
  <1>2. TypeOK /\ OneOwner /\ [Next]_vars => OneOwner'
    <2> SUFFICES ASSUME TypeOK, OneOwner, [Next]_vars,
                        NEW i \in Cpus, NEW j \in Cpus, NEW addr \in Nat,
                        ModifiedFor(caches'[i], addr),
                        ModifiedFor(caches'[j], addr)
                 PROVE  i = j
      BY DEF OneOwner
    <2>1. caches[i] \in CacheState /\ caches[j] \in CacheState
      BY DEF TypeOK
    <2>2. CASE \E req \in LoadReqs : GrantLoad(req)
      <3>1. PICK req \in LoadReqs : GrantLoad(req)
        BY <2>2
      <3>2. ASSUME NEW c \in Cpus, ModifiedFor(caches'[c], addr)
            PROVE  ModifiedFor(caches[c], addr)
        <4>1. caches[c] \in CacheState
          BY DEF TypeOK
        <4>2. \/ caches'[c] = caches[c]
              \/ caches'[c] = AccessLoad(caches[c], req.address)
          BY <3>1, LoadReqFacts DEF GrantLoad, TypeOK
        <4> QED
          BY <3>2, <4>1, <4>2, LoadAddsNoOwner
      <3> QED
        BY <3>2 DEF OneOwner
    <2>3. CASE \E req \in StoreReqs : GrantStore(req)
      <3>1. PICK req \in StoreReqs : GrantStore(req)
        BY <2>3
      <3>2. ASSUME NEW c \in Cpus, c # req.cpu, ModifiedFor(caches'[c], addr)
            PROVE  ~SameLine(req.address, addr) /\ ModifiedFor(caches[c], addr)
        <4>1. caches'[c] = StoreCommitTransition(caches[c], req.address, FALSE)
          BY <3>1, <3>2 DEF GrantStore
        <4>2. caches[c] \in CacheState
          BY DEF TypeOK
        <4> QED
          BY <3>2, <4>1, <4>2, StoreRemovesPeers
      <3>3. ASSUME NEW c \in Cpus, c = req.cpu, ModifiedFor(caches'[c], addr)
            PROVE  SameLine(req.address, addr) \/ ModifiedFor(caches[c], addr)
        <4>1. caches'[c] = StoreCommitTransition(caches[c], req.address, TRUE)
          BY <3>1, <3>3 DEF GrantStore
        <4>2. caches[c] \in CacheState
          BY DEF TypeOK
        <4> QED
          BY <3>3, <4>1, <4>2, StoreAddsOneOwner
      <3> QED
        BY <3>2, <3>3 DEF OneOwner
    <2> QED
      BY <2>1, <2>2, <2>3, StepCases DEF OneOwner, vars
  <1>3. TypeOK /\ OneOwner => AtMostOneModified
    BY ConstantFacts DEF TypeOK, OneOwner, AtMostOneModified, AtMostOneModifiedFor, Addresses
  <1> QED
    BY <1>1, <1>2, <1>3, TypeCorrect, PTL DEF Spec

-----------------------------------------------------------------------------
(* What a step may never do. *)

\* The index of an address is a line of a cache that has lines.
LEMMA IndexInRange ==
    ASSUME NEW addr \in Nat, NLines > 0
    PROVE  CacheIndex(addr) \in LineIndices
  <1>1. NLines \in Nat /\ NLines > 0
    BY ConstantFacts
  <1>2. LineBytes \in Nat /\ LineBytes > 0
    BY <1>1, CacheAssumption DEF NLines
  <1>3. addr \div LineBytes \in Nat
    BY <1>2, Z3
  <1>4. (addr \div LineBytes) % NLines \in 0 .. NLines - 1
    BY <1>1, <1>3, Z3
  <1> QED
    BY <1>1, <1>4 DEF CacheIndex, LineIndices

\* Writer and peer after a store, in a cache that has lines.
LEMMA WriterOwnsStoredLine ==
    ASSUME NEW lines \in CacheState, NEW a, CacheIndex(a) \in LineIndices
    PROVE  /\ ModifiedFor(StoreCommitTransition(lines, a, TRUE), a)
           /\ ~Holds(StoreCommitTransition(lines, a, FALSE), a)
  BY DEF StoreCommitTransition, AccessStore, SetLine, FilledLine, InvalidLine,
         ModifiedFor, Holds, CacheState

\* A granted store step is a GrantStore and no other disjunct of Next.
LEMMA StoredCases ==
    ASSUME TypeOK, [Next]_vars, Stored
    PROVE  \E req \in StoreReqs : GrantStore(req)
  <1>1. ASSUME NEW req \in LoadReqs, GrantLoad(req) PROVE FALSE
    BY <1>1, LoadReqFacts DEF GrantLoad, Stored
  <1>2. ~(grant' = NoReq)
    BY DEF Stored, NoReq
  <1>3. ~UNCHANGED vars
    BY DEF Stored, vars
  <1> QED
    BY <1>1, <1>2, <1>3, StepCases

\* A committed store leaves its writer, and nobody else, with the stored line,
\* in Modified.
THEOREM StoreTakesOwnershipAlways == Spec => StoreTakesOwnership
  <1>1. TypeOK /\ [Next]_vars =>
          [Stored /\ NLines > 0 =>
             \A cpu \in Cpus :
                IF cpu = grant'.cpu
                THEN ModifiedFor(caches'[cpu], grant'.address)
                ELSE ~Holds(caches'[cpu], grant'.address)]_vars
    <2> SUFFICES ASSUME TypeOK, [Next]_vars, Stored, NLines > 0, NEW cpu \in Cpus
                 PROVE  IF cpu = grant'.cpu
                        THEN ModifiedFor(caches'[cpu], grant'.address)
                        ELSE ~Holds(caches'[cpu], grant'.address)
      OBVIOUS
    <2>1. PICK req \in StoreReqs : GrantStore(req)
      BY StoredCases
    <2>2. /\ grant' = req
          /\ caches'[cpu] =
               StoreCommitTransition(caches[cpu], req.address, cpu = req.cpu)
      BY <2>1 DEF GrantStore
    <2>3. CacheIndex(req.address) \in LineIndices
      BY IndexInRange, StoreReqFacts
    <2>4. caches[cpu] \in CacheState
      BY DEF TypeOK
    <2>5. CASE cpu = req.cpu
      <3>1. caches'[cpu] = StoreCommitTransition(caches[cpu], req.address, TRUE)
        BY <2>2, <2>5
      <3> QED
        BY <2>2, <2>3, <2>4, <2>5, <3>1, WriterOwnsStoredLine
    <2>6. CASE cpu # req.cpu
      <3>1. caches'[cpu] = StoreCommitTransition(caches[cpu], req.address, FALSE)
        BY <2>2, <2>6
      <3> QED
        BY <2>2, <2>3, <2>4, <2>6, <3>1, WriterOwnsStoredLine
    <2> QED
      BY <2>5, <2>6
  <1> QED
    BY <1>1, TypeCorrect, PTL DEF Spec, StoreTakesOwnership

\* Without a grant of its own, a CPU's cache only loses the line that another
\* CPU stores.
THEOREM PeersOnlyLoseTheStoredLineAlways == Spec => PeersOnlyLoseTheStoredLine
  <1>1. TypeOK /\ [Next]_vars =>
          [\A cpu \in Cpus, k \in LineIndices :
             caches'[cpu][k] # caches[cpu][k] =>
               \/ grant'.cpu = cpu
               \/ /\ Stored
                  /\ k = CacheIndex(grant'.address)
                  /\ Holds(caches[cpu], grant'.address)
                  /\ ~caches'[cpu][k].valid /\ ~caches'[cpu][k].dirty]_vars
    <2> SUFFICES ASSUME TypeOK, [Next]_vars, NEW cpu \in Cpus, NEW k \in LineIndices,
                        caches'[cpu][k] # caches[cpu][k], grant'.cpu # cpu
                 PROVE  /\ Stored
                        /\ k = CacheIndex(grant'.address)
                        /\ Holds(caches[cpu], grant'.address)
                        /\ ~caches'[cpu][k].valid /\ ~caches'[cpu][k].dirty
      OBVIOUS
    <2>1. ASSUME NEW req \in LoadReqs, GrantLoad(req) PROVE FALSE
      <3>1. caches'[cpu] = caches[cpu]
        BY <2>1, LoadReqFacts DEF GrantLoad, TypeOK
      <3> QED
        BY <3>1
    <2>2. PICK req \in StoreReqs : GrantStore(req)
      BY <2>1, StepCases DEF vars
    <2>3. Stored /\ grant' = req
      BY <2>2, StoreReqFacts DEF GrantStore, Stored, NextCycle, TypeOK
    <2>4. caches'[cpu] = StoreCommitTransition(caches[cpu], req.address, FALSE)
      BY <2>2, <2>3 DEF GrantStore
    <2>5. caches[cpu] \in CacheState
      BY DEF TypeOK
    <2>6. Holds(caches[cpu], req.address)
      BY <2>4, <2>5 DEF StoreCommitTransition
    <2>7. k = CacheIndex(req.address)
      BY <2>4, <2>5 DEF StoreCommitTransition, SetLine, CacheState
    <2>8. ~caches'[cpu][k].valid /\ ~caches'[cpu][k].dirty
      BY <2>4, <2>5, <2>6, <2>7
      DEF StoreCommitTransition, SetLine, InvalidLine, CacheState
    <2> QED
      BY <2>3, <2>6, <2>7, <2>8
  <1> QED
    BY <1>1, TypeCorrect, PTL DEF Spec, PeersOnlyLoseTheStoredLine

\* Memory changes only where the store of this cycle's bus owner writes.
THEOREM MemoryChangesOnlyByTheOwnerAlways == Spec => MemoryChangesOnlyByTheOwner
  <1>1. TypeOK /\ [Next]_vars =>
          [\A a \in Addresses : memory'[a] # memory[a] =>
             /\ Stored
             /\ grant'.cpu = BusOwner(cycle)
             /\ a \in Touched(grant'.address, grant'.width)]_vars
    <2> SUFFICES ASSUME TypeOK, [Next]_vars, NEW a \in Addresses,
                        memory'[a] # memory[a]
                 PROVE  /\ Stored
                        /\ grant'.cpu = BusOwner(cycle)
                        /\ a \in Touched(grant'.address, grant'.width)
      OBVIOUS
    <2>1. PICK req \in StoreReqs : GrantStore(req)
      BY StepCases DEF vars, GrantLoad
    <2>2. Stored /\ grant' = req /\ req.cpu = BusOwner(cycle)
      BY <2>1, StoreReqFacts DEF GrantStore, Stored, NextCycle, TypeOK
    <2>3. memory' = StoreBytes(memory, req.address, req.data)
      BY <2>1 DEF GrantStore
    <2>4. a - req.address \in 0 .. req.width - 1
      BY <2>3, StoreReqFacts DEF StoreBytes, ByteAfter, Memories, TypeOK
    <2>5. a \in Touched(req.address, req.width)
      BY <2>4, ConstantFacts, StoreReqFacts DEF Touched, Addresses, AccessWidths
    <2> QED
      BY <2>2, <2>5
  <1> QED
    BY <1>1, TypeCorrect, PTL DEF Spec, MemoryChangesOnlyByTheOwner

-----------------------------------------------------------------------------
(* Addresses and lines. *)

\* Index and tag of an address are those of the line it lies in.
LEMMA AddressOfLine ==
    ASSUME NEW tag \in Nat, NEW k \in LineIndices, NEW o \in Offsets
    PROVE  /\ LineBase(tag, k) + o \in Nat
           /\ CacheIndex(LineBase(tag, k) + o) = k
           /\ CacheTag(LineBase(tag, k) + o) = tag
  <1>1. NLines \in Nat /\ NLines > 0 /\ k \in Nat /\ k \in 0 .. NLines - 1
    BY ConstantFacts DEF LineIndices
  <1>2. LineBytes \in Nat /\ LineBytes > 0
    BY <1>1, CacheAssumption DEF NLines
  <1>3. tag * NLines \in Nat
    BY <1>1, Z3
  <1>4. tag * NLines + k \in Nat
    BY <1>1, <1>3
  <1>5. LineBase(tag, k) \in Nat
    BY <1>2, <1>4, Z3 DEF LineBase
  <1>6. LineBase(tag, k) + o \in Nat
    BY <1>5 DEF Offsets
  <1>7. (LineBase(tag, k) + o) \div LineBytes = tag * NLines + k
    BY <1>2, <1>4, RemainderFacts DEF LineBase, Offsets
  <1>8. (tag * NLines + k) % NLines = k /\ (tag * NLines + k) \div NLines = tag
    BY <1>1, RemainderFacts
  <1> QED
    BY <1>1, <1>6, <1>7, <1>8 DEF CacheIndex, CacheTag

\* Everything between two addresses of one line lies in that line.
LEMMA BetweenInLine ==
    ASSUME NEW a \in Nat, NEW b \in Nat, NEW x \in Nat, a <= x, x <= b,
           LineBytes \in Nat, LineBytes > 0, LineOf(a) = LineOf(b)
    PROVE  LineOf(x) = LineOf(a)
  <1> DEFINE q == a \div LineBytes
  <1>1. q \in Nat /\ q * LineBytes <= a /\ b < q * LineBytes + LineBytes
    BY DivFacts DEF LineOf
  <1>2. q * LineBytes \in Nat
    BY <1>1, Z3
  <1> HIDE DEF q
  <1>3. x \div LineBytes = q
    BY <1>1, <1>2, QuotientUnique
  <1> QED
    BY <1>3 DEF LineOf, q

\* An address that an access touches has the index and tag of the access.
LEMMA TouchedInLine ==
    ASSUME NoStraddle, NLines > 0, NEW req \in StoreReqs,
           NEW x \in Nat, x - req.address \in DOMAIN req.data
    PROVE  CacheIndex(x) = CacheIndex(req.address) /\ CacheTag(x) = CacheTag(req.address)
  <1>1. LineBytes \in Nat /\ LineBytes > 0
    BY ConstantFacts, CacheAssumption DEF NLines
  <1>2. PICK a \in Accesses :
          /\ a[1] \in Nat /\ a[2] \in AccessWidths
          /\ req.address = a[1] /\ req.data \in [0 .. a[2] - 1 -> Bytes]
    BY StoreReqAccess
  <1>3. a[1] \in Nat /\ a[2] \in Nat /\ a[2] > 0
    BY <1>2 DEF AccessWidths
  <1>4. req.address = a[1] /\ DOMAIN req.data = 0 .. a[2] - 1
    BY <1>2
  <1>5. a[1] <= x /\ x <= a[1] + a[2] - 1
    BY <1>3, <1>4
  <1>6. LineOf(a[1]) = LineOf(a[1] + a[2] - 1)
    BY DEF NoStraddle
  <1>7. LineOf(x) = LineOf(a[1])
    <2>1. a[1] + a[2] - 1 \in Nat
      BY <1>3
    <2> QED
      BY <1>1, <1>3, <1>5, <1>6, <2>1, BetweenInLine
  <1> QED
    BY <1>4, <1>7 DEF CacheIndex, CacheTag, LineOf

-----------------------------------------------------------------------------

DataTypeOK ==
    /\ TypeOK
    /\ copy \in [Cpus -> [LineIndices -> [Offsets -> Bytes]]]

\* Every step of the data-holding system is a step of Coherence.
LEMMA DataStepCases ==
    ASSUME [DataNext]_dataVars
    PROVE  /\ [Next]_vars
           /\ \/ \E req \in LoadReqs : CopyLoad(req)
              \/ \E req \in StoreReqs : CopyStore(req)
              \/ UNCHANGED <<caches, memory, copy>>
  <1>1. ASSUME NEW req \in LoadReqs, CopyLoad(req) PROVE Next
    <2>1. GrantLoad(req) /\ grant' = req
      BY <1>1 DEF CopyLoad, GrantLoad
    <2> QED
      BY <2>1 DEF Next, LoadReqs
  <1>2. ASSUME NEW req \in StoreReqs, CopyStore(req) PROVE Next
    <2>1. GrantStore(req) /\ grant' = req
      BY <1>2 DEF CopyStore, GrantStore
    <2> QED
      BY <2>1 DEF Next, StoreReqs
  <1> QED
    BY <1>1, <1>2 DEF DataNext, dataVars, vars, Next, GrantNone, Quiescent

\* The data-holding caches refine Coherence, so what holds of its variables
\* holds here too.
THEOREM DataImplementsCoherence == DataSpec => Spec
  <1>1. DataInit => Init
    BY DEF DataInit
  <1>2. [DataNext]_dataVars => [Next]_vars
    BY DataStepCases
  <1> QED
    BY <1>1, <1>2, PTL DEF DataSpec, Spec

LEMMA FilledCopyType ==
    ASSUME DataTypeOK, NEW cpu \in Cpus, NEW addr \in Nat,
           CacheIndex(addr) \in LineIndices
    PROVE  CopyAfterFill(cpu, addr) \in [Offsets -> Bytes]
  BY ConstantFacts DEF DataTypeOK, TypeOK, CopyAfterFill, FetchedLine, Memories

LEMMA DataTypeStep ==
    ASSUME DataTypeOK, [DataNext]_dataVars
    PROVE  copy' \in [Cpus -> [LineIndices -> [Offsets -> Bytes]]]
  <1>1. CASE \E req \in LoadReqs : CopyLoad(req)
    <2>1. PICK req \in LoadReqs : CopyLoad(req)
      BY <1>1
    <2>2. CacheIndex(req.address) \in LineIndices =>
            CopyAfterFill(req.cpu, req.address) \in [Offsets -> Bytes]
      BY FilledCopyType, LoadReqFacts
    <2> QED
      BY <2>1, <2>2, LoadReqFacts DEF CopyLoad, DataTypeOK
  <1>2. CASE \E req \in StoreReqs : CopyStore(req)
    <2>1. PICK req \in StoreReqs : CopyStore(req)
      BY <1>2
    <2>2. CacheIndex(req.address) \in LineIndices =>
            CopyAfterFill(req.cpu, req.address) \in [Offsets -> Bytes]
      BY FilledCopyType, StoreReqFacts
    <2>3. CacheIndex(req.address) \in LineIndices =>
            Written(CopyAfterFill(req.cpu, req.address), req) \in [Offsets -> Bytes]
      BY <2>2, StoreReqFacts DEF Written, ByteAfter
    <2> QED
      BY <2>1, <2>3, StoreReqFacts DEF CopyStore, DataTypeOK
  <1> QED
    BY <1>1, <1>2, DataStepCases DEF DataTypeOK

\* What ValidCopiesAreCurrent says of one line of one CPU.
CopyIsCurrent(cpu, k) ==
    \A o \in Offsets :
        LET addr == LineBase(caches[cpu][k].tag, k) + o
        IN  caches[cpu][k].valid /\ addr \in Addresses =>
                copy[cpu][k][o] = memory[addr]

\* The bytes of a line that the access of req fills: the old copy is current,
\* or the line is fetched.
LEMMA FilledCopyIsCurrent ==
    ASSUME NEW cpu \in Cpus, NEW addr \in Nat, CacheIndex(addr) \in LineIndices,
           CopyIsCurrent(cpu, CacheIndex(addr)), NEW o \in Offsets,
           LineBase(CacheTag(addr), CacheIndex(addr)) + o \in Addresses
    PROVE  CopyAfterFill(cpu, addr)[o]
             = memory[LineBase(CacheTag(addr), CacheIndex(addr)) + o]
  <1>1. CASE Holds(caches[cpu], addr)
    BY <1>1 DEF CopyAfterFill, CopyIsCurrent, Holds
  <1>2. CASE ~Holds(caches[cpu], addr)
    BY <1>2 DEF CopyAfterFill, FetchedLine
  <1> QED
    BY <1>1, <1>2

LEMMA LoadKeepsCopiesCurrent ==
    ASSUME DataTypeOK, NEW req \in LoadReqs, CopyLoad(req),
           NEW cpu \in Cpus, NEW k \in LineIndices, CopyIsCurrent(cpu, k)
    PROVE  CopyIsCurrent(cpu, k)'
  <1>0. /\ memory' = memory /\ req.cpu \in Cpus /\ req.address \in Nat
        /\ caches[cpu] \in CacheState
    BY LoadReqFacts DEF CopyLoad, GrantLoad, DataTypeOK, TypeOK
  <1>1. CASE cpu = req.cpu /\ k = CacheIndex(req.address)
    <2>1. caches'[cpu][k] = FilledLine(req.address, "Shared")
      BY <1>0, <1>1 DEF CopyLoad, GrantLoad, AccessLoad, SetLine, DataTypeOK,
         TypeOK, CacheState
    <2>2. copy'[cpu][k] = CopyAfterFill(cpu, req.address)
      BY <1>1 DEF CopyLoad, DataTypeOK
    <2>3. caches'[cpu][k].tag = CacheTag(req.address)
      BY <2>1 DEF FilledLine
    <2> QED
      BY <1>0, <1>1, <2>2, <2>3, FilledCopyIsCurrent DEF CopyIsCurrent
  <1>2. CASE ~(cpu = req.cpu /\ k = CacheIndex(req.address))
    <2>1. caches'[cpu][k] = caches[cpu][k]
      BY <1>0, <1>2 DEF CopyLoad, GrantLoad, AccessLoad, SetLine, DataTypeOK,
         TypeOK, CacheState
    <2>2. copy'[cpu][k] = copy[cpu][k]
      BY <1>2 DEF CopyLoad, DataTypeOK
    <2> QED
      BY <1>0, <2>1, <2>2 DEF CopyIsCurrent
  <1> QED
    BY <1>1, <1>2

LEMMA StoreKeepsCopiesCurrent ==
    ASSUME NoStraddle, DataTypeOK, NEW req \in StoreReqs, CopyStore(req),
           NEW cpu \in Cpus, NEW k \in LineIndices, CopyIsCurrent(cpu, k)
    PROVE  CopyIsCurrent(cpu, k)'
  <1>0. /\ req.cpu \in Cpus /\ req.address \in Nat
        /\ caches[cpu] \in CacheState
        /\ caches'[cpu] =
             StoreCommitTransition(caches[cpu], req.address, cpu = req.cpu)
        /\ memory' = StoreBytes(memory, req.address, req.data)
        /\ NLines > 0
    BY StoreReqFacts, ConstantFacts
    DEF CopyStore, GrantStore, DataTypeOK, TypeOK, LineIndices
  <1>1. CASE cpu = req.cpu /\ k = CacheIndex(req.address)
    <2> DEFINE base == LineBase(CacheTag(req.address), CacheIndex(req.address))
    <2>1. caches'[cpu][k] = FilledLine(req.address, "Modified")
      BY <1>0, <1>1 DEF StoreCommitTransition, AccessStore, SetLine, CacheState
    <2>2. copy'[cpu][k] = Written(CopyAfterFill(cpu, req.address), req)
      BY <1>1 DEF CopyStore, DataTypeOK
    <2>3. caches'[cpu][k].tag = CacheTag(req.address)
      BY <2>1 DEF FilledLine
    <2>4. ASSUME NEW o \in Offsets, base + o \in Addresses
          PROVE  copy'[cpu][k][o] = memory'[base + o]
      <3>1. CopyAfterFill(cpu, req.address)[o] = memory[base + o]
        BY <1>0, <1>1, <2>4, FilledCopyIsCurrent
      <3>2. copy'[cpu][k][o] = ByteAfter(base + o, req.address, req.data,
                                         CopyAfterFill(cpu, req.address)[o])
        BY <2>2 DEF Written
      <3>3. memory'[base + o] = ByteAfter(base + o, req.address, req.data,
                                          memory[base + o])
        BY <1>0, <2>4 DEF StoreBytes
      <3> QED
        BY <3>1, <3>2, <3>3
    <2> QED
      BY <1>1, <2>3, <2>4 DEF CopyIsCurrent
  <1>2. CASE ~(cpu = req.cpu /\ k = CacheIndex(req.address))
    <2>1. copy'[cpu][k] = copy[cpu][k]
      BY <1>2 DEF CopyStore, DataTypeOK
    <2> SUFFICES ASSUME NEW o \in Offsets, caches'[cpu][k].valid,
                        LineBase(caches'[cpu][k].tag, k) + o \in Addresses
                 PROVE  copy'[cpu][k][o]
                          = memory'[LineBase(caches'[cpu][k].tag, k) + o]
      BY DEF CopyIsCurrent
    <2>2. caches'[cpu][k] = caches[cpu][k]
      BY <1>0, <1>2 DEF StoreCommitTransition, AccessStore, SetLine, InvalidLine,
         CacheState
    <2> DEFINE t == caches[cpu][k].tag
               x == LineBase(t, k) + o
    <2>3. t \in Nat
      BY <1>0 DEF CacheState, CacheLine
    <2>4. x \in Nat /\ CacheIndex(x) = k /\ CacheTag(x) = t
      BY <2>3, AddressOfLine
    <2>5. x - req.address \notin DOMAIN req.data
      <3> SUFFICES ASSUME x - req.address \in DOMAIN req.data PROVE FALSE
        OBVIOUS
      <3>1. k = CacheIndex(req.address) /\ t = CacheTag(req.address)
        BY <1>0, <2>4, TouchedInLine
      <3>2. cpu # req.cpu
        BY <1>2, <3>1
      <3>3. ~Holds(caches'[cpu], req.address)
        BY <1>0, <3>1, <3>2, WriterOwnsStoredLine
      <3> QED
        BY <2>2, <3>1, <3>3 DEF Holds
    <2>6. x \in Addresses
      BY <2>2
    <2>7. memory'[x] = memory[x]
      BY <1>0, <2>5, <2>6 DEF StoreBytes, ByteAfter
    <2> QED
      BY <2>1, <2>2, <2>6, <2>7 DEF CopyIsCurrent
  <1> QED
    BY <1>1, <1>2

\* Coherence means something: as long as no access straddles two lines, every
\* line that the timing cache of any CPU calls valid has, in a cache that held
\* data, exactly the bytes of the shared memory; no store of a peer leaves an
\* old copy that would hit.
THEOREM ValidCopiesAreCurrentAlways ==
    ASSUME NoStraddle
    PROVE  DataSpec => []ValidCopiesAreCurrent
  <1> DEFINE Inv == \A cpu \in Cpus, k \in LineIndices : CopyIsCurrent(cpu, k)
  <1>1. DataInit => Inv /\ copy \in [Cpus -> [LineIndices -> [Offsets -> Bytes]]]
    BY ConstantFacts DEF DataInit, Init, NewCache, InvalidLine, CopyIsCurrent
  <1>2. DataTypeOK /\ Inv /\ [DataNext]_dataVars => Inv'
    <2> SUFFICES ASSUME DataTypeOK, Inv, [DataNext]_dataVars,
                        NEW cpu \in Cpus, NEW k \in LineIndices
                 PROVE  CopyIsCurrent(cpu, k)'
      OBVIOUS
    <2>1. CASE UNCHANGED <<caches, memory, copy>>
      BY <2>1 DEF CopyIsCurrent
    <2> QED
      BY <2>1, DataStepCases, LoadKeepsCopiesCurrent, StoreKeepsCopiesCurrent
  <1>3. Inv => ValidCopiesAreCurrent
    BY DEF CopyIsCurrent, ValidCopiesAreCurrent
  <1>4. DataTypeOK /\ [DataNext]_dataVars
          => (copy \in [Cpus -> [LineIndices -> [Offsets -> Bytes]]])'
    BY DataTypeStep
  <1>5. TypeOK /\ copy \in [Cpus -> [LineIndices -> [Offsets -> Bytes]]]
          <=> DataTypeOK
    BY DEF DataTypeOK
  <1> QED
    BY <1>1, <1>2, <1>3, <1>4, <1>5, TypeCorrect, DataImplementsCoherence, PTL
    DEF DataSpec
=============================================================================
