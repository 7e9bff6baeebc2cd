----------------------------- MODULE DataCache -----------------------------
(***************************************************************************)
(* What the timing caches stand for.  The lines of module Cache hold no    *)
(* data, so a wrong Hit costs the simulator cycles only and no test sees   *)
(* it.  This module adds the history variable copy: the bytes that a cache *)
(* which does hold data would have in each line, filled on a miss and      *)
(* written by its own CPU's stores only.  The timing model is right when   *)
(* every line it calls valid would have the current bytes.                 *)
(***************************************************************************)
EXTENDS Coherence

VARIABLE copy

dataVars == <<caches, memory, cycle, grant, copy>>

Offsets == 0 .. LineBytes - 1

\* The first address of the line with this tag at index k.
LineBase(tag, k) == (tag * NLines + k) * LineBytes

LineOf(addr) == addr \div LineBytes

\* No access crosses into a second cache line.
NoStraddle == \A a \in Accesses : LineOf(a[1]) = LineOf(a[1] + a[2] - 1)

\* The bytes of addr's line, as memory has them; 0 past the end of memory.
FetchedLine(mem, addr) ==
    LET base == LineBase(CacheTag(addr), CacheIndex(addr))
    IN  [o \in Offsets |-> IF base + o \in Addresses THEN mem[base + o] ELSE 0]

\* The copy that cpu has of the line of addr once an access is through: what
\* it had on a hit, what memory had on a miss.
CopyAfterFill(cpu, addr) ==
    IF Holds(caches[cpu], addr)
    THEN copy[cpu][CacheIndex(addr)]
    ELSE FetchedLine(memory, addr)

Written(line, req) ==
    LET base == LineBase(CacheTag(req.address), CacheIndex(req.address))
    IN  [o \in Offsets |-> ByteAfter(base + o, req.address, req.data, line[o])]

DataInit ==
    /\ Init
    /\ copy = [cpu \in Cpus |-> [k \in LineIndices |-> [o \in Offsets |-> 0]]]

CopyLoad(req) ==
    /\ GrantLoad(req)
    /\ copy' = [copy EXCEPT ![req.cpu] =
                  [k \in LineIndices |->
                     IF k = CacheIndex(req.address)
                     THEN CopyAfterFill(req.cpu, req.address)
                     ELSE @[k]]]

CopyStore(req) ==
    /\ GrantStore(req)
    /\ copy' = [copy EXCEPT ![req.cpu] =
                  [k \in LineIndices |->
                     IF k = CacheIndex(req.address)
                     THEN Written(CopyAfterFill(req.cpu, req.address), req)
                     ELSE @[k]]]

DataNext ==
    \/ \E req \in LoadReqs : CopyLoad(req)
    \/ \E req \in StoreReqs : CopyStore(req)
    \/ (GrantNone \/ Quiescent) /\ UNCHANGED copy

DataSpec == DataInit /\ [][DataNext]_dataVars

-----------------------------------------------------------------------------

\* Every valid line of every cache would hold what memory holds: a peer's
\* store never leaves a CPU hitting old data.  It is the meaning behind "a
\* store invalidates matching peer lines" (docs/adr/0004), and holds as long
\* as no access crosses a line boundary.
ValidCopiesAreCurrent ==
    \A cpu \in Cpus, k \in LineIndices, o \in Offsets :
        LET line == caches[cpu][k]
            addr == LineBase(line.tag, k) + o
        IN  line.valid /\ addr \in Addresses => copy[cpu][k][o] = memory[addr]
=============================================================================
