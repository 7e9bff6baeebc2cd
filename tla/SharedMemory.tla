---------------------------- MODULE SharedMemory ----------------------------
(***************************************************************************)
(* The byte array behind the bus (SharedMemory in src/src/system.rs) and   *)
(* the little-endian accesses to it.  A byte has ByteMod values (256 in    *)
(* the code) and a word has 8 bytes, so WordMod is 2^64 in the code; small *)
(* values of ByteMod keep the arithmetic and the wrap-around and shrink    *)
(* the instance.                                                           *)
(***************************************************************************)
EXTENDS Integers, FiniteSetsExt

CONSTANTS
    ByteMod,        \* number of values of one byte
    MemBytes        \* ArchConfig.memory_bytes, the length of the array

ASSUME MemoryAssumption ==
    /\ ByteMod \in Nat \ {0}
    /\ MemBytes \in Nat

WordBytes == 8

\* The powers of b and the sum of the first n of the values of f, f[0] first:
\* functions that the provers can unfold, unlike b ^ n and a fold over a set.
PowersOf(b) ==
    LET power[n \in Nat] == IF n = 0 THEN 1 ELSE b * power[n - 1]
    IN  power

Total(f, n) ==
    LET total[k \in 0 .. n] == IF k = 0 THEN 0 ELSE total[k - 1] + f[k - 1]
    IN  total[n]

\* ByteMod to the power of WordBytes.
WordMod ==
    LET square == ByteMod * ByteMod
        half   == square * square
    IN  half * half

Words == 0 .. WordMod - 1

Bytes == 0 .. ByteMod - 1

Addresses == 0 .. MemBytes - 1

Memories == [Addresses -> Bytes]

ZeroMemory == [a \in Addresses |-> 0]

InBounds(addr, width) == width <= MemBytes /\ addr <= MemBytes - width

\* The addresses that an access of width bytes at addr touches.
Touched(addr, width) == addr .. addr + width - 1

\* Faulty: the bytes are shifted down and not masked.
ToBytesUnmasked(value, width) == [o \in 0 .. width - 1 |-> value \div PowersOf(ByteMod)[o]]

\* The byte of a word at an offset, and the bytes that an access of a given
\* width takes from a word (the masks of mask_to_width and of the store loop).
ByteAt(value, o) == (value \div PowersOf(ByteMod)[o]) % ByteMod

ToBytes(value, width) == [o \in 0 .. width - 1 |-> ByteAt(value, o)]

LoadBytes(mem, addr, width) ==
    Total([o \in 0 .. width - 1 |-> mem[addr + o] * PowersOf(ByteMod)[o]], width)

\* What address a has after data is written at addr, if it had old before.
ByteAfter(a, addr, data, old) ==
    IF a - addr \in DOMAIN data THEN data[a - addr] ELSE old

StoreBytes(mem, addr, data) ==
    [a \in Addresses |-> ByteAfter(a, addr, data, mem[a])]
=============================================================================
