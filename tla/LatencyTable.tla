---------------------------- MODULE LatencyTable ----------------------------
(***************************************************************************)
(* LatencyTable (src/src/latency.rs): a list of entries, looked up from    *)
(* the front, in which an opcode may stand twice or not at all.  The other *)
(* modules see it as the function Latency that get makes of it.  Nothing   *)
(* but tests calls set while a processor runs, so it is an operator here.  *)
(***************************************************************************)
EXTENDS Integers, Sequences

\* A table is a sequence of pairs <<opcode, cycles>>.
At(table, op) == {i \in DOMAIN table : table[i][1] = op}

First(table, op) == CHOOSE i \in At(table, op) : \A j \in At(table, op) : i <= j

\* LatencyTable::get
Get(table, op) ==
    IF At(table, op) = {} THEN 1 ELSE table[First(table, op)][2]

\* LatencyTable::set: the first entry is replaced, a missing one is added.
Changed(table, op, cycles) ==
    IF At(table, op) = {} THEN Append(table, <<op, cycles>>)
    ELSE [table EXCEPT ![First(table, op)] = <<op, cycles>>]

\* What set is for: it overrides the answer of get for one opcode and for no
\* other, whatever shadowed entries the table has.  The postcondition of
\* LatencyTable::set speaks of the opcode that is set only.
OverridesOneAnswer(table, op, cycles, other) ==
    Get(Changed(table, op, cycles), other) = IF other = op THEN cycles ELSE Get(table, other)
=============================================================================
