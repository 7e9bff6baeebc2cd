-------------------------------- MODULE Bus --------------------------------
(***************************************************************************)
(* The closed-form schedule of the shared bus (src/src/system.rs): cycle c *)
(* belongs to CPU c mod NumCpus.                                           *)
(***************************************************************************)
EXTENDS Integers

CONSTANT NumCpus        \* Topology.cpus

ASSUME BusAssumption == NumCpus \in Nat \ {0}

Cpus == 0 .. NumCpus - 1

BusOwner(c) == c % NumCpus

BusSlot(c, cpu) == cpu \in Cpus /\ BusOwner(c) = cpu
=============================================================================
