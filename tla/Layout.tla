------------------------------- MODULE Layout -------------------------------
(***************************************************************************)
(* Which opcode may sit in which slot of a bundle (src/src/layout.rs).  A  *)
(* slot of the layout names functional units; only their kinds matter, so  *)
(* a slot is the set of the kinds its units have.                          *)
(***************************************************************************)
EXTENDS Isa

CONSTANT Slots      \* ProcessorLayout.slots

\* ProcessorLayout::validate: a width of 1 to 256 and no slot without a unit.
ASSUME LayoutAssumption ==
    /\ Slots \in Seq((SUBSET UnitKinds) \ {{}})
    /\ Len(Slots) \in 1 .. 256

UnitKindExecutes(kind) ==
    CASE kind = "IntegerAlu" -> IntegerOps \cup IntegerCompares
      [] kind = "Memory"     -> MemoryOps \cup {"Lea", "Prefetch"}
      [] kind = "Control"    -> ControlOps \cup PredicateOps
      [] kind = "Multiplier" -> MultiplyOps
      [] kind = "Fp"         -> Fp32Ops \cup Fp64Ops \cup FpCompares
      [] kind = "Aes"        -> AesOps

SlotCanExecute(slot, op) ==
    \/ op = "Nop"
    \/ /\ slot \in DOMAIN Slots
       /\ \E kind \in Slots[slot] : op \in UnitKindExecutes(kind)

ProgramLayoutCompatible(program) ==
    \A b \in DOMAIN program : \A s \in DOMAIN program[b] :
        SlotCanExecute(s, program[b][s].op)
=============================================================================
