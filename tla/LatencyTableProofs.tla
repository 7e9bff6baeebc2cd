------------------------- MODULE LatencyTableProofs -------------------------
(***************************************************************************)
(* A list of entries with first-match lookup and replace-or-push update is *)
(* a function of which set overrides one value, for all opcodes, latencies *)
(* and tables.                                                             *)
(***************************************************************************)
EXTENDS LatencyTable, WellFoundedInduction, TLAPS

\* A set of positions that is not empty has a first one.
LEMMA FirstPosition ==
    ASSUME NEW T, T \subseteq Nat, T # {}
    PROVE  \E x \in T : \A y \in T : x <= y
<1>1. PICK x \in T : \A y \in T : ~ (<<y, x>> \in OpToRel(<, Nat))
  BY WFMin, NatLessThanWellFounded, Zenon
<1>2. ASSUME NEW y \in T PROVE x <= y
  <2>1. y < x => <<y, x>> \in OpToRel(<, Nat)
    BY DEF OpToRel
  <2>2. ~ (y < x)
    BY <1>1, <2>1, Zenon
  <2> QED
    BY <2>2
<1> QED
  BY <1>1, <1>2

\* An opcode that is in the table has a first entry.
LEMMA FirstExists ==
    ASSUME NEW table, DOMAIN table \subseteq Nat, NEW op, At(table, op) # {}
    PROVE  /\ First(table, op) \in At(table, op)
           /\ \A j \in At(table, op) : First(table, op) <= j
<1>1. At(table, op) \subseteq Nat
  BY DEF At
<1>2. PICK i \in At(table, op) : \A j \in At(table, op) : i <= j
  BY <1>1, FirstPosition
<1> QED
  BY <1>2 DEF First

\* set keeps the type of a table.
LEMMA ChangedType ==
    ASSUME NEW Ops, NEW Cycles, NEW table \in Seq(Ops \X Cycles), NEW op \in Ops, NEW cycles \in Cycles
    PROVE  Changed(table, op, cycles) \in Seq(Ops \X Cycles)
<1>1. CASE At(table, op) = {}
  BY <1>1 DEF Changed
<1>2. CASE At(table, op) # {}
  <2>1. First(table, op) \in DOMAIN table
    BY <1>2, FirstExists DEF At
  <2>2. Changed(table, op, cycles) = [table EXCEPT ![First(table, op)] = <<op, cycles>>]
    BY <1>2 DEF Changed
  <2> QED
    BY <2>1, <2>2
<1> QED
  BY <1>1, <1>2

\* A first entry is the only one with its place.
LEMMA FirstIs ==
    ASSUME NEW table, DOMAIN table \subseteq Nat, NEW op, NEW i \in At(table, op),
           \A j \in At(table, op) : i <= j
    PROVE  First(table, op) = i
<1>1. First(table, op) \in At(table, op) /\ First(table, op) <= i
  BY FirstExists
<1>2. i <= First(table, op)
  BY <1>1
<1>3. At(table, op) \subseteq Nat
  BY DEF At
<1> QED
  BY <1>1, <1>2, <1>3

\* The list of entries behaves like the function that the rest of the program
\* takes it for: whatever the table held before, shadowed entries included,
\* LatencyTable::set changes the answer of get for one opcode and for no other.
THEOREM SetOverridesOneAnswer ==
    ASSUME NEW Ops, NEW Cycles, NEW table \in Seq(Ops \X Cycles), NEW op \in Ops, NEW cycles \in Cycles,
           NEW other \in Ops
    PROVE  OverridesOneAnswer(table, op, cycles, other)
<1> DEFINE new == Changed(table, op, cycles)
<1> SUFFICES Get(new, other) = IF other = op THEN cycles ELSE Get(table, other)
  BY DEF OverridesOneAnswer
<1>1. DOMAIN table \subseteq Nat /\ DOMAIN new \subseteq Nat
  <2>1. new \in Seq(Ops \X Cycles)
    BY ChangedType
  <2> HIDE DEF new
  <2> QED
    BY <2>1
<1>2. CASE At(table, op) = {}
  <2>1. new = Append(table, <<op, cycles>>)
    BY <1>2 DEF Changed
  <2>2. /\ DOMAIN new = 1 .. Len(table) + 1
        /\ \A i \in DOMAIN table : new[i] = table[i]
        /\ new[Len(table) + 1] = <<op, cycles>>
    BY <2>1
  <2>3. CASE other = op
    <3>1. At(new, op) = {Len(table) + 1}
      BY <1>2, <2>2 DEF At
    <3>2. First(new, op) = Len(table) + 1
      <4>1. /\ Len(table) + 1 \in At(new, op)
            /\ \A j \in At(new, op) : Len(table) + 1 <= j
        BY <3>1
      <4> HIDE DEF new
      <4> QED
        BY <1>1, <4>1, FirstIs
    <3> QED
      BY <2>2, <2>3, <3>1, <3>2 DEF Get
  <2>4. CASE other # op
    <3>1. At(new, other) = At(table, other)
      BY <2>2, <2>4 DEF At
    <3>2. ASSUME At(table, other) # {}
          PROVE  /\ First(new, other) = First(table, other)
                 /\ new[First(table, other)] = table[First(table, other)]
      <4>1. /\ First(table, other) \in At(table, other)
            /\ \A j \in At(table, other) : First(table, other) <= j
        BY <1>1, <3>2, FirstExists
      <4>2. new[First(table, other)] = table[First(table, other)]
        BY <2>2, <4>1 DEF At
      <4>3. /\ First(table, other) \in At(new, other)
            /\ \A j \in At(new, other) : First(table, other) <= j
        BY <3>1, <4>1
      <4> HIDE DEF new
      <4>4. First(new, other) = First(table, other)
        BY <1>1, <4>3, FirstIs
      <4> QED
        BY <4>2, <4>4
    <3> QED
      BY <2>4, <3>1, <3>2 DEF Get
  <2> QED
    BY <2>3, <2>4
<1>3. CASE At(table, op) # {}
  <2> DEFINE f == First(table, op)
  <2>1. f \in DOMAIN table /\ table[f][1] = op /\ \A j \in At(table, op) : f <= j
    <3>1. f \in At(table, op) /\ \A j \in At(table, op) : f <= j
      BY <1>1, <1>3, FirstExists
    <3> QED
      BY <3>1 DEF At
  <2>2. new = [table EXCEPT ![f] = <<op, cycles>>]
    BY <1>3 DEF Changed
  <2>3. /\ DOMAIN new = DOMAIN table
        /\ \A i \in DOMAIN table : new[i] = IF i = f THEN <<op, cycles>> ELSE table[i]
    BY <2>1, <2>2
  <2>4. At(new, other) = At(table, other)
    BY <2>1, <2>3 DEF At
  <2>5. ASSUME At(table, other) # {}
        PROVE  First(new, other) = First(table, other) /\ First(table, other) \in At(table, other)
    BY <1>1, <2>4, <2>5, FirstExists, FirstIs
  <2>6. CASE other = op
    BY <1>3, <2>1, <2>3, <2>4, <2>5, <2>6 DEF Get
  <2>7. CASE other # op
    <3>1. ASSUME At(table, other) # {}
          PROVE  First(table, other) # f /\ First(table, other) \in DOMAIN table
      BY <2>1, <2>5, <2>7, <3>1 DEF At
    <3> QED
      BY <2>3, <2>4, <2>5, <2>7, <3>1 DEF Get
  <2> QED
    BY <2>6, <2>7
<1> QED
  BY <1>2, <1>3
=============================================================================
