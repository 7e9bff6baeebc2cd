--------------------------- MODULE AssemblerProofs ---------------------------
(***************************************************************************)
(* Proofs about Assembler for every set of files: reading line by line,    *)
(* resolving labels and filling slots find exactly what the text as a      *)
(* whole says, and reading the header line by line what its lines declare. *)
(***************************************************************************)
EXTENDS Assembler, FiniteSetTheorems, SequenceTheorems, NaturalsInduction,
        WellFoundedInduction, TLAPS

-----------------------------------------------------------------------------
(* Sequences. *)

LEMMA SequenceFacts ==
    ASSUME NEW s, IsSequence(s)
    PROVE  /\ Len(s) \in Nat /\ DOMAIN s = 1 .. Len(s)
           /\ s = [i \in 1 .. Len(s) |-> s[i]]
           /\ \A i \in 1 .. Len(s) : s[i] \in Range(s)
           /\ \A x \in Range(s) : \E i \in 1 .. Len(s) : x = s[i]
  BY DEF IsSequence, Range

\* A function on 1 .. n is a sequence of length n.
LEMMA ListIsASequence ==
    ASSUME NEW n \in Nat, NEW t, t = [i \in 1 .. n |-> t[i]]
    PROVE  IsSequence(t) /\ Len(t) = n
  <1>1. \A i \in 1 .. n : t[i] \in Range(t)
    BY DEF Range
  <1>2. t \in [1 .. n -> Range(t)]
    BY <1>1
  <1> QED
    BY <1>2 DEF IsSequence

LEMMA InSequences ==
    ASSUME NEW T, NEW t, t \in Seq(T)
    PROVE  IsSequence(t)
  <1>1. Len(t) \in Nat /\ DOMAIN t = 1 .. Len(t) /\ \A i \in 1 .. Len(t) : t[i] \in Range(t)
    BY DEF Range
  <1>2. t \in [1 .. Len(t) -> T]
    OBVIOUS
  <1>3. t \in [1 .. Len(t) -> Range(t)]
    BY <1>1, <1>2
  <1> QED
    BY <1>1, <1>3 DEF IsSequence

\* Appending.
LEMMA AppendFacts ==
    ASSUME NEW s, IsSequence(s), NEW e, NEW t, t = Append(s, e)
    PROVE  /\ IsSequence(t) /\ Len(t) = Len(s) + 1
           /\ t[Len(s) + 1] = e /\ \A i \in 1 .. Len(s) : t[i] = s[i]
           /\ Range(t) = Range(s) \cup {e}
  <1> DEFINE T == Range(s) \cup {e}
  <1>1. s \in Seq(T) /\ e \in T
    BY DEF IsSequence
  <1> HIDE DEF T
  <1>2. /\ t \in Seq(T) /\ Len(t) = Len(s) + 1 /\ Len(s) \in Nat
        /\ t[Len(s) + 1] = e /\ \A i \in 1 .. Len(s) : t[i] = s[i]
        /\ DOMAIN t = 1 .. Len(s) + 1 /\ DOMAIN s = 1 .. Len(s)
    BY <1>1
  <1>3. IsSequence(t)
    BY <1>2, InSequences
  <1>4. Range(t) = Range(s) \cup {e}
    <2>1. \A x \in Range(t) : x \in Range(s) \cup {e}
      BY <1>2 DEF Range
    <2>2. \A x \in Range(s) : x \in Range(t)
      BY <1>2 DEF Range
    <2>3. e \in Range(t)
      BY <1>2 DEF Range
    <2> QED
      BY <2>1, <2>2, <2>3
  <1> QED
    BY <1>2, <1>3, <1>4

\* Concatenating: the values, and when they differ from each other.
LEMMA ConcatFacts ==
    ASSUME NEW s, IsSequence(s), NEW u, IsSequence(u), NEW t, t = s \o u
    PROVE  /\ IsSequence(t) /\ Len(t) = Len(s) + Len(u)
           /\ Range(t) = Range(s) \cup Range(u)
           /\ IsInjective(t) <=>
                IsInjective(s) /\ IsInjective(u) /\ Range(s) \cap Range(u) = {}
  <1> DEFINE T == Range(s) \cup Range(u)
  <1>1. s \in Seq(T) /\ u \in Seq(T)
    BY DEF IsSequence
  <1> HIDE DEF T
  <1>2. /\ t \in Seq(T) /\ Len(t) = Len(s) + Len(u) /\ Len(s) \in Nat /\ Len(u) \in Nat
        /\ DOMAIN t = 1 .. Len(s) + Len(u) /\ DOMAIN s = 1 .. Len(s) /\ DOMAIN u = 1 .. Len(u)
        /\ \A i \in 1 .. Len(s) : t[i] = s[i]
        /\ \A i \in 1 .. Len(u) : t[Len(s) + i] = u[i]
    BY <1>1
  <1>3. IsSequence(t)
    BY <1>2, InSequences
  <1>4. ASSUME NEW i \in DOMAIN t
        PROVE  i \in DOMAIN s \/ \E j \in DOMAIN u : i = Len(s) + j
    <2>1. i \in 1 .. Len(s) + Len(u)
      BY <1>2
    <2>2. i \in 1 .. Len(s) \/ (i - Len(s) \in 1 .. Len(u) /\ i = Len(s) + (i - Len(s)))
      BY <1>2, <2>1
    <2> QED
      BY <1>2, <2>2
  <1>5. /\ \A i \in DOMAIN s : i \in DOMAIN t /\ t[i] = s[i]
        /\ \A j \in DOMAIN u : Len(s) + j \in DOMAIN t /\ t[Len(s) + j] = u[j]
        /\ \A i \in DOMAIN s : \A j \in DOMAIN u : i # Len(s) + j
        /\ \A j, k \in DOMAIN u : Len(s) + j = Len(s) + k => j = k
    BY <1>2
  <1>6. Range(t) = Range(s) \cup Range(u)
    <2>1. \A x \in Range(t) : x \in Range(s) \cup Range(u)
      BY <1>4, <1>5 DEF Range
    <2>2. \A x \in Range(s) : x \in Range(t)
      BY <1>5 DEF Range
    <2>3. \A x \in Range(u) : x \in Range(t)
      BY <1>5 DEF Range
    <2> QED
      BY <2>1, <2>2, <2>3
  <1>7. ASSUME IsInjective(t)
        PROVE  IsInjective(s) /\ IsInjective(u) /\ Range(s) \cap Range(u) = {}
    <2>1. IsInjective(s)
      BY <1>5, <1>7 DEF IsInjective
    <2>2. IsInjective(u)
      BY <1>5, <1>7 DEF IsInjective
    <2>3. \A x \in Range(s) : x \notin Range(u)
      BY <1>5, <1>7 DEF IsInjective, Range
    <2> QED
      BY <2>1, <2>2, <2>3
  <1>8. ASSUME IsInjective(s), IsInjective(u), Range(s) \cap Range(u) = {}
        PROVE  IsInjective(t)
    <2> SUFFICES ASSUME NEW a \in DOMAIN t, NEW b \in DOMAIN t, t[a] = t[b]
                 PROVE  a = b
      BY DEF IsInjective
    <2>1. \A i \in DOMAIN s : \A j \in DOMAIN u : s[i] # u[j]
      BY <1>8 DEF Range
    <2>2. CASE a \in DOMAIN s /\ b \in DOMAIN s
      BY <1>5, <1>8, <2>2 DEF IsInjective
    <2>3. CASE a \in DOMAIN s /\ b \notin DOMAIN s
      BY <1>4, <1>5, <2>1, <2>3
    <2>4. CASE a \notin DOMAIN s /\ b \in DOMAIN s
      BY <1>4, <1>5, <2>1, <2>4
    <2>5. CASE a \notin DOMAIN s /\ b \notin DOMAIN s
      BY <1>4, <1>5, <1>8, <2>5 DEF IsInjective
    <2> QED
      BY <2>2, <2>3, <2>4, <2>5
  <1> QED
    BY <1>2, <1>3, <1>6, <1>7, <1>8

LEMMA EmptySequence ==
    /\ IsSequence(<<>>) /\ Len(<<>>) = 0 /\ Range(<<>>) = {} /\ IsInjective(<<>>)
  BY DEF IsSequence, Range, IsInjective

LEMMA OneElement ==
    ASSUME NEW e
    PROVE  IsSequence(<<e>>) /\ Len(<<e>>) = 1 /\ Range(<<e>>) = {e} /\ <<e>>[1] = e
  BY DEF IsSequence, Range

-----------------------------------------------------------------------------
(* The text. *)

SourceOK == IsSequence(source) /\ \A l \in LinesOf : IsLine(source[l])

LEMMA SourceFacts ==
    ASSUME SourceOK
    PROVE  Len(source) \in Nat /\ LinesOf = 1 .. Len(source) /\ Starts \subseteq 1 .. Len(source)
  BY SequenceFacts DEF SourceOK, LinesOf, Starts

\* Behind a line one is in a block when the line opens one, or when it does not
\* close the one that is open.
LEMMA InsideNext ==
    ASSUME SourceOK, NEW l \in LinesOf
    PROVE  /\ l + 1 \in Nat
           /\ InsideBlock(l + 1) <=> \/ source[l].kind \in {"open", "spaced"}
                                     \/ InsideBlock(l) /\ source[l].kind # "close"
  <1>1. l \in Nat /\ l >= 1
    BY SourceFacts
  <1>2. ASSUME InsideBlock(l + 1)
        PROVE  source[l].kind \in {"open", "spaced"} \/ (InsideBlock(l) /\ source[l].kind # "close")
    <2>1. PICK o \in 1 .. l : /\ source[o].kind \in {"open", "spaced"}
                              /\ \A k \in o + 1 .. l : source[k].kind # "close"
      BY <1>1, <1>2 DEF InsideBlock
    <2>2. CASE o = l
      BY <2>1, <2>2
    <2>3. CASE o # l
      <3>1. o \in 1 .. l - 1 /\ l \in o + 1 .. l /\ \A k \in o + 1 .. l - 1 : k \in o + 1 .. l
        BY <1>1, <2>1, <2>3
      <3> QED
        BY <2>1, <3>1 DEF InsideBlock
    <2> QED
      BY <2>2, <2>3
  <1>3. ASSUME source[l].kind \in {"open", "spaced"}
        PROVE  InsideBlock(l + 1)
    <2>1. l \in 1 .. l + 1 - 1 /\ \A k \in l + 1 .. l + 1 - 1 : source[k].kind # "close"
      BY <1>1
    <2> QED
      BY <1>3, <2>1 DEF InsideBlock
  <1>4. ASSUME InsideBlock(l), source[l].kind # "close"
        PROVE  InsideBlock(l + 1)
    <2>1. PICK o \in 1 .. l - 1 : /\ source[o].kind \in {"open", "spaced"}
                                  /\ \A k \in o + 1 .. l - 1 : source[k].kind # "close"
      BY <1>4 DEF InsideBlock
    <2>2. o \in 1 .. l + 1 - 1 /\ \A k \in o + 1 .. l + 1 - 1 : k \in o + 1 .. l - 1 \/ k = l
      BY <1>1, <2>1
    <2>3. \A k \in o + 1 .. l + 1 - 1 : source[k].kind # "close"
      BY <1>4, <2>1, <2>2
    <2> QED
      BY <1>1, <2>1, <2>2, <2>3 DEF InsideBlock
  <1> QED
    BY <1>1, <1>2, <1>3, <1>4

\* The next line has one bundle more before it when the line starts one.
LEMMA Counts ==
    ASSUME SourceOK, NEW l \in Nat
    PROVE  /\ BundlesBefore(l) \in Nat
           /\ BundlesBefore(l + 1) = BundlesBefore(l) + IF l \in Starts THEN 1 ELSE 0
  <1> DEFINE S == {k \in Starts : k < l}
  <1>1. IsFiniteSet(1 .. Len(source))
    BY SourceFacts, FS_Interval
  <1>2. S \in SUBSET (1 .. Len(source))
    BY SourceFacts
  <1>3. IsFiniteSet(S) /\ Cardinality(S) \in Nat
    BY <1>1, <1>2, FS_Subset, FS_CardinalityType
  <1>4. {k \in Starts : k < l + 1} = IF l \in Starts THEN S \cup {l} ELSE S
    BY SourceFacts
  <1>5. Cardinality(S \cup {l}) = Cardinality(S) + 1
    <2>1. l \notin S
      OBVIOUS
    <2> HIDE DEF S
    <2> QED
      BY <1>3, <2>1, FS_AddElement
  <1> QED
    BY <1>3, <1>4, <1>5 DEF BundlesBefore

\* The numbers of bundles grow with the lines, at those that start a bundle.
LEMMA CountsGrow ==
    ASSUME SourceOK, NEW k \in Nat, NEW l \in Nat, k <= l
    PROVE  /\ BundlesBefore(k) <= BundlesBefore(l)
           /\ k \in Starts /\ k < l => BundlesBefore(k) < BundlesBefore(l)
           /\ (\A i \in k .. l - 1 : i \notin Starts) => BundlesBefore(k) = BundlesBefore(l)
  <1> DEFINE S(n) == {i \in Starts : i < n}
  <1>1. IsFiniteSet(1 .. Len(source))
    BY SourceFacts, FS_Interval
  <1>2. \A n \in Nat : S(n) \in SUBSET (1 .. Len(source))
    BY SourceFacts
  <1>3. \A n \in Nat : IsFiniteSet(S(n)) /\ Cardinality(S(n)) \in Nat
    BY <1>1, <1>2, FS_Subset, FS_CardinalityType
  <1>4. S(k) \in SUBSET S(l)
    BY SourceFacts
  <1>5. /\ Cardinality(S(k)) <= Cardinality(S(l))
        /\ Cardinality(S(l)) = Cardinality(S(k)) => S(l) = S(k)
    <2> HIDE DEF S
    <2> QED
      BY <1>3, <1>4, FS_Subset
  <1>6. ASSUME k \in Starts, k < l
        PROVE  S(l) # S(k)
    <2>1. k \in S(l) /\ k \notin S(k)
      BY <1>6
    <2> QED
      BY <2>1
  <1>7. ASSUME \A i \in k .. l - 1 : i \notin Starts
        PROVE  S(k) = S(l)
    BY <1>7, SourceFacts
  <1>8. Cardinality(S(k)) \in Nat /\ Cardinality(S(l)) \in Nat
    BY <1>3
  <1>9. BundlesBefore(k) = Cardinality(S(k)) /\ BundlesBefore(l) = Cardinality(S(l))
    BY DEF BundlesBefore
  <1> HIDE DEF S
  <1> QED
    BY <1>5, <1>6, <1>7, <1>8, <1>9

LEMMA AllCounted ==
    ASSUME SourceOK
    PROVE  BundlesBefore(1) = 0 /\ BundlesBefore(Len(source) + 1) = Cardinality(Starts)
  <1>1. {k \in Starts : k < 1} = {}
    BY SourceFacts
  <1>2. {k \in Starts : k < Len(source) + 1} = Starts
    BY SourceFacts
  <1> QED
    BY <1>1, <1>2, FS_EmptySet DEF BundlesBefore

-----------------------------------------------------------------------------
(* The invariant. *)

IsParts(parts) == IsSequence(parts) /\ \A k \in 1 .. Len(parts) : IsPart(parts[k])

\* Every variable of the body has its type, and bundles are numbered in order.
TypeInv ==
    /\ SourceOK
    /\ at \in Nat /\ placed \in Nat /\ bundleIndex \in Nat
    /\ inBlock \in BOOLEAN
    /\ IsSequence(pending)
    /\ IsParts(blockParts)
    /\ IsSequence(parsed) /\ Len(parsed) = bundleIndex
    /\ \A i \in 1 .. bundleIndex : /\ parsed[i] = [bundle |-> i - 1, parts |-> parsed[i].parts]
                                   /\ IsParts(parsed[i].parts)
    /\ labels \in [DOMAIN labels -> Nat]
    /\ phase \in Phases
    /\ phase = "lines" => at <= Len(source)
    /\ phase \in {"resolve", "emit", "done"} => at <= bundleIndex
    /\ phase # "lines" => headerPhase = "done"
    /\ phase \in {"lines", "resolve"} => placed = 0
    /\ headerPhase = "done" => width \in 1 .. 256

\* Instructions that the emission will refuse.
Spoilt(parts) == \E k \in DOMAIN parts : parts[k].op \notin Opcodes

\* A line out of place that did not end the reading leaves such instructions.
Broken(n) ==
    /\ \E l \in 1 .. n : ~WellPlaced(l)
    /\ \/ inBlock /\ Spoilt(blockParts)
       \/ \E i \in 1 .. bundleIndex : Spoilt(parsed[i].parts)

\* The first n lines, all in their place: the block that is open ...
BlockRead(n) ==
    /\ \A l \in 1 .. n : WellPlaced(l)
    /\ inBlock <=> InsideBlock(n + 1)
    /\ inBlock =>
         /\ pending = <<>>
         /\ \E o \in Starts :
              /\ o <= n /\ source[o].kind \in {"open", "spaced"}
              /\ BundlesBefore(o) = bundleIndex
              /\ Len(blockParts) = n - o
              /\ \A k \in 1 .. n - o : /\ source[o + k].kind # "close"
                                       /\ blockParts[k] = source[o + k].parts[1]

\* ... the bundles ...
BundlesRead(n) ==
    /\ BundlesBefore(n + 1) = bundleIndex + IF inBlock THEN 1 ELSE 0
    /\ \A l \in Starts : BundlesBefore(l) < bundleIndex =>
         parsed[BundlesBefore(l) + 1].parts = BundleParts(l)
    /\ \A i \in 1 .. bundleIndex : \E l \in Starts : BundlesBefore(l) + 1 = i

Names(k, l) == UNION {LabelsOf(i) : i \in k .. l}

Unique(k, l) ==
    \A i \in k .. l :
        /\ IsInjective(source[i].labels)
        /\ \A j \in (k .. l) \ {i} : LabelsOf(j) \cap LabelsOf(i) = {}

\* ... and the labels: those up to line p have their bundles, the others wait.
LabelsRead(n, p) ==
    /\ \A l \in p + 1 .. n : source[l].kind = "none"
    /\ Range(pending) = Names(p + 1, n)
    /\ IsInjective(pending) <=> Unique(p + 1, n)
    /\ Unique(1, p)
    /\ DOMAIN labels = Names(1, p)
    /\ \A l \in 1 .. p : \A x \in LabelsOf(l) :
         labels[x] = BundlesBefore(l) /\ labels[x] < BundlesBefore(n + 1)

ReadInv(n) ==
    \/ Broken(n)
    \/ BlockRead(n) /\ BundlesRead(n) /\ \E p \in 0 .. n : LabelsRead(n, p)

\* The instructions of the bundle that starts in line l, with their labels
\* resolved.
ResolvedParts(l) ==
    [k \in DOMAIN BundleParts(l) |-> ResolvePart(LabelBundles, BundleParts(l)[k])]

KnownLabels(l) ==
    \A k \in DOMAIN BundleParts(l) : \A word \in Words(BundleParts(l)[k]) :
        IsLabelRef(word) => word[2] \in LabelNames

\* When all lines have been read.
TextInv ==
    \/ /\ \E l \in LinesOf : ~WellPlaced(l)
       /\ \E i \in 1 .. bundleIndex : Spoilt(parsed[i].parts)
    \/ /\ WellStructured
       /\ labels = LabelBundles
       /\ Cardinality(Starts) = bundleIndex
       /\ \A i \in 1 .. bundleIndex : \E l \in Starts : BundlesBefore(l) + 1 = i
       /\ \A l \in Starts :
            /\ BundlesBefore(l) + 1 \in 1 .. bundleIndex
            /\ IF phase = "resolve" /\ BundlesBefore(l) >= at
               THEN parsed[BundlesBefore(l) + 1].parts = BundleParts(l)
               ELSE parsed[BundlesBefore(l) + 1].parts = ResolvedParts(l) /\ KnownLabels(l)

\* The instructions of a bundle that are in their slots.
Emitted(i) ==
    IF i <= at THEN Len(parsed[i].parts) ELSE IF i = at + 1 THEN placed ELSE 0

InSlot(i, s) == {k \in 1 .. Emitted(i) : SlotOf(parsed[i].parts[k].slot) = s - 1}

Input == {syllable \in Syllable : syllable.op = "Branch" => syllable.src = <<NoReg, NoReg>>}

EmitInv ==
    /\ at < bundleIndex => placed <= Len(parsed[at + 1].parts)
    /\ program \in [1 .. bundleIndex -> [1 .. width -> Input]]
    /\ \A i \in 1 .. bundleIndex : \A k \in 1 .. Emitted(i) : Parses(parsed[i].parts[k])
    /\ \A i \in 1 .. bundleIndex : \A s \in 1 .. width :
         \/ InSlot(i, s) = {} /\ program[i][s] = Nop
         \/ \E k \in InSlot(i, s) : /\ \A j \in InSlot(i, s) : k >= j
                                    /\ program[i][s] = SyllableOf(parsed[i].parts[k])

AssemblerInv ==
    /\ TypeInv
    /\ phase = "lines" => ReadInv(at)
    /\ phase \in {"resolve", "emit", "done"} => TextInv
    /\ phase \in {"emit", "done"} => EmitInv
    /\ phase = "done" => at = bundleIndex
    /\ phase = "failed" => ~WellFormed
-----------------------------------------------------------------------------
(* Types. *)

LEMMA NoParts == IsParts(<<>>)
  BY EmptySequence DEF IsParts

LEMMA GarbageIsAPart == IsPart(Garbage) /\ Garbage.op = "none" /\ "none" \notin Opcodes
  <1>1. IsSequence(Garbage.args) /\ Range(Garbage.args) = {}
    BY EmptySequence DEF Garbage, Part
  <1>2. WellTyped(Garbage.slot) /\ Garbage.guard \in Nat \X BOOLEAN
    <2>1. Garbage.slot = <<"num", 0>> /\ Garbage.guard = <<0, FALSE>>
      BY DEF Garbage, Part, Num, Always
    <2>2. WellTyped(<<"num", 0>>)
      BY DEF WellTyped
    <2>3. <<0, FALSE>> \in Nat \X BOOLEAN
      OBVIOUS
    <2> QED
      BY <2>1, <2>2, <2>3
  <1>3. Garbage = Part(Garbage.slot, Garbage.guard, Garbage.op, Garbage.args) /\ Garbage.op = "none"
    BY DEF Garbage, Part
  <1>4. "none" \notin Opcodes
    BY DEF Opcodes, GprWriters, IntegerOps, MultiplyOps, Fp32Ops, Fp64Ops, AesOps, Loads,
           Compares, IntegerCompares, FpCompares, Stores, ControlOps, PredicateOps
  <1> QED
    BY <1>1, <1>2, <1>3, <1>4 DEF IsPart

LEMMA OnePart ==
    ASSUME NEW part, IsPart(part)
    PROVE  IsParts(<<part>>) /\ Len(<<part>>) = 1 /\ <<part>>[1] = part
  <1>1. IsSequence(<<part>>) /\ Len(<<part>>) = 1 /\ <<part>>[1] = part
    BY OneElement
  <1> QED
    BY <1>1 DEF IsParts

\* One instruction more in a block.
LEMMA OneMorePart ==
    ASSUME NEW parts, IsParts(parts), NEW part, IsPart(part),
           NEW longer, longer = Append(parts, part)
    PROVE  /\ IsParts(longer) /\ Len(parts) \in Nat /\ Len(longer) = Len(parts) + 1
           /\ longer[Len(parts) + 1] = part /\ \A k \in 1 .. Len(parts) : longer[k] = parts[k]
  <1>1. /\ IsSequence(longer) /\ Len(longer) = Len(parts) + 1
        /\ longer[Len(parts) + 1] = part /\ \A i \in 1 .. Len(parts) : longer[i] = parts[i]
    <2>1. IsSequence(parts)
      BY DEF IsParts
    <2>2. IsSequence(longer) /\ Len(longer) = Len(parts) + 1
      BY <2>1, AppendFacts
    <2>3. longer[Len(parts) + 1] = part /\ \A i \in 1 .. Len(parts) : longer[i] = parts[i]
      BY <2>1, AppendFacts
    <2> QED
      BY <2>2, <2>3
  <1>2. Len(parts) \in Nat
    BY SequenceFacts DEF IsParts
  <1>3. \A k \in 1 .. Len(longer) : k \in 1 .. Len(parts) \/ k = Len(parts) + 1
    BY <1>1, <1>2
  <1>4. \A k \in 1 .. Len(longer) : IsPart(longer[k])
    BY <1>1, <1>3 DEF IsParts
  <1> QED
    BY <1>1, <1>2, <1>4 DEF IsParts

\* The line that is read next.
LEMMA NextLine ==
    ASSUME TypeInv, Reading
    PROVE  /\ at \in Nat /\ at + 1 \in 1 .. Len(source) /\ Len(source) \in Nat
           /\ LinesOf = 1 .. Len(source)
           /\ Line = source[at + 1] /\ IsLine(Line) /\ IsParts(Line.parts)
           /\ Line.kind \in LineKinds /\ IsSequence(Line.labels)
           /\ Line.kind = "slot" => IsPart(Line.parts[1])
  <1>1. /\ at \in Nat /\ at + 1 \in 1 .. Len(source) /\ Len(source) \in Nat
        /\ LinesOf = 1 .. Len(source)
    BY SourceFacts DEF TypeInv, Reading
  <1>2. Line = source[at + 1] /\ IsLine(Line)
    BY <1>1 DEF TypeInv, SourceOK, Line
  <1>3. IsSequence(Line.parts) /\ \A k \in 1 .. Len(Line.parts) : Line.parts[k] \in Range(Line.parts)
    BY <1>2, SequenceFacts DEF IsLine
  <1>4. IsParts(Line.parts)
    BY <1>2, <1>3 DEF IsLine, IsParts
  <1>5. Line.kind = "slot" => IsPart(Line.parts[1])
    BY <1>2, <1>4 DEF IsLine, IsParts
  <1> QED
    BY <1>1, <1>2, <1>4, <1>5 DEF IsLine

\* One more bundle.
LEMMA OneMoreBundle ==
    ASSUME TypeInv, NEW parts, IsParts(parts),
           parsed' = Append(parsed, [bundle |-> bundleIndex, parts |-> parts]),
           bundleIndex' = bundleIndex + 1
    PROVE  /\ IsSequence(parsed') /\ Len(parsed') = bundleIndex' /\ bundleIndex' \in Nat
           /\ \A i \in 1 .. bundleIndex : parsed'[i] = parsed[i]
           /\ parsed'[bundleIndex + 1].parts = parts
           /\ \A i \in 1 .. bundleIndex' :
                /\ parsed'[i] = [bundle |-> i - 1, parts |-> parsed'[i].parts]
                /\ IsParts(parsed'[i].parts)
  <1> DEFINE entry == [bundle |-> bundleIndex, parts |-> parts]
  <1>1. IsSequence(parsed) /\ Len(parsed) = bundleIndex /\ bundleIndex \in Nat
    BY DEF TypeInv
  <1>2. entry.parts = parts /\ entry = [bundle |-> bundleIndex, parts |-> entry.parts]
    OBVIOUS
  <1> HIDE DEF entry
  <1>3. parsed' = Append(parsed, entry)
    BY DEF entry
  <1>4. /\ IsSequence(parsed') /\ Len(parsed') = Len(parsed) + 1
        /\ parsed'[Len(parsed) + 1] = entry /\ \A i \in 1 .. Len(parsed) : parsed'[i] = parsed[i]
    <2>1. IsSequence(parsed') /\ Len(parsed') = Len(parsed) + 1
      BY <1>1, <1>3, AppendFacts
    <2>2. parsed'[Len(parsed) + 1] = entry /\ \A i \in 1 .. Len(parsed) : parsed'[i] = parsed[i]
      BY <1>1, <1>3, AppendFacts
    <2> QED
      BY <2>1, <2>2
  <1>5. ASSUME NEW i \in 1 .. bundleIndex'
        PROVE  /\ parsed'[i] = [bundle |-> i - 1, parts |-> parsed'[i].parts]
               /\ IsParts(parsed'[i].parts)
    <2>1. CASE i = bundleIndex + 1
      <3>1. i - 1 = bundleIndex /\ parsed'[i] = entry
        BY <1>1, <1>4, <2>1
      <3> QED
        BY <1>2, <3>1
    <2>2. CASE i # bundleIndex + 1
      <3>1. i \in 1 .. bundleIndex
        BY <1>1, <2>2
      <3>2. parsed'[i] = parsed[i]
        BY <1>1, <1>4, <3>1
      <3> QED
        BY <3>1, <3>2 DEF TypeInv
    <2> QED
      BY <2>1, <2>2
  <1> QED
    BY <1>1, <1>2, <1>4, <1>5

\* The labels of a line, and those that wait before it.
LEMMA WaitingLabels ==
    ASSUME TypeInv, Reading
    PROVE  IsSequence(LineLabels) /\ IsSequence(Waiting)
  <1>1. IsSequence(Line.labels)
    BY NextLine
  <1>2. IsSequence(LineLabels)
    <2>1. \A e : IsSequence(<<e>>)
      BY OneElement
    <2>2. IsSequence(<<>>)
      BY EmptySequence
    <2>3. CASE Line.kind = "slot" /\ Line.parts[1].slot[1] = "name"
      BY <1>1, <2>1, <2>3, ConcatFacts DEF LineLabels
    <2>4. CASE ~(Line.kind = "slot" /\ Line.parts[1].slot[1] = "name")
      <3>1. LineLabels = Line.labels \o <<>>
        BY <2>4 DEF LineLabels
      <3> QED
        BY <1>1, <2>2, <3>1, ConcatFacts
    <2> QED
      BY <2>3, <2>4
  <1>3. IsSequence(pending)
    BY DEF TypeInv
  <1> QED
    BY <1>2, <1>3, ConcatFacts DEF Waiting

LEMMA DefiningLabels ==
    ASSUME TypeInv, NEW names, NEW bundle \in Nat
    PROVE  Defining(names, bundle) \in [DOMAIN Defining(names, bundle) -> Nat]
  <1>1. \A x \in DOMAIN labels : labels[x] \in Nat
    BY DEF TypeInv
  <1> QED
    BY <1>1 DEF Defining

\* Labels have numbers in their place, so that an instruction stays one.
LEMMA ResolvedPart ==
    ASSUME NEW part, IsPart(part), NEW bundles,
           \A word \in Words(part) : IsLabelRef(word) => bundles[word[2]] \in Nat,
           NEW resolved, resolved = ResolvePart(bundles, part)
    PROVE  IsPart(resolved) /\ resolved.op = part.op
  <1> DEFINE R(word) == ResolveWord(bundles, word)
             args == [i \in DOMAIN part.args |-> R(part.args[i])]
  <1>1. /\ IsSequence(part.args) /\ WellTyped(part.slot) /\ part.guard \in Nat \X BOOLEAN
        /\ \A word \in Range(part.args) : WellTyped(word)
        /\ part = Part(part.slot, part.guard, part.op, part.args)
    BY DEF IsPart
  <1>2. \A word \in Words(part) : WellTyped(word)
    BY <1>1 DEF Words
  <1>3. ASSUME NEW word \in Words(part) PROVE WellTyped(R(word))
    <2>1. CASE IsLabelRef(word)
      <3>1. bundles[word[2]] \in Nat /\ R(word) = <<"num", bundles[word[2]]>>
        BY <2>1 DEF ResolveWord, Num
      <3> QED
        BY <3>1 DEF WellTyped
    <2>2. CASE ~IsLabelRef(word)
      BY <1>2, <2>2 DEF ResolveWord
    <2> QED
      BY <2>1, <2>2
  <1>4. resolved = Part(R(part.slot), part.guard, part.op, args)
    BY <1>1 DEF ResolvePart, Part
  <1>5. WellTyped(R(part.slot))
    BY <1>3 DEF Words
  <1>6. Len(part.args) \in Nat /\ DOMAIN part.args = 1 .. Len(part.args)
    BY <1>1, SequenceFacts
  <1>7. args = [i \in 1 .. Len(part.args) |-> args[i]]
    BY <1>6
  <1>8. IsSequence(args)
    <2> HIDE DEF args
    <2> QED
      BY <1>6, <1>7, ListIsASequence
  <1>9. ASSUME NEW word \in Range(args) PROVE WellTyped(word)
    <2>1. PICK i \in DOMAIN part.args : word = R(part.args[i])
      BY DEF Range
    <2>2. part.args[i] \in Words(part)
      BY DEF Words, Range
    <2> QED
      BY <1>3, <2>1, <2>2
  <1> HIDE DEF R, args
  <1>10. resolved.slot = R(part.slot) /\ resolved.guard = part.guard /\ resolved.op = part.op
         /\ resolved.args = args
    BY <1>4 DEF Part
  <1> QED
    BY <1>1, <1>4, <1>5, <1>8, <1>9, <1>10 DEF IsPart

\* Resolving the labels of a bundle changes nothing but its instructions.
LEMMA ResolvedBundle ==
    ASSUME TypeInv, phase = "resolve", at < Len(parsed),
           UnknownLabels(parsed[at + 1].parts) = {},
           parsed' = [parsed EXCEPT ![at + 1].parts =
                         [i \in DOMAIN @ |-> ResolvePart(labels, @[i])]]
    PROVE  /\ at + 1 \in 1 .. bundleIndex
           /\ IsSequence(parsed') /\ Len(parsed') = bundleIndex
           /\ \A i \in 1 .. bundleIndex :
                /\ parsed'[i] = [bundle |-> i - 1, parts |-> parsed'[i].parts]
                /\ IsParts(parsed'[i].parts)
                /\ i # at + 1 => parsed'[i] = parsed[i]
           /\ parsed'[at + 1].parts = [i \in DOMAIN parsed[at + 1].parts |->
                                          ResolvePart(labels, parsed[at + 1].parts[i])]
           /\ \A k \in DOMAIN parsed[at + 1].parts : \A word \in Words(parsed[at + 1].parts[k]) :
                IsLabelRef(word) => word[2] \in DOMAIN labels
  <1> DEFINE old == parsed[at + 1].parts
             new == [i \in DOMAIN old |-> ResolvePart(labels, old[i])]
  <1>1. /\ at + 1 \in 1 .. bundleIndex /\ DOMAIN parsed = 1 .. bundleIndex /\ bundleIndex \in Nat
        /\ IsSequence(parsed) /\ Len(parsed) = bundleIndex
        /\ parsed[at + 1] = [bundle |-> at, parts |-> old] /\ IsParts(old)
    <2>1. /\ at \in Nat /\ bundleIndex \in Nat /\ IsSequence(parsed) /\ Len(parsed) = bundleIndex
      BY DEF TypeInv
    <2>2. at + 1 \in 1 .. bundleIndex /\ at + 1 - 1 = at
      BY <2>1
    <2>3. DOMAIN parsed = 1 .. bundleIndex
      BY <2>1, SequenceFacts
    <2> QED
      BY <2>1, <2>2, <2>3 DEF TypeInv
  <1>2. ASSUME NEW k \in DOMAIN old, NEW word \in Words(old[k]), IsLabelRef(word)
        PROVE  word[2] \in DOMAIN labels
    BY <1>2 DEF UnknownLabels
  <1>3. IsSequence(old) /\ Len(old) \in Nat /\ DOMAIN old = 1 .. Len(old)
        /\ \A k \in 1 .. Len(old) : IsPart(old[k])
    BY <1>1, SequenceFacts DEF IsParts
  <1>4. parsed' = [parsed EXCEPT ![at + 1] = [@ EXCEPT !.parts = new]]
    OBVIOUS
  <1>5. IsParts(new)
    <2>1. \A x \in DOMAIN labels : labels[x] \in Nat
      BY DEF TypeInv
    <2>2. ASSUME NEW k \in DOMAIN old PROVE IsPart(new[k])
      <3>1. \A word \in Words(old[k]) : IsLabelRef(word) => labels[word[2]] \in Nat
        BY <1>2, <2>1
      <3>2. new[k] = ResolvePart(labels, old[k]) /\ IsPart(old[k])
        BY <1>3
      <3> HIDE DEF new, old
      <3> QED
        BY <3>1, <3>2, ResolvedPart
    <2>3. new = [k \in 1 .. Len(old) |-> new[k]]
      BY <1>3
    <2> HIDE DEF new, old
    <2> QED
      BY <1>3, <2>2, <2>3, ListIsASequence DEF IsParts
  <1> HIDE DEF new
  <1>6. /\ DOMAIN parsed' = 1 .. bundleIndex
        /\ parsed'[at + 1] = [bundle |-> at, parts |-> new]
        /\ \A i \in 1 .. bundleIndex : i # at + 1 => parsed'[i] = parsed[i]
        /\ parsed' = [i \in 1 .. bundleIndex |-> parsed'[i]]
    <2>1. [parsed[at + 1] EXCEPT !.parts = new] = [bundle |-> at, parts |-> new]
      BY <1>1
    <2> QED
      BY <1>1, <1>4, <2>1
  <1>7. IsSequence(parsed') /\ Len(parsed') = bundleIndex
    BY <1>1, <1>6, ListIsASequence
  <1>8. ASSUME NEW i \in 1 .. bundleIndex
        PROVE  /\ parsed'[i] = [bundle |-> i - 1, parts |-> parsed'[i].parts]
               /\ IsParts(parsed'[i].parts)
    <2>1. CASE i = at + 1
      <3>1. i - 1 = at
        BY <2>1 DEF TypeInv
      <3> QED
        BY <1>5, <1>6, <2>1, <3>1
    <2>2. CASE i # at + 1
      BY <1>6, <2>2 DEF TypeInv
    <2> QED
      BY <2>1, <2>2
  <1>9. parsed'[at + 1].parts = new
    BY <1>6
  <1> QED
    BY <1>1, <1>2, <1>6, <1>7, <1>8, <1>9 DEF new

\* Once the header is accepted no step changes it, and then its width is legal.
LEMMA HeaderStep ==
    ASSUME Header!Next
    PROVE  headerPhase # "done" /\ (headerPhase' = "done" => width' \in 1 .. 256)
  BY DEF Header!Next, Header!FindHeader, Header!NoHeader, Header!ParseLine, Header!Brace,
         Header!OpenBlock, Header!SetWidth, Header!BadWidth, Header!ReadFields, Header!BadField,
         Header!DeclareUnit, Header!DeclareSlot, Header!DeclareAlias, Header!BadDeclaration,
         Header!Accept, Header!Refuse, Header!Fail, Header!NextLine, Header!Parsing,
         Header!Validate

LEMMA TypeInvInit ==
    ASSUME Init
    PROVE  TypeInv /\ phase = "lines" /\ at = 0
  <1>1. SourceOK
    <2>1. PICK file \in Files : source = file[2]
      BY DEF Init
    <2> QED
      BY <2>1, FilesAssumption DEF SourceOK, LinesOf
  <1>2. /\ at = 0 /\ placed = 0 /\ bundleIndex = 0 /\ phase = "lines"
        /\ pending = <<>> /\ blockParts = <<>> /\ parsed = <<>>
    BY DEF Init
  <1>3. headerPhase # "done"
    BY DEF Init, Header!Init
  <1>4. inBlock \in BOOLEAN /\ labels \in [DOMAIN labels -> Nat]
    BY DEF Init
  <1>5. Len(source) \in Nat
    BY <1>1, SourceFacts
  <1>6. IsSequence(pending) /\ IsParts(blockParts) /\ IsSequence(parsed) /\ Len(parsed) = 0
    BY <1>2, EmptySequence, NoParts
  <1>7. /\ at \in Nat /\ placed \in Nat /\ bundleIndex \in Nat
        /\ \A i \in 1 .. bundleIndex : FALSE
        /\ at <= Len(source) /\ Len(parsed) = bundleIndex
    BY <1>2, <1>5, <1>6
  <1>8. phase = "lines" /\ phase \in Phases /\ placed = 0 /\ at = 0
    BY <1>2 DEF Phases
  <1> QED
    <2>1. \A i \in 1 .. bundleIndex : /\ parsed[i] = [bundle |-> i - 1, parts |-> parsed[i].parts]
                                      /\ IsParts(parsed[i].parts)
      BY <1>7
    <2> QED
      BY <1>1, <1>3, <1>4, <1>6, <1>7, <1>8, <2>1, Zenon DEF TypeInv

\* Every step keeps the types.
LEMMA TypeInvStep ==
    ASSUME TypeInv, [Next]_vars
    PROVE  TypeInv'
  <1>1. CASE UNCHANGED vars
    BY <1>1 DEF TypeInv, vars, headerVars, bodyVars, SourceOK, LinesOf, IsParts
  <1>2. CASE ParseHeader
    <2>1. UNCHANGED bodyVars /\ headerPhase # "done" /\ (headerPhase' = "done" => width' \in 1 .. 256)
      BY <1>2, HeaderStep DEF ParseHeader
    <2> QED
      BY <2>1 DEF TypeInv, bodyVars, SourceOK, LinesOf, IsParts
  <1>3. CASE ParseBody
    <2>0. /\ headerPhase = "done" /\ headerPhase' = "done" /\ width' = width
          /\ source' = source
      BY <1>3 DEF ParseBody, headerVars, CollectLine, LegacyHeader, CloseBlock, BlockLine,
         BadBlockLine, LabelLine, DuplicateLabel, OpenBlock, InlineBundle, UnfinishedText,
         EndOfText, ResolveBundle, UnknownLabel, AllResolved, EmitInstruction, BadInstruction,
         BundleEmitted, AllEmitted, Fail
    <2>1. SourceOK'
      BY <2>0 DEF TypeInv, SourceOK, LinesOf
    <2>2. CASE Fail
      BY <2>0, <2>1, <2>2 DEF TypeInv, Fail, Phases, IsParts
    <2>3. CASE CloseBlock
      <3>1. IsParts(blockParts) /\ IsParts(<<>>)
        BY NoParts DEF TypeInv
      <3>2. /\ parsed' = Append(parsed, [bundle |-> bundleIndex, parts |-> blockParts])
            /\ bundleIndex' = bundleIndex + 1 /\ inBlock' = FALSE /\ blockParts' = <<>>
            /\ at' = at + 1 /\ Reading /\ UNCHANGED <<source, labels, pending, placed, phase>>
        BY <2>3 DEF CloseBlock
      <3>3. /\ IsSequence(parsed') /\ Len(parsed') = bundleIndex' /\ bundleIndex' \in Nat
            /\ \A i \in 1 .. bundleIndex' :
                 /\ parsed'[i] = [bundle |-> i - 1, parts |-> parsed'[i].parts]
                 /\ IsParts(parsed'[i].parts)
        BY <3>1, <3>2, OneMoreBundle
      <3>4. at + 1 \in Nat /\ at + 1 <= Len(source)
        BY <3>2, NextLine
      <3> QED
        BY <2>0, <2>1, <3>1, <3>2, <3>3, <3>4 DEF TypeInv, Reading, IsParts
    <2>4. CASE BlockLine
      <3>1. PICK part : /\ blockParts' = Append(blockParts, part) /\ IsPart(part)
        <4>1. CASE Line.kind = "slot" /\ Line.labels = <<>>
          BY <2>4, <4>1, NextLine DEF BlockLine
        <4>2. CASE ~(Line.kind = "slot" /\ Line.labels = <<>>)
          BY <2>4, <4>2, GarbageIsAPart DEF BlockLine
        <4> QED
          BY <4>1, <4>2
      <3>2. IsParts(blockParts')
        BY <3>1, OneMorePart DEF TypeInv
      <3>3. /\ at' = at + 1 /\ Reading
            /\ UNCHANGED <<labels, pending, bundleIndex, inBlock, parsed, placed, phase>>
        BY <2>4 DEF BlockLine
      <3>4. at + 1 \in Nat /\ at + 1 <= Len(source)
        BY <3>3, NextLine
      <3> QED
        BY <2>0, <2>1, <3>2, <3>3, <3>4 DEF TypeInv, Reading, IsParts
    <2>5. CASE LabelLine
      <3>1. /\ at' = at + 1 /\ Reading /\ pending' = Waiting
            /\ UNCHANGED <<labels, bundleIndex, inBlock, blockParts, parsed, placed, phase>>
        BY <2>5 DEF LabelLine
      <3>2. at + 1 \in Nat /\ at + 1 <= Len(source) /\ IsSequence(pending')
        BY <3>1, NextLine, WaitingLabels
      <3> QED
        BY <2>0, <2>1, <3>1, <3>2 DEF TypeInv, Reading, IsParts
    <2>6. CASE OpenBlock
      <3>1. /\ at' = at + 1 /\ Reading /\ pending' = <<>> /\ inBlock' = TRUE /\ blockParts' = <<>>
            /\ labels' = Defining(Waiting, bundleIndex)
            /\ UNCHANGED <<bundleIndex, parsed, placed, phase>>
        BY <2>6 DEF OpenBlock
      <3>2. at + 1 \in Nat /\ at + 1 <= Len(source) /\ IsSequence(pending') /\ IsParts(blockParts')
        BY <3>1, NextLine, EmptySequence, NoParts
      <3>3. labels' \in [DOMAIN labels' -> Nat]
        BY <3>1, DefiningLabels DEF TypeInv
      <3> QED
        BY <2>0, <2>1, <3>1, <3>2, <3>3 DEF TypeInv, Reading, IsParts
    <2>7. CASE InlineBundle
      <3> DEFINE parts == IF Line.kind = "inline" THEN Line.parts ELSE <<Garbage>>
      <3>1. /\ at' = at + 1 /\ Reading /\ pending' = <<>>
            /\ labels' = Defining(Waiting, bundleIndex)
            /\ parsed' = Append(parsed, [bundle |-> bundleIndex, parts |-> parts])
            /\ bundleIndex' = bundleIndex + 1
            /\ UNCHANGED <<inBlock, blockParts, placed, phase>>
        BY <2>7 DEF InlineBundle
      <3>2. IsParts(parts)
        BY <3>1, NextLine, GarbageIsAPart, OnePart
      <3>3. at + 1 \in Nat /\ at + 1 <= Len(source) /\ IsSequence(pending')
        BY <3>1, NextLine, EmptySequence
      <3>4. labels' \in [DOMAIN labels' -> Nat]
        BY <3>1, DefiningLabels DEF TypeInv
      <3> HIDE DEF parts
      <3>5. /\ IsSequence(parsed') /\ Len(parsed') = bundleIndex' /\ bundleIndex' \in Nat
            /\ \A i \in 1 .. bundleIndex' :
                 /\ parsed'[i] = [bundle |-> i - 1, parts |-> parsed'[i].parts]
                 /\ IsParts(parsed'[i].parts)
        BY <3>1, <3>2, OneMoreBundle
      <3> QED
        BY <2>0, <2>1, <3>1, <3>3, <3>4, <3>5 DEF TypeInv, Reading, IsParts
    <2>8. CASE EndOfText
      <3>1. /\ at' = 0 /\ phase' = "resolve" /\ phase = "lines"
            /\ UNCHANGED <<labels, pending, bundleIndex, inBlock, blockParts, parsed, placed>>
        BY <2>8 DEF EndOfText
      <3> QED
        BY <2>0, <2>1, <3>1 DEF TypeInv, Phases, IsParts
    <2>9. CASE ResolveBundle
      <3>1. /\ at' = at + 1 /\ phase = "resolve" /\ at < Len(parsed)
            /\ UnknownLabels(parsed[at + 1].parts) = {}
            /\ parsed' = [parsed EXCEPT ![at + 1].parts =
                             [i \in DOMAIN @ |-> ResolvePart(labels, @[i])]]
            /\ UNCHANGED <<labels, pending, bundleIndex, inBlock, blockParts, placed, phase>>
        BY <2>9 DEF ResolveBundle
      <3>2. /\ IsSequence(parsed') /\ Len(parsed') = bundleIndex
            /\ \A i \in 1 .. bundleIndex :
                 /\ parsed'[i] = [bundle |-> i - 1, parts |-> parsed'[i].parts]
                 /\ IsParts(parsed'[i].parts)
        BY <3>1, ResolvedBundle
      <3> QED
        BY <2>0, <2>1, <3>1, <3>2 DEF TypeInv
    <2>10. CASE AllResolved
      <3>1. /\ at' = 0 /\ phase' = "emit" /\ phase = "resolve"
            /\ UNCHANGED <<labels, pending, bundleIndex, inBlock, blockParts, parsed, placed>>
        BY <2>10 DEF AllResolved
      <3> QED
        BY <2>0, <2>1, <3>1 DEF TypeInv, Phases, IsParts
    <2>11. CASE EmitInstruction
      <3>1. /\ phase = "emit" /\ at < Len(parsed) /\ placed' = placed + 1
            /\ UNCHANGED <<at, labels, pending, bundleIndex, inBlock, blockParts, parsed, phase>>
        BY <2>11 DEF EmitInstruction
      <3> QED
        BY <2>0, <2>1, <3>1 DEF TypeInv, IsParts
    <2>12. CASE BundleEmitted
      <3>1. /\ phase = "emit" /\ at < Len(parsed) /\ placed' = 0 /\ at' = at + 1
            /\ UNCHANGED <<labels, pending, bundleIndex, inBlock, blockParts, parsed, phase>>
        BY <2>12 DEF BundleEmitted
      <3> QED
        BY <2>0, <2>1, <3>1 DEF TypeInv, IsParts
    <2>13. CASE AllEmitted
      <3>1. /\ phase = "emit" /\ phase' = "done"
            /\ UNCHANGED <<at, labels, pending, bundleIndex, inBlock, blockParts, parsed, placed>>
        BY <2>13 DEF AllEmitted
      <3> QED
        BY <2>0, <2>1, <3>1 DEF TypeInv, Phases, IsParts
    <2> QED
      BY <1>3, <2>2, <2>3, <2>4, <2>5, <2>6, <2>7, <2>8, <2>9, <2>10, <2>11, <2>12, <2>13
         DEF ParseBody, CollectLine, LegacyHeader, BadBlockLine, DuplicateLabel, UnfinishedText,
             UnknownLabel, BadInstruction
  <1> QED
    BY <1>1, <1>2, <1>3 DEF Next

-----------------------------------------------------------------------------
(* Names of labels. *)

\* The labels of one line more.
LEMMA NamesNext ==
    ASSUME NEW k \in Nat, NEW l \in Nat, k <= l + 1
    PROVE  /\ Names(k, l + 1) = Names(k, l) \cup LabelsOf(l + 1)
           /\ Unique(k, l + 1) <=> /\ Unique(k, l)
                                   /\ IsInjective(source[l + 1].labels)
                                   /\ Names(k, l) \cap LabelsOf(l + 1) = {}
  <1>1. /\ \A i \in k .. l + 1 : i \in k .. l \/ i = l + 1
        /\ \A i \in k .. l : i \in k .. l + 1 /\ i # l + 1
        /\ l + 1 \in k .. l + 1
    OBVIOUS
  <1>2. Names(k, l + 1) = Names(k, l) \cup LabelsOf(l + 1)
    <2>1. \A x \in Names(k, l + 1) : x \in Names(k, l) \cup LabelsOf(l + 1)
      BY <1>1 DEF Names
    <2>2. \A x \in Names(k, l) \cup LabelsOf(l + 1) : x \in Names(k, l + 1)
      BY <1>1 DEF Names
    <2> QED
      BY <2>1, <2>2
  <1>3. ASSUME Unique(k, l + 1)
        PROVE  /\ Unique(k, l) /\ IsInjective(source[l + 1].labels)
               /\ Names(k, l) \cap LabelsOf(l + 1) = {}
    <2>1. Unique(k, l)
      BY <1>1, <1>3 DEF Unique
    <2>2. \A i \in k .. l : LabelsOf(i) \cap LabelsOf(l + 1) = {}
      BY <1>1, <1>3 DEF Unique
    <2>3. \A x \in Names(k, l) : x \notin LabelsOf(l + 1)
      BY <2>2 DEF Names
    <2> QED
      BY <1>1, <1>3, <2>1, <2>3 DEF Unique
  <1>4. ASSUME Unique(k, l), IsInjective(source[l + 1].labels),
               Names(k, l) \cap LabelsOf(l + 1) = {}
        PROVE  Unique(k, l + 1)
    <2>1. \A i \in k .. l : LabelsOf(i) \cap LabelsOf(l + 1) = {}
      BY <1>4 DEF Names
    <2>2. ASSUME NEW i \in k .. l + 1, NEW j \in (k .. l + 1) \ {i}
          PROVE  IsInjective(source[i].labels) /\ LabelsOf(j) \cap LabelsOf(i) = {}
      <3>1. CASE i = l + 1
        BY <1>1, <1>4, <2>1, <3>1
      <3>2. CASE j = l + 1
        <4>1. i \in k .. l
          BY <1>1, <3>2
        <4> QED
          BY <1>4, <2>1, <3>2, <4>1 DEF Unique
      <3>3. CASE i # l + 1 /\ j # l + 1
        BY <1>1, <1>4, <3>3 DEF Unique
      <3> QED
        BY <3>1, <3>2, <3>3
    <2>3. \A i \in k .. l + 1 : IsInjective(source[i].labels)
      BY <1>1, <1>4 DEF Unique
    <2> QED
      BY <2>2, <2>3 DEF Unique
  <1> QED
    BY <1>2, <1>3, <1>4

\* The labels of two stretches of the text.
LEMMA NamesJoin ==
    ASSUME NEW p \in Nat, NEW m \in Nat, p <= m
    PROVE  /\ Names(1, m) = Names(1, p) \cup Names(p + 1, m)
           /\ Unique(1, m) <=> /\ Unique(1, p) /\ Unique(p + 1, m)
                               /\ Names(1, p) \cap Names(p + 1, m) = {}
  <1>1. /\ \A i \in 1 .. m : i \in 1 .. p \/ i \in p + 1 .. m
        /\ \A i \in 1 .. p : i \in 1 .. m /\ i \notin p + 1 .. m
        /\ \A i \in p + 1 .. m : i \in 1 .. m
    OBVIOUS
  <1>2. Names(1, m) = Names(1, p) \cup Names(p + 1, m)
    <2>1. \A x \in Names(1, m) : x \in Names(1, p) \cup Names(p + 1, m)
      BY <1>1 DEF Names
    <2>2. \A x \in Names(1, p) \cup Names(p + 1, m) : x \in Names(1, m)
      BY <1>1 DEF Names
    <2> QED
      BY <2>1, <2>2
  <1>3. ASSUME Unique(1, m)
        PROVE  /\ Unique(1, p) /\ Unique(p + 1, m)
               /\ Names(1, p) \cap Names(p + 1, m) = {}
    <2>1. Unique(1, p)
      BY <1>1, <1>3 DEF Unique
    <2>2. Unique(p + 1, m)
      BY <1>1, <1>3 DEF Unique
    <2>3. \A i \in 1 .. p : \A j \in p + 1 .. m : LabelsOf(i) \cap LabelsOf(j) = {}
      BY <1>1, <1>3 DEF Unique
    <2>4. \A x \in Names(1, p) : x \notin Names(p + 1, m)
      BY <2>3 DEF Names
    <2> QED
      BY <2>1, <2>2, <2>4
  <1>4. ASSUME Unique(1, p), Unique(p + 1, m), Names(1, p) \cap Names(p + 1, m) = {}
        PROVE  Unique(1, m)
    <2>1. \A i \in 1 .. p : \A j \in p + 1 .. m : LabelsOf(i) \cap LabelsOf(j) = {}
      BY <1>4 DEF Names
    <2>2. ASSUME NEW i \in 1 .. m, NEW j \in (1 .. m) \ {i}
          PROVE  LabelsOf(j) \cap LabelsOf(i) = {}
      <3>1. CASE i \in 1 .. p /\ j \in 1 .. p
        BY <1>4, <3>1 DEF Unique
      <3>2. CASE i \in p + 1 .. m /\ j \in p + 1 .. m
        BY <1>4, <3>2 DEF Unique
      <3>3. CASE i \in 1 .. p /\ j \in p + 1 .. m
        BY <2>1, <3>3
      <3>4. CASE i \in p + 1 .. m /\ j \in 1 .. p
        BY <2>1, <3>4
      <3> QED
        BY <1>1, <3>1, <3>2, <3>3, <3>4
    <2>3. \A i \in 1 .. m : IsInjective(source[i].labels)
      BY <1>1, <1>4 DEF Unique
    <2> QED
      BY <2>2, <2>3 DEF Unique
  <1> QED
    BY <1>2, <1>3, <1>4

LEMMA NoNames ==
    ASSUME NEW k \in Nat
    PROVE  Names(k + 1, k) = {} /\ Unique(k + 1, k)
  <1>1. k + 1 .. k = {}
    OBVIOUS
  <1> QED
    BY <1>1 DEF Names, Unique

\* The labels of the whole text.
LEMMA AllNames ==
    ASSUME SourceOK
    PROVE  /\ LabelNames = Names(1, Len(source))
           /\ LabelsAreUnique <=> Unique(1, Len(source))
           /\ \A m \in Nat : m <= Len(source) /\ LabelsAreUnique => Unique(1, m)
  <1>1. LinesOf = 1 .. Len(source) /\ Len(source) \in Nat
    BY SourceFacts
  <1>2. LabelsAreUnique <=> Unique(1, Len(source))
    BY <1>1 DEF LabelsAreUnique, Unique
  <1>3. ASSUME NEW m \in Nat, m <= Len(source), LabelsAreUnique
        PROVE  Unique(1, m)
    BY <1>1, <1>2, <1>3, NamesJoin
  <1> QED
    BY <1>1, <1>2, <1>3 DEF LabelNames, Names

LEMMA LineLabelsAre ==
    ASSUME TypeInv, Reading, Line.kind # "slot"
    PROVE  Waiting = pending \o source[at + 1].labels
  <1>1. IsSequence(Line.labels) /\ Line = source[at + 1]
    BY NextLine
  <1>2. Line.labels \o <<>> = Line.labels
    <2>1. \A T : \A s \in Seq(T) : s \o <<>> = s
      BY ConcatEmptySeq, Zenon
    <2>2. Line.labels \in Seq(Range(Line.labels))
      BY <1>1 DEF IsSequence
    <2> QED
      BY <2>1, <2>2, Zenon
  <1>3. LineLabels = Line.labels
    BY <1>2 DEF LineLabels
  <1> QED
    BY <1>1, <1>3 DEF Waiting

\* The labels that wait are those of the lines behind line p.
LEMMA WaitingFacts ==
    ASSUME TypeInv, Reading, Line.kind # "slot",
           NEW p \in 0 .. at, LabelsRead(at, p)
    PROVE  /\ Range(Waiting) = Names(p + 1, at + 1)
           /\ IsInjective(Waiting) <=> Unique(p + 1, at + 1)
           /\ Duplicate(Waiting) <=> ~Unique(1, at + 1)
  <1>1. Waiting = pending \o source[at + 1].labels
    BY LineLabelsAre
  <1>2. IsSequence(pending) /\ IsSequence(source[at + 1].labels) /\ at \in Nat
    BY NextLine DEF TypeInv
  <1>3. Range(pending) = Names(p + 1, at) /\ (IsInjective(pending) <=> Unique(p + 1, at))
    BY DEF LabelsRead
  <1>4. p \in Nat /\ p <= at
    BY <1>2
  <1>5. /\ Range(Waiting) = Range(pending) \cup LabelsOf(at + 1)
        /\ IsInjective(Waiting) <=> /\ IsInjective(pending)
                                    /\ IsInjective(source[at + 1].labels)
                                    /\ Range(pending) \cap LabelsOf(at + 1) = {}
    <2> DEFINE t == Waiting
               s == pending
               u == source[at + 1].labels
    <2>1. t = s \o u /\ IsSequence(s) /\ IsSequence(u)
      BY <1>1, <1>2
    <2> HIDE DEF t, s, u
    <2>2. Range(t) = Range(s) \cup Range(u)
      BY <2>1, ConcatFacts
    <2>3. IsInjective(t) <=> IsInjective(s) /\ IsInjective(u) /\ Range(s) \cap Range(u) = {}
      BY <2>1, ConcatFacts
    <2> QED
      BY <2>2, <2>3, Zenon DEF t, s, u, LabelsOf
  <1>6. /\ Names(p + 1, at + 1) = Names(p + 1, at) \cup LabelsOf(at + 1)
        /\ Unique(p + 1, at + 1) <=> /\ Unique(p + 1, at)
                                     /\ IsInjective(source[at + 1].labels)
                                     /\ Names(p + 1, at) \cap LabelsOf(at + 1) = {}
    BY <1>2, <1>4, NamesNext
  <1>7. /\ Range(Waiting) = Names(p + 1, at + 1)
        /\ IsInjective(Waiting) <=> Unique(p + 1, at + 1)
    BY <1>3, <1>5, <1>6
  <1>8. Unique(1, at + 1) <=> /\ Unique(1, p) /\ Unique(p + 1, at + 1)
                              /\ Names(1, p) \cap Names(p + 1, at + 1) = {}
    BY <1>2, <1>4, NamesJoin
  <1>9. Unique(1, p) /\ DOMAIN labels = Names(1, p)
    BY DEF LabelsRead
  <1>10. (\E i \in DOMAIN Waiting : Waiting[i] \in DOMAIN labels)
           <=> Names(1, p) \cap Names(p + 1, at + 1) # {}
    BY <1>7, <1>9 DEF Range
  <1> QED
    BY <1>7, <1>8, <1>9, <1>10 DEF Duplicate

-----------------------------------------------------------------------------
(* Reading lines: the labels. *)

\* Steps that keep the text keep what is read in it.
LEMMA SameText ==
    ASSUME source' = source
    PROVE  /\ LinesOf' = LinesOf /\ Starts' = Starts
           /\ \A l : /\ BundlesBefore(l)' = BundlesBefore(l)
                     /\ InsideBlock(l)' = InsideBlock(l)
                     /\ WellPlaced(l)' = WellPlaced(l)
                     /\ LabelsOf(l)' = LabelsOf(l)
                     /\ BundleParts(l)' = BundleParts(l)
           /\ \A k, l : Names(k, l)' = Names(k, l) /\ Unique(k, l)' = Unique(k, l)
  BY DEF LinesOf, Starts, BundlesBefore, InsideBlock, WellPlaced, LabelsOf, BundleParts, Names,
         Unique

\* A line without labels when none wait.
LEMMA LabelsPassed ==
    ASSUME TypeInv, Reading, NEW p \in 0 .. at, LabelsRead(at, p),
           pending = <<>>, Line.labels = <<>>, UNCHANGED <<source, labels, pending>>,
           NEW n, n = at + 1
    PROVE  LabelsRead(n, n)'
  <1>1. at \in Nat /\ p \in Nat /\ p <= at /\ Line = source[n] /\ n \in Nat
    BY NextLine
  <1>2. Range(pending) = {} /\ LabelsOf(n) = {}
    BY <1>1, EmptySequence DEF LabelsOf
  <1>3. IsInjective(pending) /\ IsInjective(source[n].labels)
    BY <1>1, EmptySequence
  <1>4. Names(p + 1, at) = {} /\ Unique(p + 1, at) /\ Unique(1, p) /\ DOMAIN labels = Names(1, p)
    <2>1. /\ Range(pending) = Names(p + 1, at) /\ (IsInjective(pending) <=> Unique(p + 1, at))
          /\ Unique(1, p) /\ DOMAIN labels = Names(1, p)
      BY DEF LabelsRead
    <2> QED
      BY <1>2, <1>3, <2>1
  <1>5. Names(1, at) = Names(1, p) /\ Unique(1, at)
    <2>1. /\ Names(1, at) = Names(1, p) \cup Names(p + 1, at)
          /\ Unique(1, at) <=> /\ Unique(1, p) /\ Unique(p + 1, at)
                               /\ Names(1, p) \cap Names(p + 1, at) = {}
      BY <1>1, NamesJoin
    <2> QED
      BY <1>4, <2>1
  <1>6. Names(1, n) = Names(1, at) /\ Unique(1, n)
    <2>1. 1 \in Nat /\ 1 <= at + 1
      BY <1>1
    <2>2. /\ Names(1, at + 1) = Names(1, at) \cup LabelsOf(at + 1)
          /\ Unique(1, at + 1) <=> /\ Unique(1, at)
                                   /\ IsInjective(source[at + 1].labels)
                                   /\ Names(1, at) \cap LabelsOf(at + 1) = {}
      BY <1>1, <2>1, NamesNext
    <2> QED
      BY <1>2, <1>3, <1>5, <2>2
  <1>7. ASSUME NEW l \in 1 .. n, NEW x \in LabelsOf(l)
        PROVE  labels[x] = BundlesBefore(l) /\ labels[x] < BundlesBefore(n + 1)
    <2>1. l # n
      BY <1>2
    <2>2. l \notin p + 1 .. at
      BY <1>4 DEF Names
    <2>3. l \in 1 .. p
      BY <1>1, <2>1, <2>2
    <2>4. labels[x] = BundlesBefore(l) /\ labels[x] < BundlesBefore(n)
      BY <2>3 DEF LabelsRead
    <2>5. BundlesBefore(n) \in Nat /\ BundlesBefore(n + 1) \in Nat /\ BundlesBefore(l) \in Nat
      BY <1>1, Counts DEF TypeInv
    <2>6. BundlesBefore(n) <= BundlesBefore(n + 1)
      BY <1>1, CountsGrow DEF TypeInv
    <2> QED
      BY <2>4, <2>5, <2>6
  <1>8. Names(n + 1, n) = {} /\ Unique(n + 1, n)
    BY <1>1, NoNames
  <1>9. \A l \in n + 1 .. n : source[l].kind = "none"
    BY <1>1
  <1>10. /\ Range(pending) = Names(n + 1, n)
         /\ IsInjective(pending) <=> Unique(n + 1, n)
         /\ Unique(1, n)
         /\ DOMAIN labels = Names(1, n)
    BY <1>2, <1>3, <1>4, <1>5, <1>6, <1>8
  <1> QED
    BY <1>7, <1>9, <1>10, SameText DEF LabelsRead

\* A line of labels: they wait as well.
LEMMA LabelsWait ==
    ASSUME TypeInv, Reading, Line.kind = "none", NEW p \in 0 .. at, LabelsRead(at, p),
           pending' = Waiting, UNCHANGED <<source, labels>>, NEW n, n = at + 1
    PROVE  LabelsRead(n, p)'
  <1>1. at \in Nat /\ p \in Nat /\ p <= at /\ Line = source[n] /\ n \in Nat
    BY NextLine
  <1>2. /\ Range(pending') = Names(p + 1, n)
        /\ IsInjective(pending') <=> Unique(p + 1, n)
    BY WaitingFacts
  <1>3. \A l \in p + 1 .. n : source[l].kind = "none"
    <2>1. \A l \in p + 1 .. n : l \in p + 1 .. at \/ l = n
      BY <1>1
    <2> QED
      BY <1>1, <2>1 DEF LabelsRead
  <1>4. Unique(1, p) /\ DOMAIN labels = Names(1, p)
    BY DEF LabelsRead
  <1>5. ASSUME NEW l \in 1 .. p, NEW x \in LabelsOf(l)
        PROVE  labels[x] = BundlesBefore(l) /\ labels[x] < BundlesBefore(n + 1)
    <2>1. labels[x] = BundlesBefore(l) /\ labels[x] < BundlesBefore(n)
      BY DEF LabelsRead
    <2>2. BundlesBefore(n) \in Nat /\ BundlesBefore(n + 1) \in Nat /\ BundlesBefore(l) \in Nat
      BY <1>1, Counts DEF TypeInv
    <2>3. BundlesBefore(n) <= BundlesBefore(n + 1)
      BY <1>1, CountsGrow DEF TypeInv
    <2> QED
      BY <2>1, <2>2, <2>3
  <1> QED
    BY <1>2, <1>3, <1>4, <1>5, SameText DEF LabelsRead

\* A bundle: it gets the labels that wait.
LEMMA LabelsDefined ==
    ASSUME TypeInv, Reading, Line.kind # "slot", NEW p \in 0 .. at, LabelsRead(at, p),
           ~Duplicate(Waiting), NEW n, n = at + 1,
           n \in Starts, BundlesBefore(n) = bundleIndex,
           labels' = Defining(Waiting, bundleIndex), pending' = <<>>, source' = source
    PROVE  LabelsRead(n, n)'
  <1>1. at \in Nat /\ p \in Nat /\ p <= at /\ n \in Nat /\ p <= n
    BY NextLine
  <1>2. Range(Waiting) = Names(p + 1, n) /\ Unique(1, n)
    BY WaitingFacts
  <1>3. Unique(1, p) /\ DOMAIN labels = Names(1, p)
    BY DEF LabelsRead
  <1>4. Names(1, n) = Names(1, p) \cup Names(p + 1, n) /\ Names(1, p) \cap Names(p + 1, n) = {}
    BY <1>1, <1>2, NamesJoin
  <1>5. /\ DOMAIN labels' = Names(1, n)
        /\ \A x \in Names(p + 1, n) : labels'[x] = bundleIndex
        /\ \A x \in Names(1, p) : labels'[x] = labels[x]
    BY <1>2, <1>3, <1>4 DEF Defining
  <1>6. bundleIndex < BundlesBefore(n + 1) /\ BundlesBefore(n) \in Nat /\ BundlesBefore(n + 1) \in Nat
    BY <1>1, Counts DEF TypeInv
  <1>7. ASSUME NEW l \in 1 .. n, NEW x \in LabelsOf(l)
        PROVE  labels'[x] = BundlesBefore(l) /\ labels'[x] < BundlesBefore(n + 1)
    <2>1. CASE l \in 1 .. p
      <3>1. x \in Names(1, p)
        BY <2>1 DEF Names
      <3>2. labels[x] = BundlesBefore(l) /\ labels[x] < BundlesBefore(n)
        BY <2>1 DEF LabelsRead
      <3>3. BundlesBefore(l) \in Nat
        BY <2>1, Counts DEF TypeInv
      <3> QED
        BY <1>5, <1>6, <3>1, <3>2, <3>3
    <2>2. CASE l \notin 1 .. p
      <3>1. l \in p + 1 .. n /\ l \in Nat /\ l <= n
        BY <1>1, <2>2
      <3>2. x \in Names(p + 1, n)
        BY <3>1 DEF Names
      <3>3. \A i \in l .. n - 1 : i \in p + 1 .. at
        BY <1>1, <3>1
      <3>4. \A i \in l .. n - 1 : i \notin Starts
        BY <3>3 DEF LabelsRead, Starts
      <3>5. BundlesBefore(l) = BundlesBefore(n)
        BY <1>1, <3>1, <3>4, CountsGrow DEF TypeInv
      <3> QED
        BY <1>5, <1>6, <3>2, <3>5
    <2> QED
      BY <2>1, <2>2
  <1>8. Names(n + 1, n) = {} /\ Unique(n + 1, n)
    BY <1>1, NoNames
  <1>9. \A l \in n + 1 .. n : source[l].kind = "none"
    BY <1>1
  <1>10. Range(pending') = {} /\ IsInjective(pending')
    BY EmptySequence
  <1>11. /\ Range(pending') = Names(n + 1, n)
         /\ IsInjective(pending') <=> Unique(n + 1, n)
    BY <1>8, <1>10
  <1> QED
    BY <1>2, <1>5, <1>7, <1>9, <1>11, SameText DEF LabelsRead

-----------------------------------------------------------------------------
(* Reading lines: what is out of place. *)

\* What changes in the bundles.
LEMMA ReadParts ==
    ASSUME TypeInv, Reading, CloseBlock \/ BlockLine \/ LabelLine \/ OpenBlock \/ InlineBundle
    PROVE  /\ source' = source /\ at' = at + 1 /\ phase' = phase
           /\ bundleIndex \in Nat /\ bundleIndex' \in Nat /\ bundleIndex <= bundleIndex'
           /\ \A i \in 1 .. bundleIndex : i \in 1 .. bundleIndex' /\ parsed'[i] = parsed[i]
  <1>1. bundleIndex \in Nat
    BY DEF TypeInv
  <1>2. CASE CloseBlock
    <2>1. IsParts(blockParts)
      BY DEF TypeInv
    <2>2. /\ parsed' = Append(parsed, [bundle |-> bundleIndex, parts |-> blockParts])
          /\ bundleIndex' = bundleIndex + 1
          /\ source' = source /\ at' = at + 1 /\ phase' = phase
      BY <1>2 DEF CloseBlock
    <2>3. \A i \in 1 .. bundleIndex : parsed'[i] = parsed[i]
      BY <2>1, <2>2, OneMoreBundle
    <2>4. /\ bundleIndex' = bundleIndex + 1
          /\ source' = source /\ at' = at + 1 /\ phase' = phase
      BY <2>2
    <2> QED
      BY <1>1, <2>3, <2>4
  <1>3. CASE InlineBundle
    <2> DEFINE parts == IF Line.kind = "inline" THEN Line.parts ELSE <<Garbage>>
    <2>1. /\ parsed' = Append(parsed, [bundle |-> bundleIndex, parts |-> parts])
          /\ bundleIndex' = bundleIndex + 1
          /\ source' = source /\ at' = at + 1 /\ phase' = phase
      BY <1>3 DEF InlineBundle
    <2>2. IsParts(parts)
      BY NextLine, GarbageIsAPart, OnePart
    <2> HIDE DEF parts
    <2>3. \A i \in 1 .. bundleIndex : parsed'[i] = parsed[i]
      BY <2>1, <2>2, OneMoreBundle
    <2>4. /\ bundleIndex' = bundleIndex + 1
          /\ source' = source /\ at' = at + 1 /\ phase' = phase
      BY <2>1
    <2> QED
      BY <1>1, <2>3, <2>4
  <1>4. CASE BlockLine \/ LabelLine \/ OpenBlock
    <2>1. /\ source' = source /\ at' = at + 1 /\ phase' = phase
          /\ bundleIndex' = bundleIndex /\ parsed' = parsed
      BY <1>4 DEF BlockLine, LabelLine, OpenBlock
    <2> QED
      BY <1>1, <2>1
  <1> QED
    BY <1>2, <1>3, <1>4

\* What will be refused remains, whatever line comes next.
LEMMA BrokenStays ==
    ASSUME TypeInv, Reading, NEW n, n = at + 1,
           CloseBlock \/ BlockLine \/ LabelLine \/ OpenBlock \/ InlineBundle,
           Broken(at)
    PROVE  Broken(n)'
  <1>1. at \in Nat /\ n \in Nat
    BY NextLine
  <1>2. PICK l \in 1 .. at : ~WellPlaced(l)
    BY DEF Broken
  <1>3. /\ source' = source /\ bundleIndex \in Nat /\ bundleIndex' \in Nat
        /\ \A i \in 1 .. bundleIndex : i \in 1 .. bundleIndex' /\ parsed'[i] = parsed[i]
    BY ReadParts
  <1>4. l \in 1 .. n /\ ~WellPlaced(l)'
    BY <1>1, <1>2, <1>3, SameText
  <1>5. CASE \E i \in 1 .. bundleIndex : Spoilt(parsed[i].parts)
    <2>1. PICK i \in 1 .. bundleIndex : Spoilt(parsed[i].parts)
      BY <1>5
    <2>2. i \in 1 .. bundleIndex' /\ Spoilt(parsed'[i].parts)
      BY <1>3, <2>1
    <2> QED
      BY <1>4, <2>2 DEF Broken, Spoilt
  <1>6. CASE inBlock /\ Spoilt(blockParts)
    <2>1. CASE CloseBlock
      <3>1. /\ parsed' = Append(parsed, [bundle |-> bundleIndex, parts |-> blockParts])
            /\ bundleIndex' = bundleIndex + 1 /\ IsParts(blockParts)
        BY <2>1 DEF CloseBlock, TypeInv
      <3>2. parsed'[bundleIndex + 1].parts = blockParts
        BY <3>1, OneMoreBundle
      <3>3. bundleIndex' = bundleIndex + 1
        BY <3>1
      <3>4. bundleIndex + 1 \in 1 .. bundleIndex'
        BY <1>3, <3>3
      <3>5. Spoilt(parsed'[bundleIndex + 1].parts)
        BY <1>6, <3>2
      <3> QED
        BY <1>4, <3>4, <3>5 DEF Broken, Spoilt
    <2>2. CASE BlockLine
      <3>1. PICK part : blockParts' = Append(blockParts, part)
        BY <2>2 DEF BlockLine
      <3>2. IsSequence(blockParts) /\ DOMAIN blockParts = 1 .. Len(blockParts) /\ Len(blockParts) \in Nat
        BY SequenceFacts DEF TypeInv, IsParts
      <3>3. IsSequence(blockParts') /\ Len(blockParts') = Len(blockParts) + 1
        BY <3>1, <3>2, AppendFacts
      <3>4. \A k \in 1 .. Len(blockParts) : blockParts'[k] = blockParts[k]
        BY <3>1, <3>2, AppendFacts
      <3>5. DOMAIN blockParts' = 1 .. Len(blockParts')
        BY <3>3, SequenceFacts
      <3>6. Spoilt(blockParts')
        BY <1>6, <3>2, <3>3, <3>4, <3>5 DEF Spoilt
      <3>7. inBlock'
        BY <1>6, <2>2 DEF BlockLine
      <3> QED
        BY <1>4, <3>6, <3>7 DEF Broken, Spoilt
    <2>3. CASE LabelLine \/ OpenBlock \/ InlineBundle
      BY <1>6, <2>3 DEF LabelLine, OpenBlock, InlineBundle
    <2> QED
      BY <2>1, <2>2, <2>3
  <1> QED
    BY <1>5, <1>6 DEF Broken

\* A line out of place becomes an instruction that will be refused.
LEMMA BrokenNow ==
    ASSUME TypeInv, Reading, NEW n, n = at + 1,
           CloseBlock \/ BlockLine \/ LabelLine \/ OpenBlock \/ InlineBundle,
           inBlock <=> InsideBlock(n), ~WellPlaced(n)
    PROVE  Broken(n)'
  <1>1. at \in Nat /\ n \in Nat /\ Line = source[n]
    BY NextLine
  <1>2. source' = source /\ bundleIndex \in Nat
    BY ReadParts
  <1>3. n \in 1 .. n /\ ~WellPlaced(n)'
    BY <1>1, <1>2, SameText
  <1>4. CASE BlockLine
    <2>1. InsideBlock(n) /\ ~(Line.kind = "slot" /\ Line.labels = <<>>)
      BY <1>1, <1>4 DEF BlockLine, WellPlaced
    <2>2. blockParts' = Append(blockParts, Garbage) /\ inBlock'
      BY <1>4, <2>1 DEF BlockLine
    <2>3. IsSequence(blockParts) /\ Len(blockParts) \in Nat
      BY SequenceFacts DEF TypeInv, IsParts
    <2>4. IsSequence(blockParts') /\ Len(blockParts') = Len(blockParts) + 1
      BY <2>2, <2>3, AppendFacts
    <2>5. blockParts'[Len(blockParts) + 1] = Garbage
      BY <2>2, <2>3, AppendFacts
    <2>6. DOMAIN blockParts' = 1 .. Len(blockParts')
      BY <2>4, SequenceFacts
    <2>7. Spoilt(blockParts')
      BY <2>3, <2>4, <2>5, <2>6, GarbageIsAPart DEF Spoilt
    <2> QED
      BY <1>3, <2>2, <2>7 DEF Broken, Spoilt
  <1>5. CASE InlineBundle
    <2>1. ~InsideBlock(n) /\ Line.kind # "inline"
      BY <1>1, <1>5 DEF InlineBundle, WellPlaced
    <2>2. /\ parsed' = Append(parsed, [bundle |-> bundleIndex, parts |-> <<Garbage>>])
          /\ bundleIndex' = bundleIndex + 1
      BY <1>5, <2>1 DEF InlineBundle
    <2>3. IsParts(<<Garbage>>)
      BY GarbageIsAPart, OnePart
    <2>4. parsed'[bundleIndex + 1].parts = <<Garbage>>
      BY <2>2, <2>3, OneMoreBundle
    <2>5. Spoilt(<<Garbage>>)
      BY GarbageIsAPart DEF Spoilt
    <2>6. bundleIndex' = bundleIndex + 1
      BY <2>2
    <2>7. bundleIndex + 1 \in 1 .. bundleIndex'
      BY <1>2, <2>6
    <2>8. Spoilt(parsed'[bundleIndex + 1].parts)
      BY <2>4, <2>5
    <2> QED
      BY <1>3, <2>7, <2>8 DEF Broken, Spoilt
  <1>6. CASE CloseBlock \/ LabelLine \/ OpenBlock
    BY <1>1, <1>6 DEF CloseBlock, LabelLine, OpenBlock, WellPlaced
  <1> QED
    BY <1>4, <1>5, <1>6

-----------------------------------------------------------------------------
(* Reading lines: the bundles. *)

\* Lines that start a bundle have different numbers before them.
LEMMA StartsDiffer ==
    ASSUME SourceOK, NEW k \in Starts, NEW l \in Starts, BundlesBefore(k) = BundlesBefore(l)
    PROVE  k = l
  <1>1. k \in Nat /\ l \in Nat
    BY SourceFacts
  <1>2. BundlesBefore(k) \in Nat /\ BundlesBefore(l) \in Nat
    BY <1>1, Counts
  <1>3. ASSUME k < l PROVE FALSE
    <2>1. BundlesBefore(k) < BundlesBefore(l)
      BY <1>1, <1>3, CountsGrow
    <2> QED
      BY <1>2, <2>1
  <1>4. ASSUME l < k PROVE FALSE
    <2>1. BundlesBefore(l) < BundlesBefore(k)
      BY <1>1, <1>4, CountsGrow
    <2> QED
      BY <1>2, <2>1
  <1> QED
    BY <1>1, <1>3, <1>4

BundlesKept ==
    /\ \A l \in Starts : BundlesBefore(l) < bundleIndex =>
         parsed[BundlesBefore(l) + 1].parts = BundleParts(l)
    /\ \A i \in 1 .. bundleIndex : \E l \in Starts : BundlesBefore(l) + 1 = i

\* The bundle that line o starts is the next one.
LEMMA BundleAdded ==
    ASSUME TypeInv, BundlesKept, NEW o \in Starts, BundlesBefore(o) = bundleIndex,
           source' = source, bundleIndex' = bundleIndex + 1,
           \A i \in 1 .. bundleIndex : parsed'[i] = parsed[i],
           parsed'[bundleIndex + 1].parts = BundleParts(o)
    PROVE  BundlesKept'
  <1>1. bundleIndex \in Nat /\ \A l \in Starts : BundlesBefore(l) \in Nat
    BY SourceFacts, Counts DEF TypeInv
  <1>2. ASSUME NEW l \in Starts, BundlesBefore(l) < bundleIndex + 1
        PROVE  parsed'[BundlesBefore(l) + 1].parts = BundleParts(l)
    <2>1. CASE BundlesBefore(l) < bundleIndex
      <3>1. BundlesBefore(l) + 1 \in 1 .. bundleIndex
        BY <1>1, <2>1
      <3> QED
        BY <2>1, <3>1 DEF BundlesKept
    <2>2. CASE BundlesBefore(l) = bundleIndex
      <3>1. l = o
        BY <2>2, StartsDiffer DEF TypeInv
      <3> QED
        BY <2>2, <3>1
    <2> QED
      BY <1>1, <1>2, <2>1, <2>2
  <1>3. ASSUME NEW i \in 1 .. bundleIndex + 1
        PROVE  \E l \in Starts : BundlesBefore(l) + 1 = i
    <2>1. CASE i = bundleIndex + 1
      BY <2>1
    <2>2. CASE i # bundleIndex + 1
      <3>1. i \in 1 .. bundleIndex
        BY <1>1, <2>2
      <3> QED
        BY <3>1 DEF BundlesKept
    <2> QED
      BY <2>1, <2>2
  <1> QED
    BY <1>2, <1>3, SameText DEF BundlesKept

LEMMA BundlesStay ==
    ASSUME BundlesKept, UNCHANGED <<source, bundleIndex, parsed>>
    PROVE  BundlesKept'
  BY SameText DEF BundlesKept

LEMMA BundlesReadIs ==
    \A n : BundlesRead(n) <=>
             /\ BundlesBefore(n + 1) = bundleIndex + IF inBlock THEN 1 ELSE 0
             /\ BundlesKept
  BY DEF BundlesRead, BundlesKept

LEMMA LeastElement ==
    ASSUME NEW S, S \subseteq Nat, NEW n \in S, \A k \in S : n <= k
    PROVE  Min(S) = n
  <1>1. \E x \in S : \A y \in S : x =< y
    OBVIOUS
  <1>2. Min(S) \in S /\ \A y \in S : Min(S) =< y
    BY <1>1, Zenon DEF Min
  <1>3. Min(S) =< n /\ n <= Min(S) /\ Min(S) \in Nat /\ n \in Nat
    BY <1>2
  <1> QED
    BY <1>3

\* The instructions of the block that line n closes.
LEMMA ClosedBlock ==
    ASSUME SourceOK, NEW o \in LinesOf, NEW n \in LinesOf, o < n,
           source[o].kind # "inline", source[n].kind = "close",
           \A k \in 1 .. n - 1 - o : source[o + k].kind # "close"
    PROVE  BundleParts(o) = [k \in 1 .. n - o - 1 |-> source[o + k].parts[1]]
  <1> DEFINE closing == {k \in LinesOf : k > o /\ source[k].kind = "close"}
  <1>1. LinesOf = 1 .. Len(source) /\ Len(source) \in Nat /\ o \in Nat /\ n \in Nat
    BY SourceFacts
  <1>2. n \in closing
    BY <1>1
  <1>3. ASSUME NEW k \in closing PROVE n <= k
    <2>1. CASE k < n
      <3>1. k - o \in 1 .. n - 1 - o /\ k = o + (k - o)
        BY <1>1, <2>1
      <3> QED
        BY <3>1
    <2> QED
      BY <1>1, <2>1
  <1>4. closing \subseteq Nat
    BY <1>1
  <1> HIDE DEF closing
  <1>5. Min(closing) = n
    BY <1>2, <1>3, <1>4, LeastElement
  <1> QED
    BY <1>5 DEF BundleParts, closing

-----------------------------------------------------------------------------
(* Reading lines in their place. *)

\* One more line in its place.
LEMMA LinesInPlace ==
    ASSUME TypeInv, Reading, BlockRead(at), NEW n, n = at + 1, WellPlaced(n)
    PROVE  /\ n \in LinesOf /\ n \in Nat /\ at \in Nat /\ Line = source[n]
           /\ \A l \in 1 .. n : WellPlaced(l)
           /\ inBlock <=> InsideBlock(n)
           /\ InsideBlock(n + 1) <=> \/ Line.kind \in {"open", "spaced"}
                                     \/ InsideBlock(n) /\ Line.kind # "close"
           /\ n \in Starts <=> ~inBlock /\ Line.kind \in {"open", "spaced", "inline"}
           /\ BundlesBefore(n) \in Nat /\ BundlesBefore(n + 1) \in Nat
           /\ BundlesBefore(n + 1) = BundlesBefore(n) + IF n \in Starts THEN 1 ELSE 0
  <1>1. n \in LinesOf /\ n \in Nat /\ at \in Nat /\ Line = source[n]
    BY NextLine
  <1>2. \A l \in 1 .. n : WellPlaced(l)
    <2>1. \A l \in 1 .. n : l \in 1 .. at \/ l = n
      BY <1>1
    <2> QED
      BY <2>1 DEF BlockRead
  <1>3. inBlock <=> InsideBlock(n)
    BY DEF BlockRead
  <1>4. InsideBlock(n + 1) <=> \/ source[n].kind \in {"open", "spaced"}
                               \/ InsideBlock(n) /\ source[n].kind # "close"
    BY <1>1, InsideNext DEF TypeInv
  <1>5. n \in Starts <=> ~inBlock /\ Line.kind \in {"open", "spaced", "inline"}
    BY <1>1, <1>3 DEF Starts
  <1>6. BundlesBefore(n) \in Nat /\ BundlesBefore(n + 1) \in Nat
    BY <1>1, Counts DEF TypeInv
  <1>7. BundlesBefore(n + 1) = BundlesBefore(n) + IF n \in Starts THEN 1 ELSE 0
    BY <1>1, Counts DEF TypeInv
  <1> QED
    BY <1>1, <1>2, <1>3, <1>4, <1>5, <1>6, <1>7

\* A closing brace ends the bundle that its block is.
LEMMA CloseRead ==
    ASSUME TypeInv, CloseBlock, BlockRead(at), BundlesRead(at),
           NEW p \in 0 .. at, LabelsRead(at, p), NEW n, n = at + 1
    PROVE  BlockRead(n)' /\ BundlesRead(n)' /\ LabelsRead(n, n)'
  <1>1. /\ Reading /\ inBlock /\ Line.kind = "close" /\ Line.labels = <<>>
        /\ parsed' = Append(parsed, [bundle |-> bundleIndex, parts |-> blockParts])
        /\ bundleIndex' = bundleIndex + 1 /\ UNCHANGED <<source, labels, pending>>
    BY DEF CloseBlock
  <1>2. inBlock' = FALSE
    BY DEF CloseBlock
  <1>3. WellPlaced(n)
    <2>1. Line = source[n] /\ InsideBlock(n)
      BY <1>1, NextLine DEF BlockRead
    <2> QED
      BY <1>1, <2>1 DEF WellPlaced
  <1>4. /\ n \in LinesOf /\ n \in Nat /\ at \in Nat /\ Line = source[n] /\ n = at + 1
        /\ \A l \in 1 .. n : WellPlaced(l)
        /\ BundlesBefore(n) \in Nat /\ BundlesBefore(n + 1) \in Nat
    BY <1>1, <1>3, LinesInPlace
  <1>5. ~InsideBlock(n + 1)
    BY <1>1, <1>3, LinesInPlace
  <1>6. BundlesBefore(n + 1) = BundlesBefore(n)
    <2>1. n \notin Starts
      BY <1>1, <1>4 DEF Starts
    <2> QED
      BY <1>1, <1>3, <1>4, <2>1, LinesInPlace
  <1>7. pending = <<>>
    BY <1>1 DEF BlockRead
  <1>8. PICK o \in Starts :
              /\ o <= at /\ source[o].kind \in {"open", "spaced"}
              /\ BundlesBefore(o) = bundleIndex
              /\ Len(blockParts) = at - o
              /\ \A k \in 1 .. at - o : /\ source[o + k].kind # "close"
                                        /\ blockParts[k] = source[o + k].parts[1]
    BY <1>1 DEF BlockRead
  <1>9. o \in LinesOf /\ o \in Nat /\ o < n /\ n - 1 - o = at - o /\ n - o - 1 = at - o
    <2>1. o \in LinesOf
      BY <1>8 DEF Starts
    <2>2. o \in Nat
      <3>1. SourceOK
        BY DEF TypeInv
      <3>2. LinesOf = 1 .. Len(source) /\ Len(source) \in Nat
        BY <3>1, SourceFacts
      <3> QED
        BY <2>1, <3>2
    <2>3. o <= at /\ at \in Nat /\ n = at + 1
      BY <1>4, <1>8
    <2> QED
      BY <2>1, <2>2, <2>3
  <1>10. BundleParts(o) = [k \in 1 .. at - o |-> source[o + k].parts[1]]
    <2>1. BundleParts(o) = [k \in 1 .. n - o - 1 |-> source[o + k].parts[1]]
      <3>1. source[o].kind # "inline" /\ source[n].kind = "close"
        BY <1>1, <1>4, <1>8
      <3>2. \A k \in 1 .. n - 1 - o : source[o + k].kind # "close"
        BY <1>8, <1>9
      <3> QED
        BY <1>4, <1>9, <3>1, <3>2, ClosedBlock DEF TypeInv
    <2> QED
      BY <1>9, <2>1
  <1>11. blockParts = BundleParts(o)
    <2>1. blockParts = [k \in 1 .. Len(blockParts) |-> blockParts[k]]
      BY SequenceFacts DEF TypeInv, IsParts
    <2>2. blockParts = [k \in 1 .. at - o |-> source[o + k].parts[1]]
      BY <1>8, <2>1
    <2> QED
      BY <1>10, <2>2
  <1>12. /\ \A i \in 1 .. bundleIndex : parsed'[i] = parsed[i]
         /\ parsed'[bundleIndex + 1].parts = BundleParts(o)
    <2>1. IsParts(blockParts)
      BY DEF TypeInv
    <2>2. /\ \A i \in 1 .. bundleIndex : parsed'[i] = parsed[i]
          /\ parsed'[bundleIndex + 1].parts = blockParts
      BY <1>1, <2>1, OneMoreBundle
    <2> QED
      BY <1>11, <2>2
  <1>13. BundlesKept'
    <2>1. BundlesKept
      BY BundlesReadIs
    <2>2. source' = source /\ bundleIndex' = bundleIndex + 1
      BY <1>1
    <2> QED
      BY <1>8, <1>12, <2>1, <2>2, BundleAdded
  <1>14. BundlesRead(n)'
    <2>1. BundlesBefore(at + 1) = bundleIndex + 1
      BY <1>1 DEF BundlesRead
    <2>2. BundlesBefore(n + 1)' = bundleIndex'
      BY <1>1, <1>4, <1>6, <2>1, SameText
    <2>3. bundleIndex' \in Nat
      BY <1>1 DEF TypeInv
    <2> QED
      BY <1>2, <1>13, <2>2, <2>3 DEF BundlesRead, BundlesKept
  <1>15. BlockRead(n)'
    <2>1. source' = source
      BY <1>1
    <2> QED
      BY <1>2, <1>4, <1>5, <2>1, SameText DEF BlockRead
  <1>16. LabelsRead(n, n)'
    BY <1>1, <1>7, LabelsPassed
  <1> QED
    BY <1>14, <1>15, <1>16

\* An instruction of a block.
LEMMA SlotRead ==
    ASSUME TypeInv, BlockLine, BlockRead(at), BundlesRead(at),
           NEW p \in 0 .. at, LabelsRead(at, p), NEW n, n = at + 1, WellPlaced(n)
    PROVE  BlockRead(n)' /\ BundlesRead(n)' /\ LabelsRead(n, n)'
  <1>1. /\ Reading /\ inBlock
        /\ UNCHANGED <<source, labels, pending, bundleIndex, inBlock, parsed>>
    BY DEF BlockLine
  <1>2. /\ n \in LinesOf /\ n \in Nat /\ at \in Nat /\ Line = source[n] /\ n = at + 1
        /\ \A l \in 1 .. n : WellPlaced(l)
        /\ BundlesBefore(n) \in Nat /\ BundlesBefore(n + 1) \in Nat
        /\ InsideBlock(n)
    BY <1>1, LinesInPlace
  <1>3. Line.labels = <<>> /\ Line.kind = "slot"
    <2>1. Line.labels = <<>> /\ Line.kind \in {"slot", "close"}
      BY <1>2 DEF WellPlaced
    <2>2. Len(Line.labels) = 0
      BY <2>1, EmptySequence
    <2> QED
      BY <2>1, <2>2 DEF BlockLine
  <1>4. InsideBlock(n + 1)
    BY <1>1, <1>2, <1>3, LinesInPlace
  <1>5. BundlesBefore(n + 1) = BundlesBefore(n)
    <2>1. n \notin Starts
      BY <1>2, <1>3 DEF Starts
    <2> QED
      BY <1>1, <1>2, <2>1, LinesInPlace
  <1>6. pending = <<>>
    BY <1>1 DEF BlockRead
  <1>7. PICK o \in Starts :
              /\ o <= at /\ source[o].kind \in {"open", "spaced"}
              /\ BundlesBefore(o) = bundleIndex
              /\ Len(blockParts) = at - o
              /\ \A k \in 1 .. at - o : /\ source[o + k].kind # "close"
                                        /\ blockParts[k] = source[o + k].parts[1]
    BY <1>1 DEF BlockRead
  <1>8. o \in Nat /\ n - o = (at - o) + 1 /\ o + (n - o) = n /\ o <= n /\ at - o \in Nat
    BY <1>2, <1>7, SourceFacts DEF TypeInv
  <1>9. blockParts' = Append(blockParts, Line.parts[1])
    BY <1>3 DEF BlockLine
  <1>10. /\ Len(blockParts') = n - o
         /\ blockParts'[n - o] = source[n].parts[1]
         /\ \A k \in 1 .. at - o : blockParts'[k] = blockParts[k]
    <2> DEFINE part == Line.parts[1]
    <2>1. IsParts(blockParts) /\ IsPart(part)
      BY <1>1, <1>3, NextLine DEF TypeInv
    <2>2. blockParts' = Append(blockParts, part) /\ part = source[n].parts[1]
      BY <1>2, <1>9
    <2> HIDE DEF part
    <2>3. Len(blockParts') = Len(blockParts) + 1 /\ blockParts'[Len(blockParts) + 1] = part
      BY <2>1, <2>2, OneMorePart
    <2>4. \A k \in 1 .. Len(blockParts) : blockParts'[k] = blockParts[k]
      BY <2>1, <2>2, OneMorePart
    <2>5. Len(blockParts) + 1 = n - o /\ Len(blockParts) = at - o
      BY <1>7, <1>8
    <2> QED
      BY <2>2, <2>3, <2>4, <2>5
  <1>11. \A k \in 1 .. n - o : /\ source[o + k].kind # "close"
                               /\ blockParts'[k] = source[o + k].parts[1]
    <2> SUFFICES ASSUME NEW k \in 1 .. n - o
                 PROVE  /\ source[o + k].kind # "close"
                        /\ blockParts'[k] = source[o + k].parts[1]
      OBVIOUS
    <2>1. CASE k \in 1 .. at - o
      BY <1>7, <1>10, <2>1
    <2>2. CASE k \notin 1 .. at - o
      <3>1. k = n - o /\ o + k = n
        BY <1>8, <2>2
      <3> QED
        BY <1>2, <1>3, <1>10, <3>1
    <2> QED
      BY <2>1, <2>2
  <1>12. BlockRead(n)'
    <2>1. pending' = <<>> /\ BundlesBefore(o) = bundleIndex /\ o <= n /\ Len(blockParts') = n - o
          /\ source[o].kind \in {"open", "spaced"} /\ o \in Starts /\ bundleIndex' = bundleIndex
      BY <1>1, <1>6, <1>7, <1>8, <1>10
    <2>2. source' = source /\ inBlock'
      BY <1>1
    <2> QED
      BY <1>2, <1>4, <1>11, <2>1, <2>2, SameText DEF BlockRead
  <1>13. BundlesRead(n)'
    <2>1. BundlesBefore(at + 1) = bundleIndex + 1 /\ BundlesKept
      BY <1>1, BundlesReadIs DEF BundlesRead
    <2>2. BundlesKept'
      BY <1>1, <2>1, BundlesStay
    <2>3. BundlesBefore(n + 1)' = bundleIndex' + 1 /\ inBlock'
      BY <1>1, <1>2, <1>5, <2>1, SameText
    <2> QED
      BY <2>2, <2>3 DEF BundlesRead, BundlesKept
  <1>14. LabelsRead(n, n)'
    BY <1>1, <1>3, <1>6, LabelsPassed
  <1> QED
    BY <1>12, <1>13, <1>14

\* A line that has labels only.
LEMMA LabelRead ==
    ASSUME TypeInv, LabelLine, BlockRead(at), BundlesRead(at),
           NEW p \in 0 .. at, LabelsRead(at, p), NEW n, n = at + 1
    PROVE  BlockRead(n)' /\ BundlesRead(n)' /\ LabelsRead(n, p)'
  <1>1. /\ Reading /\ ~inBlock /\ Line.kind = "none" /\ pending' = Waiting
        /\ UNCHANGED <<source, labels, bundleIndex, inBlock, parsed>>
    BY DEF LabelLine
  <1>2. WellPlaced(n)
    <2>1. Line = source[n] /\ ~InsideBlock(n)
      BY <1>1, NextLine DEF BlockRead
    <2> QED
      BY <1>1, <2>1 DEF WellPlaced
  <1>3. /\ n \in LinesOf /\ n \in Nat /\ at \in Nat /\ Line = source[n] /\ n = at + 1
        /\ \A l \in 1 .. n : WellPlaced(l)
        /\ BundlesBefore(n) \in Nat /\ BundlesBefore(n + 1) \in Nat
        /\ ~InsideBlock(n)
    BY <1>1, <1>2, LinesInPlace
  <1>4. ~InsideBlock(n + 1)
    BY <1>1, <1>2, <1>3, LinesInPlace
  <1>5. BundlesBefore(n + 1) = BundlesBefore(n)
    <2>1. n \notin Starts
      BY <1>1, <1>3 DEF Starts
    <2> QED
      BY <1>1, <1>2, <1>3, <2>1, LinesInPlace
  <1>6. source' = source /\ ~inBlock'
    BY <1>1
  <1>7. BlockRead(n)'
    BY <1>3, <1>4, <1>6, SameText DEF BlockRead
  <1>8. BundlesRead(n)'
    <2>1. BundlesBefore(at + 1) = bundleIndex + 0 /\ BundlesKept
      BY <1>1, BundlesReadIs DEF BundlesRead
    <2>2. BundlesKept'
      BY <1>1, <2>1, BundlesStay
    <2>3. BundlesBefore(n + 1)' = bundleIndex' + 0
      BY <1>1, <1>3, <1>5, <2>1, SameText
    <2> QED
      BY <1>6, <2>2, <2>3 DEF BundlesRead, BundlesKept
  <1>9. LabelsRead(n, p)'
    BY <1>1, LabelsWait
  <1> QED
    BY <1>7, <1>8, <1>9

\* An opening brace.
LEMMA OpenRead ==
    ASSUME TypeInv, OpenBlock, BlockRead(at), BundlesRead(at),
           NEW p \in 0 .. at, LabelsRead(at, p), NEW n, n = at + 1
    PROVE  BlockRead(n)' /\ BundlesRead(n)' /\ LabelsRead(n, n)'
  <1>1. /\ Reading /\ ~inBlock
        /\ Line.kind = "open" \/ (Line.kind = "spaced" /\ Line.labels = <<>>)
        /\ ~Duplicate(Waiting) /\ labels' = Defining(Waiting, bundleIndex)
        /\ pending' = <<>> /\ blockParts' = <<>>
        /\ UNCHANGED <<source, bundleIndex, parsed>>
    BY DEF OpenBlock
  <1>2. inBlock' = TRUE
    BY DEF OpenBlock
  <1>3. WellPlaced(n)
    <2>1. Line = source[n] /\ ~InsideBlock(n)
      BY <1>1, NextLine DEF BlockRead
    <2> QED
      BY <1>1, <2>1 DEF WellPlaced
  <1>4. /\ n \in LinesOf /\ n \in Nat /\ at \in Nat /\ Line = source[n] /\ n = at + 1
        /\ \A l \in 1 .. n : WellPlaced(l)
        /\ BundlesBefore(n) \in Nat /\ BundlesBefore(n + 1) \in Nat
    BY <1>1, <1>3, LinesInPlace
  <1>5. InsideBlock(n + 1) /\ n \in Starts
    BY <1>1, <1>3, LinesInPlace
  <1>6. BundlesBefore(n + 1) = BundlesBefore(n) + 1
    BY <1>1, <1>3, <1>5, LinesInPlace
  <1>7. BundlesBefore(n) = bundleIndex
    <2>1. BundlesBefore(at + 1) = bundleIndex + 0 /\ bundleIndex \in Nat
      BY <1>1 DEF BundlesRead, TypeInv
    <2> QED
      BY <2>1
  <1>8. BlockRead(n)'
    <2>1. source' = source /\ pending' = <<>> /\ BundlesBefore(n) = bundleIndex
          /\ bundleIndex' = bundleIndex /\ n <= n /\ source[n].kind \in {"open", "spaced"}
      BY <1>1, <1>4, <1>7
    <2>2. Len(blockParts') = n - n /\ \A k \in 1 .. n - n : FALSE
      BY <1>1, <1>4, EmptySequence
    <2> QED
      BY <1>2, <1>4, <1>5, <2>1, <2>2, SameText DEF BlockRead
  <1>9. BundlesRead(n)'
    <2>1. BundlesKept
      BY BundlesReadIs
    <2>2. BundlesKept'
      BY <1>1, <2>1, BundlesStay
    <2>3. BundlesBefore(n + 1)' = bundleIndex' + 1
      BY <1>1, <1>6, <1>7, SameText
    <2> QED
      BY <1>2, <2>2, <2>3 DEF BundlesRead, BundlesKept
  <1>10. LabelsRead(n, n)'
    <2>1. Line.kind # "slot"
      BY <1>1
    <2> QED
      BY <1>1, <1>5, <1>7, <2>1, LabelsDefined
  <1> QED
    BY <1>8, <1>9, <1>10

\* An inline bundle.
LEMMA InlineRead ==
    ASSUME TypeInv, InlineBundle, BlockRead(at), BundlesRead(at),
           NEW p \in 0 .. at, LabelsRead(at, p), NEW n, n = at + 1, WellPlaced(n)
    PROVE  BlockRead(n)' /\ BundlesRead(n)' /\ LabelsRead(n, n)'
  <1>1. /\ Reading /\ ~inBlock
        /\ Line.kind \in {"inline", "slot", "close"} \/ (Line.kind = "spaced" /\ Line.labels # <<>>)
        /\ ~Duplicate(Waiting) /\ labels' = Defining(Waiting, bundleIndex)
        /\ pending' = <<>> /\ bundleIndex' = bundleIndex + 1
        /\ UNCHANGED <<source, inBlock>>
    BY DEF InlineBundle
  <1>2. /\ n \in LinesOf /\ n \in Nat /\ at \in Nat /\ Line = source[n] /\ n = at + 1
        /\ \A l \in 1 .. n : WellPlaced(l)
        /\ BundlesBefore(n) \in Nat /\ BundlesBefore(n + 1) \in Nat
        /\ ~InsideBlock(n)
    BY <1>1, LinesInPlace
  <1>3. Line.kind = "inline"
    BY <1>1, <1>2 DEF WellPlaced
  <1>4. ~InsideBlock(n + 1) /\ n \in Starts
    BY <1>1, <1>2, <1>3, LinesInPlace
  <1>5. BundlesBefore(n + 1) = BundlesBefore(n) + 1
    BY <1>1, <1>2, <1>4, LinesInPlace
  <1>6. BundlesBefore(n) = bundleIndex
    <2>1. BundlesBefore(at + 1) = bundleIndex + 0 /\ bundleIndex \in Nat
      BY <1>1 DEF BundlesRead, TypeInv
    <2> QED
      BY <2>1
  <1>7. /\ \A i \in 1 .. bundleIndex : parsed'[i] = parsed[i]
        /\ parsed'[bundleIndex + 1].parts = BundleParts(n)
    <2>1. parsed' = Append(parsed, [bundle |-> bundleIndex, parts |-> Line.parts])
      BY <1>3 DEF InlineBundle
    <2>2. IsParts(Line.parts)
      BY <1>1, NextLine
    <2>3. /\ \A i \in 1 .. bundleIndex : parsed'[i] = parsed[i]
          /\ parsed'[bundleIndex + 1].parts = Line.parts
      BY <1>1, <2>1, <2>2, OneMoreBundle
    <2>4. BundleParts(n) = Line.parts
      BY <1>2, <1>3 DEF BundleParts
    <2> QED
      BY <2>3, <2>4
  <1>8. source' = source /\ ~inBlock' /\ bundleIndex' = bundleIndex + 1
    BY <1>1
  <1>9. BlockRead(n)'
    BY <1>2, <1>4, <1>8, SameText DEF BlockRead
  <1>10. BundlesRead(n)'
    <2>1. BundlesKept
      BY BundlesReadIs
    <2>2. BundlesKept'
      BY <1>4, <1>6, <1>7, <1>8, <2>1, BundleAdded
    <2>3. BundlesBefore(n + 1)' = bundleIndex' + 0
      <3>1. bundleIndex \in Nat
        BY DEF TypeInv
      <3> QED
        BY <1>5, <1>6, <1>8, <3>1, SameText
    <2> QED
      BY <1>8, <2>2, <2>3 DEF BundlesRead, BundlesKept
  <1>11. LabelsRead(n, n)'
    <2>1. Line.kind # "slot"
      BY <1>3
    <2> QED
      BY <1>1, <1>4, <1>6, <2>1, LabelsDefined
  <1> QED
    BY <1>9, <1>10, <1>11

\* Reading one more line keeps the invariant.
LEMMA ReadStep ==
    ASSUME TypeInv, Reading, ReadInv(at),
           CloseBlock \/ BlockLine \/ LabelLine \/ OpenBlock \/ InlineBundle
    PROVE  ReadInv(at)'
  <1>1. PICK n : n = at + 1
    OBVIOUS
  <1>2. at' = n /\ at \in Nat /\ n \in Nat
    BY <1>1, ReadParts, NextLine
  <1>3. ReadInv(n)'
    <2>1. CASE Broken(at)
      BY <1>1, <2>1, BrokenStays DEF ReadInv
    <2>2. CASE ~Broken(at)
      <3>1. /\ BlockRead(at) /\ BundlesRead(at)
            /\ \E p \in 0 .. at : LabelsRead(at, p)
        BY <2>2 DEF ReadInv
      <3>2. PICK p \in 0 .. at : LabelsRead(at, p)
        BY <3>1
      <3>3. inBlock <=> InsideBlock(n)
        BY <1>1, <3>1 DEF BlockRead
      <3>4. CASE ~WellPlaced(n)
        BY <1>1, <3>3, <3>4, BrokenNow DEF ReadInv
      <3>5. CASE WellPlaced(n)
        <4>1. BlockRead(n)' /\ BundlesRead(n)' /\ (LabelsRead(n, n)' \/ LabelsRead(n, p)')
          BY <1>1, <3>1, <3>2, <3>5, CloseRead, SlotRead, LabelRead, OpenRead, InlineRead
        <4>2. p \in 0 .. n /\ n \in 0 .. n
          BY <1>1, <1>2
        <4> QED
          BY <4>1, <4>2 DEF ReadInv
      <3> QED
        BY <3>4, <3>5
    <2> QED
      BY <2>1, <2>2
  <1> QED
    BY <1>2, <1>3

-----------------------------------------------------------------------------
(* The end of the reading. *)

LEMMA SameWhole ==
    ASSUME source' = source
    PROVE  /\ WellStructured' <=> WellStructured
           /\ LabelNames' = LabelNames /\ LabelBundles' = LabelBundles
           /\ Cardinality(Starts)' = Cardinality(Starts)
  BY DEF WellStructured, LabelNames, LabelBundles, LinesOf, Starts, BundlesBefore, InsideBlock,
         WellPlaced, LabelsOf, LabelsAreUnique

\* A label has one line, and the bundle behind that line.
LEMMA LabelBundlesAre ==
    ASSUME LabelsAreUnique, NEW l \in LinesOf, NEW x \in LabelsOf(l)
    PROVE  x \in LabelNames /\ x \in DOMAIN LabelBundles /\ LabelBundles[x] = BundlesBefore(l)
  <1>1. x \in LabelNames
    BY DEF LabelNames
  <1> DEFINE line == CHOOSE k \in LinesOf : x \in LabelsOf(k)
  <1>2. line \in LinesOf /\ x \in LabelsOf(line)
    OBVIOUS
  <1>3. line = l
    BY <1>2 DEF LabelsAreUnique
  <1> QED
    BY <1>1, <1>3 DEF LabelBundles

\* Labels behind which no bundle starts stand behind all bundles.
LEMMA NoneLeft ==
    ASSUME TypeInv, phase = "lines", at = Len(source), NEW p \in 0 .. at, LabelsRead(at, p),
           NEW l \in p + 1 .. at
    PROVE  BundlesBefore(l) = Cardinality(Starts)
  <1>1. at \in Nat /\ l \in Nat /\ l <= at + 1
    BY DEF TypeInv
  <1>2. \A i \in l .. at + 1 - 1 : i \in p + 1 .. at
    BY <1>1
  <1>3. \A i \in l .. at + 1 - 1 : i \notin Starts
    BY <1>2 DEF LabelsRead, Starts
  <1>4. BundlesBefore(l) = BundlesBefore(at + 1)
    BY <1>1, <1>3, CountsGrow DEF TypeInv
  <1>5. BundlesBefore(at + 1) = Cardinality(Starts)
    BY AllCounted DEF TypeInv
  <1> QED
    BY <1>4, <1>5

\* The reading stops at no text that is well structured.
LEMMA ReadingFails ==
    ASSUME TypeInv, ReadInv(at),
           LegacyHeader \/ BadBlockLine \/ DuplicateLabel \/ UnfinishedText
    PROVE  ~WellStructured
  <1>1. LinesOf = 1 .. Len(source) /\ Len(source) \in Nat /\ at \in Nat
    BY SourceFacts DEF TypeInv
  <1>2. at <= Len(source)
    BY DEF LegacyHeader, BadBlockLine, DuplicateLabel, UnfinishedText, Reading, TypeInv
  <1>3. CASE Broken(at)
    <2>1. PICK l \in 1 .. at : ~WellPlaced(l)
      BY <1>3 DEF Broken
    <2>2. l \in LinesOf
      BY <1>1, <1>2
    <2> QED
      BY <2>1, <2>2 DEF WellStructured
  <1>4. CASE ~Broken(at)
    <2>1. /\ BlockRead(at) /\ BundlesRead(at)
          /\ \E p \in 0 .. at : LabelsRead(at, p)
      BY <1>4 DEF ReadInv
    <2>2. PICK p \in 0 .. at : LabelsRead(at, p)
      BY <2>1
    <2>3. inBlock <=> InsideBlock(at + 1)
      BY <2>1 DEF BlockRead
    <2>4. ASSUME Reading PROVE at + 1 \in LinesOf /\ Line = source[at + 1]
      BY <2>4, NextLine
    <2>5. CASE LegacyHeader
      <3>1. at + 1 \in LinesOf /\ source[at + 1].kind = "legacy"
        BY <2>4, <2>5 DEF LegacyHeader
      <3>2. ~WellPlaced(at + 1)
        BY <3>1 DEF WellPlaced
      <3> QED
        BY <3>1, <3>2 DEF WellStructured
    <2>6. CASE BadBlockLine
      <3>1. at + 1 \in LinesOf /\ Line = source[at + 1] /\ InsideBlock(at + 1)
        BY <2>3, <2>4, <2>6 DEF BadBlockLine
      <3>2. ~WellPlaced(at + 1)
        BY <2>6, <3>1 DEF WellPlaced, BadBlockLine
      <3> QED
        BY <3>1, <3>2 DEF WellStructured
    <2>7. CASE DuplicateLabel
      <3>1. /\ at + 1 \in LinesOf /\ Line = source[at + 1] /\ ~InsideBlock(at + 1)
            /\ Reading /\ Duplicate(Waiting)
        BY <2>3, <2>4, <2>7 DEF DuplicateLabel
      <3>2. CASE Line.kind = "slot"
        BY <3>1, <3>2 DEF WellPlaced, WellStructured
      <3>3. CASE Line.kind # "slot"
        <4>1. ~Unique(1, at + 1)
          BY <2>2, <3>1, <3>3, WaitingFacts
        <4>2. at + 1 \in Nat /\ at + 1 <= Len(source)
          BY <1>1, <3>1
        <4>3. ~LabelsAreUnique
          BY <4>1, <4>2, AllNames DEF TypeInv
        <4> QED
          BY <4>3 DEF WellStructured
      <3> QED
        BY <3>2, <3>3
    <2>8. CASE UnfinishedText
      <3>1. at = Len(source) /\ phase = "lines" /\ (inBlock \/ pending # <<>>)
        BY <2>8 DEF UnfinishedText
      <3>2. CASE inBlock
        BY <2>3, <3>1, <3>2 DEF WellStructured
      <3>3. CASE pending # <<>>
        <4>1. 1 \in DOMAIN pending
          BY <3>3, SequenceFacts DEF TypeInv
        <4>2. pending[1] \in Names(p + 1, at)
          BY <2>2, <4>1 DEF LabelsRead, Range
        <4>3. PICK l \in p + 1 .. at : pending[1] \in LabelsOf(l)
          BY <4>2 DEF Names
        <4>4. l \in LinesOf /\ BundlesBefore(l) = Cardinality(Starts)
          BY <1>1, <2>2, <3>1, <4>3, NoneLeft
        <4>5. Cardinality(Starts) \in Nat
          BY <1>1, AllCounted, Counts DEF TypeInv
        <4>6. ASSUME WellStructured PROVE FALSE
          <5>1. LabelsAreUnique
            BY <4>6 DEF WellStructured
          <5>2. pending[1] \in LabelNames /\ LabelBundles[pending[1]] = Cardinality(Starts)
            BY <4>3, <4>4, <5>1, LabelBundlesAre
          <5>3. LabelBundles[pending[1]] < Cardinality(Starts)
            BY <4>6, <5>2 DEF WellStructured
          <5> QED
            BY <4>5, <5>2, <5>3
        <4> QED
          BY <4>6
      <3> QED
        BY <3>1, <3>2, <3>3
    <2> QED
      BY <2>5, <2>6, <2>7, <2>8
  <1> QED
    BY <1>3, <1>4

\* Read to its end, the text is well structured or will be refused.
LEMMA EndRead ==
    ASSUME TypeInv, ReadInv(at), EndOfText
    PROVE  TextInv'
  <1>1. /\ phase = "lines" /\ at = Len(source) /\ pending = <<>>
        /\ phase' = "resolve" /\ at' = 0
        /\ UNCHANGED <<source, labels, bundleIndex, parsed>>
    BY DEF EndOfText
  <1>2. ~inBlock
    BY DEF EndOfText
  <1>3. LinesOf = 1 .. Len(source) /\ Len(source) \in Nat /\ at \in Nat /\ bundleIndex \in Nat
    BY SourceFacts DEF TypeInv
  <1>4. CASE Broken(at)
    <2>1. /\ \E l \in LinesOf : ~WellPlaced(l)
          /\ \E i \in 1 .. bundleIndex : Spoilt(parsed[i].parts)
      BY <1>1, <1>2, <1>3, <1>4 DEF Broken
    <2> QED
      BY <1>1, <2>1, SameText DEF TextInv, Spoilt
  <1>5. CASE ~Broken(at)
    <2>1. /\ BlockRead(at) /\ BundlesRead(at)
          /\ \E p \in 0 .. at : LabelsRead(at, p)
      BY <1>5 DEF ReadInv
    <2>2. PICK p \in 0 .. at : LabelsRead(at, p)
      BY <2>1
    <2>3. Names(p + 1, at) = {} /\ Unique(p + 1, at)
      <3>1. Range(pending) = {} /\ IsInjective(pending)
        BY <1>1, EmptySequence
      <3>2. Range(pending) = Names(p + 1, at) /\ (IsInjective(pending) <=> Unique(p + 1, at))
        BY <2>2 DEF LabelsRead
      <3> QED
        BY <3>1, <3>2
    <2>4. Unique(1, p) /\ DOMAIN labels = Names(1, p)
      BY <2>2 DEF LabelsRead
    <2>5. Unique(1, at) /\ Names(1, at) = Names(1, p)
      <3>1. p \in Nat /\ p <= at
        BY <1>3
      <3>2. /\ Names(1, at) = Names(1, p) \cup Names(p + 1, at)
            /\ Unique(1, at) <=> /\ Unique(1, p) /\ Unique(p + 1, at)
                                 /\ Names(1, p) \cap Names(p + 1, at) = {}
        BY <1>3, <3>1, NamesJoin
      <3> QED
        BY <2>3, <2>4, <3>2
    <2>6. LabelsAreUnique /\ LabelNames = DOMAIN labels
      BY <1>1, <2>4, <2>5, AllNames DEF TypeInv
    <2>7. BundlesBefore(at + 1) = Cardinality(Starts) /\ Cardinality(Starts) = bundleIndex
      <3>1. BundlesBefore(at + 1) = bundleIndex + 0
        BY <1>2, <2>1 DEF BundlesRead
      <3> QED
        BY <1>1, <1>3, <3>1, AllCounted DEF TypeInv
    <2>8. ASSUME NEW x \in LabelNames
          PROVE  labels[x] = LabelBundles[x] /\ LabelBundles[x] < Cardinality(Starts)
      <3>1. PICK l \in LinesOf : x \in LabelsOf(l)
        BY DEF LabelNames
      <3>2. l \notin p + 1 .. at
        BY <2>3, <3>1 DEF Names
      <3>3. l \in 1 .. p
        BY <1>1, <1>3, <3>2
      <3>4. labels[x] = BundlesBefore(l) /\ labels[x] < BundlesBefore(at + 1)
        BY <2>2, <3>1, <3>3 DEF LabelsRead
      <3>5. LabelBundles[x] = BundlesBefore(l)
        BY <2>6, <3>1, LabelBundlesAre
      <3> QED
        BY <2>7, <3>4, <3>5
    <2>9. labels = LabelBundles
      <3>1. labels = [x \in LabelNames |-> labels[x]]
        BY <2>6 DEF TypeInv
      <3>2. LabelBundles = [x \in LabelNames |-> LabelBundles[x]]
        BY DEF LabelBundles
      <3>3. [x \in LabelNames |-> labels[x]] = [x \in LabelNames |-> LabelBundles[x]]
        <4> DEFINE f == LabelBundles
        <4> HIDE DEF f
        <4>1. \A x \in LabelNames : labels[x] = f[x]
          BY <2>8 DEF f
        <4>2. [x \in LabelNames |-> labels[x]] = [x \in LabelNames |-> f[x]]
          BY <4>1
        <4> QED
          BY <4>2 DEF f
      <3> QED
        BY <3>1, <3>2, <3>3
    <2>10. WellStructured
      <3>1. \A l \in LinesOf : WellPlaced(l)
        BY <1>1, <1>3, <2>1 DEF BlockRead
      <3>2. ~InsideBlock(Len(source) + 1)
        BY <1>1, <1>2, <2>1 DEF BlockRead
      <3> QED
        BY <2>6, <2>8, <3>1, <3>2 DEF WellStructured
    <2>11. BundlesKept
      BY <2>1, BundlesReadIs
    <2>12. ASSUME NEW l \in Starts
           PROVE  /\ BundlesBefore(l) + 1 \in 1 .. bundleIndex /\ BundlesBefore(l) >= 0
                  /\ parsed[BundlesBefore(l) + 1].parts = BundleParts(l)
      <3>1. l \in Nat /\ l < at + 1
        BY <1>1, <1>3, SourceFacts DEF TypeInv
      <3>2. BundlesBefore(l) \in Nat /\ BundlesBefore(at + 1) \in Nat
        BY <1>3, <3>1, Counts DEF TypeInv
      <3>3. BundlesBefore(l) < BundlesBefore(at + 1)
        <4>1. SourceOK /\ l \in Nat /\ at + 1 \in Nat /\ l <= at + 1 /\ l < at + 1 /\ l \in Starts
          BY <1>3, <3>1 DEF TypeInv
        <4> QED
          BY <4>1, CountsGrow
      <3>4. BundlesBefore(l) < bundleIndex
        BY <2>7, <3>3
      <3> QED
        BY <1>3, <2>11, <3>2, <3>4 DEF BundlesKept
    <2>13. \A i \in 1 .. bundleIndex : \E l \in Starts : BundlesBefore(l) + 1 = i
      BY <2>11 DEF BundlesKept
    <2> QED
      BY <1>1, <2>7, <2>9, <2>10, <2>12, <2>13, SameText, SameWhole DEF TextInv
  <1> QED
    BY <1>4, <1>5

-----------------------------------------------------------------------------
(* Resolving labels. *)

\* What words mean depends on the text and the header only.
LEMMA SameWords ==
    ASSUME UNCHANGED <<source, aliases, width>>
    PROVE  /\ \A word : IsLabelRef(word)' <=> IsLabelRef(word)
           /\ \A bundles, part : ResolvePart(bundles, part)' = ResolvePart(bundles, part)
           /\ \A word : SlotOf(word)' = SlotOf(word)
           /\ \A part : Parses(part)' <=> Parses(part)
           /\ \A l : /\ ResolvedParts(l)' = ResolvedParts(l)
                     /\ KnownLabels(l)' <=> KnownLabels(l)
  <1>1. \A word : IsLabelRef(word)' <=> IsLabelRef(word)
    BY DEF IsLabelRef, LooksLikeLabelRef
  <1>2. \A bundles, part : ResolvePart(bundles, part)' = ResolvePart(bundles, part)
    BY DEF IsLabelRef, LooksLikeLabelRef, ResolvePart, ResolveWord
  <1>3. \A word : SlotOf(word)' = SlotOf(word)
    BY DEF SlotOf
  <1>4. \A part : Parses(part)' <=> Parses(part)
    BY DEF Parses, NamesSlot, SlotOf
  <1>5. LabelNames' = LabelNames /\ LabelBundles' = LabelBundles /\ \A l : BundleParts(l)' = BundleParts(l)
    BY SameText, SameWhole
  <1>6. ASSUME NEW l PROVE ResolvedParts(l)' = ResolvedParts(l)
    BY <1>5 DEF IsLabelRef, LooksLikeLabelRef, ResolvePart, ResolveWord, ResolvedParts
  <1>7. ASSUME NEW l PROVE KnownLabels(l)' <=> KnownLabels(l)
    BY <1>5 DEF IsLabelRef, LooksLikeLabelRef, KnownLabels
  <1> QED
    BY <1>1, <1>2, <1>3, <1>4, <1>6, <1>7

LEMMA SameForm ==
    ASSUME UNCHANGED <<source, aliases, width>>
    PROVE  WellFormed' <=> WellFormed
  <1> DEFINE Good(l) == \A i \in DOMAIN BundleParts(l) :
                          /\ \A word \in Words(BundleParts(l)[i]) :
                                IsLabelRef(word) => word[2] \in LabelNames
                          /\ Parses(ResolvePart(LabelBundles, BundleParts(l)[i]))
  <1>1. LabelNames' = LabelNames /\ LabelBundles' = LabelBundles /\ Starts' = Starts
        /\ (WellStructured' <=> WellStructured) /\ \A l : BundleParts(l)' = BundleParts(l)
    BY SameText, SameWhole
  <1>2. ASSUME NEW l PROVE Good(l)' <=> Good(l)
    <2>1. BundleParts(l)' = BundleParts(l)
      BY <1>1
    <2>2. \A i : LET part == ResolvePart(LabelBundles, BundleParts(l)[i])
                 IN  Parses(part)' <=> Parses(part)
      BY <1>1, <2>1 DEF Parses, NamesSlot, SlotOf, IsLabelRef, LooksLikeLabelRef, ResolvePart,
                        ResolveWord
    <2>3. \A word : IsLabelRef(word)' <=> IsLabelRef(word)
      BY SameWords
    <2> QED
      BY <1>1, <2>1, <2>2, <2>3
  <1>3. WellFormed <=> WellStructured /\ \A l \in Starts : Good(l)
    BY DEF WellFormed
  <1>4. WellFormed' <=> WellStructured' /\ \A l \in Starts' : Good(l)'
    BY DEF WellFormed
  <1> HIDE DEF Good
  <1> QED
    BY <1>1, <1>2, <1>3, <1>4

\* A line out of place spoils the text.
LEMMA NotInPlace ==
    ASSUME \E l \in LinesOf : ~WellPlaced(l)
    PROVE  ~WellStructured /\ ~WellFormed
  BY DEF WellStructured, WellFormed

\* Resolving the labels of a bundle gives the instructions that the text means.
LEMMA ResolveKeeps ==
    ASSUME TypeInv, TextInv, ResolveBundle, UNCHANGED aliases, UNCHANGED width
    PROVE  TextInv'
  <1>1. /\ phase = "resolve" /\ at < Len(parsed)
        /\ UnknownLabels(parsed[at + 1].parts) = {}
        /\ parsed' = [parsed EXCEPT ![at + 1].parts =
                         [i \in DOMAIN @ |-> ResolvePart(labels, @[i])]]
        /\ at' = at + 1
        /\ UNCHANGED <<source, labels, bundleIndex, phase>>
    BY DEF ResolveBundle
  <1> DEFINE old == parsed[at + 1].parts
  <1>2. /\ at + 1 \in 1 .. bundleIndex /\ at \in Nat /\ bundleIndex \in Nat
        /\ \A i \in 1 .. bundleIndex : i # at + 1 => parsed'[i] = parsed[i]
        /\ parsed'[at + 1].parts = [k \in DOMAIN old |-> ResolvePart(labels, old[k])]
        /\ \A k \in DOMAIN old : \A word \in Words(old[k]) :
             IsLabelRef(word) => word[2] \in DOMAIN labels
    BY <1>1, ResolvedBundle DEF TypeInv
  <1>3. \A k \in DOMAIN old : IsPart(old[k])
    BY <1>2, SequenceFacts DEF TypeInv, IsParts
  <1>4. \A k \in DOMAIN old : ResolvePart(labels, old[k]).op = old[k].op
    <2> SUFFICES ASSUME NEW k \in DOMAIN old PROVE ResolvePart(labels, old[k]).op = old[k].op
      OBVIOUS
    <2>1. \A word \in Words(old[k]) : IsLabelRef(word) => labels[word[2]] \in Nat
      BY <1>2 DEF TypeInv
    <2> QED
      BY <1>3, <2>1, ResolvedPart
  <1> HIDE DEF old
  <1>5. source' = source /\ labels' = labels /\ bundleIndex' = bundleIndex /\ phase' = phase
    BY <1>1
  <1>6. CASE /\ \E l \in LinesOf : ~WellPlaced(l)
             /\ \E i \in 1 .. bundleIndex : Spoilt(parsed[i].parts)
    <2>1. PICK i \in 1 .. bundleIndex : Spoilt(parsed[i].parts)
      BY <1>6
    <2>2. Spoilt(parsed'[i].parts)
      <3>1. CASE i = at + 1
        <4>1. PICK k \in DOMAIN old : old[k].op \notin Opcodes
          BY <2>1, <3>1 DEF Spoilt, old
        <4>2. k \in DOMAIN parsed'[at + 1].parts /\ parsed'[at + 1].parts[k].op = old[k].op
          BY <1>2, <1>4
        <4> QED
          BY <3>1, <4>1, <4>2 DEF Spoilt
      <3>2. CASE i # at + 1
        BY <1>2, <2>1, <3>2
      <3> QED
        BY <3>1, <3>2
    <2> QED
      BY <1>5, <1>6, <2>2, SameText DEF TextInv, Spoilt
  <1>7. CASE /\ WellStructured
             /\ labels = LabelBundles
             /\ Cardinality(Starts) = bundleIndex
             /\ \A i \in 1 .. bundleIndex : \E l \in Starts : BundlesBefore(l) + 1 = i
             /\ \A l \in Starts :
                  /\ BundlesBefore(l) + 1 \in 1 .. bundleIndex
                  /\ IF phase = "resolve" /\ BundlesBefore(l) >= at
                     THEN parsed[BundlesBefore(l) + 1].parts = BundleParts(l)
                     ELSE parsed[BundlesBefore(l) + 1].parts = ResolvedParts(l) /\ KnownLabels(l)
    <2>1. ASSUME NEW l \in Starts
          PROVE  /\ BundlesBefore(l) + 1 \in 1 .. bundleIndex
                 /\ IF BundlesBefore(l) >= at + 1
                    THEN parsed'[BundlesBefore(l) + 1].parts = BundleParts(l)
                    ELSE parsed'[BundlesBefore(l) + 1].parts = ResolvedParts(l) /\ KnownLabels(l)
      <3>1. BundlesBefore(l) + 1 \in 1 .. bundleIndex /\ BundlesBefore(l) \in Nat
        BY <1>7, SourceFacts, Counts DEF TypeInv
      <3>2. CASE BundlesBefore(l) = at
        <4>1. old = BundleParts(l)
          BY <1>1, <1>2, <1>7, <3>2 DEF old
        <4>2. parsed'[at + 1].parts = ResolvedParts(l)
          BY <1>2, <1>7, <4>1 DEF ResolvedParts
        <4>3. DOMAIN labels = LabelNames
          BY <1>7 DEF LabelBundles
        <4>4. KnownLabels(l)
          BY <1>2, <4>1, <4>3 DEF KnownLabels
        <4> QED
          BY <1>2, <3>1, <3>2, <4>2, <4>4
      <3>3. CASE BundlesBefore(l) # at
        <4>1. parsed'[BundlesBefore(l) + 1] = parsed[BundlesBefore(l) + 1]
          BY <1>2, <3>1, <3>3
        <4>2. BundlesBefore(l) >= at <=> BundlesBefore(l) >= at + 1
          BY <1>2, <3>1, <3>3
        <4> QED
          BY <1>1, <1>7, <3>1, <4>1, <4>2
      <3> QED
        BY <3>2, <3>3
    <2>2. /\ WellStructured' /\ labels' = LabelBundles' /\ Cardinality(Starts)' = bundleIndex'
      BY <1>5, <1>7, SameWhole
    <2>3. \A i \in 1 .. bundleIndex' : \E l \in Starts' : BundlesBefore(l)' + 1 = i
      BY <1>5, <1>7, SameText
    <2>4. \A l \in Starts' :
             /\ BundlesBefore(l)' + 1 \in 1 .. bundleIndex'
             /\ IF BundlesBefore(l)' >= at'
                THEN parsed'[BundlesBefore(l)' + 1].parts = BundleParts(l)'
                ELSE parsed'[BundlesBefore(l)' + 1].parts = ResolvedParts(l)' /\ KnownLabels(l)'
      <3>1. \A l : /\ BundlesBefore(l)' = BundlesBefore(l) /\ BundleParts(l)' = BundleParts(l)
                   /\ ResolvedParts(l)' = ResolvedParts(l) /\ (KnownLabels(l)' <=> KnownLabels(l))
        BY <1>5, SameText, SameWords
      <3>2. Starts' = Starts /\ bundleIndex' = bundleIndex /\ at' = at + 1
        BY <1>1, SameText
      <3> QED
        BY <2>1, <3>1, <3>2
    <2> QED
      BY <1>1, <1>5, <2>2, <2>3, <2>4 DEF TextInv
  <1> QED
    BY <1>6, <1>7 DEF TextInv

-----------------------------------------------------------------------------
(* Instructions. *)

\* The lists of operands: which kind of word the fields of a syllable take.
OperandLists ==
    {<<<<"dst", "gpr">>, <<"src0", "gpr">>, <<"src1", "gpr">>>>,
     <<<<"dst", "gpr">>, <<"src0", "gpr">>, <<"imm", "num">>>>,
     <<<<"dst", "gpr">>, <<"src0", "gpr">>>>,
     <<<<"dst", "gpr">>, <<"imm", "num">>>>,
     <<<<"dst", "pred">>, <<"src0", "gpr">>, <<"src1", "gpr">>>>,
     <<<<"src0", "gpr">>, <<"src1", "gpr">>, <<"imm", "num">>>>,
     <<<<"src0", "gpr">>, <<"imm", "num">>>>,
     <<<<"imm", "num">>>>,
     <<>>,
     <<<<"dst", "pred">>, <<"src0", "pred">>, <<"src1", "pred">>>>,
     <<<<"dst", "pred">>, <<"src0", "pred">>>>}

\* The list of each opcode.
LEMMA OperandsAre ==
    ASSUME NEW op \in Opcodes
    PROVE  IF op = "Branch" THEN Operands(op) = BranchOperands ELSE Operands(op) \in OperandLists
  <1>1. CASE op \in GprWriters
    BY <1>1 DEF Operands, OperandLists, GprWriters, IntegerOps, MultiplyOps, Fp32Ops, Fp64Ops,
                AesOps, Loads
  <1>2. CASE op \in Compares \cup Stores
    BY <1>2 DEF Operands, OperandLists, Compares, IntegerCompares, FpCompares, Stores, Loads
  <1>3. CASE op \in ControlOps \cup PredicateOps \cup {"Prefetch", "Nop"}
    BY <1>3 DEF Operands, OperandLists, ControlOps, PredicateOps, Compares, IntegerCompares,
                FpCompares, Stores, Loads
  <1> QED
    BY <1>1, <1>2, <1>3 DEF Opcodes

LEMMA OperandKinds ==
    ASSUME NEW op \in Opcodes, NEW i \in 1 .. Len(Operands(op))
    PROVE  /\ Operands(op)[i][1] \in {"dst", "src0", "src1", "imm", "guard"}
           /\ Operands(op)[i][1] = "imm" => Operands(op)[i][2] = "num"
           /\ Operands(op)[i][1] # "imm" => Operands(op)[i][2] \in {"gpr", "pred"}
           /\ Operands(op)[i][1] = "guard" => Operands(op)[i][2] = "pred"
           /\ op = "Branch" => Operands(op)[i][1] \in {"guard", "imm"}
  <1> DEFINE list == Operands(op)
             Good(o) == /\ o[1] \in {"dst", "src0", "src1", "imm", "guard"}
                        /\ o[1] = "imm" => o[2] = "num"
                        /\ o[1] # "imm" => o[2] \in {"gpr", "pred"}
                        /\ o[1] = "guard" => o[2] = "pred"
  <1>1. CASE op = "Branch"
    <2>1. list = <<<<"guard", "pred">>, <<"imm", "num">>>>
      BY <1>1, OperandsAre DEF BranchOperands
    <2> HIDE DEF list
    <2>2. Len(list) = 2 /\ list[1] = <<"guard", "pred">> /\ list[2] = <<"imm", "num">>
      BY <2>1
    <2>3. \A k \in 1 .. Len(list) : k = 1 \/ k = 2
      BY <2>2
    <2>4. \A k \in 1 .. Len(list) : Good(list[k]) /\ list[k][1] \in {"guard", "imm"}
      BY <2>2, <2>3
    <2> QED
      BY <2>4 DEF list
  <1>2. CASE op # "Branch"
    <2>1. list \in OperandLists
      BY <1>2, OperandsAre
    <2> HIDE DEF list
    <2>2. \A k \in 1 .. Len(list) : Good(list[k])
      <3> SUFFICES ASSUME NEW k \in 1 .. Len(list) PROVE Good(list[k])
        OBVIOUS
      <3>1. ASSUME NEW a, NEW b, NEW c, list = <<a, b, c>>, Good(a), Good(b), Good(c)
            PROVE  Good(list[k])
        <4>1. k = 1 \/ k = 2 \/ k = 3
          BY <3>1
        <4> HIDE DEF Good
        <4> QED
          BY <3>1, <4>1
      <3>2. ASSUME NEW a, NEW b, list = <<a, b>>, Good(a), Good(b)
            PROVE  Good(list[k])
        <4>1. k = 1 \/ k = 2
          BY <3>2
        <4> HIDE DEF Good
        <4> QED
          BY <3>2, <4>1
      <3>3. ASSUME NEW a, list = <<a>>, Good(a)
            PROVE  Good(list[k])
        <4>1. k = 1
          BY <3>3
        <4> HIDE DEF Good
        <4> QED
          BY <3>3, <4>1
      <3>4. list # <<>>
        OBVIOUS
      <3>5. /\ Good(<<"dst", "gpr">>) /\ Good(<<"src0", "gpr">>) /\ Good(<<"src1", "gpr">>)
            /\ Good(<<"imm", "num">>) /\ Good(<<"dst", "pred">>) /\ Good(<<"src0", "pred">>)
            /\ Good(<<"src1", "pred">>)
        OBVIOUS
      <3> HIDE DEF Good
      <3> QED
        BY <2>1, <3>1, <3>2, <3>3, <3>4, <3>5 DEF OperandLists
    <2> QED
      BY <1>2, <2>2 DEF list
  <1> QED
    BY <1>1, <1>2

\* A memory operand stands for two arguments of the right types.
LEMMA ArgumentsTyped ==
    ASSUME NEW part, IsPart(part)
    PROVE  /\ Len(Arguments(part)) \in Nat /\ DOMAIN Arguments(part) = 1 .. Len(Arguments(part))
           /\ \A i \in DOMAIN Arguments(part) : WellTyped(Arguments(part)[i])
  <1> DEFINE a == part.args
  <1>1. IsSequence(a) /\ \A word \in Range(a) : WellTyped(word)
    BY DEF IsPart
  <1>2. Len(a) \in Nat /\ DOMAIN a = 1 .. Len(a) /\ \A i \in DOMAIN a : WellTyped(a[i])
    BY <1>1, SequenceFacts
  <1>3. ASSUME NEW x, NEW y, NEW z, WellTyped(x), WellTyped(y), WellTyped(z),
               NEW t, t = <<x, y, z>>
        PROVE  Len(t) \in Nat /\ DOMAIN t = 1 .. Len(t) /\ \A i \in DOMAIN t : WellTyped(t[i])
    <2>1. Len(t) = 3 /\ DOMAIN t = 1 .. 3 /\ t[1] = x /\ t[2] = y /\ t[3] = z
      BY <1>3
    <2>2. \A i \in 1 .. 3 : i = 1 \/ i = 2 \/ i = 3
      OBVIOUS
    <2> QED
      BY <1>3, <2>1, <2>2
  <1>4. ASSUME NEW word, WellTyped(word), word[1] = "mem"
        PROVE  WellTyped(Gpr(word[2])) /\ WellTyped(word[3])
    <2>1. word[2] \in Nat /\ word[3][1] = "num" /\ word[3][2] \in Int
      BY <1>4 DEF WellTyped
    <2>2. WellTyped(<<"gpr", word[2]>>)
      BY <2>1 DEF WellTyped
    <2> QED
      BY <2>1, <2>2 DEF WellTyped, Gpr
  <1> HIDE DEF a
  <1>5. CASE part.op \in Loads \cup {"Lea"} /\ Len(a) = 2 /\ a[2][1] = "mem"
    <2>1. Arguments(part) = <<a[1], Gpr(a[2][2]), a[2][3]>>
      BY <1>5 DEF Arguments, a
    <2>2. WellTyped(a[1]) /\ WellTyped(a[2])
      BY <1>2, <1>5
    <2> QED
      BY <1>3, <1>4, <1>5, <2>1, <2>2
  <1>6. CASE /\ ~(part.op \in Loads \cup {"Lea"} /\ Len(a) = 2 /\ a[2][1] = "mem")
             /\ part.op \in Stores /\ Len(a) = 2 /\ a[1][1] = "mem"
    <2>1. Arguments(part) = <<Gpr(a[1][2]), a[2], a[1][3]>>
      BY <1>6 DEF Arguments, a
    <2>2. WellTyped(a[1]) /\ WellTyped(a[2])
      BY <1>2, <1>6
    <2> QED
      BY <1>3, <1>4, <1>6, <2>1, <2>2
  <1>7. CASE /\ ~(part.op \in Loads \cup {"Lea"} /\ Len(a) = 2 /\ a[2][1] = "mem")
             /\ ~(part.op \in Stores /\ Len(a) = 2 /\ a[1][1] = "mem")
    <2>1. Arguments(part) = a
      BY <1>7 DEF Arguments, a
    <2> QED
      BY <1>2, <2>1
  <1> QED
    BY <1>5, <1>6, <1>7

\* The syllable of an instruction that parses is one that the processors take.
LEMMA SyllableFits ==
    ASSUME NEW part, IsPart(part), Parses(part)
    PROVE  SyllableOf(part) \in Input
  <1> DEFINE args == Arguments(part)
             ops == Operands(part.op)
             Given(field) == {i \in DOMAIN args : ops[i][1] = field}
             Field(field, default) ==
                 IF Given(field) = {} THEN default ELSE args[CHOOSE i \in Given(field) : TRUE][2]
  <1>1. part.op \in Opcodes /\ Len(args) = Len(ops) /\ \A i \in DOMAIN args : Fits(args[i], ops[i])
    BY DEF Parses
  <1>2. DOMAIN args = 1 .. Len(args) /\ \A i \in DOMAIN args : WellTyped(args[i])
    BY ArgumentsTyped
  <1>3. part.guard[1] \in Nat /\ part.guard[2] \in BOOLEAN
    BY DEF IsPart
  <1>4. ASSUME NEW i \in DOMAIN args
        PROVE  /\ ops[i][1] \in {"dst", "src0", "src1", "imm", "guard"}
               /\ ops[i][1] = "imm" => args[i][2] \in Int
               /\ ops[i][1] # "imm" => args[i][2] \in Nat
               /\ part.op = "Branch" => ops[i][1] \in {"guard", "imm"}
    <2>1. i \in 1 .. Len(ops)
      BY <1>1, <1>2
    <2>2. /\ ops[i][1] \in {"dst", "src0", "src1", "imm", "guard"}
          /\ ops[i][1] = "imm" => ops[i][2] = "num"
          /\ ops[i][1] # "imm" => ops[i][2] \in {"gpr", "pred"}
          /\ ops[i][1] = "guard" => ops[i][2] = "pred"
          /\ part.op = "Branch" => ops[i][1] \in {"guard", "imm"}
      BY <1>1, <2>1, OperandKinds
    <2> DEFINE word == args[i]
               operand == ops[i]
    <2> HIDE DEF word, operand
    <2>3. WellTyped(word) /\ (word[1] = operand[2] \/ (operand[1] = "guard" /\ word[1] = "not"))
      <3>1. WellTyped(word)
        BY <1>2 DEF word
      <3>2. Fits(word, operand)
        BY <1>1 DEF word, operand
      <3> QED
        BY <3>1, <3>2 DEF Fits
    <2>4. /\ operand[1] = "imm" /\ operand[2] = "num" => word[2] \in Int
          /\ operand[1] # "imm" /\ operand[2] \in {"gpr", "pred"} => word[2] \in Nat
      BY <2>3 DEF WellTyped
    <2> QED
      BY <2>2, <2>4 DEF word, operand
  <1> HIDE DEF args, ops
  <1>5. ASSUME NEW field, field # "imm", NEW default \in Int,
               default \in Nat \/ default = NoReg
        PROVE  Field(field, default) \in Nat \cup {default}
    <2>1. CASE Given(field) = {}
      BY <2>1
    <2>2. CASE Given(field) # {}
      <3> DEFINE c == CHOOSE i \in Given(field) : TRUE
      <3>1. c \in Given(field)
        BY <2>2
      <3>2. c \in DOMAIN args /\ ops[c][1] = field
        BY <3>1
      <3> HIDE DEF c
      <3>3. args[c][2] \in Nat
        BY <1>4, <1>5, <3>2
      <3> QED
        BY <2>2, <3>3 DEF c
    <2> QED
      BY <2>1, <2>2
  <1>6. Field("imm", 0) \in Int
    <2>1. CASE Given("imm") = {}
      BY <2>1
    <2>2. CASE Given("imm") # {}
      <3> DEFINE c == CHOOSE i \in Given("imm") : TRUE
      <3>1. c \in Given("imm")
        BY <2>2
      <3>2. c \in DOMAIN args /\ ops[c][1] = "imm"
        BY <3>1
      <3> HIDE DEF c
      <3>3. args[c][2] \in Int
        BY <1>4, <3>2
      <3> QED
        BY <2>2, <3>3 DEF c
    <2> QED
      BY <2>1, <2>2
  <1> DEFINE dst == Field("dst", NoReg)
             src0 == Field("src0", NoReg)
             src1 == Field("src1", NoReg)
             imm == Field("imm", 0)
             pred == Field("guard", part.guard[1])
             neg == part.guard[2] \/ \E i \in Given("guard") : args[i][1] = "not"
  <1>7. SyllableOf(part) = [op |-> part.op, dst |-> dst, src |-> <<src0, src1>>, imm |-> imm,
                            pred |-> pred, neg |-> neg]
    BY DEF SyllableOf, args, ops
  <1>8. /\ dst \in Nat \cup {NoReg} /\ src0 \in Nat \cup {NoReg} /\ src1 \in Nat \cup {NoReg}
        /\ pred \in Nat
    <2>1. NoReg \in Int
      BY DEF NoReg
    <2>2. dst \in Nat \cup {NoReg} /\ src0 \in Nat \cup {NoReg} /\ src1 \in Nat \cup {NoReg}
      BY <1>5, <2>1
    <2>3. pred \in Nat \cup {part.guard[1]}
      BY <1>3, <1>5
    <2> QED
      BY <1>3, <2>2, <2>3
  <1>9. neg \in BOOLEAN
    BY <1>3
  <1>10. part.op = "Branch" => src0 = NoReg /\ src1 = NoReg
    <2> SUFFICES ASSUME part.op = "Branch" PROVE src0 = NoReg /\ src1 = NoReg
      OBVIOUS
    <2>1. Given("src0") = {} /\ Given("src1") = {}
      BY <1>4
    <2> QED
      BY <2>1
  <1> HIDE DEF dst, src0, src1, imm, pred, neg
  <1>11. SyllableOf(part) \in Syllable
    BY <1>1, <1>6, <1>7, <1>8, <1>9 DEF Syllable, imm
  <1>12. SyllableOf(part).op = part.op /\ SyllableOf(part).src = <<src0, src1>>
    BY <1>7
  <1> QED
    BY <1>10, <1>11, <1>12 DEF Input

-----------------------------------------------------------------------------
(* Emitting instructions. *)

LEMMA GreatestElement ==
    ASSUME NEW S, S \subseteq Int, NEW n \in S, \A k \in S : n >= k
    PROVE  Max(S) = n
  <1>1. \E x \in S : \A y \in S : x >= y
    OBVIOUS
  <1>2. Max(S) \in S /\ \A y \in S : Max(S) >= y
    BY <1>1, Zenon DEF Max
  <1>3. Max(S) >= n /\ n >= Max(S) /\ Max(S) \in Int /\ n \in Int
    BY <1>2
  <1> QED
    BY <1>3

LEMMA NopIsInput == Nop \in Input
  BY DEF Nop, Input, Syllable, NoReg, Opcodes

LEMMA SameSlots ==
    ASSUME UNCHANGED <<aliases, parsed>>
    PROVE  /\ \A i : Emitted(i)' = IF i <= at' THEN Len(parsed[i].parts)
                                   ELSE IF i = at' + 1 THEN placed' ELSE 0
           /\ \A i, s : InSlot(i, s)' =
                          {k \in 1 .. Emitted(i)' : SlotOf(parsed[i].parts[k].slot) = s - 1}
  BY DEF Emitted, InSlot, SlotOf

\* The program has a bundle for each one of the text.
LEMMA BundlesCounted ==
    ASSUME TypeInv
    PROVE  Max({0} \cup {parsed[k].bundle + 1 : k \in DOMAIN parsed}) = bundleIndex
  <1> DEFINE S == {0} \cup {parsed[k].bundle + 1 : k \in DOMAIN parsed}
  <1>1. bundleIndex \in Nat /\ DOMAIN parsed = 1 .. bundleIndex
    BY SequenceFacts DEF TypeInv
  <1>2. \A k \in 1 .. bundleIndex : parsed[k].bundle + 1 = k
    <2> SUFFICES ASSUME NEW k \in 1 .. bundleIndex PROVE parsed[k].bundle + 1 = k
      OBVIOUS
    <2>1. parsed[k] = [bundle |-> k - 1, parts |-> parsed[k].parts]
      BY DEF TypeInv
    <2>2. parsed[k].bundle = k - 1
      BY <2>1
    <2> QED
      BY <1>1, <2>2
  <1>3. \A x \in S : x \in 0 .. bundleIndex
    BY <1>1, <1>2
  <1>4. bundleIndex \in S
    <2>1. CASE bundleIndex = 0
      BY <2>1
    <2>2. CASE bundleIndex # 0
      <3>1. bundleIndex \in DOMAIN parsed /\ parsed[bundleIndex].bundle + 1 = bundleIndex
        BY <1>1, <1>2, <2>2
      <3> QED
        BY <3>1
    <2> QED
      BY <2>1, <2>2
  <1> HIDE DEF S
  <1>5. S \subseteq Int /\ \A x \in S : bundleIndex >= x
    BY <1>1, <1>3
  <1>6. Max(S) = bundleIndex
    BY <1>4, <1>5, GreatestElement
  <1> QED
    BY <1>6 DEF S

LEMMA AllResolvedText ==
    ASSUME TypeInv, TextInv, AllResolved, UNCHANGED aliases, UNCHANGED width
    PROVE  TextInv'
  <1>1. /\ phase = "resolve" /\ at = Len(parsed) /\ phase' = "emit"
        /\ UNCHANGED <<source, labels, bundleIndex, parsed>>
    BY DEF AllResolved
  <1>2. at = bundleIndex /\ bundleIndex \in Nat
    BY <1>1 DEF TypeInv
  <1>3. CASE /\ \E l \in LinesOf : ~WellPlaced(l)
             /\ \E i \in 1 .. bundleIndex : Spoilt(parsed[i].parts)
    BY <1>1, <1>3, SameText DEF TextInv, Spoilt
  <1>4. CASE /\ WellStructured
             /\ labels = LabelBundles
             /\ Cardinality(Starts) = bundleIndex
             /\ \A i \in 1 .. bundleIndex : \E l \in Starts : BundlesBefore(l) + 1 = i
             /\ \A l \in Starts :
                  /\ BundlesBefore(l) + 1 \in 1 .. bundleIndex
                  /\ IF phase = "resolve" /\ BundlesBefore(l) >= at
                     THEN parsed[BundlesBefore(l) + 1].parts = BundleParts(l)
                     ELSE parsed[BundlesBefore(l) + 1].parts = ResolvedParts(l) /\ KnownLabels(l)
    <2>1. ASSUME NEW l \in Starts
          PROVE  /\ BundlesBefore(l) + 1 \in 1 .. bundleIndex
                 /\ parsed[BundlesBefore(l) + 1].parts = ResolvedParts(l) /\ KnownLabels(l)
      <3>1. BundlesBefore(l) \in Nat
        BY SourceFacts, Counts DEF TypeInv
      <3>2. BundlesBefore(l) + 1 \in 1 .. bundleIndex
        BY <1>4
      <3>3. ~(BundlesBefore(l) >= at)
        BY <1>2, <3>1, <3>2
      <3> QED
        BY <1>4, <3>2, <3>3
    <2>2. /\ WellStructured' /\ labels' = LabelBundles' /\ Cardinality(Starts)' = bundleIndex'
      BY <1>1, <1>4, SameWhole
    <2>3. \A i \in 1 .. bundleIndex' : \E l \in Starts' : BundlesBefore(l)' + 1 = i
      BY <1>1, <1>4, SameText
    <2>4. \A l \in Starts' :
             /\ BundlesBefore(l)' + 1 \in 1 .. bundleIndex'
             /\ parsed'[BundlesBefore(l)' + 1].parts = ResolvedParts(l)' /\ KnownLabels(l)'
      <3>1. \A l : /\ BundlesBefore(l)' = BundlesBefore(l)
                   /\ ResolvedParts(l)' = ResolvedParts(l) /\ (KnownLabels(l)' <=> KnownLabels(l))
        BY <1>1, SameText, SameWords
      <3>2. Starts' = Starts /\ bundleIndex' = bundleIndex /\ parsed' = parsed
        BY <1>1, SameText
      <3> QED
        BY <2>1, <3>1, <3>2
    <2> QED
      BY <1>1, <2>2, <2>3, <2>4 DEF TextInv
  <1> QED
    BY <1>3, <1>4 DEF TextInv

\* Emission starts with empty bundles.
LEMMA AllResolvedEmpty ==
    ASSUME TypeInv, AllResolved, UNCHANGED aliases, UNCHANGED width
    PROVE  EmitInv'
  <1>1. /\ phase = "resolve" /\ at' = 0 /\ placed' = placed
        /\ program' = [i \in 1 .. Max({0} \cup {parsed[k].bundle + 1 : k \in DOMAIN parsed})
                          |-> NopBundle]
        /\ UNCHANGED <<bundleIndex, parsed>>
    BY DEF AllResolved
  <1>2. placed = 0 /\ bundleIndex \in Nat
    BY <1>1 DEF TypeInv
  <1>3. program' = [i \in 1 .. bundleIndex |-> NopBundle]
    BY <1>1, BundlesCounted
  <1>4. at' < bundleIndex' => placed' <= Len(parsed'[at' + 1].parts)
    <2> SUFFICES ASSUME 0 < bundleIndex PROVE 0 <= Len(parsed[1].parts)
      BY <1>1, <1>2
    <2>1. IsParts(parsed[1].parts)
      BY <1>2 DEF TypeInv
    <2>2. Len(parsed[1].parts) \in Nat
      BY <2>1, SequenceFacts DEF IsParts
    <2> QED
      BY <2>2
  <1>5. \A i \in 1 .. bundleIndex : Emitted(i)' = 0
    BY <1>1, <1>2, SameSlots
  <1>6. \A i \in 1 .. bundleIndex : \A s : InSlot(i, s)' = {}
    BY <1>1, <1>5, SameSlots
  <1>7. NopBundle \in [1 .. width -> Input] /\ \A s \in 1 .. width : NopBundle[s] = Nop
    BY NopIsInput DEF NopBundle
  <1>8. program' \in [1 .. bundleIndex' -> [1 .. width' -> Input]]
    BY <1>1, <1>3, <1>7
  <1>9. \A i \in 1 .. bundleIndex' : \A k \in 1 .. Emitted(i)' : Parses(parsed[i].parts[k])'
    BY <1>1, <1>5
  <1>10. \A i \in 1 .. bundleIndex' : \A s \in 1 .. width' :
            InSlot(i, s)' = {} /\ program'[i][s] = Nop
    BY <1>1, <1>3, <1>6, <1>7
  <1> QED
    BY <1>4, <1>8, <1>9, <1>10 DEF EmitInv

\* Emitting changes nothing of what has been read and resolved.
LEMMA TextStays ==
    ASSUME TextInv, phase \in {"emit", "done"}, phase' \in {"emit", "done"},
           UNCHANGED <<source, labels, bundleIndex, parsed>>, UNCHANGED <<aliases, width>>
    PROVE  TextInv'
  <1>1. CASE /\ \E l \in LinesOf : ~WellPlaced(l)
             /\ \E i \in 1 .. bundleIndex : Spoilt(parsed[i].parts)
    BY <1>1, SameText DEF TextInv, Spoilt
  <1>2. CASE /\ WellStructured
             /\ labels = LabelBundles
             /\ Cardinality(Starts) = bundleIndex
             /\ \A i \in 1 .. bundleIndex : \E l \in Starts : BundlesBefore(l) + 1 = i
             /\ \A l \in Starts :
                  /\ BundlesBefore(l) + 1 \in 1 .. bundleIndex
                  /\ IF phase = "resolve" /\ BundlesBefore(l) >= at
                     THEN parsed[BundlesBefore(l) + 1].parts = BundleParts(l)
                     ELSE parsed[BundlesBefore(l) + 1].parts = ResolvedParts(l) /\ KnownLabels(l)
    <2>1. /\ WellStructured' /\ labels' = LabelBundles' /\ Cardinality(Starts)' = bundleIndex'
      BY <1>2, SameWhole
    <2>2. \A i \in 1 .. bundleIndex' : \E l \in Starts' : BundlesBefore(l)' + 1 = i
      BY <1>2, SameText
    <2>3. \A l \in Starts' :
             /\ BundlesBefore(l)' + 1 \in 1 .. bundleIndex'
             /\ parsed'[BundlesBefore(l)' + 1].parts = ResolvedParts(l)' /\ KnownLabels(l)'
      <3>1. \A l : /\ BundlesBefore(l)' = BundlesBefore(l)
                   /\ ResolvedParts(l)' = ResolvedParts(l) /\ (KnownLabels(l)' <=> KnownLabels(l))
        BY SameText, SameWords
      <3>2. Starts' = Starts /\ bundleIndex' = bundleIndex /\ parsed' = parsed
        BY SameText
      <3> QED
        BY <1>2, <3>1, <3>2
    <2> QED
      BY <2>1, <2>2, <2>3 DEF TextInv
  <1> QED
    BY <1>1, <1>2 DEF TextInv

\* The bundle whose instructions are emitted.
LEMMA EmittedBundle ==
    ASSUME TypeInv, at < Len(parsed)
    PROVE  /\ at \in Nat /\ placed \in Nat /\ bundleIndex \in Nat /\ at + 1 \in 1 .. bundleIndex
           /\ Len(parsed) = bundleIndex
           /\ parsed[at + 1].bundle + 1 = at + 1
           /\ Parts = parsed[at + 1].parts /\ IsParts(Parts) /\ Len(Parts) \in Nat
  <1>1. /\ at \in Nat /\ placed \in Nat /\ bundleIndex \in Nat /\ at + 1 \in 1 .. bundleIndex
        /\ Len(parsed) = bundleIndex
    BY DEF TypeInv
  <1>2. parsed[at + 1] = [bundle |-> at + 1 - 1, parts |-> parsed[at + 1].parts]
    BY <1>1 DEF TypeInv
  <1>3. parsed[at + 1].bundle = at
    BY <1>1, <1>2
  <1>4. IsParts(parsed[at + 1].parts)
    BY <1>1 DEF TypeInv
  <1>5. Len(parsed[at + 1].parts) \in Nat
    BY <1>4, SequenceFacts DEF IsParts
  <1> QED
    BY <1>1, <1>3, <1>4, <1>5 DEF Parts

\* The instructions in slot s of bundle i, the last of which the slot holds.
Holds(i, s) ==
    \/ InSlot(i, s) = {} /\ program[i][s] = Nop
    \/ \E k \in InSlot(i, s) : /\ \A j \in InSlot(i, s) : k >= j
                               /\ program[i][s] = SyllableOf(parsed[i].parts[k])

LEMMA HoldsStays ==
    ASSUME NEW i, NEW s, Holds(i, s), InSlot(i, s)' = InSlot(i, s),
           program'[i][s] = program[i][s], parsed' = parsed
    PROVE  Holds(i, s)'
  BY DEF Holds

\* An instruction goes over those that its slot had before, and no other slot
\* changes.
LEMMA InstructionEmitted ==
    ASSUME TypeInv, EmitInv, EmitInstruction, UNCHANGED aliases, UNCHANGED width
    PROVE  EmitInv'
  <1>0. PICK b : b = at + 1
    OBVIOUS
  <1> DEFINE part == Parts[placed + 1]
             t == SlotOf(part.slot) + 1
             new == SyllableOf(part)
  <1>1. /\ at < Len(parsed) /\ placed < Len(Parts) /\ Parses(part)
        /\ program' = [program EXCEPT ![parsed[at + 1].bundle + 1] = SetSlot(@, part)]
        /\ placed' = placed + 1 /\ UNCHANGED <<at, bundleIndex, parsed>>
    BY DEF EmitInstruction
  <1>2. /\ at \in Nat /\ placed \in Nat /\ bundleIndex \in Nat /\ b \in 1 .. bundleIndex
        /\ Len(parsed) = bundleIndex /\ parsed[at + 1].bundle + 1 = b
        /\ Parts = parsed[b].parts /\ IsParts(Parts) /\ Len(Parts) \in Nat
    BY <1>0, <1>1, EmittedBundle
  <1>3. placed + 1 \in 1 .. Len(Parts) /\ part = parsed[b].parts[placed + 1]
    BY <1>1, <1>2
  <1>4. new \in Input
    <2>1. IsPart(part)
      BY <1>2, <1>3 DEF IsParts
    <2> QED
      BY <1>1, <2>1, SyllableFits
  <1>5. t \in 1 .. width
    <2>1. SlotOf(part.slot) \in 0 .. width - 1
      BY <1>1 DEF Parses, NamesSlot
    <2> HIDE DEF part
    <2>2. headerPhase = "done" /\ width \in 1 .. 256
      BY DEF EmitInstruction, TypeInv
    <2> QED
      BY <2>1, <2>2
  <1>6. program' = [program EXCEPT ![b] = [@ EXCEPT ![t] = new]]
    BY <1>1, <1>2 DEF SetSlot
  <1>7. program \in [1 .. bundleIndex -> [1 .. width -> Input]]
    BY DEF EmitInv
  <1>8. Emitted(b) = placed /\ Emitted(b)' = placed + 1
    BY <1>0, <1>1, <1>2, SameSlots DEF Emitted
  <1>9. \A i \in 1 .. bundleIndex : i # b => Emitted(i)' = Emitted(i)
    BY <1>0, <1>1, <1>2, SameSlots DEF Emitted
  <1> HIDE DEF part, new, t
  <1>10. program' \in [1 .. bundleIndex' -> [1 .. width' -> Input]]
    <2>1. [program[b] EXCEPT ![t] = new] \in [1 .. width -> Input]
      BY <1>2, <1>4, <1>7
    <2>2. program' \in [1 .. bundleIndex -> [1 .. width -> Input]]
      BY <1>6, <1>7, <2>1
    <2> QED
      BY <1>1, <2>2
  <1>11. /\ \A i \in 1 .. bundleIndex : \A s \in 1 .. width :
              i # b \/ s # t => program'[i][s] = program[i][s]
         /\ program'[b][t] = new
    <2>1. program'[b] = [program[b] EXCEPT ![t] = new]
      BY <1>2, <1>6, <1>7
    <2>2. \A i \in 1 .. bundleIndex : i # b => program'[i] = program[i]
      BY <1>6, <1>7
    <2>3. program[b] \in [1 .. width -> Input]
      BY <1>2, <1>7
    <2>4. program'[b][t] = new /\ \A s \in 1 .. width : s # t => program'[b][s] = program[b][s]
      BY <1>5, <2>1, <2>3
    <2> QED
      BY <2>2, <2>4
  <1>12. at' < bundleIndex' => placed' <= Len(parsed'[at' + 1].parts)
    BY <1>0, <1>1, <1>2, <1>3
  <1>13. \A i \in 1 .. bundleIndex' : \A k \in 1 .. Emitted(i)' : Parses(parsed[i].parts[k])'
    <2>1. ASSUME NEW i \in 1 .. bundleIndex, NEW k \in 1 .. Emitted(i)'
          PROVE  Parses(parsed[i].parts[k])
      <3>1. CASE i = b /\ k = placed + 1
        BY <1>1, <1>3, <3>1
      <3>2. CASE i = b /\ k # placed + 1
        <4>1. k \in 1 .. Emitted(i)
          BY <1>2, <1>8, <2>1, <3>2
        <4> QED
          BY <4>1 DEF EmitInv
      <3>3. CASE i # b
        <4>1. k \in 1 .. Emitted(i)
          BY <1>9, <2>1, <3>3
        <4> QED
          BY <4>1 DEF EmitInv
      <3> QED
        BY <3>1, <3>2, <3>3
    <2>2. \A i, k : Parses(parsed[i].parts[k])' <=> Parses(parsed[i].parts[k])
      BY <1>1 DEF Parses, NamesSlot, SlotOf
    <2> QED
      BY <1>1, <2>1, <2>2
  <1>14. ASSUME NEW i \in 1 .. bundleIndex, NEW s \in 1 .. width
         PROVE  Holds(i, s)'
    <2>1. Holds(i, s)
      BY DEF EmitInv, Holds
    <2>2. CASE i # b
      <3>1. InSlot(i, s)' = InSlot(i, s)
        <4>1. InSlot(i, s)' = {k \in 1 .. Emitted(i)' : SlotOf(parsed[i].parts[k].slot) = s - 1}
          BY <1>1, SameSlots
        <4>2. Emitted(i)' = Emitted(i)
          BY <1>9, <2>2
        <4> QED
          BY <4>1, <4>2 DEF InSlot
      <3> QED
        BY <1>1, <1>11, <2>1, <2>2, <3>1, HoldsStays
    <2>3. /\ \A k \in 1 .. placed + 1 : k \in 1 .. placed \/ k = placed + 1
          /\ \A k \in 1 .. placed : k \in 1 .. placed + 1
          /\ placed + 1 \in 1 .. placed + 1
      BY <1>2
    <2>4. SlotOf(parsed[b].parts[placed + 1].slot) = s - 1 <=> s = t
      <3>1. SlotOf(part.slot) \in 0 .. width - 1
        BY <1>1 DEF Parses, NamesSlot
      <3>2. headerPhase = "done" /\ width \in 1 .. 256
        BY DEF EmitInstruction, TypeInv
      <3> QED
        BY <1>3, <3>1, <3>2 DEF t
    <2>5. InSlot(b, s) = {k \in 1 .. placed : SlotOf(parsed[b].parts[k].slot) = s - 1}
      BY <1>8 DEF InSlot
    <2>6. InSlot(b, s)' = {k \in 1 .. placed + 1 : SlotOf(parsed[b].parts[k].slot) = s - 1}
      BY <1>1, <1>8, SameSlots
    <2>7. CASE i = b /\ s # t
      <3>1. InSlot(b, s)' = InSlot(b, s)
        BY <2>3, <2>4, <2>5, <2>6, <2>7
      <3> QED
        BY <1>1, <1>11, <2>1, <2>7, <3>1, HoldsStays
    <2>8. CASE i = b /\ s = t
      <3>1. placed + 1 \in InSlot(b, s)'
        BY <2>3, <2>4, <2>6, <2>8
      <3>2. \A j \in InSlot(b, s)' : placed + 1 >= j
        BY <1>2, <2>6
      <3>3. program'[b][s] = SyllableOf(parsed'[b].parts[placed + 1])
        BY <1>1, <1>3, <1>11, <2>8 DEF new
      <3> QED
        BY <2>8, <3>1, <3>2, <3>3 DEF Holds
    <2> QED
      BY <2>2, <2>7, <2>8
  <1>15. \A i \in 1 .. bundleIndex' : \A s \in 1 .. width' : Holds(i, s)'
    BY <1>1, <1>14
  <1> QED
    BY <1>10, <1>12, <1>13, <1>15 DEF EmitInv, Holds

\* When a bundle is done, all its instructions have been emitted.
LEMMA BundleDone ==
    ASSUME TypeInv, EmitInv, BundleEmitted \/ AllEmitted, UNCHANGED aliases, UNCHANGED width
    PROVE  EmitInv'
  <1>1. UNCHANGED <<bundleIndex, parsed, program>> /\ bundleIndex \in Nat
    BY DEF BundleEmitted, AllEmitted, TypeInv
  <1>2. \A i \in 1 .. bundleIndex : Emitted(i)' = Emitted(i)
    <2>1. CASE BundleEmitted
      <3>1. at < Len(parsed) /\ placed = Len(Parts) /\ at' = at + 1 /\ placed' = 0
        BY <2>1 DEF BundleEmitted
      <3>2. at \in Nat /\ Parts = parsed[at + 1].parts
        BY <3>1, EmittedBundle
      <3> QED
        BY <1>1, <3>1, <3>2, SameSlots DEF Emitted
    <2>2. CASE AllEmitted
      BY <1>1, <2>2 DEF Emitted, AllEmitted
    <2> QED
      BY <2>1, <2>2
  <1>3. \A i \in 1 .. bundleIndex : \A s : InSlot(i, s)' = InSlot(i, s)
    BY <1>1, <1>2, SameSlots DEF InSlot
  <1>4. at' < bundleIndex' => placed' <= Len(parsed'[at' + 1].parts)
    <2>1. CASE BundleEmitted
      <3>1. at < Len(parsed) /\ at' = at + 1 /\ placed' = 0
        BY <2>1 DEF BundleEmitted
      <3>2. at \in Nat
        BY DEF TypeInv
      <3> SUFFICES ASSUME at + 1 < bundleIndex PROVE 0 <= Len(parsed[at + 1 + 1].parts)
        BY <1>1, <3>1, <3>2
      <3>3. IsParts(parsed[at + 1 + 1].parts)
        BY <1>1, <3>2 DEF TypeInv
      <3>4. Len(parsed[at + 1 + 1].parts) \in Nat
        BY <3>3, SequenceFacts DEF IsParts
      <3> QED
        BY <3>4
    <2>2. CASE AllEmitted
      BY <1>1, <2>2 DEF AllEmitted, EmitInv
    <2> QED
      BY <2>1, <2>2
  <1>5. \A i \in 1 .. bundleIndex' : \A k \in 1 .. Emitted(i)' : Parses(parsed[i].parts[k])'
    <2>1. \A i, k : Parses(parsed[i].parts[k])' <=> Parses(parsed[i].parts[k])
      BY <1>1 DEF Parses, NamesSlot, SlotOf
    <2> QED
      BY <1>1, <1>2, <2>1 DEF EmitInv
  <1>6. \A i \in 1 .. bundleIndex' : \A s \in 1 .. width' : Holds(i, s)'
    <2>1. \A i \in 1 .. bundleIndex : \A s \in 1 .. width : Holds(i, s)
      BY DEF EmitInv, Holds
    <2> QED
      BY <1>1, <1>3, <2>1, HoldsStays
  <1>7. program' \in [1 .. bundleIndex' -> [1 .. width' -> Input]]
    BY <1>1 DEF EmitInv
  <1> QED
    BY <1>4, <1>5, <1>6, <1>7 DEF EmitInv, Holds

-----------------------------------------------------------------------------
(* Refusing. *)

\* A name that is no label of the text is refused only if the text has it.
LEMMA UnknownRefused ==
    ASSUME TypeInv, TextInv, UnknownLabel
    PROVE  ~WellFormed
  <1>1. phase = "resolve" /\ at < Len(parsed) /\ UnknownLabels(parsed[at + 1].parts) # {}
    BY DEF UnknownLabel
  <1>2. at \in Nat /\ at + 1 \in 1 .. bundleIndex
    BY <1>1, EmittedBundle
  <1>3. CASE \E l \in LinesOf : ~WellPlaced(l)
    BY <1>3, NotInPlace
  <1>4. CASE ~ \E l \in LinesOf : ~WellPlaced(l)
    <2>1. /\ labels = LabelBundles
          /\ \A i \in 1 .. bundleIndex : \E l \in Starts : BundlesBefore(l) + 1 = i
          /\ \A l \in Starts : BundlesBefore(l) >= at =>
               parsed[BundlesBefore(l) + 1].parts = BundleParts(l)
      BY <1>1, <1>4 DEF TextInv
    <2>2. PICK l \in Starts : BundlesBefore(l) + 1 = at + 1
      BY <1>2, <2>1
    <2>3. BundlesBefore(l) = at
      <3>1. BundlesBefore(l) \in Nat
        BY SourceFacts, Counts DEF TypeInv
      <3> QED
        BY <1>2, <2>2, <3>1
    <2>4. parsed[at + 1].parts = BundleParts(l)
      BY <1>2, <2>1, <2>3
    <2>5. PICK i \in DOMAIN BundleParts(l) :
            \E x \in Words(BundleParts(l)[i]) : IsLabelRef(x) /\ x[2] \notin DOMAIN labels
      BY <1>1, <2>4 DEF UnknownLabels
    <2>6. DOMAIN labels = LabelNames
      BY <2>1 DEF LabelBundles
    <2> QED
      BY <2>5, <2>6 DEF WellFormed
  <1> QED
    BY <1>3, <1>4

\* So is an instruction that does not parse.
LEMMA BadRefused ==
    ASSUME TypeInv, TextInv, BadInstruction
    PROVE  ~WellFormed
  <1>1. /\ phase = "emit" /\ at < Len(parsed) /\ placed < Len(Parts)
        /\ ~Parses(Parts[placed + 1])
    BY DEF BadInstruction
  <1>2. /\ at \in Nat /\ at + 1 \in 1 .. bundleIndex /\ placed \in Nat /\ Len(Parts) \in Nat
        /\ Parts = parsed[at + 1].parts /\ IsParts(Parts)
    BY <1>1, EmittedBundle
  <1>3. CASE \E l \in LinesOf : ~WellPlaced(l)
    BY <1>3, NotInPlace
  <1>4. CASE ~ \E l \in LinesOf : ~WellPlaced(l)
    <2>1. /\ \A i \in 1 .. bundleIndex : \E l \in Starts : BundlesBefore(l) + 1 = i
          /\ \A l \in Starts : parsed[BundlesBefore(l) + 1].parts = ResolvedParts(l)
      BY <1>1, <1>4 DEF TextInv
    <2>2. PICK l \in Starts : BundlesBefore(l) + 1 = at + 1
      BY <1>2, <2>1
    <2>3. Parts = ResolvedParts(l)
      BY <1>2, <2>1, <2>2
    <2>4. placed + 1 \in DOMAIN Parts
      BY <1>1, <1>2, SequenceFacts DEF IsParts
    <2>5. /\ placed + 1 \in DOMAIN BundleParts(l)
          /\ Parts[placed + 1] = ResolvePart(LabelBundles, BundleParts(l)[placed + 1])
      BY <2>3, <2>4 DEF ResolvedParts
    <2>6. ~Parses(ResolvePart(LabelBundles, BundleParts(l)[placed + 1]))
      BY <1>1, <2>5
    <2> QED
      BY <2>5, <2>6 DEF WellFormed
  <1> QED
    BY <1>3, <1>4

-----------------------------------------------------------------------------
(* The invariant holds. *)

\* The reading depends on no variable of the header.
LEMMA NothingRead ==
    ASSUME TypeInv, UNCHANGED bodyVars
    PROVE  ReadInv(at)' <=> ReadInv(at)
  BY DEF bodyVars, ReadInv, Broken, BlockRead, BundlesRead, LabelsRead, Names, Unique, Spoilt,
         WellPlaced, InsideBlock, Starts, LinesOf, BundlesBefore, LabelsOf, BundleParts

LEMMA AssemblerInvInit ==
    ASSUME Init
    PROVE  AssemblerInv
  <1>1. TypeInv /\ phase = "lines" /\ at = 0
    BY TypeInvInit
  <1>2. /\ inBlock = FALSE /\ bundleIndex = 0 /\ pending = <<>>
        /\ labels = [x \in {} |-> 0]
    BY DEF Init
  <1>3. BlockRead(0)
    <2>1. ~InsideBlock(0 + 1)
      BY DEF InsideBlock
    <2> QED
      BY <1>2, <2>1 DEF BlockRead
  <1>4. BundlesRead(0)
    <2>1. BundlesBefore(0 + 1) = 0
      BY <1>1, AllCounted DEF TypeInv
    <2>2. \A l \in Starts : BundlesBefore(l) \in Nat
      BY <1>1, SourceFacts, Counts DEF TypeInv
    <2> QED
      BY <1>2, <2>1, <2>2 DEF BundlesRead
  <1>5. LabelsRead(0, 0)
    <2>1. Names(0 + 1, 0) = {} /\ Unique(0 + 1, 0)
      BY NoNames
    <2>2. Names(1, 0) = {} /\ Unique(1, 0)
      BY <2>1
    <2> QED
      BY <1>2, <2>1, <2>2, EmptySequence DEF LabelsRead
  <1>6. ReadInv(at)
    BY <1>1, <1>3, <1>4, <1>5 DEF ReadInv
  <1> QED
    BY <1>1, <1>6 DEF AssemblerInv

LEMMA Unmoved ==
    ASSUME AssemblerInv, UNCHANGED vars
    PROVE  AssemblerInv'
  <1>1. /\ UNCHANGED bodyVars /\ UNCHANGED <<source, aliases, width>>
        /\ UNCHANGED <<at, placed, phase, labels, bundleIndex, parsed, program>>
    BY DEF vars, headerVars, bodyVars
  <1>2. TypeInv'
    BY TypeInvStep DEF AssemblerInv
  <1>3. phase = "lines" => ReadInv(at)'
    BY <1>1, NothingRead DEF AssemblerInv
  <1>4. phase \in {"resolve", "emit", "done"} => TextInv'
    <2>1. TextInv => TextInv'
      BY <1>1, SameText, SameWords, SameWhole DEF TextInv, Spoilt
    <2> QED
      BY <2>1 DEF AssemblerInv
  <1>5. phase \in {"emit", "done"} => EmitInv'
    <2>1. \A i, s : Emitted(i)' = Emitted(i) /\ InSlot(i, s)' = InSlot(i, s)
      BY <1>1 DEF Emitted, InSlot, SlotOf
    <2>2. \A i, k : Parses(parsed[i].parts[k])' <=> Parses(parsed[i].parts[k])
      BY <1>1 DEF Parses, NamesSlot, SlotOf
    <2>3. EmitInv => EmitInv'
      BY <1>1, <2>1, <2>2 DEF EmitInv
    <2> QED
      BY <2>3 DEF AssemblerInv
  <1>6. phase = "failed" => ~WellFormed'
    BY <1>1, SameForm DEF AssemblerInv
  <1>7. phase = "done" => at' = bundleIndex'
    BY <1>1 DEF AssemblerInv
  <1> QED
    BY <1>1, <1>2, <1>3, <1>4, <1>5, <1>6, <1>7 DEF AssemblerInv

\* Every step of the assembler keeps the invariant.
LEMMA AssemblerInvStep ==
    ASSUME AssemblerInv, [Next]_vars
    PROVE  AssemblerInv'
  <1>1. TypeInv' /\ TypeInv
    BY TypeInvStep DEF AssemblerInv
  <1>2. CASE UNCHANGED vars
    BY <1>2, Unmoved
  <1>3. CASE ParseHeader
    <2>1. headerPhase # "done" /\ UNCHANGED bodyVars
      BY <1>3, HeaderStep DEF ParseHeader
    <2>2. phase = "lines" /\ phase' = "lines"
      BY <1>1, <2>1 DEF TypeInv, bodyVars
    <2>3. ReadInv(at)'
      BY <1>1, <2>1, <2>2, NothingRead DEF AssemblerInv
    <2> QED
      BY <1>1, <2>2, <2>3 DEF AssemblerInv
  <1>4. CASE ParseBody
    <2>1. UNCHANGED aliases /\ UNCHANGED width /\ UNCHANGED <<aliases, width>>
      BY <1>4 DEF ParseBody, headerVars
    <2>2. CASE CloseBlock \/ BlockLine \/ LabelLine \/ OpenBlock \/ InlineBundle
      <3>1. Reading /\ phase = "lines" /\ phase' = "lines"
        BY <2>2 DEF CloseBlock, BlockLine, LabelLine, OpenBlock, InlineBundle, Reading
      <3>2. ReadInv(at)
        BY <3>1 DEF AssemblerInv
      <3>3. ReadInv(at)'
        BY <1>1, <2>2, <3>1, <3>2, ReadStep
      <3> QED
        BY <1>1, <3>1, <3>3 DEF AssemblerInv
    <2>3. ASSUME phase' = "failed", source' = source, ~WellFormed
          PROVE  AssemblerInv'
      <3>1. ~WellFormed'
        BY <2>1, <2>3, SameForm
      <3> QED
        BY <1>1, <2>3, <3>1 DEF AssemblerInv
    <2>4. CASE LegacyHeader \/ BadBlockLine \/ DuplicateLabel \/ UnfinishedText
      <3>1. phase = "lines" /\ phase' = "failed" /\ source' = source
        BY <2>4 DEF LegacyHeader, BadBlockLine, DuplicateLabel, UnfinishedText, Reading, Fail
      <3>2. ReadInv(at)
        BY <3>1 DEF AssemblerInv
      <3>3. ~WellFormed
        BY <1>1, <2>4, <3>2, ReadingFails DEF WellFormed
      <3> QED
        BY <2>3, <3>1, <3>3
    <2>5. CASE EndOfText
      <3>1. phase = "lines" /\ phase' = "resolve"
        BY <2>5 DEF EndOfText
      <3>2. ReadInv(at)
        BY <3>1 DEF AssemblerInv
      <3>3. TextInv'
        BY <1>1, <2>5, <3>2, EndRead
      <3> QED
        BY <1>1, <3>1, <3>3 DEF AssemblerInv
    <2>6. CASE ResolveBundle
      <3>1. phase = "resolve" /\ phase' = "resolve"
        BY <2>6 DEF ResolveBundle
      <3>2. TextInv
        BY <3>1 DEF AssemblerInv
      <3>3. TextInv'
        BY <1>1, <2>1, <2>6, <3>2, ResolveKeeps
      <3> QED
        BY <1>1, <3>1, <3>3 DEF AssemblerInv
    <2>7. CASE UnknownLabel
      <3>1. phase = "resolve" /\ phase' = "failed" /\ source' = source
        BY <2>7 DEF UnknownLabel, Fail
      <3>2. TextInv
        BY <3>1 DEF AssemblerInv
      <3>3. ~WellFormed
        BY <1>1, <2>7, <3>2, UnknownRefused
      <3> QED
        BY <2>3, <3>1, <3>3
    <2>8. CASE AllResolved
      <3>1. phase = "resolve" /\ phase' = "emit"
        BY <2>8 DEF AllResolved
      <3>2. TextInv
        BY <3>1 DEF AssemblerInv
      <3>3. TextInv' /\ EmitInv'
        BY <1>1, <2>1, <2>8, <3>2, AllResolvedText, AllResolvedEmpty
      <3> QED
        BY <1>1, <3>1, <3>3 DEF AssemblerInv
    <2>9. CASE EmitInstruction \/ BundleEmitted \/ AllEmitted
      <3>1. /\ phase = "emit" /\ phase' \in {"emit", "done"}
            /\ phase' = "done" => at = Len(parsed) /\ UNCHANGED <<at, bundleIndex>>
            /\ UNCHANGED <<source, labels, bundleIndex, parsed>>
        BY <2>9 DEF EmitInstruction, BundleEmitted, AllEmitted
      <3>2. TextInv /\ EmitInv
        BY <3>1 DEF AssemblerInv
      <3>3. TextInv'
        BY <2>1, <3>1, <3>2, TextStays
      <3>4. EmitInv'
        <4>1. CASE EmitInstruction
          BY <1>1, <2>1, <3>2, <4>1, InstructionEmitted
        <4>2. CASE BundleEmitted \/ AllEmitted
          BY <1>1, <2>1, <3>2, <4>2, BundleDone
        <4> QED
          BY <2>9, <4>1, <4>2
      <3>5. phase' = "done" => at' = bundleIndex'
        BY <1>1, <3>1 DEF TypeInv
      <3> QED
        BY <1>1, <3>1, <3>3, <3>4, <3>5 DEF AssemblerInv
    <2>10. CASE BadInstruction
      <3>1. phase = "emit" /\ phase' = "failed" /\ source' = source
        BY <2>10 DEF BadInstruction, Fail
      <3>2. TextInv
        BY <3>1 DEF AssemblerInv
      <3>3. ~WellFormed
        BY <1>1, <2>10, <3>2, BadRefused
      <3> QED
        BY <2>3, <3>1, <3>3
    <2> QED
      BY <1>4, <2>2, <2>4, <2>5, <2>6, <2>7, <2>8, <2>9, <2>10 DEF ParseBody, CollectLine
  <1> QED
    BY <1>2, <1>3, <1>4 DEF Next

-----------------------------------------------------------------------------
(* The theorems. *)

\* The reading, the resolution of labels and the emission of instructions
\* (collect_lines, resolve_labels, parse_program) are always as far into the text
\* as the invariant says.
THEOREM AssemblerInvAlways == Spec => []AssemblerInv
  <1>1. Init => AssemblerInv
    BY AssemblerInvInit
  <1>2. AssemblerInv /\ [Next]_vars => AssemblerInv'
    BY AssemblerInvStep
  <1> QED
    BY <1>1, <1>2, PTL DEF Spec

\* When the reading has ended all instructions have been emitted, so that none
\* of them is one that the emission refuses.
LEMMA DoneText ==
    ASSUME AssemblerInv, phase = "done"
    PROVE  /\ TypeInv /\ WellStructured /\ labels = LabelBundles
           /\ Cardinality(Starts) = bundleIndex
           /\ \A i \in 1 .. bundleIndex : Emitted(i) = Len(parsed[i].parts)
           /\ \A i \in 1 .. bundleIndex : \A k \in DOMAIN parsed[i].parts :
                Parses(parsed[i].parts[k])
           /\ \A l \in Starts : /\ BundlesBefore(l) + 1 \in 1 .. bundleIndex
                                /\ parsed[BundlesBefore(l) + 1].parts = ResolvedParts(l)
                                /\ KnownLabels(l)
  <1>1. TypeInv /\ TextInv /\ EmitInv /\ at = bundleIndex /\ bundleIndex \in Nat
    BY DEF AssemblerInv, TypeInv
  <1>2. \A i \in 1 .. bundleIndex : Emitted(i) = Len(parsed[i].parts)
    BY <1>1 DEF Emitted
  <1>3. \A i \in 1 .. bundleIndex : \A k \in DOMAIN parsed[i].parts : Parses(parsed[i].parts[k])
    <2> SUFFICES ASSUME NEW i \in 1 .. bundleIndex, NEW k \in DOMAIN parsed[i].parts
                 PROVE  Parses(parsed[i].parts[k])
      OBVIOUS
    <2>1. IsParts(parsed[i].parts)
      BY <1>1 DEF TypeInv
    <2>2. k \in 1 .. Len(parsed[i].parts)
      BY <2>1, SequenceFacts DEF IsParts
    <2> QED
      BY <1>1, <1>2, <2>2 DEF EmitInv
  <1>4. ~ \E i \in 1 .. bundleIndex : Spoilt(parsed[i].parts)
    BY <1>3 DEF Spoilt, Parses
  <1> QED
    BY <1>1, <1>2, <1>3, <1>4 DEF TextInv

\* Whatever order blocks, labels and their uses come in: a file is assembled only
\* if the text as a whole is well formed, and refused only if it is not.
THEOREM AcceptsTheWellFormedAlways == Spec => []AcceptsTheWellFormed
  <1>1. AssemblerInv => AcceptsTheWellFormed
    <2> SUFFICES ASSUME AssemblerInv, phase = "done" PROVE WellFormed
      BY DEF AssemblerInv, AcceptsTheWellFormed
    <2>1. ASSUME NEW l \in Starts, NEW i \in DOMAIN BundleParts(l)
          PROVE  /\ \A word \in Words(BundleParts(l)[i]) :
                       IsLabelRef(word) => word[2] \in LabelNames
                 /\ Parses(ResolvePart(LabelBundles, BundleParts(l)[i]))
      <3>1. /\ BundlesBefore(l) + 1 \in 1 .. bundleIndex
            /\ parsed[BundlesBefore(l) + 1].parts = ResolvedParts(l) /\ KnownLabels(l)
        BY DoneText
      <3>2. /\ i \in DOMAIN ResolvedParts(l)
            /\ ResolvedParts(l)[i] = ResolvePart(LabelBundles, BundleParts(l)[i])
        BY DEF ResolvedParts
      <3>3. Parses(ResolvedParts(l)[i])
        BY <3>1, <3>2, DoneText
      <3> QED
        BY <3>1, <3>2, <3>3 DEF KnownLabels
    <2> QED
      BY <2>1, DoneText DEF WellFormed
  <1> QED
    BY <1>1, AssemblerInvAlways, PTL

\* After collect_lines every label stands for the bundle behind it.
THEOREM LabelsDenoteTheirBundlesAlways == Spec => []LabelsDenoteTheirBundles
  <1>1. AssemblerInv => LabelsDenoteTheirBundles
    BY DoneText DEF LabelsDenoteTheirBundles
  <1> QED
    BY <1>1, AssemblerInvAlways, PTL

\* parse_program drops no instruction and puts none into another bundle or slot.
THEOREM EveryInstructionIsPlacedAlways == Spec => []EveryInstructionIsPlaced
  <1>1. AssemblerInv => EveryInstructionIsPlaced
    <2> SUFFICES ASSUME AssemblerInv, phase = "done" PROVE EveryInstructionIsPlaced
      BY DEF EveryInstructionIsPlaced
    <2>1. EmitInv /\ TypeInv /\ bundleIndex \in Nat
      BY DEF AssemblerInv, TypeInv
    <2>2. Len(program) = Cardinality(Starts)
      <3>1. program \in [1 .. bundleIndex -> [1 .. width -> Input]]
        BY <2>1 DEF EmitInv
      <3>2. program = [i \in 1 .. bundleIndex |-> program[i]]
        BY <3>1
      <3>3. Len(program) = bundleIndex
        BY <2>1, <3>2, ListIsASequence
      <3> QED
        BY <3>3, DoneText
    <2>3. ASSUME NEW l \in Starts, NEW s \in 1 .. width
          PROVE  LET parts == [i \in DOMAIN BundleParts(l) |->
                                  ResolvePart(LabelBundles, BundleParts(l)[i])]
                     here  == {i \in DOMAIN parts : SlotOf(parts[i].slot) = s - 1}
                 IN  program[BundlesBefore(l) + 1][s] =
                         IF here = {} THEN Nop ELSE SyllableOf(parts[Max(here)])
      <3> DEFINE parts == [i \in DOMAIN BundleParts(l) |->
                              ResolvePart(LabelBundles, BundleParts(l)[i])]
                 here  == {i \in DOMAIN parts : SlotOf(parts[i].slot) = s - 1}
      <3> SUFFICES program[BundlesBefore(l) + 1][s] =
                       IF here = {} THEN Nop ELSE SyllableOf(parts[Max(here)])
        OBVIOUS
      <3>1. PICK b : b = BundlesBefore(l) + 1
        OBVIOUS
      <3>2. b \in 1 .. bundleIndex /\ parsed[b].parts = parts
        BY <3>1, DoneText DEF ResolvedParts
      <3> HIDE DEF parts
      <3>3. IsParts(parts)
        BY <2>1, <3>2 DEF TypeInv
      <3>4. DOMAIN parts = 1 .. Len(parts) /\ Len(parts) \in Nat
        BY <3>3, SequenceFacts DEF IsParts
      <3>5. Emitted(b) = Len(parts)
        BY <3>2, DoneText
      <3>6. InSlot(b, s) = here
        BY <3>2, <3>4, <3>5 DEF InSlot
      <3> HIDE DEF here
      <3>7. \/ here = {} /\ program[b][s] = Nop
            \/ \E k \in here : /\ \A j \in here : k >= j
                               /\ program[b][s] = SyllableOf(parts[k])
        BY <2>1, <3>2, <3>6 DEF EmitInv
      <3>8. ASSUME NEW k \in here, \A j \in here : k >= j
            PROVE  Max(here) = k
        <4>1. here \subseteq Int
          BY <3>4 DEF here
        <4> QED
          BY <3>8, <4>1, GreatestElement
      <3> QED
        BY <3>1, <3>7, <3>8
    <2> QED
      BY <2>2, <2>3 DEF EveryInstructionIsPlaced
  <1> QED
    BY <1>1, AssemblerInvAlways, PTL

\* What comes out are bundles as wide as the header says, of syllables that the
\* processors and the verifier expect.
THEOREM AssembledProgramsAreInputsAlways == Spec => []AssembledProgramsAreInputs
  <1>1. AssemblerInv => AssembledProgramsAreInputs
    <2> SUFFICES ASSUME AssemblerInv, phase = "done" PROVE AssembledProgramsAreInputs
      BY DEF AssembledProgramsAreInputs
    <2>1. program \in [1 .. bundleIndex -> [1 .. width -> Input]]
      BY DEF AssemblerInv, EmitInv
    <2>2. ASSUME NEW i \in DOMAIN program
          PROVE  DOMAIN program[i] = 1 .. width /\ \A s \in 1 .. width : program[i][s] \in Input
      <3>1. program[i] \in [1 .. width -> Input]
        BY <2>1
      <3> QED
        BY <3>1
    <2> QED
      BY <2>2 DEF AssembledProgramsAreInputs, Input
  <1> QED
    BY <1>1, AssemblerInvAlways, PTL

-----------------------------------------------------------------------------
(* The header: numbers and braces. *)

LEMMA LeastNumber ==
    ASSUME NEW S, S \subseteq Nat, S # {}
    PROVE  \E x \in S : \A y \in S : x <= y
  <1>1. PICK x \in S : \A y \in S : ~ (<<y, x>> \in OpToRel(<, Nat))
    BY WFMin, NatLessThanWellFounded, Zenon
  <1>2. ASSUME NEW y \in S PROVE x <= y
    <2>1. y < x => <<y, x>> \in OpToRel(<, Nat)
      BY DEF OpToRel
    <2>2. ~ (y < x)
      BY <1>1, <2>1, Zenon
    <2> QED
      BY <2>2
  <1> QED
    BY <1>1, <1>2

\* A bounded set of numbers has a last one.
LEMMA LastNumber ==
    ASSUME NEW n \in Int, NEW S, S \subseteq 0 .. n, S # {}
    PROVE  Max(S) \in S /\ \A y \in S : Max(S) >= y
  <1> DEFINE T == {n - x : x \in S}
  <1>1. T \subseteq Nat /\ T # {}
    <2>1. PICK x \in S : TRUE
      OBVIOUS
    <2>2. n - x \in T
      OBVIOUS
    <2>3. ASSUME NEW y \in S PROVE n - y \in Nat
      OBVIOUS
    <2> QED
      BY <2>2, <2>3
  <1>2. PICK t \in T : \A y \in T : t <= y
    <2> HIDE DEF T
    <2> QED BY <1>1, LeastNumber
  <1>3. PICK x \in S : t = n - x
    OBVIOUS
  <1>4. ASSUME NEW y \in S PROVE x >= y
    <2>1. n - y \in T /\ y \in Int /\ x \in Int
      OBVIOUS
    <2> QED
      BY <1>2, <1>3, <2>1
  <1>5. S \subseteq Int
    OBVIOUS
  <1>6. Max(S) = x
    BY <1>4, <1>5, GreatestElement
  <1> QED
    BY <1>4, <1>6

LEMMA NumbersInduction ==
    ASSUME NEW S, 0 \in S, \A n \in Nat : n \in S => n + 1 \in S
    PROVE  Nat \subseteq S
  <1> DEFINE T == Nat \ S
  <1>1. SUFFICES ASSUME T # {} PROVE FALSE
    OBVIOUS
  <1>2. PICK x \in T : \A y \in T : x <= y
    BY <1>1, LeastNumber
  <1>3. x # 0 /\ x - 1 \in Nat
    OBVIOUS
  <1>4. x - 1 \in S
    BY <1>2, <1>3
  <1> QED
    BY <1>3, <1>4

\* The braces open behind the lines 0 .. n.
Braces(text, n, depth) ==
    /\ depth[0] = 0
    /\ \A k \in 1 .. n : depth[k] = depth[k - 1] + text[k].braces

\* The lines can be counted one after the other.
LEMMA BracesCounted ==
    ASSUME NEW text, NEW n \in Nat, \A k \in 1 .. n : text[k].braces \in Int
    PROVE  \E depth \in [Nat -> Int] : Braces(text, n, depth)
  <1> DEFINE S == {m \in Nat : m <= n => \E depth \in [Nat -> Int] : Braces(text, m, depth)}
  <1>1. 0 \in S
    <2>1. [k \in Nat |-> 0] \in [Nat -> Int] /\ Braces(text, 0, [k \in Nat |-> 0])
      BY DEF Braces
    <2> QED
      BY <2>1
  <1>2. ASSUME NEW m \in Nat, m \in S PROVE m + 1 \in S
    <2>1. SUFFICES ASSUME m + 1 <= n
                   PROVE  \E depth \in [Nat -> Int] : Braces(text, m + 1, depth)
      OBVIOUS
    <2>2. PICK depth \in [Nat -> Int] : Braces(text, m, depth)
      BY <1>2, <2>1
    <2>3. text[m + 1].braces \in Int
      BY <2>1
    <2> DEFINE b == text[m + 1].braces
               more == [k \in Nat |-> IF k = m + 1 THEN depth[m] + b ELSE depth[k]]
    <2>4. more \in [Nat -> Int]
      BY <2>3
    <2>5. Braces(text, m + 1, more)
      <3>1. more[0] = 0
        BY <2>2 DEF Braces
      <3>2. ASSUME NEW k \in 1 .. m + 1 PROVE more[k] = more[k - 1] + text[k].braces
        <4>1. CASE k = m + 1
          BY <4>1
        <4>2. CASE k # m + 1
          <5>1. k \in 1 .. m /\ k - 1 # m + 1 /\ k - 1 \in Nat
            BY <4>2
          <5>2. depth[k] = depth[k - 1] + text[k].braces
            BY <5>1, <2>2 DEF Braces
          <5> QED
            BY <5>1, <5>2, <4>2
        <4> QED
          BY <4>1, <4>2
      <3> QED
        BY <3>1, <3>2 DEF Braces
    <2> QED
      BY <2>4, <2>5
  <1> HIDE DEF S
  <1>4. Nat \subseteq S
    BY <1>1, <1>2, NumbersInduction
  <1>5. n \in S
    BY <1>4
  <1> QED
    BY <1>5 DEF S

\* Depth is that count.
LEMMA DepthFacts ==
    ASSUME NEW text, NEW n \in Nat, \A k \in 1 .. n : text[k].braces \in Int
    PROVE  Header!Depth(text, n) \in Int /\ Header!Depth(text, 0) = 0
  <1>1. ASSUME NEW m \in Nat, m <= n, \A k \in 1 .. m : text[k].braces \in Int
        PROVE  Header!Depth(text, m) \in Int /\ (m = 0 => Header!Depth(text, m) = 0)
    <2>1. PICK g \in [Nat -> Int] : Braces(text, m, g)
      BY <1>1, BracesCounted
    <2> DEFINE Tallies(t) == t = [k \in 0 .. m |-> IF k = 0 THEN 0 ELSE t[k - 1] + text[k].braces]
               depth     == CHOOSE t : Tallies(t)
               h         == [k \in 0 .. m |-> g[k]]
    <2>2. Tallies(h)
      <3>1. ASSUME NEW k \in 0 .. m, k # 0 PROVE h[k] = h[k - 1] + text[k].braces
        <4>1. k \in 1 .. m /\ k - 1 \in 0 .. m
          BY <3>1
        <4> QED
          BY <2>1, <4>1 DEF Braces
      <3>2. h[0] = 0
        BY <2>1 DEF Braces
      <3>3. h = [k \in 0 .. m |-> h[k]]
        OBVIOUS
      <3> HIDE DEF h
      <3> QED
        BY <3>1, <3>2, <3>3
    <2>3. Tallies(depth)
      <3> HIDE DEF h
      <3> QED BY <2>2
    <2>4. Header!Depth(text, m) = depth[m]
      BY DEF Header!Depth
    <2> HIDE DEF depth
    <2>5. depth[0] = 0 /\ \A k \in 1 .. m : depth[k] = depth[k - 1] + text[k].braces
      BY <2>3
    <2> DEFINE S == {k \in Nat : k <= m => depth[k] \in Int}
    <2>6. 0 \in S
      BY <2>5
    <2>7. ASSUME NEW k \in Nat, k \in S PROVE k + 1 \in S
      <3>1. CASE k + 1 <= m
        <4>1. k + 1 \in 1 .. m /\ (k + 1) - 1 = k
          BY <3>1
        <4>2. depth[k + 1] = depth[k] + text[k + 1].braces
          BY <2>5, <4>1
        <4>3. depth[k] \in Int /\ text[k + 1].braces \in Int
          BY <1>1, <2>7, <4>1
        <4> QED
          BY <4>2, <4>3
      <3> QED
        BY <3>1
    <2>8. Nat \subseteq S
      <3> HIDE DEF S
      <3> QED BY <2>6, <2>7, NumbersInduction
    <2> QED
      BY <2>4, <2>5, <2>8
  <1>2. n <= n /\ 0 <= n /\ \A k \in 1 .. 0 : FALSE
    OBVIOUS
  <1> QED
    BY <1>1, <1>2

-----------------------------------------------------------------------------
(* The header: its sections. *)

HeaderOK ==
    /\ IsSequence(header)
    /\ \A l \in 1 .. Len(header) : Header!IsLine(header[l])

Sections == Header!BlockSections \cup Header!FieldSections

SectionWords == {"hardware", "slots", "cache", "arch", "memory", "topology"}

LEMMA SectionsAre ==
    Sections = SectionWords /\ Header!BlockSections = {"hardware", "slots"}
    /\ Header!FieldSections = {"cache", "arch", "memory", "topology"}
  BY DEF Sections, SectionWords, Header!BlockSections, Header!FieldSections

LEMMA HeaderDepth ==
    ASSUME HeaderOK, NEW n \in 0 .. Len(header)
    PROVE  Header!Depth(header, n) \in Int /\ Header!Depth(header, 0) = 0
  <1>1. n \in Nat /\ \A k \in 1 .. n : header[k].braces \in Int
    BY SequenceFacts DEF HeaderOK, Header!IsLine
  <1> QED
    BY <1>1, DepthFacts

\* The line that opens the block around line l opens it around all lines since.
LEMMA OpenerFacts ==
    ASSUME HeaderOK, NEW l \in 1 .. Len(header), ~(Header!Depth(header, l - 1) <= 1)
    PROVE  /\ Header!Opener(l) \in 1 .. l - 1
           /\ \A k \in Header!Opener(l) + 1 .. l :
                ~(Header!Depth(header, k - 1) <= 1) /\ Header!Opener(k) = Header!Opener(l)
  <1> DEFINE D(k) == Header!Depth(header, k)
             S == {k \in 0 .. l - 1 : D(k) <= 1}
             o == Max(S) + 1
  <1>1. Len(header) \in Nat /\ l - 1 \in Int /\ \A k \in 0 .. Len(header) : D(k) \in Int
    BY HeaderDepth, SequenceFacts DEF HeaderOK
  <1>2. D(0) = 0
    BY HeaderDepth, SequenceFacts DEF HeaderOK
  <1> HIDE DEF D
  <1>3. Max(S) \in S /\ \A k \in S : Max(S) >= k
    <2>1. 0 \in S /\ S \subseteq 0 .. l - 1
      BY <1>2
    <2> HIDE DEF S
    <2> QED
      BY <1>1, <2>1, LastNumber
  <1>4. o \in 1 .. l - 1 /\ D(o - 1) <= 1 /\ \A k \in o .. l - 1 : ~(D(k) <= 1)
    <2>1. Max(S) \in 0 .. l - 1 /\ D(Max(S)) <= 1
      BY <1>3
    <2>2. ~(D(l - 1) <= 1)
      BY DEF D
    <2>3. \A k \in 0 .. l - 1 : D(k) <= 1 => Max(S) >= k
      BY <1>3
    <2> DEFINE m == Max(S)
    <2>4. m \in 0 .. l - 1 /\ D(m) <= 1 /\ \A k \in 0 .. l - 1 : D(k) <= 1 => m >= k
      BY <2>1, <2>3
    <2> HIDE DEF m
    <2>5. m # l - 1 /\ (m + 1) - 1 = m
      BY <2>2, <2>4
    <2>6. ASSUME NEW k \in m + 1 .. l - 1 PROVE ~(D(k) <= 1)
      BY <2>4
    <2>7. m + 1 \in 1 .. l - 1 /\ D((m + 1) - 1) <= 1
      BY <2>4, <2>5
    <2> QED
      BY <2>6, <2>7 DEF m
  <1> HIDE DEF o, S
  <1>5. ASSUME NEW k \in o + 1 .. l PROVE Header!Opener(k) = o
    <2> DEFINE T == {i \in 1 .. k - 1 : D(i - 1) <= 1 /\ D(i) > 1}
    <2>1. o \in T
      <3>1. o \in 1 .. k - 1 /\ o \in o .. l - 1 /\ D(o) \in Int
        BY <1>1, <1>4
      <3>2. D(o) > 1
        BY <1>4, <3>1
      <3> QED
        BY <1>4, <3>1, <3>2
    <2>2. \A i \in T : o >= i
      <3> SUFFICES ASSUME NEW i \in T, i > o PROVE FALSE
        BY <1>4
      <3>1. i - 1 \in o .. l - 1
        BY <1>4
      <3> QED
        BY <1>4, <3>1
    <2>3. T \subseteq Int
      OBVIOUS
    <2>4. Header!Opener(k) = Max(T)
      BY DEF Header!Opener, Header!Max, Max, D
    <2> HIDE DEF T
    <2> QED
      BY <2>1, <2>2, <2>3, <2>4, GreatestElement
  <1>6. l \in o + 1 .. l
    BY <1>4
  <1>7. \A k \in o + 1 .. l : k - 1 \in o .. l - 1
    BY <1>4
  <1> QED
    BY <1>4, <1>5, <1>6, <1>7 DEF D

\* The header has been found, with its end.
HeaderFound ==
    /\ HeaderOK
    /\ lines \in 1 .. Len(header)
    /\ header[1].head = ".processor"

\* What a line in its place is.
LEMMA NestedLine ==
    ASSUME Header!WellNested, NEW l \in 2 .. lines - 1
    PROVE  /\ header[l].head \in {"width"} \cup Sections =>
                Header!Within(l) = "none" \/ (header[l].head = "memory" /\ l \in Header!ArchMemoryLines)
           /\ header[l].head = "unit" => Header!Within(l) = "hardware"
           /\ header[l].head \in {"slot", "alias"} => Header!Within(l) = "slots"
           /\ header[l].head = "fields" => Header!Within(l) \in Header!FieldSections
           /\ header[l].head \in {"width", "unit", "slot", "alias", "fields", "brace"}
                                 \cup Sections
  <1>1. Header!InPlace(l)
    BY DEF Header!WellNested
  <1>2. header[l].head = "memory" /\ Header!Within(l) = "arch" => l \in Header!ArchMemoryLines
    BY DEF Header!ArchMemoryLines, Header!Lines
  <1> QED
    BY <1>1, <1>2, SectionsAre DEF Header!InPlace, SectionWords

\* Line l is in arch, with line i before it, which is a memory line of arch.
PastMemory(l, i) ==
    Header!Within(l) = "arch" /\ header[i].head = "memory" /\ i \in Header!ArchMemoryLines

\* The section around a line is the last one before it, but for the memory lines
\* of arch.
LEMMA SectionAround ==
    ASSUME HeaderFound, Header!WellNested, NEW l \in 2 .. lines - 1,
           Header!Within(l) \in Sections
    PROVE  \E k \in 1 .. l - 1 : /\ header[k].head = Header!Within(l)
                                 /\ \A i \in k + 1 .. l - 1 : \/ header[i].head \notin Sections
                                                              \/ PastMemory(l, i)
  <1> DEFINE o == Header!Opener(l)
             W == Header!Within(l)
  <1>1. l \in 1 .. Len(header) /\ Len(header) \in Nat /\ lines \in Nat
    BY SequenceFacts DEF HeaderFound, HeaderOK
  <1>2. ~(Header!Depth(header, l - 1) <= 1)
    BY SectionsAre DEF Header!Within, SectionWords
  <1>3. /\ o \in 1 .. l - 1
        /\ \A k \in o + 1 .. l : ~(Header!Depth(header, k - 1) <= 1) /\ Header!Opener(k) = o
    BY <1>1, <1>2, OpenerFacts DEF HeaderFound
  <1>4. W = IF header[o].head = "brace" THEN header[o - 1].head ELSE header[o].head
    BY <1>2 DEF Header!Within
  <1>5. ASSUME NEW i \in o + 1 .. l - 1 PROVE header[i].head \notin Sections \/ PastMemory(l, i)
    <2>1. i \in o + 1 .. l /\ i \in 2 .. lines - 1
      BY <1>1, <1>3
    <2>2. Header!Within(i) = W
      <3>1. ~(Header!Depth(header, i - 1) <= 1) /\ Header!Opener(i) = o
        BY <1>3, <2>1
      <3>2. Header!Within(i) = IF header[o].head = "brace" THEN header[o - 1].head ELSE header[o].head
        BY <3>1 DEF Header!Within
      <3> QED
        BY <1>4, <3>2
    <2>3. W # "none"
      BY SectionsAre DEF SectionWords
    <2>4. header[i].head \in Sections =>
            Header!Within(i) = "none" \/ (header[i].head = "memory" /\ i \in Header!ArchMemoryLines)
      BY <2>1, NestedLine
    <2>5. i \in Header!ArchMemoryLines => Header!Within(i) = "arch"
      BY DEF Header!ArchMemoryLines
    <2> QED
      BY <2>2, <2>3, <2>4, <2>5 DEF PastMemory
  <1> HIDE DEF o, W
  <1>6. CASE header[o].head = "brace"
    <2>1. o - 1 \in 1 .. l - 1
      BY <1>3, <1>6 DEF HeaderFound
    <2>2. ASSUME NEW i \in (o - 1) + 1 .. l - 1
          PROVE  header[i].head \notin Sections \/ PastMemory(l, i)
      <3>1. i = o \/ i \in o + 1 .. l - 1
        BY <1>3
      <3> QED
        BY <1>5, <1>6, <3>1, SectionsAre DEF SectionWords
    <2> QED
      BY <1>4, <1>6, <2>1, <2>2 DEF W
  <1>7. CASE header[o].head # "brace"
    BY <1>3, <1>4, <1>5, <1>7 DEF W
  <1> QED
    BY <1>6, <1>7

-----------------------------------------------------------------------------
(* The header: what has been read after n lines. *)

\* The lines with a first word among the first n of the header, and those with a
\* field.
HeaderLines(head, n) == {l \in Header!Lines(head) : l <= n}

LinesWithField(name, n) == {l \in Header!FieldLines(name) : l <= n}

\* What a field is after n lines: what the last of them says, or the default.
ValueAfter(name, n) ==
    IF LinesWithField(name, n) = {} THEN Header!DefaultFields[name]
    ELSE LET l == Max(LinesWithField(name, n))
         IN  Header!Assigned(Header!DefaultFields, header[l].args, Header!FieldsAt(l))[name]

\* What the reader knows after n lines is what those declare: the width, a table
\* of units, slots or aliases, the fields, the sections met and the section that
\* the next line is in.
WidthRead(w, n) ==
    /\ \A l \in HeaderLines("width", n) : header[l].args >= 0
    /\ w = IF HeaderLines("width", n) = {} THEN -1
           ELSE header[Max(HeaderLines("width", n))].args

TableRead(table, head, n) ==
    /\ table = [x \in {header[l].args[1] : l \in HeaderLines(head, n)} |-> table[x]]
    /\ \A l \in HeaderLines(head, n) : table[header[l].args[1]] = header[l].args[2]
    /\ \A l, k \in HeaderLines(head, n) : header[l].args[1] = header[k].args[1] => l = k

UnitsRead(n) == \A l \in HeaderLines("unit", n) : header[l].args[2] \in Header!UnitKinds

SlotsRead(n) == \A l \in HeaderLines("slot", n) : header[l].args[1] >= 0

AliasesRead(n) ==
    \A l \in HeaderLines("alias", n) :
        header[l].args[1] \notin HeaderReserved /\ header[l].args[2] >= 0

FieldsRead(table, n) ==
    /\ table = [name \in DOMAIN Header!DefaultFields |-> table[name]]
    /\ \A name \in Header!KeptFields : table[name] = ValueAfter(name, n)
    /\ Header!ArchMemoryLines = {} =>
         \A l \in 2 .. lines - 1 : l <= n =>
            \A i \in Header!FieldsAt(l) : header[l].args[i][2] >= 0

SeenRead(s, n) == s = {h \in Header!FieldSections : HeaderLines(h, n) # {}}

SectionRead(s, n) ==
    \/ s = "none" /\ \A i \in 1 .. n : header[i].head \notin Sections
    \/ \E k \in 1 .. n : /\ s = header[k].head /\ s \in Sections
                         /\ \A i \in k + 1 .. n : header[i].head \notin Sections

HeaderRead(n) ==
    /\ WidthRead(width, n)
    /\ TableRead(units, "unit", n) /\ UnitsRead(n)
    /\ TableRead(slots, "slot", n) /\ SlotsRead(n)
    /\ TableRead(aliases, "alias", n) /\ AliasesRead(n)
    /\ FieldsRead(fields, n)
    /\ SeenRead(seen, n)
    /\ SectionRead(section, n)

LineWords == {"width", "unit", "slot", "alias", "fields", "text"} \cup SectionWords

\* One line more.
LEMMA HeaderLinesNext ==
    ASSUME HeaderFound, Header!WellNested, NEW n \in 0 .. lines - 1, NEW h \in LineWords
    PROVE  /\ n \in Nat /\ HeaderLines(h, n) \subseteq 2 .. n
           /\ HeaderLines(h, n + 1) = IF header[n + 1].head = h THEN HeaderLines(h, n) \cup {n + 1}
                                      ELSE HeaderLines(h, n)
           /\ header[n + 1].head = h => n + 1 \in 2 .. lines - 1
  <1>1. lines \in Nat /\ header[1].head # h /\ header[lines].head # h
    BY SequenceFacts DEF HeaderFound, HeaderOK, Header!WellNested, LineWords, SectionWords
  <1>2. Header!Lines(h) = {l \in 2 .. lines - 1 : header[l].head = h}
    BY DEF Header!Lines
  <1>3. header[n + 1].head = h => n + 1 \in 2 .. lines - 1
    BY <1>1
  <1>4. ASSUME NEW l
        PROVE  l \in HeaderLines(h, n + 1) <=> \/ l \in HeaderLines(h, n)
                                               \/ l = n + 1 /\ header[n + 1].head = h
    BY <1>1, <1>2, <1>3 DEF HeaderLines
  <1>5. HeaderLines(h, n) \subseteq 2 .. n
    BY <1>1, <1>2 DEF HeaderLines
  <1>6. n \in Nat
    BY <1>1
  <1>7. HeaderLines(h, n + 1) = IF header[n + 1].head = h THEN HeaderLines(h, n) \cup {n + 1}
                                ELSE HeaderLines(h, n)
    BY <1>4
  <1> QED
    BY <1>3, <1>5, <1>6, <1>7

\* One line with the field more, or none.
LEMMA LinesWithFieldNext ==
    ASSUME HeaderFound, Header!WellNested, NEW n \in 0 .. lines - 1, NEW name
    PROVE  /\ LinesWithField(name, n) \subseteq 2 .. n
           /\ LinesWithField(name, n + 1) =
                IF n + 1 \in Header!FieldLines(name) THEN LinesWithField(name, n) \cup {n + 1}
                ELSE LinesWithField(name, n)
  <1>1. lines \in Nat
    BY SequenceFacts DEF HeaderFound, HeaderOK
  <1>2. Header!FieldLines(name) \subseteq 2 .. lines - 1
    BY DEF Header!FieldLines
  <1>3. ASSUME NEW l
        PROVE  l \in LinesWithField(name, n + 1) <=>
                  \/ l \in LinesWithField(name, n)
                  \/ l = n + 1 /\ n + 1 \in Header!FieldLines(name)
    BY <1>1, <1>2 DEF LinesWithField
  <1>4. LinesWithField(name, n) \subseteq 2 .. n
    BY <1>1, <1>2 DEF LinesWithField
  <1>5. CASE n + 1 \in Header!FieldLines(name)
    BY <1>3, <1>4, <1>5
  <1>6. CASE n + 1 \notin Header!FieldLines(name)
    BY <1>3, <1>4, <1>6
  <1> QED
    BY <1>5, <1>6

LEMMA NewGreatest ==
    ASSUME NEW n \in Nat, NEW S, S \subseteq 2 .. n
    PROVE  Max(S \cup {n + 1}) = n + 1
  <1>1. S \cup {n + 1} \subseteq Int /\ n + 1 \in S \cup {n + 1}
        /\ \A k \in S \cup {n + 1} : n + 1 >= k
    OBVIOUS
  <1> QED
    BY <1>1, GreatestElement

\* The width stays what it is but for a line of it.
LEMMA WidthPassed ==
    ASSUME HeaderFound, Header!WellNested, NEW n \in 0 .. lines - 1, NEW w, WidthRead(w, n),
           header[n + 1].head # "width"
    PROVE  WidthRead(w, n + 1)
  <1>1. HeaderLines("width", n + 1) = HeaderLines("width", n)
    BY HeaderLinesNext DEF LineWords
  <1> QED
    BY <1>1 DEF WidthRead

LEMMA WidthSet ==
    ASSUME HeaderFound, Header!WellNested, NEW n \in 0 .. lines - 1, NEW w, WidthRead(w, n),
           header[n + 1].head = "width", header[n + 1].args >= 0
    PROVE  WidthRead(header[n + 1].args, n + 1)
  <1>w. "width" \in LineWords
    BY DEF LineWords
  <1>1. HeaderLines("width", n + 1) = HeaderLines("width", n) \cup {n + 1}
        /\ HeaderLines("width", n) \subseteq 2 .. n /\ n \in Nat
    BY <1>w, HeaderLinesNext
  <1>2. Max(HeaderLines("width", n + 1)) = n + 1
    BY <1>1, NewGreatest
  <1> QED
    BY <1>1, <1>2 DEF WidthRead

\* A table stays as it is but for a line of its own, which adds an entry.
LEMMA TablePassed ==
    ASSUME HeaderFound, Header!WellNested, NEW n \in 0 .. lines - 1, NEW h \in LineWords,
           NEW table, TableRead(table, h, n), header[n + 1].head # h
    PROVE  TableRead(table, h, n + 1)
  <1>1. HeaderLines(h, n + 1) = HeaderLines(h, n)
    BY HeaderLinesNext
  <1> QED
    BY <1>1 DEF TableRead

LEMMA TableGrown ==
    ASSUME HeaderFound, Header!WellNested, NEW n \in 0 .. lines - 1, NEW h \in LineWords,
           NEW table, TableRead(table, h, n), header[n + 1].head = h,
           header[n + 1].args[1] \notin DOMAIN table,
           NEW more,
           more = [x \in DOMAIN table \cup {header[n + 1].args[1]} |->
                      IF x = header[n + 1].args[1] THEN header[n + 1].args[2] ELSE table[x]]
    PROVE  TableRead(more, h, n + 1)
  <1> DEFINE x == header[n + 1].args[1]
             y == header[n + 1].args[2]
             S == HeaderLines(h, n)
             a(l) == header[l].args[1]
  <1>1. HeaderLines(h, n + 1) = S \cup {n + 1}
    BY HeaderLinesNext
  <1>2. DOMAIN table = {a(l) : l \in S}
    BY DEF TableRead
  <1>3. more = [z \in DOMAIN table \cup {x} |-> IF z = x THEN y ELSE table[z]]
    OBVIOUS
  <1>4. DOMAIN table \cup {x} = {a(l) : l \in S \cup {n + 1}}
    BY <1>2
  <1>5. more = [z \in {a(l) : l \in S \cup {n + 1}} |-> more[z]]
    BY <1>3, <1>4
  <1>6. ASSUME NEW l \in S \cup {n + 1} PROVE more[a(l)] = header[l].args[2]
    <2>1. CASE l \in S
      <3>1. a(l) \in DOMAIN table /\ table[a(l)] = header[l].args[2]
        BY <1>2, <2>1 DEF TableRead
      <3> QED
        BY <1>3, <3>1
    <2>2. CASE l = n + 1
      BY <1>3, <2>2
    <2> QED
      BY <2>1, <2>2
  <1>7. ASSUME NEW l \in S \cup {n + 1}, NEW k \in S \cup {n + 1}, a(l) = a(k) PROVE l = k
    <2>1. \A i \in S : a(i) # x
      BY <1>2
    <2> QED
      BY <1>7, <2>1 DEF TableRead
  <1> QED
    BY <1>1, <1>5, <1>6, <1>7 DEF TableRead

\* A section is met in its own line.
LEMMA SeenNext ==
    ASSUME HeaderFound, Header!WellNested, NEW n \in 0 .. lines - 1, NEW s, SeenRead(s, n)
    PROVE  SeenRead(s \cup ({header[n + 1].head} \cap Header!FieldSections), n + 1)
  <1>1. ASSUME NEW h \in Header!FieldSections
        PROVE  HeaderLines(h, n + 1) # {} <=> HeaderLines(h, n) # {} \/ h = header[n + 1].head
    <2>1. h \in LineWords
      BY SectionsAre DEF LineWords, SectionWords
    <2> QED
      BY <2>1, HeaderLinesNext
  <1> QED
    BY <1>1 DEF SeenRead

\* A section lasts until the next one.
LEMMA SectionPassed ==
    ASSUME NEW n \in Nat, NEW s, SectionRead(s, n), header[n + 1].head \notin Sections
    PROVE  SectionRead(s, n + 1)
  <1>1. CASE s = "none" /\ \A i \in 1 .. n : header[i].head \notin Sections
    <2>1. \A i \in 1 .. n + 1 : i \in 1 .. n \/ i = n + 1
      OBVIOUS
    <2> QED
      BY <1>1, <2>1 DEF SectionRead
  <1>2. CASE \E k \in 1 .. n : /\ s = header[k].head /\ s \in Sections
                               /\ \A i \in k + 1 .. n : header[i].head \notin Sections
    <2>1. PICK k \in 1 .. n : /\ s = header[k].head /\ s \in Sections
                              /\ \A i \in k + 1 .. n : header[i].head \notin Sections
      BY <1>2
    <2>2. k \in 1 .. n + 1 /\ \A i \in k + 1 .. n + 1 : i \in k + 1 .. n \/ i = n + 1
      OBVIOUS
    <2> QED
      BY <2>1, <2>2 DEF SectionRead
  <1> QED
    BY <1>1, <1>2 DEF SectionRead

LEMMA SectionSet ==
    ASSUME NEW n \in Nat, header[n + 1].head \in Sections
    PROVE  SectionRead(header[n + 1].head, n + 1)
  <1>1. n + 1 \in 1 .. n + 1 /\ \A i \in n + 1 + 1 .. n + 1 : FALSE
    OBVIOUS
  <1> QED
    BY <1>1 DEF SectionRead

\* The section of the reader is the one around the line, or memory behind a
\* memory line of arch.
LEMMA SectionKnown ==
    ASSUME HeaderFound, Header!WellNested, NEW n \in Nat, n + 1 \in 2 .. lines - 1,
           Header!Within(n + 1) \in Sections, NEW s, SectionRead(s, n)
    PROVE  \/ s = Header!Within(n + 1)
           \/ s = "memory" /\ Header!Within(n + 1) = "arch" /\ Header!ArchMemoryLines # {}
  <1> DEFINE W == Header!Within(n + 1)
  <1>1. (n + 1) - 1 = n
    OBVIOUS
  <1>2. PICK k \in 1 .. n :
           /\ header[k].head = W
           /\ \A i \in k + 1 .. n : header[i].head \notin Sections \/ PastMemory(n + 1, i)
    BY <1>1, SectionAround
  <1>3. PICK j \in 1 .. n : /\ s = header[j].head /\ s \in Sections
                            /\ \A i \in j + 1 .. n : header[i].head \notin Sections
    <2>1. header[k].head \in Sections
      BY <1>2
    <2> QED
      BY <2>1 DEF SectionRead
  <1>4. ~(j < k)
    <2>1. j < k => k \in j + 1 .. n
      OBVIOUS
    <2> QED
      BY <1>2, <1>3, <2>1
  <1>5. CASE k < j
    <2>1. j \in k + 1 .. n
      BY <1>5
    <2>2. PastMemory(n + 1, j)
      BY <1>2, <1>3, <2>1
    <2> QED
      BY <1>3, <2>2 DEF PastMemory
  <1>6. CASE j = k
    BY <1>2, <1>3, <1>6
  <1> QED
    BY <1>4, <1>5, <1>6

\* Fields stay what they are but for a line with fields.
LEMMA FieldsPassed ==
    ASSUME HeaderFound, Header!WellNested, NEW n \in 0 .. lines - 1, NEW table,
           FieldsRead(table, n), header[n + 1].head \notin Header!FieldSections \cup {"fields"}
    PROVE  FieldsRead(table, n + 1)
  <1>1. Header!FieldsAt(n + 1) = {}
    BY DEF Header!FieldsAt
  <1>2. ASSUME NEW name PROVE ValueAfter(name, n + 1) = ValueAfter(name, n)
    <2>1. n + 1 \notin Header!FieldLines(name)
      BY <1>1 DEF Header!FieldLines
    <2>2. LinesWithField(name, n + 1) = LinesWithField(name, n)
      BY <2>1, LinesWithFieldNext
    <2> QED
      BY <2>2 DEF ValueAfter
  <1>3. ASSUME Header!ArchMemoryLines = {},
               NEW l \in 2 .. lines - 1, l <= n + 1, NEW i \in Header!FieldsAt(l)
        PROVE  header[l].args[i][2] >= 0
    <2>1. l # n + 1 /\ l <= n
      BY <1>1, <1>3 DEF HeaderFound
    <2> QED
      BY <1>3, <2>1 DEF FieldsRead
  <1> QED
    BY <1>2, <1>3 DEF FieldsRead

\* What the reader takes for the fields of a line: those of its section, or in a
\* header with a memory line in arch some fields of arch for some others.
TakenFor(own, l) ==
    \/ own = Header!FieldsAt(l)
    \/ /\ Header!ArchMemoryLines # {}
       /\ \A i \in own \cup Header!FieldsAt(l) :
            Header!FieldOf(header[l].args[i][1]) \in Header!FieldNames["arch"]

LEMMA FieldsNext ==
    ASSUME HeaderFound, Header!WellNested, NEW n \in Nat, n + 1 \in 2 .. lines - 1, NEW table,
           NEW own, TakenFor(own, n + 1),
           FieldsRead(table, n), \A i \in own : header[n + 1].args[i][2] >= 0,
           NEW more, more = Header!Assigned(table, header[n + 1].args, own)
    PROVE  FieldsRead(more, n + 1)
  <1> DEFINE args == header[n + 1].args
             atLine == Header!FieldsAt(n + 1)
             givenAt(name) == {i \in atLine : Header!FieldOf(args[i][1]) = name}
             given(name) == {i \in own : Header!FieldOf(args[i][1]) = name}
             names == DOMAIN Header!DefaultFields
  <1>1. n \in 0 .. lines - 1 /\ DOMAIN table = names
    <2>1. lines \in Nat
      BY SequenceFacts DEF HeaderFound, HeaderOK
    <2>2. DOMAIN table = names
      BY DEF FieldsRead
    <2> QED
      BY <2>1, <2>2
  <1>2. more = [name \in names |-> IF given(name) = {} THEN table[name]
                                   ELSE args[Header!Max(given(name))][2]]
    BY <1>1 DEF Header!Assigned
  <1>3. ASSUME NEW name \in Header!KeptFields PROVE more[name] = ValueAfter(name, n + 1)
    <2>0. givenAt(name) = given(name)
      <3>1. CASE own = atLine
        BY <3>1
      <3>2. CASE own # atLine
        <4>1. /\ Header!ArchMemoryLines # {}
              /\ \A i \in own \cup atLine : Header!FieldOf(args[i][1]) \in Header!FieldNames["arch"]
          BY <3>2 DEF TakenFor
        <4>2. name \notin Header!FieldNames["arch"]
          BY <4>1 DEF Header!KeptFields
        <4> QED
          BY <4>1, <4>2
      <3> QED
        BY <3>1, <3>2
    <2>n. name \in names
      BY DEF Header!KeptFields
    <2>1. n + 1 \in Header!FieldLines(name) <=> given(name) # {}
      <3>1. n + 1 \in Header!FieldLines(name) <=> givenAt(name) # {}
        BY DEF Header!FieldLines
      <3> QED
        BY <2>0, <3>1
    <2>2. CASE given(name) = {}
      <3>1. LinesWithField(name, n + 1) = LinesWithField(name, n)
        BY <1>1, <2>1, <2>2, LinesWithFieldNext
      <3>2. table[name] = ValueAfter(name, n)
        BY DEF FieldsRead
      <3>3. more[name] = table[name]
        BY <1>2, <2>2, <2>n
      <3> QED
        BY <3>1, <3>2, <3>3 DEF ValueAfter
    <2>3. CASE given(name) # {}
      <3>1. LinesWithField(name, n + 1) = LinesWithField(name, n) \cup {n + 1}
            /\ LinesWithField(name, n) \subseteq 2 .. n
        BY <1>1, <2>1, <2>3, LinesWithFieldNext
      <3>2. Max(LinesWithField(name, n + 1)) = n + 1
        BY <3>1, NewGreatest
      <3>3. ValueAfter(name, n + 1) = Header!Assigned(Header!DefaultFields, args, atLine)[name]
        BY <3>1, <3>2 DEF ValueAfter
      <3>4. Header!Assigned(Header!DefaultFields, args, atLine)[name] = args[Header!Max(givenAt(name))][2]
        <4>1. givenAt(name) # {}
          BY <2>0, <2>3
        <4> QED
          BY <2>n, <4>1 DEF Header!Assigned
      <3>5. Header!Max(givenAt(name)) = Header!Max(given(name))
        BY <2>0
      <3>6. more[name] = args[Header!Max(given(name))][2]
        BY <1>2, <2>3, <2>n
      <3> HIDE DEF given, givenAt, atLine
      <3> QED
        BY <3>3, <3>4, <3>5, <3>6
    <2> QED
      BY <2>2, <2>3
  <1>4. ASSUME Header!ArchMemoryLines = {},
               NEW l \in 2 .. lines - 1, l <= n + 1, NEW i \in Header!FieldsAt(l)
        PROVE  header[l].args[i][2] >= 0
    <2>1. l = n + 1 \/ l <= n
      BY <1>4 DEF HeaderFound
    <2>2. CASE l = n + 1
      BY <1>4, <2>2 DEF TakenFor
    <2>3. CASE l <= n
      BY <1>4, <2>3 DEF FieldsRead
    <2> QED
      BY <2>1, <2>2, <2>3
  <1>5. more = [name \in names |-> more[name]]
    BY <1>2
  <1> QED
    BY <1>3, <1>4, <1>5 DEF FieldsRead

\* What has been read is about a header that stays as it is.
LEMMA SameHeader ==
    ASSUME UNCHANGED <<header, lines>>
    PROVE  /\ HeaderOK' <=> HeaderOK
           /\ HeaderFound' <=> HeaderFound
           /\ Header!WellNested' <=> Header!WellNested
           /\ \A l : Header!FieldsAt(l)' = Header!FieldsAt(l)
           /\ \A name : Header!FieldLines(name)' = Header!FieldLines(name)
           /\ \A h : Header!Lines(h)' = Header!Lines(h)
           /\ Header!ArchMemoryLines' = Header!ArchMemoryLines
           /\ Header!KeptFields' = Header!KeptFields
           /\ \A h, n : HeaderLines(h, n)' = HeaderLines(h, n)
           /\ \A name, n : LinesWithField(name, n)' = LinesWithField(name, n)
           /\ \A name, n : ValueAfter(name, n)' = ValueAfter(name, n)
  <1>1. HeaderOK' <=> HeaderOK
    BY DEF HeaderOK
  <1>2. HeaderFound' <=> HeaderFound
    BY <1>1 DEF HeaderFound
  <1>3. ASSUME NEW l PROVE Header!Within(l)' = Header!Within(l)
    <2>1. Header!Opener(l)' = Header!Opener(l)
      BY DEF Header!Opener
    <2> QED
      BY <2>1 DEF Header!Within
  <1>4. ASSUME NEW l PROVE Header!InPlace(l)' <=> Header!InPlace(l)
    BY <1>3 DEF Header!InPlace
  <1>5. Header!WellNested' <=> Header!WellNested
    BY <1>4 DEF Header!WellNested
  <1>6. ASSUME NEW l PROVE Header!FieldsAt(l)' = Header!FieldsAt(l)
    BY <1>3 DEF Header!FieldsAt
  <1>7. ASSUME NEW name PROVE Header!FieldLines(name)' = Header!FieldLines(name)
    BY <1>6 DEF Header!FieldLines
  <1>8. ASSUME NEW h PROVE Header!Lines(h)' = Header!Lines(h)
    BY DEF Header!Lines
  <1>9. ASSUME NEW h, NEW n PROVE HeaderLines(h, n)' = HeaderLines(h, n)
    BY <1>8 DEF HeaderLines
  <1>10. ASSUME NEW name, NEW n PROVE LinesWithField(name, n)' = LinesWithField(name, n)
    BY <1>7 DEF LinesWithField
  <1>11. ASSUME NEW name, NEW n PROVE ValueAfter(name, n)' = ValueAfter(name, n)
    BY <1>6, <1>10 DEF ValueAfter
  <1>12. Header!ArchMemoryLines' = Header!ArchMemoryLines
    BY <1>3, <1>8 DEF Header!ArchMemoryLines
  <1>13. Header!KeptFields' = Header!KeptFields
    BY <1>12 DEF Header!KeptFields
  <1> QED
    BY <1>1, <1>2, <1>5, <1>6, <1>7, <1>8, <1>9, <1>10, <1>11, <1>12, <1>13

\* What has been read after a step.
LEMMA ReadAfterwards ==
    ASSUME UNCHANGED <<header, lines>>, NEW n, headerAt' = n,
           WidthRead(width', n),
           TableRead(units', "unit", n), UnitsRead(n),
           TableRead(slots', "slot", n), SlotsRead(n),
           TableRead(aliases', "alias", n), AliasesRead(n),
           FieldsRead(fields', n), SeenRead(seen', n), SectionRead(section', n)
    PROVE  HeaderRead(headerAt)'
  <1>1. \A h : HeaderLines(h, headerAt)' = HeaderLines(h, n)
    BY SameHeader DEF HeaderLines
  <1>2. ASSUME NEW name PROVE ValueAfter(name, headerAt)' = ValueAfter(name, n)
    <2>1. LinesWithField(name, headerAt)' = LinesWithField(name, n)
      BY SameHeader DEF LinesWithField
    <2> QED
      BY <2>1, SameHeader DEF ValueAfter
  <1>3. WidthRead(width, headerAt)'
    BY <1>1 DEF WidthRead
  <1>4. TableRead(units, "unit", headerAt)'
    BY <1>1 DEF TableRead
  <1>5. TableRead(slots, "slot", headerAt)'
    BY <1>1 DEF TableRead
  <1>6. TableRead(aliases, "alias", headerAt)'
    BY <1>1 DEF TableRead
  <1>7. UnitsRead(headerAt)' /\ SlotsRead(headerAt)' /\ AliasesRead(headerAt)'
    BY <1>1 DEF UnitsRead, SlotsRead, AliasesRead
  <1>8. FieldsRead(fields, headerAt)'
    BY <1>2, SameHeader DEF FieldsRead
  <1>9. SeenRead(seen, headerAt)'
    BY <1>1 DEF SeenRead
  <1>10. SectionRead(section, headerAt)'
    BY DEF SectionRead
  <1> QED
    BY <1>3, <1>4, <1>5, <1>6, <1>7, <1>8, <1>9, <1>10 DEF HeaderRead

\* Lines that declare no unit, slot or alias.
LEMMA DeclarationsPassed ==
    ASSUME HeaderFound, Header!WellNested, NEW n \in 0 .. lines - 1, HeaderRead(n)
    PROVE  /\ header[n + 1].head # "unit" => TableRead(units, "unit", n + 1) /\ UnitsRead(n + 1)
           /\ header[n + 1].head # "slot" => TableRead(slots, "slot", n + 1) /\ SlotsRead(n + 1)
           /\ header[n + 1].head # "alias" =>
                TableRead(aliases, "alias", n + 1) /\ AliasesRead(n + 1)
  <1>1. {"unit", "slot", "alias"} \subseteq LineWords
    BY DEF LineWords
  <1>2. ASSUME header[n + 1].head # "unit"
        PROVE  TableRead(units, "unit", n + 1) /\ UnitsRead(n + 1)
    <2>1. HeaderLines("unit", n + 1) = HeaderLines("unit", n)
      BY <1>1, <1>2, HeaderLinesNext
    <2> QED
      BY <2>1 DEF HeaderRead, TableRead, UnitsRead
  <1>3. ASSUME header[n + 1].head # "slot"
        PROVE  TableRead(slots, "slot", n + 1) /\ SlotsRead(n + 1)
    <2>1. HeaderLines("slot", n + 1) = HeaderLines("slot", n)
      BY <1>1, <1>3, HeaderLinesNext
    <2> QED
      BY <2>1 DEF HeaderRead, TableRead, SlotsRead
  <1>4. ASSUME header[n + 1].head # "alias"
        PROVE  TableRead(aliases, "alias", n + 1) /\ AliasesRead(n + 1)
    <2>1. HeaderLines("alias", n + 1) = HeaderLines("alias", n)
      BY <1>1, <1>4, HeaderLinesNext
    <2> QED
      BY <2>1 DEF HeaderRead, TableRead, AliasesRead
  <1> QED
    BY <1>2, <1>3, <1>4

\* What a line says nothing about stays as it has been read.
LEMMA LinePassed ==
    ASSUME HeaderFound, Header!WellNested, NEW n \in 0 .. lines - 1, HeaderRead(n)
    PROVE  /\ header[n + 1].head # "width" => WidthRead(width, n + 1)
           /\ header[n + 1].head # "unit" => TableRead(units, "unit", n + 1) /\ UnitsRead(n + 1)
           /\ header[n + 1].head # "slot" => TableRead(slots, "slot", n + 1) /\ SlotsRead(n + 1)
           /\ header[n + 1].head # "alias" =>
                TableRead(aliases, "alias", n + 1) /\ AliasesRead(n + 1)
           /\ header[n + 1].head \notin Header!FieldSections \cup {"fields"} =>
                FieldsRead(fields, n + 1)
           /\ header[n + 1].head \notin Header!FieldSections => SeenRead(seen, n + 1)
           /\ header[n + 1].head \notin Sections => SectionRead(section, n + 1)
  <1>1. header[n + 1].head # "width" => WidthRead(width, n + 1)
    BY WidthPassed DEF HeaderRead
  <1>2. header[n + 1].head \notin Header!FieldSections \cup {"fields"} => FieldsRead(fields, n + 1)
    BY FieldsPassed DEF HeaderRead
  <1>3. ASSUME header[n + 1].head \notin Header!FieldSections PROVE SeenRead(seen, n + 1)
    <2>1. SeenRead(seen \cup ({header[n + 1].head} \cap Header!FieldSections), n + 1)
      BY SeenNext DEF HeaderRead
    <2>2. seen \cup ({header[n + 1].head} \cap Header!FieldSections) = seen
      BY <1>3
    <2> QED
      BY <2>1, <2>2
  <1>4. header[n + 1].head \notin Sections => SectionRead(section, n + 1)
    <2>1. n \in Nat /\ SectionRead(section, n)
      BY SequenceFacts DEF HeaderFound, HeaderOK, HeaderRead
    <2> QED
      BY <2>1, SectionPassed
  <1> QED
    BY <1>1, <1>2, <1>3, <1>4, DeclarationsPassed

\* The line that is read: the first is the directive, the last a brace.
LEMMA ReadingFacts ==
    ASSUME HeaderFound, Header!WellNested, HeaderRead(headerAt),
           headerAt \in Nat, Header!Parsing
    PROVE  /\ headerAt \in 0 .. lines - 1 /\ lines \in Nat
           /\ Header!Line = header[headerAt + 1]
           /\ Header!Line.head \notin {".processor", "brace"} => headerAt + 1 \in 2 .. lines - 1
  <1>1. lines \in Nat /\ headerAt \in 0 .. lines - 1
    BY SequenceFacts DEF HeaderFound, HeaderOK, Header!Parsing
  <1>2. header[1].head = ".processor" /\ header[lines].head = "brace"
    BY DEF HeaderFound, Header!WellNested
  <1>3. headerAt + 1 = 1 \/ headerAt + 1 = lines \/ headerAt + 1 \in 2 .. lines - 1
    BY <1>1
  <1> QED
    BY <1>1, <1>2, <1>3 DEF Header!Line

\* The kinds of lines, one by one.
LEMMA BraceRead ==
    ASSUME HeaderFound, Header!WellNested, HeaderRead(headerAt), headerAt \in Nat, Header!Brace
    PROVE  HeaderRead(headerAt)'
  <1> DEFINE n == headerAt
             h == header[n + 1].head
  <1>1. /\ UNCHANGED <<header, lines>> /\ n \in 0 .. lines - 1 /\ headerAt' = n + 1
        /\ h \in {".processor", "brace"}
        /\ UNCHANGED <<width, units, slots, aliases, fields, seen, section>>
    BY ReadingFacts DEF Header!Brace, Header!NextLine
  <1>2. h \notin {"width", "unit", "slot", "alias", "fields"} \cup Sections
        /\ h \notin Header!FieldSections
    BY <1>1, SectionsAre DEF SectionWords
  <1> HIDE DEF h
  <1>3. /\ WidthRead(width, n + 1)
        /\ TableRead(units, "unit", n + 1) /\ UnitsRead(n + 1)
        /\ TableRead(slots, "slot", n + 1) /\ SlotsRead(n + 1)
        /\ TableRead(aliases, "alias", n + 1) /\ AliasesRead(n + 1)
        /\ FieldsRead(fields, n + 1) /\ SeenRead(seen, n + 1) /\ SectionRead(section, n + 1)
    BY <1>1, <1>2, LinePassed DEF h
  <1> QED
    BY <1>1, <1>3, ReadAfterwards

LEMMA OpenBlockRead ==
    ASSUME HeaderFound, Header!WellNested, HeaderRead(headerAt), headerAt \in Nat,
           Header!OpenBlock
    PROVE  HeaderRead(headerAt)'
  <1> DEFINE n == headerAt
             h == header[n + 1].head
  <1>1. /\ UNCHANGED <<header, lines>> /\ n \in 0 .. lines - 1 /\ headerAt' = n + 1
        /\ h \in {"hardware", "slots"} /\ section' = h
        /\ UNCHANGED <<width, units, slots, aliases, fields, seen>>
    BY ReadingFacts, SectionsAre DEF Header!OpenBlock, Header!NextLine
  <1>2. h \notin {"width", "unit", "slot", "alias", "fields"} \cup Header!FieldSections
        /\ h \in Sections
    BY <1>1, SectionsAre DEF SectionWords
  <1>3. SectionRead(section', n + 1)
    BY <1>1, <1>2, SectionSet
  <1> HIDE DEF h
  <1>4. /\ WidthRead(width, n + 1)
        /\ TableRead(units, "unit", n + 1) /\ UnitsRead(n + 1)
        /\ TableRead(slots, "slot", n + 1) /\ SlotsRead(n + 1)
        /\ TableRead(aliases, "alias", n + 1) /\ AliasesRead(n + 1)
        /\ FieldsRead(fields, n + 1) /\ SeenRead(seen, n + 1)
    BY <1>1, <1>2, LinePassed DEF h
  <1> QED
    BY <1>1, <1>3, <1>4, ReadAfterwards

LEMMA SetWidthRead ==
    ASSUME HeaderFound, Header!WellNested, HeaderRead(headerAt), headerAt \in Nat,
           Header!SetWidth
    PROVE  HeaderRead(headerAt)'
  <1> DEFINE n == headerAt
             h == header[n + 1].head
  <1>1. /\ UNCHANGED <<header, lines>> /\ n \in 0 .. lines - 1 /\ headerAt' = n + 1
        /\ h = "width" /\ header[n + 1].args >= 0 /\ width' = header[n + 1].args
        /\ UNCHANGED <<units, slots, aliases, fields, seen, section>>
    BY ReadingFacts DEF Header!SetWidth, Header!NextLine
  <1>2. h \notin {"unit", "slot", "alias", "fields"} \cup Sections
        /\ h \notin Header!FieldSections
    BY <1>1, SectionsAre DEF SectionWords
  <1>3. WidthRead(width', n + 1)
    BY <1>1, WidthSet DEF HeaderRead
  <1> HIDE DEF h
  <1>4. /\ TableRead(units, "unit", n + 1) /\ UnitsRead(n + 1)
        /\ TableRead(slots, "slot", n + 1) /\ SlotsRead(n + 1)
        /\ TableRead(aliases, "alias", n + 1) /\ AliasesRead(n + 1)
        /\ FieldsRead(fields, n + 1) /\ SeenRead(seen, n + 1) /\ SectionRead(section, n + 1)
    BY <1>1, <1>2, LinePassed DEF h
  <1> QED
    BY <1>1, <1>3, <1>4, ReadAfterwards

\* The fields of a memory line, and of a section that is read for it, are those
\* of arch.
LEMMA FieldsOfMemory ==
    ASSUME HeaderOK, NEW l \in 1 .. Len(header), NEW sec \in {"arch", "memory"},
           header[l].head \in {"fields"} \cup Header!FieldSections,
           NEW i \in Header!OwnFields(sec, header[l].args)
    PROVE  Header!FieldOf(header[l].args[i][1]) \in Header!FieldNames["arch"]
  <1>1. header[l].args[i][1] \in Header!FieldNames[sec]
    BY DEF Header!OwnFields
  <1> QED
    BY <1>1 DEF Header!FieldOf, Header!FieldNames

\* A line of a field section, or one of fields inside of it, is read for the
\* section that it is in, or for memory instead of arch.
LEMMA FieldsBelong ==
    ASSUME HeaderFound, Header!WellNested, HeaderRead(headerAt), headerAt \in Nat,
           Header!Parsing, Header!FieldSection \in Header!FieldSections
    PROVE  /\ headerAt + 1 \in 2 .. lines - 1
           /\ Header!Line.head \in Header!FieldSections \cup {"fields"}
           /\ TakenFor(Header!LineFields, headerAt + 1)
           /\ Header!Line.head = "fields" => Header!FieldSection = section
  <1> DEFINE n == headerAt
             h == header[n + 1].head
  <1>1. /\ n \in 0 .. lines - 1 /\ lines \in Nat
        /\ Header!Line = header[n + 1]
        /\ h \notin {".processor", "brace"} => n + 1 \in 2 .. lines - 1
    BY ReadingFacts
  <1>2. h \in Header!FieldSections \cup {"unit", "alias", "slot", "fields", "text"}
    BY <1>1, SectionsAre DEF Header!FieldSection, SectionWords
  <1>3. n + 1 \in 2 .. lines - 1
    BY <1>1, <1>2, SectionsAre DEF SectionWords
  <1>4. h # "text"
    BY <1>3, NestedLine, SectionsAre DEF SectionWords
  <1>5. n + 1 \in 1 .. Len(header) /\ HeaderOK
    BY <1>1, SequenceFacts DEF HeaderFound, HeaderOK
  <1>6. h \in Header!FieldSections \cup {"fields"} =>
          /\ Header!LineFields = Header!OwnFields(Header!FieldSection, header[n + 1].args)
          /\ Header!FieldsAt(n + 1) =
               Header!OwnFields(IF Header!Within(n + 1) = "none" THEN h ELSE Header!Within(n + 1),
                                header[n + 1].args)
    BY <1>1 DEF Header!LineFields, Header!FieldsAt
  <1>7. CASE h \in Header!FieldSections
    <2>1. Header!FieldSection = h
      BY <1>1, <1>7 DEF Header!FieldSection
    <2>2. Header!Within(n + 1) = "none" \/ (h = "memory" /\ n + 1 \in Header!ArchMemoryLines)
      BY <1>3, <1>7, NestedLine DEF Sections
    <2>3. CASE Header!Within(n + 1) = "none"
      BY <1>1, <1>3, <1>6, <1>7, <2>1, <2>3, SectionsAre DEF TakenFor
    <2>4. CASE h = "memory" /\ n + 1 \in Header!ArchMemoryLines
      <3>1. Header!Within(n + 1) = "arch" /\ Header!ArchMemoryLines # {}
        BY <2>4 DEF Header!ArchMemoryLines
      <3>2. /\ Header!LineFields = Header!OwnFields("memory", header[n + 1].args)
            /\ Header!FieldsAt(n + 1) = Header!OwnFields("arch", header[n + 1].args)
        BY <1>6, <1>7, <2>1, <2>4, <3>1
      <3>3. \A i \in Header!LineFields \cup Header!FieldsAt(n + 1) :
              Header!FieldOf(header[n + 1].args[i][1]) \in Header!FieldNames["arch"]
        BY <1>5, <1>7, <3>2, FieldsOfMemory
      <3> QED
        BY <1>1, <1>3, <1>7, <2>4, <3>1, <3>3 DEF TakenFor
    <2> QED
      BY <2>2, <2>3, <2>4
  <1>8. CASE h \notin Header!FieldSections
    <2>1. Header!FieldSection = section /\ section \in Header!FieldSections
      BY <1>1, <1>2, <1>8 DEF Header!FieldSection
    <2>2. h = "fields" => Header!Within(n + 1) \in Header!FieldSections
      BY <1>3, NestedLine
    <2>3. h \in {"unit", "alias", "slot"} => Header!Within(n + 1) \in {"hardware", "slots"}
      BY <1>3, NestedLine
    <2>4. Header!Within(n + 1) \in Sections
      BY <1>2, <1>4, <1>8, <2>2, <2>3, SectionsAre DEF SectionWords
    <2>5. \/ section = Header!Within(n + 1)
          \/ section = "memory" /\ Header!Within(n + 1) = "arch" /\ Header!ArchMemoryLines # {}
      <3>1. n \in Nat /\ SectionRead(section, n)
        BY DEF HeaderRead
      <3> QED
        BY <1>3, <2>4, <3>1, SectionKnown
    <2>6. h = "fields"
      BY <1>2, <1>4, <1>8, <2>1, <2>3, <2>5, SectionsAre
    <2>7. Header!Within(n + 1) # "none"
      BY <2>4, SectionsAre DEF SectionWords
    <2>8. CASE section = Header!Within(n + 1)
      BY <1>1, <1>3, <1>6, <2>1, <2>6, <2>7, <2>8 DEF TakenFor
    <2>9. CASE section = "memory" /\ Header!Within(n + 1) = "arch" /\ Header!ArchMemoryLines # {}
      <3>1. /\ Header!LineFields = Header!OwnFields("memory", header[n + 1].args)
            /\ Header!FieldsAt(n + 1) = Header!OwnFields("arch", header[n + 1].args)
        BY <1>6, <2>1, <2>6, <2>7, <2>9
      <3>2. \A i \in Header!LineFields \cup Header!FieldsAt(n + 1) :
              Header!FieldOf(header[n + 1].args[i][1]) \in Header!FieldNames["arch"]
        BY <1>5, <2>6, <3>1, FieldsOfMemory
      <3> QED
        BY <1>1, <1>3, <2>1, <2>6, <2>9, <3>2 DEF TakenFor
    <2> QED
      BY <2>5, <2>8, <2>9
  <1> QED
    BY <1>7, <1>8

LEMMA FieldsOfLineRead ==
    ASSUME HeaderFound, Header!WellNested, HeaderRead(headerAt), headerAt \in Nat,
           Header!ReadFields
    PROVE  HeaderRead(headerAt)'
  <1> DEFINE n == headerAt
             h == header[n + 1].head
             own == Header!LineFields
  <1>1. /\ UNCHANGED <<header, lines>> /\ n \in 0 .. lines - 1 /\ headerAt' = n + 1
        /\ Header!Line = header[n + 1]
        /\ n + 1 \in 2 .. lines - 1 /\ TakenFor(own, n + 1)
        /\ h \in Header!FieldSections \cup {"fields"}
        /\ h = "fields" => section' = section
        /\ h # "fields" => section' = h
        /\ seen' = seen \cup ({h} \cap Header!FieldSections)
        /\ \A i \in own : header[n + 1].args[i][2] >= 0
        /\ fields' = Header!Assigned(fields, header[n + 1].args, own)
        /\ UNCHANGED <<width, units, slots, aliases>>
    <2>1. Header!Parsing /\ Header!FieldSection \in Header!FieldSections
          /\ UNCHANGED <<header, lines>> /\ headerAt' = n + 1
          /\ section' = Header!FieldSection
          /\ UNCHANGED <<width, units, slots, aliases>>
      BY DEF Header!ReadFields, Header!NextLine
    <2>2. /\ n \in 0 .. lines - 1 /\ Header!Line = header[n + 1]
      BY <2>1, ReadingFacts
    <2>3. /\ n + 1 \in 2 .. lines - 1
          /\ h \in Header!FieldSections \cup {"fields"}
          /\ TakenFor(own, n + 1)
          /\ h = "fields" => Header!FieldSection = section
      BY <2>1, <2>2, FieldsBelong
    <2>4. h # "fields" => Header!FieldSection = h
      BY <2>2, <2>3 DEF Header!FieldSection
    <2>5. /\ seen' = seen \cup ({h} \cap Header!FieldSections)
          /\ \A i \in own : header[n + 1].args[i][2] >= 0
      BY <2>2, <2>3 DEF Header!ReadFields
    <2>6. fields' = Header!Assigned(fields, header[n + 1].args, own)
      BY <2>2, <2>3 DEF Header!ReadFields, Header!WithFields
    <2> HIDE DEF own
    <2> QED
      BY <2>1, <2>2, <2>3, <2>4, <2>5, <2>6
  <1>2. h \notin {"width", "unit", "slot", "alias"}
    BY <1>1, SectionsAre
  <1>3. /\ WidthRead(width, n + 1)
        /\ TableRead(units, "unit", n + 1) /\ UnitsRead(n + 1)
        /\ TableRead(slots, "slot", n + 1) /\ SlotsRead(n + 1)
        /\ TableRead(aliases, "alias", n + 1) /\ AliasesRead(n + 1)
    BY <1>1, <1>2, LinePassed
  <1>4. FieldsRead(fields', n + 1)
    <2>1. n \in Nat /\ FieldsRead(fields, n)
      BY DEF HeaderRead
    <2> HIDE DEF own
    <2> QED
      BY <1>1, <2>1, FieldsNext
  <1>5. SeenRead(seen', n + 1)
    BY <1>1, SeenNext DEF HeaderRead
  <1>6. SectionRead(section', n + 1)
    <2>1. CASE h = "fields"
      <3>1. h \notin Sections
        BY <2>1, SectionsAre DEF SectionWords
      <3> QED
        BY <1>1, <2>1, <3>1, LinePassed
    <2>2. CASE h # "fields"
      <3>1. h \in Sections
        BY <1>1, <2>2 DEF Sections
      <3> QED
        BY <1>1, <2>2, <3>1, SectionSet
    <2> QED
      BY <2>1, <2>2
  <1> QED
    BY <1>1, <1>3, <1>4, <1>5, <1>6, ReadAfterwards

LEMMA DeclareUnitRead ==
    ASSUME HeaderFound, Header!WellNested, HeaderRead(headerAt), headerAt \in Nat,
           Header!DeclareUnit
    PROVE  HeaderRead(headerAt)'
  <1> DEFINE n == headerAt
             h == header[n + 1].head
  <1>1. /\ UNCHANGED <<header, lines>> /\ n \in 0 .. lines - 1 /\ headerAt' = n + 1
        /\ Header!Line = header[n + 1]
        /\ h = "unit"
        /\ UNCHANGED <<width, slots, aliases, fields, seen, section>>
    BY ReadingFacts DEF Header!DeclareUnit, Header!IsNewUnit, Header!NextLine
  <1>2. /\ header[n + 1].args[2] \in Header!UnitKinds
        /\ header[n + 1].args[1] \notin DOMAIN units
        /\ units' = [x \in DOMAIN units \cup {header[n + 1].args[1]} |->
                      IF x = header[n + 1].args[1] THEN header[n + 1].args[2] ELSE units[x]]
    BY <1>1 DEF Header!DeclareUnit, Header!IsNewUnit, Header!WithEntry
  <1>3. h \notin {"width", "slot", "alias", "fields"} \cup Sections
        /\ h \notin Header!FieldSections
    BY <1>1, SectionsAre DEF SectionWords
  <1>4. "unit" \in LineWords
    BY DEF LineWords
  <1>5. TableRead(units', "unit", n + 1)
    BY <1>1, <1>2, <1>4, TableGrown DEF HeaderRead
  <1>6. UnitsRead(n + 1)
    BY <1>1, <1>2, <1>4, HeaderLinesNext DEF HeaderRead, UnitsRead
  <1>7. /\ WidthRead(width, n + 1)
        /\ TableRead(slots, "slot", n + 1) /\ SlotsRead(n + 1)
        /\ TableRead(aliases, "alias", n + 1) /\ AliasesRead(n + 1)
        /\ FieldsRead(fields, n + 1) /\ SeenRead(seen, n + 1) /\ SectionRead(section, n + 1)
    BY <1>1, <1>3, LinePassed
  <1> QED
    BY <1>1, <1>5, <1>6, <1>7, ReadAfterwards

LEMMA DeclareSlotRead ==
    ASSUME HeaderFound, Header!WellNested, HeaderRead(headerAt), headerAt \in Nat,
           Header!DeclareSlot
    PROVE  HeaderRead(headerAt)'
  <1> DEFINE n == headerAt
             h == header[n + 1].head
  <1>1. /\ UNCHANGED <<header, lines>> /\ n \in 0 .. lines - 1 /\ headerAt' = n + 1
        /\ Header!Line = header[n + 1]
        /\ h = "slot"
        /\ UNCHANGED <<width, units, aliases, fields, seen, section>>
    BY ReadingFacts DEF Header!DeclareSlot, Header!IsNewSlot, Header!NextLine
  <1>2. /\ header[n + 1].args[1] >= 0
        /\ header[n + 1].args[1] \notin DOMAIN slots
        /\ slots' = [x \in DOMAIN slots \cup {header[n + 1].args[1]} |->
                      IF x = header[n + 1].args[1] THEN header[n + 1].args[2] ELSE slots[x]]
    BY <1>1 DEF Header!DeclareSlot, Header!IsNewSlot, Header!WithEntry
  <1>3. h \notin {"width", "unit", "alias", "fields"} \cup Sections
        /\ h \notin Header!FieldSections
    BY <1>1, SectionsAre DEF SectionWords
  <1>4. "slot" \in LineWords
    BY DEF LineWords
  <1>5. TableRead(slots', "slot", n + 1)
    BY <1>1, <1>2, <1>4, TableGrown DEF HeaderRead
  <1>6. SlotsRead(n + 1)
    BY <1>1, <1>2, <1>4, HeaderLinesNext DEF HeaderRead, SlotsRead
  <1>7. /\ WidthRead(width, n + 1)
        /\ TableRead(units, "unit", n + 1) /\ UnitsRead(n + 1)
        /\ TableRead(aliases, "alias", n + 1) /\ AliasesRead(n + 1)
        /\ FieldsRead(fields, n + 1) /\ SeenRead(seen, n + 1) /\ SectionRead(section, n + 1)
    BY <1>1, <1>3, LinePassed
  <1> QED
    BY <1>1, <1>5, <1>6, <1>7, ReadAfterwards

LEMMA DeclareAliasRead ==
    ASSUME HeaderFound, Header!WellNested, HeaderRead(headerAt), headerAt \in Nat,
           Header!DeclareAlias
    PROVE  HeaderRead(headerAt)'
  <1> DEFINE n == headerAt
             h == header[n + 1].head
  <1>1. /\ UNCHANGED <<header, lines>> /\ n \in 0 .. lines - 1 /\ headerAt' = n + 1
        /\ Header!Line = header[n + 1]
        /\ h = "alias"
        /\ UNCHANGED <<width, units, slots, fields, seen, section>>
    BY ReadingFacts DEF Header!DeclareAlias, Header!IsNewAlias, Header!NextLine
  <1>2. /\ header[n + 1].args[2] >= 0
        /\ header[n + 1].args[1] \notin DOMAIN aliases \cup HeaderReserved
        /\ aliases' = [x \in DOMAIN aliases \cup {header[n + 1].args[1]} |->
                      IF x = header[n + 1].args[1] THEN header[n + 1].args[2] ELSE aliases[x]]
    BY <1>1 DEF Header!DeclareAlias, Header!IsNewAlias, Header!WithEntry
  <1>3. h \notin {"width", "unit", "slot", "fields"} \cup Sections
        /\ h \notin Header!FieldSections
    BY <1>1, SectionsAre DEF SectionWords
  <1>4. "alias" \in LineWords
    BY DEF LineWords
  <1>5. TableRead(aliases', "alias", n + 1)
    BY <1>1, <1>2, <1>4, TableGrown DEF HeaderRead
  <1>6. AliasesRead(n + 1)
    BY <1>1, <1>2, <1>4, HeaderLinesNext DEF HeaderRead, AliasesRead
  <1>7. /\ WidthRead(width, n + 1)
        /\ TableRead(units, "unit", n + 1) /\ UnitsRead(n + 1)
        /\ TableRead(slots, "slot", n + 1) /\ SlotsRead(n + 1)
        /\ FieldsRead(fields, n + 1) /\ SeenRead(seen, n + 1) /\ SectionRead(section, n + 1)
    BY <1>1, <1>3, LinePassed
  <1> QED
    BY <1>1, <1>5, <1>6, <1>7, ReadAfterwards

-----------------------------------------------------------------------------
(* The header: what it is as a whole. *)

\* Fields are numbers.
LEMMA OwnFieldsAre ==
    ASSUME HeaderOK, NEW l \in 1 .. Len(header), NEW i \in Header!FieldsAt(l)
    PROVE  header[l].args[i][2] \in Int
  <1> DEFINE args == header[l].args
             own(sec) == {k \in DOMAIN args : args[k][1] \in Header!FieldNames[sec]}
  <1>1. header[l].head \in {"fields"} \cup Header!FieldSections
    BY DEF Header!FieldsAt
  <1>2. args \in Seq(STRING \X Int)
    BY <1>1 DEF HeaderOK, Header!IsLine
  <1>3. DOMAIN args \subseteq Nat /\ \A k \in DOMAIN args : args[k][2] \in Int
    BY <1>2
  <1> HIDE DEF args
  <1>4. ASSUME NEW sec PROVE Header!OwnFields(sec, args) \subseteq DOMAIN args
    <2>1. CASE own(sec) = {}
      BY <2>1 DEF Header!OwnFields
    <2>2. CASE own(sec) # {}
      <3> DEFINE S == own(sec)
      <3>1. S \subseteq Nat /\ S # {} /\ S \subseteq DOMAIN args
        BY <1>3, <2>2
      <3> HIDE DEF S
      <3>2. PICK x \in S : \A y \in S : x <= y
        BY <3>1, LeastNumber
      <3>3. Min(S) = x
        BY <3>1, <3>2, LeastElement
      <3>4. Header!Min(S) \in DOMAIN args
        BY <3>1, <3>2, <3>3 DEF Min, Header!Min
      <3> QED
        BY <3>1, <3>4 DEF S, Header!OwnFields
    <2> QED
      BY <2>1, <2>2
  <1>5. i \in DOMAIN args
    <2>1. \E sec : i \in Header!OwnFields(sec, args)
      BY <1>1 DEF Header!FieldsAt, args
    <2> QED
      BY <1>4, <2>1
  <1> QED
    BY <1>3, <1>5 DEF args

\* Whether the declarations fit together is a matter of the text.
LEMMA SameSense ==
    ASSUME UNCHANGED <<header, lines>>
    PROVE  Header!Sensible' <=> Header!Sensible
  <1>1. /\ \A l : Header!FieldsAt(l)' = Header!FieldsAt(l)
        /\ \A name : Header!FieldLines(name)' = Header!FieldLines(name)
        /\ \A h : Header!Lines(h)' = Header!Lines(h)
    BY SameHeader
  <1>2. Header!FieldValues' = Header!FieldValues
    BY <1>1 DEF Header!FieldValues
  <1>3. \A h : Header!Unique(h)' <=> Header!Unique(h)
    BY <1>1 DEF Header!Unique
  <1>4. \A h : (DOMAIN Header!Declared(h))' = DOMAIN Header!Declared(h)
    BY <1>1 DEF Header!Declared
  <1>5. Header!DeclaredWidth' = Header!DeclaredWidth
    BY <1>1 DEF Header!DeclaredWidth
  <1>6. UNCHANGED <<header, lines>>
    OBVIOUS
  <1> QED
    BY <1>1, <1>2, <1>3, <1>4, <1>5, <1>6 DEF Header!Sensible

\* Behind the last line everything has been read as it is declared.
LEMMA TableDeclared ==
    ASSUME HeaderFound, NEW h, NEW table, TableRead(table, h, lines)
    PROVE  table = Header!Declared(h) /\ Header!Unique(h)
  <1>1. HeaderLines(h, lines) = Header!Lines(h)
    BY SequenceFacts DEF HeaderFound, HeaderOK, HeaderLines, Header!Lines
  <1> DEFINE S == Header!Lines(h)
             a(l) == header[l].args[1]
  <1>2. ASSUME NEW x \in {a(l) : l \in S}
        PROVE  table[x] = header[CHOOSE l \in S : a(l) = x].args[2]
    <2>1. (CHOOSE l \in S : a(l) = x) \in S /\ a(CHOOSE l \in S : a(l) = x) = x
      OBVIOUS
    <2> QED
      BY <1>1, <2>1 DEF TableRead
  <1>3. table = [x \in {a(l) : l \in S} |-> table[x]]
    BY <1>1 DEF TableRead
  <1>4. table = [x \in {a(l) : l \in S} |-> header[CHOOSE l \in S : a(l) = x].args[2]]
    BY <1>2, <1>3
  <1>5. table = Header!Declared(h)
    BY <1>4 DEF Header!Declared
  <1> QED
    BY <1>1, <1>5 DEF TableRead, Header!Unique

LEMMA WholeHeader ==
    ASSUME HeaderFound, HeaderRead(lines)
    PROVE  /\ units = Header!Declared("unit") /\ Header!Unique("unit")
           /\ slots = Header!Declared("slot") /\ Header!Unique("slot")
           /\ aliases = Header!Declared("alias") /\ Header!Unique("alias")
           /\ \A name \in Header!KeptFields : fields[name] = Header!FieldValues[name]
           /\ Header!ArchMemoryLines = {} => fields = Header!FieldValues
           /\ width = IF Header!Lines("width") = {} THEN -1 ELSE Header!DeclaredWidth
           /\ seen = {h \in Header!FieldSections : Header!Lines(h) # {}}
           /\ \A h : HeaderLines(h, lines) = Header!Lines(h)
  <1>1. ASSUME NEW h PROVE HeaderLines(h, lines) = Header!Lines(h)
    BY SequenceFacts DEF HeaderFound, HeaderOK, HeaderLines, Header!Lines
  <1>2. ASSUME NEW name PROVE LinesWithField(name, lines) = Header!FieldLines(name)
    BY SequenceFacts DEF HeaderFound, HeaderOK, LinesWithField, Header!FieldLines
  <1>3. ASSUME NEW name \in Header!KeptFields PROVE fields[name] = Header!FieldValues[name]
    <2>1. \A S : Max(S) = Header!Max(S)
      BY DEF Max, Header!Max
    <2>2. ValueAfter(name, lines) =
            IF Header!FieldLines(name) = {} THEN Header!DefaultFields[name]
            ELSE LET l == Header!Max(Header!FieldLines(name))
                 IN  Header!Assigned(Header!DefaultFields, header[l].args,
                                     Header!FieldsAt(l))[name]
      BY <1>2, <2>1 DEF ValueAfter
    <2>3. fields[name] = ValueAfter(name, lines)
      BY DEF HeaderRead, FieldsRead
    <2>4. name \in DOMAIN Header!DefaultFields
      BY DEF Header!KeptFields
    <2> QED
      BY <2>2, <2>3, <2>4, Zenon DEF Header!FieldValues
  <1>7. ASSUME Header!ArchMemoryLines = {} PROVE fields = Header!FieldValues
    <2>1. Header!KeptFields = DOMAIN Header!DefaultFields
      BY <1>7 DEF Header!KeptFields
    <2>2. fields = [name \in DOMAIN Header!DefaultFields |-> fields[name]]
      BY DEF HeaderRead, FieldsRead
    <2>3. Header!FieldValues =
            [name \in DOMAIN Header!DefaultFields |-> Header!FieldValues[name]]
      BY DEF Header!FieldValues
    <2> QED
      BY <1>3, <2>1, <2>2, <2>3, Zenon
  <1>4. width = IF Header!Lines("width") = {} THEN -1 ELSE Header!DeclaredWidth
    <2>1. \A S : Max(S) = Header!Max(S)
      BY DEF Max, Header!Max
    <2> QED
      BY <1>1, <2>1 DEF HeaderRead, WidthRead, Header!DeclaredWidth
  <1>5. seen = {h \in Header!FieldSections : Header!Lines(h) # {}}
    BY <1>1 DEF HeaderRead, SeenRead
  <1>6. /\ units = Header!Declared("unit") /\ Header!Unique("unit")
        /\ slots = Header!Declared("slot") /\ Header!Unique("slot")
        /\ aliases = Header!Declared("alias") /\ Header!Unique("alias")
    BY TableDeclared DEF HeaderRead
  <1> QED
    BY <1>1, <1>3, <1>4, <1>5, <1>6, <1>7

LEMMA SizeOfInterval ==
    ASSUME NEW n \in Nat
    PROVE  Header!Cardinality(0 .. n - 1) = n
  <1>1. Cardinality(0 .. n - 1) = n
    BY FS_Interval
  <1> QED
    BY <1>1 DEF Cardinality, Header!Cardinality

-----------------------------------------------------------------------------
(* The header: every step of its reading. *)

NothingDeclared ==
    /\ width = -1
    /\ units = [x \in {} |-> 0] /\ slots = [x \in {} |-> 0] /\ aliases = [x \in {} |-> 0]
    /\ fields = Header!DefaultFields
    /\ seen = {}
    /\ section = "none"

\* A header to be accepted.
Expected == Header!WellNested /\ Header!ArchMemoryLines = {} /\ Header!Sensible

\* The invariant of the reading: what has been read of a header with lines in
\* their sections is what its lines declare so far, and a failure has a reason.
HeaderInv ==
    /\ HeaderOK
    /\ headerAt \in Nat
    /\ headerPhase = "find" => lines = 0 /\ headerAt = 0 /\ NothingDeclared
    /\ headerPhase \in {"parse", "done"} =>
         HeaderFound /\ headerAt <= lines /\ (Header!WellNested => HeaderRead(headerAt))
    /\ headerPhase = "done" =>
         headerAt = lines /\ Header!Complete /\ Header!CacheValid(fields) /\ Header!Validate
    /\ headerPhase = "failed" => ~Expected

LEMMA HeaderInvInit ==
    ASSUME Init
    PROVE  HeaderInv
  <1>1. HeaderOK
    <2>1. PICK file \in Files : header = file[1]
      BY DEF Init
    <2>2. IsSequence(header) /\ DOMAIN header = 1 .. Len(header)
      BY <2>1, FilesAssumption, SequenceFacts
    <2> QED
      BY <2>1, <2>2, FilesAssumption DEF HeaderOK
  <1>2. headerPhase = "find" /\ lines = 0 /\ headerAt = 0 /\ NothingDeclared
    BY DEF Init, Header!Init, NothingDeclared
  <1> QED
    BY <1>1, <1>2 DEF HeaderInv

\* The end of the header is found before a line of it is read.
LEMMA HeaderFoundFirst ==
    ASSUME HeaderInv, Header!FindHeader
    PROVE  HeaderInv'
  <1>1. /\ lines = 0 /\ headerAt = 0 /\ NothingDeclared
        /\ lines' \in DOMAIN header /\ headerPhase' = "parse"
        /\ UNCHANGED <<header, headerAt, width, units, slots, aliases, fields, seen, section>>
        /\ header[1].head = ".processor"
    BY DEF HeaderInv, Header!FindHeader, Header!HasHeader
  <1>2. DOMAIN header = 1 .. Len(header) /\ Len(header) \in Nat
    BY SequenceFacts DEF HeaderInv, HeaderOK
  <1>3. HeaderOK' /\ HeaderFound'
    BY <1>1, <1>2 DEF HeaderInv, HeaderOK, HeaderFound
  <1>4. /\ \A h : HeaderLines(h, headerAt)' = {}
        /\ \A name : LinesWithField(name, headerAt)' = {}
    BY <1>1, <1>2 DEF HeaderLines, Header!Lines, LinesWithField, Header!FieldLines
  <1>5. HeaderRead(headerAt)'
    <2>1. WidthRead(width, headerAt)'
      BY <1>1, <1>4 DEF WidthRead, NothingDeclared
    <2>2. /\ TableRead(units, "unit", headerAt)' /\ UnitsRead(headerAt)'
          /\ TableRead(slots, "slot", headerAt)' /\ SlotsRead(headerAt)'
          /\ TableRead(aliases, "alias", headerAt)' /\ AliasesRead(headerAt)'
      BY <1>1, <1>4 DEF TableRead, UnitsRead, SlotsRead, AliasesRead, NothingDeclared
    <2>3. FieldsRead(fields, headerAt)'
      <3>1. \A name : ValueAfter(name, headerAt)' = Header!DefaultFields[name]
        BY <1>4 DEF ValueAfter
      <3>2. Header!DefaultFields =
              [name \in DOMAIN Header!DefaultFields |-> Header!DefaultFields[name]]
        BY DEF Header!DefaultFields
      <3>3. \A l \in 2 .. lines' - 1 : ~(l <= headerAt')
        BY <1>1, <1>2
      <3>4. fields' = Header!DefaultFields
        BY <1>1 DEF NothingDeclared
      <3>5. Header!KeptFields' \subseteq DOMAIN Header!DefaultFields
        BY DEF Header!KeptFields
      <3> QED
        BY <3>1, <3>2, <3>3, <3>4, <3>5 DEF FieldsRead
    <2>4. SeenRead(seen, headerAt)'
      BY <1>1, <1>4 DEF SeenRead, NothingDeclared
    <2>5. SectionRead(section, headerAt)'
      BY <1>1 DEF SectionRead, NothingDeclared
    <2> QED
      BY <2>1, <2>2, <2>3, <2>4, <2>5 DEF HeaderRead
  <1>6. headerAt' \in Nat /\ headerAt' <= lines'
    BY <1>1, <1>2
  <1> QED
    BY <1>1, <1>3, <1>5, <1>6 DEF HeaderInv

\* A failure says that something is wrong with the header.
LEMMA HeaderFails ==
    ASSUME HeaderInv, Header!Fail, ~Expected
    PROVE  HeaderInv'
  <1>1. UNCHANGED <<header, lines>> /\ headerAt' = headerAt /\ headerPhase' = "failed"
    BY DEF Header!Fail
  <1>2. ~Expected' /\ HeaderOK'
    BY <1>1, SameHeader, SameSense DEF HeaderInv, Expected
  <1> QED
    BY <1>1, <1>2 DEF HeaderInv

\* A line that is read leaves the rest of the invariant as it is.
LEMMA HeaderLineIsRead ==
    ASSUME HeaderInv, Header!Parsing, Header!NextLine,
           Header!WellNested => HeaderRead(headerAt)'
    PROVE  HeaderInv'
  <1>1. /\ UNCHANGED <<header, lines>> /\ headerAt' = headerAt + 1
        /\ headerPhase = "parse" /\ headerPhase' = "parse" /\ headerAt < lines
    BY DEF Header!Parsing, Header!NextLine
  <1>2. HeaderFound' /\ HeaderOK' /\ (Header!WellNested' => HeaderRead(headerAt)')
    BY <1>1, SameHeader DEF HeaderInv
  <1>3. headerAt' \in Nat /\ headerAt' <= lines'
    BY <1>1, SequenceFacts DEF HeaderInv, HeaderFound, HeaderOK
  <1> QED
    BY <1>1, <1>2, <1>3 DEF HeaderInv

\* What a line is refused for is wrong with the header as a whole.
LEMMA BadWidthRefused ==
    ASSUME HeaderFound, Header!WellNested, HeaderRead(headerAt), headerAt \in Nat,
           Header!BadWidth
    PROVE  ~Header!Sensible
  <1> DEFINE l == headerAt + 1
  <1>1. l \in 2 .. lines - 1 /\ header[l].head = "width" /\ header[l].args < 0
        /\ lines \in Nat
    BY ReadingFacts DEF Header!BadWidth
  <1>2. l \in Header!Lines("width") /\ l \in 1 .. Len(header)
    BY <1>1, SequenceFacts DEF Header!Lines, HeaderFound, HeaderOK
  <1>3. header[l].args \in Int
    BY <1>1, <1>2 DEF HeaderFound, HeaderOK, Header!IsLine
  <1> QED
    BY <1>1, <1>2, <1>3 DEF Header!Sensible

LEMMA BadFieldRefused ==
    ASSUME HeaderFound, Header!WellNested, Header!ArchMemoryLines = {},
           HeaderRead(headerAt), headerAt \in Nat,
           Header!BadField
    PROVE  ~Header!Sensible
  <1> DEFINE l == headerAt + 1
  <1>1. l \in 2 .. lines - 1 /\ Header!LineFields = Header!FieldsAt(l) /\ Header!Line = header[l]
        /\ lines \in Nat
    <2>1. TakenFor(Header!LineFields, l) => Header!LineFields = Header!FieldsAt(l)
      BY DEF TakenFor
    <2> QED
      BY <2>1, ReadingFacts, FieldsBelong DEF Header!BadField
  <1>2. PICK i \in Header!FieldsAt(l) : header[l].args[i][2] < 0
    BY <1>1 DEF Header!BadField
  <1>3. l \in 1 .. Len(header)
    BY <1>1, SequenceFacts DEF HeaderFound, HeaderOK
  <1>4. header[l].args[i][2] \in Int
    BY <1>3, OwnFieldsAre DEF HeaderFound
  <1> QED
    BY <1>1, <1>2, <1>4 DEF Header!Sensible

\* A name that has been declared is one of an earlier line.
LEMMA DeclaredBefore ==
    ASSUME HeaderFound, Header!WellNested, NEW n \in 0 .. lines - 1, NEW h \in LineWords,
           NEW table, TableRead(table, h, n), header[n + 1].head = h,
           header[n + 1].args[1] \in DOMAIN table
    PROVE  ~Header!Unique(h)
  <1>1. PICK l \in HeaderLines(h, n) : header[l].args[1] = header[n + 1].args[1]
    BY DEF TableRead
  <1>2. l # n + 1 /\ n + 1 \in 2 .. lines - 1
    <2>1. /\ n \in Nat /\ HeaderLines(h, n) \subseteq 2 .. n
          /\ n + 1 \in 2 .. lines - 1
      BY HeaderLinesNext
    <2> QED
      BY <2>1
  <1>3. l \in Header!Lines(h) /\ n + 1 \in Header!Lines(h)
    BY <1>2 DEF HeaderLines, Header!Lines
  <1> QED
    BY <1>1, <1>2, <1>3 DEF Header!Unique

LEMMA BadDeclarationRefused ==
    ASSUME HeaderFound, Header!WellNested, HeaderRead(headerAt), headerAt \in Nat,
           Header!BadDeclaration
    PROVE  ~Header!Sensible
  <1> DEFINE n == headerAt
             line == header[n + 1]
  <1>1. /\ n \in 0 .. lines - 1 /\ n + 1 \in 2 .. lines - 1 /\ Header!Line = line /\ n \in Nat
        /\ line.head \in {"unit", "alias", "slot", "fields", "text"}
        /\ \/ section = "none"
           \/ section = "hardware" /\ ~Header!IsNewUnit
           \/ section = "slots" /\ ~Header!IsNewSlot /\ ~Header!IsNewAlias
    BY ReadingFacts DEF Header!BadDeclaration, Header!Declaration
  <1>2. Header!Within(n + 1) \in Sections =>
          section = Header!Within(n + 1) \/ (section = "memory" /\ Header!Within(n + 1) = "arch")
    BY <1>1, SectionKnown DEF HeaderRead
  <1>3. line.head # "text"
    BY <1>1, NestedLine, SectionsAre DEF SectionWords
  <1>4. line.head # "fields"
    <2> SUFFICES ASSUME line.head = "fields" PROVE FALSE
      OBVIOUS
    <2>1. Header!Within(n + 1) \in Header!FieldSections
      BY <1>1, NestedLine
    <2> QED
      BY <1>1, <1>2, <2>1, SectionsAre DEF SectionWords
  <1>5. n + 1 \in Header!Lines(line.head)
    BY <1>1 DEF Header!Lines
  <1>6. {"unit", "slot", "alias"} \subseteq LineWords
    BY DEF LineWords
  <1>7. n + 1 \in 1 .. Len(header)
    BY <1>1, SequenceFacts DEF HeaderFound, HeaderOK
  <1>8. Header!IsLine(line)
    BY <1>7 DEF HeaderFound, HeaderOK
  <1>9. CASE line.head = "unit"
    <2>1. section = "hardware"
      BY <1>1, <1>2, <1>9, NestedLine, SectionsAre DEF SectionWords
    <2>2. line.args[2] \notin Header!UnitKinds \/ line.args[1] \in DOMAIN units
      BY <1>1, <1>9, <2>1 DEF Header!IsNewUnit
    <2>3. line.args[1] \in DOMAIN units => ~Header!Unique("unit")
      BY <1>1, <1>6, <1>9, DeclaredBefore DEF HeaderRead
    <2> QED
      BY <1>5, <1>9, <2>2, <2>3 DEF Header!Sensible
  <1>10. CASE line.head = "slot"
    <2>1. section = "slots"
      BY <1>1, <1>2, <1>10, NestedLine, SectionsAre DEF SectionWords
    <2>2. ~(line.args[1] >= 0) \/ line.args[1] \in DOMAIN slots
      BY <1>1, <1>10, <2>1 DEF Header!IsNewSlot
    <2>3. line.args[1] \in DOMAIN slots => ~Header!Unique("slot")
      BY <1>1, <1>6, <1>10, DeclaredBefore DEF HeaderRead
    <2>4. ASSUME Header!Sensible PROVE line.args[1] >= 0
      <3>1. line.args[1] \in DOMAIN Header!Declared("slot")
        BY <1>5, <1>10 DEF Header!Declared
      <3>2. line.args[1] \in 0 .. Header!DeclaredWidth - 1
        BY <2>4, <3>1 DEF Header!Sensible
      <3> QED
        BY <3>2
    <2> QED
      BY <2>2, <2>3, <2>4 DEF Header!Sensible
  <1>11. CASE line.head = "alias"
    <2>1. section = "slots"
      BY <1>1, <1>2, <1>11, NestedLine, SectionsAre DEF SectionWords
    <2>2. ~(line.args[2] >= 0) \/ line.args[1] \in DOMAIN aliases \/ line.args[1] \in HeaderReserved
      BY <1>1, <1>11, <2>1 DEF Header!IsNewAlias
    <2>3. line.args[1] \in DOMAIN aliases => ~Header!Unique("alias")
      BY <1>1, <1>6, <1>11, DeclaredBefore DEF HeaderRead
    <2>4. ASSUME Header!Sensible
          PROVE  line.args[1] \notin HeaderReserved /\ line.args[2] >= 0
      <3>1. line.args[1] \notin HeaderReserved /\ line.args[2] \in 0 .. Header!DeclaredWidth - 1
        BY <1>5, <1>11, <2>4 DEF Header!Sensible
      <3> QED
        BY <3>1
    <2> QED
      BY <2>2, <2>3, <2>4 DEF Header!Sensible
  <1> QED
    BY <1>1, <1>3, <1>4, <1>9, <1>10, <1>11

\* What fits together is complete and valid in the end.
LEMMA SensibleIsComplete ==
    ASSUME HeaderFound, Expected, HeaderRead(lines)
    PROVE  Header!Complete /\ Header!CacheValid(fields) /\ Header!Validate
  <1> DEFINE W == Header!DeclaredWidth
  <1>1. /\ units = Header!Declared("unit") /\ slots = Header!Declared("slot")
        /\ aliases = Header!Declared("alias") /\ fields = Header!FieldValues
        /\ \A h : HeaderLines(h, lines) = Header!Lines(h)
    BY WholeHeader DEF Expected
  <1>2. width = W /\ W \in 1 .. 256
    BY WholeHeader DEF Expected, Header!Sensible
  <1>3. {"cache", "topology"} \subseteq seen
    <2>1. Header!Lines("cache") # {} /\ Header!Lines("topology") # {}
      BY DEF Expected, Header!Sensible
    <2>2. seen = {h \in Header!FieldSections : Header!Lines(h) # {}}
      BY WholeHeader
    <2> QED
      BY <2>1, <2>2, SectionsAre
  <1>4. DOMAIN slots = 0 .. W - 1
    BY <1>1 DEF Expected, Header!Sensible
  <1>5. Header!Cardinality(DOMAIN slots) = W
    BY <1>2, <1>4, SizeOfInterval
  <1>6. ASSUME NEW name \in DOMAIN aliases PROVE aliases[name] < width
    <2>1. PICK l \in Header!Lines("alias") : name = header[l].args[1]
      BY <1>1 DEF Header!Declared
    <2>2. aliases[name] = header[l].args[2]
      <3>1. l \in HeaderLines("alias", lines) /\ TableRead(aliases, "alias", lines)
        BY <1>1 DEF HeaderRead
      <3> QED
        BY <2>1, <3>1 DEF TableRead
    <2>3. header[l].args[2] \in 0 .. W - 1
      BY DEF Expected, Header!Sensible
    <2> QED
      BY <1>2, <2>2, <2>3
  <1>7. ASSUME NEW s \in DOMAIN slots PROVE slots[s] # {} /\ slots[s] \subseteq DOMAIN units
    <2>1. PICK l \in Header!Lines("slot") : s = header[l].args[1]
      BY <1>1 DEF Header!Declared
    <2>2. slots[s] = header[l].args[2]
      <3>1. l \in HeaderLines("slot", lines) /\ TableRead(slots, "slot", lines)
        BY <1>1 DEF HeaderRead
      <3> QED
        BY <2>1, <3>1 DEF TableRead
    <2>3. header[l].args[2] # {} /\ header[l].args[2] \subseteq DOMAIN Header!Declared("unit")
      BY DEF Expected, Header!Sensible
    <2> QED
      BY <1>1, <2>2, <2>3
  <1>8. Header!CacheValid(fields) /\ Header!ArchSupported(fields)
    BY <1>1 DEF Expected, Header!Sensible
  <1>9. Header!Complete
    <2>1. width >= 0 /\ DOMAIN slots = 0 .. Header!Cardinality(DOMAIN slots) - 1
      BY <1>2, <1>4, <1>5
    <2> QED
      BY <1>3, <1>6, <2>1 DEF Header!Complete
  <1>10. Header!Validate
    <2>1. width \in 1 .. 256 /\ Header!Cardinality(DOMAIN slots) = width
      BY <1>2, <1>5
    <2> QED
      BY <1>7, <1>8, <2>1 DEF Header!Validate
  <1> QED
    BY <1>8, <1>9, <1>10

\* And the other way round.
LEMMA AcceptedIsSensible ==
    ASSUME HeaderFound, Header!WellNested, HeaderRead(lines),
           Header!Complete, Header!CacheValid(fields), Header!Validate
    PROVE  /\ width = Header!DeclaredWidth
           /\ Header!ArchMemoryLines = {} => Header!Sensible
  <1> DEFINE W == Header!DeclaredWidth
  <1>1. /\ units = Header!Declared("unit") /\ Header!Unique("unit")
        /\ slots = Header!Declared("slot") /\ Header!Unique("slot")
        /\ aliases = Header!Declared("alias") /\ Header!Unique("alias")
        /\ Header!ArchMemoryLines = {} => fields = Header!FieldValues
        /\ \A h : HeaderLines(h, lines) = Header!Lines(h)
    BY WholeHeader
  <1>2. Header!Lines("width") # {} /\ width = W
    <2>1. width = IF Header!Lines("width") = {} THEN -1 ELSE W
      BY WholeHeader
    <2>2. width >= 0
      BY DEF Header!Complete
    <2> QED
      BY <2>1, <2>2
  <1>3. W \in 1 .. 256 /\ DOMAIN slots = 0 .. W - 1
    BY <1>2 DEF Header!Validate, Header!Complete
  <1>4. Header!Lines("cache") # {} /\ Header!Lines("topology") # {}
    <2>1. seen = {h \in Header!FieldSections : Header!Lines(h) # {}}
      BY WholeHeader
    <2> QED
      BY <2>1 DEF Header!Complete
  <1>5. \A l \in Header!Lines("width") : header[l].args >= 0
    BY <1>1 DEF HeaderRead, WidthRead
  <1>6. Header!ArchMemoryLines = {} =>
          \A l \in 2 .. lines - 1 : \A i \in Header!FieldsAt(l) : header[l].args[i][2] >= 0
    <2>1. lines \in Nat
      BY SequenceFacts DEF HeaderFound, HeaderOK
    <2>2. \A l \in 2 .. lines - 1 : l <= lines
      BY <2>1
    <2> QED
      BY <2>2 DEF HeaderRead, FieldsRead
  <1>7. \A l \in Header!Lines("unit") : header[l].args[2] \in Header!UnitKinds
    BY <1>1 DEF HeaderRead, UnitsRead
  <1>8. ASSUME NEW l \in Header!Lines("alias")
        PROVE  header[l].args[1] \notin HeaderReserved /\ header[l].args[2] \in 0 .. W - 1
    <2>1. header[l].args[1] \notin HeaderReserved /\ header[l].args[2] >= 0
      BY <1>1 DEF HeaderRead, AliasesRead
    <2>2. header[l].args[1] \in DOMAIN aliases
      BY <1>1 DEF Header!Declared
    <2>3. header[l].args[2] < W
      <3>1. aliases[header[l].args[1]] < width
        BY <2>2 DEF Header!Complete
      <3>2. aliases[header[l].args[1]] = header[l].args[2]
        BY <1>1 DEF HeaderRead, TableRead
      <3> QED
        BY <1>2, <3>1, <3>2
    <2>4. l \in 1 .. Len(header) /\ header[l].head = "alias"
      BY SequenceFacts DEF Header!Lines, HeaderFound, HeaderOK
    <2>5. header[l].args[2] \in Int
      BY <2>4 DEF HeaderFound, HeaderOK, Header!IsLine
    <2> QED
      BY <1>3, <2>1, <2>3, <2>5
  <1>9. ASSUME NEW l \in Header!Lines("slot")
        PROVE  header[l].args[2] # {} /\ header[l].args[2] \subseteq DOMAIN Header!Declared("unit")
    <2>1. header[l].args[1] \in DOMAIN slots
      BY <1>1 DEF Header!Declared
    <2>2. slots[header[l].args[1]] = header[l].args[2]
      BY <1>1 DEF HeaderRead, TableRead
    <2> QED
      BY <1>1, <2>1, <2>2 DEF Header!Validate
  <1>10. DOMAIN Header!Declared("slot") = 0 .. W - 1
    BY <1>1, <1>3
  <1>11. Header!ArchMemoryLines = {} =>
           Header!CacheValid(Header!FieldValues) /\ Header!ArchSupported(Header!FieldValues)
    BY <1>1 DEF Header!Validate
  <1> QED
    BY <1>1, <1>2, <1>3, <1>4, <1>5, <1>6, <1>7, <1>8, <1>9, <1>10, <1>11 DEF Header!Sensible

LEMMA HeaderInvStep ==
    ASSUME HeaderInv, [Next]_vars
    PROVE  HeaderInv'
  <1>1. CASE UNCHANGED headerVars
    <2>1. UNCHANGED <<header, lines>> /\ UNCHANGED <<headerAt, headerPhase, width, units, slots,
                                                    aliases, fields, seen, section>>
      BY <1>1 DEF headerVars
    <2>2. ASSUME HeaderRead(headerAt) PROVE HeaderRead(headerAt)'
      BY <2>1, <2>2, ReadAfterwards DEF HeaderRead
    <2>3. HeaderOK' /\ (HeaderFound => HeaderFound')
          /\ (Header!WellNested' <=> Header!WellNested) /\ (Expected' <=> Expected)
      BY <2>1, SameHeader, SameSense DEF HeaderInv, Expected
    <2>4. NothingDeclared => NothingDeclared'
      BY <2>1 DEF NothingDeclared
    <2>5. (Header!Complete => Header!Complete') /\ (Header!Validate => Header!Validate')
          /\ (Header!CacheValid(fields) => Header!CacheValid(fields)')
      BY <2>1 DEF Header!Complete, Header!Validate, Header!CacheValid, Header!ArchSupported
    <2> QED
      BY <2>1, <2>2, <2>3, <2>4, <2>5 DEF HeaderInv
  <1>2. ASSUME Header!Next PROVE HeaderInv'
    <2>1. CASE Header!FindHeader
      BY <2>1, HeaderFoundFirst
    <2>2. CASE Header!NoHeader
      <3>1. lines = 0 /\ Header!Fail
        BY <2>2 DEF Header!NoHeader, HeaderInv
      <3>2. ~Expected
        BY <3>1 DEF Header!WellNested, Expected
      <3> QED
        BY <3>1, <3>2, HeaderFails
    <2>3. ASSUME headerPhase = "parse", Header!WellNested
          PROVE  HeaderFound /\ HeaderRead(headerAt) /\ headerAt \in Nat
      BY <2>3 DEF HeaderInv
    <2>4. CASE Header!Brace
      <3>1. Header!Parsing /\ Header!NextLine /\ headerPhase = "parse"
        BY <2>4 DEF Header!Brace, Header!Parsing
      <3> QED
        BY <2>3, <2>4, <3>1, BraceRead, HeaderLineIsRead
    <2>5. CASE Header!OpenBlock
      <3>1. Header!Parsing /\ Header!NextLine /\ headerPhase = "parse"
        BY <2>5 DEF Header!OpenBlock, Header!Parsing
      <3> QED
        BY <2>3, <2>5, <3>1, OpenBlockRead, HeaderLineIsRead
    <2>6. CASE Header!SetWidth
      <3>1. Header!Parsing /\ Header!NextLine /\ headerPhase = "parse"
        BY <2>6 DEF Header!SetWidth, Header!Parsing
      <3> QED
        BY <2>3, <2>6, <3>1, SetWidthRead, HeaderLineIsRead
    <2>7. CASE Header!BadWidth
      <3>1. Header!Fail /\ headerPhase = "parse"
        BY <2>7 DEF Header!BadWidth, Header!Parsing
      <3> QED
        BY <2>3, <2>7, <3>1, BadWidthRefused, HeaderFails DEF Expected
    <2>8. CASE Header!ReadFields
      <3>1. Header!Parsing /\ Header!NextLine /\ headerPhase = "parse"
        BY <2>8 DEF Header!ReadFields, Header!Parsing
      <3> QED
        BY <2>3, <2>8, <3>1, FieldsOfLineRead, HeaderLineIsRead
    <2>9. CASE Header!BadField
      <3>1. Header!Fail /\ headerPhase = "parse"
        BY <2>9 DEF Header!BadField, Header!Parsing
      <3> QED
        BY <2>3, <2>9, <3>1, BadFieldRefused, HeaderFails DEF Expected
    <2>10. CASE Header!DeclareUnit
      <3>1. Header!Parsing /\ Header!NextLine /\ headerPhase = "parse"
        BY <2>10 DEF Header!DeclareUnit, Header!Parsing
      <3> QED
        BY <2>3, <2>10, <3>1, DeclareUnitRead, HeaderLineIsRead
    <2>11. CASE Header!DeclareSlot
      <3>1. Header!Parsing /\ Header!NextLine /\ headerPhase = "parse"
        BY <2>11 DEF Header!DeclareSlot, Header!Parsing
      <3> QED
        BY <2>3, <2>11, <3>1, DeclareSlotRead, HeaderLineIsRead
    <2>12. CASE Header!DeclareAlias
      <3>1. Header!Parsing /\ Header!NextLine /\ headerPhase = "parse"
        BY <2>12 DEF Header!DeclareAlias, Header!Parsing
      <3> QED
        BY <2>3, <2>12, <3>1, DeclareAliasRead, HeaderLineIsRead
    <2>13. CASE Header!BadDeclaration
      <3>1. Header!Fail /\ headerPhase = "parse"
        BY <2>13 DEF Header!BadDeclaration, Header!Parsing
      <3> QED
        BY <2>3, <2>13, <3>1, BadDeclarationRefused, HeaderFails DEF Expected
    <2>14. CASE Header!Accept
      <3>1. /\ headerPhase = "parse" /\ headerAt = lines /\ headerPhase' = "done"
            /\ Header!Complete /\ Header!CacheValid(fields) /\ Header!Validate
            /\ UNCHANGED <<header, lines>> /\ UNCHANGED <<headerAt, width, units, slots, aliases,
                                                         fields, seen, section>>
        BY <2>14 DEF Header!Accept
      <3>2. ASSUME HeaderRead(headerAt) PROVE HeaderRead(headerAt)'
        BY <3>1, <3>2, ReadAfterwards DEF HeaderRead
      <3>3. HeaderOK' /\ HeaderFound' /\ (Header!WellNested' => Header!WellNested)
        BY <3>1, SameHeader DEF HeaderInv
      <3>4. Header!Complete' /\ Header!Validate' /\ Header!CacheValid(fields)'
        BY <3>1 DEF Header!Complete, Header!Validate, Header!CacheValid, Header!ArchSupported
      <3> QED
        BY <3>1, <3>2, <3>3, <3>4 DEF HeaderInv
    <2>15. CASE Header!Refuse
      <3>1. headerPhase = "parse" /\ headerAt = lines /\ Header!Fail
            /\ ~(Header!Complete /\ Header!CacheValid(fields) /\ Header!Validate)
        BY <2>15 DEF Header!Refuse
      <3> QED
        BY <2>3, <3>1, SensibleIsComplete, HeaderFails DEF Expected
    <2> QED
      BY <1>2, <2>1, <2>2, <2>4, <2>5, <2>6, <2>7, <2>8, <2>9, <2>10, <2>11, <2>12, <2>13, <2>14,
         <2>15 DEF Header!Next, Header!ParseLine
  <1>3. Header!Next \/ UNCHANGED headerVars
    BY DEF Next, ParseHeader, ParseBody, vars
  <1> QED
    BY <1>1, <1>2, <1>3

LEMMA HeaderInvAlways == Spec => []HeaderInv
  <1>1. Init => HeaderInv
    BY HeaderInvInit
  <1>2. HeaderInv /\ [Next]_vars => HeaderInv'
    BY HeaderInvStep
  <1> QED
    BY <1>1, <1>2, PTL DEF Spec

\* Whatever order the sections of a header come in, however their braces are laid
\* out and wherever a name is used before it is declared: parse_processor_header
\* and validate accept a header whose lines are in their sections, without a
\* memory line among those of arch, exactly when its declarations fit together.
THEOREM AcceptsSensibleHeadersAlways == Spec => []AcceptsSensibleHeaders
  <1>1. HeaderInv => AcceptsSensibleHeaders
    <2>1. HeaderInv /\ headerPhase = "done" /\ Header!WellNested =>
            (Header!ArchMemoryLines = {} => Header!Sensible)
      BY AcceptedIsSensible DEF HeaderInv
    <2> QED
      BY <2>1 DEF HeaderInv, Expected, AcceptsSensibleHeaders, Header!AcceptsSensibleHeaders
  <1> QED
    BY <1>1, HeaderInvAlways, PTL

\* The layout of an accepted header is the one that it declares, the last value
\* of a field included: parse_processor_block drops no line, applies none to
\* another section and undoes none.  What a memory line of arch, which it takes
\* for section memory, may spoil are the fields of arch and no others.
THEOREM EveryDeclarationCountsAlways == Spec => []EveryDeclarationCounts
  <1>1. HeaderInv => EveryDeclarationCounts
    <2> SUFFICES ASSUME HeaderInv, headerPhase = "done", Header!WellNested
                 PROVE  /\ width = Header!DeclaredWidth
                        /\ units = Header!Declared("unit")
                        /\ slots = Header!Declared("slot")
                        /\ aliases = Header!Declared("alias")
                        /\ \A name \in Header!KeptFields :
                             fields[name] = Header!FieldValues[name]
      BY DEF EveryDeclarationCounts, Header!EveryDeclarationCounts
    <2> QED
      BY AcceptedIsSensible, WholeHeader DEF HeaderInv
  <1> QED
    BY <1>1, HeaderInvAlways, PTL
=============================================================================
