----------------------------- MODULE Assembler -----------------------------
(***************************************************************************)
(* An assembly file (src/src/asm.rs): parse_program reads the header       *)
(* (module ProcessorHeader) and then the body with the layout and the      *)
(* aliases that the header declares: collect_lines gathers bundles and     *)
(* labels line by line, resolves the labels, and parse_program puts the    *)
(* instructions into the slots.                                            *)
(*                                                                         *)
(* A word is a pair of its kind and its value; what is left of the text is *)
(* which kind a word has, where labels stand, and how lines make bundles.  *)
(* Comments, empty lines, spelling and the text of errors are left out.    *)
(***************************************************************************)
EXTENDS Isa, SequencesExt, TLC

CONSTANTS
    Files,          \* the files to assemble: pairs of header lines and body lines
    Reserved        \* is_reserved_token: opcodes and built-in slots, no registers

\* parse_builtin_slot
BuiltinSlots == [i0 |-> 0, i1 |-> 1, m |-> 2, x |-> 3]

ASSUME ReservedAssumption == DOMAIN BuiltinSlots \subseteq Reserved

\* The headers, and the names that no alias of a slot may have.
HeaderTexts == {file[1] : file \in Files}
HeaderReserved == Reserved \ DOMAIN BuiltinSlots

\* Words: a register, a possibly negated predicate, an integer, a memory
\* operand [base + offset] and any other name.
Gpr(r) == <<"gpr", r>>
Pred(p) == <<"pred", p>>
NotPred(p) == <<"not", p>>
Num(n) == <<"num", n>>
Name(x) == <<"name", x>>
Mem(base, offset) == <<"mem", base, offset>>

\* One instruction `slot [guard] opcode arguments`; a guard is a pair of the
\* predicate and whether it is negated.
Part(slot, guard, op, args) == [slot |-> slot, guard |-> guard, op |-> op, args |-> args]

Always == <<0, FALSE>>

\* Text that is no instruction whatever its labels stand for.
Garbage == Part(Num(0), Always, "none", <<>>)

\* A line: labels in front, and a brace, an inline bundle, one instruction in
\* the `slot: opcode` form of the blocks, or nothing.  In "spaced" a blank
\* stands between the labels and the brace; "legacy" is a `.width` line.
LineKinds == {"none", "open", "spaced", "close", "inline", "slot", "legacy"}

\* Registers and predicates have an index, integers and offsets a value.
WellTyped(word) ==
    /\ word[1] \in {"gpr", "pred", "not"} => word[2] \in Nat
    /\ word[1] = "num" => word[2] \in Int
    /\ word[1] = "mem" => word[2] \in Nat /\ word[3][1] = "num" /\ word[3][2] \in Int

IsSequence(s) == s \in Seq(Range(s))

IsPart(part) ==
    /\ part = Part(part.slot, part.guard, part.op, part.args)
    /\ WellTyped(part.slot)
    /\ part.guard \in Nat \X BOOLEAN
    /\ IsSequence(part.args) /\ \A word \in Range(part.args) : WellTyped(word)

\* Lines without a label have something else in them, and a line in the block
\* form one instruction.
IsLine(line) ==
    /\ line.kind \in LineKinds
    /\ IsSequence(line.labels) /\ IsSequence(line.parts)
    /\ line.kind = "none" => line.labels # <<>>
    /\ line.kind = "slot" => Len(line.parts) = 1
    /\ \A part \in Range(line.parts) : IsPart(part)

VARIABLES
    header, headerAt, lines, width, units, slots, aliases, fields, seen, section,
    headerPhase     \* the variables of ProcessorHeader

VARIABLES
    source,         \* the lines of the body
    at,             \* lines read
    labels,         \* label -> bundle
    pending,        \* labels that wait for their bundle
    bundleIndex,    \* the bundle that the next line or block makes
    inBlock,
    blockParts,     \* instructions of the block so far
    parsed,         \* ParsedBundleLine: bundle and instructions
    program,        \* the bundles emitted
    placed,         \* instructions of the next bundle that are in their slots
    phase

headerVars == <<header, headerAt, lines, width, units, slots, aliases, fields, seen,
                section, headerPhase>>

bodyVars == <<source, at, labels, pending, bundleIndex, inBlock, blockParts, parsed,
              program, placed, phase>>

vars == <<headerVars, bodyVars>>

Header == INSTANCE ProcessorHeader WITH
    Sources  <- HeaderTexts,
    Reserved <- HeaderReserved,
    source   <- header,
    at       <- headerAt,
    phase    <- headerPhase

ASSUME FilesAssumption ==
    \A file \in Files :
        /\ IsSequence(file[1]) /\ IsSequence(file[2])
        /\ \A l \in DOMAIN file[1] : Header!IsLine(file[1][l])
        /\ \A l \in DOMAIN file[2] : IsLine(file[2][l])

Phases == {"lines", "resolve", "emit", "done", "failed"}

Init ==
    /\ \E file \in Files : header = file[1] /\ source = file[2]
    /\ Header!Init
    /\ at = 0
    /\ labels = [x \in {} |-> 0]
    /\ pending = <<>>
    /\ bundleIndex = 0
    /\ inBlock = FALSE
    /\ blockParts = <<>>
    /\ parsed = <<>>
    /\ program = <<>>
    /\ placed = 0
    /\ phase = "lines"

-----------------------------------------------------------------------------
(* collect_lines: one action per kind of line. *)

Line == source[at + 1]

Reading == phase = "lines" /\ at < Len(source)

Fail ==
    /\ phase' = "failed"
    /\ UNCHANGED <<source, at, labels, pending, bundleIndex, inBlock, blockParts,
                   parsed, program, placed>>

LegacyHeader == Reading /\ Line.kind = "legacy" /\ Fail

\* Faulty: the next bundle gets the number of this one.
CloseBlockUncounted ==
    /\ Reading /\ inBlock
    /\ Line.kind = "close" /\ Line.labels = <<>>
    /\ parsed' = Append(parsed, [bundle |-> bundleIndex, parts |-> blockParts])
    /\ inBlock' = FALSE
    /\ blockParts' = <<>>
    /\ at' = at + 1
    /\ UNCHANGED <<source, labels, pending, bundleIndex, program, placed, phase>>

\* Inside a block.
CloseBlock ==
    /\ Reading /\ inBlock
    /\ Line.kind = "close" /\ Line.labels = <<>>
    /\ parsed' = Append(parsed, [bundle |-> bundleIndex, parts |-> blockParts])
    /\ bundleIndex' = bundleIndex + 1
    /\ inBlock' = FALSE
    /\ blockParts' = <<>>
    /\ at' = at + 1
    /\ UNCHANGED <<source, labels, pending, program, placed, phase>>

\* normalize_block_instruction_line: what has a colon in it is taken for an
\* instruction, behind a label a malformed one.
BlockLine ==
    /\ Reading /\ inBlock
    /\ \/ Line.kind = "slot"
       \/ Len(Line.labels) > IF Line.kind = "none" THEN 1 ELSE 0
    /\ blockParts' = Append(blockParts,
          IF Line.kind = "slot" /\ Line.labels = <<>> THEN Line.parts[1] ELSE Garbage)
    /\ at' = at + 1
    /\ UNCHANGED <<source, labels, pending, bundleIndex, inBlock, parsed, program,
                   placed, phase>>

BadBlockLine ==
    /\ Reading /\ inBlock
    /\ \/ Line.kind \in {"open", "spaced", "inline"} /\ Line.labels = <<>>
       \/ Line.kind = "none" /\ Len(Line.labels) = 1
    /\ Fail

\* Outside: split_label_prefix takes the labels off, and the slot of the block
\* form for one when it has a name.
LineLabels ==
    Line.labels \o (IF Line.kind = "slot" /\ Line.parts[1].slot[1] = "name"
                    THEN <<Line.parts[1].slot[2]>> ELSE <<>>)

Waiting == pending \o LineLabels

LabelLine ==
    /\ Reading /\ ~inBlock
    /\ Line.kind = "none"
    /\ pending' = Waiting
    /\ at' = at + 1
    /\ UNCHANGED <<source, labels, bundleIndex, inBlock, blockParts, parsed, program,
                   placed, phase>>

\* Faulty: a label of an earlier bundle is overwritten silently.
DuplicateAmong(names) == ~IsInjective(names)

\* The labels that wait name one bundle twice, or another bundle already.
Duplicate(names) ==
    ~IsInjective(names) \/ \E i \in DOMAIN names : names[i] \in DOMAIN labels

Defining(names, bundle) ==
    [x \in Range(names) \cup DOMAIN labels |-> IF x \in Range(names) THEN bundle ELSE labels[x]]

DuplicateLabel ==
    /\ Reading /\ ~inBlock
    /\ Line.kind \notin {"none", "legacy"}
    /\ Duplicate(Waiting)
    /\ Fail

OpenBlock ==
    /\ Reading /\ ~inBlock
    /\ Line.kind = "open" \/ (Line.kind = "spaced" /\ Line.labels = <<>>)
    /\ ~Duplicate(Waiting)
    /\ labels' = Defining(Waiting, bundleIndex)
    /\ pending' = <<>>
    /\ inBlock' = TRUE
    /\ blockParts' = <<>>
    /\ at' = at + 1
    /\ UNCHANGED <<source, bundleIndex, parsed, program, placed, phase>>

\* Every other line is an inline bundle.  A brace behind a label and a blank,
\* a closing brace and the block form of an instruction are none: they are
\* refused when they are emitted.
InlineBundle ==
    /\ Reading /\ ~inBlock
    /\ Line.kind \in {"inline", "slot", "close"} \/ (Line.kind = "spaced" /\ Line.labels # <<>>)
    /\ ~Duplicate(Waiting)
    /\ labels' = Defining(Waiting, bundleIndex)
    /\ pending' = <<>>
    /\ parsed' = Append(parsed, [bundle |-> bundleIndex,
                                 parts |-> IF Line.kind = "inline" THEN Line.parts
                                           ELSE <<Garbage>>])
    /\ bundleIndex' = bundleIndex + 1
    /\ at' = at + 1
    /\ UNCHANGED <<source, inBlock, blockParts, program, placed, phase>>

\* The text ends inside a block, or behind a label without a bundle.
UnfinishedText ==
    /\ phase = "lines" /\ at = Len(source)
    /\ inBlock \/ pending # <<>>
    /\ Fail

EndOfText ==
    /\ phase = "lines" /\ at = Len(source)
    /\ ~inBlock /\ pending = <<>>
    /\ phase' = "resolve"
    /\ at' = 0
    /\ UNCHANGED <<source, labels, pending, bundleIndex, inBlock, blockParts, parsed, program,
                   placed>>

-----------------------------------------------------------------------------
(* resolve_labels *)

LooksLikeLabelRef(x) == x \notin DOMAIN aliases /\ x \notin Reserved

IsLabelRef(word) == word[1] = "name" /\ LooksLikeLabelRef(word[2])

Words(part) == {part.slot} \cup Range(part.args)

ResolveWord(bundles, word) == IF IsLabelRef(word) THEN Num(bundles[word[2]]) ELSE word

\* Every word of the instruction that looks like a label becomes its bundle.
ResolvePart(bundles, part) ==
    [part EXCEPT !.slot = ResolveWord(bundles, @),
                 !.args = [i \in DOMAIN @ |-> ResolveWord(bundles, @[i])]]

UnknownLabels(parts) ==
    {x \in UNION {Words(parts[i]) : i \in DOMAIN parts} :
        IsLabelRef(x) /\ x[2] \notin DOMAIN labels}

ResolveBundle ==
    /\ phase = "resolve" /\ at < Len(parsed)
    /\ UnknownLabels(parsed[at + 1].parts) = {}
    /\ parsed' = [parsed EXCEPT ![at + 1].parts = [i \in DOMAIN @ |-> ResolvePart(labels, @[i])]]
    /\ at' = at + 1
    /\ UNCHANGED <<source, labels, pending, bundleIndex, inBlock, blockParts, program, placed,
                   phase>>

UnknownLabel ==
    /\ phase = "resolve" /\ at < Len(parsed)
    /\ UnknownLabels(parsed[at + 1].parts) # {}
    /\ Fail

NopBundle == [s \in 1 .. width |-> Nop]

\* parse_program goes on with a program of empty bundles.
AllResolved ==
    /\ phase = "resolve" /\ at = Len(parsed)
    /\ phase' = "emit"
    /\ at' = 0
    /\ program' = [i \in 1 .. Max({0} \cup {parsed[k].bundle + 1 : k \in DOMAIN parsed})
                      |-> NopBundle]
    /\ UNCHANGED <<source, labels, pending, bundleIndex, inBlock, blockParts, parsed, placed>>

-----------------------------------------------------------------------------
(* parse_instruction *)

\* Faulty: the condition of a branch is an operand, not its guard.
BranchOperandsRead == <<<<"src0", "pred">>, <<"imm", "num">>>>

BranchOperands == <<<<"guard", "pred">>, <<"imm", "num">>>>

\* The operands of an opcode in order: <<field of the syllable, kind of word>>.
Operands(op) ==
    CASE op \in {"Add", "Sub", "And", "Or", "Xor", "Shl", "Srl", "Sra", "Mul", "MulH",
                 "FpAdd32", "FpSub32", "FpMul32", "FpDiv32", "FpAdd64", "FpSub64",
                 "FpMul64", "FpDiv64", "AesEnc", "AesDec"}
           -> <<<<"dst", "gpr">>, <<"src0", "gpr">>, <<"src1", "gpr">>>>
      [] op \in {"AddImm", "SubImm", "Lea"} \cup Loads
           -> <<<<"dst", "gpr">>, <<"src0", "gpr">>, <<"imm", "num">>>>
      [] op \in {"Mov", "FpCvt32To64", "FpCvtI32ToFp32", "FpCvtFp32ToI32", "FpCvt64To32",
                 "FpCvtI64ToFp64", "FpCvtFp64ToI64"}
           -> <<<<"dst", "gpr">>, <<"src0", "gpr">>>>
      [] op = "MovImm"           -> <<<<"dst", "gpr">>, <<"imm", "num">>>>
      [] op \in Compares         -> <<<<"dst", "pred">>, <<"src0", "gpr">>, <<"src1", "gpr">>>>
      [] op \in Stores           -> <<<<"src0", "gpr">>, <<"src1", "gpr">>, <<"imm", "num">>>>
      [] op = "Prefetch"         -> <<<<"src0", "gpr">>, <<"imm", "num">>>>
      [] op \in {"Jump", "Call"} -> <<<<"imm", "num">>>>
      [] op \in {"Ret", "Nop"}   -> <<>>
      [] op \in {"PAnd", "POr", "PXor"}
           -> <<<<"dst", "pred">>, <<"src0", "pred">>, <<"src1", "pred">>>>
      [] op = "PNot"             -> <<<<"dst", "pred">>, <<"src0", "pred">>>>
      [] op = "Branch"           -> BranchOperands

\* parse_load_like_operands, parse_store_operands: a memory operand stands for
\* the base and the offset.
Arguments(part) ==
    LET a == part.args
    IN  IF part.op \in Loads \cup {"Lea"} /\ Len(a) = 2 /\ a[2][1] = "mem"
        THEN <<a[1], Gpr(a[2][2]), a[2][3]>>
        ELSE IF part.op \in Stores /\ Len(a) = 2 /\ a[1][1] = "mem"
        THEN <<Gpr(a[1][2]), a[2], a[1][3]>>
        ELSE a

\* Only the condition of a branch may be negated.
Fits(word, operand) ==
    \/ word[1] = operand[2]
    \/ operand[1] = "guard" /\ word[1] = "not"

\* parse_slot: an alias of the header goes before a built-in one.
SlotOf(word) ==
    IF word[1] = "num" THEN word[2]
    ELSE IF word[2] \in DOMAIN aliases THEN aliases[word[2]]
    ELSE BuiltinSlots[word[2]]

NamesSlot(word) ==
    /\ \/ word[1] = "num"
       \/ word[1] = "name" /\ word[2] \in DOMAIN aliases \cup DOMAIN BuiltinSlots
    /\ SlotOf(word) \in 0 .. width - 1

Parses(part) ==
    /\ NamesSlot(part.slot)
    /\ part.op \in Opcodes
    /\ part.op = "Branch" => part.guard = Always
    /\ LET args == Arguments(part)
       IN  /\ Len(args) = Len(Operands(part.op))
           /\ \A i \in DOMAIN args : Fits(args[i], Operands(part.op)[i])

\* parse_non_branch, parse_branch
SyllableOf(part) ==
    LET args == Arguments(part)
        Given(field) == {i \in DOMAIN args : Operands(part.op)[i][1] = field}
        Field(field, default) ==
            IF Given(field) = {} THEN default ELSE args[CHOOSE i \in Given(field) : TRUE][2]
    IN  [op   |-> part.op,
         dst  |-> Field("dst", NoReg),
         src  |-> <<Field("src0", NoReg), Field("src1", NoReg)>>,
         imm  |-> Field("imm", 0),
         pred |-> Field("guard", part.guard[1]),
         neg  |-> part.guard[2] \/ \E i \in Given("guard") : args[i][1] = "not"]

\* Faulty: a slot that is taken keeps its instruction.
SetSlotOnce(bundle, part) ==
    IF bundle[SlotOf(part.slot) + 1] # Nop THEN bundle
    ELSE [bundle EXCEPT ![SlotOf(part.slot) + 1] = SyllableOf(part)]

\* Bundle::set_slot
SetSlot(bundle, part) == [bundle EXCEPT ![SlotOf(part.slot) + 1] = SyllableOf(part)]

Parts == parsed[at + 1].parts

EmitInstruction ==
    /\ phase = "emit" /\ at < Len(parsed) /\ placed < Len(Parts)
    /\ Parses(Parts[placed + 1])
    /\ program' = [program EXCEPT ![parsed[at + 1].bundle + 1] = SetSlot(@, Parts[placed + 1])]
    /\ placed' = placed + 1
    /\ UNCHANGED <<source, at, labels, pending, bundleIndex, inBlock, blockParts, parsed, phase>>

BadInstruction ==
    /\ phase = "emit" /\ at < Len(parsed) /\ placed < Len(Parts)
    /\ ~Parses(Parts[placed + 1])
    /\ Fail

BundleEmitted ==
    /\ phase = "emit" /\ at < Len(parsed) /\ placed = Len(Parts)
    /\ at' = at + 1
    /\ placed' = 0
    /\ UNCHANGED <<source, labels, pending, bundleIndex, inBlock, blockParts, parsed, program,
                   phase>>

AllEmitted ==
    /\ phase = "emit" /\ at = Len(parsed)
    /\ phase' = "done"
    /\ UNCHANGED <<source, at, labels, pending, bundleIndex, inBlock, blockParts, parsed, program,
                   placed>>

CollectLine ==
    \/ LegacyHeader \/ CloseBlock \/ BlockLine \/ BadBlockLine
    \/ LabelLine \/ DuplicateLabel \/ OpenBlock \/ InlineBundle
    \/ UnfinishedText \/ EndOfText

ParseHeader == Header!Next /\ UNCHANGED bodyVars

\* parse_program goes on with the body when the header has been accepted.
ParseBody ==
    /\ headerPhase = "done"
    /\ \/ CollectLine
       \/ ResolveBundle \/ UnknownLabel \/ AllResolved
       \/ EmitInstruction \/ BadInstruction \/ BundleEmitted \/ AllEmitted
    /\ UNCHANGED headerVars

Next == ParseHeader \/ ParseBody

Spec == Init /\ [][Next]_vars
-----------------------------------------------------------------------------
(* The text read as a whole: what the line by line reading has to find. *)

LinesOf == DOMAIN source

\* Line l is behind an opening brace that no line before it closes.
InsideBlock(l) ==
    \E o \in 1 .. l - 1 :
        /\ source[o].kind \in {"open", "spaced"}
        /\ \A k \in o + 1 .. l - 1 : source[k].kind # "close"

Starts == {l \in LinesOf : /\ ~InsideBlock(l)
                           /\ source[l].kind \in {"open", "spaced", "inline"}}

BundlesBefore(l) == Cardinality({k \in Starts : k < l})

\* The labels in front of line l, and the bundle behind each label.
LabelsOf(l) == Range(source[l].labels)

LabelNames == UNION {LabelsOf(l) : l \in LinesOf}

LabelBundles ==
    [x \in LabelNames |-> BundlesBefore(CHOOSE l \in LinesOf : x \in LabelsOf(l))]

LabelsAreUnique ==
    \A l \in LinesOf :
        /\ IsInjective(source[l].labels)
        /\ \A k \in LinesOf \ {l} : LabelsOf(k) \cap LabelsOf(l) = {}

\* The instructions of the bundle that starts in line l.
BundleParts(l) ==
    IF source[l].kind = "inline" THEN source[l].parts
    ELSE LET end == Min({k \in LinesOf : k > l /\ source[k].kind = "close"})
         IN  [k \in 1 .. end - l - 1 |-> source[l + k].parts[1]]

WellPlaced(l) ==
    IF InsideBlock(l)
    THEN source[l].labels = <<>> /\ source[l].kind \in {"slot", "close"}
    ELSE \/ source[l].kind \in {"none", "open", "inline"}
         \/ source[l].kind = "spaced" /\ source[l].labels = <<>>

\* Lines in their place, blocks closed, every label unique and before a bundle.
WellStructured ==
    /\ \A l \in LinesOf : WellPlaced(l)
    /\ ~InsideBlock(Len(source) + 1)
    /\ LabelsAreUnique
    /\ \A x \in LabelNames : LabelBundles[x] < Cardinality(Starts)

WellFormed ==
    /\ WellStructured
    /\ \A l \in Starts : \A i \in DOMAIN BundleParts(l) :
         /\ \A word \in Words(BundleParts(l)[i]) :
               IsLabelRef(word) => word[2] \in LabelNames
         /\ Parses(ResolvePart(LabelBundles, BundleParts(l)[i]))

\* The assembler refuses exactly the texts that are not well formed, whatever
\* order blocks, labels and their uses come in.
AcceptsTheWellFormed ==
    /\ phase = "done" => WellFormed
    /\ phase = "failed" => ~WellFormed

\* In both encodings of a bundle and for labels on lines of their own or not,
\* forward and backward, a label stands for the bundle that follows it.
LabelsDenoteTheirBundles ==
    phase = "done" => labels = LabelBundles

\* No instruction gets lost or into another bundle or slot: each is the last
\* that its bundle has for the slot, and slots without one are empty.
EveryInstructionIsPlaced ==
    phase = "done" =>
        /\ Len(program) = Cardinality(Starts)
        /\ \A l \in Starts : \A s \in 1 .. width :
             LET parts == [i \in DOMAIN BundleParts(l) |->
                              ResolvePart(LabelBundles, BundleParts(l)[i])]
                 here  == {i \in DOMAIN parts : SlotOf(parts[i].slot) = s - 1}
             IN  program[BundlesBefore(l) + 1][s] =
                     IF here = {} THEN Nop ELSE SyllableOf(parts[Max(here)])

\* Assembled programs are what the processors expect (CpuCore, System), and
\* have no operands in their branches, which the verifier relies on silently
\* (BranchesHaveNoOperands of VerifiedCore).
AssembledProgramsAreInputs ==
    phase = "done" =>
        \A i \in DOMAIN program :
            /\ DOMAIN program[i] = 1 .. width
            /\ \A s \in 1 .. width :
                 /\ program[i][s] \in Syllable
                 /\ program[i][s].op = "Branch" => program[i][s].src = <<NoReg, NoReg>>

-----------------------------------------------------------------------------
(* The header, whatever body follows it. *)

\* Whatever order the sections come in, however their braces are laid out and
\* wherever a name is used before it is declared: a header whose lines are in
\* their sections, without a memory line among the lines of arch, is accepted
\* exactly when its declarations fit together.
AcceptsSensibleHeaders == Header!AcceptsSensibleHeaders

\* The layout that the executors get is the one declared: no line is dropped,
\* applied to another section or undone by a later one of other fields; but a
\* memory line of arch may take the fields of arch along.
EveryDeclarationCounts == Header!EveryDeclarationCounts

\* The size of the memory is the one that the header gives in either spelling.
\* The parser drops the legacy one when it is on a line of its own.
DeclaredMemoryCounts == Header!DeclaredMemoryCounts
=============================================================================
