-------------------------- MODULE ProcessorHeader --------------------------
(***************************************************************************)
(* The `.processor { ... }` header of an assembly file: parse_processor_   *)
(* header finds its end, parse_processor_block reads it line by line       *)
(* (src/src/asm.rs), ProcessorLayout::validate and CacheConfig::validate   *)
(* (src/src/layout.rs, src/src/cache.rs) judge the result.                 *)
(*                                                                         *)
(* A line has a first word, the braces it opens less those it closes,      *)
(* whether it opens any, and arguments.  A number is negative when the     *)
(* text does not parse as one.  Variants and latencies of units, which     *)
(* nothing reads, are left out.                                            *)
(***************************************************************************)
EXTENDS Isa, SequencesExt

CONSTANTS
    Sources,    \* the texts, from their first line that is not empty
    Reserved    \* names that no alias may have: opcodes, but no registers

BlockSections == {"hardware", "slots"}

FieldSections == {"cache", "arch", "memory", "topology"}

\* "fields" is a line of <<name, number>> pairs that is no other line.
Heads == {".processor", "brace", "width", "unit", "alias", "slot", "fields", "text"}
         \cup BlockSections \cup FieldSections

\* "brace" is a line of one brace, and the words of a section may have one
\* behind them; slots have an index and names, aliases a name and an index.
IsLine(line) ==
    /\ line.head \in Heads
    /\ line.braces \in Int /\ line.opens \in BOOLEAN
    /\ line.braces > 0 => line.opens
    /\ line.head = "brace" => line.braces \in {-1, 1}
    /\ line.head \in {".processor"} \cup BlockSections => line.braces \in {0, 1}
    /\ line.head = "width" => line.args \in Int
    /\ line.head = "slot" => line.args[1] \in Int
    /\ line.head = "alias" => line.args[2] \in Int
    /\ line.head \in {"fields"} \cup FieldSections => line.args \in Seq(STRING \X Int)

VARIABLES
    source, at,
    lines,          \* lines of the header, when its end has been found
    width,          \* a number, or -1 before the width has been read
    units,          \* UnitDecl: name -> kind
    slots,          \* SlotSpec: index -> names of units
    aliases,        \* name -> index
    fields,         \* the numbers of arch, cache and topology: name -> number
    seen,           \* saw_cache, saw_topology: the field sections met
    section,
    phase

vars == <<source, at, lines, width, units, slots, aliases, fields, seen, section, phase>>

FieldNames ==
    [cache    |-> {"line_bytes", "capacity", "associativity", "hit_latency",
                   "miss_latency", "writeback_latency"},
     arch     |-> {"gprs", "preds", "memory"},
     memory   |-> {"size"},
     topology |-> {"cpus"}]

\* default_l1d, default_arch_config and one CPU.
DefaultFields ==
    [line_bytes |-> 64, capacity |-> 4096, associativity |-> 1,
     hit_latency |-> 1, miss_latency |-> 3, writeback_latency |-> 0,
     gprs |-> 32, preds |-> 16, memory |-> 65536, cpus |-> 1]

Init ==
    /\ source \in Sources
    /\ at = 0
    /\ lines = 0
    /\ width = -1
    /\ units = [x \in {} |-> 0]
    /\ slots = [x \in {} |-> 0]
    /\ aliases = [x \in {} |-> 0]
    /\ fields = DefaultFields
    /\ seen = {}
    /\ section = "none"
    /\ phase = "find"

Fail ==
    /\ phase' = "failed"
    /\ UNCHANGED <<source, at, lines, width, units, slots, aliases, fields, seen, section>>

-----------------------------------------------------------------------------
(* parse_processor_header *)

\* Braces that are open behind the first n lines.
Depth(text, n) ==
    LET depth[l \in 0 .. n] == IF l = 0 THEN 0 ELSE depth[l - 1] + text[l].braces
    IN  depth[n]

HasHeader == source # <<>> /\ source[1].head = ".processor"

\* saw_open: before the first opening brace nothing ends the header.
AllClosed(l) == Depth(source, l) = 0 /\ \E k \in 1 .. l : source[k].opens

\* The header ends with the first line that closes its last brace.
EndsAt(l) == AllClosed(l) /\ \A k \in 1 .. l - 1 : Depth(source, k) >= 0 /\ ~AllClosed(k)

FindHeader ==
    /\ phase = "find"
    /\ HasHeader
    /\ \E l \in DOMAIN source : EndsAt(l) /\ lines' = l
    /\ phase' = "parse"
    /\ UNCHANGED <<source, at, width, units, slots, aliases, fields, seen, section>>

\* No header, or one that is not closed or closed twice.
NoHeader ==
    /\ phase = "find"
    /\ HasHeader => ~\E l \in DOMAIN source : EndsAt(l)
    /\ Fail

-----------------------------------------------------------------------------
(* parse_processor_block: one action per kind of line. *)

Line == source[at + 1]

Parsing == phase = "parse" /\ at < lines

NextLine == at' = at + 1 /\ UNCHANGED <<source, lines, phase>>

\* Faulty: a closing brace ends the section, whichever it belongs to.
BraceEndsSection ==
    /\ Parsing
    /\ Line.head \in {".processor", "brace"}
    /\ section' = "none"
    /\ NextLine
    /\ UNCHANGED <<width, units, slots, aliases, fields, seen>>

\* A closing brace leaves the section as it is.
Brace ==
    /\ Parsing
    /\ Line.head \in {".processor", "brace"}
    /\ NextLine
    /\ UNCHANGED <<width, units, slots, aliases, fields, seen, section>>

OpenBlock ==
    /\ Parsing
    /\ Line.head \in BlockSections
    /\ section' = Line.head
    /\ NextLine
    /\ UNCHANGED <<width, units, slots, aliases, fields, seen>>

SetWidth ==
    /\ Parsing
    /\ Line.head = "width" /\ Line.args >= 0
    /\ width' = Line.args
    /\ NextLine
    /\ UNCHANGED <<units, slots, aliases, fields, seen, section>>

BadWidth == Parsing /\ Line.head = "width" /\ Line.args < 0 /\ Fail

\* Where a line has fields of a section; parse_topology_cpus stops at the first.
OwnFields(sec, args) ==
    LET own == {i \in DOMAIN args : args[i][1] \in FieldNames[sec]}
    IN  IF sec = "topology" /\ own # {} THEN {Min(own)} ELSE own

\* parse_memory_fields writes the size that parse_arch_fields calls memory.
FieldOf(name) == IF name = "size" THEN "memory" ELSE name

\* The values of a table after those of a line: of a name the last one counts.
Assigned(table, args, own) ==
    [name \in DOMAIN table |->
        LET given == {i \in own : FieldOf(args[i][1]) = name}
        IN  IF given = {} THEN table[name] ELSE args[Max(given)][2]]

\* Faulty: a line of a section starts from the defaults.
WithFieldsOfDefaults(own) == Assigned(DefaultFields, Line.args, own)

WithFields(own) == Assigned(fields, Line.args, own)

\* The section that the fields of the line are for.  Lines of other kinds are
\* read for fields there too, and have none.
FieldSection ==
    IF Line.head \in FieldSections THEN Line.head
    ELSE IF Line.head \in {"unit", "alias", "slot", "fields", "text"} THEN section
    ELSE "none"

LineFields ==
    IF Line.head \in FieldSections \cup {"fields"} THEN OwnFields(FieldSection, Line.args)
    ELSE {}

ReadFields ==
    /\ Parsing
    /\ FieldSection \in FieldSections
    /\ \A i \in LineFields : Line.args[i][2] >= 0
    /\ fields' = WithFields(LineFields)
    /\ section' = FieldSection
    /\ seen' = seen \cup ({Line.head} \cap FieldSections)
    /\ NextLine
    /\ UNCHANGED <<width, units, slots, aliases>>

BadField ==
    /\ Parsing
    /\ FieldSection \in FieldSections
    /\ \E i \in LineFields : Line.args[i][2] < 0
    /\ Fail

Declaration == {"unit", "alias", "slot", "fields", "text"}

\* A table with what the line declares.
WithEntry(table) ==
    [x \in DOMAIN table \cup {Line.args[1]} |->
        IF x = Line.args[1] THEN Line.args[2] ELSE table[x]]

IsNewUnit ==
    /\ Line.head = "unit"
    /\ Line.args[2] \in UnitKinds
    /\ Line.args[1] \notin DOMAIN units

DeclareUnit ==
    /\ Parsing /\ section = "hardware"
    /\ IsNewUnit
    /\ units' = WithEntry(units)
    /\ NextLine
    /\ UNCHANGED <<width, slots, aliases, fields, seen, section>>

IsNewSlot ==
    /\ Line.head = "slot"
    /\ Line.args[1] >= 0
    /\ Line.args[1] \notin DOMAIN slots

DeclareSlot ==
    /\ Parsing /\ section = "slots"
    /\ IsNewSlot
    /\ slots' = WithEntry(slots)
    /\ NextLine
    /\ UNCHANGED <<width, units, aliases, fields, seen, section>>

IsNewAlias ==
    /\ Line.head = "alias"
    /\ Line.args[2] >= 0
    /\ Line.args[1] \notin DOMAIN aliases \cup Reserved

DeclareAlias ==
    /\ Parsing /\ section = "slots"
    /\ IsNewAlias
    /\ aliases' = WithEntry(aliases)
    /\ NextLine
    /\ UNCHANGED <<width, units, slots, fields, seen, section>>

BadDeclaration ==
    /\ Parsing
    /\ Line.head \in Declaration
    /\ \/ section = "none"
       \/ section = "hardware" /\ ~IsNewUnit
       \/ section = "slots" /\ ~IsNewSlot /\ ~IsNewAlias
    /\ Fail

-----------------------------------------------------------------------------
(* The end of parse_processor_block, and validate. *)

Complete ==
    /\ width >= 0
    /\ \A name \in DOMAIN aliases : aliases[name] < width
    /\ DOMAIN slots = 0 .. Cardinality(DOMAIN slots) - 1
    /\ {"cache", "topology"} \subseteq seen

\* CacheConfig::validate
CacheValid(f) ==
    /\ f["line_bytes"] > 0
    /\ f["capacity"] >= f["line_bytes"] /\ f["capacity"] % f["line_bytes"] = 0
    /\ f["associativity"] = 1
    /\ f["hit_latency"] > 0 /\ f["miss_latency"] > 0

\* topology_supported_runtime, arch_supported_runtime
ArchSupported(f) ==
    f["cpus"] >= 1 /\ f["gprs"] >= 32 /\ f["preds"] >= 1 /\ f["memory"] >= 8

\* ProcessorLayout::validate
Validate ==
    /\ width \in 1 .. 256
    /\ Cardinality(DOMAIN slots) = width
    /\ ArchSupported(fields)
    /\ \A s \in DOMAIN slots : slots[s] # {} /\ slots[s] \subseteq DOMAIN units

Accept ==
    /\ phase = "parse" /\ at = lines
    /\ Complete /\ CacheValid(fields) /\ Validate
    /\ phase' = "done"
    /\ UNCHANGED <<source, at, lines, width, units, slots, aliases, fields, seen, section>>

Refuse ==
    /\ phase = "parse" /\ at = lines
    /\ ~(Complete /\ CacheValid(fields) /\ Validate)
    /\ Fail

ParseLine ==
    \/ Brace \/ OpenBlock \/ SetWidth \/ BadWidth \/ ReadFields \/ BadField
    \/ DeclareUnit \/ DeclareSlot \/ DeclareAlias \/ BadDeclaration

Next == FindHeader \/ NoHeader \/ ParseLine \/ Accept \/ Refuse

Spec == Init /\ [][Next]_vars
-----------------------------------------------------------------------------
(* The header read as a whole, by its braces and in no order. *)

Lines(head) == {l \in 2 .. lines - 1 : source[l].head = head}

\* The line that opens the outermost block around line l.
Opener(l) ==
    Max({o \in 1 .. l - 1 : Depth(source, o - 1) <= 1 /\ Depth(source, o) > 1})

\* The section whose braces are around line l; a brace of its own belongs to
\* the line before it.
Within(l) ==
    IF Depth(source, l - 1) <= 1 THEN "none"
    ELSE IF source[Opener(l)].head = "brace" THEN source[Opener(l) - 1].head
    ELSE source[Opener(l)].head

InPlace(l) ==
    LET head == source[l].head
    IN  \/ head \in {"width"} \cup BlockSections \cup FieldSections /\ Within(l) = "none"
        \/ head = "unit" /\ Within(l) = "hardware"
        \/ head \in {"slot", "alias"} /\ Within(l) = "slots"
        \/ head = "fields" /\ Within(l) \in FieldSections
        \/ head = "memory" /\ Within(l) = "arch"
        \/ head = "brace"

WellNested ==
    /\ lines > 0 /\ source[lines].head = "brace"
    /\ \A l \in 2 .. lines - 1 : InPlace(l)

\* The legacy spelling of the memory size on a line of its own: a field of arch,
\* which the parser takes for the beginning of section memory.
ArchMemoryLines == {l \in Lines("memory") : Within(l) = "arch"}

\* Where line l has fields of the section that it is in.
FieldsAt(l) ==
    IF source[l].head \notin FieldSections \cup {"fields"} THEN {}
    ELSE OwnFields(IF Within(l) = "none" THEN source[l].head ELSE Within(l), source[l].args)

FieldLines(name) ==
    {l \in 2 .. lines - 1 : \E i \in FieldsAt(l) : FieldOf(source[l].args[i][1]) = name}

\* Of all fields of a name the last one in the text counts.
FieldValues ==
    [name \in DOMAIN DefaultFields |->
        IF FieldLines(name) = {} THEN DefaultFields[name]
        ELSE LET l == Max(FieldLines(name))
             IN  Assigned(DefaultFields, source[l].args, FieldsAt(l))[name]]

Unique(head) ==
    \A l, k \in Lines(head) : source[l].args[1] = source[k].args[1] => l = k

Declared(head) ==
    [x \in {source[l].args[1] : l \in Lines(head)} |->
        source[CHOOSE l \in Lines(head) : source[l].args[1] = x].args[2]]

DeclaredWidth == source[Max(Lines("width"))].args

Sensible ==
    /\ \A l \in Lines("width") : source[l].args >= 0
    /\ \A l \in 2 .. lines - 1 : \A i \in FieldsAt(l) : source[l].args[i][2] >= 0
    /\ Unique("unit") /\ Unique("slot") /\ Unique("alias")
    /\ Lines("width") # {} /\ Lines("cache") # {} /\ Lines("topology") # {}
    /\ DeclaredWidth \in 1 .. 256
    /\ \A l \in Lines("unit") : source[l].args[2] \in UnitKinds
    /\ \A l \in Lines("alias") :
         source[l].args[1] \notin Reserved /\ source[l].args[2] \in 0 .. DeclaredWidth - 1
    /\ DOMAIN Declared("slot") = 0 .. DeclaredWidth - 1
    /\ \A l \in Lines("slot") :
         source[l].args[2] # {} /\ source[l].args[2] \subseteq DOMAIN Declared("unit")
    /\ CacheValid(FieldValues) /\ ArchSupported(FieldValues)

\* Whatever order the sections come in, however their braces are laid out and
\* wherever a name is used before it is declared: a header whose lines are in
\* their sections, without a memory line among the lines of arch, is accepted
\* exactly when its declarations fit together.
AcceptsSensibleHeaders ==
    WellNested /\ ArchMemoryLines = {} =>
        /\ phase = "done" => Sensible
        /\ phase = "failed" => ~Sensible

\* The fields that no memory line of arch can take along.
KeptFields ==
    DOMAIN DefaultFields \ (IF ArchMemoryLines = {} THEN {} ELSE FieldNames["arch"])

\* The layout that the executors get is the one declared: no line is dropped,
\* applied to another section or undone by a later one of other fields.  Only
\* a memory line of arch may take the fields of arch along, its own and those
\* behind it (DeclaredMemoryCounts), and nothing else.
EveryDeclarationCounts ==
    phase = "done" /\ WellNested =>
        /\ width = DeclaredWidth
        /\ units = Declared("unit")
        /\ slots = Declared("slot")
        /\ aliases = Declared("alias")
        /\ \A name \in KeptFields : fields[name] = FieldValues[name]

\* "A header may override it with either `memory { size N }` or the legacy
\* `arch { memory N }` spelling" (docs/vliw_asm_format.md): the size of the
\* memory is the one given last, in either spelling.
DeclaredMemoryCounts ==
    phase = "done" /\ WellNested => fields["memory"] = FieldValues["memory"]
=============================================================================
