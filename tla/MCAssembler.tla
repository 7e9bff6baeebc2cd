---------------------------- MODULE MCAssembler ----------------------------
(***************************************************************************)
(* Instances of Assembler.  Bodies: every text of up to three of 17 lines, *)
(* or of a block between two lines, behind a header of two slots with an   *)
(* alias.  Headers: a complete one, and every header that differs from it  *)
(* by a line of Strays inserted anywhere, or by one of fewer strays and a  *)
(* line removed or two lines at a border of sections swapped; and those    *)
(* with the size of the memory in the lines of arch.                       *)
(***************************************************************************)
EXTENDS Assembler

ReservedNames == {"i0", "i1", "m", "x", "add"}

TextLine(names, kind, parts) == [labels |-> names, kind |-> kind, parts |-> parts]

Jump(slot, target) == Part(slot, Always, "Jump", <<target>>)

MovI == Part(Name("i1"), <<1, TRUE>>, "MovImm", <<Gpr(1), Num(-3)>>)

Load == Part(Name("mem"), <<1, FALSE>>, "LoadB", <<Gpr(2), Mem(0, Num(4))>>)

Store == Part(Num(1), Always, "RelStore", <<Mem(1, Num(0)), Gpr(2)>>)

\* An operand of the wrong kind, and one too few.
BadStore == Part(Num(1), Always, "RelStore", <<Mem(1, Num(0)), Num(2)>>)
BadAdd == Part(Num(0), Always, "Add", <<Gpr(1), Gpr(2)>>)

BlockLines ==
    {TextLine(<<>>, "slot", <<MovI>>),
     TextLine(<<>>, "slot", <<Jump(Name("mem"), Name("a"))>>),
     TextLine(<<>>, "slot", <<Part(Num(1), Always, "Branch", <<NotPred(1), Name("b")>>)>>)}

Braces == {TextLine(<<>>, "open", <<>>), TextLine(<<>>, "close", <<>>)}

InlineLines ==
    {TextLine(<<"b">>, "inline", <<MovI, Load>>),
     TextLine(<<>>, "inline", <<Store, Jump(Name("mem"), Name("b"))>>),
     TextLine(<<"m">>, "inline", <<Part(Num(1), Always, "Branch", <<Pred(1), Name("a")>>)>>)}

BadLines ==
    {TextLine(<<>>, "inline", <<BadStore>>),
     TextLine(<<>>, "inline", <<Jump(Num(1), Name("m"))>>),
     TextLine(<<"a">>, "slot", <<BadAdd>>),
     TextLine(<<>>, "legacy", <<>>)}

OpeningLines ==
    {TextLine(<<"a">>, "none", <<>>), TextLine(<<"a", "c">>, "none", <<>>),
     TextLine(<<"a">>, "open", <<>>), TextLine(<<"b">>, "spaced", <<>>),
     TextLine(<<>>, "spaced", <<>>)}

TextLines == BlockLines \cup Braces \cup InlineLines \cup BadLines \cup OpeningLines

Close == TextLine(<<>>, "close", <<>>)

Bodies ==
    UNION {[1 .. n -> TextLines] : n \in 0 .. 3} \cup
    {<<x, o, k, l, Close, y>> :
        x \in InlineLines \cup OpeningLines, y \in InlineLines \cup BadLines,
        k, l \in BlockLines, o \in Braces \cup OpeningLines}

-----------------------------------------------------------------------------
FieldWords == {"cache", "arch", "memory", "topology"}

\* A section whose fields are in its own line has its braces there.
HeaderLine(head, braces, args) ==
    [head |-> head, braces |-> braces, args |-> args,
     opens |-> braces > 0 \/ (head \in FieldWords /\ args # <<>>)]

CloseBrace == HeaderLine("brace", -1, <<>>)
OpenBrace == HeaderLine("brace", 1, <<>>)
UnitLine(name, kind) == HeaderLine("unit", 0, <<name, kind>>)
SlotLine(index, names) == HeaderLine("slot", 0, <<index, names>>)
AliasLine(name, slot) == HeaderLine("alias", 0, <<name, slot>>)
WidthLine(n) == HeaderLine("width", 0, n)
FieldLine(args) == HeaderLine("fields", 0, args)

FullHeader ==
    <<HeaderLine(".processor", 1, <<>>),
      HeaderLine("slots", 1, <<>>), AliasLine("ld", 1), SlotLine(1, {"mem", "alu"}),
      SlotLine(0, {"alu"}), CloseBrace,
      WidthLine(2),
      HeaderLine("hardware", 0, <<>>), OpenBrace, UnitLine("alu", "IntegerAlu"),
      UnitLine("mem", "Memory"), CloseBrace,
      HeaderLine("arch", 0, <<<<"gprs", 32>>, <<"memory", 64>>>>),
      HeaderLine("cache", 1, <<<<"hit_latency", 2>>>>),
      FieldLine(<<<<"line_bytes", 8>>, <<"capacity", 16>>>>), CloseBrace,
      HeaderLine("topology", 0, <<<<"cpus", 2>>, <<"cpus", 3>>>>),
      CloseBrace, HeaderLine("text", 0, <<>>)>>

Strays ==
    {CloseBrace, OpenBrace, HeaderLine("text", -2, <<>>),
     WidthLine(1), WidthLine(3), WidthLine(-1),
     UnitLine("alu", "Control"), UnitLine("mul", "Multiplier"), UnitLine("fma", "unknown"),
     SlotLine(2, {"mul"}), SlotLine(0, {"alu"}), SlotLine(-1, {}),
     AliasLine("st", 2), AliasLine("ld", 0), AliasLine("add", 0),
     HeaderLine("memory", 0, <<<<"size", 128>>>>), HeaderLine("memory", 0, <<<<"memory", 256>>>>),
     HeaderLine("arch", 0, <<<<"preds", 0>>>>), HeaderLine("arch", 1, <<>>),
     HeaderLine("cache", 0, <<>>), HeaderLine("topology", 0, <<>>), HeaderLine("hardware", 1, <<>>),
     FieldLine(<<<<"capacity", 12>>, <<"cpus", 4>>, <<"gprs", 16>>>>),
     FieldLine(<<<<"associativity", 2>>>>), FieldLine(<<<<"miss_latency", -1>>>>),
     HeaderLine("text", 0, <<>>)}

\* The strays that another edit may make up for, or that may make up for it.
Substitutes ==
    {CloseBrace, OpenBrace, WidthLine(1), WidthLine(3), UnitLine("mul", "Multiplier"),
     UnitLine("alu", "Control"), SlotLine(2, {"mul"}), SlotLine(0, {"alu"}), AliasLine("ld", 0),
     HeaderLine("cache", 0, <<>>), HeaderLine("hardware", 1, <<>>),
     FieldLine(<<<<"capacity", 12>>, <<"cpus", 4>>, <<"gprs", 16>>>>)}

Inserted(i, line) ==
    [k \in 1 .. Len(FullHeader) + 1 |->
        IF k < i THEN FullHeader[k] ELSE IF k = i THEN line ELSE FullHeader[k - 1]]

Swapped(text, i, j) == [text EXCEPT ![i] = text[j], ![j] = text[i]]

Without(text, j) == [k \in 1 .. Len(text) - 1 |-> IF k < j THEN text[k] ELSE text[k + 1]]

Positions == 2 .. Len(FullHeader)

\* The section of line 13 on lines of its own.
WithArch(fieldLines) ==
    SubSeq(FullHeader, 1, 12) \o <<HeaderLine("arch", 1, <<>>)>> \o fieldLines \o
    <<CloseBrace>> \o SubSeq(FullHeader, 14, Len(FullHeader))

LegacyMemory(size) == HeaderLine("memory", 0, <<<<"memory", size>>>>)

SpreadHeader == WithArch(<<FieldLine(<<<<"gprs", 64>>>>), LegacyMemory(64)>>)

\* Headers with the legacy spelling of the memory size among other fields: on
\* the line of arch, on a line of its own in front of them or behind, beside
\* the other spelling and with an error in the line that is taken along.
MemoryHeaders ==
    {SpreadHeader, FullHeader,
     WithArch(<<LegacyMemory(64), FieldLine(<<<<"gprs", 64>>>>)>>),
     WithArch(<<LegacyMemory(4)>>),
     WithArch(<<LegacyMemory(-1), FieldLine(<<<<"preds", -1>>>>)>>),
     WithArch(<<LegacyMemory(64), FieldLine(<<<<"line_bytes", 4>>, <<"preds", 0>>>>)>>),
     WithArch(<<LegacyMemory(64), CloseBrace, HeaderLine("memory", 0, <<<<"size", 128>>>>),
                HeaderLine("arch", 1, <<>>), FieldLine(<<<<"preds", 4>>>>)>>)}

\* The brace of the header on a line of its own.
SplitHeader == <<HeaderLine(".processor", 0, <<>>), OpenBrace>> \o Tail(FullHeader)

HeaderVariants ==
    {<<>>, SplitHeader, Tail(FullHeader)} \cup MemoryHeaders \cup
    {Swapped(SplitHeader, 2, j) : j \in Positions} \cup
    {Swapped(FullHeader, i, j) : i, j \in Positions} \cup
    {Inserted(i, FullHeader[i]) : i \in Positions} \cup
    {Inserted(i, line) : i \in Positions, line \in Strays} \cup
    {Without(Inserted(i, line), j) :
        i \in Positions, j \in Positions \ {6, 7, 12}, line \in Substitutes} \cup
    {Swapped(Inserted(i, line), j, j + 1) :
        i \in Positions, j \in {6, 7, 12, 13}, line \in Substitutes}

-----------------------------------------------------------------------------
\* The header of the bodies.
PlainHeader ==
    <<HeaderLine(".processor", 1, <<>>), WidthLine(2),
      HeaderLine("hardware", 0, <<>>), UnitLine("alu", "IntegerAlu"),
      HeaderLine("slots", 0, <<>>), SlotLine(0, {"alu"}), SlotLine(1, {"alu"}),
      AliasLine("mem", 1), AliasLine("i1", 0),
      HeaderLine("cache", 0, <<>>), HeaderLine("topology", -1, <<<<"cpus", 1>>>>)>>

\* A body that needs the alias of FullHeader and its two slots.
AliasBody ==
    <<TextLine(<<"ld">>, "inline",
               <<Jump(Num(0), Name("ld")), Jump(Name("ld"), Num(0))>>)>>

MemoryFiles == MemoryHeaders \X {AliasBody}

AllFiles ==
    ({PlainHeader} \X Bodies) \cup (HeaderVariants \X {AliasBody})
=============================================================================
