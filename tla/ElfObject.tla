------------------------------- MODULE ElfObject -------------------------------
(***************************************************************************)
(* How dracon assembles and writes the relocatable object: the string,     *)
(* symbol, text, read-only and relocation sections (src/elf), filled by    *)
(* compiler/elf_handler.c while functions are compiled and completed by    *)
(* elf_handler_dump in two passes over the relocations, and elf_dump,      *)
(* which sizes a buffer from the section headers and then lays the         *)
(* sections out in it.                                                     *)
(*                                                                         *)
(* Contents are kept as what they are made of (strings, symbols, blocks,   *)
(* entries), the headers' size and sh_info as the counters the code keeps  *)
(* beside them.  A string is a name with a length, a block its size.       *)
(***************************************************************************)
EXTENDS Integers, Sequences, SequencesExt

CONSTANTS
    Name,           \* names of functions
    NameLength,     \* strlen of each
    BlockSizes,     \* sizes of compiled functions
    StringSizes,    \* sizes of string literals, with their NUL
    MaxRelas        \* bound: relocations requested

\* The string that every string table begins with.
NoName == ""

ASSUME ElfAssumption ==
    \* Names of functions are identifiers; those of sections begin with a dot.
    /\ Name \cap {NoName, ".text", ".strtab", ".symtab", ".rodata",
                  ".shstrtab", ".rela.text"} = {}
    /\ NameLength \in [Name -> Nat \ {0}]
    /\ BlockSizes \subseteq Nat \ {0}
    /\ StringSizes \subseteq Nat \ {0}
    /\ MaxRelas \in Nat

VARIABLES
    strtab,         \* the strings of .strtab, in order
    locals,         \* local_symbols of .symtab
    globals,        \* global_symbols of .symtab
    blocks,         \* code_blocks of .text: the name and size of each
    rodata,         \* the sizes of the strings in .rodata
    pending,        \* pending_rela_relocations: the symbol each is against
    adjusted,       \* last_adjusted_relocation
    entries,        \* relocations of .rela.text: the symbol index of each
    size,           \* sh_size of each section
    info,           \* sh_info of .symtab
    offset,         \* sh_offset of each section
    bufferSize,     \* buffer_size in elf_dump
    written,        \* what elf_section_write_buffer wrote: where and how much
    phase,          \* what is running
    at              \* the index of the loop that is running

vars == <<strtab, locals, globals, blocks, rodata, pending, adjusted, entries,
          size, info, offset, bufferSize, written, phase, at>>

contents == <<strtab, locals, globals, blocks, rodata, pending, adjusted>>

layout == <<offset, bufferSize, written>>

------------------------------------------------------------------------------
(***************************************************************************)
(* The sections, in the order elf_init and elf_handler_init create them.   *)
(***************************************************************************)

SectionNames == <<".shstrtab", ".strtab", ".symtab", ".text", ".rodata",
                  ".rela.text">>

ShStrTab == 1
StrTab == 2
SymTab == 3
Text == 4
RoData == 5
RelaText == 6

Undefined == 0      \* SHN_UNDEF, and the empty section elf_init starts with

Sections == 0..Len(SectionNames)

HeaderBytes == 64       \* sizeof(elf_header) and sizeof(elf_section_header)
EntryBytes == 24        \* sizeof(elf_symbol) and sizeof(rela_entry)

\* strlen(string) + 1
Bytes(string) ==
    IF string \in Name THEN NameLength[string] + 1
    ELSE CASE string = NoName -> 1
           [] string = ".text" -> 6
           [] string \in {".strtab", ".symtab", ".rodata"} -> 8
           [] string = ".shstrtab" -> 10
           [] string = ".rela.text" -> 11

\* The loops that add up numbers, from the first one on.
AddUp(numbers) ==
    LET sum[n \in 0..Len(numbers)] ==
            IF n = 0 THEN 0 ELSE sum[n - 1] + numbers[n]
    IN  sum[Len(numbers)]

Total(list) == AddUp([i \in DOMAIN list |-> Bytes(list[i])])

\* The bytes of the code blocks in a list.
CodeBytes(list) == AddUp([i \in DOMAIN list |-> list[i].size])

\* Mutant: the loop over the list ends without adding the last string.
AddedAt_NoLast(list) == Total(Front(list))

\* The index elf_strtab_section_add_string returns for a string added to list.
AddedAt(list) == Total(list)

\* elf_strtab_section_get_string: the string the index falls in, and how far
\* into it; a string read from its middle is equal to no name.
GetString(list, index) ==
    LET Ends == {i \in DOMAIN list : Total(SubSeq(list, 1, i)) > index}
        i == CHOOSE j \in Ends : \A k \in Ends : j <= k
    IN  IF Ends = {} THEN [string |-> "NULL", skip |-> 0]
        ELSE [string |-> list[i],
              skip |-> index - Total(SubSeq(list, 1, i - 1))]

Whole(string) == [string |-> string, skip |-> 0]

\* The strings of .shstrtab; nothing is added after elf_handler_init.
ShStrings == <<NoName>> \o SectionNames

\* sh_name of a section: .shstrtab stores its own name, the others follow.
HeaderName(section) == AddedAt(SubSeq(ShStrings, 1, section))

Symbol == [name : Nat, shndx : Sections, value : Nat, size : Nat]

\* The symbol table as elf_symtab_section_write_buffer writes it.
Symbols == locals \o globals

SymbolName(symbol) == GetString(strtab, symbol.name)

\* elf_symtab_section_find_symbol is Find - 1: locals first, then globals at
\* their index after the locals.
Matching(name) ==
    {i \in DOMAIN Symbols : SymbolName(Symbols[i]) = Whole(name)}

\* Mutant: the index of a global within its own list.
Find_NoLocals(name) ==
    LET i == CHOOSE j \in Matching(name) : \A k \in Matching(name) : j <= k
    IN  IF Matching(name) = {} THEN -1
        ELSE IF i > Len(locals) THEN i - 1 - Len(locals) ELSE i - 1

Find(name) ==
    LET i == CHOOSE j \in Matching(name) : \A k \in Matching(name) : j <= k
    IN  IF Matching(name) = {} THEN -1 ELSE i - 1

------------------------------------------------------------------------------
(***************************************************************************)
(* After elf_handler_init: the empty symbol and the two section symbols.   *)
(***************************************************************************)

EmptySymbol == [name |-> 0, shndx |-> Undefined, value |-> 0, size |-> 0]

SectionSymbol(section, list) ==
    [name |-> AddedAt(list), shndx |-> section, value |-> 0, size |-> 0]

Init ==
    /\ strtab = <<NoName, ".text", ".rodata">>
    /\ locals = <<EmptySymbol, SectionSymbol(Text, <<NoName>>),
                  SectionSymbol(RoData, <<NoName, ".text">>)>>
    /\ globals = <<>>
    /\ blocks = <<>>
    /\ rodata = <<>>
    /\ pending = <<>>
    /\ adjusted = 0
    /\ entries = <<>>
    /\ size = [s \in Sections |->
                 CASE s = ShStrTab -> Total(ShStrings)
                   [] s = StrTab -> Total(strtab)
                   [] s = SymTab -> 3 * EntryBytes
                   [] OTHER -> 0]
    /\ info = 3
    /\ offset = [s \in Sections |-> 0]
    /\ bufferSize = 0
    /\ written = <<>>
    /\ phase = "compile"
    /\ at = 1

------------------------------------------------------------------------------
(***************************************************************************)
(* While functions are compiled.                                           *)
(***************************************************************************)

\* Mutant: the size of .strtab grows by strlen(string), without the NUL.
NameGrowth_NoNul(name) == Bytes(name) - 1

NameGrowth(name) == Bytes(name)

\* elf_symtab_section_add_symbol with STB_GLOBAL: the name, the entry, and the
\* sizes of both sections; a section that grows by itself gets extra[section].
AddGlobal(name, shndx, value, bytes, extra) ==
    /\ strtab' = Append(strtab, name)
    /\ globals' = Append(globals, [name |-> AddedAt(strtab), shndx |-> shndx,
                                   value |-> value, size |-> bytes])
    /\ size' = [s \in Sections |->
                  CASE s = StrTab -> size[s] + NameGrowth(name)
                    [] s = SymTab -> size[s] + EntryBytes
                    [] OTHER -> size[s] + extra[s]]

NoExtra == [s \in Sections |-> 0]

\* The functions still to come; each has its code added once.
Unfinished == Name \ {blocks[i].name : i \in DOMAIN blocks}

\* elf_handler_add_rela_relocation for a call.
AddCall(name) ==
    /\ phase = "compile"
    /\ Unfinished # {}
    /\ Len(pending) < MaxRelas
    /\ pending' = Append(pending, name)
    /\ UNCHANGED <<strtab, locals, globals, blocks, rodata, adjusted, entries,
                   size, info, layout, phase, at>>

\* elf_handler_add_string, then the relocation of the lea that loads it.
AddString(n) ==
    /\ phase = "compile"
    /\ Unfinished # {}
    /\ Len(pending) < MaxRelas
    /\ rodata' = Append(rodata, n)
    /\ size' = [size EXCEPT ![RoData] = @ + n]
    /\ pending' = Append(pending, ".rodata")
    /\ UNCHANGED <<strtab, locals, globals, blocks, adjusted, entries, info,
                   layout, phase, at>>

\* elf_handler_add_code_block at the end of a function (the adjustment of the
\* offsets is in ObjectCode).
AddCodeBlock(name, n) ==
    /\ phase = "compile"
    /\ name \in Unfinished
    /\ AddGlobal(name, Text, size[Text], n, [NoExtra EXCEPT ![Text] = n])
    /\ blocks' = Append(blocks, [name |-> name, size |-> n])
    /\ adjusted' = Len(pending)
    /\ UNCHANGED <<locals, rodata, pending, entries, info, layout, phase, at>>

------------------------------------------------------------------------------
(***************************************************************************)
(* elf_handler_dump: pending_rela_relocations_apply, in two passes.        *)
(***************************************************************************)

StartPhase(next) == phase' = next /\ at' = 1

\* Between functions, so every relocation has been adjusted.
Dump ==
    /\ phase = "compile"
    /\ adjusted = Len(pending)
    /\ StartPhase("symbols")
    /\ UNCHANGED <<contents, entries, size, info, layout>>

\* Mutant: a symbol is added for every relocation.
Missing_Always(name) == TRUE

Missing(name) == Find(name) = -1

\* elf_add_relocation_symbol: a name without a symbol becomes an undefined one.
AddRelocationSymbol ==
    /\ phase = "symbols"
    /\ at <= Len(pending)
    /\ IF Missing(pending[at])
       THEN AddGlobal(pending[at], Undefined, 0, 0, NoExtra)
       ELSE UNCHANGED <<strtab, globals, size>>
    /\ at' = at + 1
    /\ UNCHANGED <<locals, blocks, rodata, pending, adjusted, entries, info,
                   layout, phase>>

\* Mutant: relocations are added before the symbols they need.
SecondPass_Early == phase = "symbols" /\ at = 1

SecondPass == phase = "symbols" /\ at > Len(pending)

StartRelocations ==
    /\ SecondPass
    /\ StartPhase("relocations")
    /\ UNCHANGED <<contents, entries, size, info, layout>>

AddRelocation ==
    /\ phase = "relocations"
    /\ at <= Len(pending)
    /\ entries' = Append(entries, Find(pending[at]))
    /\ size' = [size EXCEPT ![RelaText] = @ + EntryBytes]
    /\ at' = at + 1
    /\ UNCHANGED <<contents, info, layout, phase>>

------------------------------------------------------------------------------
(***************************************************************************)
(* elf_dump.                                                               *)
(***************************************************************************)

\* The file header and a header for each section.
HeadersEnd == HeaderBytes + HeaderBytes * (Len(SectionNames) + 1)

SumSizes == AddUp([i \in 1..Len(SectionNames) + 1 |-> size[i - 1]])

\* The loop that adds up buffer_size, once the relocations are in.
AllocateBuffer ==
    /\ phase = "relocations"
    /\ at > Len(pending)
    /\ bufferSize' = HeadersEnd + SumSizes
    /\ phase' = "write"
    /\ at' = 0
    /\ UNCHANGED <<contents, entries, size, info, offset, written>>

\* The bytes the write_buffer function of each kind of section writes.
ContentBytes(s) ==
    CASE s = ShStrTab -> Total(ShStrings)
      [] s = StrTab -> Total(strtab)
      [] s = SymTab -> EntryBytes * Len(Symbols)
      [] s = Text -> CodeBytes(blocks)
      [] s = RoData -> AddUp(rodata)
      [] s = RelaText -> EntryBytes * Len(entries)
      [] OTHER -> 0

\* current_data_ptr: the headers and the sections before this one.
Cursor ==
    HeadersEnd + AddUp([i \in DOMAIN written |-> size[written[i].section]])

\* Mutant: the header is written with the offset past the section's data.
PlacedAt_After(s) == Cursor + size[s]

PlacedAt(s) == Cursor

\* One section of the second loop; without contents its offset stays 0.
WriteSection ==
    /\ phase = "write"
    /\ at \in Sections
    /\ IF size[at] # 0
       THEN /\ offset' = [offset EXCEPT ![at] = PlacedAt(at)]
            /\ written' = Append(written, [section |-> at, start |-> Cursor,
                                           bytes |-> ContentBytes(at)])
       ELSE UNCHANGED <<offset, written>>
    /\ at' = at + 1
    /\ UNCHANGED <<contents, entries, size, info, bufferSize, phase>>

\* write_bytes_file
WriteFile ==
    /\ phase = "write"
    /\ at \notin Sections
    /\ phase' = "done"
    /\ UNCHANGED <<contents, entries, size, info, layout, at>>

Done == phase = "done" /\ UNCHANGED vars

Next ==
    \/ \E name \in Name : AddCall(name)
    \/ \E n \in StringSizes : AddString(n)
    \/ \E name \in Name, n \in BlockSizes : AddCodeBlock(name, n)
    \/ Dump
    \/ AddRelocationSymbol
    \/ StartRelocations
    \/ AddRelocation
    \/ AllocateBuffer
    \/ WriteSection
    \/ WriteFile
    \/ Done

Spec == Init /\ [][Next]_vars

------------------------------------------------------------------------------

\* The shape of the sections and headers; sh_size and indexes are not negative.
TypeOK ==
    /\ strtab \in Seq(Name \cup {NoName, ".text", ".rodata"})
    /\ locals \in Seq(Symbol) /\ globals \in Seq(Symbol)
    /\ blocks \in Seq([name : Name, size : Nat])
    /\ rodata \in Seq(Nat)
    /\ pending \in Seq(Name \cup {".rodata"})
    /\ adjusted \in 0..Len(pending)
    /\ entries \in Seq(Nat)
    /\ size \in [Sections -> Nat]
    /\ info \in Nat
    /\ offset \in [Sections -> Nat]
    /\ bufferSize \in Nat
    /\ written \in Seq([section : Sections, start : Nat, bytes : Nat])
    /\ phase \in {"compile", "symbols", "relocations", "write", "done"}
    /\ at \in Nat

\* A name read back through its offset is the name that was stored: that of
\* every section, and of the symbol of every function, whose value and size
\* are those of the function's code in .text.
NamesResolve ==
    /\ \A s \in Sections \ {Undefined} :
          GetString(ShStrings, HeaderName(s)) = Whole(SectionNames[s])
    /\ \A i \in DOMAIN blocks :
          /\ SymbolName(globals[i]) = Whole(blocks[i].name)
          /\ globals[i].shndx = Text
          /\ globals[i].size = blocks[i].size
          /\ globals[i].value = CodeBytes(SubSeq(blocks, 1, i - 1))

\* The linker binds every relocation entry to the symbol the compiler asked
\* for, by its index in the table as written: to the function's code when the
\* object has it, to an undefined symbol when another object must.
RelocationsBind ==
    \A i \in DOMAIN entries :
        /\ entries[i] + 1 \in DOMAIN Symbols
        /\ LET symbol == Symbols[entries[i] + 1] IN
           /\ SymbolName(symbol) = Whole(pending[i])
           /\ symbol.shndx = IF pending[i] = ".rodata" THEN RoData
                             ELSE IF pending[i] \in Unfinished THEN Undefined
                             ELSE Text

\* No name has two symbols: a called function that the object also defines,
\* or that is called twice, is not declared undefined beside its definition.
OneSymbolPerName ==
    \A i, j \in DOMAIN Symbols :
        SymbolName(Symbols[i]) = SymbolName(Symbols[j]) => i = j

\* The counters kept in the headers agree with what they count: sh_size with
\* the bytes of each section, sh_info of .symtab with the index of the first
\* global symbol ("sh_info points to the index of the first global symbol").
HeadersDescribeContents ==
    /\ \A s \in Sections : size[s] = ContentBytes(s)
    /\ info = Len(locals)

\* In the file, the sections with contents lie where their headers say, each
\* with the bytes its header says, one after the other from the headers' end
\* to the end of the buffer; a section left out is empty.
FileTiled ==
    phase = "done" =>
        /\ \A s \in Sections : size[s] # 0 =>
              \E i \in DOMAIN written : written[i].section = s
        /\ \A i \in DOMAIN written :
              LET w == written[i] IN
              /\ w.start = offset[w.section]
              /\ w.bytes = size[w.section]
              /\ w.start = IF i = 1 THEN HeadersEnd
                           ELSE written[i - 1].start + written[i - 1].bytes
              /\ i = Len(written) => w.start + w.bytes = bufferSize
==============================================================================
