------------------------------- MODULE RegGen -------------------------------
(***************************************************************************)
(* research/pm4/cmd/reg-gen: the tables of research/internal/pm4/regmap.go *)
(* out of Mesa's register descriptions.  One step reads one element of a   *)
(* file, or writes one table.                                              *)
(*                                                                         *)
(* A file that is missing, or breaks off, counts as far as it can be read. *)
(* Text is kept to what the tables tell apart: a register is a name and,   *)
(* of an array, an index; an array's own name is all that tells its block. *)
(***************************************************************************)
EXTENDS RegXml, Naturals, SequencesExt

CONSTANTS
    RegisterFiles,   \* a6xx.xml: sequences of Reg, Nested and Array
    PacketFiles,     \* adreno_pm4.xml: sequences of Enum, Value and EndEnum
    EnumFiles,       \* a8xx_enums.xml: the same
    Block            \* the prefix of every name

\* Files are what an XML decoder reads of them: an enum ends after it begins,
\* and, as Mesa's schema has it, contains no other.
ASSUME RegGenAssumption ==
    /\ RegisterFiles \subseteq
            Seq([tag : {"reg", "nested", "array"}, name : DOMAIN Block, offset : Nat,
                 gen8 : BOOLEAN, length : Nat, stride : Nat])
    /\ \A file \in RegisterFiles : \A n \in DOMAIN file :
            file[n].tag # "array" => file[n].length = 1 /\ file[n].stride = 1
    /\ PacketFiles \union EnumFiles \subseteq
            Seq([tag : {"enum", "value", "end"}, name : STRING, value : Nat])
    /\ \A file \in PacketFiles \union EnumFiles : \A n \in DOMAIN file :
            /\ file[n].tag = "enum" => file[n].value = 0
            /\ LET open(m) == file[m].tag = "enum" /\ \A l \in m .. n - 1 : file[l].tag # "end"
               IN  /\ file[n].tag = "enum" => \A m \in 1 .. n - 1 : ~open(m)
                   /\ file[n].tag = "end" => \E m \in 1 .. n - 1 : open(m)

VARIABLES
    xml,         \* input: the files
    k,           \* elements read of the file that is read
    step,
    regs,        \* RegisterDefs, [name, offset, gen8]
    inType3,     \* of parsePM4File
    opcodes,
    inTarget,    \* of parseEnumFile
    depth,
    enums,
    RegNameByOffset, RegOffsetByName, IsA8XXRegister, RegistersByBlock,
    RegisteredPM4Type3Opcodes, A8XXStatetypeIDs

parsed == <<regs, inType3, opcodes, inTarget, depth, enums>>
tables == <<RegNameByOffset, RegOffsetByName, IsA8XXRegister, RegistersByBlock,
            RegisteredPM4Type3Opcodes, A8XXStatetypeIDs>>
regGenVars == <<xml, k, step, parsed, tables>>

RegGenInit ==
    /\ xml \in [regs : RegisterFiles, packets : PacketFiles, enums : EnumFiles]
    /\ k = 0
    /\ step = "regs"
    /\ regs = <<>>
    /\ inType3 = FALSE
    /\ opcodes = <<>>
    /\ inTarget = FALSE
    /\ depth = 0
    /\ enums = <<>>
    /\ RegNameByOffset = <<>>
    /\ RegOffsetByName = <<>>
    /\ IsA8XXRegister = {}
    /\ RegistersByBlock = <<>>
    /\ RegisteredPM4Type3Opcodes = <<>>
    /\ A8XXStatetypeIDs = <<>>

-----------------------------------------------------------------------------
(* Reading *)

Def(name, offset, gen8) == [name |-> name, offset |-> offset, gen8 |-> gen8]

\* A register is taken at its offset, nested or not; offset 0 counts as none.
\* An array is taken for one register per offset, without its stride.
Defs(e) ==
    IF e.tag = "array"
    THEN [n \in 1 .. e.length |-> Def(<<e.name, n - 1>>, e.offset + n - 1, e.gen8)]
    ELSE IF e.offset # 0 THEN <<Def(<<e.name>>, e.offset, e.gen8)>> ELSE <<>>

Reading(file) == step = file /\ k < Len(xml[file]) /\ k' = k + 1
Element == xml[step][k + 1]

ParseA6xxRegister ==
    /\ Reading("regs")
    /\ regs' = regs \o Defs(Element)
    /\ UNCHANGED <<xml, step, inType3, opcodes, inTarget, depth, enums, tables>>

\* The end of any enum ends the one looked for.
ParsePM4 ==
    /\ Reading("packets")
    /\ inType3' = CASE Element.tag = "enum"  -> inType3 \/ Element.name = "adreno_pm4_type3_packets"
                    [] Element.tag = "end"   -> FALSE
                    [] Element.tag = "value" -> inType3
    /\ opcodes' = IF inType3 /\ Element.tag = "value" THEN Append(opcodes, Element) ELSE opcodes
    /\ UNCHANGED <<xml, step, regs, inTarget, depth, enums, tables>>

ParseEnum ==
    /\ Reading("enums")
    /\ depth' = CASE Element.tag = "enum"  -> depth + 1
                  [] Element.tag = "end"   -> depth - 1
                  [] Element.tag = "value" -> depth
    /\ inTarget' = CASE Element.tag = "enum"  -> inTarget \/ (depth = 0 /\ Element.name = "a8xx_statetype_id")
                     [] Element.tag = "end"   -> inTarget /\ depth' # 0
                     [] Element.tag = "value" -> inTarget
    /\ enums' = IF inTarget /\ Element.tag = "value" THEN Append(enums, Element) ELSE enums
    /\ UNCHANGED <<xml, step, regs, inType3, opcodes, tables>>

NextFile ==
    /\ step \in DOMAIN xml
    /\ k = Len(xml[step])
    /\ k' = 0
    /\ step' = CASE step = "regs" -> "packets" [] step = "packets" -> "enums" [] step = "enums" -> "names"
    /\ UNCHANGED <<xml, parsed, tables>>

-----------------------------------------------------------------------------
(* Writing.  sort.Slice is not stable: of registers with one offset, or of   *)
(* one name, any may come first, and the first is written.                   *)

Offsets(rs) == {r.offset : r \in rs}
Names(rs)   == {r.name : r \in rs}

WriteRegNameMap ==
    /\ step = "names"
    /\ RegNameByOffset' \in
        {f \in [Offsets(ToSet(regs)) -> Names(ToSet(regs))] :
            \A o \in DOMAIN f : \E r \in ToSet(regs) : r.offset = o /\ r.name = f[o]}
    /\ step' = "offsets"
    /\ UNCHANGED <<xml, k, parsed, RegOffsetByName, IsA8XXRegister, RegistersByBlock,
                   RegisteredPM4Type3Opcodes, A8XXStatetypeIDs>>

WriteRegOffsetMap ==
    /\ step = "offsets"
    /\ RegOffsetByName' \in
        {f \in [Names(ToSet(regs)) -> Offsets(ToSet(regs))] :
            \A n \in DOMAIN f : \E r \in ToSet(regs) : r.name = n /\ r.offset = f[n]}
    /\ step' = "gen8"
    /\ UNCHANGED <<xml, k, parsed, RegNameByOffset, IsA8XXRegister, RegistersByBlock,
                   RegisteredPM4Type3Opcodes, A8XXStatetypeIDs>>

\* Mutant: an offset that is there already is passed over, gen8 or not.
WriteA8XXFirst ==
    /\ step = "gen8"
    /\ IsA8XXRegister' = {regs[n].offset : n \in {n \in DOMAIN regs :
                             regs[n].gen8 /\ \A m \in 1 .. n - 1 : regs[m].offset # regs[n].offset}}
    /\ step' = "blocks"
    /\ UNCHANGED <<xml, k, parsed, RegNameByOffset, RegOffsetByName, RegistersByBlock,
                   RegisteredPM4Type3Opcodes, A8XXStatetypeIDs>>

WriteA8XXRegMap ==
    /\ step = "gen8"
    /\ IsA8XXRegister' = Offsets({r \in ToSet(regs) : r.gen8})
    /\ step' = "blocks"
    /\ UNCHANGED <<xml, k, parsed, RegNameByOffset, RegOffsetByName, RegistersByBlock,
                   RegisteredPM4Type3Opcodes, A8XXStatetypeIDs>>

InBlock(b) == Offsets({r \in ToSet(regs) : Block[r.name[1]] = b}) \ {0}

\* Blocks without an offset are left out; so are arrays' elements at 0.
WriteRegByPrefix ==
    /\ step = "blocks"
    /\ LET named == {b \in {Block[r.name[1]] : r \in ToSet(regs)} : InBlock(b) # {}}
       IN  RegistersByBlock' = [b \in named |-> InBlock(b)]
    /\ step' = "opcodes"
    /\ UNCHANGED <<xml, k, parsed, RegNameByOffset, RegOffsetByName, IsA8XXRegister,
                   RegisteredPM4Type3Opcodes, A8XXStatetypeIDs>>

\* The first name of a value, in the order of the file.
FirstNames(values) ==
    [v \in {e.value : e \in ToSet(values)} |->
        values[SelectInSeq(values, LAMBDA e : e.value = v)].name]

WritePM4OpcodeMap ==
    /\ step = "opcodes"
    /\ RegisteredPM4Type3Opcodes' = FirstNames(opcodes)
    /\ step' = "statetypes"
    /\ UNCHANGED <<xml, k, parsed, RegNameByOffset, RegOffsetByName, IsA8XXRegister,
                   RegistersByBlock, A8XXStatetypeIDs>>

\* Every value of the enum is written, once each as long as no two are equal:
\* the Go compiler refuses a key that is there twice.
WriteStatetypeIDs ==
    /\ step = "statetypes"
    /\ A8XXStatetypeIDs' = FirstNames(enums)
    /\ step' = IF Cardinality({e.value : e \in ToSet(enums)}) = Len(enums) THEN "done" ELSE "rejected"
    /\ UNCHANGED <<xml, k, parsed, RegNameByOffset, RegOffsetByName, IsA8XXRegister,
                   RegistersByBlock, RegisteredPM4Type3Opcodes>>

\* The tables are there: any other state without a step is a deadlock.
RegGenTerminated == step \in {"done", "rejected"} /\ UNCHANGED regGenVars

RegGenNext ==
    \/ ParseA6xxRegister \/ ParsePM4 \/ ParseEnum \/ NextFile
    \/ WriteRegNameMap \/ WriteRegOffsetMap \/ WriteA8XXRegMap \/ WriteRegByPrefix
    \/ WritePM4OpcodeMap \/ WriteStatetypeIDs
    \/ RegGenTerminated

RegGenSpec == RegGenInit /\ [][RegGenNext]_regGenVars

-----------------------------------------------------------------------------
(* Properties *)

RegGenTypeOK ==
    /\ step \in DOMAIN xml \union
              {"names", "offsets", "gen8", "blocks", "opcodes", "statetypes", "done", "rejected"}
    /\ step \in DOMAIN xml => k \in 0 .. Len(xml[step])
    /\ \A r \in ToSet(regs) : r.name[1] \in DOMAIN Block /\ r.offset \in Nat /\ r.gen8 \in BOOLEAN
    /\ depth \in Nat
    /\ inTarget => depth > 0

\* The registers an element describes, with their addresses.
Described(e) ==
    IF e.tag = "array"
    THEN {Def(<<e.name, n>>, e.offset + n * e.stride, e.gen8) : n \in 0 .. e.length - 1}
    ELSE {Def(<<e.name>>, e.offset, e.gen8)}

\* The elements reg-gen reads for what they are.
Plain == {e \in ToSet(xml.regs) : e.tag # "nested" /\ e.stride = 1}

\* Less the register at 0, which counts as one without an offset.
Addresses == {r \in UNION {Described(e) : e \in Plain} : r.offset # 0 \/ Len(r.name) = 2}

\* The entries the other elements cause.
Misread == UNION {ToSet(Defs(e)) : e \in ToSet(xml.regs) \ Plain}

\* Every register that is described at the top level is in every table it
\* belongs to, and entries that are no register's address come from nested
\* registers and from strides (regmap.go:14 to 18 are such); the two tables of
\* names contradict each other only in a name with several offsets.
RegistersAreTrue ==
    /\ \A r \in Addresses :
        /\ r.offset \in DOMAIN RegNameByOffset
        /\ r.name \in DOMAIN RegOffsetByName
        /\ r.gen8 => r.offset \in IsA8XXRegister
        /\ r.offset # 0 => r.offset \in RegistersByBlock[Block[r.name[1]]]
    /\ \A o \in DOMAIN RegNameByOffset :
        /\ \E r \in Addresses \union Misread : r.offset = o /\ r.name = RegNameByOffset[o]
        /\ \/ RegOffsetByName[RegNameByOffset[o]] = o
           \/ \E r, s \in Addresses \union Misread : r.name = s.name /\ r.offset # s.offset
    /\ IsA8XXRegister = Offsets({r \in Addresses \union Misread : r.gen8})
    /\ \A b \in DOMAIN RegistersByBlock :
        RegistersByBlock[b] = {r.offset : r \in {r \in Addresses \union Misread :
                                                     Block[r.name[1]] = b}} \ {0}

\* Where the values of the enum of a name are: after its tag, with no end
\* between.
ValuesOf(file, name) ==
    {n \in DOMAIN file :
        /\ file[n].tag = "value"
        /\ \E m \in 1 .. n - 1 : file[m] = Enum(name) /\ \A l \in m .. n : file[l].tag # "end"}

\* The opcodes and the state types are those of their enum alone, the first
\* of two names of a value, as far as the file can be read.
EnumsAreTrue ==
    LET named(table, file, name) ==
            /\ DOMAIN table = {file[n].value : n \in ValuesOf(file, name)}
            /\ \A v \in DOMAIN table : \E n \in ValuesOf(file, name) :
                /\ file[n] = Value(table[v], v)
                /\ \A m \in ValuesOf(file, name) : file[m].value = v => n <= m
    IN  /\ named(RegisteredPM4Type3Opcodes, xml.packets, "adreno_pm4_type3_packets")
        /\ named(A8XXStatetypeIDs, xml.enums, "a8xx_statetype_id")

\* The tables that come out, if they compile, are those of the files.
TablesAreTrue == step = "done" => RegistersAreTrue /\ EnumsAreTrue
=============================================================================
