---------------------------- MODULE PatternCache ----------------------------
(***************************************************************************)
(* The structural pattern cache of fexcore/patches/0001: during a warmup,  *)
(* the ARM64 code emitted for each IR op is captured as a template; after  *)
(* it, an op whose hash has a template gets a copy with the registers      *)
(* patched, and the emitter is not asked.                                  *)
(*                                                                         *)
(* The emitter is external: an IR op comes with the code it would emit.    *)
(* An instruction is its four five-bit fields at bits 0, 5, 10 and 16,     *)
(* which hold registers or other bits, and the rest of its bits.  Every    *)
(* JIT core has a cache of its own, so nothing is shared between threads.  *)
(***************************************************************************)
EXTENDS Integers, Sequences

CONSTANTS
    Kinds,       \* op, size and element: what MakePatternHash reads of an IR op
    Ops,         \* IR ops, each with the code of its emitter
    Opcodes,     \* the bits of an instruction outside its fields
    MaxEntries,  \* PatternCache::MaxEntries
    MaxRegArgs,  \* PatternTemplate::MaxRegArgs
    MaxSize,     \* the bytes of a template, in instructions
    Warmups,     \* what FEXCORE_PATTERN_WARMUP may say, the default included
    MaxSteady,   \* bound: ops compiled after the warmup
    None         \* no template

Reg  == 0 .. 31
Insn == [bits : Opcodes, fields : [1 .. 4 -> Reg]]

\* dst and args are the registers of the op; ra is IR::GetRAArgs of its opcode.
ASSUME PatternAssumption ==
    /\ Ops \subseteq [kind : Kinds, dst : Reg, args : Seq(Reg), ra : Nat, code : Seq(Insn)]
    /\ \A o \in Ops : o.ra <= Len(o.args) + 1
    /\ \A o, c \in Ops : o.kind.op = c.kind.op => o.ra = c.ra
    /\ MaxEntries \in Nat
    /\ MaxRegArgs \in Nat
    /\ MaxSize \in Nat
    /\ Warmups \subseteq Nat
    /\ MaxSteady \in Nat
    /\ None \notin Ops

VARIABLES
    warmup,      \* WarmupRemaining
    table,       \* Table, up to Count
    hits, misses,
    seen,        \* ghost: the last op captured of each kind
    out          \* ghost: the op just compiled, the code put out for it, and the
                 \* op whose template was copied

vars == <<warmup, table, hits, misses, seen, out>>

-----------------------------------------------------------------------------
(* Templates *)

\* MakePatternHash keeps apart all it reads: the opcode, the size and the element
\* size go to bits that do not overlap, and no other bit of the op is in the hash.
MakePatternHash(kind) == kind

\* The registers the hooks read, at capture and at replay: the destination and
\* then the arguments, GetRAArgs registers in all.
HookRegs(o) ==
    IF o.ra \in 1 .. MaxRegArgs THEN SubSeq(<<o.dst>> \o o.args, 1, o.ra) ELSE <<>>

\* What is captured of an op, with the op itself as a ghost.
Template(o) ==
    [hash |-> MakePatternHash(o.kind), code |-> o.code, regs |-> HookRegs(o), of |-> o]

\* Mutant: only the first two fields of an instruction are looked at.
PatchLowFields(code, old, new) ==
    [k \in DOMAIN code |->
        [code[k] EXCEPT !.fields =
            [s \in 1 .. 4 |-> IF s <= 2 /\ @[s] = old THEN new ELSE @[s]]]]

\* One turn of the loop over the captured registers: every field of every
\* instruction that holds the old register gets the new one.
PatchRegister(code, old, new) ==
    [k \in DOMAIN code |->
        [code[k] EXCEPT !.fields =
            [s \in 1 .. 4 |-> IF @[s] = old THEN new ELSE @[s]]]]

\* PatchTemplateRegisters: one register after the other, in place.
PatchTemplateRegisters(t, new) ==
    LET patched[n \in 0 .. Len(t.regs)] ==
            IF n = 0 THEN t.code
            ELSE PatchRegister(patched[n - 1], t.regs[n], new[n])
    IN  patched[Len(t.regs)]

-----------------------------------------------------------------------------
(* The table *)

Entries(hash) == {i \in DOMAIN table : table[i].hash = hash}

\* The place of the hash; there is at most one.
Place(hash) == CHOOSE i \in Entries(hash) : TRUE

\* Mutant: a template once there is kept.
InsertOnce(t) ==
    table' = IF Entries(t.hash) = {} /\ Len(table) < MaxEntries
             THEN Append(table, t) ELSE table

\* Mutant: off by one at the limit.
InsertBeyond(t) ==
    table' = IF Entries(t.hash) # {} THEN [table EXCEPT ![Place(t.hash)] = t]
             ELSE IF Len(table) <= MaxEntries THEN Append(table, t)
             ELSE table

\* Insert: replace the template of the hash, or append while there is room.
Insert(t) ==
    table' = IF Entries(t.hash) # {} THEN [table EXCEPT ![Place(t.hash)] = t]
             ELSE IF Len(table) < MaxEntries THEN Append(table, t)
             ELSE table

Lookup(hash) == table[Place(hash)]

-----------------------------------------------------------------------------
(* One turn of the loop of CompileCode *)

Init ==
    /\ warmup \in Warmups
    /\ table = <<>>
    /\ hits = 0
    /\ misses = 0
    /\ seen = [k \in Kinds |-> None]
    /\ out = None

Emitted(o)   == [op |-> o, code |-> o.code, from |-> None]
Cacheable(o) == Len(o.code) \in 1 .. MaxSize

\* During the warmup the op is emitted, captured if its code is neither empty
\* nor too long, and counted either way.
EmitAndCapture(o) ==
    /\ warmup > 0
    /\ warmup' = warmup - 1
    /\ out' = Emitted(o)
    /\ \/ /\ Cacheable(o)
          /\ Insert(Template(o))
          /\ seen' = [seen EXCEPT ![o.kind] = o]
       \/ /\ ~Cacheable(o)
          /\ UNCHANGED <<table, seen>>
    /\ UNCHANGED <<hits, misses>>

\* After it, a hit copies the template and skips the emitter.
Copy(o) ==
    LET hash == MakePatternHash(o.kind) IN
    /\ warmup = 0
    /\ Entries(hash) # {}
    /\ out' = [op |-> o, code |-> PatchTemplateRegisters(Lookup(hash), HookRegs(o)),
               from |-> Lookup(hash).of]
    /\ hits + misses < MaxSteady
    /\ hits' = hits + 1
    /\ UNCHANGED <<warmup, table, misses, seen>>

\* A miss is emitted and not captured.
Miss(o) ==
    /\ warmup = 0
    /\ Entries(MakePatternHash(o.kind)) = {}
    /\ out' = Emitted(o)
    /\ hits + misses < MaxSteady
    /\ misses' = misses + 1
    /\ UNCHANGED <<warmup, table, hits, seen>>

Next == \E o \in Ops : EmitAndCapture(o) \/ Copy(o) \/ Miss(o)

Spec == Init /\ [][Next]_vars

-----------------------------------------------------------------------------
(* Properties *)

\* The table stays inside its array, and a template inside its bytes and its
\* register slots, at the limits of both.
TypeOK ==
    /\ warmup \in Nat
    /\ hits \in 0 .. MaxSteady
    /\ misses \in 0 .. MaxSteady
    /\ table \in Seq({Template(o) : o \in Ops})
    /\ Len(table) <= MaxEntries
    /\ \A i \in DOMAIN table : Cacheable(table[i].of)
    /\ seen \in [Kinds -> Ops \union {None}]
    /\ out = None \/ (out.op \in Ops /\ out.from \in Ops \union {None})

\* The table has one template for a kind of op, the one captured last; a kind
\* that was captured and has none came when the table was full, and the table
\* never gets room again.
TableIsMemory ==
    /\ \A i \in DOMAIN table : table[i].of = seen[table[i].of.kind]
    /\ \A i, j \in DOMAIN table : table[i].hash = table[j].hash => i = j
    /\ \A k \in Kinds :
          (seen[k] # None /\ \A i \in DOMAIN table : table[i].of.kind # k)
             => Len(table) = MaxEntries

\* The emitter's code for o is that for c with the registers the hooks know
\* renamed, all at once, and no new register is a later old one.
Renames(c, o) ==
    LET old == HookRegs(c)
        new == HookRegs(o)
        Renamed(x) == {new[i] : i \in {n \in DOMAIN old : old[n] = x}}
    IN  /\ DOMAIN o.code = DOMAIN c.code
        /\ \A k \in DOMAIN o.code :
              /\ o.code[k].bits = c.code[k].bits
              /\ \A s \in 1 .. 4 :
                    LET x == c.code[k].fields[s] IN
                    IF Renamed(x) = {} THEN o.code[k].fields[s] = x
                    ELSE Renamed(x) = {o.code[k].fields[s]}
        /\ \A i, j \in DOMAIN old : i < j /\ new[i] = old[j] => new[j] = new[i]

\* The code put out is the emitter's own, or a copy for an op of the same kind,
\* which is right whenever it is a renaming that patching in place can do.
CodeIsEmission ==
    out # None =>
        \/ out.from = None /\ out.code = out.op.code
        \/ /\ out.from # None
           /\ out.from.kind = out.op.kind
           /\ Renames(out.from, out.op) => out.code = out.op.code
=============================================================================
