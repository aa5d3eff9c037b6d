------------------------- MODULE PatternCacheProofs -------------------------
(***************************************************************************)
(* Proofs about the pattern cache (fexcore/patches/0001), its table and    *)
(* the code it puts out, for any ops, any limits and any warmup.           *)
(***************************************************************************)
EXTENDS PatternCache, SequenceTheorems, Induction, TLAPS

Templates == {Template(o) : o \in Ops}

\* What is known of a table of templates and of the place of a hash in it.
LEMMA TableFacts ==
  ASSUME table \in Seq(Templates)
  PROVE  /\ Len(table) \in Nat
         /\ DOMAIN table = 1 .. Len(table)
         /\ \A i \in DOMAIN table :
               table[i].of \in Ops /\ table[i] = Template(table[i].of)
                 /\ table[i].hash = table[i].of.kind
         /\ \A h : Entries(h) # {} => Place(h) \in DOMAIN table /\ table[Place(h)].hash = h
<1>1. /\ Len(table) \in Nat
      /\ DOMAIN table = 1 .. Len(table)
      /\ \A i \in DOMAIN table : table[i] \in Templates
  BY LenProperties, ElementOfSeq
<1>2. ASSUME NEW t \in Templates
      PROVE  t.of \in Ops /\ t = Template(t.of) /\ t.hash = t.of.kind
  BY DEF Templates, Template, MakePatternHash
<1>3. ASSUME NEW h, Entries(h) # {} PROVE Place(h) \in Entries(h)
  BY <1>3 DEF Place
<1>4. QED BY <1>1, <1>2, <1>3 DEF Entries

\* The three outcomes of an insertion: the place of the hash is overwritten, a
\* place is added at the end, or the table is full.
LEMMA InsertCases ==
  ASSUME table \in Seq(Templates), NEW o \in Ops, Insert(Template(o))
  PROVE  /\ table' \in Seq(Templates)
         /\ \/ /\ Entries(o.kind) # {}
               /\ Len(table') = Len(table)
               /\ \A i \in 1 .. Len(table) :
                     table'[i] = IF i = Place(o.kind) THEN Template(o) ELSE table[i]
            \/ /\ Entries(o.kind) = {}
               /\ Len(table) < MaxEntries
               /\ Len(table') = Len(table) + 1
               /\ table'[Len(table) + 1] = Template(o)
               /\ \A i \in 1 .. Len(table) : table'[i] = table[i]
            \/ /\ Entries(o.kind) = {}
               /\ ~(Len(table) < MaxEntries)
               /\ table' = table
<1> DEFINE t == Template(o)
<1>1. t \in Templates /\ t.hash = o.kind
  BY DEF Templates, Template, MakePatternHash
<1> HIDE DEF t
<1>2. CASE Entries(o.kind) # {}
  <2>1. table' = [table EXCEPT ![Place(o.kind)] = t] /\ Place(o.kind) \in 1 .. Len(table)
    BY <1>1, <1>2, TableFacts DEF Insert, t
  <2>2. QED BY <1>1, <1>2, <2>1, ExceptSeq DEF t
<1>3. CASE Entries(o.kind) = {} /\ Len(table) < MaxEntries
  <2>1. table' = Append(table, t)
    BY <1>1, <1>3 DEF Insert, t
  <2>2. QED BY <1>1, <1>3, <2>1, AppendProperties DEF t
<1>4. CASE Entries(o.kind) = {} /\ ~(Len(table) < MaxEntries)
  BY <1>1, <1>4 DEF Insert, t
<1>5. QED BY <1>2, <1>3, <1>4

-----------------------------------------------------------------------------
(* Types *)

\* The table never outgrows its array, whatever is compiled in the warmup.
THEOREM PatternTypeCorrect == Spec => []TypeOK
<1> USE PatternAssumption DEF PatternAssumption
<1>1. Init => TypeOK
  <2>1. Len(<<>>) = 0 /\ <<>> \in Seq(Templates) /\ DOMAIN <<>> = {}
    BY EmptySeq
  <2>2. QED BY <2>1 DEF Init, TypeOK, Templates
<1>2. TypeOK /\ [Next]_vars => TypeOK'
  <2> SUFFICES ASSUME TypeOK, [Next]_vars PROVE TypeOK'
    OBVIOUS
  <2>1. table \in Seq(Templates)
    BY DEF TypeOK, Templates
  <2>2. ASSUME NEW o \in Ops, EmitAndCapture(o) PROVE TypeOK'
    <3>1. CASE ~Cacheable(o)
      BY <2>2, <3>1 DEF EmitAndCapture, TypeOK, Emitted
    <3>2. CASE Cacheable(o)
      <4>1. Insert(Template(o)) /\ seen' = [seen EXCEPT ![o.kind] = o]
        BY <2>2, <3>2 DEF EmitAndCapture
      <4>2. table' \in Seq(Templates) /\ Len(table') <= MaxEntries
        BY <2>1, <4>1, InsertCases, TableFacts DEF TypeOK
      <4>3. \A i \in DOMAIN table' : Cacheable(table'[i].of)
        <5>1. Template(o).of = o
          BY DEF Template
        <5>2. DOMAIN table' = 1 .. Len(table')
          BY <4>2, LenProperties
        <5>3. \A i \in 1 .. Len(table) : Cacheable(table[i].of)
          BY <2>1, TableFacts DEF TypeOK
        <5>4. ASSUME NEW i \in 1 .. Len(table')
              PROVE  table'[i] = Template(o) \/ (i \in 1 .. Len(table) /\ table'[i] = table[i])
          BY <2>1, <4>1, InsertCases, TableFacts
        <5>5. QED BY <3>2, <5>1, <5>2, <5>3, <5>4
      <4>4. seen' \in [Kinds -> Ops \union {None}]
        BY <4>1 DEF TypeOK
      <4>5. QED BY <2>2, <4>2, <4>3, <4>4 DEF EmitAndCapture, TypeOK, Emitted, Templates
    <3>3. QED BY <3>1, <3>2
  <2>3. ASSUME NEW o \in Ops, Copy(o) PROVE TypeOK'
    <3>1. Lookup(MakePatternHash(o.kind)).of \in Ops
      BY <2>1, <2>3, TableFacts DEF Copy, Lookup
    <3>2. out'.op \in Ops /\ out'.from \in Ops
      BY <2>3, <3>1 DEF Copy
    <3>3. QED BY <2>3, <3>2 DEF Copy, TypeOK
  <2>4. ASSUME NEW o \in Ops, Miss(o) PROVE TypeOK'
    BY <2>4 DEF Miss, TypeOK, Emitted
  <2>5. CASE UNCHANGED vars
    BY <2>5 DEF vars, TypeOK
  <2>6. QED BY <2>2, <2>3, <2>4, <2>5 DEF Next
<1>3. QED BY <1>1, <1>2, PTL DEF Spec

-----------------------------------------------------------------------------
(* The table *)

\* Capturing an op keeps one template per kind, the last one captured.
LEMMA CaptureRemembers ==
  ASSUME TypeOK, TableIsMemory, NEW o \in Ops, Insert(Template(o)),
         seen' = [seen EXCEPT ![o.kind] = o]
  PROVE  TableIsMemory'
<1>1. table \in Seq(Templates) /\ seen \in [Kinds -> Ops \union {None}] /\ o.kind \in Kinds
  BY PatternAssumption DEF PatternAssumption, TypeOK, Templates
<1>2. Template(o).of = o /\ Template(o).hash = o.kind
  BY DEF Template, MakePatternHash
<1>3. DOMAIN table = 1 .. Len(table) /\ DOMAIN table' = 1 .. Len(table') /\ Len(table) \in Nat
  BY <1>1, InsertCases, LenProperties
<1> DEFINE n == Len(table)
<1>4. n \in Nat /\ MaxEntries \in Nat /\ n <= MaxEntries
  BY <1>3, PatternAssumption DEF PatternAssumption, TypeOK
<1>5. \A i \in DOMAIN table : table[i].hash = table[i].of.kind
  BY <1>1, TableFacts
<1>6. CASE Entries(o.kind) # {}
  <2>1. /\ Len(table') = Len(table)
        /\ \A i \in 1 .. Len(table) :
              table'[i] = IF i = Place(o.kind) THEN Template(o) ELSE table[i]
    BY <1>1, <1>6, InsertCases
  <2>2. Place(o.kind) \in DOMAIN table /\ table[Place(o.kind)].hash = o.kind
    BY <1>1, <1>6, TableFacts
  <2> DEFINE p == Place(o.kind)
  <2>3. DOMAIN table' = DOMAIN table /\ p \in DOMAIN table
    BY <1>3, <2>1, <2>2
  <2>4. \A i \in DOMAIN table' :
           /\ i = p => table'[i].of = o /\ table'[i].hash = o.kind
           /\ i # p => table'[i] = table[i] /\ table[i].hash # o.kind /\ table[i].of.kind # o.kind
    BY <1>2, <1>3, <1>5, <2>1, <2>2, <2>3 DEF TableIsMemory
  <2> HIDE DEF p
  <2>5. \A i \in DOMAIN table' : table'[i].of = seen'[table'[i].of.kind]
    <3> SUFFICES ASSUME NEW i \in DOMAIN table'
                 PROVE  table'[i].of = seen'[table'[i].of.kind]
      OBVIOUS
    <3>1. CASE i = p
      BY <1>1, <2>4, <3>1
    <3>2. CASE i # p
      <4>1. table'[i] = table[i] /\ table[i].of.kind # o.kind
        BY <2>4, <3>2
      <4>2. table[i].of = seen[table[i].of.kind]
        BY <2>3 DEF TableIsMemory
      <4>3. seen'[table[i].of.kind] = seen[table[i].of.kind]
        BY <1>1, <4>1
      <4>4. QED BY <4>1, <4>2, <4>3
    <3>3. QED BY <3>1, <3>2
  <2>6. \A i, j \in DOMAIN table' : table'[i].hash = table'[j].hash => i = j
    <3>1. \A i, j \in DOMAIN table : table[i].hash = table[j].hash => i = j
      BY DEF TableIsMemory
    <3> SUFFICES ASSUME NEW i \in DOMAIN table', NEW j \in DOMAIN table',
                        table'[i].hash = table'[j].hash
                 PROVE  i = j
      OBVIOUS
    <3>2. CASE i = p /\ j # p
      BY <2>4, <3>2
    <3>3. CASE i # p /\ j = p
      BY <2>4, <3>3
    <3>4. CASE i # p /\ j # p
      <4>1. table[i].hash = table[j].hash
        BY <2>4, <3>4
      <4>2. QED BY <2>3, <3>1, <4>1
    <3>5. QED BY <3>2, <3>3, <3>4
  <2>7. ASSUME NEW k \in Kinds, seen'[k] # None,
               \A i \in DOMAIN table' : table'[i].of.kind # k
        PROVE  Len(table') = MaxEntries
    <3>1. k # o.kind
      BY <2>3, <2>4, <2>7
    <3>2. seen'[k] = seen[k]
      BY <1>1, <3>1
    <3>3. table[p].of.kind # k
      BY <1>5, <2>2, <2>3, <3>1 DEF p
    <3>4. \A i \in DOMAIN table : table[i].of.kind # k
      BY <2>3, <2>4, <2>7, <3>3
    <3>5. QED BY <2>1, <2>7, <3>2, <3>4 DEF TableIsMemory
  <2>8. QED BY <2>5, <2>6, <2>7 DEF TableIsMemory
<1>7. CASE Entries(o.kind) = {}
  <2>1. \A i \in DOMAIN table : table[i].of.kind # o.kind
    BY <1>5, <1>7 DEF Entries
  <2>2. CASE Len(table) < MaxEntries
    <3>1. /\ Len(table') = Len(table) + 1
          /\ table'[Len(table) + 1] = Template(o)
          /\ \A i \in 1 .. Len(table) : table'[i] = table[i]
      BY <1>1, <1>7, <2>2, InsertCases
    <3>2. \A i \in DOMAIN table' :
             \/ i \in DOMAIN table /\ table'[i] = table[i]
             \/ i = Len(table) + 1 /\ table'[i].of = o /\ table'[i].hash = o.kind
      BY <1>2, <1>3, <3>1
    <3>3. DOMAIN table \subseteq DOMAIN table' /\ Len(table) + 1 \in DOMAIN table'
      BY <1>3, <3>1
    <3>4. \A i \in DOMAIN table' : table'[i].of = seen'[table'[i].of.kind]
      <4> SUFFICES ASSUME NEW i \in DOMAIN table'
                   PROVE  table'[i].of = seen'[table'[i].of.kind]
        OBVIOUS
      <4>1. CASE table'[i].of = o
        BY <1>1, <4>1
      <4>2. CASE i \in DOMAIN table /\ table'[i] = table[i]
        <5>1. table[i].of.kind # o.kind /\ table[i].of = seen[table[i].of.kind]
          BY <2>1, <4>2 DEF TableIsMemory
        <5>2. seen'[table[i].of.kind] = seen[table[i].of.kind]
          BY <1>1, <5>1
        <5>3. QED BY <4>2, <5>1, <5>2
      <4>3. QED BY <3>2, <4>1, <4>2
    <3>5. \A i, j \in DOMAIN table' : table'[i].hash = table'[j].hash => i = j
      <4>1. \A i \in DOMAIN table : table[i].hash # o.kind
        BY <1>7 DEF Entries
      <4>2. \A i, j \in DOMAIN table : table[i].hash = table[j].hash => i = j
        BY DEF TableIsMemory
      <4>3. QED BY <3>2, <4>1, <4>2
    <3>6. ASSUME NEW k \in Kinds, seen'[k] # None,
                 \A i \in DOMAIN table' : table'[i].of.kind # k
          PROVE  Len(table') = MaxEntries
      <4>1. k # o.kind
        BY <1>2, <3>1, <3>3, <3>6
      <4>2. seen[k] # None
        BY <1>1, <3>6, <4>1
      <4>3. \A i \in DOMAIN table : table[i].of.kind # k
        BY <1>3, <3>1, <3>3, <3>6
      <4>4. Len(table) = MaxEntries
        BY <4>2, <4>3 DEF TableIsMemory
      <4>5. QED BY <1>4, <2>2, <4>4
    <3>7. QED BY <3>4, <3>5, <3>6 DEF TableIsMemory
  <2>3. CASE ~(Len(table) < MaxEntries)
    <3>1. table' = table
      BY <1>1, <1>7, <2>3, InsertCases
    <3>2. \A i \in DOMAIN table : seen'[table[i].of.kind] = seen[table[i].of.kind]
      <4>1. ASSUME NEW i \in DOMAIN table
            PROVE  seen'[table[i].of.kind] = seen[table[i].of.kind]
        <5>1. table[i].of.kind # o.kind
          BY <2>1
        <5>2. QED BY <1>1, <5>1
      <4>2. QED BY <4>1
    <3>3. Len(table) = MaxEntries
      BY <1>4, <2>3
    <3>4. QED BY <3>1, <3>2, <3>3 DEF TableIsMemory
  <2>4. QED BY <2>2, <2>3
<1>8. QED BY <1>6, <1>7

\* One template per kind, the last captured, unless the table was full.
THEOREM TableRemembers == Spec => []TableIsMemory
<1>1. Init => TableIsMemory
  BY DEF Init, TableIsMemory
<1>2. TypeOK /\ TableIsMemory /\ [Next]_vars => TableIsMemory'
  <2> SUFFICES ASSUME TypeOK, TableIsMemory, [Next]_vars PROVE TableIsMemory'
    OBVIOUS
  <2>1. ASSUME NEW o \in Ops, EmitAndCapture(o) PROVE TableIsMemory'
    <3>1. CASE UNCHANGED <<table, seen>>
      BY <3>1 DEF TableIsMemory
    <3>2. CASE Insert(Template(o)) /\ seen' = [seen EXCEPT ![o.kind] = o]
      BY <3>2, CaptureRemembers
    <3>3. QED BY <2>1, <3>1, <3>2 DEF EmitAndCapture
  <2>2. ASSUME NEW o \in Ops, Copy(o) \/ Miss(o) PROVE TableIsMemory'
    BY <2>2 DEF Copy, Miss, TableIsMemory
  <2>3. CASE UNCHANGED vars
    BY <2>3 DEF vars, TableIsMemory
  <2>4. QED BY <2>1, <2>2, <2>3 DEF Next
<1>3. QED BY <1>1, <1>2, PatternTypeCorrect, PTL DEF Spec
-----------------------------------------------------------------------------
(* The code put out *)

\* The hooks read as many registers of two ops of one kind.
LEMMA HookRegsType ==
  ASSUME NEW c \in Ops, NEW o \in Ops, c.kind = o.kind
  PROVE  /\ HookRegs(c) \in Seq(Reg)
         /\ HookRegs(o) \in Seq(Reg)
         /\ Len(HookRegs(o)) = Len(HookRegs(c))
<1>1. \A p \in Ops : /\ p.dst \in Reg /\ p.args \in Seq(Reg) /\ p.ra \in Nat
                     /\ p.ra <= Len(p.args) + 1
  BY PatternAssumption DEF PatternAssumption
<1>2. c.ra = o.ra
  BY PatternAssumption DEF PatternAssumption
<1>3. MaxRegArgs \in Nat
  BY PatternAssumption DEF PatternAssumption
<1>4. ASSUME NEW p \in Ops
      PROVE  /\ HookRegs(p) \in Seq(Reg)
             /\ Len(HookRegs(p)) = IF p.ra \in 1 .. MaxRegArgs THEN p.ra ELSE 0
  <2>1. CASE p.ra \in 1 .. MaxRegArgs
    <3> DEFINE all == <<p.dst>> \o p.args
    <3>1. all \in Seq(Reg) /\ Len(all) = Len(p.args) + 1 /\ Len(p.args) \in Nat
      BY <1>1
    <3> HIDE DEF all
    <3>2. /\ SubSeq(all, 1, p.ra) \in Seq(Reg)
          /\ Len(SubSeq(all, 1, p.ra)) = p.ra
      <4>1. p.ra \in 1 .. Len(all) /\ p.ra \in Nat
        BY <1>1, <1>3, <2>1, <3>1
      <4>2. \A i \in 1 .. p.ra : i \in 1 .. Len(all) /\ all[i] \in Reg
        BY <3>1, <4>1, ElementOfSeq
      <4>3. QED BY <3>1, <4>1, <4>2, SubSeqProperties
    <3>3. HookRegs(p) = SubSeq(all, 1, p.ra)
      BY <2>1 DEF HookRegs, all
    <3>4. QED BY <2>1, <3>2, <3>3
  <2>2. CASE p.ra \notin 1 .. MaxRegArgs
    BY <2>2 DEF HookRegs
  <2>3. QED BY <2>1, <2>2
<1>5. QED BY <1>2, <1>4

\* Code that is patched in place keeps its shape.
LEMMA PatchType ==
  ASSUME NEW D, NEW code \in [D -> Insn], NEW old \in Reg, NEW new \in Reg
  PROVE  /\ PatchRegister(code, old, new) \in [D -> Insn]
         /\ \A k \in D :
               /\ PatchRegister(code, old, new)[k].bits = code[k].bits
               /\ \A s \in 1 .. 4 :
                     PatchRegister(code, old, new)[k].fields[s] =
                        IF code[k].fields[s] = old THEN new ELSE code[k].fields[s]
<1> DEFINE fields(k) == [s \in 1 .. 4 |-> IF code[k].fields[s] = old THEN new ELSE code[k].fields[s]]
<1>1. \A k \in D : /\ code[k] \in [bits : Opcodes, fields : [1 .. 4 -> Reg]]
                   /\ code[k].fields \in [1 .. 4 -> Reg]
  BY DEF Insn
<1>2. \A k \in D : fields(k) \in [1 .. 4 -> Reg]
  BY <1>1
<1>3. PatchRegister(code, old, new) = [k \in D |-> [code[k] EXCEPT !.fields = fields(k)]]
  BY DEF PatchRegister
<1>4. \A k \in D, s \in 1 .. 4 :
         fields(k)[s] = IF code[k].fields[s] = old THEN new ELSE code[k].fields[s]
  OBVIOUS
<1> HIDE DEF fields
<1>5. \A k \in D : /\ [code[k] EXCEPT !.fields = fields(k)] \in Insn
                   /\ [code[k] EXCEPT !.fields = fields(k)].bits = code[k].bits
                   /\ [code[k] EXCEPT !.fields = fields(k)].fields = fields(k)
  BY <1>1, <1>2 DEF Insn
<1> DEFINE patched == PatchRegister(code, old, new)
<1>6. \A k \in D : patched[k] = [code[k] EXCEPT !.fields = fields(k)]
  BY <1>3
<1>7. patched \in [D -> Insn]
  BY <1>3, <1>5
<1> HIDE DEF patched
<1>8. \A k \in D : patched[k].bits = code[k].bits /\ patched[k].fields = fields(k)
  BY <1>5, <1>6
<1>9. QED BY <1>4, <1>7, <1>8 DEF patched

\* The codes that patching the captured registers of t passes through, one
\* register at a time, from the code captured to what is put out.
PatchTurns(t, new, N, D) ==
  {f \in [0 .. N -> [D -> Insn]] :
      /\ f[0] = t.code
      /\ \A n \in 1 .. N : f[n] = PatchRegister(f[n - 1], t.regs[n], new[n])
      /\ PatchTemplateRegisters(t, new) = f[N]}

\* The recursion of PatchTemplateRegisters has a solution, and one only.
LEMMA PatchSteps ==
  ASSUME NEW D, NEW t, NEW new, NEW N \in Nat, t.code \in [D -> Insn], Len(t.regs) = N,
         \A n \in 1 .. N : t.regs[n] \in Reg /\ new[n] \in Reg
  PROVE  PatchTurns(t, new, N, D) # {}
<1> DEFINE X == [D -> Insn]
           step == [n \in 1 .. N |-> [code \in X |-> PatchRegister(code, t.regs[n], new[n])]]
           Patched(f) == f = [n \in 0 .. N |-> IF n = 0 THEN t.code
                                 ELSE PatchRegister(f[n - 1], t.regs[n], new[n])]
           patched == CHOOSE f : Patched(f)
<1>1. step \in [1 .. N -> [X -> X]]
  <2>1. \A n \in 1 .. N, code \in X : PatchRegister(code, t.regs[n], new[n]) \in X
    BY PatchType
  <2> HIDE DEF X
  <2>2. QED BY <2>1
<1>2. PICK g \in [0 .. N -> X] : IsIteration(g, N, t.code, step)
  <2> HIDE DEF X, step
  <2>1. t.code \in X
    BY DEF X
  <2>2. QED BY <1>1, <2>1, IterationExists
<1>3. \A n \in 1 .. N : g[n] = PatchRegister(g[n - 1], t.regs[n], new[n])
  <2>1. SUFFICES ASSUME NEW n \in 1 .. N
                 PROVE  g[n] = PatchRegister(g[n - 1], t.regs[n], new[n])
    OBVIOUS
  <2>2. g[n] = step[n][g[n - 1]]
    BY <1>2 DEF IsIteration
  <2> HIDE DEF X
  <2>3. g[n - 1] \in X
    <3>1. n - 1 \in 0 .. N
      OBVIOUS
    <3>2. QED BY <1>2, <3>1
  <2>4. QED BY <2>2, <2>3
<1>4. g[0] = t.code
  BY <1>2 DEF IsIteration
<1> HIDE DEF X, step
<1>5. Patched(g)
  <2>1. g = [n \in 0 .. N |-> g[n]]
    BY <1>2
  <2>2. \A n \in 0 .. N : n = 0 \/ (n # 0 /\ n \in 1 .. N)
    OBVIOUS
  <2>3. \A n \in 0 .. N : g[n] = IF n = 0 THEN t.code
                                 ELSE PatchRegister(g[n - 1], t.regs[n], new[n])
    BY <1>3, <1>4, <2>2
  <2>4. QED BY <2>1, <2>3
<1>6. Patched(patched)
  <2> HIDE DEF Patched
  <2>1. QED BY <1>5
<1>7. PatchTemplateRegisters(t, new) = patched[N]
  BY DEF PatchTemplateRegisters
<1> HIDE DEF patched
<1>8. patched = g
  <2> DEFINE S == {n \in Nat : n <= N => patched[n] = g[n]}
  <2>1. \A n \in 1 .. N : patched[n] = PatchRegister(patched[n - 1], t.regs[n], new[n])
    BY <1>6
  <2>2. patched[0] = t.code /\ patched = [n \in 0 .. N |-> patched[n]]
    BY <1>6
  <2>3. 0 \in S
    BY <1>4, <2>2
  <2>4. ASSUME NEW n \in Nat, n \in S PROVE n + 1 \in S
    <3>1. CASE n + 1 <= N
      <4>1. n + 1 \in 1 .. N /\ (n + 1) - 1 = n /\ patched[n] = g[n]
        BY <2>4, <3>1
      <4>2. QED BY <1>3, <2>1, <4>1
    <3>2. QED BY <3>1
  <2>5. \A n \in Nat : n \in S
    <3> HIDE DEF S
    <3>1. QED BY <2>3, <2>4, NatSetInduction
  <2>6. \A n \in 0 .. N : patched[n] = g[n]
    BY <2>5
  <2>7. g = [n \in 0 .. N |-> g[n]]
    BY <1>2
  <2>8. QED BY <2>2, <2>6, <2>7
<1>9. QED BY <1>2, <1>3, <1>4, <1>7, <1>8 DEF X, PatchTurns

\* Patching the registers one after the other, in place, renames them all at
\* once: after n of them, a field that held one of these holds what the emitter
\* puts there, and any other is as it was.  A register that is new and also a
\* later old one would be patched twice, which Renames excludes.
LEMMA PatchingRenames ==
  ASSUME NEW c \in Ops, NEW o \in Ops, c.kind = o.kind, Renames(c, o)
  PROVE  PatchTemplateRegisters(Template(c), HookRegs(o)) = o.code
<1> DEFINE old == HookRegs(c)
           new == HookRegs(o)
           N   == Len(old)
           D   == DOMAIN c.code
           X   == [D -> Insn]
<1>1. /\ old \in Seq(Reg) /\ new \in Seq(Reg) /\ Len(new) = N
      /\ N \in Nat /\ DOMAIN old = 1 .. N
  BY HookRegsType, LenProperties
<1>2. \A n \in 1 .. N : old[n] \in Reg /\ new[n] \in Reg
  <2> HIDE DEF old, new
  <2>1. QED BY <1>1, ElementOfSeq
<1>3. c.code \in X /\ o.code \in X
  <2>1. c.code \in Seq(Insn) /\ o.code \in Seq(Insn)
    BY PatternAssumption DEF PatternAssumption
  <2>2. DOMAIN o.code = D
    BY DEF Renames
  <2>3. QED BY <2>1, <2>2, LenProperties, ElementOfSeq
<1> DEFINE named(n, x) == \E i \in 1 .. n : old[i] = x
<1>4. ASSUME NEW k \in D, NEW s \in 1 .. 4
      PROVE  /\ o.code[k].bits = c.code[k].bits
             /\ \A i \in 1 .. N : old[i] = c.code[k].fields[s] => new[i] = o.code[k].fields[s]
             /\ ~named(N, c.code[k].fields[s]) => o.code[k].fields[s] = c.code[k].fields[s]
  <2> DEFINE x == c.code[k].fields[s]
             Renamed == {new[i] : i \in {n \in DOMAIN old : old[n] = x}}
  <2>1. /\ o.code[k].bits = c.code[k].bits
        /\ IF Renamed = {} THEN o.code[k].fields[s] = x ELSE Renamed = {o.code[k].fields[s]}
    <3>1. DOMAIN o.code = D
      BY DEF Renames
    <3>2. QED BY <3>1 DEF Renames
  <2>2. \A i \in 1 .. N : old[i] = x => new[i] \in Renamed
    BY <1>1
  <2>3. ~named(N, x) => Renamed = {}
    BY <1>1
  <2> HIDE DEF Renamed, named, old, new
  <2>4. QED BY <2>1, <2>2, <2>3
<1>5. \A i, j \in 1 .. N : i < j /\ new[i] = old[j] => new[j] = new[i]
  BY <1>1 DEF Renames
<1>6. Template(c).code = c.code /\ Template(c).regs = old
  BY DEF Template
<1> HIDE DEF old, new, N, D
<1>7. PICK f \in [0 .. N -> X] :
         /\ f[0] = c.code
         /\ \A n \in 1 .. N : f[n] = PatchRegister(f[n - 1], old[n], new[n])
         /\ PatchTemplateRegisters(Template(c), new) = f[N]
  <2> DEFINE t == Template(c)
  <2>1. t.code \in X /\ Len(t.regs) = N /\ t.regs = old /\ t.code = c.code
    BY <1>3, <1>6 DEF N
  <2> HIDE DEF t
  <2>2. \A n \in 1 .. N : t.regs[n] \in Reg /\ new[n] \in Reg
    BY <1>2, <2>1
  <2>3. PatchTurns(t, new, N, D) # {}
    <3> HIDE DEF named
    <3>1. N \in Nat /\ t.code \in [D -> Insn] /\ Len(t.regs) = N
      BY <1>1, <2>1
    <3>2. QED BY <2>2, <3>1, PatchSteps
  <2>4. QED BY <2>1, <2>3 DEF t, PatchTurns
<1> DEFINE Halfway(n) ==
             \A k \in D :
                /\ f[n][k].bits = c.code[k].bits
                /\ \A s \in 1 .. 4 :
                      f[n][k].fields[s] = IF named(n, c.code[k].fields[s])
                                          THEN o.code[k].fields[s]
                                          ELSE c.code[k].fields[s]
           S == {n \in Nat : n <= N => Halfway(n)}
<1>8. 0 \in S
  <2>1. \A x : ~named(0, x)
    OBVIOUS
  <2> HIDE DEF named
  <2>2. QED BY <1>7, <2>1
<1>9. ASSUME NEW n \in Nat, n \in S PROVE n + 1 \in S
  <2>1. SUFFICES ASSUME n + 1 <= N PROVE Halfway(n + 1)
    OBVIOUS
  <2>2. n \in 0 .. N /\ n + 1 \in 1 .. N /\ (n + 1) - 1 = n /\ Halfway(n)
    <3> HIDE DEF Halfway
    <3>1. n <= N
      BY <1>1, <2>1
    <3>2. QED BY <1>1, <1>9, <2>1, <3>1
  <2>3. f[n] \in X /\ f[n + 1] = PatchRegister(f[n], old[n + 1], new[n + 1])
    BY <1>7, <2>2
  <2>4. \A k \in D :
           /\ f[n + 1][k].bits = f[n][k].bits
           /\ \A s \in 1 .. 4 :
                 f[n + 1][k].fields[s] = IF f[n][k].fields[s] = old[n + 1] THEN new[n + 1]
                                         ELSE f[n][k].fields[s]
    BY <1>2, <2>2, <2>3, PatchType
  <2>5. \A x : named(n + 1, x) <=> (named(n, x) \/ old[n + 1] = x)
    <3>1. \A i : i \in 1 .. n + 1 <=> (i \in 1 .. n \/ i = n + 1)
      OBVIOUS
    <3>2. QED BY <3>1
  <2>6. ASSUME NEW k \in D, NEW s \in 1 .. 4
        PROVE  f[n + 1][k].fields[s] = IF named(n + 1, c.code[k].fields[s])
                                       THEN o.code[k].fields[s]
                                       ELSE c.code[k].fields[s]
    <3> DEFINE x == c.code[k].fields[s]
               y == o.code[k].fields[s]
               u == f[n][k].fields[s]
               v == f[n + 1][k].fields[s]
    <3>1. v = IF u = old[n + 1] THEN new[n + 1] ELSE u
      BY <2>4
    <3>2. u = IF named(n, x) THEN y ELSE x
      BY <2>2
    <3>3. \A i \in 1 .. N : old[i] = x => new[i] = y
      BY <1>4
    <3>4. CASE named(n, x)
      <4>1. PICK i \in 1 .. n : old[i] = x
        BY <3>4
      <4>2. i \in 1 .. N /\ i < n + 1
        BY <2>2, <1>1
      <4>3. new[i] = y /\ u = y
        BY <3>2, <3>3, <3>4, <4>1, <4>2
      <4>4. y = old[n + 1] => new[n + 1] = y
        BY <1>5, <2>2, <4>2, <4>3
      <4> HIDE DEF x, y, u, v, named
      <4>5. v = y /\ named(n + 1, x)
        BY <2>5, <3>1, <3>4, <4>3, <4>4
      <4>6. QED BY <4>5 DEF x, y, v
    <3>5. CASE ~named(n, x)
      <4> HIDE DEF x, y, u, v, named
      <4>1. u = x
        BY <3>2, <3>5
      <4>2. CASE old[n + 1] = x
        <5>1. v = y /\ named(n + 1, x)
          BY <2>2, <2>5, <3>1, <3>3, <4>1, <4>2
        <5>2. QED BY <5>1 DEF x, y, v
      <4>3. CASE old[n + 1] # x
        <5>1. v = x /\ ~named(n + 1, x)
          BY <2>5, <3>1, <3>5, <4>1, <4>3
        <5>2. QED BY <5>1 DEF x, y, v
      <4>4. QED BY <4>2, <4>3
    <3>6. QED BY <3>4, <3>5
  <2> HIDE DEF named
  <2>7. QED BY <2>2, <2>4, <2>6
<1>10. Halfway(N)
  <2>1. \A n \in Nat : n \in S
    <3> HIDE DEF S
    <3>1. QED BY <1>8, <1>9, NatSetInduction
  <2>2. QED BY <1>1, <2>1
<1>11. \A k \in D : /\ f[N][k].bits = o.code[k].bits
                    /\ \A s \in 1 .. 4 : f[N][k].fields[s] = o.code[k].fields[s]
  <2> HIDE DEF named
  <2>1. QED BY <1>4, <1>10
<1>12. f[N] \in X
  BY <1>1, <1>7
<1> HIDE DEF Halfway
<1>13. \A k \in D : f[N][k] = o.code[k]
  <2>1. SUFFICES ASSUME NEW k \in D PROVE f[N][k] = o.code[k]
    OBVIOUS
  <2>2. f[N][k] \in Insn /\ o.code[k] \in Insn
    BY <1>3, <1>12
  <2>3. f[N][k].fields = o.code[k].fields
    <3>1. f[N][k].fields \in [1 .. 4 -> Reg] /\ o.code[k].fields \in [1 .. 4 -> Reg]
      BY <2>2 DEF Insn
    <3>2. \A s \in 1 .. 4 : f[N][k].fields[s] = o.code[k].fields[s]
      BY <1>11
    <3>3. QED BY <3>1, <3>2
  <2>4. QED BY <1>11, <2>2, <2>3 DEF Insn
<1>14. f[N] = o.code
  BY <1>3, <1>12, <1>13
<1>15. QED BY <1>7, <1>14 DEF new

\* The code put out is the emitter's, or a copy of what it emitted for an op of
\* the same kind, which is the emitter's as well whenever a renaming gives it.
THEOREM CopiesAreEmissions == Spec => []CodeIsEmission
<1>1. Init => CodeIsEmission
  BY DEF Init, CodeIsEmission
<1>2. TypeOK /\ CodeIsEmission /\ [Next]_vars => CodeIsEmission'
  <2> SUFFICES ASSUME TypeOK, CodeIsEmission, [Next]_vars PROVE CodeIsEmission'
    OBVIOUS
  <2>1. ASSUME NEW o \in Ops, out' = Emitted(o) PROVE CodeIsEmission'
    BY <2>1 DEF Emitted, CodeIsEmission
  <2>2. ASSUME NEW o \in Ops, Copy(o) PROVE CodeIsEmission'
    <3> DEFINE t == Lookup(MakePatternHash(o.kind))
               c == t.of
    <3>1. table \in Seq(Templates) /\ Entries(o.kind) # {} /\ MakePatternHash(o.kind) = o.kind
      BY <2>2 DEF TypeOK, Templates, Copy, MakePatternHash
    <3>2. c \in Ops /\ t = Template(c) /\ c.kind = o.kind
      BY <3>1, TableFacts DEF Lookup
    <3>3. out' = [op |-> o, code |-> PatchTemplateRegisters(t, HookRegs(o)), from |-> c]
      BY <2>2 DEF Copy
    <3> HIDE DEF t, c
    <3>4. c # None
      BY <3>2, PatternAssumption DEF PatternAssumption
    <3>5. Renames(c, o) => PatchTemplateRegisters(t, HookRegs(o)) = o.code
      BY <3>2, PatchingRenames
    <3>6. out'.op = o /\ out'.from = c /\ out'.code = PatchTemplateRegisters(t, HookRegs(o))
      BY <3>3
    <3>7. (Renames(out.from, out.op))' = Renames(c, o)
      BY <3>6 DEF Renames, HookRegs
    <3>8. QED BY <3>2, <3>4, <3>5, <3>6, <3>7 DEF CodeIsEmission
  <2>3. CASE UNCHANGED vars
    <3>1. out' = out
      BY <2>3 DEF vars
    <3>2. Renames(out.from, out.op)' = Renames(out.from, out.op)
      BY <3>1 DEF Renames, HookRegs
    <3>3. QED BY <3>1, <3>2 DEF CodeIsEmission
  <2>4. QED BY <2>1, <2>2, <2>3 DEF Next, EmitAndCapture, Miss
<1>3. QED BY <1>1, <1>2, PatternTypeCorrect, PTL DEF Spec
=============================================================================
