--------------------------- MODULE RegCacheProofs ---------------------------
(***************************************************************************)
(* Proofs about the shadow register cache (mesa/patches/0003), for tables  *)
(* of any size, any probe limit and any registers: what a hit returns is   *)
(* right, and the cache implements a register file.                        *)
(***************************************************************************)
EXTENDS RegCache, Induction

-----------------------------------------------------------------------------
(* The table *)

\* Probing stays inside the table.
LEMMA ProbeInTable ==
  ASSUME NEW r \in Regs, NEW i \in 0 .. Probes - 1
  PROVE  Probe(r, i) \in Slots
<1>1. Size \in Nat \ {0} /\ Key(r) + i \in Nat
  BY RegCacheAssumption DEF RegCacheAssumption, Key
<1>2. QED BY <1>1 DEF Probe, Slots

\* The first of a set of probe distances is in it, and none is smaller.
LEMMA FirstIsLeast ==
  ASSUME NEW I \in SUBSET (0 .. Probes - 1), I # {}
  PROVE  First(I) \in I /\ \A j \in I : First(I) <= j
<1>1. Probes - 1 \in Nat
  BY RegCacheAssumption DEF RegCacheAssumption
<1>2. \E i \in I : \A j \in I : i <= j
  BY <1>1, LeastExists
<1>3. QED BY <1>2 DEF First

\* The entry a lookup finds holds the register's key.
LEMMA HitHasKey ==
  ASSUME NEW r \in Regs, Hits(r) # {}
  PROVE  /\ First(Hits(r)) \in Hits(r)
         /\ HitSlot(r) \in Slots
         /\ keys[HitSlot(r)] = Key(r)
<1>1. Hits(r) \in SUBSET (0 .. Probes - 1)
  BY DEF Hits
<1>2. First(Hits(r)) \in Hits(r)
  BY <1>1, FirstIsLeast
<1>3. QED BY <1>1, <1>2, ProbeInTable DEF HitSlot, Hits

\* The slot an insertion takes was empty.
LEMMA FreeIsEmpty ==
  ASSUME NEW r \in Regs, Free(r) # {}
  PROVE  FreeSlot(r) \in Slots /\ keys[FreeSlot(r)] = 0
<1>1. Free(r) \in SUBSET (0 .. Probes - 1)
  BY DEF Free
<1>2. First(Free(r)) \in Free(r)
  BY <1>1, FirstIsLeast
<1>3. QED BY <1>1, <1>2, ProbeInTable DEF FreeSlot, Free

\* Refreshing an entry leaves a table of values.
LEMMA RefreshedType ==
  ASSUME TypeOK, NEW r \in Regs, NEW v \in Values
  PROVE  Refreshed(r, v) \in [Slots -> Values \union {None}]
BY HitHasKey DEF TypeOK, Refreshed

-----------------------------------------------------------------------------
(* Types *)

\* Every state has the types of TypeOK: keys are zero or those of registers, so
\* that no register is taken for an empty slot.
THEOREM RegCacheTypeCorrect == Spec => []TypeOK
<1>1. Init => TypeOK
  BY RegCacheAssumption DEF RegCacheAssumption, Init, TypeOK, Empty, NoValues
<1>2. TypeOK /\ [Next]_vars => TypeOK'
  <2> SUFFICES ASSUME TypeOK, [Next]_vars PROVE TypeOK'
    OBVIOUS
  <2>1. CASE TuCsInit
    BY <2>1 DEF TypeOK, TuCsInit, Empty, NoValues
  <2>2. CASE TuCsReset
    BY <2>2 DEF TypeOK, TuCsReset
  <2>3. CASE TuCsFinish
    BY <2>3 DEF TypeOK, TuCsFinish, Empty, NoValues
  <2>4. ASSUME NEW r \in Regs, NEW v \in Values, Skip(r, v) PROVE TypeOK'
    BY <2>4 DEF TypeOK, Skip, table
  <2>5. ASSUME NEW r \in Regs, NEW v \in Values, Store(r, v) PROVE TypeOK'
    <3>1. keys' \in [Slots -> {0} \union {q + 1 : q \in Regs}]
      BY <2>5 DEF TypeOK, Store, Key
    <3>2. values' \in [Slots -> Values \union {None}]
      BY <2>5, RefreshedType DEF Store
    <3>3. QED BY <2>5, <3>1, <3>2 DEF TypeOK, Store, Emit
  <2>6. ASSUME NEW r \in Regs, NEW v \in Values, WriteUncached(r, v) PROVE TypeOK'
    BY <2>6 DEF TypeOK, WriteUncached, Emit, table
  <2>7. ASSUME NEW r \in Direct, NEW v \in Values, EmitDirect(r, v) PROVE TypeOK'
    BY <2>7, RegCacheAssumption DEF RegCacheAssumption, TypeOK, EmitDirect, Emit, table
  <2>8. CASE UNCHANGED vars
    BY <2>8 DEF TypeOK, vars, table
  <2>9. QED BY <2>1, <2>2, <2>3, <2>4, <2>5, <2>6, <2>7, <2>8 DEF Next, WriteReg
<1>3. QED BY <1>1, <1>2, PTL DEF Spec

-----------------------------------------------------------------------------
(* Coherence *)

\* A store makes the first entry found for its own register hold the value
\* stored: the refreshed one, or the duplicate inserted in front of it.
LEMMA StoredIsFound ==
  ASSUME TypeOK, NEW r \in Regs, NEW v \in Values, Store(r, v), Hits(r)' # {}
  PROVE  values'[HitSlot(r)'] = v
<1> DEFINE h == First(Hits(r)')
<1>1. /\ h \in Hits(r)'
      /\ \A j \in Hits(r)' : h <= j
  BY FirstIsLeast DEF Hits, First
<1>2. h \in 0 .. Probes - 1 /\ keys'[Probe(r, h)] = Key(r) /\ HitSlot(r)' = Probe(r, h)
  BY <1>1 DEF Hits, HitSlot, Probe, Key
<1>3. Probe(r, h) \in Slots
  BY <1>2, ProbeInTable
<1> HIDE DEF h
<1>4. CASE Free(r) # {} /\ Probe(r, h) = FreeSlot(r)
  <2>1. values' = [Refreshed(r, v) EXCEPT ![FreeSlot(r)] = v]
    BY <1>4 DEF Store
  <2>2. QED BY <1>2, <1>3, <1>4, <2>1, RefreshedType
<1>5. CASE ~(Free(r) # {} /\ Probe(r, h) = FreeSlot(r))
  <2>1. h \in Hits(r)
    BY <1>2, <1>3, <1>5 DEF Store, Hits, TypeOK
  <2>2. Hits(r) \subseteq Hits(r)'
    <3>1. \A j \in Hits(r) : keys[Probe(r, j)] = Key(r) /\ Key(r) # 0
      BY RegCacheAssumption DEF RegCacheAssumption, Hits, Key
    <3>2. \A j \in Hits(r) : keys'[Probe(r, j)] = Key(r)
      BY <3>1, FreeIsEmpty, ProbeInTable DEF Store, TypeOK, Hits
    <3>3. QED BY <3>2 DEF Hits, Probe, Key
  <2>3. h = First(Hits(r))
    <3>1. /\ First(Hits(r)) \in Hits(r)
          /\ First(Hits(r)) <= h
      BY <2>1, FirstIsLeast DEF Hits
    <3>2. h <= First(Hits(r))
      BY <1>1, <2>2, <3>1 DEF h
    <3>3. h \in Int /\ First(Hits(r)) \in Int
      BY <1>2, <3>1 DEF Hits
    <3>4. QED BY <3>1, <3>2, <3>3
  <2>4. Refreshed(r, v) = [values EXCEPT ![Probe(r, h)] = v]
    BY <2>1, <2>3 DEF Refreshed, HitSlot
  <2>5. values'[Probe(r, h)] = Refreshed(r, v)[Probe(r, h)]
    BY <1>3, <1>5, RefreshedType DEF Store
  <2>6. QED BY <1>2, <1>3, <2>4, <2>5 DEF TypeOK
<1>6. QED BY <1>4, <1>5

\* A store leaves the entries of every other register as they are: it changes a
\* slot with the stored register's key and one that was empty.
LEMMA OthersKeepTheirs ==
  ASSUME TypeOK, NEW q \in Regs, NEW v \in Values, Store(q, v), NEW r \in Regs, r # q
  PROVE  /\ Hits(r)' = Hits(r)
         /\ Hits(r) # {} => values'[HitSlot(r)'] = values[HitSlot(r)]
<1>1. Key(r) # Key(q) /\ Key(r) # 0
  BY RegCacheAssumption DEF RegCacheAssumption, Key
<1>2. \A i \in 0 .. Probes - 1 :
        (keys'[Probe(r, i)] = Key(r)) <=> (keys[Probe(r, i)] = Key(r))
  BY <1>1, FreeIsEmpty, ProbeInTable DEF Store, TypeOK
<1>3. Hits(r)' = Hits(r)
  BY <1>2 DEF Hits, Probe, Key
<1>4. ASSUME Hits(r) # {} PROVE values'[HitSlot(r)'] = values[HitSlot(r)]
  <2>1. HitSlot(r)' = HitSlot(r)
    BY <1>3 DEF HitSlot, Probe, Key
  <2>2. HitSlot(r) \in Slots /\ keys[HitSlot(r)] = Key(r)
    BY <1>4, HitHasKey
  <2>3. Refreshed(q, v)[HitSlot(r)] = values[HitSlot(r)]
    BY <1>1, <2>2, HitHasKey DEF Refreshed, TypeOK
  <2>4. Free(q) # {} => FreeSlot(q) # HitSlot(r)
    BY <1>1, <2>2, FreeIsEmpty
  <2>5. values'[HitSlot(r)] = Refreshed(q, v)[HitSlot(r)]
    BY <2>2, <2>4, RefreshedType DEF Store
  <2>6. QED BY <2>1, <2>3, <2>5
<1>5. QED BY <1>3, <1>4

\* A register whose window leaves the last slot alone is forgotten by a reset.
LEMMA ResetForgets ==
  ASSUME TypeOK, TuCsReset, NEW r \in Safe
  PROVE  ~Cached(r)'
<1>1. SUFFICES ASSUME enabled PROVE Hits(r)' = {}
  BY DEF Cached, TuCsReset
<1>2. ASSUME NEW i \in 0 .. Probes - 1 PROVE keys'[Probe(r, i)] # Key(r)
  <2>1. Probe(r, i) \in Slots /\ Probe(r, i) # Last
    BY ProbeInTable DEF Safe, Window
  <2>2. Probe(r, i) < Last
    BY <2>1, RegCacheAssumption DEF RegCacheAssumption, Slots, Last
  <2>3. keys'[Probe(r, i)] = 0
    BY <1>1, <2>1, <2>2 DEF TuCsReset
  <2>4. r \in Nat
    BY RegCacheAssumption DEF RegCacheAssumption, Safe
  <2>5. QED BY <2>3, <2>4 DEF Key
<1>3. QED BY <1>2 DEF Hits, Probe, Key

\* A new or freed table finds nothing.
LEMMA EmptyFindsNothing ==
  ASSUME keys' = Empty, NEW r \in Regs
  PROVE  ~Cached(r)'
<1>1. \A i \in 0 .. Probes - 1 : keys'[Probe(r, i)] = 0 /\ Key(r) # 0
  BY ProbeInTable, RegCacheAssumption DEF RegCacheAssumption, Empty, Key
<1>2. QED BY <1>1 DEF Cached, Hits, Probe, Key

\* A write leaves the written register with the value the GPU gets, and the
\* others with theirs; a reset forgets all of them; nothing else touches both.
LEMMA CoherentStep == TypeOK /\ Coherent /\ [Next]_vars => Coherent'
<1> SUFFICES ASSUME TypeOK, Coherent, [Next]_vars, NEW r \in Safe, Cached(r)'
             PROVE  values'[HitSlot(r)'] = gpu'[r]
  BY DEF Coherent, Safe, Window, Probe, Key, Last
<1>1. r \in Regs /\ r \notin Direct
  BY DEF Safe
<1>2. CASE TuCsInit \/ TuCsFinish
  BY <1>1, <1>2, EmptyFindsNothing DEF TuCsInit, TuCsFinish
<1>3. CASE TuCsReset
  BY <1>3, ResetForgets
<1>4. ASSUME NEW q \in Regs, NEW v \in Values, Skip(q, v) \/ WriteUncached(q, v)
      PROVE  values'[HitSlot(r)'] = gpu'[r]
  <2>1. Skip(q, v)
    BY <1>4 DEF WriteUncached, Cached
  <2>2. Hits(r)' = Hits(r) /\ HitSlot(r)' = HitSlot(r) /\ Cached(r)
    BY <2>1 DEF Skip, table, Hits, HitSlot, Cached, Probe, Key
  <2>3. QED BY <2>1, <2>2 DEF Coherent, Skip, table
<1>5. ASSUME NEW q \in Regs, NEW v \in Values, Store(q, v)
      PROVE  values'[HitSlot(r)'] = gpu'[r]
  <2>1. Hits(r)' # {} /\ enabled
    BY <1>5 DEF Cached, Store
  <2>2. CASE q = r
    BY <1>1, <1>5, <2>1, <2>2, StoredIsFound DEF Store, Emit, TypeOK
  <2>3. CASE q # r
    <3>1. Hits(r) # {} /\ values'[HitSlot(r)'] = values[HitSlot(r)]
      BY <1>1, <1>5, <2>1, <2>3, OthersKeepTheirs
    <3>2. gpu'[r] = gpu[r]
      BY <1>1, <1>5, <2>3 DEF Store, Emit, TypeOK
    <3>3. QED BY <2>1, <3>1, <3>2 DEF Coherent, Cached
  <2>4. QED BY <2>2, <2>3
<1>6. ASSUME NEW q \in Direct, NEW v \in Values, EmitDirect(q, v)
      PROVE  values'[HitSlot(r)'] = gpu'[r]
  <2>1. Hits(r)' = Hits(r) /\ HitSlot(r)' = HitSlot(r) /\ Cached(r)
    BY <1>6 DEF EmitDirect, table, Hits, HitSlot, Cached, Probe, Key
  <2>2. gpu'[r] = gpu[r]
    BY <1>1, <1>6 DEF EmitDirect, Emit, TypeOK
  <2>3. QED BY <1>6, <2>1, <2>2 DEF Coherent, EmitDirect, table
<1>7. CASE UNCHANGED vars
  <2>1. Hits(r)' = Hits(r) /\ HitSlot(r)' = HitSlot(r) /\ Cached(r)
    BY <1>7 DEF vars, table, Hits, HitSlot, Cached, Probe, Key
  <2>2. QED BY <1>7, <2>1 DEF Coherent, vars, table
<1>8. QED BY <1>2, <1>3, <1>4, <1>5, <1>6, <1>7 DEF Next, WriteReg

\* A cached value of a safe register is the value the GPU will have.
THEOREM CacheCoherent == Spec => []Coherent
<1>1. Init => Coherent
  BY DEF Init, Coherent, Cached
<1>2. QED BY <1>1, CoherentStep, RegCacheTypeCorrect, PTL DEF Spec

-----------------------------------------------------------------------------
(* Refinement *)

\* The cache implements the register file: every step of the driver, packets
\* saved included, is one the register file allows.
THEOREM ImplementsRegisterFile == Spec => KeepsPromise
<1>1. Init => Promise!Init
  BY DEF Init, Promise!Init
<1>2. TypeOK /\ Coherent /\ [Next]_vars => [Promise!Next]_(Promise!vars)
  <2> SUFFICES ASSUME TypeOK, Coherent, [Next]_vars
               PROVE  Promise!Next \/ UNCHANGED <<gpu, request>>
    BY DEF Promise!vars
  <2>1. CASE TuCsInit \/ TuCsReset
    BY <2>1 DEF TuCsInit, TuCsReset, Promise!Next, Promise!Restart
  <2>2. CASE TuCsFinish
    BY <2>2 DEF TuCsFinish
  <2>3. ASSUME NEW r \in Regs, NEW v \in Values, Skip(r, v) PROVE Promise!Next
    <3>1. CASE r \in Safe
      <4>1. gpu[r] = v
        BY <2>3, <3>1 DEF Skip, Coherent
      <4>2. gpu' = [gpu EXCEPT ![r] = v]
        BY <2>3, <4>1 DEF Skip, TypeOK
      <4>3. QED BY <2>3, <4>2 DEF Skip, Promise!Next, Promise!Write
    <3>2. CASE r \notin Safe
      BY <2>3, <3>2 DEF Skip, Promise!Next, Promise!Write
    <3>3. QED BY <3>1, <3>2
  <2>4. ASSUME NEW r \in Regs, NEW v \in Values, Store(r, v) \/ WriteUncached(r, v)
        PROVE  Promise!Next
    BY <2>4 DEF Store, WriteUncached, Emit, Promise!Next, Promise!Write
  <2>5. ASSUME NEW r \in Direct, NEW v \in Values, EmitDirect(r, v) PROVE Promise!Next
    BY <2>5, RegCacheAssumption
    DEF RegCacheAssumption, EmitDirect, Emit, Promise!Next, Promise!Other
  <2>6. CASE UNCHANGED vars
    BY <2>6 DEF vars
  <2>7. QED BY <2>1, <2>2, <2>3, <2>4, <2>5, <2>6 DEF Next, WriteReg
<1>3. QED
  BY <1>1, <1>2, RegCacheTypeCorrect, CacheCoherent, PTL DEF Spec, KeepsPromise, Promise!Spec
=============================================================================
