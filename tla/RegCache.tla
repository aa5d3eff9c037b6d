------------------------------ MODULE RegCache ------------------------------
(***************************************************************************)
(* The shadow register cache of mesa/patches/0003: a flat hash table of    *)
(* register values kept beside a command stream, so that writing a value   *)
(* the register already has emits no packet.                               *)
(*                                                                         *)
(* gpu is ghost state: the registers as the GPU will have them when it     *)
(* reaches the end of the stream.  Packets that other code emits into the  *)
(* stream (multi-register PKT4s, draw states, called streams) change it    *)
(* behind the cache's back.                                                *)
(***************************************************************************)
EXTENDS Integers, FiniteSets

CONSTANTS
    Size,      \* slots of the table (512), a power of two
    Probes,    \* probe limit (8)
    Regs,      \* register offsets written through the cache
    Direct,    \* those that other emitters write, too
    Values

ASSUME RegCacheAssumption ==
    /\ Size \in Nat \ {0}
    /\ Probes \in 1 .. Size
    /\ Regs \subseteq Nat
    /\ Direct \subseteq Regs

VARIABLES
    alive,     \* between tu_cs_init and tu_cs_finish
    enabled,   \* regcache.enabled
    keys,      \* regcache.keys, 0 is an empty slot
    values,    \* regcache.values
    gpu,       \* ghost: the GPU's registers
    request    \* ghost: the last operation

table == <<keys, values>>
vars  == <<alive, enabled, table, gpu, request>>

Slots == 0 .. Size - 1
Last  == Size - 1                     \* regcache.mask
None  == 0                            \* what calloc leaves in values

TypeOK ==
    /\ alive \in BOOLEAN
    /\ enabled \in BOOLEAN
    /\ keys \in [Slots -> {0} \union {r + 1 : r \in Regs}]
    /\ values \in [Slots -> Values \union {None}]
    /\ gpu \in [Regs -> Values]
    /\ request \in {<<"reset">>} \union ({"write", "other"} \X Regs \X Values)

\* Mutant: no room for the empty-slot sentinel.
PlainKey(r) == r

Key(r)   == r + 1
Empty    == [s \in Slots |-> 0]
NoValues == [s \in Slots |-> None]

\* The i-th slot probed for a register.
Probe(r, i) == (Key(r) + i) % Size

\* The distances at which the register, and at which a free slot, is found.
Hits(r) == {i \in 0 .. Probes - 1 : keys[Probe(r, i)] = Key(r)}
Free(r) == {i \in 0 .. Probes - 1 : keys[Probe(r, i)] = 0}
First(I) == CHOOSE i \in I : \A j \in I : i <= j

Cached(r)   == enabled /\ Hits(r) # {}
HitSlot(r)  == Probe(r, First(Hits(r)))
FreeSlot(r) == Probe(r, First(Free(r)))

Init ==
    /\ alive = FALSE
    /\ enabled = FALSE
    /\ keys = Empty
    /\ values = NoValues
    /\ gpu \in [Regs -> Values]
    /\ request = <<"reset">>

\* tu_cs_init: gen8 and newer, and only if both callocs succeed.
TuCsInit ==
    /\ ~alive
    /\ alive' = TRUE
    /\ enabled' \in BOOLEAN
    /\ keys' = Empty
    /\ values' = NoValues
    /\ gpu' \in [Regs -> Values]
    /\ request' = <<"reset">>

\* Mutant: nothing is invalidated.
ResetNothing ==
    /\ alive
    /\ gpu' \in [Regs -> Values]
    /\ request' = <<"reset">>
    /\ UNCHANGED <<alive, enabled, keys, values>>

\* tu_cs_reset: memset clears mask elements of keys, one less than there are.
\* The GPU may have run anything before the stream that starts here.
TuCsReset ==
    /\ alive
    /\ keys' = IF enabled THEN [s \in Slots |-> IF s < Last THEN 0 ELSE keys[s]] ELSE keys
    /\ gpu' \in [Regs -> Values]
    /\ request' = <<"reset">>
    /\ UNCHANGED <<alive, enabled, values>>

\* tu_cs_finish: the table is freed, though enabled stays set; nothing reads
\* it any more, so what the dangling pointers show is left out.
TuCsFinish ==
    /\ alive
    /\ alive' = FALSE
    /\ keys' = Empty
    /\ values' = NoValues
    /\ UNCHANGED <<enabled, gpu, request>>

\* The packet: the GPU will execute it.
Emit(r, v) == gpu' = [gpu EXCEPT ![r] = v]

\* Mutant: the cached value is not refreshed when it differs.
KeepOld(r, v) == values

\* The first loop on a miss of the value: the entry found is refreshed.
Refreshed(r, v) ==
    IF Hits(r) = {} THEN values ELSE [values EXCEPT ![HitSlot(r)] = v]

\* tu_cs_emit_write_reg, the value is the cached one: no packet.
Skip(r, v) ==
    /\ alive
    /\ Cached(r)
    /\ values[HitSlot(r)] = v
    /\ request' = <<"write", r, v>>
    /\ UNCHANGED <<alive, enabled, table, gpu>>

\* Any other write: refresh the entry if there is one and, in either case, put
\* the register into the first free slot of its window if there is one.
Store(r, v) ==
    /\ alive /\ enabled
    /\ Cached(r) => values[HitSlot(r)] # v
    /\ IF Free(r) = {}
         THEN values' = Refreshed(r, v) /\ UNCHANGED keys
         ELSE /\ keys' = [keys EXCEPT ![FreeSlot(r)] = Key(r)]
              /\ values' = [Refreshed(r, v) EXCEPT ![FreeSlot(r)] = v]
    /\ Emit(r, v)
    /\ request' = <<"write", r, v>>
    /\ UNCHANGED <<alive, enabled>>

\* Without a cache every write is a packet.
WriteUncached(r, v) ==
    /\ alive /\ ~enabled
    /\ Emit(r, v)
    /\ request' = <<"write", r, v>>
    /\ UNCHANGED <<alive, enabled, table>>

WriteReg(r, v) == Skip(r, v) \/ Store(r, v) \/ WriteUncached(r, v)

\* A packet of another emitter, which does not look at the cache.
EmitDirect(r, v) ==
    /\ alive
    /\ Emit(r, v)
    /\ request' = <<"other", r, v>>
    /\ UNCHANGED <<alive, enabled, table>>

Next ==
    \/ TuCsInit \/ TuCsReset \/ TuCsFinish
    \/ \E r \in Regs, v \in Values : WriteReg(r, v)
    \/ \E r \in Direct, v \in Values : EmitDirect(r, v)

Spec == Init /\ [][Next]_vars

-----------------------------------------------------------------------------
(* Properties *)

\* The slots tu_cs_emit_write_reg looks at for a register.
Window(r) == {Probe(r, i) : i \in 0 .. Probes - 1}

\* The registers the cache serves as promised: only written through it, and
\* not probing the slot tu_cs_reset forgets.
Safe == {r \in Regs \ Direct : Last \notin Window(r)}

\* For these registers a cached value is the value the GPU will have, whatever
\* the duplicates an update leaves behind in the window, through collisions,
\* full windows, resets and finishes.
Coherent == \A r \in Safe : Cached(r) => values[HitSlot(r)] = gpu[r]

\* Callers see a register file: a write of a safe register lands, cached or
\* not, also when other emitters and resets change registers in between.
Promise == INSTANCE RegisterFile WITH Promised <- Safe
KeepsPromise == Promise!Spec

-----------------------------------------------------------------------------
(* What the comments and documents say *)

\* "any reset path must flush cached register state" (patch 0003, lines 28-31),
\* "tu_cs_reset() boundaries, which correctly invalidate the cache"
\* (vkCmdDraw-archaeology.md, lines 802-804): the first write of a register
\* after a reset is a packet.
ResetInvalidates == request = <<"reset">> => \A r \in Regs : ~Cached(r)
=============================================================================
