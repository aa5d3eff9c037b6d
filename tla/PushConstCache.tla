--------------------------- MODULE PushConstCache ---------------------------
(***************************************************************************)
(* The push constant cache of dxvk/patches/0001 in DxvkContext: before a   *)
(* draw, the push data of the pipeline's layout is sent to the command     *)
(* buffer unless it equals what the cache says was sent last.              *)
(*                                                                         *)
(* Data is counted in dwords.  A layout says which range it pushes and     *)
(* which dwords of it resources supply; the others come from the constants *)
(* the application set.  gpu is ghost state: the push constants the        *)
(* command buffer being recorded has at this point, Undefined where it has *)
(* sent none, as when DXVK starts the next command list (external).        *)
(***************************************************************************)
EXTENDS Integers

CONSTANTS
    Dwords,     \* MaxTotalPushDataSize
    Values,     \* contents of a dword, 0 among them
    Layouts,    \* the push data blocks of the pipelines
    Undefined

ASSUME PushConstAssumption ==
    /\ Dwords \in Nat
    /\ 0 \in Values
    /\ Undefined \notin Values
    /\ Layouts \subseteq [offset : 0 .. Dwords, size : 0 .. Dwords,
                          resources : SUBSET (0 .. Dwords - 1)]
    /\ \A l \in Layouts : l.offset + l.size <= Dwords

Range == 0 .. Dwords - 1

VARIABLES
    resource,   \* m_state.pc.resourceData
    constant,   \* m_state.pc.constantData
    cache,      \* m_pcCache
    valid,      \* m_pcCacheValid
    gpu,        \* ghost: the command buffer's push constants
    draw        \* ghost: the layout of the draw just prepared and whether its
                \* data was sent, <<>> after any other step

vars == <<resource, constant, cache, valid, gpu, draw>>

TypeOK ==
    /\ resource \in [Range -> Values]
    /\ constant \in [Range -> Values]
    /\ cache \in [Range -> Values]
    /\ valid \in 0 .. Dwords
    /\ gpu \in [Range -> Values \union {Undefined}]
    /\ draw \in {<<>>} \union (Layouts \X BOOLEAN)

Zeros == [c \in Range |-> 0]

Init ==
    /\ resource = Zeros
    /\ constant = Zeros
    /\ cache = Zeros
    /\ valid = 0
    /\ gpu = [c \in Range |-> Undefined]
    /\ draw = <<>>

End(l)    == l.offset + l.size
Cells(l)  == l.offset .. End(l) - 1
Direct(l) == Cells(l) \subseteq l.resources

\* The push data a draw with the layout needs.
Data(l) ==
    [c \in Range |-> IF c \in l.resources THEN resource[c] ELSE constant[c]]

\* The application or the binding of a resource changes a dword.
SetResource ==
    /\ \E c \in Range, v \in Values : resource' = [resource EXCEPT ![c] = v]
    /\ draw' = <<>>
    /\ UNCHANGED <<constant, cache, valid, gpu>>

SetConstant ==
    /\ \E c \in Range, v \in Values : constant' = [constant EXCEPT ![c] = v]
    /\ draw' = <<>>
    /\ UNCHANGED <<resource, cache, valid, gpu>>

\* Mutant: the comparison goes by size, and any layout's data will do.
SizeOnly(l) == End(l) <= valid

\* Mutant: off by one, the last dword is never taken for sent.
Below(l) ==
    /\ End(l) < valid
    /\ \A c \in Cells(l) : cache[c] = resource[c]

\* The early return: below the high-water mark, and equal to the resource data.
Unchanged(l) ==
    /\ End(l) <= valid
    /\ \A c \in Cells(l) : cache[c] = resource[c]

Max2(a, b) == IF a > b THEN a ELSE b

\* f with the dwords of the layout taken from data.
Overlay(f, l, data) == [c \in Range |-> IF c \in Cells(l) THEN data[c] ELSE f[c]]

\* Mutant: the data is sent and not remembered.
PushUncached(l, data) ==
    /\ gpu' = Overlay(gpu, l, data)
    /\ valid' = Max2(valid, End(l))
    /\ draw' = <<l, TRUE>>
    /\ UNCHANGED <<resource, constant, cache>>

\* Mutant: the mark is moved by the size, not to the end of the range.
PushGrows(l, data) ==
    /\ gpu' = Overlay(gpu, l, data)
    /\ cache' = Overlay(cache, l, data)
    /\ valid' = valid + l.size
    /\ draw' = <<l, TRUE>>
    /\ UNCHANGED <<resource, constant>>

\* cmdPushConstants, and the same dwords into the cache.
Push(l, data) ==
    /\ gpu' = Overlay(gpu, l, data)
    /\ cache' = Overlay(cache, l, data)
    /\ valid' = Max2(valid, End(l))
    /\ draw' = <<l, TRUE>>
    /\ UNCHANGED <<resource, constant>>

Skip(l) ==
    /\ Unchanged(l)
    /\ draw' = <<l, FALSE>>
    /\ UNCHANGED <<resource, constant, cache, valid, gpu>>

\* All push data comes from resources: commit it as it is.
PushDirect(l) == ~Unchanged(l) /\ Direct(l) /\ Push(l, resource)

\* Otherwise assemble resource and constant data first.
PushGather(l) == ~Unchanged(l) /\ ~Direct(l) /\ Push(l, Data(l))

\* updatePushDataBindings before a draw; an empty block is left out.
Update(l) == l.size > 0 /\ (Skip(l) \/ PushDirect(l) \/ PushGather(l))

\* The next command list: no push constants yet, and the cache stays.
NextCommandList ==
    /\ gpu' = [c \in Range |-> Undefined]
    /\ draw' = <<>>
    /\ UNCHANGED <<resource, constant, cache, valid>>

Next ==
    \/ SetResource \/ SetConstant \/ NextCommandList
    \/ \E l \in Layouts : Update(l)

Spec == Init /\ [][Next]_vars

-----------------------------------------------------------------------------
(* Properties *)

\* What the command buffer has, the cache has, and below the mark: whatever
\* order layouts overlap in, the cache never disagrees with a dword sent.
CacheIsSent ==
    \A c \in Range : gpu[c] # Undefined => cache[c] = gpu[c] /\ c < valid

\* The draw just prepared reads data of this command list only.
Sent(l) == \A c \in Cells(l) : gpu[c] # Undefined

\* A draw whose push data all comes from resources sees the current data,
\* sent or skipped, if its dwords were ever sent in this command list.
DirectDrawIsCurrent ==
    \A l \in Layouts :
        (draw # <<>> /\ draw[1] = l /\ Direct(l) /\ Sent(l))
            => \A c \in Cells(l) : gpu[c] = Data(l)[c]

\* For such layouts "hits are the steady-state norm" (patch 0001, line 12): data
\* is sent again only if a dword differs from what the command buffer has.
NoRedundantSend ==
    [][\A l \in Layouts :
         (draw' = <<l, TRUE>> /\ Direct(l))
            => \E c \in Cells(l) : gpu[c] # resource[c]]_vars

-----------------------------------------------------------------------------
(* What the comments say *)

\* "If identical to last emission, skip" (patch 0001, lines 9-10): after a draw
\* was skipped, the command buffer has the data the draw needs.
SkippedIsIdentical ==
    \A l \in Layouts :
        draw = <<l, FALSE>> => \A c \in Cells(l) : gpu[c] = Data(l)[c]
=============================================================================
