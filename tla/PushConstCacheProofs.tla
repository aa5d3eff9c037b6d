------------------------ MODULE PushConstCacheProofs ------------------------
(***************************************************************************)
(* Proofs about the push constant cache (dxvk/patches/0001), for any size  *)
(* of the push data and any pipeline layouts.                              *)
(***************************************************************************)
EXTENDS PushConstCache, TLAPS

\* The layouts stay inside the push data.
LEMMA LayoutFits ==
  ASSUME NEW l \in Layouts
  PROVE  /\ l.offset \in Nat /\ l.size \in Nat
         /\ End(l) \in 0 .. Dwords
         /\ Cells(l) \subseteq Range
<1>1. l \in [offset : 0 .. Dwords, size : 0 .. Dwords, resources : SUBSET (0 .. Dwords - 1)]
  BY PushConstAssumption DEF PushConstAssumption
<1>2. l.offset \in 0 .. Dwords /\ l.size \in 0 .. Dwords /\ l.offset + l.size <= Dwords
  BY <1>1, PushConstAssumption DEF PushConstAssumption
<1>3. QED BY <1>2, PushConstAssumption DEF PushConstAssumption, End, Cells, Range

\* A step that prepares a draw skips, or pushes data of the right values that
\* are the current ones if all of them come from resources.
LEMMA UpdateCases ==
  ASSUME TypeOK, NEW l \in Layouts, Update(l)
  PROVE  \/ Skip(l)
         \/ \E data \in [Range -> Values] :
               /\ ~Unchanged(l)
               /\ Direct(l) => \A c \in Cells(l) : data[c] = Data(l)[c]
               /\ Push(l, data)
<1>1. Data(l) \in [Range -> Values] /\ resource \in [Range -> Values]
  BY DEF TypeOK, Data
<1>2. Direct(l) => \A c \in Cells(l) : resource[c] = Data(l)[c]
  BY LayoutFits DEF Direct, Data
<1>3. QED BY <1>1, <1>2 DEF Update, PushDirect, PushGather

\* Every state has the types of TypeOK: the high-water mark stays inside the
\* cache, and the command buffer has nothing the application never set.
THEOREM PushConstTypeCorrect == Spec => []TypeOK
<1> USE PushConstAssumption DEF PushConstAssumption
<1>1. Init => TypeOK
  BY DEF Init, TypeOK, Zeros
<1>2. TypeOK /\ [Next]_vars => TypeOK'
  <2> SUFFICES ASSUME TypeOK, [Next]_vars PROVE TypeOK'
    OBVIOUS
  <2>1. CASE SetResource
    BY <2>1 DEF TypeOK, SetResource
  <2>2. CASE SetConstant
    BY <2>2 DEF TypeOK, SetConstant
  <2>3. CASE NextCommandList
    BY <2>3 DEF TypeOK, NextCommandList
  <2>4. ASSUME NEW l \in Layouts, Update(l) PROVE TypeOK'
    <3>1. CASE Skip(l)
      BY <3>1 DEF TypeOK, Skip
    <3>2. ASSUME NEW data \in [Range -> Values], Push(l, data) PROVE TypeOK'
      <4>1. valid' \in 0 .. Dwords
        BY <3>2, LayoutFits DEF TypeOK, Push, Max2
      <4>2. QED BY <3>2, <4>1 DEF TypeOK, Push, Overlay
    <3>3. QED BY <2>4, <3>1, <3>2, UpdateCases
  <2>5. CASE UNCHANGED vars
    BY <2>5 DEF TypeOK, vars
  <2>6. QED BY <2>1, <2>2, <2>3, <2>4, <2>5 DEF Next
<1>3. QED BY <1>1, <1>2, PTL DEF Spec

\* What the command buffer has, the cache has, below its high-water mark.
THEOREM CacheHasWhatWasSent == Spec => []CacheIsSent
<1>1. Init => CacheIsSent
  BY DEF Init, CacheIsSent
<1>2. TypeOK /\ CacheIsSent /\ [Next]_vars => CacheIsSent'
  <2> SUFFICES ASSUME TypeOK, CacheIsSent, [Next]_vars PROVE CacheIsSent'
    OBVIOUS
  <2>1. CASE SetResource \/ SetConstant \/ UNCHANGED vars
    BY <2>1 DEF CacheIsSent, SetResource, SetConstant, vars
  <2>2. CASE NextCommandList
    BY <2>2 DEF CacheIsSent, NextCommandList
  <2>3. ASSUME NEW l \in Layouts, Update(l) PROVE CacheIsSent'
    <3>1. CASE Skip(l)
      BY <3>1 DEF CacheIsSent, Skip
    <3>2. ASSUME NEW data \in [Range -> Values], Push(l, data) PROVE CacheIsSent'
      <4> SUFFICES ASSUME NEW c \in Range, gpu'[c] # Undefined
                   PROVE  cache'[c] = gpu'[c] /\ c < valid'
        BY DEF CacheIsSent
      <4>1. /\ c \in Int /\ valid \in Int /\ End(l) \in Int
            /\ valid' = Max2(valid, End(l))
        BY <3>2, LayoutFits, PushConstAssumption
        DEF PushConstAssumption, TypeOK, Push, Range
      <4>2. CASE c \in Cells(l)
        <5>1. c < End(l)
          BY <4>1, <4>2, LayoutFits DEF Cells
        <5>2. QED BY <3>2, <4>1, <4>2, <5>1 DEF Push, Overlay, Max2
      <4>3. CASE c \notin Cells(l)
        <5>1. gpu'[c] = gpu[c] /\ cache'[c] = cache[c]
          BY <3>2, <4>3 DEF Push, Overlay
        <5>2. QED BY <4>1, <5>1 DEF CacheIsSent, Max2
      <4>4. QED BY <4>2, <4>3
    <3>3. QED BY <2>3, <3>1, <3>2, UpdateCases
  <2>4. QED BY <2>1, <2>2, <2>3 DEF Next
<1>3. QED BY <1>1, <1>2, PushConstTypeCorrect, PTL DEF Spec

\* A draw whose push data all comes from resources, and whose dwords were ever
\* sent in this command list, sees the current data.
THEOREM DirectDrawsAreCurrent == Spec => []DirectDrawIsCurrent
<1>1. Init => DirectDrawIsCurrent
  BY DEF Init, DirectDrawIsCurrent
<1>2. TypeOK /\ CacheIsSent /\ DirectDrawIsCurrent /\ [Next]_vars => DirectDrawIsCurrent'
  <2> SUFFICES ASSUME TypeOK, CacheIsSent, DirectDrawIsCurrent, [Next]_vars
               PROVE  DirectDrawIsCurrent'
    OBVIOUS
  <2>1. CASE SetResource \/ SetConstant \/ NextCommandList
    BY <2>1 DEF DirectDrawIsCurrent, SetResource, SetConstant, NextCommandList
  <2>2. ASSUME NEW l \in Layouts, Update(l) PROVE DirectDrawIsCurrent'
    <3> SUFFICES ASSUME draw'[1] = l, Direct(l), Sent(l)', NEW c \in Cells(l)
                 PROVE  gpu'[c] = Data(l)'[c]
      <4>1. draw' = <<l, FALSE>> \/ draw' = <<l, TRUE>>
        BY <2>2 DEF Update, PushDirect, PushGather, Skip, Push
      <4>2. <<l, FALSE>>[1] = l /\ <<l, TRUE>>[1] = l
        OBVIOUS
      <4>3. draw'[1] = l
        BY <4>1, <4>2, Zenon
      <4>4. QED BY <4>3 DEF DirectDrawIsCurrent, Direct, Cells, End
    <3>1. c \in Range /\ c \in l.resources
      BY LayoutFits DEF Direct
    <3>2. CASE Skip(l)
      <4>1. gpu[c] # Undefined /\ cache[c] = resource[c]
        BY <3>2 DEF Skip, Unchanged, Sent, Cells, End
      <4>2. gpu[c] = resource[c]
        BY <3>1, <4>1 DEF CacheIsSent
      <4>3. QED BY <3>1, <3>2, <4>2 DEF Skip, Data
    <3>3. ASSUME NEW data \in [Range -> Values], Push(l, data), data[c] = Data(l)[c]
          PROVE  gpu'[c] = Data(l)'[c]
      BY <3>1, <3>3 DEF Push, Overlay, Data
    <3>4. QED BY <2>2, <3>2, <3>3, UpdateCases
  <2>3. CASE UNCHANGED vars
    BY <2>3 DEF DirectDrawIsCurrent, vars, Direct, Sent, Data, Cells, End
  <2>4. QED BY <2>1, <2>2, <2>3 DEF Next
<1>3. QED BY <1>1, <1>2, PushConstTypeCorrect, CacheHasWhatWasSent, PTL DEF Spec

\* For layouts fed by resources alone nothing is sent that the command buffer
\* already has.
THEOREM NothingSentTwice == Spec => NoRedundantSend
<1>1. TypeOK /\ CacheIsSent /\ [Next]_vars
        => [\A l \in Layouts :
              (draw' = <<l, TRUE>> /\ Direct(l))
                 => \E c \in Cells(l) : gpu[c] # resource[c]]_vars
  <2> SUFFICES ASSUME TypeOK, CacheIsSent, Next, NEW l \in Layouts,
                      draw' = <<l, TRUE>>, Direct(l)
               PROVE  \E c \in Cells(l) : gpu[c] # resource[c]
    OBVIOUS
  <2>1. ~Unchanged(l) /\ l.size > 0
    BY DEF Next, SetResource, SetConstant, NextCommandList,
           Update, Skip, PushDirect, PushGather, Push
  <2>2. CASE End(l) > valid
    <3>1. End(l) - 1 \in Cells(l) /\ ~(End(l) - 1 < valid)
      BY <2>1, <2>2, LayoutFits, PushConstAssumption
      DEF PushConstAssumption, Cells, End, TypeOK
    <3>2. End(l) - 1 \in Range
      BY <3>1, LayoutFits
    <3>3. gpu[End(l) - 1] = Undefined
      BY <3>1, <3>2 DEF CacheIsSent
    <3>4. resource[End(l) - 1] # Undefined
      BY <3>2, PushConstAssumption DEF PushConstAssumption, TypeOK
    <3>5. QED BY <3>1, <3>3, <3>4
  <2>3. CASE End(l) <= valid
    <3>1. PICK c \in Cells(l) : cache[c] # resource[c]
      BY <2>1, <2>3 DEF Unchanged
    <3>2. c \in Range /\ resource[c] # Undefined
      BY LayoutFits, PushConstAssumption DEF PushConstAssumption, TypeOK
    <3>3. gpu[c] # resource[c]
      BY <3>1, <3>2 DEF CacheIsSent
    <3>4. QED BY <3>3
  <2>4. QED BY <2>2, <2>3, LayoutFits, PushConstAssumption DEF PushConstAssumption, TypeOK
<1>2. QED BY <1>1, PushConstTypeCorrect, CacheHasWhatWasSent, PTL DEF Spec, NoRedundantSend
=============================================================================
