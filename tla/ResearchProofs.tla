--------------------------- MODULE ResearchProofs ---------------------------
(***************************************************************************)
(* The index is true of the sources, the diagrams of the index, and the    *)
(* tables of the register descriptions, whatever these are.                *)
(*                                                                         *)
(* Each of the three has an inductive invariant that says of the part read *)
(* so far what the property says of the whole: IndexInv of the sites noted *)
(* and the tags read, GraphInv of the functions visited, RegGenInv of the  *)
(* elements read and the tables written.  Deduped and Leads are functions  *)
(* defined by recursion; that there are such functions, and what is true   *)
(* of each of their values, is shown with the lemmas of Induction.         *)
(***************************************************************************)
EXTENDS Research, Induction

-----------------------------------------------------------------------------
(* Sequences *)

\* What the elements of a concatenation are.
LEMMA ToSetConcat ==
  ASSUME NEW S, NEW s \in Seq(S), NEW t \in Seq(S)
  PROVE  s \o t \in Seq(S) /\ ToSet(s \o t) = ToSet(s) \union ToSet(t)
<1> DEFINE u == s \o t
<1>1. u \in Seq(S) /\ Len(u) = Len(s) + Len(t)
  OBVIOUS
<1>2. \A n \in 1 .. Len(s) + Len(t) : u[n] = IF n <= Len(s) THEN s[n] ELSE t[n - Len(s)]
  OBVIOUS
<1>3. ToSet(u) \subseteq ToSet(s) \union ToSet(t)
  <2>1. SUFFICES ASSUME NEW n \in 1 .. Len(s) + Len(t) PROVE u[n] \in ToSet(s) \union ToSet(t)
    BY <1>1 DEF ToSet
  <2>2. CASE n <= Len(s)
    BY <1>2, <2>2 DEF ToSet
  <2>3. CASE n > Len(s)
    <3>1. n - Len(s) \in 1 .. Len(t)
      BY <2>3
    <3>2. QED BY <1>2, <2>3, <3>1 DEF ToSet
  <2>4. QED BY <2>2, <2>3
<1>4. ToSet(s) \subseteq ToSet(u)
  <2>1. \A n \in 1 .. Len(s) : n \in 1 .. Len(u) /\ u[n] = s[n]
    BY <1>1, <1>2
  <2>2. QED BY <1>1, <2>1 DEF ToSet
<1>5. ToSet(t) \subseteq ToSet(u)
  <2>1. SUFFICES ASSUME NEW n \in 1 .. Len(t) PROVE t[n] \in ToSet(u)
    BY DEF ToSet
  <2>2. n + Len(s) \in 1 .. Len(u) /\ ~(n + Len(s) <= Len(s)) /\ (n + Len(s)) - Len(s) = n
    BY <1>1
  <2>3. u[n + Len(s)] = t[n]
    <3> DEFINE m == n + Len(s)
    <3>1. m \in 1 .. Len(s) + Len(t) /\ ~(m <= Len(s)) /\ m - Len(s) = n
      BY <1>1, <2>2
    <3> HIDE DEF m
    <3>2. u[m] = t[m - Len(s)]
      BY <1>2, <3>1
    <3>3. QED BY <3>1, <3>2 DEF m
  <2>4. DOMAIN u = 1 .. Len(u)
    <3> HIDE DEF u
    <3> QED BY <1>1
  <2>5. \E i \in DOMAIN u : u[i] = t[n]
    BY <2>2, <2>3, <2>4
  <2>6. QED BY <2>5 DEF ToSet
<1>6. QED BY <1>1, <1>3, <1>4, <1>5

\* What the elements are of a sequence with one more.
LEMMA ToSetAppend ==
  ASSUME NEW S, NEW s \in Seq(S), NEW e \in S
  PROVE  Append(s, e) \in Seq(S) /\ ToSet(Append(s, e)) = ToSet(s) \union {e}
<1>1. ToSet(Append(s, e)) \subseteq ToSet(s) \union {e}
  BY DEF ToSet
<1>2. ToSet(s) \subseteq ToSet(Append(s, e))
  <2>1. \A n \in 1 .. Len(s) : n \in 1 .. Len(Append(s, e)) /\ Append(s, e)[n] = s[n]
    OBVIOUS
  <2>2. QED BY <2>1 DEF ToSet
<1>3. e \in ToSet(Append(s, e))
  <2>1. Len(s) + 1 \in 1 .. Len(Append(s, e)) /\ Append(s, e)[Len(s) + 1] = e
    OBVIOUS
  <2>2. QED BY <2>1 DEF ToSet
<1>4. QED BY <1>1, <1>2, <1>3

\* The empty sequence has none.
LEMMA EmptyToSet == ToSet(<<>>) = {}
BY DEF ToSet
\* An injection of 1 .. Cardinality(S) into a finite set S reaches all of S.
LEMMA SetToSeqsOnto ==
  ASSUME NEW S, IsFiniteSet(S), NEW t \in SetToSeqs(S)
  PROVE  t \in Seq(S) /\ ToSet(t) = S
<1> DEFINE N == Cardinality(S)
<1>1. /\ N \in Nat /\ t \in [1 .. N -> S]
      /\ \A i, j \in 1 .. N : i # j => t[i] # t[j]
  BY FS_CardinalityType DEF SetToSeqs
<1>2. ToSet(t) = {t[i] : i \in 1 .. N} /\ ToSet(t) \subseteq S
  BY <1>1 DEF ToSet
<1>3. IsFiniteSet(1 .. N) /\ Cardinality(1 .. N) = N
  BY <1>1, FS_Interval
<1>4. t \in Bijection(1 .. N, ToSet(t))
  <2>1. t \in [1 .. N -> ToSet(t)]
    BY <1>1, <1>2
  <2>2. t \in Injection(1 .. N, ToSet(t))
    BY <1>1, <2>1 DEF Injection, IsInjective
  <2>3. t \in Surjection(1 .. N, ToSet(t))
    BY <1>2, <2>1 DEF Surjection
  <2>4. QED BY <2>2, <2>3 DEF Bijection
<1>5. ExistsBijection(1 .. N, ToSet(t))
  BY <1>4 DEF ExistsBijection
<1>6. IsFiniteSet(ToSet(t)) /\ Cardinality(ToSet(t)) = N
  <2>1. IsFiniteSet(ToSet(t))
    BY <1>2, FS_Subset
  <2>2. QED BY <1>3, <1>5, <2>1, FS_Bijection
<1>7. ToSet(t) = S
  BY <1>2, <1>6, FS_Subset
<1>8. QED BY <1>1, <1>7

\* The elements of a sequence are finitely many.
LEMMA ToSetFinite ==
  ASSUME NEW S, NEW s \in Seq(S)
  PROVE  IsFiniteSet(ToSet(s))
<1>1. IsFiniteSet(1 .. Len(s)) /\ DOMAIN s = 1 .. Len(s) /\ Len(s) \in Nat
  BY FS_Interval
<1>2. s \in Surjection(1 .. Len(s), ToSet(s))
  BY <1>1 DEF ToSet, Surjection
<1>3. QED BY <1>1, <1>2, FS_Surjection

-----------------------------------------------------------------------------
(* The index *)

FuncName == {t.name : t \in Tags}
NodeFunction == FuncName \union {Unknown(path) : path \in DOMAIN Base}
Node == [File : DOMAIN Base, Line : Nat, Function : NodeFunction]
FuncRecord == [File : DOMAIN Base, Line : Nat, Gen8Site : BOOLEAN, Gen8Lines : Seq(Nat),
         IsEntry : BOOLEAN]

TagsRead == tags \ tagsLeft
SitesNoted == sites \ sitesLeft

IndexTypes ==
    /\ tags \subseteq Tags /\ tagsLeft \subseteq tags
    /\ sites \subseteq Sites /\ sitesLeft \subseteq sites
    /\ pc \in {"functions", "sites", "indexed"}
    /\ pc # "functions" => tagsLeft = {}
    /\ pc = "functions" => sitesLeft = sites /\ Gen8Nodes = <<>>
    /\ pc = "indexed" => sitesLeft = {}

FunctionsRead ==
    /\ DOMAIN Functions = {t.name : t \in TagsRead}
    /\ \A name \in DOMAIN Functions :
        /\ Functions[name] \in FuncRecord
        /\ [name |-> name, path |-> Functions[name].File, line |-> Functions[name].Line] \in TagsRead
        /\ Functions[name].Gen8Site <=> Functions[name].Gen8Lines # <<>>
        /\ pc = "functions" => Functions[name].Gen8Lines = <<>>
    /\ EntryPoints \in Seq(FuncName)
    /\ ToSet(EntryPoints) = DOMAIN Functions \cap Entries

FilesRead ==
    /\ fileFuncs \in [DOMAIN Base -> Seq(Tags)]
    /\ \A path \in DOMAIN Base :
        /\ ToSet(fileFuncs[path]) = {t \in TagsRead : t.path = path}
        /\ pc # "functions" =>
                \A m, n \in DOMAIN fileFuncs[path] :
                    m < n => fileFuncs[path][m].line <= fileFuncs[path][n].line

NodesMade ==
    /\ Gen8Nodes \in Seq(Node)
    /\ pc # "indexed" =>
        \A s \in SitesNoted : \E n \in ToSet(Gen8Nodes) :
            n.File = s.path /\ n.Line = s.line /\ n.Function \in Holders(s)
    /\ \A n \in ToSet(Gen8Nodes) :
        LET s == [path |-> n.File, line |-> n.Line]
        IN  s \in SitesNoted /\ n.Function \in Holders(s)

\* A tag that no other can be taken for.
Own(t) == \A u \in tags \ {t} : u.name # t.name /\ (u.path = t.path => u.line # t.line)

Increasing(lines) == \A m, n \in DOMAIN lines : m < n => lines[m] < lines[n]

\* The lines of the sites noted that are in t.
LinesOf(t) == {s.line : s \in {s \in SitesNoted : s.path = t.path /\ t.name \in Holders(s)}}

MarksMade ==
    /\ \A s \in SitesNoted : \A other \in sitesLeft : s.path = other.path => s.line < other.line
    /\ pc # "functions" =>
        \A t \in tags : Own(t) =>
            /\ Increasing(Functions[t.name].Gen8Lines)
            /\ ToSet(Functions[t.name].Gen8Lines) = LinesOf(t)

IndexInv ==
    /\ IndexTypes /\ FunctionsRead /\ FilesRead /\ NodesMade /\ MarksMade
    /\ pc = "indexed" => NodesAreSites

LEMMA IndexInvInit == Init => IndexInv
<1> SUFFICES ASSUME Init PROVE IndexInv
  OBVIOUS
<1> USE DEF Init
<1>1. IndexTypes /\ TagsRead = {} /\ SitesNoted = {}
  BY DEF IndexTypes, ParseCtags, ParseGen8Sites, TagsRead, SitesNoted
<1>2. FunctionsRead
  BY <1>1, EmptyToSet DEF FunctionsRead
<1>3. FilesRead
  BY <1>1, EmptyToSet DEF FilesRead
<1>4. NodesMade
  BY <1>1, EmptyToSet DEF NodesMade
<1>5. MarksMade
  BY <1>1 DEF MarksMade
<1>6. QED BY <1>1, <1>2, <1>3, <1>4, <1>5 DEF IndexInv

LEMMA AddFunctionInv == IndexInv /\ AddFunction => IndexInv'
<1> SUFFICES ASSUME IndexInv, AddFunction PROVE IndexInv'
  OBVIOUS
<1>1. PICK tag \in tagsLeft :
        /\ tagsLeft' = tagsLeft \ {tag}
        /\ Functions' = [name \in DOMAIN Functions \union {tag.name} |->
                            IF name = tag.name THEN FuncDef(tag) ELSE Functions[name]]
        /\ fileFuncs' = [fileFuncs EXCEPT ![tag.path] = Append(@, tag)]
        /\ EntryPoints' = IF tag.name \in Entries THEN Append(EntryPoints, tag.name)
                                                  ELSE EntryPoints
  BY DEF AddFunction
<1>2. pc = "functions" /\ pc' = pc /\ UNCHANGED <<tags, sites, sitesLeft, Gen8Nodes>>
  BY DEF AddFunction
<1>3. /\ tag \in Tags /\ tag.name \in FuncName /\ tag.path \in DOMAIN Base /\ tag.line \in Nat
      /\ tag = [name |-> tag.name, path |-> tag.path, line |-> tag.line]
  BY <1>1, IndexAssumption DEF IndexInv, IndexTypes, FuncName
<1>4. IndexTypes'
  BY <1>1, <1>2 DEF IndexInv, IndexTypes
<1>5. TagsRead' = TagsRead \union {tag} /\ SitesNoted' = {} /\ SitesNoted = {}
  BY <1>1, <1>2 DEF IndexInv, IndexTypes, TagsRead, SitesNoted
<1>6. FunctionsRead'
  <2>1. DOMAIN Functions' = {t.name : t \in TagsRead'}
    BY <1>1, <1>5 DEF IndexInv, FunctionsRead
  <2>2. ASSUME NEW name \in DOMAIN Functions'
        PROVE  /\ Functions'[name] \in FuncRecord
               /\ [name |-> name, path |-> Functions'[name].File, line |-> Functions'[name].Line]
                     \in TagsRead'
               /\ Functions'[name].Gen8Site <=> Functions'[name].Gen8Lines # <<>>
               /\ Functions'[name].Gen8Lines = <<>>
    <3>1. CASE name = tag.name
      <4>1. Functions'[name] = FuncDef(tag)
        BY <1>1, <3>1
      <4>2. FuncDef(tag) \in FuncRecord
        BY <1>3 DEF FuncDef, FuncRecord
      <4>3. QED BY <1>3, <1>5, <3>1, <4>1, <4>2 DEF FuncDef
    <3>2. CASE name # tag.name
      <4>1. name \in DOMAIN Functions /\ Functions'[name] = Functions[name]
        BY <1>1, <3>2
      <4>2. QED BY <1>2, <1>5, <4>1 DEF IndexInv, FunctionsRead
    <3>3. QED BY <3>1, <3>2
  <2>3. EntryPoints' \in Seq(FuncName) /\ ToSet(EntryPoints') = DOMAIN Functions' \cap Entries
    <3>1. EntryPoints \in Seq(FuncName) /\ ToSet(EntryPoints) = DOMAIN Functions \cap Entries
      BY DEF IndexInv, FunctionsRead
    <3>2. DOMAIN Functions' = DOMAIN Functions \union {tag.name}
      BY <1>1
    <3>3. CASE tag.name \in Entries
      <4>1. /\ Append(EntryPoints, tag.name) \in Seq(FuncName)
            /\ ToSet(Append(EntryPoints, tag.name)) = ToSet(EntryPoints) \union {tag.name}
        BY <1>3, <3>1, ToSetAppend
      <4>2. EntryPoints' = Append(EntryPoints, tag.name)
        BY <1>1, <3>3
      <4>3. QED BY <3>1, <3>2, <3>3, <4>1, <4>2
    <3>4. CASE tag.name \notin Entries
      BY <1>1, <3>1, <3>2, <3>4
    <3>5. QED BY <3>3, <3>4
  <2>4. ToSet(EntryPoints)' = ToSet(EntryPoints')
    BY DEF ToSet
  <2>5. QED BY <1>2, <2>1, <2>2, <2>3, <2>4 DEF FunctionsRead
<1>7. FilesRead'
  <2>1. fileFuncs \in [DOMAIN Base -> Seq(Tags)]
    BY DEF IndexInv, FilesRead
  <2>2. fileFuncs' \in [DOMAIN Base -> Seq(Tags)]
    BY <1>1, <1>3, <2>1
  <2>3. ASSUME NEW path \in DOMAIN Base
        PROVE  ToSet(fileFuncs'[path]) = {t \in TagsRead' : t.path = path}
    <3>1. ToSet(fileFuncs[path]) = {t \in TagsRead : t.path = path} /\ fileFuncs[path] \in Seq(Tags)
      BY DEF IndexInv, FilesRead
    <3>2. CASE path = tag.path
      <4>1. fileFuncs'[path] = Append(fileFuncs[path], tag)
        BY <1>1, <2>1, <3>2
      <4>2. ToSet(Append(fileFuncs[path], tag)) = ToSet(fileFuncs[path]) \union {tag}
        BY <1>3, <3>1, ToSetAppend
      <4>3. QED BY <1>5, <3>1, <3>2, <4>1, <4>2
    <3>3. CASE path # tag.path
      <4>1. fileFuncs'[path] = fileFuncs[path]
        BY <1>1, <2>1, <3>3
      <4>2. QED BY <1>5, <3>1, <3>3, <4>1
    <3>4. QED BY <3>2, <3>3
  <2>4. QED BY <1>2, <2>2, <2>3 DEF FilesRead, ToSet
<1>8. NodesMade'
  BY <1>2, <1>5, EmptyToSet DEF IndexInv, IndexTypes, NodesMade, ToSet
<1>9. MarksMade'
  BY <1>2, <1>5 DEF MarksMade
<1>10. QED BY <1>2, <1>4, <1>6, <1>7, <1>8, <1>9 DEF IndexInv

LEMMA SortFunctionsInv == IndexInv /\ SortFunctions => IndexInv'
<1> SUFFICES ASSUME IndexInv, SortFunctions PROVE IndexInv'
  OBVIOUS
<1>1. /\ pc = "functions" /\ tagsLeft = {} /\ pc' = "sites"
      /\ UNCHANGED <<tags, sites, tagsLeft, sitesLeft, Functions, EntryPoints, Gen8Nodes>>
  BY DEF SortFunctions
<1>2. /\ IndexTypes' /\ SitesNoted' = {} /\ SitesNoted = {} /\ TagsRead' = TagsRead /\ TagsRead = tags
      /\ Gen8Nodes = <<>>
  BY <1>1 DEF IndexInv, IndexTypes, SitesNoted, TagsRead
<1>3. FunctionsRead'
  <2>1. ToSet(EntryPoints)' = ToSet(EntryPoints)
    BY <1>1 DEF ToSet
  <2>2. QED BY <1>1, <1>2, <2>1 DEF IndexInv, FunctionsRead
<1>4. FilesRead'
  <2>1. ASSUME NEW path \in DOMAIN Base
        PROVE  /\ fileFuncs'[path] \in Seq(Tags)
               /\ ToSet(fileFuncs'[path]) = {t \in TagsRead : t.path = path}
               /\ \A m, n \in DOMAIN fileFuncs'[path] :
                    m < n => fileFuncs'[path][m].line <= fileFuncs'[path][n].line
    <3>1. fileFuncs'[path] \in SortedByLine(fileFuncs[path])
      BY DEF SortFunctions
    <3>2. /\ fileFuncs[path] \in Seq(Tags)
          /\ ToSet(fileFuncs[path]) = {t \in TagsRead : t.path = path}
      BY DEF IndexInv, FilesRead
    <3>3. IsFiniteSet(ToSet(fileFuncs[path]))
      BY <3>2, ToSetFinite
    <3> DEFINE S == ToSet(fileFuncs[path])
               t == fileFuncs'[path]
    <3>4. t \in SetToSeqs(S) /\ \A m, n \in DOMAIN t : m < n => t[m].line <= t[n].line
      BY <3>1 DEF SortedByLine
    <3>5. t \in Seq(S) /\ ToSet(t) = S
      <4> HIDE DEF S, t
      <4> QED BY <3>3, <3>4, SetToSeqsOnto DEF S
    <3>6. S \subseteq Tags
      BY <3>2 DEF ToSet
    <3>7. t \in Seq(Tags)
      <4> HIDE DEF S, t
      <4> QED BY <3>5, <3>6
    <3>8. QED BY <3>2, <3>4, <3>5, <3>7
  <2>2. fileFuncs' \in [DOMAIN Base -> Seq(Tags)]
    <3>1. DOMAIN fileFuncs' = DOMAIN Base /\ fileFuncs' = [path \in DOMAIN Base |-> fileFuncs'[path]]
      BY DEF SortFunctions
    <3>2. QED BY <2>1, <3>1
  <2>3. QED BY <1>2, <2>1, <2>2 DEF FilesRead, ToSet
<1>5. NodesMade'
  BY <1>1, <1>2, EmptyToSet DEF IndexInv, NodesMade, ToSet
<1>6. MarksMade'
  <2>1. ASSUME NEW t \in tags
        PROVE  Functions[t.name].Gen8Lines = <<>>
    BY <1>1, <1>2 DEF IndexInv, FunctionsRead
  <2>2. \A t : LinesOf(t)' = {}
    BY <1>2 DEF LinesOf
  <2>3. QED BY <1>1, <1>2, <2>1, <2>2, EmptyToSet DEF MarksMade, Increasing, ToSet
<1>7. QED BY <1>1, <1>2, <1>3, <1>4, <1>5, <1>6 DEF IndexInv

\* Once the functions of each file are sorted, the last that begins at a line or
\* before is one the line may be in.
LEMMA EnclosingHolds ==
  ASSUME IndexTypes, FilesRead, pc # "functions", NEW s \in Sites
  PROVE  FindEnclosingFunction(s.path, s.line) \in Holders(s)
<1> DEFINE funcs == fileFuncs[s.path]
           I == {i \in 1 .. Len(funcs) : funcs[i].line <= s.line}
           before == {t \in tags : t.path = s.path /\ t.line <= s.line}
<1>1. s.path \in DOMAIN Base /\ s.line \in Nat
  BY IndexAssumption
<1>2. /\ funcs \in Seq(Tags) /\ Len(funcs) \in Nat /\ DOMAIN funcs = 1 .. Len(funcs)
      /\ \A m, n \in 1 .. Len(funcs) : m < n => funcs[m].line <= funcs[n].line
      /\ {funcs[i] : i \in 1 .. Len(funcs)} = {t \in tags : t.path = s.path}
  <2>1. funcs \in Seq(Tags)
    BY <1>1 DEF FilesRead
  <2>2. Len(funcs) \in Nat /\ DOMAIN funcs = 1 .. Len(funcs)
    <3> HIDE DEF funcs
    <3> QED BY <2>1
  <2>3. TagsRead = tags
    BY DEF IndexTypes, TagsRead
  <2>4. QED BY <1>1, <2>1, <2>2, <2>3 DEF FilesRead, ToSet
<1>3. \A t \in tags : t.line \in Nat
  BY IndexAssumption DEF IndexTypes
<1>4. before = {funcs[i] : i \in I}
  <2> HIDE DEF funcs
  <2>1. \A t \in before : \E i \in I : t = funcs[i]
    BY <1>2
  <2>2. \A i \in I : funcs[i] \in before
    BY <1>2
  <2>3. QED BY <2>1, <2>2
<1>5. CASE I = {}
  <2>1. FindEnclosingFunction(s.path, s.line) = Unknown(s.path)
    BY <1>5 DEF FindEnclosingFunction, SelectLastInSeq
  <2>2. before = {}
    BY <1>4, <1>5
  <2>3. QED BY <2>1, <2>2 DEF Holders
<1>6. CASE I # {}
  <2>1. I \in SUBSET (0 .. Len(funcs)) /\ I \subseteq Int
    BY <1>2
  <2>2. PICK x \in I : \A y \in I : y <= x
    <3> HIDE DEF I, funcs
    <3> QED BY <1>2, <1>6, <2>1, GreatestExists
  <2>3. FindEnclosingFunction(s.path, s.line) = funcs[x].name
    <3>1. SelectLastInSeq(funcs, LAMBDA f : f.line <= s.line) = CHOOSE z \in I : \A y \in I : z >= y
      BY <1>6 DEF SelectLastInSeq, Max
    <3>2. \A z \in I : (\A y \in I : z >= y) => z = x
      <4> HIDE DEF I
      <4> QED BY <2>1, <2>2
    <3>3. SelectLastInSeq(funcs, LAMBDA f : f.line <= s.line) = x
      <4>1. \A y \in I : x >= y
        <5> HIDE DEF I
        <5> QED BY <2>1, <2>2
      <4> HIDE DEF I
      <4>2. QED BY <3>1, <3>2, <4>1
    <3>4. x # 0
      BY <1>2
    <3>5. QED BY <3>3, <3>4 DEF FindEnclosingFunction
  <2>4. funcs[x] \in before
    BY <1>4, <2>2
  <2>5. \A u \in before : u.line <= funcs[x].line
    <3>1. SUFFICES ASSUME NEW u \in before PROVE u.line <= funcs[x].line
      OBVIOUS
    <3>2. PICK y \in I : u = funcs[y]
      BY <1>4
    <3>3. y <= x /\ x \in Int /\ y \in Int
      BY <2>1, <2>2
    <3>4. y < x \/ y = x
      BY <3>3
    <3>5. funcs[x].line \in Nat
      BY <1>3, <2>4
    <3>6. QED BY <1>2, <2>2, <3>2, <3>4, <3>5
  <2>6. QED BY <2>3, <2>4, <2>5 DEF Holders
<1>7. QED BY <1>5, <1>6

\* dedupGen8Nodes keeps one node of every ID.
LEMMA DedupedKeepsOne ==
  ASSUME NEW nodes \in Seq(Node)
  PROVE  /\ Deduped(nodes) \in Seq(Node)
         /\ ToSet(Deduped(nodes)) \subseteq ToSet(nodes)
         /\ \A n \in ToSet(nodes) : \E kept \in ToSet(Deduped(nodes)) : ID(kept) = ID(n)
         /\ \A m, n \in DOMAIN Deduped(nodes) : ID(Deduped(nodes)[m]) = ID(Deduped(nodes)[n]) => m = n
<1> DEFINE N == Len(nodes)
           known(n) == \E m \in 1 .. n - 1 : ID(nodes[m]) = ID(nodes[n])
           add == [n \in 1 .. N |-> [q \in Seq(Node) |-> IF known(n) THEN q ELSE Append(q, nodes[n])]]
           Out(g) == g = [n \in 0 .. N |-> IF n = 0 THEN <<>>
                                         ELSE IF known(n) THEN g[n - 1]
                                         ELSE Append(g[n - 1], nodes[n])]
           out == CHOOSE g : Out(g)
<1>1. N \in Nat /\ DOMAIN nodes = 1 .. N /\ \A n \in 1 .. N : nodes[n] \in Node
  OBVIOUS
<1>2. \E g : Out(g)
  <2>1. add \in [1 .. N -> [Seq(Node) -> Seq(Node)]]
    <3>1. \A n \in 1 .. N, q \in Seq(Node) : (IF known(n) THEN q ELSE Append(q, nodes[n])) \in Seq(Node)
      <4> HIDE DEF known, N
      <4> QED BY <1>1
    <3> HIDE DEF known, N
    <3>2. QED BY <3>1
  <2>2. <<>> \in Seq(Node)
    OBVIOUS
  <2>3. PICK g \in [0 .. N -> Seq(Node)] : IsIteration(g, N, <<>>, add)
    <3> HIDE DEF add, N
    <3> QED BY <1>1, <2>1, <2>2, IterationExists
  <2>4. \A n \in 1 .. N : g[n] = IF known(n) THEN g[n - 1] ELSE Append(g[n - 1], nodes[n])
    <3>1. SUFFICES ASSUME NEW n \in 1 .. N
                   PROVE  g[n] = IF known(n) THEN g[n - 1] ELSE Append(g[n - 1], nodes[n])
      OBVIOUS
    <3>2. g[n] = add[n][g[n - 1]]
      BY <2>3 DEF IsIteration
    <3> HIDE DEF known, N
    <3>3. g[n - 1] \in Seq(Node)
      <4>1. n - 1 \in 0 .. N
        BY <1>1
      <4>2. QED BY <2>3, <4>1
    <3>4. QED BY <3>2, <3>3
  <2>5. g[0] = <<>> /\ g = [n \in 0 .. N |-> g[n]]
    BY <2>3 DEF IsIteration
  <2> HIDE DEF known
  <2>6. \A n \in 0 .. N : g[n] = IF n = 0 THEN <<>>
                               ELSE IF known(n) THEN g[n - 1] ELSE Append(g[n - 1], nodes[n])
    <3> HIDE DEF N
    <3>1. \A n \in 0 .. N : n = 0 \/ n \in 1 .. N
      BY <1>1
    <3>2. \A n \in 1 .. N : n # 0
      OBVIOUS
    <3>3. QED BY <2>4, <2>5, <3>1, <3>2
  <2>7. Out(g)
    BY <2>5, <2>6
  <2>8. QED BY <2>7
<1>3. Out(out)
  <2> HIDE DEF Out
  <2> QED BY <1>2
<1>4. Deduped(nodes) = out[N]
  BY DEF Deduped
<1> HIDE DEF out
<1>5. /\ out[0] = <<>>
      /\ \A n \in 1 .. N : out[n] = IF known(n) THEN out[n - 1] ELSE Append(out[n - 1], nodes[n])
  <2> HIDE DEF known
  <2>1. \A n \in 0 .. N : out[n] = IF n = 0 THEN <<>>
                               ELSE IF known(n) THEN out[n - 1] ELSE Append(out[n - 1], nodes[n])
    BY <1>3
  <2>2. 0 \in 0 .. N /\ \A n \in 1 .. N : n \in 0 .. N /\ n # 0
    BY <1>1
  <2>3. QED BY <2>1, <2>2
\* What holds of the first n nodes.
<1> DEFINE Good(n) == /\ out[n] \in Seq(Node)
                      /\ ToSet(out[n]) \subseteq {nodes[m] : m \in 1 .. n}
                      /\ \A m \in 1 .. n : \E kept \in ToSet(out[n]) : ID(kept) = ID(nodes[m])
                      /\ \A i, j \in DOMAIN out[n] : ID(out[n][i]) = ID(out[n][j]) => i = j
           S == {n \in Nat : n <= N => Good(n)}
<1>6. 0 \in S
  <2>1. out[0] = <<>> /\ DOMAIN <<>> = {} /\ ToSet(<<>>) = {} /\ 1 .. 0 = {}
    BY <1>5, EmptyToSet
  <2> HIDE DEF out
  <2>2. Good(0)
    BY <2>1
  <2> HIDE DEF Good
  <2>3. QED BY <2>2
<1>7. ASSUME NEW n \in Nat, n \in S PROVE n + 1 \in S
  <2>1. SUFFICES ASSUME n + 1 <= N PROVE Good(n + 1)
    OBVIOUS
  <2>2. n + 1 \in 1 .. N /\ (n + 1) - 1 = n /\ nodes[n + 1] \in Node /\ Good(n)
        /\ 1 .. n + 1 = (1 .. n) \union {n + 1}
    BY <1>1, <1>7, <2>1
  <2>3. CASE known(n + 1)
    <3>1. out[n + 1] = out[n]
      <4> HIDE DEF known
      <4> QED BY <1>5, <2>2, <2>3
    <3>2. \E kept \in ToSet(out[n]) : ID(kept) = ID(nodes[n + 1])
      <4>1. PICK m \in 1 .. n : ID(nodes[m]) = ID(nodes[n + 1])
        BY <2>2, <2>3
      <4>2. \E kept \in ToSet(out[n]) : ID(kept) = ID(nodes[m])
        BY <2>2
      <4>3. QED BY <4>1, <4>2
    <3> HIDE DEF known
    <3>3. ToSet(out[n]) \subseteq {nodes[m] : m \in 1 .. n + 1}
      BY <2>2
    <3>4. \A m \in 1 .. n + 1 : \E kept \in ToSet(out[n]) : ID(kept) = ID(nodes[m])
      BY <2>2, <3>2
    <3>5. QED BY <2>2, <3>1, <3>3, <3>4
  <2>4. CASE ~known(n + 1)
    <3> DEFINE q == out[n]
               longer == Append(q, nodes[n + 1])
    <3>1. out[n + 1] = longer
      <4> HIDE DEF known
      <4> QED BY <1>5, <2>2, <2>4
    <3>2. q \in Seq(Node) /\ ToSet(q) \subseteq {nodes[m] : m \in 1 .. n}
      BY <2>2
    <3>3. longer \in Seq(Node) /\ ToSet(longer) = ToSet(q) \union {nodes[n + 1]}
      <4> HIDE DEF q
      <4> QED BY <2>2, <3>2, ToSetAppend
    <3>4. \A m \in 1 .. n + 1 : \E kept \in ToSet(longer) : ID(kept) = ID(nodes[m])
      <4>1. \A m \in 1 .. n : \E kept \in ToSet(q) : ID(kept) = ID(nodes[m])
        BY <2>2
      <4> HIDE DEF q, longer
      <4>2. QED BY <2>2, <3>3, <4>1
    <3>5. \A kept \in ToSet(q) : ID(kept) # ID(nodes[n + 1])
      <4>1. \A m \in 1 .. n : ID(nodes[m]) # ID(nodes[n + 1])
        BY <2>2, <2>4
      <4> HIDE DEF q
      <4>2. QED BY <3>2, <4>1
    <3>6. \A i, j \in DOMAIN longer : ID(longer[i]) = ID(longer[j]) => i = j
      <4>1. \A i, j \in DOMAIN q : ID(q[i]) = ID(q[j]) => i = j
        BY <2>2
      <4> HIDE DEF q
      <4>2. /\ Len(q) \in Nat /\ DOMAIN q = 1 .. Len(q) /\ DOMAIN longer = 1 .. Len(q) + 1
            /\ longer[Len(q) + 1] = nodes[n + 1]
            /\ \A i \in DOMAIN q : longer[i] = q[i] /\ q[i] \in ToSet(q)
        BY <3>2 DEF ToSet
      <4> HIDE DEF longer
      <4>3. \A i \in DOMAIN longer : i \in DOMAIN q \/ i = Len(q) + 1
        BY <4>2
      <4>4. QED BY <3>5, <4>1, <4>2, <4>3
    <3>7. ToSet(longer) \subseteq {nodes[m] : m \in 1 .. n + 1}
      <4> HIDE DEF q, longer
      <4> QED BY <2>2, <3>2, <3>3
    <3> HIDE DEF q, longer
    <3>8. QED BY <3>1, <3>3, <3>4, <3>6, <3>7
  <2>5. QED BY <2>3, <2>4
<1>8. Good(N)
  <2>1. N \in S
    <3> HIDE DEF S, N
    <3> QED BY <1>1, <1>6, <1>7, NatSetInduction
  <2> HIDE DEF Good
  <2>2. QED BY <1>1, <2>1
<1>9. ToSet(nodes) = {nodes[m] : m \in 1 .. N}
  BY <1>1 DEF ToSet
<1> HIDE DEF N
<1>10. QED BY <1>4, <1>8, <1>9

\* A site is in a tag no other can be taken for, or in nothing of its name.
LEMMA HolderIsOwn ==
  ASSUME IndexTypes, NEW s \in Sites, NEW t \in tags, Own(t), NEW name \in Holders(s)
  PROVE  name = t.name <=> s.path = t.path /\ t.name \in Holders(s)
<1> DEFINE before == {u \in tags : u.path = s.path /\ u.line <= s.line}
           last == {u \in before : \A v \in before : v.line <= u.line}
<1>1. s.path \in DOMAIN Base /\ \A u \in tags : u.line \in Nat /\ u.name # Unknown(s.path)
  BY IndexAssumption DEF IndexTypes
<1>2. CASE before = {}
  <2>1. Holders(s) = {Unknown(s.path)}
    BY <1>2 DEF Holders
  <2>2. QED BY <1>1, <2>1
<1>3. CASE before # {}
  <2>1. Holders(s) = {u.name : u \in last}
    BY <1>3 DEF Holders
  <2>2. PICK u \in last : name = u.name
    BY <2>1
  <2>3. t.name \in Holders(s) => t \in last
    BY <2>1 DEF Own
  <2>4. name = t.name => u = t
    BY <2>2 DEF Own
  <2>5. s.path = t.path /\ t.name \in Holders(s) => name = t.name
    <3>1. SUFFICES ASSUME s.path = t.path, t \in last PROVE name = t.name
      BY <2>3
    <3>2. u.line <= t.line /\ t.line <= u.line /\ u.path = t.path
      BY <3>1
    <3>3. u.line = t.line
      BY <1>1, <3>2
    <3>4. QED BY <2>2, <3>2, <3>3 DEF Own
  <2>6. QED BY <2>2, <2>4, <2>5
<1>4. QED BY <1>2, <1>3

LEMMA AddSiteInv == IndexInv /\ AddSite => IndexInv'
<1> SUFFICES ASSUME IndexInv, AddSite PROVE IndexInv'
  OBVIOUS
<1>1. PICK s \in sitesLeft :
        /\ \A other \in sitesLeft : other.path = s.path => s.line <= other.line
        /\ sitesLeft' = sitesLeft \ {s}
        /\ LET enclosing == FindEnclosingFunction(s.path, s.line) IN
            /\ Gen8Nodes' = Append(Gen8Nodes, Gen8Node(s.path, s.line, enclosing))
            /\ Functions' =
                [name \in DOMAIN Functions |->
                    IF name = enclosing
                    THEN [Functions[name] EXCEPT !.Gen8Site = TRUE, !.Gen8Lines = Append(@, s.line)]
                    ELSE Functions[name]]
  BY DEF AddSite
<1>2. /\ pc = "sites" /\ pc' = "sites"
      /\ UNCHANGED <<tags, sites, tagsLeft, fileFuncs, EntryPoints>>
  BY DEF AddSite
<1> DEFINE enclosing == FindEnclosingFunction(s.path, s.line)
           node == Gen8Node(s.path, s.line, enclosing)
<1>3. /\ s \in Sites /\ s.path \in DOMAIN Base /\ s.line \in Nat
      /\ s = [path |-> s.path, line |-> s.line]
  BY <1>1, IndexAssumption DEF IndexInv, IndexTypes
<1>4. enclosing \in Holders(s)
  BY <1>2, <1>3, EnclosingHolds DEF IndexInv
<1>5. enclosing \in NodeFunction
  <2>1. Holders(s) \subseteq NodeFunction
    BY <1>3 DEF IndexInv, IndexTypes, Holders, NodeFunction, FuncName
  <2>2. QED BY <1>4, <2>1
<1>6. /\ Gen8Nodes' = Append(Gen8Nodes, node)
      /\ Functions' =
           [name \in DOMAIN Functions |->
               IF name = enclosing
               THEN [Functions[name] EXCEPT !.Gen8Site = TRUE, !.Gen8Lines = Append(@, s.line)]
               ELSE Functions[name]]
      /\ node \in Node /\ node.File = s.path /\ node.Line = s.line /\ node.Function = enclosing
  BY <1>1, <1>3, <1>5 DEF Gen8Node, Node
<1> HIDE DEF enclosing, node
<1>7. /\ IndexTypes' /\ SitesNoted' = SitesNoted \union {s} /\ s \notin SitesNoted
      /\ TagsRead' = TagsRead /\ \A x : Holders(x)' = Holders(x)
      /\ TagsRead = tags
  BY <1>1, <1>2 DEF IndexInv, IndexTypes, SitesNoted, TagsRead, Holders
<1>8. \A name \in DOMAIN Functions :
        /\ Functions[name] \in FuncRecord
        /\ [name |-> name, path |-> Functions[name].File, line |-> Functions[name].Line] \in TagsRead
        /\ Functions[name].Gen8Site <=> Functions[name].Gen8Lines # <<>>
  BY DEF IndexInv, FunctionsRead
<1>9. FunctionsRead'
  <2>1. DOMAIN Functions' = DOMAIN Functions
    BY <1>6
  <2>2. ASSUME NEW name \in DOMAIN Functions
        PROVE  /\ Functions'[name] \in FuncRecord
               /\ [name |-> name, path |-> Functions'[name].File, line |-> Functions'[name].Line]
                     \in TagsRead
               /\ Functions'[name].Gen8Site <=> Functions'[name].Gen8Lines # <<>>
    <3>1. CASE name = enclosing
      <4>1. Functions'[name] = [Functions[name] EXCEPT !.Gen8Site = TRUE,
                                                      !.Gen8Lines = Append(@, s.line)]
        BY <1>6, <3>1
      <4>2. Functions[name].Gen8Lines \in Seq(Nat)
        BY <1>8 DEF FuncRecord
      <4>3. Append(Functions[name].Gen8Lines, s.line) \in Seq(Nat)
            /\ Append(Functions[name].Gen8Lines, s.line) # <<>>
        BY <1>3, <4>2
      <4>4. QED BY <1>8, <4>1, <4>3 DEF FuncRecord
    <3>2. CASE name # enclosing
      BY <1>6, <1>8, <3>2
    <3>3. QED BY <3>1, <3>2
  <2>3. ToSet(EntryPoints)' = ToSet(EntryPoints)
    BY <1>2 DEF ToSet
  <2>4. QED BY <1>2, <1>7, <2>1, <2>2, <2>3 DEF IndexInv, FunctionsRead
<1>10. FilesRead'
  BY <1>2, <1>7 DEF IndexInv, FilesRead, ToSet
<1>11. NodesMade'
  <2>1. /\ Gen8Nodes \in Seq(Node)
        /\ \A x \in SitesNoted : \E n \in ToSet(Gen8Nodes) :
              n.File = x.path /\ n.Line = x.line /\ n.Function \in Holders(x)
        /\ \A n \in ToSet(Gen8Nodes) :
              LET x == [path |-> n.File, line |-> n.Line]
              IN  x \in SitesNoted /\ n.Function \in Holders(x)
    BY <1>2 DEF IndexInv, NodesMade
  <2>2. Gen8Nodes' \in Seq(Node) /\ ToSet(Gen8Nodes') = ToSet(Gen8Nodes) \union {node}
    BY <1>6, <2>1, ToSetAppend
  <2>3. ToSet(Gen8Nodes)' = ToSet(Gen8Nodes')
    BY DEF ToSet
  <2>4. \A x \in SitesNoted' : \E n \in ToSet(Gen8Nodes') :
              n.File = x.path /\ n.Line = x.line /\ n.Function \in Holders(x)
    BY <1>4, <1>6, <1>7, <2>1, <2>2
  <2>5. \A n \in ToSet(Gen8Nodes') :
              LET x == [path |-> n.File, line |-> n.Line]
              IN  x \in SitesNoted' /\ n.Function \in Holders(x)
    BY <1>3, <1>4, <1>6, <1>7, <2>1, <2>2
  <2>6. QED BY <1>7, <2>2, <2>3, <2>4, <2>5 DEF NodesMade
<1>12. MarksMade'
  <2>1. \A x \in SitesNoted' : \A other \in sitesLeft' : x.path = other.path => x.line < other.line
    <3>1. SUFFICES ASSUME NEW other \in sitesLeft', s.path = other.path
                   PROVE  s.line < other.line
      BY <1>1, <1>7 DEF IndexInv, MarksMade
    <3>2. other \in Sites /\ other # s /\ s.line <= other.line
      BY <1>1, <3>1 DEF IndexInv, IndexTypes
    <3>3. other = [path |-> other.path, line |-> other.line] /\ other.line \in Nat
      BY <3>2, IndexAssumption
    <3>4. s.line # other.line
      BY <1>3, <3>1, <3>2, <3>3
    <3>5. QED BY <1>3, <3>2, <3>3, <3>4
  <2>2. ASSUME NEW t \in tags, Own(t)
        PROVE  /\ Increasing(Functions'[t.name].Gen8Lines)
               /\ ToSet(Functions'[t.name].Gen8Lines) = LinesOf(t)'
    <3> DEFINE lines == Functions[t.name].Gen8Lines
    <3>1. Increasing(lines) /\ ToSet(lines) = LinesOf(t)
      BY <1>2, <2>2 DEF IndexInv, MarksMade
    <3>2. enclosing = t.name <=> s.path = t.path /\ t.name \in Holders(s)
      BY <1>3, <1>4, <2>2, HolderIsOwn DEF IndexInv
    <3>3. LinesOf(t)' = LinesOf(t) \union (IF enclosing = t.name THEN {s.line} ELSE {})
      BY <1>7, <3>2 DEF LinesOf
    <3>4. t.name \in DOMAIN Functions /\ lines \in Seq(Nat)
      BY <1>7, <1>8 DEF IndexInv, FunctionsRead, FuncRecord
    <3>5. CASE enclosing = t.name
      <4>1. Functions'[t.name].Gen8Lines = Append(lines, s.line)
        BY <1>6, <1>8, <3>4, <3>5 DEF FuncRecord
      <4>2. \A l \in ToSet(lines) : l < s.line
        <5>1. \A x \in SitesNoted : x.path = s.path => x.line < s.line
          BY <1>1 DEF IndexInv, MarksMade
        <5>2. s.path = t.path
          BY <3>2, <3>5
        <5>3. QED BY <3>1, <5>1, <5>2 DEF LinesOf
      <4> HIDE DEF lines
      <4>3. ToSet(Append(lines, s.line)) = ToSet(lines) \union {s.line}
        BY <1>3, <3>4, ToSetAppend
      <4>4. Increasing(Append(lines, s.line))
        <5>1. /\ Len(lines) \in Nat /\ DOMAIN lines = 1 .. Len(lines)
              /\ DOMAIN Append(lines, s.line) = 1 .. Len(lines) + 1
              /\ Append(lines, s.line)[Len(lines) + 1] = s.line
              /\ \A i \in DOMAIN lines : Append(lines, s.line)[i] = lines[i] /\ lines[i] < s.line
          BY <1>3, <3>4, <4>2 DEF ToSet
        <5> DEFINE longer == Append(lines, s.line)
        <5> HIDE DEF longer
        <5>2. ASSUME NEW m \in DOMAIN longer, NEW n \in DOMAIN longer, m < n
              PROVE  longer[m] < longer[n]
          <6>1. m \in DOMAIN lines
            BY <5>1, <5>2 DEF longer
          <6>2. CASE n \in DOMAIN lines
            BY <3>1, <5>1, <5>2, <6>1, <6>2 DEF longer, Increasing
          <6>3. CASE n \notin DOMAIN lines
            <7>1. n = Len(lines) + 1
              BY <5>1, <5>2, <6>3 DEF longer
            <7>2. QED BY <5>1, <6>1, <7>1 DEF longer
          <6>4. QED BY <6>2, <6>3
        <5>3. QED BY <5>2 DEF longer, Increasing
      <4>5. QED BY <3>1, <3>3, <3>5, <4>1, <4>3, <4>4
    <3>6. CASE enclosing # t.name
      <4>1. Functions'[t.name].Gen8Lines = lines
        BY <1>6, <3>4, <3>6
      <4>2. QED BY <3>1, <3>3, <3>6, <4>1
    <3>7. QED BY <3>5, <3>6
  <2>3. \A t \in tags : Own(t)' <=> Own(t)
    BY <1>2 DEF Own
  <2>4. QED BY <1>2, <2>1, <2>2, <2>3 DEF MarksMade, ToSet, Increasing
<1>13. QED BY <1>2, <1>7, <1>9, <1>10, <1>11, <1>12 DEF IndexInv

LEMMA DedupGen8NodesInv == IndexInv /\ DedupGen8Nodes => IndexInv'
<1> SUFFICES ASSUME IndexInv, DedupGen8Nodes PROVE IndexInv'
  OBVIOUS
<1>1. /\ pc = "sites" /\ sitesLeft = {} /\ pc' = "indexed" /\ Gen8Nodes' = Deduped(Gen8Nodes)
      /\ UNCHANGED <<tags, sites, tagsLeft, sitesLeft, Functions, fileFuncs, EntryPoints>>
  BY DEF DedupGen8Nodes
<1>2. /\ IndexTypes' /\ SitesNoted' = sites /\ SitesNoted = sites /\ TagsRead' = TagsRead
      /\ \A x : Holders(x)' = Holders(x)
  BY <1>1 DEF IndexInv, IndexTypes, SitesNoted, TagsRead, Holders
<1>3. FunctionsRead' /\ FilesRead'
  BY <1>1, <1>2 DEF IndexInv, FunctionsRead, FilesRead, ToSet
<1>4. MarksMade'
  <2>1. /\ \A t : LinesOf(t)' = LinesOf(t)
        /\ \A t \in tags : Own(t)' <=> Own(t)
    BY <1>1, <1>2 DEF LinesOf, Own
  <2>2. QED BY <1>1, <1>2, <2>1 DEF IndexInv, MarksMade, ToSet, Increasing
<1>5. /\ Gen8Nodes \in Seq(Node)
      /\ \A s \in sites : \E n \in ToSet(Gen8Nodes) :
            n.File = s.path /\ n.Line = s.line /\ n.Function \in Holders(s)
      /\ \A n \in ToSet(Gen8Nodes) :
            LET s == [path |-> n.File, line |-> n.Line]
            IN  s \in sites /\ n.Function \in Holders(s)
  BY <1>1, <1>2 DEF IndexInv, NodesMade
<1>6. /\ Gen8Nodes' \in Seq(Node)
      /\ ToSet(Gen8Nodes') \subseteq ToSet(Gen8Nodes)
      /\ \A n \in ToSet(Gen8Nodes) : \E kept \in ToSet(Gen8Nodes') : ID(kept) = ID(n)
      /\ \A m, n \in DOMAIN Gen8Nodes' : ID(Gen8Nodes'[m]) = ID(Gen8Nodes'[n]) => m = n
  BY <1>1, <1>5, DedupedKeepsOne
<1>7. ToSet(Gen8Nodes)' = ToSet(Gen8Nodes')
  BY DEF ToSet
<1>8. NodesMade'
  BY <1>1, <1>2, <1>5, <1>6, <1>7 DEF NodesMade
<1>9. NodesAreSites'
  <2>1. ASSUME NEW s \in sites
        PROVE  \E n \in ToSet(Gen8Nodes') :
                  n.Line = s.line /\ Base[n.File] = Base[s.path] /\ n.Function \in Holders(s)
    <3>1. PICK n \in ToSet(Gen8Nodes) : n.File = s.path /\ n.Line = s.line /\ n.Function \in Holders(s)
      BY <1>5
    <3>2. PICK kept \in ToSet(Gen8Nodes') : ID(kept) = ID(n)
      BY <1>6
    <3>3. kept.Line = n.Line /\ Base[kept.File] = Base[n.File] /\ kept.Function = n.Function
      BY <3>2 DEF ID
    <3>4. QED BY <3>1, <3>2, <3>3
  <2>2. QED BY <1>1, <1>2, <1>5, <1>6, <1>7, <2>1 DEF NodesAreSites, ID
<1>10. QED BY <1>2, <1>3, <1>4, <1>8, <1>9 DEF IndexInv

LEMMA IndexInvStutter == IndexInv /\ UNCHANGED indexVars => IndexInv'
<1> SUFFICES ASSUME IndexInv, UNCHANGED indexVars PROVE IndexInv'
  OBVIOUS
<1>1. UNCHANGED <<tags, sites, tagsLeft, sitesLeft, Functions, fileFuncs, EntryPoints, Gen8Nodes, pc>>
  BY DEF indexVars
<1>2. /\ IndexTypes' /\ SitesNoted' = SitesNoted /\ TagsRead' = TagsRead
      /\ \A x : Holders(x)' = Holders(x)
  BY <1>1 DEF IndexInv, IndexTypes, SitesNoted, TagsRead, Holders
<1>3. FunctionsRead' /\ FilesRead' /\ NodesMade'
  <2>1. /\ ToSet(EntryPoints)' = ToSet(EntryPoints)
        /\ ToSet(Gen8Nodes)' = ToSet(Gen8Nodes)
        /\ \A path : ToSet(fileFuncs[path])' = ToSet(fileFuncs[path])
    BY <1>1 DEF ToSet
  <2>2. FunctionsRead'
    BY <1>1, <1>2, <2>1 DEF IndexInv, FunctionsRead
  <2>3. FilesRead'
    BY <1>1, <1>2, <2>1 DEF IndexInv, FilesRead
  <2>4. NodesMade'
    BY <1>1, <1>2, <2>1 DEF IndexInv, NodesMade
  <2>5. QED BY <2>2, <2>3, <2>4
<1>4. MarksMade'
  <2>1. /\ \A t : LinesOf(t)' = LinesOf(t)
        /\ \A t \in tags : Own(t)' <=> Own(t)
    BY <1>1, <1>2 DEF LinesOf, Own
  <2>2. QED BY <1>1, <1>2, <2>1 DEF IndexInv, MarksMade, ToSet, Increasing
<1>5. (pc = "indexed" => NodesAreSites)'
  BY <1>1, <1>2 DEF IndexInv, NodesAreSites, ToSet, ID
<1>6. QED BY <1>2, <1>3, <1>4, <1>5 DEF IndexInv

LEMMA IndexInvNext == IndexInv /\ [Next]_indexVars => IndexInv'
BY AddFunctionInv, SortFunctionsInv, AddSiteInv, DedupGen8NodesInv, IndexInvStutter DEF Next

LEMMA IndexInvImplies == IndexInv => TypeOK /\ IndexIsTrue
<1> SUFFICES ASSUME IndexInv PROVE TypeOK /\ IndexIsTrue
  OBVIOUS
<1>1. TypeOK
  <2>1. \A path \in DOMAIN Base : ToSet(fileFuncs[path]) \subseteq tags
    BY DEF IndexInv, FilesRead, TagsRead
  <2>2. QED BY <2>1 DEF IndexInv, IndexTypes, FunctionsRead, TagsRead, TypeOK
<1>2. pc = "indexed" => MarksAreItsOwn
  <2>1. SUFFICES ASSUME pc = "indexed" PROVE MarksAreItsOwn
    OBVIOUS
  <2>2. SitesNoted = sites
    BY <2>1 DEF IndexInv, IndexTypes, SitesNoted
  <2>3. QED BY <2>1, <2>2 DEF IndexInv, MarksMade, MarksAreItsOwn, Own, Increasing, LinesOf
<1>3. QED BY <1>1, <1>2 DEF IndexInv, IndexIsTrue

\* The variables of index-builder are what the module says, whatever ctags and
\* ripgrep find.
THEOREM IndexTypeCorrect == IndexSpec => []TypeOK
BY IndexInvInit, IndexInvNext, IndexInvImplies, PTL DEF IndexSpec

\* The index is true of the sources: the nodes are the sites, each in a function
\* it is in by the text, and a function is marked with the lines of its sites,
\* in order, whatever files, namesakes and orders of the reports there are.
THEOREM IndexIsSound == IndexSpec => []IndexIsTrue
BY IndexInvInit, IndexInvNext, IndexInvImplies, PTL DEF IndexSpec

-----------------------------------------------------------------------------
(* What leads to a site *)

SiteFunctions == {node.Function : node \in ToSet(Gen8Nodes)}
GraphNames == SiteFunctions \union {e[1] : e \in Edges}

\* Leads has the recursion it is defined by.
LEMMA LeadsStep ==
  /\ Leads[0] = SiteFunctions
  /\ \A n \in Nat : Leads[n + 1] = Leads[n] \union CallersOf(Leads[n])
<1> DEFINE grow == [S \in SUBSET GraphNames |-> S \union CallersOf(S)]
           IsLeads(g) == g = [n \in Nat |-> IF n = 0 THEN SiteFunctions
                                            ELSE g[n - 1] \union CallersOf(g[n - 1])]
<1>1. grow \in [SUBSET GraphNames -> SUBSET GraphNames] /\ SiteFunctions \in SUBSET GraphNames
  BY DEF GraphNames, CallersOf
<1>2. PICK g \in [Nat -> SUBSET GraphNames] :
        g[0] = SiteFunctions /\ \A n \in Nat : g[n + 1] = grow[g[n]]
  <2> DEFINE X == SUBSET GraphNames
             x == SiteFunctions
  <2>1. x \in X /\ grow \in [X -> X]
    BY <1>1
  <2> HIDE DEF grow, X, x
  <2>2. \E g \in [Nat -> X] : g[0] = x /\ \A n \in Nat : g[n + 1] = grow[g[n]]
    BY <2>1, IterationOverNat
  <2>3. QED BY <2>2 DEF X, x
<1>3. \A n \in Nat : g[n + 1] = g[n] \union CallersOf(g[n])
  BY <1>2
<1>4. IsLeads(g)
  <2>1. \A n \in Nat : n = 0 \/ (n - 1 \in Nat /\ (n - 1) + 1 = n)
    OBVIOUS
  <2>2. \A n \in Nat : g[n] = IF n = 0 THEN SiteFunctions ELSE g[n - 1] \union CallersOf(g[n - 1])
    BY <1>2, <1>3, <2>1
  <2>3. QED BY <1>2, <2>2
<1>5. Leads = CHOOSE h : IsLeads(h)
  BY DEF Leads, SiteFunctions
<1>6. IsLeads(Leads)
  <2> HIDE DEF IsLeads
  <2> QED BY <1>4, <1>5
<1>7. \A n \in Nat : Leads[n] = IF n = 0 THEN SiteFunctions ELSE Leads[n - 1] \union CallersOf(Leads[n - 1])
  BY <1>6
<1>8. \A n \in Nat : n + 1 \in Nat /\ n + 1 # 0 /\ (n + 1) - 1 = n
  OBVIOUS
<1>9. QED BY <1>7, <1>8

\* Each step that adds a function adds a call, so there are no more steps that
\* do than calls.
LEMMA LeadsStop ==
  ASSUME IsFiniteSet(Edges)
  PROVE  LET N == Cardinality(Edges)
         IN  /\ N \in Nat
             /\ CallersOf(Leads[N]) \subseteq Leads[N]
<1> DEFINE N == Cardinality(Edges)
           Into(n) == {e \in Edges : e[2] \in Leads[n]}
           S == {n \in Nat : Leads[n + 1] # Leads[n] => Cardinality(Into(n)) >= n + 1}
<1>1. N \in Nat /\ \A n : IsFiniteSet(Into(n)) /\ Cardinality(Into(n)) \in Nat /\ Cardinality(Into(n)) <= N
  <2>1. \A n : Into(n) \in SUBSET Edges
    OBVIOUS
  <2> HIDE DEF Into
  <2>2. QED BY <2>1, FS_Subset, FS_CardinalityType
<1>2. \A n \in Nat : Leads[n + 1] = Leads[n] \union {e[1] : e \in Into(n)}
  BY LeadsStep DEF CallersOf
<1>3. 0 \in S
  <2>1. SUFFICES ASSUME Leads[0 + 1] # Leads[0] PROVE Cardinality(Into(0)) >= 0 + 1
    OBVIOUS
  <2>2. Into(0) # {}
    BY <1>2, <2>1
  <2> HIDE DEF Into
  <2>3. Cardinality(Into(0)) # 0
    BY <1>1, <2>2, FS_EmptySet
  <2>4. QED BY <1>1, <2>3
<1>4. ASSUME NEW n \in Nat, n \in S PROVE n + 1 \in S
  <2>1. SUFFICES ASSUME Leads[(n + 1) + 1] # Leads[n + 1]
                 PROVE  Cardinality(Into(n + 1)) >= (n + 1) + 1
    OBVIOUS
  <2>2. Leads[n + 1] = Leads[n] \union {e[1] : e \in Into(n)}
    BY <1>2
  <2>3. Leads[(n + 1) + 1] = Leads[n + 1] \union {e[1] : e \in Into(n + 1)}
    BY <1>2
  <2>4. PICK e \in Into(n + 1) : e[1] \notin Leads[n + 1]
    BY <2>1, <2>3
  <2>5. e \notin Into(n)
    BY <2>2, <2>4
  <2>6. Into(n) \subseteq Into(n + 1)
    BY <2>2
  <2>7. Leads[n + 1] # Leads[n]
    BY <2>4, <2>5
  <2>8. Cardinality(Into(n)) >= n + 1
    BY <1>4, <2>7
  <2> HIDE DEF Into
  <2>9. Cardinality(Into(n)) # Cardinality(Into(n + 1)) /\ Cardinality(Into(n)) <= Cardinality(Into(n + 1))
    BY <1>1, <2>4, <2>5, <2>6, FS_Subset
  <2>10. Cardinality(Into(n)) \in Nat /\ Cardinality(Into(n + 1)) \in Nat
    BY <1>1
  <2>11. QED BY <2>8, <2>9, <2>10
<1>5. \A n \in Nat : n \in S
  <2> HIDE DEF S
  <2> QED BY <1>3, <1>4, NatSetInduction
<1>6. Leads[N + 1] = Leads[N]
  <2>1. Leads[N + 1] # Leads[N] => Cardinality(Into(N)) >= N + 1
    BY <1>1, <1>5
  <2> HIDE DEF N
  <2>2. Cardinality(Into(N)) \in Nat /\ Cardinality(Into(N)) <= N
    BY <1>1 DEF N
  <2>3. QED BY <1>1, <2>1, <2>2
<1>7. CallersOf(Leads[N]) \subseteq Leads[N]
  BY <1>1, <1>6, LeadsStep
<1>8. QED BY <1>1, <1>7

\* Nothing is lost from one step to the next.
LEMMA LeadsGrow ==
  /\ \A n \in Nat : Leads[0] \subseteq Leads[n]
  /\ Leads[1] = Leads[0] \union CallersOf(Leads[0])
<1> DEFINE S == {n \in Nat : Leads[0] \subseteq Leads[n]}
<1>1. 0 \in S /\ \A n \in Nat : n \in S => n + 1 \in S
  BY LeadsStep
<1>2. \A n \in Nat : n \in S
  <2> HIDE DEF S
  <2> QED BY <1>1, NatSetInduction
<1>3. 0 + 1 = 1
  OBVIOUS
<1>4. QED BY <1>2, <1>3, LeadsStep

-----------------------------------------------------------------------------
(* The diagrams *)

\* The calls the focused graph has, below its limit.
Wanted == {e \in Edges : e[1] \in focused.nodes /\ e[2] \in gen8Funcs}

GraphTypes ==
    /\ Edges \in Calls \union {{}}
    /\ stage \in {"no index", "paths", "callers", "draw", "done"}
    /\ unvisited \subseteq gen8Funcs
    /\ stage # "no index" => pc = "indexed"
    /\ stage \in {"no index", "paths"} => gen8Funcs = {} /\ unvisited = {}
    /\ stage \in {"no index", "paths", "callers"} => focused = Blank
    /\ stage \in {"no index", "paths"} => paths = Blank
    /\ stage = "done" => unvisited = {}

\* The functions of the diagrams are between those with a site and those that
\* lead to one.
FunctionsBetween ==
    stage \in {"callers", "draw", "done"} =>
        /\ Leads[0] \subseteq gen8Funcs
        /\ gen8Funcs \subseteq Leads[Cardinality(Edges)]
        /\ \A f \in Leads[0] \ (IF stage = "callers" THEN unvisited ELSE {}) :
                FindCallers(f) \subseteq gen8Funcs
        /\ \A name : Func(name) \in paths.nodes => name \in Leads[1]

FocusedDrawn ==
    stage \in {"draw", "done"} =>
        /\ focused.nodes = (gen8Funcs \ unvisited) \cap DOMAIN Functions
        /\ focused.edges \subseteq Wanted
        /\ Cardinality(focused.edges) <= MaxEdges
        /\ Cardinality(focused.edges) < MaxEdges => focused.edges = Wanted

GraphInv == GraphTypes /\ FunctionsBetween /\ FocusedDrawn

LEMMA EdgesFinite ==
  ASSUME GraphTypes
  PROVE  IsFiniteSet(Edges) /\ Cardinality(Edges) \in Nat
BY GraphAssumption, FS_EmptySet, FS_CardinalityType DEF GraphTypes

\* While the index and the edges stay, so do the callers and what leads.
LEMMA LeadsKept ==
  ASSUME UNCHANGED <<Gen8Nodes, Edges>>
  PROVE  Leads' = Leads /\ \A f : FindCallers(f)' = FindCallers(f)
BY DEF Leads, CallersOf, ToSet, FindCallers

LEMMA GraphInvInit == GraphInit => GraphInv
BY DEF GraphInit, GraphInv, GraphTypes, FunctionsBetween, FocusedDrawn

LEMMA IndexStepInv == IndexInv /\ GraphInv /\ Next /\ UNCHANGED graphVars => GraphInv'
<1> SUFFICES ASSUME IndexInv, GraphInv, Next, UNCHANGED graphVars PROVE GraphInv'
  OBVIOUS
<1>1. pc # "indexed"
  BY DEF Next, AddFunction, SortFunctions, AddSite, DedupGen8Nodes
<1>2. stage = "no index" /\ stage' = "no index"
  BY <1>1 DEF GraphInv, GraphTypes, graphVars
<1>3. QED BY <1>2 DEF GraphInv, GraphTypes, FunctionsBetween, FocusedDrawn, graphVars, Blank

LEMMA LoadIndexInv == GraphInv /\ LoadIndex => GraphInv'
BY DEF LoadIndex, GraphInv, GraphTypes, FunctionsBetween, FocusedDrawn, Blank, indexVars

LEMMA NeuronPathsDOTInv == GraphInv /\ NeuronPathsDOT => GraphInv'
<1> SUFFICES ASSUME GraphInv, NeuronPathsDOT PROVE GraphInv'
  OBVIOUS
<1>1. /\ stage = "paths" /\ stage' = "callers" /\ pc' = pc /\ UNCHANGED <<indexVars, Gen8Nodes, Edges, Functions>>
      /\ gen8Funcs' = SiteFunctions /\ unvisited' = gen8Funcs' /\ focused' = focused
  BY DEF NeuronPathsDOT, SiteFunctions, indexVars
<1>2. GraphTypes'
  BY <1>1 DEF GraphInv, GraphTypes, Blank
<1>3. Leads' = Leads
  BY <1>1, LeadsKept
<1>4. gen8Funcs' = Leads[0] /\ Leads[0] \subseteq Leads[Cardinality(Edges)]
  BY <1>1, LeadsStep, LeadsGrow, EdgesFinite DEF GraphInv
<1>5. \A name : Func(name) \in paths'.nodes => name \in Leads[1]
  <2> DEFINE callers == UNION {{<<c, n.Function>> : c \in FindCallers(n.Function)} : n \in SitesDrawn}
  <2>1. paths'.nodes = {Site(n) : n \in SitesDrawn} \union {Func(n.Function) : n \in SitesDrawn}
                          \union {Func(e[1]) : e \in callers}
    BY DEF NeuronPathsDOT
  <2>2. SUFFICES ASSUME NEW name, Func(name) \in paths'.nodes PROVE name \in Leads[1]
    OBVIOUS
  <2>3. \A n \in SitesDrawn : n.Function \in SiteFunctions
    BY DEF SitesDrawn, SiteFunctions, ToSet
  <2>4. \A n : Func(name) # Site(n)
    BY DEF Func, Site
  <2>5. \A other : Func(name) = Func(other) => name = other
    BY DEF Func
  <2>6. CASE \E n \in SitesDrawn : Func(name) = Func(n.Function)
    BY <2>3, <2>5, <2>6, LeadsStep, LeadsGrow
  <2>7. CASE \E e \in callers : Func(name) = Func(e[1])
    <3>1. PICK e \in callers : name = e[1]
      BY <2>5, <2>7
    <3>2. PICK n \in SitesDrawn : e \in {<<c, n.Function>> : c \in FindCallers(n.Function)}
      OBVIOUS
    <3>3. name \in FindCallers(n.Function)
      BY <3>1, <3>2
    <3>4. QED BY <2>3, <3>3, LeadsStep, LeadsGrow DEF FindCallers, CallersOf
  <2>8. QED BY <2>1, <2>2, <2>4, <2>6, <2>7
<1>6. FunctionsBetween'
  BY <1>1, <1>3, <1>4, <1>5 DEF FunctionsBetween
<1>7. FocusedDrawn'
  BY <1>1 DEF FocusedDrawn
<1>8. QED BY <1>2, <1>6, <1>7 DEF GraphInv

LEMMA AddCallersInv ==
  ASSUME GraphInv, NEW name \in gen8Funcs, AddCallers(name)
  PROVE  GraphInv'
<1> DEFINE callers == FindCallers(name) \ gen8Funcs
           All == Leads[Cardinality(Edges)]
<1>1. /\ stage = "callers" /\ stage' = "callers" /\ name \in unvisited
      /\ gen8Funcs' = gen8Funcs \union callers
      /\ UNCHANGED <<pc, Gen8Nodes, Edges, paths, focused>>
  BY DEF AddCallers, indexVars
<1>2. PICK visited \in SUBSET callers : unvisited' = (unvisited \ {name}) \union visited
  BY DEF AddCallers
<1>3. GraphTypes'
  BY <1>1, <1>2 DEF GraphInv, GraphTypes, Blank
<1>4. Leads' = Leads /\ \A f : FindCallers(f)' = FindCallers(f)
  BY <1>1, LeadsKept
<1>5. FindCallers(name) \subseteq All
  <2>1. CallersOf(All) \subseteq All
    BY EdgesFinite, LeadsStop DEF GraphInv
  <2>2. name \in All
    BY <1>1 DEF GraphInv, FunctionsBetween
  <2>3. FindCallers(name) \subseteq CallersOf(All)
    BY <2>2 DEF FindCallers, CallersOf
  <2>4. QED BY <2>1, <2>3
<1>6. FunctionsBetween'
  <2>1. Leads[0] \subseteq gen8Funcs' /\ gen8Funcs' \subseteq All
    BY <1>1, <1>5 DEF GraphInv, FunctionsBetween
  <2>2. ASSUME NEW f \in Leads[0], f \notin unvisited' PROVE FindCallers(f) \subseteq gen8Funcs'
    <3>1. CASE f = name
      BY <1>1, <3>1
    <3>2. CASE f # name
      <4>1. f \notin unvisited
        BY <1>2, <2>2, <3>2
      <4>2. QED BY <1>1, <2>2, <4>1 DEF GraphInv, FunctionsBetween
    <3>3. QED BY <3>1, <3>2
  <2>3. QED BY <1>1, <1>4, <2>1, <2>2 DEF GraphInv, FunctionsBetween
<1>7. FocusedDrawn'
  BY <1>1 DEF FocusedDrawn
<1>8. QED BY <1>3, <1>6, <1>7 DEF GraphInv

LEMMA StartDrawingInv == GraphInv /\ StartDrawing => GraphInv'
<1> SUFFICES ASSUME GraphInv, StartDrawing PROVE GraphInv'
  OBVIOUS
<1>1. /\ stage = "callers" /\ unvisited = {} /\ unvisited' = gen8Funcs /\ stage' = "draw"
      /\ UNCHANGED <<pc, Gen8Nodes, Functions, Edges, paths, gen8Funcs, focused>>
  BY DEF StartDrawing, indexVars
<1>2. GraphTypes'
  BY <1>1 DEF GraphInv, GraphTypes, Blank
<1>3. Leads' = Leads /\ \A f : FindCallers(f)' = FindCallers(f)
  BY <1>1, LeadsKept
<1>4. FunctionsBetween'
  BY <1>1, <1>3 DEF GraphInv, FunctionsBetween
<1>5. FocusedDrawn'
  <2>1. focused' = Blank
    BY <1>1 DEF GraphInv, GraphTypes
  <2>2. Cardinality({}) = 0
    BY FS_EmptySet
  <2>3. Wanted' = {}
    BY <2>1 DEF Wanted, Blank
  <2>4. QED BY <1>1, <2>1, <2>2, <2>3, GraphAssumption DEF FocusedDrawn, Blank
<1>6. QED BY <1>2, <1>4, <1>5 DEF GraphInv

LEMMA DrawInv ==
  ASSUME GraphInv, NEW name \in gen8Funcs, Draw(name)
  PROVE  GraphInv'
<1>1. /\ stage = "draw" /\ stage' = "draw" /\ name \in unvisited /\ unvisited' = unvisited \ {name}
      /\ UNCHANGED <<pc, Gen8Nodes, Functions, Edges, paths, gen8Funcs>>
  BY DEF Draw, indexVars
<1>2. GraphTypes'
  BY <1>1 DEF GraphInv, GraphTypes, Blank
<1>3. Leads' = Leads /\ \A f : FindCallers(f)' = FindCallers(f)
  BY <1>1, LeadsKept
<1>4. FunctionsBetween'
  BY <1>1, <1>3 DEF GraphInv, FunctionsBetween
<1>5. /\ focused.nodes = (gen8Funcs \ unvisited) \cap DOMAIN Functions
      /\ focused.edges \subseteq Wanted
      /\ Cardinality(focused.edges) <= MaxEdges
      /\ Cardinality(focused.edges) < MaxEdges => focused.edges = Wanted
  BY <1>1 DEF GraphInv, FocusedDrawn
<1>6. CASE name \notin DOMAIN Functions
  <2>1. focused' = focused
    BY <1>6 DEF Draw
  <2>2. Wanted' = Wanted
    BY <1>1, <2>1 DEF Wanted
  <2>3. FocusedDrawn'
    BY <1>1, <1>5, <1>6, <2>1, <2>2 DEF FocusedDrawn
  <2>4. QED BY <1>2, <1>4, <2>3 DEF GraphInv
<1>7. CASE name \in DOMAIN Functions
  <2> DEFINE calls == {e \in Edges : e[1] = name /\ e[2] \in gen8Funcs}
             had == Cardinality(focused.edges)
  <2>1. PICK E \in SUBSET calls :
          /\ Cardinality(E) = Min({Room, Cardinality(calls)})
          /\ focused' = [nodes |-> focused.nodes \union {name}, edges |-> focused.edges \union E]
    BY <1>7 DEF Draw
  <2>2. Wanted' = Wanted \union calls
    BY <1>1, <2>1 DEF Wanted
  <2>3. /\ IsFiniteSet(calls) /\ IsFiniteSet(E) /\ IsFiniteSet(focused.edges)
        /\ Cardinality(calls) \in Nat /\ Cardinality(E) \in Nat /\ had \in Nat
        /\ Cardinality(E) = Cardinality(calls) => E = calls
    <3>1. IsFiniteSet(Edges)
      BY EdgesFinite DEF GraphInv
    <3>2. calls \in SUBSET Edges /\ focused.edges \in SUBSET Edges
      BY <1>5 DEF Wanted
    <3> HIDE DEF calls
    <3>3. IsFiniteSet(calls) /\ IsFiniteSet(focused.edges)
      BY <3>1, <3>2, FS_Subset
    <3>4. IsFiniteSet(E) /\ (Cardinality(calls) = Cardinality(E) => calls = E)
      BY <3>3, FS_Subset
    <3>5. QED BY <3>3, <3>4, FS_CardinalityType
  <2>4. Room = MaxEdges - had /\ Room \in Nat
    BY <1>5, <2>3, GraphAssumption DEF Room
  <2> DEFINE all == Cardinality(calls)
  <2>5. Min({Room, all}) = IF Room <= all THEN Room ELSE all
    <3> HIDE DEF all
    <3>1. all \in Nat
      BY <2>3 DEF all
    <3>2. \E x \in {Room, all} : \A y \in {Room, all} : x <= y
      BY <2>4, <3>1
    <3>3. \A x \in {Room, all} : (\A y \in {Room, all} : x <= y) => x = IF Room <= all THEN Room ELSE all
      BY <2>4, <3>1
    <3>4. QED BY <3>2, <3>3 DEF Min
  <2>6. focused.edges \cap E = {}
    <3>1. name \notin focused.nodes
      BY <1>1, <1>5
    <3>2. QED BY <1>5, <2>1, <3>1 DEF Wanted
  <2>7. Cardinality(focused'.edges) = had + Cardinality(E)
    <3>1. Cardinality({}) = 0
      BY FS_EmptySet
    <3>2. Cardinality(focused.edges \union E) = had + Cardinality(E) - Cardinality(focused.edges \cap E)
      BY <2>3, FS_Union
    <3>3. Cardinality(focused'.edges) = Cardinality(focused.edges \union E)
      BY <2>1
    <3>4. Cardinality(focused.edges \cap E) = 0
      BY <2>6, <3>1
    <3>5. Cardinality(E) \in Nat /\ had \in Nat
      BY <2>3
    <3> HIDE DEF had
    <3>6. had + Cardinality(E) - 0 = had + Cardinality(E)
      BY <3>5
    <3>7. QED BY <3>2, <3>3, <3>4, <3>6
  <2>8. /\ Cardinality(focused'.edges) <= MaxEdges
        /\ Cardinality(focused'.edges) < MaxEdges => E = calls /\ had < MaxEdges
    <3> HIDE DEF calls, had
    <3>1. Cardinality(E) = IF Room <= all THEN Room ELSE all
      BY <2>1, <2>5 DEF calls
    <3>2. QED BY <2>3, <2>4, <2>7, <3>1, GraphAssumption
  <2>9. FocusedDrawn'
    <3>1. focused'.nodes = (gen8Funcs' \ unvisited') \cap DOMAIN Functions'
      BY <1>1, <1>5, <1>7, <2>1
    <3>2. focused'.edges \subseteq Wanted'
      BY <1>5, <2>1, <2>2
    <3>3. Cardinality(focused'.edges) < MaxEdges => focused'.edges = Wanted'
      BY <1>5, <2>1, <2>2, <2>8
    <3>4. QED BY <2>8, <3>1, <3>2, <3>3 DEF FocusedDrawn
  <2>10. QED BY <1>2, <1>4, <2>9 DEF GraphInv
<1>8. QED BY <1>6, <1>7

LEMMA WriteInvGraph == GraphInv /\ Write => GraphInv'
<1> SUFFICES ASSUME GraphInv, Write PROVE GraphInv'
  OBVIOUS
<1>1. /\ stage = "draw" /\ unvisited = {} /\ stage' = "done"
      /\ UNCHANGED <<pc, Gen8Nodes, Functions, Edges, paths, gen8Funcs, unvisited, focused>>
  BY DEF Write, indexVars
<1>2. Leads' = Leads /\ (\A f : FindCallers(f)' = FindCallers(f)) /\ Wanted' = Wanted
  BY <1>1, LeadsKept DEF Wanted
<1>3. GraphTypes' /\ FunctionsBetween' /\ FocusedDrawn'
  BY <1>1, <1>2 DEF GraphInv, GraphTypes, FunctionsBetween, FocusedDrawn, Blank
<1>4. QED BY <1>3 DEF GraphInv

LEMMA GraphInvStutter == GraphInv /\ UNCHANGED <<indexVars, graphVars>> => GraphInv'
<1> SUFFICES ASSUME GraphInv, UNCHANGED <<indexVars, graphVars>> PROVE GraphInv'
  OBVIOUS
<1>1. UNCHANGED <<pc, Gen8Nodes, Functions, Edges, stage, paths, gen8Funcs, unvisited, focused>>
  BY DEF indexVars, graphVars
<1>2. Leads' = Leads /\ (\A f : FindCallers(f)' = FindCallers(f)) /\ Wanted' = Wanted
  BY <1>1, LeadsKept DEF Wanted
<1>3. GraphTypes' /\ FunctionsBetween' /\ FocusedDrawn'
  BY <1>1, <1>2 DEF GraphInv, GraphTypes, FunctionsBetween, FocusedDrawn, Blank
<1>4. QED BY <1>3 DEF GraphInv

\* The index is not changed by what is drawn of it.
LEMMA GraphStepIsIndexStep ==
  [GraphNext]_<<indexVars, graphVars>> => [Next]_indexVars
BY DEF GraphNext, LoadIndex, NeuronPathsDOT, AddCallers, StartDrawing, Draw, Write, Terminated

LEMMA GraphInvNext ==
  IndexInv /\ GraphInv /\ [GraphNext]_<<indexVars, graphVars>> => GraphInv'
BY IndexStepInv, LoadIndexInv, NeuronPathsDOTInv, AddCallersInv, StartDrawingInv, DrawInv,
   WriteInvGraph, GraphInvStutter DEF GraphNext, Terminated

LEMMA GraphInvImplies ==
  ASSUME GraphInv
  PROVE  GraphTypeOK /\ FocusedIsBetween
<1>1. GraphTypeOK
  <2>1. Cardinality({}) = 0
    BY FS_EmptySet
  <2>2. CASE stage \in {"draw", "done"}
    BY <2>2 DEF GraphInv, GraphTypes, FocusedDrawn, GraphTypeOK
  <2>3. CASE stage \in {"no index", "paths", "callers"}
    <3>1. focused.nodes = {} /\ focused.edges = {}
      <4>1. focused = Blank
        BY <2>3 DEF GraphInv, GraphTypes
      <4>2. QED BY <4>1 DEF Blank
    <3>2. Cardinality(focused.edges) <= MaxEdges
      BY <2>1, <3>1, GraphAssumption
    <3>3. QED BY <3>1, <3>2 DEF GraphInv, GraphTypes, GraphTypeOK
  <2>4. QED BY <2>2, <2>3 DEF GraphInv, GraphTypes
<1>2. FocusedIsBetween
  <2>1. SUFFICES ASSUME stage = "done"
                 PROVE  /\ Leads[1] \cap DOMAIN Functions \subseteq focused.nodes
                        /\ focused.nodes \subseteq Leads[Cardinality(Edges)]
                        /\ Cardinality(focused.edges) < MaxEdges => focused.edges = Wanted
                        /\ \A name \in DOMAIN Functions :
                              Func(name) \in paths.nodes => name \in focused.nodes
    BY DEF FocusedIsBetween, Wanted
  <2>2. /\ Leads[0] \subseteq gen8Funcs /\ gen8Funcs \subseteq Leads[Cardinality(Edges)]
        /\ \A f \in Leads[0] : FindCallers(f) \subseteq gen8Funcs
        /\ \A name : Func(name) \in paths.nodes => name \in Leads[1]
    BY <2>1 DEF GraphInv, FunctionsBetween
  <2>3. Leads[1] \subseteq gen8Funcs
    <3>1. CallersOf(Leads[0]) \subseteq gen8Funcs
      <4>1. \A c \in CallersOf(Leads[0]) : \E f \in Leads[0] : c \in FindCallers(f)
        BY DEF CallersOf, FindCallers
      <4>2. QED BY <2>2, <4>1
    <3>2. QED BY <2>2, <3>1, LeadsGrow
  <2>4. focused.nodes = gen8Funcs \cap DOMAIN Functions
    BY <2>1 DEF GraphInv, GraphTypes, FocusedDrawn
  <2>5. QED BY <2>1, <2>2, <2>3, <2>4 DEF GraphInv, FocusedDrawn
<1>3. QED BY <1>1, <1>2

\* graph-builder works on what index-builder made, and leaves it alone.
THEOREM GraphImplementsIndex == GraphSpec => IndexSpec
<1>1. GraphInit => Init
  BY DEF GraphInit
<1>2. QED BY <1>1, GraphStepIsIndexStep, PTL DEF GraphSpec, IndexSpec

\* The diagrams and the loops over the functions are what the module says.
THEOREM GraphTypeCorrect == GraphSpec => []GraphTypeOK
<1>1. GraphInit => IndexInv /\ GraphInv
  BY IndexInvInit, GraphInvInit DEF GraphInit
<1>2. IndexInv /\ GraphInv /\ [GraphNext]_<<indexVars, graphVars>> => IndexInv' /\ GraphInv'
  BY IndexInvNext, GraphInvNext, GraphStepIsIndexStep
<1>3. GraphInv => GraphTypeOK
  BY GraphInvImplies
<1>4. QED BY <1>1, <1>2, <1>3, PTL DEF GraphSpec

\* Whatever the calls, the limits and the order of the loops, the focused graph
\* lies between the functions with a site and their callers, and all that lead
\* to a site, and below its limit it has all calls between its functions.
THEOREM FocusedIsSound == GraphSpec => []FocusedIsBetween
<1>1. GraphInit => IndexInv /\ GraphInv
  BY IndexInvInit, GraphInvInit DEF GraphInit
<1>2. IndexInv /\ GraphInv /\ [GraphNext]_<<indexVars, graphVars>> => IndexInv' /\ GraphInv'
  BY IndexInvNext, GraphInvNext, GraphStepIsIndexStep
<1>3. GraphInv => FocusedIsBetween
  BY GraphInvImplies
<1>4. QED BY <1>1, <1>2, <1>3, PTL DEF GraphSpec

-----------------------------------------------------------------------------
(* Elements and what is read of them *)

RegElement == [tag : {"reg", "nested", "array"}, name : DOMAIN Block, offset : Nat,
               gen8 : BOOLEAN, length : Nat, stride : Nat]
EnumElement == [tag : {"enum", "value", "end"}, name : STRING, value : Nat]

\* The name of a register, or of one of an array.
RegName == {<<b>> : b \in DOMAIN Block} \union {<<b, n>> : b \in DOMAIN Block, n \in Nat}
RegDef == [name : RegName, offset : Nat, gen8 : BOOLEAN]

LEMMA DefsType ==
  ASSUME NEW e \in RegElement
  PROVE  Defs(e) \in Seq(RegDef)
<1>1. CASE e.tag = "array"
  <2> DEFINE d == [n \in 1 .. e.length |-> Def(<<e.name, n - 1>>, e.offset + n - 1, e.gen8)]
  <2>1. \A n \in 1 .. e.length : Def(<<e.name, n - 1>>, e.offset + n - 1, e.gen8) \in RegDef
    <3>1. TAKE n \in 1 .. e.length
    <3>2. e.length \in Nat /\ e.offset \in Nat /\ e.name \in DOMAIN Block /\ e.gen8 \in BOOLEAN
      BY DEF RegElement
    <3>3. n - 1 \in Nat /\ e.offset + n - 1 \in Nat
      BY <3>2
    <3>4. <<e.name, n - 1>> \in RegName
      BY <3>2, <3>3 DEF RegName
    <3>5. QED BY <3>2, <3>3, <3>4 DEF Def, RegDef
  <2>2. d \in [1 .. e.length -> RegDef] /\ e.length \in Nat
    BY <2>1 DEF RegElement
  <2>3. d \in Seq(RegDef)
    <3> HIDE DEF d
    <3> QED BY <2>2
  <2>4. QED BY <1>1, <2>3 DEF Defs
<1>2. CASE e.tag # "array" /\ e.offset # 0
  <2>1. Def(<<e.name>>, e.offset, e.gen8) \in RegDef
    BY DEF Def, RegDef, RegName, RegElement
  <2>2. QED BY <1>2, <2>1 DEF Defs
<1>3. CASE e.tag # "array" /\ e.offset = 0
  BY <1>3 DEF Defs
<1>4. QED BY <1>1, <1>2, <1>3

\* The registers the first n elements are read for.
ReadOf(file, n) == UNION {ToSet(Defs(file[m])) : m \in 1 .. n}

\* Whether the element after the first n is in an enum, and in the one of a name.
Open(file, n) == \E m \in 1 .. n : file[m].tag = "enum" /\ \A l \in m .. n : file[l].tag # "end"
Inside(file, name, n) ==
    \E m \in 1 .. n : file[m] = Enum(name) /\ \A l \in m .. n : file[l].tag # "end"

LEMMA InsideStep ==
  ASSUME NEW file \in Seq(EnumElement), NEW name, NEW n \in 0 .. Len(file) - 1
  PROVE  Inside(file, name, n + 1) <=>
            file[n + 1].tag # "end" /\ (Inside(file, name, n) \/ file[n + 1] = Enum(name))
<1>1. n \in Nat /\ n + 1 \in 1 .. Len(file)
  OBVIOUS
<1>2. ASSUME Inside(file, name, n + 1)
      PROVE  file[n + 1].tag # "end" /\ (Inside(file, name, n) \/ file[n + 1] = Enum(name))
  <2>1. PICK m \in 1 .. n + 1 : file[m] = Enum(name) /\ \A l \in m .. n + 1 : file[l].tag # "end"
    BY <1>2 DEF Inside
  <2>2. CASE m = n + 1
    BY <1>1, <2>1, <2>2
  <2>3. CASE m # n + 1
    <3>1. m \in 1 .. n /\ \A l \in m .. n : l \in m .. n + 1
      BY <1>1, <2>3
    <3>2. QED BY <1>1, <2>1, <3>1 DEF Inside
  <2>4. QED BY <2>2, <2>3
<1>3. ASSUME file[n + 1].tag # "end", Inside(file, name, n)
      PROVE  Inside(file, name, n + 1)
  <2>1. PICK m \in 1 .. n : file[m] = Enum(name) /\ \A l \in m .. n : file[l].tag # "end"
    BY <1>3 DEF Inside
  <2>2. m \in 1 .. n + 1 /\ \A l \in m .. n + 1 : l \in m .. n \/ l = n + 1
    BY <1>1
  <2>3. QED BY <1>3, <2>1, <2>2 DEF Inside
<1>4. ASSUME file[n + 1].tag # "end", file[n + 1] = Enum(name)
      PROVE  Inside(file, name, n + 1)
  <2>1. n + 1 \in 1 .. n + 1 /\ \A l \in n + 1 .. n + 1 : l = n + 1
    BY <1>1
  <2>2. QED BY <1>4, <2>1 DEF Inside
<1>5. QED BY <1>2, <1>3, <1>4

LEMMA OpenStep ==
  ASSUME NEW file \in Seq(EnumElement), NEW n \in 0 .. Len(file) - 1
  PROVE  Open(file, n + 1) <=>
            file[n + 1].tag # "end" /\ (Open(file, n) \/ file[n + 1].tag = "enum")
<1>1. n \in Nat /\ n + 1 \in 1 .. Len(file)
  OBVIOUS
<1>2. ASSUME Open(file, n + 1)
      PROVE  file[n + 1].tag # "end" /\ (Open(file, n) \/ file[n + 1].tag = "enum")
  <2>1. PICK m \in 1 .. n + 1 : file[m].tag = "enum" /\ \A l \in m .. n + 1 : file[l].tag # "end"
    BY <1>2 DEF Open
  <2>2. CASE m = n + 1
    BY <1>1, <2>1, <2>2
  <2>3. CASE m # n + 1
    <3>1. m \in 1 .. n /\ \A l \in m .. n : l \in m .. n + 1
      BY <1>1, <2>3
    <3>2. QED BY <1>1, <2>1, <3>1 DEF Open
  <2>4. QED BY <2>2, <2>3
<1>3. ASSUME file[n + 1].tag # "end", Open(file, n)
      PROVE  Open(file, n + 1)
  <2>1. PICK m \in 1 .. n : file[m].tag = "enum" /\ \A l \in m .. n : file[l].tag # "end"
    BY <1>3 DEF Open
  <2>2. m \in 1 .. n + 1 /\ \A l \in m .. n + 1 : l \in m .. n \/ l = n + 1
    BY <1>1
  <2>3. QED BY <1>3, <2>1, <2>2 DEF Open
<1>4. ASSUME file[n + 1].tag = "enum"
      PROVE  Open(file, n + 1)
  <2>1. n + 1 \in 1 .. n + 1 /\ \A l \in n + 1 .. n + 1 : l = n + 1
    BY <1>1
  <2>2. QED BY <1>4, <2>1 DEF Open
<1>5. QED BY <1>2, <1>3, <1>4

\* The first values of an enum are those before and the one that is next.
LEMMA ValuesOfStep ==
  ASSUME NEW file \in Seq(EnumElement), NEW name, NEW n \in 0 .. Len(file) - 1
  PROVE  ValuesOf(file, name) \cap (1 .. n + 1) =
            (ValuesOf(file, name) \cap (1 .. n)) \union
            (IF file[n + 1].tag = "value" /\ Inside(file, name, n) THEN {n + 1} ELSE {})
<1>1. n \in Nat /\ n + 1 \in 1 .. Len(file) /\ 1 .. n + 1 = (1 .. n) \union {n + 1} /\ n + 1 \notin 1 .. n
  OBVIOUS
<1>2. n + 1 \in ValuesOf(file, name) <=> file[n + 1].tag = "value" /\ Inside(file, name, n)
  <2>1. (n + 1) - 1 = n
    BY <1>1
  <2>2. ASSUME file[n + 1].tag = "value"
        PROVE  (\E m \in 1 .. n : file[m] = Enum(name) /\ \A l \in m .. n + 1 : file[l].tag # "end")
               <=> Inside(file, name, n)
    <3>1. \A m \in 1 .. n : m .. n + 1 = (m .. n) \union {n + 1}
      BY <1>1
    <3>2. QED BY <2>2, <3>1 DEF Inside
  <2>3. QED BY <1>1, <2>1, <2>2 DEF ValuesOf
<1>3. QED BY <1>1, <1>2

-----------------------------------------------------------------------------
(* Values in the order of the file *)

\* The values are what is at these places, in their order.
InOrder(values, file, places) ==
    \E at \in [DOMAIN values -> places] :
        /\ \A i, j \in DOMAIN values : i < j => at[i] < at[j]
        /\ \A n \in places : \E i \in DOMAIN values : at[i] = n
        /\ \A i \in DOMAIN values : values[i] = file[at[i]]

LEMMA InOrderAppend ==
  ASSUME NEW S, NEW values \in Seq(S), NEW file \in Seq(S), NEW n \in Nat,
         NEW places \in SUBSET (1 .. n), n + 1 \in 1 .. Len(file),
         InOrder(values, file, places)
  PROVE  InOrder(Append(values, file[n + 1]), file, places \union {n + 1})
<1> DEFINE longer == Append(values, file[n + 1])
<1>1. PICK at \in [DOMAIN values -> places] :
        /\ \A i, j \in DOMAIN values : i < j => at[i] < at[j]
        /\ \A p \in places : \E i \in DOMAIN values : at[i] = p
        /\ \A i \in DOMAIN values : values[i] = file[at[i]]
  BY DEF InOrder
<1> DEFINE new == [i \in DOMAIN longer |-> IF i \in DOMAIN values THEN at[i] ELSE n + 1]
<1>2. /\ Len(values) \in Nat /\ DOMAIN values = 1 .. Len(values)
      /\ DOMAIN longer = 1 .. Len(values) + 1
      /\ longer[Len(values) + 1] = file[n + 1]
      /\ \A i \in DOMAIN values : longer[i] = values[i]
  OBVIOUS
<1> HIDE DEF longer
<1>3. new \in [DOMAIN longer -> places \union {n + 1}]
  BY <1>1
<1>4. ASSUME NEW i \in DOMAIN longer, NEW j \in DOMAIN longer, i < j PROVE new[i] < new[j]
  <2>1. i \in DOMAIN values
    BY <1>2, <1>4
  <2>2. CASE j \in DOMAIN values
    BY <1>1, <1>4, <2>1, <2>2
  <2>3. CASE j \notin DOMAIN values
    <3>1. at[i] \in 1 .. n
      BY <1>1, <2>1
    <3>2. new[i] = at[i] /\ new[j] = n + 1
      BY <1>4, <2>1, <2>3
    <3>3. QED BY <3>1, <3>2
  <2>4. QED BY <2>2, <2>3
<1>5. ASSUME NEW p \in places \union {n + 1} PROVE \E i \in DOMAIN longer : new[i] = p
  <2>1. CASE p \in places
    BY <1>1, <1>2, <2>1
  <2>2. CASE p = n + 1
    <3>1. Len(values) + 1 \in DOMAIN longer /\ Len(values) + 1 \notin DOMAIN values
      BY <1>2
    <3>2. QED BY <2>2, <3>1
  <2>3. QED BY <2>1, <2>2
<1>6. ASSUME NEW i \in DOMAIN longer PROVE longer[i] = file[new[i]]
  <2>1. CASE i \in DOMAIN values
    BY <1>1, <1>2, <2>1
  <2>2. CASE i \notin DOMAIN values
    <3>1. i = Len(values) + 1 /\ new[i] = n + 1
      BY <1>2, <2>2
    <3>2. QED BY <1>2, <3>1
  <2>3. QED BY <2>1, <2>2
<1> HIDE DEF new
<1>7. QED BY <1>3, <1>4, <1>5, <1>6 DEF InOrder, longer

\* A table has the first name of every value at these places.
HasFirstNames(table, file, places) ==
    /\ DOMAIN table = {file[n].value : n \in places}
    /\ \A v \in DOMAIN table : \E n \in places :
        /\ file[n] = Value(table[v], v)
        /\ \A m \in places : file[m].value = v => n <= m

LEMMA FirstNamesInOrder ==
  ASSUME NEW file \in Seq(EnumElement), NEW values \in Seq(EnumElement),
         NEW places \in SUBSET DOMAIN file, InOrder(values, file, places),
         \A n \in places : file[n].tag = "value"
  PROVE  HasFirstNames(FirstNames(values), file, places)
<1>1. PICK at \in [DOMAIN values -> places] :
        /\ \A i, j \in DOMAIN values : i < j => at[i] < at[j]
        /\ \A p \in places : \E i \in DOMAIN values : at[i] = p
        /\ \A i \in DOMAIN values : values[i] = file[at[i]]
  BY DEF InOrder
<1>2. {e.value : e \in ToSet(values)} = {file[n].value : n \in places}
  <2>1. \A n \in places : \E i \in DOMAIN values : values[i] = file[n]
    BY <1>1
  <2>2. \A i \in DOMAIN values : \E n \in places : values[i] = file[n]
    BY <1>1
  <2>3. ToSet(values) = {file[n] : n \in places}
    BY <2>1, <2>2 DEF ToSet
  <2>4. QED BY <2>3
<1>3. ASSUME NEW v \in {file[n].value : n \in places}
      PROVE  \E n \in places :
                /\ file[n] = Value(FirstNames(values)[v], v)
                /\ \A m \in places : file[m].value = v => n <= m
  <2> DEFINE I == {i \in 1 .. Len(values) : values[i].value = v}
  <2>1. I # {} /\ I \in SUBSET (0 .. Len(values)) /\ Len(values) \in Nat /\ DOMAIN values = 1 .. Len(values)
    <3>1. PICK n \in places : file[n].value = v
      BY <1>3
    <3>2. PICK i \in DOMAIN values : values[i] = file[n]
      BY <1>1, <3>1
    <3>3. i \in I
      BY <3>1, <3>2
    <3>4. QED BY <3>3
  <2>2. PICK x \in I : \A y \in I : x <= y
    <3> HIDE DEF I
    <3> QED BY <2>1, LeastExists
  <2>3. SelectInSeq(values, LAMBDA e : e.value = v) = x
    <3>1. SelectInSeq(values, LAMBDA e : e.value = v) = CHOOSE z \in I : \A y \in I : z <= y
      BY <2>1 DEF SelectInSeq, Min
    <3>2. \A z \in I : (\A y \in I : z <= y) => z = x
      <4>1. I \subseteq Int
        OBVIOUS
      <4> HIDE DEF I
      <4>2. QED BY <2>2, <4>1
    <3>3. QED BY <2>2, <3>1, <3>2
  <2>4. FirstNames(values)[v] = values[x].name
    BY <1>2, <1>3, <2>3 DEF FirstNames
  <2>5. x \in DOMAIN values /\ values[x].value = v /\ at[x] \in places /\ values[x] = file[at[x]]
    BY <1>1, <2>1, <2>2
  <2>6. file[at[x]] = Value(FirstNames(values)[v], v)
    <3>1. file[at[x]] \in EnumElement /\ file[at[x]].tag = "value"
      BY <2>5
    <3>2. QED BY <2>4, <2>5, <3>1 DEF EnumElement, Value
  <2>7. ASSUME NEW m \in places, file[m].value = v PROVE at[x] <= m
    <3>1. PICK i \in DOMAIN values : at[i] = m
      BY <1>1
    <3>2. i \in I /\ x <= i
      BY <1>1, <2>1, <2>2, <2>7, <3>1
    <3>3. i \in Int /\ x \in Int /\ at[i] \in Int /\ at[x] \in Int
      BY <2>1, <2>5, <3>1
    <3>4. x < i \/ x = i
      BY <3>2, <3>3
    <3>5. QED BY <1>1, <2>5, <3>1, <3>3, <3>4
  <2>8. QED BY <2>5, <2>6, <2>7
<1>4. DOMAIN FirstNames(values) = {file[n].value : n \in places}
  BY <1>2 DEF FirstNames
<1>5. QED BY <1>3, <1>4 DEF HasFirstNames

-----------------------------------------------------------------------------
(* What is read after each step *)

RegsN    == IF step = "regs" THEN k ELSE Len(xml.regs)
PacketsN == IF step = "regs" THEN 0 ELSE IF step = "packets" THEN k ELSE Len(xml.packets)
EnumsN   == IF step \in {"regs", "packets"} THEN 0
            ELSE IF step = "enums" THEN k ELSE Len(xml.enums)

RegsRead ==
    /\ regs \in Seq(RegDef)
    /\ ToSet(regs) = ReadOf(xml.regs, RegsN)

OpcodesRead ==
    /\ opcodes \in Seq(EnumElement)
    /\ inType3 \in BOOLEAN
    /\ inType3 <=> Inside(xml.packets, "adreno_pm4_type3_packets", PacketsN)
    /\ InOrder(opcodes, xml.packets,
               ValuesOf(xml.packets, "adreno_pm4_type3_packets") \cap (1 .. PacketsN))

EnumsRead ==
    /\ enums \in Seq(EnumElement)
    /\ inTarget \in BOOLEAN
    /\ inTarget <=> Inside(xml.enums, "a8xx_statetype_id", EnumsN)
    /\ depth = IF Open(xml.enums, EnumsN) THEN 1 ELSE 0
    /\ InOrder(enums, xml.enums, ValuesOf(xml.enums, "a8xx_statetype_id") \cap (1 .. EnumsN))

\* The tables, once they are written.
NamesWritten ==
    step \in {"offsets", "gen8", "blocks", "opcodes", "statetypes", "done"} =>
        /\ DOMAIN RegNameByOffset = Offsets(ToSet(regs))
        /\ \A o \in DOMAIN RegNameByOffset :
              \E r \in ToSet(regs) : r.offset = o /\ r.name = RegNameByOffset[o]
OffsetsWritten ==
    step \in {"gen8", "blocks", "opcodes", "statetypes", "done"} =>
        /\ DOMAIN RegOffsetByName = Names(ToSet(regs))
        /\ \A n \in DOMAIN RegOffsetByName :
              \E r \in ToSet(regs) : r.name = n /\ r.offset = RegOffsetByName[n]
Gen8Written ==
    step \in {"blocks", "opcodes", "statetypes", "done"} =>
        IsA8XXRegister = Offsets({r \in ToSet(regs) : r.gen8})
BlocksWritten ==
    step \in {"opcodes", "statetypes", "done"} =>
        /\ DOMAIN RegistersByBlock = {b \in {Block[r.name[1]] : r \in ToSet(regs)} : InBlock(b) # {}}
        /\ \A b \in DOMAIN RegistersByBlock : RegistersByBlock[b] = InBlock(b)
EnumsWritten ==
    /\ step \in {"statetypes", "done"} => RegisteredPM4Type3Opcodes = FirstNames(opcodes)
    /\ step = "done" => A8XXStatetypeIDs = FirstNames(enums)

TablesWritten == NamesWritten /\ OffsetsWritten /\ Gen8Written /\ BlocksWritten /\ EnumsWritten

RegGenInv ==
    /\ xml \in [regs : RegisterFiles, packets : PacketFiles, enums : EnumFiles]
    /\ step \in {"regs", "packets", "enums", "names", "offsets", "gen8", "blocks", "opcodes",
                 "statetypes", "done", "rejected"}
    /\ k \in Nat
    /\ step \in {"regs", "packets", "enums"} => k <= Len(xml[step])
    /\ RegsRead /\ OpcodesRead /\ EnumsRead /\ TablesWritten

\* Of the files and the tables, what they are sequences of.
LEMMA FileTypes ==
  ASSUME xml \in [regs : RegisterFiles, packets : PacketFiles, enums : EnumFiles]
  PROVE  /\ xml.regs \in Seq(RegElement)
         /\ xml.packets \in Seq(EnumElement)
         /\ xml.enums \in Seq(EnumElement)
         /\ xml.regs \in RegisterFiles /\ xml.packets \in PacketFiles /\ xml.enums \in EnumFiles
         /\ DOMAIN xml = {"regs", "packets", "enums"}
BY RegGenAssumption DEF RegElement, EnumElement

LEMMA EmptyInOrder ==
  ASSUME NEW file
  PROVE  InOrder(<<>>, file, {})
<1>1. DOMAIN <<>> = {}
  OBVIOUS
<1>2. [i \in {} |-> i] \in [{} -> {}]
  OBVIOUS
<1>3. QED BY <1>1, <1>2 DEF InOrder

LEMMA RegGenInvInit == RegGenInit => RegGenInv
<1> SUFFICES ASSUME RegGenInit PROVE RegGenInv
  OBVIOUS
<1> USE DEF RegGenInit
<1>1. RegsN = 0 /\ PacketsN = 0 /\ EnumsN = 0
  BY DEF RegsN, PacketsN, EnumsN
<1>2. 1 .. 0 = {}
  OBVIOUS
<1>3. RegsRead
  BY <1>1, <1>2 DEF RegsRead, ReadOf, ToSet
<1>4. OpcodesRead
  <2>1. ~Inside(xml.packets, "adreno_pm4_type3_packets", 0)
    BY <1>2 DEF Inside
  <2>2. ValuesOf(xml.packets, "adreno_pm4_type3_packets") \cap (1 .. 0) = {}
    BY <1>2
  <2>3. opcodes = <<>> /\ opcodes \in Seq(EnumElement)
    OBVIOUS
  <2>4. InOrder(<<>>, xml.packets, {})
    BY EmptyInOrder
  <2>5. QED BY <1>1, <2>1, <2>2, <2>3, <2>4 DEF OpcodesRead
<1>5. EnumsRead
  <2>1. ~Inside(xml.enums, "a8xx_statetype_id", 0) /\ ~Open(xml.enums, 0)
    BY <1>2 DEF Inside, Open
  <2>2. ValuesOf(xml.enums, "a8xx_statetype_id") \cap (1 .. 0) = {}
    BY <1>2
  <2>3. enums = <<>> /\ enums \in Seq(EnumElement)
    OBVIOUS
  <2>4. InOrder(<<>>, xml.enums, {})
    BY EmptyInOrder
  <2>5. QED BY <1>1, <2>1, <2>2, <2>3, <2>4 DEF EnumsRead
<1>6. TablesWritten
  BY DEF NamesWritten, OffsetsWritten, Gen8Written,
         BlocksWritten, EnumsWritten, TablesWritten
<1>7. step \in {"regs", "packets", "enums"} => k <= Len(xml[step])
  <2>1. xml.regs \in Seq(RegElement)
    BY FileTypes
  <2>2. xml[step] = xml.regs
    OBVIOUS
  <2>3. QED BY <2>1, <2>2
<1>8. QED BY <1>3, <1>4, <1>5, <1>6, <1>7 DEF RegGenInv

LEMMA ParseA6xxRegisterInv == RegGenInv /\ ParseA6xxRegister => RegGenInv'
<1> SUFFICES ASSUME RegGenInv, ParseA6xxRegister PROVE RegGenInv'
  OBVIOUS
<1>1. /\ step = "regs" /\ step' = "regs" /\ k \in Nat /\ k < Len(xml.regs) /\ k' = k + 1 /\ xml' = xml
      /\ regs' = regs \o Defs(xml.regs[k + 1])
      /\ UNCHANGED <<inType3, opcodes, inTarget, depth, enums, tables>>
  BY DEF RegGenInv, ParseA6xxRegister, Reading, Element, parsed
<1>2. xml.regs \in Seq(RegElement) /\ k + 1 \in 1 .. Len(xml.regs) /\ xml.regs[k + 1] \in RegElement
  BY <1>1, FileTypes DEF RegGenInv
<1>3. RegsRead'
  <2>1. Defs(xml.regs[k + 1]) \in Seq(RegDef)
    BY <1>2, DefsType
  <2>2. regs \in Seq(RegDef) /\ ToSet(regs) = ReadOf(xml.regs, k)
    BY <1>1 DEF RegGenInv, RegsRead, RegsN
  <2>3. regs' \in Seq(RegDef) /\ ToSet(regs') = ToSet(regs) \union ToSet(Defs(xml.regs[k + 1]))
    BY <1>1, <2>1, <2>2, ToSetConcat
  <2>4. 1 .. k + 1 = (1 .. k) \union {k + 1}
    BY <1>1
  <2>5. ReadOf(xml.regs, k + 1) = ReadOf(xml.regs, k) \union ToSet(Defs(xml.regs[k + 1]))
    BY <2>4 DEF ReadOf
  <2>6. ToSet(regs)' = ToSet(regs') /\ RegsN' = k + 1
    BY <1>1 DEF ToSet, RegsN
  <2>7. QED BY <1>1, <2>2, <2>3, <2>5, <2>6 DEF RegsRead
<1>4. OpcodesRead' /\ EnumsRead'
  <2>1. PacketsN = 0 /\ PacketsN' = 0 /\ EnumsN = 0 /\ EnumsN' = 0
    BY <1>1 DEF PacketsN, EnumsN
  <2>2. QED BY <1>1, <2>1 DEF RegGenInv, OpcodesRead, EnumsRead, parsed
<1>5. TablesWritten'
  BY <1>1 DEF NamesWritten, OffsetsWritten, Gen8Written,
              BlocksWritten, EnumsWritten, TablesWritten
<1>6. QED BY <1>1, <1>2, <1>3, <1>4, <1>5 DEF RegGenInv

LEMMA ParsePM4Inv == RegGenInv /\ ParsePM4 => RegGenInv'
<1> DEFINE type3 == "adreno_pm4_type3_packets"
           file == xml.packets
<1> SUFFICES ASSUME RegGenInv, ParsePM4 PROVE RegGenInv'
  OBVIOUS
<1>1. /\ step = "packets" /\ step' = "packets" /\ k \in Nat /\ k < Len(file) /\ k' = k + 1 /\ xml' = xml
      /\ UNCHANGED <<regs, inTarget, depth, enums, tables>>
  BY DEF RegGenInv, ParsePM4, Reading
<1>2. /\ file \in Seq(EnumElement) /\ k \in 0 .. Len(file) - 1 /\ k + 1 \in 1 .. Len(file)
      /\ file[k + 1] \in EnumElement
  BY <1>1, FileTypes DEF RegGenInv
<1>3. /\ Element = file[k + 1]
      /\ Element.tag \in {"enum", "value", "end"} /\ Element.name \in STRING
      /\ Element = Enum(type3) <=> Element.tag = "enum" /\ Element.name = type3
  <2>1. Element = file[k + 1]
    BY <1>1 DEF Element
  <2>2. Element.tag = "enum" => Element.value = 0
    BY <1>2, <2>1, RegGenAssumption, FileTypes DEF RegGenInv
  <2>3. QED BY <1>2, <2>1, <2>2 DEF EnumElement, Enum
<1>4. /\ PacketsN = k /\ PacketsN' = k + 1 /\ RegsN' = RegsN /\ EnumsN = 0 /\ EnumsN' = 0
  BY <1>1 DEF PacketsN, RegsN, EnumsN
<1>5. OpcodesRead'
  <2>1. inType3' \in BOOLEAN /\ (inType3' <=> Inside(file, type3, k + 1))
    <3>1. Inside(file, type3, k + 1) <=>
             Element.tag # "end" /\ (inType3 \/ (Element.tag = "enum" /\ Element.name = type3))
      BY <1>2, <1>3, <1>4, InsideStep DEF RegGenInv, OpcodesRead
    <3>2. inType3 \in BOOLEAN
      BY DEF RegGenInv, OpcodesRead
    <3>3. CASE Element.tag = "enum"
      BY <3>1, <3>2, <3>3 DEF ParsePM4
    <3>4. CASE Element.tag = "end"
      BY <3>1, <3>2, <3>4 DEF ParsePM4
    <3>5. CASE Element.tag = "value"
      BY <3>1, <3>2, <3>5 DEF ParsePM4
    <3>6. QED BY <1>3, <3>3, <3>4, <3>5
  <2> DEFINE read == ValuesOf(file, type3) \cap (1 .. k)
  <2>2. opcodes \in Seq(EnumElement) /\ InOrder(opcodes, file, read) /\ read \in SUBSET (1 .. k)
    BY <1>4 DEF RegGenInv, OpcodesRead
  <2>3. opcodes' \in Seq(EnumElement) /\ InOrder(opcodes', file, ValuesOf(file, type3) \cap (1 .. k + 1))
    <3>1. CASE inType3 /\ Element.tag = "value"
      <4>1. opcodes' = Append(opcodes, file[k + 1])
        BY <1>3, <3>1 DEF ParsePM4
      <4>2. ValuesOf(file, type3) \cap (1 .. k + 1) = read \union {k + 1}
        BY <1>2, <1>3, <1>4, <3>1, ValuesOfStep DEF RegGenInv, OpcodesRead
      <4> HIDE DEF read, file
      <4>3. InOrder(Append(opcodes, file[k + 1]), file, read \union {k + 1})
        BY <1>1, <1>2, <2>2, InOrderAppend
      <4>4. Append(opcodes, file[k + 1]) \in Seq(EnumElement)
        BY <1>2, <2>2
      <4>5. QED BY <4>1, <4>2, <4>3, <4>4
    <3>2. CASE ~(inType3 /\ Element.tag = "value")
      <4>1. opcodes' = opcodes
        BY <3>2 DEF ParsePM4
      <4>2. ValuesOf(file, type3) \cap (1 .. k + 1) = read
        BY <1>2, <1>3, <1>4, <3>2, ValuesOfStep DEF RegGenInv, OpcodesRead
      <4>3. QED BY <2>2, <4>1, <4>2
    <3>3. QED BY <3>1, <3>2
  <2>4. QED BY <1>1, <1>4, <2>1, <2>3 DEF OpcodesRead
<1>6. RegsRead' /\ EnumsRead'
  BY <1>1, <1>4 DEF RegGenInv, RegsRead, EnumsRead, ToSet
<1>7. TablesWritten'
  BY <1>1 DEF NamesWritten, OffsetsWritten, Gen8Written,
              BlocksWritten, EnumsWritten, TablesWritten
<1>8. QED BY <1>1, <1>2, <1>5, <1>6, <1>7 DEF RegGenInv

LEMMA ParseEnumInv == RegGenInv /\ ParseEnum => RegGenInv'
<1> DEFINE target == "a8xx_statetype_id"
           file == xml.enums
<1> SUFFICES ASSUME RegGenInv, ParseEnum PROVE RegGenInv'
  OBVIOUS
<1>1. /\ step = "enums" /\ step' = "enums" /\ k \in Nat /\ k < Len(file) /\ k' = k + 1 /\ xml' = xml
      /\ UNCHANGED <<regs, inType3, opcodes, tables>>
  BY DEF RegGenInv, ParseEnum, Reading
<1>2. /\ file \in Seq(EnumElement) /\ k \in 0 .. Len(file) - 1 /\ k + 1 \in 1 .. Len(file)
      /\ file[k + 1] \in EnumElement
  BY <1>1, FileTypes DEF RegGenInv
<1>3. /\ Element = file[k + 1]
      /\ Element.tag \in {"enum", "value", "end"} /\ Element.name \in STRING
      /\ Element = Enum(target) <=> Element.tag = "enum" /\ Element.name = target
      /\ Element.tag = "enum" => ~Open(file, k)
      /\ Element.tag = "end" => Open(file, k)
  <2>1. Element = file[k + 1]
    BY <1>1 DEF Element
  <2>2. Element.tag = "enum" => Element.value = 0
    BY <1>2, <2>1, RegGenAssumption, FileTypes DEF RegGenInv
  <2>3. (k + 1) - 1 = k /\ k + 1 \in DOMAIN file
    BY <1>1, <1>2
  <2>4. /\ Element.tag = "enum" => ~Open(file, k)
        /\ Element.tag = "end" => Open(file, k)
    <3>1. xml.enums \in PacketFiles \union EnumFiles
      BY FileTypes DEF RegGenInv
    <3>2. /\ file[k + 1].tag = "enum" =>
                \A m \in 1 .. (k + 1) - 1 :
                    ~(file[m].tag = "enum" /\ \A l \in m .. (k + 1) - 1 : file[l].tag # "end")
          /\ file[k + 1].tag = "end" =>
                \E m \in 1 .. (k + 1) - 1 :
                    file[m].tag = "enum" /\ \A l \in m .. (k + 1) - 1 : file[l].tag # "end"
      BY <2>3, <3>1, RegGenAssumption
    <3>3. QED BY <2>1, <2>3, <3>2 DEF Open
  <2>5. QED BY <1>2, <2>1, <2>2, <2>4 DEF EnumElement, Enum
<1>4. /\ EnumsN = k /\ EnumsN' = k + 1 /\ RegsN' = RegsN /\ PacketsN' = PacketsN
  BY <1>1 DEF PacketsN, RegsN, EnumsN
<1>5. EnumsRead'
  <2>1. /\ depth = IF Open(file, k) THEN 1 ELSE 0
        /\ inTarget \in BOOLEAN /\ (inTarget <=> Inside(file, target, k))
        /\ Inside(file, target, k) => Open(file, k)
    BY <1>4 DEF RegGenInv, EnumsRead, Inside, Open, Enum
  <2>2. Open(file, k + 1) <=> Element.tag # "end" /\ (Open(file, k) \/ Element.tag = "enum")
    BY <1>2, <1>3, OpenStep
  <2>3. Inside(file, target, k + 1) <=>
             Element.tag # "end" /\ (inTarget \/ (Element.tag = "enum" /\ Element.name = target))
    BY <1>2, <1>3, <2>1, InsideStep
  <2>4. depth' = IF Open(file, k + 1) THEN 1 ELSE 0
    <3>1. CASE Element.tag = "enum"
      BY <1>3, <2>1, <2>2, <3>1 DEF ParseEnum
    <3>2. CASE Element.tag = "end"
      BY <1>3, <2>1, <2>2, <3>2 DEF ParseEnum
    <3>3. CASE Element.tag = "value"
      BY <1>3, <2>1, <2>2, <3>3 DEF ParseEnum
    <3>4. QED BY <1>3, <3>1, <3>2, <3>3
  <2>5. inTarget' \in BOOLEAN /\ (inTarget' <=> Inside(file, target, k + 1))
    <3>1. CASE Element.tag = "enum"
      BY <1>3, <2>1, <2>3, <3>1 DEF ParseEnum
    <3>2. CASE Element.tag = "end"
      BY <1>3, <2>1, <2>2, <2>3, <2>4, <3>2 DEF ParseEnum
    <3>3. CASE Element.tag = "value"
      BY <1>3, <2>1, <2>3, <3>3 DEF ParseEnum
    <3>4. QED BY <1>3, <3>1, <3>2, <3>3
  <2> DEFINE read == ValuesOf(file, target) \cap (1 .. k)
  <2>6. enums \in Seq(EnumElement) /\ InOrder(enums, file, read) /\ read \in SUBSET (1 .. k)
    BY <1>4 DEF RegGenInv, EnumsRead
  <2>7. enums' \in Seq(EnumElement) /\ InOrder(enums', file, ValuesOf(file, target) \cap (1 .. k + 1))
    <3>1. CASE inTarget /\ Element.tag = "value"
      <4>1. enums' = Append(enums, file[k + 1])
        BY <1>3, <3>1 DEF ParseEnum
      <4>2. ValuesOf(file, target) \cap (1 .. k + 1) = read \union {k + 1}
        BY <1>2, <1>3, <2>1, <3>1, ValuesOfStep
      <4> HIDE DEF read, file
      <4>3. InOrder(Append(enums, file[k + 1]), file, read \union {k + 1})
        BY <1>1, <1>2, <2>6, InOrderAppend
      <4>4. Append(enums, file[k + 1]) \in Seq(EnumElement)
        BY <1>2, <2>6
      <4>5. QED BY <4>1, <4>2, <4>3, <4>4
    <3>2. CASE ~(inTarget /\ Element.tag = "value")
      <4>1. enums' = enums
        BY <3>2 DEF ParseEnum
      <4>2. ValuesOf(file, target) \cap (1 .. k + 1) = read
        BY <1>2, <1>3, <2>1, <3>2, ValuesOfStep
      <4>3. QED BY <2>6, <4>1, <4>2
    <3>3. QED BY <3>1, <3>2
  <2>8. QED BY <1>1, <1>4, <2>4, <2>5, <2>7 DEF EnumsRead
<1>6. RegsRead' /\ OpcodesRead'
  BY <1>1, <1>4 DEF RegGenInv, RegsRead, OpcodesRead, ToSet
<1>7. TablesWritten'
  BY <1>1 DEF NamesWritten, OffsetsWritten, Gen8Written,
              BlocksWritten, EnumsWritten, TablesWritten
<1>8. QED BY <1>1, <1>2, <1>5, <1>6, <1>7 DEF RegGenInv

LEMMA NextFileInv == RegGenInv /\ NextFile => RegGenInv'
<1> SUFFICES ASSUME RegGenInv, NextFile PROVE RegGenInv'
  OBVIOUS
<1>1. /\ step \in {"regs", "packets", "enums"} /\ k = Len(xml[step]) /\ k' = 0
      /\ step' = CASE step = "regs" -> "packets" [] step = "packets" -> "enums" [] step = "enums" -> "names"
      /\ xml' = xml /\ UNCHANGED <<regs, inType3, opcodes, inTarget, depth, enums, tables>>
  BY FileTypes DEF RegGenInv, NextFile, parsed
<1>2. Len(xml.regs) \in Nat /\ Len(xml.packets) \in Nat /\ Len(xml.enums) \in Nat
  BY FileTypes DEF RegGenInv
<1>3. /\ RegsN' = RegsN /\ PacketsN' = PacketsN /\ EnumsN' = EnumsN
      /\ step' \in {"packets", "enums", "names"}
      /\ step' \in {"regs", "packets", "enums"} => k' <= Len(xml'[step'])
  <2>1. CASE step = "regs"
    BY <1>1, <1>2, <2>1 DEF RegsN, PacketsN, EnumsN
  <2>2. CASE step = "packets"
    BY <1>1, <1>2, <2>2 DEF RegsN, PacketsN, EnumsN
  <2>3. CASE step = "enums"
    BY <1>1, <1>2, <2>3 DEF RegsN, PacketsN, EnumsN
  <2>4. QED BY <1>1, <2>1, <2>2, <2>3
<1>4. RegsRead' /\ OpcodesRead' /\ EnumsRead'
  BY <1>1, <1>3 DEF RegGenInv, RegsRead, OpcodesRead, EnumsRead, ToSet
<1>5. TablesWritten'
  BY <1>3 DEF NamesWritten, OffsetsWritten, Gen8Written,
              BlocksWritten, EnumsWritten, TablesWritten
<1>6. QED BY <1>1, <1>3, <1>4, <1>5 DEF RegGenInv

\* Writing a table changes nothing of what is read.
LEMMA WriteInv ==
  ASSUME RegGenInv, UNCHANGED <<xml, k, parsed>>,
         step \in {"names", "offsets", "gen8", "blocks", "opcodes", "statetypes"},
         step' \in {"offsets", "gen8", "blocks", "opcodes", "statetypes", "done", "rejected"},
         TablesWritten'
  PROVE  RegGenInv'
<1>1. /\ RegsN' = RegsN /\ PacketsN' = PacketsN /\ EnumsN' = EnumsN
      /\ xml' = xml /\ k' = k /\ UNCHANGED <<regs, inType3, opcodes, inTarget, depth, enums>>
  BY DEF RegsN, PacketsN, EnumsN, parsed
<1>2. RegsRead' /\ OpcodesRead' /\ EnumsRead'
  BY <1>1 DEF RegGenInv, RegsRead, OpcodesRead, EnumsRead, ToSet
<1>3. QED BY <1>1, <1>2 DEF RegGenInv

LEMMA RegGenInvNext == RegGenInv /\ [RegGenNext]_regGenVars => RegGenInv'
<1> SUFFICES ASSUME RegGenInv, [RegGenNext]_regGenVars PROVE RegGenInv'
  OBVIOUS
<1>1. CASE UNCHANGED regGenVars
  <2>1. /\ RegsN' = RegsN /\ PacketsN' = PacketsN /\ EnumsN' = EnumsN
        /\ xml' = xml /\ k' = k /\ step' = step
        /\ UNCHANGED <<regs, inType3, opcodes, inTarget, depth, enums>> /\ UNCHANGED tables
    BY <1>1 DEF regGenVars, RegsN, PacketsN, EnumsN, parsed
  <2>2. RegsRead' /\ OpcodesRead' /\ EnumsRead'
    BY <2>1 DEF RegGenInv, RegsRead, OpcodesRead, EnumsRead, ToSet
  <2>3. NamesWritten' /\ OffsetsWritten' /\ Gen8Written'
    BY <2>1 DEF RegGenInv, TablesWritten, NamesWritten, OffsetsWritten, Gen8Written, tables,
                Offsets, Names, ToSet
  <2>4. BlocksWritten'
    <3>1. ToSet(regs)' = ToSet(regs) /\ \A b : InBlock(b)' = InBlock(b)
      BY <2>1 DEF InBlock, Offsets, ToSet
    <3>2. QED BY <2>1, <3>1 DEF RegGenInv, TablesWritten, BlocksWritten, tables
  <2>5. EnumsWritten'
    BY <2>1 DEF RegGenInv, TablesWritten, EnumsWritten, tables
  <2>6. QED BY <2>1, <2>2, <2>3, <2>4, <2>5 DEF RegGenInv, TablesWritten
<1>2. CASE WriteRegNameMap
  <2>1. UNCHANGED parsed /\ regs' = regs /\ opcodes' = opcodes /\ enums' = enums
    BY <1>2 DEF WriteRegNameMap, parsed
  <2>8. ToSet(regs)' = ToSet(regs) /\ \A b : InBlock(b)' = InBlock(b)
    BY <2>1 DEF InBlock, Offsets, ToSet
  <2>2. NamesWritten'
    BY <1>2, <2>1 DEF RegGenInv, TablesWritten, WriteRegNameMap, NamesWritten, Offsets, ToSet, Names
  <2>3. OffsetsWritten'
    BY <1>2, <2>1 DEF RegGenInv, TablesWritten, WriteRegNameMap, OffsetsWritten, Names, ToSet, Offsets
  <2>4. Gen8Written'
    BY <1>2, <2>1 DEF RegGenInv, TablesWritten, WriteRegNameMap, Gen8Written, Offsets, ToSet
  <2>5. BlocksWritten'
    BY <1>2, <2>1, <2>8 DEF RegGenInv, TablesWritten, WriteRegNameMap, BlocksWritten
  <2>6. EnumsWritten'
    BY <1>2, <2>1 DEF RegGenInv, TablesWritten, WriteRegNameMap, EnumsWritten
  <2>7. QED BY <1>2, <2>2, <2>3, <2>4, <2>5, <2>6, WriteInv DEF WriteRegNameMap, TablesWritten
<1>3. CASE WriteRegOffsetMap
  <2>1. UNCHANGED parsed /\ regs' = regs /\ opcodes' = opcodes /\ enums' = enums
    BY <1>3 DEF WriteRegOffsetMap, parsed
  <2>8. ToSet(regs)' = ToSet(regs) /\ \A b : InBlock(b)' = InBlock(b)
    BY <2>1 DEF InBlock, Offsets, ToSet
  <2>2. NamesWritten'
    BY <1>3, <2>1 DEF RegGenInv, TablesWritten, WriteRegOffsetMap, NamesWritten, Offsets, ToSet, Names
  <2>3. OffsetsWritten'
    BY <1>3, <2>1 DEF RegGenInv, TablesWritten, WriteRegOffsetMap, OffsetsWritten, Names, ToSet, Offsets
  <2>4. Gen8Written'
    BY <1>3, <2>1 DEF RegGenInv, TablesWritten, WriteRegOffsetMap, Gen8Written, Offsets, ToSet
  <2>5. BlocksWritten'
    BY <1>3, <2>1, <2>8 DEF RegGenInv, TablesWritten, WriteRegOffsetMap, BlocksWritten
  <2>6. EnumsWritten'
    BY <1>3, <2>1 DEF RegGenInv, TablesWritten, WriteRegOffsetMap, EnumsWritten
  <2>7. QED BY <1>3, <2>2, <2>3, <2>4, <2>5, <2>6, WriteInv DEF WriteRegOffsetMap, TablesWritten
<1>4. CASE WriteA8XXRegMap
  <2>1. UNCHANGED parsed /\ regs' = regs /\ opcodes' = opcodes /\ enums' = enums
    BY <1>4 DEF WriteA8XXRegMap, parsed
  <2>8. ToSet(regs)' = ToSet(regs) /\ \A b : InBlock(b)' = InBlock(b)
    BY <2>1 DEF InBlock, Offsets, ToSet
  <2>2. NamesWritten'
    BY <1>4, <2>1 DEF RegGenInv, TablesWritten, WriteA8XXRegMap, NamesWritten, Offsets, ToSet, Names
  <2>3. OffsetsWritten'
    BY <1>4, <2>1 DEF RegGenInv, TablesWritten, WriteA8XXRegMap, OffsetsWritten, Names, ToSet, Offsets
  <2>4. Gen8Written'
    BY <1>4, <2>1 DEF RegGenInv, TablesWritten, WriteA8XXRegMap, Gen8Written, Offsets, ToSet
  <2>5. BlocksWritten'
    BY <1>4, <2>1, <2>8 DEF RegGenInv, TablesWritten, WriteA8XXRegMap, BlocksWritten
  <2>6. EnumsWritten'
    BY <1>4, <2>1 DEF RegGenInv, TablesWritten, WriteA8XXRegMap, EnumsWritten
  <2>7. QED BY <1>4, <2>2, <2>3, <2>4, <2>5, <2>6, WriteInv DEF WriteA8XXRegMap, TablesWritten
<1>5. CASE WriteRegByPrefix
  <2>1. UNCHANGED parsed /\ regs' = regs /\ opcodes' = opcodes /\ enums' = enums
    BY <1>5 DEF WriteRegByPrefix, parsed
  <2>8. ToSet(regs)' = ToSet(regs) /\ \A b : InBlock(b)' = InBlock(b)
    BY <2>1 DEF InBlock, Offsets, ToSet
  <2>2. NamesWritten'
    BY <1>5, <2>1 DEF RegGenInv, TablesWritten, WriteRegByPrefix, NamesWritten, Offsets, ToSet, Names
  <2>3. OffsetsWritten'
    BY <1>5, <2>1 DEF RegGenInv, TablesWritten, WriteRegByPrefix, OffsetsWritten, Names, ToSet, Offsets
  <2>4. Gen8Written'
    BY <1>5, <2>1 DEF RegGenInv, TablesWritten, WriteRegByPrefix, Gen8Written, Offsets, ToSet
  <2>5. BlocksWritten'
    BY <1>5, <2>1, <2>8 DEF RegGenInv, TablesWritten, WriteRegByPrefix, BlocksWritten
  <2>6. EnumsWritten'
    BY <1>5, <2>1 DEF RegGenInv, TablesWritten, WriteRegByPrefix, EnumsWritten
  <2>7. QED BY <1>5, <2>2, <2>3, <2>4, <2>5, <2>6, WriteInv DEF WriteRegByPrefix, TablesWritten
<1>6. CASE WritePM4OpcodeMap
  <2>1. UNCHANGED parsed /\ regs' = regs /\ opcodes' = opcodes /\ enums' = enums
    BY <1>6 DEF WritePM4OpcodeMap, parsed
  <2>8. ToSet(regs)' = ToSet(regs) /\ \A b : InBlock(b)' = InBlock(b)
    BY <2>1 DEF InBlock, Offsets, ToSet
  <2>2. NamesWritten'
    BY <1>6, <2>1 DEF RegGenInv, TablesWritten, WritePM4OpcodeMap, NamesWritten, Offsets, ToSet, Names
  <2>3. OffsetsWritten'
    BY <1>6, <2>1 DEF RegGenInv, TablesWritten, WritePM4OpcodeMap, OffsetsWritten, Names, ToSet, Offsets
  <2>4. Gen8Written'
    BY <1>6, <2>1 DEF RegGenInv, TablesWritten, WritePM4OpcodeMap, Gen8Written, Offsets, ToSet
  <2>5. BlocksWritten'
    BY <1>6, <2>1, <2>8 DEF RegGenInv, TablesWritten, WritePM4OpcodeMap, BlocksWritten
  <2>6. EnumsWritten'
    BY <1>6, <2>1 DEF RegGenInv, TablesWritten, WritePM4OpcodeMap, EnumsWritten
  <2>7. QED BY <1>6, <2>2, <2>3, <2>4, <2>5, <2>6, WriteInv DEF WritePM4OpcodeMap, TablesWritten
<1>7. CASE WriteStatetypeIDs
  <2>1. UNCHANGED parsed /\ regs' = regs /\ opcodes' = opcodes /\ enums' = enums
    BY <1>7 DEF WriteStatetypeIDs, parsed
  <2>8. ToSet(regs)' = ToSet(regs) /\ \A b : InBlock(b)' = InBlock(b)
    BY <2>1 DEF InBlock, Offsets, ToSet
  <2>2. NamesWritten'
    BY <1>7, <2>1 DEF RegGenInv, TablesWritten, WriteStatetypeIDs, NamesWritten, Offsets, ToSet, Names
  <2>3. OffsetsWritten'
    BY <1>7, <2>1 DEF RegGenInv, TablesWritten, WriteStatetypeIDs, OffsetsWritten, Names, ToSet, Offsets
  <2>4. Gen8Written'
    BY <1>7, <2>1 DEF RegGenInv, TablesWritten, WriteStatetypeIDs, Gen8Written, Offsets, ToSet
  <2>5. BlocksWritten'
    BY <1>7, <2>1, <2>8 DEF RegGenInv, TablesWritten, WriteStatetypeIDs, BlocksWritten
  <2>6. EnumsWritten'
    BY <1>7, <2>1 DEF RegGenInv, TablesWritten, WriteStatetypeIDs, EnumsWritten
  <2>7. QED BY <1>7, <2>2, <2>3, <2>4, <2>5, <2>6, WriteInv DEF WriteStatetypeIDs, TablesWritten
<1>8. CASE RegGenTerminated
  BY <1>1, <1>8 DEF RegGenTerminated
<1>9. QED
  BY <1>1, <1>2, <1>3, <1>4, <1>5, <1>6, <1>7, <1>8,
     ParseA6xxRegisterInv, ParsePM4Inv, ParseEnumInv, NextFileInv DEF RegGenNext

-----------------------------------------------------------------------------

\* The variables of reg-gen are what the module says, whatever the files.
THEOREM RegGenTypeCorrect == RegGenSpec => []RegGenTypeOK
<1>1. RegGenInv => RegGenTypeOK
  <2> SUFFICES ASSUME RegGenInv PROVE RegGenTypeOK
    OBVIOUS
  <2>1. \A r \in ToSet(regs) : r.name[1] \in DOMAIN Block /\ r.offset \in Nat /\ r.gen8 \in BOOLEAN
    <3>1. SUFFICES ASSUME NEW r \in ToSet(regs)
                   PROVE  r.name[1] \in DOMAIN Block /\ r.offset \in Nat /\ r.gen8 \in BOOLEAN
      OBVIOUS
    <3>2. r \in RegDef
      BY DEF RegGenInv, RegsRead, ToSet
    <3>3. QED BY <3>2 DEF RegDef, RegName
  <2>2. depth \in Nat /\ (inTarget => depth > 0)
    <3>1. Inside(xml.enums, "a8xx_statetype_id", EnumsN) => Open(xml.enums, EnumsN)
      BY DEF Inside, Open, Enum
    <3>2. QED BY <3>1 DEF RegGenInv, EnumsRead
  <2>3. step \in DOMAIN xml => k \in 0 .. Len(xml[step])
    <3>1. step \in {"regs", "packets", "enums"} => Len(xml[step]) \in Nat
      BY FileTypes DEF RegGenInv
    <3>2. QED BY <3>1, FileTypes DEF RegGenInv
  <2>4. QED BY <2>1, <2>2, <2>3, FileTypes DEF RegGenInv, RegGenTypeOK
<1>2. QED BY <1>1, RegGenInvInit, RegGenInvNext, PTL DEF RegGenSpec

\* The registers of an element reg-gen reads for what it is are those of it that
\* are listed.
LEMMA PlainDefs ==
  ASSUME NEW e \in RegElement, e.tag # "nested", e.stride = 1
  PROVE  ToSet(Defs(e)) = {r \in Described(e) : r.offset # 0 \/ Len(r.name) = 2}
<1>1. e.offset \in Nat /\ e.length \in Nat
  BY DEF RegElement
<1>2. CASE e.tag = "array"
  <2> DEFINE d(n) == Def(<<e.name, n>>, e.offset + n, e.gen8)
  <2>1. Described(e) = {d(n) : n \in 0 .. e.length - 1}
    <3>1. \A n \in 0 .. e.length - 1 : n * e.stride = n
      BY <1>1
    <3>2. QED BY <1>2, <3>1 DEF Described
  <2>2. ToSet(Defs(e)) = {d(n - 1) : n \in 1 .. e.length}
    <3>1. \A n \in 1 .. e.length : e.offset + n - 1 = e.offset + (n - 1)
      BY <1>1
    <3>2. QED BY <1>2, <3>1 DEF Defs, ToSet
  <2>3. {d(n - 1) : n \in 1 .. e.length} = {d(n) : n \in 0 .. e.length - 1}
    <3>1. \A n \in 1 .. e.length : n - 1 \in 0 .. e.length - 1
      BY <1>1
    <3>2. \A n \in 0 .. e.length - 1 : n + 1 \in 1 .. e.length /\ (n + 1) - 1 = n
      BY <1>1
    <3> HIDE DEF d
    <3>3. QED BY <3>1, <3>2
  <2>4. \A n : Len(d(n).name) = 2
    BY DEF Def
  <2> HIDE DEF d
  <2>5. QED BY <2>1, <2>2, <2>3, <2>4
<1>3. CASE e.tag # "array"
  <2> DEFINE d == Def(<<e.name>>, e.offset, e.gen8)
  <2>1. Described(e) = {d} /\ Len(d.name) = 1 /\ d.offset = e.offset
    BY <1>3 DEF Described, Def
  <2>2. ToSet(Defs(e)) = IF e.offset # 0 THEN {d} ELSE {}
    BY <1>3 DEF Defs, ToSet
  <2> HIDE DEF d
  <2>3. QED BY <2>1, <2>2
<1>4. QED BY <1>2, <1>3

\* What is read of all elements is what they describe and what is misread.
LEMMA ReadIsDescribed ==
  ASSUME RegGenInv, step \notin {"regs"}
  PROVE  ToSet(regs) = Addresses \union Misread
<1>1. xml.regs \in Seq(RegElement) /\ DOMAIN xml.regs = 1 .. Len(xml.regs)
  BY FileTypes DEF RegGenInv
<1>2. ToSet(regs) = UNION {ToSet(Defs(e)) : e \in ToSet(xml.regs)}
  <2>1. ToSet(regs) = UNION {ToSet(Defs(xml.regs[m])) : m \in 1 .. Len(xml.regs)}
    BY DEF RegGenInv, RegsRead, RegsN, ReadOf
  <2>2. {ToSet(Defs(xml.regs[m])) : m \in 1 .. Len(xml.regs)} = {ToSet(Defs(e)) : e \in ToSet(xml.regs)}
    <3>1. ToSet(xml.regs) = {xml.regs[m] : m \in 1 .. Len(xml.regs)}
      BY <1>1 DEF ToSet
    <3>2. QED BY <3>1
  <2>3. QED BY <2>1, <2>2
<1>3. \A e \in ToSet(xml.regs) : e \in RegElement
  BY <1>1 DEF ToSet
<1>4. Addresses = UNION {ToSet(Defs(e)) : e \in Plain}
  <2>1. \A e \in Plain : ToSet(Defs(e)) = {r \in Described(e) : r.offset # 0 \/ Len(r.name) = 2}
    BY <1>3, PlainDefs DEF Plain
  <2>2. QED BY <2>1 DEF Addresses
<1>5. Plain \subseteq ToSet(xml.regs)
  BY DEF Plain
<1>6. QED BY <1>2, <1>4, <1>5 DEF Misread

LEMMA RegistersTrue ==
  ASSUME RegGenInv, step = "done"
  PROVE  RegistersAreTrue
<1> DEFINE R == Addresses \union Misread
<1>1. R = ToSet(regs) /\ Addresses \subseteq R
  BY ReadIsDescribed
<1>2. /\ DOMAIN RegNameByOffset = Offsets(R)
      /\ \A o \in DOMAIN RegNameByOffset : \E r \in R : r.offset = o /\ r.name = RegNameByOffset[o]
      /\ DOMAIN RegOffsetByName = Names(R)
      /\ \A n \in DOMAIN RegOffsetByName : \E r \in R : r.name = n /\ r.offset = RegOffsetByName[n]
      /\ IsA8XXRegister = Offsets({r \in R : r.gen8})
  BY <1>1 DEF RegGenInv, TablesWritten, NamesWritten, OffsetsWritten, Gen8Written
<1>3. /\ DOMAIN RegistersByBlock = {b \in {Block[r.name[1]] : r \in R} : InBlock(b) # {}}
      /\ \A b \in DOMAIN RegistersByBlock : RegistersByBlock[b] = InBlock(b)
      /\ \A b : InBlock(b) = {r.offset : r \in {r \in R : Block[r.name[1]] = b}} \ {0}
  BY <1>1 DEF RegGenInv, TablesWritten, BlocksWritten, InBlock, Offsets
<1> HIDE DEF R
<1>4. ASSUME NEW r \in Addresses
      PROVE  /\ r.offset \in DOMAIN RegNameByOffset
             /\ r.name \in DOMAIN RegOffsetByName
             /\ r.gen8 => r.offset \in IsA8XXRegister
             /\ r.offset # 0 => r.offset \in RegistersByBlock[Block[r.name[1]]]
  <2>1. r \in R
    BY <1>1
  <2>2. r.offset # 0 => r.offset \in InBlock(Block[r.name[1]])
    BY <1>3, <2>1
  <2>3. QED BY <1>2, <1>3, <2>1, <2>2 DEF Offsets, Names
<1>5. ASSUME NEW o \in DOMAIN RegNameByOffset
      PROVE  \/ RegOffsetByName[RegNameByOffset[o]] = o
             \/ \E r, s \in R : r.name = s.name /\ r.offset # s.offset
  <2>1. PICK r \in R : r.offset = o /\ r.name = RegNameByOffset[o]
    BY <1>2
  <2>2. PICK s \in R : s.name = r.name /\ s.offset = RegOffsetByName[r.name]
    BY <1>2 DEF Names
  <2>3. QED BY <2>1, <2>2
<1>6. QED BY <1>2, <1>3, <1>4, <1>5 DEF RegistersAreTrue, R

LEMMA EnumsTrue ==
  ASSUME RegGenInv, step = "done"
  PROVE  EnumsAreTrue
<1> DEFINE opcodesAt == ValuesOf(xml.packets, "adreno_pm4_type3_packets")
           enumsAt == ValuesOf(xml.enums, "a8xx_statetype_id")
<1>1. /\ xml.packets \in Seq(EnumElement) /\ xml.enums \in Seq(EnumElement)
      /\ DOMAIN xml.packets = 1 .. Len(xml.packets) /\ DOMAIN xml.enums = 1 .. Len(xml.enums)
  BY FileTypes DEF RegGenInv
<1>2. PacketsN = Len(xml.packets) /\ EnumsN = Len(xml.enums)
  BY DEF PacketsN, EnumsN
<1>3. /\ opcodesAt \in SUBSET DOMAIN xml.packets /\ \A n \in opcodesAt : xml.packets[n].tag = "value"
      /\ enumsAt \in SUBSET DOMAIN xml.enums /\ \A n \in enumsAt : xml.enums[n].tag = "value"
  BY DEF ValuesOf
<1>4. opcodesAt \cap (1 .. PacketsN) = opcodesAt /\ enumsAt \cap (1 .. EnumsN) = enumsAt
  BY <1>1, <1>2, <1>3
<1>5. /\ opcodes \in Seq(EnumElement) /\ InOrder(opcodes, xml.packets, opcodesAt)
      /\ RegisteredPM4Type3Opcodes = FirstNames(opcodes)
      /\ enums \in Seq(EnumElement) /\ InOrder(enums, xml.enums, enumsAt)
      /\ A8XXStatetypeIDs = FirstNames(enums)
  BY <1>4 DEF RegGenInv, OpcodesRead, EnumsRead, TablesWritten, EnumsWritten
<1> HIDE DEF opcodesAt, enumsAt
<1>6. HasFirstNames(FirstNames(opcodes), xml.packets, opcodesAt)
  BY <1>1, <1>3, <1>5, FirstNamesInOrder
<1>7. HasFirstNames(FirstNames(enums), xml.enums, enumsAt)
  BY <1>1, <1>3, <1>5, FirstNamesInOrder
<1>8. QED BY <1>5, <1>6, <1>7 DEF EnumsAreTrue, HasFirstNames, opcodesAt, enumsAt

\* Every table reg-gen writes is true of the files it read, whatever they are:
\* every register at the top level is in the tables it belongs to, other entries
\* come from nested registers and strides, and the names of opcodes and state
\* types are the first of their enum.
THEOREM GeneratedTablesAreTrue == RegGenSpec => []TablesAreTrue
<1>1. RegGenInv => TablesAreTrue
  BY RegistersTrue, EnumsTrue DEF TablesAreTrue
<1>2. QED BY <1>1, RegGenInvInit, RegGenInvNext, PTL DEF RegGenSpec

-----------------------------------------------------------------------------
(* Both generators *)

\* Of the two generators, each step is one's own or leaves it alone.
THEOREM ResearchImplementsBoth == ResearchSpec => GraphSpec /\ RegGenSpec
<1>1. ResearchInit => GraphInit /\ RegGenInit
  BY DEF ResearchInit
<1>2. [ResearchNext]_researchVars =>
         [GraphNext]_<<indexVars, graphVars>> /\ [RegGenNext]_regGenVars
  BY DEF ResearchNext, researchVars
<1>3. QED BY <1>1, <1>2, PTL DEF ResearchSpec, GraphSpec, RegGenSpec

\* The variables of all of them are what the modules say, whatever the sources
\* and the register descriptions.
THEOREM ResearchTypeCorrect == ResearchSpec => []ResearchTypeOK
<1>1. TypeOK /\ GraphTypeOK /\ RegGenTypeOK => ResearchTypeOK
  BY DEF ResearchTypeOK
<1>2. QED
  BY <1>1, ResearchImplementsBoth, GraphImplementsIndex, IndexTypeCorrect, GraphTypeCorrect,
     RegGenTypeCorrect, PTL
=============================================================================
