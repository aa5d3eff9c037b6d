----------------------------- MODULE CodeIndex -----------------------------
(***************************************************************************)
(* research/cmd/index-builder: from the functions ctags finds and the      *)
(* lines ripgrep finds, an index of functions, of gen8 code sites and of   *)
(* the function each site is in.  One step is one round of a loop of       *)
(* buildIndex.                                                             *)
(*                                                                         *)
(* ctags lists functions in any order; ripgrep searches files in parallel  *)
(* and reports the lines of a file in order.  What a site's text is used   *)
(* for (its kind, a snippet) is left out, and so are the register names    *)
(* extractA8XXRegs looks for: it takes digits for separators and finds     *)
(* none, ever.                                                             *)
(***************************************************************************)
EXTENDS Naturals, SequencesExt

CONSTANTS
    Tags,      \* function tags, [name, path, line] each
    Sites,     \* lines that match, [path, line] each
    Base,      \* filepath.Base of every path
    Entries    \* names isVulkanEntry knows

VARIABLES
    tags,          \* input: what ctags found
    sites,         \* input: what ripgrep found
    tagsLeft,      \* of tags, not read
    sitesLeft,     \* of sites, not read
    Functions,     \* name to the tag indexed for it and what was noted of it
    fileFuncs,     \* functions of each file; a sequence once sorted
    EntryPoints,
    Gen8Nodes,
    pc

indexVars == <<tags, sites, tagsLeft, sitesLeft, Functions, fileFuncs, EntryPoints,
               Gen8Nodes, pc>>

-----------------------------------------------------------------------------

\* The name of a place without a function.
Unknown(path) == Base[path] \o "_unknown"

\* It has the dot of the file's name, which no function's name has.
ASSUME IndexAssumption ==
    /\ Tags \subseteq [name : {t.name : t \in Tags}, path : DOMAIN Base, line : Nat]
    /\ Sites \subseteq [path : DOMAIN Base, line : Nat]
    /\ \A t \in Tags : \A path \in DOMAIN Base : t.name # Unknown(path)

\* What is left of the two reports: a line that is not a function's tag, or is
\* no path and line, is passed over.
ParseCtags == SUBSET Tags
ParseGen8Sites == SUBSET Sites

Init ==
    /\ tags \in ParseCtags
    /\ sites \in ParseGen8Sites
    /\ tagsLeft = tags
    /\ sitesLeft = sites
    /\ Functions = <<>>
    /\ fileFuncs = [path \in DOMAIN Base |-> <<>>]
    /\ EntryPoints = <<>>
    /\ Gen8Nodes = <<>>
    /\ pc = "functions"

FuncDef(tag) ==
    [File |-> tag.path, Line |-> tag.line, Gen8Site |-> FALSE, Gen8Lines |-> <<>>,
     IsEntry |-> tag.name \in Entries]

\* A function of a name that is there replaces it, in the index only.
AddFunction ==
    /\ pc = "functions"
    /\ \E tag \in tagsLeft :
        /\ tagsLeft' = tagsLeft \ {tag}
        /\ Functions' = [name \in DOMAIN Functions \union {tag.name} |->
                            IF name = tag.name THEN FuncDef(tag) ELSE Functions[name]]
        /\ fileFuncs' = [fileFuncs EXCEPT ![tag.path] = Append(@, tag)]
        /\ EntryPoints' = IF tag.name \in Entries THEN Append(EntryPoints, tag.name)
                                                  ELSE EntryPoints
    /\ UNCHANGED <<tags, sites, sitesLeft, Gen8Nodes, pc>>

\* sort.Slice is not stable: functions of one line come in any order.
SortedByLine(s) ==
    {t \in SetToSeqs(ToSet(s)) : \A m, n \in DOMAIN t : m < n => t[m].line <= t[n].line}

SortFunctions ==
    /\ pc = "functions"
    /\ tagsLeft = {}
    /\ fileFuncs' \in {f \in [DOMAIN Base -> UNION {SortedByLine(fileFuncs[p]) : p \in DOMAIN Base}] :
                          \A p \in DOMAIN Base : f[p] \in SortedByLine(fileFuncs[p])}
    /\ pc' = "sites"
    /\ UNCHANGED <<tags, sites, tagsLeft, sitesLeft, Functions, EntryPoints, Gen8Nodes>>

\* Mutant: a function does not begin on its own line.
EnclosingBefore(path, line) ==
    LET n == SelectLastInSeq(fileFuncs[path], LAMBDA f : f.line < line)
    IN  IF n = 0 THEN Unknown(path) ELSE fileFuncs[path][n].name

\* findEnclosingFunction: the last function that begins at the line or before.
FindEnclosingFunction(path, line) ==
    LET n == SelectLastInSeq(fileFuncs[path], LAMBDA f : f.line <= line)
    IN  IF n = 0 THEN Unknown(path) ELSE fileFuncs[path][n].name

\* What the ID of a node is made of.
ID(node) == <<Base[node.File], node.Function, node.Line>>

Gen8Node(path, line, function) == [File |-> path, Line |-> line, Function |-> function]

\* The site is noted for whatever function the index has under that name.
AddSite ==
    /\ pc = "sites"
    /\ \E s \in sitesLeft :
        /\ \A other \in sitesLeft : other.path = s.path => s.line <= other.line
        /\ sitesLeft' = sitesLeft \ {s}
        /\ LET enclosing == FindEnclosingFunction(s.path, s.line) IN
            /\ Gen8Nodes' = Append(Gen8Nodes, Gen8Node(s.path, s.line, enclosing))
            /\ Functions' =
                [name \in DOMAIN Functions |->
                    IF name = enclosing
                    THEN [Functions[name] EXCEPT !.Gen8Site = TRUE, !.Gen8Lines = Append(@, s.line)]
                    ELSE Functions[name]]
    /\ UNCHANGED <<tags, sites, tagsLeft, fileFuncs, EntryPoints, pc>>

\* dedupGen8Nodes: the first node of every ID, out of the first n nodes.
Deduped(nodes) ==
    LET out[n \in 0 .. Len(nodes)] ==
            IF n = 0 THEN <<>>
            ELSE IF \E m \in 1 .. n - 1 : ID(nodes[m]) = ID(nodes[n]) THEN out[n - 1]
            ELSE Append(out[n - 1], nodes[n])
    IN  out[Len(nodes)]

DedupGen8Nodes ==
    /\ pc = "sites"
    /\ sitesLeft = {}
    /\ Gen8Nodes' = Deduped(Gen8Nodes)
    /\ pc' = "indexed"
    /\ UNCHANGED <<tags, sites, tagsLeft, sitesLeft, Functions, fileFuncs, EntryPoints>>

Next == AddFunction \/ SortFunctions \/ AddSite \/ DedupGen8Nodes

IndexSpec == Init /\ [][Next]_indexVars

-----------------------------------------------------------------------------
(* Properties *)

TypeOK ==
    /\ tagsLeft \subseteq tags /\ tags \subseteq Tags
    /\ sitesLeft \subseteq sites /\ sites \subseteq Sites
    /\ \A name \in DOMAIN Functions :
        /\ [name |-> name, path |-> Functions[name].File, line |-> Functions[name].Line] \in tags
        /\ Functions[name].Gen8Site <=> Functions[name].Gen8Lines # <<>>
    /\ \A path \in DOMAIN Base : ToSet(fileFuncs[path]) \subseteq tags
    /\ ToSet(EntryPoints) = DOMAIN Functions \cap Entries
    /\ pc \in {"functions", "sites", "indexed"}

\* The names of the functions a line may be in, by the text of its file: those
\* that begin last among the ones that begin no later.
Holders(s) ==
    LET before == {t \in tags : t.path = s.path /\ t.line <= s.line} IN
    IF before = {} THEN {Unknown(s.path)}
    ELSE {t.name : t \in {t \in before : \A u \in before : u.line <= t.line}}

\* The nodes are the sites, each in a function it is in by the text, less those
\* of files that share their name, function and line with one kept.
NodesAreSites ==
    /\ \A s \in sites : \E n \in ToSet(Gen8Nodes) :
        /\ n.Line = s.line /\ Base[n.File] = Base[s.path]
        /\ n.Function \in Holders(s)
    /\ \A n \in ToSet(Gen8Nodes) :
        LET s == [path |-> n.File, line |-> n.Line]
        IN  s \in sites /\ n.Function \in Holders(s)
    /\ \A m, n \in DOMAIN Gen8Nodes : ID(Gen8Nodes[m]) = ID(Gen8Nodes[n]) => m = n

\* A function whose name no other has is marked exactly with the lines of the
\* sites in it, in order, though marking goes by name and before the nodes are
\* deduplicated.  (Of namesakes the last read gets the marks of all of them.)
\* Functions that begin on one line are left out: each is any of them.
MarksAreItsOwn ==
    \A t \in tags :
        (\A u \in tags \ {t} : u.name # t.name /\ (u.path = t.path => u.line # t.line))
            => LET lines == Functions[t.name].Gen8Lines
               IN  /\ \A m, n \in DOMAIN lines : m < n => lines[m] < lines[n]
                   /\ ToSet(lines) = {s.line : s \in {s \in sites : /\ s.path = t.path
                                                                    /\ t.name \in Holders(s)}}

\* What index-builder writes is true of the sources (index-builder/main.go:131
\* to 157).
IndexIsTrue == pc = "indexed" => NodesAreSites /\ MarksAreItsOwn
=============================================================================
