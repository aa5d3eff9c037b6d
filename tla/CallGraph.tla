----------------------------- MODULE CallGraph -----------------------------
(***************************************************************************)
(* research/cmd/graph-builder and research/internal/graph: two of the      *)
(* three diagrams of an index, the gen8 sites with their functions and     *)
(* callers, and the call graph around them.  (The third is a constant.)    *)
(*                                                                         *)
(* The index is that of CodeIndex, whose Edges are empty: the index        *)
(* builder never writes any.  The -input of graph-builder is any file with *)
(* the fields of IndexGraph, so it may come with the call edges that       *)
(* research/docs/mapper.md:43-57 describes, on which most of this code     *)
(* would work.                                                             *)
(*                                                                         *)
(* Go ranges over maps in any order, and a key that is inserted meanwhile  *)
(* is visited or not.                                                      *)
(***************************************************************************)
EXTENDS CodeIndex

CONSTANTS
    Calls,      \* what Edges may be: sets of <<caller, callee>>
    MaxNodes,   \* maxNodes, 150
    MaxEdges    \* maxEdges, 1000

ASSUME GraphAssumption ==
    /\ MaxNodes \in Nat /\ MaxEdges \in Nat
    /\ \A edges \in Calls : IsFiniteSet(edges) /\ \A e \in edges : e = <<e[1], e[2]>>

VARIABLES
    Edges,      \* Edges of the index, and Callees of its functions
    stage,      \* what graph-builder is at
    paths,      \* 02_gen8_neuron_paths: nodes and edges drawn
    gen8Funcs,  \* functions of 03_call_graph_focused
    unvisited,  \* functions the loop has not come to
    focused     \* 03_call_graph_focused: nodes and edges drawn

graphVars == <<Edges, stage, paths, gen8Funcs, unvisited, focused>>

Blank == [nodes |-> {}, edges |-> {}]

GraphInit ==
    /\ Init
    /\ Edges = {}
    /\ stage = "no index"
    /\ paths = Blank
    /\ gen8Funcs = {}
    /\ unvisited = {}
    /\ focused = Blank

LoadIndex ==
    /\ pc = "indexed"
    /\ stage = "no index"
    /\ Edges' \in Calls
    /\ stage' = "paths"
    /\ UNCHANGED <<indexVars, paths, gen8Funcs, unvisited, focused>>

\* Mutant: the edges are followed forwards.
FindCallees(name) == {e[2] : e \in {e \in Edges : e[1] = name}}

FindCallers(name) == {e[1] : e \in {e \in Edges : e[2] = name}}

-----------------------------------------------------------------------------
(* neuronPathsDOT *)

\* The sites drawn: the first MaxNodes whose function is in the index.
SitesDrawn ==
    LET known == {n \in DOMAIN Gen8Nodes : Gen8Nodes[n].Function \in DOMAIN Functions}
    IN  {Gen8Nodes[n] : n \in {n \in known : Cardinality(known \cap (1 .. n)) <= MaxNodes}}

\* A node is a site or a function, by the ID of the one, the name of the other.
Site(n)    == <<"gn", ID(n)>>
Func(name) == <<"fn", name>>

NeuronPathsDOT ==
    /\ stage = "paths"
    /\ paths' =
        LET sitesOf == SitesDrawn
            callers == UNION {{<<c, n.Function>> : c \in FindCallers(n.Function)} : n \in sitesOf}
        IN  [nodes |-> {Site(n) : n \in sitesOf} \union {Func(n.Function) : n \in sitesOf}
                          \union {Func(e[1]) : e \in callers},
             edges |-> {<<Func(n.Function), Site(n)>> : n \in sitesOf}
                          \union {<<Func(e[1]), Func(e[2])>> : e \in callers}]
    /\ gen8Funcs' = {n.Function : n \in ToSet(Gen8Nodes)}
    /\ unvisited' = gen8Funcs'
    /\ stage' = "callers"
    /\ UNCHANGED <<indexVars, Edges, focused>>

-----------------------------------------------------------------------------
(* focusedCallGraphDOT *)

\* The loop adds the callers of a function to the map it ranges over.
AddCallers(name) ==
    /\ stage = "callers"
    /\ name \in unvisited
    /\ LET callers == FindCallers(name) \ gen8Funcs IN
        /\ gen8Funcs' = gen8Funcs \union callers
        /\ \E visited \in SUBSET callers : unvisited' = (unvisited \ {name}) \union visited
    /\ UNCHANGED <<indexVars, Edges, stage, paths, focused>>

StartDrawing ==
    /\ stage = "callers"
    /\ unvisited = {}
    /\ unvisited' = gen8Funcs
    /\ stage' = "draw"
    /\ UNCHANGED <<indexVars, Edges, paths, gen8Funcs, focused>>

\* Mutant: one edge more than the limit allows.
RoomBeyond == MaxEdges + 1 - Cardinality(focused.edges)

Room == MaxEdges - Cardinality(focused.edges)

\* The calls of a function to others of the diagram, as far as the limit goes.
Draw(name) ==
    /\ stage = "draw"
    /\ name \in unvisited
    /\ unvisited' = unvisited \ {name}
    /\ IF name \notin DOMAIN Functions
       THEN UNCHANGED focused
       ELSE LET calls == {e \in Edges : e[1] = name /\ e[2] \in gen8Funcs}
            IN  \E E \in SUBSET calls :
                    /\ Cardinality(E) = Min({Room, Cardinality(calls)})
                    /\ focused' = [nodes |-> focused.nodes \union {name},
                                   edges |-> focused.edges \union E]
    /\ UNCHANGED <<indexVars, Edges, stage, paths, gen8Funcs>>

Write ==
    /\ stage = "draw"
    /\ unvisited = {}
    /\ stage' = "done"
    /\ UNCHANGED <<indexVars, Edges, paths, gen8Funcs, unvisited, focused>>

\* The diagrams are there: any other state without a step is a deadlock.
Terminated == stage = "done" /\ UNCHANGED <<indexVars, graphVars>>

GraphNext ==
    \/ Next /\ UNCHANGED graphVars
    \/ LoadIndex
    \/ NeuronPathsDOT
    \/ \E name \in gen8Funcs : AddCallers(name) \/ Draw(name)
    \/ StartDrawing \/ Write
    \/ Terminated

GraphSpec == GraphInit /\ [][GraphNext]_<<indexVars, graphVars>>

-----------------------------------------------------------------------------
(* Properties *)

GraphTypeOK ==
    /\ Edges \in Calls \union {{}}
    /\ stage \in {"no index", "paths", "callers", "draw", "done"}
    /\ unvisited \subseteq gen8Funcs
    /\ focused.nodes \subseteq gen8Funcs \cap DOMAIN Functions
    /\ Cardinality(focused.edges) <= MaxEdges

\* What calls functions of S; the functions from which n calls lead to a site.
CallersOf(S) == {e[1] : e \in {e \in Edges : e[2] \in S}}

Leads[n \in Nat] ==
    IF n = 0 THEN {node.Function : node \in ToSet(Gen8Nodes)}
    ELSE Leads[n - 1] \union CallersOf(Leads[n - 1])

\* Whatever the order of the loops, the focused graph has every function of the
\* index with a site and every direct caller of one, none that does not lead to
\* a site, and, below the limit, all calls of its functions to others that do.
\* Which of the callers of callers it has depends on the run (dotgen.go:278);
\* without edges, as the index builder leaves them, it is the functions with
\* sites.  The functions and callers the other diagram draws are all in it.
FocusedIsBetween ==
    stage = "done" =>
        /\ Leads[1] \cap DOMAIN Functions \subseteq focused.nodes
        /\ focused.nodes \subseteq Leads[Cardinality(Edges)]
        /\ Cardinality(focused.edges) < MaxEdges =>
            focused.edges = {e \in Edges : e[1] \in focused.nodes /\ e[2] \in gen8Funcs}
        /\ \A name \in DOMAIN Functions : Func(name) \in paths.nodes => name \in focused.nodes
=============================================================================
