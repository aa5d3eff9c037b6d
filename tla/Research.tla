------------------------------ MODULE Research ------------------------------
(* The two generators of the research tools: reg-gen, and index-builder with *)
(* graph-builder after it.  They share nothing, so a state of both is a      *)
(* state of each, and one of them, chosen in the initial state, is the one   *)
(* that runs; the other's input is empty.                                    *)
EXTENDS CallGraph, RegGen

VARIABLE part

ResearchInit ==
    /\ part \in {"code", "registers"}
    /\ part = "code" => xml = [regs |-> <<>>, packets |-> <<>>, enums |-> <<>>]
    /\ part = "registers" => tags = {} /\ sites = {}
    /\ GraphInit
    /\ RegGenInit

ResearchNext ==
    \/ part = "code" /\ GraphNext /\ UNCHANGED <<part, regGenVars>>
    \/ part = "registers" /\ RegGenNext /\ UNCHANGED <<part, indexVars, graphVars>>

researchVars == <<part, indexVars, graphVars, regGenVars>>

ResearchSpec == ResearchInit /\ [][ResearchNext]_researchVars

\* The variables of all of them are what the modules say.
ResearchTypeOK == TypeOK /\ GraphTypeOK /\ RegGenTypeOK
=============================================================================
