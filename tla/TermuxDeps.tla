----------------------------- MODULE TermuxDeps -----------------------------
(***************************************************************************)
(* setup_deps() of wine/build.sh: the Termux packages Wine is built        *)
(* against are downloaded into a cache, unpacked into a root directory,    *)
(* and a stamp says that this need not be done again.  Index, packages and *)
(* stamp are believed because they are there.                              *)
(*                                                                         *)
(* As in BuildScript, a run is strict or not, any step may fail, and it    *)
(* may be killed anywhere.                                                 *)
(***************************************************************************)
EXTENDS FiniteSets

CONSTANT Pkg      \* TERMUX_PACKAGES

VARIABLES
    indexed,      \* deb-cache/Packages is there
    lists,        \* the packages it has a Filename for
    deb,          \* each package file of the cache
    root,         \* packages that are in the root directory as a whole
    ready,        \* .deps-ready
    at,           \* the step of the run, or "away"
    next,         \* packages the loop has not come to
    errexit,      \* the run stops at a command that fails
    unpackFailed  \* ghost: whole package files that did not unpack

cache == <<indexed, lists, deb>>
depsVars == <<cache, root, ready, at, next, errexit, unpackFailed>>

DepsInit ==
    /\ indexed = FALSE
    /\ lists = {}
    /\ deb = [p \in Pkg |-> "none"]
    /\ root = {}
    /\ ready = FALSE
    /\ at = "away"
    /\ next = {}
    /\ errexit = FALSE
    /\ unpackFailed = {}

\* After a command that failed.
Failing(step) == at' = IF errexit THEN "away" ELSE step

\* With the stamp there is nothing to do.
SetupDeps(byMake) ==
    /\ at = "away"
    /\ ~ready
    /\ errexit' = byMake
    /\ at' = "index"
    /\ UNCHANGED <<cache, root, ready, next, unpackFailed>>

\* curl without -f: an error page is as good as an index, and so is one whose
\* transfer broke off.
FetchIndex ==
    /\ at = "index"
    /\ \/ indexed /\ UNCHANGED <<indexed, lists>> /\ at' = "download"
       \/ ~indexed /\ indexed' = TRUE /\ lists' \in SUBSET Pkg /\ at' = "download"
       \/ ~indexed /\ indexed' \in BOOLEAN /\ lists' \in SUBSET (IF indexed' THEN Pkg ELSE {})
          /\ Failing("download")
    /\ next' = Pkg
    /\ UNCHANGED <<deb, root, ready, errexit, unpackFailed>>

\* download_pkg: cached, not found, fetched (or an error page was), or not.
Download ==
    /\ at = "download"
    /\ \E p \in next :
        /\ next' = next \ {p}
        /\ \/ /\ deb[p] # "none" \/ p \notin lists
              /\ UNCHANGED <<deb, at>>
           \/ /\ deb[p] = "none" /\ p \in lists
              /\ \E f \in {"bad", "whole"} : deb' = [deb EXCEPT ![p] = f]
              /\ UNCHANGED at
           \/ /\ deb[p] = "none" /\ p \in lists
              /\ \E f \in {"none", "bad"} : deb' = [deb EXCEPT ![p] = f]
              /\ Failing("download")
    /\ UNCHANGED <<indexed, lists, root, ready, errexit, unpackFailed>>

Downloaded ==
    /\ at = "download"
    /\ next = {}
    /\ next' = Pkg
    /\ at' = "extract"
    /\ UNCHANGED <<cache, root, ready, errexit, unpackFailed>>

\* extract_pkg: whatever goes wrong is ignored.
Extract ==
    /\ at = "extract"
    /\ \E p \in next :
        /\ next' = next \ {p}
        /\ \/ deb[p] # "whole" /\ UNCHANGED <<root, unpackFailed>>
           \/ deb[p] = "whole" /\ root' = root \union {p} /\ UNCHANGED unpackFailed
           \/ deb[p] = "whole" /\ unpackFailed' = unpackFailed \union {p} /\ UNCHANGED root
    /\ UNCHANGED <<cache, ready, at, errexit>>

\* Mutant: the stamp is set when the downloads are there.
StampEarly ==
    /\ at = "extract"
    /\ ready' = TRUE
    /\ at' = IF next = {} THEN "away" ELSE "extract"
    /\ UNCHANGED <<cache, root, next, errexit, unpackFailed>>

\* Links are made relative to the root directory, the stamp is set.  The loop
\* over the links has the status of its last one: if that dangles, a strict
\* run ends here without a word.
Stamp ==
    /\ at = "extract"
    /\ next = {}
    /\ at' = "away"
    /\ \/ ready' = TRUE
       \/ errexit /\ UNCHANGED ready
    /\ UNCHANGED <<cache, root, next, errexit, unpackFailed>>

\* What curl was writing stays as it is.
KillSetup ==
    /\ at # "away"
    /\ at' = "away"
    /\ \/ UNCHANGED cache
       \/ /\ at = "index" /\ ~indexed
          /\ indexed' = TRUE /\ lists' \in SUBSET Pkg
          /\ UNCHANGED deb
       \/ /\ at = "download"
          /\ \E p \in next \cap lists : deb[p] = "none" /\ deb' = [deb EXCEPT ![p] = "bad"]
          /\ UNCHANGED <<indexed, lists>>
    /\ UNCHANGED <<root, ready, next, errexit, unpackFailed>>

\* By hand, between runs (external).
RemoveDeps ==
    /\ at = "away"
    /\ indexed' = FALSE
    /\ lists' = {}
    /\ deb' = [p \in Pkg |-> "none"]
    /\ root' = {}
    /\ ready' = FALSE
    /\ unpackFailed' = {}
    /\ UNCHANGED <<at, next, errexit>>

DepsNext ==
    \/ \E byMake \in BOOLEAN : SetupDeps(byMake)
    \/ FetchIndex \/ Download \/ Downloaded \/ Extract \/ Stamp
    \/ KillSetup
    \/ RemoveDeps

DepsSpec == DepsInit /\ [][DepsNext]_depsVars

-----------------------------------------------------------------------------
(* Properties *)

DepsTypeOK ==
    /\ indexed \in BOOLEAN
    /\ lists \subseteq Pkg
    /\ deb \in [Pkg -> {"none", "bad", "whole"}]
    /\ root \subseteq Pkg
    /\ ready \in BOOLEAN
    /\ at \in {"away", "index", "download", "extract"}
    /\ next \subseteq Pkg
    /\ errexit \in BOOLEAN
    /\ unpackFailed \subseteq Pkg

\* Once the stamp is set (wine/build.sh:269) a package is missing in the root
\* directory only if its file is missing or bad, or would not unpack: a run
\* killed at any point, between two packages in particular, costs nothing.
HolesHaveCauses ==
    ready => \A p \in Pkg \ root : deb[p] # "whole" \/ p \in unpackFailed
=============================================================================
