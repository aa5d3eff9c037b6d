------------------------------ MODULE BuildAll ------------------------------
(***************************************************************************)
(* build-all.sh: the build.sh of every package of packages.yml, in order,  *)
(* with no arguments, and a verdict from their exit statuses.              *)
(***************************************************************************)
EXTENDS Sequences

CONSTANTS
    Packages,     \* the names in packages.yml, in its order
    NeedsOptions  \* those whose script without options prints its usage

VARIABLES
    turn,         \* packages still to be built
    FAILED,
    made,         \* packages whose script put an archive into place
    verdict       \* "none", "success" or "failed"

vars == <<turn, FAILED, made, verdict>>

Init ==
    /\ turn = Packages
    /\ FAILED = {}
    /\ made = {}
    /\ verdict = "none"

\* The script of the next package: of wine/build.sh it is the usage, with
\* status 0; any other makes its archive or fails (what that archive
\* is worth, BuildScript says).
Build ==
    /\ turn # <<>>
    /\ turn' = Tail(turn)
    /\ \/ /\ Head(turn) \in NeedsOptions
          /\ UNCHANGED <<FAILED, made>>
       \/ /\ Head(turn) \notin NeedsOptions
          /\ made' = made \union {Head(turn)}
          /\ UNCHANGED FAILED
       \/ /\ Head(turn) \notin NeedsOptions
          /\ FAILED' = FAILED \union {Head(turn)}
          /\ UNCHANGED made
    /\ UNCHANGED verdict

Report ==
    /\ turn = <<>>
    /\ verdict = "none"
    /\ verdict' = IF FAILED = {} THEN "success" ELSE "failed"
    /\ UNCHANGED <<turn, FAILED, made>>

Next == Build \/ Report

Spec == Init /\ [][Next]_vars

\* "All packages built successfully" (build-all.sh:53) is said when every
\* package was built.
SuccessMeansBuilt ==
    verdict = "success" => made = {Packages[k] : k \in DOMAIN Packages}
=============================================================================
