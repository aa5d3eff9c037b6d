---------------------------- MODULE BuildScript ----------------------------
(***************************************************************************)
(* mesa/build.sh and fexcore/build.sh, the two scripts that put local      *)
(* patches into a clone that outlives the run: clone, patch, configure,    *)
(* build, copy, archive, each step skipped or not by what an earlier run   *)
(* left.                                                                   *)
(*                                                                         *)
(* A script runs strictly (its #!/bin/bash -e holds: make mesa) or not     *)
(* (bash mesa/build.sh, as build-all.sh starts it), any step may fail, and *)
(* a run may be killed at any point.  Between runs a patch may be added,   *)
(* or the work directory be removed by hand.  The version in the name of   *)
(* the package is taken to stay, so that a run finds the package of the    *)
(* one before it.                                                          *)
(***************************************************************************)
EXTENDS Naturals, FiniteSets

CONSTANTS
    Patch,      \* patch files, numbered as sort orders their names
    Mailbox,    \* those git am reads: the others are bare diffs
    Fits,       \* those whose hunks apply to the branch cloned
    Dlls        \* what fexcore builds; mesa builds one driver

ASSUME ScriptAssumption ==
    /\ Patch \subseteq Nat
    /\ Mailbox \subseteq Patch
    /\ Fits \subseteq Patch
    /\ Dlls # {} /\ IsFiniteSet(Dlls)

VARIABLES
    script,      \* "mesa" or "fexcore"
    patches,     \* the patch files in the repository
    tree,        \* the clone: how much of it there is, the patches
                 \* committed, whether an am session is left open
    configured,  \* "no", "cache" (CMakeCache.txt alone) or "ninja"
    built,       \* what the build directory holds
    staged,      \* what the package directory holds
    archive,     \* what the package file holds
    pc,
    todo,        \* patch files the loop has not read
    strict,      \* the run stops at a command that fails
    result,      \* how the last run ended
    buildOk,     \* BUILD_RC is 0; of mesa, whose status is lost, always
    wrote,       \* ghost: the last run wrote its archive
    fresh,       \* ghost: the last run began with nothing done
    builtFrom,   \* ghost: the patch files of the run that built
    spoiled      \* ghost: the outputs at which patchelf or cp failed in the last run

workdir == <<tree, configured, built, staged>>
ghosts == <<wrote, fresh, builtFrom, spoiled>>
vars == <<script, patches, workdir, archive, pc, todo, strict, result, buildOk, ghosts>>

-----------------------------------------------------------------------------
(* Files *)

Outputs == IF script = "mesa" THEN {"driver"} ELSE Dlls

\* A file that is not there, cut short, or built from a tree with patches S;
\* of an archive that is there, an entry that is not.
Absent  == [file |-> "absent", has |-> {}]
Torn    == [file |-> "torn", has |-> {}]
From(S) == [file |-> "whole", has |-> S]
Without == [file |-> "without", has |-> {}]

Files == [file : {"absent", "torn", "whole", "without"}, has : SUBSET Patch]

Everywhere(f) == [o \in Outputs |-> f]

-----------------------------------------------------------------------------
(* git (external) *)

NoTree == [clone |-> "none", applied |-> {}, session |-> FALSE]

AmSucceeds(p) ==
    /\ tree.clone = "full"
    /\ ~tree.session
    /\ p \in (Mailbox \cap Fits) \ tree.applied

\* git am of one patch.  A bare diff is refused outright; a patch that does
\* not apply, or is already there, leaves a session open, and every later am
\* fails.  Of a clone that is cut short nothing is ever built.
AfterAm(p) ==
    IF AmSucceeds(p)
    THEN [tree EXCEPT !.applied = @ \union {p}]
    ELSE [tree EXCEPT !.session = @ \/ (tree.clone = "full" /\ p \in Mailbox)]

-----------------------------------------------------------------------------
(* The steps of a run *)

Init ==
    /\ script \in {"mesa", "fexcore"}
    /\ patches \in SUBSET Patch
    /\ tree = NoTree
    /\ configured = "no"
    /\ built = Everywhere(Absent)
    /\ staged = Everywhere(Absent)
    /\ archive = Everywhere(Absent)
    /\ pc = "idle"
    /\ todo = {}
    /\ strict = FALSE
    /\ result = "none"
    /\ buildOk = FALSE
    /\ wrote = FALSE
    /\ fresh = FALSE
    /\ builtFrom = {}
    /\ spoiled = {}

Goto(step) == pc' = step /\ UNCHANGED result
End(how) == pc' = "idle" /\ result' = how

\* A command whose failure only a strict run notices.
Unless(ok, step) == IF strict /\ ~ok THEN End("FAIL") ELSE Goto(step)

\* No work directory, or one in which no patch was tried, and no driver built.
NothingDone ==
    /\ tree.applied = {}
    /\ ~tree.session
    /\ script = "mesa" => built["driver"].file = "absent"

\* make, or bash as build-all.sh has it.
Start(byMake) ==
    /\ pc = "idle"
    /\ strict' = byMake
    /\ pc' = "clone"
    /\ result' = "none"
    /\ todo' = {}
    /\ buildOk' = FALSE
    /\ wrote' = FALSE
    /\ fresh' = NothingDone
    /\ spoiled' = {}
    /\ UNCHANGED <<script, patches, workdir, archive, builtFrom>>

\* Each script looks for its compilers first.
NoToolchain ==
    /\ pc = "clone"
    /\ End("FAIL")
    /\ UNCHANGED <<script, patches, workdir, archive, todo, strict, buildOk, ghosts>>

\* Mutant: the patches are listed when the tree is cloned, and only then.
CloneAndList ==
    /\ pc = "clone"
    /\ \/ tree.clone # "none" /\ UNCHANGED tree
       \/ tree.clone = "none" /\ tree' = [tree EXCEPT !.clone = "full"]
       \/ tree.clone = "none" /\ UNCHANGED tree
    /\ Unless(tree'.clone = "full", "patch")
    /\ todo' = IF tree = tree' THEN {} ELSE patches
    /\ UNCHANGED <<script, patches, configured, built, staged, archive, strict, buildOk, ghosts>>

\* Clone if there is no directory; read the version out of it; list the
\* patch files.
Clone ==
    /\ pc = "clone"
    /\ \/ tree.clone # "none" /\ UNCHANGED tree
       \/ tree.clone = "none" /\ tree' = [tree EXCEPT !.clone = "full"]
       \/ tree.clone = "none" /\ UNCHANGED tree
    /\ Unless(tree'.clone = "full", "patch")
    /\ todo' = patches
    /\ UNCHANGED <<script, patches, configured, built, staged, archive, strict, buildOk, ghosts>>

First(p) == p \in todo /\ \A q \in todo : p <= q

\* Mutant: the script gives up the session a failed am leaves.
ApplyAndAbort ==
    /\ script = "mesa"
    /\ pc = "patch"
    /\ \E p \in todo :
        /\ First(p)
        /\ tree' = IF AmSucceeds(p) THEN AfterAm(p) ELSE tree
        /\ todo' = todo \ {p}
    /\ UNCHANGED <<script, patches, configured, built, staged, archive, pc, strict, result,
                   buildOk, ghosts>>

\* mesa reports a patch that fails and goes on to the next.
MesaApply ==
    /\ script = "mesa"
    /\ pc = "patch"
    /\ \E p \in todo :
        /\ First(p)
        /\ tree' = AfterAm(p)
        /\ todo' = todo \ {p}
    /\ UNCHANGED <<script, patches, configured, built, staged, archive, pc, strict, result,
                   buildOk, ghosts>>

\* Mutant: fexcore goes on after a patch that fails, as mesa does.
FexApplyOn ==
    /\ script = "fexcore"
    /\ pc = "patch"
    /\ \E p \in todo :
        /\ First(p)
        /\ tree' = AfterAm(p)
        /\ todo' = todo \ {p}
    /\ UNCHANGED <<script, patches, configured, built, staged, archive, pc, strict, result,
                   buildOk, ghosts>>

\* fexcore leaves the loop, which is a subshell: a strict run ends there, any
\* other goes on without the patches that remain.
FexApply ==
    /\ script = "fexcore"
    /\ pc = "patch"
    /\ \E p \in todo :
        /\ First(p)
        /\ tree' = AfterAm(p)
        /\ \/ AmSucceeds(p) /\ todo' = todo \ {p} /\ UNCHANGED <<pc, result>>
           \/ ~AmSucceeds(p) /\ todo' = {} /\ Unless(FALSE, "patch")
    /\ UNCHANGED <<script, patches, configured, built, staged, archive, strict, buildOk, ghosts>>

\* After the loop fexcore compiles a stub, without which no run goes on.
Applied ==
    /\ pc = "patch"
    /\ todo = {}
    /\ \/ Goto("configure")
       \/ script = "fexcore" /\ End("FAIL")
    /\ UNCHANGED <<script, patches, workdir, archive, todo, strict, buildOk, ghosts>>

\* meson writes build.ninja at the end of a setup that succeeds.
MesaConfigure ==
    /\ script = "mesa"
    /\ pc = "configure"
    /\ \/ configured = "ninja" /\ UNCHANGED configured /\ Goto("build")
       \/ configured = "no" /\ tree.clone = "full" /\ configured' = "ninja" /\ Goto("build")
       \/ configured = "no" /\ UNCHANGED configured /\ Unless(FALSE, "build")
    /\ UNCHANGED <<script, patches, tree, built, staged, archive, todo, strict, buildOk, ghosts>>

\* cmake may leave its cache when it fails, and the cache is what the script
\* looks for.  mkdir -p makes the directory of a clone that failed.
FexConfigure ==
    /\ script = "fexcore"
    /\ pc = "configure"
    /\ tree' = [tree EXCEPT !.clone = IF @ = "none" THEN "half" ELSE @]
    /\ \/ configured # "no" /\ UNCHANGED configured /\ Goto("build")
       \/ configured = "no" /\ tree.clone = "full" /\ configured' = "ninja" /\ Goto("build")
       \/ configured = "no" /\ configured' \in {"no", "cache"} /\ Unless(FALSE, "build")
    /\ UNCHANGED <<script, patches, built, staged, archive, todo, strict, buildOk, ghosts>>

\* A driver that is there is not built again; the status of ninja is lost in
\* a pipe, and what counts is that the driver is there.
MesaBuild ==
    /\ script = "mesa"
    /\ pc = "build"
    /\ \/ /\ built["driver"].file # "absent"
          /\ Goto("soname")
          /\ UNCHANGED <<built, builtFrom>>
       \/ /\ built["driver"].file = "absent"
          /\ configured = "ninja"
          /\ built' = Everywhere(From(tree.applied))
          /\ builtFrom' = patches
          /\ Goto("soname")
       \/ /\ built["driver"].file = "absent"
          /\ End("FAIL")
          /\ UNCHANGED <<built, builtFrom>>
    /\ UNCHANGED <<script, patches, tree, configured, staged, archive, todo, strict, buildOk,
                   wrote, fresh, spoiled>>

\* The outputs in S are built from the tree as it is.
Rebuilt(S) == [o \in Outputs |-> IF o \in S THEN From(tree.applied) ELSE built[o]]

\* The build brings every DLL up to date or fails after some of them, and a
\* failure is only reported.
FexBuild ==
    /\ script = "fexcore"
    /\ pc = "build"
    /\ \/ /\ configured = "ninja"
          /\ built' = Rebuilt(Outputs)
          /\ buildOk' = TRUE
          /\ builtFrom' = patches
       \/ /\ \E S \in SUBSET Outputs :
                /\ S # {} => configured = "ninja"
                /\ built' = Rebuilt(S)
          /\ buildOk' = FALSE
          /\ UNCHANGED builtFrom
    /\ Goto("copy")
    /\ UNCHANGED <<script, patches, tree, configured, staged, archive, todo, strict, wrote, fresh,
                   spoiled>>

\* patchelf rewrites the driver in place, and fails on one that is torn.
MesaSoname ==
    /\ script = "mesa"
    /\ pc = "soname"
    /\ \/ /\ built["driver"].file = "whole"
          /\ Goto("copy")
          /\ UNCHANGED <<built, spoiled>>
       \/ /\ built' \in {built, Everywhere(Torn)}
          /\ spoiled' = Outputs
          /\ Unless(FALSE, "copy")
    /\ UNCHANGED <<script, patches, tree, configured, staged, archive, todo, strict, buildOk,
                   wrote, fresh, builtFrom>>

\* Mutant: only what the package directory lacks is copied.
CopiedOnce(done, cut) ==
    [o \in Outputs |->
        IF built[o].file = "absent" \/ staged[o].file # "absent" THEN staged[o]
        ELSE IF o \in done THEN built[o]
        ELSE IF o \in cut THEN Torn
        ELSE staged[o]]

\* The package directory when cp has copied the outputs in done over those of
\* earlier runs, broken off in the middle of those in cut, and not opened the
\* others.  Nobody removes there what an earlier run left.
Copied(done, cut) ==
    [o \in Outputs |->
        IF built[o].file = "absent" THEN staged[o]
        ELSE IF o \in done THEN built[o]
        ELSE IF o \in cut THEN Torn
        ELSE staged[o]]

Uncopied(done) == {o \in Outputs \ done : built[o].file # "absent"}

MesaCopy ==
    /\ script = "mesa"
    /\ pc = "copy"
    /\ \E done, cut \in SUBSET Outputs :
        /\ staged' = Copied(done, cut)
        /\ spoiled' = spoiled \union Uncopied(done)
        /\ Unless(Uncopied(done) = {}, "archive")
    /\ UNCHANGED <<script, patches, tree, configured, built, archive, todo, strict, buildOk,
                   wrote, fresh, builtFrom>>

\* find -exec does not pass on the status of cp: a strict run goes on as well.
\* From here on every run is strict, pipes included, if mkdir or find fails.
FexCopy ==
    /\ script = "fexcore"
    /\ pc = "copy"
    /\ \E done, cut \in SUBSET Outputs :
        /\ staged' = Copied(done, cut)
        /\ spoiled' = spoiled \union Uncopied(done)
    /\ Goto("archive") \/ End("FAIL")
    /\ UNCHANGED <<script, patches, tree, configured, built, archive, todo, strict, buildOk,
                   wrote, fresh, builtFrom>>

\* The archive of what the package directory holds.  zip brings an archive
\* that is there up to date, and keeps the entry of a file that is not.
Archived ==
    [o \in Outputs |->
        IF staged[o].file # "absent" THEN staged[o]
        ELSE IF script = "mesa" /\ archive[o].file # "absent" THEN archive[o]
        ELSE Without]

\* zip replaces the archive as a whole.  The last command of the script lists
\* whatever archive there is.
MesaArchive ==
    /\ script = "mesa"
    /\ pc = "archive"
    /\ \/ /\ archive' = Archived
          /\ wrote' = TRUE
          /\ End("OK")
       \/ /\ UNCHANGED <<archive, wrote>>
          /\ End(IF strict \/ archive["driver"].file = "absent" THEN "FAIL" ELSE "OK")
    /\ UNCHANGED <<script, patches, workdir, todo, strict, buildOk, fresh, builtFrom, spoiled>>

\* A run without any DLL ends here.  xz writes to the package file itself.
FexArchive ==
    /\ script = "fexcore"
    /\ pc = "archive"
    /\ \/ /\ \E o \in Outputs : staged[o].file # "absent"
          /\ archive' = Archived
          /\ wrote' = TRUE
          /\ End("OK")
       \/ /\ \E o \in Outputs : staged[o].file # "absent"
          /\ archive' \in {archive, Everywhere(Torn)}
          /\ End("FAIL")
          /\ UNCHANGED wrote
       \/ /\ \A o \in Outputs : staged[o].file = "absent"
          /\ End("FAIL")
          /\ UNCHANGED <<archive, wrote>>
    /\ UNCHANGED <<script, patches, workdir, todo, strict, buildOk, fresh, builtFrom, spoiled>>

-----------------------------------------------------------------------------
(* A run that is killed, and what may be left of each step *)

KilledInClone ==
    /\ pc = "clone"
    /\ tree.clone = "none"
    /\ tree' = [tree EXCEPT !.clone = "half"]
    /\ UNCHANGED <<configured, built, staged, archive>>

\* In the middle of git am, before or after its commit.
KilledInApply ==
    /\ pc = "patch"
    /\ \E p \in todo :
        /\ First(p)
        /\ p \in Mailbox
        /\ tree.clone = "full"
        /\ \/ tree' = [tree EXCEPT !.session = TRUE]
           \/ tree' = [AfterAm(p) EXCEPT !.session = TRUE]
    /\ UNCHANGED <<configured, built, staged, archive>>

KilledInConfigure ==
    /\ script = "fexcore"
    /\ pc = "configure"
    /\ configured = "no"
    /\ configured' = "cache"
    /\ UNCHANGED <<tree, built, staged, archive>>

\* The linker puts an output in place as a whole.
KilledInBuild ==
    /\ script = "fexcore"
    /\ pc = "build"
    /\ configured = "ninja"
    /\ \E S \in SUBSET Outputs : built' = Rebuilt(S)
    /\ UNCHANGED <<tree, configured, staged, archive>>

KilledInSoname ==
    /\ script = "mesa"
    /\ pc = "soname"
    /\ built' = Everywhere(Torn)
    /\ UNCHANGED <<tree, configured, staged, archive>>

KilledInCopy ==
    /\ pc = "copy"
    /\ \E done, cut \in SUBSET Outputs : staged' = Copied(done, cut)
    /\ UNCHANGED <<tree, configured, built, archive>>

\* After the archive was written, or in the middle of xz.
KilledInArchive ==
    /\ pc = "archive"
    /\ \/ archive' = Archived
       \/ script = "fexcore" /\ archive' = Everywhere(Torn)
    /\ UNCHANGED workdir

Kill ==
    /\ pc # "idle"
    /\ \/ KilledInClone \/ KilledInApply \/ KilledInConfigure \/ KilledInBuild
       \/ KilledInSoname \/ KilledInCopy \/ KilledInArchive
       \/ UNCHANGED <<workdir, archive>>
    /\ End("KILLED")
    /\ todo' = {}
    /\ UNCHANGED <<script, patches, strict, buildOk, ghosts>>

-----------------------------------------------------------------------------
(* Between runs (external) *)

AddPatch ==
    /\ pc = "idle"
    /\ \E p \in Patch \ patches : patches' = patches \union {p}
    /\ result' = "none"
    /\ UNCHANGED <<script, workdir, archive, pc, todo, strict, buildOk, ghosts>>

RemoveWorkdir ==
    /\ pc = "idle"
    /\ tree' = NoTree
    /\ configured' = "no"
    /\ built' = Everywhere(Absent)
    /\ staged' = Everywhere(Absent)
    /\ result' = "none"
    /\ UNCHANGED <<script, patches, archive, pc, todo, strict, buildOk, ghosts>>

Step ==
    \/ NoToolchain \/ Clone \/ Applied
    \/ MesaApply \/ MesaConfigure \/ MesaBuild \/ MesaSoname \/ MesaCopy \/ MesaArchive
    \/ FexApply \/ FexConfigure \/ FexBuild \/ FexCopy \/ FexArchive

Next ==
    \/ \E byMake \in BOOLEAN : Start(byMake)
    \/ Step
    \/ Kill
    \/ AddPatch
    \/ RemoveWorkdir

Spec == Init /\ [][Next]_vars

-----------------------------------------------------------------------------
(* Properties *)

TypeOK ==
    /\ script \in {"mesa", "fexcore"}
    /\ patches \subseteq Patch /\ builtFrom \subseteq Patch
    /\ tree \in [clone : {"none", "half", "full"}, applied : SUBSET Patch, session : BOOLEAN]
    /\ configured \in {"no", "cache", "ninja"}
    /\ built \in [Outputs -> Files]
    /\ staged \in [Outputs -> Files]
    /\ archive \in [Outputs -> Files]
    /\ pc \in {"idle", "clone", "patch", "configure", "build", "soname", "copy", "archive"}
    /\ todo \subseteq Patch
    /\ result \in {"none", "OK", "FAIL", "KILLED"}
    /\ {strict, buildOk, wrote, fresh} \subseteq BOOLEAN
    /\ spoiled \subseteq Outputs

\* The last run says that it built its package, and nothing it says itself
\* speaks against it.
Good == result = "OK" /\ wrote /\ (script = "fexcore" => buildOk)

\* A failure at this output was passed over: find does not report the status
\* of cp (fexcore/build.sh:154), and a run of mesa that is not strict reports
\* neither patchelf's nor cp's (mesa/build.sh:128, 141).
Unnoticed(o) == o \in spoiled /\ (script = "mesa" => ~strict)

\* What the scripts are for: a run that starts from nothing, or from what a
\* run killed early left, if it ends well and git can apply every patch,
\* packages a build of exactly those patches, in either shell, but for the
\* outputs at which a command failed and nothing reports it.
FreshRunIsComplete ==
    Good /\ fresh /\ patches \subseteq Mailbox \cap Fits
        => \A o \in Outputs : archive[o] = From(patches) \/ Unnoticed(o)

\* A bare diff, which mesa passes over and at which fexcore leaves the loop.
Skipped(p) == \E q \in patches \ Mailbox : IF script = "mesa" THEN q = p ELSE q <= p

\* A patch is missing in a package only for one of these reasons: git could
\* not read it, an am session was open, which an earlier run, a kill or a
\* conflict leaves (mesa/build.sh:46), it came after the driver had been
\* built (mesa/build.sh:115), or the output was not rewritten or not copied
\* and the run went on.
MissingIsExplained ==
    Good => \A o \in Outputs, p \in patches :
        \/ p \in archive[o].has
        \/ Skipped(p)
        \/ tree.session
        \/ p \notin builtFrom
        \/ Unnoticed(o)

\* fexcore stops at a patch that fails (fexcore/build.sh:69), so a strict run
\* that ends well has every patch in its tree, and if there are any it is the
\* last that can: the next one stops at the first patch, which is there.
StrictRunHasAll ==
    script = "fexcore" /\ strict /\ result = "OK"
        => patches \subseteq tree.applied /\ (patches # {} => fresh)

\* A build that fails is packaged all the same (fexcore/build.sh:145), but one
\* that does not fail leaves nothing of an earlier run in the package, except
\* a DLL that cp could not copy over (fexcore/build.sh:154).
GreenPackageIsTree ==
    script = "fexcore" /\ Good
        => \A o \in Outputs : archive[o] = From(tree.applied) \/ Unnoticed(o)
=============================================================================
