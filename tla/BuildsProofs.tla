---------------------------- MODULE BuildsProofs ----------------------------
(***************************************************************************)
(* The safety of the parts that keep files from one run to the next, for   *)
(* every set of patches and packages, every number of parts and every      *)
(* sequence of runs, failures and kills.                                   *)
(***************************************************************************)
EXTENDS Builds, SequenceTheorems, TLAPS


-----------------------------------------------------------------------------
(* mesa/build.sh and fexcore/build.sh *)

Packing == {"soname", "copy", "archive"}
Late == {"configure", "build"} \union Packing
AfterClone == {"patch"} \union Late

\* How far a run is.
Order ==
    /\ pc # "idle" => result = "none" /\ ~wrote
    /\ pc \notin {"idle", "copy", "archive"} => spoiled = {}
    /\ pc \in Late => todo = {}

\* Nothing is configured but a whole clone, and git knows no patch the
\* repository does not have.
TreeFits ==
    /\ configured = "ninja" => tree.clone = "full"
    /\ tree.applied \subseteq patches
    /\ todo \subseteq patches
    /\ builtFrom \subseteq patches

\* A patch that was tried is in, or there is a reason why not.
Tried ==
    pc \in AfterClone /\ tree.clone = "full" =>
        \A p \in patches \ todo : p \in tree.applied \/ tree.session \/ Skipped(p)

\* The driver has the patches of its run, by the same reasons, and if no
\* command failed at it the package directory has this driver.
DriverSound ==
    script = "mesa" =>
        /\ pc \in Packing => built["driver"].file # "absent"
        /\ pc \in Packing /\ strict => spoiled = {}
        /\ pc \in {"copy", "archive"} /\ spoiled = {} => built["driver"].file = "whole"
        /\ pc = "archive" /\ spoiled = {} => staged["driver"] = built["driver"]
        /\ built["driver"].file = "whole" =>
            \A p \in builtFrom : p \in built["driver"].has \/ tree.session \/ Skipped(p)

\* A build that did not fail is of the tree as it is, and so is each DLL that
\* was copied.
DllsSound ==
    script = "fexcore" /\ pc \in {"copy", "archive"} /\ buildOk =>
        /\ tree.clone = "full"
        /\ builtFrom = patches
        /\ \A o \in Outputs : built[o] = From(tree.applied)
        /\ pc = "archive" => \A o \in Outputs \ spoiled : staged[o] = From(tree.applied)

AllFit == patches \subseteq Mailbox \cap Fits

\* A run that began with nothing done applies every patch there is.
FreshRun ==
    fresh =>
        /\ pc = "clone" => tree.applied = {} /\ ~tree.session
        /\ script = "mesa" /\ pc \in {"clone", "patch", "configure", "build"}
            => built["driver"].file = "absent"
        /\ AllFit /\ pc \in AfterClone /\ tree.clone = "full"
            => tree.applied = patches \ todo /\ ~tree.session
        /\ AllFit /\ script = "mesa" /\ pc \in Packing
            => built["driver"] = From(patches) \/ spoiled # {}

\* A strict run that goes on has applied each patch it tried; one that began
\* with something done will come to a patch that fails.
StrictRun ==
    script = "fexcore" /\ strict =>
        /\ pc = "clone" => fresh \/ tree.session \/ tree.applied # {}
        /\ pc \in AfterClone =>
            /\ patches \ todo \subseteq tree.applied
            /\ \/ fresh
               \/ tree.session /\ todo = patches
               \/ todo \cap tree.applied # {}

Promises == FreshRunIsComplete /\ MissingIsExplained /\ StrictRunHasAll /\ GreenPackageIsTree

\* The inductive invariant.
IInv ==
    /\ TypeOK
    /\ Order /\ TreeFits
    /\ Tried /\ DriverSound /\ DllsSound
    /\ FreshRun /\ StrictRun
    /\ Promises

-----------------------------------------------------------------------------
(* Types *)

LEMMA FileTypes ==
    /\ Absent \in Files /\ Torn \in Files /\ Without \in Files
    /\ \A S \in SUBSET Patch : From(S) \in Files
  BY DEF Absent, Torn, Without, From, Files

LEMMA CopiedType ==
    ASSUME TypeOK, NEW done, NEW cut
    PROVE  Copied(done, cut) \in [Outputs -> Files]
  BY FileTypes DEF TypeOK, Copied

LEMMA ArchivedType == TypeOK => Archived \in [Outputs -> Files]
  BY FileTypes DEF TypeOK, Archived

LEMMA TornType == Everywhere(Torn) \in [Outputs -> Files]
  BY FileTypes DEF Everywhere

LEMMA AmTypes ==
    ASSUME TypeOK, NEW p \in Patch
    PROVE  AfterAm(p) \in [clone : {"none", "half", "full"}, applied : SUBSET Patch,
                          session : BOOLEAN]
  BY DEF TypeOK, AfterAm, AmSucceeds

LEMMA InitIInv == Init => IInv
  <1> SUFFICES ASSUME Init PROVE IInv  OBVIOUS
  <1>1. TypeOK  BY FileTypes DEF Init, TypeOK, NoTree, Everywhere
  <1>2. Order /\ TreeFits /\ Tried /\ DllsSound /\ FreshRun /\ StrictRun
    BY DEF Init, NoTree, Order, TreeFits, Tried, DllsSound, FreshRun, StrictRun, Packing,
           Late, AfterClone
  <1>3. DriverSound  BY DEF Init, DriverSound, Everywhere, Absent, Outputs, Packing
  <1>4. Promises
    BY DEF Init, Promises, FreshRunIsComplete, MissingIsExplained, StrictRunHasAll,
           GreenPackageIsTree, Good
  <1> QED  BY <1>1, <1>2, <1>3, <1>4 DEF IInv

LEMMA TypeStep == TypeOK /\ [Next]_vars => TypeOK'
  <1> SUFFICES ASSUME TypeOK, [Next]_vars PROVE TypeOK'  OBVIOUS
  <1> USE DEF TypeOK, Outputs, workdir, ghosts
  <1>1. ASSUME NEW b \in BOOLEAN, Start(b) PROVE TypeOK'
    BY <1>1 DEF Start, NothingDone
  <1>2. CASE Clone  BY <1>2 DEF Clone, Unless, End, Goto
  <1>3. CASE Applied  BY <1>3 DEF Applied, End, Goto
  <1>4. CASE MesaApply  BY <1>4, AmTypes DEF MesaApply
  <1>5. CASE FexApply  BY <1>5, AmTypes DEF FexApply, Unless, End, Goto
  <1>6. CASE MesaConfigure  BY <1>6 DEF MesaConfigure, Unless, End, Goto
  <1>7. CASE FexConfigure  BY <1>7 DEF FexConfigure, Unless, End, Goto
  <1>8. CASE MesaBuild  BY <1>8, FileTypes DEF MesaBuild, Everywhere, End, Goto
  <1>9. CASE FexBuild  BY <1>9, FileTypes DEF FexBuild, Rebuilt, End, Goto
  <1>10. CASE MesaSoname  BY <1>10, TornType DEF MesaSoname, Unless, End, Goto
  <1>11. CASE MesaCopy \/ FexCopy
    <2>1. \E done, cut : staged' = Copied(done, cut)  BY <1>11 DEF MesaCopy, FexCopy
    <2>2. staged' \in [Outputs -> Files]  BY <2>1, CopiedType
    <2>3. spoiled' \subseteq Outputs  BY <1>11 DEF MesaCopy, FexCopy, Uncopied
    <2>4. UNCHANGED <<script, patches, tree, configured, built, archive, todo, strict, buildOk,
                      wrote, fresh, builtFrom>>
      BY <1>11 DEF MesaCopy, FexCopy
    <2>5. pc' \in {"idle", "archive"} /\ result' \in {result, "FAIL"}
      BY <1>11 DEF MesaCopy, FexCopy, Unless, End, Goto
    <2> QED  BY <2>2, <2>3, <2>4, <2>5
  <1>12. CASE MesaArchive  BY <1>12, ArchivedType DEF MesaArchive, End
  <1>13. CASE FexArchive  BY <1>13, ArchivedType, TornType DEF FexArchive, End
  <1>14. CASE NoToolchain  BY <1>14 DEF NoToolchain, End
  <1>15. CASE Kill
    <2>1. CASE KilledInClone  BY <1>15, <2>1 DEF Kill, KilledInClone, End
    <2>2. CASE KilledInApply  BY <1>15, <2>2, AmTypes DEF Kill, KilledInApply, End
    <2>3. CASE KilledInConfigure  BY <1>15, <2>3 DEF Kill, KilledInConfigure, End
    <2>4. CASE KilledInBuild  BY <1>15, <2>4, FileTypes DEF Kill, KilledInBuild, Rebuilt, End
    <2>5. CASE KilledInSoname  BY <1>15, <2>5, TornType DEF Kill, KilledInSoname, End
    <2>6. CASE KilledInCopy
      <3>1. staged' \in [Outputs -> Files]  BY <2>6, CopiedType DEF KilledInCopy
      <3> QED  BY <1>15, <2>6, <3>1 DEF Kill, KilledInCopy, End
    <2>7. CASE KilledInArchive
      BY <1>15, <2>7, TornType, ArchivedType DEF Kill, KilledInArchive, End
    <2>8. CASE UNCHANGED <<workdir, archive>>  BY <1>15, <2>8 DEF Kill, End
    <2> QED  BY <1>15, <2>1, <2>2, <2>3, <2>4, <2>5, <2>6, <2>7, <2>8 DEF Kill
  <1>16. CASE AddPatch  BY <1>16 DEF AddPatch
  <1>17. CASE RemoveWorkdir  BY <1>17, FileTypes DEF RemoveWorkdir, NoTree, Everywhere
  <1>18. CASE UNCHANGED vars  BY <1>18 DEF vars
  <1> QED
    BY <1>1, <1>2, <1>3, <1>4, <1>5, <1>6, <1>7, <1>8, <1>9, <1>10, <1>11, <1>12, <1>13, <1>14,
       <1>15, <1>16, <1>17, <1>18 DEF Next, Step

-----------------------------------------------------------------------------
(* The invariant, action by action *)

\* A run begins.
LEMMA StartKeeps ==
    ASSUME NEW byMake, IInv, TypeOK', Start(byMake)
    PROVE  IInv'
  <1>1. Order' /\ TreeFits'
    BY DEF Start, NothingDone, Order, TreeFits, IInv, workdir
  <1>2. FreshRun'
    BY DEF Start, NothingDone, FreshRun, IInv, workdir, Packing, Late, AfterClone
  <1>3. StrictRun'
    BY DEF Start, NothingDone, StrictRun, IInv, workdir, Packing, Late, AfterClone
  <1>4. Tried' /\ DriverSound' /\ DllsSound' /\ Promises'
    BY DEF Start, NothingDone, Tried, Skipped, DriverSound, DllsSound, Promises, Good,
           FreshRunIsComplete, MissingIsExplained, StrictRunHasAll, GreenPackageIsTree, IInv,
           workdir, Packing, Late, AfterClone
  <1> QED  BY <1>1, <1>2, <1>3, <1>4 DEF IInv

\* A run that ends before it has touched anything.
LEMMA NoToolchainKeeps ==
    ASSUME IInv, TypeOK', NoToolchain
    PROVE  IInv'
  BY DEF NoToolchain, End, Order, TreeFits, Tried, Skipped, DriverSound, DllsSound, FreshRun,
         StrictRun, Promises, Good, FreshRunIsComplete, MissingIsExplained, StrictRunHasAll,
         GreenPackageIsTree, IInv, workdir, ghosts, Packing, Late, AfterClone

\* The clone, and the list of patches.
LEMMA CloneKeeps ==
    ASSUME IInv, TypeOK', Clone
    PROVE  IInv'
  <1>1. Order' /\ TreeFits'
    BY DEF Clone, Unless, End, Goto, Order, TreeFits, IInv, TypeOK, ghosts, Packing, Late
  <1>2. Tried'
    BY DEF Clone, End, Goto, Tried, IInv
  <1>3. FreshRun'
    BY DEF Clone, Unless, End, Goto, FreshRun, IInv, TypeOK, ghosts, Packing
  <1>4. StrictRun'
    BY DEF Clone, End, Goto, StrictRun, TreeFits, IInv, TypeOK, ghosts
  <1>5. UNCHANGED <<script, patches, built, staged, strict, ghosts, tree.session>>
        /\ pc' \in {"idle", "patch"} /\ result' # "OK"
    BY DEF Clone, Unless, End, Goto, Order, IInv, TypeOK
  <1>6. DriverSound' /\ DllsSound' /\ Promises'
    BY <1>5 DEF DriverSound, Skipped, DllsSound, Promises, Good, FreshRunIsComplete,
           MissingIsExplained, StrictRunHasAll, GreenPackageIsTree, IInv, ghosts, Packing
  <1> QED  BY <1>1, <1>2, <1>3, <1>4, <1>6 DEF IInv

\* The loop ends.
LEMMA AppliedKeeps ==
    ASSUME IInv, TypeOK', Applied
    PROVE  IInv'
  <1>1. Order' /\ TreeFits'
    BY DEF Applied, End, Goto, Order, TreeFits, IInv, workdir, ghosts, Packing, Late
  <1>2. Tried' /\ DriverSound' /\ DllsSound'
    BY DEF Applied, End, Goto, Tried, Skipped, DriverSound, DllsSound, IInv, workdir, ghosts,
           Packing, Late, AfterClone
  <1>3. FreshRun' /\ StrictRun'
    BY DEF Applied, End, Goto, FreshRun, AllFit, StrictRun, IInv, workdir, ghosts,
           Packing, Late, AfterClone
  <1>4. Promises'
    BY DEF Applied, End, Goto, Promises, Good, FreshRunIsComplete, MissingIsExplained,
           StrictRunHasAll, GreenPackageIsTree, Order, IInv, ghosts
  <1> QED  BY <1>1, <1>2, <1>3, <1>4 DEF IInv

\* A patch of mesa's loop.
LEMMA MesaApplyKeeps ==
    ASSUME IInv, TypeOK', MesaApply
    PROVE  IInv'
  <1>1. Order' /\ TreeFits'
    BY DEF MesaApply, AfterAm, Order, TreeFits, IInv, ghosts
  <1>2. Tried'
    BY DEF MesaApply, AfterAm, Tried, Skipped, IInv, TypeOK
  <1>3. DriverSound'
    BY DEF MesaApply, AfterAm, DriverSound, Skipped, IInv, TypeOK, ghosts
  <1>4. FreshRun'
    BY DEF MesaApply, AfterAm, AmSucceeds, FreshRun, AllFit, TreeFits, IInv, ghosts
  <1>5. DllsSound' /\ StrictRun' /\ Promises'
    BY DEF MesaApply, DllsSound, StrictRun, Order, Promises, Good, FreshRunIsComplete,
           MissingIsExplained, StrictRunHasAll, GreenPackageIsTree, IInv
  <1> QED  BY <1>1, <1>2, <1>3, <1>4, <1>5 DEF IInv

\* A patch of fexcore's loop, which a failure ends.
LEMMA FexApplyKeeps ==
    ASSUME IInv, TypeOK', FexApply
    PROVE  IInv'
  <1>1. Order' /\ TreeFits'
    BY DEF FexApply, AfterAm, Unless, End, Goto, Order, TreeFits, IInv, ghosts
  <1>2. Tried'
    BY DEF FexApply, AfterAm, First, Unless, End, Goto, Tried, TreeFits, Skipped, IInv,
           TypeOK, AfterClone
  <1>3. FreshRun'
    BY DEF FexApply, AfterAm, AmSucceeds, Unless, End, Goto, FreshRun, AllFit, TreeFits, IInv,
           ghosts, AfterClone
  <1>4. StrictRun'
    BY DEF FexApply, AfterAm, AmSucceeds, Unless, End, Goto, StrictRun, IInv, ghosts, Packing, Late,
           AfterClone
  <1>5. DriverSound' /\ DllsSound' /\ Promises'
    BY DEF FexApply, Unless, End, Goto, DriverSound, Order, DllsSound, Promises, Good,
           FreshRunIsComplete, MissingIsExplained, StrictRunHasAll, GreenPackageIsTree, IInv
  <1> QED  BY <1>1, <1>2, <1>3, <1>4, <1>5 DEF IInv

\* Configuring touches no file a property is about.
LEMMA MesaConfigureKeeps ==
    ASSUME IInv, TypeOK', MesaConfigure
    PROVE  IInv'
  <1>1. Order' /\ TreeFits'
    BY DEF MesaConfigure, Unless, End, Goto, Order, TreeFits, IInv, ghosts, Packing, Late
  <1>2. Tried' /\ DriverSound' /\ DllsSound'
    BY DEF MesaConfigure, Unless, End, Goto, Tried, Skipped, DriverSound, DllsSound, IInv,
           ghosts, Packing, Late, AfterClone
  <1>3. FreshRun' /\ StrictRun'
    BY DEF MesaConfigure, Unless, End, Goto, FreshRun, AllFit, StrictRun, IInv, ghosts,
           Packing, Late, AfterClone
  <1>4. Promises'
    BY DEF MesaConfigure, Unless, End, Goto, Promises, Good, FreshRunIsComplete,
           MissingIsExplained, StrictRunHasAll, GreenPackageIsTree, Order, IInv, ghosts
  <1> QED  BY <1>1, <1>2, <1>3, <1>4 DEF IInv

\* The same of fexcore, which may make the directory.
LEMMA FexConfigureKeeps ==
    ASSUME IInv, TypeOK', FexConfigure
    PROVE  IInv'
  <1>1. Order' /\ TreeFits'
    BY DEF FexConfigure, Unless, End, Goto, Order, TreeFits, IInv, ghosts, Packing, Late
  <1>2. Tried'
    BY DEF FexConfigure, End, Goto, Tried, Skipped, IInv, Packing, Late, AfterClone
  <1>3. DriverSound' /\ DllsSound' /\ FreshRun' /\ StrictRun' /\ Promises'
    BY DEF FexConfigure, Unless, End, Goto, DriverSound, Order, DllsSound, FreshRun, AllFit,
           StrictRun, Promises, Good, FreshRunIsComplete, MissingIsExplained, StrictRunHasAll,
           GreenPackageIsTree, IInv, ghosts, Packing, Late, AfterClone
  <1> QED  BY <1>1, <1>2, <1>3 DEF IInv

\* The driver is built of all patches that could be applied, or is an earlier run's.
LEMMA MesaBuildKeeps ==
    ASSUME IInv, TypeOK', MesaBuild
    PROVE  IInv'
  <1>1. DriverSound'
    BY DEF MesaBuild, Everywhere, From, End, Goto, DriverSound, TreeFits, Order, Tried,
           Skipped, IInv, Outputs, Packing, Late, AfterClone
  <1>2. FreshRun'
    BY DEF MesaBuild, Everywhere, End, Goto, FreshRun, AllFit, TreeFits, Order, IInv, Outputs,
           Packing, Late, AfterClone
  <1>3. Order' /\ TreeFits' /\ Tried' /\ DllsSound' /\ StrictRun' /\ Promises'
    BY DEF MesaBuild, End, Goto, Order, TreeFits, Tried, Skipped, DllsSound, StrictRun,
           Promises, Good, FreshRunIsComplete, MissingIsExplained, StrictRunHasAll,
           GreenPackageIsTree, IInv, Packing, Late, AfterClone
  <1> QED  BY <1>1, <1>2, <1>3 DEF IInv

\* Every DLL is built, or the build is known to have failed.
LEMMA FexBuildKeeps ==
    ASSUME IInv, TypeOK', FexBuild
    PROVE  IInv'
  <1>1. DllsSound'
    BY DEF FexBuild, Rebuilt, Goto, DllsSound, TreeFits, IInv, Outputs
  <1>2. Order' /\ TreeFits' /\ Tried' /\ DriverSound' /\ FreshRun' /\ StrictRun'
        /\ Promises'
    BY DEF FexBuild, Rebuilt, Goto, Order, TreeFits, Tried, Skipped, DriverSound, FreshRun,
           AllFit, StrictRun, Promises, Good, FreshRunIsComplete, MissingIsExplained,
           StrictRunHasAll, GreenPackageIsTree, IInv, Packing, Late, AfterClone
  <1> QED  BY <1>1, <1>2 DEF IInv

\* patchelf fails, and the run goes on only if it is not strict.
LEMMA MesaSonameKeeps ==
    ASSUME IInv, TypeOK', MesaSoname
    PROVE  IInv'
  <1>1. Outputs = {"driver"} /\ spoiled = {}
    BY DEF MesaSoname, Outputs, Order, IInv
  <1>2. DriverSound' /\ FreshRun'
    <2>1. CASE built["driver"].file = "whole" /\ Goto("copy") /\ UNCHANGED <<built, spoiled>>
      BY <1>1, <2>1 DEF MesaSoname, Goto, DriverSound, FreshRun, AllFit, Skipped, IInv, Packing,
         Packing, Late, AfterClone
    <2>2. CASE built' \in {built, Everywhere(Torn)} /\ spoiled' = Outputs /\ Unless(FALSE, "copy")
      <3>1. built'["driver"].file = "torn" \/ built' = built
        BY <1>1, <2>2 DEF Everywhere, Torn
      <3>2. built'["driver"].file # "absent" /\ spoiled' # {}
        BY <1>1, <2>2, <3>1 DEF MesaSoname, DriverSound, IInv, Packing
      <3> QED
        BY <2>2, <3>1, <3>2 DEF MesaSoname, Unless, End, Goto, DriverSound, FreshRun, AllFit,
           Skipped, IInv, Packing, Late, AfterClone
    <2> QED  BY <2>1, <2>2 DEF MesaSoname
  <1>3. Order' /\ TreeFits' /\ Tried' /\ DllsSound' /\ StrictRun' /\ Promises'
    BY DEF MesaSoname, Unless, End, Goto, Order, TreeFits, Tried, Skipped, DllsSound, StrictRun,
           Promises, Good, FreshRunIsComplete, MissingIsExplained, StrictRunHasAll,
           GreenPackageIsTree, IInv, Packing, Late, AfterClone
  <1> QED  BY <1>2, <1>3 DEF IInv

\* The driver is copied, or the failure is on record.
LEMMA MesaCopyKeeps ==
    ASSUME IInv, TypeOK', MesaCopy
    PROVE  IInv'
  <1> PICK done \in SUBSET Outputs, cut \in SUBSET Outputs :
        /\ staged' = Copied(done, cut)
        /\ spoiled' = spoiled \union Uncopied(done)
        /\ Unless(Uncopied(done) = {}, "archive")
    BY DEF MesaCopy
  <1>1. Outputs = {"driver"} /\ built["driver"].file # "absent"
    BY DEF MesaCopy, Outputs, DriverSound, IInv, Packing
  <1>2. Uncopied(done) = {} => staged'["driver"] = built["driver"]
    BY <1>1 DEF Uncopied, Copied
  <1>3. DriverSound'
    BY <1>1, <1>2 DEF MesaCopy, Unless, End, Goto, DriverSound, Skipped, IInv, Packing
  <1>4. Order' /\ TreeFits' /\ Tried' /\ DllsSound' /\ FreshRun' /\ StrictRun' /\ Promises'
    BY DEF MesaCopy, Unless, End, Goto, Order, TreeFits, Tried, Skipped, DllsSound, FreshRun,
           AllFit, StrictRun, Promises, Good, FreshRunIsComplete, MissingIsExplained,
           StrictRunHasAll, GreenPackageIsTree, IInv, Packing, Late, AfterClone
  <1> QED  BY <1>3, <1>4 DEF IInv

\* The driver goes into the package.
LEMMA MesaArchiveKeeps ==
    ASSUME IInv, TypeOK', MesaArchive
    PROVE  IInv'
  <1>1. Outputs = {"driver"} /\ spoiled \subseteq {"driver"}
    BY DEF MesaArchive, IInv, TypeOK, Outputs
  <1>2. Good' => archive' = Archived
    BY DEF MesaArchive, IInv, Order, Good
  <1>3. spoiled = {} => Archived["driver"] = built["driver"] /\ built["driver"].file = "whole"
    BY <1>1 DEF MesaArchive, Archived, DriverSound, IInv
  <1>4. spoiled # {} => Unnoticed("driver")'
    BY <1>1 DEF MesaArchive, Unnoticed, DriverSound, IInv, Packing
  <1>5. FreshRunIsComplete'
    <2>1. fresh /\ AllFit => built["driver"] = From(patches) \/ spoiled # {}
      BY DEF MesaArchive, FreshRun, IInv, Packing
    <2> QED
      BY <1>1, <1>2, <1>3, <1>4, <2>1 DEF MesaArchive, FreshRunIsComplete, Good, AllFit, From,
         Outputs
  <1>6. MissingIsExplained'
    <2>1. built["driver"].file = "whole" =>
            \A p \in builtFrom : p \in built["driver"].has \/ tree.session \/ Skipped(p)
      BY DEF MesaArchive, DriverSound, IInv
    <2>2. UNCHANGED <<tree, builtFrom, patches, script>>  BY DEF MesaArchive, workdir
    <2> QED
      BY <1>1, <1>2, <1>3, <1>4, <2>1, <2>2 DEF MissingIsExplained, Outputs, Skipped
  <1>7. Order' /\ TreeFits' /\ Tried' /\ DriverSound' /\ DllsSound' /\ FreshRun'
        /\ StrictRun' /\ StrictRunHasAll' /\ GreenPackageIsTree'
    BY DEF MesaArchive, End, Order, TreeFits, Tried, Skipped, DriverSound, DllsSound,
           FreshRun, StrictRun, Promises, StrictRunHasAll, GreenPackageIsTree, IInv, workdir,
           Packing, Late, AfterClone
  <1> QED  BY <1>5, <1>6, <1>7 DEF IInv, Promises

\* Each DLL is copied, or the failure is on record.
LEMMA FexCopyKeeps ==
    ASSUME IInv, TypeOK', FexCopy
    PROVE  IInv'
  <1> PICK done \in SUBSET Outputs, cut \in SUBSET Outputs :
        /\ staged' = Copied(done, cut)
        /\ spoiled' = spoiled \union Uncopied(done)
    BY DEF FexCopy
  <1>1. DllsSound'
    <2>1. \A o \in Outputs \ spoiled' : built[o] = From(tree.applied) => staged'[o] = built[o]
      BY DEF Copied, Uncopied, From
    <2>2. UNCHANGED <<script, patches, tree, built, buildOk, builtFrom>>
      BY DEF FexCopy
    <2>3. pc = "copy" /\ script = "fexcore"  BY DEF FexCopy
    <2> QED  BY <2>1, <2>2, <2>3 DEF DllsSound, IInv, Outputs
  <1>2. Order' /\ TreeFits' /\ Tried' /\ DriverSound' /\ FreshRun' /\ StrictRun' /\ Promises'
    BY DEF FexCopy, End, Goto, Order, TreeFits, Tried, Skipped, DriverSound, FreshRun,
           AllFit, StrictRun, Promises, Good, FreshRunIsComplete, MissingIsExplained,
           StrictRunHasAll, GreenPackageIsTree, IInv, Packing, Late, AfterClone
  <1> QED  BY <1>1, <1>2 DEF IInv

\* The DLLs go into the package; of earlier runs only what could not be copied over.
LEMMA FexArchiveKeeps ==
    ASSUME IInv, TypeOK', FexArchive
    PROVE  IInv'
  <1>1. UNCHANGED <<script, patches, workdir, todo, strict, buildOk, fresh, builtFrom, spoiled>>
        /\ script = "fexcore" /\ pc = "archive"
    BY DEF FexArchive
  <1>2. Good' => /\ archive' = Archived
                 /\ tree.clone = "full" /\ builtFrom = patches
                 /\ \A o \in Outputs \ spoiled : staged[o] = From(tree.applied)
    BY DEF FexArchive, Good, Order, DllsSound, IInv
  <1>3. \A o \in Outputs : staged[o] = From(tree.applied) => Archived[o] = From(tree.applied)
    BY DEF Archived, From
  <1>4. GreenPackageIsTree'
    BY <1>1, <1>2, <1>3 DEF GreenPackageIsTree, Unnoticed, Outputs, workdir
  <1>5. FreshRunIsComplete'
    <2>1. fresh /\ AllFit /\ tree.clone = "full" => tree.applied = patches
      BY <1>1 DEF FreshRun, Order, IInv, Packing, Late, AfterClone
    <2>2. (Good => script = "fexcore")'  BY <1>1
    <2> QED
      BY <1>1, <1>2, <1>4, <2>1, <2>2 DEF FreshRunIsComplete, GreenPackageIsTree, AllFit, workdir
  <1>6. MissingIsExplained'
    <2>1. tree.clone = "full" =>
            \A p \in patches : p \in tree.applied \/ tree.session \/ Skipped(p)
      BY <1>1 DEF Tried, Order, IInv, Packing, Late, AfterClone
    <2>2. \A o \in Outputs : Good' => archive'[o] = From(tree.applied) \/ Unnoticed(o)'
      BY <1>1, <1>4 DEF GreenPackageIsTree, Outputs, workdir
    <2> QED
      BY <1>1, <1>2, <2>1, <2>2 DEF MissingIsExplained, Skipped, From, Outputs, workdir
  <1>7. StrictRunHasAll'
    BY <1>1 DEF StrictRunHasAll, StrictRun, Order, IInv, workdir, Packing, Late, AfterClone
  <1>8. Order' /\ TreeFits' /\ Tried' /\ DriverSound' /\ DllsSound' /\ FreshRun'
        /\ StrictRun'
    BY DEF FexArchive, End, Order, TreeFits, Tried, Skipped, DriverSound, DllsSound, FreshRun,
           StrictRun, IInv, workdir, Packing, Late, AfterClone
  <1> QED  BY <1>4, <1>5, <1>6, <1>7, <1>8 DEF IInv, Promises

\* A killed run promises nothing; what matters is what it leaves.
LEMMA KilledInCloneKeeps ==
    ASSUME IInv, TypeOK', Kill, KilledInClone
    PROVE  IInv'
  BY DEF Kill, KilledInClone, End, Order, TreeFits, Tried, Skipped, DriverSound, DllsSound,
         FreshRun, StrictRun, Promises, Good, FreshRunIsComplete, MissingIsExplained,
         StrictRunHasAll, GreenPackageIsTree, IInv, ghosts, Packing, Late, AfterClone

LEMMA KilledInApplyKeeps ==
    ASSUME IInv, TypeOK', Kill, KilledInApply
    PROVE  IInv'
  <1>1. Order' /\ TreeFits'
    BY DEF Kill, KilledInApply, AfterAm, End, Order, TreeFits, IInv, TypeOK, ghosts, Packing, Late
  <1>2. DriverSound'
    BY DEF Kill, KilledInApply, End, DriverSound, IInv, TypeOK, ghosts, Packing
  <1>3. Tried' /\ DllsSound' /\ FreshRun' /\ StrictRun' /\ Promises'
    BY DEF Kill, KilledInApply, End, Tried, DllsSound, FreshRun, StrictRun, Promises, Good,
           FreshRunIsComplete, MissingIsExplained, StrictRunHasAll, GreenPackageIsTree, IInv,
           Packing, Late, AfterClone
  <1> QED  BY <1>1, <1>2, <1>3 DEF IInv

LEMMA KilledInConfigureKeeps ==
    ASSUME IInv, TypeOK', Kill, KilledInConfigure
    PROVE  IInv'
  BY DEF Kill, KilledInConfigure, End, Order, TreeFits, Tried, DriverSound, DllsSound,
         FreshRun, StrictRun, Promises, Good, FreshRunIsComplete, MissingIsExplained,
         StrictRunHasAll, GreenPackageIsTree, IInv, ghosts, Packing, Late, AfterClone

LEMMA KilledInBuildKeeps ==
    ASSUME IInv, TypeOK', Kill, KilledInBuild
    PROVE  IInv'
  BY DEF Kill, KilledInBuild, End, Order, TreeFits, Tried, DriverSound, DllsSound, FreshRun,
         StrictRun, Promises, Good, FreshRunIsComplete, MissingIsExplained, StrictRunHasAll,
         GreenPackageIsTree, IInv, ghosts, Packing, Late, AfterClone

LEMMA KilledInSonameKeeps ==
    ASSUME IInv, TypeOK', Kill, KilledInSoname
    PROVE  IInv'
  <1>1. DriverSound'
    BY DEF Kill, KilledInSoname, Everywhere, Torn, End, DriverSound, IInv, Outputs, Packing
  <1>2. Order' /\ TreeFits' /\ Tried' /\ DllsSound' /\ FreshRun' /\ StrictRun'
        /\ Promises'
    BY DEF Kill, KilledInSoname, End, Order, TreeFits, Tried, DllsSound, FreshRun,
           StrictRun, Promises, Good, FreshRunIsComplete, MissingIsExplained, StrictRunHasAll,
           GreenPackageIsTree, IInv, ghosts, Packing, Late, AfterClone
  <1> QED  BY <1>1, <1>2 DEF IInv

LEMMA KilledInCopyKeeps ==
    ASSUME IInv, TypeOK', Kill, KilledInCopy
    PROVE  IInv'
  BY DEF Kill, KilledInCopy, End, Order, TreeFits, Tried, Skipped, DriverSound, DllsSound,
         FreshRun, StrictRun, Promises, Good, FreshRunIsComplete, MissingIsExplained,
         StrictRunHasAll, GreenPackageIsTree, IInv, ghosts, Packing, Late, AfterClone

LEMMA KilledInArchiveKeeps ==
    ASSUME IInv, TypeOK', Kill, KilledInArchive
    PROVE  IInv'
  BY DEF Kill, KilledInArchive, End, Order, TreeFits, Tried, Skipped, DriverSound, DllsSound,
         FreshRun, StrictRun, Promises, Good, FreshRunIsComplete, MissingIsExplained,
         StrictRunHasAll, GreenPackageIsTree, IInv, workdir, ghosts, Packing, Late, AfterClone

LEMMA KilledKeeps ==
    ASSUME IInv, TypeOK', Kill, UNCHANGED <<workdir, archive>>
    PROVE  IInv'
  BY DEF Kill, End, Order, TreeFits, Tried, Skipped, DriverSound, DllsSound, FreshRun,
         StrictRun, Promises, Good, FreshRunIsComplete, MissingIsExplained, StrictRunHasAll,
         GreenPackageIsTree, IInv, workdir, ghosts, Packing, Late, AfterClone

\* Between two runs.
LEMMA AddPatchKeeps ==
    ASSUME IInv, TypeOK', AddPatch
    PROVE  IInv'
  <1>1. Order' /\ TreeFits'
    BY DEF AddPatch, Order, TreeFits, IInv, workdir, ghosts
  <1>2. DriverSound'
    BY DEF AddPatch, DriverSound, Skipped, IInv, workdir, ghosts
  <1>3. Tried' /\ DllsSound' /\ FreshRun' /\ StrictRun' /\ Promises'
    BY DEF AddPatch, Tried, DllsSound, FreshRun, StrictRun, Promises, Good,
           FreshRunIsComplete, MissingIsExplained, StrictRunHasAll, GreenPackageIsTree, IInv,
           Packing, Late, AfterClone
  <1> QED  BY <1>1, <1>2, <1>3 DEF IInv

LEMMA RemoveWorkdirKeeps ==
    ASSUME IInv, TypeOK', RemoveWorkdir
    PROVE  IInv'
  BY DEF RemoveWorkdir, NoTree, Everywhere, Absent, Order, TreeFits, Tried, DriverSound,
         DllsSound, FreshRun, StrictRun, Promises, Good, FreshRunIsComplete,
         MissingIsExplained, StrictRunHasAll, GreenPackageIsTree, IInv, Outputs, ghosts,
         Packing, Late, AfterClone

-----------------------------------------------------------------------------
(* The theorems *)

LEMMA NextIInv == IInv /\ [Next]_vars => IInv'
  <1> SUFFICES ASSUME IInv, [Next]_vars PROVE IInv'  OBVIOUS
  <1>1. TypeOK'  BY TypeStep DEF IInv
  <1>2. CASE \E byMake \in BOOLEAN : Start(byMake)  BY <1>1, <1>2, StartKeeps
  <1>3. CASE Step
    BY <1>1, <1>3, NoToolchainKeeps, CloneKeeps, AppliedKeeps, MesaApplyKeeps, MesaConfigureKeeps,
       MesaBuildKeeps, MesaSonameKeeps, MesaCopyKeeps, MesaArchiveKeeps, FexApplyKeeps,
       FexConfigureKeeps, FexBuildKeeps, FexCopyKeeps, FexArchiveKeeps DEF Step
  <1>4. CASE Kill
    BY <1>1, <1>4, KilledInCloneKeeps, KilledInApplyKeeps, KilledInConfigureKeeps,
       KilledInBuildKeeps, KilledInSonameKeeps, KilledInCopyKeeps, KilledInArchiveKeeps,
       KilledKeeps DEF Kill
  <1>5. CASE AddPatch  BY <1>1, <1>5, AddPatchKeeps
  <1>6. CASE RemoveWorkdir  BY <1>1, <1>6, RemoveWorkdirKeeps
  <1>7. CASE UNCHANGED vars
    <2> USE <1>7 DEF vars, workdir, ghosts
    <2>1. Order' /\ TreeFits'  BY DEF IInv, Order, TreeFits
    <2>2. Tried' /\ DriverSound'  BY DEF IInv, Tried, DriverSound, Skipped
    <2>3. DllsSound' /\ FreshRun' /\ StrictRun'
      BY DEF IInv, DllsSound, FreshRun, StrictRun, AllFit, Outputs
    <2>4. Promises'
      BY DEF IInv, Promises, FreshRunIsComplete, MissingIsExplained, StrictRunHasAll,
             GreenPackageIsTree, Good, Skipped, Unnoticed, Outputs
    <2> QED  BY <1>1, <2>1, <2>2, <2>3, <2>4 DEF IInv
  <1> QED  BY <1>2, <1>3, <1>4, <1>5, <1>6, <1>7 DEF Next

LEMMA InvariantHolds == Spec => []IInv
  BY InitIInv, NextIInv, PTL DEF Spec

\* Whatever a run does, its files are of the types they have.
THEOREM ScriptTypeCorrect == Spec => []TypeOK
  BY InvariantHolds, PTL DEF IInv

\* A run that starts from nothing done and ends well packages a build of
\* exactly the patches there are, if git can apply them all; only an output
\* whose patchelf or cp failed unreported (fexcore/build.sh:154,
\* mesa/build.sh:128, 141) may be another.
THEOREM FreshRunsAreComplete == Spec => []FreshRunIsComplete
  <1>1. IInv => FreshRunIsComplete  BY DEF IInv, Promises
  <1> QED  BY <1>1, InvariantHolds, PTL

\* A patch is missing in a package only if git could not read it, an am
\* session was open (mesa/build.sh:46), it came after the build
\* (mesa/build.sh:115), or a patchelf or cp failed that the run passed over,
\* which a strict run of mesa never does.
THEOREM MissingPatchesExplained == Spec => []MissingIsExplained
  <1>1. IInv => MissingIsExplained  BY DEF IInv, Promises
  <1> QED  BY <1>1, InvariantHolds, PTL

\* A strict run of fexcore/build.sh that ends well has every patch in its tree,
\* and with any patch at all began from nothing done (fexcore/build.sh:69).
THEOREM StrictRunsHaveAll == Spec => []StrictRunHasAll
  <1>1. IInv => StrictRunHasAll  BY DEF IInv, Promises
  <1> QED  BY <1>1, InvariantHolds, PTL

\* What fexcore/build.sh packages when its build did not fail is the tree as it
\* is, with no DLL of an earlier run (fexcore/build.sh:145) but one that cp
\* failed to copy over (fexcore/build.sh:154).
THEOREM GreenPackagesAreTheTree == Spec => []GreenPackageIsTree
  <1>1. IInv => GreenPackageIsTree  BY DEF IInv, Promises
  <1> QED  BY <1>1, InvariantHolds, PTL

-----------------------------------------------------------------------------
(* setup_deps() of wine/build.sh *)

\* What is wrong with a package that the root directory does not have.
Cause(p) == deb[p] # "whole" \/ p \in unpackFailed

\* The loops of a run leave no package behind without a cause, and once the
\* stamp is set no run begins.
Progress ==
    /\ at = "extract" => \A p \in Pkg \ (root \union next) : Cause(p)
    /\ ready => at = "away"

DepsInv == DepsTypeOK /\ Progress /\ HolesHaveCauses

-----------------------------------------------------------------------------

LEMMA InitDepsInv == DepsInit => DepsInv
  BY DEF DepsInit, DepsInv, DepsTypeOK, Progress, HolesHaveCauses

LEMMA NextDepsInv == DepsInv /\ [DepsNext]_depsVars => DepsInv'
  <1> SUFFICES ASSUME DepsInv, [DepsNext]_depsVars PROVE DepsInv'  OBVIOUS
  <1> USE DEF DepsInv, DepsTypeOK, Progress, HolesHaveCauses, Cause, cache
  <1>1. ASSUME NEW byMake \in BOOLEAN, SetupDeps(byMake) PROVE DepsInv'
    BY <1>1 DEF SetupDeps
  <1>2. CASE FetchIndex
    <2>1. DepsTypeOK'  BY <1>2 DEF FetchIndex, Failing
    <2>2. Progress' /\ HolesHaveCauses'  BY <1>2 DEF FetchIndex, Failing
    <2> QED  BY <2>1, <2>2
  <1>3. CASE Download
    <2>1. DepsTypeOK'  BY <1>3 DEF Download, Failing
    <2>2. Progress' /\ HolesHaveCauses'  BY <1>3 DEF Download, Failing
    <2> QED  BY <2>1, <2>2
  <1>4. CASE Downloaded
    BY <1>4 DEF Downloaded
  <1>5. CASE Extract
    BY <1>5 DEF Extract
  <1>6. CASE Stamp
    BY <1>6 DEF Stamp
  <1>7. CASE KillSetup
    BY <1>7 DEF KillSetup
  <1>8. CASE RemoveDeps
    BY <1>8 DEF RemoveDeps
  <1>9. CASE UNCHANGED depsVars
    BY <1>9 DEF depsVars
  <1> QED
    BY <1>1, <1>2, <1>3, <1>4, <1>5, <1>6, <1>7, <1>8, <1>9 DEF DepsNext

\* The files, the stamp and the place of a run are of the types they have.
THEOREM DepsTypeCorrect == DepsSpec => []DepsTypeOK
  BY InitDepsInv, NextDepsInv, PTL DEF DepsSpec, DepsInv

\* With the stamp set (wine/build.sh:269), a package that the root directory
\* lacks has a package file that is missing or bad, or would not unpack.
THEOREM DepsHolesExplained == DepsSpec => []HolesHaveCauses
  BY InitDepsInv, NextDepsInv, PTL DEF DepsSpec, DepsInv

-----------------------------------------------------------------------------
(* downloadPackage *)

\* So far the archive is the first i parts of the release the server has, as
\* long as none came out and no transfer ended early.
Prefix ==
    downloading /\ ~moved /\ ~endedEarly =>
        output = [k \in 1 .. i |-> Piece(latest, k - 1, TRUE)]

Outcome == downloading => returned # "true"

DownloadInv == DownloadTypeOK /\ Prefix /\ Outcome /\ TrueIsSound

Pieces == [release : 1 .. MaxRelease, part : Nat, whole : BOOLEAN]

\* Nothing is the parts up to none.
LEMMA NoPieces == \A r : <<>> = [k \in 1 .. 0 |-> Piece(r, k - 1, TRUE)]
  <1>1. <<>> \in Seq(Pieces) /\ Len(<<>>) = 0  BY EmptySeq
  <1>2. DOMAIN <<>> = 1 .. 0 /\ 1 .. 0 = {}  BY <1>1, LenProperties
  <1> QED  BY <1>2

LEMMA NoArchive == <<>> \in Seq(Pieces)
  BY EmptySeq

\* One part more.
LEMMA AppendPiece ==
    ASSUME NEW r \in 1 .. MaxRelease, NEW s \in Seq(Pieces),
           \A k \in 1 .. Len(s) : s[k] = Piece(r, k - 1, TRUE)
    PROVE  Append(s, Piece(r, Len(s), TRUE)) = [k \in 1 .. Len(s) + 1 |-> Piece(r, k - 1, TRUE)]
  <1> DEFINE n == Len(s)
             p == Piece(r, n, TRUE)
             more == Append(s, p)
  <1>1. n \in Nat  BY LenProperties
  <1>2. p \in Pieces  BY <1>1 DEF Piece, Pieces
  <1> HIDE DEF p
  <1>3. /\ more \in Seq(Pieces) /\ Len(more) = n + 1
        /\ \A k \in 1 .. n : more[k] = s[k]
        /\ more[n + 1] = p
    BY <1>2, AppendProperties
  <1>4. (n + 1) - 1 = n  BY <1>1
  <1> HIDE DEF n, more
  <1>5. DOMAIN more = 1 .. n + 1 /\ more = [k \in DOMAIN more |-> more[k]]
    BY <1>3, LenProperties
  <1>6. \A k \in 1 .. n : more[k] = Piece(r, k - 1, TRUE)
    BY <1>3 DEF n
  <1>7. more[n + 1] = Piece(r, (n + 1) - 1, TRUE)
    BY <1>3, <1>4 DEF p
  <1>8. \A k \in 1 .. n + 1 : more[k] = Piece(r, k - 1, TRUE)
    <2> SUFFICES ASSUME NEW k \in 1 .. n + 1 PROVE more[k] = Piece(r, k - 1, TRUE)
      OBVIOUS
    <2>1. CASE k \in 1 .. n  BY <2>1, <1>6
    <2>2. CASE k = n + 1  BY <2>2, <1>7
    <2>3. k \in 1 .. n \/ k = n + 1  BY <1>1
    <2> QED  BY <2>1, <2>2, <2>3
  <1>9. more = [k \in 1 .. n + 1 |-> Piece(r, k - 1, TRUE)]
    BY <1>5, <1>8
  <1> QED  BY <1>9 DEF n, p, more

LEMMA InitDownloadInv == ASSUME DownloadInit PROVE DownloadInv
  <1> USE DownloadAssumption DEF DownloadAssumption
  <1>1. output \in Seq(Pieces)  BY NoArchive DEF DownloadInit
  <1>2. DownloadTypeOK
    <2>1. /\ latest = 1 /\ i = 0 /\ downloading = FALSE
          /\ returned = "none" /\ moved = FALSE /\ endedEarly = FALSE
      BY DEF DownloadInit
    <2>2. latest \in 1 .. MaxRelease /\ i \in 0 .. NParts  BY <2>1
    <2>3. downloading \in BOOLEAN /\ moved \in BOOLEAN /\ endedEarly \in BOOLEAN  BY <2>1
    <2> QED  BY <1>1, <2>1, <2>2, <2>3, Zenon DEF DownloadTypeOK, Pieces
  <1> QED  BY <1>2 DEF DownloadInit, DownloadInv, Prefix, Outcome, TrueIsSound

LEMMA PieceType ==
    ASSUME DownloadTypeOK, NEW whole \in BOOLEAN
    PROVE  Append(output, Piece(latest, i, whole)) \in Seq(Pieces)
  <1> USE DownloadAssumption DEF DownloadAssumption
  <1>1. Piece(latest, i, whole) \in Pieces  BY DEF DownloadTypeOK, Piece, Pieces
  <1> QED  BY <1>1, AppendProperties DEF DownloadTypeOK, Pieces

LEMMA NextDownloadInv ==
    ASSUME DownloadInv, [DownloadNext]_downloadVars
    PROVE  DownloadInv'
  <1> USE DownloadAssumption DEF DownloadAssumption, DownloadInv, Outcome
  <1>1. CASE Begin
    <2>1. DownloadTypeOK'
      <3>1. output' \in Seq(Pieces)  BY <1>1, NoArchive DEF Begin
      <3>2. /\ latest' = latest /\ i' = 0 /\ downloading' = TRUE
            /\ returned' = "none" /\ moved' = FALSE /\ endedEarly' = FALSE
        BY <1>1 DEF Begin
      <3>3. latest' \in 1 .. MaxRelease /\ i' \in 0 .. NParts  BY <3>2 DEF DownloadTypeOK
      <3>4. downloading' \in BOOLEAN /\ moved' \in BOOLEAN /\ endedEarly' \in BOOLEAN  BY <3>2
      <3> QED  BY <3>1, <3>2, <3>3, <3>4, Zenon DEF DownloadTypeOK, Pieces
    <2>2. Prefix'  BY <1>1, NoPieces DEF Begin, Prefix
    <2>3. Outcome' /\ TrueIsSound'  BY <1>1 DEF Begin, TrueIsSound
    <2> QED  BY <2>1, <2>2, <2>3
  <1>2. CASE Fetch
    <2>1. DownloadTypeOK'  BY <1>2, PieceType DEF Fetch, DownloadTypeOK, Pieces
    <2>2. Prefix'
      <3> SUFFICES ASSUME ~moved', ~endedEarly'
                   PROVE  output' = [k \in 1 .. i' |-> Piece(latest', k - 1, TRUE)]
        BY DEF Prefix
      <3>1. output' = Append(output, Piece(latest, i, TRUE)) /\ ~moved /\ ~endedEarly
        BY <1>2 DEF Fetch, DownloadTypeOK
      <3>2. output = [k \in 1 .. i |-> Piece(latest, k - 1, TRUE)]
        BY <1>2, <3>1 DEF Fetch, Prefix
      <3>3. i \in Nat /\ i' = i + 1 /\ latest' = latest
        BY <1>2 DEF Fetch, DownloadTypeOK
      <3>4. output \in Seq(Pieces) /\ latest \in 1 .. MaxRelease
        BY DEF DownloadTypeOK, Pieces
      <3>5. Len(output) = i /\ \A k \in 1 .. i : output[k] = Piece(latest, k - 1, TRUE)
        BY <3>2, <3>3, <3>4, LenProperties
      <3>6. Append(output, Piece(latest, i, TRUE)) = [k \in 1 .. i + 1 |-> Piece(latest, k - 1, TRUE)]
        BY <3>4, <3>5, AppendPiece
      <3> QED  BY <3>1, <3>3, <3>6
    <2>3. Outcome' /\ TrueIsSound'  BY <1>2 DEF Fetch, TrueIsSound
    <2> QED  BY <2>1, <2>2, <2>3
  <1>3. CASE Fail \/ Killed
    <2>1. DownloadTypeOK'  BY <1>3, PieceType DEF Fail, Killed, Interrupted, DownloadTypeOK, Pieces
    <2>2. Prefix' /\ Outcome' /\ TrueIsSound'
      BY <1>3 DEF Fail, Killed, Interrupted, Prefix, TrueIsSound
    <2> QED  BY <2>1, <2>2
  <1>4. CASE Finish
    <2>1. DownloadTypeOK'  BY <1>4 DEF Finish, DownloadTypeOK
    <2>2. Prefix' /\ Outcome'  BY <1>4 DEF Finish, Prefix
    <2>3. TrueIsSound'
      BY <1>4 DEF Finish, Prefix, TrueIsSound, Sound, DownloadTypeOK
    <2> QED  BY <2>1, <2>2, <2>3
  <1>5. CASE Release
    <2>1. DownloadTypeOK'  BY <1>5 DEF Release, DownloadTypeOK
    <2>2. Prefix' /\ Outcome'  BY <1>5 DEF Release, Prefix, DownloadTypeOK
    <2>3. TrueIsSound'  BY <1>5 DEF Release, TrueIsSound, Sound, DownloadTypeOK
    <2> QED  BY <2>1, <2>2, <2>3
  <1>6. CASE UNCHANGED downloadVars
    BY <1>6 DEF downloadVars, DownloadTypeOK, Prefix, TrueIsSound, Sound
  <1> QED
    BY <1>1, <1>2, <1>3, <1>4, <1>5, <1>6 DEF DownloadNext

\* The types of a download, whatever is released, fails or is killed.
THEOREM DownloadTypeCorrect == DownloadSpec => []DownloadTypeOK
  <1>1. DownloadInit => DownloadInv  BY InitDownloadInv
  <1>2. DownloadInv /\ [DownloadNext]_downloadVars => DownloadInv'  BY NextDownloadInv
  <1> QED  BY <1>1, <1>2, PTL DEF DownloadSpec, DownloadInv

\* downloadPackage returns true only for the parts of one release, whatever
\* earlier attempts left, unless a release came out or a transfer ended early
\* meanwhile (ProtonPackageManager:84 and :92).
THEOREM DownloadIsSound == DownloadSpec => []TrueIsSound
  <1>1. DownloadInit => DownloadInv  BY InitDownloadInv
  <1>2. DownloadInv /\ [DownloadNext]_downloadVars => DownloadInv'  BY NextDownloadInv
  <1> QED  BY <1>1, <1>2, PTL DEF DownloadSpec, DownloadInv

-----------------------------------------------------------------------------
(* All of them *)

\* The variables of the parts are disjoint, so each keeps its own invariant
\* while another one runs.
THEOREM BuildsTypeCorrect == BuildsSpec => []BuildsTypeOK
  <1> DEFINE Inv == IInv /\ DepsInv /\ DownloadInv
  <1>1. BuildsInit => Inv
    BY InitIInv, InitDepsInv, InitDownloadInv DEF BuildsInit
  <1>2. Inv /\ [BuildsNext]_buildsVars => Inv'
    <2> SUFFICES ASSUME Inv, [BuildsNext]_buildsVars PROVE Inv'  OBVIOUS
    <2>1. [Next]_vars /\ [DepsNext]_depsVars /\ [DownloadNext]_downloadVars
      BY DEF BuildsNext, buildsVars
    <2> QED  BY <2>1, NextIInv, NextDepsInv, NextDownloadInv
  <1>3. Inv => BuildsTypeOK
    BY DEF IInv, DepsInv, DownloadInv, BuildsTypeOK
  <1> QED  BY <1>1, <1>2, <1>3, PTL DEF BuildsSpec
=============================================================================
