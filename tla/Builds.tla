------------------------------- MODULE Builds -------------------------------
(* The parts that keep files from one run to the next: mesa/build.sh and     *)
(* fexcore/build.sh, the dependencies of wine/build.sh, and the download of  *)
(* a Proton package on the device.  They have no file in common, so a state  *)
(* of all of them is a state of each, and one of them, chosen in the initial *)
(* state, is the one that runs.                                              *)
EXTENDS BuildScript, TermuxDeps, ProtonDownload

VARIABLE part

BuildsInit ==
    /\ Init
    /\ DepsInit
    /\ DownloadInit
    /\ part \in {"script", "deps", "proton"}

BuildsNext ==
    \/ part = "script" /\ Next /\ UNCHANGED <<part, depsVars, downloadVars>>
    \/ part = "deps" /\ DepsNext /\ UNCHANGED <<part, vars, downloadVars>>
    \/ part = "proton" /\ DownloadNext /\ UNCHANGED <<part, vars, depsVars>>

buildsVars == <<part, vars, depsVars, downloadVars>>

BuildsSpec == BuildsInit /\ [][BuildsNext]_buildsVars

\* The files and places of all of them are what the modules say.
BuildsTypeOK == TypeOK /\ DepsTypeOK /\ DownloadTypeOK
=============================================================================
