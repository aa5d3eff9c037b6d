--------------------------- MODULE ProtonDownload ---------------------------
(***************************************************************************)
(* downloadPackage of Winlator's ProtonPackageManager: the parts of a      *)
(* package are written one after the other into an archive.                *)
(*                                                                         *)
(* The parts come from a release that moves on (its tag is "latest"), a    *)
(* transfer may fail or end early, and the app may be killed.              *)
(***************************************************************************)
EXTENDS Naturals, Sequences

CONSTANTS
    NParts,           \* partSizes.length, a number
    MaxRelease        \* bound: releases that come out, another number

ASSUME DownloadAssumption ==
    /\ NParts \in Nat
    /\ MaxRelease \in Nat \ {0}

VARIABLES
    latest,           \* the release the server has
    output,          \* what the output file holds
    i,                \* the part that is next
    downloading,
    returned,         \* what the last downloadPackage returned, or "none"
    moved,            \* ghost: a release came out during the last download
    endedEarly        \* ghost: a transfer of it ended without an error or the rest

downloadVars == <<latest, output, i, downloading, returned, moved, endedEarly>>

\* Part n of a release, or the beginning of it.
Piece(release, n, whole) == [release |-> release, part |-> n, whole |-> whole]

DownloadInit ==
    /\ latest = 1
    /\ output = <<>>
    /\ i = 0
    /\ downloading = FALSE
    /\ returned = "none"
    /\ moved = FALSE
    /\ endedEarly = FALSE

\* Mutant: the output is opened for appending.
BeginAppending ==
    /\ ~downloading
    /\ downloading' = TRUE
    /\ i' = 0
    /\ returned' = "none"
    /\ moved' = FALSE
    /\ endedEarly' = FALSE
    /\ UNCHANGED <<latest, output>>

\* Opening the output empties it.
Begin ==
    /\ ~downloading
    /\ downloading' = TRUE
    /\ i' = 0
    /\ output' = <<>>
    /\ returned' = "none"
    /\ moved' = FALSE
    /\ endedEarly' = FALSE
    /\ UNCHANGED latest

\* Mutant: one part too many.
FetchBeyond ==
    /\ downloading
    /\ i <= NParts
    /\ i' = i + 1
    /\ \E whole \in BOOLEAN :
        /\ output' = Append(output, Piece(latest, i, whole))
        /\ endedEarly' = (endedEarly \/ ~whole)
    /\ UNCHANGED <<latest, downloading, returned, moved>>

\* The next part, until its transfer ends: the length is compared with nothing.
Fetch ==
    /\ downloading
    /\ i < NParts
    /\ i' = i + 1
    /\ \E whole \in BOOLEAN :
        /\ output' = Append(output, Piece(latest, i, whole))
        /\ endedEarly' = (endedEarly \/ ~whole)
    /\ UNCHANGED <<latest, downloading, returned, moved>>

\* Up to some place in a part.
Interrupted ==
    /\ downloading
    /\ downloading' = FALSE
    /\ output' \in {output, Append(output, Piece(latest, i, FALSE))}
    /\ UNCHANGED <<latest, i, moved, endedEarly>>

\* An exception ends the download; the output stays as it is.
Fail == Interrupted /\ i < NParts /\ returned' = "false"

Killed == Interrupted /\ i < NParts /\ UNCHANGED returned

Finish ==
    /\ downloading
    /\ i = NParts
    /\ downloading' = FALSE
    /\ returned' = "true"
    /\ UNCHANGED <<latest, output, i, moved, endedEarly>>

\* A release comes out (external).
Release ==
    /\ latest < MaxRelease
    /\ latest' = latest + 1
    /\ moved' = (moved \/ downloading)
    /\ UNCHANGED <<output, i, downloading, returned, endedEarly>>

DownloadNext == Begin \/ Fetch \/ Fail \/ Killed \/ Finish \/ Release

DownloadSpec == DownloadInit /\ [][DownloadNext]_downloadVars

-----------------------------------------------------------------------------
(* Properties *)

DownloadTypeOK ==
    /\ latest \in 1 .. MaxRelease
    /\ output \in Seq([release : 1 .. MaxRelease, part : Nat, whole : BOOLEAN])
    /\ i \in 0 .. NParts
    /\ downloading \in BOOLEAN
    /\ returned \in {"none", "true", "false"}
    /\ moved \in BOOLEAN
    /\ endedEarly \in BOOLEAN

\* The parts of one release, all and in order.
Sound ==
    \E r \in 1 .. MaxRelease : output = [k \in 1 .. NParts |-> Piece(r, k - 1, TRUE)]

\* downloadPackage returns true only for the parts of one release, all of them
\* in order and nothing of the attempts before, unless a release came out
\* meanwhile or a transfer ended early, neither of which it can see
\* (ProtonPackageManager:84 and :92).
TrueIsSound == returned = "true" => Sound \/ moved \/ endedEarly
=============================================================================
