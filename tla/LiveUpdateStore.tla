---------------------------- MODULE LiveUpdateStore ----------------------------
(* The live update files in the application support path and what a boot     *)
(* makes of them: liveupdate.arci(.tmp), liveupdate.arcd, liveupdate.ref     *)
(* (.tmp).  No manifest has been stored (liveupdate.dmanifest is absent).    *)
(*                                                                           *)
(* An archive index is a set of entries, one per resource, with the offset   *)
(* of its bytes in the data file; every resource is one unit long, so the    *)
(* data file is the sequence of the resources in it.                         *)
EXTENDS Integers, Sequences

CONSTANT Resources

Entries == [res : Resources, offset : Nat]
Holds(index, r) == \E e \in index : e.res = r

\* An index file: missing; created, with less than the version number in it; cut
\* short behind the version number, with the entries that are left; or complete.
Absent == [state |-> "absent", index |-> {}]
Empty == [state |-> "empty", index |-> {}]
Part(left) == [state |-> "part", index |-> left]
Whole(index) == [state |-> "whole", index |-> index]
IndexStates == {"absent", "empty", "part", "whole"}

\* A reference to a zip archive: missing, complete, or "empty": no path of a file
\* that is there, because nothing or only a part of the path was written.
RefStates == {"absent", "empty", "whole"}

NoFiles == [arci |-> Absent, arci_tmp |-> Absent, arcd |-> <<>>,
            ref |-> "absent", ref_tmp |-> "absent"]

-----------------------------------------------------------------------------
(* Boot.                                                                     *)

\* The format of the files, in the order of precedence.
Regular == 0
Zip == 1
NoArchive == -1

DetermineLUType(disk) ==
  IF disk.ref_tmp # "absent" THEN Zip
  ELSE IF disk.arci_tmp # Absent THEN Regular
  ELSE IF disk.ref # "absent" THEN Zip
  ELSE IF disk.arci # Absent THEN Regular
  ELSE NoArchive

LUCleanup_Regular(disk) ==
  [disk EXCEPT !.arci = Absent, !.arci_tmp = Absent, !.arcd = <<>>]

LUCleanup_Zip(disk) == [disk EXCEPT !.ref = "absent", !.ref_tmp = "absent"]

RenameTempZip(disk) ==
  IF disk.ref_tmp = "absent" THEN disk
  ELSE [disk EXCEPT !.ref = disk.ref_tmp, !.ref_tmp = "absent"]

\* mutant: the index is looked at before the temporary one replaces it.
LoadRegularIfWhole(disk) ==
  IF disk.arci.state # "whole"
  THEN [disk |-> LUCleanup_Regular(disk), type |-> NoArchive]
  ELSE [disk |-> LUCleanup_Zip(disk), type |-> Regular]

\* LULoadManifest for the .arci/.arcd format: without an index file nothing is
\* kept, with one the zip archive is dropped.
LoadRegular(disk) ==
  IF disk.arci = Absent
  THEN [disk |-> LUCleanup_Regular(disk), type |-> NoArchive]
  ELSE [disk |-> LUCleanup_Zip(disk), type |-> Regular]

\* LULoadManifest: the files it leaves and m_ArchiveType.  `usable` is whether
\* the zip file named by the reference is there and has a valid manifest.
LULoadManifest(disk, usable) ==
  CASE DetermineLUType(disk) = NoArchive -> [disk |-> disk, type |-> NoArchive]
    [] DetermineLUType(disk) = Regular -> LoadRegular(disk)
    [] DetermineLUType(disk) = Zip ->
         IF RenameTempZip(disk).ref = "whole" /\ usable
         THEN [disk |-> LUCleanup_Regular(RenameTempZip(disk)), type |-> Zip]
         ELSE LoadRegular(LUCleanup_Zip(RenameTempZip(disk)))

\* LULoadArchive_Regular: a temporary index replaces the index.
RenameTempIndex(disk) ==
  IF disk.arci_tmp = Absent THEN disk
  ELSE [disk EXCEPT !.arci = disk.arci_tmp, !.arci_tmp = Absent]

\* MountArchiveInternal: a file without bytes cannot be mapped, and
\* WrapArchiveBuffer refuses an index without the version number.  It looks at
\* nothing else: an index that is cut short behind it is mounted.
Mountable(disk) == disk.arci.state \in {"part", "whole"} /\ disk.arcd # <<>>

\* mutant: a failed mount leaves the files as they are.
LUCleanupArchiveNot(disk, type) == disk

LUCleanupArchive(disk, type) ==
  CASE type = NoArchive -> disk
    [] type = Regular -> LUCleanup_Regular(disk)
    [] type = Zip -> LUCleanup_Zip(disk)

=============================================================================
