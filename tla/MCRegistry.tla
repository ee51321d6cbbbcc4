------------------------------ MODULE MCRegistry ------------------------------
(***************************************************************************)
(* Three variants, two of them in one directory; a baseline that moves to  *)
(* another file, a file that goes, one that comes in the other directory.  *)
(***************************************************************************)
EXTENDS BaselineRegistry

CONSTANTS base, other

MCVariants == {1, 2, 3}
MCDirectoryOf == <<1, 1, 2>>
MCSnapshots == { <<base, None, None>>, <<other, base, None>>, <<None, base, other>> }
=============================================================================
