------------------------------ MODULE MCFiles -------------------------------
(***************************************************************************)
(* Instances of the three models of files, of which a behaviour is about   *)
(* one: "table", the descriptors of two processes; "sectors", the names,   *)
(* inodes and sectors of the disk; "bytes", reads and writes of one file.  *)
(***************************************************************************)
EXTENDS FileTable, FileSys, FileData, TLC

CONSTANTS p, q, i1, a, b, c, x1, x2

MCName == {a, b, c}
Symmetry == Permutations(MCName)

VARIABLE unit

FilesInit ==
  /\ unit \in {"table", "sectors", "bytes"}
  /\ FTInit /\ FSInit /\ FileDataInit

FilesNext ==
  /\ UNCHANGED unit
  /\ \/ unit = "table" /\ FTNext /\ UNCHANGED <<fsvars, fdvars>>
     \/ unit = "sectors" /\ FSNext /\ UNCHANGED <<ftvars, fdvars>>
     \/ unit = "bytes" /\ FileDataNext /\ UNCHANGED <<ftvars, fsvars>>

FilesSpec == FilesInit /\ [][FilesNext]_<<unit, ftvars, fsvars, fdvars>>
=============================================================================
