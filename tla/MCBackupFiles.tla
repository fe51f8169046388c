---------------------------- MODULE MCBackupFiles ----------------------------
(* BackupFiles on small sets.  Tools and backup files are interchangeable. *)
EXTENDS BackupFiles, TLC

FilesSymmetry == Permutations(Tools) \cup Permutations(Names)
=============================================================================
