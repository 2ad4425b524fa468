---------------------------- MODULE MCBackupWork ----------------------------
(* Instances of BackupWork for TLC.                                          *)
EXTENDS BackupWork
=============================================================================
