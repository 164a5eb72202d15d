------------------------------ MODULE MCBackup ------------------------------
(* MCBackup: two rounds, one snapshot and two losses, so that a snapshot and  *)
(* a rehearsal of it may lie anywhere in the run and a restored run be lost    *)
(* again.  MCBackupGap: one loss, and a second snapshot taken beside a close.   *)
EXTENDS Backup
=============================================================================
