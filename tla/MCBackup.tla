------------------------------- MODULE MCBackup -------------------------------
EXTENDS Backup

(* Two files: what is half written, half extracted or half removed shows.   *)
MCFile == {"level.dat", "region"}
=============================================================================
