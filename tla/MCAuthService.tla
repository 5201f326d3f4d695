---------------------------- MODULE MCAuthService ---------------------------
(* Small instances of AuthService for TLC.                                 *)
EXTENDS AuthService, TLC

Slots == Permutations(Proc)
SlotsAndNicks == Permutations(Proc) \cup Permutations(Nick)
=============================================================================
