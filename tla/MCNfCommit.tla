----------------------------- MODULE MCNfCommit -----------------------------
(* Instances of NfCommit for TLC. *)
EXTENDS NfCommit
=============================================================================
