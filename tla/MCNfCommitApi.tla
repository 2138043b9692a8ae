--------------------------- MODULE MCNfCommitApi ----------------------------
(* Instances of NfCommitApi for TLC. *)
EXTENDS NfCommitApi
=============================================================================
