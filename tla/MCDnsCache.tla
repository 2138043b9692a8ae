----------------------------- MODULE MCDnsCache -----------------------------
(* DnsCache with the values of DnsCache.cfg. *)
EXTENDS DnsCache, TLC

Symmetry == Permutations(Names)
=============================================================================
