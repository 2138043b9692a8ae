----------------------------- MODULE MCDnsProxy -----------------------------
(* DnsProxy on small instances; all constants are numbers. *)
EXTENDS DnsProxy
=============================================================================
