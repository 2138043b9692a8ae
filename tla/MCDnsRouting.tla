---------------------------- MODULE MCDnsRouting ----------------------------
(* DnsRouting with small zones. *)
EXTENDS DnsRouting

CONSTANTS x, y, h, a, b, net

\* x is an alias of y or of h, y of h; h has the addresses.
MCARecords == {<<h, a>>, <<h, b>>}
MCCnameRecords == {<<x, y>>, <<y, h>>, <<x, h>>, <<x, x>>}
MCRuleSets == {{x}, {y}, {h, net}, {x, a}}
=============================================================================
