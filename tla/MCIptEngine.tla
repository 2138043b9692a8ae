---------------------------- MODULE MCIptEngine -----------------------------
\* The instance of IptEngine that TLC checks: a group routed to an interface,
\* one routed to the blackhole, and the port remap.
EXTENDS IptEngine

OwnerOrder == <<"MT_g1", "MT_b1", "MT_DNSOR">>

\* The firmware's own rules, one of its own chains included.
FirmwareRules ==
    [filter |-> [FORWARD |-> <<Rule("NDM", 0)>>, NDM |-> <<Rule("DROP", 0)>>],
     mangle |-> [PREROUTING |-> <<>>],
     nat |-> [PREROUTING |-> <<Rule("FW", 0)>>, POSTROUTING |-> <<Rule("FW", 0)>>]]

FirmwareOrder == <<"FORWARD", "PREROUTING", "POSTROUTING", "NDM">>

\* Nothing, all of an earlier run, and one killed after its first table.
KilledRuns == {{}, Places, {<<"filter", "MT_g1">>, <<"nat", "MT_DNSOR">>}}
=============================================================================
