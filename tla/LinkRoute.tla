----------------------------- MODULE LinkRoute ------------------------------
(***************************************************************************)
(* The policy routing of the groups (netfilter/ipset_to_link.c): a mark    *)
(* and a table allocated from what the kernel holds, a rule, a blackhole   *)
(* route and a default route through the group's interface, and the        *)
(* watcher's events that bring the last one back (netlink/watcher.c,       *)
(* on_link_up and on_addr_change of main.c).  The interface, the kernel's  *)
(* tables and the event socket are the environment; events wait in the     *)
(* socket while the loop thread is busy.  One address family stands for    *)
(* both; the chains of a group are in NfCommit.                            *)
(***************************************************************************)
EXTENDS Integers, Sequences, FiniteSets, Functions

CONSTANTS Groups,
          Foreign,      \* indexes that others use for a rule or a table
          MaxIndex,     \* bound: marks and tables, from start_idx = 1
          Gateways,     \* gateways the interface may have; none: point to point
          NoGw,
          MaxLinks,     \* bound: interface indexes handed out
          MaxEvents,    \* bound: events waiting in the socket
          MaxFaults,    \* bound: refused netlink requests
          MaxCrashes    \* bound: times the daemon is killed

ASSUME LinkAssumption ==
    /\ IsFiniteSet(Groups)
    /\ MaxIndex \in Nat /\ Foreign \subseteq 1 .. MaxIndex
    /\ NoGw \notin Gateways
    /\ MaxLinks \in Nat /\ MaxEvents \in Nat /\ MaxFaults \in Nat /\ MaxCrashes \in Nat

Indexes == 1 .. MaxIndex
Gws == Gateways \cup {NoGw}

\* The route through the interface: its index and gateway; index 0, no route.
Routes == [oif : 0 .. MaxLinks, gw : Gws]
NoRoute == [oif |-> 0, gw |-> NoGw]

\* What the kernel holds under one index.
Tables == [rule : BOOLEAN, blackhole : BOOLEAN, route : Routes]
EmptyTable == [rule |-> FALSE, blackhole |-> FALSE, route |-> NoRoute]

\* family_state_t: what the group believes to have installed.
FamilyStates == [rule_added : BOOLEAN, blackhole_added : BOOLEAN,
                 iface_route_present : BOOLEAN, gw : Gws]
NothingAdded == [rule_added |-> FALSE, blackhole_added |-> FALSE,
                 iface_route_present |-> FALSE, gw |-> NoGw]

VARIABLES ifindex, up, gateway,       \* the interface; ifindex 0: it does not exist
          links,                      \* interface indexes handed out
          tab,                        \* the kernel's rules and tables
          enabled, mark, fs,          \* the groups
          events,                     \* the watcher's socket
          orphans,                    \* indexes in use when the daemon was killed,
                                      \* or kept by a delete that was refused
          faults, crashes

linkVars == <<ifindex, up, gateway, links>>
groupVars == <<enabled, mark, fs>>
vars == <<linkVars, tab, groupVars, events, orphans, faults, crashes>>

TypeOK ==
    /\ ifindex \in 0 .. MaxLinks /\ up \in BOOLEAN /\ gateway \in Gws
    /\ links \in 0 .. MaxLinks
    /\ tab \in [Indexes -> Tables]
    /\ enabled \in [Groups -> BOOLEAN] /\ mark \in [Groups -> Indexes \cup {0}]
    /\ fs \in [Groups -> FamilyStates]
    /\ events \in Seq({"link_up", "link_down", "addr"}) /\ Len(events) <= MaxEvents
    /\ orphans \subseteq Indexes
    /\ faults \in 0 .. MaxFaults /\ crashes \in 0 .. MaxCrashes

Init ==
    /\ ifindex = 0 /\ up = FALSE /\ gateway = NoGw /\ links = 0
    /\ tab = [i \in Indexes |-> EmptyTable]
    /\ enabled = [g \in Groups |-> FALSE]
    /\ mark = [g \in Groups |-> 0]
    /\ fs = [g \in Groups |-> NothingAdded]
    /\ events = <<>> /\ orphans = {} /\ faults = 0 /\ crashes = 0

-----------------------------------------------------------------------------
\* Requests on one group's table.  A state of the computation holds the table,
\* what the group believes, whether an error was returned, whether a delete of
\* the teardown was refused, and the number of refused requests.  A refused
\* request of the other family, met first, looks like one of this family.

\* mt_rtnl_route_del_iface: a gateway in the request must be the route's.
RouteDel(s, oif) ==
    LET same == /\ oif \in {0, s.t.route.oif}
                /\ s.f.gw \in {NoGw, s.t.route.gw}
    IN  [s EXCEPT !.t.route = IF same THEN NoRoute ELSE @,
                  !.f.iface_route_present = FALSE]

\* mt_rtnl_route_add_iface: an existing route of the same priority is left as
\* it is and counts as success; a link that is down refuses.
RouteAdd(s, gw) ==
    [s EXCEPT !.t.route = IF @ = NoRoute THEN [oif |-> ifindex, gw |-> gw] ELSE @,
              !.f.iface_route_present = TRUE,
              !.f.gw = gw]

\* mt_rtnl_gateway_for_iface takes the first gateway through the interface in
\* a dump of every table, those of the groups included; the order of the
\* tables is the kernel's.
GatewayForIface ==
    LET found == {gateway} \cup {tab[i].route.gw : i \in {j \in Indexes : tab[j].route.oif = ifindex}}
    IN  IF found = {NoGw} THEN found ELSE found \ {NoGw}

\* update_iface_route for the gateway found.  ENODEV, from a device that has
\* no route because it takes none yet, skips the route.
SetIfaceRoute(s, gw) ==
    LET del == s.f.iface_route_present /\ gw # NoGw
        ready == IF del THEN RouteDel(s, ifindex) ELSE s
    IN  IF s.f.iface_route_present /\ s.f.gw = gw
          THEN {s}
          ELSE {IF up THEN RouteAdd(ready, gw) ELSE [ready EXCEPT !.err = TRUE],
                [ready EXCEPT !.err = TRUE, !.cost = @ + 1]}
               \cup {[ready EXCEPT !.f.iface_route_present = FALSE, !.cost = @ + 1] :
                       x \in {y \in {0} : ready.t.route = NoRoute}}

\* update_iface_route: a failed lookup counts as no gateway.  The first error
\* is a refused lookup of the link or a refused delete: nothing has changed.
UpdateIfaceRoute(s) ==
    {[s EXCEPT !.err = TRUE, !.cost = @ + 1]}
      \cup SetIfaceRoute([s EXCEPT !.cost = @ + 1], NoGw)
      \cup UNION {SetIfaceRoute(s, gw) : gw \in GatewayForIface}

AddBlackhole(s) ==
    {[s EXCEPT !.t.blackhole = TRUE, !.f.blackhole_added = TRUE],
     [s EXCEPT !.err = TRUE, !.cost = @ + 1]}

\* The blackhole only while there is no interface to route through.
InsertIpRouteEither(s) == IF up THEN UpdateIfaceRoute(s) ELSE AddBlackhole(s)

\* insert_ip_route: stops at the first error and at a link that is not up.
InsertIpRoute(s) ==
    UNION {IF b.err THEN {b}
           ELSE IF up THEN UpdateIfaceRoute(b)
           ELSE {b, [b EXCEPT !.err = TRUE, !.cost = @ + 1]} : b \in AddBlackhole(s)}

\* insert_ip_rule: a rule of the same mark is deleted first.
InsertIpRule(s) ==
    {[s EXCEPT !.t.rule = TRUE, !.f.rule_added = TRUE],
     [s EXCEPT !.t.rule = FALSE, !.err = TRUE, !.cost = @ + 1]}

\* teardown: delete_ip_route and delete_ip_rule go by what the group believes,
\* go on after an error and forget what they could not delete (kept).
Teardown(s) ==
    LET left == [rule |-> s.t.rule /\ ~s.f.rule_added,
                 blackhole |-> s.t.blackhole /\ ~s.f.blackhole_added,
                 route |-> IF s.f.iface_route_present THEN RouteDel(s, ifindex).t.route
                                                      ELSE s.t.route]
    IN  {[s EXCEPT !.t = [k \in DOMAIN left |-> IF k \in kept THEN s.t[k] ELSE left[k]],
                   !.f = NothingAdded,
                   !.stuck = \E k \in kept : s.t[k] # left[k],
                   !.cost = @ + Cardinality(kept)] : kept \in SUBSET DOMAIN left}

\* No teardown after an error.
EnableOutcomesNoRollback(s) ==
    UNION {IF a.err THEN {a} ELSE InsertIpRoute(a) : a \in InsertIpRule(s)}

\* mt_ipset_to_link_enable after the allocation; the iptables rules come last
\* and may fail too.
EnableOutcomes(s) ==
    LET steps == UNION {IF a.err THEN {a} ELSE InsertIpRoute(a) : a \in InsertIpRule(s)}
        last == steps \cup {[b EXCEPT !.err = TRUE, !.cost = @ + 1] : b \in {c \in steps : ~c.err}}
    IN  UNION {IF b.err THEN Teardown(b) ELSE {b} : b \in last}

Start(t, f) == [t |-> t, f |-> f, err |-> FALSE, stuck |-> FALSE, cost |-> 0]
Pay(s) == faults + s.cost <= MaxFaults /\ faults' = faults + s.cost

-----------------------------------------------------------------------------
\* The daemon.

\* The indexes the daemon remembers, not those the kernel holds.
InUseRemembered == Foreign \cup {mark[g] : g \in {x \in Groups : enabled[x]}}

\* mt_rtnl_alloc_mark_table: the first index that no rule and no table uses.
InUse == Foreign \cup {i \in Indexes : tab[i] # EmptyTable}
AllocMarkTable == CHOOSE i \in Indexes \ InUse : \A j \in Indexes \ InUse : i <= j

Kept(s, i) == IF s.stuck THEN {i} ELSE {}

Enable(g) ==
    /\ ~enabled[g]
    /\ Indexes \ InUse # {}
    /\ LET i == AllocMarkTable
       IN  \E s \in EnableOutcomes(Start(tab[i], NothingAdded)) :
              /\ Pay(s)
              /\ tab' = [tab EXCEPT ![i] = s.t]
              /\ enabled' = [enabled EXCEPT ![g] = ~s.err]
              /\ mark' = [mark EXCEPT ![g] = IF s.err THEN 0 ELSE i]
              /\ fs' = [fs EXCEPT ![g] = s.f]
              /\ orphans' = orphans \cup Kept(s, i)
    /\ UNCHANGED <<linkVars, events, crashes>>

Disable(g) ==
    /\ enabled[g]
    /\ \E s \in Teardown(Start(tab[mark[g]], fs[g])) :
          /\ Pay(s)
          /\ tab' = [tab EXCEPT ![mark[g]] = s.t]
          /\ fs' = [fs EXCEPT ![g] = s.f]
          /\ orphans' = orphans \cup Kept(s, mark[g])
    /\ enabled' = [enabled EXCEPT ![g] = FALSE]
    /\ mark' = [mark EXCEPT ![g] = 0]
    /\ UNCHANGED <<linkVars, events, crashes>>

\* The handlers of one event for every group on the interface; each group's
\* error is logged and the next one goes on.
Handle(event) ==
    LET out == [g \in Groups |->
                  IF ~enabled[g] THEN {Start(EmptyTable, NothingAdded)}
                  ELSE IF event = "link_up" THEN InsertIpRoute(Start(tab[mark[g]], fs[g]))
                  ELSE UpdateIfaceRoute(Start(tab[mark[g]], fs[g]))]
        Payable == {s \in UNION {out[g] : g \in Groups} : faults + s.cost <= MaxFaults}
    IN  \E r \in [Groups -> Payable] :
          /\ \A g \in Groups : r[g] \in out[g]
          /\ LET paid == SumFunction([g \in Groups |-> r[g].cost])
             IN  faults + paid <= MaxFaults /\ faults' = faults + paid
          /\ fs' = [g \in Groups |-> r[g].f]
          /\ tab' = [i \in Indexes |->
                       IF \E g \in Groups : enabled[g] /\ mark[g] = i
                         THEN r[CHOOSE g \in Groups : enabled[g] /\ mark[g] = i].t ELSE tab[i]]

\* Link events are not dispatched.
OnReadableAddrOnly ==
    /\ events # <<>>
    /\ events' = Tail(events)
    /\ \/ Head(events) = "addr" /\ ifindex # 0 /\ Handle("addr")
       \/ Head(events) # "addr" /\ UNCHANGED <<tab, fs, faults>>
    /\ UNCHANGED <<linkVars, enabled, mark, orphans, crashes>>

OnReadable ==
    /\ events # <<>>
    /\ events' = Tail(events)
    /\ \/ Head(events) = "link_up" /\ Handle("link_up")
       \/ Head(events) = "addr" /\ ifindex # 0 /\ Handle("addr")
       \/ /\ Head(events) = "link_down" \/ (Head(events) = "addr" /\ ifindex = 0)
          /\ UNCHANGED <<tab, fs, faults>>
    /\ UNCHANGED <<linkVars, enabled, mark, orphans, crashes>>

\* Killed without a chance to clean up, and started again.
Crash ==
    /\ crashes < MaxCrashes
    /\ crashes' = crashes + 1
    /\ orphans' = orphans \cup {mark[g] : g \in {x \in Groups : enabled[x]}}
    /\ enabled' = [g \in Groups |-> FALSE]
    /\ mark' = [g \in Groups |-> 0]
    /\ fs' = [g \in Groups |-> NothingAdded]
    /\ events' = <<>>
    /\ UNCHANGED <<linkVars, tab, faults>>

-----------------------------------------------------------------------------
\* The interface.

Notify(e) == Len(events) < MaxEvents /\ events' = Append(events, e)

LinkUp ==
    /\ ~up
    /\ IF ifindex = 0 THEN links < MaxLinks /\ links' = links + 1 /\ ifindex' = links + 1
                      ELSE UNCHANGED <<links, ifindex>>
    /\ up' = TRUE
    /\ Notify("link_up")
    /\ UNCHANGED <<gateway, tab, groupVars, orphans, faults, crashes>>

\* The kernel drops every route through a link that goes down or away.
LinkDown ==
    /\ up
    /\ up' = FALSE /\ gateway' = NoGw
    /\ ifindex' \in {0, ifindex}
    /\ tab' = [i \in Indexes |-> [tab[i] EXCEPT !.route = NoRoute]]
    /\ orphans' = {i \in orphans : tab'[i] # EmptyTable}
    /\ Notify("link_down")
    /\ UNCHANGED <<links, groupVars, faults, crashes>>

\* An address comes with a gateway, in the main table.
NewAddress ==
    /\ up
    /\ gateway' \in Gws \ {gateway}
    /\ Notify("addr")
    /\ UNCHANGED <<ifindex, up, links, tab, groupVars, orphans, faults, crashes>>

Next ==
    \/ \E g \in Groups : Enable(g) \/ Disable(g)
    \/ OnReadable
    \/ Crash
    \/ LinkUp \/ LinkDown \/ NewAddress

Spec == Init /\ [][Next]_vars

-----------------------------------------------------------------------------
\* Properties.

\* Two groups never share a mark, nor does a group use an index of somebody
\* else, of a killed run or with remains of a refused delete: the allocator
\* sees what is in use.
MarksDistinct ==
    /\ \A g \in Groups : enabled[g] => mark[g] \in Indexes \ (Foreign \cup orphans)
    /\ \A g, h \in Groups : g # h /\ enabled[g] /\ enabled[h] => mark[g] # mark[h]

\* While a group is enabled its mark leads to a table that ends in the
\* blackhole, whatever the interface does: marked traffic never falls through
\* to the main table.
NeverFallsThrough ==
    \A g \in Groups : enabled[g] => tab[mark[g]].rule /\ tab[mark[g]].blackhole

\* A group that is disabled, or failed to be enabled halfway, leaves no rule
\* and no route behind, also when gateways changed and links went away since,
\* except where the daemon was killed or the kernel refused a delete.
NothingLeftBehind ==
    \A i \in Indexes :
        tab[i] # EmptyTable => i \in orphans \/ \E g \in Groups : enabled[g] /\ mark[g] = i

\* With the events drained and the link up, every enabled group believes its
\* route to be installed (unless a request was refused).
LinkUpSeen ==
    events = <<>> /\ up /\ faults = 0 =>
        \A g \in Groups : enabled[g] => fs[g].iface_route_present

-----------------------------------------------------------------------------
\* What the documents say.

\* "on link-up or new-address of a group's route interface, re-program ip
\* rule/route for that group" (docs/c-rewrite/compatibility-contract.md,
\* section 9): with the events drained and the link up, the route is there.
RouteRestored ==
    events = <<>> /\ up /\ faults = 0 =>
        \A g \in Groups : enabled[g] => tab[mark[g]].route # NoRoute
=============================================================================
