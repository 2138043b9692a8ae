--------------------------- MODULE LinkRouteProofs --------------------------
(***************************************************************************)
(* Proofs about LinkRoute, for any groups, indexes, gateways, number of    *)
(* refused requests and of kills.  The argument: what a group believes to  *)
(* have installed covers what is in its table (Honest), so that a teardown *)
(* that the kernel does not refuse empties the table; and every index with *)
(* content belongs to one group or to nobody any more (an orphan), which   *)
(* the allocator sees and avoids.                                          *)
(***************************************************************************)
EXTENDS LinkRoute, FiniteSetTheorems, TLAPS

\* A set of natural numbers that is not empty has a least element.
LEMMA LeastNat ==
    ASSUME NEW S \in SUBSET Nat, S # {}
    PROVE  \E m \in S : \A k \in S : m <= k
<1>1. PICK m \in S : \A k \in S : <<k, m>> \notin OpToRel(<, Nat)
  BY Zenon, NatLessThanWellFounded, WFMin
<1>2. \A k \in S : ~(k < m)
  BY <1>1, Zenon DEF OpToRel
<1> QED
  BY <1>2

\* A set with 0 and with the successor of each of its numbers holds them all.
LEMMA NatSetInduction ==
    ASSUME NEW S, 0 \in S, \A n \in Nat : n \in S => n + 1 \in S
    PROVE  \A n \in Nat : n \in S
<1> DEFINE B == Nat \ S
<1>1. CASE B # {}
  <2>1. PICK m \in B : \A k \in B : m <= k
    BY <1>1, LeastNat, Zenon
  <2>2. m - 1 \in Nat /\ m - 1 \in S
    BY <2>1
  <2> QED
    BY <2>1, <2>2
<1> QED
  BY <1>1

-----------------------------------------------------------------------------

Computations == [t : Tables, f : FamilyStates, err : BOOLEAN, stuck : BOOLEAN, cost : Nat]

\* A group's memory covers its table; a route is through the present link,
\* which is up.
Honest(t, f) ==
    /\ t.rule => f.rule_added
    /\ t.blackhole => f.blackhole_added
    /\ t.route # NoRoute => /\ f.iface_route_present
                            /\ up /\ t.route.oif = ifindex
                            /\ f.gw \in {NoGw, t.route.gw}

Good(s) == s \in Computations /\ Honest(s.t, s.f)

\* The computation goes on from s to o without losing the rule or blackhole.
Keeps(s, o) ==
    /\ o.t.rule = s.t.rule
    /\ s.t.blackhole => o.t.blackhole
    /\ o.stuck = s.stuck

-----------------------------------------------------------------------------
\* Requests on one table.

\* A refused request changes only the error and the number of refusals.
LEMMA RefusedGood ==
    ASSUME NEW s, Good(s), NEW o,
           \/ o = [s EXCEPT !.err = TRUE]
           \/ o = [s EXCEPT !.err = TRUE, !.cost = @ + 1]
           \/ o = [s EXCEPT !.cost = @ + 1]
    PROVE  Good(o) /\ Keeps(s, o) /\ o.t = s.t /\ o.f = s.f
<1>1. s \in Computations /\ s.cost + 1 \in Nat
  BY DEF Good, Computations
<1>2. TRUE \in BOOLEAN
  OBVIOUS
<1>3. CASE o = [s EXCEPT !.err = TRUE]
  <2>1. o \in Computations /\ o.t = s.t /\ o.f = s.f /\ o.stuck = s.stuck
    BY ZenonT(30), <1>1, <1>2, <1>3 DEF Computations
  <2> QED
    BY <2>1 DEF Good, Keeps
<1>4. CASE o = [s EXCEPT !.cost = @ + 1]
  <2>1. o \in Computations /\ o.t = s.t /\ o.f = s.f /\ o.stuck = s.stuck
    BY <1>1, <1>4 DEF Computations
  <2> QED
    BY <2>1 DEF Good, Keeps
<1>5. CASE o = [s EXCEPT !.err = TRUE, !.cost = @ + 1]
  <2>1. o \in Computations
    BY ZenonT(30), <1>1, <1>2, <1>5 DEF Computations
  <2>2. o.t = s.t /\ o.f = s.f /\ o.stuck = s.stuck
    BY <1>1, <1>5 DEF Computations
  <2> QED
    BY <2>1, <2>2 DEF Good, Keeps
<1> QED
  BY <1>3, <1>4, <1>5

\* Deleting the interface route of an honest table leaves no route.
LEMMA RouteDelGood ==
    ASSUME NEW s, Good(s)
    PROVE  LET o == RouteDel(s, ifindex)
           IN  /\ Good(o) /\ Keeps(s, o) /\ o.t.route = NoRoute /\ o.err = s.err
               /\ o.f.iface_route_present = FALSE /\ o.f.gw = s.f.gw
<1> DEFINE o == RouteDel(s, ifindex)
<1>1. s \in Computations /\ s.t \in Tables /\ s.f \in FamilyStates
  BY DEF Good, Computations
<1>2. s.t.route # NoRoute => ifindex = s.t.route.oif /\ s.f.gw \in {NoGw, s.t.route.gw}
  BY DEF Good, Honest
<1>3. o = [s EXCEPT !.t.route = NoRoute, !.f.iface_route_present = FALSE]
  <2> DEFINE same == ifindex \in {0, s.t.route.oif} /\ s.f.gw \in {NoGw, s.t.route.gw}
             rt == IF same THEN NoRoute ELSE s.t.route
  <2>1. rt = NoRoute
    BY <1>2
  <2>2. o = [s EXCEPT !.t.route = rt, !.f.iface_route_present = FALSE]
    BY DEF RouteDel
  <2> HIDE DEF rt, o
  <2> QED
    BY <2>1, <2>2
<1>4. NoRoute \in Routes
  BY LinkAssumption DEF NoRoute, Routes, Gws
<1> HIDE DEF o
<1>5. o \in Computations
  BY ZenonT(30), <1>1, <1>3, <1>4 DEF Computations, Tables, FamilyStates
<1>6. /\ o.t.route = NoRoute /\ o.t.rule = s.t.rule /\ o.t.blackhole = s.t.blackhole
      /\ o.f.iface_route_present = FALSE /\ o.f.gw = s.f.gw
      /\ o.f.rule_added = s.f.rule_added /\ o.f.blackhole_added = s.f.blackhole_added
      /\ o.err = s.err /\ o.stuck = s.stuck
  BY <1>1, <1>3 DEF Computations, Tables, FamilyStates
<1> QED
  BY <1>5, <1>6 DEF Good, Honest, Keeps, o

\* Adding it where there is none, or without a gateway, keeps the memory honest.
LEMMA RouteAddGood ==
    ASSUME NEW s, Good(s), NEW gw \in Gws, s.t.route = NoRoute \/ gw = NoGw,
           ifindex \in 0 .. MaxLinks, up
    PROVE  Good(RouteAdd(s, gw)) /\ Keeps(s, RouteAdd(s, gw))
<1> DEFINE o == RouteAdd(s, gw)
           rt == IF s.t.route = NoRoute THEN [oif |-> ifindex, gw |-> gw] ELSE s.t.route
<1>1. s \in Computations /\ s.t \in Tables /\ s.f \in FamilyStates
  BY DEF Good, Computations
<1>2. rt \in Routes /\ (rt # NoRoute => rt.oif = ifindex /\ gw \in {NoGw, rt.gw})
  BY <1>1 DEF Good, Honest, Routes, Tables
<1>3. o = [s EXCEPT !.t.route = rt, !.f.iface_route_present = TRUE, !.f.gw = gw]
  BY <1>1 DEF RouteAdd, Computations, Tables
<1> HIDE DEF rt, o
<1>5. o \in Computations
  BY ZenonT(30), <1>1, <1>2, <1>3 DEF Computations, Tables, FamilyStates
<1>6. /\ o.t.route = rt /\ o.t.rule = s.t.rule /\ o.t.blackhole = s.t.blackhole
      /\ o.f.iface_route_present = TRUE /\ o.f.gw = gw
      /\ o.f.rule_added = s.f.rule_added /\ o.f.blackhole_added = s.f.blackhole_added
      /\ o.err = s.err /\ o.stuck = s.stuck
  BY ZenonT(30), <1>1, <1>3 DEF Computations, Tables, FamilyStates
<1> QED
  BY <1>2, <1>5, <1>6 DEF Good, Honest, Keeps, o

\* update_iface_route, with any gateway the lookup may have found.
LEMMA SetIfaceRouteGood ==
    ASSUME NEW s, Good(s), NEW gw \in Gws, ifindex \in 0 .. MaxLinks, NEW o \in SetIfaceRoute(s, gw)
    PROVE  Good(o) /\ Keeps(s, o)
<1> DEFINE ready == IF s.f.iface_route_present /\ gw # NoGw THEN RouteDel(s, ifindex) ELSE s
<1>1. Good(s) /\ Keeps(s, s)
  BY DEF Keeps
<1>2. CASE s.f.iface_route_present /\ s.f.gw = gw
  BY <1>1, <1>2 DEF SetIfaceRoute
<1>3. CASE ~(s.f.iface_route_present /\ s.f.gw = gw)
  <2>1. Good(ready) /\ Keeps(s, ready)
    BY ZenonT(30), <1>1, RouteDelGood
  <2>2. ready.t.route = NoRoute \/ gw = NoGw
    <3>1. CASE s.f.iface_route_present /\ gw # NoGw
      BY ZenonT(30), <3>1, RouteDelGood
    <3>2. CASE ~s.f.iface_route_present
      BY <3>2 DEF Good, Honest
    <3> QED
      BY <3>1, <3>2
  <2>3. \/ up /\ o = RouteAdd(ready, gw)
        \/ o = [ready EXCEPT !.err = TRUE]
        \/ o = [ready EXCEPT !.err = TRUE, !.cost = @ + 1]
        \/ /\ o = [ready EXCEPT !.f.iface_route_present = FALSE, !.cost = @ + 1]
           /\ ready.t.route = NoRoute
    BY <1>3 DEF SetIfaceRoute
  <2> HIDE DEF ready
  <2>4. ready \in Computations /\ ready.t \in Tables /\ ready.f \in FamilyStates
    BY <2>1 DEF Good, Computations
  <2>5. CASE up /\ o = RouteAdd(ready, gw)
    BY <2>1, <2>2, <2>5, RouteAddGood DEF Keeps
  <2>6. CASE o = [ready EXCEPT !.err = TRUE] \/ o = [ready EXCEPT !.err = TRUE, !.cost = @ + 1]
    BY ZenonT(30), <2>1, <2>6, RefusedGood DEF Keeps
  <2>7. CASE /\ o = [ready EXCEPT !.f.iface_route_present = FALSE, !.cost = @ + 1]
             /\ ready.t.route = NoRoute
    <3>0. ready.cost + 1 \in Nat /\ FALSE \in BOOLEAN
      BY <2>4 DEF Computations
    <3>1. o \in Computations
      BY ZenonT(30), <2>4, <2>7, <3>0 DEF Computations, FamilyStates
    <3>2. /\ o.t = ready.t /\ o.stuck = ready.stuck
          /\ o.f.rule_added = ready.f.rule_added
          /\ o.f.blackhole_added = ready.f.blackhole_added
      BY <2>4, <2>7 DEF Computations, FamilyStates
    <3> QED
      BY <2>1, <2>7, <3>1, <3>2 DEF Good, Honest, Keeps
  <2> QED
    BY <2>3, <2>5, <2>6, <2>7
<1> QED
  BY <1>2, <1>3

\* Every outcome of update_iface_route.
LEMMA UpdateIfaceRouteGood ==
    ASSUME NEW s, Good(s), GatewayForIface \subseteq Gws, ifindex \in 0 .. MaxLinks,
           NEW o \in UpdateIfaceRoute(s)
    PROVE  Good(o) /\ Keeps(s, o)
<1>2. CASE o = [s EXCEPT !.err = TRUE, !.cost = @ + 1]
  BY ZenonT(30), <1>2, RefusedGood
<1>3. CASE o \in SetIfaceRoute([s EXCEPT !.cost = @ + 1], NoGw)
  <2> DEFINE p == [s EXCEPT !.cost = @ + 1]
  <2>1. Good(p) /\ Keeps(s, p)
    BY ZenonT(30), RefusedGood
  <2>2. NoGw \in Gws
    BY DEF Gws
  <2> HIDE DEF p
  <2>3. Good(o) /\ Keeps(p, o)
    BY <1>3, <2>1, <2>2, SetIfaceRouteGood DEF p
  <2> QED
    BY SMTT(30), <2>1, <2>3 DEF Keeps
<1>4. CASE \E gw \in GatewayForIface : o \in SetIfaceRoute(s, gw)
  BY <1>4, SetIfaceRouteGood
<1> QED
  BY <1>2, <1>3, <1>4 DEF UpdateIfaceRoute

\* The blackhole is in place unless its request was refused.
LEMMA AddBlackholeGood ==
    ASSUME NEW s, Good(s), NEW o \in AddBlackhole(s)
    PROVE  Good(o) /\ Keeps(s, o) /\ (o.err \/ o.t.blackhole)
<1>1. s \in Computations /\ s.t \in Tables /\ s.f \in FamilyStates
  BY DEF Good, Computations
<1>2. CASE o = [s EXCEPT !.t.blackhole = TRUE, !.f.blackhole_added = TRUE]
  <2>1. o \in Computations
    BY ZenonT(30), <1>1, <1>2 DEF Computations, Tables, FamilyStates
  <2>2. /\ o.t.rule = s.t.rule /\ o.t.blackhole = TRUE /\ o.t.route = s.t.route
        /\ o.f.rule_added = s.f.rule_added /\ o.f.blackhole_added = TRUE
        /\ o.f.iface_route_present = s.f.iface_route_present /\ o.f.gw = s.f.gw
        /\ o.stuck = s.stuck
    BY <1>1, <1>2 DEF Computations, Tables, FamilyStates
  <2> QED
    BY <2>1, <2>2 DEF Good, Honest, Keeps
<1>3. CASE o = [s EXCEPT !.err = TRUE, !.cost = @ + 1]
  <2>1. o.err
    BY <1>1, <1>3 DEF Computations
  <2> QED
    BY ZenonT(30), <1>3, <2>1, RefusedGood
<1> QED
  BY <1>2, <1>3 DEF AddBlackhole

\* insert_ip_route without an error has put the blackhole in place.
LEMMA InsertIpRouteGood ==
    ASSUME NEW s, Good(s), GatewayForIface \subseteq Gws, ifindex \in 0 .. MaxLinks,
           NEW o \in InsertIpRoute(s)
    PROVE  Good(o) /\ Keeps(s, o) /\ (o.err \/ o.t.blackhole)
<1>1. PICK b \in AddBlackhole(s) :
         \/ b.err /\ o = b
         \/ ~b.err /\ o \in UpdateIfaceRoute(b)
         \/ ~b.err /\ (o = b \/ o = [b EXCEPT !.err = TRUE, !.cost = @ + 1])
  BY ZenonT(30) DEF InsertIpRoute
<1>2. Good(b) /\ Keeps(s, b) /\ (b.err \/ b.t.blackhole)
  BY AddBlackholeGood
<1>3. CASE o = b
  BY <1>2, <1>3
<1>4. CASE ~b.err /\ o \in UpdateIfaceRoute(b)
  <2>1. Good(o) /\ Keeps(b, o)
    BY <1>2, <1>4, UpdateIfaceRouteGood
  <2> QED
    BY <1>2, <1>4, <2>1 DEF Keeps
<1>5. CASE ~b.err /\ o = [b EXCEPT !.err = TRUE, !.cost = @ + 1]
  <2>1. Good(o) /\ Keeps(b, o)
    BY ZenonT(30), <1>2, <1>5, RefusedGood
  <2> QED
    BY SMTT(30), <1>2, <1>5, <2>1 DEF Keeps
<1> QED
  BY SMTT(30), <1>1, <1>3, <1>4, <1>5

\* insert_ip_rule without an error has put the rule in place.
LEMMA InsertIpRuleGood ==
    ASSUME NEW s, Good(s), NEW o \in InsertIpRule(s)
    PROVE  Good(o) /\ o.stuck = s.stuck /\ (o.err \/ o.t.rule)
<1>1. s \in Computations /\ s.t \in Tables /\ s.f \in FamilyStates
  BY DEF Good, Computations
<1>2. CASE o = [s EXCEPT !.t.rule = TRUE, !.f.rule_added = TRUE]
  <2>1. o \in Computations
    BY ZenonT(30), <1>1, <1>2 DEF Computations, Tables, FamilyStates
  <2>2. /\ o.t.rule = TRUE /\ o.t.blackhole = s.t.blackhole /\ o.t.route = s.t.route
        /\ o.f.rule_added = TRUE /\ o.f.blackhole_added = s.f.blackhole_added
        /\ o.f.iface_route_present = s.f.iface_route_present /\ o.f.gw = s.f.gw
        /\ o.stuck = s.stuck
    BY <1>1, <1>2 DEF Computations, Tables, FamilyStates
  <2> QED
    BY <2>1, <2>2 DEF Good, Honest
<1>3. CASE o = [s EXCEPT !.t.rule = FALSE, !.err = TRUE, !.cost = @ + 1]
  <2>0. s.cost + 1 \in Nat /\ FALSE \in BOOLEAN /\ TRUE \in BOOLEAN
    BY <1>1 DEF Computations
  <2>1. o \in Computations
    BY ZenonT(30), <1>1, <1>3, <2>0 DEF Computations, Tables
  <2>2. /\ o.t.rule = FALSE /\ o.t.blackhole = s.t.blackhole /\ o.t.route = s.t.route
        /\ o.f = s.f /\ o.stuck = s.stuck /\ o.err
    BY <1>1, <1>3 DEF Computations, Tables
  <2> QED
    BY <2>1, <2>2 DEF Good, Honest
<1> QED
  BY <1>2, <1>3 DEF InsertIpRule

\* A teardown goes by the group's memory: of an honest table nothing is left
\* but what the kernel refused to delete.
LEMMA TeardownGood ==
    ASSUME NEW s, Good(s), NEW o \in Teardown(s)
    PROVE  /\ o.t \in Tables /\ o.f = NothingAdded /\ o.err = s.err
           /\ o.stuck <=> o.t # EmptyTable
<1> DEFINE left == [rule |-> s.t.rule /\ ~s.f.rule_added,
                    blackhole |-> s.t.blackhole /\ ~s.f.blackhole_added,
                    route |-> IF s.f.iface_route_present THEN RouteDel(s, ifindex).t.route
                                                         ELSE s.t.route]
<1>1. s \in Computations /\ s.t \in Tables /\ s.f \in FamilyStates
  BY DEF Good, Computations
<1>2. left = EmptyTable
  <2>1. (s.t.rule /\ ~s.f.rule_added) = FALSE /\ (s.t.blackhole /\ ~s.f.blackhole_added) = FALSE
    BY DEF Good, Honest
  <2>2. (IF s.f.iface_route_present THEN RouteDel(s, ifindex).t.route ELSE s.t.route) = NoRoute
    BY ZenonT(30), RouteDelGood DEF Good, Honest
  <2> QED
    BY ZenonT(30), <2>1, <2>2 DEF EmptyTable
<1>3. PICK kept \in SUBSET DOMAIN left :
         o = [s EXCEPT !.t = [k \in DOMAIN left |-> IF k \in kept THEN s.t[k] ELSE left[k]],
                       !.f = NothingAdded,
                       !.stuck = \E k \in kept : s.t[k] # left[k],
                       !.cost = @ + Cardinality(kept)]
  BY ZenonT(30) DEF Teardown
<1> HIDE DEF left
<1> DEFINE K == {"rule", "blackhole", "route"}
           t == [k \in K |-> IF k \in kept THEN s.t[k] ELSE EmptyTable[k]]
<1>4. DOMAIN left = K
  BY <1>2 DEF EmptyTable
<1>5. o.t = t /\ o.f = NothingAdded /\ o.err = s.err /\ (o.stuck <=> \E k \in kept : s.t[k] # EmptyTable[k])
  BY ZenonT(30), <1>1, <1>2, <1>3, <1>4 DEF Computations
<1>6. t \in Tables
  <2>1. EmptyTable \in Tables
    BY LinkAssumption DEF EmptyTable, Tables, NoRoute, Routes, Gws
  <2> QED
    BY <1>1, <2>1 DEF Tables
<1>7. t = EmptyTable <=> \A k \in K : t[k] = EmptyTable[k]
  BY ZenonT(30) DEF EmptyTable
<1> QED
  BY <1>3, <1>4, <1>5, <1>6, <1>7

\* mt_ipset_to_link_enable on a free index: either the rule and the blackhole
\* are in place, or it has failed and nothing is left that could be deleted.
LEMMA EnableGood ==
    ASSUME GatewayForIface \subseteq Gws, ifindex \in 0 .. MaxLinks,
           NEW o \in EnableOutcomes(Start(EmptyTable, NothingAdded))
    PROVE  /\ o.t \in Tables /\ o.f \in FamilyStates /\ o.err \in BOOLEAN
           /\ ~o.err => Honest(o.t, o.f) /\ o.t.rule /\ o.t.blackhole /\ ~o.stuck
           /\ o.err => o.f = NothingAdded /\ (o.stuck <=> o.t # EmptyTable)
<1> DEFINE s == Start(EmptyTable, NothingAdded)
           steps == UNION {IF a.err THEN {a} ELSE InsertIpRoute(a) : a \in InsertIpRule(s)}
<1>1. Good(s) /\ s.stuck = FALSE
  <2>1. EmptyTable \in Tables /\ NothingAdded \in FamilyStates
    BY LinkAssumption DEF EmptyTable, Tables, NoRoute, Routes, Gws, NothingAdded, FamilyStates
  <2>2. s \in Computations /\ s.stuck = FALSE /\ s.t = EmptyTable /\ s.f = NothingAdded
    BY <2>1 DEF Start, Computations
  <2>3. Honest(EmptyTable, NothingAdded)
    BY SMTT(30) DEF Honest, EmptyTable
  <2> HIDE DEF s
  <2> QED
    BY <2>2, <2>3 DEF Good
<1>2. PICK b \in steps \cup {[c EXCEPT !.err = TRUE, !.cost = @ + 1] : c \in {d \in steps : ~d.err}} :
         o \in IF b.err THEN Teardown(b) ELSE {b}
  BY ZenonT(30) DEF EnableOutcomes
<1> HIDE DEF s
<1>3. ASSUME NEW c \in steps
      PROVE  Good(c) /\ c.stuck = FALSE /\ (c.err \/ (c.t.rule /\ c.t.blackhole))
  <2>1. PICK a \in InsertIpRule(s) : c \in IF a.err THEN {a} ELSE InsertIpRoute(a)
    BY ZenonT(30), <1>3
  <2>2. Good(a) /\ a.stuck = FALSE /\ (a.err \/ a.t.rule)
    BY ZenonT(30), <1>1, InsertIpRuleGood
  <2>3. CASE a.err
    BY ZenonT(30), <2>1, <2>2, <2>3
  <2>4. CASE ~a.err
    <3>1. Good(c) /\ Keeps(a, c) /\ (c.err \/ c.t.blackhole)
      BY ZenonT(30), <2>1, <2>2, <2>4, InsertIpRouteGood
    <3> QED
      BY ZenonT(30), <2>2, <2>4, <3>1 DEF Keeps
  <2> QED
    BY ZenonT(30), <2>3, <2>4
<1> HIDE DEF steps
<1>4. Good(b) /\ (b.err \/ (b.t.rule /\ b.t.blackhole /\ b.stuck = FALSE))
  <2>1. CASE b \in steps
    BY ZenonT(30), <1>3, <2>1
  <2>2. ASSUME NEW c \in steps, b = [c EXCEPT !.err = TRUE, !.cost = @ + 1]
        PROVE  Good(b) /\ b.err
    <3>1. Good(c)
      BY ZenonT(30), <1>3
    <3>2. c \in Computations
      BY ZenonT(30), <3>1 DEF Good
    <3>3. b.err = TRUE
      BY <2>2, <3>2, Zenon DEF Computations
    <3> QED
      BY ZenonT(30), <2>2, <3>1, <3>3, RefusedGood
  <2> QED
    BY ZenonT(30), <1>2, <2>1, <2>2
<1>5. CASE b.err
  <2>1. o \in Teardown(b)
    BY ZenonT(30), <1>2, <1>5
  <2>2. /\ o.t \in Tables /\ o.f = NothingAdded /\ o.err = b.err
        /\ o.stuck <=> o.t # EmptyTable
    BY ZenonT(30), <1>4, <2>1, TeardownGood
  <2>3. NothingAdded \in FamilyStates /\ b.err \in BOOLEAN
    BY ZenonT(30), <1>4 DEF NothingAdded, FamilyStates, Gws, Good, Computations
  <2> QED
    BY ZenonT(30), <1>5, <2>2, <2>3
<1>6. CASE ~b.err
  <2>1. o = b
    BY ZenonT(30), <1>2, <1>6
  <2>2. o \in Computations /\ Honest(o.t, o.f)
    BY ZenonT(30), <1>4, <2>1 DEF Good
  <2> QED
    BY ZenonT(30), <1>4, <1>6, <2>1, <2>2 DEF Computations
<1> QED
  BY ZenonT(30), <1>5, <1>6

\* The allocator returns an index that nobody uses.
LEMMA AllocFree ==
    ASSUME Indexes \ InUse # {}
    PROVE  AllocMarkTable \in Indexes \ InUse
<1>1. Indexes \ InUse \subseteq Nat
  BY LinkAssumption DEF Indexes
<1>2. \E i \in Indexes \ InUse : \A j \in Indexes \ InUse : i <= j
  BY <1>1, LeastNat, Zenon
<1> QED
  BY <1>2 DEF AllocMarkTable

-----------------------------------------------------------------------------
\* The inductive invariant.

LinkTypes ==
    /\ ifindex \in 0 .. MaxLinks /\ up \in BOOLEAN /\ gateway \in Gws /\ links \in 0 .. MaxLinks
    /\ tab \in [Indexes -> Tables]
    /\ enabled \in [Groups -> BOOLEAN] /\ mark \in [Groups -> Indexes \cup {0}]
    /\ fs \in [Groups -> FamilyStates]
    /\ orphans \subseteq Indexes

MemoryHonest == \A g \in Groups : enabled[g] => Honest(tab[mark[g]], fs[g])

\* The allocator sees what is left of a killed run.
OrphansSeen == \A i \in orphans : tab[i] # EmptyTable

LinkInv ==
    /\ LinkTypes
    /\ MarksDistinct
    /\ NeverFallsThrough
    /\ NothingLeftBehind
    /\ MemoryHonest
    /\ OrphansSeen

\* A gateway found is one the interface or a route may have.
LEMMA GatewaysTyped ==
    ASSUME LinkTypes
    PROVE  GatewayForIface \subseteq Gws
<1>1. \A i \in Indexes : tab[i].route.gw \in Gws
  BY DEF LinkTypes, Tables, Routes
<1> QED
  BY <1>1 DEF GatewayForIface, LinkTypes

\* Nothing is in the kernel before the first group is enabled.
LEMMA LinkInit == Init => LinkInv
<1> SUFFICES ASSUME Init PROVE LinkInv
  OBVIOUS
<1>1. EmptyTable \in Tables /\ NothingAdded \in FamilyStates
  BY LinkAssumption DEF EmptyTable, Tables, NoRoute, Routes, Gws, NothingAdded, FamilyStates
<1>2. LinkTypes
  <2>1. ifindex \in 0 .. MaxLinks /\ links \in 0 .. MaxLinks
    BY LinkAssumption DEF Init
  <2>2. up \in BOOLEAN /\ gateway \in Gws /\ orphans \subseteq Indexes
    BY ZenonT(30) DEF Init, Gws
  <2>3. tab \in [Indexes -> Tables] /\ fs \in [Groups -> FamilyStates]
    BY <1>1 DEF Init
  <2>4. enabled \in [Groups -> BOOLEAN] /\ mark \in [Groups -> Indexes \cup {0}]
    BY DEF Init
  <2> QED
    BY <2>1, <2>2, <2>3, <2>4 DEF LinkTypes
<1> QED
  BY <1>2 DEF Init, LinkInv, MarksDistinct, NeverFallsThrough, NothingLeftBehind,
              MemoryHonest, OrphansSeen

\* Enabling a group fills a free index, or fails and leaves at most an orphan.
LEMMA EnableInv ==
    ASSUME LinkInv, NEW g \in Groups, Enable(g)
    PROVE  LinkInv'
<1> DEFINE i == AllocMarkTable
<1>1. i \in Indexes \ InUse
  BY AllocFree DEF Enable
<1>2. i \in Indexes /\ i \notin Foreign /\ tab[i] = EmptyTable /\ i \notin orphans
  BY <1>1 DEF InUse, LinkInv, OrphansSeen
<1>3. \A h \in Groups : enabled[h] => mark[h] # i
  BY <1>2 DEF LinkInv, NeverFallsThrough, EmptyTable
<1>4. PICK s \in EnableOutcomes(Start(tab[i], NothingAdded)) :
         /\ tab' = [tab EXCEPT ![i] = s.t]
         /\ enabled' = [enabled EXCEPT ![g] = ~s.err]
         /\ mark' = [mark EXCEPT ![g] = IF s.err THEN 0 ELSE i]
         /\ fs' = [fs EXCEPT ![g] = s.f]
         /\ orphans' = orphans \cup Kept(s, i)
  BY ZenonT(30) DEF Enable
<1> HIDE DEF i
<1>5. /\ s.t \in Tables /\ s.f \in FamilyStates /\ s.err \in BOOLEAN
      /\ ~s.err => Honest(s.t, s.f) /\ s.t.rule /\ s.t.blackhole /\ ~s.stuck
      /\ s.err => s.f = NothingAdded /\ (s.stuck <=> s.t # EmptyTable)
  BY <1>2, <1>4, EnableGood, GatewaysTyped DEF LinkInv, LinkTypes
<1>6. UNCHANGED <<ifindex, up, gateway, links>> /\ ~enabled[g]
  BY DEF Enable, linkVars
<1>7. /\ tab'[i] = s.t /\ \A j \in Indexes \ {i} : tab'[j] = tab[j]
      /\ enabled'[g] = ~s.err /\ (~s.err => mark'[g] = i) /\ fs'[g] = s.f
      /\ \A h \in Groups \ {g} : enabled'[h] = enabled[h] /\ mark'[h] = mark[h] /\ fs'[h] = fs[h]
  BY <1>2, <1>4 DEF LinkInv, LinkTypes
<1>8. LinkTypes'
  <2>1. orphans' \subseteq Indexes
    BY <1>2, <1>4 DEF Kept, LinkInv, LinkTypes
  <2>2. tab' \in [Indexes -> Tables] /\ fs' \in [Groups -> FamilyStates]
    BY <1>2, <1>4, <1>5 DEF LinkInv, LinkTypes
  <2>3. enabled' \in [Groups -> BOOLEAN]
    BY <1>4, <1>5 DEF LinkInv, LinkTypes
  <2>4. mark' \in [Groups -> Indexes \cup {0}]
    BY <1>2, <1>4 DEF LinkInv, LinkTypes
  <2> QED
    BY <1>6, <2>1, <2>2, <2>3, <2>4 DEF LinkInv, LinkTypes
<1>9. \A h \in Groups \ {g} : enabled[h] => mark[h] \in Indexes \ ({i} \cup Foreign \cup orphans)
  BY <1>3 DEF LinkInv, MarksDistinct
<1>10. MarksDistinct'
  <2>1. ASSUME NEW h \in Groups, enabled'[h]
        PROVE  (mark[h] \in Indexes \ (Foreign \cup orphans))'
    <3>1. CASE h = g
      <4>1. ~s.err /\ ~s.stuck /\ mark'[h] = i
        BY ZenonT(30), <1>5, <1>7, <2>1, <3>1
      <4>2. orphans' = orphans
        BY <1>4, <4>1 DEF Kept
      <4> QED
        BY <1>2, <4>1, <4>2
    <3>2. CASE h # g
      BY <1>4, <1>7, <1>9, <2>1, <3>2 DEF Kept
    <3> QED
      BY <3>1, <3>2
  <2>2. ASSUME NEW h \in Groups, NEW k \in Groups, h # k, enabled'[h], enabled'[k]
        PROVE  mark'[h] # mark'[k]
    <3>1. CASE h = g
      BY ZenonT(30), <1>3, <1>7, <2>2, <3>1
    <3>2. CASE k = g
      BY ZenonT(30), <1>3, <1>7, <2>2, <3>2
    <3>3. CASE h # g /\ k # g
      BY <1>7, <2>2, <3>3 DEF LinkInv, MarksDistinct
    <3> QED
      BY <3>1, <3>2, <3>3
  <2> QED
    BY <2>1, <2>2 DEF MarksDistinct
<1>11. ASSUME NEW h \in Groups, enabled'[h]
       PROVE  (tab[mark[h]].rule /\ tab[mark[h]].blackhole /\ Honest(tab[mark[h]], fs[h]))'
  <2>1. CASE h = g
    BY ZenonT(30), <1>5, <1>6, <1>7, <1>11, <2>1 DEF Honest
  <2>2. CASE h # g
    BY <1>6, <1>7, <1>9, <1>11, <2>2 DEF Honest, LinkInv, NeverFallsThrough, MemoryHonest
  <2> QED
    BY <2>1, <2>2
<1>12. NothingLeftBehind'
  <2> SUFFICES ASSUME NEW j \in Indexes, tab'[j] # EmptyTable
               PROVE  j \in orphans' \/ \E h \in Groups : enabled'[h] /\ mark'[h] = j
    BY DEF NothingLeftBehind
  <2>1. CASE j = i
    BY ZenonT(30), <1>4, <1>5, <1>7, <2>1 DEF Kept
  <2>2. CASE j # i
    <3>1. j \in orphans \/ \E h \in Groups : enabled[h] /\ mark[h] = j
      BY <1>7, <2>2 DEF LinkInv, NothingLeftBehind
    <3> QED
      BY <1>4, <1>6, <1>7, <3>1
  <2> QED
    BY <2>1, <2>2
<1>13. OrphansSeen'
  <2> SUFFICES ASSUME NEW j \in orphans' PROVE tab'[j] # EmptyTable
    BY DEF OrphansSeen
  <2>1. CASE j \in orphans
    BY <1>2, <1>7, <2>1 DEF LinkInv, LinkTypes, OrphansSeen
  <2>2. CASE j \in Kept(s, i)
    BY <1>5, <1>7, <2>2 DEF Kept
  <2> QED
    BY <1>4, <2>1, <2>2
<1> QED
  BY <1>8, <1>10, <1>11, <1>12, <1>13 DEF LinkInv, NeverFallsThrough, MemoryHonest

\* Disabling a group empties its index, or leaves an orphan there.
LEMMA DisableInv ==
    ASSUME LinkInv, NEW g \in Groups, Disable(g)
    PROVE  LinkInv'
<1> DEFINE i == mark[g]
<1>1. enabled[g] /\ i \in Indexes \ (Foreign \cup orphans)
  BY DEF Disable, LinkInv, MarksDistinct
<1>2. \A h \in Groups \ {g} : enabled[h] => mark[h] \in Indexes \ ({i} \cup Foreign \cup orphans)
  BY <1>1 DEF LinkInv, MarksDistinct
<1>3. PICK s \in Teardown(Start(tab[i], fs[g])) :
         /\ tab' = [tab EXCEPT ![i] = s.t]
         /\ fs' = [fs EXCEPT ![g] = s.f]
         /\ orphans' = orphans \cup Kept(s, i)
  BY ZenonT(30) DEF Disable
<1>4. /\ enabled' = [enabled EXCEPT ![g] = FALSE] /\ mark' = [mark EXCEPT ![g] = 0]
      /\ UNCHANGED <<ifindex, up, gateway, links>>
  BY DEF Disable, linkVars
<1>5. /\ s.t \in Tables /\ s.f = NothingAdded
      /\ s.stuck <=> s.t # EmptyTable
  <2>1. Good(Start(tab[i], fs[g]))
    <3>1. tab[i] \in Tables /\ fs[g] \in FamilyStates /\ Honest(tab[i], fs[g])
      BY <1>1 DEF LinkInv, LinkTypes, MemoryHonest
    <3>2. /\ Start(tab[i], fs[g]) \in Computations
          /\ Start(tab[i], fs[g]).t = tab[i] /\ Start(tab[i], fs[g]).f = fs[g]
      BY <3>1 DEF Start, Computations
    <3> QED
      BY <3>1, <3>2 DEF Good
  <2> QED
    BY <2>1, TeardownGood
<1> HIDE DEF i
<1>6. /\ tab'[i] = s.t /\ \A j \in Indexes \ {i} : tab'[j] = tab[j]
      /\ enabled'[g] = FALSE
      /\ \A h \in Groups \ {g} : enabled'[h] = enabled[h] /\ mark'[h] = mark[h] /\ fs'[h] = fs[h]
  BY <1>1, <1>3, <1>4 DEF LinkInv, LinkTypes
<1>7. LinkTypes'
  <2>1. orphans' \subseteq Indexes
    BY <1>1, <1>3 DEF Kept, LinkInv, LinkTypes
  <2>2. NothingAdded \in FamilyStates
    BY DEF NothingAdded, FamilyStates, Gws
  <2>3. tab' \in [Indexes -> Tables] /\ fs' \in [Groups -> FamilyStates]
    BY <1>1, <1>3, <1>5, <2>2 DEF LinkInv, LinkTypes
  <2>4. enabled' \in [Groups -> BOOLEAN] /\ mark' \in [Groups -> Indexes \cup {0}]
    BY <1>4 DEF LinkInv, LinkTypes
  <2> QED
    BY <1>4, <2>1, <2>3, <2>4 DEF LinkInv, LinkTypes
<1>8. MarksDistinct'
  <2>1. ASSUME NEW h \in Groups, enabled'[h]
        PROVE  (mark[h] \in Indexes \ (Foreign \cup orphans))'
    BY <1>2, <1>3, <1>6, <2>1 DEF Kept
  <2>2. ASSUME NEW h \in Groups, NEW k \in Groups, h # k, enabled'[h], enabled'[k]
        PROVE  mark'[h] # mark'[k]
    BY <1>6, <2>2, SMTT(30) DEF LinkInv, MarksDistinct
  <2> QED
    BY <2>1, <2>2 DEF MarksDistinct
<1>9. ASSUME NEW h \in Groups, enabled'[h]
      PROVE  (tab[mark[h]].rule /\ tab[mark[h]].blackhole /\ Honest(tab[mark[h]], fs[h]))'
  <2>1. h # g
    BY <1>6, <1>9
  <2> QED
    BY <1>2, <1>4, <1>6, <1>9, <2>1, SMTT(30) DEF Honest, LinkInv, NeverFallsThrough, MemoryHonest
<1>10. NothingLeftBehind'
  <2> SUFFICES ASSUME NEW j \in Indexes, tab'[j] # EmptyTable
               PROVE  j \in orphans' \/ \E h \in Groups : enabled'[h] /\ mark'[h] = j
    BY DEF NothingLeftBehind
  <2>1. CASE j = i
    BY <1>3, <1>5, <1>6, <2>1 DEF Kept
  <2>2. CASE j # i
    <3>1. j \in orphans \/ \E h \in Groups \ {g} : enabled[h] /\ mark[h] = j
      BY <1>6, <2>2 DEF LinkInv, NothingLeftBehind, i
    <3> QED
      BY <1>3, <1>6, <3>1
  <2> QED
    BY <2>1, <2>2
<1>11. OrphansSeen'
  <2> SUFFICES ASSUME NEW j \in orphans' PROVE tab'[j] # EmptyTable
    BY DEF OrphansSeen
  <2>1. CASE j \in orphans
    BY <1>1, <1>6, <2>1 DEF LinkInv, LinkTypes, OrphansSeen
  <2>2. CASE j \in Kept(s, i)
    BY <1>5, <1>6, <2>2 DEF Kept
  <2> QED
    BY <1>3, <2>1, <2>2
<1> QED
  BY <1>7, <1>8, <1>9, <1>10, <1>11 DEF LinkInv, NeverFallsThrough, MemoryHonest

\* The handlers of an event add to the tables of the enabled groups and take
\* nothing else away than the interface route.
LEMMA HandleInv ==
    ASSUME LinkInv, NEW event, Handle(event),
           UNCHANGED <<linkVars, enabled, mark, orphans>>
    PROVE  LinkInv'
<1> DEFINE out == [g \in Groups |->
                     IF ~enabled[g] THEN {Start(EmptyTable, NothingAdded)}
                     ELSE IF event = "link_up" THEN InsertIpRoute(Start(tab[mark[g]], fs[g]))
                     ELSE UpdateIfaceRoute(Start(tab[mark[g]], fs[g]))]
           Owner(i) == CHOOSE g \in Groups : enabled[g] /\ mark[g] = i
<1>1. PICK r : /\ \A g \in Groups : r[g] \in out[g]
               /\ fs' = [g \in Groups |-> r[g].f]
               /\ tab' = [i \in Indexes |->
                            IF \E g \in Groups : enabled[g] /\ mark[g] = i
                              THEN r[Owner(i)].t ELSE tab[i]]
  BY DEF Handle
<1>2. UNCHANGED <<ifindex, up, gateway, links, enabled, mark, orphans>>
  BY DEF linkVars
<1>3. ASSUME NEW g \in Groups, enabled[g]
      PROVE  /\ mark[g] \in Indexes \ orphans /\ Owner(mark[g]) = g
             /\ Good(r[g]) /\ r[g].t.rule /\ r[g].t.blackhole
  <2> DEFINE s == Start(tab[mark[g]], fs[g])
  <2>1. mark[g] \in Indexes \ orphans /\ \A h \in Groups : enabled[h] /\ mark[h] = mark[g] => h = g
    BY <1>3 DEF LinkInv, MarksDistinct
  <2>2. Owner(mark[g]) = g
    BY <1>3, <2>1
  <2>3. Good(s) /\ s.t.rule /\ s.t.blackhole
    <3>1. /\ tab[mark[g]] \in Tables /\ fs[g] \in FamilyStates /\ Honest(tab[mark[g]], fs[g])
          /\ tab[mark[g]].rule /\ tab[mark[g]].blackhole
      BY <1>3, <2>1 DEF LinkInv, LinkTypes, MemoryHonest, NeverFallsThrough
    <3>2. s \in Computations /\ s.t = tab[mark[g]] /\ s.f = fs[g]
      BY <3>1 DEF Start, Computations
    <3> HIDE DEF s
    <3> QED
      BY <3>1, <3>2 DEF Good
  <2>4. r[g] \in InsertIpRoute(s) \/ r[g] \in UpdateIfaceRoute(s)
    BY <1>1, <1>3
  <2> HIDE DEF s
  <2>5. GatewayForIface \subseteq Gws /\ ifindex \in 0 .. MaxLinks
    BY GatewaysTyped DEF LinkInv, LinkTypes
  <2>6. Good(r[g]) /\ Keeps(s, r[g])
    BY <2>3, <2>4, <2>5, InsertIpRouteGood, UpdateIfaceRouteGood
  <2> QED
    BY <2>1, <2>2, <2>3, <2>6 DEF Keeps
<1>4. ASSUME NEW g \in Groups PROVE r[g].f \in FamilyStates
  <2>1. CASE enabled[g]
    BY <1>3, <2>1 DEF Good, Computations
  <2>2. CASE ~enabled[g]
    <3>1. r[g] = Start(EmptyTable, NothingAdded)
      BY <1>1, <2>2
    <3>2. r[g].f = NothingAdded
      BY <3>1 DEF Start
    <3> QED
      BY <3>2 DEF NothingAdded, FamilyStates, Gws
  <2> QED
    BY <2>1, <2>2
<1>5. ASSUME NEW g \in Groups, enabled[g]
      PROVE  tab'[mark[g]] = r[g].t /\ fs'[g] = r[g].f
  BY <1>1, <1>3, <1>5
<1>6. \A i \in Indexes : tab'[i] = tab[i] \/ \E g \in Groups : enabled[g] /\ mark[g] = i
  BY <1>1
<1> HIDE DEF out, Owner
<1>7. tab' \in [Indexes -> Tables]
  <2>1. ASSUME NEW i \in Indexes PROVE tab'[i] \in Tables
    <3>1. CASE tab'[i] = tab[i]
      BY <3>1 DEF LinkInv, LinkTypes
    <3>2. ASSUME NEW g \in Groups, enabled[g], mark[g] = i PROVE tab'[i] \in Tables
      <4>1. r[g] \in Computations /\ tab'[i] = r[g].t
        BY <1>3, <1>5, <3>2 DEF Good
      <4> QED
        BY <4>1 DEF Computations
    <3> QED
      BY <1>6, <3>1, <3>2
  <2>2. tab' = [i \in Indexes |-> tab'[i]]
    BY <1>1
  <2> QED
    BY <2>1, <2>2
<1>8. LinkTypes'
  BY <1>1, <1>2, <1>4, <1>7 DEF LinkInv, LinkTypes
<1>9. MarksDistinct'
  BY <1>2 DEF LinkInv, MarksDistinct
<1>10. NeverFallsThrough' /\ MemoryHonest'
  BY <1>2, <1>3, <1>5 DEF NeverFallsThrough, MemoryHonest, Good, Honest
<1>11. NothingLeftBehind'
  BY <1>2, <1>6 DEF LinkInv, NothingLeftBehind
<1>12. OrphansSeen'
  BY SMTT(30), <1>2, <1>3, <1>6 DEF LinkInv, LinkTypes, OrphansSeen
<1> QED
  BY <1>8, <1>9, <1>10, <1>11, <1>12 DEF LinkInv

\* A kill turns the groups' indexes into orphans; their rules are still there.
LEMMA CrashInv ==
    ASSUME LinkInv, Crash
    PROVE  LinkInv'
<1>1. /\ UNCHANGED <<ifindex, up, gateway, links, tab>>
      /\ enabled' = [g \in Groups |-> FALSE] /\ mark' = [g \in Groups |-> 0]
      /\ fs' = [g \in Groups |-> NothingAdded]
      /\ orphans' = orphans \cup {mark[g] : g \in {x \in Groups : enabled[x]}}
  BY DEF Crash, linkVars
<1>2. \A g \in Groups : enabled[g] => mark[g] \in Indexes /\ tab[mark[g]] # EmptyTable
  BY DEF LinkInv, MarksDistinct, NeverFallsThrough, EmptyTable
<1>3. LinkTypes'
  <2>1. NothingAdded \in FamilyStates
    BY DEF NothingAdded, FamilyStates, Gws
  <2>2. orphans' \subseteq Indexes
    BY <1>1, <1>2 DEF LinkInv, LinkTypes
  <2>3. enabled' \in [Groups -> BOOLEAN] /\ mark' \in [Groups -> Indexes \cup {0}]
    BY <1>1
  <2>4. fs' \in [Groups -> FamilyStates]
    BY <1>1, <2>1
  <2> QED
    BY <1>1, <2>2, <2>3, <2>4 DEF LinkInv, LinkTypes
<1>4. \A g \in Groups : enabled'[g] = FALSE
  BY <1>1
<1>5. NothingLeftBehind'
  BY <1>1 DEF LinkInv, NothingLeftBehind
<1>6. OrphansSeen'
  BY <1>1, <1>2 DEF LinkInv, OrphansSeen
<1> QED
  BY <1>3, <1>4, <1>5, <1>6 DEF LinkInv, MarksDistinct, NeverFallsThrough, MemoryHonest

\* A link that comes up, as a new one or the old one, meets no routes.
LEMMA LinkUpInv ==
    ASSUME LinkInv, LinkUp
    PROVE  LinkInv'
<1>1. /\ ~up /\ up' = TRUE
      /\ UNCHANGED <<gateway, tab, enabled, mark, fs, orphans>>
      /\ \/ links < MaxLinks /\ links' = links + 1 /\ ifindex' = links + 1
         \/ UNCHANGED <<links, ifindex>>
  BY DEF LinkUp, groupVars
<1>2. ifindex' \in 0 .. MaxLinks /\ links' \in 0 .. MaxLinks
  BY <1>1, LinkAssumption DEF LinkInv, LinkTypes
<1>3. LinkTypes'
  BY <1>1, <1>2 DEF LinkInv, LinkTypes
<1>4. MemoryHonest'
  BY <1>1 DEF LinkInv, MemoryHonest, Honest
<1> QED
  BY <1>1, <1>3, <1>4 DEF LinkInv, MarksDistinct, NeverFallsThrough, NothingLeftBehind, OrphansSeen

\* A link that goes down takes the routes with it, the rules and blackholes stay.
LEMMA LinkDownInv ==
    ASSUME LinkInv, LinkDown
    PROVE  LinkInv'
<1>1. /\ up' = FALSE /\ gateway' = NoGw /\ ifindex' \in {0, ifindex}
      /\ tab' = [i \in Indexes |-> [tab[i] EXCEPT !.route = NoRoute]]
      /\ orphans' = {i \in orphans : tab'[i] # EmptyTable}
      /\ UNCHANGED <<links, enabled, mark, fs>>
  BY DEF LinkDown, groupVars
<1>2. NoRoute \in Routes
  BY LinkAssumption DEF NoRoute, Routes, Gws
<1>3. ASSUME NEW i \in Indexes
      PROVE  /\ tab[i] \in Tables /\ tab'[i] \in Tables /\ tab'[i].route = NoRoute
             /\ tab'[i].rule = tab[i].rule /\ tab'[i].blackhole = tab[i].blackhole
  <2>1. tab[i] \in Tables /\ tab'[i] = [tab[i] EXCEPT !.route = NoRoute]
    BY <1>1 DEF LinkInv, LinkTypes
  <2> QED
    BY <1>2, <2>1 DEF Tables
<1>4. LinkTypes'
  <2>1. tab' \in [Indexes -> Tables]
    BY <1>1, <1>3
  <2>2. ifindex' \in 0 .. MaxLinks
    BY <1>1, LinkAssumption DEF LinkInv, LinkTypes
  <2> QED
    BY ZenonT(30), <1>1, <2>1, <2>2 DEF LinkInv, LinkTypes, Gws
<1>5. \A g \in Groups : enabled'[g] => enabled[g] /\ mark'[g] = mark[g] /\ mark[g] \in Indexes
  BY <1>1 DEF LinkInv, MarksDistinct
<1>6. MarksDistinct'
  BY <1>1 DEF LinkInv, MarksDistinct
<1>7. NeverFallsThrough'
  BY <1>3, <1>5 DEF LinkInv, NeverFallsThrough
<1>8. MemoryHonest'
  BY <1>1, <1>3, <1>5 DEF LinkInv, MemoryHonest, Honest
<1>9. NothingLeftBehind'
  <2> SUFFICES ASSUME NEW i \in Indexes, tab'[i] # EmptyTable
               PROVE  i \in orphans' \/ \E g \in Groups : enabled'[g] /\ mark'[g] = i
    BY DEF NothingLeftBehind
  <2>1. tab[i] # EmptyTable
    <3>1. SUFFICES ASSUME tab[i] = EmptyTable PROVE tab'[i] = EmptyTable
      OBVIOUS
    <3>2. tab'[i] = [EmptyTable EXCEPT !.route = NoRoute]
      BY <1>1, <3>1
    <3> QED
      BY ZenonT(30), <3>2 DEF EmptyTable
  <2> QED
    BY <1>1, <2>1 DEF LinkInv, NothingLeftBehind
<1>10. OrphansSeen'
  BY <1>1 DEF OrphansSeen
<1> QED
  BY <1>4, <1>6, <1>7, <1>8, <1>9, <1>10 DEF LinkInv

\* Every step of the daemon, the kernel and the interface.
LEMMA LinkStep == LinkInv /\ [Next]_vars => LinkInv'
<1> SUFFICES ASSUME LinkInv, [Next]_vars PROVE LinkInv'
  OBVIOUS
<1>1. ASSUME NEW g \in Groups, Enable(g) PROVE LinkInv'
  BY <1>1, EnableInv
<1>2. ASSUME NEW g \in Groups, Disable(g) PROVE LinkInv'
  BY <1>2, DisableInv, SMTT(30)
<1>3. ASSUME UNCHANGED <<linkVars, tab, groupVars, orphans>> PROVE LinkInv'
  BY <1>3 DEF linkVars, groupVars, LinkInv, LinkTypes, MarksDistinct, NeverFallsThrough,
              NothingLeftBehind, MemoryHonest, Honest, OrphansSeen
<1>4. CASE OnReadable
  <2>1. UNCHANGED <<linkVars, enabled, mark, orphans>>
    BY <1>4 DEF OnReadable
  <2>2. Handle("link_up") \/ Handle("addr") \/ UNCHANGED <<tab, fs>>
    BY <1>4 DEF OnReadable
  <2>3. CASE UNCHANGED <<tab, fs>>
    BY <1>3, <2>1, <2>3 DEF groupVars
  <2>4. CASE Handle("link_up")
    BY <2>1, <2>4, HandleInv
  <2>5. CASE Handle("addr")
    BY SMTT(30), <2>1, <2>5, HandleInv
  <2> QED
    BY <2>2, <2>3, <2>4, <2>5
<1>5. CASE NewAddress
  <2>1. gateway' \in Gws /\ UNCHANGED <<ifindex, up, links, tab, enabled, mark, fs, orphans>>
    BY <1>5 DEF NewAddress, groupVars
  <2>2. LinkTypes'
    BY <2>1 DEF LinkInv, LinkTypes
  <2> QED
    BY <2>1, <2>2 DEF LinkInv, MarksDistinct, NeverFallsThrough, NothingLeftBehind,
                      MemoryHonest, Honest, OrphansSeen
<1>6. CASE UNCHANGED vars
  BY <1>3, <1>6 DEF vars
<1> QED
  BY <1>1, <1>2, <1>4, <1>5, <1>6, CrashInv, LinkUpInv, LinkDownInv DEF Next

-----------------------------------------------------------------------------

\* The invariant holds in every state of the daemon's life.
THEOREM LinkInvariant == Spec => []LinkInv
  BY LinkInit, LinkStep, PTL DEF Spec

\* mt_rtnl_alloc_mark_table never hands out an index that another group, a
\* stranger, a killed run or a refused delete uses.
THEOREM MarksAreDistinct == Spec => []MarksDistinct
<1>1. LinkInv => MarksDistinct
  BY DEF LinkInv
<1> QED
  BY <1>1, LinkInvariant, PTL

\* The rule and the blackhole that mt_ipset_to_link_enable installs outlive
\* every event, link and refused request until the group is disabled.
THEOREM NeverFallsThroughAlways == Spec => []NeverFallsThrough
<1>1. LinkInv => NeverFallsThrough
  BY DEF LinkInv
<1> QED
  BY <1>1, LinkInvariant, PTL

\* teardown leaves nothing in the kernel that it was not refused to delete.
THEOREM NothingIsLeftBehind == Spec => []NothingLeftBehind
<1>1. LinkInv => NothingLeftBehind
  BY DEF LinkInv
<1> QED
  BY <1>1, LinkInvariant, PTL

-----------------------------------------------------------------------------
\* Refused requests, and the route after a link-up.

\* SumFunction over a finite set of natural numbers: a number, and 0 only when
\* all of them are.
LEMMA SumOfCosts ==
    ASSUME NEW S, IsFiniteSet(S), NEW f \in [S -> Nat]
    PROVE  SumFunction(f) \in Nat /\ (SumFunction(f) = 0 => \A x \in S : f[x] = 0)
<1> DEFINE c(s) == CHOOSE x \in s : TRUE
           Body(w) == [s \in SUBSET S |-> IF s = {} THEN 0 ELSE f[c(s)] + w[s \ {c(s)}]]
           Law(w, n) == \A s \in SUBSET S : Cardinality(s) <= n => w[s] = Body(w)[s]
           E == {n \in Nat : \E w \in [SUBSET S -> Nat] : Law(w, n)}
<1>1. SumFunction(f) = (CHOOSE w : w = Body(w))[S]
  <2>1. DOMAIN f = S
    OBVIOUS
  <2> QED
    BY <2>1, Zenon DEF SumFunction, SumFunctionOnSet, FoldFunctionOnSet, MapThenFoldSet
<1>2. ASSUME NEW s \in SUBSET S, s # {}
      PROVE  c(s) \in s /\ c(s) \in S /\ s \ {c(s)} \in SUBSET S
             /\ Cardinality(s) \in Nat /\ Cardinality(s \ {c(s)}) = Cardinality(s) - 1
  <2>1. c(s) \in s
    BY <1>2
  <2>2. IsFiniteSet(s)
    BY FS_Subset
  <2> HIDE DEF c
  <2> QED
    BY <2>1, <2>2, FS_CardinalityType, FS_RemoveElement
<1> HIDE DEF c
<1>3. 0 \in E
  <2> DEFINE w == [s \in SUBSET S |-> 0]
  <2>1. w \in [SUBSET S -> Nat]
    OBVIOUS
  <2>2. ASSUME NEW s \in SUBSET S, Cardinality(s) <= 0 PROVE s = {}
    BY <2>2, FS_Subset, FS_EmptySet, FS_CardinalityType
  <2>3. Law(w, 0)
    BY <2>2
  <2> HIDE DEF w, Law
  <2> QED
    BY <2>1, <2>3
<1>4. ASSUME NEW n \in Nat, n \in E PROVE n + 1 \in E
  <2>1. PICK w \in [SUBSET S -> Nat] : Law(w, n)
    BY <1>4, Zenon
  <2> DEFINE v == [s \in SUBSET S |-> IF s = {} THEN 0 ELSE f[c(s)] + w[s \ {c(s)}]]
  <2>2. v \in [SUBSET S -> Nat]
    <3>1. ASSUME NEW s \in SUBSET S, s # {} PROVE f[c(s)] + w[s \ {c(s)}] \in Nat
      <4>1. c(s) \in S /\ s \ {c(s)} \in SUBSET S
        BY <1>2, <3>1, Zenon
      <4>2. f[c(s)] \in Nat /\ w[s \ {c(s)}] \in Nat
        BY <4>1, Zenon
      <4> QED
        BY <4>2
    <3> QED
      BY <3>1
  <2>3. ASSUME NEW s \in SUBSET S, Cardinality(s) <= n PROVE v[s] = w[s]
    BY <2>1, <2>3, Zenon
  <2>4. ASSUME NEW s \in SUBSET S, Cardinality(s) <= n + 1, s # {}
        PROVE  v[s] = f[c(s)] + v[s \ {c(s)}]
    <3>1. s \ {c(s)} \in SUBSET S /\ Cardinality(s \ {c(s)}) <= n
      BY <1>2, <2>4
    <3>2. v[s \ {c(s)}] = w[s \ {c(s)}]
      BY <2>3, <3>1, Zenon
    <3>3. v[s] = f[c(s)] + w[s \ {c(s)}]
      BY <2>4
    <3> QED
      BY <3>2, <3>3
  <2>5. v[{}] = 0
    OBVIOUS
  <2> HIDE DEF v
  <2>6. Law(v, n + 1)
    BY <2>4, <2>5, Zenon
  <2> HIDE DEF Law
  <2> QED
    BY <2>2, <2>6
<1>5. \A n \in Nat : n \in E
  <2> HIDE DEF E
  <2> QED
    BY <1>3, <1>4, NatSetInduction
<1>6. Cardinality(S) \in Nat /\ \A s \in SUBSET S : Cardinality(s) <= Cardinality(S)
  BY FS_CardinalityType, FS_Subset
<1>7. PICK w1 \in [SUBSET S -> Nat] : Law(w1, Cardinality(S))
  BY <1>5, <1>6, Zenon
<1>8. w1 = Body(w1)
  <2>1. \A s \in SUBSET S : w1[s] = Body(w1)[s]
    BY <1>6, <1>7, Zenon
  <2>2. Body(w1) = [s \in SUBSET S |-> Body(w1)[s]]
    OBVIOUS
  <2> HIDE DEF Body
  <2> QED
    BY <2>1, <2>2, Zenon
<1> DEFINE w == CHOOSE v : v = Body(v)
<1>9. w = Body(w)
  <2> HIDE DEF Body
  <2> QED
    BY <1>8, Zenon
<1> HIDE DEF w
<1>10. w[{}] = 0 /\ \A s \in SUBSET S : s # {} => w[s] = f[c(s)] + w[s \ {c(s)}]
  <2>1. Body(w)[{}] = 0 /\ \A s \in SUBSET S : s # {} => Body(w)[s] = f[c(s)] + w[s \ {c(s)}]
    OBVIOUS
  <2> HIDE DEF Body
  <2> QED
    BY <1>9, <2>1, Zenon
<1> DEFINE Zero(s) == w[s] \in Nat /\ (w[s] = 0 => \A x \in s : f[x] = 0)
           T == {n \in Nat : \A s \in SUBSET S : Cardinality(s) = n => Zero(s)}
<1>11. 0 \in T
  <2>1. ASSUME NEW s \in SUBSET S, Cardinality(s) = 0 PROVE s = {}
    BY <2>1, FS_Subset, FS_EmptySet, FS_CardinalityType, Zenon
  <2>2. Zero({})
    BY <1>10
  <2> HIDE DEF Zero
  <2> QED
    BY <2>1, <2>2, Zenon
<1>12. ASSUME NEW n \in Nat, n \in T PROVE n + 1 \in T
  <2> SUFFICES ASSUME NEW s \in SUBSET S, Cardinality(s) = n + 1 PROVE Zero(s)
    OBVIOUS
  <2>1. s # {}
    BY FS_EmptySet
  <2>2. s \ {c(s)} \in SUBSET S /\ Cardinality(s \ {c(s)}) = n /\ c(s) \in S
    <3>1. s \ {c(s)} \in SUBSET S /\ c(s) \in S /\ Cardinality(s \ {c(s)}) = Cardinality(s) - 1
      BY <1>2, <2>1, Zenon
    <3>2. (n + 1) - 1 = n
      OBVIOUS
    <3> QED
      BY <3>1, <3>2
  <2>3. Zero(s \ {c(s)})
    <3> HIDE DEF Zero
    <3> QED
      BY <1>12, <2>2, Zenon
  <2>4. w[s] = f[c(s)] + w[s \ {c(s)}] /\ f[c(s)] \in Nat
    BY <1>10, <2>1, <2>2, Zenon
  <2> QED
    BY <2>3, <2>4
<1>13. Zero(S)
  <2> HIDE DEF T
  <2>1. \A n \in Nat : n \in T
    BY <1>11, <1>12, NatSetInduction
  <2>2. Cardinality(S) \in T
    BY <1>6, <2>1
  <2> QED
    BY <2>2 DEF T
<1> QED
  BY <1>1, <1>13 DEF w

\* A request that went through without a refusal while the link is up: no error,
\* and the group believes in its route.
Through(s, o) ==
    /\ o.cost >= s.cost
    /\ up /\ ~s.err /\ o.cost = s.cost => ~o.err /\ o.f.iface_route_present

\* update_iface_route for one gateway.
LEMMA SetIfaceRouteThrough ==
    ASSUME NEW s, Good(s), NEW gw \in Gws, ifindex \in 0 .. MaxLinks, NEW o \in SetIfaceRoute(s, gw)
    PROVE  Through(s, o)
<1> DEFINE ready == IF s.f.iface_route_present /\ gw # NoGw THEN RouteDel(s, ifindex) ELSE s
<1>1. s \in Computations /\ s.cost \in Nat
  BY DEF Good, Computations
<1>2. CASE s.f.iface_route_present /\ s.f.gw = gw
  BY <1>1, <1>2 DEF SetIfaceRoute, Through
<1>3. CASE ~(s.f.iface_route_present /\ s.f.gw = gw)
  <2>1. ready \in Computations /\ ready.err = s.err /\ ready.cost = s.cost
    <3>1. CASE s.f.iface_route_present /\ gw # NoGw
      <4>1. Good(RouteDel(s, ifindex)) /\ RouteDel(s, ifindex).err = s.err
        BY ZenonT(30), RouteDelGood
      <4>2. RouteDel(s, ifindex).cost = s.cost
        BY <1>1 DEF RouteDel, Computations
      <4> QED
        BY <3>1, <4>1, <4>2 DEF Good
    <3> QED
      BY <1>1, <3>1
  <2>2. \/ up /\ o = RouteAdd(ready, gw)
        \/ ~up /\ o = [ready EXCEPT !.err = TRUE]
        \/ o = [ready EXCEPT !.err = TRUE, !.cost = @ + 1]
        \/ o = [ready EXCEPT !.f.iface_route_present = FALSE, !.cost = @ + 1]
    BY <1>3 DEF SetIfaceRoute
  <2> HIDE DEF ready
  <2>3. CASE up /\ o = RouteAdd(ready, gw)
    <3>1. o.cost = ready.cost /\ o.err = ready.err
      BY <2>1, <2>3 DEF RouteAdd, Computations
    <3>2. o.f.iface_route_present = TRUE
      BY <2>1, <2>3, Zenon DEF RouteAdd, Computations, FamilyStates
    <3> QED
      BY <1>1, <2>1, <3>1, <3>2 DEF Through
  <2>4. CASE ~up /\ o = [ready EXCEPT !.err = TRUE]
    <3>1. o.cost = ready.cost
      BY <2>1, <2>4 DEF Computations
    <3> QED
      BY <1>1, <2>1, <2>4, <3>1 DEF Through
  <2>5. CASE \/ o = [ready EXCEPT !.err = TRUE, !.cost = @ + 1]
             \/ o = [ready EXCEPT !.f.iface_route_present = FALSE, !.cost = @ + 1]
    <3>1. o.cost = ready.cost + 1
      BY <2>1, <2>5, Zenon DEF Computations
    <3> QED
      BY <1>1, <2>1, <3>1 DEF Through
  <2> QED
    BY <2>2, <2>3, <2>4, <2>5
<1> QED
  BY <1>2, <1>3

\* update_iface_route.
LEMMA UpdateIfaceRouteThrough ==
    ASSUME NEW s, Good(s), GatewayForIface \subseteq Gws, ifindex \in 0 .. MaxLinks,
           NEW o \in UpdateIfaceRoute(s)
    PROVE  Through(s, o)
<1>1. s \in Computations /\ s.cost \in Nat
  BY DEF Good, Computations
<1>2. CASE o = [s EXCEPT !.err = TRUE, !.cost = @ + 1]
  <2>1. o.cost = s.cost + 1
    BY <1>1, <1>2 DEF Computations
  <2> QED
    BY <1>1, <2>1 DEF Through
<1>3. CASE o \in SetIfaceRoute([s EXCEPT !.cost = @ + 1], NoGw)
  <2> DEFINE p == [s EXCEPT !.cost = @ + 1]
  <2>1. Good(p) /\ p.cost = s.cost + 1
    <3>1. Good(p)
      BY ZenonT(30), RefusedGood
    <3>2. p.cost = s.cost + 1
      BY <1>1 DEF Computations
    <3> QED
      BY <3>1, <3>2
  <2>2. NoGw \in Gws
    BY DEF Gws
  <2>3. Good(o)
    BY <1>3, <2>1, <2>2, SetIfaceRouteGood
  <2> HIDE DEF p
  <2>4. Through(p, o)
    BY <1>3, <2>1, <2>2, SetIfaceRouteThrough DEF p
  <2>5. o.cost \in Nat
    BY <2>3 DEF Good, Computations
  <2> QED
    BY <1>1, <2>1, <2>4, <2>5 DEF Through
<1>4. CASE \E gw \in GatewayForIface : o \in SetIfaceRoute(s, gw)
  BY <1>4, SetIfaceRouteThrough
<1> QED
  BY <1>2, <1>3, <1>4 DEF UpdateIfaceRoute

\* insert_ip_route.
LEMMA InsertIpRouteThrough ==
    ASSUME NEW s, Good(s), GatewayForIface \subseteq Gws, ifindex \in 0 .. MaxLinks,
           NEW o \in InsertIpRoute(s)
    PROVE  Through(s, o)
<1>1. s \in Computations /\ s.cost \in Nat
  BY DEF Good, Computations
<1>2. PICK b \in AddBlackhole(s) :
         \/ b.err /\ o = b
         \/ ~b.err /\ up /\ o \in UpdateIfaceRoute(b)
         \/ ~b.err /\ ~up /\ (o = b \/ o = [b EXCEPT !.err = TRUE, !.cost = @ + 1])
  BY ZenonT(30) DEF InsertIpRoute
<1>3. Good(b) /\ b \in Computations /\ b.cost \in Nat
  <2>1. Good(b)
    BY AddBlackholeGood
  <2> QED
    BY <2>1 DEF Good, Computations
<1>4. b.cost >= s.cost /\ (b.err => s.err \/ b.cost > s.cost)
  <2>1. CASE b = [s EXCEPT !.t.blackhole = TRUE, !.f.blackhole_added = TRUE]
    <3>1. b.cost = s.cost /\ b.err = s.err
      BY <1>1, <2>1 DEF Computations
    <3> QED
      BY <1>1, <3>1
  <2>2. CASE b = [s EXCEPT !.err = TRUE, !.cost = @ + 1]
    <3>1. b.cost = s.cost + 1
      BY <1>1, <2>2 DEF Computations
    <3> QED
      BY <1>1, <3>1
  <2> QED
    BY <2>1, <2>2 DEF AddBlackhole
<1>5. CASE b.err /\ o = b
  BY <1>1, <1>3, <1>4, <1>5 DEF Through
<1>6. CASE ~b.err /\ up /\ o \in UpdateIfaceRoute(b)
  <2>1. Through(b, o)
    BY <1>3, <1>6, UpdateIfaceRouteThrough
  <2>2. Good(o)
    BY <1>3, <1>6, UpdateIfaceRouteGood
  <2>3. o.cost \in Nat
    BY <2>2 DEF Good, Computations
  <2> QED
    BY <1>1, <1>3, <1>4, <1>6, <2>1, <2>3 DEF Through
<1>7. CASE ~up /\ (o = b \/ o = [b EXCEPT !.err = TRUE, !.cost = @ + 1])
  <2>1. o.cost = b.cost \/ o.cost = b.cost + 1
    BY <1>3, <1>7, Zenon DEF Computations
  <2> QED
    BY <1>1, <1>3, <1>4, <1>7, <2>1 DEF Through
<1> QED
  BY ZenonT(30), <1>2, <1>5, <1>6, <1>7

\* A teardown is refused at most once for each of the three things it deletes.
LEMMA TeardownCost ==
    ASSUME NEW s, Good(s), NEW o \in Teardown(s)
    PROVE  o.cost \in Nat
<1> DEFINE left == [rule |-> s.t.rule /\ ~s.f.rule_added,
                    blackhole |-> s.t.blackhole /\ ~s.f.blackhole_added,
                    route |-> IF s.f.iface_route_present THEN RouteDel(s, ifindex).t.route
                                                         ELSE s.t.route]
<1>1. s \in Computations /\ s.cost \in Nat
  BY DEF Good, Computations
<1>2. PICK kept \in SUBSET DOMAIN left :
         o = [s EXCEPT !.t = [k \in DOMAIN left |-> IF k \in kept THEN s.t[k] ELSE left[k]],
                       !.f = NothingAdded,
                       !.stuck = \E k \in kept : s.t[k] # left[k],
                       !.cost = @ + Cardinality(kept)]
  BY ZenonT(30) DEF Teardown
<1>3. DOMAIN left = {"rule", "blackhole", "route"}
  OBVIOUS
<1> HIDE DEF left
<1>4. o.cost = s.cost + Cardinality(kept)
  BY ZenonT(30), <1>1, <1>2 DEF Computations
<1>5. IsFiniteSet({"rule", "blackhole", "route"})
  <2>1. IsFiniteSet({"rule"} \cup {"blackhole"})
    BY FS_Singleton, FS_AddElement, ZenonT(30)
  <2>2. IsFiniteSet(({"rule"} \cup {"blackhole"}) \cup {"route"})
    BY <2>1, FS_AddElement, Zenon
  <2>3. ({"rule"} \cup {"blackhole"}) \cup {"route"} = {"rule", "blackhole", "route"}
    OBVIOUS
  <2> QED
    BY <2>2, <2>3, Zenon
<1>6. Cardinality(kept) \in Nat
  BY <1>2, <1>3, <1>5, FS_Subset, FS_CardinalityType
<1> QED
  BY <1>1, <1>4, <1>6

\* mt_ipset_to_link_enable on a free index, with the link up: without a refusal
\* the group believes in its route.
LEMMA EnableThrough ==
    ASSUME GatewayForIface \subseteq Gws, ifindex \in 0 .. MaxLinks,
           NEW o \in EnableOutcomes(Start(EmptyTable, NothingAdded))
    PROVE  o.cost \in Nat /\ (up /\ ~o.err /\ o.cost = 0 => o.f.iface_route_present)
<1> DEFINE s == Start(EmptyTable, NothingAdded)
           steps == UNION {IF a.err THEN {a} ELSE InsertIpRoute(a) : a \in InsertIpRule(s)}
<1>1. Good(s)
  <2>1. EmptyTable \in Tables /\ NothingAdded \in FamilyStates
    BY LinkAssumption DEF EmptyTable, Tables, NoRoute, Routes, Gws, NothingAdded, FamilyStates
  <2>2. s \in Computations /\ s.t = EmptyTable /\ s.f = NothingAdded
    BY <2>1 DEF Start, Computations
  <2>3. Honest(EmptyTable, NothingAdded)
    BY SMTT(30) DEF Honest, EmptyTable
  <2> HIDE DEF s
  <2> QED
    BY <2>2, <2>3 DEF Good
<1>2. ASSUME NEW c \in steps
      PROVE  /\ Good(c) /\ c \in Computations /\ c.cost \in Nat
             /\ up /\ ~c.err /\ c.cost = 0 => c.f.iface_route_present
  <2>1. PICK a \in InsertIpRule(s) : c \in IF a.err THEN {a} ELSE InsertIpRoute(a)
    BY ZenonT(30), <1>2
  <2>2. Good(a) /\ a.cost \in Nat
    <3>1. Good(a)
      BY ZenonT(30), <1>1, InsertIpRuleGood
    <3> QED
      BY <3>1 DEF Good, Computations
  <2>3. CASE a.err
    BY <2>1, <2>2, <2>3 DEF Good
  <2>4. CASE ~a.err
    <3>1. Good(c) /\ Through(a, c)
      BY ZenonT(30), <2>1, <2>2, <2>4, InsertIpRouteGood, InsertIpRouteThrough
    <3>2. c \in Computations /\ c.cost \in Nat
      BY <3>1 DEF Good, Computations
    <3>3. up /\ c.cost = a.cost => c.f.iface_route_present
      BY ZenonT(30), <2>4, <3>1 DEF Through
    <3>4. a.cost \in Nat /\ c.cost \in Nat /\ c.cost >= a.cost
      BY ZenonT(30), <2>2, <3>1, <3>2 DEF Through
    <3>5. c.cost = 0 => c.cost = a.cost
      BY <3>4
    <3> QED
      BY ZenonT(30), <3>1, <3>2, <3>3, <3>5
  <2> QED
    BY ZenonT(30), <2>3, <2>4
<1>3. PICK b \in steps \cup {[c EXCEPT !.err = TRUE, !.cost = @ + 1] : c \in {d \in steps : ~d.err}} :
         o \in IF b.err THEN Teardown(b) ELSE {b}
  BY ZenonT(30) DEF EnableOutcomes
<1> HIDE DEF s, steps
<1>4. CASE b \in steps /\ ~b.err
  BY <1>3, <1>2, <1>4, Zenon
<1>5. CASE b.err
  <2>1. Good(b)
    <3>1. CASE b \in steps
      BY ZenonT(30), <1>2, <3>1
    <3>2. ASSUME NEW c \in steps, b = [c EXCEPT !.err = TRUE, !.cost = @ + 1] PROVE Good(b)
      <4>1. Good(c)
        BY ZenonT(30), <1>2
      <4> QED
        BY ZenonT(30), <3>2, <4>1, RefusedGood
    <3> QED
      BY ZenonT(30), <1>3, <3>1, <3>2
  <2>2. o \in Teardown(b)
    BY ZenonT(30), <1>3, <1>5
  <2>3. o.cost \in Nat /\ o.err = b.err
    BY ZenonT(30), <2>1, <2>2, TeardownCost, TeardownGood
  <2> QED
    BY ZenonT(30), <1>5, <2>3
<1>6. CASE b \notin steps
  <2>1. PICK c \in steps : b = [c EXCEPT !.err = TRUE, !.cost = @ + 1]
    BY ZenonT(30), <1>3, <1>6
  <2>2. c \in Computations
    BY ZenonT(30), <1>2
  <2>3. b.err = TRUE
    BY <2>1, <2>2, Zenon DEF Computations
  <2> QED
    BY ZenonT(30), <1>5, <2>3
<1> QED
  BY ZenonT(30), <1>4, <1>5, <1>6

\* A link-up that has not been handled yet waits in the socket; until then the
\* routes may be missing.
UpPending == \E k \in 1 .. Len(events) : events[k] = "link_up"

SeenInv ==
    /\ events \in Seq({"link_up", "link_down", "addr"}) /\ Len(events) <= MaxEvents
    /\ faults \in 0 .. MaxFaults /\ crashes \in 0 .. MaxCrashes
    /\ up /\ faults = 0 /\ ~UpPending =>
          \A g \in Groups : enabled[g] => fs[g].iface_route_present

\* Nothing is enabled at first.
LEMMA SeenInit == Init => SeenInv
BY LinkAssumption DEF Init, SeenInv

\* What an event appended by the watcher's socket does to the queue.
LEMMA NotifyQueue ==
    ASSUME SeenInv, NEW e \in {"link_up", "link_down", "addr"}, Notify(e)
    PROVE  /\ events' \in Seq({"link_up", "link_down", "addr"}) /\ Len(events') <= MaxEvents
           /\ UpPending \/ e = "link_up" => UpPending'
<1>1. events \in Seq({"link_up", "link_down", "addr"}) /\ Len(events) < MaxEvents
      /\ events' = Append(events, e)
  BY DEF SeenInv, Notify
<1>2. /\ events' \in Seq({"link_up", "link_down", "addr"})
      /\ Len(events') = Len(events) + 1 /\ Len(events) \in Nat
      /\ \A k \in 1 .. Len(events) : events'[k] = events[k]
      /\ events'[Len(events) + 1] = e
  BY <1>1
<1> QED
  BY <1>1, <1>2, LinkAssumption DEF UpPending

\* The next event taken from the socket.
LEMMA TakeEvent ==
    ASSUME SeenInv, events # <<>>, events' = Tail(events)
    PROVE  /\ events' \in Seq({"link_up", "link_down", "addr"}) /\ Len(events') <= MaxEvents
           /\ Head(events) \in {"link_up", "link_down", "addr"}
           /\ Head(events) # "link_up" /\ ~UpPending' => ~UpPending
<1>1. events \in Seq({"link_up", "link_down", "addr"}) /\ Len(events) <= MaxEvents
  BY DEF SeenInv
<1>2. /\ events' \in Seq({"link_up", "link_down", "addr"}) /\ Len(events) \in Nat
      /\ Len(events') = Len(events) - 1 /\ Head(events) = events[1]
      /\ Head(events) \in {"link_up", "link_down", "addr"}
      /\ \A k \in 1 .. Len(events) - 1 : events'[k] = events[k + 1]
  BY <1>1
<1>3. ASSUME Head(events) # "link_up", UpPending PROVE UpPending'
  <2>1. PICK k \in 1 .. Len(events) : events[k] = "link_up"
    BY <1>3 DEF UpPending
  <2>2. k # 1 /\ k - 1 \in 1 .. Len(events')
    BY <1>2, <1>3, <2>1
  <2>3. events'[k - 1] = "link_up"
    BY <1>2, <2>1, <2>2
  <2> QED
    BY <2>2, <2>3 DEF UpPending
<1> QED
  BY <1>1, <1>2, <1>3, LinkAssumption

\* The handlers of an event: without a refusal, and with the link up, every
\* enabled group ends with its route believed in.
LEMMA HandleSeen ==
    ASSUME LinkInv, SeenInv, NEW event, Handle(event)
    PROVE  /\ faults' \in 0 .. MaxFaults
           /\ faults' = 0 => faults = 0
           /\ up /\ faults' = 0 => \A g \in Groups : enabled[g] => fs'[g].iface_route_present
<1> DEFINE out == [g \in Groups |->
                     IF ~enabled[g] THEN {Start(EmptyTable, NothingAdded)}
                     ELSE IF event = "link_up" THEN InsertIpRoute(Start(tab[mark[g]], fs[g]))
                     ELSE UpdateIfaceRoute(Start(tab[mark[g]], fs[g]))]
<1>1. PICK r : /\ \A g \in Groups : r[g] \in out[g]
               /\ LET paid == SumFunction([g \in Groups |-> r[g].cost])
                  IN  faults + paid <= MaxFaults /\ faults' = faults + paid
               /\ fs' = [g \in Groups |-> r[g].f]
  BY Zenon DEF Handle
<1>2. ASSUME NEW g \in Groups, enabled[g]
      PROVE  r[g].cost \in Nat /\ (up /\ r[g].cost = 0 => r[g].f.iface_route_present)
  <2> DEFINE s == Start(tab[mark[g]], fs[g])
  <2>1. Good(s) /\ s.cost = 0 /\ ~s.err
    <3>1. tab[mark[g]] \in Tables /\ fs[g] \in FamilyStates /\ Honest(tab[mark[g]], fs[g])
      BY <1>2 DEF LinkInv, LinkTypes, MemoryHonest, MarksDistinct
    <3>2. s \in Computations /\ s.t = tab[mark[g]] /\ s.f = fs[g] /\ s.cost = 0 /\ s.err = FALSE
      BY <3>1 DEF Start, Computations
    <3> HIDE DEF s
    <3> QED
      BY <3>1, <3>2 DEF Good
  <2>2. r[g] \in InsertIpRoute(s) \/ r[g] \in UpdateIfaceRoute(s)
    BY <1>1, <1>2
  <2> HIDE DEF s
  <2>3. GatewayForIface \subseteq Gws /\ ifindex \in 0 .. MaxLinks
    BY GatewaysTyped DEF LinkInv, LinkTypes
  <2>4. Good(r[g]) /\ Through(s, r[g])
    BY ZenonT(30), <2>1, <2>2, <2>3, InsertIpRouteGood, UpdateIfaceRouteGood, InsertIpRouteThrough,
       UpdateIfaceRouteThrough
  <2>5. r[g].cost \in Nat
    BY <2>4 DEF Good, Computations
  <2> QED
    BY <2>1, <2>4, <2>5 DEF Through
<1>3. ASSUME NEW g \in Groups PROVE r[g].cost \in Nat
  <2>1. CASE ~enabled[g]
    <3>1. r[g] = Start(EmptyTable, NothingAdded)
      BY <1>1, <2>1
    <3> QED
      BY <3>1 DEF Start
  <2> QED
    BY <1>2, <2>1
<1> DEFINE costs == [g \in Groups |-> r[g].cost]
<1>4. SumFunction(costs) \in Nat /\ (SumFunction(costs) = 0 => \A g \in Groups : costs[g] = 0)
  <2>1. costs \in [Groups -> Nat] /\ IsFiniteSet(Groups)
    BY <1>3, LinkAssumption
  <2> HIDE DEF costs
  <2> QED
    BY <2>1, SumOfCosts
<1>5. faults \in Nat /\ faults' = faults + SumFunction(costs) /\ faults + SumFunction(costs) <= MaxFaults
  BY <1>1, LinkAssumption DEF SeenInv
<1>6. faults' \in 0 .. MaxFaults /\ (faults' = 0 => faults = 0 /\ SumFunction(costs) = 0)
  <2> HIDE DEF costs
  <2> QED
    BY <1>4, <1>5, LinkAssumption
<1>7. ASSUME up, faults' = 0, NEW g \in Groups, enabled[g] PROVE fs'[g].iface_route_present
  <2>1. r[g].cost = 0
    BY <1>4, <1>6, <1>7
  <2>2. fs'[g] = r[g].f
    BY <1>1
  <2> QED
    BY <1>2, <1>7, <2>1, <2>2
<1> QED
  BY <1>6, <1>7

\* Enabling or disabling one group leaves the others' memory alone.
LEMMA EnableSeen ==
    ASSUME LinkInv, SeenInv, NEW g \in Groups, Enable(g)
    PROVE  SeenInv'
<1> DEFINE i == AllocMarkTable
<1>1. tab[i] = EmptyTable
  <2>1. i \in Indexes \ InUse
    BY AllocFree DEF Enable
  <2> QED
    BY <2>1 DEF InUse
<1>2. PICK s \in EnableOutcomes(Start(tab[i], NothingAdded)) :
         /\ Pay(s)
         /\ enabled' = [enabled EXCEPT ![g] = ~s.err]
         /\ fs' = [fs EXCEPT ![g] = s.f]
  BY ZenonT(30) DEF Enable
<1> HIDE DEF i
<1>3. s.cost \in Nat /\ (up /\ ~s.err /\ s.cost = 0 => s.f.iface_route_present)
  BY <1>1, <1>2, EnableThrough, GatewaysTyped DEF LinkInv, LinkTypes
<1>4. UNCHANGED <<up, events, crashes>>
  BY DEF Enable, linkVars
<1>5. faults' \in 0 .. MaxFaults /\ (faults' = 0 => faults = 0 /\ s.cost = 0)
  BY <1>2, <1>3, LinkAssumption DEF Pay, SeenInv
<1>6. /\ enabled'[g] = ~s.err /\ fs'[g] = s.f
      /\ \A h \in Groups \ {g} : enabled'[h] = enabled[h] /\ fs'[h] = fs[h]
  BY <1>2 DEF LinkInv, LinkTypes
<1>7. ASSUME up', faults' = 0, ~UpPending', NEW h \in Groups, enabled'[h]
      PROVE  fs'[h].iface_route_present
  <2>1. up /\ faults = 0 /\ s.cost = 0 /\ ~UpPending
    BY <1>4, <1>5, <1>7 DEF UpPending
  <2>2. CASE h = g
    BY ZenonT(30), <1>3, <1>6, <1>7, <2>1, <2>2
  <2>3. CASE h # g
    BY <1>6, <1>7, <2>1, <2>3 DEF SeenInv
  <2> QED
    BY <2>2, <2>3
<1> QED
  BY <1>4, <1>5, <1>7 DEF SeenInv

\* mt_ipset_to_link_disable.
LEMMA DisableSeen ==
    ASSUME LinkInv, SeenInv, NEW g \in Groups, Disable(g)
    PROVE  SeenInv'
<1>1. PICK s \in Teardown(Start(tab[mark[g]], fs[g])) : Pay(s) /\ fs' = [fs EXCEPT ![g] = s.f]
  BY ZenonT(30) DEF Disable
<1>2. s.cost \in Nat
  <2>1. Good(Start(tab[mark[g]], fs[g]))
    <3>1. tab[mark[g]] \in Tables /\ fs[g] \in FamilyStates /\ Honest(tab[mark[g]], fs[g])
      BY DEF Disable, LinkInv, LinkTypes, MemoryHonest, MarksDistinct
    <3>2. /\ Start(tab[mark[g]], fs[g]) \in Computations
          /\ Start(tab[mark[g]], fs[g]).t = tab[mark[g]] /\ Start(tab[mark[g]], fs[g]).f = fs[g]
      BY <3>1 DEF Start, Computations
    <3> QED
      BY <3>1, <3>2 DEF Good
  <2> QED
    BY <2>1, TeardownCost
<1>3. UNCHANGED <<up, events, crashes>> /\ enabled' = [enabled EXCEPT ![g] = FALSE]
  BY DEF Disable, linkVars
<1>4. faults' \in 0 .. MaxFaults /\ (faults' = 0 => faults = 0)
  BY <1>1, <1>2, LinkAssumption DEF Pay, SeenInv
<1>5. enabled'[g] = FALSE /\ \A h \in Groups \ {g} : enabled'[h] = enabled[h] /\ fs'[h] = fs[h]
  BY <1>1, <1>3 DEF LinkInv, LinkTypes
<1>6. ASSUME up', faults' = 0, ~UpPending', NEW h \in Groups, enabled'[h]
      PROVE  fs'[h].iface_route_present
  <2>1. up /\ faults = 0 /\ ~UpPending /\ h # g
    BY <1>3, <1>4, <1>5, <1>6 DEF UpPending
  <2> QED
    BY <1>5, <1>6, <2>1 DEF SeenInv
<1> QED
  BY <1>3, <1>4, <1>6 DEF SeenInv

\* on_link_up, on_addr_change, and an event nobody handles.
LEMMA OnReadableSeen ==
    ASSUME LinkInv, SeenInv, OnReadable
    PROVE  SeenInv'
<1>1. events # <<>> /\ events' = Tail(events) /\ UNCHANGED <<up, enabled, crashes>>
  BY DEF OnReadable, linkVars
<1>2. /\ events' \in Seq({"link_up", "link_down", "addr"}) /\ Len(events') <= MaxEvents
      /\ Head(events) # "link_up" /\ ~UpPending' => ~UpPending
  BY <1>1, TakeEvent
<1>3. CASE Handle("link_up") \/ Handle("addr")
  <2>1. /\ faults' \in 0 .. MaxFaults
        /\ up /\ faults' = 0 => \A g \in Groups : enabled[g] => fs'[g].iface_route_present
    BY <1>3, HandleSeen
  <2> QED
    BY <1>1, <1>2, <2>1 DEF SeenInv
<1>4. CASE Head(events) # "link_up" /\ UNCHANGED <<fs, faults>>
  BY <1>1, <1>2, <1>4 DEF SeenInv
<1> QED
  BY <1>3, <1>4 DEF OnReadable

\* Every step keeps the memory of the routes up to date with the events handled.
LEMMA SeenStep == LinkInv /\ SeenInv /\ [Next]_vars => SeenInv'
<1> SUFFICES ASSUME LinkInv, SeenInv, [Next]_vars PROVE SeenInv'
  OBVIOUS
<1>1. ASSUME NEW g \in Groups, Enable(g) \/ Disable(g) PROVE SeenInv'
  BY <1>1, EnableSeen, DisableSeen
<1>2. CASE OnReadable
  BY <1>2, OnReadableSeen
<1>3. CASE Crash
  <2>1. /\ events' = <<>> /\ crashes' \in 0 .. MaxCrashes /\ faults' = faults
        /\ \A g \in Groups : enabled'[g] = FALSE
    BY <1>3, LinkAssumption DEF Crash, SeenInv
  <2> QED
    BY <2>1, LinkAssumption DEF SeenInv
<1>4. CASE LinkUp
  <2>1. Notify("link_up") /\ UNCHANGED <<faults, crashes>>
    BY <1>4 DEF LinkUp
  <2> QED
    BY <2>1, NotifyQueue DEF SeenInv
<1>5. CASE LinkDown
  <2>1. Notify("link_down") /\ ~up' /\ UNCHANGED <<faults, crashes>>
    BY <1>5 DEF LinkDown
  <2> QED
    BY <2>1, NotifyQueue DEF SeenInv
<1>6. CASE NewAddress
  <2>1. Notify("addr") /\ UNCHANGED <<up, enabled, fs, faults, crashes>>
    BY <1>6 DEF NewAddress, groupVars
  <2> QED
    BY <2>1, NotifyQueue DEF SeenInv
<1>7. CASE UNCHANGED vars
  BY <1>7 DEF vars, linkVars, groupVars, SeenInv, UpPending
<1> QED
  BY <1>1, <1>2, <1>3, <1>4, <1>5, <1>6, <1>7 DEF Next

\* The second invariant, on top of the first.
THEOREM SeenInvariant == Spec => [](LinkInv /\ SeenInv)
<1>1. Init => LinkInv /\ SeenInv
  BY LinkInit, SeenInit
<1>2. LinkInv /\ SeenInv /\ [Next]_vars => LinkInv' /\ SeenInv'
  BY LinkStep, SeenStep
<1> QED
  BY <1>1, <1>2, PTL DEF Spec

\* All of the state is well typed throughout, the count of refused requests, a
\* sum over the groups, included.
THEOREM LinkTypeCorrect == Spec => []TypeOK
<1>1. LinkInv /\ SeenInv => TypeOK
  BY DEF LinkInv, LinkTypes, SeenInv, TypeOK
<1> QED
  BY <1>1, SeenInvariant, PTL

\* Once the watcher's events are drained with the link up, every enabled group
\* believes in its route, in whatever order links, addresses, enables and kills
\* came: no link-up is lost between the socket and the groups.
THEOREM LinkUpIsSeen == Spec => []LinkUpSeen
<1>1. LinkInv /\ SeenInv => LinkUpSeen
  BY DEF SeenInv, LinkUpSeen, UpPending
<1> QED
  BY <1>1, SeenInvariant, PTL
=============================================================================
