----------------------------- MODULE DnsRouting -----------------------------
(***************************************************************************)
(* From an upstream answer to a kernel ipset: the pipeline that feeds the  *)
(* records cache and adds matching addresses to the sets of the groups     *)
(* (dns/pipeline.c, on_match of main.c), the rebuild of a group's set from *)
(* the cache (netfilter/ruleset.c, mt_ruleset_sync) and the API edits that *)
(* run it (api/groups.c).  All of it is on the loop thread, one record or  *)
(* one request at a time.  One address family stands for both.             *)
(*                                                                         *)
(* A rule is the name it matches, the host address or the wider subnet it  *)
(* lists.  The kernel counts a timeout down; 0 is a permanent entry.       *)
(***************************************************************************)
EXTENDS DnsCache

CONSTANTS Groups,
          Nets,            \* subnets wider than a host
          RuleSets,        \* the sets of rules a group may be given
          ARecords,        \* <<name, address>> pairs the zones publish
          CnameRecords,    \* <<name, target>> pairs the zones publish
          AdditionalTtl,   \* additionalTTL of the configuration
          TtlMod,          \* 2^32 in the code
          MaxEdits         \* bound: API edits in a behaviour

ASSUME RoutingAssumption ==
    /\ RuleSets \subseteq SUBSET (Names \cup Addrs \cup Nets)
    /\ ARecords \subseteq Names \X Addrs /\ CnameRecords \subseteq Names \X Names
    /\ Nets \cap Addrs = {}
    /\ AdditionalTtl \in Nat /\ TtlMod \in Nat \ {0} /\ MaxEdits \in Nat

Keys == Addrs \cup Nets
Permanent == 0

VARIABLES rules,      \* group -> its enabled rules (and the published matcher)
          enabled,    \* group -> its set exists (runtime enabled)
          kset,       \* group -> key -> Absent, Permanent or seconds left
          edits

routeVars == <<rules, enabled, kset, edits>>
rvars == <<vars, routeVars>>

RTypeOK ==
    /\ TypeOK
    /\ rules \in [Groups -> RuleSets]
    /\ enabled \in [Groups -> BOOLEAN]
    /\ kset \in [Groups -> [Keys -> Deadlines]]
    /\ edits \in 0 .. MaxEdits

\* The set of a group as enable and sync leave it at startup, with an empty
\* cache: its static entries.
EmptySet == [k \in Keys |-> Absent]
StaticEntries(R) == [k \in Keys |-> IF k \in R THEN Permanent ELSE Absent]

RInit ==
    /\ Init /\ now = 0
    /\ rules \in [Groups -> RuleSets]
    /\ enabled = [g \in Groups |-> TRUE]
    /\ kset = [g \in Groups |-> StaticEntries(rules[g])]
    /\ edits = 0

-----------------------------------------------------------------------------
\* The pipeline.

Matches(g, names) == rules[g] \cap names # {}

\* mt_ruleset_add_ipv4 for every address of ttls: an add with replace.
Route(names, ttls) ==
    kset' = [g \in Groups |-> [k \in Keys |->
               IF enabled[g] /\ Matches(g, names) /\ k \in DOMAIN ttls
                 THEN ttls[k] ELSE kset[g][k]]]

TotalTtl(ttl) == (ttl + AdditionalTtl) % TtlMod

HandleAddress(d, a, ttl) ==
    /\ AddAddress(d, a, TotalTtl(ttl))
    /\ Route(GetAliases(d), [k \in {a} |-> TotalTtl(ttl)])
    /\ UNCHANGED <<rules, enabled, edits>>

\* Seconds left of an address that get_addresses returns for d.
Remaining(d, a) == addrs[AddressHop(d, now)][a] - now

\* Only the groups that match the record's own name.
HandleCnameOwnName(d, target, ttl) ==
    /\ AddAlias(d, target, TotalTtl(ttl))
    /\ Route({d}, [a \in GetAddresses(d, now)' |-> Remaining(d, a)'])
    /\ UNCHANGED <<rules, enabled, edits>>

HandleCname(d, target, ttl) ==
    /\ AddAlias(d, target, TotalTtl(ttl))
    /\ Route(GetAliases(d)', [a \in GetAddresses(d, now)' |-> Remaining(d, a)'])
    /\ UNCHANGED <<rules, enabled, edits>>

-----------------------------------------------------------------------------
\* mt_ruleset_sync.

\* The names of R that are cached, and what they resolve to now.
Sources(R, a) == {d \in R \cap nodes : a \in GetAddresses(d, now)}
Found(R) == {a \in Addrs : Sources(R, a) # {}}
LongestTtl(R, a) ==
    LET ttls == {Remaining(d, a) : d \in Sources(R, a)}
    IN  CHOOSE t \in ttls : \A u \in ttls : u <= t

\* The prefix length the kernel lists a key with, and the one sync gives to an
\* address taken from the cache.
ListedCidr(k) == IF k \in Addrs THEN 32 ELSE 24
FoundCidr == 0

\* The cache is not consulted.
NewListStatic(R) ==
    {[key |-> k, cidr |-> ListedCidr(k), ttl |-> Permanent] : k \in R \cap Keys}

\* sync_build_new_lists.
NewList(R) ==
    {[key |-> k, cidr |-> ListedCidr(k), ttl |-> Permanent] : k \in R \cap Keys}
        \cup {[key |-> a, cidr |-> FoundCidr, ttl |-> LongestTtl(R, a)] : a \in Found(R)}

\* Stale entries are not deleted.
SyncedKeepsStale(old, R, later) ==
    [k \in Keys |->
       IF \E it \in NewList(R) : it.key = k THEN (CHOOSE it \in NewList(R) : it.key = k).ttl
       ELSE old[k]]

\* sync_diff_v4: add what is new or lives longer, then delete the listed
\* entries that nothing matched.  later holds the keys whose static rule comes
\* after the rule for a name.
Synced(old, R, later) ==
    LET listed(it) == old[it.key] # Absent /\ it.cidr = ListedCidr(it.key)
        skip(it) == /\ listed(it)
                    /\ old[it.key] = Permanent \/ (it.ttl # Permanent /\ it.ttl < old[it.key])
        added(k) == {it.ttl : it \in {i \in NewList(R) : i.key = k /\ ~skip(i)}}
        kept(k) == \E it \in NewList(R) : it.key = k /\ listed(it)
    IN  [k \in Keys |->
           IF old[k] # Absent /\ ~kept(k) THEN Absent
           ELSE IF added(k) = {} THEN old[k]
           ELSE CHOOSE t \in added(k) :
                  added(k) = {t} \/ (t = Permanent) = (k \in later)]

-----------------------------------------------------------------------------
\* API edits and time.

Edit == edits < MaxEdits /\ edits' = edits + 1 /\ UNCHANGED vars

\* handle_put_rules, handle_create_rule, handle_put_rule, handle_delete_rule:
\* change the rules, publish them, sync a group that is enabled.
PutRules(g, R) ==
    /\ Edit
    /\ rules' = [rules EXCEPT ![g] = R]
    /\ \E later \in SUBSET Addrs :
          kset' = IF enabled[g] THEN [kset EXCEPT ![g] = Synced(@, R, later)] ELSE kset
    /\ UNCHANGED enabled

\* handle_put_group: the set is destroyed, and made anew when the body is good.
PutGroup(g, R) ==
    /\ Edit
    /\ rules' = [rules EXCEPT ![g] = R]
    /\ \E later \in SUBSET Addrs :
          kset' = IF enabled[g] THEN [kset EXCEPT ![g] = Synced(EmptySet, R, later)] ELSE kset
    /\ UNCHANGED enabled

PutGroupInvalid(g) ==
    /\ enabled[g]
    /\ Edit
    /\ enabled' = [enabled EXCEPT ![g] = FALSE]
    /\ kset' = [kset EXCEPT ![g] = EmptySet]
    /\ UNCHANGED rules

CleanupTimer == Cleanup /\ UNCHANGED routeVars

Second ==
    /\ now < MaxTime
    /\ now' = now + 1
    /\ kset' = [g \in Groups |-> [k \in Keys |->
                  IF kset[g][k] = 1 THEN Absent
                  ELSE IF kset[g][k] > 1 THEN kset[g][k] - 1 ELSE kset[g][k]]]
    /\ UNCHANGED <<cacheVars, faults, rules, enabled, edits>>

RNext ==
    \/ \E r \in ARecords, ttl \in Ttls : HandleAddress(r[1], r[2], ttl)
    \/ \E r \in CnameRecords, ttl \in Ttls : HandleCname(r[1], r[2], ttl)
    \/ \E g \in Groups, R \in RuleSets : PutRules(g, R)
    \/ \E g \in Groups, R \in RuleSets : PutGroup(g, R)
    \/ \E g \in Groups : PutGroupInvalid(g)
    \/ CleanupTimer
    \/ Second

RSpec == RInit /\ [][RNext]_rvars

-----------------------------------------------------------------------------
\* Properties.

Present(g) == {k \in Keys : kset[g][k] # Absent}
Wanted(R) == (R \cap Keys) \cup Found(R)

\* What the cache resolves a matched name to is in the group's set, for as
\* long as the cache holds it, in whatever order the records of the chain came
\* (before any edit and any failing allocation).
ResolvedIsRouted ==
    edits = 0 /\ faults = 0 =>
        \A g \in Groups : enabled[g] => Found(rules[g]) \subseteq Present(g)

\* After an edit and its sync the set holds nothing the rules do not want, and
\* every subnet rule is there for good.
SyncSound ==
    [][\A g \in Groups, R \in RuleSets : PutRules(g, R) /\ enabled[g] =>
          /\ Present(g)' \subseteq Wanted(R)
          /\ R \cap Keys \subseteq Present(g)'
          /\ \A k \in R \cap Nets : kset'[g][k] = Permanent]_rvars

\* Replacing a group builds its set from nothing: exactly what the rules want,
\* names with the longest time left.
RebuildExact ==
    [][\A g \in Groups, R \in RuleSets : PutGroup(g, R) /\ enabled[g] =>
          /\ Present(g)' = Wanted(R)
          /\ \A k \in Wanted(R) : kset'[g][k] = Permanent \/ kset'[g][k] = LongestTtl(R, k)]_rvars

-----------------------------------------------------------------------------
\* What the documents say.

\* "then diffs against the kernel set (list via netlink) - adds
\* missing/longer-TTL entries, deletes stale ones"
\* (docs/c-rewrite/current-architecture.md): after a sync, whatever the rules
\* want is in the set.
SyncAddsMissing ==
    [][\A g \in Groups, R \in RuleSets : PutRules(g, R) /\ enabled[g] =>
          Wanted(R) \subseteq Present(g)']_rvars
=============================================================================
