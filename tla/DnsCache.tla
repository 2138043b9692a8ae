------------------------------ MODULE DnsCache ------------------------------
(***************************************************************************)
(* The DNS records cache (dns_cache/cache.c): addresses and at most one    *)
(* alias per domain, each with a deadline, and the reverse index from an   *)
(* alias to the domains pointing at it.  Only the loop thread touches it,  *)
(* so an operation is one step.  The clock is time(NULL): it may be set    *)
(* back.  Allocation failures are part of the model: each leaves a state   *)
(* of its own behind.                                                      *)
(***************************************************************************)
EXTENDS Integers, FiniteSets, Sequences

CONSTANTS Names,        \* domain names
          NoName,       \* no alias
          Addrs,        \* addresses
          Ttls,         \* total TTLs of records, in seconds
          MaxDomains,   \* max_domains of mt_cache_create
          MaxSeen,      \* slots of the cycle guard (64 in the code)
          MaxTime,      \* bound: values of the clock
          MaxDropped,   \* bound: insertions refused in a behaviour
          MaxFaults     \* bound: failing allocations in a behaviour

ASSUME CacheAssumption ==
    /\ IsFiniteSet(Names) /\ NoName \notin Names
    /\ Ttls \subseteq Nat
    /\ MaxDomains \in Nat \ {0} /\ MaxSeen \in Nat \ {0}
    /\ MaxTime \in Nat /\ MaxDropped \in Nat /\ MaxFaults \in Nat

Absent == -1
Deadlines == Nat \cup {Absent}

VARIABLES nodes,           \* domains that have a node
          addrs,           \* domain -> address -> deadline, or Absent
          alias,           \* domain -> its alias, or NoName
          alias_deadline,
          rev,             \* alias -> domain -> how often the list names it
          n_domains, dropped,
          now, faults

cacheVars == <<nodes, addrs, alias, alias_deadline, rev, n_domains, dropped>>
vars == <<cacheVars, now, faults>>

TypeOK ==
    /\ nodes \subseteq Names
    /\ addrs \in [Names -> [Addrs -> Deadlines]]
    /\ alias \in [Names -> Names \cup {NoName}]
    /\ alias_deadline \in [Names -> Nat]
    /\ rev \in [Names -> [Names -> Nat]]
    /\ n_domains \in Nat /\ dropped \in 0 .. MaxDropped
    /\ now \in 0 .. MaxTime /\ faults \in 0 .. MaxFaults

Init ==
    /\ nodes = {} /\ n_domains = 0 /\ dropped = 0
    /\ addrs = [d \in Names |-> [a \in Addrs |-> Absent]]
    /\ alias = [d \in Names |-> NoName]
    /\ alias_deadline = [d \in Names |-> 0]
    /\ rev = [a \in Names |-> [d \in Names |-> 0]]
    /\ now \in 0 .. MaxTime /\ faults = 0

-----------------------------------------------------------------------------
\* Lookups.

Valid(d, t) == {a \in Addrs : addrs[d][a] > t}
Follows(d, t) == alias[d] # NoName /\ alias_deadline[d] > t

\* A first hop whose addresses have all expired ends the walk.
AddressHopStopsAtExpired(domain, t) ==
    LET walk[seen \in Seq(Names) \ {<<>>}] ==
          LET d == seen[Len(seen)] IN
          IF Valid(d, t) # {} THEN d
          ELSE IF \/ ~Follows(d, t) \/ Len(seen) >= MaxSeen
                  \/ \E a \in Addrs : addrs[d][a] # Absent
                  \/ \E i \in 1 .. Len(seen) : seen[i] = alias[d]
          THEN NoName
          ELSE walk[Append(seen, alias[d])]
    IN  walk[<<domain>>]

\* mt_cache_get_addresses walks the alias chain up to the first domain with an
\* unexpired address; seen is the cycle guard.
AddressHop(domain, t) ==
    LET walk[seen \in Seq(Names) \ {<<>>}] ==
          LET d == seen[Len(seen)] IN
          IF Valid(d, t) # {} THEN d
          ELSE IF \/ ~Follows(d, t)
                  \/ Len(seen) >= MaxSeen
                  \/ \E i \in 1 .. Len(seen) : seen[i] = alias[d]
          THEN NoName
          ELSE walk[Append(seen, alias[d])]
    IN  walk[<<domain>>]

GetAddresses(domain, t) ==
    LET hop == AddressHop(domain, t) IN IF hop = NoName THEN {} ELSE Valid(hop, t)

\* Only the direct predecessors.
GetAliasesOneLevel(domain) == {domain} \cup {d \in Names : rev[domain][d] > 0}

\* mt_cache_get_aliases: breadth first over the reverse index, whatever the
\* deadlines.
GetAliases(domain) ==
    LET pointing(S) == {d \in Names : \E a \in S : rev[a][d] > 0}
        bfs[found \in SUBSET Names] ==
          IF pointing(found) \subseteq found THEN found ELSE bfs[found \cup pointing(found)]
    IN  bfs[{domain}]

-----------------------------------------------------------------------------
\* Updates.

\* The capacity test off by one.
RefusedLate(d) == d \notin nodes /\ n_domains > MaxDomains

\* dom_find_or_create: the insertion is refused at capacity or without memory.
Refused(d) == d \notin nodes /\ n_domains >= MaxDomains
NoMemory == faults < MaxFaults /\ faults' = faults + 1

Drop ==
    /\ dropped < MaxDropped
    /\ dropped' = dropped + 1
    /\ UNCHANGED <<nodes, addrs, alias, alias_deadline, rev, n_domains, now>>

Create(d) ==
    /\ nodes' = nodes \cup {d}
    /\ n_domains' = IF d \in nodes THEN n_domains ELSE n_domains + 1

AddAddress(d, a, ttl) ==
    \/ Refused(d) /\ Drop /\ UNCHANGED faults
    \/ d \notin nodes /\ ~Refused(d) /\ NoMemory /\ Drop
    \/ /\ ~Refused(d)
       /\ Create(d)
       /\ addrs' = [addrs EXCEPT ![d][a] = now + ttl]
       /\ UNCHANGED <<alias, alias_deadline, rev, dropped, now, faults>>
    \/ /\ ~Refused(d) /\ addrs[d][a] = Absent   \* the list cannot grow
       /\ NoMemory
       /\ Create(d)
       /\ UNCHANGED <<addrs, alias, alias_deadline, rev, dropped, now>>

\* Mutant: the old edge is left behind.
RevKeep(r, a, d) == r

\* rev_remove and rev_add on one entry of the index.
RevRemove(r, a, d) ==
    IF a = NoName \/ r[a][d] = 0 THEN r ELSE [r EXCEPT ![a][d] = @ - 1]
RevAdd(r, a, d) == [r EXCEPT ![a][d] = @ + 1]

\* A self-alias is ignored.  Without memory for the alias the old one is gone
\* all the same; without memory for the index the alias stands alone.
SetAlias(d, target, ttl) ==
    /\ Create(d)
    /\ alias' = [alias EXCEPT ![d] = target]
    /\ alias_deadline' = [alias_deadline EXCEPT ![d] = now + ttl]
    /\ LET r == RevRemove(rev, alias[d], d)
       IN  \/ rev' = RevAdd(r, target, d) /\ UNCHANGED faults
           \/ rev' = r /\ NoMemory
    /\ UNCHANGED <<addrs, dropped, now>>

LoseAlias(d) ==
    /\ NoMemory
    /\ alias' = [alias EXCEPT ![d] = NoName]
    /\ rev' = RevRemove(rev, alias[d], d)
    /\ IF \A a \in Addrs : addrs[d][a] = Absent
         THEN /\ nodes' = nodes \ {d}
              /\ n_domains' = IF d \in nodes THEN n_domains - 1 ELSE n_domains
         ELSE UNCHANGED <<nodes, n_domains>>
    /\ UNCHANGED <<addrs, alias_deadline, dropped, now>>

AddAlias(d, target, ttl) ==
    \/ d = target /\ UNCHANGED vars
    \/ d # target /\ Refused(d) /\ Drop /\ UNCHANGED faults
    \/ d # target /\ d \notin nodes /\ ~Refused(d) /\ NoMemory /\ Drop
    \/ d # target /\ ~Refused(d) /\ SetAlias(d, target, ttl)
    \/ d # target /\ ~Refused(d) /\ LoseAlias(d)

\* A second too early for the addresses.
CleanupEarly ==
    /\ addrs' = [d \in Names |-> [a \in Addrs |->
                   IF addrs[d][a] <= now + 1 THEN Absent ELSE addrs[d][a]]]
    /\ UNCHANGED <<nodes, alias, alias_deadline, rev, n_domains, dropped, now, faults>>

\* mt_cache_cleanup: drop what has expired, then the nodes left empty.
Expired == {d \in nodes : alias[d] # NoName /\ alias_deadline[d] <= now}
LeftAddrs == [d \in Names |-> [a \in Addrs |->
                IF addrs[d][a] <= now THEN Absent ELSE addrs[d][a]]]
LeftAlias == [d \in Names |-> IF d \in Expired THEN NoName ELSE alias[d]]
LeftRev == [a \in Names |-> [d \in Names |->
              IF d \in Expired /\ alias[d] = a /\ rev[a][d] > 0
                THEN rev[a][d] - 1 ELSE rev[a][d]]]
Emptied == {d \in nodes : LeftAlias[d] = NoName /\ \A a \in Addrs : LeftAddrs[d][a] = Absent}

Cleanup ==
    /\ addrs' = LeftAddrs
    /\ alias' = LeftAlias
    /\ rev' = LeftRev
    /\ nodes' = nodes \ Emptied
    /\ n_domains' = n_domains - Cardinality(Emptied)
    /\ UNCHANGED <<alias_deadline, dropped, now, faults>>

SetClock == now' \in 0 .. MaxTime /\ UNCHANGED <<cacheVars, faults>>

Next ==
    \/ \E d \in Names, a \in Addrs, ttl \in Ttls : AddAddress(d, a, ttl)
    \/ \E d, t \in Names, ttl \in Ttls : AddAlias(d, t, ttl)
    \/ Cleanup
    \/ SetClock

Spec == Init /\ [][Next]_vars

-----------------------------------------------------------------------------
\* Properties.

\* A domain is listed at most once, and only under the alias it has: every
\* change of an alias (last CNAME wins, expiry, lost allocation) takes the old
\* edge out of the index.  With no failed allocation no edge is missing.
ReverseIndexExact ==
    \A a, d \in Names :
        /\ rev[a][d] > 0 => rev[a][d] = 1 /\ alias[d] = a
        /\ faults = 0 /\ alias[d] = a => rev[a][d] = 1

\* n_domains, which decides who is refused, is the number of nodes, never
\* exceeds the capacity, and whatever is stored belongs to a node.
CapacityExact ==
    /\ n_domains = Cardinality(nodes) /\ n_domains <= MaxDomains
    /\ \A d \in Names \ nodes :
          alias[d] = NoName /\ \A a \in Addrs : addrs[d][a] = Absent

\* The domain k hops down the chain of aliases alive at t, NoName past its end.
HopsAt(domain, t) ==
    LET hop[k \in Nat] ==
          IF k = 0 THEN domain
          ELSE IF hop[k - 1] = NoName \/ ~Follows(hop[k - 1], t) THEN NoName
          ELSE alias[hop[k - 1]]
    IN  hop

\* mt_cache_get_addresses finds the nearest hop with an address, among the
\* first MaxSeen hops: stopping at a repeated name loses nothing.
LookupExact ==
    \A d \in Names :
        LET hop == HopsAt(d, now)
            good == {k \in 0 .. MaxSeen - 1 : hop[k] # NoName /\ Valid(hop[k], now) # {}}
            first == CHOOSE k \in good : \A j \in good : k <= j
        IN  GetAddresses(d, now) = IF good = {} THEN {} ELSE Valid(hop[first], now)

\* The domain k aliases down from domain, whatever the deadlines.
AliasHops(domain) ==
    LET hop[k \in Nat] ==
          IF k = 0 THEN domain ELSE IF hop[k - 1] = NoName THEN NoName ELSE alias[hop[k - 1]]
    IN  hop

\* mt_cache_get_aliases returns exactly the names whose chain of aliases,
\* expired ones included, leads to the domain.
AliasesExact ==
    faults = 0 =>
        \A d \in Names :
            GetAliases(d) = {x \in Names : \E k \in 0 .. Cardinality(Names) - 1 : AliasHops(x)[k] = d}

\* mt_cache_cleanup is invisible to lookups at the moment it runs, and leaves
\* no empty node that would use up capacity.
CleanupInvisible ==
    [][Cleanup =>
        /\ \A d \in Names : GetAddresses(d, now)' = GetAddresses(d, now)
        /\ \A d \in nodes' : alias'[d] # NoName \/ \E a \in Addrs : addrs'[d][a] # Absent]_vars
=============================================================================
