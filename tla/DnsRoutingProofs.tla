-------------------------- MODULE DnsRoutingProofs --------------------------
(***************************************************************************)
(* DnsCache for any set of names, addresses and TTLs and any capacity, and *)
(* DnsRouting for any groups, rules, zones and any number of edits.        *)
(*                                                                         *)
(* The cache: types, reverse index and count of nodes are inductive        *)
(* together.  The count stays a natural number only because it is the      *)
(* number of nodes, and an edge can be taken out of the index only because *)
(* it is where the alias says.  On top of it, what the two walks over the  *)
(* cache compute: the lookup is the nearest hop with an address, the       *)
(* search over the index is the set of names that lead to a domain.        *)
(*                                                                         *)
(* Routing: the types of the kernel sets, what the sync of an edited group *)
(* leaves in its set, key by key, and that what a matched name resolves to *)
(* is in the set of the group.  The lookup gives every time left as a      *)
(* number of one name of the chain, so the longest of them exists.  The    *)
(* last theorem is for zones in which no two names share an address.  Its  *)
(* invariant speaks of every hop of every chain of live aliases, not of    *)
(* what a lookup returns: it then survives the steps that turn a chain to  *)
(* another end.                                                            *)
(***************************************************************************)
EXTENDS DnsRouting, FiniteSetTheorems, TLAPS

-----------------------------------------------------------------------------
\* The cache.

\* A set of natural numbers that is not empty has a least element.
LEMMA LeastNat ==
    ASSUME NEW S \in SUBSET Nat, S # {}
    PROVE  \E m \in S : \A k \in S : m <= k
<1>1. PICK m \in S : \A k \in S : <<k, m>> \notin OpToRel(<, Nat)
  BY Zenon, NatLessThanWellFounded, WFMin
<1>2. \A k \in S : ~(k < m)
  BY <1>1, Zenon DEF OpToRel
<1> QED
  BY <1>2

\* A set with 0 and with the successor of each of its numbers holds them all.
LEMMA NatSetInduction ==
    ASSUME NEW S, 0 \in S, \A n \in Nat : n \in S => n + 1 \in S
    PROVE  \A n \in Nat : n \in S
<1> DEFINE B == Nat \ S
<1>1. CASE B # {}
  <2>1. PICK m \in B : \A k \in B : m <= k
    BY <1>1, LeastNat, Zenon
  <2>2. m - 1 \in Nat /\ m - 1 \in S
    BY <2>1
  <2> QED
    BY <2>1, <2>2
<1> QED
  BY <1>1, Zenon

\* What the first n + 1 values of the iteration of step from x are.
Runs(x, step, S, n) ==
    {g \in [0 .. n -> S] : g[0] = x /\ \A i \in 1 .. n : g[i] = step[i][g[i - 1]]}

\* They are determined, and a longer run begins with them.
LEMMA RunsAgree ==
    ASSUME NEW S, NEW x, NEW step, NEW m \in Nat, NEW n \in Nat, m <= n,
           NEW g \in Runs(x, step, S, m), NEW h \in Runs(x, step, S, n)
    PROVE  \A i \in 0 .. m : g[i] = h[i]
<1> DEFINE A == {i \in Nat : i <= m => g[i] = h[i]}
<1>1. 0 \in A
  BY Zenon DEF Runs
<1>2. ASSUME NEW i \in Nat, i \in A PROVE i + 1 \in A
  <2>1. CASE i + 1 <= m
    <3>1. i + 1 \in 1 .. m /\ i + 1 \in 1 .. n /\ (i + 1) - 1 = i /\ g[i] = h[i]
      BY <1>2, <2>1
    <3>2. g[i + 1] = step[i + 1][g[(i + 1) - 1]] /\ h[i + 1] = step[i + 1][h[(i + 1) - 1]]
      BY <3>1, Zenon DEF Runs
    <3>3. g[i + 1] = h[i + 1]
      BY <3>1, <3>2, Zenon
    <3> QED
      BY <3>3
  <2> QED
    BY <2>1
<1> HIDE DEF A
<1>3. \A i \in Nat : i \in A
  BY <1>1, <1>2, NatSetInduction, Zenon
<1> QED
  BY <1>3 DEF A

\* A step can be iterated for ever: primitive recursion defines a function.
LEMMA Recursion ==
    ASSUME NEW S, NEW x \in S, NEW step \in [Nat -> [S -> S]]
    PROVE  \E f \in [Nat -> S] :
              f[0] = x /\ \A n \in Nat \ {0} : f[n] = step[n][f[n - 1]]
<1> DEFINE R(n) == Runs(x, step, S, n)
           E == {n \in Nat : R(n) # {}}
<1>1. 0 \in E
  <2>1. [i \in 0 .. 0 |-> x] \in R(0)
    BY DEF Runs
  <2> QED
    BY <2>1, Zenon
<1>2. ASSUME NEW n \in Nat, n \in E PROVE n + 1 \in E
  <2>1. PICK g : g \in R(n)
    BY <1>2, Zenon
  <2> DEFINE h == [i \in 0 .. n + 1 |-> IF i <= n THEN g[i] ELSE step[n + 1][g[n]]]
  <2>2. g \in [0 .. n -> S] /\ g[0] = x /\ \A i \in 1 .. n : g[i] = step[i][g[i - 1]]
    BY <2>1, Zenon DEF Runs
  <2>3. h \in [0 .. n + 1 -> S] /\ h[0] = x
    <3>1. step[n + 1][g[n]] \in S
      BY <2>2
    <3> QED
      BY <2>2, <3>1
  <2>4. \A i \in 1 .. n + 1 : h[i] = step[i][h[i - 1]]
    <3> SUFFICES ASSUME NEW i \in 1 .. n + 1 PROVE h[i] = step[i][h[i - 1]]
      BY Zenon
    <3>1. h[i - 1] = g[i - 1]
      OBVIOUS
    <3>2. h[i] = step[i][g[i - 1]]
      BY <2>2
    <3> QED
      BY <3>1, <3>2, Zenon
  <2>5. h \in R(n + 1)
    BY <2>3, <2>4, Zenon DEF Runs
  <2> HIDE DEF h
  <2> QED
    BY <2>5
<1>3. \A n \in Nat : n \in E
  <2> HIDE DEF E
  <2> QED
    BY <1>1, <1>2, NatSetInduction, Zenon
<1> DEFINE run(n) == CHOOSE g : g \in R(n)
           f == [n \in Nat |-> run(n)[n]]
<1>4. \A n \in Nat : run(n) \in R(n)
  BY <1>3, Zenon
<1> HIDE DEF run
<1>5. ASSUME NEW n \in Nat
      PROVE  run(n)[n] \in S /\ run(n) \in [0 .. n -> S] /\ run(n)[0] = x
             /\ \A i \in 1 .. n : run(n)[i] = step[i][run(n)[i - 1]]
  <2>1. run(n) \in Runs(x, step, S, n)
    BY <1>4, Zenon
  <2>2. n \in 0 .. n
    OBVIOUS
  <2> QED
    BY <2>1, <2>2, Zenon DEF Runs
<1>6. f \in [Nat -> S] /\ f[0] = x
  BY <1>5, Zenon
<1>7. ASSUME NEW n \in Nat \ {0} PROVE f[n] = step[n][f[n - 1]]
  <2>1. n - 1 \in Nat /\ n - 1 <= n /\ n \in 1 .. n /\ n - 1 \in 0 .. n - 1
    OBVIOUS
  <2>2. run(n - 1)[n - 1] = run(n)[n - 1]
    BY <1>4, <2>1, RunsAgree
  <2>3. run(n)[n] = step[n][run(n)[n - 1]]
    BY <1>5, <2>1, Zenon
  <2> QED
    BY <2>1, <2>2, <2>3, Zenon
<1> QED
  BY <1>6, <1>7, Zenon

-----------------------------------------------------------------------------
CacheInv == TypeOK /\ ReverseIndexExact /\ CapacityExact

\* The set of nodes is finite, whatever the step, and its size is a number.
LEMMA NodesFinite ==
    ASSUME NEW S, S \subseteq Names
    PROVE  IsFiniteSet(S) /\ Cardinality(S) \in Nat
BY CacheAssumption, FS_Subset, FS_CardinalityType, Zenon

\* dom_find_or_create keeps the count exact and within the capacity.
LEMMA CreateCounts ==
    ASSUME CacheInv, NEW d \in Names, ~Refused(d), Create(d)
    PROVE  /\ nodes' \subseteq Names /\ n_domains' \in Nat
           /\ n_domains' = Cardinality(nodes') /\ n_domains' <= MaxDomains
           /\ nodes' = nodes \cup {d}
<1>1. nodes \subseteq Names /\ n_domains \in Nat /\ n_domains = Cardinality(nodes)
      /\ n_domains <= MaxDomains
  BY Zenon DEF CacheInv, TypeOK, CapacityExact
<1>2. IsFiniteSet(nodes)
  BY <1>1, NodesFinite, Zenon
<1>3. Cardinality(nodes \cup {d}) = IF d \in nodes THEN n_domains ELSE n_domains + 1
  BY ZenonT(30), <1>1, <1>2, FS_AddElement
<1>4. nodes' = nodes \cup {d} /\ n_domains' = IF d \in nodes THEN n_domains ELSE n_domains + 1
  BY Zenon DEF Create
<1>5. d \notin nodes => ~(n_domains >= MaxDomains)
  BY Zenon DEF Refused
<1> QED
  BY <1>1, <1>3, <1>4, <1>5, CacheAssumption

\* rev_remove takes out the one edge d can have and touches no other.
LEMMA RevRemoveEffect ==
    ASSUME CacheInv, NEW d \in Names
    PROVE  LET r == RevRemove(rev, alias[d], d)
           IN  /\ r \in [Names -> [Names -> Nat]]
               /\ \A a \in Names : r[a][d] = 0
               /\ \A a, x \in Names : x # d => r[a][x] = rev[a][x]
<1> DEFINE r == RevRemove(rev, alias[d], d)
<1>1. rev \in [Names -> [Names -> Nat]] /\ alias[d] \in Names \cup {NoName}
  BY Zenon DEF CacheInv, TypeOK
<1>2. \A a \in Names : rev[a][d] > 0 => rev[a][d] = 1 /\ alias[d] = a
  BY Zenon DEF CacheInv, ReverseIndexExact
<1>3. CASE alias[d] = NoName \/ rev[alias[d]][d] = 0
  <2>1. r = rev
    BY <1>3, Zenon DEF RevRemove
  <2>2. \A a \in Names : rev[a][d] = 0
    BY <1>1, <1>2, <1>3, CacheAssumption
  <2> QED
    BY <2>1, <2>2, <1>1, Zenon
<1>4. CASE ~(alias[d] = NoName \/ rev[alias[d]][d] = 0)
  <2>1. alias[d] \in Names /\ rev[alias[d]][d] = 1
    BY <1>1, <1>2, <1>4
  <2>2. r = [rev EXCEPT ![alias[d]][d] = @ - 1]
    BY <1>4, Zenon DEF RevRemove
  <2>3. r \in [Names -> [Names -> Nat]] /\ r[alias[d]][d] = 0
    BY <1>1, <2>1, <2>2
  <2>4. \A a \in Names : a # alias[d] => r[a][d] = 0
    BY <1>1, <1>2, <2>1, <2>2
  <2>5. \A a, x \in Names : x # d => r[a][x] = rev[a][x]
    BY <1>1, <2>1, <2>2
  <2> QED
    BY <2>3, <2>4, <2>5, Zenon
<1> QED
  BY <1>3, <1>4, Zenon

\* The empty cache of mt_cache_create satisfies the invariant.
LEMMA InitInv == Init => CacheInv
<1> SUFFICES ASSUME Init PROVE CacheInv
  BY Zenon
<1>1. TypeOK
  BY CacheAssumption DEF Init, TypeOK, Deadlines, Absent
<1>2. ReverseIndexExact
  BY CacheAssumption DEF Init, ReverseIndexExact
<1>3. CapacityExact
  BY CacheAssumption, FS_EmptySet DEF Init, CapacityExact
<1> QED
  BY <1>1, <1>2, <1>3, Zenon DEF CacheInv

\* A refused insertion only counts itself.
LEMMA DropInv ==
    ASSUME CacheInv, Drop, faults' = faults \/ (faults < MaxFaults /\ faults' = faults + 1)
    PROVE  CacheInv'
<1>1. faults \in Nat /\ faults' \in Nat /\ (faults' = 0 => faults = 0) /\ faults' \in 0 .. MaxFaults
  BY CacheAssumption DEF CacheInv, TypeOK
<1>2. TypeOK'
  BY <1>1, CacheAssumption DEF CacheInv, TypeOK, Drop
<1>3. ReverseIndexExact'
  BY <1>1, Zenon DEF CacheInv, ReverseIndexExact, Drop
<1>4. CapacityExact'
  BY Zenon DEF CacheInv, CapacityExact, Drop
<1> QED
  BY <1>2, <1>3, <1>4, Zenon DEF CacheInv

\* mt_cache_add_address: stored, refused, or lost for want of memory.
LEMMA AddAddressInv ==
    ASSUME CacheInv, NEW d \in Names, NEW a \in Addrs, NEW ttl \in Nat, AddAddress(d, a, ttl)
    PROVE  CacheInv'
<1>1. CASE Refused(d) /\ Drop /\ UNCHANGED faults
  BY <1>1, DropInv, Zenon
<1>2. CASE d \notin nodes /\ ~Refused(d) /\ NoMemory /\ Drop
  BY <1>2, DropInv, Zenon DEF NoMemory
<1>3. CASE /\ ~Refused(d) /\ Create(d)
           /\ addrs' \in [Names -> [Addrs -> Deadlines]]
           /\ \A x \in Names : x # d => addrs'[x] = addrs[x]
           /\ faults' \in 0 .. MaxFaults /\ (faults' = 0 => faults = 0)
           /\ UNCHANGED <<alias, alias_deadline, rev, dropped, now>>
  <2>1. /\ nodes' \subseteq Names /\ n_domains' \in Nat
        /\ n_domains' = Cardinality(nodes') /\ n_domains' <= MaxDomains
        /\ nodes' = nodes \cup {d}
    BY <1>3, CreateCounts, Zenon
  <2>2. TypeOK'
    BY <1>3, <2>1, Zenon DEF CacheInv, TypeOK
  <2>3. ReverseIndexExact'
    BY <1>3, Zenon DEF CacheInv, ReverseIndexExact
  <2>4. CapacityExact'
    BY <1>3, <2>1 DEF CacheInv, CapacityExact
  <2> QED
    BY <2>2, <2>3, <2>4, Zenon DEF CacheInv
<1>4. ASSUME ~Refused(d), Create(d), addrs' = [addrs EXCEPT ![d][a] = now + ttl],
             UNCHANGED <<alias, alias_deadline, rev, dropped, now, faults>>
      PROVE  CacheInv'
  <2>1. now + ttl \in Deadlines /\ faults' \in 0 .. MaxFaults
    BY <1>4, CacheAssumption DEF CacheInv, TypeOK, Deadlines
  <2>2. addrs \in [Names -> [Addrs -> Deadlines]]
    BY Zenon DEF CacheInv, TypeOK
  <2>3. addrs' \in [Names -> [Addrs -> Deadlines]]
        /\ \A x \in Names : x # d => addrs'[x] = addrs[x]
    BY <1>4, <2>1, <2>2, Zenon
  <2> QED
    BY <1>3, <1>4, <2>1, <2>3, Zenon
<1>5. ASSUME ~Refused(d), NoMemory, Create(d),
             UNCHANGED <<addrs, alias, alias_deadline, rev, dropped, now>>
      PROVE  CacheInv'
  <2>1. faults' \in 0 .. MaxFaults /\ faults' # 0
    BY <1>5, CacheAssumption DEF CacheInv, TypeOK, NoMemory
  <2>2. addrs' \in [Names -> [Addrs -> Deadlines]]
    BY <1>5, Zenon DEF CacheInv, TypeOK
  <2> QED
    BY <1>3, <1>5, <2>1, <2>2, Zenon
<1> QED
  BY <1>1, <1>2, <1>4, <1>5, Zenon DEF AddAddress

\* The alias of d is set and the edge moves with it, unless the index had no
\* memory for the new one.
LEMMA SetAliasInv ==
    ASSUME CacheInv, NEW d \in Names, NEW target \in Names, NEW ttl \in Nat,
           ~Refused(d), SetAlias(d, target, ttl)
    PROVE  CacheInv'
<1> DEFINE r == RevRemove(rev, alias[d], d)
<1>1. /\ nodes' \subseteq Names /\ n_domains' \in Nat
      /\ n_domains' = Cardinality(nodes') /\ n_domains' <= MaxDomains
      /\ nodes' = nodes \cup {d}
  BY CreateCounts, Zenon DEF SetAlias
<1>2. /\ r \in [Names -> [Names -> Nat]]
      /\ \A a \in Names : r[a][d] = 0
      /\ \A a, x \in Names : x # d => r[a][x] = rev[a][x]
  BY RevRemoveEffect, Zenon
<1>3. /\ alias' = [alias EXCEPT ![d] = target]
      /\ alias_deadline' = [alias_deadline EXCEPT ![d] = now + ttl]
      /\ \/ rev' = RevAdd(r, target, d) /\ faults' = faults
         \/ rev' = r /\ NoMemory
      /\ UNCHANGED <<addrs, dropped, now>>
  BY Zenon DEF SetAlias
<1>4. faults' \in 0 .. MaxFaults /\ (faults' = 0 => faults = 0 /\ rev' = RevAdd(r, target, d))
  BY <1>3, CacheAssumption DEF CacheInv, TypeOK, NoMemory
<1>5. /\ RevAdd(r, target, d) \in [Names -> [Names -> Nat]]
      /\ RevAdd(r, target, d)[target][d] = 1
      /\ \A a \in Names : a # target => RevAdd(r, target, d)[a][d] = 0
      /\ \A a, x \in Names : x # d => RevAdd(r, target, d)[a][x] = rev[a][x]
  BY <1>2 DEF RevAdd
<1>6. TypeOK'
  <2>1. alias' \in [Names -> Names \cup {NoName}] /\ alias_deadline' \in [Names -> Nat]
    BY <1>3, CacheAssumption DEF CacheInv, TypeOK
  <2>2. rev' \in [Names -> [Names -> Nat]]
    BY <1>2, <1>3, <1>5, Zenon
  <2> QED
    BY <1>1, <1>3, <1>4, <2>1, <2>2, Zenon DEF CacheInv, TypeOK
<1>7. ReverseIndexExact'
  <2>1. alias \in [Names -> Names \cup {NoName}]
    BY Zenon DEF CacheInv, TypeOK
  <2>2. alias'[d] = target /\ \A x \in Names : x # d => alias'[x] = alias[x]
    BY <1>3, <2>1, Zenon
  <2>3. \A a \in Names : rev'[a][d] > 0 => rev'[a][d] = 1 /\ a = target
    BY <1>2, <1>3, <1>5
  <2>4. \A a, x \in Names : x # d => rev'[a][x] = rev[a][x]
    BY <1>2, <1>3, <1>5
  <2>5. faults' = 0 => faults = 0 /\ rev'[target][d] = 1
    BY <1>4, <1>5, Zenon
  <2>6. \A a, x \in Names :
          /\ rev[a][x] > 0 => rev[a][x] = 1 /\ alias[x] = a
          /\ faults = 0 /\ alias[x] = a => rev[a][x] = 1
    BY Zenon DEF CacheInv, ReverseIndexExact
  <2> QED
    BY <2>2, <2>3, <2>4, <2>5, <2>6 DEF ReverseIndexExact
<1>8. CapacityExact'
  <2>1. \A x \in Names : x # d => alias'[x] = alias[x]
    BY <1>3, Zenon DEF CacheInv, TypeOK
  <2> QED
    BY <1>1, <1>3, <2>1, Zenon DEF CacheInv, CapacityExact
<1> QED
  BY <1>6, <1>7, <1>8, Zenon DEF CacheInv

\* Without memory for the new alias the old one goes, with its edge, and a
\* node left empty goes too.
LEMMA LoseAliasInv ==
    ASSUME CacheInv, NEW d \in Names, LoseAlias(d)
    PROVE  CacheInv'
<1> DEFINE r == RevRemove(rev, alias[d], d)
<1>1. /\ r \in [Names -> [Names -> Nat]]
      /\ \A a \in Names : r[a][d] = 0
      /\ \A a, x \in Names : x # d => r[a][x] = rev[a][x]
  BY RevRemoveEffect, Zenon
<1>2. /\ alias' = [alias EXCEPT ![d] = NoName] /\ rev' = r
      /\ UNCHANGED <<addrs, alias_deadline, dropped, now>>
  BY Zenon DEF LoseAlias
<1>3. faults' \in 0 .. MaxFaults /\ faults' # 0
  BY CacheAssumption DEF CacheInv, TypeOK, NoMemory, LoseAlias
<1>4. /\ nodes \subseteq Names /\ n_domains \in Nat
      /\ n_domains = Cardinality(nodes) /\ n_domains <= MaxDomains
  BY Zenon DEF CacheInv, TypeOK, CapacityExact
<1>5. /\ Cardinality(nodes \ {d}) = IF d \in nodes THEN n_domains - 1 ELSE n_domains
      /\ Cardinality(nodes \ {d}) \in Nat
  BY <1>4, NodesFinite, FS_RemoveElement, Zenon
<1>6. /\ nodes' \subseteq Names /\ n_domains' \in Nat
      /\ n_domains' = Cardinality(nodes') /\ n_domains' <= MaxDomains
      /\ nodes' = nodes \/ (nodes' = nodes \ {d} /\ \A a \in Addrs : addrs[d][a] = Absent)
  BY <1>4, <1>5, CacheAssumption DEF LoseAlias
<1>7. alias \in [Names -> Names \cup {NoName}]
  BY Zenon DEF CacheInv, TypeOK
<1>8. alias'[d] = NoName /\ \A x \in Names : x # d => alias'[x] = alias[x]
  BY <1>2, <1>7, Zenon
<1>9. TypeOK'
  <2>1. alias' \in [Names -> Names \cup {NoName}]
    BY <1>2, <1>7, Zenon
  <2> QED
    BY <1>1, <1>2, <1>3, <1>6, <2>1, Zenon DEF CacheInv, TypeOK
<1>10. ReverseIndexExact'
  <2>1. \A a, x \in Names : rev'[a][x] > 0 => x # d /\ rev'[a][x] = rev[a][x]
    BY <1>1, <1>2
  <2>2. \A a, x \in Names : rev[a][x] > 0 => rev[a][x] = 1 /\ alias[x] = a
    BY Zenon DEF CacheInv, ReverseIndexExact
  <2> QED
    BY <1>3, <1>8, <2>1, <2>2 DEF ReverseIndexExact
<1>11. CapacityExact'
  BY <1>2, <1>6, <1>8, Zenon DEF CacheInv, CapacityExact
<1> QED
  BY <1>9, <1>10, <1>11, Zenon DEF CacheInv

\* mt_cache_add_alias.
LEMMA AddAliasInv ==
    ASSUME CacheInv, NEW d \in Names, NEW target \in Names, NEW ttl \in Nat,
           AddAlias(d, target, ttl)
    PROVE  CacheInv'
<1>1. CASE UNCHANGED vars
  BY <1>1, Zenon DEF vars, cacheVars, CacheInv, TypeOK, ReverseIndexExact, CapacityExact
<1>2. CASE Refused(d) /\ Drop /\ UNCHANGED faults
  BY <1>2, DropInv, Zenon
<1>3. CASE ~Refused(d) /\ NoMemory /\ Drop
  BY <1>3, DropInv, Zenon DEF NoMemory
<1>4. CASE ~Refused(d) /\ SetAlias(d, target, ttl)
  BY <1>4, SetAliasInv, Zenon
<1>5. CASE LoseAlias(d)
  BY <1>5, LoseAliasInv, Zenon
<1> QED
  BY <1>1, <1>2, <1>3, <1>4, <1>5, Zenon DEF AddAlias

\* mt_cache_cleanup: every expired alias takes its edge along, and exactly the
\* nodes left empty are taken off the count.
LEMMA CleanupInv ==
    ASSUME CacheInv, Cleanup
    PROVE  CacheInv'
<1>1. /\ addrs' = LeftAddrs /\ alias' = LeftAlias /\ rev' = LeftRev
      /\ nodes' = nodes \ Emptied /\ n_domains' = n_domains - Cardinality(Emptied)
      /\ UNCHANGED <<alias_deadline, dropped, now, faults>>
  BY Zenon DEF Cleanup
<1>2. /\ nodes \subseteq Names /\ n_domains \in Nat
      /\ n_domains = Cardinality(nodes) /\ n_domains <= MaxDomains
      /\ \A d \in Names \ nodes :
            alias[d] = NoName /\ \A a \in Addrs : addrs[d][a] = Absent
  BY Zenon DEF CacheInv, TypeOK, CapacityExact
<1>3. n_domains' = Cardinality(nodes') /\ n_domains' \in Nat /\ n_domains' <= MaxDomains
  <2>1. Emptied \subseteq nodes
    BY Zenon DEF Emptied
  <2>2. nodes \cap Emptied = Emptied
    BY <2>1, Zenon
  <2>3. Cardinality(nodes \ Emptied) = Cardinality(nodes) - Cardinality(Emptied)
    BY ZenonT(30), <1>2, <2>2, NodesFinite, FS_Difference
  <2>4. Cardinality(nodes \ Emptied) \in Nat /\ Cardinality(Emptied) \in Nat
    BY <1>2, <2>1, NodesFinite, Zenon
  <2> QED
    BY <1>1, <1>2, <2>3, <2>4, CacheAssumption
<1>4. TypeOK'
  <2>1. addrs' \in [Names -> [Addrs -> Deadlines]]
    BY <1>1, Zenon DEF CacheInv, TypeOK, LeftAddrs, Deadlines
  <2>2. alias' \in [Names -> Names \cup {NoName}]
    BY <1>1, Zenon DEF CacheInv, TypeOK, LeftAlias
  <2>3. rev' \in [Names -> [Names -> Nat]]
    BY <1>1 DEF CacheInv, TypeOK, LeftRev
  <2> QED
    BY <1>1, <1>2, <1>3, <2>1, <2>2, <2>3, Zenon DEF CacheInv, TypeOK
<1>5. ReverseIndexExact'
  <2>1. \A d \in Names : alias'[d] = IF d \in Expired THEN NoName ELSE alias[d]
    BY <1>1, Zenon DEF LeftAlias
  <2>2. \A a, d \in Names :
          rev'[a][d] = IF d \in Expired /\ alias[d] = a /\ rev[a][d] > 0
                         THEN rev[a][d] - 1 ELSE rev[a][d]
    BY <1>1, Zenon DEF LeftRev
  <2>3. \A a, d \in Names :
          /\ rev[a][d] \in Nat
          /\ rev[a][d] > 0 => rev[a][d] = 1 /\ alias[d] = a
          /\ faults = 0 /\ alias[d] = a => rev[a][d] = 1
    BY DEF CacheInv, TypeOK, ReverseIndexExact
  <2> QED
    BY <1>1, <2>1, <2>2, <2>3, CacheAssumption DEF ReverseIndexExact
<1>6. CapacityExact'
  <2>1. ASSUME NEW d \in Names \ nodes'
        PROVE  alias'[d] = NoName /\ \A a \in Addrs : addrs'[d][a] = Absent
    <3>1. CASE d \in Emptied
      BY <1>1, <3>1, Zenon DEF Emptied
    <3>2. CASE d \notin nodes
      BY <1>1, <1>2, <3>2, Zenon DEF LeftAlias, LeftAddrs
    <3> QED
      BY <1>1, <3>1, <3>2, Zenon
  <2> QED
    BY <1>3, <2>1, Zenon DEF CapacityExact
<1> QED
  BY <1>4, <1>5, <1>6, Zenon DEF CacheInv

\* Every step of the cache preserves the invariant.
LEMMA NextInv == CacheInv /\ [Next]_vars => CacheInv'
<1> SUFFICES ASSUME CacheInv, [Next]_vars PROVE CacheInv'
  BY Zenon
<1>1. CASE \E d \in Names, a \in Addrs, ttl \in Ttls : AddAddress(d, a, ttl)
  BY <1>1, AddAddressInv, CacheAssumption, Zenon
<1>2. CASE \E d, t \in Names, ttl \in Ttls : AddAlias(d, t, ttl)
  BY <1>2, AddAliasInv, CacheAssumption, Zenon
<1>3. CASE Cleanup
  BY <1>3, CleanupInv, Zenon
<1>4. CASE SetClock
  BY <1>4, Zenon DEF SetClock, cacheVars, CacheInv, TypeOK, ReverseIndexExact, CapacityExact
<1>5. CASE UNCHANGED vars
  BY <1>5, Zenon DEF vars, cacheVars, CacheInv, TypeOK, ReverseIndexExact, CapacityExact
<1> QED
  BY <1>1, <1>2, <1>3, <1>4, <1>5, Zenon DEF Next

\* The invariant holds throughout, for every set of names and every capacity.
THEOREM CacheInvariant == Spec => []CacheInv
<1>1. Init => CacheInv
  BY InitInv, Zenon
<1>2. CacheInv /\ [Next]_vars => CacheInv'
  BY NextInv, Zenon
<1> QED
  BY <1>1, <1>2, PTL DEF Spec

\* The cache is always well typed (cache.c never stores a count below zero).
THEOREM CacheTypeCorrect == Spec => []TypeOK
<1>1. CacheInv => TypeOK
  BY Zenon DEF CacheInv
<1> QED
  BY <1>1, CacheInvariant, PTL

\* rev_add and rev_remove keep the reverse index exact through changes of
\* alias, expiry and failing allocations.
THEOREM ReverseIndexCorrect == Spec => []ReverseIndexExact
<1>1. CacheInv => ReverseIndexExact
  BY Zenon DEF CacheInv
<1> QED
  BY <1>1, CacheInvariant, PTL

\* n_domains is the number of nodes and the cache never outgrows max_domains.
THEOREM CapacityCorrect == Spec => []CapacityExact
<1>1. CacheInv => CapacityExact
  BY Zenon DEF CacheInv
<1> QED
  BY <1>1, CacheInvariant, PTL

-----------------------------------------------------------------------------
Walks == Seq(Names) \ {<<>>}

\* One call of the walk of mt_cache_get_addresses.
Onward(w, seen, t) ==
    LET d == seen[Len(seen)] IN
    IF Valid(d, t) # {} THEN d
    ELSE IF \/ ~Follows(d, t)
            \/ Len(seen) >= MaxSeen
            \/ \E i \in 1 .. Len(seen) : seen[i] = alias[d]
    THEN NoName
    ELSE w[Append(seen, alias[d])]

Walk(t) == CHOOSE w : w = [seen \in Walks |-> Onward(w, seen, t)]

\* The walk of mt_cache_get_addresses, as one function of what it has seen.
LEMMA AddressHopWalks ==
    ASSUME NEW d, NEW t
    PROVE  AddressHop(d, t) = Walk(t)[<<d>>]
BY Zenon DEF AddressHop, Walk, Walks, Onward

\* The last name of a walk, and the walk one name longer.
LEMMA WalkStep ==
    ASSUME TypeOK, NEW seen \in Walks
    PROVE  /\ Len(seen) \in Nat \ {0}
           /\ seen[Len(seen)] \in Names
           /\ \A t : Follows(seen[Len(seen)], t) =>
                 /\ Append(seen, alias[seen[Len(seen)]]) \in Walks
                 /\ Len(Append(seen, alias[seen[Len(seen)]])) = Len(seen) + 1
<1>1. seen \in Seq(Names) /\ seen # <<>>
  BY Zenon DEF Walks
<1>2. Len(seen) \in Nat \ {0} /\ seen[Len(seen)] \in Names
  BY <1>1
<1>3. alias[seen[Len(seen)]] \in Names \cup {NoName}
  BY <1>2, Zenon DEF TypeOK
<1> QED
  BY <1>1, <1>2, <1>3 DEF Walks, Follows

\* The walk is well defined: every call adds a name, and there are at most
\* MaxSeen of them.
LEMMA WalkDefined ==
    ASSUME TypeOK, NEW t
    PROVE  \A seen \in Walks : Walk(t)[seen] = Onward(Walk(t), seen, t)
<1> DEFINE Good(w, n) == /\ w = [seen \in Walks |-> w[seen]]
                         /\ \A seen \in Walks :
                               Len(seen) + n >= MaxSeen => w[seen] = Onward(w, seen, t)
           E == {n \in Nat : \E w : Good(w, n)}
<1>1. 0 \in E
  <2> DEFINE v == [seen \in Walks |-> IF Valid(seen[Len(seen)], t) # {}
                                      THEN seen[Len(seen)] ELSE NoName]
  <2>1. \A seen \in Walks : Len(seen) + 0 >= MaxSeen => v[seen] = Onward(v, seen, t)
    <3> SUFFICES ASSUME NEW seen \in Walks, Len(seen) + 0 >= MaxSeen
                 PROVE  v[seen] = Onward(v, seen, t)
      BY Zenon
    <3>1. Len(seen) >= MaxSeen
      BY WalkStep
    <3> QED
      BY <3>1, Zenon DEF Onward
  <2>2. v = [seen \in Walks |-> v[seen]]
    BY Zenon
  <2> HIDE DEF v
  <2> QED
    BY <2>1, <2>2, Zenon
<1>2. ASSUME NEW n \in Nat, n \in E PROVE n + 1 \in E
  <2>1. PICK w : Good(w, n)
    BY <1>2, Zenon
  <2> DEFINE v == [seen \in Walks |-> IF Len(seen) + n >= MaxSeen
                                      THEN w[seen] ELSE Onward(w, seen, t)]
  <2>2. \A seen \in Walks : v[seen] = Onward(w, seen, t)
                             \/ Len(seen) + n < MaxSeen
    BY <2>1, WalkStep, CacheAssumption, Zenon
  <2>3. \A seen \in Walks : Len(seen) + (n + 1) >= MaxSeen => v[seen] = Onward(v, seen, t)
    <3> SUFFICES ASSUME NEW seen \in Walks, Len(seen) + (n + 1) >= MaxSeen
                 PROVE  v[seen] = Onward(v, seen, t)
      BY Zenon
    <3>1. v[seen] = Onward(w, seen, t)
      BY <2>1, Zenon
    <3> DEFINE d == seen[Len(seen)]
               next == Append(seen, alias[d])
    <3>2. CASE Follows(d, t)
      <4>1. next \in Walks /\ Len(next) = Len(seen) + 1 /\ Len(seen) \in Nat
        BY <3>2, WalkStep, Zenon
      <4>2. Len(next) + n >= MaxSeen
        BY <4>1, CacheAssumption
      <4>3. v[next] = w[next]
        BY <4>1, <4>2, Zenon
      <4> QED
        BY <3>1, <4>3, Zenon DEF Onward
    <3>3. CASE ~Follows(d, t)
      BY <3>1, <3>3, Zenon DEF Onward
    <3> QED
      BY <3>2, <3>3, Zenon
  <2>4. v = [seen \in Walks |-> v[seen]]
    BY Zenon
  <2>5. n + 1 \in Nat
    OBVIOUS
  <2> HIDE DEF v
  <2> QED
    BY <2>3, <2>4, <2>5, Zenon
<1>3. MaxSeen \in E
  <2> HIDE DEF E
  <2>1. \A n \in Nat : n \in E
    BY <1>1, <1>2, NatSetInduction, Zenon
  <2> QED
    BY <2>1, CacheAssumption, Zenon
<1>4. PICK w : Good(w, MaxSeen)
  BY <1>3, Zenon
<1>5. \A seen \in Walks : w[seen] = Onward(w, seen, t)
  <2> SUFFICES ASSUME NEW seen \in Walks PROVE w[seen] = Onward(w, seen, t)
    BY Zenon
  <2>1. Len(seen) + MaxSeen >= MaxSeen
    BY WalkStep, CacheAssumption
  <2> QED
    BY <1>4, <2>1, Zenon
<1>6. w = [seen \in Walks |-> Onward(w, seen, t)]
  BY <1>4, <1>5, Zenon
<1>7. Walk(t) = [seen \in Walks |-> Onward(Walk(t), seen, t)]
  BY <1>6, Zenon DEF Walk
<1> QED
  BY <1>7, Zenon

\* Hops of the chain from d.
LEMMA HopsDefined ==
    ASSUME TypeOK, NEW d \in Names, NEW t
    PROVE  LET hop == HopsAt(d, t)
           IN  /\ hop \in [Nat -> Names \cup {NoName}]
               /\ hop[0] = d
               /\ \A k \in Nat : hop[k + 1] = IF hop[k] = NoName \/ ~Follows(hop[k], t)
                                            THEN NoName ELSE alias[hop[k]]
<1> DEFINE S == Names \cup {NoName}
           to == [x \in S |-> IF x = NoName \/ ~Follows(x, t) THEN NoName ELSE alias[x]]
           step == [n \in Nat |-> to]
           Hops(h) == [k \in Nat |-> IF k = 0 THEN d
                          ELSE IF h[k - 1] = NoName \/ ~Follows(h[k - 1], t) THEN NoName
                          ELSE alias[h[k - 1]]]
<1>1. to \in [S -> S]
  BY Zenon DEF TypeOK
<1>2. step \in [Nat -> [S -> S]] /\ d \in S
  BY <1>1, Zenon
<1>3. PICK f \in [Nat -> S] : f[0] = d /\ \A n \in Nat \ {0} : f[n] = step[n][f[n - 1]]
  <2> HIDE DEF step, S
  <2> QED
    BY <1>2, Recursion
<1>4. \A n \in Nat \ {0} : f[n] = IF f[n - 1] = NoName \/ ~Follows(f[n - 1], t) THEN NoName
                                ELSE alias[f[n - 1]]
  <2> SUFFICES ASSUME NEW n \in Nat \ {0}
               PROVE  f[n] = to[f[n - 1]] /\ f[n - 1] \in S
    BY Zenon
  <2>1. n - 1 \in Nat
    OBVIOUS
  <2> HIDE DEF to, S
  <2> QED
    BY <1>3, <2>1, Zenon
<1>5. f = Hops(f)
  <2>1. \A n \in Nat : f[n] = Hops(f)[n]
    BY <1>3, <1>4, Zenon
  <2>2. f = [n \in Nat |-> f[n]] /\ Hops(f) = [n \in Nat |-> Hops(f)[n]]
    BY Zenon
  <2> HIDE DEF Hops
  <2> QED
    BY <2>1, <2>2, Zenon
<1>6. HopsAt(d, t) = CHOOSE h : h = Hops(h)
  BY Zenon DEF HopsAt
<1>7. HopsAt(d, t) = Hops(HopsAt(d, t))
  <2> HIDE DEF Hops
  <2> QED
    BY <1>5, <1>6, Zenon
<1> DEFINE hop == HopsAt(d, t)
<1> HIDE DEF hop
<1>8. hop = Hops(hop)
  BY <1>7, Zenon DEF hop
<1>9. /\ hop[0] = d
      /\ \A k \in Nat : hop[k + 1] = IF hop[k] = NoName \/ ~Follows(hop[k], t)
                                   THEN NoName ELSE alias[hop[k]]
  <2>1. \A k \in Nat : hop[k] = Hops(hop)[k]
    BY <1>8, Zenon
  <2> QED
    BY <2>1
<1>10. \A k \in Nat : hop[k] \in S
  <2> DEFINE T == {k \in Nat : hop[k] \in S}
  <2>1. 0 \in T
    BY <1>9, Zenon
  <2>2. ASSUME NEW k \in Nat, k \in T PROVE k + 1 \in T
    BY <1>9, <2>2 DEF TypeOK
  <2> HIDE DEF T
  <2>3. \A k \in Nat : k \in T
    BY <2>1, <2>2, NatSetInduction, Zenon
  <2> QED
    BY <2>3, Zenon DEF T
<1>11. hop \in [Nat -> S]
  <2>1. DOMAIN hop = Nat
    BY <1>8, Zenon
  <2>2. hop = [k \in DOMAIN hop |-> hop[k]]
    BY <1>8, Zenon
  <2> QED
    BY <1>10, <2>1, <2>2, Zenon
<1> QED
  BY <1>9, <1>11, Zenon DEF hop

\* The hops within the guard's reach that have an unexpired address.
GoodHops(d, t) == {k \in 0 .. MaxSeen - 1 : HopsAt(d, t)[k] # NoName /\ Valid(HopsAt(d, t)[k], t) # {}}

\* mt_cache_get_addresses at any time t: the addresses of the nearest hop.
LEMMA LookupNearest ==
    ASSUME TypeOK, NEW d \in Names, NEW t
    PROVE  /\ GoodHops(d, t) = {} => GetAddresses(d, t) = {} /\ AddressHop(d, t) = NoName
           /\ \A k \in GoodHops(d, t) : (\A j \in GoodHops(d, t) : k <= j) =>
                 /\ AddressHop(d, t) = HopsAt(d, t)[k]
                 /\ GetAddresses(d, t) = Valid(HopsAt(d, t)[k], t)
<1> DEFINE hop == HopsAt(d, t)
           next(x) == IF x = NoName \/ ~Follows(x, t) THEN NoName ELSE alias[x]
           w == Walk(t)
           path(k) == [i \in 1 .. k |-> hop[i - 1]]
           Stops(k) == \/ Valid(hop[k - 1], t) # {} \/ ~Follows(hop[k - 1], t) \/ k >= MaxSeen
                       \/ \E i \in 1 .. k : hop[i - 1] = alias[hop[k - 1]]
           S == {k \in Nat \ {0} : Stops(k)}
<1> HIDE DEF hop, w
<1>1. /\ hop \in [Nat -> Names \cup {NoName}] /\ hop[0] = d
      /\ \A k \in Nat : hop[k + 1] = next(hop[k])
  BY HopsDefined DEF hop
<1>2. MaxSeen \in S
  BY CacheAssumption
<1>3. PICK n \in S : \A k \in S : n <= k
  <2>1. S \in SUBSET Nat /\ S # {}
    BY <1>2, Zenon
  <2> HIDE DEF S
  <2> QED
    BY <2>1, LeastNat, Zenon
<1>4. /\ n \in Nat \ {0} /\ n <= MaxSeen /\ Stops(n)
      /\ \A k \in 1 .. n - 1 : ~Stops(k)
  <2> HIDE DEF Stops
  <2>1. n \in Nat \ {0} /\ Stops(n) /\ n <= MaxSeen
    BY <1>2, <1>3, Zenon
  <2>2. ASSUME NEW k \in 1 .. n - 1, Stops(k) PROVE FALSE
    <3>1. k \in Nat \ {0} /\ ~(n <= k)
      BY <2>1
    <3> QED
      BY <1>3, <2>2, <3>1, Zenon
  <2> QED
    BY <2>1, <2>2, Zenon
<1>5. \A k \in 1 .. n - 1 : /\ Valid(hop[k - 1], t) = {} /\ Follows(hop[k - 1], t)
                             /\ k < MaxSeen
                             /\ \A i \in 1 .. k : hop[i - 1] # alias[hop[k - 1]]
  <2> SUFFICES ASSUME NEW k \in 1 .. n - 1
               PROVE  /\ Valid(hop[k - 1], t) = {} /\ Follows(hop[k - 1], t) /\ k < MaxSeen
                      /\ \A i \in 1 .. k : hop[i - 1] # alias[hop[k - 1]]
    BY Zenon
  <2>1. ~Stops(k)
    BY <1>4, Zenon
  <2>2. k < MaxSeen
    BY <1>4, CacheAssumption
  <2> QED
    BY <2>1, <2>2, Zenon
<1>6. \A k \in 0 .. n - 1 : hop[k] \in Names
  <2> DEFINE T == {k \in Nat : k <= n - 1 => hop[k] \in Names}
  <2>1. 0 \in T
    BY <1>1, Zenon
  <2>2. ASSUME NEW k \in Nat, k \in T PROVE k + 1 \in T
    <3>1. CASE k + 1 <= n - 1
      <4>1. k + 1 \in 1 .. n - 1 /\ (k + 1) - 1 = k /\ hop[k] \in Names
        BY <1>4, <2>2, <3>1
      <4>2. Follows(hop[k], t)
        BY <1>5, <4>1, Zenon
      <4>3. hop[k + 1] = alias[hop[k]] /\ alias[hop[k]] \in Names
        BY <1>1, <4>1, <4>2, CacheAssumption, Zenon DEF Follows, TypeOK
      <4> QED
        BY <4>3
    <3> QED
      BY <3>1
  <2> HIDE DEF T
  <2>3. \A k \in Nat : k \in T
    BY <2>1, <2>2, NatSetInduction, Zenon
  <2> QED
    BY <1>4, <2>3 DEF T
<1>7. ASSUME NEW k \in 1 .. n
      PROVE  /\ path(k) \in Walks /\ Len(path(k)) = k
             /\ path(k)[Len(path(k))] = hop[k - 1]
             /\ \A i \in 1 .. k : path(k)[i] = hop[i - 1]
  <2>1. \A i \in 1 .. k : hop[i - 1] \in Names
    BY <1>4, <1>6
  <2>2. path(k) \in [1 .. k -> Names] /\ k \in Nat /\ k # 0
    BY <1>4, <2>1
  <2>3. path(k) \in Seq(Names) /\ Len(path(k)) = k
    BY <2>2
  <2> QED
    BY <2>2, <2>3 DEF Walks
<1>8. w[<<d>>] = w[path(n)]
  <2> DEFINE T == {k \in Nat : k + 1 <= n => w[<<d>>] = w[path(k + 1)]}
  <2>1. 0 \in T
    <3>1. path(0 + 1) = <<d>>
      BY <1>1
    <3> QED
      BY <3>1, Zenon
  <2>2. ASSUME NEW k \in Nat, k \in T PROVE k + 1 \in T
    <3>1. CASE (k + 1) + 1 <= n
      <4>1. k + 1 \in 1 .. n - 1 /\ k + 1 \in 1 .. n /\ k + 2 \in 1 .. n /\ (k + 1) - 1 = k
        BY <1>4, <3>1
      <4>2. w[path(k + 1)] = Onward(w, path(k + 1), t)
        BY <1>7, <4>1, WalkDefined, Zenon DEF w
      <4>3. Onward(w, path(k + 1), t) = w[Append(path(k + 1), alias[hop[k]])]
        <5>1. /\ path(k + 1)[Len(path(k + 1))] = hop[k] /\ Len(path(k + 1)) = k + 1
              /\ \A i \in 1 .. k + 1 : path(k + 1)[i] = hop[i - 1]
          BY <1>7, <4>1, Zenon
        <5>2. /\ Valid(hop[k], t) = {} /\ Follows(hop[k], t) /\ ~(k + 1 >= MaxSeen)
              /\ \A i \in 1 .. k + 1 : hop[i - 1] # alias[hop[k]]
          BY <1>5, <4>1, CacheAssumption
        <5> HIDE DEF path
        <5> QED
          BY <5>1, <5>2, Zenon DEF Onward
      <4>4. Append(path(k + 1), alias[hop[k]]) = path(k + 2)
        <5>1. hop[k + 1] = alias[hop[k]] /\ hop[k] \in Names
          BY <1>1, <1>5, <1>6, <4>1, CacheAssumption
        <5>2. path(k + 1) \in Seq(Names) /\ Len(path(k + 1)) = k + 1 /\ path(k + 2) \in Seq(Names)
              /\ Len(path(k + 2)) = k + 2
          BY <1>7, <4>1, Zenon DEF Walks
        <5>3. alias[hop[k]] \in Names
          BY <1>5, <4>1, <5>1, Zenon DEF Follows, TypeOK
        <5>4. \A i \in 1 .. k + 2 : Append(path(k + 1), alias[hop[k]])[i] = path(k + 2)[i]
          BY <5>1, <5>2, <5>3, <4>1
        <5> HIDE DEF path
        <5>5. /\ Append(path(k + 1), alias[hop[k]]) \in Seq(Names)
              /\ Len(Append(path(k + 1), alias[hop[k]])) = k + 2
          BY <5>2, <5>3
        <5> QED
          BY <5>2, <5>4, <5>5
      <4>5. w[<<d>>] = w[path(k + 1)]
        BY <2>2, <4>1
      <4>6. k + 2 = (k + 1) + 1
        OBVIOUS
      <4> HIDE DEF path
      <4>7. w[<<d>>] = w[path((k + 1) + 1)]
        BY <4>2, <4>3, <4>4, <4>5, <4>6, Zenon
      <4> QED
        BY <4>7
    <3> QED
      BY <3>1
  <2> HIDE DEF T
  <2>3. n - 1 \in Nat /\ n - 1 \in T
    BY <1>4, <2>1, <2>2, NatSetInduction
  <2> QED
    BY <1>4, <2>3 DEF T
<1>9. AddressHop(d, t) = Onward(w, path(n), t)
  <2>1. path(n) \in Walks
    <3>1. n \in 1 .. n
      BY <1>4
    <3> QED
      BY <1>7, <3>1, Zenon
  <2>2. Walk(t)[path(n)] = Onward(Walk(t), path(n), t)
    BY <2>1, WalkDefined, Zenon
  <2>3. AddressHop(d, t) = Walk(t)[<<d>>]
    BY AddressHopWalks, Zenon
  <2> QED
    BY <1>8, <2>2, <2>3, Zenon DEF w
<1>10. AddressHop(d, t) = IF Valid(hop[n - 1], t) # {} THEN hop[n - 1] ELSE NoName
  <2>1. /\ path(n)[Len(path(n))] = hop[n - 1] /\ Len(path(n)) = n
        /\ \A i \in 1 .. n : path(n)[i] = hop[i - 1]
    BY <1>4, <1>7
  <2> HIDE DEF path
  <2> QED
    <3>1. Stops(n)
      BY <1>4, Zenon
    <3>2. PICK p, l, h : p = path(n) /\ l = Len(p) /\ h = hop[n - 1]
      BY Zenon
    <3>3. p[l] = h /\ l = n /\ \A i \in 1 .. n : p[i] = hop[i - 1]
      BY <2>1, <3>2, Zenon
    <3>4. Valid(h, t) = {} => \/ ~Follows(h, t) \/ l >= MaxSeen
                             \/ \E i \in 1 .. l : p[i] = alias[h]
      BY <3>1, <3>2, <3>3, Zenon
    <3>5. Onward(w, p, t) = IF Valid(h, t) # {} THEN h ELSE NoName
      <4> HIDE DEF w
      <4> QED
        BY <3>2, <3>3, <3>4, Zenon DEF Onward
    <3> QED
      BY <1>9, <3>2, <3>5, Zenon
<1>11. CASE Valid(hop[n - 1], t) # {}
  <2>1. n - 1 \in GoodHops(d, t) /\ hop[n - 1] # NoName
    BY <1>4, <1>6, <1>11, CacheAssumption DEF GoodHops, hop
  <2>2. \A k \in GoodHops(d, t) : n - 1 <= k
    <3> SUFFICES ASSUME NEW k \in GoodHops(d, t), k < n - 1 PROVE FALSE
      BY <1>4, CacheAssumption DEF GoodHops
    <3>1. k \in Nat /\ k + 1 \in 1 .. n - 1 /\ (k + 1) - 1 = k
      BY <1>4, CacheAssumption DEF GoodHops
    <3> QED
      BY <1>5, <3>1, Zenon DEF GoodHops, hop
  <2>3. \A k \in GoodHops(d, t) : (\A j \in GoodHops(d, t) : k <= j) => k = n - 1
    BY <1>4, <2>1, <2>2, CacheAssumption DEF GoodHops
  <2> QED
    BY <1>10, <1>11, <2>1, <2>3, Zenon DEF GetAddresses, hop
<1>12. CASE Valid(hop[n - 1], t) = {}
  <2> DEFINE A == {hop[i] : i \in 0 .. n - 1}
  <2>1. \A x \in A : Valid(x, t) = {}
    <3> SUFFICES ASSUME NEW i \in 0 .. n - 1 PROVE Valid(hop[i], t) = {}
      BY Zenon
    <3>1. CASE i < n - 1
      <4>1. i + 1 \in 1 .. n - 1 /\ (i + 1) - 1 = i
        BY <1>4, <3>1
      <4> QED
        BY <1>5, <4>1, Zenon
    <3> QED
      BY <1>4, <1>12, <3>1
  <2>2. \A k \in 0 .. MaxSeen - 1 : hop[k] \in A \cup {NoName}
    <3>1. CASE n = MaxSeen
      BY <3>1, Zenon
    <3>2. CASE n # MaxSeen
      <4>1. ~Follows(hop[n - 1], t) \/ \E i \in 1 .. n : hop[i - 1] = alias[hop[n - 1]]
        BY <1>4, <1>12, <3>2, CacheAssumption
      <4>2. next(hop[n - 1]) \in A \cup {NoName}
        <5>1. ASSUME NEW i \in 1 .. n PROVE hop[i - 1] \in A
          BY <1>4
        <5> QED
          BY <4>1, <5>1, Zenon
      <4> DEFINE T == {k \in Nat : hop[k] \in A \cup {NoName}}
      <4>3. 0 \in T
        BY <1>4
      <4>4. ASSUME NEW k \in Nat, k \in T PROVE k + 1 \in T
        <5>1. CASE hop[k] = NoName
          BY <1>1, <5>1
        <5>2. CASE hop[k] \in A
          <6>1. PICK i \in 0 .. n - 1 : hop[k] = hop[i]
            BY <5>2, Zenon
          <6>2. hop[k + 1] = next(hop[i])
            BY <1>1, <6>1, Zenon
          <6>3. CASE i = n - 1
            BY <4>2, <6>2, <6>3
          <6>4. CASE i # n - 1
            <7>1. i + 1 \in 0 .. n - 1 /\ i \in Nat
              BY <1>4, <6>4
            <7>2. hop[k + 1] = hop[i + 1]
              BY <1>1, <6>2, <7>1, Zenon
            <7> QED
              BY <7>1, <7>2
          <6> QED
            BY <6>3, <6>4, Zenon
        <5> QED
          BY <4>4, <5>1, <5>2, Zenon
      <4>5. \A k \in Nat : k \in T
        <5> HIDE DEF T
        <5> QED
          BY <4>3, <4>4, NatSetInduction, Zenon
      <4> QED
        BY <4>5, CacheAssumption
    <3> QED
      BY <3>1, <3>2, Zenon
  <2> HIDE DEF A
  <2>3. GoodHops(d, t) = {}
    BY <2>1, <2>2, Zenon DEF GoodHops, hop
  <2>4. AddressHop(d, t) = NoName
    BY <1>10, <1>12, Zenon
  <2> QED
    BY <2>3, <2>4, Zenon DEF GetAddresses
<1> QED
  BY <1>11, <1>12, Zenon

\* mt_cache_get_addresses.
LEMMA LookupIsExact == TypeOK => LookupExact
<1> SUFFICES ASSUME TypeOK, NEW d \in Names
             PROVE  LET first == CHOOSE k \in GoodHops(d, now) : \A j \in GoodHops(d, now) : k <= j
                    IN  GetAddresses(d, now) = IF GoodHops(d, now) = {} THEN {}
                                               ELSE Valid(HopsAt(d, now)[first], now)
  BY ZenonT(30) DEF LookupExact, GoodHops
<1>1. CASE GoodHops(d, now) # {}
  <2>1. GoodHops(d, now) \in SUBSET Nat
    BY CacheAssumption DEF GoodHops
  <2>2. \E k \in GoodHops(d, now) : \A j \in GoodHops(d, now) : k <= j
    BY <1>1, <2>1, LeastNat, Zenon
  <2> QED
    BY <1>1, <2>2, LookupNearest, Zenon
<1> QED
  BY <1>1, LookupNearest, Zenon

-----------------------------------------------------------------------------
\* Hops of the chain of x, expired aliases included.
LEMMA AliasHopsDefined ==
    ASSUME TypeOK, NEW x \in Names
    PROVE  /\ AliasHops(x) \in [Nat -> Names \cup {NoName}]
           /\ AliasHops(x)[0] = x
           /\ \A k \in Nat : AliasHops(x)[k + 1] = IF AliasHops(x)[k] = NoName THEN NoName
                                                    ELSE alias[AliasHops(x)[k]]
<1> DEFINE S == Names \cup {NoName}
           to == [y \in S |-> IF y = NoName THEN NoName ELSE alias[y]]
           step == [n \in Nat |-> to]
           Hops(h) == [k \in Nat |-> IF k = 0 THEN x
                          ELSE IF h[k - 1] = NoName THEN NoName ELSE alias[h[k - 1]]]
<1>1. to \in [S -> S]
  BY Zenon DEF TypeOK
<1>2. step \in [Nat -> [S -> S]] /\ x \in S
  BY <1>1, Zenon
<1>3. PICK f \in [Nat -> S] : f[0] = x /\ \A n \in Nat \ {0} : f[n] = step[n][f[n - 1]]
  <2> HIDE DEF step, S
  <2> QED
    BY <1>2, Recursion
<1>4. \A n \in Nat \ {0} : f[n] = IF f[n - 1] = NoName THEN NoName ELSE alias[f[n - 1]]
  <2> SUFFICES ASSUME NEW n \in Nat \ {0}
               PROVE  f[n] = to[f[n - 1]] /\ f[n - 1] \in S
    BY Zenon
  <2>1. n - 1 \in Nat
    OBVIOUS
  <2> HIDE DEF to, S
  <2> QED
    BY <1>3, <2>1, Zenon
<1>5. f = Hops(f)
  <2>1. \A n \in Nat : f[n] = Hops(f)[n]
    BY <1>3, <1>4, Zenon
  <2>2. f = [n \in Nat |-> f[n]] /\ Hops(f) = [n \in Nat |-> Hops(f)[n]]
    BY Zenon
  <2> HIDE DEF Hops
  <2> QED
    BY <2>1, <2>2, Zenon
<1>6. AliasHops(x) = CHOOSE h : h = Hops(h)
  BY Zenon DEF AliasHops
<1> DEFINE hop == AliasHops(x)
<1>7. hop = Hops(hop)
  <2> HIDE DEF Hops
  <2> QED
    BY <1>5, <1>6, Zenon
<1> HIDE DEF hop
<1>8. /\ hop[0] = x
      /\ \A k \in Nat : hop[k + 1] = IF hop[k] = NoName THEN NoName ELSE alias[hop[k]]
  <2>1. \A k \in Nat : hop[k] = Hops(hop)[k]
    BY <1>7, Zenon
  <2> QED
    BY <2>1
<1>9. \A k \in Nat : hop[k] \in S
  <2> DEFINE T == {k \in Nat : hop[k] \in S}
  <2>1. 0 \in T
    BY <1>8, Zenon
  <2>2. ASSUME NEW k \in Nat, k \in T PROVE k + 1 \in T
    BY <1>8, <2>2 DEF TypeOK
  <2> HIDE DEF T
  <2>3. \A k \in Nat : k \in T
    BY <2>1, <2>2, NatSetInduction, Zenon
  <2> QED
    BY <2>3, Zenon DEF T
<1>10. hop \in [Nat -> S]
  <2>1. DOMAIN hop = Nat
    BY <1>7, Zenon
  <2>2. hop = [k \in DOMAIN hop |-> hop[k]]
    BY <1>7, Zenon
  <2> QED
    BY <1>9, <2>1, <2>2, Zenon
<1> QED
  BY <1>8, <1>10, Zenon DEF hop

\* The chain of x goes on as the chain of its alias.
LEMMA AliasHopsShift ==
    ASSUME TypeOK, NEW x \in Names, alias[x] \in Names
    PROVE  \A k \in Nat : AliasHops(x)[k + 1] = AliasHops(alias[x])[k]
<1> DEFINE T == {k \in Nat : AliasHops(x)[k + 1] = AliasHops(alias[x])[k]}
<1>1. 0 \in T
  BY AliasHopsDefined, CacheAssumption
<1>2. ASSUME NEW k \in Nat, k \in T PROVE k + 1 \in T
  <2>1. AliasHops(x)[k + 1] = AliasHops(alias[x])[k]
    BY <1>2, Zenon
  <2>2. AliasHops(x)[(k + 1) + 1] = AliasHops(alias[x])[k + 1]
    BY <2>1, AliasHopsDefined
  <2> QED
    BY <2>2
<1> HIDE DEF T
<1>3. \A k \in Nat : k \in T
  BY <1>1, <1>2, NatSetInduction, Zenon
<1> QED
  BY <1>3, Zenon DEF T

\* A chain that leads to d does so without passing a name twice.
LEMMA AliasHopsShort ==
    ASSUME TypeOK, NEW x \in Names, NEW d \in Names, NEW k \in Nat, AliasHops(x)[k] = d
    PROVE  \E m \in 0 .. Cardinality(Names) - 1 : AliasHops(x)[m] = d
<1> DEFINE hop == AliasHops(x)
           S == {m \in Nat : hop[m] = d}
<1> HIDE DEF hop
<1>1. /\ hop \in [Nat -> Names \cup {NoName}]
      /\ \A j \in Nat : hop[j + 1] = IF hop[j] = NoName THEN NoName ELSE alias[hop[j]]
  BY AliasHopsDefined, Zenon DEF hop
<1>2. PICK m \in S : \A j \in S : m <= j
  <2>1. S \in SUBSET Nat /\ S # {}
    BY Zenon DEF hop
  <2> HIDE DEF S
  <2> QED
    BY <2>1, LeastNat, Zenon
<1>3. m \in Nat /\ hop[m] = d
  BY <1>2, Zenon
<1>4. \A j \in 0 .. m : hop[j] \in Names
  <2> DEFINE T == {j \in Nat : j <= m => hop[m - j] \in Names}
  <2>1. 0 \in T
    BY <1>3
  <2>2. ASSUME NEW j \in Nat, j \in T PROVE j + 1 \in T
    <3>1. CASE j + 1 <= m
      <4>1. m - (j + 1) \in Nat /\ (m - (j + 1)) + 1 = m - j /\ hop[m - j] \in Names
        BY <1>3, <2>2, <3>1
      <4>2. hop[m - (j + 1)] # NoName
        BY <1>1, <4>1, CacheAssumption, Zenon
      <4> QED
        BY <1>1, <4>1, <4>2
    <3> QED
      BY <3>1
  <2> HIDE DEF T
  <2>3. \A j \in Nat : j \in T
    BY <2>1, <2>2, NatSetInduction, Zenon
  <2> SUFFICES ASSUME NEW j \in 0 .. m PROVE hop[j] \in Names
    BY Zenon
  <2>4. m - j \in Nat /\ m - j \in T /\ m - (m - j) = j /\ m - j <= m
    BY <1>3, <2>3
  <2> QED
    BY <2>4, Zenon DEF T
<1>5. ASSUME NEW i \in 0 .. m, NEW j \in 0 .. m, i < j, hop[i] = hop[j]
      PROVE  FALSE
  <2> DEFINE T == {l \in Nat : hop[i + l] = hop[j + l]}
  <2>1. 0 \in T
    BY <1>3, <1>5
  <2>2. ASSUME NEW l \in Nat, l \in T PROVE l + 1 \in T
    <3>1. i + l \in Nat /\ j + l \in Nat /\ (i + l) + 1 = i + (l + 1) /\ (j + l) + 1 = j + (l + 1)
      BY <1>3
    <3>2. hop[i + (l + 1)] = hop[j + (l + 1)]
      BY <1>1, <2>2, <3>1, Zenon
    <3> QED
      BY <3>2
  <2> HIDE DEF T
  <2>3. m - j \in Nat /\ m - j \in T
    BY <1>3, <2>1, <2>2, NatSetInduction
  <2>4. hop[i + (m - j)] = hop[j + (m - j)] /\ j + (m - j) = m
    BY <1>3, <2>3 DEF T
  <2>5. i + (m - j) \in S
    BY <1>3, <2>4
  <2> QED
    BY <1>2, <1>3, <1>5, <2>5
<1>6. m \in 0 .. Cardinality(Names) - 1
  <2> DEFINE f == [j \in 0 .. m |-> hop[j]]
  <2>1. f \in [0 .. m -> Names]
    BY <1>4, Zenon
  <2>2. \A i, j \in 0 .. m : f[i] = f[j] => i = j
    <3> SUFFICES ASSUME NEW i \in 0 .. m, NEW j \in 0 .. m, hop[i] = hop[j], i # j PROVE FALSE
      BY Zenon
    <3>1. i < j \/ j < i
      BY <1>3
    <3> QED
      BY <1>5, <3>1, Zenon
  <2>3. f \in Injection(0 .. m, Names)
    BY <2>1, <2>2, Zenon DEF Injection, IsInjective
  <2>4. Cardinality(0 .. m) <= Cardinality(Names)
    <3> HIDE DEF f
    <3> QED
      BY <2>3, FS_Injection, CacheAssumption, Zenon
  <2>5. Cardinality(0 .. m) = m + 1
    BY <1>3, FS_Interval
  <2>6. Cardinality(Names) \in Nat
    BY FS_CardinalityType, CacheAssumption, Zenon
  <2> QED
    BY <1>3, <2>4, <2>5, <2>6
<1> QED
  BY <1>3, <1>6, Zenon DEF hop

\* The domains whose edge leads into S.
Pointing(S) == {d \in Names : \E a \in S : rev[a][d] > 0}

\* What every set around S that no edge leads into has in common.
Closure(S) ==
    {x \in Names : \A U \in SUBSET Names : S \subseteq U /\ Pointing(U) \subseteq U => x \in U}

Wider(b, S) == IF Pointing(S) \subseteq S THEN S ELSE b[S \cup Pointing(S)]

\* The search of mt_cache_get_aliases ends with the closure: each round adds a
\* name and there are finitely many.
LEMMA SearchFindsClosure ==
    ASSUME NEW d \in Names
    PROVE  GetAliases(d) = Closure({d})
<1> DEFINE Search(b) == [S \in SUBSET Names |-> Wider(b, S)]
           c == [S \in SUBSET Names |-> Closure(S)]
           b0 == CHOOSE b : b = Search(b)
<1>1. \A S \in SUBSET Names : S \cup Pointing(S) \in SUBSET Names
  BY Zenon DEF Pointing
<1>2. ASSUME NEW S \in SUBSET Names
      PROVE  Closure(S) = IF Pointing(S) \subseteq S THEN S ELSE Closure(S \cup Pointing(S))
  <2>1. ASSUME NEW U \in SUBSET Names, S \subseteq U, Pointing(U) \subseteq U
        PROVE  S \cup Pointing(S) \subseteq U
    BY <2>1, Zenon DEF Pointing
  <2>2. CASE Pointing(S) \subseteq S
    BY <2>2, Zenon DEF Closure
  <2>3. Closure(S \cup Pointing(S)) = Closure(S)
    BY <2>1, Zenon DEF Closure
  <2> QED
    BY <2>2, <2>3, Zenon
<1>3. c = Search(c)
  <2>1. ASSUME NEW S \in SUBSET Names PROVE c[S] = Search(c)[S]
    <3>1. c[S] = Closure(S) /\ c[S \cup Pointing(S)] = Closure(S \cup Pointing(S))
      BY <1>1, Zenon
    <3> HIDE DEF c
    <3>2. Search(c)[S] = IF Pointing(S) \subseteq S THEN S ELSE c[S \cup Pointing(S)]
      BY Zenon DEF Wider
    <3> QED
      BY <1>2, <3>1, <3>2, Zenon
  <2>2. c = [S \in SUBSET Names |-> c[S]] /\ Search(c) = [S \in SUBSET Names |-> Search(c)[S]]
    BY Zenon
  <2> HIDE DEF c, Search
  <2> QED
    BY <2>1, <2>2, Zenon
<1>4. b0 = Search(b0)
  <2> HIDE DEF Search, c
  <2> QED
    BY <1>3, Zenon
<1>5. GetAliases(d) = b0[{d}]
  BY Zenon DEF GetAliases, Wider, Pointing
<1> HIDE DEF b0
<1>6. \A S \in SUBSET Names : b0[S] = Wider(b0, S)
  <2>1. \A S \in SUBSET Names : Search(b0)[S] = Wider(b0, S)
    BY Zenon
  <2> HIDE DEF Search
  <2> QED
    BY <1>4, <2>1, Zenon
<1> DEFINE T == {n \in Nat : \A S \in SUBSET Names :
                               Cardinality(S) + n >= Cardinality(Names) => b0[S] = Closure(S)}
<1>7. Cardinality(Names) \in Nat
  BY FS_CardinalityType, CacheAssumption, Zenon
<1>8. ASSUME NEW S \in SUBSET Names
      PROVE  /\ Cardinality(S) \in Nat /\ Cardinality(S) <= Cardinality(Names)
             /\ Cardinality(S) = Cardinality(Names) => S = Names
             /\ ~(Pointing(S) \subseteq S) =>
                   Cardinality(S \cup Pointing(S)) \in Nat
                   /\ Cardinality(S \cup Pointing(S)) >= Cardinality(S) + 1
  <2>1. /\ IsFiniteSet(S) /\ Cardinality(S) \in Nat /\ Cardinality(S) <= Cardinality(Names)
        /\ Cardinality(S) = Cardinality(Names) => S = Names
    BY NodesFinite, FS_Subset, CacheAssumption, Zenon
  <2>2. ASSUME ~(Pointing(S) \subseteq S)
        PROVE  Cardinality(S \cup Pointing(S)) \in Nat
               /\ Cardinality(S \cup Pointing(S)) >= Cardinality(S) + 1
    <3> DEFINE W == S \cup Pointing(S)
    <3>1. W \in SUBSET Names
      BY <1>1, Zenon
    <3>2. IsFiniteSet(W) /\ Cardinality(W) \in Nat
      BY <3>1, NodesFinite, Zenon
    <3>3. S \in SUBSET W /\ W # S
      BY <2>2, Zenon
    <3> HIDE DEF W
    <3>4. Cardinality(S) <= Cardinality(W) /\ Cardinality(W) # Cardinality(S)
      BY <3>2, <3>3, FS_Subset, Zenon
    <3>5. Cardinality(W) >= Cardinality(S) + 1
      BY <2>1, <3>2, <3>4
    <3> QED
      BY <3>2, <3>5, Zenon DEF W
  <2> QED
    BY <2>1, <2>2, Zenon
<1>9. 0 \in T
  <2> SUFFICES ASSUME NEW S \in SUBSET Names, Cardinality(S) + 0 >= Cardinality(Names)
               PROVE  b0[S] = Closure(S)
    BY Zenon
  <2>1. S = Names
    <3>1. Cardinality(S) \in Nat /\ Cardinality(S) <= Cardinality(Names)
      BY <1>8, Zenon
    <3>2. Cardinality(S) = Cardinality(Names)
      BY <1>7, <3>1
    <3> QED
      BY <1>8, <3>2, Zenon
  <2>2. Pointing(S) \subseteq S
    BY <2>1, Zenon DEF Pointing
  <2> QED
    BY <1>2, <1>6, <2>2, Zenon DEF Wider
<1>10. ASSUME NEW n \in Nat, n \in T PROVE n + 1 \in T
  <2> SUFFICES ASSUME NEW S \in SUBSET Names, Cardinality(S) + (n + 1) >= Cardinality(Names)
               PROVE  b0[S] = Closure(S)
    OBVIOUS
  <2>1. CASE Pointing(S) \subseteq S
    BY <1>2, <1>6, <2>1, Zenon DEF Wider
  <2>2. CASE ~(Pointing(S) \subseteq S)
    <3> DEFINE W == S \cup Pointing(S)
    <3>1. W \in SUBSET Names
      BY <1>1, Zenon
    <3>2. Cardinality(W) + n >= Cardinality(Names)
      BY <1>7, <1>8, <2>2
    <3>3. b0[W] = Closure(W)
      <4> HIDE DEF W
      <4> QED
        BY <1>10, <3>1, <3>2, Zenon
    <3>4. b0[S] = b0[W]
      BY <1>6, <2>2, Zenon DEF Wider
    <3>5. Closure(S) = Closure(W)
      BY <1>2, <2>2, Zenon
    <3> QED
      BY <3>3, <3>4, <3>5, Zenon
  <2> QED
    BY <2>1, <2>2, Zenon
<1>11. Cardinality(Names) \in T
  <2> HIDE DEF T
  <2>1. \A n \in Nat : n \in T
    BY <1>9, <1>10, NatSetInduction, Zenon
  <2> QED
    BY <1>7, <2>1, Zenon
<1>12. {d} \in SUBSET Names /\ Cardinality({d}) + Cardinality(Names) >= Cardinality(Names)
  <2>1. {d} \in SUBSET Names
    BY Zenon
  <2>2. Cardinality({d}) \in Nat
    BY <1>8, <2>1, Zenon
  <2> QED
    BY <1>7, <2>1, <2>2
<1> QED
  BY <1>5, <1>11, <1>12, Zenon

\* mt_cache_get_aliases is exact while no allocation has failed.
LEMMA AliasesAreExact == CacheInv => AliasesExact
<1> SUFFICES ASSUME CacheInv, faults = 0, NEW d \in Names
             PROVE  GetAliases(d) = {x \in Names : \E k \in 0 .. Cardinality(Names) - 1 :
                                                       AliasHops(x)[k] = d}
  BY Zenon DEF AliasesExact
<1>1. TypeOK
  BY Zenon DEF CacheInv
<1> DEFINE L == {x \in Names : \E k \in Nat : AliasHops(x)[k] = d}
<1>2. \A a, x \in Names : rev[a][x] > 0 <=> alias[x] = a
  BY DEF CacheInv, ReverseIndexExact
<1>3. L \in SUBSET Names /\ {d} \subseteq L
  BY <1>1, AliasHopsDefined, Zenon
<1>4. Pointing(L) \subseteq L
  <2> SUFFICES ASSUME NEW x \in Names, NEW a \in L, rev[a][x] > 0 PROVE x \in L
    BY Zenon DEF Pointing
  <2>1. alias[x] = a /\ alias[x] \in Names
    BY <1>2, Zenon
  <2>2. PICK k \in Nat : AliasHops(a)[k] = d
    BY Zenon
  <2>3. AliasHops(x)[k + 1] = d /\ k + 1 \in Nat
    BY <1>1, <2>1, <2>2, AliasHopsShift
  <2> QED
    BY <2>3, Zenon
<1>5. ASSUME NEW U \in SUBSET Names, {d} \subseteq U, Pointing(U) \subseteq U
      PROVE  L \subseteq U
  <2> DEFINE T == {k \in Nat : \A x \in Names : AliasHops(x)[k] = d => x \in U}
  <2>1. 0 \in T
    BY <1>1, <1>5, AliasHopsDefined
  <2>2. ASSUME NEW k \in Nat, k \in T PROVE k + 1 \in T
    <3> SUFFICES ASSUME NEW x \in Names, AliasHops(x)[k + 1] = d PROVE x \in U
      OBVIOUS
    <3>1. alias[x] \in Names
      <4> DEFINE N == {j \in Nat : AliasHops(x)[j + 1] = NoName}
      <4>1. CASE alias[x] = NoName
        <5>1. 0 \in N
          BY <1>1, <4>1, AliasHopsDefined, CacheAssumption
        <5>2. \A j \in Nat : j \in N => j + 1 \in N
          BY <1>1, AliasHopsDefined
        <5> HIDE DEF N
        <5>3. k \in N
          BY <5>1, <5>2, NatSetInduction, Zenon
        <5> QED
          BY <5>3, CacheAssumption, Zenon DEF N
      <4> QED
        BY <1>1, <4>1, Zenon DEF TypeOK
    <3>2. AliasHops(alias[x])[k] = d
      BY <1>1, <3>1, AliasHopsShift, Zenon
    <3>3. alias[x] \in U
      BY <2>2, <3>1, <3>2, Zenon
    <3>4. x \in Pointing(U)
      BY <1>2, <3>1, <3>3, Zenon DEF Pointing
    <3> QED
      BY <1>5, <3>4, Zenon
  <2>3. \A k \in Nat : k \in T
    <3> HIDE DEF T
    <3> QED
      BY <2>1, <2>2, NatSetInduction, Zenon
  <2> QED
    BY <2>3, Zenon
<1>6. Closure({d}) = L
  <2> HIDE DEF L
  <2> QED
    BY <1>3, <1>4, <1>5, Zenon DEF Closure
<1>7. L = {x \in Names : \E k \in 0 .. Cardinality(Names) - 1 : AliasHops(x)[k] = d}
  <2>1. \A k \in 0 .. Cardinality(Names) - 1 : k \in Nat
    BY FS_CardinalityType, CacheAssumption
  <2> QED
    BY <1>1, <2>1, AliasHopsShort, Zenon
<1> QED
  BY <1>6, <1>7, SearchFindsClosure, Zenon

-----------------------------------------------------------------------------
\* The chain of live aliases, and what a lookup at the current time returns.
ChainLaw ==
    \A d \in Names :
        /\ HopsAt(d, now) \in [Nat -> Names \cup {NoName}]
        /\ HopsAt(d, now)[0] = d
        /\ \A k \in Nat : HopsAt(d, now)[k + 1] =
             IF HopsAt(d, now)[k] = NoName \/ ~Follows(HopsAt(d, now)[k], now)
               THEN NoName ELSE alias[HopsAt(d, now)[k]]

LookupLaw ==
    \A d \in Names :
        /\ GoodHops(d, now) = {} => GetAddresses(d, now) = {}
        /\ \A k \in GoodHops(d, now) : (\A j \in GoodHops(d, now) : k <= j) =>
               GetAddresses(d, now) = Valid(HopsAt(d, now)[k], now)

\* Both laws hold in every well typed state of the cache.
LEMMA LookupLaws == TypeOK => ChainLaw /\ LookupLaw
BY HopsDefined, LookupNearest DEF ChainLaw, LookupLaw

\* Cleanup leaves what is alive alone.
LEMMA CleanupKeepsLive ==
    ASSUME CacheInv, Cleanup, NEW d \in Names
    PROVE  /\ Valid(d, now)' = Valid(d, now)
           /\ Follows(d, now)' <=> Follows(d, now)
           /\ Follows(d, now) => alias'[d] = alias[d]
<1>1. /\ addrs \in [Names -> [Addrs -> Deadlines]] /\ now \in Nat /\ now' = now
      /\ alias' = LeftAlias /\ addrs' = LeftAddrs /\ alias_deadline' = alias_deadline
      /\ alias_deadline \in [Names -> Nat]
  BY CacheAssumption DEF CacheInv, TypeOK, Cleanup
<1>2. \A x \in Names \ nodes : alias[x] = NoName
  BY Zenon DEF CacheInv, CapacityExact
<1>3. \A a \in Addrs : addrs'[d][a] > now <=> addrs[d][a] > now
  <2>1. \A a \in Addrs : addrs[d][a] \in Int /\
            addrs'[d][a] = IF addrs[d][a] <= now THEN Absent ELSE addrs[d][a]
    BY <1>1 DEF LeftAddrs, Deadlines, Absent
  <2> QED
    BY <1>1, <2>1 DEF Absent
<1>4. alias'[d] = IF d \in Expired THEN NoName ELSE alias[d]
  BY <1>1, Zenon DEF LeftAlias
<1>5. d \in Expired <=> alias[d] # NoName /\ alias_deadline[d] <= now
  BY <1>2, Zenon DEF Expired
<1> QED
  BY <1>1, <1>3, <1>4, <1>5 DEF Valid, Follows

\* mt_cache_cleanup changes no answer of mt_cache_get_addresses.
LEMMA CleanupKeepsLookups ==
    ASSUME CacheInv, CacheInv', Cleanup, NEW d \in Names
    PROVE  GetAddresses(d, now)' = GetAddresses(d, now)
<1> DEFINE hop == HopsAt(d, now)
<1>1. TypeOK /\ TypeOK' /\ now \in Nat /\ now' = now
  BY CacheAssumption DEF CacheInv, TypeOK, Cleanup
<1>2. ChainLaw /\ LookupLaw /\ ChainLaw' /\ LookupLaw'
  <2>1. (TypeOK => ChainLaw /\ LookupLaw)'
    BY LookupLaws, PTL
  <2> QED
    BY <1>1, <2>1, LookupLaws, Zenon
<1>3. /\ hop \in [Nat -> Names \cup {NoName}] /\ hop[0] = d
      /\ \A k \in Nat : hop[k + 1] = IF hop[k] = NoName \/ ~Follows(hop[k], now)
                                     THEN NoName ELSE alias[hop[k]]
  BY <1>2, Zenon DEF ChainLaw
<1>4. /\ hop' \in [Nat -> Names \cup {NoName}] /\ hop'[0] = d
      /\ \A k \in Nat : hop'[k + 1] = IF hop'[k] = NoName \/ ~Follows(hop[k], now)'
                                     THEN NoName ELSE alias'[hop'[k]]
  BY <1>2, Zenon DEF ChainLaw
<1> HIDE DEF hop
<1>5. \A k \in Nat : hop'[k] = hop[k]
  <2> DEFINE T == {k \in Nat : hop'[k] = hop[k]}
  <2>1. 0 \in T
    BY <1>3, <1>4, Zenon
  <2>2. ASSUME NEW k \in Nat, k \in T PROVE k + 1 \in T
    <3>1. hop[k] \in Names \cup {NoName} /\ hop'[k] = hop[k] /\ k + 1 \in Nat
      BY <1>3, <2>2
    <3>2. hop[k] \in Names => (Follows(hop[k], now)' <=> Follows(hop[k], now))
                              /\ (Follows(hop[k], now) => alias'[hop[k]] = alias[hop[k]])
      BY <3>1, CleanupKeepsLive, Zenon
    <3> QED
      BY <1>3, <1>4, <3>1, <3>2, Zenon
  <2> HIDE DEF T
  <2>3. \A k \in Nat : k \in T
    BY <2>1, <2>2, NatSetInduction, Zenon
  <2> QED
    BY <2>3, Zenon DEF T
<1>6. ASSUME NEW k \in Nat, hop[k] # NoName
      PROVE  Valid(hop[k], now)' = Valid(hop[k], now)
  <2>1. hop[k] \in Names /\ hop'[k] = hop[k]
    BY <1>3, <1>5, <1>6, Zenon
  <2> QED
    BY <2>1, CleanupKeepsLive, Zenon
<1>7. 0 .. MaxSeen - 1 \subseteq Nat
  BY CacheAssumption
<1>8. GoodHops(d, now) = {k \in 0 .. MaxSeen - 1 : hop[k] # NoName /\ Valid(hop[k], now) # {}}
  BY Zenon DEF GoodHops, hop
<1>9. GoodHops(d, now)' = {k \in 0 .. MaxSeen - 1 : hop'[k] # NoName /\ Valid(hop[k], now)' # {}}
  BY Zenon DEF GoodHops, hop
<1>10. GoodHops(d, now)' = GoodHops(d, now)
  BY <1>5, <1>6, <1>7, <1>8, <1>9, Zenon
<1>11. GoodHops(d, now) \in SUBSET Nat
  BY <1>7, <1>8, Zenon
<1>12. CASE GoodHops(d, now) = {}
  BY <1>2, <1>10, <1>12, Zenon DEF LookupLaw
<1>13. CASE GoodHops(d, now) # {}
  <2>1. PICK k \in GoodHops(d, now) : \A j \in GoodHops(d, now) : k <= j
    BY <1>11, <1>13, LeastNat, Zenon
  <2>2. GetAddresses(d, now) = Valid(hop[k], now)
    BY <1>2, <2>1, Zenon DEF LookupLaw, hop
  <2>3. k \in GoodHops(d, now)' /\ \A j \in GoodHops(d, now)' : k <= j
    BY <1>10, <2>1, Zenon
  <2>4. GetAddresses(d, now)' = Valid(hop[k], now)'
    BY <1>2, <2>3, Zenon DEF LookupLaw, hop
  <2>5. Valid(hop[k], now)' = Valid(hop[k], now)
    BY <1>6, <1>8, <1>11, <2>1, Zenon
  <2> QED
    BY <2>2, <2>4, <2>5, Zenon
<1> QED
  BY <1>12, <1>13, Zenon

\* mt_cache_get_addresses always returns the addresses of the nearest hop with
\* an unexpired one among the first MaxSeen: the cycle guard cuts no chain short
\* that would have led to an address.
THEOREM LookupCorrect == Spec => []LookupExact
<1>1. CacheInv => LookupExact
  BY LookupIsExact, Zenon DEF CacheInv
<1> QED
  BY <1>1, CacheInvariant, PTL

\* mt_cache_get_aliases returns exactly the names whose chain leads to the
\* domain, however long the chains and whether or not they form a cycle.
THEOREM AliasesCorrect == Spec => []AliasesExact
<1>1. CacheInv => AliasesExact
  BY AliasesAreExact, Zenon
<1> QED
  BY <1>1, CacheInvariant, PTL

\* mt_cache_cleanup changes the answer of no lookup and leaves no empty node.
THEOREM CleanupCorrect == Spec => CleanupInvisible
<1>1. ASSUME CacheInv, CacheInv', Cleanup
      PROVE  \A d \in nodes' : alias'[d] # NoName \/ \E a \in Addrs : addrs'[d][a] # Absent
  BY <1>1, Zenon DEF Cleanup, Emptied
<1>2. CacheInv /\ CacheInv' =>
        [Cleanup =>
           /\ \A d \in Names : GetAddresses(d, now)' = GetAddresses(d, now)
           /\ \A d \in nodes' : alias'[d] # NoName \/ \E a \in Addrs : addrs'[d][a] # Absent]_vars
  BY <1>1, CleanupKeepsLookups, Zenon
<1> QED
  BY <1>2, CacheInvariant, PTL DEF CleanupInvisible

-----------------------------------------------------------------------------
\* Routing.

\* A function on a finite set has a greatest value.
LEMMA GreatestValue ==
    ASSUME NEW S, IsFiniteSet(S), S # {}, NEW f \in [S -> Nat]
    PROVE  \E x \in S : \A y \in S : f[y] <= f[x]
<1> DEFINE Top(s) == s # {} => \E x \in s : \A y \in s : f[y] <= f[x]
           T == {n \in Nat : \A s \in SUBSET S : Cardinality(s) = n => Top(s)}
<1>1. ASSUME NEW s \in SUBSET S PROVE IsFiniteSet(s) /\ Cardinality(s) \in Nat
  BY FS_Subset, FS_CardinalityType, Zenon
<1>2. 0 \in T
  BY <1>1, FS_EmptySet, Zenon
<1>3. ASSUME NEW n \in Nat, n \in T PROVE n + 1 \in T
  <2> SUFFICES ASSUME NEW s \in SUBSET S, Cardinality(s) = n + 1, s # {}
               PROVE  \E x \in s : \A y \in s : f[y] <= f[x]
    OBVIOUS
  <2>1. PICK z \in s : TRUE
    BY Zenon
  <2>2. s \ {z} \in SUBSET S /\ Cardinality(s \ {z}) = n
    <3>1. Cardinality(s \ {z}) = Cardinality(s) - 1
      BY <1>1, FS_RemoveElement, Zenon
    <3>2. (n + 1) - 1 = n
      OBVIOUS
    <3> QED
      BY <3>1, <3>2, Zenon
  <2>3. Top(s \ {z})
    <3> HIDE DEF Top
    <3> QED
      BY <1>3, <2>2, Zenon
  <2>4. CASE s \ {z} = {}
    <3>1. s = {z}
      BY <2>4, Zenon
    <3> QED
      BY <3>1
  <2>5. CASE s \ {z} # {}
    <3>1. PICK x \in s \ {z} : \A y \in s \ {z} : f[y] <= f[x]
      BY <2>3, <2>5, Zenon
    <3>2. CASE f[z] <= f[x]
      BY <3>1, <3>2, Zenon
    <3>3. CASE ~(f[z] <= f[x])
      <4>1. \A y \in s \ {z} : f[y] <= f[z]
        BY <3>1, <3>3
      <4> QED
        BY <4>1
    <3> QED
      BY <3>2, <3>3, Zenon
  <2> QED
    BY <2>4, <2>5, Zenon
<1>4. S \in SUBSET S /\ Cardinality(S) \in Nat
  BY FS_CardinalityType, Zenon
<1>5. Cardinality(S) \in T
  <2> HIDE DEF T
  <2>1. \A n \in Nat : n \in T
    BY <1>2, <1>3, NatSetInduction, Zenon
  <2> QED
    BY <1>4, <2>1, Zenon
<1> QED
  BY <1>4, <1>5, Zenon

-----------------------------------------------------------------------------
\* What a lookup returns: addresses of one name, with time left.
RemainingLaw ==
    \A d \in Names : \A a \in GetAddresses(d, now) :
        /\ a \in Addrs /\ AddressHop(d, now) \in Names
        /\ addrs[AddressHop(d, now)][a] > now
        /\ Remaining(d, a) \in Nat \ {0}

\* It holds in every well typed state of the cache.
LEMMA RemainingTime == CacheInv => RemainingLaw
<1> SUFFICES ASSUME CacheInv, NEW d \in Names, NEW a \in GetAddresses(d, now)
             PROVE  /\ a \in Addrs /\ AddressHop(d, now) \in Names
                    /\ addrs[AddressHop(d, now)][a] > now
                    /\ Remaining(d, a) \in Nat \ {0}
  BY Zenon DEF RemainingLaw
<1>1. TypeOK
  BY Zenon DEF CacheInv
<1>2. AddressHop(d, now) # NoName /\ a \in Valid(AddressHop(d, now), now)
  BY Zenon DEF GetAddresses
<1>3. GoodHops(d, now) # {} /\ GoodHops(d, now) \in SUBSET Nat
  BY <1>1, <1>2, LookupNearest, CacheAssumption DEF GoodHops
<1>4. PICK k \in GoodHops(d, now) : \A j \in GoodHops(d, now) : k <= j
  BY <1>3, LeastNat, Zenon
<1>5. AddressHop(d, now) = HopsAt(d, now)[k] /\ k \in Nat
  BY <1>1, <1>3, <1>4, LookupNearest, Zenon
<1>6. AddressHop(d, now) \in Names
  <2>1. HopsAt(d, now) \in [Nat -> Names \cup {NoName}]
    BY <1>1, HopsDefined, Zenon
  <2> QED
    BY <1>2, <1>5, <2>1, Zenon
<1>7. a \in Addrs /\ addrs[AddressHop(d, now)][a] > now
  BY <1>2, Zenon DEF Valid
<1>8. now \in Nat /\ addrs[AddressHop(d, now)][a] \in Int
  BY <1>1, <1>6, <1>7, CacheAssumption DEF TypeOK, Deadlines, Absent
<1> QED
  BY <1>6, <1>7, <1>8 DEF Remaining

\* The time sync gives an address: the longest of the names that lead to it.
LEMMA LongestTime ==
    ASSUME CacheInv, NEW R, NEW a \in Found(R)
    PROVE  LongestTtl(R, a) \in Nat \ {0}
<1> DEFINE S == Sources(R, a)
           f == [d \in S |-> Remaining(d, a)]
           ttls == {Remaining(d, a) : d \in S}
<1>1. S # {} /\ S \subseteq Names
  BY Zenon DEF Found, Sources, CacheInv, TypeOK
<1>2. ASSUME NEW d \in S PROVE Remaining(d, a) \in Nat \ {0}
  <2>1. d \in Names /\ a \in GetAddresses(d, now)
    BY <1>1, Zenon DEF Sources
  <2> QED
    BY <2>1, RemainingTime, Zenon DEF RemainingLaw
<1>3. IsFiniteSet(S)
  BY <1>1, NodesFinite, Zenon
<1>4. f \in [S -> Nat]
  BY <1>2, Zenon
<1> HIDE DEF S
<1>5. \E x \in S : \A y \in S : f[y] <= f[x]
  <2> HIDE DEF f
  <2> QED
    BY <1>1, <1>3, <1>4, GreatestValue, Zenon
<1>6. \E t \in ttls : \A u \in ttls : u <= t
  BY <1>5, Zenon
<1>7. LongestTtl(R, a) \in ttls
  BY <1>6, Zenon DEF LongestTtl, S
<1> QED
  BY <1>2, <1>7, Zenon

\* The items of sync_build_new_lists for one key.
StaticItem(k) == [key |-> k, cidr |-> ListedCidr(k), ttl |-> Permanent]
FoundItem(R, k) == [key |-> k, cidr |-> FoundCidr, ttl |-> LongestTtl(R, k)]
Items(R, k) == {it \in NewList(R) : it.key = k}

\* sync_build_new_lists makes at most a static and a cached item of a key.
LEMMA ItemsOfKey ==
    ASSUME NEW R, NEW k \in Keys
    PROVE  /\ \A it \in Items(R, k) : \/ it = StaticItem(k) /\ k \in R
                                      \/ it = FoundItem(R, k) /\ k \in Found(R)
           /\ k \in R => StaticItem(k) \in Items(R, k)
           /\ k \in Found(R) => FoundItem(R, k) \in Items(R, k)
           /\ Items(R, k) # {} <=> k \in Wanted(R)
<1>1. ASSUME NEW it \in Items(R, k)
      PROVE  (it = StaticItem(k) /\ k \in R) \/ (it = FoundItem(R, k) /\ k \in Found(R))
  <2>1. it \in NewList(R) /\ it.key = k
    BY Zenon DEF Items
  <2>2. CASE \E j \in R \cap Keys : it = StaticItem(j)
    <3>1. PICK j \in R \cap Keys : it = StaticItem(j)
      BY <2>2, Zenon
    <3>2. j = k
      BY <2>1, <3>1, Zenon DEF StaticItem
    <3> QED
      BY <3>1, <3>2, Zenon
  <2>3. CASE \E j \in Found(R) : it = FoundItem(R, j)
    <3>1. PICK j \in Found(R) : it = FoundItem(R, j)
      BY <2>3, Zenon
    <3>2. j = k
      BY <2>1, <3>1, Zenon DEF FoundItem
    <3> QED
      BY <3>1, <3>2, Zenon
  <2> QED
    BY <2>1, <2>2, <2>3, Zenon DEF NewList, StaticItem, FoundItem
<1>2. ASSUME k \in R PROVE StaticItem(k) \in Items(R, k)
  <2>1. StaticItem(k) \in NewList(R)
    BY <1>2, Zenon DEF NewList, StaticItem
  <2> QED
    BY <2>1, Zenon DEF Items, StaticItem
<1>3. ASSUME k \in Found(R) PROVE FoundItem(R, k) \in Items(R, k)
  <2>1. FoundItem(R, k) \in NewList(R)
    BY <1>3, Zenon DEF NewList, FoundItem
  <2> QED
    BY <2>1, Zenon DEF Items, FoundItem
<1> QED
  BY <1>1, <1>2, <1>3, Zenon DEF Wanted

\* sync_diff_v4 on one key: what is wanted and what was listed decide.
LEMMA SyncedKey ==
    ASSUME CacheInv, NEW R, NEW old \in [Keys -> Deadlines], NEW later, NEW k \in Keys
    PROVE  LET new == Synced(old, R, later)[k]
           IN  /\ new \in Deadlines
               /\ new # Absent => k \in Wanted(R)
               /\ k \in R => new # Absent
               /\ k \in R \cap Nets => new = Permanent
               /\ old[k] = Absent /\ k \in Wanted(R) =>
                     new = Permanent \/ (k \in Found(R) /\ new = LongestTtl(R, k))
<1> DEFINE listed(it) == old[it.key] # Absent /\ it.cidr = ListedCidr(it.key)
           skip(it) == /\ listed(it)
                       /\ old[it.key] = Permanent \/ (it.ttl # Permanent /\ it.ttl < old[it.key])
           added == {it.ttl : it \in {i \in NewList(R) : i.key = k /\ ~skip(i)}}
           kept == \E it \in NewList(R) : it.key = k /\ listed(it)
           pick == CHOOSE t \in added : added = {t} \/ (t = Permanent) = (k \in later)
           new == Synced(old, R, later)[k]
           L == LongestTtl(R, k)
<1>1. new = IF old[k] # Absent /\ ~kept THEN Absent ELSE IF added = {} THEN old[k] ELSE pick
  BY Zenon DEF Synced
<1>2. /\ StaticItem(k).key = k /\ StaticItem(k).cidr = ListedCidr(k) /\ StaticItem(k).ttl = Permanent
      /\ FoundItem(R, k).key = k /\ FoundItem(R, k).cidr = FoundCidr /\ FoundItem(R, k).ttl = L
  BY Zenon DEF StaticItem, FoundItem
<1>3. FoundCidr # ListedCidr(k)
  BY DEF FoundCidr, ListedCidr
<1>4. k \in Found(R) => k \in Addrs /\ L \in Nat /\ L # Permanent
  BY LongestTime, Zenon DEF Found, Permanent
<1>5. kept <=> k \in R /\ old[k] # Absent
  <2>1. kept => \E it \in Items(R, k) : listed(it)
    BY Zenon DEF Items
  <2>2. ASSUME NEW it \in Items(R, k), listed(it) PROVE k \in R /\ old[k] # Absent
    <3>1. it.key = k
      BY Zenon DEF Items
    <3>2. it # FoundItem(R, k)
      BY <1>2, <1>3, <2>2, <3>1, Zenon
    <3> QED
      BY <2>2, <3>1, <3>2, ItemsOfKey, Zenon
  <2>3. ASSUME k \in R, old[k] # Absent PROVE kept
    <3>1. StaticItem(k) \in NewList(R)
      BY <2>3, ItemsOfKey, Zenon DEF Items
    <3> QED
      BY <1>2, <2>3, <3>1, Zenon
  <2> QED
    BY <2>1, <2>2, <2>3, Zenon
<1>6. added = {it.ttl : it \in {i \in Items(R, k) : ~skip(i)}}
  BY Zenon DEF Items
<1>7. \A t \in added : (t = Permanent /\ k \in R) \/ (t = L /\ k \in Found(R))
  BY <1>2, <1>6, ItemsOfKey, Zenon
<1>8. k \in Found(R) => L \in added
  <2> SUFFICES ASSUME k \in Found(R) PROVE L \in added
    BY Zenon
  <2>1. FoundItem(R, k) \in Items(R, k) /\ ~skip(FoundItem(R, k))
    BY <1>2, <1>3, ItemsOfKey, Zenon
  <2> QED
    BY <1>2, <1>6, <2>1, Zenon
<1>9. k \in R /\ old[k] # Permanent => Permanent \in added
  <2> SUFFICES ASSUME k \in R, old[k] # Permanent PROVE Permanent \in added
    BY Zenon
  <2>1. StaticItem(k) \in Items(R, k) /\ ~skip(StaticItem(k))
    BY <1>2, ItemsOfKey, Zenon
  <2> QED
    BY <1>2, <1>6, <2>1, Zenon
<1> HIDE DEF added, kept, L
<1>10. added # {} => pick \in added
  <2> SUFFICES ASSUME added # {}
               PROVE  \E t \in added : added = {t} \/ (t = Permanent) = (k \in later)
    BY Zenon
  <2>1. CASE Permanent \in added /\ L \in added /\ k \in Found(R)
    BY <1>4, <2>1
  <2>2. CASE ~(Permanent \in added /\ L \in added /\ k \in Found(R))
    <3>1. PICK t \in added : TRUE
      BY Zenon
    <3>2. added = {t}
      BY <1>7, <2>2, Zenon
    <3> QED
      BY <3>2, Zenon
  <2> QED
    BY <2>1, <2>2, Zenon
<1> HIDE DEF pick, new
<1>11. Permanent \in Deadlines /\ Absent \in Deadlines /\ old[k] \in Deadlines /\ Permanent # Absent
       /\ (k \in Found(R) => L \in Deadlines /\ L # Absent)
  BY <1>4 DEF Permanent, Absent, Deadlines
<1>12. new \in Deadlines
  BY <1>1, <1>7, <1>10, <1>11, Zenon
<1>13. new # Absent => k \in Wanted(R)
  BY <1>1, <1>5, <1>7, <1>10, Zenon DEF Wanted
<1>14. k \in R => new # Absent
  BY <1>1, <1>5, <1>7, <1>9, <1>10, <1>11, Zenon
<1>15. k \in R \cap Nets => new = Permanent
  <2> SUFFICES ASSUME k \in R \cap Nets PROVE new = Permanent
    BY Zenon
  <2>1. k \notin Found(R)
    BY RoutingAssumption, Zenon DEF Found
  <2> QED
    BY <1>1, <1>5, <1>7, <1>9, <1>10, <1>11, <2>1, Zenon
<1>16. old[k] = Absent /\ k \in Wanted(R) => new = Permanent \/ (k \in Found(R) /\ new = L)
  BY <1>1, <1>5, <1>7, <1>8, <1>9, <1>10, <1>11, Zenon DEF Wanted
<1> QED
  BY <1>12, <1>13, <1>14, <1>15, <1>16, Zenon DEF L, new

-----------------------------------------------------------------------------
\* The typed part of the invariant.

RouteTypes ==
    /\ rules \in [Groups -> RuleSets] /\ enabled \in [Groups -> BOOLEAN]
    /\ kset \in [Groups -> [Keys -> Deadlines]]
    /\ edits \in 0 .. MaxEdits

RoutingInv == CacheInv /\ RouteTypes

\* rr->ttl + additional_ttl, cut to 32 bits.
LEMMA TotalTtlNat ==
    ASSUME NEW ttl \in Ttls
    PROVE  TotalTtl(ttl) \in Nat
BY CacheAssumption, RoutingAssumption DEF TotalTtl

\* mt_ruleset_add_ipv4 for each group and address.
LEMMA RouteTyped ==
    ASSUME RouteTypes, NEW names, NEW ttls, Route(names, ttls),
           \A k \in Keys \cap DOMAIN ttls : ttls[k] \in Deadlines
    PROVE  kset' \in [Groups -> [Keys -> Deadlines]]
BY Zenon DEF RouteTypes, Route

\* Edits do not touch the cache.
LEMMA EditTyped ==
    ASSUME RoutingInv, Edit
    PROVE  CacheInv' /\ edits' \in 0 .. MaxEdits /\ edits' # 0
<1>1. CacheInv'
  BY Zenon DEF RoutingInv, Edit, vars, cacheVars, CacheInv, TypeOK, ReverseIndexExact, CapacityExact
<1>2. edits' \in 0 .. MaxEdits /\ edits' # 0
  BY RoutingAssumption DEF RoutingInv, RouteTypes, Edit
<1> QED
  BY <1>1, <1>2, Zenon

\* sync_diff_v4 gives a set of entries again.
LEMMA SyncedTyped ==
    ASSUME CacheInv, NEW R, NEW old \in [Keys -> Deadlines], NEW later
    PROVE  Synced(old, R, later) \in [Keys -> Deadlines]
<1> DEFINE S == Synced(old, R, later)
<1>1. \A k \in Keys : S[k] \in Deadlines
  BY SyncedKey, Zenon
<1>2. DOMAIN S = Keys /\ S = [k \in DOMAIN S |-> S[k]]
  BY DEF Synced
<1> HIDE DEF S
<1>3. S \in [Keys -> Deadlines]
  BY <1>1, <1>2, Zenon
<1> QED
  BY <1>3, Zenon DEF S

\* An edit that sets the rules of g and syncs its set from old.
LEMMA SyncTyped ==
    ASSUME RoutingInv, Edit, NEW g \in Groups, NEW R \in RuleSets,
           NEW old \in [Keys -> Deadlines], NEW later,
           rules' = [rules EXCEPT ![g] = R], enabled' = enabled,
           kset' = IF enabled[g] THEN [kset EXCEPT ![g] = Synced(old, R, later)] ELSE kset
    PROVE  RoutingInv'
<1>1. Synced(old, R, later) \in [Keys -> Deadlines]
  BY SyncedTyped, Zenon DEF RoutingInv
<1>2. kset' \in [Groups -> [Keys -> Deadlines]]
  BY <1>1, Zenon DEF RoutingInv, RouteTypes
<1>3. rules' \in [Groups -> RuleSets]
  BY Zenon DEF RoutingInv, RouteTypes
<1> QED
  BY <1>2, <1>3, EditTyped, Zenon DEF RoutingInv, RouteTypes

\* The set of a group that is made anew starts empty.
LEMMA EmptySetTyped == EmptySet \in [Keys -> Deadlines] /\ \A k \in Keys : EmptySet[k] = Absent
BY Zenon DEF EmptySet, Deadlines, Absent

\* The startup state.
LEMMA RoutingInit == RInit => RoutingInv
<1> SUFFICES ASSUME RInit PROVE RoutingInv
  BY Zenon
<1>1. CacheInv
  BY InitInv, Zenon DEF RInit
<1>2. \A R : StaticEntries(R) \in [Keys -> Deadlines]
  BY Zenon DEF StaticEntries, Deadlines, Absent, Permanent
<1>3. kset \in [Groups -> [Keys -> Deadlines]]
  BY <1>2, Zenon DEF RInit
<1> QED
  BY <1>1, <1>3, RoutingAssumption DEF RInit, RoutingInv, RouteTypes

\* handle_address_record.
LEMMA HandleAddressTyped ==
    ASSUME RoutingInv, NEW r \in ARecords, NEW ttl \in Ttls, HandleAddress(r[1], r[2], ttl)
    PROVE  RoutingInv'
<1>1. r[1] \in Names /\ r[2] \in Addrs
  BY RoutingAssumption, Zenon
<1>2. CacheInv'
  BY <1>1, TotalTtlNat, AddAddressInv, Zenon DEF RoutingInv, HandleAddress
<1>3. kset' \in [Groups -> [Keys -> Deadlines]]
  BY TotalTtlNat, RouteTyped DEF RoutingInv, HandleAddress, Deadlines
<1> QED
  BY <1>2, <1>3, Zenon DEF RoutingInv, RouteTypes, HandleAddress

\* handle_cname_record.
LEMMA HandleCnameTyped ==
    ASSUME RoutingInv, NEW r \in CnameRecords, NEW ttl \in Ttls, HandleCname(r[1], r[2], ttl)
    PROVE  RoutingInv' /\ RemainingLaw'
<1>1. r[1] \in Names /\ r[2] \in Names
  BY RoutingAssumption, Zenon
<1>2. CacheInv'
  BY <1>1, TotalTtlNat, AddAliasInv, Zenon DEF RoutingInv, HandleCname
<1>3. RemainingLaw'
  <2>1. (CacheInv => RemainingLaw)'
    BY RemainingTime, PTL
  <2> QED
    BY <1>2, <2>1, Zenon
<1>4. kset' \in [Groups -> [Keys -> Deadlines]]
  <2>1. \A a \in GetAddresses(r[1], now)' : Remaining(r[1], a)' \in Deadlines
    BY <1>1, <1>3, Zenon DEF RemainingLaw, Deadlines
  <2> QED
    BY <2>1, RouteTyped DEF RoutingInv, HandleCname
<1> QED
  BY <1>2, <1>3, <1>4, Zenon DEF RoutingInv, RouteTypes, HandleCname

\* Every step keeps the invariant.
LEMMA RoutingStep == RoutingInv /\ [RNext]_rvars => RoutingInv'
<1> SUFFICES ASSUME RoutingInv, [RNext]_rvars PROVE RoutingInv'
  BY Zenon
<1>1. ASSUME NEW r \in ARecords, NEW ttl \in Ttls, HandleAddress(r[1], r[2], ttl)
      PROVE  RoutingInv'
  BY <1>1, HandleAddressTyped, Zenon
<1>2. ASSUME NEW r \in CnameRecords, NEW ttl \in Ttls, HandleCname(r[1], r[2], ttl)
      PROVE  RoutingInv'
  BY <1>2, HandleCnameTyped, Zenon
<1>3. ASSUME NEW g \in Groups, NEW R \in RuleSets, PutRules(g, R) PROVE RoutingInv'
  <2>1. PICK later \in SUBSET Addrs :
           kset' = IF enabled[g] THEN [kset EXCEPT ![g] = Synced(kset[g], R, later)] ELSE kset
    BY <1>3, Zenon DEF PutRules
  <2>2. kset[g] \in [Keys -> Deadlines]
    BY Zenon DEF RoutingInv, RouteTypes
  <2> QED
    BY <1>3, <2>1, <2>2, SyncTyped, Zenon DEF PutRules
<1>4. ASSUME NEW g \in Groups, NEW R \in RuleSets, PutGroup(g, R) PROVE RoutingInv'
  <2>1. PICK later \in SUBSET Addrs :
           kset' = IF enabled[g] THEN [kset EXCEPT ![g] = Synced(EmptySet, R, later)] ELSE kset
    BY <1>4, Zenon DEF PutGroup
  <2> QED
    BY <1>4, <2>1, SyncTyped, EmptySetTyped, Zenon DEF PutGroup
<1>5. ASSUME NEW g \in Groups, PutGroupInvalid(g) PROVE RoutingInv'
  BY <1>5, EditTyped, EmptySetTyped, Zenon DEF PutGroupInvalid, RoutingInv, RouteTypes
<1>6. CASE CleanupTimer
  BY <1>6, CleanupInv, Zenon DEF CleanupTimer, routeVars, RoutingInv, RouteTypes
<1>7. CASE Second
  <2>1. SetClock
    BY <1>7, CacheAssumption DEF Second, SetClock, RoutingInv, CacheInv, TypeOK
  <2>2. CacheInv'
    BY <2>1, NextInv, Zenon DEF Next, RoutingInv
  <2>3. kset' \in [Groups -> [Keys -> Deadlines]]
    BY <1>7 DEF Second, RoutingInv, RouteTypes, Deadlines, Absent
  <2> QED
    BY <1>7, <2>2, <2>3, Zenon DEF Second, RoutingInv, RouteTypes
<1>8. CASE UNCHANGED rvars
  BY <1>8, Zenon DEF rvars, vars, cacheVars, routeVars, RoutingInv, RouteTypes, CacheInv, TypeOK,
              ReverseIndexExact, CapacityExact
<1> QED
  BY <1>1, <1>2, <1>3, <1>4, <1>5, <1>6, <1>7, <1>8, Zenon DEF RNext

\* The cache behind the pipeline keeps its invariant, and all state is typed.
THEOREM RoutingInvariant == RSpec => []RoutingInv
  BY RoutingInit, RoutingStep, PTL DEF RSpec

\* The routing state is always well typed; a set never holds a nonsense timeout.
THEOREM RoutingTypeCorrect == RSpec => []RTypeOK
<1>1. RoutingInv => RTypeOK
  BY Zenon DEF RoutingInv, RouteTypes, CacheInv, RTypeOK
<1> QED
  BY <1>1, RoutingInvariant, PTL

\* sync_diff_v4 after an edit: nothing the rules do not want stays in the set,
\* no listed address or subnet is missing, and a subnet rule is permanent.
THEOREM SyncIsSound == RSpec => SyncSound
<1>1. ASSUME RoutingInv, NEW g \in Groups, NEW R \in RuleSets, PutRules(g, R), enabled[g]
      PROVE  /\ Present(g)' \subseteq Wanted(R)
             /\ R \cap Keys \subseteq Present(g)'
             /\ \A k \in R \cap Nets : kset'[g][k] = Permanent
  <2>1. PICK later \in SUBSET Addrs : kset' = [kset EXCEPT ![g] = Synced(kset[g], R, later)]
    BY <1>1, Zenon DEF PutRules
  <2>2. kset[g] \in [Keys -> Deadlines] /\ kset'[g] = Synced(kset[g], R, later)
    BY <1>1, <2>1, Zenon DEF RoutingInv, RouteTypes
  <2>3. ASSUME NEW k \in Keys
        PROVE  /\ kset'[g][k] # Absent => k \in Wanted(R)
               /\ k \in R => kset'[g][k] # Absent
               /\ k \in R \cap Nets => kset'[g][k] = Permanent
    BY <1>1, <2>2, SyncedKey DEF RoutingInv
  <2> QED
    BY <2>3, Zenon DEF Present, Keys
<1>2. RoutingInv => [\A g \in Groups, R \in RuleSets : PutRules(g, R) /\ enabled[g] =>
          /\ Present(g)' \subseteq Wanted(R)
          /\ R \cap Keys \subseteq Present(g)'
          /\ \A k \in R \cap Nets : kset'[g][k] = Permanent]_rvars
  BY <1>1, Zenon
<1> QED
  BY <1>2, RoutingInvariant, PTL DEF SyncSound

\* handle_put_group builds the set anew: exactly what the rules want, permanent
\* or for the longest time the cache still holds the address.
THEOREM RebuildIsExact == RSpec => RebuildExact
<1>1. ASSUME RoutingInv, NEW g \in Groups, NEW R \in RuleSets, PutGroup(g, R), enabled[g]
      PROVE  /\ Present(g)' = Wanted(R)
             /\ \A k \in Wanted(R) : kset'[g][k] = Permanent \/ kset'[g][k] = LongestTtl(R, k)
  <2>1. PICK later \in SUBSET Addrs : kset' = [kset EXCEPT ![g] = Synced(EmptySet, R, later)]
    BY <1>1, Zenon DEF PutGroup
  <2>2. kset'[g] = Synced(EmptySet, R, later)
    BY <1>1, <2>1, Zenon DEF RoutingInv, RouteTypes
  <2>3. ASSUME NEW k \in Keys
        PROVE  /\ kset'[g][k] # Absent => k \in Wanted(R)
               /\ k \in Wanted(R) => \/ kset'[g][k] = Permanent
                                     \/ k \in Found(R) /\ kset'[g][k] = LongestTtl(R, k)
    BY <1>1, <2>2, SyncedKey, EmptySetTyped DEF RoutingInv
  <2>4. Wanted(R) \subseteq Keys
    BY Zenon DEF Wanted, Found, Keys
  <2>5. ASSUME NEW k \in Found(R) PROVE LongestTtl(R, k) # Absent
    BY <1>1, LongestTime DEF RoutingInv, Absent
  <2>6. Permanent # Absent
    BY DEF Permanent, Absent
  <2>7. Present(g)' = {k \in Keys : kset'[g][k] # Absent}
    BY Zenon DEF Present
  <2> QED
    BY <2>3, <2>4, <2>5, <2>6, <2>7, Zenon
<1>2. RoutingInv => [\A g \in Groups, R \in RuleSets : PutGroup(g, R) /\ enabled[g] =>
          /\ Present(g)' = Wanted(R)
          /\ \A k \in Wanted(R) : kset'[g][k] = Permanent \/ kset'[g][k] = LongestTtl(R, k)]_rvars
  BY <1>1, Zenon
<1> QED
  BY <1>2, RoutingInvariant, PTL DEF RebuildExact

-----------------------------------------------------------------------------
\* Chains of live aliases.

\* Once the chain of d passes x it goes on as the chain of x.
LEMMA HopsShift ==
    ASSUME TypeOK, NEW d \in Names, NEW x \in Names, NEW j \in Nat, HopsAt(d, now)[j] = x
    PROVE  \A i \in Nat : HopsAt(d, now)[j + i] = HopsAt(x, now)[i]
<1> DEFINE f == HopsAt(d, now)
           h == HopsAt(x, now)
           T == {i \in Nat : f[j + i] = h[i]}
<1>1. /\ h[0] = x
      /\ \A k \in Nat : h[k + 1] = IF h[k] = NoName \/ ~Follows(h[k], now)
                                   THEN NoName ELSE alias[h[k]]
      /\ \A k \in Nat : f[k + 1] = IF f[k] = NoName \/ ~Follows(f[k], now)
                                   THEN NoName ELSE alias[f[k]]
  <2>1. ChainLaw
    BY LookupLaws, Zenon
  <2> QED
    BY <2>1, Zenon DEF ChainLaw
<1>2. f[j] = x
  BY Zenon
<1> HIDE DEF f, h
<1>3. 0 \in T
  <2>1. j + 0 = j
    OBVIOUS
  <2> QED
    BY <1>1, <1>2, <2>1, Zenon
<1>4. ASSUME NEW i \in Nat, i \in T PROVE i + 1 \in T
  <2>1. f[j + i] = h[i]
    BY <1>4, Zenon
  <2>2. j + i \in Nat /\ j + (i + 1) = (j + i) + 1 /\ i + 1 \in Nat
    OBVIOUS
  <2>3. f[(j + i) + 1] = h[i + 1]
    BY <1>1, <2>1, <2>2
  <2> QED
    BY <2>2, <2>3, Zenon
<1> HIDE DEF T
<1>5. \A i \in Nat : i \in T
  BY <1>3, <1>4, NatSetInduction, Zenon
<1> QED
  BY <1>5, Zenon DEF T, f, h

\* The chain of live aliases is part of the chain of all aliases.
LEMMA LiveHop ==
    ASSUME TypeOK, NEW d \in Names, NEW x \in Names, NEW j \in Nat, HopsAt(d, now)[j] = x
    PROVE  AliasHops(d)[j] = x
<1> DEFINE f == HopsAt(d, now)
           h == AliasHops(d)
           T == {i \in Nat : f[i] # NoName => h[i] = f[i]}
<1>1. /\ f[0] = d
      /\ \A k \in Nat : f[k + 1] = IF f[k] = NoName \/ ~Follows(f[k], now)
                                   THEN NoName ELSE alias[f[k]]
  <2>1. ChainLaw
    BY LookupLaws, Zenon
  <2> QED
    BY <2>1, Zenon DEF ChainLaw
<1>2. h[0] = d /\ \A k \in Nat : h[k + 1] = IF h[k] = NoName THEN NoName ELSE alias[h[k]]
  BY AliasHopsDefined, Zenon
<1>3. f[j] = x
  BY Zenon
<1> HIDE DEF f, h
<1>4. 0 \in T
  BY <1>1, <1>2, Zenon
<1>5. ASSUME NEW i \in Nat, i \in T PROVE i + 1 \in T
  <2>1. i + 1 \in Nat
    OBVIOUS
  <2> QED
    BY <1>1, <1>2, <1>5, <2>1, Zenon
<1> HIDE DEF T
<1>6. \A i \in Nat : i \in T
  BY <1>4, <1>5, NatSetInduction, Zenon
<1> QED
  BY <1>3, <1>6, CacheAssumption, Zenon DEF T, f, h

\* A name whose live chain passes x is among the aliases of x that
\* mt_cache_get_aliases finds: the reverse index is exact and the search complete.
LEMMA PassingName ==
    ASSUME CacheInv, faults = 0, NEW d \in Names, NEW x \in Names, NEW j \in Nat,
           HopsAt(d, now)[j] = x
    PROVE  d \in GetAliases(x)
<1>1. TypeOK
  BY Zenon DEF CacheInv
<1>2. AliasHops(d)[j] = x
  BY <1>1, LiveHop, Zenon
<1>3. \E m \in 0 .. Cardinality(Names) - 1 : AliasHops(d)[m] = x
  BY <1>1, <1>2, AliasHopsShort, Zenon
<1>4. AliasesExact
  BY AliasesAreExact, Zenon
<1> QED
  BY <1>3, <1>4, Zenon DEF AliasesExact

\* A chain all of whose links were there before the step was there before it.
LEMMA OlderHops ==
    ASSUME TypeOK, TypeOK', NEW d \in Names, NEW k \in Nat, NEW z \in Names,
           HopsAt(d, now)'[k] = z,
           \A h \in Names, j \in Nat : j < k /\ HopsAt(d, now)'[j] = h /\ Follows(h, now)' =>
               Follows(h, now) /\ alias'[h] = alias[h]
    PROVE  HopsAt(d, now)[k] = z
<1> DEFINE f == HopsAt(d, now)
<1>1. ChainLaw /\ ChainLaw'
  <2>1. (TypeOK => ChainLaw /\ LookupLaw)'
    BY LookupLaws, PTL
  <2> QED
    BY <2>1, LookupLaws, Zenon
<1>2. /\ f \in [Nat -> Names \cup {NoName}] /\ f[0] = d
      /\ \A i \in Nat : f[i + 1] = IF f[i] = NoName \/ ~Follows(f[i], now)
                                     THEN NoName ELSE alias[f[i]]
  BY <1>1, Zenon DEF ChainLaw
<1>3. /\ f' \in [Nat -> Names \cup {NoName}] /\ f'[0] = d
      /\ \A i \in Nat : f'[i + 1] = IF f'[i] = NoName \/ ~Follows(f[i], now)'
                                     THEN NoName ELSE alias'[f'[i]]
  BY <1>1, Zenon DEF ChainLaw
<1>4. \A h \in Names, j \in Nat : j < k /\ f'[j] = h /\ Follows(h, now)' =>
               Follows(h, now) /\ alias'[h] = alias[h]
  BY Zenon
<1>5. f'[k] = z /\ z # NoName
  BY CacheAssumption, Zenon
<1> HIDE DEF f
<1> DEFINE T == {i \in Nat : i <= k /\ f'[i] # NoName => f[i] = f'[i]}
<1>6. 0 \in T
  BY <1>2, <1>3, Zenon
<1>7. ASSUME NEW i \in Nat, i \in T PROVE i + 1 \in T
  <2> SUFFICES ASSUME i + 1 <= k, f'[i + 1] # NoName PROVE f[i + 1] = f'[i + 1]
    OBVIOUS
  <2>1. f'[i] # NoName /\ Follows(f[i], now)' /\ f'[i + 1] = alias'[f'[i]]
    BY <1>3, Zenon
  <2>2. i <= k /\ i < k
    OBVIOUS
  <2>3. f[i] = f'[i]
    BY <1>7, <2>1, <2>2, Zenon
  <2>4. f'[i] \in Names
    BY <1>3, <2>1, Zenon
  <2>5. Follows(f'[i], now) /\ alias'[f'[i]] = alias[f'[i]]
    <3>1. \A h : h = f'[i] => (Follows(h, now)' <=> Follows(f[i], now)')
      BY Zenon DEF Follows
    <3> QED
      BY <1>4, <2>1, <2>2, <2>4, Zenon DEF Follows
  <2> QED
    BY <1>2, <2>1, <2>3, <2>5, Zenon
<1> HIDE DEF T
<1>8. \A i \in Nat : i \in T
  BY <1>6, <1>7, NatSetInduction, Zenon
<1> QED
  BY <1>5, <1>8 DEF T, f

-----------------------------------------------------------------------------
\* What the cache resolves a matched name to is routed.

\* Zones as RFC 1034 wants them (a name with a CNAME has no other data), in
\* which no two names share an address.
ZonesProper ==
    /\ \A r \in ARecords, c \in CnameRecords : r[1] # c[1]
    /\ \A r1, r2 \in ARecords : r1[2] = r2[2] => r1[1] = r2[1]

\* The cache holds only what was published.
FromZones ==
    /\ \A d \in Names, a \in Addrs : addrs[d][a] # Absent => <<d, a>> \in ARecords
    /\ \A d \in Names : alias[d] # NoName => <<d, alias[d]>> \in CnameRecords

\* An address a matched name leads to stays in the set at least as long as in
\* the cache, whichever name of the chain the group matches.
Routed ==
    edits = 0 /\ faults = 0 =>
        \A g \in Groups, d \in Names, k \in 0 .. MaxSeen - 1, h \in Names, a \in Addrs :
            enabled[g] /\ d \in rules[g] /\ HopsAt(d, now)[k] = h /\ addrs[h][a] > now =>
                kset[g][a] = Permanent \/ kset[g][a] >= addrs[h][a] - now

RoutedInv == RoutingInv /\ FromZones /\ Routed

\* A chain ends at a name with addresses, so the lookup reaches it.
LEMMA ChainEnds ==
    ASSUME ZonesProper, CacheInv, FromZones,
           NEW x \in Names, NEW k \in 0 .. MaxSeen - 1, NEW a \in Addrs,
           HopsAt(x, now)[k] # NoName, addrs[HopsAt(x, now)[k]][a] > now
    PROVE  a \in GetAddresses(x, now)
<1> DEFINE h == HopsAt(x, now)
<1>1. TypeOK /\ now \in Nat /\ k \in Nat
  BY CacheAssumption DEF CacheInv, TypeOK
<1>2. h \in [Nat -> Names \cup {NoName}]
  BY <1>1, HopsDefined, Zenon
<1>3. \A i \in Nat : h[i + 1] = IF h[i] = NoName \/ ~Follows(h[i], now) THEN NoName ELSE alias[h[i]]
  <2>1. ChainLaw
    BY <1>1, LookupLaws, Zenon
  <2> QED
    BY <2>1, Zenon DEF ChainLaw
<1>4. GoodHops(x, now) = {i \in 0 .. MaxSeen - 1 : h[i] # NoName /\ Valid(h[i], now) # {}}
  BY Zenon DEF GoodHops
<1>5. h[k] # NoName /\ a \in Valid(h[k], now)
  BY Zenon DEF Valid
<1> HIDE DEF h
<1>6. GoodHops(x, now) \in SUBSET Nat /\ k \in GoodHops(x, now)
  BY <1>4, <1>5, CacheAssumption
<1>7. PICK m \in GoodHops(x, now) : \A j \in GoodHops(x, now) : m <= j
  BY <1>6, LeastNat, Zenon
<1>8. m \in Nat /\ m <= k /\ h[m] \in Names
  BY <1>2, <1>4, <1>6, <1>7, Zenon
<1>9. alias[h[m]] = NoName
  <2>1. PICK b \in Addrs : addrs[h[m]][b] > now
    BY <1>4, <1>7, Zenon DEF Valid
  <2>2. addrs[h[m]][b] # Absent
    BY <1>1, <2>1 DEF Absent
  <2>3. <<h[m], b>> \in ARecords
    BY <1>8, <2>2, Zenon DEF FromZones
  <2>4. alias[h[m]] # NoName => <<h[m], alias[h[m]]>> \in CnameRecords
    BY <1>8, Zenon DEF FromZones
  <2> QED
    BY <2>3, <2>4, Zenon DEF ZonesProper
<1>10. \A i \in Nat : h[(m + 1) + i] = NoName
  <2> DEFINE T == {i \in Nat : h[(m + 1) + i] = NoName}
  <2>1. 0 \in T
    <3>1. h[m + 1] = NoName
      BY <1>3, <1>8, <1>9, Zenon DEF Follows
    <3>2. (m + 1) + 0 = m + 1
      BY <1>8
    <3> QED
      BY <3>1, <3>2, Zenon
  <2>2. ASSUME NEW i \in Nat, i \in T PROVE i + 1 \in T
    <3>1. (m + 1) + i \in Nat /\ (m + 1) + (i + 1) = ((m + 1) + i) + 1 /\ i + 1 \in Nat
      BY <1>8
    <3>2. h[((m + 1) + i) + 1] = NoName
      BY <1>3, <2>2, <3>1, Zenon
    <3> QED
      BY <3>1, <3>2, Zenon
  <2> HIDE DEF T
  <2>3. \A i \in Nat : i \in T
    BY <2>1, <2>2, NatSetInduction, Zenon
  <2> QED
    BY <2>3, Zenon DEF T
<1>11. m = k
  <2>1. SUFFICES ASSUME m # k PROVE FALSE
    BY Zenon
  <2>2. k - (m + 1) \in Nat /\ (m + 1) + (k - (m + 1)) = k
    BY <1>1, <1>8, <2>1
  <2>3. h[(m + 1) + (k - (m + 1))] = NoName
    BY <1>10, <2>2, Zenon
  <2> QED
    BY <1>5, <2>2, <2>3, Zenon
<1>12. GetAddresses(x, now) = Valid(h[m], now)
  BY <1>1, <1>7, LookupNearest, Zenon DEF h
<1> QED
  BY <1>5, <1>11, <1>12, Zenon

\* An address is cached under one name only, so a lookup that returns it
\* returns the time that name has left.
SourceLaw ==
    \A x \in Names : \A a \in GetAddresses(x, now) : \A h \in Names :
        addrs[h][a] > now => Remaining(x, a) = addrs[h][a] - now

\* It holds where no two names share an address.
LEMMA SourceHolds == ZonesProper /\ CacheInv /\ FromZones => SourceLaw
<1> SUFFICES ASSUME ZonesProper, CacheInv, FromZones,
                    NEW x \in Names, NEW a \in GetAddresses(x, now), NEW h \in Names,
                    addrs[h][a] > now
             PROVE  Remaining(x, a) = addrs[h][a] - now
  BY Zenon DEF SourceLaw
<1> DEFINE hop == AddressHop(x, now)
<1>1. a \in Addrs /\ hop \in Names /\ addrs[hop][a] > now
  BY RemainingTime, Zenon DEF RemainingLaw
<1> HIDE DEF hop
<1>2. addrs[hop][a] # Absent /\ addrs[h][a] # Absent
  BY <1>1, CacheAssumption DEF CacheInv, TypeOK, Absent
<1>3. <<hop, a>> \in ARecords /\ <<h, a>> \in ARecords
  BY <1>1, <1>2, Zenon DEF FromZones
<1>4. hop = h
  BY <1>3, Zenon DEF ZonesProper
<1> QED
  BY <1>4, Zenon DEF Remaining, hop

\* When the chain of d passes x on its way to an address, x resolves to that
\* address and d is among the aliases of x.
ThroughLaw ==
    faults = 0 =>
        \A d, x, h \in Names, a \in Addrs, k \in 0 .. MaxSeen - 1 : \A j \in 0 .. k :
            HopsAt(d, now)[j] = x /\ HopsAt(d, now)[k] = h /\ addrs[h][a] > now =>
                d \in GetAliases(x) /\ a \in GetAddresses(x, now)

\* It holds in the zones at hand.
LEMMA ThroughHolds == ZonesProper /\ CacheInv /\ FromZones => ThroughLaw
<1> SUFFICES ASSUME ZonesProper, CacheInv, FromZones, faults = 0,
                    NEW d \in Names, NEW x \in Names, NEW h \in Names, NEW a \in Addrs,
                    NEW k \in 0 .. MaxSeen - 1, NEW j \in 0 .. k,
                    HopsAt(d, now)[j] = x, HopsAt(d, now)[k] = h, addrs[h][a] > now
             PROVE  d \in GetAliases(x) /\ a \in GetAddresses(x, now)
  BY Zenon DEF ThroughLaw
<1>1. j \in Nat /\ k - j \in 0 .. MaxSeen - 1 /\ k - j \in Nat /\ j + (k - j) = k
  BY CacheAssumption
<1>2. TypeOK
  BY Zenon DEF CacheInv
<1>3. HopsAt(d, now)[j + (k - j)] = HopsAt(x, now)[k - j]
  BY <1>1, <1>2, HopsShift
<1>4. HopsAt(x, now)[k - j] = h /\ h # NoName
  BY <1>1, <1>3, CacheAssumption, Zenon
<1>5. a \in GetAddresses(x, now)
  BY <1>1, <1>4, ChainEnds, Zenon
<1> QED
  BY <1>1, <1>5, PassingName, Zenon

\* The cache holds only published records after every step too.
LEMMA FromZonesStep ==
    ASSUME RoutedInv, RNext PROVE FromZones'
<1>1. ASSUME NEW r \in ARecords, NEW ttl \in Ttls, HandleAddress(r[1], r[2], ttl) PROVE FromZones'
  <2>1. r[1] \in Names /\ r[2] \in Addrs /\ r = <<r[1], r[2]>>
    BY RoutingAssumption
  <2>2. alias' = alias /\ (\/ addrs' = addrs
                           \/ \E v : addrs' = [addrs EXCEPT ![r[1]][r[2]] = v])
    BY <1>1, Zenon DEF HandleAddress, AddAddress, Drop
  <2>3. addrs \in [Names -> [Addrs -> Deadlines]]
    BY Zenon DEF RoutedInv, RoutingInv, CacheInv, TypeOK
  <2>4. \A d \in Names, a \in Addrs : addrs'[d][a] # addrs[d][a] => d = r[1] /\ a = r[2]
    BY <2>1, <2>2, <2>3
  <2> QED
    BY <2>1, <2>2, <2>4 DEF FromZones, RoutedInv
<1>2. ASSUME NEW r \in CnameRecords, NEW ttl \in Ttls, HandleCname(r[1], r[2], ttl) PROVE FromZones'
  <2>1. r[1] \in Names /\ r[2] \in Names /\ r = <<r[1], r[2]>>
    BY RoutingAssumption
  <2>2. addrs' = addrs /\ (\/ alias' = alias
                           \/ alias' = [alias EXCEPT ![r[1]] = r[2]]
                           \/ alias' = [alias EXCEPT ![r[1]] = NoName])
    BY <1>2, Zenon DEF HandleCname, AddAlias, Drop, SetAlias, LoseAlias, vars, cacheVars
  <2>3. alias \in [Names -> Names \cup {NoName}]
    BY Zenon DEF RoutedInv, RoutingInv, CacheInv, TypeOK
  <2>4. \A d \in Names : alias'[d] # NoName =>
            alias'[d] = alias[d] \/ (d = r[1] /\ alias'[d] = r[2])
    BY <2>1, <2>2, <2>3, Zenon
  <2> QED
    BY <2>1, <2>2, <2>4, Zenon DEF FromZones, RoutedInv
<1>3. CASE CleanupTimer
  BY <1>3, Zenon DEF CleanupTimer, Cleanup, LeftAddrs, LeftAlias, FromZones, RoutedInv
<1>4. CASE Second
  BY <1>4, Zenon DEF Second, cacheVars, FromZones, RoutedInv
<1>5. CASE Edit
  BY <1>5, Zenon DEF Edit, vars, cacheVars, FromZones, RoutedInv
<1> QED
  BY <1>1, <1>2, <1>3, <1>4, <1>5, Zenon DEF RNext, PutRules, PutGroup, PutGroupInvalid

\* What handle_address_record does when no allocation fails.
LEMMA HandleAddressEffect ==
    ASSUME TypeOK, NEW d \in Names, NEW a \in Addrs, NEW ttl, HandleAddress(d, a, ttl), faults' = 0
    PROVE  /\ faults = 0 /\ edits' = edits /\ rules' = rules /\ enabled' = enabled
           /\ alias' = alias /\ alias_deadline' = alias_deadline /\ now' = now
           /\ \/ addrs' = addrs /\ d \notin nodes
              \/ addrs' = [addrs EXCEPT ![d][a] = now + TotalTtl(ttl)]
<1>1. /\ edits' = edits /\ rules' = rules /\ enabled' = enabled
  BY Zenon DEF HandleAddress
<1>2. ~NoMemory /\ (faults' = faults => faults = 0)
  BY CacheAssumption DEF NoMemory, TypeOK
<1>3. AddAddress(d, a, TotalTtl(ttl))
  BY Zenon DEF HandleAddress
<1>4. /\ faults' = faults
      /\ alias' = alias /\ alias_deadline' = alias_deadline /\ now' = now
      /\ \/ addrs' = addrs /\ d \notin nodes
         \/ addrs' = [addrs EXCEPT ![d][a] = now + TotalTtl(ttl)]
  BY <1>2, <1>3, Zenon DEF AddAddress, Drop, Refused
<1> QED
  BY <1>1, <1>2, <1>4, Zenon

\* handle_address_record adds the address to the groups of every name that
\* leads to its own.
LEMMA HandleAddressRouted ==
    ASSUME ZonesProper, RoutedInv, RoutingInv', FromZones',
           NEW x \in Names, NEW y \in Addrs, <<x, y>> \in ARecords,
           NEW ttl \in Ttls, HandleAddress(x, y, ttl)
    PROVE  Routed'
<1> SUFFICES ASSUME edits' = 0, faults' = 0,
                    NEW g \in Groups, NEW d \in Names, NEW k \in 0 .. MaxSeen - 1,
                    NEW h \in Names, NEW a \in Addrs, enabled'[g], d \in rules'[g],
                    HopsAt(d, now)'[k] = h, addrs'[h][a] > now'
             PROVE  kset'[g][a] = Permanent \/ kset'[g][a] >= addrs'[h][a] - now'
  BY Zenon DEF Routed
<1>1. k \in Nat
  BY CacheAssumption, SMTT(30)
<1>2. /\ TypeOK /\ TypeOK' /\ CacheInv /\ CapacityExact
      /\ now \in Nat /\ addrs \in [Names -> [Addrs -> Deadlines]]
  BY CacheAssumption DEF RoutedInv, RoutingInv, CacheInv, TypeOK
<1>3. /\ faults = 0 /\ edits' = edits /\ rules' = rules /\ enabled' = enabled
      /\ alias' = alias /\ alias_deadline' = alias_deadline /\ now' = now
      /\ \/ addrs' = addrs /\ x \notin nodes
         \/ addrs' = [addrs EXCEPT ![x][y] = now + TotalTtl(ttl)]
  BY <1>2, HandleAddressEffect
<1>4. HopsAt(d, now)[k] = h
  <2>1. \A z \in Names, j \in Nat : j < k /\ HopsAt(d, now)'[j] = z /\ Follows(z, now)' =>
               Follows(z, now) /\ alias'[z] = alias[z]
    BY <1>3, Zenon DEF Follows
  <2> QED
    BY <1>1, <1>2, <2>1, OlderHops, Zenon
<1>5. kset'[g][a] = IF Matches(g, GetAliases(x)) /\ a = y THEN TotalTtl(ttl) ELSE kset[g][a]
  BY <1>3, Zenon DEF HandleAddress, Route, Keys
<1>6. enabled[g] /\ d \in rules[g] /\ edits = 0 /\ addrs'[h][a] > now
  BY <1>3, Zenon
<1>7. addrs[h][a] > now => kset[g][a] = Permanent \/ kset[g][a] >= addrs[h][a] - now
  BY <1>3, <1>4, <1>6, Zenon DEF RoutedInv, Routed
<1>8. CASE a = y
  <2>1. addrs'[h][a] # Absent
    BY <1>2, <1>6 DEF Absent
  <2>2. h = x
    <3>1. <<h, a>> \in ARecords
      BY <2>1, Zenon DEF FromZones
    <3> QED
      BY <1>1, <1>8, <3>1, Zenon DEF ZonesProper
  <2>3. d \in GetAliases(x)
    BY <1>1, <1>2, <1>3, <1>4, <2>2, PassingName, Zenon
  <2>4. kset'[g][a] = TotalTtl(ttl)
    BY <1>5, <1>6, <1>8, <2>3, Zenon DEF Matches
  <2>5. x \in nodes \/ addrs[h][a] = Absent
    BY <1>2, <2>2, Zenon DEF CapacityExact
  <2>6. addrs'[h][a] = now + TotalTtl(ttl)
    BY <1>1, <1>2, <1>3, <1>8, <2>1, <2>2, <2>5
  <2>7. TotalTtl(ttl) \in Nat
    BY TotalTtlNat, Zenon
  <2> QED
    BY <1>2, <1>3, <2>4, <2>6, <2>7, SMTT(30)
<1>9. CASE a # y
  <2>1. addrs'[h][a] = addrs[h][a]
    BY <1>1, <1>2, <1>3, <1>9
  <2> QED
    BY <1>3, <1>5, <1>6, <1>7, <1>9, <2>1, Zenon
<1> QED
  BY <1>8, <1>9, Zenon

\* What handle_cname_record does when no allocation fails.
LEMMA HandleCnameEffect ==
    ASSUME TypeOK, NEW x \in Names, NEW y \in Names, NEW ttl, HandleCname(x, y, ttl), faults' = 0
    PROVE  /\ faults = 0 /\ edits' = edits /\ rules' = rules /\ enabled' = enabled
           /\ addrs' = addrs /\ now' = now
           /\ \A z \in Names \ {x} : alias'[z] = alias[z] /\ alias_deadline'[z] = alias_deadline[z]
           /\ Route(GetAliases(x)', [a \in GetAddresses(x, now)' |-> Remaining(x, a)'])
<1>1. /\ edits' = edits /\ rules' = rules /\ enabled' = enabled
      /\ Route(GetAliases(x)', [a \in GetAddresses(x, now)' |-> Remaining(x, a)'])
  BY Zenon DEF HandleCname
<1>2. ~NoMemory /\ (faults' = faults => faults = 0)
  BY CacheAssumption DEF NoMemory, TypeOK
<1>3. AddAlias(x, y, TotalTtl(ttl))
  BY Zenon DEF HandleCname
<1>4. /\ faults' = faults /\ addrs' = addrs /\ now' = now
      /\ \A z \in Names \ {x} : alias'[z] = alias[z] /\ alias_deadline'[z] = alias_deadline[z]
  BY <1>2, <1>3, Zenon DEF TypeOK, AddAlias, Drop, SetAlias, LoseAlias, vars, cacheVars
<1> QED
  BY <1>1, <1>2, <1>4, Zenon

\* handle_cname_record adds what the record's name now resolves to, to the
\* groups of every name that leads to it.
LEMMA HandleCnameRouted ==
    ASSUME ZonesProper, RoutedInv, RoutingInv', FromZones',
           NEW r \in CnameRecords, NEW ttl \in Ttls, HandleCname(r[1], r[2], ttl)
    PROVE  Routed'
<1> SUFFICES ASSUME edits' = 0, faults' = 0,
                    NEW g \in Groups, NEW d \in Names, NEW k \in 0 .. MaxSeen - 1,
                    NEW h \in Names, NEW a \in Addrs, enabled'[g], d \in rules'[g],
                    HopsAt(d, now)'[k] = h, addrs'[h][a] > now'
             PROVE  kset'[g][a] = Permanent \/ kset'[g][a] >= addrs'[h][a] - now'
  BY Zenon DEF Routed
<1>1. r[1] \in Names /\ r[2] \in Names /\ k \in Nat
  BY RoutingAssumption, CacheAssumption, SMTT(30)
<1>2. /\ TypeOK /\ TypeOK' /\ CacheInv'
      /\ now \in Nat /\ addrs \in [Names -> [Addrs -> Deadlines]]
  BY CacheAssumption DEF RoutedInv, RoutingInv, CacheInv, TypeOK
<1>3. /\ faults = 0 /\ edits' = edits /\ rules' = rules /\ enabled' = enabled
      /\ addrs' = addrs /\ now' = now
      /\ \A z \in Names \ {r[1]} : alias'[z] = alias[z] /\ alias_deadline'[z] = alias_deadline[z]
      /\ Route(GetAliases(r[1])', [q \in GetAddresses(r[1], now)' |-> Remaining(r[1], q)'])
  BY <1>1, <1>2, HandleCnameEffect, Zenon
<1>4. ThroughLaw' /\ SourceLaw'
  <2>1. (CacheInv /\ FromZones => SourceLaw)' /\ (CacheInv /\ FromZones => ThroughLaw)'
    BY SourceHolds, ThroughHolds, PTL
  <2> QED
    BY <1>2, <2>1, Zenon
<1>5. enabled[g] /\ d \in rules[g] /\ edits = 0 /\ addrs[h][a] > now /\ addrs[h][a] \in Int
  <2>1. enabled[g] /\ d \in rules[g] /\ edits = 0 /\ addrs[h][a] > now
    BY <1>3, Zenon
  <2>2. addrs[h][a] \in Deadlines
    BY <1>2, Zenon
  <2>3. addrs[h][a] \in Int
    BY <2>2 DEF Deadlines, Absent
  <2> QED
    BY <2>1, <2>3, Zenon
<1>6. kset'[g][a] = IF Matches(g, GetAliases(r[1])') /\ a \in GetAddresses(r[1], now)'
                      THEN Remaining(r[1], a)' ELSE kset[g][a]
  BY <1>3, Zenon DEF Route, Keys
<1>7. a \in GetAddresses(r[1], now)' => Remaining(r[1], a)' = addrs[h][a] - now
  <2>1. a \in GetAddresses(r[1], now)' => Remaining(r[1], a)' = addrs'[h][a] - now'
    BY <1>1, <1>4, Zenon DEF SourceLaw
  <2> QED
    BY <1>3, <2>1, Zenon
<1>8. CASE \E j \in 0 .. k : HopsAt(d, now)'[j] = r[1]
  <2>1. d \in GetAliases(r[1])' /\ a \in GetAddresses(r[1], now)'
    BY <1>1, <1>4, <1>8, Zenon DEF ThroughLaw
  <2>2. Matches(g, GetAliases(r[1])')
    BY <1>5, <2>1, Zenon DEF Matches
  <2>3. kset'[g][a] = addrs[h][a] - now
    BY <1>6, <1>7, <2>1, <2>2, Zenon
  <2>4. addrs'[h][a] - now' = addrs[h][a] - now
    BY <1>3, Zenon
  <2>5. addrs[h][a] - now >= addrs[h][a] - now
    <3>1. \A u, v \in Int : u - v >= u - v
      OBVIOUS
    <3>2. now \in Int
      BY <1>2
    <3> QED
      BY <1>5, <3>1, <3>2, Zenon
  <2> QED
    BY <2>3, <2>4, <2>5, Zenon
<1>9. CASE ~ \E j \in 0 .. k : HopsAt(d, now)'[j] = r[1]
  <2>1. \A y \in Names, j \in Nat : j < k /\ HopsAt(d, now)'[j] = y /\ Follows(y, now)' =>
               Follows(y, now) /\ alias'[y] = alias[y]
    <3> SUFFICES ASSUME NEW y \in Names, NEW j \in Nat, j < k, HopsAt(d, now)'[j] = y,
                        Follows(y, now)'
                 PROVE  Follows(y, now) /\ alias'[y] = alias[y]
      BY Zenon
    <3>1. j \in 0 .. k
      BY <1>1
    <3>2. y # r[1]
      BY <1>9, <3>1, Zenon
    <3> QED
      BY <1>3, <3>2, Zenon DEF Follows
  <2>2. HopsAt(d, now)[k] = h
    BY <1>1, <1>2, <2>1, OlderHops, Zenon
  <2>3. kset[g][a] = Permanent \/ kset[g][a] >= addrs[h][a] - now
    BY <1>3, <1>5, <2>2, Zenon DEF RoutedInv, Routed
  <2>4. kset'[g][a] = kset[g][a] \/ kset'[g][a] = addrs[h][a] - now
    BY <1>6, <1>7, ZenonT(30)
  <2>5. addrs'[h][a] - now' = addrs[h][a] - now
    BY <1>3, Zenon
  <2>6. addrs[h][a] - now >= addrs[h][a] - now
    BY <1>2, <1>5
  <2> QED
    BY <2>3, <2>4, <2>5, <2>6, Zenon
<1> QED
  BY <1>8, <1>9, Zenon

\* The cleanup timer changes nothing that is alive.
LEMMA CleanupRouted ==
    ASSUME RoutedInv, RoutingInv', CleanupTimer
    PROVE  Routed'
<1> SUFFICES ASSUME edits' = 0, faults' = 0,
                    NEW g \in Groups, NEW d \in Names, NEW k \in 0 .. MaxSeen - 1,
                    NEW h \in Names, NEW a \in Addrs, enabled'[g], d \in rules'[g],
                    HopsAt(d, now)'[k] = h, addrs'[h][a] > now'
             PROVE  kset'[g][a] = Permanent \/ kset'[g][a] >= addrs'[h][a] - now'
  BY Zenon DEF Routed
<1>1. TypeOK /\ TypeOK' /\ CacheInv /\ now \in Nat /\ addrs \in [Names -> [Addrs -> Deadlines]]
  BY CacheAssumption DEF RoutedInv, RoutingInv, CacheInv, TypeOK
<1>2. /\ Cleanup /\ now' = now /\ k \in Nat
      /\ rules' = rules /\ enabled' = enabled /\ kset' = kset /\ faults = 0 /\ edits = 0
  BY CacheAssumption DEF CleanupTimer, Cleanup, routeVars
<1>3. HopsAt(d, now)[k] = h
  <2>1. \A x \in Names, j \in Nat : j < k /\ HopsAt(d, now)'[j] = x /\ Follows(x, now)' =>
               Follows(x, now) /\ alias'[x] = alias[x]
    BY <1>1, <1>2, CleanupKeepsLive, Zenon
  <2> QED
    BY <1>1, <1>2, <2>1, OlderHops, Zenon
<1>4. addrs'[h][a] = addrs[h][a] /\ addrs[h][a] > now
  BY <1>1, <1>2 DEF Cleanup, LeftAddrs, Absent
<1>5. kset[g][a] = Permanent \/ kset[g][a] >= addrs[h][a] - now
  BY <1>2, <1>3, <1>4, Zenon DEF RoutedInv, Routed
<1> QED
  BY <1>2, <1>4, <1>5, Zenon

\* What passes with a second.
LEMMA SecondEffect ==
    ASSUME Second, NEW g \in Groups, NEW k \in Keys
    PROVE  /\ now' = now + 1 /\ rules' = rules /\ enabled' = enabled
           /\ faults' = faults /\ edits' = edits
           /\ addrs' = addrs /\ alias' = alias /\ alias_deadline' = alias_deadline
           /\ kset'[g][k] = IF kset[g][k] = 1 THEN Absent
                            ELSE IF kset[g][k] > 1 THEN kset[g][k] - 1 ELSE kset[g][k]
<1>1. UNCHANGED cacheVars
  BY Zenon DEF Second
<1> QED
  BY <1>1, Zenon DEF Second, cacheVars

\* An alias that is alive after a second was alive before it.
LEMMA SecondHops ==
    ASSUME TypeOK, TypeOK', Second, NEW d \in Names, NEW k \in Nat, NEW h \in Names,
           HopsAt(d, now)'[k] = h
    PROVE  HopsAt(d, now)[k] = h
<1>1. /\ now \in Nat /\ now' = now + 1 /\ alias' = alias /\ alias_deadline' = alias_deadline
      /\ alias_deadline \in [Names -> Nat]
  BY DEF TypeOK, Second, cacheVars
<1>2. ASSUME NEW x \in Names, Follows(x, now)'
      PROVE  Follows(x, now) /\ alias'[x] = alias[x]
  BY <1>1, <1>2 DEF Follows
<1> QED
  BY <1>2, OlderHops, Zenon

\* The kernel's countdown and the cache's deadlines pass together.
LEMMA SecondRouted ==
    ASSUME RoutedInv, RoutingInv', Second
    PROVE  Routed'
<1> SUFFICES ASSUME edits' = 0, faults' = 0,
                    NEW g \in Groups, NEW d \in Names, NEW k \in 0 .. MaxSeen - 1,
                    NEW h \in Names, NEW a \in Addrs, enabled'[g], d \in rules'[g],
                    HopsAt(d, now)'[k] = h, addrs'[h][a] > now'
             PROVE  kset'[g][a] = Permanent \/ kset'[g][a] >= addrs'[h][a] - now'
  BY Zenon DEF Routed
<1>1. /\ TypeOK /\ TypeOK' /\ now \in Nat /\ addrs \in [Names -> [Addrs -> Deadlines]]
      /\ alias_deadline \in [Names -> Nat] /\ kset[g][a] \in Int
  BY CacheAssumption DEF RoutedInv, RoutingInv, RouteTypes, CacheInv, TypeOK, Keys, Deadlines, Absent
<1>2. /\ now' = now + 1 /\ k \in Nat
      /\ rules' = rules /\ enabled' = enabled /\ faults = 0 /\ edits = 0
      /\ addrs' = addrs
      /\ kset'[g][a] = IF kset[g][a] = 1 THEN Absent
                       ELSE IF kset[g][a] > 1 THEN kset[g][a] - 1 ELSE kset[g][a]
  <2>1. k \in Nat /\ a \in Keys
    BY CacheAssumption DEF Keys
  <2> QED
    BY <2>1, SecondEffect, Zenon
<1>3. HopsAt(d, now)[k] = h
  BY <1>1, <1>2, SecondHops, Zenon
<1>4. addrs[h][a] > now + 1 /\ addrs[h][a] > now /\ addrs[h][a] \in Int
  BY <1>1, <1>2 DEF Deadlines, Absent
<1>5. kset[g][a] = Permanent \/ kset[g][a] >= addrs[h][a] - now
  <2>1. enabled[g] /\ d \in rules[g]
    BY <1>2, Zenon
  <2> QED
    BY <1>2, <1>3, <1>4, <2>1, Zenon DEF RoutedInv, Routed
<1>6. kset'[g][a] = Permanent \/ kset'[g][a] >= addrs[h][a] - (now + 1)
  BY <1>1, <1>2, <1>4, <1>5 DEF Permanent
<1> QED
  BY <1>2, <1>6, Zenon

\* All steps together.
LEMMA RoutedStep == ZonesProper /\ RoutedInv /\ [RNext]_rvars => RoutedInv'
<1> SUFFICES ASSUME ZonesProper, RoutedInv, [RNext]_rvars PROVE RoutedInv'
  BY Zenon
<1>1. RoutingInv'
  BY RoutingStep, Zenon DEF RoutedInv
<1>2. CASE UNCHANGED rvars
  <2>1. /\ alias' = alias /\ alias_deadline' = alias_deadline /\ addrs' = addrs /\ now' = now
        /\ faults' = faults /\ rules' = rules /\ enabled' = enabled /\ kset' = kset /\ edits' = edits
    BY <1>2, Zenon DEF rvars, vars, cacheVars, routeVars
  <2>2. \A d : HopsAt(d, now)' = HopsAt(d, now)
    BY <2>1, Zenon DEF HopsAt, Follows
  <2>3. FromZones'
    BY <2>1, Zenon DEF RoutedInv, FromZones
  <2>4. Routed'
    BY <2>1, <2>2, Zenon DEF RoutedInv, Routed
  <2> QED
    BY <1>1, <2>3, <2>4, Zenon DEF RoutedInv
<1>3. CASE RNext
  <2>1. FromZones'
    BY <1>3, FromZonesStep, Zenon
  <2>2. CASE \E r \in ARecords, ttl \in Ttls : HandleAddress(r[1], r[2], ttl)
    <3>1. PICK r \in ARecords, ttl \in Ttls : HandleAddress(r[1], r[2], ttl)
      BY <2>2, Zenon
    <3>2. r[1] \in Names /\ r[2] \in Addrs /\ <<r[1], r[2]>> \in ARecords
      BY RoutingAssumption
    <3>3. Routed'
      BY <1>1, <2>1, <3>1, <3>2, HandleAddressRouted, Zenon
    <3> QED
      BY <1>1, <2>1, <3>3, Zenon DEF RoutedInv
  <2>3. CASE \E r \in CnameRecords, ttl \in Ttls : HandleCname(r[1], r[2], ttl)
    BY <1>1, <2>1, <2>3, HandleCnameRouted, Zenon DEF RoutedInv
  <2>4. CASE Edit
    BY <1>1, <2>1, <2>4, EditTyped, Zenon DEF RoutedInv, Routed
  <2>5. CASE CleanupTimer
    BY <1>1, <2>1, <2>5, CleanupRouted, Zenon DEF RoutedInv
  <2>6. CASE Second
    BY <1>1, <2>1, <2>6, SecondRouted, Zenon DEF RoutedInv
  <2> QED
    BY <1>3, <2>2, <2>3, <2>4, <2>5, <2>6, Zenon DEF RNext, PutRules, PutGroup, PutGroupInvalid
<1> QED
  BY <1>2, <1>3, Zenon

\* An address that a matched name resolves to is in the group's set.
LEMMA RoutedFound ==
    ASSUME RoutedInv, edits = 0, faults = 0, NEW g \in Groups, enabled[g],
           NEW a \in Found(rules[g])
    PROVE  a \in Present(g)
<1>1. TypeOK /\ CacheInv /\ now \in Nat /\ addrs \in [Names -> [Addrs -> Deadlines]]
  BY CacheAssumption DEF RoutedInv, RoutingInv, CacheInv, TypeOK
<1>2. PICK d \in rules[g] \cap nodes : a \in GetAddresses(d, now)
  BY Zenon DEF Found, Sources
<1>3. d \in Names /\ a \in Addrs
  BY <1>1, Zenon DEF TypeOK, Found
<1>4. GoodHops(d, now) \in SUBSET Nat /\ GoodHops(d, now) # {}
  <2>1. GoodHops(d, now) # {}
    BY <1>1, <1>2, <1>3, LookupNearest, Zenon
  <2> QED
    BY <2>1, CacheAssumption DEF GoodHops
<1>5. PICK k \in GoodHops(d, now) : \A j \in GoodHops(d, now) : k <= j
  BY <1>4, LeastNat, Zenon
<1> DEFINE h == HopsAt(d, now)[k]
<1>6. GetAddresses(d, now) = Valid(h, now)
  BY <1>1, <1>3, <1>5, LookupNearest, Zenon
<1>7. k \in 0 .. MaxSeen - 1 /\ h # NoName /\ addrs[h][a] > now
  BY <1>2, <1>5, <1>6, Zenon DEF GoodHops, Valid
<1>8. h \in Names
  <2>1. HopsAt(d, now) \in [Nat -> Names \cup {NoName}]
    BY <1>1, <1>3, HopsDefined, Zenon
  <2> QED
    BY <1>4, <1>5, <1>7, <2>1, Zenon
<1>9. kset[g][a] = Permanent \/ kset[g][a] >= addrs[h][a] - now
  BY <1>2, <1>3, <1>7, <1>8, Zenon DEF RoutedInv, Routed
<1>10. addrs[h][a] \in Int
  BY <1>1, <1>3, <1>8 DEF Deadlines, Absent
<1> HIDE DEF h
<1>11. kset[g][a] # Absent
  BY <1>1, <1>7, <1>9, <1>10 DEF Permanent, Absent
<1> QED
  BY <1>3, <1>11, Zenon DEF Present, Keys

\* Before any edit and any failing allocation, what the cache resolves a matched
\* name to is in the group's set for as long as the cache holds it, in whatever
\* order the records of its chain came, were refused, expired or were cleaned
\* up: for zones in which a name with a CNAME has no address of its own and no
\* two names share an address.
THEOREM ResolvedIsAlwaysRouted == ASSUME ZonesProper PROVE RSpec => []ResolvedIsRouted
<1>1. RInit => RoutedInv
  <2> SUFFICES ASSUME RInit PROVE RoutedInv
    BY Zenon
  <2>1. RoutingInv
    BY RoutingInit, Zenon
  <2>2. \A d \in Names, a \in Addrs : addrs[d][a] = Absent
    BY Zenon DEF RInit, Init
  <2>3. FromZones
    BY <2>2, Zenon DEF RInit, Init, FromZones
  <2>4. Routed
    <3>1. ~(Absent > now)
      BY DEF RInit, Absent
    <3> QED
      BY <2>2, <3>1, Zenon DEF Routed
  <2> QED
    BY <2>1, <2>3, <2>4, Zenon DEF RoutedInv
<1>2. RoutedInv /\ [RNext]_rvars => RoutedInv'
  BY RoutedStep, Zenon
<1>3. RoutedInv => ResolvedIsRouted
  BY RoutedFound, Zenon DEF ResolvedIsRouted
<1> QED
  BY <1>1, <1>2, <1>3, PTL DEF RSpec
=============================================================================
