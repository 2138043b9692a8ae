---------------------------- MODULE ConfigProofs ----------------------------
(***************************************************************************)
(* What follows the configuration follows it exactly: the snapshot and the *)
(* kernel after every operation, failed or not, for every set of requests, *)
(* files and fetched lists and any number of operations, failures, kills   *)
(* and restarts.  And its file: the save is atomic.                        *)
(*                                                                         *)
(* Outcomes of operations are followed one operation at a time: Good says  *)
(* that nothing is amiss with an app, and a lemma for each operation says  *)
(* that its outcomes are Good when it started from a Good one.             *)
(***************************************************************************)
EXTENDS Config, FiniteSetTheorems, TLAPS

AppFields == {"groups", "on", "subs", "cap", "subrs", "kernel", "stuck", "snap"}
GroupFields == {"id", "enable", "rules", "cap"}
IsApp(a) == a = [x \in AppFields |-> a[x]]
IsGroup(g) == g = [x \in GroupFields |-> g[x]]
IsSub(s) == s = [x \in SubFields |-> s[x]]
IsSeq(s) == s \in Seq(Range(s))

\* The identifiers of groups and those of subscriptions name the same kind of
\* kernel resources, and nothing in the code keeps them apart.
IdsApart == GroupNames \cap SubNames = {}

\* No two groups have the same identifier.
Unambiguous(gs) == \A i, j \in DOMAIN gs : gs[i].id = gs[j].id => i = j

GroupsOK(gs) ==
    /\ IsSeq(gs) /\ \A i \in DOMAIN gs : IsGroup(gs[i])
    /\ Unambiguous(gs) /\ Ids(gs) \subseteq GroupNames

SubsOK(subs) == IsSeq(subs) /\ (\A i \in DOMAIN subs : IsSub(subs[i])) /\ Ids(subs) \subseteq SubNames

IdsOf(gs) == {g.id : g \in gs}
SwitchedOff(b, a, gs) == b.on = a.on \ IdsOf(gs)
HeldByGroups(a) == a.on \cap Wanted(Range(a.groups))
Held(a) == HeldByGroups(a) \cup Wanted(Range(a.subrs))

\* The kernel holds what the rulesets ask for and what is stuck, and nothing of
\* the first is stuck.
Exact(a) == a.kernel = Held(a) \cup a.stuck /\ Held(a) \cap a.stuck = {}

Kept(a) ==
    /\ IsApp(a) /\ GroupsOK(a.groups) /\ SubsOK(a.subs)
    /\ a.on \subseteq Ids(a.groups)
    /\ Wanted(Range(a.subrs)) \subseteq SubNames
    /\ IdsApart => Exact(a)

Copied(a) == a.subrs \in {<<>>, Each(RuntimeGroup, a.subs)}
Fresh(a) == a.snap = Build(a.groups, a.subs)

\* A file that is neither missing nor torn.
ContentOK(c) == IsSeq(c.groups) /\ Ids(c.groups) \subseteq GroupNames /\ SubsOK(c.subs)
TextOK(c) == c \in {Missing, Torn} \/ ContentOK(c)

FileOK ==
    /\ TextOK(file.data) /\ TextOK(durable.data) /\ TextOK(tmp.data) /\ TextOK(data)
    /\ "data" \in DOMAIN tmp

Inv ==
    /\ FileOK /\ Kept(app) /\ Copied(app)
    /\ up => Fresh(app)
    /\ ~up => app.groups = <<>> /\ app.subs = <<>> /\ app.subrs = <<>>

-----------------------------------------------------------------------------
\* Sequences

\* A sequence made element by element.
LEMMA MadeSeq ==
    ASSUME NEW n \in Nat, NEW s, s = [i \in 1 .. n |-> s[i]]
    PROVE  IsSeq(s) /\ Len(s) = n /\ DOMAIN s = 1 .. n
<1>1. DOMAIN s = 1 .. n /\ \A i \in 1 .. n : s[i] \in Range(s)
  BY DEF Range
<1>2. s \in [1 .. n -> Range(s)]
  BY <1>1, Zenon
<1> QED
  BY <1>1, <1>2 DEF IsSeq

\* The places of a sequence.
LEMMA SeqDomain ==
    ASSUME NEW s, IsSeq(s)
    PROVE  Len(s) \in Nat /\ DOMAIN s = 1 .. Len(s) /\ s = [i \in 1 .. Len(s) |-> s[i]]
  BY DEF IsSeq

\* Nothing is in the empty sequence.
LEMMA NothingIn ==
    ASSUME NEW s, s = << >>
    PROVE  IsSeq(s) /\ DOMAIN s = {} /\ Range(s) = {} /\ Ids(s) = {} /\ Wanted(Range(s)) = {}
<1>1. DOMAIN s = {} /\ s \in Seq(Range(s))
  BY SMT
<1>2. Range(s) = {} /\ Ids(s) = {}
  BY <1>1, Zenon DEF Range, Ids
<1>3. Wanted(Range(s)) = {}
  BY <1>2, Zenon DEF Wanted
<1> QED
  BY <1>1, <1>2, <1>3, Zenon DEF IsSeq

\* The place after the first k of n.
LEMMA NextPlace ==
    ASSUME NEW n \in Nat, NEW k \in 0 .. n, k # n PROVE k + 1 \in 1 .. n
  OBVIOUS

\* What is left when one element is removed.
LEMMA RemoveAtIs ==
    ASSUME NEW s, IsSeq(s), NEW i \in DOMAIN s
    PROVE  /\ IsSeq(RemoveAt(s, i)) /\ Len(RemoveAt(s, i)) = Len(s) - 1
           /\ DOMAIN RemoveAt(s, i) = 1 .. Len(s) - 1
           /\ \A k \in 1 .. Len(s) - 1 : RemoveAt(s, i)[k] = IF k < i THEN s[k] ELSE s[k + 1]
<1>1. Len(s) - 1 \in Nat
  BY SeqDomain
<1>2. PICK n, t : n = Len(s) - 1 /\ t = RemoveAt(s, i)
  BY Zenon
<1>3. t = [k \in 1 .. n |-> IF k < i THEN s[k] ELSE s[k + 1]]
  BY <1>2, Zenon DEF RemoveAt
<1>4. t = [k \in 1 .. n |-> t[k]] /\ \A k \in 1 .. n : t[k] = IF k < i THEN s[k] ELSE s[k + 1]
  BY <1>3, Zenon
<1>5. IsSeq(t) /\ Len(t) = n /\ DOMAIN t = 1 .. n
  BY <1>1, <1>2, <1>4, MadeSeq, Zenon
<1> QED
  BY <1>2, <1>4, <1>5, Zenon

\* A set of numbers that is not empty has a least element.
LEMMA LeastIndex ==
    ASSUME NEW S \in SUBSET Nat, S # {}
    PROVE  \E m \in S : \A k \in S : m <= k
<1>1. PICK m \in S : \A k \in S : <<k, m>> \notin OpToRel(<, Nat)
  BY NatLessThanWellFounded, WFMin, Zenon
<1>2. \A k \in S : ~(k < m)
  BY <1>1, Zenon DEF OpToRel
<1> QED
  BY <1>2

\* The place of an identifier, 0 if there is none.
LEMMA AtPlace ==
    ASSUME NEW s, IsSeq(s), NEW id, At(s, id) # 0
    PROVE  At(s, id) \in DOMAIN s /\ s[At(s, id)].id = id
<1> DEFINE I == {i \in DOMAIN s : s[i].id = id}
<1>1. At(s, id) = IF I = {} THEN 0 ELSE Min(I)
  BY Zenon DEF At, FirstOf
<1>2. I # {} /\ At(s, id) = Min(I)
  BY <1>1
<1>3. PICK m \in I : \A k \in I : m <= k
  <2>1. PICK k \in I : TRUE
    BY <1>2
  <2>2. I \subseteq Nat
    BY SeqDomain
  <2> HIDE DEF I
  <2> QED
    BY <2>1, <2>2, LeastIndex
<1>4. Min(I) \in I
  BY <1>3, Zenon DEF Min
<1> QED
  BY <1>2, <1>4, SeqDomain

-----------------------------------------------------------------------------
\* What the operations on rulesets change

\* An outcome has the app and the error it was made of.
LEMMA ResultIs ==
    ASSUME NEW a, NEW err, NEW f
    PROVE  Result(a, err, f).app = a /\ Result(a, err, f).err = err
  BY DEF Result

\* A group is found by its identifier.
LEMMA GroupById ==
    ASSUME NEW gs, Unambiguous(gs), NEW g \in Range(gs), NEW h \in Range(gs), g.id = h.id
    PROVE  g = h
  BY DEF Unambiguous, Range

\* What rulesets hold, by identifier.
LEMMA WantedIs ==
    ASSUME NEW gs, NEW id PROVE id \in Wanted(gs) <=> \E g \in gs : g.enable /\ g.id = id
  BY DEF Wanted

\* Some ruleset of that identifier is enabled.
SomeOn(gs, id) == \E k \in DOMAIN gs : gs[k].enable /\ gs[k].id = id

\* What a sequence of rulesets holds.
LEMMA WantedAt ==
    ASSUME NEW gs, NEW id PROVE id \in Wanted(Range(gs)) <=> SomeOn(gs, id)
<1> USE DEF SomeOn
<1>1. ASSUME id \in Wanted(Range(gs)) PROVE \E k \in DOMAIN gs : gs[k].enable /\ gs[k].id = id
  <2>1. PICK g \in Range(gs) : g.enable /\ g.id = id
    BY <1>1, WantedIs, Zenon
  <2>2. PICK k \in DOMAIN gs : g = gs[k]
    BY Zenon DEF Range
  <2> QED
    BY <2>1, <2>2, Zenon
<1>2. ASSUME NEW k \in DOMAIN gs, gs[k].enable, gs[k].id = id PROVE id \in Wanted(Range(gs))
  <2>1. gs[k] \in Range(gs)
    BY Zenon DEF Range
  <2> QED
    BY <1>2, <2>1, WantedIs, Zenon
<1> QED
  BY <1>1, <1>2, Zenon

\* mt_ruleset_disable of some groups: they hold nothing any more, the others
\* what they did.
LEMMA DisableKeeps ==
    ASSUME NEW a, Kept(a), NEW gs, gs \subseteq Range(a.groups),
           NEW b, b = DisableGroups(a, gs)
    PROVE  /\ Kept(b) /\ SwitchedOff(b, a, gs) /\ b.stuck = a.stuck
           /\ b.groups = a.groups /\ b.subs = a.subs /\ b.cap = a.cap
           /\ b.subrs = a.subrs /\ b.snap = a.snap
<1>0. PICK off, m, N : /\ off = {g \in gs : g.id \in a.on} /\ N = {g.id : g \in gs}
                       /\ m = [a EXCEPT !.on = a.on \ N]
  BY Zenon
<1>1. IsApp(a) /\ b = Release(m, off)
  BY <1>0, Zenon DEF DisableGroups, Kept
<1>2. /\ IsApp(m) /\ m.on = a.on \ N /\ m.kernel = a.kernel
      /\ m.stuck = a.stuck /\ m.groups = a.groups /\ m.subs = a.subs /\ m.cap = a.cap
      /\ m.subrs = a.subrs /\ m.snap = a.snap
  BY <1>0, <1>1, Zenon DEF IsApp, AppFields
<1>3. /\ IsApp(b) /\ b.kernel = a.kernel \ Wanted(off) /\ b.stuck = a.stuck
      /\ b.groups = a.groups /\ b.on = a.on \ N /\ b.subs = a.subs
      /\ b.cap = a.cap /\ b.subrs = a.subrs /\ b.snap = a.snap
  BY <1>1, <1>2, Zenon DEF Release, IsApp, AppFields
<1>4. /\ Unambiguous(a.groups) /\ Ids(a.groups) \subseteq GroupNames
      /\ a.on \subseteq Ids(a.groups) /\ Wanted(Range(a.subrs)) \subseteq SubNames
      /\ IdsApart => Exact(a)
      /\ GroupsOK(a.groups) /\ SubsOK(a.subs)
  BY Zenon DEF Kept, GroupsOK
<1>5. ASSUME NEW id
      PROVE  id \in Wanted(off) <=> id \in HeldByGroups(a) /\ id \in N
  <2>1. ASSUME id \in Wanted(off) PROVE id \in HeldByGroups(a) /\ id \in N
    <3>1. PICK g \in off : g.enable /\ g.id = id
      BY <2>1, WantedIs, Zenon
    <3>2. g \in Range(a.groups) /\ id \in a.on /\ id \in N
      BY <1>0, <3>1, Zenon
    <3> QED
      BY <3>1, <3>2, WantedIs, Zenon DEF HeldByGroups
  <2>2. ASSUME id \in HeldByGroups(a), id \in N PROVE id \in Wanted(off)
    <3>1. PICK h \in Range(a.groups) : h.enable /\ h.id = id
      BY <2>2, WantedIs, Zenon DEF HeldByGroups
    <3>2. PICK g \in gs : g.id = id
      BY <1>0, <2>2, Zenon
    <3>3. g = h /\ id \in a.on
      BY <1>4, <2>2, <3>1, <3>2, GroupById, Zenon DEF HeldByGroups
    <3> QED
      <4>1. g \in off
        BY <1>0, <3>2, <3>3, Zenon
      <4> QED
        BY <3>1, <3>3, <4>1, WantedIs, Zenon
  <2> QED
    BY <2>1, <2>2, Zenon
<1>6. HeldByGroups(b) = HeldByGroups(a) \ N
  BY <1>3, Zenon DEF HeldByGroups
<1>7. IdsApart => HeldByGroups(a) \cap Wanted(Range(a.subrs)) = {}
  BY <1>4, Zenon DEF HeldByGroups, IdsApart
<1> DEFINE K == a.kernel
           H == HeldByGroups(a)
           W == Wanted(Range(a.subrs))
           S == a.stuck
           O == Wanted(off)
<1>8. Held(a) = H \cup W /\ Held(b) = (H \ N) \cup W
  BY <1>3, <1>6, Zenon DEF Held
<1>9. IdsApart => K = (H \cup W) \cup S /\ (H \cup W) \cap S = {} /\ H \cap W = {}
  BY <1>4, <1>7, <1>8, Zenon DEF Exact
<1>10. \A id : id \in O <=> id \in H /\ id \in N
  BY <1>5, Zenon
<1> HIDE DEF K, H, W, S, O
<1>11. IdsApart => K \ O = ((H \ N) \cup W) \cup S /\ ((H \ N) \cup W) \cap S = {}
  BY <1>9, <1>10
<1>12. IdsApart => Exact(b)
  BY <1>3, <1>8, <1>11, Zenon DEF K, O, S, Exact
<1>13. b.on \subseteq Ids(b.groups)
  BY <1>3, <1>4, Zenon
<1> QED
  BY <1>0, <1>3, <1>4, <1>12, <1>13, Zenon DEF Kept, SwitchedOff, IdsOf

\* mt_ruleset_enable of some groups: they hold what they want, which is not
\* stuck any more.
LEMMA EnableKeeps ==
    ASSUME NEW a, Kept(a), NEW gs, gs \subseteq Range(a.groups),
           NEW b, b = EnableGroups(a, gs)
    PROVE  /\ Kept(b) /\ b.on = a.on \cup IdsOf(gs)
           /\ b.groups = a.groups /\ b.subs = a.subs /\ b.cap = a.cap
           /\ b.subrs = a.subrs /\ b.snap = a.snap
<1>0. PICK m, N : N = {g.id : g \in gs} /\ m = [a EXCEPT !.on = a.on \cup N]
  BY Zenon
<1>1. IsApp(a) /\ b = Hold(m, gs)
  BY <1>0, Zenon DEF EnableGroups, Kept
<1>2. /\ IsApp(m) /\ m.on = a.on \cup N /\ m.kernel = a.kernel
      /\ m.stuck = a.stuck /\ m.groups = a.groups /\ m.subs = a.subs /\ m.cap = a.cap
      /\ m.subrs = a.subrs /\ m.snap = a.snap
  BY <1>0, <1>1, Zenon DEF IsApp, AppFields
<1>3. /\ IsApp(b) /\ b.kernel = a.kernel \cup Wanted(gs) /\ b.stuck = a.stuck \ Wanted(gs)
      /\ b.groups = a.groups /\ b.on = a.on \cup N /\ b.subs = a.subs
      /\ b.cap = a.cap /\ b.subrs = a.subrs /\ b.snap = a.snap
  BY <1>1, <1>2, Zenon DEF Hold, IsApp, AppFields
<1>4. /\ Unambiguous(a.groups) /\ a.on \subseteq Ids(a.groups)
      /\ Wanted(Range(a.subrs)) \subseteq SubNames
      /\ IdsApart => Exact(a)
      /\ GroupsOK(a.groups) /\ SubsOK(a.subs)
  BY Zenon DEF Kept, GroupsOK
<1>5. ASSUME NEW id
      PROVE  id \in Wanted(gs) <=> id \in N /\ id \in Wanted(Range(a.groups))
  <2>1. ASSUME id \in Wanted(gs)
        PROVE  id \in N /\ id \in Wanted(Range(a.groups))
    <3>1. PICK g \in gs : g.enable /\ g.id = id
      BY <2>1, WantedIs, Zenon
    <3> QED
      BY <1>0, <3>1, WantedIs, Zenon
  <2>2. ASSUME id \in N, id \in Wanted(Range(a.groups)) PROVE id \in Wanted(gs)
    <3>1. PICK h \in Range(a.groups) : h.enable /\ h.id = id
      BY <2>2, WantedIs, Zenon
    <3>2. PICK g \in gs : g.id = id
      BY <1>0, <2>2, Zenon
    <3>3. g = h
      BY <1>4, <3>1, <3>2, GroupById, Zenon
    <3> QED
      BY <3>1, <3>2, <3>3, WantedIs, Zenon
  <2> QED
    BY <2>1, <2>2, Zenon
<1> DEFINE K == a.kernel
           G == Wanted(Range(a.groups))
           On == a.on
           W == Wanted(Range(a.subrs))
           S == a.stuck
           O == Wanted(gs)
<1>6. Held(a) = (On \cap G) \cup W /\ Held(b) = ((On \cup N) \cap G) \cup W
  BY <1>3, Zenon DEF Held, HeldByGroups
<1>7. IdsApart => K = ((On \cap G) \cup W) \cup S /\ ((On \cap G) \cup W) \cap S = {}
  BY <1>4, <1>6, Zenon DEF Exact
<1>8. \A id : id \in O <=> id \in N /\ id \in G
  BY <1>5, Zenon
<1> HIDE DEF K, G, On, W, S, O
<1>9. IdsApart => /\ K \cup O = (((On \cup N) \cap G) \cup W) \cup (S \ O)
                  /\ (((On \cup N) \cap G) \cup W) \cap (S \ O) = {}
  BY <1>7, <1>8
<1>10. IdsApart => Exact(b)
  BY <1>3, <1>6, <1>9, Zenon DEF K, O, S, Exact
<1>11. b.on \subseteq Ids(b.groups)
  <2>1. N \subseteq Ids(a.groups)
    BY <1>0, Zenon DEF Range, Ids
  <2> QED
    BY <1>3, <1>4, <2>1, Zenon
<1> QED
  BY <1>0, <1>3, <1>4, <1>10, <1>11, Zenon DEF Kept, IdsOf

\* Edits of the configuration that leave the kernel alone: of groups that are
\* not enabled, of rules, of subscriptions.
LEMMA EditKeeps ==
    ASSUME NEW a, Kept(a), NEW b, IsApp(b), GroupsOK(b.groups), SubsOK(b.subs),
           b.on = a.on, b.kernel = a.kernel, b.stuck = a.stuck, b.subrs = a.subrs,
           b.on \subseteq Ids(b.groups),
           \A id \in a.on : id \in Wanted(Range(b.groups)) <=> id \in Wanted(Range(a.groups))
    PROVE  Kept(b)
<1>1. HeldByGroups(b) = HeldByGroups(a)
  BY Zenon DEF HeldByGroups
<1>2. Held(b) = Held(a)
  BY <1>1, Zenon DEF Held
<1> QED
  BY <1>2, Zenon DEF Kept, Exact

\* The rulesets of subscriptions have the identifiers of the subscriptions.
LEMMA CopiesWanted ==
    ASSUME NEW subs, SubsOK(subs)
    PROVE  Wanted(Range(Each(RuntimeGroup, subs))) \subseteq SubNames
<1>1. ASSUME NEW g \in Range(Each(RuntimeGroup, subs)) PROVE g.id \in Ids(subs)
  <2>1. PICK i \in DOMAIN subs : g = RuntimeGroup(subs[i])
    BY Zenon DEF Range, Each
  <2> QED
    BY <2>1, Zenon DEF RuntimeGroup, Ids
<1>2. ASSUME NEW id \in Wanted(Range(Each(RuntimeGroup, subs))) PROVE id \in SubNames
  <2>1. PICK g \in Range(Each(RuntimeGroup, subs)) : g.enable /\ g.id = id
    BY <1>2, Zenon DEF Wanted
  <2> QED
    BY <1>1, <2>1, Zenon DEF SubsOK
<1> QED
  BY <1>2, Zenon

\* rebuild_subscription_rulesets: afterwards the rulesets are copies of the
\* configuration or there are none, and the kernel is exact either way.
LEMMA RebuildKeeps ==
    ASSUME NEW a, Kept(a), NEW f, NEW r \in Rebuild(a, f)
    PROVE  /\ Kept(r.app) /\ Copied(r.app)
           /\ r.app.groups = a.groups /\ r.app.subs = a.subs /\ r.app.snap = a.snap
<1>0. PICK none1, none, new, full1, full :
         /\ none1 = Release(a, Range(a.subrs)) /\ none = [none1 EXCEPT !.subrs = <<>>]
         /\ new = Each(RuntimeGroup, a.subs)
         /\ full1 = Hold(none, Range(new)) /\ full = [full1 EXCEPT !.subrs = new]
  BY Zenon
<1>1. r.app = full \/ r.app = none
  <2>1. \/ r = Result(full, "ok", f)
        \/ r = Result(none, "io", f + 1)
    BY <1>0, Zenon DEF Rebuild, Faults
  <2> QED
    BY <2>1 DEF Result
<1>2. /\ IsApp(a) /\ GroupsOK(a.groups) /\ SubsOK(a.subs) /\ a.on \subseteq Ids(a.groups)
      /\ Wanted(Range(a.subrs)) \subseteq SubNames /\ Ids(a.groups) \subseteq GroupNames
      /\ IdsApart => Exact(a)
  BY Zenon DEF Kept, GroupsOK
<1>3. Wanted(Range(new)) \subseteq SubNames
  BY <1>0, <1>2, CopiesWanted, Zenon
<1>4. /\ IsApp(none1) /\ none1.kernel = a.kernel \ Wanted(Range(a.subrs))
      /\ none1.stuck = a.stuck /\ none1.groups = a.groups /\ none1.on = a.on
      /\ none1.subs = a.subs /\ none1.snap = a.snap
  BY <1>0, <1>2, Zenon DEF Release, IsApp, AppFields
<1>5. /\ IsApp(none) /\ none.kernel = a.kernel \ Wanted(Range(a.subrs)) /\ none.subrs = <<>>
      /\ none.stuck = a.stuck /\ none.groups = a.groups /\ none.on = a.on
      /\ none.subs = a.subs /\ none.snap = a.snap
  BY <1>0, <1>4, Zenon DEF IsApp, AppFields
<1>6. /\ IsApp(full1) /\ full1.kernel = none.kernel \cup Wanted(Range(new))
      /\ full1.stuck = a.stuck \ Wanted(Range(new)) /\ full1.groups = a.groups
      /\ full1.on = a.on /\ full1.subs = a.subs /\ full1.snap = a.snap
  BY <1>0, <1>5, ZenonT(30) DEF Hold, IsApp, AppFields
<1>7. /\ IsApp(full) /\ full.kernel = none.kernel \cup Wanted(Range(new)) /\ full.subrs = new
      /\ full.stuck = a.stuck \ Wanted(Range(new)) /\ full.groups = a.groups
      /\ full.on = a.on /\ full.subs = a.subs /\ full.snap = a.snap
  BY <1>0, <1>6, Zenon DEF IsApp, AppFields
<1> DEFINE H == HeldByGroups(a)
           W == Wanted(Range(a.subrs))
           V == Wanted(Range(new))
           S == a.stuck
           K == a.kernel
<1>8. /\ Held(a) = H \cup W /\ Held(none) = H /\ Held(full) = H \cup V
      /\ Wanted(Range(none.subrs)) = {}
  <2>1. HeldByGroups(none) = H /\ HeldByGroups(full) = H
    BY <1>5, <1>7, Zenon DEF HeldByGroups
  <2>2. Wanted(Range(none.subrs)) = {}
    BY <1>5, NothingIn, Zenon
  <2> QED
    BY <1>7, <2>1, <2>2, Zenon DEF Held
<1>9. IdsApart => H \cap W = {} /\ H \cap V = {}
  BY <1>2, <1>3, Zenon DEF HeldByGroups, IdsApart
<1>10. IdsApart => K = (H \cup W) \cup S /\ (H \cup W) \cap S = {}
  BY <1>2, <1>8, Zenon DEF Exact
<1> HIDE DEF H, W, V, S, K
<1>11. IdsApart => K \ W = H \cup S /\ H \cap S = {}
  BY <1>9, <1>10
<1>12. IdsApart => (K \ W) \cup V = (H \cup V) \cup (S \ V) /\ (H \cup V) \cap (S \ V) = {}
  BY <1>9, <1>11
<1>13. Kept(none)
  <2>1. IdsApart => Exact(none)
    BY <1>5, <1>8, <1>11, Zenon DEF K, W, S, Exact
  <2>2. Wanted(Range(none.subrs)) \subseteq SubNames
    BY <1>8, Zenon
  <2> QED
    BY <1>2, <1>5, <2>1, <2>2, Zenon DEF Kept
<1>14. Kept(full)
  <2>1. IdsApart => Exact(full)
    BY <1>5, <1>7, <1>8, <1>12, Zenon DEF K, W, S, V, Exact
  <2> QED
    BY <1>2, <1>3, <1>7, <2>1, Zenon DEF Kept
<1>15. Copied(none) /\ Copied(full)
  BY <1>0, <1>5, <1>7, Zenon DEF Copied
<1> QED
  BY <1>1, <1>5, <1>7, <1>13, <1>14, <1>15, Zenon

-----------------------------------------------------------------------------
\* Operations on subscriptions

\* What every outcome of an operation on the subscriptions of a has in common.
SubOutcome(r, a) ==
    /\ Kept(r.app) /\ Copied(r.app) /\ Fresh(r.app) /\ r.app.groups = a.groups
    /\ r.err # "ok" => r.app.subs = a.subs /\ r.app.snap = a.snap

\* The rulesets are rebuilt for b, and if that fails for the subscriptions of a
\* again, whose snapshot is still the published one.
LEMMA RebuildOrBackKeeps ==
    ASSUME NEW a, Kept(a), Fresh(a), NEW b, Kept(b), NEW back, NEW f,
           b.groups = a.groups, b.snap = a.snap, back.subs = a.subs,
           NEW r \in RebuildOrBack(b, back, f)
    PROVE  SubOutcome(r, a)
<1>1. PICK p \in Rebuild(b, f) :
         r \in IF p.err = "ok" THEN {Result(Republish(p.app), "ok", p.faults)}
               ELSE LET c == [p.app EXCEPT !.subs = back.subs, !.cap = back.cap]
                    IN  {Result(q.app, p.err, q.faults) : q \in Rebuild(c, p.faults)}
  BY Zenon DEF RebuildOrBack
<1>2. /\ Kept(p.app) /\ Copied(p.app)
      /\ p.app.groups = b.groups /\ p.app.subs = b.subs /\ p.app.snap = b.snap
  BY RebuildKeeps, Zenon
<1>3. IsApp(p.app) /\ p.app.on \subseteq Ids(p.app.groups) /\ GroupsOK(p.app.groups)
      /\ SubsOK(p.app.subs) /\ SubsOK(a.subs)
  BY <1>2, Zenon DEF Kept
<1>4. CASE p.err = "ok"
  <2>1. PICK d : d = Republish(p.app)
    BY Zenon
  <2>2. r.app = d /\ r.err = "ok"
    BY <1>1, <1>4, <2>1 DEF Result
  <2>3. /\ IsApp(d) /\ Fresh(d) /\ d.kernel = p.app.kernel
        /\ d.stuck = p.app.stuck /\ d.groups = p.app.groups /\ d.on = p.app.on
        /\ d.subs = p.app.subs /\ d.subrs = p.app.subrs
    BY <1>3, <2>1, Zenon DEF Republish, Fresh, IsApp, AppFields
  <2>4. Kept(d)
    BY <1>2, <1>3, <2>3, EditKeeps, Zenon
  <2>5. Copied(d)
    BY <1>2, <2>3, Zenon DEF Copied
  <2> QED
    BY <1>2, <2>2, <2>3, <2>4, <2>5, Zenon DEF SubOutcome
<1>5. CASE p.err # "ok"
  <2>1. PICK c : c = [p.app EXCEPT !.subs = back.subs, !.cap = back.cap]
    BY Zenon
  <2>2. PICK q \in Rebuild(c, p.faults) : r = Result(q.app, p.err, q.faults)
    BY <1>1, <1>5, <2>1, Zenon
  <2>3. /\ IsApp(c) /\ c.subs = a.subs /\ c.kernel = p.app.kernel /\ c.stuck = p.app.stuck
        /\ c.on = p.app.on /\ c.groups = p.app.groups
        /\ c.subrs = p.app.subrs /\ c.snap = p.app.snap
    BY <1>3, <2>1, Zenon DEF IsApp, AppFields
  <2>4. Kept(c)
    BY <1>2, <1>3, <2>3, EditKeeps, Zenon
  <2>5. /\ Kept(q.app) /\ Copied(q.app)
        /\ q.app.groups = c.groups /\ q.app.subs = c.subs /\ q.app.snap = c.snap
    BY <2>2, <2>4, RebuildKeeps, Zenon
  <2>6. r.app = q.app
    BY <2>2, Zenon DEF Result
  <2>7. Fresh(q.app)
    BY <1>2, <2>3, <2>5, Zenon DEF Fresh
  <2> QED
    BY <1>2, <2>3, <2>5, <2>6, <2>7, Zenon DEF SubOutcome
<1> QED
  BY <1>4, <1>5, Zenon

\* The same when only the subscriptions, and the room of their array, differ.
LEMMA ResubscribeKeeps ==
    ASSUME NEW a, Kept(a), Fresh(a), NEW subs, SubsOK(subs), NEW y,
           NEW b, b = [a EXCEPT !.subs = subs] \/ b = [a EXCEPT !.subs = subs, !.cap = y],
           NEW back, back.subs = a.subs, NEW f, NEW r \in RebuildOrBack(b, back, f)
    PROVE  SubOutcome(r, a)
<1>1. IsApp(a) /\ GroupsOK(a.groups) /\ a.on \subseteq Ids(a.groups)
  BY Zenon DEF Kept
<1>2. /\ IsApp(b) /\ b.subs = subs /\ b.kernel = a.kernel /\ b.stuck = a.stuck
      /\ b.on = a.on /\ b.groups = a.groups /\ b.subrs = a.subrs /\ b.snap = a.snap
  BY <1>1, Zenon DEF IsApp, AppFields
<1>3. Kept(b)
  BY <1>1, <1>2, EditKeeps, Zenon
<1> QED
  BY <1>2, <1>3, RebuildOrBackKeeps, Zenon

\* An operation that is refused.
LEMMA RefusedKeeps ==
    ASSUME NEW a, Kept(a), Copied(a), Fresh(a), NEW err, NEW f,
           NEW r, r = Result(a, err, f)
    PROVE  SubOutcome(r, a)
<1>1. r.app = a
  BY Zenon DEF Result
<1> QED
  BY <1>1, Zenon DEF SubOutcome

\* mt_app_add_subscription.
LEMMA AddSubscriptionKeeps ==
    ASSUME NEW a, Kept(a), Copied(a), Fresh(a), NEW s, IsSub(s), s.id \in SubNames,
           NEW f, NEW r \in AddSubscription(a, s, f)
    PROVE  SubOutcome(r, a)
<1> DEFINE subs == Append(a.subs, s)
           b == [a EXCEPT !.subs = subs, !.cap = GrowArray(a.cap, Len(a.subs))]
           back == [b EXCEPT !.subs = a.subs]
<1>1. r = Result(a, "exist", f) \/ r \in RebuildOrBack(b, back, f)
  BY Zenon DEF AddSubscription
<1>2. IsApp(a) /\ IsSeq(a.subs) /\ (\A i \in DOMAIN a.subs : IsSub(a.subs[i]))
      /\ Ids(a.subs) \subseteq SubNames
  BY Zenon DEF Kept, SubsOK
<1>3. SubsOK(subs)
  <2>1. Len(a.subs) \in Nat /\ DOMAIN a.subs = 1 .. Len(a.subs) /\ a.subs \in Seq(Range(a.subs))
    BY <1>2, SeqDomain, Zenon DEF IsSeq
  <2>2. subs \in Seq(Range(a.subs) \cup {s})
    BY <2>1
  <2>3. /\ subs = [i \in 1 .. Len(a.subs) + 1 |-> subs[i]] /\ Len(a.subs) + 1 \in Nat
        /\ \A i \in 1 .. Len(a.subs) + 1 : subs[i] = s \/ \E k \in DOMAIN a.subs : subs[i] = a.subs[k]
    BY <2>1, <2>2
  <2> HIDE DEF subs
  <2>4. IsSeq(subs) /\ DOMAIN subs = 1 .. Len(a.subs) + 1
    BY <2>3, MadeSeq, Zenon
  <2> QED
    BY <1>2, <2>3, <2>4, Zenon DEF SubsOK, Ids
<1> HIDE DEF subs
<1>4. back.subs = a.subs
  <2>1. IsApp(b)
    BY <1>2, Zenon DEF IsApp, AppFields
  <2> HIDE DEF b
  <2> QED
    BY <2>1, Zenon DEF IsApp, AppFields
<1> QED
  BY <1>1, <1>3, <1>4, RefusedKeeps, ResubscribeKeeps, Zenon

\* mt_app_replace_subscriptions.
LEMMA ReplaceSubscriptionsKeeps ==
    ASSUME NEW a, Kept(a), Fresh(a), NEW subs, SubsOK(subs),
           NEW f, NEW r \in ReplaceSubscriptions(a, subs, f)
    PROVE  SubOutcome(r, a)
  BY ResubscribeKeeps, Zenon DEF ReplaceSubscriptions

\* mt_app_remove_subscription_by_id.
LEMMA RemoveSubscriptionKeeps ==
    ASSUME NEW a, Kept(a), Fresh(a), NEW i \in DOMAIN a.subs,
           NEW f, NEW r \in RemoveSubscription(a, i, f)
    PROVE  SubOutcome(r, a)
<1> DEFINE subs == RemoveAt(a.subs, i)
           back == [a EXCEPT !.cap = GrowArray(a.cap, Len(a.subs) - 1)]
<1>1. r \in RebuildOrBack([a EXCEPT !.subs = subs], back, f)
  BY Zenon DEF RemoveSubscription
<1>2. /\ IsApp(a) /\ IsSeq(a.subs) /\ (\A k \in DOMAIN a.subs : IsSub(a.subs[k]))
      /\ Ids(a.subs) \subseteq SubNames
  BY Zenon DEF Kept, SubsOK
<1>3. SubsOK(subs)
  <2>1. Len(a.subs) \in Nat /\ DOMAIN a.subs = 1 .. Len(a.subs)
    BY <1>2, SeqDomain, Zenon
  <2>2. /\ IsSeq(subs) /\ DOMAIN subs = 1 .. Len(a.subs) - 1
        /\ \A k \in 1 .. Len(a.subs) - 1 : subs[k] = IF k < i THEN a.subs[k] ELSE a.subs[k + 1]
    BY <1>2, RemoveAtIs, Zenon
  <2> HIDE DEF subs
  <2>3. ASSUME NEW k \in DOMAIN subs PROVE \E n \in DOMAIN a.subs : subs[k] = a.subs[n]
    <3>1. k \in DOMAIN a.subs /\ k + 1 \in DOMAIN a.subs
      BY <2>1, <2>2
    <3> QED
      BY <2>2, <3>1, Zenon
  <2> QED
    BY <1>2, <2>2, <2>3, Zenon DEF SubsOK, Ids
<1> HIDE DEF subs
<1>4. back.subs = a.subs
  BY <1>2, Zenon DEF IsApp, AppFields
<1> QED
  BY <1>1, <1>3, <1>4, ResubscribeKeeps, Zenon

SameButRules(u, s) == IsSub(u) /\ u.id = s.id /\ u.enable = s.enable /\ u.iface = s.iface

\* A fetch changes the rules and times of a subscription.
LEMMA FetchIs ==
    ASSUME NEW s, IsSub(s), NEW list, NEW t, NEW u, u = Fetch(s, list, t)
    PROVE  SameButRules(u, s)
<1> USE DEF SameButRules
<1>1. PICK rules : u = [s EXCEPT !.lastCheck = t]
                   \/ u = [s EXCEPT !.lastCheck = t, !.lastUpdate = t, !.rules = rules]
  BY Zenon DEF Fetch
<1>2. CASE u = [s EXCEPT !.lastCheck = t]
  BY <1>2, Zenon DEF IsSub, SubFields
<1>3. CASE u = [s EXCEPT !.lastCheck = t, !.lastUpdate = t, !.rules = rules]
  BY <1>3, Zenon DEF IsSub, SubFields
<1> QED
  BY <1>1, <1>2, <1>3, Zenon

\* What is published and what rulesets there are does not depend on the times
\* and addresses of subscriptions.
LEMMA SameCopies ==
    ASSUME NEW subs, NEW new, DOMAIN new = DOMAIN subs,
           \A i \in DOMAIN subs : /\ new[i].id = subs[i].id /\ new[i].enable = subs[i].enable
                                  /\ new[i].iface = subs[i].iface /\ new[i].rules = subs[i].rules
    PROVE  /\ Each(RuntimeGroup, new) = Each(RuntimeGroup, subs)
           /\ \A groups : Build(groups, new) = Build(groups, subs)
<1>1. \A i \in DOMAIN subs : RuntimeGroup(new[i]) = RuntimeGroup(subs[i])
  BY Zenon DEF RuntimeGroup
<1>2. [i \in DOMAIN new |-> RuntimeGroup(new[i])] = [i \in DOMAIN subs |-> RuntimeGroup(subs[i])]
  BY <1>1, Zenon
<1> QED
  BY <1>2, Zenon DEF Each, Build

\* Fetches that changed no rules.
LEMMA UnchangedKeeps ==
    ASSUME NEW a, Kept(a), Copied(a), Fresh(a), NEW subs, SubsOK(subs),
           NEW b, b = [a EXCEPT !.subs = subs], DOMAIN subs = DOMAIN a.subs,
           \A i \in DOMAIN subs : /\ subs[i].id = a.subs[i].id /\ subs[i].enable = a.subs[i].enable
                                  /\ subs[i].iface = a.subs[i].iface
                                  /\ subs[i].rules = a.subs[i].rules,
           NEW f, NEW r, r = Result(b, "ok", f)
    PROVE  SubOutcome(r, a)
<1>1. IsApp(a) /\ GroupsOK(a.groups) /\ a.on \subseteq Ids(a.groups)
  BY Zenon DEF Kept
<1>2. /\ IsApp(b) /\ b.subs = subs /\ b.kernel = a.kernel /\ b.stuck = a.stuck
      /\ b.on = a.on /\ b.groups = a.groups /\ b.subrs = a.subrs /\ b.snap = a.snap
  BY <1>1, Zenon DEF IsApp, AppFields
<1>3. Kept(b)
  BY <1>1, <1>2, EditKeeps, Zenon
<1>4. /\ Each(RuntimeGroup, subs) = Each(RuntimeGroup, a.subs)
      /\ Build(a.groups, subs) = Build(a.groups, a.subs)
  BY SameCopies, Zenon
<1>5. Copied(b) /\ Fresh(b)
  BY <1>2, <1>4, Zenon DEF Copied, Fresh
<1>6. r.app = b /\ r.err = "ok"
  BY Zenon DEF Result
<1> QED
  BY <1>2, <1>3, <1>5, <1>6, Zenon DEF SubOutcome

\* Subscriptions with some of them fetched.
LEMMA FetchedOK ==
    ASSUME NEW subs, SubsOK(subs), NEW new, new = [i \in DOMAIN subs |-> new[i]],
           \A i \in DOMAIN subs : IsSub(new[i]) /\ new[i].id = subs[i].id
    PROVE  SubsOK(new) /\ DOMAIN new = DOMAIN subs
<1>1. IsSeq(subs) /\ Ids(subs) \subseteq SubNames
  BY Zenon DEF SubsOK
<1>2. Len(subs) \in Nat /\ DOMAIN subs = 1 .. Len(subs)
  BY <1>1, SeqDomain, Zenon
<1>3. IsSeq(new) /\ DOMAIN new = DOMAIN subs
  BY <1>2, MadeSeq, Zenon
<1> QED
  BY <1>1, <1>3, Zenon DEF SubsOK, Ids

\* mt_app_sync_subscription_by_id.
LEMMA SyncSubscriptionKeeps ==
    ASSUME NEW a, Kept(a), Copied(a), Fresh(a), NEW i \in DOMAIN a.subs,
           NEW url, NEW list, NEW f, NEW r \in SyncSubscription(a, i, url, list, f)
    PROVE  SubOutcome(r, a)
<1>0. PICK u, s, new, b :
         /\ u = Fetch(a.subs[i], list, now) /\ s = [u EXCEPT !.url = url]
         /\ new = [a.subs EXCEPT ![i] = s] /\ b = [a EXCEPT !.subs = new]
  BY Zenon
<1>1. \/ s.rules = a.subs[i].rules /\ r = Result(b, "ok", f)
      \/ r \in RebuildOrBack(b, a, f)
  BY <1>0, Zenon DEF SyncSubscription
<1>2. SubsOK(a.subs) /\ IsSub(a.subs[i]) /\ a.subs = [k \in DOMAIN a.subs |-> a.subs[k]]
  <2>1. SubsOK(a.subs)
    BY Zenon DEF Kept
  <2>2. a.subs = [k \in DOMAIN a.subs |-> a.subs[k]]
    BY <2>1, SeqDomain DEF SubsOK
  <2> QED
    BY <2>1, <2>2, Zenon DEF SubsOK
<1>3. SameButRules(u, a.subs[i])
  BY <1>0, <1>2, FetchIs, Zenon
<1>4. IsSub(s) /\ s.id = a.subs[i].id /\ s.enable = a.subs[i].enable /\ s.iface = a.subs[i].iface
  BY <1>0, <1>3, Zenon DEF SameButRules, IsSub, SubFields
<1>5. /\ new = [k \in DOMAIN a.subs |-> new[k]] /\ new[i] = s
      /\ \A k \in DOMAIN a.subs : k # i => new[k] = a.subs[k]
  BY <1>0, <1>2, Zenon
<1>6. \A k \in DOMAIN a.subs : IsSub(new[k]) /\ new[k].id = a.subs[k].id
  BY <1>2, <1>4, <1>5, Zenon DEF SubsOK
<1>7. SubsOK(new) /\ DOMAIN new = DOMAIN a.subs
  BY <1>2, <1>5, <1>6, FetchedOK, Zenon
<1>8. CASE s.rules = a.subs[i].rules /\ r = Result(b, "ok", f)
  <2>1. \A k \in DOMAIN new : /\ new[k].id = a.subs[k].id /\ new[k].enable = a.subs[k].enable
                              /\ new[k].iface = a.subs[k].iface
                              /\ new[k].rules = a.subs[k].rules
    BY <1>4, <1>5, <1>7, <1>8, Zenon
  <2> QED
    BY <1>0, <1>7, <1>8, <2>1, UnchangedKeeps, Zenon
<1>9. CASE r \in RebuildOrBack(b, a, f)
  BY <1>0, <1>7, <1>9, ResubscribeKeeps, Zenon
<1> QED
  BY <1>1, <1>8, <1>9, Zenon

\* mt_app_sync_due_subscriptions.
LEMMA SyncDueKeeps ==
    ASSUME NEW a, Kept(a), Copied(a), Fresh(a), NEW list,
           DOMAIN list \subseteq DOMAIN a.subs, NEW f, NEW r \in SyncDue(a, list, f)
    PROVE  SubOutcome(r, a)
<1> DEFINE new == [i \in DOMAIN a.subs |-> IF i \in DOMAIN list THEN Fetch(a.subs[i], list[i], now)
                                           ELSE a.subs[i]]
           b == [a EXCEPT !.subs = new]
<1>1. \/ (\A i \in DOMAIN list : b.subs[i].rules = a.subs[i].rules) /\ r = Result(b, "ok", f)
      \/ r \in RebuildOrBack(b, a, f)
  BY Zenon DEF SyncDue
<1>2. IsApp(a) /\ SubsOK(a.subs) /\ \A i \in DOMAIN a.subs : IsSub(a.subs[i])
  BY Zenon DEF Kept, SubsOK
<1>3. \A i \in DOMAIN a.subs : /\ i \in DOMAIN list => new[i] = Fetch(a.subs[i], list[i], now)
                               /\ i \notin DOMAIN list => new[i] = a.subs[i]
  BY Zenon
<1>4. new = [i \in DOMAIN a.subs |-> new[i]]
  BY Zenon
<1>5. b.subs = new
  BY <1>2, Zenon DEF IsApp, AppFields
<1> HIDE DEF new
<1>6. ASSUME NEW i \in DOMAIN a.subs
      PROVE  /\ IsSub(new[i]) /\ new[i].id = a.subs[i].id /\ new[i].enable = a.subs[i].enable
             /\ new[i].iface = a.subs[i].iface
  <2>1. CASE i \in DOMAIN list
    <3>1. SameButRules(new[i], a.subs[i])
      BY <1>2, <1>3, <2>1, FetchIs, Zenon
    <3> QED
      BY <3>1, Zenon DEF SameButRules
  <2>2. CASE i \notin DOMAIN list
    BY <1>2, <1>3, <2>2, Zenon
  <2> QED
    BY <2>1, <2>2, Zenon
<1>7. SubsOK(new) /\ DOMAIN new = DOMAIN a.subs
  BY <1>2, <1>4, <1>6, FetchedOK, Zenon
<1>8. CASE (\A i \in DOMAIN list : b.subs[i].rules = a.subs[i].rules) /\ r = Result(b, "ok", f)
  <2>1. \A i \in DOMAIN new : /\ new[i].id = a.subs[i].id /\ new[i].enable = a.subs[i].enable
                              /\ new[i].iface = a.subs[i].iface
                              /\ new[i].rules = a.subs[i].rules
    BY <1>3, <1>5, <1>6, <1>7, <1>8, Zenon
  <2> QED
    BY <1>7, <1>8, <2>1, UnchangedKeeps, Zenon
<1>9. CASE r \in RebuildOrBack(b, a, f)
  BY <1>7, <1>9, ResubscribeKeeps, Zenon
<1> QED
  BY <1>1, <1>8, <1>9, Zenon

-----------------------------------------------------------------------------
\* Operations on groups

\* The configuration is followed by the snapshot, the rulesets and the kernel.
Good(a) == Kept(a) /\ Copied(a) /\ Fresh(a)

\* Groups that are told apart by their identifiers.
LEMMA DistinctGroups ==
    ASSUME NEW gs, IsSeq(gs), Distinct(gs)
    PROVE  Unambiguous(gs)
<1>1. Len(gs) \in Nat /\ DOMAIN gs = 1 .. Len(gs)
  BY SeqDomain, Zenon
<1> DEFINE D == 1 .. Len(gs)
           F == [i \in D |-> gs[i].id]
<1>2. IsFiniteSet(D) /\ Cardinality(D) = Len(gs)
  <2>1. 1 \in Int /\ Len(gs) \in Int
    BY <1>1
  <2>2. IsFiniteSet(D) /\ Cardinality(D) = IF 1 > Len(gs) THEN 0 ELSE Len(gs) - 1 + 1
    BY <2>1, FS_Interval, Zenon
  <2> QED
    BY <1>1, <2>2
<1>3. F \in Surjection(D, Ids(gs))
  <2>1. F \in [D -> Ids(gs)]
    BY <1>1, Zenon DEF Ids
  <2>2. \A t \in Ids(gs) : \E i \in D : F[i] = t
    BY <1>1, Zenon DEF Ids
  <2> QED
    BY <2>1, <2>2, Zenon DEF Surjection
<1>4. F \in Injection(D, Ids(gs))
  BY <1>2, <1>3, FS_SurjSameCardinalityImpliesInj, FS_Surjection, Zenon DEF Distinct
<1>5. \A i, j \in D : F[i] = F[j] => i = j
  BY <1>4, Zenon DEF Injection, IsInjective
<1> QED
  BY <1>1, <1>5, Zenon DEF Unambiguous

\* mt_app_publish_snapshot.
LEMMA RepublishGood ==
    ASSUME NEW a, Kept(a), Copied(a), NEW b, b = Republish(a)
    PROVE  Good(b) /\ b.groups = a.groups /\ b.on = a.on /\ b.subs = a.subs
<1>1. IsApp(a) /\ GroupsOK(a.groups) /\ SubsOK(a.subs) /\ a.on \subseteq Ids(a.groups)
  BY Zenon DEF Kept
<1>2. /\ IsApp(b) /\ Fresh(b) /\ b.kernel = a.kernel /\ b.stuck = a.stuck
      /\ b.groups = a.groups /\ b.on = a.on /\ b.subs = a.subs /\ b.subrs = a.subrs
  BY <1>1, Zenon DEF Republish, Fresh, IsApp, AppFields
<1>3. Kept(b)
  BY <1>1, <1>2, EditKeeps, Zenon
<1>4. Copied(b)
  BY <1>2, Zenon DEF Copied
<1> QED
  BY <1>2, <1>3, <1>4, Zenon DEF Good

\* Some groups are disabled.
LEMMA DisableGood ==
    ASSUME NEW a, Good(a), NEW gs, gs \subseteq Range(a.groups),
           NEW b, b = DisableGroups(a, gs)
    PROVE  Good(b) /\ b.groups = a.groups /\ b.subs = a.subs /\ SwitchedOff(b, a, gs)
<1>1. /\ Kept(b) /\ SwitchedOff(b, a, gs)
      /\ b.groups = a.groups /\ b.subs = a.subs /\ b.subrs = a.subrs /\ b.snap = a.snap
  BY DisableKeeps, Zenon DEF Good
<1> QED
  BY <1>1, Zenon DEF Good, Copied, Fresh

\* Some groups are enabled, the configuration having changed.
LEMMA EnableGood ==
    ASSUME NEW a, Kept(a), Copied(a), NEW gs, gs \subseteq Range(a.groups),
           NEW b, b = Republish(EnableGroups(a, gs))
    PROVE  Good(b) /\ b.groups = a.groups /\ b.subs = a.subs
<1>1. PICK m : m = EnableGroups(a, gs)
  BY Zenon
<1>2. Kept(m) /\ m.groups = a.groups /\ m.subs = a.subs /\ m.subrs = a.subrs
  BY <1>1, EnableKeeps, ZenonT(30)
<1>3. Copied(m)
  BY <1>2, Zenon DEF Copied
<1> QED
  BY <1>1, <1>2, <1>3, RepublishGood, Zenon

\* The groups gs have the enabled ones of a, switched as they are.
SameSwitches(gs, a) ==
    \A id \in a.on : /\ id \in Ids(gs)
                     /\ id \in Wanted(Range(gs)) <=> id \in Wanted(Range(a.groups))

\* Groups are replaced by others that agree with them on what is enabled.
LEMMA RegroupKeeps ==
    ASSUME NEW a, Kept(a), Copied(a), NEW gs, GroupsOK(gs), SameSwitches(gs, a),
           NEW b, b = [a EXCEPT !.groups = gs]
    PROVE  Kept(b) /\ Copied(b)
<1>1. IsApp(a) /\ SubsOK(a.subs)
  BY Zenon DEF Kept
<1>2. /\ IsApp(b) /\ b.groups = gs /\ b.kernel = a.kernel /\ b.stuck = a.stuck
      /\ b.on = a.on /\ b.subs = a.subs /\ b.subrs = a.subrs
  BY <1>1, Zenon DEF IsApp, AppFields
<1>3. Kept(b)
  <2>1. b.on \subseteq Ids(b.groups)
    BY <1>2, Zenon DEF SameSwitches
  <2>2. \A id \in a.on : id \in Wanted(Range(b.groups)) <=> id \in Wanted(Range(a.groups))
    BY <1>2, Zenon DEF SameSwitches
  <2> QED
    BY <1>1, <1>2, <2>1, <2>2, EditKeeps, Zenon
<1> QED
  BY <1>2, <1>3, Zenon DEF Copied

\* One group is changed: one that is not enabled, or not its switch.
LEMMA ReplacedGroups ==
    ASSUME NEW a, Kept(a), NEW i \in DOMAIN a.groups, NEW g, IsGroup(g),
           g.id = a.groups[i].id, g.id \notin a.on \/ g.enable = a.groups[i].enable,
           NEW gs, gs = [k \in DOMAIN a.groups |-> gs[k]], gs[i] = g,
           \A k \in DOMAIN a.groups : k # i => gs[k] = a.groups[k]
    PROVE  GroupsOK(gs) /\ SameSwitches(gs, a) /\ DOMAIN gs = DOMAIN a.groups
<1>2. /\ IsSeq(a.groups) /\ (\A k \in DOMAIN a.groups : IsGroup(a.groups[k]))
      /\ Unambiguous(a.groups) /\ Ids(a.groups) \subseteq GroupNames
      /\ a.on \subseteq Ids(a.groups)
  BY Zenon DEF Kept, GroupsOK
<1>3. Len(a.groups) \in Nat /\ DOMAIN a.groups = 1 .. Len(a.groups)
  BY <1>2, SeqDomain, Zenon
<1>5. IsSeq(gs) /\ DOMAIN gs = DOMAIN a.groups
  BY <1>3, MadeSeq, Zenon
<1>6. \A k \in DOMAIN gs : IsGroup(gs[k]) /\ gs[k].id = a.groups[k].id
  BY <1>2, <1>5, Zenon
<1>7. Ids(gs) = Ids(a.groups)
  BY <1>5, <1>6, ZenonT(30) DEF Ids
<1>8. Unambiguous(gs)
  BY <1>2, <1>5, <1>6, Zenon DEF Unambiguous
<1>9. ASSUME NEW id \in a.on
      PROVE  id \in Wanted(Range(gs)) <=> id \in Wanted(Range(a.groups))
  <2>1. \A k \in DOMAIN gs : gs[k].id = id => (gs[k].enable <=> a.groups[k].enable)
    BY <1>5, Zenon
  <2>2. id \in Wanted(Range(gs)) <=> SomeOn(gs, id)
    BY WantedAt, Zenon
  <2>3. id \in Wanted(Range(a.groups)) <=> SomeOn(a.groups, id)
    BY WantedAt, Zenon
  <2> QED
    BY <1>5, <1>6, <2>1, <2>2, <2>3, Zenon DEF SomeOn
<1>10. GroupsOK(gs) /\ SameSwitches(gs, a)
  BY <1>2, <1>5, <1>6, <1>7, <1>8, <1>9, Zenon DEF GroupsOK, SameSwitches
<1> QED
  BY <1>5, <1>10, Zenon

\* One group is replaced.
IsReplaced(b, a, i, g) == b = [a EXCEPT !.groups[i] = g]

\* A group is replaced by one of the same identifier, switched as it was unless
\* it is disabled.
LEMMA ReplaceGroupKeeps ==
    ASSUME NEW a, Kept(a), Copied(a), NEW i \in DOMAIN a.groups, NEW g, IsGroup(g),
           g.id = a.groups[i].id, g.id \notin a.on \/ g.enable = a.groups[i].enable,
           NEW b, IsReplaced(b, a, i, g)
    PROVE  Kept(b) /\ Copied(b) /\ i \in DOMAIN b.groups /\ b.groups[i] = g
<1>1. PICK gs : gs = [a.groups EXCEPT ![i] = g]
  BY Zenon
<1>2. a.groups = [k \in DOMAIN a.groups |-> a.groups[k]]
  BY SeqDomain DEF Kept, GroupsOK
<1>3. /\ gs = [k \in DOMAIN a.groups |-> gs[k]] /\ gs[i] = g
      /\ \A k \in DOMAIN a.groups : k # i => gs[k] = a.groups[k]
  BY <1>1, <1>2, Zenon
<1>4. GroupsOK(gs) /\ SameSwitches(gs, a) /\ DOMAIN gs = DOMAIN a.groups
  BY <1>3, ReplacedGroups, Zenon
<1>5. PICK c : c = [a EXCEPT !.groups = gs]
  BY Zenon
<1>6. b = c
  BY <1>1, <1>5, Zenon DEF IsReplaced
<1>7. Kept(c) /\ Copied(c)
  BY <1>4, <1>5, RegroupKeeps, Zenon
<1>8. c.groups = gs
  BY <1>5, Zenon DEF Kept, IsApp, AppFields
<1> QED
  BY <1>3, <1>4, <1>6, <1>7, <1>8, Zenon

\* A group that is not enabled is removed.
LEMMA RemoveGroupGood ==
    ASSUME NEW a, Kept(a), Copied(a), NEW i \in DOMAIN a.groups, a.groups[i].id \notin a.on,
           NEW b, b = RemoveGroup(a, i)
    PROVE  Good(b)
<1>0. PICK gs, c : gs = RemoveAt(a.groups, i) /\ c = [a EXCEPT !.groups = gs]
  BY Zenon
<1>1. /\ IsSeq(a.groups) /\ (\A k \in DOMAIN a.groups : IsGroup(a.groups[k]))
      /\ Unambiguous(a.groups) /\ Ids(a.groups) \subseteq GroupNames
      /\ a.on \subseteq Ids(a.groups)
  BY Zenon DEF Kept, GroupsOK
<1>2. Len(a.groups) \in Nat /\ DOMAIN a.groups = 1 .. Len(a.groups)
  BY <1>1, SeqDomain, Zenon
<1>3. /\ IsSeq(gs) /\ DOMAIN gs = 1 .. Len(a.groups) - 1
      /\ \A k \in 1 .. Len(a.groups) - 1 :
            gs[k] = IF k < i THEN a.groups[k] ELSE a.groups[k + 1]
  BY <1>0, <1>1, RemoveAtIs, Zenon
<1> DEFINE from == [k \in DOMAIN gs |-> IF k < i THEN k ELSE k + 1]
<1>4. \A k \in DOMAIN gs : from[k] \in DOMAIN a.groups /\ from[k] # i /\ gs[k] = a.groups[from[k]]
  <2>1. ASSUME NEW k \in DOMAIN gs PROVE from[k] \in DOMAIN a.groups /\ from[k] # i
    BY <1>2, <1>3
  <2> QED
    BY <1>3, <2>1, Zenon
<1>5. \A k, l \in DOMAIN gs : from[k] = from[l] => k = l
  BY <1>2, <1>3
<1>6. ASSUME NEW n \in DOMAIN a.groups, n # i PROVE \E k \in DOMAIN gs : from[k] = n
  <2>1. CASE n < i
    <3>1. n \in DOMAIN gs
      BY <1>2, <1>3, <2>1
    <3> QED
      BY <2>1, <3>1, Zenon
  <2>2. CASE ~(n < i)
    <3>1. n - 1 \in DOMAIN gs /\ ~(n - 1 < i) /\ (n - 1) + 1 = n
      BY <1>2, <1>3, <1>6, <2>2
    <3>2. from[n - 1] = (n - 1) + 1
      BY <3>1, Zenon
    <3> QED
      BY <3>1, <3>2, Zenon
  <2> QED
    BY <2>1, <2>2, Zenon
<1> HIDE DEF from
<1>7. GroupsOK(gs)
  <2>1. Unambiguous(gs)
    <3>1. ASSUME NEW k \in DOMAIN gs, NEW l \in DOMAIN gs, gs[k].id = gs[l].id PROVE k = l
      <4>1. a.groups[from[k]].id = a.groups[from[l]].id
        BY <1>4, <3>1, Zenon
      <4> QED
        BY <1>1, <1>4, <1>5, <4>1, Zenon DEF Unambiguous
    <3> QED
      BY <3>1, Zenon DEF Unambiguous
  <2>2. \A k \in DOMAIN gs : IsGroup(gs[k]) /\ gs[k].id \in GroupNames
    BY <1>1, <1>4, Zenon DEF Ids
  <2>3. Ids(gs) \subseteq GroupNames
    BY <2>2, Zenon DEF Ids
  <2> QED
    BY <1>3, <2>1, <2>2, <2>3, Zenon DEF GroupsOK
<1>8. ASSUME NEW id \in a.on
      PROVE  id \in Ids(gs) /\ (id \in Wanted(Range(gs)) <=> id \in Wanted(Range(a.groups)))
  <2>1. \A n \in DOMAIN a.groups : a.groups[n].id = id => n # i
    BY Zenon
  <2>2. id \in Wanted(Range(gs)) <=> SomeOn(gs, id)
    BY WantedAt, Zenon
  <2>3. id \in Wanted(Range(a.groups)) <=> SomeOn(a.groups, id)
    BY WantedAt, Zenon
  <2>4. id \in Ids(gs)
    <3>1. PICK n \in DOMAIN a.groups : a.groups[n].id = id
      BY <1>1, Zenon DEF Ids
    <3>2. PICK k \in DOMAIN gs : from[k] = n
      BY <1>6, <2>1, <3>1, Zenon
    <3> QED
      BY <1>4, <3>1, <3>2, Zenon DEF Ids
  <2>5. SomeOn(gs, id) => SomeOn(a.groups, id)
    BY <1>4, Zenon DEF SomeOn
  <2>6. ASSUME NEW n \in DOMAIN a.groups, a.groups[n].enable, a.groups[n].id = id
        PROVE  SomeOn(gs, id)
    <3>1. PICK k \in DOMAIN gs : from[k] = n
      BY <1>6, <2>1, <2>6, Zenon
    <3> QED
      BY <1>4, <2>6, <3>1, Zenon DEF SomeOn
  <2>7. SomeOn(a.groups, id) => SomeOn(gs, id)
    BY <2>6, Zenon DEF SomeOn
  <2> QED
    BY <2>2, <2>3, <2>4, <2>5, <2>7, Zenon
<1>9. Kept(c) /\ Copied(c)
  <2>1. SameSwitches(gs, a)
    BY <1>8, Zenon DEF SameSwitches
  <2> QED
    BY <1>0, <1>7, <2>1, RegroupKeeps, Zenon
<1> QED
  BY <1>0, <1>9, RepublishGood, Zenon DEF RemoveGroup

\* A group is appended.
LEMMA AppendedGroups ==
    ASSUME NEW a, Kept(a), NEW g, IsGroup(g), g.id \in GroupNames, g.id \notin Ids(a.groups),
           NEW gs, gs = Append(a.groups, g)
    PROVE  GroupsOK(gs) /\ SameSwitches(gs, a) /\ g \in Range(gs)
<1>1. /\ IsSeq(a.groups) /\ (\A k \in DOMAIN a.groups : IsGroup(a.groups[k]))
      /\ Unambiguous(a.groups) /\ Ids(a.groups) \subseteq GroupNames
      /\ a.on \subseteq Ids(a.groups)
  BY Zenon DEF Kept, GroupsOK
<1>2. Len(a.groups) \in Nat /\ DOMAIN a.groups = 1 .. Len(a.groups)
  BY <1>1, SeqDomain, Zenon
<1>3. PICK n : n = Len(a.groups) + 1
  BY Zenon
<1>4. /\ n \in Nat /\ n \notin DOMAIN a.groups /\ n \in 1 .. n
      /\ \A k \in 1 .. n : k \in DOMAIN a.groups \/ k = n
      /\ DOMAIN a.groups \subseteq 1 .. n
  BY <1>2, <1>3
<1>5. /\ gs \in Seq(Range(a.groups) \cup {g}) /\ Len(gs) = n /\ gs[n] = g
      /\ \A k \in DOMAIN a.groups : gs[k] = a.groups[k]
  <2>1. a.groups \in Seq(Range(a.groups) \cup {g})
    BY <1>1 DEF IsSeq
  <2>2. /\ gs \in Seq(Range(a.groups) \cup {g}) /\ Len(gs) = Len(a.groups) + 1
        /\ gs[Len(a.groups) + 1] = g
        /\ \A k \in 1 .. Len(a.groups) : gs[k] = a.groups[k]
    <3>1. PICK S : S = Range(a.groups) \cup {g}
      BY Zenon
    <3>2. a.groups \in Seq(S) /\ g \in S
      BY <2>1, <3>1, Zenon
    <3>3. /\ gs \in Seq(S) /\ Len(gs) = Len(a.groups) + 1 /\ gs[Len(a.groups) + 1] = g
          /\ \A k \in 1 .. Len(a.groups) : gs[k] = a.groups[k]
      BY <1>2, <3>2
    <3> QED
      BY <3>1, <3>3, Zenon
  <2> QED
    BY <1>2, <1>3, <2>2, Zenon
<1>6. gs = [k \in 1 .. n |-> gs[k]]
  BY <1>4, <1>5
<1>7. IsSeq(gs) /\ DOMAIN gs = 1 .. n
  BY <1>4, <1>6, MadeSeq, Zenon
<1>8. \A k \in DOMAIN gs : IsGroup(gs[k]) /\ gs[k].id \in GroupNames
  BY <1>1, <1>4, <1>5, <1>7, Zenon DEF Ids
<1>9. Unambiguous(gs)
  <2>1. \A k \in DOMAIN a.groups : gs[k].id # gs[n].id
    BY <1>5, Zenon DEF Ids
  <2> QED
    <3>1. ASSUME NEW k \in DOMAIN gs, NEW l \in DOMAIN gs, gs[k].id = gs[l].id PROVE k = l
      <4>1. CASE k \in DOMAIN a.groups /\ l \in DOMAIN a.groups
        BY <1>1, <1>5, <3>1, <4>1, Zenon DEF Unambiguous
      <4>2. CASE k = n \/ l = n
        BY <1>4, <1>7, <2>1, <3>1, <4>2, Zenon
      <4> QED
        BY <1>4, <1>7, <4>1, <4>2, Zenon
    <3> QED
      BY <3>1, Zenon DEF Unambiguous
<1>10. GroupsOK(gs)
  BY <1>7, <1>8, <1>9, Zenon DEF GroupsOK, Ids
<1>11. ASSUME NEW id \in a.on
       PROVE  id \in Ids(gs) /\ (id \in Wanted(Range(gs)) <=> id \in Wanted(Range(a.groups)))
  <2>1. id \in Ids(a.groups) /\ g.id # id
    BY <1>1, Zenon
  <2>2. id \in Wanted(Range(gs)) <=> SomeOn(gs, id)
    BY WantedAt, Zenon
  <2>3. id \in Wanted(Range(a.groups)) <=> SomeOn(a.groups, id)
    BY WantedAt, Zenon
  <2>4. SomeOn(gs, id) <=> SomeOn(a.groups, id)
    BY <1>4, <1>5, <1>7, <2>1, Zenon DEF SomeOn
  <2>5. id \in Ids(gs)
    BY <1>4, <1>5, <1>7, <2>1, Zenon DEF Ids
  <2> QED
    BY <2>2, <2>3, <2>4, <2>5, Zenon
<1>12. g \in Range(gs)
  BY <1>4, <1>5, <1>7, Zenon DEF Range
<1> QED
  BY <1>10, <1>11, <1>12, Zenon DEF SameSwitches

\* mt_ruleset_enable fails for a group that is in no registry: what it had set
\* up is removed again, and with it what was stuck under its identifier.
LEMMA FailedEnableGood ==
    ASSUME NEW a, Good(a), NEW g, g.id \in GroupNames, g.id \notin Ids(a.groups),
           NEW b, b = Release(Hold(a, {g}), {g})
    PROVE  Good(b)
<1>0. PICK m, W : W = Wanted({g}) /\ m = Hold(a, {g})
  BY Zenon
<1>1. /\ Kept(a) /\ IsApp(a) /\ GroupsOK(a.groups) /\ SubsOK(a.subs) /\ a.on \subseteq Ids(a.groups)
      /\ Wanted(Range(a.subrs)) \subseteq SubNames /\ (IdsApart => Exact(a))
  BY Zenon DEF Good, Kept
<1>2. /\ IsApp(m) /\ m.kernel = a.kernel \cup W /\ m.stuck = a.stuck \ W
      /\ m.groups = a.groups /\ m.on = a.on /\ m.subs = a.subs
      /\ m.subrs = a.subrs /\ m.snap = a.snap
  BY <1>0, <1>1, Zenon DEF Hold, IsApp, AppFields
<1>3. b = Release(m, {g})
  BY <1>0, Zenon
<1>4. /\ IsApp(b) /\ b.kernel = (a.kernel \cup W) \ W /\ b.stuck = a.stuck \ W
      /\ b.groups = a.groups /\ b.on = a.on /\ b.subs = a.subs
      /\ b.subrs = a.subrs /\ b.snap = a.snap
  BY <1>0, <1>2, <1>3, Zenon DEF Release, IsApp, AppFields
<1>5. \A id \in W : id = g.id
  BY <1>0, Zenon DEF Wanted
<1>6. IdsApart => Held(a) \cap W = {}
  BY <1>1, <1>5, Zenon DEF Held, HeldByGroups, IdsApart
<1>7. Held(b) = Held(a)
  BY <1>4, Zenon DEF Held, HeldByGroups
<1>8. IdsApart => Exact(b)
  <2>1. PICK K, S, H : K = a.kernel /\ S = a.stuck /\ H = Held(a)
    BY Zenon
  <2>2. IdsApart => K = H \cup S /\ H \cap S = {} /\ H \cap W = {}
    BY <1>1, <1>6, <2>1, Zenon DEF Exact
  <2>3. IdsApart => (K \cup W) \ W = H \cup (S \ W) /\ H \cap (S \ W) = {}
    BY <2>2
  <2> QED
    BY <1>4, <1>7, <2>1, <2>3, Zenon DEF Exact
<1>9. Kept(b)
  BY <1>1, <1>4, <1>8, Zenon DEF Kept
<1> QED
  BY <1>4, <1>9, Zenon DEF Good, Copied, Fresh

\* mt_app_add_group.
LEMMA AddGroupGood ==
    ASSUME NEW a, Good(a), NEW g, IsGroup(g), g.id \in GroupNames,
           NEW f, NEW r \in AddGroup(a, g, f)
    PROVE  Good(r.app)
<1>a. PICK gs : gs = Append(a.groups, g)
  BY Zenon
<1>b. PICK b : b = [a EXCEPT !.groups = gs]
  BY Zenon
<1>c. PICK c : c = Republish(EnableGroups(b, {g}))
  BY Zenon
<1>d. PICK d : d = Release(Hold(a, {g}), {g})
  BY Zenon
<1>1. \/ r.app = a
      \/ g.id \notin Ids(a.groups) /\ (r.app = c \/ r.app = d)
  <2>1. \/ r = Result(a, "exist", f) \/ r = Result(a, "inval", f)
        \/ g.id \notin Ids(a.groups) /\ (r = Result(c, "ok", f) \/ r = Result(d, "io", f + 1))
    BY <1>a, <1>b, <1>c, <1>d, Zenon DEF AddGroup, Faults
  <2> QED
    BY <2>1, ResultIs
<1>2. ASSUME g.id \notin Ids(a.groups) PROVE Good(c)
  <2>0. Kept(a) /\ Copied(a)
    BY Zenon DEF Good
  <2>1. GroupsOK(gs) /\ SameSwitches(gs, a) /\ g \in Range(gs)
    BY <1>a, <1>2, <2>0, AppendedGroups, Zenon
  <2>2. Kept(b) /\ Copied(b)
    BY <1>b, <2>0, <2>1, RegroupKeeps, Zenon
  <2>3. b.groups = gs
    BY <1>b, <2>0, Zenon DEF Kept, IsApp, AppFields
  <2>4. PICK S : S = {g}
    BY Zenon
  <2>5. S \subseteq Range(b.groups)
    BY <2>1, <2>3, <2>4, Zenon
  <2>6. c = Republish(EnableGroups(b, S))
    BY <1>c, <2>4, Zenon
  <2> QED
    BY <2>2, <2>5, <2>6, EnableGood, Zenon
<1>3. ASSUME g.id \notin Ids(a.groups) PROVE Good(d)
  BY <1>d, <1>3, FailedEnableGood, Zenon
<1> QED
  BY <1>1, <1>2, <1>3, Zenon

\* No groups, no subscriptions.
LEMMA NoneOK == GroupsOK(<<>>) /\ SubsOK(<<>>)
<1>1. PICK s : s = <<>>
  BY Zenon
<1>2. IsSeq(s) /\ DOMAIN s = {} /\ Ids(s) = {}
  BY <1>1, NothingIn, Zenon
<1>3. GroupsOK(s) /\ SubsOK(s)
  BY <1>2, Zenon DEF GroupsOK, SubsOK, Unambiguous
<1> QED
  BY <1>1, <1>3, Zenon

\* mt_app_clear_groups.
LEMMA ClearGroupsGood ==
    ASSUME NEW a, Good(a), NEW b, b = ClearGroups(a)
    PROVE  Good(b) /\ b.groups = <<>>
<1>1. PICK S : S = Range(a.groups)
  BY Zenon
<1>2. PICK m : m = DisableGroups(a, S)
  BY Zenon
<1>3. PICK c : c = [m EXCEPT !.groups = <<>>]
  BY Zenon
<1>4. S \subseteq Range(a.groups)
  BY <1>1, Zenon
<1>5. Good(m) /\ SwitchedOff(m, a, S)
  BY <1>2, <1>4, DisableGood, Zenon
<1>6. Kept(m) /\ Copied(m) /\ IsApp(m)
  BY <1>5, Zenon DEF Good, Kept
<1>7. \A id : id \notin m.on
  <2>1. a.on \subseteq Ids(a.groups)
    BY Zenon DEF Good, Kept
  <2>2. \A id \in Ids(a.groups) : id \in IdsOf(S)
    BY <1>1, Zenon DEF Ids, IdsOf, Range
  <2> QED
    BY <1>5, <2>1, <2>2, Zenon DEF SwitchedOff
<1>8. PICK none : none = <<>>
  BY Zenon
<1>9. SameSwitches(none, m)
  BY <1>7, Zenon DEF SameSwitches
<1>10. GroupsOK(none)
  BY <1>8, NoneOK, Zenon
<1>11. Kept(c) /\ Copied(c)
  <2>1. c = [m EXCEPT !.groups = none]
    BY <1>3, <1>8, Zenon
  <2> QED
    BY <1>6, <1>9, <1>10, <2>1, RegroupKeeps, Zenon
<1>12. c.groups = <<>>
  BY <1>3, <1>6, Zenon DEF IsApp, AppFields
<1>13. b = Republish(c)
  BY <1>1, <1>2, <1>3, Zenon DEF ClearGroups
<1> QED
  BY <1>11, <1>12, <1>13, RepublishGood, Zenon

\* The first k of a sequence of groups.
LEMMA FirstGroups ==
    ASSUME NEW gs, IsSeq(gs), NEW k \in 0 .. Len(gs),
           \A i \in DOMAIN gs : IsGroup(gs[i]) /\ gs[i].id \in GroupNames,
           NEW h, h = <<>> \o SubSeq(gs, 1, k), Distinct(h)
    PROVE  GroupsOK(h) /\ Range(h) = {gs[i] : i \in 1 .. k}
<1>1. Len(gs) \in Nat /\ DOMAIN gs = 1 .. Len(gs) /\ gs \in Seq(Range(gs))
  BY SeqDomain, Zenon DEF IsSeq
<1>2. PICK p : p = SubSeq(gs, 1, k)
  BY Zenon
<1>3. p \in Seq(Range(gs)) /\ Len(p) = k /\ \A i \in 1 .. k : p[i] = gs[i]
  BY <1>1, <1>2
<1>4. h = p
  <2>1. <<>> \o p = p
    BY <1>3, SMT
  <2> QED
    BY <1>2, <2>1, Zenon
<1>5. k \in Nat /\ DOMAIN p = 1 .. k /\ p = [i \in 1 .. k |-> p[i]] /\ 1 .. k \subseteq DOMAIN gs
  BY <1>1, <1>3
<1>6. IsSeq(p) /\ DOMAIN p = 1 .. k
  BY <1>5, MadeSeq, Zenon
<1>7. Unambiguous(p)
  BY <1>4, <1>6, DistinctGroups, Zenon
<1>8. \A i \in DOMAIN p : p[i] = gs[i] /\ IsGroup(p[i]) /\ p[i].id \in GroupNames
  BY <1>3, <1>5, <1>6, Zenon
<1>9. GroupsOK(p)
  BY <1>6, <1>7, <1>8, Zenon DEF GroupsOK, Ids
<1>10. Range(p) = {gs[i] : i \in 1 .. k}
  BY <1>6, <1>8, Zenon DEF Range
<1> QED
  BY <1>4, <1>9, <1>10, Zenon

\* Groups are added one after the other.
LEMMA AddGroupsGood ==
    ASSUME NEW a, Good(a), a.groups = <<>>, NEW gs, IsSeq(gs),
           \A i \in DOMAIN gs : IsGroup(gs[i]) /\ gs[i].id \in GroupNames,
           NEW f, NEW r \in AddGroups(a, gs, f)
    PROVE  Good(r.app)
<1> DEFINE all(k) == a.groups \o SubSeq(gs, 1, k)
           added(k) == Republish(EnableGroups([a EXCEPT !.groups = all(k)], {gs[i] : i \in 1 .. k}))
<1>1. PICK k \in 0 .. Len(gs) :
         /\ Distinct(all(k))
         /\ \/ r = Result(added(k), "ok", f)
            \/ k # Len(gs) /\ r \in AddGroup(added(k), gs[k + 1], f)
  BY Zenon DEF AddGroups
<1>2. PICK h : h = all(k)
  BY Zenon
<1>3. PICK S : S = {gs[i] : i \in 1 .. k}
  BY Zenon
<1>4. PICK m : m = [a EXCEPT !.groups = h]
  BY Zenon
<1>5. PICK c : c = Republish(EnableGroups(m, S))
  BY Zenon
<1>6. c = added(k)
  BY <1>2, <1>3, <1>4, <1>5, Zenon
<1>7. h = <<>> \o SubSeq(gs, 1, k) /\ Distinct(h)
  BY <1>1, <1>2, Zenon
<1>8. r = Result(c, "ok", f) \/ (k # Len(gs) /\ r \in AddGroup(c, gs[k + 1], f))
  BY <1>1, <1>6, Zenon
<1> HIDE DEF all, added
<1>9. GroupsOK(h) /\ Range(h) = S
  BY <1>3, <1>7, FirstGroups, Zenon
<1>10. Kept(a) /\ Copied(a) /\ IsApp(a) /\ a.on \subseteq Ids(a.groups)
  BY Zenon DEF Good, Kept
<1>11. SameSwitches(h, a)
  <2>1. Ids(a.groups) = {}
    BY NothingIn, Zenon
  <2> QED
    BY <1>10, <2>1, Zenon DEF SameSwitches
<1>12. Kept(m) /\ Copied(m)
  BY <1>4, <1>9, <1>10, <1>11, RegroupKeeps, Zenon
<1>13. m.groups = h
  BY <1>4, <1>10, Zenon DEF IsApp, AppFields
<1>14. S \subseteq Range(m.groups)
  BY <1>9, <1>13, Zenon
<1>15. Good(c)
  BY <1>5, <1>12, <1>14, EnableGood, Zenon
<1>16. CASE r = Result(c, "ok", f)
  <2>1. r.app = c
    BY <1>16 DEF Result
  <2> QED
    BY <1>15, <2>1, Zenon
<1>17. CASE k # Len(gs) /\ r \in AddGroup(c, gs[k + 1], f)
  <2>1. k + 1 \in DOMAIN gs
    <3>1. Len(gs) \in Nat /\ DOMAIN gs = 1 .. Len(gs) /\ k # Len(gs) /\ k \in 0 .. Len(gs)
      BY <1>1, <1>17, SeqDomain, Zenon
    <3>2. k + 1 \in 1 .. Len(gs)
      BY <3>1, NextPlace, Zenon
    <3> QED
      BY <3>1, <3>2, Zenon
  <2>2. PICK g : g = gs[k + 1]
    BY Zenon
  <2>3. IsGroup(g) /\ g.id \in GroupNames /\ r \in AddGroup(c, g, f)
    BY <1>17, <2>1, <2>2, Zenon
  <2> QED
    BY <1>15, <2>3, AddGroupGood, Zenon
<1> QED
  BY <1>8, <1>16, <1>17, Zenon

\* Some groups are enabled, the configuration being what is published.
LEMMA EnableAgainGood ==
    ASSUME NEW a, Good(a), NEW gs, gs \subseteq Range(a.groups),
           NEW b, b = EnableGroups(a, gs)
    PROVE  Good(b)
<1>1. Kept(b) /\ b.groups = a.groups /\ b.subs = a.subs /\ b.subrs = a.subrs /\ b.snap = a.snap
  BY EnableKeeps, ZenonT(30) DEF Good
<1> QED
  BY <1>1, Zenon DEF Good, Copied, Fresh

\* mt_ruleset_disable fails: what the group holds is stuck.
LEMMA StuckGood ==
    ASSUME Good(app), NEW i \in DOMAIN app.groups, NEW r \in Stuck(i)
    PROVE  Good(r.app)
<1>0. PICK a, g, b, N : /\ a = app /\ g = app.groups[i] /\ N = {g.id}
                        /\ b = [a EXCEPT !.on = a.on \ N, !.stuck = a.stuck \cup N]
  BY Zenon
<1>1. g.id \in a.on /\ g.enable /\ r = Result(b, "io", faults + 1)
  BY <1>0, Zenon DEF Stuck, Faults
<1>2. /\ Good(a) /\ IsApp(a) /\ GroupsOK(a.groups) /\ SubsOK(a.subs) /\ a.on \subseteq Ids(a.groups)
      /\ Ids(a.groups) \subseteq GroupNames
      /\ Wanted(Range(a.subrs)) \subseteq SubNames /\ (IdsApart => Exact(a))
  BY <1>0, Zenon DEF Good, Kept, GroupsOK
<1>3. /\ IsApp(b) /\ b.kernel = a.kernel /\ b.on = a.on \ N /\ b.stuck = a.stuck \cup N
      /\ b.groups = a.groups /\ b.subs = a.subs /\ b.subrs = a.subrs /\ b.snap = a.snap
  BY <1>0, <1>2, Zenon DEF IsApp, AppFields
<1> DEFINE H == HeldByGroups(a)
           W == Wanted(Range(a.subrs))
           S == a.stuck
           K == a.kernel
<1>4. Held(a) = H \cup W /\ Held(b) = (H \ N) \cup W
  BY <1>3, Zenon DEF Held, HeldByGroups
<1>5. N \subseteq H
  <2>1. g \in Range(a.groups)
    BY <1>0, Zenon DEF Range
  <2>2. g.id \in Wanted(Range(a.groups))
    BY <1>1, <2>1, WantedIs, Zenon
  <2> QED
    BY <1>0, <1>1, <2>2, Zenon DEF HeldByGroups
<1>6. IdsApart => H \cap W = {}
  BY <1>2, Zenon DEF HeldByGroups, IdsApart
<1>7. IdsApart => K = (H \cup W) \cup S /\ (H \cup W) \cap S = {}
  BY <1>2, <1>4, Zenon DEF Exact
<1> HIDE DEF H, W, S, K
<1>8. IdsApart => K = ((H \ N) \cup W) \cup (S \cup N) /\ ((H \ N) \cup W) \cap (S \cup N) = {}
  BY <1>5, <1>6, <1>7
<1>9. IdsApart => Exact(b)
  BY <1>3, <1>4, <1>8, Zenon DEF Exact, H, W, S, K
<1>10. b.on \subseteq Ids(b.groups)
  BY <1>2, <1>3, Zenon
<1>11. Kept(b)
  BY <1>2, <1>3, <1>9, <1>10, Zenon DEF Kept
<1>12. Good(b)
  BY <1>2, <1>3, <1>11, Zenon DEF Good, Copied, Fresh
<1>13. r.app = b
  BY <1>1 DEF Result
<1> QED
  BY <1>12, <1>13, Zenon

-----------------------------------------------------------------------------
\* Requests

\* mt_id_random.
LEMMA RandomIdIn ==
    ASSUME NEW draw, draw \in Seq(Range(draw)) \ {<<>>}, NEW used, NEW k
    PROVE  RandomId(used, draw, k) \in Range(draw)
<1>1. DOMAIN draw = 1 .. Len(draw) /\ Len(draw) \in DOMAIN draw
  <2>1. Len(draw) \in Nat /\ DOMAIN draw = 1 .. Len(draw)
    BY SeqDomain, Zenon DEF IsSeq
  <2>2. Len(draw) \in Nat \ {0}
    BY SMT
  <2>3. Len(draw) \in 1 .. Len(draw)
    BY <2>2
  <2> QED
    BY <2>1, <2>3, Zenon
<1> DEFINE fresh == {i \in DOMAIN draw : draw[i] \notin used}
           at == {i \in fresh : Cardinality({j \in fresh : j <= i}) = k}
           n == IF at = {} THEN Len(draw) ELSE CHOOSE i \in at : TRUE
<1>2. n \in DOMAIN draw
  <2>1. CASE at = {}
    BY <1>1, <2>1, Zenon
  <2>2. CASE at # {}
    <3>1. PICK i : i \in at
      BY <2>2, Zenon
    <3>2. (CHOOSE j \in at : TRUE) \in at
      BY <3>1, Zenon
    <3>3. \A j \in at : j \in DOMAIN draw
      BY Zenon
    <3>4. n = CHOOSE j \in at : TRUE
      BY <2>2, Zenon
    <3> HIDE DEF at, n
    <3> QED
      BY <3>2, <3>3, <3>4, Zenon
  <2> QED
    BY <2>1, <2>2, Zenon
<1>3. RandomId(used, draw, k) = draw[n]
  BY Zenon DEF RandomId
<1> HIDE DEF n
<1> QED
  BY <1>2, <1>3, Zenon DEF Range

\* group_from_req: the group has the identifier of the one it replaces, the one
\* the request asks for or a random one.
LEMMA GroupFromReqOK ==
    ASSUME NEW q, q.id \in GroupNames \cup {NoId}, NEW old, old = <<>> \/ old[1].id \in GroupNames,
           NEW used, NEW k, NEW g, g = GroupFromReq(q, old, used, k)
    PROVE  IsGroup(g) /\ g.id \in GroupNames /\ (old # <<>> => g.id = old[1].id)
<1>1. PICK id, rules :
         /\ id = IF old # <<>> THEN old[1].id
                 ELSE IF q.id = NoId THEN RandomId(used, GroupIds, k) ELSE q.id
         /\ g = [id |-> id, enable |-> q.enable, rules |-> rules, cap |-> Grown(Len(rules))]
  BY Zenon DEF GroupFromReq
<1>2. id \in GroupNames
  <2>1. RandomId(used, GroupIds, k) \in Range(GroupIds)
    BY DrawAssumption, RandomIdIn, Zenon
  <2>2. RandomId(used, GroupIds, k) \in GroupNames
    BY <2>1, Zenon DEF GroupNames
  <2> QED
    BY <1>1, <2>2, Zenon
<1>3. IsGroup(g) /\ g.id = id
  BY <1>1 DEF IsGroup, GroupFields
<1> QED
  BY <1>1, <1>2, <1>3, Zenon

\* subscription_from_req.
LEMMA SubFromReqOK ==
    ASSUME NEW q, q.id \in SubNames \cup {NoId}, NEW old,
           NEW used, NEW k, NEW s, s = SubFromReq(q, old, used, k)
    PROVE  IsSub(s) /\ s.id \in SubNames
<1>1. PICK id, t, u, rules :
         /\ id = IF q.id = NoId THEN RandomId(used, SubIds, k) ELSE q.id
         /\ s = [id |-> id, enable |-> q.enable, iface |-> q.iface, url |-> q.url,
                 interval |-> q.interval, lastUpdate |-> t, lastCheck |-> u, rules |-> rules]
  BY Zenon DEF SubFromReq
<1>2. id \in SubNames
  <2>1. RandomId(used, SubIds, k) \in Range(SubIds)
    BY DrawAssumption, RandomIdIn, Zenon
  <2>2. RandomId(used, SubIds, k) \in SubNames
    BY <2>1, Zenon DEF SubNames
  <2> QED
    BY <1>1, <2>2, Zenon
<1>3. IsSub(s) /\ s.id = id
  BY <1>1 DEF IsSub, SubFields
<1> QED
  BY <1>2, <1>3, Zenon

\* The group a request is about.
LEMMA ExistingIn ==
    ASSUME NEW s, IsSeq(s), NEW q, NEW old, old = Existing(s, q)
    PROVE  old = <<>> \/ old[1].id \in Ids(s)
<1>1. CASE At(s, q.id) = 0
  BY <1>1, Zenon DEF Existing
<1>2. CASE At(s, q.id) # 0
  <2>1. PICK n : n = At(s, q.id)
    BY Zenon
  <2>2. n \in DOMAIN s
    BY <1>2, <2>1, AtPlace, Zenon
  <2>3. old = <<s[n]>>
    BY <1>2, <2>1, Zenon DEF Existing
  <2>4. old[1] = s[n]
    BY <2>3
  <2> QED
    BY <2>2, <2>4, Zenon DEF Ids
<1> QED
  BY <1>1, <1>2, Zenon

-----------------------------------------------------------------------------
\* The file

\* mt_config_save_buffer: the text has the identifiers of the configuration.
LEMMA PersistOK ==
    ASSUME NEW a, Kept(a), NEW c, c = Persist(a)
    PROVE  ContentOK(c)
<1>1. /\ IsSeq(a.groups) /\ Ids(a.groups) \subseteq GroupNames
      /\ SubsOK(a.subs) /\ IsSeq(a.subs) /\ \A i \in DOMAIN a.subs : IsSub(a.subs[i])
  BY Zenon DEF Kept, GroupsOK, SubsOK
<1>2. PICK gs, ss : /\ gs = [i \in DOMAIN a.groups |-> EmitGroup(a.groups[i])]
                    /\ ss = [i \in DOMAIN a.subs |-> EmitSubscription(a.subs[i])]
  BY Zenon
<1>3. c.groups = gs /\ c.subs = ss
  <2>1. c = [hasGroups |-> TRUE, groups |-> gs, hasSubs |-> TRUE, subs |-> ss]
    BY <1>2, Zenon DEF Persist, Each
  <2> QED
    BY <2>1
<1>4. IsSeq(gs) /\ Ids(gs) \subseteq GroupNames
  <2>1. Len(a.groups) \in Nat /\ DOMAIN a.groups = 1 .. Len(a.groups)
    BY <1>1, SeqDomain, Zenon
  <2>2. gs = [i \in 1 .. Len(a.groups) |-> gs[i]]
    BY <1>2, <2>1, Zenon
  <2>3. IsSeq(gs) /\ DOMAIN gs = DOMAIN a.groups
    BY <2>1, <2>2, MadeSeq, Zenon
  <2>4. \A i \in DOMAIN a.groups : gs[i].id = a.groups[i].id
    BY <1>2, Zenon DEF EmitGroup
  <2> QED
    BY <1>1, <2>3, <2>4, Zenon DEF Ids
<1>5. SubsOK(ss)
  <2>1. ss = [i \in DOMAIN a.subs |-> ss[i]]
    BY <1>2, Zenon
  <2>2. \A i \in DOMAIN a.subs : ss[i] = [a.subs[i] EXCEPT !.lastCheck = 0]
    BY <1>2, Zenon DEF EmitSubscription
  <2>3. \A i \in DOMAIN a.subs : IsSub(ss[i]) /\ ss[i].id = a.subs[i].id
    BY <1>1, <2>2, Zenon DEF IsSub, SubFields
  <2> QED
    BY <1>1, <2>1, <2>3, FetchedOK, Zenon
<1> QED
  BY <1>3, <1>4, <1>5, Zenon DEF ContentOK

\* mt_config_load_buffer: what is loaded from a file that is accepted.
LEMMA LoadedOK ==
    ASSUME NEW c, TextOK(c), Loads(c)
    PROVE  GroupsOK(LoadedGroups(c)) /\ SubsOK(LoadedSubs(c))
<1>1. ContentOK(c) /\ Distinct(c.groups)
  BY Zenon DEF TextOK, Loads
<1>2. IsSeq(c.groups) /\ Ids(c.groups) \subseteq GroupNames /\ SubsOK(c.subs)
  BY <1>1, Zenon DEF ContentOK
<1>3. Unambiguous(c.groups)
  BY <1>1, <1>2, DistinctGroups, Zenon
<1>4. PICK gs : gs = [i \in DOMAIN c.groups |-> LoadGroup(c.groups[i])]
  BY Zenon
<1>5. GroupsOK(gs)
  <2>1. Len(c.groups) \in Nat /\ DOMAIN c.groups = 1 .. Len(c.groups)
    BY <1>2, SeqDomain, Zenon
  <2>2. gs = [i \in 1 .. Len(c.groups) |-> gs[i]]
    BY <1>4, <2>1, Zenon
  <2>3. IsSeq(gs) /\ DOMAIN gs = DOMAIN c.groups
    BY <2>1, <2>2, MadeSeq, Zenon
  <2>4. ASSUME NEW i \in DOMAIN c.groups PROVE IsGroup(gs[i]) /\ gs[i].id = c.groups[i].id
    <3>1. PICK g, n : gs[i] = [id |-> g.id, enable |-> g.enable, rules |-> g.rules, cap |-> n]
                      /\ g = c.groups[i]
      BY <1>4, Zenon DEF LoadGroup
    <3> QED
      BY <3>1 DEF IsGroup, GroupFields
  <2>5. Unambiguous(gs)
    BY <1>3, <2>3, <2>4, Zenon DEF Unambiguous
  <2>6. Ids(gs) \subseteq GroupNames
    BY <1>2, <2>3, <2>4, Zenon DEF Ids
  <2> QED
    BY <2>3, <2>4, <2>5, <2>6, Zenon DEF GroupsOK
<1>6. LoadedGroups(c) = gs \/ LoadedGroups(c) = <<>>
  BY <1>4, Zenon DEF LoadedGroups, Each
<1>7. LoadedSubs(c) = c.subs \/ LoadedSubs(c) = <<>>
  BY Zenon DEF LoadedSubs
<1> QED
  BY <1>2, <1>5, <1>6, <1>7, NoneOK, Zenon

\* A save begins.
LEMMA SaveBeginKeeps ==
    ASSUME FileOK, NEW c, ContentOK(c), SaveBegin(c)
    PROVE  FileOK'
<1>1. file' = file /\ durable' = durable /\ data' = c /\ tmp' = [data |-> Torn, synced |-> FALSE]
  BY Zenon DEF SaveBegin
<1>2. tmp'.data = Torn /\ "data" \in DOMAIN tmp'
  BY <1>1
<1> QED
  BY <1>1, <1>2, Zenon DEF FileOK, TextOK

\* An operator's file.
LEMMA FilesOK ==
    ASSUME NEW c \in Files PROVE ContentOK(c)
<1>1. /\ IsSeq(c.groups) /\ IsSeq(c.subs) /\ \A s \in Range(c.subs) : IsSub(s)
  BY InputAssumption, Zenon DEF IsSeq, IsSub
<1>2. Ids(c.groups) \subseteq GroupNames /\ Ids(c.subs) \subseteq SubNames
  BY Zenon DEF GroupNames, SubNames
<1>3. SubsOK(c.subs)
  BY <1>1, <1>2, Zenon DEF SubsOK, Range
<1> QED
  BY <1>1, <1>2, <1>3, Zenon DEF ContentOK

\* What else may happen to the file.
LEMMA FileStepKeeps ==
    ASSUME FileOK,
           \/ SaveStep \/ SaveFails \/ FileKill \/ FilePowerLoss \/ UNCHANGED fileVars
           \/ \E c \in Files : Edit(c)
    PROVE  FileOK'
<1>0. NoCopy.data = Missing /\ "data" \in DOMAIN NoCopy
  BY DEF NoCopy
<1>1. CASE WriteTmp
  <2>1. tmp'.data = data /\ "data" \in DOMAIN tmp'
    BY <1>1 DEF WriteTmp
  <2> QED
    BY <1>1, <2>1, Zenon DEF WriteTmp, FileOK
<1>2. CASE FsyncTmp
  <2>1. tmp'.data = tmp.data /\ "data" \in DOMAIN tmp'
    BY <1>2 DEF FsyncTmp, FileOK
  <2> QED
    BY <1>2, <2>1, Zenon DEF FsyncTmp, FileOK
<1>3. CASE Rename
  BY <1>0, <1>3, Zenon DEF Rename, FileOK, TextOK
<1>4. CASE SyncDir
  BY <1>4, Zenon DEF SyncDir, FileOK, TextOK
<1>5. CASE SaveFails \/ FileKill
  BY <1>0, <1>5, Zenon DEF SaveFails, FileKill, FileOK, TextOK
<1>6. CASE FilePowerLoss
  <2>1. PICK c \in {file, durable} :
           file' = [data |-> IF c.synced THEN c.data ELSE Torn, synced |-> TRUE]
    BY <1>6, Zenon DEF FilePowerLoss
  <2>2. file'.data = c.data \/ file'.data = Torn
    BY <2>1
  <2>3. TextOK(file'.data)
    BY <2>1, <2>2, Zenon DEF FileOK, TextOK
  <2> QED
    BY <1>0, <1>6, <2>3, Zenon DEF FilePowerLoss, FileOK, TextOK
<1>7. CASE UNCHANGED fileVars
  BY <1>7, Zenon DEF fileVars, FileOK
<1>8. ASSUME NEW c \in Files, Edit(c) PROVE FileOK'
  <2>1. file'.data = c
    BY <1>8 DEF Edit
  <2>2. TextOK(c)
    BY FilesOK, Zenon DEF TextOK
  <2> QED
    BY <1>8, <2>1, <2>2, Zenon DEF Edit, FileOK
<1> QED
  BY <1>1, <1>2, <1>3, <1>4, <1>5, <1>6, <1>7, <1>8, Zenon DEF SaveStep

-----------------------------------------------------------------------------
\* The life of the process

\* No configuration.
IsEmpty(a) ==
    /\ IsApp(a) /\ a.groups = <<>> /\ a.subs = <<>> /\ a.subrs = <<>>
    /\ \A id : id \notin a.on

\* Without a configuration nothing is held but what is stuck.
LEMMA EmptyKept ==
    ASSUME NEW a, IsEmpty(a), IdsApart => a.kernel = a.stuck
    PROVE  Kept(a) /\ Copied(a)
<1>1. /\ IsApp(a) /\ a.groups = <<>> /\ a.subs = <<>> /\ a.subrs = <<>>
      /\ \A id : id \notin a.on
  BY Zenon DEF IsEmpty
<1>2. GroupsOK(a.groups) /\ SubsOK(a.subs)
  BY <1>1, NoneOK, Zenon
<1>3. Wanted(Range(a.subrs)) = {}
  BY <1>1, NothingIn, Zenon
<1>4. \A id : id \notin Held(a)
  BY <1>1, <1>3, Zenon DEF Held, HeldByGroups
<1>5. IdsApart => Exact(a)
  BY <1>4, Zenon DEF Exact
<1>6. Kept(a)
  BY <1>1, <1>2, <1>3, <1>5, Zenon DEF Kept
<1> QED
  BY <1>1, <1>6, Zenon DEF Copied

\* mt_app_destroy.
LEMMA DestroyedIs ==
    ASSUME NEW a, Kept(a), NEW b, b = Destroyed(a)
    PROVE  IsEmpty(b) /\ (IdsApart => b.kernel = b.stuck)
<1>1. PICK S : S = Range(a.groups)
  BY Zenon
<1>2. PICK m : m = DisableGroups(a, S)
  BY Zenon
<1>3. PICK n : n = Release(m, Range(a.subrs))
  BY Zenon
<1>4. S \subseteq Range(a.groups)
  BY <1>1, Zenon
<1>5. Kept(m) /\ SwitchedOff(m, a, S) /\ m.groups = a.groups /\ m.subrs = a.subrs
  BY <1>2, <1>4, DisableKeeps, Zenon
<1>6. \A id : id \notin m.on
  <2>1. a.on \subseteq Ids(a.groups)
    BY Zenon DEF Kept
  <2>2. \A id \in Ids(a.groups) : id \in IdsOf(S)
    BY <1>1, Zenon DEF Ids, IdsOf, Range
  <2> QED
    BY <1>5, <2>1, <2>2, Zenon DEF SwitchedOff
<1>7. IsApp(m) /\ (IdsApart => Exact(m))
  BY <1>5, Zenon DEF Kept
<1> DEFINE W == Wanted(Range(a.subrs))
<1>8. /\ IsApp(n) /\ n.kernel = m.kernel \ W /\ n.stuck = m.stuck /\ n.on = m.on
  BY <1>3, <1>7, Zenon DEF Release, IsApp, AppFields
<1>9. IdsApart => n.kernel = n.stuck
  <2>1. \A id : id \notin HeldByGroups(m)
    BY <1>6, Zenon DEF HeldByGroups
  <2>2. \A id : id \in Held(m) <=> id \in W
    BY <1>5, <2>1, Zenon DEF Held
  <2>3. PICK K, T, H, V : K = m.kernel /\ T = m.stuck /\ H = Held(m) /\ V = W
    BY Zenon
  <2>4. IdsApart => K = H \cup T /\ H \cap T = {}
    BY <1>7, <2>3, Zenon DEF Exact
  <2>5. \A id : id \in H <=> id \in V
    BY <2>2, <2>3, Zenon
  <2>6. IdsApart => K \ V = T
    BY <2>4, <2>5
  <2> QED
    BY <1>8, <2>3, <2>6, Zenon
<1>10. b = [n EXCEPT !.groups = <<>>, !.subs = <<>>, !.cap = 0, !.subrs = <<>>, !.snap = <<>>]
  BY <1>1, <1>2, <1>3, Zenon DEF Destroyed
<1>11. /\ IsApp(b) /\ b.groups = <<>> /\ b.subs = <<>> /\ b.subrs = <<>> /\ b.on = n.on
       /\ b.kernel = n.kernel /\ b.stuck = n.stuck
  BY <1>8, <1>10, Zenon DEF IsApp, AppFields
<1> QED
  BY <1>6, <1>8, <1>9, <1>11, Zenon DEF IsEmpty

\* The process is gone, the kernel holds what it held or nothing.
LEMMA GoneIs ==
    ASSUME NEW a, Kept(a), NEW K, NEW b, b = [Destroyed(a) EXCEPT !.kernel = K, !.stuck = K]
    PROVE  IsEmpty(b) /\ b.kernel = b.stuck
<1>1. PICK c : c = Destroyed(a)
  BY Zenon
<1>2. IsEmpty(c)
  BY <1>1, DestroyedIs, Zenon
<1>3. b = [c EXCEPT !.kernel = K, !.stuck = K]
  BY <1>1, Zenon
<1>4. /\ IsApp(b) /\ b.groups = c.groups /\ b.subs = c.subs /\ b.subrs = c.subrs /\ b.on = c.on
      /\ b.kernel = K /\ b.stuck = K
  BY <1>2, <1>3, Zenon DEF IsEmpty, IsApp, AppFields
<1> QED
  BY <1>2, <1>4, Zenon DEF IsEmpty

\* A process starts with a configuration.
LEMMA BootedGood ==
    ASSUME Kept(app), app.groups = <<>>, app.subrs = <<>>,
           NEW gs, GroupsOK(gs), NEW ss, SubsOK(ss), NEW b, b = Booted(gs, ss)
    PROVE  Good(b)
<1> DEFINE cap == Grown(Len(ss))
           new == Each(RuntimeGroup, ss)
           snap == Build(gs, ss)
<1>1. PICK a : a = [app EXCEPT !.groups = gs, !.subs = ss, !.cap = cap, !.subrs = new, !.snap = snap]
  BY Zenon
<1>2. /\ IsApp(app) /\ (\A id : id \notin app.on) /\ (IdsApart => Exact(app))
      /\ (IdsApart => app.kernel = app.stuck)
  <2>1. IsApp(app) /\ app.on \subseteq Ids(app.groups) /\ (IdsApart => Exact(app))
    BY Zenon DEF Kept
  <2>2. Ids(app.groups) = {} /\ Wanted(Range(app.subrs)) = {}
    BY NothingIn, Zenon
  <2>3. \A id : id \notin Held(app)
    BY <2>1, <2>2, Zenon DEF Held, HeldByGroups
  <2>4. IdsApart => app.kernel = app.stuck
    BY <2>1, <2>3, Zenon DEF Exact
  <2> QED
    BY <2>1, <2>2, <2>4, Zenon
<1>3. /\ IsApp(a) /\ a.groups = gs /\ a.subs = ss /\ a.subrs = new /\ a.snap = snap
      /\ a.on = app.on /\ a.kernel = app.kernel /\ a.stuck = app.stuck
  BY <1>1, <1>2, Zenon DEF IsApp, AppFields
<1>4. b = Hold(EnableGroups(a, Range(gs)), Range(new))
  BY <1>1, <1>3, Zenon DEF Booted
<1>5. PICK N : N = {g.id : g \in Range(gs)}
  BY Zenon
<1>6. PICK d : d = [a EXCEPT !.on = a.on \cup N]
  BY Zenon
<1>7. PICK e : e = Hold(d, Range(gs))
  BY Zenon
<1>8. b = Hold(e, Range(new))
  BY <1>4, <1>5, <1>6, <1>7, Zenon DEF EnableGroups
<1> DEFINE G == Wanted(Range(gs))
           W == Wanted(Range(new))
<1>9. /\ IsApp(d) /\ d.on = a.on \cup N /\ d.groups = gs /\ d.subs = ss /\ d.subrs = new
      /\ d.snap = snap /\ d.kernel = a.kernel /\ d.stuck = a.stuck
  BY <1>3, <1>6, Zenon DEF IsApp, AppFields
<1>10. /\ IsApp(e) /\ e.on = a.on \cup N /\ e.groups = gs /\ e.subs = ss /\ e.subrs = new
       /\ e.snap = snap /\ e.kernel = a.kernel \cup G /\ e.stuck = a.stuck \ G
  BY <1>7, <1>9, Zenon DEF Hold, IsApp, AppFields
<1>11. /\ IsApp(b) /\ b.on = a.on \cup N /\ b.groups = gs /\ b.subs = ss /\ b.subrs = new
       /\ b.snap = snap /\ b.kernel = (a.kernel \cup G) \cup W /\ b.stuck = (a.stuck \ G) \ W
  BY <1>8, <1>10, Zenon DEF Hold, IsApp, AppFields
<1>12. \A id : id \in b.on <=> id \in N
  BY <1>2, <1>3, <1>11, Zenon
<1>13. \A id \in N : id \in Ids(gs)
  BY <1>5, Zenon DEF Ids, Range
<1>14. \A id \in G : id \in N
  BY <1>5, Zenon DEF Wanted
<1>15. \A id : id \in Held(b) <=> id \in G \/ id \in W
  BY <1>11, <1>12, <1>14, Zenon DEF Held, HeldByGroups
<1>16. IdsApart => Exact(b)
  <2>1. PICK K, T, H, U, V : K = a.kernel /\ T = a.stuck /\ H = Held(b) /\ U = G /\ V = W
    BY Zenon
  <2>2. IdsApart => K = T
    BY <1>2, <1>3, <2>1, Zenon
  <2>3. \A id : id \in H <=> id \in U \/ id \in V
    BY <1>15, <2>1, Zenon
  <2>4. IdsApart => (K \cup U) \cup V = H \cup ((T \ U) \ V) /\ H \cap ((T \ U) \ V) = {}
    BY <2>2, <2>3
  <2> QED
    BY <1>11, <2>1, <2>4, Zenon DEF Exact
<1>17. W \subseteq SubNames
  BY <1>1, CopiesWanted, Zenon
<1>18. b.on \subseteq Ids(b.groups)
  BY <1>11, <1>12, <1>13, Zenon
<1>19. Kept(b)
  BY <1>11, <1>16, <1>17, <1>18, Zenon DEF Kept
<1>20. Copied(b) /\ Fresh(b)
  BY <1>1, <1>11, Zenon DEF Copied, Fresh
<1> QED
  BY <1>19, <1>20, Zenon DEF Good

-----------------------------------------------------------------------------
\* Requests

\* The body of RollbackExact.
Rolled ==
    reply'.op \in {"subs", "sync", "tick"} /\ reply'.err # "ok" =>
        app'.subs = app.subs /\ app'.snap = app.snap /\ app'.groups = app.groups

\* The end of a handler or of the timer's callback: r is what it has done.
Answers(r, op) ==
    /\ up /\ up' = up /\ app' = r.app /\ reply' = [op |-> op, err |-> r.err]
    /\ SaveBegin(Persist(r.app)) \/ UNCHANGED fileVars

\* Every handler ends so, after the save it may have been asked for.
LEMMA RespondAnswers ==
    ASSUME NEW op, NEW outcomes, NEW save, Respond(op, outcomes, save)
    PROVE  \E r \in outcomes : Answers(r, op)
  BY Zenon DEF Respond, Answers

\* While the daemon runs, all of it holds.
LEMMA InvGood ==
    ASSUME Inv, up PROVE FileOK /\ Good(app) /\ Kept(app) /\ Copied(app) /\ Fresh(app)
  BY Zenon DEF Inv, Good

\* What is saved is what the operation left.
LEMMA SavedKeeps ==
    ASSUME Inv, NEW a, Kept(a), SaveBegin(Persist(a)) \/ UNCHANGED fileVars
    PROVE  FileOK'
<1>1. FileOK
  BY Zenon DEF Inv
<1>2. CASE SaveBegin(Persist(a))
  <2>1. PICK c : c = Persist(a)
    BY Zenon
  <2>2. ContentOK(c)
    BY <2>1, PersistOK, Zenon
  <2>3. SaveBegin(c)
    BY <1>2, <2>1, Zenon
  <2> QED
    BY <1>1, <2>2, <2>3, SaveBeginKeeps, Zenon
<1>3. CASE UNCHANGED fileVars
  BY <1>1, <1>3, FileStepKeeps, Zenon
<1> QED
  BY <1>2, <1>3, Zenon

\* A step that leaves the daemon running with everything in order.
LEMMA UpKeeps ==
    ASSUME FileOK', up', Good(app') PROVE Inv'
<1>1. Kept(app') /\ Copied(app') /\ Fresh(app')
  BY Zenon DEF Good
<1>2. Kept(app)' /\ Copied(app)' /\ Fresh(app)'
  BY <1>1, Zenon DEF Kept, Copied, Fresh, Exact, Held, HeldByGroups
<1> QED
  BY <1>2, Zenon DEF Inv

\* Handlers of groups.
LEMMA GroupsAnswered ==
    ASSUME Inv, NEW r, Answers(r, "groups"), Good(r.app)
    PROVE  Inv' /\ Rolled
<1>1. /\ up' /\ app' = r.app /\ reply' = [op |-> "groups", err |-> r.err]
      /\ SaveBegin(Persist(r.app)) \/ UNCHANGED fileVars
  BY Zenon DEF Answers
<1>2. PICK b : b = r.app
  BY Zenon
<1>3. Good(b) /\ Kept(b)
  BY <1>2, Zenon DEF Good
<1>4. SaveBegin(Persist(b)) \/ UNCHANGED fileVars
  BY <1>1, <1>2, Zenon
<1>5. FileOK'
  BY <1>3, <1>4, SavedKeeps, Zenon
<1>6. app' = b
  BY <1>1, <1>2, Zenon
<1>7. Inv'
  BY <1>1, <1>3, <1>5, <1>6, UpKeeps, Zenon
<1>8. reply'.op = "groups"
  BY <1>1
<1> QED
  BY <1>7, <1>8 DEF Rolled

\* Handlers of subscriptions, and the timer.
LEMMA SubsAnswered ==
    ASSUME Inv, NEW r, NEW op, Answers(r, op), SubOutcome(r, app)
    PROVE  Inv' /\ Rolled
<1>1. /\ up' /\ app' = r.app /\ reply' = [op |-> op, err |-> r.err]
      /\ SaveBegin(Persist(r.app)) \/ UNCHANGED fileVars
  BY Zenon DEF Answers
<1>2. PICK b : b = r.app
  BY Zenon
<1>3. Good(b) /\ Kept(b)
  BY <1>2, Zenon DEF SubOutcome, Good
<1>4. SaveBegin(Persist(b)) \/ UNCHANGED fileVars
  BY <1>1, <1>2, Zenon
<1>5. FileOK'
  BY <1>3, <1>4, SavedKeeps, Zenon
<1>6. app' = b
  BY <1>1, <1>2, Zenon
<1>7. Inv'
  BY <1>1, <1>3, <1>5, <1>6, UpKeeps, Zenon
<1>8. reply'.err = r.err
  BY <1>1
<1>9. r.err # "ok" => b.subs = app.subs /\ b.snap = app.snap /\ b.groups = app.groups
  BY <1>2, Zenon DEF SubOutcome
<1> QED
  BY <1>6, <1>7, <1>8, <1>9, Zenon DEF Rolled

\* The identifiers requests bring.
LEMMA RequestNames ==
    /\ \A q \in GroupReqs : q.id # BadId => q.id \in GroupNames \cup {NoId}
    /\ \A q \in SubReqs : q.id # BadId => q.id \in SubNames \cup {NoId}
    /\ \A body \in GroupBodies : \A k \in DOMAIN body :
           body[k].id # BadId => body[k].id \in GroupNames \cup {NoId}
    /\ \A body \in SubBodies : \A k \in DOMAIN body :
           body[k].id # BadId => body[k].id \in SubNames \cup {NoId}
<1>1. \A x : x # BadId /\ (x \in {q.id : q \in GroupReqs} \/ x \in UNION {Ids(b) : b \in GroupBodies})
          => x \in GroupNames \cup {NoId}
  <2> DEFINE R == Range(GroupIds) \cup (UNION {Ids(c.groups) : c \in Files})
             Q == {q.id : q \in GroupReqs}
             B == UNION {Ids(b) : b \in GroupBodies}
  <2>1. GroupNames = R \cup ((Q \cup B) \ {NoId, BadId})
    BY Zenon DEF GroupNames
  <2> HIDE DEF R, Q, B
  <2>2. \A x : x # BadId /\ (x \in Q \/ x \in B) => x \in GroupNames \cup {NoId}
    BY <2>1
  <2> QED
    BY <2>2, Zenon DEF Q, B
<1>2. \A x : x # BadId /\ (x \in {q.id : q \in SubReqs} \/ x \in UNION {Ids(b) : b \in SubBodies})
          => x \in SubNames \cup {NoId}
  <2> DEFINE R == Range(SubIds) \cup (UNION {Ids(c.subs) : c \in Files})
             Q == {q.id : q \in SubReqs}
             B == UNION {Ids(b) : b \in SubBodies}
  <2>1. SubNames = R \cup ((Q \cup B) \ {NoId, BadId})
    BY Zenon DEF SubNames
  <2> HIDE DEF R, Q, B
  <2>2. \A x : x # BadId /\ (x \in Q \/ x \in B) => x \in SubNames \cup {NoId}
    BY <2>1
  <2> QED
    BY <2>2, Zenon DEF Q, B
<1>3. ASSUME NEW q \in GroupReqs, q.id # BadId PROVE q.id \in GroupNames \cup {NoId}
  <2>1. q.id \in {p.id : p \in GroupReqs}
    BY Zenon
  <2> QED
    BY <1>1, <1>3, <2>1, Zenon
<1>4. ASSUME NEW body \in GroupBodies, NEW k \in DOMAIN body, body[k].id # BadId
      PROVE  body[k].id \in GroupNames \cup {NoId}
  <2>1. body[k].id \in Ids(body)
    BY Zenon DEF Ids
  <2>2. body[k].id \in UNION {Ids(b) : b \in GroupBodies}
    BY <2>1, Zenon
  <2> QED
    BY <1>1, <1>4, <2>2, Zenon
<1>5. ASSUME NEW q \in SubReqs, q.id # BadId PROVE q.id \in SubNames \cup {NoId}
  <2>1. q.id \in {p.id : p \in SubReqs}
    BY Zenon
  <2> QED
    BY <1>2, <1>5, <2>1, Zenon
<1>6. ASSUME NEW body \in SubBodies, NEW k \in DOMAIN body, body[k].id # BadId
      PROVE  body[k].id \in SubNames \cup {NoId}
  <2>1. body[k].id \in Ids(body)
    BY Zenon DEF Ids
  <2>2. body[k].id \in UNION {Ids(b) : b \in SubBodies}
    BY <2>1, Zenon
  <2> QED
    BY <1>2, <1>6, <2>2, Zenon
<1> QED
  BY <1>3, <1>4, <1>5, <1>6, Zenon

\* PUT /groups.
LEMMA PutGroupsKeeps ==
    ASSUME Inv, NEW body \in GroupBodies, NEW save, PutGroups(body, save)
    PROVE  Inv' /\ Rolled
<1>1. PICK off : off = DisableGroups(app, Range(app.groups))
  BY Zenon
<1>2. PICK new : new = [k \in DOMAIN body |->
                           GroupFromReq(body[k], Existing(app.groups, body[k]),
                                        Ids(app.groups) \cup Ids(body), k)]
  BY Zenon
<1> DEFINE valid == \A q \in Range(body) : GroupReqValid(q, Existing(app.groups, q))
<1>0. PICK outcomes : outcomes = IF valid THEN AddGroups(ClearGroups(off), new, faults)
                                 ELSE {Result(off, "inval", faults)}
  BY Zenon
<1>a. Respond("groups", outcomes, save)
  BY <1>0, <1>1, <1>2, Zenon DEF PutGroups
<1>3. PICK r \in outcomes : Answers(r, "groups")
  BY <1>a, RespondAnswers, Zenon
<1>4. Good(app) /\ Kept(app)
  <2>1. up
    BY <1>3, Zenon DEF Answers
  <2> QED
    BY <2>1, InvGood, Zenon
<1>5. Good(off)
  <2>1. PICK gs : gs = Range(app.groups)
    BY Zenon
  <2>2. gs \subseteq Range(app.groups)
    BY <2>1, Zenon
  <2>3. off = DisableGroups(app, gs)
    BY <1>1, <2>1, Zenon
  <2> QED
    BY <1>4, <2>2, <2>3, DisableGood, Zenon
<1>6. Good(r.app)
  <2>1. CASE ~valid
    <3>1. r = Result(off, "inval", faults)
      BY <1>0, <1>3, <2>1, Zenon
    <3>2. r.app = off
      BY <3>1, ResultIs
    <3> QED
      BY <1>5, <3>2, Zenon
  <2>2. CASE valid
    <3>1. PICK c : c = ClearGroups(off)
      BY Zenon
    <3>2. Good(c) /\ c.groups = <<>>
      BY <1>5, <3>1, ClearGroupsGood, Zenon
    <3>3. r \in AddGroups(c, new, faults)
      BY <1>0, <1>3, <2>2, <3>1, Zenon
    <3>4. IsSeq(body)
      BY InputAssumption, Zenon DEF IsSeq
    <3>5. Len(body) \in Nat /\ DOMAIN body = 1 .. Len(body)
      BY <3>4, SeqDomain, Zenon
    <3>6. new = [k \in 1 .. Len(body) |-> new[k]]
      BY <1>2, <3>5, Zenon
    <3>7. IsSeq(new) /\ DOMAIN new = 1 .. Len(body)
      BY <3>5, <3>6, MadeSeq, Zenon
    <3>8. ASSUME NEW k \in DOMAIN new PROVE IsGroup(new[k]) /\ new[k].id \in GroupNames
      <4>1. k \in DOMAIN body
        BY <3>5, <3>7, Zenon
      <4>2. PICK q : q = body[k]
        BY Zenon
      <4>3. PICK old : old = Existing(app.groups, q)
        BY Zenon
      <4>4. PICK used : used = Ids(app.groups) \cup Ids(body)
        BY Zenon
      <4>5. PICK g : g = new[k]
        BY Zenon
      <4>6. g = GroupFromReq(q, old, used, k)
        BY <1>2, <4>1, <4>2, <4>3, <4>4, <4>5, Zenon
      <4>7. q \in Range(body)
        BY <4>1, <4>2, Zenon DEF Range
      <4>8. q.id # BadId
        BY <2>2, <4>7, Zenon DEF GroupReqValid
      <4>9. q.id \in GroupNames \cup {NoId}
        BY <4>1, <4>2, <4>8, RequestNames, Zenon
      <4>10. IsSeq(app.groups) /\ Ids(app.groups) \subseteq GroupNames
        BY <1>4, Zenon DEF Kept, GroupsOK
      <4>11. old = <<>> \/ old[1].id \in Ids(app.groups)
        BY <4>3, <4>10, ExistingIn, Zenon
      <4>12. old = <<>> \/ old[1].id \in GroupNames
        BY <4>10, <4>11, Zenon
      <4>13. IsGroup(g) /\ g.id \in GroupNames
        BY <4>6, <4>9, <4>12, GroupFromReqOK, Zenon
      <4> QED
        BY <4>5, <4>13, Zenon
    <3> QED
      BY <3>2, <3>3, <3>7, <3>8, AddGroupsGood, Zenon
  <2> QED
    BY <2>1, <2>2, Zenon
<1> QED
  BY <1>3, <1>6, GroupsAnswered, Zenon

\* POST /groups.
LEMMA CreateGroupKeeps ==
    ASSUME Inv, NEW q \in GroupReqs, NEW save, CreateGroup(q, save)
    PROVE  Inv' /\ Rolled
<1>1. PICK old : old = <<>>
  BY Zenon
<1>2. PICK g : g = GroupFromReq(q, old, Ids(app.groups), 1)
  BY Zenon
<1>0. PICK outcomes : outcomes = IF GroupReqValid(q, old) THEN AddGroup(app, g, faults)
                                 ELSE {Result(app, "inval", faults)}
  BY Zenon
<1>a. Respond("groups", outcomes, save)
  BY <1>0, <1>1, <1>2, Zenon DEF CreateGroup
<1>3. PICK r \in outcomes : Answers(r, "groups")
  BY <1>a, RespondAnswers, Zenon
<1>4. Good(app)
  <2>1. up
    BY <1>3, Zenon DEF Answers
  <2> QED
    BY <2>1, InvGood, Zenon
<1>5. Good(r.app)
  <2>1. CASE ~GroupReqValid(q, old)
    <3>1. r = Result(app, "inval", faults)
      BY <1>0, <1>3, <2>1, Zenon
    <3>2. r.app = app
      BY <3>1, ResultIs
    <3> QED
      BY <1>4, <3>2, Zenon
  <2>2. CASE GroupReqValid(q, old)
    <3>1. q.id # BadId
      BY <2>2, Zenon DEF GroupReqValid
    <3>2. q.id \in GroupNames \cup {NoId}
      BY <3>1, RequestNames, Zenon
    <3>3. old = <<>> \/ old[1].id \in GroupNames
      BY <1>1, Zenon
    <3>4. IsGroup(g) /\ g.id \in GroupNames
      BY <1>2, <3>2, <3>3, GroupFromReqOK, Zenon
    <3>5. r \in AddGroup(app, g, faults)
      BY <1>0, <1>3, <2>2, Zenon
    <3> QED
      BY <1>4, <3>4, <3>5, AddGroupGood, Zenon
  <2> QED
    BY <2>1, <2>2, Zenon
<1> QED
  BY <1>3, <1>5, GroupsAnswered, Zenon

\* The i-th group is disabled.
IsOff(off, i) == off = DisableGroups(app, {app.groups[i]})

\* A group of the configuration is disabled.
LEMMA OneDisabled ==
    ASSUME Good(app), NEW i \in DOMAIN app.groups, NEW off, IsOff(off, i)
    PROVE  /\ Good(off) /\ Kept(off) /\ Copied(off) /\ i \in DOMAIN off.groups
           /\ off.groups[i] = app.groups[i] /\ app.groups[i].id \notin off.on
<1>1. PICK gs : gs = {app.groups[i]}
  BY Zenon
<1>2. gs \subseteq Range(app.groups)
  BY <1>1, Zenon DEF Range
<1>3. off = DisableGroups(app, gs)
  BY <1>1, Zenon DEF IsOff
<1>4. Good(off) /\ off.groups = app.groups /\ SwitchedOff(off, app, gs)
  BY <1>2, <1>3, DisableGood, Zenon
<1>5. Kept(off) /\ Copied(off)
  BY <1>4, Zenon DEF Good
<1>6. app.groups[i].id \in IdsOf(gs)
  BY <1>1, Zenon DEF IdsOf
<1>7. app.groups[i].id \notin off.on
  BY <1>4, <1>6, Zenon DEF SwitchedOff
<1> QED
  BY <1>4, <1>5, <1>7, Zenon

\* PUT /groups/{id}.
LEMMA PutGroupKeeps ==
    ASSUME Inv, NEW i \in DOMAIN app.groups, NEW q \in GroupReqs, NEW save, PutGroup(i, q, save)
    PROVE  Inv' /\ Rolled
<1>1. PICK off : off = DisableGroups(app, {app.groups[i]})
  BY Zenon
<1>2. PICK old : old = <<app.groups[i]>>
  BY Zenon
<1>3. PICK g : g = GroupFromReq(q, old, {}, 1)
  BY Zenon
<1>4. PICK mid : mid = [off EXCEPT !.groups[i] = g]
  BY Zenon
<1>5. PICK new : new = Republish(mid)
  BY Zenon
<1>6. PICK enabled : enabled = EnableGroups(new, {new.groups[i]})
  BY Zenon
<1>7. PICK failed : failed = IF new.groups[i].enable
                             THEN {Result(new, "io", faults + 1), Result(enabled, "io", faults + 1)}
                             ELSE {}
  BY Zenon
<1>8. PICK outcomes :
          outcomes = Stuck(i) \cup
                     (IF ~GroupReqValid(q, old) THEN {Result(off, "inval", faults)}
                      ELSE IF app.groups[i].id \in app.on
                      THEN {Result(enabled, "ok", faults)} \cup Faults(faults, failed)
                      ELSE {Result(new, "ok", faults)})
  BY Zenon
<1>9. Respond("groups", outcomes, save)
  BY <1>1, <1>2, <1>3, <1>4, <1>5, <1>6, <1>7, <1>8, Zenon DEF PutGroup
<1>10. PICK r \in outcomes : Answers(r, "groups")
  BY <1>9, RespondAnswers, Zenon
<1>11. Good(app)
  <2>1. up
    BY <1>10, Zenon DEF Answers
  <2> QED
    BY <2>1, InvGood, Zenon
<1>12. /\ Good(off) /\ Kept(off) /\ Copied(off) /\ i \in DOMAIN off.groups
       /\ off.groups[i] = app.groups[i] /\ app.groups[i].id \notin off.on
  <2>1. IsOff(off, i)
    BY <1>1, Zenon DEF IsOff
  <2> QED
    BY <1>11, <2>1, OneDisabled, Zenon
<1>13. ASSUME GroupReqValid(q, old) PROVE Good(new) /\ Good(enabled)
  <2>1. q.id # BadId
    BY <1>13, Zenon DEF GroupReqValid
  <2>2. q.id \in GroupNames \cup {NoId}
    BY <2>1, RequestNames, Zenon
  <2>3. old # <<>> /\ old[1] = app.groups[i]
    BY <1>2
  <2>4. app.groups[i].id \in GroupNames
    <3>1. app.groups[i].id \in Ids(app.groups)
      BY Zenon DEF Ids
    <3> QED
      BY <1>11, <3>1, Zenon DEF Good, Kept, GroupsOK
  <2>5. old = <<>> \/ old[1].id \in GroupNames
    BY <2>3, <2>4, Zenon
  <2>6. IsGroup(g) /\ (old # <<>> => g.id = old[1].id)
    <3>1. PICK used, k : used = {} /\ k = 1
      BY Zenon
    <3>2. g = GroupFromReq(q, old, used, k)
      BY <1>3, <3>1, Zenon
    <3> QED
      BY <2>2, <2>5, <3>2, GroupFromReqOK, ZenonT(30)
  <2>7. g.id = off.groups[i].id /\ g.id \notin off.on
    BY <1>12, <2>3, <2>6, Zenon
  <2>8. IsReplaced(mid, off, i, g)
    BY <1>4, Zenon DEF IsReplaced
  <2>9. Kept(mid) /\ Copied(mid) /\ i \in DOMAIN mid.groups
    BY <1>12, <2>6, <2>7, <2>8, ReplaceGroupKeeps, Zenon
  <2>10. Good(new) /\ new.groups = mid.groups
    BY <1>5, <2>9, RepublishGood, Zenon
  <2>11. PICK gs : gs = {new.groups[i]}
    BY Zenon
  <2>12. gs \subseteq Range(new.groups)
    BY <2>9, <2>10, <2>11, Zenon DEF Range
  <2>13. enabled = EnableGroups(new, gs)
    BY <1>6, <2>11, Zenon
  <2>14. Good(enabled)
    BY <2>10, <2>12, <2>13, EnableAgainGood, Zenon
  <2> QED
    BY <2>10, <2>14, Zenon
<1>14. Good(r.app)
  <2>1. CASE r \in Stuck(i)
    BY <1>11, <2>1, StuckGood, Zenon
  <2>2. CASE r \notin Stuck(i)
    <3>1. CASE ~GroupReqValid(q, old)
      <4>1. r = Result(off, "inval", faults)
        BY <1>8, <1>10, <2>2, <3>1, Zenon
      <4>2. r.app = off
        BY <4>1, ResultIs
      <4> QED
        BY <1>12, <4>2, Zenon
    <3>2. CASE GroupReqValid(q, old)
      <4>1. \E err, f : r = Result(new, err, f) \/ r = Result(enabled, err, f)
        <5>1. /\ r \in {Result(enabled, "ok", faults)} \cup Faults(faults, failed)
                 \/ r = Result(new, "ok", faults)
          BY <1>8, <1>10, <2>2, <3>2, Zenon
        <5>2. r \in Faults(faults, failed) => r \in failed
          BY Zenon DEF Faults
        <5> QED
          BY <1>7, <5>1, <5>2, Zenon
      <4>2. r.app = new \/ r.app = enabled
        BY <4>1 DEF Result
      <4> QED
        BY <1>13, <3>2, <4>2, Zenon
    <3> QED
      BY <3>1, <3>2, Zenon
  <2> QED
    BY <2>1, <2>2, Zenon
<1> QED
  BY <1>10, <1>14, GroupsAnswered, Zenon

\* DELETE /groups/{id}.
LEMMA DeleteGroupKeeps ==
    ASSUME Inv, NEW i \in DOMAIN app.groups, NEW save, DeleteGroup(i, save)
    PROVE  Inv' /\ Rolled
<1>1. PICK off : off = DisableGroups(app, {app.groups[i]})
  BY Zenon
<1>2. PICK new : new = RemoveGroup(off, i)
  BY Zenon
<1>3. PICK outcomes : outcomes = Stuck(i) \cup {Result(new, "ok", faults)}
  BY Zenon
<1>4. Respond("groups", outcomes, save)
  BY <1>1, <1>2, <1>3, Zenon DEF DeleteGroup
<1>5. PICK r \in outcomes : Answers(r, "groups")
  BY <1>4, RespondAnswers, Zenon
<1>6. Good(app)
  <2>1. up
    BY <1>5, Zenon DEF Answers
  <2> QED
    BY <2>1, InvGood, Zenon
<1>7. /\ Kept(off) /\ Copied(off) /\ i \in DOMAIN off.groups
      /\ off.groups[i] = app.groups[i] /\ app.groups[i].id \notin off.on
  <2>1. IsOff(off, i)
    BY <1>1, Zenon DEF IsOff
  <2> QED
    BY <1>6, <2>1, OneDisabled, Zenon
<1>8. off.groups[i].id \notin off.on
  BY <1>7, Zenon
<1>9. Good(new)
  BY <1>2, <1>7, <1>8, RemoveGroupGood, Zenon
<1>10. Good(r.app)
  <2>1. CASE r \in Stuck(i)
    BY <1>6, <2>1, StuckGood, Zenon
  <2>2. CASE r = Result(new, "ok", faults)
    <3>1. r.app = new
      BY <2>2, ResultIs
    <3> QED
      BY <1>9, <3>1, Zenon
  <2> QED
    BY <1>3, <1>5, <2>1, <2>2, Zenon
<1> QED
  BY <1>5, <1>10, GroupsAnswered, Zenon

\* The tail of the handlers of rules.
LEMMA EditRulesKeeps ==
    ASSUME Inv, NEW i \in DOMAIN app.groups, NEW rules, NEW cap, NEW save,
           EditRules(i, rules, cap, save)
    PROVE  Inv' /\ Rolled
<1>1. PICK g : g = [app.groups[i] EXCEPT !.rules = rules, !.cap = cap]
  BY Zenon
<1>2. PICK mid : mid = [app EXCEPT !.groups[i] = g]
  BY Zenon
<1>3. PICK new : new = Republish(mid)
  BY Zenon
<1>4. PICK outcomes :
          outcomes = {Result(new, "ok", faults)} \cup
                     Faults(faults, IF app.groups[i].enable /\ app.groups[i].id \in app.on
                                    THEN {Result(new, "io", faults + 1)} ELSE {})
  BY Zenon
<1>5. Respond("groups", outcomes, save)
  BY <1>1, <1>2, <1>3, <1>4, Zenon DEF EditRules
<1>6. PICK r \in outcomes : Answers(r, "groups")
  BY <1>5, RespondAnswers, Zenon
<1>7. Kept(app) /\ Copied(app)
  BY Zenon DEF Inv
<1>8. IsGroup(app.groups[i])
  BY <1>7, Zenon DEF Kept, GroupsOK
<1>9. IsGroup(g) /\ g.id = app.groups[i].id /\ g.enable = app.groups[i].enable
  BY <1>1, <1>8, Zenon DEF IsGroup, GroupFields
<1>10. IsReplaced(mid, app, i, g)
  BY <1>2, Zenon DEF IsReplaced
<1>11. Kept(mid) /\ Copied(mid)
  BY <1>7, <1>9, <1>10, ReplaceGroupKeeps, Zenon
<1>12. Good(new)
  BY <1>3, <1>11, RepublishGood, Zenon
<1>13. \E err, f : r = Result(new, err, f)
  BY <1>4, <1>6, Zenon DEF Faults
<1>14. r.app = new
  BY <1>13 DEF Result
<1> QED
  BY <1>6, <1>12, <1>14, GroupsAnswered, Zenon

\* PUT /groups/{id}/rules.
LEMMA PutRulesKeeps ==
    ASSUME Inv, NEW i \in DOMAIN app.groups, NEW body, NEW save, PutRules(i, body, save)
    PROVE  Inv' /\ Rolled
<1>1. CASE \E rules, cap : EditRules(i, rules, cap, save)
  BY <1>1, EditRulesKeeps, Zenon
<1>2. CASE Respond("groups", {Result(app, "inval", faults)}, save)
  <2>1. PICK outcomes : outcomes = {Result(app, "inval", faults)}
    BY Zenon
  <2>2. Respond("groups", outcomes, save)
    BY <1>2, <2>1, Zenon
  <2>3. PICK r \in outcomes : Answers(r, "groups")
    BY <2>2, RespondAnswers, Zenon
  <2>4. r = Result(app, "inval", faults)
    BY <2>1, <2>3, Zenon
  <2>5. r.app = app
    BY <2>4, ResultIs
  <2>6. up
    BY <2>3, Zenon DEF Answers
  <2>7. Good(r.app)
    BY <2>5, <2>6, InvGood, Zenon
  <2> QED
    BY <2>3, <2>7, GroupsAnswered, Zenon
<1> QED
  BY <1>1, <1>2, Zenon DEF PutRules

\* A subscription that gets another identifier.
LEMMA RenamedOK ==
    ASSUME NEW s, IsSub(s), NEW used, NEW k, NEW u, u = [s EXCEPT !.id = RandomId(used, SubIds, k)]
    PROVE  IsSub(u) /\ u.id \in SubNames
<1>1. PICK id : id = RandomId(used, SubIds, k)
  BY Zenon
<1>2. PICK draw : draw = SubIds
  BY Zenon
<1>3. draw \in Seq(Range(draw)) \ {<<>>}
  BY <1>2, DrawAssumption, Zenon
<1>4. id = RandomId(used, draw, k)
  BY <1>1, <1>2, Zenon
<1>5. id \in Range(draw)
  BY <1>3, <1>4, RandomIdIn, Zenon
<1>6. id \in SubNames
  BY <1>2, <1>5, Zenon DEF SubNames
<1>7. u = [s EXCEPT !.id = id]
  BY <1>1, Zenon
<1>8. IsSub(u) /\ u.id = id
  BY <1>7, Zenon DEF IsSub, SubFields
<1> QED
  BY <1>6, <1>8, Zenon

\* PUT /subscriptions.
LEMMA PutSubscriptionsKeeps ==
    ASSUME Inv, NEW body \in SubBodies, NEW save, PutSubscriptions(body, save)
    PROVE  Inv' /\ Rolled
<1>1. PICK new : new = [k \in DOMAIN body |->
                           SubFromReq(body[k], Existing(app.subs, body[k]),
                                      Ids(app.subs) \cup Ids(body), k)]
  BY Zenon
<1> DEFINE taken(k) == new[k].id = Zero \/ \E j \in 1 .. k - 1 : new[j].id = new[k].id
<1>2. PICK unique : unique = [k \in DOMAIN new |->
                      IF taken(k) THEN [new[k] EXCEPT !.id = RandomId(Ids(new), SubIds, k)]
                      ELSE new[k]]
  BY Zenon
<1> DEFINE valid == \A q \in Range(body) : q.url # "" /\ q.id # BadId
<1>3. PICK outcomes : outcomes = IF valid THEN ReplaceSubscriptions(app, unique, faults)
                                 ELSE {Result(app, "inval", faults)}
  BY Zenon
<1>4. Respond("subs", outcomes, save)
  BY <1>1, <1>2, <1>3, Zenon DEF PutSubscriptions
<1>5. PICK r \in outcomes : Answers(r, "subs")
  BY <1>4, RespondAnswers, Zenon
<1>6. Kept(app) /\ Copied(app) /\ Fresh(app)
  <2>1. up
    BY <1>5, Zenon DEF Answers
  <2> QED
    BY <2>1, InvGood, Zenon
<1>7. SubOutcome(r, app)
  <2>1. CASE ~valid
    <3>1. r = Result(app, "inval", faults)
      BY <1>3, <1>5, <2>1, Zenon
    <3> QED
      BY <1>6, <3>1, RefusedKeeps, Zenon
  <2>2. CASE valid
    <3>1. IsSeq(body)
      BY InputAssumption, Zenon DEF IsSeq
    <3>2. Len(body) \in Nat /\ DOMAIN body = 1 .. Len(body)
      BY <3>1, SeqDomain, Zenon
    <3>3. DOMAIN new = 1 .. Len(body)
      BY <1>1, <3>2, Zenon
    <3>4. unique = [k \in 1 .. Len(body) |-> unique[k]]
      BY <1>2, <3>3, Zenon
    <3>5. IsSeq(unique) /\ DOMAIN unique = 1 .. Len(body)
      BY <3>2, <3>4, MadeSeq, Zenon
    <3>6. ASSUME NEW k \in DOMAIN unique PROVE IsSub(unique[k]) /\ unique[k].id \in SubNames
      <4>1. k \in DOMAIN body /\ k \in DOMAIN new
        BY <3>2, <3>3, <3>5, Zenon
      <4>2. PICK q : q = body[k]
        BY Zenon
      <4>3. PICK old : old = Existing(app.subs, q)
        BY Zenon
      <4>4. PICK used : used = Ids(app.subs) \cup Ids(body)
        BY Zenon
      <4>5. PICK s : s = new[k]
        BY Zenon
      <4>6. s = SubFromReq(q, old, used, k)
        BY <1>1, <4>1, <4>2, <4>3, <4>4, <4>5, Zenon
      <4>7. q \in Range(body)
        BY <4>1, <4>2, Zenon DEF Range
      <4>8. q.id # BadId
        BY <2>2, <4>7, Zenon
      <4>9. q.id \in SubNames \cup {NoId}
        BY <4>1, <4>2, <4>8, RequestNames, Zenon
      <4>10. IsSub(s) /\ s.id \in SubNames
        BY <4>6, <4>9, SubFromReqOK, Zenon
      <4>11. PICK u : u = unique[k]
        BY Zenon
      <4>12. PICK drawn : drawn = Ids(new)
        BY Zenon
      <4>13. u = s \/ u = [s EXCEPT !.id = RandomId(drawn, SubIds, k)]
        BY <1>2, <4>1, <4>5, <4>11, <4>12, Zenon
      <4>14. IsSub(u) /\ u.id \in SubNames
        <5>1. CASE u = s
          BY <4>10, <5>1, Zenon
        <5>2. CASE u = [s EXCEPT !.id = RandomId(drawn, SubIds, k)]
          BY <4>10, <5>2, RenamedOK, Zenon
        <5> QED
          BY <4>13, <5>1, <5>2, Zenon
      <4> QED
        BY <4>11, <4>14, Zenon
    <3>7. Ids(unique) \subseteq SubNames
      BY <3>6, Zenon DEF Ids
    <3>8. SubsOK(unique)
      BY <3>5, <3>6, <3>7, Zenon DEF SubsOK
    <3>9. r \in ReplaceSubscriptions(app, unique, faults)
      BY <1>3, <1>5, <2>2, Zenon
    <3> QED
      BY <1>6, <3>8, <3>9, ReplaceSubscriptionsKeeps, Zenon
  <2> QED
    BY <2>1, <2>2, Zenon
<1> QED
  BY <1>5, <1>7, SubsAnswered, Zenon

\* POST /subscriptions.
LEMMA CreateSubscriptionKeeps ==
    ASSUME Inv, NEW q \in SubReqs, NEW save, CreateSubscription(q, save)
    PROVE  Inv' /\ Rolled
<1>1. PICK old : old = <<>>
  BY Zenon
<1>2. PICK used : used = Ids(app.subs)
  BY Zenon
<1>3. PICK s : s = SubFromReq(q, old, used, 1)
  BY Zenon
<1>4. PICK outcomes : outcomes = IF q.url # "" /\ q.id # BadId THEN AddSubscription(app, s, faults)
                                 ELSE {Result(app, "inval", faults)}
  BY Zenon
<1>5. Respond("subs", outcomes, save)
  BY <1>1, <1>2, <1>3, <1>4, Zenon DEF CreateSubscription
<1>6. PICK r \in outcomes : Answers(r, "subs")
  BY <1>5, RespondAnswers, Zenon
<1>7. Kept(app) /\ Copied(app) /\ Fresh(app)
  <2>1. up
    BY <1>6, Zenon DEF Answers
  <2> QED
    BY <2>1, InvGood, Zenon
<1>8. SubOutcome(r, app)
  <2>1. CASE r = Result(app, "inval", faults)
    BY <1>7, <2>1, RefusedKeeps, Zenon
  <2>2. CASE q.id # BadId /\ r \in AddSubscription(app, s, faults)
    <3>1. q.id \in SubNames \cup {NoId}
      BY <2>2, RequestNames, Zenon
    <3>2. IsSub(s) /\ s.id \in SubNames
      BY <1>3, <3>1, SubFromReqOK, Zenon
    <3> QED
      BY <1>7, <2>2, <3>2, AddSubscriptionKeeps, Zenon
  <2> QED
    BY <1>4, <1>6, <2>1, <2>2, Zenon
<1> QED
  BY <1>6, <1>8, SubsAnswered, Zenon

\* DELETE /subscriptions/{id}.
LEMMA DeleteSubscriptionKeeps ==
    ASSUME Inv, NEW id, NEW save, DeleteSubscription(id, save)
    PROVE  Inv' /\ Rolled
<1>1. PICK i : i = At(app.subs, id)
  BY Zenon
<1>2. PICK outcomes : outcomes = IF i = 0 THEN {Result(app, "notfound", faults)}
                                 ELSE RemoveSubscription(app, i, faults)
  BY Zenon
<1>3. Respond("subs", outcomes, save)
  BY <1>1, <1>2, Zenon DEF DeleteSubscription
<1>4. PICK r \in outcomes : Answers(r, "subs")
  BY <1>3, RespondAnswers, Zenon
<1>5. Kept(app) /\ Copied(app) /\ Fresh(app)
  <2>1. up
    BY <1>4, Zenon DEF Answers
  <2> QED
    BY <2>1, InvGood, Zenon
<1>6. SubOutcome(r, app)
  <2>1. CASE i = 0
    <3>1. r = Result(app, "notfound", faults)
      BY <1>2, <1>4, <2>1, Zenon
    <3> QED
      BY <1>5, <3>1, RefusedKeeps, Zenon
  <2>2. CASE i # 0
    <3>1. IsSeq(app.subs)
      BY <1>5, Zenon DEF Kept, SubsOK
    <3>2. i \in DOMAIN app.subs
      BY <1>1, <2>2, <3>1, AtPlace, Zenon
    <3>3. r \in RemoveSubscription(app, i, faults)
      BY <1>2, <1>4, <2>2, Zenon
    <3> QED
      BY <1>5, <3>2, <3>3, RemoveSubscriptionKeeps, Zenon
  <2> QED
    BY <2>1, <2>2, Zenon
<1> QED
  BY <1>4, <1>6, SubsAnswered, Zenon

\* POST /subscriptions/{id}/sync.
LEMMA SyncNowKeeps ==
    ASSUME Inv, NEW i \in DOMAIN app.subs, NEW override, NEW list, NEW save,
           SyncNow(i, override, list, save)
    PROVE  Inv' /\ Rolled
<1>1. PICK url : url = IF override = "" THEN app.subs[i].url ELSE override
  BY Zenon
<1>2. PICK fetched : fetched = SyncSubscription(app, i, url, list, faults)
  BY Zenon
<1>3. PICK outcomes : outcomes = IF url = "" THEN {Result(app, "inval", faults)} ELSE fetched
  BY Zenon
<1>4. PICK asked : asked = (save /\ \E r \in fetched : \/ r.app.subs[i].url # app.subs[i].url
                                                       \/ r.app.subs[i].rules # app.subs[i].rules)
  BY Zenon
<1>5. Respond("sync", outcomes, asked)
  BY <1>1, <1>2, <1>3, <1>4, Zenon DEF SyncNow
<1>6. PICK r \in outcomes : Answers(r, "sync")
  BY <1>5, RespondAnswers, Zenon
<1>7. Kept(app) /\ Copied(app) /\ Fresh(app)
  <2>1. up
    BY <1>6, Zenon DEF Answers
  <2> QED
    BY <2>1, InvGood, Zenon
<1>8. SubOutcome(r, app)
  <2>1. CASE r = Result(app, "inval", faults)
    BY <1>7, <2>1, RefusedKeeps, Zenon
  <2>2. CASE r \in SyncSubscription(app, i, url, list, faults)
    BY <1>7, <2>2, SyncSubscriptionKeeps, Zenon
  <2> QED
    BY <1>2, <1>3, <1>6, <2>1, <2>2, Zenon
<1> QED
  BY <1>6, <1>8, SubsAnswered, Zenon

\* The server does not answer.
LEMMA SyncUnansweredKeeps ==
    ASSUME Inv, SyncUnanswered PROVE Inv' /\ Rolled
<1>1. PICK outcomes : outcomes = Faults(faults, {Result(app, "upstream", faults + 1)})
  BY Zenon
<1>2. PICK save : save = FALSE
  BY Zenon
<1>3. Respond("sync", outcomes, save)
  BY <1>1, <1>2, Zenon DEF SyncUnanswered
<1>4. PICK r \in outcomes : Answers(r, "sync")
  BY <1>3, RespondAnswers, Zenon
<1>5. Kept(app) /\ Copied(app) /\ Fresh(app)
  <2>1. up
    BY <1>4, Zenon DEF Answers
  <2> QED
    BY <2>1, InvGood, Zenon
<1>6. r = Result(app, "upstream", faults + 1)
  BY <1>1, <1>4, Zenon DEF Faults
<1>7. SubOutcome(r, app)
  BY <1>5, <1>6, RefusedKeeps, Zenon
<1> QED
  BY <1>4, <1>7, SubsAnswered, Zenon

\* Every request.
LEMMA HandlerKeeps == ASSUME Inv, Handler PROVE Inv' /\ Rolled
<1>1. PICK save \in BOOLEAN :
        \/ \E body \in GroupBodies : PutGroups(body, save)
        \/ \E q \in GroupReqs : CreateGroup(q, save)
        \/ \E i \in DOMAIN app.groups :
              \/ \E q \in GroupReqs : PutGroup(i, q, save)
              \/ DeleteGroup(i, save)
              \/ \E body \in RuleBodies : PutRules(i, body, save)
              \/ \E rules, cap : EditRules(i, rules, cap, save)
        \/ \E body \in SubBodies : PutSubscriptions(body, save)
        \/ \E q \in SubReqs : CreateSubscription(q, save)
        \/ \E id \in Range(SubIds) : DeleteSubscription(id, save)
        \/ \E i \in DOMAIN app.subs, url \in {"", "v"}, list \in Fetched :
              SyncNow(i, url, list, save)
        \/ SyncUnanswered
  BY ZenonT(30) DEF Handler, CreateRule, PutRule, DeleteRule
<1> QED
  BY <1>1, PutGroupsKeeps, CreateGroupKeeps, PutGroupKeeps, DeleteGroupKeeps, PutRulesKeeps,
     EditRulesKeeps, PutSubscriptionsKeeps, CreateSubscriptionKeeps, DeleteSubscriptionKeeps,
     SyncNowKeeps, SyncUnansweredKeeps, Zenon

-----------------------------------------------------------------------------
\* The timer, SIGHUP and the life of the process

\* on_subscription_auto_update_timer.
LEMMA TickKeeps == ASSUME Inv, Tick PROVE Inv' /\ Rolled
<1>1. PICK answered \in SUBSET Due : \E list \in [answered -> Fetched] : \E f :
          \E r \in SyncDue(app, list, f) : Answers(r, "tick")
  BY Zenon DEF Tick, TickReady, Answers
<1>2. PICK list \in [answered -> Fetched] : \E f :
          \E r \in SyncDue(app, list, f) : Answers(r, "tick")
  BY <1>1, Zenon
<1>a. PICK f : \E r \in SyncDue(app, list, f) : Answers(r, "tick")
  BY <1>2, Zenon
<1>3. PICK r \in SyncDue(app, list, f) : Answers(r, "tick")
  BY <1>a, Zenon
<1>4. DOMAIN list \subseteq DOMAIN app.subs
  BY <1>1, <1>2, Zenon DEF Due
<1>5. Kept(app) /\ Copied(app) /\ Fresh(app)
  <2>1. up
    BY <1>3, Zenon DEF Answers
  <2> QED
    BY <2>1, InvGood, Zenon
<1>6. SubOutcome(r, app)
  BY <1>3, <1>4, <1>5, SyncDueKeeps, Zenon
<1> QED
  BY <1>3, <1>6, SubsAnswered, Zenon

\* A step that is no operation on subscriptions.
LEMMA QuietRolls == ASSUME reply' = Quiet PROVE Rolled
  BY DEF Rolled, Quiet

\* reload_config.
LEMMA ReloadKeeps == ASSUME Inv, Reload PROVE Inv' /\ Rolled
<1>1. up /\ up' = up /\ reply' = Quiet /\ UNCHANGED fileVars
  BY Zenon DEF Reload
<1>2. FileOK /\ Good(app)
  BY <1>1, InvGood, Zenon
<1>3. FileOK'
  BY <1>1, <1>2, FileStepKeeps, Zenon
<1>4. PICK c : c = file.data
  BY Zenon
<1>5. PICK groups : groups = IF c.hasGroups
                             THEN AddGroups(ClearGroups(app), LoadedGroups(c), faults)
                             ELSE {Result(app, "ok", faults)}
  BY Zenon
<1>6. PICK both : both = IF c.hasSubs
                         THEN UNION {ReplaceSubscriptions(r.app, LoadedSubs(c), r.faults) : r \in groups}
                         ELSE groups
  BY Zenon
<1>7. Good(app')
  <2>1. CASE app' = app
    BY <1>2, <2>1, Zenon
  <2>2. CASE Loads(c) /\ \E r \in both : app' = r.app
    <3>1. TextOK(c)
      BY <1>2, <1>4, Zenon DEF FileOK
    <3>2. GroupsOK(LoadedGroups(c)) /\ SubsOK(LoadedSubs(c))
      BY <2>2, <3>1, LoadedOK, Zenon
    <3>3. PICK gs : gs = LoadedGroups(c)
      BY Zenon
    <3>4. PICK subs : subs = LoadedSubs(c)
      BY Zenon
    <3>5. SubsOK(subs) /\ GroupsOK(gs)
      BY <3>2, <3>3, <3>4, Zenon
    <3>6. IsSeq(gs) /\ \A i \in DOMAIN gs : IsGroup(gs[i]) /\ gs[i].id \in GroupNames
      BY <3>5, Zenon DEF GroupsOK, Ids
    <3>7. ASSUME NEW r \in groups PROVE Good(r.app)
      <4>1. CASE r = Result(app, "ok", faults)
        <5>1. r.app = app
          BY <4>1, ResultIs
        <5> QED
          BY <1>2, <5>1, Zenon
      <4>2. CASE r \in AddGroups(ClearGroups(app), gs, faults)
        <5>1. PICK a : a = ClearGroups(app)
          BY Zenon
        <5>2. Good(a) /\ a.groups = <<>>
          BY <1>2, <5>1, ClearGroupsGood, Zenon
        <5>3. r \in AddGroups(a, gs, faults)
          BY <4>2, <5>1, Zenon
        <5> QED
          BY <3>6, <5>2, <5>3, AddGroupsGood, Zenon
      <4> QED
        BY <1>5, <3>3, <4>1, <4>2, Zenon
    <3>8. PICK q \in both : app' = q.app
      BY <2>2, Zenon
    <3>9. CASE q \in groups
      BY <3>7, <3>8, <3>9, Zenon
    <3>10. CASE q \in UNION {ReplaceSubscriptions(r.app, LoadedSubs(c), r.faults) : r \in groups}
      <4>1. PICK r \in groups : q \in ReplaceSubscriptions(r.app, LoadedSubs(c), r.faults)
        BY <3>10, Zenon
      <4>2. PICK a : a = r.app
        BY Zenon
      <4>3. PICK f : f = r.faults
        BY Zenon
      <4>4. q \in ReplaceSubscriptions(a, subs, f)
        BY <3>4, <4>1, <4>2, <4>3, Zenon
      <4>5. Good(a)
        BY <3>7, <4>1, <4>2, Zenon
      <4>6. Kept(a) /\ Fresh(a)
        BY <4>5, Zenon DEF Good
      <4>7. SubOutcome(q, a)
        BY <3>5, <4>4, <4>6, ReplaceSubscriptionsKeeps, Zenon
      <4> QED
        BY <3>8, <4>7, Zenon DEF SubOutcome, Good
    <3> QED
      BY <1>6, <3>8, <3>9, <3>10, Zenon
  <2> QED
    BY <1>4, <1>5, <1>6, <2>1, <2>2, Zenon DEF Reload
<1>8. up'
  BY <1>1, Zenon
<1>9. Inv'
  BY <1>3, <1>7, <1>8, UpKeeps, Zenon
<1> QED
  BY <1>1, <1>9, QuietRolls, Zenon

\* A step that leaves no process.
LEMMA DownKeeps ==
    ASSUME FileOK', ~up', IsEmpty(app'), IdsApart => app'.kernel = app'.stuck PROVE Inv'
<1>1. Kept(app') /\ Copied(app')
  BY EmptyKept, Zenon
<1>2. Kept(app)' /\ Copied(app)'
  BY <1>1, Zenon DEF Kept, Copied, Exact, Held, HeldByGroups
<1>3. app'.groups = <<>> /\ app'.subs = <<>> /\ app'.subrs = <<>>
  BY Zenon DEF IsEmpty
<1> QED
  BY <1>2, <1>3, Zenon DEF Inv

\* main.
LEMMA BootKeeps == ASSUME Inv, Boot PROVE Inv' /\ Rolled
<1>1. PICK c : c = file.data
  BY Zenon
<1>2. PICK new : new = IF c = Missing THEN Booted(<<>>, <<>>)
                       ELSE Booted(LoadedGroups(c), LoadedSubs(c))
  BY Zenon
<1>3. /\ ~up /\ (c = Missing \/ Loads(c)) /\ reply' = Quiet /\ UNCHANGED fileVars
      /\ (app' = new /\ up') \/ (app' = Destroyed(new) /\ ~up')
  <2>1. ~up /\ (c = Missing \/ Loads(c)) /\ reply' = Quiet /\ UNCHANGED fileVars
    BY <1>1, Zenon DEF Boot
  <2>2. (app' = new /\ up' = TRUE) \/ (app' = Destroyed(new) /\ up' = up)
    <3> DEFINE start == IF file.data = Missing THEN Booted(<<>>, <<>>)
                        ELSE Booted(LoadedGroups(file.data), LoadedSubs(file.data))
    <3>1. (app' = start /\ up' = TRUE) \/ (app' = Destroyed(start) /\ up' = up)
      BY Zenon DEF Boot
    <3>2. start = new
      BY <1>1, <1>2, Zenon
    <3> QED
      BY <3>1, <3>2, Zenon
  <2>3. (up' = TRUE => up') /\ (up' = up => ~up')
    BY <2>1
  <2> QED
    BY <2>1, <2>2, <2>3, Zenon
<1>4. /\ FileOK /\ Kept(app) /\ app.groups = <<>> /\ app.subrs = <<>>
  BY <1>3, Zenon DEF Inv
<1>5. FileOK'
  BY <1>3, <1>4, FileStepKeeps, Zenon
<1>6. PICK gs, ss : new = Booted(gs, ss) /\ GroupsOK(gs) /\ SubsOK(ss)
  <2>1. CASE c = Missing
    BY <1>2, <2>1, NoneOK, Zenon
  <2>2. CASE c # Missing
    <3>1. TextOK(c) /\ Loads(c)
      BY <1>1, <1>3, <1>4, <2>2, Zenon DEF FileOK
    <3>2. GroupsOK(LoadedGroups(c)) /\ SubsOK(LoadedSubs(c))
      BY <3>1, LoadedOK, Zenon
    <3> QED
      BY <1>2, <2>2, <3>2, Zenon
  <2> QED
    BY <2>1, <2>2, Zenon
<1>7. Good(new)
  BY <1>4, <1>6, BootedGood, Zenon
<1>8. CASE app' = new /\ up'
  BY <1>3, <1>5, <1>7, <1>8, UpKeeps, QuietRolls, Zenon
<1>9. CASE app' = Destroyed(new) /\ ~up'
  <2>1. Kept(new)
    BY <1>7, Zenon DEF Good
  <2>2. IsEmpty(app') /\ (IdsApart => app'.kernel = app'.stuck)
    BY <1>9, <2>1, DestroyedIs, Zenon
  <2> QED
    BY <1>3, <1>5, <1>9, <2>2, DownKeeps, QuietRolls, Zenon
<1> QED
  BY <1>3, <1>8, <1>9, Zenon

\* SIGTERM, SIGKILL and a power failure.
LEMMA EndKeeps == ASSUME Inv, Stop \/ Kill \/ PowerLoss PROVE Inv' /\ Rolled
<1>1. FileOK /\ Kept(app)
  BY Zenon DEF Inv
<1>2. ~up' /\ reply' = Quiet
  BY Zenon DEF Stop, Kill, PowerLoss
<1>3. FileOK'
  <2>1. UNCHANGED fileVars \/ FileKill \/ FilePowerLoss
    BY Zenon DEF Stop, Kill, PowerLoss
  <2> QED
    BY <1>1, <2>1, FileStepKeeps, Zenon
<1>4. IsEmpty(app') /\ (IdsApart => app'.kernel = app'.stuck)
  <2>1. CASE app' = Destroyed(app)
    BY <1>1, <2>1, DestroyedIs, Zenon
  <2>2. CASE \E K : app' = [Destroyed(app) EXCEPT !.kernel = K, !.stuck = K]
    BY <1>1, <2>2, GoneIs, Zenon
  <2> QED
    BY <2>1, <2>2, Zenon DEF Stop, Kill, Gone, PowerLoss
<1>5. Inv'
  BY <1>2, <1>3, <1>4, DownKeeps, Zenon
<1> QED
  BY <1>2, <1>5, QuietRolls, Zenon

\* A step of a save, of the clock or of somebody else.
LEMMA OtherKeeps ==
    ASSUME Inv, UNCHANGED <<app, up>>,
           \/ SaveStep \/ SaveFails \/ UNCHANGED fileVars
           \/ \E c \in Files : Edit(c)
    PROVE  Inv'
<1>1. FileOK'
  BY FileStepKeeps, Zenon DEF Inv
<1> QED
  BY <1>1, Zenon DEF Inv, Kept, Copied, Fresh, Exact, Held, HeldByGroups

\* Every step.
LEMMA NextKeeps == ASSUME Inv, Next PROVE Inv' /\ Rolled
<1>1. CASE Saving \/ Install \/ Clock
  <2>1. /\ UNCHANGED <<app, up>> /\ reply' = Quiet
        /\ SaveStep \/ SaveFails \/ UNCHANGED fileVars \/ \E c \in Files : Edit(c)
    BY <1>1, Zenon DEF Saving, Install, Clock
  <2> QED
    BY <2>1, OtherKeeps, QuietRolls, Zenon
<1> QED
  BY <1>1, HandlerKeeps, TickKeeps, ReloadKeeps, BootKeeps, EndKeeps, Zenon DEF Next

\* The daemon has not been started yet.
LEMMA InitInv == ASSUME Init PROVE Inv
<1>1. PICK c \in Files \cup {Missing} : FileInit(c)
  BY Zenon DEF Init
<1>2. TextOK(c) /\ TextOK(Missing)
  BY FilesOK, Zenon DEF TextOK
<1>3. file.data = c /\ durable.data = c /\ tmp.data = Missing /\ data = Missing /\ "data" \in DOMAIN tmp
  BY <1>1 DEF FileInit, NoCopy
<1>4. FileOK
  BY <1>2, <1>3, Zenon DEF FileOK
<1>5. ~up /\ app = [groups |-> <<>>, on |-> {}, subs |-> <<>>, cap |-> 0, subrs |-> <<>>,
                    kernel |-> {}, stuck |-> {}, snap |-> <<>>]
  BY Zenon DEF Init
<1>6. IsApp(app)
  BY <1>5 DEF IsApp, AppFields
<1>7. /\ app.groups = <<>> /\ app.subs = <<>> /\ app.subrs = <<>> /\ app.on = {}
      /\ app.kernel = app.stuck
  BY <1>5
<1>8. IsEmpty(app)
  BY <1>6, <1>7, Zenon DEF IsEmpty
<1>9. Kept(app) /\ Copied(app)
  BY <1>7, <1>8, EmptyKept, Zenon
<1> QED
  BY <1>4, <1>5, <1>7, <1>9, Zenon DEF Inv

-----------------------------------------------------------------------------
\* The theorems

\* Everything that follows the configuration follows it, after every step.
THEOREM ConfigInvariant == Spec => []Inv
<1>1. Init => Inv
  BY InitInv
<1>2. Inv /\ [Next]_vars => Inv'
  <2>1. ASSUME Inv, UNCHANGED vars PROVE Inv'
    BY <2>1, OtherKeeps, Zenon DEF vars
  <2> QED
    BY <2>1, NextKeeps, Zenon
<1> QED
  BY <1>1, <1>2, PTL DEF Spec

\* DNS answers are matched against the current configuration: whatever request,
\* timer, signal, failure or restart came before, the published snapshot is the
\* one mt_ruleset_snapshot_build would make now.
THEOREM SnapshotIsFresh == Spec => []SnapshotFresh
<1>1. Inv => SnapshotFresh
  BY Zenon DEF Inv, Fresh, SnapshotFresh
<1> QED
  BY <1>1, ConfigInvariant, PTL

\* The kernel holds exactly what the rulesets ask for and what was left behind,
\* provided no group has the identifier of a subscription.
THEOREM KernelIsExact == IdsApart => (Spec => []KernelExact)
<1> SUFFICES ASSUME IdsApart PROVE Spec => []KernelExact
  OBVIOUS
<1>1. Inv => KernelExact
  BY Zenon DEF Inv, Kept, Copied, Exact, Held, HeldByGroups, KernelExact
<1> QED
  BY <1>1, ConfigInvariant, PTL

\* A failed operation on subscriptions takes back everything it did.
THEOREM RollbackIsExact == Spec => RollbackExact
<1>1. Inv /\ [Next]_vars => [Rolled]_vars
  BY NextKeeps, Zenon
<1> QED
  BY <1>1, ConfigInvariant, PTL DEF Spec, RollbackExact, Rolled

-----------------------------------------------------------------------------
\* The save, for every set of contents

\* What is at the path, now or after a power failure, has reached the disk,
\* and what is about to be renamed over it is the text, synced.
FileInv ==
    /\ FileTypeOK
    /\ file.synced /\ file.data # Torn
    /\ durable.synced /\ durable.data # Torn
    /\ wpc \in {"write", "fsync", "rename"} => data \in Contents
    /\ wpc \in {"fsync", "rename"} => tmp.data = data
    /\ wpc = "rename" => tmp.synced

\* The daemon starts from a whole file or from none.
LEMMA FileInitInv == ASSUME NEW c \in Contents \cup {Missing}, FileInit(c) PROVE FileInv
<1>1. NoCopy \in Copies /\ [data |-> c, synced |-> TRUE] \in Copies
  BY DEF Copies, NoCopy
<1>2. c # Torn
  BY ContentsAssumption
<1>3. file.synced /\ file.data = c
  BY DEF FileInit
<1> QED
  BY <1>1, <1>2, <1>3 DEF FileInit, FileInv, FileTypeOK

\* Every step of a save, of its failure or of a crash keeps the invariant.
LEMMA FileStepInv == FileInv /\ [FileNext]_fileVars => FileInv'
<1> SUFFICES ASSUME FileInv, [FileNext]_fileVars PROVE FileInv'
  OBVIOUS
<1> USE ContentsAssumption DEF FileInv, FileTypeOK, Copies, NoCopy
<1>1. ASSUME NEW c \in Contents, SaveBegin(c) PROVE FileInv'
  BY <1>1 DEF SaveBegin
<1>2. ASSUME NEW c \in Contents, Edit(c) PROVE FileInv'
  BY <1>2 DEF Edit
<1>3. CASE WriteTmp
  BY <1>3 DEF WriteTmp
<1>4. CASE FsyncTmp
  BY <1>4, Zenon DEF FsyncTmp
<1>5. CASE SaveFails
  BY <1>5 DEF SaveFails
<1>6. CASE Rename
  BY <1>6 DEF Rename
<1>7. CASE SyncDir
  BY <1>7 DEF SyncDir
<1>8. CASE FileKill
  BY <1>8 DEF FileKill
<1>9. CASE FilePowerLoss
  BY <1>9 DEF FilePowerLoss
<1>10. CASE UNCHANGED fileVars
  BY <1>10 DEF fileVars
<1> QED
  BY <1>1, <1>2, <1>3, <1>4, <1>5, <1>6, <1>7, <1>8, <1>9, <1>10, SMTT(30) DEF FileNext, SaveStep

\* A reader of the configuration path never finds a file cut short.
THEOREM FileNeverTorn == FileSpec => []NeverTorn
<1>1. (\E c \in Contents \cup {Missing} : FileInit(c)) => FileInv
  BY FileInitInv
<1>2. FileInv => NeverTorn
  BY DEF FileInv, NeverTorn
<1> QED
  BY <1>1, <1>2, FileStepInv, PTL DEF FileSpec

\* The file changes as a whole: to the text being saved, or back.
THEOREM FileSaveAtomic == FileSpec => SaveAtomic
<1> DEFINE Whole == file'.data # file.data =>
                       \/ wpc = "rename" /\ file'.data = data
                       \/ file'.data = durable.data
                       \/ edits' # edits
<1>1. FileInv /\ [FileNext]_fileVars => [Whole]_fileVars
  <2> SUFFICES ASSUME FileInv, FileNext PROVE Whole
    BY DEF fileVars
  <2>1. CASE \E c \in Contents : Edit(c)
    BY <2>1 DEF Edit, FileInv, FileTypeOK
  <2>2. CASE \E c \in Contents : SaveBegin(c)
    BY <2>2 DEF SaveBegin
  <2>3. CASE SaveStep
    BY <2>3 DEF SaveStep, WriteTmp, FsyncTmp, Rename, SyncDir, FileInv
  <2>4. CASE SaveFails \/ FileKill
    BY <2>4 DEF SaveFails, FileKill
  <2>5. CASE FilePowerLoss
    BY <2>5 DEF FilePowerLoss, FileInv
  <2> QED
    BY <2>1, <2>2, <2>3, <2>4, <2>5 DEF FileNext
<1>2. (\E c \in Contents \cup {Missing} : FileInit(c)) => FileInv
  BY FileInitInv
<1> QED
  BY <1>1, <1>2, FileStepInv, PTL DEF FileSpec, SaveAtomic

-----------------------------------------------------------------------------
\* The save, inside the daemon

\* A file cut short is no file that the daemon writes or somebody installs.
TornApart == Missing # Torn /\ (\A a : Persist(a) # Torn) /\ \A c \in Files : c # Torn

\* What is at the path has reached the disk, and what is about to be renamed
\* over it is the text, synced.
FileWhole ==
    /\ file.synced /\ file.data # Torn /\ durable.synced /\ durable.data # Torn
    /\ wpc \in {"write", "fsync", "rename"} => data # Torn
    /\ wpc \in {"fsync", "rename"} => tmp.data = data
    /\ wpc = "rename" => tmp.synced
    /\ {"data", "synced"} \subseteq DOMAIN tmp /\ edits \in Nat

\* What the daemon does to the file.
DaemonStep ==
    \/ (\E c : c # Torn /\ SaveBegin(c)) \/ (\E c : c # Torn /\ Edit(c))
    \/ SaveStep \/ SaveFails \/ FileKill \/ FilePowerLoss \/ UNCHANGED fileVars

\* Every action of the daemon is one of these.
LEMMA DaemonSteps == ASSUME TornApart, [Next]_vars PROVE DaemonStep
<1>1. ASSUME NEW op, NEW outcomes, NEW save, Respond(op, outcomes, save) PROVE DaemonStep
  <2>1. PICK r : Answers(r, op)
    BY <1>1, RespondAnswers, Zenon
  <2> QED
    BY <2>1, Zenon DEF Answers, TornApart, DaemonStep
<1>2. CASE Handler
  <2> DEFINE Responds == \E op, outcomes, save : Respond(op, outcomes, save)
  <2>1. ASSUME NEW save, NEW body, PutGroups(body, save) \/ PutSubscriptions(body, save)
        PROVE  Responds
    BY <2>1, Zenon DEF PutGroups, PutSubscriptions
  <2>2. ASSUME NEW save, NEW q, CreateGroup(q, save) \/ CreateSubscription(q, save)
        PROVE  Responds
    BY <2>2, Zenon DEF CreateGroup, CreateSubscription
  <2>3. ASSUME NEW save, NEW i, NEW q, PutGroup(i, q, save) PROVE Responds
    BY <2>3, Zenon DEF PutGroup
  <2>4. ASSUME NEW save, NEW i, DeleteGroup(i, save) \/ DeleteSubscription(i, save) PROVE Responds
    BY <2>4, Zenon DEF DeleteGroup, DeleteSubscription
  <2>5. ASSUME NEW save, NEW i, NEW rules, NEW cap, EditRules(i, rules, cap, save) PROVE Responds
    BY <2>5, Zenon DEF EditRules
  <2>6. ASSUME NEW save, NEW i, NEW body, PutRules(i, body, save) PROVE Responds
    BY <2>5, <2>6, Zenon DEF PutRules
  <2>7. ASSUME NEW save, NEW i, NEW url, NEW list, SyncNow(i, url, list, save) PROVE Responds
    BY <2>7, Zenon DEF SyncNow
  <2>8. SyncUnanswered => Responds
    BY Zenon DEF SyncUnanswered
  <2> HIDE DEF Responds
  <2>9. Responds
    BY <1>2, <2>1, <2>2, <2>3, <2>4, <2>5, <2>6, <2>7, <2>8, ZenonT(30)
       DEF Handler, CreateRule, PutRule, DeleteRule
  <2> QED
    BY <1>1, <2>9, Zenon DEF Responds
<1>3. CASE Tick
  BY <1>3, Zenon DEF Tick, TornApart, DaemonStep
<1>4. CASE Reload \/ Boot \/ Stop \/ Clock \/ UNCHANGED vars
  BY <1>4, Zenon DEF Reload, Boot, Stop, Clock, vars, DaemonStep
<1>5. CASE Kill \/ PowerLoss \/ Saving
  BY <1>5, Zenon DEF Kill, PowerLoss, Saving, DaemonStep
<1>6. CASE Install
  BY <1>6, Zenon DEF Install, TornApart, DaemonStep
<1> QED
  BY <1>2, <1>3, <1>4, <1>5, <1>6, Zenon DEF Next

\* The daemon starts from a whole file or from none.
LEMMA DaemonInitWhole == ASSUME TornApart, Init PROVE FileWhole
<1>1. PICK c \in Files \cup {Missing} : FileInit(c)
  BY Zenon DEF Init
<1>2. c # Torn
  BY Zenon DEF TornApart
<1>3. file.synced /\ file.data = c /\ durable = file /\ {"data", "synced"} \subseteq DOMAIN tmp
  BY <1>1 DEF FileInit, NoCopy
<1>4. wpc = "idle" /\ edits \in Nat
  BY <1>1 DEF FileInit
<1> QED
  BY <1>2, <1>3, <1>4 DEF FileWhole

\* Every step keeps the file whole.
LEMMA DaemonStepWhole == ASSUME TornApart, FileWhole, DaemonStep PROVE FileWhole'
<1> USE DEF FileWhole, NoCopy
<1>0. Missing # Torn
  BY Zenon DEF TornApart
<1>1. ASSUME NEW c, c # Torn, SaveBegin(c) PROVE FileWhole'
  BY <1>1 DEF SaveBegin
<1>2. ASSUME NEW c, c # Torn, Edit(c) PROVE FileWhole'
  BY <1>2 DEF Edit
<1>3. CASE WriteTmp
  BY <1>3 DEF WriteTmp
<1>4. CASE FsyncTmp
  BY <1>4 DEF FsyncTmp
<1>5. CASE SaveFails
  BY <1>5 DEF SaveFails
<1>6. CASE Rename
  BY <1>6 DEF Rename
<1>7. CASE SyncDir
  BY <1>7 DEF SyncDir
<1>8. CASE FileKill
  BY <1>8 DEF FileKill
<1>9. CASE FilePowerLoss
  BY <1>9 DEF FilePowerLoss
<1>10. CASE UNCHANGED fileVars
  BY <1>10 DEF fileVars
<1> QED
  BY <1>1, <1>2, <1>3, <1>4, <1>5, <1>6, <1>7, <1>8, <1>9, <1>10, Zenon DEF DaemonStep, SaveStep

\* Whatever the daemon is doing when it is killed or the power fails, its
\* configuration file is never cut short.
THEOREM DaemonNeverTorn == TornApart => (Spec => []NeverTorn)
<1> SUFFICES ASSUME TornApart PROVE Spec => []NeverTorn
  OBVIOUS
<1>1. Init => FileWhole
  BY DaemonInitWhole
<1>2. FileWhole /\ [Next]_vars => FileWhole'
  BY DaemonSteps, DaemonStepWhole
<1>3. FileWhole => NeverTorn
  BY Zenon DEF FileWhole, NeverTorn
<1> QED
  BY <1>1, <1>2, <1>3, PTL DEF Spec
=============================================================================
