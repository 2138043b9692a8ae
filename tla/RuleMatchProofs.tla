--------------------------- MODULE RuleMatchProofs --------------------------
(***************************************************************************)
(* RuleMatch for any rules, any hash function and any number of domains:   *)
(* the index of a group answers as its rules one by one do.                *)
(*                                                                         *)
(* The hash set is exact because of three facts that hold together: every  *)
(* domain is where probing for it stops, the number of occupied slots is   *)
(* known, and it is below the number of slots, so that probing for what is *)
(* not there stops at a free one.                                          *)
(***************************************************************************)
EXTENDS RuleMatch, FiniteSetTheorems, TLAPS

-----------------------------------------------------------------------------
\* Numbers and recursion.

\* What is left of a name behind its first i characters, which is what the
\* trie walk reaches: its length and its characters.
LEMMA SuffixIs ==
    ASSUME NEW W, NEW s, s \in Seq(W), NEW n, n = Len(s)
    PROVE  \A i \in 0 .. n :
           /\ SubSeq(s, i + 1, n) \in Seq(W) /\ Len(SubSeq(s, i + 1, n)) = n - i
           /\ \A k \in 1 .. n - i : SubSeq(s, i + 1, n)[k] = s[i + k]
<1> TAKE i \in 0 .. n
<1>1. SubSeq(s, i + 1, n) \in Seq(W)
  OBVIOUS
<1>2. Len(SubSeq(s, i + 1, n)) = n - i
  OBVIOUS
<1>3. \A k \in 1 .. n - i : SubSeq(s, i + 1, n)[k] = s[i + k]
  OBVIOUS
<1> QED
  BY <1>1, <1>2, <1>3, Zenon

\* A set of numbers that is not empty has a least element.
LEMMA LeastNumber ==
    ASSUME NEW S \in SUBSET Nat, S # {}
    PROVE  \E m \in S : \A k \in S : m <= k
<1>1. PICK m \in S : \A k \in S : <<k, m>> \notin OpToRel(<, Nat)
  BY NatLessThanWellFounded, WFMin, Zenon
<1>2. \A k \in S : ~(k < m)
  BY <1>1, Zenon DEF OpToRel
<1> QED
  BY <1>2

\* A set with 0 and with the successor of each of its numbers holds them all.
LEMMA CountUp ==
    ASSUME NEW S, 0 \in S, \A n \in Nat : n \in S => n + 1 \in S
    PROVE  \A n \in Nat : n \in S
<1> DEFINE B == Nat \ S
<1>1. CASE B # {}
  <2>1. PICK m \in B : \A k \in B : m <= k
    BY <1>1, LeastNumber, Zenon
  <2>2. m - 1 \in Nat /\ m - 1 \in S
    BY <2>1
  <2> QED
    BY <2>1, <2>2
<1> QED
  BY <1>1, Zenon

\* A step applied n times from x.
IsRun(f, S, x, n, step) ==
    f \in [0 .. n -> S] /\ f[0] = x /\ \A i \in 1 .. n : f[i] = step[i][f[i - 1]]

\* There is such a run: recursion defines a function.
LEMMA Recursion ==
    ASSUME NEW S, NEW x \in S, NEW n \in Nat, NEW step \in [1 .. n -> [S -> S]]
    PROVE  \E f : IsRun(f, S, x, n, step)
<1> DEFINE Run(f, m) == f[0] = x /\ \A i \in 1 .. m : f[i] = step[i][f[i - 1]]
           E == {m \in Nat : m <= n => \E f \in [0 .. n -> S] : Run(f, m)}
<1>1. 0 \in E
  <2>1. [i \in 0 .. n |-> x] \in [0 .. n -> S] /\ Run([i \in 0 .. n |-> x], 0)
    OBVIOUS
  <2> HIDE DEF Run
  <2> QED
    BY <2>1, Zenon
<1>2. ASSUME NEW m \in Nat, m \in E PROVE m + 1 \in E
  <2> SUFFICES ASSUME m + 1 <= n PROVE \E f \in [0 .. n -> S] : Run(f, m + 1)
    <3> HIDE DEF Run
    <3> QED
      OBVIOUS
  <2>1. PICK f \in [0 .. n -> S] : Run(f, m)
    <3>1. m <= n
      OBVIOUS
    <3> QED
      BY <1>2, <3>1, Zenon
  <2> DEFINE g == [f EXCEPT ![m + 1] = step[m + 1][f[m]]]
  <2>2. m \in 0 .. n /\ m + 1 \in 0 .. n /\ m + 1 \in 1 .. n
    OBVIOUS
  <2>3. g \in [0 .. n -> S]
    BY <2>2, Zenon
  <2>4. g[m + 1] = step[m + 1][f[m]] /\ \A i \in 0 .. n : i # m + 1 => g[i] = f[i]
    BY <2>2, Zenon
  <2> HIDE DEF g
  <2>5. Run(g, m + 1)
    <3>1. g[0] = x
      BY <2>1, <2>4
    <3>2. ASSUME NEW i \in 1 .. m + 1 PROVE g[i] = step[i][g[i - 1]]
      <4>1. CASE i = m + 1
        BY <2>2, <2>4, <4>1
      <4>2. CASE i \in 1 .. m
        BY <2>1, <2>2, <2>4, <4>2
      <4> QED
        BY <4>1, <4>2
    <3> QED
      BY <3>1, <3>2, Zenon
  <2> HIDE DEF Run
  <2> QED
    BY <2>3, <2>5, Zenon
<1>3. n \in E
  <2> HIDE DEF E
  <2> QED
    BY <1>1, <1>2, CountUp, Zenon
<1>4. \E f \in [0 .. n -> S] : Run(f, n)
  <2> HIDE DEF Run
  <2> QED
    BY <1>3
<1> QED
  BY <1>4, Zenon DEF IsRun

-----------------------------------------------------------------------------
\* The exact domains.

Sized(set) ==
    /\ set \in [cap : Nat, len : Nat, slots : [0 .. set.cap - 1 -> Names \cup {Free}]]
    /\ set.cap > 0

From(set, s) == Hash[s] % set.cap

\* Probing for s passes only occupied slots without s and stops at x.
Stops(set, s, x) ==
    /\ x \in 0 .. set.cap - 1 /\ set.slots[x] \in {Free, s}
    /\ \E k \in 0 .. set.cap - 1 :
          /\ x = Slot(set, From(set, s), k)
          /\ \A j \in 0 .. k - 1 : set.slots[Slot(set, From(set, s), j)] \notin {Free, s}

\* A probe begins at a slot.
LEMMA FromIn ==
    ASSUME NEW c \in Nat, c > 0, NEW h \in Nat
    PROVE  h % c \in 0 .. c - 1
OBVIOUS

\* A probe stays in the table and passes every slot.
LEMMA SlotOnto ==
    ASSUME NEW set, set.cap \in Nat, NEW i \in 0 .. set.cap - 1
    PROVE  /\ \A k \in 0 .. set.cap - 1 : Slot(set, i, k) \in 0 .. set.cap - 1
           /\ \A x \in 0 .. set.cap - 1 : \E k \in 0 .. set.cap - 1 : Slot(set, i, k) = x
<1>1. PICK c : c = set.cap
  BY Zenon
<1>2. \A k : Slot(set, i, k) = IF i + k < c THEN i + k ELSE i + k - c
  BY <1>1, Zenon DEF Slot
<1>3. c \in Nat /\ i \in 0 .. c - 1
  BY <1>1, Zenon
<1>4. \A k \in 0 .. c - 1 : Slot(set, i, k) \in 0 .. c - 1
  BY <1>2, <1>3
<1>5. ASSUME NEW x \in 0 .. c - 1 PROVE \E k \in 0 .. c - 1 : Slot(set, i, k) = x
  <2>1. CASE x >= i
    <3>1. x - i \in 0 .. c - 1 /\ Slot(set, i, x - i) = x
      BY <1>2, <1>3, <2>1
    <3> QED
      BY <3>1, Zenon
  <2>2. CASE x < i
    <3>1. x + c - i \in 0 .. c - 1 /\ Slot(set, i, x + c - i) = x
      BY <1>2, <1>3, <2>2
    <3> QED
      BY <3>1, Zenon
  <2> QED
    BY <1>3, <2>1, <2>2
<1> QED
  BY <1>1, <1>4, <1>5, Zenon

\* There is no other slot where it stops.
LEMMA ProbeIs ==
    ASSUME NEW set, Sized(set), NEW s \in Names, NEW x, Stops(set, s, x)
    PROVE  Probe(set, s) = x
<1> DEFINE stops(k) == set.slots[Slot(set, From(set, s), k)] \in {Free, s}
           good(k) == stops(k) /\ \A j \in 0 .. k - 1 : ~stops(j)
<1>1. Probe(set, s) = Slot(set, From(set, s), CHOOSE k \in 0 .. set.cap - 1 : good(k))
  BY Zenon DEF Probe, From
<1>2. PICK k \in 0 .. set.cap - 1 : x = Slot(set, From(set, s), k) /\ good(k)
  BY Zenon DEF Stops
<1>3. PICK m : m = CHOOSE i \in 0 .. set.cap - 1 : good(i)
  BY Zenon
<1>4. m \in 0 .. set.cap - 1 /\ good(m)
  BY <1>2, <1>3, Zenon
<1>5. m \in Int /\ k \in Int /\ m >= 0 /\ k >= 0
  BY <1>2, <1>4 DEF Sized
<1>6. ~(m < k) /\ ~(k < m)
  <2>1. m < k => m \in 0 .. k - 1
    BY <1>5
  <2>2. k < m => k \in 0 .. m - 1
    BY <1>5
  <2> QED
    BY <1>2, <1>4, <2>1, <2>2, Zenon
<1>7. m = k
  BY <1>5, <1>6
<1> QED
  BY <1>1, <1>2, <1>3, <1>7, Zenon

\* With s or a free slot somewhere there is one.
LEMMA Finds ==
    ASSUME NEW set, Sized(set), NEW s \in Names,
           NEW i \in 0 .. set.cap - 1, set.slots[i] \in {Free, s}
    PROVE  Stops(set, s, Probe(set, s))
<1> DEFINE stops(k) == set.slots[Slot(set, From(set, s), k)] \in {Free, s}
           K == {k \in 0 .. set.cap - 1 : stops(k)}
<1>1. set.cap \in Nat /\ From(set, s) \in 0 .. set.cap - 1
  <2>1. set.cap \in Nat /\ set.cap > 0
    BY Zenon DEF Sized
  <2>2. Hash[s] \in Nat
    BY IndexAssumption, Zenon
  <2> QED
    BY <2>1, <2>2, FromIn, Zenon DEF From
<1>2. PICK k \in 0 .. set.cap - 1 : Slot(set, From(set, s), k) = i
  BY <1>1, SlotOnto, Zenon
<1>3. k \in K
  BY <1>2, Zenon
<1>4. K \in SUBSET Nat
  BY <1>1
<1>5. PICK m \in K : \A l \in K : m <= l
  BY <1>3, <1>4, LeastNumber, Zenon
<1>6. m \in 0 .. set.cap - 1 /\ stops(m)
  BY <1>5, Zenon
<1>7. ASSUME NEW j \in 0 .. m - 1 PROVE ~stops(j)
  <2>1. j \in 0 .. set.cap - 1 /\ ~(m <= j)
    BY <1>1, <1>6
  <2> QED
    BY <1>5, <2>1, Zenon
<1>8. PICK x : x = Slot(set, From(set, s), m)
  BY Zenon
<1>9. x \in 0 .. set.cap - 1
  BY <1>1, <1>6, <1>8, SlotOnto, Zenon
<1>10. Stops(set, s, x)
  BY <1>6, <1>7, <1>8, <1>9, Zenon DEF Stops
<1> QED
  BY <1>10, ProbeIs, Zenon

Occupied(set) == {i \in 0 .. set.cap - 1 : set.slots[i] # Free}
Held(set) == {set.slots[i] : i \in Occupied(set)}

\* Every domain is where probing for it stops, and the domains are counted.
Sound(set) ==
    /\ Sized(set)
    /\ set.len = Cardinality(Occupied(set))
    /\ \A i \in Occupied(set) : Stops(set, set.slots[i], i)

\* The occupied slots are some of the slots.
LEMMA OccupiedIs ==
    ASSUME NEW set, Sized(set)
    PROVE  /\ IsFiniteSet(Occupied(set)) /\ Cardinality(Occupied(set)) \in Nat
           /\ Cardinality(Occupied(set)) <= set.cap
           /\ Cardinality(Occupied(set)) < set.cap =>
                 \E i \in 0 .. set.cap - 1 : set.slots[i] = Free
<1>1. PICK c : c = set.cap
  BY Zenon
<1>2. c \in Nat /\ c > 0
  BY <1>1, Zenon DEF Sized
<1>3. IsFiniteSet(0 .. c - 1) /\ Cardinality(0 .. c - 1) = c
  BY <1>2, FS_Interval
<1>4. PICK O : O = Occupied(set)
  BY Zenon
<1>5. O \in SUBSET (0 .. c - 1)
  BY <1>1, <1>4, Zenon DEF Occupied
<1>6. IsFiniteSet(O) /\ Cardinality(O) <= c
  BY <1>3, <1>5, FS_Subset, Zenon
<1>7. Cardinality(O) \in Nat
  BY <1>6, FS_CardinalityType, Zenon
<1>8. ASSUME Cardinality(O) < c PROVE \E i \in 0 .. c - 1 : set.slots[i] = Free
  <2>1. O # 0 .. c - 1
    BY <1>2, <1>3, <1>8
  <2> QED
    BY <1>1, <1>4, <1>5, <2>1, Zenon DEF Occupied
<1> QED
  BY <1>1, <1>4, <1>6, <1>7, <1>8, Zenon

\* A domain put into a table that is not full and does not hold it.
LEMMA PutSound ==
    ASSUME NEW set, Sound(set), set.len < set.cap, NEW s \in Names, s \notin Held(set)
    PROVE  /\ Sound(Put(set, s)) /\ Held(Put(set, s)) = Held(set) \cup {s}
           /\ Put(set, s).cap = set.cap /\ Put(set, s).len = set.len + 1
<1>1. PICK x : x = Probe(set, s)
  BY Zenon
<1>2. PICK new : new = Put(set, s)
  BY Zenon
<1>3. Sized(set) /\ set.len = Cardinality(Occupied(set))
      /\ \A i \in Occupied(set) : Stops(set, set.slots[i], i)
  BY Zenon DEF Sound
<1>4. PICK free \in 0 .. set.cap - 1 : set.slots[free] = Free
  BY <1>3, OccupiedIs, Zenon
<1>5. Stops(set, s, x)
  <2>1. set.slots[free] \in {Free, s}
    BY <1>4, Zenon
  <2> QED
    BY <1>1, <1>3, <2>1, Finds, Zenon
<1>6. x \in 0 .. set.cap - 1 /\ set.slots[x] \in {Free, s}
  BY <1>5, Zenon DEF Stops
<1>7. set.slots[x] = Free
  BY <1>6, Zenon DEF Held, Occupied
<1>8. s # Free
  BY IndexAssumption, Zenon
<1>9. PICK c, l, f : c = set.cap /\ l = set.len /\ f = set.slots
  BY Zenon
<1>10. c \in Nat /\ l \in Nat /\ f \in [0 .. c - 1 -> Names \cup {Free}] /\ c > 0
       /\ set = [cap |-> c, len |-> l, slots |-> f]
  BY <1>3, <1>9, Zenon DEF Sized
<1>11. new = [cap |-> c, len |-> l + 1, slots |-> [f EXCEPT ![x] = s]]
  <2>1. new = [set EXCEPT !.slots[x] = s, !.len = @ + 1]
    BY <1>1, <1>2, Zenon DEF Put
  <2> QED
    BY <1>10, <2>1, Zenon
<1>12. PICK g : g = [f EXCEPT ![x] = s]
  BY Zenon
<1>13. /\ g \in [0 .. c - 1 -> Names \cup {Free}] /\ g[x] = s
       /\ \A i \in 0 .. c - 1 : i # x => g[i] = f[i]
  BY <1>6, <1>9, <1>10, <1>12, Zenon
<1>14. new = [cap |-> c, len |-> l + 1, slots |-> g]
  BY <1>11, <1>12, Zenon
<1>15. new.cap = c /\ new.len = l + 1 /\ new.slots = g
  BY <1>14, Zenon
<1>16. Sized(new)
  <2>1. l + 1 \in Nat
    BY <1>10
  <2> QED
    BY <1>10, <1>13, <1>14, <1>15, <2>1, Zenon DEF Sized
<1>17. Occupied(new) = Occupied(set) \cup {x} /\ x \notin Occupied(set)
  BY <1>6, <1>7, <1>8, <1>9, <1>13, <1>15, Zenon DEF Occupied
<1>18. new.len = Cardinality(Occupied(new))
  <2>1. IsFiniteSet(Occupied(set))
    BY <1>3, OccupiedIs, Zenon
  <2>2. Cardinality(Occupied(set) \cup {x}) = Cardinality(Occupied(set)) + 1
    BY <1>17, <2>1, FS_AddElement, Zenon
  <2> QED
    BY <1>3, <1>9, <1>15, <1>17, <2>2, Zenon
<1>19. \A u : From(new, u) = From(set, u) /\ \A i, k : Slot(new, i, k) = Slot(set, i, k)
  BY <1>9, <1>15, Zenon DEF From, Slot
<1>20. ASSUME NEW u \in Names, NEW y, u # s \/ y = x, Stops(set, u, y), u = s \/ set.slots[y] = u
       PROVE  Stops(new, u, y)
  <2>1. /\ y \in 0 .. c - 1
        /\ \E k \in 0 .. c - 1 :
              /\ y = Slot(set, From(set, u), k)
              /\ \A j \in 0 .. k - 1 : f[Slot(set, From(set, u), j)] \notin {Free, u}
    BY <1>9, <1>20, Zenon DEF Stops
  <2>2. PICK k \in 0 .. c - 1 :
              /\ y = Slot(set, From(set, u), k)
              /\ \A j \in 0 .. k - 1 : f[Slot(set, From(set, u), j)] \notin {Free, u}
    BY <2>1, Zenon
  <2>3. From(set, u) \in 0 .. set.cap - 1 /\ set.cap \in Nat
    <3>1. Hash[u] \in Nat
      BY IndexAssumption, Zenon
    <3> QED
      BY <1>9, <1>10, <3>1, FromIn, Zenon DEF From
  <2>4. ASSUME NEW j \in 0 .. k - 1 PROVE g[Slot(set, From(set, u), j)] \notin {Free, u}
    <3>1. j \in 0 .. c - 1
      BY <1>10
    <3>2. Slot(set, From(set, u), j) \in 0 .. c - 1
      BY <1>9, <2>3, <3>1, SlotOnto, Zenon
    <3>3. Slot(set, From(set, u), j) # x
      BY <1>7, <1>9, <2>2, Zenon
    <3> QED
      BY <1>13, <2>2, <3>2, <3>3, Zenon
  <2>5. g[y] \in {Free, u}
    <3>1. CASE u = s
      BY <1>13, <1>20, <3>1, Zenon
    <3>2. CASE u # s
      <4>1. u # Free /\ f[y] = u /\ y # x
        BY <1>7, <1>9, <1>20, <3>2, IndexAssumption, Zenon
      <4> QED
        BY <1>13, <2>1, <4>1, Zenon
    <3> QED
      BY <3>1, <3>2, Zenon
  <2>6. y = Slot(new, From(new, u), k)
    BY <1>19, <2>2, Zenon
  <2>7. \A j \in 0 .. k - 1 : new.slots[Slot(new, From(new, u), j)] \notin {Free, u}
    BY <1>15, <1>19, <2>4, Zenon
  <2>8. y \in 0 .. new.cap - 1 /\ k \in 0 .. new.cap - 1 /\ new.slots[y] \in {Free, u}
    BY <1>15, <2>1, <2>5, Zenon
  <2> QED
    BY <2>6, <2>7, <2>8, Zenon DEF Stops
<1>21. ASSUME NEW i \in Occupied(new) PROVE Stops(new, new.slots[i], i)
  <2>1. CASE i = x
    BY <1>5, <1>13, <1>15, <1>20, <2>1, Zenon
  <2>2. CASE i # x
    <3>1. i \in Occupied(set) /\ new.slots[i] = set.slots[i] /\ i \in 0 .. c - 1
      BY <1>9, <1>13, <1>15, <1>17, <2>2, Zenon DEF Occupied
    <3>2. f[i] \in Names
      BY <1>9, <1>10, <3>1, Zenon DEF Occupied
    <3>3. f[i] # s
      BY <1>9, <3>1, Zenon DEF Held
    <3> QED
      BY <1>3, <1>9, <1>20, <3>1, <3>2, <3>3, Zenon
  <2> QED
    BY <2>1, <2>2, Zenon
<1>22. Held(new) = Held(set) \cup {s}
  <2>1. \A i \in Occupied(set) : new.slots[i] = set.slots[i]
    BY <1>9, <1>13, <1>15, <1>17, Zenon DEF Occupied
  <2>2. new.slots[x] = s
    BY <1>13, <1>15, Zenon
  <2> QED
    BY <1>17, <2>1, <2>2, Zenon DEF Held
<1> QED
  BY <1>2, <1>9, <1>15, <1>16, <1>18, <1>21, <1>22, Zenon DEF Sound

\* What the table that replaces a full one is while the slots of the old one
\* are moved: i of them are done.
Moved(old, new, i) ==
    /\ Sound(new) /\ new.len <= i
    /\ Held(new) = {old.slots[j] : j \in Occupied(old) \cap (0 .. i - 1)}

\* An empty table.
LEMMA FreshSound ==
    ASSUME NEW c \in Nat, c > 0
    PROVE  LET new == [cap |-> c, len |-> 0, slots |-> [k \in 0 .. c - 1 |-> Free]]
           IN  Sound(new) /\ Held(new) = {}
<1> DEFINE new == [cap |-> c, len |-> 0, slots |-> [k \in 0 .. c - 1 |-> Free]]
<1>1. Occupied(new) = {}
  BY Zenon DEF Occupied
<1>2. Sized(new)
  BY Zenon DEF Sized
<1>3. new.len = Cardinality(Occupied(new))
  <2>1. new.len = 0
    BY Zenon
  <2> HIDE DEF new
  <2> QED
    BY <1>1, <2>1, FS_EmptySet, Zenon
<1> HIDE DEF new
<1>4. Sound(new) /\ Held(new) = {}
  BY <1>1, <1>2, <1>3, Zenon DEF Sound, Held
<1> QED
  BY <1>4, Zenon DEF new

\* exact_set_grow: the larger table holds the same domains.
LEMMA GrowSound ==
    ASSUME NEW set, Sound(set) \/ set = EmptySet
    PROVE  /\ Sound(Grow(set)) /\ Held(Grow(set)) = Held(set)
           /\ Grow(set).cap = IF set.cap = 0 THEN InitialCap ELSE set.cap * 2
           /\ Grow(set).len <= set.cap
<1>1. PICK c : c = IF set.cap = 0 THEN InitialCap ELSE set.cap * 2
  BY Zenon
<1>2. PICK n : n = set.cap
  BY Zenon
<1>3. n \in Nat /\ c \in Nat /\ c > n /\ c > 0
  <2>1. set.cap \in Nat
    <3>1. CASE Sound(set)
      BY <3>1, Zenon DEF Sound, Sized
    <3>2. CASE set = EmptySet
      BY <3>2, Zenon DEF EmptySet
    <3> QED
      BY <3>1, <3>2, Zenon
  <2> QED
    BY <1>1, <1>2, <2>1, IndexAssumption
<1>4. PICK fresh : fresh = [cap |-> c, len |-> 0, slots |-> [k \in 0 .. c - 1 |-> Free]]
  BY Zenon
<1>5. PICK old : old = set.slots
  BY Zenon
<1>6. \A i \in 0 .. n - 1 : old[i] \in Names \cup {Free}
  <2>1. CASE Sound(set)
    <3>1. old \in [0 .. n - 1 -> Names \cup {Free}]
      BY <1>2, <1>5, <2>1, Zenon DEF Sound, Sized
    <3> QED
      BY <3>1, Zenon
  <2>2. CASE set = EmptySet
    <3>1. n = 0
      BY <1>2, <2>2, Zenon DEF EmptySet
    <3> QED
      BY <3>1
  <2> QED
    BY <2>1, <2>2, Zenon
<1> DEFINE G == [cap : {c}, len : Nat, slots : [0 .. c - 1 -> Names \cup {Free}]]
           next(a, i) == IF old[i - 1] = Free THEN a ELSE Put(a, old[i - 1])
           Made(f) == [i \in 0 .. n |-> IF i = 0 THEN fresh ELSE next(f[i - 1], i)]
           step == [i \in 1 .. n |-> [a \in G |-> next(a, i)]]
<1>7. Grow(set) = (CHOOSE f : f = Made(f))[n]
  BY <1>1, <1>2, <1>4, <1>5, Zenon DEF Grow
<1>8. fresh \in G
  BY <1>3, <1>4, Zenon
<1>9. ASSUME NEW a \in G, NEW i \in 1 .. n PROVE next(a, i) \in G
  <2>1. i - 1 \in 0 .. n - 1
    BY <1>3
  <2>2. CASE old[i - 1] = Free
    BY <2>2, Zenon
  <2>3. CASE old[i - 1] # Free
    <3>1. old[i - 1] \in Names
      BY <1>6, <2>1, <2>3, Zenon
    <3>2. PICK s, x : s = old[i - 1] /\ x = Probe(a, s)
      BY Zenon
    <3>3. next(a, i) = [a EXCEPT !.slots[x] = s, !.len = @ + 1]
      BY <2>3, <3>2, Zenon DEF Put
    <3>4. PICK l, h : l = a.len /\ h = a.slots
      BY Zenon
    <3>5. a = [cap |-> c, len |-> l, slots |-> h] /\ l \in Nat /\ h \in [0 .. c - 1 -> Names \cup {Free}]
      BY <3>4, Zenon
    <3>h. PICK e : e = [h EXCEPT ![x] = s]
      BY Zenon
    <3>6. next(a, i) = [cap |-> c, len |-> l + 1, slots |-> e]
      <4> HIDE DEF next
      <4> QED
        BY <3>3, <3>5, <3>h, Zenon
    <3>7. e \in [0 .. c - 1 -> Names \cup {Free}]
      <4>1. s \in Names \cup {Free}
        BY <3>1, <3>2, Zenon
      <4>2. e = [y \in 0 .. c - 1 |-> IF y = x THEN s ELSE h[y]]
        BY <3>5, <3>h, Zenon
      <4>3. \A y \in 0 .. c - 1 : h[y] \in Names \cup {Free}
        BY <3>5, Zenon
      <4> QED
        BY <4>1, <4>2, <4>3, Zenon
    <3> HIDE DEF next
    <3> QED
      BY <3>5, <3>6, <3>7
  <2> QED
    BY <2>2, <2>3, Zenon
<1> HIDE DEF next, G
<1>10. step \in [1 .. n -> [G -> G]]
  BY <1>9, Zenon
<1>11. PICK f : IsRun(f, G, fresh, n, step)
  <2> HIDE DEF step
  <2> QED
    BY <1>3, <1>8, <1>10, Recursion, Zenon
<1>12. f \in [0 .. n -> G] /\ f[0] = fresh /\ \A i \in 1 .. n : f[i] = step[i][f[i - 1]]
  BY <1>11, Zenon DEF IsRun
<1>13. \A i \in 1 .. n : f[i] = next(f[i - 1], i)
  <2> SUFFICES ASSUME NEW i \in 1 .. n PROVE f[i] = next(f[i - 1], i)
    BY Zenon
  <2>1. i - 1 \in 0 .. n
    BY <1>3
  <2>2. f[i - 1] \in G
    BY <1>12, <2>1, Zenon
  <2> QED
    BY <1>12, <2>2, Zenon
<1>14. f = Made(f)
  <2>1. \A i \in 0 .. n : i # 0 => i \in 1 .. n
    BY <1>3
  <2>2. \A i \in 0 .. n : f[i] = IF i = 0 THEN fresh ELSE next(f[i - 1], i)
    BY <1>12, <1>13, <2>1, Zenon
  <2> QED
    BY <1>12, <2>2, Zenon
<1>15. PICK g : g = CHOOSE h : h = Made(h)
  BY Zenon
<1>16. g = Made(g)
  BY <1>14, <1>15, Zenon
<1> DEFINE T == {i \in Nat : i <= n => Moved(set, g[i], i) /\ g[i].cap = c}
<1>17. 0 \in T
  <2>1. 0 \in 0 .. n /\ 0 - 1 < 0
    BY <1>3
  <2>2. g[0] = Made(g)[0]
    BY <1>16, Zenon
  <2>3. Made(g)[0] = fresh
    BY <2>1, Zenon
  <2>4. g[0] = fresh
    BY <2>2, <2>3, Zenon
  <2>5. Sound(fresh) /\ Held(fresh) = {}
    BY <1>3, <1>4, FreshSound, Zenon
  <2>6. fresh.cap = c /\ fresh.len <= 0 /\ 0 .. 0 - 1 = {} /\ 0 \in Nat
    BY <1>4
  <2> QED
    BY <2>4, <2>5, <2>6, Zenon DEF Moved
<1>18. ASSUME NEW i \in Nat, i \in T PROVE i + 1 \in T
  <2> SUFFICES ASSUME i + 1 <= n PROVE Moved(set, g[i + 1], i + 1) /\ g[i + 1].cap = c
    BY <1>3
  <2>1. Moved(set, g[i], i) /\ g[i].cap = c
    <3>1. i <= n
      BY <1>3
    <3> QED
      BY <1>18, <3>1, Zenon
  <2>2. i + 1 \in 0 .. n /\ i + 1 # 0 /\ (i + 1) - 1 = i /\ i \in 0 .. n - 1 /\ i < c
    BY <1>3
  <2>3. g[i + 1] = Made(g)[i + 1]
    BY <1>16, Zenon
  <2>4. Made(g)[i + 1] = next(g[(i + 1) - 1], i + 1)
    BY <2>2, Zenon
  <2>5. g[i + 1] = IF old[i] = Free THEN g[i] ELSE Put(g[i], old[i])
    BY <2>2, <2>3, <2>4, Zenon DEF next
  <2>6. PICK a, b, m : a = g[i] /\ b = g[i + 1] /\ m = a.len
    BY Zenon
  <2>7. Sound(a) /\ m <= i /\ a.cap = c
        /\ Held(a) = {old[j] : j \in Occupied(set) \cap (0 .. i - 1)}
    BY <1>5, <2>1, <2>6, Zenon DEF Moved
  <2>8. m \in Nat
    BY <2>6, <2>7, Zenon DEF Sound, Sized
  <2>9. 0 .. (i + 1) - 1 = (0 .. i - 1) \cup {i} /\ m <= i + 1 /\ m + 1 <= i + 1 /\ m < c
    BY <1>3, <2>2, <2>7, <2>8
  <2>10. CASE old[i] = Free
    <3>1. b = a
      BY <2>5, <2>6, <2>10, Zenon
    <3>2. i \notin Occupied(set)
      BY <1>5, <2>10, Zenon DEF Occupied
    <3>3. Occupied(set) \cap (0 .. (i + 1) - 1) = Occupied(set) \cap (0 .. i - 1)
      BY <2>9, <3>2, Zenon
    <3>4. Held(b) = {set.slots[j] : j \in Occupied(set) \cap (0 .. (i + 1) - 1)}
      BY <1>5, <2>7, <3>1, <3>3, Zenon
    <3> QED
      BY <2>6, <2>7, <2>9, <3>1, <3>4, Zenon DEF Moved
  <2>11. CASE old[i] # Free
    <3>1. b = Put(a, old[i])
      BY <2>5, <2>6, <2>11, Zenon
    <3>2. i \in Occupied(set) /\ old[i] \in Names
      BY <1>2, <1>5, <1>6, <2>2, <2>11, Zenon DEF Occupied
    <3>3. old[i] \notin Held(a)
      <4> SUFFICES ASSUME NEW j \in Occupied(set) \cap (0 .. i - 1), old[j] = old[i] PROVE FALSE
        BY <2>7, Zenon
      <4>1. Sound(set)
        <5>1. set # EmptySet
          <6>1. EmptySet.cap = 0
            BY Zenon DEF EmptySet
          <6>2. n # 0
            BY <1>3, <2>2
          <6> QED
            BY <1>2, <6>1, <6>2, Zenon
        <5> QED
          BY <5>1, Zenon
      <4>2. Stops(set, old[i], i) /\ Stops(set, old[i], j)
        BY <1>5, <3>2, <4>1, Zenon DEF Sound
      <4>3. i = j
        <5>1. Probe(set, old[i]) = i /\ Probe(set, old[i]) = j
          BY <3>2, <4>1, <4>2, ProbeIs, Zenon DEF Sound
        <5> QED
          BY <5>1, Zenon
      <4>4. j < i
        BY <1>3
      <4> QED
        BY <4>3, <4>4
    <3>4. Sound(b) /\ Held(b) = Held(a) \cup {old[i]} /\ b.cap = c /\ b.len = m + 1
      <4>1. a.len < a.cap
        BY <2>6, <2>7, <2>9, Zenon
      <4>2. PICK s : s = old[i]
        BY Zenon
      <4>3. s \in Names /\ s \notin Held(a)
        BY <3>2, <3>3, <4>2, Zenon
      <4>4. /\ Sound(Put(a, s)) /\ Held(Put(a, s)) = Held(a) \cup {s}
            /\ Put(a, s).cap = a.cap /\ Put(a, s).len = a.len + 1
        BY <2>7, <4>1, <4>3, PutSound, Zenon
      <4> QED
        BY <2>6, <2>7, <3>1, <4>2, <4>4, Zenon
    <3>5. Held(b) = {set.slots[j] : j \in Occupied(set) \cap (0 .. (i + 1) - 1)}
      <4>1. Occupied(set) \cap (0 .. (i + 1) - 1) = (Occupied(set) \cap (0 .. i - 1)) \cup {i}
        BY <2>9, <3>2, Zenon
      <4>2. PICK A : A = Occupied(set) \cap (0 .. i - 1)
        BY Zenon
      <4>3. {old[j] : j \in A \cup {i}} = {old[j] : j \in A} \cup {old[i]}
        BY Zenon
      <4> QED
        BY <1>5, <2>7, <3>4, <4>1, <4>2, <4>3, Zenon
    <3> QED
      BY <2>6, <2>9, <3>4, <3>5, Zenon DEF Moved
  <2> QED
    BY <2>10, <2>11, Zenon
<1>19. n \in T
  <2> HIDE DEF T
  <2> QED
    BY <1>3, <1>17, <1>18, CountUp, Zenon
<1>20. Moved(set, g[n], n) /\ g[n].cap = c
  <2>1. n <= n
    BY <1>3
  <2> QED
    BY <1>19, <2>1, Zenon
<1>21. Grow(set) = g[n]
  BY <1>7, <1>15, Zenon
<1>22. Occupied(set) \cap (0 .. n - 1) = Occupied(set)
  BY <1>2, Zenon DEF Occupied
<1>23. Held(g[n]) = Held(set)
  BY <1>20, <1>22, Zenon DEF Moved, Held
<1> QED
  BY <1>1, <1>2, <1>20, <1>21, <1>23, Zenon DEF Moved

\* Where probing stops tells whether s is there.
LEMMA HeldIs ==
    ASSUME NEW set, Sound(set), set.len < set.cap, NEW s \in Names
    PROVE  set.slots[Probe(set, s)] = s <=> s \in Held(set)
<1>1. Sized(set) /\ set.len = Cardinality(Occupied(set))
      /\ \A i \in Occupied(set) : Stops(set, set.slots[i], i)
  BY Zenon DEF Sound
<1>2. PICK free \in 0 .. set.cap - 1 : set.slots[free] = Free
  BY <1>1, OccupiedIs, Zenon
<1>3. set.slots[free] \in {Free, s} /\ s # Free
  BY <1>2, IndexAssumption, Zenon
<1>4. Stops(set, s, Probe(set, s))
  BY <1>1, <1>3, Finds, Zenon
<1>5. ASSUME set.slots[Probe(set, s)] = s PROVE s \in Held(set)
  BY <1>3, <1>4, <1>5, Zenon DEF Stops, Held, Occupied
<1>6. ASSUME NEW i \in Occupied(set), s = set.slots[i] PROVE set.slots[Probe(set, s)] = s
  <2>1. Stops(set, s, i)
    BY <1>1, <1>6, Zenon
  <2>2. Probe(set, s) = i
    BY <1>1, <2>1, ProbeIs, Zenon
  <2> QED
    BY <1>6, <2>2, Zenon
<1> QED
  BY <1>5, <1>6, Zenon DEF Held

\* The set of exact domains as it is between two calls.
ExactOK(set) == set = EmptySet \/ (Sound(set) /\ set.len < set.cap /\ set.cap >= 4)

\* There is nothing in the set at first.
LEMMA NothingHeld == Held(EmptySet) = {}
<1>1. Occupied(EmptySet) = {}
  BY DEF Occupied, EmptySet
<1> QED
  BY <1>1, Zenon DEF Held

\* exact_set_insert.
LEMMA ExactInsertIs ==
    ASSUME NEW set, ExactOK(set), NEW s \in Names
    PROVE  ExactOK(ExactInsert(set, s)) /\ Held(ExactInsert(set, s)) = Held(set) \cup {s}
<1>1. PICK room : room = IF set.cap = 0 \/ set.len * 4 >= set.cap * 3 THEN Grow(set) ELSE set
  BY Zenon
<1>2. Sound(room) /\ room.len + 1 < room.cap /\ room.cap >= 4 /\ Held(room) = Held(set)
  <2>1. CASE room = Grow(set)
    <3>1. /\ Sound(room) /\ Held(room) = Held(set)
          /\ room.cap = IF set.cap = 0 THEN InitialCap ELSE set.cap * 2
          /\ room.len <= set.cap
      BY <2>1, GrowSound, Zenon DEF ExactOK
    <3>2. PICK l, c, n : l = room.len /\ c = room.cap /\ n = set.cap
      BY Zenon
    <3>3. l \in Nat /\ c \in Nat
      BY <3>1, <3>2, Zenon DEF Sound, Sized
    <3>4. n = 0 \/ (n \in Nat /\ n >= 4)
      <4>1. CASE set = EmptySet
        BY <3>2, <4>1, Zenon DEF EmptySet
      <4>2. CASE Sound(set) /\ set.cap >= 4
        BY <3>2, <4>2, Zenon DEF Sound, Sized
      <4> QED
        BY <4>1, <4>2, Zenon DEF ExactOK
    <3>5. l <= n /\ c = IF n = 0 THEN InitialCap ELSE n * 2
      BY <3>1, <3>2, Zenon
    <3>6. l + 1 < c /\ c >= 4
      BY <3>3, <3>4, <3>5, IndexAssumption
    <3> QED
      BY <3>1, <3>2, <3>6, Zenon
  <2>2. CASE room = set /\ set.cap # 0 /\ ~(set.len * 4 >= set.cap * 3)
    <3>1. set # EmptySet
      BY <2>2 DEF EmptySet
    <3>2. Sound(set) /\ set.cap >= 4
      BY <3>1, Zenon DEF ExactOK
    <3>3. PICK l, c : l = set.len /\ c = set.cap
      BY Zenon
    <3>4. l \in Nat /\ c \in Nat /\ c >= 4 /\ ~(l * 4 >= c * 3)
      BY <2>2, <3>2, <3>3, Zenon DEF Sound, Sized
    <3>5. l + 1 < c
      BY <3>4
    <3> QED
      BY <2>2, <3>2, <3>3, <3>5, Zenon
  <2> QED
    BY <1>1, <2>1, <2>2, Zenon
<1>3. PICK l, c : l = room.len /\ c = room.cap
  BY Zenon
<1>4. l \in Nat /\ c \in Nat
  BY <1>2, <1>3, Zenon DEF Sound, Sized
<1>5. l < c /\ l + 1 < c
  BY <1>2, <1>3, <1>4
<1>6. ExactInsert(set, s) = IF room.slots[Probe(room, s)] = s THEN room ELSE Put(room, s)
  BY <1>1, Zenon DEF ExactInsert
<1>7. room.slots[Probe(room, s)] = s <=> s \in Held(room)
  BY <1>2, <1>3, <1>5, HeldIs, Zenon
<1>8. CASE s \in Held(room)
  <2>1. ExactInsert(set, s) = room
    BY <1>6, <1>7, <1>8, Zenon
  <2>2. Held(room) = Held(room) \cup {s}
    BY <1>8, Zenon
  <2> QED
    BY <1>2, <1>3, <1>5, <2>1, <2>2, Zenon DEF ExactOK
<1>9. CASE s \notin Held(room)
  <2>1. ExactInsert(set, s) = Put(room, s)
    BY <1>6, <1>7, <1>9, Zenon
  <2>2. /\ Sound(Put(room, s)) /\ Held(Put(room, s)) = Held(room) \cup {s}
        /\ Put(room, s).cap = room.cap /\ Put(room, s).len = room.len + 1
    BY <1>2, <1>3, <1>5, <1>9, PutSound, Zenon
  <2> QED
    BY <1>2, <2>1, <2>2, Zenon DEF ExactOK
<1> QED
  BY <1>8, <1>9, Zenon

\* exact_set_contains.
LEMMA ExactContainsIs ==
    ASSUME NEW set, ExactOK(set), NEW s \in Names
    PROVE  ExactContains(set, s) <=> s \in Held(set)
<1>1. CASE set = EmptySet
  <2>1. set.cap = 0
    BY <1>1, Zenon DEF EmptySet
  <2> QED
    BY <1>1, <2>1, NothingHeld, Zenon DEF ExactContains
<1>2. CASE Sound(set) /\ set.len < set.cap
  <2>1. set.cap # 0
    BY <1>2 DEF Sound, Sized
  <2> QED
    BY <1>2, <2>1, HeldIs, Zenon DEF ExactContains
<1> QED
  BY <1>1, <1>2, Zenon DEF ExactOK

-----------------------------------------------------------------------------
\* The namespaces.

\* A namespace that does not begin with a dot.
Plain(r) == r \in Seq(Range(r)) /\ (r = <<>> \/ r[1] # ".")

Nodes(r) == {Node(r, i) : i \in Labels(r)}

\* The trie of the namespaces R.
TrieOf(t, R) ==
    t = [nodes |-> UNION {Nodes(r) : r \in R \ {<<>>}}, terminal |-> R \ {<<>>},
         hasEmptyRule |-> <<>> \in R]

\* ns_trie_insert.
LEMMA TrieInsertIs ==
    ASSUME NEW t, NEW R, TrieOf(t, R), NEW r, Plain(r)
    PROVE  TrieOf(TrieInsert(t, r), R \cup {r})
<1>1. PICK N, E, h : N = t.nodes /\ E = t.terminal /\ h = t.hasEmptyRule
  BY Zenon
<1>2. t = [nodes |-> N, terminal |-> E, hasEmptyRule |-> h]
      /\ N = UNION {Nodes(q) : q \in R \ {<<>>}} /\ E = R \ {<<>>} /\ h = (<<>> \in R)
  BY <1>1, Zenon DEF TrieOf
<1>3. CASE r = <<>>
  <2>1. TrieInsert(t, r) = [nodes |-> N, terminal |-> E, hasEmptyRule |-> TRUE]
    BY <1>2, <1>3, Zenon DEF TrieInsert
  <2>2. (R \cup {r}) \ {<<>>} = R \ {<<>>} /\ (<<>> \in R \cup {r}) = TRUE
    BY <1>3, Zenon
  <2> QED
    BY <1>2, <2>1, <2>2, Zenon DEF TrieOf
<1>4. CASE r # <<>>
  <2> DEFINE low == {j \in Labels(r) : \A k \in Labels(r) : j <= k}
             ends == {Node(r, i) : i \in low}
  <2>1. TrieInsert(t, r) = [nodes |-> N \cup Nodes(r), terminal |-> E \cup ends, hasEmptyRule |-> h]
    <3>1. TrieInsert(t, r) = [t EXCEPT !.nodes = @ \cup Nodes(r), !.terminal = @ \cup ends]
      BY <1>4, Zenon DEF TrieInsert, Nodes
    <3> HIDE DEF ends
    <3> QED
      BY <1>2, <3>1, Zenon
  <2>2. PICK W : r \in Seq(W)
    BY Zenon DEF Plain
  <2>3. Len(r) \in Nat /\ 0 \in Labels(r) /\ \A k \in Labels(r) : k \in Nat
    BY <1>4, <2>2 DEF Labels, Plain
  <2>4. low = {0}
    BY <2>3
  <2>5. Node(r, 0) = r
    BY <2>2 DEF Node
  <2>6. ends = {r}
    <3> HIDE DEF low
    <3> QED
      BY <2>4, <2>5, Zenon
  <2> HIDE DEF ends, low
  <2>7. (R \cup {r}) \ {<<>>} = (R \ {<<>>}) \cup {r} /\ (<<>> \in R \cup {r}) = (<<>> \in R)
    <3>1. PICK e : e = <<>>
      BY Zenon
    <3>2. e # r
      BY <1>4, <3>1, Zenon
    <3>3. (R \cup {r}) \ {e} = (R \ {e}) \cup {r}
      BY <3>2, Zenon
    <3>4. (e \in R \cup {r}) = (e \in R)
      BY <3>2
    <3> QED
      BY <3>1, <3>3, <3>4, Zenon
  <2>8. UNION {Nodes(q) : q \in (R \ {<<>>}) \cup {r}} = N \cup Nodes(r)
    BY <1>2, Zenon
  <2> QED
    BY <1>2, <2>1, <2>6, <2>7, <2>8, Zenon DEF TrieOf
<1> QED
  BY <1>3, <1>4, Zenon

\* A namespace is matched where a label begins, and from there on to the right
\* name and namespace have the same labels.
LEMMA NamespaceAt ==
    ASSUME NEW r, Plain(r), r # <<>>, NEW d, d \in Seq(Range(d))
    PROVE  /\ NamespaceMatch(r, d) <=> \E i \in Labels(d) : Node(d, i) = r
           /\ \A i, j \in Labels(d) : Node(d, i) = r /\ j >= i => Node(d, j) \in Nodes(r)
<1>1. PICK W : r \in Seq(W) /\ d \in Seq(W)
  <2>1. PICK A, B : A = Range(r) /\ B = Range(d)
    BY Zenon
  <2>2. r \in Seq(A) /\ d \in Seq(B)
    BY <2>1, Zenon DEF Plain
  <2>3. PICK C : C = A \cup B
    BY Zenon
  <2>4. r \in Seq(C) /\ d \in Seq(C)
    <3>1. A \subseteq C /\ B \subseteq C
      BY <2>3, Zenon
    <3> QED
      BY <2>2, <3>1
  <2> QED
    BY <2>4, Zenon
<1>2. PICK m, n : m = Len(r) /\ n = Len(d)
  BY Zenon
<1>3. m \in Nat /\ n \in Nat /\ m > 0 /\ r[1] # "."
  <2>1. r[1] # "."
    BY Zenon DEF Plain
  <2> QED
    BY <1>1, <1>2, <2>1
<1>r. \A i \in 0 .. m :
          /\ SubSeq(r, i + 1, m) \in Seq(W) /\ Len(SubSeq(r, i + 1, m)) = m - i
          /\ \A k \in 1 .. m - i : SubSeq(r, i + 1, m)[k] = r[i + k]
  BY <1>1, <1>2, SuffixIs
<1>d. \A i \in 0 .. n :
          /\ SubSeq(d, i + 1, n) \in Seq(W) /\ Len(SubSeq(d, i + 1, n)) = n - i
          /\ \A k \in 1 .. n - i : SubSeq(d, i + 1, n)[k] = d[i + k]
  BY <1>1, <1>2, SuffixIs
<1>4. \A i : i \in Labels(d) <=> i \in 0 .. n /\ IF i = 0 THEN d # <<>> /\ d[1] # "." ELSE d[i] = "."
  BY <1>2, Zenon DEF Labels
<1>5. \A i : i \in Labels(r) <=> i \in 0 .. m /\ IF i = 0 THEN r # <<>> /\ r[1] # "." ELSE r[i] = "."
  BY <1>2, Zenon DEF Labels
<1>6. ASSUME NEW i \in 0 .. n, Node(d, i) = r
      PROVE  n = i + m /\ \A k \in 1 .. m : r[k] = d[i + k]
  <2>1. SubSeq(d, i + 1, n) = r
    BY <1>2, <1>6, Zenon DEF Node
  <2>2. Len(SubSeq(d, i + 1, n)) = n - i /\ \A k \in 1 .. n - i : SubSeq(d, i + 1, n)[k] = d[i + k]
    BY <1>d, Zenon
  <2>3. m = n - i /\ \A k \in 1 .. n - i : r[k] = d[i + k]
    BY <1>2, <2>1, <2>2, Zenon
  <2>4. n = i + m
    BY <1>3, <2>3
  <2> QED
    BY <2>3, <2>4, Zenon
<1>7. ASSUME NEW i \in Labels(d), Node(d, i) = r PROVE NamespaceMatch(r, d)
  <2>1. i \in 0 .. n /\ n = i + m
    BY <1>4, <1>6, <1>7, Zenon
  <2>2. CASE i = 0
    <3>1. Node(d, i) = d
      BY <1>1, <1>2, <2>2 DEF Node
    <3> QED
      BY <1>7, <3>1, Zenon DEF NamespaceMatch
  <2>3. CASE i # 0
    <3>1. d[i] = "."
      BY <1>4, <2>3, Zenon
    <3>2. n >= m + 1 /\ n - m = i /\ n - m + 1 = i + 1
      BY <1>3, <2>1, <2>3
    <3>3. SubSeq(d, n - m + 1, n) = r
      BY <1>2, <1>7, <3>2, Zenon DEF Node
    <3> QED
      BY <1>2, <3>1, <3>2, <3>3, Zenon DEF NamespaceMatch
  <2> QED
    BY <2>2, <2>3, Zenon
<1>8. ASSUME NamespaceMatch(r, d) PROVE \E i \in Labels(d) : Node(d, i) = r
  <2>1. CASE d = r
    <3>1. Node(d, 0) = d
      BY <1>1 DEF Node
    <3>2. 0 \in Labels(d)
      <4>1. 0 \in 0 .. n
        BY <1>3
      <4> QED
        BY <1>3, <1>4, <2>1, <4>1, Zenon
    <3> QED
      BY <2>1, <3>1, <3>2, Zenon
  <2>2. CASE n >= m + 1 /\ d[n - m] = "." /\ SubSeq(d, n - m + 1, n) = r
    <3>1. n - m \in 0 .. n /\ n - m # 0
      BY <1>3, <2>2
    <3>2. n - m \in Labels(d)
      BY <1>4, <2>2, <3>1, Zenon
    <3>3. Node(d, n - m) = r
      BY <1>2, <2>2, Zenon DEF Node
    <3> QED
      BY <3>2, <3>3, Zenon
  <2> QED
    BY <1>2, <1>8, <2>1, <2>2, Zenon DEF NamespaceMatch
<1>9. ASSUME NEW i \in Labels(d), NEW j \in Labels(d), Node(d, i) = r, j >= i
      PROVE  Node(d, j) \in Nodes(r)
  <2>1. i \in 0 .. n /\ j \in 0 .. n /\ n = i + m /\ \A k \in 1 .. m : r[k] = d[i + k]
    BY <1>4, <1>6, <1>9, Zenon
  <2>2. j - i \in 0 .. m
    BY <1>3, <1>9, <2>1
  <2>3. j - i \in Labels(r)
    <3>1. CASE j = i
      <4>1. j - i = 0
        BY <2>1, <3>1
      <4> QED
        BY <1>3, <1>5, <2>2, <4>1, Zenon
    <3>2. CASE j # i
      <4>1. j - i # 0 /\ j - i \in 1 .. m /\ i + (j - i) = j /\ j # 0
        BY <1>3, <1>9, <2>1, <3>2
      <4>2. d[j] = "."
        BY <1>4, <4>1, Zenon
      <4>3. r[j - i] = "."
        BY <2>1, <4>1, <4>2, Zenon
      <4> QED
        BY <1>5, <2>2, <4>1, <4>3, Zenon
    <3> QED
      BY <3>1, <3>2, Zenon
  <2>4. Node(r, j - i) = Node(d, j)
    <3>1. r = SubSeq(d, i + 1, n)
      BY <1>2, <1>9, Zenon DEF Node
    <3>2. PICK l : l = j - i
      BY Zenon
    <3>3. l \in 0 .. m /\ j = i + l
      BY <2>1, <2>2, <3>2
    <3>4. Len(SubSeq(r, l + 1, m)) = m - l /\ \A k \in 1 .. m - l : SubSeq(r, l + 1, m)[k] = r[l + k]
      BY <1>r, <3>3, Zenon
    <3>5. Len(SubSeq(d, j + 1, n)) = n - j /\ \A k \in 1 .. n - j : SubSeq(d, j + 1, n)[k] = d[j + k]
      BY <1>d, <2>1, Zenon
    <3>6. SubSeq(r, l + 1, m) \in Seq(W) /\ SubSeq(d, j + 1, n) \in Seq(W)
      BY <1>r, <1>d, <2>1, <3>3, Zenon
    <3>7. n - j = m - l /\ \A k \in 1 .. m - l : r[l + k] = d[j + k]
      <4>1. n - j = m - l
        BY <1>3, <2>1, <3>3
      <4>2. ASSUME NEW k \in 1 .. m - l PROVE r[l + k] = d[j + k]
        <5>1. l + k \in 1 .. m /\ i + (l + k) = j + k
          BY <1>3, <2>1, <3>3
        <5> QED
          BY <2>1, <5>1, Zenon
      <4> QED
        BY <4>1, <4>2, Zenon
    <3>8. SubSeq(r, l + 1, m) = SubSeq(d, j + 1, n)
      <4>1. PICK a, b : a = SubSeq(r, l + 1, m) /\ b = SubSeq(d, j + 1, n)
        BY Zenon
      <4>2. a \in Seq(W) /\ b \in Seq(W) /\ Len(a) = Len(b) /\ \A k \in 1 .. Len(a) : a[k] = b[k]
        BY <3>4, <3>5, <3>6, <3>7, <4>1, Zenon
      <4>3. a = b
        BY <4>2
      <4> QED
        BY <4>1, <4>3, Zenon
    <3> QED
      BY <1>2, <3>2, <3>8, Zenon DEF Node
  <2> QED
    BY <2>3, <2>4, Zenon DEF Nodes
<1> QED
  BY <1>7, <1>8, <1>9, Zenon

\* ns_trie_match.
LEMMA TrieMatchIs ==
    ASSUME NEW t, NEW R, TrieOf(t, R), \A r \in R : Plain(r), NEW d, d \in Seq(Range(d))
    PROVE  TrieMatch(t, d) <=> \E r \in R : NamespaceMatch(r, d)
<1>1. t.terminal = R \ {<<>>} /\ t.nodes = UNION {Nodes(r) : r \in R \ {<<>>}}
      /\ (t.hasEmptyRule <=> <<>> \in R)
  BY Zenon DEF TrieOf
<1>2. NamespaceMatch(<<>>, d) <=> d = <<>> \/ d[Len(d)] = "."
  <2>1. PICK W : d \in Seq(W)
    BY Zenon
  <2>2. Len(<<>>) = 0 /\ Len(d) \in Nat /\ Len(d) - 0 = Len(d)
    BY <2>1
  <2>3. d # <<>> => Len(d) >= 0 + 1 /\ SubSeq(d, Len(d) + 1, Len(d)) = <<>>
    BY <2>1
  <2> QED
    BY <2>2, <2>3, Zenon DEF NamespaceMatch
<1>3. ASSUME TrieMatch(t, d) PROVE \E r \in R : NamespaceMatch(r, d)
  <2>1. CASE t.hasEmptyRule /\ (d = <<>> \/ d[Len(d)] = ".")
    BY <1>1, <1>2, <2>1, Zenon
  <2>2. ASSUME NEW i \in Labels(d), Node(d, i) \in t.terminal PROVE \E r \in R : NamespaceMatch(r, d)
    <3>1. PICK r : r = Node(d, i)
      BY Zenon
    <3>2. r \in R /\ r # <<>>
      BY <1>1, <2>2, <3>1, Zenon
    <3> QED
      BY <3>1, <3>2, NamespaceAt, Zenon
  <2> QED
    BY <1>3, <2>1, <2>2, Zenon DEF TrieMatch
<1>4. ASSUME NEW r \in R, NamespaceMatch(r, d) PROVE TrieMatch(t, d)
  <2>1. CASE r = <<>>
    BY <1>1, <1>2, <1>4, <2>1, Zenon DEF TrieMatch
  <2>2. CASE r # <<>>
    <3>1. PICK i \in Labels(d) : Node(d, i) = r
      BY <1>4, <2>2, NamespaceAt, Zenon
    <3>2. \A j \in Labels(d) : j >= i => Node(d, j) \in Nodes(r)
      BY <2>2, <3>1, NamespaceAt, Zenon
    <3>3. Nodes(r) \subseteq t.nodes /\ r \in t.terminal
      BY <1>1, <2>2, Zenon
    <3> QED
      BY <3>1, <3>2, <3>3, Zenon DEF TrieMatch
  <2> QED
    BY <2>1, <2>2, Zenon
<1> QED
  BY <1>3, <1>4, Zenon

-----------------------------------------------------------------------------
\* The index of a group.

AllRules == UNION {Range(list) : list \in RuleLists}

Texts(E, type) == {r.text : r \in {q \in E : q.type = type}}

\* m is the index of the rules E.
Indexed(m, E) ==
    /\ m = [exact |-> m.exact, ns |-> m.ns, scan |-> m.scan]
    /\ ExactOK(m.exact) /\ Held(m.exact) = Texts(E, "domain")
    /\ TrieOf(m.ns, Texts(E, "namespace"))
    /\ m.scan \in Seq(AllRules) /\ Range(m.scan) = {q \in E : q.type \in {"wildcard", "regex"}}

Enabled == {rules[i] : i \in {k \in DOMAIN rules : rules[k].enable}}

IInv == rules \in Seq(AllRules) /\ Indexed(matcher, Enabled)

\* What the texts are that mt_matcher_add gets.
LEMMA RuleTexts ==
    ASSUME NEW rule \in AllRules
    PROVE  /\ rule.type = "domain" => rule.text \in Names
           /\ rule.type = "namespace" => Plain(rule.text)
<1>1. PICK list \in RuleLists : rule \in Range(list)
  BY Zenon DEF AllRules
<1>2. PICK i \in DOMAIN list : rule = list[i]
  BY <1>1, Zenon DEF Range
<1> QED
  BY <1>2, IndexAssumption, Zenon DEF Plain

\* The texts of one type among the rules and one more: it is of that type, or
\* it is not (TextsSame).
LEMMA TextsMore ==
    ASSUME NEW E, NEW rule, NEW type, rule.type = type
    PROVE  Texts(E \cup {rule}, type) = Texts(E, type) \cup {rule.text}
<1>1. {q \in E \cup {rule} : q.type = type} = {q \in E : q.type = type} \cup {rule}
  BY Zenon
<1> QED
  BY <1>1, Zenon DEF Texts

\* The texts of another type are the same with the rule and without it.
LEMMA TextsSame ==
    ASSUME NEW E, NEW rule, NEW type, rule.type # type
    PROVE  Texts(E \cup {rule}, type) = Texts(E, type)
<1>1. {q \in E \cup {rule} : q.type = type} = {q \in E : q.type = type}
  BY Zenon
<1> QED
  BY <1>1, Zenon DEF Texts

\* The list that is scanned gets one rule more.
LEMMA RangeAppend ==
    ASSUME NEW S, NEW s \in Seq(S), NEW e \in S
    PROVE  Append(s, e) \in Seq(S) /\ Range(Append(s, e)) = Range(s) \cup {e}
<1>1. Append(s, e) \in Seq(S) /\ DOMAIN Append(s, e) = 1 .. Len(s) + 1
      /\ Append(s, e)[Len(s) + 1] = e /\ \A i \in 1 .. Len(s) : Append(s, e)[i] = s[i]
  OBVIOUS
<1>2. DOMAIN s = 1 .. Len(s) /\ 1 .. Len(s) + 1 = (1 .. Len(s)) \cup {Len(s) + 1}
  OBVIOUS
<1>3. PICK a, n, D : a = Append(s, e) /\ n = Len(s) + 1 /\ D = 1 .. Len(s)
  BY Zenon
<1>4. DOMAIN a = D \cup {n} /\ DOMAIN s = D /\ a[n] = e /\ \A i \in D : a[i] = s[i]
  BY <1>1, <1>2, <1>3, Zenon
<1>5. ASSUME NEW v PROVE v \in Range(a) <=> v \in Range(s) \cup {e}
  <2>1. v \in Range(a) <=> (\E i \in D : v = a[i]) \/ v = a[n]
    BY <1>4, Zenon DEF Range
  <2>2. v \in Range(s) <=> \E i \in D : v = s[i]
    BY <1>4, Zenon DEF Range
  <2> QED
    BY <1>4, <2>1, <2>2, Zenon
<1>6. Range(a) = Range(s) \cup {e}
  BY <1>5, Zenon
<1> QED
  BY <1>1, <1>3, <1>6, Zenon

\* mt_matcher_add.
LEMMA AddIndexed ==
    ASSUME NEW m, NEW E, Indexed(m, E), NEW rule \in AllRules
    PROVE  Indexed(MatcherAdd(m, rule), E \cup {rule})
<1>1. PICK x, t, s : x = m.exact /\ t = m.ns /\ s = m.scan
  BY Zenon
<1>2. /\ m = [exact |-> x, ns |-> t, scan |-> s]
      /\ ExactOK(x) /\ Held(x) = Texts(E, "domain") /\ TrieOf(t, Texts(E, "namespace"))
      /\ s \in Seq(AllRules) /\ Range(s) = {q \in E : q.type \in {"wildcard", "regex"}}
  BY <1>1, Zenon DEF Indexed
<1>3. ASSUME NEW y, NEW u, NEW v, MatcherAdd(m, rule) = [exact |-> y, ns |-> u, scan |-> v],
             ExactOK(y), Held(y) = Texts(E \cup {rule}, "domain"),
             TrieOf(u, Texts(E \cup {rule}, "namespace")),
             v \in Seq(AllRules),
             Range(v) = {q \in E \cup {rule} : q.type \in {"wildcard", "regex"}}
      PROVE  Indexed(MatcherAdd(m, rule), E \cup {rule})
  <2>1. PICK w : w = MatcherAdd(m, rule)
    BY Zenon
  <2>2. w.exact = y /\ w.ns = u /\ w.scan = v /\ w = [exact |-> y, ns |-> u, scan |-> v]
    BY <1>3, <2>1
  <2>3. Indexed(w, E \cup {rule})
    BY <1>3, <2>2, Zenon DEF Indexed
  <2> QED
    BY <2>1, <2>3, Zenon
<1>4. rule.type \notin {"wildcard", "regex"} =>
          {q \in E \cup {rule} : q.type \in {"wildcard", "regex"}}
              = {q \in E : q.type \in {"wildcard", "regex"}}
  BY Zenon
<1>5. CASE rule.type = "domain"
  <2>1. MatcherAdd(m, rule) = [exact |-> ExactInsert(x, rule.text), ns |-> t, scan |-> s]
    BY <1>2, <1>5, Zenon DEF MatcherAdd
  <2>2. rule.type # "namespace" /\ rule.type \notin {"wildcard", "regex"}
    BY <1>5, Zenon
  <2>3. ExactOK(ExactInsert(x, rule.text)) /\ Held(ExactInsert(x, rule.text)) = Held(x) \cup {rule.text}
    BY <1>2, <1>5, RuleTexts, ExactInsertIs, Zenon
  <2>4. Texts(E \cup {rule}, "domain") = Texts(E, "domain") \cup {rule.text}
        /\ Texts(E \cup {rule}, "namespace") = Texts(E, "namespace")
    <3>1. Texts(E \cup {rule}, "domain") = Texts(E, "domain") \cup {rule.text}
      BY <1>5, TextsMore, Zenon
    <3>2. Texts(E \cup {rule}, "namespace") = Texts(E, "namespace")
      BY <2>2, TextsSame, Zenon
    <3> QED
      BY <3>1, <3>2, Zenon
  <2> QED
    BY <1>2, <1>3, <1>4, <2>1, <2>2, <2>3, <2>4, Zenon
<1>6. CASE rule.type = "namespace"
  <2>1. MatcherAdd(m, rule) = [exact |-> x, ns |-> TrieInsert(t, rule.text), scan |-> s]
    BY <1>2, <1>6, Zenon DEF MatcherAdd
  <2>2. rule.type # "domain" /\ rule.type \notin {"wildcard", "regex"}
    BY <1>6, Zenon
  <2>3. TrieOf(TrieInsert(t, rule.text), Texts(E, "namespace") \cup {rule.text})
    BY <1>2, <1>6, RuleTexts, TrieInsertIs, Zenon
  <2>4. Texts(E \cup {rule}, "namespace") = Texts(E, "namespace") \cup {rule.text}
        /\ Texts(E \cup {rule}, "domain") = Texts(E, "domain")
    <3>1. Texts(E \cup {rule}, "namespace") = Texts(E, "namespace") \cup {rule.text}
      BY <1>6, TextsMore, Zenon
    <3>2. Texts(E \cup {rule}, "domain") = Texts(E, "domain")
      BY <2>2, TextsSame, Zenon
    <3> QED
      BY <3>1, <3>2, Zenon
  <2> QED
    BY <1>2, <1>3, <1>4, <2>1, <2>2, <2>3, <2>4, Zenon
<1>7. CASE rule.type \in {"wildcard", "regex"}
  <2>1. MatcherAdd(m, rule) = [exact |-> x, ns |-> t, scan |-> Append(s, rule)]
    BY <1>2, <1>7, Zenon DEF MatcherAdd
  <2>2. rule.type # "domain" /\ rule.type # "namespace"
    BY <1>7, Zenon
  <2>3. Append(s, rule) \in Seq(AllRules) /\ Range(Append(s, rule)) = Range(s) \cup {rule}
    <3>1. s \in Seq(AllRules)
      BY <1>2, Zenon
    <3> QED
      BY <3>1, RangeAppend
  <2>4. Texts(E \cup {rule}, "namespace") = Texts(E, "namespace")
        /\ Texts(E \cup {rule}, "domain") = Texts(E, "domain")
    <3>1. Texts(E \cup {rule}, "namespace") = Texts(E, "namespace")
      BY <2>2, TextsSame, Zenon
    <3>2. Texts(E \cup {rule}, "domain") = Texts(E, "domain")
      BY <2>2, TextsSame, Zenon
    <3> QED
      BY <3>1, <3>2, Zenon
  <2>5. {q \in E \cup {rule} : q.type \in {"wildcard", "regex"}}
            = {q \in E : q.type \in {"wildcard", "regex"}} \cup {rule}
    BY <1>7, Zenon
  <2> QED
    BY <1>2, <1>3, <2>1, <2>3, <2>4, <2>5, Zenon
<1>8. CASE rule.type \notin {"domain", "namespace", "wildcard", "regex"}
  <2>1. MatcherAdd(m, rule) = m
    BY <1>8, Zenon DEF MatcherAdd
  <2>2. rule.type # "domain" /\ rule.type # "namespace" /\ rule.type \notin {"wildcard", "regex"}
    BY <1>8, Zenon
  <2>3. Texts(E \cup {rule}, "namespace") = Texts(E, "namespace")
        /\ Texts(E \cup {rule}, "domain") = Texts(E, "domain")
    <3>1. Texts(E \cup {rule}, "namespace") = Texts(E, "namespace")
      BY <2>2, TextsSame, Zenon
    <3>2. Texts(E \cup {rule}, "domain") = Texts(E, "domain")
      BY <2>2, TextsSame, Zenon
    <3> QED
      BY <3>1, <3>2, Zenon
  <2> QED
    BY <1>2, <1>3, <1>4, <2>1, <2>2, <2>3, Zenon
<1> QED
  BY <1>5, <1>6, <1>7, <1>8, Zenon

\* mt_matcher_match answers as the rules one by one do.
LEMMA MatchIndexed ==
    ASSUME NEW m, NEW E, Indexed(m, E), E \subseteq AllRules, NEW d \in Names
    PROVE  MatcherMatch(m, d) <=> \E r \in E : RuleMatches(r, d)
<1>1. d \in Seq(Range(d))
  BY IndexAssumption, Zenon
<1>2. ExactContains(m.exact, d) <=> \E r \in E : r.type = "domain" /\ d = r.text
  <2>1. ExactContains(m.exact, d) <=> d \in Texts(E, "domain")
    BY ExactContainsIs, Zenon DEF Indexed
  <2> QED
    BY <2>1, Zenon DEF Texts
<1>3. TrieMatch(m.ns, d) <=> \E r \in E : r.type = "namespace" /\ NamespaceMatch(r.text, d)
  <2>1. \A q \in Texts(E, "namespace") : Plain(q)
    BY RuleTexts, Zenon DEF Texts
  <2>2. TrieMatch(m.ns, d) <=> \E q \in Texts(E, "namespace") : NamespaceMatch(q, d)
    BY <1>1, <2>1, TrieMatchIs, Zenon DEF Indexed
  <2> QED
    BY <2>2, Zenon DEF Texts
<1>4. (\E i \in DOMAIN m.scan : RuleMatches(m.scan[i], d))
          <=> \E r \in E : r.type \in {"wildcard", "regex"} /\ RuleMatches(r, d)
  <2>1. (\E i \in DOMAIN m.scan : RuleMatches(m.scan[i], d)) <=> \E r \in Range(m.scan) : RuleMatches(r, d)
    BY Zenon DEF Range
  <2>2. Range(m.scan) = {q \in E : q.type \in {"wildcard", "regex"}}
    BY Zenon DEF Indexed
  <2> QED
    BY <2>1, <2>2, Zenon
<1>5. ASSUME NEW r
      PROVE  RuleMatches(r, d) <=> \/ r.type = "domain" /\ d = r.text
                                   \/ r.type = "namespace" /\ NamespaceMatch(r.text, d)
                                   \/ r.type \in {"wildcard", "regex"} /\ RuleMatches(r, d)
  <2>1. CASE r.type = "domain"
    BY <2>1, Zenon DEF RuleMatches
  <2>2. CASE r.type = "namespace"
    BY <2>2, Zenon DEF RuleMatches
  <2>3. CASE r.type \in {"wildcard", "regex"}
    BY <2>3, Zenon
  <2>4. CASE r.type \notin {"domain", "namespace", "wildcard", "regex"}
    BY <2>4, Zenon DEF RuleMatches
  <2> QED
    BY <2>1, <2>2, <2>3, <2>4, Zenon
<1> QED
  BY <1>2, <1>3, <1>4, <1>5, Zenon DEF MatcherMatch

\* The index holds the enabled rules of the group in every state of its
\* building (append_snapshot_entry).
THEOREM IndexInvariant == Spec => []IInv
<1>1. ASSUME Init PROVE IInv
  <2>1. rules = <<>> /\ matcher = EmptyMatcher
    BY <1>1, Zenon DEF Init
  <2>2. rules \in Seq(AllRules) /\ DOMAIN rules = {}
    BY <2>1
  <2>3. Enabled = {}
    BY <2>2, Zenon DEF Enabled
  <2>4. matcher.exact = EmptySet /\ matcher.ns = EmptyTrie /\ matcher.scan = <<>>
        /\ matcher = [exact |-> matcher.exact, ns |-> matcher.ns, scan |-> matcher.scan]
    BY <2>1, Zenon DEF EmptyMatcher
  <2>5. Texts({}, "domain") = {} /\ Texts({}, "namespace") = {}
        /\ {q \in {} : q.type \in {"wildcard", "regex"}} = {}
    BY Zenon DEF Texts
  <2>6. TrieOf(EmptyTrie, {})
    <3>1. PICK e : e = <<>>
      BY Zenon
    <3>2. {} \ {e} = {} /\ UNION {Nodes(r) : r \in {}} = {}
      BY Zenon
    <3>3. (e \in {}) = FALSE
      OBVIOUS
    <3>4. EmptyTrie = [nodes |-> UNION {Nodes(r) : r \in {} \ {e}}, terminal |-> {} \ {e},
                       hasEmptyRule |-> e \in {}]
      BY <3>2, <3>3, Zenon DEF EmptyTrie
    <3> QED
      BY <3>1, <3>4, Zenon DEF TrieOf
  <2>7. <<>> \in Seq(AllRules) /\ Range(<<>>) = {}
    <3>1. DOMAIN <<>> = {} /\ <<>> \in Seq(AllRules)
      OBVIOUS
    <3> QED
      BY <3>1, Zenon DEF Range
  <2>8. ExactOK(EmptySet)
    BY Zenon DEF ExactOK
  <2>9. Indexed(matcher, {})
    BY <2>4, <2>5, <2>6, <2>7, <2>8, NothingHeld, Zenon DEF Indexed
  <2> QED
    BY <2>2, <2>3, <2>9, Zenon DEF IInv
<1>2. ASSUME IInv, NEW list \in RuleLists, Len(list) = Len(rules) + 1, AddRule(list[Len(list)])
      PROVE  IInv'
  <2>1. PICK rule : rule = list[Len(list)]
    BY Zenon
  <2>2. rule \in AllRules
    <3>1. Len(list) \in DOMAIN list
      <4>1. PICK W : list \in Seq(W)
        BY IndexAssumption, Zenon
      <4>2. PICK k : k = Len(rules)
        BY Zenon
      <4>3. k \in Nat
        BY <1>2, <4>2 DEF IInv
      <4> QED
        BY <1>2, <4>1, <4>2, <4>3
    <3>2. rule \in Range(list)
      BY <2>1, <3>1, Zenon DEF Range
    <3> QED
      BY <3>2, Zenon DEF AllRules
  <2>3. rules' = Append(rules, rule) /\ matcher' = IF rule.enable THEN MatcherAdd(matcher, rule) ELSE matcher
    BY <1>2, <2>1, Zenon DEF AddRule
  <2>4. rules \in Seq(AllRules) /\ Indexed(matcher, Enabled)
    BY <1>2, Zenon DEF IInv
  <2>5. rules' \in Seq(AllRules)
    BY <2>2, <2>3, <2>4
  <2>6. Enabled' = IF rule.enable THEN Enabled \cup {rule} ELSE Enabled
    <3>1. /\ DOMAIN rules' = DOMAIN rules \cup {Len(rules) + 1}
          /\ rules'[Len(rules) + 1] = rule /\ \A i \in DOMAIN rules : rules'[i] = rules[i]
      BY <2>2, <2>3, <2>4
    <3>2. PICK n : n = Len(rules) + 1
      BY Zenon
    <3>3. CASE rule.enable
      <4>1. {k \in DOMAIN rules' : rules'[k].enable} = {k \in DOMAIN rules : rules[k].enable} \cup {n}
        BY <3>1, <3>2, <3>3, Zenon
      <4>2. Enabled' = {rules'[i] : i \in {k \in DOMAIN rules : rules[k].enable} \cup {n}}
        BY <4>1, Zenon DEF Enabled
      <4>3. PICK D, a : D = {k \in DOMAIN rules : rules[k].enable} /\ a = rules'
        BY Zenon
      <4>4. a[n] = rule /\ \A i \in D : a[i] = rules[i]
        BY <3>1, <3>2, <4>3, Zenon
      <4>5. {a[i] : i \in D \cup {n}} = {rules[i] : i \in D} \cup {rule}
        BY <4>4, Zenon
      <4>6. Enabled' = Enabled \cup {rule}
        BY <4>2, <4>3, <4>5, Zenon DEF Enabled
      <4> QED
        BY <3>3, <4>6, Zenon
    <3>4. CASE ~rule.enable
      <4>1. {k \in DOMAIN rules' : rules'[k].enable} = {k \in DOMAIN rules : rules[k].enable}
        BY <3>1, <3>2, <3>4, Zenon
      <4>2. Enabled' = {rules'[i] : i \in {k \in DOMAIN rules : rules[k].enable}}
        BY <4>1, Zenon DEF Enabled
      <4> QED
        BY <3>1, <3>2, <3>4, <4>2, Zenon DEF Enabled
    <3> QED
      BY <3>3, <3>4, Zenon
  <2>7. Indexed(matcher', Enabled')
    BY <2>2, <2>3, <2>4, <2>6, AddIndexed, Zenon
  <2> QED
    BY <2>5, <2>7, Zenon DEF IInv, Indexed
<1>3. ASSUME IInv, UNCHANGED vars PROVE IInv'
  BY <1>3, Zenon DEF vars, IInv, Enabled, Indexed
<1>4. IInv /\ [Next]_vars => IInv'
  BY <1>2, <1>3, Zenon DEF Next
<1> QED
  BY <1>1, <1>4, PTL DEF Spec

\* For every table of hashes, first size of the set and list of rules, the
\* index answers as the enabled rules one by one do (mt_matcher_match against
\* mt_rule_matcher_match).
THEOREM IndexIsExact == Spec => []IndexExact
<1>1. ASSUME IInv PROVE IndexExact
  <2>1. Enabled \subseteq AllRules
    <3>1. \A i \in DOMAIN rules : rules[i] \in AllRules
      BY <1>1 DEF IInv
    <3> QED
      BY <3>1, Zenon DEF Enabled
  <2>2. ASSUME NEW d \in Names
        PROVE  MatcherMatch(matcher, d)
                   <=> \E i \in DOMAIN rules : rules[i].enable /\ RuleMatches(rules[i], d)
    <3>1. MatcherMatch(matcher, d) <=> \E r \in Enabled : RuleMatches(r, d)
      BY <1>1, <2>1, MatchIndexed, Zenon DEF IInv
    <3> QED
      BY <3>1, Zenon DEF Enabled
  <2> QED
    BY <2>2, Zenon DEF IndexExact
<1> QED
  BY <1>1, IndexInvariant, PTL
=============================================================================
