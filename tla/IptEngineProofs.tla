-------------------------- MODULE IptEngineProofs ---------------------------
(***************************************************************************)
(* The engine leaves the firmware's chains and rules alone, whatever the   *)
(* firmware's tables, the owners, what killed runs left behind and however *)
(* many operations, rewrites and failures there are.                       *)
(*                                                                         *)
(* Only one thing about a transcript matters here: a line that names a     *)
(* chain of the firmware declares a built-in chain, or adds or deletes a   *)
(* jump to one of our chains.  It follows from what is registered, and     *)
(* that from the calls and from what iptables-save printed.                *)
(***************************************************************************)
EXTENDS IptEngine, WellFoundedInduction, TLAPS

-----------------------------------------------------------------------------
\* Numbers, recursion and sequences.

\* A set of numbers that is not empty has a least element.
LEMMA LeastNumber ==
    ASSUME NEW S \in SUBSET Nat, S # {}
    PROVE  \E m \in S : \A k \in S : m <= k
<1>1. PICK m \in S : \A k \in S : <<k, m>> \notin OpToRel(<, Nat)
  BY NatLessThanWellFounded, WFMin, Zenon
<1>2. \A k \in S : ~(k < m)
  BY <1>1, Zenon DEF OpToRel
<1> QED
  BY <1>2

\* A set with 0 and with the successor of each of its numbers holds them all.
LEMMA CountUp ==
    ASSUME NEW S, 0 \in S, \A n \in Nat : n \in S => n + 1 \in S
    PROVE  \A n \in Nat : n \in S
<1> DEFINE B == Nat \ S
<1>1. CASE B # {}
  <2>1. PICK m \in B : \A k \in B : m <= k
    BY <1>1, LeastNumber, Zenon
  <2>2. m - 1 \in Nat /\ m - 1 \in S
    BY <2>1
  <2> QED
    BY <2>1, <2>2
<1> QED
  BY <1>1

\* FirstOf is 0 for no places and otherwise the least of them.
LEMMA FirstPlace ==
    ASSUME NEW S \in SUBSET (Nat \ {0})
    PROVE  /\ FirstOf(S) = 0 <=> S = {}
           /\ S # {} => FirstOf(S) \in S /\ \A k \in S : FirstOf(S) <= k
<1>1. CASE S = {}
  BY <1>1, Zenon DEF FirstOf
<1>2. CASE S # {}
  <2>1. \E m \in S : \A k \in S : m <= k
    BY <1>2, LeastNumber
  <2>2. Min(S) \in S /\ \A k \in S : Min(S) <= k
    BY <2>1, Zenon DEF Min
  <2>3. FirstOf(S) = Min(S)
    BY <1>2, Zenon DEF FirstOf
  <2>4. FirstOf(S) # 0
    <3>1. FirstOf(S) \in Nat \ {0}
      BY <2>2, <2>3, Zenon
    <3> QED
      BY <3>1
  <2> QED
    BY <1>2, <2>2, <2>3, <2>4, Zenon
<1> QED
  BY <1>1, <1>2, Zenon

\* A step applied n times from x.
IsRun(f, S, x, n, step) ==
    f \in [0 .. n -> S] /\ f[0] = x /\ \A i \in 1 .. n : f[i] = step[i][f[i - 1]]

\* There is such a run: recursion defines a function.
LEMMA Recursion ==
    ASSUME NEW S, NEW x \in S, NEW n \in Nat, NEW step \in [1 .. n -> [S -> S]]
    PROVE  \E f : IsRun(f, S, x, n, step)
<1> DEFINE Run(f, m) == f[0] = x /\ \A i \in 1 .. m : f[i] = step[i][f[i - 1]]
           E == {m \in Nat : m <= n => \E f \in [0 .. n -> S] : Run(f, m)}
<1>1. 0 \in E
  <2>1. [i \in 0 .. n |-> x] \in [0 .. n -> S] /\ Run([i \in 0 .. n |-> x], 0)
    OBVIOUS
  <2> HIDE DEF Run
  <2> QED
    BY <2>1
<1>2. ASSUME NEW m \in Nat, m \in E PROVE m + 1 \in E
  <2> SUFFICES ASSUME m + 1 <= n PROVE \E f \in [0 .. n -> S] : Run(f, m + 1)
    <3> HIDE DEF Run
    <3> QED
      OBVIOUS
  <2>1. PICK f \in [0 .. n -> S] : Run(f, m)
    <3>1. m <= n
      OBVIOUS
    <3> QED
      BY <1>2, <3>1, Zenon
  <2> DEFINE g == [f EXCEPT ![m + 1] = step[m + 1][f[m]]]
  <2>2. m \in 0 .. n /\ m + 1 \in 0 .. n /\ m + 1 \in 1 .. n
    OBVIOUS
  <2>3. g \in [0 .. n -> S]
    BY <2>2
  <2>4. g[m + 1] = step[m + 1][f[m]] /\ \A i \in 0 .. n : i # m + 1 => g[i] = f[i]
    BY <2>2
  <2> HIDE DEF g
  <2>5. Run(g, m + 1)
    <3>1. g[0] = x
      BY <2>1, <2>4
    <3>2. ASSUME NEW i \in 1 .. m + 1 PROVE g[i] = step[i][g[i - 1]]
      <4>1. CASE i = m + 1
        BY <2>2, <2>4, <4>1
      <4>2. CASE i \in 1 .. m
        BY <2>1, <2>2, <2>4, <4>2
      <4> QED
        BY <4>1, <4>2
    <3> QED
      BY <3>1, <3>2, Zenon
  <2> HIDE DEF Run
  <2> QED
    BY <2>3, <2>5
<1>3. n \in E
  <2> HIDE DEF E
  <2> QED
    BY <1>1, <1>2, CountUp
<1>4. \E f \in [0 .. n -> S] : Run(f, n)
  <2> HIDE DEF Run
  <2> QED
    BY <1>3
<1> QED
  BY <1>4, Zenon DEF IsRun

\* f[i] is what Part has taken of the first i elements.
Takes(f, s, I) ==
    /\ f[0] = <<>>
    /\ \A i \in 1 .. Len(s) : f[i] = IF i \in I THEN Append(f[i - 1], s[i]) ELSE f[i - 1]

\* Part takes the elements one after the other.
LEMMA PartTakes ==
    ASSUME NEW S, NEW s \in Seq(S), NEW I, NEW R, \A i \in I \cap (1 .. Len(s)) : s[i] \in R
    PROVE  \E f \in [0 .. Len(s) -> Seq(R)] : Takes(f, s, I) /\ Part(s, I) = f[Len(s)]
<1> DEFINE n == Len(s)
           Made(f) == [i \in 0 .. n |->
               IF i = 0 THEN <<>> ELSE IF i \in I THEN Append(f[i - 1], s[i]) ELSE f[i - 1]]
           step == [i \in 1 .. n |-> [a \in Seq(R) |-> IF i \in I THEN Append(a, s[i]) ELSE a]]
<1>1. Part(s, I) = (CHOOSE f : f = Made(f))[n]
  BY Zenon DEF Part
<1>2. n \in Nat /\ step \in [1 .. n -> [Seq(R) -> Seq(R)]] /\ <<>> \in Seq(R)
  OBVIOUS
<1>3. PICK f \in [0 .. n -> Seq(R)] : f[0] = <<>> /\ \A i \in 1 .. n : f[i] = step[i][f[i - 1]]
  <2>1. \E f : IsRun(f, Seq(R), <<>>, n, step)
    <3> HIDE DEF n, step
    <3> QED
      BY <1>2, Recursion, Zenon
  <2> QED
    BY <2>1, Zenon DEF IsRun
<1>4. f = Made(f)
  <2>1. \A i \in 1 .. n : f[i] = IF i \in I THEN Append(f[i - 1], s[i]) ELSE f[i - 1]
    <3> SUFFICES ASSUME NEW i \in 1 .. n
                 PROVE  f[i] = IF i \in I THEN Append(f[i - 1], s[i]) ELSE f[i - 1]
      BY Zenon
    <3>1. i - 1 \in 0 .. n
      BY <1>2
    <3>2. f[i - 1] \in Seq(R)
      BY <3>1, Zenon
    <3>3. step[i][f[i - 1]] = IF i \in I THEN Append(f[i - 1], s[i]) ELSE f[i - 1]
      BY <3>2, Zenon
    <3> QED
      BY <1>3, <3>3, Zenon
  <2>2. f = [i \in 0 .. n |-> f[i]]
    BY <1>3
  <2>3. \A i \in 0 .. n : f[i] = Made(f)[i]
    <3> SUFFICES ASSUME NEW i \in 0 .. n PROVE f[i] = Made(f)[i]
      BY Zenon
    <3>1. i = 0 \/ i \in 1 .. n
      BY <1>2
    <3>2. Made(f)[i] = IF i = 0 THEN <<>>
                       ELSE IF i \in I THEN Append(f[i - 1], s[i]) ELSE f[i - 1]
      BY Zenon
    <3>3. i \in 1 .. n => i # 0
      OBVIOUS
    <3> HIDE DEF Made, step
    <3> QED
      BY <1>3, <2>1, <3>1, <3>2, <3>3, Zenon
  <2>4. Made(f) = [i \in 0 .. n |-> Made(f)[i]]
    BY Zenon
  <2> HIDE DEF Made
  <2> QED
    BY <2>2, <2>3, <2>4, Zenon
<1> DEFINE g == CHOOSE f1 : f1 = Made(f1)
<1>5. g = Made(g)
  <2> HIDE DEF Made
  <2> QED
    BY <1>4, Zenon
<1> HIDE DEF g
<1>6. Takes(g, s, I)
  <2>1. g[0] = <<>>
    <3>1. 0 \in 0 .. n /\ Made(g)[0] = <<>>
      BY <1>2
    <3> QED
      BY <1>5, <3>1, Zenon
  <2>2. ASSUME NEW i \in 1 .. n
        PROVE  g[i] = IF i \in I THEN Append(g[i - 1], s[i]) ELSE g[i - 1]
    <3>1. i \in 0 .. n /\ i # 0
      BY <1>2
    <3>2. Made(g)[i] = IF i \in I THEN Append(g[i - 1], s[i]) ELSE g[i - 1]
      BY <3>1, Zenon
    <3> QED
      BY <1>5, <3>2, Zenon
  <2> QED
    BY <2>1, <2>2, Zenon DEF Takes
<1>7. \A i \in 0 .. n : g[i] \in Seq(R)
  <2> DEFINE T == {i \in Nat : i <= n => g[i] \in Seq(R)}
  <2>1. 0 \in T
    BY <1>2, <1>6 DEF Takes
  <2>2. ASSUME NEW i \in Nat, i \in T PROVE i + 1 \in T
    <3> SUFFICES ASSUME i + 1 <= n PROVE g[i + 1] \in Seq(R)
      OBVIOUS
    <3>1. g[i] \in Seq(R)
      BY <1>2, <2>2
    <3>2. g[i + 1] = IF i + 1 \in I THEN Append(g[i], s[i + 1]) ELSE g[i]
      <4>1. i + 1 \in 1 .. n /\ (i + 1) - 1 = i
        BY <1>2
      <4> QED
        BY <1>6, <4>1 DEF Takes
    <3>3. i + 1 \in I => s[i + 1] \in R
      OBVIOUS
    <3> QED
      BY <3>1, <3>2, <3>3
  <2> HIDE DEF T
  <2>3. \A i \in Nat : i \in T
    BY <2>1, <2>2, CountUp
  <2> QED
    BY <1>2, <2>3 DEF T
<1>8. g \in [0 .. n -> Seq(R)]
  <2>1. Made(g) = [i \in 0 .. n |-> Made(g)[i]]
    BY Zenon
  <2> HIDE DEF Made
  <2> QED
    BY <1>5, <1>7, <2>1, Zenon
<1>9. Part(s, I) = g[n]
  BY <1>1, Zenon DEF g
<1> QED
  BY <1>6, <1>8, <1>9, Zenon

\* What is taken from a sequence are elements at the places asked for.
LEMMA PartIn ==
    ASSUME NEW S, NEW s \in Seq(S), NEW I, NEW R, \A i \in I \cap (1 .. Len(s)) : s[i] \in R
    PROVE  Part(s, I) \in Seq(R)
<1>1. PICK f \in [0 .. Len(s) -> Seq(R)] : Part(s, I) = f[Len(s)]
  BY PartTakes, Zenon
<1>2. Len(s) \in 0 .. Len(s)
  <2>1. Len(s) \in Nat
    OBVIOUS
  <2> QED
    BY <2>1
<1> QED
  BY <1>1, <1>2

\* Sequences over S one after the other are a sequence over S.
LEMMA ConcatIn ==
    ASSUME NEW S, NEW ss \in Seq(Seq(S))
    PROVE  Concat(ss) \in Seq(S)
<1> DEFINE n == Len(ss)
           Made(f) == [i \in 0 .. n |-> IF i = 0 THEN <<>> ELSE f[i - 1] \o ss[i]]
           step == [i \in 1 .. n |-> [a \in Seq(S) |-> a \o ss[i]]]
<1>1. Concat(ss) = (CHOOSE f : f = Made(f))[n]
  BY Zenon DEF Concat
<1>2. n \in Nat /\ step \in [1 .. n -> [Seq(S) -> Seq(S)]] /\ <<>> \in Seq(S)
  OBVIOUS
<1>3. PICK f : IsRun(f, Seq(S), <<>>, n, step)
  <2> HIDE DEF n, step
  <2> QED
    BY <1>2, Recursion, Zenon
<1>4. f = Made(f)
  <2>1. f[0] = <<>> /\ \A i \in 1 .. n : f[i] = f[i - 1] \o ss[i]
    <3>1. f[0] = <<>> /\ f \in [0 .. n -> Seq(S)] /\ \A i \in 1 .. n : f[i] = step[i][f[i - 1]]
      BY <1>3, Zenon DEF IsRun
    <3>2. ASSUME NEW i \in 1 .. n PROVE f[i] = f[i - 1] \o ss[i]
      <4>1. i - 1 \in 0 .. n
        BY <1>2
      <4>2. f[i - 1] \in Seq(S)
        BY <3>1, <4>1, Zenon
      <4>3. step[i][f[i - 1]] = f[i - 1] \o ss[i]
        BY <4>2, Zenon
      <4> QED
        BY <3>1, <4>3, Zenon
    <3> QED
      BY <3>1, <3>2, Zenon
  <2>2. f = [i \in 0 .. n |-> f[i]]
    BY <1>3 DEF IsRun
  <2>3. \A i \in 0 .. n : f[i] = Made(f)[i]
    <3> SUFFICES ASSUME NEW i \in 0 .. n PROVE f[i] = Made(f)[i]
      BY Zenon
    <3>1. (i = 0 \/ i \in 1 .. n) /\ (i \in 1 .. n => i # 0)
      BY <1>2
    <3>2. Made(f)[i] = IF i = 0 THEN <<>> ELSE f[i - 1] \o ss[i]
      BY Zenon
    <3> HIDE DEF Made
    <3> QED
      BY <2>1, <3>1, <3>2, Zenon
  <2>4. Made(f) = [i \in 0 .. n |-> Made(f)[i]]
    BY Zenon
  <2> HIDE DEF Made
  <2> QED
    BY <2>2, <2>3, <2>4, Zenon
<1> DEFINE g == CHOOSE f1 : f1 = Made(f1)
<1>5. g = Made(g)
  <2> HIDE DEF Made
  <2> QED
    BY <1>4, Zenon
<1> HIDE DEF g
<1>6. g[n] \in Seq(S)
  <2> DEFINE T == {i \in Nat : i <= n => g[i] \in Seq(S)}
  <2>1. 0 \in T
    <3>1. 0 \in 0 .. n /\ Made(g)[0] = <<>>
      BY <1>2
    <3>2. g[0] = <<>>
      BY <1>5, <3>1, Zenon
    <3> QED
      BY <1>2, <3>2
  <2>2. ASSUME NEW i \in Nat, i \in T PROVE i + 1 \in T
    <3> SUFFICES ASSUME i + 1 <= n PROVE g[i + 1] \in Seq(S)
      OBVIOUS
    <3>1. g[i] \in Seq(S)
      BY <1>2, <2>2
    <3>2. g[i + 1] = g[i] \o ss[i + 1]
      <4>1. i + 1 \in 0 .. n /\ i + 1 # 0 /\ (i + 1) - 1 = i
        BY <1>2
      <4>2. Made(g)[i + 1] = g[(i + 1) - 1] \o ss[i + 1]
        BY <4>1, Zenon
      <4> QED
        BY <1>5, <4>1, <4>2, Zenon
    <3>3. ss[i + 1] \in Seq(S)
      OBVIOUS
    <3> QED
      BY <3>1, <3>2, <3>3
  <2> HIDE DEF T
  <2>3. n \in T
    BY <1>2, <2>1, <2>2, CountUp
  <2> QED
    BY <1>2, <2>3 DEF T
<1> QED
  BY <1>1, <1>6, Zenon DEF g

-----------------------------------------------------------------------------
\* The rules of a chain that are not ours.

Own(s) == Part(s, {i \in DOMAIN s : ~IsJumpToUs(s[i])})

\* A sequence with one element more.
Longer(u, s, n, x) ==
    /\ Len(u) = Len(s) + 1
    /\ \A i \in 1 .. Len(s) + 1 : u[i] = IF i < n THEN s[i] ELSE IF i = n THEN x ELSE s[i - 1]

\* InsertAt makes one.
LEMMA InsertAtIs ==
    ASSUME NEW S, NEW s \in Seq(S), NEW n \in 1 .. Len(s) + 1, NEW x \in S
    PROVE  InsertAt(s, n, x) \in Seq(S) /\ Longer(InsertAt(s, n, x), s, n, x)
<1> DEFINE m == Len(s) + 1
           at(i) == IF i < n THEN s[i] ELSE IF i = n THEN x ELSE s[i - 1]
<1>1. m \in Nat /\ \A i \in 1 .. m : at(i) \in S
  OBVIOUS
<1>2. InsertAt(s, n, x) = [i \in 1 .. m |-> at(i)]
  BY Zenon DEF InsertAt
<1> HIDE DEF m, at
<1>3. [i \in 1 .. m |-> at(i)] \in Seq(S) /\ Len([i \in 1 .. m |-> at(i)]) = m
  BY <1>1
<1> QED
  BY <1>2, <1>3, Zenon DEF Longer, m, at

\* A sequence with one element less.
LEMMA RemoveAtIs ==
    ASSUME NEW S, NEW s \in Seq(S), NEW n \in 1 .. Len(s)
    PROVE  /\ RemoveAt(s, n) \in Seq(S) /\ Len(RemoveAt(s, n)) = Len(s) - 1
           /\ \A i \in 1 .. Len(s) - 1 :
                 RemoveAt(s, n)[i] = IF i < n THEN s[i] ELSE s[i + 1]
<1> DEFINE m == Len(s) - 1
           at(i) == IF i < n THEN s[i] ELSE s[i + 1]
<1>1. m \in Nat /\ \A i \in 1 .. m : at(i) \in S
  OBVIOUS
<1>2. RemoveAt(s, n) = [i \in 1 .. m |-> at(i)]
  BY Zenon DEF RemoveAt
<1> HIDE DEF m, at
<1>3. [i \in 1 .. m |-> at(i)] \in Seq(S) /\ Len([i \in 1 .. m |-> at(i)]) = m
  BY <1>1
<1> QED
  BY <1>2, <1>3, Zenon DEF m, at

\* Own takes the elements that are not jumps to us one after the other.
LEMMA OwnTakes ==
    ASSUME NEW S, NEW s \in Seq(S)
    PROVE  \E f : /\ f[0] = <<>> /\ Own(s) = f[Len(s)]
                  /\ \A i \in 1 .. Len(s) :
                        f[i] = IF IsJumpToUs(s[i]) THEN f[i - 1] ELSE Append(f[i - 1], s[i])
<1> DEFINE I == {i \in DOMAIN s : ~IsJumpToUs(s[i])}
<1>1. \A i \in 1 .. Len(s) : (i \in I <=> ~IsJumpToUs(s[i])) /\ s[i] \in S
  OBVIOUS
<1>2. Own(s) = Part(s, I)
  BY Zenon DEF Own
<1> HIDE DEF I
<1>3. PICK f : Takes(f, s, I) /\ Part(s, I) = f[Len(s)]
  <2>1. \A i \in I \cap (1 .. Len(s)) : s[i] \in S
    BY <1>1, Zenon
  <2> QED
    BY <2>1, PartTakes, Zenon
<1> QED
  BY <1>1, <1>2, <1>3, Zenon DEF Takes

\* iptables -I of a jump to one of our chains.
LEMMA InsertKeepsOwn ==
    ASSUME NEW S, NEW s \in Seq(S), NEW n \in 1 .. Len(s) + 1, NEW x \in S, IsJumpToUs(x)
    PROVE  Own(InsertAt(s, n, x)) = Own(s)
<1> DEFINE u == InsertAt(s, n, x)
           m == Len(s)
<1>1. /\ u \in Seq(S) /\ Len(u) = m + 1 /\ m \in Nat /\ n \in 1 .. m + 1
      /\ \A i \in 1 .. m + 1 : u[i] = IF i < n THEN s[i] ELSE IF i = n THEN x ELSE s[i - 1]
  <2>1. m \in Nat
    OBVIOUS
  <2>2. u \in Seq(S) /\ Longer(u, s, n, x)
    BY InsertAtIs, Zenon
  <2> HIDE DEF u
  <2> QED
    BY <2>1, <2>2, Zenon DEF Longer
<1>2. PICK f : /\ f[0] = <<>> /\ Own(s) = f[m]
               /\ \A i \in 1 .. m :
                     f[i] = IF IsJumpToUs(s[i]) THEN f[i - 1] ELSE Append(f[i - 1], s[i])
  BY OwnTakes, Zenon
<1> HIDE DEF u
<1>3. PICK g : /\ g[0] = <<>> /\ Own(u) = g[m + 1]
               /\ \A i \in 1 .. m + 1 :
                     g[i] = IF IsJumpToUs(u[i]) THEN g[i - 1] ELSE Append(g[i - 1], u[i])
  <2>1. PICK l : l = Len(u)
    BY Zenon
  <2>2. PICK g : /\ g[0] = <<>> /\ Own(u) = g[l]
                 /\ \A i \in 1 .. l :
                       g[i] = IF IsJumpToUs(u[i]) THEN g[i - 1] ELSE Append(g[i - 1], u[i])
    BY <1>1, <2>1, OwnTakes, Zenon
  <2>3. l = m + 1
    BY <1>1, <2>1, Zenon
  <2> QED
    BY <2>2, <2>3, Zenon
<1> HIDE DEF m
<1> DEFINE T == {i \in Nat : i <= m + 1 => g[i] = f[IF i < n THEN i ELSE i - 1]}
<1>4. 0 \in T
  BY <1>1, <1>2, <1>3
<1>5. ASSUME NEW i \in Nat, i \in T PROVE i + 1 \in T
  <2> SUFFICES ASSUME i + 1 <= m + 1
               PROVE  g[i + 1] = f[IF i + 1 < n THEN i + 1 ELSE i]
    OBVIOUS
  <2>1. g[i] = f[IF i < n THEN i ELSE i - 1]
    BY <1>1, <1>5
  <2>2. g[i + 1] = IF IsJumpToUs(u[i + 1]) THEN g[i] ELSE Append(g[i], u[i + 1])
    BY <1>1, <1>3
  <2>3. CASE i + 1 = n
    <3>1. u[i + 1] = x /\ g[i] = f[i]
      BY <1>1, <2>1, <2>3
    <3> QED
      BY <1>1, <2>2, <2>3, <3>1
  <2>4. CASE i + 1 < n
    <3>1. u[i + 1] = s[i + 1] /\ g[i] = f[i] /\ i + 1 \in 1 .. m
      BY <1>1, <2>1, <2>4
    <3>2. f[i + 1] = IF IsJumpToUs(s[i + 1]) THEN f[i] ELSE Append(f[i], s[i + 1])
      BY <1>2, <3>1
    <3> QED
      BY <2>2, <2>4, <3>1, <3>2
  <2>5. CASE i + 1 > n
    <3>1. u[i + 1] = s[i] /\ g[i] = f[i - 1] /\ i \in 1 .. m
      BY <1>1, <2>1, <2>5
    <3>2. f[i] = IF IsJumpToUs(s[i]) THEN f[i - 1] ELSE Append(f[i - 1], s[i])
      BY <1>2, <3>1
    <3> QED
      BY <1>1, <2>2, <2>5, <3>1, <3>2
  <2> QED
    BY <1>1, <2>3, <2>4, <2>5
<1>6. m + 1 \in T
  <2> HIDE DEF T
  <2>1. m + 1 \in Nat
    BY <1>1
  <2> QED
    BY <1>4, <1>5, <2>1, CountUp, Zenon
<1>7. g[m + 1] = f[m]
  BY <1>1, <1>6
<1> QED
  BY <1>2, <1>3, <1>7, Zenon DEF u

\* iptables -A of a jump to one of our chains.
LEMMA AppendKeepsOwn ==
    ASSUME NEW S, NEW s \in Seq(S), NEW x \in S, IsJumpToUs(x)
    PROVE  Own(Append(s, x)) = Own(s)
<1> DEFINE u == InsertAt(s, Len(s) + 1, x)
<1>1. Len(s) \in Nat /\ Len(s) + 1 \in 1 .. Len(s) + 1
  OBVIOUS
<1>2. u \in Seq(S) /\ Longer(u, s, Len(s) + 1, x)
  BY <1>1, InsertAtIs, Zenon
<1>3. Own(u) = Own(s)
  BY <1>1, InsertKeepsOwn, Zenon
<1> HIDE DEF u
<1>4. u = Append(s, x)
  BY <1>1, <1>2 DEF Longer
<1> QED
  BY <1>3, <1>4, Zenon

\* iptables -D of a jump to one of our chains.
LEMMA RemoveKeepsOwn ==
    ASSUME NEW S, NEW s \in Seq(S), NEW n \in 1 .. Len(s), IsJumpToUs(s[n])
    PROVE  Own(RemoveAt(s, n)) = Own(s)
<1> DEFINE u == RemoveAt(s, n)
           v == InsertAt(u, n, s[n])
<1>1. /\ u \in Seq(S) /\ Len(u) = Len(s) - 1 /\ Len(s) \in Nat
      /\ \A i \in 1 .. Len(s) - 1 : u[i] = IF i < n THEN s[i] ELSE s[i + 1]
  <2>1. Len(s) \in Nat
    OBVIOUS
  <2> QED
    BY <2>1, RemoveAtIs, Zenon
<1> HIDE DEF u
<1>2. n \in 1 .. Len(u) + 1 /\ s[n] \in S
  BY <1>1
<1>3. v \in Seq(S) /\ Longer(v, u, n, s[n])
  BY <1>1, <1>2, InsertAtIs, Zenon
<1>4. Own(v) = Own(u)
  BY <1>1, <1>2, InsertKeepsOwn, Zenon
<1> HIDE DEF v
<1>5. v = s
  <2>1. ASSUME NEW i \in 1 .. Len(s) PROVE v[i] = s[i]
    <3>1. v[i] = IF i < n THEN u[i] ELSE IF i = n THEN s[n] ELSE u[i - 1]
      BY <1>1, <1>3 DEF Longer
    <3>2. CASE i < n
      <4>1. i \in 1 .. Len(s) - 1
        BY <1>1, <3>2
      <4> QED
        BY <1>1, <3>1, <3>2, <4>1
    <3>3. CASE i = n
      BY <3>1, <3>3
    <3>4. CASE i > n
      <4>1. i - 1 \in 1 .. Len(s) - 1 /\ ~(i - 1 < n) /\ ~(i < n) /\ i # n /\ (i - 1) + 1 = i
        BY <1>1, <3>4
      <4>2. u[i - 1] = s[(i - 1) + 1]
        BY <1>1, <4>1, Zenon
      <4> QED
        BY <3>1, <4>1, <4>2, Zenon
    <3> QED
      BY <3>2, <3>3, <3>4
  <2>2. Len(v) = Len(s)
    BY <1>1, <1>3 DEF Longer
  <2> QED
    BY <1>1, <1>3, <2>1, <2>2
<1> QED
  BY <1>4, <1>5, Zenon DEF u

-----------------------------------------------------------------------------
\* What may be staged, written and read.

OurTargets ==
    Owners \cup Builtin \cup {"", "DNAT", "ACCEPT", "RETURN", "MARK", "CONNMARK", "MASQUERADE"}

TheirRules ==
    UNION {UNION {Range(Firmware[t][c]) : c \in DOMAIN Firmware[t]} : t \in Tables}

Rules == [to : OurTargets, part : Versions \cup {0, 1, 2}] \cup TheirRules

\* A line of a transcript names one of our chains, or it declares a built-in
\* chain or adds or deletes a jump to us there.
SafeLines ==
    {l \in [op : {":", "A", "I", "D", "F", "X"}, name : Owners \cup Builtin,
            num : Nat, rule : Rules] :
        l.name \notin Owners => l.op = ":" \/ (l.op \in {"A", "I", "D"} /\ IsJumpToUs(l.rule))}

Blocks == [table : Tables, lines : Seq(SafeLines)]

\* A table in which nothing but our chains and the jumps to them, and these in
\* no chain but the built-in ones, was added to the firmware's.
GoodTable(w, t) ==
    /\ w = [c \in DOMAIN w |-> w[c]]
    /\ DOMAIN w \ Owners = DOMAIN Firmware[t]
    /\ \A c \in DOMAIN w : w[c] \in Seq(Rules)
    /\ \A c \in DOMAIN Firmware[t] : Own(w[c]) = Firmware[t][c]
    /\ \A c \in DOMAIN Firmware[t] : c \notin Builtin => w[c] = Firmware[t][c]

-----------------------------------------------------------------------------
\* iptables-restore.

\* The firmware's chains are not ours.
LEMMA NotOurs ==
    /\ Owners \cap Builtin = {}
    /\ \A t \in Tables : DOMAIN Firmware[t] \cap Owners = {}
BY FirmwareAssumption, Zenon

\* One of our chains gets other rules.
LEMMA WithOurs ==
    ASSUME NEW t \in Tables, NEW w, GoodTable(w, t), NEW c \in Owners, NEW s \in Seq(Rules)
    PROVE  GoodTable(With(w, c, s), t)
<1> DEFINE u == With(w, c, s)
<1>1. u = [x \in DOMAIN w \cup {c} |-> IF x = c THEN s ELSE w[x]]
  BY Zenon DEF With
<1>2. DOMAIN u = DOMAIN w \cup {c} /\ u[c] = s /\ \A x \in DOMAIN w : x # c => u[x] = w[x]
  BY <1>1, Zenon
<1>3. u = [x \in DOMAIN u |-> u[x]]
  BY <1>1, Zenon
<1> HIDE DEF u
<1>4. DOMAIN u \ Owners = DOMAIN Firmware[t]
  BY <1>2, Zenon DEF GoodTable
<1>5. \A x \in DOMAIN u : u[x] \in Seq(Rules)
  BY <1>2, Zenon DEF GoodTable
<1>6. \A x \in DOMAIN Firmware[t] : u[x] = w[x]
  BY <1>2, NotOurs, Zenon DEF GoodTable
<1> QED
  BY <1>3, <1>4, <1>5, <1>6, Zenon DEF GoodTable, u

\* One of our chains is deleted.
LEMMA WithoutOurs ==
    ASSUME NEW t \in Tables, NEW w, GoodTable(w, t), NEW c \in Owners
    PROVE  GoodTable([x \in DOMAIN w \ {c} |-> w[x]], t)
<1> DEFINE u == [x \in DOMAIN w \ {c} |-> w[x]]
<1>2. DOMAIN u = DOMAIN w \ {c} /\ \A x \in DOMAIN u : u[x] = w[x]
  BY Zenon
<1>3. u = [x \in DOMAIN u |-> u[x]]
  BY Zenon
<1> HIDE DEF u
<1>4. DOMAIN u \ Owners = DOMAIN Firmware[t]
  BY <1>2, Zenon DEF GoodTable
<1>5. \A x \in DOMAIN u : u[x] \in Seq(Rules)
  BY <1>2, Zenon DEF GoodTable
<1>6. \A x \in DOMAIN Firmware[t] : u[x] = w[x]
  BY <1>2, <1>4, NotOurs, Zenon DEF GoodTable
<1> QED
  BY <1>3, <1>4, <1>5, <1>6, Zenon DEF GoodTable, u

\* A built-in chain gets or loses a jump to us.
LEMMA WithJumps ==
    ASSUME NEW t \in Tables, NEW w, GoodTable(w, t), NEW c \in Builtin, c \in DOMAIN w,
           NEW s \in Seq(Rules), Own(s) = Own(w[c])
    PROVE  GoodTable(With(w, c, s), t)
<1> DEFINE u == With(w, c, s)
<1>1. u = [x \in DOMAIN w \cup {c} |-> IF x = c THEN s ELSE w[x]]
  BY Zenon DEF With
<1>2. DOMAIN u = DOMAIN w /\ u[c] = s /\ \A x \in DOMAIN w : x # c => u[x] = w[x]
  BY <1>1, Zenon
<1>3. u = [x \in DOMAIN u |-> u[x]]
  BY <1>1, Zenon
<1> HIDE DEF u
<1>4. DOMAIN u \ Owners = DOMAIN Firmware[t]
  BY <1>2, Zenon DEF GoodTable
<1>5. \A x \in DOMAIN u : u[x] \in Seq(Rules)
  BY <1>2, Zenon DEF GoodTable
<1>6. \A x \in DOMAIN Firmware[t] : x \in DOMAIN w /\ (x # c => u[x] = w[x])
  BY <1>2, <1>4, Zenon
<1>7. \A x \in DOMAIN Firmware[t] : Own(u[x]) = Firmware[t][x]
  BY <1>2, <1>6, Zenon DEF GoodTable
<1>8. \A x \in DOMAIN Firmware[t] : x \notin Builtin => u[x] = Firmware[t][x]
  BY <1>2, <1>6, Zenon DEF GoodTable
<1> QED
  BY <1>3, <1>4, <1>5, <1>7, <1>8, Zenon DEF GoodTable, u

\* A rule that is counted has a first place.
LEMMA CountedPlace ==
    ASSUME NEW s \in Seq(Rules), NEW r, Count(s, r) > 0
    PROVE  LET n == FirstWhere(s, LAMBDA x : x = r) IN n \in 1 .. Len(s) /\ s[n] = r
<1> DEFINE I == {i \in DOMAIN s : s[i] = r}
<1>1. Count(s, r) = Len(Part(s, I))
  BY Zenon DEF Count, Where
<1>2. I \subseteq 1 .. Len(s) /\ \A i \in I : s[i] = r
  OBVIOUS
<1>3. FirstWhere(s, LAMBDA x : x = r) = FirstOf(I)
  BY Zenon DEF FirstWhere
<1> HIDE DEF I
<1>4. I # {}
  <2> SUFFICES ASSUME I = {} PROVE FALSE
    BY Zenon
  <2>1. \A i \in I \cap (1 .. Len(s)) : s[i] \in {}
    BY Zenon
  <2>2. Part(s, I) \in Seq({})
    BY <2>1, PartIn, Zenon
  <2>3. PICK p : p = Part(s, I)
    BY Zenon
  <2>4. p \in Seq({})
    BY <2>2, <2>3, Zenon
  <2>5. Len(p) = 0
    BY <2>4
  <2> QED
    BY <1>1, <2>3, <2>5
<1>5. FirstOf(I) \in I
  <2>1. I \in SUBSET (Nat \ {0})
    BY <1>2
  <2> QED
    BY <1>4, <2>1, FirstPlace, Zenon
<1> QED
  BY <1>2, <1>3, <1>5, Zenon

\* One line of a transcript, if the kernel takes it.
LEMMA AppliedGood ==
    ASSUME NEW t \in Tables, NEW w, GoodTable(w, t), NEW l \in SafeLines, Fits(w, l)
    PROVE  GoodTable(Applied(w, l), t)
<1>1. /\ l.op \in {":", "A", "I", "D", "F", "X"} /\ l.rule \in Rules /\ l.num \in Nat
      /\ l.name \in Owners \cup Builtin
      /\ l.name \notin Owners => l.op = ":" \/ (l.op \in {"A", "I", "D"} /\ IsJumpToUs(l.rule))
  BY DEF SafeLines
<1>2. l.name \in DOMAIN w => w[l.name] \in Seq(Rules)
  BY Zenon DEF GoodTable
<1>3. ASSUME NEW s \in Seq(Rules), Applied(w, l) = With(w, l.name, s),
             l.name \notin Owners => l.name \in DOMAIN w /\ Own(s) = Own(w[l.name])
      PROVE  GoodTable(Applied(w, l), t)
  BY <1>1, <1>3, WithOurs, WithJumps, Zenon
<1>4. <<>> \in Seq(Rules)
  OBVIOUS
<1>5. CASE l.op = ":"
  <2>1. Applied(w, l) = IF l.name \in Builtin THEN w ELSE With(w, l.name, <<>>)
    BY <1>5 DEF Applied
  <2> QED
    BY <1>1, <1>3, <1>4, <2>1, NotOurs, Zenon
<1>6. CASE l.op = "A"
  <2>1. Applied(w, l) = With(w, l.name, Append(w[l.name], l.rule))
    BY <1>6 DEF Applied
  <2>2. l.name \in DOMAIN w
    BY <1>6 DEF Fits
  <2>3. Append(w[l.name], l.rule) \in Seq(Rules)
    BY <1>1, <1>2, <2>2
  <2>4. l.name \notin Owners => Own(Append(w[l.name], l.rule)) = Own(w[l.name])
    <3>1. l.name \notin Owners => IsJumpToUs(l.rule)
      BY <1>1, <1>6
    <3> QED
      BY <1>1, <1>2, <2>2, <3>1, AppendKeepsOwn, Zenon
  <2> QED
    BY <1>3, <2>1, <2>2, <2>3, <2>4, Zenon
<1>7. CASE l.op = "I"
  <2>1. Applied(w, l) = With(w, l.name, InsertAt(w[l.name], l.num, l.rule))
    BY <1>7 DEF Applied
  <2>2. l.name \in DOMAIN w /\ l.num \in 1 .. Len(w[l.name]) + 1
    BY <1>7 DEF Fits
  <2>3. InsertAt(w[l.name], l.num, l.rule) \in Seq(Rules)
    BY <1>1, <1>2, <2>2, InsertAtIs, Zenon
  <2>4. l.name \notin Owners => Own(InsertAt(w[l.name], l.num, l.rule)) = Own(w[l.name])
    <3>1. l.name \notin Owners => IsJumpToUs(l.rule)
      BY <1>1, <1>7
    <3> QED
      <4>1. PICK s, n, x : s = w[l.name] /\ n = l.num /\ x = l.rule
        BY Zenon
      <4>2. s \in Seq(Rules) /\ n \in 1 .. Len(s) + 1 /\ x \in Rules
        BY <1>1, <1>2, <2>2, <4>1, Zenon
      <4>3. IsJumpToUs(x) => Own(InsertAt(s, n, x)) = Own(s)
        BY <4>2, InsertKeepsOwn, Zenon
      <4> QED
        BY <3>1, <4>1, <4>3, Zenon
  <2> QED
    BY <1>3, <2>1, <2>2, <2>3, <2>4, Zenon
<1>8. CASE l.op = "D"
  <2> DEFINE n == FirstWhere(w[l.name], LAMBDA r : r = l.rule)
  <2>1. Applied(w, l) = With(w, l.name, RemoveAt(w[l.name], n))
    <3> HIDE DEF n
    <3> QED
      BY <1>8 DEF Applied, n
  <2>2. l.name \in DOMAIN w /\ Count(w[l.name], l.rule) > 0
    BY <1>8 DEF Fits
  <2>3. n \in 1 .. Len(w[l.name]) /\ w[l.name][n] = l.rule
    BY <1>2, <2>2, CountedPlace, Zenon
  <2> HIDE DEF n
  <2>4. RemoveAt(w[l.name], n) \in Seq(Rules)
    BY <1>2, <2>2, <2>3, RemoveAtIs, Zenon
  <2>5. l.name \notin Owners => Own(RemoveAt(w[l.name], n)) = Own(w[l.name])
    <3>1. l.name \notin Owners => IsJumpToUs(w[l.name][n])
      BY <1>1, <1>8, <2>3
    <3> QED
      BY <1>2, <2>2, <2>3, <3>1, RemoveKeepsOwn, Zenon
  <2> QED
    BY <1>3, <2>1, <2>2, <2>4, <2>5, Zenon
<1>9. CASE l.op = "F"
  <2>1. Applied(w, l) = With(w, l.name, <<>>) /\ l.name \in Owners
    BY <1>1, <1>9 DEF Applied
  <2> QED
    BY <1>3, <1>4, <2>1, Zenon
<1>10. CASE l.op = "X"
  <2>1. Applied(w, l) = [c \in DOMAIN w \ {l.name} |-> w[c]] /\ l.name \in Owners
    BY <1>1, <1>10 DEF Applied
  <2> QED
    <3>1. PICK c : c = l.name
      BY Zenon
    <3>2. c \in Owners /\ Applied(w, l) = [x \in DOMAIN w \ {c} |-> w[x]]
      BY <2>1, <3>1, Zenon
    <3>3. GoodTable([x \in DOMAIN w \ {c} |-> w[x]], t)
      BY <3>2, WithoutOurs
    <3> QED
      BY <3>2, <3>3, Zenon
<1> QED
  BY <1>1, <1>5, <1>6, <1>7, <1>8, <1>9, <1>10, Zenon

\* The good tables are a set.
GoodTables(t) ==
    {w \in UNION {[D -> Seq(Rules)] : D \in SUBSET (Owners \cup DOMAIN Firmware[t])} :
        GoodTable(w, t)}

\* The good tables are a set.
LEMMA GoodTableIn ==
    ASSUME NEW t, NEW w
    PROVE  GoodTable(w, t) <=> w \in GoodTables(t)
<1>1. ASSUME GoodTable(w, t)
      PROVE  w \in UNION {[D -> Seq(Rules)] : D \in SUBSET (Owners \cup DOMAIN Firmware[t])}
  <2>1. PICK E : E = DOMAIN w
    BY Zenon
  <2>2. /\ w = [c \in E |-> w[c]] /\ E \ Owners = DOMAIN Firmware[t]
        /\ \A c \in E : w[c] \in Seq(Rules)
    BY <1>1, <2>1, Zenon DEF GoodTable
  <2>3. w \in [E -> Seq(Rules)]
    BY <2>2, Zenon
  <2>4. E \in SUBSET (Owners \cup DOMAIN Firmware[t])
    BY <2>2, Zenon
  <2> QED
    BY <2>3, <2>4, Zenon
<1> QED
  BY <1>1, Zenon DEF GoodTables

\* The lines of a block up to the first the kernel refuses.
LEMMA BlockGood ==
    ASSUME NEW t \in Tables, NEW w, GoodTable(w, t), NEW lines \in Seq(SafeLines)
    PROVE  \A x \in RestoreBlock(w, lines) : GoodTable(x, t)
<1> DEFINE n == Len(lines)
           G == GoodTables(t)
           fed(a, l) == {Applied(x, l) : x \in {y \in a : Fits(y, l)}}
           Made(f) == [i \in 0 .. n |-> IF i = 0 THEN {w} ELSE fed(f[i - 1], lines[i])]
           step == [i \in 1 .. n |-> [a \in SUBSET G |-> fed(a, lines[i])]]
<1>1. RestoreBlock(w, lines) = (CHOOSE f : f = Made(f))[n]
  BY Zenon DEF RestoreBlock
<1>2. n \in Nat /\ \A i \in 1 .. n : lines[i] \in SafeLines
  OBVIOUS
<1>3. \A a \in SUBSET G : \A i \in 1 .. n : fed(a, lines[i]) \in SUBSET G
  BY <1>2, GoodTableIn, AppliedGood, Zenon
<1>4. {w} \in SUBSET G
  BY GoodTableIn, Zenon
<1> HIDE DEF fed
<1>5. step \in [1 .. n -> [SUBSET G -> SUBSET G]]
  BY <1>3, Zenon
<1>6. PICK f : IsRun(f, SUBSET G, {w}, n, step)
  <2> HIDE DEF n, G, step
  <2> QED
    BY <1>2, <1>4, <1>5, Recursion, Zenon
<1>7. /\ f \in [0 .. n -> SUBSET G] /\ f[0] = {w}
      /\ \A i \in 1 .. n : f[i] = fed(f[i - 1], lines[i])
  <2>1. /\ f \in [0 .. n -> SUBSET G] /\ f[0] = {w}
        /\ \A i \in 1 .. n : f[i] = step[i][f[i - 1]]
    BY <1>6, Zenon DEF IsRun
  <2>2. ASSUME NEW i \in 1 .. n PROVE step[i][f[i - 1]] = fed(f[i - 1], lines[i])
    <3>1. i - 1 \in 0 .. n
      BY <1>2
    <3>2. f[i - 1] \in SUBSET G
      BY <2>1, <3>1, Zenon
    <3> QED
      BY <3>2, Zenon
  <2> QED
    BY <2>1, <2>2, Zenon
<1>8. f = Made(f)
  <2>1. f = [i \in 0 .. n |-> f[i]]
    BY <1>7, Zenon
  <2>2. ASSUME NEW i \in 0 .. n PROVE f[i] = Made(f)[i]
    <3>1. (i = 0 \/ i \in 1 .. n) /\ (i \in 1 .. n => i # 0)
      BY <1>2
    <3>2. Made(f)[i] = IF i = 0 THEN {w} ELSE fed(f[i - 1], lines[i])
      BY Zenon
    <3> HIDE DEF Made
    <3> QED
      BY <1>7, <3>1, <3>2, Zenon
  <2>3. Made(f) = [i \in 0 .. n |-> Made(f)[i]]
    BY Zenon
  <2> HIDE DEF Made
  <2> QED
    BY <2>1, <2>2, <2>3, Zenon
<1> DEFINE g == CHOOSE h : h = Made(h)
<1>9. g = Made(g)
  <2> HIDE DEF Made
  <2> QED
    BY <1>8, Zenon
<1> HIDE DEF g
<1>10. g[n] \in SUBSET G
  <2> DEFINE T == {i \in Nat : i <= n => g[i] \in SUBSET G}
  <2>1. 0 \in T
    <3>1. 0 \in 0 .. n /\ Made(g)[0] = {w}
      BY <1>2
    <3>2. g[0] = {w}
      BY <1>9, <3>1, Zenon
    <3> HIDE DEF G
    <3> QED
      BY <1>2, <1>4, <3>2
  <2>2. ASSUME NEW i \in Nat, i \in T PROVE i + 1 \in T
    <3> SUFFICES ASSUME i + 1 <= n PROVE g[i + 1] \in SUBSET G
      <4> HIDE DEF G
      <4> QED
        OBVIOUS
    <3>1. g[i] \in SUBSET G
      <4> HIDE DEF G
      <4> QED
        BY <1>2, <2>2
    <3>2. i + 1 \in 1 .. n /\ i + 1 \in 0 .. n /\ i + 1 # 0 /\ (i + 1) - 1 = i
      BY <1>2
    <3>3. Made(g)[i + 1] = fed(g[(i + 1) - 1], lines[i + 1])
      BY <3>2, Zenon
    <3>4. g[i + 1] = fed(g[i], lines[i + 1])
      BY <1>9, <3>2, <3>3, Zenon
    <3> QED
      BY <1>3, <3>1, <3>2, <3>4, Zenon
  <2> HIDE DEF T
  <2>3. n \in T
    BY <1>2, <2>1, <2>2, CountUp
  <2> QED
    BY <1>2, <2>3 DEF T
<1>11. RestoreBlock(w, lines) \in SUBSET G
  BY <1>1, <1>10, Zenon DEF g
<1> QED
  BY <1>11, GoodTableIn, Zenon

AllGood(k) == k = [t \in Tables |-> k[t]] /\ \A t \in Tables : GoodTable(k[t], t)

\* iptables-restore, to the end, to a table it refuses or killed on the way.
LEMMA RestoreGood ==
    ASSUME NEW k, AllGood(k), NEW blocks \in Seq(Blocks), NEW n \in 0 .. Len(blocks)
    PROVE  AllGood(Restore(k, blocks, n).tables)
<1> DEFINE fed(i) == RestoreBlock(k[blocks[i].table], blocks[i].lines)
           bad == {i \in 1 .. n : fed(i) = {}}
           refused == FirstOf(bad)
           last == IF refused = 0 THEN n ELSE refused - 1
           at(t) == {i \in 1 .. last : blocks[i].table = t}
           new(t) == IF FirstOf(at(t)) = 0 THEN k[t] ELSE CHOOSE w \in fed(FirstOf(at(t))) : TRUE
           r == Restore(k, blocks, n).tables
<1>1. r = [t \in DOMAIN k |-> new(t)]
  BY DEF Restore
<1>2. n \in Nat /\ \A i \in 1 .. n : blocks[i] \in Blocks
  OBVIOUS
<1>3. ASSUME NEW i \in 1 .. n, NEW w \in fed(i) PROVE GoodTable(w, blocks[i].table)
  <2>1. blocks[i].table \in Tables /\ blocks[i].lines \in Seq(SafeLines)
    BY <1>2 DEF Blocks
  <2>2. GoodTable(k[blocks[i].table], blocks[i].table)
    BY <2>1, Zenon DEF AllGood
  <2> QED
    BY <1>3, <2>1, <2>2, BlockGood, Zenon
<1> HIDE DEF fed
<1>4. last \in 0 .. n /\ \A i \in 1 .. last : fed(i) # {}
  <2>1. bad \in SUBSET (Nat \ {0})
    OBVIOUS
  <2>2. /\ refused = 0 <=> bad = {}
        /\ bad # {} => refused \in bad /\ \A i \in bad : refused <= i
    <3> HIDE DEF bad
    <3> QED
      BY <2>1, FirstPlace, Zenon
  <2> HIDE DEF refused
  <2> QED
    BY <1>2, <2>2, SMTT(30)
<1> HIDE DEF bad, refused, last
<1>5. ASSUME NEW t \in Tables PROVE GoodTable(new(t), t)
  <2>1. at(t) \in SUBSET (Nat \ {0})
    BY <1>2, <1>4
  <2>2. at(t) # {} => FirstOf(at(t)) \in at(t)
    BY <2>1, FirstPlace, Zenon
  <2>3. at(t) = {} => FirstOf(at(t)) = 0
    BY <2>1, FirstPlace, Zenon
  <2>4. CASE FirstOf(at(t)) = 0
    BY <2>4, Zenon DEF AllGood
  <2>5. CASE FirstOf(at(t)) # 0
    <3>1. PICK i : i = FirstOf(at(t))
      BY Zenon
    <3>2. i \in 1 .. last /\ blocks[i].table = t
      BY <2>2, <2>3, <2>5, <3>1, Zenon
    <3>3. i \in 1 .. n /\ fed(i) # {}
      BY <1>2, <1>4, <3>2
    <3>4. new(t) = CHOOSE w \in fed(i) : TRUE
      BY <2>5, <3>1, Zenon
    <3>5. new(t) \in fed(i)
      BY <3>3, <3>4, Zenon
    <3> QED
      BY <1>3, <3>2, <3>3, <3>5, Zenon
  <2> QED
    BY <2>4, <2>5, Zenon
<1> HIDE DEF new, r
<1>6. DOMAIN k = Tables
  BY Zenon DEF AllGood
<1>7. r = [t \in Tables |-> new(t)]
  BY <1>1, <1>6, Zenon
<1> QED
  BY <1>5, <1>7, Zenon DEF AllGood, r

-----------------------------------------------------------------------------
\* Registrations and calls.

Kinds == {"patch", "override", "delete"}
RuleOps == {"A", "I", "D"}
ChainNames == Owners \cup Builtin \cup Range(FirmwareSeq)
JumpOps == [op : RuleOps, num : Nat, rule : {r \in Rules : IsJumpToUs(r)}]

\* Built-in chains are only patched, and only with jumps to us.
Regs ==
    {g \in [table : Tables, chain : Owners \cup Builtin, kind : Kinds,
            staged : Seq(Rules) \cup Seq(JumpOps)] :
        /\ g.kind = "patch" => g.chain \in Builtin /\ g.staged \in Seq(JumpOps)
        /\ g.kind = "override" => g.chain \in Owners /\ g.staged \in Seq(Rules)
        /\ g.kind = "delete" => g.chain \in Owners}

Calls ==
    {c \in [op : Kinds \cup RuleOps, table : Tables, chain : ChainNames, num : Nat, rule : Rules] :
        /\ c.op = "patch" => c.chain \in Builtin
        /\ c.op \in {"override", "delete"} => c.chain \in Owners
        /\ c.op \in RuleOps /\ c.chain \notin Owners => IsJumpToUs(c.rule)}

Place(n, r, t, c) == n \in 1 .. Len(r) /\ r[n].table = t /\ r[n].chain = c

\* The place of a registration.
LEMMA IndexOfIs ==
    ASSUME NEW S, NEW r \in Seq(S), NEW t, NEW c, IndexOf(r, t, c) # 0
    PROVE  Place(IndexOf(r, t, c), r, t, c)
<1> DEFINE I == {i \in DOMAIN r : r[i].table = t /\ r[i].chain = c}
<1>1. IndexOf(r, t, c) = FirstOf(I)
  BY Zenon DEF IndexOf, FirstWhere
<1>2. DOMAIN r = 1 .. Len(r) /\ I \in SUBSET (Nat \ {0})
  OBVIOUS
<1>3. FirstOf(I) \in I
  <2> HIDE DEF I
  <2> QED
    BY <1>1, <1>2, FirstPlace, Zenon
<1> QED
  BY <1>1, <1>2, <1>3, Zenon DEF Place

\* patch_add_rule.
LEMMA PatchAddIn ==
    ASSUME NEW s \in Seq(JumpOps), NEW e \in JumpOps
    PROVE  PatchAdd(s, e) \in Seq(JumpOps)
<1> DEFINE I == {i \in DOMAIN s : s[i].rule # e.rule}
<1>1. PatchAdd(s, e) = Append(Part(s, I), e)
  BY Zenon DEF PatchAdd, Where
<1>2. \A i \in I \cap (1 .. Len(s)) : s[i] \in JumpOps
  BY SMT
<1>3. PICK p : p = Part(s, I)
  BY Zenon
<1>4. p \in Seq(JumpOps)
  <2> HIDE DEF I
  <2> QED
    BY <1>2, <1>3, PartIn, Zenon
<1>5. Append(p, e) \in Seq(JumpOps)
  BY <1>4
<1> QED
  BY <1>1, <1>3, <1>5, Zenon

\* override_append, override_insert and override_remove.
LEMMA OverrideAddIn ==
    ASSUME NEW s \in Seq(Rules), NEW e, e.op \in RuleOps, e.rule \in Rules
    PROVE  OverrideAdd(s, e) \in Seq(Rules)
<1>1. CASE e.op = "A"
  <2>1. OverrideAdd(s, e) = Append(s, e.rule)
    BY <1>1 DEF OverrideAdd
  <2> QED
    BY <2>1
<1>2. CASE e.op = "I"
  <2>1. \/ e.num \in 1 .. Len(s) + 1 /\ OverrideAdd(s, e) = InsertAt(s, e.num, e.rule)
        \/ OverrideAdd(s, e) = s
    BY <1>2 DEF OverrideAdd
  <2> QED
    BY <2>1, InsertAtIs, Zenon
<1>3. CASE e.op = "D"
  <2> DEFINE I == {i \in DOMAIN s : s[i] = e.rule}
             n == FirstOf(I)
  <2>1. OverrideAdd(s, e) = IF FirstWhere(s, LAMBDA r : r = e.rule) = 0 THEN s
                            ELSE RemoveAt(s, FirstWhere(s, LAMBDA r : r = e.rule))
    BY <1>3 DEF OverrideAdd
  <2>2. OverrideAdd(s, e) = IF n = 0 THEN s ELSE RemoveAt(s, n)
    BY <2>1, Zenon DEF FirstWhere
  <2>3. I \in SUBSET (Nat \ {0}) /\ I \subseteq 1 .. Len(s)
    OBVIOUS
  <2>4. n # 0 => n \in 1 .. Len(s)
    <3> HIDE DEF I
    <3> QED
      BY <2>3, FirstPlace, Zenon
  <2> HIDE DEF n
  <2> QED
    BY <2>2, <2>4, RemoveAtIs, Zenon
<1> QED
  BY <1>1, <1>2, <1>3 DEF RuleOps

\* A rule operation on a registered chain.
LEMMA StageRuleIn ==
    ASSUME NEW g \in Regs, NEW c \in Calls, c.op \in RuleOps, g.chain = c.chain
    PROVE  StageRule(g, [op |-> c.op, num |-> c.num, rule |-> c.rule]) \in Regs
<1> DEFINE e == [op |-> c.op, num |-> c.num, rule |-> c.rule]
<1>1. e.op \in RuleOps /\ e.num \in Nat /\ e.rule \in Rules /\ e.rule = c.rule
  BY DEF Calls
<1>2. c.chain \notin Owners => e \in JumpOps
  BY DEF Calls, JumpOps
<1> HIDE DEF e
<1>3. /\ g \in [table : Tables, chain : Owners \cup Builtin, kind : Kinds,
                staged : Seq(Rules) \cup Seq(JumpOps)]
      /\ g.kind = "patch" => g.chain \in Builtin /\ g.staged \in Seq(JumpOps)
      /\ g.kind = "override" => g.chain \in Owners /\ g.staged \in Seq(Rules)
      /\ g.kind = "delete" => g.chain \in Owners
  BY Zenon DEF Regs
<1>4. ASSUME NEW s, g.kind = "patch" => s \in Seq(JumpOps),
                    g.kind = "override" => s \in Seq(Rules),
                    g.kind = "delete" => s = g.staged
      PROVE  [g EXCEPT !.staged = s] \in Regs
  <2>1. s \in Seq(Rules) \cup Seq(JumpOps)
    BY <1>3, <1>4 DEF Kinds
  <2> QED
    BY <1>3, <1>4, <2>1 DEF Regs
<1> DEFINE s == CASE g.kind = "patch" -> PatchAdd(g.staged, e)
                  [] g.kind = "override" -> OverrideAdd(g.staged, e)
                  [] g.kind = "delete" -> g.staged
<1>5. StageRule(g, e) = [g EXCEPT !.staged = s]
  BY Zenon DEF StageRule
<1> SUFFICES [g EXCEPT !.staged = s] \in Regs
  BY <1>5, Zenon DEF e
<1>6. CASE g.kind = "patch"
  <2>1. s = PatchAdd(g.staged, e)
    BY <1>6
  <2>2. PatchAdd(g.staged, e) \in Seq(JumpOps)
    <3>1. g.staged \in Seq(JumpOps) /\ e \in JumpOps
      BY <1>2, <1>3, <1>6, NotOurs, Zenon
    <3> QED
      BY <3>1, PatchAddIn, Zenon
  <2> HIDE DEF s
  <2> QED
    BY <1>4, <1>6, <2>1, <2>2
<1>7. CASE g.kind = "override"
  <2>1. s = OverrideAdd(g.staged, e)
    BY <1>7
  <2>2. OverrideAdd(g.staged, e) \in Seq(Rules)
    BY <1>1, <1>3, <1>7, OverrideAddIn, Zenon
  <2> HIDE DEF s
  <2> QED
    BY <1>4, <1>7, <2>1, <2>2
<1>8. CASE g.kind = "delete"
  <2>1. s = g.staged
    BY <1>8
  <2> HIDE DEF s
  <2> QED
    BY <1>4, <1>8, <2>1
<1> QED
  <2> HIDE DEF s
  <2>1. g.kind \in Kinds
    BY <1>3
  <2> QED
    BY <1>6, <1>7, <1>8, <2>1 DEF Kinds

\* register_chain or dispatch_rule_op.
LEMMA PerformedIn ==
    ASSUME NEW r \in Seq(Regs), NEW c \in Calls
    PROVE  Performed(r, c) \in Seq(Regs)
<1>1. /\ c.op \in Kinds \cup RuleOps /\ c.table \in Tables
      /\ c.op = "patch" => c.chain \in Builtin
      /\ c.op \in {"override", "delete"} => c.chain \in Owners
  BY DEF Calls
<1> DEFINE i == IndexOf(r, c.table, c.chain)
<1>2. i # 0 => i \in 1 .. Len(r) /\ r[i].chain = c.chain /\ r[i] \in Regs
  <2>1. i # 0 => Place(i, r, c.table, c.chain)
    BY IndexOfIs, Zenon
  <2> HIDE DEF i
  <2> QED
    BY <2>1 DEF Place
<1>3. CASE c.op \in Kinds
  <2> DEFINE new == [table |-> c.table, chain |-> c.chain, kind |-> c.op, staged |-> <<>>]
  <2>1. Performed(r, c) = Register(r, c.table, c.chain, c.op)
    BY <1>3, Zenon DEF Performed, Kinds
  <2>2. Register(r, c.table, c.chain, c.op) = IF i = 0 THEN Append(r, new) ELSE [r EXCEPT ![i] = new]
    BY Zenon DEF Register
  <2>3. new \in Regs
    <3>1. <<>> \in Seq(Rules) /\ <<>> \in Seq(JumpOps)
      OBVIOUS
    <3>2. PICK tt, cc, kind, s : /\ tt = c.table /\ cc = c.chain /\ kind = c.op /\ s = <<>>
      BY Zenon
    <3>3. /\ s \in Seq(Rules) /\ s \in Seq(JumpOps) /\ tt \in Tables /\ kind \in Kinds
          /\ kind = "patch" => cc \in Builtin
          /\ kind \in {"override", "delete"} => cc \in Owners
      BY <1>1, <1>3, <3>1, <3>2, Zenon
    <3>4. [table |-> tt, chain |-> cc, kind |-> kind, staged |-> s] \in Regs
      BY <3>3 DEF Regs, Kinds
    <3> QED
      BY <3>2, <3>4, Zenon
  <2> HIDE DEF i, new
  <2>4. Append(r, new) \in Seq(Regs)
    BY <2>3
  <2> QED
    <3>1. i # 0 => [r EXCEPT ![i] = new] \in Seq(Regs)
      BY <1>2, <2>3
    <3> QED
      BY <2>1, <2>2, <2>4, <3>1, Zenon
<1>4. CASE c.op \in RuleOps
  <2> DEFINE e == [op |-> c.op, num |-> c.num, rule |-> c.rule]
  <2>1. Performed(r, c) = Dispatch(r, c.table, c.chain, c.op, c.num, c.rule)
    BY <1>4 DEF Performed, RuleOps
  <2>2. Dispatch(r, c.table, c.chain, c.op, c.num, c.rule)
            = IF i = 0 THEN r ELSE [r EXCEPT ![i] = StageRule(r[i], e)]
    BY Zenon DEF Dispatch
  <2>3. i # 0 => StageRule(r[i], e) \in Regs
    BY <1>2, <1>4, StageRuleIn, Zenon
  <2> HIDE DEF i, e
  <2> QED
    <3>1. PICK x : x = StageRule(r[i], e)
      BY Zenon
    <3>2. i # 0 => [r EXCEPT ![i] = x] \in Seq(Regs)
      BY <1>2, <2>3, <3>1
    <3> QED
      BY <2>1, <2>2, <3>1, <3>2, Zenon
<1> QED
  BY <1>1, <1>3, <1>4, Zenon

\* The calls of a caller, one after the other.
LEMMA PerformIn ==
    ASSUME NEW r \in Seq(Regs), NEW calls \in Seq(Calls)
    PROVE  Perform(r, calls) \in Seq(Regs)
<1> DEFINE n == Len(calls)
           G == {a \in SUBSET Seq(Regs) : a # {}}
           next(a, c) == {Performed(x, c) : x \in a}
           Made(f) == [i \in 0 .. n |-> IF i = 0 THEN {r} ELSE next(f[i - 1], calls[i])]
           step == [i \in 1 .. n |-> [a \in G |-> next(a, calls[i])]]
<1>1. Perform(r, calls) = CHOOSE x \in (CHOOSE f : f = Made(f))[n] : TRUE
  BY Zenon DEF Perform
<1>2. n \in Nat /\ \A i \in 1 .. n : calls[i] \in Calls
  OBVIOUS
<1>3. \A a \in G : \A i \in 1 .. n : next(a, calls[i]) \in G
  <2>1. \A a \in G : \A i \in 1 .. n : next(a, calls[i]) \in SUBSET Seq(Regs)
    BY <1>2, PerformedIn, Zenon
  <2>2. \A a \in G : \A i \in 1 .. n : next(a, calls[i]) # {}
    BY Zenon
  <2> QED
    BY <2>1, <2>2, Zenon
<1>4. {r} \in G
  BY Zenon
<1> HIDE DEF next
<1>5. step \in [1 .. n -> [G -> G]]
  <2> HIDE DEF G
  <2> QED
    BY <1>3, Zenon
<1>6. PICK f : IsRun(f, G, {r}, n, step)
  <2> HIDE DEF n, G, step
  <2> QED
    BY <1>2, <1>4, <1>5, Recursion, Zenon
<1> HIDE DEF G
<1>7. /\ f \in [0 .. n -> G] /\ f[0] = {r}
      /\ \A i \in 1 .. n : f[i] = next(f[i - 1], calls[i])
  <2>1. /\ f \in [0 .. n -> G] /\ f[0] = {r}
        /\ \A i \in 1 .. n : f[i] = step[i][f[i - 1]]
    BY <1>6, Zenon DEF IsRun
  <2>2. ASSUME NEW i \in 1 .. n PROVE step[i][f[i - 1]] = next(f[i - 1], calls[i])
    <3>1. i - 1 \in 0 .. n
      BY <1>2
    <3>2. f[i - 1] \in G
      BY <2>1, <3>1, Zenon
    <3> QED
      BY <3>2, Zenon
  <2> QED
    BY <2>1, <2>2, Zenon
<1>8. f = Made(f)
  <2>1. f = [i \in 0 .. n |-> f[i]]
    BY <1>7, Zenon
  <2>2. ASSUME NEW i \in 0 .. n PROVE f[i] = Made(f)[i]
    <3>1. (i = 0 \/ i \in 1 .. n) /\ (i \in 1 .. n => i # 0)
      BY <1>2
    <3>2. Made(f)[i] = IF i = 0 THEN {r} ELSE next(f[i - 1], calls[i])
      BY Zenon
    <3> HIDE DEF Made
    <3> QED
      BY <1>7, <3>1, <3>2, Zenon
  <2>3. Made(f) = [i \in 0 .. n |-> Made(f)[i]]
    BY Zenon
  <2> HIDE DEF Made
  <2> QED
    BY <2>1, <2>2, <2>3, Zenon
<1> DEFINE g == CHOOSE h : h = Made(h)
<1>9. g = Made(g)
  <2> HIDE DEF Made
  <2> QED
    BY <1>8, Zenon
<1> HIDE DEF g
<1>10. g[n] \in G
  <2> DEFINE T == {i \in Nat : i <= n => g[i] \in G}
  <2>1. 0 \in T
    <3>1. 0 \in 0 .. n /\ Made(g)[0] = {r}
      BY <1>2
    <3>2. g[0] = {r}
      BY <1>9, <3>1, Zenon
    <3> QED
      BY <1>2, <1>4, <3>2
  <2>2. ASSUME NEW i \in Nat, i \in T PROVE i + 1 \in T
    <3> SUFFICES ASSUME i + 1 <= n PROVE g[i + 1] \in G
      OBVIOUS
    <3>1. g[i] \in G
      BY <1>2, <2>2
    <3>2. i + 1 \in 1 .. n /\ i + 1 \in 0 .. n /\ i + 1 # 0 /\ (i + 1) - 1 = i
      BY <1>2
    <3>3. Made(g)[i + 1] = next(g[(i + 1) - 1], calls[i + 1])
      BY <3>2, Zenon
    <3>4. g[i + 1] = next(g[i], calls[i + 1])
      BY <1>9, <3>2, <3>3, Zenon
    <3> QED
      BY <1>3, <3>1, <3>2, <3>4, Zenon
  <2> HIDE DEF T
  <2>3. n \in T
    BY <1>2, <2>1, <2>2, CountUp, SMTT(30)
  <2> QED
    BY <1>2, <2>3 DEF T
<1>11. Perform(r, calls) = CHOOSE x \in g[n] : TRUE
  BY <1>1, Zenon DEF g
<1>12. g[n] \in SUBSET Seq(Regs) /\ g[n] # {}
  BY <1>10, Zenon DEF G
<1> QED
  BY <1>11, <1>12, Zenon

-----------------------------------------------------------------------------
\* The callers.

\* The three tables the engine works on.
LEMMA TablesAre == Tables = {"filter", "mangle", "nat"}
BY DEF Tables, TableSeq, Range

\* The rules of the chain of an owner.
LEMMA BodyIn ==
    ASSUME NEW o \in Owners, NEW t \in Tables, NEW v \in Versions \cup {0, 1, 2}
    PROVE  Body(o, t, v) \in Seq(Rules)
<1>1. ASSUME NEW to \in OurTargets, NEW part \in Versions \cup {0, 1, 2}
      PROVE  Rule(to, part) \in Rules
  BY DEF Rule, Rules
<1>2. \A to \in {"DNAT", "ACCEPT", "RETURN", "MARK", "CONNMARK", "MASQUERADE"} : to \in OurTargets
  BY Zenon DEF OurTargets
<1>3. CASE o = Remap
  <2>1. Body(o, t, v) = <<Rule("DNAT", 1), Rule("DNAT", 2)>>
    BY <1>3 DEF Body
  <2>2. Rule("DNAT", 1) \in Rules /\ Rule("DNAT", 2) \in Rules
    BY <1>1, <1>2, Zenon
  <2> QED
    BY <2>1, <2>2
<1>4. CASE o # Remap /\ t = "filter"
  <2>1. PICK x : x = Rule("ACCEPT", v)
    BY Zenon
  <2>2. Body(o, t, v) = IF o \in Blackhole THEN <<>> ELSE <<x>>
    BY <1>4, <2>1 DEF Body
  <2>3. x \in Rules
    BY <1>1, <1>2, <2>1, Zenon
  <2>4. <<>> \in Seq(Rules) /\ <<x>> \in Seq(Rules)
    BY <2>3
  <2> QED
    BY <2>2, <2>4, Zenon
<1>5. CASE o # Remap /\ t = "mangle"
  <2>1. Body(o, t, v) = <<Rule("RETURN", 0), Rule("MARK", v), Rule("CONNMARK", 0)>>
    BY <1>5 DEF Body
  <2>2. Rule("RETURN", 0) \in Rules /\ Rule("MARK", v) \in Rules /\ Rule("CONNMARK", 0) \in Rules
    BY <1>1, <1>2, Zenon
  <2> QED
    BY <2>1, <2>2
<1>6. CASE o # Remap /\ t = "nat"
  <2>1. Body(o, t, v) = <<Rule("MASQUERADE", 0)>>
    BY <1>6 DEF Body
  <2>2. Rule("MASQUERADE", 0) \in Rules
    BY <1>1, <1>2, Zenon
  <2> QED
    BY <2>1, <2>2
<1> QED
  BY <1>3, <1>4, <1>5, <1>6, TablesAre, Zenon

\* A jump to an owner, and the rule that stands for nothing when a chain is
\* registered.
LEMMA JumpIn ==
    ASSUME NEW c \in Owners \cup Builtin
    PROVE  Jump(c) \in Rules /\ (c \in Owners => IsJumpToUs(Jump(c)))
BY DEF Jump, Rule, Rules, OurTargets, IsJumpToUs

\* Registering a chain is a call.
LEMMA RegisteringIn ==
    ASSUME NEW t \in Tables, NEW c, NEW kind,
           \/ kind = "patch" /\ c \in Builtin
           \/ kind \in {"override", "delete"} /\ c \in Owners
    PROVE  Registering(kind, t, c) \in Calls
<1>1. Jump(c) \in Rules
  BY JumpIn
<1> QED
  BY <1>1 DEF Registering, Call, Calls, Kinds, RuleOps, ChainNames

\* So is a rule operation.
LEMMA CallIn ==
    ASSUME NEW op \in RuleOps, NEW t \in Tables, NEW c \in ChainNames, NEW num \in Nat,
           NEW rule \in Rules, c \notin Owners => IsJumpToUs(rule)
    PROVE  Call(op, t, c, num, rule) \in Calls
BY DEF Call, Calls, Kinds, RuleOps

\* mt_netfilter_register_base_chains.
LEMMA BaseChainsIn == BaseChains \in Seq(Calls)
<1>1. ASSUME NEW t \in Tables, NEW c \in Builtin PROVE Registering("patch", t, c) \in Calls
  BY RegisteringIn
<1>2. /\ "filter" \in Tables /\ "mangle" \in Tables /\ "nat" \in Tables
      /\ "FORWARD" \in Builtin /\ "PREROUTING" \in Builtin /\ "POSTROUTING" \in Builtin
  BY TablesAre DEF Builtin
<1>3. PICK a, b, c, d : /\ a = Registering("patch", "filter", "FORWARD")
                        /\ b = Registering("patch", "mangle", "PREROUTING")
                        /\ c = Registering("patch", "nat", "PREROUTING")
                        /\ d = Registering("patch", "nat", "POSTROUTING")
  BY Zenon
<1>4. a \in Calls /\ b \in Calls /\ c \in Calls /\ d \in Calls
  BY <1>1, <1>2, <1>3, Zenon
<1>5. BaseChains = <<a, b, c, d>>
  BY <1>3, Zenon DEF BaseChains
<1>6. <<a, b, c, d>> \in Seq(Calls)
  BY <1>4
<1> QED
  BY <1>5, <1>6, Zenon

\* A sequence made element by element.
LEMMA MadeIn ==
    ASSUME NEW T, NEW n \in Nat, NEW f, f = [i \in 1 .. n |-> f[i]],
           \A i \in 1 .. n : f[i] \in T
    PROVE  f \in Seq(T)
<1>1. f \in [1 .. n -> T]
  BY Zenon
<1> QED
  BY <1>1

\* Its parts one after the other.
LEMMA MadeConcatIn ==
    ASSUME NEW T, NEW n \in Nat, NEW f, f = [i \in 1 .. n |-> f[i]],
           \A i \in 1 .. n : f[i] \in Seq(T)
    PROVE  Concat(f) \in Seq(T)
BY MadeIn, ConcatIn, Zenon

\* The elements that are selected.
LEMMA SelectedIn ==
    ASSUME NEW T, NEW s \in Seq(T), NEW I
    PROVE  Part(s, I) \in Seq(T)
<1>1. \A i \in I \cap (1 .. Len(s)) : s[i] \in T
  OBVIOUS
<1> QED
  BY <1>1, PartIn, Zenon

\* What the tables of an owner are.
LEMMA MineIn ==
    ASSUME NEW o
    PROVE  Part(TableSeq, {i \in DOMAIN TableSeq : TableSeq[i] \in TablesOf(o)}) \in Seq(Tables)
<1>1. TableSeq \in Seq(Tables)
  BY TablesAre DEF TableSeq
<1> QED
  BY <1>1, SelectedIn, Zenon

\* Our chains are entered from built-in chains.
LEMMA BaseOfIn ==
    ASSUME NEW o, NEW t \in Tables
    PROVE  BaseOf(o, t) \in Builtin
BY TablesAre DEF BaseOf, Builtin

\* build_iptables_rules and build_rules.
LEMMA BuildIn ==
    ASSUME NEW o \in Owners, NEW v \in Versions \cup {0}
    PROVE  Build(o, v) \in Seq(Calls)
<1> DEFINE body(t) == [i \in DOMAIN Body(o, t, v) |-> Call("A", t, o, 0, Body(o, t, v)[i])]
           jump(t) == IF o = Remap THEN Call("I", t, BaseOf(o, t), 1, Jump(o))
                                   ELSE Call("A", t, BaseOf(o, t), 0, Jump(o))
           calls(t) == <<Registering("override", t, o)>> \o body(t) \o <<jump(t)>>
           mine == Part(TableSeq, {i \in DOMAIN TableSeq : TableSeq[i] \in TablesOf(o)})
           all == [i \in DOMAIN mine |-> calls(mine[i])]
<1>1. Build(o, v) = Concat(all)
  BY Zenon DEF Build, PerTable, Where
<1>2. ASSUME NEW t \in Tables PROVE calls(t) \in Seq(Calls)
  <2>1. PICK s, n : s = Body(o, t, v) /\ n = Len(s)
    BY Zenon
  <2>2. s \in Seq(Rules) /\ n \in Nat /\ DOMAIN s = 1 .. n
    <3>1. s \in Seq(Rules)
      BY <2>1, BodyIn, Zenon
    <3> QED
      BY <2>1, <3>1
  <2>3. body(t) \in Seq(Calls)
    <3>1. body(t) = [i \in 1 .. n |-> body(t)[i]]
      BY <2>1, <2>2, Zenon
    <3>2. ASSUME NEW i \in 1 .. n PROVE body(t)[i] \in Calls
      <4>1. body(t)[i] = Call("A", t, o, 0, s[i])
        BY <2>1, <2>2, Zenon
      <4>2. s[i] \in Rules /\ "A" \in RuleOps /\ 0 \in Nat /\ o \in ChainNames
        BY <2>2 DEF RuleOps, ChainNames
      <4> QED
        BY <4>1, <4>2, CallIn, Zenon
    <3> QED
      BY <2>2, <3>1, <3>2, MadeIn, Zenon
  <2>4. jump(t) \in Calls
    <3>1. PICK b, j : b = BaseOf(o, t) /\ j = Jump(o)
      BY Zenon
    <3>2. b \in ChainNames /\ j \in Rules /\ IsJumpToUs(j)
      BY <3>1, BaseOfIn, JumpIn, Zenon DEF ChainNames
    <3>3. "A" \in RuleOps /\ "I" \in RuleOps /\ 0 \in Nat /\ 1 \in Nat
      BY DEF RuleOps
    <3>4. Call("I", t, b, 1, j) \in Calls /\ Call("A", t, b, 0, j) \in Calls
      BY <3>2, <3>3, CallIn, Zenon
    <3> QED
      BY <3>1, <3>4, Zenon
  <2>5. Registering("override", t, o) \in Calls
    BY RegisteringIn, Zenon
  <2> HIDE DEF body, jump
  <2>6. PICK a, b, c : a = Registering("override", t, o) /\ b = body(t) /\ c = jump(t)
    BY Zenon
  <2>7. <<a>> \o b \o <<c>> \in Seq(Calls)
    BY <2>3, <2>4, <2>5, <2>6
  <2> QED
    BY <2>6, <2>7, Zenon
<1>3. mine \in Seq(Tables)
  BY MineIn, Zenon
<1> HIDE DEF calls, mine
<1>4. PICK n : n = Len(mine)
  BY Zenon
<1>5. n \in Nat /\ DOMAIN mine = 1 .. n /\ \A i \in 1 .. n : mine[i] \in Tables
  BY <1>3, <1>4
<1>6. all = [i \in 1 .. n |-> all[i]] /\ \A i \in 1 .. n : all[i] \in Seq(Calls)
  BY <1>2, <1>5, Zenon
<1> HIDE DEF all
<1> QED
  BY <1>1, <1>5, <1>6, MadeConcatIn, Zenon

\* delete_iptables_rules and delete_rules.
LEMMA UnbuildIn ==
    ASSUME NEW o \in Owners
    PROVE  Unbuild(o) \in Seq(Calls)
<1> DEFINE calls(t) == <<Registering("delete", t, o), Call("D", t, BaseOf(o, t), 0, Jump(o))>>
           mine == Part(TableSeq, {i \in DOMAIN TableSeq : TableSeq[i] \in TablesOf(o)})
           all == [i \in DOMAIN mine |-> calls(mine[i])]
<1>1. Unbuild(o) = Concat(all)
  BY Zenon DEF Unbuild, PerTable, Where
<1>2. ASSUME NEW t \in Tables PROVE calls(t) \in Seq(Calls)
  <2>1. PICK a, c : a = Registering("delete", t, o) /\ c = Call("D", t, BaseOf(o, t), 0, Jump(o))
    BY Zenon
  <2>2. a \in Calls
    BY <2>1, RegisteringIn, Zenon
  <2>3. c \in Calls
    <3>1. PICK b, j : b = BaseOf(o, t) /\ j = Jump(o)
      BY Zenon
    <3>2. b \in ChainNames /\ j \in Rules /\ IsJumpToUs(j)
      BY <3>1, BaseOfIn, JumpIn, Zenon DEF ChainNames
    <3>3. "D" \in RuleOps /\ 0 \in Nat
      BY DEF RuleOps
    <3>4. Call("D", t, b, 0, j) \in Calls
      BY <3>2, <3>3, CallIn, Zenon
    <3> QED
      BY <2>1, <3>1, <3>4, Zenon
  <2>4. <<a, c>> \in Seq(Calls)
    BY <2>2, <2>3
  <2> QED
    BY <2>1, <2>4, Zenon
<1>3. mine \in Seq(Tables)
  BY MineIn, Zenon
<1> HIDE DEF calls, mine
<1>4. PICK n : n = Len(mine)
  BY Zenon
<1>5. n \in Nat /\ DOMAIN mine = 1 .. n /\ \A i \in 1 .. n : mine[i] \in Tables
  BY <1>3, <1>4
<1>6. all = [i \in 1 .. n |-> all[i]] /\ \A i \in 1 .. n : all[i] \in Seq(Calls)
  BY <1>2, <1>5, Zenon
<1> HIDE DEF all
<1> QED
  BY <1>1, <1>5, <1>6, MadeConcatIn, Zenon

-----------------------------------------------------------------------------
\* What is read from iptables-save.

\* In a chain that is neither ours nor built-in there is no jump to us.
SavedLines ==
    {l \in [op : {"#", "*", ":", "A", "C"}, name : ChainNames \cup Tables \cup {""},
            num : {0}, rule : Rules] :
        /\ l.op = "*" => l.name \in Tables
        /\ l.op \in {":", "A"} => l.name \in ChainNames
        /\ l.op = "A" /\ l.name \notin Owners \cup Builtin => ~IsJumpToUs(l.rule)}

Current ==
    {e \in [table : Tables, chain : ChainNames, rules : Seq(Rules)] :
        e.chain \notin Owners \cup Builtin =>
            \A i \in 1 .. Len(e.rules) : ~IsJumpToUs(e.rules[i])}

\* A line without a rule.
LEMMA LineIn ==
    ASSUME NEW op, NEW name,
           \/ op \in {"#", "C"} /\ name = ""
           \/ op = "*" /\ name \in Tables
           \/ op = ":" /\ name \in ChainNames
    PROVE  Line(op, name) \in SavedLines
<1>1. Rule("", 0) \in Rules
  BY DEF Rule, Rules, OurTargets
<1> QED
  BY <1>1 DEF Line, SavedLines

\* A line with a rule of the firmware or of ours.
LEMMA SavedRuleIn ==
    ASSUME NEW k, AllGood(k), NEW t \in Tables, NEW c \in DOMAIN k[t], c \in ChainNames,
           NEW n \in DOMAIN k[t][c]
    PROVE  RuleLine("A", c, 0, k[t][c][n]) \in SavedLines
<1>1. GoodTable(k[t], t)
  BY Zenon DEF AllGood
<1>2. PICK s : s = k[t][c]
  BY Zenon
<1>3. s \in Seq(Rules) /\ n \in DOMAIN s
  BY <1>1, <1>2, Zenon DEF GoodTable
<1>4. s[n] \in Rules
  BY <1>3
<1>5. c \notin Owners \cup Builtin => ~IsJumpToUs(s[n])
  <2> SUFFICES ASSUME c \notin Owners \cup Builtin PROVE ~IsJumpToUs(s[n])
    BY Zenon
  <2>1. c \in DOMAIN Firmware[t]
    BY <1>1, Zenon DEF GoodTable
  <2>2. s = Firmware[t][c]
    BY <1>1, <1>2, <2>1, Zenon DEF GoodTable
  <2> QED
    BY <1>3, <2>1, <2>2, FirmwareAssumption, Zenon
<1>6. RuleLine("A", c, 0, s[n]) \in SavedLines
  BY <1>4, <1>5 DEF RuleLine, SavedLines
<1> QED
  BY <1>2, <1>6, Zenon

\* iptables-save.
LEMMA SaveIn ==
    ASSUME NEW k, AllGood(k)
    PROVE  SaveLines(k) \in Seq(SavedLines)
<1> DEFINE cs(t) == Part(ChainSeq, {i \in DOMAIN ChainSeq : ChainSeq[i] \in DOMAIN k[t]})
           decl(t) == [j \in DOMAIN cs(t) |-> Line(":", cs(t)[j])]
           lines(t, c) == [n \in DOMAIN k[t][c] |-> RuleLine("A", c, 0, k[t][c][n])]
           rules(t) == [j \in DOMAIN cs(t) |-> lines(t, cs(t)[j])]
           one(t) == <<Line("#", ""), Line("*", t)>> \o decl(t) \o Concat(rules(t)) \o <<Line("C", "")>>
           all == [i \in DOMAIN TableSeq |-> one(TableSeq[i])]
<1>1. SaveLines(k) = Concat(all)
  BY Zenon DEF SaveLines, Where
<1>2. ASSUME NEW t \in Tables PROVE one(t) \in Seq(SavedLines)
  <2> DEFINE D == {c \in ChainNames : c \in DOMAIN k[t]}
             I == {i \in DOMAIN ChainSeq : ChainSeq[i] \in DOMAIN k[t]}
  <2>1. ChainSeq \in Seq(ChainNames)
    <3>1. FirmwareSeq \in Seq(Range(FirmwareSeq)) /\ OwnerSeq \in Seq(Owners)
      BY FirmwareAssumption, Zenon
    <3>2. PICK A, B, C : A = Range(FirmwareSeq) /\ B = Owners /\ C = ChainNames
      BY Zenon
    <3>3. A \subseteq C /\ B \subseteq C
      BY <3>2, Zenon DEF ChainNames
    <3>4. FirmwareSeq \in Seq(A) /\ OwnerSeq \in Seq(B)
      BY <3>1, <3>2, Zenon
    <3>5. FirmwareSeq \in Seq(C) /\ OwnerSeq \in Seq(C)
      BY <3>3, <3>4
    <3>6. FirmwareSeq \o OwnerSeq \in Seq(C)
      BY <3>5
    <3> QED
      BY <3>2, <3>6, Zenon DEF ChainSeq
  <2>2. \A i \in I \cap (1 .. Len(ChainSeq)) : ChainSeq[i] \in D
    BY <2>1
  <2>3. cs(t) \in Seq(D)
    <3>1. cs(t) = Part(ChainSeq, I)
      BY Zenon
    <3> HIDE DEF I, D, cs
    <3> QED
      BY <2>1, <2>2, <3>1, PartIn, Zenon
  <2>4. PICK n : n = Len(cs(t))
    BY Zenon
  <2>5. n \in Nat /\ DOMAIN cs(t) = 1 .. n /\ \A j \in 1 .. n : cs(t)[j] \in D
    <3> HIDE DEF cs, D
    <3> QED
      BY <2>3, <2>4
  <2> HIDE DEF cs
  <2>6. decl(t) \in Seq(SavedLines)
    <3>1. decl(t) = [j \in 1 .. n |-> decl(t)[j]]
      BY <2>5, Zenon
    <3>2. \A j \in 1 .. n : decl(t)[j] \in SavedLines
      BY <2>5, LineIn, Zenon
    <3> HIDE DEF decl
    <3> QED
      BY <2>5, <3>1, <3>2, MadeIn, Zenon
  <2>7. ASSUME NEW c \in D PROVE lines(t, c) \in Seq(SavedLines)
    <3>1. PICK m : m = Len(k[t][c])
      BY Zenon
    <3>2. k[t][c] \in Seq(Rules)
      BY Zenon DEF AllGood, GoodTable
    <3>3. m \in Nat /\ DOMAIN k[t][c] = 1 .. m
      <4>1. PICK s : s = k[t][c]
        BY Zenon
      <4>2. s \in Seq(Rules)
        BY <3>2, <4>1, Zenon
      <4>3. Len(s) \in Nat /\ DOMAIN s = 1 .. Len(s)
        BY <4>2
      <4> QED
        BY <3>1, <4>1, <4>3, Zenon
    <3>4. lines(t, c) = [i \in 1 .. m |-> lines(t, c)[i]]
      BY <3>3, Zenon
    <3>5. \A i \in 1 .. m : lines(t, c)[i] \in SavedLines
      BY <3>3, SavedRuleIn, Zenon
    <3> HIDE DEF lines
    <3> QED
      BY <3>3, <3>4, <3>5, MadeIn, Zenon
  <2> HIDE DEF lines, D
  <2>8. Concat(rules(t)) \in Seq(SavedLines)
    <3>1. rules(t) = [j \in 1 .. n |-> rules(t)[j]] /\ \A j \in 1 .. n : rules(t)[j] \in Seq(SavedLines)
      BY <2>5, <2>7, Zenon
    <3> HIDE DEF rules
    <3> QED
      BY <2>5, <3>1, MadeConcatIn, Zenon
  <2> HIDE DEF decl, rules
  <2>9. Line("#", "") \in SavedLines /\ Line("*", t) \in SavedLines /\ Line("C", "") \in SavedLines
    BY LineIn, Zenon
  <2>10. PICK a, b, c, d, e : /\ a = Line("#", "") /\ b = Line("*", t) /\ c = decl(t)
                              /\ d = Concat(rules(t)) /\ e = Line("C", "")
    BY Zenon
  <2>11. <<a, b>> \o c \o d \o <<e>> \in Seq(SavedLines)
    <3>1. a \in SavedLines /\ b \in SavedLines /\ e \in SavedLines
          /\ c \in Seq(SavedLines) /\ d \in Seq(SavedLines)
      BY <2>6, <2>8, <2>9, <2>10, Zenon
    <3>2. <<a, b>> \in Seq(SavedLines) /\ <<e>> \in Seq(SavedLines)
      BY <3>1
    <3> QED
      BY <3>1, <3>2
  <2> QED
    BY <2>10, <2>11, Zenon
<1> HIDE DEF one
<1>3. DOMAIN TableSeq = 1 .. 3 /\ \A i \in 1 .. 3 : TableSeq[i] \in Tables
  BY TablesAre DEF TableSeq
<1>4. all = [i \in 1 .. 3 |-> all[i]] /\ \A i \in 1 .. 3 : all[i] \in Seq(SavedLines)
  BY <1>2, <1>3, Zenon
<1> HIDE DEF all
<1>5. 3 \in Nat
  OBVIOUS
<1> QED
  BY <1>1, <1>4, <1>5, MadeConcatIn, Zenon

\* The lines of one table.
LEMMA SectionIn ==
    ASSUME NEW lines \in Seq(SavedLines), NEW s \in 1 .. Len(lines)
    PROVE  Section(lines, s) \in Seq(SavedLines)
<1> DEFINE rest == SubSeq(lines, s + 1, Len(lines))
           I == {i \in DOMAIN rest : rest[i].op \in {"*", "C"}}
           e == FirstOf(I)
<1>1. Section(lines, s) = IF e = 0 THEN rest ELSE SubSeq(rest, 1, e - 1)
  BY Zenon DEF Section, FirstWhere
<1>2. rest \in Seq(SavedLines)
  OBVIOUS
<1> HIDE DEF rest
<1>3. I \in SUBSET (Nat \ {0}) /\ I \subseteq 1 .. Len(rest)
  BY <1>2
<1>4. e # 0 => e \in 1 .. Len(rest)
  <2> HIDE DEF I
  <2> QED
    BY <1>3, FirstPlace, Zenon
<1> HIDE DEF e
<1>5. e # 0 => SubSeq(rest, 1, e - 1) \in Seq(SavedLines)
  BY <1>2, <1>4
<1> QED
  BY <1>1, <1>2, <1>5, Zenon

\* The chains of one table.
LEMMA ChainsIn ==
    ASSUME NEW t \in Tables, NEW lines \in Seq(SavedLines)
    PROVE  ChainsOf(t, lines) \in Seq(Current)
<1> DEFINE B == {l \in SavedLines : l.op \in {":", "A"}}
           I == {i \in DOMAIN lines : lines[i].op \in {":", "A"}}
           body == Part(lines, I)
           idx == [i \in DOMAIN body |-> i]
           J == {i \in DOMAIN idx : \A j \in 1 .. idx[i] - 1 : body[j].name # body[idx[i]].name}
           first == Part(idx, J)
           its(c) == Part(body, {i \in DOMAIN body : body[i].op = "A" /\ body[i].name = c})
           rules(c) == [n \in DOMAIN its(c) |-> its(c)[n].rule]
           entry(c) == [table |-> t, chain |-> c, rules |-> rules(c)]
           all == [k \in DOMAIN first |-> entry(body[first[k]].name)]
<1>1. ChainsOf(t, lines) = all
  BY Zenon DEF ChainsOf, Where
<1>2. body \in Seq(B)
  <2>1. \A i \in I \cap (1 .. Len(lines)) : lines[i] \in B
    OBVIOUS
  <2> HIDE DEF I, B
  <2> QED
    BY <2>1, PartIn, Zenon
<1> HIDE DEF body
<1>3. PICK m : m = Len(body)
  BY Zenon
<1>4. m \in Nat /\ DOMAIN body = 1 .. m /\ \A i \in 1 .. m : body[i] \in B
  <2> HIDE DEF B
  <2> QED
    BY <1>2, <1>3
<1>5. idx \in Seq(1 .. m)
  <2>1. idx = [i \in 1 .. m |-> idx[i]] /\ \A i \in 1 .. m : idx[i] \in 1 .. m
    BY <1>4, Zenon
  <2> HIDE DEF idx
  <2> QED
    BY <1>4, <2>1, MadeIn, Zenon
<1>6. first \in Seq(1 .. m)
  <2> HIDE DEF idx, J
  <2> QED
    BY <1>5, SelectedIn, Zenon
<1> HIDE DEF first
<1>7. ASSUME NEW c \in ChainNames PROVE entry(c) \in Current
  <2> DEFINE K == {i \in DOMAIN body : body[i].op = "A" /\ body[i].name = c}
             R == {l \in SavedLines : l.op = "A" /\ l.name = c}
  <2>1. \A i \in K \cap (1 .. Len(body)) : body[i] \in R
    BY <1>3, <1>4
  <2>2. its(c) \in Seq(R)
    <3>1. its(c) = Part(body, K)
      BY Zenon
    <3> HIDE DEF K, R, its, B
    <3> QED
      BY <1>2, <2>1, <3>1, PartIn, Zenon
  <2> HIDE DEF its
  <2>3. PICK n : n = Len(its(c))
    BY Zenon
  <2>4. n \in Nat /\ DOMAIN its(c) = 1 .. n /\ \A i \in 1 .. n : its(c)[i] \in R
    <3> HIDE DEF R
    <3> QED
      BY <2>2, <2>3
  <2>5. \A l \in R : l.rule \in Rules /\ (c \notin Owners \cup Builtin => ~IsJumpToUs(l.rule))
    BY DEF SavedLines
  <2> HIDE DEF R
  <2>6. \A i \in 1 .. n : /\ rules(c)[i] \in Rules
                          /\ c \notin Owners \cup Builtin => ~IsJumpToUs(rules(c)[i])
    BY <2>4, <2>5, Zenon
  <2>7. rules(c) = [i \in 1 .. n |-> rules(c)[i]]
    BY <2>4, Zenon
  <2> HIDE DEF rules
  <2>8. rules(c) \in Seq(Rules)
    BY <2>4, <2>6, <2>7, MadeIn, Zenon
  <2>9. Len(rules(c)) = n
    BY <2>4, <2>7
  <2> QED
    BY <2>6, <2>8, <2>9 DEF Current
<1>8. \A l \in B : l.name \in ChainNames
  BY DEF SavedLines
<1> HIDE DEF entry, B
<1>9. PICK n : n = Len(first)
  BY Zenon
<1>10. n \in Nat /\ DOMAIN first = 1 .. n /\ \A i \in 1 .. n : first[i] \in 1 .. m
  BY <1>4, <1>6, <1>9
<1>11. all = [k \in 1 .. n |-> all[k]] /\ \A k \in 1 .. n : all[k] \in Current
  BY <1>4, <1>7, <1>8, <1>10, Zenon
<1> HIDE DEF all
<1> QED
  BY <1>1, <1>10, <1>11, MadeIn, Zenon

\* mt_ipt_get_current_rules on what iptables-save writes.
LEMMA CurrentIn ==
    ASSUME NEW k, AllGood(k)
    PROVE  CurrentRules(k) \in Seq(Current)
<1> DEFINE lines == SaveLines(k)
           idx == [i \in DOMAIN lines |-> i]
           I == {i \in DOMAIN idx : lines[idx[i]].op = "*"}
           opens == Part(idx, I)
           one(s) == ChainsOf(lines[s].name, Section(lines, s))
           all == [j \in DOMAIN opens |-> one(opens[j])]
<1>1. CurrentRules(k) = Concat(all)
  BY DEF CurrentRules, GetCurrentRules, Where
<1>2. lines \in Seq(SavedLines)
  BY SaveIn, Zenon
<1> HIDE DEF lines
<1>3. PICK m : m = Len(lines)
  BY Zenon
<1>4. m \in Nat /\ DOMAIN lines = 1 .. m /\ \A i \in 1 .. m : lines[i] \in SavedLines
  BY <1>2, <1>3
<1>5. idx \in Seq(1 .. m)
  <2>1. idx = [i \in 1 .. m |-> idx[i]] /\ \A i \in 1 .. m : idx[i] \in 1 .. m
    BY <1>4, Zenon
  <2> HIDE DEF idx
  <2> QED
    BY <1>4, <2>1, MadeIn, Zenon
<1> DEFINE O == {i \in 1 .. m : lines[i].op = "*"}
<1>6. \A i \in I \cap (1 .. Len(idx)) : idx[i] \in O
  BY <1>4, Zenon
<1>7. opens \in Seq(O)
  <2> HIDE DEF idx, I, O
  <2> QED
    BY <1>5, <1>6, PartIn, Zenon
<1> HIDE DEF opens
<1>8. ASSUME NEW s \in O PROVE one(s) \in Seq(Current)
  <2>1. lines[s].name \in Tables
    BY <1>4 DEF SavedLines
  <2>2. Section(lines, s) \in Seq(SavedLines)
    BY <1>2, <1>3, SectionIn, Zenon
  <2> QED
    BY <2>1, <2>2, ChainsIn, Zenon
<1> HIDE DEF one, O
<1>9. PICK n : n = Len(opens)
  BY Zenon
<1>10. n \in Nat /\ DOMAIN opens = 1 .. n /\ \A i \in 1 .. n : opens[i] \in O
  BY <1>7, <1>9
<1>11. all = [j \in 1 .. n |-> all[j]] /\ \A j \in 1 .. n : all[j] \in Seq(Current)
  BY <1>8, <1>10, Zenon
<1> HIDE DEF all
<1> QED
  BY <1>1, <1>10, <1>11, MadeConcatIn, Zenon

\* clean_one.
LEMMA CleanOneIn ==
    ASSUME NEW e \in Current
    PROVE  CleanOne(e) \in Seq(Calls)
<1> DEFINE jumps == Part(e.rules, {i \in DOMAIN e.rules : IsJumpToUs(e.rules[i])})
           J == {r \in Rules : IsJumpToUs(r)}
           calls == [i \in DOMAIN jumps |-> Call("D", e.table, e.chain, 0, jumps[i])]
           unknown == jumps # <<>> /\ IndexOf(reg, e.table, e.chain) = 0
           own == <<Registering("delete", e.table, e.chain)>>
           new == <<Registering("patch", e.table, e.chain)>>
<1>1. CleanOne(e) = IF e.chain \in Owners THEN own ELSE (IF unknown THEN new ELSE <<>>) \o calls
  BY Zenon DEF CleanOne, Where
<1>2. e.table \in Tables /\ e.chain \in ChainNames /\ e.rules \in Seq(Rules)
  BY DEF Current
<1>3. e.chain \notin Owners \cup Builtin => \A i \in 1 .. Len(e.rules) : ~IsJumpToUs(e.rules[i])
  BY DEF Current
<1>4. PICK s, t, c : s = e.rules /\ t = e.table /\ c = e.chain
  BY Zenon
<1> DEFINE I == {i \in DOMAIN s : IsJumpToUs(s[i])}
<1>5. jumps = Part(s, I)
  BY <1>4, Zenon
<1>6. s \in Seq(Rules)
  BY <1>2, <1>4, Zenon
<1>7. jumps \in Seq(J)
  <2>1. \A i \in I \cap (1 .. Len(s)) : s[i] \in J
    BY <1>6
  <2> HIDE DEF I, J, jumps
  <2> QED
    BY <1>5, <1>6, <2>1, PartIn, Zenon
<1>8. c \notin Owners \cup Builtin => jumps = <<>>
  <2> SUFFICES ASSUME c \notin Owners \cup Builtin PROVE jumps = <<>>
    BY Zenon
  <2>1. \A i \in 1 .. Len(s) : ~IsJumpToUs(s[i])
    BY <1>3, <1>4, Zenon
  <2>2. \A i \in I \cap (1 .. Len(s)) : s[i] \in {}
    BY <2>1, Zenon
  <2>3. Part(s, I) \in Seq({})
    <3> HIDE DEF I
    <3> QED
      BY <1>6, <2>2, PartIn, Zenon
  <2> HIDE DEF I, jumps
  <2>4. jumps \in Seq({})
    BY <1>5, <2>3, Zenon
  <2> QED
    BY <2>4
<1> HIDE DEF jumps
<1>9. PICK n : n = Len(jumps)
  BY Zenon
<1>10. n \in Nat /\ DOMAIN jumps = 1 .. n /\ \A i \in 1 .. n : jumps[i] \in Rules /\ IsJumpToUs(jumps[i])
  <2>1. n \in Nat /\ DOMAIN jumps = 1 .. n /\ \A i \in 1 .. n : jumps[i] \in J
    <3> HIDE DEF J
    <3> QED
      BY <1>7, <1>9
  <2> QED
    BY <2>1, Zenon
<1>11. calls \in Seq(Calls)
  <2>1. "D" \in RuleOps /\ 0 \in Nat
    BY DEF RuleOps
  <2>2. calls = [i \in 1 .. n |-> calls[i]] /\ \A i \in 1 .. n : calls[i] \in Calls
    BY <1>2, <1>10, <2>1, CallIn, Zenon
  <2> HIDE DEF calls
  <2> QED
    BY <1>10, <2>2, MadeIn, Zenon
<1> HIDE DEF calls
<1>12. e.chain \in Owners => own \in Seq(Calls)
  <2> SUFFICES ASSUME e.chain \in Owners PROVE own \in Seq(Calls)
    BY Zenon
  <2>1. PICK x : x = Registering("delete", e.table, e.chain)
    BY Zenon
  <2>2. x \in Calls
    BY <1>2, <2>1, RegisteringIn, Zenon
  <2>3. <<x>> \in Seq(Calls)
    BY <2>2
  <2> QED
    BY <2>1, <2>3, Zenon
<1>13. e.chain \notin Owners /\ unknown => new \in Seq(Calls)
  <2> SUFFICES ASSUME e.chain \notin Owners, jumps # <<>> PROVE new \in Seq(Calls)
    BY Zenon
  <2>1. PICK x : x = Registering("patch", e.table, e.chain)
    BY Zenon
  <2>2. e.chain \in Builtin
    BY <1>4, <1>8, Zenon
  <2>3. x \in Calls
    BY <1>2, <2>1, <2>2, RegisteringIn, Zenon
  <2>4. <<x>> \in Seq(Calls)
    BY <2>3
  <2> QED
    BY <2>1, <2>4, Zenon
<1> HIDE DEF own, new, unknown
<1>14. <<>> \o calls \in Seq(Calls) /\ \A x \in Seq(Calls) : x \o calls \in Seq(Calls)
  BY <1>11
<1> QED
  BY <1>1, <1>12, <1>13, <1>14, Zenon

\* mt_netfilter_clean_iptables: whatever was found, only our chains are staged
\* to go, and only jumps to us.
LEMMA CleanIn ==
    ASSUME NEW cur \in Seq(Current)
    PROVE  Clean(cur) \in Seq(Calls)
<1> DEFINE all == [i \in DOMAIN cur |-> CleanOne(cur[i])]
<1>1. Clean(cur) = Concat(all)
  BY Zenon DEF Clean
<1>2. PICK n : n = Len(cur)
  BY Zenon
<1>3. n \in Nat /\ DOMAIN cur = 1 .. n /\ \A i \in 1 .. n : cur[i] \in Current
  BY <1>2
<1>4. all = [i \in 1 .. n |-> all[i]] /\ \A i \in 1 .. n : all[i] \in Seq(Calls)
  BY <1>3, CleanOneIn, Zenon
<1> HIDE DEF all
<1> QED
  BY <1>1, <1>3, <1>4, MadeConcatIn, Zenon

\* rebuild_netfilter_locked.
LEMMA PrepareIn ==
    ASSUME enabled \in [Owners -> SUBSET (Versions \cup {0})]
    PROVE  Prepare \in Seq(Calls)
<1> DEFINE others == Part(OwnerSeq, {i \in DOMAIN OwnerSeq : OwnerSeq[i] # Remap})
           order == <<Remap>> \o others
           one(o) == IF enabled[o] = {} THEN <<>>
                     ELSE Build(o, CHOOSE v \in enabled[o] : TRUE)
           all == [i \in DOMAIN order |-> one(order[i])]
<1>1. Prepare = BaseChains \o Concat(all)
  BY Zenon DEF Prepare, Where
<1>2. others \in Seq(Owners) /\ Remap \in Owners
  BY FirmwareAssumption, SelectedIn, Zenon
<1> HIDE DEF others
<1>3. order \in Seq(Owners)
  BY <1>2
<1> HIDE DEF order
<1>4. PICK n : n = Len(order)
  BY Zenon
<1>5. n \in Nat /\ DOMAIN order = 1 .. n /\ \A i \in 1 .. n : order[i] \in Owners
  BY <1>3, <1>4
<1>6. ASSUME NEW o \in Owners PROVE one(o) \in Seq(Calls)
  <2>1. enabled[o] \subseteq Versions \cup {0}
    OBVIOUS
  <2>2. enabled[o] # {} => (CHOOSE v \in enabled[o] : TRUE) \in Versions \cup {0}
    BY <2>1, Zenon
  <2>3. <<>> \in Seq(Calls)
    OBVIOUS
  <2> QED
    BY <2>2, <2>3, BuildIn, Zenon
<1> HIDE DEF one
<1>7. all = [i \in 1 .. n |-> all[i]] /\ \A i \in 1 .. n : all[i] \in Seq(Calls)
  BY <1>5, <1>6, Zenon
<1> HIDE DEF all
<1>8. Concat(all) \in Seq(Calls)
  BY <1>5, <1>7, MadeConcatIn, Zenon
<1> QED
  BY <1>1, <1>8, BaseChainsIn

-----------------------------------------------------------------------------
\* Compilation.

\* The number of copies of a rule.
LEMMA CountIn ==
    ASSUME NEW S, NEW s \in Seq(S), NEW r
    PROVE  Count(s, r) \in Nat
<1> DEFINE I == {i \in DOMAIN s : s[i] = r}
<1>1. Count(s, r) = Len(Part(s, I))
  BY Zenon DEF Count, Where
<1>2. PICK p : p = Part(s, I)
  BY Zenon
<1> HIDE DEF I
<1>3. p \in Seq(S)
  BY <1>2, SelectedIn, Zenon
<1>4. Len(p) \in Nat
  BY <1>3
<1> QED
  BY <1>1, <1>2, <1>4, Zenon

\* A command without a rule.
LEMMA CommandIn ==
    ASSUME NEW op \in {":", "F", "X"}, NEW c \in Owners \cup Builtin, op # ":" => c \in Owners
    PROVE  Line(op, c) \in SafeLines
<1>1. Rule("", 0) \in Rules
  BY DEF Rule, Rules, OurTargets
<1> QED
  BY <1>1 DEF Line, SafeLines

\* A command with a rule.
LEMMA RuleLineIn ==
    ASSUME NEW op \in RuleOps, NEW c \in Owners \cup Builtin, NEW num \in Nat, NEW r \in Rules,
           c \in Owners \/ IsJumpToUs(r)
    PROVE  RuleLine(op, c, num, r) \in SafeLines
BY DEF RuleLine, SafeLines, RuleOps

\* chain_patch.c.
LEMMA PatchIn ==
    ASSUME NEW c \in Builtin, NEW staged \in Seq(JumpOps), NEW rules \in Seq(Rules)
    PROVE  PatchCompile(c, staged, rules) \in Seq(SafeLines)
<1> DEFINE count(e) == Count(rules, e.rule)
           surplus(e) == IF count(e) > 1 THEN count(e) - 1 ELSE 0
           deletes(e) == [j \in 1 .. surplus(e) |-> RuleLine("D", c, 0, e.rule)]
           last(e) == IF (e.op = "D") = (count(e) > 0) THEN <<RuleLine(e.op, c, e.num, e.rule)>> ELSE <<>>
           all == [i \in DOMAIN staged |-> deletes(staged[i]) \o last(staged[i])]
<1>1. PatchCompile(c, staged, rules) = Concat(all)
  BY Zenon DEF PatchCompile
<1>2. PICK n : n = Len(staged)
  BY Zenon
<1>3. n \in Nat /\ DOMAIN staged = 1 .. n /\ \A i \in 1 .. n : staged[i] \in JumpOps
  BY <1>2
<1>4. ASSUME NEW e \in JumpOps PROVE deletes(e) \o last(e) \in Seq(SafeLines)
  <2>1. e.op \in RuleOps /\ e.num \in Nat /\ e.rule \in Rules /\ IsJumpToUs(e.rule)
    BY DEF JumpOps
  <2>2. count(e) \in Nat
    BY CountIn, Zenon
  <2> HIDE DEF count
  <2>3. surplus(e) \in Nat
    BY <2>2
  <2> HIDE DEF surplus
  <2>4. "D" \in RuleOps /\ 0 \in Nat
    BY DEF RuleOps
  <2>5. RuleLine("D", c, 0, e.rule) \in SafeLines /\ RuleLine(e.op, c, e.num, e.rule) \in SafeLines
    BY <2>1, <2>4, RuleLineIn, Zenon
  <2>6. deletes(e) \in Seq(SafeLines)
    <3>1. /\ deletes(e) = [j \in 1 .. surplus(e) |-> deletes(e)[j]]
          /\ \A j \in 1 .. surplus(e) : deletes(e)[j] \in SafeLines
      BY <2>5, Zenon
    <3> HIDE DEF deletes
    <3> QED
      BY <2>3, <3>1, MadeIn, Zenon
  <2>7. last(e) \in Seq(SafeLines)
    <3>1. PICK x : x = RuleLine(e.op, c, e.num, e.rule)
      BY Zenon
    <3>2. x \in SafeLines
      BY <2>5, <3>1, Zenon
    <3>3. <<x>> \in Seq(SafeLines) /\ <<>> \in Seq(SafeLines)
      BY <3>2
    <3> QED
      BY <3>1, <3>3, Zenon
  <2> HIDE DEF deletes, last
  <2> QED
    BY <2>6, <2>7
<1> HIDE DEF deletes, last
<1>5. all = [i \in 1 .. n |-> all[i]] /\ \A i \in 1 .. n : all[i] \in Seq(SafeLines)
  BY <1>3, <1>4, Zenon
<1> HIDE DEF all
<1> QED
  BY <1>1, <1>3, <1>5, MadeConcatIn, Zenon

\* chain_override.c.
LEMMA OverrideIn ==
    ASSUME NEW c \in Owners, NEW staged \in Seq(Rules), NEW found, NEW rules
    PROVE  OverrideCompile(c, staged, found, rules) \in Seq(SafeLines)
<1> DEFINE all == [i \in DOMAIN staged |-> RuleLine("A", c, 0, staged[i])]
<1>1. PICK n : n = Len(staged)
  BY Zenon
<1>2. n \in Nat /\ DOMAIN staged = 1 .. n /\ \A i \in 1 .. n : staged[i] \in Rules
  BY <1>1
<1>3. "A" \in RuleOps /\ 0 \in Nat
  BY DEF RuleOps
<1>4. all = [i \in 1 .. n |-> all[i]] /\ \A i \in 1 .. n : all[i] \in SafeLines
  BY <1>2, <1>3, RuleLineIn, Zenon
<1> HIDE DEF all
<1>5. all \in Seq(SafeLines)
  BY <1>2, <1>4, MadeIn, Zenon
<1>6. PICK x : x = Line("F", c)
  BY Zenon
<1>7. x \in SafeLines
  BY <1>6, CommandIn, Zenon
<1>8. <<x>> \o all \in Seq(SafeLines) /\ <<>> \in Seq(SafeLines)
  BY <1>5, <1>7
<1> QED
  BY <1>6, <1>8, Zenon DEF OverrideCompile, all

\* chain_delete.c.
LEMMA DeleteIn ==
    ASSUME NEW c \in Owners, NEW found
    PROVE  DeleteCompile(c, found) \in Seq(SafeLines)
<1>1. PICK x, y : x = Line("F", c) /\ y = Line("X", c)
  BY Zenon
<1>2. x \in SafeLines /\ y \in SafeLines
  BY <1>1, CommandIn, Zenon
<1>3. <<x, y>> \in Seq(SafeLines) /\ <<>> \in Seq(SafeLines)
  BY <1>2
<1> QED
  BY <1>1, <1>3, Zenon DEF DeleteCompile

\* A registration is compiled to lines on our chains and on the jumps to them.
LEMMA CompileIn ==
    ASSUME NEW g \in Regs, NEW cur \in Seq(Current)
    PROVE  Compile(g, cur) \in Seq(SafeLines)
<1>1. PICK i : i = IndexOf(cur, g.table, g.chain)
  BY Zenon
<1>2. PICK rules : rules = IF i = 0 THEN <<>> ELSE cur[i].rules
  BY Zenon
<1>3. rules \in Seq(Rules)
  <2>1. <<>> \in Seq(Rules)
    OBVIOUS
  <2>2. ASSUME i # 0 PROVE cur[i].rules \in Seq(Rules)
    <3>1. i \in 1 .. Len(cur)
      BY <1>1, <2>2, IndexOfIs, Zenon DEF Place
    <3>2. cur[i] \in Current
      BY <3>1
    <3> QED
      BY <3>2 DEF Current
  <2> QED
    BY <1>2, <2>1, <2>2, Zenon
<1>4. Compile(g, cur) = CASE g.kind = "patch" -> PatchCompile(g.chain, g.staged, rules)
                          [] g.kind = "override" -> OverrideCompile(g.chain, g.staged, i # 0, rules)
                          [] g.kind = "delete" -> DeleteCompile(g.chain, i # 0)
  BY <1>1, <1>2, Zenon DEF Compile
<1>5. /\ g.kind \in {"patch", "override", "delete"}
      /\ g.kind = "patch" => g.chain \in Builtin /\ g.staged \in Seq(JumpOps)
      /\ g.kind = "override" => g.chain \in Owners /\ g.staged \in Seq(Rules)
      /\ g.kind = "delete" => g.chain \in Owners
  BY DEF Regs, Kinds
<1>6. CASE g.kind = "patch"
  <2>1. Compile(g, cur) = PatchCompile(g.chain, g.staged, rules)
    BY <1>4, <1>6
  <2> QED
    BY <1>3, <1>5, <1>6, <2>1, PatchIn, Zenon
<1>7. CASE g.kind = "override"
  <2>1. Compile(g, cur) = OverrideCompile(g.chain, g.staged, i # 0, rules)
    BY <1>4, <1>7
  <2> QED
    BY <1>5, <1>7, <2>1, OverrideIn, Zenon
<1>8. CASE g.kind = "delete"
  <2>1. Compile(g, cur) = DeleteCompile(g.chain, i # 0)
    BY <1>4, <1>8
  <2> QED
    BY <1>5, <1>8, <2>1, DeleteIn, Zenon
<1> QED
  BY <1>5, <1>6, <1>7, <1>8, Zenon

\* The block of a table.
LEMMA TableTextIn ==
    ASSUME NEW r \in Seq(Regs), NEW t \in Tables, NEW cur \in Seq(Current)
    PROVE  TableText(r, t, cur) \in Blocks
<1> DEFINE mine == Part(r, {i \in DOMAIN r : r[i].table = t /\ Compile(r[i], cur) # <<>>})
           sel(kind) == Part(mine, {i \in DOMAIN mine : mine[i].kind = kind})
           made(kind) == [i \in DOMAIN sel(kind) |-> Compile(sel(kind)[i], cur)]
           commands(kind) == Concat(made(kind))
           decl == [i \in DOMAIN mine |-> Line(":", mine[i].chain)]
           all == [i \in DOMAIN KindsByPriority |-> commands(KindsByPriority[i])]
<1>1. TableText(r, t, cur) = [table |-> t, lines |-> decl \o Concat(all)]
  BY Zenon DEF TableText, Where
<1>2. mine \in Seq(Regs)
  BY SelectedIn, Zenon
<1> HIDE DEF mine
<1>3. PICK n : n = Len(mine)
  BY Zenon
<1>4. n \in Nat /\ DOMAIN mine = 1 .. n /\ \A i \in 1 .. n : mine[i] \in Regs
  BY <1>2, <1>3
<1>5. decl \in Seq(SafeLines)
  <2>1. \A g \in Regs : g.chain \in Owners \cup Builtin
    BY DEF Regs
  <2>2. ":" \in {":", "F", "X"}
    OBVIOUS
  <2>3. \A g \in Regs : Line(":", g.chain) \in SafeLines
    BY <2>1, <2>2, CommandIn, Zenon
  <2>4. decl = [i \in 1 .. n |-> decl[i]] /\ \A i \in 1 .. n : decl[i] \in SafeLines
    BY <1>4, <2>3, Zenon
  <2> HIDE DEF decl
  <2> QED
    BY <1>4, <2>4, MadeIn, Zenon
<1> HIDE DEF decl
<1>6. ASSUME NEW kind PROVE commands(kind) \in Seq(SafeLines)
  <2>1. sel(kind) \in Seq(Regs)
    BY <1>2, SelectedIn, Zenon
  <2> HIDE DEF sel
  <2>2. PICK m : m = Len(sel(kind))
    BY Zenon
  <2>3. m \in Nat /\ DOMAIN sel(kind) = 1 .. m /\ \A i \in 1 .. m : sel(kind)[i] \in Regs
    BY <2>1, <2>2
  <2>4. /\ made(kind) = [i \in 1 .. m |-> made(kind)[i]]
        /\ \A i \in 1 .. m : made(kind)[i] \in Seq(SafeLines)
    BY <2>3, CompileIn, Zenon
  <2> HIDE DEF made
  <2> QED
    BY <2>3, <2>4, MadeConcatIn, Zenon
<1> HIDE DEF commands
<1>7. DOMAIN KindsByPriority = 1 .. 3 /\ 3 \in Nat
  BY DEF KindsByPriority
<1>8. all = [i \in 1 .. 3 |-> all[i]] /\ \A i \in 1 .. 3 : all[i] \in Seq(SafeLines)
  BY <1>6, <1>7, Zenon
<1> HIDE DEF all
<1>9. Concat(all) \in Seq(SafeLines)
  BY <1>7, <1>8, MadeConcatIn, Zenon
<1>10. decl \o Concat(all) \in Seq(SafeLines)
  BY <1>5, <1>9
<1> QED
  BY <1>1, <1>10 DEF Blocks

\* mt_ipt_commit: the transcript.
LEMMA TranscriptIn ==
    ASSUME NEW r \in Seq(Regs), NEW cur \in Seq(Current)
    PROVE  Transcript(r, cur) \in Seq(Blocks)
<1> DEFINE opening == Part(r, {i \in DOMAIN r : \A j \in 1 .. i - 1 : r[j].table # r[i].table})
           all == [i \in DOMAIN opening |-> TableText(r, opening[i].table, cur)]
<1>1. Transcript(r, cur) = Part(all, {i \in DOMAIN all : all[i].lines # <<>>})
  BY Zenon DEF Transcript, Where
<1>2. opening \in Seq(Regs)
  BY SelectedIn, Zenon
<1> HIDE DEF opening
<1>3. PICK n : n = Len(opening)
  BY Zenon
<1>4. n \in Nat /\ DOMAIN opening = 1 .. n /\ \A i \in 1 .. n : opening[i] \in Regs
  BY <1>2, <1>3
<1>5. \A g \in Regs : g.table \in Tables
  BY DEF Regs
<1>6. all = [i \in 1 .. n |-> all[i]] /\ \A i \in 1 .. n : all[i] \in Blocks
  BY <1>4, <1>5, TableTextIn, Zenon
<1> HIDE DEF all
<1>7. all \in Seq(Blocks)
  BY <1>4, <1>6, MadeIn, Zenon
<1> QED
  BY <1>1, <1>7, SelectedIn, Zenon

-----------------------------------------------------------------------------
\* The tables at the start, and after the firmware rewrote one.

\* Rules that are not jumps to us all remain.
LEMMA OwnAll ==
    ASSUME NEW S, NEW s \in Seq(S), \A i \in 1 .. Len(s) : ~IsJumpToUs(s[i])
    PROVE  Own(s) = s
<1>1. PICK m : m = Len(s)
  BY Zenon
<1>2. m \in Nat
  BY <1>1
<1>3. PICK f : /\ f[0] = <<>> /\ Own(s) = f[m]
               /\ \A i \in 1 .. m :
                     f[i] = IF IsJumpToUs(s[i]) THEN f[i - 1] ELSE Append(f[i - 1], s[i])
  BY <1>1, OwnTakes, Zenon
<1> DEFINE T == {i \in Nat : i <= m => f[i] = SubSeq(s, 1, i)}
<1>4. 0 \in T
  <2>1. SubSeq(s, 1, 0) = <<>> /\ 0 \in Nat
    OBVIOUS
  <2> QED
    BY <1>3, <2>1, Zenon
<1>5. ASSUME NEW i \in Nat, i \in T PROVE i + 1 \in T
  <2> SUFFICES ASSUME i + 1 <= m PROVE f[i + 1] = SubSeq(s, 1, i + 1)
    OBVIOUS
  <2>1. f[i] = SubSeq(s, 1, i) /\ i + 1 \in 1 .. m /\ (i + 1) - 1 = i
    BY <1>2, <1>5
  <2>2. f[i + 1] = Append(f[i], s[i + 1])
    BY <1>1, <1>3, <2>1
  <2> QED
    BY <1>1, <2>1, <2>2
<1>6. m \in T
  <2> HIDE DEF T
  <2> QED
    BY <1>2, <1>4, <1>5, CountUp, Zenon
<1> QED
  BY <1>1, <1>2, <1>3, <1>6

\* Jumps to us after them do not count.
LEMMA OwnBefore ==
    ASSUME NEW S, NEW s \in Seq(S), NEW js \in Seq(S), \A i \in 1 .. Len(js) : IsJumpToUs(js[i])
    PROVE  Own(s \o js) = Own(s)
<1>1. PICK m : m = Len(js)
  BY Zenon
<1>2. m \in Nat
  BY <1>1
<1> DEFINE T == {i \in Nat : i <= m => Own(s \o SubSeq(js, 1, i)) = Own(s)}
<1>3. 0 \in T
  <2>1. s \o SubSeq(js, 1, 0) = s
    OBVIOUS
  <2> QED
    BY <2>1, Zenon
<1>4. ASSUME NEW i \in Nat, i \in T PROVE i + 1 \in T
  <2> SUFFICES ASSUME i + 1 <= m PROVE Own(s \o SubSeq(js, 1, i + 1)) = Own(s)
    OBVIOUS
  <2>1. PICK u : u = s \o SubSeq(js, 1, i)
    BY Zenon
  <2>2. PICK x : x = js[i + 1]
    BY Zenon
  <2>3. i <= m /\ i + 1 \in 1 .. m
    BY <1>2
  <2>4. u \in Seq(S) /\ x \in S /\ IsJumpToUs(x)
    BY <1>1, <2>1, <2>2, <2>3
  <2>5. s \o SubSeq(js, 1, i + 1) = Append(u, x)
    BY <1>1, <2>1, <2>2, <2>3
  <2>6. Own(u) = Own(s)
    BY <1>4, <2>1, <2>3, Zenon
  <2>7. Own(Append(u, x)) = Own(u)
    BY <2>4, AppendKeepsOwn, Zenon
  <2> QED
    BY <2>5, <2>6, <2>7, Zenon
<1>5. m \in T
  <2> HIDE DEF T
  <2> QED
    BY <1>2, <1>3, <1>4, CountUp, Zenon
<1>6. Own(s \o SubSeq(js, 1, m)) = Own(s)
  <2>1. m <= m
    BY <1>2
  <2> QED
    BY <1>5, <2>1, Zenon
<1>7. SubSeq(js, 1, m) = js
  BY <1>1
<1> QED
  BY <1>6, <1>7, Zenon

\* The firmware's rules are rules, and none of them jumps to us.
LEMMA FirmwareIs ==
    ASSUME NEW t \in Tables, NEW c \in DOMAIN Firmware[t]
    PROVE  Firmware[t][c] \in Seq(Rules) /\ Own(Firmware[t][c]) = Firmware[t][c]
<1>1. PICK s : s = Firmware[t][c]
  BY Zenon
<1>2. s \in Seq(Range(s)) /\ \A i \in DOMAIN s : ~IsJumpToUs(s[i])
  BY <1>1, FirmwareAssumption, Zenon
<1>3. Range(s) \subseteq Rules
  <2>1. Range(s) \subseteq UNION {Range(Firmware[t][b]) : b \in DOMAIN Firmware[t]}
    BY <1>1, Zenon
  <2>2. UNION {Range(Firmware[t][b]) : b \in DOMAIN Firmware[t]} \subseteq TheirRules
    BY Zenon DEF TheirRules
  <2> QED
    BY <2>1, <2>2, Zenon DEF Rules
<1>4. PICK R : R = Range(s)
  BY Zenon
<1>5. s \in Seq(R) /\ R \subseteq Rules
  BY <1>2, <1>3, <1>4, Zenon
<1>6. s \in Seq(Rules) /\ DOMAIN s = 1 .. Len(s)
  BY <1>5
<1>7. \A i \in 1 .. Len(s) : ~IsJumpToUs(s[i])
  BY <1>2, <1>6, Zenon
<1> QED
  BY <1>1, <1>6, <1>7, OwnAll, Zenon

\* A table the firmware has just written.
LEMMA WipedGood ==
    ASSUME NEW t \in Tables
    PROVE  GoodTable(Firmware[t], t)
<1>1. Firmware[t] = [c \in DOMAIN Firmware[t] |-> Firmware[t][c]]
  <2>1. PICK F : F = [u \in Tables |-> [c \in DOMAIN Firmware[u] |-> Firmware[u][c]]]
    BY Zenon
  <2>2. Firmware = F
    BY <2>1, FirmwareAssumption, Zenon
  <2>3. F[t] = [c \in DOMAIN Firmware[t] |-> Firmware[t][c]]
    BY <2>1, Zenon
  <2>4. Firmware[t] = F[t]
    BY <2>2, Zenon
  <2> QED
    BY <2>3, <2>4, Zenon
<1>2. DOMAIN Firmware[t] \ Owners = DOMAIN Firmware[t]
  BY NotOurs, Zenon
<1> QED
  BY <1>1, <1>2, FirmwareIs, Zenon DEF GoodTable

\* The tables a killed run may have left behind.
LEMMA LeftoverGood ==
    ASSUME NEW L \in Leftovers, NEW d \in 1 .. 2
    PROVE  AllGood(Leftover(L, 1, d))
<1> DEFINE mine(t) == {o \in Owners : <<t, o>> \in L}
           its(t, c, o) == IF o \in mine(t) /\ BaseOf(o, t) = c THEN [j \in 1 .. d |-> Jump(o)] ELSE <<>>
           parts(t, c) == [i \in DOMAIN OwnerSeq |-> its(t, c, OwnerSeq[i])]
           jumps(t, c) == Concat(parts(t, c))
           rules(t, c) == IF c \in mine(t) THEN Body(c, t, 1) ELSE Firmware[t][c] \o jumps(t, c)
           new(t) == [c \in DOMAIN Firmware[t] \cup mine(t) |-> rules(t, c)]
           k == Leftover(L, 1, d)
<1>1. k = [t \in Tables |-> new(t)]
  BY Zenon DEF Leftover
<1>2. ASSUME NEW t \in Tables, NEW c
      PROVE  jumps(t, c) \in Seq({r \in Rules : IsJumpToUs(r) /\ c \in Builtin})
  <2> DEFINE J == {r \in Rules : IsJumpToUs(r) /\ c \in Builtin}
  <2>1. PICK n : n = Len(OwnerSeq)
    BY Zenon
  <2>2. n \in Nat /\ DOMAIN OwnerSeq = 1 .. n /\ \A i \in 1 .. n : OwnerSeq[i] \in Owners
    <3>1. PICK W : W = Owners
      BY Zenon
    <3>2. OwnerSeq \in Seq(W)
      BY <3>1, FirmwareAssumption, Zenon
    <3>3. n \in Nat /\ DOMAIN OwnerSeq = 1 .. n /\ \A i \in 1 .. n : OwnerSeq[i] \in W
      BY <2>1, <3>2
    <3> QED
      BY <3>1, <3>3, Zenon
  <2>3. ASSUME NEW o \in Owners PROVE its(t, c, o) \in Seq(J)
    <3>1. CASE o \in mine(t) /\ BaseOf(o, t) = c
      <4>1. c \in Builtin
        BY <3>1, BaseOfIn, Zenon
      <4>2. Jump(o) \in J
        BY <4>1, JumpIn, Zenon
      <4>3. PICK f : f = [j \in 1 .. d |-> Jump(o)]
        BY Zenon
      <4>4. f = [j \in 1 .. d |-> f[j]] /\ \A j \in 1 .. d : f[j] \in J
        BY <4>2, <4>3, Zenon
      <4>5. d \in Nat
        OBVIOUS
      <4> HIDE DEF J
      <4>6. f \in Seq(J)
        BY <4>4, <4>5, MadeIn, Zenon
      <4> QED
        BY <3>1, <4>3, <4>6, Zenon
    <3>2. CASE ~(o \in mine(t) /\ BaseOf(o, t) = c)
      <4>1. <<>> \in Seq(J)
        OBVIOUS
      <4>2. its(t, c, o) = <<>>
        BY <3>2, Zenon
      <4> HIDE DEF J, its
      <4> QED
        BY <4>1, <4>2, Zenon
    <3> QED
      BY <3>1, <3>2, Zenon
  <2> HIDE DEF its
  <2>4. parts(t, c) = [i \in 1 .. n |-> parts(t, c)[i]] /\ \A i \in 1 .. n : parts(t, c)[i] \in Seq(J)
    BY <2>2, <2>3, Zenon
  <2> HIDE DEF parts, J
  <2>5. jumps(t, c) \in Seq(J)
    BY <2>2, <2>4, MadeConcatIn, Zenon
  <2> QED
    BY <2>5, Zenon DEF J
<1> HIDE DEF jumps
<1>3. ASSUME NEW t \in Tables PROVE GoodTable(new(t), t)
  <2>1. mine(t) \subseteq Owners /\ DOMAIN Firmware[t] \cap Owners = {}
    BY NotOurs, Zenon
  <2>2. DOMAIN new(t) = DOMAIN Firmware[t] \cup mine(t)
    BY Zenon
  <2>3. \A c \in mine(t) : new(t)[c] = Body(c, t, 1)
    BY <2>2, Zenon
  <2>4. \A c \in DOMAIN Firmware[t] : new(t)[c] = Firmware[t][c] \o jumps(t, c)
    BY <2>1, <2>2, Zenon
  <2>5. new(t) = [c \in DOMAIN new(t) |-> new(t)[c]]
    BY <2>2, Zenon
  <2> HIDE DEF new
  <2>6. ASSUME NEW c \in mine(t) PROVE new(t)[c] \in Seq(Rules)
    <3>1. 1 \in Versions \cup {0, 1, 2} /\ c \in Owners
      BY Zenon
    <3>2. Body(c, t, 1) \in Seq(Rules)
      BY <3>1, BodyIn, Zenon
    <3> QED
      BY <2>3, <3>2, Zenon
  <2>7. ASSUME NEW c \in DOMAIN Firmware[t]
        PROVE  /\ new(t)[c] \in Seq(Rules) /\ Own(new(t)[c]) = Firmware[t][c]
               /\ c \notin Builtin => new(t)[c] = Firmware[t][c]
    <3>1. PICK s, js : s = Firmware[t][c] /\ js = jumps(t, c)
      BY Zenon
    <3>2. s \in Seq(Rules) /\ Own(s) = s
      BY <3>1, FirmwareIs, Zenon
    <3>3. js \in Seq({r \in Rules : IsJumpToUs(r) /\ c \in Builtin})
      BY <1>2, <3>1, Zenon
    <3>4. js \in Seq(Rules) /\ \A i \in 1 .. Len(js) : IsJumpToUs(js[i]) /\ c \in Builtin
      BY <3>3
    <3>5. Own(s \o js) = Own(s)
      BY <3>2, <3>4, OwnBefore, Zenon
    <3>6. s \o js \in Seq(Rules) /\ (c \notin Builtin => s \o js = s)
      BY <3>2, <3>4
    <3> QED
      BY <2>4, <3>1, <3>2, <3>5, <3>6, Zenon
  <2>8. DOMAIN new(t) \ Owners = DOMAIN Firmware[t]
    BY <2>1, <2>2, Zenon
  <2> QED
    BY <2>2, <2>5, <2>6, <2>7, <2>8, Zenon DEF GoodTable
<1> HIDE DEF new, k
<1>4. \A t \in Tables : k[t] = new(t)
  BY <1>1, Zenon
<1>5. k = [t \in Tables |-> k[t]]
  BY <1>1, Zenon
<1> QED
  BY <1>3, <1>4, <1>5, Zenon DEF AllGood, k

-----------------------------------------------------------------------------
\* The inductive invariant.

Jobs ==
    [do : {"none", "start", "clear", "build", "clean", "rebuild", "commit", "disable", "rollback"},
     owner : Owners, ver : Versions \cup {0}]

\* What the callers keep: no built-in chain is registered but to be patched
\* with jumps to us, and no chain but ours to be overridden or deleted.
Staged ==
    /\ reg \in Seq(Regs)
    /\ enabled \in [Owners -> SUBSET (Versions \cup {0})]
    /\ job \in Jobs

IInv == AllGood(kernel) /\ Staged /\ text \in Seq(Blocks)

\* Between two operations.
LEMMA NoJobIn == NoJob \in Jobs
<1>1. Remap \in Owners
  BY FirmwareAssumption, Zenon
<1> QED
  BY <1>1 DEF NoJob, Jobs

\* The process starts on tables a killed run may have left.
LEMMA InitOK == Init => IInv
<1> SUFFICES ASSUME Init PROVE IInv
  BY Zenon
<1>1. AllGood(kernel)
  BY LeftoverGood, Zenon DEF Init
<1>2. reg \in Seq(Regs) /\ text \in Seq(Blocks)
  BY DEF Init
<1>3. enabled \in [Owners -> SUBSET (Versions \cup {0})]
  BY DEF Init
<1>4. job \in Jobs
  BY NoJobIn, Zenon DEF Init
<1> QED
  BY <1>1, <1>2, <1>3, <1>4, Zenon DEF IInv, Staged

\* The caller stages more and commits again.
LEMMA StagesOK ==
    ASSUME Staged, NEW calls \in Seq(Calls), NEW do \in {"build", "rebuild", "rollback"}, Stages(calls, do)
    PROVE  Staged'
<1>1. reg' \in Seq(Regs)
  BY PerformIn, Zenon DEF Staged, Stages
<1>2. job' \in Jobs
  BY DEF Staged, Stages, Jobs
<1>3. enabled' = enabled
  BY Zenon DEF Stages
<1> QED
  BY <1>1, <1>2, <1>3, Zenon DEF Staged

\* The operation is over.
LEMMA EndsOK ==
    ASSUME Staged, NEW at, Ends(at)
    PROVE  Staged'
BY NoJobIn, Zenon DEF Staged, Ends

\* After a commit that succeeded.
LEMMA AfterOkOK ==
    ASSUME Staged, AfterOk
    PROVE  Staged'
<1>1. job.owner \in Owners /\ job.ver \in Versions \cup {0}
  BY DEF Staged, Jobs
<1>2. CASE job.do = "clear"
  <2>1. Stages(Build(job.owner, job.ver), "build")
    BY <1>2 DEF AfterOk
  <2>2. Build(job.owner, job.ver) \in Seq(Calls)
    BY <1>1, BuildIn, Zenon
  <2> QED
    BY <2>1, <2>2, StagesOK, Zenon
<1>3. CASE job.do = "build"
  <2>1. enabled' = [enabled EXCEPT ![job.owner] = {job.ver}] /\ job' = NoJob /\ reg' = reg
    BY <1>3 DEF AfterOk
  <2>2. enabled' \in [Owners -> SUBSET (Versions \cup {0})]
    BY <1>1, <2>1 DEF Staged
  <2> QED
    BY <2>1, <2>2, NoJobIn, Zenon DEF Staged
<1>4. CASE job.do = "clean"
  <2>1. Stages(Prepare, "rebuild")
    BY <1>4 DEF AfterOk
  <2>2. Prepare \in Seq(Calls)
    BY PrepareIn, Zenon DEF Staged
  <2> QED
    BY <2>1, <2>2, StagesOK, Zenon
<1>5. CASE job.do \notin {"clear", "build", "clean"}
  <2>1. \E at : Ends(at)
    BY <1>5 DEF AfterOk
  <2> QED
    BY <2>1, EndsOK, Zenon
<1> QED
  BY <1>2, <1>3, <1>4, <1>5, Zenon

\* After a commit that failed.
LEMMA AfterErrorOK ==
    ASSUME Staged, AfterError
    PROVE  Staged'
<1>1. job.owner \in Owners
  BY DEF Staged, Jobs
<1>2. CASE job.do = "build"
  <2>1. Stages(Unbuild(job.owner), "rollback")
    BY <1>2 DEF AfterError
  <2>2. Unbuild(job.owner) \in Seq(Calls)
    BY <1>1, UnbuildIn, Zenon
  <2> QED
    BY <2>1, <2>2, StagesOK, Zenon
<1>3. CASE job.do # "build"
  <2>1. \E at : Ends(at)
    BY <1>3 DEF AfterError
  <2> QED
    BY <2>1, EndsOK, Zenon
<1> QED
  BY <1>2, <1>3, Zenon

\* One step of the daemon, of the firmware or of iptables.
LEMMA NextOK == IInv /\ [Next]_vars => IInv'
<1> SUFFICES ASSUME IInv, [Next]_vars PROVE IInv'
  BY Zenon
<1> USE DEF IInv
<1>a. Remap \in Owners /\ Groups \subseteq Owners /\ Tables = {"filter", "mangle", "nat"}
  BY FirmwareAssumption, TablesAre, Zenon DEF Groups
<1>k. ASSUME Keeping, Staged' PROVE IInv'
  <2>1. kernel' = kernel /\ text' = text
    BY <1>k, Zenon DEF Keeping
  <2> QED
    BY <1>k, <2>1, Zenon
<1>1. CASE Boot
  <2>1. <<>> \in Seq(Regs)
    OBVIOUS
  <2>2. reg' \in Seq(Regs)
    BY <1>1, <2>1, PerformIn, BaseChainsIn, Zenon DEF Boot
  <2>3. job' \in Jobs
    BY <1>1, NoJobIn DEF Boot, Jobs
  <2>4. enabled' = enabled
    BY <1>1, Zenon DEF Boot
  <2> QED
    BY <1>1, <1>k, <2>2, <2>3, <2>4, Zenon DEF Boot, Staged
<1>2. CASE Remap53
  <2>1. CASE reg' = Perform(reg, Build(Remap, 0)) /\ job' = [NoJob EXCEPT !.do = "build"]
    <3>1. Build(Remap, 0) \in Seq(Calls)
      BY <1>a, BuildIn, Zenon
    <3>2. reg' \in Seq(Regs)
      BY <2>1, <3>1, PerformIn, Zenon DEF Staged
    <3>3. job' \in Jobs
      BY <2>1, NoJobIn DEF Jobs
    <3>4. enabled' = enabled
      BY <1>2, Zenon DEF Remap53
    <3> QED
      BY <1>2, <1>k, <3>2, <3>3, <3>4, Zenon DEF Remap53, Staged
  <2>2. CASE reg' = reg /\ job' = job
    BY <1>2, <1>k, <2>2, Zenon DEF Remap53, Staged
  <2> QED
    BY <1>2, <2>1, <2>2, Zenon DEF Remap53
<1>3. CASE Rebuild \/ ForceCommit
  <2>1. job' \in Jobs
    BY <1>3, NoJobIn DEF Rebuild, ForceCommit, Jobs
  <2>2. reg' = reg /\ enabled' = enabled /\ Keeping
    BY <1>3, Zenon DEF Rebuild, ForceCommit
  <2> QED
    BY <1>k, <2>1, <2>2, Zenon DEF Staged
<1>4. ASSUME NEW g \in Groups, Enable(g) PROVE IInv'
  <2>1. g \in Owners
    BY <1>a, Zenon
  <2>2. PICK v \in Versions : job' = [do |-> "clear", owner |-> g, ver |-> v]
    BY <1>4, Zenon DEF Enable
  <2>3. job' \in Jobs
    BY <2>1, <2>2 DEF Jobs
  <2>4. Unbuild(g) \in Seq(Calls)
    BY <2>1, UnbuildIn, Zenon
  <2>5. reg' \in Seq(Regs)
    BY <1>4, <2>4, PerformIn, Zenon DEF Enable, Staged
  <2>6. enabled' = enabled /\ Keeping
    BY <1>4, Zenon DEF Enable
  <2> QED
    BY <1>k, <2>3, <2>5, <2>6, Zenon DEF Staged
<1>5. ASSUME NEW o \in Owners, Disable(o) PROVE IInv'
  <2>1. job' = [do |-> "disable", owner |-> o, ver |-> 0]
    BY <1>5, Zenon DEF Disable
  <2>2. job' \in Jobs
    BY <2>1 DEF Jobs
  <2>3. Unbuild(o) \in Seq(Calls)
    BY UnbuildIn, Zenon
  <2>4. reg' \in Seq(Regs)
    BY <1>5, <2>3, PerformIn, Zenon DEF Disable, Staged
  <2>5. enabled' = [enabled EXCEPT ![o] = {}] /\ Keeping
    BY <1>5, Zenon DEF Disable
  <2>6. enabled' \in [Owners -> SUBSET (Versions \cup {0})]
    BY <2>5 DEF Staged
  <2> QED
    BY <1>k, <2>2, <2>4, <2>5, <2>6, Zenon DEF Staged
<1>6. CASE CleanStep
  <2>1. CurrentRules(kernel) \in Seq(Current)
    BY CurrentIn, Zenon
  <2>2. Clean(CurrentRules(kernel)) \in Seq(Calls)
    BY <2>1, CleanIn, Zenon
  <2>3. reg' \in Seq(Regs)
    BY <1>6, <2>2, PerformIn, Zenon DEF CleanStep, Staged
  <2>4. enabled' = enabled /\ job' = job /\ Keeping
    BY <1>6, Zenon DEF CleanStep
  <2> QED
    BY <1>k, <2>3, <2>4, Zenon DEF Staged
<1>7. CASE Save
  <2>1. CurrentRules(kernel) \in Seq(Current)
    BY CurrentIn, Zenon
  <2>2. text' \in Seq(Blocks)
    BY <1>7, <2>1, TranscriptIn, Zenon DEF Save, Staged
  <2>3. Staged'
    <3>1. CASE text' = <<>>
      BY <1>7, <3>1, AfterOkOK, Zenon DEF Save
    <3>2. CASE text' # <<>>
      BY <1>7, <3>2, Zenon DEF Save, Staged
    <3> QED
      BY <3>1, <3>2, Zenon
  <2>4. kernel' = kernel
    BY <1>7, Zenon DEF Save
  <2> QED
    BY <2>2, <2>3, <2>4, Zenon
<1>8. CASE SaveFails
  <2>1. Keeping /\ AfterError
    BY <1>8, Zenon DEF SaveFails
  <2> QED
    BY <1>k, <2>1, AfterErrorOK, Zenon
<1>w. ASSUME Written PROVE text' \in Seq(Blocks)
  <2>1. text' = <<>>
    BY <1>w, Zenon DEF Written
  <2> QED
    BY <2>1
<1>n. Len(text) \in Nat /\ Len(text) \in 0 .. Len(text)
  <2>1. Len(text) \in Nat
    OBVIOUS
  <2> QED
    BY <2>1
<1>9. CASE RestoreOk
  <2>1. kernel' = Restore(kernel, text, Len(text)).tables /\ Written /\ AfterOk
    BY <1>9, Zenon DEF RestoreOk
  <2>2. AllGood(kernel')
    BY <1>n, <2>1, RestoreGood, Zenon
  <2> QED
    BY <1>w, <2>1, <2>2, AfterOkOK, Zenon
<1>10. CASE RestoreRefused
  <2>1. kernel' = Restore(kernel, text, Len(text)).tables /\ Written /\ AfterError
    BY <1>10, Zenon DEF RestoreRefused
  <2>2. AllGood(kernel')
    BY <1>n, <2>1, RestoreGood, Zenon
  <2> QED
    BY <1>w, <2>1, <2>2, AfterErrorOK, Zenon
<1>11. CASE RestoreDies
  <2>1. PICK n \in 0 .. Len(text) : kernel' = Restore(kernel, text, n).tables
    BY <1>11, Zenon DEF RestoreDies
  <2>2. AllGood(kernel')
    BY <2>1, RestoreGood, Zenon
  <2>3. Written /\ AfterError
    BY <1>11, Zenon DEF RestoreDies
  <2> QED
    BY <1>w, <2>2, <2>3, AfterErrorOK, Zenon
<1>12. CASE Restart
  <2>1. reg' \in Seq(Regs) /\ enabled' \in [Owners -> SUBSET (Versions \cup {0})]
    BY <1>12 DEF Restart
  <2>2. job' = job /\ Keeping
    BY <1>12, Zenon DEF Restart
  <2> QED
    BY <1>k, <2>1, <2>2, Zenon DEF Staged
<1>13. CASE Wipe
  <2>1. PICK t \in Tables : kernel' = [kernel EXCEPT ![t] = Firmware[t]]
    BY <1>13, Zenon DEF Wipe
  <2>2. kernel = [u \in Tables |-> kernel[u]] /\ \A u \in Tables : GoodTable(kernel[u], u)
    BY Zenon DEF AllGood
  <2>3. PICK F : F = Firmware[t]
    BY Zenon
  <2>4. /\ kernel' = [u \in Tables |-> kernel'[u]]
        /\ \A u \in Tables : kernel'[u] = IF u = t THEN F ELSE kernel[u]
    BY <2>1, <2>2, <2>3
  <2>5. \A u \in Tables : GoodTable(kernel'[u], u)
    BY <2>2, <2>3, <2>4, WipedGood, Zenon
  <2>6. AllGood(kernel')
    BY <2>4, <2>5, Zenon DEF AllGood
  <2> QED
    BY <1>13, <2>6, Zenon DEF Wipe, Staged
<1>14. CASE UNCHANGED vars
  BY <1>14, Zenon DEF vars, Staged
<1> QED
  BY <1>1, <1>2, <1>3, <1>4, <1>5, <1>6, <1>7, <1>8, <1>9, <1>10, <1>11, <1>12, <1>13, <1>14,
     Zenon DEF Next

\* The invariant of the engine: in every table nothing was added to what the
\* firmware put there but our chains and, in built-in chains, jumps to them;
\* and neither the registrations nor a transcript on its way to
\* iptables-restore would change that.
THEOREM EngineInvariant == Spec => []IInv
<1>1. Init => IInv
  BY InitOK
<1>2. IInv /\ [Next]_vars => IInv'
  BY NextOK
<1> QED
  BY <1>1, <1>2, PTL DEF Spec

\* FirmwareUntouched for every set of owners, whatever rules and chains the
\* firmware has and whatever killed runs left behind: no commit of the engine
\* (iptables/engine.c, mt_ipt_commit), complete, refused or dead half-way, and
\* no clean-up of cleaner.c, changes the firmware's chains, their rules or the
\* order of these.
THEOREM FirmwareStays == Spec => []FirmwareUntouched
<1>1. IInv => FirmwareUntouched
  <2> SUFFICES ASSUME IInv, NEW t \in Tables PROVE Foreign(kernel[t]) = Firmware[t]
    BY Zenon DEF FirmwareUntouched
  <2>1. PICK w : w = kernel[t]
    BY Zenon
  <2>2. GoodTable(w, t)
    BY <2>1, Zenon DEF IInv, AllGood
  <2>3. Foreign(w) = [c \in DOMAIN w \ Owners |-> Own(w[c])]
    BY Zenon DEF Foreign, Where, Own
  <2>4. DOMAIN w \ Owners = DOMAIN Firmware[t] /\ \A c \in DOMAIN Firmware[t] : Own(w[c]) = Firmware[t][c]
    BY <2>2, Zenon DEF GoodTable
  <2>5. Foreign(w) = [c \in DOMAIN Firmware[t] |-> Firmware[t][c]]
    BY <2>3, <2>4, Zenon
  <2>6. Firmware[t] = [c \in DOMAIN Firmware[t] |-> Firmware[t][c]]
    BY WipedGood, Zenon DEF GoodTable
  <2> QED
    BY <2>1, <2>5, <2>6, Zenon
<1> QED
  BY <1>1, EngineInvariant, PTL
=============================================================================
