------------------------------ MODULE RuleMatch ------------------------------
(***************************************************************************)
(* How a name is matched against the rules of a group: the matcher of one  *)
(* rule (mt_rule_matcher_match), and the index the published snapshot      *)
(* holds for a whole group (mt_matcher_add, mt_matcher_match): a hash set  *)
(* of exact domains, a trie of reversed labels for namespaces and a list   *)
(* of wildcards and regular expressions that is scanned.                   *)
(*                                                                         *)
(* A name and a pattern are sequences of characters; a regular expression  *)
(* stands for the names it matches, none where PCRE2 does not compile it.  *)
(* The state is the index of one group while append_snapshot_entry builds  *)
(* it; it may be published after any rule, so every state is looked at.    *)
(***************************************************************************)
EXTENDS Integers, Sequences, Functions

CONSTANTS Hash,        \* name -> number, in the place of fnv1a
          InitialCap,  \* slots of the first table (16 in the code)
          Names,       \* the names that are looked up
          RuleLists    \* bound: the lists of rules an index is built from

VARIABLES rules,       \* the rules of the group so far
          matcher      \* its index

vars == <<rules, matcher>>

Free == <<"free">>   \* a slot without a name

\* Below four slots the set could be full and a probe would not end.
ASSUME IndexAssumption ==
    /\ InitialCap \in Nat /\ InitialCap >= 4
    /\ Hash \in [Names -> Nat] /\ Free \notin Names
    /\ \A n \in Names : n \in Seq(Range(n))
    /\ \A list \in RuleLists :
          /\ list \in Seq(Range(list))
          /\ \A i \in DOMAIN list :
                /\ list[i].type = "domain" => list[i].text \in Names
                /\ list[i].type = "namespace" =>
                      /\ list[i].text \in Seq(Range(list[i].text))
                      /\ list[i].text = <<>> \/ list[i].text[1] # "."

-----------------------------------------------------------------------------
\* wildcard.c.  A position is the loop's local variables; 0 for star and
\* eroteme is the code's has_star and has_eroteme being false.

Start == [p |-> 1, s |-> 1, star |-> 0, lastStar |-> 1, ero |-> 0, lastEro |-> 1,
          cluster |-> ""]

Retry(at) ==
    IF at.star # 0 THEN {[at EXCEPT !.p = at.star + 1, !.lastStar = @ + 1,
                                    !.s = at.lastStar + 1]}
    ELSE {}

Both(at) == [at EXCEPT !.p = @ + 1, !.s = @ + 1]

\* Mutant: a pattern that ends before the name does not go back to its star.
StepNoWayBack(pattern, s, at) ==
    IF at.p > Len(pattern) THEN {}
    ELSE CASE pattern[at.p] \in {".", "?"} -> {Both(at)}
           [] pattern[at.p] = "*" ->
                {[at EXCEPT !.star = at.p, !.lastStar = at.s, !.p = @ + 1]}
           [] OTHER -> IF pattern[at.p] = s[at.s] THEN {Both(at)} ELSE Retry(at)

\* One iteration while characters are left: no position is "return false".
Step(pattern, s, at) ==
    IF at.p > Len(pattern) THEN Retry(at)
    ELSE CASE pattern[at.p] = "." -> {Both(at)}
           [] pattern[at.p] = "?" ->
                {Both([at EXCEPT !.ero = at.p, !.lastEro = at.s, !.cluster = s[at.s]])}
           [] pattern[at.p] = "*" ->
                {[at EXCEPT !.star = at.p, !.lastStar = at.s, !.p = @ + 1]}
           [] OTHER ->
                IF pattern[at.p] # s[at.s]
                THEN IF at.ero # 0
                     THEN {[at EXCEPT !.p = at.ero + 1, !.s = at.lastEro, !.ero = 0]}
                     ELSE Retry(at)
                ELSE {Both([at EXCEPT !.ero = IF at.cluster # s[at.s] THEN 0 ELSE @])}

\* check_pattern: only stars and erotemes may be left.
RestMatchesEmpty(pattern, at) ==
    \A i \in at.p .. Len(pattern) : pattern[i] \in {"*", "?"}

Positions(pattern, s) ==
    [p : 1 .. Len(pattern) + 1, s : 1 .. Len(s) + 1,
     star : 0 .. Len(pattern), lastStar : 1 .. Len(s) + 1,
     ero : 0 .. Len(pattern), lastEro : 1 .. Len(s) + 1, cluster : Range(s) \cup {""}]

Walk(pattern, s) ==
    LET from[at \in Positions(pattern, s)] ==
            IF at.s > Len(s) THEN RestMatchesEmpty(pattern, at)
            ELSE \E next \in Step(pattern, s, at) : from[next]
    IN  from[Start]

WildcardMatch(pattern, s) ==
    IF pattern = <<>> THEN s = <<>>
    ELSE pattern = <<"*">> \/ pattern = s \/ Walk(pattern, s)

-----------------------------------------------------------------------------
\* The matcher of one rule.

NamespaceMatch(rule, domain) ==
    \/ domain = rule
    \/ /\ Len(domain) >= Len(rule) + 1
       /\ domain[Len(domain) - Len(rule)] = "."
       /\ SubSeq(domain, Len(domain) - Len(rule) + 1, Len(domain)) = rule

RuleMatches(rule, domain) ==
    CASE rule.type = "domain"    -> domain = rule.text
      [] rule.type = "namespace" -> NamespaceMatch(rule.text, domain)
      [] rule.type = "wildcard"  -> WildcardMatch(rule.text, domain)
      [] rule.type = "regex"     -> domain \in rule.names
      [] OTHER -> FALSE

-----------------------------------------------------------------------------
\* The exact domains: open addressing, linear probing.

EmptySet == [cap |-> 0, len |-> 0, slots |-> <<>>]

\* The k-th slot of a probe that begins at slot i.
Slot(set, i, k) == IF i + k < set.cap THEN i + k ELSE i + k - set.cap

\* The slot where probing for s stops: s itself or the first free one.
Probe(set, s) ==
    LET at(k) == Slot(set, Hash[s] % set.cap, k)
        stops(k) == set.slots[at(k)] \in {Free, s}
    IN  at(CHOOSE k \in 0 .. set.cap - 1 :
               stops(k) /\ \A j \in 0 .. k - 1 : ~stops(j))

Put(set, s) == [set EXCEPT !.slots[Probe(set, s)] = s, !.len = @ + 1]

\* Mutant: the slots are copied to the same places of the larger table.
GrowInPlace(set) ==
    LET cap == IF set.cap = 0 THEN InitialCap ELSE set.cap * 2
    IN  [cap |-> cap, len |-> set.len,
         slots |-> [i \in 0 .. cap - 1 |-> IF i < set.cap THEN set.slots[i] ELSE Free]]

Grow(set) ==
    LET cap == IF set.cap = 0 THEN InitialCap ELSE set.cap * 2
        moved[i \in 0 .. set.cap] ==
            IF i = 0 THEN [cap |-> cap, len |-> 0, slots |-> [k \in 0 .. cap - 1 |-> Free]]
            ELSE IF set.slots[i - 1] = Free THEN moved[i - 1]
            ELSE Put(moved[i - 1], set.slots[i - 1])
    IN  moved[set.cap]

ExactInsert(set, s) ==
    LET room == IF set.cap = 0 \/ set.len * 4 >= set.cap * 3 THEN Grow(set) ELSE set
    IN  IF room.slots[Probe(room, s)] = s THEN room ELSE Put(room, s)

ExactContains(set, s) == set.cap # 0 /\ set.slots[Probe(set, s)] = s

-----------------------------------------------------------------------------
\* The namespaces: a trie of labels, read from the right.  A node is what the
\* labels on the way to it spell: the end of a name, from a label on.

EmptyTrie == [nodes |-> {}, terminal |-> {}, hasEmptyRule |-> FALSE]

\* Where the labels of a name begin: after a dot, and at the first character
\* unless that is a dot: the walk to the left ends there, so the empty label
\* before such a dot is not seen.
Labels(name) ==
    {i \in 0 .. Len(name) : IF i = 0 THEN name # <<>> /\ name[1] # "." ELSE name[i] = "."}

Node(name, i) == SubSeq(name, i + 1, Len(name))

TrieInsert(t, rule) ==
    IF rule = <<>> THEN [t EXCEPT !.hasEmptyRule = TRUE]
    ELSE [t EXCEPT !.nodes = @ \cup {Node(rule, i) : i \in Labels(rule)},
                   !.terminal = @ \cup {Node(rule, i) : i \in {j \in Labels(rule) :
                                              \A k \in Labels(rule) : j <= k}}]

\* Walk down while there is a child; the first terminal node is the match.
TrieMatch(t, domain) ==
    \/ t.hasEmptyRule /\ (domain = <<>> \/ domain[Len(domain)] = ".")
    \/ \E i \in Labels(domain) :
          /\ \A j \in Labels(domain) : j >= i => Node(domain, j) \in t.nodes
          /\ Node(domain, i) \in t.terminal

-----------------------------------------------------------------------------
\* The matcher of a group.

EmptyMatcher == [exact |-> EmptySet, ns |-> EmptyTrie, scan |-> <<>>]

\* subnet and subnet6 rules take no part in matching names.
MatcherAdd(m, rule) ==
    CASE rule.type = "domain"    -> [m EXCEPT !.exact = ExactInsert(@, rule.text)]
      [] rule.type = "namespace" -> [m EXCEPT !.ns = TrieInsert(@, rule.text)]
      [] rule.type \in {"wildcard", "regex"} -> [m EXCEPT !.scan = Append(@, rule)]
      [] OTHER -> m

MatcherMatch(m, domain) ==
    \/ ExactContains(m.exact, domain)
    \/ TrieMatch(m.ns, domain)
    \/ \E i \in DOMAIN m.scan : RuleMatches(m.scan[i], domain)

\* append_snapshot_entry: the next rule of the group.  Without memory the
\* whole snapshot is given up, and with it the index.
AddRule(rule) ==
    /\ rules' = Append(rules, rule)
    /\ matcher' = IF rule.enable THEN MatcherAdd(matcher, rule) ELSE matcher

Init == rules = <<>> /\ matcher = EmptyMatcher

Next == \E list \in RuleLists :
            /\ Len(list) = Len(rules) + 1 /\ SubSeq(list, 1, Len(rules)) = rules
            /\ AddRule(list[Len(list)])

Spec == Init /\ [][Next]_vars

-----------------------------------------------------------------------------
\* What the index and the wildcard algorithm are to compute.

\* A wildcard by its meaning: "*" any characters, "." one character, "?" at
\* most one.
Denotes(p, s) ==
    LET from[i \in 1 .. Len(p) + 1, j \in 1 .. Len(s) + 1] ==
            IF i > Len(p) THEN j > Len(s)
            ELSE LET one == j <= Len(s) /\ from[i + 1, j + 1]
                     any == j <= Len(s) /\ from[i, j + 1]
                 IN  CASE p[i] = "*" -> from[i + 1, j] \/ any
                       [] p[i] = "?" -> from[i + 1, j] \/ one
                       [] p[i] = "." -> one
                       [] OTHER -> one /\ p[i] = s[j]
    IN  from[1, 1]

\* The one-pass algorithm with its two places to fall back to (wildcard.c)
\* accepts nothing the pattern does not stand for, and finds every match of
\* a pattern without "?".
WildcardExact ==
    \A i \in DOMAIN matcher.scan :
        LET p == matcher.scan[i].text
        IN  matcher.scan[i].type = "wildcard" =>
                \A s \in Names :
                    /\ WildcardMatch(p, s) => Denotes(p, s)
                    /\ "?" \notin Range(p) /\ Denotes(p, s) => WildcardMatch(p, s)

\* The index of a group (mt_matcher_match) answers for every name as the
\* enabled rules of the group one by one do (mt_rule_matcher_match), whatever
\* the order they were added in, the collisions and the growth of the hash
\* set.  A namespace rule that begins with a dot is not among the RuleLists.
IndexExact ==
    \A d \in Names :
        MatcherMatch(matcher, d)
            <=> \E i \in DOMAIN rules : rules[i].enable /\ RuleMatches(rules[i], d)
=============================================================================
