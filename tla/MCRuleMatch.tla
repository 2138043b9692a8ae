---------------------------- MODULE MCRuleMatch ----------------------------
(***************************************************************************)
(* Names of up to four characters; every wildcard of up to four characters *)
(* alone, every list of up to three rules of all types, and lists of five  *)
(* domains, with which the hash set grows (4 slots at first, 16 in the     *)
(* code).  Names of equal length collide.                                  *)
(***************************************************************************)
EXTENDS RuleMatch

UpTo(chars, n) == UNION {[1 .. k -> chars] : k \in 0 .. n}
MCNames == UpTo({"a", "b", "."}, 4)
MCHash == [n \in MCNames |-> Len(n) + 1]

Rule(type, text) == [type |-> type, text |-> text, names |-> {}, enable |-> TRUE]
Regex(names) == [type |-> "regex", text |-> <<>>, names |-> names, enable |-> TRUE]
Domains == {Rule("domain", n) : n \in {<<"a">>, <<"b">>, <<"a", ".", "b">>, <<"b", "a">>}}
Namespaces == {Rule("namespace", n) : n \in {<<>>, <<"a">>, <<"a", ".", "b">>, <<"b", ".">>}}
Rules == Domains \cup Namespaces
         \cup {Rule("wildcard", <<"*", ".", "a">>), Rule("wildcard", <<"a", "?">>),
               Regex({<<"b", "b">>}), Regex({}), Rule("subnet", <<"a">>)}
         \cup {[Rule("domain", <<"b">>) EXCEPT !.enable = FALSE]}
Wildcards == {Rule("wildcard", p) : p \in UpTo({"a", "b", ".", "*", "?"}, 4)}
MCRuleLists == UpTo(Rules, 3) \cup UpTo(Domains, 5) \cup {<<w>> : w \in Wildcards}
=============================================================================
