------------------------------ MODULE SubRules ------------------------------
(***************************************************************************)
(* The rules of a subscription (subscriptions/subparse.c): a fetched list  *)
(* is parsed, merged with the rules the subscription already has, and      *)
(* compared with them to find out whether anything changed.                *)
(*                                                                         *)
(* A list is a sequence of lines; a line is a rule's text, or Comment for  *)
(* a line without a rule.  The type of a rule follows from its text and    *)
(* is left out.  Random identifiers come from a sequence of draws.         *)
(***************************************************************************)
EXTENDS Integers, Sequences, FiniteSetsExt

CONSTANTS Comment,    \* a blank line or one that begins with "#"
          Zero        \* the identifier 00000000

\* The first of some places in a sequence; 0 is none.
FirstOf(places) == IF places = {} THEN 0 ELSE Min(places)

\* next_unique_id: draw until the identifier is not in use.
NextUnique(used, draw) == draw[FirstOf({i \in DOMAIN draw : draw[i] \notin used})]

\* mt_sub_parse_rules: every text once, enabled, with an identifier of its own.
Parse(list, draw) ==
    LET once(i) == list[i] # Comment /\ \A j \in 1 .. i - 1 : list[j] # list[i]
        lines == SelectSeq([i \in DOMAIN list |-> IF once(i) THEN list[i] ELSE Comment],
                           LAMBDA l : l # Comment)
    IN  [i \in DOMAIN lines |-> [id |-> draw[i], text |-> lines[i], on |-> TRUE]]

\* Mutant: the switch is not kept.
KeepIdentityAllOn(existing, draw, acc, rule) ==
    LET at == FirstOf({i \in DOMAIN existing : existing[i].text = rule.text})
        id == IF at = 0 THEN rule.id ELSE existing[at].id
    IN  [rules |-> Append(acc.rules, [rule EXCEPT !.id = id]), used |-> acc.used \cup {id}]

\* One rule of mt_sub_refresh_rules: the first existing rule with its text
\* lends it identifier and switch; an identifier that is zero or was already
\* given to an earlier rule is replaced.
KeepIdentity(existing, draw, acc, rule) ==
    LET at == FirstOf({i \in DOMAIN existing : existing[i].text = rule.text})
        kept == IF at = 0 THEN rule
                ELSE [rule EXCEPT !.id = existing[at].id, !.on = existing[at].on]
        id == IF kept.id = Zero \/ kept.id \in acc.used THEN NextUnique(acc.used, draw)
              ELSE kept.id
    IN  [rules |-> Append(acc.rules, [kept EXCEPT !.id = id]),
         used |-> acc.used \cup {id}]

Refresh(list, existing, draw) ==
    LET parsed == Parse(list, draw)
        acc[k \in 0 .. Len(parsed)] ==
            IF k = 0 THEN [rules |-> <<>>, used |-> {}]
            ELSE KeepIdentity(existing, draw, acc[k - 1], parsed[k])
    IN  acc[Len(parsed)].rules

\* mt_sub_same_rules: per text as many on either side, and one identifier and
\* one switch among all of them.
SameRules(left, right) ==
    LET count(rules, t) == Cardinality({i \in DOMAIN rules : rules[i].text = t})
        all == Range(left) \cup Range(right)
    IN  /\ Len(left) = Len(right)
        /\ \A r \in all : count(left, r.text) = count(right, r.text)
        /\ \A r, q \in all : r.text = q.text => r = q

\* ensure_unique_subscription_rule_ids: a zero or an earlier rule's identifier
\* is replaced.
EnsureUnique(rules, draw) ==
    LET unique(before, r) ==
            LET used == {d.id : d \in Range(before)}
            IN  IF r.id = Zero \/ r.id \in used THEN [r EXCEPT !.id = NextUnique(used, draw)] ELSE r
        done[k \in 0 .. Len(rules)] ==
            IF k = 0 THEN <<>> ELSE Append(done[k - 1], unique(done[k - 1], rules[k]))
    IN  done[Len(rules)]

\* mt_sub_is_due.  Times are seconds; 0 is never.
IsDue(sub, now) ==
    LET last == IF sub.lastCheck = 0 THEN sub.lastUpdate ELSE sub.lastCheck
    IN  /\ sub.enable /\ sub.url # "" /\ sub.interval > 0
        /\ last = 0 \/ now >= last + sub.interval
=============================================================================
