------------------------------ MODULE SeqParts ------------------------------
(***************************************************************************)
(* Parts of sequences.  A part is given by the places it is taken from, so *)
(* what is said of it needs no operator as a parameter and can be proved.  *)
(***************************************************************************)
EXTENDS Integers, Sequences, FiniteSetsExt

\* The first of some places in a sequence; 0 is none.
FirstOf(places) == IF places = {} THEN 0 ELSE Min(places)

\* The elements at some places, in their order.
Part(s, places) ==
    LET upTo[i \in 0 .. Len(s)] ==
            IF i = 0 THEN <<>>
            ELSE IF i \in places THEN Append(upTo[i - 1], s[i]) ELSE upTo[i - 1]
    IN  upTo[Len(s)]

\* The elements that satisfy P.
Where(s, P(_)) == Part(s, {i \in DOMAIN s : P(s[i])})

\* The first place whose element satisfies P; 0 is none.
FirstWhere(s, P(_)) == FirstOf({i \in DOMAIN s : P(s[i])})

\* Sequences one after the other.
Concat(seqs) ==
    LET upTo[i \in 0 .. Len(seqs)] == IF i = 0 THEN <<>> ELSE upTo[i - 1] \o seqs[i]
    IN  upTo[Len(seqs)]

InsertAt(s, n, x) ==
    [i \in 1 .. Len(s) + 1 |-> IF i < n THEN s[i] ELSE IF i = n THEN x ELSE s[i - 1]]

RemoveAt(s, n) == [i \in 1 .. Len(s) - 1 |-> IF i < n THEN s[i] ELSE s[i + 1]]
=============================================================================
