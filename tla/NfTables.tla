------------------------------ MODULE NfTables ------------------------------
(***************************************************************************)
(* What the iptables engine promises its callers, without lines, commands  *)
(* or priorities: the chain an owner has in a table is staged to appear    *)
(* with a given content or to go, and one write makes of a table what is   *)
(* staged for it, all of it or nothing.  A table the firmware rewrote      *)
(* between the read and the write is the exception: what is staged may be  *)
(* missing there afterwards, but nothing else happens to it.               *)
(***************************************************************************)
CONSTANTS Tables, Owners

VARIABLES mark,   \* table -> owner -> what is staged for the owner's chain
          have,   \* table -> owner -> {} or {the content of its chain}
          stale   \* tables the firmware rewrote since the write under way read them

absVars == <<mark, have, stale>>

Keep == [kind |-> "keep", body |-> {}]
Out == [kind |-> "out", body |-> {}]

\* The content of chain h once m has been written to it.
Written(h, m) == IF m.kind = "keep" THEN h ELSE m.body

\* Nothing staged; the tables are as an earlier run left them.
AbsInit ==
    /\ mark = [t \in Tables |-> [o \in Owners |-> Keep]]
    /\ stale = {}

\* Staging, reading and failing change nothing in the kernel.
Stage == UNCHANGED <<have, stale>>

\* Some tables are written, each whole; of a stale one, perhaps less.
Write ==
    /\ \E T \in SUBSET Tables : \A t \in Tables :
          /\ t \notin T => have'[t] = have[t]
          /\ t \in T \ stale =>
                have'[t] = [o \in Owners |-> Written(have[t][o], mark[t][o])]
          /\ t \in T \cap stale =>
                \A o \in Owners :
                    have'[t][o] \in {have[t][o], Written(have[t][o], mark[t][o])}
    /\ stale' = {}

\* The firmware rewrites a table from its own rules.
Wipe ==
    \E t \in Tables :
        /\ have' = [have EXCEPT ![t] = [o \in Owners |-> {}]]
        /\ stale' \in {stale, stale \cup {t}}
        /\ UNCHANGED mark

\* A write may be followed, in the same step, by staging for the next one.
AbsNext == Stage \/ Write \/ Wipe

AbsSpec == AbsInit /\ [][AbsNext]_absVars
=============================================================================
