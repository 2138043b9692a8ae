----------------------------- MODULE IptEngine ------------------------------
(***************************************************************************)
(* The iptables engine (iptables/engine.c and the three chain kinds) and   *)
(* its callers: the chains of a group (netfilter/ipset_to_link.c), the DNS *)
(* port remap (port_remap.c), the cleaner (cleaner.c) and the rebuild of   *)
(* api/app.c.  Callers register chains and stage rules; a commit reads the *)
(* tables with iptables-save, compiles every registered chain against what *)
(* it read and feeds one transcript to iptables-restore --noflush.         *)
(*                                                                         *)
(* One engine is modelled (the two families are two of them); its calls    *)
(* are serialised, as iptables.h demands.  What runs beside it is the      *)
(* firmware, which may rewrite a table between any two steps: so the read  *)
(* and the write of a commit are two steps.  A rule is a record of its     *)
(* target and of whatever else tells it apart; an owner stands for the     *)
(* name of its chain, prefix included.                                     *)
(***************************************************************************)
EXTENDS SeqParts

CONSTANTS OwnerSeq,    \* the owners, in the order in which iptables-save lists them
          Remap,       \* the DNS port remap
          Firmware,    \* table -> chain -> rules: what the firmware puts there
          FirmwareSeq, \* its chains, in the order in which iptables-save lists them
          Blackhole,   \* groups routed to the blackhole: no rule in their filter chain
          Leftovers,   \* what killed runs may have left: sets of places
          Versions,    \* interface and mark an enable may end up with
          MaxOps,      \* bound: operations in a behaviour
          MaxWipes,    \* bound: firmware rewrites in a behaviour
          MaxFaults    \* bound: iptables runs that fail or are cancelled

Owners == Range(OwnerSeq)
Groups == Owners \ {Remap}
TableSeq == <<"filter", "mangle", "nat">>
Tables == Range(TableSeq)

\* ipset_to_link.c, port_remap.c: the base chain an owner is entered from.
BaseOf(o, t) ==
    CASE t = "filter" -> "FORWARD"
      [] t = "mangle" -> "PREROUTING"
      [] t = "nat" -> IF o = Remap THEN "PREROUTING" ELSE "POSTROUTING"

TablesOf(o) == IF o = Remap THEN {"nat"} ELSE Tables

Rule(target, part) == [to |-> target, part |-> part]
Jump(o) == Rule(o, 0)
IsJumpToUs(r) == r.to \in Owners

\* The rules of an owner's chain: v is the interface and the mark of the enable.
Body(o, t, v) ==
    IF o = Remap THEN <<Rule("DNAT", 1), Rule("DNAT", 2)>>
    ELSE CASE t = "filter" -> IF o \in Blackhole THEN <<>> ELSE <<Rule("ACCEPT", v)>>
           [] t = "mangle" -> <<Rule("RETURN", 0), Rule("MARK", v), Rule("CONNMARK", 0)>>
           [] t = "nat" -> <<Rule("MASQUERADE", 0)>>

Builtin == {"FORWARD", "PREROUTING", "POSTROUTING"}
ChainSeq == FirmwareSeq \o OwnerSeq

\* What the prefix of our chains is for: no chain and no target of anybody
\* else has the name of an owner.
ASSUME FirmwareAssumption ==
    /\ FirmwareSeq \in Seq(Range(FirmwareSeq)) /\ OwnerSeq \in Seq(Owners)
    /\ Remap \in Owners
    /\ Owners \cap (Builtin \cup Range(FirmwareSeq)) = {}
    /\ Firmware = [t \in Tables |-> [c \in DOMAIN Firmware[t] |-> Firmware[t][c]]]
    /\ \A t \in Tables : \A c \in DOMAIN Firmware[t] :
          /\ c \in Range(FirmwareSeq)
          /\ Firmware[t][c] \in Seq(Range(Firmware[t][c]))
          /\ \A i \in DOMAIN Firmware[t][c] : ~IsJumpToUs(Firmware[t][c][i])
    /\ Leftovers \subseteq SUBSET (Tables \X Owners)

VARIABLES
    kernel,    \* table -> chain -> rules
    reg,       \* registrations, in order of first registration
    enabled,   \* owner -> {} or {the version it was enabled with}
    job,       \* the operation at work: what it does and for whom
    pc,        \* "boot", "idle", "clean", "save", "restore", "stopped"
    text,      \* the transcript about to be restored
    stale,     \* tables the firmware rewrote since the commit read them
    ops, wipes, faults

vars == <<kernel, reg, enabled, job, pc, text, stale, ops, wipes, faults>>

-----------------------------------------------------------------------------
\* Registrations: [table, chain, kind, staged].  register_chain replaces a
\* registration where it stands, staged rules included.

IndexOf(r, t, c) == FirstWhere(r, LAMBDA e : e.table = t /\ e.chain = c)

Register(r, t, c, kind) ==
    LET i == IndexOf(r, t, c)
        new == [table |-> t, chain |-> c, kind |-> kind, staged |-> <<>>]
    IN  IF i = 0 THEN Append(r, new) ELSE [r EXCEPT ![i] = new]

\* A patch chain keeps the last operation on a rule, at the end of its list;
\* an override chain edits its list of rules; a chain to be deleted keeps none.
PatchAdd(staged, e) == Append(Where(staged, LAMBDA x : x.rule # e.rule), e)

OverrideAdd(staged, e) ==
    CASE e.op = "A" -> Append(staged, e.rule)
      [] e.op = "I" -> IF e.num \in 1 .. Len(staged) + 1
                       THEN InsertAt(staged, e.num, e.rule) ELSE staged
      [] e.op = "D" -> LET i == FirstWhere(staged, LAMBDA r : r = e.rule)
                       IN  IF i = 0 THEN staged ELSE RemoveAt(staged, i)

StageRule(g, e) ==
    [g EXCEPT !.staged = CASE g.kind = "patch" -> PatchAdd(@, e)
                           [] g.kind = "override" -> OverrideAdd(@, e)
                           [] g.kind = "delete" -> @]

\* dispatch_rule_op: a chain that is not registered is an error, and nothing
\* is staged.
Dispatch(r, t, c, op, num, rule) ==
    LET i == IndexOf(r, t, c)
    IN  IF i = 0 THEN r
        ELSE [r EXCEPT ![i] = StageRule(@, [op |-> op, num |-> num, rule |-> rule])]

\* A caller makes a list of calls: op names a kind to register a chain, or the
\* rule operation to dispatch.
Call(op, t, c, num, rule) == [op |-> op, table |-> t, chain |-> c, num |-> num, rule |-> rule]
Registering(kind, t, c) == Call(kind, t, c, 0, Jump(c))

Performed(r, call) ==
    IF call.op \in {"patch", "override", "delete"}
    THEN Register(r, call.table, call.chain, call.op)
    ELSE Dispatch(r, call.table, call.chain, call.op, call.num, call.rule)

Perform(r, calls) ==
    LET after[i \in 0 .. Len(calls)] ==
            IF i = 0 THEN {r} ELSE {Performed(x, calls[i]) : x \in after[i - 1]}
    IN  CHOOSE x \in after[Len(calls)] : TRUE

\* Mutant: a base chain is registered to be overridden.
BaseChainsOverride ==
    << Registering("override", "filter", "FORWARD"), Registering("patch", "mangle", "PREROUTING"),
       Registering("patch", "nat", "PREROUTING"), Registering("patch", "nat", "POSTROUTING") >>

\* mt_netfilter_register_base_chains.
BaseChains ==
    << Registering("patch", "filter", "FORWARD"), Registering("patch", "mangle", "PREROUTING"),
       Registering("patch", "nat", "PREROUTING"), Registering("patch", "nat", "POSTROUTING") >>

PerTable(o, calls(_)) ==
    LET mine == Where(TableSeq, LAMBDA t : t \in TablesOf(o))
    IN  Concat([i \in DOMAIN mine |-> calls(mine[i])])

\* Mutant: the jump is forgotten.
BuildNoJump(o, v) ==
    PerTable(o, LAMBDA t :
        <<Registering("override", t, o)>>
        \o [i \in DOMAIN Body(o, t, v) |-> Call("A", t, o, 0, Body(o, t, v)[i])])

\* build_iptables_rules and build_rules: per table, the chain, its rules and
\* the jump, appended for a group and inserted at the top for the remap.
Build(o, v) ==
    PerTable(o, LAMBDA t :
        <<Registering("override", t, o)>>
        \o [i \in DOMAIN Body(o, t, v) |-> Call("A", t, o, 0, Body(o, t, v)[i])]
        \o <<IF o = Remap THEN Call("I", t, BaseOf(o, t), 1, Jump(o))
                          ELSE Call("A", t, BaseOf(o, t), 0, Jump(o))>>)

\* delete_iptables_rules and delete_rules.
Unbuild(o) ==
    PerTable(o, LAMBDA t :
        <<Registering("delete", t, o), Call("D", t, BaseOf(o, t), 0, Jump(o))>>)

-----------------------------------------------------------------------------
\* iptables-save and mt_ipt_get_current_rules.

\* The output of iptables-save (external): every table with its chains
\* declared first, then their rules.
Line(op, name) == [op |-> op, name |-> name, num |-> 0, rule |-> Rule("", 0)]
RuleLine(op, c, num, r) == [op |-> op, name |-> c, num |-> num, rule |-> r]

SaveLines(k) ==
    Concat([i \in DOMAIN TableSeq |->
        LET t == TableSeq[i]
            cs == Where(ChainSeq, LAMBDA c : c \in DOMAIN k[t])
        IN  <<Line("#", ""), Line("*", t)>>
            \o [j \in DOMAIN cs |-> Line(":", cs[j])]
            \o Concat([j \in DOMAIN cs |->
                   [n \in DOMAIN k[t][cs[j]] |-> RuleLine("A", cs[j], 0, k[t][cs[j]][n])]])
            \o <<Line("C", "")>>])

\* The lines between "*table" at s and what ends the table.
Section(lines, s) ==
    LET rest == SubSeq(lines, s + 1, Len(lines))
        e == FirstWhere(rest, LAMBDA l : l.op \in {"*", "C"})
    IN  IF e = 0 THEN rest ELSE SubSeq(rest, 1, e - 1)

\* The chains of a table in order of first mention, each with its rules.
ChainsOf(t, lines) ==
    LET body == Where(lines, LAMBDA l : l.op \in {":", "A"})
        first == Where([i \in DOMAIN body |-> i],
                    LAMBDA i : \A j \in 1 .. i - 1 : body[j].name # body[i].name)
        rules(c) == LET its == Where(body, LAMBDA l : l.op = "A" /\ l.name = c)
                    IN  [n \in DOMAIN its |-> its[n].rule]
    IN  [k \in DOMAIN first |-> [table |-> t, chain |-> body[first[k]].name,
                                 rules |-> rules(body[first[k]].name)]]

\* A chain or a rule outside of a table is a protocol error.
GetCurrentRules(lines) ==
    LET opens == Where([i \in DOMAIN lines |-> i], LAMBDA i : lines[i].op = "*")
        tables == [k \in DOMAIN opens |->
                      ChainsOf(lines[opens[k]].name, Section(lines, opens[k]))]
        inside == UNION {opens[k] .. opens[k] + Len(Section(lines, opens[k])) : k \in DOMAIN opens}
    IN  [chains |-> Concat(tables),
         ok |-> \A i \in DOMAIN lines : lines[i].op \in {":", "A"} => i \in inside]

CurrentRules(k) == GetCurrentRules(SaveLines(k)).chains

-----------------------------------------------------------------------------
\* Compilation: chain_patch.c, chain_override.c, chain_delete.c.

Count(rules, r) == Len(Where(rules, LAMBDA x : x = r))

\* Surplus copies go; one copy counts as present.
PatchCompile(c, staged, rules) ==
    Concat([i \in DOMAIN staged |->
        LET e == staged[i]
            n == Count(rules, e.rule)
            surplus == IF n > 1 THEN n - 1 ELSE 0
            line == RuleLine(e.op, c, e.num, e.rule)
        IN  [j \in 1 .. surplus |-> RuleLine("D", c, 0, e.rule)]
            \o IF (e.op = "D") = (n > 0) THEN <<line>> ELSE <<>>])

\* Mutant: the chain is written whether or not it is as wanted.
OverrideAlways(c, staged, found, rules) ==
    <<Line("F", c)>> \o [i \in DOMAIN staged |-> RuleLine("A", c, 0, staged[i])]

OverrideCompile(c, staged, found, rules) ==
    IF found /\ rules = staged THEN <<>>
    ELSE <<Line("F", c)>> \o [i \in DOMAIN staged |-> RuleLine("A", c, 0, staged[i])]

\* Mutant: the chain is flushed and stays.
DeleteFlushOnly(c, found) == IF found THEN <<Line("F", c)>> ELSE <<>>

DeleteCompile(c, found) == IF found THEN <<Line("F", c), Line("X", c)>> ELSE <<>>

Compile(g, cur) ==
    LET i == IndexOf(cur, g.table, g.chain)
        rules == IF i = 0 THEN <<>> ELSE cur[i].rules
    IN  CASE g.kind = "patch" -> PatchCompile(g.chain, g.staged, rules)
          [] g.kind = "override" -> OverrideCompile(g.chain, g.staged, i # 0, rules)
          [] g.kind = "delete" -> DeleteCompile(g.chain, i # 0)

\* Mutant: chains are deleted before the jumps to them.
KindsDeleteFirst == <<"override", "delete", "patch">>

\* Priorities -128, 0 and 127.
KindsByPriority == <<"override", "patch", "delete">>

\* mt_ipt_commit: the transcript, a block "*table ... COMMIT" per table in
\* order of first registration.  In a block the chains with something to do
\* are declared, then the commands follow by priority.
TableText(r, t, cur) ==
    LET mine == Where(r, LAMBDA g : g.table = t /\ Compile(g, cur) # <<>>)
        commands(kind) ==
            LET sel == Where(mine, LAMBDA g : g.kind = kind)
            IN  Concat([i \in DOMAIN sel |-> Compile(sel[i], cur)])
    IN  [table |-> t,
         lines |-> [i \in DOMAIN mine |-> Line(":", mine[i].chain)]
                   \o Concat([i \in DOMAIN KindsByPriority |->
                                     commands(KindsByPriority[i])])]

Transcript(r, cur) ==
    LET opening == Part(r, {i \in DOMAIN r : \A j \in 1 .. i - 1 : r[j].table # r[i].table})
    IN  Where([i \in DOMAIN opening |-> TableText(r, opening[i].table, cur)],
              LAMBDA b : b.lines # <<>>)

-----------------------------------------------------------------------------
\* iptables-restore --noflush (external): a declared chain of the user is
\* created or flushed, a command that does not fit is an error that ends the
\* run, and COMMIT installs the table.

Known(w, target) == target \notin Owners \/ target \in DOMAIN w

Fits(w, l) ==
    CASE l.op = ":" -> TRUE
      [] l.op = "A" -> l.name \in DOMAIN w /\ Known(w, l.rule.to)
      [] l.op = "I" -> l.name \in DOMAIN w /\ Known(w, l.rule.to)
                       /\ l.num \in 1 .. Len(w[l.name]) + 1
      [] l.op = "D" -> l.name \in DOMAIN w /\ Count(w[l.name], l.rule) > 0
      [] l.op = "F" -> l.name \in DOMAIN w
      [] l.op = "X" -> /\ l.name \in DOMAIN w /\ w[l.name] = <<>>
                       /\ \A c \in DOMAIN w : Count(w[c], Jump(l.name)) = 0

With(w, c, rules) == [x \in DOMAIN w \cup {c} |-> IF x = c THEN rules ELSE w[x]]

Applied(w, l) ==
    CASE l.op = ":" -> IF l.name \in Builtin THEN w ELSE With(w, l.name, <<>>)
      [] l.op = "A" -> With(w, l.name, Append(w[l.name], l.rule))
      [] l.op = "I" -> With(w, l.name, InsertAt(w[l.name], l.num, l.rule))
      [] l.op = "D" -> With(w, l.name, RemoveAt(w[l.name],
                                FirstWhere(w[l.name], LAMBDA r : r = l.rule)))
      [] l.op = "F" -> With(w, l.name, <<>>)
      [] l.op = "X" -> [c \in DOMAIN w \ {l.name} |-> w[c]]

\* A table once a block has been fed to it; {} when a line was refused.
RestoreBlock(w, lines) ==
    LET after[i \in 0 .. Len(lines)] ==
            IF i = 0 THEN {w}
            ELSE {Applied(x, lines[i]) : x \in {y \in after[i - 1] : Fits(y, lines[i])}}
    IN  after[Len(lines)]

\* The tables after the first n blocks; "bad" is the table that was refused.
Restore(k, blocks, n) ==
    LET fed(i) == RestoreBlock(k[blocks[i].table], blocks[i].lines)
        refused == FirstOf({i \in 1 .. n : fed(i) = {}})
        last == IF refused = 0 THEN n ELSE refused - 1
        place(t) == FirstOf({i \in 1 .. last : blocks[i].table = t})
    IN  [bad |-> IF refused = 0 THEN "" ELSE blocks[refused].table,
         tables |-> [t \in DOMAIN k |->
                        IF place(t) = 0 THEN k[t] ELSE CHOOSE w \in fed(place(t)) : TRUE]]

-----------------------------------------------------------------------------
\* Places where a killed run may have left a chain and d jumps to it.
Leftover(L, v, d) ==
    [t \in Tables |->
        LET mine == {o \in Owners : <<t, o>> \in L}
            jumps(c) == Concat([i \in DOMAIN OwnerSeq |->
                            IF OwnerSeq[i] \in mine /\ BaseOf(OwnerSeq[i], t) = c
                            THEN [j \in 1 .. d |-> Jump(OwnerSeq[i])] ELSE <<>>])
        IN  [c \in DOMAIN Firmware[t] \cup mine |->
                IF c \in mine THEN Body(c, t, v) ELSE Firmware[t][c] \o jumps(c)]]

Places == {p \in Tables \X Owners : p[1] \in TablesOf(p[2])}
NoJob == [do |-> "none", owner |-> Remap, ver |-> 0]

Init ==
    /\ \E L \in Leftovers, d \in 1 .. 2 : kernel = Leftover(L, 1, d)
    /\ reg = <<>> /\ enabled = [o \in Owners |-> {}]
    /\ job = NoJob /\ pc = "boot" /\ text = <<>> /\ stale = {}
    /\ ops = 0 /\ wipes = 0 /\ faults = 0

bounds == <<ops, wipes, faults>>

\* clean_one: everything found under our prefix is staged to go, and so is
\* every rule of another chain that jumps there.
CleanOne(c) ==
    IF c.chain \in Owners THEN <<Registering("delete", c.table, c.chain)>>
    ELSE LET jumps == Where(c.rules, IsJumpToUs)
             unknown == jumps # <<>> /\ IndexOf(reg, c.table, c.chain) = 0
         IN  (IF unknown THEN <<Registering("patch", c.table, c.chain)>> ELSE <<>>)
             \o [i \in DOMAIN jumps |-> Call("D", c.table, c.chain, 0, jumps[i])]

Clean(cur) == Concat([i \in DOMAIN cur |-> CleanOne(cur[i])])

\* rebuild_netfilter_locked after the clean-up: base chains afresh, then what
\* is enabled, the remap first.
Prepare ==
    LET order == <<Remap>> \o Where(OwnerSeq, LAMBDA o : o # Remap)
    IN  BaseChains \o Concat([i \in DOMAIN order |->
            IF enabled[order[i]] = {} THEN <<>>
            ELSE Build(order[i], CHOOSE v \in enabled[order[i]] : TRUE)])

Fault == faults < MaxFaults /\ faults' = faults + 1 /\ UNCHANGED <<ops, wipes>>
Operation == ops < MaxOps /\ ops' = ops + 1 /\ UNCHANGED <<wipes, faults>>
Keeping == UNCHANGED <<kernel, text, stale>>

\* main: base chains, then the clean-up.
Boot ==
    /\ pc = "boot"
    /\ reg' = Perform(<<>>, BaseChains)
    /\ job' = [NoJob EXCEPT !.do = "start"] /\ pc' = "clean"
    /\ Keeping /\ UNCHANGED <<enabled, bounds>>

\* main: the remap, unless the configuration disables it.
Remap53 ==
    /\ pc = "remap"
    /\ \/ /\ reg' = Perform(reg, Build(Remap, 0))
          /\ job' = [NoJob EXCEPT !.do = "build"] /\ pc' = "save"
       \/ pc' = "idle" /\ UNCHANGED <<reg, job>>
    /\ Keeping /\ UNCHANGED <<enabled, bounds>>

\* mt_ruleset_enable: mt_ipset_to_link_clear_if_disabled comes first.
Enable(g) ==
    /\ pc = "idle" /\ enabled[g] = {} /\ Operation
    /\ \E v \in Versions : job' = [do |-> "clear", owner |-> g, ver |-> v]
    /\ reg' = Perform(reg, Unbuild(g)) /\ pc' = "save"
    /\ Keeping /\ UNCHANGED enabled

\* mt_ipset_to_link_disable; the remap goes last, with the process.
Disable(o) ==
    /\ pc = "idle" /\ enabled[o] # {} /\ Operation
    /\ o = Remap => \A g \in Groups : enabled[g] = {}
    /\ job' = [do |-> "disable", owner |-> o, ver |-> 0]
    /\ enabled' = [enabled EXCEPT ![o] = {}]
    /\ reg' = Perform(reg, Unbuild(o)) /\ pc' = "save"
    /\ Keeping

\* A pass of the committer.
Rebuild ==
    /\ pc = "idle" /\ Operation
    /\ job' = [NoJob EXCEPT !.do = "clean"] /\ pc' = "clean"
    /\ Keeping /\ UNCHANGED <<reg, enabled>>

\* mt_app_force_commit_iptables where there is no committer.
ForceCommit ==
    /\ pc = "idle" /\ Operation
    /\ job' = [NoJob EXCEPT !.do = "commit"] /\ pc' = "save"
    /\ Keeping /\ UNCHANGED <<reg, enabled>>

\* What the caller does with the result of its commit.
Ends(at) == pc' = at /\ job' = NoJob /\ UNCHANGED <<reg, enabled>>
Stages(calls, do) ==
    pc' = "save" /\ reg' = Perform(reg, calls) /\ job' = [job EXCEPT !.do = do] /\ UNCHANGED enabled

AfterOk ==
    CASE job.do = "clear" -> Stages(Build(job.owner, job.ver), "build")
      [] job.do = "build" -> /\ enabled' = [enabled EXCEPT ![job.owner] = {job.ver}]
                             /\ pc' = "idle" /\ job' = NoJob /\ UNCHANGED reg
      [] job.do = "clean" -> Stages(Prepare, "rebuild")
      [] job.do = "start" -> Ends("remap")
      [] job.do \in {"disable", "rollback"} /\ job.owner = Remap -> Ends("stopped")
      [] OTHER -> Ends("idle")

AfterError ==
    CASE job.do = "build" -> Stages(Unbuild(job.owner), "rollback")
      [] job.do = "start" -> Ends("stopped")
      [] job.do \in {"disable", "rollback"} /\ job.owner = Remap -> Ends("stopped")
      [] OTHER -> Ends("idle")

CleanStep ==
    /\ pc = "clean"
    /\ reg' = Perform(reg, Clean(CurrentRules(kernel)))
    /\ pc' = "save"
    /\ Keeping /\ UNCHANGED <<enabled, job, bounds>>

\* The read of mt_ipt_commit; with nothing to write the commit ends here.
Save ==
    /\ pc = "save"
    /\ text' = Transcript(reg, CurrentRules(kernel))
    /\ IF text' = <<>> THEN AfterOk
       ELSE pc' = "restore" /\ UNCHANGED <<reg, enabled, job>>
    /\ UNCHANGED <<kernel, stale, bounds>>

\* iptables-save fails, or the token is found raised before or during it.
SaveFails ==
    /\ pc \in {"clean", "save"} /\ Fault
    /\ AfterError /\ Keeping

Written == text' = <<>> /\ stale' = {}

RestoreOk ==
    /\ pc = "restore"
    /\ LET s == Restore(kernel, text, Len(text)) IN s.bad = "" /\ kernel' = s.tables
    /\ Written /\ AfterOk
    /\ UNCHANGED bounds

RestoreRefused ==
    /\ pc = "restore"
    /\ LET s == Restore(kernel, text, Len(text)) IN s.bad # "" /\ kernel' = s.tables
    /\ Written /\ AfterError
    /\ UNCHANGED bounds

\* The child dies or is killed after n blocks, or is never started.
RestoreDies ==
    /\ pc = "restore" /\ Fault
    /\ \E n \in 0 .. Len(text) : kernel' = Restore(kernel, text, n).tables
    /\ Written /\ AfterError

\* The process is started again; its registrations are gone.
Restart ==
    /\ pc = "stopped"
    /\ pc' = "boot" /\ reg' = <<>> /\ enabled' = [o \in Owners |-> {}]
    /\ Keeping /\ UNCHANGED <<job, bounds>>

\* The firmware rewrites a table with its own rules.
Wipe ==
    /\ wipes < MaxWipes /\ wipes' = wipes + 1
    /\ \E t \in Tables :
          /\ kernel' = [kernel EXCEPT ![t] = Firmware[t]]
          /\ stale' = IF pc = "restore" THEN stale \cup {t} ELSE stale
    /\ UNCHANGED <<reg, enabled, job, pc, text, ops, faults>>

Next ==
    \/ Boot \/ Remap53 \/ Rebuild \/ ForceCommit
    \/ \E g \in Groups : Enable(g)
    \/ \E o \in Owners : Disable(o)
    \/ CleanStep \/ Save \/ SaveFails \/ RestoreOk \/ RestoreRefused \/ RestoreDies
    \/ Restart \/ Wipe

Spec == Init /\ [][Next]_vars

-----------------------------------------------------------------------------
TypeOK ==
    /\ \A t \in Tables : DOMAIN Firmware[t] \subseteq DOMAIN kernel[t]
    /\ \A i \in DOMAIN reg : /\ reg[i].table \in Tables
                             /\ reg[i].kind \in {"patch", "override", "delete"}
                             /\ IndexOf(reg, reg[i].table, reg[i].chain) = i
    /\ enabled \in [Owners -> SUBSET (Versions \cup {0})]
    /\ pc \in {"boot", "clean", "save", "restore", "remap", "idle", "stopped"}
    /\ stale \subseteq Tables

\* What is in a table apart from our chains and the jumps to them.
Foreign(w) ==
    [c \in DOMAIN w \ Owners |-> Where(w[c], LAMBDA r : ~IsJumpToUs(r))]

\* Nothing the daemon commits, not even a restore that dies half-way, changes
\* the firmware's chains, their rules or the order of these.
FirmwareUntouched == \A t \in Tables : Foreign(kernel[t]) = Firmware[t]

\* Registered chain g is in table w what its registration says.
AsRegistered(g, w) ==
    CASE g.kind = "override" -> g.chain \in DOMAIN w /\ w[g.chain] = g.staged
      [] g.kind = "delete" -> g.chain \notin DOMAIN w
      [] g.kind = "patch" ->
            \A i \in DOMAIN g.staged :
                Count(w[g.chain], g.staged[i].rule) = IF g.staged[i].op = "D" THEN 0 ELSE 1

CommitSucceeds == RestoreOk \/ (Save /\ text' = <<>>)

\* A commit that reports success leaves every table that was not rewritten
\* meanwhile exactly as registered: chains to build with their rules, chains
\* to delete gone, every jump there once and no jump to what is gone.
CommitExact ==
    [][CommitSucceeds =>
        \A i \in DOMAIN reg : reg[i].table \notin stale =>
            AsRegistered(reg[i], kernel'[reg[i].table])]_vars

\* iptables-restore refuses a transcript only over a table the firmware
\* rewrote after the save: what the engine compiles from a current read is
\* always in an order the kernel accepts (a chain is filled before the jump to
\* it exists and deleted after the last jump is gone).
RestoreAccepted ==
    [][RestoreRefused => Restore(kernel, text, Len(text)).bad \in stale]_vars

\* Committing again after a success has nothing to write.  The netfilter.d
\* hook answers every table change with a pass; a pass that always wrote would
\* call the hook again for ever.
Settled ==
    [][CommitSucceeds /\ stale = {} =>
        \A cur \in {CurrentRules(kernel')} : Transcript(reg, cur) = <<>>]_vars

\* The engine implements NfTables: a chain staged to be there carries its rules
\* and is entered from its base chain, and each table changes whole.
Content(w, o, t) == [rules |-> w[o], entered |-> Count(w[BaseOf(o, t)], Jump(o)) > 0]

absMark ==
    [t \in Tables |-> [o \in Owners |->
        LET i == IndexOf(reg, t, o)
        IN  IF i = 0 THEN [kind |-> "keep", body |-> {}]
            ELSE IF reg[i].kind = "delete" THEN [kind |-> "out", body |-> {}]
            ELSE [kind |-> "in", body |-> {[rules |-> reg[i].staged, entered |-> TRUE]}]]]

absHave ==
    [t \in Tables |-> [o \in Owners |->
        IF o \in DOMAIN kernel[t] THEN {Content(kernel[t], o, t)} ELSE {}]]

Abstract == INSTANCE NfTables WITH mark <- absMark, have <- absHave

Refines == Abstract!AbsSpec

=============================================================================
