------------------------------- MODULE Config -------------------------------
(***************************************************************************)
(* The configuration in memory and everything that must follow it: the     *)
(* registry of rulesets (api/app.c), what they hold in the kernel          *)
(* (netfilter/ruleset.c), the snapshot DNS answers are matched against     *)
(* (rules/snapshot.c), and the file (ConfigFile).  It is changed by the    *)
(* HTTP handlers of api/groups.c and api/subscriptions_api.c, by the       *)
(* auto-update timer and by SIGHUP (main/main.c).  All of these run on the *)
(* one event-loop thread, so each is an action; only the save is split,    *)
(* because the process may die inside it.                                  *)
(*                                                                         *)
(* A group is [id, enable, rules, cap], cap being how many rules its array *)
(* has room for; a subscription has the fields of mt_subscription_t.       *)
(* Names, colours and a group's interface are left out.                    *)
(***************************************************************************)
EXTENDS ConfigFile, SubRules

CONSTANTS GroupIds, SubIds, RuleIds,   \* random identifiers, in drawing order
          NoId, BadId,                 \* "id" absent, "id" malformed
          First,                       \* grow_array's first capacity (8)
          GroupReqs, GroupBodies,      \* bodies: of a group, of PUT /groups
          RuleReqs, RuleBodies,        \* of a rule, of PUT /rules
          SubReqs, SubBodies,          \* of a subscription, of PUT /subscriptions
          Fetched,                     \* lists a server may send
          Files,                       \* files an operator may install
          MaxOps, MaxFaults, MaxKills, MaxEdits, MaxNow

ASSUME FirstAssumption == First \in Nat \ {0}
ASSUME DrawAssumption ==
    GroupIds \in Seq(Range(GroupIds)) \ {<<>>} /\ SubIds \in Seq(Range(SubIds)) \ {<<>>}

\* Fields of mt_subscription_t.
SubFields == {"id", "enable", "iface", "url", "interval", "lastUpdate", "lastCheck", "rules"}

ASSUME InputAssumption ==
    /\ \A body \in GroupBodies \cup SubBodies : body \in Seq(Range(body))
    /\ \A c \in Files : /\ c.groups \in Seq(Range(c.groups)) /\ c.subs \in Seq(Range(c.subs))
                       /\ \A s \in Range(c.subs) : s = [x \in SubFields |-> s[x]]

VARIABLES app,      \* mt_app_t, its configuration and its kernel resources
          up,       \* the daemon runs
          reply,    \* what the last step was, and its error
          now, ops, faults, kills

vars == <<app, up, reply, now, ops, faults, kills, fileVars>>

-----------------------------------------------------------------------------
\* config/models.c

Ids(seq) == {seq[i].id : i \in DOMAIN seq}
At(seq, id) == FirstOf({i \in DOMAIN seq : seq[i].id = id})
Distinct(seq) == Cardinality(Ids(seq)) = Len(seq)
Each(Op(_), seq) == [i \in DOMAIN seq |-> Op(seq[i])]

\* The sequence without its i-th element.
RemoveAt(seq, i) == [k \in 1 .. Len(seq) - 1 |-> IF k < i THEN seq[k] ELSE seq[k + 1]]

\* Identifiers that groups and subscriptions may come to have.
GroupNames ==
    Range(GroupIds) \cup (UNION {Ids(c.groups) : c \in Files})
    \cup (({q.id : q \in GroupReqs} \cup (UNION {Ids(b) : b \in GroupBodies})) \ {NoId, BadId})
SubNames ==
    Range(SubIds) \cup (UNION {Ids(c.subs) : c \in Files})
    \cup (({q.id : q \in SubReqs} \cup (UNION {Ids(b) : b \in SubBodies})) \ {NoId, BadId})

\* mt_id_random, called for the k-th element of a body: the k-th of the
\* identifiers that are not in use (the last of all, should the draws run out).
RandomId(used, draw, k) ==
    LET fresh == {i \in DOMAIN draw : draw[i] \notin used}
        at == {i \in fresh : Cardinality({j \in fresh : j <= i}) = k}
    IN  draw[IF at = {} THEN Len(draw) ELSE CHOOSE i \in at : TRUE]

\* grow_array: the room after one more element is added to an array of n
\* elements with room for cap (0: not allocated).
GrowArray(cap, n) ==
    IF n >= First /\ \E k \in 0 .. n : n = 2 ^ k THEN 2 * n
    ELSE IF n < First /\ cap = 0 THEN First ELSE cap

\* The room of an array filled one element at a time.
Grown(n) ==
    LET cap[k \in 0 .. n] == IF k = 0 THEN 0 ELSE GrowArray(cap[k - 1], k - 1)
    IN  cap[n]

\* mt_sub_runtime_group: the ruleset of a subscription, a copy.
RuntimeGroup(s) ==
    [id |-> s.id, enable |-> s.enable /\ s.iface # "", rules |-> s.rules]

\* mt_ruleset_snapshot_build: enabled groups, then enabled subscriptions, with
\* their enabled rules.
Entries(gs) ==
    LET entry(g) == [id |-> g.id, rules |-> SelectSeq(g.rules, LAMBDA r : r.on)]
    IN  Each(entry, SelectSeq(gs, LAMBDA g : g.enable))
Build(groups, subs) == Entries(groups) \o Entries(Each(RuntimeGroup, subs))

-----------------------------------------------------------------------------
\* The rulesets.  An operation maps the app to the set of its outcomes, each
\* an app, an error ("ok" for none) and the faults used up.

Quiet == [op |-> "other", err |-> "ok"]
Result(a, err, f) == [app |-> a, err |-> err, faults |-> f]
Faults(f, rs) == IF f < MaxFaults THEN rs ELSE {}

Republish(a) == [a EXCEPT !.snap = Build(a.groups, a.subs)]

\* What the rulesets gs hold when they are enabled.
Wanted(gs) == {g.id : g \in {x \in gs : x.enable}}

\* mt_ruleset_enable of rulesets that are not enabled, and its opposite.
Hold(a, gs) == [a EXCEPT !.kernel = @ \cup Wanted(gs), !.stuck = @ \ Wanted(gs)]
Release(a, gs) == [a EXCEPT !.kernel = @ \ Wanted(gs)]

EnableGroups(a, gs) == Hold([a EXCEPT !.on = @ \cup {g.id : g \in gs}], gs)
DisableGroups(a, gs) ==
    Release([a EXCEPT !.on = @ \ {g.id : g \in gs}], {g \in gs : g.id \in a.on})

\* mt_app_add_group: a kernel failure leaves no trace of the group.
AddGroup(a, g, f) ==
    IF g.id \in Ids(a.groups) THEN {Result(a, "exist", f)}
    ELSE IF ~Distinct(g.rules) THEN {Result(a, "inval", f)}
    ELSE {Result(Republish(EnableGroups([a EXCEPT !.groups = Append(@, g)], {g})), "ok", f)}
         \cup Faults(f, IF g.enable THEN {Result(Release(Hold(a, {g}), {g}), "io", f + 1)}
                        ELSE {})

ClearGroups(a) ==
    Republish([DisableGroups(a, Range(a.groups)) EXCEPT !.groups = <<>>])

\* Groups added one after the other, up to the first that cannot be: the k
\* before it have been, and no identifier was repeated so far.
AddGroups(a, gs, f) ==
    LET all(k) == a.groups \o SubSeq(gs, 1, k)
        added(k) == Republish(EnableGroups([a EXCEPT !.groups = all(k)], {gs[i] : i \in 1 .. k}))
        fit(k) == Distinct(all(k)) /\ \A i \in 1 .. k : Distinct(gs[i].rules)
        end(k) == IF k = Len(gs) THEN {Result(added(k), "ok", f)}
                  ELSE {r \in AddGroup(added(k), gs[k + 1], f) : r.err # "ok"}
    IN  UNION {end(k) : k \in {k \in 0 .. Len(gs) : fit(k)}}

\* mt_app_remove_group_by_id of a disabled group.
RemoveGroup(a, i) == Republish([a EXCEPT !.groups = RemoveAt(@, i)])

\* rebuild_subscription_rulesets: all are disabled and freed, then built and
\* enabled from the configuration; a failure leaves none.
Rebuild(a, f) ==
    LET none == [Release(a, Range(a.subrs)) EXCEPT !.subrs = <<>>]
        new == Each(RuntimeGroup, a.subs)
    IN  {Result([Hold(none, Range(new)) EXCEPT !.subrs = new], "ok", f)}
        \cup Faults(f, IF \E g \in Range(new) : g.enable THEN {Result(none, "io", f + 1)}
                       ELSE {})

\* The tail of every operation on subscriptions: the rulesets are rebuilt for
\* a; if that fails the configuration of back is restored and they are rebuilt
\* for it, and a second failure is only logged.
RebuildOrBack(a, back, f) ==
    UNION {IF r.err = "ok" THEN {Result(Republish(r.app), "ok", r.faults)}
           ELSE LET b == [r.app EXCEPT !.subs = back.subs, !.cap = back.cap]
                IN  {Result(q.app, r.err, q.faults) : q \in Rebuild(b, r.faults)} :
           r \in Rebuild(a, f)}

AddSubscription(a, s, f) ==
    LET b == [a EXCEPT !.subs = Append(@, s), !.cap = GrowArray(@, Len(a.subs))]
    IN  IF s.id \in Ids(a.subs) THEN {Result(a, "exist", f)}
        ELSE RebuildOrBack(b, [b EXCEPT !.subs = a.subs], f)

\* The new array has room for exactly its elements.
ReplaceSubscriptions(a, subs, f) ==
    RebuildOrBack([a EXCEPT !.subs = subs, !.cap = Len(subs)], a, f)

\* Taken back, the subscription is appended and rotated to its old place.
RemoveSubscription(a, i, f) ==
    RebuildOrBack([a EXCEPT !.subs = RemoveAt(@, i)],
                  [a EXCEPT !.cap = GrowArray(@, Len(a.subs) - 1)], f)

\* Mutant: a check that found no change does not count.
FetchUncounted(s, list, t) ==
    LET draw == SelectSeq(RuleIds, LAMBDA x : x \notin Ids(s.rules))
        rules == Refresh(list, s.rules, draw)
    IN  IF SameRules(s.rules, rules) THEN s
        ELSE [s EXCEPT !.lastCheck = t, !.lastUpdate = t, !.rules = rules]

\* A subscription whose list has been fetched at time t; no identifier that is
\* drawn is one of its rules' already.
Fetch(s, list, t) ==
    LET draw == SelectSeq(RuleIds, LAMBDA x : x \notin Ids(s.rules))
        rules == Refresh(list, s.rules, draw)
    IN  IF SameRules(s.rules, rules) THEN [s EXCEPT !.lastCheck = t]
        ELSE [s EXCEPT !.lastCheck = t, !.lastUpdate = t, !.rules = rules]

\* Taken back, the subscription has its old rules but the new times and url.
SyncSubscriptionRulesBack(a, i, url, list, f) ==
    LET s == [Fetch(a.subs[i], list, now) EXCEPT !.url = url]
        b == [a EXCEPT !.subs[i] = s]
    IN  IF s.rules = a.subs[i].rules THEN {Result(b, "ok", f)}
        ELSE RebuildOrBack(b, [b EXCEPT !.subs[i].rules = a.subs[i].rules], f)

\* mt_app_sync_subscription_by_id, the list fetched from url.
SyncSubscription(a, i, url, list, f) ==
    LET s == [Fetch(a.subs[i], list, now) EXCEPT !.url = url]
        b == [a EXCEPT !.subs[i] = s]
    IN  IF s.rules = a.subs[i].rules THEN {Result(b, "ok", f)} ELSE RebuildOrBack(b, a, f)

\* mt_app_sync_due_subscriptions: list gives what was fetched for those of the
\* due subscriptions that answered.
SyncDue(a, list, f) ==
    LET fetched(i) == IF i \in DOMAIN list THEN Fetch(a.subs[i], list[i], now) ELSE a.subs[i]
        b == [a EXCEPT !.subs = [i \in DOMAIN a.subs |-> fetched(i)]]
    IN  IF \A i \in DOMAIN list : b.subs[i].rules = a.subs[i].rules
        THEN {Result(b, "ok", f)} ELSE RebuildOrBack(b, a, f)

-----------------------------------------------------------------------------
\* Requests to models.

\* rule_from_req, sub_rule_from_req: an "id" among base's is kept, anything
\* else gets a fresh one.
FromReqs(reqs, base) ==
    LET id(before, q) == IF q.id \in Ids(base) THEN q.id
                         ELSE NextUnique(Ids(base) \cup Ids(before), RuleIds)
        done[k \in 0 .. Len(reqs)] ==
            IF k = 0 THEN <<>>
            ELSE Append(done[k - 1], [reqs[k] EXCEPT !.id = id(done[k - 1], reqs[k])])
    IN  done[Len(reqs)]

\* group_from_req, old holding the group it replaces if there is one.  What is
\* wrong with a body is its id.
GroupReqValid(q, old) == q.id # BadId /\ (old # <<>> => q.id \in {NoId, old[1].id})

GroupFromReq(q, old, used, k) ==
    LET base == IF old = <<>> THEN <<>> ELSE old[1].rules
        rules == IF q.hasRules THEN FromReqs(q.rules, base) ELSE base
    IN  [id |-> IF old # <<>> THEN old[1].id
                ELSE IF q.id = NoId THEN RandomId(used, GroupIds, k) ELSE q.id,
         enable |-> q.enable, rules |-> rules, cap |-> Grown(Len(rules))]

\* subscription_from_req: times come from the subscription it replaces.
SubFromReq(q, old, used, k) ==
    LET base == IF old = <<>> THEN <<>> ELSE old[1].rules
        rules == IF q.hasRules THEN FromReqs(q.rules, base) ELSE base
    IN  [id |-> IF q.id = NoId THEN RandomId(used, SubIds, k) ELSE q.id,
         enable |-> q.enable, iface |-> q.iface, url |-> q.url, interval |-> q.interval,
         lastUpdate |-> IF old = <<>> THEN 0 ELSE old[1].lastUpdate,
         lastCheck |-> IF old = <<>> THEN 0 ELSE old[1].lastCheck,
         rules |-> EnsureUnique(rules, RuleIds)]

\* The element with the request's "id", if there is one.
Existing(seq, q) == IF At(seq, q.id) = 0 THEN <<>> ELSE <<seq[At(seq, q.id)]>>

-----------------------------------------------------------------------------
\* config/yaml_save.c, config/yaml_load.c: the file keeps neither the room of
\* an array nor the time of the last check.

EmitGroup(g) == [id |-> g.id, enable |-> g.enable, rules |-> g.rules]
EmitSubscription(s) == [s EXCEPT !.lastCheck = 0]

Persist(a) ==
    [hasGroups |-> TRUE, groups |-> Each(EmitGroup, a.groups),
     hasSubs |-> TRUE, subs |-> Each(EmitSubscription, a.subs)]

\* mt_config_load_buffer: group identifiers and those of a group's rules must
\* not repeat.
Loads(c) ==
    c # Missing /\ c # Torn /\ Distinct(c.groups) /\ \A g \in Range(c.groups) : Distinct(g.rules)

LoadGroup(g) ==
    [id |-> g.id, enable |-> g.enable, rules |-> g.rules, cap |-> Grown(Len(g.rules))]
LoadedGroups(c) == IF c.hasGroups THEN Each(LoadGroup, c.groups) ELSE <<>>
LoadedSubs(c) == IF c.hasSubs THEN c.subs ELSE <<>>

-----------------------------------------------------------------------------
\* The HTTP handlers.

\* The handler runs to its end: outcomes are what it may have done; it saves
\* when it succeeded and was asked to.
Respond(op, outcomes, save) ==
    /\ up /\ wpc = "idle" /\ ops < MaxOps
    /\ \E r \in outcomes :
          /\ app' = r.app /\ faults' = r.faults
          /\ reply' = [op |-> op, err |-> r.err]
          /\ IF save /\ r.err = "ok" THEN SaveBegin(Persist(r.app))
             ELSE UNCHANGED fileVars
    /\ ops' = ops + 1
    /\ UNCHANGED <<up, now, kills>>

\* PUT /groups: all groups are disabled first, and stay so if the body is bad.
PutGroups(body, save) ==
    LET off == DisableGroups(app, Range(app.groups))
        used == Ids(app.groups) \cup Ids(body)
        new == [k \in DOMAIN body |->
                   GroupFromReq(body[k], Existing(app.groups, body[k]), used, k)]
        valid == \A q \in Range(body) : GroupReqValid(q, Existing(app.groups, q))
    IN  Respond("groups",
                IF valid THEN AddGroups(ClearGroups(off), new, faults)
                ELSE {Result(off, "inval", faults)}, save)

CreateGroup(q, save) ==
    Respond("groups",
            IF GroupReqValid(q, <<>>)
            THEN AddGroup(app, GroupFromReq(q, <<>>, Ids(app.groups), 1), faults)
            ELSE {Result(app, "inval", faults)}, save)

\* mt_ruleset_disable fails: the ruleset counts as disabled, what it held in
\* the kernel is there to stay.
Stuck(i) ==
    LET g == app.groups[i]
    IN  Faults(faults, IF g.id \in app.on /\ g.enable
                       THEN {Result([app EXCEPT !.on = @ \ {g.id}, !.stuck = @ \cup {g.id}],
                                    "io", faults + 1)}
                       ELSE {})

\* Mutant: the group is changed first and disabled afterwards.
PutGroupMovesFirst(i, q, save) ==
    LET new == Republish([app EXCEPT !.groups[i] = GroupFromReq(q, <<app.groups[i]>>, {}, 1)])
    IN  Respond("groups",
                {Result(IF app.groups[i].id \in app.on
                        THEN EnableGroups(DisableGroups(new, {new.groups[i]}), {new.groups[i]})
                        ELSE new, "ok", faults)}, save)

\* PUT /groups/{id}: disable, replace, enable again if it was.
PutGroup(i, q, save) ==
    LET off == DisableGroups(app, {app.groups[i]})
        new == Republish([off EXCEPT !.groups[i] =
                             GroupFromReq(q, <<app.groups[i]>>, {}, 1)])
        enabled == EnableGroups(new, {new.groups[i]})
        failed == IF new.groups[i].enable
                  THEN {Result(new, "io", faults + 1), Result(enabled, "io", faults + 1)}
                  ELSE {}
    IN  Respond("groups",
                Stuck(i) \cup
                IF ~GroupReqValid(q, <<app.groups[i]>>) THEN {Result(off, "inval", faults)}
                ELSE IF app.groups[i].id \in app.on
                THEN {Result(enabled, "ok", faults)} \cup Faults(faults, failed)
                ELSE {Result(new, "ok", faults)}, save)

DeleteGroup(i, save) ==
    Respond("groups",
            Stuck(i) \cup
            {Result(RemoveGroup(DisableGroups(app, {app.groups[i]}), i), "ok", faults)}, save)

\* The tail of the handlers of rules: publish, synchronise the set if the
\* group is enabled, save.
EditRules(i, rules, cap, save) ==
    LET new == Republish([app EXCEPT !.groups[i] = [@ EXCEPT !.rules = rules, !.cap = cap]])
    IN  Respond("groups",
                {Result(new, "ok", faults)} \cup
                Faults(faults, IF app.groups[i].enable /\ app.groups[i].id \in app.on
                               THEN {Result(new, "io", faults + 1)} ELSE {}), save)

\* PUT /groups/{id}/rules: an "id" that is no rule's is an error, and the new
\* array has room for exactly its elements.
PutRules(i, body, save) ==
    LET base == app.groups[i].rules
    IN  IF \A q \in Range(body) : q.id \in {NoId} \cup Ids(base)
        THEN EditRules(i, FromReqs(body, base), Len(body), save)
        ELSE Respond("groups", {Result(app, "inval", faults)}, save)

\* Mutant: the snapshot is not published.
CreateRuleUnpublished(i, q, save) ==
    LET base == app.groups[i].rules
    IN  Respond("groups",
                {Result([app EXCEPT !.groups[i].rules = @ \o FromReqs(<<q>>, base)],
                        "ok", faults)}, save)

\* POST: an "id" that is a rule's already is kept.
CreateRule(i, q, save) ==
    LET base == app.groups[i].rules
    IN  EditRules(i, base \o FromReqs(<<q>>, base),
                  GrowArray(app.groups[i].cap, Len(base)), save)

PutRule(i, j, q, save) ==
    EditRules(i, [app.groups[i].rules EXCEPT ![j].text = q.text, ![j].on = q.on],
              app.groups[i].cap, save)

DeleteRule(i, j, save) ==
    EditRules(i, RemoveAt(app.groups[i].rules, j), app.groups[i].cap, save)

PutSubscriptions(body, save) ==
    LET used == Ids(app.subs) \cup Ids(body)
        new == [k \in DOMAIN body |->
                   SubFromReq(body[k], Existing(app.subs, body[k]), used, k)]
        taken(k) == new[k].id = Zero \/ \E j \in 1 .. k - 1 : new[j].id = new[k].id
        unique == [k \in DOMAIN new |->
                      IF taken(k) THEN [new[k] EXCEPT !.id = RandomId(Ids(new), SubIds, k)]
                      ELSE new[k]]
    IN  Respond("subs",
                IF \A q \in Range(body) : q.url # "" /\ q.id # BadId
                THEN ReplaceSubscriptions(app, unique, faults)
                ELSE {Result(app, "inval", faults)}, save)

CreateSubscription(q, save) ==
    Respond("subs",
            IF q.url # "" /\ q.id # BadId
            THEN AddSubscription(app, SubFromReq(q, <<>>, Ids(app.subs), 1), faults)
            ELSE {Result(app, "inval", faults)}, save)

DeleteSubscription(id, save) ==
    Respond("subs",
            IF At(app.subs, id) = 0 THEN {Result(app, "notfound", faults)}
            ELSE RemoveSubscription(app, At(app.subs, id), faults), save)

\* POST /subscriptions/{id}/sync, with or without an address of its own; only
\* a change is saved.
SyncNow(i, override, list, save) ==
    LET url == IF override = "" THEN app.subs[i].url ELSE override
        outcomes == SyncSubscription(app, i, url, list, faults)
        changed == \E r \in outcomes : \/ r.app.subs[i].url # app.subs[i].url
                                       \/ r.app.subs[i].rules # app.subs[i].rules
    IN  Respond("sync", IF url = "" THEN {Result(app, "inval", faults)} ELSE outcomes,
                save /\ changed)

\* The server does not answer.
SyncUnanswered ==
    Respond("sync", Faults(faults, {Result(app, "upstream", faults + 1)}), FALSE)

Handler ==
    \E save \in BOOLEAN :
        \/ \E body \in GroupBodies : PutGroups(body, save)
        \/ \E q \in GroupReqs : CreateGroup(q, save)
        \/ \E i \in DOMAIN app.groups :
              \/ \E q \in GroupReqs : PutGroup(i, q, save)
              \/ DeleteGroup(i, save)
              \/ \E body \in RuleBodies : PutRules(i, body, save)
              \/ \E q \in RuleReqs : CreateRule(i, q, save)
              \/ \E j \in DOMAIN app.groups[i].rules :
                    \/ \E q \in RuleReqs : PutRule(i, j, q, save)
                    \/ DeleteRule(i, j, save)
        \/ \E body \in SubBodies : PutSubscriptions(body, save)
        \/ \E q \in SubReqs : CreateSubscription(q, save)
        \/ \E id \in Range(SubIds) : DeleteSubscription(id, save)
        \/ \E i \in DOMAIN app.subs, url \in {"", "v"}, list \in Fetched :
              SyncNow(i, url, list, save)
        \/ app.subs # <<>> /\ SyncUnanswered

-----------------------------------------------------------------------------
\* The timer, SIGHUP and the life of the process.

Due == {i \in DOMAIN app.subs : IsDue(app.subs[i], now)}

TickReady == up /\ wpc = "idle" /\ Due # {}

\* on_subscription_auto_update_timer, when something is due.  A failed rebuild
\* is saved too.
Tick ==
    /\ TickReady
    /\ \E answered \in SUBSET Due : \E list \in [answered -> Fetched] :
          LET f == faults + Cardinality(Due \ answered)
          IN  /\ f <= MaxFaults
              /\ \E r \in SyncDue(app, list, f) :
                    /\ app' = r.app /\ faults' = r.faults
                    /\ reply' = [op |-> "tick", err |-> r.err]
                    /\ IF \/ r.err # "ok"
                          \/ \E i \in answered : r.app.subs[i].rules # app.subs[i].rules
                       THEN SaveBegin(Persist(r.app))
                       ELSE UNCHANGED fileVars
    /\ UNCHANGED <<up, now, ops, kills>>

\* reload_config: a file that does not load changes nothing; groups are
\* replaced up to the first that fails, subscriptions as a whole.
Reload ==
    /\ up /\ wpc = "idle" /\ ops < MaxOps
    /\ LET c == file.data
           groups == IF c.hasGroups
                     THEN AddGroups(ClearGroups(app), LoadedGroups(c), faults)
                     ELSE {Result(app, "ok", faults)}
           both == IF c.hasSubs
                   THEN UNION {ReplaceSubscriptions(r.app, LoadedSubs(c), r.faults) : r \in groups}
                   ELSE groups
       IN  IF Loads(c)
           THEN \E r \in both : app' = r.app /\ faults' = r.faults
           ELSE UNCHANGED <<app, faults>>
    /\ ops' = ops + 1 /\ reply' = Quiet
    /\ UNCHANGED <<up, now, kills, fileVars>>

\* What a fresh process makes of groups and subscriptions.
Booted(groups, subs) ==
    LET a == [app EXCEPT !.groups = groups, !.subs = subs, !.cap = Grown(Len(subs)),
                         !.subrs = Each(RuntimeGroup, subs), !.snap = Build(groups, subs)]
    IN  Hold(EnableGroups(a, Range(groups)), Range(a.subrs))

\* mt_app_destroy: every ruleset is disabled and freed.
Destroyed(a) ==
    [Release(DisableGroups(a, Range(a.groups)), Range(a.subrs)) EXCEPT
        !.groups = <<>>, !.subs = <<>>, !.cap = 0, !.subrs = <<>>, !.snap = <<>>]

\* Mutant: a missing file is an error.
BootNeedsFile ==
    /\ ~up /\ Loads(file.data)
    /\ app' = Booted(LoadedGroups(file.data), LoadedSubs(file.data)) /\ up' = TRUE
    /\ reply' = Quiet
    /\ UNCHANGED <<now, ops, faults, kills, fileVars>>

\* main: no file is an empty configuration; one that does not load, or a
\* ruleset that cannot be enabled, is the end of the process.
Boot ==
    LET c == file.data
        new == IF c = Missing THEN Booted(<<>>, <<>>)
               ELSE Booted(LoadedGroups(c), LoadedSubs(c))
    IN  /\ ~up /\ (c = Missing \/ Loads(c))
        /\ \/ app' = new /\ up' = TRUE /\ UNCHANGED faults
           \/ /\ faults < MaxFaults /\ new.kernel # app.kernel
              /\ app' = Destroyed(new) /\ faults' = faults + 1 /\ UNCHANGED up
        /\ reply' = Quiet
        /\ UNCHANGED <<now, ops, kills, fileVars>>

\* SIGTERM: daemon_teardown.
Stop ==
    /\ up /\ wpc = "idle" /\ kills < MaxKills
    /\ app' = Destroyed(app) /\ up' = FALSE /\ kills' = kills + 1
    /\ reply' = Quiet
    /\ UNCHANGED <<now, ops, faults, fileVars>>

\* The process is gone and what it held in the kernel is not.
Gone ==
    app' = [Destroyed(app) EXCEPT !.kernel = app.kernel, !.stuck = app.kernel]

\* grow_array's users rely on it: an array has room for its elements however
\* it was made, by appending, by PUT /groups/{id}/rules or by
\* mt_app_replace_subscriptions.
ArraysFit ==
    /\ Len(app.subs) <= app.cap
    /\ \A g \in Range(app.groups) : Len(g.rules) <= g.cap

\* Killed at any time; what a process that has written past an array may also
\* come to.
Kill ==
    /\ up /\ (kills < MaxKills \/ ~ArraysFit)
    /\ FileKill /\ Gone /\ up' = FALSE /\ kills' = kills + 1
    /\ reply' = Quiet
    /\ UNCHANGED <<now, ops, faults>>

\* The power fails, and with it the kernel.
PowerLoss ==
    /\ kills < MaxKills
    /\ FilePowerLoss /\ kills' = kills + 1 /\ up' = FALSE
    /\ app' = [Destroyed(app) EXCEPT !.kernel = {}, !.stuck = {}]
    /\ reply' = Quiet
    /\ UNCHANGED <<now, ops, faults>>

Saving ==
    /\ up
    /\ \/ SaveStep /\ UNCHANGED faults
       \/ SaveFails /\ faults < MaxFaults /\ faults' = faults + 1
    /\ reply' = Quiet /\ UNCHANGED <<app, up, now, ops, kills>>

Install ==
    /\ edits < MaxEdits
    /\ \E c \in Files : Edit(c)
    /\ reply' = Quiet /\ UNCHANGED <<app, up, now, ops, faults, kills>>

Clock ==
    /\ now < MaxNow /\ wpc = "idle" /\ now' = now + 1
    /\ reply' = Quiet /\ UNCHANGED <<app, up, ops, faults, kills, fileVars>>

Init ==
    /\ \E c \in Files \cup {Missing} : FileInit(c)
    /\ app = [groups |-> <<>>, on |-> {}, subs |-> <<>>, cap |-> 0, subrs |-> <<>>,
              kernel |-> {}, stuck |-> {}, snap |-> <<>>]
    /\ up = FALSE /\ reply = Quiet
    /\ now = 1 /\ ops = 0 /\ faults = 0 /\ kills = 0

Next ==
    \/ Handler \/ Tick \/ Reload \/ Boot \/ Stop \/ Kill \/ PowerLoss
    \/ Saving \/ Install \/ Clock

\* What a Tick that leaves no trace would need.
TickIdles == \A i \in Due : \E list \in Fetched : Fetch(app.subs[i], list, now) = app.subs[i]

\* Weak fairness of Tick, which can be taken whenever TickReady holds; one that
\* leaves no trace counts too.
TickFairness ==
    \/ []<>~TickReady
    \/ []<><<reply'.op = "tick">>_vars
    \/ <>[](TickReady /\ TickIdles)

\* The event loop runs what is ready, the timer fires every minute, and the
\* service is started again when it ends.
Spec ==
    Init /\ [][Next]_vars
    /\ TickFairness /\ WF_vars(Boot) /\ WF_vars(Saving)

-----------------------------------------------------------------------------
TypeOK ==
    /\ FileTypeOK
    /\ up \in BOOLEAN /\ now \in 1 .. MaxNow /\ ops \in 0 .. MaxOps
    /\ faults \in 0 .. MaxFaults /\ kills \in Nat
    /\ app.on \subseteq Ids(app.groups) /\ app.stuck \subseteq app.kernel

\* DNS answers are matched against the current configuration: whatever edited
\* it, by whatever path, successful or not, the published snapshot is the one
\* that mt_ruleset_snapshot_build would make of it now.
SnapshotFresh == up => app.snap = Build(app.groups, app.subs)

\* What is held in the kernel is exactly what the enabled rulesets ask for,
\* plus what a failed removal or a killed process left, whatever order groups
\* were edited, switched, disabled and removed in; and the rulesets of
\* subscriptions are copies of the configuration, all of them or (after a
\* failed rollback) none.
KernelExact ==
    LET held == (app.on \cap Wanted(Range(app.groups))) \cup Wanted(Range(app.subrs))
    IN  /\ app.kernel = held \cup app.stuck
        /\ app.subrs \in {<<>>, Each(RuntimeGroup, app.subs)}

\* An operation on subscriptions that fails changes nothing of the
\* configuration, not even the order, nor what is published, also when it
\* failed half way through the rulesets or when the rollback failed as well.
RollbackExact ==
    [][reply'.op \in {"subs", "sync", "tick"} /\ reply'.err # "ok" =>
          /\ app'.subs = app.subs /\ app'.snap = app.snap
          /\ app'.groups = app.groups]_vars

\* A refresh keeps the identity and the switch of every rule that stays in the
\* list and gives no identifier twice (mt_sub_refresh_rules), and it comes to
\* rest: the same rules fetched again, in whatever order, are no change, so the
\* timer does not tear the kernel sets down on every tick.
RefreshStable ==
    [][reply'.op \in {"sync", "tick"} =>
          \A i \in DOMAIN app.subs :
              LET old == app.subs[i].rules
                  new == app'.subs[i].rules
                  texts(rules) == {r.text : r \in Range(rules)}
              IN  new # old =>
                    /\ Cardinality(Ids(new)) = Len(new)
                    /\ \A r \in Range(new) : r.text \in texts(old) => r \in Range(old)
                    /\ \A list \in Fetched :
                          Range(list) \ {Comment} = texts(new)
                            => SameRules(new, Fetch(app'.subs[i], list, now).rules)]_vars

\* A subscription that is due is checked, however fetches and rebuilds fail
\* for a while, unless it is edited or the daemon ends first.
DueIsSynced == \A i \in 1 .. 2 : (up /\ i \in Due) ~> (~up \/ i \notin Due)

\* A rule identifier is repeated in a group of the file.
RuleIdTwice(c) ==
    c # Missing /\ c # Torn /\ \E g \in Range(c.groups) : ~Distinct(g.rules)

\* The daemon comes up again after every stop, kill or power failure, whatever
\* it saved before and at whatever step of a save it ended: unless a request
\* gave a new rule the id of another (handle_create_rule keeps it, and
\* mt_config_load_buffer refuses the saved file).
ComesUp == ~up ~> (up \/ RuleIdTwice(file.data))

\* Without that exception: "daemon continues with defaults"
\* (compatibility-contract.md:31).  The code does not promise it;
\* ConfigRestart.cfg shows how it fails.
AlwaysComesUp == ~up ~> up
=============================================================================
