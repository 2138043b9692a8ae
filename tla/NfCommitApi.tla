----------------------------- MODULE NfCommitApi ----------------------------
(***************************************************************************)
(* NfCommit with the group handlers of api/groups.c added.  PUT /groups,   *)
(* PUT /groups/{id} and DELETE /groups/{id} call mt_ruleset_disable and    *)
(* mt_ruleset_enable directly: these drive both iptables engines on the    *)
(* loop thread without taking nf_mu, so their steps interleave with a      *)
(* pass, and their commits see the token the pass has attached.            *)
(***************************************************************************)
EXTENDS NfCommit

VARIABLES target,   \* the group a handler is working on
          again     \* the handler will enable it again

handlerVars == <<target, again>>
apiVars == <<vars, handlerVars>>

ApiTypeOK ==
    /\ target \in Groups /\ again \in BOOLEAN
    /\ lpc \in LoopPc \cup {"off4", "off6", "on4", "on6"}

ApiInit == Init /\ target \in Groups /\ again = FALSE

\* mt_ruleset_disable clears the flags first, then mt_ipset_to_link_disable
\* deletes the rules of one family after the other.  PUT of a group enables it
\* again afterwards; DELETE, PUT of all groups and a PUT whose body is rejected
\* do not.
Disable ==
    /\ lpc = "idle" /\ edits < MaxEdits
    /\ edits' = edits + 1
    /\ \E g \in Groups \cap registry : target' = g /\ registry' = registry \ {g}
    /\ again' \in BOOLEAN
    /\ lpc' = "off4"
    /\ UNCHANGED <<committerVars, cancel, nf_mu, attached, passVars, tableVars,
                   envVars, faults>>

\* delete_iptables_rules: the error is remembered, the second family still
\* done.  mt_ipset_to_link_clear_if_disabled, which mt_ruleset_enable calls
\* first, repeats a deletion that has just been made and is left out.
DeleteRules ==
    /\ lpc \in {"off4", "off6"}
    /\ LET f == IF lpc = "off4" THEN "ipt4" ELSE "ipt6"
       IN  /\ reg' = [reg EXCEPT ![f] = Staged({target}, "delete", @)]
           /\ \E outcome \in Results : WriteTables(f, reg'[f], outcome)
    /\ lpc' = CASE lpc = "off4" -> "off6"
                [] lpc = "off6" /\ again -> "on4"
                [] OTHER -> "idle"
    /\ UNCHANGED <<committerVars, cancel, nf_mu, attached, passVars, registry,
                   envVars, edits, handlerVars>>

\* insert_iptables_rules of one family, then the other: only at the end is the
\* group visible to mt_ruleset_prepare_iptables.  A failure in either family
\* tears both down again.
InsertRules ==
    /\ lpc \in {"on4", "on6"}
    /\ LET f == IF lpc = "on4" THEN "ipt4" ELSE "ipt6"
       IN  /\ reg' = [reg EXCEPT ![f] = Staged({target}, "override", @)]
           /\ \E outcome \in Results :
                 /\ WriteTables(f, reg'[f], outcome)
                 /\ lpc' = CASE outcome # "ok" -> "off4"
                             [] outcome = "ok" /\ lpc = "on4" -> "on6"
                             [] OTHER -> "idle"
                 /\ again' = (lpc' = "on6")
    /\ registry' = IF lpc' = "idle" THEN registry \cup {target} ELSE registry
    /\ UNCHANGED <<committerVars, cancel, nf_mu, attached, passVars, envVars, edits,
                   target>>

HandlerStep == DeleteRules \/ InsertRules

ApiNext == (Next /\ UNCHANGED handlerVars) \/ Disable \/ HandlerStep

ApiSpec ==
    /\ ApiInit /\ [][ApiNext]_apiVars
    /\ WF_apiVars(CommitterStep /\ UNCHANGED handlerVars)
    /\ WF_apiVars((LoopStep /\ UNCHANGED handlerVars) \/ HandlerStep)

-----------------------------------------------------------------------------
\* Even with handlers that bypass nf_mu, shutdown completes and every hook
\* is answered by a pass that runs to its end or by the shutdown: the
\* handlers hold no lock and the committer never waits for them.
HookRunsAPass ==
    pending ~> (stopping \/ (cpc = "wait" /\ ~pending))

\* D-63: "The outcome therefore depends only on the current group set": when
\* the committer sleeps with nothing owed and no handler is at work, the
\* kernel agrees with the registry.
OutcomeDependsOnGroupSet ==
    Quiescent /\ lpc = "idle" => \A f \in Families : Covered(f)
=============================================================================
