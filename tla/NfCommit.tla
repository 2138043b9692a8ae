------------------------------ MODULE NfCommit ------------------------------
(***************************************************************************)
(* The netfilter committer of Keenetic builds (netfilter/committer.c), its *)
(* cancellation token (util/cancel.c), and the two threads that meet in    *)
(* api/app.c: the committer thread, which rebuilds our iptables chains     *)
(* from the ruleset registry, and the loop thread, which serves the        *)
(* netfilter.d hook, edits the registry and finally stops the committer.   *)
(*                                                                         *)
(* Every critical section of mt_nfcommit.mu is one step, and so is every   *)
(* call on the token, which is serialised by its own mutex; nf_mu, held    *)
(* across many steps, is the variable nf_mu.  A condition-variable wait is *)
(* a guard: every signal is sent inside the section that changes the       *)
(* predicate.  An owner is anything that has chains in the tables: a group *)
(* or subscription ruleset, or the DNS port remap.  A chain and the jump   *)
(* to it stand or fall together here.                                      *)
(***************************************************************************)
EXTENDS Integers, FiniteSets

CONSTANTS Owners,      \* rulesets that may exist, and the port remap
          Remap,       \* the port remap: enabled for the whole run
          Tables,      \* iptables tables, each written atomically
          NatTable,    \* the only table in which the remap has a chain
          DelayMs,     \* initial settle delay
          MaxDelayMs,  \* ceiling of the backoff
          MaxWipes,    \* bound: firmware rewrites in a behaviour
          MaxEdits,    \* bound: entries by the loop thread, and edits, in a behaviour
          MaxFaults    \* bound: iptables runs that fail on their own

ASSUME NfAssumption ==
    /\ Remap \in Owners
    /\ NatTable \in Tables
    /\ DelayMs \in Nat \ {0}
    /\ MaxDelayMs \in Nat
    /\ DelayMs <= MaxDelayMs
    /\ MaxWipes \in Nat
    /\ MaxEdits \in Nat
    /\ MaxFaults \in Nat

Families == {"ipt4", "ipt6"}
Groups == Owners \ {Remap}
Chains == {c \in Tables \X Owners : c[2] = Remap => c[1] = NatTable}
ChainsOf(S) == {c \in Chains : c[2] \in S}

\* How the engine has a chain registered: not at all, as an override chain
\* (written whole) or for deletion.
Kind == {"none", "override", "delete"}
Results == {"ok", "canceled", "again", "io"}

CommitterPc == {"wait", "settle", "begin", "clear", "enter", "save", "clean",
                "prepare", "stage", "commit", "leave", "end", "rearm", "done"}
LoopPc == {"idle", "request_raise", "enter_raise", "enter_lock", "edit",
           "stop_raise", "join", "teardown", "stopped", "stopped_dirty"}

VARIABLES
    stopping, pending, running,  \* struct mt_nfcommit, under mt_nfcommit.mu
    cancel,                      \* the token: flag and pipe byte move together
    nf_mu,                       \* who holds the application's netfilter mutex
    attached,                    \* the token is set on both engines
    cpc, fam, res, delay,        \* committer thread: where, family, error, backoff
    seen,                        \* owners the pass found enabled in the registry
    lpc,                         \* loop thread
    registry,                    \* owners enabled in the registry
    reg,                         \* per family: what each chain is registered as
    kernel,                      \* per family: our chains present in the kernel
    hookOwed,                    \* the firmware has yet to call the netfilter.d hook
    wipes, edits, faults         \* how much of each bound is used up

committerVars == <<stopping, pending, running>>
passVars == <<cpc, fam, res, delay, seen>>
envVars == <<hookOwed, wipes>>
tableVars == <<reg, kernel>>
vars == <<committerVars, cancel, nf_mu, attached, passVars, lpc, registry,
          tableVars, envVars, edits, faults>>

TypeOK ==
    /\ stopping \in BOOLEAN /\ pending \in BOOLEAN /\ running \in BOOLEAN
    /\ cancel \in BOOLEAN /\ attached \in BOOLEAN /\ hookOwed \in BOOLEAN
    /\ nf_mu \in {"free", "loop", "committer"}
    /\ cpc \in CommitterPc /\ fam \in Families /\ res \in Results
    /\ delay \in DelayMs .. MaxDelayMs
    /\ seen \subseteq Owners /\ registry \subseteq Owners
    /\ lpc \in LoopPc
    /\ reg \in [Families -> [Chains -> Kind]]
    /\ kernel \in [Families -> SUBSET Chains]
    /\ wipes \in 0 .. MaxWipes /\ edits \in 0 .. MaxEdits
    /\ faults \in 0 .. MaxFaults

\* The committer is started last: the base chains, the port remap and every
\* ruleset of the configuration are already written.
Init ==
    /\ stopping = FALSE /\ pending = FALSE /\ running = FALSE
    /\ cancel = FALSE /\ nf_mu = "free" /\ attached = FALSE
    /\ cpc = "wait" /\ fam = "ipt4" /\ res = "ok" /\ delay = DelayMs /\ seen = {}
    /\ lpc = "idle"
    /\ registry \in {S \cup {Remap} : S \in SUBSET Groups}
    /\ reg = [f \in Families |->
                [c \in Chains |-> IF c[2] \in registry THEN "override" ELSE "none"]]
    /\ kernel = [f \in Families |-> ChainsOf(registry)]
    /\ hookOwed = FALSE /\ wipes = 0 /\ edits = 0 /\ faults = 0

-----------------------------------------------------------------------------
\* One iptables-restore, and the registrations it is compiled from.

\* The tables T of kernel state k after writing registrations r to them.
Written(k, r, T) ==
    {c \in k : ~(c[1] \in T /\ r[c] = "delete")}
        \cup {c \in Chains : c[1] \in T /\ r[c] = "override"}

\* clean_one: every chain of ours that is in the kernel is to be deleted.
DeletesFor(k, r) == [c \in Chains |-> IF c \in k THEN "delete" ELSE r[c]]

Staged(S, kind, r) == [c \in Chains |-> IF c[2] \in S THEN kind ELSE r[c]]

\* An attached token cancels the child before or while it writes; a child
\* that fails on its own has written some of its tables.
WriteTables(f, r, outcome) ==
    \/ /\ outcome = "ok"
       /\ ~(attached /\ cancel)
       /\ kernel' = [kernel EXCEPT ![f] = Written(@, r, Tables)]
       /\ UNCHANGED faults
    \/ /\ outcome = "canceled"
       /\ attached /\ cancel
       /\ \E T \in SUBSET Tables : kernel' = [kernel EXCEPT ![f] = Written(@, r, T)]
       /\ UNCHANGED faults
    \/ /\ outcome \in {"again", "io"}
       /\ ~(attached /\ cancel)
       /\ faults < MaxFaults
       /\ faults' = faults + 1
       /\ \E T \in SUBSET Tables : kernel' = [kernel EXCEPT ![f] = Written(@, r, T)]

-----------------------------------------------------------------------------
\* The committer thread: committer_main.

\* Mutant: the predicate of the wait forgets the stop.
WaitNoStop ==
    /\ cpc = "wait"
    /\ pending
    /\ cpc' = IF stopping THEN "done" ELSE "settle"
    /\ UNCHANGED <<committerVars, cancel, nf_mu, attached, fam, res, delay, seen,
                   lpc, registry, tableVars, envVars, edits, faults>>

Wait ==
    /\ cpc = "wait"
    /\ pending \/ stopping
    /\ cpc' = IF stopping THEN "done" ELSE "settle"
    /\ UNCHANGED <<committerVars, cancel, nf_mu, attached, fam, res, delay, seen,
                   lpc, registry, tableVars, envVars, edits, faults>>

\* settle: the timed wait ends by timeout, or early because of a stop.
Settle ==
    /\ cpc = "settle"
    /\ cpc' = IF stopping THEN "done" ELSE "begin"
    /\ UNCHANGED <<committerVars, cancel, nf_mu, attached, fam, res, delay, seen,
                   lpc, registry, tableVars, envVars, edits, faults>>

Begin ==
    /\ cpc = "begin"
    /\ IF stopping
         THEN cpc' = "done" /\ UNCHANGED <<pending, running>>
         ELSE cpc' = "clear" /\ pending' = FALSE /\ running' = TRUE
    /\ UNCHANGED <<stopping, cancel, nf_mu, attached, fam, res, delay, seen,
                   lpc, registry, tableVars, envVars, edits, faults>>

\* mt_cancel_clear, called after mt_nfcommit.mu has been released.
Clear ==
    /\ cpc = "clear"
    /\ cancel' = FALSE
    /\ cpc' = "enter"
    /\ UNCHANGED <<committerVars, nf_mu, attached, fam, res, delay, seen,
                   lpc, registry, tableVars, envVars, edits, faults>>

\* mt_app_rebuild_netfilter takes nf_mu and attaches the token.
Enter ==
    /\ cpc = "enter"
    /\ nf_mu = "free"
    /\ nf_mu' = "committer" /\ attached' = TRUE
    /\ cpc' = "save" /\ fam' = "ipt4" /\ res' = "ok"
    /\ UNCHANGED <<committerVars, cancel, delay, seen, lpc, registry,
                   tableVars, envVars, edits, faults>>

\* clean_one goes on to the second family whatever became of the first.
AfterClean(outcome) ==
    /\ res' = IF res # "ok" THEN res ELSE outcome
    /\ IF fam = "ipt4"
         THEN fam' = "ipt6" /\ cpc' = "save"
         ELSE fam' = "ipt4" /\ cpc' = IF res' = "ok" THEN "prepare" ELSE "leave"

\* clean_one reads the table and registers our chains for deletion...
Save ==
    /\ cpc = "save"
    /\ \/ /\ ~cancel
          /\ reg' = [reg EXCEPT ![fam] = DeletesFor(kernel[fam], @)]
          /\ cpc' = "clean"
          /\ UNCHANGED <<fam, res, faults>>
       \/ /\ cancel
          /\ AfterClean("canceled")
          /\ UNCHANGED <<reg, faults>>
       \/ /\ ~cancel /\ faults < MaxFaults
          /\ faults' = faults + 1
          /\ \E e \in {"again", "io"} : AfterClean(e)
          /\ UNCHANGED reg
    /\ UNCHANGED <<committerVars, cancel, nf_mu, attached, delay, seen, lpc,
                   registry, kernel, envVars, edits>>

\* ...and commits: whatever else is registered is written by this commit too.
Clean ==
    /\ cpc = "clean"
    /\ \E outcome \in Results :
          /\ WriteTables(fam, reg[fam], outcome)
          /\ AfterClean(outcome)
    /\ UNCHANGED <<committerVars, cancel, nf_mu, attached, delay, seen, lpc,
                   registry, reg, envVars, edits>>

\* The pass checks the token, then walks the registry.
Prepare ==
    /\ cpc = "prepare"
    /\ IF cancel
         THEN res' = "canceled" /\ cpc' = "leave" /\ UNCHANGED seen
         ELSE seen' = registry /\ cpc' = "stage" /\ UNCHANGED res
    /\ UNCHANGED <<committerVars, cancel, nf_mu, attached, fam, delay, lpc,
                   registry, tableVars, envVars, edits, faults>>

\* Every owner found enabled has its chains registered in both engines.
Stage ==
    /\ cpc = "stage"
    /\ reg' = [f \in Families |-> Staged(seen, "override", reg[f])]
    /\ IF cancel
         THEN res' = "canceled" /\ cpc' = "leave"
         ELSE cpc' = "commit" /\ UNCHANGED res
    /\ UNCHANGED <<committerVars, cancel, nf_mu, attached, fam, delay, seen, lpc,
                   registry, kernel, envVars, edits, faults>>

Commit ==
    /\ cpc = "commit"
    /\ \E outcome \in Results :
          /\ WriteTables(fam, reg[fam], outcome)
          /\ res' = outcome
          /\ IF outcome = "ok" /\ fam = "ipt4"
               THEN fam' = "ipt6" /\ UNCHANGED cpc
               ELSE cpc' = "leave" /\ UNCHANGED fam
    /\ UNCHANGED <<committerVars, cancel, nf_mu, attached, delay, seen, lpc,
                   registry, reg, envVars, edits>>

Leave ==
    /\ cpc = "leave"
    /\ attached' = FALSE /\ nf_mu' = "free"
    /\ cpc' = "end"
    /\ UNCHANGED <<committerVars, cancel, fam, res, delay, seen, lpc, registry,
                   tableVars, envVars, edits, faults>>

\* Mutant: the end of a pass forgets a request that came in meanwhile.
EndForgets ==
    /\ cpc = "end"
    /\ running' = FALSE /\ pending' = FALSE
    /\ cpc' = CASE stopping -> "done"
                [] ~stopping /\ res = "ok" -> "wait"
                [] OTHER -> "rearm"
    /\ UNCHANGED <<stopping, cancel, nf_mu, attached, fam, res, delay, seen,
                   lpc, registry, tableVars, envVars, edits, faults>>

\* Mutant: a pass that succeeded is repeated as well.
EndAlwaysRearms ==
    /\ cpc = "end"
    /\ running' = FALSE
    /\ cpc' = IF stopping THEN "done" ELSE "rearm"
    /\ UNCHANGED <<stopping, pending, cancel, nf_mu, attached, fam, res, delay, seen,
                   lpc, registry, tableVars, envVars, edits, faults>>

\* The pass is over: a stop is noticed first, then only hard errors back off.
End ==
    /\ cpc = "end"
    /\ running' = FALSE
    /\ cpc' = CASE stopping -> "done"
                [] ~stopping /\ res = "ok" -> "wait"
                [] OTHER -> "rearm"
    /\ delay' = CASE stopping -> delay
                  [] ~stopping /\ res # "io" -> DelayMs
                  [] OTHER -> IF delay * 2 < MaxDelayMs THEN delay * 2 ELSE MaxDelayMs
    /\ UNCHANGED <<stopping, pending, cancel, nf_mu, attached, fam, res, seen, lpc,
                   registry, tableVars, envVars, edits, faults>>

\* Mutant: a cancelled or failed pass is not run again.
RearmLost ==
    /\ cpc = "rearm"
    /\ cpc' = "wait"
    /\ UNCHANGED <<committerVars, cancel, nf_mu, attached, fam, res, delay, seen,
                   lpc, registry, tableVars, envVars, edits, faults>>

Rearm ==
    /\ cpc = "rearm"
    /\ pending' = TRUE
    /\ cpc' = "wait"
    /\ UNCHANGED <<stopping, running, cancel, nf_mu, attached, fam, res, delay, seen,
                   lpc, registry, tableVars, envVars, edits, faults>>

CommitterStep ==
    \/ Wait \/ Settle \/ Begin \/ Clear \/ Enter \/ Save \/ Clean \/ Prepare
    \/ Stage \/ Commit \/ Leave \/ End \/ Rearm

-----------------------------------------------------------------------------
\* The loop thread.

\* The hook reaches mt_app_force_commit_iptables, hence mt_nfcommit_request.
Request ==
    /\ lpc = "idle"
    /\ hookOwed
    /\ hookOwed' = FALSE
    /\ pending' = TRUE
    /\ lpc' = IF running THEN "request_raise" ELSE "idle"
    /\ UNCHANGED <<stopping, running, cancel, nf_mu, attached, passVars, registry,
                   tableVars, wipes, edits, faults>>

\* app_nf_enter: mt_nfcommit_interrupt, then the lock.
NfEnter ==
    /\ lpc = "idle"
    /\ edits < MaxEdits
    /\ edits' = edits + 1
    /\ lpc' = IF running THEN "enter_raise" ELSE "enter_lock"
    /\ UNCHANGED <<committerVars, cancel, nf_mu, attached, passVars, registry,
                   tableVars, envVars, faults>>

\* mt_cancel_raise, after mt_nfcommit.mu has been released.
Raise ==
    /\ lpc \in {"request_raise", "enter_raise", "stop_raise"}
    /\ cancel' = TRUE
    /\ lpc' = CASE lpc = "request_raise" -> "idle"
                [] lpc = "enter_raise" -> "enter_lock"
                [] lpc = "stop_raise" -> "join"
    /\ UNCHANGED <<committerVars, nf_mu, attached, passVars, registry, tableVars,
                   envVars, edits, faults>>

\* Mutant: the loop thread does not wait for the committer.
NfLockNoWait ==
    /\ lpc = "enter_lock"
    /\ lpc' = "edit"
    /\ UNCHANGED <<committerVars, cancel, nf_mu, attached, passVars,
                   registry, tableVars, envVars, edits, faults>>

NfLock ==
    /\ lpc = "enter_lock"
    /\ nf_mu = "free"
    /\ nf_mu' = "loop"
    /\ lpc' = "edit"
    /\ UNCHANGED <<committerVars, cancel, attached, passVars, registry, tableVars,
                   envVars, edits, faults>>

\* mt_ruleset_enable / mt_ruleset_disable of one group, with the commits of
\* both families.  A failed enable is rolled back by a disable; a failed
\* disable still leaves the registry, and its chains stay registered for
\* deletion.
SetGroup(g, on) ==
    \/ /\ registry' = IF on THEN registry \cup {g} ELSE registry \ {g}
       /\ reg' = [f \in Families |->
                    Staged({g}, IF on THEN "override" ELSE "delete", reg[f])]
       /\ kernel' = [f \in Families |-> Written(kernel[f], reg'[f], Tables)]
       /\ UNCHANGED faults
    \/ /\ faults < MaxFaults
       /\ faults' = faults + 1
       /\ registry' = registry \ {g}
       /\ reg' = [f \in Families |-> Staged({g}, "delete", reg[f])]
       /\ \E T, U \in [Families -> SUBSET Tables] :
             LET tried(f) == IF on THEN Written(kernel[f], Staged({g}, "override", reg[f]), T[f])
                                   ELSE kernel[f]
             IN  kernel' = [f \in Families |-> Written(tried(f), reg'[f], U[f])]

\* One change of the registry made under the lock.
Edit ==
    /\ lpc = "edit"
    /\ edits < MaxEdits
    /\ edits' = edits + 1
    /\ \E g \in Groups : SetGroup(g, g \notin registry)
    /\ UNCHANGED <<committerVars, cancel, nf_mu, attached, passVars, lpc, envVars>>

NfLeave ==
    /\ lpc = "edit"
    /\ nf_mu' = "free"
    /\ lpc' = "idle"
    /\ UNCHANGED <<committerVars, cancel, attached, passVars, registry, tableVars,
                   envVars, edits, faults>>

\* daemon_teardown begins with mt_nfcommit_stop...
Stop ==
    /\ lpc = "idle"
    /\ stopping' = TRUE
    /\ lpc' = "stop_raise"
    /\ UNCHANGED <<pending, running, cancel, nf_mu, attached, passVars, registry,
                   tableVars, envVars, edits, faults>>

Join ==
    /\ lpc = "join"
    /\ cpc = "done"
    /\ lpc' = "teardown"
    /\ UNCHANGED <<committerVars, cancel, nf_mu, attached, passVars, registry,
                   tableVars, envVars, edits, faults>>

\* Mutant: the port remap is not disabled.
TeardownKeepsRemap ==
    /\ lpc = "teardown"
    /\ registry' = {}
    /\ reg' = [f \in Families |-> Staged(registry \ {Remap}, "delete", reg[f])]
    /\ kernel' = [f \in Families |-> Written(kernel[f], reg'[f], Tables)]
    /\ lpc' = "stopped"
    /\ UNCHANGED <<committerVars, cancel, nf_mu, attached, passVars, envVars, edits, faults>>

\* ...and goes on to disable every ruleset and the port remap.  If one of
\* these commits fails, something of ours may stay behind.
Teardown ==
    /\ lpc = "teardown"
    /\ registry' = {}
    /\ reg' = [f \in Families |-> Staged(registry, "delete", reg[f])]
    /\ \/ /\ kernel' = [f \in Families |-> Written(kernel[f], reg'[f], Tables)]
          /\ lpc' = "stopped"
          /\ UNCHANGED faults
       \/ /\ faults < MaxFaults
          /\ faults' = faults + 1
          /\ lpc' = "stopped_dirty"
          /\ UNCHANGED kernel
    /\ UNCHANGED <<committerVars, cancel, nf_mu, attached, passVars, envVars, edits>>

LoopStep == Request \/ Raise \/ NfLock \/ NfLeave \/ Join \/ Teardown

-----------------------------------------------------------------------------
\* The firmware replaces some tables whole, then runs the hook.

Wipe ==
    /\ wipes < MaxWipes
    /\ wipes' = wipes + 1
    /\ hookOwed' = TRUE
    /\ \E W \in [Families -> SUBSET Tables] :
          kernel' = [f \in Families |-> {c \in kernel[f] : c[1] \notin W[f]}]
    /\ UNCHANGED <<committerVars, cancel, nf_mu, attached, passVars, lpc, registry,
                   reg, edits, faults>>

Terminated == lpc \in {"stopped", "stopped_dirty"} /\ UNCHANGED vars

Next == CommitterStep \/ LoopStep \/ NfEnter \/ Edit \/ Stop \/ Wipe \/ Terminated

\* Both threads keep running; nothing makes the environment edit, stop or wipe.
Spec == Init /\ [][Next]_vars /\ WF_vars(CommitterStep) /\ WF_vars(LoopStep)
-----------------------------------------------------------------------------
\* Properties.

\* The tables hold what the registry asks for; anything more is already
\* registered for deletion, so that the next commit removes it.
Covered(f) ==
    /\ ChainsOf(registry) \subseteq kernel[f]
    /\ \A c \in kernel[f] \ ChainsOf(registry) : reg[f][c] = "delete"

\* The committer sleeps with nothing owed and no hook is on its way.
Quiescent == cpc = "wait" /\ ~pending /\ ~hookOwed /\ ~stopping

\* No rewrite of the tables is ever forgotten: whenever the committer goes
\* back to sleep with nothing pending, whatever requests, edits, aborts and
\* failures came in between, the kernel agrees with the registry
\* (committer_main's hand-over of pending, running and the re-arm).
Converged == Quiescent => \A f \in Families : Covered(f)

\* mt_app_rebuild_netfilter attaches the token for exactly the time the
\* committer owns nf_mu, so a commit the loop thread makes under the lock can
\* never be cancelled by a hook.
TokenOnlyDuringPass ==
    /\ attached <=> nf_mu = "committer"
    /\ nf_mu = "loop" => lpc = "edit"
    /\ nf_mu = "committer" <=> cpc \in {"save", "clean", "prepare", "stage", "commit", "leave"}

\* The registry is not rewritten while a rebuild is in flight: what the pass
\* read from it is what it still says when the pass lets go of nf_mu.
RegistryStableDuringPass ==
    [][nf_mu = "committer" => registry' = registry]_vars

\* After an orderly daemon_teardown, with no commit of it failing, none of our
\* chains is left in the kernel, whatever the last, aborted pass had written.
TeardownLeavesNothing == lpc = "stopped" => \A f \in Families : kernel[f] = {}

\* Every hook is answered: the tables agree with the registry again, unless
\* the daemon is shutting down.
HookServed ==
    (hookOwed \/ pending) ~> (stopping \/ \A f \in Families : Covered(f))

\* Once edits, rewrites and failures cease the committer comes to rest with
\* the tables as the registry asks, and stays there.
ComesToRest ==
    <>[](stopping \/ (Quiescent /\ \A f \in Families : Covered(f)))

\* mt_nfcommit_stop returns: the committer always reaches its exit and the
\* loop thread gets out of the join.
StopTerminates == stopping ~> lpc \in {"stopped", "stopped_dirty"}

\* mt_nfcommit_stop "Unblocks a rebuild parked in poll()" and daemon_teardown
\* "does not wait out a full rebuild": once the token has been raised for a
\* stop, no pass runs to its successful end any more.
StopAbortsPass ==
    [][lpc = "join" /\ cpc # "leave" /\ cpc' = "leave" => res' # "ok"]_vars
=============================================================================
