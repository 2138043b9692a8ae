--------------------------- MODULE NfCommitProofs ---------------------------
(***************************************************************************)
(* Proofs about NfCommit, for every set of owners and tables and every     *)
(* bound.  The argument: between two passes the engine's registrations     *)
(* never ask for less than the registry does unless a pass is still owed   *)
(* (RegInv); what a firmware rewrite removed is missing only while a hook, *)
(* a request or an unfinished pass is outstanding (KernelInv); and nothing *)
(* foreign to the registry survives that is not already registered for     *)
(* deletion (LeftoverInv).                                                 *)
(***************************************************************************)
EXTENDS NfCommit, TLAPS

InPass == {"save", "clean", "prepare", "stage", "commit", "leave"}

\* A pass is owed or under way and has not yet staged every chain for good.
Debt ==
    \/ pending
    \/ stopping
    \/ cpc \in {"clear", "enter", "save", "clean", "prepare", "stage", "rearm"}
    \/ cpc \in {"leave", "end"} /\ res # "ok"

\* Where the threads can be relative to one another.
ControlInv ==
    /\ attached <=> nf_mu = "committer"
    /\ nf_mu = "loop" <=> lpc = "edit"
    /\ nf_mu = "committer" <=> cpc \in InPass
    /\ cpc \in {"prepare", "stage", "commit"} => res = "ok"
    /\ cpc \in {"prepare", "stage"} => fam = "ipt4"
    /\ cpc = "stage" => seen = registry
    /\ cpc \in {"settle", "begin"} => pending \/ stopping
    /\ lpc \in {"teardown", "stopped", "stopped_dirty"} => cpc = "done"
    /\ cpc = "done" => stopping

RegInv ==
    Debt \/ \A f \in Families : \A c \in ChainsOf(registry) : reg[f][c] = "override"

\* While the pass writes ipt4 neither family need be complete, while it writes
\* ipt6 only that one.
KernelInv ==
    \A f \in Families :
        \/ ChainsOf(registry) \subseteq kernel[f]
        \/ Debt \/ hookOwed
        \/ cpc = "commit" /\ (fam = "ipt4" \/ f = "ipt6")

LeftoverInv ==
    \A f \in Families : \A c \in Chains :
        /\ reg[f][c] = "override" => c[2] \in registry
        /\ c \in kernel[f] => c[2] \in registry \/ reg[f][c] = "delete"

IInv ==
    /\ TypeOK /\ ControlInv /\ RegInv /\ KernelInv /\ LeftoverInv
    /\ TeardownLeavesNothing

-----------------------------------------------------------------------------
\* Lemmas about one iptables-restore.

\* Writing tables touches only our own chains.
LEMMA WrittenType ==
    ASSUME NEW k \in SUBSET Chains, NEW r, NEW T
    PROVE  Written(k, r, T) \in SUBSET Chains
  BY DEF Written

\* A chain leaves the kernel only if it is registered for deletion.
LEMMA WrittenKeeps ==
    ASSUME NEW k, NEW r, NEW T, NEW c \in k, r[c] # "delete"
    PROVE  c \in Written(k, r, T)
  BY DEF Written

\* A chain enters the kernel only as a registered override chain.
LEMMA WrittenOnly ==
    ASSUME NEW k, NEW r, NEW T, NEW c \in Written(k, r, T)
    PROVE  c \in k \/ (c \in Chains /\ r[c] = "override")
  BY DEF Written

\* A write of every table leaves every override chain in place...
LEMMA WrittenAll ==
    ASSUME NEW k, NEW r, NEW c \in Chains, r[c] = "override"
    PROVE  c \in Written(k, r, Tables)
<1>1. c[1] \in Tables
  BY DEF Chains
<1> QED
  BY <1>1 DEF Written

\* ...and no chain that is registered for deletion.
LEMMA WrittenDrops ==
    ASSUME NEW k \in SUBSET Chains, NEW r, NEW c \in Written(k, r, Tables)
    PROVE  r[c] # "delete"
<1>1. c \in Chains
  BY DEF Written
<1>2. c[1] \in Tables
  BY <1>1 DEF Chains
<1> QED
  BY <1>2 DEF Written

\* What a commit of one family (mt_ipt_engine commit) does to the kernel,
\* whether it succeeds, fails or is cancelled.
LEMMA WriteTablesEffect ==
    ASSUME TypeOK, NEW f \in Families, NEW outcome,
           WriteTables(f, reg[f], outcome)
    PROVE  /\ kernel' \in [Families -> SUBSET Chains]
           /\ faults' \in 0 .. MaxFaults
           /\ \A h \in Families : h # f => kernel'[h] = kernel[h]
           /\ \E T \in SUBSET Tables :
                 /\ kernel'[f] = Written(kernel[f], reg[f], T)
                 /\ outcome = "ok" => T = Tables
<1>1. kernel \in [Families -> SUBSET Chains] /\ faults \in 0 .. MaxFaults
  BY DEF TypeOK
<1>2. /\ faults' \in 0 .. MaxFaults
      /\ \E T \in SUBSET Tables :
            /\ kernel' = [kernel EXCEPT ![f] = Written(@, reg[f], T)]
            /\ outcome = "ok" => T = Tables
  BY <1>1, NfAssumption DEF WriteTables
<1>3. PICK T \in SUBSET Tables :
         /\ kernel' = [kernel EXCEPT ![f] = Written(@, reg[f], T)]
         /\ outcome = "ok" => T = Tables
  BY ZenonT(30), <1>2
<1>4. Written(kernel[f], reg[f], T) \in SUBSET Chains
  BY <1>1, WrittenType
<1> QED
  BY <1>1, <1>2, <1>3, <1>4

-----------------------------------------------------------------------------
\* Type correctness.

\* Staging the registry (build_iptables_rules) gives registrations.
LEMMA StagedType ==
    ASSUME NEW S, NEW kind \in Kind, NEW r \in [Chains -> Kind]
    PROVE  Staged(S, kind, r) \in [Chains -> Kind]
  BY DEF Staged

\* So does marking what the kernel holds for deletion (clean_one).
LEMMA DeletesForType ==
    ASSUME NEW k, NEW r \in [Chains -> Kind]
    PROVE  DeletesFor(k, r) \in [Chains -> Kind]
  BY DEF DeletesFor, Kind

\* The state mt_app_start_netfilter_committer leaves is well typed.
LEMMA InitType == Init => TypeOK
<1> SUFFICES ASSUME Init PROVE TypeOK
  OBVIOUS
<1>1. registry \subseteq Owners
  <2>1. PICK S \in SUBSET Groups : registry = S \cup {Remap}
    BY DEF Init
  <2> QED
    BY <2>1, NfAssumption DEF Groups
<1>2. reg \in [Families -> [Chains -> Kind]]
  BY DEF Init, Kind
<1>3. kernel \in [Families -> SUBSET Chains]
  BY DEF Init, ChainsOf
<1>4. fam \in Families /\ res \in Results /\ cpc \in CommitterPc /\ lpc \in LoopPc
  BY DEF Init, Families, Results, CommitterPc, LoopPc
<1>5. /\ delay \in DelayMs .. MaxDelayMs
      /\ wipes \in 0 .. MaxWipes /\ edits \in 0 .. MaxEdits /\ faults \in 0 .. MaxFaults
  BY NfAssumption DEF Init
<1>6. /\ stopping \in BOOLEAN /\ pending \in BOOLEAN /\ running \in BOOLEAN
      /\ cancel \in BOOLEAN /\ attached \in BOOLEAN /\ hookOwed \in BOOLEAN
      /\ nf_mu \in {"free", "loop", "committer"} /\ seen \subseteq Owners
  BY ZenonT(30) DEF Init
<1> QED
  BY <1>1, <1>2, <1>3, <1>4, <1>5, <1>6 DEF TypeOK

\* An edit of the registry (mt_ruleset_enable, mt_ruleset_disable), whichever
\* way its commits end, keeps the types.
LEMMA SetGroupType ==
    ASSUME TypeOK, NEW g \in Groups, NEW on \in BOOLEAN, SetGroup(g, on)
    PROVE  /\ registry' \in SUBSET Owners
           /\ reg' \in [Families -> [Chains -> Kind]]
           /\ kernel' \in [Families -> SUBSET Chains]
           /\ faults' \in 0 .. MaxFaults
<1>1. \A f \in Families, kind \in Kind : Staged({g}, kind, reg[f]) \in [Chains -> Kind]
  BY ZenonT(30), StagedType DEF TypeOK
<1>2. \A r, T : \A k \in SUBSET Chains : Written(k, r, T) \in SUBSET Chains
  BY WrittenType
<1>3. reg' \in [Families -> [Chains -> Kind]]
  BY ZenonT(30), <1>1 DEF SetGroup, Kind
<1>4. kernel' \in [Families -> SUBSET Chains]
  <2>1. \A f \in Families : kernel[f] \in SUBSET Chains
    BY DEF TypeOK
  <2> QED
    BY <1>2, <2>1 DEF SetGroup
<1>5. registry' \in SUBSET Owners /\ faults' \in 0 .. MaxFaults
  BY NfAssumption DEF SetGroup, Groups, TypeOK
<1> QED
  BY <1>3, <1>4, <1>5

\* Every step of the two threads and of the firmware keeps the types.
LEMMA NextType ==
    ASSUME TypeOK, [Next]_vars
    PROVE  TypeOK'
<1> USE DEF TypeOK
<1>1. CASE Wait
  BY <1>1 DEF Wait, committerVars, tableVars, envVars, CommitterPc
<1>2. CASE Settle
  BY <1>2 DEF Settle, committerVars, tableVars, envVars, CommitterPc
<1>3. CASE Begin
  BY ZenonT(30), <1>3 DEF Begin, tableVars, envVars, CommitterPc
<1>4. CASE Clear
  BY ZenonT(30), <1>4 DEF Clear, committerVars, tableVars, envVars, CommitterPc
<1>5. CASE Enter
  BY <1>5 DEF Enter, committerVars, tableVars, envVars, CommitterPc, Families, Results
<1>6. CASE Save
  <2>1. reg' \in [Families -> [Chains -> Kind]]
    <3>1. DeletesFor(kernel[fam], reg[fam]) \in [Chains -> Kind]
      BY DeletesForType
    <3> QED
      BY <1>6, <3>1 DEF Save
  <2>2. cpc' \in CommitterPc /\ fam' \in Families /\ res' \in Results /\ faults' \in 0 .. MaxFaults
    BY <1>6, NfAssumption DEF Save, AfterClean, CommitterPc, Families, Results
  <2> QED
    BY <1>6, <2>1, <2>2 DEF Save, committerVars, envVars
<1>7. CASE Clean
  <2>1. PICK outcome \in Results : WriteTables(fam, reg[fam], outcome) /\ AfterClean(outcome)
    BY <1>7 DEF Clean
  <2>2. cpc' \in CommitterPc /\ fam' \in Families /\ res' \in Results
    BY <2>1 DEF AfterClean, CommitterPc, Families
  <2>3. kernel' \in [Families -> SUBSET Chains] /\ faults' \in 0 .. MaxFaults
    BY <2>1, WriteTablesEffect
  <2> QED
    BY <1>7, <2>2, <2>3 DEF Clean, committerVars, envVars
<1>8. CASE Prepare
  BY <1>8 DEF Prepare, committerVars, tableVars, envVars, CommitterPc, Results
<1>9. CASE Stage
  <2>1. \A f \in Families : Staged(seen, "override", reg[f]) \in [Chains -> Kind]
    BY ZenonT(30), StagedType DEF Kind
  <2>2. reg' \in [Families -> [Chains -> Kind]]
    BY <1>9, <2>1 DEF Stage
  <2> QED
    BY <1>9, <2>2 DEF Stage, committerVars, envVars, CommitterPc, Results
<1>10. CASE Commit
  <2>1. PICK outcome \in Results :
           /\ WriteTables(fam, reg[fam], outcome)
           /\ res' = outcome
           /\ IF outcome = "ok" /\ fam = "ipt4"
                THEN fam' = "ipt6" /\ UNCHANGED cpc
                ELSE cpc' = "leave" /\ UNCHANGED fam
    BY <1>10 DEF Commit
  <2>2. cpc' \in CommitterPc /\ fam' \in Families /\ res' \in Results
    BY <2>1 DEF CommitterPc, Families
  <2>3. kernel' \in [Families -> SUBSET Chains] /\ faults' \in 0 .. MaxFaults
    BY <2>1, WriteTablesEffect
  <2> QED
    BY <1>10, <2>2, <2>3 DEF Commit, committerVars, envVars
<1>11. CASE Leave
  BY ZenonT(30), <1>11 DEF Leave, committerVars, tableVars, envVars, CommitterPc
<1>12. CASE End
  <2>1. delay' \in DelayMs .. MaxDelayMs
    BY <1>12, NfAssumption DEF End
  <2>2. cpc' \in CommitterPc
    BY <1>12 DEF End, CommitterPc
  <2> QED
    BY ZenonT(30), <1>12, <2>1, <2>2 DEF End, tableVars, envVars
<1>13. CASE Rearm
  BY <1>13 DEF Rearm, tableVars, envVars, CommitterPc
<1>14. CASE Request
  BY ZenonT(30), <1>14 DEF Request, passVars, tableVars, LoopPc
<1>15. CASE Raise
  BY <1>15 DEF Raise, committerVars, passVars, tableVars, envVars, LoopPc
<1>16. CASE NfLock
  BY <1>16 DEF NfLock, committerVars, passVars, tableVars, envVars, LoopPc
<1>17. CASE NfLeave
  BY <1>17 DEF NfLeave, committerVars, passVars, tableVars, envVars, LoopPc
<1>18. CASE Join
  BY <1>18 DEF Join, committerVars, passVars, tableVars, envVars, LoopPc
<1>19. CASE Teardown
  <2>1. \A f \in Families : Staged(registry, "delete", reg[f]) \in [Chains -> Kind]
    BY ZenonT(30), StagedType DEF Kind
  <2>2. reg' \in [Families -> [Chains -> Kind]]
    BY <1>19, <2>1 DEF Teardown
  <2>3. \A f \in Families : Written(kernel[f], reg'[f], Tables) \in SUBSET Chains
    BY WrittenType
  <2>4. kernel' \in [Families -> SUBSET Chains]
    BY <1>19, <2>3 DEF Teardown
  <2>5. lpc' \in LoopPc /\ faults' \in 0 .. MaxFaults /\ registry' \subseteq Owners
    BY <1>19, NfAssumption DEF Teardown, LoopPc
  <2> QED
    BY <1>19, <2>2, <2>4, <2>5 DEF Teardown, committerVars, passVars, envVars
<1>20. CASE NfEnter
  <2>1. edits' \in 0 .. MaxEdits /\ lpc' \in LoopPc
    BY <1>20, NfAssumption DEF NfEnter, LoopPc
  <2> QED
    BY <1>20, <2>1 DEF NfEnter, committerVars, passVars, tableVars, envVars
<1>21. CASE Edit
  <2>1. PICK g \in Groups : SetGroup(g, g \notin registry)
    BY <1>21 DEF Edit
  <2>2. /\ registry' \in SUBSET Owners
        /\ reg' \in [Families -> [Chains -> Kind]]
        /\ kernel' \in [Families -> SUBSET Chains]
        /\ faults' \in 0 .. MaxFaults
    BY ZenonT(30), <2>1, SetGroupType
  <2>3. edits' \in 0 .. MaxEdits
    BY <1>21, NfAssumption DEF Edit
  <2> QED
    BY <1>21, <2>2, <2>3 DEF Edit, committerVars, passVars, envVars
<1>22. CASE Stop
  BY <1>22 DEF Stop, passVars, tableVars, envVars, LoopPc
<1>23. CASE Wipe
  <2>1. wipes' \in 0 .. MaxWipes
    BY <1>23, NfAssumption DEF Wipe
  <2>2. kernel' \in [Families -> SUBSET Chains]
    BY <1>23 DEF Wipe
  <2> QED
    BY <1>23, <2>1, <2>2 DEF Wipe, committerVars, passVars
<1>24. CASE UNCHANGED vars
  BY <1>24 DEF vars, committerVars, passVars, tableVars, envVars
<1> QED
  BY ZenonT(30), <1>1, <1>2, <1>3, <1>4, <1>5, <1>6, <1>7, <1>8, <1>9, <1>10, <1>11, <1>12,
     <1>13, <1>14, <1>15, <1>16, <1>17, <1>18, <1>19, <1>20, <1>21, <1>22, <1>23, <1>24
     DEF Next, CommitterStep, LoopStep, Terminated

\* Type correctness of the committer, the loop thread and the tables.
THEOREM TypeCorrect == Spec => []TypeOK
  BY InitType, NextType, PTL DEF Spec

-----------------------------------------------------------------------------
\* Where the two threads can be.

\* nf_mu, the token and the two program counters stay in step.
LEMMA ControlNext ==
    ASSUME TypeOK, ControlInv, [Next]_vars
    PROVE  ControlInv'
<1> USE DEF ControlInv, InPass
<1>1. CASE Wait \/ Settle \/ Begin \/ Clear \/ Enter
  BY <1>1 DEF Wait, Settle, Begin, Clear, Enter, committerVars, TypeOK
<1>2. CASE Save
  BY <1>2 DEF Save, AfterClean, committerVars, TypeOK
<1>3. CASE Clean
  <2>1. PICK outcome \in Results : AfterClean(outcome)
    BY <1>3 DEF Clean
  <2> QED
    BY <1>3, <2>1 DEF Clean, AfterClean, committerVars, TypeOK
<1>4. CASE Prepare \/ Stage
  BY <1>4 DEF Prepare, Stage, committerVars, TypeOK
<1>5. CASE Commit
  BY <1>5 DEF Commit, committerVars, TypeOK
<1>6. CASE Leave \/ End \/ Rearm
  BY <1>6 DEF Leave, End, Rearm, committerVars, TypeOK
<1>7. CASE Request \/ Raise \/ NfLock \/ NfLeave \/ Join \/ NfEnter \/ Stop
  BY <1>7 DEF Request, Raise, NfLock, NfLeave, Join, NfEnter, Stop, committerVars,
              passVars, TypeOK
<1>8. CASE Teardown
  BY <1>8 DEF Teardown, committerVars, passVars, TypeOK
<1>9. CASE Edit
  BY <1>9 DEF Edit, committerVars, passVars, TypeOK
<1>10. CASE Wipe
  BY <1>10 DEF Wipe, committerVars, passVars, TypeOK
<1>11. CASE UNCHANGED vars
  BY SMTT(30), <1>11 DEF vars, committerVars, passVars
<1> QED
  BY <1>1, <1>2, <1>3, <1>4, <1>5, <1>6, <1>7, <1>8, <1>9, <1>10, <1>11
     DEF Next, CommitterStep, LoopStep, Terminated

-----------------------------------------------------------------------------
\* What one edit does to the registrations and the tables.

\* An enabled group is registered and written, a disabled one is registered for
\* deletion wherever a chain of it is left; other groups are not touched.
LEMMA SetGroupEffect ==
    ASSUME TypeOK, NEW g \in Groups, NEW on \in BOOLEAN, SetGroup(g, on)
    PROVE  /\ \A f \in Families, c \in Chains :
                 c[2] # g => reg'[f][c] = reg[f][c] /\ (c[2] \in registry' <=> c[2] \in registry)
           /\ \A f \in Families, c \in Chains :
                 c[2] = g => reg'[f][c] = IF g \in registry' THEN "override" ELSE "delete"
           /\ \A f \in Families, c \in Chains :
                 c \in kernel[f] /\ reg[f][c] # "delete" /\ reg'[f][c] # "delete" => c \in kernel'[f]
           /\ \A f \in Families, c \in Chains :
                 c \in kernel'[f] => c \in kernel[f] \/ c[2] = g \/ reg[f][c] = "override"
           /\ g \in registry' => \A f \in Families, c \in Chains : c[2] = g => c \in kernel'[f]
<1> DEFINE R(f, kind) == Staged({g}, kind, reg[f])
<1>0. /\ reg \in [Families -> [Chains -> Kind]] /\ kernel \in [Families -> SUBSET Chains]
      /\ registry \subseteq Owners
  BY DEF TypeOK
<1>1. \A f \in Families, kind \in Kind, c \in Chains :
         R(f, kind)[c] = IF c[2] = g THEN kind ELSE reg[f][c]
  BY DEF Staged
<1>2. CASE /\ registry' = IF on THEN registry \cup {g} ELSE registry \ {g}
           /\ reg' = [f \in Families |-> R(f, IF on THEN "override" ELSE "delete")]
           /\ kernel' = [f \in Families |-> Written(kernel[f], reg'[f], Tables)]
  <2>1. \A f \in Families, c \in Chains :
           reg'[f][c] = IF c[2] = g THEN (IF on THEN "override" ELSE "delete") ELSE reg[f][c]
    BY ZenonT(30), <1>1, <1>2 DEF Kind
  <2>2. \A f \in Families : kernel'[f] = Written(kernel[f], reg'[f], Tables)
    BY <1>2
  <2>3. \A f \in Families, c \in Chains :
           c \in kernel[f] /\ reg'[f][c] # "delete" => c \in kernel'[f]
    BY <2>2, WrittenKeeps
  <2>4. \A f \in Families, c \in Chains :
           c \in kernel'[f] => c \in kernel[f] \/ reg'[f][c] = "override"
    BY <2>2, WrittenOnly
  <2>5. \A f \in Families, c \in Chains : reg'[f][c] = "override" => c \in kernel'[f]
    BY <2>2, WrittenAll
  <2>6. g \in registry' <=> on
    BY <1>2
  <2>7. \A c \in Chains : c[2] # g => (c[2] \in registry' <=> c[2] \in registry)
    BY <1>2
  <2> HIDE DEF R
  <2> QED
    BY <2>1, <2>3, <2>4, <2>5, <2>6, <2>7
<1>3. ASSUME registry' = registry \ {g},
             reg' = [f \in Families |-> R(f, "delete")],
             NEW T \in [Families -> SUBSET Tables], NEW U \in [Families -> SUBSET Tables],
             kernel' = [f \in Families |->
                          Written(IF on THEN Written(kernel[f], R(f, "override"), T[f])
                                        ELSE kernel[f], reg'[f], U[f])]
      PROVE  /\ \A f \in Families, c \in Chains :
                   c[2] # g => reg'[f][c] = reg[f][c] /\ (c[2] \in registry' <=> c[2] \in registry)
             /\ \A f \in Families, c \in Chains : c[2] = g => reg'[f][c] = "delete"
             /\ g \notin registry'
             /\ \A f \in Families, c \in Chains :
                   c \in kernel[f] /\ reg[f][c] # "delete" /\ reg'[f][c] # "delete" => c \in kernel'[f]
             /\ \A f \in Families, c \in Chains :
                   c \in kernel'[f] => c \in kernel[f] \/ c[2] = g \/ reg[f][c] = "override"
  <2>1. \A f \in Families, c \in Chains :
           reg'[f][c] = IF c[2] = g THEN "delete" ELSE reg[f][c]
    BY ZenonT(30), <1>1, <1>3 DEF Kind
  <2>2. ASSUME NEW f \in Families, NEW c \in Chains
        PROVE  /\ c \in kernel[f] /\ reg[f][c] # "delete" /\ reg'[f][c] # "delete" => c \in kernel'[f]
               /\ c \in kernel'[f] => c \in kernel[f] \/ c[2] = g \/ reg[f][c] = "override"
    <3> DEFINE W == Written(kernel[f], R(f, "override"), T[f])
               K == IF on THEN W ELSE kernel[f]
    <3>1. kernel'[f] = Written(K, reg'[f], U[f])
      BY <1>3
    <3>2. R(f, "override")[c] = IF c[2] = g THEN "override" ELSE reg[f][c]
      BY ZenonT(30), <1>1 DEF Kind
    <3>3. c \in kernel[f] /\ R(f, "override")[c] # "delete" => c \in W
      BY WrittenKeeps
    <3>4. c \in W => c \in kernel[f] \/ R(f, "override")[c] = "override"
      BY WrittenOnly
    <3> HIDE DEF W, R
    <3>5. c \in K /\ reg'[f][c] # "delete" => c \in kernel'[f]
      <4> HIDE DEF K
      <4> QED BY <3>1, WrittenKeeps
    <3>6. c \in kernel'[f] => c \in K \/ reg'[f][c] = "override"
      <4> HIDE DEF K
      <4> QED BY <3>1, WrittenOnly
    <3> QED
      BY <2>1, <3>2, <3>3, <3>4, <3>5, <3>6
  <2> QED
    BY ZenonT(30), <1>3, <2>1, <2>2
<1> QED
  BY ZenonT(30), <1>2, <1>3 DEF SetGroup

-----------------------------------------------------------------------------
\* Nothing outside the registry survives unless it is marked for deletion.

\* A commit of one family leaves nothing unaccounted for.
LEMMA LeftoverWrite ==
    ASSUME TypeOK, LeftoverInv, NEW outcome, WriteTables(fam, reg[fam], outcome),
           UNCHANGED <<reg, registry>>
    PROVE  LeftoverInv'
<1>1. \A h \in Families : h # fam => kernel'[h] = kernel[h]
  BY WriteTablesEffect DEF TypeOK
<1>2. PICK T \in SUBSET Tables : kernel'[fam] = Written(kernel[fam], reg[fam], T)
  BY WriteTablesEffect DEF TypeOK
<1>3. \A c \in Chains : c \in kernel'[fam] => c \in kernel[fam] \/ reg[fam][c] = "override"
  BY <1>2, WrittenOnly
<1> QED
  BY <1>1, <1>3 DEF LeftoverInv

\* Every step preserves LeftoverInv.
LEMMA LeftoverNext ==
    ASSUME TypeOK, ControlInv, LeftoverInv, [Next]_vars
    PROVE  LeftoverInv'
<1>1. CASE UNCHANGED <<reg, kernel, registry>>
  BY <1>1 DEF LeftoverInv
<1>2. CASE Save
  <2>1. CASE reg' = [reg EXCEPT ![fam] = DeletesFor(kernel[fam], @)]
    <3>1. \A f \in Families, c \in Chains :
             reg'[f][c] = IF f = fam /\ c \in kernel[fam] THEN "delete" ELSE reg[f][c]
      BY <2>1 DEF DeletesFor, TypeOK
    <3> QED
      BY <1>2, <3>1 DEF Save, LeftoverInv
  <2> QED
    BY <1>1, <1>2, <2>1 DEF Save
<1>3. CASE Clean
  BY <1>3, LeftoverWrite DEF Clean
<1>4. CASE Commit
  BY <1>4, LeftoverWrite DEF Commit
<1>5. CASE Stage
  <2>1. \A f \in Families, c \in Chains :
           reg'[f][c] = IF c[2] \in registry THEN "override" ELSE reg[f][c]
    BY <1>5 DEF Stage, Staged, ControlInv
  <2> QED
    BY <1>5, <2>1 DEF Stage, LeftoverInv
<1>6. CASE Teardown
  <2>1. \A f \in Families, c \in Chains :
           reg'[f][c] = IF c[2] \in registry THEN "delete" ELSE reg[f][c]
    BY <1>6 DEF Teardown, Staged
  <2>2. ASSUME NEW f \in Families, NEW c \in Chains, c \in kernel'[f]
        PROVE  c \in kernel[f] \/ reg'[f][c] = "override"
    BY <1>6, <2>2, WrittenOnly DEF Teardown
  <2> QED
    BY <2>1, <2>2 DEF LeftoverInv
<1>7. CASE Edit
  <2>1. PICK g \in Groups : SetGroup(g, g \notin registry)
    BY <1>7 DEF Edit
  <2>2. \A f \in Families, c \in Chains :
           /\ c[2] # g => reg'[f][c] = reg[f][c] /\ (c[2] \in registry' <=> c[2] \in registry)
           /\ c[2] = g => reg'[f][c] = IF g \in registry' THEN "override" ELSE "delete"
           /\ c \in kernel'[f] => c \in kernel[f] \/ c[2] = g \/ reg[f][c] = "override"
    BY ZenonT(30), <2>1, SetGroupEffect
  <2> QED
    BY <2>2 DEF LeftoverInv
<1>8. CASE Wipe
  <2>1. \A f \in Families : kernel'[f] \subseteq kernel[f]
    BY <1>8 DEF Wipe
  <2> QED
    BY <1>8, <2>1 DEF Wipe, LeftoverInv
<1> QED
  BY <1>1, <1>2, <1>3, <1>4, <1>5, <1>6, <1>7, <1>8
     DEF Next, CommitterStep, LoopStep, Terminated, Wait, Settle, Begin, Clear, Enter,
         Prepare, Leave, End, Rearm, Request, Raise, NfLock, NfLeave, Join, NfEnter, Stop,
         tableVars, vars

-----------------------------------------------------------------------------
\* Unless a pass is owed, every chain of the registry is registered for writing.

\* Every step preserves RegInv.
LEMMA RegNext ==
    ASSUME TypeOK, ControlInv, RegInv, [Next]_vars
    PROVE  RegInv'
<1>1. CASE UNCHANGED <<reg, registry>> /\ (Debt => Debt')
  BY <1>1 DEF RegInv, ChainsOf
<1>2. CASE Stage
  <2>1. \A f \in Families, c \in Chains : c[2] \in registry => reg'[f][c] = "override"
    BY <1>2 DEF Stage, Staged, ControlInv
  <2> QED
    BY <1>2, <2>1 DEF Stage, RegInv, ChainsOf
<1>3. CASE Edit
  <2>1. PICK g \in Groups : SetGroup(g, g \notin registry)
    BY <1>3 DEF Edit
  <2>2. \A f \in Families, c \in Chains :
           /\ c[2] # g => reg'[f][c] = reg[f][c] /\ (c[2] \in registry' <=> c[2] \in registry)
           /\ c[2] = g => reg'[f][c] = IF g \in registry' THEN "override" ELSE "delete"
    BY ZenonT(30), <2>1, SetGroupEffect
  <2>3. Debt => Debt'
    BY <1>3 DEF Edit, Debt, committerVars, passVars
  <2> QED
    BY <2>2, <2>3 DEF RegInv, ChainsOf
<1>4. CASE Teardown
  BY <1>4 DEF Teardown, RegInv, ChainsOf
<1>5. CASE Wait \/ Settle \/ Begin \/ Clear \/ Enter
  BY <1>5, <1>1 DEF Wait, Settle, Begin, Clear, Enter, Debt, ControlInv, committerVars,
                    tableVars, TypeOK
<1>6. CASE Save
  BY <1>6 DEF Save, AfterClean, Debt, ControlInv, committerVars, RegInv, TypeOK
<1>7. CASE Clean
  BY <1>7 DEF Clean, AfterClean, Debt, ControlInv, committerVars, RegInv, TypeOK
<1>8. CASE Prepare \/ Leave \/ End \/ Rearm
  BY <1>8, <1>1 DEF Prepare, Leave, End, Rearm, Debt, committerVars, tableVars, TypeOK
<1>9. CASE Commit
  BY <1>9, <1>1 DEF Commit, Debt, committerVars, TypeOK
<1>10. CASE Request \/ Raise \/ NfLock \/ NfLeave \/ Join \/ NfEnter \/ Stop
  BY <1>10, <1>1 DEF Request, Raise, NfLock, NfLeave, Join, NfEnter, Stop, Debt,
                     committerVars, passVars, tableVars
<1>11. CASE Wipe \/ UNCHANGED vars
  BY <1>11, <1>1 DEF Wipe, Debt, vars, committerVars, passVars, tableVars
<1> QED
  BY <1>2, <1>3, <1>4, <1>5, <1>6, <1>7, <1>8, <1>9, <1>10, <1>11
     DEF Next, CommitterStep, LoopStep, Terminated

-----------------------------------------------------------------------------
\* A chain of the registry is missing only while somebody still owes a pass.

\* Every step preserves KernelInv.
LEMMA KernelNext ==
    ASSUME TypeOK, ControlInv, RegInv, KernelInv, [Next]_vars
    PROVE  KernelInv'
<1>1. CASE UNCHANGED <<kernel, registry, hookOwed>> /\ cpc # "commit" /\ (Debt => Debt')
  BY <1>1 DEF KernelInv, ChainsOf
<1>2. CASE Wait \/ Settle \/ Begin \/ Clear \/ Enter
  BY <1>2, <1>1 DEF Wait, Settle, Begin, Clear, Enter, Debt, ControlInv, committerVars,
                    tableVars, envVars, TypeOK
<1>3. CASE Save
  BY <1>3 DEF Save, AfterClean, Debt, ControlInv, committerVars, KernelInv, TypeOK
<1>4. CASE Clean
  BY <1>4 DEF Clean, AfterClean, Debt, ControlInv, committerVars, KernelInv, TypeOK
<1>5. CASE Stage
  BY <1>5 DEF Stage, Debt, committerVars, KernelInv, ControlInv, Families, TypeOK
<1>6. CASE Commit
  <2>1. PICK outcome \in Results :
           /\ WriteTables(fam, reg[fam], outcome)
           /\ res' = outcome
           /\ IF outcome = "ok" /\ fam = "ipt4"
                THEN fam' = "ipt6" /\ UNCHANGED cpc
                ELSE cpc' = "leave" /\ UNCHANGED fam
    BY <1>6 DEF Commit
  <2>2. UNCHANGED <<pending, stopping, hookOwed, registry>> /\ cpc = "commit"
    BY <1>6 DEF Commit, committerVars, envVars
  <2>3. CASE outcome # "ok"
    BY <2>1, <2>3 DEF Debt, KernelInv
  <2>4. CASE outcome = "ok"
    <3>1. CASE Debt
      <4>1. pending \/ stopping
        BY <3>1, <2>2 DEF Debt
      <4> QED
        BY <4>1, <2>2 DEF Debt, KernelInv
    <3>2. CASE ~Debt
      <4>1. \A h \in Families : h # fam => kernel'[h] = kernel[h]
        BY <2>1, WriteTablesEffect DEF TypeOK
      <4>2. kernel'[fam] = Written(kernel[fam], reg[fam], Tables)
        BY SMTT(30), <2>1, <2>4, WriteTablesEffect DEF TypeOK
      <4>3. ChainsOf(registry) \subseteq kernel'[fam]
        BY <3>2, <4>2, WrittenAll DEF RegInv, ChainsOf, TypeOK
      <4>4. ChainsOf(registry') = ChainsOf(registry)
        BY <2>2
      <4>5. CASE fam = "ipt4"
        BY <2>1, <2>2, <2>4, <4>3, <4>4, <4>5 DEF KernelInv, Families
      <4>6. CASE fam = "ipt6"
        BY <2>2, <3>2, <4>1, <4>3, <4>4, <4>6 DEF KernelInv, Families
      <4> QED
        BY <4>5, <4>6 DEF TypeOK, Families
    <3> QED
      BY <3>1, <3>2
  <2> QED
    BY <2>3, <2>4
<1>7. CASE Prepare \/ Leave \/ End \/ Rearm
  BY <1>7, <1>1 DEF Prepare, Leave, End, Rearm, Debt, committerVars, tableVars, envVars,
                    TypeOK
<1>8. CASE Raise \/ NfLock \/ NfLeave \/ Join \/ NfEnter \/ Stop \/ UNCHANGED vars
  <2>1. UNCHANGED <<kernel, registry, hookOwed, cpc, fam, res>> /\ (Debt => Debt')
    BY <1>8 DEF Raise, NfLock, NfLeave, Join, NfEnter, Stop, Debt, committerVars, passVars,
                tableVars, envVars, vars
  <2> QED
    BY <2>1 DEF KernelInv, ChainsOf
<1>9. CASE Request
  BY <1>9 DEF Request, Debt, KernelInv
<1>10. CASE Edit
  <2>1. PICK g \in Groups : SetGroup(g, g \notin registry)
    BY SMTT(30), <1>10 DEF Edit
  <2>2. \A f \in Families, c \in Chains :
           /\ c[2] # g => reg'[f][c] = reg[f][c] /\ (c[2] \in registry' <=> c[2] \in registry)
           /\ c[2] = g => reg'[f][c] = IF g \in registry' THEN "override" ELSE "delete"
           /\ c \in kernel[f] /\ reg[f][c] # "delete" /\ reg'[f][c] # "delete" => c \in kernel'[f]
           /\ g \in registry' /\ c[2] = g => c \in kernel'[f]
    BY ZenonT(30), <2>1, SetGroupEffect
  <2>3. cpc # "commit" /\ UNCHANGED hookOwed /\ (Debt => Debt')
    BY <1>10 DEF Edit, Debt, ControlInv, InPass, committerVars, passVars, envVars
  <2>4. SUFFICES ASSUME ~Debt, ~hookOwed, NEW f \in Families, NEW c \in ChainsOf(registry')
                 PROVE  c \in kernel'[f]
    BY <2>3 DEF KernelInv
  <2>5. CASE c[2] = g
    BY <2>2, <2>5 DEF ChainsOf
  <2>6. CASE c[2] # g
    <3>1. c \in ChainsOf(registry)
      BY <2>2, <2>6 DEF ChainsOf
    <3>2. c \in kernel[f] /\ reg[f][c] = "override"
      BY <2>3, <2>4, <3>1 DEF KernelInv, RegInv
    <3> QED
      BY <2>2, <2>6, <3>2 DEF ChainsOf
  <2> QED
    BY <2>5, <2>6
<1>11. CASE Teardown
  BY SMTT(30), <1>11 DEF Teardown, KernelInv, ChainsOf
<1>12. CASE Wipe
  BY <1>12 DEF Wipe, KernelInv
<1> QED
  BY <1>2, <1>3, <1>4, <1>5, <1>6, <1>7, <1>8, <1>9, <1>10, <1>11, <1>12
     DEF Next, CommitterStep, LoopStep, Terminated

-----------------------------------------------------------------------------
\* The shutdown removes everything.

\* Every step preserves TeardownLeavesNothing.
LEMMA TeardownNext ==
    ASSUME TypeOK, ControlInv, LeftoverInv, TeardownLeavesNothing, [Next]_vars
    PROVE  TeardownLeavesNothing'
<1>1. CASE Teardown
  <2>1. SUFFICES ASSUME lpc' = "stopped", NEW f \in Families, NEW c \in kernel'[f]
                 PROVE  FALSE
    BY DEF TeardownLeavesNothing
  <2>2. \A d \in Chains :
           reg'[f][d] = IF d[2] \in registry THEN "delete" ELSE reg[f][d]
    BY <1>1 DEF Teardown, Staged
  <2>3. kernel'[f] = Written(kernel[f], reg'[f], Tables)
    BY SMTT(30), <1>1, <2>1 DEF Teardown
  <2>4. kernel[f] \in SUBSET Chains
    BY SMTT(30) DEF TypeOK
  <2>5. c \in Chains /\ (c \in kernel[f] \/ reg'[f][c] = "override")
    BY <2>1, <2>3, <2>4, WrittenOnly
  <2>6. reg'[f][c] # "delete"
    BY <2>1, <2>3, <2>4, WrittenDrops
  <2> QED
    BY <2>2, <2>5, <2>6 DEF LeftoverInv
<1>2. CASE Wipe
  <2>1. \A f \in Families : kernel'[f] \subseteq kernel[f]
    BY <1>2 DEF Wipe
  <2> QED
    BY <1>2, <2>1 DEF Wipe, TeardownLeavesNothing
<1>3. CASE CommitterStep
  <2>1. lpc' = lpc /\ cpc # "done"
    BY <1>3 DEF CommitterStep, Wait, Settle, Begin, Clear, Enter, Save, Clean, Prepare,
                Stage, Commit, Leave, End, Rearm
  <2> QED
    BY <2>1 DEF ControlInv, TeardownLeavesNothing
<1>4. CASE Request \/ Raise \/ NfLock \/ NfLeave \/ Join \/ NfEnter \/ Stop \/ Edit
  <2>1. lpc' # "stopped"
    BY <1>4 DEF Request, Raise, NfLock, NfLeave, Join, NfEnter, Stop, Edit
  <2> QED
    BY <2>1 DEF TeardownLeavesNothing
<1>5. CASE UNCHANGED vars
  BY <1>5 DEF vars, tableVars, TeardownLeavesNothing
<1> QED
  BY <1>1, <1>2, <1>3, <1>4, <1>5 DEF Next, LoopStep, Terminated

-----------------------------------------------------------------------------
\* The inductive invariant and what follows from it.

\* The inductive invariant holds when the committer is started...
LEMMA InitInv == Init => IInv
<1> SUFFICES ASSUME Init PROVE IInv
  OBVIOUS
<1>1. TypeOK
  BY InitType
<1>2. ControlInv /\ TeardownLeavesNothing
  BY DEF Init, ControlInv, InPass, TeardownLeavesNothing
<1>3. RegInv /\ KernelInv
  <2>1. \A f \in Families : kernel[f] = ChainsOf(registry)
    BY DEF Init
  <2>2. \A f \in Families, c \in Chains : c[2] \in registry => reg[f][c] = "override"
    BY DEF Init
  <2> QED
    BY <2>1, <2>2 DEF RegInv, KernelInv, ChainsOf
<1>4. LeftoverInv
  <2>1. \A f \in Families, c \in Chains :
           /\ reg[f][c] = IF c[2] \in registry THEN "override" ELSE "none"
           /\ c \in kernel[f] => c[2] \in registry
    BY DEF Init, ChainsOf
  <2> QED
    BY <2>1 DEF LeftoverInv
<1> QED
  BY <1>1, <1>2, <1>3, <1>4 DEF IInv

\* ...and every step preserves it.
LEMMA NextInv == IInv /\ [Next]_vars => IInv'
  BY NextType, ControlNext, RegNext, KernelNext, LeftoverNext, TeardownNext DEF IInv

\* The inductive invariant of the committer and the loop thread holds
\* throughout, for every value of the constants.
THEOREM Invariant == Spec => []IInv
  BY InitInv, NextInv, PTL DEF Spec

\* No rewrite of the tables is forgotten: whenever committer_main goes back to
\* sleep with nothing pending, the kernel agrees with the registry, for any
\* number of owners, tables, rewrites, edits, failures and cancelled passes.
THEOREM CommitterConverges == Spec => []Converged
<1>1. IInv => Converged
  BY DEF IInv, Converged, Quiescent, Covered, KernelInv, Debt, LeftoverInv, ChainsOf, TypeOK
<1> QED
  BY <1>1, Invariant, PTL

\* The token is on the engines exactly while the committer owns nf_mu
\* (mt_app_rebuild_netfilter).
THEOREM TokenConfined == Spec => []TokenOnlyDuringPass
<1>1. IInv => TokenOnlyDuringPass
  BY DEF IInv, ControlInv, InPass, TokenOnlyDuringPass
<1> QED
  BY <1>1, Invariant, PTL

\* daemon_teardown leaves none of our chains in the kernel, whatever state the
\* last, possibly aborted, pass left behind.
THEOREM TeardownClean == Spec => []TeardownLeavesNothing
<1>1. IInv => TeardownLeavesNothing
  BY DEF IInv
<1> QED
  BY <1>1, Invariant, PTL

\* The registry never changes under a pass: every writer of it either holds
\* nf_mu (app_nf_enter) or runs after the committer has been joined.
THEOREM RegistryStable == Spec => RegistryStableDuringPass
<1>1. IInv /\ [Next]_vars => [nf_mu = "committer" => registry' = registry]_vars
  <2> SUFFICES ASSUME IInv, [Next]_vars, nf_mu = "committer" PROVE registry' = registry
    OBVIOUS
  <2>1. ~Edit /\ ~Teardown
    BY ZenonT(30) DEF IInv, ControlInv, InPass, Edit, Teardown
  <2> QED
    BY <2>1 DEF Next, CommitterStep, LoopStep, Terminated, vars, Wait, Settle, Begin, Clear,
                Enter, Save, Clean, Prepare, Stage, Commit, Leave, End, Rearm, Request,
                Raise, NfLock, NfLeave, Join, NfEnter, Stop, Wipe
<1> QED
  BY <1>1, Invariant, PTL DEF Spec, RegistryStableDuringPass
=============================================================================
