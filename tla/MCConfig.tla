------------------------------ MODULE MCConfig ------------------------------
(***************************************************************************)
(* A small instance of Config: one group and one subscription in the       *)
(* operator's file, requests that reuse, replace, add and mistype          *)
(* identifiers, a first array capacity of 2 (8 in the code).               *)
(***************************************************************************)
EXTENDS Config

MCGroupIds == <<"g1", "g2", "g3", "g4">>
MCSubIds == <<"s1", "s2", "s3", "s4">>
MCRuleIds == <<"r1", "r2", "r3", "r4", "r5", "r6">>

Rule(id, text, on) == [id |-> id, text |-> text, on |-> on]

GroupReq(id, enable, hasRules, rules) ==
    [id |-> id, enable |-> enable, hasRules |-> hasRules, rules |-> rules]
New == GroupReq("none", TRUE, TRUE, <<Rule("none", "t1", TRUE), Rule("none", "t2", FALSE)>>)
Off == GroupReq("g1", FALSE, FALSE, <<>>)
MCGroupReqs == {New, Off}
MCGroupBodies == {<<Off, New>>, <<GroupReq("bad", TRUE, FALSE, <<>>)>>}

MCRuleReqs == {Rule("none", "t2", TRUE)}
\* Also with the "id" of a rule that exists.
MCRuleReqsKnown == MCRuleReqs \cup {Rule("r1", "t2", TRUE)}
MCRuleBodies == {<<Rule("r1", "t1", TRUE), Rule("none", "t2", TRUE)>>}

SubReq(id, url, hasRules, rules) ==
    [id |-> id, enable |-> TRUE, iface |-> "wg0", url |-> url, interval |-> 1,
     hasRules |-> hasRules, rules |-> rules]
MCSubReqs == {SubReq("none", "u", FALSE, <<>>), SubReq("none", "", FALSE, <<>>)}
MCSubBodies == {<<SubReq("s1", "u", FALSE, <<>>), SubReq("s1", "u", FALSE, <<>>)>>,
                <<SubReq("none", "u", TRUE, <<Rule("r1", "t1", FALSE)>>)>>}
MCFetched == {<<"t1", "t2">>, <<"t2", "#", "t1">>}

MCGroup == [id |-> "g1", enable |-> TRUE, rules |-> <<Rule("r1", "t1", TRUE)>>]
MCSub(id) == [id |-> id, enable |-> TRUE, iface |-> "wg0", url |-> "u", interval |-> 1,
              lastUpdate |-> 1, lastCheck |-> 0, rules |-> <<Rule("r1", "t1", FALSE)>>]
File(groups, hasSubs, subs) ==
    [hasGroups |-> TRUE, groups |-> groups, hasSubs |-> hasSubs, subs |-> subs]
MCFiles == {File(<<MCGroup>>, TRUE, <<MCSub("s1"), MCSub("s2")>>),
            File(<<>>, FALSE, <<>>)}

FileRules == [id : Range(RuleIds), text : STRING, on : BOOLEAN]
MCContents ==
    [hasGroups : BOOLEAN, hasSubs : BOOLEAN,
     groups : Seq([id : Range(GroupIds), enable : BOOLEAN, rules : Seq(FileRules)]),
     subs : Seq([id : Range(SubIds), enable : BOOLEAN, iface : STRING, url : STRING,
                 interval : Nat, lastUpdate : Nat, lastCheck : {0},
                 rules : Seq(FileRules)])]
=============================================================================
