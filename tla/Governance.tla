----------------------------- MODULE Governance ------------------------------
(***************************************************************************)
(* What an organization decides about detection: which rules of the signed *)
(* catalogue it switches off (application/rules.py), and which answers of  *)
(* the model it accepts (application/ai.py).  Bundles are published by the *)
(* vendor for every tenant; a signature that does not verify ends the call.*)
(***************************************************************************)
EXTENDS TenantStore

CONSTANTS
    Builtin,        \* keys of builtin_catalogue
    RuleSets,       \* sets of keys the vendor publishes
    Versions

ASSUME VersionsArePublished == Versions \subseteq Nat \ {0}

Settings    == <<"settings", 0>>
Bundle(v)   == <<"bundle", v>>
Analysis(i) == <<"analysis", i>>

Disabled == IF Settings \in DOMAIN db THEN db[Settings].disabled ELSE {}

(***************************************************************************)
(* The catalogue                                                           *)
(***************************************************************************)
Installed == {k[2] : k \in Table("bundle")}

\* The highest installed version; version 0 is compiled in.
Current   == IF Installed = {} THEN Builtin
             ELSE db[Bundle(CHOOSE v \in Installed : \A w \in Installed : w <= v)].rules

StartPublishing(c) == Resolve(c, <<"operator">>, {})

PublishRuleBundle(c) ==
    /\ Called(c) /\ work[c].who = <<"operator">>
    /\ \E v \in Versions, rules \in RuleSets :
          /\ \A w \in Installed : v > w
          /\ Decide(c, "publish", "", Add(Row(Bundle(v), [rules |-> rules])))

(***************************************************************************)
(* Opting out                                                              *)
(***************************************************************************)
\* The rule is looked up in a transaction of its own, before the one that saves.
FindRule(c) ==
    /\ Called(c) /\ Requires(c, "policy:write")
    /\ \E rule \in Current :
          work' = [work EXCEPT ![c] = [pc |-> "found", rule |-> rule, who |-> @.who,
                                       permissions |-> @.permissions]]
    /\ UNCHANGED <<db, own, clock, requests>>

\* The settings row is written whole, and created by the first change.
SetRuleEnabled(c) ==
    /\ work[c].pc = "found"
    /\ \/ Decide(c, "rule off", work[c].rule,
                 Set(Row(Settings, [disabled |-> Disabled \cup {work[c].rule}])))
       \/ Decide(c, "rule on", work[c].rule,
                 Set(Row(Settings, [disabled |-> Disabled \ {work[c].rule}])))

(***************************************************************************)
(* Analyses                                                                *)
(***************************************************************************)
\* The model is called inside the transaction; an error of it is kept as FAILED.
AnalyseFinding(c) ==
    /\ Called(c) /\ Requires(c, "ai:run")
    /\ \E status \in {"DRAFT", "FAILED"} :
          Decide(c, "analyse", "", Add(Row(Analysis(work[c].id), [status |-> status])))

Reviewable(row) == row.status = "DRAFT"

ReviewAnalysis(c) ==
    /\ Called(c) /\ Requires(c, "ai:approve")
    /\ \E k \in Table("analysis"), verdict \in {"ACCEPTED", "REJECTED"} :
          /\ Reviewable(db[k])
          /\ Decide(c, "review", verdict, Set(Row(k, [db[k] EXCEPT !.status = verdict])))
=============================================================================
