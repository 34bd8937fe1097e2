-------------------------- MODULE MCFindingRecords --------------------------
(* Two agents of one application, in staging and in production; two        *)
(* vulnerable lines of the same rule and sink, the first reached by two    *)
(* paths; an event of an agent the control plane does not know.            *)
EXTENDS FindingRecords, TLC

CONSTANTS ana, bob, worker, sweeper

Contexts ==
    [staging    |-> [app |-> "shop", env |-> "STAGING", facing |-> FALSE,
                     criticality |-> "HIGH", mode |-> "MONITOR"],
     production |-> [app |-> "shop", env |-> "PRODUCTION", facing |-> TRUE,
                     criticality |-> "HIGH", mode |-> "BLOCK"]]

Frame(m, app) == [method |-> m, application |-> app]

Hit(agent, site, path, conf, at) ==
    [type |-> "TAINT_HIT", agent |-> agent, rule |-> "sqli", severity |-> "HIGH",
     confidence |-> conf, sink |-> [method |-> "execute", line |-> at],
     ranges |-> <<"PARAMETER">>, site |-> site, at |-> at,
     stack |-> <<Frame("jdbc", FALSE), Frame(site, TRUE), Frame(path, TRUE)>>]

TwoLines ==
    << Hit("staging", "findByName", "list", "CONFIRMED", 1),
       Hit("rogue", "findByName", "list", "CONFIRMED", 1),
       Hit("staging", "findById", "show", "CONFIRMED", 1),
       Hit("production", "findByName", "export", "EXPLOITED", 2) >>

Line(site) == <<"shop", "sqli", "execute", "PARAMETER", <<site>>>>
Ranks == (Line("findByName") :> 1) @@ (Line("findById") :> 2) @@ (Line("jdbc") :> 3)

OneOrBoth == {<<Line("findByName")>>, <<Line("findById"), Line("findByName")>>}

Two == {ana, bob}
Interchangeable == Permutations(Two)

Asked(s, n) == [status |-> s, note |-> n]
Decisions == {Asked("ACCEPTED_RISK", TRUE), Asked("REMEDIATED", FALSE)}
=============================================================================
