--------------------------- MODULE MCCheckCommand ---------------------------
(* Small instances of CheckCommand for TLC: documents that mix claims of   *)
(* both kinds, tags from a scenario and from a rule, and a bare Examples   *)
(* block; and the documents of the runs that are meant to fail.            *)
EXTENDS CheckCommand

Math(keyword) == [keyword |-> keyword, math |-> TRUE, forthel |-> FALSE]
ForTheL == [keyword |-> "then", math |-> FALSE, forthel |-> TRUE]
Prose == [keyword |-> "given", math |-> FALSE, forthel |-> FALSE]

Scenario(name, tags, steps) == [name |-> name, tags |-> tags, steps |-> steps, bare |-> FALSE]

Child(scenario) == [kind |-> "scenario", tags |-> {}, scenarios |-> <<scenario>>]
Rule(tags, scenarioSeq) == [kind |-> "rule", tags |-> tags, scenarios |-> scenarioSeq]
Background == [kind |-> "background", tags |-> {}, scenarios |-> <<>>]

MCMixed == [tags |-> {}, children |->
  <<Background,
    Child(Scenario("a", {"lean"}, <<Math("given"), Math("then"), ForTheL>>)),
    Child(Scenario("b", {}, <<ForTheL, Math("then")>>))>>]

MCRules == [tags |-> {}, children |->
  <<Rule({"lean"}, <<Scenario("c", {"arith"}, <<Prose, ForTheL>>), Scenario("d", {}, <<Math("then")>>)>>)>>]

MCBare == [tags |-> {}, children |->
  <<Child([Scenario("e", {"lean"}, <<Math("then")>>) EXCEPT !.bare = TRUE])>>]

MCDocuments == {MCMixed, MCRules, MCBare}

(* Two claims of one name: Gherkin does not ask for unique scenario names. *)
MCSameName == {[tags |-> {}, children |->
  <<Child(Scenario("a", {"lean"}, <<ForTheL>>)),
    Child(Scenario("a", {"lean"}, <<Math("then")>>))>>]}

=============================================================================
