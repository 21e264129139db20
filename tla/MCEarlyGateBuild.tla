-------------------------- MODULE MCEarlyGateBuild --------------------------
(* A small instance of EarlyGateBuild for TLC.                             *)
EXTENDS EarlyGateBuild, TLC

CONSTANTS b1, b2

TwoBuilds == {b1, b2}
MCRepos == {"kserve", "feast", "operator"}
MCListed == [r \in MCRepos |-> CASE r = "kserve" -> <<"ks1", "ks2">>
                                 [] r = "feast" -> <<"fs">>
                                 [] r = "operator" -> <<"op">>]
MCPulls == {<<"kserve", 1>>, <<"kserve", 2>>, <<"feast", 1>>, <<"feast", 2>>, <<"operator", 2>>}
MCForks == {<<"feast", 2>>}

Link(r, n) == [odh |-> TRUE, repo |-> r, pr |-> n]
MCDescriptions == {
    NoSection,
    <<Link("kserve", 2), Link("feast", 1)>>,              \* the leader's repository again
    <<Link("feast", 1), [Link("kserve", 1) EXCEPT !.odh = FALSE], Link("unknown", 1),
      Link("feast", 2)>>,                                \* the last number counts
    <<Link("operator", 2)>>}

\* The order leaves one list for every description.
ASSUME OneList == \A d \in MCDescriptions \cup {<<>>} : Cardinality(Resolved(d)) = 1

MCStarted == {MCPulls \ {<<"feast", 1>>}}
AnyBuild == Permutations(TwoBuilds)

=============================================================================
