-------------------------- MODULE MCExternalCluster --------------------------
(* Three runs on one physical cluster.                                     *)
EXTENDS ExternalCluster, TLC

CONSTANTS a, b, c, mine, other, third, host

MCCluster == [s \in Sources |-> host]

\* Every run has a Secret of its own; a and b know each other by the names of
\* theirs, b and c only by what theirs say.
OwnSource == a :> mine @@ b :> other @@ c :> third
OwnAkin == {<<mine, other>>, <<other, mine>>}

\* One person's runs a and b share an uploaded Secret; c has another one, and
\* the names of the two suggest the same cluster.
SharedSource == a :> mine @@ b :> mine @@ c :> other
SharedAkin == Sources \X Sources
=============================================================================
