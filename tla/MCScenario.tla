----------------------------- MODULE MCScenario -----------------------------
(* An instance of the scenarios for TLC. *)
EXTENDS Scenario, MCProxy

\* One upstream is down, the other answers probes but no request, until the
\* scenario says otherwise.
SomeMocks ==
    [m \in Members |->
        IF m[2] = 1 THEN AlwaysFailing("Timeout") ELSE NewMock(OkStep(500), TRUE)]

SomeSteps == {OkStep(200)}
=============================================================================
