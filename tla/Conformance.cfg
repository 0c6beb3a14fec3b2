SPECIFICATION Spec
CONSTANTS
    CanonicalTexts <- MCTexts
    Profiles <- MCProfiles
    Manifests <- MCManifests
    Suites <- MCSuites
    Expectations <- MCExpectations
    ScenarioResults <- MCScenarioResults
    Policy <- MCPolicy
    MinContracts = 2
    MaxContracts = 3
INVARIANTS
    GateExact
    DeviationScoped
CHECK_DEADLOCK FALSE
