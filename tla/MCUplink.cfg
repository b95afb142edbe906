CONSTANTS
    Worker = {w1, w2}
    Scenario <- MCScenario
    MaxFrame = 3
    ChanCap = 2
    WriteCap = 1
SPECIFICATION Spec
INVARIANTS
    ExactlyOneOutcome
    BusinessFramesAreHarmless
PROPERTIES
    RelaysAtMostOnce
    AcceptedIsSettled
CHECK_DEADLOCK FALSE
