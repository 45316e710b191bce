CONSTANTS
    j1 = j1
    j2 = j2
    Jobs = {j1, j2}
    Kinds <- MCKinds
    NoJob = NoJob
SPECIFICATION JobsSpec
INVARIANTS OutcomeIsTrue NothingLeaks RealpathMixedOnlyByRace
CHECK_DEADLOCK FALSE
