\* Every password Generate and GenerateN return is accepted by Verify.
CONSTANTS
    TimeStepArgs <- MCTimeStepArgs
    StepsBackArgs <- MCStepsBackArgs
    NArgs <- MCNArgs
    Epoch = 900
    MaxTime = 4
SPECIFICATION Spec
INVARIANT TypeOK
INVARIANT GeneratedAreVerified
