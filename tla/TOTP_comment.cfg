\* Verify against the window its comment documents.
CONSTANTS
    TimeStepArgs <- MCTimeStepArgs
    StepsBackArgs <- MCStepsBackArgs
    NArgs <- MCNArgs
    Epoch = 900
    MaxTime = 4
SPECIFICATION Spec
INVARIANT VerifyAcceptsDocumentedWindow
