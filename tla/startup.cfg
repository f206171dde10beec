\* One or two fields set to any of their values, every pattern of up to five
\* characters, and every way to name a file.
SPECIFICATION Spec
CONSTANTS
    Scenarios <- MCScenarios
    MaxPattern = 5
INVARIANTS
    TypeOK
    AcceptedConfigStarts
    SubjectsWellFormed
\* The command ends.
CHECK_DEADLOCK FALSE
