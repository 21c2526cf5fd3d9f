SPECIFICATION FairCrossSpec
CHECK_DEADLOCK FALSE
CONSTANTS
    opA = opA  opB = opB  a1 = a1  a2 = a2  b1 = b1
    Operators = {opA, opB}
    Grants = {a1, a2, b1}
    Rules = {1, 2}
    RuleSets <- AskedFor
    LabelOf <- OwnLabel
    StartSpecs <- OneAsks
    Planted <- SomeonesObjects
    NoObj = NoObj  NoLabel = NoLabel  None = None
    MaxFaults = 1
    MaxEdits = 2
INVARIANTS CrossTypeOK SuccessIsExact
PROPERTIES GainsOnlyAsked OthersUntouched KeepsLedger EventuallyExact
