SPECIFICATION Spec
CONSTANTS
    e1 = e1
    e2 = e2
    c1 = c1
    Executors <- MCExecutors
    Calls <- MCCalls
    MaxAttempts = 2
    MaxDeliveries = 2
    MaxEpochs = 1
SYMMETRY Symmetry
CHECK_DEADLOCK FALSE
PROPERTIES
    RequestSurvivesRecovery
