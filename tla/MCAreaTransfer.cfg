SPECIFICATION Spec
CONSTANTS
    Calls <- MCCalls
    ReconnectRetries = 1
INVARIANTS
    RequestsFit ItemsAreTiled ResultsBelong ProgressExplainsResults
CHECK_DEADLOCK FALSE
