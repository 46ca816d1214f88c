\* A call with input whose tool needs more than one poll.
SPECIFICATION Spec
CONSTANTS
    Timeout = 3
    Grace = 10
    Patience = 4
INVARIANT
    PolledToolDelivers
CHECK_DEADLOCK FALSE
