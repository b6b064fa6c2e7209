\* Handlers that advance the clock themselves, up to three activations deep.
CONSTANTS
    MaxTime = 3
    MaxEvents = 3
    MaxDepth = 3
SPECIFICATION Spec
INVARIANTS TypeOK NothingOverdue ExactlyOnce
PROPERTIES ReturnedListSorted CallerClockMonotone ImplementsAgenda
CHECK_DEADLOCK FALSE
