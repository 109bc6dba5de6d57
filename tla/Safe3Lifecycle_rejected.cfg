SPECIFICATION Spec
CONSTANTS
    Budget = 6
    MaxRecords = 2
INVARIANT RejectionKeepsService
