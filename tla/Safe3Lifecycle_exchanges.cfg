SPECIFICATION FairSpec
CONSTANTS
    Budget = 8
    MaxRecords = 2
INVARIANTS
    RetiredHandlesClosed
    BoundIsServed
    EjectedStaysAbsent
    BusEventsCurrent
PROPERTIES
    GenerationsRefined
    Key3Converges
