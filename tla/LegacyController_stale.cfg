SPECIFICATION Spec
CONSTANTS
    Endpoint = {1, 3}
    Packet = {p1}
    Empty = Empty
    MaxDepth = 2
    Records <- AllRecords
    MaxRecords = 1
INVARIANT PollResultsCurrent
