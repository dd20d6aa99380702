SPECIFICATION Spec
CONSTANTS
    Clients = {c1, c2}
    ReplyCapacity = 6
    MaxStarts = 2
    MaxKills = 1
INVARIANTS
    TypeOK
    InStep
    QuietIsEmpty
    BlockedMeansOwed
PROPERTIES
    
    ClientsEnd
    ShutdownEnds
CHECK_DEADLOCK FALSE
