SPECIFICATION MCSpec
CONSTANTS
    Workers = {w1, w2, w3}
    CoreWorkers = {w1, w2}
    Conns = {c1, c2}
    Loop = Loop
    NoTask = NoTask
    Tasks = {Loop, c1, c2}
    Callers = {"main", Loop}
    MaxRequests = 1
    EventFaults = TRUE
    Links = {c1, c2}
    Nobody = Nobody
 
PROPERTIES  StopCompletes
CHECK_DEADLOCK FALSE
