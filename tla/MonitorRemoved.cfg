SPECIFICATION LiveSpec
CONSTANTS
    a1 = a1
    a2 = a2
    Addresses = {a1}
    MaxId = 2
    Base = 1
    Factor = 2
    Cap = 2
    Elapsed = {1}
PROPERTY RemovedIsLetGo
