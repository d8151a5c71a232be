SPECIFICATION LiveSpec
CONSTANTS
    a1 = a1
    a2 = a2
    Addresses = {a1}
    MaxId = 2
    Base = 1
    Factor = 2
    Cap = 4
    Elapsed = {1, 2}
PROPERTIES DropNoticed TriedUntilBack LinkIsBooked
