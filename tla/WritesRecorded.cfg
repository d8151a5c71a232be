SPECIFICATION Spec
CONSTANTS
    r1 = r1
    r2 = r2
    r3 = r3
    Requests = {r1, r2, r3}
    Values <- Halves
    Kinds <- Small
    NoValue = NoValue
    Nobody = Nobody
    MaxQueue = 4
SYMMETRY Symmetry
INVARIANTS TypeOK RecordIsObeyed
