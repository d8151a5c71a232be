SPECIFICATION Spec
CONSTANTS
    r1 = r1
    r2 = r2
    lower = lower
    upper = upper
    Addresses = {lower, upper}
    Inferred <- MCInferred
    Labels = {kitchen}
    Requests = {r1, r2}
    MaxId = 3
    NoAddress = NoAddress
    NoLabel = NoLabel
    NoType = NoType
SYMMETRY Symmetry
INVARIANTS TypeOK DialledAsGiven SchemaComplete
PROPERTY ChangesItsOwn
