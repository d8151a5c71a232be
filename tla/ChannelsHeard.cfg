SPECIFICATION Spec
CONSTANTS
    r1 = r1
    r2 = r2
    u1 = u1
    u2 = u2
    Uuids = {u1}
    Requests = {r1, r2}
    Monitor = Monitor
    MaxId = 3
    NoUuid = NoUuid
    Nobody = Nobody
SYMMETRY Symmetry
INVARIANTS TypeOK HeardIsShown
PROPERTY NobodySilenced
