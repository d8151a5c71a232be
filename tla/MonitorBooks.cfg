\* Two devices and two registrations: a tick holds rows of both.
SPECIFICATION Spec
CONSTANTS
    a1 = a1
    a2 = a2
    Addresses = {a1, a2}
    MaxId = 2
    Base = 1
    Factor = 2
    Cap = 3
    Elapsed = {1}
SYMMETRY Symmetry
INVARIANTS TypeOK BackoffBounded StampsMatchReports Bookkeeping
PROPERTY AnnouncementsSpec
