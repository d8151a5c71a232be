SPECIFICATION LiveSpec
CONSTANTS
    r1 = r1
    r2 = r2
    t1 = t1
    t2 = t2
    t3 = t3
    d1 = d1
    d2 = d2
    Requests = {r1, r2}
    Devices = {d1}
    Threads = {t1, t2}
    NoThread = NoThread
    NoDevice = NoDevice
    Nobody = Nobody
    Scanner = Scanner
INVARIANTS TypeOK OneMonitor
PROPERTIES StoppedEnds WindowRestores
