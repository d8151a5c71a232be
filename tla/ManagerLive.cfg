SPECIFICATION LiveSpec
CONSTANTS
    p1 = p1
    p2 = p2
    p3 = p3
    w1 = w1
    w2 = w2
    w3 = w3
    c1 = c1
    c2 = c2
    c3 = c3
    a1 = a1
    Callers = {p1, p2}
    Addresses = {a1}
    Workers = {w1}
    Cmds = {c1, c2}
    NoWorker = NoWorker
    NoCmd = NoCmd
    Scanner = Scanner
PROPERTIES UnregisteredExits LossIsSeen ScanGetsAdapter
