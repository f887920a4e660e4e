CONSTANTS
    k1 = k1
    k2 = k2
    Keys = {k1, k2}
    Streamed = {k2}
    Polled = {k1}
    Scanned = {}
    Retention = 1
    MaxLag = 1
    MaxSlot = 4
SPECIFICATION Spec
PROPERTY ResumeReplaysOutage
