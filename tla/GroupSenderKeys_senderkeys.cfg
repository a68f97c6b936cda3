SPECIFICATION GroupKeysSpec
CONSTANTS
    Handler = {a}
    Owner = o
    Guest = {g}
    MaxEpoch = 2
    MaxKeys = 1
    MaxFaults = 0
PROPERTY CleanupKeepsLiveKeys
CHECK_DEADLOCK FALSE
