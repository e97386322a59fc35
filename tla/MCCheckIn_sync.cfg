\* Two devices; an answer may be lost while its request goes on.
SPECIFICATION FairSpec
CONSTANTS
    Tickets = {t1}
    Devices = {d1, d2}
    Desk = Desk
    Workers = {w1, w2}
    NoRow = NoRow
    NoWorker = NoWorker
    MaxGen = 1
    Budget <- MCBudget
    Scans = 2
    Undos = 0
    Staff = 1
    Drops = 1
    Crashes = 0
PROPERTY AdmissionsArrive
CHECK_DEADLOCK FALSE
