\* Online and offline scans of one ticket on two devices and the desk; one undo, support operation and crash.
SPECIFICATION Spec
CONSTANTS
    Tickets = {t1}
    Devices = {d1, d2}
    Desk = Desk
    Workers = {w1, w2}
    NoRow = NoRow
    NoWorker = NoWorker
    MaxGen = 1
    Budget <- MCBudget
    Scans = 3
    Undos = 1
    Staff = 1
    Drops = 0
    Crashes = 1
SYMMETRY Same
INVARIANTS TypeOK AcceptedOnceOnline AdmissionRecorded OfflineConflictsTold
PROPERTY VoidStaysVoid
CHECK_DEADLOCK FALSE
