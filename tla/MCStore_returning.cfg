SPECIFICATION Spec
CONSTANTS
    t1 = t1
    t2 = t2
    t3 = t3
    Orgs = {"A", "B"}
    Db <- MCDb
    Slugs = {"show"}
    MaxSuffix = 3
    Events = {1, 2, 3}
    Tabs = {t1, t2, t3}
    Staff <- MCStaff
    Instances = {i1}
    Scenarios <- MCReturning
    Images = {"image"}
    Covers = 2
    Items = 2
    OneOff = {"countdown"}
    Names = {"rui"}
    Employer <- MCEmployer
    Tokens = {"k1", "k2", "k3"}
    Codes = {"code"}
    People = {"ana"}
    Phones = {"phone1"}
    FirstId <- MCFirstId
    Orders = {"o1"}
    Workers = {w1}
    Buyers = {"buyer"}
    FirstShelf <- MCFirstShelf
    Prices = {1200}
    MaxUnits = 1
CHECK_DEADLOCK FALSE
PROPERTIES
    RetentionReachesAll
