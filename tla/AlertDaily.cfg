SPECIFICATION FairSpec
CONSTANTS
    j1 = j1
    j2 = j2
    t3 = t3
    Alert = {a1}
    Job = {j1}
    Task = {t1}
    JobOf <- MCJobOf
    Criteria <- MCCriteria
    FromCrawl = {t1}
    Frequency = {"DAILY"}
    Attempts = 2
    MaxStalled = 0
    Keep = 20
    TaskSlots = 2
    EmailSlots = 2
    Days = 2
    Week = 2
    MaxFaults = 2
    MaxEdits = 1
PROPERTIES
    DailyIsDelivered
CHECK_DEADLOCK FALSE
